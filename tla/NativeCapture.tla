--------------------------- MODULE NativeCapture ---------------------------
(***************************************************************************)
(* The capture of system audio by the macOS app: requests of the page      *)
(* start and stop it (web/src-tauri/src/macos_audio_capture.rs), a native  *)
(* object does the work on the main queue (macos_audio_capture.m), and     *)
(* ScreenCaptureKit answers on queues of its own.                          *)
(*                                                                         *)
(* handle_event is two steps, since CAPTURE_ACTIVE and the handle of the   *)
(* app are not stored together.  Samples are counted, and what they say is *)
(* left out.                                                               *)
(***************************************************************************)
EXTENDS Naturals, Sequences

CONSTANTS
    Callers,        \* requests that start a capture at the same time
    MaxCaptures,    \* bound: native captures
    MaxStops        \* bound: requests to stop

ASSUME CaptureAssumption ==
    MaxCaptures \in Nat \ {0} /\ MaxStops \in Nat

VARIABLES
    active,         \* CAPTURE_ACTIVE
    app,            \* CAPTURE_APP holds a handle
    starter,        \* the start requests
    mainQueue,      \* blocks dispatched to the main queue
    current,        \* activeCapture, 0 for nil
    capture,        \* the native captures
    handling,       \* events being handled: on the main thread, or by a callback
    stops,
    crossed         \* history: a start was accepted while an end was under way
captureVars == <<active, app, starter, mainQueue, current, capture, handling, stops, crossed>>

CaptureIds == 1..MaxCaptures
Main       == 0
Threads    == CaptureIds \cup {Main}
NoCapture  == [at |-> "none", stopping |-> FALSE, starting |-> FALSE, owed |-> 0]
\* An event under way: its step, and what follows it on the main queue.
Event(then) == [step |-> "flag", then |-> then]
NoEvent     == [step |-> "none", then |-> "nothing"]

CaptureInit ==
    /\ active = FALSE /\ app = FALSE
    /\ starter = [t \in Callers |-> "idle"]
    /\ mainQueue = <<>>
    /\ current = 0
    /\ capture = [c \in CaptureIds |-> NoCapture]
    /\ handling = [h \in Threads |-> NoEvent]
    /\ stops = 0 /\ crossed = FALSE

MainIsFree == handling[Main] = NoEvent
EndUnderWay ==
    \/ \E h \in Threads : handling[h] # NoEvent
    \/ \E c \in CaptureIds : capture[c].starting \/ capture[c].owed > 0
    \/ \E i \in DOMAIN mainQueue : mainQueue[i] = <<"clear">>

-----------------------------------------------------------------------------
(* The requests.                                                           *)

\* Mutant: a start while one runs is not refused.
StartUnchecked(t) ==
    /\ starter[t] = "idle"
    /\ active' = TRUE
    /\ starter' = [starter EXCEPT ![t] = "swapped"]
    /\ crossed' = (crossed \/ EndUnderWay)
    /\ UNCHANGED <<app, mainQueue, current, capture, handling, stops>>

StartCapture(t) ==
    /\ starter[t] = "idle" /\ ~active
    /\ active' = TRUE
    /\ starter' = [starter EXCEPT ![t] = "swapped"]
    /\ crossed' = (crossed \/ EndUnderWay)
    /\ UNCHANGED <<app, mainQueue, current, capture, handling, stops>>

StoreApp(t) ==
    /\ starter[t] = "swapped"
    /\ app' = TRUE
    /\ starter' = [starter EXCEPT ![t] = "stored"]
    /\ UNCHANGED <<active, mainQueue, current, capture, handling, stops, crossed>>

NativeStart(t) ==
    /\ starter[t] = "stored"
    /\ mainQueue' = Append(mainQueue, <<"start">>)
    /\ starter' = [starter EXCEPT ![t] = "idle"]
    /\ UNCHANGED <<active, app, current, capture, handling, stops, crossed>>

NativeStop ==
    /\ stops < MaxStops
    /\ stops' = stops + 1
    /\ mainQueue' = Append(mainQueue, <<"stop">>)
    /\ UNCHANGED <<active, app, starter, current, capture, handling, crossed>>

-----------------------------------------------------------------------------
(* The main queue runs one block after another.                            *)

Block(block) ==
    /\ MainIsFree
    /\ mainQueue # <<>> /\ Head(mainQueue) = block
    /\ mainQueue' = Tail(mainQueue)
    /\ UNCHANGED <<active, app, starter, stops, crossed>>

Emit(h, then) == handling' = [handling EXCEPT ![h] = Event(then)]

Unused == {c \in CaptureIds : capture[c].at = "none"}

\* Without permission the event is sent before activeCapture becomes nil.
RunStart ==
    /\ Block(<<"start">>)
    /\ \/ current # 0 /\ Emit(Main, "nothing") /\ UNCHANGED <<current, capture>>
       \/ /\ current = 0
          /\ \E c \in Unused :
                /\ \A d \in Unused : c <= d
                /\ current' = c
                /\ \/ Emit(Main, "nil") /\ capture' = [capture EXCEPT ![c].at = "ended"]
                   \/ /\ capture' = [capture EXCEPT ![c].at = "asking"]
                      /\ UNCHANGED handling

\* Only activeCapture holds the object: without it the completion finds nothing.
ContentArrives(c) ==
    /\ capture[c].at = "asking" /\ MainIsFree
    /\ IF current # c \/ capture[c].stopping
         THEN capture' = [capture EXCEPT ![c].at = "ended"] /\ UNCHANGED handling
         ELSE \/ Emit(Main, "nil") /\ capture' = [capture EXCEPT ![c].at = "ended"]
              \/ /\ capture' = [capture EXCEPT ![c].at = "running", ![c].starting = TRUE]
                 /\ UNCHANGED handling
    /\ UNCHANGED <<active, app, starter, mainQueue, current, stops, crossed>>

\* nil takes every message and answers nothing.
RunStop ==
    /\ Block(<<"stop">>)
    /\ IF current = 0 THEN UNCHANGED <<capture, handling>>
       ELSE IF capture[current].at \in {"running", "broken"}
         THEN /\ capture' = [capture EXCEPT ![current].stopping = TRUE,
                                            ![current].owed = @ + 1]
              /\ UNCHANGED handling
         ELSE /\ capture' = [capture EXCEPT ![current].stopping = TRUE]
              /\ Emit(Main, "nil")
    /\ UNCHANGED current

\* Whatever capture is active by now.
RunClear ==
    /\ Block(<<"clear">>)
    /\ current' = 0
    /\ capture' = IF current = 0 THEN capture
                  ELSE [capture EXCEPT ![current].at = "ended"]
    /\ UNCHANGED handling

-----------------------------------------------------------------------------
(* Answers of ScreenCaptureKit, each on a queue of its own.                *)

StartAnswered(c) ==
    /\ capture[c].starting /\ handling[c] = NoEvent
    /\ capture' = [capture EXCEPT ![c].starting = FALSE]
    /\ Emit(c, "clear") \/ UNCHANGED handling
    /\ UNCHANGED <<active, app, starter, mainQueue, current, stops, crossed>>

\* A stop that is asked for twice is answered twice, with an error at the latest.
StopAnswered(c) ==
    /\ capture[c].owed > 0 /\ handling[c] = NoEvent
    /\ capture' = [capture EXCEPT ![c].owed = @ - 1]
    /\ Emit(c, "clear")
    /\ UNCHANGED <<active, app, starter, mainQueue, current, stops, crossed>>

\* didStopWithError: silent if a stop was asked for.  The stream object stays
\* until the capture is cleared.
SystemStops(c) ==
    /\ capture[c].at = "running" /\ handling[c] = NoEvent
    /\ capture' = [capture EXCEPT ![c].at = "broken"]
    /\ IF capture[c].stopping
         THEN mainQueue' = Append(mainQueue, <<"clear">>) /\ UNCHANGED handling
         ELSE Emit(c, "clear") /\ UNCHANGED mainQueue
    /\ UNCHANGED <<active, app, starter, current, stops, crossed>>

\* handle_event of anything but "started": the event is sent to the page.
StoreFlag(h) ==
    /\ handling[h].step = "flag"
    /\ active' = FALSE
    /\ handling' = [handling EXCEPT ![h].step = "app"]
    /\ UNCHANGED <<app, starter, mainQueue, current, capture, stops, crossed>>

ForgetApp(h) ==
    /\ handling[h].step = "app"
    /\ app' = FALSE
    /\ handling' = [handling EXCEPT ![h] = NoEvent]
    /\ current' = IF handling[h].then = "nil" THEN 0 ELSE current
    /\ capture' = IF handling[h].then = "nil" /\ current # 0
                    THEN [capture EXCEPT ![current].at = "ended"] ELSE capture
    /\ mainQueue' = IF handling[h].then = "clear" THEN Append(mainQueue, <<"clear">>)
                                                  ELSE mainQueue
    /\ UNCHANGED <<active, starter, stops, crossed>>

CaptureNext ==
    \/ \E t \in Callers : StartCapture(t) \/ StoreApp(t) \/ NativeStart(t)
    \/ NativeStop \/ RunStart \/ RunStop \/ RunClear
    \/ \E c \in CaptureIds :
          ContentArrives(c) \/ StartAnswered(c) \/ StopAnswered(c) \/ SystemStops(c)
    \/ \E h \in Threads : StoreFlag(h) \/ ForgetApp(h)

CaptureSpec == CaptureInit /\ [][CaptureNext]_captureVars

-----------------------------------------------------------------------------
CaptureTypeOK ==
    /\ active \in BOOLEAN /\ app \in BOOLEAN /\ crossed \in BOOLEAN
    /\ starter \in [Callers -> {"idle", "swapped", "stored"}]
    /\ mainQueue \in Seq({<<"start">>, <<"stop">>, <<"clear">>})
    /\ current \in 0..MaxCaptures
    /\ capture \in [CaptureIds -> [at : {"none", "asking", "running", "broken", "ended"},
                      stopping : BOOLEAN, starting : BOOLEAN, owed : 0..MaxStops]]
    /\ handling \in [Threads ->
                       [step : {"none", "flag", "app"}, then : {"nothing", "nil", "clear"}]]
    /\ stops \in 0..MaxStops

Settled ==
    /\ \A t \in Callers : starter[t] = "idle"
    /\ mainQueue = <<>> /\ ~EndUnderWay

\* When nothing is under way, the status the page reads is the truth: the app
\* says it captures exactly when a native capture exists, and then its samples
\* find the window (macos_audio_capture.rs:32, 117).  Failed permissions,
\* errors of the system and stops at any moment end both.  A start that is
\* accepted while an earlier end is still being handled is excepted.
CaptureIsReported ==
    Settled /\ ~crossed => (active <=> current # 0) /\ (active => app)
=============================================================================
