----------------------------- MODULE BrowserVad -----------------------------
(***************************************************************************)
(* The detector in the client: BrowserAudioVad (web-vad/src/lib.rs) turns  *)
(* 32 ms frames into segments, and its worker (web/static/vad-worker.js)   *)
(* hands segments to the page.  A block of samples is processed whole      *)
(* before the worker drains the frames that it made.                       *)
(*                                                                         *)
(* A frame is what the thresholds tell apart: Silero's verdict, whether    *)
(* its level reaches the start, active and enhanced start levels under the *)
(* present noise floor, and the shape of its waveform.  Frames are         *)
(* numbered so that a lost or repeated one shows.                          *)
(***************************************************************************)
EXTENDS Integers, Sequences

CONSTANTS
    BlockFrames,    \* frames of one block: 2048 samples of 48 kHz are at most 2
    EndSilence,     \* END_SILENCE_FRAMES
    MaxActive,      \* max_active_frames
    Continuation,   \* FORCED_CONTINUATION_FRAMES
    Hangover,       \* ENERGY_HANGOVER_FRAMES
    PreRollDefault, \* PRE_ROLL_FRAMES
    PreRollEnhanced,\* ENHANCED_PRE_ROLL_FRAMES
    HumLock,        \* ENHANCED_HUM_LOCK_FRAMES
    HumClear,       \* ENHANCED_HUM_CLEAR_FRAMES
    Confirmed,      \* MIN_CONFIRMED_SPEECH_FRAMES
    Numbers         \* bound: frames are numbered modulo this

ASSUME VadAssumption ==
    /\ {BlockFrames, EndSilence, MaxActive, Continuation, Hangover, PreRollDefault,
        PreRollEnhanced, HumLock, HumClear, Confirmed} \subseteq Nat \ {0}
    /\ MaxActive > EndSilence + 2 * Hangover
    /\ Numbers \in Nat /\ Numbers > PreRollEnhanced + 1

VARIABLES
    vad,        \* the gate and the detector
    preRoll,    \* the frames before a possible start
    ready,      \* the frames of segments that the worker has not taken
    block,      \* frames of this block since it made one of those
    worker,     \* the worker's own state
    clock,      \* history: the number of the next frame
    sent,       \* history: what the page has been sent
    unheard,    \* history: frames since speech was last confirmed, by Silero
                \*   or, after a hum, by the structure of the sound
    unsure      \* history: frames since Silero confirmed it, or a hum that
                \*   was overcome let the structure stand in for Silero
vadVars == <<vad, preRoll, ready, block, worker, clock, sent, unheard, unsure>>

Fresh == [speaking |-> FALSE, silence |-> 0, frames |-> 0, continuation |-> 0, quiet |-> 0,
          confirmed |-> 0, completed |-> 0,
          locked |-> FALSE, humRun |-> 0, clearRun |-> 0, recovered |-> FALSE]
NewWorker == [capture |-> "on", enhanced |-> FALSE,
         active |-> FALSE, accepted |-> FALSE, pending |-> <<>>]
LongQuiet == EndSilence + 2 * Hangover
NoNumber == -1

Shapes == {"noise", "hum", "clear", "other"}
Frames(enhanced) ==
    IF enhanced
      THEN {f \in [sure : BOOLEAN, start : BOOLEAN, active : BOOLEAN, loud : BOOLEAN,
                   shape : Shapes] :
              /\ f.start => f.active /\ f.loud
              /\ f.shape = "hum" => f.start}
      ELSE [sure : BOOLEAN, start : BOOLEAN, active : BOOLEAN, loud : {FALSE},
            shape : {"noise", "clear"}]

VadInit ==
    /\ vad = Fresh /\ preRoll = <<>> /\ ready = <<>> /\ block = 0
    /\ \E enhanced \in BOOLEAN : worker = [NewWorker EXCEPT !.enhanced = enhanced]
    /\ sent = [open |-> FALSE, last |-> NoNumber, whole |-> TRUE]
    /\ unheard = LongQuiet /\ unsure = LongQuiet /\ clock = 0

-----------------------------------------------------------------------------
(* One frame through the detector.                                         *)

CountTo(n, limit) == IF n < limit THEN n + 1 ELSE n

\* frame_is_speech_like: a lasting hum locks the enhanced filter; frames with
\* the structure of speech unlock it, and from then to the end of the segment
\* such a frame is voice whatever Silero says of it.
Shape(v, f) ==
    LET unlike == [v |-> v, like |-> FALSE, override |-> FALSE, voice |-> FALSE]
        noHum == [v EXCEPT !.humRun = 0]
        clear == f.loud /\ f.shape = "clear"
        locks == v.humRun + 1 >= HumLock
    IN  CASE f.shape = "noise" -> unlike
          [] f.shape # "noise" /\ ~worker.enhanced -> [unlike EXCEPT !.like = TRUE]
          [] worker.enhanced /\ f.shape = "hum" ->
               [unlike EXCEPT !.v =
                  IF ~locks THEN [v EXCEPT !.humRun = @ + 1]
                  ELSE [v EXCEPT !.locked = TRUE, !.humRun = 0, !.clearRun = 0,
                                 !.recovered = FALSE,
                                 !.confirmed = IF ~v.recovered /\ v.speaking THEN 0 ELSE @]]
          [] worker.enhanced /\ f.shape \in {"clear", "other"} /\ ~v.locked ->
               [unlike EXCEPT !.v = noHum, !.like = TRUE, !.voice = v.recovered /\ clear]
          [] worker.enhanced /\ f.shape \in {"clear", "other"} /\ v.locked ->
               IF ~clear
                 THEN [unlike EXCEPT !.v = [noHum EXCEPT
                         !.clearRun = IF @ > 0 THEN @ - 1 ELSE 0]]
               ELSE IF v.clearRun + 1 < HumClear
                 THEN [unlike EXCEPT !.v = [noHum EXCEPT !.clearRun = @ + 1]]
               ELSE [v |-> [noHum EXCEPT !.locked = FALSE, !.clearRun = 0, !.recovered = TRUE],
                     like |-> TRUE, override |-> TRUE, voice |-> TRUE]

AcceptsEnergy(v) == v.speaking \/ v.continuation > 0

\* Energy bridges what Silero misses, for a few frames.
Bridges(v, quiet, f) == AcceptsEnergy(v) /\ quiet <= Hangover /\ f.active

\* SpeechGate::process: the new gate and the boundary the frame makes.
Gate(v, voiced) ==
    LET silence == IF voiced THEN 0 ELSE v.silence + 1
        forced == v.frames + 1 >= MaxActive
    IN  IF ~v.speaking
          THEN IF voiced
                 THEN [v |-> [v EXCEPT !.speaking = TRUE, !.silence = 0, !.frames = 1,
                                       !.continuation = 0],
                       flags |-> "started"]
                 ELSE [v |-> [v EXCEPT !.continuation = IF @ > 0 THEN @ - 1 ELSE 0],
                       flags |-> "none"]
        ELSE IF silence >= EndSilence \/ forced
          THEN [v |-> [v EXCEPT !.speaking = FALSE, !.silence = 0, !.frames = 0,
                         !.continuation = IF forced /\ voiced THEN Continuation ELSE 0],
                flags |-> "ended"]
        ELSE [v |-> [v EXCEPT !.silence = silence, !.frames = @ + 1], flags |-> "active"]

\* push_resampled: the frame is judged, gated and counted.
Judge(f) ==
    LET shape == Shape(vad, f)
        voice == (f.sure \/ shape.voice) /\ f.start /\ shape.like
        quiet == IF voice THEN 0 ELSE CountTo(vad.quiet, Hangover + 1)
        gate == Gate([shape.v EXCEPT !.quiet = quiet],
                     voice \/ Bridges(shape.v, quiet, f))
        base == IF gate.flags # "started" THEN shape.v.confirmed
                ELSE IF shape.override THEN HumClear ELSE 0
        count == IF voice /\ (vad.speaking \/ gate.flags = "started")
                   THEN CountTo(base, Confirmed) ELSE base
        ended == gate.flags = "ended"
    IN  [flags |-> gate.flags, voice |-> voice,
         backed |-> (f.sure /\ f.start /\ shape.like) \/ shape.v.recovered,
         v |-> [gate.v EXCEPT
                  !.confirmed = count,
                  !.completed = IF ended THEN count
                                ELSE IF gate.flags = "started" THEN 0 ELSE @,
                  !.quiet = IF ended THEN 0 ELSE @,
                  !.recovered = @ /\ ~ended]]

-----------------------------------------------------------------------------
(* Routing: a segment starts with the frames before it.                    *)

Routed(number, flags) ==
    [number |-> number, starts |-> FALSE, ends |-> flags = "ended"]

\* Mutant: the frame that starts a segment is left out of its own pre-roll.
OpeningWithoutFrame(number) ==
    [i \in 1..Len(preRoll) |-> [Routed(preRoll[i], "active") EXCEPT !.starts = i = 1]]

Opening(number) ==
    LET all == Append(preRoll, number)
    IN  [i \in 1..Len(all) |-> [Routed(all[i], "active") EXCEPT !.starts = i = 1]]

PreRollFrames == IF worker.enhanced THEN PreRollEnhanced ELSE PreRollDefault

\* One more frame of a block, while the worker drains nothing.
Feed(f) ==
    LET judged == Judge(f)
        flags == judged.flags
        segment == vad.speaking \/ flags = "started"
    IN  /\ worker.capture = "on" /\ block < BlockFrames
        /\ vad' = judged.v
        /\ ready' = ready \o
             (IF flags = "started" THEN Opening(clock)
              ELSE IF vad.speaking THEN <<Routed(clock, flags)>> ELSE <<>>)
        /\ preRoll' = IF segment THEN <<>>
                      ELSE Append(IF Len(preRoll) = PreRollFrames THEN Tail(preRoll)
                                  ELSE preRoll, clock)
        /\ block' = IF ready' = <<>> THEN 0 ELSE block + 1
        /\ clock' = (clock + 1) % Numbers
        /\ unheard' = IF judged.voice THEN 0 ELSE CountTo(unheard, LongQuiet)
        /\ unsure' = IF judged.backed THEN 0 ELSE CountTo(unsure, LongQuiet)
        /\ UNCHANGED <<worker, sent>>

-----------------------------------------------------------------------------
(* The worker: drainFrames, flush, suppress and init.                      *)

\* voice_elf_audio_segment_speech_frames, as it is when the worker asks.
SpeechFrames == IF vad.speaking THEN vad.confirmed ELSE vad.completed

\* What the page has been sent, after the frames `numbers', a start, an end.
PostStart(s) == [s EXCEPT !.open = TRUE, !.last = NoNumber, !.whole = @ /\ ~s.open]
PostFrames(s, numbers) ==
    LET all == IF s.last = NoNumber THEN numbers ELSE <<s.last>> \o numbers
    IN  [s EXCEPT !.last = numbers[Len(numbers)],
                  !.whole = /\ @ /\ s.open
                            /\ \A i \in 1..(Len(all) - 1) : all[i + 1] = (all[i] + 1) % Numbers]
PostEnd(s) == [s EXCEPT !.open = FALSE, !.last = NoNumber, !.whole = @ /\ s.open]

\* The enhanced filter holds a segment back until enough of it is confirmed.
Drain ==
    LET f == Head(ready)
        began == IF f.starts
                   THEN [worker EXCEPT !.active = TRUE, !.accepted = ~worker.enhanced,
                                       !.pending = <<>>]
                   ELSE worker
        held == Append(began.pending, f.number)
        accepts == ~began.accepted /\ SpeechFrames >= Confirmed
        opened == IF (f.starts /\ began.accepted) \/ accepts THEN PostStart(sent) ELSE sent
        posted == IF began.accepted THEN PostFrames(opened, <<f.number>>)
                  ELSE IF accepts THEN PostFrames(opened, held) ELSE opened
        after == [began EXCEPT !.accepted = @ \/ accepts,
                               !.pending = IF began.accepted \/ accepts THEN <<>> ELSE held]
    IN  /\ ready # <<>>
        /\ ready' = Tail(ready)
        /\ block' = IF Len(ready) = 1 THEN 0 ELSE BlockFrames
        /\ IF f.ends
             THEN /\ worker' = [after EXCEPT !.active = FALSE, !.accepted = FALSE, !.pending = <<>>]
                  /\ sent' = IF after.accepted THEN PostEnd(posted) ELSE posted
             ELSE worker' = after /\ sent' = posted
        /\ UNCHANGED <<vad, preRoll, clock, unheard, unsure>>

Closed == IF worker.active /\ worker.accepted THEN PostEnd(sent) ELSE sent

ResetVad ==
    /\ vad' = Fresh /\ preRoll' = <<>> /\ block' = 0
    /\ UNCHANGED <<ready, clock, unheard, unsure>>

\* `flush' ends the recording; `suppress' stops it while a translation plays.
StopCapture(capture) ==
    /\ worker.capture # "off" /\ ready = <<>>
    /\ worker' = [worker EXCEPT !.capture = capture, !.active = FALSE, !.accepted = FALSE,
                                !.pending = <<>>]
    /\ sent' = Closed
    /\ ResetVad

Flush == StopCapture("off")
Suppress == worker.capture = "on" /\ StopCapture("suppressed")
Resume == worker.capture = "suppressed" /\ StopCapture("on")

\* A new recording makes a new detector, perhaps with the other filter.
StartRecording(enhanced) ==
    /\ worker.capture = "off"
    /\ worker' = [NewWorker EXCEPT !.enhanced = enhanced]
    /\ UNCHANGED sent
    /\ ResetVad

VadNext ==
    \/ \E f \in Frames(worker.enhanced) : Feed(f)
    \/ Drain \/ Flush \/ Suppress \/ Resume
    \/ \E enhanced \in BOOLEAN : StartRecording(enhanced)
VadSpec == VadInit /\ [][VadNext]_vadVars

-----------------------------------------------------------------------------
VadTypeOK ==
    /\ vad.frames \in 0..MaxActive /\ vad.silence \in 0..EndSilence
    /\ vad.confirmed \in 0..Confirmed + HumClear /\ vad.completed \in 0..Confirmed + HumClear
    /\ Len(preRoll) <= PreRollFrames /\ block \in 0..BlockFrames
    /\ clock \in 0..Numbers - 1 /\ unheard \in 0..LongQuiet /\ unsure \in 0..LongQuiet
    /\ worker.capture \in {"on", "suppressed", "off"}

\* What the page is sent is whole segments: starts and ends alternate, frames
\* come only in between, and from the pre-roll to the end none is missing or
\* sent twice, whether the segment was accepted at once or held back, and
\* across forced ends, flushes and suppressions.
SegmentsAreWhole == sent.whole

\* Energy alone covers short gaps and cannot keep segments going, also when a
\* forced end let energy start them: without confirmed speech the segment ends.
\* What confirms is Silero, in a segment in which a hum was overcome also the
\* structure of the sound, and the structure nowhere else.
EnergyOnlyBridges == vad.speaking => unheard < LongQuiet /\ unsure < LongQuiet

\* A segment with enough confirmed frames is no longer held back once the
\* worker has drained them, although it asks for the count of all the frames
\* fed so far while it looks at an earlier one.
ConfirmedSpeechIsSent ==
    ready = <<>> /\ vad.speaking /\ vad.confirmed >= Confirmed => worker.accepted

\* The segments the page is sent: complete, no longer than somebody speaks, and
\* started when enough of them is confirmed.
SegmentsAreSound == SegmentsAreWhole /\ EnergyOnlyBridges /\ ConfirmedSpeechIsSent
=============================================================================
