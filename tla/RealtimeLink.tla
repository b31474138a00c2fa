---------------------------- MODULE RealtimeLink ----------------------------
(***************************************************************************)
(* One page in one room: VoiceSession (web controllers/voice-session.ts)   *)
(* keeps a transport open (realtime-transport.ts): a gRPC subscription     *)
(* whose uplink is one unary call after another, or a WebSocket where gRPC *)
(* never opened.  The service (server/src/grpc.rs, lib.rs) keeps a session *)
(* per subscription, and hands what it accepts to the room.                *)
(*                                                                         *)
(* What the page says through a transport is numbered.  RoomHub models     *)
(* what the room does with it, for instance with that of a muted member.   *)
(***************************************************************************)
EXTENDS Naturals, Sequences

CONSTANTS
    MaxTransports,  \* bound: transports the page opens
    MaxSaid         \* bound: things the page says through one of them

ASSUME LinkAssumption == MaxTransports \in Nat \ {0} /\ MaxSaid \in Nat

VARIABLES
    tab,            \* VoiceSession
    transports,     \* the page's ends
    spoken,         \* what the page said: batched, and chained or on the wire
    calls,          \* SendRealtime calls the service has not answered
    sessions,       \* the service's ends
    heard,          \* handed to the room
    broken,         \* history: transports of which a call failed
    doubled         \* history: one close was reported twice
linkVars == <<tab, transports, spoken, calls, sessions, heard, broken, doubled>>

Transports == 1..MaxTransports
NoTransport == 0
Nothing == <<>>
Unspoken == [said |-> 0, pending |-> <<>>, chain |-> <<>>, waiting |-> Nothing]

LinkInit ==
    /\ tab = [transport |-> NoTransport, opened |-> FALSE, fallback |-> FALSE,
              timer |-> FALSE, strays |-> 0, left |-> FALSE]
    /\ transports = [t \in Transports |-> [kind |-> "grpc", at |-> "unused"]]
    /\ spoken = [t \in Transports |-> Unspoken]
    /\ calls = {}
    /\ sessions = [t \in Transports |-> "none"]
    /\ heard = <<>>
    /\ broken = {} /\ doubled = FALSE

IsOpen(t) == transports[t].at = "open"
Unopened == {t \in Transports : transports[t].at = "unused"}

-----------------------------------------------------------------------------
(* The page opens transports.                                              *)

\* The transport that is current is closed first: its callbacks stay silent.
Opened(kind, t) ==
    [u \in Transports |->
        IF u = t THEN [kind |-> kind, at |-> "connecting"]
        ELSE IF u = tab.transport THEN [transports[u] EXCEPT !.at = "closed"]
        ELSE transports[u]]

\* Audio that is still batched goes with a transport that is closed.
Forget(t) == [spoken EXCEPT ![t].pending = <<>>]

\* Mutant: the reconnect timer outlives the session.
LeaveTimer ==
    /\ tab' = [tab EXCEPT !.transport = NoTransport, !.left = TRUE]
    /\ transports' = [t \in Transports |->
          IF t = tab.transport THEN [transports[t] EXCEPT !.at = "closed"] ELSE transports[t]]

\* disconnect, for good.  The timer it knows of is cleared.
Close ==
    /\ tab' = [tab EXCEPT !.transport = NoTransport, !.timer = FALSE, !.left = TRUE]
    /\ transports' = [t \in Transports |->
          IF t = tab.transport THEN [transports[t] EXCEPT !.at = "closed"] ELSE transports[t]]

Destroy ==
    /\ ~tab.left
    /\ Close
    /\ spoken' = IF tab.transport = NoTransport THEN spoken ELSE Forget(tab.transport)
    /\ UNCHANGED <<calls, sessions, heard, broken, doubled>>

\* connect: by the page that enters the room, or by a timer.
Connect ==
    /\ \E t \in Unopened :
          /\ \A u \in Unopened : t <= u
          /\ transports' = Opened("grpc", t)
          /\ sessions' = [sessions EXCEPT ![t] = "asked"]
          /\ tab' = [tab EXCEPT !.transport = t, !.opened = FALSE, !.fallback = FALSE,
                        !.timer = FALSE, !.strays = IF @ = 0 THEN 0 ELSE @ - 1]
    /\ spoken' = IF tab.transport = NoTransport THEN spoken ELSE Forget(tab.transport)
    /\ UNCHANGED <<calls, heard, broken, doubled>>

EnterRoom ==
    /\ tab.transport = NoTransport /\ ~tab.left /\ sessions[1] = "none"
    /\ Connect

\* A timer whose number was overwritten cannot be cleared any more.  It was
\* set before the one that is known, and fires before it.
TimerFires == (tab.timer \/ tab.strays > 0) /\ Connect

\* The close callback: the first transport that never opened is followed by a
\* WebSocket at once, everything else by a timer.
CloseReported(t, times) ==
    IF tab.transport # t THEN
        /\ transports' = [transports EXCEPT ![t].at = "closed"]
        /\ UNCHANGED <<tab, sessions, doubled>>
    ELSE IF ~tab.opened /\ ~tab.fallback THEN
        /\ UNCHANGED doubled
        /\ \E u \in Unopened :
              /\ \A w \in Unopened : u <= w
              /\ transports' = Opened("websocket", u)
              /\ sessions' = [sessions EXCEPT ![u] = "asked"]
              /\ tab' = [tab EXCEPT !.transport = u, !.fallback = TRUE]
    ELSE
        /\ transports' = [transports EXCEPT ![t].at = "closed"]
        /\ tab' = [tab EXCEPT !.timer = TRUE, !.strays = @ + (times - 1)]
        /\ doubled' = (doubled \/ times > 1)
        /\ UNCHANGED sessions

\* The stream ends or fails; a socket reports an error and then the close.
Breaks(t) ==
    /\ transports[t].at \in {"connecting", "open"}
    /\ \E times \in IF transports[t].kind = "websocket" THEN {1, 2} ELSE {1} :
          CloseReported(t, times)
    /\ spoken' = Forget(t)
    /\ UNCHANGED <<calls, heard, broken>>

\* RoomSubscribed is the first message, and carries the session's number.
FirstMessage(t) ==
    /\ transports[t].at = "connecting" /\ sessions[t] \in {"open", "ending"}
    /\ transports' = [transports EXCEPT ![t].at = "open"]
    /\ tab' = [tab EXCEPT !.opened = TRUE]
    /\ UNCHANGED <<spoken, calls, sessions, heard, broken, doubled>>

-----------------------------------------------------------------------------
(* The page speaks.                                                        *)

Enqueue(s, payload) ==
    IF payload = Nothing THEN s ELSE [s EXCEPT !.chain = Append(@, payload)]

\* Mutant: an event overtakes the batch.
Overtake(t) ==
    LET n == spoken[t].said + 1
    IN  spoken' = [spoken EXCEPT ![t].said = n, ![t].chain = Append(@, <<n>>)]

\* sendJson: the batched audio goes first.
SayEvent(t) ==
    LET n == spoken[t].said + 1
        flushed == Enqueue(spoken[t], spoken[t].pending)
    IN  spoken' = [spoken EXCEPT ![t] =
                      Enqueue([flushed EXCEPT !.said = n, !.pending = <<>>], <<n>>)]

\* sendAudio: 64 ms or 8 KiB are one message; a socket sends it as it comes.
SayAudio(t) ==
    LET n == spoken[t].said + 1
        batch == Append(spoken[t].pending, n)
        now == transports[t].kind = "websocket"
    IN  \E full \in {TRUE, now} :
           spoken' = [spoken EXCEPT ![t] =
              IF full THEN Enqueue([@ EXCEPT !.said = n, !.pending = <<>>], batch)
                      ELSE [@ EXCEPT !.said = n, !.pending = batch]]

Say(t) ==
    /\ tab.transport = t /\ IsOpen(t) /\ spoken[t].said < MaxSaid
    /\ SayEvent(t) \/ SayAudio(t)
    /\ UNCHANGED <<tab, transports, calls, sessions, heard, broken, doubled>>

FlushTimer(t) ==
    /\ IsOpen(t) /\ spoken[t].pending # <<>>
    /\ spoken' = [spoken EXCEPT ![t] = Enqueue([@ EXCEPT !.pending = <<>>], spoken[t].pending)]
    /\ UNCHANGED <<tab, transports, calls, sessions, heard, broken, doubled>>

\* What is chained is sent, also after close: closed is asked for before.
StartCall(t) ==
    /\ transports[t].kind = "grpc"
    /\ spoken[t].waiting = Nothing /\ spoken[t].chain # <<>>
    /\ calls' = calls \cup {[of |-> t, payload |-> Head(spoken[t].chain), step |-> "sent"]}
    /\ spoken' = [spoken EXCEPT ![t].waiting = Head(spoken[t].chain), ![t].chain = Tail(@)]
    /\ UNCHANGED <<tab, transports, sessions, heard, broken, doubled>>

IsAwaited(c) == spoken[c.of].waiting = c.payload

\* fail: nothing happens to a transport that is closed already.
Fail(t) ==
    IF transports[t].at = "closed" THEN UNCHANGED <<tab, transports, sessions, doubled>>
    ELSE CloseReported(t, 1)

\* The answer arrives.
Returns(c) ==
    /\ c.step \in {"accepted", "refused"} /\ IsAwaited(c)
    /\ calls' = calls \ {c}
    /\ IF c.step = "refused"
         THEN /\ broken' = broken \cup {c.of}
              /\ Fail(c.of)
              /\ spoken' = [Forget(c.of) EXCEPT ![c.of].waiting = Nothing]
         ELSE /\ spoken' = [spoken EXCEPT ![c.of].waiting = Nothing]
              /\ UNCHANGED <<tab, transports, sessions, broken, doubled>>
    /\ UNCHANGED heard

\* The request or its answer is lost: the service may still be handling it.
CallFails(c) ==
    /\ IsAwaited(c)
    /\ calls' \in {calls, calls \ {c}}
    /\ broken' = broken \cup {c.of}
    /\ Fail(c.of)
    /\ spoken' = [Forget(c.of) EXCEPT ![c.of].waiting = Nothing]
    /\ UNCHANGED heard

-----------------------------------------------------------------------------
(* The service.                                                            *)

Goes(t, from, to) ==
    /\ sessions[t] = from
    /\ sessions' = [sessions EXCEPT ![t] = to]
    /\ UNCHANGED <<tab, transports, spoken, calls, heard, broken, doubled>>

\* Login, the room's status, membership and engines; the page sees the stream
\* fail.  A caller that gives up is not answered.
RefuseSubscription(t) == Goes(t, "asked", "ended")

\* rooms.connect counts the connection, ...
Admit(t) == Goes(t, "asked", "counted")

\* ... and the task that will take it back is spawned after one more await.
Register(t) == Goes(t, "counted", "open")

\* A gRPC caller that is gone by then takes the handler with it.
Abandon(t) ==
    /\ transports[t] = [kind |-> "grpc", at |-> "closed"]
    /\ Goes(t, "counted", "leaked")

\* Revoked, lagged, the room closed, or the page gone, which a subscription
\* notices with its next event.
EndSubscription(t) == Goes(t, "open", "ending")

\* sessions.remove, then rooms.disconnect.
RemoveSession(t) == Goes(t, "ending", "ended")

Answer(c, step) == calls' = (calls \ {c}) \cup {[c EXCEPT !.step = step]}

\* send_realtime: works on a copy of the session from here on.
FindSession(c) ==
    /\ c.step = "sent"
    /\ Answer(c, IF sessions[c.of] \in {"open", "ending"} THEN "found" ELSE "refused")
    /\ UNCHANGED <<tab, transports, spoken, sessions, heard, broken, doubled>>

HandOver(t, payload) == heard' = heard \o [i \in DOMAIN payload |-> <<t, payload[i]>>]

Accept(c) ==
    /\ c.step = "found"
    /\ HandOver(c.of, c.payload)
    /\ IF IsAwaited(c) THEN Answer(c, "accepted") ELSE calls' = calls \ {c}
    /\ UNCHANGED <<tab, transports, spoken, sessions, broken, doubled>>

\* handle_socket reads one frame after another.
ReadFrame(t) ==
    /\ transports[t].kind = "websocket" /\ sessions[t] = "open"
    /\ spoken[t].chain # <<>>
    /\ HandOver(t, Head(spoken[t].chain))
    /\ spoken' = [spoken EXCEPT ![t].chain = Tail(@)]
    /\ UNCHANGED <<tab, transports, calls, sessions, broken, doubled>>

LinkNext ==
    \/ EnterRoom \/ TimerFires \/ Destroy
    \/ \E t \in Transports :
          \/ Breaks(t) \/ FirstMessage(t) \/ Say(t) \/ FlushTimer(t) \/ StartCall(t)
          \/ RefuseSubscription(t) \/ Admit(t) \/ Register(t) \/ Abandon(t) \/ EndSubscription(t)
          \/ RemoveSession(t) \/ ReadFrame(t)
    \/ \E c \in calls : Returns(c) \/ CallFails(c) \/ FindSession(c) \/ Accept(c)

LinkSpec == LinkInit /\ [][LinkNext]_linkVars

-----------------------------------------------------------------------------
Payloads == Seq(1..MaxSaid)

LinkTypeOK ==
    /\ tab \in [transport : 0..MaxTransports, opened : BOOLEAN, fallback : BOOLEAN,
                timer : BOOLEAN, strays : Nat, left : BOOLEAN]
    /\ transports \in [Transports -> [kind : {"grpc", "websocket"},
                                      at : {"unused", "connecting", "open", "closed"}]]
    /\ \A t \in Transports :
          /\ spoken[t].said \in 0..MaxSaid /\ spoken[t].pending \in Payloads
          /\ spoken[t].chain \in Seq(Payloads) /\ spoken[t].waiting \in Payloads
    /\ \A c \in calls : /\ c.of \in Transports /\ c.payload \in Payloads
                        /\ c.step \in {"sent", "found", "accepted", "refused"}
    /\ sessions \in [Transports ->
          {"none", "asked", "counted", "open", "ending", "ended", "leaked"}]
    /\ heard \in Seq(Transports \X (1..MaxSaid))
    /\ broken \subseteq Transports /\ doubled \in BOOLEAN

NumberHeard(i) == heard[i][2]
Through(t) == {i \in DOMAIN heard : heard[i][1] = t}

\* "SendRealtime accepts ordered client events": the room gets what was said
\* through a transport in the order it was said and without a gap, audio that
\* waits in the batch before the event that ends it, also while the page
\* closes the transport or the service ends the session.  Once a call has
\* failed the calls chained behind it are made all the same, and nothing is
\* promised of them (realtime-transport.ts 69, grpc.rs 241).
UplinkIsOrdered ==
    \A t \in Transports \ broken : \A j \in Through(t) :
        /\ \A i \in Through(t) : i < j => NumberHeard(i) < NumberHeard(j)
        /\ \A n \in 1..(NumberHeard(j) - 1) : \E i \in Through(t) : i < j /\ NumberHeard(i) = n

\* A page that left the room does not come back to it: destroy ends the
\* transport and the wait for the next one, whatever broke before
\* (voice-session.ts 154, 167).  A socket that reports both an error and its
\* close is excepted: the first of its two timers can no longer be cleared.
LeftPagesStayOut == tab.left /\ ~doubled => tab.transport = NoTransport
=============================================================================
