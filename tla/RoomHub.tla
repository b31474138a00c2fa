------------------------------ MODULE RoomHub ------------------------------
(***************************************************************************)
(* The realtime room of the public service: RoomHub and its one            *)
(* RoomRuntime per room (server/src/room_hub.rs), the WebSocket loop       *)
(* (lib.rs) and the gRPC subscription (grpc.rs) of each connection, the    *)
(* owner's mute handler (api.rs) and the two runtime commands that the     *)
(* command listener applies.  The hub's mutex is released before a command *)
(* is sent to the room's mixer, so each of these is two steps or more.     *)
(*                                                                         *)
(* One room, whose members are Users.  A mixer is the task that            *)
(* start_audio_runtime spawns; of it this module keeps the command queue   *)
(* and the speakers, the segment it mixes is not visible in the hub.  A    *)
(* mixer whose pipeline failed leaves its loop as after Shutdown.  A       *)
(* `Configure` is an "audio" command here: both change no hub state.       *)
(*                                                                         *)
(* A gRPC subscription is counted before its own task exists: the handler  *)
(* awaits the lock of `sessions` in between, and when it is dropped there  *)
(* nobody takes its count down.  A peer that does not read holds its       *)
(* connection in a write for as long as it likes.                          *)
(***************************************************************************)
EXTENDS Integers, Sequences, FiniteSets, Functions

CONSTANTS
    Users, Owner,
    Connections,        \* slots of client connections
    GrpcConnections,    \* those over gRPC, the others are WebSockets
    UserOf,             \* the user of each slot
    ClientKinds,        \* what clients send, of {"start", "audio", "end"}
    Muters,             \* slots of the owner's mute handlers
    AudioCapacity,      \* AUDIO_COMMAND_CAPACITY
    MaxMixers,          \* bound: audio runtimes started
    MaxFailures,        \* bound: pipelines that fail, subscriptions dropped half-way
    MaxChanges          \* bound: administrators' status changes and owner's mutes

ASSUME ConstantsAssumption ==
    /\ Owner \in Users
    /\ GrpcConnections \subseteq Connections
    /\ IsFiniteSet(Connections)
    /\ UserOf \in [Connections -> Users]
    /\ ClientKinds \subseteq {"start", "audio", "end"}
    /\ AudioCapacity \in Nat \ {0}
    /\ MaxMixers \in Nat
    /\ MaxFailures \in Nat
    /\ MaxChanges \in Nat

VARIABLES
    active, roomOpen, mutedRow, orders,             \* database, commands under way
    present, muted, connections, speaking, audioTx, \* the room's RoomRuntime
    stage, queue, speakers,                         \* the mixers
    link, snapshot, revoked, uplink, leaving,       \* the connections
    listener, muter,                                \* the command listener, the mute handlers
    mixers, failures, changes,
    lost,               \* history: counts of each user that dropped subscriptions left behind
    strayed,            \* history: the room's mixer when a subscription was dropped
    broken              \* history: mixers whose pipeline failed

dbVars    == <<active, roomOpen, mutedRow, orders>>
hubVars   == <<present, muted, connections, speaking, audioTx>>
mixerVars == <<stage, queue, speakers>>
linkVars  == <<link, snapshot, revoked, uplink, leaving>>
counters  == <<mixers, failures, changes>>
history   == <<lost, strayed, broken>>
vars == <<dbVars, hubVars, mixerVars, linkVars, listener, muter, counters, history>>

Mixers  == 1..MaxMixers
NoMixer == 0
Kinds   == {"start", "audio", "end", "remove", "shutdown"}
Command(kind, u) == [kind |-> kind, user |-> u]
Commands == [kind : Kinds, user : Users]

\* A task outside the lock: at rest, about to take the lock, or sending the
\* command to the mixer whose sender it cloned under the lock.
Task(step, m, command) == [step |-> step, mixer |-> m, command |-> command]
Tasks  == [step : {"idle", "ready", "sending"}, mixer : Mixers \cup {NoMixer}, command : Commands]
AtRest == Task("idle", NoMixer, Command("audio", Owner))
Ready  == Task("ready", NoMixer, Command("audio", Owner))
Sending(m, command) ==
    IF m = NoMixer THEN AtRest ELSE Task("sending", m, command)

\* A mute handler between its UPDATE and set_muted also holds its arguments.
NotMuting == [user |-> Owner, mute |-> FALSE, task |-> AtRest]

\* Counted by the hub, and found by send_realtime.
Registered(c) == link[c] \in {"open", "writing", "closing"}
Attached(c)   == link[c] = "counted" \/ Registered(c)

Init ==
    /\ active = [u \in Users |-> TRUE]
    /\ roomOpen = TRUE
    /\ mutedRow = [u \in Users |-> FALSE]
    /\ orders = {}
    /\ present = FALSE
    /\ muted = [u \in Users |-> FALSE]
    /\ connections = [u \in Users |-> 0]
    /\ speaking = [u \in Users |-> FALSE]
    /\ audioTx = NoMixer
    /\ stage = [m \in Mixers |-> "unused"]
    /\ queue = [m \in Mixers |-> <<>>]
    /\ speakers = [m \in Mixers |-> {}]
    /\ link = [c \in Connections |-> "idle"]
    /\ snapshot = [c \in Connections |-> {}]
    /\ revoked = [c \in Connections |-> FALSE]
    /\ uplink = [c \in Connections |-> AtRest]
    /\ leaving = [c \in Connections |-> AtRest]
    /\ listener = AtRest
    /\ muter = [h \in Muters |-> NotMuting]
    /\ mixers = 0
    /\ failures = 0
    /\ changes = 0
    /\ lost = [u \in Users |-> 0]
    /\ strayed = {}
    /\ broken = {}
-----------------------------------------------------------------------------
(* Sending outside the lock: a task waits while the queue is full, and its *)
(* send fails once the mixer dropped the receiver.                         *)

\* Mutant: nobody drops the receiver.
CanFinishIntoRoom(task) ==
    task.step = "sending" /\ Len(queue[task.mixer]) < AudioCapacity
                          /\ stage[task.mixer] # "stopped"

CanFinish(task) ==
    /\ task.step = "sending"
    /\ stage[task.mixer] = "stopped" \/ Len(queue[task.mixer]) < AudioCapacity

Deliver(task) ==
    queue' = IF stage[task.mixer] = "stopped" THEN queue
             ELSE [queue EXCEPT ![task.mixer] = Append(@, task.command)]

-----------------------------------------------------------------------------
(* Administrator and database.                                             *)

Suspend(u) ==
    /\ changes < MaxChanges
    /\ active[u]
    /\ active' = [active EXCEPT ![u] = FALSE]
    /\ orders' = orders \cup {Command("remove", u)}
    /\ changes' = changes + 1
    /\ UNCHANGED <<roomOpen, mutedRow, hubVars, mixerVars, linkVars, listener, muter,
                   mixers, failures, history>>

Reactivate(u) ==
    /\ changes < MaxChanges
    /\ ~active[u]
    /\ active' = [active EXCEPT ![u] = TRUE]
    /\ changes' = changes + 1
    /\ UNCHANGED <<roomOpen, mutedRow, orders, hubVars, mixerVars, linkVars, listener, muter,
                   mixers, failures, history>>

EndRoom ==
    /\ changes < MaxChanges
    /\ roomOpen
    /\ roomOpen' = FALSE
    /\ orders' = orders \cup {Command("shutdown", Owner)}
    /\ changes' = changes + 1
    /\ UNCHANGED <<active, mutedRow, hubVars, mixerVars, linkVars, listener, muter,
                   mixers, failures, history>>

ReopenRoom ==
    /\ changes < MaxChanges
    /\ ~roomOpen
    /\ roomOpen' = TRUE
    /\ changes' = changes + 1
    /\ UNCHANGED <<active, mutedRow, orders, hubVars, mixerVars, linkVars, listener, muter,
                   mixers, failures, history>>

-----------------------------------------------------------------------------
(* The command listener applies one order at a time.                       *)

\* disconnect_user
RevokeUser(u) ==
    /\ listener.step = "idle"
    /\ Command("remove", u) \in orders
    /\ orders' = orders \ {Command("remove", u)}
    /\ connections' = [connections EXCEPT ![u] = 0]
    /\ speaking' = [speaking EXCEPT ![u] = FALSE]
    /\ revoked' = [c \in Connections |-> revoked[c] \/ (Attached(c) /\ UserOf[c] = u)]
    /\ listener' = Sending(audioTx, Command("remove", u))
    /\ lost' = [lost EXCEPT ![u] = 0]
    /\ UNCHANGED <<active, roomOpen, mutedRow, present, muted, audioTx, mixerVars,
                   link, snapshot, uplink, leaving, muter, counters, strayed, broken>>

\* close_room: dropping the runtime closes every connection's `revoked`.
CloseRoom ==
    /\ listener.step = "idle"
    /\ Command("shutdown", Owner) \in orders
    /\ orders' = orders \ {Command("shutdown", Owner)}
    /\ present' = FALSE
    /\ muted' = [u \in Users |-> FALSE]
    /\ connections' = [u \in Users |-> 0]
    /\ speaking' = [u \in Users |-> FALSE]
    /\ audioTx' = NoMixer
    /\ revoked' = [c \in Connections |-> revoked[c] \/ Attached(c)]
    /\ listener' = Sending(audioTx, Command("shutdown", Owner))
    /\ lost' = [u \in Users |-> 0]
    /\ UNCHANGED <<active, roomOpen, mutedRow, mixerVars, link, snapshot, uplink, leaving,
                   muter, counters, strayed, broken>>

FinishOrder ==
    /\ CanFinish(listener)
    /\ Deliver(listener)
    /\ listener' = AtRest
    /\ UNCHANGED <<dbVars, hubVars, stage, speakers, linkVars, muter, counters, history>>

-----------------------------------------------------------------------------
(* update_room_member: UPDATE, then set_muted, then its command.           *)

StoreMute(h, u, b) ==
    /\ changes < MaxChanges
    /\ changes' = changes + 1
    /\ muter[h].task.step = "idle"
    /\ u # Owner
    /\ mutedRow[u] # b
    /\ mutedRow' = [mutedRow EXCEPT ![u] = b]
    /\ muter' = [muter EXCEPT ![h] = [user |-> u, mute |-> b, task |-> Ready]]
    /\ UNCHANGED <<active, roomOpen, orders, hubVars, mixerVars, linkVars, listener,
                   mixers, failures, history>>

SetMuted(h) ==
    /\ muter[h].task.step = "ready"
    /\ LET u == muter[h].user
           b == muter[h].mute
       IN  /\ muted' = IF present THEN [muted EXCEPT ![u] = b] ELSE muted
           /\ speaking' = IF b THEN [speaking EXCEPT ![u] = FALSE] ELSE speaking
           /\ muter' = [muter EXCEPT ![h] =
                 [NotMuting EXCEPT !.task =
                     IF b THEN Sending(audioTx, Command("remove", u)) ELSE AtRest]]
    /\ UNCHANGED <<dbVars, present, connections, audioTx, mixerVars, linkVars, listener, counters, history>>

FinishMute(h) ==
    /\ CanFinish(muter[h].task)
    /\ Deliver(muter[h].task)
    /\ muter' = [muter EXCEPT ![h] = NotMuting]
    /\ UNCHANGED <<dbVars, hubVars, stage, speakers, linkVars, listener, counters, history>>
-----------------------------------------------------------------------------
(* A connection: `websocket` and handle_socket, or subscribe_realtime.     *)

IsGrpc(c) == c \in GrpcConnections

\* The status checks and the list of members, read before the hub is entered.
Admit(c) ==
    /\ link[c] = "idle"
    /\ active[UserOf[c]]
    /\ roomOpen
    /\ link' = [link EXCEPT ![c] = "admitted"]
    /\ snapshot' = [snapshot EXCEPT ![c] = {u \in Users : mutedRow[u]}]
    /\ UNCHANGED <<dbVars, hubVars, mixerVars, revoked, uplink, leaving, listener, muter, counters, history>>

\* The client gives up before the upgrade.
GiveUp(c) ==
    /\ link[c] = "admitted"
    /\ link' = [link EXCEPT ![c] = "idle"]
    /\ snapshot' = [snapshot EXCEPT ![c] = {}]
    /\ UNCHANGED <<dbVars, hubVars, mixerVars, revoked, uplink, leaving,
                   listener, muter, counters, history>>

\* connect: counts the connection, copies every member's mute flag from the
\* snapshot, and starts an audio runtime if the room has none.  A WebSocket's
\* task does it, and then writes room_subscribed.
Connect(c) ==
    /\ link[c] = "admitted"
    /\ audioTx = NoMixer => mixers < MaxMixers
    /\ link' = [link EXCEPT ![c] = IF IsGrpc(c) THEN "counted" ELSE "writing"]
    /\ snapshot' = [snapshot EXCEPT ![c] = {}]
    /\ present' = TRUE
    /\ muted' = [u \in Users |-> u \in snapshot[c]]
    /\ connections' = [connections EXCEPT ![UserOf[c]] = @ + 1]
    /\ IF audioTx = NoMixer
       THEN /\ mixers' = mixers + 1
            /\ audioTx' = mixers'
            /\ stage' = [stage EXCEPT ![mixers'] = "running"]
       ELSE UNCHANGED <<mixers, audioTx, stage>>
    /\ UNCHANGED <<dbVars, speaking, queue, speakers, revoked, uplink, leaving,
                   listener, muter, failures, changes, history>>

\* subscribe_realtime got the lock of `sessions`: it registers the session
\* and spawns the task that will disconnect.
Spawn(c) ==
    /\ link[c] = "counted"
    /\ link' = [link EXCEPT ![c] = "writing"]
    /\ UNCHANGED <<dbVars, hubVars, mixerVars, snapshot, revoked, uplink, leaving,
                   listener, muter, counters, history>>

\* The call was cancelled while it waited for that lock: the handler is
\* dropped, its count and the mixer it may have started stay.
Abandon(c) ==
    /\ link[c] = "counted"
    /\ failures < MaxFailures
    /\ failures' = failures + 1
    /\ link' = [link EXCEPT ![c] = "idle"]
    /\ revoked' = [revoked EXCEPT ![c] = FALSE]
    /\ lost' = IF revoked[c] \/ connections[UserOf[c]] = 0 THEN lost
               ELSE [lost EXCEPT ![UserOf[c]] = @ + 1]
    /\ strayed' = strayed \cup ({audioTx} \ {NoMixer})
    /\ UNCHANGED <<dbVars, hubVars, mixerVars, snapshot, uplink, leaving,
                   listener, muter, mixers, changes, broken>>

\* At its select: a WebSocket loop only while no message of it is handled,
\* and neither loop while it writes to its peer.
AtSelect(c) == link[c] = "open" /\ (uplink[c].step = "idle" \/ IsGrpc(c))

\* An event of the room, or a warning, for the peer.
BeginWrite(c) ==
    /\ AtSelect(c)
    /\ link' = [link EXCEPT ![c] = "writing"]
    /\ UNCHANGED <<dbVars, hubVars, mixerVars, snapshot, revoked, uplink, leaving,
                   listener, muter, counters, history>>

\* The peer took it, or the write failed.  No time limit makes it end.
EndWrite(c) ==
    /\ link[c] = "writing"
    /\ \E next \in {"open", "closing"} : link' = [link EXCEPT ![c] = next]
    /\ UNCHANGED <<dbVars, hubVars, mixerVars, snapshot, revoked, uplink, leaving,
                   listener, muter, counters, history>>

Notice(c) ==
    /\ AtSelect(c)
    /\ revoked[c]
    /\ link' = [link EXCEPT ![c] = "closing"]
    /\ UNCHANGED <<dbVars, hubVars, mixerVars, snapshot, revoked, uplink, leaving,
                   listener, muter, counters, history>>

\* The client closed, or the subscriber lagged.
HangUp(c) ==
    /\ AtSelect(c)
    /\ link' = [link EXCEPT ![c] = "closing"]
    /\ UNCHANGED <<dbVars, hubVars, mixerVars, snapshot, revoked, uplink, leaving,
                   listener, muter, counters, history>>

\* A send_realtime call finds its session, registered until the loop's end.
FindSession(c) ==
    /\ IsGrpc(c)
    /\ uplink[c].step = "idle"
    /\ Registered(c)
    /\ uplink' = [uplink EXCEPT ![c] = Ready]
    /\ UNCHANGED <<dbVars, hubVars, mixerVars, link, snapshot, revoked, leaving,
                   listener, muter, counters, history>>

MayPublish(u) == present /\ (~muted[u] \/ u = Owner)

\* send_event and send_audio under the lock; a WebSocket loop calls them on
\* a frame, a gRPC handler after it found the session.
CheckUplink(c, kind) ==
    /\ IF IsGrpc(c) THEN uplink[c].step = "ready" ELSE AtSelect(c)
    /\ uplink' = [uplink EXCEPT ![c] =
          IF MayPublish(UserOf[c]) THEN Sending(audioTx, Command(kind, UserOf[c])) ELSE AtRest]
    /\ UNCHANGED <<dbVars, hubVars, mixerVars, link, snapshot, revoked, leaving,
                   listener, muter, counters, history>>

FinishUplink(c) ==
    /\ CanFinish(uplink[c])
    /\ Deliver(uplink[c])
    /\ uplink' = [uplink EXCEPT ![c] = AtRest]
    /\ UNCHANGED <<dbVars, hubVars, stage, speakers, link, snapshot, revoked, leaving,
                   listener, muter, counters, history>>

\* Mutants: the count wraps; the room stays up for nobody; it goes down one
\* connection too early.
WrappingSub(n)            == (n - 1) % 2^16
FarewellToSpeaker(u, counts) == Command("remove", u)
FarewellEarly(u, counts) ==
    IF \A v \in Users : counts[v] <= 1 THEN Command("shutdown", Owner)
    ELSE Command("remove", u)

SaturatingSub(n) == IF n = 0 THEN 0 ELSE n - 1

\* What disconnect has to tell the mixer, given the counts it leaves behind.
Farewell(u, counts) ==
    IF \A v \in Users : counts[v] = 0 THEN Command("shutdown", Owner)
    ELSE Command("remove", u)

Disconnect(c) ==
    /\ link[c] = "closing"
    /\ LET u == UserOf[c]
           counts == [connections EXCEPT ![u] = SaturatingSub(@)]
           farewell == Farewell(u, counts)
       IN  IF present
           THEN /\ connections' = counts
                /\ speaking' = IF counts[u] = 0 THEN [speaking EXCEPT ![u] = FALSE] ELSE speaking
                /\ audioTx' = IF farewell.kind = "shutdown" THEN NoMixer ELSE audioTx
                /\ lost' = IF counts[u] = 0 THEN [lost EXCEPT ![u] = 0] ELSE lost
                /\ leaving' = [leaving EXCEPT ![c] =
                      IF counts[u] = 0 THEN Sending(audioTx, farewell) ELSE AtRest]
           ELSE UNCHANGED <<connections, speaking, audioTx, leaving, lost>>
    /\ link' = [link EXCEPT ![c] = "leaving"]
    /\ revoked' = [revoked EXCEPT ![c] = FALSE]
    /\ UNCHANGED <<dbVars, present, muted, mixerVars, snapshot, uplink, listener, muter, counters,
                   strayed, broken>>

\* Mutant: try_send, which drops the command when the queue is full.
LeaveWithoutWaiting(c) ==
    /\ link[c] = "leaving"
    /\ IF CanFinish(leaving[c]) THEN Deliver(leaving[c]) ELSE UNCHANGED queue
    /\ leaving' = [leaving EXCEPT ![c] = AtRest]
    /\ link' = [link EXCEPT ![c] = "idle"]
    /\ UNCHANGED <<dbVars, hubVars, stage, speakers, snapshot, revoked, uplink,
                   listener, muter, counters, history>>

\* The task ends once disconnect has sent what it had to send.
FinishLeave(c) ==
    /\ link[c] = "leaving"
    /\ IF leaving[c].step = "idle" THEN UNCHANGED queue
       ELSE CanFinish(leaving[c]) /\ Deliver(leaving[c])
    /\ leaving' = [leaving EXCEPT ![c] = AtRest]
    /\ link' = [link EXCEPT ![c] = "idle"]
    /\ UNCHANGED <<dbVars, hubVars, stage, speakers, snapshot, revoked, uplink,
                   listener, muter, counters, history>>

-----------------------------------------------------------------------------
(* run_room_mixer, as far as the hub sees it.                              *)

\* set_speaking, on whatever runtime the room has now.
SetSpeaking(u, b) ==
    speaking' = IF present THEN [speaking EXCEPT ![u] = b] ELSE speaking

HandleCommand(m) ==
    /\ stage[m] = "running"
    /\ queue[m] # <<>>
    /\ queue' = [queue EXCEPT ![m] = Tail(@)]
    /\ LET command == Head(queue[m])
           u == command.user
       IN  \/ /\ command.kind = "start"
              /\ speakers' = [speakers EXCEPT ![m] = @ \cup {u}]
              /\ SetSpeaking(u, TRUE)
              /\ UNCHANGED stage
           \/ /\ command.kind = "audio"
              /\ UNCHANGED <<speakers, speaking, stage>>
           \/ /\ command.kind = "end"
              /\ SetSpeaking(u, FALSE)
              /\ UNCHANGED <<speakers, stage>>
           \/ /\ command.kind = "remove"
              /\ speakers' = [speakers EXCEPT ![m] = @ \ {u}]
              /\ SetSpeaking(u, FALSE)
              /\ UNCHANGED stage
           \/ /\ command.kind = "shutdown"
              /\ stage' = [stage EXCEPT ![m] = "stopping"]
              /\ UNCHANGED <<speakers, speaking>>
    /\ UNCHANGED <<dbVars, present, muted, connections, audioTx, linkVars,
                   listener, muter, counters, history>>

\* The pipeline ended with an error: the next send to it breaks the loop.
PipelineFails(m) ==
    /\ stage[m] = "running"
    /\ failures < MaxFailures
    /\ failures' = failures + 1
    /\ stage' = [stage EXCEPT ![m] = "stopping"]
    /\ broken' = broken \cup {m}
    /\ UNCHANGED <<dbVars, hubVars, queue, speakers, linkVars, listener, muter, mixers, changes,
                   lost, strayed>>

ClearSpeaker(m, u) ==
    /\ stage[m] = "stopping"
    /\ u \in speakers[m]
    /\ speakers' = [speakers EXCEPT ![m] = @ \ {u}]
    /\ SetSpeaking(u, FALSE)
    /\ UNCHANGED <<dbVars, present, muted, connections, audioTx, stage, queue, linkVars,
                   listener, muter, counters, history>>

\* Mutant: a mixer that left its loop waits until nothing is queued.
StopWhenDrained(m) ==
    /\ stage[m] = "stopping"
    /\ speakers[m] = {}
    /\ queue[m] = <<>>
    /\ stage' = [stage EXCEPT ![m] = "stopped"]
    /\ UNCHANGED <<dbVars, hubVars, queue, speakers, linkVars, listener, muter, counters, history>>

\* The receiver is dropped with the commands it still holds.
StopMixer(m) ==
    /\ stage[m] = "stopping"
    /\ speakers[m] = {}
    /\ stage' = [stage EXCEPT ![m] = "stopped"]
    /\ queue' = [queue EXCEPT ![m] = <<>>]
    /\ UNCHANGED <<dbVars, hubVars, speakers, linkVars, listener, muter, counters, history>>

-----------------------------------------------------------------------------
Administer == \/ \E u \in Users : Suspend(u) \/ Reactivate(u)
              \/ EndRoom \/ ReopenRoom
Listen == (\E u \in Users : RevokeUser(u)) \/ CloseRoom \/ FinishOrder
Mute(h) == \/ \E u \in Users, b \in BOOLEAN : StoreMute(h, u, b)
           \/ SetMuted(h) \/ FinishMute(h)
Uplink(c) == (\E kind \in ClientKinds : CheckUplink(c, kind)) \/ FinishUplink(c)
Link(c) == \/ Admit(c) \/ GiveUp(c) \/ Connect(c) \/ Spawn(c) \/ Abandon(c)
           \/ BeginWrite(c) \/ EndWrite(c) \/ Notice(c) \/ HangUp(c)
           \/ FindSession(c) \/ Uplink(c) \/ Disconnect(c) \/ FinishLeave(c)
Mixer(m) == \/ HandleCommand(m) \/ PipelineFails(m) \/ StopMixer(m)
            \/ \E u \in Users : ClearSpeaker(m, u)

Next == \/ Administer
        \/ Listen
        \/ \E h \in Muters : Mute(h)
        \/ \E c \in Connections : Link(c)
        \/ \E m \in Mixers : Mixer(m)

Spec == Init /\ [][Next]_vars

\* Tasks run on.  The senders that wait for one queue are served in order
\* (tokio's channel), and select! takes every branch that stays ready at
\* some time: strong fairness.  No client has to do anything, not even read what
\* is written to it.
Fairness ==
    /\ WF_vars(\E u \in Users : RevokeUser(u)) /\ WF_vars(CloseRoom) /\ SF_vars(FinishOrder)
    /\ \A h \in Muters : WF_vars(SetMuted(h)) /\ SF_vars(FinishMute(h))
    /\ \A c \in Connections :
          /\ WF_vars(IsGrpc(c) /\ \E kind \in ClientKinds : CheckUplink(c, kind))
          /\ SF_vars(FinishUplink(c))
          /\ WF_vars(Spawn(c))
          /\ SF_vars(Notice(c))
          /\ WF_vars(Disconnect(c))
          /\ SF_vars(FinishLeave(c))
    /\ \A m \in Mixers :
          /\ WF_vars(HandleCommand(m))
          /\ WF_vars(StopMixer(m) \/ \E u \in Users : ClearSpeaker(m, u))

FairSpec == Spec /\ Fairness
-----------------------------------------------------------------------------
LinkStates == {"idle", "admitted", "counted", "open", "writing", "closing", "leaving"}
MutingTasks == [user : Users, mute : BOOLEAN, task : Tasks]

TypeOK ==
    /\ active \in [Users -> BOOLEAN]
    /\ roomOpen \in BOOLEAN
    /\ mutedRow \in [Users -> BOOLEAN]
    /\ orders \subseteq Commands
    /\ present \in BOOLEAN
    /\ muted \in [Users -> BOOLEAN]
    /\ connections \in [Users -> Nat]
    /\ speaking \in [Users -> BOOLEAN]
    /\ audioTx \in Mixers \cup {NoMixer}
    /\ stage \in [Mixers -> {"unused", "running", "stopping", "stopped"}]
    /\ queue \in [Mixers -> Seq(Commands)]
    /\ \A m \in Mixers : Len(queue[m]) <= AudioCapacity
    /\ speakers \in [Mixers -> SUBSET Users]
    /\ link \in [Connections -> LinkStates]
    /\ snapshot \in [Connections -> SUBSET Users]
    /\ revoked \in [Connections -> BOOLEAN]
    /\ uplink \in [Connections -> Tasks]
    /\ leaving \in [Connections -> Tasks]
    /\ listener \in Tasks
    /\ muter \in [Muters -> MutingTasks]
    /\ mixers \in 0..MaxMixers
    /\ failures \in 0..MaxFailures
    /\ changes \in 0..MaxChanges
    /\ lost \in [Users -> Nat]
    /\ strayed \subseteq Mixers
    /\ broken \subseteq Mixers

AttachedTo(u) == {c \in Connections : Attached(c) /\ UserOf[c] = u}

\* The connections through which u may still be counted.
LiveTo(u) == {c \in AttachedTo(u) : ~revoked[c]}

(* A member is online only through connections that exist and that nobody  *)
(* revoked: reconnections, revocations and rooms that were closed and      *)
(* opened again leave no count behind that no disconnect will take down    *)
(* (room_hub.rs 132, 170, 209).  The exception are the subscriptions that  *)
(* were dropped before their task was spawned (grpc.rs 171-191): each adds *)
(* one at most, until the user is revoked or the room is closed.           *)
PresenceIsReal ==
    \A u \in Users : connections[u] <= Cardinality(LiveTo(u)) + lost[u]

\* The Shutdown of m waits in its queue, or in the task that will send it.
ShutdownUnderWay(m) ==
    LET Carries(task) == task = Sending(m, Command("shutdown", Owner))
    IN  \/ Command("shutdown", Owner) \in Range(queue[m])
        \/ Carries(listener)
        \/ \E c \in Connections : Carries(leaving[c])

(* No audio runtime is leaked: the room's mixer has a connection that will *)
(* stop it on its way out, and one the room no longer refers to has been   *)
(* told to stop (room_hub.rs 137-146, 187-196, 215-235).  The exception is *)
(* a mixer during which a subscription was dropped before its task was     *)
(* spawned (grpc.rs 171-191): it may run on for nobody.                    *)
MixersAreOwned ==
    \A m \in Mixers : stage[m] = "running" =>
        IF m = audioTx THEN m \in strayed \/ \E c \in Connections : Attached(c)
        ELSE ShutdownUnderWay(m)

(* While the room shows a member as online it has a mixer, nobody tells or *)
(* has told that mixer to stop, and it runs on unless its own pipeline     *)
(* failed: whatever was revoked, closed or reconnected before, the         *)
(* Shutdown of an earlier mixer never reaches the one in use (room_hub.rs  *)
(* 137-146, 170-171, 187-196, 215-235).  It does not say that the member   *)
(* is heard: after a failed pipeline audio_tx stays set and the room is    *)
(* deaf until everybody has left (room_hub.rs 395).                        *)
OnlineRoomsAreMixed ==
    \A u \in Users : connections[u] > 0 =>
        /\ audioTx # NoMixer
        /\ ~ShutdownUnderWay(audioTx)
        /\ stage[audioTx] = "running" \/ audioTx \in broken

(* A mixer that the room let go stops: its tasks and its pipeline end      *)
(* (room_hub.rs 517-521, 607-612).                                         *)
ReleasedMixersStop ==
    \A m \in Mixers : (stage[m] = "running" /\ audioTx # m) ~> stage[m] = "stopped"

(* A connection counted when its user was revoked or its room was closed   *)
(* ends and leaves, even while the mixer's queue is full, unless its peer  *)
(* stops reading for good: the write it then waits in has no time limit    *)
(* (lib.rs 584, 594, 597, 647-648, grpc.rs 212, 223, 235-236).             *)
RevokedConnectionsEnd ==
    \A c \in Connections :
        \/ <>[](link[c] = "writing")
        \/ (Attached(c) /\ revoked[c]) ~> ~Attached(c)

(* A member without a connection, and without a count that a dropped       *)
(* subscription left behind, is not shown as speaking for ever             *)
(* (room_hub.rs 208-214, 517-520, 607-609).                                *)
AbsentMembersFallSilent ==
    \A u \in Users : (AttachedTo(u) = {} /\ lost[u] = 0)
                        ~> (~speaking[u] \/ AttachedTo(u) # {})

(* Nobody waits for ever on a mixer: every command that a socket loop, a    *)
(* departing connection, the owner's handler or the command listener began *)
(* to send is queued, or refused because the mixer has stopped; so one     *)
(* room's full queue never holds back the orders for the others            *)
(* (room_hub.rs 178-181, 194, 234, 284-287, 330, control.rs 388-407).      *)
SendsFinish ==
    LET Finishes(task) == task.step # "sending"
    IN  /\ []<>Finishes(listener)
        /\ \A h \in Muters : []<>Finishes(muter[h].task)
        /\ \A c \in Connections : []<>Finishes(uplink[c]) /\ []<>Finishes(leaving[c])
=============================================================================
