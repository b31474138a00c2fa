--------------------------- MODULE RoomHubProofs ---------------------------
(***************************************************************************)
(* Proofs about RoomHub, for any members, connections, mute handlers and   *)
(* queue capacity.                                                         *)
(***************************************************************************)
EXTENDS RoomHub, FiniteSetTheorems, TLAPS

\* A room that is not in the hub counts nobody and has no mixer.
AbsentRoomIsEmpty ==
    ~present => audioTx = NoMixer /\ \A u \in Users : connections[u] = 0

\* disconnect sends only as the connection leaves.
LeaversSend == \A c \in Connections : link[c] # "leaving" => leaving[c] = AtRest

\* Only an attached connection is revoked.
RevokedAreAttached == \A c \in Connections : revoked[c] => Attached(c)

OnlineHaveMixer == \A u \in Users : connections[u] > 0 => audioTx # NoMixer

\* What a dropped subscription left behind is still counted, in the time of a
\* mixer known for it.
LostAreCounted ==
    \A u \in Users : lost[u] > 0 => connections[u] > 0 /\ audioTx \in strayed

\* A command that stops m waits in its queue, or in a task that will send it.
MayStop(m) ==
    LET Stops(task) == task.step = "sending" /\ task.mixer = m /\ task.command.kind = "shutdown"
    IN  \/ \E command \in Range(queue[m]) : command.kind = "shutdown"
        \/ Stops(listener)
        \/ \E c \in Connections : Stops(leaving[c])

\* Clients and mute handlers stop no mixer.
OthersStopNothing ==
    /\ \A c \in Connections : uplink[c].command.kind # "shutdown"
    /\ \A h \in Muters : muter[h].task.command.kind # "shutdown"

\* A mixer that was not started yet is told nothing, and the room's is not
\* told to stop.
MixersInUse ==
    /\ audioTx <= mixers
    /\ \A m \in Mixers : m > mixers => ~MayStop(m)
    /\ \A m \in Mixers : m = audioTx =>
          ~MayStop(m) /\ (stage[m] = "running" \/ m \in broken)

Counts == PresenceIsReal /\ OnlineHaveMixer /\ AbsentRoomIsEmpty /\ LostAreCounted
Ownership == MixersAreOwned /\ LeaversSend
Usage == OthersStopNothing /\ MixersInUse
HubInvariant == TypeOK /\ RevokedAreAttached /\ Counts /\ Ownership /\ Usage

-----------------------------------------------------------------------------
(* Types.                                                                  *)

LEMMA TasksTyped ==
    /\ AtRest \in Tasks /\ Ready \in Tasks /\ NotMuting \in MutingTasks
    /\ \A m \in Mixers \cup {NoMixer}, kind \in Kinds, u \in Users :
          Command(kind, u) \in Commands /\ Sending(m, Command(kind, u)) \in Tasks
<1>1. \A kind \in Kinds, u \in Users : Command(kind, u) \in Commands
  BY DEF Command, Commands
<1>2. \A command \in Commands, m \in Mixers \cup {NoMixer},
         step \in {"idle", "ready", "sending"} : Task(step, m, command) \in Tasks
  BY DEF Task, Tasks
<1>3. Owner \in Users /\ "audio" \in Kinds
  BY ConstantsAssumption DEF Kinds
<1>4. AtRest \in Tasks /\ Ready \in Tasks
  BY <1>1, <1>2, <1>3 DEF AtRest, Ready
<1>5. NotMuting \in MutingTasks
  BY <1>3, <1>4, Zenon DEF NotMuting, MutingTasks
<1> QED
  BY <1>1, <1>2, <1>4, <1>5 DEF Sending

\* What is delivered is added at the end of one queue, if its mixer still runs.
LEMMA DeliverTyped ==
    ASSUME TypeOK, NEW task \in Tasks, CanFinish(task), Deliver(task)
    PROVE  /\ queue' \in [Mixers -> Seq(Commands)]
           /\ \A m \in Mixers : Len(queue'[m]) <= AudioCapacity
           /\ \A m \in Mixers : Range(queue[m]) \subseteq Range(queue'[m])
           /\ task.mixer \in Mixers /\ stage[task.mixer] # "stopped" =>
                 task.command \in Range(queue'[task.mixer])
<1>1. task.command \in Commands /\ AudioCapacity \in Nat
  BY ConstantsAssumption DEF Tasks
<1>2. queue \in [Mixers -> Seq(Commands)] /\ \A m \in Mixers : Len(queue[m]) <= AudioCapacity
  BY DEF TypeOK
<1>3. CASE stage[task.mixer] = "stopped" \/ task.mixer \notin Mixers
  <2>1. queue' = queue
    BY <1>2, <1>3 DEF Deliver
  <2> QED
    BY <1>2, <1>3, <2>1
<1>4. CASE stage[task.mixer] # "stopped" /\ task.mixer \in Mixers
  <2> DEFINE m == task.mixer
  <2>1. queue' = [queue EXCEPT ![m] = Append(queue[m], task.command)]
    BY <1>4 DEF Deliver
  <2>2. Len(queue[m]) < AudioCapacity /\ queue[m] \in Seq(Commands)
    BY <1>2, <1>4 DEF CanFinish
  <2>3. PICK longer \in Seq(Commands) : longer = Append(queue[m], task.command)
    <3>1. PICK q \in Seq(Commands) : q = queue[m]
      BY <2>2
    <3>2. Append(q, task.command) \in Seq(Commands)
      BY <1>1
    <3> QED
      BY <3>1, <3>2
  <2>4. Len(longer) <= AudioCapacity /\ longer[Len(longer)] = task.command
        /\ Len(longer) \in DOMAIN longer
    BY <1>1, <2>2, <2>3
  <2>5. Range(queue[m]) \subseteq Range(longer)
    <3>1. \A i \in DOMAIN queue[m] : i \in DOMAIN longer /\ longer[i] = queue[m][i]
      BY <1>1, <2>2, <2>3
    <3> QED
      BY <3>1 DEF Range
  <2>6. queue'[m] = longer /\ \A k \in Mixers \ {m} : queue'[k] = queue[k]
    BY <1>2, <1>4, <2>1, <2>3
  <2>7. queue' \in [Mixers -> Seq(Commands)]
    BY <1>2, <1>4, <2>1, <2>3
  <2>8. task.command \in Range(longer)
    BY <2>4 DEF Range
  <2> QED
    BY <1>2, <2>4, <2>5, <2>6, <2>7, <2>8
<1> QED
  BY <1>3, <1>4

LEMMA StartTyped == Init => TypeOK
<1> SUFFICES ASSUME Init PROVE TypeOK
  OBVIOUS
<1>1. \A m \in Mixers : Len(<<>>) <= AudioCapacity
  BY ConstantsAssumption
<1>2. 0 \in 0..MaxMixers /\ 0 \in 0..MaxFailures /\ 0 \in 0..MaxChanges
  BY ConstantsAssumption
<1>3. /\ active \in [Users -> BOOLEAN] /\ roomOpen \in BOOLEAN /\ mutedRow \in [Users -> BOOLEAN]
      /\ present \in BOOLEAN /\ muted \in [Users -> BOOLEAN] /\ speaking \in [Users -> BOOLEAN]
      /\ revoked \in [Connections -> BOOLEAN]
  BY Zenon DEF Init
<1>4. lost \in [Users -> Nat] /\ strayed \subseteq Mixers /\ broken \subseteq Mixers
  BY DEF Init
<1>5. link \in [Connections -> LinkStates]
  BY DEF Init, LinkStates
<1> QED
  BY <1>1, <1>2, <1>3, <1>4, <1>5, TasksTyped DEF Init, TypeOK

LEMMA AdministerTyped ==
    ASSUME TypeOK, Administer
    PROVE  TypeOK'
<1>1. /\ active' \in [Users -> BOOLEAN] /\ roomOpen' \in BOOLEAN
      /\ UNCHANGED <<mutedRow, hubVars, mixerVars, linkVars, listener, muter, mixers, failures,
                     history>>
  BY Zenon DEF Administer, Suspend, Reactivate, EndRoom, ReopenRoom, TypeOK
<1>2. orders' \subseteq Commands
  <2>1. Command("shutdown", Owner) \in Commands
        /\ \A u \in Users : Command("remove", u) \in Commands
    BY ConstantsAssumption DEF Command, Commands, Kinds
  <2> QED
    <3>1. orders \subseteq Commands
      BY DEF TypeOK
    <3>2. \/ orders' = orders
          \/ orders' = orders \cup {Command("shutdown", Owner)}
          \/ \E u \in Users : orders' = orders \cup {Command("remove", u)}
      BY DEF Administer, Suspend, Reactivate, EndRoom, ReopenRoom
    <3> QED
      BY <2>1, <3>1, <3>2
<1>3. changes' \in 0..MaxChanges
  BY ConstantsAssumption DEF Administer, Suspend, Reactivate, EndRoom, ReopenRoom, TypeOK
<1> QED
  BY <1>1, <1>2, <1>3 DEF TypeOK, hubVars, mixerVars, linkVars, history

LEMMA ListenTyped ==
    ASSUME TypeOK, Listen
    PROVE  TypeOK'
<1>1. ASSUME NEW u \in Users, RevokeUser(u) PROVE TypeOK'
  <2>1. connections' \in [Users -> Nat] /\ orders' \subseteq Commands
    BY <1>1 DEF RevokeUser, TypeOK
  <2>2. speaking' \in [Users -> BOOLEAN] /\ revoked' \in [Connections -> BOOLEAN]
    BY <1>1, Zenon DEF RevokeUser, TypeOK
  <2>3. listener' \in Tasks
    BY <1>1, TasksTyped DEF RevokeUser, TypeOK, Kinds
  <2>4. lost' \in [Users -> Nat]
    BY <1>1 DEF RevokeUser, TypeOK
  <2> QED
    BY <1>1, <2>1, <2>2, <2>3, <2>4 DEF RevokeUser, TypeOK, mixerVars, counters
<1>2. ASSUME CloseRoom PROVE TypeOK'
  <2>1. connections' \in [Users -> Nat] /\ orders' \subseteq Commands
        /\ audioTx' \in Mixers \cup {NoMixer}
    BY <1>2 DEF CloseRoom, TypeOK
  <2>2. speaking' \in [Users -> BOOLEAN] /\ revoked' \in [Connections -> BOOLEAN]
        /\ muted' \in [Users -> BOOLEAN] /\ present' \in BOOLEAN
    BY <1>2, Zenon DEF CloseRoom, TypeOK
  <2>3. listener' \in Tasks
    BY <1>2, TasksTyped, ConstantsAssumption DEF CloseRoom, TypeOK, Kinds
  <2>4. lost' \in [Users -> Nat]
    BY <1>2 DEF CloseRoom
  <2> QED
    BY <1>2, <2>1, <2>2, <2>3, <2>4 DEF CloseRoom, TypeOK, mixerVars, counters
<1>3. ASSUME FinishOrder PROVE TypeOK'
  <2>1. listener \in Tasks
    BY DEF TypeOK
  <2>2. queue' \in [Mixers -> Seq(Commands)] /\ \A m \in Mixers : Len(queue'[m]) <= AudioCapacity
    BY <1>3, <2>1, DeliverTyped DEF FinishOrder
  <2> QED
    BY <1>3, <2>2, TasksTyped DEF FinishOrder, TypeOK, dbVars, hubVars, linkVars, counters, history
<1> QED
  BY <1>1, <1>2, <1>3 DEF Listen

LEMMA MuteTyped ==
    ASSUME TypeOK, NEW h \in Muters, Mute(h)
    PROVE  TypeOK'
<1>0. muter \in [Muters -> MutingTasks] /\ muter[h].task \in Tasks
      /\ muter[h].user \in Users /\ muter[h].mute \in BOOLEAN
  BY DEF TypeOK, MutingTasks
<1>1. ASSUME NEW u \in Users, NEW b \in BOOLEAN, StoreMute(h, u, b) PROVE TypeOK'
  <2>1. changes' \in 0..MaxChanges
    BY <1>1, ConstantsAssumption DEF StoreMute, TypeOK
  <2>2. mutedRow' \in [Users -> BOOLEAN]
    BY <1>1, Zenon DEF StoreMute, TypeOK
  <2>3. [user |-> u, mute |-> b, task |-> Ready] \in MutingTasks
    BY <1>1, TasksTyped, Zenon DEF MutingTasks
  <2>4. muter' \in [Muters -> MutingTasks]
    BY <1>0, <1>1, <2>3, Zenon DEF StoreMute
  <2> QED
    BY <1>1, <2>1, <2>2, <2>4 DEF StoreMute, TypeOK, hubVars, mixerVars, linkVars, history
<1>2. ASSUME SetMuted(h) PROVE TypeOK'
  <2> DEFINE u == muter[h].user
             b == muter[h].mute
             task == IF b THEN Sending(audioTx, Command("remove", u)) ELSE AtRest
  <2>1. muted' \in [Users -> BOOLEAN]
    BY <1>0, <1>2, Zenon DEF SetMuted, TypeOK
  <2>2. speaking' \in [Users -> BOOLEAN]
    BY <1>0, <1>2, Zenon DEF SetMuted, TypeOK
  <2>3. task \in Tasks
    BY <1>0, TasksTyped DEF TypeOK, Kinds
  <2>4. [NotMuting EXCEPT !.task = task] \in MutingTasks
    BY <2>3, TasksTyped, Zenon DEF MutingTasks
  <2>5. muter' = [muter EXCEPT ![h] = [NotMuting EXCEPT !.task = task]]
    BY <1>2, Zenon DEF SetMuted
  <2>6. muter' \in [Muters -> MutingTasks]
    BY <1>0, <2>4, <2>5, Zenon
  <2> QED
    BY <1>2, <2>1, <2>2, <2>6 DEF SetMuted, TypeOK, dbVars, mixerVars, linkVars, counters, history
<1>3. ASSUME FinishMute(h) PROVE TypeOK'
  <2>1. queue' \in [Mixers -> Seq(Commands)] /\ \A m \in Mixers : Len(queue'[m]) <= AudioCapacity
    BY <1>0, <1>3, DeliverTyped DEF FinishMute
  <2>2. muter' \in [Muters -> MutingTasks]
    BY <1>0, <1>3, TasksTyped, Zenon DEF FinishMute
  <2> QED
    BY <1>3, <2>1, <2>2 DEF FinishMute, TypeOK, dbVars, hubVars, linkVars, counters, history
<1> QED
  BY <1>1, <1>2, <1>3 DEF Mute

LEMMA LinkTyped ==
    ASSUME TypeOK, NEW c \in Connections, Link(c)
    PROVE  TypeOK'
<1>0. UserOf[c] \in Users
  BY ConstantsAssumption
<1>1. CASE Admit(c) \/ GiveUp(c)
  <2>1. link' \in [Connections -> LinkStates]
    BY <1>1, Zenon DEF Admit, GiveUp, TypeOK, LinkStates
  <2>2. snapshot' \in [Connections -> SUBSET Users]
    <3>1. {u \in Users : mutedRow[u]} \in SUBSET Users /\ {} \in SUBSET Users
      OBVIOUS
    <3> QED
      BY <1>1, <3>1, Zenon DEF Admit, GiveUp, TypeOK
  <2>3. UNCHANGED <<dbVars, hubVars, mixerVars, revoked, uplink, leaving, listener, muter,
                    counters, history>>
    BY <1>1 DEF Admit, GiveUp
  <2> QED
    BY <2>1, <2>2, <2>3 DEF TypeOK, dbVars, hubVars, mixerVars, counters, history
<1>8. CASE Spawn(c) \/ BeginWrite(c) \/ EndWrite(c) \/ Notice(c) \/ HangUp(c)
  <2>1. link' \in [Connections -> LinkStates]
    BY <1>8, Zenon DEF Spawn, BeginWrite, EndWrite, Notice, HangUp, TypeOK, LinkStates
  <2>2. UNCHANGED <<dbVars, hubVars, mixerVars, snapshot, revoked, uplink, leaving, listener,
                    muter, counters, history>>
    BY <1>8 DEF Spawn, BeginWrite, EndWrite, Notice, HangUp
  <2> QED
    BY <2>1, <2>2 DEF TypeOK, dbVars, hubVars, mixerVars, counters, history
<1>9. CASE Abandon(c)
  <2>1. link' \in [Connections -> LinkStates] /\ revoked' \in [Connections -> BOOLEAN]
    BY <1>9, Zenon DEF Abandon, TypeOK, LinkStates
  <2>2. lost' \in [Users -> Nat] /\ strayed' \subseteq Mixers
    BY <1>0, <1>9 DEF Abandon, TypeOK
  <2>3. failures' \in 0..MaxFailures
    BY <1>9, ConstantsAssumption DEF Abandon, TypeOK
  <2>4. UNCHANGED <<dbVars, hubVars, mixerVars, snapshot, uplink, leaving, listener, muter,
                    mixers, changes, broken>>
    BY <1>9 DEF Abandon
  <2> QED
    BY <2>1, <2>2, <2>3, <2>4 DEF TypeOK, dbVars, hubVars, mixerVars
<1>2. CASE Connect(c)
  <2>1. link' \in [Connections -> LinkStates]
        /\ snapshot' \in [Connections -> SUBSET Users]
        /\ connections' \in [Users -> Nat]
    BY <1>0, <1>2 DEF Connect, TypeOK, LinkStates
  <2>2. muted' \in [Users -> BOOLEAN] /\ present' \in BOOLEAN
    <3>1. muted' = [u \in Users |-> u \in snapshot[c]] /\ present' = TRUE
      BY <1>2, Zenon DEF Connect
    <3>2. \A u \in Users : (u \in snapshot[c]) \in BOOLEAN
      <4> TAKE u \in Users
      <4>1. CASE u \in snapshot[c]
        BY <4>1, Zenon
      <4>2. CASE u \notin snapshot[c]
        BY <4>2
      <4> QED
        BY <4>1, <4>2
    <3> QED
      BY <3>1, <3>2, Zenon
  <2>3. mixers' \in 0..MaxMixers /\ audioTx' \in Mixers \cup {NoMixer}
        /\ stage' \in [Mixers -> {"unused", "running", "stopping", "stopped"}]
    <3>1. CASE audioTx = NoMixer
      <4>1. mixers + 1 \in 1..MaxMixers /\ mixers' = mixers + 1 /\ audioTx' = mixers'
            /\ stage' = [stage EXCEPT ![mixers'] = "running"]
        BY <1>2, <3>1, ConstantsAssumption DEF Connect, TypeOK
      <4> QED
        BY <4>1, ConstantsAssumption DEF TypeOK, Mixers
    <3>2. CASE audioTx # NoMixer
      BY <1>2, <3>2 DEF Connect, TypeOK
    <3> QED
      BY <3>1, <3>2
  <2> QED
    BY <1>2, <2>1, <2>2, <2>3 DEF Connect, TypeOK, dbVars, history
<1>3. CASE FindSession(c)
  <2>1. uplink' \in [Connections -> Tasks]
    BY <1>3, TasksTyped DEF FindSession, TypeOK
  <2> QED
    BY <1>3, <2>1 DEF FindSession, TypeOK, dbVars, hubVars, mixerVars, counters, history
<1>4. ASSUME NEW kind \in ClientKinds, CheckUplink(c, kind) PROVE TypeOK'
  <2>1. kind \in Kinds
    BY ConstantsAssumption DEF Kinds
  <2>2. Sending(audioTx, Command(kind, UserOf[c])) \in Tasks /\ AtRest \in Tasks
    BY <1>0, <2>1, TasksTyped DEF TypeOK
  <2>3. uplink' \in [Connections -> Tasks]
    BY <1>4, <2>2 DEF CheckUplink, TypeOK
  <2> QED
    BY <1>4, <2>3 DEF CheckUplink, TypeOK, dbVars, hubVars, mixerVars, counters, history
<1>5. CASE FinishUplink(c)
  <2>1. uplink[c] \in Tasks
    BY DEF TypeOK
  <2>2. queue' \in [Mixers -> Seq(Commands)] /\ \A m \in Mixers : Len(queue'[m]) <= AudioCapacity
    BY <1>5, <2>1, DeliverTyped DEF FinishUplink
  <2>3. uplink' \in [Connections -> Tasks]
    BY <1>5, TasksTyped DEF FinishUplink, TypeOK
  <2> QED
    BY <1>5, <2>2, <2>3 DEF FinishUplink, TypeOK, dbVars, hubVars, counters, history
<1>6. CASE Disconnect(c)
  <2> DEFINE u == UserOf[c]
             counts == [connections EXCEPT ![u] = SaturatingSub(@)]
             farewell == Farewell(u, counts)
  <2>1. counts \in [Users -> Nat]
    BY <1>0 DEF TypeOK, SaturatingSub
  <2>2. Sending(audioTx, farewell) \in Tasks /\ AtRest \in Tasks
    <3>1. farewell = Command("shutdown", Owner) \/ farewell = Command("remove", u)
      BY DEF Farewell
    <3> QED
      BY <1>0, <3>1, TasksTyped, ConstantsAssumption DEF TypeOK, Kinds
  <2>3. connections' \in [Users -> Nat]
    BY <1>6, <2>1 DEF Disconnect, TypeOK
  <2>4. speaking' \in [Users -> BOOLEAN] /\ revoked' \in [Connections -> BOOLEAN]
    BY <1>6, Zenon DEF Disconnect, TypeOK
  <2>5. leaving' \in [Connections -> Tasks]
    <3> HIDE DEF farewell
    <3>1. leaving' = leaving
          \/ leaving' = [leaving EXCEPT ![c] =
                            IF counts[u] = 0 THEN Sending(audioTx, farewell) ELSE AtRest]
      BY <1>6, Zenon DEF Disconnect, farewell
    <3> HIDE DEF counts
    <3> QED
      BY <2>2, <3>1 DEF TypeOK
  <2>6. audioTx' \in Mixers \cup {NoMixer}
    BY <1>6, Zenon DEF Disconnect, TypeOK
  <2>7. link' \in [Connections -> LinkStates]
    BY <1>6 DEF Disconnect, TypeOK, LinkStates
  <2>8. lost' \in [Users -> Nat]
    <3>1. lost' = lost \/ lost' = [lost EXCEPT ![u] = 0]
      BY <1>6, Zenon DEF Disconnect
    <3>2. lost \in [Users -> Nat]
      BY DEF TypeOK
    <3> QED
      BY <3>1, <3>2
  <2> QED
    BY <1>6, <2>3, <2>4, <2>5, <2>6, <2>7, <2>8 DEF Disconnect, TypeOK, dbVars, mixerVars, counters
<1>7. CASE FinishLeave(c)
  <2>1. leaving[c] \in Tasks
    BY DEF TypeOK
  <2>2. queue' \in [Mixers -> Seq(Commands)] /\ \A m \in Mixers : Len(queue'[m]) <= AudioCapacity
    BY <1>7, <2>1, DeliverTyped DEF FinishLeave, TypeOK
  <2>3. leaving' \in [Connections -> Tasks]
        /\ link' \in [Connections -> LinkStates]
    BY <1>7, TasksTyped DEF FinishLeave, TypeOK, LinkStates
  <2> QED
    BY <1>7, <2>2, <2>3 DEF FinishLeave, TypeOK, dbVars, hubVars, counters, history
<1> QED
  BY <1>1, <1>2, <1>3, <1>4, <1>5, <1>6, <1>7, <1>8, <1>9 DEF Link, Uplink

LEMMA MixerTyped ==
    ASSUME TypeOK, NEW m \in Mixers, Mixer(m)
    PROVE  TypeOK'
<1>1. CASE HandleCommand(m)
  <2>1. queue[m] \in Seq(Commands) /\ queue[m] # <<>> /\ Len(queue[m]) <= AudioCapacity
        /\ AudioCapacity \in Nat
    BY <1>1, ConstantsAssumption DEF HandleCommand, TypeOK
  <2>0. PICK q \in Seq(Commands) : q = queue[m] /\ q # <<>> /\ Len(q) <= AudioCapacity
    BY <2>1
  <2>2. PICK rest \in Seq(Commands) : rest = Tail(queue[m]) /\ Len(rest) <= AudioCapacity
    <3>1. Tail(q) \in Seq(Commands) /\ Len(Tail(q)) <= AudioCapacity
      BY <2>0, <2>1
    <3> QED
      BY <2>0, <3>1
  <2>3. Head(queue[m]).user \in Users
    <3>1. Head(q) \in Commands
      BY <2>0
    <3> QED
      BY <2>0, <3>1 DEF Commands
  <2>4. queue' = [queue EXCEPT ![m] = rest]
    BY <1>1, <2>2 DEF HandleCommand
  <2>5. queue' \in [Mixers -> Seq(Commands)] /\ \A k \in Mixers : Len(queue'[k]) <= AudioCapacity
    BY <2>2, <2>4 DEF TypeOK
  <2>6. speaking' \in [Users -> BOOLEAN]
    BY <1>1, Zenon DEF HandleCommand, SetSpeaking, TypeOK
  <2>7. speakers' \in [Mixers -> SUBSET Users]
    <3>1. PICK u \in Users : u = Head(queue[m]).user
      BY <2>3
    <3>2. \/ speakers' = speakers
          \/ speakers' = [speakers EXCEPT ![m] = @ \cup {u}]
          \/ speakers' = [speakers EXCEPT ![m] = @ \ {u}]
      BY <1>1, <3>1, Zenon DEF HandleCommand
    <3>3. speakers \in [Mixers -> SUBSET Users] /\ speakers[m] \in SUBSET Users
      BY DEF TypeOK
    <3>4. speakers[m] \cup {u} \in SUBSET Users /\ speakers[m] \ {u} \in SUBSET Users
      BY <3>3
    <3> QED
      BY <3>2, <3>3, <3>4
  <2>8. stage' \in [Mixers -> {"unused", "running", "stopping", "stopped"}]
    BY <1>1 DEF HandleCommand, TypeOK
  <2> QED
    BY <1>1, <2>5, <2>6, <2>7, <2>8 DEF HandleCommand, TypeOK, dbVars, linkVars, counters, history
<1>2. CASE PipelineFails(m)
  <2>1. failures' \in 0..MaxFailures
        /\ stage' \in [Mixers -> {"unused", "running", "stopping", "stopped"}]
    BY <1>2, ConstantsAssumption DEF PipelineFails, TypeOK
  <2>2. broken' \subseteq Mixers
    BY <1>2 DEF PipelineFails, TypeOK
  <2> QED
    BY <1>2, <2>1, <2>2 DEF PipelineFails, TypeOK, dbVars, hubVars, linkVars
<1>3. CASE StopMixer(m)
  <2>1. queue' \in [Mixers -> Seq(Commands)] /\ \A k \in Mixers : Len(queue'[k]) <= AudioCapacity
    BY <1>3, ConstantsAssumption DEF StopMixer, TypeOK
  <2>2. stage' \in [Mixers -> {"unused", "running", "stopping", "stopped"}]
    BY <1>3 DEF StopMixer, TypeOK
  <2> QED
    BY <1>3, <2>1, <2>2 DEF StopMixer, TypeOK, dbVars, hubVars, linkVars, counters, history
<1>4. ASSUME NEW u \in Users, ClearSpeaker(m, u) PROVE TypeOK'
  <2>1. speakers' \in [Mixers -> SUBSET Users]
    BY <1>4 DEF ClearSpeaker, TypeOK
  <2>2. speaking' \in [Users -> BOOLEAN]
    BY <1>4, Zenon DEF ClearSpeaker, SetSpeaking, TypeOK
  <2> QED
    BY <1>4, <2>1, <2>2 DEF ClearSpeaker, TypeOK, dbVars, linkVars, counters, history
<1> QED
  BY <1>1, <1>2, <1>3, <1>4 DEF Mixer

LEMMA StepTyped == TypeOK /\ [Next]_vars => TypeOK'
<1> SUFFICES ASSUME TypeOK, [Next]_vars PROVE TypeOK'
  OBVIOUS
<1>1. CASE UNCHANGED vars
  BY <1>1 DEF TypeOK, vars, dbVars, hubVars, mixerVars, linkVars, counters, history
<1> QED
  BY <1>1, AdministerTyped, ListenTyped, MuteTyped, LinkTyped, MixerTyped DEF Next

-----------------------------------------------------------------------------
(* Counts: a member is counted as often as it is attached at most, but for *)
(* what dropped subscriptions left behind.                                 *)

LEMMA LiveFinite ==
    \A u \in Users : IsFiniteSet(LiveTo(u)) /\ Cardinality(LiveTo(u)) \in Nat
<1> TAKE u \in Users
<1>1. LiveTo(u) \subseteq Connections
  BY DEF LiveTo, AttachedTo
<1>2. IsFiniteSet(LiveTo(u))
  BY <1>1, FS_Subset, ConstantsAssumption
<1> QED
  BY <1>2, FS_CardinalityType

LEMMA LiveFiniteNext ==
    \A u \in Users : IsFiniteSet(LiveTo(u)') /\ Cardinality(LiveTo(u)') \in Nat
<1> TAKE u \in Users
<1>1. LiveTo(u)' \subseteq Connections
  BY DEF LiveTo, AttachedTo
<1>2. IsFiniteSet(LiveTo(u)')
  BY <1>1, FS_Subset, ConstantsAssumption
<1> QED
  BY <1>2, FS_CardinalityType

\* A step that takes no live connection from a user it goes on counting.
LEMMA CountsKept ==
    ASSUME TypeOK, TypeOK', Counts,
           \A u \in Users :
              \/ connections'[u] = connections[u] /\ lost'[u] = lost[u]
                 /\ LiveTo(u) \subseteq LiveTo(u)'
              \/ connections'[u] = 0 /\ lost'[u] = 0,
           \/ audioTx' = audioTx /\ present' = present /\ strayed' = strayed
           \/ audioTx' = NoMixer /\ \A u \in Users : connections'[u] = 0 /\ lost'[u] = 0
    PROVE  Counts'
<1>1. ASSUME NEW u \in Users
      PROVE  connections'[u] <= Cardinality(LiveTo(u)') + lost'[u]
  <2>1. IsFiniteSet(LiveTo(u)') /\ Cardinality(LiveTo(u)') \in Nat
    BY LiveFiniteNext
  <2>2. CASE connections'[u] = 0
    BY <2>1, <2>2 DEF TypeOK
  <2>3. CASE connections'[u] = connections[u] /\ lost'[u] = lost[u]
             /\ LiveTo(u) \subseteq LiveTo(u)'
    <3>1. Cardinality(LiveTo(u)) <= Cardinality(LiveTo(u)') /\ Cardinality(LiveTo(u)) \in Nat
      BY <2>1, <2>3, FS_Subset, LiveFinite
    <3>2. connections[u] <= Cardinality(LiveTo(u)) + lost[u]
      BY DEF Counts, PresenceIsReal
    <3>3. connections[u] \in Nat /\ lost[u] \in Nat
      BY DEF TypeOK
    <3> QED
      BY <2>1, <2>3, <3>1, <3>2, <3>3
  <2> QED
    BY <2>2, <2>3
<1>2. PresenceIsReal'
  BY <1>1 DEF PresenceIsReal
<1>3. OnlineHaveMixer' /\ AbsentRoomIsEmpty' /\ LostAreCounted'
  <2>1. CASE audioTx' = audioTx /\ present' = present /\ strayed' = strayed
    <3>1. \A u \in Users : \/ connections'[u] = connections[u] /\ lost'[u] = lost[u]
                           \/ connections'[u] = 0 /\ lost'[u] = 0
      OBVIOUS
    <3>0. ~(0 > 0)
      OBVIOUS
    <3>2. OnlineHaveMixer'
      BY <2>1, <3>0, <3>1, Zenon DEF Counts, OnlineHaveMixer
    <3>3. AbsentRoomIsEmpty'
      BY <2>1, <3>1 DEF Counts, AbsentRoomIsEmpty
    <3>4. LostAreCounted'
      BY <2>1, <3>0, <3>1, Zenon DEF Counts, LostAreCounted
    <3> QED
      BY <3>2, <3>3, <3>4
  <2>2. CASE audioTx' = NoMixer /\ \A u \in Users : connections'[u] = 0 /\ lost'[u] = 0
    BY <2>2 DEF OnlineHaveMixer, AbsentRoomIsEmpty, LostAreCounted
  <2> QED
    BY <2>1, <2>2
<1> QED
  BY <1>2, <1>3 DEF Counts

LEMMA ConnectCounts ==
    ASSUME TypeOK, Counts, NEW c \in Connections, Connect(c), ~revoked[c]
    PROVE  Counts'
<1> DEFINE w == UserOf[c]
<1>1. /\ w \in Users /\ connections' = [connections EXCEPT ![w] = connections[w] + 1]
      /\ present' = TRUE /\ link' = [link EXCEPT ![c] = IF IsGrpc(c) THEN "counted" ELSE "writing"]
      /\ link[c] = "admitted" /\ UNCHANGED <<revoked, lost, strayed>>
  BY ConstantsAssumption DEF Connect, history
<1>2. audioTx' # NoMixer
  <2>1. mixers + 1 # 0 /\ NoMixer = 0
    BY DEF TypeOK, NoMixer
  <2>2. audioTx = NoMixer => audioTx' = mixers + 1
    BY DEF Connect
  <2>3. audioTx # NoMixer => audioTx' = audioTx
    BY DEF Connect
  <2> QED
    BY <2>1, <2>2, <2>3
<1>3. ASSUME NEW u \in Users
      PROVE  connections'[u] <= Cardinality(LiveTo(u)') + lost'[u]
  <2>1. IsFiniteSet(LiveTo(u)) /\ Cardinality(LiveTo(u)) \in Nat
    BY LiveFinite
  <2>2. connections[u] \in Nat /\ lost[u] \in Nat /\ lost'[u] = lost[u]
        /\ connections[u] <= Cardinality(LiveTo(u)) + lost[u]
    BY <1>1 DEF TypeOK, Counts, PresenceIsReal
  <2>3. CASE u = w
    <3>1. LiveTo(u)' = LiveTo(u) \cup {c} /\ c \notin LiveTo(u)
      BY <1>1, <2>3 DEF LiveTo, AttachedTo, Attached, Registered, TypeOK
    <3>2. Cardinality(LiveTo(u)') = Cardinality(LiveTo(u)) + 1
      BY <2>1, <3>1, FS_AddElement
    <3>3. connections'[u] = connections[u] + 1
      BY <1>1, <2>3 DEF TypeOK
    <3> QED
      BY <2>1, <2>2, <3>2, <3>3
  <2>4. CASE u # w
    <3>1. LiveTo(u)' = LiveTo(u) /\ connections'[u] = connections[u]
      BY <1>1, <2>4 DEF LiveTo, AttachedTo, Attached, Registered, TypeOK
    <3> QED
      BY <2>2, <3>1
  <2> QED
    BY <2>3, <2>4
<1>4. LostAreCounted'
  <2> SUFFICES ASSUME NEW u \in Users, lost'[u] > 0
               PROVE  connections'[u] > 0 /\ audioTx' \in strayed'
    BY DEF LostAreCounted
  <2>1. connections[u] > 0 /\ audioTx \in strayed
    BY <1>1 DEF Counts, LostAreCounted
  <2>2. audioTx # NoMixer
    BY <2>1 DEF Counts, OnlineHaveMixer
  <2>3. audioTx' = audioTx
    BY <2>2 DEF Connect
  <2>4. connections'[u] > 0
    BY <1>1, <2>1 DEF TypeOK
  <2> QED
    BY <1>1, <2>1, <2>3, <2>4
<1> QED
  BY <1>1, <1>2, <1>3, <1>4 DEF Counts, PresenceIsReal, OnlineHaveMixer, AbsentRoomIsEmpty

\* The count of a dropped subscription stays, and is remembered as lost.
LEMMA AbandonCounts ==
    ASSUME TypeOK, Counts, NEW c \in Connections, Abandon(c)
    PROVE  Counts'
<1> DEFINE w == UserOf[c]
<1>1. /\ w \in Users /\ link[c] = "counted" /\ link' = [link EXCEPT ![c] = "idle"]
      /\ revoked' = [revoked EXCEPT ![c] = FALSE]
      /\ UNCHANGED <<connections, audioTx, present>>
      /\ lost' = IF revoked[c] \/ connections[w] = 0 THEN lost
                 ELSE [lost EXCEPT ![w] = lost[w] + 1]
      /\ strayed' = strayed \cup ({audioTx} \ {NoMixer})
  BY ConstantsAssumption DEF Abandon, hubVars
<1>2. ASSUME NEW u \in Users
      PROVE  connections[u] <= Cardinality(LiveTo(u)') + lost'[u]
  <2>1. IsFiniteSet(LiveTo(u)) /\ Cardinality(LiveTo(u)) \in Nat
        /\ Cardinality(LiveTo(u)') \in Nat
    BY LiveFinite, LiveFiniteNext
  <2>2. connections[u] \in Nat /\ lost[u] \in Nat
        /\ connections[u] <= Cardinality(LiveTo(u)) + lost[u]
    BY DEF TypeOK, Counts, PresenceIsReal
  <2>3. LiveTo(u)' = LiveTo(u) \ {c}
    BY <1>1 DEF LiveTo, AttachedTo, Attached, Registered, TypeOK
  <2>4. lost'[u] \in Nat /\ lost'[u] >= lost[u]
    BY <1>1, <2>2 DEF TypeOK
  <2>5. CASE c \in LiveTo(u)
    <3>1. ~revoked[c] /\ u = w
      BY <2>5 DEF LiveTo, AttachedTo
    <3>2. Cardinality(LiveTo(u)') = Cardinality(LiveTo(u)) - 1
      BY <2>1, <2>3, <2>5, FS_RemoveElement
    <3>3. CASE connections[u] = 0
      BY <2>1, <2>4, <3>3
    <3>4. CASE connections[u] # 0
      <4>1. lost'[u] = lost[u] + 1
        BY <1>1, <3>1, <3>4 DEF TypeOK
      <4> QED
        BY <2>1, <2>2, <3>2, <4>1
    <3> QED
      BY <3>3, <3>4
  <2>6. CASE c \notin LiveTo(u)
    <3>1. LiveTo(u)' = LiveTo(u)
      BY <2>3, <2>6
    <3> QED
      BY <2>1, <2>2, <2>4, <3>1
  <2> QED
    BY <2>5, <2>6
<1>3. LostAreCounted'
  <2> SUFFICES ASSUME NEW u \in Users, lost'[u] > 0
               PROVE  connections[u] > 0 /\ audioTx \in strayed'
    BY <1>1 DEF LostAreCounted
  <2>1. connections[u] > 0
    <3>1. CASE lost'[u] = lost[u]
      BY <3>1 DEF Counts, LostAreCounted
    <3>2. CASE lost'[u] # lost[u]
      BY <1>1, <3>2 DEF TypeOK
    <3> QED
      BY <3>1, <3>2
  <2>2. audioTx # NoMixer
    BY <2>1 DEF Counts, OnlineHaveMixer
  <2> QED
    BY <1>1, <2>1, <2>2
<1> QED
  BY <1>1, <1>2, <1>3 DEF Counts, PresenceIsReal, OnlineHaveMixer, AbsentRoomIsEmpty

LEMMA DisconnectCounts ==
    ASSUME TypeOK, Counts, NEW c \in Connections, Disconnect(c)
    PROVE  Counts'
<1> DEFINE w == UserOf[c]
           counts == [connections EXCEPT ![w] = SaturatingSub(connections[w])]
<1>1. w \in Users /\ link' = [link EXCEPT ![c] = "leaving"] /\ link[c] = "closing"
      /\ present' = present /\ revoked' = [revoked EXCEPT ![c] = FALSE] /\ strayed' = strayed
  BY ConstantsAssumption DEF Disconnect
<1>2. /\ counts \in [Users -> Nat]
      /\ \A u \in Users \ {w} : counts[u] = connections[u]
      /\ counts[w] = IF connections[w] = 0 THEN 0 ELSE connections[w] - 1
  BY <1>1 DEF TypeOK, SaturatingSub
<1>3. /\ connections' = IF present THEN counts ELSE connections
      /\ lost' = IF present /\ counts[w] = 0 THEN [lost EXCEPT ![w] = 0] ELSE lost
  BY DEF Disconnect
<1>4. ASSUME NEW u \in Users
      PROVE  connections'[u] <= Cardinality(LiveTo(u)') + lost'[u]
  <2> HIDE DEF counts
  <2>1. IsFiniteSet(LiveTo(u)) /\ Cardinality(LiveTo(u)) \in Nat
        /\ Cardinality(LiveTo(u)') \in Nat
    BY LiveFinite, LiveFiniteNext
  <2>2. connections[u] \in Nat /\ lost[u] \in Nat /\ connections'[u] \in Nat /\ lost'[u] \in Nat
    BY <1>1, <1>2, <1>3 DEF TypeOK
  <2>3. connections[u] <= Cardinality(LiveTo(u)) + lost[u]
    BY DEF Counts, PresenceIsReal
  <2>4. LiveTo(u)' = LiveTo(u) \ {c}
    BY <1>1 DEF LiveTo, AttachedTo, Attached, Registered, TypeOK
  <2>5. CASE connections'[u] = 0
    BY <2>1, <2>2, <2>5
  <2>6. CASE connections'[u] # 0
    <3>1. connections[u] # 0 /\ present /\ connections'[u] = counts[u]
      BY <1>2, <1>3, <2>6 DEF Counts, AbsentRoomIsEmpty
    <3>2. lost'[u] = lost[u]
      BY <1>3, <2>6, <3>1 DEF TypeOK
    <3>3. CASE c \in LiveTo(u)
      <4>1. Cardinality(LiveTo(u)') = Cardinality(LiveTo(u)) - 1 /\ u = w
        BY <2>1, <2>4, <3>3, FS_RemoveElement DEF LiveTo, AttachedTo
      <4>2. connections'[u] = connections[u] - 1
        BY <1>2, <3>1, <4>1
      <4> QED
        BY <2>1, <2>2, <2>3, <3>2, <4>1, <4>2
    <3>4. CASE c \notin LiveTo(u)
      <4>1. LiveTo(u)' = LiveTo(u)
        BY <2>4, <3>4
      <4>2. connections'[u] <= connections[u]
        BY <1>2, <2>2, <3>1
      <4> QED
        BY <2>1, <2>2, <2>3, <3>2, <4>1, <4>2
    <3> QED
      BY <3>3, <3>4
  <2> QED
    BY <2>5, <2>6
<1>5. ASSUME NEW u \in Users, connections'[u] > 0 PROVE audioTx' = audioTx /\ audioTx # NoMixer
  <2>1. connections[u] > 0
    BY <1>1, <1>2, <1>3, <1>5 DEF TypeOK
  <2>2. present /\ audioTx # NoMixer
    BY <2>1 DEF Counts, AbsentRoomIsEmpty, OnlineHaveMixer
  <2>3. counts[u] # 0
    BY <1>3, <1>5, <2>2
  <2>4. Farewell(w, counts) = Command("remove", w)
    BY <2>3 DEF Farewell
  <2>5. Command("remove", w).kind # "shutdown"
    BY DEF Command
  <2>6. audioTx' = IF Farewell(w, counts).kind = "shutdown" THEN NoMixer ELSE audioTx
    BY <2>2 DEF Disconnect
  <2> QED
    BY <2>2, <2>4, <2>5, <2>6
<1>6. LostAreCounted'
  <2> SUFFICES ASSUME NEW u \in Users, lost'[u] > 0
               PROVE  connections'[u] > 0 /\ audioTx' \in strayed'
    BY DEF LostAreCounted
  <2> HIDE DEF counts
  <2>1. lost[u] > 0
    BY <1>3 DEF TypeOK
  <2>2. connections[u] > 0 /\ audioTx \in strayed
    BY <2>1 DEF Counts, LostAreCounted
  <2>3. present
    BY <2>2 DEF Counts, AbsentRoomIsEmpty
  <2>4. u = w => counts[w] # 0
    BY <1>1, <1>3, <2>3 DEF TypeOK
  <2>5. connections'[u] = counts[u] /\ counts[u] # 0 /\ counts[u] \in Nat
    <3>1. connections'[u] = counts[u] /\ counts[u] \in Nat
      BY <1>2, <1>3, <2>3
    <3>2. u # w => counts[u] = connections[u]
      BY <1>2
    <3> QED
      BY <2>2, <2>4, <3>1, <3>2
  <2> QED
    BY <1>1, <1>5, <2>2, <2>5
<1>7. AbsentRoomIsEmpty'
  BY <1>1, <1>3 DEF Disconnect, Counts, AbsentRoomIsEmpty
<1> QED
  BY <1>4, <1>5, <1>6, <1>7 DEF Counts, PresenceIsReal, OnlineHaveMixer

LEMMA RevokedStep ==
    ASSUME TypeOK, RevokedAreAttached, [Next]_vars
    PROVE  RevokedAreAttached'
<1>1. CASE UNCHANGED <<link, revoked>>
  BY <1>1 DEF RevokedAreAttached, Attached, Registered
<1>2. ASSUME NEW c \in Connections, Link(c) PROVE RevokedAreAttached'
  <2>1. CASE Admit(c) \/ GiveUp(c) \/ Connect(c) \/ Spawn(c) \/ BeginWrite(c) \/ EndWrite(c)
             \/ Notice(c) \/ HangUp(c)
    <3>1. revoked' = revoked /\ (\A d \in Connections \ {c} : link'[d] = link[d])
          /\ (Attached(c) => Attached(c)')
      BY <2>1 DEF Admit, GiveUp, Connect, Spawn, BeginWrite, EndWrite, Notice, HangUp, AtSelect,
                  Attached, Registered, TypeOK
    <3> QED
      BY <3>1 DEF RevokedAreAttached, Attached, Registered
  <2>2. CASE FindSession(c) \/ Uplink(c)
    BY <1>1, <2>2 DEF FindSession, Uplink, CheckUplink, FinishUplink
  <2>3. CASE Abandon(c) \/ Disconnect(c) \/ FinishLeave(c)
    <3>1. /\ \A d \in Connections \ {c} : link'[d] = link[d] /\ revoked'[d] = revoked[d]
          /\ ~revoked'[c]
      BY <2>3 DEF Abandon, Disconnect, FinishLeave, RevokedAreAttached, Attached, Registered, TypeOK
    <3> QED
      BY <3>1 DEF RevokedAreAttached, Attached, Registered
  <2> QED
    BY <1>2, <2>1, <2>2, <2>3 DEF Link
<1>3. CASE Listen
  <2>1. link' = link /\ \A c \in Connections : revoked'[c] => revoked[c] \/ Attached(c)
    BY <1>3 DEF Listen, RevokeUser, CloseRoom, FinishOrder, linkVars
  <2> QED
    BY <2>1 DEF RevokedAreAttached, Attached, Registered
<1>4. CASE Administer \/ UNCHANGED vars
  BY <1>1, <1>4 DEF Administer, Suspend, Reactivate, EndRoom, ReopenRoom, linkVars, vars
<1>5. ASSUME NEW h \in Muters, Mute(h) PROVE RevokedAreAttached'
  BY <1>1, <1>5 DEF Mute, StoreMute, SetMuted, FinishMute, linkVars
<1>6. ASSUME NEW m \in Mixers, Mixer(m) PROVE RevokedAreAttached'
  BY <1>1, <1>6 DEF Mixer, HandleCommand, PipelineFails, StopMixer, ClearSpeaker, linkVars
<1> QED
  BY <1>2, <1>3, <1>4, <1>5, <1>6 DEF Next

LEMMA CountsStep ==
    ASSUME TypeOK, TypeOK', Counts, RevokedAreAttached, [Next]_vars
    PROVE  Counts'
<1>1. CASE UNCHANGED <<connections, audioTx, present, link, revoked, lost, strayed>>
  BY <1>1, CountsKept DEF LiveTo, AttachedTo, Attached, Registered
<1>2. ASSUME NEW u \in Users, RevokeUser(u) PROVE Counts'
  <2>1. /\ connections' = [connections EXCEPT ![u] = 0] /\ lost' = [lost EXCEPT ![u] = 0]
        /\ UNCHANGED <<audioTx, present, strayed, link>>
        /\ \A c \in Connections : UserOf[c] # u => revoked'[c] = revoked[c]
    BY <1>2 DEF RevokeUser, TypeOK
  <2>2. \A v \in Users \ {u} : LiveTo(v) \subseteq LiveTo(v)'
    BY <2>1 DEF LiveTo, AttachedTo, Attached, Registered
  <2> QED
    BY <2>1, <2>2, CountsKept DEF TypeOK
<1>3. ASSUME CloseRoom PROVE Counts'
  BY <1>3, CountsKept DEF CloseRoom
<1>4. ASSUME NEW c \in Connections, Link(c) PROVE Counts'
  <2>1. CASE Connect(c)
    <3>1. ~revoked[c]
      BY <2>1 DEF Connect, RevokedAreAttached, Attached, Registered
    <3> QED
      BY <2>1, <3>1, ConnectCounts
  <2>2. CASE Disconnect(c)
    BY <2>2, DisconnectCounts
  <2>3. CASE Abandon(c)
    BY <2>3, AbandonCounts
  <2>4. CASE Admit(c) \/ GiveUp(c) \/ Spawn(c) \/ BeginWrite(c) \/ EndWrite(c) \/ Notice(c)
             \/ HangUp(c) \/ FinishLeave(c)
    <3>1. UNCHANGED <<connections, audioTx, present, lost, strayed>>
      BY <2>4 DEF Admit, GiveUp, Spawn, BeginWrite, EndWrite, Notice, HangUp, FinishLeave, hubVars,
                  history
    <3>2. revoked' = revoked /\ \A d \in Connections : Attached(d) => Attached(d)'
      BY <2>4 DEF Admit, GiveUp, Spawn, BeginWrite, EndWrite, Notice, HangUp, FinishLeave, AtSelect,
                  Attached, Registered, TypeOK
    <3>3. \A u \in Users : LiveTo(u) \subseteq LiveTo(u)'
      BY <3>2 DEF LiveTo, AttachedTo
    <3> QED
      BY <3>1, <3>3, CountsKept
  <2>5. CASE FindSession(c) \/ Uplink(c)
    BY <2>5, <1>1 DEF FindSession, Uplink, CheckUplink, FinishUplink, hubVars, history
  <2> QED
    BY <1>4, <2>1, <2>2, <2>3, <2>4, <2>5 DEF Link
<1>5. CASE Administer \/ FinishOrder \/ UNCHANGED vars
  BY <1>1, <1>5
  DEF Administer, Suspend, Reactivate, EndRoom, ReopenRoom, FinishOrder, hubVars, linkVars, history,
      vars
<1>6. ASSUME NEW h \in Muters, Mute(h) PROVE Counts'
  BY <1>1, <1>6 DEF Mute, StoreMute, SetMuted, FinishMute, hubVars, linkVars, history
<1>7. ASSUME NEW m \in Mixers, Mixer(m) PROVE Counts'
  BY <1>1, <1>7
  DEF Mixer, HandleCommand, PipelineFails, StopMixer, ClearSpeaker, hubVars, linkVars, history
<1> QED
  BY <1>2, <1>3, <1>4, <1>5, <1>6, <1>7 DEF Next, Listen

-----------------------------------------------------------------------------
(* Ownership: a mixer the room let go has its Shutdown under way.          *)

TheFarewell == Command("shutdown", Owner)

LEMMA FarewellSent ==
    \A m \in Mixers :
        /\ Sending(m, TheFarewell) = Task("sending", m, TheFarewell)
        /\ Sending(m, TheFarewell).step = "sending"
        /\ Sending(m, TheFarewell).mixer = m /\ Sending(m, TheFarewell).command = TheFarewell
        /\ Sending(m, TheFarewell) # AtRest
<1> TAKE m \in Mixers
<1>1. Sending(m, TheFarewell) = Task("sending", m, TheFarewell)
  BY DEF Sending, Mixers, NoMixer
<1> QED
  BY <1>1 DEF Task, AtRest

\* A Shutdown under way stays so: in its queue, or in a task that goes on or
\* has just delivered it.
LEMMA ShutdownKept ==
    ASSUME NEW m \in Mixers, ShutdownUnderWay(m),
           Range(queue[m]) \subseteq Range(queue'[m]),
           listener = Sending(m, TheFarewell) =>
              listener' = listener \/ TheFarewell \in Range(queue'[m]),
           \A c \in Connections : leaving[c] = Sending(m, TheFarewell) =>
              leaving'[c] = leaving[c] \/ TheFarewell \in Range(queue'[m])
    PROVE  ShutdownUnderWay(m)'
<1>1. CASE TheFarewell \in Range(queue[m])
  BY <1>1 DEF ShutdownUnderWay, TheFarewell
<1>2. CASE listener = Sending(m, TheFarewell)
  BY <1>2 DEF ShutdownUnderWay, TheFarewell
<1>3. CASE \E c \in Connections : leaving[c] = Sending(m, TheFarewell)
  BY <1>3 DEF ShutdownUnderWay, TheFarewell
<1> QED
  BY <1>1, <1>2, <1>3 DEF ShutdownUnderWay, TheFarewell

\* A step that starts no mixer, ends no connection and keeps the room's mixer.
LEMMA OwnedKept ==
    ASSUME TypeOK, MixersAreOwned, audioTx' = audioTx,
           strayed \subseteq strayed',
           \A c \in Connections : Attached(c) => Attached(c)' \/ audioTx \in strayed' \cup {NoMixer},
           \A m \in Mixers : stage'[m] = "running" =>
              stage[m] = "running" /\ (ShutdownUnderWay(m) => ShutdownUnderWay(m)')
    PROVE  MixersAreOwned'
BY DEF MixersAreOwned, Mixers, NoMixer

\* A delivery: the task that made it is done, and no other one changes.
LEMMA DeliveryKeeps ==
    ASSUME TypeOK, NEW task \in Tasks, CanFinish(task), Deliver(task),
           NEW m \in Mixers, stage[m] = "running", ShutdownUnderWay(m),
           listener' = listener \/ listener = task,
           \A c \in Connections : leaving'[c] = leaving[c] \/ leaving[c] = task
    PROVE  ShutdownUnderWay(m)'
<1>1. Range(queue[m]) \subseteq Range(queue'[m])
  BY DeliverTyped
<1>2. task = Sending(m, TheFarewell) => TheFarewell \in Range(queue'[m])
  BY DeliverTyped, FarewellSent
<1> QED
  BY <1>1, <1>2, ShutdownKept

LEMMA HandleKeeps ==
    ASSUME TypeOK, MixersAreOwned, NEW m \in Mixers, Mixer(m)
    PROVE  MixersAreOwned'
<1>1. UNCHANGED <<audioTx, link, leaving, listener, strayed>>
      /\ \A k \in Mixers \ {m} : stage'[k] = stage[k] /\ queue'[k] = queue[k]
  BY DEF Mixer, HandleCommand, PipelineFails, StopMixer, ClearSpeaker, linkVars, hubVars, history,
         TypeOK
<1>2. CASE HandleCommand(m)
  <2>1. PICK q \in Seq(Commands) : q = queue[m] /\ q # <<>>
    BY <1>2 DEF HandleCommand, TypeOK
  <2>2. queue'[m] = Tail(q) /\ stage[m] = "running"
    BY <1>2, <2>1 DEF HandleCommand, TypeOK
  <2>3. ASSUME stage'[m] = "running", TheFarewell \in Range(q)
        PROVE  TheFarewell \in Range(Tail(q))
    <3>1. Head(q).kind # "shutdown"
      <4>1. Head(q).kind = "shutdown" => stage' = [stage EXCEPT ![m] = "stopping"]
        BY <1>2, <2>1 DEF HandleCommand
      <4> QED
        BY <2>3, <4>1 DEF TypeOK
    <3>2. TheFarewell.kind = "shutdown"
      BY DEF TheFarewell, Command
    <3>3. PICK i \in DOMAIN q : q[i] = TheFarewell
      BY <2>3 DEF Range
    <3>4. i # 1
      BY <2>1, <3>1, <3>2, <3>3
    <3>5. i - 1 \in DOMAIN Tail(q) /\ Tail(q)[i - 1] = q[i]
      BY <2>1, <3>3, <3>4
    <3> QED
      BY <3>3, <3>5 DEF Range
  <2>4. ASSUME NEW k \in Mixers, stage'[k] = "running"
        PROVE  stage[k] = "running" /\ (ShutdownUnderWay(k) => ShutdownUnderWay(k)')
    <3>1. CASE k = m
      BY <1>1, <2>1, <2>2, <2>3, <2>4, <3>1 DEF ShutdownUnderWay, TheFarewell
    <3>2. CASE k # m
      BY <1>1, <2>4, <3>2 DEF ShutdownUnderWay
    <3> QED
      BY <3>1, <3>2
  <2> QED
    BY <1>1, <2>4, OwnedKept DEF Attached, Registered
<1>3. CASE ~HandleCommand(m)
  <2>1. stage'[m] # "running" \/ (stage'[m] = stage[m] /\ queue'[m] = queue[m])
    BY <1>3 DEF Mixer, PipelineFails, StopMixer, ClearSpeaker, TypeOK
  <2> QED
    BY <1>1, <2>1, OwnedKept DEF Attached, Registered, ShutdownUnderWay
<1> QED
  BY <1>2, <1>3

LEMMA ConnectOwned ==
    ASSUME TypeOK, MixersAreOwned, NEW c \in Connections, Connect(c)
    PROVE  MixersAreOwned'
<1>1. /\ link' = [link EXCEPT ![c] = IF IsGrpc(c) THEN "counted" ELSE "writing"]
      /\ UNCHANGED <<queue, listener, leaving, strayed>>
  BY DEF Connect, history
<1>2. Attached(c)'
  BY <1>1 DEF Attached, Registered, TypeOK
<1>3. CASE audioTx # NoMixer
  <2>1. UNCHANGED <<audioTx, stage>>
    BY <1>3 DEF Connect
  <2> QED
    BY <1>1, <1>2, <2>1 DEF MixersAreOwned, ShutdownUnderWay
<1>4. CASE audioTx = NoMixer
  <2>1. audioTx' = mixers + 1 /\ stage' = [stage EXCEPT ![mixers + 1] = "running"]
    BY <1>4 DEF Connect
  <2>2. ASSUME NEW m \in Mixers, stage'[m] = "running", m # audioTx'
        PROVE  ShutdownUnderWay(m)'
    <3>1. stage[m] = "running" /\ m # audioTx
      BY <1>4, <2>1, <2>2 DEF TypeOK, Mixers, NoMixer
    <3> QED
      BY <1>1, <3>1 DEF MixersAreOwned, ShutdownUnderWay
  <2> QED
    BY <1>2, <2>2 DEF MixersAreOwned
<1> QED
  BY <1>3, <1>4

LEMMA CloseRoomOwned ==
    ASSUME TypeOK, MixersAreOwned, CloseRoom
    PROVE  MixersAreOwned'
<1>1. /\ audioTx' = NoMixer /\ listener' = Sending(audioTx, TheFarewell)
      /\ listener.step = "idle" /\ UNCHANGED <<stage, queue, leaving>>
  BY DEF CloseRoom, mixerVars, TheFarewell
<1>2. ASSUME NEW m \in Mixers, stage'[m] = "running"
      PROVE  m # audioTx' /\ ShutdownUnderWay(m)'
  <2>1. m # NoMixer /\ stage[m] = "running"
    BY <1>1, <1>2 DEF Mixers, NoMixer
  <2>2. CASE m = audioTx
    BY <1>1, <2>1, <2>2 DEF ShutdownUnderWay, TheFarewell
  <2>3. CASE m # audioTx
    <3>1. ShutdownUnderWay(m)
      BY <2>1, <2>3 DEF MixersAreOwned
    <3>2. listener # Sending(m, TheFarewell)
      BY <1>1, FarewellSent
    <3>3. \/ TheFarewell \in Range(queue[m])
          \/ \E c \in Connections : leaving[c] = Sending(m, TheFarewell)
      BY <3>1, <3>2 DEF ShutdownUnderWay, TheFarewell
    <3>4. queue' = queue /\ leaving' = leaving
      BY <1>1
    <3>5. ShutdownUnderWay(m)'
      BY <3>3, <3>4 DEF ShutdownUnderWay, TheFarewell
    <3> QED
      BY <1>1, <2>1, <3>5
  <2> QED
    BY <1>1, <2>1, <2>2, <2>3
<1> QED
  BY <1>2 DEF MixersAreOwned

\* The last one to leave sends the Shutdown; whoever leaves before, leaves
\* somebody that is counted, and so attached.
LEMMA DisconnectOwned ==
    ASSUME TypeOK, TypeOK', Counts, Counts', Ownership, NEW c \in Connections, Disconnect(c)
    PROVE  MixersAreOwned'
<1> DEFINE w == UserOf[c]
           counts == [connections EXCEPT ![w] = SaturatingSub(connections[w])]
<1>1. w \in Users /\ link' = [link EXCEPT ![c] = "leaving"] /\ link[c] = "closing"
      /\ UNCHANGED <<stage, queue, listener, strayed>>
  BY ConstantsAssumption DEF Disconnect, mixerVars
<1>2. leaving[c] = AtRest /\ \A d \in Connections \ {c} : leaving'[d] = leaving[d]
  BY <1>1 DEF Disconnect, Ownership, LeaversSend, TypeOK
<1>3. ASSUME NEW m \in Mixers, ShutdownUnderWay(m) PROVE ShutdownUnderWay(m)'
  BY <1>1, <1>2, <1>3, FarewellSent, ShutdownKept
<1>4. CASE ~present
  <2>1. audioTx' = NoMixer /\ audioTx = NoMixer
    BY <1>4 DEF Disconnect, Counts, AbsentRoomIsEmpty
  <2> QED
    BY <1>1, <1>3, <2>1 DEF Ownership, MixersAreOwned, Mixers, NoMixer
<1>5. CASE present /\ \A v \in Users : counts[v] = 0
  <2>1. Farewell(w, counts) = TheFarewell
    BY <1>5 DEF Farewell, TheFarewell
  <2>2. TheFarewell.kind = "shutdown"
    BY DEF TheFarewell, Command
  <2>3. audioTx' = NoMixer
    BY <1>5, <2>1, <2>2 DEF Disconnect
  <2>4. leaving'[c] = Sending(audioTx, TheFarewell)
    <3>1. counts[w] = 0
      BY <1>1, <1>5
    <3>2. leaving' = [leaving EXCEPT ![c] = IF counts[w] = 0 THEN Sending(audioTx, Farewell(w, counts))
                                            ELSE AtRest]
      BY <1>5, Zenon DEF Disconnect
    <3> HIDE DEF counts
    <3> QED
      BY <2>1, <3>1, <3>2 DEF TypeOK
  <2>5. ASSUME NEW m \in Mixers, stage'[m] = "running"
        PROVE  m # audioTx' /\ ShutdownUnderWay(m)'
    <3>1. CASE m = audioTx
      BY <2>3, <2>4, <3>1 DEF ShutdownUnderWay, TheFarewell, Mixers, NoMixer
    <3>2. CASE m # audioTx
      BY <1>1, <1>3, <2>3, <2>5, <3>2 DEF Ownership, MixersAreOwned, Mixers, NoMixer
    <3> QED
      BY <3>1, <3>2
  <2> QED
    BY <2>5 DEF MixersAreOwned
<1>6. CASE present /\ \E v \in Users : counts[v] # 0
  <2>1. PICK v \in Users : counts[v] # 0
    BY <1>6
  <2>2. connections' = counts
    BY <1>6 DEF Disconnect
  <2>3. connections'[v] > 0
    <3>1. connections'[v] \in Nat
      BY DEF TypeOK
    <3> HIDE DEF counts
    <3> QED
      BY <2>1, <2>2, <3>1
  <2>4. audioTx' \in strayed' \/ \E d \in Connections : Attached(d)'
    <3>1. connections'[v] <= Cardinality(LiveTo(v)') + lost'[v] /\ lost'[v] \in Nat
      BY DEF Counts, PresenceIsReal, TypeOK
    <3>2. CASE lost'[v] = 0
      <4>1. Cardinality(LiveTo(v)') # 0
        <5>1. connections'[v] \in Nat /\ Cardinality(LiveTo(v)') \in Nat
          BY LiveFiniteNext DEF TypeOK
        <5> QED
          BY <2>3, <3>1, <3>2, <5>1
      <4>2. LiveTo(v)' # {}
        BY <4>1, FS_EmptySet
      <4> QED
        BY <4>2 DEF LiveTo, AttachedTo
    <3>3. CASE lost'[v] # 0
      BY <3>1, <3>3 DEF Counts, LostAreCounted
    <3> QED
      BY <3>2, <3>3
  <2>5. Farewell(w, counts) = Command("remove", w)
    BY <2>1 DEF Farewell
  <2>6. audioTx' = audioTx
    <3>1. Command("remove", w).kind # "shutdown"
      BY DEF Command
    <3>2. audioTx' = IF Farewell(w, counts).kind = "shutdown" THEN NoMixer ELSE audioTx
      BY <1>6 DEF Disconnect
    <3> HIDE DEF counts
    <3> QED
      BY <2>5, <3>1, <3>2
  <2> QED
    BY <1>1, <1>3, <2>4, <2>6 DEF Ownership, MixersAreOwned
<1> QED
  BY <1>4, <1>5, <1>6

LEMMA LinkOwned ==
    ASSUME TypeOK, TypeOK', Counts, Counts', Ownership, NEW c \in Connections, Link(c)
    PROVE  MixersAreOwned'
<1>1. CASE Connect(c)
  BY <1>1, ConnectOwned DEF Ownership
<1>2. CASE Disconnect(c)
  BY <1>2, DisconnectOwned
<1>3. CASE Admit(c) \/ GiveUp(c) \/ Spawn(c) \/ BeginWrite(c) \/ EndWrite(c) \/ Notice(c)
           \/ HangUp(c)
  <2>1. UNCHANGED <<audioTx, stage, queue, listener, leaving, strayed>>
    BY <1>3 DEF Admit, GiveUp, Spawn, BeginWrite, EndWrite, Notice, HangUp, hubVars, mixerVars,
                history
  <2>2. \A d \in Connections : Attached(d) => Attached(d)'
    BY <1>3 DEF Admit, GiveUp, Spawn, BeginWrite, EndWrite, Notice, HangUp, AtSelect, Attached,
                Registered, TypeOK
  <2> QED
    BY <2>1, <2>2, OwnedKept DEF Ownership, ShutdownUnderWay
<1>7. CASE Abandon(c)
  <2>1. UNCHANGED <<audioTx, stage, queue, listener, leaving>>
        /\ strayed' = strayed \cup ({audioTx} \ {NoMixer})
    BY <1>7 DEF Abandon, hubVars, mixerVars
  <2>2. audioTx \in strayed' \cup {NoMixer}
    BY <2>1
  <2> QED
    BY <2>1, <2>2, OwnedKept DEF Ownership, ShutdownUnderWay
<1>4. CASE FindSession(c) \/ \E kind \in ClientKinds : CheckUplink(c, kind)
  <2>1. UNCHANGED <<audioTx, stage, queue, listener, leaving, link, strayed>>
    BY <1>4 DEF FindSession, CheckUplink, hubVars, mixerVars, history
  <2> QED
    BY <2>1, OwnedKept DEF Ownership, ShutdownUnderWay, Attached, Registered
<1>5. CASE FinishUplink(c)
  <2>1. uplink[c] \in Tasks
    BY DEF TypeOK
  <2>2. UNCHANGED <<audioTx, stage, listener, leaving, link, strayed>>
    BY <1>5 DEF FinishUplink, hubVars, history
  <2>3. ASSUME NEW m \in Mixers, stage[m] = "running", ShutdownUnderWay(m)
        PROVE  ShutdownUnderWay(m)'
    BY <1>5, <2>1, <2>2, <2>3, DeliveryKeeps DEF FinishUplink
  <2> QED
    BY <2>2, <2>3, OwnedKept DEF Ownership, Attached, Registered
<1>6. CASE FinishLeave(c)
  <2>1. leaving[c] \in Tasks /\ link[c] = "leaving"
    BY <1>6 DEF TypeOK, FinishLeave
  <2>2. UNCHANGED <<audioTx, stage, listener, strayed>>
        /\ (\A d \in Connections \ {c} : leaving'[d] = leaving[d])
        /\ \A d \in Connections : Attached(d) => Attached(d)'
    BY <1>6, <2>1 DEF FinishLeave, hubVars, history, TypeOK, Attached, Registered
  <2>3. ASSUME NEW m \in Mixers, stage[m] = "running", ShutdownUnderWay(m)
        PROVE  ShutdownUnderWay(m)'
    <3>1. CASE leaving[c].step = "idle"
      <4>1. leaving[c] # Sending(m, TheFarewell)
        BY <3>1, FarewellSent
      <4>2. queue' = queue
        BY <1>6, <3>1 DEF FinishLeave
      <4> QED
        BY <2>2, <2>3, <4>1, <4>2, FarewellSent DEF ShutdownUnderWay, TheFarewell
    <3>2. CASE leaving[c].step # "idle"
      <4>1. CanFinish(leaving[c]) /\ Deliver(leaving[c])
        BY <1>6, <3>2 DEF FinishLeave
      <4> QED
        BY <2>1, <2>2, <2>3, <4>1, DeliveryKeeps
    <3> QED
      BY <3>1, <3>2
  <2> QED
    BY <2>2, <2>3, OwnedKept DEF Ownership
<1> QED
  BY <1>1, <1>2, <1>3, <1>4, <1>5, <1>6, <1>7 DEF Link, Uplink

LEMMA OthersOwned ==
    ASSUME TypeOK, MixersAreOwned,
           \/ Administer \/ FinishOrder \/ UNCHANGED vars
           \/ \E u \in Users : RevokeUser(u)
           \/ \E h \in Muters : Mute(h)
    PROVE  MixersAreOwned'
<1>1. UNCHANGED <<audioTx, stage, leaving, link, strayed>>
  BY DEF Administer, Suspend, Reactivate, EndRoom, ReopenRoom, FinishOrder, RevokeUser,
         Mute, StoreMute, SetMuted, FinishMute, vars, hubVars, mixerVars, linkVars, history
<1>2. ASSUME NEW m \in Mixers, stage[m] = "running", ShutdownUnderWay(m)
      PROVE  ShutdownUnderWay(m)'
  <2>1. CASE Administer \/ UNCHANGED vars
    BY <1>1, <1>2, <2>1
    DEF Administer, Suspend, Reactivate, EndRoom, ReopenRoom, vars, mixerVars, ShutdownUnderWay
  <2>2. CASE FinishOrder
    <3>1. listener \in Tasks
      BY DEF TypeOK
    <3> QED
      BY <1>1, <1>2, <2>2, <3>1, DeliveryKeeps DEF FinishOrder
  <2>3. ASSUME NEW u \in Users, RevokeUser(u) PROVE ShutdownUnderWay(m)'
    <3>1. listener # Sending(m, TheFarewell) /\ queue' = queue
      BY <2>3, FarewellSent DEF RevokeUser, mixerVars
    <3> QED
      BY <1>1, <1>2, <3>1 DEF ShutdownUnderWay, TheFarewell
  <2>4. ASSUME NEW h \in Muters, Mute(h) PROVE ShutdownUnderWay(m)'
    <3>1. CASE FinishMute(h)
      <4>1. muter[h].task \in Tasks
        BY DEF TypeOK, MutingTasks
      <4> QED
        BY <1>1, <1>2, <3>1, <4>1, DeliveryKeeps DEF FinishMute
    <3>2. CASE ~FinishMute(h)
      BY <1>1, <1>2, <2>4, <3>2 DEF Mute, StoreMute, SetMuted, mixerVars, ShutdownUnderWay
    <3> QED
      BY <3>1, <3>2
  <2> QED
    BY <2>1, <2>2, <2>3, <2>4
<1> QED
  BY <1>1, <1>2, OwnedKept DEF Attached, Registered

LEMMA LeaversStep ==
    ASSUME TypeOK, LeaversSend, [Next]_vars
    PROVE  LeaversSend'
<1>1. CASE UNCHANGED <<link, leaving>>
  BY <1>1 DEF LeaversSend
<1>2. ASSUME NEW c \in Connections, Link(c) PROVE LeaversSend'
  <2>1. CASE Admit(c) \/ GiveUp(c) \/ Connect(c) \/ Spawn(c) \/ Abandon(c) \/ BeginWrite(c)
             \/ EndWrite(c) \/ Notice(c) \/ HangUp(c)
    <3>1. leaving' = leaving /\ link[c] # "leaving"
          /\ link'[c] # "leaving" /\ \A d \in Connections \ {c} : link'[d] = link[d]
      BY <2>1 DEF Admit, GiveUp, Connect, Spawn, Abandon, BeginWrite, EndWrite, Notice, HangUp,
                  AtSelect, TypeOK
    <3> QED
      BY <3>1 DEF LeaversSend
  <2>2. CASE FindSession(c) \/ Uplink(c)
    BY <1>1, <2>2 DEF FindSession, Uplink, CheckUplink, FinishUplink
  <2>3. CASE Disconnect(c)
    <3>1. link'[c] = "leaving"
          /\ \A d \in Connections \ {c} : link'[d] = link[d] /\ leaving'[d] = leaving[d]
      BY <2>3 DEF Disconnect, TypeOK
    <3> QED
      BY <3>1 DEF LeaversSend
  <2>4. CASE FinishLeave(c)
    <3>1. leaving'[c] = AtRest
          /\ \A d \in Connections \ {c} : link'[d] = link[d] /\ leaving'[d] = leaving[d]
      BY <2>4 DEF FinishLeave, TypeOK
    <3> QED
      BY <3>1 DEF LeaversSend
  <2> QED
    BY <1>2, <2>1, <2>2, <2>3, <2>4 DEF Link
<1>3. CASE Administer \/ Listen \/ UNCHANGED vars
  BY <1>1, <1>3
  DEF Administer, Suspend, Reactivate, EndRoom, ReopenRoom, Listen, RevokeUser, CloseRoom,
      FinishOrder, linkVars, vars
<1>4. ASSUME NEW h \in Muters, Mute(h) PROVE LeaversSend'
  BY <1>1, <1>4 DEF Mute, StoreMute, SetMuted, FinishMute, linkVars
<1>5. ASSUME NEW m \in Mixers, Mixer(m) PROVE LeaversSend'
  BY <1>1, <1>5 DEF Mixer, HandleCommand, PipelineFails, StopMixer, ClearSpeaker, linkVars
<1> QED
  BY <1>2, <1>3, <1>4, <1>5 DEF Next

-----------------------------------------------------------------------------
(* Usage: the mixer in use is not told to stop.                            *)

\* A delivery adds the task's command to its mixer's queue, and nothing else.
LEMMA DeliverAdds ==
    ASSUME TypeOK, NEW task \in Tasks, Deliver(task), NEW m \in Mixers,
           NEW command \in Range(queue'[m]), command \notin Range(queue[m])
    PROVE  task.mixer = m /\ command = task.command
<1>1. queue' # queue
  OBVIOUS
<1>2. queue' = [queue EXCEPT ![task.mixer] = Append(queue[task.mixer], task.command)]
  BY <1>1 DEF Deliver
<1>3. queue \in [Mixers -> Seq(Commands)] /\ task.command \in Commands
  BY DEF TypeOK, Tasks
<1>4. task.mixer = m
  BY <1>2, <1>3
<1>5. queue'[m] = Append(queue[m], task.command)
  BY <1>2, <1>3, <1>4
<1>6. PICK q \in Seq(Commands) : q = queue[m]
  BY <1>3
<1>7. PICK i \in DOMAIN Append(q, task.command) : Append(q, task.command)[i] = command
  BY <1>5, <1>6 DEF Range
<1>8. i = Len(q) + 1
  <2>1. i \in DOMAIN q => q[i] = command
    BY <1>3, <1>7
  <2>2. i \in DOMAIN q => command \in Range(queue[m])
    BY <1>6, <2>1 DEF Range
  <2> QED
    BY <1>3, <1>7, <2>2
<1> QED
  BY <1>3, <1>4, <1>7, <1>8

\* Where an order to stop m comes from.
StopIsOld(m) == MayStop(m) \/ (m = audioTx /\ audioTx' = NoMixer)

LEMMA QueueStops ==
    ASSUME TypeOK, NEW m \in Mixers, NEW task \in Tasks, CanFinish(task), Deliver(task),
           NEW command \in Range(queue'[m]), command.kind = "shutdown"
    PROVE  \/ command \in Range(queue[m])
           \/ task.step = "sending" /\ task.mixer = m /\ task.command.kind = "shutdown"
BY DeliverAdds DEF CanFinish

LEMMA ListenStops ==
    ASSUME TypeOK, Usage, Listen, NEW m \in Mixers, MayStop(m)'
    PROVE  StopIsOld(m)
<1>1. leaving' = leaving
  BY DEF Listen, RevokeUser, CloseRoom, FinishOrder, linkVars
<1>2. ASSUME NEW u \in Users, RevokeUser(u) PROVE StopIsOld(m)
  <2>1. queue' = queue /\ listener' = Sending(audioTx, Command("remove", u))
    BY <1>2 DEF RevokeUser, mixerVars
  <2>2. listener'.command.kind # "shutdown"
    BY <2>1 DEF Sending, Task, AtRest, Command
  <2> QED
    BY <1>1, <2>1, <2>2 DEF MayStop, StopIsOld
<1>3. ASSUME CloseRoom PROVE StopIsOld(m)
  <2>1. queue' = queue /\ listener' = Sending(audioTx, TheFarewell) /\ audioTx' = NoMixer
    BY <1>3 DEF CloseRoom, mixerVars, TheFarewell
  <2>2. listener'.step = "sending" /\ listener'.mixer = m => m = audioTx
    BY <2>1 DEF Sending, Task, AtRest
  <2> QED
    BY <1>1, <2>1, <2>2 DEF MayStop, StopIsOld
<1>4. ASSUME FinishOrder PROVE StopIsOld(m)
  <2>1. listener \in Tasks /\ CanFinish(listener) /\ Deliver(listener) /\ listener' = AtRest
    BY <1>4 DEF FinishOrder, TypeOK
  <2>2. listener'.step # "sending"
    BY <2>1 DEF AtRest, Task
  <2>3. CASE \E command \in Range(queue'[m]) : command.kind = "shutdown"
    BY <2>1, <2>3, QueueStops DEF MayStop, StopIsOld
  <2>4. CASE ~\E command \in Range(queue'[m]) : command.kind = "shutdown"
    BY <1>1, <2>2, <2>4 DEF MayStop, StopIsOld
  <2> QED
    BY <2>3, <2>4
<1> QED
  BY <1>2, <1>3, <1>4 DEF Listen

LEMMA MuteStops ==
    ASSUME TypeOK, Usage, NEW h \in Muters, Mute(h), NEW m \in Mixers, MayStop(m)'
    PROVE  StopIsOld(m)
<1>1. UNCHANGED <<leaving, listener>>
  BY DEF Mute, StoreMute, SetMuted, FinishMute, linkVars
<1>2. CASE queue' = queue
  BY <1>1, <1>2 DEF MayStop, StopIsOld
<1>3. CASE FinishMute(h)
  <2>1. muter[h].task \in Tasks /\ CanFinish(muter[h].task) /\ Deliver(muter[h].task)
    BY <1>3 DEF FinishMute, TypeOK, MutingTasks
  <2>2. muter[h].task.command.kind # "shutdown"
    BY DEF Usage, OthersStopNothing
  <2> QED
    BY <1>1, <2>1, <2>2, QueueStops DEF MayStop, StopIsOld
<1> QED
  BY <1>2, <1>3 DEF Mute, StoreMute, SetMuted, mixerVars

LEMMA MixerStops ==
    ASSUME TypeOK, NEW k \in Mixers, Mixer(k), NEW m \in Mixers, MayStop(m)'
    PROVE  StopIsOld(m)
<1>1. UNCHANGED <<leaving, listener>>
  BY DEF Mixer, HandleCommand, PipelineFails, StopMixer, ClearSpeaker, linkVars
<1>2. Range(queue'[m]) \subseteq Range(queue[m])
  <2>1. CASE HandleCommand(k)
    <3>1. PICK q \in Seq(Commands) : q = queue[k] /\ q # <<>>
      BY <2>1 DEF HandleCommand, TypeOK
    <3>2. queue'[k] = Tail(q) /\ (m # k => queue'[m] = queue[m])
      BY <2>1, <3>1 DEF HandleCommand, TypeOK
    <3>3. Range(Tail(q)) \subseteq Range(q)
      <4>1. \A i \in DOMAIN Tail(q) : i + 1 \in DOMAIN q /\ q[i + 1] = Tail(q)[i]
        BY <3>1
      <4> QED
        BY <4>1 DEF Range
    <3> QED
      BY <3>1, <3>2, <3>3
  <2>2. CASE StopMixer(k)
    <3>1. queue'[m] = queue[m] \/ queue'[m] = <<>>
      BY <2>2 DEF StopMixer, TypeOK
    <3>2. Range(<<>>) = {}
      BY DEF Range
    <3> QED
      BY <3>1, <3>2
  <2>3. CASE queue' = queue
    BY <2>3
  <2> QED
    BY <2>1, <2>2, <2>3 DEF Mixer, PipelineFails, ClearSpeaker
<1> QED
  BY <1>1, <1>2 DEF MayStop, StopIsOld

LEMMA LinkStops ==
    ASSUME TypeOK, Usage, NEW c \in Connections, Link(c), NEW m \in Mixers, MayStop(m)'
    PROVE  StopIsOld(m)
<1>1. CASE UNCHANGED <<queue, leaving, listener>>
  BY <1>1 DEF MayStop, StopIsOld
<1>2. CASE FinishUplink(c)
  <2>1. uplink[c] \in Tasks /\ CanFinish(uplink[c]) /\ Deliver(uplink[c])
        /\ UNCHANGED <<leaving, listener>>
    BY <1>2 DEF FinishUplink, TypeOK
  <2>2. uplink[c].command.kind # "shutdown"
    BY DEF Usage, OthersStopNothing
  <2> QED
    BY <2>1, <2>2, QueueStops DEF MayStop, StopIsOld
<1>3. CASE Disconnect(c)
  <2> DEFINE u == UserOf[c]
             counts == [connections EXCEPT ![u] = SaturatingSub(@)]
             farewell == Farewell(u, counts)
  <2>1. UNCHANGED <<queue, listener>> /\ \A d \in Connections \ {c} : leaving'[d] = leaving[d]
    BY <1>3 DEF Disconnect, mixerVars, TypeOK
  <2>2. ASSUME leaving'[c].step = "sending", leaving'[c].mixer = m,
               leaving'[c].command.kind = "shutdown", leaving'[c] # leaving[c]
        PROVE  m = audioTx /\ audioTx' = NoMixer
    <3> HIDE DEF farewell
    <3>1. present /\ leaving' = [leaving EXCEPT ![c] =
                        IF counts[u] = 0 THEN Sending(audioTx, farewell) ELSE AtRest]
      BY <1>3, <2>2, Zenon DEF Disconnect, farewell
    <3>2. leaving'[c] = Sending(audioTx, farewell) \/ leaving'[c] = AtRest
      <4> HIDE DEF counts
      <4> QED
        BY <3>1 DEF TypeOK
    <3>3. leaving'[c] = Task("sending", audioTx, farewell)
      BY <2>2, <3>2 DEF Sending, AtRest, Task
    <3>4. m = audioTx /\ farewell.kind = "shutdown"
      BY <2>2, <3>3 DEF Task
    <3>5. audioTx' = IF farewell.kind = "shutdown" THEN NoMixer ELSE audioTx
      BY <1>3, <3>1 DEF Disconnect, farewell
    <3> QED
      BY <3>4, <3>5
  <2> QED
    BY <2>1, <2>2 DEF MayStop, StopIsOld
<1>4. CASE FinishLeave(c)
  <2>1. leaving' = [leaving EXCEPT ![c] = AtRest] /\ listener' = listener /\ leaving[c] \in Tasks
    BY <1>4 DEF FinishLeave, TypeOK
  <2>2. \A d \in Connections : leaving'[d].step = "sending" => leaving'[d] = leaving[d]
    BY <2>1 DEF AtRest, Task, TypeOK
  <2>3. CASE queue' = queue
    BY <2>1, <2>2, <2>3 DEF MayStop, StopIsOld
  <2>4. CASE CanFinish(leaving[c]) /\ Deliver(leaving[c])
    BY <2>1, <2>2, <2>4, QueueStops DEF MayStop, StopIsOld
  <2> QED
    BY <1>4, <2>3, <2>4 DEF FinishLeave
<1> QED
  BY <1>1, <1>2, <1>3, <1>4
  DEF Link, Uplink, Admit, GiveUp, Connect, Spawn, Abandon, BeginWrite, EndWrite, Notice, HangUp,
      FindSession, CheckUplink, mixerVars

LEMMA StopsAreOld ==
    ASSUME TypeOK, Usage, [Next]_vars, NEW m \in Mixers, MayStop(m)'
    PROVE  StopIsOld(m)
<1>1. CASE Administer \/ UNCHANGED vars
  BY <1>1 DEF Administer, Suspend, Reactivate, EndRoom, ReopenRoom, vars, mixerVars, linkVars,
              MayStop, StopIsOld
<1> QED
  BY <1>1, ListenStops, MuteStops, LinkStops, MixerStops DEF Next

\* A running mixer leaves its loop when it was told to, or when its pipeline failed.
LEMMA RunningKept ==
    ASSUME TypeOK, [Next]_vars, NEW m \in Mixers, ~MayStop(m),
           stage[m] = "running" \/ m \in broken
    PROVE  stage'[m] = "running" \/ m \in broken'
<1>1. broken \subseteq broken'
  BY DEF Next, Administer, Suspend, Reactivate, EndRoom, ReopenRoom, Listen, RevokeUser, CloseRoom,
         FinishOrder, Mute, StoreMute, SetMuted, FinishMute, Link, Admit, GiveUp, Connect, Spawn,
         Abandon, BeginWrite, EndWrite, Notice, HangUp, FindSession, Uplink, CheckUplink,
         FinishUplink, Disconnect, FinishLeave, Mixer, HandleCommand, PipelineFails, ClearSpeaker,
         StopMixer, history, vars
<1>2. ASSUME stage[m] = "running", stage'[m] # "running" PROVE m \in broken'
  <2>1. \E k \in Mixers : Mixer(k)
    <3>1. ASSUME NEW c \in Connections, Link(c) PROVE stage'[m] = stage[m]
      <4>1. CASE Connect(c)
        <5>1. \/ stage' = stage
              \/ mixers' \in Mixers /\ stage' = [stage EXCEPT ![mixers'] = "running"]
          <6>1. CASE audioTx # NoMixer
            BY <4>1, <6>1 DEF Connect
          <6>2. CASE audioTx = NoMixer
            BY <4>1, <6>2, ConstantsAssumption DEF Connect, TypeOK, Mixers
          <6> QED
            BY <6>1, <6>2
        <5> QED
          BY <1>2, <5>1 DEF TypeOK
      <4> QED
        BY <3>1, <4>1
        DEF Link, Uplink, Admit, GiveUp, Spawn, Abandon, BeginWrite, EndWrite, Notice, HangUp,
            FindSession, CheckUplink, FinishUplink, Disconnect, FinishLeave, mixerVars
    <3>2. CASE Administer \/ Listen \/ UNCHANGED vars
      BY <1>2, <3>2
      DEF Administer, Suspend, Reactivate, EndRoom, ReopenRoom, Listen, RevokeUser, CloseRoom,
          FinishOrder, mixerVars, vars
    <3>3. ASSUME NEW h \in Muters, Mute(h) PROVE FALSE
      BY <1>2, <3>3 DEF Mute, StoreMute, SetMuted, FinishMute, mixerVars
    <3> QED
      BY <1>2, <3>1, <3>2, <3>3 DEF Next
  <2>2. PICK k \in Mixers : Mixer(k)
    BY <2>1
  <2>3. k = m
    BY <1>2, <2>2 DEF Mixer, HandleCommand, PipelineFails, StopMixer, ClearSpeaker, TypeOK
  <2>4. ~HandleCommand(m)
    <3> SUFFICES ASSUME HandleCommand(m) PROVE FALSE
      OBVIOUS
    <3>1. PICK q \in Seq(Commands) : q = queue[m] /\ q # <<>>
      BY DEF HandleCommand, TypeOK
    <3>2. Head(q).kind = "shutdown"
      BY <1>2, <3>1 DEF HandleCommand
    <3>3. Head(q) \in Range(queue[m])
      BY <3>1 DEF Range
    <3> QED
      BY <3>2, <3>3 DEF MayStop
  <2> QED
    BY <1>2, <2>2, <2>3, <2>4 DEF Mixer, PipelineFails, StopMixer, ClearSpeaker
<1> QED
  BY <1>1, <1>2

LEMMA OthersStep ==
    ASSUME TypeOK, OthersStopNothing, [Next]_vars
    PROVE  OthersStopNothing'
<1>1. CASE UNCHANGED <<uplink, muter>>
  BY <1>1 DEF OthersStopNothing
<1>2. AtRest.command.kind = "audio" /\ Ready.command.kind = "audio"
  BY DEF AtRest, Ready, Task, Command
<1>3. ASSUME NEW c \in Connections, Link(c) PROVE OthersStopNothing'
  <2>1. CASE FindSession(c) \/ FinishUplink(c)
    <3>1. muter' = muter /\ (uplink' = [uplink EXCEPT ![c] = Ready]
                             \/ uplink' = [uplink EXCEPT ![c] = AtRest])
      BY <2>1 DEF FindSession, FinishUplink
    <3> QED
      BY <1>2, <3>1 DEF OthersStopNothing, TypeOK
  <2>2. ASSUME NEW kind \in ClientKinds, CheckUplink(c, kind) PROVE OthersStopNothing'
    <3>1. kind # "shutdown"
      BY ConstantsAssumption
    <3>2. Sending(audioTx, Command(kind, UserOf[c])).command.kind # "shutdown"
      BY <1>2, <3>1 DEF Sending, Task, Command
    <3>3. muter' = muter /\ uplink' = [uplink EXCEPT ![c] =
             IF MayPublish(UserOf[c]) THEN Sending(audioTx, Command(kind, UserOf[c])) ELSE AtRest]
      BY <2>2 DEF CheckUplink
    <3> QED
      BY <1>2, <3>2, <3>3 DEF OthersStopNothing, TypeOK
  <2> QED
    BY <1>1, <1>3, <2>1, <2>2
    DEF Link, Uplink, Admit, GiveUp, Connect, Spawn, Abandon, BeginWrite, EndWrite, Notice, HangUp,
        Disconnect, FinishLeave
<1>4. ASSUME NEW h \in Muters, Mute(h) PROVE OthersStopNothing'
  <2>1. uplink' = uplink /\ \A g \in Muters \ {h} : muter'[g] = muter[g]
    BY <1>4 DEF Mute, StoreMute, SetMuted, FinishMute, linkVars, TypeOK
  <2>2. muter'[h].task.command.kind # "shutdown"
    <3>1. ASSUME NEW u \in Users, NEW b \in BOOLEAN, StoreMute(h, u, b)
          PROVE  muter'[h].task.command.kind # "shutdown"
      BY <1>2, <3>1 DEF StoreMute, TypeOK
    <3>2. CASE SetMuted(h)
      <4> DEFINE task == IF muter[h].mute THEN Sending(audioTx, Command("remove", muter[h].user))
                         ELSE AtRest
      <4>1. task.command.kind # "shutdown"
        BY <1>2 DEF Sending, Task, Command
      <4>2. muter' = [muter EXCEPT ![h] = [NotMuting EXCEPT !.task = task]]
        BY <3>2, Zenon DEF SetMuted
      <4>3. [NotMuting EXCEPT !.task = task].task = task
        BY DEF NotMuting
      <4>4. muter'[h].task = task
        <5> HIDE DEF task
        <5> QED
          BY <4>2, <4>3 DEF TypeOK
      <4> QED
        BY <4>1, <4>4
    <3>3. CASE FinishMute(h)
      BY <1>2, <3>3 DEF FinishMute, NotMuting, TypeOK
    <3> QED
      BY <1>4, <3>1, <3>2, <3>3 DEF Mute
  <2> QED
    BY <2>1, <2>2 DEF OthersStopNothing
<1>5. CASE Administer \/ Listen \/ UNCHANGED vars
  BY <1>1, <1>5
  DEF Administer, Suspend, Reactivate, EndRoom, ReopenRoom, Listen, RevokeUser, CloseRoom,
      FinishOrder, linkVars, vars
<1>6. ASSUME NEW m \in Mixers, Mixer(m) PROVE OthersStopNothing'
  BY <1>1, <1>6 DEF Mixer, HandleCommand, PipelineFails, StopMixer, ClearSpeaker, linkVars
<1> QED
  BY <1>3, <1>4, <1>5, <1>6 DEF Next

\* Which mixer the room has changes only when it lets it go, or starts the next.
LEMMA RoomMixerChanges ==
    ASSUME TypeOK, [Next]_vars
    PROVE  \/ audioTx' = audioTx /\ mixers' = mixers
           \/ audioTx' = NoMixer /\ mixers' = mixers
           \/ /\ audioTx = NoMixer /\ audioTx' = mixers + 1 /\ mixers' = mixers + 1
              /\ stage'[mixers + 1] = "running"
<1>1. ASSUME NEW c \in Connections, Connect(c), audioTx = NoMixer
      PROVE  audioTx' = mixers + 1 /\ mixers' = mixers + 1 /\ stage'[mixers + 1] = "running"
  <2>1. mixers + 1 \in Mixers
    BY <1>1, ConstantsAssumption DEF Connect, TypeOK, Mixers
  <2>2. mixers' = mixers + 1 /\ audioTx' = mixers' /\ stage' = [stage EXCEPT ![mixers'] = "running"]
    BY <1>1 DEF Connect
  <2> QED
    BY <2>1, <2>2 DEF TypeOK
<1>2. ASSUME NEW c \in Connections, Link(c), ~Connect(c)
      PROVE  mixers' = mixers /\ (audioTx' = audioTx \/ audioTx' = NoMixer)
  BY <1>2 DEF Link, Uplink, Admit, GiveUp, Spawn, Abandon, BeginWrite, EndWrite, Notice, HangUp,
              FindSession, CheckUplink, FinishUplink, Disconnect, FinishLeave, hubVars, counters
<1>3. ASSUME NEW c \in Connections, Connect(c), audioTx # NoMixer
      PROVE  mixers' = mixers /\ audioTx' = audioTx
  BY <1>3 DEF Connect
<1>4. CASE Administer \/ Listen \/ UNCHANGED vars
  BY <1>4
  DEF Administer, Suspend, Reactivate, EndRoom, ReopenRoom, Listen, RevokeUser, CloseRoom,
      FinishOrder, hubVars, counters, vars
<1>5. ASSUME NEW h \in Muters, Mute(h) PROVE mixers' = mixers /\ audioTx' = audioTx
  BY <1>5 DEF Mute, StoreMute, SetMuted, FinishMute, hubVars, counters
<1>6. ASSUME NEW m \in Mixers, Mixer(m) PROVE mixers' = mixers /\ audioTx' = audioTx
  BY <1>6 DEF Mixer, HandleCommand, PipelineFails, StopMixer, ClearSpeaker, hubVars, counters
<1> QED
  BY <1>1, <1>2, <1>3, <1>4, <1>5, <1>6 DEF Next

LEMMA UsageStep ==
    ASSUME TypeOK, Usage, [Next]_vars
    PROVE  Usage'
<1>1. OthersStopNothing'
  BY OthersStep DEF Usage
<1>2. /\ audioTx <= mixers /\ mixers \in Nat /\ audioTx \in Nat /\ NoMixer = 0
      /\ \A m \in Mixers : m \in Nat /\ m # NoMixer
      /\ \A m \in Mixers : m > mixers => ~MayStop(m)
  BY DEF Usage, MixersInUse, TypeOK, Mixers, NoMixer
<1>3. ASSUME NEW m \in Mixers, m > mixers PROVE ~MayStop(m)'
  BY <1>2, <1>3, StopsAreOld DEF StopIsOld
<1>4. CASE audioTx' = audioTx /\ mixers' = mixers
  <2>1. ASSUME NEW m \in Mixers, m = audioTx'
        PROVE  ~MayStop(m)' /\ (stage'[m] = "running" \/ m \in broken')
    <3>1. ~MayStop(m) /\ (stage[m] = "running" \/ m \in broken) /\ m # NoMixer
      BY <1>2, <1>4, <2>1 DEF Usage, MixersInUse
    <3> QED
      BY <1>4, <2>1, <3>1, StopsAreOld, RunningKept DEF StopIsOld
  <2> QED
    BY <1>1, <1>2, <1>3, <1>4, <2>1 DEF Usage, MixersInUse
<1>5. CASE audioTx' = NoMixer /\ mixers' = mixers
  BY <1>1, <1>2, <1>3, <1>5 DEF Usage, MixersInUse
<1>6. CASE /\ audioTx = NoMixer /\ audioTx' = mixers + 1 /\ mixers' = mixers + 1
           /\ stage'[mixers + 1] = "running"
  <2>1. \A m \in Mixers : m > mixers' => m > mixers
    BY <1>2, <1>6
  <2>2. audioTx' > mixers
    BY <1>2, <1>6
  <2> QED
    BY <1>1, <1>2, <1>3, <1>6, <2>1, <2>2 DEF Usage, MixersInUse
<1> QED
  BY <1>4, <1>5, <1>6, RoomMixerChanges

-----------------------------------------------------------------------------
LEMMA HubStart == Init => HubInvariant
<1> SUFFICES ASSUME Init PROVE HubInvariant
  OBVIOUS
<1>1. TypeOK
  BY StartTyped
<1>2. \A u \in Users : connections[u] = 0 /\ lost[u] = 0 /\ Cardinality(LiveTo(u)) \in Nat
  BY LiveFinite DEF Init
<1>3. Counts
  BY <1>2 DEF Init, Counts, PresenceIsReal, OnlineHaveMixer, AbsentRoomIsEmpty, LostAreCounted
<1>4. Ownership /\ RevokedAreAttached
  BY DEF Init, Ownership, MixersAreOwned, LeaversSend, RevokedAreAttached
<1>5. AtRest.step # "sending" /\ AtRest.command.kind # "shutdown" /\ Range(<<>>) = {}
      /\ NotMuting.task = AtRest
  BY DEF AtRest, Task, Command, Range, NotMuting
<1>6. \A m \in Mixers : ~MayStop(m)
  BY <1>5 DEF Init, MayStop
<1>7. Usage
  BY <1>5, <1>6 DEF Init, Usage, OthersStopNothing, MixersInUse, Mixers, NoMixer
<1> QED
  BY <1>1, <1>3, <1>4, <1>7 DEF HubInvariant

LEMMA HubStep == HubInvariant /\ [Next]_vars => HubInvariant'
<1> SUFFICES ASSUME HubInvariant, [Next]_vars PROVE HubInvariant'
  OBVIOUS
<1>1. TypeOK /\ RevokedAreAttached /\ Counts /\ Ownership /\ Usage /\ MixersAreOwned /\ LeaversSend
  BY DEF HubInvariant, Ownership
<1>2. TypeOK'
  BY <1>1, StepTyped
<1>3. RevokedAreAttached' /\ Counts' /\ LeaversSend' /\ Usage'
  BY <1>1, <1>2, RevokedStep, CountsStep, LeaversStep, UsageStep
<1>4. MixersAreOwned'
  BY <1>1, <1>2, <1>3, LinkOwned, OthersOwned, CloseRoomOwned, HandleKeeps DEF Next, Listen
<1> QED
  BY <1>2, <1>3, <1>4 DEF HubInvariant, Ownership

\* Every variable of the room has its type, and no mixer's queue exceeds
\* AUDIO_COMMAND_CAPACITY, for every number of members, connections and handlers.
THEOREM HubIsTyped == Spec => []TypeOK
<1>1. HubInvariant => TypeOK
  BY DEF HubInvariant
<1> QED
  BY <1>1, HubStart, HubStep, PTL DEF Spec

\* The hub counts nobody as online beyond its connections that nobody revoked,
\* but for the counts that subscriptions dropped before their task existed left
\* behind (room_hub.rs 132, 170, 209, grpc.rs 171-191).
THEOREM PresenceStaysReal == Spec => []PresenceIsReal
<1>1. HubInvariant => PresenceIsReal
  BY DEF HubInvariant, Counts
<1> QED
  BY <1>1, HubStart, HubStep, PTL DEF Spec

\* While the hub counts anybody as online the room has a mixer, no order to
\* stop is on its way to that mixer, and it runs unless its own pipeline
\* failed (room_hub.rs 137-146, 187-196, 215-235, 395).
THEOREM OnlineRoomsStayMixed == Spec => []OnlineRoomsAreMixed
<1>1. ASSUME HubInvariant PROVE OnlineRoomsAreMixed
  <2> SUFFICES ASSUME NEW u \in Users, connections[u] > 0
               PROVE  /\ audioTx # NoMixer
                      /\ ~ShutdownUnderWay(audioTx)
                      /\ stage[audioTx] = "running" \/ audioTx \in broken
    BY DEF OnlineRoomsAreMixed
  <2>1. audioTx # NoMixer /\ audioTx \in Mixers
    BY <1>1 DEF HubInvariant, Counts, OnlineHaveMixer, TypeOK
  <2>2. ~MayStop(audioTx) /\ (stage[audioTx] = "running" \/ audioTx \in broken)
    BY <1>1, <2>1 DEF HubInvariant, Usage, MixersInUse
  <2>3. ShutdownUnderWay(audioTx) => MayStop(audioTx)
    <3>1. TheFarewell.kind = "shutdown"
      BY DEF TheFarewell, Command
    <3> QED
      BY <2>1, <3>1, FarewellSent DEF ShutdownUnderWay, MayStop, TheFarewell
  <2> QED
    BY <2>1, <2>2, <2>3
<1> QED
  BY <1>1, HubStart, HubStep, PTL DEF Spec

\* No audio runtime is leaked: each running mixer is the room's, with a
\* connection that will stop it, or its Shutdown is under way, through full
\* queues, failing pipelines and rooms that close; but for the mixer during
\* which a subscription was dropped before its task existed (room_hub.rs
\* 187-196, 215-235, grpc.rs 171-191).
THEOREM NoMixerIsLeaked == Spec => []MixersAreOwned
<1>1. HubInvariant => MixersAreOwned
  BY DEF HubInvariant, Ownership
<1> QED
  BY <1>1, HubStart, HubStep, PTL DEF Spec
=============================================================================
