-------------------------- MODULE CommandBusProofs --------------------------
(***************************************************************************)
(* Proofs about CommandBus, for every number of handlers, stream tasks,    *)
(* commands, restarts and breaks, and every capacity.                      *)
(***************************************************************************)
EXTENDS CommandBus, TLAPS, WellFoundedInduction, SequenceTheorems, FiniteSetTheorems

\* A task that sends picks the first position of its batch.
LEMMA NextInBatchIsLeast ==
    ASSUME NEW t \in StreamTasks, batch[t] \subseteq Nat, batch[t] # {}
    PROVE  /\ NextInBatch(t) \in batch[t]
           /\ \A m \in batch[t] : NextInBatch(t) <= m
<1>1. PICK n \in batch[t] : \A m \in batch[t] : ~ (<<m, n>> \in OpToRel(<, Nat))
  BY NatLessThanWellFounded, WFMin DEF OpToRel
<1>2. ASSUME NEW m \in batch[t]
      PROVE  n <= m
  <2>1. m \in Nat /\ n \in Nat
    OBVIOUS
  <2>2. <<m, n>> \in OpToRel(<, Nat) <=> m < n
    BY <2>1, Zenon DEF OpToRel
  <2>3. ~ (m < n)
    BY <1>1, <2>2, Zenon
  <2> QED
    BY <2>1, <2>3
<1> QED
  BY <1>2 DEF NextInBatch

\* Positions of the log: below m and above m, and numbers that differ.
LEMMA BelowPosition ==
    ASSUME NEW N \in Nat, NEW m \in 1..N, NEW n \in 1..(m - 1)
    PROVE  n \in 1..N
OBVIOUS

LEMMA BelowAbove ==
    ASSUME NEW N \in Nat, NEW m \in 1..N, NEW n \in 1..N, m < n
    PROVE  m \in 1..(n - 1)
OBVIOUS

LEMMA OtherNumber ==
    ASSUME NEW a \in 1..MaxSequence, NEW b \in 1..MaxSequence
    PROVE  a <= a /\ (a <= b /\ a # b => b > a)
BY ConstantsAssumption

\* Appending adds one element, dropping the head adds none.
LEMMA RangeOfAppend ==
    ASSUME NEW S, NEW s \in Seq(S), NEW e \in S
    PROVE  Range(Append(s, e)) = Range(s) \cup {e}
<1>1. /\ Append(s, e) \in Seq(S)
      /\ Len(Append(s, e)) = Len(s) + 1
      /\ Len(s) \in Nat
      /\ \A i \in 1..Len(s) : Append(s, e)[i] = s[i]
      /\ Append(s, e)[Len(s) + 1] = e
  BY AppendProperties, LenProperties
<1>2. DOMAIN Append(s, e) = 1..(Len(s) + 1) /\ DOMAIN s = 1..Len(s)
  BY <1>1, LenProperties
<1> QED
  BY <1>1, <1>2 DEF Range

\* Receiving the head of a channel leaves only values that were in it.
LEMMA RangeOfTail ==
    ASSUME NEW S, NEW s \in Seq(S), s # <<>>
    PROVE  /\ Range(Tail(s)) \subseteq Range(s)
           /\ Range(s) = Range(Tail(s)) \cup {Head(s)}
<1>1. /\ Tail(s) \in Seq(S)
      /\ Len(Tail(s)) = Len(s) - 1
      /\ Len(s) \in Nat \ {0}
      /\ \A i \in 1..Len(Tail(s)) : Tail(s)[i] = s[i + 1]
      /\ Head(s) = s[1]
  BY HeadTailProperties, EmptySeq
<1>2. DOMAIN Tail(s) = 1..(Len(s) - 1) /\ DOMAIN s = 1..Len(s)
  BY <1>1, LenProperties
<1>3. Range(Tail(s)) \subseteq Range(s)
  BY <1>1, <1>2 DEF Range
<1>4. ASSUME NEW i \in DOMAIN s PROVE s[i] \in Range(Tail(s)) \cup {Head(s)}
  <2>1. CASE i = 1
    BY <1>1, <2>1
  <2>2. CASE i # 1
    <3>1. i - 1 \in DOMAIN Tail(s) /\ Tail(s)[i - 1] = s[i]
      BY <1>1, <1>2, <2>2
    <3> QED
      BY <3>1 DEF Range
  <2> QED
    BY <2>1, <2>2
<1>5. Head(s) \in Range(s)
  BY <1>1, <1>2 DEF Range
<1> QED
  BY <1>3, <1>4, <1>5 DEF Range

\* A fresh admin process and a fresh public process (RuntimeCommandBus::default,
\* run_command_listener) start with well-typed state.
LEMMA InitTypeOK == Init => TypeOK
  BY ConstantsAssumption
  DEF Init, TypeOK, BusTypeOK, TaskTypeOK, ReceiverTypeOK, ListenerTypeOK,
      NotPublishing, PublishSteps, TaskSteps, QueueLength, CommandIds

-----------------------------------------------------------------------------
(* Each part of TypeOK is preserved by every step.                         *)

\* Whatever a handler does inside publish, and whatever restarts, the deque
\* keeps its type and never exceeds COMMAND_QUEUE_CAPACITY.
LEMMA BusTypeStep ==
    ASSUME BusTypeOK, NumbersUnique, [Next]_vars
    PROVE  BusTypeOK'
<1> USE ConstantsAssumption DEF QueueLength, PublishSteps
<1>1. CASE UNCHANGED <<busVars, publishing>>
  BY <1>1 DEF BusTypeOK, busVars
<1>2. ASSUME NEW p \in Publishers, TakeSequence(p) PROVE BusTypeOK'
  BY <1>2 DEF BusTypeOK, TakeSequence
<1>3. ASSUME NEW p \in Publishers, PushCommand(p) PROVE BusTypeOK'
  <2>1. publishing[p].sequence \in 1..MaxSequence
    BY <1>3 DEF BusTypeOK, NumbersUnique, PushCommand
  <2>2. /\ log' \in Seq(1..MaxSequence)
        /\ Len(log') = Len(log) + 1
        /\ Len(log) \in Nat
    BY <1>3, <2>1, AppendProperties, LenProperties DEF BusTypeOK, PushCommand
  <2>3. front' \in Nat \ {0} /\ QueueLength' <= QueueCapacity
    <3>1. front' = IF QueueLength = QueueCapacity THEN front + 1 ELSE front
      BY <1>3 DEF PushCommand
    <3> QED
      BY <2>2, <3>1 DEF BusTypeOK
  <2>4. publishing' \in [Publishers -> [step : PublishSteps, sequence : 0..MaxSequence]]
    BY <1>3 DEF BusTypeOK, PushCommand
  <2> QED
    BY <1>3, <2>2, <2>3, <2>4 DEF BusTypeOK, PushCommand
<1>4. ASSUME NEW p \in Publishers, NotifyWaiters(p) PROVE BusTypeOK'
  BY <1>4 DEF BusTypeOK, NotifyWaiters, NotPublishing, busVars
<1>5. CASE AdminRestart
  BY <1>5 DEF BusTypeOK, AdminRestart, NotPublishing
<1> QED
  BY <1>1, <1>2, <1>3, <1>4, <1>5
  DEF Next, vars, Publish, StreamStep, Connect, Subscribe, Scan, Wake, Send, SendFails,
      Receive, LinkBreak, PublicRestart

\* A pushed command only makes the log longer.
LEMMA LogGrows ==
    ASSUME BusTypeOK, NumbersUnique, NEW p \in Publishers, PushCommand(p)
    PROVE  /\ Len(log') = Len(log) + 1
           /\ Len(log) \in Nat
           /\ log'[Len(log) + 1] = publishing[p].sequence
           /\ \A n \in 1..Len(log) : log'[n] = log[n]
           /\ publishing[p].sequence \in 1..MaxSequence
<1> USE ConstantsAssumption
<1>1. publishing[p].sequence \in 1..MaxSequence
  BY DEF BusTypeOK, NumbersUnique, PushCommand
<1> QED
  BY <1>1, AppendProperties, LenProperties DEF BusTypeOK, PushCommand

\* Every pushed command carries a number that publish handed out.
LEMMA LoggedNumber ==
    ASSUME BusTypeOK, NEW n \in 1..Len(log)
    PROVE  log[n] \in 1..MaxSequence
  BY ElementOfSeq DEF BusTypeOK

\* The position a task sends next is one of its batch.
LEMMA SendTakesFromBatch ==
    ASSUME BusTypeOK, TaskTypeOK, TasksWellFormed, NEW t \in StreamTasks, Send(t)
    PROVE  /\ NextInBatch(t) \in batch[t]
           /\ \A m \in batch[t] : NextInBatch(t) <= m
           /\ NextInBatch(t) \in 1..Len(log)
           /\ log[NextInBatch(t)] \in 1..MaxSequence
           /\ Len(log) \in Nat
<1>1. batch[t] \subseteq 1..Len(log) /\ batch[t] # {}
  BY DEF TaskTypeOK, TasksWellFormed, Send
<1>2. Len(log) \in Nat
  BY LenProperties DEF BusTypeOK
<1>3. batch[t] \subseteq Nat
  BY <1>1, <1>2
<1>4. /\ NextInBatch(t) \in batch[t]
      /\ \A m \in batch[t] : NextInBatch(t) <= m
  BY <1>1, <1>3, NextInBatchIsLeast
<1>5. NextInBatch(t) \in 1..Len(log)
  BY <1>1, <1>4
<1>6. log[NextInBatch(t)] \in 1..MaxSequence
  BY <1>5, LoggedNumber
<1> QED
  BY <1>2, <1>4, <1>5, <1>6

\* What arrives is a position of the log.
LEMMA ReceiveTakesHead ==
    ASSUME BusTypeOK, ReceiverTypeOK, NEW t \in StreamTasks, Receive(t)
    PROVE  /\ channel[t] \in Seq(1..Len(log))
           /\ channel[t] # <<>>
           /\ Head(channel[t]) \in 1..Len(log)
           /\ log[Head(channel[t])] \in 1..MaxSequence
           /\ CommandId(Head(channel[t])) \in CommandIds
           /\ Len(log) \in Nat
<1>1. channel[t] \in Seq(1..Len(log)) /\ channel[t] # <<>>
  BY DEF ReceiverTypeOK, Receive
<1>2. Head(channel[t]) \in 1..Len(log)
  BY <1>1, HeadTailProperties
<1>3. log[Head(channel[t])] \in 1..MaxSequence
  BY <1>2, LoggedNumber
<1> QED
  BY <1>1, <1>2, <1>3, LenProperties DEF BusTypeOK, CommandId, CommandIds

\* Every step keeps the stream tasks well typed: what commands_after returns
\* are commands of the log.
LEMMA TaskTypeStep ==
    ASSUME BusTypeOK, TaskTypeOK, NumbersUnique, TasksWellFormed,
           ListenerTypeOK, [Next]_vars
    PROVE  TaskTypeOK'
<1> USE ConstantsAssumption DEF TaskSteps
<1>1. CASE UNCHANGED <<log, pc, position, batch, woken, activeSubscribers>>
  BY <1>1 DEF TaskTypeOK
<1>2. ASSUME NEW p \in Publishers, PushCommand(p) PROVE TaskTypeOK'
  <2>1. 1..Len(log) \subseteq 1..Len(log')
    BY <1>2, LogGrows
  <2> QED
    BY <1>2, <2>1 DEF TaskTypeOK, PushCommand, taskVars
<1>3. ASSUME NEW p \in Publishers, NotifyWaiters(p) PROVE TaskTypeOK'
  <2>1. woken' \in [StreamTasks -> BOOLEAN]
    BY <1>3, Zenon DEF NotifyWaiters
  <2> QED
    BY <1>3, <2>1 DEF TaskTypeOK, NotifyWaiters, busVars
<1>4. ASSUME NEW t \in StreamTasks, Connect(t) PROVE TaskTypeOK'
  BY <1>4 DEF TaskTypeOK, ListenerTypeOK, Connect, StartPosition, busVars
<1>5. ASSUME NEW t \in StreamTasks, Subscribe(t) \/ Wake(t) PROVE TaskTypeOK'
  BY <1>5 DEF TaskTypeOK, Subscribe, Wake, busVars
<1>6. ASSUME NEW t \in StreamTasks, Scan(t) PROVE TaskTypeOK'
  <2>1. CommandsAfter(position[t]) \subseteq 1..Len(log)
    BY LenProperties DEF BusTypeOK, CommandsAfter
  <2> QED
    BY <1>6, <2>1 DEF TaskTypeOK, Scan, busVars
<1>7. ASSUME NEW t \in StreamTasks, Send(t) PROVE TaskTypeOK'
  <2>1. log[NextInBatch(t)] \in 1..MaxSequence
    BY <1>7, SendTakesFromBatch
  <2> QED
    BY <1>7, <2>1 DEF TaskTypeOK, Send, busVars
<1>8. ASSUME NEW t \in StreamTasks, SendFails(t) PROVE TaskTypeOK'
  BY <1>8 DEF TaskTypeOK, SendFails, busVars
<1>9. CASE AdminRestart
  BY <1>9 DEF TaskTypeOK, AdminRestart
<1> QED
  BY <1>1, <1>2, <1>3, <1>4, <1>5, <1>6, <1>7, <1>8, <1>9
  DEF Next, vars, Publish, StreamStep, TakeSequence, Receive, LinkBreak, PublicRestart,
      busVars, taskVars

\* Dropping the receiver keeps the receivers well typed.
LEMMA DropReceiverTyped ==
    ASSUME ReceiverTypeOK, DropReceiver, UNCHANGED log
    PROVE  ReceiverTypeOK'
<1> USE ConstantsAssumption
<1>1. open' \in [StreamTasks -> BOOLEAN]
  BY Zenon DEF DropReceiver
<1>2. ASSUME NEW u \in StreamTasks
      PROVE  channel'[u] \in Seq(1..Len(log)) /\ Len(channel'[u]) <= ChannelCapacity
  <2>1. CASE u = connection
    <3>1. channel'[u] = <<>>
      BY <2>1 DEF DropReceiver
    <3> QED
      BY <3>1, EmptySeq
  <2>2. CASE u # connection
    <3>1. channel'[u] = channel[u]
      BY <2>2 DEF DropReceiver
    <3> QED
      BY <3>1 DEF ReceiverTypeOK
  <2> QED
    BY <2>1, <2>2
<1>3. channel' \in [StreamTasks -> Seq(1..Len(log))]
  BY <1>2 DEF DropReceiver
<1> QED
  BY <1>1, <1>2, <1>3 DEF ReceiverTypeOK, DropReceiver

\* Every step keeps the channels within the capacity that
\* watch_runtime_commands gives them.
LEMMA ReceiverTypeStep ==
    ASSUME BusTypeOK, TaskTypeOK, ReceiverTypeOK, NumbersUnique, TasksWellFormed,
           [Next]_vars
    PROVE  ReceiverTypeOK'
<1> USE ConstantsAssumption
<1>1. CASE UNCHANGED <<log, open, channel, connection>>
  BY <1>1 DEF ReceiverTypeOK
<1>2. ASSUME NEW p \in Publishers, PushCommand(p) PROVE ReceiverTypeOK'
  <2>1. 1..Len(log) \subseteq 1..Len(log')
    BY <1>2, LogGrows
  <2>2. Seq(1..Len(log)) \subseteq Seq(1..Len(log'))
    BY <2>1, SeqMonotonic
  <2> QED
    BY <1>2, <2>2 DEF ReceiverTypeOK, PushCommand, taskVars, listenerVars
<1>3. ASSUME NEW t \in StreamTasks, Connect(t) PROVE ReceiverTypeOK'
  BY <1>3 DEF ReceiverTypeOK, Connect, busVars
<1>4. ASSUME NEW t \in StreamTasks, Send(t) PROVE ReceiverTypeOK'
  <2> DEFINE n == NextInBatch(t)
  <2>1. n \in 1..Len(log)
    BY <1>4, SendTakesFromBatch
  <2>2. channel' = [channel EXCEPT ![t] = Append(channel[t], n)]
    BY <1>4 DEF Send
  <2> HIDE DEF n
  <2>3. /\ Append(channel[t], n) \in Seq(1..Len(log))
        /\ Len(Append(channel[t], n)) <= ChannelCapacity
    <3>1. channel[t] \in Seq(1..Len(log)) /\ Len(channel[t]) < ChannelCapacity
      BY <1>4 DEF ReceiverTypeOK, Send
    <3> QED
      BY <2>1, <3>1, AppendProperties, LenProperties
  <2> QED
    BY <1>4, <2>2, <2>3 DEF ReceiverTypeOK, Send, busVars, listenerVars
<1>5. ASSUME NEW t \in StreamTasks, Receive(t) PROVE ReceiverTypeOK'
  <2>1. /\ Tail(channel[t]) \in Seq(1..Len(log))
        /\ Len(Tail(channel[t])) <= ChannelCapacity
    <3>1. /\ channel[t] \in Seq(1..Len(log)) /\ channel[t] # <<>>
          /\ Len(channel[t]) <= ChannelCapacity
      BY <1>5 DEF ReceiverTypeOK, Receive
    <3>2. /\ Tail(channel[t]) \in Seq(1..Len(log))
          /\ Len(Tail(channel[t])) = Len(channel[t]) - 1
      BY <3>1, HeadTailProperties
    <3>3. Len(channel[t]) \in Nat
      BY <3>1, LenProperties
    <3> QED
      BY <3>1, <3>2, <3>3
  <2> QED
    BY <1>5, <2>1 DEF ReceiverTypeOK, Receive, busVars
<1>6. CASE LinkBreak \/ PublicRestart
  BY <1>6, DropReceiverTyped DEF LinkBreak, PublicRestart, busVars
<1>7. CASE AdminRestart
  BY <1>7, EmptySeq DEF ReceiverTypeOK, AdminRestart
<1> QED
  BY <1>1, <1>2, <1>3, <1>4, <1>5, <1>6, <1>7
  DEF Next, vars, Publish, StreamStep, TakeSequence, NotifyWaiters, Subscribe, Scan, Wake,
      SendFails, busVars, taskVars, listenerVars

\* Every step keeps the listener well typed: ProcessedCommands::insert never
\* holds more than PROCESSED_COMMAND_CAPACITY ids.
LEMMA ListenerTypeStep ==
    ASSUME BusTypeOK, ReceiverTypeOK, ListenerTypeOK, [Next]_vars
    PROVE  ListenerTypeOK'
<1> USE ConstantsAssumption
<1>1. CASE UNCHANGED <<afterSequence, processed, applied, carried, disruptions>>
  BY <1>1 DEF ListenerTypeOK
<1>2. ASSUME NEW t \in StreamTasks, Receive(t) PROVE ListenerTypeOK'
  <2> DEFINE n == Head(channel[t])
             id == CommandId(n)
  <2>1. log[n] \in 1..MaxSequence /\ id \in CommandIds
    BY <1>2, ReceiveTakesHead
  <2>2. afterSequence' \in 0..MaxSequence
    <3>1. afterSequence' \in {log[n], afterSequence}
      BY <1>2 DEF Receive
    <3> QED
      BY <2>1, <3>1 DEF ListenerTypeOK
  <2>3. \/ UNCHANGED <<processed, applied>>
        \/ processed' = Remember(id) /\ applied' = Append(applied, id)
    BY <1>2 DEF Receive
  <2> HIDE DEF id
  <2>4. Remember(id) \in Seq(CommandIds) /\ Len(Remember(id)) <= ProcessedCapacity
    <3> DEFINE longer == Append(processed, id)
    <3>1. /\ longer \in Seq(CommandIds) /\ longer # <<>>
          /\ Len(longer) = Len(processed) + 1
          /\ Len(processed) \in Nat
      BY <2>1, AppendProperties, LenProperties DEF ListenerTypeOK
    <3>2. Remember(id) = IF Len(longer) > ProcessedCapacity THEN Tail(longer) ELSE longer
      BY DEF Remember
    <3> HIDE DEF longer
    <3>3. Tail(longer) \in Seq(CommandIds) /\ Len(Tail(longer)) = Len(longer) - 1
      BY <3>1, HeadTailProperties
    <3> QED
      BY <3>1, <3>2, <3>3 DEF ListenerTypeOK
  <2>5. Append(applied, id) \in Seq(CommandIds)
    BY <2>1, AppendProperties DEF ListenerTypeOK
  <2> QED
    BY <1>2, <2>2, <2>3, <2>4, <2>5 DEF ListenerTypeOK, Receive
<1>3. CASE LinkBreak
  BY <1>3 DEF ListenerTypeOK, LinkBreak
<1>4. CASE PublicRestart
  BY <1>4, EmptySeq DEF ListenerTypeOK, PublicRestart
<1>5. CASE AdminRestart
  BY <1>5 DEF ListenerTypeOK, AdminRestart
<1> QED
  BY <1>1, <1>2, <1>3, <1>4, <1>5
  DEF Next, vars, Publish, StreamStep, TakeSequence, PushCommand, NotifyWaiters, Connect,
      Subscribe, Scan, Wake, Send, SendFails, listenerVars

-----------------------------------------------------------------------------
(* Numbers, tasks and processed ids.                                       *)

\* fetch_add hands out each number once, so no two commands share one.
LEMMA NumbersUniqueStep ==
    ASSUME BusTypeOK, NumbersUnique, [Next]_vars
    PROVE  NumbersUnique'
<1> USE ConstantsAssumption
<1>1. CASE UNCHANGED <<nextSequence, log, publishing>>
  BY <1>1 DEF NumbersUnique
<1>2. ASSUME NEW p \in Publishers, TakeSequence(p) PROVE NumbersUnique'
  <2>1. \A n \in 1..Len(log) : log[n] < nextSequence'
    BY <1>2, LoggedNumber DEF NumbersUnique, TakeSequence, BusTypeOK
  <2>2. ASSUME NEW q \in Publishers, publishing'[q].step = "push"
        PROVE  /\ publishing'[q].sequence \in 1..(nextSequence' - 1)
               /\ \A n \in 1..Len(log) : log[n] # publishing'[q].sequence
               /\ q # p => publishing'[q] = publishing[q]
                           /\ publishing[q].sequence < nextSequence
               /\ q = p => publishing'[q].sequence = nextSequence
    BY <1>2, <2>2, LoggedNumber DEF NumbersUnique, TakeSequence, BusTypeOK
  <2>3. log' = log
    BY <1>2 DEF TakeSequence
  <2>4. ASSUME NEW q \in Publishers, NEW r \in Publishers,
               publishing'[q].step = "push", publishing'[r].step = "push",
               publishing'[r].sequence = publishing'[q].sequence
        PROVE  q = r
    <3>1. CASE q = p \/ r = p
      BY <2>2, <2>4, <3>1 DEF BusTypeOK
    <3>2. CASE q # p /\ r # p
      BY <2>2, <2>4, <3>2 DEF NumbersUnique
    <3> QED
      BY <3>1, <3>2
  <2> QED
    BY <2>1, <2>2, <2>3, <2>4 DEF NumbersUnique
<1>3. ASSUME NEW p \in Publishers, PushCommand(p) PROVE NumbersUnique'
  <2>1. /\ Len(log') = Len(log) + 1
        /\ Len(log) \in Nat
        /\ log'[Len(log) + 1] = publishing[p].sequence
        /\ \A n \in 1..Len(log) : log'[n] = log[n]
    BY <1>3, LogGrows
  <2>2. nextSequence' = nextSequence /\ publishing[p].step = "push"
    BY <1>3 DEF PushCommand
  <2>3. ASSUME NEW n \in 1..Len(log') PROVE log'[n] < nextSequence'
    <3>1. CASE n \in 1..Len(log)
      BY <2>1, <2>2, <3>1 DEF NumbersUnique
    <3>2. CASE n = Len(log) + 1
      BY <2>1, <2>2, <3>2 DEF NumbersUnique, BusTypeOK
    <3> QED
      BY <2>1, <3>1, <3>2
  <2>4. \A m, n \in 1..Len(log') : log'[m] = log'[n] => m = n
    BY <2>1, <2>2 DEF NumbersUnique
  <2>5. ASSUME NEW q \in Publishers, publishing'[q].step = "push"
        PROVE  q # p /\ publishing'[q] = publishing[q]
    BY <1>3, <2>5 DEF PushCommand, BusTypeOK
  <2> QED
    BY <2>1, <2>2, <2>3, <2>4, <2>5 DEF NumbersUnique
<1>4. ASSUME NEW p \in Publishers, NotifyWaiters(p) PROVE NumbersUnique'
  <2>1. ASSUME NEW q \in Publishers, publishing'[q].step = "push"
        PROVE  publishing'[q] = publishing[q]
    BY <1>4, <2>1 DEF NotifyWaiters, NotPublishing, BusTypeOK
  <2>2. log' = log /\ nextSequence' = nextSequence
    BY <1>4 DEF NotifyWaiters, busVars
  <2> QED
    BY <2>1, <2>2 DEF NumbersUnique
<1>5. CASE AdminRestart
  BY <1>5, EmptySeq DEF NumbersUnique, AdminRestart, NotPublishing
<1> QED
  BY <1>1, <1>2, <1>3, <1>4, <1>5
  DEF Next, vars, Publish, StreamStep, Connect, Subscribe, Scan, Wake, Send, SendFails,
      Receive, LinkBreak, PublicRestart, busVars

\* Every step keeps the one open receiver the one of the current connection,
\* and a task holds a batch just while it sends.
LEMMA TasksWellFormedStep ==
    ASSUME BusTypeOK, TaskTypeOK, ReceiverTypeOK, TasksWellFormed, [Next]_vars
    PROVE  TasksWellFormed'
<1> USE ConstantsAssumption
<1>1. CASE UNCHANGED <<pc, batch, open, connection, channel>>
  BY <1>1 DEF TasksWellFormed
<1>2. ASSUME NEW t \in StreamTasks, Connect(t) PROVE TasksWellFormed'
  BY <1>2 DEF TasksWellFormed, TaskTypeOK, ReceiverTypeOK, Connect
<1>3. ASSUME NEW t \in StreamTasks, Subscribe(t) \/ Wake(t) PROVE TasksWellFormed'
  <2>1. CASE Subscribe(t)
    BY <2>1 DEF TasksWellFormed, TaskTypeOK, Subscribe, listenerVars
  <2>2. CASE Wake(t)
    BY <2>2 DEF TasksWellFormed, TaskTypeOK, Wake, listenerVars
  <2> QED
    BY <1>3, <2>1, <2>2
<1>4. ASSUME NEW t \in StreamTasks, Scan(t) PROVE TasksWellFormed'
  BY <1>4 DEF TasksWellFormed, TaskTypeOK, Scan, listenerVars
<1>5. ASSUME NEW t \in StreamTasks, Send(t) PROVE TasksWellFormed'
  <2>1. /\ batch' = [batch EXCEPT ![t] = batch[t] \ {NextInBatch(t)}]
        /\ pc' = [pc EXCEPT ![t] = IF batch'[t] = {} THEN "subscribe" ELSE "send"]
        /\ UNCHANGED <<open, connection>>
        /\ open[t]
        /\ \A u \in StreamTasks \ {t} : channel'[u] = channel[u]
    BY <1>5 DEF Send, listenerVars, ReceiverTypeOK
  <2> QED
    BY <2>1 DEF TasksWellFormed, TaskTypeOK
<1>6. ASSUME NEW t \in StreamTasks, SendFails(t) PROVE TasksWellFormed'
  BY <1>6 DEF TasksWellFormed, TaskTypeOK, SendFails, listenerVars
<1>7. ASSUME NEW t \in StreamTasks, Receive(t) PROVE TasksWellFormed'
  <2>1. /\ UNCHANGED <<pc, batch, open, connection>>
        /\ connection = t
        /\ \A u \in StreamTasks \ {t} : channel'[u] = channel[u]
    BY <1>7 DEF Receive, ReceiverTypeOK
  <2> QED
    BY <2>1 DEF TasksWellFormed
<1>8. CASE LinkBreak \/ PublicRestart
  <2>1. UNCHANGED <<pc, batch>> /\ DropReceiver
    BY <1>8 DEF LinkBreak, PublicRestart
  <2>2. \A u \in StreamTasks : ~ open'[u] /\ channel'[u] = <<>>
    BY <2>1 DEF DropReceiver, TasksWellFormed
  <2>3. connection' = NoTask
    BY <2>1 DEF DropReceiver
  <2> QED
    BY <2>1, <2>2, <2>3 DEF TasksWellFormed
<1>9. CASE AdminRestart
  BY <1>9 DEF TasksWellFormed, AdminRestart
<1> QED
  BY <1>1, <1>2, <1>3, <1>4, <1>5, <1>6, <1>7, <1>8, <1>9
  DEF Next, vars, Publish, StreamStep, TakeSequence, PushCommand, NotifyWaiters,
      taskVars, listenerVars

\* An id the listener remembers is one it has applied: `insert` follows the
\* command's execution.
LEMMA ProcessedStep ==
    ASSUME BusTypeOK, ReceiverTypeOK, ListenerTypeOK, ProcessedWereApplied, [Next]_vars
    PROVE  ProcessedWereApplied'
<1>1. CASE UNCHANGED <<processed, applied>>
  BY <1>1 DEF ProcessedWereApplied
<1>2. ASSUME NEW t \in StreamTasks, Receive(t) PROVE ProcessedWereApplied'
  <2> DEFINE id == CommandId(Head(channel[t]))
  <2>1. id \in CommandIds
    BY <1>2, ReceiveTakesHead
  <2>2. CASE UNCHANGED <<processed, applied>>
    BY <2>2 DEF ProcessedWereApplied
  <2>3. CASE processed' = Remember(id) /\ applied' = Append(applied, id)
    <3> HIDE DEF id
    <3>1. Range(applied') = Range(applied) \cup {id}
      BY <2>1, <2>3, RangeOfAppend DEF ListenerTypeOK
    <3>2. Range(Append(processed, id)) = Range(processed) \cup {id}
      BY <2>1, RangeOfAppend DEF ListenerTypeOK
    <3>3. /\ Append(processed, id) \in Seq(CommandIds)
          /\ Append(processed, id) # <<>>
      BY <2>1, AppendProperties DEF ListenerTypeOK
    <3>4. Range(Tail(Append(processed, id))) \subseteq Range(Append(processed, id))
      BY <3>3, RangeOfTail
    <3>5. Range(processed') \subseteq Range(Append(processed, id))
      BY <2>3, <3>4 DEF Remember
    <3> QED
      BY <3>1, <3>2, <3>5 DEF ProcessedWereApplied
  <2> QED
    BY <1>2, <2>2, <2>3 DEF Receive
<1>3. CASE PublicRestart
  BY <1>3 DEF PublicRestart, ProcessedWereApplied, Range
<1> QED
  BY <1>1, <1>2, <1>3
  DEF Next, vars, Publish, StreamStep, TakeSequence, PushCommand, NotifyWaiters, Connect,
      Subscribe, Scan, Wake, Send, SendFails, LinkBreak, AdminRestart, listenerVars

-----------------------------------------------------------------------------
(* The cursors: what lies below them is settled or on its way.             *)

BusInv == BusTypeOK /\ TaskTypeOK /\ ReceiverTypeOK /\ ListenerTypeOK
            /\ NumbersUnique /\ TasksWellFormed /\ ProcessedWereApplied
CursorInv == ListenerCursor /\ StreamCursor /\ BatchOrder /\ ChannelOrder

\* A settled command stays settled while the log, the deque's front and the
\* applied ids only grow.
LEMMA SettledKept ==
    ASSUME NEW n \in 1..Len(log), IsSettled(n),
           UNCHANGED <<incarnation, carried>>,
           Range(applied) \subseteq Range(applied'),
           front \in Int, front' \in Int, front' >= front,
           Len(log) \in Nat, Len(log') \in Nat, Len(log') >= Len(log),
           \A m \in 1..Len(log) : log'[m] = log[m]
    PROVE  IsSettled(n)'
<1>1. n \in 1..Len(log') /\ log'[n] = log[n]
  OBVIOUS
<1>2. CASE IsApplied(n)
  BY <1>1, <1>2 DEF IsSettled, IsApplied, CommandId
<1>3. CASE IsEvicted(n)
  BY <1>1, <1>3 DEF IsSettled, IsEvicted
<1>4. CASE IsOvertaken(n)
  <2>1. PICK m \in 1..(n - 1) : log[m] > log[n]
    BY <1>4 DEF IsOvertaken
  <2>2. log'[m] = log[m]
    BY <1>1, <2>1
  <2> QED
    BY <1>1, <2>1, <2>2 DEF IsSettled, IsOvertaken
<1>5. CASE IsCarriedOver(n)
  BY <1>1, <1>5 DEF IsSettled, IsCarriedOver
<1> QED
  BY <1>2, <1>3, <1>4, <1>5 DEF IsSettled

\* Steps that leave the bus and the history alone settle what was settled.
LEMMA SettledUnchanged ==
    ASSUME BusTypeOK, UNCHANGED <<incarnation, log, front, applied, carried>>,
           NEW n \in 1..Len(log), IsSettled(n)
    PROVE  IsSettled(n)'
  BY LenProperties, SettledKept DEF BusTypeOK

\* A command pushed below a cursor was overtaken, or carried over.
LEMMA PushedBelowCursor ==
    ASSUME BusInv, NEW p \in Publishers, PushCommand(p),
           NEW cursor \in 0..MaxSequence, IsReached(cursor),
           NEW n \in Nat, n = Len(log) + 1, log'[n] <= cursor
    PROVE  IsSettled(n)'
<1>1. /\ Len(log') = n
      /\ Len(log) \in Nat
      /\ log'[n] = publishing[p].sequence
      /\ \A m \in 1..Len(log) : log'[m] = log[m]
      /\ publishing[p].sequence \in 1..MaxSequence
  BY LogGrows DEF BusInv
<1>2. carried' = carried
  BY DEF PushCommand
<1>3. CASE cursor <= carried
  <2>1. log'[n] <= carried'
    <3>1. log'[n] \in Int /\ cursor \in Int /\ carried \in Int
      BY <1>1, ConstantsAssumption DEF BusInv, ListenerTypeOK
    <3> QED
      BY <1>2, <1>3, <3>1
  <2> QED
    BY <1>1, <2>1 DEF IsSettled, IsCarriedOver
<1>4. CASE \E m \in 1..Len(log) : cursor <= log[m]
  <2>1. PICK m \in 1..Len(log) : cursor <= log[m]
    BY <1>4
  <2>2. log[m] \in 1..MaxSequence
    BY LoggedNumber DEF BusInv
  <2>3. log[m] # publishing[p].sequence
    BY DEF BusInv, NumbersUnique, PushCommand
  <2>4. log'[m] > log'[n]
    BY <1>1, <2>1, <2>2, <2>3, ConstantsAssumption
  <2>5. m \in 1..(n - 1)
    BY <1>1
  <2> QED
    BY <1>1, <2>4, <2>5 DEF IsSettled, IsOvertaken
<1> QED
  BY <1>3, <1>4 DEF IsReached

\* Pushing a command (publish 93-102) keeps the four facts about cursors: a
\* smaller number that comes late is overtaken, an evicted one is settled.
LEMMA PushKeepsCursors ==
    ASSUME BusInv, CursorInv, NEW p \in Publishers, PushCommand(p)
    PROVE  CursorInv'
<1> DEFINE L == Len(log)
<1>1. /\ Len(log') = L + 1
      /\ L \in Nat
      /\ \A m \in 1..L : log'[m] = log[m]
  BY LogGrows DEF BusInv
<1>2. /\ UNCHANGED <<incarnation, applied, carried, afterSequence>>
      /\ UNCHANGED <<position, batch, open, channel>>
  BY DEF PushCommand, taskVars, listenerVars
<1>3. front \in Int /\ front' \in Int /\ front' >= front
  BY DEF BusInv, BusTypeOK, PushCommand
<1>4. ASSUME NEW n \in 1..L, IsSettled(n) PROVE IsSettled(n)'
  BY <1>1, <1>2, <1>3, <1>4, SettledKept
<1>5. ASSUME NEW cursor, IsReached(cursor) PROVE IsReached(cursor)'
  BY <1>1, <1>2, <1>5 DEF IsReached
<1>6. ASSUME NEW cursor \in 0..MaxSequence, IsReached(cursor),
             NEW n \in Nat, n = L + 1, log'[n] <= cursor
      PROVE  IsSettled(n)'
  BY <1>6, PushedBelowCursor
<1>7. ListenerCursor'
  <2>1. afterSequence \in 0..MaxSequence
    BY DEF BusInv, ListenerTypeOK
  <2>2. ASSUME NEW n \in 1..Len(log'), log'[n] <= afterSequence
        PROVE  IsSettled(n)'
    <3>1. CASE n \in 1..L
      BY <1>1, <1>4, <2>2, <3>1 DEF CursorInv, ListenerCursor
    <3>2. CASE n = L + 1
      BY <1>6, <2>1, <2>2, <3>2 DEF CursorInv, ListenerCursor
    <3> QED
      BY <1>1, <3>1, <3>2
  <2> QED
    BY <1>2, <1>5, <2>2 DEF CursorInv, ListenerCursor
<1>8. StreamCursor'
  <2>1. ASSUME NEW t \in StreamTasks, open[t]
        PROVE  /\ IsReached(position[t])'
               /\ \A n \in 1..Len(log') : log'[n] <= position[t] =>
                     IsSettled(n)' \/ InFlight(t, n)
    <3>1. position[t] \in 0..MaxSequence /\ IsReached(position[t])
      BY <2>1 DEF BusInv, TaskTypeOK, CursorInv, StreamCursor
    <3>2. ASSUME NEW n \in 1..Len(log'), log'[n] <= position[t]
          PROVE  IsSettled(n)' \/ InFlight(t, n)
      <4>1. CASE n \in 1..L
        BY <1>1, <1>4, <2>1, <3>2, <4>1 DEF CursorInv, StreamCursor
      <4>2. CASE n = L + 1
        BY <1>6, <3>1, <3>2, <4>2
      <4> QED
        BY <1>1, <4>1, <4>2
    <3>3. IsReached(position[t])'
      BY <1>1, <1>2, <3>1 DEF IsReached
    <3> QED
      BY <3>2, <3>3
  <2> QED
    BY <1>2, <2>1 DEF StreamCursor, InFlight
<1>9. BatchOrder'
  <2>1. ASSUME NEW t \in StreamTasks, open[t], NEW k \in batch[t], NEW n \in 1..(k - 1),
               log'[n] <= log'[k]
        PROVE  IsSettled(n)' \/ InFlight(t, n)
    <3>1. k \in 1..L /\ n \in 1..L
      BY <1>1 DEF BusInv, TaskTypeOK
    <3> QED
      BY <1>1, <1>4, <2>1, <3>1 DEF CursorInv, BatchOrder
  <2> QED
    BY <1>2, <2>1 DEF BatchOrder, InFlight
<1>10. ChannelOrder'
  <2>1. ASSUME NEW t \in StreamTasks, NEW i \in 1..Len(channel[t]),
               NEW n \in 1..(channel[t][i] - 1), log'[n] <= log'[channel[t][i]]
        PROVE  IsSettled(n)' \/ \E j \in 1..(i - 1) : channel[t][j] = n
    <3>1. channel[t][i] \in 1..L
      BY ElementOfSeq DEF BusInv, ReceiverTypeOK
    <3>2. n \in 1..L
      BY <1>1, <3>1
    <3> QED
      BY <1>1, <1>4, <2>1, <3>1, <3>2 DEF CursorInv, ChannelOrder
  <2> QED
    BY <1>2, <2>1 DEF ChannelOrder
<1> QED
  BY <1>7, <1>8, <1>9, <1>10 DEF CursorInv

\* Steps that touch no cursor, batch, channel, log or history.
LEMMA OtherStepsKeepCursors ==
    ASSUME BusInv, CursorInv,
           UNCHANGED <<incarnation, log, front, applied, carried, afterSequence>>,
           UNCHANGED <<open, channel>>,
           \A t \in StreamTasks : open[t] =>
               position'[t] = position[t] /\ batch'[t] = batch[t]
    PROVE  CursorInv'
<1>1. \A n \in 1..Len(log) : IsSettled(n) => IsSettled(n)'
  BY SettledUnchanged DEF BusInv
<1>2. ListenerCursor'
  BY <1>1 DEF CursorInv, ListenerCursor, IsReached
<1>3. StreamCursor'
  BY <1>1 DEF CursorInv, StreamCursor, IsReached, InFlight
<1>4. BatchOrder'
  <2>1. ASSUME NEW t \in StreamTasks, open[t], NEW k \in batch[t], NEW n \in 1..(k - 1),
               log[n] <= log[k]
        PROVE  IsSettled(n)' \/ InFlight(t, n)
    <3>1. n \in 1..Len(log)
      BY LenProperties DEF BusInv, BusTypeOK, TaskTypeOK
    <3> QED
      BY <1>1, <2>1, <3>1 DEF CursorInv, BatchOrder
  <2> QED
    BY <2>1 DEF BatchOrder, InFlight
<1>5. ChannelOrder'
  <2>1. ASSUME NEW t \in StreamTasks, NEW i \in 1..Len(channel[t]),
               NEW n \in 1..(channel[t][i] - 1), log[n] <= log[channel[t][i]]
        PROVE  IsSettled(n)' \/ \E j \in 1..(i - 1) : channel[t][j] = n
    <3>1. channel[t][i] \in 1..Len(log)
      BY ElementOfSeq DEF BusInv, ReceiverTypeOK
    <3>2. n \in 1..Len(log)
      BY <3>1, LenProperties DEF BusInv, BusTypeOK
    <3> QED
      BY <1>1, <2>1, <3>2 DEF CursorInv, ChannelOrder
  <2> QED
    BY <2>1 DEF ChannelOrder
<1> QED
  BY <1>2, <1>3, <1>4, <1>5 DEF CursorInv

\* A new stream starts at the listener's cursor or at zero, with nothing in it.
LEMMA ConnectKeepsCursors ==
    ASSUME BusInv, CursorInv, NEW t \in StreamTasks, Connect(t)
    PROVE  CursorInv'
<1>0. \A u \in StreamTasks : ~ open[u] /\ channel[u] = <<>>
  BY ConstantsAssumption DEF Connect, BusInv, TasksWellFormed
<1>1. /\ UNCHANGED <<incarnation, log, front, applied, carried, afterSequence, batch, channel>>
      /\ \A u \in StreamTasks : open'[u] <=> u = t
      /\ position'[t] = StartPosition(afterSequence)
      /\ batch[t] = {}
  BY <1>0 DEF BusInv, TasksWellFormed, TaskTypeOK, ReceiverTypeOK, Connect, busVars
<1>2. \A n \in 1..Len(log) : IsSettled(n) => IsSettled(n)'
  BY <1>1, SettledUnchanged DEF BusInv
<1>3. ListenerCursor'
  BY <1>1, <1>2 DEF CursorInv, ListenerCursor, IsReached
<1>4. StreamCursor'
  <2>1. StartPosition(afterSequence) \in {0, afterSequence}
    BY DEF StartPosition
  <2>2. IsReached(StartPosition(afterSequence))
    BY <2>1 DEF CursorInv, ListenerCursor, IsReached, BusInv, ListenerTypeOK
  <2>3. ASSUME NEW n \in 1..Len(log), log[n] <= StartPosition(afterSequence)
        PROVE  IsSettled(n)
    <3>1. log[n] \in 1..MaxSequence
      BY LoggedNumber DEF BusInv
    <3> QED
      BY <2>1, <2>3, <3>1, ConstantsAssumption DEF CursorInv, ListenerCursor
  <2> QED
    BY <1>1, <1>2, <2>2, <2>3 DEF StreamCursor, IsReached
<1>5. BatchOrder'
  BY <1>1 DEF BatchOrder
<1>6. ChannelOrder'
  BY <1>0, <1>1, EmptySeq DEF ChannelOrder
<1> QED
  BY <1>3, <1>4, <1>5, <1>6 DEF CursorInv

\* A scan copies what lies above the cursor; what lies below is settled or
\* still in the channel.
LEMMA ScanKeepsCursors ==
    ASSUME BusInv, CursorInv, NEW t \in StreamTasks, Scan(t)
    PROVE  CursorInv'
<1>1. /\ UNCHANGED <<incarnation, log, front, applied, carried, afterSequence>>
      /\ UNCHANGED <<position, open, channel>>
      /\ batch' = [batch EXCEPT ![t] = CommandsAfter(position[t])]
      /\ batch[t] = {}
      /\ Len(log) \in Nat
  BY LenProperties DEF BusInv, BusTypeOK, TasksWellFormed, TaskTypeOK, Scan, busVars, listenerVars
<1>2. \A n \in 1..Len(log) : IsSettled(n) => IsSettled(n)'
  BY <1>1, SettledUnchanged DEF BusInv
<1>3. \A u \in StreamTasks : batch'[u] = IF u = t THEN CommandsAfter(position[t]) ELSE batch[u]
  BY <1>1 DEF BusInv, TaskTypeOK
<1>4. ASSUME NEW u \in StreamTasks, NEW n, InFlight(u, n) PROVE InFlight(u, n)'
  BY <1>1, <1>3, <1>4 DEF InFlight
<1>5. ListenerCursor'
  BY <1>1, <1>2 DEF CursorInv, ListenerCursor, IsReached
<1>6. StreamCursor'
  BY <1>1, <1>2, <1>4 DEF CursorInv, StreamCursor, IsReached
<1>7. BatchOrder'
  <2>1. ASSUME NEW u \in StreamTasks, open[u], NEW k \in batch'[u], NEW n \in 1..(k - 1),
               log[n] <= log[k]
        PROVE  IsSettled(n)' \/ InFlight(u, n)'
    <3>1. k \in 1..Len(log)
      BY <1>1, <1>3 DEF BusInv, BusTypeOK, TaskTypeOK, CommandsAfter
    <3>2. n \in 1..Len(log)
      BY <1>1, <3>1
    <3>3. CASE u # t
      BY <1>2, <1>3, <1>4, <2>1, <3>2, <3>3 DEF CursorInv, BatchOrder
    <3>4. CASE u = t /\ n < front
      BY <1>2, <3>2, <3>4 DEF IsSettled, IsEvicted
    <3>5. CASE u = t /\ n >= front /\ log[n] > position[t]
      BY <1>1, <1>3, <3>2, <3>5 DEF InFlight, CommandsAfter, BusInv, BusTypeOK
    <3>6. CASE u = t /\ log[n] <= position[t]
      BY <1>2, <1>4, <2>1, <3>2, <3>6 DEF CursorInv, StreamCursor
    <3>7. log[n] \in Int /\ position[t] \in Int /\ front \in Int
      BY <3>2, LoggedNumber DEF BusInv, BusTypeOK, TaskTypeOK
    <3> QED
      BY <3>2, <3>3, <3>4, <3>5, <3>6, <3>7
  <2> QED
    BY <1>1, <2>1 DEF BatchOrder
<1>8. ChannelOrder'
  <2> SUFFICES ASSUME NEW u \in StreamTasks, NEW i \in 1..Len(channel'[u]),
                      NEW n \in 1..(channel'[u][i] - 1), log'[n] <= log'[channel'[u][i]]
               PROVE  IsSettled(n)' \/ \E j \in 1..(i - 1) : channel'[u][j] = n
    BY DEF ChannelOrder
  <2>1. log' = log /\ channel' = channel /\ Len(log) \in Nat
    BY <1>1
  <2>2. i \in 1..Len(channel[u]) /\ channel[u][i] \in 1..Len(log)
    BY <2>1, ElementOfSeq DEF BusInv, ReceiverTypeOK
  <2>3. n \in 1..Len(log) /\ n \in 1..(channel[u][i] - 1)
    BY <2>1, <2>2, BelowPosition
  <2>4. IsSettled(n) \/ \E j \in 1..(i - 1) : channel[u][j] = n
    BY <2>1, <2>2, <2>3 DEF CursorInv, ChannelOrder
  <2> QED
    BY <1>2, <2>1, <2>3, <2>4
<1> QED
  BY <1>5, <1>6, <1>7, <1>8 DEF CursorInv

\* A send moves one position from batch to channel, the smallest first.
LEMMA SendKeepsCursors ==
    ASSUME BusInv, CursorInv, NEW t \in StreamTasks, Send(t)
    PROVE  CursorInv'
<1> DEFINE k == NextInBatch(t)
<1>1. /\ k \in batch[t]
      /\ \A m \in batch[t] : k <= m
      /\ k \in 1..Len(log)
      /\ log[k] \in 1..MaxSequence
      /\ Len(log) \in Nat
  BY SendTakesFromBatch DEF BusInv
<1>2. /\ UNCHANGED <<incarnation, log, front, applied, carried, afterSequence, open>>
      /\ position' = [position EXCEPT ![t] = log[k]]
      /\ batch' = [batch EXCEPT ![t] = batch[t] \ {k}]
      /\ channel' = [channel EXCEPT ![t] = Append(channel[t], k)]
      /\ open[t]
  BY DEF Send, busVars, listenerVars
<1> HIDE DEF k
<1>3. \A n \in 1..Len(log) : IsSettled(n) => IsSettled(n)'
  BY <1>2, SettledUnchanged DEF BusInv
<1>4. /\ channel[t] \in Seq(1..Len(log))
      /\ Len(channel[t]) \in Nat
      /\ Len(channel'[t]) = Len(channel[t]) + 1
      /\ \A i \in 1..Len(channel[t]) : channel'[t][i] = channel[t][i]
      /\ channel'[t][Len(channel[t]) + 1] = k
      /\ Range(channel'[t]) = Range(channel[t]) \cup {k}
  BY <1>1, <1>2, AppendProperties, LenProperties, RangeOfAppend DEF BusInv, ReceiverTypeOK
<1>5. \A u \in StreamTasks \ {t} :
        position'[u] = position[u] /\ batch'[u] = batch[u] /\ channel'[u] = channel[u]
  BY <1>2 DEF BusInv, TaskTypeOK, ReceiverTypeOK
<1>6. position'[t] = log[k] /\ batch'[t] = batch[t] \ {k}
  BY <1>2 DEF BusInv, TaskTypeOK
<1>7. ASSUME NEW u \in StreamTasks, NEW n, InFlight(u, n) PROVE InFlight(u, n)'
  BY <1>4, <1>5, <1>6, <1>7 DEF InFlight
<1>8. ListenerCursor'
  BY <1>2, <1>3 DEF CursorInv, ListenerCursor, IsReached
<1>9. ASSUME NEW n \in 1..Len(log), log[n] <= log[k]
      PROVE  IsSettled(n) \/ InFlight(t, n)
  <2>1. CASE n = k
    BY <1>1, <2>1 DEF InFlight
  <2>2. CASE n < k
    <3>1. n \in 1..(k - 1)
      BY <1>1, <2>2
    <3> QED
      BY <1>1, <1>2, <1>9, <3>1 DEF CursorInv, BatchOrder
  <2>3. CASE n > k
    <3>1. log[n] # log[k] /\ log[n] \in 1..MaxSequence
      BY <1>1, <2>3, LoggedNumber DEF BusInv, NumbersUnique
    <3>2. log[k] > log[n]
      BY <1>1, <1>9, <3>1, ConstantsAssumption
    <3>3. k \in 1..(n - 1)
      BY <1>1, <2>3
    <3> QED
      BY <3>2, <3>3 DEF IsSettled, IsOvertaken
  <2> QED
    BY <1>1, <2>1, <2>2, <2>3
<1>10. StreamCursor'
  <2>1. ASSUME NEW u \in StreamTasks, open[u]
        PROVE  /\ IsReached(position[u])'
               /\ \A n \in 1..Len(log) : log[n] <= position'[u] =>
                     IsSettled(n)' \/ InFlight(u, n)'
    <3>1. CASE u = t
      <4>1. IsReached(position[u])'
        BY <1>1, <1>2, <1>6, <3>1, ConstantsAssumption DEF IsReached
      <4> QED
        BY <1>3, <1>6, <1>7, <1>9, <3>1, <4>1
    <3>2. CASE u # t
      <4>1. IsReached(position[u])'
        BY <1>2, <1>5, <2>1, <3>2 DEF CursorInv, StreamCursor, IsReached
      <4> QED
        BY <1>3, <1>5, <1>7, <2>1, <3>2, <4>1 DEF CursorInv, StreamCursor
    <3> QED
      BY <3>1, <3>2
  <2> QED
    BY <1>2, <2>1 DEF StreamCursor
<1>11. BatchOrder'
  <2>1. ASSUME NEW u \in StreamTasks, open[u], NEW m \in batch'[u], NEW n \in 1..(m - 1),
               log[n] <= log[m]
        PROVE  IsSettled(n)' \/ InFlight(u, n)'
    <3>1. m \in batch[u]
      BY <1>5, <1>6
    <3>2. n \in 1..Len(log)
      BY <1>1, <3>1 DEF BusInv, TaskTypeOK
    <3> QED
      BY <1>3, <1>7, <2>1, <3>1, <3>2 DEF CursorInv, BatchOrder
  <2> QED
    BY <1>2, <2>1 DEF BatchOrder
<1>12. ChannelOrder'
  <2>1. ASSUME NEW u \in StreamTasks, NEW i \in 1..Len(channel'[u]),
               NEW n \in 1..(channel'[u][i] - 1), log[n] <= log[channel'[u][i]]
        PROVE  IsSettled(n)' \/ \E j \in 1..(i - 1) : channel'[u][j] = n
    <3>1. CASE u # t \/ i <= Len(channel[u])
      <4>1. /\ i \in 1..Len(channel[u])
            /\ channel'[u][i] = channel[u][i]
            /\ \A j \in 1..(i - 1) : channel'[u][j] = channel[u][j]
        <5>1. CASE u # t
          BY <1>5, <5>1
        <5>2. CASE u = t /\ i <= Len(channel[t])
          BY <1>4, <5>2
        <5> QED
          BY <3>1, <5>1, <5>2
      <4>2. channel[u][i] \in 1..Len(log)
        BY <4>1, ElementOfSeq DEF BusInv, ReceiverTypeOK
      <4>3. n \in 1..Len(log)
        BY <1>1, <4>1, <4>2
      <4>4. n \in 1..(channel[u][i] - 1) /\ log[n] <= log[channel[u][i]]
        BY <2>1, <4>1
      <4>5. IsSettled(n) \/ \E j \in 1..(i - 1) : channel[u][j] = n
        BY <4>1, <4>4 DEF CursorInv, ChannelOrder
      <4>6. CASE IsSettled(n)
        BY <1>3, <4>3, <4>6
      <4>7. CASE \E j \in 1..(i - 1) : channel[u][j] = n
        BY <4>1, <4>7
      <4> QED
        BY <4>5, <4>6, <4>7
    <3>2. CASE u = t /\ i = Len(channel[t]) + 1
      <4>1. n \in 1..(k - 1) /\ log[n] <= log[k]
        BY <1>4, <2>1, <3>2
      <4>2. n \in 1..Len(log)
        BY <1>1, <4>1, BelowPosition
      <4>3. CASE n \in Range(channel[t])
        <5>1. PICK j \in 1..Len(channel[t]) : channel[t][j] = n
          BY <1>4, <4>3, LenProperties DEF Range
        <5>2. channel'[u][j] = n
          BY <1>4, <3>2, <5>1
        <5>3. j \in 1..(i - 1)
          BY <1>4, <3>2
        <5> QED
          BY <5>2, <5>3
      <4>4. CASE IsSettled(n)
        BY <1>3, <4>2, <4>4
      <4>5. n \notin batch[t]
        <5>1. ~(k <= n)
          BY <1>1, <4>1
        <5> QED
          BY <1>1, <5>1
      <4>6. IsSettled(n) \/ InFlight(t, n)
        BY <1>9, <4>1, <4>2
      <4> QED
        BY <4>3, <4>4, <4>5, <4>6 DEF InFlight
    <3>3. (u # t \/ i <= Len(channel[u])) \/ (u = t /\ i = Len(channel[t]) + 1)
      BY <1>4
    <3> QED
      BY <3>1, <3>2, <3>3
  <2> QED
    BY <1>2, <2>1 DEF ChannelOrder
<1> QED
  BY <1>8, <1>10, <1>11, <1>12 DEF CursorInv

\* What the listener takes from its channel is applied, now or before.
LEMMA ReceiveKeepsCursors ==
    ASSUME BusInv, CursorInv, NEW t \in StreamTasks, Receive(t)
    PROVE  CursorInv'
<1> SUFFICES ASSUME NEW k, k = Head(channel[t]) PROVE CursorInv'
  OBVIOUS
<1>1. /\ channel[t] \in Seq(1..Len(log))
      /\ channel[t] # <<>>
      /\ k \in 1..Len(log)
      /\ log[k] \in 1..MaxSequence
      /\ CommandId(k) \in CommandIds
      /\ Len(log) \in Nat
  BY ReceiveTakesHead DEF BusInv
<1>2. /\ UNCHANGED <<incarnation, log, front, carried, open, position, batch>>
      /\ channel' = [channel EXCEPT ![t] = Tail(channel[t])]
      /\ afterSequence' = IF log[k] > afterSequence THEN log[k] ELSE afterSequence
      /\ \/ IsProcessed(CommandId(k)) /\ applied' = applied
         \/ applied' = Append(applied, CommandId(k))
  BY DEF Receive, busVars
<1>3. /\ Len(channel[t]) \in Nat \ {0}
      /\ Len(channel'[t]) = Len(channel[t]) - 1
      /\ \A i \in 1..Len(channel'[t]) : channel'[t][i] = channel[t][i + 1]
      /\ channel[t][1] = k
      /\ Range(channel[t]) = Range(channel'[t]) \cup {k}
  BY <1>1, <1>2, HeadTailProperties, EmptySeq, RangeOfTail DEF BusInv, ReceiverTypeOK
<1>4. \A u \in StreamTasks \ {t} : channel'[u] = channel[u]
  BY <1>2 DEF BusInv, ReceiverTypeOK
<1>5. /\ Range(applied) \subseteq Range(applied')
      /\ CommandId(k) \in Range(applied')
  <2>1. CASE IsProcessed(CommandId(k)) /\ applied' = applied
    BY <2>1 DEF IsProcessed, BusInv, ProcessedWereApplied
  <2>2. CASE applied' = Append(applied, CommandId(k))
    BY <1>1, <2>2, RangeOfAppend DEF BusInv, ListenerTypeOK
  <2> QED
    BY <1>2, <2>1, <2>2
<1>6. ASSUME NEW n \in 1..Len(log), IsSettled(n) PROVE IsSettled(n)'
  BY <1>1, <1>2, <1>5, <1>6, SettledKept DEF BusInv, BusTypeOK
<1>7. IsSettled(k)'
  BY <1>1, <1>2, <1>5 DEF IsSettled, IsApplied, CommandId
<1>8. ASSUME NEW u \in StreamTasks, NEW n, InFlight(u, n)
      PROVE  InFlight(u, n)' \/ IsSettled(n)'
  BY <1>2, <1>3, <1>4, <1>7, <1>8 DEF InFlight
<1>9. ListenerCursor'
  <2>1. IsReached(afterSequence)'
    <3>1. CASE afterSequence' = log[k]
      <4>1. log'[k] = log[k] /\ log[k] <= log[k]
        BY <1>1, <1>2, OtherNumber
      <4> QED
        BY <1>1, <1>2, <3>1, <4>1 DEF IsReached
    <3>2. CASE afterSequence' = afterSequence
      BY <1>2, <3>2 DEF CursorInv, ListenerCursor, IsReached
    <3> QED
      BY <1>2, <3>1, <3>2
  <2>2. ASSUME NEW n \in 1..Len(log), log[n] <= afterSequence'
        PROVE  IsSettled(n)'
    <3>1. CASE log[n] <= afterSequence
      BY <1>6, <3>1 DEF CursorInv, ListenerCursor
    <3>2. CASE log[n] <= log[k]
      <4>1. CASE n = k
        BY <1>7, <4>1
      <4>2. CASE n < k
        <5>1. n \in 1..(channel[t][1] - 1) /\ 1 \in 1..Len(channel[t])
          BY <1>1, <1>3, <4>2
        <5>2. IsSettled(n)
          BY <1>3, <3>2, <5>1 DEF CursorInv, ChannelOrder
        <5> QED
          BY <1>6, <5>2
      <4>3. CASE n > k
        <5>1. log[n] # log[k] /\ log[n] \in 1..MaxSequence
          BY <1>1, <4>3, LoggedNumber DEF BusInv, NumbersUnique
        <5>2. log[k] > log[n]
          BY <1>1, <3>2, <5>1, OtherNumber
        <5>3. k \in 1..(n - 1)
          BY <1>1, <4>3, BelowAbove
        <5>4. IsSettled(n)
          BY <5>2, <5>3 DEF IsSettled, IsOvertaken
        <5> QED
          BY <1>6, <5>4
      <4> QED
        BY <1>1, <4>1, <4>2, <4>3
    <3> QED
      BY <1>2, <2>2, <3>1, <3>2
  <2> QED
    BY <1>2, <2>1, <2>2 DEF ListenerCursor
<1>10. StreamCursor'
  BY <1>2, <1>6, <1>8 DEF CursorInv, StreamCursor, IsReached
<1>11. BatchOrder'
  <2>1. ASSUME NEW u \in StreamTasks, open[u], NEW m \in batch[u], NEW n \in 1..(m - 1),
               log[n] <= log[m]
        PROVE  IsSettled(n)' \/ InFlight(u, n)'
    <3>1. n \in 1..Len(log)
      BY <1>1 DEF BusInv, TaskTypeOK
    <3> QED
      BY <1>6, <1>8, <2>1, <3>1 DEF CursorInv, BatchOrder
  <2> QED
    BY <1>2, <2>1 DEF BatchOrder
<1>12. ChannelOrder'
  <2>1. ASSUME NEW u \in StreamTasks, NEW i \in 1..Len(channel'[u]),
               NEW n \in 1..(channel'[u][i] - 1), log[n] <= log[channel'[u][i]]
        PROVE  IsSettled(n)' \/ \E j \in 1..(i - 1) : channel'[u][j] = n
    <3>1. CASE u # t
      <4>1. i \in 1..Len(channel[u]) /\ channel[u][i] \in 1..Len(log)
        BY <1>4, <3>1, ElementOfSeq DEF BusInv, ReceiverTypeOK
      <4>2. channel'[u] = channel[u]
        BY <1>4, <3>1
      <4>3. /\ n \in 1..Len(log)
            /\ n \in 1..(channel[u][i] - 1)
            /\ log[n] <= log[channel[u][i]]
        BY <1>1, <2>1, <4>1, <4>2, BelowPosition
      <4>4. IsSettled(n) \/ \E j \in 1..(i - 1) : channel[u][j] = n
        BY <4>1, <4>3 DEF CursorInv, ChannelOrder
      <4> QED
        BY <1>6, <4>2, <4>3, <4>4
    <3>2. CASE u = t
      <4>1. i + 1 \in 1..Len(channel[t]) /\ channel'[t][i] = channel[t][i + 1]
        BY <1>3, <3>2
      <4>2. channel[t][i + 1] \in 1..Len(log)
        BY <1>1, <4>1, ElementOfSeq
      <4>3. n \in 1..(channel[t][i + 1] - 1)
        BY <3>2, <4>1
      <4>4. CASE IsSettled(n)
        BY <1>1, <1>6, <4>2, <4>3, <4>4, BelowPosition
      <4>5. ASSUME NEW j \in 1..i, channel[t][j] = n
            PROVE  IsSettled(n)' \/ \E h \in 1..(i - 1) : channel'[t][h] = n
        <5>1. CASE j = 1
          BY <1>3, <1>7, <4>5, <5>1
        <5>2. CASE j # 1
          <6>1. j - 1 \in 1..(i - 1) /\ j - 1 \in 1..Len(channel'[t])
            BY <1>3, <3>2, <5>2
          <6>2. channel'[t][j - 1] = n
            BY <1>3, <4>5, <6>1
          <6> QED
            BY <6>1, <6>2
        <5> QED
          BY <5>1, <5>2
      <4>6. IsSettled(n) \/ \E j \in 1..((i + 1) - 1) : channel[t][j] = n
        BY <2>1, <3>2, <4>1, <4>3 DEF CursorInv, ChannelOrder
      <4>7. (i + 1) - 1 = i
        BY <4>1
      <4> QED
        BY <3>2, <4>4, <4>5, <4>6, <4>7
    <3> QED
      BY <3>1, <3>2
  <2>2. log' = log
    BY <1>2
  <2> QED
    BY <2>1, <2>2 DEF ChannelOrder
<1> QED
  BY <1>9, <1>10, <1>11, <1>12 DEF CursorInv

\* A dropped stream leaves no receiver; the listener keeps its cursor.
LEMMA LinkBreakKeepsCursors ==
    ASSUME BusInv, CursorInv, LinkBreak
    PROVE  CursorInv'
<1>1. /\ UNCHANGED <<incarnation, log, front, applied, carried, afterSequence>>
      /\ DropReceiver
  BY DEF LinkBreak, busVars
<1>2. \A u \in StreamTasks : ~ open'[u] /\ channel'[u] = <<>>
  BY <1>1 DEF DropReceiver, BusInv, TasksWellFormed
<1>3. \A n \in 1..Len(log) : IsSettled(n) => IsSettled(n)'
  BY <1>1, SettledUnchanged DEF BusInv
<1>4. ListenerCursor'
  BY <1>1, <1>3 DEF CursorInv, ListenerCursor, IsReached
<1>5. ChannelOrder'
  BY <1>2, EmptySeq DEF ChannelOrder
<1>6. StreamCursor' /\ BatchOrder'
  BY <1>2 DEF StreamCursor, BatchOrder
<1> QED
  BY <1>4, <1>5, <1>6 DEF CursorInv

\* A new public process starts at zero, below every number.
LEMMA PublicRestartKeepsCursors ==
    ASSUME BusInv, CursorInv, PublicRestart
    PROVE  CursorInv'
<1>1. /\ UNCHANGED <<incarnation, log, front>>
      /\ afterSequence' = 0
      /\ carried' = 0
      /\ DropReceiver
  BY DEF PublicRestart, busVars
<1>2. \A u \in StreamTasks : ~ open'[u] /\ channel'[u] = <<>>
  BY <1>1 DEF DropReceiver, BusInv, TasksWellFormed
<1>3. ASSUME NEW n \in 1..Len(log) PROVE ~ (log[n] <= 0)
  <2>1. log[n] \in 1..MaxSequence
    BY LoggedNumber DEF BusInv
  <2> QED
    BY <2>1, ConstantsAssumption
<1>4. ListenerCursor'
  BY <1>1, <1>3 DEF ListenerCursor, IsReached
<1>5. ChannelOrder'
  BY <1>2, EmptySeq DEF ChannelOrder
<1>6. StreamCursor' /\ BatchOrder'
  BY <1>2 DEF StreamCursor, BatchOrder
<1> QED
  BY <1>4, <1>5, <1>6 DEF CursorInv

\* A new admin process has an empty log; the listener's number is carried over.
LEMMA AdminRestartKeepsCursors ==
    ASSUME BusInv, CursorInv, AdminRestart
    PROVE  CursorInv'
<1>1. /\ Len(log') = 0
      /\ afterSequence' = afterSequence
      /\ carried' = afterSequence
      /\ afterSequence \in Nat
  BY EmptySeq, ConstantsAssumption DEF AdminRestart, BusInv, ListenerTypeOK
<1>2. \A u \in StreamTasks : ~ open'[u] /\ channel'[u] = <<>>
  BY DEF AdminRestart
<1>3. ListenerCursor'
  BY <1>1 DEF ListenerCursor, IsReached
<1>4. ChannelOrder'
  BY <1>2, EmptySeq DEF ChannelOrder
<1>5. StreamCursor' /\ BatchOrder'
  BY <1>2 DEF StreamCursor, BatchOrder
<1> QED
  BY <1>3, <1>4, <1>5 DEF CursorInv

\* A task whose receiver is gone ends; no cursor of the listener is its.
LEMMA SendFailsKeepsCursors ==
    ASSUME BusInv, CursorInv, NEW t \in StreamTasks, SendFails(t)
    PROVE  CursorInv'
<1>1. /\ UNCHANGED <<incarnation, log, front, applied, carried, afterSequence>>
      /\ UNCHANGED <<open, channel>>
      /\ ~ open[t]
      /\ position' = [position EXCEPT ![t] = 0]
      /\ batch' = [batch EXCEPT ![t] = {}]
  BY DEF SendFails, busVars, listenerVars
<1>2. ASSUME NEW u \in StreamTasks, open[u]
      PROVE  position'[u] = position[u] /\ batch'[u] = batch[u]
  BY <1>1, <1>2 DEF BusInv, TaskTypeOK
<1> QED
  BY <1>1, <1>2, OtherStepsKeepCursors

\* Every step of the link keeps the four facts about the listener's cursor,
\* the streams' cursors and the order of batches and channels.
LEMMA CursorStep ==
    ASSUME BusInv, CursorInv, [Next]_vars
    PROVE  CursorInv'
<1>1. ASSUME NEW p \in Publishers, TakeSequence(p) \/ NotifyWaiters(p) PROVE CursorInv'
  <2>1. /\ UNCHANGED <<incarnation, log, front, applied, carried, afterSequence>>
        /\ UNCHANGED <<open, channel, position, batch>>
    BY <1>1 DEF TakeSequence, NotifyWaiters, busVars, taskVars, listenerVars
  <2> QED
    BY <2>1, OtherStepsKeepCursors
<1>2. ASSUME NEW p \in Publishers, PushCommand(p) PROVE CursorInv'
  BY <1>2, PushKeepsCursors
<1>3. ASSUME NEW t \in StreamTasks, Subscribe(t) \/ Wake(t) PROVE CursorInv'
  <2>1. /\ UNCHANGED <<incarnation, log, front, applied, carried, afterSequence>>
        /\ UNCHANGED <<open, channel, position, batch>>
    BY <1>3 DEF Subscribe, Wake, busVars, listenerVars
  <2> QED
    BY <2>1, OtherStepsKeepCursors
<1>4. ASSUME NEW t \in StreamTasks, Connect(t) PROVE CursorInv'
  BY <1>4, ConnectKeepsCursors
<1>5. ASSUME NEW t \in StreamTasks, Scan(t) PROVE CursorInv'
  BY <1>5, ScanKeepsCursors
<1>6. ASSUME NEW t \in StreamTasks, Send(t) PROVE CursorInv'
  BY <1>6, SendKeepsCursors
<1>7. ASSUME NEW t \in StreamTasks, SendFails(t) PROVE CursorInv'
  BY <1>7, SendFailsKeepsCursors
<1>8. ASSUME NEW t \in StreamTasks, Receive(t) PROVE CursorInv'
  BY <1>8, ReceiveKeepsCursors
<1>9. CASE LinkBreak \/ PublicRestart \/ AdminRestart
  BY <1>9, LinkBreakKeepsCursors, PublicRestartKeepsCursors, AdminRestartKeepsCursors
<1>10. CASE UNCHANGED vars
  <2>1. /\ UNCHANGED <<incarnation, log, front, applied, carried, afterSequence>>
        /\ UNCHANGED <<open, channel, position, batch>>
    BY <1>10 DEF vars, busVars, taskVars, listenerVars
  <2> QED
    BY <2>1, OtherStepsKeepCursors
<1> QED
  BY <1>1, <1>2, <1>3, <1>4, <1>5, <1>6, <1>7, <1>8, <1>9, <1>10
  DEF Next, Publish, StreamStep

-----------------------------------------------------------------------------
(* The theorems.                                                           *)

\* The strengthened invariant holds when both services have just started.
LEMMA InitInvariant == Init => InductiveInvariant
<1> SUFFICES ASSUME Init PROVE InductiveInvariant
  OBVIOUS
<1>1. TypeOK
  BY InitTypeOK DEF TypeOK
<1>2. Len(log) = 0 /\ \A t \in StreamTasks : ~ open[t] /\ Len(channel[t]) = 0
  BY EmptySeq DEF Init
<1>3. NumbersUnique
  BY <1>2 DEF Init, NumbersUnique, NotPublishing
<1>4. TasksWellFormed
  BY ConstantsAssumption DEF Init, TasksWellFormed
<1>5. ProcessedWereApplied
  BY DEF Init, ProcessedWereApplied
<1>6. ListenerCursor
  BY <1>2 DEF Init, ListenerCursor, IsReached
<1>7. StreamCursor /\ BatchOrder /\ ChannelOrder
  BY <1>2 DEF StreamCursor, BatchOrder, ChannelOrder
<1> QED
  BY <1>1, <1>3, <1>4, <1>5, <1>6, <1>7 DEF InductiveInvariant

\* No handler, stream task, listener step, link break or restart breaks the
\* strengthened invariant: the induction step of all theorems below.
LEMMA InvariantStep == InductiveInvariant /\ [Next]_vars => InductiveInvariant'
<1> SUFFICES ASSUME InductiveInvariant, [Next]_vars PROVE InductiveInvariant'
  OBVIOUS
<1>1. BusInv /\ CursorInv
  BY DEF InductiveInvariant, TypeOK, BusInv, CursorInv
<1>2. TypeOK'
  BY <1>1, BusTypeStep, TaskTypeStep, ReceiverTypeStep, ListenerTypeStep DEF BusInv, TypeOK
<1>3. NumbersUnique' /\ TasksWellFormed' /\ ProcessedWereApplied'
  BY <1>1, NumbersUniqueStep, TasksWellFormedStep, ProcessedStep DEF BusInv
<1>4. CursorInv'
  BY <1>1, CursorStep
<1> QED
  BY <1>2, <1>3, <1>4 DEF InductiveInvariant, CursorInv

\* The strengthened invariant holds in every reachable state of the link
\* between the services (control.rs 85-191, 338-434).
THEOREM Invariance == Spec => []InductiveInvariant
  BY InitInvariant, InvariantStep, PTL DEF Spec

\* Every variable keeps its type and every buffer its capacity, for every
\* number of handlers and stream tasks and every capacity of the deque, the
\* channel and the remembered ids (control.rs 40-41, 96, 427, 506).
THEOREM TypeCorrect == Spec => []TypeOK
<1>1. InductiveInvariant => TypeOK
  BY DEF InductiveInvariant
<1> QED
  BY <1>1, Invariance, PTL

\* Below the listener's cursor everything is settled, and so is, when it
\* holds no stream, everything that the next stream would not offer.
LEMMA NothingLostState == InductiveInvariant => NoUnexplainedLoss
<1> SUFFICES ASSUME InductiveInvariant, NEW n \in 1..Len(log), ~ IsSettled(n)
             PROVE  IsOffered(n)
  BY DEF NoUnexplainedLoss
<1>1. BusInv /\ CursorInv
  BY DEF InductiveInvariant, TypeOK, BusInv, CursorInv
<1>2. log[n] \in 1..MaxSequence
  BY <1>1, LoggedNumber DEF BusInv
<1>3. CASE connection = NoTask
  <2>1. ~ (log[n] <= afterSequence)
    BY <1>1 DEF CursorInv, ListenerCursor
  <2>2. log[n] > StartPosition(afterSequence)
    BY <1>1, <1>2, <2>1, ConstantsAssumption DEF StartPosition, BusInv, ListenerTypeOK
  <2> QED
    BY <1>3, <2>2 DEF IsOffered
<1>4. CASE connection # NoTask
  <2>1. connection \in StreamTasks /\ open[connection]
    BY <1>1, <1>4 DEF BusInv, ReceiverTypeOK, TasksWellFormed
  <2>2. CASE log[n] <= position[connection]
    BY <1>1, <1>4, <2>1, <2>2 DEF CursorInv, StreamCursor, InFlight, IsOffered
  <2>3. CASE ~ (log[n] <= position[connection])
    <3>1. position[connection] \in 0..MaxSequence
      BY <1>1, <2>1 DEF BusInv, TaskTypeOK
    <3>2. log[n] > position[connection]
      BY <1>2, <2>3, <3>1, ConstantsAssumption
    <3> QED
      BY <1>4, <3>2 DEF IsOffered
  <2> QED
    BY <2>2, <2>3
<1> QED
  BY <1>3, <1>4

\* No command vanishes: one that was pushed and is neither applied, evicted,
\* overtaken nor carried over from an earlier admin process is still offered
\* to the public service, through every break, reconnection and restart
\* (control.rs 85-176, 360-409).
THEOREM NothingLost == Spec => []NoUnexplainedLoss
  BY Invariance, NothingLostState, PTL

-----------------------------------------------------------------------------
(* At most once.  What comes after another command, in the order in which  *)
(* commands are applied, then received from the channel, then sent from    *)
(* the batch, was read from a deque that held the other one or newer ones: *)
(* it stands less than a deque's length before it in the log.  So between  *)
(* two deliveries of a command there are fewer than twice a deque's length *)
(* of others, and its id is still remembered.                              *)

\* Ids are applied in the order of admin processes; those of the present one
\* are in its log.
Ranked ==
    /\ \A i \in 1..Len(applied) :
          /\ applied[i][1] <= incarnation
          /\ applied[i][1] = incarnation => \E n \in 1..Len(log) : applied[i] = CommandId(n)
    /\ \A i, j \in 1..Len(applied) : i < j => applied[i][1] <= applied[j][1]

\* The remembered ids are the last ones that were applied.
Remembered ==
    /\ Len(processed) = ProcessedCapacity \/ Len(processed) = Len(applied)
    /\ Len(processed) <= Len(applied)
    /\ \A k \in 1..Len(processed) : processed[k] = applied[Len(applied) - Len(processed) + k]

AppliedClose ==
    \A i, j \in 1..Len(applied), m, n \in 1..Len(log) :
        i < j /\ applied[i] = CommandId(m) /\ applied[j] = CommandId(n) => m < n + QueueCapacity

StreamClose(t) ==
    /\ \A m \in 1..Len(log) : IsApplied(m) =>
          /\ \A j \in 1..Len(channel[t]) : m < channel[t][j] + QueueCapacity
          /\ \A b \in batch[t] : m < b + QueueCapacity
    /\ \A i, j \in 1..Len(channel[t]) : i < j => channel[t][i] < channel[t][j] + QueueCapacity
    /\ \A i \in 1..Len(channel[t]), b \in batch[t] : channel[t][i] < b + QueueCapacity

OnceInv ==
    /\ Ranked /\ Remembered /\ AppliedClose
    /\ \A t \in StreamTasks : open[t] => StreamClose(t)
    /\ AppliedAtMostOnce

\* There are not many numbers near another one.
LEMMA FewNumbersNear ==
    ASSUME NEW S, IsFiniteSet(S), NEW n \in Int, NEW Q \in Nat \ {0}, NEW f \in [S -> Int],
           \A x \in S : f[x] # n /\ f[x] > n - Q /\ f[x] < n + Q,
           \A x, y \in S : f[x] = f[y] => x = y
    PROVE  Cardinality(S) <= 2 * Q - 2
<1> DEFINE N == (n - Q + 1)..(n + Q - 1)
<1>1. IsFiniteSet(N) /\ Cardinality(N) = 2 * Q - 1
  <2>1. n - Q + 1 \in Int /\ n + Q - 1 \in Int /\ ~(n - Q + 1 > n + Q - 1)
    OBVIOUS
  <2>2. (n + Q - 1) - (n - Q + 1) + 1 = 2 * Q - 1
    OBVIOUS
  <2> QED
    BY <2>1, <2>2, FS_Interval
<1>2. n \in N
  OBVIOUS
<1>3. f \in [S -> N \ {n}]
  OBVIOUS
<1> HIDE DEF N
<1>4. IsFiniteSet(N \ {n}) /\ Cardinality(N \ {n}) = 2 * Q - 2
  BY <1>1, <1>2, FS_RemoveElement
<1>5. ~(Cardinality(N \ {n}) < Cardinality(S))
  BY <1>3, <1>4, FS_PigeonHole
<1> QED
  BY <1>4, <1>5, FS_CardinalityType

\* A command of the log is one number of one admin process.
LEMMA OneCommandId ==
    ASSUME NumbersUnique, NEW m \in 1..Len(log), NEW n \in 1..Len(log),
           CommandId(m) = CommandId(n)
    PROVE  m = n
BY DEF NumbersUnique, CommandId

\* What the listener does not remember it has not applied.
LEMMA ForgottenAreNew ==
    ASSUME ProcessedCapacity >= 2 * QueueCapacity - 1, BusInv, NumbersUnique, OnceInv,
           NEW t \in StreamTasks, StreamClose(t), channel[t] # <<>>,
           NEW k \in 1..Len(log), k = channel[t][1], Len(channel[t]) \in Nat \ {0},
           IsApplied(k)
    PROVE  IsProcessed(CommandId(k))
<1> USE ConstantsAssumption
<1> DEFINE L == Len(applied)
<1>1. /\ L \in Nat /\ DOMAIN applied = 1..L
      /\ Len(processed) \in Nat /\ DOMAIN processed = 1..Len(processed)
      /\ Len(log) \in Nat /\ incarnation \in Nat
  BY LenProperties DEF BusInv, ListenerTypeOK, BusTypeOK
<1>2. PICK i \in 1..L : applied[i] = CommandId(k)
  BY <1>1 DEF IsApplied, Range
<1> DEFINE S == (i + 1)..L
           f == [j \in S |-> CHOOSE n \in 1..Len(log) : applied[j] = CommandId(n)]
<1>3. ASSUME NEW j \in S
      PROVE  j \in 1..L /\ i < j /\ f[j] \in 1..Len(log) /\ applied[j] = CommandId(f[j])
  <2>1. j \in 1..L /\ i < j
    BY <1>1, <1>2
  <2>2. applied[i][1] = incarnation
    BY <1>2 DEF CommandId
  <2>3. applied[j] \in CommandIds
    BY <1>1, <2>1, ElementOfSeq DEF BusInv, ListenerTypeOK
  <2>4. applied[j][1] \in Nat
    BY <2>3 DEF CommandIds
  <2>5. applied[j][1] = incarnation
    BY <1>1, <1>2, <2>1, <2>2, <2>4 DEF OnceInv, Ranked
  <2>6. \E n \in 1..Len(log) : applied[j] = CommandId(n)
    BY <2>1, <2>5 DEF OnceInv, Ranked
  <2> QED
    BY <2>1, <2>6
<1> HIDE DEF f
<1>4. ASSUME NEW j \in S
      PROVE  f[j] # k /\ f[j] > k - QueueCapacity /\ f[j] < k + QueueCapacity
  <2>1. f[j] # k
    <3>1. i \in DOMAIN applied /\ j \in DOMAIN applied /\ i # j
      BY <1>1, <1>2, <1>3
    <3> QED
      BY <1>2, <1>3, <3>1 DEF OnceInv, AppliedAtMostOnce
  <2>2. k < f[j] + QueueCapacity
    BY <1>2, <1>3 DEF OnceInv, AppliedClose
  <2>3. IsApplied(f[j])
    BY <1>1, <1>3 DEF IsApplied, Range
  <2>4. 1 \in 1..Len(channel[t])
    OBVIOUS
  <2>5. f[j] < k + QueueCapacity
    BY <1>3, <2>3, <2>4 DEF StreamClose
  <2> QED
    BY <1>1, <1>3, <2>1, <2>2, <2>5
<1>5. \A x, y \in S : f[x] = f[y] => x = y
  BY <1>1, <1>3 DEF OnceInv, AppliedAtMostOnce
<1>6. IsFiniteSet(S) /\ Cardinality(S) = L - i
  <2>1. /\ i \in Int /\ i <= L /\ i + 1 \in Int /\ L \in Int
        /\ IF i + 1 > L THEN L - i = 0 ELSE L - i = L - (i + 1) + 1
    BY <1>1, <1>2
  <2> HIDE DEF L
  <2>2. /\ IsFiniteSet(S)
        /\ Cardinality(S) = IF i + 1 > L THEN 0 ELSE L - (i + 1) + 1
    BY <2>1, FS_Interval
  <2> QED
    BY <2>1, <2>2
<1>7. f \in [S -> Int]
  BY <1>1, <1>3 DEF f
<1>8. L - i <= 2 * QueueCapacity - 2
  <2> HIDE DEF S
  <2>1. k \in Int /\ QueueCapacity \in Nat \ {0} /\ IsFiniteSet(S)
    BY <1>1, <1>6
  <2>2. Cardinality(S) <= 2 * QueueCapacity - 2
    BY <1>4, <1>5, <1>7, <2>1, FewNumbersNear
  <2> QED
    BY <1>6, <2>2
<1>9. /\ i - (L - Len(processed)) \in 1..Len(processed)
      /\ L - Len(processed) + (i - (L - Len(processed))) = i
  <2> DEFINE P == Len(processed)
  <2>1. (P = ProcessedCapacity \/ P = L) /\ P <= L
    BY DEF OnceInv, Remembered
  <2>2. P \in Nat /\ L \in Nat /\ i \in 1..L
    BY <1>1, <1>2
  <2> HIDE DEF L, P
  <2>3. i - (L - P) \in 1..P /\ L - P + (i - (L - P)) = i
    BY <1>8, <2>1, <2>2
  <2> QED
    BY <2>3 DEF P
<1>10. processed[i - (L - Len(processed))] = applied[i]
  BY <1>9 DEF OnceInv, Remembered
<1> QED
  BY <1>1, <1>2, <1>9, <1>10 DEF IsProcessed, Range

-----------------------------------------------------------------------------
(* The steps of the link.                                                  *)

\* What the streams do among themselves, or lose, changes nothing that was
\* applied.
LEMMA StreamsMove ==
    ASSUME OnceInv, UNCHANGED <<incarnation, log, applied, processed>>,
           \A t \in StreamTasks : open'[t] => StreamClose(t)'
    PROVE  OnceInv'
<1>1. \A n : CommandId(n)' = CommandId(n)
  BY DEF CommandId
<1>2. Ranked'
  BY <1>1 DEF OnceInv, Ranked
<1>3. Remembered'
  BY DEF OnceInv, Remembered
<1>4. AppliedClose'
  BY <1>1 DEF OnceInv, AppliedClose
<1>5. AppliedAtMostOnce'
  BY DEF OnceInv, AppliedAtMostOnce
<1> QED
  BY <1>2, <1>3, <1>4, <1>5 DEF OnceInv

LEMMA StreamStays ==
    ASSUME NEW t, UNCHANGED <<incarnation, log, applied>>,
           channel'[t] = channel[t], batch'[t] = batch[t], StreamClose(t)
    PROVE  StreamClose(t)'
BY DEF StreamClose, IsApplied, CommandId

\* A new command stands behind all others, and no id of it was applied.
LEMMA PushKeepsOnce ==
    ASSUME BusInv, NumbersUnique, OnceInv, NEW p \in Publishers, PushCommand(p)
    PROVE  OnceInv'
<1> USE ConstantsAssumption
<1>1. /\ UNCHANGED <<incarnation, applied, processed, open, channel, batch>>
      /\ Len(log') = Len(log) + 1 /\ Len(log) \in Nat
      /\ \A n \in 1..Len(log) : log'[n] = log[n]
      /\ log'[Len(log) + 1] = publishing[p].sequence
      /\ Len(applied) \in Nat /\ DOMAIN applied = 1..Len(applied)
  BY LogGrows, LenProperties
  DEF PushCommand, taskVars, listenerVars, BusInv, ListenerTypeOK
<1>2. ASSUME NEW i \in 1..Len(applied), NEW n \in 1..Len(log'), applied[i] = CommandId(n)'
      PROVE  n \in 1..Len(log) /\ applied[i] = CommandId(n)
  <2>1. CASE n \in 1..Len(log)
    BY <1>1, <1>2, <2>1 DEF CommandId
  <2>2. CASE n = Len(log) + 1
    <3>1. applied[i][1] = incarnation /\ applied[i][2] = publishing[p].sequence
      BY <1>1, <1>2, <2>2 DEF CommandId
    <3>2. PICK m \in 1..Len(log) : applied[i] = CommandId(m)
      BY <3>1 DEF OnceInv, Ranked
    <3>3. log[m] = publishing[p].sequence
      BY <3>1, <3>2 DEF CommandId
    <3> QED
      BY <3>2, <3>3 DEF NumbersUnique, PushCommand
  <2> QED
    BY <1>1, <2>1, <2>2
<1>3. \A n \in 1..Len(log) : n \in 1..Len(log') /\ CommandId(n)' = CommandId(n)
  BY <1>1 DEF CommandId
<1>4. Ranked'
  <2>1. \A i \in 1..Len(applied) : applied[i][1] = incarnation =>
           \E n \in 1..Len(log') : applied[i] = CommandId(n)'
    BY <1>3 DEF OnceInv, Ranked
  <2> QED
    BY <1>1, <2>1 DEF OnceInv, Ranked
<1>5. AppliedClose'
  BY <1>1, <1>2 DEF OnceInv, AppliedClose
<1>6. ASSUME NEW t \in StreamTasks, open[t]
      PROVE  StreamClose(t)'
  <2>1. ASSUME NEW n \in 1..Len(log'), IsApplied(n)'
        PROVE  n \in 1..Len(log) /\ IsApplied(n)
    BY <1>1, <1>2, <2>1 DEF IsApplied, Range
  <2>2. StreamClose(t)
    BY <1>6 DEF OnceInv
  <2> QED
    BY <1>1, <2>1, <2>2 DEF StreamClose
<1> QED
  BY <1>1, <1>4, <1>5, <1>6 DEF OnceInv, Remembered, AppliedAtMostOnce

\* A new stream has nothing on its way.
LEMMA ConnectKeepsOnce ==
    ASSUME BusInv, TasksWellFormed, OnceInv, NEW t \in StreamTasks, Connect(t)
    PROVE  OnceInv'
<1>1. /\ UNCHANGED <<incarnation, log, applied, processed, channel, batch>>
      /\ \A u \in StreamTasks \ {t} : open'[u] = open[u]
  BY DEF Connect, busVars, BusInv, ReceiverTypeOK
<1>2. batch[t] = {} /\ channel[t] = <<>>
  BY ConstantsAssumption DEF Connect, TasksWellFormed
<1>3. Len(channel'[t]) = 0 /\ batch'[t] = {}
  BY <1>1, <1>2, EmptySeq
<1>4. StreamClose(t)'
  BY <1>3 DEF StreamClose
<1> QED
  BY <1>1, <1>4, StreamStays, StreamsMove DEF OnceInv

\* What a scan finds was in the deque together with the end of the log.
LEMMA ScanKeepsOnce ==
    ASSUME BusInv, OnceInv, NEW t \in StreamTasks, Scan(t)
    PROVE  OnceInv'
<1> USE ConstantsAssumption
<1>1. /\ UNCHANGED <<incarnation, log, applied, processed, channel, open>>
      /\ \A u \in StreamTasks \ {t} : batch'[u] = batch[u]
      /\ batch'[t] = CommandsAfter(position[t])
  BY DEF Scan, busVars, listenerVars, BusInv, TaskTypeOK
<1>2. Len(log) \in Nat /\ front \in Nat /\ Len(log) - front + 1 <= QueueCapacity
  BY LenProperties DEF BusInv, BusTypeOK, QueueLength
<1>3. ASSUME NEW m \in 1..Len(log), NEW b \in batch'[t]
      PROVE  m < b + QueueCapacity
  BY <1>1, <1>2 DEF CommandsAfter
<1>4. ASSUME open[t] PROVE StreamClose(t)'
  <2>1. StreamClose(t)
    BY <1>4 DEF OnceInv
  <2>2. \A i \in 1..Len(channel[t]) : channel[t][i] \in 1..Len(log)
    BY ElementOfSeq DEF BusInv, ReceiverTypeOK
  <2>3. \A m \in 1..Len(log) : IsApplied(m)' <=> IsApplied(m)
    BY <1>1 DEF IsApplied, CommandId
  <2> QED
    BY <1>1, <1>3, <2>1, <2>2, <2>3 DEF StreamClose
<1> QED
  BY <1>1, <1>4, StreamStays, StreamsMove DEF OnceInv

\* A task sends the first command of its batch.
LEMMA SendKeepsOnce ==
    ASSUME BusInv, TasksWellFormed, OnceInv, NEW t \in StreamTasks, Send(t)
    PROVE  OnceInv'
<1> USE ConstantsAssumption
<1> DEFINE k == NextInBatch(t)
<1>1. /\ UNCHANGED <<incarnation, log, applied, processed, open>>
      /\ \A u \in StreamTasks \ {t} : batch'[u] = batch[u] /\ channel'[u] = channel[u]
      /\ batch'[t] = batch[t] \ {k} /\ channel'[t] = Append(channel[t], k)
  BY DEF Send, busVars, listenerVars, BusInv, TaskTypeOK, ReceiverTypeOK
<1>2. k \in batch[t] /\ k \in 1..Len(log) /\ Len(log) \in Nat /\ \A b \in batch[t] : k <= b
  BY SendTakesFromBatch DEF BusInv
<1>3. channel[t] \in Seq(1..Len(log)) /\ batch[t] \subseteq 1..Len(log)
  BY DEF BusInv, ReceiverTypeOK, TaskTypeOK
<1> HIDE DEF k
<1>4. /\ Len(channel[t]) \in Nat /\ Len(channel'[t]) = Len(channel[t]) + 1
      /\ \A i \in 1..Len(channel[t]) : channel'[t][i] = channel[t][i]
      /\ channel'[t][Len(channel[t]) + 1] = k
  BY <1>1, <1>2, <1>3, AppendProperties, LenProperties
<1>5. ASSUME open[t] PROVE StreamClose(t)'
  <2>1. StreamClose(t)
    BY <1>5 DEF OnceInv
  <2>2. ASSUME NEW m \in 1..Len(log), IsApplied(m)'
        PROVE  /\ \A j \in 1..Len(channel'[t]) : m < channel'[t][j] + QueueCapacity
               /\ \A b \in batch'[t] : m < b + QueueCapacity
    <3>1. IsApplied(m)
      BY <1>1, <2>2 DEF IsApplied, CommandId
    <3>2. m < k + QueueCapacity /\ \A b \in batch'[t] : m < b + QueueCapacity
      BY <1>1, <1>2, <2>1, <3>1 DEF StreamClose
    <3>3. ASSUME NEW j \in 1..Len(channel'[t]) PROVE m < channel'[t][j] + QueueCapacity
      <4>1. CASE j \in 1..Len(channel[t])
        BY <1>4, <2>1, <3>1, <4>1 DEF StreamClose
      <4>2. CASE j = Len(channel[t]) + 1
        BY <1>4, <3>2, <4>2
      <4> QED
        BY <1>4, <4>1, <4>2
    <3> QED
      BY <3>2, <3>3
  <2>3. ASSUME NEW i \in 1..Len(channel'[t]), NEW j \in 1..Len(channel'[t]), i < j
        PROVE  channel'[t][i] < channel'[t][j] + QueueCapacity
    <3>1. i \in 1..Len(channel[t])
      BY <1>4, <2>3
    <3>2. CASE j \in 1..Len(channel[t])
      BY <1>4, <2>1, <2>3, <3>1, <3>2 DEF StreamClose
    <3>3. CASE j = Len(channel[t]) + 1
      BY <1>2, <1>4, <2>1, <3>1, <3>3 DEF StreamClose
    <3> QED
      BY <1>4, <3>2, <3>3
  <2>4. ASSUME NEW i \in 1..Len(channel'[t]), NEW b \in batch'[t]
        PROVE  channel'[t][i] < b + QueueCapacity
    <3>1. b \in batch[t] /\ b \in 1..Len(log)
      BY <1>1, <1>3
    <3>2. CASE i \in 1..Len(channel[t])
      BY <1>4, <2>1, <3>1, <3>2 DEF StreamClose
    <3>3. CASE i = Len(channel[t]) + 1
      BY <1>2, <1>4, <3>1, <3>3
    <3> QED
      BY <1>4, <3>2, <3>3
  <2> QED
    BY <1>1, <2>2, <2>3, <2>4 DEF StreamClose
<1> QED
  BY <1>1, <1>5, StreamStays, StreamsMove DEF OnceInv

\* The listener takes the head of its channel: a new id is applied and
\* remembered, and all that is still on its way comes after it.
LEMMA ReceiveKeepsStreams ==
    ASSUME BusInv, NumbersUnique, ProcessedWereApplied, OnceInv,
           NEW t \in StreamTasks, open[t], Receive(t)
    PROVE  StreamClose(t)'
<1> USE ConstantsAssumption
<1> DEFINE k == Head(channel[t])
<1>1. /\ channel[t] \in Seq(1..Len(log)) /\ channel[t] # <<>>
      /\ k \in 1..Len(log) /\ CommandId(k) \in CommandIds
  BY ReceiveTakesHead DEF BusInv
<1>2. /\ UNCHANGED <<incarnation, log, batch>> /\ channel'[t] = Tail(channel[t])
      /\ applied' = applied \/ applied' = Append(applied, CommandId(k))
  BY DEF Receive, busVars, BusInv, ReceiverTypeOK
<1> HIDE DEF k
<1>3. /\ Len(channel[t]) \in Nat \ {0} /\ Len(channel'[t]) = Len(channel[t]) - 1
      /\ \A i \in 1..Len(channel'[t]) : channel'[t][i] = channel[t][i + 1]
      /\ channel[t][1] = k
  BY <1>1, <1>2, HeadTailProperties, EmptySeq DEF k
<1>4. StreamClose(t)
  BY DEF OnceInv
<1>5. ASSUME NEW m \in 1..Len(log), IsApplied(m)'
      PROVE  IsApplied(m) \/ m = k
  <2>1. Range(applied') \subseteq Range(applied) \cup {CommandId(k)}
    BY <1>1, <1>2, RangeOfAppend DEF BusInv, ListenerTypeOK
  <2>2. CommandId(m) \in Range(applied')
    BY <1>2, <1>5 DEF IsApplied, CommandId
  <2> QED
    BY <1>1, <2>1, <2>2, OneCommandId DEF IsApplied
<1>6. \A i \in 1..Len(channel'[t]) : i + 1 \in 1..Len(channel[t]) /\ 1 < i + 1
  BY <1>3
<1>7. 1 \in 1..Len(channel[t])
  BY <1>3
<1>8. ASSUME NEW m \in 1..Len(log), IsApplied(m)'
      PROVE  /\ \A j \in 1..Len(channel'[t]) : m < channel'[t][j] + QueueCapacity
             /\ \A b \in batch'[t] : m < b + QueueCapacity
  <2>1. CASE IsApplied(m)
    BY <1>2, <1>3, <1>4, <1>6, <2>1 DEF StreamClose
  <2>2. CASE m = k
    BY <1>2, <1>3, <1>4, <1>6, <1>7, <2>2 DEF StreamClose
  <2> QED
    BY <1>5, <1>8, <2>1, <2>2
<1>9. ASSUME NEW i \in 1..Len(channel'[t]), NEW j \in 1..Len(channel'[t]), i < j
      PROVE  channel'[t][i] < channel'[t][j] + QueueCapacity
  <2>1. /\ i + 1 \in 1..Len(channel[t]) /\ j + 1 \in 1..Len(channel[t]) /\ i + 1 < j + 1
        /\ channel'[t][i] = channel[t][i + 1] /\ channel'[t][j] = channel[t][j + 1]
    BY <1>3, <1>6, <1>9
  <2> QED
    BY <1>4, <2>1 DEF StreamClose
<1> QED
  BY <1>2, <1>3, <1>4, <1>6, <1>8, <1>9 DEF StreamClose

LEMMA ReceiveKeepsOnce ==
    ASSUME ProcessedCapacity >= 2 * QueueCapacity - 1, BusInv, NumbersUnique, TasksWellFormed,
           ProcessedWereApplied, OnceInv, NEW t \in StreamTasks, Receive(t)
    PROVE  OnceInv'
<1> USE ConstantsAssumption
<1> DEFINE k == Head(channel[t])
           id == CommandId(k)
           L  == Len(applied)
<1>1. /\ channel[t] \in Seq(1..Len(log)) /\ channel[t] # <<>>
      /\ k \in 1..Len(log) /\ id \in CommandIds
  BY ReceiveTakesHead DEF BusInv
<1>2. /\ UNCHANGED <<incarnation, log, batch, open>>
      /\ \A u \in StreamTasks \ {t} : channel'[u] = channel[u]
      /\ IF IsProcessed(id) THEN UNCHANGED <<processed, applied>>
                            ELSE processed' = Remember(id) /\ applied' = Append(applied, id)
  BY DEF Receive, busVars, BusInv, ReceiverTypeOK
<1>3. open[t] /\ \A u \in StreamTasks \ {t} : ~open[u]
  BY DEF Receive, TasksWellFormed
<1>4. StreamClose(t) /\ StreamClose(t)'
  BY <1>3, ReceiveKeepsStreams DEF OnceInv
<1>5. k = channel[t][1] /\ Len(channel[t]) \in Nat \ {0}
  BY <1>1, HeadTailProperties, EmptySeq
<1>6. \A u \in StreamTasks : open'[u] => StreamClose(u)'
  BY <1>2, <1>3, <1>4
<1>7. CASE IsProcessed(id)
  BY <1>2, <1>6, <1>7, StreamsMove
<1>8. CASE ~IsProcessed(id)
  <2>1. ~IsApplied(k)
    BY <1>1, <1>4, <1>5, <1>8, ForgottenAreNew
  <2>2. /\ incarnation' = incarnation /\ log' = log
        /\ processed' = Remember(id) /\ applied' = Append(applied, id)
    BY <1>2, <1>8
  <2>3. id[1] = incarnation /\ id = CommandId(k)
    BY DEF CommandId
  <2> HIDE DEF id, k
  <2>4. /\ L \in Nat /\ DOMAIN applied = 1..L /\ Len(applied') = L + 1
        /\ DOMAIN applied' = 1..(L + 1)
        /\ \A i \in 1..L : applied'[i] = applied[i]
        /\ applied'[L + 1] = id
    BY <1>1, <2>2, AppendProperties, LenProperties DEF BusInv, ListenerTypeOK
  <2>5. \A i \in 1..L : applied[i] # id
    BY <2>1, <2>3, <2>4 DEF IsApplied, Range
  <2>6. \A n \in 1..Len(log) : CommandId(n)' = CommandId(n)
    BY <2>2 DEF CommandId
  <2>7. Ranked'
    <3>1. ASSUME NEW i \in 1..(L + 1)
          PROVE  /\ applied'[i][1] <= incarnation
                 /\ applied'[i][1] = incarnation =>
                       \E n \in 1..Len(log) : applied'[i] = CommandId(n)
      <4>1. CASE i \in 1..L
        BY <2>4, <4>1 DEF OnceInv, Ranked
      <4>2. CASE i = L + 1
        BY <1>1, <2>3, <2>4, <4>2 DEF BusInv, BusTypeOK
      <4> QED
        BY <2>4, <4>1, <4>2
    <3>2. ASSUME NEW i \in 1..(L + 1), NEW j \in 1..(L + 1), i < j
          PROVE  applied'[i][1] <= applied'[j][1]
      <4>1. i \in 1..L
        BY <2>4, <3>2
      <4>2. CASE j \in 1..L
        BY <2>4, <3>2, <4>1, <4>2 DEF OnceInv, Ranked
      <4>3. CASE j = L + 1
        BY <2>3, <2>4, <4>1, <4>3 DEF OnceInv, Ranked
      <4> QED
        BY <2>4, <4>2, <4>3
    <3> QED
      BY <2>2, <2>4, <2>6, <3>1, <3>2 DEF Ranked
  <2>8. Remembered'
    <3> DEFINE longer == Append(processed, id)
               P == Len(processed)
    <3>1. /\ P \in Nat /\ longer \in Seq(CommandIds) /\ Len(longer) = P + 1 /\ longer # <<>>
          /\ \A i \in 1..P : longer[i] = processed[i]
          /\ longer[P + 1] = id
      BY <1>1, AppendProperties, LenProperties DEF BusInv, ListenerTypeOK
    <3>2. \A i \in 1..(P + 1) : longer[i] = applied'[L - P + i]
      <4>1. TAKE i \in 1..(P + 1)
      <4>2. CASE i \in 1..P
        BY <2>4, <3>1, <4>2 DEF OnceInv, Remembered
      <4>3. CASE i = P + 1
        BY <2>4, <3>1, <4>3
      <4> QED
        BY <3>1, <4>2, <4>3
    <3>3. CASE P + 1 > ProcessedCapacity
      <4>1. processed' = Tail(longer)
        BY <2>2, <3>1, <3>3 DEF Remember
      <4>2. /\ Len(processed') = P
            /\ \A i \in 1..P : processed'[i] = longer[i + 1]
        BY <3>1, <4>1, HeadTailProperties
      <4>3. P = ProcessedCapacity
        BY <3>1, <3>3 DEF BusInv, ListenerTypeOK
      <4>4. \A i \in 1..P : processed'[i] = applied'[L + 1 - P + i]
        <5> SUFFICES ASSUME NEW i \in 1..P
                     PROVE  processed'[i] = applied'[L + 1 - P + i]
          OBVIOUS
        <5>1. i + 1 \in 1..(P + 1) /\ L - P + (i + 1) = L + 1 - P + i
          BY <2>4, <3>1
        <5>2. longer[i + 1] = applied'[L - P + (i + 1)]
          BY <3>2, <5>1
        <5> QED
          BY <4>2, <5>1, <5>2
      <4> QED
        BY <2>4, <3>1, <4>2, <4>3, <4>4 DEF OnceInv, Remembered
    <3>4. CASE ~(P + 1 > ProcessedCapacity)
      <4>1. processed' = longer
        BY <2>2, <3>1, <3>4 DEF Remember
      <4>2. P = L
        BY <3>1, <3>4 DEF OnceInv, Remembered
      <4> QED
        BY <2>4, <3>1, <3>2, <4>1, <4>2 DEF Remembered
    <3> QED
      BY <3>3, <3>4
  <2>9. AppliedClose'
    <3>1. ASSUME NEW i \in 1..(L + 1), NEW j \in 1..(L + 1),
                 NEW m \in 1..Len(log), NEW n \in 1..Len(log), i < j,
                 applied'[i] = CommandId(m), applied'[j] = CommandId(n)
          PROVE  m < n + QueueCapacity
      <4>1. i \in 1..L
        BY <2>4, <3>1
      <4>2. CASE j \in 1..L
        BY <2>4, <3>1, <4>1, <4>2 DEF OnceInv, AppliedClose
      <4>3. CASE j = L + 1
        <5>1. n = k
          BY <1>1, <2>3, <2>4, <3>1, <4>3, OneCommandId
        <5>2. IsApplied(m)
          BY <2>4, <3>1, <4>1 DEF IsApplied, Range
        <5>3. 1 \in 1..Len(channel[t])
          BY <1>5
        <5> QED
          BY <1>4, <1>5, <5>1, <5>2, <5>3 DEF StreamClose
      <4> QED
        BY <2>4, <4>2, <4>3
    <3> QED
      BY <2>2, <2>4, <2>6, <3>1 DEF AppliedClose
  <2>10. AppliedAtMostOnce'
    <3>1. ASSUME NEW i \in 1..(L + 1), NEW j \in 1..(L + 1), applied'[i] = applied'[j]
          PROVE  i = j
      <4>1. CASE i \in 1..L /\ j \in 1..L
        BY <2>4, <3>1, <4>1 DEF OnceInv, AppliedAtMostOnce
      <4>2. CASE i = L + 1 \/ j = L + 1
        BY <2>4, <2>5, <3>1, <4>2
      <4> QED
        BY <2>4, <4>1, <4>2
    <3> QED
      BY <2>4, <3>1 DEF AppliedAtMostOnce
  <2> QED
    BY <1>6, <2>7, <2>8, <2>9, <2>10 DEF OnceInv
<1> QED
  BY <1>7, <1>8

\* Whatever drops the receivers leaves no stream; a restart of the public
\* process forgets what it applied, one of the admin service begins a new log.
LEMMA DropsKeepOnce ==
    ASSUME BusInv, TasksWellFormed, OnceInv, LinkBreak \/ PublicRestart \/ AdminRestart
    PROVE  OnceInv'
<1> USE ConstantsAssumption
<1>1. \A t \in StreamTasks : ~open'[t]
  BY DEF LinkBreak, PublicRestart, AdminRestart, DropReceiver, TasksWellFormed
<1>2. CASE LinkBreak
  BY <1>1, <1>2, StreamsMove DEF LinkBreak, busVars
<1>3. CASE PublicRestart
  <2>1. Len(applied') = 0 /\ Len(processed') = 0 /\ DOMAIN applied' = {}
    BY <1>3, EmptySeq DEF PublicRestart
  <2>2. Ranked' /\ AppliedClose'
    BY <2>1 DEF Ranked, AppliedClose
  <2>3. Remembered'
    BY <2>1 DEF Remembered
  <2>4. AppliedAtMostOnce'
    BY <2>1 DEF AppliedAtMostOnce
  <2> QED
    BY <1>1, <2>2, <2>3, <2>4 DEF OnceInv
<1>4. CASE AdminRestart
  <2>1. /\ incarnation' = incarnation + 1 /\ incarnation \in Nat
        /\ log' = <<>> /\ applied' = applied /\ processed' = processed
    BY <1>4 DEF AdminRestart, BusInv, BusTypeOK
  <2>2. Len(log') = 0
    BY <2>1, EmptySeq
  <2>3. \A i \in 1..Len(applied) : applied[i][1] \in Nat
    BY ElementOfSeq DEF BusInv, ListenerTypeOK, CommandIds
  <2>4. Ranked'
    BY <2>1, <2>3 DEF OnceInv, Ranked
  <2>5. AppliedClose'
    BY <2>2 DEF AppliedClose
  <2> QED
    BY <1>1, <2>1, <2>4, <2>5 DEF OnceInv, Remembered, AppliedAtMostOnce
<1> QED
  BY <1>2, <1>3, <1>4

LEMMA OnceStart == Init => OnceInv
<1> SUFFICES ASSUME Init PROVE OnceInv
  OBVIOUS
<1>1. /\ Len(applied) = 0 /\ Len(processed) = 0 /\ DOMAIN applied = {}
      /\ \A t \in StreamTasks : ~open[t]
  BY EmptySeq DEF Init
<1> QED
  BY <1>1, ConstantsAssumption
  DEF OnceInv, Ranked, Remembered, AppliedClose, AppliedAtMostOnce

LEMMA OnceStep ==
    ASSUME ProcessedCapacity >= 2 * QueueCapacity - 1, InductiveInvariant, OnceInv, [Next]_vars
    PROVE  OnceInv'
<1>1. BusInv /\ NumbersUnique /\ TasksWellFormed /\ ProcessedWereApplied
  BY DEF InductiveInvariant, TypeOK, BusInv
<1>2. CASE UNCHANGED <<incarnation, log, applied, processed, open, channel, batch>>
  BY <1>2, StreamStays, StreamsMove DEF OnceInv
<1>3. ASSUME NEW p \in Publishers, PushCommand(p) PROVE OnceInv'
  BY <1>1, <1>3, PushKeepsOnce
<1>4. ASSUME NEW t \in StreamTasks, Connect(t) \/ Scan(t) \/ Send(t) \/ Receive(t)
      PROVE  OnceInv'
  BY <1>1, <1>4, ConnectKeepsOnce, ScanKeepsOnce, SendKeepsOnce, ReceiveKeepsOnce
<1>5. ASSUME NEW t \in StreamTasks, SendFails(t) PROVE OnceInv'
  <2>1. /\ UNCHANGED <<incarnation, log, applied, processed, open, channel>>
        /\ ~open[t] /\ \A u \in StreamTasks \ {t} : batch'[u] = batch[u]
    BY <1>1, <1>5 DEF SendFails, busVars, listenerVars, BusInv, TaskTypeOK
  <2> QED
    BY <2>1, StreamStays, StreamsMove DEF OnceInv
<1>6. CASE LinkBreak \/ PublicRestart \/ AdminRestart
  BY <1>1, <1>6, DropsKeepOnce
<1> QED
  BY <1>2, <1>3, <1>4, <1>5, <1>6
  DEF Next, vars, Publish, StreamStep, TakeSequence, NotifyWaiters, Subscribe, Wake,
      busVars, taskVars, listenerVars

\* A public process applies no command twice, however often breaks, restarts
\* and a cursor that went down have it sent again, for any number of stream
\* tasks and restarts: if it remembers almost twice as many ids as the deque
\* holds commands (control.rs 40-41: 4096 and 2048), no id is forgotten while
\* its command can still come back.
THEOREM NothingTwice ==
    ASSUME ProcessedCapacity >= 2 * QueueCapacity - 1
    PROVE  Spec => []AppliedAtMostOnce
<1>1. InductiveInvariant /\ OnceInv /\ [Next]_vars => OnceInv'
  BY OnceStep
<1>2. OnceInv => AppliedAtMostOnce
  BY DEF OnceInv
<1> QED
  BY <1>1, <1>2, OnceStart, Invariance, PTL DEF Spec
=============================================================================
