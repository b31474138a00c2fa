----------------------------- MODULE CommandBus -----------------------------
(***************************************************************************)
(* The runtime-command link between the two services                       *)
(* (server/src/control.rs).  HTTP handlers of the admin service publish    *)
(* revocations and room closures on RuntimeCommandBus; one stream task per *)
(* WatchRuntimeCommands call copies them into a bounded channel; the       *)
(* command listener of the public service applies them to its RoomHub,     *)
(* remembers the highest sequence number it saw and the ids it processed,  *)
(* and reconnects whenever the stream ends.                                *)
(*                                                                         *)
(* The deque `commands` is the window front..Len(log) of the log of every  *)
(* command this admin process pushed; batches and channels hold positions  *)
(* of that log (a task holds clones, so a command that left the deque      *)
(* survives there).  A command id (a UUID) is <<incarnation, sequence>>.   *)
(* What was already in the client's receive buffer when a link breaks is   *)
(* received before the break: the listener is one sequential task, so the  *)
(* two orders differ in nothing else.                                      *)
(***************************************************************************)
EXTENDS Integers, Sequences, Functions

CONSTANTS
    Publishers,         \* concurrent HTTP handlers of the admin service
    StreamTasks,        \* slots for spawned stream tasks
    NoTask,
    QueueCapacity,      \* COMMAND_QUEUE_CAPACITY
    ChannelCapacity,    \* of the channel a stream task feeds
    ProcessedCapacity,  \* PROCESSED_COMMAND_CAPACITY
    MaxSequence,        \* bound: commands per admin process
    MaxIncarnations,    \* bound: admin processes
    MaxDisruptions      \* bound: link breaks and public restarts together

ASSUME ConstantsAssumption ==
    /\ NoTask \notin StreamTasks
    /\ QueueCapacity \in Nat \ {0}
    /\ ChannelCapacity \in Nat \ {0}
    /\ ProcessedCapacity \in Nat
    /\ MaxSequence \in Nat
    /\ MaxIncarnations \in Nat \ {0}
    /\ MaxDisruptions \in Nat

VARIABLES
    incarnation, nextSequence, log, front,          \* the bus
    publishing,                                     \* handlers inside publish
    pc, position, batch, woken, open, channel,      \* the stream tasks
    activeSubscribers,
    connection, afterSequence, processed,           \* the public listener
    applied,        \* history: ids this public process applied, in order
    carried,        \* history: afterSequence at the last admin restart
    disruptions

busVars      == <<incarnation, nextSequence, log, front>>
taskVars     == <<pc, position, batch, woken, open, channel, activeSubscribers>>
listenerVars == <<connection, afterSequence, processed, applied>>
vars == <<busVars, publishing, taskVars, listenerVars, carried, disruptions>>

NotPublishing == [step |-> "idle", sequence |-> 0]
PublishSteps  == {"idle", "push", "notify"}
TaskSteps     == {"free", "subscribe", "scan", "wait", "send"}

CommandIds  == (1..MaxIncarnations) \X (1..MaxSequence)
CommandId(n) == <<incarnation, log[n]>>

Init ==
    /\ incarnation = 1
    /\ nextSequence = 1
    /\ log = <<>>
    /\ front = 1
    /\ publishing = [p \in Publishers |-> NotPublishing]
    /\ pc = [t \in StreamTasks |-> "free"]
    /\ position = [t \in StreamTasks |-> 0]
    /\ batch = [t \in StreamTasks |-> {}]
    /\ woken = [t \in StreamTasks |-> FALSE]
    /\ open = [t \in StreamTasks |-> FALSE]
    /\ channel = [t \in StreamTasks |-> <<>>]
    /\ activeSubscribers = 0
    /\ connection = NoTask
    /\ afterSequence = 0
    /\ processed = <<>>
    /\ applied = <<>>
    /\ carried = 0
    /\ disruptions = 0

-----------------------------------------------------------------------------
(* publish: the number is taken before the deque is locked, and the        *)
(* waiters are woken after it is unlocked, so handlers interleave between. *)

TakeSequence(p) ==
    /\ publishing[p].step = "idle"
    /\ nextSequence <= MaxSequence
    /\ publishing' = [publishing EXCEPT ![p] =
                        [step |-> "push", sequence |-> nextSequence]]
    /\ nextSequence' = nextSequence + 1
    /\ UNCHANGED <<incarnation, log, front, taskVars, listenerVars, carried, disruptions>>

QueueLength == Len(log) - front + 1

PushCommand(p) ==
    /\ publishing[p].step = "push"
    /\ front' = IF QueueLength = QueueCapacity THEN front + 1 ELSE front
    /\ log' = Append(log, publishing[p].sequence)
    /\ publishing' = [publishing EXCEPT ![p].step = "notify"]
    /\ UNCHANGED <<incarnation, nextSequence, taskVars, listenerVars, carried, disruptions>>

\* Mutant: notify_one, which reaches one future only.
NotifyOne(p) ==
    /\ publishing[p].step = "notify"
    /\ publishing' = [publishing EXCEPT ![p] = NotPublishing]
    /\ LET waiting == {t \in StreamTasks : pc[t] \in {"scan", "wait"} /\ ~woken[t]}
       IN  IF waiting = {} THEN UNCHANGED woken
           ELSE \E t \in waiting : woken' = [woken EXCEPT ![t] = TRUE]
    /\ UNCHANGED <<busVars, pc, position, batch, open, channel, activeSubscribers,
                   listenerVars, carried, disruptions>>

\* notify_waiters reaches every Notified future that exists already, polled
\* or not: the tasks between `changed.notified()` and the end of the await.
NotifyWaiters(p) ==
    /\ publishing[p].step = "notify"
    /\ publishing' = [publishing EXCEPT ![p] = NotPublishing]
    /\ woken' = [t \in StreamTasks |-> woken[t] \/ pc[t] \in {"scan", "wait"}]
    /\ UNCHANGED <<busVars, pc, position, batch, open, channel, activeSubscribers,
                   listenerVars, carried, disruptions>>

-----------------------------------------------------------------------------
(* watch_runtime_commands and stream_after *)

\* Mutant: a new stream starts at the newest command.
StartAtLatest(after) == nextSequence - 1

StartPosition(after) == IF after > nextSequence - 1 THEN 0 ELSE after

Connect(t) ==
    /\ connection = NoTask
    /\ pc[t] = "free"
    /\ connection' = t
    /\ activeSubscribers' = activeSubscribers + 1
    /\ pc' = [pc EXCEPT ![t] = "subscribe"]
    /\ position' = [position EXCEPT ![t] = StartPosition(afterSequence)]
    /\ open' = [open EXCEPT ![t] = TRUE]
    /\ UNCHANGED <<busVars, publishing, batch, woken, channel,
                   afterSequence, processed, applied, carried, disruptions>>

Subscribe(t) ==
    /\ pc[t] = "subscribe"
    /\ pc' = [pc EXCEPT ![t] = "scan"]
    /\ woken' = [woken EXCEPT ![t] = FALSE]
    /\ UNCHANGED <<busVars, publishing, position, batch, open, channel,
                   activeSubscribers, listenerVars, carried, disruptions>>

CommandsAfter(sequence) == {n \in front..Len(log) : log[n] > sequence}

Scan(t) ==
    /\ pc[t] = "scan"
    /\ batch' = [batch EXCEPT ![t] = CommandsAfter(position[t])]
    /\ pc' = [pc EXCEPT ![t] =
                IF CommandsAfter(position[t]) = {} THEN "wait" ELSE "send"]
    /\ UNCHANGED <<busVars, publishing, position, woken, open, channel,
                   activeSubscribers, listenerVars, carried, disruptions>>

Wake(t) ==
    /\ pc[t] = "wait"
    /\ woken[t]
    /\ pc' = [pc EXCEPT ![t] = "subscribe"]
    /\ UNCHANGED <<busVars, publishing, position, batch, woken, open, channel,
                   activeSubscribers, listenerVars, carried, disruptions>>

NextInBatch(t) == CHOOSE n \in batch[t] : \A m \in batch[t] : n <= m

\* The task moves its cursor to the command it sends, and waits while the
\* channel is full.
Send(t) ==
    /\ pc[t] = "send"
    /\ open[t]
    /\ Len(channel[t]) < ChannelCapacity
    /\ position' = [position EXCEPT ![t] = log[NextInBatch(t)]]
    /\ channel' = [channel EXCEPT ![t] = Append(@, NextInBatch(t))]
    /\ batch' = [batch EXCEPT ![t] = @ \ {NextInBatch(t)}]
    /\ pc' = [pc EXCEPT ![t] = IF batch'[t] = {} THEN "subscribe" ELSE "send"]
    /\ UNCHANGED <<busVars, publishing, woken, open, activeSubscribers,
                   listenerVars, carried, disruptions>>

\* A send into a dropped receiver is the only way a stream task ends.
SendFails(t) ==
    /\ pc[t] = "send"
    /\ ~open[t]
    /\ pc' = [pc EXCEPT ![t] = "free"]
    /\ position' = [position EXCEPT ![t] = 0]
    /\ batch' = [batch EXCEPT ![t] = {}]
    /\ woken' = [woken EXCEPT ![t] = FALSE]
    /\ activeSubscribers' = activeSubscribers - 1
    /\ UNCHANGED <<busVars, publishing, open, channel, listenerVars, carried, disruptions>>

-----------------------------------------------------------------------------
(* run_command_listener and consume_command_stream *)

IsProcessed(id) == id \in Range(processed)

\* Mutant: only the last id is kept.
RememberLast(id) == <<id>>

\* ProcessedCommands::insert, which forgets the oldest id beyond capacity.
Remember(id) ==
    LET longer == Append(processed, id)
    IN  IF Len(longer) > ProcessedCapacity THEN Tail(longer) ELSE longer

Receive(t) ==
    /\ connection = t
    /\ channel[t] # <<>>
    /\ LET n == Head(channel[t])
       IN  /\ afterSequence' = IF log[n] > afterSequence THEN log[n] ELSE afterSequence
           /\ IF IsProcessed(CommandId(n))
              THEN UNCHANGED <<processed, applied>>
              ELSE /\ processed' = Remember(CommandId(n))
                   /\ applied' = Append(applied, CommandId(n))
    /\ channel' = [channel EXCEPT ![t] = Tail(@)]
    /\ UNCHANGED <<busVars, publishing, pc, position, batch, woken, open,
                   activeSubscribers, connection, carried, disruptions>>

\* The receiver of the current stream, if any, is dropped with its content.
DropReceiver ==
    /\ open' = [t \in StreamTasks |-> open[t] /\ t # connection]
    /\ channel' = [t \in StreamTasks |-> IF t = connection THEN <<>> ELSE channel[t]]
    /\ connection' = NoTask

LinkBreak ==
    /\ connection # NoTask
    /\ disruptions < MaxDisruptions
    /\ disruptions' = disruptions + 1
    /\ DropReceiver
    /\ UNCHANGED <<busVars, publishing, pc, position, batch, woken, activeSubscribers,
                   afterSequence, processed, applied, carried>>

\* The public process loses its cursor and its ids: both live in memory.
PublicRestart ==
    /\ disruptions < MaxDisruptions
    /\ disruptions' = disruptions + 1
    /\ DropReceiver
    /\ afterSequence' = 0
    /\ processed' = <<>>
    /\ applied' = <<>>
    /\ carried' = 0
    /\ UNCHANGED <<busVars, publishing, pc, position, batch, woken, activeSubscribers>>

\* The bus, its tasks and the handlers inside publish die with the admin process.
AdminRestart ==
    /\ incarnation < MaxIncarnations
    /\ incarnation' = incarnation + 1
    /\ nextSequence' = 1
    /\ log' = <<>>
    /\ front' = 1
    /\ publishing' = [p \in Publishers |-> NotPublishing]
    /\ pc' = [t \in StreamTasks |-> "free"]
    /\ position' = [t \in StreamTasks |-> 0]
    /\ batch' = [t \in StreamTasks |-> {}]
    /\ woken' = [t \in StreamTasks |-> FALSE]
    /\ open' = [t \in StreamTasks |-> FALSE]
    /\ channel' = [t \in StreamTasks |-> <<>>]
    /\ activeSubscribers' = 0
    /\ connection' = NoTask
    /\ carried' = afterSequence
    /\ UNCHANGED <<afterSequence, processed, applied, disruptions>>

Publish(p) == TakeSequence(p) \/ PushCommand(p) \/ NotifyWaiters(p)
StreamStep(t) == Subscribe(t) \/ Scan(t) \/ Wake(t) \/ Send(t) \/ SendFails(t)

Next ==
    \/ \E p \in Publishers : Publish(p)
    \/ \E t \in StreamTasks : Connect(t) \/ StreamStep(t) \/ Receive(t)
    \/ LinkBreak
    \/ PublicRestart
    \/ AdminRestart

Spec == Init /\ [][Next]_vars

\* A handler that took a number runs on, tasks are scheduled, the listener
\* loop receives and retries for ever.  Nothing makes anyone publish.
Fairness ==
    /\ \A p \in Publishers : WF_vars(PushCommand(p) \/ NotifyWaiters(p))
    /\ \A t \in StreamTasks : WF_vars(StreamStep(t)) /\ WF_vars(Receive(t))
    /\ WF_vars(\E t \in StreamTasks : Connect(t))

FairSpec == Spec /\ Fairness

-----------------------------------------------------------------------------
BusTypeOK ==
    /\ incarnation \in 1..MaxIncarnations
    /\ nextSequence \in 1..(MaxSequence + 1)
    /\ log \in Seq(1..MaxSequence)
    /\ front \in Nat \ {0}
    /\ QueueLength <= QueueCapacity
    /\ publishing \in [Publishers -> [step : PublishSteps, sequence : 0..MaxSequence]]

TaskTypeOK ==
    /\ pc \in [StreamTasks -> TaskSteps]
    /\ position \in [StreamTasks -> 0..MaxSequence]
    /\ batch \in [StreamTasks -> SUBSET (1..Len(log))]
    /\ woken \in [StreamTasks -> BOOLEAN]
    /\ activeSubscribers \in Int

ReceiverTypeOK ==
    /\ open \in [StreamTasks -> BOOLEAN]
    /\ channel \in [StreamTasks -> Seq(1..Len(log))]
    /\ \A t \in StreamTasks : Len(channel[t]) <= ChannelCapacity
    /\ connection \in StreamTasks \cup {NoTask}

ListenerTypeOK ==
    /\ afterSequence \in 0..MaxSequence
    /\ processed \in Seq(CommandIds)
    /\ Len(processed) <= ProcessedCapacity
    /\ applied \in Seq(CommandIds)
    /\ carried \in 0..MaxSequence
    /\ disruptions \in 0..MaxDisruptions

(* Every variable has its type, and the deque, the channels and the        *)
(* remembered ids stay within their capacities (control.rs 40-41, 96, 506).*)
TypeOK == BusTypeOK /\ TaskTypeOK /\ ReceiverTypeOK /\ ListenerTypeOK

(* The ways in which a pushed command can be settled. *)
IsApplied(n)   == CommandId(n) \in Range(applied)
IsEvicted(n)   == n < front
IsOvertaken(n) == \E m \in 1..(n - 1) : log[m] > log[n]
IsCarriedOver(n) == log[n] <= carried

IsSettled(n) ==
    /\ n \in 1..Len(log)
    /\ IsApplied(n) \/ IsEvicted(n) \/ IsOvertaken(n) \/ IsCarriedOver(n)

\* The listener still gets command n: it travels, or the cursor is below it.
IsOffered(n) ==
    IF connection = NoTask
    THEN log[n] > StartPosition(afterSequence)
    ELSE \/ n \in batch[connection]
         \/ n \in Range(channel[connection])
         \/ log[n] > position[connection]

(* No command disappears for a reason other than three: the deque was full *)
(* (2048 newer commands), a handler that took a later number pushed first, *)
(* or the number is one the listener had seen from an earlier admin        *)
(* process.  Every other command was applied or is still offered, whatever *)
(* breaks, reconnects and restarts happen (control.rs 85-176, 359-408).    *)
NoUnexplainedLoss ==
    \A n \in 1..Len(log) : IsSettled(n) \/ IsOffered(n)

(* One public process applies a command at most once, although a cursor    *)
(* that went down inside a batch, or a reset cursor, has commands sent     *)
(* again: the 4096 remembered ids cover all that 2048 queued commands can  *)
(* repeat (control.rs 388-403, 418-434).                                   *)
AppliedAtMostOnce ==
    \A i, j \in DOMAIN applied : applied[i] = applied[j] => i = j

(* A pushed command is eventually applied, unless it is settled in one of  *)
(* the three other ways or the admin process that held it died: no wakeup  *)
(* is lost between commands_after and the await (control.rs 161-167).      *)
CommandsSettle ==
    \A k \in 1..MaxIncarnations, n \in 1..MaxSequence :
        (incarnation = k /\ n \in 1..Len(log))
            ~> (incarnation # k \/ IsSettled(n))

-----------------------------------------------------------------------------
(* The strengthening under which NoUnexplainedLoss is inductive.           *)

InFlight(t, n) == n \in batch[t] \/ n \in Range(channel[t])

\* Numbers are handed out once, and a pushed one is below the counter.
NumbersUnique ==
    /\ \A n \in 1..Len(log) : log[n] < nextSequence
    /\ \A m, n \in 1..Len(log) : log[m] = log[n] => m = n
    /\ \A p \in Publishers : publishing[p].step = "push" =>
          /\ publishing[p].sequence \in 1..(nextSequence - 1)
          /\ \A n \in 1..Len(log) : log[n] # publishing[p].sequence
          /\ \A q \in Publishers :
                publishing[q].step = "push" /\ publishing[q].sequence = publishing[p].sequence
                    => p = q

\* The open receiver is the listener's; a task has a batch just when it sends.
TasksWellFormed ==
    /\ \A t \in StreamTasks : pc[t] = "send" <=> batch[t] # {}
    /\ \A t \in StreamTasks : open[t] <=> connection = t
    /\ \A t \in StreamTasks : open[t] => pc[t] # "free"
    /\ \A t \in StreamTasks : ~open[t] => channel[t] = <<>>

ProcessedWereApplied == Range(processed) \subseteq Range(applied)

\* A cursor is zero, carried over, or at most some pushed number.
IsReached(cursor) == cursor <= carried \/ \E m \in 1..Len(log) : cursor <= log[m]

\* Whatever lies below a cursor is settled, or on its way in the stream.
ListenerCursor ==
    /\ IsReached(afterSequence)
    /\ \A n \in 1..Len(log) : log[n] <= afterSequence => IsSettled(n)

StreamCursor ==
    \A t \in StreamTasks : open[t] =>
        /\ IsReached(position[t])
        /\ \A n \in 1..Len(log) :
              log[n] <= position[t] => IsSettled(n) \/ InFlight(t, n)

\* A stream delivers a command after every smaller number pushed before it.
BatchOrder ==
    \A t \in StreamTasks : open[t] =>
        \A k \in batch[t] : \A n \in 1..(k - 1) :
            log[n] <= log[k] => IsSettled(n) \/ InFlight(t, n)

ChannelOrder ==
    \A t \in StreamTasks : \A i \in 1..Len(channel[t]) :
        \A n \in 1..(channel[t][i] - 1) :
            log[n] <= log[channel[t][i]] =>
                IsSettled(n) \/ \E j \in 1..(i - 1) : channel[t][j] = n

InductiveInvariant ==
    /\ TypeOK
    /\ NumbersUnique
    /\ TasksWellFormed
    /\ ProcessedWereApplied
    /\ ListenerCursor
    /\ StreamCursor
    /\ BatchOrder
    /\ ChannelOrder
=============================================================================
