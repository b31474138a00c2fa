-------------------------- MODULE UtteranceProofs --------------------------
(***************************************************************************)
(* Proofs about UtterancePipeline, for any number of sessions, utterances, *)
(* faults and crashes, and any capacity of the queues.                     *)
(***************************************************************************)
EXTENDS UtterancePipeline, Functions, TLAPS

\* The stages that write the row of an utterance, and the sessions whose
\* workers may still do so.
Realtime   == {"transcription", "translation", "synthesis"}
LiveStages == {"running", "failed", "draining"}

Types ==
    /\ stage \in [Sessions -> SessionStages]
    /\ segment \in [Sessions -> Utterances \cup {Nobody}]
    /\ live \in [Sessions -> BOOLEAN]
    /\ queue \in [Sessions -> [Stages -> Seq(Utterances)]]
    /\ job \in [Sessions -> [Stages -> [step : JobSteps, utterance : Utterances \cup {Nobody}]]]
    /\ row \in [Utterances -> Statuses]
    /\ owner \in [Utterances -> Sessions \cup {Nobody}]
    /\ sweep \in [Sessions -> 0..4]
    /\ recovery \in 0..5 /\ booting \in BOOLEAN /\ adminStarts \in 0..MaxAdminStarts

Consistent ==
    /\ \A s \in Sessions, w \in Stages : job[s][w].step # "idle" => job[s][w].utterance \in Utterances
    /\ \A s \in Sessions : live[s] => segment[s] \in Utterances
    /\ booting => recovery # 0 /\ \A s \in Sessions : stage[s] \in {"unused", "ended", "dead"}
    /\ recovery # 0 /\ ~booting => adminStarts # 0
    /\ \A s \in Sessions : stage[s] = "sweeping" => sweep[s] \in 1..3

-----------------------------------------------------------------------------
(* Where an utterance is: in the session loop, in a queue or at a worker.  *)

Queued(s, w, u) == u \in Range(queue[s][w])
Worked(s, w, u) == job[s][w].utterance = u

\* It is in one place at most.
Alone(u) ==
    \A s \in Sessions, v, w \in Realtime :
        /\ Queued(s, v, u) /\ Queued(s, w, u) => v = w
        /\ Worked(s, v, u) /\ Worked(s, w, u) => v = w
        /\ ~(Queued(s, v, u) /\ Worked(s, w, u))
        /\ segment[s] = u => ~Queued(s, v, u) /\ ~Worked(s, v, u)

\* That place belongs to the session that owns it, and runs.
Owned(u) ==
    \A s \in Sessions :
        /\ segment[s] = u => owner[u] = s /\ stage[s] = "running"
        /\ \A w \in Realtime : Queued(s, w, u) \/ Worked(s, w, u) =>
              owner[u] = s /\ stage[s] \in LiveStages

\* The status of its row in each place, as long as no admin service starts.
RowIn(w) == CASE w = "transcription" -> "none"
              [] w = "translation"   -> "translating"
              [] w = "synthesis"     -> "text_ready"

RowAt(w, step, status) ==
    \/ w = "transcription" /\ \/ step = "work" /\ status = "none"
                              \/ step = "recognize" /\ status = "recognizing"
                              \/ step \in {"offer", "handover"} /\ status = "translating"
                              \/ step = "failed" /\ status \in {"none", "recognizing", "translating"}
    \/ w = "translation"   /\ \/ step = "work" /\ status = "translating"
                              \/ step = "handover" /\ status = "text_ready"
                              \/ step = "failed" /\ status \in {"translating", "text_ready"}
    \/ w = "synthesis"     /\ \/ step \in {"work", "stream", "store"} /\ status = "text_ready"
                              \/ step = "spoken" /\ status = "completed"
                              \/ step = "failed" /\ status \in {"text_ready", "completed"}

Recorded(u) ==
    MaxAdminStarts = 0 =>
        \A s \in Sessions :
            /\ segment[s] = u => row[u] = "none"
            /\ \A w \in Realtime :
                  /\ Queued(s, w, u) => row[u] = RowIn(w)
                  /\ Worked(s, w, u) => RowAt(w, job[s][w].step, row[u])

Placed(u) == Alone(u) /\ Owned(u) /\ Recorded(u)

\* No utterance waits twice in a queue.
NoneTwice == \A s \in Sessions, w \in Realtime : IsInjective(queue[s][w])

\* What the sweeps have left of the rows of a session that is over.
Swept(u) ==
    /\ owner[u] = Nobody => row[u] = "none"
    /\ booting => \A i \in 1..3 : i < recovery => row[u] # SweepOrder[i]
    /\ \A s \in Sessions : owner[u] = s =>
          /\ stage[s] = "sweeping" => \A i \in 1..3 : i < sweep[s] => row[u] # SweepOrder[i]
          /\ stage[s] \in {"completing", "ended"} /\ sweep[s] = 4 => row[u] \notin InProgress
          /\ stage[s] = "dead" /\ ~booting => row[u] \notin InProgress

PipelineInv == /\ Types /\ Consistent /\ NoneTwice
               /\ \A u \in Utterances : Placed(u) /\ Swept(u)

-----------------------------------------------------------------------------
(* What the operators on queues and jobs do.                               *)

LEMMA StagesAre ==
    /\ Realtime \subseteq Stages /\ "refinement" \in Stages
    /\ \A w \in {"transcription", "translation"} :
          NextStage[w] \in Realtime /\ NextStage[w] # w /\ w \in Realtime
    /\ NextStage["transcription"] = "translation" /\ NextStage["translation"] = "synthesis"
    /\ Nobody \notin Utterances /\ Nobody \notin Sessions
BY ConstantsAssumption DEF Realtime, Stages, NextStage

LEMMA GotoFacts ==
    ASSUME Types, NEW s \in Sessions, NEW w \in Stages, NEW step \in JobSteps, Goto(s, w, step)
    PROVE  /\ job' \in [Sessions -> [Stages -> [step : JobSteps, utterance : Utterances \cup {Nobody}]]]
           /\ job'[s][w].step = step /\ job'[s][w].utterance = job[s][w].utterance
           /\ \A r \in Sessions, v \in Stages : r # s \/ v # w => job'[r][v] = job[r][v]
<1> DEFINE Row == [step : JobSteps, utterance : Utterances \cup {Nobody}]
           new == [job[s][w] EXCEPT !.step = step]
<1>1. job \in [Sessions -> [Stages -> Row]] /\ job[s] \in [Stages -> Row] /\ job[s][w] \in Row
  BY DEF Types
<1>2. new \in Row /\ new.step = step /\ new.utterance = job[s][w].utterance
  BY <1>1
<1>3. job' = [job EXCEPT ![s] = [job[s] EXCEPT ![w] = new]]
  BY <1>1, Zenon DEF Goto
<1> HIDE DEF new, Row
<1>4. [job[s] EXCEPT ![w] = new] \in [Stages -> Row]
  BY <1>1, <1>2
<1>5. job' \in [Sessions -> [Stages -> Row]]
  BY <1>1, <1>3, <1>4
<1>6. job'[s] = [job[s] EXCEPT ![w] = new] /\ \A r \in Sessions \ {s} : job'[r] = job[r]
  BY <1>1, <1>3
<1>7. job'[s][w] = new /\ \A v \in Stages \ {w} : job'[s][v] = job[s][v]
  BY <1>1, <1>6
<1> QED
  BY <1>2, <1>5, <1>6, <1>7 DEF Row

LEMMA RestFacts ==
    ASSUME Types, NEW s \in Sessions, NEW w \in Stages, Rest(s, w)
    PROVE  /\ job' \in [Sessions -> [Stages -> [step : JobSteps, utterance : Utterances \cup {Nobody}]]]
           /\ job'[s][w].step = "idle" /\ job'[s][w].utterance = Nobody
           /\ \A r \in Sessions, v \in Stages : r # s \/ v # w => job'[r][v] = job[r][v]
<1> DEFINE Row == [step : JobSteps, utterance : Utterances \cup {Nobody}]
<1>1. job \in [Sessions -> [Stages -> Row]] /\ job[s] \in [Stages -> Row]
  BY DEF Types
<1>2. Idle \in Row /\ Idle.step = "idle" /\ Idle.utterance = Nobody
  BY DEF Idle, JobSteps
<1>3. job' = [job EXCEPT ![s] = [job[s] EXCEPT ![w] = Idle]]
  BY <1>1, Zenon DEF Rest
<1> HIDE DEF Row
<1>4. [job[s] EXCEPT ![w] = Idle] \in [Stages -> Row]
  BY <1>1, <1>2
<1>5. job' \in [Sessions -> [Stages -> Row]]
  BY <1>1, <1>3, <1>4
<1>6. job'[s] = [job[s] EXCEPT ![w] = Idle] /\ \A r \in Sessions \ {s} : job'[r] = job[r]
  BY <1>1, <1>3
<1>7. job'[s][w] = Idle /\ \A v \in Stages \ {w} : job'[s][v] = job[s][v]
  BY <1>1, <1>6
<1> QED
  BY <1>2, <1>5, <1>6, <1>7 DEF Row

LEMMA PushFacts ==
    ASSUME Types, NEW s \in Sessions, NEW w \in Stages, NEW u \in Utterances, Push(s, w, u)
    PROVE  /\ queue' \in [Sessions -> [Stages -> Seq(Utterances)]]
           /\ Range(queue'[s][w]) = Range(queue[s][w]) \cup {u}
           /\ IsInjective(queue[s][w]) /\ u \notin Range(queue[s][w]) => IsInjective(queue'[s][w])
           /\ \A r \in Sessions, v \in Stages : r # s \/ v # w => queue'[r][v] = queue[r][v]
<1>1. queue[s] \in [Stages -> Seq(Utterances)]
  BY DEF Types
<1>2. PICK q \in Seq(Utterances) : q = queue[s][w]
  BY <1>1
<1>3. PICK longer \in Seq(Utterances) : longer = Append(q, u)
  <2>1. Append(q, u) \in Seq(Utterances)
    OBVIOUS
  <2> QED
    BY <2>1
<1>4. queue' = [queue EXCEPT ![s] = [queue[s] EXCEPT ![w] = longer]]
  BY <1>1, <1>2, <1>3, Zenon DEF Push, Types
<1>5. [queue[s] EXCEPT ![w] = longer] \in [Stages -> Seq(Utterances)]
  BY <1>1
<1>6. queue' \in [Sessions -> [Stages -> Seq(Utterances)]]
  BY <1>4, <1>5 DEF Types
<1>7. queue'[s] = [queue[s] EXCEPT ![w] = longer] /\ \A r \in Sessions \ {s} : queue'[r] = queue[r]
  BY <1>4, <1>5 DEF Types
<1>8. queue'[s][w] = longer /\ \A v \in Stages \ {w} : queue'[s][v] = queue[s][v]
  BY <1>1, <1>7
<1>9. /\ DOMAIN longer = DOMAIN q \cup {Len(q) + 1} /\ longer[Len(q) + 1] = u
      /\ \A i \in DOMAIN q : longer[i] = q[i]
  BY <1>3
<1>10. Range(longer) = Range(q) \cup {u}
  BY <1>9 DEF Range
<1>11. IsInjective(q) /\ u \notin Range(q) => IsInjective(longer)
  BY <1>9 DEF IsInjective, Range
<1> QED
  BY <1>2, <1>6, <1>7, <1>8, <1>10, <1>11

LEMMA TakeFacts ==
    ASSUME Types, NEW s \in Sessions, NEW w \in Stages, Take(s, w),
           NEW u, u = Head(queue[s][w])
    PROVE  /\ u \in Utterances /\ u \in Range(queue[s][w])
           /\ queue' \in [Sessions -> [Stages -> Seq(Utterances)]]
           /\ Range(queue'[s][w]) \subseteq Range(queue[s][w])
           /\ IsInjective(queue[s][w]) => IsInjective(queue'[s][w]) /\ u \notin Range(queue'[s][w])
           /\ \A r \in Sessions, v \in Stages : r # s \/ v # w => queue'[r][v] = queue[r][v]
           /\ job' \in [Sessions -> [Stages -> [step : JobSteps, utterance : Utterances \cup {Nobody}]]]
           /\ job'[s][w].step = "work" /\ job'[s][w].utterance = u
           /\ \A r \in Sessions, v \in Stages : r # s \/ v # w => job'[r][v] = job[r][v]
<1>1. queue[s] \in [Stages -> Seq(Utterances)]
  BY DEF Types
<1>2. PICK q \in Seq(Utterances) : q = queue[s][w] /\ q # <<>>
  BY <1>1 DEF Take
<1>3. u \in Utterances /\ u = Head(q)
  BY <1>2
<1>4. PICK rest \in Seq(Utterances) : rest = Tail(q)
  <2>1. Tail(q) \in Seq(Utterances)
    BY <1>2
  <2> QED
    BY <2>1
<1>5. queue' = [queue EXCEPT ![s] = [queue[s] EXCEPT ![w] = rest]]
  BY <1>1, <1>2, <1>4, Zenon DEF Take, Types
<1>6. [queue[s] EXCEPT ![w] = rest] \in [Stages -> Seq(Utterances)]
  BY <1>1
<1>7. queue' \in [Sessions -> [Stages -> Seq(Utterances)]]
  BY <1>5, <1>6 DEF Types
<1>8. queue'[s] = [queue[s] EXCEPT ![w] = rest] /\ \A r \in Sessions \ {s} : queue'[r] = queue[r]
  BY <1>5, <1>6 DEF Types
<1>9. queue'[s][w] = rest /\ \A v \in Stages \ {w} : queue'[s][v] = queue[s][v]
  BY <1>1, <1>8
<1>10. /\ 1 \in DOMAIN q /\ q[1] = u
       /\ \A i \in DOMAIN rest : i + 1 \in DOMAIN q /\ i + 1 # 1 /\ rest[i] = q[i + 1] /\ i \in Nat
  BY <1>2, <1>3, <1>4
<1>11. u \in Range(q) /\ Range(rest) \subseteq Range(q)
  BY <1>10 DEF Range
<1>12. IsInjective(q) => IsInjective(rest) /\ u \notin Range(rest)
  BY <1>10 DEF IsInjective, Range
<1> DEFINE Row == [step : JobSteps, utterance : Utterances \cup {Nobody}]
           new == [step |-> "work", utterance |-> u]
<1>13. job \in [Sessions -> [Stages -> Row]] /\ job[s] \in [Stages -> Row]
  BY DEF Types
<1>14. new \in Row /\ new.step = "work" /\ new.utterance = u
  BY <1>3 DEF JobSteps
<1>15. job' = [job EXCEPT ![s] = [job[s] EXCEPT ![w] = new]]
  BY <1>2, <1>3, <1>13, Zenon DEF Take
<1> HIDE DEF Row, new
<1>16. [job[s] EXCEPT ![w] = new] \in [Stages -> Row]
  BY <1>13, <1>14
<1>17. job' \in [Sessions -> [Stages -> Row]]
  BY <1>13, <1>15, <1>16
<1>18. job'[s] = [job[s] EXCEPT ![w] = new] /\ \A r \in Sessions \ {s} : job'[r] = job[r]
  BY <1>13, <1>15
<1>19. job'[s][w] = new /\ \A v \in Stages \ {w} : job'[s][v] = job[s][v]
  BY <1>13, <1>18
<1> QED
  BY <1>2, <1>7, <1>8, <1>9, <1>11, <1>12, <1>14, <1>17, <1>18, <1>19 DEF Row

-----------------------------------------------------------------------------
(* Utterances stay where they are, or one of them goes one place further.  *)

\* Nobody touches v: it may leave its place, nothing else.
LEMMA Untouched ==
    ASSUME NEW v \in Utterances, Placed(v),
           \A r \in Sessions, w \in Realtime :
              /\ Queued(r, w, v)' => Queued(r, w, v)
              /\ Worked(r, w, v)' => Worked(r, w, v) /\ job'[r][w].step = job[r][w].step,
           \A r \in Sessions : segment'[r] = v => segment[r] = v,
           \A r \in Sessions : owner[v] = r /\ segment'[r] = v => stage'[r] = stage[r],
           \A r \in Sessions : owner[v] = r /\ stage[r] \in LiveStages
              /\ (\E w \in Realtime : Queued(r, w, v) \/ Worked(r, w, v)) => stage'[r] \in LiveStages,
           row'[v] = row[v] \/ MaxAdminStarts # 0, owner'[v] = owner[v]
    PROVE  Placed(v)'
<1>1. Alone(v)'
  BY DEF Placed, Alone
<1>2. Owned(v)'
  BY DEF Placed, Owned
<1>3. Recorded(v)'
  BY DEF Placed, Recorded
<1> QED
  BY <1>1, <1>2, <1>3 DEF Placed

LEMMA InQueueOnly ==
    ASSUME NEW u \in Utterances, NEW s \in Sessions, NEW w \in Realtime,
           \A r \in Sessions, v \in Realtime : Queued(r, v, u)' => r = s /\ v = w,
           \A r \in Sessions, v \in Realtime : ~Worked(r, v, u)',
           \A r \in Sessions : segment'[r] # u,
           owner'[u] = s, stage'[s] \in LiveStages,
           MaxAdminStarts = 0 => row'[u] = RowIn(w)
    PROVE  Placed(u)'
BY DEF Placed, Alone, Owned, Recorded

LEMMA AtWorkOnly ==
    ASSUME NEW u \in Utterances, NEW s \in Sessions, NEW w \in Realtime,
           \A r \in Sessions, v \in Realtime : Worked(r, v, u)' => r = s /\ v = w,
           \A r \in Sessions, v \in Realtime : ~Queued(r, v, u)',
           \A r \in Sessions : segment'[r] # u,
           owner'[u] = s, stage'[s] \in LiveStages,
           MaxAdminStarts = 0 => RowAt(w, job'[s][w].step, row'[u])
    PROVE  Placed(u)'
BY DEF Placed, Alone, Owned, Recorded

LEMMA Nowhere ==
    ASSUME NEW u \in Utterances,
           \A r \in Sessions, v \in Realtime : ~Queued(r, v, u)' /\ ~Worked(r, v, u)',
           \A r \in Sessions : segment'[r] # u
    PROVE  Placed(u)'
BY DEF Placed, Alone, Owned, Recorded

\* The job of a worker is in no other place.
LEMMA WorkedAlone ==
    ASSUME NEW u \in Utterances, Placed(u), NEW s \in Sessions, NEW w \in Realtime, Worked(s, w, u)
    PROVE  /\ \A r \in Sessions, v \in Realtime : ~Queued(r, v, u)
           /\ \A r \in Sessions, v \in Realtime : Worked(r, v, u) => r = s /\ v = w
           /\ \A r \in Sessions : segment[r] # u
           /\ owner[u] = s /\ stage[s] \in LiveStages
BY DEF Placed, Alone, Owned

LEMMA QueuedAlone ==
    ASSUME NEW u \in Utterances, Placed(u), NEW s \in Sessions, NEW w \in Realtime, Queued(s, w, u)
    PROVE  /\ \A r \in Sessions, v \in Realtime : ~Worked(r, v, u)
           /\ \A r \in Sessions, v \in Realtime : Queued(r, v, u) => r = s /\ v = w
           /\ \A r \in Sessions : segment[r] # u
           /\ owner[u] = s /\ stage[s] \in LiveStages
BY DEF Placed, Alone, Owned

Everywhere == \A u \in Utterances : Placed(u)
SameQueues == \A r \in Sessions, v \in Realtime : queue'[r][v] = queue[r][v]

\* A worker goes on with its job, and may write its row.
LEMMA StepInPlace ==
    ASSUME Types, Everywhere, NoneTwice, NEW s \in Sessions, NEW w \in Realtime,
           NEW step \in JobSteps, NEW u \in Utterances, Worked(s, w, u), Goto(s, w, step),
           SameQueues, UNCHANGED <<segment, owner, stage>>,
           \A v \in Utterances \ {u} : row'[v] = row[v],
           MaxAdminStarts = 0 => RowAt(w, step, row'[u])
    PROVE  Everywhere' /\ NoneTwice'
<1>1. /\ job'[s][w].step = step /\ job'[s][w].utterance = u
      /\ \A r \in Sessions, v \in Realtime : r # s \/ v # w => job'[r][v] = job[r][v]
  BY GotoFacts, StagesAre DEF Worked
<1>2. Placed(u)'
  BY <1>1, WorkedAlone, AtWorkOnly DEF Everywhere, SameQueues, Queued, Worked
<1>3. ASSUME NEW v \in Utterances \ {u} PROVE Placed(v)'
  BY <1>1, Untouched DEF Everywhere, SameQueues, Queued, Worked
<1> QED
  BY <1>2, <1>3 DEF Everywhere, SameQueues, NoneTwice

LEMMA JobEnds ==
    ASSUME Types, Everywhere, NoneTwice, NEW s \in Sessions, NEW w \in Realtime,
           NEW u \in Utterances, Worked(s, w, u), Rest(s, w),
           SameQueues, UNCHANGED <<segment, owner, stage>>,
           \A v \in Utterances \ {u} : row'[v] = row[v]
    PROVE  Everywhere' /\ NoneTwice'
<1>1. /\ job'[s][w].utterance = Nobody /\ u # Nobody
      /\ \A r \in Sessions, v \in Realtime : r # s \/ v # w => job'[r][v] = job[r][v]
  BY RestFacts, StagesAre
<1>2. Placed(u)'
  BY <1>1, WorkedAlone, Nowhere DEF Everywhere, SameQueues, Queued, Worked
<1>3. ASSUME NEW v \in Utterances \ {u} PROVE Placed(v)'
  BY <1>1, Untouched, StagesAre DEF Everywhere, SameQueues, Queued, Worked
<1> QED
  BY <1>2, <1>3 DEF Everywhere, SameQueues, NoneTwice

LEMMA JobTaken ==
    ASSUME Types, Everywhere, NoneTwice, NEW s \in Sessions, NEW w \in Realtime, Take(s, w)
    PROVE  Everywhere' /\ NoneTwice'
<1>1. UNCHANGED <<segment, owner, stage, row>>
  BY DEF Take, sessionVars, databaseVars
<1>2. w \in Stages /\ Realtime \subseteq Stages
  BY StagesAre
<1>3. PICK u : u = Head(queue[s][w])
  OBVIOUS
<1>4. /\ u \in Utterances /\ u \in Range(queue[s][w])
      /\ Range(queue'[s][w]) \subseteq Range(queue[s][w])
      /\ IsInjective(queue[s][w]) => IsInjective(queue'[s][w]) /\ u \notin Range(queue'[s][w])
      /\ \A r \in Sessions, v \in Stages : r # s \/ v # w => queue'[r][v] = queue[r][v]
      /\ job'[s][w].step = "work" /\ job'[s][w].utterance = u
      /\ \A r \in Sessions, v \in Stages : r # s \/ v # w => job'[r][v] = job[r][v]
  <2>1. u \in Utterances /\ u \in Range(queue[s][w])
        /\ Range(queue'[s][w]) \subseteq Range(queue[s][w])
    BY <1>2, <1>3, TakeFacts
  <2>2. IsInjective(queue[s][w]) => IsInjective(queue'[s][w]) /\ u \notin Range(queue'[s][w])
    BY <1>2, <1>3, TakeFacts
  <2>3. \A r \in Sessions, v \in Stages : r # s \/ v # w => queue'[r][v] = queue[r][v]
    BY <1>2, <1>3, TakeFacts
  <2>4. /\ job'[s][w].step = "work" /\ job'[s][w].utterance = u
        /\ \A r \in Sessions, v \in Stages : r # s \/ v # w => job'[r][v] = job[r][v]
    BY <1>2, <1>3, TakeFacts
  <2> QED
    BY <2>1, <2>2, <2>3, <2>4
<1>5. IsInjective(queue'[s][w]) /\ u \notin Range(queue'[s][w]) /\ Queued(s, w, u)
  BY <1>4 DEF NoneTwice, Queued
<1>6. Placed(u)'
  <2>1. MaxAdminStarts = 0 => row[u] = RowIn(w)
    BY <1>4, <1>5 DEF Everywhere, Placed, Recorded
  <2>2. MaxAdminStarts = 0 => RowAt(w, "work", row[u])
    BY <2>1 DEF RowIn, RowAt, Realtime
  <2>3. \A r \in Sessions, v \in Realtime : ~Queued(r, v, u)'
    BY <1>2, <1>4, <1>5, QueuedAlone DEF Everywhere, Queued
  <2>4. \A r \in Sessions, v \in Realtime : Worked(r, v, u)' => r = s /\ v = w
    BY <1>2, <1>4, <1>5, QueuedAlone DEF Everywhere, Worked
  <2>5. owner[u] = s /\ stage[s] \in LiveStages /\ \A r \in Sessions : segment[r] # u
    BY <1>4, <1>5, QueuedAlone DEF Everywhere
  <2> QED
    BY <1>1, <1>4, <2>2, <2>3, <2>4, <2>5, AtWorkOnly
<1>7. ASSUME NEW v \in Utterances \ {u} PROVE Placed(v)'
  BY <1>2, <1>1, <1>4, Untouched DEF Everywhere, Queued, Worked
<1>8. NoneTwice'
  BY <1>2, <1>4, <1>5 DEF NoneTwice
<1> QED
  BY <1>6, <1>7, <1>8 DEF Everywhere

LEMMA JobMovesOn ==
    ASSUME Types, Everywhere, NoneTwice, NEW s \in Sessions,
           NEW w \in {"transcription", "translation"}, NEW u \in Utterances, Worked(s, w, u),
           HandOver(s, w)
    PROVE  Everywhere' /\ NoneTwice'
<1> DEFINE n == NextStage[w]
<1>1. UNCHANGED <<segment, owner, stage, row>>
  BY DEF HandOver, sessionVars, databaseVars
<1>2. n \in Realtime /\ n \in Stages /\ w \in Realtime /\ w \in Stages /\ u # Nobody
  BY StagesAre
<1>3. Push(s, n, u) /\ Rest(s, w) /\ job[s][w].step = "handover"
  BY DEF HandOver, Current, At, Worked
<1>4. Placed(u)
  BY DEF Everywhere
<1>5. \A r \in Sessions, v \in Realtime : ~Queued(r, v, u)
  BY <1>2, <1>4, WorkedAlone
<1>6. /\ Range(queue'[s][n]) = Range(queue[s][n]) \cup {u} /\ IsInjective(queue'[s][n])
      /\ \A r \in Sessions, v \in Realtime : r # s \/ v # n => queue'[r][v] = queue[r][v]
  <2>1. u \notin Range(queue[s][n]) /\ IsInjective(queue[s][n])
    BY <1>2, <1>5 DEF NoneTwice, Queued
  <2> HIDE DEF n
  <2>2. /\ Range(queue'[s][n]) = Range(queue[s][n]) \cup {u}
        /\ IsInjective(queue[s][n]) /\ u \notin Range(queue[s][n]) => IsInjective(queue'[s][n])
        /\ \A r \in Sessions, v \in Stages : r # s \/ v # n => queue'[r][v] = queue[r][v]
    <3>1. Push(s, n, u) /\ n \in Stages
      BY <1>2, <1>3
    <3>2. Range(queue'[s][n]) = Range(queue[s][n]) \cup {u}
      BY <3>1, PushFacts
    <3>3. IsInjective(queue[s][n]) /\ u \notin Range(queue[s][n]) => IsInjective(queue'[s][n])
      BY <3>1, PushFacts
    <3>4. \A r \in Sessions, v \in Stages : r # s \/ v # n => queue'[r][v] = queue[r][v]
      BY <3>1, PushFacts
    <3> QED
      BY <3>2, <3>3, <3>4
  <2> QED
    BY <2>1, <2>2, StagesAre
<1>7. /\ job'[s][w].utterance = Nobody
      /\ \A r \in Sessions, v \in Realtime : r # s \/ v # w => job'[r][v] = job[r][v]
  BY <1>2, <1>3, RestFacts, StagesAre
<1>8. Placed(u)'
  <2>1. MaxAdminStarts = 0 => RowAt(w, "handover", row[u])
    BY <1>2, <1>3, <1>4 DEF Placed, Recorded
  <2>2. MaxAdminStarts = 0 => row[u] = RowIn(n)
    BY <2>1, StagesAre DEF RowAt, RowIn
  <2>3. \A r \in Sessions, v \in Realtime : Queued(r, v, u)' => r = s /\ v = n
    BY <1>5, <1>6 DEF Queued
  <2>4. \A r \in Sessions, v \in Realtime : ~Worked(r, v, u)'
    BY <1>2, <1>4, <1>7, WorkedAlone DEF Worked
  <2>5. owner[u] = s /\ stage[s] \in LiveStages /\ \A r \in Sessions : segment[r] # u
    BY <1>2, <1>4, WorkedAlone
  <2> HIDE DEF n
  <2> QED
    BY <1>1, <1>2, <2>2, <2>3, <2>4, <2>5, InQueueOnly
<1>9. ASSUME NEW v \in Utterances \ {u} PROVE Placed(v)'
  <2> HIDE DEF n
  <2>1. \A r \in Sessions, x \in Realtime :
              /\ Queued(r, x, v)' => Queued(r, x, v)
              /\ Worked(r, x, v)' => Worked(r, x, v) /\ job'[r][x].step = job[r][x].step
    BY <1>6, <1>7, StagesAre DEF Queued, Worked
  <2> QED
    BY <1>1, <2>1, Untouched DEF Everywhere
<1>10. NoneTwice'
  BY <1>6 DEF NoneTwice
<1> QED
  BY <1>8, <1>9, <1>10 DEF Everywhere

\* A step that moves no utterance, and lets no session go that has one.
LEMMA NobodyMoves ==
    ASSUME Everywhere, NoneTwice, SameQueues, UNCHANGED <<segment, owner>>,
           \A r \in Sessions, w \in Realtime : job'[r][w] = job[r][w],
           \A r \in Sessions, v \in Utterances :
              /\ segment[r] = v /\ stage[r] = "running" => stage'[r] = stage[r]
              /\ stage[r] \in LiveStages /\ (\E w \in Realtime : Queued(r, w, v) \/ Worked(r, w, v))
                    => stage'[r] \in LiveStages
              /\ owner[v] = r /\ stage[r] \in LiveStages => row'[v] = row[v] \/ MaxAdminStarts # 0
    PROVE  Everywhere' /\ NoneTwice'
<1>1. ASSUME NEW v \in Utterances PROVE Placed(v)'
  <2>1. Placed(v)
    BY DEF Everywhere
  <2>2. \A r \in Sessions, w \in Realtime :
           /\ Queued(r, w, v)' <=> Queued(r, w, v)
           /\ Worked(r, w, v)' <=> Worked(r, w, v)
    BY DEF SameQueues, Queued, Worked
  <2>3. CASE \E r \in Sessions : owner[v] = r /\ stage[r] \in LiveStages
    BY <2>1, <2>2, <2>3, Untouched DEF Placed, Owned
  <2>4. CASE ~\E r \in Sessions : owner[v] = r /\ stage[r] \in LiveStages
    <3>1. \A r \in Sessions : segment[r] # v /\ \A w \in Realtime : ~Queued(r, w, v) /\ ~Worked(r, w, v)
      BY <2>1, <2>4 DEF Placed, Owned, LiveStages
    <3> QED
      BY <2>2, <3>1, Nowhere
  <2> QED
    BY <2>3, <2>4
<1> QED
  BY <1>1 DEF Everywhere, SameQueues, NoneTwice

LEMMA SegmentStarts ==
    ASSUME Types, Everywhere, NoneTwice, NEW s \in Sessions, NEW u \in Utterances,
           Swept(u), StartSegment(s, u)
    PROVE  Everywhere' /\ NoneTwice'
<1>1. /\ owner[u] = Nobody /\ segment[s] = Nobody /\ stage[s] = "running"
      /\ UNCHANGED <<queue, job, row>>
      /\ owner'[u] = s /\ \A v \in Utterances \ {u} : owner'[v] = owner[v]
  BY DEF StartSegment, workerVars, Types
<1>2. row[u] = "none"
  BY <1>1 DEF Swept
<1>3. /\ \A r \in Sessions, w \in Realtime : ~Queued(r, w, u) /\ ~Worked(r, w, u)
      /\ \A r \in Sessions : segment[r] # u
  BY <1>1, StagesAre DEF Everywhere, Placed, Owned
<1>4. \/ segment'[s] = u /\ stage' = stage
      \/ segment'[s] = Nobody /\ stage'[s] = "failed"
  BY <1>1 DEF StartSegment, Types
<1>5. \A r \in Sessions \ {s} : segment'[r] = segment[r] /\ stage'[r] = stage[r]
  BY DEF StartSegment, Types
<1>6. Placed(u)'
  BY <1>1, <1>2, <1>3, <1>4, <1>5, StagesAre
  DEF Placed, Alone, Owned, Recorded, Queued, Worked
<1>7. ASSUME NEW v \in Utterances \ {u} PROVE Placed(v)'
  <2>1. Placed(v) /\ v # Nobody
    BY StagesAre DEF Everywhere
  <2>2. \A r \in Sessions : segment'[r] = v => segment[r] = v /\ stage'[r] = stage[r]
    BY <1>4, <1>5, <2>1
  <2>3. \A r \in Sessions : stage[r] \in LiveStages => stage'[r] \in LiveStages
    BY <1>1, <1>4, <1>5 DEF LiveStages
  <2> QED
    BY <1>1, <2>1, <2>2, <2>3, Untouched DEF Queued, Worked
<1> QED
  BY <1>1, <1>6, <1>7 DEF Everywhere, NoneTwice

LEMMA SegmentEnds ==
    ASSUME Types, Everywhere, NoneTwice, NEW s \in Sessions,
           DiscardSegment(s) \/ ConfigureFails(s)
    PROVE  Everywhere' /\ NoneTwice'
<1>1. /\ UNCHANGED <<queue, job, row, owner>> /\ segment'[s] = Nobody
      /\ \A r \in Sessions \ {s} : segment'[r] = segment[r] /\ stage'[r] = stage[r]
      /\ stage'[s] \in LiveStages
  BY DEF DiscardSegment, ConfigureFails, workerVars, databaseVars, Types, LiveStages
<1>2. ASSUME NEW v \in Utterances PROVE Placed(v)'
  <2>1. Placed(v) /\ v # Nobody
    BY StagesAre DEF Everywhere
  <2>2. \A r \in Sessions : segment'[r] = v => segment[r] = v /\ stage'[r] = stage[r]
    BY <1>1, <2>1
  <2>3. \A r \in Sessions : stage[r] \in LiveStages => stage'[r] \in LiveStages
    BY <1>1
  <2> QED
    BY <1>1, <2>1, <2>2, <2>3, Untouched DEF Queued, Worked
<1> QED
  BY <1>1, <1>2 DEF Everywhere, NoneTwice

LEMMA SegmentQueued ==
    ASSUME Types, Consistent, Everywhere, NoneTwice, NEW s \in Sessions, FinishLive(s)
    PROVE  Everywhere' /\ NoneTwice'
<1>1. PICK u \in Utterances : u = segment[s]
  BY DEF FinishLive, Consistent
<1>2. /\ UNCHANGED <<stage, job, row, owner>> /\ segment'[s] = Nobody
      /\ \A r \in Sessions \ {s} : segment'[r] = segment[r]
      /\ Push(s, "transcription", u) /\ stage[s] = "running"
  BY <1>1 DEF FinishLive, databaseVars, Types
<1>3. "transcription" \in Realtime /\ "transcription" \in Stages /\ u # Nobody
  BY StagesAre DEF Realtime, Stages
<1>4. /\ owner[u] = s /\ \A r \in Sessions : segment[r] = u => r = s
      /\ \A r \in Sessions, w \in Realtime : ~Queued(r, w, u) /\ ~Worked(r, w, u)
  BY <1>1 DEF Everywhere, Placed, Owned, Alone
<1>5. Range(queue'[s]["transcription"]) = Range(queue[s]["transcription"]) \cup {u}
  BY <1>2, <1>3, PushFacts
<1>6. IsInjective(queue'[s]["transcription"])
  <2>1. IsInjective(queue[s]["transcription"]) /\ u \notin Range(queue[s]["transcription"])
    BY <1>3, <1>4 DEF NoneTwice, Queued
  <2> QED
    BY <1>2, <1>3, <2>1, PushFacts
<1>7. \A r \in Sessions, v \in Realtime :
         r # s \/ v # "transcription" => queue'[r][v] = queue[r][v]
  <2>1. \A r \in Sessions, v \in Stages :
         r # s \/ v # "transcription" => queue'[r][v] = queue[r][v]
    BY <1>2, <1>3, PushFacts
  <2> QED
    BY <2>1, StagesAre
<1>8. Placed(u)'
  <2>1. MaxAdminStarts = 0 => row[u] = RowIn("transcription")
    BY <1>1 DEF Everywhere, Placed, Recorded, RowIn
  <2>2. \A r \in Sessions, v \in Realtime : Queued(r, v, u)' => r = s /\ v = "transcription"
    BY <1>4, <1>7 DEF Queued
  <2>3. \A r \in Sessions, v \in Realtime : ~Worked(r, v, u)'
    BY <1>2, <1>4 DEF Worked
  <2>4. \A r \in Sessions : segment'[r] # u
    BY <1>2, <1>3, <1>4
  <2> QED
    BY <1>2, <1>3, <1>4, <2>1, <2>2, <2>3, <2>4, InQueueOnly DEF LiveStages
<1>9. ASSUME NEW v \in Utterances \ {u} PROVE Placed(v)'
  <2>1. \A r \in Sessions, w \in Realtime : Queued(r, w, v)' => Queued(r, w, v)
    BY <1>5, <1>7 DEF Queued
  <2>2. \A r \in Sessions : segment'[r] = v => segment[r] = v
    BY <1>2, StagesAre
  <2> QED
    BY <1>2, <2>1, <2>2, Untouched DEF Everywhere, Worked
<1>10. NoneTwice'
  BY <1>6, <1>7 DEF NoneTwice
<1> QED
  BY <1>8, <1>9, <1>10 DEF Everywhere

LEMMA AllLost ==
    ASSUME Crash
    PROVE  Everywhere' /\ NoneTwice'
<1>1. \A r \in Sessions, w \in Realtime : queue'[r][w] = <<>> /\ job'[r][w].utterance = Nobody
  BY StagesAre DEF Crash, Idle
<1>2. \A r \in Sessions : segment'[r] = Nobody
  BY DEF Crash
<1>3. \A v \in Utterances, r \in Sessions, w \in Realtime : ~Queued(r, w, v)' /\ ~Worked(r, w, v)'
  BY <1>1, StagesAre DEF Queued, Worked, Range
<1>4. ASSUME NEW v \in Utterances PROVE Placed(v)'
  BY <1>2, <1>3, Nowhere, StagesAre
<1> QED
  BY <1>1, <1>4 DEF Everywhere, NoneTwice, IsInjective

\* Loop and sweep steps that move nothing.
LEMMA SessionStays ==
    ASSUME Types, Consistent, Everywhere, NoneTwice, NEW s \in Sessions,
           \/ OpenSession(s) \/ BeginLive(s) \/ CloseInput(s) \/ WorkersDone(s)
           \/ SweepSession(s) \/ CompleteSession(s)
    PROVE  Everywhere' /\ NoneTwice'
<1>1. /\ UNCHANGED <<queue, job, segment, owner>>
      /\ \A r \in Sessions \ {s} : stage'[r] = stage[r]
  BY DEF OpenSession, BeginLive, CloseInput, WorkersDone, SweepSession, CompleteSession,
         workerVars, databaseVars, Types
<1>2. \A v \in Utterances : segment[s] = v /\ stage[s] = "running" => stage'[s] = stage[s]
  BY StagesAre DEF OpenSession, BeginLive, CloseInput, WorkersDone, SweepSession, CompleteSession
<1>3. ASSUME NEW v \in Utterances, stage[s] \in LiveStages,
             NEW w \in Realtime, Queued(s, w, v) \/ Worked(s, w, v)
      PROVE  stage'[s] \in LiveStages
  <2>1. ~WorkersDone(s)
    <3>1. IsDrained(s, w) => queue[s][w] = <<>> /\ job[s][w].utterance = Nobody
      BY DEF IsDrained, Idle
    <3>2. ~IsDrained(s, w)
      BY <1>3, <3>1, StagesAre DEF Queued, Worked, Range
    <3> QED
      BY <3>2, StagesAre DEF WorkersDone
  <2> QED
    BY <1>3, <2>1
    DEF OpenSession, BeginLive, CloseInput, SweepSession, CompleteSession, LiveStages, Types
<1>4. ASSUME NEW v \in Utterances, NEW r \in Sessions, owner[v] = r, stage[r] \in LiveStages
      PROVE  row'[v] = row[v]
  <2>1. CASE SweepSession(s)
    <3>1. v \notin Of(s)
      BY <1>4, <2>1 DEF SweepSession, Of, LiveStages
    <3> QED
      BY <2>1, <3>1 DEF SweepSession, Interrupted, Types
  <2>2. CASE ~SweepSession(s)
    BY <2>2 DEF OpenSession, BeginLive, CloseInput, WorkersDone, CompleteSession, databaseVars
  <2> QED
    BY <2>1, <2>2
<1> QED
  BY <1>1, <1>2, <1>3, <1>4, NobodyMoves DEF SameQueues

LEMMA ProcessStays ==
    ASSUME Types, Consistent, Everywhere, NoneTwice, StartAdmin \/ Recover
    PROVE  Everywhere' /\ NoneTwice'
<1>1. UNCHANGED <<queue, job, segment, stage, owner>>
  BY DEF StartAdmin, Recover, sessionVars, workerVars, databaseVars
<1>2. ASSUME NEW v \in Utterances, NEW r \in Sessions, owner[v] = r, stage[r] \in LiveStages,
             MaxAdminStarts = 0
      PROVE  row'[v] = row[v]
  <2>1. CASE StartAdmin
    BY <2>1 DEF StartAdmin, databaseVars
  <2>2. CASE Recover
    <3>1. adminStarts = 0
      BY <1>2 DEF Types
    <3>2. booting
      BY <2>2, <3>1 DEF Recover, Consistent
    <3> QED
      BY <1>2, <3>2 DEF Consistent, LiveStages
  <2> QED
    BY <2>1, <2>2
<1> QED
  BY <1>1, <1>2, NobodyMoves DEF SameQueues

LEMMA RefinerStays ==
    ASSUME Types, Everywhere, NoneTwice, NEW s \in Sessions, Refiner(s)
    PROVE  Everywhere' /\ NoneTwice'
<1>1. UNCHANGED <<segment, stage, owner, row>> /\ "refinement" \notin Realtime
  BY DEF Refiner, Take, StartRefinement, FinishRefinement, sessionVars, databaseVars, Realtime
<1>2. \A r \in Sessions, w \in Realtime : queue'[r][w] = queue[r][w] /\ job'[r][w] = job[r][w]
  <2>1. CASE Take(s, "refinement")
    <3>1. \A r \in Sessions, w \in Stages :
             r # s \/ w # "refinement" => queue'[r][w] = queue[r][w] /\ job'[r][w] = job[r][w]
      <4>1. PICK u : u = Head(queue[s]["refinement"])
        OBVIOUS
      <4>2. \A r \in Sessions, w \in Stages :
               r # s \/ w # "refinement" => queue'[r][w] = queue[r][w]
        BY <2>1, <4>1, TakeFacts, StagesAre
      <4>3. \A r \in Sessions, w \in Stages :
               r # s \/ w # "refinement" => job'[r][w] = job[r][w]
        BY <2>1, <4>1, TakeFacts, StagesAre
      <4> QED
        BY <4>2, <4>3
    <3> QED
      BY <1>1, <3>1, StagesAre
  <2>2. CASE StartRefinement(s)
    <3>1. Goto(s, "refinement", "refine") /\ "refine" \in JobSteps /\ queue' = queue
      BY <2>2 DEF StartRefinement, JobSteps
    <3>2. \A r \in Sessions, w \in Stages : r # s \/ w # "refinement" => job'[r][w] = job[r][w]
      BY <3>1, GotoFacts, StagesAre
    <3> QED
      BY <1>1, <3>1, <3>2, StagesAre
  <2>3. CASE FinishRefinement(s)
    <3>1. Rest(s, "refinement") /\ queue' = queue
      BY <2>3 DEF FinishRefinement
    <3>2. \A r \in Sessions, w \in Stages : r # s \/ w # "refinement" => job'[r][w] = job[r][w]
      BY <3>1, RestFacts, StagesAre
    <3> QED
      BY <1>1, <3>1, <3>2, StagesAre
  <2> QED
    BY <2>1, <2>2, <2>3 DEF Refiner
<1> QED
  BY <1>1, <1>2, NobodyMoves DEF SameQueues

-----------------------------------------------------------------------------
(* The workers' steps, and the row that each of them may write.            *)

Progresses(u) == Lifecycle!Advance(u) \/ Lifecycle!Fail(u)

\* A step that writes no row, or the row of one utterance that s still has.
RowStep(s) ==
    \/ row' = row
    \/ \E u \in Utterances, status \in Statuses :
          /\ owner[u] = s /\ stage[s] \in LiveStages
          /\ row' = [row EXCEPT ![u] = status]
          /\ MaxAdminStarts = 0 => Progresses(u)

Kept == UNCHANGED <<segment, stage, owner>>

LEMMA StatusesAre ==
    /\ {"none", "recognizing", "translating", "text_ready", "completed", "recognition_failed",
        "translation_failed", "tts_failed"} \subseteq Statuses
    /\ \A w \in Realtime : FailureOf[w] \in Statuses
BY DEF Statuses, InProgress, InterruptionOf, FailureOf, Realtime

\* An UPDATE of the row of u: the status before decides which step it is.
LEMMA Written ==
    ASSUME Types, NEW u \in Utterances, NEW s \in Sessions, NEW status \in Statuses,
           owner[u] = s, stage[s] \in LiveStages,
           row' = [row EXCEPT ![u] = status],
           MaxAdminStarts = 0 =>
              \/ row[u] = "none" /\ status = "recognizing"
              \/ row[u] = "recognizing" /\ status = "translating"
              \/ row[u] = "translating" /\ status = "text_ready"
              \/ row[u] = "text_ready" /\ status = "completed"
              \/ row[u] \in {"recognizing", "translating"} /\ status = "recognition_failed"
              \/ row[u] \in {"translating", "text_ready"} /\ status = "translation_failed"
              \/ row[u] \in {"text_ready", "completed"} /\ status = "tts_failed"
    PROVE  RowStep(s)
<1>1. MaxAdminStarts = 0 => Progresses(u)
  <2>1. CASE \/ row[u] = "none" /\ status = "recognizing"
             \/ row[u] = "recognizing" /\ status = "translating"
             \/ row[u] = "translating" /\ status = "text_ready"
             \/ row[u] = "text_ready" /\ status = "completed"
    <3>1. row[u] \in DOMAIN Lifecycle!Successor /\ status = Lifecycle!Successor[row[u]]
      BY <2>1 DEF Lifecycle!Successor
    <3> QED
      BY <3>1 DEF Lifecycle!Advance, Progresses
  <2>2. CASE \/ row[u] \in {"recognizing", "translating"} /\ status = "recognition_failed"
             \/ row[u] \in {"translating", "text_ready"} /\ status = "translation_failed"
             \/ row[u] \in {"text_ready", "completed"} /\ status = "tts_failed"
    <3>1. status \in DOMAIN Lifecycle!FailableFrom /\ row[u] \in Lifecycle!FailableFrom[status]
      BY <2>2 DEF Lifecycle!FailableFrom
    <3> QED
      BY <3>1 DEF Lifecycle!Fail, Progresses
  <2> QED
    BY <2>1, <2>2
<1> QED
  BY <1>1 DEF RowStep

\* What the worker of a stage knows of its job.
LEMMA TheJob ==
    ASSUME Types, Consistent, Everywhere, NEW s \in Sessions, NEW w \in Realtime,
           job[s][w].step # "idle"
    PROVE  /\ Current(s, w) \in Utterances /\ Worked(s, w, Current(s, w))
           /\ owner[Current(s, w)] = s /\ stage[s] \in LiveStages
           /\ MaxAdminStarts = 0 => RowAt(w, job[s][w].step, row[Current(s, w)])
<1>1. Current(s, w) \in Utterances /\ Worked(s, w, Current(s, w))
  BY StagesAre DEF Consistent, Current, Worked
<1>2. Placed(Current(s, w))
  BY <1>1 DEF Everywhere
<1> QED
  BY <1>1, <1>2 DEF Placed, Owned, Recorded

\* A worker that stores `status` where the status before allows it, or fails.
LEMMA ResultStored ==
    ASSUME Types, Consistent, Everywhere, NoneTwice, NEW s \in Sessions, NEW w \in Realtime,
           NEW status \in Statuses, NEW step \in JobSteps, job[s][w].step # "idle",
           StoreResult(s, w, status, step) \/ EngineFails(s, w),
           queue' = queue, Kept,
           MaxAdminStarts = 0 =>
              LET before == row[Current(s, w)]
              IN  /\ \/ before = "recognizing" /\ status = "translating"
                     \/ before = "translating" /\ status = "text_ready"
                     \/ before = "text_ready" /\ status = "completed"
                  /\ RowAt(w, step, status)
                  /\ RowAt(w, "failed", status) /\ RowAt(w, "failed", before)
    PROVE  Everywhere' /\ NoneTwice' /\ RowStep(s)
<1> DEFINE u == Current(s, w)
<1>1. u \in Utterances /\ Worked(s, w, u) /\ owner[u] = s /\ stage[s] \in LiveStages
  BY TheJob
<1>2. row[u] \in Statuses /\ "failed" \in JobSteps
  BY <1>1 DEF Types, JobSteps
<1>3. /\ row' = row \/ row' = [row EXCEPT ![u] = status]
      /\ Goto(s, w, step) \/ Goto(s, w, "failed")
      /\ Goto(s, w, step) /\ ~Goto(s, w, "failed") /\ MaxAdminStarts = 0 =>
            row' = [row EXCEPT ![u] = status]
  BY DEF StoreResult, EngineFails, Save
<1> HIDE DEF u
<1>4. RowStep(s)
  <2>1. CASE row' = row
    BY <2>1 DEF RowStep
  <2>2. CASE row' = [row EXCEPT ![u] = status]
    BY <1>1, <2>2, Written DEF u
  <2> QED
    BY <1>3, <2>1, <2>2
<1>5. /\ \A v \in Utterances \ {u} : row'[v] = row[v]
      /\ row'[u] = row[u] \/ row'[u] = status
  BY <1>1, <1>3 DEF Types
<1>6. Everywhere' /\ NoneTwice'
  <2>1. SameQueues /\ UNCHANGED <<segment, owner, stage>>
    BY DEF SameQueues, Kept
  <2>2. CASE Goto(s, w, "failed")
    <3>1. MaxAdminStarts = 0 => RowAt(w, "failed", row'[u])
      BY <1>5 DEF u
    <3> QED
      BY <1>1, <1>2, <1>5, <2>1, <2>2, <3>1, StepInPlace
  <2>3. CASE ~Goto(s, w, "failed")
    <3>1. MaxAdminStarts = 0 => RowAt(w, step, row'[u])
      BY <1>1, <1>3, <2>3 DEF u, Types
    <3> QED
      BY <1>1, <1>3, <1>5, <2>1, <2>3, <3>1, StepInPlace
  <2> QED
    BY <2>2, <2>3
<1> QED
  BY <1>4, <1>6

\* A worker that goes on, with the row as it is.
LEMMA JobGoesOn ==
    ASSUME Types, Consistent, Everywhere, NoneTwice, NEW s \in Sessions, NEW w \in Realtime,
           NEW step \in JobSteps, job[s][w].step # "idle", Goto(s, w, step), SameQueues,
           row' = row, Kept,
           MaxAdminStarts = 0 => RowAt(w, step, row[Current(s, w)])
    PROVE  Everywhere' /\ NoneTwice' /\ RowStep(s)
<1>1. Current(s, w) \in Utterances /\ Worked(s, w, Current(s, w))
  BY TheJob
<1>2. PICK u \in Utterances : u = Current(s, w) /\ Worked(s, w, u)
  BY <1>1
<1> QED
  BY <1>2, StepInPlace DEF RowStep, Kept

LEMMA JobFails ==
    ASSUME Types, Consistent, Everywhere, NoneTwice, NEW s \in Sessions, NEW w \in Realtime,
           FailJob(s, w)
    PROVE  Everywhere' /\ NoneTwice' /\ RowStep(s)
<1> DEFINE u == Current(s, w)
<1>1. /\ u \in Utterances /\ Worked(s, w, u) /\ owner[u] = s /\ stage[s] \in LiveStages
      /\ MaxAdminStarts = 0 => RowAt(w, "failed", row[u])
  BY TheJob DEF FailJob, At
<1>2. /\ Rest(s, w) /\ SameQueues /\ UNCHANGED <<segment, owner, stage>>
      /\ row' = row \/ (row[u] # "none" /\ row' = [row EXCEPT ![u] = FailureOf[w]])
  BY DEF FailJob, Save, sessionVars, SameQueues
<1> HIDE DEF u
<1>3. \A v \in Utterances \ {u} : row'[v] = row[v]
  BY <1>1, <1>2 DEF Types
<1>4. Everywhere' /\ NoneTwice'
  BY <1>1, <1>2, <1>3, JobEnds
<1>5. CASE row' = row
  BY <1>4, <1>5 DEF RowStep
<1>6. CASE row[u] # "none" /\ row' = [row EXCEPT ![u] = FailureOf[w]]
  <2>1. MaxAdminStarts = 0 =>
              \/ row[u] \in {"recognizing", "translating"} /\ FailureOf[w] = "recognition_failed"
              \/ row[u] \in {"translating", "text_ready"} /\ FailureOf[w] = "translation_failed"
              \/ row[u] \in {"text_ready", "completed"} /\ FailureOf[w] = "tts_failed"
    BY <1>1, <1>6 DEF RowAt, FailureOf
  <2>2. FailureOf[w] \in Statuses
    BY StatusesAre
  <2>3. RowStep(s)
    BY <1>1, <1>6, <2>1, <2>2, Written
  <2> QED
    BY <1>4, <2>3
<1> QED
  BY <1>2, <1>5, <1>6

LEMMA RowIsCreated ==
    ASSUME Types, Consistent, Everywhere, NoneTwice, NEW s \in Sessions, CreateRow(s)
    PROVE  Everywhere' /\ NoneTwice' /\ RowStep(s)
<1> DEFINE u == Current(s, "transcription")
<1>1. "transcription" \in Realtime /\ "recognize" \in JobSteps /\ "failed" \in JobSteps
  BY DEF Realtime, JobSteps
<1>2. job[s]["transcription"].step = "work"
  BY DEF CreateRow, At
<1>3. /\ u \in Utterances /\ Worked(s, "transcription", u) /\ owner[u] = s
      /\ stage[s] \in LiveStages /\ (MaxAdminStarts = 0 => row[u] = "none")
  BY <1>1, <1>2, TheJob DEF RowAt
<1>4. /\ \/ row' = [row EXCEPT ![u] = "recognizing"] /\ Goto(s, "transcription", "recognize")
         \/ row' \in {row, [row EXCEPT ![u] = "recognizing"]} /\ Goto(s, "transcription", "failed")
      /\ SameQueues /\ UNCHANGED <<segment, owner, stage>>
  BY DEF CreateRow, sessionVars, SameQueues
<1> HIDE DEF u
<1>5. /\ \A v \in Utterances \ {u} : row'[v] = row[v]
      /\ row'[u] = row[u] \/ row'[u] = "recognizing"
      /\ ~Goto(s, "transcription", "failed") => row'[u] = "recognizing"
  BY <1>3, <1>4 DEF Types
<1>6. Everywhere' /\ NoneTwice'
  <2>1. CASE Goto(s, "transcription", "failed")
    <3>1. MaxAdminStarts = 0 => RowAt("transcription", "failed", row'[u])
      BY <1>3, <1>5 DEF RowAt
    <3> QED
      BY <1>1, <1>3, <1>4, <1>5, <2>1, <3>1, StepInPlace
  <2>2. CASE ~Goto(s, "transcription", "failed")
    <3>1. MaxAdminStarts = 0 => RowAt("transcription", "recognize", row'[u])
      BY <1>5, <2>2 DEF RowAt
    <3> QED
      BY <1>1, <1>3, <1>4, <1>5, <2>2, <3>1, StepInPlace
  <2> QED
    BY <2>1, <2>2
<1>7. RowStep(s)
  <2>1. CASE row' = row
    BY <2>1 DEF RowStep
  <2>2. CASE row' = [row EXCEPT ![u] = "recognizing"]
    <3>1. "recognizing" \in Statuses
      BY StatusesAre
    <3> QED
      BY <1>3, <2>2, <3>1, Written
  <2> QED
    BY <1>4, <2>1, <2>2
<1> QED
  BY <1>6, <1>7

LEMMA TranscriberSteps ==
    ASSUME Types, Consistent, Everywhere, NoneTwice, NEW s \in Sessions, Transcriber(s)
    PROVE  Everywhere' /\ NoneTwice' /\ RowStep(s)
<1> DEFINE w == "transcription"
<1>1. /\ w \in Realtime /\ w \in {"transcription", "translation"}
      /\ {"offer", "handover"} \subseteq JobSteps /\ "translating" \in Statuses
  BY StatusesAre DEF Realtime, JobSteps
<1>2. CASE Take(s, w)
  <2>1. row' = row
    BY <1>2 DEF Take, databaseVars
  <2> QED
    BY <1>1, <1>2, <2>1, JobTaken DEF RowStep
<1>3. CASE CreateRow(s)
  BY <1>3, RowIsCreated
<1>4. CASE Recognize(s)
  <2>1. /\ job[s][w].step = "recognize" /\ queue' = queue /\ Kept
        /\ StoreResult(s, w, "translating", "offer") \/ EngineFails(s, w)
    BY <1>4 DEF Recognize, At, Kept, sessionVars
  <2>2. MaxAdminStarts = 0 => row[Current(s, w)] = "recognizing"
    BY <1>1, <2>1, TheJob DEF RowAt
  <2> QED
    BY <1>1, <2>1, <2>2, ResultStored DEF RowAt
<1>5. CASE OfferRefinement(s)
  <2>1. /\ job[s][w].step = "offer" /\ Kept /\ row' = row /\ Goto(s, w, "handover")
        /\ Push(s, "refinement", Current(s, w)) \/ queue' = queue
    BY <1>5 DEF OfferRefinement, At, Kept, sessionVars, databaseVars
  <2>2. MaxAdminStarts = 0 => row[Current(s, w)] = "translating"
    BY <1>1, <2>1, TheJob DEF RowAt
  <2>3. Current(s, w) \in Utterances
    BY <1>1, <2>1, TheJob
  <2>4. SameQueues
    <3>1. CASE Push(s, "refinement", Current(s, w))
      <4>1. \A r \in Sessions, v \in Stages : r # s \/ v # "refinement" => queue'[r][v] = queue[r][v]
        BY <2>3, <3>1, PushFacts, StagesAre
      <4> QED
        BY <4>1, StagesAre DEF SameQueues, Realtime
    <3>2. CASE queue' = queue
      BY <3>2 DEF SameQueues
    <3> QED
      BY <2>1, <3>1, <3>2
  <2> QED
    BY <1>1, <2>1, <2>2, <2>4, JobGoesOn DEF RowAt
<1>6. CASE HandOver(s, w)
  <2>1. job[s][w].step # "idle" /\ row' = row
    BY <1>6 DEF HandOver, At, databaseVars
  <2>2. Current(s, w) \in Utterances /\ Worked(s, w, Current(s, w))
    BY <1>1, <2>1, TheJob
  <2> QED
    BY <1>1, <1>6, <2>1, <2>2, JobMovesOn DEF RowStep
<1>7. CASE FailJob(s, w)
  BY <1>1, <1>7, JobFails
<1> QED
  BY <1>2, <1>3, <1>4, <1>5, <1>6, <1>7 DEF Transcriber

LEMMA TranslatorSteps ==
    ASSUME Types, Consistent, Everywhere, NoneTwice, NEW s \in Sessions, Translator(s)
    PROVE  Everywhere' /\ NoneTwice' /\ RowStep(s)
<1> DEFINE w == "translation"
<1>1. /\ w \in Realtime /\ w \in {"transcription", "translation"}
      /\ "handover" \in JobSteps /\ "text_ready" \in Statuses
  BY StatusesAre DEF Realtime, JobSteps
<1>2. CASE Take(s, w)
  <2>1. row' = row
    BY <1>2 DEF Take, databaseVars
  <2> QED
    BY <1>1, <1>2, <2>1, JobTaken DEF RowStep
<1>3. CASE Translate(s)
  <2>1. /\ job[s][w].step = "work" /\ queue' = queue /\ Kept
        /\ StoreResult(s, w, "text_ready", "handover") \/ EngineFails(s, w)
    BY <1>3 DEF Translate, At, Kept, sessionVars
  <2>2. MaxAdminStarts = 0 => row[Current(s, w)] = "translating"
    BY <1>1, <2>1, TheJob DEF RowAt
  <2> QED
    BY <1>1, <2>1, <2>2, ResultStored DEF RowAt
<1>4. CASE HandOver(s, w)
  <2>1. job[s][w].step # "idle" /\ row' = row
    BY <1>4 DEF HandOver, At, databaseVars
  <2>2. Current(s, w) \in Utterances /\ Worked(s, w, Current(s, w))
    BY <1>1, <2>1, TheJob
  <2> QED
    BY <1>1, <1>4, <2>1, <2>2, JobMovesOn DEF RowStep
<1>5. CASE FailJob(s, w)
  BY <1>1, <1>5, JobFails
<1> QED
  BY <1>2, <1>3, <1>4, <1>5 DEF Translator

LEMMA SynthesizerSteps ==
    ASSUME Types, Consistent, Everywhere, NoneTwice, NEW s \in Sessions, Synthesizer(s)
    PROVE  Everywhere' /\ NoneTwice' /\ RowStep(s)
<1> DEFINE w == "synthesis"
<1>1. /\ w \in Realtime /\ {"stream", "store", "spoken", "failed"} \subseteq JobSteps
      /\ "completed" \in Statuses
  BY StatusesAre DEF Realtime, JobSteps
<1>2. CASE Take(s, w)
  <2>1. row' = row
    BY <1>2 DEF Take, databaseVars
  <2> QED
    BY <1>1, <1>2, <2>1, JobTaken DEF RowStep
<1>3. CASE StartStream(s) \/ EndStream(s) \/ SynthesisFails(s)
  <2>1. /\ job[s][w].step \in {"work", "stream", "store"} /\ Kept /\ row' = row /\ SameQueues
        /\ \E step \in {"stream", "store", "failed"} : Goto(s, w, step)
    BY <1>3 DEF StartStream, EndStream, SynthesisFails, EngineFails, At, Kept, sessionVars,
                databaseVars, SameQueues
  <2>2. MaxAdminStarts = 0 => row[Current(s, w)] = "text_ready"
    BY <1>1, <2>1, TheJob DEF RowAt
  <2>3. PICK step \in {"stream", "store", "failed"} : Goto(s, w, step)
    BY <2>1
  <2>4. MaxAdminStarts = 0 => RowAt(w, step, row[Current(s, w)])
    BY <2>2 DEF RowAt
  <2> QED
    BY <1>1, <2>1, <2>3, <2>4, JobGoesOn
<1>4. CASE StoreAudio(s)
  <2>1. /\ job[s][w].step = "store" /\ queue' = queue /\ Kept
        /\ StoreResult(s, w, "completed", "spoken")
    BY <1>4 DEF StoreAudio, At, Kept, sessionVars
  <2>2. MaxAdminStarts = 0 => row[Current(s, w)] = "text_ready"
    BY <1>1, <2>1, TheJob DEF RowAt
  <2> QED
    BY <1>1, <2>1, <2>2, ResultStored DEF RowAt
<1>5. CASE PublishMedia(s)
  <2>1. /\ job[s][w].step # "idle" /\ Rest(s, w) /\ row' = row /\ SameQueues
        /\ UNCHANGED <<segment, owner, stage>>
    BY <1>5 DEF PublishMedia, At, sessionVars, databaseVars, SameQueues
  <2>2. Current(s, w) \in Utterances /\ Worked(s, w, Current(s, w))
    BY <1>1, <2>1, TheJob
  <2> QED
    BY <1>1, <2>1, <2>2, JobEnds DEF RowStep
<1>6. CASE FailJob(s, w)
  BY <1>1, <1>6, JobFails
<1> QED
  BY <1>2, <1>3, <1>4, <1>5, <1>6 DEF Synthesizer

-----------------------------------------------------------------------------
(* Types, and what holds of each variable by itself.                       *)

JobsAreSound ==
    /\ job \in [Sessions -> [Stages -> [step : JobSteps, utterance : Utterances \cup {Nobody}]]]
    /\ \A s \in Sessions, w \in Stages : job[s][w].step # "idle" => job[s][w].utterance \in Utterances
QueuesAreSound == queue \in [Sessions -> [Stages -> Seq(Utterances)]]

LEMMA WorkersAreSound ==
    ASSUME Types, Consistent, NEW s \in Sessions, NEW w \in Stages,
           \/ Take(s, w)
           \/ Rest(s, w)
           \/ job[s][w].step # "idle" /\ \E step \in JobSteps : Goto(s, w, step)
    PROVE  JobsAreSound'
<1>1. CASE Take(s, w)
  <2>1. PICK u : u = Head(queue[s][w])
    OBVIOUS
  <2>2. u \in Utterances /\ job'[s][w].utterance = u
    BY <1>1, <2>1, TakeFacts
  <2>3. /\ job' \in [Sessions -> [Stages -> [step : JobSteps, utterance : Utterances \cup {Nobody}]]]
        /\ \A r \in Sessions, v \in Stages : r # s \/ v # w => job'[r][v] = job[r][v]
    BY <1>1, <2>1, TakeFacts
  <2> QED
    BY <2>2, <2>3 DEF JobsAreSound, Consistent
<1>2. CASE Rest(s, w)
  <2>1. job' \in [Sessions -> [Stages -> [step : JobSteps, utterance : Utterances \cup {Nobody}]]]
    BY <1>2, RestFacts
  <2>2. /\ job'[s][w].step = "idle"
        /\ \A r \in Sessions, v \in Stages : r # s \/ v # w => job'[r][v] = job[r][v]
    BY <1>2, RestFacts
  <2> QED
    BY <2>1, <2>2 DEF JobsAreSound, Consistent
<1>3. CASE job[s][w].step # "idle" /\ \E step \in JobSteps : Goto(s, w, step)
  <2>1. PICK step \in JobSteps : Goto(s, w, step)
    BY <1>3
  <2>2. job' \in [Sessions -> [Stages -> [step : JobSteps, utterance : Utterances \cup {Nobody}]]]
    BY <2>1, GotoFacts
  <2>3. /\ job'[s][w].utterance = job[s][w].utterance
        /\ \A r \in Sessions, v \in Stages : r # s \/ v # w => job'[r][v] = job[r][v]
    BY <2>1, GotoFacts
  <2> QED
    BY <1>3, <2>2, <2>3 DEF JobsAreSound, Consistent
<1> QED
  BY <1>1, <1>2, <1>3

LEMMA QueuesStaySound ==
    ASSUME Types, Consistent, NEW s \in Sessions,
           Transcriber(s) \/ Translator(s) \/ Synthesizer(s) \/ Refiner(s)
    PROVE  QueuesAreSound'
<1>1. CASE \E w \in Stages : Take(s, w)
  <2>1. PICK w \in Stages : Take(s, w)
    BY <1>1
  <2>2. PICK u : u = Head(queue[s][w])
    OBVIOUS
  <2> QED
    BY <2>1, <2>2, TakeFacts DEF QueuesAreSound
<1>2. CASE \E w \in {"transcription", "translation"} : HandOver(s, w)
  <2>1. PICK w \in {"transcription", "translation"} : HandOver(s, w)
    BY <1>2
  <2>2. Current(s, w) \in Utterances /\ NextStage[w] \in Stages
    BY <2>1, StagesAre DEF HandOver, At, Current, Consistent
  <2>3. Push(s, NextStage[w], Current(s, w))
    BY <2>1 DEF HandOver
  <2> QED
    BY <2>2, <2>3, PushFacts DEF QueuesAreSound
<1>3. CASE OfferRefinement(s)
  <2>1. /\ Current(s, "transcription") \in Utterances
        /\ queue' = queue \/ Push(s, "refinement", Current(s, "transcription"))
    BY <1>3 DEF OfferRefinement, At, Current, Consistent, Stages
  <2> QED
    BY <2>1, PushFacts, StagesAre DEF QueuesAreSound, Types
<1>4. CASE \/ CreateRow(s) \/ Recognize(s) \/ Translate(s) \/ StartStream(s) \/ EndStream(s)
           \/ SynthesisFails(s) \/ StoreAudio(s) \/ PublishMedia(s)
           \/ StartRefinement(s) \/ FinishRefinement(s) \/ \E w \in Realtime : FailJob(s, w)
  BY <1>4 DEF CreateRow, Recognize, Translate, StartStream, EndStream, SynthesisFails, StoreAudio,
              PublishMedia, StartRefinement, FinishRefinement, FailJob, QueuesAreSound, Types
<1> QED
  BY <1>1, <1>2, <1>3, <1>4 DEF Transcriber, Translator, Synthesizer, Refiner, Stages, Realtime

LEMMA JobsStaySound ==
    ASSUME Types, Consistent, NEW s \in Sessions,
           Transcriber(s) \/ Translator(s) \/ Synthesizer(s) \/ Refiner(s)
    PROVE  JobsAreSound'
<1>1. CASE \E w \in Stages : Take(s, w)
  BY <1>1, WorkersAreSound
<1>2. CASE \/ \E w \in {"transcription", "translation"} : HandOver(s, w)
           \/ PublishMedia(s) \/ FinishRefinement(s) \/ \E w \in Realtime : FailJob(s, w)
  <2>1. \E w \in Stages : Rest(s, w)
    BY <1>2 DEF HandOver, PublishMedia, FinishRefinement, FailJob, Stages, Realtime
  <2> QED
    BY <2>1, WorkersAreSound
<1>3. CASE CreateRow(s) \/ Recognize(s) \/ OfferRefinement(s)
  <2>1. /\ job[s]["transcription"].step # "idle" /\ "transcription" \in Stages
        /\ \E step \in JobSteps : Goto(s, "transcription", step)
    BY <1>3 DEF CreateRow, Recognize, OfferRefinement, StoreResult, EngineFails, At, Stages, JobSteps
  <2> QED
    BY <2>1, WorkersAreSound
<1>4. CASE Translate(s)
  <2>1. /\ job[s]["translation"].step # "idle" /\ "translation" \in Stages
        /\ \E step \in JobSteps : Goto(s, "translation", step)
    BY <1>4 DEF Translate, StoreResult, EngineFails, At, Stages, JobSteps
  <2> QED
    BY <2>1, WorkersAreSound
<1>5. CASE StartStream(s) \/ EndStream(s) \/ SynthesisFails(s) \/ StoreAudio(s)
  <2>1. /\ job[s]["synthesis"].step # "idle" /\ "synthesis" \in Stages
        /\ \E step \in JobSteps : Goto(s, "synthesis", step)
    BY <1>5 DEF StartStream, EndStream, SynthesisFails, StoreAudio, StoreResult, EngineFails, At,
                Stages, JobSteps
  <2> QED
    BY <2>1, WorkersAreSound
<1>6. CASE StartRefinement(s)
  <2>1. /\ job[s]["refinement"].step # "idle" /\ "refinement" \in Stages
        /\ \E step \in JobSteps : Goto(s, "refinement", step)
    BY <1>6 DEF StartRefinement, At, Stages, JobSteps
  <2> QED
    BY <2>1, WorkersAreSound
<1> QED
  BY <1>1, <1>2, <1>3, <1>4, <1>5, <1>6
  DEF Transcriber, Translator, Synthesizer, Refiner, Stages, Realtime

LEMMA WorkersTouch ==
    ASSUME NEW s \in Sessions, Transcriber(s) \/ Translator(s) \/ Synthesizer(s) \/ Refiner(s)
    PROVE  UNCHANGED <<sessionVars, owner, processVars>> /\ (Refiner(s) => row' = row)
<1>1. Transcriber(s) => UNCHANGED <<sessionVars, owner, processVars>>
  BY DEF Transcriber, Take, CreateRow, Recognize, OfferRefinement, HandOver, FailJob, databaseVars
<1>2. Translator(s) => UNCHANGED <<sessionVars, owner, processVars>>
  BY DEF Translator, Take, Translate, HandOver, FailJob, databaseVars
<1>3. Synthesizer(s) => UNCHANGED <<sessionVars, owner, processVars>>
  BY DEF Synthesizer, Take, StartStream, EndStream, SynthesisFails, StoreAudio, PublishMedia,
         FailJob, databaseVars
<1>4. Refiner(s) => UNCHANGED <<sessionVars, owner, processVars>> /\ row' = row
  BY DEF Refiner, Take, StartRefinement, FinishRefinement, databaseVars
<1> QED
  BY <1>1, <1>2, <1>3, <1>4

LEMMA WorkerTypes ==
    ASSUME Types, Consistent, Everywhere, NoneTwice, NEW s \in Sessions,
           Transcriber(s) \/ Translator(s) \/ Synthesizer(s) \/ Refiner(s)
    PROVE  Types' /\ Consistent'
<1>1. UNCHANGED <<sessionVars, owner, processVars>>
  BY WorkersTouch
<1>2. JobsAreSound' /\ QueuesAreSound'
  BY JobsStaySound, QueuesStaySound
<1>3. row' \in [Utterances -> Statuses]
  <2>1. RowStep(s)
    BY TranscriberSteps, TranslatorSteps, SynthesizerSteps, WorkersTouch DEF RowStep
  <2> QED
    BY <2>1 DEF RowStep, Types
<1>4. UNCHANGED <<stage, segment, live, sweep, owner, recovery, booting, adminStarts>>
  BY <1>1 DEF sessionVars, processVars
<1>5. Types'
  BY <1>2, <1>3, <1>4 DEF Types, JobsAreSound, QueuesAreSound
<1>6. Consistent'
  BY <1>2, <1>4 DEF Consistent, JobsAreSound
<1> QED
  BY <1>5, <1>6

\* What one statement of a sweep does to a row.
LEMMA InterruptedRow ==
    ASSUME Types, NEW k \in 1..3, NEW us \in SUBSET Utterances, NEW v \in Utterances,
           row' = Interrupted(us, SweepOrder[k])
    PROVE  /\ row'[v] \in Statuses
           /\ row'[v] = row[v] \/ (v \in us /\ row'[v] \notin InProgress)
           /\ row[v] = "none" => row'[v] = "none"
           /\ v \in us => row'[v] # SweepOrder[k]
<1>1. SweepOrder[k] \in InProgress
  BY DEF SweepOrder, InProgress, InterruptionOf
<1>2. \A st \in InProgress : InterruptionOf[st] \in Statuses \ InProgress /\ st # "none"
  BY DEF InProgress, InterruptionOf, Statuses
<1>3. PICK st \in InProgress : st = SweepOrder[k]
  BY <1>1
<1>4. PICK new \in Statuses \ InProgress : new = InterruptionOf[st]
  BY <1>2
<1>5. row'[v] = IF v \in us /\ row[v] = st THEN new ELSE row[v]
  BY <1>3, <1>4 DEF Interrupted
<1>6. st # "none" /\ row[v] \in Statuses
  BY <1>2, <1>3 DEF Types
<1> QED
  BY <1>3, <1>4, <1>5, <1>6

LEMMA SweptAll == \A st : st \in InProgress <=> \E i \in 1..3 : st = SweepOrder[i]
BY DEF SweepOrder, InProgress, InterruptionOf

LEMMA SessionTypes ==
    ASSUME Types, Consistent, NEW s \in Sessions, Session(s)
    PROVE  Types' /\ Consistent'
<1>1. row' \in [Utterances -> Statuses]
  <2>1. CASE SweepSession(s)
    <3>1. sweep[s] \in 1..3
      BY <2>1 DEF SweepSession, Consistent
    <3>2. row' = row \/ row' = Interrupted(Of(s), SweepOrder[sweep[s]])
      BY <2>1 DEF SweepSession
    <3>3. \A v \in Utterances : row' = Interrupted(Of(s), SweepOrder[sweep[s]]) => row'[v] \in Statuses
      BY <3>1, InterruptedRow DEF Of
    <3> QED
      BY <3>2, <3>3 DEF Types, Interrupted
  <2>2. CASE ~SweepSession(s)
    BY <2>2 DEF Session, OpenSession, ConfigureFails, StartSegment, BeginLive, DiscardSegment,
                FinishLive, CloseInput, WorkersDone, CompleteSession, databaseVars, Types
  <2> QED
    BY <2>1, <2>2
<1>2. owner' \in [Utterances -> Sessions \cup {Nobody}]
  BY DEF Session, OpenSession, ConfigureFails, StartSegment, BeginLive, DiscardSegment, FinishLive,
         CloseInput, WorkersDone, SweepSession, CompleteSession, databaseVars, Types
<1>3. queue' \in [Sessions -> [Stages -> Seq(Utterances)]] /\ job' = job
  <2>1. CASE FinishLive(s)
    <3>1. segment[s] \in Utterances /\ Push(s, "transcription", segment[s]) /\ job' = job
      BY <2>1 DEF FinishLive, Consistent
    <3> QED
      BY <3>1, PushFacts DEF Stages
  <2>2. CASE ~FinishLive(s)
    BY <2>2 DEF Session, OpenSession, ConfigureFails, StartSegment, BeginLive, DiscardSegment,
                CloseInput, WorkersDone, SweepSession, CompleteSession, workerVars, Types
  <2> QED
    BY <2>1, <2>2
<1>4. /\ stage' \in [Sessions -> SessionStages]
      /\ \A r \in Sessions \ {s} : stage'[r] = stage[r] /\ sweep'[r] = sweep[r]
      /\ ~booting /\ UNCHANGED processVars
  <2>1. ~booting
    BY DEF Session, OpenSession, ConfigureFails, StartSegment, BeginLive, DiscardSegment, FinishLive,
           CloseInput, WorkersDone, SweepSession, CompleteSession, Consistent
  <2>2. UNCHANGED processVars
    BY DEF Session, OpenSession, ConfigureFails, StartSegment, BeginLive, DiscardSegment, FinishLive,
           CloseInput, WorkersDone, SweepSession, CompleteSession
  <2>3. stage' = stage \/ \E st \in SessionStages : stage' = [stage EXCEPT ![s] = st]
    BY DEF Session, OpenSession, ConfigureFails, StartSegment, BeginLive, DiscardSegment, FinishLive,
           CloseInput, WorkersDone, SweepSession, CompleteSession, SessionStages
  <2>4. \A r \in Sessions \ {s} : sweep'[r] = sweep[r]
    BY DEF Session, OpenSession, ConfigureFails, StartSegment, BeginLive, DiscardSegment, FinishLive,
           CloseInput, WorkersDone, SweepSession, CompleteSession, Types
  <2> QED
    BY <2>1, <2>2, <2>3, <2>4 DEF Types
<1>5. /\ sweep' \in [Sessions -> 0..4]
      /\ stage'[s] = "sweeping" => sweep'[s] \in 1..3
  <2>1. CASE WorkersDone(s)
    BY <2>1 DEF WorkersDone, Types
  <2>2. CASE SweepSession(s)
    <3>1. sweep[s] \in 1..3 /\ sweep \in [Sessions -> 0..4] /\ stage \in [Sessions -> SessionStages]
      BY <2>2 DEF SweepSession, Types, Consistent
    <3>2. \/ /\ sweep' = [sweep EXCEPT ![s] = sweep[s] + 1]
             /\ stage' = [stage EXCEPT ![s] = IF sweep[s] = 3 THEN "completing" ELSE "sweeping"]
          \/ /\ sweep' = [sweep EXCEPT ![s] = 0]
             /\ stage' = [stage EXCEPT ![s] = "completing"]
      BY <2>2 DEF SweepSession
    <3> QED
      BY <3>1, <3>2
  <2>3. CASE ~WorkersDone(s) /\ ~SweepSession(s)
    <3>1. sweep' = sweep /\ stage'[s] # "sweeping"
      BY <2>3 DEF Session, OpenSession, ConfigureFails, StartSegment, BeginLive, DiscardSegment,
                  FinishLive, CloseInput, CompleteSession, Types
    <3> QED
      BY <3>1 DEF Types
  <2> QED
    BY <2>1, <2>2, <2>3
<1>6. /\ segment' \in [Sessions -> Utterances \cup {Nobody}]
      /\ \A r \in Sessions : live'[r] => segment'[r] \in Utterances
  <2>1. CASE \E u \in Utterances : StartSegment(s, u)
    <3>1. PICK u \in Utterances : StartSegment(s, u)
      BY <2>1
    <3>2. live' = live /\ (segment' = segment \/ segment' = [segment EXCEPT ![s] = u])
      BY <3>1 DEF StartSegment
    <3> QED
      BY <3>2 DEF Types, Consistent
  <2>2. CASE BeginLive(s)
    BY <2>2 DEF BeginLive, Types, Consistent
  <2>3. CASE ConfigureFails(s) \/ DiscardSegment(s) \/ FinishLive(s)
    BY <2>3 DEF ConfigureFails, DiscardSegment, FinishLive, Types, Consistent
  <2>4. CASE OpenSession(s) \/ CloseInput(s) \/ WorkersDone(s) \/ SweepSession(s) \/ CompleteSession(s)
    BY <2>4 DEF OpenSession, CloseInput, WorkersDone, SweepSession, CompleteSession, Types, Consistent
  <2> QED
    BY <2>1, <2>2, <2>3, <2>4 DEF Session
<1>7. live' \in [Sessions -> BOOLEAN]
  BY Zenon DEF Session, OpenSession, ConfigureFails, StartSegment, BeginLive, DiscardSegment, FinishLive,
         CloseInput, WorkersDone, SweepSession, CompleteSession, Types
<1>8. Types'
  BY <1>1, <1>2, <1>3, <1>4, <1>5, <1>6, <1>7 DEF Types, processVars
<1>9. Consistent'
  BY <1>3, <1>4, <1>5, <1>6 DEF Consistent, processVars
<1> QED
  BY <1>8, <1>9

LEMMA ProcessTypes ==
    ASSUME Types, Consistent, Process
    PROVE  Types' /\ Consistent'
<1>1. CASE Crash
  <2>1. /\ stage' \in [Sessions -> SessionStages]
        /\ \A r \in Sessions : stage'[r] \in {"unused", "ended", "dead"}
    BY <1>1 DEF Crash, Types, SessionStages
  <2>2. /\ segment' = [r \in Sessions |-> Nobody] /\ live' = [r \in Sessions |-> FALSE]
        /\ sweep' \in [Sessions -> 0..4] /\ owner' = owner /\ row' = row
        /\ recovery' = 1 /\ booting' /\ adminStarts' = adminStarts
    BY <1>1 DEF Crash, Types, databaseVars
  <2>3. queue' \in [Sessions -> [Stages -> Seq(Utterances)]]
    BY <1>1 DEF Crash
  <2>4. /\ job' \in [Sessions -> [Stages -> [step : JobSteps, utterance : Utterances \cup {Nobody}]]]
        /\ \A r \in Sessions, w \in Stages : job'[r][w].step = "idle"
    <3>1. Idle \in [step : JobSteps, utterance : Utterances \cup {Nobody}] /\ Idle.step = "idle"
      BY DEF Idle, JobSteps
    <3>2. PICK j \in [step : JobSteps, utterance : Utterances \cup {Nobody}] :
             j = Idle /\ j.step = "idle"
      BY <3>1
    <3>3. job' = [r \in Sessions |-> [w \in Stages |-> j]]
      BY <1>1, <3>2 DEF Crash
    <3> QED
      BY <3>2, <3>3
  <2>5. booting' = TRUE
    BY <1>1 DEF Crash
  <2>6. Types'
    BY <2>1, <2>2, <2>3, <2>4, <2>5 DEF Types
  <2>7. Consistent'
    BY <2>1, <2>2, <2>4 DEF Consistent
  <2> QED
    BY <2>6, <2>7
<1>2. CASE StartAdmin
  <2>1. /\ UNCHANGED <<stage, segment, live, sweep, queue, job, row, owner, booting>>
        /\ adminStarts' = adminStarts + 1 /\ adminStarts < MaxAdminStarts /\ recovery' = 1
    BY <1>2 DEF StartAdmin, sessionVars, workerVars, databaseVars
  <2>2. Types'
    BY <2>1, ConstantsAssumption DEF Types
  <2>3. Consistent'
    BY <2>1, ConstantsAssumption DEF Consistent, Types
  <2> QED
    BY <2>2, <2>3
<1>3. CASE Recover
  <2>1. UNCHANGED <<stage, segment, live, sweep, queue, job, owner, adminStarts>>
    BY <1>3 DEF Recover, sessionVars, workerVars
  <2>2. row' \in [Utterances -> Statuses]
    <3>1. \/ row' = row
          \/ recovery \in 1..3 /\ row' = Interrupted(Utterances, SweepOrder[recovery])
      BY <1>3 DEF Recover, Types
    <3>2. ASSUME recovery \in 1..3, row' = Interrupted(Utterances, SweepOrder[recovery]),
                 NEW v \in Utterances
          PROVE  row'[v] \in Statuses
      BY <3>2, InterruptedRow
    <3> QED
      BY <3>1, <3>2 DEF Types, Interrupted
  <2>3. /\ recovery' \in 0..5
        /\ recovery' = 0 <=> recovery = 5
    BY <1>3 DEF Recover, Types
  <2>4. booting' <=> (booting /\ recovery # 5)
    BY <1>3, Zenon DEF Recover
  <2>5. booting' \in BOOLEAN
    BY <1>3, Zenon DEF Recover
  <2>6. Types'
    BY <2>1, <2>2, <2>3, <2>5 DEF Types
  <2>7. Consistent'
    <3>1. recovery # 0
      BY <1>3 DEF Recover
    <3> QED
      BY <2>1, <2>3, <2>4, <3>1 DEF Consistent
  <2> QED
    BY <2>6, <2>7
<1> QED
  BY <1>1, <1>2, <1>3 DEF Process

-----------------------------------------------------------------------------
(* The sweeps.                                                             *)

\* The row of v is written by a session that is not over, or not at all.
LEMMA SweptStays ==
    ASSUME NEW v \in Utterances, Swept(v), Consistent,
           UNCHANGED <<stage, sweep, owner, recovery, booting>>,
           \/ row'[v] = row[v]
           \/ owner[v] \in Sessions /\ stage[owner[v]] \in LiveStages
    PROVE  Swept(v)'
<1>1. CASE row'[v] = row[v]
  BY <1>1 DEF Swept
<1>2. CASE owner[v] \in Sessions /\ stage[owner[v]] \in LiveStages
  BY <1>2, StagesAre DEF Swept, Consistent, LiveStages
<1> QED
  BY <1>1, <1>2

LEMMA WorkersLeaveSwept ==
    ASSUME Types, Consistent, Everywhere, NoneTwice, NEW s \in Sessions,
           Transcriber(s) \/ Translator(s) \/ Synthesizer(s) \/ Refiner(s),
           NEW v \in Utterances, Swept(v)
    PROVE  Swept(v)'
<1>1. UNCHANGED <<stage, sweep, owner, recovery, booting>>
  BY WorkersTouch DEF sessionVars, processVars
<1>2. RowStep(s)
  BY TranscriberSteps, TranslatorSteps, SynthesizerSteps, WorkersTouch DEF RowStep
<1>3. row'[v] = row[v] \/ (owner[v] \in Sessions /\ stage[owner[v]] \in LiveStages)
  BY <1>2 DEF RowStep, Types
<1> QED
  BY <1>1, <1>3, SweptStays

LEMMA SessionSweeps ==
    ASSUME Types, Consistent, NEW s \in Sessions, Session(s), NEW v \in Utterances, Swept(v)
    PROVE  Swept(v)'
<1>1. ~booting /\ UNCHANGED <<recovery, booting>>
  BY DEF Session, OpenSession, ConfigureFails, StartSegment, BeginLive, DiscardSegment, FinishLive,
         CloseInput, WorkersDone, SweepSession, CompleteSession, Consistent, processVars
<1>2. CASE OpenSession(s) \/ ConfigureFails(s) \/ CloseInput(s)
  <2>1. /\ UNCHANGED <<sweep, row, owner>> /\ stage'[s] \in {"running", "failed", "draining"}
        /\ \A r \in Sessions \ {s} : stage'[r] = stage[r]
    BY <1>2 DEF OpenSession, ConfigureFails, CloseInput, databaseVars, Types
  <2> QED
    BY <1>1, <2>1 DEF Swept
<1>3. CASE BeginLive(s) \/ DiscardSegment(s) \/ FinishLive(s)
  <2>1. UNCHANGED <<sweep, row, owner, stage>>
    BY <1>3 DEF BeginLive, DiscardSegment, FinishLive, databaseVars
  <2> QED
    BY <1>1, <2>1 DEF Swept
<1>4. CASE \E u \in Utterances : StartSegment(s, u)
  <2>1. PICK u \in Utterances : StartSegment(s, u)
    BY <1>4
  <2>2. /\ UNCHANGED <<sweep, row>> /\ owner[u] = Nobody /\ owner'[u] = s
        /\ \A w \in Utterances \ {u} : owner'[w] = owner[w]
        /\ stage'[s] \in {"running", "failed"}
        /\ \A r \in Sessions \ {s} : stage'[r] = stage[r]
    BY <2>1 DEF StartSegment, Types
  <2> QED
    BY <1>1, <2>2, StagesAre DEF Swept
<1>5. CASE WorkersDone(s)
  <2>1. /\ UNCHANGED <<row, owner>> /\ stage'[s] = "sweeping" /\ sweep'[s] = 1
        /\ \A r \in Sessions \ {s} : stage'[r] = stage[r] /\ sweep'[r] = sweep[r]
    BY <1>5 DEF WorkersDone, databaseVars, Types
  <2> QED
    BY <1>1, <2>1 DEF Swept
<1>6. CASE SweepSession(s)
  <2>1. PICK k \in 1..3 : k = sweep[s] /\ stage[s] = "sweeping"
    BY <1>6 DEF SweepSession, Consistent
  <2>2. /\ owner' = owner
        /\ \A r \in Sessions \ {s} : stage'[r] = stage[r] /\ sweep'[r] = sweep[r]
        /\ row' = row \/ row' = Interrupted(Of(s), SweepOrder[k])
    BY <1>6, <2>1 DEF SweepSession, Types
  <2>3. \/ /\ sweep'[s] = k + 1 /\ stage'[s] = IF k = 3 THEN "completing" ELSE "sweeping"
           /\ row' = Interrupted(Of(s), SweepOrder[k])
        \/ sweep'[s] = 0 /\ stage'[s] = "completing"
    BY <1>6, <2>1 DEF SweepSession, Types
  <2>4. /\ row'[v] = row[v] \/ (v \in Of(s) /\ row'[v] \notin InProgress)
        /\ row[v] = "none" => row'[v] = "none"
        /\ row' = Interrupted(Of(s), SweepOrder[k]) /\ v \in Of(s) => row'[v] # SweepOrder[k]
    BY <2>2, InterruptedRow DEF Of
  <2>5. CASE owner[v] # s
    <3>1. row'[v] = row[v] /\ owner'[v] # s
      BY <2>2, <2>4, <2>5 DEF Of
    <3> QED
      BY <1>1, <2>2, <3>1 DEF Swept
  <2>6. CASE owner[v] = s
    <3>1. owner'[v] = s /\ v \in Of(s) /\ s # Nobody
      BY <2>2, <2>6, StagesAre DEF Of
    <3>2. \A i \in 1..3 : i < k => row'[v] # SweepOrder[i]
      BY <2>1, <2>4, <2>6, SweptAll DEF Swept
    <3>3. CASE sweep'[s] = 0 /\ stage'[s] = "completing"
      BY <1>1, <3>1, <3>3 DEF Swept
    <3>4. CASE /\ sweep'[s] = k + 1 /\ stage'[s] = IF k = 3 THEN "completing" ELSE "sweeping"
               /\ row' = Interrupted(Of(s), SweepOrder[k])
      <4>1. \A i \in 1..3 : i < k + 1 => row'[v] # SweepOrder[i]
        BY <2>4, <3>1, <3>2, <3>4
      <4>2. k = 3 => row'[v] \notin InProgress
        BY <4>1, SweptAll
      <4> QED
        BY <1>1, <3>1, <3>4, <4>1, <4>2 DEF Swept
    <3> QED
      BY <2>3, <3>3, <3>4
  <2> QED
    BY <2>5, <2>6
<1>7. CASE CompleteSession(s)
  <2>1. /\ UNCHANGED <<row, owner, sweep>> /\ stage[s] = "completing" /\ stage'[s] = "ended"
        /\ \A r \in Sessions \ {s} : stage'[r] = stage[r]
    BY <1>7 DEF CompleteSession, Types
  <2> QED
    BY <1>1, <2>1 DEF Swept
<1> QED
  BY <1>2, <1>3, <1>4, <1>5, <1>6, <1>7 DEF Session

LEMMA ProcessSweeps ==
    ASSUME Types, Consistent, Process, NEW v \in Utterances, Swept(v)
    PROVE  Swept(v)'
<1>1. CASE Crash
  <2>1. /\ UNCHANGED <<row, owner>> /\ recovery' = 1 /\ booting'
        /\ \A r \in Sessions : \/ stage'[r] \in {"unused", "dead"}
                               \/ stage[r] = "ended" /\ stage'[r] = "ended" /\ sweep'[r] = sweep[r]
    BY <1>1 DEF Crash, databaseVars, Types
  <2> QED
    BY <2>1 DEF Swept
<1>2. CASE StartAdmin
  <2>1. UNCHANGED <<row, owner, stage, sweep, booting>> /\ ~booting
    BY <1>2 DEF StartAdmin, databaseVars, sessionVars
  <2> QED
    BY <2>1 DEF Swept
<1>3. CASE Recover
  <2>1. /\ UNCHANGED <<owner, stage, sweep>> /\ recovery # 0 /\ recovery \in 0..5
        /\ recovery' = IF recovery = 5 THEN 0 ELSE recovery + 1
        /\ booting' <=> booting /\ recovery # 5
        /\ row' = IF recovery <= 3 THEN Interrupted(Utterances, SweepOrder[recovery]) ELSE row
    BY <1>3 DEF Recover, sessionVars, Types
  <2>2. /\ row'[v] = row[v] \/ row'[v] \notin InProgress
        /\ row[v] = "none" => row'[v] = "none"
        /\ recovery <= 3 => row'[v] # SweepOrder[recovery]
    <3>1. CASE recovery <= 3
      <4>1. PICK k \in 1..3 : k = recovery
        BY <2>1, <3>1
      <4> QED
        BY <2>1, <3>1, <4>1, InterruptedRow
    <3>2. CASE ~(recovery <= 3)
      BY <2>1, <3>2
    <3> QED
      BY <3>1, <3>2
  <2>3. booting => \A i \in 1..3 : i <= recovery => row'[v] # SweepOrder[i]
    BY <2>1, <2>2, SweptAll DEF Swept
  <2>4. booting /\ ~booting' => row'[v] \notin InProgress
    BY <2>1, <2>3, SweptAll
  <2>5. /\ owner'[v] = Nobody => row'[v] = "none"
        /\ booting' => \A i \in 1..3 : i < recovery' => row'[v] # SweepOrder[i]
    BY <2>1, <2>2, <2>3 DEF Swept
  <2>6. ASSUME NEW r \in Sessions, owner'[v] = r
        PROVE  /\ stage'[r] = "sweeping" => \A i \in 1..3 : i < sweep'[r] => row'[v] # SweepOrder[i]
               /\ stage'[r] \in {"completing", "ended"} /\ sweep'[r] = 4 => row'[v] \notin InProgress
               /\ stage'[r] = "dead" /\ ~booting' => row'[v] \notin InProgress
    BY <2>1, <2>2, <2>4, <2>6, SweptAll DEF Swept
  <2> QED
    BY <2>5, <2>6 DEF Swept
<1> QED
  BY <1>1, <1>2, <1>3 DEF Process

-----------------------------------------------------------------------------
(* The invariant, and what it shows.                                       *)

LEMMA PipelineInit == Init => PipelineInv
<1> SUFFICES ASSUME Init PROVE PipelineInv
  OBVIOUS
<1>1. Types
  <2>1. Idle \in [step : JobSteps, utterance : Utterances \cup {Nobody}]
    BY DEF Idle, JobSteps
  <2>2. "none" \in Statuses /\ "unused" \in SessionStages /\ MaxAdminStarts \in Nat
    BY ConstantsAssumption DEF Statuses, SessionStages
  <2>3. live \in [Sessions -> BOOLEAN] /\ booting \in BOOLEAN
    BY DEF Init
  <2> QED
    BY <2>1, <2>2, <2>3 DEF Init, Types
<1>2. \A s \in Sessions, w \in Stages : queue[s][w] = <<>> /\ job[s][w] = Idle
  BY DEF Init
<1>3. Consistent
  BY <1>2 DEF Init, Consistent, Idle
<1>4. NoneTwice
  BY <1>2, StagesAre DEF NoneTwice, IsInjective
<1>5. ASSUME NEW u \in Utterances PROVE Placed(u)
  <2>1. \A s \in Sessions, w \in Realtime : ~Queued(s, w, u) /\ ~Worked(s, w, u)
    BY <1>2, StagesAre DEF Queued, Worked, Range, Idle
  <2>2. \A s \in Sessions : segment[s] # u
    BY StagesAre DEF Init
  <2> QED
    BY <2>1, <2>2 DEF Placed, Alone, Owned, Recorded
<1>6. ASSUME NEW u \in Utterances PROVE Swept(u)
  BY StagesAre DEF Init, Swept
<1> QED
  BY <1>1, <1>3, <1>4, <1>5, <1>6 DEF PipelineInv

LEMMA NextMoves ==
    ASSUME PipelineInv, Next
    PROVE  Everywhere' /\ NoneTwice'
<1> USE DEF PipelineInv
<1>1. Everywhere
  BY DEF Everywhere
<1>2. ASSUME NEW s \in Sessions, Session(s) PROVE Everywhere' /\ NoneTwice'
  BY <1>1, <1>2, SessionStays, SegmentStarts, SegmentEnds, SegmentQueued DEF Session
<1>3. ASSUME NEW s \in Sessions, Transcriber(s) \/ Translator(s) \/ Synthesizer(s) \/ Refiner(s)
      PROVE  Everywhere' /\ NoneTwice'
  BY <1>1, <1>3, TranscriberSteps, TranslatorSteps, SynthesizerSteps, RefinerStays
<1>4. CASE Process
  BY <1>1, <1>4, AllLost, ProcessStays DEF Process
<1> QED
  BY <1>2, <1>3, <1>4 DEF Next

LEMMA PipelineNext ==
    ASSUME PipelineInv, Next
    PROVE  PipelineInv'
<1>1. Everywhere /\ Types /\ Consistent /\ NoneTwice /\ \A v \in Utterances : Swept(v)
  BY DEF PipelineInv, Everywhere
<1>2. Everywhere' /\ NoneTwice'
  BY NextMoves
<1>3. Types' /\ Consistent'
  BY <1>1, SessionTypes, WorkerTypes, ProcessTypes DEF Next
<1>4. ASSUME NEW v \in Utterances PROVE Swept(v)'
  BY <1>1, WorkersLeaveSwept, SessionSweeps, ProcessSweeps DEF Next
<1> QED
  BY <1>2, <1>3, <1>4 DEF PipelineInv, Everywhere

LEMMA PipelineStutters ==
    ASSUME PipelineInv, UNCHANGED vars
    PROVE  PipelineInv'
BY DEF PipelineInv, vars, sessionVars, workerVars, databaseVars, processVars, Types, Consistent,
       NoneTwice, Placed, Alone, Owned, Recorded, Queued, Worked, Swept

LEMMA PipelineHolds == Spec => []PipelineInv
<1>1. PipelineInv /\ [Next]_vars => PipelineInv'
  BY PipelineNext, PipelineStutters
<1> QED
  BY <1>1, PipelineInit, PTL DEF Spec

(* No utterance is left in progress by a session that is over: its own     *)
(* sweep, or that of the public service's next start, has reached every    *)
(* row that one of its workers can have written, whichever statements of   *)
(* the database failed, and whatever the admin service's sweeps did.       *)
THEOREM NothingStaysInProgress == Spec => []NoRowLeftBehind
<1>1. PipelineInv => NoRowLeftBehind
  BY StagesAre DEF PipelineInv, Types, Swept, NoRowLeftBehind
<1> QED
  BY <1>1, PipelineHolds, PTL

\* A statement of a sweep is an interruption of the abstract life cycle.
LEMMA SweepInterrupts ==
    ASSUME Types, NEW k \in 1..3, NEW us \in SUBSET Utterances,
           row' = Interrupted(us, SweepOrder[k])
    PROVE  Lifecycle!Next
<1>1. PICK st \in InProgress : st = SweepOrder[k]
  BY SweptAll
<1>2. st \in Lifecycle!InProgress /\ Lifecycle!InterruptionOf[st] = InterruptionOf[st]
  BY <1>1 DEF InProgress, InterruptionOf, Lifecycle!InProgress, Lifecycle!InterruptionOf
<1>3. PICK some \in SUBSET {u \in Utterances : row[u] = st} :
         some = {u \in us : row[u] = st}
  OBVIOUS
<1>4. row' = [u \in Utterances |-> IF u \in some THEN Lifecycle!InterruptionOf[st] ELSE row[u]]
  BY <1>1, <1>2, <1>3 DEF Interrupted
<1>5. Lifecycle!Interrupt(st)
  BY <1>3, <1>4 DEF Lifecycle!Interrupt
<1> QED
  BY <1>2, <1>5 DEF Lifecycle!Next

LEMMA RowsFollow ==
    ASSUME MaxAdminStarts = 0, PipelineInv, Next
    PROVE  Lifecycle!Next \/ row' = row
<1>1. Everywhere /\ Types /\ Consistent /\ NoneTwice
  BY DEF PipelineInv, Everywhere
<1>2. ASSUME NEW s \in Sessions, Session(s) PROVE Lifecycle!Next \/ row' = row
  <2>1. CASE SweepSession(s)
    <3>1. PICK k \in 1..3 : k = sweep[s]
      BY <1>1, <2>1 DEF SweepSession, Consistent
    <3>2. row' = row \/ row' = Interrupted(Of(s), SweepOrder[k])
      BY <2>1, <3>1 DEF SweepSession
    <3> QED
      BY <1>1, <3>2, SweepInterrupts DEF Of
  <2>2. CASE ~SweepSession(s)
    BY <1>2, <2>2 DEF Session, OpenSession, ConfigureFails, StartSegment, BeginLive, DiscardSegment,
         FinishLive, CloseInput, WorkersDone, CompleteSession, databaseVars
  <2> QED
    BY <2>1, <2>2
<1>3. ASSUME NEW s \in Sessions, Transcriber(s) \/ Translator(s) \/ Synthesizer(s) \/ Refiner(s)
      PROVE  Lifecycle!Next \/ row' = row
  <2>1. RowStep(s)
    BY <1>1, <1>3, TranscriberSteps, TranslatorSteps, SynthesizerSteps, WorkersTouch DEF RowStep
  <2>2. row' = row \/ \E u \in Utterances : Lifecycle!Advance(u) \/ Lifecycle!Fail(u)
    BY <2>1 DEF RowStep, Progresses
  <2> QED
    BY <2>2 DEF Lifecycle!Next
<1>4. CASE Crash \/ StartAdmin
  BY <1>4 DEF Crash, StartAdmin, databaseVars
<1>5. CASE Recover
  <2>1. row' = row \/ \E k \in 1..3 : row' = Interrupted(Utterances, SweepOrder[k])
    BY <1>1, <1>5 DEF Recover, Types
  <2> QED
    BY <1>1, <2>1, SweepInterrupts
<1> QED
  BY <1>2, <1>3, <1>4, <1>5 DEF Next, Process

(* The pipelines implement the history's life cycle: their statements look *)
(* at no earlier status, yet no row goes back, skips a stage or leaves an  *)
(* outcome, crashes and lost replies included, as long as no admin service *)
(* starts beside the public one.                                           *)
THEOREM PipelinesImplementLifecycle ==
    ASSUME MaxAdminStarts = 0
    PROVE  Spec => FollowsLifecycle
<1>1. Init => Lifecycle!Init
  BY DEF Init, Lifecycle!Init
<1>2. PipelineInv /\ [Next]_vars => [Lifecycle!Next]_row
  BY RowsFollow DEF vars, databaseVars
<1> QED
  BY <1>1, <1>2, PipelineHolds, PTL DEF Spec, FollowsLifecycle, Lifecycle!Spec

-----------------------------------------------------------------------------
(* What the room was told.  As long as every statement of the database     *)
(* succeeds, the row of an utterance that is in no place says it.          *)

Verdicts == {"none", "discarded", "completed"} \cup {FailureOf[w] : w \in DOMAIN FailureOf}

Outcome(u) == IF verdict[u] = "discarded" THEN "none" ELSE verdict[u]

Unplaced(s, u) ==
    segment[s] # u /\ \A w \in Realtime : ~Queued(s, w, u) /\ ~Worked(s, w, u)

\* A job has its row before it can fail, and its outcome before it is told.
JobTold(w, step, status) ==
    /\ (w = "transcription" /\ step = "work") \/ status # "none"
    /\ step = "spoken" => status = "completed"

Told(u) ==
    faults = 0 =>
        \A s \in Sessions :
            /\ segment[s] = u => row[u] = "none"
            /\ \A w \in Realtime :
                  /\ Queued(s, w, u) /\ w # "transcription" => row[u] # "none"
                  /\ Worked(s, w, u) => JobTold(w, job[s][w].step, row[u])
            /\ owner[u] = s /\ stage[s] # "dead" /\ Unplaced(s, u) => row[u] = Outcome(u)

Everyone == \A u \in Utterances : Told(u)

\* A worker that rests holds nobody's job.
Rested == \A s \in Sessions, w \in Realtime :
             job[s][w].step = "idle" => job[s][w].utterance = Nobody

RoomTold == /\ faults \in Nat /\ verdict \in [Utterances -> Verdicts]
            /\ Rested /\ Everyone

LEMMA VerdictsAre ==
    /\ \A x \in Verdicts : x \notin InProgress
    /\ {"none", "discarded", "completed"} \subseteq Verdicts
    /\ \A w \in Realtime : FailureOf[w] \in Verdicts \ {"none", "discarded"}
BY DEF Verdicts, FailureOf, InProgress, InterruptionOf, Realtime

LEMMA FaultCounts == ASSUME RoomTold, Fault PROVE faults' \in Nat /\ faults' # 0
BY DEF RoomTold, Fault

\* Nothing happens to v, but that a sweep may interrupt it.
LEMMA NothingNew ==
    ASSUME RoomTold, NEW v \in Utterances,
           \A r \in Sessions, w \in Realtime :
              /\ Queued(r, w, v)' <=> Queued(r, w, v)
              /\ Worked(r, w, v)' <=> Worked(r, w, v)
              /\ Worked(r, w, v) => job'[r][w].step = job[r][w].step,
           \A r \in Sessions : segment'[r] = v <=> segment[r] = v,
           \A r \in Sessions : owner[v] = r /\ stage'[r] # "dead" => stage[r] # "dead",
           owner'[v] = owner[v], verdict'[v] = verdict[v], faults' = 0 => faults = 0,
           row'[v] = row[v] \/ (row[v] \in InProgress /\ row'[v] # "none")
    PROVE  Told(v)'
<1>1. /\ Told(v) /\ verdict[v] \in Verdicts /\ Outcome(v)' = Outcome(v)
      /\ Outcome(v) \notin InProgress /\ "none" \notin InProgress /\ "completed" \notin InProgress
  BY VerdictsAre DEF RoomTold, Everyone, Outcome
<1>2. \A r \in Sessions : Unplaced(r, v)' <=> Unplaced(r, v)
  BY DEF Unplaced
<1>3. SUFFICES ASSUME faults' = 0, NEW s \in Sessions
      PROVE  /\ segment'[s] = v => row'[v] = "none"
             /\ \A w \in Realtime :
                   /\ Queued(s, w, v)' /\ w # "transcription" => row'[v] # "none"
                   /\ Worked(s, w, v)' => JobTold(w, job'[s][w].step, row'[v])
             /\ owner'[v] = s /\ stage'[s] # "dead" /\ Unplaced(s, v)' => row'[v] = Outcome(v)'
  BY Zenon DEF Told
<1>4. /\ segment[s] = v => row[v] = "none"
      /\ \A w \in Realtime :
            /\ Queued(s, w, v) /\ w # "transcription" => row[v] # "none"
            /\ Worked(s, w, v) => JobTold(w, job[s][w].step, row[v])
      /\ owner[v] = s /\ stage[s] # "dead" /\ Unplaced(s, v) => row[v] = Outcome(v)
  BY <1>1, <1>3 DEF Told
<1>5. \A w \in Realtime : Worked(s, w, v)' => JobTold(w, job'[s][w].step, row'[v])
  BY <1>1, <1>4 DEF JobTold
<1> QED
  BY <1>1, <1>2, <1>4, <1>5

\* After a step u is in one place only.
LEMMA ToldAtWork ==
    ASSUME NEW u \in Utterances, Placed(u)', NEW s \in Sessions, NEW w \in Realtime,
           Worked(s, w, u)', faults' = 0 => JobTold(w, job'[s][w].step, row'[u])
    PROVE  Told(u)'
<1>1. /\ \A r \in Sessions, v \in Realtime : ~Queued(r, v, u)'
      /\ \A r \in Sessions, v \in Realtime : Worked(r, v, u)' => r = s /\ v = w
      /\ \A r \in Sessions : segment'[r] # u
      /\ owner'[u] = s
  BY DEF Placed, Alone, Owned
<1> QED
  BY <1>1 DEF Told, Unplaced

LEMMA ToldInQueue ==
    ASSUME NEW u \in Utterances, Placed(u)', NEW s \in Sessions, NEW w \in Realtime,
           Queued(s, w, u)', faults' = 0 => w = "transcription" \/ row'[u] # "none"
    PROVE  Told(u)'
<1>1. /\ \A r \in Sessions, v \in Realtime : ~Worked(r, v, u)'
      /\ \A r \in Sessions, v \in Realtime : Queued(r, v, u)' => r = s /\ v = w
      /\ \A r \in Sessions : segment'[r] # u
      /\ owner'[u] = s
  BY DEF Placed, Alone, Owned
<1> QED
  BY <1>1 DEF Told, Unplaced

LEMMA ToldAtTheEnd ==
    ASSUME NEW u \in Utterances,
           \A r \in Sessions, v \in Realtime : ~Queued(r, v, u)' /\ ~Worked(r, v, u)',
           \A r \in Sessions : segment'[r] # u,
           faults' = 0 => row'[u] = Outcome(u)'
    PROVE  Told(u)'
BY DEF Told

\* A worker goes on with its job.
LEMMA StepTold ==
    ASSUME Types, RoomTold, Everywhere', NEW s \in Sessions, NEW w \in Realtime,
           NEW step \in JobSteps, NEW u \in Utterances, Worked(s, w, u), Goto(s, w, step),
           step # "idle", SameQueues, UNCHANGED <<segment, owner, stage, verdict>>,
           \A v \in Utterances \ {u} : row'[v] = row[v],
           faults' = 0 => faults = 0 /\ JobTold(w, step, row'[u])
    PROVE  Everyone' /\ Rested'
<1>1. /\ job'[s][w].step = step /\ job'[s][w].utterance = u
      /\ \A r \in Sessions, v \in Realtime : r # s \/ v # w => job'[r][v] = job[r][v]
  BY GotoFacts, StagesAre DEF Worked
<1>2. Told(u)'
  <2>1. Placed(u)' /\ Worked(s, w, u)'
    BY <1>1 DEF Everywhere, Worked
  <2> QED
    BY <1>1, <2>1, ToldAtWork
<1>3. ASSUME NEW v \in Utterances \ {u} PROVE Told(v)'
  <2>1. \A r \in Sessions, x \in Realtime :
           /\ Queued(r, x, v)' <=> Queued(r, x, v)
           /\ Worked(r, x, v)' <=> Worked(r, x, v)
           /\ Worked(r, x, v) => job'[r][x].step = job[r][x].step
    BY <1>1 DEF SameQueues, Queued, Worked
  <2> QED
    BY <2>1, NothingNew
<1>4. Rested'
  BY <1>1 DEF RoomTold, Rested
<1> QED
  BY <1>2, <1>3, <1>4 DEF Everyone

\* It is done with its job.
LEMMA EndTold ==
    ASSUME Types, RoomTold, Everywhere, NEW s \in Sessions, NEW w \in Realtime,
           NEW u \in Utterances, Worked(s, w, u), Rest(s, w),
           SameQueues, UNCHANGED <<segment, owner, stage>>,
           \A v \in Utterances \ {u} : row'[v] = row[v] /\ verdict'[v] = verdict[v],
           faults' = 0 => faults = 0 /\ row'[u] = Outcome(u)'
    PROVE  Everyone' /\ Rested'
<1>1. /\ job'[s][w].utterance = Nobody /\ u # Nobody
      /\ \A r \in Sessions, v \in Realtime : r # s \/ v # w => job'[r][v] = job[r][v]
  BY RestFacts, StagesAre
<1>2. Told(u)'
  <2>1. /\ \A r \in Sessions, v \in Realtime : ~Queued(r, v, u)' /\ ~Worked(r, v, u)'
        /\ \A r \in Sessions : segment'[r] # u
    BY <1>1, WorkedAlone DEF Everywhere, SameQueues, Queued, Worked
  <2> QED
    BY <2>1, ToldAtTheEnd
<1>3. ASSUME NEW v \in Utterances \ {u} PROVE Told(v)'
  <2>1. \A r \in Sessions, x \in Realtime :
           /\ Queued(r, x, v)' <=> Queued(r, x, v)
           /\ Worked(r, x, v)' <=> Worked(r, x, v)
           /\ Worked(r, x, v) => job'[r][x].step = job[r][x].step
    BY <1>1, StagesAre DEF SameQueues, Queued, Worked
  <2> QED
    BY <2>1, NothingNew
<1>4. Rested'
  BY <1>1 DEF RoomTold, Rested
<1> QED
  BY <1>2, <1>3, <1>4 DEF Everyone

\* What a queue loses is its head.
LEMMA HeadTaken ==
    ASSUME Types, NEW s \in Sessions, NEW w \in Stages, Take(s, w)
    PROVE  Range(queue[s][w]) \subseteq Range(queue'[s][w]) \cup {Head(queue[s][w])}
<1>1. queue[s] \in [Stages -> Seq(Utterances)]
  BY DEF Types
<1>2. PICK q \in Seq(Utterances) : q = queue[s][w] /\ q # <<>>
  BY <1>1 DEF Take
<1>3. PICK rest \in Seq(Utterances) : rest = Tail(q)
  <2>1. Tail(q) \in Seq(Utterances)
    BY <1>2
  <2> QED
    BY <2>1
<1>4. queue' = [queue EXCEPT ![s] = [queue[s] EXCEPT ![w] = rest]]
  BY <1>1, <1>2, <1>3, Zenon DEF Take, Types
<1>5. queue'[s] = [queue[s] EXCEPT ![w] = rest]
  BY <1>4 DEF Types
<1>6. queue'[s][w] = rest
  BY <1>1, <1>5
<1>7. \A i \in DOMAIN q : i = 1 \/ (i - 1 \in DOMAIN rest /\ rest[i - 1] = q[i])
  BY <1>2, <1>3
<1>8. Head(q) = q[1]
  BY <1>2
<1> QED
  BY <1>2, <1>6, <1>7, <1>8 DEF Range

LEMMA TakeTold ==
    ASSUME Types, RoomTold, Everywhere', NEW s \in Sessions, NEW w \in Realtime, Take(s, w)
    PROVE  Everyone' /\ Rested'
<1>1. UNCHANGED <<segment, owner, stage, row, verdict, faults>> /\ w \in Stages
  BY StagesAre DEF Take, sessionVars, databaseVars, roomVars
<1>2. PICK u : u = Head(queue[s][w])
  OBVIOUS
<1>3. u \in Utterances /\ Queued(s, w, u)
  <2>1. u \in Utterances /\ u \in Range(queue[s][w])
    BY <1>1, <1>2, TakeFacts
  <2> QED
    BY <2>1 DEF Queued
<1>4. \A r \in Sessions, v \in Stages : r # s \/ v # w => queue'[r][v] = queue[r][v]
  BY <1>1, <1>2, TakeFacts
<1>5. /\ job'[s][w].step = "work" /\ job'[s][w].utterance = u
      /\ \A r \in Sessions, v \in Stages : r # s \/ v # w => job'[r][v] = job[r][v]
  BY <1>1, <1>2, TakeFacts
<1>6. /\ Range(queue'[s][w]) \subseteq Range(queue[s][w])
      /\ Range(queue[s][w]) \subseteq Range(queue'[s][w]) \cup {u}
  <2>1. Range(queue'[s][w]) \subseteq Range(queue[s][w])
    BY <1>1, <1>2, TakeFacts
  <2> QED
    BY <1>1, <1>2, <2>1, HeadTaken
<1>7. job[s][w].utterance = Nobody /\ u # Nobody
  BY <1>3, StagesAre DEF Take, At, RoomTold, Rested
<1>8. Told(u)'
  <2>1. Placed(u)' /\ Worked(s, w, u)'
    BY <1>3, <1>5 DEF Everywhere, Worked
  <2>2. faults = 0 => w = "transcription" \/ row[u] # "none"
    BY <1>3 DEF RoomTold, Everyone, Told
  <2>3. faults' = 0 => JobTold(w, job'[s][w].step, row'[u])
    BY <1>1, <1>5, <2>2 DEF JobTold
  <2> QED
    BY <1>3, <2>1, <2>3, ToldAtWork
<1>9. ASSUME NEW v \in Utterances \ {u} PROVE Told(v)'
  <2>1. \A r \in Sessions, x \in Realtime :
           /\ Queued(r, x, v)' <=> Queued(r, x, v)
           /\ Worked(r, x, v)' <=> Worked(r, x, v)
           /\ Worked(r, x, v) => job'[r][x].step = job[r][x].step
    BY <1>4, <1>5, <1>6, <1>7, StagesAre DEF Queued, Worked
  <2> QED
    BY <1>1, <2>1, NothingNew
<1>10. Rested'
  BY <1>5, StagesAre DEF RoomTold, Rested
<1> QED
  BY <1>3, <1>8, <1>9, <1>10 DEF Everyone

LEMMA HandOverTold ==
    ASSUME Types, Consistent, RoomTold, Everywhere, Everywhere', NEW s \in Sessions,
           NEW w \in {"transcription", "translation"}, HandOver(s, w)
    PROVE  Everyone' /\ Rested'
<1> DEFINE n == NextStage[w]
<1>1. /\ UNCHANGED <<segment, owner, stage, row, verdict, faults>>
      /\ n \in Realtime /\ n \in Stages /\ w \in Realtime /\ w \in Stages
  BY StagesAre DEF HandOver, sessionVars, databaseVars, roomVars
<1>2. job[s][w].step = "handover"
  BY DEF HandOver, At
<1>3. PICK u \in Utterances : u = Current(s, w) /\ Worked(s, w, u)
  BY <1>1, <1>2, TheJob
<1>4. Push(s, n, u) /\ Rest(s, w) /\ u # Nobody
  BY <1>3, StagesAre DEF HandOver
<1> HIDE DEF n
<1>5. Range(queue'[s][n]) = Range(queue[s][n]) \cup {u}
  BY <1>1, <1>4, PushFacts
<1>6. \A r \in Sessions, v \in Stages : r # s \/ v # n => queue'[r][v] = queue[r][v]
  BY <1>1, <1>4, PushFacts
<1>7. /\ job'[s][w].utterance = Nobody
      /\ \A r \in Sessions, v \in Stages : r # s \/ v # w => job'[r][v] = job[r][v]
  BY <1>1, <1>4, RestFacts
<1>8. Told(u)'
  <2>1. faults = 0 => row[u] # "none"
    BY <1>1, <1>2, <1>3 DEF RoomTold, Everyone, Told, JobTold
  <2>2. Placed(u)' /\ Queued(s, n, u)'
    BY <1>5 DEF Everywhere, Queued
  <2> QED
    BY <1>1, <2>1, <2>2, ToldInQueue
<1>9. ASSUME NEW v \in Utterances \ {u} PROVE Told(v)'
  <2>1. \A r \in Sessions, x \in Realtime :
           /\ Queued(r, x, v)' <=> Queued(r, x, v)
           /\ Worked(r, x, v)' <=> Worked(r, x, v)
           /\ Worked(r, x, v) => job'[r][x].step = job[r][x].step
    BY <1>3, <1>5, <1>6, <1>7, StagesAre DEF Queued, Worked
  <2> QED
    BY <1>1, <2>1, NothingNew
<1>10. Rested'
  BY <1>7, StagesAre DEF RoomTold, Rested
<1> QED
  BY <1>3, <1>8, <1>9, <1>10 DEF Everyone

\* A worker stores a result, or fails; only the last one completes the row.
LEMMA ResultTold ==
    ASSUME Types, Consistent, RoomTold, Everywhere, Everywhere', NEW s \in Sessions,
           NEW w \in Realtime, NEW status \in Statuses \ {"none"}, NEW step \in JobSteps \ {"idle"},
           job[s][w].step # "idle", ~(w = "transcription" /\ job[s][w].step = "work"),
           StoreResult(s, w, status, step) \/ EngineFails(s, w),
           step = "spoken" => status = "completed",
           queue' = queue, UNCHANGED <<segment, owner, stage, verdict>>
    PROVE  Everyone' /\ Rested' /\ faults' \in Nat
<1>1. PICK u \in Utterances : u = Current(s, w) /\ Worked(s, w, u)
  BY TheJob
<1>2. faults = 0 => row[u] # "none"
  BY <1>1 DEF RoomTold, Everyone, Told, JobTold
<1>3. SameQueues /\ "failed" \in JobSteps \ {"idle"} /\ faults \in Nat
  BY DEF SameQueues, JobSteps, RoomTold
<1>4. CASE Save(u, status) /\ Goto(s, w, step) /\ UNCHANGED faults
  <2>1. /\ \A v \in Utterances \ {u} : row'[v] = row[v]
        /\ row[u] # "none" => row'[u] = status
    BY <1>4 DEF Save, Types
  <2>2. faults' = 0 => faults = 0 /\ JobTold(w, step, row'[u])
    BY <1>2, <1>4, <2>1 DEF JobTold
  <2> QED
    BY <1>1, <1>3, <1>4, <2>1, <2>2, StepTold
<1>5. CASE Fault /\ (Save(u, status) \/ UNCHANGED row) /\ Goto(s, w, "failed")
  <2>1. \A v \in Utterances \ {u} : row'[v] = row[v]
    BY <1>5 DEF Save, Types
  <2>2. faults' \in Nat /\ faults' # 0
    BY <1>5, FaultCounts
  <2> QED
    BY <1>1, <1>3, <1>5, <2>1, <2>2, StepTold
<1>6. CASE EngineFails(s, w)
  <2>1. Goto(s, w, "failed") /\ UNCHANGED <<row, faults>>
    BY <1>6 DEF EngineFails
  <2>2. faults' = 0 => faults = 0 /\ JobTold(w, "failed", row'[u])
    BY <1>2, <2>1 DEF JobTold
  <2> QED
    BY <1>1, <1>3, <2>1, <2>2, StepTold
<1> QED
  BY <1>1, <1>4, <1>5, <1>6 DEF StoreResult

\* A worker goes on, the row as it is.
LEMMA GoesOnTold ==
    ASSUME Types, Consistent, RoomTold, Everywhere, Everywhere', NEW s \in Sessions,
           NEW w \in Realtime, NEW step \in JobSteps \ {"idle", "spoken"}, job[s][w].step # "idle",
           ~(w = "transcription" /\ job[s][w].step = "work"),
           Goto(s, w, step), SameQueues, UNCHANGED <<segment, owner, stage, row, verdict, faults>>
    PROVE  Everyone' /\ Rested' /\ faults' \in Nat
<1>1. PICK u \in Utterances : u = Current(s, w) /\ Worked(s, w, u)
  BY TheJob
<1>2. faults = 0 => row[u] # "none"
  BY <1>1 DEF RoomTold, Everyone, Told, JobTold
<1>3. faults' = 0 => faults = 0 /\ JobTold(w, step, row'[u])
  BY <1>2 DEF JobTold
<1> QED
  BY <1>1, <1>3, StepTold DEF RoomTold

LEMMA CreationTold ==
    ASSUME Types, Consistent, RoomTold, Everywhere, Everywhere', NEW s \in Sessions, CreateRow(s)
    PROVE  Everyone' /\ Rested' /\ faults' \in Nat
<1> DEFINE w == "transcription"
<1>1. /\ w \in Realtime /\ {"recognize", "failed"} \subseteq JobSteps \ {"idle"}
      /\ job[s][w].step = "work" /\ SameQueues /\ UNCHANGED <<segment, owner, stage, verdict>>
  BY DEF CreateRow, At, Realtime, JobSteps, SameQueues, sessionVars, roomVars
<1>2. PICK u \in Utterances : u = Current(s, w) /\ Worked(s, w, u)
  BY <1>1, TheJob
<1> DEFINE created == [row EXCEPT ![u] = "recognizing"]
<1>3. \/ row' = created /\ Goto(s, w, "recognize") /\ UNCHANGED faults
      \/ Fault /\ row' \in {row, created} /\ Goto(s, w, "failed")
  BY <1>2 DEF CreateRow
<1>4. created[u] = "recognizing" /\ \A v \in Utterances \ {u} : created[v] = row[v]
  BY <1>2 DEF Types
<1> HIDE DEF created
<1>5. CASE row' = created /\ Goto(s, w, "recognize") /\ UNCHANGED faults
  <2>1. faults' = 0 => faults = 0 /\ JobTold(w, "recognize", row'[u])
    BY <1>4, <1>5 DEF JobTold
  <2> QED
    BY <1>1, <1>2, <1>4, <1>5, <2>1, StepTold DEF RoomTold
<1>6. CASE Fault /\ row' \in {row, created} /\ Goto(s, w, "failed")
  <2>1. faults' \in Nat /\ faults' # 0 /\ \A v \in Utterances \ {u} : row'[v] = row[v]
    BY <1>4, <1>6, FaultCounts
  <2> QED
    BY <1>1, <1>2, <1>6, <2>1, StepTold
<1> QED
  BY <1>3, <1>5, <1>6

LEMMA FailureTold ==
    ASSUME Types, Consistent, RoomTold, Everywhere, NEW s \in Sessions, NEW w \in Realtime,
           FailJob(s, w)
    PROVE  Everyone' /\ Rested' /\ faults' \in Nat /\ verdict' \in [Utterances -> Verdicts]
<1>1. job[s][w].step = "failed" /\ Rest(s, w) /\ SameQueues /\ UNCHANGED <<segment, owner, stage>>
  BY DEF FailJob, At, SameQueues, sessionVars
<1>2. PICK u \in Utterances : u = Current(s, w) /\ Worked(s, w, u)
  BY <1>1, TheJob
<1>3. PICK failure \in Verdicts \ {"none", "discarded"} : failure = FailureOf[w]
  BY VerdictsAre
<1>4. faults = 0 => row[u] # "none"
  BY <1>1, <1>2 DEF RoomTold, Everyone, Told, JobTold
<1>5. /\ verdict' = [verdict EXCEPT ![u] = failure]
      /\ \/ Save(u, failure) /\ UNCHANGED faults
         \/ Fault /\ (Save(u, failure) \/ UNCHANGED row)
  BY <1>2, <1>3 DEF FailJob
<1>6. /\ verdict' \in [Utterances -> Verdicts] /\ verdict'[u] = failure
      /\ \A v \in Utterances \ {u} : verdict'[v] = verdict[v]
  BY <1>5 DEF RoomTold
<1>7. Outcome(u)' = failure
  BY <1>6 DEF Outcome
<1>8. \A v \in Utterances \ {u} : row'[v] = row[v]
  BY <1>5 DEF Save, Types
<1>9. CASE Save(u, failure) /\ UNCHANGED faults
  <2>1. faults' = 0 => faults = 0 /\ row'[u] = Outcome(u)'
    BY <1>4, <1>7, <1>9 DEF Save, Types
  <2> QED
    BY <1>1, <1>2, <1>6, <1>8, <1>9, <2>1, EndTold DEF RoomTold
<1>10. CASE Fault /\ (Save(u, failure) \/ UNCHANGED row)
  <2>1. faults' \in Nat /\ faults' # 0
    BY <1>10, FaultCounts
  <2> QED
    BY <1>1, <1>2, <1>6, <1>8, <2>1, EndTold
<1> QED
  BY <1>5, <1>9, <1>10

LEMMA MediaTold ==
    ASSUME Types, Consistent, RoomTold, Everywhere, NEW s \in Sessions, PublishMedia(s)
    PROVE  Everyone' /\ Rested' /\ faults' \in Nat /\ verdict' \in [Utterances -> Verdicts]
<1> DEFINE w == "synthesis"
<1>1. /\ job[s][w].step = "spoken" /\ Rest(s, w) /\ SameQueues /\ w \in Realtime
      /\ UNCHANGED <<segment, owner, stage, row, faults>>
  BY DEF PublishMedia, At, SameQueues, sessionVars, databaseVars, Realtime
<1>2. PICK u \in Utterances : u = Current(s, w) /\ Worked(s, w, u)
  BY <1>1, TheJob
<1>3. faults = 0 => row[u] = "completed"
  BY <1>1, <1>2 DEF RoomTold, Everyone, Told, JobTold
<1>4. verdict' = [verdict EXCEPT ![u] = "completed"]
  BY <1>2 DEF PublishMedia
<1>5. /\ verdict' \in [Utterances -> Verdicts] /\ verdict'[u] = "completed"
      /\ \A v \in Utterances \ {u} : verdict'[v] = verdict[v]
  BY <1>4, VerdictsAre DEF RoomTold
<1>6. faults' = 0 => faults = 0 /\ row'[u] = Outcome(u)'
  BY <1>1, <1>3, <1>5 DEF Outcome
<1> QED
  BY <1>1, <1>2, <1>5, <1>6, EndTold DEF RoomTold

LEMMA TranscriberTold ==
    ASSUME Types, Consistent, RoomTold, Everywhere, Everywhere', NEW s \in Sessions, Transcriber(s)
    PROVE  RoomTold'
<1> DEFINE w == "transcription"
<1>1. /\ w \in Realtime /\ w \in {"transcription", "translation"}
      /\ "offer" \in JobSteps \ {"idle"} /\ "handover" \in JobSteps \ {"idle", "spoken"}
      /\ "translating" \in Statuses \ {"none"}
  BY StatusesAre DEF Realtime, JobSteps
<1>2. CASE Take(s, w)
  <2>1. faults' = faults /\ verdict' = verdict
    BY <1>2 DEF Take, roomVars
  <2> QED
    BY <1>1, <1>2, <2>1, TakeTold DEF RoomTold
<1>3. CASE CreateRow(s)
  <2>1. verdict' = verdict
    BY <1>3 DEF CreateRow, roomVars
  <2> QED
    BY <1>3, <2>1, CreationTold DEF RoomTold
<1>4. CASE Recognize(s)
  <2>1. /\ job[s][w].step = "recognize" /\ queue' = queue
        /\ UNCHANGED <<segment, owner, stage, verdict>>
        /\ StoreResult(s, w, "translating", "offer") \/ EngineFails(s, w)
    BY <1>4 DEF Recognize, At, sessionVars, roomVars
  <2> QED
    BY <1>1, <2>1, ResultTold DEF RoomTold
<1>5. CASE OfferRefinement(s)
  <2>1. /\ job[s][w].step = "offer" /\ Goto(s, w, "handover")
        /\ UNCHANGED <<segment, owner, stage, row, verdict, faults>>
        /\ Push(s, "refinement", Current(s, w)) \/ queue' = queue
    BY <1>5 DEF OfferRefinement, At, sessionVars, databaseVars, roomVars
  <2>2. Current(s, w) \in Utterances
    BY <1>1, <2>1, TheJob
  <2>3. SameQueues
    <3>1. CASE Push(s, "refinement", Current(s, w))
      <4>1. \A r \in Sessions, v \in Stages : r # s \/ v # "refinement" => queue'[r][v] = queue[r][v]
        BY <2>2, <3>1, PushFacts, StagesAre
      <4> QED
        BY <4>1, StagesAre DEF SameQueues, Realtime
    <3>2. CASE queue' = queue
      BY <3>2 DEF SameQueues
    <3> QED
      BY <2>1, <3>1, <3>2
  <2> QED
    BY <1>1, <2>1, <2>3, GoesOnTold DEF RoomTold
<1>6. CASE HandOver(s, w)
  <2>1. faults' = faults /\ verdict' = verdict
    BY <1>6 DEF HandOver, roomVars
  <2> QED
    BY <1>1, <1>6, <2>1, HandOverTold DEF RoomTold
<1>7. CASE FailJob(s, w)
  BY <1>1, <1>7, FailureTold DEF RoomTold
<1> QED
  BY <1>2, <1>3, <1>4, <1>5, <1>6, <1>7 DEF Transcriber

LEMMA TranslatorTold ==
    ASSUME Types, Consistent, RoomTold, Everywhere, Everywhere', NEW s \in Sessions, Translator(s)
    PROVE  RoomTold'
<1> DEFINE w == "translation"
<1>1. /\ w \in Realtime /\ w \in {"transcription", "translation"} /\ w # "transcription"
      /\ "handover" \in JobSteps \ {"idle"} /\ "text_ready" \in Statuses \ {"none"}
  BY StatusesAre DEF Realtime, JobSteps
<1>2. CASE Take(s, w)
  <2>1. faults' = faults /\ verdict' = verdict
    BY <1>2 DEF Take, roomVars
  <2> QED
    BY <1>1, <1>2, <2>1, TakeTold DEF RoomTold
<1>3. CASE Translate(s)
  <2>1. /\ job[s][w].step = "work" /\ queue' = queue
        /\ UNCHANGED <<segment, owner, stage, verdict>>
        /\ StoreResult(s, w, "text_ready", "handover") \/ EngineFails(s, w)
    BY <1>3 DEF Translate, At, sessionVars, roomVars
  <2> QED
    BY <1>1, <2>1, ResultTold DEF RoomTold
<1>4. CASE HandOver(s, w)
  <2>1. faults' = faults /\ verdict' = verdict
    BY <1>4 DEF HandOver, roomVars
  <2> QED
    BY <1>1, <1>4, <2>1, HandOverTold DEF RoomTold
<1>5. CASE FailJob(s, w)
  BY <1>1, <1>5, FailureTold DEF RoomTold
<1> QED
  BY <1>2, <1>3, <1>4, <1>5 DEF Translator

LEMMA SynthesizerTold ==
    ASSUME Types, Consistent, RoomTold, Everywhere, Everywhere', NEW s \in Sessions, Synthesizer(s)
    PROVE  RoomTold'
<1> DEFINE w == "synthesis"
<1>1. /\ w \in Realtime /\ w # "transcription" /\ "spoken" \in JobSteps \ {"idle"}
      /\ {"stream", "store", "failed"} \subseteq JobSteps \ {"idle", "spoken"}
      /\ "completed" \in Statuses \ {"none"}
  BY StatusesAre DEF Realtime, JobSteps
<1>2. CASE Take(s, w)
  <2>1. faults' = faults /\ verdict' = verdict
    BY <1>2 DEF Take, roomVars
  <2> QED
    BY <1>1, <1>2, <2>1, TakeTold DEF RoomTold
<1>3. CASE StartStream(s) \/ EndStream(s) \/ SynthesisFails(s)
  <2>1. /\ job[s][w].step \in {"work", "stream", "store"} /\ SameQueues
        /\ UNCHANGED <<segment, owner, stage, row, verdict, faults>>
        /\ \E step \in {"stream", "store", "failed"} : Goto(s, w, step)
    BY <1>3 DEF StartStream, EndStream, SynthesisFails, EngineFails, At, sessionVars,
                databaseVars, roomVars, SameQueues
  <2>2. PICK step \in {"stream", "store", "failed"} : Goto(s, w, step)
    BY <2>1
  <2> QED
    BY <1>1, <2>1, <2>2, GoesOnTold DEF RoomTold
<1>4. CASE StoreAudio(s)
  <2>1. /\ job[s][w].step = "store" /\ queue' = queue
        /\ UNCHANGED <<segment, owner, stage, verdict>>
        /\ StoreResult(s, w, "completed", "spoken")
    BY <1>4 DEF StoreAudio, At, sessionVars, roomVars
  <2> QED
    BY <1>1, <2>1, ResultTold DEF RoomTold
<1>5. CASE PublishMedia(s)
  BY <1>5, MediaTold DEF RoomTold
<1>6. CASE FailJob(s, w)
  BY <1>1, <1>6, FailureTold DEF RoomTold
<1> QED
  BY <1>2, <1>3, <1>4, <1>5, <1>6 DEF Synthesizer

LEMMA RefinerTold ==
    ASSUME Types, Consistent, RoomTold, Everywhere, NEW s \in Sessions, Refiner(s)
    PROVE  RoomTold'
<1>1. /\ UNCHANGED <<segment, stage, owner, row, verdict>> /\ "refinement" \notin Realtime
      /\ "refinement" \in Stages /\ "refine" \in JobSteps
  BY DEF Refiner, Take, StartRefinement, FinishRefinement, sessionVars, databaseVars, roomVars,
         Realtime, Stages, JobSteps
<1>2. faults' \in Nat /\ (faults' = 0 => faults = 0)
  BY DEF Refiner, Take, StartRefinement, FinishRefinement, Fault, RoomTold
<1>3. \A r \in Sessions, w \in Realtime : queue'[r][w] = queue[r][w]
  <2>1. CASE Take(s, "refinement")
    <3>1. PICK u : u = Head(queue[s]["refinement"])
      OBVIOUS
    <3>2. \A r \in Sessions, w \in Stages :
             r # s \/ w # "refinement" => queue'[r][w] = queue[r][w]
      BY <1>1, <2>1, <3>1, TakeFacts
    <3> QED
      BY <1>1, <3>2, StagesAre
  <2>2. CASE StartRefinement(s) \/ FinishRefinement(s)
    BY <2>2 DEF StartRefinement, FinishRefinement
  <2> QED
    BY <2>1, <2>2 DEF Refiner
<1>4. \A r \in Sessions, w \in Realtime : job'[r][w] = job[r][w]
  <2>1. \A r \in Sessions, w \in Stages : r # s \/ w # "refinement" => job'[r][w] = job[r][w]
    <3>1. CASE Take(s, "refinement")
      <4>1. PICK u : u = Head(queue[s]["refinement"])
        OBVIOUS
      <4> QED
        BY <1>1, <3>1, <4>1, TakeFacts
    <3>2. CASE Goto(s, "refinement", "refine")
      BY <1>1, <3>2, GotoFacts
    <3>3. CASE Rest(s, "refinement")
      BY <1>1, <3>3, RestFacts
    <3> QED
      BY <3>1, <3>2, <3>3 DEF Refiner, StartRefinement, FinishRefinement
  <2> QED
    BY <1>1, <2>1, StagesAre
<1>5. ASSUME NEW v \in Utterances PROVE Told(v)'
  BY <1>1, <1>2, <1>3, <1>4, NothingNew DEF Queued, Worked
<1>6. Rested'
  BY <1>4 DEF RoomTold, Rested
<1> QED
  BY <1>1, <1>2, <1>5, <1>6 DEF RoomTold, Everyone

-----------------------------------------------------------------------------
(* The session loop and the processes.                                     *)

\* A statement of a sweep changes rows that are in progress.
LEMMA SweptRow ==
    ASSUME Types, NEW k \in 1..3, NEW us \in SUBSET Utterances, NEW v \in Utterances,
           row' = Interrupted(us, SweepOrder[k])
    PROVE  row'[v] = row[v] \/ (row[v] \in InProgress /\ row'[v] # "none")
<1>1. PICK st \in InProgress : st = SweepOrder[k]
  BY SweptAll
<1>2. PICK new : new = InterruptionOf[st] /\ new # "none"
  BY DEF InProgress, InterruptionOf
<1>3. row'[v] = IF v \in us /\ row[v] = st THEN new ELSE row[v]
  BY <1>1, <1>2 DEF Interrupted
<1> QED
  BY <1>1, <1>2, <1>3

\* Nobody moves.
LEMMA NobodyMoved ==
    ASSUME RoomTold, UNCHANGED <<segment, owner, verdict>>, SameQueues,
           \A r \in Sessions, w \in Realtime : job'[r][w] = job[r][w],
           \A r \in Sessions : stage'[r] # "dead" => stage[r] # "dead",
           faults' \in Nat, faults' = 0 => faults = 0,
           \A v \in Utterances : row'[v] = row[v] \/ (row[v] \in InProgress /\ row'[v] # "none")
    PROVE  RoomTold'
<1>1. ASSUME NEW v \in Utterances PROVE Told(v)'
  BY NothingNew DEF SameQueues, Queued, Worked
<1>2. Rested'
  BY DEF RoomTold, Rested
<1> QED
  BY <1>1, <1>2 DEF RoomTold, Everyone

LEMMA LoopTold ==
    ASSUME Types, Consistent, RoomTold, NEW s \in Sessions,
           \/ OpenSession(s) \/ BeginLive(s) \/ CloseInput(s) \/ WorkersDone(s)
           \/ SweepSession(s) \/ CompleteSession(s)
    PROVE  RoomTold'
<1>1. UNCHANGED <<queue, job, segment, owner, verdict>>
  BY DEF OpenSession, BeginLive, CloseInput, WorkersDone, SweepSession, CompleteSession,
         workerVars, databaseVars, roomVars
<1>2. faults' \in Nat /\ (faults' = 0 => faults = 0)
  BY DEF OpenSession, BeginLive, CloseInput, WorkersDone, SweepSession, CompleteSession,
         Fault, RoomTold
<1>3. \A r \in Sessions : stage'[r] # "dead" => stage[r] # "dead"
  BY DEF OpenSession, BeginLive, CloseInput, WorkersDone, SweepSession, CompleteSession, Types
<1>4. ASSUME NEW v \in Utterances
      PROVE  row'[v] = row[v] \/ (row[v] \in InProgress /\ row'[v] # "none")
  <2>1. CASE SweepSession(s)
    <3>1. PICK k \in 1..3 : k = sweep[s]
      BY <2>1 DEF SweepSession, Consistent
    <3>2. row' = row \/ row' = Interrupted(Of(s), SweepOrder[k])
      BY <2>1, <3>1 DEF SweepSession
    <3> QED
      BY <3>2, SweptRow DEF Of
  <2>2. CASE ~SweepSession(s)
    BY <2>2 DEF OpenSession, BeginLive, CloseInput, WorkersDone, CompleteSession, databaseVars
  <2> QED
    BY <2>1, <2>2
<1> QED
  BY <1>1, <1>2, <1>3, <1>4, NobodyMoved DEF SameQueues

LEMMA StartTold ==
    ASSUME Types, RoomTold, Everywhere, NEW s \in Sessions, NEW u \in Utterances,
           Swept(u), StartSegment(s, u)
    PROVE  RoomTold'
<1>1. /\ owner[u] = Nobody /\ segment[s] = Nobody /\ stage[s] = "running"
      /\ UNCHANGED <<queue, job, row, verdict>>
      /\ owner'[u] = s /\ \A v \in Utterances \ {u} : owner'[v] = owner[v]
      /\ \A r \in Sessions \ {s} : segment'[r] = segment[r] /\ stage'[r] = stage[r]
  BY DEF StartSegment, workerVars, roomVars, Types
<1>2. row[u] = "none"
  BY <1>1 DEF Swept
<1>3. \A r \in Sessions, w \in Realtime : ~Queued(r, w, u) /\ ~Worked(r, w, u)
  BY <1>1, StagesAre DEF Everywhere, Placed, Owned
<1>4. \/ segment'[s] = u /\ faults' = faults
      \/ segment'[s] = Nobody /\ faults' # 0 /\ faults' \in Nat
  BY <1>1, FaultCounts DEF StartSegment, Types
<1>5. Told(u)'
  <2>1. \A r \in Sessions, w \in Realtime : ~Queued(r, w, u)' /\ ~Worked(r, w, u)'
    BY <1>1, <1>3 DEF Queued, Worked
  <2>2. faults' = 0 => segment'[s] = u /\ row'[u] = "none"
    BY <1>1, <1>2, <1>4
  <2> QED
    BY <1>1, <2>1, <2>2 DEF Told, Unplaced
<1>6. ASSUME NEW v \in Utterances \ {u} PROVE Told(v)'
  <2>1. \A r \in Sessions : segment'[r] = v <=> segment[r] = v
    BY <1>1, <1>4, StagesAre
  <2>2. \A r \in Sessions : stage'[r] # "dead" => stage[r] # "dead"
    BY <1>1
  <2>3. faults' = 0 => faults = 0
    BY <1>4
  <2> QED
    BY <1>1, <2>1, <2>2, <2>3, NothingNew DEF Queued, Worked
<1>7. Rested'
  BY <1>1 DEF RoomTold, Rested
<1> QED
  BY <1>1, <1>4, <1>5, <1>6, <1>7 DEF RoomTold, Everyone

LEMMA DiscardTold ==
    ASSUME Types, RoomTold, Everywhere, NEW s \in Sessions, DiscardSegment(s)
    PROVE  RoomTold'
<1>1. PICK u \in Utterances : u = segment[s]
  BY DEF DiscardSegment, Types
<1>2. /\ UNCHANGED <<queue, job, row, owner, stage, faults>> /\ segment'[s] = Nobody
      /\ \A r \in Sessions \ {s} : segment'[r] = segment[r]
      /\ verdict' = [verdict EXCEPT ![u] = "discarded"]
  BY <1>1 DEF DiscardSegment, workerVars, databaseVars, Types
<1>3. /\ verdict' \in [Utterances -> Verdicts] /\ verdict'[u] = "discarded"
      /\ \A v \in Utterances \ {u} : verdict'[v] = verdict[v]
  BY <1>2, VerdictsAre DEF RoomTold
<1>4. /\ \A r \in Sessions : segment[r] = u => r = s
      /\ \A r \in Sessions, w \in Realtime : ~Queued(r, w, u) /\ ~Worked(r, w, u)
  BY <1>1 DEF Everywhere, Placed, Owned, Alone
<1>5. Told(u)'
  <2>1. \A r \in Sessions, w \in Realtime : ~Queued(r, w, u)' /\ ~Worked(r, w, u)'
    BY <1>2, <1>4 DEF Queued, Worked
  <2>2. \A r \in Sessions : segment'[r] # u
    BY <1>2, <1>4, StagesAre
  <2>3. faults = 0 => row[u] = "none"
    BY <1>1 DEF RoomTold, Everyone, Told
  <2> QED
    BY <1>2, <1>3, <2>1, <2>2, <2>3, ToldAtTheEnd DEF Outcome
<1>6. ASSUME NEW v \in Utterances \ {u} PROVE Told(v)'
  <2>1. \A r \in Sessions : segment'[r] = v <=> segment[r] = v
    BY <1>1, <1>2, StagesAre
  <2> QED
    BY <1>2, <1>3, <2>1, NothingNew DEF Queued, Worked
<1>7. Rested'
  BY <1>2 DEF RoomTold, Rested
<1> QED
  BY <1>2, <1>3, <1>5, <1>6, <1>7 DEF RoomTold, Everyone

\* A statement has failed: nothing is said of anyone any more.
LEMMA ConfigureTold ==
    ASSUME Types, RoomTold, NEW s \in Sessions, ConfigureFails(s)
    PROVE  RoomTold'
<1>1. faults' \in Nat /\ faults' # 0 /\ job' = job /\ verdict' = verdict
  BY FaultCounts DEF ConfigureFails, workerVars, roomVars
<1> QED
  BY <1>1 DEF RoomTold, Everyone, Told, Rested

LEMMA FinishTold ==
    ASSUME Types, Consistent, RoomTold, Everywhere, Everywhere', NEW s \in Sessions, FinishLive(s)
    PROVE  RoomTold'
<1> DEFINE w == "transcription"
<1>1. PICK u \in Utterances : u = segment[s]
  BY DEF FinishLive, Consistent
<1>2. /\ UNCHANGED <<stage, job, row, owner, verdict, faults>> /\ segment'[s] = Nobody
      /\ \A r \in Sessions \ {s} : segment'[r] = segment[r]
      /\ Push(s, w, u)
  BY <1>1 DEF FinishLive, databaseVars, roomVars, Types
<1>3. w \in Realtime /\ w \in Stages /\ u # Nobody
  BY StagesAre DEF Realtime, Stages
<1>4. Range(queue'[s][w]) = Range(queue[s][w]) \cup {u}
  BY <1>2, <1>3, PushFacts
<1>5. \A r \in Sessions, v \in Realtime : r # s \/ v # w => queue'[r][v] = queue[r][v]
  <2>1. \A r \in Sessions, v \in Stages : r # s \/ v # w => queue'[r][v] = queue[r][v]
    BY <1>2, <1>3, PushFacts
  <2> QED
    BY <2>1, StagesAre
<1>6. Told(u)'
  <2>1. Placed(u)' /\ Queued(s, w, u)'
    BY <1>4 DEF Everywhere, Queued
  <2> QED
    BY <1>3, <2>1, ToldInQueue
<1>7. ASSUME NEW v \in Utterances \ {u} PROVE Told(v)'
  <2>1. \A r \in Sessions, x \in Realtime :
           /\ Queued(r, x, v)' <=> Queued(r, x, v)
           /\ Worked(r, x, v)' <=> Worked(r, x, v)
           /\ Worked(r, x, v) => job'[r][x].step = job[r][x].step
    BY <1>2, <1>4, <1>5 DEF Queued, Worked
  <2>2. \A r \in Sessions : segment'[r] = v <=> segment[r] = v
    BY <1>1, <1>2, StagesAre
  <2> QED
    BY <1>2, <2>1, <2>2, NothingNew
<1>8. Rested'
  BY <1>2 DEF RoomTold, Rested
<1> QED
  BY <1>2, <1>6, <1>7, <1>8 DEF RoomTold, Everyone

\* A crash leaves the sessions that were over before, which have nobody.
LEMMA CrashTold ==
    ASSUME Types, RoomTold, Everywhere, Everywhere', Crash
    PROVE  RoomTold'
<1>1. UNCHANGED <<row, owner, verdict, faults>>
  BY DEF Crash, databaseVars
<1>2. \A r \in Sessions : /\ segment'[r] = Nobody
                          /\ \A w \in Realtime : queue'[r][w] = <<>> /\ job'[r][w].utterance = Nobody
  BY StagesAre DEF Crash, Idle
<1>3. \A r \in Sessions : stage'[r] # "dead" => stage[r] \in {"unused", "ended"}
  BY DEF Crash, Types
<1>4. ASSUME NEW v \in Utterances PROVE Told(v)'
  <2>1. \A r \in Sessions : Unplaced(r, v)'
    BY <1>2, StagesAre DEF Unplaced, Queued, Worked, Range
  <2>2. \A r \in Sessions : stage[r] \in {"unused", "ended"} => Unplaced(r, v)
    BY DEF Everywhere, Placed, Owned, LiveStages, Unplaced
  <2>3. Told(v) /\ Outcome(v)' = Outcome(v)
    BY <1>1 DEF RoomTold, Everyone, Outcome
  <2>4. faults = 0 => \A r \in Sessions : owner[v] = r /\ stage'[r] # "dead" => row[v] = Outcome(v)
    BY <1>3, <2>2, <2>3 DEF Told
  <2>5. \A r \in Sessions : /\ segment'[r] # v
                            /\ \A w \in Realtime : ~Queued(r, w, v)' /\ ~Worked(r, w, v)'
    BY <2>1 DEF Unplaced
  <2> QED
    BY <1>1, <2>3, <2>4, <2>5 DEF Told
<1>5. Rested'
  BY <1>2 DEF Rested
<1> QED
  BY <1>1, <1>4, <1>5 DEF RoomTold, Everyone

LEMMA ProcessTold ==
    ASSUME Types, RoomTold, StartAdmin \/ Recover
    PROVE  RoomTold'
<1>1. UNCHANGED <<queue, job, segment, stage, owner, verdict, faults>>
  BY DEF StartAdmin, Recover, sessionVars, workerVars, databaseVars, roomVars
<1>2. ASSUME NEW v \in Utterances
      PROVE  row'[v] = row[v] \/ (row[v] \in InProgress /\ row'[v] # "none")
  <2>1. CASE Recover /\ recovery <= 3
    <3>1. PICK k \in 1..3 : k = recovery
      BY <2>1 DEF Recover, Types
    <3>2. row' = Interrupted(Utterances, SweepOrder[k])
      BY <2>1, <3>1 DEF Recover
    <3> QED
      BY <3>2, SweptRow
  <2>2. CASE StartAdmin \/ ~(recovery <= 3)
    BY <2>2 DEF StartAdmin, Recover, databaseVars
  <2> QED
    BY <2>1, <2>2
<1> QED
  BY <1>1, <1>2, NobodyMoved DEF SameQueues, RoomTold

LEMMA ToldInit == Init => RoomTold
<1> SUFFICES ASSUME Init PROVE RoomTold
  OBVIOUS
<1>1. \A s \in Sessions, w \in Realtime : queue[s][w] = <<>> /\ job[s][w] = Idle
  BY StagesAre DEF Init
<1>2. ASSUME NEW u \in Utterances PROVE Told(u)
  <2>1. \A s \in Sessions, w \in Realtime : ~Queued(s, w, u) /\ ~Worked(s, w, u)
    BY <1>1, StagesAre DEF Queued, Worked, Range, Idle
  <2>2. \A s \in Sessions : segment[s] # u /\ owner[u] # s
    BY StagesAre DEF Init
  <2> QED
    BY <2>1, <2>2 DEF Told
<1> QED
  BY <1>1, <1>2, VerdictsAre DEF Init, RoomTold, Everyone, Rested, Idle

LEMMA ToldNext == ASSUME PipelineInv, RoomTold, Next PROVE RoomTold'
<1>1. /\ Everywhere /\ Types /\ Consistent /\ NoneTwice /\ Everywhere'
      /\ \A v \in Utterances : Swept(v)
  BY NextMoves DEF PipelineInv, Everywhere
<1>2. ASSUME NEW s \in Sessions, Session(s) PROVE RoomTold'
  BY <1>1, <1>2, LoopTold, StartTold, DiscardTold, ConfigureTold, FinishTold DEF Session
<1>3. ASSUME NEW s \in Sessions, Transcriber(s) \/ Translator(s) \/ Synthesizer(s) \/ Refiner(s)
      PROVE  RoomTold'
  BY <1>1, <1>3, TranscriberTold, TranslatorTold, SynthesizerTold, RefinerTold
<1>4. CASE Process
  BY <1>1, <1>4, CrashTold, ProcessTold DEF Process
<1> QED
  BY <1>2, <1>3, <1>4 DEF Next

LEMMA ToldStutters == ASSUME RoomTold, UNCHANGED vars PROVE RoomTold'
BY DEF RoomTold, Everyone, Rested, Told, Unplaced, Outcome, Queued, Worked,
       vars, sessionVars, workerVars, databaseVars, roomVars

(* While the database answers, the history of an ended session says what   *)
(* the room was told of each utterance, however stages interleave, which   *)
(* sessions crash and when the admin service starts and sweeps.            *)
THEOREM HistoryTellsTheSame == Spec => []HistoryAgreesWithRoom
<1>1. PipelineInv /\ RoomTold /\ [Next]_vars => RoomTold'
  BY ToldNext, ToldStutters
<1>2. PipelineInv /\ RoomTold => HistoryAgreesWithRoom
  <2> SUFFICES ASSUME PipelineInv, RoomTold, faults = 0, NEW u \in Utterances,
                      owner[u] # Nobody, stage[owner[u]] = "ended"
               PROVE  row[u] = Outcome(u)
    BY DEF HistoryAgreesWithRoom, Outcome
  <2>1. PICK s \in Sessions : s = owner[u]
    BY DEF PipelineInv, Types
  <2>2. Unplaced(s, u)
    BY <2>1 DEF PipelineInv, Placed, Owned, LiveStages, Unplaced
  <2> QED
    BY <2>1, <2>2 DEF RoomTold, Everyone, Told
<1> QED
  BY <1>1, <1>2, ToldInit, PipelineHolds, PTL DEF Spec
=============================================================================
