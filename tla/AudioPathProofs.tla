-------------------------- MODULE AudioPathProofs ---------------------------
(***************************************************************************)
(* Proofs about the way of an utterance and the engines on it: the mixer and *)
(* the session loop (RoomAudio), the preview while somebody speaks         *)
(* (LivePreview), the chain of TTS engines (SpeechChain) and the scripts that *)
(* start and stop the engines (ManagerScript), for any members, engines,   *)
(* utterances, frames and processes.                                       *)
(***************************************************************************)
EXTENDS RoomAudio, SpeechChain, LivePreview, ManagerScript, FiniteSetTheorems,
        SequenceTheorems, TLAPS

-----------------------------------------------------------------------------
(* SpeechChain: what a listener hears is one engine's.                     *)

\* The chunks on their way and those that were played are of the engine that
\* the task called last, and of none as long as that one has sent nothing.
Silent(t) == t.at \in {"none", "next", "called"} \/ (t.at = "sending" /\ ~t.emitted)

OneEngine(u) ==
    /\ chunks[u] \in Seq({task[u].engine})
    /\ player[u].heard \subseteq {task[u].engine}
    /\ Silent(task[u]) => chunks[u] = <<>> /\ player[u].heard = {}
    /\ task[u].at \in {"called", "sending"} => task[u].engine \in ChainEngines

\* What the worker has told the client.
Told(u) ==
    /\ player[u].at = "idle" => ~player[u].start /\ task[u].at = "none"
    /\ player[u].at # "done" => ~player[u].end
    /\ player[u].at = "done" => player[u].start = player[u].end
    /\ player[u].at = "left" => /\ player[u].verdict = "failed"
                                /\ task[u].at = "died" \/ (~listening[u] /\ player[u].heard = {})
    /\ player[u].at = "starting" => player[u].start
    /\ ~player[u].start \/ player[u].at = "starting" => player[u].heard = {}
    /\ player[u].start /\ player[u].at \notin {"starting", "left"} => player[u].heard # {}
    /\ player[u].verdict = "media" => player[u].heard # {} /\ player[u].end

SpeechInv == SpeechTypeOK /\ \A u \in Utterances : OneEngine(u) /\ Told(u)

LEMMA SpeechStart == SpeechInit => SpeechInv
<1> SUFFICES ASSUME SpeechInit PROVE SpeechInv
  OBVIOUS
<1>1. NoTask \in SpeechTasks /\ NoPlayer \in Players
  BY SpeechAssumption DEF NoTask, NoPlayer, SpeechTasks, Players
<1>2. SpeechTypeOK
  <2>1. task \in [Utterances -> SpeechTasks] /\ player \in [Utterances -> Players]
    BY <1>1 DEF SpeechInit
  <2>2. chunks \in [Utterances -> Seq(ChainEngines)]
    BY DEF SpeechInit
  <2>3. listening \in [Utterances -> BOOLEAN] /\ backoff \in [ChainEngines -> BOOLEAN]
    BY Zenon DEF SpeechInit
  <2> QED
    BY <2>1, <2>2, <2>3 DEF SpeechTypeOK
<1>3. ASSUME NEW u \in Utterances
      PROVE  OneEngine(u) /\ Told(u)
  <2>1. task[u] = NoTask /\ player[u] = NoPlayer /\ chunks[u] = <<>>
    BY DEF SpeechInit
  <2>2. NoTask.at = "none" /\ NoPlayer.at = "idle" /\ NoPlayer.heard = {} /\ ~NoPlayer.start
        /\ ~NoPlayer.end /\ NoPlayer.verdict = "none"
    BY Zenon DEF NoTask, NoPlayer
  <2>3. <<>> \in Seq({task[u].engine})
    OBVIOUS
  <2> QED
    BY <2>1, <2>2, <2>3 DEF OneEngine, Told, Silent
<1> QED
  BY <1>2, <1>3 DEF SpeechInv

\* A step of one utterance touches no other one.
LEMMA OthersKeep ==
    ASSUME SpeechInv, SpeechTypeOK', NEW u \in Utterances, OneEngine(u)', Told(u)',
           \A v \in Utterances \ {u} :
              /\ task'[v] = task[v] /\ player'[v] = player[v] /\ chunks'[v] = chunks[v]
              /\ listening'[v] = listening[v]
    PROVE  SpeechInv'
<1>1. ASSUME NEW v \in Utterances \ {u}
      PROVE  OneEngine(v)' /\ Told(v)'
  <2>1. OneEngine(v) /\ Told(v)
    BY DEF SpeechInv
  <2> QED
    BY <2>1 DEF OneEngine, Told
<1> QED
  BY <1>1 DEF SpeechInv

\* A step of the task that sends no chunk.
LEMMA QuietStep ==
    ASSUME SpeechInv, NEW u \in Utterances, NEW new \in SpeechTasks,
           task' = [task EXCEPT ![u] = new], UNCHANGED <<player, chunks, listening>>,
           backoff' \in [ChainEngines -> BOOLEAN],
           task[u].at \notin {"none", "died"},
           new.engine = task[u].engine \/ Silent(task[u]),
           Silent(new) => Silent(task[u]),
           new.at \in {"called", "sending"} => new.engine \in ChainEngines
    PROVE  SpeechInv'
<1>1. task'[u] = new /\ \A v \in Utterances \ {u} : task'[v] = task[v]
  BY DEF SpeechInv, SpeechTypeOK
<1>2. SpeechTypeOK'
  BY DEF SpeechInv, SpeechTypeOK
<1>3. OneEngine(u) /\ Told(u)
  BY DEF SpeechInv
<1>4. OneEngine(u)'
  <2>1. CASE Silent(task[u])
    BY <1>1, <1>3, <2>1 DEF OneEngine
  <2>2. CASE ~Silent(task[u])
    BY <1>1, <1>3, <2>2 DEF OneEngine
  <2> QED
    BY <2>1, <2>2
<1>5. Told(u)'
  BY <1>1, <1>3 DEF Told
<1> QED
  BY <1>1, <1>2, <1>4, <1>5, OthersKeep

\* A task that ended.
LEMMA EndedTask ==
    ASSUME NEW t \in SpeechTasks, NEW at \in {"done", "died"}, NEW good \in BOOLEAN
    PROVE  /\ Ended(t, at, good) \in SpeechTasks
           /\ Ended(t, at, good).at = at
           /\ Ended(t, at, good).engine = t.engine
<1>1. NoTask \in SpeechTasks
  BY SpeechAssumption DEF NoTask, SpeechTasks
<1>2. t.engine \in ChainEngines \cup {NoEngine} /\ at \in {"none", "next", "called", "sending", "done", "died"}
  BY DEF SpeechTasks
<1> QED
  BY <1>1, <1>2 DEF Ended, SpeechTasks

LEMMA TaskSteps ==
    ASSUME SpeechInv, NEW u \in Utterances, TaskStep(u) \/ TaskPanics(u)
    PROVE  SpeechInv'
<1>1. task[u] \in SpeechTasks /\ backoff \in [ChainEngines -> BOOLEAN]
      /\ OneEngine(u) /\ Told(u)
  BY DEF SpeechInv, SpeechTypeOK
<1>2. CASE CallEngine(u)
  <2>1. task[u].todo \in Seq(ChainEngines) /\ task[u].at = "next"
    BY <1>1, <1>2 DEF SpeechTasks, CallEngine
  <2>2. PICK todo \in Seq(ChainEngines) : todo = task[u].todo
    BY <2>1
  <2>3. CASE todo = <<>>
    <3> DEFINE new == Ended(task[u], "done", FALSE)
    <3>1. new \in SpeechTasks /\ new.at = "done" /\ new.engine = task[u].engine
      BY <1>1, EndedTask
    <3>2. task' = [task EXCEPT ![u] = new]
      BY <1>2, <2>2, <2>3, Zenon DEF CallEngine, SpeechInv, SpeechTypeOK
    <3> HIDE DEF new
    <3> QED
      BY <1>1, <1>2, <2>1, <3>1, <3>2, QuietStep DEF CallEngine, Silent
  <2>4. CASE todo # <<>> /\ task' = [task EXCEPT ![u].todo = Tail(todo),
                                                ![u].able = @ \ {Head(todo)}]
    <3> DEFINE new == [task[u] EXCEPT !.todo = Tail(todo), !.able = @ \ {Head(todo)}]
    <3>1. Tail(todo) \in Seq(ChainEngines) /\ task[u].able \ {Head(todo)} \in SUBSET ChainEngines
      BY <1>1, <2>4 DEF SpeechTasks
    <3>2. new \in SpeechTasks /\ new.at = task[u].at /\ new.engine = task[u].engine
      BY <1>1, <3>1 DEF SpeechTasks
    <3>3. task' = [task EXCEPT ![u] = new]
      BY <2>4, Zenon DEF SpeechInv, SpeechTypeOK
    <3> HIDE DEF new
    <3> QED
      BY <1>1, <1>2, <2>1, <3>2, <3>3, QuietStep DEF CallEngine, Silent
  <2>5. CASE todo # <<>> /\ task' = [task EXCEPT ![u].at = "called", ![u].todo = Tail(todo),
                               ![u].engine = Head(todo), ![u].able = @ \ {Head(todo)},
                               ![u].owed = 0, ![u].emitted = FALSE, ![u].good = FALSE]
    <3> DEFINE new == [task[u] EXCEPT !.at = "called", !.todo = Tail(todo),
                               !.engine = Head(todo), !.able = @ \ {Head(todo)},
                               !.owed = 0, !.emitted = FALSE, !.good = FALSE]
    <3>1. Tail(todo) \in Seq(ChainEngines) /\ Head(todo) \in ChainEngines /\ 0 \in 0..ChunkLimit
          /\ task[u].able \ {Head(todo)} \in SUBSET ChainEngines
      BY <1>1, <2>5, SpeechAssumption DEF SpeechTasks
    <3>2. new \in SpeechTasks
      BY <1>1, <3>1, Zenon DEF SpeechTasks
    <3>3. task' = [task EXCEPT ![u] = new]
      BY <2>5, Zenon DEF SpeechInv, SpeechTypeOK
    <3>4. new.at = "called" /\ new.engine \in ChainEngines
      BY <1>1, <3>1, Zenon DEF SpeechTasks
    <3> HIDE DEF new
    <3> QED
      BY <1>1, <1>2, <2>1, <3>2, <3>3, <3>4, QuietStep DEF CallEngine, Silent
  <2> QED
    BY <1>2, <2>2, <2>3, <2>4, <2>5 DEF CallEngine
<1>3. CASE EngineAnswers(u)
  <2>1. PICK owed \in 0..ChunkLimit, good \in BOOLEAN :
          task' = [task EXCEPT ![u].at = "sending", ![u].owed = owed, ![u].good = good]
    BY <1>3 DEF EngineAnswers
  <2> DEFINE new == [task[u] EXCEPT !.at = "sending", !.owed = owed, !.good = good]
  <2>2. new \in SpeechTasks /\ new.engine = task[u].engine /\ new.emitted = task[u].emitted
    BY <1>1 DEF SpeechTasks
  <2>3. task' = [task EXCEPT ![u] = new]
    BY <2>1, Zenon DEF SpeechInv, SpeechTypeOK
  <2> HIDE DEF new
  <2> QED
    BY <1>1, <1>3, <2>2, <2>3, QuietStep DEF EngineAnswers, Silent, OneEngine
<1>4. CASE SendFails(u)
  <2> DEFINE new == [task[u] EXCEPT !.owed = 0, !.good = FALSE]
  <2>1. 0 \in 0..ChunkLimit
    BY SpeechAssumption
  <2>2. new \in SpeechTasks /\ new.engine = task[u].engine /\ new.emitted = task[u].emitted
        /\ new.at = task[u].at
    BY <1>1, <2>1 DEF SpeechTasks
  <2>3. task' = [task EXCEPT ![u] = new]
    BY <1>4, Zenon DEF SendFails, SpeechInv, SpeechTypeOK
  <2> HIDE DEF new
  <2> QED
    BY <1>1, <1>4, <2>2, <2>3, QuietStep DEF SendFails, Silent, OneEngine
<1>5. CASE EngineReturns(u)
  <2> DEFINE new == IF task[u].emitted THEN Ended(task[u], "done", task[u].good)
                                       ELSE [task[u] EXCEPT !.at = "next"]
  <2>1. new \in SpeechTasks /\ new.engine = task[u].engine
        /\ (task[u].emitted => new.at = "done") /\ new.at \in {"done", "next"}
    <3>1. task[u].good \in BOOLEAN
      BY <1>1 DEF SpeechTasks
    <3>2. CASE task[u].emitted
      BY <1>1, <3>1, <3>2, EndedTask
    <3>3. CASE ~task[u].emitted
      BY <1>1, <3>3 DEF SpeechTasks
    <3> QED
      BY <3>2, <3>3
  <2>2. task' = [task EXCEPT ![u] = new]
    BY <1>5, Zenon DEF EngineReturns, SpeechInv, SpeechTypeOK
  <2>3. backoff' \in [ChainEngines -> BOOLEAN]
    BY <1>1, <1>5 DEF EngineReturns, Availability, SpeechTasks
  <2> HIDE DEF new
  <2> QED
    BY <1>1, <1>5, <2>1, <2>2, <2>3, QuietStep DEF EngineReturns, Silent, OneEngine
<1>6. CASE SendChunk(u)
  <2> DEFINE new == [task[u] EXCEPT !.owed = task[u].owed - 1, !.emitted = TRUE]
  <2>1. task[u].owed - 1 \in 0..ChunkLimit
    BY <1>1, <1>6, SpeechAssumption DEF SendChunk, SpeechTasks
  <2>2. new \in SpeechTasks
    BY <1>1, <2>1 DEF SpeechTasks
  <2>3. new.engine = task[u].engine /\ new.at = task[u].at /\ new.emitted = TRUE
    BY <1>1, Zenon DEF SpeechTasks
  <2>4. task' = [task EXCEPT ![u] = new]
    BY <1>6, Zenon DEF SendChunk, SpeechInv, SpeechTypeOK
  <2> HIDE DEF new
  <2>5. task'[u] = new /\ (\A v \in Utterances \ {u} : task'[v] = task[v])
        /\ task' \in [Utterances -> SpeechTasks]
    BY <2>2, <2>4 DEF SpeechInv, SpeechTypeOK
  <2>6. task[u].at = "sending" /\ player[u].at \in {"receiving", "starting"}
        /\ task[u].engine \in ChainEngines
    BY <1>1, <1>6 DEF SendChunk, Receives, OneEngine
  <2>7. /\ chunks'[u] = Append(chunks[u], task[u].engine)
        /\ \A v \in Utterances \ {u} : chunks'[v] = chunks[v]
        /\ chunks' \in [Utterances -> Seq(ChainEngines)]
    BY <1>6, <2>6 DEF SendChunk, SpeechInv, SpeechTypeOK
  <2>8. SpeechTypeOK'
    BY <1>6, <2>5, <2>7 DEF SendChunk, SpeechInv, SpeechTypeOK
  <2>9. OneEngine(u)'
    BY <1>1, <1>6, <2>3, <2>5, <2>6, <2>7 DEF SendChunk, OneEngine, Silent
  <2>10. Told(u)'
    BY <1>1, <1>6, <2>6 DEF SendChunk, Told
  <2> QED
    BY <1>6, <2>5, <2>7, <2>8, <2>9, <2>10, OthersKeep DEF SendChunk
<1>7. CASE TaskPanics(u)
  <2> DEFINE new == Ended(task[u], "died", FALSE)
  <2>1. new \in SpeechTasks /\ new.at = "died" /\ new.engine = task[u].engine
    BY <1>1, EndedTask
  <2>2. task' = [task EXCEPT ![u] = new]
    BY <1>7, Zenon DEF TaskPanics, SpeechInv, SpeechTypeOK
  <2> HIDE DEF new
  <2> QED
    BY <1>1, <1>7, <2>1, <2>2, QuietStep DEF TaskPanics, Silent
<1> QED
  BY <1>2, <1>3, <1>4, <1>5, <1>6, <1>7 DEF TaskStep

\* The worker's steps and those of the room: the player of one utterance changes,
\* and chunks are taken from its channel.
LEMMA PlayerChange ==
    ASSUME SpeechInv, NEW u \in Utterances, NEW new \in Players,
           NEW left \in Seq(ChainEngines),
           player' = [player EXCEPT ![u] = new], chunks' = [chunks EXCEPT ![u] = left],
           UNCHANGED <<task, listening, backoff>>,
           left \in Seq({task[u].engine}), new.heard \subseteq {task[u].engine},
           Silent(task[u]) => left = <<>> /\ new.heard = {},
           new.at # "idle",
           new.at # "done" => ~new.end,
           new.at = "done" => new.start = new.end,
           new.at = "left" => /\ new.verdict = "failed"
                              /\ task[u].at = "died" \/ (~listening[u] /\ new.heard = {}),
           new.at = "starting" => new.start,
           ~new.start \/ new.at = "starting" => new.heard = {},
           new.start /\ new.at \notin {"starting", "left"} => new.heard # {},
           new.verdict = "media" => new.heard # {} /\ new.end
    PROVE  SpeechInv'
<1>1. /\ player'[u] = new /\ \A v \in Utterances \ {u} : player'[v] = player[v]
      /\ chunks'[u] = left /\ \A v \in Utterances \ {u} : chunks'[v] = chunks[v]
  BY DEF SpeechInv, SpeechTypeOK
<1>2. SpeechTypeOK'
  BY DEF SpeechInv, SpeechTypeOK
<1>3. OneEngine(u) /\ Told(u)
  BY DEF SpeechInv
<1>4. OneEngine(u)' /\ Told(u)'
  BY <1>1, <1>3 DEF OneEngine, Told, Silent
<1> QED
  BY <1>1, <1>2, <1>4, OthersKeep

\* The worker leaves a room that is gone before it has played anything.
LEMMA LeftPlayer ==
    ASSUME SpeechInv, NEW u \in Utterances, Leave(u), UNCHANGED <<task, listening, backoff>>,
           player[u].at # "done", player[u].heard = {}, ~listening[u]
    PROVE  SpeechInv'
<1>1. player[u] \in Players /\ Told(u)
  BY DEF SpeechInv, SpeechTypeOK
<1> DEFINE new == [player[u] EXCEPT !.at = "left", !.verdict = "failed"]
<1>2. new \in Players /\ new.at = "left" /\ new.verdict = "failed" /\ new.heard = {}
  BY <1>1 DEF Players
<1>3. ~new.end
  <2>1. new.end = player[u].end
    BY <1>1, Zenon DEF Players
  <2> QED
    BY <1>1, <2>1, Zenon DEF Told
<1>4. player' = [player EXCEPT ![u] = new]
  BY Zenon DEF Leave, SpeechInv, SpeechTypeOK
<1>5. chunks' = [chunks EXCEPT ![u] = <<>>]
  BY DEF Leave
<1> HIDE DEF new
<1>6. <<>> \in Seq({task[u].engine}) /\ <<>> \in Seq(ChainEngines)
  OBVIOUS
<1> QED
  BY <1>2, <1>3, <1>4, <1>5, <1>6, PlayerChange

LEMMA PlayerSteps ==
    ASSUME SpeechInv, NEW u \in Utterances, PlayerStep(u) \/ SynthesisRefused(u)
    PROVE  SpeechInv'
<1>1. /\ task[u] \in SpeechTasks /\ player[u] \in Players /\ chunks[u] \in Seq(ChainEngines)
      /\ OneEngine(u) /\ Told(u)
  BY DEF SpeechInv, SpeechTypeOK
<1>2. CASE StartAudio(u)
  <2>1. chunks[u] # <<>> /\ ~Silent(task[u]) /\ player[u].heard = {} /\ ~player[u].start
    BY <1>1, <1>2 DEF StartAudio, OneEngine, Told
  <2>2. player[u].verdict # "media"
    BY <1>1, <2>1 DEF Told
  <2>3. UNCHANGED <<task, listening, backoff>>
    BY <1>2 DEF StartAudio
  <2>4. CASE listening[u]
    <3> DEFINE new == [player[u] EXCEPT !.at = "starting", !.start = TRUE]
    <3>6. new.end = player[u].end /\ ~player[u].end
      <4>1. new.end = player[u].end
        BY <1>1, Zenon DEF Players
      <4>2. ~player[u].end
        BY <1>1, <1>2 DEF StartAudio, Told
      <4> QED
        BY <4>1, <4>2
    <3>7. ~new.end
      BY <3>6, Zenon
    <3>1. new \in Players /\ new.at = "starting" /\ new.heard = {}
          /\ new.verdict = player[u].verdict
      BY <1>1, <2>1 DEF Players
    <3>2. new.start
      BY <1>1, Zenon DEF Players
    <3>3. player' = [player EXCEPT ![u] = new]
      BY <1>2, <2>4, Zenon DEF StartAudio, SpeechInv, SpeechTypeOK
    <3>4. chunks' = [chunks EXCEPT ![u] = chunks[u]]
      BY <1>2, <2>4 DEF StartAudio, SpeechInv, SpeechTypeOK
    <3> HIDE DEF new
    <3>5. chunks[u] \in Seq({task[u].engine}) /\ chunks[u] \in Seq(ChainEngines)
      BY <1>1 DEF OneEngine
    <3> QED
      BY <2>1, <2>2, <2>3, <3>1, <3>2, <3>3, <3>4, <3>5, <3>7, PlayerChange
  <2>5. CASE ~listening[u]
    <3>1. Leave(u)
      BY <1>2, <2>5 DEF StartAudio
    <3> QED
      BY <1>2, <2>1, <2>3, <2>5, <3>1, LeftPlayer DEF StartAudio
  <2> QED
    BY <2>4, <2>5
<1>5. CASE ReceiveChunk(u)
  <2>1. chunks[u] # <<>> /\ ~Silent(task[u]) /\ player[u].start
        /\ player[u].at \in {"receiving", "starting"}
    BY <1>1, <1>5 DEF ReceiveChunk, Receives, OneEngine
  <2>2. /\ Head(chunks[u]) = task[u].engine /\ Head(chunks[u]) \in ChainEngines
        /\ Tail(chunks[u]) \in Seq({task[u].engine}) /\ Tail(chunks[u]) \in Seq(ChainEngines)
    BY <1>1, <2>1 DEF OneEngine
  <2>3. player[u].heard \ {Head(chunks[u])} = {}
    BY <1>1, <2>2 DEF OneEngine
  <2>4. CASE player[u].at = "starting" /\ ~listening[u]
    <3>1. Leave(u)
      BY <1>5, <2>4 DEF ReceiveChunk
    <3>2. player[u].heard = {} /\ UNCHANGED <<task, listening, backoff>>
      BY <1>1, <1>5, <2>4 DEF ReceiveChunk, Told
    <3> QED
      BY <1>1, <2>1, <2>4, <3>1, <3>2, LeftPlayer
  <2>5. CASE player[u].at # "starting" \/ listening[u]
    <3> DEFINE new == [player[u] EXCEPT !.at = "receiving",
                                        !.heard = player[u].heard \cup {Head(chunks[u])}]
    <3>1. player[u].heard \cup {Head(chunks[u])} \in SUBSET ChainEngines
      BY <1>1, <2>2 DEF Players
    <3>2. new \in Players
      BY <1>1, <3>1 DEF Players
    <3>3. new.at = "receiving" /\ new.heard = player[u].heard \cup {Head(chunks[u])}
          /\ new.verdict = player[u].verdict
      BY <1>1, <2>1 DEF Players
    <3>7. new.start
      BY <1>1, <2>1, Zenon DEF Players
    <3>8. player[u].verdict # "media" /\ ~player[u].end
      BY <1>1, <2>1 DEF Told
    <3>9. new.end = player[u].end
      BY <1>1, Zenon DEF Players
    <3>10. ~new.end
      BY <3>8, <3>9, Zenon
    <3>4. player' = [player EXCEPT ![u] = new]
      BY <1>5, <2>3, <2>5, Zenon DEF ReceiveChunk, SpeechInv, SpeechTypeOK
    <3>5. chunks' = [chunks EXCEPT ![u] = Tail(chunks[u])]
      BY <1>5, <2>3, <2>5, Zenon DEF ReceiveChunk
    <3> HIDE DEF new
    <3>6. new.heard \subseteq {task[u].engine} /\ new.heard # {}
      BY <1>1, <2>2, <3>3 DEF OneEngine
    <3> QED
      BY <1>5, <2>1, <2>2, <3>2, <3>3, <3>4, <3>5, <3>6, <3>7, <3>8, <3>10,
         PlayerChange DEF ReceiveChunk
  <2> QED
    BY <2>4, <2>5
<1>3. CASE Conclude(u)
  <2>1. PICK outcome \in {"media", "failed"} :
          /\ outcome = "media" => task[u].good /\ player[u].start
          /\ player' = [player EXCEPT ![u].at = "done", ![u].verdict = outcome,
                                      ![u].end = player[u].start]
    BY <1>3 DEF Conclude
  <2> DEFINE new == [player[u] EXCEPT !.at = "done", !.verdict = outcome,
                                      !.end = player[u].start]
  <2>2. new \in Players
    BY <1>1 DEF Players
  <2>3. new.at = "done" /\ new.verdict = outcome /\ new.heard = player[u].heard
    BY <1>1 DEF Players
  <2>4. new.start = player[u].start /\ new.end = player[u].start
    BY <1>1, Zenon DEF Players
  <2>5. player' = [player EXCEPT ![u] = new]
    BY <2>1, Zenon DEF SpeechInv, SpeechTypeOK
  <2>6. chunks' = [chunks EXCEPT ![u] = <<>>] /\ chunks[u] = <<>>
    BY <1>3, Zenon DEF Conclude, SpeechInv, SpeechTypeOK
  <2> HIDE DEF new
  <2>9. player[u].at = "receiving" /\ ~Silent(task[u]) /\ UNCHANGED <<task, listening, backoff>>
    BY <1>3 DEF Conclude, Silent
  <2>10. /\ player[u].start => player[u].heard # {}
         /\ ~player[u].start => player[u].heard = {}
    BY <1>1, <2>9 DEF Told
  <2>7. /\ new.start = new.end
        /\ new.start => new.heard # {}
        /\ ~new.start => new.heard = {}
        /\ new.verdict = "media" => new.heard # {} /\ new.end
    BY <2>1, <2>3, <2>4, <2>10, Zenon
  <2>8. <<>> \in Seq({task[u].engine}) /\ <<>> \in Seq(ChainEngines)
    OBVIOUS
  <2>11. player[u].heard \subseteq {task[u].engine}
    BY <1>1 DEF OneEngine
  <2> QED
    BY <2>2, <2>3, <2>5, <2>6, <2>7, <2>8, <2>9, <2>11, PlayerChange
<1>6. CASE JoinFails(u)
  <2> DEFINE new == [player[u] EXCEPT !.at = "left", !.verdict = "failed"]
  <2>1. new \in Players
    BY <1>1 DEF Players
  <2>2. new.at = "left" /\ new.verdict = "failed" /\ new.heard = player[u].heard
    BY <1>1 DEF Players
  <2>3. new.start = player[u].start /\ new.end = player[u].end
    BY <1>1, Zenon DEF Players
  <2>4. player' = [player EXCEPT ![u] = new]
    BY <1>6, Zenon DEF JoinFails, SpeechInv, SpeechTypeOK
  <2>5. chunks' = [chunks EXCEPT ![u] = <<>>]
    BY <1>6, Zenon DEF JoinFails, SpeechInv, SpeechTypeOK
  <2> HIDE DEF new
  <2>6. /\ task[u].at = "died" /\ ~Silent(task[u]) /\ ~player[u].end
        /\ ~player[u].start => player[u].heard = {}
        /\ UNCHANGED <<task, listening, backoff>>
    BY <1>1, <1>6 DEF JoinFails, Told, Silent
  <2>7. ~new.end /\ (~new.start => new.heard = {})
    BY <2>2, <2>3, <2>6, Zenon
  <2>8. /\ <<>> \in Seq({task[u].engine}) /\ <<>> \in Seq(ChainEngines)
        /\ player[u].heard \subseteq {task[u].engine}
    BY <1>1 DEF OneEngine
  <2> QED
    BY <2>1, <2>2, <2>4, <2>5, <2>6, <2>7, <2>8, PlayerChange
<1>4. CASE SynthesisRefused(u)
  <2> DEFINE new == [player[u] EXCEPT !.at = "done", !.verdict = "failed"]
  <2>1. new \in Players
    BY <1>1 DEF Players
  <2>2. new.at = "done" /\ new.verdict = "failed" /\ new.heard = player[u].heard
    BY <1>1 DEF Players
  <2>3. new.start = player[u].start /\ new.end = player[u].end
    BY <1>1, Zenon DEF Players
  <2>4. player' = [player EXCEPT ![u] = new]
    BY <1>4, Zenon DEF SynthesisRefused, SpeechInv, SpeechTypeOK
  <2>5. chunks' = [chunks EXCEPT ![u] = chunks[u]]
    BY <1>4 DEF SynthesisRefused, SpeechInv, SpeechTypeOK
  <2> HIDE DEF new
  <2>6. ~new.start /\ ~new.end
    BY <1>1, <1>4, <2>3, Zenon DEF Told, SynthesisRefused
  <2>10. new.heard = {}
    BY <1>1, <1>4, <2>2 DEF Told, SynthesisRefused
  <2>7. new.start = new.end
    <3>1. player[u].start \in BOOLEAN /\ player[u].end \in BOOLEAN
      BY <1>1 DEF Players
    <3>2. ~player[u].start /\ ~player[u].end
      BY <1>1, <1>4 DEF Told, SynthesisRefused
    <3> QED
      BY <2>3, <3>1, <3>2, Zenon
  <2>8. /\ chunks[u] \in Seq({task[u].engine}) /\ player[u].heard \subseteq {task[u].engine}
        /\ Silent(task[u]) => chunks[u] = <<>> /\ player[u].heard = {}
        /\ chunks[u] \in Seq(ChainEngines)
    BY <1>1 DEF OneEngine, SpeechInv, SpeechTypeOK
  <2>9. UNCHANGED <<task, listening, backoff>>
    BY <1>4 DEF SynthesisRefused
  <2> QED
    BY <2>1, <2>2, <2>4, <2>5, <2>6, <2>7, <2>8, <2>9, <2>10, PlayerChange
<1> QED
  BY <1>2, <1>3, <1>4, <1>5, <1>6 DEF PlayerStep

LEMMA Starts ==
    ASSUME SpeechInv, NEW u \in Utterances, Synthesize(u)
    PROVE  SpeechInv'
<1>1. /\ task[u] \in SpeechTasks /\ player[u] \in Players
      /\ OneEngine(u) /\ Told(u)
  BY DEF SpeechInv, SpeechTypeOK
<1>2. task[u].at = "none" /\ player[u].at = "idle" /\ ~player[u].start /\ ~player[u].end
  BY <1>1 DEF Synthesize, Told
<1>3. chunks[u] = <<>> /\ player[u].heard = {} /\ player[u].verdict # "media" /\ ~player[u].end
  BY <1>1, <1>2 DEF OneEngine, Told, Silent
<1>4. PICK todo \in Seq(ChainEngines), able \in SUBSET ChainEngines :
        task' = [task EXCEPT ![u].at = "next", ![u].todo = todo, ![u].able = able]
  <2>1. CASE \E speaking \in SUBSET ChainEngines, cloned \in BOOLEAN :
               task' = [task EXCEPT ![u].at = "next", ![u].todo = Local,
                                    ![u].able = Able(speaking, cloned)]
    <3>1. PICK speaking \in SUBSET ChainEngines, cloned \in BOOLEAN :
               task' = [task EXCEPT ![u].at = "next", ![u].todo = Local,
                                    ![u].able = Able(speaking, cloned)]
      BY <2>1
    <3>2. Able(speaking, cloned) \in SUBSET ChainEngines /\ Local \in Seq(ChainEngines)
      BY SpeechAssumption DEF Able
    <3> QED
      BY <3>1, <3>2
  <2>2. CASE \E e \in Alone :
               task' = [task EXCEPT ![u].at = "next", ![u].todo = <<e>>, ![u].able = {e}]
    <3>1. PICK e \in Alone :
               task' = [task EXCEPT ![u].at = "next", ![u].todo = <<e>>, ![u].able = {e}]
      BY <2>2
    <3>2. {e} \in SUBSET ChainEngines /\ <<e>> \in Seq(ChainEngines)
      BY DEF ChainEngines
    <3> QED
      BY <3>1, <3>2
  <2> QED
    BY <2>1, <2>2 DEF Synthesize
<1> DEFINE chained == [task[u] EXCEPT !.at = "next", !.todo = todo, !.able = able]
           new == [player[u] EXCEPT !.at = "receiving"]
<1>5. chained \in SpeechTasks /\ chained.at = "next" /\ chained.engine = task[u].engine
  BY <1>1 DEF SpeechTasks
<1>6. new \in Players /\ new.at = "receiving" /\ new.heard = player[u].heard
      /\ new.verdict = player[u].verdict
  BY <1>1 DEF Players
<1>7. new.start = player[u].start /\ new.end = player[u].end
  BY <1>1, Zenon DEF Players
<1>8. task' = [task EXCEPT ![u] = chained]
  BY <1>4, Zenon DEF SpeechInv, SpeechTypeOK
<1>9. player' = [player EXCEPT ![u] = new]
  BY Zenon DEF Synthesize, SpeechInv, SpeechTypeOK
<1> HIDE DEF chained, new
<1>10. ~new.start /\ ~new.end
  BY <1>2, <1>3, <1>7, Zenon
<1>11. /\ task'[u] = chained /\ \A v \in Utterances \ {u} : task'[v] = task[v]
       /\ player'[u] = new /\ \A v \in Utterances \ {u} : player'[v] = player[v]
  BY <1>8, <1>9 DEF SpeechInv, SpeechTypeOK
<1>12. SpeechTypeOK'
  <2>1. UNCHANGED <<chunks, listening, backoff>>
    BY DEF Synthesize
  <2>2. task' \in [Utterances -> SpeechTasks] /\ player' \in [Utterances -> Players]
    BY <1>5, <1>6, <1>8, <1>9 DEF SpeechInv, SpeechTypeOK
  <2> QED
    BY <2>1, <2>2 DEF SpeechInv, SpeechTypeOK
<1>13. OneEngine(u)'
  BY <1>1, <1>3, <1>5, <1>6, <1>11 DEF Synthesize, OneEngine, Silent
<1>14. Told(u)'
  BY <1>3, <1>6, <1>10, <1>11 DEF Synthesize, Told
<1> QED
  BY <1>11, <1>12, <1>13, <1>14, OthersKeep DEF Synthesize

LEMMA SpeechStep == SpeechInv /\ [SpeechNext]_speechVars => SpeechInv'
<1> SUFFICES ASSUME SpeechInv, [SpeechNext]_speechVars PROVE SpeechInv'
  OBVIOUS
<1>1. CASE \E u \in Utterances : RoomGoes(u)
  <2>1. PICK u \in Utterances : RoomGoes(u)
    BY <1>1
  <2>2. /\ ~listening'[u] /\ \A v \in Utterances \ {u} : listening'[v] = listening[v]
        /\ listening' \in [Utterances -> BOOLEAN]
    BY <2>1, Zenon DEF RoomGoes, SpeechInv, SpeechTypeOK
  <2>3. SpeechTypeOK'
    BY <2>1, <2>2 DEF RoomGoes, SpeechInv, SpeechTypeOK
  <2>4. OneEngine(u) /\ Told(u)
    BY DEF SpeechInv
  <2>5. OneEngine(u)' /\ Told(u)'
    BY <2>1, <2>2, <2>4 DEF RoomGoes, OneEngine, Told
  <2> QED
    BY <2>1, <2>2, <2>3, <2>5, OthersKeep DEF RoomGoes
<1>2. CASE (\E e \in ChainEngines : BackoffEnds(e)) \/ UNCHANGED speechVars
  <2>1. UNCHANGED <<task, player, chunks, listening>>
        /\ backoff' \in [ChainEngines -> BOOLEAN]
    BY <1>2, Zenon DEF BackoffEnds, speechVars, SpeechInv, SpeechTypeOK
  <2> QED
    BY <2>1 DEF SpeechInv, SpeechTypeOK, OneEngine, Told
<1> QED
  BY <1>1, <1>2, Starts, TaskSteps, PlayerSteps DEF SpeechNext

\* What is heard of an utterance, and what waits in its channel, comes from one
\* engine, the worker leaves nothing but a room that is gone or a task that
\* panicked, and each stream that was started is ended but for those two reasons:
\* for every chain, channel and answer.
THEOREM SpeechStaysWhole == SpeechSpec => []SpeechIsWhole
<1>1. SpeechInv => SpeechIsWhole
  <2> SUFFICES ASSUME SpeechInv, NEW u \in Utterances
               PROVE  /\ Cardinality(player[u].heard \cup
                                       {chunks[u][i] : i \in DOMAIN chunks[u]}) <= 1
                      /\ player[u].at = "left" => ~listening[u] \/ task[u].at = "died"
                      /\ player[u].at \in {"left", "done"} /\ player[u].start /\ ~player[u].end
                            => /\ player[u].verdict = "failed"
                               /\ \/ task[u].at = "died"
                                  \/ ~listening[u] /\ player[u].heard = {}
                      /\ player[u].verdict = "media" => player[u].heard # {} /\ player[u].end
    BY DEF SpeechIsWhole, OneVoicePerUtterance, StreamsAreClosed
  <2> DEFINE voices == player[u].heard \cup {chunks[u][i] : i \in DOMAIN chunks[u]}
  <2>1. OneEngine(u) /\ Told(u)
    BY DEF SpeechInv
  <2>2. voices \subseteq {task[u].engine}
    BY <2>1 DEF OneEngine
  <2>3. IsFiniteSet({task[u].engine}) /\ Cardinality({task[u].engine}) = 1
    BY FS_Singleton
  <2>4. Cardinality(voices) <= 1
    BY <2>2, <2>3, FS_Subset
  <2>5. ~(player[u].at = "done" /\ player[u].start /\ ~player[u].end)
    BY <2>1, Zenon DEF Told
  <2>6. player[u].verdict = "media" => player[u].heard # {} /\ player[u].end
    BY <2>1 DEF Told
  <2>7. player[u].at = "left" => /\ player[u].verdict = "failed"
                                 /\ task[u].at = "died" \/ (~listening[u] /\ player[u].heard = {})
    BY <2>1 DEF Told
  <2>8. player[u].at \in {"left", "done"} /\ player[u].start /\ ~player[u].end
          => /\ player[u].verdict = "failed"
             /\ task[u].at = "died" \/ (~listening[u] /\ player[u].heard = {})
    <3>1. ASSUME player[u].at = "left"
          PROVE  /\ player[u].verdict = "failed"
                 /\ task[u].at = "died" \/ (~listening[u] /\ player[u].heard = {})
      BY <2>7, <3>1, Zenon
    <3>2. ASSUME player[u].at = "done", player[u].start, ~player[u].end
          PROVE  FALSE
      BY <2>5, <3>2, Zenon
    <3> QED
      BY <3>1, <3>2
  <2>9. player[u].at = "left" => ~listening[u] \/ task[u].at = "died"
    BY <2>7, Zenon
  <2> QED
    BY <2>4, <2>6, <2>8, <2>9, Zenon
<1> QED
  BY <1>1, SpeechStart, SpeechStep, PTL DEF SpeechSpec

-----------------------------------------------------------------------------
(* LivePreview: the engine hears all of the utterance, the translation     *)
(* sees every text, and nothing of the preview follows the transcript.     *)

UtteranceState == [at : {"speaking", "queued", "taken", "discarded", "dropped"},
                   frames : Nat, live : {"no", "up", "off"}]
ChannelState   == [audio : Seq(Seq(Nat)), open : BOOLEAN]
StreamState    == [at : {"none", "running"} \cup StreamEnds, sent : Seq(Nat), told : BOOLEAN,
                   texts : Nat, corrected : BOOLEAN, exited : BOOLEAN]
UpdatesState   == [at : {"none", "running", "ended"}, pending : Nat, text : Nat]
PreviewState   == [at : {"none", "waiting", "debouncing", "translating", "ended"},
                   seen : Nat, tried : Nat]
WorkerState    == [at : {"idle", "awaiting", "draining", "stopping", "retrying", "recognizing",
                         "feeding", "running", "publishing", "storing", "transcribed",
                         "dropping", "failing", "failed"}, tries : Nat]
OutputState    == [last : {"none", "queued", "text", "preview", "transcribing", "final",
                           "transcript", "discarded", "failed"}, open : BOOLEAN]

LiveTyped ==
    /\ utterance \in UtteranceState /\ channel \in ChannelState /\ stream \in StreamState
    /\ updates \in UpdatesState /\ preview \in PreviewState /\ worker \in WorkerState
    /\ output \in OutputState

\* Who works while the utterance is where it is.
PhasesAgree ==
    /\ utterance.at \in {"speaking", "queued", "discarded"} => worker.at = "idle"
    /\ utterance.live # "up" => preview.at \in {"none", "ended"} /\ updates.at # "running"
    /\ utterance.at = "speaking" /\ utterance.live # "up" =>
          preview.at = "none" /\ stream.at # "running"

\* The preview is over before the worker goes on with its own result.
PreviewIsOver ==
    /\ worker.at \in {"stopping", "retrying", "recognizing", "feeding", "running", "publishing",
                      "storing", "transcribed", "failing", "failed"} => updates.at # "running"
    /\ worker.at \in {"retrying", "recognizing", "feeding", "running", "publishing",
                      "storing", "transcribed", "failing", "failed"} =>
          preview.at \in {"none", "ended"}
    /\ worker.at \in {"storing", "transcribed"} => output.last \notin {"text", "preview"}

TextsAreTried == preview.at \in {"none", "waiting", "translating"} => preview.tried = preview.seen

\* The frames 1 to n, as one buffer.
Count(n) == [i \in 1..n |-> i]

\* What was sent and what waits in the channel are the frames so far: at first
\* one buffer with the recorded ones waits, then every frame comes by itself.
AllWaits(sent, audio, frames) ==
    /\ sent = <<>> /\ audio # <<>>
    /\ \E k \in Nat : /\ audio[1] = Count(k) /\ k + Len(audio) = frames + 1
                      /\ \A j \in 2..Len(audio) : audio[j] = <<k + j - 1>>
SomeSent(sent, audio, frames) ==
    \E m \in Nat : /\ sent = Count(m) /\ m + Len(audio) = frames
                   /\ \A j \in 1..Len(audio) : audio[j] = <<m + j>>

AudioFlows ==
    /\ stream.at = "running" => \/ AllWaits(stream.sent, channel.audio, utterance.frames)
                                \/ SomeSent(stream.sent, channel.audio, utterance.frames)
    /\ stream.at = "running" /\ utterance.at \in {"speaking", "queued", "discarded"} => channel.open
    /\ stream.told /\ stream.at # "failed" =>
          utterance.at # "speaking" /\ stream.sent = Count(utterance.frames)
    /\ stream.told /\ stream.at = "running" => channel.audio = <<>>
    /\ stream.at = "none" => ~stream.told

LiveInvariant == LiveTyped /\ PhasesAgree /\ PreviewIsOver /\ TextsAreTried /\ AudioFlows

-----------------------------------------------------------------------------
(* Buffers.                                                                *)

LEMMA Counts ==
    ASSUME NEW n \in Nat
    PROVE  /\ Count(n) \in Seq(Nat) /\ Len(Count(n)) = n
           /\ \A i \in 1..n : Count(n)[i] = i
           /\ Count(n) \o <<n + 1>> = Count(n + 1)
           /\ <<>> \o Count(n) = Count(n)
<1>1. \A m \in Nat : /\ Count(m) \in Seq(Nat) /\ Len(Count(m)) = m
                     /\ \A i \in 1..m : Count(m)[i] = i
  BY SeqDef, LenProperties DEF Count
<1>2. Count(n) \o <<n + 1>> = Count(n + 1)
  <2> DEFINE s == Count(n)
             t == <<n + 1>>
  <2>1. t \in Seq(Nat) /\ Len(t) = 1 /\ t[1] = n + 1
    OBVIOUS
  <2>2. s \in Seq(Nat) /\ Len(s) = n /\ \A i \in 1..n : s[i] = i
    BY <1>1
  <2> HIDE DEF s, t
  <2>3. /\ s \o t \in Seq(Nat) /\ Len(s \o t) = n + 1
        /\ \A i \in 1..(n + 1) : (s \o t)[i] = IF i <= n THEN s[i] ELSE t[i - n]
    <3>1. /\ s \o t \in Seq(Nat) /\ Len(s \o t) = Len(s) + Len(t)
          /\ \A i \in 1..(Len(s) + Len(t)) :
                (s \o t)[i] = IF i <= Len(s) THEN s[i] ELSE t[i - Len(s)]
      BY <2>1, <2>2, ConcatProperties
    <3>2. Len(s) = n /\ Len(t) = 1
      BY <2>1, <2>2
    <3> QED
      BY <3>1, <3>2
  <2>4. \A i \in 1..(n + 1) : (s \o t)[i] = i
    <3> SUFFICES ASSUME NEW i \in 1..(n + 1) PROVE (s \o t)[i] = i
      OBVIOUS
    <3>1. CASE i <= n
      <4>1. i \in 1..n
        BY <3>1
      <4> QED
        BY <2>2, <2>3, <3>1, <4>1
    <3>2. CASE ~(i <= n)
      <4>1. i = n + 1 /\ i - n = 1
        BY <3>2
      <4> QED
        BY <2>1, <2>3, <3>2, <4>1
    <3> QED
      BY <3>1, <3>2
  <2>5. n + 1 \in Nat
    OBVIOUS
  <2>6. Count(n + 1) \in Seq(Nat) /\ Len(Count(n + 1)) = n + 1
        /\ \A i \in 1..(n + 1) : Count(n + 1)[i] = i
    BY <1>1, <2>5
  <2>7. s \o t = Count(n + 1)
    BY <2>3, <2>4, <2>6, SeqEqual
  <2> QED
    BY <2>7 DEF s, t
<1> QED
  BY <1>1, <1>2, ConcatEmptySeq

LEMMA FlowStarts ==
    ASSUME NEW n \in Nat
    PROVE  AllWaits(<<>>, <<Count(n)>>, n) /\ <<Count(n)>> \in Seq(Seq(Nat))
<1> DEFINE s == Count(n)
<1>1. s \in Seq(Nat)
  BY Counts
<1> HIDE DEF s
<1> DEFINE audio == <<s>>
<1>2. audio \in Seq(Seq(Nat)) /\ Len(audio) = 1 /\ audio[1] = s /\ audio # <<>>
  BY <1>1
<1> HIDE DEF audio
<1>3. n + Len(audio) = n + 1 /\ \A j \in 2..Len(audio) : FALSE
  BY <1>2
<1>4. AllWaits(<<>>, audio, n)
  BY <1>2, <1>3 DEF AllWaits, s
<1> QED
  BY <1>2, <1>4 DEF audio, s

\* A frame goes in.
LEMMA FlowGrows ==
    ASSUME NEW sent, NEW audio \in Seq(Seq(Nat)), NEW n \in Nat,
           NEW more, more = Append(audio, <<n + 1>>)
    PROVE  /\ more \in Seq(Seq(Nat))
           /\ AllWaits(sent, audio, n) => AllWaits(sent, more, n + 1)
           /\ SomeSent(sent, audio, n) => SomeSent(sent, more, n + 1)
<1> DEFINE f == <<n + 1>>
<1>1. f \in Seq(Nat)
  OBVIOUS
<1> HIDE DEF f
<1>2. /\ more \in Seq(Seq(Nat)) /\ Len(more) = Len(audio) + 1 /\ Len(audio) \in Nat
      /\ \A j \in 1..Len(audio) : more[j] = audio[j]
      /\ more[Len(audio) + 1] = f
  BY <1>1, AppendProperties, LenProperties DEF f
<1>3. \A j \in 1..Len(more) : j \in 1..Len(audio) \/ j = Len(audio) + 1
  BY <1>2
<1>4. ASSUME AllWaits(sent, audio, n) PROVE AllWaits(sent, more, n + 1)
  <2>1. PICK k \in Nat : /\ audio[1] = Count(k) /\ k + Len(audio) = n + 1
                         /\ \A j \in 2..Len(audio) : audio[j] = <<k + j - 1>>
    BY <1>4 DEF AllWaits
  <2>2. audio # <<>> /\ Len(audio) > 0
    BY <1>2, <1>4, EmptySeq DEF AllWaits
  <2>3. more[1] = Count(k) /\ k + Len(more) = (n + 1) + 1 /\ more # <<>>
    <3>1. 1 \in 1..Len(audio) /\ Len(more) # 0
      BY <1>2, <2>2
    <3>2. k + Len(audio) = n + 1 /\ Len(audio) \in Nat /\ Len(more) = Len(audio) + 1
      BY <1>2, <2>1
    <3>3. k + Len(more) = (n + 1) + 1
      BY <3>2
    <3>4. more[1] = Count(k)
      BY <1>2, <2>1, <3>1
    <3> QED
      BY <1>2, <3>1, <3>3, <3>4, EmptySeq
  <2>4. ASSUME NEW j \in 2..Len(more) PROVE more[j] = <<k + j - 1>>
    <3>1. CASE j \in 1..Len(audio)
      BY <1>2, <2>1, <3>1
    <3>2. CASE j = Len(audio) + 1
      <4>1. k + j - 1 = n + 1
        BY <1>2, <2>1, <3>2
      <4> QED
        BY <1>2, <3>2, <4>1 DEF f
    <3>3. j \in 1..Len(more)
      BY <1>2
    <3> QED
      BY <1>3, <3>1, <3>2, <3>3
  <2> QED
    BY <1>4, <2>3, <2>4 DEF AllWaits
<1>5. ASSUME SomeSent(sent, audio, n) PROVE SomeSent(sent, more, n + 1)
  <2>1. PICK m \in Nat : /\ sent = Count(m) /\ m + Len(audio) = n
                         /\ \A j \in 1..Len(audio) : audio[j] = <<m + j>>
    BY <1>5 DEF SomeSent
  <2>2. m + Len(more) = n + 1
    <3>1. m + Len(audio) = n /\ Len(audio) \in Nat /\ Len(more) = Len(audio) + 1
      BY <1>2, <2>1
    <3> QED
      BY <3>1
  <2>3. ASSUME NEW j \in 1..Len(more) PROVE more[j] = <<m + j>>
    <3>1. CASE j \in 1..Len(audio)
      BY <1>2, <2>1, <3>1
    <3>2. CASE j = Len(audio) + 1
      <4>1. m + j = n + 1
        BY <1>2, <2>1, <3>2
      <4> QED
        BY <1>2, <3>2, <4>1 DEF f
    <3> QED
      BY <1>3, <3>1, <3>2
  <2> QED
    BY <2>1, <2>2, <2>3 DEF SomeSent
<1> QED
  BY <1>2, <1>4, <1>5

\* A buffer goes out.
LEMMA FlowShrinks ==
    ASSUME NEW sent \in Seq(Nat), NEW audio \in Seq(Seq(Nat)), NEW n \in Nat, audio # <<>>,
           AllWaits(sent, audio, n) \/ SomeSent(sent, audio, n),
           NEW gone, gone = sent \o Head(audio)
    PROVE  /\ gone \in Seq(Nat) /\ Tail(audio) \in Seq(Seq(Nat))
           /\ SomeSent(gone, Tail(audio), n)
<1> DEFINE rest == Tail(audio)
<1>1. /\ Len(audio) \in Nat \ {0} /\ rest \in Seq(Seq(Nat)) /\ Len(rest) = Len(audio) - 1
      /\ \A j \in 1..Len(rest) : rest[j] = audio[j + 1]
      /\ Head(audio) = audio[1] /\ Head(audio) \in Seq(Nat)
  BY HeadTailProperties, EmptySeq, LenProperties
<1> HIDE DEF rest
<1>2. gone \in Seq(Nat)
  BY <1>1, ConcatProperties
<1>3. \A j \in 1..Len(rest) : j + 1 \in 2..Len(audio) /\ j + 1 \in 1..Len(audio)
  BY <1>1
<1>4. CASE AllWaits(sent, audio, n)
  <2>1. PICK k \in Nat : /\ audio[1] = Count(k) /\ k + Len(audio) = n + 1
                         /\ \A j \in 2..Len(audio) : audio[j] = <<k + j - 1>>
    BY <1>4 DEF AllWaits
  <2>2. gone = Count(k)
    BY <1>1, <1>4, <2>1, Counts DEF AllWaits
  <2>3. k + Len(rest) = n
    BY <1>1, <2>1
  <2>4. ASSUME NEW j \in 1..Len(rest) PROVE rest[j] = <<k + j>>
    <3>1. k + (j + 1) - 1 = k + j
      BY <1>1
    <3> QED
      BY <1>1, <1>3, <2>1, <3>1
  <2> QED
    BY <1>1, <1>2, <2>2, <2>3, <2>4 DEF SomeSent, rest
<1>5. CASE SomeSent(sent, audio, n)
  <2>1. PICK m \in Nat : /\ sent = Count(m) /\ m + Len(audio) = n
                         /\ \A j \in 1..Len(audio) : audio[j] = <<m + j>>
    BY <1>5 DEF SomeSent
  <2>2. audio[1] = <<m + 1>>
    BY <1>1, <2>1
  <2>3. gone = Count(m + 1) /\ m + 1 \in Nat
    <3>1. gone = Count(m) \o <<m + 1>>
      BY <1>1, <2>1, <2>2
    <3>2. Count(m) \o <<m + 1>> = Count(m + 1)
      BY Counts
    <3>3. gone = Count(m + 1)
      BY <3>1, <3>2, Zenon
    <3>4. m + 1 \in Nat
      OBVIOUS
    <3> QED
      BY <3>3, <3>4
  <2>4. (m + 1) + Len(rest) = n
    <3> DEFINE a == Len(audio)
               b == Len(rest)
    <3>1. m + a = n /\ a \in Nat /\ b = a - 1
      BY <1>1, <2>1
    <3> HIDE DEF a, b
    <3>2. (m + 1) + b = n
      BY <3>1
    <3> QED
      BY <3>2 DEF b
  <2>5. ASSUME NEW j \in 1..Len(rest) PROVE rest[j] = <<(m + 1) + j>>
    <3>1. m + (j + 1) = (m + 1) + j
      BY <1>1
    <3> QED
      BY <1>1, <1>3, <2>1, <3>1
  <2> QED
    BY <1>1, <1>2, <2>3, <2>4, <2>5 DEF SomeSent, rest
<1> QED
  BY <1>4, <1>5

\* Nothing waits: everything was sent.
LEMMA FlowIsComplete ==
    ASSUME NEW sent, NEW n \in Nat, AllWaits(sent, <<>>, n) \/ SomeSent(sent, <<>>, n)
    PROVE  sent = Count(n)
<1>1. SomeSent(sent, <<>>, n)
  BY DEF AllWaits
<1>2. PICK m \in Nat : sent = Count(m) /\ m + Len(<<>>) = n
  BY <1>1 DEF SomeSent
<1>3. m = n
  BY <1>2
<1> QED
  BY <1>2, <1>3
-----------------------------------------------------------------------------
(* The session loop.                                                       *)

LEMMA LiveStart == LiveInit => LiveInvariant
<1> SUFFICES ASSUME LiveInit PROVE LiveInvariant
  OBVIOUS
<1>1. <<>> \in Seq(Nat) /\ <<>> \in Seq(Seq(Nat))
  BY EmptySeq
<1>2. LiveTyped
  <2>1. utterance \in UtteranceState /\ updates \in UpdatesState /\ preview \in PreviewState
        /\ worker \in WorkerState /\ output \in OutputState
    BY DEF LiveInit, UtteranceState, UpdatesState, PreviewState, WorkerState, OutputState
  <2>2. channel \in ChannelState
    BY <1>1 DEF LiveInit, ChannelState
  <2>3. stream \in StreamState
    BY <1>1 DEF LiveInit, FreshStream, StreamState
  <2> QED
    BY <2>1, <2>2, <2>3 DEF LiveTyped
<1>3. PhasesAgree /\ PreviewIsOver /\ TextsAreTried /\ AudioFlows
  BY DEF LiveInit, FreshStream, PhasesAgree, PreviewIsOver, TextsAreTried, AudioFlows
<1> QED
  BY <1>2, <1>3 DEF LiveInvariant

LEMMA BeginLiveStep ==
    ASSUME LiveInvariant, BeginLive
    PROVE  LiveInvariant'
<1>1. /\ utterance \in UtteranceState /\ updates \in UpdatesState /\ preview \in PreviewState
      /\ worker \in WorkerState /\ output \in OutputState /\ utterance.frames \in Nat
      /\ PhasesAgree /\ TextsAreTried
  BY DEF LiveInvariant, LiveTyped, UtteranceState
<1> DEFINE n == utterance.frames + 1
<1>2. n \in Nat
  BY <1>1
<1>3. /\ utterance.at = "speaking" /\ utterance.live = "no"
      /\ utterance' = [utterance EXCEPT !.frames = n, !.live = "up"]
      /\ channel' = [audio |-> <<Recorded'>>, open |-> TRUE]
      /\ stream' = [FreshStream EXCEPT !.at = "running"]
      /\ updates' = [updates EXCEPT !.at = "running"]
      /\ preview' = [preview EXCEPT !.at = "waiting"]
      /\ output' = [output EXCEPT !.last = "queued"]
      /\ worker' = worker
  BY <1>1 DEF BeginLive, BeginWith, UtteranceState
<1> HIDE DEF n
<1>4. /\ utterance' \in UtteranceState /\ utterance'.at = "speaking"
      /\ utterance'.frames = n /\ utterance'.live = "up"
  BY <1>1, <1>2, <1>3 DEF UtteranceState
<1>5. Recorded' = Count(n)
  BY <1>4 DEF Recorded, Count
<1>6. AllWaits(<<>>, channel'.audio, n) /\ channel' \in ChannelState /\ channel'.open
  BY <1>2, <1>3, <1>5, FlowStarts DEF ChannelState
<1>7. /\ stream' \in StreamState /\ stream'.at = "running" /\ stream'.sent = <<>> /\ ~stream'.told
  BY <1>3, EmptySeq DEF FreshStream, StreamState
<1>8. /\ updates' \in UpdatesState
      /\ preview' \in PreviewState /\ preview'.tried = preview'.seen
      /\ output' \in OutputState /\ worker'.at = "idle" /\ worker' \in WorkerState
  BY <1>1, <1>3 DEF UpdatesState, PreviewState, OutputState, PhasesAgree, TextsAreTried
<1> QED
  BY <1>4, <1>6, <1>7, <1>8
     DEF LiveInvariant, LiveTyped, PhasesAgree, PreviewIsOver, TextsAreTried, AudioFlows

LEMMA SpeakerLiveSteps ==
    ASSUME LiveInvariant, BeginFails \/ TakeFrame \/ EndUtterance \/ DiscardUtterance
    PROVE  LiveInvariant'
<1>1. /\ LiveTyped /\ PhasesAgree /\ PreviewIsOver /\ TextsAreTried /\ AudioFlows
      /\ utterance \in UtteranceState /\ channel \in ChannelState /\ stream \in StreamState
      /\ output \in OutputState
      /\ utterance.frames \in Nat /\ channel.audio \in Seq(Seq(Nat)) /\ stream.sent \in Seq(Nat)
  BY DEF LiveInvariant, LiveTyped, UtteranceState, ChannelState, StreamState
<1>2. UNCHANGED <<stream, updates, preview, worker>> /\ utterance.at = "speaking"
  BY DEF BeginFails, TakeFrame, EndUtterance, DiscardUtterance
<1>3. PICK s \in UtteranceState :
         /\ utterance' = s
         /\ s.live # "up" => utterance.live # "up"
         /\ s.at \in {"speaking", "queued", "discarded"}
         /\ (s.frames = utterance.frames /\ channel' = channel)
            \/ (s.frames = utterance.frames + 1 /\ s.at = "speaking" /\ stream.at # "running"
                 /\ channel' = channel)
            \/ (s.frames = utterance.frames + 1 /\ s.at = "speaking" /\ stream.at = "running"
                 /\ channel' = [channel EXCEPT !.audio = Append(channel.audio, <<utterance.frames + 1>>)])
  <2> DEFINE n == utterance.frames + 1
  <2>1. n \in Nat
    BY <1>1
  <2>2. CASE BeginFails
    <3>1. utterance' = [utterance EXCEPT !.frames = n, !.live = "off"] /\ channel' = channel
          /\ utterance.live = "no"
      BY <1>1, <2>2 DEF BeginFails, UtteranceState
    <3>2. stream.at # "running"
      BY <1>1, <1>2, <3>1 DEF PhasesAgree
    <3> HIDE DEF n
    <3>3. utterance' \in UtteranceState /\ utterance'.frames = n /\ utterance'.at = "speaking"
      BY <1>1, <1>2, <2>1, <3>1 DEF UtteranceState
    <3> QED
      BY <3>1, <3>2, <3>3 DEF n
  <2>3. CASE TakeFrame
    <3>1. utterance' = [utterance EXCEPT !.frames = n]
      BY <1>1, <2>3 DEF TakeFrame, UtteranceState
    <3> HIDE DEF n
    <3>2. /\ utterance' \in UtteranceState /\ utterance'.frames = n /\ utterance'.at = "speaking"
          /\ utterance'.live = utterance.live
      BY <1>1, <1>2, <2>1, <3>1 DEF UtteranceState
    <3>3. stream.at = "running" => utterance.live = "up"
      BY <1>1, <1>2 DEF PhasesAgree
    <3>4. CASE stream.at = "running"
      <4>1. channel' = [channel EXCEPT !.audio = Append(channel.audio, <<n>>)]
        BY <1>1, <2>3, <3>2, <3>3, <3>4 DEF TakeFrame, Streaming, ChannelState
      <4> QED
        BY <3>2, <3>4, <4>1 DEF n
    <3>5. CASE stream.at # "running"
      <4>1. channel' = channel
        BY <2>3, <3>5 DEF TakeFrame, Streaming
      <4> QED
        BY <3>2, <3>5, <4>1 DEF n
    <3> QED
      BY <3>4, <3>5
  <2>4. CASE EndUtterance \/ DiscardUtterance
    BY <1>1, <2>4 DEF EndUtterance, DiscardUtterance, UtteranceState
  <2> QED
    BY <2>2, <2>3, <2>4
<1>4. /\ s.at \in {"speaking", "queued", "discarded"} /\ s.frames \in Nat
      /\ worker.at = "idle"
  BY <1>1, <1>2, <1>3 DEF PhasesAgree, UtteranceState
<1>5. PhasesAgree'
  BY <1>1, <1>2, <1>3, <1>4 DEF PhasesAgree
<1>6. output' \in OutputState /\ PreviewIsOver' /\ TextsAreTried'
  <2>1. output' \in OutputState
    BY <1>1 DEF BeginFails, TakeFrame, EndUtterance, DiscardUtterance, OutputState
  <2> QED
    BY <1>1, <1>2, <1>4, <2>1 DEF PreviewIsOver, TextsAreTried
<1>7. channel' \in ChannelState /\ AudioFlows'
  <2>1. CASE s.frames = utterance.frames /\ channel' = channel
    BY <1>1, <1>2, <1>3, <2>1 DEF AudioFlows
  <2>2. CASE s.frames = utterance.frames + 1 /\ stream.at # "running" /\ channel' = channel
    BY <1>1, <1>2, <1>3, <2>2 DEF AudioFlows, StreamState
  <2>3. CASE /\ s.frames = utterance.frames + 1 /\ stream.at = "running"
             /\ channel' = [channel EXCEPT !.audio = Append(channel.audio, <<utterance.frames + 1>>)]
    <3> DEFINE more == Append(channel.audio, <<utterance.frames + 1>>)
    <3>1. more \in Seq(Seq(Nat))
          /\ (AllWaits(stream.sent, channel.audio, utterance.frames)
                => AllWaits(stream.sent, more, utterance.frames + 1))
          /\ (SomeSent(stream.sent, channel.audio, utterance.frames)
                => SomeSent(stream.sent, more, utterance.frames + 1))
      BY <1>1, FlowGrows
    <3>2. channel' = [channel EXCEPT !.audio = more]
      BY <2>3
    <3> HIDE DEF more
    <3>3. channel' \in ChannelState /\ channel'.audio = more /\ channel'.open = channel.open
      BY <1>1, <3>1, <3>2 DEF ChannelState
    <3>4. ~stream.told
      BY <1>1, <1>2, <2>3 DEF AudioFlows
    <3> QED
      BY <1>1, <1>2, <1>3, <2>3, <3>1, <3>3, <3>4 DEF AudioFlows
  <2> QED
    BY <1>3, <2>1, <2>2, <2>3
<1> QED
  BY <1>1, <1>2, <1>3, <1>5, <1>6, <1>7 DEF LiveInvariant, LiveTyped
-----------------------------------------------------------------------------
(* The engine's task.                                                      *)

\* A stream that works on or ends, without another buffer.
LEMMA StreamMoves ==
    ASSUME LiveInvariant, NEW s \in StreamState, NEW c \in ChannelState, NEW u \in UpdatesState,
           stream' = s, channel' = c, updates' = u, stream.at = "running",
           u.at = updates.at,
           UNCHANGED <<engine, utterance, preview, worker, output>>,
           \/ s.at = "running" /\ s.told = stream.told /\ s.sent = stream.sent /\ c = channel
           \/ s.at \in StreamEnds /\ s.told = stream.told /\ s.sent = stream.sent
    PROVE  LiveInvariant'
<1>1. s.at \notin {"none"} /\ s.at \in {"running"} \cup StreamEnds
  BY DEF StreamEnds
<1>2. LiveTyped'
  BY DEF LiveInvariant, LiveTyped
<1>3. PhasesAgree'
  BY DEF LiveInvariant, PhasesAgree, StreamEnds
<1>4. PreviewIsOver' /\ TextsAreTried'
  BY DEF LiveInvariant, PreviewIsOver, TextsAreTried
<1>5. AudioFlows'
  BY <1>1 DEF LiveInvariant, AudioFlows, StreamEnds
<1> QED
  BY <1>2, <1>3, <1>4, <1>5 DEF LiveInvariant

LEMMA SendSteps ==
    ASSUME LiveInvariant, SendAudio \/ SendEnd
    PROVE  LiveInvariant'
<1>1. /\ stream \in StreamState /\ channel \in ChannelState /\ stream.at = "running"
      /\ channel.audio \in Seq(Seq(Nat)) /\ stream.sent \in Seq(Nat)
      /\ utterance.frames \in Nat /\ AudioFlows
      /\ UNCHANGED <<engine, utterance, updates, preview, worker, output>>
  BY DEF LiveInvariant, LiveTyped, SendAudio, SendEnd, Streaming, StreamState, ChannelState,
         UtteranceState
<1>2. AllWaits(stream.sent, channel.audio, utterance.frames)
      \/ SomeSent(stream.sent, channel.audio, utterance.frames)
  BY <1>1 DEF AudioFlows
<1>3. CASE SendAudio
  <2> DEFINE gone == stream.sent \o Head(channel.audio)
             rest == Tail(channel.audio)
  <2>1. channel.audio # <<>> /\ stream' = [stream EXCEPT !.sent = gone]
        /\ channel' = [channel EXCEPT !.audio = rest]
    BY <1>1, <1>3 DEF SendAudio, StreamState, ChannelState
  <2>2. gone \in Seq(Nat) /\ rest \in Seq(Seq(Nat)) /\ SomeSent(gone, rest, utterance.frames)
    BY <1>1, <1>2, <2>1, FlowShrinks
  <2> HIDE DEF gone, rest
  <2>3. /\ stream' \in StreamState /\ stream'.sent = gone /\ stream'.at = "running"
        /\ stream'.told = stream.told
        /\ channel' \in ChannelState /\ channel'.audio = rest /\ channel'.open = channel.open
    BY <1>1, <2>1, <2>2 DEF StreamState, ChannelState
  <2>4. ~stream.told
    BY <1>1, <2>1 DEF AudioFlows
  <2>5. AudioFlows'
    BY <1>1, <2>2, <2>3, <2>4 DEF AudioFlows
  <2> QED
    BY <1>1, <2>3, <2>5
       DEF LiveInvariant, LiveTyped, PhasesAgree, PreviewIsOver, TextsAreTried
<1>4. CASE SendEnd
  <2>1. channel.audio = <<>> /\ ~channel.open /\ stream' = [stream EXCEPT !.told = TRUE]
        /\ channel' = channel
    BY <1>4 DEF SendEnd
  <2>2. /\ stream' \in StreamState /\ stream'.sent = stream.sent /\ stream'.at = "running"
    BY <1>1, <2>1 DEF StreamState
  <2>3. stream.sent = Count(utterance.frames)
    BY <1>1, <1>2, <2>1, FlowIsComplete
  <2>4. utterance.at # "speaking"
    BY <1>1, <2>1 DEF AudioFlows
  <2>5. AudioFlows'
    BY <1>1, <2>1, <2>2, <2>3, <2>4 DEF AudioFlows
  <2> QED
    BY <1>1, <2>1, <2>2, <2>5
       DEF LiveInvariant, LiveTyped, PhasesAgree, PreviewIsOver, TextsAreTried
<1> QED
  BY <1>3, <1>4

LEMMA EngineLiveSteps ==
    ASSUME LiveInvariant, EngineSteps \/ DemoReturns
    PROVE  LiveInvariant'
<1>1. /\ stream \in StreamState /\ channel \in ChannelState /\ updates \in UpdatesState
      /\ updates.pending \in Nat /\ stream.texts \in Nat
  BY DEF LiveInvariant, LiveTyped, UpdatesState, StreamState
<1>2. stream.at = "running"
  BY DEF EngineSteps, DemoReturns, EngineSays, ServerCorrects, ServerEnds, StreamFails,
         QwenExits, QwenReturns, TimesOut, Streaming
<1>3. ASSUME NEW ended \in StreamEnds, StreamEndsWith(ended), UNCHANGED updates
      PROVE  LiveInvariant'
  <2> DEFINE s == [stream EXCEPT !.at = ended]
             c == [audio |-> <<>>, open |-> FALSE]
  <2>1. s \in StreamState /\ s.at = ended /\ s.told = stream.told /\ s.sent = stream.sent
    BY <1>1 DEF StreamState
  <2>2. c \in ChannelState
    BY EmptySeq DEF ChannelState
  <2>3. stream' = s /\ channel' = c /\ UNCHANGED <<engine, utterance, preview, worker, output>>
    BY <1>3 DEF StreamEndsWith
  <2> HIDE DEF s, c
  <2> QED
    BY <1>1, <1>2, <1>3, <2>1, <2>2, <2>3, StreamMoves
<1>4. ASSUME NEW s \in StreamState, s.at = stream.at, s.told = stream.told, s.sent = stream.sent,
             stream' = s, NEW u \in UpdatesState, updates' = u, u.at = updates.at,
             UNCHANGED <<engine, utterance, channel, preview, worker, output>>
      PROVE  LiveInvariant'
  BY <1>1, <1>2, <1>4, StreamMoves
<1>5. CASE EngineSays
  <2> DEFINE n == stream.texts + 1
             p == updates.pending + 1
             s == [stream EXCEPT !.texts = n]
             u == [updates EXCEPT !.pending = p]
  <2>1. n \in Nat /\ p \in Nat
    BY <1>1
  <2>2. stream' = s /\ updates' = u
        /\ UNCHANGED <<engine, utterance, channel, preview, worker, output>>
    BY <1>1, <1>5 DEF EngineSays, StreamState, UpdatesState
  <2> HIDE DEF n, p
  <2>3. /\ s \in StreamState /\ s.at = stream.at /\ s.told = stream.told /\ s.sent = stream.sent
        /\ u \in UpdatesState /\ u.at = updates.at
    BY <1>1, <2>1 DEF StreamState, UpdatesState
  <2> HIDE DEF s, u
  <2> QED
    BY <1>4, <2>2, <2>3
<1>6. CASE ServerCorrects
  <2>1. CASE stream.told
    BY <1>3, <1>6, <2>1 DEF ServerCorrects, StreamEnds
  <2>2. CASE ~stream.told
    <3> DEFINE s == [stream EXCEPT !.corrected = TRUE]
    <3>1. s \in StreamState /\ s.at = stream.at /\ s.told = stream.told /\ s.sent = stream.sent
      BY <1>1 DEF StreamState
    <3>2. stream' = s /\ UNCHANGED <<engine, utterance, channel, updates, preview, worker, output>>
      BY <1>6, <2>2 DEF ServerCorrects
    <3> HIDE DEF s
    <3> QED
      BY <1>1, <1>4, <3>1, <3>2
  <2> QED
    BY <2>1, <2>2
<1>7. CASE QwenExits
  <2> DEFINE s == [stream EXCEPT !.exited = TRUE]
  <2>1. s \in StreamState /\ s.at = stream.at /\ s.told = stream.told /\ s.sent = stream.sent
    BY <1>1 DEF StreamState
  <2>2. stream' = s /\ UNCHANGED <<engine, utterance, channel, updates, preview, worker, output>>
    BY <1>7 DEF QwenExits
  <2> HIDE DEF s
  <2> QED
    BY <1>1, <1>4, <2>1, <2>2
<1>8. CASE ServerEnds \/ StreamFails \/ QwenReturns \/ TimesOut \/ DemoReturns
  <2>1. \A texts : Verdict(texts) \in StreamEnds
    BY DEF Verdict, StreamEnds
  <2>2. PICK ended \in StreamEnds : StreamEndsWith(ended)
    BY <1>8, <2>1 DEF ServerEnds, StreamFails, QwenReturns, TimesOut, DemoReturns, StreamEnds
  <2>3. UNCHANGED updates
    BY <1>8 DEF ServerEnds, StreamFails, QwenReturns, TimesOut, DemoReturns
  <2> QED
    BY <1>3, <2>2, <2>3
<1> QED
  BY <1>5, <1>6, <1>7, <1>8 DEF EngineSteps

-----------------------------------------------------------------------------
(* The preview.                                                            *)

LEMMA UpdateSteps ==
    ASSUME LiveInvariant, PublishText \/ UpdatesEnd \/ RoomCloses
    PROVE  LiveInvariant'
<1>1. /\ updates \in UpdatesState /\ output \in OutputState
      /\ updates.pending \in Nat /\ updates.text \in Nat
  BY DEF LiveInvariant, LiveTyped, UpdatesState
<1>2. UNCHANGED <<engine, utterance, channel, stream, preview, worker>>
  BY DEF PublishText, UpdatesEnd, RoomCloses
<1>3. /\ updates' \in UpdatesState /\ output' \in OutputState
      /\ updates'.at = "running" => updates.at = "running"
      /\ updates.at = "running" \/ output'.last = output.last
  <2>1. CASE PublishText
    <3> DEFINE p == updates.pending - 1
               t == updates.text + 1
               a == IF output.open THEN updates.at ELSE "ended"
    <3>1. p \in Nat /\ t \in Nat /\ updates.at = "running"
      BY <1>1, <2>1 DEF PublishText
    <3>2. updates' = [updates EXCEPT !.pending = p, !.text = t, !.at = a]
          /\ output' = IF output.open THEN [output EXCEPT !.last = "text"] ELSE output
      BY <1>1, <2>1 DEF PublishText, UpdatesState
    <3>3. a \in {"none", "running", "ended"}
      BY <1>1 DEF UpdatesState
    <3> HIDE DEF p, t, a
    <3>4. updates' \in UpdatesState
      BY <1>1, <3>1, <3>2, <3>3 DEF UpdatesState
    <3>5. output' \in OutputState
      BY <1>1, <3>2 DEF OutputState
    <3> QED
      BY <3>1, <3>4, <3>5
  <2>2. CASE UpdatesEnd
    BY <1>1, <2>2 DEF UpdatesEnd, UpdatesState
  <2>3. CASE RoomCloses
    BY <1>1, <2>3 DEF RoomCloses, OutputState
  <2> QED
    BY <2>1, <2>2, <2>3
<1>4. PhasesAgree' /\ PreviewIsOver'
  BY <1>2, <1>3 DEF LiveInvariant, PhasesAgree, PreviewIsOver
<1> QED
  BY <1>2, <1>3, <1>4 DEF LiveInvariant, LiveTyped, TextsAreTried, AudioFlows

LEMMA PreviewLiveSteps ==
    ASSUME LiveInvariant, PreviewSteps \/ PublishPreview \/ TranslationReturns
    PROVE  LiveInvariant'
<1>1. /\ preview \in PreviewState /\ output \in OutputState
      /\ updates.text \in Nat /\ TextsAreTried
  BY DEF LiveInvariant, LiveTyped, UpdatesState
<1>2. /\ UNCHANGED <<engine, utterance, channel, stream, updates, worker>>
      /\ preview.at \in {"waiting", "debouncing", "translating"}
  BY DEF PreviewSteps, SourceChanges, SourceCloses, Debounced, PublishPreview, TranslationReturns
<1>3. preview' \in PreviewState /\ TextsAreTried' /\ preview'.at # "none"
  <2>1. CASE SourceChanges
    BY <1>1, <2>1 DEF SourceChanges, PreviewState, TextsAreTried
  <2>2. CASE SourceCloses
    BY <1>1, <2>2 DEF SourceCloses, PreviewState, TextsAreTried
  <2>3. CASE Debounced
    BY <1>1, <2>3 DEF Debounced, PreviewState, TextsAreTried
  <2>4. CASE PublishPreview \/ TranslationReturns
    BY <1>1, <1>2, <2>4 DEF PublishPreview, TranslationReturns, PreviewState, TextsAreTried
  <2> QED
    BY <2>1, <2>2, <2>3, <2>4 DEF PreviewSteps
<1>4. output' \in OutputState
  BY <1>1 DEF PreviewSteps, SourceChanges, SourceCloses, Debounced, PublishPreview,
              TranslationReturns, OutputState
<1>5. PhasesAgree' /\ PreviewIsOver'
  BY <1>2, <1>3 DEF LiveInvariant, PhasesAgree, PreviewIsOver
<1> QED
  BY <1>2, <1>3, <1>4, <1>5 DEF LiveInvariant, LiveTyped, AudioFlows

-----------------------------------------------------------------------------
(* The transcription worker.                                               *)

LEMMA TakeJobStep ==
    ASSUME LiveInvariant, TakeJob
    PROVE  LiveInvariant'
<1>1. /\ utterance \in UtteranceState /\ channel \in ChannelState /\ worker \in WorkerState
      /\ output \in OutputState /\ PhasesAgree /\ PreviewIsOver /\ AudioFlows
  BY DEF LiveInvariant, LiveTyped
<1>2. /\ UNCHANGED <<engine, stream, updates, preview>> /\ utterance.at = "queued"
      /\ utterance' = [utterance EXCEPT !.at = "taken"]
      /\ channel' = [channel EXCEPT !.open = FALSE]
  BY DEF TakeJob
<1>3. PICK at \in {"awaiting", "retrying", "dropping"} :
         worker' = [worker EXCEPT !.at = at] /\ (at = "retrying" => utterance.live # "up")
  BY DEF TakeJob, WorkerGoes
<1>4. /\ utterance' \in UtteranceState /\ utterance'.at = "taken"
      /\ utterance'.live = utterance.live /\ utterance'.frames = utterance.frames
      /\ channel' \in ChannelState /\ channel'.audio = channel.audio
      /\ worker' \in WorkerState /\ worker'.at = at
  BY <1>1, <1>2, <1>3 DEF UtteranceState, ChannelState, WorkerState
<1>5. output' \in OutputState
  BY <1>1 DEF TakeJob, OutputState
<1>6. PhasesAgree' /\ PreviewIsOver'
  BY <1>1, <1>2, <1>3, <1>4 DEF PhasesAgree, PreviewIsOver
<1>7. AudioFlows'
  BY <1>1, <1>2, <1>4 DEF AudioFlows
<1> QED
  BY <1>2, <1>4, <1>5, <1>6, <1>7 DEF LiveInvariant, LiveTyped, TextsAreTried

\* Steps of the worker that leave the live stream alone, or find it over.
WorkerWorks ==
    \/ AwaitStream \/ AwaitUpdates \/ AbortTranslation \/ RetryRefused \/ PrepareAudio
    \/ BinaryReads \/ BatchAnswers \/ BatchFails \/ RetryText \/ RetryReturns
    \/ PublishTranscript \/ StoreTranscript \/ ReportFailure

LEMMA WorkerLiveSteps ==
    ASSUME LiveInvariant, WorkerWorks
    PROVE  LiveInvariant'
<1> DEFINE Over == {"stopping", "retrying", "recognizing", "feeding", "running", "publishing",
                    "storing", "transcribed", "failing", "failed"}
           Done == Over \ {"stopping"}
<1>1. /\ worker \in WorkerState /\ updates \in UpdatesState /\ stream \in StreamState
      /\ preview \in PreviewState /\ output \in OutputState /\ worker.tries \in Nat
      /\ updates.pending \in Nat
      /\ PhasesAgree /\ PreviewIsOver /\ TextsAreTried /\ AudioFlows
  BY DEF LiveInvariant, LiveTyped, WorkerState, UpdatesState
<1>2. /\ UNCHANGED <<engine, utterance, channel>>
      /\ worker.at \in {"awaiting", "draining"} \cup Over
  BY DEF WorkerWorks, WorkerGoes, AwaitStream, AwaitUpdates, AbortTranslation, RetryRefused,
         PrepareAudio, BinaryReads, BatchAnswers, BatchFails, RetryText, RetryReturns,
         PublishTranscript, StoreTranscript, ReportFailure
<1>3. utterance.at \notin {"speaking", "queued", "discarded"}
  BY <1>2 , <1>1 DEF PhasesAgree
<1>4. /\ worker' \in WorkerState
      /\ updates' \in UpdatesState /\ (updates' = updates \/ updates'.at = "ended" \/ updates'.at = updates.at)
      /\ preview' \in PreviewState
      /\ preview' = preview \/ preview'.at = "ended"
      /\ worker'.at \in {"draining"} \cup Over
      /\ worker'.at \in Over => updates'.at # "running"
      /\ worker'.at \in Done => preview'.at \in {"none", "ended"}
      /\ worker'.at \in {"storing", "transcribed"} => output'.last \notin {"text", "preview"}
  <2>1. CASE AwaitStream \/ AwaitUpdates \/ RetryRefused \/ BatchFails
    BY <1>1, <2>1 DEF AwaitStream, AwaitUpdates, RetryRefused, BatchFails, WorkerGoes, WorkerState,
                      PreviewIsOver
  <2>2. CASE AbortTranslation
    BY <1>1, <2>2 DEF AbortTranslation, WorkerGoes, Afterwards, WorkerState, PreviewState,
                      PreviewIsOver
  <2>3. CASE PrepareAudio
    BY <1>1, <2>3 DEF PrepareAudio, LanguageAttempts, WorkerState, UpdatesState, PreviewIsOver
  <2>4. CASE BinaryReads \/ RetryReturns
    BY <1>1, <2>4 DEF BinaryReads, RetryReturns, WorkerGoes, WorkerState, PreviewIsOver
  <2>5. CASE BatchAnswers
    <3>1. CASE worker' = [worker EXCEPT !.at = "publishing"]
               /\ updates' = [updates EXCEPT !.pending = 1]
      BY <1>1, <2>5, <3>1 DEF BatchAnswers, WorkerState, UpdatesState, PreviewIsOver
    <3>2. CASE UNCHANGED updates /\ worker.tries > 1
               /\ worker' = [at |-> "feeding", tries |-> worker.tries - 1]
      <4> DEFINE t == worker.tries - 1
      <4>1. t \in Nat
        BY <1>1, <3>2
      <4> HIDE DEF t
      <4>2. worker' \in WorkerState /\ worker'.at = "feeding"
        BY <3>2, <4>1 DEF t, WorkerState
      <4> QED
        BY <1>1, <2>5, <3>2, <4>2 DEF BatchAnswers, PreviewIsOver
    <3>3. CASE UNCHANGED updates /\ worker' = [worker EXCEPT !.at = "failing"]
      BY <1>1, <2>5, <3>3 DEF BatchAnswers, WorkerState, PreviewIsOver
    <3> QED
      BY <2>5, <3>1, <3>2, <3>3 DEF BatchAnswers
  <2>6. CASE RetryText
    <3> DEFINE p == updates.pending - 1
    <3>1. p \in Nat
      BY <1>1, <2>6 DEF RetryText
    <3>2. updates' = [updates EXCEPT !.pending = p]
      BY <1>1, <2>6 DEF RetryText, UpdatesState
    <3> HIDE DEF p
    <3>3. updates' \in UpdatesState /\ updates'.at = updates.at
      BY <1>1, <3>1, <3>2 DEF UpdatesState
    <3>4. worker' = worker \/ worker' = [worker EXCEPT !.at = "failing"]
      BY <2>6 DEF RetryText
    <3>5. worker' \in WorkerState /\ (worker'.at = worker.at \/ worker'.at = "failing")
          /\ worker.at \in {"recognizing", "publishing"} /\ preview' = preview
      BY <1>1, <2>6, <3>4 DEF RetryText, WorkerState
    <3> QED
      BY <1>1, <3>3, <3>5 DEF PreviewIsOver
  <2>7. CASE PublishTranscript
    BY <1>1, <2>7 DEF PublishTranscript, WorkerGoes, WorkerState, OutputState, PreviewIsOver
  <2>8. CASE StoreTranscript \/ ReportFailure
    BY <1>1, <2>8 DEF StoreTranscript, ReportFailure, WorkerGoes, WorkerState, OutputState,
                      PreviewIsOver
  <2> QED
    BY <2>1, <2>2, <2>3, <2>4, <2>5, <2>6, <2>7, <2>8 DEF WorkerWorks
<1>5. output' \in OutputState
  BY <1>1 DEF WorkerWorks, AwaitStream, AwaitUpdates, AbortTranslation, RetryRefused,
         PrepareAudio, BinaryReads, BatchAnswers, BatchFails, RetryText, RetryReturns,
         PublishTranscript, StoreTranscript, ReportFailure, OutputState
<1>6. stream' \in StreamState /\ (stream' = stream \/ (stream'.at = "failed" /\ stream.at = "running"))
  <2>1. CASE RetryText
    BY <1>1, <2>1 DEF RetryText, StreamState, StreamEnds, Streaming
  <2>2. CASE ~RetryText
    BY <1>1, <2>2 DEF WorkerWorks, AwaitStream, AwaitUpdates, AbortTranslation, RetryRefused,
         PrepareAudio, BinaryReads, BatchAnswers, BatchFails, RetryReturns,
         PublishTranscript, StoreTranscript, ReportFailure
  <2> QED
    BY <2>1, <2>2
<1>7. AudioFlows'
  BY <1>1, <1>2, <1>3, <1>6 DEF AudioFlows
<1>8. PhasesAgree'
  BY <1>1, <1>2, <1>3, <1>4 DEF PhasesAgree
<1>9. PreviewIsOver' /\ TextsAreTried'
  BY <1>1, <1>4 DEF PreviewIsOver, TextsAreTried
<1> QED
  BY <1>2, <1>4, <1>5, <1>6, <1>7, <1>8, <1>9 DEF LiveInvariant, LiveTyped

\* The second FunASR stream gets all of the recorded audio at once.
LEMMA ReconnectStep ==
    ASSUME LiveInvariant, Reconnect
    PROVE  LiveInvariant'
<1>1. /\ worker \in WorkerState /\ utterance.frames \in Nat /\ worker.at = "retrying"
      /\ PhasesAgree /\ PreviewIsOver
  BY DEF LiveInvariant, LiveTyped, UtteranceState, Reconnect, WorkerGoes
<1>2. /\ worker' = [worker EXCEPT !.at = "recognizing"]
      /\ stream' = [FreshStream EXCEPT !.at = "running"]
      /\ channel' = [audio |-> <<Recorded>>, open |-> FALSE]
      /\ updates' = [at |-> "ended", pending |-> 0, text |-> 0]
      /\ UNCHANGED <<engine, utterance, preview, output>>
  BY DEF Reconnect, WorkerGoes
<1>3. Recorded = Count(utterance.frames)
  BY DEF Recorded, Count
<1>4. AllWaits(<<>>, channel'.audio, utterance.frames) /\ channel' \in ChannelState
  BY <1>1, <1>2, <1>3, FlowStarts DEF ChannelState
<1>5. stream' \in StreamState /\ stream'.at = "running" /\ stream'.sent = <<>> /\ ~stream'.told
  BY <1>2, EmptySeq DEF FreshStream, StreamState
<1>6. /\ worker' \in WorkerState /\ worker'.at = "recognizing"
      /\ updates' \in UpdatesState /\ updates'.at = "ended"
  BY <1>1, <1>2 DEF WorkerState, UpdatesState
<1>7. utterance.at \notin {"speaking", "queued", "discarded"}
  BY <1>1 DEF PhasesAgree
<1>8. AudioFlows'
  BY <1>2, <1>4, <1>5, <1>7 DEF AudioFlows
<1>9. PhasesAgree' /\ PreviewIsOver'
  BY <1>1, <1>2, <1>6, <1>7 DEF PhasesAgree, PreviewIsOver
<1> QED
  BY <1>2, <1>4, <1>5, <1>6, <1>8, <1>9 DEF LiveInvariant, LiveTyped, TextsAreTried

LEMMA DropSteps ==
    ASSUME LiveInvariant, DropPreview
    PROVE  LiveInvariant'
<1>1. /\ LiveTyped /\ PhasesAgree /\ PreviewIsOver
  BY DEF LiveInvariant
<1>2. /\ utterance' \in UtteranceState /\ utterance'.at = "dropped"
      /\ updates' \in UpdatesState /\ updates'.at = "ended"
      /\ preview' \in PreviewState /\ preview'.at = "ended"
  BY <1>1 DEF DropPreview, LiveTyped, UtteranceState, UpdatesState, PreviewState
<1>3. channel' \in ChannelState
  BY EmptySeq DEF DropPreview, ChannelState
<1>4. stream' \in StreamState /\ stream'.at # "running"
      /\ (stream'.at = "failed" \/ stream' = stream)
  BY <1>1 DEF DropPreview, LiveTyped, StreamState, Streaming, StreamEnds
<1>5. /\ worker' \in WorkerState /\ output' \in OutputState
      /\ worker'.at \in {"idle", "failed"}
  BY <1>1 DEF DropPreview, LiveTyped, WorkerState, OutputState, PhasesAgree
<1>6. AudioFlows'
  BY <1>2, <1>4 DEF LiveInvariant, AudioFlows, DropPreview
<1>7. PhasesAgree' /\ PreviewIsOver' /\ TextsAreTried'
  BY <1>2, <1>5 DEF PhasesAgree, PreviewIsOver, TextsAreTried
<1> QED
  BY <1>2, <1>3, <1>4, <1>5, <1>6, <1>7 DEF LiveInvariant, LiveTyped
-----------------------------------------------------------------------------
LEMMA LiveKept == LiveInvariant /\ [LiveNext]_liveVars => LiveInvariant'
<1> SUFFICES ASSUME LiveInvariant, [LiveNext]_liveVars PROVE LiveInvariant'
  OBVIOUS
<1>1. CASE UNCHANGED liveVars
  BY <1>1 DEF liveVars, LiveInvariant, LiveTyped, PhasesAgree, PreviewIsOver, TextsAreTried,
              AudioFlows
<1>2. CASE LiveNext
  <2>1. \/ BeginLive \/ BeginFails \/ TakeFrame \/ EndUtterance \/ DiscardUtterance
        \/ RoomCloses \/ SendAudio \/ SendEnd \/ DemoReturns \/ EngineSteps
        \/ PublishText \/ UpdatesEnd \/ PreviewSteps \/ PublishPreview \/ TranslationReturns
        \/ TakeJob \/ Reconnect \/ DropPreview \/ WorkerWorks
    BY <1>2 DEF LiveNext, SpeakerSteps, StreamStep, WorkerSteps, WorkerWorks
  <2> QED
    BY <2>1, BeginLiveStep, SpeakerLiveSteps, UpdateSteps, SendSteps, EngineLiveSteps,
       PreviewLiveSteps, TakeJobStep, ReconnectStep, DropSteps, WorkerLiveSteps
<1> QED
  BY <1>1, <1>2

\* An engine that is told that the utterance is over has been sent all of it,
\* in order and once, whenever its stream began; and the translation of a
\* preview waits only after it has looked at the latest text. For utterances
\* of any length and channels of any size (session.rs 329, fun_asr.rs 274, jobs.rs 324).
THEOREM NothingGetsLost == LiveSpec => []NothingIsMissed
<1>1. LiveInvariant => NothingIsMissed
  BY DEF LiveInvariant, TextsAreTried, AudioFlows, NothingIsMissed, EnginesHearTheUtterance,
         NoTextIsMissed, Recorded, Count
<1> QED
  BY <1>1, LiveStart, LiveKept, PTL DEF LiveSpec

\* No step shows the room a preview of an utterance, a text or a translation,
\* after its transcript or its failure has been shown, whichever of the tasks
\* of the utterance is slow (jobs.rs 51).
THEOREM PreviewsEndFirst == LiveSpec => PreviewsEndBeforeResults
<1>1. LiveInvariant /\ LiveInvariant' /\ [LiveNext]_liveVars =>
         [worker.at \in {"storing", "transcribed"} => output'.last \notin {"text", "preview"}]_liveVars
  <2> SUFFICES ASSUME LiveInvariant, LiveInvariant', LiveNext,
                      worker.at \in {"storing", "transcribed"}
               PROVE  output'.last \notin {"text", "preview"}
    OBVIOUS
  <2>1. /\ output \in OutputState /\ output.last \notin {"text", "preview"}
        /\ updates.at # "running" /\ preview.at \in {"none", "ended"}
    BY DEF LiveInvariant, LiveTyped, PreviewIsOver
  <2>2. output'.last \in {output.last, "queued", "discarded", "failed", "transcribing", "final",
                          "transcript"}
    BY <2>1 DEF OutputState, LiveNext, SpeakerSteps, StreamStep, EngineSteps, PreviewSteps,
         WorkerSteps, BeginLive, BeginFails, TakeFrame, EndUtterance, DiscardUtterance,
         DropPreview, RoomCloses, StreamEndsWith, SendAudio, SendEnd, EngineSays,
         ServerCorrects, ServerEnds, StreamFails, QwenExits, QwenReturns, DemoReturns, TimesOut,
         PublishText, UpdatesEnd, SourceChanges, SourceCloses, Debounced, PublishPreview,
         TranslationReturns, WorkerGoes, TakeJob, AwaitStream, AwaitUpdates, AbortTranslation,
         Reconnect, RetryRefused, PrepareAudio, BinaryReads, BatchAnswers, BatchFails,
         RetryText, RetryReturns, PublishTranscript, StoreTranscript, ReportFailure
  <2> QED
    BY <2>1, <2>2
<1> QED
  BY <1>1, LiveStart, LiveKept, PTL DEF LiveSpec, PreviewsEndBeforeResults

-----------------------------------------------------------------------------
(* ManagerScript: one script at a time, and the one that is shown.         *)

\* The types of status(), without the bounded counters.
ScriptTyped ==
    /\ action \in [Processes -> Actions \cup {"none"}]
    /\ failed \in [Processes -> BOOLEAN]
    /\ script \in [Processes -> Actions \cup Ends \cup {"none"}]
    /\ model \in BOOLEAN /\ service \in {"down", "loading", "up"}

\* What run_action has stored is what its child does, or did.
FlagFollowsScript ==
    \A p \in Processes :
        /\ action[p] = "none" <=> script[p] = "none"
        /\ script[p] \in Actions => action[p] = script[p]

ScriptInvariant == ScriptTyped /\ FlagFollowsScript

\* One process moves; its flag and its script are what the step says.
LEMMA OneProcessMoves ==
    ASSUME ScriptInvariant, NEW p \in Processes,
           NEW a \in Actions \cup {"none"}, NEW e \in BOOLEAN,
           NEW s \in Actions \cup Ends \cup {"none"},
           action' = [action EXCEPT ![p] = a], failed' = [failed EXCEPT ![p] = e],
           script' = [script EXCEPT ![p] = s],
           model' \in BOOLEAN, service' \in {"down", "loading", "up"},
           a = "none" <=> s = "none", s \in Actions => a = s
    PROVE  ScriptInvariant'
BY DEF ScriptInvariant, ScriptTyped, FlagFollowsScript

LEMMA ScriptKept == ScriptInvariant /\ [ScriptNext]_scriptVars => ScriptInvariant'
<1> SUFFICES ASSUME ScriptInvariant, [ScriptNext]_scriptVars PROVE ScriptInvariant'
  OBVIOUS
<1>1. /\ action \in [Processes -> Actions \cup {"none"}] /\ failed \in [Processes -> BOOLEAN]
      /\ script \in [Processes -> Actions \cup Ends \cup {"none"}]
      /\ model \in BOOLEAN /\ service \in {"down", "loading", "up"}
  BY DEF ScriptInvariant, ScriptTyped
<1>2. ASSUME NEW p \in Processes, NEW a \in Actions, RunAction(p, a)
      PROVE  ScriptInvariant'
  <2>1. /\ action' = [action EXCEPT ![p] = a] /\ failed' = [failed EXCEPT ![p] = FALSE]
        /\ script' = [script EXCEPT ![p] = a] /\ UNCHANGED <<model, service>>
    BY <1>2 DEF RunAction, Launch
  <2> QED
    BY <1>1, <2>1, OneProcessMoves DEF Actions
<1>3. ASSUME NEW p \in Processes, ScriptExits(p)
      PROVE  ScriptInvariant'
  <2>1. PICK end \in Ends :
           /\ script' = [script EXCEPT ![p] = end]
           /\ model' = (model \/ (script[p] = "install" /\ end = "succeeded"))
           /\ service' = IF end = "failed" THEN service
                         ELSE IF script[p] = "stop" THEN "down"
                         ELSE IF service = "down" THEN "loading" ELSE service
    BY <1>3 DEF ScriptExits
  <2>2. service' \in {"down", "loading", "up"}
    BY <1>1, <2>1
  <2>3. model' \in BOOLEAN
    BY <2>1
  <2>4. /\ script[p] \in Actions /\ UNCHANGED <<action, failed>>
        /\ action[p] \in Actions
    BY <1>3 DEF ScriptExits, ScriptInvariant, FlagFollowsScript, Actions
  <2>5. PICK a \in Actions, e \in BOOLEAN :
           action' = [action EXCEPT ![p] = a] /\ failed' = [failed EXCEPT ![p] = e]
    <3>1. action' = [action EXCEPT ![p] = action[p]] /\ failed' = [failed EXCEPT ![p] = failed[p]]
      BY <1>1, <2>4
    <3>2. failed[p] \in BOOLEAN
      BY <1>1
    <3> QED
      BY <2>4, <3>1, <3>2
  <2>6. end \notin Actions /\ end # "none" /\ a # "none"
    BY DEF Ends, Actions
  <2> QED
    BY <2>1, <2>2, <2>3, <2>5, <2>6, OneProcessMoves
<1>4. ASSUME NEW p \in Processes, Release(p) \/ Restart(p)
      PROVE  ScriptInvariant'
  <2>1. PICK e \in BOOLEAN : failed' = [failed EXCEPT ![p] = e]
    BY <1>4 DEF Release, Restart
  <2>2. /\ action' = [action EXCEPT ![p] = "none"] /\ script' = [script EXCEPT ![p] = "none"]
        /\ UNCHANGED <<model, service>>
    BY <1>4 DEF Release, Restart
  <2> QED
    BY <1>1, <2>1, <2>2, OneProcessMoves DEF Actions
<1>5. CASE ServiceChanges
  <2>1. service' \in {"down", "loading", "up"} /\ UNCHANGED <<action, failed, script, model>>
    BY <1>5 DEF ServiceChanges
  <2> QED
    BY <2>1 DEF ScriptInvariant, ScriptTyped, FlagFollowsScript
<1>6. CASE UNCHANGED scriptVars
  BY <1>6 DEF scriptVars, ScriptInvariant, ScriptTyped, FlagFollowsScript
<1> QED
  BY <1>2, <1>3, <1>4, <1>5, <1>6 DEF ScriptNext, AutoStart, Actions

\* A child is replaced only by its end, or with its process.
LEMMA ScriptsDoNotOverlap ==
    ASSUME ScriptInvariant, [ScriptNext]_scriptVars, NEW p \in Processes,
           script[p] \in Actions, script'[p] # script[p]
    PROVE  script'[p] \in Ends \cup {"none"}
<1>1. script \in [Processes -> Actions \cup Ends \cup {"none"}] /\ action[p] # "none"
  BY DEF ScriptInvariant, ScriptTyped, FlagFollowsScript, Actions
<1>2. ASSUME NEW q \in Processes, NEW a \in Actions, RunAction(q, a)
      PROVE  script'[p] = script[p]
  BY <1>1, <1>2 DEF RunAction, Launch
<1>3. ASSUME NEW q \in Processes, ScriptExits(q)
      PROVE  script'[p] = script[p] \/ script'[p] \in Ends
  BY <1>1, <1>3 DEF ScriptExits
<1>4. ASSUME NEW q \in Processes, Release(q) \/ Restart(q)
      PROVE  script'[p] = script[p] \/ script'[p] = "none"
  BY <1>1, <1>4 DEF Release, Restart
<1> QED
  BY <1>2, <1>3, <1>4 DEF ScriptNext, AutoStart, ServiceChanges, scriptVars, Actions

\* The two safety parts of ScriptsTakeTurns: the panel shows a script as
\* running only while it runs, and a process runs one script at a time, whatever
\* was launched, failed, was probed or left behind by a restart of the process.
THEOREM ScriptsRunOneByOne == ScriptSpec => []ShownActionRuns /\ OneScriptPerProcess
<1>1. ScriptInit => ScriptInvariant
  BY DEF ScriptInit, ScriptInvariant, ScriptTyped, FlagFollowsScript, Actions
<1>2. ScriptInvariant /\ [ScriptNext]_scriptVars => ScriptInvariant'
  BY ScriptKept
<1>3. ScriptInvariant => ShownActionRuns
  <2> SUFFICES ASSUME FlagFollowsScript, NEW p \in Processes
               PROVE  /\ action[p] # "none" <=> script[p] # "none"
                      /\ script[p] \in Actions => Phase(p) = script[p]
    BY DEF ScriptInvariant, ShownActionRuns
  <2>1. "none" \notin Actions
    BY DEF Actions
  <2> QED
    BY <2>1 DEF FlagFollowsScript, Phase
<1>4. ScriptInvariant /\ [ScriptNext]_scriptVars =>
         [\A p \in Processes :
             script[p] \in Actions /\ script'[p] # script[p] =>
                 script'[p] \in Ends \cup {"none"}]_scriptVars
  BY ScriptsDoNotOverlap
<1> QED
  BY <1>1, <1>2, <1>3, <1>4, PTL DEF ScriptSpec, OneScriptPerProcess

-----------------------------------------------------------------------------
(* RoomAudio: the inputs under way, from the mixer to the session loop.    *)
(* Q is what waits in the channel and in the mixer, a the active segment   *)
(* of the session, k the mixer's segment (0 for none) with the speakers it *)
(* has named and at most `top' frames, n the segments cut so far.          *)

Types == {"configure", "start", "speakers", "audio", "end"}
Own(m) == m.type # "configure"

\* Before position j there is the start, the end of segment k.
Begun(Q, j, k)      == \E i \in 1..Len(Q) : i < j /\ Q[i].type = "start" /\ Q[i].id = k
EndsBefore(Q, j, k) == \E i \in 1..Len(Q) : i < j /\ Q[i].type = "end" /\ Q[i].id = k
First(Q, j, k)      == \A i \in 1..Len(Q) : i < j /\ Own(Q[i]) => Q[i].id = k

\* What is at position j for segment k finds that segment active, or none.
Belongs(Q, j, k, a) == Begun(Q, j, k) \/ (First(Q, j, k) /\ (a.id = 0 \/ a.id = k))

\* At position j the speakers S of segment k have been announced.
Named(Q, j, k, S, a) ==
    \/ S = {}
    \/ \E i \in 1..Len(Q) : i < j /\ Q[i].type = "speakers" /\ Q[i].id = k /\ S \subseteq Q[i].users
    \/ ~Begun(Q, j, k) /\ (a.id = k => S \subseteq a.speakers)

InOrder(Q, n) ==
    /\ \A i \in 1..Len(Q) : Q[i].type \in Types /\ (Own(Q[i]) => Q[i].id \in 1..n)
    /\ \A i, j \in 1..Len(Q) : i < j /\ Own(Q[i]) /\ Own(Q[j]) =>
          /\ Q[i].id <= Q[j].id
          /\ Q[i].id = Q[j].id => Q[i].type # "end" /\ Q[j].type # "start"
    /\ \A i, j \in 1..Len(Q) :
          i < j /\ Q[i].type = "speakers" /\ Q[j].type = "speakers" /\ Q[i].id = Q[j].id =>
              Q[i].users \subseteq Q[j].users

\* A segment that was opened ends before the next one opens.
Closes(Q, k) ==
    \A i \in 1..Len(Q) : Q[i].type = "start" =>
        /\ k = Q[i].id \/ EndsBefore(Q, Len(Q) + 1, Q[i].id)
        /\ \A j \in 1..Len(Q) : i < j /\ Q[j].type = "start" => EndsBefore(Q, j, Q[i].id)

FindsActive(Q, a, k, n) ==
    /\ \A j \in 1..Len(Q) : Q[j].type \in {"speakers", "audio", "end"} => Belongs(Q, j, Q[j].id, a)
    /\ a.id # 0 => /\ a.id <= n
                   /\ k = a.id \/ EndsBefore(Q, Len(Q) + 1, a.id)
                   /\ \A i \in 1..Len(Q) : Q[i].type = "start" => EndsBefore(Q, i, a.id)

Credits(Q, a) ==
    /\ \A j \in 1..Len(Q) : Q[j].type = "audio" => Named(Q, j, Q[j].id, Q[j].users, a)
    /\ \A i \in 1..Len(Q) : Q[i].type = "speakers" /\ Q[i].id = a.id => a.speakers \subseteq Q[i].users

Opened(Q, a, k, named, n) ==
    k # 0 => /\ k = n /\ Belongs(Q, Len(Q) + 1, k, a) /\ Named(Q, Len(Q) + 1, k, named, a)
             /\ \A i \in 1..Len(Q) : Q[i].id = k => Q[i].type # "end"
             /\ \A i \in 1..Len(Q) : Q[i].type = "speakers" /\ Q[i].id = k => Q[i].users \subseteq named
             /\ a.id = k => a.speakers \subseteq named

\* The frames of a segment can be numbered, within the mixer's limit, and the
\* session has taken fewer than the number of the next one.
Numbers(Q) == [1..Len(Q) -> 1..(MaxTicks + 1)]
Ranks(Q, a, k, top, r) ==
    /\ \A i, j \in 1..Len(Q) :
          i < j /\ Q[i].type = "audio" /\ Q[j].type = "audio" /\ Q[i].id = Q[j].id => r[i] < r[j]
    /\ \A i \in 1..Len(Q) : Q[i].type = "audio" /\ Q[i].id = a.id => a.frames < r[i]
    /\ \A i \in 1..Len(Q) : Q[i].type = "audio" /\ Q[i].id = k => r[i] <= top
    /\ a.id = k /\ k # 0 => a.frames <= top
Counted(Q, a, k, top) == \E r \in Numbers(Q) : Ranks(Q, a, k, top, r)

Flow(Q, a, k, named, top, n) ==
    /\ n \in Nat /\ k \in 0..n /\ top \in 0..(MaxTicks + 1) /\ a.id \in Nat /\ a.frames \in Nat
    /\ InOrder(Q, n) /\ Closes(Q, k) /\ FindsActive(Q, a, k, n) /\ Credits(Q, a)
    /\ Opened(Q, a, k, named, n) /\ Counted(Q, a, k, top)

-----------------------------------------------------------------------------
(* The mixer appends.                                                      *)

Longer(Q, P, m) ==
    /\ Len(Q) \in Nat /\ Len(P) = Len(Q) + 1
    /\ \A i \in 1..Len(Q) : i \in 1..Len(P) /\ P[i] = Q[i] /\ i < Len(Q) + 1 /\ i < Len(P) + 1
    /\ Len(Q) + 1 \in 1..Len(P) /\ P[Len(Q) + 1] = m
    /\ \A i \in 1..Len(P) : i \in 1..Len(Q) \/ i = Len(Q) + 1
    /\ \A i \in 1..Len(P) : i < Len(P) + 1

LEMMA Lengthened ==
    ASSUME NEW S, NEW Q \in Seq(S), NEW m \in S, NEW P, P = Append(Q, m)
    PROVE  P \in Seq(S) /\ Longer(Q, P, m)
<1>1. /\ P \in Seq(S) /\ Len(P) = Len(Q) + 1 /\ Len(Q) \in Nat
      /\ P[Len(Q) + 1] = m /\ \A i \in 1..Len(Q) : P[i] = Q[i]
  BY AppendProperties, LenProperties
<1> DEFINE n == Len(Q)
<1>2. n \in Nat /\ Len(P) = n + 1
  BY <1>1
<1> HIDE DEF n
<1>3. /\ \A i \in 1..n : i \in 1..Len(P) /\ i < n + 1 /\ i < Len(P) + 1
      /\ n + 1 \in 1..Len(P)
      /\ \A i \in 1..Len(P) : i \in 1..n \/ i = n + 1
      /\ \A i \in 1..Len(P) : i < Len(P) + 1
  BY <1>2
<1> QED
  BY <1>1, <1>3 DEF Longer, n

\* What was before a position is still there, and at the end there is one more.
LEMMA PlacesStay ==
    ASSUME NEW Q, NEW P, NEW m, Longer(Q, P, m), NEW a, NEW k
    PROVE  /\ \A j \in 1..Len(Q) : /\ Begun(P, j, k) <=> Begun(Q, j, k)
                                   /\ EndsBefore(P, j, k) <=> EndsBefore(Q, j, k)
                                   /\ Belongs(Q, j, k, a) => Belongs(P, j, k, a)
                                   /\ \A S : Named(Q, j, k, S, a) => Named(P, j, k, S, a)
           /\ Begun(P, Len(Q) + 1, k) <=> Begun(Q, Len(Q) + 1, k)
           /\ EndsBefore(P, Len(Q) + 1, k) <=> EndsBefore(Q, Len(Q) + 1, k)
           /\ Belongs(Q, Len(Q) + 1, k, a) => Belongs(P, Len(Q) + 1, k, a)
           /\ \A S : Named(Q, Len(Q) + 1, k, S, a) => Named(P, Len(Q) + 1, k, S, a)
           /\ Begun(P, Len(P) + 1, k) <=> Begun(Q, Len(Q) + 1, k) \/ (m.type = "start" /\ m.id = k)
           /\ EndsBefore(P, Len(P) + 1, k) <=> EndsBefore(Q, Len(Q) + 1, k) \/ (m.type = "end" /\ m.id = k)
<1>1. \A j \in 1..Len(P) : /\ Begun(P, j, k) <=> Begun(Q, j, k)
                           /\ EndsBefore(P, j, k) <=> EndsBefore(Q, j, k)
                           /\ First(P, j, k) <=> First(Q, j, k)
  <2> SUFFICES ASSUME NEW j \in 1..Len(P)
               PROVE  /\ Begun(P, j, k) <=> Begun(Q, j, k)
                      /\ EndsBefore(P, j, k) <=> EndsBefore(Q, j, k)
                      /\ First(P, j, k) <=> First(Q, j, k)
    OBVIOUS
  <2>1. \A i \in 1..Len(P) : i < j => i \in 1..Len(Q)
    BY DEF Longer
  <2>2. \A i \in 1..Len(Q) : i \in 1..Len(P) /\ P[i] = Q[i]
    BY DEF Longer
  <2>3. Begun(P, j, k) <=> Begun(Q, j, k)
    BY <2>1, <2>2 DEF Begun
  <2>4. EndsBefore(P, j, k) <=> EndsBefore(Q, j, k)
    BY <2>1, <2>2 DEF EndsBefore
  <2>5. First(P, j, k) <=> First(Q, j, k)
    BY <2>1, <2>2 DEF First
  <2> QED
    BY <2>3, <2>4, <2>5
<1>2. \A j \in 1..Len(Q) : j \in 1..Len(P)
  BY DEF Longer
<1>3. Len(Q) + 1 \in 1..Len(P)
  BY DEF Longer
<1>4. \A j \in 1..Len(P) : /\ Belongs(Q, j, k, a) => Belongs(P, j, k, a)
                           /\ \A S : Named(Q, j, k, S, a) => Named(P, j, k, S, a)
  <2>1. \A i \in 1..Len(Q) : i \in 1..Len(P) /\ P[i] = Q[i]
    BY DEF Longer
  <2> QED
    BY <1>1, <2>1 DEF Belongs, Named
<1>5. Begun(P, Len(P) + 1, k) <=> Begun(Q, Len(Q) + 1, k) \/ (m.type = "start" /\ m.id = k)
  BY DEF Longer, Begun
<1>6. EndsBefore(P, Len(P) + 1, k) <=> EndsBefore(Q, Len(Q) + 1, k) \/ (m.type = "end" /\ m.id = k)
  BY DEF Longer, EndsBefore
<1> QED
  BY <1>1, <1>2, <1>3, <1>4, <1>5, <1>6

\* What the mixer does to its segment while it appends m: it keeps it, ends it
\* or starts one.
Turns(m, k, kk) ==
    /\ kk = k \/ k = 0 \/ (m.type = "end" /\ m.id = k)
    /\ m.type = "start" => k = 0 /\ kk = m.id

LEMMA AppendInOrder ==
    ASSUME NEW Q, NEW P, NEW m, Longer(Q, P, m), NEW n \in Nat, NEW nn \in Nat, n <= nn,
           InOrder(Q, n), m.type \in Types, Own(m) => m.id \in 1..nn,
           \A i \in 1..Len(Q) : Own(Q[i]) /\ Own(m) =>
               /\ Q[i].id <= m.id
               /\ Q[i].id = m.id => Q[i].type # "end" /\ m.type # "start",
           \A i \in 1..Len(Q) : Q[i].type = "speakers" /\ m.type = "speakers" /\ Q[i].id = m.id =>
               Q[i].users \subseteq m.users
    PROVE  InOrder(P, nn)
<1>1. \A i \in 1..Len(P) : \/ i \in 1..Len(Q) /\ P[i] = Q[i]
                           \/ i = Len(Q) + 1 /\ P[i] = m
  BY DEF Longer
<1>2. \A i, j \in 1..Len(P) : i < j => i \in 1..Len(Q) /\ P[i] = Q[i]
  BY DEF Longer
<1> DEFINE N == Len(Q)
<1> HIDE DEF N
<1>3. \A i \in 1..Len(P) : P[i].type \in Types /\ (Own(P[i]) => P[i].id \in 1..nn)
  <2> TAKE i \in 1..Len(P)
  <2>1. CASE i \in 1..Len(Q) /\ P[i] = Q[i]
    <3>1. Q[i].type \in Types /\ (Own(Q[i]) => Q[i].id \in 1..n)
      BY <2>1 DEF InOrder
    <3> QED
      BY <3>1, <2>1
  <2>2. CASE P[i] = m
    BY <2>2
  <2> QED
    BY <1>1, <2>1, <2>2
<1>4. \A i, j \in 1..Len(P) : i < j /\ Own(P[i]) /\ Own(P[j]) =>
          /\ P[i].id <= P[j].id
          /\ P[i].id = P[j].id => P[i].type # "end" /\ P[j].type # "start"
  <2> TAKE i, j \in 1..Len(P)
  <2> HAVE i < j /\ Own(P[i]) /\ Own(P[j])
  <2>1. i \in 1..Len(Q) /\ P[i] = Q[i]
    BY <1>2
  <2>2. CASE j \in 1..Len(Q) /\ P[j] = Q[j]
    BY <2>1, <2>2 DEF InOrder
  <2>3. CASE P[j] = m
    BY <2>1, <2>3
  <2> QED
    BY <1>1, <2>2, <2>3
<1>5. \A i, j \in 1..Len(P) :
          i < j /\ P[i].type = "speakers" /\ P[j].type = "speakers" /\ P[i].id = P[j].id =>
              P[i].users \subseteq P[j].users
  <2> TAKE i, j \in 1..Len(P)
  <2> HAVE i < j /\ P[i].type = "speakers" /\ P[j].type = "speakers" /\ P[i].id = P[j].id
  <2>1. i \in 1..Len(Q) /\ P[i] = Q[i]
    BY <1>2
  <2>2. CASE j \in 1..Len(Q) /\ P[j] = Q[j]
    BY <2>1, <2>2 DEF InOrder
  <2>3. CASE P[j] = m
    BY <2>1, <2>3
  <2> QED
    BY <1>1, <2>2, <2>3
<1> QED
  BY <1>3, <1>4, <1>5 DEF InOrder

LEMMA AppendCloses ==
    ASSUME NEW Q, NEW P, NEW m, Longer(Q, P, m), NEW n \in Nat, InOrder(Q, n),
           NEW k, NEW kk, Closes(Q, k), Turns(m, k, kk)
    PROVE  Closes(P, kk)
<1>1. \A i \in 1..Len(P) : \/ i \in 1..Len(Q) /\ P[i] = Q[i]
                           \/ i = Len(Q) + 1 /\ P[i] = m
  BY DEF Longer
<1>2. SUFFICES ASSUME NEW i \in 1..Len(P), P[i].type = "start"
               PROVE  /\ kk = P[i].id \/ EndsBefore(P, Len(P) + 1, P[i].id)
                      /\ \A j \in 1..Len(P) : i < j /\ P[j].type = "start" => EndsBefore(P, j, P[i].id)
  BY DEF Closes
<1>3. CASE i \in 1..Len(Q) /\ P[i] = Q[i]
  <2>1. Q[i].type = "start"
    BY <1>2, <1>3
  <2>2. Q[i].id # 0
    BY <2>1, <1>3 DEF InOrder, Own
  <2>3. k = Q[i].id \/ EndsBefore(Q, Len(Q) + 1, Q[i].id)
    BY <2>1, <1>3 DEF Closes
  <2>4. \A j \in 1..Len(Q) : i < j /\ Q[j].type = "start" => EndsBefore(Q, j, Q[i].id)
    BY <2>1, <1>3 DEF Closes
  <2> DEFINE x == Q[i].id
  <2> HIDE DEF x
  <2>5. /\ \A j \in 1..Len(Q) : EndsBefore(P, j, x) <=> EndsBefore(Q, j, x)
        /\ EndsBefore(P, Len(Q) + 1, x) <=> EndsBefore(Q, Len(Q) + 1, x)
        /\ EndsBefore(P, Len(P) + 1, x) <=> EndsBefore(Q, Len(Q) + 1, x) \/ (m.type = "end" /\ m.id = x)
    BY PlacesStay
  <2>6. kk = x \/ EndsBefore(P, Len(P) + 1, x)
    BY <2>2, <2>3, <2>5 DEF Turns, x
  <2>7. ASSUME NEW j \in 1..Len(P), i < j, P[j].type = "start"
        PROVE  EndsBefore(P, j, x)
    <3>1. CASE j \in 1..Len(Q) /\ P[j] = Q[j]
      BY <2>4, <2>5, <2>7, <3>1 DEF x
    <3>2. CASE j = Len(Q) + 1 /\ P[j] = m
      <4>1. k = 0
        BY <2>7, <3>2 DEF Turns
      <4> QED
        BY <4>1, <2>2, <2>3, <2>5, <3>2 DEF x
    <3> QED
      BY <1>1, <3>1, <3>2
  <2> QED
    BY <1>3, <2>6, <2>7 DEF x
<1>4. CASE i = Len(Q) + 1 /\ P[i] = m
  <2>1. kk = m.id
    BY <1>2, <1>4 DEF Turns
  <2>2. \A j \in 1..Len(P) : ~(i < j)
    BY <1>4 DEF Longer
  <2> QED
    BY <1>4, <2>1, <2>2
<1> QED
  BY <1>1, <1>3, <1>4

LEMMA AppendFindsActive ==
    ASSUME NEW Q, NEW P, NEW m, Longer(Q, P, m), NEW n \in Nat, NEW nn \in Nat, n <= nn,
           NEW a, a.id \in Nat, NEW k, NEW kk, FindsActive(Q, a, k, n), Turns(m, k, kk),
           m.type \in {"speakers", "audio", "end"} => Belongs(Q, Len(Q) + 1, m.id, a)
    PROVE  FindsActive(P, a, kk, nn)
<1>1. \A i \in 1..Len(P) : \/ i \in 1..Len(Q) /\ P[i] = Q[i]
                           \/ i = Len(Q) + 1 /\ P[i] = m
  BY DEF Longer
<1>2. ASSUME NEW j \in 1..Len(P), P[j].type \in {"speakers", "audio", "end"}
      PROVE  Belongs(P, j, P[j].id, a)
  <2> DEFINE x == P[j].id
  <2> HIDE DEF x
  <2>1. /\ \A jj \in 1..Len(Q) : Belongs(Q, jj, x, a) => Belongs(P, jj, x, a)
        /\ Belongs(Q, Len(Q) + 1, x, a) => Belongs(P, Len(Q) + 1, x, a)
    BY PlacesStay
  <2>2. CASE j \in 1..Len(Q) /\ P[j] = Q[j]
    <3>1. Belongs(Q, j, x, a)
      BY <1>2, <2>2 DEF FindsActive, x
    <3> QED
      BY <2>1, <2>2, <3>1 DEF x
  <2>3. CASE j = Len(Q) + 1 /\ P[j] = m
    <3>1. Belongs(Q, Len(Q) + 1, x, a)
      BY <1>2, <2>3 DEF x
    <3> QED
      BY <2>1, <2>3, <3>1 DEF x
  <2> QED
    BY <1>1, <2>2, <2>3
<1>3. ASSUME a.id # 0
      PROVE  /\ a.id <= nn
             /\ kk = a.id \/ EndsBefore(P, Len(P) + 1, a.id)
             /\ \A i \in 1..Len(P) : P[i].type = "start" => EndsBefore(P, i, a.id)
  <2>1. /\ a.id <= n
        /\ k = a.id \/ EndsBefore(Q, Len(Q) + 1, a.id)
        /\ \A i \in 1..Len(Q) : Q[i].type = "start" => EndsBefore(Q, i, a.id)
    BY <1>3 DEF FindsActive
  <2> DEFINE x == a.id
  <2> HIDE DEF x
  <2>2. /\ \A j \in 1..Len(Q) : EndsBefore(P, j, x) <=> EndsBefore(Q, j, x)
        /\ EndsBefore(P, Len(Q) + 1, x) <=> EndsBefore(Q, Len(Q) + 1, x)
        /\ EndsBefore(P, Len(P) + 1, x) <=> EndsBefore(Q, Len(Q) + 1, x) \/ (m.type = "end" /\ m.id = x)
    BY PlacesStay
  <2>3. kk = x \/ EndsBefore(P, Len(P) + 1, x)
    BY <1>3, <2>1, <2>2 DEF Turns, x
  <2>4. ASSUME NEW i \in 1..Len(P), P[i].type = "start" PROVE EndsBefore(P, i, x)
    <3>1. CASE i \in 1..Len(Q) /\ P[i] = Q[i]
      BY <2>1, <2>2, <2>4, <3>1 DEF x
    <3>2. CASE i = Len(Q) + 1 /\ P[i] = m
      <4>1. k = 0
        BY <2>4, <3>2 DEF Turns
      <4> QED
        BY <1>3, <4>1, <2>1, <2>2, <3>2 DEF x
    <3> QED
      BY <1>1, <3>1, <3>2
  <2>5. a.id <= nn
    BY <2>1
  <2> QED
    BY <2>3, <2>4, <2>5 DEF x
<1> QED
  BY <1>2, <1>3 DEF FindsActive

LEMMA AppendCredits ==
    ASSUME NEW Q, NEW P, NEW m, Longer(Q, P, m), NEW a, Credits(Q, a),
           m.type = "audio" => Named(Q, Len(Q) + 1, m.id, m.users, a),
           m.type = "speakers" /\ m.id = a.id => a.speakers \subseteq m.users
    PROVE  Credits(P, a)
<1>1. \A i \in 1..Len(P) : \/ i \in 1..Len(Q) /\ P[i] = Q[i]
                           \/ i = Len(Q) + 1 /\ P[i] = m
  BY DEF Longer
<1>2. ASSUME NEW j \in 1..Len(P), P[j].type = "audio"
      PROVE  Named(P, j, P[j].id, P[j].users, a)
  <2> DEFINE x == P[j].id
             S == P[j].users
  <2> HIDE DEF x, S
  <2>1. /\ \A jj \in 1..Len(Q) : \A SS : Named(Q, jj, x, SS, a) => Named(P, jj, x, SS, a)
        /\ \A SS : Named(Q, Len(Q) + 1, x, SS, a) => Named(P, Len(Q) + 1, x, SS, a)
    BY PlacesStay
  <2>2. CASE j \in 1..Len(Q) /\ P[j] = Q[j]
    <3>1. Named(Q, j, x, S, a)
      BY <1>2, <2>2 DEF Credits, x, S
    <3> QED
      BY <2>1, <2>2, <3>1 DEF x, S
  <2>3. CASE j = Len(Q) + 1 /\ P[j] = m
    <3>1. Named(Q, Len(Q) + 1, x, S, a)
      BY <1>2, <2>3 DEF x, S
    <3> QED
      BY <2>1, <2>3, <3>1 DEF x, S
  <2> QED
    BY <1>1, <2>2, <2>3
<1>3. \A i \in 1..Len(P) : P[i].type = "speakers" /\ P[i].id = a.id => a.speakers \subseteq P[i].users
  BY <1>1 DEF Credits
<1> QED
  BY <1>2, <1>3 DEF Credits

\* The open segment goes on: with what is announced now.
LEMMA AppendOpened ==
    ASSUME NEW Q, NEW P, NEW m, Longer(Q, P, m), NEW n, NEW a, NEW k, NEW named, NEW wider,
           Opened(Q, a, k, named, n), m.type # "start", m.type # "end", Own(m) => m.id = k,
           named \subseteq wider, m.type = "speakers" => m.users = wider,
           wider = named \/ (m.type = "speakers" /\ m.id = k)
    PROVE  Opened(P, a, k, wider, n)
<1> SUFFICES ASSUME k # 0
             PROVE  /\ k = n /\ Belongs(P, Len(P) + 1, k, a) /\ Named(P, Len(P) + 1, k, wider, a)
                    /\ \A i \in 1..Len(P) : P[i].id = k => P[i].type # "end"
                    /\ \A i \in 1..Len(P) : P[i].type = "speakers" /\ P[i].id = k => P[i].users \subseteq wider
                    /\ a.id = k => a.speakers \subseteq wider
  BY DEF Opened
<1>1. \A i \in 1..Len(P) : \/ i \in 1..Len(Q) /\ P[i] = Q[i]
                           \/ i = Len(Q) + 1 /\ P[i] = m
  BY DEF Longer
<1>2. /\ k = n /\ Belongs(Q, Len(Q) + 1, k, a) /\ Named(Q, Len(Q) + 1, k, named, a)
      /\ \A i \in 1..Len(Q) : Q[i].id = k => Q[i].type # "end"
      /\ \A i \in 1..Len(Q) : Q[i].type = "speakers" /\ Q[i].id = k => Q[i].users \subseteq named
      /\ a.id = k => a.speakers \subseteq named
  BY DEF Opened
<1>3. Begun(P, Len(P) + 1, k) <=> Begun(Q, Len(Q) + 1, k)
  BY PlacesStay
<1>4. Belongs(P, Len(P) + 1, k, a)
  <2>1. CASE Begun(Q, Len(Q) + 1, k)
    BY <2>1, <1>3 DEF Belongs
  <2>2. CASE First(Q, Len(Q) + 1, k) /\ (a.id = 0 \/ a.id = k)
    <3>1. \A i \in 1..Len(Q) : i < Len(Q) + 1
      BY DEF Longer
    <3>2. First(P, Len(P) + 1, k)
      BY <1>1, <2>2, <3>1 DEF First
    <3> QED
      BY <2>2, <3>2 DEF Belongs
  <2> QED
    BY <1>2, <2>1, <2>2 DEF Belongs
<1>5. Named(P, Len(P) + 1, k, wider, a)
  <2>1. \A i \in 1..Len(Q) : i \in 1..Len(P) /\ P[i] = Q[i] /\ i < Len(P) + 1
    BY DEF Longer
  <2>2. CASE wider = named
    BY <1>2, <1>3, <2>1, <2>2 DEF Named
  <2>3. CASE m.type = "speakers" /\ m.id = k
    <3>1. Len(Q) + 1 \in 1..Len(P) /\ P[Len(Q) + 1] = m /\ Len(Q) + 1 < Len(P) + 1
      BY DEF Longer
    <3> QED
      BY <2>3, <3>1 DEF Named
  <2> QED
    BY <2>2, <2>3
<1>6. \A i \in 1..Len(P) : P[i].id = k => P[i].type # "end"
  BY <1>1, <1>2
<1>7. \A i \in 1..Len(P) : P[i].type = "speakers" /\ P[i].id = k => P[i].users \subseteq wider
  BY <1>1, <1>2
<1> QED
  BY <1>2, <1>4, <1>5, <1>6, <1>7

\* A segment is opened: nothing has been sent of it.
LEMMA AppendStart ==
    ASSUME NEW Q, NEW P, NEW m, Longer(Q, P, m), NEW n \in Nat, InOrder(Q, n), NEW a, a.id # n + 1,
           m.type = "start", m.id = n + 1
    PROVE  Opened(P, a, n + 1, {}, n + 1)
<1>1. \A i \in 1..Len(P) : \/ i \in 1..Len(Q) /\ P[i] = Q[i]
                           \/ i = Len(Q) + 1 /\ P[i] = m
  BY DEF Longer
<1>2. \A i \in 1..Len(Q) : Q[i].type \in {"speakers", "end"} => Q[i].id # n + 1
  BY DEF InOrder, Own
<1>3. Begun(P, Len(P) + 1, n + 1)
  BY DEF Begun, Longer
<1>4. Belongs(P, Len(P) + 1, n + 1, a) /\ Named(P, Len(P) + 1, n + 1, {}, a)
  BY <1>3 DEF Belongs, Named
<1>5. \A i \in 1..Len(P) : P[i].id = n + 1 => P[i].type # "end"
  BY <1>1, <1>2
<1>6. \A i \in 1..Len(P) : P[i].type = "speakers" /\ P[i].id = n + 1 => P[i].users \subseteq {}
  BY <1>1, <1>2
<1> QED
  BY <1>4, <1>5, <1>6 DEF Opened

\* A frame gets the number of its tick.
LEMMA AppendCounted ==
    ASSUME NEW Q, NEW P, NEW m, Longer(Q, P, m), NEW a, NEW k, NEW kk, NEW top, NEW above,
           top \in 0..(MaxTicks + 1), above \in 0..(MaxTicks + 1), a.frames \in Nat,
           Counted(Q, a, k, top), MaxTicks \in Nat,
           m.type = "audio" => m.id = k /\ kk = k /\ k # 0 /\ top < above,
           \/ kk = k /\ top <= above
           \/ /\ \A i \in 1..Len(Q) : Q[i].type = "audio" => Q[i].id # kk
              /\ kk # 0 => a.id # kk
    PROVE  Counted(P, a, kk, above)
<1>1. PICK r \in Numbers(Q) : Ranks(Q, a, k, top, r)
  BY DEF Counted
<1> DEFINE v == IF m.type = "audio" THEN above ELSE 1
           s == [i \in 1..Len(P) |-> IF i \in 1..Len(Q) THEN r[i] ELSE v]
<1>2. v \in 1..(MaxTicks + 1) /\ (m.type = "audio" => v = above)
  OBVIOUS
<1> HIDE DEF v
<1>3. s \in Numbers(P)
  BY <1>2 DEF Numbers
<1>4. \A i \in 1..Len(P) : \/ i \in 1..Len(Q) /\ P[i] = Q[i] /\ s[i] = r[i]
                           \/ i = Len(Q) + 1 /\ P[i] = m /\ s[i] = v
  BY DEF Longer
<1>5. \A i, j \in 1..Len(P) : i < j => i \in 1..Len(Q) /\ P[i] = Q[i] /\ s[i] = r[i]
  BY DEF Longer
<1>6. \A i \in 1..Len(Q) : r[i] \in 1..(MaxTicks + 1)
  BY DEF Numbers
<1> HIDE DEF s
<1>7. ASSUME NEW i \in 1..Len(P), NEW j \in 1..Len(P),
             i < j, P[i].type = "audio", P[j].type = "audio", P[i].id = P[j].id
      PROVE  s[i] < s[j]
  <2>1. i \in 1..Len(Q) /\ P[i] = Q[i] /\ s[i] = r[i]
    BY <1>5, <1>7
  <2>2. CASE j \in 1..Len(Q) /\ P[j] = Q[j] /\ s[j] = r[j]
    BY <1>1, <1>7, <2>1, <2>2 DEF Ranks
  <2>3. CASE P[j] = m /\ s[j] = v
    <3>1. m.type = "audio" /\ Q[i].id = k /\ Q[i].type = "audio"
      BY <1>7, <2>1, <2>3
    <3>2. r[i] <= top
      BY <1>1, <2>1, <3>1 DEF Ranks
    <3> QED
      BY <1>2, <1>6, <2>1, <2>3, <3>1, <3>2
  <2> QED
    BY <1>4, <2>2, <2>3
<1>8. ASSUME NEW i \in 1..Len(P), P[i].type = "audio", P[i].id = a.id
      PROVE  a.frames < s[i]
  <2>1. CASE i \in 1..Len(Q) /\ P[i] = Q[i] /\ s[i] = r[i]
    BY <1>1, <1>8, <2>1 DEF Ranks
  <2>2. CASE P[i] = m /\ s[i] = v
    <3>1. m.type = "audio" /\ a.id = k /\ k # 0
      BY <1>8, <2>2
    <3>2. a.frames <= top
      BY <1>1, <3>1 DEF Ranks
    <3> QED
      BY <1>2, <2>2, <3>1, <3>2
  <2> QED
    BY <1>4, <2>1, <2>2
<1>9. ASSUME NEW i \in 1..Len(P), P[i].type = "audio", P[i].id = kk
      PROVE  s[i] <= above
  <2>1. CASE i \in 1..Len(Q) /\ P[i] = Q[i] /\ s[i] = r[i]
    <3>1. kk = k /\ top <= above
      BY <1>9, <2>1
    <3>2. r[i] <= top
      BY <1>1, <1>9, <2>1, <3>1 DEF Ranks
    <3> QED
      BY <1>6, <2>1, <3>1, <3>2
  <2>2. CASE P[i] = m /\ s[i] = v
    BY <1>2, <1>9, <2>2
  <2> QED
    BY <1>4, <2>1, <2>2
<1>10. a.id = kk /\ kk # 0 => a.frames <= above
  BY <1>1 DEF Ranks
<1> QED
  BY <1>3, <1>7, <1>8, <1>9, <1>10 DEF Counted, Ranks

-----------------------------------------------------------------------------
(* The session loop takes the first input.                                 *)

Shorter(Q, T, h) ==
    /\ Len(T) \in Nat /\ Len(Q) = Len(T) + 1 /\ 1 \in 1..Len(Q) /\ Q[1] = h
    /\ \A i \in 1..Len(T) : i + 1 \in 1..Len(Q) /\ Q[i + 1] = T[i] /\ 1 < i + 1
    /\ \A i \in 1..Len(Q) : i = 1 \/ (i - 1 \in 1..Len(T) /\ (i - 1) + 1 = i)

\* What a place in the queue was before: one further back.
LEMMA PlacesMoveUp ==
    ASSUME NEW Q, NEW T, NEW h, Shorter(Q, T, h), NEW k, NEW j \in 1..(Len(T) + 1)
    PROVE  /\ Begun(Q, j + 1, k) <=> Begun(T, j, k) \/ (h.type = "start" /\ h.id = k)
           /\ EndsBefore(Q, j + 1, k) <=> EndsBefore(T, j, k) \/ (h.type = "end" /\ h.id = k)
           /\ First(Q, j + 1, k) <=> First(T, j, k) /\ (Own(h) => h.id = k)
<1> DEFINE N == Len(T)
           J == j + 1
<1>1. N \in Nat /\ j \in 1..(N + 1) /\ Len(Q) = N + 1
  BY DEF Shorter
<1> HIDE DEF N
<1>2. 1 \in 1..Len(Q) /\ Q[1] = h /\ 1 < J
  BY <1>1 DEF Shorter
<1>3. \A i \in 1..Len(T) : i < j => i + 1 \in 1..Len(Q) /\ Q[i + 1] = T[i] /\ i + 1 < J
  BY <1>1 DEF Shorter, N
<1>4. ASSUME NEW i \in 1..Len(Q), i < J
      PROVE  Q[i] = h \/ \E g \in 1..Len(T) : g < j /\ Q[i] = T[g]
  <2>1. CASE i = 1
    BY <1>2, <2>1
  <2>2. CASE i - 1 \in 1..Len(T) /\ (i - 1) + 1 = i
    <3>1. Q[i] = T[i - 1]
      BY <2>2 DEF Shorter
    <3>2. i - 1 < j
      BY <1>1, <1>4
    <3> QED
      BY <2>2, <3>1, <3>2
  <2> QED
    BY <2>1, <2>2 DEF Shorter
<1> HIDE DEF J
<1>5. \A i \in 1..Len(T) : i < j => \E g \in 1..Len(Q) : g < J /\ Q[g] = T[i]
  BY <1>3
<1>6. Begun(Q, J, k) <=> Begun(T, j, k) \/ (h.type = "start" /\ h.id = k)
  BY <1>2, <1>4, <1>5 DEF Begun
<1>7. EndsBefore(Q, J, k) <=> EndsBefore(T, j, k) \/ (h.type = "end" /\ h.id = k)
  BY <1>2, <1>4, <1>5 DEF EndsBefore
<1>8. First(Q, J, k) <=> First(T, j, k) /\ (Own(h) => h.id = k)
  BY <1>2, <1>4, <1>5 DEF First
<1> QED
  BY <1>6, <1>7, <1>8 DEF J

\* How taking h changes the active segment from a to b.
Takes1(h, a, b) ==
    /\ b.id \in Nat /\ b.frames \in Nat
    /\ b.id = 0 \/ b.id = a.id \/ (h.type = "start" /\ b.id = h.id)
    /\ h.type = "start" => b.id = 0 \/ (b.id = h.id /\ b.speakers = {} /\ b.frames = 0)
    /\ h.type = "end" => b.id = 0
    /\ h.type # "start" /\ b.id # 0 =>
          /\ b.speakers = IF h.type = "speakers" /\ h.id = a.id THEN h.users ELSE a.speakers
          /\ \/ b.frames = a.frames
             \/ h.type = "audio" /\ h.id = a.id /\ b.frames = a.frames + 1

LEMMA TakenInOrder ==
    ASSUME NEW Q, NEW T, NEW h, Shorter(Q, T, h), NEW n \in Nat, InOrder(Q, n)
    PROVE  InOrder(T, n)
<1>1. \A i \in 1..Len(T) : T[i].type \in Types /\ (Own(T[i]) => T[i].id \in 1..n)
  BY DEF InOrder, Shorter
<1>2. \A i, j \in 1..Len(T) : i < j <=> i + 1 < j + 1
  BY DEF Shorter
<1>3. \A i, j \in 1..Len(T) : i < j /\ Own(T[i]) /\ Own(T[j]) =>
          /\ T[i].id <= T[j].id
          /\ T[i].id = T[j].id => T[i].type # "end" /\ T[j].type # "start"
  <2> TAKE i, j \in 1..Len(T)
  <2>1. i + 1 \in 1..Len(Q) /\ j + 1 \in 1..Len(Q) /\ Q[i + 1] = T[i] /\ Q[j + 1] = T[j]
    BY DEF Shorter
  <2> QED
    BY <1>2, <2>1 DEF InOrder
<1>4. \A i, j \in 1..Len(T) :
          i < j /\ T[i].type = "speakers" /\ T[j].type = "speakers" /\ T[i].id = T[j].id =>
              T[i].users \subseteq T[j].users
  <2> TAKE i, j \in 1..Len(T)
  <2>1. i + 1 \in 1..Len(Q) /\ j + 1 \in 1..Len(Q) /\ Q[i + 1] = T[i] /\ Q[j + 1] = T[j]
    BY DEF Shorter
  <2> QED
    BY <1>2, <2>1 DEF InOrder
<1> QED
  BY <1>1, <1>3, <1>4 DEF InOrder

\* The first input and what follows it.
LEMMA HeadAndRest ==
    ASSUME NEW Q, NEW T, NEW h, Shorter(Q, T, h), NEW n \in Nat, InOrder(Q, n)
    PROVE  /\ Own(h) => h.id \in 1..n
           /\ \A i \in 1..Len(T) : Own(h) /\ Own(T[i]) =>
                 /\ h.id <= T[i].id
                 /\ h.id = T[i].id => h.type # "end" /\ T[i].type # "start"
           /\ \A i \in 1..Len(T) : h.type = "speakers" /\ T[i].type = "speakers" /\ h.id = T[i].id =>
                 h.users \subseteq T[i].users
<1>1. 1 \in 1..Len(Q) /\ Q[1] = h
  BY DEF Shorter
<1>2. \A i \in 1..Len(T) : i + 1 \in 1..Len(Q) /\ Q[i + 1] = T[i] /\ 1 < i + 1
  BY DEF Shorter
<1> QED
  BY <1>1, <1>2 DEF InOrder

LEMMA TakenCloses ==
    ASSUME NEW Q, NEW T, NEW h, Shorter(Q, T, h), NEW n \in Nat, InOrder(Q, n), NEW k, Closes(Q, k)
    PROVE  Closes(T, k)
<1> SUFFICES ASSUME NEW i \in 1..Len(T), T[i].type = "start"
             PROVE  /\ k = T[i].id \/ EndsBefore(T, Len(T) + 1, T[i].id)
                    /\ \A j \in 1..Len(T) : i < j /\ T[j].type = "start" => EndsBefore(T, j, T[i].id)
  BY DEF Closes
<1> DEFINE x == T[i].id
<1>1. ~(h.type = "end" /\ h.id = x)
  BY HeadAndRest DEF Own
<1>2. i + 1 \in 1..Len(Q) /\ Q[i + 1] = T[i] /\ Len(Q) = Len(T) + 1
  BY DEF Shorter
<1>3. /\ k = x \/ EndsBefore(Q, Len(Q) + 1, x)
      /\ \A j \in 1..Len(Q) : i + 1 < j /\ Q[j].type = "start" => EndsBefore(Q, j, x)
  BY <1>2 DEF Closes
<1>4. \A j \in 1..Len(T) : /\ j + 1 \in 1..Len(Q) /\ Q[j + 1] = T[j] /\ j \in 1..(Len(T) + 1)
                           /\ i < j => i + 1 < j + 1
  BY DEF Shorter
<1>5. Len(T) + 1 \in 1..(Len(T) + 1)
  BY DEF Shorter
<1> HIDE DEF x
<1>6. \A j \in 1..(Len(T) + 1) : EndsBefore(Q, j + 1, x) <=> EndsBefore(T, j, x)
  BY <1>1, PlacesMoveUp
<1>7. k = x \/ EndsBefore(T, Len(T) + 1, x)
  BY <1>2, <1>3, <1>5, <1>6
<1>8. \A j \in 1..Len(T) : i < j /\ T[j].type = "start" => EndsBefore(T, j, x)
  BY <1>3, <1>4, <1>6
<1> QED
  BY <1>7, <1>8 DEF x

\* What belonged to the active segment, or to the next, still does.
LEMMA TakenBelongs ==
    ASSUME NEW Q, NEW T, NEW h, Shorter(Q, T, h), NEW n \in Nat, InOrder(Q, n),
           NEW a, NEW b, Takes1(h, a, b), NEW x, NEW j \in 1..(Len(T) + 1),
           \A i \in 1..Len(T) : i < j /\ Own(T[i]) => T[i].id <= x,
           x \in Nat, Belongs(Q, j + 1, x, a)
    PROVE  Belongs(T, j, x, b)
<1>1. /\ Begun(Q, j + 1, x) <=> Begun(T, j, x) \/ (h.type = "start" /\ h.id = x)
      /\ First(Q, j + 1, x) => First(T, j, x)
  BY PlacesMoveUp
<1>2. CASE Begun(T, j, x)
  BY <1>2 DEF Belongs
<1>3. CASE h.type = "start" /\ h.id = x
  <2>1. \A i \in 1..Len(T) : Own(T[i]) => x <= T[i].id /\ T[i].id \in Nat
    <3>1. Own(h) /\ InOrder(T, n)
      BY <1>3, TakenInOrder DEF Own
    <3>2. \A i \in 1..Len(T) : Own(h) /\ Own(T[i]) => h.id <= T[i].id
      BY HeadAndRest
    <3> QED
      BY <1>3, <3>1, <3>2 DEF InOrder
  <2>2. First(T, j, x)
    BY <2>1 DEF First
  <2>3. b.id = 0 \/ b.id = x
    BY <1>3 DEF Takes1
  <2> QED
    BY <2>2, <2>3 DEF Belongs
<1>4. CASE ~(h.type = "start" /\ h.id = x) /\ First(T, j, x) /\ (a.id = 0 \/ a.id = x)
  <2>1. CASE h.type # "start"
    BY <1>4, <2>1 DEF Belongs, Takes1
  <2>2. CASE h.type = "start" /\ ~Begun(T, j, x)
    <3>1. First(Q, j + 1, x)
      BY <1>1, <1>4, <2>2, Zenon DEF Belongs
    <3>2. h.id = x
      BY <2>2, <3>1, PlacesMoveUp DEF Own
    <3> QED
      BY <1>4, <2>2, <3>2
  <2> QED
    BY <1>2, <2>1, <2>2
<1> QED
  BY <1>1, <1>2, <1>3, <1>4 DEF Belongs

LEMMA TakenNamed ==
    ASSUME NEW Q, NEW T, NEW h, Shorter(Q, T, h), NEW n \in Nat, InOrder(Q, n),
           NEW a, NEW b, Takes1(h, a, b), Credits(Q, a), NEW x, x # 0, NEW j \in 1..(Len(T) + 1), NEW S,
           Named(Q, j + 1, x, S, a)
    PROVE  Named(T, j, x, S, b)
<1>1. Begun(Q, j + 1, x) <=> Begun(T, j, x) \/ (h.type = "start" /\ h.id = x)
  BY PlacesMoveUp
<1>2. ~Begun(T, j, x) \/ ~(h.type = "speakers" /\ h.id = x)
  BY HeadAndRest DEF Begun, Own
<1>3. h.type = "speakers" /\ h.id = a.id => a.speakers \subseteq h.users
  BY DEF Credits, Shorter
<1>4. CASE S = {}
  BY <1>4 DEF Named
<1>5. CASE h.type = "speakers" /\ h.id = x /\ S \subseteq h.users
  <2>1. b.id = x => b.speakers = h.users
    BY <1>5 DEF Takes1
  <2> QED
    BY <1>2, <1>5, <2>1 DEF Named
<1>6. CASE \E i \in 1..Len(T) : i < j /\ T[i].type = "speakers" /\ T[i].id = x /\ S \subseteq T[i].users
  BY <1>6 DEF Named
<1>7. CASE ~Begun(Q, j + 1, x) /\ (a.id = x => S \subseteq a.speakers)
  <2>1. ~(h.type = "start" /\ h.id = x) /\ ~Begun(T, j, x)
    BY <1>1, <1>7
  <2>2. b.id = x => a.id = x /\ h.type # "start"
    BY <2>1 DEF Takes1
  <2>3. b.id = x => S \subseteq b.speakers
    BY <1>3, <1>7, <2>2 DEF Takes1
  <2> QED
    BY <2>1, <2>3 DEF Named
<1>8. ASSUME NEW i \in 1..Len(Q), i < j + 1, Q[i].type = "speakers", Q[i].id = x, S \subseteq Q[i].users
      PROVE  \/ h.type = "speakers" /\ h.id = x /\ S \subseteq h.users
             \/ \E g \in 1..Len(T) : g < j /\ T[g].type = "speakers" /\ T[g].id = x /\ S \subseteq T[g].users
  <2>1. i = 1 \/ (i - 1 \in 1..Len(T) /\ (i - 1) + 1 = i /\ Q[i] = T[i - 1] /\ i - 1 < j)
    BY <1>8 DEF Shorter
  <2> QED
    BY <1>8, <2>1 DEF Shorter
<1> QED
  BY <1>4, <1>5, <1>6, <1>7, <1>8 DEF Named

LEMMA TakenFindsActive ==
    ASSUME NEW Q, NEW T, NEW h, Shorter(Q, T, h), NEW n \in Nat, InOrder(Q, n), NEW k, Closes(Q, k),
           NEW a, NEW b, a.id \in Nat, Takes1(h, a, b), FindsActive(Q, a, k, n)
    PROVE  FindsActive(T, b, k, n)
<1>1. ASSUME NEW j \in 1..Len(T), T[j].type \in {"speakers", "audio", "end"}
      PROVE  Belongs(T, j, T[j].id, b)
  <2> DEFINE x == T[j].id
  <2>1. /\ j + 1 \in 1..Len(Q) /\ Q[j + 1] = T[j] /\ j \in 1..(Len(T) + 1)
        /\ Q[j + 1].type \in {"speakers", "audio", "end"}
    BY <1>1 DEF Shorter
  <2>2. Belongs(Q, j + 1, x, a)
    BY <2>1 DEF FindsActive
  <2>3. InOrder(T, n) /\ Own(T[j])
    BY <1>1, TakenInOrder DEF Own
  <2>4. x \in Nat /\ \A i \in 1..Len(T) : i < j /\ Own(T[i]) => T[i].id <= x
    BY <2>3 DEF InOrder
  <2> HIDE DEF x
  <2>5. Belongs(T, j, x, b)
    BY <2>1, <2>2, <2>4, TakenBelongs
  <2> QED
    BY <2>5 DEF x
<1>2. ASSUME b.id # 0
      PROVE  /\ b.id <= n
             /\ k = b.id \/ EndsBefore(T, Len(T) + 1, b.id)
             /\ \A i \in 1..Len(T) : T[i].type = "start" => EndsBefore(T, i, b.id)
  <2> DEFINE x == b.id
  <2>1. h.type # "end"
    BY <1>2 DEF Takes1
  <2>2. /\ x <= n
        /\ k = x \/ EndsBefore(Q, Len(Q) + 1, x)
        /\ \A i \in 1..Len(Q) : Q[i].type = "start" /\ 1 < i => EndsBefore(Q, i, x)
    <3>1. CASE x = a.id
      BY <1>2, <3>1 DEF FindsActive
    <3>2. CASE h.type = "start" /\ x = h.id
      <4>1. 1 \in 1..Len(Q) /\ Q[1] = h
        BY DEF Shorter
      <4>2. x <= n
        BY <3>2, <4>1 DEF InOrder, Own
      <4> QED
        BY <3>2, <4>1, <4>2 DEF Closes
    <3> QED
      BY <1>2, <3>1, <3>2 DEF Takes1
  <2> HIDE DEF x
  <2>3. \A j \in 1..(Len(T) + 1) : EndsBefore(Q, j + 1, x) <=> EndsBefore(T, j, x)
    BY <2>1, PlacesMoveUp
  <2>4. /\ Len(Q) = Len(T) + 1 /\ Len(T) + 1 \in 1..(Len(T) + 1)
        /\ \A i \in 1..Len(T) : i \in 1..(Len(T) + 1) /\ i + 1 \in 1..Len(Q)
                                /\ Q[i + 1] = T[i] /\ 1 < i + 1
    BY DEF Shorter
  <2>5. k = x \/ EndsBefore(T, Len(T) + 1, x)
    BY <2>2, <2>3, <2>4
  <2>6. \A i \in 1..Len(T) : T[i].type = "start" => EndsBefore(T, i, x)
    BY <2>2, <2>3, <2>4
  <2> QED
    BY <2>2, <2>5, <2>6 DEF x
<1> QED
  BY <1>1, <1>2 DEF FindsActive

LEMMA TakenCredits ==
    ASSUME NEW Q, NEW T, NEW h, Shorter(Q, T, h), NEW n \in Nat, InOrder(Q, n),
           NEW a, NEW b, Takes1(h, a, b), Credits(Q, a)
    PROVE  Credits(T, b)
<1>1. ASSUME NEW j \in 1..Len(T), T[j].type = "audio"
      PROVE  Named(T, j, T[j].id, T[j].users, b)
  <2> DEFINE x == T[j].id
             S == T[j].users
  <2>1. j + 1 \in 1..Len(Q) /\ Q[j + 1] = T[j] /\ j \in 1..(Len(T) + 1)
    BY DEF Shorter
  <2>2. Named(Q, j + 1, x, S, a)
    BY <1>1, <2>1 DEF Credits
  <2>3. x # 0
    BY <1>1, <2>1 DEF InOrder, Own
  <2> HIDE DEF x, S
  <2>4. Named(T, j, x, S, b)
    BY <2>1, <2>2, <2>3, TakenNamed
  <2> QED
    BY <2>4 DEF x, S
<1>2. ASSUME NEW i \in 1..Len(T), T[i].type = "speakers", T[i].id = b.id
      PROVE  b.speakers \subseteq T[i].users
  <2>1. /\ i + 1 \in 1..Len(Q) /\ Q[i + 1] = T[i]
        /\ T[i].id # 0
    BY <1>2 DEF Shorter, InOrder, Own
  <2>2. CASE h.type = "start"
    BY <1>2, <2>1, <2>2 DEF Takes1
  <2>3. CASE h.type # "start" /\ b.id = a.id
    <3>1. a.speakers \subseteq T[i].users
      BY <1>2, <2>1, <2>3 DEF Credits
    <3>2. h.type = "speakers" /\ h.id = a.id => h.users \subseteq T[i].users
      BY <1>2, <2>3, HeadAndRest
    <3> QED
      BY <1>2, <2>1, <2>3, <3>1, <3>2 DEF Takes1
  <2> QED
    BY <1>2, <2>1, <2>2, <2>3 DEF Takes1
<1> QED
  BY <1>1, <1>2 DEF Credits

LEMMA TakenOpened ==
    ASSUME NEW Q, NEW T, NEW h, Shorter(Q, T, h), NEW n \in Nat, InOrder(Q, n),
           NEW a, NEW b, Takes1(h, a, b), Credits(Q, a), NEW k, NEW named,
           Opened(Q, a, k, named, n)
    PROVE  Opened(T, b, k, named, n)
<1> SUFFICES ASSUME k # 0
             PROVE  /\ k = n /\ Belongs(T, Len(T) + 1, k, b) /\ Named(T, Len(T) + 1, k, named, b)
                    /\ \A i \in 1..Len(T) : T[i].id = k => T[i].type # "end"
                    /\ \A i \in 1..Len(T) : T[i].type = "speakers" /\ T[i].id = k => T[i].users \subseteq named
                    /\ b.id = k => b.speakers \subseteq named
  BY DEF Opened
<1>1. /\ k = n /\ Belongs(Q, Len(Q) + 1, k, a) /\ Named(Q, Len(Q) + 1, k, named, a)
      /\ \A i \in 1..Len(Q) : Q[i].id = k => Q[i].type # "end"
      /\ \A i \in 1..Len(Q) : Q[i].type = "speakers" /\ Q[i].id = k => Q[i].users \subseteq named
      /\ a.id = k => a.speakers \subseteq named
  BY DEF Opened
<1>2. /\ Len(Q) = Len(T) + 1 /\ Len(T) + 1 \in 1..(Len(T) + 1)
      /\ 1 \in 1..Len(Q) /\ Q[1] = h
      /\ \A i \in 1..Len(T) : i + 1 \in 1..Len(Q) /\ Q[i + 1] = T[i]
  BY DEF Shorter
<1>3. InOrder(T, n)
  BY TakenInOrder
<1>4. \A i \in 1..Len(T) : Own(T[i]) => T[i].id <= k
  BY <1>1, <1>3 DEF InOrder
<1>5. k \in Nat
  BY <1>1
<1>6. Belongs(T, Len(T) + 1, k, b)
  BY <1>1, <1>2, <1>4, <1>5, TakenBelongs
<1>7. Named(T, Len(T) + 1, k, named, b)
  BY <1>1, <1>2, TakenNamed
<1>8. \A i \in 1..Len(T) : T[i].id = k => T[i].type # "end"
  BY <1>1, <1>2
<1>9. \A i \in 1..Len(T) : T[i].type = "speakers" /\ T[i].id = k => T[i].users \subseteq named
  BY <1>1, <1>2
<1>10. b.id = k => b.speakers \subseteq named
  BY <1>1, <1>2 DEF Takes1
<1> QED
  BY <1>1, <1>6, <1>7, <1>8, <1>9, <1>10

LEMMA TakenCounted ==
    ASSUME NEW Q, NEW T, NEW h, Shorter(Q, T, h), NEW n \in Nat, InOrder(Q, n),
           NEW a, a.frames \in Nat, NEW b, Takes1(h, a, b), NEW k, NEW top \in Nat, MaxTicks \in Nat,
           Counted(Q, a, k, top)
    PROVE  Counted(T, b, k, top)
<1>1. PICK r \in Numbers(Q) : Ranks(Q, a, k, top, r)
  BY DEF Counted
<1> DEFINE s == [i \in 1..Len(T) |-> r[i + 1]]
<1>2. /\ 1 \in 1..Len(Q) /\ Q[1] = h
      /\ \A i \in 1..Len(T) : i + 1 \in 1..Len(Q) /\ Q[i + 1] = T[i] /\ 1 < i + 1
      /\ \A i, j \in 1..Len(T) : i < j => i + 1 < j + 1
  BY DEF Shorter
<1>3. s \in Numbers(T)
  BY <1>2 DEF Numbers
<1>4. \A i \in 1..Len(T) : s[i] = r[i + 1]
  OBVIOUS
<1>5. \A i \in 1..Len(Q) : r[i] \in 1..(MaxTicks + 1)
  BY DEF Numbers
<1> HIDE DEF s
<1>6. \A i, j \in 1..Len(T) :
          i < j /\ T[i].type = "audio" /\ T[j].type = "audio" /\ T[i].id = T[j].id => s[i] < s[j]
  BY <1>1, <1>2, <1>4 DEF Ranks
<1>7. ASSUME NEW i \in 1..Len(T), T[i].type = "audio", T[i].id = b.id
      PROVE  b.frames < s[i]
  <2>1. T[i].id # 0
    BY <1>2, <1>7 DEF InOrder, Own
  <2>2. CASE h.type = "start"
    <3>1. b.frames = 0
      BY <1>7, <2>1, <2>2 DEF Takes1
    <3>2. s[i] = r[i + 1] /\ r[i + 1] \in 1..(MaxTicks + 1)
      BY <1>2, <1>4, <1>5
    <3> QED
      BY <3>1, <3>2
  <2>3. CASE h.type # "start" /\ b.id = a.id
    <3>1. a.frames < s[i]
      BY <1>1, <1>2, <1>4, <1>7, <2>3 DEF Ranks
    <3>2. CASE h.type = "audio" /\ h.id = a.id
      <4>1. a.frames < r[1] /\ r[1] < r[i + 1]
        BY <1>1, <1>2, <1>7, <2>3, <3>2 DEF Ranks
      <4>2. b.frames = a.frames \/ b.frames = a.frames + 1
        BY <1>7, <2>1, <2>3, <3>2 DEF Takes1
      <4> QED
        BY <1>2, <1>4, <1>5, <4>1, <4>2
    <3>3. CASE ~(h.type = "audio" /\ h.id = a.id)
      BY <1>7, <2>1, <2>3, <3>1, <3>3 DEF Takes1
    <3> QED
      BY <3>2, <3>3
  <2> QED
    BY <1>7, <2>1, <2>2, <2>3 DEF Takes1
<1>8. \A i \in 1..Len(T) : T[i].type = "audio" /\ T[i].id = k => s[i] <= top
  BY <1>1, <1>2, <1>4 DEF Ranks
<1>9. ASSUME b.id = k, k # 0
      PROVE  b.frames <= top
  <2>1. CASE h.type = "start"
    BY <1>9, <2>1 DEF Takes1
  <2>2. CASE h.type # "start" /\ b.id = a.id
    <3>1. a.frames <= top
      BY <1>1, <1>9, <2>2 DEF Ranks
    <3>2. CASE h.type = "audio" /\ h.id = a.id
      <4>1. a.frames < r[1] /\ r[1] <= top
        BY <1>1, <1>2, <1>9, <2>2, <3>2 DEF Ranks
      <4>2. b.frames = a.frames \/ b.frames = a.frames + 1
        BY <1>9, <2>2, <3>2 DEF Takes1
      <4> QED
        BY <1>2, <1>5, <4>1, <4>2
    <3>3. CASE ~(h.type = "audio" /\ h.id = a.id)
      BY <1>9, <2>2, <3>1, <3>3 DEF Takes1
    <3> QED
      BY <3>2, <3>3
  <2> QED
    BY <1>9, <2>1, <2>2 DEF Takes1
<1> QED
  BY <1>3, <1>6, <1>7, <1>8, <1>9 DEF Counted, Ranks

\* The whole of it.
LEMMA FlowGoesOn ==
    ASSUME NEW Q, NEW T, NEW h, Shorter(Q, T, h), MaxTicks \in Nat, NEW a, NEW b, Takes1(h, a, b),
           NEW k, NEW named, NEW top, NEW n, Flow(Q, a, k, named, top, n)
    PROVE  Flow(T, b, k, named, top, n)
<1>1. /\ n \in Nat /\ k \in 0..n /\ top \in 0..(MaxTicks + 1) /\ a.id \in Nat /\ a.frames \in Nat
      /\ InOrder(Q, n) /\ Closes(Q, k) /\ FindsActive(Q, a, k, n) /\ Credits(Q, a)
      /\ Opened(Q, a, k, named, n) /\ Counted(Q, a, k, top)
  BY DEF Flow
<1>2. b.id \in Nat /\ b.frames \in Nat
  BY DEF Takes1
<1>3. InOrder(T, n)
  BY <1>1, TakenInOrder
<1>4. Closes(T, k)
  BY <1>1, TakenCloses
<1>5. FindsActive(T, b, k, n)
  BY <1>1, TakenFindsActive
<1>6. Credits(T, b)
  BY <1>1, TakenCredits
<1>7. Opened(T, b, k, named, n)
  BY <1>1, TakenOpened
<1>8. top \in Nat
  BY <1>1
<1>9. Counted(T, b, k, top)
  BY <1>1, <1>8, TakenCounted
<1> QED
  BY <1>1, <1>2, <1>3, <1>4, <1>5, <1>6, <1>7, <1>9 DEF Flow

\* What the session loop finds at the head of the queue.
LEMMA HeadFindsItsSegment ==
    ASSUME NEW Q, NEW T, NEW h, Shorter(Q, T, h), MaxTicks \in Nat, NEW a,
           NEW k, NEW named, NEW top, NEW n, Flow(Q, a, k, named, top, n)
    PROVE  /\ Own(h) => h.id \in 1..n
           /\ h.type = "start" => a.id = 0
           /\ h.type \in {"speakers", "audio", "end"} => a.id = 0 \/ a.id = h.id
           /\ h.type = "audio" /\ a.id = h.id => h.users \subseteq a.speakers /\ a.frames <= MaxTicks
           /\ h.type = "speakers" /\ a.id = h.id => a.speakers \subseteq h.users
<1>1. 1 \in 1..Len(Q) /\ Q[1] = h /\ Len(Q) \in Nat
  BY DEF Shorter
<1>2. \A x : ~Begun(Q, 1, x) /\ ~EndsBefore(Q, 1, x)
  BY DEF Begun, EndsBefore
<1>3. Own(h) => h.id \in 1..n
  BY <1>1 DEF Flow, InOrder
<1>4. h.type = "start" => a.id = 0
  BY <1>1, <1>2 DEF Flow, FindsActive
<1>5. h.type \in {"speakers", "audio", "end"} => a.id = 0 \/ a.id = h.id
  BY <1>1, <1>2 DEF Flow, FindsActive, Belongs
<1>6. ASSUME h.type = "audio", a.id = h.id
      PROVE  h.users \subseteq a.speakers /\ a.frames <= MaxTicks
  <2>1. Named(Q, 1, h.id, h.users, a)
    BY <1>1, <1>6 DEF Flow, Credits
  <2>2. h.users \subseteq a.speakers
    BY <1>1, <1>6, <2>1 DEF Named
  <2>3. PICK r \in Numbers(Q) : Ranks(Q, a, k, top, r)
    BY DEF Flow, Counted
  <2>4. a.frames < r[1] /\ r[1] \in 1..(MaxTicks + 1) /\ a.frames \in Nat
    BY <1>1, <1>6, <2>3 DEF Ranks, Numbers, Flow
  <2> QED
    BY <2>2, <2>4
<1>7. h.type = "speakers" /\ a.id = h.id => a.speakers \subseteq h.users
  BY <1>1 DEF Flow, Credits
<1> QED
  BY <1>3, <1>4, <1>5, <1>6, <1>7

-----------------------------------------------------------------------------
(* What the mixer sends, one input at a time.                              *)

\* An input of the open segment comes after all that is on its way.
LEMMA InputOfOpen ==
    ASSUME NEW Q, NEW a, NEW k, NEW named, NEW top, NEW n, Flow(Q, a, k, named, top, n), k # 0
    PROVE  /\ n \in Nat /\ k = n /\ k \in 1..n
           /\ \A i \in 1..Len(Q) : Own(Q[i]) => Q[i].id <= k
           /\ \A i \in 1..Len(Q) : Q[i].id = k => Q[i].type # "end"
           /\ \A i \in 1..Len(Q) : Q[i].type = "speakers" /\ Q[i].id = k => Q[i].users \subseteq named
           /\ Belongs(Q, Len(Q) + 1, k, a) /\ Named(Q, Len(Q) + 1, k, named, a)
           /\ a.id = k => a.speakers \subseteq named
<1>1. n \in Nat /\ k \in 0..n /\ InOrder(Q, n) /\ Opened(Q, a, k, named, n)
  BY DEF Flow
<1>2. \A i \in 1..Len(Q) : Own(Q[i]) => Q[i].id \in 1..n
  BY <1>1 DEF InOrder
<1> QED
  BY <1>1, <1>2 DEF Opened

LEMMA FlowConfigures ==
    ASSUME NEW Q, NEW P, NEW m, Longer(Q, P, m), MaxTicks \in Nat, m.type = "configure",
           NEW a, NEW k, NEW named, NEW top, NEW n, Flow(Q, a, k, named, top, n)
    PROVE  Flow(P, a, k, named, top, n)
<1>1. /\ n \in Nat /\ k \in 0..n /\ top \in 0..(MaxTicks + 1) /\ a.id \in Nat /\ a.frames \in Nat
      /\ InOrder(Q, n) /\ Closes(Q, k) /\ FindsActive(Q, a, k, n) /\ Credits(Q, a)
      /\ Opened(Q, a, k, named, n) /\ Counted(Q, a, k, top) /\ n <= n /\ top <= top
  BY DEF Flow
<1>2. ~Own(m) /\ m.type \in Types /\ Turns(m, k, k)
  BY DEF Own, Types, Turns
<1>3. InOrder(P, n)
  BY <1>1, <1>2, AppendInOrder
<1>4. Closes(P, k)
  BY <1>1, <1>2, AppendCloses
<1>5. FindsActive(P, a, k, n)
  BY <1>1, <1>2, AppendFindsActive
<1>6. Credits(P, a)
  BY <1>1, AppendCredits
<1>7. Opened(P, a, k, named, n)
  BY <1>1, <1>2, AppendOpened
<1>8. Counted(P, a, k, top)
  BY <1>1, AppendCounted
<1> QED
  BY <1>1, <1>3, <1>4, <1>5, <1>6, <1>7, <1>8 DEF Flow

LEMMA FlowBegins ==
    ASSUME NEW Q, NEW P, NEW m, Longer(Q, P, m), MaxTicks \in Nat,
           NEW a, NEW named, NEW top, NEW n, Flow(Q, a, 0, named, top, n),
           m.type = "start", m.id = n + 1
    PROVE  Flow(P, a, n + 1, {}, 0, n + 1)
<1> DEFINE nn == n + 1
<1>1. /\ n \in Nat /\ nn \in Nat /\ n <= nn /\ nn \in 0..nn /\ nn # 0 /\ nn \in 1..nn
      /\ 0 \in 0..(MaxTicks + 1) /\ top \in 0..(MaxTicks + 1)
      /\ a.id \in Nat /\ a.frames \in Nat
      /\ InOrder(Q, n) /\ Closes(Q, 0) /\ FindsActive(Q, a, 0, n) /\ Credits(Q, a)
      /\ Counted(Q, a, 0, top)
  BY DEF Flow
<1>2. /\ Own(m) /\ m.type \in Types /\ m.id \in 1..nn /\ Turns(m, 0, nn)
      /\ m.type \notin {"speakers", "audio", "end"}
  BY <1>1 DEF Own, Types, Turns
<1>3. \A i \in 1..Len(Q) : Own(Q[i]) => Q[i].id <= m.id /\ Q[i].id # m.id
  <2>1. \A i \in 1..Len(Q) : Own(Q[i]) => Q[i].id \in 1..n
    BY <1>1 DEF InOrder
  <2> QED
    BY <1>1, <2>1
<1>4. a.id # nn
  <2>1. a.id # 0 => a.id <= n
    BY <1>1 DEF FindsActive
  <2> QED
    BY <1>1, <2>1
<1>5. Opened(P, a, nn, {}, nn)
  BY <1>1, <1>4, AppendStart
<1>6. \A i \in 1..Len(Q) : Q[i].type = "audio" => Q[i].id # nn
  BY <1>3 DEF Own
<1> HIDE DEF nn
<1>7. InOrder(P, nn)
  BY <1>1, <1>2, <1>3, AppendInOrder
<1>8. Closes(P, nn)
  BY <1>1, <1>2, AppendCloses
<1>9. FindsActive(P, a, nn, nn)
  BY <1>1, <1>2, AppendFindsActive
<1>10. Credits(P, a)
  BY <1>1, <1>2, AppendCredits
<1>11. Counted(P, a, nn, 0)
  BY <1>1, <1>2, <1>4, <1>6, AppendCounted
<1>12. Flow(P, a, nn, {}, 0, nn)
  BY <1>1, <1>5, <1>7, <1>8, <1>9, <1>10, <1>11 DEF Flow
<1> QED
  BY <1>12 DEF nn

LEMMA FlowNames ==
    ASSUME NEW Q, NEW P, NEW m, Longer(Q, P, m), MaxTicks \in Nat,
           NEW a, NEW k, NEW named, NEW top, NEW n, Flow(Q, a, k, named, top, n), k # 0,
           m.type = "speakers", m.id = k, named \subseteq m.users
    PROVE  Flow(P, a, k, m.users, top, n)
<1>1. /\ n \in Nat /\ k \in 0..n /\ top \in 0..(MaxTicks + 1) /\ a.id \in Nat /\ a.frames \in Nat
      /\ InOrder(Q, n) /\ Closes(Q, k) /\ FindsActive(Q, a, k, n) /\ Credits(Q, a)
      /\ Opened(Q, a, k, named, n) /\ Counted(Q, a, k, top) /\ n <= n /\ top <= top
  BY DEF Flow
<1>2. /\ k = n /\ k \in 1..n
      /\ \A i \in 1..Len(Q) : Own(Q[i]) => Q[i].id <= k
      /\ \A i \in 1..Len(Q) : Q[i].id = k => Q[i].type # "end"
      /\ \A i \in 1..Len(Q) : Q[i].type = "speakers" /\ Q[i].id = k => Q[i].users \subseteq named
      /\ Belongs(Q, Len(Q) + 1, m.id, a)
      /\ a.id = k => a.speakers \subseteq named
  BY InputOfOpen
<1>3. Own(m) /\ m.type \in Types /\ Turns(m, k, k) /\ m.type # "audio"
  BY DEF Own, Types, Turns
<1>4. InOrder(P, n)
  BY <1>1, <1>2, <1>3, AppendInOrder
<1>5. Closes(P, k)
  BY <1>1, <1>3, AppendCloses
<1>6. FindsActive(P, a, k, n)
  BY <1>1, <1>2, <1>3, AppendFindsActive
<1>7. Credits(P, a)
  BY <1>1, <1>2, AppendCredits
<1>8. Opened(P, a, k, m.users, n)
  BY <1>1, AppendOpened
<1>9. Counted(P, a, k, top)
  BY <1>1, <1>3, AppendCounted
<1> QED
  BY <1>1, <1>4, <1>5, <1>6, <1>7, <1>8, <1>9 DEF Flow

LEMMA FlowHears ==
    ASSUME NEW Q, NEW P, NEW m, Longer(Q, P, m), MaxTicks \in Nat,
           NEW a, NEW k, NEW named, NEW top, NEW n, Flow(Q, a, k, named, top, n), k # 0,
           m.type = "audio", m.id = k, m.users \subseteq named,
           NEW above \in 0..(MaxTicks + 1), top < above
    PROVE  Flow(P, a, k, named, above, n)
<1>1. /\ n \in Nat /\ k \in 0..n /\ top \in 0..(MaxTicks + 1) /\ a.id \in Nat /\ a.frames \in Nat
      /\ InOrder(Q, n) /\ Closes(Q, k) /\ FindsActive(Q, a, k, n) /\ Credits(Q, a)
      /\ Opened(Q, a, k, named, n) /\ Counted(Q, a, k, top) /\ n <= n /\ top <= above
  BY DEF Flow
<1>2. /\ k = n /\ k \in 1..n
      /\ \A i \in 1..Len(Q) : Own(Q[i]) => Q[i].id <= k
      /\ \A i \in 1..Len(Q) : Q[i].id = k => Q[i].type # "end"
      /\ Belongs(Q, Len(Q) + 1, k, a) /\ Named(Q, Len(Q) + 1, k, named, a)
  BY InputOfOpen
<1>3. Own(m) /\ m.type \in Types /\ Turns(m, k, k)
  BY DEF Own, Types, Turns
<1>4. InOrder(P, n)
  BY <1>1, <1>2, <1>3, AppendInOrder
<1>5. Closes(P, k)
  BY <1>1, <1>3, AppendCloses
<1>6. FindsActive(P, a, k, n)
  BY <1>1, <1>2, <1>3, AppendFindsActive
<1>7. Named(Q, Len(Q) + 1, k, m.users, a)
  BY <1>2 DEF Named
<1>8. Credits(P, a)
  BY <1>1, <1>7, AppendCredits
<1>9. Opened(P, a, k, named, n)
  BY <1>1, AppendOpened
<1>10. Counted(P, a, k, above)
  BY <1>1, AppendCounted
<1> QED
  BY <1>1, <1>4, <1>5, <1>6, <1>8, <1>9, <1>10 DEF Flow

LEMMA FlowEnds ==
    ASSUME NEW Q, NEW P, NEW m, Longer(Q, P, m), MaxTicks \in Nat,
           NEW a, NEW k, NEW named, NEW top, NEW n, Flow(Q, a, k, named, top, n), k # 0,
           m.type = "end", m.id = k
    PROVE  Flow(P, a, 0, {}, 0, n)
<1>1. /\ n \in Nat /\ k \in 0..n /\ top \in 0..(MaxTicks + 1) /\ a.id \in Nat /\ a.frames \in Nat
      /\ InOrder(Q, n) /\ Closes(Q, k) /\ FindsActive(Q, a, k, n) /\ Credits(Q, a)
      /\ Counted(Q, a, k, top) /\ n <= n /\ 0 \in 0..n /\ 0 \in 0..(MaxTicks + 1)
  BY DEF Flow
<1>2. /\ k = n /\ k \in 1..n
      /\ \A i \in 1..Len(Q) : Own(Q[i]) => Q[i].id <= k
      /\ \A i \in 1..Len(Q) : Q[i].id = k => Q[i].type # "end"
      /\ Belongs(Q, Len(Q) + 1, k, a)
  BY InputOfOpen
<1>3. Own(m) /\ m.type \in Types /\ Turns(m, k, 0)
  BY DEF Own, Types, Turns
<1>4. InOrder(P, n)
  BY <1>1, <1>2, <1>3, AppendInOrder
<1>5. Closes(P, 0)
  BY <1>1, <1>3, AppendCloses
<1>6. FindsActive(P, a, 0, n)
  BY <1>1, <1>2, <1>3, AppendFindsActive
<1>7. Credits(P, a)
  BY <1>1, AppendCredits
<1>8. Opened(P, a, 0, {}, n)
  BY DEF Opened
<1>9. \A i \in 1..Len(Q) : Q[i].type = "audio" => Q[i].id # 0
  BY <1>1 DEF InOrder, Own
<1>10. Counted(P, a, 0, 0)
  BY <1>1, <1>9, AppendCounted
<1> QED
  BY <1>1, <1>4, <1>5, <1>6, <1>7, <1>8, <1>10 DEF Flow

-----------------------------------------------------------------------------
(* The invariant.                                                          *)

Inputs ==
    [type : {"configure"}, config : Configs]
    \cup [type : {"start"}, id : Nat, config : Configs]
    \cup [type : {"speakers"}, id : Nat, users : SUBSET Speakers]
    \cup [type : {"audio"}, id : Nat, users : SUBSET Speakers]
    \cup [type : {"end"}, id : Nat, silent : BOOLEAN]
Mixes    == [id : Nat, frames : Nat, idle : Nat, age : Nat, named : SUBSET Speakers]
Segments == [id : Nat, frames : Nat, age : Nat, speakers : SUBSET Speakers,
             heard : SUBSET Speakers, audible : Nat, live : BOOLEAN]
Mixers   == [on : BOOLEAN, config : Configs, segment : Mixes, out : Seq(Inputs)]
Sessions == [is : {"running", "failed", "closed"}, active : Segments, limited : BOOLEAN]

TopOf(segment) == IF segment.id = 0 THEN 0 ELSE segment.age + 1
Flowing(queue, active, segment, n) ==
    Flow(queue, active, segment.id, segment.named, TopOf(segment), n)

AudioTyped ==
    /\ streams \in [Speakers -> [known : BOOLEAN, active : BOOLEAN, frames : Nat]]
    /\ mixer \in Mixers /\ pipe \in Seq(Inputs) /\ session \in Sessions
    /\ cut \in Nat

\* Segments are what their ids say, and what was heard was announced.
MixerStands ==
    /\ mixer.segment.id = 0 => mixer.segment = NoMix
    /\ mixer.segment.id # 0 => mixer.segment.age < MaxTicks
SessionStands ==
    /\ session.active.id = 0 => session.active = NoSegment
    /\ session.active.heard \subseteq session.active.speakers
    /\ session.is = "failed" => session.active = NoSegment
    /\ session.is = "closed" => pipe = <<>>
    /\ ~session.limited

AudioInvariant ==
    /\ AudioTyped /\ MixerStands /\ SessionStands
    /\ session.is = "running" => Flowing(pipe \o mixer.out, session.active, mixer.segment, cut)

LEMMA AudioStart == AudioInit => AudioInvariant
<1> SUFFICES ASSUME AudioInit PROVE AudioInvariant
  OBVIOUS
<1>1. PICK c \in ValidConfigs : mixer = [on |-> TRUE, config |-> c, segment |-> NoMix, out |-> <<>>]
  BY DEF AudioInit
<1>2. NoMix \in Mixes /\ NoSegment \in Segments /\ MaxTicks \in Nat /\ c \in Configs
  BY AudioAssumption DEF NoMix, NoSegment, Mixes, Segments
<1>3. mixer \in Mixers /\ mixer.segment = NoMix /\ mixer.out = <<>>
  BY <1>1, <1>2 DEF Mixers
<1>4. session \in Sessions /\ session.active = NoSegment /\ session.is = "running" /\ ~session.limited
  BY <1>2 DEF AudioInit, Sessions
<1>5. AudioTyped
  BY <1>3, <1>4 DEF AudioInit, AudioTyped, NoStream
<1>6. MixerStands /\ SessionStands
  BY <1>3, <1>4 DEF MixerStands, SessionStands, NoMix, NoSegment
<1>7. pipe \o mixer.out = <<>>
  BY <1>3 DEF AudioInit
<1>8. Flow(<<>>, NoSegment, 0, {}, 0, 0)
  <2>1. Len(<<>>) = 0 /\ 1..0 = {}
    OBVIOUS
  <2>2. InOrder(<<>>, 0) /\ Closes(<<>>, 0) /\ FindsActive(<<>>, NoSegment, 0, 0)
        /\ Credits(<<>>, NoSegment) /\ Opened(<<>>, NoSegment, 0, {}, 0)
    BY <2>1 DEF InOrder, Closes, FindsActive, Credits, Opened, NoSegment
  <2>3. [i \in 1..Len(<<>>) |-> 1] \in Numbers(<<>>)
    BY <2>1, <1>2 DEF Numbers
  <2>4. Counted(<<>>, NoSegment, 0, 0)
    BY <2>1, <2>3 DEF Counted, Ranks
  <2>5. NoSegment.id = 0 /\ NoSegment.frames = 0 /\ 0 \in 0..(MaxTicks + 1)
    BY <1>2 DEF NoSegment
  <2> QED
    BY <2>2, <2>4, <2>5 DEF Flow
<1>9. NoMix.id = 0 /\ NoMix.named = {} /\ TopOf(NoMix) = 0 /\ cut = 0
  BY DEF NoMix, TopOf, AudioInit
<1>10. Flowing(pipe \o mixer.out, session.active, mixer.segment, cut)
  BY <1>3, <1>4, <1>7, <1>8, <1>9 DEF Flowing
<1> QED
  BY <1>5, <1>6, <1>10 DEF AudioInvariant

\* Only the id, the frames and the speakers of the active segment count, and
\* the mixer may be further in its segment.
LEMMA FlowOfSame ==
    ASSUME NEW Q, NEW a, NEW b, b.id = a.id, b.frames = a.frames, b.speakers = a.speakers,
           NEW k, NEW named, NEW top, NEW n, Flow(Q, a, k, named, top, n)
    PROVE  Flow(Q, b, k, named, top, n)
<1>1. FindsActive(Q, b, k, n)
  BY DEF Flow, FindsActive, Belongs
<1>2. Credits(Q, b)
  BY DEF Flow, Credits, Named
<1>3. Opened(Q, b, k, named, n)
  BY DEF Flow, Opened, Belongs, Named
<1>4. Counted(Q, b, k, top)
  BY DEF Flow, Counted, Ranks
<1> QED
  BY <1>1, <1>2, <1>3, <1>4 DEF Flow

LEMMA FlowLater ==
    ASSUME NEW Q, NEW a, NEW k, NEW named, NEW top, NEW n, Flow(Q, a, k, named, top, n),
           MaxTicks \in Nat, NEW above \in 0..(MaxTicks + 1), top <= above
    PROVE  Flow(Q, a, k, named, above, n)
<1>1. PICK r \in Numbers(Q) : Ranks(Q, a, k, top, r)
  BY DEF Flow, Counted
<1>2. \A i \in 1..Len(Q) : r[i] \in Nat
  BY <1>1 DEF Numbers
<1>3. top \in Nat /\ a.frames \in Nat
  BY DEF Flow
<1>4. Ranks(Q, a, k, above, r)
  BY <1>1, <1>2, <1>3 DEF Ranks
<1> QED
  BY <1>1, <1>4 DEF Flow, Counted

\* What an action that leaves the channel, the mixer and the session alone keeps.
LEMMA AudioKept ==
    ASSUME AudioInvariant, UNCHANGED <<mixer, pipe, session, cut>>,
           streams' \in [Speakers -> [known : BOOLEAN, active : BOOLEAN, frames : Nat]]
    PROVE  AudioInvariant'
<1>1. AudioTyped'
  BY DEF AudioInvariant, AudioTyped
<1>2. MixerStands' /\ SessionStands'
  BY DEF AudioInvariant, MixerStands, SessionStands
<1>3. session'.is = "running"
          => Flowing(pipe' \o mixer'.out, session'.active, mixer'.segment, cut')
  BY DEF AudioInvariant
<1> QED
  BY <1>1, <1>2, <1>3 DEF AudioInvariant

SpeakerMoves(u) == StartSpeaking(u) \/ QueueFrame(u) \/ StopSpeaking(u) \/ RemoveSpeaker(u)

LEMMA StreamSteps ==
    ASSUME AudioInvariant, NEW u \in Speakers, SpeakerMoves(u)
    PROVE  AudioInvariant'
<1> DEFINE Stream == [known : BOOLEAN, active : BOOLEAN, frames : Nat]
<1>1. streams \in [Speakers -> Stream] /\ streams[u] \in Stream
  BY DEF AudioInvariant, AudioTyped
<1>2. UNCHANGED <<mixer, pipe, session, cut>>
  BY DEF SpeakerMoves, StartSpeaking, QueueFrame, StopSpeaking, RemoveSpeaker, OnlyStreams
<1>3. \E x \in Stream : streams' = [streams EXCEPT ![u] = x]
  <2>1. CASE StartSpeaking(u)
    <3>1. [streams[u] EXCEPT !.known = TRUE, !.active = TRUE] \in Stream
      BY <1>1
    <3>2. streams' = [streams EXCEPT ![u] = [streams[u] EXCEPT !.known = TRUE, !.active = TRUE]]
      BY <1>1, <2>1 DEF StartSpeaking
    <3> QED
      BY <3>1, <3>2
  <2>2. CASE QueueFrame(u)
    <3>1. [streams[u] EXCEPT !.frames = streams[u].frames + 1] \in Stream
      BY <1>1
    <3>2. streams' = [streams EXCEPT ![u] = [streams[u] EXCEPT !.frames = streams[u].frames + 1]]
      BY <1>1, <2>2 DEF QueueFrame
    <3> QED
      BY <3>1, <3>2
  <2>3. CASE StopSpeaking(u)
    <3>1. [streams[u] EXCEPT !.active = FALSE] \in Stream
      BY <1>1
    <3>2. streams' = [streams EXCEPT ![u] = [streams[u] EXCEPT !.active = FALSE]]
      BY <1>1, <2>3 DEF StopSpeaking
    <3> QED
      BY <3>1, <3>2
  <2>4. CASE RemoveSpeaker(u)
    <3>1. NoStream \in Stream
      BY DEF NoStream
    <3> QED
      BY <2>4, <3>1 DEF RemoveSpeaker
  <2> QED
    BY <2>1, <2>2, <2>3, <2>4 DEF SpeakerMoves
<1>4. streams' \in [Speakers -> Stream]
  BY <1>1, <1>3
<1> QED
  BY <1>2, <1>4, AudioKept

\* An input that is alone with the mixer.
LEMMA OneMore ==
    ASSUME NEW S, NEW Q \in Seq(S), NEW m \in S
    PROVE  Q \o <<m>> \in Seq(S) /\ Longer(Q, Q \o <<m>>, m) /\ Q \o <<>> = Q
<1>1. Q \o <<m>> = Append(Q, m)
  BY AppendIsConcat
<1> QED
  BY <1>1, Lengthened, ConcatEmptySeq

LEMMA ConfigureKeeps ==
    ASSUME AudioInvariant, NEW c \in Configs, Configure(c)
    PROVE  AudioInvariant'
<1> DEFINE m == [type |-> "configure", config |-> c]
<1>1. m \in Inputs /\ m.type = "configure"
  BY DEF Inputs
<1>2. /\ mixer \in Mixers /\ pipe \in Seq(Inputs) /\ mixer.out = <<>>
      /\ mixer' = [mixer EXCEPT !.config = c, !.out = <<m>>]
      /\ UNCHANGED <<streams, pipe, session, verdict, cut>>
  BY DEF Configure, Ready, AudioInvariant, AudioTyped
<1> HIDE DEF m
<1>3. mixer' \in Mixers /\ mixer'.segment = mixer.segment /\ mixer'.out = <<m>>
  <2>1. <<m>> \in Seq(Inputs)
    BY <1>1
  <2> DEFINE out == <<m>>
  <2> HIDE DEF out
  <2>2. mixer' = [mixer EXCEPT !.config = c, !.out = out] /\ out \in Seq(Inputs)
    BY <1>2, <2>1 DEF out
  <2>3. mixer' \in Mixers /\ mixer'.segment = mixer.segment /\ mixer'.out = out
    BY <1>2, <2>2 DEF Mixers
  <2> QED
    BY <2>3 DEF out
<1>4. AudioTyped' /\ MixerStands' /\ SessionStands'
  BY <1>2, <1>3 DEF AudioInvariant, AudioTyped, MixerStands, SessionStands
<1>5. ASSUME session.is = "running"
      PROVE  Flowing(pipe \o <<m>>, session.active, mixer.segment, cut)
  <2>1. Longer(pipe, pipe \o <<m>>, m) /\ pipe \o mixer.out = pipe
    BY <1>1, <1>2, OneMore
  <2>2. Flowing(pipe, session.active, mixer.segment, cut)
    BY <1>5, <2>1 DEF AudioInvariant
  <2> QED
    BY <1>1, <2>1, <2>2, FlowConfigures, AudioAssumption DEF Flowing
<1> QED
  BY <1>2, <1>3, <1>4, <1>5 DEF AudioInvariant

\* Sending moves the first input of the mixer to the end of the channel.
LEMMA SendMoves ==
    ASSUME NEW S, NEW Q \in Seq(S), NEW R \in Seq(S), R # <<>>
    PROVE  /\ Append(Q, Head(R)) \o Tail(R) = Q \o R
           /\ Append(Q, Head(R)) \in Seq(S) /\ Tail(R) \in Seq(S)
<1>1. Head(R) \in S /\ Tail(R) \in Seq(S) /\ <<Head(R)>> \in Seq(S) /\ R = <<Head(R)>> \o Tail(R)
  BY HeadTailProperties
<1>2. Append(Q, Head(R)) = Q \o <<Head(R)>> /\ Append(Q, Head(R)) \in Seq(S)
  BY <1>1, AppendIsConcat, AppendProperties
<1>3. (Q \o <<Head(R)>>) \o Tail(R) = Q \o (<<Head(R)>> \o Tail(R))
  BY <1>1, ConcatAssociative
<1> QED
  BY <1>1, <1>2, <1>3

LEMMA SendKeeps ==
    ASSUME AudioInvariant, SendInput
    PROVE  AudioInvariant'
<1>1. mixer \in Mixers /\ pipe \in Seq(Inputs) /\ mixer.out \in Seq(Inputs) /\ mixer.out # <<>>
  BY DEF SendInput, AudioInvariant, AudioTyped, Mixers
<1>2. UNCHANGED <<streams, session, verdict, cut>>
  BY DEF SendInput
<1>3. CASE session.is = "running"
  <2>1. pipe' = Append(pipe, Head(mixer.out)) /\ mixer' = [mixer EXCEPT !.out = Tail(mixer.out)]
    BY <1>3 DEF SendInput
  <2>2. /\ Append(pipe, Head(mixer.out)) \o Tail(mixer.out) = pipe \o mixer.out
        /\ pipe' \in Seq(Inputs) /\ Tail(mixer.out) \in Seq(Inputs)
    BY <1>1, <2>1, SendMoves
  <2>3. /\ mixer' \in Mixers /\ mixer'.segment = mixer.segment
        /\ mixer'.out = Tail(mixer.out)
    BY <1>1, <2>1, <2>2 DEF Mixers
  <2>4. pipe' \o mixer'.out = pipe \o mixer.out
    BY <2>1, <2>2, <2>3
  <2>5. AudioTyped' /\ MixerStands' /\ SessionStands'
    BY <1>2, <1>3, <2>2, <2>3 DEF AudioInvariant, AudioTyped, MixerStands, SessionStands
  <2> QED
    BY <1>2, <1>3, <2>3, <2>4, <2>5 DEF AudioInvariant
<1>4. CASE session.is # "running"
  <2>1. mixer' = [mixer EXCEPT !.out = <<>>, !.on = FALSE] /\ UNCHANGED pipe
    BY <1>4 DEF SendInput
  <2>2. mixer' \in Mixers /\ mixer'.segment = mixer.segment
    <3> DEFINE out == <<>>
    <3>1. out \in Seq(Inputs) /\ mixer' = [mixer EXCEPT !.out = out, !.on = FALSE]
      BY <2>1
    <3> HIDE DEF out
    <3> QED
      BY <1>1, <3>1 DEF Mixers
  <2>3. AudioTyped' /\ MixerStands' /\ SessionStands'
    BY <1>2, <2>1, <2>2 DEF AudioInvariant, AudioTyped, MixerStands, SessionStands
  <2> QED
    BY <1>2, <1>4, <2>3 DEF AudioInvariant
<1> QED
  BY <1>3, <1>4

\* The end of the open segment, if there is one.
EndsOf(segment) == IF segment = NoMix THEN <<>> ELSE <<EndOf(segment)>>

LEMMA FlowCloses ==
    ASSUME NEW Q \in Seq(Inputs), NEW segment \in Mixes, NEW a, NEW n,
           segment.id = 0 => segment = NoMix, Flowing(Q, a, segment, n)
    PROVE  Q \o EndsOf(segment) \in Seq(Inputs) /\ Flowing(Q \o EndsOf(segment), a, NoMix, n)
<1>1. NoMix.id = 0 /\ NoMix.named = {} /\ TopOf(NoMix) = 0 /\ MaxTicks \in Nat
  BY AudioAssumption DEF NoMix, TopOf
<1>2. CASE segment = NoMix
  <2>1. EndsOf(segment) = <<>> /\ Q \o <<>> = Q
    BY <1>2, ConcatEmptySeq DEF EndsOf
  <2> QED
    BY <1>2, <2>1
<1>3. CASE segment # NoMix
  <2>1. EndOf(segment) \in Inputs /\ EndOf(segment).type = "end" /\ EndOf(segment).id = segment.id
    BY DEF EndOf, Inputs, Mixes
  <2>2. EndsOf(segment) = <<EndOf(segment)>> /\ segment.id # 0
    BY <1>3 DEF EndsOf
  <2>3. Q \o <<EndOf(segment)>> \in Seq(Inputs) /\ Longer(Q, Q \o <<EndOf(segment)>>, EndOf(segment))
    BY <2>1, OneMore
  <2>4. Flow(Q \o <<EndOf(segment)>>, a, 0, {}, 0, n)
    BY <1>1, <2>1, <2>2, <2>3, FlowEnds DEF Flowing
  <2> QED
    BY <1>1, <2>2, <2>3, <2>4 DEF Flowing
<1> QED
  BY <1>2, <1>3

LEMMA ShutDownKeeps ==
    ASSUME AudioInvariant, ShutDown
    PROVE  AudioInvariant'
<1>1. /\ mixer \in Mixers /\ mixer.segment \in Mixes /\ pipe \in Seq(Inputs) /\ mixer.out = <<>>
      /\ mixer.segment.id = 0 => mixer.segment = NoMix
  BY DEF ShutDown, Ready, AudioInvariant, AudioTyped, Mixers, MixerStands
<1>2. /\ mixer' = [mixer EXCEPT !.on = FALSE, !.segment = NoMix, !.out = EndsOf(mixer.segment)]
      /\ streams' = [u \in Speakers |-> NoStream] /\ UNCHANGED <<pipe, session, verdict, cut>>
  BY DEF ShutDown, EndsOf
<1>3. EndsOf(mixer.segment) \in Seq(Inputs) /\ NoMix \in Mixes
  <2>1. EndOf(mixer.segment) \in Inputs /\ NoMix \in Mixes
    BY <1>1 DEF EndOf, Inputs, Mixes, NoMix
  <2> QED
    BY <2>1 DEF EndsOf
<1>4. mixer' \in Mixers /\ mixer'.segment = NoMix /\ mixer'.out = EndsOf(mixer.segment)
  BY <1>1, <1>2, <1>3 DEF Mixers
<1>5. AudioTyped' /\ MixerStands' /\ SessionStands'
  BY <1>2, <1>4 DEF AudioInvariant, AudioTyped, MixerStands, SessionStands, NoStream, NoMix
<1>6. ASSUME session.is = "running"
      PROVE  Flowing(pipe \o EndsOf(mixer.segment), session.active, NoMix, cut)
  <2>1. Flowing(pipe, session.active, mixer.segment, cut)
    BY <1>1, <1>6, ConcatEmptySeq DEF AudioInvariant
  <2> QED
    BY <1>1, <2>1, FlowCloses
<1> QED
  BY <1>2, <1>4, <1>5, <1>6 DEF AudioInvariant

\* The parts of Tick: whether a segment opens, the segment that is open, and
\* what has become of it after this tick.
Opening == Mixing # {} /\ mixer.segment = NoMix
OpenNow == IF Opening THEN [NoMix EXCEPT !.id = cut + 1] ELSE mixer.segment
MixedNow ==
    IF Mixing # {}
      THEN [OpenNow EXCEPT !.frames = IF OpenNow.frames < Enough THEN OpenNow.frames + 1
                                      ELSE OpenNow.frames,
                           !.idle = 0, !.named = OpenNow.named \cup Mixing]
    ELSE IF OpenNow # NoMix /\ \A u \in Speakers : ~streams[u].active
      THEN [OpenNow EXCEPT !.idle = OpenNow.idle + 1]
    ELSE [OpenNow EXCEPT !.idle = 0]
AgedNow ==
    IF OpenNow = NoMix THEN NoMix
    ELSE [MixedNow EXCEPT !.age = IF Opening THEN 0
                                  ELSE IF MixedNow.age < MaxTicks THEN MixedNow.age + 1
                                  ELSE MixedNow.age]
CutNow == IF Opening THEN cut + 1 ELSE cut

LEMMA SegmentAges ==
    ASSUME AudioInvariant
    PROVE  /\ OpenNow \in Mixes /\ AgedNow \in Mixes /\ CutNow \in Nat /\ Mixing \in SUBSET Speakers
           /\ OpenNow.id = 0 <=> OpenNow = NoMix
           /\ AgedNow.id = OpenNow.id
           /\ AgedNow.id = 0 => AgedNow = NoMix
           /\ AgedNow.named = OpenNow.named \cup Mixing
           /\ Mixing # {} => OpenNow # NoMix
           /\ Opening => /\ mixer.segment = NoMix /\ OpenNow.id = cut + 1 /\ OpenNow.named = {}
                         /\ TopOf(AgedNow) = 1
           /\ ~Opening => OpenNow = mixer.segment
           /\ ~Opening /\ OpenNow # NoMix => TopOf(AgedNow) = mixer.segment.age + 2
           /\ TopOf(AgedNow) \in 0..(MaxTicks + 1)
<1>1. /\ mixer.segment \in Mixes /\ cut \in Nat
      /\ mixer.segment.id = 0 => mixer.segment = NoMix
      /\ mixer.segment.id # 0 => mixer.segment.age < MaxTicks
  BY DEF AudioInvariant, AudioTyped, Mixers, MixerStands
<1>2. MaxTicks \in Nat /\ MaxTicks >= 1 /\ Enough \in Nat
  BY AudioAssumption DEF Enough
<1>3. NoMix \in Mixes /\ NoMix.id = 0 /\ NoMix.named = {} /\ TopOf(NoMix) = 0 /\ NoMix.age = 0
  BY DEF NoMix, Mixes, TopOf
<1>4. Mixing \in SUBSET Speakers
  BY DEF Mixing
<1>5. Opening => [NoMix EXCEPT !.id = cut + 1] \in Mixes /\ OpenNow = [NoMix EXCEPT !.id = cut + 1]
  BY <1>1, <1>3 DEF OpenNow, Mixes
<1>6. /\ Opening => /\ OpenNow \in Mixes /\ OpenNow.id = cut + 1 /\ OpenNow.named = {}
                    /\ OpenNow # NoMix /\ mixer.segment = NoMix
      /\ ~Opening => OpenNow = mixer.segment
  BY <1>1, <1>3, <1>5 DEF OpenNow, Opening, Mixes
<1>7. OpenNow \in Mixes /\ (OpenNow.id = 0 <=> OpenNow = NoMix)
  BY <1>1, <1>3, <1>6
<1>8. Mixing # {} => OpenNow # NoMix
  BY <1>6 DEF Opening
<1>9. /\ MixedNow \in Mixes /\ MixedNow.id = OpenNow.id /\ MixedNow.age = OpenNow.age
      /\ MixedNow.named = OpenNow.named \cup Mixing
  <2> DEFINE f == IF OpenNow.frames < Enough THEN OpenNow.frames + 1 ELSE OpenNow.frames
             w == OpenNow.named \cup Mixing
             d == OpenNow.idle + 1
             z == 0
  <2>1. f \in Nat /\ w \in SUBSET Speakers /\ d \in Nat /\ z \in Nat
    BY <1>2, <1>4, <1>7 DEF Mixes
  <2>2. \/ Mixing # {} /\ MixedNow = [OpenNow EXCEPT !.frames = f, !.idle = z, !.named = w]
        \/ Mixing = {} /\ MixedNow = [OpenNow EXCEPT !.idle = d]
        \/ Mixing = {} /\ MixedNow = [OpenNow EXCEPT !.idle = z]
    BY DEF MixedNow
  <2>3. Mixing = {} => OpenNow.named \cup Mixing = OpenNow.named
    OBVIOUS
  <2>4. w = OpenNow.named \cup Mixing
    OBVIOUS
  <2> HIDE DEF f, w, d, z
  <2> QED
    BY <1>7, <2>1, <2>2, <2>3, <2>4 DEF Mixes
<1>10. ASSUME OpenNow # NoMix
       PROVE  /\ AgedNow \in Mixes /\ AgedNow.id = OpenNow.id
              /\ AgedNow.named = OpenNow.named \cup Mixing
              /\ Opening => AgedNow.age = 0
              /\ ~Opening => AgedNow.age = mixer.segment.age + 1
  <2> DEFINE g == IF Opening THEN 0
                  ELSE IF MixedNow.age < MaxTicks THEN MixedNow.age + 1 ELSE MixedNow.age
  <2>1. AgedNow = [MixedNow EXCEPT !.age = g]
    BY <1>10 DEF AgedNow
  <2>2. /\ g \in Nat /\ (Opening => g = 0)
        /\ ~Opening => g = mixer.segment.age + 1
    BY <1>1, <1>6, <1>7, <1>9, <1>10 DEF Mixes
  <2> HIDE DEF g
  <2> QED
    BY <1>9, <2>1, <2>2 DEF Mixes
<1>11. OpenNow = NoMix => /\ AgedNow = NoMix /\ ~Opening /\ Mixing = {}
                          /\ AgedNow.named = OpenNow.named \cup Mixing
  BY <1>3, <1>6, <1>8 DEF AgedNow
<1>12. CutNow \in Nat
  BY <1>1 DEF CutNow
<1>13. AgedNow \in Mixes /\ AgedNow.id = OpenNow.id /\ AgedNow.named = OpenNow.named \cup Mixing
  BY <1>7, <1>10, <1>11
<1>14. /\ Opening => TopOf(AgedNow) = 1
       /\ ~Opening /\ OpenNow # NoMix => TopOf(AgedNow) = mixer.segment.age + 2
  BY <1>1, <1>6, <1>7, <1>10 DEF TopOf, Mixes
<1>15. TopOf(AgedNow) \in 0..(MaxTicks + 1)
  <2>1. CASE OpenNow = NoMix
    BY <1>2, <1>3, <1>11, <2>1
  <2>2. CASE Opening
    BY <1>2, <1>14, <2>2
  <2>3. CASE ~Opening /\ OpenNow # NoMix
    <3>1. mixer.segment.age \in Nat /\ mixer.segment.age < MaxTicks
      BY <1>1, <1>6, <1>7, <2>3 DEF Mixes
    <3> QED
      BY <1>2, <1>14, <2>3, <3>1
  <2> QED
    BY <2>1, <2>2, <2>3
<1> QED
  BY <1>4, <1>6, <1>7, <1>8, <1>11, <1>12, <1>13, <1>14, <1>15

LEMMA TickParts ==
    ASSUME NEW late \in BOOLEAN, Tick(late)
    PROVE  LET due == OpenNow # NoMix /\ IsDue(AgedNow, late) IN
           /\ mixer.out = <<>>
           /\ late => OpenNow # NoMix
           /\ AgedNow.age >= MaxTicks => late
           /\ mixer' = [mixer EXCEPT !.segment = IF due THEN NoMix ELSE AgedNow,
                          !.out = (IF Mixing # {} THEN Announce(OpenNow, Opening) ELSE <<>>)
                                  \o (IF due THEN <<EndOf(AgedNow)>> ELSE <<>>)]
           /\ streams' = [u \in Speakers |->
                IF u \in Mixing THEN [streams[u] EXCEPT !.frames = streams[u].frames - 1]
                ELSE streams[u]]
           /\ cut' = CutNow
           /\ session' = IF session.active = NoSegment THEN session
                         ELSE [session EXCEPT !.active.age =
                                 IF session.active.age < MaxTicks THEN session.active.age + 1
                                 ELSE session.active.age]
           /\ UNCHANGED pipe
  BY DEF Tick, Ready, Opening, OpenNow, MixedNow, AgedNow, CutNow

\* The three inputs a tick may send before the end, and the queue with each.
StartInputs == IF Opening THEN <<[type |-> "start", id |-> OpenNow.id, config |-> mixer.config]>> ELSE <<>>
NameInputs  == IF Mixing \subseteq OpenNow.named THEN <<>>
          ELSE <<[type |-> "speakers", id |-> OpenNow.id, users |-> OpenNow.named \cup Mixing]>>
Frame  == [type |-> "audio", id |-> OpenNow.id, users |-> Mixing]

LEMMA InputsOfTick ==
    ASSUME AudioInvariant
    PROVE  StartInputs \in Seq(Inputs) /\ NameInputs \in Seq(Inputs) /\ Frame \in Inputs
<1>1. OpenNow \in Mixes /\ Mixing \in SUBSET Speakers /\ mixer.config \in Configs
  BY SegmentAges DEF AudioInvariant, AudioTyped, Mixers
<1>2. OpenNow.id \in Nat /\ OpenNow.named \in SUBSET Speakers
  BY <1>1 DEF Mixes
<1>3. [type |-> "start", id |-> OpenNow.id, config |-> mixer.config] \in Inputs
  BY <1>1, <1>2 DEF Inputs
<1>4. [type |-> "speakers", id |-> OpenNow.id, users |-> OpenNow.named \cup Mixing] \in Inputs
  BY <1>1, <1>2 DEF Inputs
<1>5. Frame \in Inputs
  BY <1>1, <1>2 DEF Inputs, Frame
<1> HIDE DEF Inputs
<1> QED
  BY <1>3, <1>4, <1>5 DEF StartInputs, NameInputs

LEMMA TickOpens ==
    ASSUME AudioInvariant, session.is = "running", mixer.out = <<>>, Mixing # {}
    PROVE  /\ pipe \o StartInputs \in Seq(Inputs) /\ OpenNow.id # 0
           /\ \E top \in Nat : /\ top < TopOf(AgedNow)
                               /\ Flow(pipe \o StartInputs, session.active, OpenNow.id, OpenNow.named, top, CutNow)
<1>1. /\ pipe \in Seq(Inputs) /\ StartInputs \in Seq(Inputs) /\ MaxTicks \in Nat
      /\ OpenNow.id # 0 /\ OpenNow # NoMix
  BY InputsOfTick, SegmentAges, AudioAssumption DEF AudioInvariant, AudioTyped
<1>2. Flowing(pipe, session.active, mixer.segment, cut)
  BY <1>1, ConcatEmptySeq DEF AudioInvariant
<1>3. pipe \o StartInputs \in Seq(Inputs)
  BY <1>1, ConcatProperties
<1>4. CASE Opening
  <2> DEFINE m == [type |-> "start", id |-> OpenNow.id, config |-> mixer.config]
  <2>1. /\ mixer.segment = NoMix /\ OpenNow.id = cut + 1 /\ OpenNow.named = {}
        /\ TopOf(AgedNow) = 1 /\ CutNow = cut + 1
    BY <1>4, SegmentAges DEF CutNow
  <2>2. StartInputs = <<m>> /\ m.type = "start" /\ m.id = cut + 1
    BY <1>4, <2>1 DEF StartInputs
  <2>3. m \in Inputs
    <3>1. mixer.config \in Configs /\ OpenNow.id \in Nat
      BY SegmentAges DEF AudioInvariant, AudioTyped, Mixers, Mixes
    <3> QED
      BY <3>1 DEF Inputs
  <2>4. NoMix.id = 0
    BY DEF NoMix
  <2> HIDE DEF m
  <2>5. Longer(pipe, pipe \o StartInputs, m)
    BY <1>1, <2>2, <2>3, OneMore
  <2>6. Flow(pipe \o StartInputs, session.active, cut + 1, {}, 0, cut + 1)
    BY <1>1, <1>2, <2>1, <2>2, <2>4, <2>5, FlowBegins DEF Flowing
  <2> QED
    BY <1>1, <1>3, <2>1, <2>6
<1>5. CASE ~Opening
  <2>1. /\ StartInputs = <<>> /\ pipe \o StartInputs = pipe /\ OpenNow = mixer.segment /\ CutNow = cut
        /\ TopOf(AgedNow) = mixer.segment.age + 2 /\ mixer.segment.age \in Nat
    BY <1>1, <1>5, SegmentAges, ConcatEmptySeq DEF StartInputs, CutNow, Mixes
  <2>2. TopOf(mixer.segment) = mixer.segment.age + 1
    BY <1>1, <2>1 DEF TopOf
  <2> QED
    BY <1>1, <1>2, <1>3, <2>1, <2>2 DEF Flowing
<1> QED
  BY <1>4, <1>5

LEMMA TickAnnounces ==
    ASSUME AudioInvariant, session.is = "running", mixer.out = <<>>, Mixing # {}
    PROVE  /\ pipe \o Announce(OpenNow, Opening) \in Seq(Inputs)
           /\ Flowing(pipe \o Announce(OpenNow, Opening), session.active, AgedNow, CutNow)
<1> DEFINE Q == pipe \o StartInputs
           k == OpenNow.id
           wider == OpenNow.named \cup Mixing
           a == session.active
<1>1. PICK top \in Nat : top < TopOf(AgedNow) /\ Flow(Q, a, k, OpenNow.named, top, CutNow)
  BY TickOpens
<1>2. /\ Q \in Seq(Inputs) /\ k # 0 /\ StartInputs \in Seq(Inputs) /\ NameInputs \in Seq(Inputs) /\ Frame \in Inputs
      /\ pipe \in Seq(Inputs) /\ MaxTicks \in Nat
  BY TickOpens, InputsOfTick, AudioAssumption DEF AudioInvariant, AudioTyped
<1>3. /\ AgedNow.id = k /\ AgedNow.named = wider /\ TopOf(AgedNow) \in 0..(MaxTicks + 1)
      /\ Mixing \subseteq wider
  BY SegmentAges
<1>4. Announce(OpenNow, Opening) = (StartInputs \o NameInputs) \o <<Frame>>
  BY DEF Announce, StartInputs, NameInputs, Frame
<1>5. pipe \o ((StartInputs \o NameInputs) \o <<Frame>>) = (Q \o NameInputs) \o <<Frame>>
  <2>1. StartInputs \o NameInputs \in Seq(Inputs) /\ <<Frame>> \in Seq(Inputs)
    BY <1>2, ConcatProperties
  <2>2. pipe \o ((StartInputs \o NameInputs) \o <<Frame>>) = (pipe \o (StartInputs \o NameInputs)) \o <<Frame>>
    BY <1>2, <2>1, ConcatAssociative
  <2>3. pipe \o (StartInputs \o NameInputs) = Q \o NameInputs
    BY <1>2, ConcatAssociative
  <2> QED
    BY <2>2, <2>3
<1>6. Frame.type = "audio" /\ Frame.id = k /\ Frame.users = Mixing
  BY DEF Frame
<1>7. Q \o NameInputs \in Seq(Inputs) /\ Flow(Q \o NameInputs, a, k, wider, top, CutNow)
  <2>1. CASE Mixing \subseteq OpenNow.named
    <3>1. NameInputs = <<>> /\ Q \o NameInputs = Q /\ wider = OpenNow.named
      BY <1>2, <2>1, ConcatEmptySeq DEF NameInputs
    <3> QED
      BY <1>1, <1>2, <3>1
  <2>2. CASE ~(Mixing \subseteq OpenNow.named)
    <3> DEFINE m == [type |-> "speakers", id |-> k, users |-> wider]
    <3>1. NameInputs = <<m>> /\ m.type = "speakers" /\ m.id = k /\ m.users = wider
      BY <2>2 DEF NameInputs
    <3>2. OpenNow.named \subseteq wider
      OBVIOUS
    <3>3. m \in Inputs
      <4>1. k \in Nat /\ wider \in SUBSET Speakers
        BY SegmentAges DEF Mixes
      <4> HIDE DEF k, wider
      <4> QED
        BY <4>1 DEF Inputs
    <3> HIDE DEF m, Q, k, wider, a
    <3>4. Q \o <<m>> \in Seq(Inputs) /\ Longer(Q, Q \o <<m>>, m)
      BY <1>2, <3>3, OneMore
    <3>5. Flow(Q \o <<m>>, a, k, m.users, top, CutNow)
      BY <1>1, <1>2, <3>1, <3>2, <3>4, FlowNames
    <3> QED
      BY <3>1, <3>4, <3>5
  <2> QED
    BY <2>1, <2>2
<1> HIDE DEF Q, k, wider, a
<1> DEFINE R == Q \o NameInputs
<1>8. R \in Seq(Inputs) /\ Flow(R, a, k, wider, top, CutNow)
  BY <1>7
<1> HIDE DEF R
<1>9. R \o <<Frame>> \in Seq(Inputs) /\ Longer(R, R \o <<Frame>>, Frame)
  BY <1>2, <1>8, OneMore
<1>10. Flow(R \o <<Frame>>, a, k, wider, TopOf(AgedNow), CutNow)
  BY <1>1, <1>2, <1>3, <1>6, <1>8, <1>9, FlowHears
<1>11. pipe \o Announce(OpenNow, Opening) = R \o <<Frame>>
  BY <1>4, <1>5 DEF R
<1> QED
  BY <1>3, <1>9, <1>10, <1>11 DEF Flowing, a

\* A tick without frames only lets time pass.
LEMMA TickWaits ==
    ASSUME AudioInvariant, session.is = "running", mixer.out = <<>>, Mixing = {}
    PROVE  Flowing(pipe, session.active, AgedNow, CutNow)
<1>1. /\ pipe \in Seq(Inputs) /\ MaxTicks \in Nat /\ ~Opening /\ CutNow = cut
      /\ mixer.segment \in Mixes /\ (mixer.segment.id = 0 => mixer.segment = NoMix)
  BY AudioAssumption DEF AudioInvariant, AudioTyped, MixerStands, Mixers, Opening, CutNow
<1>2. Flowing(pipe, session.active, mixer.segment, cut)
  BY <1>1, ConcatEmptySeq DEF AudioInvariant
<1>3. /\ OpenNow = mixer.segment /\ AgedNow.id = OpenNow.id /\ AgedNow.named = OpenNow.named
      /\ TopOf(AgedNow) \in 0..(MaxTicks + 1)
      /\ OpenNow # NoMix => TopOf(AgedNow) = mixer.segment.age + 2
      /\ AgedNow.id = 0 => AgedNow = NoMix
  <2>1. OpenNow.named \cup Mixing = OpenNow.named
    OBVIOUS
  <2> QED
    BY <1>1, <2>1, SegmentAges
<1>4. TopOf(mixer.segment) <= TopOf(AgedNow)
  <2>1. CASE OpenNow = NoMix
    BY <1>3, <2>1 DEF TopOf, NoMix
  <2>2. CASE OpenNow # NoMix
    <3>1. TopOf(mixer.segment) = mixer.segment.age + 1 /\ mixer.segment.age \in Nat
      BY <1>1, <1>3, <2>2 DEF TopOf, Mixes
    <3> QED
      BY <1>3, <2>2, <3>1
  <2> QED
    BY <2>1, <2>2
<1> QED
  BY <1>1, <1>2, <1>3, <1>4, FlowLater DEF Flowing

LEMMA TickKeeps ==
    ASSUME AudioInvariant, NEW late \in BOOLEAN, Tick(late)
    PROVE  AudioInvariant'
<1> DEFINE due == OpenNow # NoMix /\ IsDue(AgedNow, late)
           said == IF Mixing # {} THEN Announce(OpenNow, Opening) ELSE <<>>
           ending == IF due THEN <<EndOf(AgedNow)>> ELSE <<>>
           next == IF due THEN NoMix ELSE AgedNow
           older == IF session.active.age < MaxTicks THEN session.active.age + 1
                    ELSE session.active.age
<1>1. /\ mixer.out = <<>>
      /\ late => OpenNow # NoMix
      /\ AgedNow.age >= MaxTicks => late
      /\ mixer' = [mixer EXCEPT !.segment = next, !.out = said \o ending]
      /\ streams' = [u \in Speakers |->
                IF u \in Mixing THEN [streams[u] EXCEPT !.frames = streams[u].frames - 1]
                ELSE streams[u]]
      /\ cut' = CutNow
      /\ session' = IF session.active = NoSegment THEN session
                    ELSE [session EXCEPT !.active.age = older]
      /\ UNCHANGED pipe
  BY TickParts
<1>2. /\ mixer \in Mixers /\ pipe \in Seq(Inputs) /\ session \in Sessions /\ MixerStands /\ SessionStands
      /\ MaxTicks \in Nat /\ MaxTicks >= 1
      /\ streams \in [Speakers -> [known : BOOLEAN, active : BOOLEAN, frames : Nat]]
  BY AudioAssumption DEF AudioInvariant, AudioTyped
<1>3. /\ AgedNow \in Mixes /\ CutNow \in Nat /\ Mixing \in SUBSET Speakers
      /\ AgedNow.id = OpenNow.id /\ (AgedNow.id = 0 => AgedNow = NoMix)
      /\ OpenNow.id = 0 <=> OpenNow = NoMix
  BY SegmentAges
<1>4. NoMix \in Mixes /\ NoMix.id = 0
  BY DEF NoMix, Mixes
<1>5. next \in Mixes /\ (next.id = 0 => next = NoMix) /\ (next.id # 0 => next.age < MaxTicks)
  <2>1. ASSUME ~due, AgedNow.id # 0
        PROVE  AgedNow.age < MaxTicks
    <3>1. ~late
      BY <1>3, <2>1 DEF IsDue
    <3>2. AgedNow.age \in Nat
      BY <1>3 DEF Mixes
    <3> QED
      BY <1>1, <1>2, <3>1, <3>2
  <2> QED
    BY <1>3, <1>4, <2>1
<1>6. ending = EndsOf(IF due THEN AgedNow ELSE NoMix)
  <2>1. due => AgedNow # NoMix
    BY <1>3, <1>4
  <2> QED
    BY <2>1 DEF EndsOf
<1>7. said \in Seq(Inputs) /\ ending \in Seq(Inputs)
  <2>1. Announce(OpenNow, Opening) = (StartInputs \o NameInputs) \o <<Frame>>
    BY DEF Announce, StartInputs, NameInputs, Frame
  <2>2. (StartInputs \o NameInputs) \o <<Frame>> \in Seq(Inputs)
    BY InputsOfTick, ConcatProperties
  <2>3. EndOf(AgedNow) \in Inputs
    <3>1. AgedNow.id \in Nat
      BY <1>3 DEF Mixes
    <3> QED
      BY <3>1 DEF EndOf, Inputs
  <2> QED
    BY <2>1, <2>2, <2>3
<1>8. ASSUME session.is = "running"
      PROVE  Flowing(pipe \o (said \o ending), session.active, next, CutNow)
  <2> DEFINE Q == pipe \o said
             a == session.active
  <2>1. Q \in Seq(Inputs)
    BY <1>2, <1>7, ConcatProperties
  <2>2. Flowing(Q, a, AgedNow, CutNow)
    <3>1. CASE Mixing # {}
      BY <1>1, <1>8, <3>1, TickAnnounces
    <3>2. CASE Mixing = {}
      <4>1. Q = pipe
        BY <1>2, <3>2, ConcatEmptySeq
      <4> QED
        BY <1>1, <1>8, <3>2, <4>1, TickWaits
    <3> QED
      BY <3>1, <3>2
  <2>3. pipe \o (said \o ending) = Q \o ending
    <3> HIDE DEF said, ending
    <3> QED
      BY <1>2, <1>7, ConcatAssociative
  <2> HIDE DEF Q, a
  <2>4. CASE due
    <3>1. Flowing(Q \o EndsOf(AgedNow), a, NoMix, CutNow)
      BY <1>3, <2>1, <2>2, FlowCloses
    <3> QED
      BY <1>6, <2>3, <2>4, <3>1 DEF a
  <2>5. CASE ~due
    <3>1. ending = <<>> /\ Q \o <<>> = Q
      BY <2>1, <2>5, ConcatEmptySeq
    <3> QED
      BY <2>2, <2>3, <2>5, <3>1 DEF a
  <2> QED
    BY <2>4, <2>5
<1> DEFINE out == said \o ending
<1>9. out \in Seq(Inputs)
  BY <1>7, ConcatProperties
<1>10. mixer' = [mixer EXCEPT !.segment = next, !.out = out]
  BY <1>1
<1>11. ASSUME session.is = "running"
       PROVE  Flowing(pipe \o out, session.active, next, CutNow)
  BY <1>8, <1>11
<1> HIDE DEF due, said, ending, next, out
<1>12. mixer' \in Mixers /\ mixer'.segment = next /\ mixer'.out = out
  BY <1>2, <1>5, <1>9, <1>10 DEF Mixers
<1>13. MixerStands'
  BY <1>5, <1>12 DEF MixerStands
<1>14. streams' \in [Speakers -> [known : BOOLEAN, active : BOOLEAN, frames : Nat]]
  <2>1. ASSUME NEW u \in Mixing
        PROVE  [streams[u] EXCEPT !.frames = streams[u].frames - 1]
                   \in [known : BOOLEAN, active : BOOLEAN, frames : Nat]
    <3>1. /\ u \in Speakers /\ streams[u] \in [known : BOOLEAN, active : BOOLEAN, frames : Nat]
          /\ streams[u].frames > 0
      BY <1>2, <2>1 DEF Mixing
    <3>2. streams[u].frames - 1 \in Nat
      BY <3>1
    <3> QED
      BY <3>1, <3>2
  <2> QED
    BY <1>1, <1>2, <2>1
<1>15. /\ session' \in Sessions /\ session'.is = session.is /\ session'.limited = session.limited
       /\ session'.active.id = session.active.id /\ session'.active.frames = session.active.frames
       /\ session'.active.speakers = session.active.speakers
       /\ session'.active.heard = session.active.heard
       /\ session.active = NoSegment => session'.active = NoSegment
  <2>1. CASE session.active = NoSegment
    BY <1>1, <1>2, <2>1
  <2>2. CASE session.active # NoSegment
    <3>1. session.active \in Segments /\ older \in Nat
      BY <1>2 DEF Sessions, Segments
    <3>2. session' = [session EXCEPT !.active = [session.active EXCEPT !.age = older]]
      BY <1>1, <1>2, <2>2 DEF Sessions
    <3> HIDE DEF older
    <3> DEFINE b == [session.active EXCEPT !.age = older]
    <3>3. /\ b \in Segments /\ b.id = session.active.id /\ b.frames = session.active.frames
          /\ b.speakers = session.active.speakers /\ b.heard = session.active.heard
      BY <3>1 DEF Segments
    <3> HIDE DEF b
    <3>4. session' \in Sessions /\ session'.active = b /\ session'.is = session.is
      BY <1>2, <3>2, <3>3 DEF Sessions, b
    <3>5. session'.limited = session.limited
      BY <1>2, <3>2, Zenon DEF Sessions
    <3> QED
      BY <2>2, <3>3, <3>4, <3>5
  <2> QED
    BY <2>1, <2>2
<1>16. SessionStands'
  BY <1>1, <1>2, <1>15 DEF SessionStands
<1>17. AudioTyped'
  BY <1>1, <1>2, <1>3, <1>12, <1>14, <1>15 DEF AudioTyped
<1>18. session'.is = "running"
          => Flowing(pipe' \o mixer'.out, session'.active, mixer'.segment, cut')
  <2> SUFFICES ASSUME session'.is = "running"
               PROVE  Flowing(pipe' \o mixer'.out, session'.active, mixer'.segment, cut')
    OBVIOUS
  <2>1. Flowing(pipe \o out, session.active, next, CutNow)
    BY <1>11, <1>15
  <2>2. Flowing(pipe \o out, session'.active, next, CutNow)
    BY <1>15, <2>1, FlowOfSame DEF Flowing
  <2> QED
    BY <1>1, <1>12, <2>2
<1> QED
  BY <1>13, <1>16, <1>17, <1>18 DEF AudioInvariant

\* Taking the first input of the channel takes the first of the queue.
LEMMA TakesHead ==
    ASSUME NEW S, NEW Q \in Seq(S), NEW R \in Seq(S), Q # <<>>
    PROVE  /\ Head(Q) \in S /\ Tail(Q) \in Seq(S) /\ Tail(Q) \o R \in Seq(S)
           /\ Shorter(Q \o R, Tail(Q) \o R, Head(Q))
<1>1. Head(Q) \in S /\ Tail(Q) \in Seq(S) /\ <<Head(Q)>> \in Seq(S) /\ Q = <<Head(Q)>> \o Tail(Q)
  BY HeadTailProperties
<1> DEFINE T == Tail(Q) \o R
           h == Head(Q)
<1>2. T \in Seq(S) /\ Len(T) \in Nat /\ h \in S
  BY <1>1, ConcatProperties, LenProperties
<1>3. Q \o R = <<h>> \o T
  BY <1>1, ConcatAssociative
<1> HIDE DEF T, h
<1>4. Len(<<h>>) = 1 /\ <<h>>[1] = h /\ <<h>> \in Seq(S)
  BY <1>2
<1> DEFINE P == <<h>> \o T
<1>5. /\ Len(P) = 1 + Len(T)
      /\ \A i \in 1..(1 + Len(T)) : P[i] = IF i <= 1 THEN <<h>>[i] ELSE T[i - 1]
  BY <1>2, <1>4, ConcatProperties
<1> HIDE DEF P
<1> DEFINE n == Len(T)
<1>6. n \in Nat /\ Len(P) = 1 + n
  BY <1>2, <1>5
<1> HIDE DEF n
<1>7. /\ Len(P) = n + 1 /\ 1 \in 1..Len(P)
      /\ \A i \in 1..n : i + 1 \in 1..Len(P) /\ 1 < i + 1 /\ ~(i + 1 <= 1) /\ (i + 1) - 1 = i
      /\ \A i \in 1..Len(P) : i = 1 \/ (i - 1 \in 1..n /\ (i - 1) + 1 = i)
  BY <1>6
<1>8. P[1] = h
  BY <1>4, <1>5, <1>6, <1>7 DEF n
<1>9. \A i \in 1..n : P[i + 1] = T[i]
  BY <1>5, <1>6, <1>7 DEF n
<1>10. Shorter(P, T, h)
  BY <1>6, <1>7, <1>8, <1>9 DEF Shorter, n
<1> QED
  BY <1>1, <1>2, <1>3, <1>10 DEF P, T, h

\* What taking an input keeps, when its effect on the segment is the right one.
LEMMA TakingKeeps ==
    ASSUME AudioInvariant, session.is = "running", pipe # <<>>, Taken, session' \in Sessions,
           session'.is \in {"running", "failed"}, ~session'.limited,
           session'.is = "failed" => session'.active = NoSegment,
           session'.active.id = 0 => session'.active = NoSegment,
           session'.active.heard \subseteq session'.active.speakers,
           session'.is = "running" => Takes1(Head(pipe), session.active, session'.active)
    PROVE  AudioInvariant'
<1>1. /\ pipe \in Seq(Inputs) /\ mixer.out \in Seq(Inputs) /\ mixer \in Mixers /\ MaxTicks \in Nat
      /\ pipe' = Tail(pipe) /\ UNCHANGED <<streams, mixer, cut>>
  BY AudioAssumption DEF AudioInvariant, AudioTyped, Mixers, Taken
<1>2. /\ Tail(pipe) \in Seq(Inputs)
      /\ Shorter(pipe \o mixer.out, Tail(pipe) \o mixer.out, Head(pipe))
  BY <1>1, TakesHead
<1>3. Flowing(pipe \o mixer.out, session.active, mixer.segment, cut)
  BY DEF AudioInvariant
<1>4. session'.is = "running"
          => Flowing(pipe' \o mixer'.out, session'.active, mixer'.segment, cut')
  <2> SUFFICES ASSUME session'.is = "running"
               PROVE  Flowing(pipe' \o mixer'.out, session'.active, mixer'.segment, cut')
    OBVIOUS
  <2>1. Flowing(Tail(pipe) \o mixer.out, session'.active, mixer.segment, cut)
    BY <1>1, <1>2, <1>3, FlowGoesOn DEF Flowing
  <2> QED
    BY <1>1, <2>1
<1>5. AudioTyped' /\ MixerStands' /\ SessionStands'
  BY <1>1, <1>2 DEF AudioInvariant, AudioTyped, MixerStands, SessionStands
<1> QED
  BY <1>4, <1>5 DEF AudioInvariant

\* What the session loop relies on when it takes an input.
LEMMA WhatIsTaken ==
    ASSUME AudioInvariant, session.is = "running", pipe # <<>>
    PROVE  LET h == Head(pipe)
               a == session.active IN
           /\ h \in Inputs /\ a \in Segments /\ session \in Sessions /\ MaxTicks \in Nat
           /\ a.id = 0 => a = NoSegment
           /\ a.heard \subseteq a.speakers /\ ~session.limited
           /\ Own(h) => h.id \in Nat /\ h.id # 0
           /\ h.type = "start" => a.id = 0
           /\ h.type \in {"speakers", "audio", "end"} => a.id = 0 \/ a.id = h.id
           /\ h.type = "audio" /\ a.id = h.id => h.users \subseteq a.speakers /\ a.frames <= MaxTicks
           /\ h.type = "speakers" /\ a.id = h.id => a.speakers \subseteq h.users
<1> DEFINE h == Head(pipe)
           a == session.active
<1>1. /\ pipe \in Seq(Inputs) /\ mixer.out \in Seq(Inputs) /\ MaxTicks \in Nat
      /\ session \in Sessions /\ SessionStands
  BY AudioAssumption DEF AudioInvariant, AudioTyped, Mixers
<1>2. h \in Inputs /\ Shorter(pipe \o mixer.out, Tail(pipe) \o mixer.out, h)
  BY <1>1, TakesHead
<1>3. Flowing(pipe \o mixer.out, a, mixer.segment, cut)
  BY DEF AudioInvariant
<1>4. cut \in Nat
  BY DEF AudioInvariant, AudioTyped
<1>5. a \in Segments /\ (a.id = 0 => a = NoSegment) /\ a.heard \subseteq a.speakers /\ ~session.limited
  BY <1>1 DEF Sessions, SessionStands
<1> HIDE DEF h, a
<1>6. /\ Own(h) => h.id \in 1..cut
      /\ h.type = "start" => a.id = 0
      /\ h.type \in {"speakers", "audio", "end"} => a.id = 0 \/ a.id = h.id
      /\ h.type = "audio" /\ a.id = h.id => h.users \subseteq a.speakers /\ a.frames <= MaxTicks
      /\ h.type = "speakers" /\ a.id = h.id => a.speakers \subseteq h.users
  BY <1>1, <1>2, <1>3, HeadFindsItsSegment DEF Flowing
<1>7. Own(h) => h.id \in Nat /\ h.id # 0
  BY <1>4, <1>6
<1> QED
  BY <1>1, <1>2, <1>5, <1>6, <1>7 DEF h, a

LEMMA InputsAreTyped ==
    ASSUME NEW m \in Inputs
    PROVE  /\ m.type \in Types
           /\ m.type \in {"speakers", "audio"} => m.users \in SUBSET Speakers
<1>1. CASE m \in [type : {"configure"}, config : Configs]
  BY <1>1 DEF Types
<1>2. CASE m \in [type : {"start"}, id : Nat, config : Configs]
  BY <1>2 DEF Types
<1>3. CASE m \in [type : {"speakers"}, id : Nat, users : SUBSET Speakers]
  BY <1>3 DEF Types
<1>4. CASE m \in [type : {"audio"}, id : Nat, users : SUBSET Speakers]
  BY <1>4 DEF Types
<1>5. CASE m \in [type : {"end"}, id : Nat, silent : BOOLEAN]
  BY <1>5 DEF Types
<1> QED
  BY <1>1, <1>2, <1>3, <1>4, <1>5 DEF Inputs

LEMMA NewSegment ==
    ASSUME NEW s \in Sessions, NEW b \in Segments
    PROVE  LET next == [s EXCEPT !.active = b] IN
           /\ next \in Sessions /\ next.active = b /\ next.is = s.is /\ next.limited = s.limited
<1>1. [s EXCEPT !.active = b] \in Sessions /\ [s EXCEPT !.active = b].active = b
      /\ [s EXCEPT !.active = b].is = s.is
  BY DEF Sessions
<1>2. [s EXCEPT !.active = b].limited = s.limited
  BY Zenon DEF Sessions
<1> QED
  BY <1>1, <1>2

LEMMA NothingActive ==
    /\ NoSegment \in Segments /\ NoSegment.id = 0 /\ NoSegment.frames = 0
    /\ NoSegment.speakers = {} /\ NoSegment.heard = {}
BY DEF NoSegment, Segments

\* Taking what does not concern the segment.
LEMMA TakesNothing ==
    ASSUME NEW h, NEW a \in Segments, h.type \in Types, h.type = "start" => a.id = 0,
           h.type = "end" => a.id = 0, h.type \in {"speakers", "audio"} => a.id = 0
    PROVE  Takes1(h, a, a)
BY DEF Takes1, Segments

LEMMA StoreConfigKeeps ==
    ASSUME AudioInvariant, session.is = "running", pipe # <<>>, Taken,
           NEW b \in Segments, b.id = 0 => b = NoSegment, b.heard \subseteq b.speakers,
           Takes1(Head(pipe), session.active, b), StoreConfig([session EXCEPT !.active = b])
    PROVE  AudioInvariant'
<1> DEFINE next == [session EXCEPT !.active = b]
<1>1. session \in Sessions /\ ~session.limited
  BY WhatIsTaken
<1>2. next \in Sessions /\ next.active = b /\ next.is = "running" /\ ~next.limited
  BY <1>1, NewSegment
<1> HIDE DEF next
<1>3. CASE session' = next
  BY <1>2, <1>3, TakingKeeps
<1>4. CASE session' = [next EXCEPT !.is = "failed", !.active = NoSegment]
  <2>1. /\ session' \in Sessions /\ session'.is = "failed" /\ session'.active = NoSegment
    BY <1>2, <1>4, NothingActive DEF Sessions
  <2>2. session'.limited = next.limited
    BY <1>2, <1>4, Zenon DEF Sessions
  <2> QED
    BY <1>2, <2>1, <2>2, NothingActive, TakingKeeps
<1> QED
  BY <1>3, <1>4 DEF StoreConfig, next

LEMMA ConfigureTaken ==
    ASSUME AudioInvariant, TakeConfigure
    PROVE  AudioInvariant'
<1>1. session.is = "running" /\ pipe # <<>> /\ Head(pipe).type = "configure" /\ Taken
  BY DEF TakeConfigure, Takes
<1> DEFINE a == session.active
<1>2. /\ a \in Segments /\ (a.id = 0 => a = NoSegment) /\ a.heard \subseteq a.speakers
      /\ session \in Sessions /\ ~session.limited /\ Head(pipe) \in Inputs
  BY <1>1, WhatIsTaken
<1>3. Takes1(Head(pipe), a, a)
  BY <1>1, <1>2, TakesNothing, InputsAreTyped
<1>4. CASE StoreConfig(session)
  <2>1. [session EXCEPT !.active = a] = session
    BY <1>2 DEF Sessions
  <2> QED
    BY <1>1, <1>2, <1>3, <1>4, <2>1, StoreConfigKeeps
<1>5. CASE UNCHANGED session
  BY <1>1, <1>2, <1>3, <1>5, TakingKeeps
<1> QED
  BY <1>4, <1>5 DEF TakeConfigure

LEMMA StartTaken ==
    ASSUME AudioInvariant, TakeStart
    PROVE  AudioInvariant'
<1>1. session.is = "running" /\ pipe # <<>> /\ Head(pipe).type = "start" /\ Taken
  BY DEF TakeStart, Takes
<1> DEFINE a == session.active
           h == Head(pipe)
           b == [NoSegment EXCEPT !.id = h.id]
<1>2. /\ a \in Segments /\ a.id = 0 /\ a = NoSegment /\ h \in Inputs /\ h.id \in Nat /\ h.id # 0
      /\ session \in Sessions /\ ~session.limited
  BY <1>1, WhatIsTaken DEF Own
<1>3. /\ b \in Segments /\ b.id = h.id /\ b.frames = 0 /\ b.speakers = {} /\ b.heard = {}
  BY <1>2 DEF NoSegment, Segments
<1>4. \/ UNCHANGED session
      \/ StoreConfig([session EXCEPT !.active = b])
  BY DEF TakeStart
<1> HIDE DEF b
<1>5. Takes1(h, a, b)
  BY <1>1, <1>2, <1>3 DEF Takes1
<1>6. CASE UNCHANGED session
  <2>1. Takes1(h, a, a)
    BY <1>1, <1>2, TakesNothing, InputsAreTyped
  <2> QED
    BY <1>1, <1>2, <1>6, <2>1, NothingActive, TakingKeeps
<1>7. CASE StoreConfig([session EXCEPT !.active = b])
  BY <1>1, <1>2, <1>3, <1>5, <1>7, StoreConfigKeeps
<1> QED
  BY <1>4, <1>6, <1>7

LEMMA SpeakersTaken ==
    ASSUME AudioInvariant, TakeSpeakers
    PROVE  AudioInvariant'
<1>1. session.is = "running" /\ pipe # <<>> /\ Head(pipe).type = "speakers" /\ Taken
  BY DEF TakeSpeakers, Takes
<1> DEFINE a == session.active
           h == Head(pipe)
           b == [a EXCEPT !.speakers = h.users]
<1>2. /\ a \in Segments /\ (a.id = 0 => a = NoSegment) /\ a.heard \subseteq a.speakers
      /\ session \in Sessions /\ ~session.limited /\ h \in Inputs
      /\ a.id = 0 \/ a.id = h.id
      /\ a.id = h.id => a.speakers \subseteq h.users
      /\ h.id # 0
  BY <1>1, WhatIsTaken DEF Own
<1>3. CASE a.id = h.id
  <2>1. h.users \in SUBSET Speakers
    BY <1>1, <1>2, InputsAreTyped
  <2>2. session' = [session EXCEPT !.active = b]
    BY <1>2, <1>3 DEF TakeSpeakers, Sessions
  <2>3. /\ b \in Segments /\ b.id = a.id /\ b.frames = a.frames /\ b.speakers = h.users
        /\ b.heard = a.heard
    BY <1>2, <2>1 DEF Segments
  <2> HIDE DEF b
  <2>4. Takes1(h, a, b)
    BY <1>1, <1>3, <2>3 DEF Takes1, Segments
  <2>5. session' \in Sessions /\ session'.active = b /\ session'.is = "running" /\ ~session'.limited
    BY <1>1, <1>2, <2>2, <2>3, NewSegment
  <2>6. b.heard \subseteq b.speakers /\ b.id # 0
    BY <1>2, <1>3, <2>3
  <2> QED
    BY <1>1, <2>4, <2>5, <2>6, TakingKeeps
<1>4. CASE a.id # h.id
  <2>1. UNCHANGED session
    BY <1>4 DEF TakeSpeakers
  <2>2. Takes1(h, a, a)
    BY <1>1, <1>2, <1>4, TakesNothing, InputsAreTyped
  <2> QED
    BY <1>1, <1>2, <2>1, <2>2, TakingKeeps
<1> QED
  BY <1>3, <1>4

LEMMA EndTaken ==
    ASSUME AudioInvariant, TakeEnd
    PROVE  AudioInvariant'
<1>1. session.is = "running" /\ pipe # <<>> /\ Head(pipe).type = "end" /\ Taken
  BY DEF TakeEnd, Takes
<1> DEFINE a == session.active
           h == Head(pipe)
<1>2. /\ a \in Segments /\ (a.id = 0 => a = NoSegment) /\ a.heard \subseteq a.speakers
      /\ session \in Sessions /\ ~session.limited /\ h \in Inputs
      /\ a.id = 0 \/ a.id = h.id
  BY <1>1, WhatIsTaken
<1>3. CASE a = NoSegment \/ a.id # h.id
  <2>1. UNCHANGED session /\ a.id = 0
    BY <1>2, <1>3, NothingActive DEF TakeEnd
  <2>2. Takes1(h, a, a)
    BY <1>1, <1>2, <2>1, TakesNothing, InputsAreTyped
  <2> QED
    BY <1>1, <1>2, <2>1, <2>2, TakingKeeps
<1>4. CASE ~(a = NoSegment \/ a.id # h.id)
  <2>1. session' = [session EXCEPT !.active = NoSegment]
    BY <1>4 DEF TakeEnd
  <2>2. session' \in Sessions /\ session'.active = NoSegment /\ session'.is = "running" /\ ~session'.limited
    BY <1>1, <1>2, <2>1, NewSegment, NothingActive
  <2>3. Takes1(h, a, NoSegment)
    BY <1>1, NothingActive DEF Takes1
  <2> QED
    BY <1>1, <2>2, <2>3, NothingActive, TakingKeeps
<1> QED
  BY <1>3, <1>4

LEMMA AudioTaken ==
    ASSUME AudioInvariant, NEW audible \in BOOLEAN, TakeAudio(audible)
    PROVE  AudioInvariant'
<1>1. session.is = "running" /\ pipe # <<>> /\ Head(pipe).type = "audio" /\ Taken
  BY DEF TakeAudio, Takes
<1> DEFINE a == session.active
           h == Head(pipe)
           loud == IF audible /\ a.audible < MinFrames THEN a.audible + 1 ELSE a.audible
           alive == a.live \/ (audible /\ a.audible + 1 >= MinFrames)
           b == [a EXCEPT !.frames = a.frames + 1, !.heard = a.heard \cup h.users,
                          !.audible = loud, !.live = alive]
           full == b.frames >= MaxTicks + PreRoll + 1
<1>2. /\ a \in Segments /\ (a.id = 0 => a = NoSegment) /\ a.heard \subseteq a.speakers
      /\ session \in Sessions /\ ~session.limited /\ h \in Inputs /\ MaxTicks \in Nat
      /\ a.id = 0 \/ a.id = h.id
      /\ a.id = h.id => h.users \subseteq a.speakers /\ a.frames <= MaxTicks
  BY <1>1, WhatIsTaken
<1>3. CASE UNCHANGED session
  <2>1. Takes1(h, a, a)
    BY <1>1, <1>2 DEF Takes1, Segments
  <2> QED
    BY <1>1, <1>2, <1>3, <2>1, TakingKeeps
<1>4. CASE ~UNCHANGED session
  <2>1. /\ a # NoSegment
        /\ session' = [session EXCEPT !.active = IF full THEN NoSegment ELSE b,
                                      !.limited = session.limited \/ full]
    BY <1>4 DEF TakeAudio
  <2>2. a.id = h.id /\ a.id # 0 /\ h.users \in SUBSET Speakers
    BY <1>1, <1>2, <2>1, InputsAreTyped
  <2>3. loud \in Nat /\ alive \in BOOLEAN
    <3>1. a.audible \in Nat /\ a.live \in BOOLEAN
      BY <1>2 DEF Segments
    <3>2. loud \in Nat
      BY <3>1
    <3>3. alive \in BOOLEAN
      OBVIOUS
    <3> QED
      BY <3>2, <3>3
  <2>4. PreRoll \in Nat /\ PreRoll >= 1 /\ a.frames \in Nat
    BY <1>2, AudioAssumption DEF Segments
  <2> HIDE DEF loud, alive
  <2>5. /\ b \in Segments /\ b.id = a.id /\ b.frames = a.frames + 1 /\ b.speakers = a.speakers
        /\ b.heard = a.heard \cup h.users
    <3> DEFINE f == a.frames + 1
               w == a.heard \cup h.users
    <3>1. f \in Nat /\ w \in SUBSET Speakers
      BY <1>2, <2>2 DEF Segments
    <3>2. b = [a EXCEPT !.frames = f, !.heard = w, !.audible = loud, !.live = alive]
      OBVIOUS
    <3> HIDE DEF f, w, b
    <3>3. /\ b \in Segments /\ b.id = a.id /\ b.frames = f /\ b.speakers = a.speakers /\ b.heard = w
      BY <1>2, <2>3, <3>1, <3>2 DEF Segments
    <3> QED
      BY <3>3 DEF f, w
  <2> HIDE DEF b
  <2>6. ~full
    BY <1>2, <2>2, <2>4, <2>5
  <2> HIDE DEF full
  <2>7. session' = [session EXCEPT !.active = b, !.limited = FALSE]
    <3>1. (session.limited \/ full) = FALSE
      BY <1>2, <2>6
    <3> QED
      BY <2>1, <2>6, <3>1
  <2>8. session' \in Sessions /\ session'.active = b /\ session'.is = "running" /\ ~session'.limited
    <3>1. session' \in Sessions /\ session'.active = b /\ session'.is = session.is
      BY <1>2, <2>5, <2>7 DEF Sessions
    <3>2. session'.limited = FALSE
      BY <1>2, <2>7, Zenon DEF Sessions
    <3> QED
      BY <1>1, <3>1, <3>2
  <2>9. Takes1(h, a, b)
    BY <1>1, <1>2, <2>2, <2>4, <2>5 DEF Takes1, Segments
  <2>10. b.heard \subseteq b.speakers /\ b.id # 0
    BY <1>2, <2>2, <2>5
  <2> QED
    BY <1>1, <2>8, <2>9, <2>10, TakingKeeps
<1> QED
  BY <1>3, <1>4

LEMMA CloseKeeps ==
    ASSUME AudioInvariant, CloseSession
    PROVE  AudioInvariant'
<1>1. /\ session \in Sessions /\ SessionStands /\ pipe = <<>>
      /\ session' = [session EXCEPT !.is = "closed"]
      /\ UNCHANGED <<streams, mixer, pipe, verdict, cut>>
  BY DEF CloseSession, AudioInvariant, AudioTyped
<1>2. session' \in Sessions /\ session'.is = "closed" /\ session'.active = session.active
  BY <1>1 DEF Sessions
<1>3. session'.limited = session.limited
  BY <1>1, Zenon DEF Sessions
<1>4. AudioTyped' /\ MixerStands'
  BY <1>1, <1>2 DEF AudioInvariant, AudioTyped, MixerStands
<1>5. SessionStands'
  BY <1>1, <1>2, <1>3 DEF SessionStands
<1> QED
  BY <1>2, <1>4, <1>5 DEF AudioInvariant

LEMMA AudioMoves ==
    ASSUME AudioInvariant, [AudioNext]_audioVars
    PROVE  AudioInvariant'
<1>1. ASSUME NEW u \in Speakers, StartSpeaking(u) \/ QueueFrame(u) \/ StopSpeaking(u) \/ RemoveSpeaker(u)
      PROVE  AudioInvariant'
  BY <1>1, StreamSteps DEF SpeakerMoves
<1>2. ASSUME NEW c \in Configs, Configure(c) PROVE AudioInvariant'
  BY <1>2, ConfigureKeeps
<1>3. CASE ShutDown
  BY <1>3, ShutDownKeeps
<1>4. CASE MixerTicks
  BY <1>4, TickKeeps DEF MixerTicks
<1>5. CASE SendInput
  BY <1>5, SendKeeps
<1>6. CASE SessionStep
  BY <1>6, ConfigureTaken, StartTaken, SpeakersTaken, EndTaken, CloseKeeps, AudioTaken
     DEF SessionStep
<1>7. CASE UNCHANGED audioVars
  <2>1. UNCHANGED <<mixer, pipe, session, cut, streams>>
    BY <1>7 DEF audioVars
  <2>2. streams' \in [Speakers -> [known : BOOLEAN, active : BOOLEAN, frames : Nat]]
    BY <2>1 DEF AudioInvariant, AudioTyped
  <2> QED
    BY <2>1, <2>2, AudioKept
<1> QED
  BY <1>1, <1>2, <1>3, <1>4, <1>5, <1>6, <1>7 DEF AudioNext

LEMMA AudioAgrees == AudioInvariant => MixerAgreesWithSession
<1> SUFFICES ASSUME AudioInvariant PROVE MixerAgreesWithSession
  OBVIOUS
<1>1. SessionStands
  BY DEF AudioInvariant
<1>2. ASSUME pipe # <<>>, Head(pipe).type = "audio", session.active # NoSegment
      PROVE  Head(pipe).id = session.active.id
  <2>1. session.is = "running"
    BY <1>1, <1>2 DEF SessionStands, AudioInvariant, AudioTyped, Sessions
  <2>2. session.active.id = 0 \/ session.active.id = Head(pipe).id
    BY <1>2, <2>1, WhatIsTaken
  <2> QED
    BY <1>1, <1>2, <2>2 DEF SessionStands
<1> QED
  BY <1>1, <1>2 DEF SessionStands, MixerAgreesWithSession, FramesAreCredited, MixerEndsSegments

\* The mixer and the session loop agree on where an utterance begins and ends:
\* a frame is only added to the utterance it was mixed for, everybody in it has
\* been named, and the session's own limit never cuts what the mixer sends.
\* For any members, any channel and any limits.
THEOREM MixerAndSessionAgree == AudioSpec => []MixerAgreesWithSession
<1>1. AudioInit => AudioInvariant
  BY AudioStart
<1>2. AudioInvariant /\ [AudioNext]_audioVars => AudioInvariant'
  BY AudioMoves
<1>3. AudioInvariant => MixerAgreesWithSession
  BY AudioAgrees
<1> QED
  BY <1>1, <1>2, <1>3, PTL DEF AudioSpec
=============================================================================
