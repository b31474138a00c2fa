---------------------------- MODULE SpeechChain ----------------------------
(***************************************************************************)
(* One translated utterance becomes speech: the synthesis worker           *)
(* (server/src/pipeline/synthesis.rs) spawns a task that tries one engine  *)
(* after another (backends/tts/fallback.rs) and plays the chunks which the *)
(* task sends through a bounded channel.  The HTTP engines (moss_nano.rs,  *)
(* index_tts.rs, qwen.rs) are shared by all rooms and go into a backoff    *)
(* after a failure; the sherpa engines generate one chunk and have none.   *)
(*                                                                         *)
(* Two tasks of one utterance are kept apart: the spawned task is not      *)
(* aborted when the worker leaves, and the worker goes on to its next      *)
(* utterance meanwhile.  A task may also panic.  Samples and texts are     *)
(* left out, and so are sample rates and channel counts: each engine       *)
(* fixes them before its first chunk (moss_nano.rs 137 to 176, index_tts.rs*)
(* 112 to 120, qwen.rs 118 to 126, sherpa.rs 155), so they change only     *)
(* when the engine does, and the tests at synthesis.rs 96 and 101 fail     *)
(* only where the one at 107 would.                                        *)
(***************************************************************************)
EXTENDS Naturals, Sequences, FiniteSets

CONSTANTS
    Utterances,
    Local,          \* the local chain: a sequence of engines, in the order tried
    Alone,          \* engines an administrator may select without a chain
    Http,           \* engines behind HTTP, which have a backoff
    Cloning,        \* engines for which supports_voice_clone holds
    ChunkLimit,     \* bound: chunks of one answer
    QueueSize,      \* mpsc::channel(8)
    NoEngine

ChainEngines == {Local[i] : i \in DOMAIN Local} \cup Alone

ASSUME SpeechAssumption ==
    /\ Local \in Seq(ChainEngines) \ {<<>>}
    /\ \A i, j \in DOMAIN Local : Local[i] = Local[j] => i = j
    /\ Http \cup Cloning \subseteq ChainEngines
    /\ NoEngine \notin ChainEngines
    /\ ChunkLimit \in Nat \ {0} /\ QueueSize \in Nat \ {0}

VARIABLES
    task,           \* the spawned engine task of each utterance
    player,         \* what the synthesis worker has done for it
    chunks,         \* the channel between the two: the engine of each chunk
    listening,      \* the room's output is open
    backoff         \* unavailable_until lies in the future
speechVars == <<task, player, chunks, listening, backoff>>

SpeechTasks == [at : {"none", "next", "called", "sending", "done", "died"},
                todo : Seq(ChainEngines), able : SUBSET ChainEngines,
                engine : ChainEngines \cup {NoEngine},
                owed : 0..ChunkLimit, emitted : BOOLEAN, good : BOOLEAN]
Players == [at : {"idle", "receiving", "starting", "left", "done"},
            heard : SUBSET ChainEngines,
            start : BOOLEAN, end : BOOLEAN, verdict : {"none", "media", "failed"}]

NoTask   == [at |-> "none", todo |-> <<>>, able |-> {}, engine |-> NoEngine,
             owed |-> 0, emitted |-> FALSE, good |-> FALSE]
NoPlayer == [at |-> "idle", heard |-> {}, start |-> FALSE, end |-> FALSE,
             verdict |-> "none"]

SpeechInit ==
    /\ task = [u \in Utterances |-> NoTask]
    /\ player = [u \in Utterances |-> NoPlayer]
    /\ chunks = [u \in Utterances |-> <<>>]
    /\ listening = [u \in Utterances |-> TRUE]
    /\ backoff = [e \in ChainEngines |-> FALSE]

-----------------------------------------------------------------------------
(* The chain skips engines that do not speak the language or cannot clone  *)
(* the requested voice; a single selected engine is called in any case.    *)

Able(speaking, cloned) == IF cloned THEN speaking \cap Cloning ELSE speaking

Synthesize(u) ==
    /\ player[u].at = "idle"
    /\ listening[u]
    /\ \/ \E speaking \in SUBSET ChainEngines, cloned \in BOOLEAN :
             task' = [task EXCEPT ![u].at = "next", ![u].todo = Local,
                                  ![u].able = Able(speaking, cloned)]
       \/ \E e \in Alone :
             task' = [task EXCEPT ![u].at = "next", ![u].todo = <<e>>, ![u].able = {e}]
    /\ player' = [player EXCEPT ![u].at = "receiving"]
    /\ UNCHANGED <<chunks, listening, backoff>>

\* The room is gone, or the reference voice is.
SynthesisRefused(u) ==
    /\ player[u].at = "idle"
    /\ player' = [player EXCEPT ![u].at = "done", ![u].verdict = "failed"]
    /\ UNCHANGED <<task, chunks, listening, backoff>>

\* A task that ended, `done' with its result or `died', keeps nothing but the name
\* of its last engine.
Ended(t, at, good) == [NoTask EXCEPT !.at = at, !.engine = t.engine, !.good = good]

\* The next engine is passed over, or, by ensure_retry_allowed, refuses without
\* a call and without touching the backoff; or it is called, having sent nothing.
CallEngine(u) ==
    /\ task[u].at = "next"
    /\ LET todo == task[u].todo
           e == Head(todo)
       IN  task' =
             IF todo = <<>>
               THEN [task EXCEPT ![u] = Ended(@, "done", FALSE)]
             ELSE IF e \notin task[u].able \/ (e \in Http /\ backoff[e])
               THEN [task EXCEPT ![u].todo = Tail(todo), ![u].able = @ \ {e}]
             ELSE [task EXCEPT ![u].at = "called", ![u].todo = Tail(todo), ![u].engine = e,
                               ![u].able = @ \ {e},
                               ![u].owed = 0, ![u].emitted = FALSE, ![u].good = FALSE]
    /\ UNCHANGED <<player, chunks, listening, backoff>>

\* What the engine has to give, and how it ends.  An HTTP engine calls an
\* empty answer an error; a sherpa engine does not.
EngineAnswers(u) ==
    /\ task[u].at = "called"
    /\ \E owed \in 0..ChunkLimit, good \in BOOLEAN :
          /\ IF task[u].engine \in Http
               THEN good => owed > 0
               ELSE owed <= 1 /\ (~good => owed = 0)
          /\ task' = [task EXCEPT ![u].at = "sending", ![u].owed = owed, ![u].good = good]
    /\ UNCHANGED <<player, chunks, listening, backoff>>

\* The receiving end of the channel is still there.
Receives(u) == player[u].at \in {"receiving", "starting"}

SendChunk(u) ==
    /\ task[u].at = "sending" /\ task[u].owed > 0
    /\ Receives(u)
    /\ Len(chunks[u]) < QueueSize
    /\ chunks' = [chunks EXCEPT ![u] = Append(@, task[u].engine)]
    /\ task' = [task EXCEPT ![u].owed = @ - 1, ![u].emitted = TRUE]
    /\ UNCHANGED <<player, listening, backoff>>

\* Mutant: a sink without a receiver waits like one that is full.
SendWaits(u) == FALSE /\ UNCHANGED speechVars

\* The receiver was dropped: the send is an error of the engine.
SendFails(u) ==
    /\ task[u].at = "sending" /\ task[u].owed > 0
    /\ ~Receives(u)
    /\ task' = [task EXCEPT ![u].owed = 0, ![u].good = FALSE]
    /\ UNCHANGED <<player, chunks, listening, backoff>>

\* update_availability: the last of several concurrent calls decides.
Availability(e, good) ==
    IF e \in Http THEN [backoff EXCEPT ![e] = ~good] ELSE backoff

\* Mutant: the chain goes on after a failure, whatever was sent.
ReturnsToNext(u) ==
    /\ task[u].at = "sending" /\ task[u].owed = 0
    /\ LET good == task[u].good
       IN  /\ backoff' = Availability(task[u].engine, good)
           /\ task' = [task EXCEPT ![u] = IF good /\ @.emitted THEN Ended(@, "done", good)
                                          ELSE [@ EXCEPT !.at = "next"]]
    /\ UNCHANGED <<player, chunks, listening>>

EngineReturns(u) ==
    /\ task[u].at = "sending" /\ task[u].owed = 0
    /\ backoff' = Availability(task[u].engine, task[u].good)
    /\ task' = [task EXCEPT ![u] = IF @.emitted THEN Ended(@, "done", @.good)
                                   ELSE [@ EXCEPT !.at = "next"]]
    /\ UNCHANGED <<player, chunks, listening>>

\* A panic takes the task down wherever it is; what it sent stays in the channel.
TaskPanics(u) ==
    /\ task[u].at \in {"next", "called", "sending"}
    /\ task' = [task EXCEPT ![u] = Ended(@, "died", FALSE)]
    /\ UNCHANGED <<player, chunks, listening, backoff>>

-----------------------------------------------------------------------------
(* The worker.  Only the two events before the first chunk, AudioStart and *)
(* the playing state, need a room that listens: the chunks that follow are *)
(* kept for the history even when nobody hears them.                       *)

Leave(u) ==
    /\ player' = [player EXCEPT ![u].at = "left", ![u].verdict = "failed"]
    /\ chunks' = [chunks EXCEPT ![u] = <<>>]

StartAudio(u) ==
    /\ player[u].at = "receiving" /\ ~player[u].start
    /\ chunks[u] # <<>>
    /\ IF listening[u]
         THEN /\ player' = [player EXCEPT ![u].at = "starting", ![u].start = TRUE]
              /\ UNCHANGED chunks
         ELSE Leave(u)
    /\ UNCHANGED <<task, listening, backoff>>

ReceiveChunk(u) ==
    /\ Receives(u) /\ player[u].start
    /\ chunks[u] # <<>>
    /\ LET e == Head(chunks[u])
       IN  IF \/ player[u].heard \ {e} # {}
              \/ player[u].at = "starting" /\ ~listening[u]
             THEN Leave(u)
             ELSE /\ player' = [player EXCEPT ![u].at = "receiving",
                                              ![u].heard = @ \cup {e}]
                  /\ chunks' = [chunks EXCEPT ![u] = Tail(@)]
    /\ UNCHANGED <<task, listening, backoff>>

\* The channel is drained and the task has ended; then the file and the row
\* are written, which may fail, and the room gets the media or the failure.
Conclude(u) ==
    /\ player[u].at = "receiving" /\ chunks[u] = <<>> /\ task[u].at = "done"
    /\ \E verdict \in {"media", "failed"} :
          /\ verdict = "media" => task[u].good /\ player[u].start
          /\ player' = [player EXCEPT ![u].at = "done", ![u].verdict = verdict,
                                      ![u].end = player[u].start]
    /\ UNCHANGED <<task, chunks, listening, backoff>>

\* The task has panicked: the error of the join leaves by `?' (137 to 140), past
\* the AudioEnd of line 141.
JoinFails(u) ==
    /\ player[u].at = "receiving" /\ chunks[u] = <<>> /\ task[u].at = "died"
    /\ player' = [player EXCEPT ![u].at = "left", ![u].verdict = "failed"]
    /\ UNCHANGED <<task, chunks, listening, backoff>>

RoomGoes(u) ==
    /\ listening[u]
    /\ listening' = [listening EXCEPT ![u] = FALSE]
    /\ UNCHANGED <<task, player, chunks, backoff>>

BackoffEnds(e) ==
    /\ backoff[e]
    /\ backoff' = [backoff EXCEPT ![e] = FALSE]
    /\ UNCHANGED <<task, player, chunks, listening>>

TaskStep(u) == CallEngine(u) \/ EngineAnswers(u) \/ SendChunk(u) \/ SendFails(u)
               \/ EngineReturns(u)
PlayerStep(u) == StartAudio(u) \/ ReceiveChunk(u) \/ Conclude(u) \/ JoinFails(u)

SpeechNext ==
    \/ \E u \in Utterances :
          \/ Synthesize(u) \/ SynthesisRefused(u) \/ RoomGoes(u)
          \/ TaskStep(u) \/ TaskPanics(u) \/ PlayerStep(u)
    \/ \E e \in ChainEngines : BackoffEnds(e)

\* HTTP calls have a timeout and a generation ends: every task goes on as long
\* as its channel lets it.
SpeechFairness ==
    \A u \in Utterances : WF_speechVars(TaskStep(u)) /\ WF_speechVars(PlayerStep(u))

SpeechSpec == SpeechInit /\ [][SpeechNext]_speechVars /\ SpeechFairness

-----------------------------------------------------------------------------
SpeechTypeOK ==
    /\ task \in [Utterances -> SpeechTasks]
    /\ player \in [Utterances -> Players]
    /\ chunks \in [Utterances -> Seq(ChainEngines)]
    /\ listening \in [Utterances -> BOOLEAN]
    /\ backoff \in [ChainEngines -> BOOLEAN]

\* One utterance speaks with one voice: what was sent and what waits in the
\* channel come from one engine, so the worker's tests for a changed rate, channel
\* count or engine (synthesis.rs 96, 101, 107) never fail, and it leaves only a
\* room that is gone or a task that panicked.
OneVoicePerUtterance ==
    \A u \in Utterances :
        /\ Cardinality(player[u].heard \cup {chunks[u][i] : i \in DOMAIN chunks[u]}) <= 1
        /\ player[u].at = "left" => ~listening[u] \/ task[u].at = "died"

\* A stream that a client was told to play is ended whenever the engines failed,
\* answered or were passed over, in the middle of it too.  It stays open for two
\* reasons only, a task that panicked and a room that went away between the two
\* events of the start, and then the utterance is reported as failed.  The history
\* names a file only for a stream that was played and ended.
StreamsAreClosed ==
    \A u \in Utterances :
        /\ player[u].at \in {"left", "done"} /\ player[u].start /\ ~player[u].end
              => /\ player[u].verdict = "failed"
                 /\ task[u].at = "died" \/ (~listening[u] /\ player[u].heard = {})
        /\ player[u].verdict = "media" => player[u].heard # {} /\ player[u].end

\* An engine task ends, also when its worker left while the channel was full:
\* the shared engine is not held by an utterance nobody waits for.
EngineTasksEnd ==
    \A u \in Utterances : task[u].at # "none" ~> task[u].at \in {"done", "died"}

\* What is heard of an utterance is one voice, from its start to its end.
SpeechIsWhole == OneVoicePerUtterance /\ StreamsAreClosed
=============================================================================
