------------------------- MODULE UtterancePipeline -------------------------
(***************************************************************************)
(* The voice pipelines of one room: the session loop (pipeline/session.rs) *)
(* that turns the mixed audio into utterances, its four workers behind     *)
(* bounded queues (pipeline/jobs.rs, transcription.rs, translation.rs,     *)
(* synthesis.rs, refinement.rs), the rows they keep (storage/history.rs),  *)
(* and the sweep over interrupted rows that every Database::connect does   *)
(* (storage/mod.rs) - in the public service after a crash, and in the      *)
(* admin service, which shares the database, whenever it starts.           *)
(*                                                                         *)
(* A new pipeline starts while the one before it still drains its queues:  *)
(* both publish into the room's one broadcast channel.  The input is what  *)
(* run_room_mixer sends: it ends a segment before it starts the next.      *)
(* Speech, texts and audio are not represented, engines answer or fail.    *)
(***************************************************************************)
EXTENDS Integers, Sequences, FiniteSets

CONSTANTS
    Sessions,           \* slots for pipelines
    Utterances,         \* the tc_ids
    Nobody,             \* no session, no utterance
    HasRefinement,      \* is a refinement engine configured?
    Capacity,           \* TEXT_QUEUE_CAPACITY
    MaxFaults,          \* bound: statements of the database that fail
    MaxCrashes,         \* bound: crashes of the public service
    MaxAdminStarts      \* bound: starts of the admin service

ASSUME ConstantsAssumption ==
    /\ Nobody \notin Sessions \cup Utterances
    /\ HasRefinement \in BOOLEAN
    /\ Capacity \in Nat \ {0}
    /\ MaxFaults \in Nat
    /\ MaxCrashes \in Nat
    /\ MaxAdminStarts \in Nat

VARIABLES
    stage, segment, live, sweep,        \* the session loops
    queue, job,                         \* the workers
    row, refined, owner, endedAt,       \* the database
    announced, verdict,                 \* what the room was told
    recovery, booting,                  \* the sweep of a starting process
    faults, crashes, adminStarts

sessionVars  == <<stage, segment, live, sweep>>
workerVars   == <<queue, job>>
databaseVars == <<row, refined, owner, endedAt>>
roomVars     == <<announced, verdict>>
processVars  == <<recovery, booting, crashes, adminStarts>>
vars == <<sessionVars, workerVars, databaseVars, roomVars, processVars, faults>>

Stages == {"transcription", "translation", "synthesis", "refinement"}
NextStage == [transcription |-> "translation", translation |-> "synthesis"]
FailureOf == [transcription |-> "recognition_failed",
              translation   |-> "translation_failed",
              synthesis     |-> "tts_failed"]

\* The three UPDATEs of both sweeps, in their order.
SweepOrder == <<"recognizing", "translating", "text_ready">>
InterruptionOf == [recognizing |-> "recognition_interrupted",
                   translating |-> "translation_interrupted",
                   text_ready  |-> "tts_interrupted"]
InProgress == DOMAIN InterruptionOf
Statuses == {"none", "completed"} \cup InProgress
               \cup {InterruptionOf[st] : st \in InProgress}
               \cup {FailureOf[w] : w \in DOMAIN FailureOf}

Idle == [step |-> "idle", utterance |-> Nobody]

Init ==
    /\ stage = [s \in Sessions |-> "unused"]
    /\ segment = [s \in Sessions |-> Nobody]
    /\ live = [s \in Sessions |-> FALSE]
    /\ sweep = [s \in Sessions |-> 0]
    /\ queue = [s \in Sessions |-> [w \in Stages |-> <<>>]]
    /\ job = [s \in Sessions |-> [w \in Stages |-> Idle]]
    /\ row = [u \in Utterances |-> "none"]
    /\ refined = [u \in Utterances |-> "none"]
    /\ owner = [u \in Utterances |-> Nobody]
    /\ endedAt = [s \in Sessions |-> FALSE]
    /\ announced = [u \in Utterances |-> FALSE]
    /\ verdict = [u \in Utterances |-> "none"]
    /\ recovery = 0
    /\ booting = FALSE
    /\ faults = 0
    /\ crashes = 0
    /\ adminStarts = 0

-----------------------------------------------------------------------------
(* Statements of the database.  One that fails may have been committed.    *)

Fault == faults < MaxFaults /\ faults' = faults + 1

\* Mutant: a result is stored only if the row is still in progress.
SaveInProgress(u, status) ==
    row' = IF row[u] \in InProgress THEN [row EXCEPT ![u] = status] ELSE row

\* UPDATE voice_utterances ... WHERE id = u: nothing if there is no such row.
Save(u, status) ==
    row' = IF row[u] = "none" THEN row ELSE [row EXCEPT ![u] = status]

\* Mutant: the three statements were copied with one new status.
InterruptedAsOne(us, st) ==
    [u \in Utterances |->
        IF u \in us /\ row[u] = st THEN "recognition_interrupted" ELSE row[u]]

Interrupted(us, st) ==
    [u \in Utterances |->
        IF u \in us /\ row[u] = st THEN InterruptionOf[st] ELSE row[u]]

-----------------------------------------------------------------------------
(* The session loop.                                                       *)

Of(s) == {u \in Utterances : owner[u] = s}

\* run_pipeline loads and stores before it listens; an error ends it.
OpenSession(s) ==
    /\ stage[s] = "unused"
    /\ ~booting
    /\ \/ stage' = [stage EXCEPT ![s] = "running"] /\ UNCHANGED faults
       \/ stage' = [stage EXCEPT ![s] = "failed"] /\ Fault
    /\ UNCHANGED <<segment, live, sweep, workerVars, databaseVars, roomVars, processVars>>

\* A configuration that cannot be stored ends run_pipeline with an error,
\* whatever segment it had: the workers run on by themselves, and nobody
\* completes the session.  One that is stored changes nothing here.
ConfigureFails(s) ==
    /\ stage[s] = "running"
    /\ Fault
    /\ stage' = [stage EXCEPT ![s] = "failed"]
    /\ segment' = [segment EXCEPT ![s] = Nobody]
    /\ live' = [live EXCEPT ![s] = FALSE]
    /\ UNCHANGED <<sweep, workerVars, databaseVars, roomVars, processVars>>

\* A Start stores the segment's configuration, and may fail likewise.
StartSegment(s, u) ==
    /\ stage[s] = "running"
    /\ segment[s] = Nobody
    /\ owner[u] = Nobody
    /\ owner' = [owner EXCEPT ![u] = s]
    /\ \/ segment' = [segment EXCEPT ![s] = u] /\ UNCHANGED <<stage, faults>>
       \/ stage' = [stage EXCEPT ![s] = "failed"] /\ Fault /\ UNCHANGED segment
    /\ UNCHANGED <<live, sweep, workerVars, row, refined, endedAt, roomVars, processVars>>

\* begin_live, once the audio holds enough audible frames.
BeginLive(s) ==
    /\ stage[s] = "running"
    /\ segment[s] # Nobody
    /\ ~live[s]
    /\ live' = [live EXCEPT ![s] = TRUE]
    /\ announced' = [announced EXCEPT ![segment[s]] = TRUE]
    /\ UNCHANGED <<stage, segment, sweep, workerVars, databaseVars, verdict,
                   processVars, faults>>

\* discard_segment: too short to be speech, or never audible.
DiscardSegment(s) ==
    /\ stage[s] = "running"
    /\ segment[s] # Nobody
    /\ verdict' = [verdict EXCEPT ![segment[s]] = "discarded"]
    /\ segment' = [segment EXCEPT ![s] = Nobody]
    /\ live' = [live EXCEPT ![s] = FALSE]
    /\ UNCHANGED <<stage, sweep, workerVars, databaseVars, announced, processVars, faults>>

Push(s, w, u) == queue' = [queue EXCEPT ![s][w] = Append(@, u)]

\* finish_live; the loop waits while the transcription queue is full.
FinishLive(s) ==
    /\ stage[s] = "running"
    /\ live[s]
    /\ Len(queue[s]["transcription"]) < Capacity
    /\ Push(s, "transcription", segment[s])
    /\ segment' = [segment EXCEPT ![s] = Nobody]
    /\ live' = [live EXCEPT ![s] = FALSE]
    /\ UNCHANGED <<stage, sweep, job, databaseVars, roomVars, processVars, faults>>

CloseInput(s) ==
    /\ stage[s] = "running"
    /\ segment[s] = Nobody
    /\ stage' = [stage EXCEPT ![s] = "draining"]
    /\ UNCHANGED <<segment, live, sweep, workerVars, databaseVars, roomVars, processVars, faults>>

IsDrained(s, w) == queue[s][w] = <<>> /\ job[s][w] = Idle

\* Mutant: finish waits for the first worker only.
TranscriberDone(s) ==
    /\ stage[s] = "draining"
    /\ IsDrained(s, "transcription")
    /\ stage' = [stage EXCEPT ![s] = "sweeping"]
    /\ sweep' = [sweep EXCEPT ![s] = 1]
    /\ UNCHANGED <<segment, live, workerVars, databaseVars, roomVars, processVars, faults>>

\* PipelineWorkers::finish: every worker has ended.
WorkersDone(s) ==
    /\ stage[s] = "draining"
    /\ \A w \in Stages : IsDrained(s, w)
    /\ stage' = [stage EXCEPT ![s] = "sweeping"]
    /\ sweep' = [sweep EXCEPT ![s] = 1]
    /\ UNCHANGED <<segment, live, workerVars, databaseVars, roomVars, processVars, faults>>

\* interrupt_session_utterances: an UPDATE that fails skips the later ones.
SweepSession(s) ==
    /\ stage[s] = "sweeping"
    /\ \/ /\ row' = Interrupted(Of(s), SweepOrder[sweep[s]])
          /\ sweep' = [sweep EXCEPT ![s] = @ + 1]
          /\ stage' = [stage EXCEPT ![s] = IF sweep[s] = 3 THEN "completing" ELSE "sweeping"]
          /\ UNCHANGED faults
       \/ /\ Fault
          /\ row' \in {row, Interrupted(Of(s), SweepOrder[sweep[s]])}
          /\ sweep' = [sweep EXCEPT ![s] = 0]
          /\ stage' = [stage EXCEPT ![s] = "completing"]
    /\ UNCHANGED <<segment, live, workerVars, refined, owner, endedAt, roomVars, processVars>>

CompleteSession(s) ==
    /\ stage[s] = "completing"
    /\ stage' = [stage EXCEPT ![s] = "ended"]
    /\ \/ endedAt' = [endedAt EXCEPT ![s] = TRUE] /\ UNCHANGED faults
       \/ Fault /\ UNCHANGED endedAt
    /\ UNCHANGED <<segment, live, sweep, workerVars, row, refined, owner, roomVars, processVars>>
-----------------------------------------------------------------------------
(* The workers.  Each handles one job at a time, in the order of its queue.*)

At(s, w, step) == job[s][w].step = step
Current(s, w)  == job[s][w].utterance
Goto(s, w, step) == job' = [job EXCEPT ![s][w].step = step]
Rest(s, w) == job' = [job EXCEPT ![s][w] = Idle]

Take(s, w) ==
    /\ At(s, w, "idle")
    /\ queue[s][w] # <<>>
    /\ job' = [job EXCEPT ![s][w] = [step |-> "work", utterance |-> Head(queue[s][w])]]
    /\ queue' = [queue EXCEPT ![s][w] = Tail(@)]
    /\ UNCHANGED <<sessionVars, databaseVars, roomVars, processVars, faults>>

\* Store a stage's result and go on, or fail the job.
StoreResult(s, w, status, next) ==
    \/ Save(Current(s, w), status) /\ Goto(s, w, next) /\ UNCHANGED faults
    \/ Fault /\ (Save(Current(s, w), status) \/ UNCHANGED row) /\ Goto(s, w, "failed")

\* The engine reports an error, or no speech.
EngineFails(s, w) == Goto(s, w, "failed") /\ UNCHANGED <<row, faults>>

\* prepare_utterance: the source WAV, then the row.
CreateRow(s) ==
    /\ At(s, "transcription", "work")
    /\ LET u == Current(s, "transcription")
           created == [row EXCEPT ![u] = "recognizing"]
       IN  \/ row' = created /\ Goto(s, "transcription", "recognize") /\ UNCHANGED faults
           \/ Fault /\ row' \in {row, created} /\ Goto(s, "transcription", "failed")
    /\ UNCHANGED <<sessionVars, queue, refined, owner, endedAt, roomVars, processVars>>

Recognize(s) ==
    /\ At(s, "transcription", "recognize")
    /\ \/ StoreResult(s, "transcription", "translating", "offer")
       \/ EngineFails(s, "transcription")
    /\ UNCHANGED <<sessionVars, queue, refined, owner, endedAt, roomVars, processVars>>

\* Mutant: the refinement is queued with `send`.
OfferOrWait(s) ==
    /\ At(s, "transcription", "offer")
    /\ HasRefinement => Len(queue[s]["refinement"]) < Capacity
    /\ IF HasRefinement THEN Push(s, "refinement", Current(s, "transcription"))
       ELSE UNCHANGED queue
    /\ Goto(s, "transcription", "handover")
    /\ UNCHANGED <<sessionVars, databaseVars, roomVars, processVars, faults>>

\* refinement.try_send: a full queue skips the utterance.
OfferRefinement(s) ==
    /\ At(s, "transcription", "offer")
    /\ IF HasRefinement /\ Len(queue[s]["refinement"]) < Capacity
       THEN Push(s, "refinement", Current(s, "transcription"))
       ELSE UNCHANGED queue
    /\ Goto(s, "transcription", "handover")
    /\ UNCHANGED <<sessionVars, databaseVars, roomVars, processVars, faults>>

Translate(s) ==
    /\ At(s, "translation", "work")
    /\ \/ StoreResult(s, "translation", "text_ready", "handover")
       \/ EngineFails(s, "translation")
    /\ UNCHANGED <<sessionVars, queue, refined, owner, endedAt, roomVars, processVars>>

\* The job moves on to the next stage, as soon as its queue has room.
HandOver(s, w) ==
    /\ At(s, w, "handover")
    /\ Len(queue[s][NextStage[w]]) < Capacity
    /\ Push(s, NextStage[w], Current(s, w))
    /\ Rest(s, w)
    /\ UNCHANGED <<sessionVars, databaseVars, roomVars, processVars, faults>>

\* audio_start and the frames.
StartStream(s) ==
    /\ At(s, "synthesis", "work")
    /\ Goto(s, "synthesis", "stream")
    /\ UNCHANGED <<sessionVars, queue, databaseVars, announced, verdict, processVars, faults>>

\* audio_end
EndStream(s) ==
    /\ At(s, "synthesis", "stream")
    /\ Goto(s, "synthesis", "store")
    /\ UNCHANGED <<sessionVars, queue, databaseVars, announced, verdict, processVars, faults>>

\* No reference voice or no audio; a chunk of another format, or a panic, in
\* mid-stream, which leaves out audio_end; an error of the engine or of the
\* media store after it.
SynthesisFails(s) ==
    /\ \E step \in {"work", "stream", "store"} : At(s, "synthesis", step)
    /\ EngineFails(s, "synthesis")
    /\ UNCHANGED <<sessionVars, queue, refined, owner, endedAt, roomVars, processVars>>

\* save_translated and complete_utterance_audio, then the media event.
StoreAudio(s) ==
    /\ At(s, "synthesis", "store")
    /\ StoreResult(s, "synthesis", "completed", "spoken")
    /\ UNCHANGED <<sessionVars, queue, refined, owner, endedAt, roomVars, processVars>>

PublishMedia(s) ==
    /\ At(s, "synthesis", "spoken")
    /\ verdict' = [verdict EXCEPT ![Current(s, "synthesis")] = "completed"]
    /\ Rest(s, "synthesis")
    /\ UNCHANGED <<sessionVars, queue, databaseVars, announced, processVars, faults>>

\* mark_utterance_failed, then the room is told.
FailJob(s, w) ==
    /\ At(s, w, "failed")
    /\ \/ Save(Current(s, w), FailureOf[w]) /\ UNCHANGED faults
       \/ Fault /\ (Save(Current(s, w), FailureOf[w]) \/ UNCHANGED row)
    /\ verdict' = [verdict EXCEPT ![Current(s, w)] = FailureOf[w]]
    /\ Rest(s, w)
    /\ UNCHANGED <<sessionVars, queue, refined, owner, endedAt, announced, processVars>>

\* INSERT ... ON CONFLICT DO UPDATE; an error is logged.
StartRefinement(s) ==
    /\ At(s, "refinement", "work")
    /\ \/ refined' = [refined EXCEPT ![Current(s, "refinement")] = "processing"] /\ UNCHANGED faults
       \/ Fault /\ UNCHANGED refined
    /\ Goto(s, "refinement", "refine")
    /\ UNCHANGED <<sessionVars, queue, row, owner, endedAt, roomVars, processVars>>

FinishRefinement(s) ==
    /\ At(s, "refinement", "refine")
    /\ LET u == Current(s, "refinement")
       IN  \/ /\ \E result \in {"completed", "failed"} :
                    refined' = IF refined[u] = "none" THEN refined
                               ELSE [refined EXCEPT ![u] = result]
              /\ UNCHANGED faults
           \/ Fault /\ UNCHANGED refined
    /\ Rest(s, "refinement")
    /\ UNCHANGED <<sessionVars, queue, row, owner, endedAt, roomVars, processVars>>

-----------------------------------------------------------------------------
(* Processes start and crash.                                              *)

\* The public service loses every pipeline; its next start sweeps the rows
\* before it serves anyone.
Crash ==
    /\ ~booting
    /\ crashes < MaxCrashes
    /\ crashes' = crashes + 1
    /\ stage' = [s \in Sessions |-> IF stage[s] \in {"unused", "ended"} THEN stage[s] ELSE "dead"]
    /\ segment' = [s \in Sessions |-> Nobody]
    /\ live' = [s \in Sessions |-> FALSE]
    /\ sweep' = [s \in Sessions |-> IF stage[s] = "ended" THEN sweep[s] ELSE 0]
    /\ queue' = [s \in Sessions |-> [w \in Stages |-> <<>>]]
    /\ job' = [s \in Sessions |-> [w \in Stages |-> Idle]]
    /\ booting' = TRUE
    /\ recovery' = 1
    /\ UNCHANGED <<databaseVars, announced, verdict, faults, adminStarts>>

\* Database::connect in the admin service, which runs beside the public one.
StartAdmin ==
    /\ ~booting
    /\ recovery = 0
    /\ adminStarts < MaxAdminStarts
    /\ adminStarts' = adminStarts + 1
    /\ recovery' = 1
    /\ UNCHANGED <<sessionVars, workerVars, databaseVars, roomVars, booting, crashes, faults>>

\* recover_interrupted_utterances, one statement at a time: the three kinds
\* of rows, the open sessions, the refinements.
Recover ==
    /\ recovery # 0
    /\ row' = IF recovery <= 3 THEN Interrupted(Utterances, SweepOrder[recovery]) ELSE row
    /\ endedAt' = IF recovery = 4 THEN [s \in Sessions |-> stage[s] # "unused"] ELSE endedAt
    /\ refined' = IF recovery = 5
                  THEN [u \in Utterances |->
                           IF refined[u] = "processing" THEN "interrupted" ELSE refined[u]]
                  ELSE refined
    /\ recovery' = IF recovery = 5 THEN 0 ELSE recovery + 1
    /\ booting' = (booting /\ recovery # 5)
    /\ UNCHANGED <<sessionVars, workerVars, owner, roomVars, crashes, adminStarts, faults>>

-----------------------------------------------------------------------------
Session(s) == \/ OpenSession(s) \/ ConfigureFails(s)
              \/ \E u \in Utterances : StartSegment(s, u)
              \/ BeginLive(s) \/ DiscardSegment(s) \/ FinishLive(s) \/ CloseInput(s)
              \/ WorkersDone(s) \/ SweepSession(s) \/ CompleteSession(s)
Transcriber(s) == \/ Take(s, "transcription") \/ CreateRow(s) \/ Recognize(s)
                  \/ OfferRefinement(s) \/ HandOver(s, "transcription")
                  \/ FailJob(s, "transcription")
Translator(s) == \/ Take(s, "translation") \/ Translate(s) \/ HandOver(s, "translation")
                 \/ FailJob(s, "translation")
Synthesizer(s) == \/ Take(s, "synthesis") \/ StartStream(s) \/ EndStream(s)
                  \/ SynthesisFails(s) \/ StoreAudio(s) \/ PublishMedia(s)
                  \/ FailJob(s, "synthesis")
Refiner(s) == Take(s, "refinement") \/ StartRefinement(s) \/ FinishRefinement(s)
Process == Crash \/ StartAdmin \/ Recover

Next == \/ \E s \in Sessions : \/ Session(s) \/ Transcriber(s) \/ Translator(s)
                               \/ Synthesizer(s) \/ Refiner(s)
        \/ Process

Spec == Init /\ [][Next]_vars

\* The realtime engines answer or fail (their calls have timeouts) and the
\* mixer ends each segment, after 20 seconds at the latest.  Nothing is
\* assumed of the refinement engine.
Fairness ==
    \A s \in Sessions :
        /\ WF_vars(FinishLive(s)) /\ WF_vars(DiscardSegment(s) /\ ~live[s])
        /\ WF_vars(Transcriber(s)) /\ WF_vars(Translator(s)) /\ WF_vars(Synthesizer(s))

FairSpec == Spec /\ Fairness
-----------------------------------------------------------------------------
SessionStages == {"unused", "running", "failed", "draining", "sweeping", "completing", "ended", "dead"}
JobSteps == {"idle", "work", "recognize", "offer", "handover", "stream", "store", "spoken",
             "refine", "failed"}

TypeOK ==
    /\ stage \in [Sessions -> SessionStages]
    /\ segment \in [Sessions -> Utterances \cup {Nobody}]
    /\ live \in [Sessions -> BOOLEAN]
    /\ sweep \in [Sessions -> 0..4]
    /\ queue \in [Sessions -> [Stages -> Seq(Utterances)]]
    /\ \A s \in Sessions, w \in Stages : Len(queue[s][w]) <= Capacity
    /\ job \in [Sessions -> [Stages -> [step : JobSteps, utterance : Utterances \cup {Nobody}]]]
    /\ row \in [Utterances -> Statuses]
    /\ refined \in [Utterances -> {"none", "processing", "completed", "failed", "interrupted"}]
    /\ owner \in [Utterances -> Sessions \cup {Nobody}]
    /\ endedAt \in [Sessions -> BOOLEAN]
    /\ announced \in [Utterances -> BOOLEAN]
    /\ verdict \in [Utterances -> {"none", "discarded", "completed"}
                                     \cup {FailureOf[w] : w \in DOMAIN FailureOf}]
    /\ recovery \in 0..5
    /\ booting \in BOOLEAN
    /\ faults \in 0..MaxFaults
    /\ crashes \in 0..MaxCrashes
    /\ adminStarts \in 0..MaxAdminStarts

(* No utterance is left in progress by a session that is over: one whose   *)
(* sweep got through after all workers had ended, or one that died with    *)
(* the public service, once that has started again - whichever writes      *)
(* failed before (session.rs 397-413, history.rs 267-358).                 *)
NoRowLeftBehind ==
    \A u \in Utterances :
        LET s == owner[u]
        IN  s # Nobody /\ row[u] \in InProgress =>
                /\ ~(stage[s] = "ended" /\ sweep[s] = 4)
                /\ ~(stage[s] = "dead" /\ ~booting)

(* While the database answers, the history of an ended session says what   *)
(* the room was told of each utterance: discarded ones have no row, failed *)
(* and completed ones the row of that outcome, even when a starting admin  *)
(* service marked them interrupted meanwhile (history.rs 416-501).         *)
HistoryAgreesWithRoom ==
    faults = 0 =>
        \A u \in Utterances : owner[u] # Nobody /\ stage[owner[u]] = "ended" =>
            IF verdict[u] = "discarded" THEN row[u] = "none" ELSE row[u] = verdict[u]

(* The history's status column follows its life cycle, although each write *)
(* is an UPDATE by id that looks at no earlier status: failures, crashes   *)
(* and lost replies included, as long as no admin service starts.          *)
Lifecycle == INSTANCE UtteranceLifecycle WITH status <- row
FollowsLifecycle == Lifecycle!Spec

(* Whoever speaks gets an answer: an utterance whose recognition was       *)
(* announced is discarded, completed or reported failed, unless its        *)
(* pipeline fails or the service dies; a refinement engine that never      *)
(* answers delays nothing (README 219, transcription.rs 33-35).            *)
AnnouncedUtterancesSettle ==
    \A u \in Utterances :
        announced[u] ~> \/ verdict[u] # "none"
                        \/ \E s \in Sessions : owner[u] = s /\ stage[s] \in {"failed", "dead"}
=============================================================================
