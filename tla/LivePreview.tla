---------------------------- MODULE LivePreview ----------------------------
(***************************************************************************)
(* The live recognition of one utterance: the session loop feeds an engine *)
(* while the speaker talks (backends/fun_asr.rs, backends/asr.rs), a task  *)
(* publishes what the engine says (pipeline/jobs.rs), another translates   *)
(* the newest of it, and the transcription worker waits for all of them    *)
(* and publishes the transcript (pipeline/transcription.rs), or recognizes *)
(* the recorded audio again.                                               *)
(*                                                                         *)
(* A frame is its number; a text is the number of texts the engine has     *)
(* given.  The FunASR server and the Qwen binary are outside: they answer  *)
(* what they like, and nothing makes them answer.                          *)
(***************************************************************************)
EXTENDS Naturals, Sequences

CONSTANTS
    MaxFrames,      \* bound: frames of the utterance
    MaxTexts        \* bound: texts an engine gives for one stream

ASSUME LiveAssumption == MaxFrames \in Nat \ {0} /\ MaxTexts \in Nat \ {0}

VARIABLES
    engine,         \* "funasr", "qwen" or "demo"
    utterance,      \* the segment of the session loop, and whether it has a preview
    channel,        \* the engine's audio channel
    stream,         \* the engine's task
    updates,        \* the task that publishes texts, and its channel
    preview,        \* the task that translates them
    worker,         \* the transcription worker
    output          \* the room's events: the last one, and whether the room is there
liveVars == <<engine, utterance, channel, stream, updates, preview, worker, output>>

Engines    == {"funasr", "qwen", "demo"}
Recorded   == [i \in 1..utterance.frames |-> i]
FreshStream   == [at |-> "none", sent |-> <<>>, told |-> FALSE, texts |-> 0,
               corrected |-> FALSE, exited |-> FALSE]
Streaming  == stream.at = "running"
StreamEnds == {"text", "silent", "failed"}

LiveInit ==
    /\ engine \in Engines
    /\ utterance = [at |-> "speaking", frames |-> 0, live |-> "no"]
    /\ channel = [audio |-> <<>>, open |-> FALSE]
    /\ stream = FreshStream
    /\ updates = [at |-> "none", pending |-> 0, text |-> 0]
    /\ preview = [at |-> "none", seen |-> 0, tried |-> 0]
    /\ worker = [at |-> "idle", tries |-> 0]
    /\ output = [last |-> "none", open |-> TRUE]

-----------------------------------------------------------------------------
(* The session loop.  A preview begins with the audio recorded so far; the *)
(* loop waits for the connection, so no frame is taken meanwhile.          *)

\* Mutant: the live stream begins with the frame that passed the quality check.
BeginWithFrame(frames) == <<<<Len(frames)>>>>

BeginWith(frames) == <<frames>>

BeginLive ==
    /\ utterance.at = "speaking" /\ utterance.live = "no"
    /\ utterance.frames < MaxFrames
    /\ utterance' = [utterance EXCEPT !.frames = @ + 1, !.live = "up"]
    /\ channel' = [audio |-> BeginWith(Recorded'), open |-> TRUE]
    /\ stream' = [FreshStream EXCEPT !.at = "running"]
    /\ updates' = [updates EXCEPT !.at = "running"]
    /\ preview' = [preview EXCEPT !.at = "waiting"]
    /\ output' = [output EXCEPT !.last = "queued"]
    /\ output.open
    /\ UNCHANGED <<engine, worker>>

\* The connection or the process cannot be had: the utterance goes on without.
BeginFails ==
    /\ utterance.at = "speaking" /\ utterance.live = "no"
    /\ utterance.frames < MaxFrames
    /\ engine # "demo" /\ output.open
    /\ utterance' = [utterance EXCEPT !.frames = @ + 1, !.live = "off"]
    /\ output' = [output EXCEPT !.last = "queued"]
    /\ UNCHANGED <<engine, channel, stream, updates, preview, worker>>

\* A frame that reaches a stream which has ended is logged and kept for later.
TakeFrame ==
    /\ utterance.at = "speaking" /\ utterance.frames < MaxFrames
    /\ utterance' = [utterance EXCEPT !.frames = @ + 1]
    /\ channel' = IF utterance.live = "up" /\ Streaming
                    THEN [channel EXCEPT !.audio = Append(@, <<utterance'.frames>>)]
                    ELSE channel
    /\ UNCHANGED <<engine, stream, updates, preview, worker, output>>

EndUtterance ==
    /\ utterance.at = "speaking" /\ utterance.live # "no"
    /\ utterance' = [utterance EXCEPT !.at = "queued"]
    /\ UNCHANGED <<engine, channel, stream, updates, preview, worker, output>>

\* The event is sent while the preview still runs; abort follows, and lands
\* at the next point where a task waits.
DiscardUtterance ==
    /\ utterance.at = "speaking" /\ output.open
    /\ utterance' = [utterance EXCEPT !.at = "discarded"]
    /\ output' = [output EXCEPT !.last = "discarded"]
    /\ UNCHANGED <<engine, channel, stream, updates, preview, worker>>

DropPreview ==
    /\ utterance.at = "discarded" \/ worker.at = "dropping"
    /\ stream' = [stream EXCEPT !.at = IF Streaming THEN "failed" ELSE @]
    /\ updates' = [updates EXCEPT !.at = "ended"]
    /\ preview' = [preview EXCEPT !.at = "ended"]
    /\ channel' = [audio |-> <<>>, open |-> FALSE]
    /\ utterance' = [utterance EXCEPT !.at = "dropped"]
    /\ worker' = [worker EXCEPT !.at = IF @ = "dropping" THEN "failed" ELSE @]
    /\ output' = IF worker.at = "dropping" THEN [output EXCEPT !.last = "failed"] ELSE output
    /\ UNCHANGED engine

RoomCloses ==
    /\ output.open
    /\ output' = [output EXCEPT !.open = FALSE]
    /\ UNCHANGED <<engine, utterance, channel, stream, updates, preview, worker>>

-----------------------------------------------------------------------------
(* The engine's task.  A live stream and the second one that recognizes    *)
(* recorded audio (transcribe_streaming of FunASR) run the same code.      *)

StreamEndsWith(verdict) ==
    /\ stream' = [stream EXCEPT !.at = verdict]
    /\ channel' = [audio |-> <<>>, open |-> FALSE]
    /\ UNCHANGED <<engine, utterance, preview, worker, output>>

Verdict(texts) == IF texts = 0 THEN "silent" ELSE "text"

SendAudio ==
    /\ Streaming /\ channel.audio # <<>> /\ ~stream.exited
    /\ stream' = [stream EXCEPT !.sent = @ \o Head(channel.audio)]
    /\ channel' = [channel EXCEPT !.audio = Tail(@)]
    /\ UNCHANGED <<engine, utterance, updates, preview, worker, output>>

\* is_speaking = false, is_end = true; for Qwen, its stdin is closed.
SendEnd ==
    /\ Streaming /\ channel.audio = <<>> /\ ~channel.open /\ ~stream.told
    /\ stream' = [stream EXCEPT !.told = TRUE]
    /\ UNCHANGED <<engine, utterance, channel, updates, preview, worker, output>>

\* Text for the listeners: "2pass-online", Qwen's stdout, the demo's one text.
EngineSays ==
    /\ Streaming /\ ~stream.exited /\ stream.texts < MaxTexts
    /\ engine = "demo" => stream.texts = 0 /\ stream.sent # <<>> /\ ~stream.told
    /\ stream' = [stream EXCEPT !.texts = @ + 1]
    /\ updates' = [updates EXCEPT !.pending = @ + 1]
    /\ UNCHANGED <<engine, utterance, channel, preview, worker, output>>

\* "2pass-offline": ends the stream once the end was sent.
ServerCorrects ==
    /\ Streaming /\ engine = "funasr"
    /\ IF stream.told
         THEN StreamEndsWith("text")
         ELSE /\ stream' = [stream EXCEPT !.corrected = TRUE]
              /\ UNCHANGED <<engine, utterance, channel, preview, worker, output>>
    /\ UNCHANGED updates

\* is_final, a Close frame or the end of the socket: what was said counts.
ServerEnds ==
    /\ Streaming /\ engine = "funasr"
    /\ StreamEndsWith(IF stream.corrected THEN "text" ELSE Verdict(stream.texts))
    /\ UNCHANGED updates

\* A send, a receive or a text that cannot be read; Qwen gone before its input.
StreamFails ==
    /\ Streaming /\ engine # "demo"
    /\ engine = "funasr" \/ (stream.exited /\ channel.audio # <<>>)
    /\ StreamEndsWith("failed")
    /\ UNCHANGED updates

QwenExits ==
    /\ Streaming /\ engine = "qwen" /\ ~stream.exited
    /\ stream' = [stream EXCEPT !.exited = TRUE]
    /\ UNCHANGED <<engine, utterance, channel, updates, preview, worker, output>>

\* Writer, reader and error reader are joined before the status is asked for.
QwenReturns ==
    /\ Streaming /\ engine = "qwen" /\ stream.exited /\ stream.told
    /\ \E verdict \in {Verdict(stream.texts), "failed"} : StreamEndsWith(verdict)
    /\ UNCHANGED updates

DemoReturns ==
    /\ Streaming /\ engine = "demo" /\ stream.told
    /\ StreamEndsWith("text")
    /\ UNCHANGED updates

\* Mutant: the clock stops with the audio.
TimesOutWhileOpen ==
    /\ Streaming /\ engine # "demo" /\ ~stream.told
    /\ StreamEndsWith("failed")
    /\ UNCHANGED updates

\* result_timeout covers the whole stream, from its opening on.
TimesOut ==
    /\ Streaming /\ engine # "demo"
    /\ StreamEndsWith("failed")
    /\ UNCHANGED updates

StreamStep == SendAudio \/ SendEnd \/ DemoReturns

-----------------------------------------------------------------------------
(* The preview: texts, and a translation of the newest of them.            *)

PublishText ==
    /\ updates.at = "running" /\ updates.pending > 0
    /\ updates' = [updates EXCEPT !.pending = @ - 1, !.text = @ + 1,
                                  !.at = IF output.open THEN @ ELSE "ended"]
    /\ output' = IF output.open THEN [output EXCEPT !.last = "text"] ELSE output
    /\ UNCHANGED <<engine, utterance, channel, stream, preview, worker>>

\* The engine's task held the only sender.
UpdatesEnd ==
    /\ updates.at = "running" /\ updates.pending = 0 /\ stream.at \in StreamEnds
    /\ updates' = [updates EXCEPT !.at = "ended"]
    /\ UNCHANGED <<engine, utterance, channel, stream, preview, worker, output>>

\* changed(): starts the debounce, restarts it, or drops the translation.
SourceChanges ==
    /\ preview.at \in {"waiting", "debouncing", "translating"}
    /\ preview.seen # updates.text
    /\ preview' = [preview EXCEPT !.seen = updates.text, !.at = "debouncing"]
    /\ UNCHANGED <<engine, utterance, channel, stream, updates, worker, output>>

SourceCloses ==
    /\ preview.at \in {"waiting", "debouncing", "translating"}
    /\ preview.seen = updates.text /\ updates.at = "ended"
    /\ preview' = [preview EXCEPT !.at = "ended"]
    /\ UNCHANGED <<engine, utterance, channel, stream, updates, worker, output>>

\* A text that is blank without its blocked words is not translated.
Debounced ==
    /\ preview.at = "debouncing"
    /\ \E at \in {"waiting", "translating"} :
          preview' = [preview EXCEPT !.at = at, !.seen = updates.text, !.tried = updates.text]
    /\ UNCHANGED <<engine, utterance, channel, stream, updates, worker, output>>

PublishPreview ==
    /\ preview.at = "translating"
    /\ IF output.open
         THEN output' = [output EXCEPT !.last = "preview"] /\ UNCHANGED preview
         ELSE preview' = [preview EXCEPT !.at = "ended"] /\ UNCHANGED output
    /\ UNCHANGED <<engine, utterance, channel, stream, updates, worker>>

TranslationReturns ==
    /\ preview.at = "translating"
    /\ preview' = [preview EXCEPT !.at = "waiting"]
    /\ UNCHANGED <<engine, utterance, channel, stream, updates, worker, output>>

-----------------------------------------------------------------------------
(* The transcription worker.                                               *)

WorkerGoes(from, to) ==
    /\ worker.at = from
    /\ worker' = [worker EXCEPT !.at = to]

\* prepare_utterance may fail, and the job is dropped with its preview.
TakeJob ==
    /\ utterance.at = "queued"
    /\ IF output.open
         THEN /\ \E at \in {IF utterance.live = "up" THEN "awaiting" ELSE "retrying", "dropping"} :
                    WorkerGoes("idle", at)
              /\ output' = [output EXCEPT !.last = "transcribing"]
         ELSE WorkerGoes("idle", "dropping") /\ UNCHANGED output
    /\ utterance' = [utterance EXCEPT !.at = "taken"]
    /\ channel' = [channel EXCEPT !.open = FALSE]
    /\ UNCHANGED <<engine, stream, updates, preview>>

AwaitStream ==
    /\ stream.at \in StreamEnds
    /\ WorkerGoes("awaiting", "draining")
    /\ UNCHANGED <<engine, utterance, channel, stream, updates, preview, output>>

AwaitUpdates ==
    /\ updates.at = "ended"
    /\ WorkerGoes("draining", "stopping")
    /\ UNCHANGED <<engine, utterance, channel, stream, updates, preview, output>>

Afterwards == IF stream.at = "text" THEN "publishing" ELSE "retrying"

\* Mutant: the translation is told to stop, and nobody waits until it has.
AbortOnly ==
    /\ WorkerGoes("stopping", Afterwards)
    /\ UNCHANGED <<engine, utterance, channel, stream, updates, preview, output>>

AbortTranslation ==
    /\ WorkerGoes("stopping", Afterwards)
    /\ preview' = [preview EXCEPT !.at = "ended"]
    /\ UNCHANGED <<engine, utterance, channel, stream, updates, output>>

\* The recorded audio: a second FunASR stream; or runs of Qwen, for one language
\* after another until one gives text.  The demo's live stream never fails.
Reconnect ==
    /\ engine = "funasr" /\ WorkerGoes("retrying", "recognizing")
    /\ stream' = [FreshStream EXCEPT !.at = "running"]
    /\ channel' = [audio |-> <<Recorded>>, open |-> FALSE]
    /\ updates' = [at |-> "ended", pending |-> 0, text |-> 0]
    /\ UNCHANGED <<engine, utterance, preview, output>>

\* No connection; for Qwen, audio that is too quiet.
RetryRefused ==
    /\ WorkerGoes("retrying", "failing")
    /\ UNCHANGED <<engine, utterance, channel, stream, updates, preview, output>>

LanguageAttempts == {2, 3}   \* a language then auto; or auto, zh and en

PrepareAudio ==
    /\ engine = "qwen" /\ worker.at = "retrying"
    /\ \E tries \in LanguageAttempts : worker' = [at |-> "feeding", tries |-> tries]
    /\ updates' = [at |-> "ended", pending |-> 0, text |-> 0]
    /\ UNCHANGED <<engine, utterance, channel, stream, preview, output>>

\* write_all is not under the timeout: only the binary's reading ends it.
BinaryReads ==
    /\ \E at \in {"running", "failing"} : WorkerGoes("feeding", at)
    /\ UNCHANGED <<engine, utterance, channel, stream, updates, preview, output>>

BatchAnswers ==
    /\ worker.at = "running"
    /\ \/ /\ worker' = [worker EXCEPT !.at = "publishing"]
          /\ updates' = [updates EXCEPT !.pending = 1]
       \/ /\ UNCHANGED updates
          /\ worker' = IF worker.tries > 1 THEN [at |-> "feeding", tries |-> worker.tries - 1]
                                           ELSE [worker EXCEPT !.at = "failing"]
    /\ UNCHANGED <<engine, utterance, channel, stream, preview, output>>

\* The timeout of a run, or a status that is no success.
BatchFails ==
    /\ WorkerGoes("running", "failing")
    /\ UNCHANGED <<engine, utterance, channel, stream, updates, preview, output>>

RetryText ==
    /\ worker.at \in {"recognizing", "publishing"} /\ updates.pending > 0
    /\ updates' = [updates EXCEPT !.pending = @ - 1]
    /\ IF output.open
         THEN output' = [output EXCEPT !.last = "text"] /\ UNCHANGED <<worker, stream>>
         ELSE /\ worker' = [worker EXCEPT !.at = "failing"] /\ UNCHANGED output
              /\ stream' = [stream EXCEPT !.at = IF Streaming THEN "failed" ELSE @]
    /\ UNCHANGED <<engine, utterance, channel, preview>>

\* A stream that ends while the audio is pushed is a failure, whatever it said.
RetryReturns ==
    /\ stream.at \in StreamEnds
    /\ \E at \in {IF stream.at = "text" THEN "publishing" ELSE "failing", "failing"} :
          WorkerGoes("recognizing", at)
    /\ UNCHANGED <<engine, utterance, channel, stream, updates, preview, output>>

PublishTranscript ==
    /\ updates.pending = 0
    /\ WorkerGoes("publishing", IF output.open THEN "storing" ELSE "failing")
    /\ output' = IF output.open THEN [output EXCEPT !.last = "final"] ELSE output
    /\ UNCHANGED <<engine, utterance, channel, stream, updates, preview>>

StoreTranscript ==
    /\ WorkerGoes("storing", "failing") \/ (output.open /\ WorkerGoes("storing", "transcribed"))
    /\ output' = [output EXCEPT !.last = IF worker'.at = "transcribed" THEN "transcript" ELSE @]
    /\ UNCHANGED <<engine, utterance, channel, stream, updates, preview>>

ReportFailure ==
    /\ WorkerGoes("failing", "failed")
    /\ output' = IF output.open THEN [output EXCEPT !.last = "failed"] ELSE output
    /\ UNCHANGED <<engine, utterance, channel, stream, updates, preview>>

-----------------------------------------------------------------------------
SpeakerSteps == BeginLive \/ BeginFails \/ TakeFrame \/ EndUtterance \/ DiscardUtterance
EngineSteps  == \/ EngineSays \/ ServerCorrects \/ ServerEnds \/ StreamFails
                \/ QwenExits \/ QwenReturns \/ TimesOut
PreviewSteps == SourceChanges \/ SourceCloses \/ Debounced
WorkerSteps  == \/ TakeJob \/ AwaitStream \/ AwaitUpdates \/ AbortTranslation
                \/ Reconnect \/ RetryRefused \/ PrepareAudio \/ RetryText \/ RetryReturns
                \/ PublishTranscript \/ StoreTranscript \/ ReportFailure \/ BatchFails
                \/ DropPreview

LiveNext ==
    \/ SpeakerSteps \/ RoomCloses \/ StreamStep \/ EngineSteps
    \/ PublishText \/ UpdatesEnd \/ PreviewSteps \/ PublishPreview \/ TranslationReturns
    \/ WorkerSteps \/ BinaryReads \/ BatchAnswers

\* Tasks run and timers fire; engines and the translator owe nothing, except
\* that the Qwen binary reads the audio it is given.
LiveFairness ==
    /\ WF_liveVars(StreamStep) /\ WF_liveVars(TimesOut)
    /\ WF_liveVars(PublishText \/ UpdatesEnd)
    /\ WF_liveVars(PreviewSteps)
    /\ WF_liveVars(WorkerSteps) /\ WF_liveVars(BinaryReads)

LiveSpec == LiveInit /\ [][LiveNext]_liveVars /\ LiveFairness

-----------------------------------------------------------------------------
LiveTypeOK ==
    /\ engine \in Engines
    /\ utterance \in [at : {"speaking", "queued", "taken", "discarded", "dropped"},
                      frames : 0..MaxFrames, live : {"no", "up", "off"}]
    /\ channel \in [audio : Seq(Seq(1..MaxFrames)), open : BOOLEAN]
    /\ stream \in [at : {"none", "running"} \cup StreamEnds, sent : Seq(1..MaxFrames),
                   told : BOOLEAN, texts : 0..MaxTexts, corrected : BOOLEAN, exited : BOOLEAN]
    /\ updates \in [at : {"none", "running", "ended"}, pending : 0..MaxTexts, text : 0..MaxTexts]
    /\ preview \in [at : {"none", "waiting", "debouncing", "translating", "ended"},
                    seen : 0..MaxTexts, tried : 0..MaxTexts]
    /\ worker.at \in {"idle", "awaiting", "draining", "stopping", "retrying", "recognizing",
                      "feeding", "running", "publishing", "storing", "transcribed",
                      "dropping", "failing", "failed"}
    /\ output \in [last : {"none", "queued", "text", "preview", "transcribing", "final",
                           "transcript", "discarded", "failed"}, open : BOOLEAN]

\* An engine that is told the utterance is over has been sent all of it, in
\* order, whenever the stream began: the live one in the middle of the
\* utterance (session.rs:329), the second one after it (fun_asr.rs:274).
EnginesHearTheUtterance == stream.told /\ stream.at # "failed" => stream.sent = Recorded

\* Once the transcript is published no preview of the utterance follows it:
\* LivePreview::finish waits for the task that publishes texts and for the
\* translation it aborts (jobs.rs:51).
PreviewsEndBeforeResults ==
    [][worker.at \in {"storing", "transcribed"} => output'.last \notin {"text", "preview"}]_liveVars

\* The translation waits for another change only after it has looked at the
\* text it last saw: a text that comes while an older one is being translated
\* is not lost (source_ready and borrow_and_update, jobs.rs:324).
NoTextIsMissed == preview.at = "waiting" => preview.tried = preview.seen

\* A finished utterance is transcribed or reported as failed although the
\* engine never answers: the timers of the stream and of the run end the wait
\* (fun_asr.rs:209, asr.rs:162).
TranscriptsArrive == (utterance.at = "queued") ~> (worker.at \in {"transcribed", "failed"})

\* Neither the engine misses audio nor the translation a text.
NothingIsMissed == EnginesHearTheUtterance /\ NoTextIsMissed
=============================================================================
