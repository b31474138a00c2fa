# A TLA+ model of Voice Elf

Voice Elf translates speech between the members of a room in real time: a
browser cuts speech into frames, a Rust server mixes the room's speakers,
recognizes, translates and speaks the result, and keeps a history in
PostgreSQL. This directory holds TLA+ modules of the server, the browser client
and the desktop app, the TLC configurations that check them, and theorems
checked by TLAPS. Paths below are relative to the repository, `room_hub.rs` and
the like to `server/src/`.

Contents: [inventory](#1-inventory), [modules](#2-modules-and-how-they-read-against-the-code),
[runs and bounds](#3-what-the-runs-check), [disagreements](#4-where-code-and-documents-disagree),
[proofs](#5-what-is-proved), [what is left out](#6-what-is-not-modelled),
[plan](#7-plan), [how to run](#8-running-it).

## 1. Inventory

Two services share one database. The *public* service has the accounts, rooms,
history, media and the realtime rooms; the *admin* service has management and
setup. A compatibility binary runs both in one process. The public service
calls the admin service over gRPC, and holds one stream open on which it
receives runtime commands. A desktop app wraps the web client, with a server of
its own and native capture of the system's sound.

| Component | State | Operations | Talks to | Hard |
| --- | --- | --- | --- | --- |
| runtime command bus (`control.rs`) | sequence counter, deque of 2048, one task with a cursor and a channel of 256 per stream, subscriber count; in the listener: cursor, 4096 processed ids | publish, stream, receive, reconnect | admin handlers, room hub | handlers interleave inside publish; wakeups; breaks; restarts of either side |
| room hub (`room_hub.rs`) | per room: members (muted, connections, speaking), broadcast channel, sender of the mixer | connect, disconnect, disconnect_user, close_room, set_muted, send_event, send_audio, set_speaking | connections, command listener, mute handler, mixer | mutex released before each send |
| realtime connections (`lib.rs`, `grpc.rs`) | task per socket or subscription, map of gRPC sessions | admit, enter the hub, register, forward, end | hub | checks made long before the hub is entered; a call dropped after it was counted; a peer that does not read; a session used after its end |
| room mixer (`room_hub.rs` 468) | speakers, frame queues of 48, segment | commands, a tick every 32 ms, shutdown | hub, session loop | select between commands and ticks; backpressure |
| session loop (`pipeline/session.rs`) | active segment, seen ids, configuration | configure, start, audio, end, drain | workers, database, room channel | recognition begins before the segment is known to count; any error ends it |
| stage workers (`pipeline/transcription.rs`, `translation.rs`, `synthesis.rs`, `refinement.rs`) | four queues of 64 | take, work, store, hand over | engines, database, room channel | bounded queues in a row; statements that fail; engines that fail in mid-stream |
| live previews (`pipeline/jobs.rs`, `backends/asr.rs`, `backends/fun_asr.rs`) | per utterance: audio channel, stream of the engine, a task for the texts, one for their translation | push, delta, translate, finish, abort | session loop, engines, room channel | late texts against the result; an engine that never answers |
| history storage (`storage/history.rs`, `storage/mod.rs`) | rows of sessions, utterances, refinements | insert, update by id, two sweeps | workers, both services' start | no transactions, no condition on the earlier status |
| tenant lease (`authority.rs`) | snapshot (allowed, lease), cached token | check, grant, reject, fail | authority bus, every request | time between checks |
| authority bus (`api/authority.rs`, `storage/authority.rs`) | tenants, instances, tokens | rotate, revoke, token, check | tenants | rotation against checks |
| accounts (`api.rs`, `api/accounts.rs`, `api/setup.rs`, `storage/mod.rs`) | users, sessions, reset tokens, installation | register, import, login, profile, password, reset, suspend, setup | mailer, hub, bus | check-then-act; logins against suspension |
| rooms API (`api.rs`, `api/exports.rs`) | rooms, members | list, create, join, update, delete, end, history, export, media | hub, bus | room and membership are read before they are used |
| ASR and TTS managers (`asr_manager.rs`, `tts_manager.rs`, `backends/mod.rs`) | a registry in each process, selection, voice aliases | select, restore, resolve, probe | lease, database | selection against a starting pipeline; a selection from another registry or an older configuration |
| TTS fallback chain (`backends/tts/`, `pipeline/synthesis.rs`) | what was emitted, a channel of 8 chunks, backoffs | try, emit, fall back, play | engines, room channel | failure after the first chunk; a player that is gone; a task that panics |
| IndexTTS control (`index_tts_runtime.rs`) | busy flag, child process | install, start, stop | TTS manager | one at a time, on every path |
| media store (`media.rs`, `api.rs`, `api/exports.rs`) | files, and the rows that name them | save, rename, upload, read, remove | workers, handlers | crash or dropped request between steps; a lost answer; a limit that is counted first |
| lexicons (`language_policy.rs`, `api/lexicons.rs`, `storage/lexicons.rs`) | dictionaries, entries, blocked words, bindings | edit, import, bind, load, normalize, sanitize | session loop, workers | a policy that is read in three statements; replacements in replaced text |
| web client (`web/src/controllers`, `realtime-transport.ts`) | transport, timers, uplink chain | connect, fall back, reconnect, send, leave | realtime connections | reconnects, order |
| browser VAD (`web-vad`, `vad-worker.js`) | segmenter, pre-roll, noise floor, hum lock | block of samples, flush, suppress, drain | web client | boundaries; a segmenter ahead of its worker; a hum filter that overrides the network |
| desktop shell (`web/src-tauri`) | life cycle, subtitle window, settings in memory and in a file | close, quit, answer, toggle, load, save | its page, the server, the window system | page reloads, parallel and dropped requests, window calls that fail |
| native capture (`macos_audio_capture.rs`, `.m`) | active flag, handle of the app, native object | start, stop, fail, deliver | page, ScreenCaptureKit | three threads, two stores |

What makes them correct: of the bus, that no command is lost for a reason
nobody knows of and none is applied twice; of the hub, that presence, speaking
state and permissions follow the connections and the database, that runtimes
end when and only when they should, and that a slow mixer holds nobody for
ever; of mixer and session loop, that they agree on where an utterance begins
and ends; of the pipeline, that every utterance gets one outcome, that the
history tells the same story as the room was told and follows one life cycle
through failures and crashes, that a preview never follows the result, and that
what is played is one voice from start to end; of the lease, that it fails
closed; of the accounts, that limits, single use and suspension hold under
concurrent requests; of the stores, that files and rows, selections and engines,
lexicons and sessions agree; of the client, that a page that left stays out,
uplink keeps its order, segments are whole, and the app tells the truth about
its capture. `PROJECT.json` lists the hazards line by line.

## 2. Modules, and how they read against the code

| Module | Lines of code | Subject |
| --- | --- | --- |
| `CommandBus` | `control.rs` 56-190, 338-434, 499-513 | the command link between the services |
| `RoomHub` | `room_hub.rs`, `lib.rs` 503-649, `grpc.rs` 171-284, handlers of `api.rs` | one room, its connections, its mixers |
| `RoomAudio` | `room_hub.rs` 468-632, `pipeline/config.rs`, `pipeline/session.rs` 107-440 | from the members' frames to one utterance |
| `UtteranceLifecycle` | | abstract: the life cycle of a row's status |
| `UtterancePipeline` | `pipeline/*.rs`, `storage/history.rs` 267-564 | the pipelines of one room and the rows they keep; implements `UtteranceLifecycle` |
| `LivePreview` | `pipeline/jobs.rs` 45-419, `pipeline/session.rs` 320-471, `pipeline/transcription.rs` 40-183, `backends/fun_asr.rs` 98-285, `backends/asr.rs` 52-386 | the live recognition of one utterance |
| `SpeechChain` | `backends/tts/*.rs`, `pipeline/synthesis.rs` 18-204 | one translation becomes speech |
| `ManagerScript` | `index_tts_runtime.rs` 51-242 | the script that installs and runs IndexTTS |
| `EngineControl` | `backends/mod.rs`, `asr_manager.rs` 58-105, `tts_manager.rs` 81-237, `storage/asr.rs`, `storage/tts.rs` 82-152, `api/asr.rs` 86-130, `api/tts.rs` 107-270, `api/authority.rs` 139-167, `lib.rs` 503-547 | which engines a room gets |
| `Lexicons` | `api/lexicons.rs` 92-566, `storage/lexicons.rs` 165-475, `language_policy.rs` 29-187, stages of the pipeline | dictionaries, blocked words, and what a session makes of them |
| `AuthorityLease` | `authority.rs` 66-284, `api/authority.rs` 75-176, 275-389, 472-524, `storage/authority.rs` 373-474 | one tenant instance, its checker task and the bus that answers it |
| `Accounts` | `storage/mod.rs` 72-1208, `api.rs` 386-1072, `api/setup.rs` 85-142, `api/accounts.rs` 80-500 | accounts, login sessions, reset links, setup |
| `MeetingRooms` | `storage/mod.rs` 166-1304, `api.rs` 638-1000, `lib.rs` 411-443, `api/exports.rs` 76-122 | rooms, memberships, and who reads their records |
| `MediaFiles` | `media.rs` 18-149, `api.rs` 156-209, `storage/mod.rs` 656-727, `api/exports.rs` 124-179 | audio files and the rows that name them |
| `RealtimeLink` | `web/src/realtime-transport.ts` 18-131, `web/src/controllers/voice-session.ts` 63-171, `grpc.rs` 123-284, `lib.rs` 550-649 | one page's way into a room |
| `BrowserVad` | `web-vad/src/lib.rs` 84-758, `web/static/vad-worker.js` 117-260 | frames become segments in the client |
| `AppShell` | `web/src-tauri/src/static_server.rs` 96-575, `lib.rs` 66-255, `web/src/routes/+layout.svelte` 63-100 | leaving the app, its windows and settings |
| `NativeCapture` | `web/src-tauri/src/macos_audio_capture.rs` 12-133, `.m` 31-272 | the capture of the system's sound |
| `CommandBusProofs`, `RoomHubProofs`, `AuthorityLeaseProofs`, `AccountsProofs` | | inductive invariants and theorems of the module of that name |
| `UtteranceProofs` | | the same of `UtterancePipeline`, and its refinement of `UtteranceLifecycle` |
| `ServicesProofs` | | of `MeetingRooms`, `MediaFiles`, `EngineControl` and `Lexicons` |
| `AudioPathProofs` | | of `SpeechChain`, `LivePreview`, `ManagerScript` and `RoomAudio` |
| `ClientProofs` | | of `AppShell`, `NativeCapture`, `RealtimeLink` and `BrowserVad` |
| `MC...` | | instances |

Every step is the longest stretch of a task between two points at which
another task can see or change something: an `await`, a released mutex, a
statement of the database. Helpers carry the names of the code's functions
where one exists. A variable marked `history` records what happened, decides no
step, and is there to state a property. An operator marked as a mutant is a
plausible bug of the definition below it, and is used only to show that a
property notices.

Modules meet where the code does. `CommandBus` delivers what `RoomHub` takes
from its set `orders`. `RoomHub` starts and stops the mixers whose work is
`RoomAudio`; the order of segments which leaves `RoomAudio` is the input that
`UtterancePipeline` assumes. `LivePreview` is the inside of its transcription
worker, `SpeechChain` that of its synthesis worker, `Lexicons` the texts
between them. `Accounts` and `MeetingRooms` are the handlers whose orders reach
the hub. `BrowserVad` produces what `RealtimeLink` sends, and `RealtimeLink`
ends where `RoomHub` begins.

**CommandBus.** `publish` is three steps: `TakeSequence` (the atomic counter,
89), `PushCommand` (the deque under its mutex, 93-102, with the eviction) and
`NotifyWaiters` (103). A stream task loops `Subscribe` (it creates the
`Notified`), `Scan` (it copies what is newer than its cursor), `Send` for each
copy, or waits and is woken. `notify_waiters` reaches futures that exist,
polled or not; it stores no permit for later ones. The listener is one task:
`Receive` raises its cursor and applies what is not among the remembered ids.
The log of everything an admin process pushed is kept so that "lost" can be
said: the deque is its window from `front`. `applied` and `carried` are history
variables.

**RoomHub.** One room, whose members are all `Users`. Whoever took the mutex
and then sends a command to the mixer is a task with a step `sending`, holding
the sender it cloned; it finishes when the queue has room or the receiver is
gone. There is one such task for each client connection's uplink, for each
departing connection, for the mute handler and for the command listener. A
WebSocket loop handles one message at a time and cannot see a revocation
meanwhile; a gRPC subscription and its `send_realtime` calls run side by side,
after `FindSession` copied the session. The status changes of the admin
service are in the database at once; its commands wait in `orders`, a set,
since the order of delivery is the business of `CommandBus`. The reads of one
admission are one step, `Admit`, and the entry into the hub is another,
`Connect`: in between everything may change. A WebSocket's own task calls
`connect` and will call `disconnect`. A gRPC handler is counted first
(`counted`) and waits for the session map before it spawns the task that will
disconnect: `Spawn`, or `Abandon` when the call is cancelled there. `lost` and
`strayed` record what an abandoned one leaves behind. Writing to the peer is a
state of its own (`BeginWrite`, `EndWrite`) in which a connection does not see
that it was revoked. `close_room` drops the runtime and with it every `revoked`
channel, which is what `revoked` of all connections stands for.

**RoomAudio.** Speakers queue frames, `Tick` mixes one of each speaker, opens a
segment, cuts it after silence, at its longest, or when nobody is left, and
writes what the pipeline is told to `mixer.out`, which `SendInput` pushes
through the bounded channel: the mixer ticks on only when `out` is empty. The
session loop takes from the channel (`TakeStart`, `TakeSpeakers`, `TakeAudio`,
`TakeEnd`, `TakeConfigure`), applies its own limit and hands over or discards.
Time counts in frames: `late` is a tick whose clock is past the mixer's limit,
since a mixer that slept on a full channel has ticked less often than time has
passed.

**UtterancePipeline.** A session is one `run_pipeline`. Two of them can exist
for one room: `connect` starts a new runtime while the old one drains. Its
input is what the mixer sends, which ends a segment before it starts the next.
Each statement of the database is one step, may fail, and may have been
committed nevertheless. `Take`, `HandOver` and the stages' own steps follow
the four workers; a job fails into `FailJob`, which writes the failure and
then tells the room. `PipelineWorkers::finish` is the guard of `WorkersDone`;
`SweepSession` and `Recover` go through their UPDATEs one by one. A crash
takes the public service's memory; `Recover` is what each `Database::connect`
does, in a restarted public service before it serves anyone (`booting`), in a
starting admin service at any time. `verdict` and `announced` are what the
room was told.

**UtteranceLifecycle** is the promise the status column makes: forward one
stage at a time, to one of three ends. `FollowsLifecycle` is the refinement,
`status <- row`.

**LivePreview.** One utterance and five tasks: the session loop with its frames
(`TakeFrame`, `EndUtterance`, `DiscardUtterance`), the engine's stream (FunASR,
the Qwen binary, or the demo), the task that publishes its texts, the one that
debounces and translates the newest of them, and the transcription worker,
which waits for stream and updates, aborts the preview, and publishes, or tries
again from the recorded audio. The watch channel of texts is `preview.seen`
against `preview.tried`. What a server or binary says is any of its answers,
and nothing makes it answer; only the code's own time limits end a wait.

**SpeechChain.** `Synthesize` spawns a task that walks through the engines that
can speak the request; each may be in backoff, emit chunks and fail. `SendChunk`
is the bounded channel, which fails once the player has gone. After the first
chunk, a failure ends the task: another voice would start over in the middle.
The player (`StartAudio`, `ReceiveChunk`, `Conclude`) writes start, frames and
end to the room, and leaves when the room is gone at the start, or, without an
end, when the task turns out to have panicked (`TaskPanics`, `JoinFails`).

**ManagerScript.** A busy flag (`RunAction` is the test and set under the lock),
the child, and the flag's release on each path; the public service starts the
engine by itself when it boots. A restart orphans the child and forgets the
flag.

**EngineControl.** A join is four steps: read the ASR choice, read the TTS
choice, probe the sidecar, enter. Beside it run an administrator's edits (probe,
then one UPDATE), the authority check that reads a tenant's row and answers with
it later, sidecars that come and go, and voice aliases. The service that is
joined and the one that validates have a registry each (`PublicHas`,
`AdminHas`; `OnBus` in tenant mode), and the rows start with anything the
registries know or knew (`found`). `since` collects what was true since a join
began.

**Lexicons.** Edits are one statement each; binding a room is a check and an
UPSERT. A session loads dictionary, terms and blocked words in three statements
and keeps them. `ReplaceMatches`, `NormalizeTranscript`, `NormalizeTranslation`
and `Sanitize` are `language_policy.rs` on sequences of characters, which these
properties are about: whole words, case folding, variants one after another.

**Accounts.** Each handler is a task which carries what it has read
(`requests`). Transactions are split where they matter: `ResetSelect` takes the
row lock of SELECT ... FOR UPDATE (`holder`), `ResetCommit` releases it, and
`IssueSnapshot`/`IssueStore` are the statements of the transaction that
replaces a reset token. `InitializeCommit` repeats its check under the lock. A
handler may fail at each statement. The initial states are an empty database
and one upgraded from a version with accounts.

**MeetingRooms.** A handler reads the room, then the room with its membership,
then the records; `seen` is what the tables said at some moment since it began.
Between two steps rooms are deleted, archived or ended and members added.

**MediaFiles.** An upload is: count, write a part file, rename, insert the row,
and if the insert fails remove the file. The insert may also have taken effect
when it fails (`unanswered`), and the request may be dropped at any await
(`DropUpload`). A recording has the same steps without the removal. Readers find
a row and open its file later; a crash ends all writers.

**RealtimeLink.** The page's `tab` (transport, timers, left or not), the
transports' ends, and the calls on the wire: payloads wait in a batch (`pending`),
in the chain of promises (`chain`), or for their answer (`waiting`). The
service's session goes asked, counted, open, ending, ended, apart from what
the page knows. `heard` is what the room got.

**BrowserVad.** A frame is what the thresholds tell apart (`Frames`); `Judge` is
the gate with confirmation, hangover, hum lock and the hard limit, `Routed` the
pre-roll. `Drain`, `Flush`, `Suppress` and `StartRecording` are the worker. What
Silero says of a frame (`sure`) and what its waveform looks like (`shape`) are
independent, so the acoustic override of an overcome hum (`Shape`) is voice
without Silero. `unheard` counts the frames since voice of either kind,
`unsure` those since Silero, or such an override, vouched for it.
Frames are numbered modulo `Numbers`, so that a lost or repeated one shows.

**AppShell.** The main thread handles menu and window events in turn; the
embedded server's handlers run beside it, one window call or file operation a
step, each of which may fail; a save may be dropped between file and memory
(`DropSave`), and the title bar moves a window in and out of fullscreen without
the app. `sunk` and `disturbed` record what such a failure leaves. The page's
toast and dialog are modelled as far as a request to quit goes
through them.

**NativeCapture.** Three threads: the caller's, the main queue, the callbacks
of ScreenCaptureKit. `handle_event` is two steps because the active flag and
the app's handle are stored one after the other.

**AuthorityLease.** One tenant process runs one checker task (131-143): it
sleeps for the interval, fetches a token if it has none or if `refresh_at` has
come, checks, and takes the verdict; `phase` says where it is and `deadline`
when its timer fires. `allowed` and `lease` are the snapshot that every request
of the tenant reads. Time is counted in ticks: `Tick` is enabled while nothing
is due, so a timer is never late and the steps of the task take no time, which
is what the timer of tokio and reqwest's timeout promise on a machine that is not
overloaded. A request takes anything up to `Timeout`, and may fail at any
moment of it (`ApplyFailure`); what the bus was doing about it is then
forgotten, except for what it wrote. The tenant's clock is `Lag` ticks behind
that of the bus. Each statement of the bus is one step: the token, the instance
and the tenant are read one after the other, and `EvaluateEntitlement` works on
what was read. A revocation and a rotation are an UPDATE followed by a DELETE of
the tokens (`purging`; one at a time). A token stands for its time of expiry.
The bus treats `suspended` and `revoked` alike: both are "withdrawn". `lostAt`
is a history variable: since when a condition of the entitlement fails.

## 3. What the runs check

All bounds are constants of the modules and named there. Queues have one or two
places where the code has 8, 48, 64, 256, 512 or 2048: what matters is that
they can be full.

| Run | Bounds | Shows |
| --- | --- | --- |
| `bus_safety` | 2 handlers, 2 stream tasks, 3 commands, deque of 2, channel of 2, 3 remembered ids, 2 admin processes, 1 break or public restart | `NoUnexplainedLoss`: a pushed command is applied, offered, evicted, overtaken or carried over. `AppliedAtMostOnce` |
| `bus_live` | 2 handlers, 2 stream tasks, 2 commands, 1 break, fairness | `CommandsSettle`: nothing offered stays unapplied |
| `room_safety` | a gRPC subscription and a WebSocket of one guest, a mute handler, 2 mixers, queue of 1, 1 failing pipeline or dropped subscription, 2 changes | `PresenceIsReal`, `OnlineRoomsAreMixed`, `MixersAreOwned` |
| `room_live` | a WebSocket of each of two users, 1 mixer, queue of 1, 1 failing pipeline, 1 status change, fairness | `SendsFinish`, `RevokedConnectionsEnd`, `ReleasedMixersStop`, `AbsentMembersFallSilent` |
| `utterance_safety` | 2 sessions, 2 utterances, no refinement, 1 failing statement, 1 crash, 1 start of the admin service | `NoRowLeftBehind`, `HistoryAgreesWithRoom` |
| `utterance_live` | 1 session, 2 utterances, refinement, 1 failing statement, 1 crash, fairness | `FollowsLifecycle`, `AnnouncedUtterancesSettle` |
| `lease_safety` | interval 1, timeout 1, tokens live for 5 and are replaced after 3, leases of 2, clocks 1 apart, a grace period that ends at 1 or after the run, 7 ticks, 2 updates or restarts | `WithdrawalTakesEffect`, `ExpiredLeaseEnds`, `GraceIsTheEnd`, `TokensAreRefreshedInTime` |
| `accounts_safety`, accounts | 2 people, 2 passwords, 2 handlers at a time, 2 sessions, 2 tokens, 1 reset an hour, 3 requests, on an empty or an upgraded database | `ResetLinksAreBounded`, `SessionsFollowAccounts`, `OneFounder`, `AdministratorRemains` |
| `accounts_safety`, rooms | 1 room, a user and an administrator, 2 handlers, unbounded requests | `RoomsAreForMembers` |
| `speech_live`, audio | 1 speaker, queue of 1, closing after 1 idle tick, longest segment 2, channel of 2, 2 segments, fairness | `SegmentsEnd` |
| `speech_live`, live | 2 frames, 1 text of each stream, each of the three engines, fairness | `NothingIsMissed`, `PreviewsEndBeforeResults`, `TranscriptsArrive` |
| `speech_live`, speech | 2 utterances, MOSS (HTTP, clones) before Kokoro (local), up to 2 chunks, channel of 1, fairness | `SpeechIsWhole`, `EngineTasksEnd` |
| `speech_live`, script | 1 process with its restarts, 4 actions, fairness | `ScriptsTakeTurns` |
| `services_safety`, engines | 2 engines of each kind, one of them a sidecar; one ASR engine only in the public registry, one only in the admin's; rows as by default, or with an engine the public service no longer has; 2 clients, 1 administrator, 1 edit, both authority modes | `EnginesAgree` |
| `services_safety`, media | 3 uploads against a limit of 1, 1 recording, 1 reader | `FilesAndRowsAgree` |
| `services_safety`, lexicons | 2 dictionaries, 2 possible terms and 2 possible blocked words, a row of each, 4 changes | `NewSessionsFollowTheLexicon`, `BlockedWordsStop` |
| `services_safety`, audio | as in `speech_live`, with 2 speakers | `MixerAgreesWithSession` |
| `services_safety`, vad | silence ends after 3 frames, longest segment 7, hangover 1, pre-roll 1 or 2, blocks of 2 frames, hum lock and clear after 2, frames numbered modulo 4 | `SegmentsAreSound` |
| `services_safety`, link | 2 transports, 2 things said through each | `UplinkIsOrdered`, `LeftPagesStayOut` |
| `services_safety`, capture | 1 caller, 2 captures, 1 stop | `CaptureIsReported` |
| `services_safety`, quit and shell | 2 reloads; 2 handlers, 2 addresses, 2 saves | `ShellAgrees` |

Small modules share a run. `MCAccounts`, `MCSpeech` and `MCServices` have a
variable `part` that names the module which moves; the modules share no
variable, so the others stay in an initial state (one initial state each, as
the conjuncts of `Init` after `part` say) and no property of one is affected by
another. The fairness of `MCSpeech` is that of its parts, restated for the part
that moves. The type invariants have no place of their own in the configurations;
they hold on the same instances, and every proof of an invariant includes one of types.

Why the bounds are enough. The bus compares numbers and positions only: two
handlers give both orders, three commands with a deque of two give eviction,
two processes give reuse of numbers. A stream task whose client is gone keeps
its slot until the next command, so `bus_live` has one more task than breaks:
with as many, no task would be left to reconnect, which the code does not know.
In a room, the hazards are between two tasks and the runtime they share; two
connections of one user give a count above one and reconnections, two mixers an
old and a new runtime, a queue of one place a full one. `MaxFailures` bounds
failing pipelines and dropped subscriptions together. Two users and a client
that starts to speak are in `room_live`, where someone stays behind. In the
pipeline two utterances with queues of one place fill every queue, and two
sessions are as many as the hub lets overlap for long. A lease of 2, an
interval of 1, three timeouts of 1 and clocks 1 apart make the bound of
`WithdrawalTakesEffect` 7 ticks, which is the length of the run; two events are
a withdrawal and either its reversal, a second one or a restart.
`AbsentMembersFallSilent` is checked over WebSockets, whose loop handles one
message at a time; over gRPC it does not hold (section 4). With one mixer the run
does not reach what an ending mixer does to the speakers of its successor.

Of accounts, the hazards are between two handlers, or a handler and what an
earlier one left; three requests are a login, an edit and a reset in any
overlap, or a reset link, its use and its replacement. In `RoomAudio` a segment
of two ticks and a channel of two make the mixer wait in the middle of a
segment, at its start and at its end. A chain of two engines has every
fallback; two chunks are a first one and one after it. In the lexicons one of
the terms has an alias inside itself, and the blocked words overlap what terms
insert. The VAD's longest segment is longer than silence, hangovers and pre-roll
together, so that ends of every kind occur, and four numbers exceed what can be
held back at once. Two transports are an old one and its successor. Two
captures are one that ends and one that starts meanwhile.

Deadlock is not checked where a bounded system comes to an end: when no client
connects, no change is left and every mixer has stopped, nothing need happen.

Fairness. `CommandBus`: weak, on handlers that took a number, on stream tasks
and on the listener, which retries for ever (338-358); nothing makes anyone
publish. `RoomHub`: weak on tasks between two steps; strong on a send into a
mixer's queue, because the senders that wait on a tokio channel are served in
order, and on noticing a revocation, because `select!` takes a ready branch
sooner or later. No client has to send, close, connect or read: nothing makes a
write to it end. A mixer handles its
commands, which assumes that its pipeline takes what it sends.
`UtterancePipeline`: weak on each of the three realtime workers, whose engines
answer or time out (`backends/asr.rs` 176, `backends/fun_asr.rs` 211,
`backends/translator.rs` 63), and on the end of each segment, which the mixer
forces after 20 seconds. Nothing is assumed of the refinement worker: that it
delays nobody is the point. `RoomAudio`: strong on the mixer's ticks, which
`select!` takes between commands that may keep coming; weak on its pending
input and on the session loop. `LivePreview`: weak on the code's own tasks and
time limits, and on the Qwen binary reading what is written to it, whose write
has no time limit (section 4); never on a server's answer. `SpeechChain`: weak
on the engine task and on the player, since every HTTP request has a time limit and
the local engines return; no task has to panic. `ManagerScript`: weak on the release of the flag of a
script that has ended; a script need not end. `AuthorityLease` needs no
fairness: its properties are bounds, and time does not pass what is due.

## 4. Where code and documents disagree

Two runs check one statement of the documents each, and end with a
counterexample. `PROJECT.json` quotes the lines.

| Run | Shortest story |
| --- | --- |
| `room_reconnect` | revoked, reactivated and connected again; the old connection's disconnect takes the new count to 0 and shuts the runtime down |
| `lexicon_terms` | the alias 房颤 is part of its term 心房颤动: a transcript that already has the term gets it replaced inside, and becomes 心心房颤动动 |

The models contain further behaviour that differs from what the documents
say, or that a reader would not expect, for which no run is kept.

The bus and the rooms:

- `publish` takes the number before it locks the deque (`control.rs` 89, 93):
  two handlers may push in the other order, and a stream whose cursor passed
  the larger number never sends the smaller (README.md 115). `NoUnexplainedLoss`
  names it: overtaken.
- `stream_after` starts over only when the client's number is larger than the
  newest (`control.rs` 159): a restarted admin service that already published as
  many commands has its first ones skipped, which `NoUnexplainedLoss` names as
  carried over. A stream whose client is gone stays counted until the next
  command. A restarted public service applies queued revocations again (338),
  to users who may be active by now.
- A WebSocket's account and room are checked before the upgrade, and the hub is
  entered after it (`lib.rs` 509-567): a revocation in between reaches no
  connection, and the suspended user stays (README.md 324).
- A pipeline that fails is only logged (`room_hub.rs` 393-396); its mixer ends at
  its next send, `audio_tx` stays set, so `connect` starts no other (137): the
  room is deaf until its last connection leaves (README.md 326). So
  `OnlineRoomsAreMixed` says of a mixer only that nobody else ends it (`broken`).
- `send_realtime` copies its session before it sends (`grpc.rs` 256): a Start may
  be queued after its user's RemoveSpeaker, and an absent member stays a
  speaking one (`FindSession`). A gRPC client that is gone is noticed with the
  next event of the room.
- `subscribe_realtime` counts its connection, and may start the mixer, before it
  waits for the session map (171-180): a call cancelled there leaves a count that
  nobody takes down and a mixer that nobody stops, until the user is revoked
  or the room closed (`lost`, `strayed`; README.md 326).
- No write to a peer has a time limit (`lib.rs` 584, 597, 635, `grpc.rs` 223): a
  peer that stops reading keeps a revoked connection in the room as long as it
  likes, which `RevokedConnectionsEnd` excuses.
- `send_event` looks at the mute flag under the lock and sends after it
  (`room_hub.rs` 308, 330): a Start may overtake the mute's RemoveSpeaker; and
  `connect` takes a mute back that was applied since it read the members (119).
- `delete_room` marks the row and leaves the live runtime as it is (`api.rs`
  1016).
- A room whose last member leaves and comes back has two pipelines for a while
  (`room_hub.rs` 137), and both send their audio into the same channel
  (`pipeline/synthesis.rs` 129). Frames have no id: a client attributes them to
  the last `audio_start` (`web/src/controllers/voice-session.ts` 320), so frames
  of the old pipeline may be played as the new one's.

The pipeline and its engines:

- Every `Database::connect` sweeps the rows in progress (`storage/mod.rs`
  287-290, `lib.rs` 157): a starting admin service marks the live work of
  the public service as interrupted (docs/service-splitting-analysis.md 83).
  The pipeline goes on and writes over the sweep, so that a row goes from
  `interrupted` back into the life cycle; therefore `FollowsLifecycle` is about
  `MaxAdminStarts = 0`.
- `finish` waits for all four workers (`pipeline/jobs.rs` 307): a refinement that
  hangs keeps the session open. A refinement whose result cannot be stored
  stays `processing` until the next start (`pipeline/refinement.rs` 49).
- The media event of the translated audio follows the stream it is documented
  to precede (`pipeline/synthesis.rs` 186); recognition may begin for a segment
  that is then discarded (`pipeline/session.rs` 333), and the previews of a
  discarded utterance may follow its `utterance_discarded`; an utterance that finds
  the refinement queue full is not refined (`pipeline/transcription.rs` 32).
- A stream that was started stays open for its listeners when the synthesis task
  panicked (`pipeline/synthesis.rs` 137-140), or when the room went away between
  `audio_start` and the state that follows it (112-124); the returns at 96, 101
  and 107, which would do the same, are never reached. `StreamsAreClosed` names
  the two cases.
- While a connection to the engine is opened the session loop takes no frames,
  and frames that a mixer cannot send are dropped from a full speaker queue
  (`pipeline/session.rs` 325-341, `room_hub.rs` 368; README.md 326).
- The 30 seconds of `result_timeout` begin with the FunASR stream, not with its
  end; a server that closes in mid-utterance yields a truncated transcript
  as if it were whole (`backends/fun_asr.rs` 184-194). The Qwen batch writes its
  input and waits for the exit outside every time limit (`backends/asr.rs` 172, 320).
- `sanitize` is one pass, a word after the other: a word that is replaced by
  nothing may leave another occurrence behind, and the terms that are sent to the
  translator are not sanitized (docs/industry-terminology-and-blocklist.md 5).
  `BlockedWordsStop` has the condition: every replacement has a character, and
  shares none, in either case, with a blocked word. Without the first the word
  may come together anew from what stood around it; without the second, a
  replacement that only differs in case from a blocked word brings it back.

The stores and the lease:

- The limit of voice references counts first and inserts later (`api.rs`
  156-194): concurrent uploads pass it together. Reset links: `api/accounts.rs`
  461, likewise, which `ResetLinksAreBounded` bounds.
- A reference voice whose INSERT took effect and whose answer was lost is
  reported as an error, and its file is deleted (`api.rs` 202-205): the row
  stays live without a file (`unanswered`).
- A change of the engine is validated against the registry of the process
  that serves the admin API (`api/asr.rs` 115, `api/tts.rs` 254), and a start keeps
  whatever the row says (`storage/asr.rs` 31-49): the public service may have no
  such engine, and then refuses every client until the selection changes.
- A login that read the account before it changed opens a session afterwards,
  and two administrators may suspend each other at one moment: `excused` and
  `crossed` name both.
- A lease that ran out is honoured until the next check has failed
  (`authority.rs` 118, 251), where docs/multi-tenant-plan.md 68 lets the tenant
  fail closed when the lease ends. `ExpiredLeaseEnds` has the bound.
- A token is replaced 60 seconds before it expires (`authority.rs` 219), and
  the request timeout may be configured up to 60 (`config.rs` 640-644): above 30
  a slow fetch and a slow check can end with a token refused for its age, which
  blocks the instance at once. `RefreshMargin` is the condition.

The client:

- A WebSocket that fails reports both an error and its close, and each sets a
  reconnection timer of which only the second can be cleared
  (`voice-session.ts` 88): the first fires after the page has left, and
  `connect` takes `destroyed` back (`doubled`).
- After a failed `SendRealtime` the calls chained behind it are made all the
  same (`realtime-transport.ts` 69), against "ordered client events"
  (docs/grpc-architecture.md 13): `broken`. The calls have no time limit,
  `accepted: false` is ignored, and calls of a closed transport may reach the
  room after a newer one has started.
- The worker of the VAD asks for a segment's speech frames after the whole
  block (`vad-worker.js` 153, 167-171; `web-vad/src/lib.rs` 737): when one
  segment ends and another begins in one block, the wrong one's are reported
  and counted (docs/browser-vad-architecture.md 83).
- With the enhanced filter, once a lasting hum has been overcome, a clear and loud
  frame is voice to the end of the segment whatever Silero says
  (`web-vad/src/lib.rs` 403-405, 449-468; its test
  `enhanced_filter_unlocks_when_speech_structure_returns` asks for it at a
  probability of 0), against "Silero, level, spectrum and gate must all pass"
  (docs/browser-vad-architecture.md 83): sound with the structure of speech, such as
  music, can keep such a segment open to its limit. `EnergyOnlyBridges` keeps
  the two sources of confirmation apart.
- `quit_prompt_visible` stays up when the page was loading, or the answer was
  lost (`missed`; docs/subtitle-display.md 39): the menu no longer quits. Two PUTs of the
  settings may leave file and memory different, and a write that breaks off
  leaves a torn file, and so does a request dropped between file and memory
  leave the two apart (`static_server.rs` 553-561; `disturbed`). A toggle against a
  hide can leave a window both fullscreen and on top (docs/subtitle-display.md 36).
- A subtitle window stops floating for good when a call fails after fullscreen was left
  (`static_server.rs` 366, 371, `lib.rs` 205-206, whose results are dropped), and
  when fullscreen is left by the title bar, of which the app hears nothing
  (docs/subtitle-display.md 10, 36, 97): `sunk`, until a later call succeeds.
- A start that is accepted while an earlier capture's end is being handled may
  run without the app's handle, and the late end may drop a newer capture
  (`macos_audio_capture.rs` 114-115; `crossed`).

## 5. What is proved

Each `...Proofs` module proves its theorems for any sets and bounds, from the
named assumption on the constants of its module alone unless it says otherwise.

| Module | Theorems, with the properties they state |
| --- | --- |
| `CommandBusProofs` | `TypeCorrect`, `NothingLost` (`NoUnexplainedLoss`), `NothingTwice` (`AppliedAtMostOnce`, with `ProcessedCapacity >= 2 * QueueCapacity - 1`) |
| `RoomHubProofs` | `HubIsTyped`, `PresenceStaysReal` (`PresenceIsReal`), `OnlineRoomsStayMixed` (`OnlineRoomsAreMixed`), `NoMixerIsLeaked` (`MixersAreOwned`) |
| `UtteranceProofs` | `NothingStaysInProgress` (`NoRowLeftBehind`), `HistoryTellsTheSame` (`HistoryAgreesWithRoom`), `PipelinesImplementLifecycle` (`FollowsLifecycle`, while `MaxAdminStarts = 0`) |
| `AuthorityLeaseProofs` | `LeaseTypeCorrect`, `LeaseFailsClosed` (`WithdrawalTakesEffect`), `ExpiredLeasesEnd` (`ExpiredLeaseEnds`), `GraceEndsLeases` (`GraceIsTheEnd`), `TokensOutliveTheirUse` (`TokensAreRefreshedInTime`, with its precondition `RefreshMargin`) |
| `AccountsProofs` | `AccountsAreSound`, `FounderIsAlone` (`OneFounder`), `AdministratorStays` (`AdministratorRemains`), `SessionsAreRevoked` (`SessionsFollowAccounts`), `ResetLinksStayBounded` (`ResetLinksAreBounded`) |
| `ServicesProofs` | `RoomsStayWithMembers` (`RoomsAreForMembers`), `FilesAndRowsStayTogether` (`FilesAndRowsAgree`), `EnginesStayAgreed` (`EnginesAgree`), `SessionsFollowTheLexicon` (`NewSessionsFollowTheLexicon`), `BlockedWordsStayOut` (`BlockedWordsStop`), `LexiconTypes` |
| `AudioPathProofs` | `MixerAndSessionAgree` (`MixerAgreesWithSession`), `NothingGetsLost` (`NothingIsMissed`), `PreviewsEndFirst` (`PreviewsEndBeforeResults`), `SpeechStaysWhole` (`SpeechIsWhole`), `ScriptsRunOneByOne` (the two safety parts of `ScriptsTakeTurns`) |
| `ClientProofs` | `UplinkStaysOrdered` (`UplinkIsOrdered`), `LeftPagesNeverReturn` (`LeftPagesStayOut`), `PageHearsWholeSegments` (`SegmentsAreSound`), `CaptureStatusIsTrue` (`CaptureIsReported`), `ShellStaysTrue` (`ShellAgrees`) |

The assumptions ask of the constants what the code has: every length, limit and
capacity is positive (the pre-roll too, which is 16 and 32 frames); tables are
finite; only a TTS engine can be a sidecar (`EngineAssumption`); a lexicon holds
no empty word, which `validate_blocked` and its neighbours refuse, and folding
stays within the alphabet (`LexiconAssumption`); the VAD's longest segment is
longer than its silence and two hangovers (`VadAssumption`).

**The bus.** `NoUnexplainedLoss` is not inductive. A stream's cursor says
nothing by itself about what lies below it: the deque may hold numbers out of
order, a batch is a copy of the deque at some earlier time, a channel a copy of
a batch. The strengthening `InductiveInvariant` (in `CommandBus`, so that TLC
can check it) has these parts: numbers are handed out once (`NumbersUnique`);
the open receiver is the listener's (`TasksWellFormed`); what is below the
listener's cursor is settled (`ListenerCursor`); what is below a stream's
cursor is settled or in flight in that stream (`StreamCursor`); and a stream
delivers a command after all smaller numbers that were pushed before it
(`BatchOrder`, `ChannelOrder`). The step that matters is `Send`, where the
cursor jumps to the number it sends: any smaller number that is neither settled
nor in flight must have been pushed *later*, so that it is overtaken.

`AppliedAtMostOnce` needs a counting argument (`OnceInv`). What comes after
another command, in the order applied, then in the channel, then in the batch,
was read from a deque that held the other one or newer ones, so it stands less
than a deque's length before it in the log (`AppliedClose`, `StreamClose`). Thus
what was applied since the first delivery of a command that comes again stands
less than a deque's length from it on either side: at most
`2 * QueueCapacity - 2` others (a pigeonhole, `FewNumbersNear`). The remembered
ids are the last ones that were applied (`Remembered`), so with room for one
more the command is still among them. The code has 4096 ids to a deque of 2048,
which is enough by one; a cache of the deque's own size would not be enough by
this argument.

**The hub.** `HubInvariant` is the types, `Counts` and `Ownership`. `Counts` adds
`AbsentRoomIsEmpty` to the two properties about presence: a room that is not in
the hub counts nobody and has no mixer. The counting argument is about the finite
set of a user's attached connections: each entry adds one to both sides, a
departure takes the connection out of the set and subtracts at most one,
saturating, and a revocation takes the count to 0 and the connections out of
those not revoked. A dropped subscription leaves the set and adds one to `lost`;
`LostAreCounted` says that this count is still there, in the time of a mixer in
`strayed`, so that the last departure of others cannot stop a mixer unnoticed.
`Usage` (`MixersInUse`) says that no Shutdown is on its way to the mixer in
use: a Shutdown is sent in the step in which the room lets its mixer go,
and no mixer is used twice. `Ownership` adds
`LeaversSend`: a connection has something to send as it leaves and at no other
time, so the task that carries a mixer's Shutdown cannot be overwritten before
it is delivered.

**The pipeline.** `PipelineInv` says of each utterance that it is in one place (`Alone`:
one queue, one job, or the segment being spoken), that the place belongs to
the session that owns it, which runs (`Owned`), and that its row has the status
of that place (`Recorded`); that no queue holds an utterance twice; and what a
sweep has already left behind, UPDATE by UPDATE (`Swept`). `NoRowLeftBehind`
follows from `Swept` when the last UPDATE is through. The refinement needs
`Recorded` without admin starts: a worker writes over the status of its own
place, which is always one of the abstract steps. `HistoryAgreesWithRoom` speaks
of what the room was told, which no row remembers. `RoomTold` ties the two
together while no statement has failed: for each step of a job, what of verdict and row has
been written so far (`JobTold`), and for an utterance that is nowhere any more, that the row is
what was told (`Outcome`); a session that ended holds nothing (`Rested`).

**Mixer and session.** The property relates the two ends of a channel: what a frame
finds depends on everything before it in the channel. `Flow` therefore reads
the session's segment, the inputs under way (`pipe \o mixer.out`) and the mixer's
segment as one line. On the line ids never go down, a start comes first of its
segment and an end last (`InOrder`); a segment ends before the next one opens
(`Closes`), so that each input finds its segment active or not yet begun
(`FindsActive`); what is mixed was announced before, to the session or on the
line (`Credits`); and the open segment of the mixer is the last of the line
(`Opened`). For the session's limit, the frames of a segment can be numbered
such that the session has taken fewer than the next one's number and the
mixer's age is above the last (`Counted`): since the mixer opens with one
frame and cuts at its limit, the session never reaches its own, which is the
same. One lemma per kind of input says that the line may grow by it at the
mixer's end and shrink by it at the session's.

**Live recognition.** `AudioFlows` says what is in the engine's channel: at first
all frames that were recorded before the stream began, in one buffer, and each
later frame by itself (`AllWaits`), or the rest after what was sent
(`SomeSent`). That the two add up to the utterance when its end is told is
`EnginesHearTheUtterance`. `PreviewIsOver` says which of the worker's steps come
after the end of the tasks it waits for; previews therefore precede results.
**Scripts.** The flag is up exactly while a child runs or its end is being
handled (`FlagFollowsScript`).

**Speech.** `SpeechInv` adds to the types that all chunks on their way of one
utterance, and those that were heard, come from the engine the task is on
(`OneEngine`), and where the player's end may be missing although its start was
said (`Told`): before the end of its work, and in the two cases of section 4.

**The lease.** All follow from `LeaseInvariance`. The properties speak of `now`
and are not inductive: nothing in them says that a verdict is coming.
`InductiveInvariant` speaks of `Horizon`, the latest time of the next verdict,
instead: where the service is allowed, `Horizon` is soon after the end of the
lease, or of the conditions it was granted on (`LeaseIsBounded`,
`GraceIsKept`). What carries it from one verdict to the next is that a request
which has read a condition as met was sent before the condition was lost
(`ReadBeforeLoss`), although the three reads see different states; that the
lease of a grant begins with its evaluation (`GrantIsFresh`); and that a failure
keeps the verdict only if the lease is still valid by the tenant's clock.
`TokenIsKept` is the same argument for tokens: a cached token is in the
database, and outlives a check sent before `refreshAt` by two timeouts.

**Accounts.** `Sound` says what each handler may carry from statement to
statement (`JobsAreSound`: a reset holds one token, which it has locked or
found; an editor is active and does not edit itself away) and what a token's
life is (`TokensAreSound`: a live or locked token is unused). On top of it, sessions follow from a
statement of each session (`Follows`), and the limit from a counting argument over the
finite set of requests (`Limited`): a public request that counted fewer than the
limit is itself one of those that may exceed it.

**Rooms.** `RoomsInv` says what a handler at each statement has learned
(`Learned`) and that what it has seen once is in `seen` for good; an answer is
then granted by what was seen (`Granted`). **Files.** `MediaInv` is the
property with the stages of a writer and reader (`FilesAreKept`): a row
appears after its file was renamed, and a file is removed before a row was
written, or for an upload in `unanswered`, or never.

**Engines.** A check and the write it permits are two steps, and the selection,
the grant and the sidecars may change between them. `EditsAreChecked` and
`JoinsAreChecked` say what the earlier step found out that stays true: that an
engine is one of the public service, and that it *was* selected, or answered,
since the client asked; `ChecksWereValidated` says the same of an entitlement check
between its read and its answer. **Lexicons.** What a statement of the load has found
(`BindingFound`, `EntriesFound`, `BlocksFound`) is compared with two history
sets, of the rules in force at some moment of the load and all through it; the
first grows and the second shrinks, so what a statement found stays true.
`BlockedWordsStop` is a statement about the texts themselves. In `BlockReplaced`
a word that a replacement may not bring (`Foreign`) is followed through the
text that `ReplaceMatches` builds from the right: where the word would stand in
the result it either stood in the text, or has a character of a replacement, so
a word that did not occur before does not after, and the one replaced at every
place is gone. `SanitizeStops` carries this along the blocked words, and
`PolicyInvariant` along the session, which publishes nothing but sanitized texts.
The recursion of `ReplaceMatches` and the folds are functions that a CHOOSE
selects; that there are such functions, and what they return, is shown by
induction in the form of sets of numbers (`LeastNumber`, `Backwards`, `Onwards`:
a set of places without a first one is empty), which asks for no operator as a
parameter. `LexiconTypes` needs at least one possible term and block, since a
row that was never written has none.

**The page's way in.** `InLine(t)` places all that was said through transport `t` on one
line: heard up to `at`, on the wire up to `handed`, chained up to `chained`, then
the batch. Each step moves a boundary or appends at the end; a call that fails
puts the transport into `broken`, and nothing is claimed of it. `TabInvariant`
adds to `LeftPagesStayOut` that a page that left has neither transport nor
timer, unless one close was reported twice.

**The VAD.** Two segmenters run one ahead of the other: the detector in the
module, and the worker that takes its frames in blocks. `VadQueue` says that the
frames between them continue what the worker has taken and end where the
detector is; `Passes` relates the worker to the page; `Rolling` says that the
pre-roll is the run of frames just before the present one, so that a segment
which begins with it joins up. That energy alone never keeps a segment open is
a bound on counters (`Bridged`): the frames since the last voice are at most
those of the present silence and two hangovers, also after a forced end has
set the counters back. `SureInv` carries it to Silero: voice without it comes
only while a hum is overcome, and then the frame counts as backed.

**Native capture.** The property speaks of moments at which nothing is under way.
`StartsAlone` and `EndsComplete` say for every other moment who still has to do
what: the flag may be up without a capture while a start or an event is on its
way, and a capture may outlive the flag until its `clear` arrives.
**The shell.** `AnswersEndQuestions` and `PostsBelongToQuestions` relate the flag of a
request to quit to the page's dialog and the call on its way; `SavesTakeTurns`
follows one save through file and memory; `WindowIsBeingMoved` names the handler
that will make a window float; where its call fails, `sunk` is raised in
the same step.

Only model-checked:

- Everything under fairness: `CommandsSettle`, `SendsFinish`,
  `RevokedConnectionsEnd`, `ReleasedMixersStop`, `AbsentMembersFallSilent`,
  `AnnouncedUtterancesSettle`, `SegmentsEnd`, `TranscriptsArrive`,
  `EngineTasksEnd` and the last part of `ScriptsTakeTurns`. Fairness is about
  ENABLED, which the prover does not expand.

Every safety invariant and every action property of the passing runs is stated by a
theorem, but for the last part of `ScriptsTakeTurns`.

No module declares a RECURSIVE operator. In `Lexicons` the order of variants is a
stable sort written out as a ranking (`LongerFirst`), since the prover knows
nothing of `SortSeq`.

## 6. What is not modelled

Components without a module: settings, mail and configuration (reading of the
environment, sending, a list of changes); the wire protocol and the schema (types);
the pages and the audio contexts of the web client; scripts and migrations.
These are calls of libraries, renderings, or the schema's history. Of the
components in part:

- History storage: queries that page and export only read.
- Authority bus: lists, creation of tenants and instances, the audit trail. (Its choice of engines
  is in `EngineControl`.)
- Backends: the requests and audio formats of single engines are adapters of
  external services. `MultiChannelTranscriber` (`backends/mod.rs` 605-700) is
  constructed nowhere, and so is not modelled.
- Audio: samples, resampling, quality figures, latency percentiles. A frame is
  audible or not; the VAD's network is an arbitrary judgement of each frame.
- Exports: who reads them is in `MeetingRooms`, their rendering is not.
- Desktop shell: static files and the proxy. `VOICE_ELF_APP_SERVER_URL`, which
  would take precedence over the settings, is assumed to be unset.

Left out of modelled components:

- What subscribers receive, except that they may lag and are then hung up on.
- Rejected input (a repeated `tc_id`, invalid VAD metadata): it changes no
  state beyond a warning.
- Several refinement engines for one utterance: the worker goes through them
  one after the other, each with a row of its own.
- Of the lease: a client that cannot be built, the message and the warning
  window.
- Expiry of login sessions, Argon2, mail addresses, names, notes, lengths and
  other validation that only refuses; pages and searches.
- Recording and playback in the page.

## 7. Plan

Done, in this order: `CommandBus`, `RoomHub`, `UtterancePipeline` with
`UtteranceLifecycle`, `AuthorityLease`; then what happens inside a mixer and the
stages (`RoomAudio`, `LivePreview`, `SpeechChain`, `ManagerScript`), the stores
and their handlers (`Accounts`, `MeetingRooms`, `MediaFiles`, `EngineControl`,
`Lexicons`), the clients (`RealtimeLink`, `BrowserVad`, `AppShell`,
`NativeCapture`); and the theorems of section 5.

Worth doing next:

1. The composition of `CommandBus` and `RoomHub`: what a replay after a restart
   of the public service does to users who are active again.
2. `RoomAudio` as the source of `UtterancePipeline`'s segments: a refinement
   that shows the order which the pipeline assumes.

## 8. Running it

```
tlc -workers 2 -config MCRoomHubSafety.cfg MCRoomHub
tlapm RoomHubProofs.tla
```

Sizes and times with two workers:

| Run | Distinct states | Seconds |
| --- | --- | --- |
| `bus_safety` / `bus_live` | 1.4 million / 31,000 | 60 / 15 |
| `room_safety` / `room_live` / `room_reconnect` | 2.5 million / 29,000 / 3,500 | 155 / 115 / 5 |
| `utterance_safety` / `utterance_live` | 1.0 million / 88,000 | 100 / 30 |
| `lease_safety` | 6.0 million | 150 |
| `accounts_safety` | 560,000 | 90 |
| `speech_live` | 163,000 | 180 |
| `services_safety` / `lexicon_terms` | 1.4 million / 1,000 | 135 / 5 |

The proofs have about 19,600 obligations. `ClientProofs`, `AudioPathProofs`, `ServicesProofs`
and `RoomHubProofs` take four to six minutes each, `AccountsProofs`, `CommandBusProofs` and
`UtteranceProofs` two, `AuthorityLeaseProofs` one.
