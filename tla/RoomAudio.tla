----------------------------- MODULE RoomAudio -----------------------------
(***************************************************************************)
(* From the members' frames to one utterance: the mixer of a room          *)
(* (run_room_mixer in server/src/room_hub.rs) queues the frames of each    *)
(* speaker, mixes one of each every 32 ms and cuts segments; the session   *)
(* loop (server/src/pipeline/session.rs) receives the segments through a   *)
(* bounded channel, limits them once more and hands them over or discards  *)
(* them.                                                                   *)
(*                                                                         *)
(* Time is counted in frames of 32 ms.  The mixer sleeps while the channel *)
(* is full, so more time may have passed than it has ticked.  Samples and  *)
(* what the workers do with an utterance (UtterancePipeline) are left out; *)
(* a frame is audible speech or not.                                       *)
(***************************************************************************)
EXTENDS Naturals, Sequences, FiniteSets

CONSTANTS
    Speakers,       \* members that may speak
    Configs,        \* configurations that the owner's client may send
    ValidConfigs,   \* those that normalize_config accepts
    QueueLimit,     \* MAX_QUEUED_FRAMES_PER_SPEAKER
    CloseTicks,     \* SEGMENT_CLOSE_TICKS
    MaxTicks,       \* max_utterance_seconds, in frames
    SilentFrames,   \* finish_mixed_segment: fewer frames are silence
    MinFrames,      \* MIN_CLIENT_SPEECH_FRAMES, MIN_AUDIBLE_SPEECH_FRAMES
    PreRoll,        \* CLIENT_PRE_ROLL_SAMPLES, in frames
    PipeSize,       \* mpsc::channel(256)
    MaxSegments     \* bound: segments cut in all

ASSUME AudioAssumption ==
    /\ ValidConfigs \subseteq Configs /\ ValidConfigs # {}
    /\ {QueueLimit, CloseTicks, MaxTicks, MinFrames, PreRoll, PipeSize} \subseteq Nat \ {0}
    /\ {SilentFrames, MaxSegments} \subseteq Nat

VARIABLES
    streams,        \* the mixer's SpeakerStream of each member
    mixer,          \* its configuration, segment and the inputs it has to send
    pipe,           \* the channel of PipelineInputs
    session,        \* the session loop and its active segment
    verdict,        \* what became of each segment
    cut             \* segments cut so far; ids are 1..cut
audioVars == <<streams, mixer, pipe, session, verdict, cut>>

Ids == 1..MaxSegments
Enough == SilentFrames + MinFrames   \* frames of a mixed segment are counted so far
NoStream  == [known |-> FALSE, active |-> FALSE, frames |-> 0]
NoMix     == [id |-> 0, frames |-> 0, idle |-> 0, age |-> 0, named |-> {}]
NoSegment == [id |-> 0, frames |-> 0, age |-> 0, speakers |-> {}, heard |-> {},
              audible |-> 0, live |-> FALSE]

AudioInit ==
    /\ streams = [u \in Speakers |-> NoStream]
    /\ \E c \in ValidConfigs : mixer = [on |-> TRUE, config |-> c, segment |-> NoMix, out |-> <<>>]
    /\ pipe = <<>>
    /\ session = [is |-> "running", active |-> NoSegment, limited |-> FALSE]
    /\ verdict = [k \in Ids |-> "none"]
    /\ cut = 0

-----------------------------------------------------------------------------
(* The mixer: one command, or one tick, at a time.                         *)

Ready == mixer.on /\ mixer.out = <<>>
OnlyStreams == UNCHANGED <<mixer, pipe, session, verdict, cut>>

StartSpeaking(u) ==
    /\ Ready
    /\ streams' = [streams EXCEPT ![u].known = TRUE, ![u].active = TRUE]
    /\ OnlyStreams

\* A frame of somebody who has not started, or who is ahead, is dropped.
QueueFrame(u) ==
    /\ Ready
    /\ streams[u].active /\ streams[u].frames < QueueLimit
    /\ streams' = [streams EXCEPT ![u].frames = @ + 1]
    /\ OnlyStreams

StopSpeaking(u) ==
    /\ Ready
    /\ streams' = [streams EXCEPT ![u].active = FALSE]
    /\ OnlyStreams

RemoveSpeaker(u) ==
    /\ Ready
    /\ streams' = [streams EXCEPT ![u] = NoStream]
    /\ OnlyStreams

\* The mixer keeps the configuration whether or not the session accepts it.
Configure(c) ==
    /\ Ready
    /\ mixer' = [mixer EXCEPT !.config = c, !.out = <<[type |-> "configure", config |-> c]>>]
    /\ UNCHANGED <<streams, pipe, session, verdict, cut>>

EndOf(segment) == [type |-> "end", id |-> segment.id,
                   silent |-> segment.frames < SilentFrames \/ segment.frames < MinFrames]

\* Whose frames are mixed now, and what the pipeline is told before them.
Mixing == {u \in Speakers : streams[u].frames > 0}

\* Mutant: speakers are announced once, when the segment starts.
AnnounceOnce(segment, opening) ==
    (IF opening
       THEN <<[type |-> "start", id |-> segment.id, config |-> mixer.config],
              [type |-> "speakers", id |-> segment.id, users |-> Mixing]>> ELSE <<>>)
    \o <<[type |-> "audio", id |-> segment.id, users |-> Mixing]>>

Announce(segment, opening) ==
    (IF opening
       THEN <<[type |-> "start", id |-> segment.id, config |-> mixer.config]>> ELSE <<>>)
    \o (IF Mixing \subseteq segment.named THEN <<>>
        ELSE <<[type |-> "speakers", id |-> segment.id,
                users |-> segment.named \cup Mixing]>>)
    \o <<[type |-> "audio", id |-> segment.id, users |-> Mixing]>>

\* `late': max_utterance_seconds have passed.
IsDue(segment, late) == segment.idle >= CloseTicks \/ late

Tick(late) ==
    LET old == mixer.segment
        opening == Mixing # {} /\ old = NoMix
        open == IF opening THEN [NoMix EXCEPT !.id = cut + 1] ELSE old
        mixed == IF Mixing # {}
                   THEN [open EXCEPT !.frames = IF @ < Enough THEN @ + 1 ELSE @,
                                     !.idle = 0, !.named = @ \cup Mixing]
                 ELSE IF open # NoMix /\ \A u \in Speakers : ~streams[u].active
                   THEN [open EXCEPT !.idle = @ + 1]
                 ELSE [open EXCEPT !.idle = 0]
        aged == IF open = NoMix THEN NoMix
                ELSE [mixed EXCEPT !.age = IF opening THEN 0
                                           ELSE IF @ < MaxTicks THEN @ + 1 ELSE @]
        due == open # NoMix /\ IsDue(aged, late)
    IN  /\ Ready
        /\ opening => cut < MaxSegments
        /\ late => open # NoMix
        /\ aged.age >= MaxTicks => late
        /\ mixer' = [mixer EXCEPT
             !.segment = IF due THEN NoMix ELSE aged,
             !.out = (IF Mixing # {} THEN Announce(open, opening) ELSE <<>>)
                     \o (IF due THEN <<EndOf(aged)>> ELSE <<>>)]
        /\ streams' = [u \in Speakers |->
             IF u \in Mixing THEN [streams[u] EXCEPT !.frames = @ - 1] ELSE streams[u]]
        /\ cut' = IF opening THEN cut + 1 ELSE cut
        /\ session' = IF session.active = NoSegment THEN session
                      ELSE [session EXCEPT !.active.age = IF @ < MaxTicks THEN @ + 1 ELSE @]
        /\ UNCHANGED <<pipe, verdict>>

\* One send at a time; when the session loop is gone the mixer ends.
SendInput ==
    /\ mixer.out # <<>>
    /\ IF session.is = "running"
         THEN /\ Len(pipe) < PipeSize
              /\ pipe' = Append(pipe, Head(mixer.out))
              /\ mixer' = [mixer EXCEPT !.out = Tail(@)]
         ELSE mixer' = [mixer EXCEPT !.out = <<>>, !.on = FALSE] /\ UNCHANGED pipe
    /\ UNCHANGED <<streams, session, verdict, cut>>

\* Mutant: a mixer that is told to stop just stops.
ShutDownAtOnce ==
    /\ Ready
    /\ mixer' = [mixer EXCEPT !.on = FALSE, !.segment = NoMix]
    /\ streams' = [u \in Speakers |-> NoStream]
    /\ UNCHANGED <<pipe, session, verdict, cut>>

\* Shutdown, or the last sender is gone: an open segment is ended by hand.
ShutDown ==
    /\ Ready
    /\ mixer' = [mixer EXCEPT !.on = FALSE, !.segment = NoMix,
                   !.out = IF mixer.segment = NoMix THEN <<>> ELSE <<EndOf(mixer.segment)>>]
    /\ streams' = [u \in Speakers |-> NoStream]
    /\ UNCHANGED <<pipe, session, verdict, cut>>

-----------------------------------------------------------------------------
(* The session loop takes one input at a time.                             *)

Takes(type) == session.is = "running" /\ pipe # <<>> /\ Head(pipe).type = type
Taken == pipe' = Tail(pipe) /\ UNCHANGED <<streams, mixer, cut>>

\* The configuration is stored; a failing UPDATE ends the session.
StoreConfig(next) ==
    \/ session' = next
    \/ session' = [next EXCEPT !.is = "failed", !.active = NoSegment]

TakeConfigure ==
    /\ Takes("configure")
    /\ IF Head(pipe).config \in ValidConfigs THEN StoreConfig(session) ELSE UNCHANGED session
    /\ Taken /\ UNCHANGED verdict

\* A segment that is still active is discarded for the new one.  The clock of
\* the new one starts here, not when the mixer cut it.
TakeStart ==
    /\ Takes("start")
    /\ LET k == Head(pipe).id
           old == session.active.id
       IN  IF Head(pipe).config \notin ValidConfigs
             THEN verdict' = [verdict EXCEPT ![k] = "refused"] /\ UNCHANGED session
             ELSE /\ verdict' = IF old = 0 THEN verdict
                                ELSE [verdict EXCEPT ![old] = "discarded"]
                  /\ StoreConfig([session EXCEPT !.active = [NoSegment EXCEPT !.id = k]])
    /\ Taken

TakeSpeakers ==
    /\ Takes("speakers")
    /\ session' = IF session.active.id = Head(pipe).id
                    THEN [session EXCEPT !.active.speakers = Head(pipe).users] ELSE session
    /\ Taken /\ UNCHANGED verdict

\* finish_segment: silence, too short, or not audible enough.
Finished(segment, silent) ==
    IF silent \/ segment.frames < MinFrames \/ segment.audible < MinFrames
      THEN "discarded" ELSE "queued"

\* More frames than the time since the Start was taken allows are dropped (at
\* least the ticks have passed: a late mixer may have taken longer); the frame
\* that reaches the hard limit ends the segment.
TakeAudio(audible) ==
    LET s == session.active
        fast == s.frames + 1 > PreRoll + (3 * s.age) \div 2 + 1
        heard == [s EXCEPT !.frames = @ + 1, !.heard = @ \cup Head(pipe).users,
                           !.audible = IF audible /\ @ < MinFrames THEN @ + 1 ELSE @,
                           !.live = @ \/ (audible /\ s.audible + 1 >= MinFrames)]
        full == heard.frames >= MaxTicks + PreRoll + 1
    IN  /\ Takes("audio")
        /\ \/ (s = NoSegment \/ fast) /\ UNCHANGED <<session, verdict>>
           \/ /\ s # NoSegment
              /\ session' = [session EXCEPT !.active = IF full THEN NoSegment ELSE heard,
                                            !.limited = @ \/ full]
              /\ verdict' = IF full THEN [verdict EXCEPT ![s.id] = Finished(heard, FALSE)]
                            ELSE verdict
        /\ Taken

\* An End that is not for the active segment is only warned about.
TakeEnd ==
    /\ Takes("end")
    /\ IF session.active = NoSegment \/ session.active.id # Head(pipe).id
         THEN UNCHANGED <<session, verdict>>
         ELSE /\ verdict' = [verdict EXCEPT ![Head(pipe).id] =
                               Finished(session.active, Head(pipe).silent)]
              /\ session' = [session EXCEPT !.active = NoSegment]
    /\ Taken

\* The channel is drained and the mixer gone: the loop ends, with its segment.
CloseSession ==
    /\ session.is = "running" /\ pipe = <<>> /\ ~mixer.on /\ mixer.out = <<>>
    /\ session' = [session EXCEPT !.is = "closed"]
    /\ UNCHANGED <<streams, mixer, pipe, verdict, cut>>

MixerTicks == \E late \in BOOLEAN : Tick(late)
SessionStep ==
    \/ TakeConfigure \/ TakeStart \/ TakeSpeakers \/ TakeEnd \/ CloseSession
    \/ \E audible \in BOOLEAN : TakeAudio(audible)
AudioNext ==
    \/ \E u \in Speakers : StartSpeaking(u) \/ QueueFrame(u) \/ StopSpeaking(u) \/ RemoveSpeaker(u)
    \/ \E c \in Configs : Configure(c)
    \/ ShutDown \/ MixerTicks \/ SendInput \/ SessionStep

\* tokio::select! chooses among what is ready at random: commands do not keep
\* the ticker from being chosen.
AudioFairness ==
    /\ SF_audioVars(MixerTicks) /\ WF_audioVars(SendInput)
    /\ WF_audioVars(SessionStep)
AudioSpec == AudioInit /\ [][AudioNext]_audioVars /\ AudioFairness

-----------------------------------------------------------------------------
AudioTypeOK ==
    /\ streams \in [Speakers -> [known : BOOLEAN, active : BOOLEAN, frames : 0..QueueLimit]]
    /\ mixer.on \in BOOLEAN /\ mixer.config \in Configs
    /\ mixer.segment.id \in 0..MaxSegments /\ mixer.segment.named \subseteq Speakers
    /\ Len(pipe) <= PipeSize
    /\ session.is \in {"running", "failed", "closed"} /\ session.active.id \in 0..MaxSegments
    /\ verdict \in [Ids -> {"none", "refused", "discarded", "queued"}]
    /\ cut \in 0..MaxSegments

\* A frame is only ever added to the utterance it was mixed for, and whoever
\* was mixed into an utterance is named among its speakers: the announcement
\* overtakes no frame, also when somebody joins in the middle of a segment.
FramesAreCredited ==
    /\ session.active.heard \subseteq session.active.speakers
    /\ pipe # <<>> /\ Head(pipe).type = "audio" /\ session.active # NoSegment
          => Head(pipe).id = session.active.id

\* The mixer ends its segments before the session loop's own limit would, which
\* would drop the rest of what is said.
MixerEndsSegments == ~session.limited

\* A segment that was opened is closed, one way or another, also when speakers
\* leave without an end, stay active in silence, or the mixer is shut down; only
\* a session that fails at the database takes its segment with it.
SegmentsEnd ==
    \A k \in Ids : session.active.id = k ~> verdict[k] # "none" \/ session.is = "failed"

\* The mixer and the session loop agree on where an utterance begins and ends.
MixerAgreesWithSession == FramesAreCredited /\ MixerEndsSegments
=============================================================================
