------------------------------ MODULE MCSpeech ------------------------------
(***************************************************************************)
(* Audio on its way in (RoomAudio), its live recognition (LivePreview),    *)
(* audio on its way out (SpeechChain) and the script that runs an engine   *)
(* (ManagerScript).  They share no variable, so one run checks them side   *)
(* by side: `part' names the one that moves.                               *)
(***************************************************************************)
EXTENDS RoomAudio, LivePreview, SpeechChain, ManagerScript

CONSTANTS moss, kokoro

VARIABLE part
partVars == <<part, audioVars, liveVars, speechVars, scriptVars>>

Chain == <<moss, kokoro>>

Init ==
    /\ part \in {"audio", "live", "speech", "script"}
    /\ AudioInit /\ LiveInit /\ SpeechInit /\ ScriptInit
    /\ part # "script" => ~model /\ service = "down"
    /\ part # "live" => engine = "demo"

Audio(A)  == part = "audio" /\ A /\ UNCHANGED <<part, liveVars, speechVars, scriptVars>>
Live(A)   == part = "live" /\ A /\ UNCHANGED <<part, audioVars, speechVars, scriptVars>>
Speech(A) == part = "speech" /\ A /\ UNCHANGED <<part, audioVars, liveVars, scriptVars>>
Script(A) == part = "script" /\ A /\ UNCHANGED <<part, audioVars, liveVars, speechVars>>

Next == Audio(AudioNext) \/ Live(LiveNext) \/ Speech(SpeechNext) \/ Script(ScriptNext)

\* AudioFairness, LiveFairness, SpeechFairness and ScriptFairness, of the part
\* that moves.
Fairness ==
    /\ SF_partVars(Audio(MixerTicks)) /\ WF_partVars(Audio(SendInput))
    /\ WF_partVars(Audio(SessionStep))
    /\ WF_partVars(Live(StreamStep)) /\ WF_partVars(Live(TimesOut))
    /\ WF_partVars(Live(PublishText \/ UpdatesEnd)) /\ WF_partVars(Live(PreviewSteps))
    /\ WF_partVars(Live(WorkerSteps)) /\ WF_partVars(Live(BinaryReads))
    /\ \A u \in Utterances :
          WF_partVars(Speech(TaskStep(u))) /\ WF_partVars(Speech(PlayerStep(u)))
    /\ \A p \in Processes : WF_partVars(Script(Release(p)))

Spec == Init /\ [][Next]_partVars /\ Fairness
=============================================================================
