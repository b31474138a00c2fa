----------------------------- MODULE MCServices -----------------------------
(***************************************************************************)
(* The parts of the system around rooms and pipelines, and the client's.   *)
(* They share no variable, so one run checks them side by side: `part'     *)
(* names the one that moves, the others stay in an initial state.  Of the  *)
(* desktop shell, leaving the app moves apart from its windows and files.  *)
(***************************************************************************)
EXTENDS EngineControl, MediaFiles, MCLexicons, RoomAudio, BrowserVad,
        RealtimeLink, NativeCapture, AppShell

CONSTANTS local, index, demo, funasr

VARIABLE part
serverVars == <<engineVars, mediaVars, lexiconVars, audioVars>>
clientVars == <<vadVars, linkVars, captureVars, shellVars>>
servicesVars == <<part, serverVars, clientVars>>

BothKinds == {"asr", "tts"}
Registry == [k \in BothKinds |-> IF k = "asr" THEN {demo, funasr} ELSE {local, index}]
FirstChoice == [k \in BothKinds |-> IF k = "asr" THEN funasr ELSE local]
Catalogue == [b \in {local, index} |-> IF b = local THEN {"F1", "M1"} ELSE {"F1"}]

\* Rows that a start may find, of system and tenant: the default and none, an
\* older system row, an older tenant row.
Chosen(asr, tts) == [k \in BothKinds |-> IF k = "asr" THEN asr ELSE tts]
Rows == {<<FirstChoice, NoEngines>>, <<Chosen(demo, index), NoEngines>>,
         <<FirstChoice, Chosen(demo, None)>>}

Init ==
    /\ part \in {"engines", "media", "lexicons", "audio", "vad", "link",
                 "capture", "quit", "shell"}
    /\ EngineInit /\ MediaInit /\ LexiconInit /\ AudioInit
    /\ VadInit /\ LinkInit /\ CaptureInit /\ ShellInit
    /\ <<system, tenant>> \in Rows
    /\ part # "engines" => ~tenantMode /\ up = {} /\ system = FirstChoice
    /\ part # "media" => \A v \in Voices :
          voice[v] = <<CHOOSE o \in Owners : TRUE, CHOOSE n \in Names : TRUE>>
    /\ part # "vad" => ~worker.enhanced
    /\ part # "shell" => file = NoSettings

Moves(p, A) == part = p /\ A /\ UNCHANGED part
ServerMoves == UNCHANGED clientVars
ClientMoves == UNCHANGED serverVars

Next ==
    \/ /\ Moves("engines", EngineNext) /\ ServerMoves
       /\ UNCHANGED <<mediaVars, lexiconVars, audioVars>>
    \/ /\ Moves("media", MediaNext) /\ ServerMoves
       /\ UNCHANGED <<engineVars, lexiconVars, audioVars>>
    \/ /\ Moves("lexicons", LexiconNext) /\ ServerMoves
       /\ UNCHANGED <<engineVars, mediaVars, audioVars>>
    \/ /\ Moves("audio", AudioNext) /\ ServerMoves
       /\ UNCHANGED <<engineVars, mediaVars, lexiconVars>>
    \/ /\ Moves("vad", VadNext) /\ ClientMoves
       /\ UNCHANGED <<linkVars, captureVars, shellVars>>
    \/ /\ Moves("link", LinkNext) /\ ClientMoves
       /\ UNCHANGED <<vadVars, captureVars, shellVars>>
    \/ /\ Moves("capture", CaptureNext) /\ ClientMoves
       /\ UNCHANGED <<vadVars, linkVars, shellVars>>
    \/ /\ Moves("quit", QuitNext \/ StartAgain) /\ ClientMoves
       /\ UNCHANGED <<vadVars, linkVars, captureVars>>
    \/ /\ Moves("shell", HandlersNext \/ StartAgain) /\ ClientMoves
       /\ UNCHANGED <<vadVars, linkVars, captureVars>>

Spec == Init /\ [][Next]_servicesVars
=============================================================================
