---------------------------- MODULE ClientProofs ----------------------------
(***************************************************************************)
(* Proofs about the client: the desktop shell (AppShell), the native capture *)
(* (NativeCapture), the uplink of a page (RealtimeLink) and the detector of *)
(* speech (BrowserVad), for any number of callers, handlers, transports,   *)
(* frames and reloads, and any thresholds.                                 *)
(***************************************************************************)
EXTENDS RealtimeLink, NativeCapture, AppShell, BrowserVad, SequenceTheorems, TLAPS

-----------------------------------------------------------------------------
(* AppShell: quitting, the subtitle window and the settings.               *)

WindowMoves  == {"nothing", "toggle", "leave", "float", "float and hide", "hide", "enter"}
SaveSteps    == {"write", "fill", "use"}
HandlerState == [does : WindowMoves \cup SaveSteps, sees : BOOLEAN, address : Addresses]
PageState    == [at : {"loading", "ready"}, events : Nat, reloads : 0..MaxReloads,
                 prompt : {"none", "toast", "dialog", "quit", "cancel"}]
WindowState  == [exists : BOOLEAN, visible : BOOLEAN, fullscreen : BOOLEAN, top : BOOLEAN]
RequestState == [prompt : BOOLEAN, allowed : BOOLEAN, asking : BOOLEAN, gone : BOOLEAN]
PostState    == {"none", "quit", "cancel", "done", "failed"}
FileState    == {NoSettings, Torn} \cup Addresses

\* ShellTypeOK, its sets by their names.
ShellTyped ==
    /\ lifecycle \in RequestState /\ page \in PageState /\ post \in PostState
    /\ window \in WindowState /\ handler \in [Handlers -> HandlerState]
    /\ upstream \in Addresses /\ file \in FileState
    /\ saves \in 0..MaxSaves /\ missed \in BOOLEAN /\ disturbed \in BOOLEAN
    /\ sunk \in BOOLEAN

\* While the page's call has been answered, the question it was about is over:
\* a flag that is up again belongs to a request that is on its way.
AnswersEndQuestions ==
    lifecycle.prompt /\ ~missed /\ post = "done" => lifecycle.asking \/ page.events > 0

\* A call of the page is about the question that it shows.
PostsBelongToQuestions == post # "none" /\ ~missed => page.prompt \in {"quit", "cancel"}

\* A window that neither floats nor is fullscreen was put down, or is in the
\* hands of a handler that makes it one or the other.
WindowIsBeingMoved ==
    window.exists /\ ~sunk /\ ~window.fullscreen /\ ~window.top =>
        \E h \in Handlers : handler[h].does \in {"float", "float and hide", "enter"}

\* One save at a time, and what it has done so far.
SavesTakeTurns ==
    ~disturbed =>
        /\ \A g, h \in Handlers :
              handler[g].does \in SaveSteps /\ handler[h].does \in SaveSteps => g = h
        /\ \A h \in Handlers :
              /\ handler[h].does = "write" => upstream = Configured(file)
              /\ handler[h].does = "use" => file = handler[h].address
        /\ (\A h \in Handlers : handler[h].does \notin SaveSteps) => upstream = Configured(file)

ShellInvariant ==
    /\ ShellTyped /\ QuitRequestsAreShown /\ AnswersEndQuestions
    /\ PostsBelongToQuestions /\ WindowIsBeingMoved /\ SavesTakeTurns

LEMMA ShellTypes == ShellTyped => ShellTypeOK
BY DEF ShellTyped, ShellTypeOK, RequestState, PageState, PostState, WindowState, HandlerState,
       FileState, WindowMoves, SaveSteps

LEMMA ShellStart == ShellInit => ShellInvariant
<1> SUFFICES ASSUME ShellInit PROVE ShellInvariant
  OBVIOUS
<1>1. ShellTyped
  <2>1. /\ lifecycle \in RequestState
        /\ window \in WindowState
        /\ post \in PostState
    BY DEF ShellInit, NoWindow, WindowState, RequestState, PostState
  <2>2. page \in PageState
    BY ShellAssumption DEF ShellInit, PageState
  <2>3. handler \in [Handlers -> HandlerState]
    BY ShellAssumption DEF ShellInit, Free, HandlerState, WindowMoves, SaveSteps
  <2>4. upstream \in Addresses /\ file \in FileState
    BY ShellAssumption DEF ShellInit, Configured, FileState
  <2>5. saves \in 0..MaxSaves
    BY ShellAssumption DEF ShellInit
  <2>6. missed \in BOOLEAN /\ disturbed \in BOOLEAN
    BY DEF ShellInit
  <2>7. sunk \in BOOLEAN
    BY DEF ShellInit
  <2> QED
    BY <2>1, <2>2, <2>3, <2>4, <2>5, <2>6, <2>7 DEF ShellTyped
<1>2. QuitRequestsAreShown /\ AnswersEndQuestions /\ PostsBelongToQuestions /\ WindowIsBeingMoved
  BY DEF ShellInit, QuitRequestsAreShown, AnswersEndQuestions, PostsBelongToQuestions, WindowIsBeingMoved, NoWindow
<1>3. SavesTakeTurns
  BY DEF ShellInit, SavesTakeTurns, SaveSteps, Free
<1> QED
  BY <1>1, <1>2, <1>3 DEF ShellInvariant

-----------------------------------------------------------------------------
\* The requests to quit concern neither the window nor the settings.
LEMMA QuitKeepsTypes ==
    ASSUME ShellTyped, QuitNext
    PROVE  ShellTyped'
<1>1. /\ lifecycle' \in RequestState
      /\ post' \in PostState
  BY DEF ShellTyped, RequestState, PostState, QuitNext, RequestQuit, TellPage, PageMounts, PageReloads, HearRequest,
         ShowDialog, UserAnswers, ConfirmExit, CancelExit, AppExits, PostFails, PostReturns
<1>2. missed' \in BOOLEAN
  BY DEF ShellTyped, RequestState, PostState, QuitNext, RequestQuit, TellPage, PageMounts, PageReloads, HearRequest,
         ShowDialog, UserAnswers, ConfirmExit, CancelExit, AppExits, PostFails, PostReturns
<1>3. page' \in PageState
  <2>1. page \in PageState /\ page.events \in Nat /\ page.reloads \in 0..MaxReloads
    BY DEF ShellTyped, PageState
  <2>2. CASE PageReloads
    <3>1. page.reloads + 1 \in 0..MaxReloads
      BY <2>1, <2>2, ShellAssumption DEF PageReloads
    <3>2. page' = [page EXCEPT !.at = "loading", !.prompt = "none",
                               !.reloads = page.reloads + 1]
      BY <2>2 DEF PageReloads
    <3> QED
      BY <2>1, <3>1, <3>2 DEF PageState
  <2>3. CASE HearRequest
    <3>1. page.events - 1 \in Nat
      BY <2>1, <2>3 DEF HearRequest
    <3>2. page' \in {[page EXCEPT !.events = page.events - 1, !.prompt = "toast"],
                     [page EXCEPT !.events = page.events - 1]}
      BY <2>3 DEF HearRequest
    <3> QED
      BY <2>1, <3>1, <3>2 DEF PageState
  <2>4. CASE TellPage
    <3>1. page' \in {page, [page EXCEPT !.events = page.events + 1]}
      BY <2>4 DEF TellPage
    <3> QED
      BY <2>1, <3>1 DEF PageState
  <2>5. CASE ~(PageReloads \/ HearRequest \/ TellPage)
    BY <2>1, <2>5 DEF PageState, QuitNext, RequestQuit, PageMounts, ShowDialog, UserAnswers,
                      ConfirmExit, CancelExit, AppExits, PostFails, PostReturns
  <2> QED
    BY <2>2, <2>3, <2>4, <2>5
<1>4. UNCHANGED <<window, handler, upstream, file, saves, disturbed, sunk>>
  BY DEF QuitNext, RequestQuit, TellPage, PageMounts, PageReloads, HearRequest, ShowDialog,
         UserAnswers, ConfirmExit, CancelExit, AppExits, PostFails, PostReturns
<1> QED
  BY <1>1, <1>2, <1>3, <1>4 DEF ShellTyped

LEMMA QuitStep ==
    ASSUME ShellInvariant, QuitNext
    PROVE  ShellInvariant'
<1>1. UNCHANGED <<window, handler, upstream, file, saves, disturbed, sunk>>
  BY DEF QuitNext, RequestQuit, TellPage, PageMounts, PageReloads, HearRequest, ShowDialog,
         UserAnswers, ConfirmExit, CancelExit, AppExits, PostFails, PostReturns
<1>2. WindowIsBeingMoved' /\ SavesTakeTurns'
  BY <1>1 DEF ShellInvariant, WindowIsBeingMoved, SavesTakeTurns, Configured
<1>3. QuitRequestsAreShown' /\ AnswersEndQuestions' /\ PostsBelongToQuestions'
  <2>1. /\ lifecycle \in RequestState /\ page \in PageState /\ page.events \in Nat
        /\ post \in PostState
        /\ QuitRequestsAreShown /\ AnswersEndQuestions /\ PostsBelongToQuestions
    BY DEF ShellInvariant, ShellTyped, PageState
  <2> USE <2>1 DEF RequestState, PostState, QuitRequestsAreShown, AnswersEndQuestions, PostsBelongToQuestions, PageState
  <2>2. CASE RequestQuit
    BY <2>2 DEF RequestQuit
  <2>3. CASE TellPage
    <3>1. UNCHANGED <<post, missed>>
      BY <2>3 DEF TellPage
    <3>2. CASE lifecycle' = [lifecycle EXCEPT !.asking = FALSE]
               /\ page' = [page EXCEPT !.events = page.events + 1]
      BY <3>1, <3>2
    <3>3. CASE lifecycle' = [lifecycle EXCEPT !.asking = FALSE, !.prompt = FALSE]
               /\ UNCHANGED page
      BY <3>1, <3>3
    <3> QED
      BY <2>3, <3>2, <3>3 DEF TellPage
  <2>4. CASE PageMounts
    BY <2>4 DEF PageMounts
  <2>5. CASE PageReloads
    <3>1. /\ UNCHANGED <<lifecycle, post>> /\ page'.events = page.events /\ page'.prompt = "none"
          /\ ~missed' => ~missed /\ page.prompt = "none"
      BY <2>5 DEF PageReloads
    <3> QED
      BY <3>1
  <2>6. CASE HearRequest
    <3>1. /\ UNCHANGED <<lifecycle, post>>
          /\ ~missed' => ~missed /\ page'.prompt = "toast"
      BY <2>6 DEF HearRequest
    <3>2. ~missed' => page.prompt = "none" /\ post = "none"
      BY <2>6 DEF HearRequest
    <3> QED
      BY <3>1, <3>2
  <2>7. CASE ShowDialog
    BY <2>7 DEF ShowDialog
  <2>8. CASE UserAnswers
    BY <2>8 DEF UserAnswers
  <2>9. CASE ConfirmExit
    BY <2>9 DEF ConfirmExit
  <2>10. CASE CancelExit
    BY <2>10 DEF CancelExit
  <2>11. CASE AppExits
    BY <2>11 DEF AppExits
  <2>12. CASE PostFails
    BY <2>12 DEF PostFails
  <2>13. CASE PostReturns
    BY <2>13 DEF PostReturns
  <2> QED
    BY <2>2, <2>3, <2>4, <2>5, <2>6, <2>7, <2>8, <2>9, <2>10, <2>11, <2>12, <2>13 DEF QuitNext
<1> QED
  BY <1>2, <1>3, QuitKeepsTypes DEF ShellInvariant

-----------------------------------------------------------------------------
\* The subtitle window.  Its handlers and the window's own events leave
\* alone what the requests to quit and the settings are about.
LEMMA WindowStepKeeps ==
    ASSUME ShellInvariant, ShellKeeps, window' \in WindowState,
           sunk' \in BOOLEAN, handler' \in [Handlers -> HandlerState], WindowIsBeingMoved',
           \A h \in Handlers : handler'[h] # handler[h] =>
               handler[h].does \in WindowMoves /\ handler'[h].does \in WindowMoves
    PROVE  ShellInvariant'
<1>1. ShellTyped'
  <2>1. ShellTyped
    BY DEF ShellInvariant
  <2> QED
    BY <2>1 DEF ShellTyped, ShellKeeps
<1>2. QuitRequestsAreShown' /\ AnswersEndQuestions' /\ PostsBelongToQuestions'
  BY DEF ShellInvariant, ShellKeeps, QuitRequestsAreShown, AnswersEndQuestions, PostsBelongToQuestions
<1>3. SavesTakeTurns'
  <2>1. SavesTakeTurns /\ UNCHANGED <<upstream, file, disturbed>>
    BY DEF ShellInvariant, ShellKeeps
  <2>2. \A h \in Handlers :
           /\ handler'[h].does \in SaveSteps <=> handler[h].does \in SaveSteps
           /\ handler'[h].does \in SaveSteps => handler'[h] = handler[h]
    BY DEF WindowMoves, SaveSteps
  <2> QED
    BY <2>1, <2>2 DEF SavesTakeTurns, Configured, SaveSteps
<1> QED
  BY <1>1, <1>2, <1>3 DEF ShellInvariant

\* A handler's next step.
LEMMA HandlerMoves ==
    ASSUME handler \in [Handlers -> HandlerState], NEW h \in Handlers, NEW does \in WindowMoves,
           Then(h, does)
    PROVE  /\ handler' \in [Handlers -> HandlerState]
           /\ handler'[h].does = does
           /\ \A g \in Handlers \ {h} : handler'[g] = handler[g]
<1>1. Free \in HandlerState /\ [Free EXCEPT !.does = does] \in HandlerState
  BY ShellAssumption DEF Free, HandlerState, WindowMoves, SaveSteps
<1>2. [Free EXCEPT !.does = does].does = does
  BY DEF Free
<1> QED
  BY <1>1, <1>2 DEF Then

LEMMA WindowStep ==
    ASSUME ShellInvariant, NEW h \in Handlers,
           \/ BeginWindowAction(h) \/ LeaveFullscreen(h) \/ SkipFullscreen(h) \/ Float(h)
           \/ HideWindow(h) \/ StopFloating(h) \/ EnterFullscreen(h)
    PROVE  ShellInvariant'
<1> DEFINE Falls(w, f, k) == w.exists /\ ~k /\ ~w.fullscreen /\ ~w.top =>
               \E g \in Handlers : f[g].does \in {"float", "float and hide", "enter"}
<1>1. /\ handler \in [Handlers -> HandlerState] /\ window \in WindowState /\ sunk \in BOOLEAN
      /\ Falls(window, handler, sunk)
  BY DEF ShellInvariant, ShellTyped, WindowState, WindowIsBeingMoved
<1> SUFFICES /\ ShellKeeps /\ window' \in WindowState /\ sunk' \in BOOLEAN
             /\ handler' \in [Handlers -> HandlerState] /\ Falls(window', handler', sunk')
             /\ handler[h].does \in WindowMoves /\ handler'[h].does \in WindowMoves
             /\ \A g \in Handlers \ {h} : handler'[g] = handler[g]
  BY WindowStepKeeps DEF WindowIsBeingMoved
<1>2. CASE BeginWindowAction(h)
  <2>1. PICK does \in {"toggle", "leave"} :
           handler' = [handler EXCEPT ![h].does = does, ![h].sees = window.fullscreen]
    BY <1>2 DEF BeginWindowAction
  <2> DEFINE moved == [handler[h] EXCEPT !.does = does, !.sees = window.fullscreen]
  <2>2. handler[h] \in HandlerState /\ window.fullscreen \in BOOLEAN
    BY <1>1 DEF WindowState
  <2>3. moved \in HandlerState /\ moved.does = does
    BY <2>2 DEF HandlerState, WindowMoves, SaveSteps
  <2>4. handler' = [handler EXCEPT ![h] = moved]
    BY <1>1, <2>1
  <2>5. handler[h].does = "nothing"
    BY <1>2 DEF BeginWindowAction, Free
  <2> HIDE DEF moved
  <2>6. /\ handler' \in [Handlers -> HandlerState] /\ handler'[h].does = does
        /\ \A g \in Handlers \ {h} : handler'[g] = handler[g]
    BY <1>1, <2>3, <2>4
  <2>7. Falls(window', handler', sunk')
    BY <1>1, <1>2, <2>5, <2>6 DEF BeginWindowAction
  <2>8. ShellKeeps /\ UNCHANGED <<window, sunk>>
    BY <1>2 DEF BeginWindowAction
  <2> QED
    BY <1>1, <2>5, <2>6, <2>7, <2>8 DEF WindowMoves
<1> DEFINE After(does) == /\ handler' \in [Handlers -> HandlerState]
                          /\ handler'[h].does = does
                          /\ \A g \in Handlers \ {h} : handler'[g] = handler[g]
<1>3. \A does \in WindowMoves : Then(h, does) => After(does)
  BY <1>1, HandlerMoves
<1> HIDE DEF After
<1>4. CASE LeaveFullscreen(h)
  <2>1. CASE /\ window' = [window EXCEPT !.fullscreen = FALSE]
             /\ Then(h, IF handler[h].does = "toggle" THEN "float" ELSE "float and hide")
    <3>1. PICK does \in {"float", "float and hide"} : Then(h, does)
      BY <2>1
    <3>2. After(does)
      BY <1>3, <3>1 DEF WindowMoves
    <3>3. ShellKeeps /\ handler[h].does \in WindowMoves /\ sunk' = sunk
      BY <1>4 DEF LeaveFullscreen, WindowMoves
    <3>4. window' \in WindowState
      BY <1>1, <2>1 DEF WindowState
    <3> QED
      BY <1>1, <3>2, <3>3, <3>4 DEF WindowMoves, After
  <2>2. CASE Then(h, "nothing") /\ UNCHANGED window
    <3>1. After("nothing")
      BY <1>3, <2>2 DEF WindowMoves
    <3>2. handler[h].does \in {"toggle", "leave"}
      BY <1>4 DEF LeaveFullscreen
    <3> QED
      BY <1>1, <1>4, <2>2, <3>1, <3>2 DEF LeaveFullscreen, WindowMoves, After
  <2> QED
    BY <1>4, <2>1, <2>2 DEF LeaveFullscreen
<1>5. CASE SkipFullscreen(h)
  <2>1. After("float and hide")
    BY <1>3, <1>5 DEF SkipFullscreen, WindowMoves
  <2> QED
    BY <1>1, <1>5, <2>1 DEF SkipFullscreen, WindowMoves, After
<1>6. CASE Float(h)
  <2>1. CASE Floats(window) /\ Then(h, IF handler[h].does = "float" THEN "nothing" ELSE "hide")
    <3>1. PICK does \in {"nothing", "hide"} : Then(h, does)
      BY <2>1
    <3>2. After(does)
      BY <1>3, <3>1 DEF WindowMoves
    <3>3. window' = [window EXCEPT !.top = TRUE] /\ sunk' = FALSE
      BY <2>1 DEF Floats
    <3> QED
      BY <1>1, <1>6, <3>2, <3>3 DEF Float, WindowMoves, WindowState, After
  <2>2. CASE Sinks(window) /\ Then(h, "nothing")
    <3>1. After("nothing")
      BY <1>3, <2>2 DEF WindowMoves
    <3>2. window' = window /\ sunk' = (sunk \/ ~(window.fullscreen \/ window.top))
      BY <2>2 DEF Sinks
    <3>3. Falls(window', handler', sunk')
      BY <3>2
    <3>4. sunk' \in BOOLEAN
      BY <3>2
    <3> QED
      BY <1>1, <1>6, <3>1, <3>2, <3>3, <3>4 DEF Float, WindowMoves, After
  <2> QED
    BY <1>6, <2>1, <2>2 DEF Float
<1>7. CASE HideWindow(h)
  <2>1. After("nothing")
    BY <1>3, <1>7 DEF HideWindow, WindowMoves
  <2>2. window' \in {window, [window EXCEPT !.visible = FALSE]} /\ handler[h].does = "hide"
        /\ sunk' = sunk
    BY <1>7 DEF HideWindow
  <2>3. window' \in WindowState /\ window'.exists = window.exists
        /\ window'.fullscreen = window.fullscreen /\ window'.top = window.top
    BY <1>1, <2>2 DEF WindowState
  <2>4. Falls(window', handler', sunk')
    BY <1>1, <2>1, <2>2, <2>3 DEF After
  <2> QED
    BY <1>1, <1>7, <2>1, <2>2, <2>3, <2>4 DEF HideWindow, WindowMoves, After
<1>8. CASE StopFloating(h)
  <2>1. CASE window' = [window EXCEPT !.top = FALSE] /\ Then(h, "enter")
    <3>1. After("enter")
      BY <1>3, <2>1 DEF WindowMoves
    <3>2. window' = [window EXCEPT !.top = FALSE] /\ handler[h].does = "toggle" /\ sunk' = sunk
      BY <1>8, <2>1 DEF StopFloating
    <3> QED
      BY <1>1, <1>8, <3>1, <3>2 DEF StopFloating, WindowMoves, WindowState, After
  <2>2. CASE Then(h, "nothing") /\ UNCHANGED window
    <3>1. After("nothing")
      BY <1>3, <2>2 DEF WindowMoves
    <3>2. handler[h].does = "toggle" /\ UNCHANGED <<window, sunk>>
      BY <1>8, <2>2 DEF StopFloating
    <3>3. Falls(window', handler', sunk')
      BY <1>1, <3>1, <3>2 DEF After
    <3>4. ShellKeeps
      BY <1>8 DEF StopFloating
    <3> QED
      BY <1>1, <3>1, <3>2, <3>3, <3>4 DEF WindowMoves, After
  <2> QED
    BY <1>8, <2>1, <2>2 DEF StopFloating
<1>9. CASE EnterFullscreen(h)
  <2>1. CASE window' = [window EXCEPT !.fullscreen = TRUE] /\ Then(h, "nothing")
    <3>1. After("nothing")
      BY <1>3, <2>1 DEF WindowMoves
    <3> QED
      BY <1>1, <1>9, <2>1, <3>1 DEF EnterFullscreen, WindowMoves, WindowState, After
  <2>2. CASE Then(h, "float") /\ UNCHANGED window
    <3>1. After("float")
      BY <1>3, <2>2 DEF WindowMoves
    <3> QED
      BY <1>1, <1>9, <2>2, <3>1 DEF EnterFullscreen, WindowMoves, After
  <2> QED
    BY <1>9, <2>1, <2>2 DEF EnterFullscreen
<1> QED
  BY <1>2, <1>4, <1>5, <1>6, <1>7, <1>8, <1>9

LEMMA WindowEvent ==
    ASSUME ShellInvariant,
           ShowWindow \/ RaiseWindow \/ CloseRequested \/ EnterByTitleBar \/ LeaveByTitleBar
    PROVE  ShellInvariant'
<1>1. /\ handler \in [Handlers -> HandlerState] /\ window \in WindowState
      /\ WindowIsBeingMoved /\ sunk \in BOOLEAN
  BY DEF ShellInvariant, ShellTyped, WindowState
<1>2. ShellKeeps /\ UNCHANGED handler
  BY DEF ShowWindow, RaiseWindow, CloseRequested, EnterByTitleBar, LeaveByTitleBar
<1> SUFFICES window' \in WindowState /\ sunk' \in BOOLEAN /\ WindowIsBeingMoved'
  BY <1>1, <1>2, WindowStepKeeps
\* A call that floats the window, and one that fails to.
<1>3. ASSUME NEW w \in WindowState, Floats(w)
      PROVE  window' \in WindowState /\ sunk' \in BOOLEAN /\ WindowIsBeingMoved'
  <2>1. window' = [w EXCEPT !.top = TRUE] /\ sunk' = FALSE
    BY <1>3 DEF Floats
  <2>2. window' \in WindowState /\ window'.top = TRUE
    BY <2>1 DEF WindowState
  <2> QED
    BY <2>1, <2>2 DEF WindowIsBeingMoved
<1>4. ASSUME NEW w \in WindowState, Sinks(w)
      PROVE  window' \in WindowState /\ sunk' \in BOOLEAN /\ WindowIsBeingMoved'
  <2>1. window' = w /\ sunk' = (sunk \/ ~(w.fullscreen \/ w.top))
    BY <1>4 DEF Sinks
  <2>2. sunk' \in BOOLEAN
    BY <2>1
  <2>3. ~sunk' => window'.fullscreen \/ window'.top
    BY <2>1
  <2> QED
    BY <2>1, <2>2, <2>3 DEF WindowIsBeingMoved
\* A step that changes neither the mode nor its history.
<1>5. ASSUME window' \in WindowState, sunk' = sunk, window'.exists = window.exists,
             window'.top = window.top, window.fullscreen => window'.fullscreen
      PROVE  window' \in WindowState /\ sunk' \in BOOLEAN /\ WindowIsBeingMoved'
  BY <1>1, <1>2, <1>5 DEF WindowIsBeingMoved
<1>6. CASE ShowWindow
  <2>1. CASE window' = [window EXCEPT !.visible = TRUE] /\ sunk' = sunk
    <3>1. /\ window' \in WindowState /\ window'.exists = window.exists
          /\ window'.top = window.top /\ window'.fullscreen = window.fullscreen
      BY <1>1, <2>1 DEF WindowState
    <3> QED
      BY <1>5, <2>1, <3>1
  <2>2. CASE window' = [exists |-> TRUE, visible |-> TRUE, fullscreen |-> FALSE, top |-> TRUE]
             /\ sunk' = FALSE
    BY <2>2 DEF WindowState, WindowIsBeingMoved
  <2> QED
    BY <1>6, <2>1, <2>2 DEF ShowWindow
<1>7. CASE RaiseWindow
  <2>1. /\ window' \in WindowState /\ window'.exists = window.exists /\ sunk' = sunk
        /\ window'.top = window.top /\ window'.fullscreen = window.fullscreen
    BY <1>1, <1>7 DEF RaiseWindow, WindowState
  <2> QED
    BY <1>5, <2>1
<1>8. CASE EnterByTitleBar
  <2>1. /\ window' \in WindowState /\ window'.exists = window.exists /\ sunk' = sunk
        /\ window'.top = window.top /\ window'.fullscreen = TRUE
    BY <1>1, <1>8 DEF EnterByTitleBar, WindowState
  <2> QED
    BY <1>5, <2>1
<1>9. CASE LeaveByTitleBar
  <2> DEFINE w == [window EXCEPT !.fullscreen = FALSE]
  <2>1. w \in WindowState /\ Sinks(w)
    BY <1>1, <1>9 DEF LeaveByTitleBar, WindowState
  <2> HIDE DEF w
  <2> QED
    BY <1>4, <2>1
<1>10. CASE CloseRequested
  <2>1. PICK fullscreen, visible \in BOOLEAN :
          LET w == [window EXCEPT !.fullscreen = @ /\ fullscreen, !.visible = @ /\ visible]
          IN  IF window.fullscreen THEN Floats(w) \/ Sinks(w)
              ELSE window' = w /\ UNCHANGED sunk
    BY <1>10 DEF CloseRequested
  <2> DEFINE f == window.fullscreen /\ fullscreen
             u == window.visible /\ visible
             w == [window EXCEPT !.fullscreen = f, !.visible = u]
  <2>2. IF window.fullscreen THEN Floats(w) \/ Sinks(w) ELSE window' = w /\ UNCHANGED sunk
    BY <2>1
  <2>3. f \in BOOLEAN /\ u \in BOOLEAN
    OBVIOUS
  <2>4. /\ w \in WindowState /\ w.exists = window.exists /\ w.top = window.top
    <3> HIDE DEF f, u
    <3> QED
      BY <1>1, <2>3 DEF WindowState
  <2> HIDE DEF w
  <2>5. CASE window.fullscreen
    BY <1>3, <1>4, <2>2, <2>4, <2>5
  <2>6. CASE ~window.fullscreen
    BY <1>5, <2>2, <2>4, <2>6
  <2> QED
    BY <2>5, <2>6
<1> QED
  BY <1>6, <1>7, <1>8, <1>9, <1>10

-----------------------------------------------------------------------------
\* The settings.
LEMMA SaveStep ==
    ASSUME ShellInvariant, NEW h \in Handlers,
           \/ EmptyFile(h) \/ FillFile(h) \/ UseAddress(h) \/ DropSave(h)
           \/ \E a \in Addresses : BeginSave(h, a)
    PROVE  ShellInvariant'
<1>1. /\ handler \in [Handlers -> HandlerState] /\ handler[h] \in HandlerState
      /\ upstream \in Addresses /\ file \in FileState
      /\ saves \in 0..MaxSaves /\ disturbed \in BOOLEAN
      /\ SavesTakeTurns /\ WindowIsBeingMoved
  BY DEF ShellInvariant, ShellTyped
<1>2. UNCHANGED <<lifecycle, page, post, window, missed, sunk>>
  BY DEF EmptyFile, FillFile, UseAddress, DropSave, BeginSave
<1> DEFINE Becomes(s) == /\ s \in HandlerState /\ handler' = [handler EXCEPT ![h] = s]
                         /\ handler[h].does \in {"nothing"} \cup SaveSteps
                         /\ s.does \in {"nothing"} \cup SaveSteps
<1>3. ASSUME NEW s, Becomes(s), upstream' \in Addresses,
             file' \in FileState, saves' \in 0..MaxSaves,
             disturbed' \in BOOLEAN, SavesTakeTurns'
      PROVE  ShellInvariant'
  <2>1. handler' \in [Handlers -> HandlerState] /\ handler'[h] = s
        /\ \A g \in Handlers \ {h} : handler'[g] = handler[g]
    BY <1>1, <1>3
  <2>2. ShellTyped'
    <3>1. /\ lifecycle \in RequestState
          /\ page \in PageState /\ post \in PostState
          /\ window \in WindowState /\ missed \in BOOLEAN /\ sunk \in BOOLEAN
      BY DEF ShellInvariant, ShellTyped
    <3> QED
      BY <1>2, <1>3, <2>1, <3>1 DEF ShellTyped
  <2>3. QuitRequestsAreShown' /\ AnswersEndQuestions' /\ PostsBelongToQuestions'
    BY <1>2 DEF ShellInvariant, QuitRequestsAreShown, AnswersEndQuestions, PostsBelongToQuestions
  <2>4. WindowIsBeingMoved'
    BY <1>1, <1>2, <1>3, <2>1 DEF WindowIsBeingMoved, SaveSteps
  <2> QED
    BY <1>3, <2>2, <2>3, <2>4 DEF ShellInvariant
<1>4. Free \in HandlerState /\ Free.does = "nothing"
  BY ShellAssumption DEF Free, HandlerState, WindowMoves
<1>5. CASE \E a \in Addresses : BeginSave(h, a)
  <2>1. PICK a \in Addresses : BeginSave(h, a)
    BY <1>5
  <2> DEFINE s == [Free EXCEPT !.does = "write", !.address = a]
  <2>2. s \in HandlerState /\ s.does = "write" /\ s.address = a
    BY ShellAssumption DEF Free, HandlerState, WindowMoves, SaveSteps
  <2>3. handler' = [handler EXCEPT ![h] = s] /\ handler[h].does = "nothing"
        /\ UNCHANGED <<upstream, file>> /\ saves < MaxSaves /\ saves' = saves + 1
    <3>1. /\ handler' = [handler EXCEPT ![h] = s] /\ handler[h] = Free
          /\ UNCHANGED <<upstream, file>> /\ saves < MaxSaves /\ saves' = saves + 1
      BY <2>1 DEF BeginSave
    <3> QED
      BY <1>4, <3>1
  <2>9. disturbed' = (disturbed \/ SaveUnderWay)
    BY <2>1 DEF BeginSave
  <2> HIDE DEF s
  <2>4. Becomes(s)
    BY <2>2, <2>3 DEF SaveSteps
  <2>5. saves' \in 0..MaxSaves
    BY <1>1, <2>3, ShellAssumption
  <2>6. handler'[h] = s /\ \A g \in Handlers \ {h} : handler'[g] = handler[g]
    BY <1>1, <2>3
  <2>7. SavesTakeTurns'
    <3> SUFFICES ASSUME ~disturbed' PROVE SavesTakeTurns'
      BY DEF SavesTakeTurns
    <3>1. \A g \in Handlers : handler[g].does \notin SaveSteps
      BY <2>9 DEF SaveUnderWay, SaveSteps
    <3>2. upstream = Configured(file)
      BY <1>1, <2>9, <3>1 DEF SavesTakeTurns
    <3> QED
      BY <2>2, <2>3, <2>6, <3>1, <3>2 DEF SavesTakeTurns, SaveSteps, Configured
  <2>8. disturbed' \in BOOLEAN
    BY <2>9
  <2> QED
    BY <1>1, <1>3, <2>3, <2>4, <2>5, <2>7, <2>8
<1>6. CASE EmptyFile(h)
  <2>1. handler[h].does = "write" /\ UNCHANGED <<upstream, saves, disturbed>>
    BY <1>6 DEF EmptyFile
  <2>2. CASE file' = Torn /\ handler' = [handler EXCEPT ![h].does = "fill"]
    <3> DEFINE s == [handler[h] EXCEPT !.does = "fill"]
    <3>1. s \in HandlerState /\ s.does = "fill"
      BY <1>1 DEF HandlerState, WindowMoves, SaveSteps
    <3>2. handler' = [handler EXCEPT ![h] = s]
      BY <1>1, <2>2
    <3> HIDE DEF s
    <3>3. Becomes(s)
      BY <2>1, <3>1, <3>2 DEF SaveSteps
    <3>4. handler'[h] = s /\ \A g \in Handlers \ {h} : handler'[g] = handler[g]
      BY <1>1, <3>2
    <3>5. SavesTakeTurns'
      BY <1>1, <2>1, <3>1, <3>4 DEF SavesTakeTurns, SaveSteps
    <3> QED
      BY <1>1, <1>3, <2>1, <2>2, <3>3, <3>5 DEF FileState
  <2>3. CASE handler' = [handler EXCEPT ![h] = Free] /\ UNCHANGED file
    <3>1. Becomes(Free)
      BY <1>4, <2>1, <2>3 DEF SaveSteps
    <3>2. handler'[h] = Free /\ \A g \in Handlers \ {h} : handler'[g] = handler[g]
      BY <1>1, <2>3
    <3>3. SavesTakeTurns'
      BY <1>1, <1>4, <2>1, <2>3, <3>2 DEF SavesTakeTurns, SaveSteps, Configured
    <3> QED
      BY <1>1, <1>3, <2>1, <2>3, <3>1, <3>3
  <2> QED
    BY <1>6, <2>2, <2>3 DEF EmptyFile
<1>7. CASE FillFile(h)
  <2>1. handler[h].does = "fill" /\ UNCHANGED <<upstream, saves>>
    BY <1>7 DEF FillFile
  <2>2. CASE /\ file' = handler[h].address /\ UNCHANGED disturbed
             /\ handler' = [handler EXCEPT ![h].does = "use"]
    <3> DEFINE s == [handler[h] EXCEPT !.does = "use"]
    <3>1. s \in HandlerState /\ s.does = "use" /\ s.address = handler[h].address
      BY <1>1 DEF HandlerState, WindowMoves, SaveSteps
    <3>2. handler' = [handler EXCEPT ![h] = s]
      BY <1>1, <2>2
    <3> HIDE DEF s
    <3>3. Becomes(s)
      BY <2>1, <3>1, <3>2 DEF SaveSteps
    <3>4. handler'[h] = s /\ \A g \in Handlers \ {h} : handler'[g] = handler[g]
      BY <1>1, <3>2
    <3>5. SavesTakeTurns'
      BY <1>1, <2>1, <2>2, <3>1, <3>4 DEF SavesTakeTurns, SaveSteps
    <3>6. file' \in FileState
      BY <1>1, <2>2 DEF HandlerState, FileState
    <3> QED
      BY <1>1, <1>3, <2>1, <2>2, <3>3, <3>5, <3>6
  <2>3. CASE handler' = [handler EXCEPT ![h] = Free] /\ disturbed' = TRUE /\ UNCHANGED file
    <3>1. Becomes(Free)
      BY <1>4, <2>1, <2>3 DEF SaveSteps
    <3>2. SavesTakeTurns'
      BY <2>3 DEF SavesTakeTurns
    <3> QED
      BY <1>1, <1>3, <2>1, <2>3, <3>1, <3>2
  <2> QED
    BY <1>7, <2>2, <2>3 DEF FillFile
<1>8. CASE UseAddress(h)
  <2>1. /\ handler[h].does = "use" /\ UNCHANGED <<file, saves, disturbed>>
        /\ upstream' = handler[h].address /\ handler' = [handler EXCEPT ![h] = Free]
    BY <1>8 DEF UseAddress
  <2>2. Becomes(Free)
    BY <1>4, <2>1 DEF SaveSteps
  <2>3. handler'[h] = Free /\ \A g \in Handlers \ {h} : handler'[g] = handler[g]
    BY <1>1, <2>1
  <2>4. handler[h].address \in Addresses
    BY <1>1 DEF HandlerState
  <2>5. SavesTakeTurns'
    <3> SUFFICES ASSUME ~disturbed' PROVE SavesTakeTurns'
      BY DEF SavesTakeTurns
    <3>1. file = handler[h].address /\ \A g \in Handlers \ {h} : handler[g].does \notin SaveSteps
      BY <1>1, <2>1 DEF SavesTakeTurns, SaveSteps
    <3>2. upstream' = Configured(file')
      BY <2>1, <2>4, <3>1 DEF Configured
    <3> QED
      BY <1>4, <2>3, <3>1, <3>2 DEF SavesTakeTurns, SaveSteps
  <2> QED
    BY <1>1, <1>3, <2>1, <2>2, <2>4, <2>5
<1>9. CASE DropSave(h)
  <2>1. /\ handler[h].does = "use" /\ UNCHANGED <<upstream, file, saves>> /\ disturbed' = TRUE
        /\ handler' = [handler EXCEPT ![h] = Free]
    BY <1>9 DEF DropSave
  <2>2. Becomes(Free)
    BY <1>4, <2>1 DEF SaveSteps
  <2>3. SavesTakeTurns'
    BY <2>1 DEF SavesTakeTurns
  <2> QED
    BY <1>1, <1>3, <2>1, <2>2, <2>3
<1> QED
  BY <1>5, <1>6, <1>7, <1>8, <1>9

LEMMA StartingAgain ==
    ASSUME ShellInvariant, StartAgain
    PROVE  ShellInvariant'
<1>1. page.reloads \in 0..MaxReloads /\ file \in FileState
      /\ saves \in 0..MaxSaves
  BY DEF ShellInvariant, ShellTyped, PageState
<1>2. page' \in PageState
  <2>1. page.reloads + 1 \in 0..MaxReloads
    BY <1>1, ShellAssumption DEF StartAgain
  <2> QED
    BY <2>1 DEF StartAgain, PageState
<1>3. handler' \in [Handlers -> HandlerState] /\ window' \in WindowState
  BY ShellAssumption DEF StartAgain, Free, NoWindow, HandlerState, WindowState, WindowMoves, SaveSteps
<1>4. upstream' \in Addresses /\ file' \in FileState /\ saves' \in 0..MaxSaves
  BY <1>1, ShellAssumption DEF StartAgain, Configured, FileState
<1>5. ShellTyped'
  <2>1. /\ lifecycle' \in RequestState /\ post' \in PostState /\ missed' \in BOOLEAN
        /\ disturbed' \in BOOLEAN /\ sunk' \in BOOLEAN
    BY DEF StartAgain, RequestState, PostState
  <2> QED
    BY <1>2, <1>3, <1>4, <2>1 DEF ShellTyped
<1>6. QuitRequestsAreShown' /\ AnswersEndQuestions' /\ PostsBelongToQuestions'
      /\ WindowIsBeingMoved'
  BY DEF StartAgain, QuitRequestsAreShown, AnswersEndQuestions, PostsBelongToQuestions,
         WindowIsBeingMoved, NoWindow
<1>7. SavesTakeTurns'
  BY DEF StartAgain, SavesTakeTurns, SaveSteps, Free, Configured
<1> QED
  BY <1>5, <1>6, <1>7 DEF ShellInvariant

LEMMA ShellStep ==
    ASSUME ShellInvariant, [ShellNext]_shellVars
    PROVE  ShellInvariant'
<1>1. CASE UNCHANGED shellVars
  BY <1>1 DEF shellVars, ShellInvariant, ShellTyped, QuitRequestsAreShown, AnswersEndQuestions,
              PostsBelongToQuestions, WindowIsBeingMoved, SavesTakeTurns, Configured
<1>2. CASE HandlersNext
  BY <1>2, WindowEvent, WindowStep, SaveStep DEF HandlersNext
<1> QED
  BY <1>1, <1>2, QuitStep, StartingAgain DEF ShellNext

\* Whatever its user, its page, the title bar of the system and the handlers of
\* its server do in whichever order: a request to quit is not swallowed while
\* the flag keeps others away, a window nobody moves is fullscreen or floats,
\* and the address in use is the one in the settings (lib.rs 68,
\* static_server.rs 362, 553).  It does not float while a failed call or the
\* title bar has put it down and no later call succeeded; the settings may
\* differ after saves that overlapped, failed inside the file or were dropped.
THEOREM ShellStaysTrue == ShellSpec => []ShellAgrees
<1>1. ShellInvariant => ShellAgrees
  <2> SUFFICES ASSUME ShellInvariant PROVE ShellAgrees
    OBVIOUS
  <2>1. SubtitlesFloat
    <3> SUFFICES ASSUME window.exists, ~sunk, \A h \in Handlers : handler[h].does = "nothing"
                 PROVE  window.fullscreen \/ window.top
      BY DEF SubtitlesFloat
    <3> QED
      BY DEF ShellInvariant, WindowIsBeingMoved
  <2>2. SettingsAreSaved
    BY DEF ShellInvariant, SavesTakeTurns, SettingsAreSaved, SaveUnderWay, SaveSteps
  <2> QED
    BY <2>1, <2>2 DEF ShellInvariant, ShellAgrees
<1> QED
  BY <1>1, ShellStart, ShellStep, PTL DEF ShellSpec

-----------------------------------------------------------------------------
(* NativeCapture: what the page reads is true when nothing is under way.   *)

CaptureState == [at : {"none", "asking", "running", "broken", "ended"},
                 stopping : BOOLEAN, starting : BOOLEAN, owed : Nat]
EventState   == [step : {"none", "flag", "app"}, then : {"nothing", "nil", "clear"}]
Blocks       == {<<"start">>, <<"stop">>, <<"clear">>}

CaptureTyped ==
    /\ active \in BOOLEAN /\ app \in BOOLEAN /\ crossed \in BOOLEAN
    /\ starter \in [Callers -> {"idle", "swapped", "stored"}]
    /\ mainQueue \in Seq(Blocks) /\ current \in 0..MaxCaptures
    /\ capture \in [CaptureIds -> CaptureState]
    /\ handling \in [Threads -> EventState]

Queued(task) == \E i \in 1..Len(mainQueue) : mainQueue[i] = task
Starts == (\E t \in Callers : starter[t] # "idle") \/ Queued(<<"start">>)
Flagged == \E h \in Threads : handling[h].step = "flag"
Owes == \E c \in CaptureIds : capture[c].owed > 0

\* EndUnderWay, by these names.
Ending ==
    \/ \E h \in Threads : handling[h].step # "none"
    \/ \E c \in CaptureIds : capture[c].starting
    \/ Owes \/ Queued(<<"clear">>)

\* Only the active capture works, and an event that is over left nothing.
OneCapture ==
    /\ \A c \in CaptureIds : capture[c].at \in {"asking", "running", "broken"} => c = current
    /\ \A h \in Threads : handling[h].step = "none" => handling[h] = NoEvent

\* An accepted start is the only one, and finds nothing else under way.
StartsAlone ==
    /\ Starts => active /\ current = 0 /\ ~Ending
    /\ \A t, u \in Callers : starter[t] # "idle" /\ starter[u] # "idle" => t = u
    /\ \A i, j \in 1..Len(mainQueue) :
          mainQueue[i] = <<"start">> /\ mainQueue[j] = <<"start">> => i = j
    /\ Queued(<<"start">>) => \A t \in Callers : starter[t] = "idle"

\* A capture outlives the flag, and the flag a capture, only on the way to the
\* other's end; the handle comes after the flag, and goes after it.
EndsComplete ==
    /\ current # 0 /\ ~active =>
          (\E h \in Threads : handling[h].step = "app") \/ Queued(<<"clear">>)
    /\ active /\ current = 0 => Starts \/ Owes \/ Flagged
    /\ Queued(<<"clear">>) => ~active \/ Owes \/ Flagged
    /\ \A c \in CaptureIds : capture[c].at = "running" /\ capture[c].stopping =>
          ~active \/ Owes \/ Flagged
    /\ active => app \/ \E t \in Callers : starter[t] = "swapped"
    /\ \A h \in Threads : handling[h].step = "app" => ~active
    /\ \A h \in Threads : handling[h].step # "none" => handling[h].then \in {"nil", "clear"}

CaptureInvariant ==
    /\ CaptureTyped /\ OneCapture
    /\ ~crossed => StartsAlone /\ EndsComplete

LEMMA EndsByName ==
    ASSUME CaptureTyped, OneCapture
    PROVE  EndUnderWay <=> Ending
<1>1. DOMAIN mainQueue = 1..Len(mainQueue)
  BY LenProperties DEF CaptureTyped
<1>2. \A h \in Threads : handling[h] # NoEvent <=> handling[h].step # "none"
  BY DEF OneCapture, NoEvent
<1> QED
  BY <1>1, <1>2 DEF EndUnderWay, Ending, Queued, Owes

LEMMA CaptureStart == CaptureInit => CaptureInvariant
<1> SUFFICES ASSUME CaptureInit PROVE CaptureInvariant
  OBVIOUS
<1>1. NoCapture \in CaptureState /\ NoEvent \in EventState
  BY DEF NoCapture, CaptureState, NoEvent, EventState
<1>2. mainQueue \in Seq(Blocks) /\ Len(mainQueue) = 0
  BY EmptySeq DEF CaptureInit
<1>3. CaptureTyped
  <2>1. current \in 0..MaxCaptures
    BY CaptureAssumption DEF CaptureInit
  <2>2. capture \in [CaptureIds -> CaptureState] /\ handling \in [Threads -> EventState]
    BY <1>1 DEF CaptureInit
  <2>3. /\ active \in BOOLEAN /\ app \in BOOLEAN /\ crossed \in BOOLEAN
        /\ starter \in [Callers -> {"idle", "swapped", "stored"}]
    BY DEF CaptureInit
  <2> QED
    BY <1>2, <2>1, <2>2, <2>3 DEF CaptureTyped
<1>4. OneCapture
  BY DEF OneCapture, CaptureInit, NoCapture, NoEvent
<1>5. ~Starts /\ \A b : ~Queued(b)
  BY <1>2 DEF Starts, Queued, CaptureInit
<1>6. StartsAlone
  BY <1>2, <1>5 DEF StartsAlone, CaptureInit
<1>7. EndsComplete
  BY <1>5 DEF EndsComplete, CaptureInit, NoCapture, NoEvent
<1> QED
  BY <1>3, <1>4, <1>6, <1>7 DEF CaptureInvariant

-----------------------------------------------------------------------------
\* The queue.
LEMMA QueueGrows ==
    ASSUME CaptureTyped, NEW b \in Blocks, mainQueue' = Append(mainQueue, b)
    PROVE  /\ mainQueue' \in Seq(Blocks)
           /\ \A x : Queued(x)' <=> Queued(x) \/ x = b
           /\ \A i \in 1..Len(mainQueue') :
                 \/ i \in 1..Len(mainQueue) /\ mainQueue'[i] = mainQueue[i]
                 \/ i = Len(mainQueue) + 1 /\ mainQueue'[i] = b
<1>1. /\ mainQueue' \in Seq(Blocks) /\ Len(mainQueue') = Len(mainQueue) + 1
      /\ Len(mainQueue) \in Nat /\ mainQueue'[Len(mainQueue) + 1] = b
      /\ \A i \in 1..Len(mainQueue) : mainQueue'[i] = mainQueue[i]
  BY AppendProperties, LenProperties DEF CaptureTyped
<1>2. \A i \in 1..Len(mainQueue') : i \in 1..Len(mainQueue) \/ i = Len(mainQueue) + 1
  BY <1>1
<1>3. \A i \in 1..Len(mainQueue) : i \in 1..Len(mainQueue')
  BY <1>1
<1>4. Len(mainQueue) + 1 \in 1..Len(mainQueue')
  BY <1>1
<1> QED
  BY <1>1, <1>2, <1>3, <1>4 DEF Queued

LEMMA QueueShrinks ==
    ASSUME CaptureTyped, NEW b, Block(b)
    PROVE  /\ mainQueue' \in Seq(Blocks) /\ b \in Blocks /\ Queued(b)
           /\ \A x : Queued(x)' => Queued(x)
           /\ \A x : Queued(x) /\ x # b => Queued(x)'
           /\ (\A i, j \in 1..Len(mainQueue) : mainQueue[i] = b /\ mainQueue[j] = b => i = j)
                 => ~Queued(b)'
           /\ (\A i, j \in 1..Len(mainQueue) :
                  mainQueue[i] = <<"start">> /\ mainQueue[j] = <<"start">> => i = j)
                 => \A i, j \in 1..Len(mainQueue') :
                       mainQueue'[i] = <<"start">> /\ mainQueue'[j] = <<"start">> => i = j
<1>1. mainQueue \in Seq(Blocks) /\ mainQueue # <<>> /\ mainQueue' = Tail(mainQueue)
      /\ Head(mainQueue) = b
  BY DEF CaptureTyped, Block
<1>2. /\ mainQueue' \in Seq(Blocks) /\ Len(mainQueue') = Len(mainQueue) - 1
      /\ Len(mainQueue) \in Nat \ {0} /\ mainQueue[1] = b
      /\ \A i \in 1..Len(mainQueue') : mainQueue'[i] = mainQueue[i + 1]
  BY <1>1, HeadTailProperties, EmptySeq
<1>3. \A i \in 1..Len(mainQueue') : i + 1 \in 1..Len(mainQueue) /\ i + 1 # 1
  BY <1>2
<1>4. \A i \in 1..Len(mainQueue) : i = 1 \/ (i - 1 \in 1..Len(mainQueue') /\ (i - 1) + 1 = i)
  BY <1>2
<1>5. 1 \in 1..Len(mainQueue)
  BY <1>2
<1>6. b \in Blocks
  BY <1>1, <1>2, <1>5, ElementOfSeq
<1>7. \A x : Queued(x) /\ x # b => Queued(x)'
  <2> SUFFICES ASSUME NEW x, Queued(x), x # b PROVE Queued(x)'
    OBVIOUS
  <2>1. PICK i \in 1..Len(mainQueue) : mainQueue[i] = x
    BY DEF Queued
  <2>2. i - 1 \in 1..Len(mainQueue') /\ mainQueue'[i - 1] = x
    BY <1>2, <1>4, <2>1
  <2> QED
    BY <2>2 DEF Queued
<1>8. \A i, j \in 1..Len(mainQueue') : i + 1 = j + 1 => i = j
  BY <1>2
<1>9. \A x : Queued(x)' => Queued(x)
  BY <1>2, <1>3 DEF Queued
<1>10. Queued(b)
  BY <1>2, <1>5 DEF Queued
<1>11. ASSUME \A i, j \in 1..Len(mainQueue) : mainQueue[i] = b /\ mainQueue[j] = b => i = j
       PROVE  ~Queued(b)'
  <2> SUFFICES ASSUME NEW i \in 1..Len(mainQueue'), mainQueue'[i] = b PROVE FALSE
    BY DEF Queued
  <2> QED
    BY <1>2, <1>3, <1>5, <1>11
<1>12. ASSUME \A i, j \in 1..Len(mainQueue) :
                 mainQueue[i] = <<"start">> /\ mainQueue[j] = <<"start">> => i = j,
              NEW i \in 1..Len(mainQueue'), NEW j \in 1..Len(mainQueue'),
              mainQueue'[i] = <<"start">>, mainQueue'[j] = <<"start">>
       PROVE  i = j
  BY <1>2, <1>3, <1>8, <1>12
<1> QED
  BY <1>2, <1>6, <1>7, <1>9, <1>10, <1>11, <1>12

LEMMA BlocksDiffer == <<"start">> # <<"stop">> /\ <<"start">> # <<"clear">> /\ <<"stop">> # <<"clear">>
OBVIOUS

LEMMA NobodyStarts == ASSUME ~Starts PROVE StartsAlone
BY DEF Starts, StartsAlone, Queued

-----------------------------------------------------------------------------
\* The requests.
LEMMA RequestSteps ==
    ASSUME CaptureInvariant, NEW t \in Callers, StartCapture(t) \/ StoreApp(t) \/ NativeStart(t)
    PROVE  CaptureInvariant'
<1>1. /\ CaptureTyped /\ OneCapture
      /\ starter \in [Callers -> {"idle", "swapped", "stored"}] /\ active \in BOOLEAN
      /\ crossed \in BOOLEAN
  BY DEF CaptureInvariant, CaptureTyped
<1>2. CASE StartCapture(t)
  <2>1. /\ ~active /\ active' /\ starter' = [starter EXCEPT ![t] = "swapped"]
        /\ UNCHANGED <<app, mainQueue, current, capture, handling, stops>>
    BY <1>2 DEF StartCapture
  <2>2. crossed' = (crossed \/ EndUnderWay)
    BY <1>2 DEF StartCapture
  <2>3. CaptureTyped' /\ OneCapture'
    BY <1>1, <2>1, <2>2 DEF CaptureTyped, OneCapture
  <2>4. ASSUME ~crossed' PROVE StartsAlone' /\ EndsComplete'
    <3>1. StartsAlone /\ EndsComplete /\ ~Ending
      BY <1>1, <2>2, <2>4, EndsByName DEF CaptureInvariant
    <3>2. ~Starts /\ current = 0
      BY <2>1, <3>1 DEF StartsAlone, EndsComplete, Ending
    <3>3. starter'[t] = "swapped" /\ \A u \in Callers \ {t} : starter'[u] = "idle"
      BY <1>1, <2>1, <3>2 DEF Starts
    <3>4. ~Queued(<<"start">>)' /\ ~Ending' /\ \A i \in 1..Len(mainQueue') : mainQueue'[i] # <<"start">>
      BY <2>1, <3>1, <3>2 DEF Starts, Queued, Ending, Owes
    <3>5. StartsAlone'
      BY <2>1, <3>2, <3>3, <3>4 DEF StartsAlone
    <3>6. \A c \in CaptureIds : capture[c].at # "running"
      BY <1>1, <3>2, CaptureAssumption DEF OneCapture, CaptureIds
    <3>7. EndsComplete'
      BY <2>1, <3>1, <3>2, <3>3, <3>4, <3>6 DEF EndsComplete, Ending, Starts
    <3> QED
      BY <3>5, <3>7
  <2> QED
    BY <2>3, <2>4 DEF CaptureInvariant
<1>3. CASE StoreApp(t)
  <2>1. /\ starter[t] = "swapped" /\ app' = TRUE /\ starter' = [starter EXCEPT ![t] = "stored"]
        /\ UNCHANGED <<active, mainQueue, current, capture, handling, stops, crossed>>
    BY <1>3 DEF StoreApp
  <2>2. CaptureTyped' /\ OneCapture'
    BY <1>1, <2>1 DEF CaptureTyped, OneCapture
  <2>3. \A u \in Callers : starter'[u] = "idle" <=> starter[u] = "idle"
    BY <1>1, <2>1
  <2>4. Starts' <=> Starts
    BY <2>1, <2>3 DEF Starts, Queued
  <2>5. ASSUME ~crossed' PROVE StartsAlone' /\ EndsComplete'
    <3>1. StartsAlone /\ EndsComplete
      BY <2>1, <2>5 DEF CaptureInvariant
    <3>2. StartsAlone'
      BY <2>1, <2>3, <2>4, <3>1 DEF StartsAlone, Queued, Ending, Owes
    <3>3. EndsComplete'
      BY <2>1, <2>4, <3>1 DEF EndsComplete, Owes, Flagged, Queued
    <3> QED
      BY <3>2, <3>3
  <2> QED
    BY <2>2, <2>5 DEF CaptureInvariant
<1>4. CASE NativeStart(t)
  <2>1. /\ starter[t] = "stored" /\ mainQueue' = Append(mainQueue, <<"start">>)
        /\ starter' = [starter EXCEPT ![t] = "idle"]
        /\ UNCHANGED <<active, app, current, capture, handling, stops, crossed>>
    BY <1>4 DEF NativeStart
  <2>2. /\ mainQueue' \in Seq(Blocks)
        /\ \A x : Queued(x)' <=> Queued(x) \/ x = <<"start">>
        /\ \A i \in 1..Len(mainQueue') :
              \/ i \in 1..Len(mainQueue) /\ mainQueue'[i] = mainQueue[i]
              \/ i = Len(mainQueue) + 1 /\ mainQueue'[i] = <<"start">>
    <3>1. <<"start">> \in Blocks
      BY DEF Blocks
    <3> QED
      BY <1>1, <2>1, <3>1, QueueGrows
  <2>3. CaptureTyped' /\ OneCapture'
    BY <1>1, <2>1, <2>2 DEF CaptureTyped, OneCapture
  <2>4. ASSUME ~crossed' PROVE StartsAlone' /\ EndsComplete'
    <3>1. StartsAlone /\ EndsComplete /\ Starts
      BY <2>1, <2>4 DEF CaptureInvariant, Starts
    <3>2. /\ ~Queued(<<"start">>) /\ \A u \in Callers : starter'[u] = "idle"
          /\ active /\ current = 0 /\ ~Ending
      BY <1>1, <2>1, <3>1 DEF StartsAlone
    <3>3. Queued(<<"clear">>)' <=> Queued(<<"clear">>)
      BY <2>2, BlocksDiffer
    <3>4. ~Ending' /\ Starts'
      BY <2>1, <2>2, <3>2, <3>3 DEF Ending, Owes, Starts
    <3>5. \A i \in 1..Len(mainQueue) : mainQueue[i] # <<"start">>
      BY <3>2 DEF Queued
    <3>6. StartsAlone'
      BY <2>1, <2>2, <3>2, <3>4, <3>5 DEF StartsAlone
    <3>7. app /\ \A c \in CaptureIds : capture[c].at # "running"
      BY <1>1, <2>1, <3>1, <3>2, CaptureAssumption DEF EndsComplete, StartsAlone, OneCapture, CaptureIds
    <3>8. EndsComplete'
      BY <2>1, <3>1, <3>2, <3>3, <3>4, <3>7 DEF EndsComplete, Ending
    <3> QED
      BY <3>6, <3>8
  <2> QED
    BY <2>3, <2>4 DEF CaptureInvariant
<1> QED
  BY <1>2, <1>3, <1>4

LEMMA StopIsAsked ==
    ASSUME CaptureInvariant, NativeStop
    PROVE  CaptureInvariant'
<1>1. CaptureTyped /\ OneCapture
  BY DEF CaptureInvariant
<1>2. /\ mainQueue' = Append(mainQueue, <<"stop">>) /\ <<"stop">> \in Blocks
      /\ UNCHANGED <<active, app, starter, current, capture, handling, crossed>>
  BY DEF NativeStop, Blocks
<1>3. /\ mainQueue' \in Seq(Blocks)
      /\ \A x : Queued(x)' <=> Queued(x) \/ x = <<"stop">>
      /\ \A i \in 1..Len(mainQueue') :
            \/ i \in 1..Len(mainQueue) /\ mainQueue'[i] = mainQueue[i]
            \/ i = Len(mainQueue) + 1 /\ mainQueue'[i] = <<"stop">>
  BY <1>1, <1>2, QueueGrows
<1>4. (Queued(<<"clear">>)' <=> Queued(<<"clear">>)) /\ (Queued(<<"start">>)' <=> Queued(<<"start">>))
  BY <1>3, BlocksDiffer
<1>5. CaptureTyped' /\ OneCapture'
  BY <1>1, <1>2, <1>3 DEF CaptureTyped, OneCapture
<1>6. ASSUME ~crossed' PROVE StartsAlone' /\ EndsComplete'
  <2>1. StartsAlone /\ EndsComplete
    BY <1>2, <1>6 DEF CaptureInvariant
  <2>2. (Starts' <=> Starts) /\ (Ending' <=> Ending)
    BY <1>2, <1>4 DEF Starts, Ending, Owes
  <2>3. StartsAlone'
    <3>1. ASSUME NEW i \in 1..Len(mainQueue'), NEW j \in 1..Len(mainQueue'),
                 mainQueue'[i] = <<"start">>, mainQueue'[j] = <<"start">>
          PROVE  i = j
      <4>1. /\ i \in 1..Len(mainQueue) /\ mainQueue[i] = <<"start">>
            /\ j \in 1..Len(mainQueue) /\ mainQueue[j] = <<"start">>
        BY <1>3, <3>1, BlocksDiffer
      <4> QED
        BY <2>1, <4>1 DEF StartsAlone
    <3> QED
      BY <1>2, <1>4, <2>1, <2>2, <3>1 DEF StartsAlone
  <2>4. EndsComplete'
    BY <1>2, <1>4, <2>1, <2>2 DEF EndsComplete, Owes, Flagged
  <2> QED
    BY <2>3, <2>4
<1> QED
  BY <1>5, <1>6 DEF CaptureInvariant

-----------------------------------------------------------------------------
\* An event is sent on h.
LEMMA Emitted ==
    ASSUME CaptureTyped, NEW h \in Threads, NEW then \in {"nothing", "nil", "clear"}, Emit(h, then)
    PROVE  /\ handling' \in [Threads -> EventState]
           /\ handling'[h].step = "flag" /\ handling'[h].then = then
           /\ \A k \in Threads \ {h} : handling'[k] = handling[k]
           /\ Flagged'
<1>1. Event(then) \in EventState /\ Event(then).step = "flag" /\ Event(then).then = then
  BY DEF Event, EventState
<1>2. handling' = [handling EXCEPT ![h] = Event(then)] /\ handling \in [Threads -> EventState]
  BY DEF Emit, CaptureTyped
<1> QED
  BY <1>1, <1>2 DEF Flagged

\* One capture changes.
LEMMA CaptureChanges ==
    ASSUME CaptureTyped, NEW c \in CaptureIds, NEW s \in CaptureState,
           capture' = [capture EXCEPT ![c] = s]
    PROVE  /\ capture' \in [CaptureIds -> CaptureState] /\ capture'[c] = s
           /\ \A d \in CaptureIds \ {c} : capture'[d] = capture[d]
BY DEF CaptureTyped

\* While a start is on its way nothing else moves.
LEMMA NothingElseMoves ==
    ASSUME CaptureInvariant, ~crossed, Starts
    PROVE  /\ current = 0 /\ active
           /\ \A h \in Threads : handling[h].step = "none"
           /\ \A c \in CaptureIds : /\ ~capture[c].starting /\ capture[c].owed = 0
                                    /\ capture[c].at \notin {"asking", "running", "broken"}
           /\ ~Queued(<<"clear">>)
<1>1. StartsAlone /\ OneCapture /\ CaptureTyped
  BY DEF CaptureInvariant
<1>2. current = 0 /\ active /\ ~Ending
  BY <1>1 DEF StartsAlone
<1>3. \A c \in CaptureIds : capture[c].at \notin {"asking", "running", "broken"}
  BY <1>1, <1>2, CaptureAssumption DEF OneCapture, CaptureIds
<1>4. \A c \in CaptureIds : capture[c].owed \in Nat
  BY <1>1 DEF CaptureTyped, CaptureState
<1> QED
  BY <1>2, <1>3, <1>4 DEF Ending, Owes

LEMMA StartRuns ==
    ASSUME CaptureInvariant, RunStart
    PROVE  CaptureInvariant'
<1>1. /\ CaptureTyped /\ OneCapture /\ Block(<<"start">>)
      /\ UNCHANGED <<active, app, starter, crossed>>
  BY DEF CaptureInvariant, RunStart, Block
<1>2. /\ mainQueue' \in Seq(Blocks) /\ Queued(<<"start">>)
      /\ Queued(<<"clear">>)' <=> Queued(<<"clear">>)
      /\ Main \in Threads
      /\ StartsAlone => ~Queued(<<"start">>)'
  BY <1>1, QueueShrinks, BlocksDiffer DEF Threads, StartsAlone
<1>3. CASE current # 0 /\ Emit(Main, "nothing") /\ UNCHANGED <<current, capture>>
  <2>1. CaptureTyped' /\ OneCapture'
    BY <1>1, <1>2, <1>3, Emitted DEF CaptureTyped, OneCapture
  <2>2. crossed
    BY <1>2, <1>3, NothingElseMoves DEF Starts
  <2> QED
    BY <1>1, <2>1, <2>2 DEF CaptureInvariant
<1>4. ASSUME current = 0, NEW c \in Unused, current' = c,
             \/ Emit(Main, "nil") /\ capture' = [capture EXCEPT ![c].at = "ended"]
             \/ capture' = [capture EXCEPT ![c].at = "asking"] /\ UNCHANGED handling
      PROVE  CaptureInvariant'
  <2>1. c \in CaptureIds /\ c # 0 /\ capture[c] \in CaptureState /\ current' \in 0..MaxCaptures
    BY <1>1, <1>4, CaptureAssumption DEF Unused, CaptureIds, CaptureTyped
  <2>2. PICK at \in {"ended", "asking"} : /\ capture' = [capture EXCEPT ![c].at = at]
                                          /\ \/ Emit(Main, "nil")
                                             \/ at = "asking" /\ UNCHANGED handling
    BY <1>4
  <2> DEFINE s == [capture[c] EXCEPT !.at = at]
  <2>3. /\ s \in CaptureState /\ s.at = at /\ s.starting = capture[c].starting
        /\ s.owed = capture[c].owed
    BY <2>1 DEF CaptureState
  <2>4. capture' = [capture EXCEPT ![c] = s]
    BY <1>1, <2>2 DEF CaptureTyped
  <2> HIDE DEF s
  <2>5. /\ capture' \in [CaptureIds -> CaptureState] /\ capture'[c] = s
        /\ \A d \in CaptureIds \ {c} : capture'[d] = capture[d]
    BY <1>1, <2>1, <2>3, <2>4, CaptureChanges
  <2>6. /\ handling' \in [Threads -> EventState]
        /\ \A h \in Threads : \/ handling'[h] = handling[h]
                              \/ handling'[h].step = "flag" /\ handling'[h].then = "nil"
    BY <1>1, <1>2, <2>2, Emitted DEF CaptureTyped
  <2>7. CaptureTyped'
    BY <1>1, <1>2, <2>1, <2>5, <2>6 DEF CaptureTyped
  <2>8. OneCapture'
    <3>1. \A d \in CaptureIds : capture[d].at \notin {"asking", "running", "broken"}
      BY <1>1, <1>4, CaptureAssumption DEF OneCapture, CaptureIds
    <3> QED
      BY <1>1, <1>4, <2>5, <2>6, <3>1 DEF OneCapture
  <2>9. ASSUME ~crossed' PROVE StartsAlone' /\ EndsComplete'
    <3>1. StartsAlone /\ EndsComplete /\ Starts /\ ~crossed
      BY <1>1, <1>2, <2>9 DEF CaptureInvariant, Starts
    <3>2. /\ active /\ \A h \in Threads : handling[h].step = "none"
          /\ ~Queued(<<"clear">>)
          /\ \A d \in CaptureIds : capture[d].at \notin {"asking", "running", "broken"}
      BY <3>1, NothingElseMoves
    <3>3. ~Starts'
      BY <1>1, <1>2, <3>1 DEF StartsAlone, Starts
    <3>4. app
      BY <1>2, <3>1, <3>2 DEF StartsAlone, EndsComplete
    <3>5. \A d \in CaptureIds : capture'[d].at # "running"
      BY <2>3, <2>5, <3>2
    <3>6. EndsComplete'
      BY <1>1, <1>2, <1>4, <2>1, <2>6, <3>2, <3>4, <3>5 DEF EndsComplete
    <3> QED
      BY <3>3, <3>6, NobodyStarts DEF Starts, StartsAlone, Queued
  <2> QED
    BY <2>7, <2>8, <2>9 DEF CaptureInvariant
<1> QED
  BY <1>3, <1>4 DEF RunStart

\* The captures in which one event or answer changes one of them: what is left
\* to show when no start is on its way.
LEMMA CaptureSettles ==
    ASSUME CaptureInvariant, CaptureTyped', OneCapture', UNCHANGED <<starter, crossed>>,
           Queued(<<"start">>)' => Queued(<<"start">>),
           ~crossed => ~Starts,
           ~crossed /\ EndsComplete => EndsComplete'
    PROVE  CaptureInvariant'
<1>1. ASSUME ~crossed' PROVE StartsAlone' /\ EndsComplete'
  <2>1. ~Starts' /\ EndsComplete'
    BY <1>1 DEF CaptureInvariant, Starts
  <2>2. StartsAlone'
    BY <2>1 DEF Starts, StartsAlone, Queued
  <2> QED
    BY <2>1, <2>2
<1> QED
  BY <1>1 DEF CaptureInvariant

LEMMA ClearRuns ==
    ASSUME CaptureInvariant, RunClear
    PROVE  CaptureInvariant'
<1>1. /\ CaptureTyped /\ OneCapture /\ Block(<<"clear">>) /\ current' = 0
      /\ UNCHANGED <<active, app, starter, crossed, handling>>
      /\ capture' = IF current = 0 THEN capture ELSE [capture EXCEPT ![current].at = "ended"]
  BY DEF CaptureInvariant, RunClear, Block
<1>2. /\ mainQueue' \in Seq(Blocks) /\ Queued(<<"clear">>)
      /\ \A x : Queued(x)' => Queued(x)
  BY <1>1, QueueShrinks
<1>3. current \in 0..MaxCaptures /\ (current # 0 => current \in CaptureIds) /\ 0 \in 0..MaxCaptures
  BY <1>1, CaptureAssumption DEF CaptureTyped, CaptureIds
<1>4. /\ capture' \in [CaptureIds -> CaptureState]
      /\ \A c \in CaptureIds : /\ capture'[c].owed = capture[c].owed
                               /\ capture'[c].at \notin {"asking", "running", "broken"}
  <2>1. CASE current = 0
    BY <1>1, <1>3, <2>1, CaptureAssumption DEF CaptureTyped, OneCapture, CaptureIds
  <2>2. CASE current # 0
    <3> DEFINE s == [capture[current] EXCEPT !.at = "ended"]
    <3>1. current \in CaptureIds /\ capture[current] \in CaptureState
      BY <1>1, <1>3, <2>2 DEF CaptureTyped
    <3>2. s \in CaptureState /\ s.at = "ended" /\ s.owed = capture[current].owed
      BY <3>1 DEF CaptureState
    <3>3. capture' = [capture EXCEPT ![current] = s]
      BY <1>1, <2>2, <3>1 DEF CaptureTyped
    <3> HIDE DEF s
    <3>4. /\ capture' \in [CaptureIds -> CaptureState] /\ capture'[current] = s
          /\ \A d \in CaptureIds \ {current} : capture'[d] = capture[d]
      BY <1>1, <3>1, <3>2, <3>3, CaptureChanges
    <3> QED
      BY <1>1, <3>2, <3>4 DEF OneCapture
  <2> QED
    BY <2>1, <2>2
<1>5. CaptureTyped'
  BY <1>1, <1>2, <1>3, <1>4 DEF CaptureTyped
<1>6. OneCapture'
  BY <1>1, <1>4 DEF OneCapture
<1>7. ~crossed => ~Starts
  BY <1>2, NothingElseMoves
<1>8. EndsComplete => EndsComplete'
  BY <1>1, <1>2, <1>4 DEF EndsComplete, Owes, Flagged
<1> QED
  BY <1>1, <1>2, <1>5, <1>6, <1>7, <1>8, CaptureSettles

LEMMA StopRuns ==
    ASSUME CaptureInvariant, RunStop
    PROVE  CaptureInvariant'
<1>1. /\ CaptureTyped /\ OneCapture /\ Block(<<"stop">>)
      /\ UNCHANGED <<active, app, starter, crossed, current>>
  BY DEF CaptureInvariant, RunStop, Block
<1>2. /\ mainQueue' \in Seq(Blocks)
      /\ \A x : Queued(x)' => Queued(x)
      /\ Queued(<<"clear">>)' <=> Queued(<<"clear">>)
      /\ Queued(<<"start">>)' <=> Queued(<<"start">>)
      /\ Main \in Threads
  BY <1>1, QueueShrinks, BlocksDiffer DEF Threads
<1>3. current \in 0..MaxCaptures /\ (current # 0 => current \in CaptureIds)
  BY <1>1, CaptureAssumption DEF CaptureTyped, CaptureIds
<1>4. CASE current = 0 /\ UNCHANGED <<capture, handling>>
  <2>1. CaptureTyped' /\ OneCapture'
    BY <1>1, <1>2, <1>4 DEF CaptureTyped, OneCapture
  <2>2. ASSUME ~crossed' PROVE StartsAlone' /\ EndsComplete'
    <3>1. StartsAlone /\ EndsComplete
      BY <1>1, <2>2 DEF CaptureInvariant
    <3>2. (Starts' <=> Starts) /\ (Ending' <=> Ending)
      BY <1>1, <1>2, <1>4 DEF Starts, Ending, Owes
    <3>3. \A i, j \in 1..Len(mainQueue') :
             mainQueue'[i] = <<"start">> /\ mainQueue'[j] = <<"start">> => i = j
      BY <1>1, <3>1, QueueShrinks DEF StartsAlone
    <3>4. StartsAlone'
      BY <1>1, <1>2, <1>4, <3>1, <3>2, <3>3 DEF StartsAlone
    <3>5. EndsComplete'
      BY <1>1, <1>2, <1>4, <3>1, <3>2 DEF EndsComplete, Owes, Flagged
    <3> QED
      BY <3>4, <3>5
  <2> QED
    BY <2>1, <2>2 DEF CaptureInvariant
<1>5. CASE current # 0
  <2>1. current \in CaptureIds /\ capture[current] \in CaptureState /\ capture[current].owed \in Nat
    BY <1>1, <1>3, <1>5 DEF CaptureTyped, CaptureState
  <2> DEFINE owes == capture[current].at \in {"running", "broken"}
             n == IF owes THEN capture[current].owed + 1 ELSE capture[current].owed
             s == [capture[current] EXCEPT !.stopping = TRUE, !.owed = n]
  <2>2. n \in Nat /\ (owes => n > 0) /\ (capture[current].owed > 0 => n > 0)
    BY <2>1
  <2>3. capture' = [capture EXCEPT ![current] = s]
    <3>1. CASE owes
      BY <1>1, <1>5, <3>1, <2>1 DEF RunStop, CaptureTyped, CaptureState
    <3>2. CASE ~owes
      <4>1. [capture[current] EXCEPT !.stopping = TRUE]
               = [capture[current] EXCEPT !.stopping = TRUE, !.owed = capture[current].owed]
        BY <2>1 DEF CaptureState
      <4> QED
        BY <1>1, <1>5, <3>2, <2>1, <4>1 DEF RunStop, CaptureTyped
    <3> QED
      BY <3>1, <3>2
  <2>4. (owes /\ UNCHANGED handling) \/ (~owes /\ Emit(Main, "nil"))
    BY <1>5 DEF RunStop
  <2> HIDE DEF n
  <2>5. s \in CaptureState /\ s.at = capture[current].at /\ s.owed = n
        /\ s.starting = capture[current].starting
    BY <2>1, <2>2 DEF CaptureState
  <2> HIDE DEF s
  <2>6. /\ capture' \in [CaptureIds -> CaptureState] /\ capture'[current] = s
        /\ \A d \in CaptureIds \ {current} : capture'[d] = capture[d]
    BY <1>1, <2>1, <2>3, <2>5, CaptureChanges
  <2>7. /\ handling' \in [Threads -> EventState]
        /\ \A h \in Threads : \/ handling'[h] = handling[h]
                              \/ handling'[h].step = "flag" /\ handling'[h].then = "nil"
        /\ owes \/ Flagged'
        /\ handling[Main].step = "none" \/ handling[Main] = NoEvent
    BY <1>1, <1>2, <2>4, Emitted DEF CaptureTyped, Block, MainIsFree
  <2>8. CaptureTyped'
    BY <1>1, <1>2, <2>6, <2>7 DEF CaptureTyped
  <2>9. OneCapture'
    BY <1>1, <2>1, <2>5, <2>6, <2>7 DEF OneCapture
  <2>10. ~crossed => ~Starts
    BY <1>5, NothingElseMoves
  <2>11. Owes => Owes'
    BY <2>1, <2>2, <2>5, <2>6 DEF Owes
  <2>12. Owes' \/ Flagged'
    BY <2>1, <2>2, <2>5, <2>6, <2>7 DEF Owes
  <2>13. \A h \in Threads : handling[h].step = "app" => handling'[h].step = "app"
    <3>1. handling[Main].step = "none"
      BY <2>7 DEF NoEvent
    <3> QED
      BY <1>1, <1>2, <2>4, <3>1, Emitted DEF CaptureTyped
  <2>14. EndsComplete => EndsComplete'
    BY <1>1, <1>2, <1>5, <2>7, <2>12, <2>13 DEF EndsComplete
  <2> QED
    BY <1>1, <1>2, <2>8, <2>9, <2>10, <2>14, CaptureSettles
<1> QED
  BY <1>4, <1>5 DEF RunStop

-----------------------------------------------------------------------------
\* The answers of ScreenCaptureKit.
LEMMA ContentSteps ==
    ASSUME CaptureInvariant, NEW c \in CaptureIds, ContentArrives(c)
    PROVE  CaptureInvariant'
<1>1. /\ CaptureTyped /\ OneCapture /\ capture[c] \in CaptureState /\ Main \in Threads
      /\ capture[c].at = "asking" /\ handling[Main].step = "none" /\ c = current
      /\ UNCHANGED <<active, app, starter, mainQueue, current, crossed>>
  BY DEF CaptureInvariant, CaptureTyped, ContentArrives, OneCapture, MainIsFree, NoEvent, Threads
<1> DEFINE ended == [capture[c] EXCEPT !.at = "ended"]
           running == [capture[c] EXCEPT !.at = "running", !.starting = TRUE]
<1>2. /\ ended \in CaptureState /\ ended.at = "ended" /\ ended.owed = capture[c].owed
      /\ running \in CaptureState /\ running.at = "running" /\ running.owed = capture[c].owed
      /\ running.stopping = capture[c].stopping
  BY <1>1 DEF CaptureState
<1>3. \/ capture' = [capture EXCEPT ![c] = ended] /\ (Emit(Main, "nil") \/ (capture[c].stopping /\ UNCHANGED handling))
      \/ capture' = [capture EXCEPT ![c] = running] /\ ~capture[c].stopping /\ UNCHANGED handling
  <2>1. CASE current # c \/ capture[c].stopping
    BY <1>1, <2>1 DEF ContentArrives
  <2>2. CASE ~(current # c \/ capture[c].stopping)
    <3>1. CASE Emit(Main, "nil") /\ capture' = [capture EXCEPT ![c].at = "ended"]
      <4>1. capture' = [capture EXCEPT ![c] = ended]
        BY <3>1
      <4> QED
        BY <3>1, <4>1
    <3>2. CASE /\ capture' = [capture EXCEPT ![c].at = "running", ![c].starting = TRUE]
               /\ UNCHANGED handling
      <4>1. capture \in [CaptureIds -> CaptureState]
        BY <1>1 DEF CaptureTyped
      <4>2. capture' = [capture EXCEPT ![c] = running]
        BY <1>1, <3>2, <4>1 DEF CaptureState
      <4> QED
        BY <2>2, <3>2, <4>2
    <3> QED
      BY <2>2, <3>1, <3>2 DEF ContentArrives
  <2> QED
    BY <2>1, <2>2
<1> HIDE DEF ended, running
<1>4. PICK s \in {ended, running} : capture' = [capture EXCEPT ![c] = s]
  BY <1>3
<1>5. /\ capture' \in [CaptureIds -> CaptureState] /\ capture'[c] = s
      /\ \A d \in CaptureIds \ {c} : capture'[d] = capture[d]
  BY <1>1, <1>2, <1>4, CaptureChanges
<1>6. /\ handling' \in [Threads -> EventState]
      /\ \A h \in Threads : \/ handling'[h] = handling[h]
                            \/ handling'[h].step = "flag" /\ handling'[h].then = "nil"
      /\ \A h \in Threads : handling[h].step # "none" => handling'[h] = handling[h]
  BY <1>1, <1>3, Emitted DEF CaptureTyped
<1>7. CaptureTyped' /\ OneCapture'
  BY <1>1, <1>5, <1>6 DEF CaptureTyped, OneCapture
<1>8. ~crossed => ~Starts
  BY <1>1, NothingElseMoves
<1>9. (Owes' <=> Owes) /\ (Flagged => Flagged') /\ \A x : Queued(x)' <=> Queued(x)
  BY <1>1, <1>2, <1>5, <1>6 DEF Owes, Flagged, Queued
<1>10. capture'[c].at = "running" => ~capture'[c].stopping
  BY <1>1, <1>2, <1>3, <1>5, CaptureChanges
<1>11. EndsComplete => EndsComplete'
  BY <1>1, <1>5, <1>6, <1>8, <1>9, <1>10 DEF EndsComplete, Starts
<1> QED
  BY <1>1, <1>7, <1>8, <1>9, <1>11, CaptureSettles

LEMMA AnswerSteps ==
    ASSUME CaptureInvariant, NEW c \in CaptureIds, StartAnswered(c) \/ StopAnswered(c)
    PROVE  CaptureInvariant'
<1>1. /\ CaptureTyped /\ OneCapture /\ capture[c] \in CaptureState /\ c \in Threads
      /\ capture[c].owed \in Nat /\ handling[c].step = "none"
      /\ UNCHANGED <<active, app, starter, mainQueue, current, crossed>>
  BY DEF CaptureInvariant, CaptureTyped, StartAnswered, StopAnswered, NoEvent, Threads, CaptureState
<1>2. PICK s \in CaptureState :
         /\ capture' = [capture EXCEPT ![c] = s]
         /\ s.at = capture[c].at /\ s.stopping = capture[c].stopping
         /\ s.owed = capture[c].owed \/ Emit(c, "clear")
         /\ UNCHANGED handling \/ Emit(c, "clear")
  <2>1. CASE StartAnswered(c)
    <3> DEFINE s == [capture[c] EXCEPT !.starting = FALSE]
    <3>1. s \in CaptureState /\ s.at = capture[c].at /\ s.stopping = capture[c].stopping
          /\ s.owed = capture[c].owed
      BY <1>1 DEF CaptureState
    <3>2. capture' = [capture EXCEPT ![c] = s] /\ (UNCHANGED handling \/ Emit(c, "clear"))
      BY <1>1, <2>1 DEF StartAnswered, CaptureTyped
    <3> HIDE DEF s
    <3> QED
      BY <3>1, <3>2
  <2>2. CASE StopAnswered(c)
    <3> DEFINE n == capture[c].owed - 1
               s == [capture[c] EXCEPT !.owed = n]
    <3>1. n \in Nat
      BY <1>1, <2>2 DEF StopAnswered
    <3>2. capture' = [capture EXCEPT ![c] = s] /\ Emit(c, "clear")
      BY <1>1, <2>2 DEF StopAnswered, CaptureTyped
    <3> HIDE DEF n
    <3>3. s \in CaptureState /\ s.at = capture[c].at /\ s.stopping = capture[c].stopping
      BY <1>1, <3>1 DEF CaptureState
    <3> HIDE DEF s
    <3> QED
      BY <3>2, <3>3
  <2> QED
    BY <2>1, <2>2
<1>3. /\ capture' \in [CaptureIds -> CaptureState] /\ capture'[c] = s
      /\ \A d \in CaptureIds \ {c} : capture'[d] = capture[d]
  BY <1>1, <1>2, CaptureChanges
<1>4. /\ handling' \in [Threads -> EventState]
      /\ \A h \in Threads : \/ handling'[h] = handling[h]
                            \/ handling'[h].step = "flag" /\ handling'[h].then = "clear"
      /\ \A h \in Threads : handling[h].step # "none" => handling'[h] = handling[h]
      /\ Emit(c, "clear") => Flagged'
  BY <1>1, <1>2, Emitted DEF CaptureTyped
<1>5. CaptureTyped' /\ OneCapture'
  BY <1>1, <1>2, <1>3, <1>4 DEF CaptureTyped, OneCapture
<1>6. ~crossed => ~Starts
  <2>1. capture[c].starting \/ capture[c].owed > 0
    BY DEF StartAnswered, StopAnswered
  <2> QED
    BY <1>1, <2>1, NothingElseMoves
<1>7. (Owes \/ Flagged => Owes' \/ Flagged') /\ \A x : Queued(x)' <=> Queued(x)
  BY <1>1, <1>2, <1>3, <1>4 DEF Owes, Flagged, Queued
<1>8. EndsComplete => EndsComplete'
  BY <1>1, <1>2, <1>3, <1>4, <1>7 DEF EndsComplete, Starts
<1> QED
  BY <1>1, <1>5, <1>6, <1>7, <1>8, CaptureSettles

LEMMA SystemStopsOne ==
    ASSUME CaptureInvariant, NEW c \in CaptureIds, SystemStops(c)
    PROVE  CaptureInvariant'
<1>1. /\ CaptureTyped /\ OneCapture /\ capture[c] \in CaptureState /\ c \in Threads
      /\ capture[c].at = "running" /\ handling[c].step = "none"
      /\ UNCHANGED <<active, app, starter, current, crossed>>
  BY DEF CaptureInvariant, CaptureTyped, SystemStops, NoEvent, Threads
<1> DEFINE s == [capture[c] EXCEPT !.at = "broken"]
<1>2. /\ s \in CaptureState /\ s.at = "broken" /\ s.owed = capture[c].owed
      /\ capture' = [capture EXCEPT ![c] = s]
  BY <1>1 DEF CaptureState, CaptureTyped, SystemStops
<1> HIDE DEF s
<1>3. /\ capture' \in [CaptureIds -> CaptureState] /\ capture'[c] = s
      /\ \A d \in CaptureIds \ {c} : capture'[d] = capture[d]
  BY <1>1, <1>2, CaptureChanges
<1>4. ~crossed => ~Starts
  BY <1>1, NothingElseMoves
<1>5. CASE capture[c].stopping
  <2>1. mainQueue' = Append(mainQueue, <<"clear">>) /\ UNCHANGED handling /\ <<"clear">> \in Blocks
    BY <1>5 DEF SystemStops, Blocks
  <2>2. mainQueue' \in Seq(Blocks) /\ \A x : Queued(x)' <=> Queued(x) \/ x = <<"clear">>
    BY <1>1, <2>1, QueueGrows
  <2>3. CaptureTyped' /\ OneCapture'
    BY <1>1, <1>2, <1>3, <2>1, <2>2 DEF CaptureTyped, OneCapture
  <2>4. (Owes' <=> Owes) /\ (Flagged' <=> Flagged) /\ Queued(<<"clear">>)'
        /\ (Queued(<<"start">>)' <=> Queued(<<"start">>))
    BY <1>2, <1>3, <2>1, <2>2, BlocksDiffer DEF Owes, Flagged
  <2>5. EndsComplete => EndsComplete'
    BY <1>1, <1>2, <1>3, <1>5, <2>1, <2>4 DEF EndsComplete, Starts
  <2> QED
    BY <1>1, <1>4, <2>3, <2>4, <2>5, CaptureSettles
<1>6. CASE ~capture[c].stopping
  <2>1. Emit(c, "clear") /\ UNCHANGED mainQueue
    BY <1>6 DEF SystemStops
  <2>2. /\ handling' \in [Threads -> EventState] /\ Flagged'
        /\ handling'[c].step = "flag" /\ handling'[c].then = "clear"
        /\ \A h \in Threads \ {c} : handling'[h] = handling[h]
    BY <1>1, <2>1, Emitted
  <2>3. CaptureTyped' /\ OneCapture'
    BY <1>1, <1>2, <1>3, <2>1, <2>2 DEF CaptureTyped, OneCapture
  <2>4. \A x : Queued(x)' <=> Queued(x)
    BY <2>1 DEF Queued
  <2>5. EndsComplete => EndsComplete'
    BY <1>1, <1>2, <1>3, <2>2, <2>4 DEF EndsComplete
  <2> QED
    BY <1>1, <1>4, <2>3, <2>4, <2>5, CaptureSettles
<1> QED
  BY <1>5, <1>6

-----------------------------------------------------------------------------
\* The handling of an event.
LEMMA FlagStored ==
    ASSUME CaptureInvariant, NEW h \in Threads, StoreFlag(h)
    PROVE  CaptureInvariant'
<1>1. /\ CaptureTyped /\ OneCapture /\ handling[h] \in EventState /\ handling[h].step = "flag"
      /\ active' = FALSE /\ handling' = [handling EXCEPT ![h].step = "app"]
      /\ UNCHANGED <<app, starter, mainQueue, current, capture, crossed>>
  BY DEF CaptureInvariant, CaptureTyped, StoreFlag
<1> DEFINE e == [handling[h] EXCEPT !.step = "app"]
<1>2. e \in EventState /\ e.step = "app" /\ e.then = handling[h].then
  BY <1>1 DEF EventState
<1>3. handling' = [handling EXCEPT ![h] = e]
  BY <1>1 DEF CaptureTyped
<1> HIDE DEF e
<1>4. /\ handling' \in [Threads -> EventState] /\ handling'[h] = e
      /\ \A k \in Threads \ {h} : handling'[k] = handling[k]
  BY <1>1, <1>2, <1>3 DEF CaptureTyped
<1>5. CaptureTyped' /\ OneCapture'
  BY <1>1, <1>2, <1>4 DEF CaptureTyped, OneCapture
<1>6. ~crossed => ~Starts
  BY <1>1, NothingElseMoves
<1>7. \A x : Queued(x)' <=> Queued(x)
  BY <1>1 DEF Queued
<1>8. EndsComplete => EndsComplete'
  BY <1>1, <1>2, <1>4 DEF EndsComplete
<1> QED
  BY <1>1, <1>5, <1>6, <1>7, <1>8, CaptureSettles

LEMMA AppForgotten ==
    ASSUME CaptureInvariant, NEW h \in Threads, ForgetApp(h)
    PROVE  CaptureInvariant'
<1>1. /\ CaptureTyped /\ OneCapture /\ handling[h] \in EventState /\ handling[h].step = "app"
      /\ app' = FALSE /\ handling' = [handling EXCEPT ![h] = NoEvent]
      /\ UNCHANGED <<active, starter, crossed>>
      /\ current \in 0..MaxCaptures /\ (current # 0 => current \in CaptureIds)
  BY CaptureAssumption DEF CaptureInvariant, CaptureTyped, ForgetApp, CaptureIds
<1>2. /\ handling' \in [Threads -> EventState] /\ handling'[h] = NoEvent
      /\ \A k \in Threads \ {h} : handling'[k] = handling[k]
      /\ NoEvent.step = "none"
  <2>1. NoEvent \in EventState /\ NoEvent.step = "none"
    BY DEF NoEvent, EventState
  <2> QED
    BY <1>1, <2>1 DEF CaptureTyped
<1>3. ~crossed => ~Starts
  BY <1>1, NothingElseMoves
<1>4. EndsComplete => ~active /\ handling[h].then \in {"nil", "clear"}
  BY <1>1 DEF EndsComplete
<1>5. CASE handling[h].then = "nil"
  <2>1. /\ current' = 0 /\ UNCHANGED mainQueue
        /\ capture' = IF current = 0 THEN capture ELSE [capture EXCEPT ![current].at = "ended"]
    BY <1>5 DEF ForgetApp
  <2>2. capture' \in [CaptureIds -> CaptureState]
        /\ \A c \in CaptureIds : capture'[c].at \notin {"asking", "running", "broken"}
    <3>1. CASE current = 0
      BY <1>1, <2>1, <3>1, CaptureAssumption DEF CaptureTyped, OneCapture, CaptureIds
    <3>2. CASE current # 0
      <4> DEFINE s == [capture[current] EXCEPT !.at = "ended"]
      <4>1. current \in CaptureIds /\ capture[current] \in CaptureState
        BY <1>1, <3>2 DEF CaptureTyped
      <4>2. s \in CaptureState /\ s.at = "ended"
        BY <4>1 DEF CaptureState
      <4>3. capture' = [capture EXCEPT ![current] = s]
        BY <1>1, <2>1, <3>2, <4>1 DEF CaptureTyped
      <4> HIDE DEF s
      <4>4. /\ capture' \in [CaptureIds -> CaptureState] /\ capture'[current] = s
            /\ \A d \in CaptureIds \ {current} : capture'[d] = capture[d]
        BY <1>1, <4>1, <4>2, <4>3, CaptureChanges
      <4> QED
        BY <1>1, <4>2, <4>4 DEF OneCapture
    <3> QED
      BY <3>1, <3>2
  <2>3. 0 \in 0..MaxCaptures
    BY CaptureAssumption
  <2>4. CaptureTyped' /\ OneCapture'
    BY <1>1, <1>2, <2>1, <2>2, <2>3 DEF CaptureTyped, OneCapture
  <2>5. \A x : Queued(x)' <=> Queued(x)
    BY <2>1 DEF Queued
  <2>6. EndsComplete => EndsComplete'
    BY <1>1, <1>2, <1>4, <2>1, <2>2 DEF EndsComplete
  <2> QED
    BY <1>1, <1>3, <2>4, <2>5, <2>6, CaptureSettles
<1>6. CASE handling[h].then # "nil"
  <2>1. UNCHANGED <<current, capture>>
    BY <1>6 DEF ForgetApp
  <2>2. CASE handling[h].then = "clear"
    <3>1. mainQueue' = Append(mainQueue, <<"clear">>) /\ <<"clear">> \in Blocks
      BY <2>2 DEF ForgetApp, Blocks
    <3>2. mainQueue' \in Seq(Blocks) /\ \A x : Queued(x)' <=> Queued(x) \/ x = <<"clear">>
      BY <1>1, <3>1, QueueGrows
    <3>3. CaptureTyped' /\ OneCapture'
      BY <1>1, <1>2, <2>1, <3>2 DEF CaptureTyped, OneCapture
    <3>4. Queued(<<"clear">>)' /\ (Queued(<<"start">>)' <=> Queued(<<"start">>))
      BY <3>2, BlocksDiffer
    <3>5. EndsComplete => EndsComplete'
      BY <1>1, <1>2, <1>4, <2>1, <3>4 DEF EndsComplete
    <3> QED
      BY <1>1, <1>3, <3>3, <3>4, <3>5, CaptureSettles
  <2>3. CASE handling[h].then # "clear"
    <3>1. UNCHANGED mainQueue
      BY <2>3 DEF ForgetApp
    <3>2. CaptureTyped' /\ OneCapture'
      BY <1>1, <1>2, <2>1, <3>1 DEF CaptureTyped, OneCapture
    <3> QED
      BY <1>1, <1>3, <1>4, <1>6, <2>3, <3>1, <3>2, CaptureSettles DEF Queued
  <2> QED
    BY <2>2, <2>3
<1> QED
  BY <1>5, <1>6

LEMMA CaptureStep ==
    ASSUME CaptureInvariant, [CaptureNext]_captureVars
    PROVE  CaptureInvariant'
<1>1. CASE UNCHANGED captureVars
  <2>1. UNCHANGED <<active, app, starter, mainQueue, current, capture, handling, crossed>>
    BY <1>1 DEF captureVars
  <2>2. CaptureTyped' /\ OneCapture' /\ (~crossed' => StartsAlone' /\ EndsComplete')
    <3>1. \A x : Queued(x)' <=> Queued(x)
      BY <2>1 DEF Queued
    <3>2. (Starts' <=> Starts) /\ (Owes' <=> Owes) /\ (Flagged' <=> Flagged) /\ (Ending' <=> Ending)
      BY <2>1, <3>1 DEF Starts, Owes, Flagged, Ending
    <3> QED
      BY <2>1, <3>1, <3>2 DEF CaptureInvariant, CaptureTyped, OneCapture, StartsAlone, EndsComplete
  <2> QED
    BY <2>2 DEF CaptureInvariant
<1> QED
  BY <1>1, RequestSteps, StopIsAsked, StartRuns, StopRuns, ClearRuns, ContentSteps, AnswerSteps,
     SystemStopsOne, FlagStored, AppForgotten DEF CaptureNext

\* When nothing is under way the page reads the truth: the app says that it
\* captures exactly when a capture exists, whatever was asked, answered and
\* broken in whichever order before (macos_audio_capture.rs:32, 117).
THEOREM CaptureStatusIsTrue == CaptureSpec => []CaptureIsReported
<1>1. CaptureInvariant => CaptureIsReported
  <2> SUFFICES ASSUME CaptureInvariant, Settled, ~crossed
               PROVE  (active <=> current # 0) /\ (active => app)
    BY DEF CaptureIsReported
  <2>1. StartsAlone /\ EndsComplete /\ CaptureTyped /\ OneCapture
    BY DEF CaptureInvariant
  <2>2. ~Ending
    BY <2>1, EndsByName DEF Settled
  <2>3. ~Starts
    <3>1. Len(mainQueue) = 0
      BY EmptySeq DEF Settled
    <3> QED
      BY <3>1 DEF Settled, Starts, Queued
  <2> QED
    BY <2>1, <2>2, <2>3 DEF EndsComplete, Ending, Flagged, Starts, Settled
<1> QED
  BY <1>1, CaptureStart, CaptureStep, PTL DEF CaptureSpec

-----------------------------------------------------------------------------
(* RealtimeLink: types.                                                    *)

TabState == [transport : 0..MaxTransports, opened : BOOLEAN, fallback : BOOLEAN,
             timer : BOOLEAN, strays : Nat, left : BOOLEAN]
EndState == [kind : {"grpc", "websocket"}, at : {"unused", "connecting", "open", "closed"}]
SpokenState == [said : 0..MaxSaid, pending : Payloads, chain : Seq(Payloads), waiting : Payloads]
CallState == [of : Transports, payload : Payloads,
              step : {"sent", "found", "accepted", "refused"}]
SessionState == {"none", "asked", "counted", "open", "ending", "ended", "leaked"}
HeardState == Transports \X (1..MaxSaid)

LinkTyped ==
    /\ tab \in TabState /\ transports \in [Transports -> EndState]
    /\ spoken \in [Transports -> SpokenState] /\ calls \subseteq CallState
    /\ sessions \in [Transports -> SessionState] /\ heard \in Seq(HeardState)
    /\ broken \subseteq Transports /\ doubled \in BOOLEAN

LEMMA LinkTypes == LinkTyped => LinkTypeOK
BY DEF LinkTyped, LinkTypeOK, TabState, EndState, SpokenState, CallState, SessionState, HeardState

LEMMA LinkTypesStart == LinkInit => LinkTyped
<1> SUFFICES ASSUME LinkInit PROVE LinkTyped
  OBVIOUS
<1>1. tab \in TabState
  BY LinkAssumption DEF LinkInit, TabState, NoTransport
<1>2. transports \in [Transports -> EndState] /\ sessions \in [Transports -> SessionState]
  BY DEF LinkInit, EndState, SessionState
<1>3. Unspoken \in SpokenState
  BY LinkAssumption DEF Unspoken, Nothing, SpokenState, Payloads
<1>4. calls \subseteq CallState /\ broken \subseteq Transports /\ doubled \in BOOLEAN
  BY DEF LinkInit
<1>5. heard \in Seq(HeardState)
  BY DEF LinkInit
<1>6. spoken \in [Transports -> SpokenState]
  BY <1>3 DEF LinkInit
<1> QED
  BY <1>1, <1>2, <1>4, <1>5, <1>6 DEF LinkTyped

LEMMA OpenedTyped ==
    ASSUME LinkTyped, NEW kind \in {"grpc", "websocket"}, NEW t \in Transports
    PROVE  /\ Opened(kind, t) \in [Transports -> EndState]
           /\ Opened(kind, t)[t] = [kind |-> kind, at |-> "connecting"]
           /\ \A u \in Transports \ {t} :
                 Opened(kind, t)[u] = IF u = tab.transport THEN [transports[u] EXCEPT !.at = "closed"]
                                      ELSE transports[u]
<1>1. \A u \in Transports : transports[u] \in EndState
  BY DEF LinkTyped
<1>2. [kind |-> kind, at |-> "connecting"] \in EndState
  BY DEF EndState
<1>3. \A u \in Transports : [transports[u] EXCEPT !.at = "closed"] \in EndState
  BY <1>1 DEF EndState
<1> QED
  BY <1>1, <1>2, <1>3 DEF Opened

\* What a reported close does to the page that hears of it, to its transports
\* and to the session it asks for.
LEMMA CloseTyped ==
    ASSUME LinkTyped, NEW t \in Transports, NEW times \in {1, 2}, CloseReported(t, times)
    PROVE  /\ tab' \in TabState /\ transports' \in [Transports -> EndState]
           /\ sessions' \in [Transports -> SessionState] /\ doubled' \in BOOLEAN
<1>1. /\ tab \in TabState /\ tab.strays \in Nat /\ doubled \in BOOLEAN
      /\ transports \in [Transports -> EndState] /\ sessions \in [Transports -> SessionState]
      /\ [transports[t] EXCEPT !.at = "closed"] \in EndState
  BY DEF LinkTyped, TabState, EndState
<1>2. CASE tab.transport # t
  BY <1>1, <1>2 DEF CloseReported
<1>3. CASE tab.transport = t /\ ~tab.opened /\ ~tab.fallback
  <2>1. PICK u \in Transports : /\ transports' = Opened("websocket", u)
                                /\ sessions' = [sessions EXCEPT ![u] = "asked"]
                                /\ tab' = [tab EXCEPT !.transport = u, !.fallback = TRUE]
    BY <1>3 DEF CloseReported, Unopened
  <2>2. u \in 0..MaxTransports
    BY LinkAssumption DEF Transports
  <2>3. tab' \in TabState
    BY <1>1, <2>1, <2>2 DEF TabState
  <2>4. sessions' \in [Transports -> SessionState]
    BY <1>1, <2>1 DEF SessionState
  <2>5. UNCHANGED doubled
    BY <1>3 DEF CloseReported
  <2> QED
    BY <1>1, <2>1, <2>3, <2>4, <2>5, OpenedTyped
<1>4. CASE tab.transport = t /\ (tab.opened \/ tab.fallback)
  <2> DEFINE n == tab.strays + (times - 1)
  <2>1. /\ tab' = [tab EXCEPT !.timer = TRUE, !.strays = n] /\ UNCHANGED sessions
        /\ transports' = [transports EXCEPT ![t].at = "closed"]
    BY <1>4 DEF CloseReported
  <2>2. n \in Nat
    BY <1>1
  <2> HIDE DEF n
  <2>3. tab' \in TabState
    BY <1>1, <2>1, <2>2 DEF TabState
  <2>4. doubled' \in BOOLEAN
    BY <1>4 DEF CloseReported
  <2> QED
    BY <1>1, <2>1, <2>3, <2>4
<1> QED
  BY <1>2, <1>3, <1>4

LEMMA ConnectTyped ==
    ASSUME LinkTyped, Connect
    PROVE  /\ tab' \in TabState /\ transports' \in [Transports -> EndState]
           /\ sessions' \in [Transports -> SessionState] /\ UNCHANGED doubled
<1>1. /\ tab \in TabState /\ tab.strays \in Nat /\ sessions \in [Transports -> SessionState]
  BY DEF LinkTyped, TabState
<1> DEFINE n == IF tab.strays = 0 THEN 0 ELSE tab.strays - 1
<1>2. PICK t \in Transports :
         /\ tab' = [tab EXCEPT !.transport = t, !.opened = FALSE, !.fallback = FALSE,
                               !.timer = FALSE, !.strays = n]
         /\ transports' = Opened("grpc", t) /\ sessions' = [sessions EXCEPT ![t] = "asked"]
  BY DEF Connect, Unopened
<1>3. n \in Nat /\ t \in 0..MaxTransports
  BY <1>1, LinkAssumption DEF Transports
<1> HIDE DEF n
<1>4. tab' \in TabState
  BY <1>1, <1>2, <1>3 DEF TabState
<1>5. sessions' \in [Transports -> SessionState]
  BY <1>1, <1>2 DEF SessionState
<1> QED
  BY <1>2, <1>4, <1>5, OpenedTyped DEF Connect

LEMMA Forgotten ==
    ASSUME LinkTyped, NEW t \in Transports
    PROVE  /\ Forget(t) \in [Transports -> SpokenState]
           /\ Forget(t)[t] = [spoken[t] EXCEPT !.pending = <<>>]
           /\ \A u \in Transports \ {t} : Forget(t)[u] = spoken[u]
<1>1. spoken \in [Transports -> SpokenState] /\ <<>> \in Payloads
  BY DEF LinkTyped, Payloads
<1>2. [spoken[t] EXCEPT !.pending = <<>>] \in SpokenState
  BY <1>1 DEF SpokenState
<1>3. Forget(t) = [spoken EXCEPT ![t] = [spoken[t] EXCEPT !.pending = <<>>]]
  BY <1>1 DEF Forget
<1> HIDE DEF Forget
<1> QED
  BY <1>1, <1>2, <1>3

LEMMA Enqueued ==
    ASSUME NEW s \in SpokenState, NEW payload \in Payloads
    PROVE  /\ Enqueue(s, payload) \in SpokenState
           /\ Enqueue(s, payload).said = s.said
           /\ Enqueue(s, payload).pending = s.pending
           /\ Enqueue(s, payload).waiting = s.waiting
           /\ Enqueue(s, payload).chain =
                 IF payload = Nothing THEN s.chain ELSE Append(s.chain, payload)
<1>1. Append(s.chain, payload) \in Seq(Payloads)
  BY DEF SpokenState
<1>2. CASE payload = Nothing
  BY <1>2 DEF Enqueue
<1>3. CASE payload # Nothing
  BY <1>1, <1>3 DEF Enqueue, SpokenState
<1> QED
  BY <1>2, <1>3

\* What the page says takes the next number.  It goes into the chain behind
\* the batch, or into the batch.
LEMMA Spoken ==
    ASSUME LinkTyped, NEW t \in Transports, Say(t)
    PROVE  LET s == spoken[t]  n == s.said + 1  batch == Append(s.pending, n)
           IN  /\ n \in 1..MaxSaid /\ batch \in Payloads
               /\ spoken' \in [Transports -> SpokenState]
               /\ \A u \in Transports \ {t} : spoken'[u] = spoken[u]
               /\ spoken'[t].said = n /\ spoken'[t].waiting = s.waiting
               /\ \/ /\ spoken'[t].pending = <<>>
                     /\ spoken'[t].chain =
                           IF s.pending = <<>> THEN Append(s.chain, <<n>>)
                           ELSE Append(Append(s.chain, s.pending), <<n>>)
                  \/ spoken'[t].pending = <<>> /\ spoken'[t].chain = Append(s.chain, batch)
                  \/ spoken'[t].pending = batch /\ spoken'[t].chain = s.chain
<1> DEFINE s == spoken[t]
           n == s.said + 1
           batch == Append(s.pending, n)
<1>1. /\ spoken \in [Transports -> SpokenState] /\ s \in SpokenState
      /\ s.said \in Nat /\ s.said < MaxSaid /\ <<>> \in Payloads
      /\ s.pending \in Payloads
  BY LinkAssumption DEF LinkTyped, SpokenState, Say, Payloads
<1>2. n \in 1..MaxSaid /\ n \in 0..MaxSaid
  BY <1>1, LinkAssumption
<1>3. batch \in Payloads /\ batch # Nothing /\ <<n>> \in Payloads /\ <<n>> # Nothing
  <2>1. batch \in Seq(1..MaxSaid) /\ Len(batch) = Len(s.pending) + 1 /\ Len(s.pending) \in Nat
    BY <1>1, <1>2 DEF Payloads
  <2> QED
    BY <1>2, <2>1 DEF Payloads, Nothing
<1> HIDE DEF n, batch
<1>4. CASE SayEvent(t)
  <2> DEFINE flushed == Enqueue(s, s.pending)
             said == [flushed EXCEPT !.said = n, !.pending = <<>>]
  <2>1. /\ flushed \in SpokenState /\ flushed.waiting = s.waiting
        /\ flushed.chain = IF s.pending = <<>> THEN s.chain ELSE Append(s.chain, s.pending)
    BY <1>1, Enqueued DEF Nothing
  <2>2. spoken' = [spoken EXCEPT ![t] = Enqueue(said, <<n>>)]
    BY <1>4 DEF SayEvent, n
  <2> HIDE DEF flushed
  <2>3. /\ said \in SpokenState /\ said.said = n /\ said.pending = <<>>
        /\ said.waiting = s.waiting /\ said.chain = flushed.chain
    BY <1>1, <1>2, <2>1 DEF SpokenState
  <2> HIDE DEF said
  <2>4. /\ Enqueue(said, <<n>>) \in SpokenState
        /\ Enqueue(said, <<n>>).said = n /\ Enqueue(said, <<n>>).pending = <<>>
        /\ Enqueue(said, <<n>>).waiting = s.waiting
        /\ Enqueue(said, <<n>>).chain = Append(flushed.chain, <<n>>)
    <3> DEFINE last == <<n>>
    <3>1. last \in Payloads /\ last # Nothing /\ said \in SpokenState
      BY <1>3, <2>3
    <3> HIDE DEF last
    <3>2. /\ Enqueue(said, last) \in SpokenState /\ Enqueue(said, last).said = said.said
          /\ Enqueue(said, last).pending = said.pending
          /\ Enqueue(said, last).waiting = said.waiting
          /\ Enqueue(said, last).chain = Append(said.chain, last)
      BY <3>1, Enqueued
    <3> QED
      BY <2>3, <3>2 DEF last
  <2>5. /\ spoken' \in [Transports -> SpokenState] /\ spoken'[t] = Enqueue(said, <<n>>)
        /\ \A u \in Transports \ {t} : spoken'[u] = spoken[u]
    BY <1>1, <2>2, <2>4
  <2> QED
    BY <1>2, <1>3, <2>1, <2>4, <2>5 DEF n, batch
<1>5. CASE SayAudio(t)
  <2> DEFINE said == [s EXCEPT !.said = n, !.pending = <<>>]
             kept == [s EXCEPT !.said = n, !.pending = batch]
  <2>1. spoken' = [spoken EXCEPT ![t] = Enqueue(said, batch)] \/ spoken' = [spoken EXCEPT ![t] = kept]
    BY <1>1, <1>5 DEF SayAudio, n, batch
  <2>2. /\ said \in SpokenState /\ said.said = n /\ said.pending = <<>>
        /\ said.waiting = s.waiting /\ said.chain = s.chain
        /\ kept \in SpokenState /\ kept.said = n /\ kept.pending = batch
        /\ kept.waiting = s.waiting /\ kept.chain = s.chain
    BY <1>1, <1>2, <1>3 DEF SpokenState
  <2> HIDE DEF said, kept
  <2>3. /\ Enqueue(said, batch) \in SpokenState
        /\ Enqueue(said, batch).said = n /\ Enqueue(said, batch).pending = <<>>
        /\ Enqueue(said, batch).waiting = s.waiting
        /\ Enqueue(said, batch).chain = Append(s.chain, batch)
    <3>1. /\ Enqueue(said, batch) \in SpokenState /\ Enqueue(said, batch).said = said.said
          /\ Enqueue(said, batch).pending = said.pending
          /\ Enqueue(said, batch).waiting = said.waiting
          /\ Enqueue(said, batch).chain = Append(said.chain, batch)
      BY <1>3, <2>2, Enqueued
    <3> QED
      BY <2>2, <3>1
  <2>4. PICK x \in {Enqueue(said, batch), kept} : spoken' = [spoken EXCEPT ![t] = x]
    BY <2>1
  <2>5. /\ spoken' \in [Transports -> SpokenState] /\ spoken'[t] = x
        /\ \A u \in Transports \ {t} : spoken'[u] = spoken[u]
    BY <1>1, <2>2, <2>3, <2>4
  <2> QED
    BY <1>2, <1>3, <2>2, <2>3, <2>4, <2>5 DEF n, batch
<1> QED
  BY <1>4, <1>5 DEF Say

-----------------------------------------------------------------------------
(* RealtimeLink: what was said keeps its order on the way to the room.     *)

\* A payload is a run of numbers; a chain is one run after another, from
\* first + 1 to last.
LastOf(p) == p[Len(p)]
IsRun(p, first) == Len(p) > 0 /\ \A j \in 1..Len(p) : p[j] = first + j
InARow(chain, first, last) ==
    /\ \A i \in 1..Len(chain) : IsRun(chain[i], chain[i][1] - 1)
    /\ chain = <<>> => first = last
    /\ chain # <<>> => chain[1][1] = first + 1 /\ LastOf(chain[Len(chain)]) = last
    /\ \A i \in 1..Len(chain) : i < Len(chain) => chain[i + 1][1] = LastOf(chain[i]) + 1

LEMMA RunOfPayload ==
    ASSUME NEW p \in Payloads, NEW first \in Nat, IsRun(p, first)
    PROVE  /\ Len(p) \in Nat \ {0} /\ p[1] = first + 1 /\ IsRun(p, p[1] - 1)
           /\ LastOf(p) = first + Len(p) /\ LastOf(p) \in Nat
<1>1. Len(p) \in Nat /\ Len(p) > 0 /\ \A j \in 1..Len(p) : p[j] = first + j
  BY DEF IsRun, Payloads
<1>2. p[1] = first + 1 /\ p[Len(p)] = first + Len(p)
  BY <1>1
<1> QED
  BY <1>1, <1>2 DEF IsRun, LastOf

LEMMA ChainGrows ==
    ASSUME NEW chain \in Seq(Payloads), NEW p \in Payloads, NEW first \in Nat, NEW last \in Nat,
           InARow(chain, first, last), IsRun(p, last)
    PROVE  InARow(Append(chain, p), first, LastOf(p)) /\ LastOf(p) \in Nat
<1> DEFINE longer == Append(chain, p)
<1>1. /\ longer \in Seq(Payloads) /\ Len(longer) = Len(chain) + 1 /\ Len(chain) \in Nat
      /\ longer # <<>> /\ longer[Len(chain) + 1] = p
      /\ \A i \in 1..Len(chain) : longer[i] = chain[i]
  OBVIOUS
<1>2. p[1] = last + 1 /\ IsRun(p, p[1] - 1) /\ LastOf(p) \in Nat
  BY RunOfPayload
<1> HIDE DEF longer
<1>3. ASSUME NEW i \in 1..Len(longer) PROVE IsRun(longer[i], longer[i][1] - 1)
  <2>1. i \in 1..Len(chain) \/ i = Len(chain) + 1
    BY <1>1
  <2>2. CASE i \in 1..Len(chain)
    BY <1>1, <2>2 DEF InARow
  <2>3. CASE i = Len(chain) + 1
    BY <1>1, <1>2, <2>3
  <2> QED
    BY <2>1, <2>2, <2>3
<1>4. longer[1][1] = first + 1 /\ LastOf(longer[Len(longer)]) = LastOf(p)
  <2>1. CASE chain = <<>>
    BY <1>1, <1>2, <2>1 DEF InARow
  <2>2. CASE chain # <<>>
    <3>1. 1 \in 1..Len(chain)
      BY <1>1, <2>2
    <3> QED
      BY <1>1, <2>2, <3>1 DEF InARow
  <2> QED
    BY <2>1, <2>2
<1>5. ASSUME NEW i \in 1..Len(longer), i < Len(longer)
      PROVE  longer[i + 1][1] = LastOf(longer[i]) + 1
  <2>1. i \in 1..Len(chain) /\ longer[i] = chain[i] /\ chain # <<>>
    BY <1>1, <1>5
  <2>2. CASE i = Len(chain)
    <3>1. LastOf(chain[i]) = last
      BY <2>1, <2>2 DEF InARow
    <3> QED
      BY <1>1, <1>2, <2>1, <2>2, <3>1
  <2>3. CASE i < Len(chain)
    <3>1. i + 1 \in 1..Len(chain)
      BY <1>1, <2>1, <2>3
    <3>2. chain[i + 1][1] = LastOf(chain[i]) + 1
      BY <2>1, <2>3 DEF InARow
    <3> QED
      BY <1>1, <2>1, <3>1, <3>2
  <2> QED
    BY <1>1, <2>1, <2>2, <2>3
<1> QED
  BY <1>1, <1>2, <1>3, <1>4, <1>5 DEF InARow, longer

LEMMA ChainShrinks ==
    ASSUME NEW chain \in Seq(Payloads), NEW first \in Nat, NEW last \in Nat,
           InARow(chain, first, last), chain # <<>>
    PROVE  /\ Head(chain) \in Payloads /\ Tail(chain) \in Seq(Payloads)
           /\ IsRun(Head(chain), first) /\ LastOf(Head(chain)) \in Nat
           /\ InARow(Tail(chain), LastOf(Head(chain)), last)
<1> DEFINE p == Head(chain)
           rest == Tail(chain)
<1>1. /\ Len(chain) \in Nat \ {0} /\ p = chain[1] /\ p \in Payloads /\ rest \in Seq(Payloads)
      /\ Len(rest) = Len(chain) - 1
      /\ \A i \in 1..Len(rest) : rest[i] = chain[i + 1]
      /\ rest = <<>> <=> Len(chain) = 1
  <2>1. Len(chain) \in Nat \ {0} /\ p = chain[1] /\ p \in Payloads
    OBVIOUS
  <2>2. rest \in Seq(Payloads) /\ Len(rest) = Len(chain) - 1
    BY HeadTailProperties
  <2>3. \A i \in 1..Len(rest) : rest[i] = chain[i + 1]
    BY <2>1, <2>2
  <2> HIDE DEF p, rest
  <2>4. rest = <<>> <=> Len(rest) = 0
    BY <2>2, EmptySeq
  <2> QED
    BY <2>1, <2>2, <2>3, <2>4
<1> HIDE DEF p, rest
<1>2. IsRun(p, first)
  <2>1. 1 \in 1..Len(chain) /\ p[1] = first + 1 /\ IsRun(p, p[1] - 1)
    BY <1>1 DEF InARow
  <2> QED
    BY <2>1
<1>3. LastOf(p) \in Nat
  BY <1>1, <1>2, RunOfPayload
<1>4. \A i \in 1..Len(rest) : IsRun(rest[i], rest[i][1] - 1)
  BY <1>1 DEF InARow
<1>5. rest = <<>> => LastOf(p) = last
  BY <1>1 DEF InARow
<1>6. rest # <<>> => rest[1][1] = LastOf(p) + 1 /\ LastOf(rest[Len(rest)]) = last
  <2> SUFFICES ASSUME rest # <<>> PROVE rest[1][1] = LastOf(p) + 1 /\ LastOf(rest[Len(rest)]) = last
    OBVIOUS
  <2>1. /\ Len(rest) \in Nat \ {0} /\ 1 \in 1..Len(chain) /\ 1 < Len(chain)
        /\ rest[1] = chain[2] /\ rest[Len(rest)] = chain[Len(chain)] /\ chain # <<>>
    BY <1>1
  <2>2. chain[1 + 1][1] = LastOf(chain[1]) + 1 /\ LastOf(chain[Len(chain)]) = last
    BY <2>1 DEF InARow
  <2> QED
    BY <1>1, <2>1, <2>2
<1>7. ASSUME NEW i \in 1..Len(rest), i < Len(rest)
      PROVE  rest[i + 1][1] = LastOf(rest[i]) + 1
  <2>1. i + 1 \in 1..Len(rest) /\ i + 1 \in 1..Len(chain) /\ i + 1 < Len(chain)
    BY <1>1, <1>7
  <2>2. chain[(i + 1) + 1][1] = LastOf(chain[i + 1]) + 1
    BY <2>1 DEF InARow
  <2> QED
    BY <1>1, <2>1, <2>2
<1> QED
  BY <1>1, <1>2, <1>3, <1>4, <1>5, <1>6, <1>7 DEF InARow, p, rest

\* What the room heard through t are the numbers up to last, in their order.
HeardTo(h, t, last) ==
    /\ \A i \in 1..Len(h) : h[i][1] = t => h[i][2] <= last
    /\ \A i, j \in 1..Len(h) : h[i][1] = t /\ h[j][1] = t /\ i < j => h[i][2] < h[j][2]
    /\ \A n \in 1..last : \E i \in 1..Len(h) : h[i] = <<t, n>>

Numbered(t, payload) == [i \in DOMAIN payload |-> <<t, payload[i]>>]

LEMMA HandedOver ==
    ASSUME NEW h \in Seq(HeardState), NEW t \in Transports, NEW payload \in Payloads
    PROVE  LET more == h \o Numbered(t, payload)
           IN  /\ more \in Seq(HeardState) /\ Len(more) = Len(h) + Len(payload)
               /\ Len(h) \in Nat /\ Len(payload) \in Nat
               /\ \A i \in 1..Len(h) : more[i] = h[i]
               /\ \A i \in 1..Len(payload) : more[Len(h) + i] = <<t, payload[i]>>
<1> DEFINE said == Numbered(t, payload)
<1>1. said \in Seq(HeardState) /\ Len(said) = Len(payload) /\ Len(payload) \in Nat
      /\ \A i \in 1..Len(payload) : said[i] = <<t, payload[i]>>
  <2>1. payload \in Seq(1..MaxSaid) /\ DOMAIN payload = 1..Len(payload) /\ Len(payload) \in Nat
    BY DEF Payloads
  <2>2. \A i \in 1..Len(payload) : <<t, payload[i]>> \in HeardState
    BY <2>1, ElementOfSeq DEF HeardState
  <2>3. said = [i \in 1..Len(payload) |-> <<t, payload[i]>>]
    BY <2>1 DEF Numbered
  <2> HIDE DEF said
  <2>4. said \in [1..Len(payload) -> HeardState]
    BY <2>2, <2>3
  <2> QED
    <3>1. said \in Seq(HeardState)
      BY <2>1, <2>4, SeqDef
    <3>2. DOMAIN said = 1..Len(payload) /\ \A i \in 1..Len(payload) : said[i] = <<t, payload[i]>>
      BY <2>3
    <3>3. Len(said) = Len(payload)
      BY <2>1, <3>1, <3>2, LenProperties
    <3> QED
      BY <2>1, <3>1, <3>2, <3>3
<1> HIDE DEF said
<1>2. /\ h \o said \in Seq(HeardState) /\ Len(h \o said) = Len(h) + Len(said) /\ Len(h) \in Nat
      /\ \A i \in 1..(Len(h) + Len(said)) :
            (h \o said)[i] = IF i <= Len(h) THEN h[i] ELSE said[i - Len(h)]
  <2>1. Len(h) \in Nat
    BY LenProperties
  <2> QED
    BY <1>1, <2>1, ConcatProperties
<1> QED
  BY <1>1, <1>2 DEF said

LEMMA OthersHeard ==
    ASSUME NEW h \in Seq(HeardState), NEW t \in Transports, NEW payload \in Payloads,
           NEW u \in Transports \ {t}, NEW last \in Nat, HeardTo(h, u, last)
    PROVE  HeardTo(h \o Numbered(t, payload), u, last)
<1> DEFINE more == h \o Numbered(t, payload)
<1>1. /\ Len(more) = Len(h) + Len(payload) /\ Len(h) \in Nat /\ Len(payload) \in Nat
      /\ \A i \in 1..Len(h) : more[i] = h[i]
      /\ \A i \in 1..Len(payload) : more[Len(h) + i] = <<t, payload[i]>>
  BY HandedOver
<1> HIDE DEF more
<1>2. \A i \in 1..Len(more) : more[i][1] = u => i \in 1..Len(h)
  <2> SUFFICES ASSUME NEW i \in 1..Len(more), i \notin 1..Len(h) PROVE more[i][1] # u
    OBVIOUS
  <2>1. i - Len(h) \in 1..Len(payload) /\ Len(h) + (i - Len(h)) = i
    BY <1>1
  <2>2. more[i] = <<t, payload[i - Len(h)]>>
    BY <1>1, <2>1
  <2> QED
    BY <2>2
<1>3. \A i \in 1..Len(h) : i \in 1..Len(more)
  BY <1>1
<1>4. HeardTo(more, u, last)
  BY <1>1, <1>2, <1>3 DEF HeardTo
<1> QED
  BY <1>4 DEF more

LEMMA NextHeard ==
    ASSUME NEW h \in Seq(HeardState), NEW t \in Transports, NEW payload \in Payloads,
           NEW first \in Nat, HeardTo(h, t, first), IsRun(payload, first)
    PROVE  HeardTo(h \o Numbered(t, payload), t, LastOf(payload))
<1> DEFINE more == h \o Numbered(t, payload)
           last == LastOf(payload)
<1>1. /\ Len(more) = Len(h) + Len(payload) /\ Len(h) \in Nat /\ Len(payload) \in Nat
      /\ \A i \in 1..Len(h) : more[i] = h[i]
      /\ \A i \in 1..Len(payload) : more[Len(h) + i] = <<t, payload[i]>>
      /\ more \in Seq(HeardState)
  BY HandedOver
<1>2. /\ last = first + Len(payload) /\ last \in Nat
      /\ \A j \in 1..Len(payload) : payload[j] = first + j
  BY RunOfPayload DEF IsRun
<1> HIDE DEF more, last
<1>3. \A i \in 1..Len(more) : \/ i \in 1..Len(h) /\ more[i] = h[i]
                              \/ i - Len(h) \in 1..Len(payload) /\ more[i] = <<t, first + (i - Len(h))>>
  <2> SUFFICES ASSUME NEW i \in 1..Len(more), i \notin 1..Len(h)
               PROVE  i - Len(h) \in 1..Len(payload) /\ more[i] = <<t, first + (i - Len(h))>>
    BY <1>1
  <2>1. i - Len(h) \in 1..Len(payload) /\ Len(h) + (i - Len(h)) = i
    BY <1>1
  <2>2. more[i] = <<t, payload[i - Len(h)]>> /\ payload[i - Len(h)] = first + (i - Len(h))
    BY <1>1, <1>2, <2>1
  <2> QED
    BY <2>1, <2>2
<1>4. \A i \in 1..Len(h) : h[i][2] \in Nat
  BY DEF HeardState
<1>5. \A i \in 1..Len(more) : more[i][1] = t => more[i][2] <= last
  <2> SUFFICES ASSUME NEW i \in 1..Len(more), more[i][1] = t PROVE more[i][2] <= last
    OBVIOUS
  <2>1. CASE i \in 1..Len(h) /\ more[i] = h[i]
    <3>1. h[i][2] <= first
      BY <2>1 DEF HeardTo
    <3> QED
      BY <1>1, <1>2, <1>4, <2>1, <3>1
  <2>2. CASE i - Len(h) \in 1..Len(payload) /\ more[i] = <<t, first + (i - Len(h))>>
    BY <1>1, <1>2, <2>2
  <2> QED
    BY <1>3, <2>1, <2>2
<1>6. ASSUME NEW i \in 1..Len(more), NEW j \in 1..Len(more),
             more[i][1] = t, more[j][1] = t, i < j
      PROVE  more[i][2] < more[j][2]
  <2>1. CASE j \in 1..Len(h)
    <3>1. i \in 1..Len(h)
      BY <1>1, <1>6, <2>1
    <3> QED
      BY <1>1, <1>6, <2>1, <3>1 DEF HeardTo
  <2>2. CASE j \notin 1..Len(h)
    <3>1. j - Len(h) \in 1..Len(payload) /\ more[j] = <<t, first + (j - Len(h))>>
      BY <1>3, <2>2
    <3>2. CASE i \in 1..Len(h) /\ more[i] = h[i]
      <4>1. h[i][2] <= first
        BY <1>6, <3>2 DEF HeardTo
      <4> QED
        BY <1>1, <1>4, <3>1, <3>2, <4>1
    <3>3. CASE i - Len(h) \in 1..Len(payload) /\ more[i] = <<t, first + (i - Len(h))>>
      BY <1>1, <1>6, <3>1, <3>3
    <3> QED
      BY <1>3, <3>2, <3>3
  <2> QED
    BY <2>1, <2>2
<1>7. ASSUME NEW n \in 1..last PROVE \E i \in 1..Len(more) : more[i] = <<t, n>>
  <2>1. CASE n <= first
    <3>1. PICK i \in 1..Len(h) : h[i] = <<t, n>>
      <4>1. n \in 1..first
        BY <1>2, <2>1
      <4> QED
        BY <4>1 DEF HeardTo
    <3> QED
      BY <1>1, <3>1
  <2>2. CASE n > first
    <3>1. n - first \in 1..Len(payload) /\ Len(h) + (n - first) \in 1..Len(more)
      BY <1>1, <1>2, <2>2
    <3>2. more[Len(h) + (n - first)] = <<t, first + (n - first)>> /\ first + (n - first) = n
      <4>1. payload[n - first] = first + (n - first) /\ first + (n - first) = n
        BY <1>2, <3>1
      <4> QED
        BY <1>1, <3>1, <4>1
    <3> QED
      BY <3>1, <3>2
  <2> QED
    BY <1>2, <2>1, <2>2
<1>8. HeardTo(more, t, last)
  BY <1>5, <1>6, <1>7 DEF HeardTo
<1> QED
  BY <1>8 DEF more, last

\* Up to said, in this order: what the room heard (to at), what is on the wire
\* (to handed), what is chained (to chained), what is batched.
LineOf(t, s, C, h, end, at, handed, chained) ==
    /\ HeardTo(h, t, at)
    /\ \A c \in C : c.of = t =>
          /\ c.payload = s.waiting /\ s.waiting # Nothing
          /\ c.step = "accepted" => handed = at
          /\ c.step # "accepted" => IsRun(s.waiting, at) /\ LastOf(s.waiting) = handed
    /\ \A c, d \in C : c.of = t /\ d.of = t => c = d
    /\ s.waiting = Nothing => handed = at
    /\ s.waiting # Nothing => \E c \in C : c.of = t
    /\ InARow(s.chain, handed, chained)
    /\ \A j \in 1..Len(s.pending) : s.pending[j] = chained + j
    /\ end.at # "closed" => chained + Len(s.pending) = s.said
    /\ end.at = "unused" => s.chain = <<>> /\ s.pending = <<>> /\ s.waiting = Nothing
    /\ end.kind = "websocket" => s.waiting = Nothing

InLine(t) == \E at, handed, chained \in Nat :
                LineOf(t, spoken[t], calls, heard, transports[t], at, handed, chained)

EndMoves(end, next) ==
    \/ next = end
    \/ next = [end EXCEPT !.at = "closed"]
    \/ end.at = "unused" /\ next.at = "connecting"
    \/ end.at = "connecting" /\ next = [end EXCEPT !.at = "open"]

\* Nothing of this page is said, sent or heard; a batch goes with its transport.
LEMMA LineStays ==
    ASSUME NEW t \in Transports, LinkTyped, InLine(t),
           \A n \in Nat : HeardTo(heard, t, n) => HeardTo(heard', t, n),
           \A c : c.of = t => (c \in calls' <=> c \in calls),
           EndMoves(transports[t], transports'[t]),
           \/ spoken'[t] = spoken[t]
           \/ /\ spoken'[t] = [spoken[t] EXCEPT !.pending = <<>>]
              /\ transports'[t].at = "closed" \/ transports[t].at = "unused"
    PROVE  InLine(t)'
<1> DEFINE s == spoken[t]
           next == spoken'[t]
<1>1. s \in SpokenState /\ transports[t] \in EndState
  BY DEF LinkTyped
<1>2. PICK at \in Nat, handed \in Nat, chained \in Nat :
         LineOf(t, s, calls, heard, transports[t], at, handed, chained)
  BY DEF InLine
<1>3. /\ next.said = s.said /\ next.chain = s.chain /\ next.waiting = s.waiting
      /\ next.pending = s.pending \/ (next.pending = <<>> /\ transports'[t].at = "closed")
      /\ Len(<<>>) = 0
  BY <1>1, <1>2 DEF SpokenState, LineOf
<1>4. /\ transports'[t].at = "closed" \/ transports'[t].at = transports[t].at
            \/ transports[t].at = "unused" \/ transports'[t].at = "open"
      /\ transports'[t].at = "unused" => transports[t].at = "unused"
      /\ transports'[t].kind = transports[t].kind \/ transports[t].at = "unused"
      /\ transports'[t].at # "closed" => transports[t].at # "closed"
  BY <1>1 DEF EndMoves, EndState
<1> HIDE DEF s, next
<1>5. LineOf(t, next, calls', heard', transports'[t], at, handed, chained)
  BY <1>2, <1>3, <1>4 DEF LineOf
<1> QED
  BY <1>5 DEF InLine, next

LEMMA LineStart == ASSUME LinkInit, NEW t \in Transports PROVE InLine(t)
<1>1. /\ spoken[t] = Unspoken /\ calls = {} /\ heard = <<>>
      /\ transports[t] = [kind |-> "grpc", at |-> "unused"]
  BY DEF LinkInit
<1>2. HeardTo(<<>>, t, 0) /\ InARow(<<>>, 0, 0)
  BY DEF HeardTo, InARow
<1>3. LineOf(t, spoken[t], calls, heard, transports[t], 0, 0, 0)
  BY <1>1, <1>2 DEF LineOf, Unspoken, Nothing
<1> QED
  BY <1>3 DEF InLine

LEMMA LineSays ==
    ASSUME NEW t \in Transports, LinkTyped, InLine(t), Say(t)
    PROVE  InLine(t)'
<1> DEFINE s == spoken[t]
           next == spoken'[t]
           n == s.said + 1
           batch == Append(s.pending, n)
<1>1. /\ s \in SpokenState /\ s.said \in Nat /\ s.pending \in Payloads
      /\ s.chain \in Seq(Payloads) /\ Len(s.pending) \in Nat
      /\ transports[t].at = "open" /\ UNCHANGED <<transports, calls, heard>>
  BY DEF LinkTyped, SpokenState, Say, IsOpen, Payloads
<1>2. PICK at \in Nat, handed \in Nat, chained \in Nat :
         LineOf(t, s, calls, heard, transports[t], at, handed, chained)
  BY DEF InLine
<1>3. /\ chained + Len(s.pending) = s.said /\ n \in 1..MaxSaid /\ batch \in Payloads
      /\ \A j \in 1..Len(s.pending) : s.pending[j] = chained + j
      /\ InARow(s.chain, handed, chained)
      /\ next.said = n /\ next.waiting = s.waiting
      /\ \/ /\ next.pending = <<>>
            /\ next.chain = IF s.pending = <<>> THEN Append(s.chain, <<n>>)
                            ELSE Append(Append(s.chain, s.pending), <<n>>)
         \/ next.pending = <<>> /\ next.chain = Append(s.chain, batch)
         \/ next.pending = batch /\ next.chain = s.chain
  BY <1>1, <1>2, Spoken DEF LineOf
<1>4. /\ Len(batch) = Len(s.pending) + 1
      /\ \A j \in 1..Len(batch) : batch[j] = chained + j
  <2>1. /\ Len(batch) = Len(s.pending) + 1 /\ batch[Len(s.pending) + 1] = n
        /\ \A j \in 1..Len(s.pending) : batch[j] = s.pending[j]
    <3>1. s.pending \in Seq(1..MaxSaid) /\ n \in 1..MaxSaid
      BY <1>1, <1>3 DEF Payloads
    <3> HIDE DEF s, n
    <3> QED
      BY <3>1, AppendProperties
  <2>2. n = chained + (Len(s.pending) + 1)
    BY <1>1, <1>3
  <2> HIDE DEF batch, n
  <2>3. ASSUME NEW j \in 1..Len(batch) PROVE batch[j] = chained + j
    <3>1. j \in 1..Len(s.pending) \/ j = Len(s.pending) + 1
      BY <1>1, <2>1
    <3> QED
      BY <1>3, <2>1, <2>2, <3>1
  <2> QED
    BY <2>1, <2>3
<1> HIDE DEF s, next, n, batch
<1>5. n = s.said + 1 /\ <<n>> \in Payloads /\ Len(<<n>>) = 1 /\ <<n>>[1] = n
      /\ LastOf(<<n>>) = n
  BY <1>3 DEF n, Payloads, LastOf
\* The same line with another batch, and another end of the chain.
<1>6. ASSUME NEW end \in Nat, InARow(next.chain, handed, end),
             \A j \in 1..Len(next.pending) : next.pending[j] = end + j,
             end + Len(next.pending) = n
      PROVE  InLine(t)'
  <2>1. LineOf(t, next, calls', heard', transports'[t], at, handed, end)
    BY <1>1, <1>2, <1>3, <1>6 DEF LineOf
  <2> QED
    BY <2>1 DEF InLine, next
<1>7. CASE /\ next.pending = <<>>
           /\ next.chain = IF s.pending = <<>> THEN Append(s.chain, <<n>>)
                           ELSE Append(Append(s.chain, s.pending), <<n>>)
  <2>1. CASE s.pending = <<>>
    <3>1. chained = s.said
      <4>1. Len(s.pending) = 0
        BY <2>1, EmptySeq
      <4> QED
        BY <1>1, <1>3, <4>1
    <3>2. IsRun(<<n>>, chained)
      BY <1>1, <1>5, <3>1 DEF IsRun
    <3>3. InARow(next.chain, handed, n)
      BY <1>1, <1>3, <1>5, <1>7, <2>1, <3>2, ChainGrows
    <3> QED
      BY <1>1, <1>3, <1>5, <1>6, <1>7, <3>3
  <2>2. CASE s.pending # <<>>
    <3>1. IsRun(s.pending, chained)
      <4>1. Len(s.pending) > 0
        BY <1>1, <2>2, EmptySeq DEF Payloads
      <4> QED
        BY <1>3, <4>1 DEF IsRun
    <3>2. LastOf(s.pending) = s.said
      BY <1>1, <1>3, <3>1, RunOfPayload
    <3> DEFINE flushed == Append(s.chain, s.pending)
    <3>3. InARow(flushed, handed, s.said) /\ flushed \in Seq(Payloads)
      BY <1>1, <1>3, <3>1, <3>2, ChainGrows
    <3> HIDE DEF flushed
    <3>4. IsRun(<<n>>, s.said)
      BY <1>1, <1>5 DEF IsRun
    <3>5. InARow(Append(flushed, <<n>>), handed, n)
      BY <1>1, <1>5, <3>3, <3>4, ChainGrows
    <3>6. InARow(next.chain, handed, n)
      BY <1>7, <2>2, <3>5 DEF flushed
    <3> QED
      BY <1>1, <1>3, <1>5, <1>6, <1>7, <3>6
  <2> QED
    BY <2>1, <2>2
<1>8. CASE next.pending = <<>> /\ next.chain = Append(s.chain, batch)
  <2>1. IsRun(batch, chained)
    BY <1>1, <1>4 DEF IsRun
  <2>2. LastOf(batch) = n
    BY <1>1, <1>3, <1>4, <1>5, <2>1, RunOfPayload
  <2>3. InARow(next.chain, handed, n)
    BY <1>1, <1>3, <1>8, <2>1, <2>2, ChainGrows
  <2> QED
    BY <1>3, <1>5, <1>6, <1>8, <2>3
<1>9. CASE next.pending = batch /\ next.chain = s.chain
  <2>1. chained + Len(batch) = n
    BY <1>1, <1>3, <1>4, <1>5
  <2> QED
    BY <1>3, <1>4, <1>6, <1>9, <2>1
<1> QED
  BY <1>3, <1>7, <1>8, <1>9

LEMMA Flushed ==
    ASSUME NEW t \in Transports, LinkTyped, FlushTimer(t)
    PROVE  LET s == spoken[t]
           IN  /\ spoken' \in [Transports -> SpokenState]
               /\ \A u \in Transports \ {t} : spoken'[u] = spoken[u]
               /\ spoken'[t].said = s.said /\ spoken'[t].pending = <<>>
               /\ spoken'[t].waiting = s.waiting
               /\ spoken'[t].chain = Append(s.chain, s.pending)
<1> DEFINE s == spoken[t]
           emptied == [s EXCEPT !.pending = <<>>]
           next == Enqueue(emptied, s.pending)
<1>1. /\ spoken \in [Transports -> SpokenState] /\ s \in SpokenState
      /\ s.said \in Nat /\ s.pending \in Payloads /\ <<>> \in Payloads
      /\ s.chain \in Seq(Payloads) /\ Len(s.pending) \in Nat /\ s.pending # Nothing
      /\ transports[t].at = "open" /\ UNCHANGED <<transports, calls, heard>>
  BY DEF LinkTyped, SpokenState, FlushTimer, IsOpen, Payloads, Nothing
<1>2. /\ emptied \in SpokenState /\ emptied.said = s.said /\ emptied.pending = <<>>
      /\ emptied.waiting = s.waiting /\ emptied.chain = s.chain
  BY <1>1 DEF SpokenState
<1>3. spoken' = [spoken EXCEPT ![t] = next]
  BY <1>1 DEF FlushTimer
<1> HIDE DEF emptied
<1>4. /\ next \in SpokenState /\ next.said = s.said /\ next.pending = <<>>
      /\ next.waiting = s.waiting /\ next.chain = Append(s.chain, s.pending)
  <2> DEFINE batch == s.pending
  <2>1. emptied \in SpokenState /\ batch \in Payloads /\ batch # Nothing
    BY <1>1, <1>2
  <2> HIDE DEF batch
  <2>2. /\ Enqueue(emptied, batch) \in SpokenState
        /\ Enqueue(emptied, batch).said = emptied.said
        /\ Enqueue(emptied, batch).pending = emptied.pending
        /\ Enqueue(emptied, batch).waiting = emptied.waiting
        /\ Enqueue(emptied, batch).chain = Append(emptied.chain, batch)
    BY <2>1, Enqueued
  <2> QED
    BY <1>2, <2>2 DEF batch
<1> HIDE DEF next
<1>5. /\ spoken' \in [Transports -> SpokenState] /\ spoken'[t] = next
      /\ \A u \in Transports \ {t} : spoken'[u] = spoken[u]
  BY <1>1, <1>3, <1>4
<1> QED
  BY <1>4, <1>5

LEMMA LineFlushes ==
    ASSUME NEW t \in Transports, LinkTyped, InLine(t), FlushTimer(t)
    PROVE  InLine(t)'
<1> DEFINE s == spoken[t]
           next == spoken'[t]
<1>1. /\ s \in SpokenState /\ s.said \in Nat /\ s.pending \in Payloads
      /\ s.chain \in Seq(Payloads) /\ Len(s.pending) \in Nat /\ s.pending # Nothing
      /\ transports[t].at = "open" /\ UNCHANGED <<transports, calls, heard>>
  BY DEF LinkTyped, SpokenState, FlushTimer, IsOpen, Payloads, Nothing
<1>2. /\ next.said = s.said /\ next.pending = <<>> /\ Len(<<>>) = 0
      /\ next.waiting = s.waiting /\ next.chain = Append(s.chain, s.pending)
  BY Flushed
<1>3. PICK at \in Nat, handed \in Nat, chained \in Nat :
         LineOf(t, s, calls, heard, transports[t], at, handed, chained)
  BY DEF InLine
<1> HIDE DEF s, next
<1>4. IsRun(s.pending, chained) /\ chained + Len(s.pending) = s.said
  <2>1. Len(s.pending) > 0
    BY <1>1, EmptySeq DEF Payloads, Nothing
  <2> QED
    BY <1>1, <1>3, <2>1 DEF LineOf, IsRun
<1>5. LastOf(s.pending) = s.said
  BY <1>1, <1>4, RunOfPayload
<1>6. InARow(next.chain, handed, s.said)
  BY <1>1, <1>2, <1>3, <1>4, <1>5, ChainGrows DEF LineOf
<1>7. LineOf(t, next, calls', heard', transports'[t], at, handed, s.said)
  BY <1>1, <1>2, <1>3, <1>6 DEF LineOf
<1> QED
  BY <1>1, <1>7 DEF InLine, next

LEMMA LineIsSent ==
    ASSUME NEW t \in Transports, LinkTyped, InLine(t), StartCall(t)
    PROVE  InLine(t)'
<1> DEFINE s == spoken[t]
           first == Head(s.chain)
           call == [of |-> t, payload |-> first, step |-> "sent"]
           next == spoken'[t]
<1>1. /\ spoken \in [Transports -> SpokenState] /\ s \in SpokenState
      /\ s.chain \in Seq(Payloads) /\ s.chain # <<>> /\ s.waiting = Nothing
      /\ transports[t].kind = "grpc" /\ UNCHANGED <<transports, heard>>
      /\ calls' = calls \cup {call}
  BY DEF LinkTyped, SpokenState, StartCall
<1>2. /\ next.said = s.said /\ next.pending = s.pending
      /\ next.waiting = first /\ next.chain = Tail(s.chain)
  <2> DEFINE gone == [s EXCEPT !.waiting = first, !.chain = Tail(s.chain)]
  <2>1. spoken' = [spoken EXCEPT ![t] = gone]
    <3>1. spoken' = [spoken EXCEPT ![t].waiting = Head(spoken[t].chain), ![t].chain = Tail(spoken[t].chain)]
      BY DEF StartCall
    <3> QED
      BY <1>1, <3>1
  <2>2. next = gone
    BY <1>1, <2>1
  <2> HIDE DEF next, first
  <2> QED
    BY <1>1, <2>2 DEF SpokenState
<1>3. call.of = t /\ call.payload = first /\ call.step = "sent"
  OBVIOUS
<1>4. PICK at \in Nat, handed \in Nat, chained \in Nat :
         LineOf(t, s, calls, heard, transports[t], at, handed, chained)
  BY DEF InLine
<1> HIDE DEF s, call, next
<1>5. handed = at /\ InARow(s.chain, handed, chained) /\ \A c \in calls : c.of # t
  BY <1>1, <1>4 DEF LineOf
<1>6. /\ first \in Payloads /\ IsRun(first, at) /\ LastOf(first) \in Nat
      /\ InARow(Tail(s.chain), LastOf(first), chained)
  BY <1>1, <1>5, ChainShrinks
<1> HIDE DEF first
<1>7. first # Nothing
  BY <1>6, EmptySeq DEF IsRun, Nothing
<1>8. LineOf(t, next, calls', heard', transports'[t], at, LastOf(first), chained)
  BY <1>1, <1>2, <1>3, <1>4, <1>5, <1>6, <1>7 DEF LineOf
<1> QED
  BY <1>6, <1>8 DEF InLine, next

LEMMA LineIsRead ==
    ASSUME NEW t \in Transports, LinkTyped, InLine(t), ReadFrame(t)
    PROVE  InLine(t)'
<1> DEFINE s == spoken[t]
           first == Head(s.chain)
           next == spoken'[t]
<1>1. /\ spoken \in [Transports -> SpokenState] /\ s \in SpokenState
      /\ s.chain \in Seq(Payloads) /\ s.chain # <<>> /\ heard \in Seq(HeardState)
      /\ transports[t].kind = "websocket" /\ UNCHANGED <<transports, calls>>
      /\ heard' = heard \o Numbered(t, first)
  BY DEF LinkTyped, SpokenState, ReadFrame, HandOver, Numbered
<1>2. /\ next.said = s.said /\ next.pending = s.pending
      /\ next.waiting = s.waiting /\ next.chain = Tail(s.chain)
  BY <1>1 DEF ReadFrame, SpokenState
<1>3. PICK at \in Nat, handed \in Nat, chained \in Nat :
         LineOf(t, s, calls, heard, transports[t], at, handed, chained)
  BY DEF InLine
<1> HIDE DEF s, next
<1>4. s.waiting = Nothing /\ handed = at /\ InARow(s.chain, handed, chained) /\ \A c \in calls : c.of # t
  BY <1>1, <1>3 DEF LineOf
<1>5. /\ first \in Payloads /\ IsRun(first, at) /\ LastOf(first) \in Nat
      /\ InARow(Tail(s.chain), LastOf(first), chained)
  BY <1>1, <1>4, ChainShrinks
<1> HIDE DEF first
<1>6. HeardTo(heard', t, LastOf(first))
  BY <1>1, <1>3, <1>5, NextHeard DEF LineOf
<1>7. LineOf(t, next, calls', heard', transports'[t], LastOf(first), LastOf(first), chained)
  BY <1>1, <1>2, <1>3, <1>4, <1>5, <1>6 DEF LineOf
<1> QED
  BY <1>5, <1>7 DEF InLine, next

LEMMA LineIsHeard ==
    ASSUME LinkTyped, NEW c \in calls, c.of \in Transports, InLine(c.of), Accept(c)
    PROVE  InLine(c.of)'
<1> DEFINE t == c.of
           s == spoken[t]
           answered == [c EXCEPT !.step = "accepted"]
<1>1. /\ c \in CallState /\ s \in SpokenState /\ heard \in Seq(HeardState)
      /\ c.step = "found" /\ UNCHANGED <<transports, spoken>>
      /\ heard' = heard \o Numbered(t, c.payload)
  BY DEF LinkTyped, Accept, HandOver, Numbered
<1>2. PICK at \in Nat, handed \in Nat, chained \in Nat :
         LineOf(t, s, calls, heard, transports[t], at, handed, chained)
  BY DEF InLine
<1>3. /\ c.payload = s.waiting /\ IsRun(s.waiting, at) /\ LastOf(s.waiting) = handed
      /\ \A d \in calls : d.of = t => d = c
  BY <1>1, <1>2 DEF LineOf
<1>4. calls' = (calls \ {c}) \cup {answered}
  BY <1>3 DEF Accept, Answer, IsAwaited
<1>5. answered.of = t /\ answered.payload = c.payload /\ answered.step = "accepted"
  BY <1>1 DEF CallState
<1>6. s.waiting \in Payloads
  BY <1>1 DEF SpokenState
<1> HIDE DEF s, answered
<1>7. HeardTo(heard', t, handed)
  BY <1>1, <1>2, <1>3, <1>6, NextHeard DEF LineOf
<1>8. LineOf(t, s, calls', heard', transports'[t], handed, handed, chained)
  BY <1>1, <1>2, <1>3, <1>4, <1>5, <1>7 DEF LineOf
<1> QED
  BY <1>1, <1>8 DEF InLine, s

LEMMA LineIsFound ==
    ASSUME LinkTyped, NEW c \in calls, c.of \in Transports, InLine(c.of), FindSession(c)
    PROVE  InLine(c.of)'
<1> DEFINE t == c.of
           s == spoken[t]
<1>1. c \in CallState /\ c.step = "sent" /\ UNCHANGED <<transports, spoken, heard>>
  BY DEF LinkTyped, FindSession
<1>2. PICK step \in {"found", "refused"} : calls' = (calls \ {c}) \cup {[c EXCEPT !.step = step]}
  BY DEF FindSession, Answer
<1> DEFINE answered == [c EXCEPT !.step = step]
<1>3. answered.of = t /\ answered.payload = c.payload /\ answered.step # "accepted"
  BY <1>1, <1>2 DEF CallState
<1>4. PICK at \in Nat, handed \in Nat, chained \in Nat :
         LineOf(t, s, calls, heard, transports[t], at, handed, chained)
  BY DEF InLine
<1>5. calls' = (calls \ {c}) \cup {answered}
  BY <1>2
<1> HIDE DEF s, answered
<1>6. LineOf(t, s, calls', heard', transports'[t], at, handed, chained)
  BY <1>1, <1>3, <1>4, <1>5 DEF LineOf
<1> QED
  BY <1>1, <1>6 DEF InLine, s

LEMMA LineIsAnswered ==
    ASSUME LinkTyped, NEW c \in calls, c.of \in Transports, InLine(c.of), Returns(c), c.step = "accepted"
    PROVE  InLine(c.of)'
<1> DEFINE t == c.of
           s == spoken[t]
           next == spoken'[t]
<1>1. /\ s \in SpokenState /\ spoken \in [Transports -> SpokenState]
      /\ UNCHANGED <<transports, heard>> /\ calls' = calls \ {c}
      /\ spoken' = [spoken EXCEPT ![t].waiting = Nothing]
  BY DEF LinkTyped, Returns
<1>2. /\ next.said = s.said /\ next.pending = s.pending
      /\ next.waiting = Nothing /\ next.chain = s.chain
  BY <1>1 DEF SpokenState
<1>3. PICK at \in Nat, handed \in Nat, chained \in Nat :
         LineOf(t, s, calls, heard, transports[t], at, handed, chained)
  BY DEF InLine
<1> HIDE DEF s, next
<1>4. handed = at /\ \A d \in calls' : d.of # t
  BY <1>1, <1>3 DEF LineOf
<1>5. LineOf(t, next, calls', heard', transports'[t], at, handed, chained)
  BY <1>1, <1>2, <1>3, <1>4 DEF LineOf
<1> QED
  BY <1>5 DEF InLine, next

\* A close concerns the transport, and one that is opened instead.
LEMMA CloseMoves ==
    ASSUME LinkTyped, NEW t \in Transports, NEW times \in {1, 2}, CloseReported(t, times)
    PROVE  /\ \A u \in Transports : EndMoves(transports[u], transports'[u])
           /\ transports[t].at # "unused" => transports'[t].at = "closed"
<1>1. transports \in [Transports -> EndState]
  BY DEF LinkTyped
<1>2. CASE transports' = [transports EXCEPT ![t].at = "closed"]
  BY <1>1, <1>2 DEF EndMoves, EndState
<1>3. CASE tab.transport = t /\ \E u \in Unopened : transports' = Opened("websocket", u)
  <2>1. PICK u \in Unopened : transports' = Opened("websocket", u)
    BY <1>3
  <2>2. u \in Transports /\ transports[u].at = "unused"
    BY DEF Unopened
  <2>3. /\ transports'[u] = [kind |-> "websocket", at |-> "connecting"]
        /\ \A w \in Transports \ {u} :
              transports'[w] = IF w = t THEN [transports[w] EXCEPT !.at = "closed"] ELSE transports[w]
    BY <1>3, <2>1, <2>2, OpenedTyped
  <2>4. \A w \in Transports \ {u} : EndMoves(transports[w], transports'[w])
    BY <2>3 DEF EndMoves
  <2>5. EndMoves(transports[u], transports'[u])
    BY <2>2, <2>3 DEF EndMoves
  <2>6. transports[t].at # "unused" => transports'[t].at = "closed"
    BY <1>1, <2>2, <2>3 DEF EndState
  <2> QED
    BY <2>4, <2>5, <2>6
<1> QED
  BY <1>2, <1>3 DEF CloseReported

LEMMA ConnectMoves ==
    ASSUME LinkTyped, Connect
    PROVE  \A t \in Transports :
              /\ EndMoves(transports[t], transports'[t])
              /\ t = tab.transport => transports[t].at = "unused" \/ transports'[t].at = "closed"
<1>1. transports \in [Transports -> EndState]
  BY DEF LinkTyped
<1>2. PICK u \in Unopened : transports' = Opened("grpc", u)
  BY DEF Connect
<1>3. u \in Transports /\ transports[u].at = "unused"
  BY DEF Unopened
<1>4. /\ transports'[u] = [kind |-> "grpc", at |-> "connecting"]
      /\ \A w \in Transports \ {u} :
            transports'[w] = IF w = tab.transport THEN [transports[w] EXCEPT !.at = "closed"]
                             ELSE transports[w]
  BY <1>2, <1>3, OpenedTyped
<1> SUFFICES ASSUME NEW t \in Transports
             PROVE  /\ EndMoves(transports[t], transports'[t])
                    /\ t = tab.transport => transports[t].at = "unused" \/ transports'[t].at = "closed"
  OBVIOUS
<1>5. CASE t = u
  BY <1>3, <1>4, <1>5 DEF EndMoves
<1>6. CASE t # u /\ t = tab.transport
  BY <1>1, <1>4, <1>6 DEF EndMoves, EndState
<1>7. CASE t # u /\ t # tab.transport
  BY <1>4, <1>7 DEF EndMoves
<1> QED
  BY <1>5, <1>6, <1>7

LinkInvariant == LinkTyped /\ \A t \in Transports \ broken : InLine(t)

\* The steps that touch neither what was said nor the calls.
LEMMA PageSteps ==
    ASSUME LinkTyped, NEW t \in Transports, InLine(t),
           \/ EnterRoom \/ TimerFires \/ Destroy
           \/ \E u \in Transports : Breaks(u) \/ FirstMessage(u)
    PROVE  InLine(t)'
<1>1. /\ transports \in [Transports -> EndState] /\ spoken \in [Transports -> SpokenState]
      /\ tab.transport \in 0..MaxTransports
  BY DEF LinkTyped, TabState
<1>2. UNCHANGED <<calls, heard>>
  BY DEF EnterRoom, TimerFires, Connect, Destroy, Breaks, FirstMessage
<1>3. tab.transport # NoTransport => tab.transport \in Transports
  BY <1>1, LinkAssumption DEF NoTransport, Transports
<1>4. CASE EnterRoom \/ TimerFires
  <2>1. Connect
    BY <1>4 DEF EnterRoom, TimerFires
  <2>2. /\ EndMoves(transports[t], transports'[t])
        /\ t = tab.transport => transports[t].at = "unused" \/ transports'[t].at = "closed"
    BY <2>1, ConnectMoves
  <2>3. \/ spoken'[t] = spoken[t]
        \/ spoken'[t] = [spoken[t] EXCEPT !.pending = <<>>] /\ t = tab.transport
    BY <1>3, <2>1, Forgotten DEF Connect
  <2> QED
    BY <1>2, <2>2, <2>3, LineStays
<1>5. CASE Destroy
  <2>1. transports' = [u \in Transports |-> IF u = tab.transport THEN [transports[u] EXCEPT !.at = "closed"]
                                           ELSE transports[u]]
    BY <1>5 DEF Destroy, Close
  <2>2. /\ EndMoves(transports[t], transports'[t])
        /\ t = tab.transport => transports'[t].at = "closed"
    BY <1>1, <2>1 DEF EndMoves, EndState
  <2>3. \/ spoken'[t] = spoken[t]
        \/ spoken'[t] = [spoken[t] EXCEPT !.pending = <<>>] /\ t = tab.transport
    BY <1>3, <1>5, Forgotten DEF Destroy
  <2> QED
    BY <1>2, <2>2, <2>3, LineStays
<1>6. ASSUME NEW u \in Transports, Breaks(u) PROVE InLine(t)'
  <2>1. /\ EndMoves(transports[t], transports'[t])
        /\ t = u => transports'[t].at = "closed"
    BY <1>6, CloseMoves DEF Breaks
  <2>2. \/ spoken'[t] = spoken[t]
        \/ spoken'[t] = [spoken[t] EXCEPT !.pending = <<>>] /\ t = u
    BY <1>6, Forgotten DEF Breaks
  <2> QED
    BY <1>2, <2>1, <2>2, LineStays
<1>7. ASSUME NEW u \in Transports, FirstMessage(u) PROVE InLine(t)'
  <2>1. UNCHANGED spoken /\ transports' = [transports EXCEPT ![u].at = "open"]
        /\ transports[u].at = "connecting"
    BY <1>7 DEF FirstMessage
  <2>2. EndMoves(transports[t], transports'[t])
    BY <1>1, <2>1 DEF EndMoves
  <2> QED
    BY <1>2, <2>1, <2>2, LineStays
<1> QED
  BY <1>4, <1>5, <1>6, <1>7

LEMMA CallSteps ==
    ASSUME LinkTyped, NEW c \in calls, NEW t \in Transports \ broken', InLine(t),
           Returns(c) \/ CallFails(c) \/ FindSession(c) \/ Accept(c)
    PROVE  InLine(t)'
<1>1. /\ c \in CallState /\ c.of \in Transports /\ c.payload \in Payloads
      /\ spoken \in [Transports -> SpokenState] /\ heard \in Seq(HeardState)
  BY DEF LinkTyped, CallState
<1>2. CASE t = c.of
  <2>1. ~CallFails(c)
    BY <1>2 DEF CallFails
  <2>2. Returns(c) => c.step = "accepted"
    BY <1>2 DEF Returns
  <2> QED
    BY <1>1, <1>2, <2>1, <2>2, LineIsAnswered, LineIsFound, LineIsHeard
<1>3. CASE t # c.of
  <2>1. \A d : d.of = t => (d \in calls' <=> d \in calls)
    <3>1. \A step : [c EXCEPT !.step = step].of = c.of
      BY <1>1 DEF CallState
    <3> QED
      BY <1>3, <3>1 DEF Returns, CallFails, FindSession, Accept, Answer
  <2>2. spoken'[t] = spoken[t]
    <3>1. Forget(c.of)[t] = spoken[t] /\ Forget(c.of) \in [Transports -> SpokenState]
      BY <1>1, <1>3, Forgotten
    <3>2. \/ UNCHANGED spoken
          \/ spoken' = [spoken EXCEPT ![c.of].waiting = Nothing]
          \/ spoken' = [Forget(c.of) EXCEPT ![c.of].waiting = Nothing]
      BY DEF Returns, CallFails, FindSession, Accept
    <3> HIDE DEF Forget
    <3> QED
      BY <1>1, <1>3, <3>1, <3>2
  <2>3. EndMoves(transports[t], transports'[t])
    <3>1. UNCHANGED transports \/ CloseReported(c.of, 1)
      BY DEF Returns, CallFails, FindSession, Accept, Fail
    <3> QED
      BY <1>1, <3>1, CloseMoves DEF EndMoves
  <2>4. ASSUME NEW n \in Nat, HeardTo(heard, t, n) PROVE HeardTo(heard', t, n)
    <3>1. UNCHANGED heard \/ heard' = heard \o Numbered(c.of, c.payload)
      BY DEF Returns, CallFails, FindSession, Accept, HandOver, Numbered
    <3>2. HeardTo(heard \o Numbered(c.of, c.payload), t, n)
      <4>1. t \in Transports \ {c.of}
        BY <1>3
      <4> QED
        BY <1>1, <2>4, <4>1, OthersHeard
    <3> QED
      BY <2>4, <3>1, <3>2
  <2> QED
    BY <2>1, <2>2, <2>3, <2>4, LineStays
<1> QED
  BY <1>2, <1>3

LEMMA LineStep ==
    ASSUME LinkTyped, NEW t \in Transports \ broken', InLine(t), [LinkNext]_linkVars
    PROVE  InLine(t)'
<1>1. /\ spoken \in [Transports -> SpokenState] /\ heard \in Seq(HeardState)
      /\ EndMoves(transports[t], transports[t])
  BY DEF LinkTyped, EndMoves
<1>2. CASE UNCHANGED <<transports, spoken, calls, heard>>
  BY <1>1, <1>2, LineStays
<1>3. ASSUME NEW u \in Transports, Say(u) \/ FlushTimer(u) \/ StartCall(u) \/ ReadFrame(u)
      PROVE  InLine(t)'
  <2>1. CASE t = u
    BY <1>3, <2>1, LineSays, LineFlushes, LineIsSent, LineIsRead
  <2>2. CASE t # u
    <3>1. UNCHANGED transports
      BY <1>3 DEF Say, FlushTimer, StartCall, ReadFrame
    <3>2. spoken'[t] = spoken[t]
      <4>1. CASE Say(u)
        BY <2>2, <4>1, Spoken
      <4>2. CASE FlushTimer(u) \/ StartCall(u) \/ ReadFrame(u)
        BY <1>1, <2>2, <4>2 DEF FlushTimer, StartCall, ReadFrame
      <4> QED
        BY <1>3, <4>1, <4>2
    <3>3. \A d : d.of = t => (d \in calls' <=> d \in calls)
      BY <1>3, <2>2 DEF Say, FlushTimer, StartCall, ReadFrame
    <3>4. ASSUME NEW n \in Nat, HeardTo(heard, t, n) PROVE HeardTo(heard', t, n)
      <4>1. CASE ReadFrame(u)
        <5>1. /\ heard' = heard \o Numbered(u, Head(spoken[u].chain))
              /\ spoken[u].chain \in Seq(Payloads) /\ spoken[u].chain # <<>>
          BY <1>1, <4>1 DEF ReadFrame, HandOver, Numbered, SpokenState
        <5>2. Head(spoken[u].chain) \in Payloads
          BY <5>1, HeadTailProperties
        <5>3. t \in Transports \ {u}
          BY <2>2
        <5> QED
          BY <1>1, <1>3, <3>4, <5>1, <5>2, <5>3, OthersHeard
      <4>2. CASE ~ReadFrame(u)
        BY <1>3, <3>4, <4>2 DEF Say, FlushTimer, StartCall
      <4> QED
        BY <4>1, <4>2
    <3> QED
      BY <1>1, <3>1, <3>2, <3>3, <3>4, LineStays
  <2> QED
    BY <2>1, <2>2
<1>4. ASSUME NEW u \in Transports,
             \/ RefuseSubscription(u) \/ Admit(u) \/ Register(u) \/ Abandon(u)
             \/ EndSubscription(u) \/ RemoveSession(u)
      PROVE  InLine(t)'
  BY <1>2, <1>4 DEF RefuseSubscription, Admit, Register, Abandon, EndSubscription, RemoveSession, Goes
<1>5. CASE UNCHANGED linkVars
  BY <1>2, <1>5 DEF linkVars
<1> QED
  BY <1>3, <1>4, <1>5, PageSteps, CallSteps DEF LinkNext

LEMMA CallsTyped ==
    ASSUME LinkTyped, NEW c \in calls, NEW step \in {"found", "accepted", "refused"}, Answer(c, step)
    PROVE  calls' \subseteq CallState
<1>1. c \in CallState
  BY DEF LinkTyped
<1>2. [c EXCEPT !.step = step] \in CallState
  BY <1>1 DEF CallState
<1> QED
  BY <1>2 DEF Answer, LinkTyped

LEMMA LinkKeepsTypes ==
    ASSUME LinkTyped, [LinkNext]_linkVars
    PROVE  LinkTyped'
<1> USE DEF LinkTyped
<1>1. /\ transports \in [Transports -> EndState] /\ spoken \in [Transports -> SpokenState]
      /\ sessions \in [Transports -> SessionState] /\ tab \in TabState
      /\ <<>> \in Payloads /\ Nothing \in Payloads
  BY DEF Payloads, Nothing
<1>2. CASE EnterRoom \/ TimerFires
  <2>1. Connect
    BY <1>2 DEF EnterRoom, TimerFires
  <2>2. tab.transport # NoTransport => tab.transport \in Transports
    BY <1>1, LinkAssumption DEF NoTransport, Transports, TabState
  <2>3. spoken' \in [Transports -> SpokenState]
    BY <2>1, <2>2, Forgotten DEF Connect
  <2>4. UNCHANGED <<calls, heard, broken>>
    BY <2>1 DEF Connect
  <2> QED
    BY <2>1, <2>3, <2>4, ConnectTyped
<1>3. CASE Destroy
  <2>1. tab.transport # NoTransport => tab.transport \in Transports
    BY <1>1, LinkAssumption DEF NoTransport, Transports, TabState
  <2>2. spoken' \in [Transports -> SpokenState]
    BY <1>3, <2>1, Forgotten DEF Destroy
  <2>3. tab' \in TabState
    <3>1. NoTransport \in 0..MaxTransports
      BY LinkAssumption DEF NoTransport
    <3>2. tab' = [tab EXCEPT !.transport = NoTransport, !.timer = FALSE, !.left = TRUE]
      BY <1>3 DEF Destroy, Close
    <3> QED
      BY <1>1, <3>1, <3>2 DEF TabState
  <2>4. transports' \in [Transports -> EndState]
    <3>1. \A t \in Transports : [transports[t] EXCEPT !.at = "closed"] \in EndState
      BY <1>1 DEF EndState
    <3> QED
      BY <1>1, <1>3, <3>1 DEF Destroy, Close
  <2> QED
    BY <1>3, <2>2, <2>3, <2>4 DEF Destroy
<1>4. ASSUME NEW t \in Transports, Breaks(t) PROVE LinkTyped'
  <2>1. spoken' \in [Transports -> SpokenState] /\ UNCHANGED <<calls, heard, broken>>
    BY <1>4, Forgotten DEF Breaks
  <2> QED
    BY <1>4, <2>1, CloseTyped DEF Breaks
<1>5. ASSUME NEW t \in Transports, FirstMessage(t) PROVE LinkTyped'
  <2>1. tab' \in TabState
    <3>1. tab' = [tab EXCEPT !.opened = TRUE]
      BY <1>5 DEF FirstMessage
    <3> QED
      BY <1>1, <3>1 DEF TabState
  <2>2. transports' \in [Transports -> EndState]
    <3>1. [transports[t] EXCEPT !.at = "open"] \in EndState
      BY <1>1 DEF EndState
    <3> QED
      BY <1>1, <1>5, <3>1 DEF FirstMessage
  <2> QED
    BY <1>5, <2>1, <2>2 DEF FirstMessage
<1>6. ASSUME NEW t \in Transports, Say(t) PROVE LinkTyped'
  BY <1>6, Spoken DEF Say
<1>7. ASSUME NEW t \in Transports, FlushTimer(t) PROVE LinkTyped'
  BY <1>7, Flushed DEF FlushTimer
<1>8. ASSUME NEW t \in Transports, StartCall(t) PROVE LinkTyped'
  <2> DEFINE s == spoken[t]
             first == Head(s.chain)
             gone == [s EXCEPT !.waiting = first, !.chain = Tail(s.chain)]
  <2>1. s \in SpokenState /\ s.chain \in Seq(Payloads) /\ s.chain # <<>>
    BY <1>1, <1>8 DEF StartCall, SpokenState
  <2>2. first \in Payloads /\ Tail(s.chain) \in Seq(Payloads)
    BY <2>1, HeadTailProperties
  <2>3. spoken' = [spoken EXCEPT ![t] = gone]
    BY <1>1, <1>8 DEF StartCall
  <2>4. calls' = calls \cup {[of |-> t, payload |-> first, step |-> "sent"]}
    BY <1>8 DEF StartCall
  <2> HIDE DEF s, first
  <2>5. gone \in SpokenState
    BY <2>1, <2>2 DEF SpokenState
  <2>6. [of |-> t, payload |-> first, step |-> "sent"] \in CallState
    BY <2>2 DEF CallState
  <2> HIDE DEF gone
  <2> QED
    BY <1>1, <1>8, <2>3, <2>4, <2>5, <2>6 DEF StartCall
<1>9. ASSUME NEW t \in Transports, ReadFrame(t) PROVE LinkTyped'
  <2> DEFINE s == spoken[t]
             first == Head(s.chain)
             gone == [s EXCEPT !.chain = Tail(s.chain)]
  <2>1. s \in SpokenState /\ s.chain \in Seq(Payloads) /\ s.chain # <<>>
    BY <1>1, <1>9 DEF ReadFrame, SpokenState
  <2>2. first \in Payloads /\ Tail(s.chain) \in Seq(Payloads)
    BY <2>1, HeadTailProperties
  <2>3. spoken' = [spoken EXCEPT ![t] = gone]
    BY <1>1, <1>9 DEF ReadFrame
  <2>4. heard' = heard \o Numbered(t, first)
    BY <1>9 DEF ReadFrame, HandOver, Numbered
  <2> HIDE DEF s, first
  <2>5. gone \in SpokenState
    BY <2>1, <2>2 DEF SpokenState
  <2>6. heard' \in Seq(HeardState)
    BY <2>2, <2>4, HandedOver
  <2> HIDE DEF gone
  <2> QED
    BY <1>1, <1>9, <2>3, <2>5, <2>6 DEF ReadFrame
<1>10. ASSUME NEW t \in Transports,
              \/ RefuseSubscription(t) \/ Admit(t) \/ Register(t) \/ Abandon(t)
              \/ EndSubscription(t) \/ RemoveSession(t)
       PROVE  LinkTyped'
  <2>1. /\ sessions' \in [Transports -> SessionState]
        /\ UNCHANGED <<tab, transports, spoken, calls, heard, broken, doubled>>
    BY <1>1, <1>10 DEF RefuseSubscription, Admit, Register, Abandon, EndSubscription,
                     RemoveSession, Goes, SessionState
  <2> QED
    BY <2>1
<1>11. ASSUME NEW c \in calls, Returns(c) \/ CallFails(c) PROVE LinkTyped'
  <2>1. c \in CallState /\ c.of \in Transports
    BY DEF CallState
  <2>2. calls' \subseteq CallState /\ broken' \subseteq Transports /\ UNCHANGED heard
    BY <1>11, <2>1 DEF Returns, CallFails
  <2>3. /\ tab' \in TabState /\ transports' \in [Transports -> EndState]
        /\ sessions' \in [Transports -> SessionState] /\ doubled' \in BOOLEAN
    <3>1. UNCHANGED <<tab, transports, sessions, doubled>> \/ CloseReported(c.of, 1)
      BY <1>11 DEF Returns, CallFails, Fail
    <3> QED
      BY <2>1, <3>1, CloseTyped
  <2>4. spoken' \in [Transports -> SpokenState]
    <3>1. Forget(c.of) \in [Transports -> SpokenState]
      BY <2>1, Forgotten
    <3>2. \E f \in {spoken, Forget(c.of)} : spoken' = [f EXCEPT ![c.of].waiting = Nothing]
      BY <1>11 DEF Returns, CallFails
    <3> HIDE DEF Forget
    <3>3. PICK f \in [Transports -> SpokenState] : spoken' = [f EXCEPT ![c.of].waiting = Nothing]
      BY <1>1, <3>1, <3>2
    <3>4. [f[c.of] EXCEPT !.waiting = Nothing] \in SpokenState
      BY <1>1, <2>1 DEF SpokenState
    <3> QED
      BY <2>1, <3>3, <3>4
  <2> QED
    BY <2>2, <2>3, <2>4
<1>12. ASSUME NEW c \in calls, FindSession(c) PROVE LinkTyped'
  <2>1. calls' \subseteq CallState
    BY <1>12, CallsTyped DEF FindSession
  <2> QED
    BY <1>12, <2>1 DEF FindSession
<1>13. ASSUME NEW c \in calls, Accept(c) PROVE LinkTyped'
  <2>1. calls' \subseteq CallState
    BY <1>13, CallsTyped DEF Accept
  <2>2. c \in CallState /\ c.of \in Transports /\ c.payload \in Payloads
    BY DEF CallState
  <2>3. heard' = heard \o Numbered(c.of, c.payload)
    BY <1>13 DEF Accept, HandOver, Numbered
  <2>4. heard' \in Seq(HeardState)
    BY <2>2, <2>3, HandedOver
  <2> QED
    BY <1>13, <2>1, <2>4 DEF Accept
<1>14. CASE UNCHANGED linkVars
  BY <1>14 DEF linkVars
<1> QED
  BY <1>2, <1>3, <1>4, <1>5, <1>6, <1>7, <1>8, <1>9, <1>10, <1>11, <1>12, <1>13, <1>14 DEF LinkNext

\* What the page says through a transport none of whose calls has failed
\* reaches the room in the order it was said and without a gap, however many
\* transports it opens and however much it says (realtime-transport.ts 69,
\* grpc.rs 241).
THEOREM UplinkStaysOrdered == LinkSpec => []UplinkIsOrdered
<1>1. LinkInit => LinkInvariant
  BY LinkTypesStart, LineStart DEF LinkInvariant
<1>2. LinkInvariant /\ [LinkNext]_linkVars => LinkInvariant'
  <2> SUFFICES ASSUME LinkInvariant, [LinkNext]_linkVars PROVE LinkInvariant'
    OBVIOUS
  <2>1. broken \subseteq broken'
    BY DEF LinkNext, linkVars, EnterRoom, TimerFires, Connect, Destroy, Breaks, FirstMessage, Say,
           FlushTimer, StartCall, RefuseSubscription, Admit, Register, Abandon, EndSubscription,
           RemoveSession, Goes, ReadFrame, Returns, CallFails, FindSession, Accept
  <2> QED
    BY <2>1, LinkKeepsTypes, LineStep DEF LinkInvariant
<1>3. LinkInvariant => UplinkIsOrdered
  <2> SUFFICES ASSUME LinkInvariant, NEW t \in Transports \ broken, NEW j \in Through(t)
               PROVE  /\ \A i \in Through(t) : i < j => NumberHeard(i) < NumberHeard(j)
                      /\ \A n \in 1..(NumberHeard(j) - 1) :
                            \E i \in Through(t) : i < j /\ NumberHeard(i) = n
    BY DEF UplinkIsOrdered
  <2>1. heard \in Seq(HeardState) /\ DOMAIN heard = 1..Len(heard) /\ Len(heard) \in Nat
    BY LenProperties DEF LinkInvariant, LinkTyped
  <2>2. PICK last \in Nat : HeardTo(heard, t, last)
    BY DEF LinkInvariant, InLine, LineOf
  <2>3. /\ Through(t) \subseteq 1..Len(heard)
        /\ \A i \in Through(t) : heard[i][1] = t /\ heard[i][2] \in Nat /\ heard[i][2] <= last
    BY <2>1, <2>2, ElementOfSeq DEF Through, HeardState, HeardTo
  <2>4. \A i, k \in Through(t) : i < k => NumberHeard(i) < NumberHeard(k)
    BY <2>2, <2>3 DEF HeardTo, NumberHeard
  <2>5. ASSUME NEW n \in 1..(NumberHeard(j) - 1)
        PROVE  \E i \in Through(t) : i < j /\ NumberHeard(i) = n
    <3>1. n \in 1..last /\ n < NumberHeard(j)
      BY <2>2, <2>3 DEF NumberHeard
    <3>2. PICK i \in 1..Len(heard) : heard[i] = <<t, n>>
      BY <2>2, <3>1 DEF HeardTo
    <3>3. i \in Through(t) /\ NumberHeard(i) = n
      BY <2>1, <3>2 DEF Through, NumberHeard
    <3>4. i < j
      <4>1. i \in Nat /\ j \in Nat /\ i # j
        BY <2>3, <3>1, <3>2, <3>3
      <4>2. ~(j < i)
        BY <2>3, <2>4, <3>1, <3>3 DEF NumberHeard
      <4> QED
        BY <4>1, <4>2
    <3> QED
      BY <3>3, <3>4
  <2> QED
    BY <2>4, <2>5
<1> QED
  BY <1>1, <1>2, <1>3, PTL DEF LinkSpec

-----------------------------------------------------------------------------
(* RealtimeLink: leaving the room.                                         *)

\* A timer that nobody can clear is one of two that one close has set, and a
\* page that left has neither transport nor timer.
TabInvariant ==
    /\ LinkTyped
    /\ tab.strays > 0 => doubled
    /\ tab.left /\ ~doubled => tab.transport = NoTransport /\ ~tab.timer

LEMMA TabHearsClose ==
    ASSUME TabInvariant, NEW t \in Transports, NEW times \in {1, 2}, CloseReported(t, times)
    PROVE  /\ tab'.strays > 0 => doubled'
           /\ tab'.left /\ ~doubled' => tab'.transport = NoTransport /\ ~tab'.timer
<1>1. tab \in TabState /\ tab.strays \in Nat /\ t # NoTransport
      /\ (tab.transport = t => ~tab.left \/ doubled)
  BY LinkAssumption DEF TabInvariant, LinkTyped, TabState, Transports, NoTransport
<1>2. CASE UNCHANGED <<tab, doubled>>
  BY <1>2 DEF TabInvariant
<1>3. CASE tab.transport = t /\ ~tab.opened /\ ~tab.fallback
  <2>1. /\ UNCHANGED doubled
        /\ \E u \in Transports : tab' = [tab EXCEPT !.transport = u, !.fallback = TRUE]
    BY <1>3 DEF CloseReported, Unopened
  <2>2. tab'.strays = tab.strays /\ tab'.left = tab.left
    BY <1>1, <2>1 DEF TabState
  <2> QED
    BY <1>1, <1>3, <2>1, <2>2 DEF TabInvariant
<1>4. CASE tab.transport = t /\ (tab.opened \/ tab.fallback)
  <2> DEFINE n == tab.strays + (times - 1)
  <2>1. tab' = [tab EXCEPT !.timer = TRUE, !.strays = n]
    BY <1>4 DEF CloseReported
  <2>2. doubled' = (doubled \/ times > 1)
    BY <1>4 DEF CloseReported
  <2>3. n > 0 => tab.strays > 0 \/ times > 1
    BY <1>1
  <2> HIDE DEF n
  <2>4. tab'.strays = n /\ tab'.left = tab.left /\ tab'.transport = tab.transport
    BY <1>1, <2>1 DEF TabState
  <2> QED
    BY <1>1, <1>4, <2>2, <2>3, <2>4 DEF TabInvariant
<1> QED
  BY <1>2, <1>3, <1>4 DEF CloseReported

LEMMA TabStep ==
    ASSUME TabInvariant, [LinkNext]_linkVars
    PROVE  TabInvariant'
<1> SUFFICES /\ tab'.strays > 0 => doubled'
             /\ tab'.left /\ ~doubled' => tab'.transport = NoTransport /\ ~tab'.timer
  BY LinkKeepsTypes DEF TabInvariant
<1>1. tab \in TabState /\ tab.strays \in Nat /\ calls \subseteq CallState
  BY DEF TabInvariant, LinkTyped, TabState
<1>2. CASE EnterRoom \/ TimerFires
  <2> DEFINE n == IF tab.strays = 0 THEN 0 ELSE tab.strays - 1
  <2>1. ~tab.left \/ doubled
    BY <1>1, <1>2 DEF EnterRoom, TimerFires, TabInvariant
  <2>2. /\ UNCHANGED doubled
        /\ \E t \in Transports : tab' = [tab EXCEPT !.transport = t, !.opened = FALSE, !.fallback = FALSE,
                                                    !.timer = FALSE, !.strays = n]
    BY <1>2 DEF EnterRoom, TimerFires, Connect, Unopened
  <2>3. n > 0 => tab.strays > 0
    BY <1>1
  <2> HIDE DEF n
  <2>4. tab'.strays = n /\ tab'.left = tab.left
    BY <1>1, <2>2 DEF TabState
  <2> QED
    BY <2>1, <2>2, <2>3, <2>4 DEF TabInvariant
<1>3. CASE Destroy
  <2>1. tab' = [tab EXCEPT !.transport = NoTransport, !.timer = FALSE, !.left = TRUE]
        /\ UNCHANGED doubled
    BY <1>3 DEF Destroy, Close
  <2>2. tab'.strays = tab.strays /\ tab'.transport = NoTransport /\ ~tab'.timer
    BY <1>1, <2>1 DEF TabState
  <2> QED
    BY <2>1, <2>2 DEF TabInvariant
<1>4. ASSUME NEW t \in Transports, Breaks(t)
      PROVE  /\ tab'.strays > 0 => doubled'
             /\ tab'.left /\ ~doubled' => tab'.transport = NoTransport /\ ~tab'.timer
  BY <1>4, TabHearsClose DEF Breaks
<1>5. ASSUME NEW t \in Transports, FirstMessage(t)
      PROVE  /\ tab'.strays > 0 => doubled'
             /\ tab'.left /\ ~doubled' => tab'.transport = NoTransport /\ ~tab'.timer
  <2>1. tab' = [tab EXCEPT !.opened = TRUE] /\ UNCHANGED doubled
    BY <1>5 DEF FirstMessage
  <2>2. /\ tab'.strays = tab.strays /\ tab'.transport = tab.transport
        /\ tab'.left = tab.left /\ tab'.timer = tab.timer
    BY <1>1, <2>1 DEF TabState
  <2> QED
    BY <2>1, <2>2 DEF TabInvariant
<1>6. ASSUME NEW c \in calls, Returns(c) \/ CallFails(c)
      PROVE  /\ tab'.strays > 0 => doubled'
             /\ tab'.left /\ ~doubled' => tab'.transport = NoTransport /\ ~tab'.timer
  <2>1. UNCHANGED <<tab, doubled>> \/ CloseReported(c.of, 1)
    BY <1>6 DEF Returns, CallFails, Fail
  <2>2. c.of \in Transports
    BY <1>1 DEF CallState
  <2> QED
    BY <2>1, <2>2, TabHearsClose DEF TabInvariant
<1>7. CASE UNCHANGED <<tab, doubled>>
  BY <1>7 DEF TabInvariant
<1>8. ASSUME NEW t \in Transports,
             \/ Say(t) \/ FlushTimer(t) \/ StartCall(t) \/ RefuseSubscription(t) \/ Admit(t)
             \/ Register(t) \/ Abandon(t) \/ EndSubscription(t) \/ RemoveSession(t) \/ ReadFrame(t)
      PROVE  UNCHANGED <<tab, doubled>>
  BY <1>8 DEF Say, FlushTimer, StartCall, RefuseSubscription, Admit, Register, Abandon,
              EndSubscription, RemoveSession, Goes, ReadFrame
<1>9. ASSUME NEW c \in calls, FindSession(c) \/ Accept(c) PROVE UNCHANGED <<tab, doubled>>
  BY <1>9 DEF FindSession, Accept
<1>10. CASE UNCHANGED linkVars
  BY <1>7, <1>10 DEF linkVars
<1> QED
  BY <1>2, <1>3, <1>4, <1>5, <1>6, <1>7, <1>8, <1>9, <1>10 DEF LinkNext

\* A page that left the room does not come back to it, whatever broke before
\* and whatever breaks now (voice-session.ts 154, 167).
THEOREM LeftPagesNeverReturn == LinkSpec => []LeftPagesStayOut
<1>1. LinkInit => TabInvariant
  <2> SUFFICES ASSUME LinkInit PROVE TabInvariant
    OBVIOUS
  <2>1. tab.strays = 0 /\ ~tab.left
    BY DEF LinkInit
  <2> QED
    BY <2>1, LinkTypesStart DEF TabInvariant
<1>2. TabInvariant => LeftPagesStayOut
  BY DEF TabInvariant, LeftPagesStayOut
<1> QED
  BY <1>1, <1>2, TabStep, PTL DEF LinkSpec

-----------------------------------------------------------------------------
(* BrowserVad: the energy bridge, and the way of a frame to the page.      *)

Detectors == [speaking : BOOLEAN, silence : Nat, frames : Nat, continuation : Nat, quiet : Nat,
              confirmed : Nat, completed : Nat,
              locked : BOOLEAN, humRun : Nat, clearRun : Nat, recovered : BOOLEAN]
HeardFrames == [sure : BOOLEAN, start : BOOLEAN, active : BOOLEAN, loud : BOOLEAN, shape : Shapes]

\* How long Silero may have heard nothing, from what the gate has counted.  A
\* forced end starts the count of quiet frames anew; a segment that energy
\* continues is too short for a second one.
Bridged(v, n) ==
    /\ v.speaking \/ v.continuation > 0 => (v.quiet <= Hangover => n <= v.quiet + Hangover)
    /\ v.speaking =>
          /\ v.silence < EndSilence
          /\ v.quiet > Hangover => n <= v.silence + 2 * Hangover
          /\ (v.quiet <= Hangover => n <= v.quiet) \/ v.frames <= n

LEMMA Lengths ==
    /\ EndSilence \in Nat \ {0} /\ MaxActive \in Nat \ {0} /\ Continuation \in Nat \ {0}
    /\ Hangover \in Nat \ {0} /\ HumClear \in Nat \ {0} /\ HumLock \in Nat /\ Confirmed \in Nat
    /\ PreRollDefault \in Nat \ {0} /\ PreRollEnhanced \in Nat \ {0} /\ Numbers \in Nat \ {0}
    /\ LongQuiet = EndSilence + 2 * Hangover /\ LongQuiet \in Nat /\ MaxActive > LongQuiet
<1>1. /\ {BlockFrames, EndSilence, MaxActive, Continuation, Hangover, PreRollDefault,
          PreRollEnhanced, HumLock, HumClear, Confirmed} \subseteq Nat \ {0}
      /\ MaxActive > EndSilence + 2 * Hangover
      /\ Numbers \in Nat /\ Numbers > PreRollEnhanced + 1
  BY VadAssumption
<1>2. /\ EndSilence \in Nat \ {0} /\ MaxActive \in Nat \ {0} /\ Continuation \in Nat \ {0}
      /\ Hangover \in Nat \ {0} /\ HumClear \in Nat \ {0} /\ HumLock \in Nat /\ Confirmed \in Nat
      /\ PreRollDefault \in Nat \ {0} /\ PreRollEnhanced \in Nat \ {0}
  BY <1>1
<1> QED
  BY <1>1, <1>2 DEF LongQuiet

\* The filter changes none of what the gate counts.
LEMMA ShapeKeeps ==
    ASSUME NEW v \in Detectors, NEW f \in HeardFrames, worker.enhanced \in BOOLEAN
    PROVE  LET w == Shape(v, f).v IN
           /\ w \in Detectors
           /\ w.speaking = v.speaking /\ w.silence = v.silence /\ w.frames = v.frames
           /\ w.continuation = v.continuation
<1> DEFINE Alike(w) == /\ w \in Detectors
                       /\ w.speaking = v.speaking /\ w.silence = v.silence
                       /\ w.frames = v.frames /\ w.continuation = v.continuation
           unlike == [v |-> v, like |-> FALSE, override |-> FALSE, voice |-> FALSE]
           noHum == [v EXCEPT !.humRun = 0]
           clear == f.loud /\ f.shape = "clear"
           locks == v.humRun + 1 >= HumLock
<1>1. Alike(v) /\ v.humRun \in Nat /\ v.clearRun \in Nat /\ v.confirmed \in Nat
      /\ v.humRun + 1 \in Nat /\ v.clearRun + 1 \in Nat
  BY DEF Detectors
<1>2. Alike(noHum) /\ noHum.clearRun = v.clearRun
  BY DEF Detectors
<1>3. \A n \in Nat : Alike([noHum EXCEPT !.clearRun = n]) /\ Alike([v EXCEPT !.humRun = n])
  BY DEF Detectors
<1>4. Alike([noHum EXCEPT !.locked = FALSE, !.clearRun = 0, !.recovered = TRUE])
  BY DEF Detectors
<1>5. \A n \in Nat : Alike([v EXCEPT !.locked = TRUE, !.humRun = 0, !.clearRun = 0,
                               !.recovered = FALSE, !.confirmed = n])
  BY DEF Detectors
<1>6. f.shape \in {"noise", "hum", "clear", "other"}
  BY DEF HeardFrames, Shapes
<1> DEFINE s == Shape(v, f)
<1>7. CASE f.shape = "noise" \/ ~worker.enhanced
  <2>1. s.v = v
    BY <1>6, <1>7 DEF Shape
  <2> QED
    BY <1>1, <2>1
<1>8. CASE worker.enhanced /\ f.shape = "hum"
  <2> DEFINE kept == IF ~v.recovered /\ v.speaking THEN 0 ELSE v.confirmed
  <2>1. s.v = IF ~locks THEN [v EXCEPT !.humRun = v.humRun + 1]
              ELSE [v EXCEPT !.locked = TRUE, !.humRun = 0, !.clearRun = 0,
                             !.recovered = FALSE, !.confirmed = kept]
    BY <1>8 DEF Shape
  <2>2. kept \in Nat
    BY <1>1
  <2>3. v.humRun + 1 \in Nat
    BY <1>1
  <2> DEFINE next == v.humRun + 1
  <2>4. Alike([v EXCEPT !.humRun = next])
    <3> HIDE DEF next, Alike
    <3>1. next \in Nat
      BY <2>3 DEF next
    <3> QED
      BY <1>3, <3>1
  <2>5. Alike([v EXCEPT !.locked = TRUE, !.humRun = 0, !.clearRun = 0,
                        !.recovered = FALSE, !.confirmed = kept])
    <3> HIDE DEF kept, Alike
    <3> QED
      BY <1>5, <2>2
  <2>6. s.v = [v EXCEPT !.humRun = next]
        \/ s.v = [v EXCEPT !.locked = TRUE, !.humRun = 0, !.clearRun = 0,
                           !.recovered = FALSE, !.confirmed = kept]
    BY <2>1
  <2> HIDE DEF s, kept, next, Alike
  <2>7. Alike(s.v)
    BY <2>4, <2>5, <2>6
  <2> QED
    BY <2>7 DEF Alike, s
<1>9. CASE worker.enhanced /\ f.shape \in {"clear", "other"} /\ ~v.locked
  <2>1. s.v = noHum
    BY <1>9 DEF Shape
  <2> QED
    BY <1>2, <2>1
<1>10. CASE worker.enhanced /\ f.shape \in {"clear", "other"} /\ v.locked
  <2> DEFINE less == IF v.clearRun > 0 THEN v.clearRun - 1 ELSE 0
             more == v.clearRun + 1
  <2>1. \/ s.v = [noHum EXCEPT !.clearRun = IF noHum.clearRun > 0 THEN noHum.clearRun - 1 ELSE 0]
        \/ s.v = [noHum EXCEPT !.clearRun = noHum.clearRun + 1]
        \/ s.v = [noHum EXCEPT !.locked = FALSE, !.clearRun = 0, !.recovered = TRUE]
    BY <1>10 DEF Shape
  <2>2. less \in Nat /\ more \in Nat
    BY <1>1
  <2> HIDE DEF s, less, more, noHum, Alike
  <2>3. \/ s.v = [noHum EXCEPT !.clearRun = less]
        \/ s.v = [noHum EXCEPT !.clearRun = more]
        \/ s.v = [noHum EXCEPT !.locked = FALSE, !.clearRun = 0, !.recovered = TRUE]
    BY <1>2, <2>1 DEF less, more
  <2>4. Alike([noHum EXCEPT !.clearRun = less]) /\ Alike([noHum EXCEPT !.clearRun = more])
    BY <1>3, <2>2
  <2>5. Alike(s.v)
    BY <1>4, <2>3, <2>4
  <2> QED
    BY <2>5 DEF Alike, s
<1>11. v.locked \in BOOLEAN
  BY DEF Detectors
<1> QED
  BY <1>6, <1>7, <1>8, <1>9, <1>10, <1>11

\* The gate, from the counters of a segment.
LEMMA GateMoves ==
    ASSUME NEW v \in Detectors, NEW voiced \in BOOLEAN
    PROVE  LET g == Gate(v, voiced)
               w == g.v
               silence == IF voiced THEN 0 ELSE v.silence + 1 IN
           /\ w \in Detectors /\ w.quiet = v.quiet
           /\ \/ /\ g.flags = "started" /\ ~v.speaking /\ voiced
                 /\ w.speaking /\ w.silence = 0 /\ w.frames = 1 /\ w.continuation = 0
              \/ /\ g.flags = "none" /\ ~v.speaking /\ ~voiced
                 /\ ~w.speaking /\ (w.continuation > 0 => v.continuation > 0)
              \/ /\ g.flags = "ended" /\ v.speaking /\ ~w.speaking
                 /\ w.continuation > 0 => voiced /\ v.frames + 1 >= MaxActive
              \/ /\ g.flags = "active" /\ v.speaking /\ w.speaking
                 /\ w.silence = silence /\ silence < EndSilence /\ w.frames = v.frames + 1
                 /\ w.continuation = v.continuation
<1> DEFINE silence == IF voiced THEN 0 ELSE v.silence + 1
           forced == v.frames + 1 >= MaxActive
           less == IF v.continuation > 0 THEN v.continuation - 1 ELSE 0
           more == v.frames + 1
           again == IF forced /\ voiced THEN Continuation ELSE 0
           g == Gate(v, voiced)
<1>1. /\ v.silence \in Nat /\ v.frames \in Nat /\ v.continuation \in Nat /\ v.quiet \in Nat
      /\ v.speaking \in BOOLEAN
  BY DEF Detectors
<1>2. /\ silence \in Nat /\ less \in Nat /\ more \in Nat /\ again \in Nat
      /\ less > 0 => v.continuation > 0
      /\ again > 0 => forced /\ voiced
  BY <1>1, Lengths
<1>3. \/ /\ ~v.speaking /\ voiced /\ g.flags = "started"
         /\ g.v = [v EXCEPT !.speaking = TRUE, !.silence = 0, !.frames = 1, !.continuation = 0]
      \/ /\ ~v.speaking /\ ~voiced /\ g.flags = "none" /\ g.v = [v EXCEPT !.continuation = less]
      \/ /\ v.speaking /\ g.flags = "ended"
         /\ g.v = [v EXCEPT !.speaking = FALSE, !.silence = 0, !.frames = 0, !.continuation = again]
      \/ /\ v.speaking /\ g.flags = "active" /\ ~(silence >= EndSilence)
         /\ g.v = [v EXCEPT !.silence = silence, !.frames = more]
  BY <1>1 DEF Gate
<1>4. ~(silence >= EndSilence) => silence < EndSilence
  BY <1>2, Lengths
<1>5. forced => v.frames + 1 >= MaxActive
  OBVIOUS
<1>6. more = v.frames + 1
  OBVIOUS
<1> DEFINE w == g.v
<1> HIDE DEF g, less, again, silence, more, forced
<1>7. CASE /\ ~v.speaking /\ voiced /\ g.flags = "started"
           /\ w = [v EXCEPT !.speaking = TRUE, !.silence = 0, !.frames = 1, !.continuation = 0]
  <2> DEFINE x == [v EXCEPT !.speaking = TRUE, !.silence = 0, !.frames = 1, !.continuation = 0]
  <2>0. /\ x \in Detectors /\ x.quiet = v.quiet /\ x.speaking = TRUE
        /\ x.silence = 0 /\ x.frames = 1 /\ x.continuation = 0
    <3>1. x \in Detectors
      BY DEF Detectors
    <3>2. x.quiet = v.quiet /\ x.speaking = TRUE /\ x.silence = 0 /\ x.frames = 1
          /\ x.continuation = 0
      BY DEF Detectors
    <3> QED
      BY <3>1, <3>2
  <2>1. /\ w \in Detectors
        /\ w.quiet = v.quiet /\ w.speaking = TRUE /\ w.silence = 0 /\ w.frames = 1
        /\ w.continuation = 0
    BY <1>7, <2>0
  <2> QED
    BY <1>7, <2>1 DEF g
<1>8. CASE /\ ~v.speaking /\ ~voiced /\ g.flags = "none" /\ w = [v EXCEPT !.continuation = less]
  <2>1. w \in Detectors /\ w.quiet = v.quiet /\ w.speaking = v.speaking /\ w.continuation = less
    BY <1>2, <1>8 DEF Detectors
  <2> QED
    BY <1>2, <1>8, <2>1 DEF g
<1>9. CASE /\ v.speaking /\ g.flags = "ended"
           /\ w = [v EXCEPT !.speaking = FALSE, !.silence = 0, !.frames = 0, !.continuation = again]
  <2> DEFINE x == [v EXCEPT !.speaking = FALSE, !.silence = 0, !.frames = 0,
                            !.continuation = again]
  <2>0. x \in Detectors /\ x.quiet = v.quiet /\ x.speaking = FALSE /\ x.continuation = again
    <3>1. x \in Detectors
      BY <1>2 DEF Detectors
    <3>2. x.quiet = v.quiet /\ x.speaking = FALSE /\ x.continuation = again
      BY <1>2 DEF Detectors
    <3> QED
      BY <3>1, <3>2
  <2>1. w \in Detectors /\ w.quiet = v.quiet /\ w.speaking = FALSE /\ w.continuation = again
    BY <1>9, <2>0
  <2> QED
    BY <1>2, <1>5, <1>9, <2>1 DEF g
<1>10. CASE /\ v.speaking /\ g.flags = "active" /\ ~(silence >= EndSilence)
            /\ w = [v EXCEPT !.silence = silence, !.frames = more]
  <2>1. w \in Detectors
    BY <1>2, <1>10 DEF Detectors
  <2>2. w = [v EXCEPT !.silence = silence, !.frames = more]
    BY <1>10
  <2>3. /\ w.quiet = v.quiet /\ w.speaking = v.speaking /\ w.silence = silence
        /\ w.frames = more /\ w.continuation = v.continuation
    BY <2>2 DEF Detectors
  <2> QED
    BY <1>4, <1>6, <1>10, <2>1, <2>3 DEF g, silence
<1> QED
  BY <1>3, <1>7, <1>8, <1>9, <1>10

LEMMA FramesAreHeard ==
    ASSUME NEW enhanced \in BOOLEAN, NEW f \in Frames(enhanced)
    PROVE  f \in HeardFrames
<1>1. CASE enhanced = TRUE
  BY <1>1 DEF Frames, HeardFrames
<1>2. CASE enhanced = FALSE
  BY <1>2 DEF Frames, HeardFrames, Shapes
<1> QED
  BY <1>1, <1>2

\* What the judgement of a frame makes of the gate.
Quieter(voice) == IF voice THEN 0 ELSE CountTo(vad.quiet, Hangover + 1)
Voiced(voice, f) == voice \/ (AcceptsEnergy(vad) /\ Quieter(voice) <= Hangover /\ f.active)

\* The gate that a frame with this verdict may leave behind.
Started(w, voiced, quiet) ==
    /\ ~vad.speaking /\ voiced /\ w.speaking /\ w.silence = 0 /\ w.frames = 1
    /\ w.continuation = 0 /\ w.quiet = quiet
Rests(w, voiced, quiet) ==
    /\ ~vad.speaking /\ ~voiced /\ ~w.speaking
    /\ w.continuation > 0 => vad.continuation > 0
    /\ w.quiet = quiet
Ended(w, voiced, quiet) ==
    /\ vad.speaking /\ ~w.speaking /\ w.quiet = 0
    /\ w.continuation > 0 => voiced /\ vad.frames + 1 >= MaxActive
Lasts(w, voiced, quiet) ==
    /\ vad.speaking /\ w.speaking /\ w.silence < EndSilence
    /\ w.silence = IF voiced THEN 0 ELSE vad.silence + 1
    /\ w.frames = vad.frames + 1 /\ w.quiet = quiet

LEMMA JudgeMoves ==
    ASSUME vad \in Detectors, NEW f \in HeardFrames, worker.enhanced \in BOOLEAN
    PROVE  LET j == Judge(f)
               voiced == Voiced(j.voice, f)
               quiet == Quieter(j.voice) IN
           /\ j.v \in Detectors /\ j.voice \in BOOLEAN
           /\ \/ j.flags = "started" /\ Started(j.v, voiced, quiet)
              \/ j.flags = "none" /\ Rests(j.v, voiced, quiet)
              \/ j.flags = "ended" /\ Ended(j.v, voiced, quiet)
              \/ j.flags = "active" /\ Lasts(j.v, voiced, quiet)
<1> DEFINE shape == Shape(vad, f)
           j == Judge(f)
           voice == (f.sure \/ shape.voice) /\ f.start /\ shape.like
           quiet == IF voice THEN 0 ELSE CountTo(vad.quiet, Hangover + 1)
           before == [shape.v EXCEPT !.quiet = quiet]
           voiced == voice \/ Bridges(shape.v, quiet, f)
           gate == Gate(before, voiced)
           base == IF gate.flags # "started" THEN shape.v.confirmed
                   ELSE IF shape.override THEN HumClear ELSE 0
           count == IF voice /\ (vad.speaking \/ gate.flags = "started")
                      THEN CountTo(base, Confirmed) ELSE base
           ended == gate.flags = "ended"
           w == [gate.v EXCEPT
                  !.confirmed = count,
                  !.completed = IF ended THEN count
                                ELSE IF gate.flags = "started" THEN 0 ELSE @,
                  !.quiet = IF ended THEN 0 ELSE @,
                  !.recovered = @ /\ ~ended]
<1>1. j.flags = gate.flags /\ j.voice = voice /\ j.v = w
  BY DEF Judge
<1>2. /\ shape.v \in Detectors
      /\ shape.v.speaking = vad.speaking /\ shape.v.silence = vad.silence
      /\ shape.v.frames = vad.frames /\ shape.v.continuation = vad.continuation
  BY ShapeKeeps
<1>3. vad.quiet \in Nat /\ shape.v.confirmed \in Nat
  BY <1>2 DEF Detectors
<1>4. voice \in BOOLEAN /\ quiet \in Nat /\ voiced \in BOOLEAN
  BY <1>3, Lengths DEF CountTo, Bridges
<1>5. quiet = Quieter(j.voice) /\ voiced = Voiced(j.voice, f)
  BY <1>1, <1>2 DEF Quieter, Voiced, Bridges, AcceptsEnergy
<1> HIDE DEF shape, voice, voiced, quiet, j
<1>6. /\ before \in Detectors /\ before.quiet = quiet /\ before.speaking = vad.speaking
      /\ before.silence = vad.silence /\ before.frames = vad.frames
      /\ before.continuation = vad.continuation
  <2>1. before \in Detectors
    BY <1>2, <1>4 DEF Detectors
  <2>2. /\ before.quiet = quiet /\ before.speaking = shape.v.speaking
        /\ before.silence = shape.v.silence /\ before.frames = shape.v.frames
        /\ before.continuation = shape.v.continuation
    BY <1>2 DEF Detectors
  <2> QED
    BY <1>2, <2>1, <2>2
<1> HIDE DEF before
<1> DEFINE silence == IF voiced THEN 0 ELSE before.silence + 1
<1>7. /\ gate.v \in Detectors /\ gate.v.quiet = before.quiet
      /\ \/ /\ gate.flags = "started" /\ ~before.speaking /\ voiced
            /\ gate.v.speaking /\ gate.v.silence = 0 /\ gate.v.frames = 1
            /\ gate.v.continuation = 0
         \/ /\ gate.flags = "none" /\ ~before.speaking /\ ~voiced
            /\ ~gate.v.speaking /\ (gate.v.continuation > 0 => before.continuation > 0)
         \/ /\ gate.flags = "ended" /\ before.speaking /\ ~gate.v.speaking
            /\ gate.v.continuation > 0 => voiced /\ before.frames + 1 >= MaxActive
         \/ /\ gate.flags = "active" /\ before.speaking /\ gate.v.speaking
            /\ gate.v.silence = silence /\ silence < EndSilence
            /\ gate.v.frames = before.frames + 1
            /\ gate.v.continuation = before.continuation
  BY <1>4, <1>6, GateMoves
<1> HIDE DEF gate
<1>8. base \in Nat
  BY <1>3, Lengths
<1>9. count \in Nat
  <2> HIDE DEF base
  <2> QED
    BY <1>8, Lengths DEF CountTo
<1> DEFINE completed == IF ended THEN count
                        ELSE IF gate.flags = "started" THEN 0 ELSE gate.v.completed
           calm == IF ended THEN 0 ELSE gate.v.quiet
           recovered == gate.v.recovered /\ ~ended
<1>10. w = [gate.v EXCEPT !.confirmed = count, !.completed = completed, !.quiet = calm,
                          !.recovered = recovered]
  BY <1>7 DEF Detectors
<1>11. /\ completed \in Nat /\ calm \in Nat /\ recovered \in BOOLEAN
       /\ calm = IF ended THEN 0 ELSE quiet
  <2> HIDE DEF count
  <2> QED
    BY <1>6, <1>7, <1>9 DEF Detectors
<1> HIDE DEF count, base, completed, calm, recovered
<1> DEFINE x == [gate.v EXCEPT !.confirmed = count, !.completed = completed, !.quiet = calm,
                               !.recovered = recovered]
<1>12. x \in Detectors
  BY <1>7, <1>9, <1>11 DEF Detectors
<1>13. /\ x.speaking = gate.v.speaking /\ x.silence = gate.v.silence /\ x.quiet = calm
       /\ x.frames = gate.v.frames /\ x.continuation = gate.v.continuation
  BY <1>7 DEF Detectors
<1>14. j.v = x
  BY <1>1, <1>10
<1> HIDE DEF w, x, ended
<1>15. /\ j.v.speaking = gate.v.speaking /\ j.v.silence = gate.v.silence /\ j.v.quiet = calm
       /\ j.v.frames = gate.v.frames /\ j.v.continuation = gate.v.continuation
  BY <1>13, <1>14
<1>16. /\ j.v \in Detectors /\ j.voice \in BOOLEAN
  BY <1>1, <1>4, <1>12, <1>14
<1>17. \/ j.flags = "started" /\ Started(j.v, voiced, quiet)
       \/ j.flags = "none" /\ Rests(j.v, voiced, quiet)
       \/ j.flags = "ended" /\ Ended(j.v, voiced, quiet)
       \/ j.flags = "active" /\ Lasts(j.v, voiced, quiet)
  BY <1>1, <1>6, <1>7, <1>11, <1>15 DEF Started, Rests, Ended, Lasts, ended
<1> QED
  BY <1>5, <1>16, <1>17 DEF j

\* A frame keeps the bridge: by cases of what it makes of the gate.
LEMMA BridgeKeeps ==
    ASSUME vad \in Detectors, unheard \in Nat, Bridged(vad, unheard), NEW w \in Detectors,
           NEW voice \in BOOLEAN, NEW f \in HeardFrames, NEW m \in Nat,
           m = IF voice THEN 0 ELSE CountTo(unheard, LongQuiet),
           \/ Started(w, Voiced(voice, f), Quieter(voice))
           \/ Rests(w, Voiced(voice, f), Quieter(voice))
           \/ Ended(w, Voiced(voice, f), Quieter(voice))
           \/ Lasts(w, Voiced(voice, f), Quieter(voice))
    PROVE  Bridged(w, m)
<1> DEFINE v == vad
           n == unheard
           quiet == Quieter(voice)
           voiced == Voiced(voice, f)
<1>1. /\ v.speaking \in BOOLEAN /\ v.silence \in Nat /\ v.frames \in Nat
      /\ v.continuation \in Nat /\ v.quiet \in Nat
      /\ w.speaking \in BOOLEAN /\ w.silence \in Nat /\ w.frames \in Nat
      /\ w.continuation \in Nat /\ w.quiet \in Nat
  BY DEF Detectors
<1>2. /\ EndSilence \in Nat \ {0} /\ Hangover \in Nat \ {0} /\ MaxActive \in Nat
      /\ LongQuiet = EndSilence + 2 * Hangover /\ LongQuiet \in Nat /\ MaxActive > LongQuiet
  BY Lengths
<1>3. voice => m = 0 /\ quiet = 0
  BY DEF Quieter
<1>4. ~voice => /\ m <= n + 1 /\ m >= n /\ (n < LongQuiet => m = n + 1)
                /\ quiet = IF v.quiet < Hangover + 1 THEN v.quiet + 1 ELSE v.quiet
  BY <1>1, <1>2 DEF Quieter, CountTo
<1>5. /\ voiced /\ ~voice => (v.speaking \/ v.continuation > 0) /\ quiet <= Hangover
      /\ voice => voiced
  BY DEF Voiced, AcceptsEnergy
<1>6. quiet \in Nat
  BY <1>1, <1>2 DEF Quieter, CountTo
<1>7. /\ v.speaking \/ v.continuation > 0 => (v.quiet <= Hangover => n <= v.quiet + Hangover)
      /\ v.speaking =>
          /\ v.silence < EndSilence
          /\ v.quiet > Hangover => n <= v.silence + 2 * Hangover
          /\ (v.quiet <= Hangover => n <= v.quiet) \/ v.frames <= n
  BY DEF Bridged
<1> HIDE DEF v, quiet, voiced, n
<1>8. v.speaking => n < LongQuiet
  BY <1>1, <1>2, <1>7 DEF n
<1>9. ASSUME Started(w, voiced, quiet) PROVE Bridged(w, m)
  <2>1. /\ ~v.speaking /\ voiced /\ w.speaking /\ w.silence = 0 /\ w.frames = 1
        /\ w.continuation = 0 /\ w.quiet = quiet
    BY <1>9 DEF Started, v
  <2>2. CASE voice
    BY <1>1, <1>2, <1>3, <1>6, <2>1, <2>2 DEF Bridged
  <2>3. CASE ~voice
    <3>1. v.continuation > 0 /\ quiet <= Hangover /\ v.quiet <= Hangover /\ quiet = v.quiet + 1
      BY <1>1, <1>2, <1>4, <1>5, <1>6, <2>1, <2>3
    <3>2. m <= quiet + Hangover
      BY <1>1, <1>2, <1>4, <1>7, <2>3, <3>1 DEF n
    <3>3. m <= quiet \/ 1 <= m
      BY <1>6
    <3> QED
      BY <1>1, <1>2, <1>6, <2>1, <3>1, <3>2, <3>3 DEF Bridged
  <2> QED
    BY <2>2, <2>3
<1>10. ASSUME Rests(w, voiced, quiet) PROVE Bridged(w, m)
  <2>1. /\ ~v.speaking /\ ~voiced /\ ~w.speaking /\ w.quiet = quiet
        /\ w.continuation > 0 => v.continuation > 0
    BY <1>10 DEF Rests, v
  <2>2. w.continuation > 0 /\ quiet <= Hangover => m <= quiet + Hangover
    BY <1>1, <1>2, <1>4, <1>5, <1>6, <1>7, <2>1 DEF n
  <2> QED
    BY <2>1, <2>2 DEF Bridged
<1>11. ASSUME Ended(w, voiced, quiet) PROVE Bridged(w, m)
  <2>1. /\ v.speaking /\ ~w.speaking /\ w.quiet = 0
        /\ w.continuation > 0 => voiced /\ v.frames + 1 >= MaxActive
    BY <1>11 DEF Ended, v
  <2>2. ASSUME w.continuation > 0, ~voice PROVE m <= Hangover
    <3>1. v.frames + 1 >= MaxActive /\ quiet <= Hangover /\ v.quiet < Hangover
          /\ quiet = v.quiet + 1
      BY <1>1, <1>2, <1>4, <1>5, <1>6, <2>1, <2>2
    <3>2. ~(v.frames <= n)
      BY <1>1, <1>2, <1>8, <2>1, <3>1 DEF n
    <3> QED
      BY <1>1, <1>2, <1>4, <1>7, <2>1, <2>2, <3>1, <3>2 DEF n
  <2>3. w.continuation > 0 => m <= 0 + Hangover
    BY <1>2, <1>3, <2>2
  <2> QED
    BY <2>1, <2>3 DEF Bridged
<1>12. ASSUME Lasts(w, voiced, quiet) PROVE Bridged(w, m)
  <2>1. /\ v.speaking /\ w.speaking /\ w.silence < EndSilence
        /\ w.silence = IF voiced THEN 0 ELSE v.silence + 1
        /\ w.frames = v.frames + 1 /\ w.quiet = quiet
    BY <1>12 DEF Lasts, v
  <2>2. CASE voice
    BY <1>1, <1>2, <1>3, <1>6, <2>1, <2>2 DEF Bridged
  <2>3. CASE ~voice
    <3>1. quiet <= Hangover => m <= quiet + Hangover
      BY <1>1, <1>2, <1>4, <1>6, <1>7, <2>1, <2>3 DEF n
    <3>2. quiet > Hangover => w.silence = v.silence + 1
      BY <1>2, <1>5, <1>6, <2>1, <2>3
    <3>3. quiet > Hangover => m <= w.silence + 2 * Hangover
      BY <1>1, <1>2, <1>4, <1>6, <1>7, <2>1, <2>3, <3>2 DEF n
    <3>4. (quiet <= Hangover => m <= quiet) \/ w.frames <= m
      BY <1>1, <1>2, <1>4, <1>6, <1>7, <1>8, <2>1, <2>3 DEF n
    <3> QED
      BY <2>1, <3>1, <3>3, <3>4 DEF Bridged
  <2> QED
    BY <2>2, <2>3
<1> QED
  BY <1>9, <1>10, <1>11, <1>12 DEF quiet, voiced

-----------------------------------------------------------------------------
(* The way of a frame: the pre-roll, the queue, the worker, the page.       *)

NextNumber(n) == (n + 1) % Numbers
FrameNumbers == 0..Numbers - 1
Routeds == [number : FrameNumbers, starts : BOOLEAN, ends : BOOLEAN]
VadWorkers == [capture : {"on", "suppressed", "off"}, enhanced : BOOLEAN, active : BOOLEAN,
               accepted : BOOLEAN, pending : Seq(FrameNumbers)]
Pages == [open : BOOLEAN, last : FrameNumbers \cup {NoNumber}, whole : BOOLEAN]

VadTypes ==
    /\ vad \in Detectors /\ preRoll \in Seq(FrameNumbers) /\ ready \in Seq(Routeds)
    /\ worker \in VadWorkers /\ clock \in FrameNumbers /\ sent \in Pages /\ unheard \in Nat

\* Frames in a row, and frames of segments in a row.
Run(s) == \A i \in 1..(Len(s) - 1) : s[i + 1] = NextNumber(s[i])
Chain(r) == \A i \in 1..(Len(r) - 1) :
               /\ r[i + 1].starts = r[i].ends
               /\ ~r[i + 1].starts => r[i + 1].number = NextNumber(r[i].number)

\* The last frame of the present segment that a worker has taken.
Taken(w, s) == IF w.accepted THEN s.last ELSE w.pending[Len(w.pending)]

\* What the page has is what the worker has taken and does not hold back.
Passes(w, s) ==
    /\ s.open = (w.active /\ w.accepted)
    /\ w.accepted => w.active /\ s.last \in FrameNumbers
    /\ w.accepted \/ ~w.active => w.pending = <<>>
    /\ w.active /\ ~w.accepted => w.pending # <<>> /\ Run(w.pending)
    /\ ~s.open => s.last = NoNumber
    /\ s.whole

\* The queue continues what the worker has, and the detector the queue.
Continues(r) ==
    r # <<>> => /\ r[1].starts = ~worker.active
                /\ worker.active => r[1].number = NextNumber(Taken(worker, sent))
VadQueue ==
    /\ Chain(ready) /\ Continues(ready)
    /\ vad.speaking = IF ready # <<>> THEN ~ready[Len(ready)].ends ELSE worker.active
    /\ vad.speaking => clock = NextNumber(IF ready # <<>> THEN ready[Len(ready)].number
                                          ELSE Taken(worker, sent))
Rolling == Run(preRoll) /\ (preRoll # <<>> => clock = NextNumber(preRoll[Len(preRoll)]))
Paused == worker.capture # "on" => ready = <<>> /\ ~worker.active

VadInv == VadTypes /\ Bridged(vad, unheard) /\ Passes(worker, sent) /\ VadQueue /\ Rolling /\ Paused

LEMMA NextIsNumber == ASSUME NEW n \in FrameNumbers PROVE NextNumber(n) \in FrameNumbers
BY Lengths DEF FrameNumbers, NextNumber

LEMMA NumbersHaveNone == NoNumber \notin FrameNumbers /\ 0 \in FrameNumbers
BY Lengths DEF FrameNumbers, NoNumber

LEMMA RunAppend ==
    ASSUME NEW s \in Seq(FrameNumbers), NEW n \in FrameNumbers, Run(s),
           s # <<>> => n = NextNumber(s[Len(s)])
    PROVE  /\ Append(s, n) \in Seq(FrameNumbers) /\ Append(s, n) # <<>> /\ Run(Append(s, n))
           /\ Append(s, n)[Len(Append(s, n))] = n
<1> DEFINE t == Append(s, n)
<1>1. /\ t \in Seq(FrameNumbers) /\ t # <<>> /\ Len(t) = Len(s) + 1 /\ t[Len(s) + 1] = n
      /\ \A i \in 1..Len(s) : t[i] = s[i]
  BY AppendProperties
<1>2. Len(s) \in Nat /\ (Len(s) > 0 => s # <<>>)
  BY EmptySeq, LenProperties
<1> HIDE DEF t
<1>3. ASSUME NEW i \in 1..(Len(t) - 1) PROVE t[i + 1] = NextNumber(t[i])
  <2>1. i \in 1..Len(s) /\ t[i] = s[i]
    BY <1>1, <1>2
  <2>2. CASE i = Len(s)
    BY <1>1, <1>2, <2>1, <2>2
  <2>3. CASE i # Len(s)
    <3>1. i \in 1..(Len(s) - 1) /\ i + 1 \in 1..Len(s)
      BY <1>2, <2>1, <2>3
    <3> QED
      BY <1>1, <2>1, <3>1 DEF Run
  <2> QED
    BY <2>2, <2>3
<1>4. Run(t) /\ t[Len(t)] = n
  BY <1>1, <1>3 DEF Run
<1> QED
  BY <1>1, <1>4 DEF t

LEMMA RunTail ==
    ASSUME NEW s \in Seq(FrameNumbers), s # <<>>, Run(s)
    PROVE  /\ Tail(s) \in Seq(FrameNumbers) /\ Run(Tail(s))
           /\ Tail(s) # <<>> => Tail(s)[Len(Tail(s))] = s[Len(s)]
<1> DEFINE t == Tail(s)
<1>1. /\ t \in Seq(FrameNumbers) /\ Len(t) = Len(s) - 1
      /\ \A i \in 1..Len(t) : t[i] = s[i + 1]
  BY HeadTailProperties
<1>2. Len(s) \in Nat /\ Len(t) \in Nat /\ (t # <<>> => Len(t) > 0)
  BY <1>1, EmptySeq, LenProperties
<1> HIDE DEF t
<1>3. ASSUME NEW i \in 1..(Len(t) - 1) PROVE t[i + 1] = NextNumber(t[i])
  <2>1. /\ i \in 1..Len(t) /\ i + 1 \in 1..Len(t) /\ i + 1 \in 1..(Len(s) - 1)
        /\ (i + 1) + 1 = i + 2
    BY <1>1, <1>2
  <2>2. t[i] = s[i + 1] /\ t[i + 1] = s[(i + 1) + 1]
    BY <1>1, <2>1
  <2> QED
    BY <2>1, <2>2 DEF Run
<1>4. t # <<>> => t[Len(t)] = s[Len(s)]
  <2>1. t # <<>> => Len(t) \in 1..Len(t) /\ Len(t) + 1 = Len(s)
    BY <1>1, <1>2
  <2> QED
    BY <1>1, <2>1
<1> QED
  BY <1>1, <1>3, <1>4 DEF Run, t

\* A frame or the frames of a held segment reach the page whole.
LEMMA PostKeeps ==
    ASSUME NEW s \in Pages, NEW numbers \in Seq(FrameNumbers), s.open, s.whole, numbers # <<>>,
           Run(numbers), s.last # NoNumber => numbers[1] = NextNumber(s.last)
    PROVE  LET p == PostFrames(s, numbers) IN
           /\ p \in Pages /\ p.open /\ p.whole /\ p.last = numbers[Len(numbers)]
           /\ p.last \in FrameNumbers
<1> DEFINE all == IF s.last = NoNumber THEN numbers ELSE <<s.last>> \o numbers
           last == numbers[Len(numbers)]
           whole == /\ s.whole /\ s.open
                    /\ \A i \in 1..(Len(all) - 1) : all[i + 1] = (all[i] + 1) % Numbers
           p == [s EXCEPT !.last = last, !.whole = whole]
<1>1. PostFrames(s, numbers) = p
  BY DEF PostFrames, Pages
<1>2. Len(numbers) \in Nat /\ Len(numbers) \in 1..Len(numbers) /\ 1 \in 1..Len(numbers)
  BY EmptySeq, LenProperties
<1>3. last \in FrameNumbers
  BY <1>2, ElementOfSeq
<1>4. Run(all)
  <2>1. CASE s.last = NoNumber
    BY <2>1
  <2>2. CASE s.last # NoNumber
    <3> DEFINE l == s.last
               t == <<l>> \o numbers
    <3>1. l \in FrameNumbers /\ numbers[1] = NextNumber(l)
      BY <2>2 DEF Pages
    <3> HIDE DEF l
    <3>2. <<l>> \in Seq(FrameNumbers) /\ Len(<<l>>) = 1 /\ <<l>>[1] = l
      BY <3>1
    <3>3. /\ Len(t) = 1 + Len(numbers)
          /\ \A i \in 1..Len(t) : t[i] = IF i <= 1 THEN <<l>>[i] ELSE numbers[i - 1]
      BY <3>2, ConcatProperties
    <3> HIDE DEF t
    <3>4. ASSUME NEW i \in 1..(Len(t) - 1) PROVE t[i + 1] = NextNumber(t[i])
      <4>1. /\ i \in Int /\ i >= 1 /\ i <= Len(numbers) /\ i \in 1..Len(t) /\ i + 1 \in 1..Len(t)
            /\ ~(i + 1 <= 1) /\ (i + 1) - 1 = i
        BY <1>2, <3>3
      <4>2. t[i + 1] = numbers[i]
        BY <3>3, <4>1
      <4>3. CASE i = 1
        BY <3>1, <3>2, <3>3, <4>1, <4>2, <4>3
      <4>4. CASE i # 1
        <5>1. ~(i <= 1) /\ i - 1 \in 1..(Len(numbers) - 1) /\ (i - 1) + 1 = i
          BY <1>2, <4>1, <4>4
        <5>2. t[i] = numbers[i - 1]
          BY <3>3, <4>1, <5>1
        <5> QED
          BY <4>2, <5>1, <5>2 DEF Run
      <4> QED
        BY <4>3, <4>4
    <3> QED
      BY <2>2, <3>4 DEF Run, t, l
  <2> QED
    BY <2>1, <2>2
<1>5. whole
  <2> HIDE DEF all
  <2> QED
    BY <1>4 DEF Run, NextNumber
<1> HIDE DEF whole, last
<1>6. p \in Pages /\ p.open = s.open /\ p.whole = whole /\ p.last = last
  BY <1>3, <1>5 DEF Pages
<1> QED
  BY <1>1, <1>3, <1>5, <1>6 DEF last

LEMMA StartKeeps ==
    ASSUME NEW s \in Pages, ~s.open, s.whole
    PROVE  LET p == PostStart(s) IN p \in Pages /\ p.open /\ p.whole /\ p.last = NoNumber
<1> DEFINE whole == s.whole /\ ~s.open
           p == [s EXCEPT !.open = TRUE, !.last = NoNumber, !.whole = whole]
<1>1. PostStart(s) = p
  BY DEF PostStart, Pages
<1>2. whole
  OBVIOUS
<1> HIDE DEF whole
<1>3. p \in Pages /\ p.open = TRUE /\ p.whole = whole /\ p.last = NoNumber
  BY <1>2 DEF Pages
<1> QED
  BY <1>1, <1>2, <1>3

LEMMA EndKeeps ==
    ASSUME NEW s \in Pages, s.open, s.whole
    PROVE  LET p == PostEnd(s) IN p \in Pages /\ ~p.open /\ p.whole /\ p.last = NoNumber
<1> DEFINE whole == s.whole /\ s.open
           p == [s EXCEPT !.open = FALSE, !.last = NoNumber, !.whole = whole]
<1>1. PostEnd(s) = p
  BY DEF PostEnd, Pages
<1>2. whole
  OBVIOUS
<1> HIDE DEF whole
<1>3. p \in Pages /\ p.open = FALSE /\ p.whole = whole /\ p.last = NoNumber
  BY <1>2 DEF Pages
<1> QED
  BY <1>1, <1>2, <1>3

\* One frame from the queue: taken after the last, sent or held back.
LEMMA DrainTakes ==
    ASSUME VadTypes, Passes(worker, sent), Continues(ready), Drain
    PROVE  /\ worker' \in VadWorkers /\ sent' \in Pages /\ Passes(worker', sent')
           /\ worker'.active = ~ready[1].ends /\ worker'.capture = worker.capture
           /\ worker'.active => Taken(worker', sent') = ready[1].number
<1> DEFINE f == Head(ready)
           n == f.number
           began == IF f.starts
                      THEN [worker EXCEPT !.active = TRUE, !.accepted = ~worker.enhanced,
                                          !.pending = <<>>]
                      ELSE worker
           held == Append(began.pending, n)
           accepts == ~began.accepted /\ SpeechFrames >= Confirmed
           opened == IF (f.starts /\ began.accepted) \/ accepts THEN PostStart(sent) ELSE sent
           posted == IF began.accepted THEN PostFrames(opened, <<n>>)
                     ELSE IF accepts THEN PostFrames(opened, held) ELSE opened
           accepted == began.accepted \/ accepts
           kept == IF began.accepted \/ accepts THEN <<>> ELSE held
           after == [began EXCEPT !.accepted = accepted, !.pending = kept]
<1>1. /\ ready # <<>> /\ f = ready[1] /\ f \in Routeds
  BY ElementOfSeq, EmptySeq, LenProperties DEF Drain, VadTypes
<1>2. n \in FrameNumbers /\ f.starts \in BOOLEAN /\ f.ends \in BOOLEAN
  BY <1>1 DEF Routeds
<1>3. /\ f.starts = ~worker.active
      /\ worker.active => n = NextNumber(Taken(worker, sent))
  BY <1>1 DEF Continues
<1>4. /\ worker \in VadWorkers /\ sent \in Pages
      /\ worker.enhanced \in BOOLEAN /\ worker.active \in BOOLEAN /\ worker.accepted \in BOOLEAN
      /\ worker.pending \in Seq(FrameNumbers) /\ sent.open \in BOOLEAN
  BY DEF VadTypes, VadWorkers, Pages
<1>5. /\ sent.open = (worker.active /\ worker.accepted)
      /\ worker.accepted => worker.active /\ sent.last \in FrameNumbers
      /\ worker.accepted \/ ~worker.active => worker.pending = <<>>
      /\ worker.active /\ ~worker.accepted => worker.pending # <<>> /\ Run(worker.pending)
      /\ ~sent.open => sent.last = NoNumber
      /\ sent.whole
  BY DEF Passes
<1>6. /\ worker' = IF f.ends
                     THEN [after EXCEPT !.active = FALSE, !.accepted = FALSE, !.pending = <<>>]
                     ELSE after
      /\ sent' = IF f.ends THEN IF after.accepted THEN PostEnd(posted) ELSE posted ELSE posted
  <2>1. after = [began EXCEPT !.accepted = @ \/ accepts, !.pending = kept]
    BY <1>4 DEF VadWorkers
  <2> QED
    BY <2>1 DEF Drain
<1>7. /\ began \in VadWorkers /\ began.active /\ began.capture = worker.capture
      /\ began.accepted = IF f.starts THEN ~worker.enhanced ELSE worker.accepted
      /\ began.pending = IF f.starts THEN <<>> ELSE worker.pending
  <2>1. CASE f.starts
    <3> DEFINE no == ~worker.enhanced
               x == [worker EXCEPT !.active = TRUE, !.accepted = no, !.pending = <<>>]
    <3>1. no \in BOOLEAN /\ <<>> \in Seq(FrameNumbers)
      BY <1>4
    <3> HIDE DEF no
    <3>2. x \in VadWorkers
      BY <1>4, <3>1 DEF VadWorkers
    <3>3. x.active = TRUE /\ x.capture = worker.capture /\ x.accepted = no /\ x.pending = <<>>
      BY <1>4 DEF VadWorkers
    <3> QED
      BY <2>1, <3>2, <3>3 DEF no
  <2>2. CASE ~f.starts
    BY <1>2, <1>3, <1>4, <2>2
  <2> QED
    BY <2>1, <2>2
<1>8. began.accepted \in BOOLEAN /\ began.pending \in Seq(FrameNumbers)
  BY <1>7 DEF VadWorkers
<1>9. /\ ~f.starts /\ ~began.accepted => began.pending # <<>> /\ Run(began.pending)
      /\ ~f.starts /\ ~began.accepted => n = NextNumber(began.pending[Len(began.pending)])
      /\ ~f.starts /\ began.accepted => sent.open /\ n = NextNumber(sent.last)
                                        /\ sent.last \in FrameNumbers
      /\ f.starts \/ ~began.accepted => ~sent.open
      /\ f.starts => began.pending = <<>>
  BY <1>3, <1>4, <1>5, <1>7 DEF Taken
<1>10. Run(<<>>) /\ <<n>> \in Seq(FrameNumbers) /\ Run(<<n>>) /\ <<n>>[1] = n /\ Len(<<n>>) = 1
       /\ <<n>> # <<>>
  BY <1>2 DEF Run
<1>11. ~began.accepted => /\ held \in Seq(FrameNumbers) /\ held # <<>> /\ Run(held)
                          /\ held[Len(held)] = n
  <2> DEFINE p == began.pending
  <2> HIDE DEF began
  <2>1. ASSUME ~began.accepted PROVE Run(p) /\ (p # <<>> => n = NextNumber(p[Len(p)]))
    BY <1>2, <1>9, <1>10, <2>1
  <2> HIDE DEF p
  <2>2. p \in Seq(FrameNumbers)
    BY <1>8 DEF p
  <2>3. ASSUME ~began.accepted PROVE /\ Append(p, n) \in Seq(FrameNumbers) /\ Append(p, n) # <<>>
                                     /\ Run(Append(p, n))
                                     /\ Append(p, n)[Len(Append(p, n))] = n
    BY <1>2, <2>1, <2>2, <2>3, RunAppend
  <2> QED
    BY <2>3 DEF p
<1>12. /\ accepted \in BOOLEAN
       /\ ~began.accepted /\ ~accepts => accepted = FALSE /\ kept = held
       /\ began.accepted \/ accepts => accepted = TRUE /\ kept = <<>>
       /\ accepts \in BOOLEAN /\ (accepts => ~began.accepted)
  BY <1>8
<1>13. kept \in Seq(FrameNumbers)
  BY <1>11, <1>12
<1> DEFINE startsNow == (f.starts /\ began.accepted) \/ accepts
<1>14. startsNow => opened \in Pages /\ opened.open /\ opened.whole /\ opened.last = NoNumber
  <2>1. startsNow => ~sent.open /\ sent.whole /\ opened = PostStart(sent)
    BY <1>5, <1>9, <1>12
  <2> QED
    BY <1>4, <2>1, StartKeeps
<1>15. ~startsNow => opened = sent
  OBVIOUS
<1>16. accepted => /\ posted \in Pages /\ posted.open /\ posted.whole /\ posted.last = n
                   /\ posted.last \in FrameNumbers
  <2>1. CASE began.accepted
    <3>1. opened \in Pages /\ opened.open /\ opened.whole
          /\ (opened.last # NoNumber => n = NextNumber(opened.last))
      BY <1>2, <1>4, <1>5, <1>9, <1>12, <1>14, <1>15, <2>1
    <3> DEFINE one == <<n>>
    <3>2. posted = PostFrames(opened, one)
      BY <2>1
    <3>3. one \in Seq(FrameNumbers) /\ Run(one) /\ one[1] = n /\ Len(one) = 1 /\ one # <<>>
      BY <1>10
    <3> HIDE DEF opened, posted, n, one
    <3>4. opened.last # NoNumber => one[1] = NextNumber(opened.last)
      BY <3>1, <3>3
    <3>5. /\ posted \in Pages /\ posted.open /\ posted.whole /\ posted.last = one[Len(one)]
          /\ posted.last \in FrameNumbers
      BY <3>1, <3>2, <3>3, <3>4, PostKeeps
    <3> QED
      BY <3>3, <3>5
  <2>2. CASE accepts
    <3>1. opened \in Pages /\ opened.open /\ opened.whole /\ opened.last = NoNumber
      BY <1>14, <2>2
    <3>2. posted = PostFrames(opened, held)
      BY <1>12, <2>2
    <3>3. /\ held \in Seq(FrameNumbers) /\ held # <<>> /\ Run(held) /\ held[Len(held)] = n
      BY <1>11, <1>12, <2>2
    <3> HIDE DEF opened, posted, n, held
    <3> QED
      BY <3>1, <3>2, <3>3, PostKeeps
  <2> QED
    BY <1>12, <2>1, <2>2
<1>17. ~accepted => posted = sent /\ ~sent.open
  BY <1>9, <1>12
<1> HIDE DEF began, held, accepts, opened, posted, accepted, kept, startsNow
<1>18. /\ after \in VadWorkers /\ after.active /\ after.accepted = accepted
       /\ after.pending = kept /\ after.capture = worker.capture
  <2>1. after \in VadWorkers
    BY <1>7, <1>12, <1>13 DEF VadWorkers
  <2>2. /\ after.active = began.active /\ after.accepted = accepted
        /\ after.pending = kept /\ after.capture = began.capture
    BY <1>7 DEF VadWorkers
  <2> QED
    BY <1>7, <2>1, <2>2
<1>19. posted \in Pages /\ posted.whole
  BY <1>4, <1>5, <1>12, <1>16, <1>17
<1>20. /\ accepted => kept = <<>>
       /\ ~accepted => kept # <<>> /\ Run(kept) /\ kept[Len(kept)] = n
  BY <1>11, <1>12 DEF accepted
<1> HIDE DEF after
<1>21. CASE ~f.ends
  <2>1. worker' = after /\ sent' = posted
    BY <1>6, <1>21
  <2>2. Passes(after, posted)
    BY <1>5, <1>12, <1>16, <1>17, <1>18, <1>19, <1>20 DEF Passes
  <2>3. Taken(after, posted) = n
    BY <1>12, <1>16, <1>18, <1>20 DEF Taken
  <2> QED
    BY <1>1, <1>18, <1>19, <1>21, <2>1, <2>2, <2>3
<1>22. CASE f.ends
  <2> DEFINE x == [after EXCEPT !.active = FALSE, !.accepted = FALSE, !.pending = <<>>]
             p == IF after.accepted THEN PostEnd(posted) ELSE posted
  <2>1. worker' = x /\ sent' = p
    BY <1>6, <1>22
  <2>2. <<>> \in Seq(FrameNumbers)
    OBVIOUS
  <2>3. x \in VadWorkers
    BY <1>18, <2>2 DEF VadWorkers
  <2>4. x.active = FALSE /\ x.accepted = FALSE /\ x.pending = <<>> /\ x.capture = after.capture
    BY <1>18 DEF VadWorkers
  <2>5. p \in Pages /\ ~p.open /\ p.whole /\ p.last = NoNumber
    <3>1. CASE accepted
      BY <1>16, <1>18, <3>1, EndKeeps
    <3>2. CASE ~accepted
      BY <1>5, <1>17, <1>18, <1>19, <3>2
    <3> QED
      BY <3>1, <3>2
  <2>6. p.open \in BOOLEAN
    BY <2>5 DEF Pages
  <2> HIDE DEF x, p
  <2>7. Passes(x, p)
    BY <2>4, <2>5, <2>6 DEF Passes
  <2> QED
    BY <1>1, <1>18, <1>22, <2>1, <2>3, <2>4, <2>5, <2>7
<1> QED
  BY <1>21, <1>22

\* What the detector adds to the queue continues it.
LEMMA VadQueueGrows ==
    ASSUME VadTypes, VadQueue, NEW s \in Seq(Routeds), s # <<>>, Chain(s),
           s[1].starts = ~vad.speaking, vad.speaking => s[1].number = clock
    PROVE  LET r == ready \o s IN
           /\ r \in Seq(Routeds) /\ r # <<>> /\ Chain(r) /\ Continues(r)
           /\ r[Len(r)] = s[Len(s)]
<1> DEFINE q == ready
           r == q \o s
<1>1. /\ q \in Seq(Routeds) /\ vad.speaking \in BOOLEAN /\ worker.active \in BOOLEAN
  BY DEF VadTypes, Detectors, VadWorkers
<1>2. /\ Chain(q)
      /\ q # <<>> => /\ q[1].starts = ~worker.active
                     /\ worker.active => q[1].number = NextNumber(Taken(worker, sent))
      /\ q # <<>> => vad.speaking = ~q[Len(q)].ends
      /\ q = <<>> => vad.speaking = worker.active
      /\ q # <<>> /\ vad.speaking => clock = NextNumber(q[Len(q)].number)
      /\ q = <<>> /\ vad.speaking => clock = NextNumber(Taken(worker, sent))
  BY DEF VadQueue, Continues
<1> HIDE DEF q
<1>3. /\ r \in Seq(Routeds) /\ Len(r) = Len(q) + Len(s)
      /\ \A i \in 1..Len(r) : r[i] = IF i <= Len(q) THEN q[i] ELSE s[i - Len(q)]
  BY <1>1, ConcatProperties
<1>4. /\ Len(q) \in Nat /\ Len(s) \in Nat \ {0} /\ (q # <<>> <=> Len(q) # 0)
  BY <1>1, EmptySeq, LenProperties
<1> HIDE DEF r
<1>5. r # <<>> /\ r[Len(r)] = s[Len(s)]
  <2>1. /\ Len(r) \in 1..Len(r) /\ ~(Len(r) <= Len(q)) /\ Len(r) - Len(q) = Len(s)
    BY <1>3, <1>4
  <2>2. r # <<>>
    BY <1>3, <1>4, EmptySeq
  <2> QED
    BY <1>3, <2>1, <2>2
<1>6. /\ r[1].starts = ~worker.active
      /\ worker.active => r[1].number = NextNumber(Taken(worker, sent))
  <2>1. CASE q = <<>>
    <3>1. 1 \in 1..Len(r) /\ ~(1 <= Len(q)) /\ 1 - Len(q) = 1
      BY <1>3, <1>4, <2>1
    <3>2. r[1] = s[1]
      BY <1>3, <3>1
    <3> QED
      BY <1>2, <2>1, <3>2
  <2>2. CASE q # <<>>
    <3>1. 1 \in 1..Len(r) /\ 1 <= Len(q)
      BY <1>3, <1>4, <2>2
    <3>2. r[1] = q[1]
      BY <1>3, <3>1
    <3> QED
      BY <1>2, <2>2, <3>2
  <2> QED
    BY <2>1, <2>2
<1>7. ASSUME NEW i \in 1..(Len(r) - 1)
      PROVE  /\ r[i + 1].starts = r[i].ends
             /\ ~r[i + 1].starts => r[i + 1].number = NextNumber(r[i].number)
  <2>1. i \in 1..Len(r) /\ i + 1 \in 1..Len(r)
    BY <1>3, <1>4
  <2>2. CASE i < Len(q)
    <3>1. i <= Len(q) /\ i + 1 <= Len(q) /\ i \in 1..(Len(q) - 1)
      BY <1>4, <2>2
    <3>2. r[i] = q[i] /\ r[i + 1] = q[i + 1]
      BY <1>3, <2>1, <3>1
    <3> QED
      BY <1>2, <3>1, <3>2 DEF Chain
  <2>3. CASE i = Len(q)
    <3>1. i <= Len(q) /\ ~(i + 1 <= Len(q)) /\ (i + 1) - Len(q) = 1 /\ q # <<>>
          /\ Len(q) \in 1..Len(q)
      BY <1>4, <2>3
    <3>2. r[i] = q[Len(q)] /\ r[i + 1] = s[1]
      BY <1>3, <2>1, <2>3, <3>1
    <3>3. q[Len(q)].ends \in BOOLEAN
      <4>1. q[Len(q)] \in Routeds
        BY <1>1, <3>1, ElementOfSeq
      <4> QED
        BY <4>1 DEF Routeds
    <3> QED
      BY <1>1, <1>2, <3>1, <3>2, <3>3
  <2>4. CASE i > Len(q)
    <3>1. /\ ~(i <= Len(q)) /\ ~(i + 1 <= Len(q)) /\ (i + 1) - Len(q) = (i - Len(q)) + 1
          /\ i - Len(q) \in 1..(Len(s) - 1)
      BY <1>3, <1>4, <2>4
    <3>2. r[i] = s[i - Len(q)] /\ r[i + 1] = s[(i - Len(q)) + 1]
      BY <1>3, <2>1, <3>1
    <3> QED
      BY <3>1, <3>2 DEF Chain
  <2> QED
    BY <1>3, <1>4, <2>2, <2>3, <2>4
<1> QED
  BY <1>3, <1>5, <1>6, <1>7 DEF Chain, Continues, q, r

\* A segment opens with its pre-roll and the frame that starts it.
LEMMA OpeningIsChain ==
    ASSUME VadTypes, Rolling
    PROVE  LET s == Opening(clock) IN
           /\ s \in Seq(Routeds) /\ s # <<>> /\ Chain(s) /\ s[1].starts
           /\ s[Len(s)].number = clock /\ ~s[Len(s)].ends
<1> DEFINE all == Append(preRoll, clock)
           s == Opening(clock)
<1>1. /\ all \in Seq(FrameNumbers) /\ all # <<>> /\ Run(all) /\ all[Len(all)] = clock
  BY RunAppend DEF VadTypes, Rolling
<1>2. s = [i \in 1..Len(all) |-> [[number |-> all[i], starts |-> FALSE, ends |-> FALSE]
                                   EXCEPT !.starts = i = 1]]
  BY DEF Opening, Routed
<1> HIDE DEF all, s
<1>3. Len(all) \in Nat /\ Len(all) > 0
  BY <1>1, EmptySeq, LenProperties
<1>4. \A i \in 1..Len(all) : s[i].number = all[i] /\ s[i].starts = (i = 1) /\ s[i].ends = FALSE
                             /\ s[i] \in Routeds
  <2> TAKE i \in 1..Len(all)
  <2> DEFINE n == all[i]
             first == i = 1
  <2>1. n \in FrameNumbers /\ first \in BOOLEAN
    BY <1>1, ElementOfSeq
  <2>2. s[i] = [[number |-> n, starts |-> FALSE, ends |-> FALSE] EXCEPT !.starts = first]
    BY <1>2
  <2> HIDE DEF n, first
  <2>3. s[i] = [number |-> n, starts |-> first, ends |-> FALSE]
    BY <2>2
  <2> QED
    BY <2>1, <2>3 DEF n, first, Routeds
<1>5. s \in Seq(Routeds) /\ Len(s) = Len(all)
  <2>1. s \in [1..Len(all) -> Routeds]
    BY <1>2, <1>4
  <2>2. s \in Seq(Routeds)
    BY <1>3, <2>1, SeqDef
  <2>3. Len(s) \in Nat /\ 1..Len(s) = 1..Len(all)
    BY <2>1, <2>2, LenProperties
  <2>4. Len(s) = Len(all)
    BY <1>3, <2>3
  <2> QED
    BY <2>2, <2>4
<1>6. s # <<>>
  BY <1>3, <1>5, EmptySeq
<1>7. /\ 1 \in 1..Len(all) /\ Len(all) \in 1..Len(all)
  BY <1>3
<1>8. ASSUME NEW i \in 1..(Len(s) - 1)
      PROVE  /\ s[i + 1].starts = s[i].ends
             /\ ~s[i + 1].starts => s[i + 1].number = NextNumber(s[i].number)
  <2>1. /\ i \in 1..(Len(all) - 1) /\ i \in 1..Len(all) /\ i + 1 \in 1..Len(all) /\ ~(i + 1 = 1)
    BY <1>3, <1>5
  <2>2. all[i + 1] = NextNumber(all[i])
    BY <1>1, <2>1 DEF Run
  <2>3. /\ s[i].number = all[i] /\ s[i + 1].number = all[i + 1]
        /\ s[i].ends = FALSE /\ s[i + 1].starts = FALSE
    BY <1>4, <2>1
  <2> QED
    BY <2>2, <2>3
<1> QED
  BY <1>1, <1>4, <1>5, <1>6, <1>7, <1>8 DEF Chain, s

LEMMA EmptyRuns == Run(<<>>) /\ Chain(<<>>)
BY DEF Run, Chain

LEMMA NewWorkerIs ==
    ASSUME NEW enhanced \in BOOLEAN
    PROVE  LET w == [NewWorker EXCEPT !.enhanced = enhanced] IN
           /\ w \in VadWorkers /\ w.capture = "on" /\ w.active = FALSE /\ w.accepted = FALSE
           /\ w.pending = <<>>
<1> DEFINE w == [NewWorker EXCEPT !.enhanced = enhanced]
<1>1. <<>> \in Seq(FrameNumbers)
  OBVIOUS
<1>2. /\ NewWorker \in VadWorkers /\ NewWorker.capture = "on" /\ NewWorker.active = FALSE
      /\ NewWorker.accepted = FALSE /\ NewWorker.pending = <<>>
  BY <1>1 DEF NewWorker, VadWorkers
<1>3. /\ w \in VadWorkers /\ w.capture = NewWorker.capture /\ w.active = NewWorker.active
      /\ w.accepted = NewWorker.accepted /\ w.pending = NewWorker.pending
  BY <1>2 DEF VadWorkers
<1> QED
  BY <1>2, <1>3

LEMMA VadStarts == VadInit => VadInv
<1> SUFFICES ASSUME VadInit PROVE VadInv
  OBVIOUS
<1>1. PICK enhanced \in BOOLEAN : worker = [NewWorker EXCEPT !.enhanced = enhanced]
  BY DEF VadInit
<1>2. /\ worker \in VadWorkers /\ worker.capture = "on" /\ worker.active = FALSE
      /\ worker.accepted = FALSE /\ worker.pending = <<>>
  BY <1>1, NewWorkerIs
<1>3. /\ vad \in Detectors /\ vad.speaking = FALSE /\ vad.continuation = 0
  BY DEF VadInit, Fresh, Detectors
<1>4. /\ sent \in Pages /\ sent.open = FALSE /\ sent.last = NoNumber /\ sent.whole = TRUE
  BY DEF VadInit, Pages
<1>5. /\ preRoll = <<>> /\ ready = <<>> /\ clock \in FrameNumbers /\ unheard \in Nat
  BY Lengths, NumbersHaveNone DEF VadInit
<1>6. VadTypes
  BY <1>2, <1>3, <1>4, <1>5, EmptySeq DEF VadTypes
<1>7. Bridged(vad, unheard)
  BY <1>3 DEF Bridged
<1>8. Passes(worker, sent)
  BY <1>2, <1>4 DEF Passes
<1>9. VadQueue
  BY <1>2, <1>3, <1>5, EmptyRuns DEF VadQueue, Continues
<1>10. Rolling /\ Paused
  BY <1>2, <1>5, EmptyRuns DEF Rolling, Paused
<1> QED
  BY <1>6, <1>7, <1>8, <1>9, <1>10 DEF VadInv

LEMMA FeedKeeps ==
    ASSUME VadInv, NEW f \in Frames(worker.enhanced), Feed(f)
    PROVE  VadInv'
<1> DEFINE j == Judge(f)
           segment == vad.speaking \/ j.flags = "started"
<1>1. /\ vad \in Detectors /\ preRoll \in Seq(FrameNumbers) /\ ready \in Seq(Routeds)
      /\ worker \in VadWorkers /\ clock \in FrameNumbers /\ sent \in Pages /\ unheard \in Nat
      /\ VadTypes /\ Bridged(vad, unheard) /\ Passes(worker, sent) /\ VadQueue /\ Rolling /\ Paused
  BY DEF VadInv, VadTypes
<1>2. worker.enhanced \in BOOLEAN
  BY <1>1 DEF VadWorkers
<1>3. f \in HeardFrames
  BY <1>2, FramesAreHeard
<1>4. /\ worker.capture = "on" /\ worker' = worker /\ sent' = sent /\ vad' = j.v
      /\ ready' = ready \o (IF j.flags = "started" THEN Opening(clock)
                            ELSE IF vad.speaking THEN <<Routed(clock, j.flags)>> ELSE <<>>)
      /\ preRoll' = IF segment THEN <<>>
                    ELSE Append(IF Len(preRoll) = PreRollFrames THEN Tail(preRoll)
                                ELSE preRoll, clock)
      /\ clock' = NextNumber(clock)
      /\ unheard' = IF j.voice THEN 0 ELSE CountTo(unheard, LongQuiet)
  BY DEF Feed, NextNumber
<1>5. /\ j.v \in Detectors /\ j.voice \in BOOLEAN
      /\ \/ j.flags = "started" /\ Started(j.v, Voiced(j.voice, f), Quieter(j.voice))
         \/ j.flags = "none" /\ Rests(j.v, Voiced(j.voice, f), Quieter(j.voice))
         \/ j.flags = "ended" /\ Ended(j.v, Voiced(j.voice, f), Quieter(j.voice))
         \/ j.flags = "active" /\ Lasts(j.v, Voiced(j.voice, f), Quieter(j.voice))
  BY <1>1, <1>2, <1>3, JudgeMoves
<1>6. /\ \/ j.flags = "started" /\ ~vad.speaking /\ j.v.speaking
         \/ j.flags = "none" /\ ~vad.speaking /\ ~j.v.speaking
         \/ j.flags = "ended" /\ vad.speaking /\ ~j.v.speaking
         \/ j.flags = "active" /\ vad.speaking /\ j.v.speaking
      /\ vad.speaking \in BOOLEAN /\ j.v.speaking \in BOOLEAN
  BY <1>1, <1>5 DEF Started, Rests, Ended, Lasts, Detectors
<1> HIDE DEF j
<1>7. unheard' \in Nat /\ Bridged(vad', unheard')
  <2>1. unheard' \in Nat
    BY <1>1, <1>4, <1>5, Lengths DEF CountTo
  <2> DEFINE m == unheard'
             voice == j.voice
             w == j.v
  <2>2. m = IF voice THEN 0 ELSE CountTo(unheard, LongQuiet)
    BY <1>4
  <2>3. /\ w \in Detectors /\ voice \in BOOLEAN /\ m \in Nat
        /\ \/ Started(w, Voiced(voice, f), Quieter(voice))
           \/ Rests(w, Voiced(voice, f), Quieter(voice))
           \/ Ended(w, Voiced(voice, f), Quieter(voice))
           \/ Lasts(w, Voiced(voice, f), Quieter(voice))
    BY <1>5, <2>1
  <2> HIDE DEF m, voice, w
  <2>4. Bridged(w, m)
    BY <1>1, <1>3, <2>2, <2>3, BridgeKeeps
  <2> QED
    BY <1>4, <2>1, <2>4 DEF w, m
<1>8. clock' \in FrameNumbers
  BY <1>1, <1>4, NextIsNumber
<1>9. preRoll' \in Seq(FrameNumbers) /\ Rolling'
  <2>1. CASE segment
    <3>1. preRoll' = <<>>
      BY <1>4, <2>1
    <3> QED
      BY <3>1, EmptySeq DEF Rolling, Run
  <2>2. CASE ~segment
    <3> DEFINE kept == IF Len(preRoll) = PreRollFrames THEN Tail(preRoll) ELSE preRoll
    <3>1. preRoll' = Append(kept, clock)
      BY <1>4, <2>2
    <3>2. Run(preRoll) /\ (preRoll # <<>> => clock = NextNumber(preRoll[Len(preRoll)]))
      BY <1>1 DEF Rolling
    <3>3. Len(preRoll) = PreRollFrames => preRoll # <<>>
      BY <1>2, Lengths, EmptySeq DEF PreRollFrames
    <3>4. /\ kept \in Seq(FrameNumbers) /\ Run(kept)
          /\ kept # <<>> => clock = NextNumber(kept[Len(kept)])
      <4>1. CASE Len(preRoll) = PreRollFrames
        <5>1. /\ Tail(preRoll) \in Seq(FrameNumbers) /\ Run(Tail(preRoll))
              /\ Tail(preRoll) # <<>>
                   => Tail(preRoll)[Len(Tail(preRoll))] = preRoll[Len(preRoll)]
          BY <1>1, <3>2, <3>3, <4>1, RunTail
        <5> QED
          BY <3>2, <3>3, <4>1, <5>1
      <4>2. CASE Len(preRoll) # PreRollFrames
        BY <1>1, <3>2, <4>2
      <4> QED
        BY <4>1, <4>2
    <3> HIDE DEF kept
    <3>5. /\ Append(kept, clock) \in Seq(FrameNumbers) /\ Append(kept, clock) # <<>>
          /\ Run(Append(kept, clock)) /\ Append(kept, clock)[Len(Append(kept, clock))] = clock
      BY <1>1, <3>4, RunAppend
    <3>6. clock' = NextNumber(preRoll'[Len(preRoll')])
      BY <1>4, <3>1, <3>5
    <3> QED
      BY <3>1, <3>5, <3>6 DEF Rolling, Run
  <2> QED
    BY <2>1, <2>2
<1>10. Taken(worker, sent)' = Taken(worker, sent)
  BY <1>4 DEF Taken
<1>11. ready' \in Seq(Routeds) /\ VadQueue'
  <2>1. CASE j.flags = "none"
    <3>1. ready' = ready /\ ~vad.speaking /\ ~vad'.speaking
      <4>1. ready \o <<>> = ready
        BY <1>1, ConcatEmptySeq
      <4> QED
        BY <1>4, <1>6, <2>1, <4>1
    <3>2. vad'.speaking \in BOOLEAN
      BY <1>4, <1>6
    <3> QED
      BY <1>1, <1>4, <1>6, <1>10, <3>1, <3>2 DEF VadQueue, Continues, Chain
  <2>2. CASE j.flags # "none"
    <3> DEFINE s == IF j.flags = "started" THEN Opening(clock)
                    ELSE <<Routed(clock, j.flags)>>
    <3>1. ready' = ready \o s
      BY <1>4, <1>6, <2>2
    <3>2. /\ s \in Seq(Routeds) /\ s # <<>> /\ Chain(s) /\ s[1].starts = ~vad.speaking
          /\ vad.speaking => s[1].number = clock
          /\ s[Len(s)].number = clock /\ s[Len(s)].ends = ~j.v.speaking
      <4>1. CASE j.flags = "started"
        <5> DEFINE o == Opening(clock)
        <5>1. /\ o \in Seq(Routeds) /\ o # <<>> /\ Chain(o) /\ o[1].starts
              /\ o[Len(o)].number = clock /\ ~o[Len(o)].ends
          BY <1>1, OpeningIsChain
        <5> HIDE DEF o
        <5>2. o[1].starts \in BOOLEAN /\ o[Len(o)].ends \in BOOLEAN
          <6>1. o[1] \in Routeds /\ o[Len(o)] \in Routeds
            BY <5>1, EmptySeq, LenProperties, ElementOfSeq
          <6> QED
            BY <6>1 DEF Routeds
        <5>3. s = o
          BY <4>1 DEF o
        <5> QED
          BY <1>6, <4>1, <5>1, <5>2, <5>3
      <4>2. CASE j.flags # "started"
        <5> DEFINE e == Routed(clock, j.flags)
        <5>1. /\ e \in Routeds /\ e.number = clock /\ e.starts = FALSE
              /\ e.ends = (j.flags = "ended")
          BY <1>1 DEF Routed, Routeds
        <5> HIDE DEF e
        <5>2. /\ <<e>> \in Seq(Routeds) /\ <<e>> # <<>> /\ Len(<<e>>) = 1 /\ <<e>>[1] = e
          BY <5>1
        <5>3. Chain(<<e>>)
          BY <5>2 DEF Chain
        <5>4. s = <<e>>
          BY <4>2 DEF e
        <5>5. vad.speaking = TRUE /\ e.ends = ~j.v.speaking
          BY <1>6, <2>2, <4>2, <5>1
        <5> HIDE DEF s
        <5> QED
          BY <5>1, <5>2, <5>3, <5>4, <5>5
      <4> QED
        BY <4>1, <4>2
    <3> HIDE DEF s
    <3> DEFINE r == ready \o s
    <3>3. /\ r \in Seq(Routeds) /\ r # <<>> /\ Chain(r) /\ Continues(r) /\ r[Len(r)] = s[Len(s)]
      BY <1>1, <3>2, VadQueueGrows
    <3> HIDE DEF r
    <3>4. ready' = r
      BY <3>1 DEF r
    <3>5. Chain(ready)' /\ Continues(ready)'
      BY <1>4, <1>10, <3>3, <3>4 DEF Chain, Continues
    <3>6. vad'.speaking = ~ready'[Len(ready')].ends
      BY <1>4, <1>6, <3>2, <3>3, <3>4
    <3>7. clock' = NextNumber(ready'[Len(ready')].number)
      BY <1>4, <3>2, <3>3, <3>4
    <3> QED
      BY <3>3, <3>4, <3>5, <3>6, <3>7 DEF VadQueue
  <2> QED
    BY <2>1, <2>2
<1>12. Passes(worker, sent)' /\ Paused'
  BY <1>1, <1>4 DEF Passes, Paused
<1>13. VadTypes'
  BY <1>1, <1>4, <1>5, <1>7, <1>8, <1>9, <1>11 DEF VadTypes
<1> QED
  BY <1>7, <1>9, <1>11, <1>12, <1>13 DEF VadInv

LEMMA DrainKeeps == ASSUME VadInv, Drain PROVE VadInv'
<1>1. /\ preRoll \in Seq(FrameNumbers) /\ ready \in Seq(Routeds) /\ VadTypes
      /\ Bridged(vad, unheard) /\ Passes(worker, sent) /\ VadQueue /\ Rolling /\ Paused
      /\ Chain(ready) /\ Continues(ready)
  BY DEF VadInv, VadTypes, VadQueue
<1>2. /\ ready # <<>> /\ ready' = Tail(ready) /\ UNCHANGED <<vad, preRoll, clock, unheard>>
  BY DEF Drain
<1>3. /\ worker' \in VadWorkers /\ sent' \in Pages /\ Passes(worker', sent')
      /\ worker'.active = ~ready[1].ends /\ worker'.capture = worker.capture
      /\ worker'.active => Taken(worker', sent') = ready[1].number
  BY <1>1, DrainTakes
<1> DEFINE q == ready
           r == Tail(q)
<1>4. /\ Chain(q) /\ q # <<>>
      /\ vad.speaking = ~q[Len(q)].ends
      /\ vad.speaking => clock = NextNumber(q[Len(q)].number)
  BY <1>1, <1>2 DEF VadQueue
<1>5. q \in Seq(Routeds) /\ ready' = r /\ worker'.active = ~q[1].ends
      /\ (worker'.active => Taken(worker', sent') = q[1].number)
  BY <1>1, <1>2, <1>3
<1> HIDE DEF q
<1>6. /\ r \in Seq(Routeds) /\ Len(r) = Len(q) - 1 /\ \A i \in 1..Len(r) : r[i] = q[i + 1]
  BY <1>4, <1>5, HeadTailProperties
<1>7. Len(q) \in Nat \ {0} /\ Len(r) \in Nat /\ (r # <<>> <=> Len(r) # 0)
  BY <1>4, <1>5, <1>6, EmptySeq, LenProperties
<1>8. \A i \in 1..Len(q) : q[i].ends \in BOOLEAN /\ q[i].starts \in BOOLEAN
  <2> TAKE i \in 1..Len(q)
  <2>1. q[i] \in Routeds
    BY <1>5, ElementOfSeq
  <2> QED
    BY <2>1 DEF Routeds
<1> HIDE DEF r
<1>9. Chain(r)
  <2> SUFFICES ASSUME NEW i \in 1..(Len(r) - 1)
               PROVE  /\ r[i + 1].starts = r[i].ends
                      /\ ~r[i + 1].starts => r[i + 1].number = NextNumber(r[i].number)
    BY DEF Chain
  <2>1. i \in 1..Len(r) /\ i + 1 \in 1..Len(r) /\ i + 1 \in 1..(Len(q) - 1)
    BY <1>6, <1>7
  <2>2. r[i] = q[i + 1] /\ r[i + 1] = q[(i + 1) + 1]
    BY <1>6, <2>1
  <2> QED
    BY <1>4, <2>1, <2>2 DEF Chain
<1> DEFINE last == ready'[Len(ready')]
<1>11. /\ vad'.speaking = IF ready' # <<>> THEN ~last.ends ELSE worker'.active
       /\ vad'.speaking => clock' = NextNumber(IF ready' # <<>> THEN last.number
                                               ELSE Taken(worker, sent)')
  <2>1. CASE r = <<>>
    <3>1. Len(q) = 1
      BY <1>6, <1>7, <2>1
    <3>2. vad'.speaking = worker'.active
      BY <1>2, <1>4, <1>5, <3>1
    <3>3. vad'.speaking => clock' = NextNumber(Taken(worker, sent)')
      BY <1>2, <1>4, <1>5, <3>1, <3>2 DEF Taken
    <3> QED
      BY <1>5, <2>1, <3>2, <3>3
  <2>2. CASE r # <<>>
    <3>1. Len(r) \in 1..Len(r) /\ Len(r) + 1 = Len(q)
      BY <1>6, <1>7, <2>2
    <3>2. last = q[Len(q)]
      BY <1>5, <1>6, <3>1
    <3> HIDE DEF last
    <3> QED
      BY <1>2, <1>4, <1>5, <2>2, <3>2
  <2> QED
    BY <2>1, <2>2
<1>12. Continues(ready)'
  <2> SUFFICES ASSUME r # <<>>
               PROVE  /\ r[1].starts = ~worker'.active
                      /\ worker'.active => r[1].number = NextNumber(Taken(worker', sent'))
    BY <1>5 DEF Continues, Taken
  <2>1. 1 \in 1..Len(r) /\ 1 \in 1..(Len(q) - 1) /\ 1 \in 1..Len(q)
    BY <1>6, <1>7
  <2>2. r[1] = q[1 + 1]
    BY <1>6, <2>1
  <2>3. /\ r[1].starts = q[1].ends
        /\ ~r[1].starts => r[1].number = NextNumber(q[1].number)
    BY <1>4, <2>1, <2>2 DEF Chain
  <2>4. q[1].ends \in BOOLEAN
    BY <1>8, <2>1
  <2> QED
    BY <1>5, <2>3, <2>4
<1>13. Chain(ready)'
  BY <1>5, <1>9 DEF Chain
<1>14. VadQueue'
  BY <1>11, <1>12, <1>13 DEF VadQueue
<1>15. Passes(worker, sent)' /\ Rolling' /\ Bridged(vad, unheard)'
  BY <1>1, <1>2, <1>3 DEF Passes, Rolling, Run, Bridged
<1>16. Paused'
  BY <1>1, <1>2, <1>3 DEF Paused
<1>17. VadTypes'
  BY <1>1, <1>2, <1>3, <1>5, <1>6 DEF VadTypes
<1> QED
  BY <1>14, <1>15, <1>16, <1>17 DEF VadInv

\* A stop, a pause or a new recording: nothing is queued, and an open segment ends.
LEMMA StopKeeps ==
    ASSUME VadInv, ready = <<>>, ResetVad, worker' \in VadWorkers, ~worker'.active,
           ~worker'.accepted, worker'.pending = <<>>, sent' = Closed
    PROVE  VadInv'
<1>1. /\ clock \in FrameNumbers /\ sent \in Pages /\ unheard \in Nat /\ worker \in VadWorkers
      /\ Passes(worker, sent)
  BY DEF VadInv, VadTypes
<1>2. /\ vad' = Fresh /\ preRoll' = <<>> /\ ready' = <<>> /\ UNCHANGED <<clock, unheard>>
  BY DEF ResetVad
<1>3. /\ sent' \in Pages /\ ~sent'.open /\ sent'.last = NoNumber /\ sent'.whole
  <2>1. sent.whole /\ sent.open = (worker.active /\ worker.accepted)
        /\ (~sent.open => sent.last = NoNumber)
    BY <1>1 DEF Passes
  <2>2. CASE worker.active /\ worker.accepted
    <3>1. sent' = PostEnd(sent) /\ sent.open
      BY <2>1, <2>2 DEF Closed
    <3> QED
      BY <1>1, <2>1, <3>1, EndKeeps
  <2>3. CASE ~(worker.active /\ worker.accepted)
    BY <1>1, <2>1, <2>3 DEF Closed
  <2> QED
    BY <2>2, <2>3
<1>4. /\ vad' \in Detectors /\ vad'.speaking = FALSE /\ vad'.continuation = 0
  BY <1>2 DEF Fresh, Detectors
<1>5. worker'.active = FALSE /\ sent'.open = FALSE
  BY <1>3 DEF VadWorkers, Pages
<1>6. VadTypes'
  BY <1>1, <1>2, <1>3, <1>4, EmptySeq DEF VadTypes
<1>7. Bridged(vad, unheard)'
  BY <1>4 DEF Bridged
<1>8. Passes(worker, sent)'
  BY <1>3, <1>5 DEF Passes
<1>9. Chain(ready)' /\ Run(preRoll)'
  BY <1>2, EmptyRuns DEF Chain, Run
<1>10. VadQueue'
  BY <1>2, <1>4, <1>5, <1>9 DEF VadQueue, Continues
<1>11. Rolling' /\ Paused'
  BY <1>2, <1>5, <1>9 DEF Rolling, Paused
<1> QED
  BY <1>6, <1>7, <1>8, <1>10, <1>11 DEF VadInv

LEMMA VadNextKeeps == VadInv /\ [VadNext]_vadVars => VadInv'
<1> SUFFICES ASSUME VadInv, [VadNext]_vadVars PROVE VadInv'
  OBVIOUS
<1>1. worker \in VadWorkers
  BY DEF VadInv, VadTypes
<1>2. ASSUME NEW f \in Frames(worker.enhanced), Feed(f) PROVE VadInv'
  BY <1>2, FeedKeeps
<1>3. ASSUME Drain PROVE VadInv'
  BY <1>3, DrainKeeps
<1>4. ASSUME NEW c \in {"on", "suppressed", "off"}, StopCapture(c) PROVE VadInv'
  <2>1. /\ ready = <<>> /\ ResetVad /\ sent' = Closed
        /\ worker' = [worker EXCEPT !.capture = c, !.active = FALSE, !.accepted = FALSE,
                                    !.pending = <<>>]
    BY <1>4 DEF StopCapture
  <2>2. <<>> \in Seq(FrameNumbers)
    OBVIOUS
  <2>3. worker' \in VadWorkers
    BY <1>1, <2>1, <2>2 DEF VadWorkers
  <2>4. worker'.active = FALSE /\ worker'.accepted = FALSE /\ worker'.pending = <<>>
    BY <1>1, <2>1 DEF VadWorkers
  <2> QED
    BY <2>1, <2>3, <2>4, StopKeeps
<1>5. ASSUME NEW enhanced \in BOOLEAN, StartRecording(enhanced) PROVE VadInv'
  <2>1. /\ worker.capture = "off" /\ ResetVad /\ sent' = sent
        /\ worker' = [NewWorker EXCEPT !.enhanced = enhanced]
    BY <1>5 DEF StartRecording
  <2>2. ready = <<>> /\ ~worker.active
    BY <2>1 DEF VadInv, Paused
  <2>3. /\ worker' \in VadWorkers /\ worker'.active = FALSE /\ worker'.accepted = FALSE
        /\ worker'.pending = <<>>
    BY <2>1, NewWorkerIs
  <2>4. sent' = Closed
    BY <2>1, <2>2 DEF Closed
  <2> QED
    BY <2>1, <2>2, <2>3, <2>4, StopKeeps
<1>6. CASE VadNext
  BY <1>2, <1>3, <1>4, <1>5, <1>6 DEF VadNext, Flush, Suppress, Resume
<1>7. CASE UNCHANGED vadVars
  BY <1>7 DEF vadVars, VadInv, VadTypes, Bridged, Passes, VadQueue, Chain, Continues, Taken, Rolling,
              Run, Paused
<1> QED
  BY <1>6, <1>7

-----------------------------------------------------------------------------
(* What stands in for Silero, and what the worker holds back.               *)

SureInv == unsure \in Nat /\ unsure <= unheard /\ ConfirmedSpeechIsSent

\* The structure of a frame is voice only in a segment that overcame a hum.
LEMMA VoiceIsBacked ==
    ASSUME vad \in Detectors, NEW f \in HeardFrames, worker.enhanced \in BOOLEAN
    PROVE  Judge(f).voice => Judge(f).backed
<1> DEFINE s == Shape(vad, f)
<1>1. vad.locked \in BOOLEAN /\ vad.recovered \in BOOLEAN
      /\ f.shape \in {"noise", "hum", "clear", "other"}
  BY DEF Detectors, HeardFrames, Shapes
<1>2. s.voice => s.v.recovered
  <2>1. CASE f.shape = "noise" \/ ~worker.enhanced \/ f.shape = "hum"
    <3>1. ~s.voice
      BY <1>1, <2>1 DEF Shape
    <3> QED
      BY <3>1
  <2>2. CASE worker.enhanced /\ f.shape \in {"clear", "other"} /\ ~vad.locked
    <3> DEFINE next == [vad EXCEPT !.humRun = 0]
    <3>1. s.v = next /\ (s.voice => vad.recovered)
      BY <2>2 DEF Shape
    <3>2. next.recovered = vad.recovered
      BY DEF Detectors
    <3> QED
      BY <3>1, <3>2
  <2>3. CASE worker.enhanced /\ f.shape \in {"clear", "other"} /\ vad.locked
    <3> DEFINE next == [[vad EXCEPT !.humRun = 0]
                         EXCEPT !.locked = FALSE, !.clearRun = 0, !.recovered = TRUE]
    <3>1. ~s.voice \/ s.v = next
      BY <2>3 DEF Shape
    <3>2. next.recovered = TRUE
      BY DEF Detectors
    <3> QED
      BY <3>1, <3>2
  <2> QED
    BY <1>1, <2>1, <2>2, <2>3
<1>3. /\ Judge(f).voice = ((f.sure \/ s.voice) /\ f.start /\ s.like)
      /\ Judge(f).backed = ((f.sure /\ f.start /\ s.like) \/ s.v.recovered)
  BY DEF Judge
<1> QED
  BY <1>2, <1>3

LEMMA FeedStaysSure ==
    ASSUME VadInv, SureInv, NEW f \in Frames(worker.enhanced), Feed(f)
    PROVE  SureInv'
<1> DEFINE j == Judge(f)
<1>1. /\ vad \in Detectors /\ worker \in VadWorkers /\ unheard \in Nat
      /\ VadTypes /\ Rolling /\ ready \in Seq(Routeds) /\ clock \in FrameNumbers
  BY DEF VadInv, VadTypes
<1>2. worker.enhanced \in BOOLEAN
  BY <1>1 DEF VadWorkers
<1>3. f \in HeardFrames
  BY <1>2, FramesAreHeard
<1>4. j.voice => j.backed
  BY <1>1, <1>2, <1>3, VoiceIsBacked
<1>5. /\ unheard' = IF j.voice THEN 0 ELSE CountTo(unheard, LongQuiet)
      /\ unsure' = IF j.backed THEN 0 ELSE CountTo(unsure, LongQuiet)
      /\ vad' = j.v
      /\ ready' = ready \o (IF j.flags = "started" THEN Opening(clock)
                            ELSE IF vad.speaking THEN <<Routed(clock, j.flags)>> ELSE <<>>)
  BY DEF Feed
<1>6. \/ j.flags = "started" /\ ~vad.speaking
      \/ j.flags = "none" /\ ~vad.speaking /\ ~j.v.speaking
      \/ j.flags = "ended" /\ ~j.v.speaking
      \/ j.flags = "active" /\ vad.speaking
  BY <1>1, <1>2, <1>3, JudgeMoves DEF Started, Rests, Ended, Lasts
<1> HIDE DEF j
<1>7. unsure' \in Nat /\ unsure' <= unheard'
  <2>1. unsure \in Nat /\ unsure <= unheard /\ LongQuiet \in Nat
    BY Lengths DEF SureInv
  <2> QED
    BY <1>1, <1>4, <1>5, <2>1 DEF CountTo
<1>8. ready' = <<>> => ~vad'.speaking
  <2>1. CASE j.flags = "started"
    <3> DEFINE o == Opening(clock)
    <3>1. o \in Seq(Routeds) /\ o # <<>>
      BY <1>1, OpeningIsChain
    <3>2. ready' = ready \o o
      BY <1>5, <2>1
    <3> HIDE DEF o
    <3>3. Len(ready) \in Nat /\ Len(o) \in Nat /\ Len(o) # 0
      BY <1>1, <3>1, EmptySeq, LenProperties
    <3>4. Len(ready \o o) = Len(ready) + Len(o)
      BY <1>1, <3>1, ConcatProperties
    <3>5. Len(ready \o o) # 0
      BY <3>3, <3>4
    <3> QED
      BY <3>2, <3>5
  <2>2. CASE j.flags = "active"
    <3> DEFINE o == <<Routed(clock, j.flags)>>
    <3>1. Routed(clock, j.flags) \in Routeds
      BY <1>1 DEF Routed, Routeds
    <3>2. o \in Seq(Routeds) /\ Len(o) = 1
      BY <3>1
    <3>3. ready' = ready \o o
      BY <1>5, <1>6, <2>2
    <3> HIDE DEF o
    <3>4. Len(ready \o o) = Len(ready) + 1 /\ Len(ready) \in Nat
      <4>1. Len(ready \o o) = Len(ready) + Len(o)
        BY <1>1, <3>2, ConcatProperties
      <4>2. Len(ready) \in Nat
        BY <1>1, LenProperties
      <4> QED
        BY <3>2, <4>1, <4>2
    <3>5. Len(ready \o o) # 0
      BY <3>4
    <3> QED
      BY <3>3, <3>5
  <2>3. CASE j.flags \in {"none", "ended"}
    BY <1>5, <1>6, <2>3
  <2> QED
    BY <1>6, <2>1, <2>2, <2>3
<1> QED
  BY <1>7, <1>8 DEF SureInv, ConfirmedSpeechIsSent

LEMMA DrainStaysSure == ASSUME VadInv, SureInv, Drain PROVE SureInv'
<1>1. /\ vad \in Detectors /\ worker \in VadWorkers /\ ready \in Seq(Routeds)
      /\ VadQueue /\ vad.speaking \in BOOLEAN
  BY DEF VadInv, VadTypes, Detectors
<1>2. /\ ready # <<>> /\ ready' = Tail(ready) /\ vad' = vad
      /\ unheard' = unheard /\ unsure' = unsure
  BY DEF Drain
<1>3. ASSUME ready' = <<>>, vad.speaking, vad.confirmed >= Confirmed PROVE worker'.accepted
  <2>1. Len(ready) = 1 /\ Head(ready) = ready[1]
    <3>1. Len(Tail(ready)) = Len(ready) - 1 /\ Len(ready) \in Nat
      BY <1>1, <1>2, HeadTailProperties, LenProperties
    <3>2. Len(Tail(ready)) = 0
      <4>1. Tail(ready) = <<>>
        BY <1>2, <1>3
      <4> QED
        BY <4>1, EmptySeq
    <3> QED
      BY <1>1, <1>2, <3>1, <3>2, HeadTailProperties
  <2>2. ready[Len(ready)] = Head(ready)
    BY <2>1
  <2>3. ~Head(ready).ends
    BY <1>1, <1>2, <1>3, <2>2 DEF VadQueue
  <2> DEFINE f == Head(ready)
             began == IF f.starts
                        THEN [worker EXCEPT !.active = TRUE, !.accepted = ~worker.enhanced,
                                            !.pending = <<>>]
                        ELSE worker
             held == Append(began.pending, f.number)
             accepts == ~began.accepted /\ SpeechFrames >= Confirmed
             pending == IF began.accepted \/ accepts THEN <<>> ELSE held
             accepted == began.accepted \/ accepts
  <2>4. worker' = [began EXCEPT !.accepted = accepted, !.pending = pending]
    BY <2>3 DEF Drain
  <2>5. SpeechFrames = vad.confirmed
    BY <1>3 DEF SpeechFrames
  <2>6. accepted
    BY <1>3, <2>5
  <2>7. DOMAIN began = DOMAIN worker /\ "accepted" \in DOMAIN worker
    BY <1>1 DEF VadWorkers
  <2> HIDE DEF began, accepted, pending
  <2>8. worker'.accepted = accepted
    BY <2>4, <2>7
  <2> QED
    BY <2>6, <2>8
<1> QED
  BY <1>2, <1>3 DEF SureInv, ConfirmedSpeechIsSent

LEMMA VadStaysSure == VadInv /\ SureInv /\ [VadNext]_vadVars => SureInv'
<1> SUFFICES ASSUME VadInv, SureInv, [VadNext]_vadVars PROVE SureInv'
  OBVIOUS
<1>1. ASSUME NEW f \in Frames(worker.enhanced), Feed(f) PROVE SureInv'
  BY <1>1, FeedStaysSure
<1>2. ASSUME Drain PROVE SureInv'
  BY <1>2, DrainStaysSure
<1>3. ASSUME ResetVad PROVE SureInv'
  <2>1. vad'.speaking = FALSE /\ unheard' = unheard /\ unsure' = unsure
    BY <1>3 DEF ResetVad, Fresh
  <2> QED
    BY <2>1 DEF SureInv, ConfirmedSpeechIsSent
<1>4. CASE UNCHANGED vadVars
  BY <1>4 DEF vadVars, SureInv, ConfirmedSpeechIsSent
<1> QED
  BY <1>1, <1>2, <1>3, <1>4
     DEF VadNext, Flush, Suppress, Resume, StopCapture, StartRecording

\* What the page is sent is whole segments, none of their frames missing or
\* sent twice, for any lengths of the thresholds, the pre-roll and the blocks,
\* whether a segment is accepted at once or held back, and across forced ends,
\* flushes and suppressions.  Energy never keeps one going without confirmed
\* speech: confirmed by Silero, or by the structure of the sound in a segment
\* that overcame a hum and in no other.  A segment held back is let go when
\* enough of it is confirmed.
THEOREM PageHearsWholeSegments == VadSpec => []SegmentsAreSound
<1>1. VadInv /\ SureInv => SegmentsAreSound
  <2> SUFFICES ASSUME VadInv, SureInv PROVE SegmentsAreSound
    OBVIOUS
  <2>1. /\ sent.whole /\ Bridged(vad, unheard) /\ vad \in Detectors /\ unheard \in Nat
        /\ unsure \in Nat /\ unsure <= unheard
    BY DEF VadInv, SureInv, Passes, VadTypes
  <2>2. /\ vad.speaking => (vad.quiet <= Hangover => unheard <= vad.quiet + Hangover)
        /\ vad.speaking =>
            /\ vad.silence < EndSilence
            /\ vad.quiet > Hangover => unheard <= vad.silence + 2 * Hangover
    BY <2>1 DEF Bridged
  <2>3. vad.silence \in Nat /\ vad.quiet \in Nat
    BY <2>1 DEF Detectors
  <2>4. vad.speaking => unheard < LongQuiet
    BY <2>1, <2>2, <2>3, Lengths
  <2>5. vad.speaking => unsure < LongQuiet
    BY <2>1, <2>4, Lengths
  <2> QED
    BY <2>1, <2>4, <2>5 DEF SegmentsAreSound, SegmentsAreWhole, EnergyOnlyBridges, SureInv
<1>2. VadInit => SureInv
  <2>1. VadInit => unsure = LongQuiet /\ unheard = LongQuiet /\ vad.speaking = FALSE
    BY DEF VadInit, Fresh
  <2> QED
    BY <2>1, Lengths DEF SureInv, ConfirmedSpeechIsSent
<1> QED
  BY <1>1, <1>2, VadStarts, VadNextKeeps, VadStaysSure, PTL DEF VadSpec
=============================================================================
