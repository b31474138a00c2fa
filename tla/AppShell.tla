------------------------------ MODULE AppShell ------------------------------
(***************************************************************************)
(* The desktop app (web/src-tauri/src/lib.rs, static_server.rs): leaving   *)
(* it, its subtitle window and its settings.  The menu, the window events  *)
(* and the windows' calls run on the main thread, one after another; the   *)
(* handlers of the embedded server run beside it and beside each other.    *)
(*                                                                         *)
(* The page that asks (web/src/routes/+layout.svelte) is modelled as far   *)
(* as a request to quit goes through it.  Proxying, assets and the capture *)
(* (NativeCapture) are not part of this module.                            *)
(***************************************************************************)
EXTENDS Naturals

CONSTANTS
    Handlers,       \* requests the embedded server handles at a time
    Addresses,      \* API addresses, normalized
    Fallback,       \* the address without settings
    MaxSaves,       \* bound: settings saved
    MaxReloads      \* bound: loads of the page after the first

ASSUME ShellAssumption ==
    Fallback \in Addresses /\ MaxSaves \in Nat /\ MaxReloads \in Nat

VARIABLES
    lifecycle,      \* AppLifecycle, and a request under way on the main thread
    page,           \* the page of the main window
    post,           \* its call of /app/quit or /app/quit/cancel
    window,         \* the subtitle window of a room
    handler,        \* what a handler has still to do
    upstream,       \* the address in use
    file,           \* app-settings.json
    saves,
    missed,         \* history: the page did not take a request to quit, or its answer was lost
    disturbed,      \* history: two saves overlapped, or one broke off inside the
                    \*   file or between the file and the address
    sunk            \* history: the window was left neither floating nor fullscreen,
                    \*   by a call that failed or by its title bar, and not floated since
shellVars ==
    <<lifecycle, page, post, window, handler, upstream, file, saves, missed, disturbed, sunk>>

Torn == "torn"
NoSettings == "none"
NoWindow == [exists |-> FALSE, visible |-> FALSE, fullscreen |-> FALSE, top |-> FALSE]
Free   == [does |-> "nothing", sees |-> FALSE, address |-> Fallback]

\* saved_upstream, or the default.  VOICE_ELF_APP_SERVER_URL is not set.
Configured(contents) == IF contents \in Addresses THEN contents ELSE Fallback

ShellInit ==
    /\ lifecycle = [prompt |-> FALSE, allowed |-> FALSE, asking |-> FALSE, gone |-> FALSE]
    /\ page = [at |-> "loading", prompt |-> "none", events |-> 0, reloads |-> 0]
    /\ post = "none"
    /\ window = NoWindow
    /\ handler = [h \in Handlers |-> Free]
    /\ file \in {NoSettings, Torn} \cup Addresses
    /\ upstream = Configured(file)
    /\ saves = 0
    /\ missed = FALSE /\ disturbed = FALSE /\ sunk = FALSE

Running == ~lifecycle.gone

-----------------------------------------------------------------------------
(* Leaving the app.                                                        *)

\* Command+Q and the menus; ExitRequested is let through once it is allowed.
RequestQuit ==
    /\ Running /\ ~lifecycle.asking
    /\ lifecycle' = IF lifecycle.prompt THEN lifecycle
                    ELSE [lifecycle EXCEPT !.prompt = TRUE, !.asking = TRUE]
    /\ UNCHANGED <<page, post, window, handler, upstream, file, saves, missed, disturbed, sunk>>

\* Mutant: what cannot be shown is still taken for shown.
TellPageBlindly ==
    /\ lifecycle.asking
    /\ lifecycle' = [lifecycle EXCEPT !.asking = FALSE]
    /\ page' \in {page, [page EXCEPT !.events = @ + 1]}
    /\ UNCHANGED <<post, window, handler, upstream, file, saves, missed, disturbed, sunk>>

\* The main window is shown and given the event, or one of both fails.
TellPage ==
    /\ lifecycle.asking
    /\ \/ /\ lifecycle' = [lifecycle EXCEPT !.asking = FALSE]
          /\ page' = [page EXCEPT !.events = @ + 1]
       \/ /\ lifecycle' = [lifecycle EXCEPT !.asking = FALSE, !.prompt = FALSE]
          /\ UNCHANGED page
    /\ UNCHANGED <<post, window, handler, upstream, file, saves, missed, disturbed, sunk>>

PageMounts ==
    /\ page.at = "loading"
    /\ page' = [page EXCEPT !.at = "ready"]
    /\ UNCHANGED <<lifecycle, post, window, handler, upstream, file, saves, missed, disturbed, sunk>>

\* The page starts again, and knows of no question.
PageReloads ==
    /\ Running /\ page.at = "ready" /\ page.reloads < MaxReloads
    /\ page' = [page EXCEPT !.at = "loading", !.prompt = "none", !.reloads = @ + 1]
    /\ missed' = (missed \/ page.prompt # "none")
    /\ UNCHANGED <<lifecycle, post, window, handler, upstream, file, saves, disturbed, sunk>>

\* handleQuitRequest.  A page that has not mounted hears nothing, one that
\* is asking already ignores it; confirm() lets no event through.
HearRequest ==
    /\ page.events > 0 /\ page.prompt # "dialog"
    /\ IF page.at = "ready" /\ page.prompt = "none"
         THEN page' = [page EXCEPT !.events = @ - 1, !.prompt = "toast"] /\ UNCHANGED missed
         ELSE page' = [page EXCEPT !.events = @ - 1] /\ missed' = TRUE
    /\ UNCHANGED <<lifecycle, post, window, handler, upstream, file, saves, disturbed, sunk>>

ShowDialog ==
    /\ page.prompt = "toast"
    /\ page' = [page EXCEPT !.prompt = "dialog"]
    /\ UNCHANGED <<lifecycle, post, window, handler, upstream, file, saves, missed, disturbed, sunk>>

UserAnswers ==
    /\ page.prompt = "dialog" /\ post = "none"
    /\ \E answer \in {"quit", "cancel"} :
          /\ post' = answer
          /\ page' = [page EXCEPT !.prompt = answer]
    /\ UNCHANGED <<lifecycle, window, handler, upstream, file, saves, missed, disturbed, sunk>>

\* confirm_app_exit: the exit it asks for is allowed.
ConfirmExit ==
    /\ post = "quit"
    /\ lifecycle' = [lifecycle EXCEPT !.allowed = TRUE, !.prompt = FALSE]
    /\ post' = "done"
    /\ UNCHANGED <<page, window, handler, upstream, file, saves, missed, disturbed, sunk>>

CancelExit ==
    /\ post = "cancel"
    /\ lifecycle' = [lifecycle EXCEPT !.prompt = FALSE]
    /\ post' = "done"
    /\ UNCHANGED <<page, window, handler, upstream, file, saves, missed, disturbed, sunk>>

AppExits ==
    /\ Running /\ lifecycle.allowed
    /\ lifecycle' = [lifecycle EXCEPT !.gone = TRUE]
    /\ UNCHANGED <<page, post, window, handler, upstream, file, saves, missed, disturbed, sunk>>

PostFails ==
    /\ Running /\ post \in {"quit", "cancel"}
    /\ post' = "failed"
    /\ UNCHANGED <<lifecycle, page, window, handler, upstream, file, saves, missed, disturbed, sunk>>

\* After a quit that failed the request is taken back; that it could not be
\* is not looked at.
PostReturns ==
    /\ Running /\ post \in {"done", "failed"}
    /\ IF post = "failed" /\ page.prompt = "quit"
         THEN /\ post' = "cancel" /\ page' = [page EXCEPT !.prompt = "cancel"]
              /\ UNCHANGED missed
         ELSE /\ post' = "none"
              /\ page' = IF page.prompt \in {"quit", "cancel"}
                           THEN [page EXCEPT !.prompt = "none"] ELSE page
              /\ missed' = (missed \/ post = "failed")
    /\ UNCHANGED <<lifecycle, window, handler, upstream, file, saves, disturbed, sunk>>

-----------------------------------------------------------------------------
(* The subtitle window.  A handler calls the window step by step, without  *)
(* an await in between; every call may fail, and where the code looks at   *)
(* the failure the handler ends.                                           *)

ShellKeeps == UNCHANGED <<lifecycle, page, post, upstream, file, saves, missed, disturbed>>

\* From the page.
ShowWindow ==
    /\ Running
    /\ IF window.exists
         THEN window' = [window EXCEPT !.visible = TRUE] /\ UNCHANGED sunk
         ELSE /\ window' = [exists |-> TRUE, visible |-> TRUE, fullscreen |-> FALSE, top |-> TRUE]
              /\ sunk' = FALSE
    /\ ShellKeeps /\ UNCHANGED handler

\* From the menu, where only a window that exists is shown.
RaiseWindow ==
    /\ Running /\ window.exists
    /\ window' = [window EXCEPT !.visible = TRUE]
    /\ ShellKeeps /\ UNCHANGED <<handler, sunk>>

\* set_always_on_top(true), and its failure.
Floats(w) == window' = [w EXCEPT !.top = TRUE] /\ sunk' = FALSE
Sinks(w)  == window' = w /\ sunk' = (sunk \/ ~(w.fullscreen \/ w.top))

\* CloseRequested hides it; which of its calls failed is not looked at.
CloseRequested ==
    /\ Running /\ window.exists
    /\ \E fullscreen, visible \in BOOLEAN :
          LET w == [window EXCEPT !.fullscreen = @ /\ fullscreen, !.visible = @ /\ visible]
          IN  IF window.fullscreen THEN Floats(w) \/ Sinks(w)
              ELSE window' = w /\ UNCHANGED sunk
    /\ ShellKeeps /\ UNCHANGED handler

\* The title bar of the system enters and leaves fullscreen without the app,
\* which has no handler for it.
EnterByTitleBar ==
    /\ Running /\ window.exists /\ window.visible /\ ~window.fullscreen
    /\ window' = [window EXCEPT !.fullscreen = TRUE]
    /\ ShellKeeps /\ UNCHANGED <<handler, sunk>>

LeaveByTitleBar ==
    /\ Running /\ window.exists /\ window.visible /\ window.fullscreen
    /\ Sinks([window EXCEPT !.fullscreen = FALSE])
    /\ ShellKeeps /\ UNCHANGED handler

\* toggle, minimize, hide and close: each looks at the window first.
BeginWindowAction(h) ==
    /\ Running /\ window.exists /\ handler[h] = Free
    /\ \E does \in {"toggle", "leave"} :
          handler' = [handler EXCEPT ![h].does = does, ![h].sees = window.fullscreen]
    /\ ShellKeeps /\ UNCHANGED <<window, sunk>>

Then(h, does) == handler' = [handler EXCEPT ![h] = [Free EXCEPT !.does = does]]

\* A window that is fullscreen leaves it, and floats again afterwards.
LeaveFullscreen(h) ==
    /\ handler[h].does \in {"toggle", "leave"} /\ handler[h].sees
    /\ \/ /\ window' = [window EXCEPT !.fullscreen = FALSE]
          /\ Then(h, IF handler[h].does = "toggle" THEN "float" ELSE "float and hide")
       \/ Then(h, "nothing") /\ UNCHANGED window
    /\ ShellKeeps /\ UNCHANGED sunk

SkipFullscreen(h) ==
    /\ handler[h].does = "leave" /\ ~handler[h].sees
    /\ Then(h, "float and hide")
    /\ ShellKeeps /\ UNCHANGED <<window, sunk>>

\* A window that cannot float is not hidden either.
Float(h) ==
    /\ handler[h].does \in {"float", "float and hide"}
    /\ \/ /\ Floats(window)
          /\ Then(h, IF handler[h].does = "float" THEN "nothing" ELSE "hide")
       \/ Sinks(window) /\ Then(h, "nothing")
    /\ ShellKeeps

HideWindow(h) ==
    /\ handler[h].does = "hide"
    /\ window' \in {window, [window EXCEPT !.visible = FALSE]}
    /\ Then(h, "nothing")
    /\ ShellKeeps /\ UNCHANGED sunk

StopFloating(h) ==
    /\ handler[h].does = "toggle" /\ ~handler[h].sees
    /\ \/ window' = [window EXCEPT !.top = FALSE] /\ Then(h, "enter")
       \/ Then(h, "nothing") /\ UNCHANGED window
    /\ ShellKeeps /\ UNCHANGED sunk

\* A window that cannot enter is to float again.
EnterFullscreen(h) ==
    /\ handler[h].does = "enter"
    /\ \/ window' = [window EXCEPT !.fullscreen = TRUE] /\ Then(h, "nothing")
       \/ Then(h, "float") /\ UNCHANGED window
    /\ ShellKeeps /\ UNCHANGED sunk

-----------------------------------------------------------------------------
(* The settings.                                                           *)

SaveUnderWay == \E h \in Handlers : handler[h].does \in {"write", "fill", "use"}

BeginSave(h, a) ==
    /\ Running /\ handler[h] = Free /\ saves < MaxSaves
    /\ saves' = saves + 1
    /\ handler' = [handler EXCEPT ![h] = [Free EXCEPT !.does = "write", !.address = a]]
    /\ disturbed' = (disturbed \/ SaveUnderWay)
    /\ UNCHANGED <<lifecycle, page, post, window, upstream, file, missed, sunk>>

\* fs::write empties the file, then fills it.  It may not even be opened.
EmptyFile(h) ==
    /\ handler[h].does = "write"
    /\ \/ file' = Torn /\ handler' = [handler EXCEPT ![h].does = "fill"]
       \/ handler' = [handler EXCEPT ![h] = Free] /\ UNCHANGED file
    /\ UNCHANGED <<lifecycle, page, post, window, upstream, saves, missed, disturbed, sunk>>

FillFile(h) ==
    /\ handler[h].does = "fill"
    /\ \/ /\ file' = handler[h].address
          /\ handler' = [handler EXCEPT ![h].does = "use"]
          /\ UNCHANGED disturbed
       \/ /\ handler' = [handler EXCEPT ![h] = Free]
          /\ disturbed' = TRUE
          /\ UNCHANGED file
    /\ UNCHANGED <<lifecycle, page, post, window, upstream, saves, missed, sunk>>

UseAddress(h) ==
    /\ handler[h].does = "use"
    /\ upstream' = handler[h].address
    /\ handler' = [handler EXCEPT ![h] = Free]
    /\ UNCHANGED <<lifecycle, page, post, window, file, saves, missed, disturbed, sunk>>

\* The request is dropped with its connection while the handler waits for the
\* file or for the lock.  The write itself runs on to its end on a thread of
\* its own, so that it is dropped here only after it.
DropSave(h) ==
    /\ handler[h].does = "use"
    /\ disturbed' = TRUE
    /\ handler' = [handler EXCEPT ![h] = Free]
    /\ UNCHANGED <<lifecycle, page, post, window, upstream, file, saves, missed, sunk>>

\* The app starts again, after an exit or a crash: only the file is left.
StartAgain ==
    /\ lifecycle' = [prompt |-> FALSE, allowed |-> FALSE, asking |-> FALSE, gone |-> FALSE]
    /\ page.reloads < MaxReloads
    /\ page' = [at |-> "loading", prompt |-> "none", events |-> 0, reloads |-> page.reloads + 1]
    /\ post' = "none"
    /\ window' = NoWindow
    /\ handler' = [h \in Handlers |-> Free]
    /\ upstream' = Configured(file)
    /\ missed' = FALSE /\ disturbed' = FALSE /\ sunk' = FALSE
    /\ UNCHANGED <<file, saves>>

QuitNext ==
    \/ RequestQuit \/ TellPage \/ PageMounts \/ PageReloads \/ HearRequest
    \/ ShowDialog \/ UserAnswers \/ ConfirmExit \/ CancelExit \/ AppExits
    \/ PostFails \/ PostReturns

HandlersNext ==
    \/ ShowWindow \/ RaiseWindow \/ CloseRequested \/ EnterByTitleBar \/ LeaveByTitleBar
    \/ \E h \in Handlers :
          \/ BeginWindowAction(h) \/ LeaveFullscreen(h) \/ SkipFullscreen(h) \/ Float(h)
          \/ HideWindow(h) \/ StopFloating(h) \/ EnterFullscreen(h)
          \/ EmptyFile(h) \/ FillFile(h) \/ UseAddress(h) \/ DropSave(h)
          \/ \E a \in Addresses : BeginSave(h, a)

ShellNext == QuitNext \/ HandlersNext \/ StartAgain

ShellSpec == ShellInit /\ [][ShellNext]_shellVars

-----------------------------------------------------------------------------
ShellTypeOK ==
    /\ lifecycle \in [prompt : BOOLEAN, allowed : BOOLEAN, asking : BOOLEAN, gone : BOOLEAN]
    /\ page \in [at : {"loading", "ready"}, events : Nat, reloads : 0..MaxReloads,
                 prompt : {"none", "toast", "dialog", "quit", "cancel"}]
    /\ post \in {"none", "quit", "cancel", "done", "failed"}
    /\ window \in [exists : BOOLEAN, visible : BOOLEAN, fullscreen : BOOLEAN, top : BOOLEAN]
    /\ handler \in [Handlers -> [does : {"nothing", "toggle", "leave", "float",
                       "float and hide", "hide", "enter", "write", "fill", "use"},
                     sees : BOOLEAN, address : Addresses]]
    /\ upstream \in Addresses /\ file \in {NoSettings, Torn} \cup Addresses
    /\ saves \in 0..MaxSaves /\ missed \in BOOLEAN /\ disturbed \in BOOLEAN
    /\ sunk \in BOOLEAN

\* A request to quit is never swallowed: while quit_prompt_visible keeps the
\* next ones away there is a question on its way, on the screen or being
\* answered (lib.rs 68).  Excepted is a page that was loading, or had not
\* finished the last answer, when the request came, and an answer that was
\* lost: then the flag stays up.
QuitRequestsAreShown ==
    lifecycle.prompt /\ ~missed => lifecycle.asking \/ page.events > 0 \/ page.prompt # "none"

\* A subtitle window that nobody is moving is fullscreen or floats, whichever
\* handlers and window events crossed each other (static_server.rs 362, 378).
\* Excepted is one that a failed call, or leaving fullscreen by the title bar,
\* put down: it floats again with the next call that succeeds, and not before.
SubtitlesFloat ==
    window.exists /\ ~sunk /\ (\A h \in Handlers : handler[h].does = "nothing") =>
        window.fullscreen \/ window.top

\* The address in use is the one the app would start with again: a save that
\* fails changes neither (static_server.rs 553).  Excepted are two saves at a
\* time, and one that breaks off after the file was emptied, be it that the
\* writing failed or that the request was dropped before the address changed.
SettingsAreSaved == ~SaveUnderWay /\ ~disturbed => upstream = Configured(file)

\* What the shell remembers agrees with what its user has.
ShellAgrees == QuitRequestsAreShown /\ SubtitlesFloat /\ SettingsAreSaved
=============================================================================
