-------------------------------- MODULE Tracking --------------------------------
(***************************************************************************)
(* browser/kwin.rs, browser/url.rs, assets/active_window.js and            *)
(* daemon.rs detect_context: which window the user comes from, and what    *)
(* host its browser shows.                                                 *)
(*                                                                         *)
(* A script inside KWin reports every window that becomes active, and the  *)
(* daemon keeps the last report.  Reports under way are a sequence, but    *)
(* each is handled by a task of its own, so any may be handled first.  A   *)
(* script outlives a daemon that dies.  At the hotkey the daemon reads     *)
(* what it kept and, for a browser, walks the accessibility tree.          *)
(***************************************************************************)
EXTENDS Search

CONSTANTS
    Windows, OwnWindow, NoWindow,
    Class,          \* Windows |-> resource class
    Browsers,       \* what the class of a browser contains
    Registry,       \* accessible applications in order: name and windows
    Nesting,        \* how deep below its application a window's document is
    MaxDepth, MaxBreadth,
    Pages, NoPage,
    Url(_),         \* of a page
    MaxReports, MaxLeft     \* bounds: reports under way, scripts left behind

ASSUME TrackingAssumption ==
    /\ OwnWindow \in Windows /\ NoWindow \notin Windows
    /\ DOMAIN Class = Windows
    /\ DOMAIN Nesting = Windows
    /\ NoPage \notin Pages
    /\ Registry \in Seq([name : Seq(STRING), windows : Seq(Windows)])
    /\ MaxDepth \in Nat /\ MaxBreadth \in Nat
    /\ MaxReports \in Nat \ {0} /\ MaxLeft \in Nat

VARIABLES
    active,         \* the window KWin holds active
    last,           \* history: the last one that was not the popup
    start,          \* how far kwin::start has come
    script,         \* the script this daemon loaded
    left,           \* scripts of earlier daemons that still run
    reports,        \* calls of SetActiveWindow under way
    overtaken,      \* history: one was handled before an earlier one
    cache,          \* what WindowTracker holds
    pages,          \* what the windows show
    asked           \* a hotkey whose context is being detected

desktopVars == <<active, last, pages>>
scriptVars == <<script, left>>
reportVars == <<reports, overtaken, cache>>
trackingVars == <<desktopVars, start, scriptVars, reportVars, asked>>

Starts == {"down", "off", "claim", "write", "load", "run", "ready", "failed"}

Shown == Windows \ {OwnWindow}

\* What the hotkey found: the window kept, the last one, and whether these had
\* to be the same.
Asked == [window : Shown \cup {NoWindow}, last : Shown \cup {NoWindow}, sure : BOOLEAN]

Idle == <<>>

---------------------------------------------------------------------------
\* What follows the last dot of the class.
AppName(window) ==
    Lower(From(Class[window], SelectLastInSeq(Class[window], LAMBDA piece : piece = ".") + 1))

IsBrowser(window) ==
    \E browser \in Browsers : Contains(Lower(Class[window]), browser)

HasName(app, hint) ==
    /\ app.name # <<>>
    /\ \/ Occurrences(Lower(app.name), hint) # {}
       \/ Occurrences(hint, Lower(app.name)) # {}

\* What the walk visits of a sequence of nodes.
Visited(nodes) == 1 .. Min({MaxBreadth, Len(nodes)})

HasDocument(w, mute) == Nesting[w] < MaxDepth /\ w \notin mute /\ pages[w] # NoPage

\* The first window of an application whose document the walk finds.
FirstDocument(app, mute) ==
    LET found == {n \in Visited(app.windows) : HasDocument(app.windows[n], mute)}
    IN IF found = {} THEN NoWindow ELSE app.windows[Min(found)]

\* `mute` are windows whose nodes do not answer.  The URL is that of the first
\* document, whether or not its window has focus.
FindDocument(hint, mute) ==
    LET found == {n \in Visited(Registry) : /\ HasName(Registry[n], hint)
                                            /\ FirstDocument(Registry[n], mute) # NoWindow}
    IN IF found = {} THEN NoWindow ELSE FirstDocument(Registry[Min(found)], mute)

PageOf(window) == IF window = NoWindow THEN NoPage ELSE pages[window]

HostOf(page) == IF page = NoPage THEN NoHost ELSE NormalizeHost(Url(page))

---------------------------------------------------------------------------
Running == left + (IF script = "running" THEN 1 ELSE 0)

\* The bus name is held from the start of the service until it is dropped.
Named == start \in {"write", "load", "run", "ready"}

\* As if the script reported the popup too.
ReportedAll(window) == window # NoWindow

Reported(window) == window \notin {OwnWindow, NoWindow}

\* One call from every script; without an owner of the name they are lost.
Report(window, times) ==
    IF Named /\ Reported(window) /\ times > 0
    THEN /\ Len(reports) + times <= MaxReports
         /\ reports' = reports \o [n \in 1 .. times |-> window]
         /\ overtaken' = (overtaken /\ reports # <<>>)
    ELSE UNCHANGED <<reports, overtaken>>

Activate(window) ==
    /\ window # active
    /\ active' = window
    /\ last' = IF window \in Shown THEN window ELSE last
    /\ Report(window, Running)
    /\ UNCHANGED <<start, scriptVars, cache, pages, asked>>

Navigate(window, page) ==
    /\ pages[window] # page
    /\ pages' = [pages EXCEPT ![window] = page]
    /\ UNCHANGED <<active, last, start, scriptVars, reportVars, asked>>

SetActiveWindow(n) ==
    /\ n \in DOMAIN reports
    /\ cache' = reports[n]
    /\ reports' = RemoveAt(reports, n)
    /\ overtaken' = (overtaken \/ n # 1)
    /\ UNCHANGED <<desktopVars, start, scriptVars, asked>>

---------------------------------------------------------------------------
\* The daemon's start.  Without browser detection there is no tracking.
Begin(detection) ==
    /\ start = "down"
    /\ start' = IF detection THEN "claim" ELSE "off"
    /\ UNCHANGED <<desktopVars, scriptVars, reportVars, asked>>

ClaimName ==
    /\ start = "claim"
    /\ start' = "write"
    /\ UNCHANGED <<desktopVars, scriptVars, reportVars, asked>>

WriteScript ==
    /\ start = "write"
    /\ start' = "load"
    /\ UNCHANGED <<desktopVars, scriptVars, reportVars, asked>>

LoadScript ==
    /\ start = "load"
    /\ start' = "run"
    /\ script' = "stopped"
    /\ UNCHANGED <<desktopVars, left, reportVars, asked>>

\* The script reports what is active as it starts.
RunScript ==
    /\ start = "run"
    /\ start' = "ready"
    /\ script' = "running"
    /\ Report(active, 1)
    /\ UNCHANGED <<desktopVars, left, cache, asked>>

\* What becomes of the script when no daemon answers for it.
Abandon ==
    /\ left + (IF script = "running" THEN 1 ELSE 0) <= MaxLeft
    /\ left' = left + (IF script = "running" THEN 1 ELSE 0)
    /\ script' = "none"

\* Any step may fail: the connection is dropped, the cache is kept.
StartFails ==
    /\ start \in {"claim", "write", "load", "run"}
    /\ start' = "failed"
    /\ Abandon
    /\ reports' = <<>>
    /\ overtaken' = FALSE
    /\ UNCHANGED <<desktopVars, cache, asked>>

\* The daemon ends, and its cache with it.
Ends ==
    /\ start' = "down"
    /\ reports' = <<>>
    /\ overtaken' = FALSE
    /\ cache' = NoWindow
    /\ asked' = Idle
    /\ UNCHANGED desktopVars

\* Only a daemon that started tracking unloads; its failure is ignored.
Shutdown ==
    /\ start \in {"ready", "failed", "off"}
    /\ asked = Idle
    /\ Ends
    /\ \/ start = "ready" /\ script' = "none" /\ UNCHANGED left
       \/ Abandon

Crash ==
    /\ start # "down"
    /\ Ends
    /\ Abandon

---------------------------------------------------------------------------
\* The worker takes a hotkey once the start is over.
Listening == start \in {"ready", "failed", "off"} /\ asked = Idle

\* The cache has to hold the last window: this daemon's script runs, and every
\* report was handled, in order.
Sure ==
    /\ start = "ready"
    /\ reports = <<>>
    /\ ~overtaken
    /\ cache # NoWindow

Found == [window |-> cache, last |-> last, sure |-> Sure]

\* detect_context without a walk: nothing kept, detection off, or no browser.
DetectAtOnce ==
    /\ Listening
    /\ cache # NoWindow => ~IsBrowser(cache)
    /\ UNCHANGED trackingVars

AskBrowser ==
    /\ Listening
    /\ cache # NoWindow
    /\ IsBrowser(cache)
    /\ asked' = Found
    /\ UNCHANGED <<desktopVars, start, scriptVars, reportVars>>

\* The walk ends, in time or not.
Answered ==
    /\ asked # Idle
    /\ asked' = Idle
    /\ UNCHANGED <<desktopVars, start, scriptVars, reportVars>>

---------------------------------------------------------------------------
TrackingInit ==
    /\ active = NoWindow
    /\ last = NoWindow
    /\ pages = [w \in Windows |-> NoPage]
    /\ start = "down"
    /\ script = "none"
    /\ left = 0
    /\ reports = <<>>
    /\ overtaken = FALSE
    /\ cache = NoWindow
    /\ asked = Idle

TrackingNext ==
    \/ \E window \in Windows \cup {NoWindow} : Activate(window)
    \/ \E window \in Shown, page \in Pages \cup {NoPage} :
           IsBrowser(window) /\ Navigate(window, page)
    \/ \E n \in 1 .. MaxReports : SetActiveWindow(n)
    \/ \E detection \in BOOLEAN : Begin(detection)
    \/ ClaimName
    \/ WriteScript
    \/ LoadScript
    \/ RunScript
    \/ StartFails
    \/ Shutdown
    \/ Crash

TrackingTypeOK ==
    /\ active \in Windows \cup {NoWindow}
    /\ {last, cache} \subseteq Shown \cup {NoWindow}
    /\ pages \in [Windows -> Pages \cup {NoPage}]
    /\ start \in Starts
    /\ script \in {"none", "stopped", "running"}
    /\ left \in 0 .. MaxLeft
    /\ reports \in Seq(Shown) /\ Len(reports) <= MaxReports
    /\ overtaken \in BOOLEAN
    /\ asked \in Asked \cup {Idle}
=================================================================================
