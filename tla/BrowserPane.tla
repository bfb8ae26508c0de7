----------------------------- MODULE BrowserPane -----------------------------
(* The Browser page and its native webviews: the EmbeddedBrowser hook opens  *)
(* them over the surface element, keeps them there, and hides them while     *)
(* Agent Mode or the activity graph has the slot.  A patch of the page and   *)
(* the hook's updated() are one step; frames, timers and the native side     *)
(* come later.                                                               *)
EXTENDS Naturals, Sequences

CONSTANTS
    MaxPatches, \* bound: patches and visits of the page
    MaxSyncs    \* bound: resizes and scrolls

ASSUME PaneBounds == MaxPatches \in Nat /\ MaxSyncs \in Nat

VARIABLES
    here,       \* the page is mounted
    mirror,     \* data-agent-mirror or data-activity-expanded: the surface is not in the DOM
    surface,    \* what the hook holds: no element, the one in the DOM, or a removed one
    opened, mirrorHidden,
    frame, settle,  \* a scheduled frame, and the timer of mounted
    invokes,    \* invocations under way, in order
    webviews,   \* the native surface: "none", "shown" or "hidden"
    paneOps         \* history: patches and resizes so far
paneHookVars == <<surface, opened, mirrorHidden, frame, settle>>
paneVars == <<here, mirror, paneHookVars, invokes, webviews, paneOps>>

\* The type invariant.
PaneTypeOK ==
    /\ here \in BOOLEAN /\ mirror \in BOOLEAN /\ surface \in {"none", "current", "removed"}
    /\ opened \in BOOLEAN /\ mirrorHidden \in BOOLEAN /\ frame \in BOOLEAN /\ settle \in BOOLEAN
    /\ invokes \in Seq({"open", "bounds", "hide"}) /\ webviews \in {"none", "shown", "hidden"}
    /\ paneOps \in [patch : 0..MaxPatches, sync : 0..MaxSyncs]
    /\ surface = "current" => here /\ ~mirror

PaneInit ==
    /\ here = FALSE /\ mirror \in BOOLEAN /\ surface = "none" /\ opened = FALSE /\ mirrorHidden = FALSE
    /\ frame = FALSE /\ settle = FALSE /\ invokes = <<>> /\ webviews = "none" /\ paneOps = [patch |-> 0, sync |-> 0]

Counted(what, max) == paneOps[what] < max /\ paneOps' = [paneOps EXCEPT ![what] = @ + 1]
PaneInvokes(c) == invokes' = Append(invokes, c)
AlwaysThere(m) == "current"                 \* mutant: the surface stays under the mirror
InDom(m) == IF m THEN "none" ELSE "current"

-----------------------------------------------------------------------------
(* The page and the hook.                                                  *)

MountPane ==
    /\ ~here /\ here' = TRUE /\ surface' = InDom(mirror)
    /\ opened' = FALSE /\ mirrorHidden' = FALSE /\ frame' = TRUE /\ settle' = TRUE
    /\ Counted("patch", MaxPatches) /\ UNCHANGED <<mirror, invokes, webviews>>

\* A run starts or ends, the graph is expanded or closed, or the page is patched
\* for another reason: m says whether the surface is out of the DOM now.
KeepsPainting == UNCHANGED invokes          \* mutant: the webviews stay over the mirror
GetsOutOfTheWay == PaneInvokes("hide")
UpdatedUnderMirror ==
    IF mirrorHidden THEN UNCHANGED <<surface, opened, mirrorHidden, frame, settle, invokes>>
    ELSE /\ mirrorHidden' = TRUE /\ surface' = "none" /\ GetsOutOfTheWay /\ UNCHANGED <<opened, frame, settle>>

KeepsTheReference == IF surface = "none" THEN "removed" ELSE surface    \* mutant: not queried again
QueriesSurface == "current"
UpdatedWithSurface ==
    IF mirrorHidden
    THEN mirrorHidden' = FALSE /\ surface' = QueriesSurface /\ frame' = TRUE /\ UNCHANGED <<opened, settle, invokes>>
    ELSE UNCHANGED <<surface, opened, mirrorHidden, frame, settle, invokes>>

Patch(m) ==
    /\ here /\ Counted("patch", MaxPatches) /\ mirror' = m
    /\ IF m THEN UpdatedUnderMirror ELSE UpdatedWithSurface
    /\ UNCHANGED <<here, webviews>>

\* A resize or a scroll, seen by the observer or the window.
Schedule ==
    /\ here /\ ~frame /\ frame' = TRUE /\ Counted("sync", MaxSyncs)
    /\ UNCHANGED <<here, mirror, surface, opened, mirrorHidden, settle, invokes, webviews>>
Settle ==
    /\ settle /\ settle' = FALSE /\ frame' = TRUE
    /\ UNCHANGED <<here, mirror, surface, opened, mirrorHidden, invokes, webviews, paneOps>>

\* sync(): without an element in the page there is no box.
Sync ==
    /\ frame /\ frame' = FALSE
    /\ IF surface # "current" THEN UNCHANGED <<opened, invokes>>
       ELSE opened' = TRUE /\ PaneInvokes(IF opened THEN "bounds" ELSE "open")
    /\ UNCHANGED <<here, mirror, surface, mirrorHidden, settle, webviews, paneOps>>

DestroyPane ==
    /\ here /\ here' = FALSE /\ frame' = FALSE /\ settle' = FALSE /\ PaneInvokes("hide")
    /\ surface' = "none" /\ opened' = FALSE /\ mirrorHidden' = FALSE
    /\ UNCHANGED <<mirror, webviews, paneOps>>
\* A run may start or end while nobody looks.
RunElsewhere == ~here /\ mirror' = ~mirror /\ UNCHANGED <<here, paneHookVars, invokes, webviews, paneOps>>

-----------------------------------------------------------------------------
(* The native side: browser_open, browser_set_bounds, browser_hide.        *)

Native ==
    /\ invokes # <<>> /\ invokes' = Tail(invokes)
    /\ webviews' = IF Head(invokes) = "open" THEN "shown" ELSE IF webviews = "none" THEN "none"
                   ELSE IF Head(invokes) = "bounds" THEN "shown" ELSE "hidden"
    /\ UNCHANGED <<here, mirror, paneHookVars, paneOps>>

PaneNext ==
    \/ MountPane \/ DestroyPane \/ Schedule \/ Settle \/ Sync \/ RunElsewhere \/ Native
    \/ \E m \in BOOLEAN : Patch(m)

PaneSpec == PaneInit /\ [][PaneNext]_paneVars

-----------------------------------------------------------------------------
(* Properties.                                                             *)

PaneAtRest == ~frame /\ ~settle /\ invokes = <<>>

\* Once nothing is under way the webviews are hidden wherever they do not belong:
\* over the mirror, over the graph, over another page (hooks/browser.js:231-234, 273).
NeverPaintsOver == PaneAtRest /\ webviews = "shown" => here /\ ~mirror

\* And they are back over the surface of a page that was hidden for a run, or was
\* mounted with it (hooks/browser.js:253-255).
ComesBack == PaneAtRest /\ here /\ ~mirror /\ surface # "none" => webviews = "shown"

\* The native surface is on the screen exactly where the page has a place for it.
SurfaceFollowsThePage == NeverPaintsOver /\ ComesBack
=============================================================================
