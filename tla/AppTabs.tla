------------------------------- MODULE AppTabs -------------------------------
(* The strip of app tabs: a list in localStorage that the main window's     *)
(* strip (hooks/tab_*.js, lib/tabs.js, lib/tab_layout.js) and the browser   *)
(* chrome (lib/chrome_app_tabs.js) both read, change and write back, and    *)
(* the requests by which an agent rearranges it (app_tabs.ex).              *)
(*                                                                          *)
(* A tab is its path: one page, or two pages side by side.  Labels and      *)
(* query parameters are left out; a page keeps its identity when it is      *)
(* joined (source_path in the code).                                        *)
EXTENDS Naturals, Sequences, FiniteSets, SequencesExt, Lists

CONSTANTS
    SecondAreas,    \* work areas besides the first
    MoreBrowsers,   \* browser tabs besides the plain route
    MaxTabOps       \* bound: what the operator and the agent do
ASSUME TabsAssumption == MaxTabOps \in Nat

HomePath == "/"  Settings == "/settings"  Inner == "/appearance"  Duty == "/duty"
Voice == "/voice"  Browse == "/browse"  Console == "/terminal"

AllAreas == {HomePath} \cup SecondAreas
Browsers == {Browse} \cup MoreBrowsers
Pages == AllAreas \cup Browsers \cup {Settings, Inner, Duty, Voice, Console}
IsJoined(path) == Len(path) = 2
Paths == {<<p>> : p \in Pages} \cup (Pages \X Pages)
Nowhere == <<>>

VARIABLES
    tabs,       \* localStorage["bc:tabs"]
    layout,     \* the open areas in localStorage, in order
    duty,       \* whether a shift is on
    at,         \* the path the main window shows
    leaving,    \* where it is going once an await is over
    closing,    \* a close that waits for the busy probe and the confirmation
    request,    \* the agent's request, on its way through the page
    waiting,    \* whether app_tabs.ex still holds the request
    told,       \* what the caller was told
    ops
tabVars == <<tabs, layout, duty, at, leaving, closing, request, waiting, told, ops>>
requestVars == <<request, waiting, told>>

Before(s, i) == {s[j] : j \in 1..(i - 1)}
ShownIn(list) == UNION {Range(path) : path \in Range(list)}

NoPlan == [ok |-> FALSE, tabs |-> <<>>, path |-> Nowhere, changed |-> FALSE]
NoClose == [path |-> Nowhere, tabs |-> <<>>, next |-> Nowhere]
Idle == [at |-> "idle", args |-> <<>>, before |-> <<>>, plan |-> NoPlan, accepted |-> FALSE]
Plan == [ok : BOOLEAN, tabs : Seq(Paths), path : Paths \cup {Nowhere}, changed : BOOLEAN]

\* The type invariant; no page has two tabs of its own.
TabsTypeOK ==
    /\ tabs \in Seq(Paths) /\ layout \in Seq(AllAreas) /\ duty \in BOOLEAN /\ at \in Paths
    /\ leaving \in Paths \cup {Nowhere}
    /\ closing \in [path : Paths \cup {Nowhere}, tabs : Seq(Paths), next : Paths \cup {Nowhere}]
    /\ request.at \in {"idle", "sent", "result", "reply"} /\ request.plan \in Plan
    /\ waiting \in BOOLEAN /\ told \in {"nothing", "done", "error"} /\ ops \in 0..MaxTabOps
    /\ \A i, j \in DOMAIN tabs : tabs[i] = tabs[j] /\ ~IsJoined(tabs[i]) => i = j

-----------------------------------------------------------------------------
(* Reading the list.                                                       *)

\* recoverRetiredTabs: the voice page became a part of Settings.
RecoverRetiredTabs(list) ==
    LET moved == [i \in DOMAIN list |->
                    IF list[i] = <<Voice>> THEN <<Settings>>
                    ELSE [side \in DOMAIN list[i] |-> IF list[i][side] = Voice THEN Inner ELSE list[i][side]]]
        first == {i \in DOMAIN list : <<Settings>> \notin Before(moved, i)}
    IN  PickAt(moved, {i \in DOMAIN list : moved[i] # <<Settings>>} \cup first)

\* reconcileAreaTabs: an open area has one tab, unless a joined tab hosts it;
\* the tab of a closed area goes.
ReconcileAreaTabs(list, areas) ==
    LET hosted == AllAreas \cap UNION {Range(path) : path \in {q \in Range(list) : IsJoined(q)}}
        stays(i) == \/ IsJoined(list[i]) \/ list[i][1] \notin AllAreas
                    \/ list[i][1] \in Range(areas) \ hosted /\ list[i] \notin Before(list, i)
        next == PickAt(list, {i \in DOMAIN list : stays(i)})
        missing == AllBut(areas, ShownIn(next))
    IN  next \o [i \in DOMAIN missing |-> <<missing[i]>>]

\* dutyTabs: while a shift is on its tab is there, where it was or last.
DutyTabs(list, active) ==
    LET others == AllBut(list, {<<Duty>>})
        i == SelectInSeq(list, LAMBDA path : path = <<Duty>>)
    IN  IF ~active THEN others
        ELSE IF i = 0 THEN Append(others, <<Duty>>) ELSE InsertAt(others, i, <<Duty>>)

LoadWith(areas, active) == DutyTabs(ReconcileAreaTabs(RecoverRetiredTabs(tabs), areas), active)
Load == LoadWith(layout, duty)

\* currentKey and tabDestination: the subpages of Settings share its tab, and
\* the tab leads to the subpage that was last open.
CurrentKey(path) == IF path = <<Inner>> THEN <<Settings>> ELSE path
TabDestination(path) == IF path = <<Settings>> THEN <<Inner>> ELSE path

\* sync: a subpage's own tab goes, and the page that is shown has a tab.
Sync(list, key) ==
    LET pruned == AllBut(list, {<<Inner>>})
    IN  IF key \in Range(pruned) THEN pruned ELSE Append(pruned, key)

-----------------------------------------------------------------------------
(* lib/tab_layout.js: the plan of a join, a separation or a swap.          *)

Bare == {HomePath, Settings, Inner, Browse, Console}
BaseOf(p) == IF p \in AllAreas THEN HomePath ELSE IF p \in Browsers THEN Browse ELSE p
Matches(p, selector) ==
    p = selector \/ (p = Inner /\ selector = Settings) \/ (selector \in Bare /\ BaseOf(p) = selector)

\* resolve: the page a selector means, if it means one: the current page, an
\* exact path, the only match among the solo tabs, or a new view of a route
\* that no joined tab holds.
JoinCurrent == "current"
Resolve(list, key, selector) ==
    LET solos == {path[1] : path \in {q \in Range(list) : ~IsJoined(q)}}
        found == {p \in solos : Matches(p, selector)}
        hosted == {p \in ShownIn(list) \ solos : Matches(p, selector)}
    IN  IF selector = JoinCurrent THEN (IF IsJoined(key) THEN {} ELSE {key[1]})
        ELSE IF selector \in solos THEN {selector}
        ELSE IF found # {} THEN (IF Cardinality(found) = 1 THEN found ELSE {})
        ELSE IF hosted = {} THEN {selector} \cap Bare ELSE {}

AsPane(p) == TabDestination(<<p>>)[1]

AlreadyJoined(list, key, a, b) ==
    /\ IsJoined(key) /\ key \in Range(list)
    /\ \E p \in Range(key) : Matches(p, b)
    /\ a = JoinCurrent \/ \E p \in Range(key) : Matches(p, a)

WithoutPages(list, p, q) == AllBut(list, {path \in Paths : {p, q} \cap Range(path) # {}})  \* mutant: any tab of theirs
WithoutSources(list, p, q) == AllBut(list, {<<p>>, <<q>>})

JoinPlan(list, key, a, b) ==
    IF AlreadyJoined(list, key, a, b) THEN [ok |-> TRUE, tabs |-> list, path |-> key, changed |-> FALSE]
    ELSE IF \E p \in Resolve(list, key, a), q \in Resolve(list, key, b) :
                p # q /\ ~{p, q} \subseteq AllAreas /\ Duty \notin {p, q}
         THEN LET p == CHOOSE r \in Resolve(list, key, a) : TRUE
                  q == CHOOSE r \in Resolve(list, key, b) : TRUE
                  joined == <<AsPane(p), AsPane(q)>>
              IN  [ok |-> TRUE, path |-> joined, changed |-> TRUE,
                   tabs |-> Append(WithoutSources(list, p, q), joined)]
         ELSE NoPlan

\* Separate both panes, or keep one of them; a page that has a tab again gets
\* no second one.
PushMissing(list, p) == IF <<p>> \in Range(list) THEN list ELSE Append(list, <<p>>)
PushAll(list, kept) == list \o [i \in DOMAIN kept |-> <<kept[i]>>]                   \* mutant: no check
PushPanes(list, kept) ==
    LET first == PushMissing(list, kept[1]) IN
    IF Len(kept) = 2 THEN PushMissing(first, kept[2]) ELSE first

SeparatePlan(list, path, kept) ==
    IF ~IsJoined(path) THEN NoPlan
    ELSE LET homes == Only(kept, AllAreas) IN
         [ok |-> TRUE, changed |-> TRUE, path |-> <<Head(homes \o kept)>>,
          tabs |-> PushPanes(AllBut(list, {path}), kept)]

SwapPlan(list, path) ==
    IF ~IsJoined(path) THEN NoPlan
    ELSE [ok |-> TRUE, changed |-> TRUE, path |-> Reverse(path),
          tabs |-> Append(AllBut(list, {path}), Reverse(path))]

-----------------------------------------------------------------------------
(* The strip.                                                              *)

TabsInit ==
    /\ tabs \in {<<>>, << <<HomePath>>, <<Settings>>, <<Voice>> >>, << <<Browse>>, <<Voice, Browse>> >>}
    /\ layout = <<HomePath>> /\ duty = FALSE
    /\ at = <<HomePath>> /\ leaving = Nowhere /\ closing = NoClose
    /\ request = Idle /\ waiting = FALSE /\ told = "nothing"
    /\ ops = 0

Operates == ops < MaxTabOps /\ ops' = ops + 1

\* The LiveView of the page ends: app_tabs.ex sees it go and answers the
\* caller, and what the page had to do for the request is forgotten.
Disconnect ==
    /\ request' = Idle /\ waiting' = FALSE
    /\ told' = IF waiting THEN "error" ELSE told

\* A click on a tab or in the dock.  A close that waits goes on waiting.
Visit(path) ==
    /\ Operates /\ path # at
    /\ at' = CurrentKey(TabDestination(path))
    /\ tabs' = Sync(Load, at')
    /\ Disconnect
    /\ UNCHANGED <<layout, duty, leaving, closing>>

\* The page load that an action asked for: the strip is mounted anew.
Arrive ==
    /\ leaving # Nowhere
    /\ at' = CurrentKey(leaving) /\ leaving' = Nowhere /\ closing' = NoClose
    /\ tabs' = Sync(Load, at')
    /\ Disconnect
    /\ UNCHANGED <<layout, duty, ops>>

\* duty-changed: the strip syncs with the page it shows, whatever it waits for.
OnDuty ==
    /\ Operates
    /\ duty' = ~duty
    /\ tabs' = Sync(LoadWith(layout, duty'), at)
    /\ UNCHANGED <<layout, at, leaving, closing, requestVars>>

\* onAreaState: a work area was opened or closed on the page.
OnAreaState(a) ==
    /\ Operates /\ Range(at) \cap AllAreas # {}
    /\ layout' = IF a \in Range(layout) THEN AllBut(layout, {a}) ELSE Append(layout, a)
    /\ tabs' = LoadWith(layout', duty)
    /\ UNCHANGED <<duty, at, leaving, closing, requestVars>>

OnOpenTerminalRequest(activate) ==
    /\ Operates
    /\ tabs' = Append(AllBut(Load, {<<Console>>}), <<Console>>)
    /\ leaving' = IF activate THEN <<Console>> ELSE leaving
    /\ UNCHANGED <<layout, duty, at, closing, requestVars>>

ReorderTab(from, to) ==
    /\ Operates /\ from # to
    /\ LET i == SelectInSeq(Load, LAMBDA path : path = from)
           j == SelectInSeq(Load, LAMBDA path : path = to)
       IN  tabs' = InsertAt(RemoveAt(Load, i), j, from)
    /\ UNCHANGED <<layout, duty, at, leaving, closing, requestVars>>

\* closeTabIn: the neighbour that slides into the place takes the screen.
CloseTabIn(list, path) ==
    LET i == SelectInSeq(list, LAMBDA q : q = path)
        rest == RemoveAt(list, i)
    IN  [path |-> path, tabs |-> rest,
         next |-> IF rest = <<>> THEN <<HomePath>> ELSE rest[IF i <= Len(rest) THEN i ELSE i - 1]]
Closable == {path \in Range(Load) : IsJoined(path) \/ path[1] \notin AllAreas \cup {Duty}}

\* The current tab closes when the probe, and then the operator, agree; the
\* list that is written then was made before.
CloseTab(path) ==
    /\ Operates
    /\ IF path = at
       THEN closing = NoClose /\ closing' = CloseTabIn(Load, path) /\ UNCHANGED tabs
       ELSE tabs' = CloseTabIn(Load, path).tabs /\ UNCHANGED closing
    /\ UNCHANGED <<layout, duty, at, leaving, requestVars>>

ConfirmClose(agreed) ==
    /\ closing # NoClose /\ closing' = NoClose
    /\ IF agreed
       THEN /\ tabs' = closing.tabs
            /\ leaving' = IF closing.path = at THEN TabDestination(closing.next) ELSE leaving
       ELSE UNCHANGED <<tabs, leaving>>
    /\ UNCHANGED <<layout, duty, at, requestVars, ops>>

\* closeAppTab of the browser chrome, another webview on the same list; it
\* shows on a page with a browser and does not close the joined tab it is in.
CloseAppTab(path) ==
    /\ Operates /\ Range(at) \cap Browsers # {}
    /\ ~(IsJoined(path) /\ path = at)
    /\ tabs' = CloseTabIn(Load, path).tabs
    /\ leaving' = IF path = at THEN TabDestination(CloseTabIn(Load, path).next) ELSE leaving
    /\ UNCHANGED <<layout, duty, at, closing, requestVars>>

\* applyLayout: the strip's own controls save the plan and go there.
ApplyLayout(plan) ==
    /\ Operates /\ plan.ok
    /\ tabs' = plan.tabs /\ leaving' = TabDestination(plan.path)
    /\ UNCHANGED <<layout, duty, at, closing, requestVars>>

\* renderMenu: the menu of a tab offers to join it with every other solo tab.
JoinTargets(path) ==
    IF IsJoined(path) THEN {} ELSE {other \in Range(Load) \ {path} : ~IsJoined(other)}

JoinTabs(path, other) ==
    /\ other \in JoinTargets(path)
    /\ ApplyLayout(JoinPlan(Load, at, path[1], other[1]))
SeparateTabs(path) == ApplyLayout(SeparatePlan(Load, path, path))
SwapSides(path) == ApplyLayout(SwapPlan(Load, path))
CloseSplitPane(side) == IsJoined(at) /\ ApplyLayout(SeparatePlan(Load, at, <<at[3 - side]>>))

-----------------------------------------------------------------------------
(* An agent's request: app_tabs.ex, the page, app_tabs.ex, the page.       *)

RequestTabs(args) ==
    /\ Operates /\ ~waiting /\ request = Idle
    /\ waiting' = TRUE /\ told' = "nothing"
    /\ request' = [Idle EXCEPT !.at = "sent", !.args = args]
    /\ UNCHANGED <<tabs, layout, duty, at, leaving, closing>>

\* onTabRequest: an expired request is refused, another is planned and saved
\* before the answer is sent.
RequestPlan(args) ==
    IF args[1] = "join" THEN JoinPlan(Load, at, JoinCurrent, args[2])
    ELSE IF at \in Range(Load) THEN SeparatePlan(Load, at, at) ELSE NoPlan

OnTabRequest ==
    /\ request.at = "sent"
    /\ LET plan == IF waiting THEN RequestPlan(request.args) ELSE NoPlan IN
       /\ request' = [request EXCEPT !.at = "result", !.plan = plan, !.before = Load]
       /\ tabs' = IF plan.ok THEN plan.tabs ELSE tabs
    /\ UNCHANGED <<layout, duty, at, leaving, closing, waiting, told, ops>>

\* fulfill: an answer counts while the request is held.
AcceptsAlways == TRUE                                                  \* mutant: a late answer counts
Accepts == waiting

Fulfill ==
    /\ request.at = "result"
    /\ request' = [request EXCEPT !.at = "reply", !.accepted = Accepts]
    /\ told' = IF waiting THEN IF request.plan.ok THEN "done" ELSE "error" ELSE told
    /\ waiting' = FALSE
    /\ UNCHANGED <<tabs, layout, duty, at, leaving, closing, ops>>

Expire ==
    /\ waiting
    /\ waiting' = FALSE /\ told' = "error"
    /\ UNCHANGED <<tabs, layout, duty, at, leaving, closing, request, ops>>

\* The reply: a refused plan is undone if the list is still the plan's, an
\* accepted one is navigated to.
UndoAlways(plan) == TRUE                                               \* mutant: later changes are undone too
UndoIfUntouched(plan) == Load = plan.tabs

OnReply ==
    /\ request.at = "reply" /\ request' = Idle
    /\ tabs' = IF ~request.accepted /\ request.plan.ok /\ UndoIfUntouched(request.plan)
               THEN request.before ELSE tabs
    /\ leaving' = IF request.accepted /\ request.plan.ok /\ request.plan.path # at
                  THEN request.plan.path ELSE leaving
    /\ UNCHANGED <<layout, duty, at, closing, waiting, told, ops>>

-----------------------------------------------------------------------------
Docked == {<<p>> : p \in {Settings, Browse, Console} \cup Range(layout)}

TabsNext ==
    \/ Arrive \/ OnDuty \/ OnTabRequest \/ Fulfill \/ Expire \/ OnReply
    \/ \E path \in Range(Load) \cup Docked : Visit(path)
    \/ \E path \in Closable : CloseTab(path) \/ CloseAppTab(path)
    \/ \E path \in Range(Load) : SeparateTabs(path) \/ SwapSides(path)
    \/ \E path, other \in Range(Load) : ReorderTab(path, other) \/ JoinTabs(path, other)
    \/ \E a \in SecondAreas : OnAreaState(a)
    \/ \E answer \in BOOLEAN : ConfirmClose(answer) \/ OnOpenTerminalRequest(answer)
    \/ \E side \in 1..2 : CloseSplitPane(side)
    \/ RequestTabs(<<"separate">>)
    \/ \E p \in Pages \ {Voice, Inner} : RequestTabs(<<"join", p>>)

TabsSpec == TabsInit /\ [][TabsNext]_tabVars

-----------------------------------------------------------------------------
(* Properties.                                                             *)

\* A page that Settings leads to is shown by the Settings tab.
Reachable(list) == {IF p = Inner THEN Settings ELSE p : p \in ShownIn(list)}

\* A join, a separation and a swap take no page out of the strip, whatever
\* else is open (lib/tab_layout.js:86-138).
LayoutKeepsPages ==
    /\ request.plan.ok => Reachable(request.before) \subseteq Reachable(request.plan.tabs)
    /\ \A path \in Range(tabs) : IsJoined(path) =>
            /\ Reachable(tabs) \subseteq Reachable(SwapPlan(tabs, path).tabs)
            /\ Reachable(tabs) \subseteq Reachable(SeparatePlan(tabs, path, path).tabs)

RollbackLosesNothing == (ShownIn(tabs) \cap ShownIn(Load)) \ ShownIn(request.plan.tabs) \subseteq ShownIn(tabs')
FollowsOnlyWhatWasTold == leaving' # leaving => told = "done"

\* An agent's request ends as its caller was told, however long the page took and
\* whatever was done meanwhile: undoing a refused plan takes away no page that was
\* opened since, and the window follows only a plan that was reported as done
\* (app_tabs.ex:62-67, hooks/tab_layout.js:33-39).
RequestsEndAsTold == [][OnReply => RollbackLosesNothing /\ FollowsOnlyWhatWasTold]_tabVars
=============================================================================
