------------------------------ MODULE Workbench ------------------------------
(* The work areas: the arrangement the LiveView owns (work_areas.ex,        *)
(* workbench_hook.ex), the copy the page draws and drags about              *)
(* (hooks/workbench*.js), and the two ordered streams between them.  Every  *)
(* event is answered by the whole arrangement; one that arrives during a    *)
(* drag waits, unless it is of another revision or area.                    *)
EXTENDS Naturals, Sequences, FiniteSets, SequencesExt

CONSTANTS
    Panels, Terminals,  \* the keys of panels, and of terminal slots (used once)
    Home,               \* the panel a new work area starts with
    Areas,              \* bound: the numbers areas get, each once; area 1 is never closed
    Capacity,           \* panels an area holds (4 in the code)
    MaxRevision,        \* bound: layout changes
    MaxEvents,          \* bound: messages under way
    Nothing

Keys == Panels \cup Terminals

VARIABLES
    desk,       \* the LiveView's arrangement
    numbered,   \* the terminal slots that were given out
    up, down,   \* events to the LiveView, arrangements back
    seen,       \* this.state of the page
    pendingState,
    drag,       \* the gesture of the pointer or the keyboard
    asking,     \* a close that waits for the probe or the confirmation
    shells,     \* the terminals whose shell is alive
    unasked     \* history: terminals of a closed area that were not on the page
                \* when its closing was asked for
workVars == <<desk, numbered, up, down, seen, pendingState, drag, asking, shells, unasked>>
serverVars == <<desk, numbered, shells, unasked>>
pageVars == <<seen, pendingState, drag, asking>>

Arrangement == [open : SUBSET Areas, panes : [Areas -> Seq(Keys)], focus : [Areas -> Keys \cup {Nothing}],
                active : Areas, next : Nat, revision : Nat]
ASSUME AreasAssumption == Areas \subseteq Nat /\ 1 \in Areas
ASSUME CapacityAssumption == Capacity \in Nat \ {0}
ASSUME HomeAssumption == Home \in Panels \ Terminals
ASSUME NothingAssumption == Nothing \notin Arrangement

Leaves(d, a) == Range(d.panes[a])
AllKeys(d) == UNION {Leaves(d, a) : a \in Areas}
NoDrag == [kind |-> "none", area |-> 1, revision |-> 0, key |-> Nothing, start |-> <<>>,
           order |-> <<>>, moved |-> FALSE]
Dragging == drag.kind # "none"
NoAsk == [area |-> Nothing, key |-> Nothing, hooks |-> {}]

\* The type invariant, with what the arrangement must be: no panel twice, the
\* closed areas empty, the active area open and its focus one of its panels.
WorkTypeOK ==
    /\ \A d \in {desk, seen, pendingState} \ {Nothing} :
            d \in Arrangement /\ \A a \in Areas : Len(d.panes[a]) <= Capacity
    /\ numbered \subseteq Terminals /\ shells \subseteq Terminals /\ unasked \subseteq Terminals
    /\ \A a, b \in Areas : \A i \in DOMAIN desk.panes[a], j \in DOMAIN desk.panes[b] :
            desk.panes[a][i] = desk.panes[b][j] => a = b /\ i = j
    /\ desk.active \in desk.open /\ \A a \in Areas \ desk.open : desk.panes[a] = <<>>
    /\ \A a \in desk.open : a < desk.next
    /\ \A a \in desk.open : desk.focus[a] \in Leaves(desk, a) \/ desk.panes[a] = <<>>

WorkInit ==
    /\ desk = [open |-> {1}, panes |-> [a \in Areas |-> IF a = 1 THEN <<Home>> ELSE <<>>],
               focus |-> [a \in Areas |-> IF a = 1 THEN Home ELSE Nothing],
               active |-> 1, next |-> 2, revision |-> 0]
    /\ numbered = {} /\ up = <<>> /\ down = <<>>
    /\ seen = desk /\ pendingState = Nothing
    /\ drag = NoDrag /\ asking = NoAsk /\ shells = {} /\ unasked = {}

-----------------------------------------------------------------------------
(* The LiveView.                                                           *)

\* A change of the layout moves the revision on; focus and selection do not.
Bumped(d) == [d EXCEPT !.revision = @ + 1]

OpenedIn(d, a, key) == Bumped([d EXCEPT !.panes[a] = Append(@, key), !.focus[a] = key,
                                        !.active = a, !.open = @ \cup {a}])
\* place/2: in the active area while it has room, else in a new one, whose
\* number no area had before.
PlaceKey(d, key) ==
    IF Len(d.panes[d.active]) < Capacity THEN OpenedIn(d, d.active, key)
    ELSE IF d.next \in Areas THEN OpenedIn([d EXCEPT !.next = @ + 1], d.next, key)
    ELSE d

Holder(d, key) == CHOOSE a \in Areas : key \in Leaves(d, a)

DeskOpens(d, key) ==
    IF key \in AllKeys(d)
    THEN [d EXCEPT !.active = Holder(d, key), !.focus[Holder(d, key)] = key]
    ELSE PlaceKey(d, key)

FocusStays(focus, key, rest) == focus                               \* mutant: the focus is left behind
FirstOr(s) == IF s = <<>> THEN Nothing ELSE Head(s)
FocusAfter(focus, key, rest) == IF focus = key THEN FirstOr(rest) ELSE focus

Without(d, a, key) ==
    LET panes == d.panes[a]
        rest == RemoveAt(panes, CHOOSE i \in DOMAIN panes : panes[i] = key)
    IN  Bumped([d EXCEPT !.panes[a] = rest, !.focus[a] = FocusAfter(@, key, rest)])

DeskCloses(d, key) == IF key \in AllKeys(d) THEN Without(d, Holder(d, key), key) ELSE d

DeskClosesArea(d, a) ==
    IF a \notin d.open \ {1} THEN d
    ELSE Bumped([d EXCEPT !.open = @ \ {a}, !.panes[a] = <<>>, !.focus[a] = Nothing,
                          !.active = IF @ = a THEN 1 ELSE @])

\* mutate_layout: a drag counts for the area and the revision it began with.
CurrentAlways(d, e) == TRUE                                          \* mutant: no revision check
Current(d, e) == e.area = d.active /\ e.revision = d.revision

Reordered(d, order) ==
    IF order # d.panes[d.active] /\ Len(order) = Len(d.panes[d.active])
       /\ Range(order) = Leaves(d, d.active)
    THEN Bumped([d EXCEPT !.panes[d.active] = order]) ELSE d

Answer(d, e) ==
    CASE e.event = "focus"   -> IF e.key \in Leaves(d, d.active) THEN [d EXCEPT !.focus[d.active] = e.key] ELSE d
      [] e.event = "select"  -> IF e.area \in d.open THEN [d EXCEPT !.active = e.area] ELSE d
      [] e.event = "reorder" -> IF Current(d, e) THEN Reordered(d, e.order) ELSE d
      [] e.event = "resize"  -> IF Current(d, e) THEN Bumped(d) ELSE d
      [] e.event = "close"   -> DeskCloses(d, e.key)
      [] e.event = "area"    -> DeskClosesArea(d, e.area)

\* handle_event and put_state: the whole arrangement is pushed back whatever
\* became of the event.
HandleEvent ==
    /\ up # <<>> /\ desk.revision < MaxRevision
    /\ desk' = Answer(desk, Head(up))
    /\ Len(down) <= MaxEvents /\ down' = Append(down, desk')
    /\ up' = Tail(up)
    /\ unasked' = unasked \cup {k \in Terminals \cap AllKeys(desk) : k \notin AllKeys(desk') \cup Head(up).found}
    /\ UNCHANGED <<numbered, shells, pageVars>>

\* workbench_terminal_new, select_home_tab and the commands that open a panel;
\* the terminal's view starts its shell when it mounts.
OpenPanel(key) ==
    /\ key \notin numbered /\ Len(down) <= MaxEvents /\ desk.revision < MaxRevision
    /\ desk' = DeskOpens(desk, key) /\ down' = Append(down, desk')
    /\ LET begun == {key} \cap Terminals \cap AllKeys(desk') IN
       numbered' = numbered \cup begun /\ shells' = shells \cup begun
    /\ UNCHANGED <<up, unasked, pageVars>>

-----------------------------------------------------------------------------
(* The page.                                                               *)

Push(e) == Len(up) < MaxEvents /\ up' = Append(up, e)
Event == [event |-> "none", key |-> Nothing, area |-> 1, revision |-> 0, order |-> <<>>,
          base |-> <<>>, found |-> {}]  \* the last two are history
Shown == seen.panes[seen.active]

PushFocus(key) ==
    /\ key \in Range(Shown) /\ key # seen.focus[seen.active]
    /\ Push([Event EXCEPT !.event = "focus", !.key = key])
    /\ UNCHANGED <<serverVars, down, pageVars>>

SelectArea(a) ==
    /\ a \in seen.open \ {seen.active}
    /\ Push([Event EXCEPT !.event = "select", !.area = a])
    /\ UNCHANGED <<serverVars, down, pageVars>>

Snapshot(kind, key) == [kind |-> kind, area |-> seen.active, revision |-> seen.revision, key |-> key,
                        start |-> Shown, order |-> Shown, moved |-> FALSE]

\* armPaneDrag: a header is picked up.
ArmPaneDrag(key) ==
    /\ ~Dragging /\ key \in Range(Shown) /\ Len(Shown) >= 2
    /\ drag' = Snapshot("pane", key)
    /\ UNCHANGED <<serverVars, up, down, seen, pendingState, asking>>

\* reorderKeys: the panels between slide one slot over.
ReorderKeys(keys, key, target) ==
    LET from == CHOOSE i \in DOMAIN keys : keys[i] = key
        to   == CHOOSE i \in DOMAIN keys : keys[i] = target
    IN  InsertAt(RemoveAt(keys, from), to, key)

MovePane(target) ==
    /\ drag.kind = "pane" /\ target \in Range(drag.order) \ {drag.key}
    /\ drag' = [drag EXCEPT !.moved = TRUE, !.order = ReorderKeys(@, drag.key, target)]
    /\ seen' = [seen EXCEPT !.panes[seen.active] = drag'.order]
    /\ UNCHANGED <<serverVars, up, down, pendingState, asking>>

\* dropPane: what waited is taken over, the released order stays on the screen
\* and is sent with the revision of the beginning.
DroppedIgnoring(order) == [seen EXCEPT !.panes[drag.area] = order]    \* mutant: what waited is dropped
Dropped(order) ==
    [IF pendingState = Nothing THEN seen ELSE pendingState EXCEPT !.panes[drag.area] = order]

DropPane(cancelled) ==
    /\ drag.kind = "pane"
    /\ LET order == IF cancelled THEN drag.start ELSE drag.order IN
       /\ seen' = Dropped(order)
       /\ IF drag.moved
          THEN Push([Event EXCEPT !.event = "reorder", !.order = order, !.base = drag.start,
                                  !.area = drag.area, !.revision = drag.revision])
          ELSE UNCHANGED up
    /\ drag' = NoDrag /\ pendingState' = Nothing
    /\ UNCHANGED <<serverVars, down, asking>>

\* The divider between two panels.
StartDrag ==
    /\ ~Dragging /\ Len(Shown) >= 2
    /\ drag' = Snapshot("divider", Nothing)
    /\ UNCHANGED <<serverVars, up, down, seen, pendingState, asking>>

MoveDivider ==
    /\ drag.kind = "divider" /\ drag' = [drag EXCEPT !.moved = TRUE]
    /\ UNCHANGED <<serverVars, up, down, seen, pendingState, asking>>

EndDrag ==
    /\ drag.kind = "divider"
    /\ IF drag.moved
       THEN Push([Event EXCEPT !.event = "resize", !.area = drag.area, !.revision = drag.revision,
                               !.base = drag.start])
       ELSE UNCHANGED up
    /\ drag' = NoDrag
    /\ UNCHANGED <<serverVars, down, seen, pendingState, asking>>

\* receiveState: during a drag an arrangement of the same revision and area
\* waits; any other ends the drag.
Waits(d) == Dragging /\ d.revision = seen.revision /\ d.active = seen.active

ReceiveState ==
    /\ down # <<>>
    /\ down' = Tail(down)
    /\ IF Waits(Head(down))
       THEN pendingState' = Head(down) /\ UNCHANGED <<seen, drag>>
       ELSE pendingState' = Nothing /\ seen' = Head(down) /\ drag' = NoDrag
    /\ UNCHANGED <<serverVars, up, asking>>

\* closeArea and closeTerminal: the views in the panes are looked up, probed
\* for running work and, if need be, the operator is asked.
AskArea(a) ==
    /\ asking = NoAsk /\ a \in seen.open \ {1}
    /\ asking' = [area |-> a, key |-> Nothing, hooks |-> Leaves(seen, a) \cap Terminals]
    /\ UNCHANGED <<serverVars, up, down, seen, pendingState, drag>>

AskTerminal(key) ==
    /\ asking = NoAsk /\ key \in AllKeys(seen) \cap Terminals
    /\ asking' = [area |-> Nothing, key |-> key, hooks |-> {key}]
    /\ UNCHANGED <<serverVars, up, down, seen, pendingState, drag>>

Refuse ==
    /\ asking # NoAsk /\ asking' = NoAsk
    /\ UNCHANGED <<serverVars, up, down, seen, pendingState, drag>>

\* closeSession of every view found, then the event.
EndSessionsOfNone(hooks) == shells                                   \* mutant: the pane goes, its shell stays
EndSessions(hooks) == shells \ hooks

Agree ==
    /\ asking # NoAsk /\ asking' = NoAsk
    /\ shells' = EndSessions(asking.hooks)
    /\ Push(IF asking.key = Nothing
            THEN [Event EXCEPT !.event = "area", !.area = asking.area, !.found = asking.hooks]
            ELSE [Event EXCEPT !.event = "close", !.key = asking.key, !.found = asking.hooks])
    /\ UNCHANGED <<desk, numbered, unasked, down, seen, pendingState, drag>>

WorkNext ==
    \/ HandleEvent \/ ReceiveState
    \/ \E key \in Keys : OpenPanel(key) \/ PushFocus(key) \/ ArmPaneDrag(key) \/ MovePane(key) \/ AskTerminal(key)
    \/ \E a \in Areas : SelectArea(a) \/ AskArea(a)
    \/ \E cancelled \in BOOLEAN : DropPane(cancelled)
    \/ StartDrag \/ MoveDivider \/ EndDrag \/ Refuse \/ Agree

WorkSpec == WorkInit /\ [][WorkNext]_workVars

-----------------------------------------------------------------------------
(* Properties.                                                             *)

\* When nothing is under way and nothing is held, the page shows what the
\* LiveView has, or holds it as the arrangement that waits
\* (hooks/workbench_areas.js:7-22, workbench_drag.js:80-85).
PageCatchesUp ==
    up = <<>> /\ down = <<>> /\ ~Dragging => desk \in {seen, pendingState}

\* A drag changes only the arrangement it was made on: a reorder or a resize
\* that the LiveView applies was made among the panels the area still has,
\* whatever was opened, closed, selected or reset meanwhile
\* (workbench_hook.ex:133-141, hooks/workbench_areas.js:7-22).
DragsApplyToWhatWasShown ==
    [][\A i \in DOMAIN up :
          HandleEvent /\ i = 1 /\ up[i].event \in {"reorder", "resize"} /\ desk'.revision # desk.revision
            => Range(up[i].base) = Leaves(desk, desk.active)]_workVars

\* A terminal that left the arrangement has no shell any more, unless it was
\* put into an area whose closing had already looked its terminals up
\* (hooks/workbench_areas.js:57-67, hooks/workbench.js:143-156).
GonePanesHaveNoShell == shells \subseteq AllKeys(desk) \cup unasked

\* However events, drags, closings and answers cross: the page does not stay behind the
\* LiveView, and a pane that went leaves no shell running that nobody can reach.
PagesAndShellsFollow == PageCatchesUp /\ GonePanesHaveNoShell
=============================================================================
