---------------------------- MODULE BrowserChrome ----------------------------
(* The embedded browser's tab strip (chrome.js), which owns the tabs, and   *)
(* the native side (browser/mod.rs, state.rs, webviews.rs), which owns      *)
(* their webviews: the commands of the strip and the callbacks of the       *)
(* webviews travel in two ordered streams, and the least recently used      *)
(* webviews are closed under the strip while their tabs stay.               *)
EXTENDS Naturals, Sequences, FiniteSets, SequencesExt

CONSTANTS
    Pages,          \* addresses other than the browser's home page
    HomePage,
    Sessions,       \* the tab lists a surface may have saved
    MaxLive,        \* webviews that stay live (MAX_LIVE_TABS, 6)
    MaxTabs,        \* bound: tab ids
    MaxChromeOps    \* bound: what the user and the pages do

ASSUME PagesAssumption == Pages # {} /\ HomePage # ""
ASSUME ChromeBounds == MaxLive \in Nat \ {0} /\ MaxTabs \in Nat \ {0}

VARIABLES
    tabs, activeId, nextId, \* the strip; 0 where nothing is active
    deepLinked, reply,      \* INITIAL_VALUE # "", and what GET /browser/tabs answers
    saveTimer, stored,      \* the debounced save: its timer, and the tabs it last sent
    commands, callbacks,    \* invokes of the strip, evals into it
    live, mru, active, ephemeral,   \* BrowserState and the content webviews
    ops,                    \* history: things done so far
    unborn                  \* history: tabs whose webview could not be made
stripVars == <<tabs, activeId, nextId, saveTimer>>
nativeTabVars == <<live, mru, active, ephemeral>>
chromeVars == <<stripVars, deepLinked, reply, stored, commands, callbacks, nativeTabVars, ops, unborn>>

TabIds == 1..MaxTabs
Urls == Pages \cup {HomePage, ""}
Tab == [id : TabIds, url : Urls, ephemeral : BOOLEAN, suspended : BOOLEAN]
Fresh(id, url, private) ==
    [id |-> id, url |-> url, ephemeral |-> private, suspended |-> FALSE]
IdsOf(s) == {s[i].id : i \in DOMAIN s}
TabOf(id) == tabs[CHOOSE i \in DOMAIN tabs : tabs[i].id = id]
IndexOf(s, id) == CHOOSE i \in DOMAIN s : s[i].id = id
\* Positions in the order in which they stand: what a filter leaves of a list.
InTurn(at) == {f \in [1..Cardinality(at) -> at] :
                  Range(f) = at /\ \A i, j \in DOMAIN f : i < j => f[i] < f[j]}
Command == [what : {"new", "switch", "close", "navigate"}, id : TabIds, url : Urls, private : BOOLEAN]
Callback == [what : {"loading", "navigated", "suspended", "open"}, id : 0..MaxTabs, url : Urls, private : BOOLEAN]

\* The type invariant: no id twice, something is active, and of the webviews
\* that are not private at most MaxLive stay.
ChromeTypeOK ==
    /\ tabs \in Seq(Tab) /\ nextId \in 2..(MaxTabs + 1) /\ activeId \in IdsOf(tabs)
    /\ \A i, j \in DOMAIN tabs : tabs[i].id = tabs[j].id => i = j
    /\ \A id \in IdsOf(tabs) : id < nextId
    /\ saveTimer \in BOOLEAN /\ stored \subseteq TabIds /\ commands \in Seq(Command) /\ callbacks \in Seq(Callback)
    /\ live \subseteq TabIds /\ active \in 0..MaxTabs /\ ephemeral \subseteq TabIds
    /\ mru \in Seq(TabIds) /\ IsInjective(mru) /\ Cardinality(live \ ephemeral) <= MaxLive

ASSUME SessionsAssumption == \A s \in Sessions : s.tabs \in Seq(Urls) /\ s.active \in Nat
NoSession == [tabs |-> <<>>, active |-> 0]

\* browser_open has made tab 1, whose page is loading.
ChromeInit ==
    /\ tabs = <<Fresh(1, "", FALSE)>> /\ activeId = 1 /\ nextId = 2
    /\ deepLinked \in BOOLEAN /\ reply \in Sessions
    /\ saveTimer = FALSE /\ stored = {} /\ commands = <<>>
    /\ callbacks = <<[what |-> "loading", id |-> 1, url |-> HomePage, private |-> FALSE]>>
    /\ live = {1} /\ mru = <<1>> /\ active = 1 /\ ephemeral = {} /\ ops = 0 /\ unborn = {}

-----------------------------------------------------------------------------
(* The strip.                                                              *)

Cmd(what, id, url, private) == [what |-> what, id |-> id, url |-> url, private |-> private]
Invokes(s) == commands' = commands \o s
Op == ops < MaxChromeOps /\ ops' = ops + 1
FromStrip == Op /\ UNCHANGED <<deepLinked, reply, stored, callbacks, nativeTabVars, unborn>>

NewTabAt(s, url, chip, private) ==
    /\ nextId <= MaxTabs /\ nextId' = nextId + 1
    /\ tabs' = Append(s, Fresh(nextId, chip, private)) /\ activeId' = nextId
    /\ saveTimer' = TRUE
NewTabCmd(url, private) == Cmd("new", nextId, url, private)

NewTab(private) ==
    /\ NewTabAt(tabs, HomePage, "", private) /\ Invokes(<<NewTabCmd(HomePage, private)>>)
    /\ FromStrip

SwitchTab(id) ==
    /\ id \in IdsOf(tabs) \ {activeId} /\ activeId' = id /\ saveTimer' = TRUE
    /\ Invokes(<<Cmd("switch", id, TabOf(id).url, FALSE)>>)
    /\ UNCHANGED <<tabs, nextId>> /\ FromStrip

\* The neighbour that a closed active tab leaves to.
SwitchForgotten(next) == <<>>                                   \* mutant: native side is not told
SwitchToNeighbour(next) == <<Cmd("switch", next.id, next.url, FALSE)>>

CloseTab(id) ==
    /\ id \in IdsOf(tabs) /\ saveTimer' = TRUE
    /\ LET i == IndexOf(tabs, id)
           rest == RemoveAt(tabs, i)
           close == Cmd("close", id, "", FALSE) IN
       \/ /\ rest = <<>>
          /\ NewTabAt(<<>>, HomePage, "", FALSE) /\ Invokes(<<close, NewTabCmd(HomePage, FALSE)>>)
       \/ /\ rest # <<>> /\ id = activeId
          /\ LET next == rest[IF i = 1 THEN 1 ELSE i - 1] IN
             /\ tabs' = rest /\ activeId' = next.id /\ UNCHANGED nextId
             /\ Invokes(<<close>> \o SwitchToNeighbour(next))
       \/ /\ rest # <<>> /\ id # activeId
          /\ tabs' = rest /\ UNCHANGED <<activeId, nextId>> /\ Invokes(<<close>>)
    /\ FromStrip

\* Dropping a tab on another one.
DropTab ==
    \E i, j \in DOMAIN tabs :
        /\ i # j /\ tabs' = InsertAt(RemoveAt(tabs, i), j, tabs[i]) /\ saveTimer' = TRUE
        /\ UNCHANGED <<activeId, nextId, commands>> /\ FromStrip

\* Enter in the address bar; the page answers with its callbacks.
Go(url) ==
    /\ Invokes(<<Cmd("navigate", activeId, url, FALSE)>>) /\ UNCHANGED stripVars /\ FromStrip

\* serializeTabs, sent when the timer ends: the private tabs are left out.
AllTabs(s) == IdsOf(s)                                          \* mutant
Durable(s) == {s[i].id : i \in {j \in DOMAIN s : ~s[j].ephemeral}}
SaveTabs ==
    /\ saveTimer /\ saveTimer' = FALSE /\ stored' = Durable(tabs)
    /\ UNCHANGED <<tabs, activeId, nextId, deepLinked, reply, commands, callbacks, nativeTabVars, ops, unborn>>

\* restoreTabs, when the answer arrives: whatever was opened or closed
\* meanwhile, the first tab takes the first page and the others follow.
Entries == {i \in DOMAIN reply.tabs : reply.tabs[i] \notin {"", HomePage}}
RestoreTabs ==
    /\ Entries # {} /\ reply' = NoSession
    /\ \E at \in InTurn(Entries) :
       LET entries == [k \in DOMAIN at |-> reply.tabs[at[k]]]
           rest == IF deepLinked THEN entries ELSE Tail(entries)
           more == [k \in DOMAIN rest |-> Fresh(nextId + k - 1, rest[k], FALSE)]
           head == IF deepLinked THEN Head(tabs) ELSE [Head(tabs) EXCEPT !.url = Head(entries)]
           all == <<head>> \o Tail(tabs) \o more
           target == IF deepLinked THEN head
                     ELSE all[IF reply.active + 1 < Len(all) THEN reply.active + 1 ELSE Len(all)] IN
       /\ nextId + Len(rest) <= MaxTabs + 1 /\ nextId' = nextId + Len(rest)
       /\ tabs' = all /\ activeId' = target.id /\ saveTimer' = TRUE
       /\ Invokes((IF deepLinked THEN <<>> ELSE <<Cmd("navigate", head.id, head.url, FALSE)>>)
                  \o [k \in DOMAIN rest |-> Cmd("new", nextId + k - 1, rest[k], FALSE)]
                  \o <<Cmd("switch", target.id, target.url, FALSE)>>)
    /\ UNCHANGED <<deepLinked, stored, callbacks, nativeTabVars, ops, unborn>>

\* The fetch failed, or there is nothing to restore.
RestoreNothing ==
    /\ reply.tabs # <<>> /\ reply' = NoSession
    /\ UNCHANGED <<stripVars, deepLinked, stored, commands, callbacks, nativeTabVars, ops, unborn>>

\* The callbacks.
LeavesDimmed(t, u) == [t EXCEPT !.url = u]              \* mutant: a live tab stays dimmed
StartsLoading(t, u) == [t EXCEPT !.url = u, !.suspended = FALSE]

Called(what) == callbacks # <<>> /\ Head(callbacks).what = what /\ callbacks' = Tail(callbacks)
OnTab(change(_)) == tabs' = [i \in DOMAIN tabs |-> IF tabs[i].id = Head(callbacks).id THEN change(tabs[i]) ELSE tabs[i]]
InStrip == UNCHANGED <<activeId, nextId, deepLinked, reply, stored, commands, nativeTabVars, ops, unborn>>

OnContentLoading ==
    /\ Called("loading") /\ OnTab(LAMBDA t : StartsLoading(t, Head(callbacks).url)) /\ saveTimer' = TRUE /\ InStrip
OnContentNavigated ==
    /\ Called("navigated") /\ OnTab(LAMBDA t : [t EXCEPT !.url = Head(callbacks).url])
    /\ saveTimer' = TRUE /\ InStrip
OnTabSuspended ==
    /\ Called("suspended") /\ OnTab(LAMBDA t : [t EXCEPT !.suspended = TRUE])
    /\ UNCHANGED saveTimer /\ InStrip
AgentOpenTab ==
    /\ Called("open")
    /\ LET c == Head(callbacks) IN
       /\ NewTabAt(tabs, c.url, "", c.private) /\ Invokes(<<NewTabCmd(c.url, c.private)>>)
    /\ UNCHANGED <<deepLinked, reply, stored, nativeTabVars, ops, unborn>>

-----------------------------------------------------------------------------
(* The native side: one command after the other, on the main thread.       *)

Back(what, id, url) == [what |-> what, id |-> id, url |-> url, private |-> FALSE]
Command1(what) == commands # <<>> /\ Head(commands).what = what /\ commands' = Tail(commands)
InNative == UNCHANGED <<stripVars, deepLinked, reply, stored, ops>>

\* touch and forget: an id stands at most once in the list.
Without(id) == IF id \in Range(mru) THEN RemoveAt(mru, CHOOSE i \in DOMAIN mru : mru[i] = id) ELSE mru
Touched(id) == <<id>> \o Without(id)

\* enforce_tab_budget, select_evictions: beyond the MaxLive most recently used,
\* all but the active tab and the private ones are closed.  The places in the list.
Newer(order, alive, i) == {j \in DOMAIN order : j < i /\ order[j] \in alive}
Older(order, alive) == {i \in DOMAIN order : order[i] \in alive /\ Cardinality(Newer(order, alive, i)) >= MaxLive}
EvictsNothing(order, alive, id, private) == {}                  \* mutant: no budget
EvictsAnything(order, alive, id, private) == {i \in Older(order, alive) : order[i] # id}  \* mutant
Evictions(order, alive, id, private) ==
    {i \in Older(order, alive) : order[i] # id /\ order[i] \notin private}

\* Make id current, with the webviews "alive"; what it loads is announced first.
ShowTab(id, alive, private, began) ==
    LET order == Touched(id)
        out == Evictions(order, alive, id, private) IN
    /\ active' = id /\ mru' = order /\ ephemeral' = private
    /\ live' = alive \ {order[i] : i \in out}
    /\ \E at \in InTurn(out) :
          callbacks' = callbacks \o (began \o [k \in DOMAIN at |-> Back("suspended", order[at[k]], "")])

\* browser_new_tab takes the bounds of another webview, and fails without one.
BrowserNewTab ==
    /\ Command1("new") /\ InNative
    /\ LET c == Head(commands) IN
       IF live = {} THEN unborn' = unborn \cup {c.id} /\ UNCHANGED <<nativeTabVars, callbacks>>
       ELSE /\ ShowTab(c.id, live \cup {c.id}, IF c.private THEN ephemeral \cup {c.id} ELSE ephemeral,
                       <<Back("loading", c.id, c.url)>>)
            /\ UNCHANGED unborn

\* browser_switch_tab makes a suspended tab's webview again from its address.
BrowserSwitchTab ==
    /\ Command1("switch") /\ InNative /\ UNCHANGED unborn
    /\ LET c == Head(commands)
           again == c.id \notin live /\ c.url # "" /\ live # {} IN
       ShowTab(c.id, IF again THEN live \cup {c.id} ELSE live, ephemeral,
               IF again THEN <<Back("loading", c.id, c.url)>> ELSE <<>>)

BrowserCloseTab ==
    /\ Command1("close") /\ InNative /\ UNCHANGED <<callbacks, unborn>>
    /\ LET id == Head(commands).id IN
       /\ live' = live \ {id} /\ ephemeral' = ephemeral \ {id} /\ mru' = Without(id)
       /\ active' \in IF active # id THEN {active} ELSE IF live' = {} THEN {0} ELSE live'

\* browser_navigate, in the tab, else the active one, else any.
Targets(id) == IF id \in live THEN {id} ELSE IF active \in live THEN {active} ELSE live
BrowserNavigate ==
    /\ Command1("navigate") /\ InNative /\ UNCHANGED <<nativeTabVars, unborn>>
    /\ LET c == Head(commands) IN
       \/ Targets(c.id) = {} /\ UNCHANGED callbacks
       \/ \E id \in Targets(c.id) : callbacks' = Append(callbacks, Back("loading", id, c.url))

\* What pages do by themselves: a link, the end of a load, a tab that the agent
\* or a popup asks for.
PageCallback(c) ==
    /\ Op /\ callbacks' = Append(callbacks, c)
    /\ UNCHANGED <<stripVars, deepLinked, reply, stored, commands, nativeTabVars, unborn>>
PageLoads(id, url)  == id \in live /\ PageCallback(Back("loading", id, url))
PageFinishes(id, url) == id \in live /\ PageCallback(Back("navigated", id, url))
AsksForTab(private) == PageCallback([Back("open", 0, CHOOSE u \in Pages : TRUE) EXCEPT !.private = private])

ChromeNext ==
    \/ \E private \in BOOLEAN : NewTab(private) \/ AsksForTab(private)
    \/ \E id \in TabIds : SwitchTab(id) \/ CloseTab(id)
    \/ \E id \in TabIds, u \in Pages : PageLoads(id, u) \/ PageFinishes(id, u)
    \/ DropTab \/ SaveTabs \/ RestoreTabs \/ RestoreNothing \/ \E u \in Pages : Go(u)
    \/ OnContentLoading \/ OnContentNavigated \/ OnTabSuspended \/ AgentOpenTab
    \/ BrowserNewTab \/ BrowserSwitchTab \/ BrowserCloseTab \/ BrowserNavigate

ChromeSpec == ChromeInit /\ [][ChromeNext]_chromeVars

-----------------------------------------------------------------------------
(* Properties.                                                             *)

AtRest == commands = <<>> /\ callbacks = <<>>

\* When nothing is under way, both sides name the same active tab: commands
\* aimed at "the active tab" reach the page on the screen (mod.rs:248-251).
PointersAgree == AtRest /\ unborn = {} => active = activeId

\* When nothing is under way, a tab is dimmed exactly when its webview is gone,
\* and no webview is left without a tab (chrome.js:429-433).
StripMatchesWebviews ==
    AtRest /\ unborn = {} =>
        live = {tabs[i].id : i \in {j \in DOMAIN tabs : ~tabs[j].suspended}}

\* A private tab's page loads in a private webview or in none, and is never
\* written to the saved session (chrome.js:216-219, 67-68).
PrivateStaysPrivate ==
    /\ \A i \in DOMAIN tabs : tabs[i].ephemeral /\ tabs[i].id \in live => tabs[i].id \in ephemeral
    /\ \A i \in DOMAIN tabs : tabs[i].ephemeral => tabs[i].id \notin stored

\* A private tab is never suspended, its session could not come back (state.rs:35-37).
PrivateIsNotSuspended == \A i \in DOMAIN tabs : tabs[i].ephemeral => ~tabs[i].suspended

\* The strip and the native side, which tell each other only of changes, do not drift apart.
BothSidesAgree == PointersAgree /\ StripMatchesWebviews

\* A private tab is private in what it loads, in what is saved, and when webviews are few.
PrivateTabsKeepTheirPromise == PrivateStaysPrivate /\ PrivateIsNotSuspended
=============================================================================
