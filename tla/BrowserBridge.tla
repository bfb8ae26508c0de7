---------------------------- MODULE BrowserBridge ----------------------------
(* Agent commands on the live browser: Browser.Bridge keeps the callers, a   *)
(* broadcast reaches the ScreenshotBridge hook of every open shell, and each *)
(* hook looks where the browser is, acts, and posts what came of it.  A      *)
(* caller gives up on its own clock, and nothing tells the hooks.  A capture *)
(* (Browser.Capture) is a command that only looks.                           *)
EXTENDS Naturals, FiniteSets

CONSTANTS
    Calls,          \* requests, each with a ref of its own
    Shells,         \* connected top-level LiveViews
    Desktop,        \* those in the desktop app, with window.__TAURI__
    MaxReloads      \* bound: pages that are left

ASSUME ShellsAssumption == Desktop \subseteq Shells
ASSUME ReloadsAssumption == MaxReloads \in Nat

VARIABLES
    kind, answer,   \* of each call: what it asks, and what its caller was told
    pending, timers,    \* the bridge: refs with a caller, refs whose clock runs
    listening,      \* shells subscribed to the topic
    handler,        \* handler[s][c]: how far the hook of s is with c
    posts,          \* results posted and not yet received
    performed,      \* the calls that the browser carried out
    reloads         \* history: pages left so far
callVars == <<kind, answer, pending, timers>>
hookVars == <<handler, posts, performed>>
bridgeVars == <<callVars, listening, hookVars, reloads>>

Kinds == {"tab", "render"}  \* on the tab the user sees, or in a hidden page
Final == {"ok", "error", "timeout"}
Post == [call : Calls, ok : BOOLEAN]

\* The type invariant: the bridge holds exactly the refs whose callers wait.
BridgeTypeOK ==
    /\ kind \in [Calls -> Kinds] /\ answer \in [Calls -> Final \cup {"unasked", "waiting"}]
    /\ pending = {c \in Calls : answer[c] = "waiting"} /\ timers \subseteq Calls
    /\ listening \subseteq Shells /\ posts \subseteq Post
    /\ handler \in [Shells -> [Calls -> {"idle", "heard", "looked"}]]
    /\ performed \subseteq Calls /\ reloads \in 0..MaxReloads

BridgeInit ==
    /\ kind \in [Calls -> Kinds] /\ answer = [c \in Calls |-> "unasked"]
    /\ pending = {} /\ timers = {} /\ listening \in SUBSET Shells
    /\ handler = [s \in Shells |-> [c \in Calls |-> "idle"]]
    /\ posts = {} /\ performed = {} /\ reloads = 0

-----------------------------------------------------------------------------
(* The bridge.                                                             *)

\* handle_call {:request, ...}: a clock, and a broadcast to whoever listens.
Ask(c) ==
    /\ answer[c] = "unasked" /\ answer' = [answer EXCEPT ![c] = "waiting"]
    /\ pending' = pending \cup {c} /\ timers' = timers \cup {c}
    /\ handler' = [s \in Shells |-> IF s \in listening THEN [handler[s] EXCEPT ![c] = "heard"] ELSE handler[s]]
    /\ UNCHANGED <<kind, listening, posts, performed, reloads>>

\* reply_and_drop: only a caller that still waits is told.
TellsAnyone(c, told) ==                                     \* mutant: late answers too
    answer' = [answer EXCEPT ![c] = told] /\ pending' = pending \ {c}
ReplyAndDrop(c, told) ==
    IF c \in pending THEN answer' = [answer EXCEPT ![c] = told] /\ pending' = pending \ {c}
    ELSE UNCHANGED <<answer, pending>>

Fulfill(p) ==
    /\ p \in posts /\ posts' = posts \ {p}
    /\ ReplyAndDrop(p.call, IF p.ok THEN "ok" ELSE "error")
    /\ UNCHANGED <<kind, timers, listening, handler, performed, reloads>>

ForgetsTheCaller(c) == UNCHANGED <<answer, pending>>        \* mutant
TimesOut(c) == ReplyAndDrop(c, "timeout")
Expire(c) ==
    /\ c \in timers /\ timers' = timers \ {c} /\ TimesOut(c)
    /\ UNCHANGED <<kind, listening, hookVars, reloads>>

-----------------------------------------------------------------------------
(* The hook of one shell; its handlers run side by side.                   *)

Becomes(s, c, h) == handler' = [handler EXCEPT ![s][c] = h]
Posted(c, ok) == posts' = posts \cup {[call |-> c, ok |-> ok]}

\* Outside the desktop app there is nothing to invoke.
RefuseHere(s, c) ==
    /\ handler[s][c] = "heard" /\ s \notin Desktop /\ Becomes(s, c, "idle") /\ Posted(c, FALSE)
    /\ UNCHANGED <<callVars, listening, performed, reloads>>

\* browser_current; a failed look does not prevent the action.
LookAround(s, c) ==
    /\ handler[s][c] = "heard" /\ s \in Desktop /\ kind[c] = "tab" /\ Becomes(s, c, "looked")
    /\ UNCHANGED <<callVars, listening, posts, performed, reloads>>

MayRun(s, c) == s \in Desktop /\ handler[s][c] = IF kind[c] = "render" THEN "heard" ELSE "looked"
Act(s, c) ==
    /\ MayRun(s, c) /\ Becomes(s, c, "idle") /\ Posted(c, TRUE)
    /\ performed' = performed \cup {c} /\ UNCHANGED <<callVars, listening, reloads>>

SwallowsTheError == TRUE                                    \* mutant
ReportedOnFailure == FALSE
ActFails(s, c) ==
    /\ MayRun(s, c) /\ Becomes(s, c, "idle") /\ Posted(c, ReportedOnFailure)
    /\ UNCHANGED <<callVars, listening, performed, reloads>>

LosePost(p) ==
    /\ p \in posts /\ posts' = posts \ {p}
    /\ UNCHANGED <<callVars, listening, handler, performed, reloads>>

\* A page is left for another one: its view is gone, and after a reload its
\* handlers too; the next view subscribes when it mounts.
Leave(s, reload) ==
    /\ s \in listening /\ listening' = listening \ {s} /\ reloads < MaxReloads /\ reloads' = reloads + 1
    /\ handler' = IF reload THEN [handler EXCEPT ![s] = [c \in Calls |-> "idle"]] ELSE handler
    /\ UNCHANGED <<callVars, posts, performed>>
MountShell(s) ==
    /\ s \notin listening /\ listening' = listening \cup {s}
    /\ UNCHANGED <<callVars, hookVars, reloads>>

HookStep(s, c) == RefuseHere(s, c) \/ LookAround(s, c) \/ Act(s, c) \/ ActFails(s, c)
BridgeNext ==
    \/ \E c \in Calls : Ask(c) \/ Expire(c) \/ \E s \in Shells : HookStep(s, c)
    \/ \E p \in posts : Fulfill(p) \/ LosePost(p)
    \/ \E s \in Shells : MountShell(s) \/ \E reload \in BOOLEAN : Leave(s, reload)

BridgeSpec == BridgeInit /\ [][BridgeNext]_bridgeVars
\* send_after always fires.
FairBridgeSpec == BridgeSpec /\ \A c \in Calls : WF_bridgeVars(Expire(c))

-----------------------------------------------------------------------------
(* Properties.                                                             *)

OkMeansDone == \A c \in Calls : answer[c] = "ok" => c \in performed
FirstAnswerStands == \A c \in Calls : answer[c] \in Final => answer'[c] = answer[c]

\* What a caller is told is true and is never taken back: "ok" of a command that was
\* carried out, whatever other shells, a reload or a late answer did, and the answers
\* of a second shell, or after the time ran out, reach nobody (bridge.ex:67-69, 200-209).
AnswersStand == [][OkMeansDone' /\ FirstAnswerStands]_bridgeVars

\* Every caller gets an answer, with no shell at all and with lost results
\* (bridge.ex:17-19).
EveryCallReturns == \A c \in Calls : answer[c] = "waiting" ~> answer[c] \in Final
=============================================================================
