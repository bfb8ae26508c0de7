---------------------------- MODULE BrowserProofs ----------------------------
(***************************************************************************)
(* The browser bridge, for any number of calls and shells, desktop or not: *)
(* its type invariant, and that what a caller was told is true and stays.  *)
(*                                                                         *)
(* The native surface follows the page, for any number of patches, visits, *)
(* resizes and scrolls.  What it will show is decided by the last          *)
(* invocation under way, or by what it shows when none is: the invariant   *)
(* keeps that outcome in step with the page, so that it is right at rest.  *)
(*                                                                         *)
(* The tab strip and its webviews, for any number of tabs, webviews that   *)
(* stay live, addresses and saved sessions: they agree when nothing is     *)
(* under way, private tabs keep their promise whatever is, and the budget  *)
(* of live webviews is kept.                                               *)
(*                                                                         *)
(* The row under the toolbar, for any texts, keys and answers under way:   *)
(* it shows no answer to an older question.                                *)
(***************************************************************************)
EXTENDS BrowserBridge, MCBrowser, ListLemmas

(* The bridge. *)

(* A result that says "ok" was posted after the browser did it.  This is    *)
(* what the truth of an answer rests on: a post outlives its page and may   *)
(* be received at any later time.                                           *)
PostsAreTrue == \A p \in posts : p.ok => p.call \in performed

BridgeInv == BridgeTypeOK /\ PostsAreTrue /\ OkMeansDone

-----------------------------------------------------------------------------
LEMMA BridgeInitHolds == BridgeInit => BridgeInv
<1> SUFFICES ASSUME BridgeInit PROVE BridgeInv
  OBVIOUS
<1>1. 0 \in 0..MaxReloads
  BY ReloadsAssumption
<1>2. BridgeTypeOK
  BY <1>1 DEF BridgeInit, BridgeTypeOK, Final
<1> QED
  BY <1>2 DEF BridgeInit, BridgeInv, PostsAreTrue, OkMeansDone

(* reply_and_drop keeps the callers and the refs together, and tells only a *)
(* caller that waits.                                                       *)
LEMMA ReplyTellsWhoWaits ==
    ASSUME BridgeTypeOK, NEW c \in Calls, NEW told \in Final, ReplyAndDrop(c, told)
    PROVE  /\ answer' \in [Calls -> Final \cup {"unasked", "waiting"}]
           /\ pending' = {d \in Calls : answer'[d] = "waiting"}
           /\ \A d \in Calls : answer[d] \in Final => answer'[d] = answer[d]
           /\ \A d \in Calls : answer'[d] = answer[d] \/ (d = c /\ answer'[d] = told)
<1> USE DEF BridgeTypeOK, Final
<1>1. CASE c \in pending
  BY <1>1 DEF ReplyAndDrop
<1>2. CASE c \notin pending
  BY <1>2 DEF ReplyAndDrop
<1> QED
  BY <1>1, <1>2

LEMMA AskKeepsInv ==
    ASSUME BridgeInv, NEW c \in Calls, Ask(c)
    PROVE  BridgeInv' /\ FirstAnswerStands
<1> USE DEF BridgeInv, BridgeTypeOK, Final
<1>1. BridgeTypeOK'
  BY DEF Ask
<1>2. PostsAreTrue' /\ OkMeansDone' /\ FirstAnswerStands
  BY DEF Ask, PostsAreTrue, OkMeansDone, FirstAnswerStands
<1> QED
  BY <1>1, <1>2

LEMMA FulfillKeepsInv ==
    ASSUME BridgeInv, NEW p \in posts, Fulfill(p)
    PROVE  BridgeInv' /\ FirstAnswerStands
<1> DEFINE told == IF p.ok THEN "ok" ELSE "error"
<1>1. p.call \in Calls /\ told \in Final
  BY DEF BridgeInv, BridgeTypeOK, Post, Final
<1>2. ReplyAndDrop(p.call, told)
  BY DEF Fulfill
<1>3. BridgeTypeOK'
  BY <1>1, <1>2, ReplyTellsWhoWaits DEF BridgeInv, BridgeTypeOK, Fulfill
<1>4. PostsAreTrue'
  BY DEF BridgeInv, PostsAreTrue, Fulfill
<1>5. OkMeansDone'
  <2> SUFFICES ASSUME NEW d \in Calls, answer'[d] = "ok" PROVE d \in performed
    BY DEF OkMeansDone, Fulfill
  <2>1. answer'[d] = answer[d] \/ (d = p.call /\ answer'[d] = told)
    BY <1>1, <1>2, ReplyTellsWhoWaits DEF BridgeInv
  <2> QED
    BY <2>1 DEF BridgeInv, OkMeansDone, PostsAreTrue
<1>6. FirstAnswerStands
  BY <1>1, <1>2, ReplyTellsWhoWaits DEF BridgeInv, FirstAnswerStands
<1> QED
  BY <1>3, <1>4, <1>5, <1>6 DEF BridgeInv

LEMMA ExpireKeepsInv ==
    ASSUME BridgeInv, NEW c \in Calls, Expire(c)
    PROVE  BridgeInv' /\ FirstAnswerStands
<1>1. "timeout" \in Final /\ ReplyAndDrop(c, "timeout")
  BY DEF Final, Expire, TimesOut
<1>2. BridgeTypeOK'
  BY <1>1, ReplyTellsWhoWaits DEF BridgeInv, BridgeTypeOK, Expire, hookVars
<1>3. PostsAreTrue'
  BY DEF BridgeInv, PostsAreTrue, Expire, hookVars
<1>4. OkMeansDone'
  BY <1>1, ReplyTellsWhoWaits DEF BridgeInv, OkMeansDone, Expire, hookVars
<1>5. FirstAnswerStands
  BY <1>1, ReplyTellsWhoWaits DEF BridgeInv, FirstAnswerStands
<1> QED
  BY <1>2, <1>3, <1>4, <1>5 DEF BridgeInv

(* The hook of a shell touches no caller; it posts "ok" only with its act.  *)
LEMMA HookKeepsInv ==
    ASSUME BridgeInv, NEW s \in Shells, NEW c \in Calls, HookStep(s, c)
    PROVE  BridgeInv' /\ FirstAnswerStands
<1>1. UNCHANGED <<kind, answer, pending, timers, listening, reloads>>
  BY DEF HookStep, RefuseHere, LookAround, Act, ActFails, callVars
<1>2. PICK h \in {"idle", "looked"} : Becomes(s, c, h)
  BY DEF HookStep, RefuseHere, LookAround, Act, ActFails
<1>3. handler' \in [Shells -> [Calls -> {"idle", "heard", "looked"}]]
  BY <1>2 DEF BridgeInv, BridgeTypeOK, Becomes
<1>4. \/ UNCHANGED <<posts, performed>>
      \/ Posted(c, FALSE) /\ UNCHANGED performed
      \/ Posted(c, TRUE) /\ performed' = performed \cup {c}
  BY DEF HookStep, RefuseHere, LookAround, Act, ActFails, ReportedOnFailure
<1>5. posts' \subseteq Post /\ performed' \subseteq Calls /\ performed \subseteq performed'
  <2>1. [call |-> c, ok |-> TRUE] \in Post /\ [call |-> c, ok |-> FALSE] \in Post
    BY DEF Post
  <2>2. posts \subseteq Post /\ performed \subseteq Calls
    BY DEF BridgeInv, BridgeTypeOK
  <2> QED
    BY <1>4, <2>1, <2>2 DEF Posted
<1>6. PostsAreTrue'
  BY <1>4 DEF BridgeInv, PostsAreTrue, Posted
<1>7. BridgeTypeOK' /\ OkMeansDone' /\ FirstAnswerStands
  BY <1>1, <1>3, <1>5 DEF BridgeInv, BridgeTypeOK, OkMeansDone, FirstAnswerStands
<1> QED
  BY <1>6, <1>7 DEF BridgeInv

(* Lost results, and pages that are left and come back.                     *)
LEMMA WorldKeepsInv ==
    ASSUME BridgeInv,
           \/ \E p \in posts : LosePost(p)
           \/ \E s \in Shells : MountShell(s)
           \/ \E s \in Shells, reload \in BOOLEAN : Leave(s, reload)
    PROVE  BridgeInv' /\ FirstAnswerStands
<1> USE DEF BridgeInv, BridgeTypeOK, Post, callVars, hookVars, PostsAreTrue, OkMeansDone, FirstAnswerStands
<1>1. CASE \E p \in posts : LosePost(p)
  BY <1>1 DEF LosePost
<1>2. CASE \E s \in Shells : MountShell(s)
  BY <1>2 DEF MountShell
<1>3. ASSUME NEW s \in Shells, NEW reload \in BOOLEAN, Leave(s, reload)
      PROVE  BridgeInv' /\ FirstAnswerStands
  <2>1. reloads + 1 \in 0..MaxReloads
    BY <1>3, ReloadsAssumption DEF Leave
  <2>2. handler' \in [Shells -> [Calls -> {"idle", "heard", "looked"}]]
    BY <1>3 DEF Leave
  <2> QED
    BY <1>3, <2>1, <2>2 DEF Leave
<1> QED
  BY <1>1, <1>2, <1>3

LEMMA StepKeepsInv ==
    ASSUME BridgeInv, [BridgeNext]_bridgeVars
    PROVE  BridgeInv' /\ FirstAnswerStands
<1>1. CASE UNCHANGED bridgeVars
  BY <1>1 DEF bridgeVars, callVars, hookVars, BridgeInv, BridgeTypeOK, PostsAreTrue, OkMeansDone, FirstAnswerStands
<1>2. CASE BridgeNext
  BY <1>2, AskKeepsInv, ExpireKeepsInv, FulfillKeepsInv, HookKeepsInv, WorldKeepsInv DEF BridgeNext
<1> QED
  BY <1>1, <1>2

-----------------------------------------------------------------------------
(* The bridge holds exactly the refs whose callers wait, whatever shells    *)
(* come, go, answer twice or never (bridge.ex:165-209).                     *)
THEOREM BridgeTypeCorrect == BridgeSpec => []BridgeTypeOK
<1>1. BridgeInv /\ [BridgeNext]_bridgeVars => BridgeInv'
  BY StepKeepsInv
<1>2. BridgeInv => BridgeTypeOK
  BY DEF BridgeInv
<1> QED
  BY BridgeInitHolds, <1>1, <1>2, PTL DEF BridgeSpec

(* A caller is told "ok" only of what the browser carried out, and the      *)
(* first answer is the last one: for any calls, shells and reloads.         *)
THEOREM AnswersAreTrueAndStand == BridgeSpec => AnswersStand
<1>1. BridgeInv /\ [BridgeNext]_bridgeVars => BridgeInv'
  BY StepKeepsInv
<1>2. BridgeInv /\ [BridgeNext]_bridgeVars => [OkMeansDone' /\ FirstAnswerStands]_bridgeVars
  BY StepKeepsInv DEF BridgeInv
<1> QED
  BY BridgeInitHolds, <1>1, <1>2, PTL DEF BridgeSpec, AnswersStand

-----------------------------------------------------------------------------
(* The pane. *)

\* The last invocation under way, "" when there is none.
LastInvoke == IF invokes = <<>> THEN "" ELSE invokes[Len(invokes)]
Opening == \E i \in 1..Len(invokes) : invokes[i] = "open"

\* The hook knows that it is hidden only under a mirror, and an element that was
\* removed is never held.
HookKnows == (mirrorHidden => here /\ mirror) /\ surface # "removed"
\* What was told or shown last is a "hide" wherever the surface does not belong.
EndsHidden ==
    \/ here /\ ~mirror
    \/ LastInvoke = "hide"
    \/ LastInvoke = "" /\ webviews # "shown"
\* What the hook opened is there, or is being opened.
OpenedIsThere == opened => webviews # "none" \/ Opening
\* And where there is an element the outcome is a surface, or a frame will bring it.
EndsShown ==
    surface = "current" /\ ~frame =>
        \/ LastInvoke = "open"
        \/ LastInvoke = "bounds" /\ (webviews # "none" \/ Opening)
        \/ LastInvoke = "" /\ webviews = "shown"
PaneInv == PaneTypeOK /\ HookKnows /\ EndsHidden /\ OpenedIsThere /\ EndsShown

-----------------------------------------------------------------------------
LEMMA InvokesGrow ==
    ASSUME NEW q \in Seq({"open", "bounds", "hide"}), NEW c \in {"open", "bounds", "hide"}
    PROVE  /\ Append(q, c) \in Seq({"open", "bounds", "hide"}) /\ Append(q, c) # <<>>
           /\ Append(q, c)[Len(Append(q, c))] = c
           /\ Len(Append(q, c)) = Len(q) + 1 /\ \A i \in 1..Len(q) : Append(q, c)[i] = q[i]
    OBVIOUS

\* The last invocation is one of the three.
LEMMA LastIsAnInvoke ==
    ASSUME PaneTypeOK, invokes # <<>> PROVE LastInvoke \in {"open", "bounds", "hide"}
    <1>1. invokes \in Seq({"open", "bounds", "hide"})
          BY DEF PaneTypeOK
    <1>2. Len(invokes) \in 1..Len(invokes)
          BY <1>1
    <1> QED BY <1>1, <1>2 DEF LastInvoke

\* The history counts within its bounds.
LEMMA CountedKept ==
    ASSUME PaneTypeOK, \/ Counted("patch", MaxPatches)
                       \/ Counted("sync", MaxSyncs)
    PROVE  paneOps' \in [patch : 0..MaxPatches, sync : 0..MaxSyncs]
    <1>1. paneOps \in [patch : 0..MaxPatches, sync : 0..MaxSyncs]
          BY DEF PaneTypeOK
    <1>2. CASE Counted("patch", MaxPatches)
          BY <1>1, <1>2, PaneBounds DEF Counted
    <1>3. CASE Counted("sync", MaxSyncs)
          BY <1>1, <1>3, PaneBounds DEF Counted
    <1> QED BY <1>2, <1>3

\* One more invocation is the last one, and hides no opening.
LEMMA LastInvoked ==
    ASSUME PaneTypeOK, NEW c \in {"open", "bounds", "hide"}, PaneInvokes(c)
    PROVE  /\ LastInvoke' = c /\ invokes' \in Seq({"open", "bounds", "hide"})
           /\ (Opening \/ c = "open" => Opening')
    <1>1. /\ invokes' = Append(invokes, c) /\ invokes \in Seq({"open", "bounds", "hide"})
          BY DEF PaneInvokes, PaneTypeOK
    <1>2. LastInvoke' = c /\ invokes' \in Seq({"open", "bounds", "hide"})
          BY <1>1, InvokesGrow DEF LastInvoke
    <1>3. Opening => Opening'
          <2>1. Len(invokes') = Len(invokes) + 1 /\ Len(invokes) \in Nat
                BY <1>1, InvokesGrow
          <2>2. \A i \in 1..Len(invokes) : invokes'[i] = invokes[i] /\ i \in 1..Len(invokes')
                BY <1>1, <2>1, InvokesGrow
          <2> QED BY <2>2 DEF Opening
    <1>4. c = "open" => Opening'
          <2>1. Len(invokes') \in 1..Len(invokes') /\ invokes'[Len(invokes')] = c
                BY <1>1, InvokesGrow
          <2> QED BY <2>1 DEF Opening
    <1> QED BY <1>2, <1>3, <1>4

\* Handling the first invocation leaves the last one, unless it was the only one.
LEMMA FirstHandled ==
    ASSUME PaneTypeOK, invokes # <<>>, invokes' = Tail(invokes)
    PROVE  /\ invokes' \in Seq({"open", "bounds", "hide"}) /\ Head(invokes) \in {"open", "bounds", "hide"}
           /\ LastInvoke' = LastInvoke \/ (LastInvoke' = "" /\ LastInvoke = Head(invokes) /\ ~Opening')
           /\ Opening => Opening' \/ Head(invokes) = "open"
    <1>1. invokes \in Seq({"open", "bounds", "hide"})
          BY DEF PaneTypeOK
    <1>2. /\ invokes' \in Seq({"open", "bounds", "hide"}) /\ Head(invokes) \in {"open", "bounds", "hide"}
          /\ Head(invokes) = invokes[1]
          /\ Len(invokes') = Len(invokes) - 1 /\ Len(invokes) \in Nat /\ Len(invokes) >= 1
          /\ \A i \in 1..Len(invokes') : invokes'[i] = invokes[i + 1]
          BY <1>1
    <1>3. LastInvoke' = LastInvoke \/ (LastInvoke' = "" /\ LastInvoke = Head(invokes) /\ ~Opening')
          <2>1. CASE Len(invokes) = 1
                <3>1. invokes' = <<>>
                      BY <1>2, <2>1
                <3>0. Len(invokes') = 0
                      BY <1>2, <2>1
                <3>2. ~Opening'
                      BY <3>0 DEF Opening
                <3> QED BY <1>2, <2>1, <3>1, <3>2 DEF LastInvoke
          <2>2. CASE Len(invokes) > 1
                <3>0. Len(invokes') >= 1 /\ Len(invokes') \in 1..Len(invokes')
                      BY <1>2, <2>2
                <3>1. invokes' # <<>>
                      <4>1. invokes' = <<>> => Len(invokes') = 0
                            OBVIOUS
                      <4> QED BY <3>0, <4>1
                <3>2. invokes'[Len(invokes')] = invokes[Len(invokes')+1] /\ Len(invokes') + 1 = Len(invokes)
                      BY <1>2, <3>0
                <3>3. invokes # <<>> /\ invokes'[Len(invokes')] = invokes[Len(invokes)]
                      BY <3>2
                <3> QED BY <3>1, <3>3 DEF LastInvoke
          <2>3. Len(invokes) = 1 \/ Len(invokes) > 1
                BY <1>2
          <2> QED BY <2>1, <2>2, <2>3
    <1>4. ASSUME NEW i \in 1..Len(invokes), invokes[i] = "open", Head(invokes) # "open"
          PROVE  Opening'
          <2>1. i # 1 /\ i - 1 \in 1..Len(invokes')
                BY <1>2, <1>4
          <2>2. invokes'[i - 1] = "open"
                BY <1>2, <1>4, <2>1
          <2> QED BY <2>1, <2>2 DEF Opening
    <1> QED BY <1>2, <1>3, <1>4 DEF Opening

-----------------------------------------------------------------------------
LEMMA PaneInitially == PaneInit => PaneInv
    <1> SUFFICES ASSUME PaneInit PROVE PaneInv
        OBVIOUS
    <1>1. PaneTypeOK
          <2>1. paneOps \in [patch : 0..MaxPatches, sync : 0..MaxSyncs]
                BY PaneBounds DEF PaneInit
          <2>2. invokes \in Seq({"open", "bounds", "hide"})
                BY DEF PaneInit
          <2> QED BY <2>1, <2>2 DEF PaneInit, PaneTypeOK
    <1>2. LastInvoke = "" /\ HookKnows /\ EndsHidden /\ OpenedIsThere /\ EndsShown
          BY DEF PaneInit, HookKnows, EndsHidden, OpenedIsThere, EndsShown, LastInvoke
    <1> QED BY <1>1, <1>2 DEF PaneInv

\* Every step of the page, the hook and the native side keeps the invariant.
LEMMA PaneInductive == PaneInv /\ [PaneNext]_paneVars => PaneInv'
    <1> SUFFICES ASSUME PaneInv, [PaneNext]_paneVars PROVE PaneInv'
        OBVIOUS
    <1> USE DEF PaneInv
    <1>0. invokes # <<>> => LastInvoke \in {"open", "bounds", "hide"}
          BY LastIsAnInvoke
    <1>k. (UNCHANGED invokes => LastInvoke' = LastInvoke /\ (Opening' <=> Opening))
          BY DEF LastInvoke, Opening
    <1>1. CASE MountPane
          BY <1>1, <1>k, CountedKept
          DEF MountPane, InDom, PaneTypeOK, HookKnows, EndsHidden, OpenedIsThere, EndsShown
    <1>2. ASSUME NEW m \in BOOLEAN, Patch(m) PROVE PaneInv'
          <2>1. CASE m /\ mirrorHidden
                BY <1>2, <2>1, <1>k, CountedKept
                DEF Patch, UpdatedUnderMirror, PaneTypeOK, HookKnows, EndsHidden, OpenedIsThere, EndsShown
          <2>2. CASE m /\ ~mirrorHidden
                <3>1. PaneInvokes("hide")
                      BY <1>2, <2>2 DEF Patch, UpdatedUnderMirror, GetsOutOfTheWay
                <3>2. LastInvoke' = "hide" /\ invokes' \in Seq({"open", "bounds", "hide"}) /\ (Opening => Opening')
                      BY <3>1, LastInvoked
                <3> QED BY <1>2, <2>2, <3>2, CountedKept
                    DEF Patch, UpdatedUnderMirror, PaneTypeOK, HookKnows, EndsHidden, OpenedIsThere, EndsShown
          <2>3. CASE ~m
                BY <1>2, <2>3, <1>k, CountedKept
                DEF Patch, UpdatedWithSurface, QueriesSurface, PaneTypeOK, HookKnows, EndsHidden, OpenedIsThere, EndsShown
          <2> QED BY <2>1, <2>2, <2>3
    <1>3. CASE Schedule
          BY <1>3, <1>k, CountedKept
          DEF Schedule, PaneTypeOK, HookKnows, EndsHidden, OpenedIsThere, EndsShown
    <1>9. CASE Settle
          BY <1>9, <1>k DEF Settle, PaneTypeOK, HookKnows, EndsHidden, OpenedIsThere, EndsShown
    <1>4. CASE Sync
          <2>1. CASE surface # "current"
                BY <1>4, <2>1, <1>k DEF Sync, PaneTypeOK, HookKnows, EndsHidden, OpenedIsThere, EndsShown
          <2>2. CASE surface = "current"
                <3>1. PaneInvokes(IF opened THEN "bounds" ELSE "open")
                      BY <1>4, <2>2 DEF Sync
                <3>2. /\ LastInvoke' = IF opened THEN "bounds" ELSE "open"
                      /\ invokes' \in Seq({"open", "bounds", "hide"})
                      /\ (Opening \/ ~opened => Opening')
                      BY <3>1, LastInvoked
                <3> QED BY <1>4, <2>2, <3>2 DEF Sync, PaneTypeOK, HookKnows, EndsHidden, OpenedIsThere, EndsShown
          <2> QED BY <2>1, <2>2
    <1>5. CASE DestroyPane
          <2>1. LastInvoke' = "hide" /\ invokes' \in Seq({"open", "bounds", "hide"})
                BY <1>5, LastInvoked DEF DestroyPane
          <2> QED BY <1>5, <2>1 DEF DestroyPane, PaneTypeOK, HookKnows, EndsHidden, OpenedIsThere, EndsShown
    <1>6. CASE RunElsewhere
          BY <1>6, <1>k DEF RunElsewhere, paneHookVars, PaneTypeOK, HookKnows, EndsHidden, OpenedIsThere, EndsShown
    <1>7. CASE Native
          <2>1. /\ invokes' \in Seq({"open", "bounds", "hide"}) /\ Head(invokes) \in {"open", "bounds", "hide"}
                /\ LastInvoke' = LastInvoke \/ (LastInvoke' = "" /\ LastInvoke = Head(invokes) /\ ~Opening')
                /\ Opening => Opening' \/ Head(invokes) = "open"
                BY <1>7, FirstHandled DEF Native
          <2>3. /\ invokes # <<>> /\ UNCHANGED <<here, mirror, surface, opened, mirrorHidden, frame, settle, paneOps>>
                /\ webviews' = IF Head(invokes) = "open" THEN "shown" ELSE IF webviews = "none" THEN "none"
                               ELSE IF Head(invokes) = "bounds" THEN "shown" ELSE "hidden"
                BY <1>7 DEF Native, paneHookVars
          <2>4. PaneTypeOK' /\ HookKnows' /\ OpenedIsThere'
                BY <2>1, <2>3 DEF PaneTypeOK, HookKnows, OpenedIsThere
          <2>5. EndsHidden'
                BY <2>1, <2>3, <1>0 DEF EndsHidden, PaneTypeOK
          <2>6. ASSUME surface' = "current", ~frame'
                PROVE  \/ LastInvoke' = "open"
                       \/ LastInvoke' = "bounds" /\ (webviews' # "none" \/ Opening')
                       \/ LastInvoke' = "" /\ webviews' = "shown"
                <3>1. \/ LastInvoke = "open"
                      \/ LastInvoke = "bounds" /\ (webviews # "none" \/ Opening)
                      BY <2>3, <2>6, <1>0 DEF EndsShown
                <3>2. webviews # "none" => webviews' # "none"
                      BY <2>3
                <3>3. CASE LastInvoke' = LastInvoke
                      BY <2>1, <2>3, <3>1, <3>2, <3>3
                <3>4. CASE LastInvoke' = "" /\ LastInvoke = Head(invokes) /\ ~Opening'
                      <4>1. CASE Head(invokes) = "open"
                            BY <2>3, <3>4, <4>1
                      <4>2. CASE Head(invokes) = "bounds"
                            <5>1. webviews # "none"
                                  BY <2>1, <3>1, <3>4, <4>2
                            <5> QED BY <2>3, <3>4, <4>2, <5>1
                      <4> QED BY <3>1, <3>4, <4>1, <4>2
                <3> QED BY <2>1, <3>3, <3>4
          <2> QED BY <2>4, <2>5, <2>6 DEF EndsShown
    <1>8. CASE UNCHANGED paneVars
          BY <1>8, <1>k DEF paneVars, paneHookVars, PaneTypeOK, HookKnows, EndsHidden, OpenedIsThere, EndsShown
    <1> QED BY <1>1, <1>2, <1>3, <1>4, <1>5, <1>6, <1>7, <1>8, <1>9 DEF PaneNext

\* For any number of patches and visits of the Browser page, resizes and scrolls: the
\* type invariant, and an element is held only while the page shows it (hooks/browser.js).
THEOREM PaneTypeCorrect == PaneSpec => []PaneTypeOK
    <1>1. PaneInv => PaneTypeOK
          BY DEF PaneInv
    <1> QED BY <1>1, PaneInitially, PaneInductive, PTL DEF PaneSpec

\* At rest the webviews are on the screen exactly where the page has a place for them: never
\* over the mirror, the graph or another page, and back after it (hooks/browser.js:231-273).
THEOREM SurfaceFollowsAlways == PaneSpec => []SurfaceFollowsThePage
    <1>1. PaneInv => SurfaceFollowsThePage
          BY DEF PaneInv, PaneTypeOK, HookKnows, EndsHidden, EndsShown, LastInvoke,
                 SurfaceFollowsThePage, NeverPaintsOver, ComesBack, PaneAtRest
    <1> QED BY <1>1, PaneInitially, PaneInductive, PTL DEF PaneSpec

-----------------------------------------------------------------------------
(* The row under the toolbar.  An answer that carries the number of the     *)
(* latest question answers that question; and a label that counts another   *)
(* text than the field's is about to be counted again, or a count of the    *)
(* field's text is under way.                                               *)
AnswersKnowTheirQuestion ==
    \A r \in replies : r.what = "suggest" => r.seq <= seq /\ (r.seq = seq => r.query = asked)
RecountIsComing ==
    mode = "find" /\ findCount # None /\ ~countTimer =>
        findCount = findText \/ [what |-> "count", query |-> findText] \in replies
BarInv == BarTypeOK /\ AnswersKnowTheirQuestion /\ RecountIsComing

\* It holds at the start.
LEMMA BarStarts == BarInit => BarInv
<1> SUFFICES ASSUME BarInit PROVE BarInv
  OBVIOUS
<1>1. replies = {[what |-> "bookmarks"]} /\ findCount = None
  BY DEF BarInit
<1>2. replies \subseteq Reply
  BY <1>1 DEF Reply
<1>3. BarTypeOK
  <2>1. addr \in Texts /\ findText \in Words \cup {Short}
    BY DEF BarInit, Texts
  <2>2. suggestions \in Queries /\ suggestTimer \in Queries /\ asked \in Queries /\ findCount \in Queries
    BY DEF BarInit, Queries
  <2>3. mode \in Modes /\ mode # "suggestions" /\ shown = mode
    BY DEF BarInit, Modes
  <2>4. /\ focus \in {"addr", "find", "page"} /\ browseTimer \in BOOLEAN /\ index \in 0..1
        /\ seq \in Nat /\ blurred \in 0..2 /\ countTimer \in BOOLEAN
    <3>1. focus = "addr" /\ browseTimer = FALSE /\ index = 0 /\ seq = 0 /\ blurred = 0 /\ countTimer = FALSE
      BY DEF BarInit
    <3>2. browseTimer \in BOOLEAN /\ countTimer \in BOOLEAN
      BY ONLY <3>1
    <3>3. focus \in {"addr", "find", "page"}
      BY ONLY <3>1
    <3>4. index \in 0..1 /\ seq \in Nat /\ blurred \in 0..2
      <4>1. index = 0 /\ seq = 0 /\ blurred = 0
        BY ONLY <3>1
      <4> QED
        BY ONLY <4>1
    <3> QED
      BY ONLY <3>2, <3>3, <3>4
  <2> QED
    BY ONLY <1>2, <2>1, <2>2, <2>3, <2>4 DEF BarTypeOK
<1>4. AnswersKnowTheirQuestion /\ RecountIsComing
  BY <1>1 DEF AnswersKnowTheirQuestion, RecountIsComing
<1> QED
  BY <1>3, <1>4 DEF BarInv

(* What drawing the row does to it: a find bar is new and counts nothing.   *)
LEMMA Drawn ==
    ASSUME BarTypeOK, NEW m \in Modes, NEW held \in Queries, Draw(m, held)
    PROVE  /\ mode' \in Modes /\ shown' = mode' /\ (mode' = "suggestions" => held # None)
           /\ findText' \in Words \cup {Short} /\ findCount' \in Queries /\ countTimer' = countTimer
           /\ mode' = "find" => findCount' = None
  BY DEF BarTypeOK, Draw, Modes, Queries

LEMMA Cleared ==
    ASSUME BarTypeOK, ClearSuggestions
    PROVE  /\ mode' \in Modes /\ shown' = mode' /\ mode' # "suggestions"
           /\ findText' \in Words \cup {Short} /\ findCount' \in Queries /\ countTimer' = countTimer
           /\ mode' = "find" => findCount' = None
           /\ suggestTimer' = None /\ suggestions' = None /\ index' = 0 /\ UNCHANGED <<seq, asked>>
<1> DEFINE m == IF mode = "suggestions" THEN "bookmarks" ELSE mode
<1>1. m \in Modes /\ None \in Queries /\ Draw(m, None)
  BY DEF BarTypeOK, Modes, Queries, ClearSuggestions
<1>2. suggestTimer' = None /\ suggestions' = None /\ index' = 0 /\ UNCHANGED <<seq, asked>>
  BY DEF ClearSuggestions
<1> HIDE DEF m
<1> QED
  BY <1>1, <1>2, Drawn

(* A step that leaves questions, answers and counts alone keeps the rest.   *)
LEMMA RowOnly ==
    ASSUME BarInv, BarTypeOK', UNCHANGED <<seq, asked, countTimer>>, replies' \subseteq replies,
           \A r \in replies : r.what = "count" => r \in replies',
           (mode' = "find" => findCount' = None) \/ (mode' = mode /\ UNCHANGED <<findText, findCount>>)
    PROVE  BarInv'
<1>1. AnswersKnowTheirQuestion'
  BY DEF BarInv, AnswersKnowTheirQuestion
<1>2. RecountIsComing'
  BY DEF BarInv, RecountIsComing
<1> QED
  BY <1>1, <1>2 DEF BarInv

LEMMA BarKeeps ==
    ASSUME BarInv, [BarNext]_barVars
    PROVE  BarInv' /\ ChipsAnswerTheLatest
<1> USE DEF addrVars, suggestVars, findVars
<1>0. BarTypeOK
  BY DEF BarInv
<1>1. ASSUME NEW text \in Texts, TypeAddress(text) PROVE BarInv' /\ ChipsAnswerTheLatest
  <2>1. CASE text \in Words
    <3>1. BarTypeOK'
      BY <1>0, <1>1, <2>1 DEF BarTypeOK, TypeAddress, Texts, Queries
    <3> QED
      BY <1>1, <2>1, <3>1, RowOnly DEF TypeAddress, ChipsAnswerTheLatest
  <2>2. CASE text \notin Words
    <3>1. ClearSuggestions
      BY <1>1, <2>2 DEF TypeAddress
    <3>2. addr' = text /\ browseTimer' \in BOOLEAN /\ UNCHANGED <<focus, replies, blurred>>
      BY <1>0, <1>1 DEF TypeAddress, BarTypeOK
    <3>3. BarTypeOK'
      BY <1>0, <3>1, <3>2, Cleared DEF BarTypeOK, Queries
    <3> QED
      BY <1>0, <3>1, <3>2, <3>3, Cleared, RowOnly DEF ChipsAnswerTheLatest
  <2> QED
    BY <2>1, <2>2
<1>2. CASE RequestSuggestions
  <2>1. /\ suggestTimer \in Queries /\ seq \in Nat /\ seq' = seq + 1 /\ asked' = suggestTimer /\ suggestTimer' = None
        /\ replies' = replies \cup {[what |-> "suggest", seq |-> seq + 1, query |-> suggestTimer]}
        /\ UNCHANGED <<addrVars, mode, shown, suggestions, index, blurred, findVars>>
    BY <1>0, <1>2 DEF BarTypeOK, RequestSuggestions, Sends
  <2>2. replies' \subseteq Reply
    BY <1>0, <2>1 DEF BarTypeOK, Reply
  <2>3. BarTypeOK'
    BY <1>0, <2>1, <2>2 DEF BarTypeOK, Queries
  <2>4. \A r \in replies : r.what = "suggest" => r.seq \in Nat /\ r.seq <= seq
    BY <1>0 DEF BarTypeOK, BarInv, AnswersKnowTheirQuestion, Reply
  <2>5. AnswersKnowTheirQuestion'
    BY <2>1, <2>4 DEF AnswersKnowTheirQuestion
  <2>6. RecountIsComing'
    BY <2>1 DEF BarInv, RecountIsComing
  <2> QED
    BY <2>1, <2>3, <2>5, <2>6 DEF BarInv, ChipsAnswerTheLatest
<1>3. ASSUME NEW r \in replies, NEW found \in BOOLEAN, SuggestionsArrive(r, found)
      PROVE  BarInv' /\ ChipsAnswerTheLatest
  <2>1. /\ r.what = "suggest" /\ replies' = replies \ {r} /\ UNCHANGED <<addrVars, blurred>>
        /\ replies \subseteq Reply /\ r \in Reply
    BY <1>0, <1>3 DEF SuggestionsArrive, BarTypeOK
  <2>2. CASE ~NewestAnswer(r)
    <3>1. UNCHANGED <<mode, shown, suggestVars, findVars>>
      BY <1>3, <2>2 DEF SuggestionsArrive
    <3>2. BarTypeOK'
      BY <1>0, <2>1, <3>1 DEF BarTypeOK
    <3> QED
      BY <2>1, <3>1, <3>2, RowOnly DEF ChipsAnswerTheLatest
  <2>3. CASE NewestAnswer(r)
    <3> DEFINE held == IF found THEN r.query ELSE None
    <3>1. /\ suggestions' = held /\ index' = 0 /\ Draw("suggestions", held)
          /\ UNCHANGED <<suggestTimer, seq, asked>>
      BY <1>3, <2>3 DEF SuggestionsArrive
    <3>2. r.query = asked /\ r.query \in Queries
      <4>1. r.seq = seq => r.query = asked
        BY <2>1 DEF BarInv, AnswersKnowTheirQuestion
      <4>2. r.query \in Queries
        BY <2>1 DEF Reply
      <4> QED
        BY <2>3, <4>1, <4>2 DEF NewestAnswer
    <3>3. held \in Queries /\ (held = None \/ held = asked)
      BY <3>2 DEF Queries
    <3> HIDE DEF held
    <3>4. /\ mode' \in Modes /\ shown' = mode' /\ (mode' = "suggestions" => held # None)
          /\ findText' \in Words \cup {Short} /\ findCount' \in Queries /\ countTimer' = countTimer
          /\ mode' = "find" => findCount' = None
      BY <1>0, <3>1, <3>3, Drawn DEF Modes
    <3>5. BarTypeOK'
      BY <1>0, <2>1, <3>1, <3>3, <3>4 DEF BarTypeOK
    <3> QED
      BY <2>1, <3>1, <3>3, <3>4, <3>5, RowOnly DEF ChipsAnswerTheLatest
  <2> QED
    BY <2>2, <2>3
<1>4. CASE BookmarksArrive
  <2>1. BarTypeOK'
    BY <1>0, <1>4 DEF BarTypeOK, BookmarksArrive, DrawsBookmarks
  <2> QED
    BY <1>4, <2>1, RowOnly DEF BookmarksArrive, ChipsAnswerTheLatest
<1>5. ASSUME NEW r \in replies, Fails(r) PROVE BarInv' /\ ChipsAnswerTheLatest
  <2>1. BarTypeOK'
    BY <1>0, <1>5 DEF BarTypeOK, Fails, Queries
  <2>2. AnswersKnowTheirQuestion'
    BY <1>5 DEF BarInv, AnswersKnowTheirQuestion, Fails
  <2>3. RecountIsComing'
    BY <1>5 DEF BarInv, RecountIsComing, Fails
  <2> QED
    BY <1>5, <2>1, <2>2, <2>3 DEF BarInv, ChipsAnswerTheLatest, Fails
<1>6. ASSUME NEW r \in replies, CountArrives(r) PROVE BarInv' /\ ChipsAnswerTheLatest
  <2>1. r.what = "count" /\ r.query \in Words /\ r = [what |-> "count", query |-> r.query]
    BY <1>0, <1>6 DEF BarTypeOK, CountArrives, Reply
  <2>2. BarTypeOK'
    BY <1>0, <1>6, <2>1 DEF BarTypeOK, CountArrives, Queries
  <2>3. AnswersKnowTheirQuestion'
    BY <1>6 DEF BarInv, AnswersKnowTheirQuestion, CountArrives
  <2>4. RecountIsComing'
    <3>1. CASE CountsThis(r)
      BY <1>6, <3>1 DEF RecountIsComing, CountArrives, CountsThis
    <3>2. CASE mode = "find" /\ findText # r.query
      <4>1. r # [what |-> "count", query |-> findText]
        BY <2>1, <3>2
      <4> QED
        BY <1>6, <3>2, <4>1 DEF BarInv, RecountIsComing, CountArrives, CountsThis
    <3>3. CASE mode # "find"
      BY <1>6, <3>3 DEF RecountIsComing, CountArrives
    <3> QED
      BY <3>1, <3>2, <3>3 DEF CountsThis
  <2> QED
    BY <1>6, <2>2, <2>3, <2>4 DEF BarInv, ChipsAnswerTheLatest, CountArrives
<1>7. CASE CountTimer
  <2>1. CASE findText = Short
    <3>1. BarTypeOK'
      BY <1>0, <1>7, <2>1 DEF BarTypeOK, CountTimer, Queries
    <3> QED
      BY <1>7, <2>1, <3>1 DEF BarInv, AnswersKnowTheirQuestion, RecountIsComing, CountTimer, ChipsAnswerTheLatest
  <2>2. CASE findText # Short
    <3>1. /\ findText \in Words /\ replies' = replies \cup {[what |-> "count", query |-> findText]}
          /\ countTimer' = FALSE /\ UNCHANGED <<findCount, addrVars, mode, shown, suggestVars, blurred, findText>>
      BY <1>0, <1>7, <2>2 DEF BarTypeOK, CountTimer, Sends
    <3>2. replies' \subseteq Reply
      BY <1>0, <3>1 DEF BarTypeOK, Reply
    <3>3. BarTypeOK'
      BY <1>0, <3>1, <3>2 DEF BarTypeOK
    <3>4. AnswersKnowTheirQuestion'
      BY <3>1 DEF BarInv, AnswersKnowTheirQuestion
    <3>5. RecountIsComing'
      BY <3>1 DEF RecountIsComing
    <3> QED
      BY <3>1, <3>3, <3>4, <3>5 DEF BarInv, ChipsAnswerTheLatest
  <2> QED
    BY <2>1, <2>2
<1>8. ASSUME NEW text \in Words \cup {Short}, TypeFind(text) PROVE BarInv' /\ ChipsAnswerTheLatest
  <2>1. BarTypeOK'
    BY <1>0, <1>8 DEF BarTypeOK, TypeFind
  <2> QED
    BY <1>8, <2>1 DEF BarInv, AnswersKnowTheirQuestion, RecountIsComing, TypeFind, ChipsAnswerTheLatest
<1>9. CASE SaveBookmark
  <2>1. replies' \subseteq Reply /\ replies' = replies \cup {[what |-> "bookmarks"]}
    BY <1>0, <1>9 DEF BarTypeOK, SaveBookmark, Sends, Reply
  <2>2. BarTypeOK'
    BY <1>0, <1>9, <2>1 DEF BarTypeOK, SaveBookmark
  <2>3. AnswersKnowTheirQuestion' /\ RecountIsComing'
    BY <1>9, <2>1 DEF BarInv, AnswersKnowTheirQuestion, RecountIsComing, SaveBookmark
  <2> QED
    BY <1>9, <2>2, <2>3 DEF BarInv, SaveBookmark, ChipsAnswerTheLatest
<1>10. CASE BrowseTimer
  <2>1. BarTypeOK'
    BY <1>0, <1>10 DEF BarTypeOK, BrowseTimer
  <2> QED
    BY <1>10, <2>1, RowOnly DEF BrowseTimer, ChipsAnswerTheLatest
<1>11. CASE ChooseChip
  <2>1. BarTypeOK'
    BY <1>0, <1>11 DEF BarTypeOK, ChooseChip
  <2> QED
    BY <1>11, <2>1, RowOnly DEF ChooseChip, ChipsAnswerTheLatest
<1>12. ASSUME ClearSuggestions, addr' \in Texts, focus' \in {"addr", "find", "page"}, browseTimer' = browseTimer,
              replies' = replies, blurred' \in 0..2
       PROVE  BarInv' /\ ChipsAnswerTheLatest
  <2>1. BarTypeOK'
    BY <1>0, <1>12, Cleared DEF BarTypeOK, Queries
  <2> QED
    BY <1>0, <1>12, <2>1, Cleared, RowOnly DEF ChipsAnswerTheLatest
<1>13. CASE EscapeAddress
  BY <1>0, <1>12, <1>13 DEF EscapeAddress, BarTypeOK
<1>14. CASE EnterAddress
  BY <1>0, <1>12, <1>14 DEF EnterAddress, BarTypeOK, Texts
<1>15. CASE BlurTimer
  BY <1>0, <1>12, <1>15 DEF BlurTimer, BarTypeOK, LosesFocus
<1>16. CASE OpenFindBar
  <2>1. Draw("find", suggestions) /\ blurred' \in 0..2 /\ focus' = "find" /\ UNCHANGED <<addr, browseTimer, suggestVars, replies>>
    BY <1>0, <1>16 DEF OpenFindBar, Leaving, BarTypeOK
  <2>2. "find" \in Modes /\ suggestions \in Queries
    BY <1>0 DEF Modes, BarTypeOK
  <2>3. mode' = "find"
    BY <2>1 DEF Draw
  <2>4. BarTypeOK'
    BY <1>0, <2>1, <2>2, <2>3, Drawn DEF BarTypeOK
  <2> QED
    BY <1>0, <2>1, <2>2, <2>4, Drawn, RowOnly DEF ChipsAnswerTheLatest
<1>17. CASE CloseFindBar
  <2>1. BarTypeOK'
    BY <1>0, <1>17 DEF BarTypeOK, CloseFindBar, LosesFocus, Modes, Queries
  <2> QED
    BY <1>17, <2>1 DEF BarInv, AnswersKnowTheirQuestion, RecountIsComing, CloseFindBar, ChipsAnswerTheLatest
<1>18. ASSUME NEW f \in {"addr", "page"}, FocusTo(f) PROVE BarInv' /\ ChipsAnswerTheLatest
  <2>1. BarTypeOK'
    BY <1>0, <1>18 DEF BarTypeOK, FocusTo, Leaving
  <2> QED
    BY <1>18, <2>1, RowOnly DEF FocusTo, ChipsAnswerTheLatest
<1>19. CASE UNCHANGED barVars
  <2>1. UNCHANGED <<addrVars, mode, shown, suggestVars, replies, blurred, findVars>>
    BY <1>19 DEF barVars
  <2> QED
    BY <2>1 DEF BarInv, BarTypeOK, AnswersKnowTheirQuestion, RecountIsComing, ChipsAnswerTheLatest
<1> QED
  BY <1>1, <1>2, <1>3, <1>4, <1>5, <1>6, <1>7, <1>8, <1>9, <1>10, <1>11, <1>13, <1>14, <1>15, <1>16, <1>17,
     <1>18, <1>19 DEF BarNext

\* For any texts, keys and answers under way, the row shows what the mode says (chrome_bar.js).
THEOREM BarTypeCorrect == BarSpec => []BarTypeOK
<1>1. BarInv /\ [BarNext]_barVars => BarInv'
  BY BarKeeps
<1>2. BarInv => BarTypeOK
  BY DEF BarInv
<1> QED
  BY <1>1, <1>2, BarStarts, PTL DEF BarSpec

\* However answers and timers are delayed and reordered, and however many are under way: chips
\* that appear answer the latest question, and a label that is not about to be counted again
\* counts the text in the field (chrome_bar.js:119-123, 180-193).
THEOREM RowAlwaysFitsTheFields == BarSpec => RowFitsTheFields
<1>1. BarInv /\ [BarNext]_barVars => BarInv'
  BY BarKeeps
<1>2. BarInv => CountFitsTheField
  BY DEF BarInv, RecountIsComing, CountFitsTheField
<1>3. BarInv /\ BarInv' /\ [BarNext]_barVars => [ChipsAnswerTheLatest /\ CountFitsTheField']_barVars
  <2>1. BarInv' => CountFitsTheField'
    BY DEF BarInv, RecountIsComing, CountFitsTheField
  <2> QED
    BY <2>1, BarKeeps
<1> QED
  BY <1>1, <1>3, BarStarts, PTL DEF BarSpec, RowFitsTheFields

-----------------------------------------------------------------------------
(* The strip and its webviews.  Neither side ever sees the other: the      *)
(* invariant says what the two streams between them will come to.  The     *)
(* commands under way end with the tab that the strip has active, close     *)
(* what it has let go and make what is not there; the callbacks under way   *)
(* end with every tab marked as its webview is.  A step of the strip puts   *)
(* commands behind the others, a step of the native side takes the first    *)
(* and puts callbacks behind the others: there are lemmas for either, and   *)
(* then one for each action.                                                *)

Ids(T) == {t.id : t \in T}
Shows(c) == c.what \in {"new", "switch"}
Makes(C, id) == \E i \in DOMAIN C : C[i].what = "new" /\ C[i].id = id
ClosesAfter(C, k, id) == \E j \in DOMAIN C : k < j /\ C[j].what = "close" /\ C[j].id = id

\* The commands C on their way from a strip with the tabs T, which has given the
\* numbers below n, to the webviews L.  What was closed is gone from the strip; what
\* is gone from it, and is or will be a webview, is closed later; a tab is made
\* before anything else is done with it, and made as private as it is.
CommandsFit(T, n, C, L) ==
    /\ \A i \in DOMAIN C : C[i].id < n
    /\ \A x \in L : x < n /\ (x \in Ids(T) \/ ClosesAfter(C, 0, x))
    /\ \A i \in DOMAIN C :
          /\ C[i].what = "close" => C[i].id \notin Ids(T)
          /\ Shows(C[i]) => C[i].id \in Ids(T) \/ ClosesAfter(C, i, C[i].id)
          /\ C[i].what = "new" =>
                /\ C[i].id \notin L
                /\ \A j \in DOMAIN C : C[j].id = C[i].id => i <= j
                /\ \A t \in T : t.id = C[i].id => t.ephemeral = C[i].private

\* The callbacks K on their way will leave the tab t live, or dimmed.
Tells(c, t, what) == c.what = what /\ c.id = t.id
Ends(t, K, on, off) ==
    \/ \E i \in DOMAIN K : Tells(K[i], t, on) /\ \A j \in DOMAIN K : i < j => ~Tells(K[j], t, off)
    \/ t.suspended = (on = "suspended") /\ \A j \in DOMAIN K : ~Tells(K[j], t, off)
EndsLit(t, K) == Ends(t, K, "loading", "suspended")
EndsDim(t, K) == Ends(t, K, "suspended", "loading")

\* A tab that is not about to be made will be dimmed exactly when it has no webview.
DimsFit(T, C, L, K) ==
    \A t \in T : Makes(C, t.id) \/ (t.id \in L /\ EndsLit(t, K)) \/ (t.id \notin L /\ EndsDim(t, K))

\* The last tab that the native side is told to show, or shows already, is a.
PointerFits(a, C, current) ==
    \/ \E i \in DOMAIN C : Shows(C[i]) /\ C[i].id = a /\ \A j \in DOMAIN C : i < j => ~Shows(C[j])
    \/ current = a /\ \A j \in DOMAIN C : ~Shows(C[j])

\* A private tab has a private webview, or none, and then none is ever made again
\* but by its own command; it is not dimmed, will not be, and was not saved.
PrivateFits(T, C, L, E, K, S) ==
    \A t \in T : t.ephemeral =>
        /\ t.id \in E \/ L = {} \/ Makes(C, t.id)
        /\ ~t.suspended /\ t.id \notin S
        /\ \A i \in DOMAIN K : ~Tells(K[i], t, "suspended")

\* A list of tabs without a number twice.
IsStrip(s) == s \in Seq(Tab) /\ IsInjective(s) /\ \A t, u \in Range(s) : t.id = u.id => t = u

ChromeInv ==
    /\ IsStrip(tabs) /\ activeId \in Ids(Range(tabs)) /\ nextId \in 2..(MaxTabs + 1)
    /\ \A t \in Range(tabs) : t.id < nextId
    /\ deepLinked \in BOOLEAN /\ reply \in Sessions \cup {NoSession}
    /\ saveTimer \in BOOLEAN /\ stored \subseteq TabIds /\ \A x \in stored : x < nextId
    /\ commands \in Seq(Command) /\ callbacks \in Seq(Callback)
    /\ \A i \in DOMAIN callbacks : callbacks[i].id < nextId
    /\ live \subseteq TabIds /\ active \in 0..MaxTabs /\ ephemeral \subseteq TabIds
    /\ mru \in Seq(TabIds) /\ IsInjective(mru) /\ live \subseteq Range(mru)
    /\ CommandsFit(Range(tabs), nextId, commands, live)
    /\ PrivateFits(Range(tabs), commands, live, ephemeral, callbacks, stored)
    /\ unborn = {} => /\ DimsFit(Range(tabs), commands, live, callbacks)
                      /\ PointerFits(activeId, commands, active)

(* What stands where when one list is put behind another. *)
LEMMA Behind ==
    ASSUME NEW K, NEW C \in Seq(K), NEW D \in Seq(K)
    PROVE  /\ C \o D \in Seq(K)
           /\ \A i \in DOMAIN C : i \in DOMAIN (C \o D) /\ (C \o D)[i] = C[i]
           /\ \A j \in DOMAIN D : Len(C) + j \in DOMAIN (C \o D) /\ (C \o D)[Len(C) + j] = D[j]
           /\ \A i \in DOMAIN (C \o D) : i \in DOMAIN C \/ \E j \in DOMAIN D : i = Len(C) + j
           /\ Len(C) \in Nat /\ DOMAIN C = 1..Len(C) /\ DOMAIN D \subseteq Nat \ {0}
<1> DEFINE m == Len(C)
           n == Len(D)
           s == C \o D
<1>1. m \in Nat /\ n \in Nat /\ DOMAIN C = 1..m /\ DOMAIN D = 1..n
  OBVIOUS
<1>2. s \in Seq(K) /\ Len(s) = m + n /\ \A i \in 1..(m + n) : s[i] = IF i <= m THEN C[i] ELSE D[i - m]
  BY ConcatProperties
<1>3. DOMAIN s = 1..(m + n)
  BY <1>2
<1> HIDE DEF m, n, s
<1>4. \A i \in 1..m : i \in 1..(m + n) /\ i <= m
  BY <1>1
<1>5. \A j \in 1..n : m + j \in 1..(m + n) /\ ~(m + j <= m) /\ (m + j) - m = j
  BY <1>1
<1>6. \A i \in 1..(m + n) : i \in 1..m \/ (i - m \in 1..n /\ i = m + (i - m))
  BY <1>1
<1>7. 1..n \subseteq Nat \ {0}
  BY <1>1
<1>8. \A i \in 1..(m + n) : i \in 1..m \/ \E j \in 1..n : i = m + j
  BY <1>6
<1> QED
  BY <1>1, <1>2, <1>3, <1>4, <1>5, <1>7, <1>8 DEF m, s

(* What the strip sends when its tabs become T2 and its next number n2. *)
Sent(T, n, T2, n2, D) ==
    /\ n <= n2
    /\ \A t \in T2 : \/ \E u \in T : u.id = t.id /\ u.ephemeral = t.ephemeral /\ u.suspended = t.suspended
                     \/ n <= t.id /\ ~t.suspended /\ Makes(D, t.id)
    /\ \A u \in T : u.id \in Ids(T2) \/ ClosesAfter(D, 0, u.id)
    /\ \A j \in DOMAIN D :
          /\ D[j].id < n2
          /\ D[j].what = "close" => D[j].id \notin Ids(T2) /\ D[j].id < n
          /\ Shows(D[j]) => D[j].id \in Ids(T2)
          /\ D[j].what = "new" =>
                /\ n <= D[j].id
                /\ \A k \in DOMAIN D : D[k].id = D[j].id => j <= k
                /\ \A t \in T2 : t.id = D[j].id => t.ephemeral = D[j].private

\* What the strip sends keeps the commands in order: it closes only what is gone, and makes only new numbers.
LEMMA SentFits ==
    ASSUME NEW T \in SUBSET Tab, NEW n \in Nat, NEW T2 \in SUBSET Tab, NEW n2 \in Nat, NEW L \in SUBSET TabIds,
           NEW C \in Seq(Command), NEW D \in Seq(Command),
           CommandsFit(T, n, C, L), Sent(T, n, T2, n2, D)
    PROVE  CommandsFit(T2, n2, C \o D, L)
<1> DEFINE s == C \o D
           m == Len(C)
<1>1. /\ s \in Seq(Command) /\ m \in Nat /\ DOMAIN C = 1..m /\ DOMAIN D \subseteq Nat \ {0}
      /\ \A i \in DOMAIN C : i \in DOMAIN s /\ s[i] = C[i]
      /\ \A j \in DOMAIN D : m + j \in DOMAIN s /\ s[m + j] = D[j]
      /\ \A i \in DOMAIN s : i \in DOMAIN C \/ \E j \in DOMAIN D : i = m + j
  BY Behind
<1> HIDE DEF s, m
<1>2. TabIds \subseteq Nat
  BY DEF TabIds
<1>3. \A i \in DOMAIN C : C[i].id \in Nat /\ C[i].id < n
  <2>1. \A i \in DOMAIN C : C[i] \in Command
    OBVIOUS
  <2> QED
    BY <1>2, <2>1 DEF CommandsFit, Command
<1>4. \A j \in DOMAIN D : D[j].id \in Nat
  <2>1. \A i \in DOMAIN D : D[i] \in Command
    OBVIOUS
  <2> QED
    BY <1>2, <2>1 DEF Command
<1>5. \A t \in T : t.id \in Nat
  BY <1>2 DEF Tab
<1>51. \A t \in T2 : t.id \in Nat
  BY <1>2 DEF Tab
<1>6. \A x \in Nat : x < n /\ x \in Ids(T2) => x \in Ids(T)
  <2> SUFFICES ASSUME NEW t \in T2, t.id < n PROVE t.id \in Ids(T)
    BY DEF Ids
  <2>1. ~(n <= t.id)
    BY <1>51
  <2> QED
    BY <2>1 DEF Sent, Ids
<1>7. \A k \in Nat, x \in Nat : k <= m /\ x \in Ids(T) => x \in Ids(T2) \/ ClosesAfter(s, k, x)
  <2> SUFFICES ASSUME NEW k \in Nat, k <= m, NEW u \in T, u.id \notin Ids(T2) PROVE ClosesAfter(s, k, u.id)
    BY DEF Ids
  <2>1. PICK j \in DOMAIN D : D[j].what = "close" /\ D[j].id = u.id
    BY DEF Sent, ClosesAfter
  <2>2. m + j \in DOMAIN s /\ s[m + j] = D[j] /\ k < m + j
    BY <1>1
  <2> QED
    BY <2>1, <2>2 DEF ClosesAfter
<1>8. \A k \in Nat, x \in Nat : ClosesAfter(C, k, x) => ClosesAfter(s, k, x)
  BY <1>1 DEF ClosesAfter
<1>9. \A i \in DOMAIN s : s[i].id < n2
  <2> TAKE i \in DOMAIN s
  <2>1. CASE i \in DOMAIN C
    BY <1>1, <1>3, <2>1 DEF Sent
  <2>2. CASE \E j \in DOMAIN D : i = m + j
    BY <1>1, <2>2 DEF Sent
  <2> QED
    BY <1>1, <2>1, <2>2
<1>10. \A x \in L : x < n2 /\ (x \in Ids(T2) \/ ClosesAfter(s, 0, x))
  <2> TAKE x \in L
  <2>1. x \in Nat /\ x < n /\ (x \in Ids(T) \/ ClosesAfter(C, 0, x))
    BY <1>2 DEF CommandsFit
  <2>2. x < n2
    BY <2>1 DEF Sent
  <2> QED
    BY <1>1, <1>7, <1>8, <2>1, <2>2, SMTT(30)
<1>11. ASSUME NEW i \in DOMAIN C
       PROVE  /\ s[i].what = "close" => s[i].id \notin Ids(T2)
              /\ Shows(s[i]) => s[i].id \in Ids(T2) \/ ClosesAfter(s, i, s[i].id)
              /\ s[i].what = "new" =>
                    /\ s[i].id \notin L
                    /\ \A j \in DOMAIN s : s[j].id = s[i].id => i <= j
                    /\ \A t \in T2 : t.id = s[i].id => t.ephemeral = s[i].private
  <2>1. s[i] = C[i] /\ i \in Nat /\ i <= m /\ C[i].id \in Nat /\ C[i].id < n
    BY <1>1, <1>3
  <2>2. s[i].what = "close" => s[i].id \notin Ids(T2)
    BY <1>6, <2>1 DEF CommandsFit
  <2>3. Shows(s[i]) => s[i].id \in Ids(T2) \/ ClosesAfter(s, i, s[i].id)
    BY <1>7, <1>8, <2>1 DEF CommandsFit
  <2>4. ASSUME s[i].what = "new" PROVE s[i].id \notin L
    BY <2>1, <2>4 DEF CommandsFit
  <2>5. ASSUME s[i].what = "new", NEW j \in DOMAIN s, s[j].id = s[i].id PROVE i <= j
    <3>1. CASE j \in DOMAIN C
      BY <1>1, <2>1, <2>5, <3>1 DEF CommandsFit
    <3>2. CASE \E k \in DOMAIN D : j = m + k
      BY <1>1, <2>1, <3>2
    <3> QED
      BY <1>1, <3>1, <3>2
  <2>6. ASSUME s[i].what = "new", NEW t \in T2, t.id = s[i].id PROVE t.ephemeral = s[i].private
    <3>1. ~(n <= t.id)
      BY <2>1, <2>6
    <3>2. PICK u \in T : u.id = t.id /\ u.ephemeral = t.ephemeral
      BY <3>1 DEF Sent
    <3> QED
      BY <2>1, <2>6, <3>2 DEF CommandsFit
  <2> QED
    BY <2>2, <2>3, <2>4, <2>5, <2>6
<1>12. ASSUME NEW k \in DOMAIN D, NEW i, i = m + k
       PROVE  /\ s[i].what = "close" => s[i].id \notin Ids(T2)
              /\ Shows(s[i]) => s[i].id \in Ids(T2) \/ ClosesAfter(s, i, s[i].id)
              /\ s[i].what = "new" =>
                    /\ s[i].id \notin L
                    /\ \A j \in DOMAIN s : s[j].id = s[i].id => i <= j
                    /\ \A t \in T2 : t.id = s[i].id => t.ephemeral = s[i].private
  <2>1. s[i] = D[k] /\ k \in Nat /\ D[k].id \in Nat
    BY <1>1, <1>4, <1>12
  <2>2. /\ s[i].what = "close" => s[i].id \notin Ids(T2)
        /\ Shows(s[i]) => s[i].id \in Ids(T2)
    BY <2>1 DEF Sent
  <2>3. ASSUME s[i].what = "new"
        PROVE  n <= s[i].id /\ \A t \in T2 : t.id = s[i].id => t.ephemeral = s[i].private
    BY <2>1, <2>3 DEF Sent
  <2>4. ASSUME s[i].what = "new" PROVE s[i].id \notin L
    <3>1. \A x \in L : x \in Nat /\ x < n
      BY <1>2 DEF CommandsFit
    <3> QED
      BY <2>1, <2>3, <2>4, <3>1
  <2>5. ASSUME s[i].what = "new", NEW j \in DOMAIN s, s[j].id = s[i].id PROVE i <= j
    <3>1. CASE j \in DOMAIN C
      BY <1>1, <1>3, <2>1, <2>3, <2>5, <3>1
    <3>2. CASE \E l \in DOMAIN D : j = m + l
      <4>1. PICK l \in DOMAIN D : j = m + l
        BY <3>2
      <4>2. k <= l
        BY <1>1, <2>1, <2>5, <4>1 DEF Sent
      <4> QED
        BY <1>1, <1>12, <4>1, <4>2
    <3> QED
      BY <1>1, <3>1, <3>2
  <2> QED
    BY <2>2, <2>3, <2>4, <2>5
<1>13. \A i \in DOMAIN s :
              /\ s[i].what = "close" => s[i].id \notin Ids(T2)
              /\ Shows(s[i]) => s[i].id \in Ids(T2) \/ ClosesAfter(s, i, s[i].id)
              /\ s[i].what = "new" =>
                    /\ s[i].id \notin L
                    /\ \A j \in DOMAIN s : s[j].id = s[i].id => i <= j
                    /\ \A t \in T2 : t.id = s[i].id => t.ephemeral = s[i].private
  BY <1>1, <1>11, <1>12
<1> QED
  BY <1>9, <1>10, <1>13 DEF CommandsFit, s

(* A command that is sent makes nothing that was on its way no longer so.   *)
LEMMA MakesStays ==
    ASSUME NEW C \in Seq(Command), NEW D \in Seq(Command), NEW id, Makes(C, id) \/ Makes(D, id)
    PROVE  Makes(C \o D, id)
<1> DEFINE s == C \o D
           m == Len(C)
<1>1. /\ \A i \in DOMAIN C : i \in DOMAIN s /\ s[i] = C[i]
      /\ \A j \in DOMAIN D : m + j \in DOMAIN s /\ s[m + j] = D[j]
  BY Behind
<1> HIDE DEF s, m
<1> QED
  BY <1>1 DEF Makes, s

\* What the strip sends leaves the marks of its old tabs alone; a new tab is about to be made.
LEMMA SentDims ==
    ASSUME NEW T \in SUBSET Tab, NEW n \in Nat, NEW T2 \in SUBSET Tab, NEW n2 \in Nat, NEW L,
           NEW C \in Seq(Command), NEW D \in Seq(Command), NEW K,
           DimsFit(T, C, L, K), Sent(T, n, T2, n2, D)
    PROVE  DimsFit(T2, C \o D, L, K)
<1> SUFFICES ASSUME NEW t \in T2
             PROVE  \/ Makes(C \o D, t.id) \/ (t.id \in L /\ EndsLit(t, K))
                    \/ (t.id \notin L /\ EndsDim(t, K))
  BY DEF DimsFit
<1>1. CASE Makes(D, t.id)
  BY <1>1, MakesStays
<1>2. CASE \E u \in T : u.id = t.id /\ u.ephemeral = t.ephemeral /\ u.suspended = t.suspended
  <2>1. PICK u \in T : u.id = t.id /\ u.suspended = t.suspended
    BY <1>2
  <2>2. Makes(C, t.id) => Makes(C \o D, t.id)
    BY MakesStays
  <2>3. (EndsLit(u, K) => EndsLit(t, K)) /\ (EndsDim(u, K) => EndsDim(t, K))
    BY <2>1 DEF EndsLit, EndsDim, Ends, Tells
  <2> QED
    BY <2>1, <2>2, <2>3 DEF DimsFit
<1> QED
  BY <1>1, <1>2 DEF Sent

\* What the strip sends keeps the promise to private tabs; a private tab that is new is made private.
LEMMA SentPrivate ==
    ASSUME NEW T \in SUBSET Tab, NEW n \in Nat, NEW T2 \in SUBSET Tab, NEW n2 \in Nat, NEW L, NEW E,
           NEW C \in Seq(Command), NEW D \in Seq(Command), NEW K \in Seq(Callback), NEW S \in SUBSET TabIds,
           \A x \in S : x < n, \A i \in DOMAIN K : K[i].id < n,
           PrivateFits(T, C, L, E, K, S), Sent(T, n, T2, n2, D)
    PROVE  PrivateFits(T2, C \o D, L, E, K, S)
<1> SUFFICES ASSUME NEW t \in T2, t.ephemeral
             PROVE  /\ t.id \in E \/ L = {} \/ Makes(C \o D, t.id)
                    /\ ~t.suspended /\ t.id \notin S
                    /\ \A i \in DOMAIN K : ~Tells(K[i], t, "suspended")
  BY DEF PrivateFits
<1>1. CASE n <= t.id /\ ~t.suspended /\ Makes(D, t.id)
  <2>1. Makes(C \o D, t.id)
    BY <1>1, MakesStays
  <2>2. t.id \in Nat /\ S \subseteq Nat
    BY DEF Tab, TabIds
  <2>3. t.id \notin S
    BY <1>1, <2>2
  <2>4. ASSUME NEW i \in DOMAIN K PROVE K[i].id # t.id
    <3>1. K[i] \in Callback /\ K[i].id < n
      OBVIOUS
    <3>2. K[i].id \in 0..MaxTabs
      BY <3>1 DEF Callback
    <3> QED
      BY <1>1, <2>2, <3>1, <3>2
  <2> QED
    BY <1>1, <2>1, <2>3, <2>4 DEF Tells
<1>2. CASE \E u \in T : u.id = t.id /\ u.ephemeral = t.ephemeral /\ u.suspended = t.suspended
  <2>1. PICK u \in T : u.id = t.id /\ u.ephemeral = t.ephemeral /\ u.suspended = t.suspended
    BY <1>2
  <2>2. Makes(C, t.id) => Makes(C \o D, t.id)
    BY MakesStays
  <2> QED
    BY <2>1, <2>2 DEF PrivateFits, Tells
<1> QED
  BY <1>1, <1>2 DEF Sent

(* The last tab to be shown, when the strip tells of it or leaves it.       *)
LEMMA SentPointer ==
    ASSUME NEW C \in Seq(Command), NEW D \in Seq(Command), NEW a, NEW b, NEW current,
           PointerFits(a, C, current),
           \/ a = b /\ \A j \in DOMAIN D : ~Shows(D[j])
           \/ \E j \in DOMAIN D : Shows(D[j]) /\ D[j].id = b /\ \A k \in DOMAIN D : j < k => ~Shows(D[k])
    PROVE  PointerFits(b, C \o D, current)
<1> DEFINE s == C \o D
           m == Len(C)
<1>1. /\ s \in Seq(Command) /\ m \in Nat /\ DOMAIN C = 1..m /\ DOMAIN D \subseteq Nat \ {0}
      /\ \A i \in DOMAIN C : i \in DOMAIN s /\ s[i] = C[i]
      /\ \A j \in DOMAIN D : m + j \in DOMAIN s /\ s[m + j] = D[j]
      /\ \A i \in DOMAIN s : i \in DOMAIN C \/ \E j \in DOMAIN D : i = m + j
  BY Behind
<1> HIDE DEF s, m
<1>2. CASE a = b /\ \A j \in DOMAIN D : ~Shows(D[j])
  <2>1. CASE \E i \in DOMAIN C : Shows(C[i]) /\ C[i].id = a /\ \A j \in DOMAIN C : i < j => ~Shows(C[j])
    <3>1. PICK i \in DOMAIN C : Shows(C[i]) /\ C[i].id = a /\ \A j \in DOMAIN C : i < j => ~Shows(C[j])
      BY <2>1
    <3>2. i \in DOMAIN s /\ Shows(s[i]) /\ s[i].id = b
      BY <1>1, <1>2, <3>1
    <3>3. \A j \in DOMAIN s : i < j => ~Shows(s[j])
      BY <1>1, <1>2, <3>1
    <3> QED
      BY <3>2, <3>3 DEF PointerFits, s
  <2>2. CASE current = a /\ \A j \in DOMAIN C : ~Shows(C[j])
    <3>1. \A j \in DOMAIN s : ~Shows(s[j])
      BY <1>1, <1>2, <2>2
    <3> QED
      BY <1>2, <2>2, <3>1 DEF PointerFits, s
  <2> QED
    BY <2>1, <2>2 DEF PointerFits
<1>3. CASE \E j \in DOMAIN D : Shows(D[j]) /\ D[j].id = b /\ \A k \in DOMAIN D : j < k => ~Shows(D[k])
  <2>1. PICK j \in DOMAIN D : Shows(D[j]) /\ D[j].id = b /\ \A k \in DOMAIN D : j < k => ~Shows(D[k])
    BY <1>3
  <2>2. m + j \in DOMAIN s /\ Shows(s[m + j]) /\ s[m + j].id = b
    BY <1>1, <2>1
  <2>3. ASSUME NEW i \in DOMAIN s, m + j < i PROVE ~Shows(s[i])
    <3>1. i \notin DOMAIN C
      BY <1>1, <2>1, <2>3
    <3>2. PICK k \in DOMAIN D : i = m + k
      BY <1>1, <3>1
    <3>3. j < k
      BY <1>1, <2>1, <2>3, <3>2
    <3> QED
      BY <1>1, <2>1, <3>2, <3>3
  <2> QED
    BY <2>2, <2>3 DEF PointerFits, s
<1> QED
  BY <1>2, <1>3

(* What stands where when the first of a list is taken.                     *)
LEMMA Rest ==
    ASSUME NEW K, NEW s \in Seq(K), s # <<>>
    PROVE  /\ Tail(s) \in Seq(K) /\ Head(s) \in K
           /\ 1 \in DOMAIN s /\ s[1] = Head(s)
           /\ DOMAIN s \subseteq Nat \ {0} /\ DOMAIN Tail(s) \subseteq Nat \ {0}
           /\ \A i \in DOMAIN s : i = 1 \/ (i - 1 \in DOMAIN Tail(s) /\ Tail(s)[i - 1] = s[i])
           /\ \A i \in DOMAIN Tail(s) : i + 1 \in DOMAIN s /\ Tail(s)[i] = s[i + 1]
<1>1. /\ Tail(s) \in Seq(K) /\ Len(Tail(s)) = Len(s) - 1 /\ Len(s) \in Nat \ {0}
      /\ \A i \in 1..(Len(s) - 1) : Tail(s)[i] = s[i + 1]
      /\ Head(s) = s[1] /\ DOMAIN s = 1..Len(s) /\ DOMAIN Tail(s) = 1..(Len(s) - 1)
  OBVIOUS
<1>2. \A i \in 1..Len(s) : i = 1 \/ (i - 1 \in 1..(Len(s) - 1) /\ (i - 1) + 1 = i)
  BY <1>1
<1>3. \A i \in 1..(Len(s) - 1) : i + 1 \in 1..Len(s)
  BY <1>1
<1>4. 1 \in 1..Len(s) /\ s[1] \in K
  BY <1>1
<1> DEFINE t == Tail(s)
<1> HIDE DEF t
<1>5. \A i \in 1..(Len(s) - 1) : t[i] = s[i + 1]
  BY <1>1 DEF t
<1>6. \A i \in 1..Len(s) : i = 1 \/ (i - 1 \in 1..(Len(s) - 1) /\ t[i - 1] = s[i])
  BY <1>2, <1>5
<1>7. 1..Len(s) \subseteq Nat \ {0} /\ 1..(Len(s) - 1) \subseteq Nat \ {0}
  BY <1>1
<1> QED
  BY <1>1, <1>3, <1>4, <1>5, <1>6, <1>7 DEF t

(* A command that the native side carries out, with the webviews it leaves. *)
LEMMA TakenFits ==
    ASSUME NEW T \in SUBSET Tab, NEW n \in Nat, NEW C \in Seq(Command), C # <<>>,
           NEW L \in SUBSET TabIds, NEW L2 \in SUBSET TabIds, CommandsFit(T, n, C, L),
           L2 \subseteq L \cup (IF Shows(Head(C)) THEN {Head(C).id} ELSE {}),
           Head(C).what = "close" => Head(C).id \notin L2
    PROVE  CommandsFit(T, n, Tail(C), L2)
<1> DEFINE c == Head(C)
           s == Tail(C)
<1>1. /\ s \in Seq(Command) /\ c \in Command /\ 1 \in DOMAIN C /\ C[1] = c
      /\ DOMAIN C \subseteq Nat \ {0} /\ DOMAIN s \subseteq Nat \ {0}
      /\ \A i \in DOMAIN C : i = 1 \/ (i - 1 \in DOMAIN s /\ s[i - 1] = C[i])
      /\ \A i \in DOMAIN s : i + 1 \in DOMAIN C /\ s[i] = C[i + 1]
  BY Rest
<1> HIDE DEF s, c
<1>2. ASSUME NEW k \in Nat, NEW x, ClosesAfter(C, k + 1, x) PROVE ClosesAfter(s, k, x)
  <2>1. PICK j \in DOMAIN C : k + 1 < j /\ C[j].what = "close" /\ C[j].id = x
    BY <1>2 DEF ClosesAfter
  <2>2. j - 1 \in DOMAIN s /\ s[j - 1] = C[j] /\ k < j - 1
    BY <1>1, <2>1
  <2> QED
    BY <2>1, <2>2 DEF ClosesAfter
<1>3. \A i \in DOMAIN s : s[i].id < n
  BY <1>1 DEF CommandsFit
<1>4. ASSUME NEW x \in L2 PROVE x < n /\ (x \in Ids(T) \/ ClosesAfter(s, 0, x))
  <2>1. CASE x \in L
    <3>1. x < n /\ (x \in Ids(T) \/ ClosesAfter(C, 0, x))
      BY <2>1 DEF CommandsFit
    <3>2. ASSUME ClosesAfter(C, 0, x) PROVE ClosesAfter(s, 0, x)
      <4>1. PICK j \in DOMAIN C : 0 < j /\ C[j].what = "close" /\ C[j].id = x
        BY <3>2 DEF ClosesAfter
      <4>2. j # 1
        BY <1>1, <4>1 DEF c
      <4>3. 0 + 1 < j
        BY <1>1, <4>1, <4>2
      <4>4. ClosesAfter(C, 0 + 1, x)
        BY <4>1, <4>3 DEF ClosesAfter
      <4> QED
        BY <1>2, <4>4
    <3> QED
      BY <3>1, <3>2
  <2>2. CASE x \notin L
    <3>1. Shows(c) /\ x = c.id
      BY <2>2 DEF c
    <3>2. c.id < n /\ (c.id \in Ids(T) \/ ClosesAfter(C, 1, c.id))
      BY <1>1, <3>1 DEF CommandsFit
    <3>3. ClosesAfter(C, 0 + 1, x) => ClosesAfter(s, 0, x)
      BY <1>2
    <3>4. 0 + 1 = 1
      OBVIOUS
    <3> QED
      BY <3>1, <3>2, <3>3, <3>4
  <2> QED
    BY <2>1, <2>2
<1>5. ASSUME NEW i \in DOMAIN s
      PROVE  /\ s[i].what = "close" => s[i].id \notin Ids(T)
             /\ Shows(s[i]) => s[i].id \in Ids(T) \/ ClosesAfter(s, i, s[i].id)
             /\ s[i].what = "new" =>
                   /\ s[i].id \notin L2
                   /\ \A j \in DOMAIN s : s[j].id = s[i].id => i <= j
                   /\ \A t \in T : t.id = s[i].id => t.ephemeral = s[i].private
  <2>1. i + 1 \in DOMAIN C /\ s[i] = C[i + 1] /\ i \in Nat \ {0}
    BY <1>1
  <2>2. s[i].what = "close" => s[i].id \notin Ids(T)
    BY <2>1 DEF CommandsFit
  <2>3. Shows(s[i]) => s[i].id \in Ids(T) \/ ClosesAfter(s, i, s[i].id)
    BY <1>2, <2>1 DEF CommandsFit
  <2>4. ASSUME s[i].what = "new"
        PROVE  /\ s[i].id \notin L2
               /\ \A j \in DOMAIN s : s[j].id = s[i].id => i <= j
               /\ \A t \in T : t.id = s[i].id => t.ephemeral = s[i].private
    <3>1. /\ s[i].id \notin L
          /\ \A j \in DOMAIN C : C[j].id = s[i].id => i + 1 <= j
          /\ \A t \in T : t.id = s[i].id => t.ephemeral = s[i].private
      BY <2>1, <2>4 DEF CommandsFit
    <3>2. s[i].id # c.id
      BY <1>1, <2>1, <3>1
    <3>3. s[i].id \notin L2
      BY <3>1, <3>2 DEF c
    <3>4. ASSUME NEW j \in DOMAIN s, s[j].id = s[i].id PROVE i <= j
      <4>1. j + 1 \in DOMAIN C /\ C[j + 1].id = s[i].id /\ i \in Nat /\ j \in Nat
        BY <1>1, <3>4
      <4>2. i + 1 <= j + 1
        BY <3>1, <4>1
      <4> QED
        BY <4>1, <4>2
    <3> QED
      BY <3>1, <3>3, <3>4
  <2> QED
    BY <2>2, <2>3, <2>4
<1> QED
  BY <1>3, <1>4, <1>5 DEF CommandsFit, s

(* A tab is still to be made unless it is made now.                         *)
LEMMA MakesLater ==
    ASSUME NEW C \in Seq(Command), C # <<>>, NEW id, Makes(C, id)
    PROVE  Makes(Tail(C), id) \/ (Head(C).what = "new" /\ Head(C).id = id)
<1> DEFINE s == Tail(C)
<1>1. /\ C[1] = Head(C) /\ DOMAIN C \subseteq Nat \ {0}
      /\ \A i \in DOMAIN C : i = 1 \/ (i - 1 \in DOMAIN s /\ s[i - 1] = C[i])
  BY Rest
<1> HIDE DEF s
<1>2. PICK i \in DOMAIN C : C[i].what = "new" /\ C[i].id = id
  BY DEF Makes
<1> QED
  BY <1>1, <1>2 DEF Makes, s

\* A command taken that shows a tab makes it current; another leaves the pointer alone.
LEMMA TakenPointer ==
    ASSUME NEW C \in Seq(Command), C # <<>>, NEW a, NEW current, NEW now, PointerFits(a, C, current),
           IF Shows(Head(C)) THEN now = Head(C).id ELSE current = a => now = a
    PROVE  PointerFits(a, Tail(C), now)
<1> DEFINE s == Tail(C)
<1>1. /\ 1 \in DOMAIN C /\ C[1] = Head(C) /\ DOMAIN C \subseteq Nat \ {0} /\ DOMAIN s \subseteq Nat \ {0}
      /\ \A i \in DOMAIN C : i = 1 \/ (i - 1 \in DOMAIN s /\ s[i - 1] = C[i])
      /\ \A i \in DOMAIN s : i + 1 \in DOMAIN C /\ s[i] = C[i + 1]
  BY Rest
<1> HIDE DEF s
<1>2. CASE current = a /\ \A j \in DOMAIN C : ~Shows(C[j])
  <2>1. now = a /\ \A j \in DOMAIN s : ~Shows(s[j])
    BY <1>1, <1>2
  <2> QED
    BY <2>1 DEF PointerFits, s
<1>3. CASE \E i \in DOMAIN C : Shows(C[i]) /\ C[i].id = a /\ \A j \in DOMAIN C : i < j => ~Shows(C[j])
  <2>1. PICK i \in DOMAIN C : Shows(C[i]) /\ C[i].id = a /\ \A j \in DOMAIN C : i < j => ~Shows(C[j])
    BY <1>3
  <2>2. CASE i = 1
    <3>1. now = a
      BY <1>1, <2>1, <2>2
    <3>2. \A j \in DOMAIN s : ~Shows(s[j])
      BY <1>1, <2>1, <2>2
    <3> QED
      BY <3>1, <3>2 DEF PointerFits, s
  <2>3. CASE i # 1
    <3>1. i - 1 \in DOMAIN s /\ Shows(s[i - 1]) /\ s[i - 1].id = a
      BY <1>1, <2>1, <2>3
    <3>2. \A j \in DOMAIN s : i - 1 < j => ~Shows(s[j])
      BY <1>1, <2>1
    <3> QED
      BY <3>1, <3>2 DEF PointerFits, s
  <2> QED
    BY <2>2, <2>3
<1> QED
  BY <1>2, <1>3 DEF PointerFits

(* What the callbacks will leave, when more are sent.                       *)
LEMMA EndsKept ==
    ASSUME NEW t, NEW K \in Seq(Callback), NEW e \in Seq(Callback), NEW on, NEW off, Ends(t, K, on, off),
           \A j \in DOMAIN e : ~Tells(e[j], t, off)
    PROVE  Ends(t, K \o e, on, off)
<1> DEFINE s == K \o e
           m == Len(K)
<1>1. /\ m \in Nat /\ DOMAIN K = 1..m
      /\ \A i \in DOMAIN K : i \in DOMAIN s /\ s[i] = K[i]
      /\ \A j \in DOMAIN e : m + j \in DOMAIN s /\ s[m + j] = e[j]
      /\ \A i \in DOMAIN s : i \in DOMAIN K \/ \E j \in DOMAIN e : i = m + j
  BY Behind
<1> HIDE DEF s, m
<1>2. CASE t.suspended = (on = "suspended") /\ \A j \in DOMAIN K : ~Tells(K[j], t, off)
  <2>1. \A j \in DOMAIN s : ~Tells(s[j], t, off)
    BY <1>1, <1>2
  <2> QED
    BY <1>2, <2>1 DEF Ends, s
<1>3. CASE \E i \in DOMAIN K : Tells(K[i], t, on) /\ \A j \in DOMAIN K : i < j => ~Tells(K[j], t, off)
  <2>1. PICK i \in DOMAIN K : Tells(K[i], t, on) /\ \A j \in DOMAIN K : i < j => ~Tells(K[j], t, off)
    BY <1>3
  <2>2. i \in DOMAIN s /\ Tells(s[i], t, on)
    BY <1>1, <2>1
  <2>3. \A j \in DOMAIN s : i < j => ~Tells(s[j], t, off)
    BY <1>1, <2>1
  <2> QED
    BY <2>2, <2>3 DEF Ends, s
<1> QED
  BY <1>2, <1>3 DEF Ends

\* The callbacks put behind the others have the last word on their tab.
LEMMA EndsSet ==
    ASSUME NEW t, NEW K \in Seq(Callback), NEW e \in Seq(Callback), NEW on, NEW off,
           NEW i \in DOMAIN e, Tells(e[i], t, on), \A j \in DOMAIN e : ~Tells(e[j], t, off)
    PROVE  Ends(t, K \o e, on, off)
<1> DEFINE s == K \o e
           m == Len(K)
<1>1. /\ m \in Nat /\ DOMAIN K = 1..m /\ DOMAIN e \subseteq Nat \ {0}
      /\ \A j \in DOMAIN e : m + j \in DOMAIN s /\ s[m + j] = e[j]
      /\ \A k \in DOMAIN s : k \in DOMAIN K \/ \E j \in DOMAIN e : k = m + j
  BY Behind
<1> HIDE DEF s, m
<1>2. m + i \in DOMAIN s /\ Tells(s[m + i], t, on)
  BY <1>1
<1>3. ASSUME NEW k \in DOMAIN s, m + i < k PROVE ~Tells(s[k], t, off)
  <2>1. k \notin DOMAIN K
    BY <1>1, <1>3
  <2> QED
    BY <1>1, <2>1
<1> QED
  BY <1>2, <1>3 DEF Ends, s

(* A callback that is handled: the tab changes as it says.                  *)
LEMMA EndsTaken ==
    ASSUME NEW t, NEW u, NEW K \in Seq(Callback), K # <<>>, u.id = t.id,
           t.suspended \in BOOLEAN, u.suspended \in BOOLEAN,
           Tells(Head(K), t, "loading") => ~u.suspended,
           Tells(Head(K), t, "suspended") => u.suspended,
           ~Tells(Head(K), t, "loading") /\ ~Tells(Head(K), t, "suspended") => u.suspended = t.suspended,
           NEW on, NEW off, Ends(t, K, on, off), {on, off} = {"loading", "suspended"}, on # off
    PROVE  Ends(u, Tail(K), on, off)
<1> DEFINE s == Tail(K)
<1>1. /\ 1 \in DOMAIN K /\ K[1] = Head(K) /\ DOMAIN K \subseteq Nat \ {0} /\ DOMAIN s \subseteq Nat \ {0}
      /\ \A i \in DOMAIN K : i = 1 \/ (i - 1 \in DOMAIN s /\ s[i - 1] = K[i])
      /\ \A i \in DOMAIN s : i + 1 \in DOMAIN K /\ s[i] = K[i + 1]
  BY Rest
<1> HIDE DEF s
<1>2. \A c, what : Tells(c, t, what) <=> Tells(c, u, what)
  BY DEF Tells
<1>3. (on = "loading" /\ off = "suspended") \/ (on = "suspended" /\ off = "loading")
  OBVIOUS
<1>4. CASE t.suspended = (on = "suspended") /\ \A j \in DOMAIN K : ~Tells(K[j], t, off)
  <2>1. \A j \in DOMAIN s : ~Tells(s[j], u, off)
    BY <1>1, <1>2, <1>4
  <2>2. ~Tells(Head(K), t, off)
    BY <1>1, <1>4
  <2>3. u.suspended = (on = "suspended")
    BY <1>3, <1>4, <2>2
  <2> QED
    BY <2>1, <2>3 DEF Ends, s
<1>5. CASE \E i \in DOMAIN K : Tells(K[i], t, on) /\ \A j \in DOMAIN K : i < j => ~Tells(K[j], t, off)
  <2>1. PICK i \in DOMAIN K : Tells(K[i], t, on) /\ \A j \in DOMAIN K : i < j => ~Tells(K[j], t, off)
    BY <1>5
  <2>2. CASE i = 1
    <3>1. Tells(Head(K), t, on)
      BY <1>1, <2>1, <2>2
    <3>2. u.suspended = (on = "suspended")
      BY <1>3, <3>1
    <3>3. \A j \in DOMAIN s : ~Tells(s[j], u, off)
      BY <1>1, <1>2, <2>1, <2>2
    <3> QED
      BY <3>2, <3>3 DEF Ends, s
  <2>3. CASE i # 1
    <3>1. i - 1 \in DOMAIN s /\ Tells(s[i - 1], u, on)
      BY <1>1, <1>2, <2>1, <2>3
    <3>2. \A j \in DOMAIN s : i - 1 < j => ~Tells(s[j], u, off)
      BY <1>1, <1>2, <2>1
    <3> QED
      BY <3>1, <3>2 DEF Ends, s
  <2> QED
    BY <2>2, <2>3
<1> QED
  BY <1>4, <1>5 DEF Ends

(* A callback that says nothing of a webview is handled.                    *)
LEMMA OpenTaken ==
    ASSUME NEW T \in SUBSET Tab, NEW C, NEW L, NEW E, NEW S, NEW n, NEW K \in Seq(Callback), K # <<>>,
           Head(K).what \notin {"loading", "suspended"},
           PrivateFits(T, C, L, E, K, S), \A i \in DOMAIN K : K[i].id < n
    PROVE  /\ Tail(K) \in Seq(Callback) /\ \A i \in DOMAIN Tail(K) : Tail(K)[i].id < n
           /\ PrivateFits(T, C, L, E, Tail(K), S)
           /\ DimsFit(T, C, L, K) => DimsFit(T, C, L, Tail(K))
<1> DEFINE s == Tail(K)
<1>1. s \in Seq(Callback) /\ \A i \in DOMAIN s : i + 1 \in DOMAIN K /\ s[i] = K[i + 1]
  BY Rest
<1>2. ASSUME NEW t \in T
      PROVE  (EndsLit(t, K) => EndsLit(t, s)) /\ (EndsDim(t, K) => EndsDim(t, s))
  <2>1. t.suspended \in BOOLEAN
    BY DEF Tab
  <2>2. ~Tells(Head(K), t, "loading") /\ ~Tells(Head(K), t, "suspended")
    BY DEF Tells
  <2>3. EndsLit(t, K) => EndsLit(t, s)
    BY <2>1, <2>2, EndsTaken DEF EndsLit
  <2>4. EndsDim(t, K) => EndsDim(t, s)
    BY <2>1, <2>2, EndsTaken DEF EndsDim
  <2> QED
    BY <2>3, <2>4
<1> HIDE DEF s
<1>3. \A i \in DOMAIN s : s[i].id < n
  BY <1>1
<1>4. PrivateFits(T, C, L, E, s, S)
  BY <1>1 DEF PrivateFits
<1>5. DimsFit(T, C, L, K) => DimsFit(T, C, L, s)
  BY <1>2 DEF DimsFit
<1> QED
  BY <1>1, <1>3, <1>4, <1>5 DEF s

(* The strip sends something, or nothing, and keeps its invariant.          *)
LEMMA StripKeeps ==
    ASSUME ChromeInv, NEW D \in Seq(Command), commands' = commands \o D,
           UNCHANGED <<deepLinked, stored, nativeTabVars, unborn>>,
           \/ callbacks' = callbacks
           \/ callbacks # <<>> /\ Head(callbacks).what = "open" /\ callbacks' = Tail(callbacks),
           reply' \in Sessions \cup {NoSession}, saveTimer' \in BOOLEAN,
           IsStrip(tabs'), activeId' \in Ids(Range(tabs')), nextId' \in 2..(MaxTabs + 1),
           \A t \in Range(tabs') : t.id < nextId',
           Sent(Range(tabs), nextId, Range(tabs'), nextId', D),
           \/ activeId' = activeId /\ \A j \in DOMAIN D : ~Shows(D[j])
           \/ \E j \in DOMAIN D : Shows(D[j]) /\ D[j].id = activeId' /\ \A k \in DOMAIN D : j < k => ~Shows(D[k])
    PROVE  ChromeInv'
<1> DEFINE T == Range(tabs)
           T2 == Range(tabs')
<1>1. T \in SUBSET Tab /\ T2 \in SUBSET Tab
  BY DEF ChromeInv, IsStrip, Range
<1>2. nextId \in Nat /\ nextId' \in Nat /\ nextId <= nextId'
  BY ChromeBounds DEF ChromeInv, Sent
<1>3. live' = live /\ mru' = mru /\ active' = active /\ ephemeral' = ephemeral
  BY DEF nativeTabVars
<1>4. /\ live \in SUBSET TabIds /\ commands \in Seq(Command)
      /\ stored \in SUBSET TabIds
  BY DEF ChromeInv
<1>5. commands' \in Seq(Command)
  BY <1>4
<1>6. CommandsFit(T2, nextId', commands', live')
  BY <1>1, <1>2, <1>3, <1>4, SentFits DEF ChromeInv
<1>7. /\ callbacks' \in Seq(Callback) /\ \A i \in DOMAIN callbacks' : callbacks'[i].id < nextId
      /\ PrivateFits(T, commands, live, ephemeral, callbacks', stored)
      /\ unborn = {} => DimsFit(T, commands, live, callbacks')
  <2>1. /\ callbacks \in Seq(Callback) /\ \A i \in DOMAIN callbacks : callbacks[i].id < nextId
        /\ PrivateFits(T, commands, live, ephemeral, callbacks, stored)
        /\ unborn = {} => DimsFit(T, commands, live, callbacks)
    BY DEF ChromeInv
  <2> HIDE DEF T
  <2>2. CASE callbacks' = callbacks
    BY <2>1, <2>2
  <2>3. CASE callbacks # <<>> /\ Head(callbacks).what = "open" /\ callbacks' = Tail(callbacks)
    <3>1. Head(callbacks).what \notin {"loading", "suspended"}
      BY <2>3
    <3> QED
      BY <1>1, <2>1, <2>3, <3>1, OpenTaken
  <2> QED
    BY <2>2, <2>3
<1>8. PrivateFits(T2, commands', live', ephemeral', callbacks', stored')
  <2>1. \A x \in stored : x < nextId
    BY DEF ChromeInv
  <2> HIDE DEF T, T2
  <2> QED
    BY <1>1, <1>2, <1>3, <1>4, <1>7, <2>1, SentPrivate DEF T, T2
<1>9. ASSUME unborn = {} PROVE DimsFit(T2, commands', live', callbacks') /\ PointerFits(activeId', commands', active')
  <2>1. DimsFit(T, commands, live, callbacks') /\ PointerFits(activeId, commands, active)
    BY <1>7, <1>9 DEF ChromeInv
  <2>2. DimsFit(T2, commands', live', callbacks')
    BY <1>1, <1>2, <1>3, <1>4, <2>1, SentDims
  <2>3. PointerFits(activeId', commands', active')
    BY <1>3, <1>4, <2>1, SentPointer
  <2> QED
    BY <2>2, <2>3
<1>10. \A x \in stored : x < nextId'
  BY <1>2, <1>4 DEF ChromeInv, TabIds
<1>11. \A i \in DOMAIN callbacks' : callbacks'[i].id < nextId'
  <2> TAKE i \in DOMAIN callbacks'
  <2>1. callbacks'[i] \in Callback
    BY <1>7
  <2>2. callbacks'[i].id \in 0..MaxTabs /\ callbacks'[i].id < nextId
    BY <1>7, <2>1 DEF Callback
  <2> QED
    BY <1>2, <2>2
<1> QED
  BY <1>3, <1>4, <1>5, <1>6, <1>7, <1>8, <1>9, <1>10, <1>11 DEF ChromeInv

(* The order of use: an id that is touched comes first, one that is closed  *)
(* is forgotten.                                                            *)
LEMMA Forgotten ==
    ASSUME mru \in Seq(TabIds), IsInjective(mru), NEW id
    PROVE  /\ Without(id) \in Seq(TabIds) /\ IsInjective(Without(id))
           /\ Range(Without(id)) = Range(mru) \ {id}
<1>1. CASE id \notin Range(mru)
  BY <1>1 DEF Without
<1>2. CASE id \in Range(mru)
  <2> DEFINE k == CHOOSE i \in DOMAIN mru : mru[i] = id
  <2>1. k \in 1..Len(mru) /\ mru[k] = id
    <3>1. \E i \in DOMAIN mru : mru[i] = id
      BY <1>2 DEF Range
    <3>2. k \in DOMAIN mru /\ mru[k] = id
      BY <3>1
    <3> QED
      BY <3>2
  <2>2. Without(id) = RemoveAt(mru, k)
    BY <1>2 DEF Without
  <2> HIDE DEF k
  <2>3. /\ RemoveAt(mru, k) \in Seq(TabIds) /\ IsInjective(RemoveAt(mru, k)) /\ id \notin Range(RemoveAt(mru, k))
        /\ Range(RemoveAt(mru, k)) \subseteq Range(mru)
        /\ Range(mru) \subseteq Range(RemoveAt(mru, k)) \cup {id}
    BY <2>1, RemoveAtRange
  <2> QED
    BY <2>2, <2>3
<1> QED
  BY <1>1, <1>2

\* An entry put in front of a list that does not hold it.
LEMMA InFront ==
    ASSUME NEW K, NEW s \in Seq(K), NEW e \in K, IsInjective(s), e \notin Range(s)
    PROVE  /\ <<e>> \o s \in Seq(K) /\ IsInjective(<<e>> \o s)
           /\ Range(<<e>> \o s) = Range(s) \cup {e}
           /\ 1 \in DOMAIN (<<e>> \o s) /\ (<<e>> \o s)[1] = e
<1> DEFINE t == <<e>> \o s
<1>1. <<e>> \in Seq(K) /\ DOMAIN <<e>> = {1} /\ <<e>>[1] = e /\ Len(<<e>>) = 1
  OBVIOUS
<1>2. /\ t \in Seq(K) /\ 1 \in DOMAIN t /\ t[1] = e
      /\ \A j \in DOMAIN s : 1 + j \in DOMAIN t /\ t[1 + j] = s[j]
      /\ \A i \in DOMAIN t : i = 1 \/ \E j \in DOMAIN s : i = 1 + j
      /\ DOMAIN s \subseteq Nat \ {0}
  <2> DEFINE f == <<e>>
  <2>1. f \in Seq(K) /\ DOMAIN f = {1} /\ f[1] = e /\ Len(f) = 1 /\ t = f \o s
    BY <1>1
  <2> HIDE DEF f, t
  <2>2. /\ f \o s \in Seq(K)
        /\ \A i \in DOMAIN f : i \in DOMAIN (f \o s) /\ (f \o s)[i] = f[i]
        /\ \A j \in DOMAIN s : Len(f) + j \in DOMAIN (f \o s) /\ (f \o s)[Len(f) + j] = s[j]
        /\ \A i \in DOMAIN (f \o s) : i \in DOMAIN f \/ \E j \in DOMAIN s : i = Len(f) + j
        /\ DOMAIN s \subseteq Nat \ {0}
    <3>1. f \in Seq(K)
      BY <2>1
    <3> QED
      BY ONLY <3>1, s \in Seq(K), Behind
  <2> QED
    BY <2>1, <2>2
<1> HIDE DEF t
<1>3. Range(t) = Range(s) \cup {e}
  BY <1>2 DEF Range
<1>4. ASSUME NEW i \in DOMAIN t, NEW j \in DOMAIN t, t[i] = t[j] PROVE i = j
  <2>1. \A k \in DOMAIN s : t[1 + k] # e
    BY <1>2 DEF Range
  <2>2. \A k, l \in DOMAIN s : s[k] = s[l] => k = l
    BY DEF IsInjective
  <2> QED
    BY <1>2, <1>4, <2>1, <2>2
<1> QED
  BY <1>2, <1>3, <1>4 DEF IsInjective, t

\* A touched tab is the first of the recently used ones, and stands there once.
LEMMA TouchedFirst ==
    ASSUME mru \in Seq(TabIds), IsInjective(mru), NEW id \in TabIds
    PROVE  /\ Touched(id) \in Seq(TabIds) /\ IsInjective(Touched(id))
           /\ Range(Touched(id)) = Range(mru) \cup {id}
           /\ 1 \in DOMAIN Touched(id) /\ Touched(id)[1] = id
<1>1. /\ Without(id) \in Seq(TabIds) /\ IsInjective(Without(id))
      /\ Range(Without(id)) = Range(mru) \ {id}
  BY Forgotten
<1>2. id \notin Range(Without(id))
  BY <1>1
<1> QED
  BY <1>1, <1>2, InFront DEF Touched

(* The callbacks of an eviction: one for each tab that goes, and no other.  *)
LEMMA BackFits ==
    ASSUME NEW x \in TabIds
    PROVE  /\ Back("suspended", x, "") \in Callback
           /\ Back("suspended", x, "").what = "suspended" /\ Back("suspended", x, "").id = x
<1>1. x \in 0..MaxTabs
  BY ChromeBounds DEF TabIds
<1> QED
  BY <1>1 DEF Back, Callback, Urls

\* The places in turn are a list of them, with each of them in it.
LEMMA InTurnFits ==
    ASSUME NEW K, NEW order \in Seq(K), NEW out \in SUBSET DOMAIN order, NEW at \in InTurn(out)
    PROVE  /\ Cardinality(out) \in Nat /\ DOMAIN at = 1..Cardinality(out)
           /\ \A k \in DOMAIN at : at[k] \in out
           /\ \A i \in out : \E k \in DOMAIN at : at[k] = i
<1>1. Cardinality(out) \in Nat
  <2>1. DOMAIN order = 1..Len(order) /\ Len(order) \in Nat
    OBVIOUS
  <2>2. IsFiniteSet(1..Len(order))
    BY <2>1, FS_Interval
  <2>3. IsFiniteSet(out)
    BY <2>1, <2>2, FS_Subset
  <2> QED
    BY <2>3, FS_CardinalityType
<1>2. at \in [1..Cardinality(out) -> out] /\ Range(at) = out
  BY DEF InTurn
<1> QED
  BY <1>1, <1>2 DEF Range

\* The suspensions announced are callbacks, one for each webview that was evicted.
LEMMA Announced ==
    ASSUME NEW order \in Seq(TabIds), NEW out \in SUBSET DOMAIN order, NEW at \in InTurn(out),
           NEW tell \in [DOMAIN at -> Callback],
           \A k \in DOMAIN at : tell[k] = Back("suspended", order[at[k]], "")
    PROVE  /\ tell \in Seq(Callback)
           /\ \A k \in DOMAIN tell : tell[k].what = "suspended" /\ tell[k].id \in {order[i] : i \in out}
           /\ \A x \in {order[i] : i \in out} : \E k \in DOMAIN tell : tell[k].what = "suspended" /\ tell[k].id = x
<1> DEFINE n == Cardinality(out)
<1>1. /\ n \in Nat /\ DOMAIN at = 1..n
      /\ \A k \in DOMAIN at : at[k] \in out
      /\ \A i \in out : \E k \in DOMAIN at : at[k] = i
  BY InTurnFits
<1> HIDE DEF n
<1>2. \A i \in out : order[i] \in TabIds
  BY ONLY order \in Seq(TabIds), out \in SUBSET DOMAIN order
<1>3. DOMAIN tell = 1..n
  BY <1>1
<1>4. ASSUME NEW k \in 1..n PROVE at[k] \in out /\ tell[k].what = "suspended" /\ tell[k].id = order[at[k]]
  <2>1. at[k] \in out /\ order[at[k]] \in TabIds /\ tell[k] = Back("suspended", order[at[k]], "")
    BY <1>1, <1>2, Zenon
  <2> QED
    BY ONLY <2>1, BackFits
<1>5. tell \in Seq(Callback)
  BY ONLY <1>1, tell \in [DOMAIN at -> Callback]
<1>6. ASSUME NEW i \in out PROVE \E k \in DOMAIN tell : tell[k].what = "suspended" /\ tell[k].id = order[i]
  <2>1. PICK k \in DOMAIN at : at[k] = i
    BY ONLY <1>1, i \in out
  <2>2. k \in 1..n
    BY ONLY <1>1, <2>1
  <2>3. tell[k].what = "suspended" /\ tell[k].id = order[at[k]]
    BY <1>4, <2>2, Zenon
  <2> QED
    BY ONLY <1>3, <2>1, <2>2, <2>3
<1>7. \A k \in DOMAIN tell : tell[k].what = "suspended" /\ tell[k].id \in {order[i] : i \in out}
  BY <1>3, <1>4
<1> QED
  BY <1>5, <1>6, <1>7, ZenonT(40)

(* A webview is made or shown, and others go for it.                        *)
LEMMA ShowKeeps ==
    ASSUME ChromeInv, commands # <<>>, commands' = Tail(commands), Shows(Head(commands)),
           NEW alive, NEW private \in SUBSET TabIds, NEW began \in Seq(Callback),
           ShowTab(Head(commands).id, alive, private, began),
           live \subseteq alive, alive \subseteq live \cup {Head(commands).id}, live = {} => alive = {},
           ephemeral \subseteq private,
           Head(commands).what = "new" =>
              Head(commands).id \in alive /\ (Head(commands).private => Head(commands).id \in private),
           \A i \in DOMAIN began : began[i].what = "loading" /\ began[i].id = Head(commands).id,
           began # <<>> => Head(commands).id \in alive,
           Head(commands).what = "new" \/ alive # live => began # <<>>,
           UNCHANGED <<tabs, activeId, nextId, saveTimer, deepLinked, reply, stored, unborn>>
    PROVE  ChromeInv'
<1> DEFINE c == Head(commands)
           id == c.id
           T == Range(tabs)
           order == Touched(id)
           out == Evictions(order, alive, id, private)
           gone == {order[i] : i \in out}
<1>1. /\ c \in Command /\ id \in TabIds /\ id < nextId /\ 1 \in DOMAIN commands /\ commands[1] = c
      /\ commands' \in Seq(Command) /\ c \in Range(commands)
  <2>1. commands \in Seq(Command)
    BY DEF ChromeInv
  <2>2. 1 \in DOMAIN commands /\ commands[1] = c /\ c \in Command /\ Tail(commands) \in Seq(Command)
    BY <2>1, Rest
  <2> QED
    BY <2>2 DEF Command, ChromeInv, CommandsFit, Range
<1>2. /\ order \in Seq(TabIds) /\ IsInjective(order) /\ Range(order) = Range(mru) \cup {id}
  BY <1>1, TouchedFirst DEF ChromeInv
<1>3. /\ active' = id /\ mru' = order /\ ephemeral' = private /\ live' = alive \ gone
      /\ \E at \in InTurn(out) :
            callbacks' = callbacks \o (began \o [k \in DOMAIN at |-> Back("suspended", order[at[k]], "")])
  BY DEF ShowTab
<1>4. out \in SUBSET DOMAIN order
  BY DEF Evictions, Older
<1>5. gone \subseteq alive /\ id \notin gone /\ \A x \in gone : x \notin private
  BY DEF Evictions, Older
<1> HIDE DEF out, order
<1>6. PICK tell \in Seq(Callback) :
         /\ callbacks' = callbacks \o (began \o tell)
         /\ \A k \in DOMAIN tell : tell[k].what = "suspended" /\ tell[k].id \in gone
         /\ \A x \in gone : \E k \in DOMAIN tell : tell[k].what = "suspended" /\ tell[k].id = x
  <2>1. PICK at \in InTurn(out) :
            callbacks' = callbacks \o (began \o [k \in DOMAIN at |-> Back("suspended", order[at[k]], "")])
    BY <1>3
  <2> DEFINE tell == [k \in DOMAIN at |-> Back("suspended", order[at[k]], "")]
  <2>2. callbacks' = callbacks \o (began \o tell)
    BY <2>1
  <2>3. /\ tell \in [DOMAIN at -> Callback]
        /\ \A k \in DOMAIN at : tell[k] = Back("suspended", order[at[k]], "")
    <3>1. \A k \in DOMAIN at : at[k] \in out
      BY <1>2, <1>4, InTurnFits
    <3>2. \A i \in DOMAIN order : order[i] \in TabIds
      BY <1>2
    <3>3. \A k \in DOMAIN at : Back("suspended", order[at[k]], "") \in Callback
      BY <1>4, <3>1, <3>2, BackFits
    <3> QED
      BY <3>3
  <2> HIDE DEF tell
  <2>4. /\ tell \in Seq(Callback)
        /\ \A k \in DOMAIN tell : tell[k].what = "suspended" /\ tell[k].id \in gone
        /\ \A x \in gone : \E k \in DOMAIN tell : tell[k].what = "suspended" /\ tell[k].id = x
    <3>1. order \in Seq(TabIds) /\ out \in SUBSET DOMAIN order /\ at \in InTurn(out)
      BY <1>2, <1>4, <2>1
    <3> QED
      BY ONLY <2>3, <3>1, Announced, Zenon
  <2> QED
    BY <2>2, <2>4
<1> DEFINE e == began \o tell
<1>7. /\ e \in Seq(Callback) /\ callbacks' = callbacks \o e
      /\ \A i \in DOMAIN e : \/ (e[i].what = "loading" /\ e[i].id = id /\ began # <<>>)
                            \/ (e[i].what = "suspended" /\ e[i].id \in gone)
      /\ \A x \in gone : \E i \in DOMAIN e : e[i].what = "suspended" /\ e[i].id = x
      /\ began # <<>> => \E i \in DOMAIN e : e[i].what = "loading" /\ e[i].id = id
  <2>1. /\ e \in Seq(Callback)
        /\ \A i \in DOMAIN began : i \in DOMAIN e /\ e[i] = began[i]
        /\ \A j \in DOMAIN tell : Len(began) + j \in DOMAIN e /\ e[Len(began) + j] = tell[j]
        /\ \A i \in DOMAIN e : i \in DOMAIN began \/ \E j \in DOMAIN tell : i = Len(began) + j
    BY Behind
  <2>2. \A i \in DOMAIN began : began # <<>>
    OBVIOUS
  <2>3. began # <<>> => 1 \in DOMAIN began
    BY Rest
  <2> HIDE DEF e, gone
  <2>4. \A i \in DOMAIN e : \/ (e[i].what = "loading" /\ e[i].id = id /\ began # <<>>)
                          \/ (e[i].what = "suspended" /\ e[i].id \in gone)
    BY <1>6, <2>1, <2>2, SMTT(30)
  <2>5. ASSUME NEW x \in gone PROVE \E i \in DOMAIN e : e[i].what = "suspended" /\ e[i].id = x
    <3>1. PICK k \in DOMAIN tell : tell[k].what = "suspended" /\ tell[k].id = x
      BY <1>6
    <3>2. Len(began) + k \in DOMAIN e /\ e[Len(began) + k] = tell[k]
      BY <2>1
    <3> QED
      BY <3>1, <3>2
  <2>6. began # <<>> => \E i \in DOMAIN e : e[i].what = "loading" /\ e[i].id = id
    BY <2>1, <2>3
  <2>7. callbacks' = callbacks \o e
    BY <1>6 DEF e
  <2> QED
    BY <2>1, <2>4, <2>5, <2>6, <2>7
<1> HIDE DEF e, gone, c
<1>8. T \in SUBSET Tab /\ live \in SUBSET TabIds /\ live' \in SUBSET TabIds /\ callbacks \in Seq(Callback)
      /\ commands \in Seq(Command) /\ nextId \in Nat
  <2>1. T \in SUBSET Tab /\ nextId \in Nat
    BY ChromeBounds DEF ChromeInv, IsStrip, Range
  <2> QED
    BY <1>1, <1>3, <2>1 DEF ChromeInv, c
<1>9. CommandsFit(T, nextId, commands', live')
  <2>1. Shows(c) /\ c.what # "close"
    BY DEF Shows, c
  <2>2. live' \subseteq live \cup {c.id}
    BY <1>3 DEF c
  <2>3. CommandsFit(T, nextId, commands, live)
    BY DEF ChromeInv
  <2> HIDE DEF T
  <2> QED
    BY <1>8, <2>1, <2>2, <2>3, TakenFits DEF c
<1>10. PrivateFits(T, commands', live', ephemeral', callbacks', stored)
  <2> SUFFICES ASSUME NEW t \in T, t.ephemeral
               PROVE  /\ t.id \in private \/ live' = {} \/ Makes(commands', t.id)
                      /\ ~t.suspended /\ t.id \notin stored
                      /\ \A i \in DOMAIN callbacks' : ~Tells(callbacks'[i], t, "suspended")
    BY <1>3 DEF PrivateFits
  <2>1. /\ t.id \in ephemeral \/ live = {} \/ Makes(commands, t.id)
        /\ ~t.suspended /\ t.id \notin stored
        /\ \A i \in DOMAIN callbacks : ~Tells(callbacks[i], t, "suspended")
    BY DEF ChromeInv, PrivateFits
  <2>2. Makes(commands, t.id) => Makes(commands', t.id) \/ (c.what = "new" /\ c.id = t.id)
    BY <1>8, MakesLater DEF c
  <2>3. ASSUME c.what = "new", c.id = t.id PROVE t.id \in private
    <3>1. t.ephemeral = c.private
      BY <1>1, <2>3 DEF ChromeInv, CommandsFit
    <3> QED
      BY <2>3, <3>1 DEF c
  <2>4. t.id \notin gone
    <3> SUFFICES ASSUME t.id \in gone PROVE FALSE
      OBVIOUS
    <3>1. t.id \in live /\ t.id \notin private
      BY <1>5 DEF c
    <3>2. PICK i \in DOMAIN commands : commands[i].what = "new" /\ commands[i].id = t.id
      BY <2>1, <3>1 DEF Makes
    <3> QED
      BY <3>1, <3>2 DEF ChromeInv, CommandsFit
  <2>5. ASSUME NEW i \in DOMAIN callbacks' PROVE ~Tells(callbacks'[i], t, "suspended")
    <3>1. i \in DOMAIN callbacks \/ \E j \in DOMAIN e : i = Len(callbacks) + j
      BY <1>7, <1>8, <2>5, Behind
    <3>2. CASE i \in DOMAIN callbacks
      <4>1. callbacks'[i] = callbacks[i]
        BY <1>7, <1>8, <3>2, Behind
      <4> QED
        BY <2>1, <3>2, <4>1
    <3>3. ASSUME NEW j \in DOMAIN e, i = Len(callbacks) + j PROVE ~Tells(callbacks'[i], t, "suspended")
      <4>1. callbacks'[i] = e[j]
        BY <1>7, <1>8, <3>3, Behind
      <4>2. ~Tells(e[j], t, "suspended")
        BY <1>7, <2>4 DEF Tells
      <4> QED
        BY <4>1, <4>2
    <3> QED
      BY <3>1, <3>2, <3>3
  <2>6. live = {} => live' = {}
    BY <1>3
  <2> QED
    BY <2>1, <2>2, <2>3, <2>5, <2>6
<1>11. ASSUME unborn = {} PROVE DimsFit(T, commands', live', callbacks')
  <2> SUFFICES ASSUME NEW t \in T
               PROVE  \/ Makes(commands', t.id)
                      \/ (t.id \in live' /\ EndsLit(t, callbacks'))
                      \/ (t.id \notin live' /\ EndsDim(t, callbacks'))
    BY DEF DimsFit
  <2>1. \/ Makes(commands, t.id)
        \/ (t.id \in live /\ EndsLit(t, callbacks))
        \/ (t.id \notin live /\ EndsDim(t, callbacks))
    BY <1>11 DEF ChromeInv, DimsFit
  <2>2. CASE Makes(commands', t.id)
    BY <2>2
  <2>3. CASE t.id \in gone
    <3>1. t.id \notin live'
      BY <1>3, <2>3
    <3>2. PICK i \in DOMAIN e : Tells(e[i], t, "suspended")
      BY <1>7, <2>3 DEF Tells
    <3>3. \A j \in DOMAIN e : ~Tells(e[j], t, "loading")
      BY <1>5, <1>7, <2>3 DEF Tells, c
    <3>4. EndsDim(t, callbacks')
      BY <1>7, <1>8, <3>2, <3>3, EndsSet DEF EndsDim
    <3> QED
      BY <3>1, <3>4
  <2>4. CASE t.id \notin gone /\ t.id = id /\ began # <<>>
    <3>1. t.id \in live'
      BY <1>3, <2>4 DEF c
    <3>2. PICK i \in DOMAIN e : Tells(e[i], t, "loading")
      BY <1>7, <2>4 DEF Tells
    <3>3. \A j \in DOMAIN e : ~Tells(e[j], t, "suspended")
      BY <1>7, <2>4 DEF Tells
    <3>4. EndsLit(t, callbacks')
      BY <1>7, <1>8, <3>2, <3>3, EndsSet DEF EndsLit
    <3> QED
      BY <3>1, <3>4
  <2>5. CASE ~Makes(commands', t.id) /\ t.id \notin gone /\ ~(t.id = id /\ began # <<>>)
    <3>1. ~Makes(commands, t.id)
      <4>1. Makes(commands, t.id) => Makes(commands', t.id) \/ (c.what = "new" /\ c.id = t.id)
        BY <1>8, MakesLater DEF c
      <4> QED
        BY <2>5, <4>1 DEF c
    <3>2. t.id \in live' <=> t.id \in live
      BY <1>3, <2>5 DEF c
    <3>3. \A j \in DOMAIN e : ~Tells(e[j], t, "suspended") /\ ~Tells(e[j], t, "loading")
      BY <1>7, <2>5 DEF Tells
    <3>4. EndsLit(t, callbacks) => EndsLit(t, callbacks')
      BY <1>7, <1>8, <3>3, EndsKept DEF EndsLit
    <3>5. EndsDim(t, callbacks) => EndsDim(t, callbacks')
      BY <1>7, <1>8, <3>3, EndsKept DEF EndsDim
    <3> QED
      BY <2>1, <3>1, <3>2, <3>4, <3>5
  <2> QED
    BY <2>2, <2>3, <2>4, <2>5
<1>12. ASSUME unborn = {} PROVE PointerFits(activeId, commands', active')
  <2>1. PointerFits(activeId, commands, active)
    BY <1>12 DEF ChromeInv
  <2> QED
    BY <1>3, <1>8, <2>1, TakenPointer DEF c
<1>13. callbacks' \in Seq(Callback) /\ \A i \in DOMAIN callbacks' : callbacks'[i].id < nextId
  <2>1. \A i \in DOMAIN e : e[i].id < nextId
    <3>1. \A x \in gone : x < nextId
      <4>1. \A x \in live : x < nextId
        BY DEF ChromeInv, CommandsFit
      <4> QED
        BY <1>1, <1>5, <4>1 DEF c
    <3> QED
      BY <1>1, <1>7, <3>1 DEF c
  <2>2. \A i \in DOMAIN callbacks : callbacks[i].id < nextId
    BY DEF ChromeInv
  <2>3. /\ callbacks \o e \in Seq(Callback)
        /\ \A i \in DOMAIN callbacks : (callbacks \o e)[i] = callbacks[i]
        /\ \A j \in DOMAIN e : (callbacks \o e)[Len(callbacks) + j] = e[j]
        /\ \A i \in DOMAIN (callbacks \o e) : i \in DOMAIN callbacks \/ \E j \in DOMAIN e : i = Len(callbacks) + j
    <3>1. e \in Seq(Callback) /\ callbacks \in Seq(Callback)
      BY <1>7, <1>8
    <3> QED
      BY ONLY <3>1, Behind, SMTT(30)
  <2>4. \A i \in DOMAIN (callbacks \o e) : (callbacks \o e)[i].id < nextId
    BY <2>1, <2>2, <2>3
  <2> QED
    BY <1>7, <2>3, <2>4
<1>14. active' \in 0..MaxTabs /\ live' \subseteq Range(mru')
  <2>1. id \in 0..MaxTabs
    BY <1>1, ChromeBounds DEF TabIds, c
  <2> QED
    BY <1>2, <1>3, <2>1 DEF ChromeInv, c
<1> QED
  BY <1>1, <1>2, <1>3, <1>8, <1>9, <1>10, <1>11, <1>12, <1>13, <1>14 DEF ChromeInv

(* One command.                                                             *)
LEMMA Alone ==
    ASSUME NEW K, NEW d \in K
    PROVE  <<d>> \in Seq(K) /\ DOMAIN <<d>> = {1} /\ <<d>>[1] = d
OBVIOUS

(* A tab that is added at the end of a strip.                               *)
LEMMA Added ==
    ASSUME NEW s, IsStrip(s), NEW n \in TabIds, \A t \in Range(s) : t.id < n,
           NEW u \in Tab, u.id = n
    PROVE  /\ IsStrip(Append(s, u)) /\ Range(Append(s, u)) = Range(s) \cup {u}
           /\ \A t \in Range(Append(s, u)) : t.id < n + 1
<1>1. s \in Seq(Tab) /\ IsInjective(s) /\ \A t, v \in Range(s) : t.id = v.id => t = v
  BY DEF IsStrip
<1>2. n \in Nat
  BY DEF TabIds
<1>3. \A t \in Range(s) : t.id \in Nat /\ t.id # n /\ t.id < n + 1
  <2>1. \A t \in Range(s) : t \in Tab
    BY <1>1 DEF Range
  <2>2. \A t \in Range(s) : t.id \in Nat
    BY <2>1 DEF Tab, TabIds
  <2> QED
    BY <1>2, <2>2
<1>4. u \notin Range(s)
  BY <1>3
<1>5. Append(s, u) \in Seq(Tab)
  BY <1>1
<1>6. IsInjective(Append(s, u))
  BY <1>1, <1>4, AppendKeepsApart
<1>7. Range(Append(s, u)) = Range(s) \cup {u}
  BY <1>1, AppendRange
<1>8. \A t, v \in Range(s) \cup {u} : t.id = v.id => t = v
  BY <1>1, <1>3
<1>9. n < n + 1
  BY <1>2
<1> QED
  BY <1>3, <1>5, <1>6, <1>7, <1>8, <1>9 DEF IsStrip

\* Opening a tab sends the command that makes it.
LEMMA SendsNew ==
    ASSUME NEW T \in SUBSET Tab, NEW n \in Nat, \A t \in T : t.id < n,
           NEW u \in Tab, u.id = n, ~u.suspended,
           NEW D, DOMAIN D = {1}, D[1].what = "new", D[1].id = n, D[1].private = u.ephemeral
    PROVE  Sent(T, n, T \cup {u}, n + 1, D)
<1>1. \A t \in T : t.id # n
  <2>1. \A t \in T : t.id \in Nat
    BY DEF Tab, TabIds
  <2> QED
    BY <2>1
<1>2. n < n + 1 /\ n <= n + 1 /\ n <= n
  OBVIOUS
<1>3. Makes(D, n)
  BY DEF Makes
<1>4. \A t \in T \cup {u} : \/ \E v \in T : v.id = t.id /\ v.ephemeral = t.ephemeral /\ v.suspended = t.suspended
                            \/ n <= t.id /\ ~t.suspended /\ Makes(D, t.id)
  BY <1>2, <1>3
<1>5. \A v \in T : v.id \in Ids(T \cup {u})
  BY DEF Ids
<1>6. n \in Ids(T \cup {u})
  BY DEF Ids
<1>7. \A t \in T \cup {u} : t.id = n => t.ephemeral = D[1].private
  BY <1>1
<1>8. \A j \in DOMAIN D : j = 1
  OBVIOUS
<1>9. \A j \in DOMAIN D :
          /\ D[j].id < n + 1
          /\ D[j].what = "close" => D[j].id \notin Ids(T \cup {u}) /\ D[j].id < n
          /\ Shows(D[j]) => D[j].id \in Ids(T \cup {u})
          /\ D[j].what = "new" =>
                /\ n <= D[j].id
                /\ \A k \in DOMAIN D : D[k].id = D[j].id => j <= k
                /\ \A t \in T \cup {u} : t.id = D[j].id => t.ephemeral = D[j].private
  BY <1>2, <1>6, <1>7, <1>8
<1> QED
  BY <1>2, <1>4, <1>5, <1>9 DEF Sent

(* What is known of the strip.                                              *)
LEMMA StripIs ==
    ASSUME ChromeInv
    PROVE  /\ tabs \in Seq(Tab) /\ IsInjective(tabs) /\ Range(tabs) \in SUBSET Tab
           /\ nextId \in Nat /\ nextId \in 2..(MaxTabs + 1)
           /\ \A t \in Range(tabs) : t.id < nextId /\ t.id \in TabIds /\ t.url \in Urls
           /\ \A t, u \in Range(tabs) : t.id = u.id => t = u
           /\ IdsOf(tabs) = Ids(Range(tabs)) /\ activeId \in Ids(Range(tabs))
<1>1. tabs \in Seq(Tab) /\ IsInjective(tabs) /\ \A t, u \in Range(tabs) : t.id = u.id => t = u
  BY DEF ChromeInv, IsStrip
<1>2. Range(tabs) \in SUBSET Tab
  BY <1>1 DEF Range
<1>3. nextId \in Nat
  BY ChromeBounds DEF ChromeInv
<1>4. \A t \in Range(tabs) : t.id < nextId /\ t.id \in TabIds /\ t.url \in Urls
  <2>1. \A t \in Range(tabs) : t.id < nextId
    BY DEF ChromeInv
  <2> QED
    BY <1>2, <2>1 DEF Tab
<1>5. IdsOf(tabs) = Ids(Range(tabs))
  BY DEF IdsOf, Ids, Range
<1> QED
  BY <1>1, <1>2, <1>3, <1>4, <1>5 DEF ChromeInv

(* A new tab, opened in the strip or asked for by a page.                   *)
LEMMA NewTabKeeps ==
    ASSUME ChromeInv, NEW url, NEW page \in Urls, NEW private \in BOOLEAN, url \in Urls,
           NewTabAt(tabs, page, url, private), Invokes(<<NewTabCmd(page, private)>>),
           UNCHANGED <<deepLinked, reply, stored, nativeTabVars, unborn>>,
           \/ callbacks' = callbacks
           \/ callbacks # <<>> /\ Head(callbacks).what = "open" /\ callbacks' = Tail(callbacks)
    PROVE  ChromeInv'
<1> DEFINE d == NewTabCmd(page, private)
           u == Fresh(nextId, url, private)
           D == <<d>>
<1>1. nextId \in TabIds /\ nextId + 1 \in 2..(MaxTabs + 1)
  BY StripIs, ChromeBounds DEF NewTabAt, TabIds
<1>2. d \in Command /\ d.what = "new" /\ d.id = nextId /\ d.private = private
  BY <1>1 DEF NewTabCmd, Cmd, Command
<1>3. u \in Tab /\ u.id = nextId /\ u.ephemeral = private /\ ~u.suspended
  BY <1>1 DEF Fresh, Tab
<1>4. tabs' = Append(tabs, u) /\ activeId' = nextId /\ nextId' = nextId + 1 /\ saveTimer' = TRUE
      /\ commands' = commands \o D
  BY DEF NewTabAt, Invokes
<1> HIDE DEF d, u
<1>5. D \in Seq(Command) /\ DOMAIN D = {1} /\ D[1] = d
  BY <1>2, Alone
<1> HIDE DEF D
<1>6. IsStrip(tabs') /\ Range(tabs') = Range(tabs) \cup {u} /\ \A t \in Range(tabs') : t.id < nextId'
  BY <1>1, <1>3, <1>4, StripIs, Added DEF ChromeInv
<1>7. Sent(Range(tabs), nextId, Range(tabs'), nextId', D)
  <2>1. Range(tabs) \in SUBSET Tab /\ nextId \in Nat /\ \A t \in Range(tabs) : t.id < nextId
    BY StripIs
  <2>2. /\ DOMAIN D = {1} /\ D[1].what = "new" /\ D[1].id = nextId /\ D[1].private = u.ephemeral
        /\ u \in Tab /\ u.id = nextId /\ ~u.suspended
    BY <1>2, <1>3, <1>5
  <2>3. Sent(Range(tabs), nextId, Range(tabs) \cup {u}, nextId + 1, D)
    BY ONLY <2>1, <2>2, SendsNew
  <2> QED
    BY <1>4, <1>6, <2>3
<1>8. activeId' \in Ids(Range(tabs'))
  BY <1>3, <1>4, <1>6 DEF Ids
<1>9. Shows(D[1]) /\ D[1].id = activeId' /\ \A k \in DOMAIN D : 1 < k => ~Shows(D[k])
  BY <1>2, <1>4, <1>5 DEF Shows
<1>10. reply' \in Sessions \cup {NoSession} /\ saveTimer' \in BOOLEAN
  BY <1>4 DEF ChromeInv
<1> QED
  BY <1>1, <1>4, <1>5, <1>6, <1>7, <1>8, <1>9, <1>10, StripKeeps

(* A strip that keeps its tabs, and tells of nothing but of one of them.    *)
LEMMA SendsOther ==
    ASSUME NEW T, NEW n \in Nat, NEW D,
           \A j \in DOMAIN D : /\ D[j].what \notin {"new", "close"} /\ D[j].id < n
                               /\ Shows(D[j]) => D[j].id \in Ids(T)
    PROVE  Sent(T, n, T, n, D)
<1>1. n <= n
  OBVIOUS
<1>2. \A v \in T : v.id \in Ids(T)
  BY DEF Ids
<1> QED
  BY <1>1, <1>2 DEF Sent

\* The tab of a number in the strip.
LEMMA TabIs ==
    ASSUME ChromeInv, NEW id \in IdsOf(tabs)
    PROVE  /\ TabOf(id) \in Range(tabs) /\ TabOf(id).id = id
           /\ IndexOf(tabs, id) \in DOMAIN tabs /\ tabs[IndexOf(tabs, id)].id = id
<1>1. \E i \in DOMAIN tabs : tabs[i].id = id
  BY DEF IdsOf
<1> DEFINE k == CHOOSE i \in DOMAIN tabs : tabs[i].id = id
<1>2. k \in DOMAIN tabs /\ tabs[k].id = id
  BY <1>1
<1>3. TabOf(id) = tabs[k] /\ IndexOf(tabs, id) = k
  BY DEF TabOf, IndexOf
<1> HIDE DEF k
<1> QED
  BY <1>2, <1>3 DEF Range

\* switchTab.
LEMMA SwitchTabKeeps ==
    ASSUME ChromeInv, NEW id, SwitchTab(id)
    PROVE  ChromeInv'
<1> DEFINE d == Cmd("switch", id, TabOf(id).url, FALSE)
           D == <<d>>
<1>1. /\ id \in IdsOf(tabs) /\ activeId' = id /\ saveTimer' = TRUE /\ commands' = commands \o D
      /\ tabs' = tabs /\ nextId' = nextId
      /\ UNCHANGED <<deepLinked, reply, stored, callbacks, nativeTabVars, unborn>>
  BY DEF SwitchTab, FromStrip, Invokes
<1>2. id \in Ids(Range(tabs)) /\ id \in TabIds /\ id < nextId /\ TabOf(id).url \in Urls
  BY <1>1, TabIs, StripIs
<1>3. d \in Command /\ d.what = "switch" /\ d.id = id
  BY <1>2 DEF Cmd, Command
<1> HIDE DEF d
<1>4. D \in Seq(Command) /\ DOMAIN D = {1} /\ D[1] = d
  BY <1>3, Alone
<1> HIDE DEF D
<1>5. Sent(Range(tabs), nextId, Range(tabs), nextId, D)
  BY <1>2, <1>3, <1>4, StripIs, SendsOther
<1>6. Shows(D[1]) /\ D[1].id = activeId' /\ \A k \in DOMAIN D : 1 < k => ~Shows(D[k])
  BY <1>1, <1>3, <1>4 DEF Shows
<1>7. /\ IsStrip(tabs') /\ activeId' \in Ids(Range(tabs')) /\ nextId' \in 2..(MaxTabs + 1)
      /\ \A t \in Range(tabs') : t.id < nextId'
      /\ reply' \in Sessions \cup {NoSession} /\ saveTimer' \in BOOLEAN
  BY <1>1, <1>2, StripIs DEF ChromeInv
<1> QED
  BY <1>1, <1>4, <1>5, <1>6, <1>7, StripKeeps

\* Enter in the address bar.
LEMMA GoKeeps ==
    ASSUME ChromeInv, NEW url \in Pages, Go(url)
    PROVE  ChromeInv'
<1> DEFINE d == Cmd("navigate", activeId, url, FALSE)
           D == <<d>>
<1>1. /\ commands' = commands \o D
      /\ UNCHANGED <<tabs, activeId, nextId, saveTimer, deepLinked, reply, stored, callbacks, nativeTabVars, unborn>>
  BY DEF Go, FromStrip, Invokes, stripVars
<1>2. activeId \in Ids(Range(tabs)) /\ activeId \in TabIds /\ activeId < nextId
  BY StripIs DEF Ids
<1>3. d \in Command /\ d.what = "navigate" /\ d.id = activeId
  BY <1>2 DEF Cmd, Command, Urls
<1> HIDE DEF d
<1>4. D \in Seq(Command) /\ DOMAIN D = {1} /\ D[1] = d
  BY <1>3, Alone
<1> HIDE DEF D
<1>5. Sent(Range(tabs), nextId, Range(tabs), nextId, D)
  BY <1>2, <1>3, <1>4, StripIs, SendsOther
<1>6. \A j \in DOMAIN D : ~Shows(D[j])
  BY <1>3, <1>4 DEF Shows
<1>7. /\ IsStrip(tabs') /\ activeId' \in Ids(Range(tabs')) /\ nextId' \in 2..(MaxTabs + 1)
      /\ \A t \in Range(tabs') : t.id < nextId'
      /\ reply' \in Sessions \cup {NoSession} /\ saveTimer' \in BOOLEAN
  BY <1>1, <1>2, StripIs DEF ChromeInv
<1> QED
  BY <1>1, <1>4, <1>5, <1>6, <1>7, StripKeeps

\* Where nothing is sent and the strip holds the same tabs, everything fits as before.
LEMMA NothingSent ==
    ASSUME ChromeInv, UNCHANGED <<activeId, nextId, deepLinked, stored, commands, callbacks, nativeTabVars, unborn>>,
           IsStrip(tabs'), Range(tabs') = Range(tabs),
           reply' \in Sessions \cup {NoSession}, saveTimer' \in BOOLEAN
    PROVE  ChromeInv'
<1> DEFINE D == <<>>
<1>1. D \in Seq(Command) /\ commands' = commands \o D /\ DOMAIN D = {}
  BY DEF ChromeInv
<1> HIDE DEF D
<1>2. Sent(Range(tabs), nextId, Range(tabs), nextId, D)
  BY <1>1, StripIs, SendsOther
<1>3. \A j \in DOMAIN D : ~Shows(D[j])
  BY <1>1
<1>4. /\ activeId' \in Ids(Range(tabs')) /\ nextId' \in 2..(MaxTabs + 1)
      /\ \A t \in Range(tabs') : t.id < nextId'
  BY StripIs
<1>5. Sent(Range(tabs), nextId, Range(tabs'), nextId', D)
  BY <1>2
<1> QED
  BY <1>1, <1>3, <1>4, <1>5, StripKeeps

\* Dragging a tab to another place.
LEMMA DropTabKeeps ==
    ASSUME ChromeInv, DropTab
    PROVE  ChromeInv'
<1>1. PICK i \in DOMAIN tabs, j \in DOMAIN tabs : tabs' = InsertAt(RemoveAt(tabs, i), j, tabs[i])
  BY DEF DropTab
<1> DEFINE rest == RemoveAt(tabs, i)
<1>2. i \in 1..Len(tabs) /\ j \in 1..Len(tabs) /\ Len(tabs) \in Nat /\ tabs[i] \in Tab /\ tabs[i] \in Range(tabs)
  BY StripIs DEF Range
<1>3. /\ rest \in Seq(Tab) /\ Len(rest) = Len(tabs) - 1
      /\ Range(rest) \subseteq Range(tabs) /\ Range(tabs) \subseteq Range(rest) \cup {tabs[i]}
  BY <1>2, StripIs, RemoveAtRange
<1> HIDE DEF rest
<1>4. j \in 1..(Len(rest) + 1)
  BY <1>2, <1>3
<1>5. /\ tabs' \in Seq(Tab) /\ Len(tabs') = Len(rest) + 1 /\ Range(tabs') = Range(rest) \cup {tabs[i]}
  BY <1>1, <1>2, <1>3, <1>4, InsertAtRange DEF rest
<1>6. Len(tabs') = Len(tabs) /\ Range(tabs') = Range(tabs)
  BY <1>2, <1>3, <1>5
<1>7. IsInjective(tabs')
  BY <1>5, <1>6, StripIs, SameKeysApart
<1>8. IsStrip(tabs')
  BY <1>5, <1>6, <1>7, StripIs DEF IsStrip
<1>9. /\ saveTimer' = TRUE
      /\ UNCHANGED <<activeId, nextId, deepLinked, reply, stored, commands, callbacks, nativeTabVars, unborn>>
  BY DEF DropTab, FromStrip
<1>10. reply' \in Sessions \cup {NoSession} /\ saveTimer' \in BOOLEAN
  BY <1>9 DEF ChromeInv
<1> QED
  BY <1>6, <1>8, <1>9, <1>10, NothingSent

\* There is no session to restore.
LEMMA RestoreNothingKeeps ==
    ASSUME ChromeInv, RestoreNothing
    PROVE  ChromeInv'
<1>1. /\ reply' = NoSession
      /\ UNCHANGED <<tabs, activeId, nextId, saveTimer, deepLinked, stored, commands, callbacks, nativeTabVars, unborn>>
  BY DEF RestoreNothing, stripVars
<1>2. IsStrip(tabs') /\ Range(tabs') = Range(tabs) /\ saveTimer' \in BOOLEAN
  BY <1>1 DEF ChromeInv
<1> QED
  BY <1>1, <1>2, NothingSent

\* A list of two.
LEMMA Both ==
    ASSUME NEW K, NEW d \in K, NEW e \in K
    PROVE  /\ <<d, e>> \in Seq(K) /\ DOMAIN <<d, e>> = {1, 2} /\ <<d, e>>[1] = d /\ <<d, e>>[2] = e
           /\ <<d>> \o <<e>> = <<d, e>>
<1> DEFINE f == <<d>>
           g == <<e>>
           h == <<d, e>>
<1>1. /\ f \in Seq(K) /\ g \in Seq(K) /\ h \in Seq(K) /\ Len(f) = 1 /\ Len(g) = 1 /\ Len(h) = 2
      /\ f[1] = d /\ g[1] = e /\ h[1] = d /\ h[2] = e /\ DOMAIN h = {1, 2}
  OBVIOUS
<1> HIDE DEF f, g, h
<1>2. f \o g \in Seq(K) /\ Len(f \o g) = 2 /\ \A i \in 1..2 : (f \o g)[i] = IF i <= 1 THEN f[i] ELSE g[i - 1]
  BY <1>1, ConcatProperties
<1>3. (f \o g)[1] = d /\ (f \o g)[2] = e
  <2>1. 1 \in 1..2 /\ 2 \in 1..2 /\ 1 <= 1 /\ ~(2 <= 1) /\ 2 - 1 = 1
    OBVIOUS
  <2> QED
    BY <1>1, <1>2, <2>1
<1>4. \A i \in 1..2 : (f \o g)[i] = h[i]
  <2>1. \A i \in 1..2 : i = 1 \/ i = 2
    OBVIOUS
  <2> QED
    BY <1>1, <1>3, <2>1
<1>5. f \o g = h
  BY <1>1, <1>2, <1>4, SeqEqual
<1> QED
  BY <1>1, <1>5 DEF f, g, h

(* A strip that closes a tab, and may show another one.                     *)
LEMMA SendsClose ==
    ASSUME NEW T \in SUBSET Tab, NEW n \in Nat, \A t \in T : t.id < n,
           NEW x \in T, \A t \in T : t.id = x.id => t = x,
           NEW D, 1 \in DOMAIN D, D[1].what = "close", D[1].id = x.id,
           \A j \in DOMAIN D : j = 1 \/ (D[j].what = "switch" /\ D[j].id \in Ids(T \ {x}))
    PROVE  Sent(T, n, T \ {x}, n, D)
<1>1. n <= n
  OBVIOUS
<1>2. x.id \notin Ids(T \ {x})
  BY DEF Ids
<1>3. ASSUME NEW v \in T PROVE v.id \in Ids(T \ {x}) \/ ClosesAfter(D, 0, v.id)
  <2>1. CASE v = x
    BY <2>1 DEF ClosesAfter
  <2>2. CASE v # x
    BY <2>2 DEF Ids
  <2> QED
    BY <2>1, <2>2
<1>4. ASSUME NEW j \in DOMAIN D
      PROVE  /\ D[j].id < n /\ D[j].what # "new"
             /\ D[j].what = "close" => D[j].id \notin Ids(T \ {x}) /\ D[j].id < n
             /\ Shows(D[j]) => D[j].id \in Ids(T \ {x})
  <2>1. CASE j = 1
    BY <1>2, <2>1 DEF Shows
  <2>2. CASE D[j].what = "switch" /\ D[j].id \in Ids(T \ {x})
    BY <2>2 DEF Ids, Shows
  <2> QED
    BY <2>1, <2>2
<1> QED
  BY <1>1, <1>3, <1>4 DEF Sent

(* A strip that closes its last tab, and opens another one.                 *)
LEMMA SendsLast ==
    ASSUME NEW x \in Tab, NEW n \in Nat, x.id < n,
           NEW u \in Tab, u.id = n, ~u.suspended,
           NEW D, DOMAIN D = {1, 2}, D[1].what = "close", D[1].id = x.id,
           D[2].what = "new", D[2].id = n, D[2].private = u.ephemeral
    PROVE  Sent({x}, n, {u}, n + 1, D)
<1>1. x.id \in Nat
  BY DEF Tab, TabIds
<1>2. x.id # n /\ x.id < n + 1 /\ n < n + 1 /\ n <= n + 1 /\ n <= n /\ 2 <= 2 /\ 0 < 1
  BY <1>1
<1>3. Makes(D, n)
  BY DEF Makes
<1>4. \A v \in {x} : v.id \in Ids({u}) \/ ClosesAfter(D, 0, v.id)
  BY <1>2 DEF ClosesAfter
<1>5. n \in Ids({u}) /\ x.id \notin Ids({u})
  BY <1>2 DEF Ids
<1>6. \A k \in DOMAIN D : D[k].id = n => 2 <= k
  BY <1>2
<1>7. ASSUME NEW j \in DOMAIN D
      PROVE  /\ D[j].id < n + 1
             /\ D[j].what = "close" => D[j].id \notin Ids({u}) /\ D[j].id < n
             /\ Shows(D[j]) => D[j].id \in Ids({u})
             /\ D[j].what = "new" =>
                   /\ n <= D[j].id
                   /\ \A k \in DOMAIN D : D[k].id = D[j].id => j <= k
                   /\ \A t \in {u} : t.id = D[j].id => t.ephemeral = D[j].private
  <2>1. CASE j = 1
    BY <1>2, <1>5, <2>1 DEF Shows
  <2>2. CASE j = 2
    BY <1>2, <1>5, <1>6, <2>2
  <2> QED
    BY <2>1, <2>2
<1> QED
  BY <1>2, <1>3, <1>4, <1>7 DEF Sent

\* closeTab: the last tab, the active one, another one.
LEMMA CloseTabKeeps ==
    ASSUME ChromeInv, NEW id, CloseTab(id)
    PROVE  ChromeInv'
<1> DEFINE i == IndexOf(tabs, id)
           rest == RemoveAt(tabs, i)
           close == Cmd("close", id, "", FALSE)
           x == tabs[i]
           T == Range(tabs)
<1>1. /\ id \in IdsOf(tabs) /\ saveTimer' = TRUE
      /\ UNCHANGED <<deepLinked, reply, stored, callbacks, nativeTabVars, unborn>>
  BY DEF CloseTab, FromStrip
<1>2. i \in 1..Len(tabs) /\ Len(tabs) \in Nat /\ x \in T /\ x.id = id
  BY <1>1, TabIs, StripIs DEF Range
<1>3. /\ T \in SUBSET Tab /\ nextId \in Nat /\ \A t \in T : t.id < nextId
      /\ \A t \in T : t.id = x.id => t = x
  BY <1>2, StripIs
<1>4. id \in TabIds /\ id < nextId
  BY <1>2, StripIs
<1>5. /\ rest \in Seq(Tab) /\ Len(rest) = Len(tabs) - 1 /\ IsInjective(rest)
      /\ Range(rest) \subseteq T /\ T \subseteq Range(rest) \cup {x} /\ x \notin Range(rest)
  BY <1>2, StripIs, RemoveAtRange
<1>6. Range(rest) = T \ {x}
  BY <1>5
<1>7. close \in Command /\ close.what = "close" /\ close.id = id
  BY <1>4 DEF Cmd, Command, Urls
<1>8. \/ /\ rest = <<>>
         /\ NewTabAt(<<>>, HomePage, "", FALSE) /\ Invokes(<<close, NewTabCmd(HomePage, FALSE)>>)
      \/ /\ rest # <<>> /\ id = activeId
         /\ LET next == rest[IF i = 1 THEN 1 ELSE i - 1] IN
            /\ tabs' = rest /\ activeId' = next.id /\ UNCHANGED nextId
            /\ Invokes(<<close>> \o SwitchToNeighbour(next))
      \/ /\ rest # <<>> /\ id # activeId
         /\ tabs' = rest /\ UNCHANGED <<activeId, nextId>> /\ Invokes(<<close>>)
  BY DEF CloseTab
<1>9. reply' \in Sessions \cup {NoSession} /\ saveTimer' \in BOOLEAN
  BY <1>1 DEF ChromeInv
<1>10. IsStrip(rest)
  BY <1>5, StripIs DEF IsStrip
<1> HIDE DEF i, rest, close, x, T
<1>11. CASE /\ rest = <<>>
            /\ NewTabAt(<<>>, HomePage, "", FALSE) /\ Invokes(<<close, NewTabCmd(HomePage, FALSE)>>)
  <2> DEFINE d == NewTabCmd(HomePage, FALSE)
             u == Fresh(nextId, "", FALSE)
             D == <<close, d>>
  <2>1. nextId \in TabIds /\ nextId + 1 \in 2..(MaxTabs + 1)
    <3>1. nextId <= MaxTabs
      BY <1>11 DEF NewTabAt
    <3> QED
      BY <3>1, StripIs, ChromeBounds DEF TabIds
  <2>2. d \in Command /\ d.what = "new" /\ d.id = nextId /\ d.private = FALSE
    BY <2>1 DEF NewTabCmd, Cmd, Command, Urls
  <2>3. u \in Tab /\ u.id = nextId /\ u.ephemeral = FALSE /\ ~u.suspended
    BY <2>1 DEF Fresh, Tab, Urls
  <2>4. tabs' = Append(<<>>, u) /\ activeId' = nextId /\ nextId' = nextId + 1 /\ commands' = commands \o D
    BY <1>11 DEF NewTabAt, Invokes
  <2> HIDE DEF d, u
  <2>5. D \in Seq(Command) /\ DOMAIN D = {1, 2} /\ D[1] = close /\ D[2] = d
    BY <1>7, <2>2, Both
  <2> HIDE DEF D
  <2>6. IsStrip(<<>>) /\ Range(<<>>) = {}
    BY DEF IsStrip, Range, IsInjective
  <2>7. IsStrip(tabs') /\ Range(tabs') = {u} /\ \A t \in Range(tabs') : t.id < nextId'
    <3> DEFINE e == <<>>
    <3>1. IsStrip(e) /\ Range(e) = {} /\ tabs' = Append(e, u)
      BY <2>4, <2>6
    <3> HIDE DEF e
    <3>2. IsStrip(Append(e, u)) /\ Range(Append(e, u)) = Range(e) \cup {u} /\ \A t \in Range(Append(e, u)) : t.id < nextId + 1
      BY <2>1, <2>3, <3>1, Added
    <3> QED
      BY <2>4, <3>1, <3>2
  <2>8. T = {x}
    <3>1. Range(rest) = {}
      BY <1>11, <2>6
    <3> QED
      BY <1>2, <1>6, <3>1
  <2>9. Sent(T, nextId, Range(tabs'), nextId', D)
    <3>1. x \in Tab /\ x.id < nextId /\ nextId \in Nat
      BY <1>2, <1>3
    <3>2. Sent({x}, nextId, {u}, nextId + 1, D)
      BY <1>2, <1>7, <2>2, <2>3, <2>5, <3>1, SendsLast
    <3> QED
      BY <2>4, <2>7, <2>8, <3>2
  <2>10. activeId' \in Ids(Range(tabs'))
    BY <2>3, <2>4, <2>7 DEF Ids
  <2>11. Shows(D[2]) /\ D[2].id = activeId' /\ \A k \in DOMAIN D : 2 < k => ~Shows(D[k])
    BY <2>2, <2>4, <2>5 DEF Shows
  <2> QED
    BY <1>1, <1>9, <2>1, <2>4, <2>5, <2>7, <2>9, <2>10, <2>11, StripKeeps DEF T
<1>12. CASE /\ rest # <<>> /\ id = activeId
            /\ LET next == rest[IF i = 1 THEN 1 ELSE i - 1] IN
               /\ tabs' = rest /\ activeId' = next.id /\ UNCHANGED nextId
               /\ Invokes(<<close>> \o SwitchToNeighbour(next))
  <2> DEFINE k == IF i = 1 THEN 1 ELSE i - 1
             next == rest[k]
             d == Cmd("switch", next.id, next.url, FALSE)
             D == <<close, d>>
  <2>1. k \in 1..Len(rest)
    <3>1. rest # <<>>
      BY <1>12
    <3>2. Len(rest) # 0
      BY <1>5, <3>1, EmptySeq
    <3> QED
      BY <1>2, <1>5, <3>2
  <2>2. next \in Range(rest)
    BY <1>5, <2>1 DEF Range
  <2>3. next \in T \ {x} /\ next.id \in TabIds /\ next.url \in Urls
    BY <1>6, <2>2, StripIs DEF T
  <2>4. d \in Command /\ d.what = "switch" /\ d.id = next.id
    BY <2>3 DEF Cmd, Command
  <2>5. tabs' = rest /\ activeId' = next.id /\ nextId' = nextId /\ commands' = commands \o (<<close>> \o <<d>>)
    BY <1>12 DEF Invokes, SwitchToNeighbour
  <2> HIDE DEF d, k, next
  <2>6. D \in Seq(Command) /\ DOMAIN D = {1, 2} /\ D[1] = close /\ D[2] = d /\ <<close>> \o <<d>> = D
    BY <1>7, <2>4, Both
  <2> HIDE DEF D
  <2>7. next.id \in Ids(T \ {x})
    BY <2>3 DEF Ids
  <2>8. \A j \in DOMAIN D : j = 1 \/ (D[j].what = "switch" /\ D[j].id \in Ids(T \ {x}))
    BY <2>4, <2>6, <2>7
  <2>9. 1 \in DOMAIN D /\ D[1].what = "close" /\ D[1].id = x.id
    BY <1>2, <1>7, <2>6
  <2>10. Sent(T, nextId, T \ {x}, nextId, D)
    BY ONLY <1>2, <1>3, <2>8, <2>9, SendsClose
  <2>11. Shows(D[2]) /\ D[2].id = activeId' /\ \A j \in DOMAIN D : 2 < j => ~Shows(D[j])
    BY <2>4, <2>5, <2>6 DEF Shows
  <2>12. /\ IsStrip(tabs') /\ activeId' \in Ids(Range(tabs')) /\ nextId' \in 2..(MaxTabs + 1)
         /\ \A t \in Range(tabs') : t.id < nextId'
    BY <1>3, <1>6, <1>10, <2>5, <2>7, StripIs
  <2>13. Sent(T, nextId, Range(tabs'), nextId', D)
    BY <1>6, <2>5, <2>10
  <2>14. commands' = commands \o D
    BY <2>5, <2>6
  <2> QED
    BY <1>1, <1>9, <2>6, <2>11, <2>12, <2>13, <2>14, StripKeeps DEF T
<1>13. CASE /\ rest # <<>> /\ id # activeId
            /\ tabs' = rest /\ UNCHANGED <<activeId, nextId>> /\ Invokes(<<close>>)
  <2> DEFINE D == <<close>>
  <2>1. tabs' = rest /\ activeId' = activeId /\ nextId' = nextId /\ commands' = commands \o D
    BY <1>13 DEF Invokes
  <2>2. D \in Seq(Command) /\ DOMAIN D = {1} /\ D[1] = close
    BY <1>7, Alone
  <2> HIDE DEF D
  <2>3. \A j \in DOMAIN D : j = 1 \/ (D[j].what = "switch" /\ D[j].id \in Ids(T \ {x}))
    BY <2>2
  <2>4. 1 \in DOMAIN D /\ D[1].what = "close" /\ D[1].id = x.id
    BY <1>2, <1>7, <2>2
  <2>5. Sent(T, nextId, T \ {x}, nextId, D)
    BY ONLY <1>2, <1>3, <2>3, <2>4, SendsClose
  <2>6. activeId \in Ids(T \ {x})
    BY <1>2, <1>3, <1>13, StripIs DEF Ids, T
  <2>7. /\ IsStrip(tabs') /\ activeId' \in Ids(Range(tabs')) /\ nextId' \in 2..(MaxTabs + 1)
        /\ \A t \in Range(tabs') : t.id < nextId'
    BY <1>3, <1>6, <1>10, <2>1, <2>6, StripIs
  <2>8. Sent(T, nextId, Range(tabs'), nextId', D)
    BY <1>6, <2>1, <2>5
  <2>9. \A j \in DOMAIN D : ~Shows(D[j])
    BY <1>7, <2>2 DEF Shows
  <2> QED
    BY <1>1, <1>9, <2>1, <2>2, <2>7, <2>8, <2>9, StripKeeps DEF T
<1> QED
  BY <1>8, <1>11, <1>12, <1>13

\* The save that the timer starts: no private tab is in it.
LEMMA SaveTabsKeeps ==
    ASSUME ChromeInv, SaveTabs
    PROVE  ChromeInv'
<1>1. /\ saveTimer' = FALSE /\ stored' = Durable(tabs)
      /\ UNCHANGED <<tabs, activeId, nextId, deepLinked, reply, commands, callbacks, live, mru, active, ephemeral, unborn>>
  BY DEF SaveTabs, nativeTabVars
<1>2. \A x \in stored' : \E t \in Range(tabs) : t.id = x /\ ~t.ephemeral
  BY <1>1 DEF Durable, Range
<1>3. stored' \subseteq TabIds /\ \A x \in stored' : x < nextId
  BY <1>2, StripIs
<1>4. \A t \in Range(tabs) : t.ephemeral => t.id \notin stored'
  BY <1>2, StripIs
<1>5. PrivateFits(Range(tabs), commands, live, ephemeral, callbacks, stored')
  BY <1>4 DEF ChromeInv, PrivateFits
<1>6. /\ CommandsFit(Range(tabs), nextId, commands, live)
      /\ unborn = {} => /\ DimsFit(Range(tabs), commands, live, callbacks)
                        /\ PointerFits(activeId, commands, active)
  BY DEF ChromeInv
<1>7. /\ IsStrip(tabs) /\ activeId \in Ids(Range(tabs)) /\ nextId \in 2..(MaxTabs + 1)
      /\ \A t \in Range(tabs) : t.id < nextId
      /\ deepLinked \in BOOLEAN /\ reply \in Sessions \cup {NoSession}
      /\ commands \in Seq(Command) /\ callbacks \in Seq(Callback)
      /\ \A i \in DOMAIN callbacks : callbacks[i].id < nextId
      /\ live \subseteq TabIds /\ active \in 0..MaxTabs /\ ephemeral \subseteq TabIds
      /\ mru \in Seq(TabIds) /\ IsInjective(mru) /\ live \subseteq Range(mru)
  BY DEF ChromeInv
<1> QED
  BY <1>1, <1>3, <1>5, <1>6, <1>7 DEF ChromeInv

(* A callback is handled: the tab that it names changes as it says.         *)
Handled(c, t, u) ==
    /\ u \in Tab /\ u.id = t.id /\ u.ephemeral = t.ephemeral
    /\ Tells(c, t, "loading") => ~u.suspended
    /\ Tells(c, t, "suspended") => u.suspended
    /\ ~Tells(c, t, "loading") /\ ~Tells(c, t, "suspended") => u.suspended = t.suspended

\* A callback that changes its own tab as it says, and no other.
LEMMA HandledKeeps ==
    ASSUME ChromeInv, callbacks # <<>>, callbacks' = Tail(callbacks),
           tabs' \in Seq(Tab), DOMAIN tabs' = DOMAIN tabs,
           \A i \in DOMAIN tabs : Handled(Head(callbacks), tabs[i], tabs'[i]),
           saveTimer' \in BOOLEAN,
           UNCHANGED <<activeId, nextId, deepLinked, reply, stored, commands, nativeTabVars, unborn>>
    PROVE  ChromeInv'
<1> DEFINE T == Range(tabs)
           T2 == Range(tabs')
           c == Head(callbacks)
<1>1. /\ \A u \in T2 : \E t \in T : Handled(c, t, u)
      /\ \A t \in T : \E u \in T2 : Handled(c, t, u)
  BY DEF Range
<1>2. IsStrip(tabs')
  <2>1. \A i, j \in DOMAIN tabs : tabs[i].id = tabs[j].id => i = j
    BY StripIs DEF Range, IsInjective
  <2>2. \A i, j \in DOMAIN tabs : tabs'[i].id = tabs'[j].id => i = j
    BY <2>1 DEF Handled
  <2> QED
    BY <2>2 DEF IsStrip, Range, IsInjective
<1>3. T \in SUBSET Tab /\ T2 \in SUBSET Tab
  BY StripIs DEF Range
<1>4. callbacks \in Seq(Callback) /\ \A i \in DOMAIN callbacks : callbacks[i].id < nextId
  BY DEF ChromeInv
<1>5. /\ callbacks' \in Seq(Callback) /\ 1 \in DOMAIN callbacks /\ callbacks[1] = c
      /\ \A i \in DOMAIN callbacks' : i + 1 \in DOMAIN callbacks /\ callbacks'[i] = callbacks[i + 1]
  BY ONLY <1>4, callbacks # <<>>, callbacks' = Tail(callbacks), Rest
<1> HIDE DEF T, T2, c
<1>6. Ids(T2) = Ids(T)
  BY <1>1 DEF Ids, Handled
<1>7. CommandsFit(T2, nextId, commands, live)
  <2>1. CommandsFit(T, nextId, commands, live)
    BY DEF ChromeInv, T
  <2>2. ASSUME NEW i \in DOMAIN commands, commands[i].what = "new", NEW u \in T2, u.id = commands[i].id
        PROVE  u.ephemeral = commands[i].private
    <3>1. PICK t \in T : t.id = u.id /\ t.ephemeral = u.ephemeral
      BY <1>1 DEF Handled
    <3> QED
      BY <2>1, <2>2, <3>1 DEF CommandsFit
  <2> QED
    BY <1>6, <2>1, <2>2 DEF CommandsFit
<1>8. PrivateFits(T2, commands, live, ephemeral, callbacks', stored)
  <2> SUFFICES ASSUME NEW u \in T2, u.ephemeral
               PROVE  /\ u.id \in ephemeral \/ live = {} \/ Makes(commands, u.id)
                      /\ ~u.suspended /\ u.id \notin stored
                      /\ \A i \in DOMAIN callbacks' : ~Tells(callbacks'[i], u, "suspended")
    BY DEF PrivateFits
  <2>1. PICK t \in T : Handled(c, t, u)
    BY <1>1
  <2>2. t.id = u.id /\ t.ephemeral
    BY <2>1 DEF Handled
  <2>3. /\ t.id \in ephemeral \/ live = {} \/ Makes(commands, t.id)
        /\ ~t.suspended /\ t.id \notin stored
        /\ \A i \in DOMAIN callbacks : ~Tells(callbacks[i], t, "suspended")
    BY <2>2 DEF ChromeInv, PrivateFits, T
  <2>4. ~Tells(c, t, "suspended")
    BY <1>5, <2>3
  <2>5. ~u.suspended
    BY <2>1, <2>3, <2>4 DEF Handled
  <2>6. \A i \in DOMAIN callbacks' : ~Tells(callbacks'[i], u, "suspended")
    BY <1>5, <2>2, <2>3 DEF Tells
  <2> QED
    BY <2>2, <2>3, <2>5, <2>6
<1>9. ASSUME unborn = {} PROVE DimsFit(T2, commands, live, callbacks')
  <2> SUFFICES ASSUME NEW u \in T2
               PROVE  \/ Makes(commands, u.id) \/ (u.id \in live /\ EndsLit(u, callbacks'))
                      \/ (u.id \notin live /\ EndsDim(u, callbacks'))
    BY DEF DimsFit
  <2>1. PICK t \in T : Handled(c, t, u)
    BY <1>1
  <2>2. /\ u.id = t.id /\ t.suspended \in BOOLEAN /\ u.suspended \in BOOLEAN
        /\ Tells(c, t, "loading") => ~u.suspended
        /\ Tells(c, t, "suspended") => u.suspended
        /\ ~Tells(c, t, "loading") /\ ~Tells(c, t, "suspended") => u.suspended = t.suspended
    BY <1>3, <2>1 DEF Handled, Tab
  <2>3. EndsLit(t, callbacks) => EndsLit(u, callbacks')
    BY <1>4, <2>2, EndsTaken DEF EndsLit, c
  <2>4. EndsDim(t, callbacks) => EndsDim(u, callbacks')
    BY <1>4, <2>2, EndsTaken DEF EndsDim, c
  <2>5. \/ Makes(commands, t.id) \/ (t.id \in live /\ EndsLit(t, callbacks))
        \/ (t.id \notin live /\ EndsDim(t, callbacks))
    BY <1>9 DEF ChromeInv, DimsFit, T
  <2> QED
    BY <2>2, <2>3, <2>4, <2>5
<1>10. /\ activeId \in Ids(T2) /\ \A u \in T2 : u.id < nextId
  <2>1. activeId \in Ids(T) /\ \A t \in T : t.id < nextId
    BY DEF ChromeInv, T
  <2> QED
    BY <1>1, <1>6, <2>1 DEF Handled
<1>11. \A i \in DOMAIN callbacks' : callbacks'[i].id < nextId
  BY <1>4, <1>5
<1>12. /\ nextId \in 2..(MaxTabs + 1)
       /\ deepLinked \in BOOLEAN /\ reply \in Sessions \cup {NoSession}
       /\ stored \subseteq TabIds /\ \A x \in stored : x < nextId
       /\ commands \in Seq(Command)
       /\ live \subseteq TabIds /\ active \in 0..MaxTabs /\ ephemeral \subseteq TabIds
       /\ mru \in Seq(TabIds) /\ IsInjective(mru) /\ live \subseteq Range(mru)
       /\ unborn = {} => PointerFits(activeId, commands, active)
  BY DEF ChromeInv
<1>13. UNCHANGED <<activeId, nextId, deepLinked, reply, stored, commands, live, mru, active, ephemeral, unborn>>
  BY DEF nativeTabVars
<1> QED
  BY <1>2, <1>5, <1>7, <1>8, <1>9, <1>10, <1>11, <1>12, <1>13 DEF ChromeInv, T2

\* The three callbacks that change a tab.
LEMMA CallbackHandled ==
    ASSUME ChromeInv, OnContentLoading \/ OnContentNavigated \/ OnTabSuspended
    PROVE  ChromeInv'
<1> DEFINE c == Head(callbacks)
<1>1. /\ callbacks # <<>> /\ callbacks' = Tail(callbacks) /\ saveTimer' \in BOOLEAN
      /\ UNCHANGED <<activeId, nextId, deepLinked, reply, stored, commands, nativeTabVars, unborn>>
  BY DEF OnContentLoading, OnContentNavigated, OnTabSuspended, Called, InStrip, ChromeInv
<1>2. tabs \in Seq(Tab) /\ Len(tabs) \in Nat /\ DOMAIN tabs = 1..Len(tabs) /\ \A i \in DOMAIN tabs : tabs[i] \in Tab
  BY StripIs
<1>3. c \in Callback /\ c.url \in Urls
  <2>1. callbacks \in Seq(Callback)
    BY DEF ChromeInv
  <2>2. c \in Callback
    BY <1>1, <2>1
  <2> QED
    BY <2>2 DEF Callback
<1>4. CASE OnContentLoading
  <2> DEFINE v == [i \in DOMAIN tabs |-> IF tabs[i].id = c.id THEN [tabs[i] EXCEPT !.url = c.url, !.suspended = FALSE] ELSE tabs[i]]
  <2>1. tabs' = v /\ c.what = "loading"
    BY <1>4 DEF OnContentLoading, OnTab, Called, StartsLoading
  <2> HIDE DEF c
  <2>2. \A t \in Tab : c.what = "loading" => Handled(c, t, IF t.id = c.id THEN [t EXCEPT !.url = c.url, !.suspended = FALSE] ELSE t)
    BY <1>3 DEF Handled, Tells, Tab
  <2>3. \A i \in DOMAIN tabs : Handled(c, tabs[i], v[i])
    BY <1>2, <2>1, <2>2
  <2>4. DOMAIN v = DOMAIN tabs
    OBVIOUS
  <2>5. v \in Seq(Tab)
    <3>1. \A i \in 1..Len(tabs) : v[i] \in Tab
      BY <1>2, <2>3 DEF Handled
    <3>2. v \in [1..Len(tabs) -> Tab]
      BY ONLY <1>2, <3>1
    <3>3. Len(tabs) \in Nat
      BY <1>2
    <3> HIDE DEF v
    <3> QED
      BY ONLY <3>2, <3>3
  <2> HIDE DEF v
  <2> QED
    BY <1>1, <2>1, <2>3, <2>4, <2>5, HandledKeeps DEF c
<1>5. CASE OnContentNavigated
  <2> DEFINE v == [i \in DOMAIN tabs |-> IF tabs[i].id = c.id THEN [tabs[i] EXCEPT !.url = c.url] ELSE tabs[i]]
  <2>1. tabs' = v /\ c.what = "navigated"
    BY <1>5 DEF OnContentNavigated, OnTab, Called
  <2> HIDE DEF c
  <2>2. \A t \in Tab : c.what = "navigated" => Handled(c, t, IF t.id = c.id THEN [t EXCEPT !.url = c.url] ELSE t)
    BY <1>3 DEF Handled, Tells, Tab
  <2>3. \A i \in DOMAIN tabs : Handled(c, tabs[i], v[i])
    BY <1>2, <2>1, <2>2
  <2>4. DOMAIN v = DOMAIN tabs
    OBVIOUS
  <2>5. v \in Seq(Tab)
    <3>1. \A i \in 1..Len(tabs) : v[i] \in Tab
      BY <1>2, <2>3 DEF Handled
    <3>2. v \in [1..Len(tabs) -> Tab]
      BY ONLY <1>2, <3>1
    <3>3. Len(tabs) \in Nat
      BY <1>2
    <3> HIDE DEF v
    <3> QED
      BY ONLY <3>2, <3>3
  <2> HIDE DEF v
  <2> QED
    BY <1>1, <2>1, <2>3, <2>4, <2>5, HandledKeeps DEF c
<1>6. CASE OnTabSuspended
  <2> DEFINE v == [i \in DOMAIN tabs |-> IF tabs[i].id = c.id THEN [tabs[i] EXCEPT !.suspended = TRUE] ELSE tabs[i]]
  <2>1. tabs' = v /\ c.what = "suspended"
    BY <1>6 DEF OnTabSuspended, OnTab, Called
  <2> HIDE DEF c
  <2>2. \A t \in Tab : c.what = "suspended" => Handled(c, t, IF t.id = c.id THEN [t EXCEPT !.suspended = TRUE] ELSE t)
    BY <1>3 DEF Handled, Tells, Tab
  <2>3. \A i \in DOMAIN tabs : Handled(c, tabs[i], v[i])
    BY <1>2, <2>1, <2>2
  <2>4. DOMAIN v = DOMAIN tabs
    OBVIOUS
  <2>5. v \in Seq(Tab)
    <3>1. \A i \in 1..Len(tabs) : v[i] \in Tab
      BY <1>2, <2>3 DEF Handled
    <3>2. v \in [1..Len(tabs) -> Tab]
      BY ONLY <1>2, <3>1
    <3>3. Len(tabs) \in Nat
      BY <1>2
    <3> HIDE DEF v
    <3> QED
      BY ONLY <3>2, <3>3
  <2> HIDE DEF v
  <2> QED
    BY <1>1, <2>1, <2>3, <2>4, <2>5, HandledKeeps DEF c
<1> QED
  BY <1>4, <1>5, <1>6

\* newTab.
LEMMA NewTabAction ==
    ASSUME ChromeInv, NEW private \in BOOLEAN, NewTab(private), HomePage \in Urls
    PROVE  ChromeInv'
<1>1. /\ NewTabAt(tabs, HomePage, "", private) /\ Invokes(<<NewTabCmd(HomePage, private)>>)
      /\ UNCHANGED <<deepLinked, reply, stored, callbacks, nativeTabVars, unborn>>
  BY DEF NewTab, FromStrip
<1>2. "" \in Urls
  BY DEF Urls
<1>3. NewTabAt(tabs, HomePage, "", private) = NewTabAt(tabs, HomePage, "", private)
  OBVIOUS
<1> QED
  BY <1>1, <1>2, NewTabKeeps DEF NewTabAt

\* A tab that the agent or a popup asks for.
LEMMA AgentOpenTabKeeps ==
    ASSUME ChromeInv, AgentOpenTab
    PROVE  ChromeInv'
<1> DEFINE c == Head(callbacks)
<1>1. /\ callbacks # <<>> /\ Head(callbacks).what = "open" /\ callbacks' = Tail(callbacks)
      /\ NewTabAt(tabs, c.url, "", c.private) /\ Invokes(<<NewTabCmd(c.url, c.private)>>)
      /\ UNCHANGED <<deepLinked, reply, stored, nativeTabVars, unborn>>
  BY DEF AgentOpenTab, Called
<1>2. c.url \in Urls /\ c.private \in BOOLEAN
  <2>1. callbacks \in Seq(Callback)
    BY DEF ChromeInv
  <2>2. c \in Callback
    <3>1. callbacks # <<>>
      BY <1>1
    <3> QED
      BY ONLY <2>1, <3>1
  <2> QED
    BY <2>2 DEF Callback
<1>3. "" \in Urls
  BY DEF Urls
<1> HIDE DEF c
<1> QED
  BY <1>1, <1>2, <1>3, NewTabKeeps DEF NewTabAt

(* A webview is closed, and may leave its place to another one.             *)
LEMMA BrowserCloseTabKeeps ==
    ASSUME ChromeInv, BrowserCloseTab
    PROVE  ChromeInv'
<1> DEFINE c == Head(commands)
           T == Range(tabs)
<1>1. /\ commands # <<>> /\ c.what = "close" /\ commands' = Tail(commands)
      /\ live' = live \ {c.id} /\ ephemeral' = ephemeral \ {c.id} /\ mru' = Without(c.id)
      /\ active' \in IF active # c.id THEN {active} ELSE IF live' = {} THEN {0} ELSE live'
      /\ UNCHANGED <<tabs, activeId, nextId, saveTimer, deepLinked, reply, stored, callbacks, unborn>>
  BY DEF BrowserCloseTab, Command1, InNative, stripVars
<1>2. commands \in Seq(Command) /\ T \in SUBSET Tab /\ nextId \in Nat /\ live \in SUBSET TabIds /\ live' \in SUBSET TabIds
  BY <1>1, StripIs DEF ChromeInv
<1>3. commands' \in Seq(Command) /\ 1 \in DOMAIN commands /\ commands[1] = c
  BY <1>1, <1>2, Rest
<1>4. CommandsFit(T, nextId, commands, live)
  BY DEF ChromeInv
<1>5. c.id \notin Ids(T) /\ ~Shows(c)
  BY <1>1, <1>3, <1>4 DEF CommandsFit, Shows
<1> HIDE DEF c, T
<1>6. CommandsFit(T, nextId, commands', live')
  <2>1. live' \subseteq live /\ c.id \notin live' /\ ~Shows(Head(commands)) /\ c = Head(commands)
    BY <1>1, <1>5 DEF c
  <2> QED
    BY <1>1, <1>2, <1>4, <2>1, TakenFits
<1>7. \A t \in T : t.id # c.id /\ (Makes(commands, t.id) => Makes(commands', t.id))
  <2>1. \A t \in T : t.id # c.id
    BY <1>5 DEF Ids
  <2>2. \A id : Makes(commands, id) => Makes(commands', id) \/ c.what = "new"
    BY <1>1, <1>2, MakesLater DEF c
  <2> QED
    BY <1>1, <2>1, <2>2
<1>8. PrivateFits(T, commands', live', ephemeral', callbacks', stored')
  <2>1. PrivateFits(T, commands, live, ephemeral, callbacks, stored)
    BY DEF ChromeInv, T
  <2> QED
    BY <1>1, <1>7, <2>1 DEF PrivateFits
<1>9. ASSUME unborn = {} PROVE DimsFit(T, commands', live', callbacks') /\ PointerFits(activeId, commands', active')
  <2>1. DimsFit(T, commands, live, callbacks) /\ PointerFits(activeId, commands, active)
    BY <1>9 DEF ChromeInv, T
  <2>2. DimsFit(T, commands', live', callbacks')
    BY <1>1, <1>7, <2>1 DEF DimsFit
  <2>3. active = activeId => active' = activeId
    <3>1. activeId # c.id
      BY <1>5, StripIs DEF T
    <3> QED
      BY <1>1, <3>1
  <2>4. PointerFits(activeId, commands', active')
    BY <1>1, <1>2, <1>5, <2>1, <2>3, TakenPointer DEF c
  <2> QED
    BY <2>2, <2>4
<1>10. mru' \in Seq(TabIds) /\ IsInjective(mru') /\ Range(mru') = Range(mru) \ {c.id}
  <2>1. mru \in Seq(TabIds) /\ IsInjective(mru)
    BY DEF ChromeInv
  <2> QED
    BY <1>1, <2>1, Forgotten
<1>11. active' \in 0..MaxTabs
  <2>1. active \in 0..MaxTabs /\ TabIds \subseteq 0..MaxTabs /\ 0 \in 0..MaxTabs
    BY ChromeBounds DEF ChromeInv, TabIds
  <2> QED
    BY <1>1, <1>2, <2>1
<1>12. live' \subseteq Range(mru') /\ ephemeral' \subseteq TabIds
  BY <1>1, <1>10 DEF ChromeInv
<1> QED
  BY <1>1, <1>2, <1>3, <1>6, <1>8, <1>9, <1>10, <1>11, <1>12 DEF ChromeInv, T

(* A webview could not be made, because there is none.                      *)
LEMMA UnbornKeeps ==
    ASSUME ChromeInv, commands # <<>>, commands' = Tail(commands), live = {}, unborn' # {},
           UNCHANGED <<stripVars, deepLinked, reply, stored, callbacks, nativeTabVars>>
    PROVE  ChromeInv'
<1> DEFINE T == Range(tabs)
<1>1. UNCHANGED <<tabs, activeId, nextId, saveTimer, deepLinked, reply, stored, callbacks, live, mru, active, ephemeral>>
  BY DEF stripVars, nativeTabVars
<1>2. commands \in Seq(Command) /\ T \in SUBSET Tab /\ nextId \in Nat /\ live \in SUBSET TabIds
  BY StripIs DEF ChromeInv
<1>3. commands' \in Seq(Command)
  BY <1>2, Rest
<1>4. CommandsFit(T, nextId, commands', live)
  <2>1. CommandsFit(T, nextId, commands, live)
    BY DEF ChromeInv
  <2> HIDE DEF T
  <2> QED
    BY <1>2, <2>1, TakenFits
<1>5. PrivateFits(T, commands', live, ephemeral, callbacks, stored)
  BY DEF ChromeInv, PrivateFits
<1> QED
  BY <1>1, <1>3, <1>4, <1>5 DEF ChromeInv

(* A page tells of itself.                                                  *)
LEMMA Said ==
    ASSUME NEW T, NEW L, NEW n, NEW K \in Seq(Callback), \A i \in DOMAIN K : K[i].id < n,
           NEW b \in Callback, b.id < n, b.what # "suspended", b.what = "loading" => b.id \in L
    PROVE  /\ Append(K, b) \in Seq(Callback) /\ \A i \in DOMAIN Append(K, b) : Append(K, b)[i].id < n
           /\ \A t \in T : /\ t.id \in L /\ EndsLit(t, K) => EndsLit(t, Append(K, b))
                           /\ t.id \notin L /\ EndsDim(t, K) => EndsDim(t, Append(K, b))
                           /\ (\A i \in DOMAIN K : ~Tells(K[i], t, "suspended")) =>
                                  (\A i \in DOMAIN Append(K, b) : ~Tells(Append(K, b)[i], t, "suspended"))
<1> DEFINE e == <<b>>
           s == K \o e
<1>1. e \in Seq(Callback) /\ DOMAIN e = {1} /\ e[1] = b
  BY Alone
<1>2. Append(K, b) = s
  BY AppendIsConcat
<1> HIDE DEF e
<1>3. /\ s \in Seq(Callback)
      /\ \A i \in DOMAIN K : s[i] = K[i]
      /\ \A j \in DOMAIN e : s[Len(K) + j] = e[j]
      /\ \A i \in DOMAIN s : i \in DOMAIN K \/ \E j \in DOMAIN e : i = Len(K) + j
  BY ONLY K \in Seq(Callback), <1>1, Behind
<1> HIDE DEF s
<1>4. \A i \in DOMAIN s : (i \in DOMAIN K /\ s[i] = K[i]) \/ s[i] = b
  BY <1>1, <1>3
<1>5. \A i \in DOMAIN s : s[i].id < n
  BY <1>4
<1>6. ASSUME NEW t \in T, EndsLit(t, K) PROVE EndsLit(t, s)
  <2>1. \A j \in DOMAIN e : ~Tells(e[j], t, "suspended")
    BY <1>1 DEF Tells
  <2> QED
    BY <1>1, <1>6, <2>1, EndsKept DEF EndsLit, s
<1>7. ASSUME NEW t \in T, t.id \notin L, EndsDim(t, K) PROVE EndsDim(t, s)
  <2>1. \A j \in DOMAIN e : ~Tells(e[j], t, "loading")
    BY <1>1, <1>7 DEF Tells
  <2> QED
    BY <1>1, <1>7, <2>1, EndsKept DEF EndsDim, s
<1>8. ASSUME NEW t \in T, \A i \in DOMAIN K : ~Tells(K[i], t, "suspended")
      PROVE  \A i \in DOMAIN s : ~Tells(s[i], t, "suspended")
  BY <1>4, <1>8 DEF Tells
<1> QED
  BY <1>2, <1>3, <1>5, <1>6, <1>7, <1>8

\* What a page tells the strip: nothing, or a load of its own, or an address.
PageSays ==
    \/ callbacks' = callbacks
    \/ \E b \in Callback : /\ callbacks' = Append(callbacks, b) /\ b.id < nextId /\ b.what # "suspended"
                           /\ b.what = "loading" => b.id \in live

(* A page tells of itself, or is sent elsewhere: no webview comes or goes.  *)
LEMMA PagesKeep ==
    ASSUME ChromeInv,
           \/ commands' = commands
           \/ commands # <<>> /\ Head(commands).what = "navigate" /\ commands' = Tail(commands),
           PageSays, UNCHANGED <<stripVars, deepLinked, reply, stored, nativeTabVars, unborn>>
    PROVE  ChromeInv'
<1> DEFINE T == Range(tabs)
<1>1. UNCHANGED <<tabs, activeId, nextId, saveTimer, deepLinked, reply, stored, live, mru, active, ephemeral, unborn>>
  BY DEF stripVars, nativeTabVars
<1>2. /\ commands \in Seq(Command) /\ T \in SUBSET Tab /\ nextId \in Nat /\ live \in SUBSET TabIds
      /\ callbacks \in Seq(Callback) /\ \A i \in DOMAIN callbacks : callbacks[i].id < nextId
  BY StripIs DEF ChromeInv
<1>3. /\ CommandsFit(T, nextId, commands, live)
      /\ PrivateFits(T, commands, live, ephemeral, callbacks, stored)
      /\ unborn = {} => DimsFit(T, commands, live, callbacks) /\ PointerFits(activeId, commands, active)
  BY DEF ChromeInv
<1> HIDE DEF T
<1>4. /\ commands' \in Seq(Command)
      /\ CommandsFit(T, nextId, commands', live)
      /\ \A t \in T : Makes(commands, t.id) => Makes(commands', t.id)
      /\ unborn = {} => PointerFits(activeId, commands', active)
  <2>1. CASE commands' = commands
    BY <1>2, <1>3, <2>1
  <2>2. CASE commands # <<>> /\ Head(commands).what = "navigate" /\ commands' = Tail(commands)
    <3>1. commands' \in Seq(Command)
      BY <1>2, <2>2, Rest
    <3>2. ~Shows(Head(commands)) /\ Head(commands).what # "close" /\ Head(commands).what # "new"
      BY <2>2 DEF Shows
    <3>3. CommandsFit(T, nextId, commands', live)
      BY <1>2, <1>3, <2>2, <3>2, TakenFits
    <3>4. \A t \in T : Makes(commands, t.id) => Makes(commands', t.id)
      BY <1>2, <2>2, <3>2, MakesLater
    <3>5. unborn = {} => PointerFits(activeId, commands', active)
      BY <1>2, <1>3, <2>2, <3>2, TakenPointer
    <3> QED
      BY <3>1, <3>3, <3>4, <3>5
  <2> QED
    BY <2>1, <2>2
<1>5. /\ callbacks' \in Seq(Callback) /\ \A i \in DOMAIN callbacks' : callbacks'[i].id < nextId
      /\ \A t \in T : /\ t.id \in live /\ EndsLit(t, callbacks) => EndsLit(t, callbacks')
                      /\ t.id \notin live /\ EndsDim(t, callbacks) => EndsDim(t, callbacks')
                      /\ (\A i \in DOMAIN callbacks : ~Tells(callbacks[i], t, "suspended")) =>
                             (\A i \in DOMAIN callbacks' : ~Tells(callbacks'[i], t, "suspended"))
  <2>1. CASE callbacks' = callbacks
    BY <1>2, <2>1
  <2>2. ASSUME NEW b \in Callback, callbacks' = Append(callbacks, b), b.id < nextId, b.what # "suspended",
               b.what = "loading" => b.id \in live
        PROVE  /\ callbacks' \in Seq(Callback) /\ \A i \in DOMAIN callbacks' : callbacks'[i].id < nextId
               /\ \A t \in T : /\ t.id \in live /\ EndsLit(t, callbacks) => EndsLit(t, callbacks')
                               /\ t.id \notin live /\ EndsDim(t, callbacks) => EndsDim(t, callbacks')
                               /\ (\A i \in DOMAIN callbacks : ~Tells(callbacks[i], t, "suspended")) =>
                                      (\A i \in DOMAIN callbacks' : ~Tells(callbacks'[i], t, "suspended"))
    BY <1>2, <2>2, Said
  <2> QED
    BY <2>1, <2>2 DEF PageSays
<1>6. PrivateFits(T, commands', live, ephemeral, callbacks', stored)
  BY <1>3, <1>4, <1>5 DEF PrivateFits
<1>7. unborn = {} => DimsFit(T, commands', live, callbacks')
  BY <1>3, <1>4, <1>5 DEF DimsFit
<1> QED
  BY <1>1, <1>4, <1>5, <1>6, <1>7 DEF ChromeInv, T

\* A live webview has a number that the strip has given.
LEMMA LiveIsGiven ==
    ASSUME ChromeInv, NEW id \in live
    PROVE  id < nextId /\ id \in TabIds /\ id \in 0..MaxTabs
<1>1. id < nextId /\ id \in TabIds
  BY DEF ChromeInv, CommandsFit
<1> QED
  BY <1>1, ChromeBounds DEF TabIds

\* browser_navigate.
LEMMA BrowserNavigateKeeps ==
    ASSUME ChromeInv, BrowserNavigate
    PROVE  ChromeInv'
<1> DEFINE c == Head(commands)
<1>1. /\ commands # <<>> /\ Head(commands).what = "navigate" /\ commands' = Tail(commands)
      /\ UNCHANGED <<stripVars, deepLinked, reply, stored, nativeTabVars, unborn>>
      /\ callbacks' = callbacks \/ \E id \in Targets(c.id) : callbacks' = Append(callbacks, Back("loading", id, c.url))
  BY DEF BrowserNavigate, Command1, InNative
<1>2. c.url \in Urls
  <2>1. commands \in Seq(Command) /\ commands # <<>>
    BY <1>1 DEF ChromeInv
  <2>2. c \in Command
    BY ONLY <2>1
  <2> QED
    BY <2>2 DEF Command
<1> HIDE DEF c
<1>3. Targets(c.id) \subseteq live
  BY DEF Targets
<1>4. \A id \in live : /\ Back("loading", id, c.url) \in Callback
                       /\ Back("loading", id, c.url).what = "loading" /\ Back("loading", id, c.url).id = id
                       /\ id < nextId
  BY <1>2, LiveIsGiven DEF Back, Callback
<1>5. PageSays
  <2>1. CASE callbacks' = callbacks
    BY <2>1 DEF PageSays
  <2>2. ASSUME NEW id \in Targets(c.id), callbacks' = Append(callbacks, Back("loading", id, c.url)) PROVE PageSays
    <3> DEFINE b == Back("loading", id, c.url)
    <3>1. b \in Callback /\ b.what = "loading" /\ b.id \in live /\ b.id < nextId
      BY <1>3, <1>4
    <3>2. callbacks' = Append(callbacks, b)
      BY <2>2
    <3> HIDE DEF b
    <3> QED
      BY <3>1, <3>2 DEF PageSays
  <2> QED
    BY <1>1, <2>1, <2>2
<1> QED
  BY <1>1, <1>5, PagesKeep

(* What a page tells by itself.                                             *)
LEMMA PageCallbackKeeps ==
    ASSUME ChromeInv, NEW b \in Callback, PageCallback(b), b.id < nextId, b.what # "suspended",
           b.what = "loading" => b.id \in live
    PROVE  ChromeInv'
  BY PagesKeep DEF PageCallback, PageSays

\* What pages do by themselves.
LEMMA PageActions ==
    ASSUME ChromeInv,
           \/ \E id \in TabIds, u \in Pages : PageLoads(id, u) \/ PageFinishes(id, u)
           \/ \E private \in BOOLEAN : AsksForTab(private)
    PROVE  ChromeInv'
<1>1. ASSUME NEW id \in TabIds, NEW u \in Pages, PageLoads(id, u) PROVE ChromeInv'
  <2>1. id \in live /\ PageCallback(Back("loading", id, u))
    BY <1>1 DEF PageLoads
  <2>2. id < nextId /\ id \in 0..MaxTabs
    BY <2>1, LiveIsGiven
  <2> DEFINE b == Back("loading", id, u)
  <2>3. b \in Callback /\ b.id = id /\ b.what = "loading"
    BY <2>2 DEF Back, Callback, Urls
  <2> HIDE DEF b
  <2> QED
    BY <2>1, <2>2, <2>3, PageCallbackKeeps DEF b
<1>2. ASSUME NEW id \in TabIds, NEW u \in Pages, PageFinishes(id, u) PROVE ChromeInv'
  <2>1. id \in live /\ PageCallback(Back("navigated", id, u))
    BY <1>2 DEF PageFinishes
  <2>2. id < nextId /\ id \in 0..MaxTabs
    BY <2>1, LiveIsGiven
  <2> DEFINE b == Back("navigated", id, u)
  <2>3. b \in Callback /\ b.id = id /\ b.what = "navigated"
    BY <2>2 DEF Back, Callback, Urls
  <2> HIDE DEF b
  <2> QED
    BY <2>1, <2>2, <2>3, PageCallbackKeeps DEF b
<1>3. ASSUME NEW private \in BOOLEAN, AsksForTab(private) PROVE ChromeInv'
  <2> DEFINE u == CHOOSE u \in Pages : TRUE
             b == [Back("open", 0, u) EXCEPT !.private = private]
  <2>1. u \in Pages
    BY PagesAssumption
  <2>2. PageCallback(b)
    BY <1>3 DEF AsksForTab
  <2>3. 0 \in 0..MaxTabs /\ 0 < nextId
    BY ChromeBounds, StripIs
  <2> HIDE DEF u
  <2>4. b \in Callback /\ b.id = 0 /\ b.what = "open"
    BY <2>1, <2>3 DEF Back, Callback, Urls
  <2> HIDE DEF b
  <2> QED
    BY <2>2, <2>3, <2>4, PageCallbackKeeps
<1> QED
  BY <1>1, <1>2, <1>3

\* browser_new_tab, which shows the tab that it makes or fails without another webview.
LEMMA BrowserNewTabKeeps ==
    ASSUME ChromeInv, BrowserNewTab
    PROVE  ChromeInv'
<1> DEFINE c == Head(commands)
           alive == live \cup {c.id}
           private == IF c.private THEN ephemeral \cup {c.id} ELSE ephemeral
           began == <<Back("loading", c.id, c.url)>>
<1>1. /\ commands # <<>> /\ c.what = "new" /\ commands' = Tail(commands)
      /\ UNCHANGED <<stripVars, deepLinked, reply, stored>>
      /\ IF live = {} THEN unborn' = unborn \cup {c.id} /\ UNCHANGED <<nativeTabVars, callbacks>>
         ELSE ShowTab(c.id, alive, private, began) /\ UNCHANGED unborn
  BY DEF BrowserNewTab, Command1, InNative
<1>2. CASE live = {}
  <2>1. unborn' # {} /\ UNCHANGED <<nativeTabVars, callbacks>>
    BY <1>1, <1>2
  <2> QED
    BY <1>1, <1>2, <2>1, UnbornKeeps
<1>3. CASE live # {}
  <2>1. c.id \in TabIds /\ c.url \in Urls
    <3>1. commands \in Seq(Command) /\ commands # <<>>
      BY <1>1 DEF ChromeInv
    <3>2. c \in Command
      BY ONLY <3>1
    <3> QED
      BY <3>2 DEF Command
  <2>2. /\ Back("loading", c.id, c.url) \in Callback
        /\ Back("loading", c.id, c.url).what = "loading" /\ Back("loading", c.id, c.url).id = c.id
    <3>1. c.id \in 0..MaxTabs
      BY <2>1, ChromeBounds DEF TabIds
    <3> QED
      BY <2>1, <3>1 DEF Back, Callback
  <2>3. began \in Seq(Callback) /\ DOMAIN began = {1} /\ began[1] = Back("loading", c.id, c.url)
    BY <2>2, Alone
  <2>4. \A i \in DOMAIN began : began[i].what = "loading" /\ began[i].id = c.id
    BY <2>2, <2>3
  <2>5. began # <<>>
    BY <2>3
  <2>6. private \in SUBSET TabIds /\ ephemeral \subseteq private /\ (c.private => c.id \in private)
    BY <2>1 DEF ChromeInv
  <2>7. ShowTab(c.id, alive, private, began) /\ UNCHANGED unborn
    BY <1>1, <1>3
  <2>8. live \subseteq alive /\ alive \subseteq live \cup {c.id} /\ c.id \in alive /\ (live = {} => alive = {})
    BY <1>3
  <2>9. UNCHANGED <<tabs, activeId, nextId, saveTimer, deepLinked, reply, stored>> /\ Shows(Head(commands))
    BY <1>1 DEF stripVars, Shows
  <2> HIDE DEF began, private, alive
  <2> QED
    BY <1>1, <2>3, <2>4, <2>5, <2>6, <2>7, <2>8, <2>9, ShowKeeps
<1> QED
  BY <1>2, <1>3

\* browser_switch_tab, which makes a suspended webview again.
LEMMA BrowserSwitchTabKeeps ==
    ASSUME ChromeInv, BrowserSwitchTab
    PROVE  ChromeInv'
<1> DEFINE c == Head(commands)
           again == c.id \notin live /\ c.url # "" /\ live # {}
           alive == IF again THEN live \cup {c.id} ELSE live
           began == IF again THEN <<Back("loading", c.id, c.url)>> ELSE <<>>
<1>1. /\ commands # <<>> /\ c.what = "switch" /\ commands' = Tail(commands)
      /\ UNCHANGED <<stripVars, deepLinked, reply, stored, unborn>>
      /\ ShowTab(c.id, alive, ephemeral, began)
  BY DEF BrowserSwitchTab, Command1, InNative
<1>2. c.id \in TabIds /\ c.url \in Urls
  <2>1. commands \in Seq(Command) /\ commands # <<>>
    BY <1>1 DEF ChromeInv
  <2>2. c \in Command
    BY ONLY <2>1
  <2> QED
    BY <2>2 DEF Command
<1>3. /\ began \in Seq(Callback) /\ \A i \in DOMAIN began : began[i].what = "loading" /\ began[i].id = c.id
      /\ again => began # <<>>
      /\ ~again => began = <<>>
  <2>1. /\ Back("loading", c.id, c.url) \in Callback
        /\ Back("loading", c.id, c.url).what = "loading" /\ Back("loading", c.id, c.url).id = c.id
    <3>1. c.id \in 0..MaxTabs
      BY <1>2, ChromeBounds DEF TabIds
    <3> QED
      BY <1>2, <3>1 DEF Back, Callback
  <2> DEFINE d == Back("loading", c.id, c.url)
  <2> HIDE DEF again, d, c
  <2>2. CASE again
    <3>1. <<d>> \in Seq(Callback) /\ DOMAIN <<d>> = {1} /\ <<d>>[1] = d
      BY <2>1, Alone DEF d
    <3>2. began = <<d>> /\ d.what = "loading" /\ d.id = c.id
      BY <2>1, <2>2 DEF d
    <3>3. <<d>> # <<>>
      BY <3>1
    <3> QED
      BY <2>2, <3>1, <3>2, <3>3
  <2>3. CASE ~again
    <3>1. began = <<>>
      BY <2>3
    <3>2. <<>> \in Seq(Callback) /\ DOMAIN <<>> = {}
      OBVIOUS
    <3> QED
      BY <2>3, <3>1, <3>2
  <2> QED
    BY <2>2, <2>3
<1>4. /\ live \subseteq alive /\ alive \subseteq live \cup {c.id} /\ (live = {} => alive = {})
      /\ (again => c.id \in alive) /\ (alive # live => again)
  OBVIOUS
<1>5. UNCHANGED <<tabs, activeId, nextId, saveTimer, deepLinked, reply, stored, unborn>> /\ Shows(Head(commands))
      /\ Head(commands).what # "new" /\ ephemeral \in SUBSET TabIds
  BY <1>1 DEF stripVars, Shows, ChromeInv
<1> HIDE DEF began, alive, again
<1>6. (began # <<>> => c.id \in alive) /\ (alive # live => began # <<>>)
  BY <1>3, <1>4
<1> QED
  BY <1>1, <1>3, <1>4, <1>5, <1>6, ShowKeeps

(* Three lists, one behind the other.                                       *)
Chain(s, A, B, C) ==
    /\ DOMAIN s = 1..(Len(A) + Len(B) + Len(C)) /\ Len(s) = Len(A) + Len(B) + Len(C)
    /\ \A i \in DOMAIN s :
          \/ i \in 1..Len(A) /\ s[i] = A[i]
          \/ \E k \in 1..Len(B) : i = Len(A) + k /\ s[i] = B[k]
          \/ \E k \in 1..Len(C) : i = Len(A) + Len(B) + k /\ s[i] = C[k]
    /\ \A k \in 1..Len(A) : s[k] = A[k]
    /\ \A k \in 1..Len(B) : s[Len(A) + k] = B[k]
    /\ \A k \in 1..Len(C) : s[Len(A) + Len(B) + k] = C[k]

\* Where the k-th place of the third of three spans is.
LEMMA ThirdSpan ==
    ASSUME NEW a \in Nat, NEW b \in Nat, NEW d \in Nat, NEW k \in 1..d
    PROVE  /\ a + b + k \in 1..((a + b) + d)
           /\ ~(a + b + k <= a + b)
           /\ (a + b + k) - (a + b) = k
<1>1. k \in Nat /\ 1 <= k /\ k <= d
  OBVIOUS
<1>2. a + b + k \in 1..((a + b) + d)
  BY <1>1
<1>3. ~(a + b + k <= a + b)
  BY <1>1
<1>4. (a + b + k) - (a + b) = k
  BY <1>1
<1> QED
  BY <1>2, <1>3, <1>4

\* Three lists in a row.
LEMMA Chained ==
    ASSUME NEW K, NEW A \in Seq(K), NEW B \in Seq(K), NEW C \in Seq(K)
    PROVE  ((A \o B) \o C) \in Seq(K) /\ Chain((A \o B) \o C, A, B, C)
<1> DEFINE p == A \o B
           s == p \o C
           a == Len(A)
           b == Len(B)
           d == Len(C)
<1>1. /\ p \in Seq(K) /\ Len(p) = a + b /\ \A i \in 1..(a + b) : p[i] = IF i <= a THEN A[i] ELSE B[i - a]
      /\ a \in Nat /\ b \in Nat /\ d \in Nat
  BY ConcatProperties
<1> HIDE DEF p, s, a, b, d
<1>2. /\ s \in Seq(K) /\ Len(s) = (a + b) + d /\ DOMAIN s = 1..(a + b + d)
      /\ \A i \in 1..((a + b) + d) : s[i] = IF i <= a + b THEN p[i] ELSE C[i - (a + b)]
  <2>1. /\ p \o C \in Seq(K) /\ Len(p \o C) = Len(p) + Len(C)
        /\ \A i \in 1..(Len(p) + Len(C)) : (p \o C)[i] = IF i <= Len(p) THEN p[i] ELSE C[i - Len(p)]
    BY <1>1, ConcatProperties
  <2>2. s = p \o C
    BY DEF s
  <2>3. DOMAIN s = 1..Len(s)
    BY <2>1, <2>2
  <2> QED
    BY <1>1, <2>1, <2>2, <2>3 DEF d
<1>3. ASSUME NEW i \in 1..a PROVE s[i] = A[i]
  <2>1. i \in 1..(a + b) /\ i \in 1..((a + b) + d) /\ i <= a /\ i <= a + b
    BY <1>1
  <2> QED
    BY <1>1, <1>2, <2>1
<1>4. ASSUME NEW k \in 1..b PROVE s[a + k] = B[k]
  <2>1. a + k \in 1..(a + b) /\ a + k \in 1..((a + b) + d) /\ ~(a + k <= a) /\ a + k <= a + b /\ (a + k) - a = k
    BY <1>1
  <2> QED
    BY <1>1, <1>2, <2>1
<1>5. ASSUME NEW k \in 1..d PROVE s[a + b + k] = C[k]
  <2>1. a + b + k \in 1..((a + b) + d) /\ ~(a + b + k <= a + b) /\ (a + b + k) - (a + b) = k
    BY ONLY <1>1, k \in 1..d, ThirdSpan
  <2> QED
    BY <1>1, <1>2, <2>1
<1>6. ASSUME NEW i \in 1..(a + b + d)
      PROVE  i \in 1..a \/ (\E k \in 1..b : i = a + k) \/ \E k \in 1..d : i = a + b + k
  <2>1. CASE i <= a
    BY <2>1
  <2>2. CASE a < i /\ i <= a + b
    <3>1. i - a \in 1..b /\ i = a + (i - a)
      BY <1>1, <2>2
    <3> QED
      BY <3>1
  <2>3. CASE a + b < i
    <3>1. i - (a + b) \in 1..d /\ i = a + b + (i - (a + b))
      BY <1>1, <2>3
    <3> QED
      BY <3>1
  <2> QED
    BY <1>1, <2>1, <2>2, <2>3
<1>7. \A i \in DOMAIN s : \/ i \in 1..a /\ s[i] = A[i]
                          \/ \E k \in 1..b : i = a + k /\ s[i] = B[k]
                          \/ \E k \in 1..d : i = a + b + k /\ s[i] = C[k]
  <2> TAKE i \in DOMAIN s
  <2>1. i \in 1..(a + b + d)
    BY <1>2
  <2>2. CASE i \in 1..a
    BY <1>3, <2>2
  <2>3. CASE \E k \in 1..b : i = a + k
    BY <1>4, <2>3
  <2>4. CASE \E k \in 1..d : i = a + b + k
    BY <1>5, <2>4
  <2> QED
    BY <1>6, <2>1, <2>2, <2>3, <2>4
<1> QED
  BY <1>1, <1>2, <1>3, <1>4, <1>5, <1>7 DEF Chain, p, s, a, b, d

(* The strip that a restored session leaves: the tabs, the first with      *)
(* another address perhaps, and the new ones with the next numbers.         *)
Restores(head, m, more, all) ==
    /\ head \in Tab /\ head.id = tabs[1].id /\ head.ephemeral = tabs[1].ephemeral
    /\ head.suspended = tabs[1].suspended /\ tabs # <<>>
    /\ m \in Nat /\ nextId + m <= MaxTabs + 1 /\ more \in Seq(Tab) /\ Len(more) = m
    /\ \A k \in 1..m : more[k].id = nextId + k - 1 /\ ~more[k].ephemeral /\ ~more[k].suspended
    /\ all = (<<head>> \o Tail(tabs)) \o more
Follows(T2, m) ==
    /\ \A t \in T2 :
          \/ \E u \in Range(tabs) : u.id = t.id /\ u.ephemeral = t.ephemeral /\ u.suspended = t.suspended
          \/ \E k \in 1..m : t.id = nextId + k - 1 /\ ~t.ephemeral /\ ~t.suspended
    /\ \A u \in Range(tabs) : u.id \in Ids(T2)
    /\ \A k \in 1..m : nextId + k - 1 \in Ids(T2)

\* The restored strip is a strip, and its new tabs are neither private nor dimmed.
LEMMA RestoredStrip ==
    ASSUME ChromeInv, NEW head, NEW m, NEW more, NEW all, Restores(head, m, more, all)
    PROVE  /\ IsStrip(all) /\ Len(all) \in Nat \ {0} /\ head \in Range(all)
           /\ \A t \in Range(all) : t.id < nextId + m
           /\ Follows(Range(all), m)
<1> SUFFICES ASSUME head \in Tab, head.id = tabs[1].id, head.ephemeral = tabs[1].ephemeral,
                    head.suspended = tabs[1].suspended, tabs # <<>>,
                    m \in Nat, nextId + m <= MaxTabs + 1, more \in Seq(Tab), Len(more) = m,
                    \A k \in 1..m : more[k].id = nextId + k - 1 /\ ~more[k].ephemeral /\ ~more[k].suspended,
                    all = (<<head>> \o Tail(tabs)) \o more
             PROVE  /\ IsStrip(all) /\ Len(all) \in Nat \ {0} /\ head \in Range(all)
                    /\ \A t \in Range(all) : t.id < nextId + m
                    /\ Follows(Range(all), m)
  BY DEF Restores
<1> DEFINE n == nextId
           p == Len(tabs)
           f == <<head>>
           r == Tail(tabs)
<1>1. tabs \in Seq(Tab) /\ n \in Nat /\ \A i, j \in DOMAIN tabs : tabs[i].id = tabs[j].id => i = j
  BY ONLY ChromeInv, StripIs DEF Range, IsInjective, n
<1>2. /\ p \in Nat \ {0} /\ DOMAIN tabs = 1..p /\ r \in Seq(Tab) /\ Len(r) = p - 1
      /\ \A k \in 1..(p - 1) : r[k] = tabs[k + 1]
  BY <1>1
<1>3. f \in Seq(Tab) /\ Len(f) = 1 /\ f[1] = head
  OBVIOUS
<1>4. \A i \in 1..p : tabs[i].id \in Nat /\ tabs[i].id < n /\ tabs[i] \in Range(tabs)
  <2> TAKE i \in 1..p
  <2>1. tabs[i] \in Range(tabs)
    BY <1>2 DEF Range
  <2>2. tabs[i].id < nextId /\ tabs[i].id \in TabIds
    BY <2>1, StripIs
  <2> QED
    BY <2>1, <2>2 DEF TabIds, n
<1> HIDE DEF n, p, f, r
<1>5. /\ all \in Seq(Tab) /\ Len(all) = 1 + (p - 1) + m /\ DOMAIN all = 1..(1 + (p - 1) + m)
      /\ \A i \in DOMAIN all :
            \/ i \in 1..1 /\ all[i] = f[i]
            \/ \E k \in 1..(p - 1) : i = 1 + k /\ all[i] = r[k]
            \/ \E k \in 1..m : i = 1 + (p - 1) + k /\ all[i] = more[k]
      /\ \A k \in 1..1 : all[k] = f[k]
      /\ \A k \in 1..(p - 1) : all[1 + k] = r[k]
      /\ \A k \in 1..m : all[1 + (p - 1) + k] = more[k]
  <2>1. all = (f \o r) \o more
    BY DEF f, r
  <2>2. all \in Seq(Tab) /\ Chain(all, f, r, more)
    <3>1. f \in Seq(Tab) /\ r \in Seq(Tab) /\ more \in Seq(Tab)
      BY <1>2, <1>3
    <3>2. ((f \o r) \o more) \in Seq(Tab) /\ Chain((f \o r) \o more, f, r, more)
      BY ONLY <3>1, Chained
    <3> QED
      BY <2>1, <3>2
  <2> QED
    BY ONLY <1>2, <1>3, <2>2, Len(more) = m, SMTT(30) DEF Chain
<1>6. DOMAIN all = 1..(p + m) /\ Len(all) = p + m
  BY <1>2, <1>5
<1>7. ASSUME NEW i \in 1..p
      PROVE  i \in DOMAIN all /\ all[i].id = tabs[i].id /\ all[i].ephemeral = tabs[i].ephemeral /\ all[i].suspended = tabs[i].suspended
  <2>1. i \in DOMAIN all
    BY <1>2, <1>6
  <2>2. CASE i = 1
    BY <1>3, <1>5, <2>1, <2>2
  <2>3. CASE i # 1
    <3>1. i - 1 \in 1..(p - 1) /\ 1 + (i - 1) = i /\ (i - 1) + 1 = i
      BY <1>2, <2>3
    <3>2. all[i] = tabs[i]
      BY <1>2, <1>5, <3>1
    <3> QED
      BY <2>1, <3>2
  <2> QED
    BY <2>2, <2>3
<1>8. ASSUME NEW k \in 1..m
      PROVE  p + k \in DOMAIN all /\ all[p + k] = more[k]
  <2>1. 1 + (p - 1) + k = p + k /\ p + k \in 1..(p + m)
    BY <1>2
  <2> QED
    BY <1>5, <1>6, <2>1
<1>9. ASSUME NEW i \in DOMAIN all PROVE i \in 1..p \/ \E k \in 1..m : i = p + k
  <2>1. i \in 1..(p + m)
    BY <1>6
  <2>2. CASE i <= p
    BY <1>2, <2>1, <2>2
  <2>3. CASE p < i
    <3>1. i - p \in 1..m /\ i = p + (i - p)
      BY <1>2, <2>1, <2>3
    <3> QED
      BY <3>1
  <2> QED
    BY <1>2, <2>1, <2>2, <2>3
<1>10. \A k \in 1..m : more[k].id = n + k - 1 /\ ~more[k].ephemeral /\ ~more[k].suspended
  BY DEF n
<1>11. ASSUME NEW i \in DOMAIN all, NEW j \in DOMAIN all, all[i].id = all[j].id PROVE i = j
  <2>1. CASE i \in 1..p /\ j \in 1..p
    <3>1. all[i].id = tabs[i].id /\ all[j].id = tabs[j].id /\ i \in DOMAIN tabs /\ j \in DOMAIN tabs
      BY <1>2, <1>7, <2>1
    <3> QED
      BY ONLY <1>1, <1>11, <3>1
  <2>2. ASSUME NEW k \in 1..m, NEW l \in 1..m, i = p + k, j = p + l PROVE i = j
    <3>1. n + k - 1 = n + l - 1
      BY <1>8, <1>10, <1>11, <2>2
    <3> QED
      BY <1>1, <1>2, <2>2, <3>1
  <2>3. ASSUME NEW x \in 1..p, NEW k \in 1..m PROVE all[x].id # all[p + k].id
    <3>1. all[x].id \in Nat /\ all[x].id < n
      BY <1>4, <1>7
    <3>2. all[p + k].id = n + k - 1
      BY <1>8, <1>10
    <3>3. n + k - 1 \in Nat /\ n <= n + k - 1
      BY ONLY <1>1, m \in Nat, k \in 1..m
    <3> QED
      BY ONLY <1>1, <3>1, <3>2, <3>3
  <2>4. (i \in 1..p \/ \E k \in 1..m : i = p + k) /\ (j \in 1..p \/ \E k \in 1..m : j = p + k)
    BY <1>9
  <2>5. CASE i \in 1..p /\ j \notin 1..p
    <3>1. PICK k \in 1..m : j = p + k
      BY <2>4, <2>5
    <3> QED
      BY <1>11, <2>3, <2>5, <3>1, Zenon
  <2>6. CASE i \notin 1..p /\ j \in 1..p
    <3>1. PICK k \in 1..m : i = p + k
      BY <2>4, <2>6
    <3> QED
      BY <1>11, <2>3, <2>6, <3>1, Zenon
  <2>7. CASE i \notin 1..p /\ j \notin 1..p
    BY <2>2, <2>4, <2>7, Zenon
  <2> QED
    BY <2>1, <2>5, <2>6, <2>7
<1>12. IsStrip(all)
  <2>1. all \in Seq(Tab)
    BY <1>5
  <2>2. IsInjective(all)
    BY <1>11 DEF IsInjective
  <2>3. \A t, u \in Range(all) : t.id = u.id => t = u
    <3> TAKE t, u \in Range(all)
    <3>1. PICK i \in DOMAIN all : all[i] = t
      BY DEF Range
    <3>2. PICK j \in DOMAIN all : all[j] = u
      BY DEF Range
    <3> QED
      BY <1>11, <3>1, <3>2
  <2> QED
    BY <2>1, <2>2, <2>3 DEF IsStrip
<1>13. ASSUME NEW t \in Range(all)
       PROVE  /\ \/ \E u \in Range(tabs) : u.id = t.id /\ u.ephemeral = t.ephemeral /\ u.suspended = t.suspended
                 \/ \E k \in 1..m : t.id = n + k - 1 /\ ~t.ephemeral /\ ~t.suspended
              /\ t.id < n + m
  <2>1. PICK i \in DOMAIN all : all[i] = t
    BY DEF Range
  <2>2. CASE i \in 1..p
    <3>1. tabs[i] \in Range(tabs) /\ tabs[i].id < n /\ tabs[i].id \in Nat
      BY <1>4, <2>2
    <3>2. tabs[i].id = t.id /\ tabs[i].ephemeral = t.ephemeral /\ tabs[i].suspended = t.suspended
      BY <1>7, <2>1, <2>2
    <3> QED
      BY <1>1, <3>1, <3>2
  <2>3. CASE \E k \in 1..m : i = p + k
    <3>1. PICK k \in 1..m : i = p + k
      BY <2>3
    <3>2. t.id = n + k - 1 /\ ~t.ephemeral /\ ~t.suspended
      BY <1>8, <1>10, <2>1, <3>1
    <3>3. n + k - 1 < n + m
      BY <1>1
    <3> QED
      BY <3>2, <3>3
  <2> QED
    BY <1>9, <2>2, <2>3
<1>14. ASSUME NEW u \in Range(tabs) PROVE u.id \in Ids(Range(all))
  <2>1. PICK i \in 1..p : tabs[i] = u
    BY <1>2 DEF Range
  <2> QED
    BY <1>7, <2>1 DEF Ids, Range
<1>15. \A k \in 1..m : n + k - 1 \in Ids(Range(all))
  BY <1>8, <1>10, ZenonT(40) DEF Ids, Range
<1>16. head \in Range(all) /\ Len(all) \in Nat \ {0}
  <2>1. 1 \in DOMAIN all /\ all[1] = head
    BY <1>2, <1>3, <1>5, <1>6
  <2>2. head \in Range(all)
    BY <2>1 DEF Range
  <2>3. p + m \in Nat \ {0}
    BY <1>2
  <2> QED
    BY <1>6, <2>2, <2>3
<1> QED
  BY <1>12, <1>13, <1>14, <1>15, <1>16 DEF n, Follows

(* What the strip sends when a session is restored: the first tab goes to   *)
(* its page, the others are made, and one of them is shown.                 *)
SendsRestored(T2, m, N, M, s, D) ==
    /\ N \in Seq(Command) /\ \A i \in 1..Len(N) : N[i].what = "navigate" /\ N[i].id < nextId
    /\ M \in Seq(Command) /\ Len(M) = m
    /\ \A k \in 1..m : M[k].what = "new" /\ M[k].id = nextId + k - 1 /\ M[k].private = FALSE
    /\ s \in Command /\ s.what = "switch" /\ s.id \in Ids(T2) /\ s.id < nextId + m
    /\ D = (N \o M) \o <<s>>
EndsAt(D, id) ==
    \E j \in DOMAIN D : Shows(D[j]) /\ D[j].id = id /\ \A k \in DOMAIN D : j < k => ~Shows(D[k])

\* What is sent for it fits it, and ends with the tab that is shown.
LEMMA RestoredSends ==
    ASSUME ChromeInv, NEW T2 \in SUBSET Tab, NEW m \in Nat, NEW N, NEW M, NEW s, NEW D,
           Follows(T2, m), SendsRestored(T2, m, N, M, s, D)
    PROVE  D \in Seq(Command) /\ Sent(Range(tabs), nextId, T2, nextId + m, D) /\ EndsAt(D, s.id)
<1> SUFFICES ASSUME \A t \in T2 :
                       \/ \E u \in Range(tabs) : u.id = t.id /\ u.ephemeral = t.ephemeral /\ u.suspended = t.suspended
                       \/ \E k \in 1..m : t.id = nextId + k - 1 /\ ~t.ephemeral /\ ~t.suspended,
                    \A u \in Range(tabs) : u.id \in Ids(T2),
                    \A k \in 1..m : nextId + k - 1 \in Ids(T2),
                    N \in Seq(Command), \A i \in 1..Len(N) : N[i].what = "navigate" /\ N[i].id < nextId,
                    M \in Seq(Command), Len(M) = m,
                    \A k \in 1..m : M[k].what = "new" /\ M[k].id = nextId + k - 1 /\ M[k].private = FALSE,
                    s \in Command, s.what = "switch", s.id \in Ids(T2), s.id < nextId + m,
                    D = (N \o M) \o <<s>>
             PROVE  D \in Seq(Command) /\ Sent(Range(tabs), nextId, T2, nextId + m, D) /\ EndsAt(D, s.id)
  BY DEF Follows, SendsRestored
<1> DEFINE n == nextId
           a == Len(N)
           f == <<s>>
           T == Range(tabs)
<1>1. n \in Nat /\ a \in Nat /\ \A u \in T : u.id \in Nat /\ u.id < n
  <2>1. \A u \in T : u.id \in TabIds
    BY StripIs
  <2>2. nextId \in Nat /\ \A u \in T : u.id < nextId
    BY StripIs
  <2>3. Len(N) \in Nat
    OBVIOUS
  <2> QED
    BY <2>1, <2>2, <2>3 DEF TabIds
<1>2. f \in Seq(Command) /\ Len(f) = 1 /\ f[1] = s
  OBVIOUS
<1>3. D = (N \o M) \o f
  OBVIOUS
<1> HIDE DEF n, a, f, T
<1>4. D \in Seq(Command) /\ Chain(D, N, M, f)
  <2>1. N \in Seq(Command) /\ M \in Seq(Command) /\ f \in Seq(Command)
    BY <1>2
  <2>2. ((N \o M) \o f) \in Seq(Command) /\ Chain((N \o M) \o f, N, M, f)
    BY ONLY <2>1, Chained
  <2> QED
    BY <1>3, <2>2
<1>5. /\ DOMAIN D = 1..(a + m + 1)
      /\ \A i \in DOMAIN D :
            \/ i \in 1..a /\ D[i] = N[i]
            \/ \E k \in 1..m : i = a + k /\ D[i] = M[k]
            \/ \E k \in 1..1 : i = a + m + k /\ D[i] = f[k]
      /\ \A k \in 1..m : D[a + k] = M[k]
      /\ \A k \in 1..1 : D[a + m + k] = f[k]
  BY ONLY <1>2, <1>4, Len(M) = m DEF Chain, a
<1>6. a + m + 1 \in DOMAIN D /\ D[a + m + 1] = s
  <2>1. a + m + 1 \in 1..(a + m + 1) /\ 1 \in 1..1
    BY ONLY <1>1, m \in Nat
  <2> QED
    BY ONLY <1>2, <1>5, <2>1
<1>7. ASSUME NEW i \in DOMAIN D
      PROVE  \/ i \in 1..a /\ D[i].what = "navigate" /\ D[i].id < n
             \/ \E k \in 1..m : i = a + k /\ D[i].what = "new" /\ D[i].id = n + k - 1 /\ D[i].private = FALSE
             \/ i = a + m + 1 /\ D[i] = s
  <2>1. CASE i \in 1..a /\ D[i] = N[i]
    BY <2>1 DEF n, a
  <2>2. CASE \E k \in 1..m : i = a + k /\ D[i] = M[k]
    BY <2>2 DEF n
  <2>3. CASE \E k \in 1..1 : i = a + m + k /\ D[i] = f[k]
    <3>1. PICK k \in 1..1 : i = a + m + k /\ D[i] = f[k]
      BY <2>3
    <3>2. k = 1
      OBVIOUS
    <3> QED
      BY <1>2, <3>1, <3>2
  <2> QED
    BY <1>5, <2>1, <2>2, <2>3
<1>8. ASSUME NEW k \in 1..m
      PROVE  a + k \in DOMAIN D /\ D[a + k].what = "new" /\ D[a + k].id = n + k - 1
  <2>1. a + k \in 1..(a + m + 1)
    BY ONLY <1>1, m \in Nat, k \in 1..m
  <2>2. M[k].what = "new" /\ M[k].id = n + k - 1
    BY DEF n
  <2> QED
    BY <1>5, <2>1, <2>2
<1>9. \A k \in 1..m : n <= n + k - 1 /\ n + k - 1 < n + m /\ n + k - 1 \in Nat
  BY ONLY <1>1, m \in Nat
<1>10. n <= n + m
  BY ONLY <1>1, m \in Nat
<1>11. ASSUME NEW t \in T2
       PROVE  \/ \E u \in T : u.id = t.id /\ u.ephemeral = t.ephemeral /\ u.suspended = t.suspended
              \/ n <= t.id /\ ~t.suspended /\ Makes(D, t.id)
  <2>1. CASE \E u \in T : u.id = t.id /\ u.ephemeral = t.ephemeral /\ u.suspended = t.suspended
    BY <2>1
  <2>2. CASE \E k \in 1..m : t.id = n + k - 1 /\ ~t.ephemeral /\ ~t.suspended
    <3>1. PICK k \in 1..m : t.id = n + k - 1 /\ ~t.suspended
      BY <2>2
    <3>2. Makes(D, t.id)
      BY <1>8, <3>1, ZenonT(40) DEF Makes
    <3> QED
      BY <1>9, <3>1, <3>2
  <2> QED
    BY <2>1, <2>2 DEF n, T
<1>12. ASSUME NEW i \in DOMAIN D, D[i].what = "new"
       PROVE  /\ n <= D[i].id
              /\ \A j \in DOMAIN D : D[j].id = D[i].id => i <= j
              /\ \A t \in T2 : t.id = D[i].id => t.ephemeral = D[i].private
  <2>1. PICK k \in 1..m : i = a + k /\ D[i].id = n + k - 1 /\ D[i].private = FALSE
    BY <1>7, <1>12
  <2>2. n <= D[i].id /\ D[i].id \in Nat
    BY <1>9, <2>1
  <2>3. ASSUME NEW j \in DOMAIN D, D[j].id = D[i].id PROVE i <= j
    <3>1. CASE j \in 1..a /\ D[j].what = "navigate" /\ D[j].id < n
      BY ONLY <1>1, <2>2, <2>3, <3>1
    <3>2. CASE \E l \in 1..m : j = a + l /\ D[j].what = "new" /\ D[j].id = n + l - 1 /\ D[j].private = FALSE
      <4>1. PICK l \in 1..m : j = a + l /\ D[j].id = n + l - 1
        BY <3>2
      <4>2. n + l - 1 = n + k - 1
        BY <2>1, <2>3, <4>1
      <4>3. l = k
        BY ONLY <1>1, <4>2, l \in 1..m, k \in 1..m, m \in Nat
      <4> QED
        BY ONLY <1>1, <2>1, <4>1, <4>3, k \in 1..m, m \in Nat
    <3>3. CASE j = a + m + 1 /\ D[j] = s
      BY ONLY <1>1, <2>1, <3>3, k \in 1..m, m \in Nat
    <3> QED
      BY <1>7, <3>1, <3>2, <3>3
  <2>4. ASSUME NEW t \in T2, t.id = D[i].id PROVE t.ephemeral = D[i].private
    <3>1. CASE \E u \in T : u.id = t.id
      BY <1>1, <2>2, <2>4, <3>1
    <3>2. CASE \E l \in 1..m : t.id = n + l - 1 /\ ~t.ephemeral /\ ~t.suspended
      <4>1. t.ephemeral \in BOOLEAN
        BY DEF Tab
      <4> QED
        BY <2>1, <3>2, <4>1
    <3> QED
      BY <3>1, <3>2 DEF n, T
  <2> QED
    BY <2>2, <2>3, <2>4
<1>13. ASSUME NEW i \in DOMAIN D
       PROVE  /\ D[i].id < n + m
              /\ D[i].what # "close"
              /\ Shows(D[i]) => D[i].id \in Ids(T2)
  <2>1. CASE i \in 1..a /\ D[i].what = "navigate" /\ D[i].id < n
    <3>1. D[i].id \in Nat
      <4>1. D[i] \in Command
        BY <1>4
      <4> QED
        BY <4>1 DEF Command, TabIds
    <3>2. D[i].id < n + m
      BY ONLY <1>1, <2>1, <3>1, m \in Nat
    <3> QED
      BY <2>1, <3>2 DEF Shows
  <2>2. CASE \E k \in 1..m : i = a + k /\ D[i].what = "new" /\ D[i].id = n + k - 1 /\ D[i].private = FALSE
    BY <1>9, <2>2 DEF n
  <2>3. CASE i = a + m + 1 /\ D[i] = s
    BY <2>3 DEF n
  <2> QED
    BY <1>7, <2>1, <2>2, <2>3
<1>14. \A u \in T : u.id \in Ids(T2)
  BY DEF T
<1>15. Sent(T, n, T2, n + m, D)
  BY <1>10, <1>11, <1>12, <1>13, <1>14 DEF Sent
<1>16. ASSUME NEW k \in DOMAIN D, a + m + 1 < k PROVE FALSE
  BY ONLY <1>1, <1>5, <1>16, m \in Nat
<1> QED
  BY <1>4, <1>6, <1>15, <1>16 DEF Shows, EndsAt, n, T

\* The saved addresses, in their order.
LEMMA EntriesFit ==
    ASSUME ChromeInv, Entries # {}, NEW at \in InTurn(Entries),
           NEW entries, entries = [k \in DOMAIN at |-> reply.tabs[at[k]]]
    PROVE  entries \in Seq(Urls) /\ entries # <<>> /\ reply.active \in Nat
<1>1. reply.tabs \in Seq(Urls) /\ reply.active \in Nat
  <2>1. CASE reply \in Sessions
    BY <2>1, SessionsAssumption
  <2>2. CASE reply = NoSession
    <3>1. reply.tabs = <<>> /\ reply.active = 0
      BY <2>2 DEF NoSession
    <3> QED
      BY ONLY <3>1
  <2> QED
    BY <2>1, <2>2 DEF ChromeInv
<1>2. Entries \in SUBSET DOMAIN reply.tabs
  BY DEF Entries
<1> DEFINE n == Cardinality(Entries)
<1>3. /\ n \in Nat /\ DOMAIN at = 1..n
      /\ \A k \in DOMAIN at : at[k] \in Entries
      /\ \A i \in Entries : \E k \in DOMAIN at : at[k] = i
  <2>1. at \in InTurn(Entries)
    OBVIOUS
  <2> QED
    BY ONLY <1>1, <1>2, <2>1, InTurnFits
<1> HIDE DEF n
<1>4. \A i \in Entries : reply.tabs[i] \in Urls
  BY ONLY <1>1, <1>2
<1>5. \A k \in 1..n : reply.tabs[at[k]] \in Urls
  BY <1>3, <1>4
<1>6. entries \in [1..n -> Urls]
  BY <1>3, <1>5
<1>7. 1 \in 1..n
  <2>1. PICK k \in 1..n : TRUE
    BY <1>3
  <2> QED
    BY ONLY <1>3, k \in 1..n
<1>8. entries \in Seq(Urls)
  BY ONLY <1>3, <1>6
<1>9. entries # <<>>
  <2>1. DOMAIN entries = 1..n
    BY ONLY <1>6
  <2>2. DOMAIN entries # {}
    BY ONLY <1>7, <2>1
  <2>3. Len(entries) \in Nat /\ DOMAIN entries = 1..Len(entries)
    BY ONLY <1>8
  <2>4. CASE entries = <<>>
    <3>1. Len(entries) = 0
      BY ONLY <2>4
    <3>2. 1..Len(entries) = {}
      BY ONLY <3>1
    <3> QED
      BY ONLY <2>2, <2>3, <3>2
  <2> QED
    BY <2>4
<1> QED
  BY <1>1, <1>8, <1>9

\* restoreTabs, whatever was opened or closed while the answer was under way.
LEMMA RestoreTabsKeeps ==
    ASSUME ChromeInv, RestoreTabs
    PROVE  ChromeInv'
<1>1. Entries # {} /\ reply' = NoSession /\ UNCHANGED <<deepLinked, stored, callbacks, nativeTabVars, ops, unborn>>
  BY ZenonT(40) DEF RestoreTabs
<1>2. PICK at \in InTurn(Entries) :
       LET entries == [k \in DOMAIN at |-> reply.tabs[at[k]]]
           rest == IF deepLinked THEN entries ELSE Tail(entries)
           more == [k \in DOMAIN rest |-> Fresh(nextId + k - 1, rest[k], FALSE)]
           head == IF deepLinked THEN Head(tabs) ELSE [Head(tabs) EXCEPT !.url = Head(entries)]
           all == <<head>> \o Tail(tabs) \o more
           target == IF deepLinked THEN head
                     ELSE all[IF reply.active + 1 < Len(all) THEN reply.active + 1 ELSE Len(all)] IN
       /\ nextId + Len(rest) <= MaxTabs + 1 /\ nextId' = nextId + Len(rest)
       /\ tabs' = all /\ activeId' = target.id /\ saveTimer' = TRUE
       /\ Invokes((IF deepLinked THEN <<>> ELSE <<Cmd("navigate", head.id, head.url, FALSE)>>)
                  \o [k \in DOMAIN rest |-> Cmd("new", nextId + k - 1, rest[k], FALSE)]
                  \o <<Cmd("switch", target.id, target.url, FALSE)>>)
  BY ZenonT(40) DEF RestoreTabs
<1> DEFINE entries == [k \in DOMAIN at |-> reply.tabs[at[k]]]
           rest == IF deepLinked THEN entries ELSE Tail(entries)
           m == Len(rest)
           more == [k \in DOMAIN rest |-> Fresh(nextId + k - 1, rest[k], FALSE)]
           head == IF deepLinked THEN Head(tabs) ELSE [Head(tabs) EXCEPT !.url = Head(entries)]
           all == (<<head>> \o Tail(tabs)) \o more
           place == IF reply.active + 1 < Len(all) THEN reply.active + 1 ELSE Len(all)
           target == IF deepLinked THEN head ELSE all[place]
           N == IF deepLinked THEN <<>> ELSE <<Cmd("navigate", head.id, head.url, FALSE)>>
           M == [k \in DOMAIN rest |-> Cmd("new", nextId + k - 1, rest[k], FALSE)]
           s == Cmd("switch", target.id, target.url, FALSE)
           D == (N \o M) \o <<s>>
<1>3. /\ nextId + m <= MaxTabs + 1 /\ nextId' = nextId + m
      /\ tabs' = all /\ activeId' = target.id /\ saveTimer' = TRUE /\ commands' = commands \o D
  BY <1>2 DEF Invokes
<1>4. entries \in Seq(Urls) /\ entries # <<>> /\ reply.active \in Nat
  BY <1>1, EntriesFit
<1> HIDE DEF entries
<1>5. tabs # <<>> /\ tabs \in Seq(Tab) /\ Head(tabs) = tabs[1] /\ tabs[1] \in Tab
  <2>1. activeId \in Ids(Range(tabs)) /\ tabs \in Seq(Tab)
    BY StripIs
  <2>2. tabs # <<>>
    BY <2>1 DEF Ids, Range
  <2> QED
    BY ONLY <2>1, <2>2
<1>6. rest \in Seq(Urls) /\ Head(entries) \in Urls
  BY ONLY <1>4
<1> HIDE DEF rest
<1>7. m \in Nat /\ DOMAIN rest = 1..m /\ \A k \in 1..m : rest[k] \in Urls
  BY ONLY <1>6
<1> HIDE DEF m
<1>8. /\ nextId \in Nat /\ \A k \in 1..m : nextId + k - 1 \in TabIds
      /\ nextId + m \in 2..(MaxTabs + 1)
  <2>1. nextId \in Nat /\ nextId \in 2..(MaxTabs + 1)
    BY StripIs
  <2>2. MaxTabs \in Nat
    BY ONLY ChromeBounds
  <2>3. nextId + m <= MaxTabs + 1
    BY <1>3
  <2> QED
    BY ONLY <1>7, <2>1, <2>2, <2>3 DEF TabIds
<1>9. head \in Tab /\ head.id = tabs[1].id /\ head.ephemeral = tabs[1].ephemeral /\ head.suspended = tabs[1].suspended
  BY ONLY <1>5, <1>6 DEF Tab
<1> HIDE DEF head
<1>10. more \in Seq(Tab) /\ Len(more) = m
       /\ \A k \in 1..m : more[k].id = nextId + k - 1 /\ ~more[k].ephemeral /\ ~more[k].suspended
  <2>1. \A k \in 1..m : Fresh(nextId + k - 1, rest[k], FALSE) \in Tab
    BY <1>7, <1>8 DEF Fresh, Tab
  <2>2. more \in [1..m -> Tab]
    BY <1>7, <2>1
  <2>3. \A k \in 1..m : more[k] = Fresh(nextId + k - 1, rest[k], FALSE)
    BY <1>7
  <2>4. \A k \in 1..m : more[k].id = nextId + k - 1 /\ ~more[k].ephemeral /\ ~more[k].suspended
    <3> HIDE DEF more
    <3> TAKE k \in 1..m
    <3>1. more[k] = Fresh(nextId + k - 1, rest[k], FALSE)
      BY ONLY <2>3, k \in 1..m
    <3>2. /\ Fresh(nextId + k - 1, rest[k], FALSE).id = nextId + k - 1
          /\ Fresh(nextId + k - 1, rest[k], FALSE).ephemeral = FALSE
          /\ Fresh(nextId + k - 1, rest[k], FALSE).suspended = FALSE
      BY DEF Fresh
    <3> QED
      BY ONLY <3>1, <3>2
  <2> HIDE DEF more
  <2>5. more \in Seq(Tab) /\ Len(more) = m
    BY ONLY <1>7, <2>2
  <2> QED
    BY <2>4, <2>5
<1> HIDE DEF more
<1>11. /\ IsStrip(all) /\ Len(all) \in Nat \ {0} /\ head \in Range(all)
       /\ \A t \in Range(all) : t.id < nextId + m
       /\ Follows(Range(all), m)
  <2>1. all = (<<head>> \o Tail(tabs)) \o more
    OBVIOUS
  <2> HIDE DEF all
  <2>2. Restores(head, m, more, all)
    BY <1>3, <1>5, <1>7, <1>9, <1>10, <2>1 DEF Restores
  <2> QED
    BY <2>2, RestoredStrip
<1> HIDE DEF all
<1>12. target \in Range(all)
  <2>1. all \in Seq(Tab)
    BY <1>11 DEF IsStrip
  <2>2. place \in 1..Len(all)
    BY <1>4, <1>11
  <2>3. all[place] \in Range(all)
    BY ONLY <2>1, <2>2 DEF Range
  <2> QED
    BY <1>11, <2>3
<1> HIDE DEF target
<1>13. Range(all) \in SUBSET Tab /\ target \in Tab /\ target.id \in Ids(Range(all)) /\ target.id < nextId + m
  <2>1. Range(all) \in SUBSET Tab
    BY <1>11 DEF IsStrip, Range
  <2> QED
    BY <1>11, <1>12, <2>1 DEF Ids
<1>14. s \in Command /\ s.what = "switch" /\ s.id = target.id
  BY <1>13 DEF Cmd, Command, Tab
<1> HIDE DEF s
<1>15. N \in Seq(Command) /\ \A i \in 1..Len(N) : N[i].what = "navigate" /\ N[i].id < nextId
  <2> DEFINE d == Cmd("navigate", head.id, head.url, FALSE)
  <2>1. d \in Command /\ d.what = "navigate" /\ d.id = head.id
    BY <1>9 DEF Cmd, Command, Tab
  <2>2. head.id < nextId
    <3>1. tabs[1] \in Range(tabs)
      BY <1>5 DEF Range
    <3> QED
      BY <1>9, <3>1, StripIs
  <2>3. N = IF deepLinked THEN <<>> ELSE <<d>>
    OBVIOUS
  <2> HIDE DEF d, N
  <2>4. CASE deepLinked
    BY ONLY <2>3, <2>4
  <2>5. CASE ~deepLinked
    <3>1. N = <<d>>
      BY ONLY <2>3, <2>5
    <3>2. N \in Seq(Command) /\ Len(N) = 1 /\ N[1] = d
      BY ONLY <2>1, <3>1
    <3>3. \A i \in 1..Len(N) : N[i] = d
      BY ONLY <3>2
    <3> QED
      BY <2>1, <2>2, <3>2, <3>3
  <2> QED
    BY <2>4, <2>5
<1> HIDE DEF N
<1>16. M \in Seq(Command) /\ Len(M) = m
       /\ \A k \in 1..m : M[k].what = "new" /\ M[k].id = nextId + k - 1 /\ M[k].private = FALSE
  <2>1. \A k \in 1..m : Cmd("new", nextId + k - 1, rest[k], FALSE) \in Command
    BY <1>7, <1>8 DEF Cmd, Command
  <2>2. M \in [1..m -> Command]
    BY <1>7, <2>1
  <2>3. \A k \in 1..m : M[k] = Cmd("new", nextId + k - 1, rest[k], FALSE)
    BY <1>7
  <2>4. \A k \in 1..m : M[k].what = "new" /\ M[k].id = nextId + k - 1 /\ M[k].private = FALSE
    <3> HIDE DEF M
    <3> TAKE k \in 1..m
    <3>1. M[k] = Cmd("new", nextId + k - 1, rest[k], FALSE)
      BY ONLY <2>3, k \in 1..m
    <3>2. /\ Cmd("new", nextId + k - 1, rest[k], FALSE).what = "new"
          /\ Cmd("new", nextId + k - 1, rest[k], FALSE).id = nextId + k - 1
          /\ Cmd("new", nextId + k - 1, rest[k], FALSE).private = FALSE
      BY DEF Cmd
    <3> QED
      BY ONLY <3>1, <3>2
  <2> HIDE DEF M
  <2>5. M \in Seq(Command) /\ Len(M) = m
    BY ONLY <1>7, <2>2
  <2> QED
    BY <2>4, <2>5
<1> HIDE DEF M
<1>17. D = (N \o M) \o <<s>>
  OBVIOUS
<1> HIDE DEF D
<1>18. D \in Seq(Command) /\ Sent(Range(tabs), nextId, Range(all), nextId + m, D) /\ EndsAt(D, s.id)
  <2>1. s.id \in Ids(Range(all)) /\ s.id < nextId + m
    BY <1>13, <1>14
  <2>2. SendsRestored(Range(all), m, N, M, s, D)
    BY <1>14, <1>15, <1>16, <1>17, <2>1 DEF SendsRestored
  <2> QED
    BY <1>7, <1>11, <1>13, <2>2, RestoredSends
<1>19. /\ IsStrip(tabs') /\ activeId' \in Ids(Range(tabs')) /\ nextId' \in 2..(MaxTabs + 1)
       /\ \A t \in Range(tabs') : t.id < nextId'
       /\ reply' \in Sessions \cup {NoSession} /\ saveTimer' \in BOOLEAN
  BY <1>1, <1>3, <1>8, <1>11, <1>13
<1>20. Sent(Range(tabs), nextId, Range(tabs'), nextId', D)
  BY <1>3, <1>18
<1>21. \E j \in DOMAIN D : Shows(D[j]) /\ D[j].id = activeId' /\ \A k \in DOMAIN D : j < k => ~Shows(D[k])
  BY <1>3, <1>14, <1>18 DEF EndsAt
<1>22. UNCHANGED <<deepLinked, stored, nativeTabVars, unborn>> /\ callbacks' = callbacks /\ commands' = commands \o D
  BY <1>1, <1>3
<1> QED
  BY <1>18, <1>19, <1>20, <1>21, <1>22, StripKeeps, SMTT(30)

(* The first tab, whose page is loading. *)
LEMMA ChromeStarts ==
    ASSUME ChromeInit
    PROVE  ChromeInv
<1> DEFINE t == Fresh(1, "", FALSE)
           c == [what |-> "loading", id |-> 1, url |-> HomePage, private |-> FALSE]
<1>1. /\ tabs = <<t>> /\ activeId = 1 /\ nextId = 2 /\ deepLinked \in BOOLEAN /\ reply \in Sessions
      /\ saveTimer = FALSE /\ stored = {} /\ commands = <<>> /\ callbacks = <<c>>
      /\ live = {1} /\ mru = <<1>> /\ active = 1 /\ ephemeral = {} /\ unborn = {}
  BY DEF ChromeInit
<1>2. 1 \in TabIds /\ 1 \in 0..MaxTabs /\ nextId \in 2..(MaxTabs + 1)
  <2>1. MaxTabs \in Nat \ {0}
    BY ChromeBounds
  <2>2. nextId = 2
    BY <1>1
  <2> QED
    BY ONLY <2>1, <2>2 DEF TabIds
<1>3. t \in Tab /\ t.id = 1 /\ t.ephemeral = FALSE /\ t.suspended = FALSE
  BY <1>2 DEF Fresh, Tab, Urls
<1>4. c \in Callback /\ c.what = "loading" /\ c.id = 1
  BY <1>2 DEF Callback, Urls
<1> HIDE DEF t, c
<1>5. tabs \in Seq(Tab) /\ DOMAIN tabs = {1} /\ tabs[1] = t
  BY ONLY <1>1, <1>3, Alone
<1>6. callbacks \in Seq(Callback) /\ DOMAIN callbacks = {1} /\ callbacks[1] = c
  BY ONLY <1>1, <1>4, Alone
<1>7. mru \in Seq(TabIds) /\ DOMAIN mru = {1} /\ mru[1] = 1
  BY ONLY <1>1, <1>2, Alone
<1>8. commands \in Seq(Command) /\ DOMAIN commands = {}
  BY ONLY <1>1
<1>9. Range(tabs) = {t} /\ Range(mru) = {1} /\ Ids(Range(tabs)) = {1}
  BY <1>3, <1>5, <1>7 DEF Range, Ids
<1>10. IsStrip(tabs) /\ IsInjective(mru)
  BY <1>5, <1>7, <1>9 DEF IsStrip, IsInjective
<1>11. CommandsFit(Range(tabs), nextId, commands, live)
  BY <1>1, <1>8, <1>9 DEF CommandsFit
<1>12. PrivateFits(Range(tabs), commands, live, ephemeral, callbacks, stored)
  BY <1>3, <1>9 DEF PrivateFits
<1>13. DimsFit(Range(tabs), commands, live, callbacks)
  <2>1. Tells(callbacks[1], t, "loading") /\ \A j \in DOMAIN callbacks : ~(1 < j)
    BY <1>3, <1>4, <1>6 DEF Tells
  <2>2. EndsLit(t, callbacks)
    BY <1>6, <2>1 DEF EndsLit, Ends
  <2> QED
    BY <1>1, <1>3, <1>9, <2>2 DEF DimsFit
<1>14. PointerFits(activeId, commands, active)
  BY <1>1, <1>8 DEF PointerFits
<1> QED
  <2>1. IsStrip(tabs) /\ activeId \in Ids(Range(tabs)) /\ nextId \in 2..(MaxTabs + 1)
    BY <1>1, <1>2, <1>9, <1>10
  <2>2. \A u \in Range(tabs) : u.id < nextId
    BY <1>1, <1>3, <1>9
  <2>3. /\ deepLinked \in BOOLEAN /\ reply \in Sessions \cup {NoSession}
        /\ saveTimer \in BOOLEAN /\ stored \subseteq TabIds /\ \A x \in stored : x < nextId
    BY <1>1
  <2>4. /\ commands \in Seq(Command) /\ callbacks \in Seq(Callback)
        /\ \A i \in DOMAIN callbacks : callbacks[i].id < nextId
    BY <1>1, <1>4, <1>6, <1>8
  <2>5. /\ live \subseteq TabIds /\ active \in 0..MaxTabs /\ ephemeral \subseteq TabIds
        /\ mru \in Seq(TabIds) /\ IsInjective(mru) /\ live \subseteq Range(mru)
    BY <1>1, <1>2, <1>7, <1>9, <1>10
  <2> QED
    BY ONLY <1>11, <1>12, <1>13, <1>14, <2>1, <2>2, <2>3, <2>4, <2>5 DEF ChromeInv

(* Every step. *)
LEMMA ChromeKeeps ==
    ASSUME ChromeInv, [ChromeNext]_chromeVars
    PROVE  ChromeInv'
<1>1. CASE UNCHANGED chromeVars
  <2>1. UNCHANGED <<tabs, activeId, nextId, saveTimer, deepLinked, reply, stored, commands, callbacks,
                    live, mru, active, ephemeral, ops, unborn>>
    BY <1>1 DEF chromeVars, stripVars, nativeTabVars
  <2> QED
    BY ONLY <2>1, ChromeInv DEF ChromeInv
<1>2. ASSUME NEW private \in BOOLEAN, NewTab(private) PROVE ChromeInv'
  <2>1. HomePage \in Urls
    BY DEF Urls
  <2> QED
    BY <1>2, <2>1, NewTabAction
<1>3. ASSUME NEW private \in BOOLEAN, AsksForTab(private) PROVE ChromeInv'
  BY <1>3, PageActions
<1>4. ASSUME NEW id \in TabIds, SwitchTab(id) \/ CloseTab(id) PROVE ChromeInv'
  BY <1>4, SwitchTabKeeps, CloseTabKeeps
<1>5. ASSUME NEW id \in TabIds, NEW u \in Pages, PageLoads(id, u) \/ PageFinishes(id, u) PROVE ChromeInv'
  BY <1>5, PageActions
<1>6. CASE DropTab
  BY <1>6, DropTabKeeps
<1>7. CASE SaveTabs
  BY <1>7, SaveTabsKeeps
<1>8. CASE RestoreTabs
  BY <1>8, RestoreTabsKeeps
<1>9. CASE RestoreNothing
  BY <1>9, RestoreNothingKeeps
<1>10. ASSUME NEW u \in Pages, Go(u) PROVE ChromeInv'
  BY <1>10, GoKeeps
<1>11. CASE OnContentLoading \/ OnContentNavigated \/ OnTabSuspended
  BY <1>11, CallbackHandled
<1>12. CASE AgentOpenTab
  BY <1>12, AgentOpenTabKeeps
<1>13. CASE BrowserNewTab
  BY <1>13, BrowserNewTabKeeps
<1>14. CASE BrowserSwitchTab
  BY <1>14, BrowserSwitchTabKeeps
<1>15. CASE BrowserCloseTab
  BY <1>15, BrowserCloseTabKeeps
<1>16. CASE BrowserNavigate
  BY <1>16, BrowserNavigateKeeps
<1> QED
  BY <1>1, <1>2, <1>3, <1>4, <1>5, <1>6, <1>7, <1>8, <1>9, <1>10, <1>11, <1>12, <1>13, <1>14, <1>15, <1>16
  DEF ChromeNext

(* What follows when nothing is under way. *)
LEMMA ChromeAgrees ==
    ASSUME ChromeInv
    PROVE  BothSidesAgree
<1> SUFFICES ASSUME commands = <<>>, callbacks = <<>>, unborn = {}
             PROVE  active = activeId /\ live = {tabs[i].id : i \in {j \in DOMAIN tabs : ~tabs[j].suspended}}
  BY DEF BothSidesAgree, PointersAgree, StripMatchesWebviews, AtRest
<1>1. DOMAIN commands = {} /\ DOMAIN callbacks = {}
  OBVIOUS
<1>2. active = activeId
  <2>1. PointerFits(activeId, commands, active)
    BY DEF ChromeInv
  <2> QED
    BY <1>1, <2>1 DEF PointerFits
<1>3. live \subseteq Ids(Range(tabs))
  <2>1. CommandsFit(Range(tabs), nextId, commands, live)
    BY DEF ChromeInv
  <2> QED
    BY <1>1, <2>1 DEF CommandsFit, ClosesAfter
<1>4. ASSUME NEW t \in Range(tabs) PROVE t.id \in live <=> ~t.suspended
  <2>1. DimsFit(Range(tabs), commands, live, callbacks)
    BY DEF ChromeInv
  <2>2. ~Makes(commands, t.id)
    BY <1>1 DEF Makes
  <2>3. (t.id \in live /\ EndsLit(t, callbacks)) \/ (t.id \notin live /\ EndsDim(t, callbacks))
    BY <2>1, <2>2 DEF DimsFit
  <2>4. EndsLit(t, callbacks) => t.suspended = FALSE
    BY <1>1 DEF EndsLit, Ends
  <2>5. EndsDim(t, callbacks) => t.suspended = TRUE
    BY <1>1 DEF EndsDim, Ends
  <2> QED
    BY <2>3, <2>4, <2>5
<1>5. \A i \in DOMAIN tabs : tabs[i] \in Range(tabs)
  BY DEF Range
<1>6. \A t \in Range(tabs) : \E i \in DOMAIN tabs : tabs[i] = t
  BY DEF Range
<1>7. \A i \in DOMAIN tabs : tabs[i].id \in live <=> ~tabs[i].suspended
  BY <1>4, <1>5
<1>8. \A x \in live : \E i \in DOMAIN tabs : tabs[i].id = x
  BY <1>3, <1>6 DEF Ids
<1> QED
  BY <1>2, <1>7, <1>8

(* What holds of private tabs whatever is under way. *)
LEMMA ChromeKeepsPrivate ==
    ASSUME ChromeInv
    PROVE  PrivateTabsKeepTheirPromise
<1>1. PrivateFits(Range(tabs), commands, live, ephemeral, callbacks, stored)
  BY DEF ChromeInv
<1>2. CommandsFit(Range(tabs), nextId, commands, live)
  BY DEF ChromeInv
<1>3. ASSUME NEW t \in Range(tabs), t.ephemeral
      PROVE  ~t.suspended /\ t.id \notin stored /\ (t.id \in live => t.id \in ephemeral)
  <2>1. (t.id \in ephemeral \/ live = {} \/ Makes(commands, t.id)) /\ ~t.suspended /\ t.id \notin stored
    BY <1>1, <1>3 DEF PrivateFits
  <2>2. Makes(commands, t.id) => t.id \notin live
    BY <1>2 DEF CommandsFit, Makes
  <2> QED
    BY <2>1, <2>2
<1>4. \A i \in DOMAIN tabs : tabs[i] \in Range(tabs)
  BY DEF Range
<1> QED
  BY <1>3, <1>4 DEF PrivateTabsKeepTheirPromise, PrivateStaysPrivate, PrivateIsNotSuspended

(* Of a list's places in A, those with fewer than b of A before them are at most b. *)
LEMMA FewComeFirst ==
    ASSUME NEW n \in Nat, NEW b \in Nat \ {0}, NEW A \in SUBSET (1..n),
           NEW P, P = {i \in A : Cardinality({j \in A : j < i}) < b}
    PROVE  IsFiniteSet(P) /\ Cardinality(P) <= b
<1>1. IsFiniteSet(A) /\ A \subseteq Nat
  <2>1. IsFiniteSet(1..n)
    BY FS_Interval
  <2>2. IsFiniteSet(A)
    BY ONLY <2>1, A \in SUBSET (1..n), FS_Subset
  <2> QED
    BY ONLY <2>2, A \in SUBSET (1..n)
<1>2. P \in SUBSET A
  OBVIOUS
<1>3. IsFiniteSet(P)
  BY ONLY <1>1, <1>2, FS_Subset
<1>4. CASE P = {}
  <2>1. Cardinality(P) = 0
    BY ONLY <1>4, FS_EmptySet
  <2> QED
    BY ONLY <1>3, <2>1, b \in Nat \ {0}
<1>5. CASE P # {}
  <2> DEFINE T == {n - i : i \in P}
  <2>1. T \in SUBSET Nat /\ T # {}
    <3>1. \A i \in P : n - i \in Nat
      <4>1. \A i \in P : i \in 1..n
        BY ONLY <1>2, A \in SUBSET (1..n)
      <4> QED
        BY ONLY <4>1, n \in Nat
    <3> QED
      BY ONLY <1>5, <3>1
  <2>2. PICK x \in T : \A y \in T : x <= y
    BY ONLY <2>1, LeastNatural
  <2>3. PICK m \in P : x = n - m
    OBVIOUS
  <2>4. \A i \in P : i <= m
    <3> TAKE i \in P
    <3>1. n - m <= n - i
      BY <2>2, <2>3
    <3>2. i \in Nat /\ m \in Nat
      BY <1>1, <1>2
    <3> QED
      BY ONLY <3>1, <3>2, n \in Nat
  <2> DEFINE B == {j \in A : j < m}
  <2>5. IsFiniteSet(B) /\ Cardinality(B) \in Nat /\ Cardinality(B) < b
    <3>1. B \in SUBSET A
      OBVIOUS
    <3>2. IsFiniteSet(B)
      BY ONLY <1>1, <3>1, FS_Subset
    <3> QED
      BY <3>2, FS_CardinalityType
  <2>6. ASSUME NEW i \in P PROVE i \in B \cup {m}
    <3>1. i <= m /\ i \in Nat /\ m \in Nat /\ i \in A
      BY ONLY <1>1, <1>2, <2>4, i \in P, m \in P
    <3>2. CASE i = m
      BY <3>2
    <3>3. CASE i < m
      BY ONLY <3>1, <3>3
    <3> QED
      BY ONLY <3>1, <3>2, <3>3
  <2> HIDE DEF B
  <2>7. IsFiniteSet(B \cup {m}) /\ Cardinality(B \cup {m}) \in Nat /\ Cardinality(B \cup {m}) <= Cardinality(B) + 1
    <3>1. IsFiniteSet(B \cup {m}) /\ Cardinality(B \cup {m}) = IF m \in B THEN Cardinality(B) ELSE Cardinality(B) + 1
      BY ONLY <2>5, FS_AddElement
    <3> QED
      BY ONLY <2>5, <3>1
  <2>8. Cardinality(P) \in Nat /\ Cardinality(P) <= Cardinality(B \cup {m})
    <3>1. P \in SUBSET (B \cup {m})
      BY ONLY <2>6
    <3> QED
      BY ONLY <1>3, <2>7, <3>1, FS_Subset, FS_CardinalityType
  <2> QED
    BY ONLY <1>3, <2>5, <2>7, <2>8, b \in Nat \ {0}
<1> QED
  BY <1>4, <1>5

(* Whatever tab is shown, the eviction leaves at most MaxLive webviews that *)
(* are not private (state.rs).                                              *)
Budgeted == Cardinality(live \ ephemeral) <= MaxLive
\* It holds after any tab is shown.
LEMMA ShowKeepsBudget ==
    ASSUME ChromeInv, NEW id \in TabIds, NEW alive \in SUBSET TabIds, alive \subseteq live \cup {id},
           NEW private, NEW began, ShowTab(id, alive, private, began)
    PROVE  Budgeted'
<1> DEFINE order == Touched(id)
           out == Evictions(order, alive, id, private)
           n == Len(order)
           A == {i \in DOMAIN order : order[i] \in alive}
           P == {i \in A : Cardinality({j \in A : j < i}) < MaxLive}
           R == {order[i] : i \in P}
<1>1. /\ order \in Seq(TabIds) /\ IsInjective(order) /\ Range(order) = Range(mru) \cup {id}
      /\ 1 \in DOMAIN order /\ order[1] = id
  BY TouchedFirst DEF ChromeInv
<1>2. live' = alive \ {order[i] : i \in out} /\ ephemeral' = private
  BY DEF ShowTab
<1>3. alive \subseteq Range(order)
  BY <1>1 DEF ChromeInv
<1>4. MaxLive \in Nat \ {0}
  BY ChromeBounds
<1> HIDE DEF order
<1>5. n \in Nat /\ DOMAIN order = 1..n
  BY <1>1
<1>6. A \in SUBSET (1..n) /\ A \in SUBSET DOMAIN order /\ P \in SUBSET A
  BY <1>5
<1>7. P = {i \in A : Cardinality({j \in A : j < i}) < MaxLive}
  OBVIOUS
<1>8. ASSUME NEW i \in DOMAIN order PROVE Newer(order, alive, i) = {j \in A : j < i}
  BY DEF Newer
<1>9. IsFiniteSet(P) /\ Cardinality(P) <= MaxLive /\ Cardinality(P) \in Nat
  <2> HIDE DEF A, P
  <2>1. n \in Nat /\ MaxLive \in Nat \ {0} /\ A \in SUBSET (1..n)
    BY <1>4, <1>5, <1>6
  <2>2. IsFiniteSet(P) /\ Cardinality(P) <= MaxLive
    BY ONLY <1>7, <2>1, FewComeFirst
  <2> QED
    BY ONLY <2>2, FS_CardinalityType
<1>10. ASSUME NEW x \in alive, x \notin private, x \notin {order[i] : i \in out} PROVE x \in R
  <2>1. PICK i \in DOMAIN order : order[i] = x
    BY <1>3 DEF Range
  <2>2. i \in A
    BY <2>1
  <2>3. CASE i \in P
    BY <2>1, <2>3
  <2>4. CASE i \notin P
    <3>1. IsFiniteSet({j \in A : j < i}) /\ Cardinality({j \in A : j < i}) \in Nat
      <4>1. IsFiniteSet(1..n)
        BY <1>5, FS_Interval
      <4>2. {j \in A : j < i} \in SUBSET (1..n)
        BY <1>6
      <4> QED
        BY ONLY <4>1, <4>2, FS_Subset, FS_CardinalityType
    <3>2. Cardinality(Newer(order, alive, i)) >= MaxLive
      <4>1. ~(Cardinality({j \in A : j < i}) < MaxLive)
        BY <2>2, <2>4
      <4>2. Newer(order, alive, i) = {j \in A : j < i}
        BY <1>8
      <4>3. Cardinality({j \in A : j < i}) >= MaxLive
        BY ONLY <1>4, <3>1, <4>1
      <4> QED
        BY ONLY <4>2, <4>3
    <3>3. order[i] # id
      <4>1. SUFFICES ASSUME order[i] = id PROVE FALSE
        OBVIOUS
      <4>2. i = 1
        BY <1>1, <4>1 DEF IsInjective
      <4>3. {j \in A : j < i} = {}
        BY <1>5, <1>6, <4>2
      <4>4. Cardinality(Newer(order, alive, i)) = 0
        BY <1>8, <4>3, FS_EmptySet
      <4> QED
        BY ONLY <1>4, <3>2, <4>4
    <3>4. i \in out
      BY <2>1, <3>2, <3>3, <1>10 DEF Evictions, Older
    <3> QED
      BY <1>10, <2>1, <3>4
  <2> QED
    BY <2>3, <2>4
<1>11. IsFiniteSet(R) /\ Cardinality(R) <= Cardinality(P) /\ Cardinality(R) \in Nat
  <2> DEFINE f == [i \in P |-> order[i]]
  <2>1. f \in Surjection(P, R)
    BY DEF Surjection
  <2> HIDE DEF f, P, R
  <2> QED
    BY ONLY <1>9, <2>1, FS_Surjection, FS_CardinalityType
<1>12. live' \ ephemeral' \in SUBSET R
  BY <1>2, <1>10
<1> HIDE DEF P, R
<1>13. /\ IsFiniteSet(live' \ ephemeral') /\ Cardinality(live' \ ephemeral') <= Cardinality(R)
       /\ Cardinality(live' \ ephemeral') \in Nat
  BY ONLY <1>11, <1>12, FS_Subset, FS_CardinalityType
<1> QED
  BY <1>4, <1>9, <1>11, <1>13 DEF Budgeted

(* Every step keeps the budget: only what shows a tab makes webviews.       *)
LEMMA ChromeKeepsBudget ==
    ASSUME ChromeInv, Budgeted, [ChromeNext]_chromeVars
    PROVE  Budgeted'
<1>1. \A c \in {Head(commands)} : commands # <<>> => c.id \in TabIds
  <2>1. commands \in Seq(Command)
    BY DEF ChromeInv
  <2>2. commands # <<>> => Head(commands) \in Command
    BY ONLY <2>1
  <2> QED
    BY <2>2 DEF Command
<1>2. live \subseteq TabIds
  BY DEF ChromeInv
<1>3. CASE UNCHANGED nativeTabVars
  BY <1>3 DEF Budgeted, nativeTabVars
<1>4. CASE BrowserNewTab
  <2> DEFINE c == Head(commands)
             private == IF c.private THEN ephemeral \cup {c.id} ELSE ephemeral
             began == <<Back("loading", c.id, c.url)>>
             alive == live \cup {c.id}
  <2>1. UNCHANGED nativeTabVars \/ ShowTab(c.id, alive, private, began)
    BY <1>4 DEF BrowserNewTab
  <2>2. commands # <<>>
    BY <1>4 DEF BrowserNewTab, Command1
  <2>3. c.id \in TabIds
    BY <1>1, <2>2
  <2>4. alive \in SUBSET TabIds /\ alive \subseteq live \cup {c.id}
    BY <1>2, <2>3
  <2> HIDE DEF private, began, alive, c
  <2> QED
    BY <1>3, <2>1, <2>3, <2>4, ShowKeepsBudget
<1>5. CASE BrowserSwitchTab
  <2> DEFINE c == Head(commands)
             again == c.id \notin live /\ c.url # "" /\ live # {}
             began == IF again THEN <<Back("loading", c.id, c.url)>> ELSE <<>>
             alive == IF again THEN live \cup {c.id} ELSE live
  <2>1. ShowTab(c.id, alive, ephemeral, began)
    BY <1>5 DEF BrowserSwitchTab
  <2>2. commands # <<>>
    BY <1>5 DEF BrowserSwitchTab, Command1
  <2>3. c.id \in TabIds
    BY <1>1, <2>2
  <2>4. alive \in SUBSET TabIds /\ alive \subseteq live \cup {c.id}
    BY <1>2, <2>3
  <2> HIDE DEF began, alive, c
  <2> QED
    BY <2>1, <2>3, <2>4, ShowKeepsBudget
<1>6. CASE BrowserCloseTab
  <2>1. live' \ ephemeral' \in SUBSET (live \ ephemeral)
    BY <1>6 DEF BrowserCloseTab
  <2>2. IsFiniteSet(live \ ephemeral)
    <3>1. IsFiniteSet(1..MaxTabs)
      BY ChromeBounds, FS_Interval
    <3>2. live \ ephemeral \in SUBSET (1..MaxTabs)
      BY <1>2 DEF TabIds
    <3> QED
      BY ONLY <3>1, <3>2, FS_Subset
  <2>3. /\ IsFiniteSet(live' \ ephemeral') /\ Cardinality(live' \ ephemeral') <= Cardinality(live \ ephemeral)
        /\ Cardinality(live' \ ephemeral') \in Nat /\ Cardinality(live \ ephemeral) \in Nat
    BY ONLY <2>1, <2>2, FS_Subset, FS_CardinalityType
  <2>4. MaxLive \in Nat
    BY ONLY ChromeBounds
  <2> QED
    BY <2>3, <2>4 DEF Budgeted
<1>7. [ChromeNext]_chromeVars => \/ UNCHANGED nativeTabVars
                                 \/ BrowserNewTab \/ BrowserSwitchTab \/ BrowserCloseTab
  BY DEF ChromeNext, chromeVars, NewTab, AsksForTab, SwitchTab, CloseTab, PageLoads, PageFinishes, PageCallback,
         DropTab, SaveTabs, RestoreTabs, RestoreNothing, Go, FromStrip, OnContentLoading, OnContentNavigated,
         OnTabSuspended, InStrip, AgentOpenTab, BrowserNavigate
<1> QED
  BY <1>3, <1>4, <1>5, <1>6, <1>7

\* At the start one webview is live.
LEMMA BudgetAtStart == ChromeInit => Budgeted
<1> SUFFICES ASSUME ChromeInit PROVE Budgeted
  OBVIOUS
<1>1. live \ ephemeral = {1}
  BY DEF ChromeInit
<1>2. Cardinality({1}) = 1
  BY FS_Singleton
<1>3. MaxLive \in Nat \ {0}
  BY ChromeBounds
<1> QED
  BY <1>1, <1>2, <1>3 DEF Budgeted

\* The invariant has the types in it.
LEMMA ChromeTypes == ChromeInv /\ Budgeted => ChromeTypeOK
<1> SUFFICES ASSUME ChromeInv, Budgeted PROVE ChromeTypeOK
  OBVIOUS
<1>1. /\ tabs \in Seq(Tab) /\ nextId \in 2..(MaxTabs + 1) /\ activeId \in IdsOf(tabs)
      /\ \A id \in IdsOf(tabs) : id < nextId
  BY StripIs DEF Ids
<1>2. \A i, j \in DOMAIN tabs : tabs[i].id = tabs[j].id => i = j
  <2>1. IsInjective(tabs) /\ \A t, u \in Range(tabs) : t.id = u.id => t = u
    BY StripIs
  <2>2. \A i \in DOMAIN tabs : tabs[i] \in Range(tabs)
    BY DEF Range
  <2> QED
    BY ONLY <2>1, <2>2 DEF IsInjective
<1> QED
  BY <1>1, <1>2 DEF ChromeTypeOK, ChromeInv, Budgeted

(* The type invariant, with what is in it beside types: no tab number is    *)
(* given twice, the active tab is in the strip, the list of recent tabs has *)
(* no tab twice, and the webviews that are not private stay within          *)
(* MAX_LIVE_TABS (chrome.js; state.rs).                                     *)
THEOREM ChromeTypeCorrect == ChromeSpec => []ChromeTypeOK
<1>1. ChromeInit => ChromeInv /\ Budgeted
  BY ChromeStarts, BudgetAtStart
<1>2. ChromeInv /\ Budgeted /\ [ChromeNext]_chromeVars => (ChromeInv /\ Budgeted)'
  BY ChromeKeeps, ChromeKeepsBudget
<1> QED
  BY <1>1, <1>2, ChromeTypes, PTL DEF ChromeSpec

(* The strip and the native side tell each other only of changes, in two    *)
(* streams; when both are empty they name the same tab, and a tab is dimmed *)
(* exactly when its webview is gone (chrome.js, webviews.rs, state.rs).     *)
THEOREM BothSidesAlwaysAgree == ChromeSpec => []BothSidesAgree
<1>1. ChromeInit => ChromeInv
  BY ChromeStarts
<1>2. ChromeInv /\ [ChromeNext]_chromeVars => ChromeInv'
  BY ChromeKeeps
<1>3. ChromeInv => BothSidesAgree
  BY ChromeAgrees
<1> QED
  BY <1>1, <1>2, <1>3, PTL DEF ChromeSpec

(* A private tab loads in a private webview or in none, is never dimmed for *)
(* want of webviews and is never written to the saved session, whatever is  *)
(* restored, evicted or under way (chrome.js:67-68, 216-219; state.rs:35-37).*)
THEOREM PrivateTabsAlwaysKeep == ChromeSpec => []PrivateTabsKeepTheirPromise
<1>1. ChromeInit => ChromeInv
  BY ChromeStarts
<1>2. ChromeInv /\ [ChromeNext]_chromeVars => ChromeInv'
  BY ChromeKeeps
<1>3. ChromeInv => PrivateTabsKeepTheirPromise
  BY ChromeKeepsPrivate
<1> QED
  BY <1>1, <1>2, <1>3, PTL DEF ChromeSpec

(* The strip, the row and the pane, whichever of them moves: their type     *)
(* invariants, with the budget of live webviews and the one thing that the  *)
(* row shows.                                                               *)
THEOREM BrowserTypesCorrect == BrowserSpec => []BrowserTypeOK
<1> DEFINE BrowserInv == (ChromeInv /\ Budgeted) /\ BarInv /\ PaneInv
           browserVars == <<subject, chromeVars, barVars, paneVars>>
<1>1. BrowserInit => BrowserInv
  BY ChromeStarts, BudgetAtStart, BarStarts, PaneInitially DEF BrowserInit
<1>2. BrowserInv /\ [BrowserNext]_browserVars => BrowserInv'
  <2> SUFFICES ASSUME BrowserInv, [BrowserNext]_browserVars PROVE BrowserInv'
    OBVIOUS
  <2>1. [ChromeNext]_chromeVars /\ [BarNext]_barVars /\ [PaneNext]_paneVars
    BY DEF BrowserNext
  <2>2. ChromeInv' /\ Budgeted'
    BY <2>1, ChromeKeeps, ChromeKeepsBudget
  <2>3. BarInv'
    BY <2>1, BarKeeps
  <2>4. PaneInv'
    BY <2>1, PaneInductive
  <2> QED
    BY <2>2, <2>3, <2>4
<1>3. BrowserInv => BrowserTypeOK
  BY ChromeTypes DEF BarInv, PaneInv, BrowserTypeOK
<1> QED
  BY <1>1, <1>2, <1>3, PTL DEF BrowserSpec
=============================================================================
