--------------------------- MODULE WorkspaceProofs ---------------------------
(***************************************************************************)
(* The four parts of the workspace page, for every number of shells, views, *)
(* panels and areas, every capacity and every bound.                       *)
(*                                                                         *)
(* A terminal is closed in the middle of its mount, so the invariant says  *)
(* at each await of mounted() what the view knows and hears, and who still *)
(* owes a shell its startup command.                                       *)
(*                                                                         *)
(* The page changes its copy before the LiveView answers.  A revision      *)
(* names one layout (RevisionNamesLayout), so a gesture the LiveView takes *)
(* as current was made on the layout it has; and the last thing on its way *)
(* down is what the LiveView has (LastIsDesk), so the page catches up.     *)
(*                                                                         *)
(* The strip of app tabs shows no page twice and what a request plans      *)
(* keeps the pages it must (TabsInv), whatever a stale answer or a second  *)
(* window writes in between.                                               *)
(*                                                                         *)
(* The paint filter is a recursive function of the text.  That it has the  *)
(* value its equation gives is shown first (StripPaintIs), then that a text *)
(* may be filtered in two parts (AllGoOn); the invariant follows.          *)
(***************************************************************************)
EXTENDS MCWorkspace, ListLemmas

(* The terminal views. *)

(* What the variables hold; a shell gets at most one startup command. *)
ShellsShape ==
    /\ view \in [Views -> View]
    /\ shell \in [Shells -> {"absent", "live", "exiting", "gone"}]
    /\ stored \in Shells \cup {NoShell}
    /\ typed \in [Shells -> 0..1]

(* A shell that is stored, or that a view was answered, was started; only *)
(* a started one gets a command. *)
Started(s) == s # NoShell => shell[s] # "absent"

StartedShells ==
    /\ Started(stored)
    /\ \A v \in Views : Started(view[v].answer)
    /\ \A s \in Shells : shell[s] = "absent" => typed[s] = 0

(* The awaits of mounted() before the answer that names the shell, before *)
(* the session id is taken from it, and after. *)
BeforeTheAnswer == {"absent", "fonts", "open"}
BeforeTheId == BeforeTheAnswer \cup {"attach", "attached", "opened"}
AfterTheId == {"data", "exit", "startup", "ready", "error", "closing"}

(* What a view knows and hears at each await. *)
InStep(x) ==
    /\ x.at \in BeforeTheAnswer => x.answer = NoShell
    /\ x.at \in BeforeTheId => x.id = NoShell /\ ~x.fresh /\ x.hears = {}
    /\ x.at \in {"opened", "closing"} => x.answer # NoShell
    /\ x.at \in AfterTheId => x.id \in {x.answer, NoShell}
    /\ x.at = "startup" => x.fresh
    /\ x.fresh => x.answer # NoShell
    /\ x.at = "over" => x.disposed \/ x.closed
    /\ x.at = "closing" => x.closed
    /\ x.disposed /\ x.at \in AtRest \cup {"startup", "closing"} => x.hears = {}

(* The id is the answered shell's, unless that shell is no longer alive. *)
IdIsKept(x) == x.at \in AfterTheId => x.id = x.answer \/ ~Alive(x.answer)
(* A view that was closed, and has come past its id, has no living shell. *)
ClosedIsEnded(x) == x.closed /\ x.at \in {"data", "exit", "startup"} \cup AtRest => ~Alive(x.answer)

ViewsInStep == \A v \in Views : InStep(view[v])
IdsAreKept == \A v \in Views : IdIsKept(view[v])
ClosedAreEnded == \A v \in Views : ClosedIsEnded(view[v])

(* Who will still type the startup command: nobody else does it to the *)
(* same shell. *)
Owes(v) == view[v].at = "opened" \/ (view[v].fresh /\ view[v].at \in {"data", "exit", "startup"})
CommandsAreOwed ==
    /\ \A v \in Views : Owes(v) => typed[view[v].answer] = 0
    /\ \A v, w \in Views : Owes(v) /\ Owes(w) /\ v # w => view[v].answer # view[w].answer

(* The inductive invariant. *)
TerminalInv ==
    ShellsShape /\ StartedShells /\ ViewsInStep /\ IdsAreKept /\ ClosedAreEnded /\ CommandsAreOwed

(* It holds at the start. *)
LEMMA TerminalInvInit == TermInit => TerminalInv
BY NoShellAssumption
   DEF TermInit, TerminalInv, ShellsShape, StartedShells, ViewsInStep, IdsAreKept, ClosedAreEnded,
       CommandsAreOwed, View, Unmounted, Started, InStep, IdIsKept, ClosedIsEnded, Owes

(* An answer is taken into a view. *)
LEMMA AnswerFits ==
    ASSUME NEW x \in View, NEW a \in Awaits, NEW s \in Shells
    PROVE  [x EXCEPT !.at = a, !.answer = s] \in View
BY DEF View

(* Every step keeps it: one step for each continuation of mounted() and for *)
(* each thing that happens to a shell. *)
LEMMA TerminalInvStep == TerminalInv /\ [TermNext]_termVars => TerminalInv'
<1> SUFFICES ASSUME TerminalInv, [TermNext]_termVars PROVE TerminalInv'
  OBVIOUS
<1> USE NoShellAssumption
<1> USE DEF TerminalInv, ShellsShape, View, Awaits, Alive
<1>1. ASSUME NEW v \in Views, Mount(v) PROVE TerminalInv'
  <2>1. ShellsShape'
    BY <1>1 DEF Mount, Goto
  <2>2. StartedShells'
    BY <1>1 DEF Mount, Goto, StartedShells, Started
  <2>3. ViewsInStep'
    BY <1>1 DEF Mount, Goto, ViewsInStep, InStep, BeforeTheAnswer, BeforeTheId
  <2>4. IdsAreKept'
    BY <1>1 DEF Mount, Goto, IdsAreKept, IdIsKept, ViewsInStep, InStep, BeforeTheAnswer
  <2>5. ClosedAreEnded'
    BY <1>1 DEF Mount, Goto, ClosedAreEnded, ClosedIsEnded, ViewsInStep, InStep, BeforeTheAnswer
  <2>6. CommandsAreOwed'
    BY <1>1 DEF Mount, Goto, CommandsAreOwed, Owes
  <2> QED
    BY <2>1, <2>2, <2>3, <2>4, <2>5, <2>6
<1>2. ASSUME NEW v \in Views, FontsReady(v) PROVE TerminalInv'
  <2>1. ShellsShape'
    <3>1. \A w \in Views : view'[w] \in View
      <4> SUFFICES ASSUME NEW w \in Views PROVE view'[w] \in View
        OBVIOUS
      <4>1. view[w] \in View /\ view[v] \in View
        OBVIOUS
      <4>2. CASE w # v
        BY <1>2, <4>1, <4>2 DEF FontsReady
      <4>3. CASE w = v
        <5>1. view'[v] = [view[v] EXCEPT !.at = IF Stopped(v) THEN "over"
                                                ELSE IF stored # NoShell THEN "attach" ELSE "open",
                                        !.answer = IF Stopped(v) THEN NoShell ELSE stored]
          BY <1>2, <4>1 DEF FontsReady
        <5>2. view'[v] \in View
          <6>1. CASE Stopped(v)
            BY <5>1, <6>1, <4>1
          <6>2. CASE ~Stopped(v) /\ stored # NoShell
            <7>1. view'[v] = [view[v] EXCEPT !.at = "attach", !.answer = stored]
              BY <5>1, <6>2
            <7>2. stored \in Shells
              BY <6>2
            <7>3. "attach" \in Awaits
              OBVIOUS
            <7>4. [view[v] EXCEPT !.at = "attach", !.answer = stored] \in View
              <8> HIDE DEF View, Awaits
              <8> QED
                BY <4>1, <7>2, <7>3, AnswerFits
            <7> QED
              BY <7>1, <7>4
          <6>3. CASE ~Stopped(v) /\ stored = NoShell
            BY <5>1, <6>3, <4>1
          <6> QED
            BY <6>1, <6>2, <6>3
        <5> QED
          BY <5>2, <4>3
      <4> QED
        BY <4>2, <4>3
    <3>2. view' = [w \in Views |-> view'[w]]
      BY <1>2 DEF FontsReady
    <3>3. view' \in [Views -> View]
      <4> HIDE DEF View
      <4> QED BY <3>1, <3>2
    <3> QED
      BY <1>2, <3>3 DEF FontsReady
  <2>2. StartedShells'
    BY <1>2 DEF FontsReady, StartedShells, Started
  <2>3. ViewsInStep'
    BY <1>2 DEF FontsReady, Stopped, ViewsInStep, InStep, BeforeTheAnswer, BeforeTheId
  <2>4. IdsAreKept'
    BY <1>2 DEF FontsReady, IdsAreKept, IdIsKept, ViewsInStep, InStep, BeforeTheAnswer
  <2>5. ClosedAreEnded'
    BY <1>2 DEF FontsReady, Stopped, ClosedAreEnded, ClosedIsEnded
  <2>6. CommandsAreOwed'
    BY <1>2 DEF FontsReady, CommandsAreOwed, Owes
  <2> QED
    BY <2>1, <2>2, <2>3, <2>4, <2>5, <2>6
<1>3. ASSUME NEW v \in Views, Attach(v) PROVE TerminalInv'
  <2>1. ShellsShape'
    <3>1. \A w \in Views : view'[w] \in View
      <4> SUFFICES ASSUME NEW w \in Views PROVE view'[w] \in View
        OBVIOUS
      <4>1. view[w] \in View /\ view[v] \in View
        OBVIOUS
      <4>2. CASE w # v
        BY <1>3, <4>1, <4>2 DEF Attach
      <4>3. CASE w = v
        <5>1. view'[v] = [view[v] EXCEPT !.at = "attached",
                                         !.answer = IF shell[@] \in {"live", "exiting"} THEN @ ELSE NoShell]
          BY <1>3, <4>1 DEF Attach
        <5>2. view'[v] \in View
          BY <5>1, <4>1
        <5> QED
          BY <5>2, <4>3
      <4> QED
        BY <4>2, <4>3
    <3>2. view' = [w \in Views |-> view'[w]]
      BY <1>3 DEF Attach
    <3>3. view' \in [Views -> View]
      <4> HIDE DEF View
      <4> QED BY <3>1, <3>2
    <3> QED
      BY <1>3, <3>3 DEF Attach
  <2>2. StartedShells'
    BY <1>3 DEF Attach, StartedShells, Started
  <2>3. ViewsInStep'
    BY <1>3 DEF Attach, ViewsInStep, InStep, BeforeTheAnswer, BeforeTheId
  <2>4. IdsAreKept'
    BY <1>3 DEF Attach, IdsAreKept, IdIsKept, AfterTheId
  <2>5. ClosedAreEnded'
    BY <1>3 DEF Attach, ClosedAreEnded, ClosedIsEnded, AtRest
  <2>6. CommandsAreOwed'
    BY <1>3 DEF Attach, CommandsAreOwed, Owes
  <2> QED
    BY <2>1, <2>2, <2>3, <2>4, <2>5, <2>6
<1>4. ASSUME NEW v \in Views, Attached(v) PROVE TerminalInv'
  <2>1. ShellsShape'
    BY <1>4 DEF Attached, AbortMount
  <2>2. StartedShells'
    BY <1>4 DEF Attached, AbortMount
  <2>3. ViewsInStep'
    BY <1>4 DEF Attached, AbortMount
  <2>4. IdsAreKept'
    BY <1>4 DEF Attached, AbortMount
  <2>5. ClosedAreEnded'
    BY <1>4 DEF Attached, AbortMount
  <2>6. CommandsAreOwed'
    BY <1>4 DEF Attached, AbortMount
  <2> QED
    BY <2>1, <2>2, <2>3, <2>4, <2>5, <2>6
<1>5. ASSUME NEW v \in Views, Open(v) PROVE TerminalInv'
  <2>1. ShellsShape'
    BY <1>5 DEF Open, Goto
  <2>2. StartedShells'
    BY <1>5 DEF Open, Goto, StartedShells, Started
  <2>3. ViewsInStep'
    BY <1>5 DEF Open, Goto, ViewsInStep, InStep, BeforeTheAnswer, BeforeTheId, AtRest
  <2>4. IdsAreKept'
    BY <1>5 DEF Open, Goto, IdsAreKept, IdIsKept, ViewsInStep, InStep, BeforeTheAnswer
  <2>5. ClosedAreEnded'
    BY <1>5 DEF Open, Goto, ClosedAreEnded, ClosedIsEnded, ViewsInStep, InStep, BeforeTheAnswer
  <2>6. CommandsAreOwed'
    BY <1>5, SMTT(30) DEF Open, Goto, CommandsAreOwed, Owes, StartedShells, Started
  <2> QED
    BY <2>1, <2>2, <2>3, <2>4, <2>5, <2>6
<1>6. ASSUME NEW v \in Views, Opened(v) PROVE TerminalInv'
  <2>1. ShellsShape'
    BY <1>6 DEF Opened, AbortMount
  <2>2. StartedShells'
    BY <1>6 DEF Opened, AbortMount
  <2>3. ViewsInStep'
    BY <1>6 DEF Opened, AbortMount
  <2>4. IdsAreKept'
    BY <1>6 DEF Opened, AbortMount
  <2>5. ClosedAreEnded'
    BY <1>6 DEF Opened, AbortMount
  <2>6. CommandsAreOwed'
    BY <1>6 DEF Opened, AbortMount
  <2> QED
    BY <2>1, <2>2, <2>3, <2>4, <2>5, <2>6
<1>7. ASSUME NEW v \in Views, ListenData(v) PROVE TerminalInv'
  <2>1. ShellsShape'
    <3>1. \A w \in Views : view'[w] \in View
      <4> SUFFICES ASSUME NEW w \in Views PROVE view'[w] \in View
        OBVIOUS
      <4>1. view[w] \in View /\ view[v] \in View
        OBVIOUS
      <4>2. CASE w # v
        BY <1>7, <4>1, <4>2 DEF ListenData
      <4>3. CASE w = v
        BY <1>7, <4>1, <4>3 DEF ListenData
      <4> QED
        BY <4>2, <4>3
    <3>2. view' = [w \in Views |-> view'[w]]
      BY <1>7 DEF ListenData
    <3>3. view' \in [Views -> View]
      <4> HIDE DEF View
      <4> QED BY <3>1, <3>2
    <3> QED
      BY <1>7, <3>3 DEF ListenData
  <2>2. StartedShells'
    BY <1>7 DEF ListenData, StartedShells, Started
  <2>3. ViewsInStep'
    BY <1>7 DEF ListenData, ViewsInStep, InStep, BeforeTheAnswer, BeforeTheId, AfterTheId, AtRest
  <2>4. IdsAreKept'
    BY <1>7 DEF ListenData, IdsAreKept, IdIsKept, AfterTheId
  <2>5. ClosedAreEnded'
    BY <1>7 DEF ListenData, ClosedAreEnded, ClosedIsEnded
  <2>6. CommandsAreOwed'
    BY <1>7 DEF ListenData, CommandsAreOwed, Owes
  <2> QED
    BY <2>1, <2>2, <2>3, <2>4, <2>5, <2>6
<1>8. ASSUME NEW v \in Views, ListenExit(v) PROVE TerminalInv'
  <2>1. ShellsShape'
    <3>1. \A w \in Views : view'[w] \in View
      <4> SUFFICES ASSUME NEW w \in Views PROVE view'[w] \in View
        OBVIOUS
      <4>1. view[w] \in View /\ view[v] \in View
        OBVIOUS
      <4>2. CASE w # v
        BY <1>8, <4>1, <4>2 DEF ListenExit
      <4>3. CASE w = v
        BY <1>8, <4>1, <4>3 DEF ListenExit, AbortMount, HearsUnlessStopped
      <4> QED
        BY <4>2, <4>3
    <3>2. view' = [w \in Views |-> view'[w]]
      BY <1>8 DEF ListenExit
    <3>3. view' \in [Views -> View]
      <4> HIDE DEF View
      <4> QED BY <3>1, <3>2
    <3> QED
      BY <1>8, <3>3 DEF ListenExit
  <2>2. StartedShells'
    BY <1>8 DEF ListenExit, StartedShells, Started
  <2>3. ViewsInStep'
    <3>1. InStep(view[v])
      BY DEF ViewsInStep
    <3>2. InStep(view'[v])
      BY <1>8, <3>1
         DEF ListenExit, Stopped, AbortMount, HearsUnlessStopped, InStep, BeforeTheAnswer, BeforeTheId,
             AfterTheId
    <3>3. \A w \in Views : w # v => view'[w] = view[w]
      BY <1>8 DEF ListenExit
    <3> HIDE DEF View
    <3> QED
      BY <3>2, <3>3 DEF ViewsInStep
  <2>4. IdsAreKept'
    BY <1>8 DEF ListenExit, IdsAreKept, IdIsKept, AfterTheId
  <2>5. ClosedAreEnded'
    BY <1>8 DEF ListenExit, ClosedAreEnded, ClosedIsEnded
  <2>6. CommandsAreOwed'
    BY <1>8 DEF ListenExit, AbortMount, CommandsAreOwed, Owes
  <2> QED
    BY <2>1, <2>2, <2>3, <2>4, <2>5, <2>6
<1>9. ASSUME NEW v \in Views, AbortClose(v) PROVE TerminalInv'
  <2>1. ShellsShape'
    <3>1. \A w \in Views : view'[w] \in View
      <4> SUFFICES ASSUME NEW w \in Views PROVE view'[w] \in View
        OBVIOUS
      <4>1. view[w] \in View /\ view[v] \in View
        OBVIOUS
      <4>2. CASE w # v
        BY <1>9, <4>1, <4>2 DEF AbortClose
      <4>3. CASE w = v
        BY <1>9, <4>1, <4>3 DEF AbortClose
      <4> QED
        BY <4>2, <4>3
    <3>2. view' = [w \in Views |-> view'[w]]
      BY <1>9 DEF AbortClose
    <3>3. view' \in [Views -> View]
      <4> HIDE DEF View
      <4> QED BY <3>1, <3>2
    <3> QED
      BY <1>9, <3>3 DEF AbortClose, Kill
  <2>2. StartedShells'
    BY <1>9 DEF AbortClose, Kill, StartedShells, Started
  <2>3. ViewsInStep'
    BY <1>9 DEF AbortClose, ViewsInStep, InStep, BeforeTheAnswer, BeforeTheId
  <2>4. IdsAreKept'
    BY <1>9 DEF AbortClose, Kill, IdsAreKept, IdIsKept, AfterTheId
  <2>5. ClosedAreEnded'
    BY <1>9 DEF AbortClose, Kill, ClosedAreEnded, ClosedIsEnded, AfterTheId, IdsAreKept, IdIsKept
  <2>6. CommandsAreOwed'
    BY <1>9 DEF AbortClose, CommandsAreOwed, Owes
  <2> QED
    BY <2>1, <2>2, <2>3, <2>4, <2>5, <2>6
<1>10. ASSUME NEW v \in Views, RunStartupCommand(v) PROVE TerminalInv'
  <2>1. ShellsShape'
    BY <1>10
       DEF RunStartupCommand, Goto, StartupDue, StartedShells, CommandsAreOwed, Owes, ViewsInStep,
           InStep, AfterTheId
  <2>2. StartedShells'
    BY <1>10 DEF RunStartupCommand, Goto, StartedShells, Started
  <2>3. ViewsInStep'
    BY <1>10
       DEF RunStartupCommand, Goto, StartupDue, ViewsInStep, InStep, BeforeTheAnswer, BeforeTheId,
           AfterTheId
  <2>4. IdsAreKept'
    <3>1. \A w \in Views : view'[w].id = view[w].id /\ view'[w].answer = view[w].answer
                            /\ (view'[w].at \in AfterTheId => view[w].at \in AfterTheId)
      BY <1>10 DEF RunStartupCommand, StartupDue, Goto, AfterTheId
    <3>2. shell' = shell
      BY <1>10 DEF RunStartupCommand
    <3> HIDE DEF View
    <3> QED
      BY <3>1, <3>2 DEF IdsAreKept, IdIsKept
  <2>5. ClosedAreEnded'
    BY <1>10 DEF RunStartupCommand, Goto, StartupDue, ClosedAreEnded, ClosedIsEnded
  <2>6. CommandsAreOwed'
    <3>1. view[v].at = "startup" /\ Owes(v) /\ view[v].id \in {view[v].answer, NoShell}
      BY <1>10 DEF RunStartupCommand, StartupDue, Owes, ViewsInStep, InStep, AfterTheId
    <3>2. \A w \in Views : w # v => view'[w] = view[w]
      BY <1>10 DEF RunStartupCommand, Goto
    <3>3. view'[v].at \in {"ready", "error"}
      BY <1>10 DEF RunStartupCommand, Goto
    <3>4. \A s \in Shells : s # view[v].answer => typed'[s] = typed[s]
      BY <1>10, <3>1 DEF RunStartupCommand
    <3>5. ~Owes(v)' /\ \A w \in Views : w # v => (Owes(w)' => Owes(w)) /\ view'[w].answer = view[w].answer
      BY <3>2, <3>3 DEF Owes
    <3>6. \A w \in Views : Owes(w) => view[w].answer \in Shells
      BY DEF Owes, ViewsInStep, InStep
    <3> QED
      BY <3>1, <3>4, <3>5, <3>6 DEF CommandsAreOwed
  <2> QED
    BY <2>1, <2>2, <2>3, <2>4, <2>5, <2>6
<1>11. ASSUME NEW v \in Views, Destroyed(v) PROVE TerminalInv'
  <2>1. ShellsShape'
    <3>1. \A w \in Views : view'[w] \in View
      <4> SUFFICES ASSUME NEW w \in Views PROVE view'[w] \in View
        OBVIOUS
      <4>1. view[w] \in View /\ view[v] \in View
        OBVIOUS
      <4>2. CASE w # v
        BY <1>11, <4>1, <4>2 DEF Destroyed
      <4>3. CASE w = v
        <5>1. view'[v] = [view[v] EXCEPT !.disposed = TRUE, !.hears = {}]
          BY <1>11, <4>1 DEF Destroyed
        <5>2. view'[v] \in View
          BY <5>1, <4>1
        <5> QED
          BY <5>2, <4>3
      <4> QED
        BY <4>2, <4>3
    <3>2. view' = [w \in Views |-> view'[w]]
      BY <1>11 DEF Destroyed
    <3>3. view' \in [Views -> View]
      <4> HIDE DEF View
      <4> QED BY <3>1, <3>2
    <3> QED
      BY <1>11, <3>3 DEF Destroyed
  <2>2. StartedShells'
    BY <1>11 DEF Destroyed, StartedShells, Started
  <2>3. ViewsInStep'
    BY <1>11 DEF Destroyed, ViewsInStep, InStep
  <2>4. IdsAreKept'
    BY <1>11 DEF Destroyed, IdsAreKept, IdIsKept
  <2>5. ClosedAreEnded'
    BY <1>11 DEF Destroyed, ClosedAreEnded, ClosedIsEnded
  <2>6. CommandsAreOwed'
    BY <1>11 DEF Destroyed, CommandsAreOwed, Owes
  <2> QED
    BY <2>1, <2>2, <2>3, <2>4, <2>5, <2>6
<1>12. ASSUME NEW v \in Views, CloseSession(v) PROVE TerminalInv'
  <2>1. ShellsShape'
    <3>1. \A w \in Views : view'[w] \in View
      <4> SUFFICES ASSUME NEW w \in Views PROVE view'[w] \in View
        OBVIOUS
      <4>1. view[w] \in View /\ view[v] \in View
        OBVIOUS
      <4>2. CASE w # v
        BY <1>12, <4>1, <4>2 DEF CloseSession
      <4>3. CASE w = v
        <5>1. view'[v] = [view[v] EXCEPT !.closed = TRUE, !.id = NoShell]
          BY <1>12, <4>1 DEF CloseSession
        <5>2. view'[v] \in View
          BY <5>1, <4>1
        <5> QED
          BY <5>2, <4>3
      <4> QED
        BY <4>2, <4>3
    <3>2. view' = [w \in Views |-> view'[w]]
      BY <1>12 DEF CloseSession
    <3>3. view' \in [Views -> View]
      <4> HIDE DEF View
      <4> QED BY <3>1, <3>2
    <3> QED
      BY <1>12, <3>3 DEF CloseSession, Kill
  <2>2. StartedShells'
    BY <1>12 DEF CloseSession, Kill, StartedShells, Started
  <2>3. ViewsInStep'
    BY <1>12 DEF CloseSession, ViewsInStep, InStep
  <2>4. IdsAreKept'
    BY <1>12 DEF CloseSession, Kill, IdsAreKept, IdIsKept
  <2>5. ClosedAreEnded'
    BY <1>12
       DEF CloseSession, Kill, OnPage, ClosedAreEnded, ClosedIsEnded, ViewsInStep, InStep, AfterTheId,
           IdsAreKept, IdIsKept, AtRest
  <2>6. CommandsAreOwed'
    BY <1>12 DEF CloseSession, CommandsAreOwed, Owes
  <2> QED
    BY <2>1, <2>2, <2>3, <2>4, <2>5, <2>6
<1>13. ASSUME NEW s \in Shells, ShellExits(s) PROVE TerminalInv'
  <2>1. ShellsShape'
    BY <1>13 DEF ShellExits
  <2>2. StartedShells'
    BY <1>13 DEF ShellExits, StartedShells, Started
  <2>3. ViewsInStep'
    BY <1>13 DEF ShellExits, ViewsInStep, InStep
  <2>4. IdsAreKept'
    BY <1>13 DEF ShellExits, IdsAreKept, IdIsKept
  <2>5. ClosedAreEnded'
    BY <1>13 DEF ShellExits, ClosedAreEnded, ClosedIsEnded
  <2>6. CommandsAreOwed'
    BY <1>13 DEF ShellExits, CommandsAreOwed, Owes
  <2> QED
    BY <2>1, <2>2, <2>3, <2>4, <2>5, <2>6
<1>14. ASSUME NEW s \in Shells, Reap(s) PROVE TerminalInv'
  <2>1. ShellsShape'
    BY <1>14 DEF Reap
  <2>2. StartedShells'
    BY <1>14 DEF Reap, StartedShells, Started
  <2>3. ViewsInStep'
    BY <1>14 DEF Reap, ViewsInStep
  <2>4. IdsAreKept'
    BY <1>14 DEF Reap, IdsAreKept, IdIsKept
  <2>5. ClosedAreEnded'
    BY <1>14 DEF Reap, ClosedAreEnded, ClosedIsEnded
  <2>6. CommandsAreOwed'
    BY <1>14 DEF Reap, CommandsAreOwed, Owes
  <2> QED
    BY <2>1, <2>2, <2>3, <2>4, <2>5, <2>6
<1>15. ASSUME PageLoad PROVE TerminalInv'
  <2> DEFINE Left(x) == [x EXCEPT !.at = "unloaded", !.disposed = TRUE, !.hears = {}]
  <2>1. \A w \in Views : view[w].at # "absent" => view'[w] = Left(view[w])
    BY <1>15 DEF PageLoad
  <2>2. \A w \in Views : view[w].at = "absent" => view'[w] = view[w]
    BY <1>15 DEF PageLoad
  <2>3. shell' = shell /\ stored' = stored /\ typed' = typed
    BY <1>15 DEF PageLoad
  <2>4. ASSUME NEW x \in View
        PROVE  Left(x) \in View /\ Left(x).at = "unloaded" /\ Left(x).answer = x.answer /\ Left(x).fresh = x.fresh
    BY <2>4
  <2>5. ShellsShape'
    <3>1. view' = [w \in Views |-> view'[w]]
      BY <1>15 DEF PageLoad
    <3>2. \A w \in Views : view'[w] \in View
      <4> SUFFICES ASSUME NEW w \in Views PROVE view'[w] \in View
        OBVIOUS
      <4> HIDE DEF View, Left
      <4> QED
        BY <2>1, <2>2, <2>4
    <3>3. view' \in [Views -> View]
      <4> HIDE DEF View
      <4> QED
        BY <3>1, <3>2
    <3> QED
      BY <3>3, <2>3
  <2>6. \A w \in Views : /\ view'[w].answer = view[w].answer /\ view'[w].fresh = view[w].fresh
                         /\ view'[w] = view[w] \/ view'[w].at = "unloaded"
    <3> HIDE DEF View, Left
    <3> QED
      BY <2>1, <2>2, <2>4
  <2>7. StartedShells'
    <3>1. ASSUME NEW w \in Views PROVE Started(view[w].answer)'
      <4>1. Started(view[w].answer)
        BY DEF StartedShells
      <4>2. view'[w].answer = view[w].answer
        BY <2>6
      <4> HIDE DEF View
      <4> QED
        BY <4>1, <4>2, <2>3 DEF Started
    <3>2. Started(stored)' /\ \A s \in Shells : shell'[s] = "absent" => typed'[s] = 0
      BY <2>3 DEF StartedShells, Started
    <3> QED
      BY <3>1, <3>2 DEF StartedShells
  <2>8. ViewsInStep'
    <3>1. ASSUME NEW w \in Views PROVE InStep(view'[w])
      <4>1. InStep(view[w])
        BY DEF ViewsInStep
      <4>2. CASE view'[w] = view[w]
        BY <4>1, <4>2
      <4>3. CASE view'[w].at = "unloaded"
        <5>1. view'[w].answer = view[w].answer /\ view'[w].fresh = view[w].fresh
          BY <2>6
        <5>2. view[w].fresh => view[w].answer # NoShell
          BY <4>1 DEF InStep
        <5> HIDE DEF View
        <5> QED
          BY <4>3, <5>1, <5>2 DEF InStep, BeforeTheAnswer, BeforeTheId, AfterTheId, AtRest
      <4> QED
        BY <4>2, <4>3, <2>6
    <3> QED
      BY <3>1 DEF ViewsInStep
  <2>9. IdsAreKept'
    <3> HIDE DEF View, Left
    <3> QED
      BY <2>3, <2>6 DEF IdsAreKept, IdIsKept, AfterTheId
  <2>10. ClosedAreEnded'
    <3> HIDE DEF View, Left
    <3> QED
      BY <2>3, <2>6 DEF ClosedAreEnded, ClosedIsEnded, AtRest
  <2>11. CommandsAreOwed'
    <3>1. \A w \in Views : Owes(w)' => Owes(w) /\ view'[w].answer = view[w].answer
      BY <2>6 DEF Owes
    <3> QED
      BY <3>1, <2>3 DEF CommandsAreOwed
  <2> QED
    BY <2>5, <2>7, <2>8, <2>9, <2>10, <2>11
<1>16. CASE UNCHANGED termVars
  BY <1>16
     DEF termVars, StartedShells, Started, ViewsInStep, IdsAreKept, ClosedAreEnded, CommandsAreOwed,
         IdIsKept, ClosedIsEnded, Owes
<1> QED
  BY <1>1, <1>2, <1>3, <1>4, <1>5, <1>6, <1>7, <1>8, <1>9, <1>10, <1>11, <1>12, <1>13, <1>14, <1>15,
     <1>16
     DEF TermNext, MountStep

(* So it always holds. *)
LEMMA TerminalAlways == TermSpec => []TerminalInv
BY TerminalInvInit, TerminalInvStep, PTL DEF TermSpec

(* Views, shells and listeners stay well formed: no listener of a view that *)
(* is gone, at most one startup command for a shell (hooks/terminal.js). *)
THEOREM TermTypeCorrect == TermSpec => []TermTypeOK
<1>1. TerminalInv => TermTypeOK
  BY DEF TerminalInv, ShellsShape, ViewsInStep, InStep, TermTypeOK
<1> QED
  BY <1>1, TerminalAlways, PTL

(* A terminal closed at any await of mounted() leaves no shell that lives on *)
(* (abortMount and closeSession of hooks/terminal.js). *)
THEOREM ClosedShellsAlwaysEnd == TermSpec => []ClosedShellsEnd
<1>1. TerminalInv => ClosedShellsEnd
  BY DEF TerminalInv, ClosedAreEnded, ClosedIsEnded, ClosedShellsEnd
<1> QED
  BY <1>1, TerminalAlways, PTL

-----------------------------------------------------------------------------
(* The work areas. *)

(* An event on its way to the LiveView. *)
Sent == [event : {"focus", "select", "reorder", "resize", "close", "area"}, key : Keys \cup {Nothing},
         area : Areas \cup {Nothing}, revision : Nat, order : Seq(Keys), base : Seq(Keys), found : SUBSET Terminals]
(* Two orders of the same panels. *)
Perm(s, t) == Len(s) = Len(t) /\ Range(s) = Range(t)
(* What an answer does to the layout and its revision. *)
KeepsOrBumps(d, n) == (n.revision = d.revision /\ n.panes = d.panes) \/ n.revision = d.revision + 1

(* Sliding a panel one slot over only changes the order of the panels *)
(* (reorderKeys of lib/workbench.js). *)
LEMMA SlidePermutes ==
    ASSUME NEW keys \in Seq(Keys), NEW key \in Range(keys), NEW target \in Range(keys)
    PROVE  ReorderKeys(keys, key, target) \in Seq(Keys) /\ Perm(ReorderKeys(keys, key, target), keys)
<1> DEFINE from == CHOOSE i \in DOMAIN keys : keys[i] = key
           to == CHOOSE i \in DOMAIN keys : keys[i] = target
           rest == RemoveAt(keys, from)
<1>1. from \in DOMAIN keys /\ keys[from] = key /\ to \in DOMAIN keys
  BY DEF Range
<1>2. DOMAIN keys = 1..Len(keys) /\ Len(keys) \in Nat /\ key \in Keys
  BY DEF Range
<1> HIDE DEF from, to
<1>3. /\ rest \in Seq(Keys) /\ Len(rest) = Len(keys) - 1
      /\ Range(rest) \subseteq Range(keys) /\ Range(keys) \subseteq Range(rest) \cup {key}
  BY <1>1, <1>2, RemoveAtRange
<1> HIDE DEF rest
<1>4. to \in 1..(Len(rest) + 1) /\ Len(rest) + 1 = Len(keys)
  BY <1>1, <1>2, <1>3
<1>5. /\ InsertAt(rest, to, key) \in Seq(Keys) /\ Len(InsertAt(rest, to, key)) = Len(rest) + 1
      /\ Range(InsertAt(rest, to, key)) = Range(rest) \cup {key}
  BY <1>2, <1>3, <1>4, InsertAtRange
<1>6. ReorderKeys(keys, key, target) = InsertAt(rest, to, key)
  BY DEF ReorderKeys, from, to, rest
<1> QED
  BY <1>3, <1>4, <1>5, <1>6 DEF Perm

(* A record with the fields of an arrangement is one. *)
LEMMA IsArrangement ==
    ASSUME NEW n, n = [open |-> n.open, panes |-> n.panes, focus |-> n.focus,
                       active |-> n.active, next |-> n.next, revision |-> n.revision],
           n.open \in SUBSET Areas, n.panes \in [Areas -> Seq(Keys)], n.focus \in [Areas -> Keys \cup {Nothing}],
           n.active \in Areas, n.next \in Nat, n.revision \in Nat
    PROVE  n \in Arrangement
BY DEF Arrangement

(* The fields of an arrangement. *)
LEMMA FieldsOfArrangement ==
    ASSUME NEW n \in Arrangement
    PROVE  /\ n.open \in SUBSET Areas /\ n.panes \in [Areas -> Seq(Keys)]
           /\ n.focus \in [Areas -> Keys \cup {Nothing}]
           /\ n.active \in Areas /\ n.next \in Nat /\ n.revision \in Nat
BY DEF Arrangement

(* Closing a panel takes one slot out of its area and moves the focus if it *)
(* was there. *)
LEMMA WithoutFields ==
    ASSUME NEW d \in Arrangement, NEW a \in Areas, NEW key \in Leaves(d, a)
    PROVE  \E k \in 1..Len(d.panes[a]) :
             LET n == Without(d, a, key)
                 rest == RemoveAt(d.panes[a], k)
             IN  /\ d.panes[a][k] = key /\ n \in Arrangement
                 /\ n.open = d.open /\ n.active = d.active /\ n.next = d.next /\ n.revision = d.revision + 1
                 /\ n.panes[a] = rest /\ n.focus[a] = FocusAfter(d.focus[a], key, rest)
                 /\ \A b \in Areas \ {a} : n.panes[b] = d.panes[b] /\ n.focus[b] = d.focus[b]
<1> DEFINE panes == d.panes[a]
           k == CHOOSE i \in DOMAIN panes : panes[i] = key
           rest == RemoveAt(panes, k)
           n == Without(d, a, key)
<1>1. panes \in Seq(Keys) /\ key \in Range(panes)
  BY DEF Arrangement, Leaves
<1>2. k \in 1..Len(panes) /\ panes[k] = key
  BY <1>1 DEF Range
<1> HIDE DEF k, panes
<1>3. rest \in Seq(Keys)
  BY <1>1, <1>2, RemoveAtRange
<1>4. FirstOr(rest) \in Keys \cup {Nothing}
  BY <1>3 DEF FirstOr
<1>5. n = [d EXCEPT !.panes[a] = rest, !.focus[a] = FocusAfter(@, key, rest), !.revision = @ + 1]
  BY DEF Without, Bumped, k, panes
<1> HIDE DEF rest, n
<1>6. d.focus[a] \in Keys \cup {Nothing}
  BY DEF Arrangement
<1>7. FocusAfter(d.focus[a], key, rest) \in Keys \cup {Nothing}
  BY <1>4, <1>6 DEF FocusAfter
<1>8. /\ n.open = d.open /\ n.active = d.active /\ n.next = d.next /\ n.revision = d.revision + 1
      /\ n.panes = [d.panes EXCEPT ![a] = rest]
      /\ n.focus = [d.focus EXCEPT ![a] = FocusAfter(d.focus[a], key, rest)]
      /\ n = [open |-> n.open, panes |-> n.panes, focus |-> n.focus,
              active |-> n.active, next |-> n.next, revision |-> n.revision]
  BY <1>5 DEF Arrangement
<1>9. n \in Arrangement
  <2>1. n.panes \in [Areas -> Seq(Keys)]
    BY <1>3, <1>8, FieldsOfArrangement
  <2>2. n.focus \in [Areas -> Keys \cup {Nothing}]
    BY <1>7, <1>8, FieldsOfArrangement
  <2>3. n.open \in SUBSET Areas /\ n.active \in Areas /\ n.next \in Nat /\ n.revision \in Nat
    BY <1>8, FieldsOfArrangement
  <2> QED
    BY <1>8, <2>1, <2>2, <2>3, IsArrangement
<1>10. /\ n.panes[a] = rest /\ n.focus[a] = FocusAfter(d.focus[a], key, rest)
       /\ \A b \in Areas \ {a} : n.panes[b] = d.panes[b] /\ n.focus[b] = d.focus[b]
  BY <1>8, FieldsOfArrangement
<1> QED
  BY <1>2, <1>8, <1>9, <1>10 DEF rest, n, panes

(* Closing an area empties it and selects the first area if it was selected. *)
LEMMA AreaFields ==
    ASSUME NEW d \in Arrangement, NEW a \in d.open \ {1}
    PROVE  LET n == DeskClosesArea(d, a) IN
           /\ a \in Areas /\ n \in Arrangement
           /\ n.open = d.open \ {a} /\ n.next = d.next /\ n.revision = d.revision + 1
           /\ n.active = IF d.active = a THEN 1 ELSE d.active
           /\ n.panes[a] = <<>> /\ n.focus[a] = Nothing
           /\ \A b \in Areas \ {a} : n.panes[b] = d.panes[b] /\ n.focus[b] = d.focus[b]
<1> DEFINE n == DeskClosesArea(d, a)
<1>1. a \in Areas /\ <<>> \in Seq(Keys)
  BY DEF Arrangement
<1>2. n = [d EXCEPT !.open = @ \ {a}, !.panes[a] = <<>>, !.focus[a] = Nothing,
                    !.active = IF @ = a THEN 1 ELSE @, !.revision = @ + 1]
  BY DEF DeskClosesArea, Bumped
<1> HIDE DEF n
<1>3. /\ n.open = d.open \ {a} /\ n.next = d.next /\ n.revision = d.revision + 1
      /\ n.active = IF d.active = a THEN 1 ELSE d.active
      /\ n.panes = [d.panes EXCEPT ![a] = <<>>] /\ n.focus = [d.focus EXCEPT ![a] = Nothing]
      /\ n = [open |-> n.open, panes |-> n.panes, focus |-> n.focus,
              active |-> n.active, next |-> n.next, revision |-> n.revision]
  BY <1>1, <1>2 DEF Arrangement
<1>4. n \in Arrangement
  <2>1. n.panes \in [Areas -> Seq(Keys)]
    BY <1>1, <1>3, FieldsOfArrangement
  <2>2. n.focus \in [Areas -> Keys \cup {Nothing}]
    BY <1>1, <1>3, FieldsOfArrangement
  <2>3. n.open \in SUBSET Areas /\ n.active \in Areas /\ n.next \in Nat /\ n.revision \in Nat
    BY <1>3, AreasAssumption, FieldsOfArrangement
  <2> QED
    BY <1>3, <2>1, <2>2, <2>3, IsArrangement
<1>5. /\ n.panes[a] = <<>> /\ n.focus[a] = Nothing
      /\ \A b \in Areas \ {a} : n.panes[b] = d.panes[b] /\ n.focus[b] = d.focus[b]
  BY <1>1, <1>3, FieldsOfArrangement
<1> QED
  BY <1>1, <1>3, <1>4, <1>5 DEF n

(* Placing a panel appends it to its area, which is then open and active. *)
LEMMA OpenedFields ==
    ASSUME NEW c \in Arrangement, NEW a \in Areas, NEW key \in Keys
    PROVE  LET n == OpenedIn(c, a, key) IN
           /\ n \in Arrangement
           /\ n.open = c.open \cup {a} /\ n.active = a /\ n.next = c.next /\ n.revision = c.revision + 1
           /\ n.panes[a] = Append(c.panes[a], key) /\ n.focus[a] = key
           /\ \A b \in Areas \ {a} : n.panes[b] = c.panes[b] /\ n.focus[b] = c.focus[b]
<1> DEFINE n == OpenedIn(c, a, key)
           panes == Append(c.panes[a], key)
<1>1. panes \in Seq(Keys)
  <2>1. c.panes[a] \in Seq(Keys)
    BY DEF Arrangement
  <2> QED
    BY <2>1
<1>2. n = [c EXCEPT !.panes[a] = panes, !.focus[a] = key, !.active = a, !.open = @ \cup {a}, !.revision = @ + 1]
  BY DEF OpenedIn, Bumped
<1> HIDE DEF n, panes
<1>3. /\ n.open = c.open \cup {a} /\ n.active = a /\ n.next = c.next /\ n.revision = c.revision + 1
      /\ n.panes = [c.panes EXCEPT ![a] = panes] /\ n.focus = [c.focus EXCEPT ![a] = key]
      /\ n = [open |-> n.open, panes |-> n.panes, focus |-> n.focus,
              active |-> n.active, next |-> n.next, revision |-> n.revision]
  BY <1>2 DEF Arrangement
<1>4. n \in Arrangement
  <2>1. n.panes \in [Areas -> Seq(Keys)]
    BY <1>1, <1>3, FieldsOfArrangement
  <2>2. n.focus \in [Areas -> Keys \cup {Nothing}]
    BY <1>1, <1>3, FieldsOfArrangement
  <2>3. n.open \in SUBSET Areas /\ n.active \in Areas /\ n.next \in Nat /\ n.revision \in Nat
    BY <1>3, FieldsOfArrangement
  <2> QED
    BY <1>3, <2>1, <2>2, <2>3, IsArrangement
<1>5. /\ n.panes[a] = panes /\ n.focus[a] = key
      /\ \A b \in Areas \ {a} : n.panes[b] = c.panes[b] /\ n.focus[b] = c.focus[b]
  BY <1>3, FieldsOfArrangement
<1> QED
  BY <1>3, <1>4, <1>5 DEF n, panes

(* Taking an area number changes nothing else. *)
LEMMA NumberTaken ==
    ASSUME NEW d \in Arrangement
    PROVE  LET c == [d EXCEPT !.next = @ + 1] IN
           /\ c \in Arrangement /\ c.open = d.open /\ c.active = d.active /\ c.next = d.next + 1
           /\ c.focus = d.focus /\ c.revision = d.revision /\ c.panes = d.panes
<1> DEFINE n == [d EXCEPT !.next = @ + 1]
<1>1. /\ n.open = d.open /\ n.active = d.active /\ n.next = d.next + 1 /\ n.focus = d.focus
      /\ n.revision = d.revision /\ n.panes = d.panes
      /\ n = [open |-> n.open, panes |-> n.panes, focus |-> n.focus,
              active |-> n.active, next |-> n.next, revision |-> n.revision]
  BY DEF Arrangement
<1> HIDE DEF n
<1>2. n \in Arrangement
  BY <1>1, FieldsOfArrangement, IsArrangement
<1> QED
  BY <1>1, <1>2 DEF n

(* Closing a panel gives an arrangement, bumps the revision if the layout *)
(* changed, and adds no panel. *)
LEMMA CloseKeeps ==
    ASSUME NEW d \in Arrangement, NEW key
    PROVE  /\ DeskCloses(d, key) \in Arrangement
           /\ KeepsOrBumps(d, DeskCloses(d, key))
           /\ AllKeys(DeskCloses(d, key)) \subseteq AllKeys(d)
<1>1. CASE key \notin AllKeys(d)
  BY <1>1 DEF DeskCloses, KeepsOrBumps
<1>2. CASE key \in AllKeys(d)
  <2> DEFINE a == Holder(d, key)
             n == Without(d, a, key)
  <2>1. a \in Areas /\ key \in Leaves(d, a) /\ DeskCloses(d, key) = n
    BY <1>2 DEF AllKeys, Holder, DeskCloses
  <2> HIDE DEF a
  <2>2. PICK k \in 1..Len(d.panes[a]) :
          /\ n \in Arrangement /\ n.revision = d.revision + 1
          /\ n.panes[a] = RemoveAt(d.panes[a], k) /\ \A b \in Areas \ {a} : n.panes[b] = d.panes[b]
    BY <2>1, WithoutFields
  <2>3. d.panes[a] \in Seq(Keys)
    BY <2>1, FieldsOfArrangement
  <2> DEFINE rest == RemoveAt(d.panes[a], k)
  <2>4. Range(rest) \subseteq Range(d.panes[a])
    BY <2>2, <2>3, RemoveAtRange
  <2>5. n.panes[a] = rest
    BY <2>2
  <2> HIDE DEF rest
  <2>6. \A b \in Areas : Leaves(n, b) \subseteq Leaves(d, b)
    BY <2>2, <2>4, <2>5 DEF Leaves
  <2> QED
    BY <2>1, <2>2, <2>6 DEF AllKeys, KeepsOrBumps
<1> QED
  BY <1>1, <1>2

(* The same of closing an area. *)
LEMMA AreaCloseKeeps ==
    ASSUME NEW d \in Arrangement, NEW a
    PROVE  /\ DeskClosesArea(d, a) \in Arrangement
           /\ KeepsOrBumps(d, DeskClosesArea(d, a))
           /\ AllKeys(DeskClosesArea(d, a)) \subseteq AllKeys(d)
<1>1. CASE a \notin d.open \ {1}
  BY <1>1 DEF DeskClosesArea, KeepsOrBumps
<1>2. CASE a \in d.open \ {1}
  <2> DEFINE n == DeskClosesArea(d, a)
  <2>1. a \in Areas /\ n \in Arrangement /\ n.revision = d.revision + 1
        /\ n.panes[a] = <<>> /\ \A b \in Areas \ {a} : n.panes[b] = d.panes[b]
    BY <1>2, AreaFields
  <2> HIDE DEF n
  <2>2. \A b \in Areas : Leaves(n, b) \subseteq Leaves(d, b)
    BY <2>1, FieldsOfArrangement DEF Leaves, Range
  <2> QED
    BY <2>1, <2>2 DEF AllKeys, KeepsOrBumps, n
<1> QED
  BY <1>1, <1>2

(* A reorder that is applied replaces the order of the active area. *)
LEMMA ReorderedFields ==
    ASSUME NEW d \in Arrangement, NEW order \in Seq(Keys), order # d.panes[d.active], Perm(order, d.panes[d.active])
    PROVE  LET n == Reordered(d, order) IN
           /\ n \in Arrangement
           /\ n.open = d.open /\ n.active = d.active /\ n.next = d.next /\ n.focus = d.focus
           /\ n.revision = d.revision + 1
           /\ n.panes[d.active] = order /\ \A b \in Areas \ {d.active} : n.panes[b] = d.panes[b]
<1> DEFINE n == Reordered(d, order)
<1>1. n = [d EXCEPT !.panes[d.active] = order, !.revision = @ + 1]
  BY DEF Reordered, Perm, Leaves, Bumped
<1> HIDE DEF n
<1>2. /\ n.open = d.open /\ n.active = d.active /\ n.next = d.next /\ n.focus = d.focus /\ n.revision = d.revision + 1
      /\ n.panes = [d.panes EXCEPT ![d.active] = order]
      /\ n = [open |-> n.open, panes |-> n.panes, focus |-> n.focus,
              active |-> n.active, next |-> n.next, revision |-> n.revision]
  BY <1>1 DEF Arrangement
<1>3. n \in Arrangement
  <2>1. n.panes \in [Areas -> Seq(Keys)]
    BY <1>2, FieldsOfArrangement
  <2>2. /\ n.open \in SUBSET Areas /\ n.active \in Areas /\ n.next \in Nat /\ n.revision \in Nat
        /\ n.focus \in [Areas -> Keys \cup {Nothing}]
    BY <1>2, FieldsOfArrangement
  <2> QED
    BY <1>2, <2>1, <2>2, IsArrangement
<1>4. n.panes[d.active] = order /\ \A b \in Areas \ {d.active} : n.panes[b] = d.panes[b]
  BY <1>2, FieldsOfArrangement
<1> QED
  BY <1>2, <1>3, <1>4 DEF n

(* A reorder is applied when it names the same panels in another order, and *)
(* then bumps the revision. *)
LEMMA ReorderKeeps ==
    ASSUME NEW d \in Arrangement, NEW order \in Seq(Keys)
    PROVE  /\ Reordered(d, order) \in Arrangement
           /\ AllKeys(Reordered(d, order)) = AllKeys(d)
           /\ IF order # d.panes[d.active] /\ Perm(order, d.panes[d.active])
              THEN Reordered(d, order).revision = d.revision + 1 ELSE Reordered(d, order) = d
<1>1. CASE ~(order # d.panes[d.active] /\ Perm(order, d.panes[d.active]))
  BY <1>1 DEF Reordered, Perm, Leaves
<1>2. CASE order # d.panes[d.active] /\ Perm(order, d.panes[d.active])
  <2> DEFINE n == Reordered(d, order)
  <2>1. /\ n \in Arrangement /\ n.revision = d.revision + 1
        /\ n.panes[d.active] = order /\ \A b \in Areas \ {d.active} : n.panes[b] = d.panes[b]
    BY <1>2, ReorderedFields
  <2> HIDE DEF n
  <2>2. \A b \in Areas : Leaves(n, b) = Leaves(d, b)
    BY <1>2, <2>1 DEF Leaves, Perm
  <2> QED
    BY <1>2, <2>1, <2>2 DEF AllKeys, n
<1> QED
  BY <1>1, <1>2

(* Every event leaves an arrangement that kept its layout and revision, or *)
(* has the next revision; a gesture that is not current changes nothing. *)
LEMMA AnswerKeeps ==
    ASSUME NEW d \in Arrangement, NEW e \in Sent
    PROVE  /\ Answer(d, e) \in Arrangement
           /\ KeepsOrBumps(d, Answer(d, e))
           /\ AllKeys(Answer(d, e)) \subseteq AllKeys(d)
           /\ e.event \in {"reorder", "resize"} /\ ~Current(d, e) => Answer(d, e) = d
           /\ e.event = "reorder" /\ Current(d, e) =>
                IF e.order # d.panes[d.active] /\ Perm(e.order, d.panes[d.active])
                THEN Answer(d, e).revision = d.revision + 1 ELSE Answer(d, e) = d
<1>1. CASE e.event = "focus"
  <2>1. Answer(d, e) = IF e.key \in Leaves(d, d.active) THEN [d EXCEPT !.focus[d.active] = e.key] ELSE d
    BY <1>1 DEF Answer
  <2>2. CASE e.key \in Leaves(d, d.active)
    <3> DEFINE n == [d EXCEPT !.focus[d.active] = e.key]
    <3>1. n \in Arrangement /\ n.revision = d.revision /\ n.panes = d.panes
      BY DEF Arrangement, Sent
    <3> HIDE DEF n
    <3> QED
      BY <1>1, <2>1, <2>2, <3>1 DEF KeepsOrBumps, AllKeys, Leaves, n
  <2> QED
    BY <1>1, <2>1, <2>2 DEF KeepsOrBumps
<1>2. CASE e.event = "select"
  <2>1. Answer(d, e) = IF e.area \in d.open THEN [d EXCEPT !.active = e.area] ELSE d
    BY <1>2 DEF Answer
  <2>2. CASE e.area \in d.open
    <3> DEFINE n == [d EXCEPT !.active = e.area]
    <3>1. n \in Arrangement /\ n.revision = d.revision /\ n.panes = d.panes
      BY <2>2 DEF Arrangement, Sent
    <3> HIDE DEF n
    <3> QED
      BY <1>2, <2>1, <2>2, <3>1 DEF KeepsOrBumps, AllKeys, Leaves, n
  <2> QED
    BY <1>2, <2>1, <2>2 DEF KeepsOrBumps
<1>3. CASE e.event = "reorder"
  <2>1. Answer(d, e) = IF Current(d, e) THEN Reordered(d, e.order) ELSE d
    BY <1>3 DEF Answer
  <2>2. e.order \in Seq(Keys)
    BY DEF Sent
  <2> QED
    BY <1>3, <2>1, <2>2, ReorderKeeps DEF KeepsOrBumps
<1>4. CASE e.event = "resize"
  <2>1. Answer(d, e) = IF Current(d, e) THEN Bumped(d) ELSE d
    BY <1>4 DEF Answer
  <2>2. Bumped(d) \in Arrangement /\ Bumped(d).revision = d.revision + 1 /\ Bumped(d).panes = d.panes
    <3> DEFINE n == Bumped(d)
    <3>1. /\ n.open = d.open /\ n.active = d.active /\ n.next = d.next /\ n.focus = d.focus
          /\ n.revision = d.revision + 1 /\ n.panes = d.panes
          /\ n = [open |-> n.open, panes |-> n.panes, focus |-> n.focus,
                  active |-> n.active, next |-> n.next, revision |-> n.revision]
      BY DEF Bumped, Arrangement
    <3> HIDE DEF n
    <3>2. n \in Arrangement
      BY <3>1, FieldsOfArrangement, IsArrangement
    <3> QED
      BY <3>1, <3>2 DEF n
  <2> QED
    BY <1>4, <2>1, <2>2 DEF KeepsOrBumps, AllKeys, Leaves
<1>5. CASE e.event = "close"
  <2>1. Answer(d, e) = DeskCloses(d, e.key)
    BY <1>5 DEF Answer
  <2> QED
    BY <1>5, <2>1, CloseKeeps
<1>6. CASE e.event = "area"
  <2>1. Answer(d, e) = DeskClosesArea(d, e.area)
    BY <1>6 DEF Answer
  <2> QED
    BY <1>6, <2>1, AreaCloseKeeps
<1>7. e.event \in {"focus", "select", "reorder", "resize", "close", "area"}
  BY DEF Sent
<1> QED
  BY <1>1, <1>2, <1>3, <1>4, <1>5, <1>6, <1>7

(* Opening a panel adds at most that panel. *)
LEMMA OpenKeeps ==
    ASSUME NEW d \in Arrangement, NEW key \in Keys
    PROVE  /\ DeskOpens(d, key) \in Arrangement
           /\ KeepsOrBumps(d, DeskOpens(d, key))
           /\ AllKeys(d) \subseteq AllKeys(DeskOpens(d, key))
           /\ AllKeys(DeskOpens(d, key)) \subseteq AllKeys(d) \cup {key}
<1>1. CASE key \in AllKeys(d)
  <2> DEFINE a == Holder(d, key)
             n == [d EXCEPT !.active = a, !.focus[a] = key]
  <2>1. a \in Areas
    BY <1>1 DEF AllKeys, Holder
  <2> HIDE DEF a
  <2>2. n \in Arrangement /\ n.revision = d.revision /\ n.panes = d.panes
    BY <2>1 DEF Arrangement
  <2>3. DeskOpens(d, key) = n
    BY <1>1 DEF DeskOpens, a
  <2> HIDE DEF n
  <2> QED
    BY <2>2, <2>3 DEF KeepsOrBumps, AllKeys, Leaves
<1>2. ASSUME NEW c \in Arrangement, NEW a \in Areas, c.panes = d.panes, c.revision = d.revision
      PROVE  LET n == OpenedIn(c, a, key) IN
             /\ n \in Arrangement /\ n.revision = d.revision + 1
             /\ AllKeys(d) \subseteq AllKeys(n) /\ AllKeys(n) \subseteq AllKeys(d) \cup {key}
  <2> DEFINE n == OpenedIn(c, a, key)
  <2>1. /\ n \in Arrangement /\ n.revision = d.revision + 1
        /\ n.panes[a] = Append(d.panes[a], key) /\ \A b \in Areas \ {a} : n.panes[b] = d.panes[b]
    BY <1>2, OpenedFields
  <2>2. d.panes \in [Areas -> Seq(Keys)] /\ Range(Append(d.panes[a], key)) = Range(d.panes[a]) \cup {key}
    BY FieldsOfArrangement, AppendRange
  <2> HIDE DEF n
  <2>3. \A b \in Areas : Leaves(d, b) \subseteq Leaves(n, b) /\ Leaves(n, b) \subseteq Leaves(d, b) \cup {key}
    BY <2>1, <2>2 DEF Leaves
  <2> QED
    BY <2>1, <2>3 DEF AllKeys, n
<1>3. CASE key \notin AllKeys(d)
  <2> DEFINE c == [d EXCEPT !.next = @ + 1]
  <2>1. d.active \in Areas /\ c \in Arrangement /\ c.panes = d.panes /\ c.revision = d.revision
    BY NumberTaken, FieldsOfArrangement
  <2>2. DeskOpens(d, key) = IF Len(d.panes[d.active]) < Capacity THEN OpenedIn(d, d.active, key)
                            ELSE IF d.next \in Areas THEN OpenedIn(c, d.next, key) ELSE d
    BY <1>3 DEF DeskOpens, PlaceKey
  <2> HIDE DEF c
  <2> QED
    BY <1>2, <2>1, <2>2 DEF KeepsOrBumps
<1> QED
  BY <1>1, <1>3

(* The gestures, and the questions before a pane is closed. *)
Gesture == [kind : {"none", "pane", "divider"}, area : Areas, revision : Nat, key : Keys \cup {Nothing},
            start : Seq(Keys), order : Seq(Keys), moved : BOOLEAN]
Question == [area : Areas \cup {Nothing}, key : Terminals \cup {Nothing}, hooks : SUBSET Terminals]

(* What the variables hold. *)
WorkShape ==
    /\ desk \in Arrangement /\ seen \in Arrangement /\ pendingState \in Arrangement \cup {Nothing}
    /\ down \in Seq(Arrangement) /\ up \in Seq(Sent)
    /\ drag \in Gesture /\ asking \in Question
    /\ numbered \subseteq Terminals /\ shells \subseteq numbered

(* The arrangements of the LiveView that are still about: its own, those on *)
(* their way, and the one that waits for a drag to end. *)
Issued == {desk} \cup Range(down) \cup ({pendingState} \ {Nothing})

(* A terminal stands only where its number was given out. *)
Placed(d) == AllKeys(d) \cap Terminals \subseteq numbered

(* A close names shells that ended before it was sent. *)
ShellsKept ==
    /\ \A d \in Issued : Placed(d)
    /\ Placed(seen)
    /\ asking.hooks \subseteq numbered
    /\ \A e \in Range(up) : e.found \subseteq numbered \ shells
    /\ GonePanesHaveNoShell

(* No revision is ahead of the LiveView's, and one revision names one layout. *)
RevisionsGrow ==
    /\ \A d \in Issued : d.revision <= desk.revision
    /\ seen.revision <= desk.revision
    /\ \A e \in Range(up) : e.revision <= desk.revision

RevisionNamesLayout == \A c, d \in Issued : c.revision = d.revision => c.panes = d.panes

(* The last answer under way is the LiveView's arrangement. *)
LastIsDesk == down # <<>> => down[Len(down)] = desk

(* What waits, and the drag, are of the arrangement that is shown. *)
HeldIsOfThis == pendingState # Nothing => pendingState.revision = seen.revision /\ pendingState.active = seen.active

DragIsOfThis ==
    Dragging =>
        /\ drag.area = seen.active /\ drag.revision = seen.revision
        /\ Perm(drag.start, seen.panes[seen.active])
        /\ drag.kind = "pane" =>
              /\ drag.order = seen.panes[seen.active] /\ drag.key \in Range(drag.order)
              /\ ~drag.moved => drag.start = drag.order

(* A gesture under way was made among the panels of the layout its revision *)
(* names. *)
TellsOf(e) ==
    e.event \in {"reorder", "resize"} =>
        \A d \in Issued : d.revision = e.revision =>
            /\ Range(e.base) = Leaves(d, e.area)
            /\ e.event = "reorder" => Perm(e.order, d.panes[e.area])
EventsTell == \A e \in Range(up) : TellsOf(e)

(* The page shows the layout of its revision, up to the order of the active *)
(* area. *)
SeenIsPermuted ==
    \A d \in Issued : d.revision = seen.revision =>
        \A a \in Areas : Perm(d.panes[a], seen.panes[a]) /\ (a # seen.active => d.panes[a] = seen.panes[a])

(* And that order is the layout's unless a panel is being moved, a reorder *)
(* that tells of it is under way, or another arrangement is on its way back. *)
Moving == drag.kind = "pane" /\ drag.moved
WillBeTold ==
    \/ \E e \in Range(up) : /\ e.event = "reorder" /\ e.revision = seen.revision
                            /\ e.area = seen.active /\ e.order = seen.panes[seen.active]
    \/ \E d \in Range(down) : d.revision # seen.revision \/ d.active # seen.active
SeenIs == \A d \in Issued : d.revision = seen.revision => d.panes[seen.active] = seen.panes[seen.active]
SeenIsRight == Moving \/ WillBeTold \/ SeenIs

(* With no answer under way the page has what the LiveView has, or holds it. *)
Agrees(c, d) == c.open = d.open /\ c.focus = d.focus /\ c.active = d.active /\ c.next = d.next /\ c.revision = d.revision
CaughtUp == down = <<>> => IF pendingState = Nothing THEN Agrees(seen, desk) ELSE pendingState = desk

(* The invariant. *)
LayoutKept ==
    /\ RevisionsGrow /\ RevisionNamesLayout /\ LastIsDesk /\ HeldIsOfThis /\ DragIsOfThis
    /\ EventsTell /\ SeenIsPermuted /\ SeenIsRight /\ CaughtUp

WorkInv == WorkShape /\ ShellsKept /\ LayoutKept

(* The invariant holds at the start. *)
LEMMA WorkInvInit == WorkInit => WorkInv
<1> SUFFICES ASSUME WorkInit PROVE WorkInv
  OBVIOUS
<1> USE AreasAssumption, HomeAssumption, NothingAssumption
<1>1. desk \in Arrangement
  <2>1. desk.open \in SUBSET Areas /\ desk.active \in Areas /\ desk.next \in Nat /\ desk.revision \in Nat
    BY DEF WorkInit
  <2>2. desk.panes \in [Areas -> Seq(Keys)] /\ desk.focus \in [Areas -> Keys \cup {Nothing}]
    <3>1. Home \in Keys /\ <<Home>> \in Seq(Keys) /\ <<>> \in Seq(Keys)
      BY DEF Keys
    <3>2. desk.panes = [a \in Areas |-> IF a = 1 THEN <<Home>> ELSE <<>>]
          /\ desk.focus = [a \in Areas |-> IF a = 1 THEN Home ELSE Nothing]
      BY DEF WorkInit
    <3> QED
      BY <3>1, <3>2
  <2>3. desk = [open |-> desk.open, panes |-> desk.panes, focus |-> desk.focus,
                active |-> desk.active, next |-> desk.next, revision |-> desk.revision]
    BY DEF WorkInit
  <2> QED
    BY <2>1, <2>2, <2>3, IsArrangement
<1>2. seen = desk /\ pendingState = Nothing /\ up = <<>> /\ down = <<>> /\ numbered = {} /\ shells = {} /\ drag = NoDrag
  BY DEF WorkInit
<1>3. asking = NoAsk /\ Range(up) = {} /\ Range(down) = {}
  BY <1>2 DEF WorkInit, Range
<1>4. WorkShape
  BY <1>1, <1>2, <1>3 DEF WorkShape, Gesture, Question, NoDrag, NoAsk
<1>5. Issued = {desk} /\ ~Dragging
  BY <1>2, <1>3 DEF Issued, Dragging, NoDrag
<1>6. ShellsKept
  <2>1. AllKeys(desk) \cap Terminals = {}
    <3>1. \A a \in Areas : Leaves(desk, a) = Range(IF a = 1 THEN <<Home>> ELSE <<>>)
      BY DEF WorkInit, Leaves
    <3>2. Range(<<Home>>) = {Home} /\ Range(<<>>) = {}
      BY DEF Range
    <3> QED
      BY <3>1, <3>2 DEF AllKeys
  <2> QED
    BY <1>2, <1>3, <1>5, <2>1 DEF ShellsKept, Placed, GonePanesHaveNoShell, NoAsk
<1>7. desk.revision \in Nat
  BY <1>1, FieldsOfArrangement
<1>8. LayoutKept
  BY <1>2, <1>3, <1>5, <1>7
     DEF LayoutKept, RevisionsGrow, RevisionNamesLayout, LastIsDesk, HeldIsOfThis, DragIsOfThis, EventsTell,
         SeenIsPermuted, Perm, SeenIsRight, SeenIs, CaughtUp, Agrees
<1> QED
  BY <1>4, <1>6, <1>8 DEF WorkInv

(* The stream after something was appended. *)
LEMMA AppendFacts ==
    ASSUME NEW K, NEW s \in Seq(K), NEW e \in K
    PROVE  /\ Append(s, e) \in Seq(K) /\ Append(s, e) # <<>>
           /\ Append(s, e)[Len(Append(s, e))] = e
           /\ Range(Append(s, e)) = Range(s) \cup {e}
<1>1. Append(s, e) \in Seq(K) /\ Append(s, e) # <<>> /\ Append(s, e)[Len(Append(s, e))] = e
  OBVIOUS
<1> QED
  BY <1>1, AppendRange

(* Whatever was issued is an arrangement. *)
LEMMA IssuedFacts ==
    ASSUME WorkShape
    PROVE  /\ desk \in Issued /\ Issued \subseteq Arrangement
           /\ \A e \in Range(up) : e \in Sent
           /\ \A d \in Issued : d.revision \in Nat /\ d.panes \in [Areas -> Seq(Keys)] /\ d.active \in Areas
           /\ seen.revision \in Nat /\ seen.panes \in [Areas -> Seq(Keys)] /\ seen.active \in Areas
<1>1. Range(down) \subseteq Arrangement
  BY DEF WorkShape, Range
<1>2. \A e \in Range(up) : e \in Sent
  BY DEF WorkShape, Range
<1>3. desk \in Issued /\ Issued \subseteq Arrangement
  BY <1>1 DEF WorkShape, Issued
<1>4. seen \in Arrangement
  BY DEF WorkShape
<1> QED
  BY <1>2, <1>3, <1>4, FieldsOfArrangement

(* The LiveView keeps the layout and its revision, or moves the revision on. *)
LEMMA ServerKeepsLayout ==
    ASSUME WorkInv, desk' \in Arrangement, KeepsOrBumps(desk, desk'), down' = Append(down, desk'),
           seen' = seen, pendingState' = pendingState, drag' = drag, Range(up') \subseteq Range(up),
           \A e \in Range(up) \ Range(up') :
              e.event = "reorder" =>
                IF Current(desk, e) /\ e.order # desk.panes[desk.active] /\ Perm(e.order, desk.panes[desk.active])
                THEN desk'.revision = desk.revision + 1 ELSE desk' = desk
    PROVE  LayoutKept'
<1>1. /\ WorkShape /\ RevisionsGrow /\ RevisionNamesLayout /\ HeldIsOfThis /\ DragIsOfThis /\ EventsTell
      /\ SeenIsPermuted /\ SeenIsRight /\ CaughtUp /\ LastIsDesk
  BY DEF WorkInv, LayoutKept
<1>2. /\ down' # <<>> /\ down'[Len(down')] = desk' /\ Range(down') = Range(down) \cup {desk'}
  BY <1>1, AppendFacts DEF WorkShape
<1>3. Issued' \subseteq Issued \cup {desk'} /\ desk' \in Issued'
  BY <1>2 DEF Issued
<1>4. /\ desk \in Issued /\ desk.revision \in Nat /\ desk'.revision \in Nat
      /\ \A d \in Issued : d.revision \in Nat
      /\ \A e \in Range(up) : e.revision \in Nat
      /\ seen.revision \in Nat
  BY <1>1, IssuedFacts, FieldsOfArrangement DEF Sent
<1>5. \/ desk'.revision = desk.revision /\ desk'.panes = desk.panes
      \/ /\ desk'.revision = desk.revision + 1
         /\ \A d \in Issued : d.revision < desk'.revision
         /\ \A e \in Range(up) : e.revision < desk'.revision
         /\ seen.revision < desk'.revision
  BY <1>1, <1>4 DEF KeepsOrBumps, RevisionsGrow
<1>6. RevisionsGrow'
  <2>1. desk.revision <= desk'.revision
    BY <1>4, <1>5
  <2>2. \A d \in Issued' : d.revision <= desk'.revision
    BY <1>1, <1>3, <1>4, <2>1 DEF RevisionsGrow
  <2>3. seen.revision <= desk'.revision /\ \A e \in Range(up) : e.revision <= desk'.revision
    BY <1>1, <1>4, <2>1 DEF RevisionsGrow
  <2> QED
    BY <2>2, <2>3 DEF RevisionsGrow
<1>7. RevisionNamesLayout'
  <2>1. ASSUME NEW d \in Issued, d.revision = desk'.revision PROVE d.panes = desk'.panes
    BY <1>1, <1>4, <1>5, <2>1 DEF RevisionNamesLayout
  <2> QED
    BY <1>1, <1>3, <2>1 DEF RevisionNamesLayout
<1>8. LastIsDesk' /\ HeldIsOfThis' /\ CaughtUp'
  BY <1>1, <1>2 DEF LastIsDesk, HeldIsOfThis, CaughtUp
<1>9. DragIsOfThis'
  BY <1>1 DEF DragIsOfThis, Dragging
<1>10. EventsTell'
  <2> SUFFICES ASSUME NEW e \in Range(up)', e.event \in {"reorder", "resize"},
                      NEW d \in Issued', d.revision = e.revision
               PROVE  Range(e.base) = Leaves(d, e.area) /\ (e.event = "reorder" => Perm(e.order, d.panes[e.area]))
    BY DEF EventsTell, TellsOf, Leaves
  <2>1. e \in Range(up) /\ TellsOf(e)
    BY <1>1 DEF EventsTell
  <2>2. CASE d \in Issued
    BY <2>1, <2>2 DEF TellsOf
  <2>3. CASE d = desk'
    BY <1>4, <1>5, <2>1, <2>3 DEF TellsOf, Leaves
  <2> QED
    BY <1>3, <2>2, <2>3
<1>11. SeenIsPermuted'
  <2>1. ASSUME NEW d \in Issued', d.revision = seen.revision, NEW a \in Areas
        PROVE  Perm(d.panes[a], seen.panes[a]) /\ (a # seen.active => d.panes[a] = seen.panes[a])
    BY <1>1, <1>3, <1>4, <1>5, <2>1 DEF SeenIsPermuted
  <2> QED
    BY <2>1 DEF SeenIsPermuted, Perm
<1>12. SeenIsRight'
  <2> SUFFICES ASSUME ~Moving, ~WillBeTold' PROVE SeenIs'
    BY DEF SeenIsRight, Moving
  <2>1. \A d \in Range(down) \cup {desk'} : d.revision = seen.revision /\ d.active = seen.active
    BY <1>2 DEF WillBeTold
  <2>2. desk'.revision = desk.revision /\ desk'.panes = desk.panes
    BY <1>5, <1>4, <2>1
  <2>3. \A e \in Range(up') : ~(/\ e.event = "reorder" /\ e.revision = seen.revision
                                /\ e.area = seen.active /\ e.order = seen.panes[seen.active])
    BY DEF WillBeTold
  <2>4. SeenIs \/ desk.panes[seen.active] = seen.panes[seen.active]
    <3>1. CASE ~WillBeTold
      BY <1>1, <3>1 DEF SeenIsRight, Moving
    <3>2. CASE WillBeTold
      <4>1. PICK e \in Range(up) : /\ e.event = "reorder" /\ e.revision = seen.revision
                                   /\ e.area = seen.active /\ e.order = seen.panes[seen.active]
        BY <2>1, <3>2 DEF WillBeTold
      <4>2. e \notin Range(up')
        BY <2>3, <4>1
      <4>3. CASE ~(Current(desk, e) /\ e.order # desk.panes[desk.active] /\ Perm(e.order, desk.panes[desk.active]))
        <5>1. desk' = desk
          BY <4>1, <4>2, <4>3
        <5>2. desk.active = seen.active /\ desk.revision = seen.revision
          BY <2>1, <5>1
        <5>3. Current(desk, e)
          BY <4>1, <5>2 DEF Current
        <5>4. Perm(e.order, desk.panes[desk.active])
          BY <1>1, <1>4, <4>1, <5>2 DEF EventsTell, TellsOf
        <5> QED
          BY <4>1, <4>3, <5>2, <5>3, <5>4
      <4>4. CASE Current(desk, e) /\ e.order # desk.panes[desk.active] /\ Perm(e.order, desk.panes[desk.active])
        <5>1. desk'.revision = desk.revision + 1
          BY <4>1, <4>2, <4>4
        <5> QED
          BY <1>4, <2>2, <5>1
      <4> QED
        BY <4>3, <4>4
    <3> QED
      BY <3>1, <3>2
  <2>5. desk.revision = seen.revision
    BY <2>1, <2>2
  <2>6. desk.panes[seen.active] = seen.panes[seen.active]
    BY <1>4, <2>4, <2>5 DEF SeenIs
  <2>7. ASSUME NEW d \in Issued', d.revision = seen.revision PROVE d.panes[seen.active] = seen.panes[seen.active]
    <3>1. d.panes = desk.panes
      BY <1>1, <1>3, <1>4, <2>2, <2>5, <2>7 DEF RevisionNamesLayout
    <3> QED
      BY <2>6, <3>1
  <2> QED
    BY <2>7 DEF SeenIs
<1> QED
  BY <1>6, <1>7, <1>8, <1>9, <1>10, <1>11, <1>12 DEF LayoutKept

(* An event that is pushed tells of the layout it was made on. *)
LEMMA PushKeepsLayout ==
    ASSUME WorkInv, NEW e \in Sent, up' = Append(up, e), TellsOf(e), e.revision <= desk.revision,
           desk' = desk, down' = down, seen' = seen, pendingState' = pendingState,
           \/ drag' = drag
           \/ drag' = NoDrag /\ ~Moving
    PROVE  LayoutKept'
<1>1. /\ WorkShape /\ RevisionsGrow /\ RevisionNamesLayout /\ HeldIsOfThis /\ DragIsOfThis /\ EventsTell
      /\ SeenIsPermuted /\ SeenIsRight /\ CaughtUp /\ LastIsDesk
  BY DEF WorkInv, LayoutKept
<1>2. Range(up') = Range(up) \cup {e}
  BY <1>1, AppendFacts DEF WorkShape
<1>3. Issued' = Issued
  BY DEF Issued
<1>4. RevisionsGrow' /\ RevisionNamesLayout' /\ HeldIsOfThis' /\ LastIsDesk' /\ CaughtUp'
  BY <1>1, <1>2, <1>3 DEF RevisionsGrow, RevisionNamesLayout, HeldIsOfThis, LastIsDesk, CaughtUp, Agrees
<1>5. EventsTell'
  BY <1>1, <1>2, <1>3 DEF EventsTell, TellsOf, Leaves
<1>6. SeenIsPermuted'
  BY <1>1, <1>3 DEF SeenIsPermuted, Perm
<1>7. SeenIsRight'
  BY <1>1, <1>2, <1>3 DEF SeenIsRight, Moving, WillBeTold, SeenIs, NoDrag
<1>8. DragIsOfThis'
  BY <1>1 DEF DragIsOfThis, Dragging, NoDrag
<1> QED
  BY <1>4, <1>5, <1>6, <1>7, <1>8 DEF LayoutKept

(* A gesture that begins or goes on without moving a panel. *)
LEMMA GestureKeepsLayout ==
    ASSUME WorkInv, up' = up, desk' = desk, down' = down, seen' = seen, pendingState' = pendingState,
           DragIsOfThis', Moving' <=> Moving
    PROVE  LayoutKept'
<1>1. /\ WorkShape /\ RevisionsGrow /\ RevisionNamesLayout /\ HeldIsOfThis /\ EventsTell
      /\ SeenIsPermuted /\ SeenIsRight /\ CaughtUp /\ LastIsDesk
  BY DEF WorkInv, LayoutKept
<1>2. Issued' = Issued
  BY DEF Issued
<1>3. RevisionsGrow' /\ RevisionNamesLayout' /\ HeldIsOfThis' /\ LastIsDesk' /\ CaughtUp'
  BY <1>1, <1>2 DEF RevisionsGrow, RevisionNamesLayout, HeldIsOfThis, LastIsDesk, CaughtUp, Agrees
<1>4. EventsTell' /\ SeenIsPermuted'
  BY <1>1, <1>2 DEF EventsTell, TellsOf, Leaves, SeenIsPermuted, Perm
<1>5. SeenIsRight'
  BY <1>1, <1>2 DEF SeenIsRight, WillBeTold, SeenIs
<1> QED
  BY <1>3, <1>4, <1>5 DEF LayoutKept

(* Sliding a panel during a drag permutes the shown panels of the active area. *)
LEMMA SlideKeepsLayout ==
    ASSUME WorkInv, NEW target \in Keys, MovePane(target)
    PROVE  /\ LayoutKept' /\ seen' \in Arrangement /\ drag'.order \in Seq(Keys) /\ AllKeys(seen') = AllKeys(seen)
           /\ \A a \in Areas : Len(seen'.panes[a]) = Len(seen.panes[a])
<1>1. /\ WorkShape /\ RevisionsGrow /\ RevisionNamesLayout /\ HeldIsOfThis /\ DragIsOfThis /\ EventsTell
      /\ SeenIsPermuted /\ SeenIsRight /\ CaughtUp /\ LastIsDesk
  BY DEF WorkInv, LayoutKept
<1> DEFINE order == ReorderKeys(drag.order, drag.key, target)
<1>2. /\ drag.kind = "pane" /\ target \in Range(drag.order)
      /\ drag' = [drag EXCEPT !.moved = TRUE, !.order = order]
      /\ seen' = [seen EXCEPT !.panes[seen.active] = drag'.order]
      /\ desk' = desk /\ down' = down /\ up' = up /\ pendingState' = pendingState
  BY DEF MovePane, serverVars
<1>3. /\ Dragging /\ drag.area = seen.active /\ drag.revision = seen.revision
      /\ Perm(drag.start, seen.panes[seen.active])
      /\ drag.order = seen.panes[seen.active] /\ drag.key \in Range(drag.order) /\ drag.order \in Seq(Keys)
  BY <1>1, <1>2 DEF DragIsOfThis, Dragging, WorkShape, Gesture
<1>4. order \in Seq(Keys) /\ Perm(order, drag.order)
  BY <1>2, <1>3, SlidePermutes
<1>5. drag.key \in Range(order)
  BY <1>3, <1>4 DEF Perm
<1> HIDE DEF order
<1>6. /\ drag'.kind = "pane" /\ drag'.moved /\ drag'.order = order /\ drag'.area = drag.area
      /\ drag'.revision = drag.revision /\ drag'.key = drag.key /\ drag'.start = drag.start
  BY <1>1, <1>2 DEF WorkShape, Gesture
<1>7. seen.active \in Areas /\ seen.panes \in [Areas -> Seq(Keys)] /\ seen \in Arrangement
  BY <1>1, IssuedFacts DEF WorkShape
<1>8. /\ seen'.open = seen.open /\ seen'.active = seen.active /\ seen'.next = seen.next
      /\ seen'.focus = seen.focus /\ seen'.revision = seen.revision
      /\ seen'.panes = [seen.panes EXCEPT ![seen.active] = order]
      /\ seen' = [open |-> seen'.open, panes |-> seen'.panes, focus |-> seen'.focus,
                  active |-> seen'.active, next |-> seen'.next, revision |-> seen'.revision]
  BY <1>2, <1>6, <1>7 DEF Arrangement
<1>9. seen' \in Arrangement
  <2>1. seen'.panes \in [Areas -> Seq(Keys)]
    BY <1>4, <1>7, <1>8
  <2> QED
    BY <1>7, <1>8, <2>1, FieldsOfArrangement, IsArrangement
<1>10. seen'.panes[seen.active] = order /\ \A a \in Areas : a # seen.active => seen'.panes[a] = seen.panes[a]
  BY <1>7, <1>8
<1>11. AllKeys(seen') = AllKeys(seen)
  <2>1. \A a \in Areas : Leaves(seen', a) = Leaves(seen, a)
    BY <1>3, <1>4, <1>10 DEF Leaves, Perm
  <2> QED
    BY <2>1 DEF AllKeys
<1>12. Issued' = Issued
  BY <1>2 DEF Issued
<1>13. RevisionsGrow' /\ RevisionNamesLayout' /\ HeldIsOfThis' /\ LastIsDesk' /\ CaughtUp'
  BY <1>1, <1>2, <1>8, <1>12 DEF RevisionsGrow, RevisionNamesLayout, HeldIsOfThis, LastIsDesk, CaughtUp, Agrees
<1>14. EventsTell'
  BY <1>1, <1>2, <1>12 DEF EventsTell, TellsOf, Leaves
<1>15. SeenIsPermuted'
  <2>1. ASSUME NEW d \in Issued, d.revision = seen.revision, NEW a \in Areas
        PROVE  Perm(d.panes[a], seen'.panes[a]) /\ (a # seen.active => d.panes[a] = seen'.panes[a])
    <3>1. Perm(d.panes[a], seen.panes[a]) /\ (a # seen.active => d.panes[a] = seen.panes[a])
      BY <1>1, <2>1 DEF SeenIsPermuted
    <3> QED
      BY <1>3, <1>4, <1>10, <3>1 DEF Perm
  <2> QED
    BY <1>8, <1>12, <2>1 DEF SeenIsPermuted, Perm
<1>16. SeenIsRight'
  BY <1>6 DEF SeenIsRight, Moving
<1>17. DragIsOfThis'
  <2>1. Perm(drag.start, order)
    BY <1>3, <1>4 DEF Perm
  <2> QED
    BY <1>3, <1>5, <1>6, <1>8, <1>10, <2>1 DEF DragIsOfThis, Perm
<1>18. \A a \in Areas : Len(seen'.panes[a]) = Len(seen.panes[a])
  BY <1>3, <1>4, <1>10 DEF Perm
<1> QED
  BY <1>4, <1>6, <1>9, <1>11, <1>13, <1>14, <1>15, <1>16, <1>17, <1>18 DEF LayoutKept

(* An arrangement that arrives is shown, or waits beside the drag it belongs to. *)
LEMMA ReceiveKeepsLayout ==
    ASSUME WorkInv, ReceiveState
    PROVE  LayoutKept'
<1>1. /\ WorkShape /\ RevisionsGrow /\ RevisionNamesLayout /\ HeldIsOfThis /\ DragIsOfThis /\ EventsTell
      /\ SeenIsPermuted /\ SeenIsRight /\ CaughtUp /\ LastIsDesk
  BY DEF WorkInv, LayoutKept
<1> DEFINE d == Head(down)
<1>2. /\ down # <<>> /\ down' = Tail(down) /\ desk' = desk /\ up' = up
      /\ IF Waits(d) THEN pendingState' = d /\ seen' = seen /\ drag' = drag
         ELSE pendingState' = Nothing /\ seen' = d /\ drag' = NoDrag
  BY DEF ReceiveState, serverVars
<1>3. /\ d \in Range(down) /\ Range(down') \subseteq Range(down)
      /\ Range(down) \subseteq Range(down') \cup {d} /\ d \in Issued
      /\ d \in Arrangement /\ d # Nothing
  <2>1. d \in Range(down) /\ Range(down') \subseteq Range(down) /\ Range(down) \subseteq Range(down') \cup {d}
    BY <1>1, <1>2, TailRange DEF WorkShape
  <2>2. d \in Issued
    BY <2>1 DEF Issued
  <2> QED
    BY <1>1, <2>1, <2>2, IssuedFacts, NothingAssumption
<1>4. /\ desk \in Issued /\ \A c \in Issued : c.revision \in Nat
      /\ seen.revision \in Nat /\ d.active \in Areas
  BY <1>1, <1>3, IssuedFacts
<1>5. LastIsDesk' /\ (down' = <<>> => d = desk)
  <2>1. down \in Seq(Arrangement) /\ Len(down) \in Nat /\ Len(down) > 0
    BY <1>1, <1>2 DEF WorkShape
  <2>2. down' # <<>> => Len(down) > 1 /\ Len(down') = Len(down) - 1 /\ down'[Len(down')] = down[Len(down)]
    BY <1>2, <2>1
  <2>3. down' = <<>> => Len(down) = 1 /\ d = down[1]
    BY <1>2, <2>1
  <2> QED
    BY <1>1, <1>2, <2>2, <2>3 DEF LastIsDesk
<1> HIDE DEF d
<1>6. Issued' \subseteq Issued
  BY <1>2, <1>3 DEF Issued
<1>7. RevisionNamesLayout'
  BY <1>1, <1>6 DEF RevisionNamesLayout
<1>8. RevisionsGrow'
  BY <1>1, <1>2, <1>3, <1>6 DEF RevisionsGrow
<1>9. EventsTell'
  BY <1>1, <1>2, <1>6 DEF EventsTell, TellsOf, Leaves
<1>10. CASE Waits(d)
  <2>1. d.revision = seen.revision /\ d.active = seen.active /\ Dragging
    BY <1>10 DEF Waits
  <2>2. HeldIsOfThis' /\ DragIsOfThis' /\ SeenIsPermuted'
    BY <1>1, <1>2, <1>6, <1>10, <2>1 DEF HeldIsOfThis, DragIsOfThis, Dragging, SeenIsPermuted, Perm
  <2>3. CaughtUp'
    BY <1>2, <1>3, <1>5, <1>10 DEF CaughtUp
  <2>4. SeenIsRight'
    <3>1. WillBeTold => WillBeTold'
      BY <1>2, <1>3, <1>10, <2>1 DEF WillBeTold
    <3>2. SeenIs => SeenIs'
      BY <1>2, <1>6, <1>10 DEF SeenIs
    <3>3. Moving => Moving'
      BY <1>2, <1>10 DEF Moving
    <3> QED
      BY <1>1, <3>1, <3>2, <3>3 DEF SeenIsRight
  <2> QED
    BY <1>5, <1>7, <1>8, <1>9, <2>2, <2>3, <2>4 DEF LayoutKept
<1>11. CASE ~Waits(d)
  <2>1. HeldIsOfThis' /\ DragIsOfThis'
    BY <1>2, <1>11 DEF HeldIsOfThis, DragIsOfThis, Dragging, NoDrag
  <2>2. \A c \in Issued' : c.revision = d.revision => c.panes = d.panes
    BY <1>1, <1>3, <1>6 DEF RevisionNamesLayout
  <2>3. SeenIsPermuted' /\ SeenIs'
    BY <1>2, <1>11, <2>2 DEF SeenIsPermuted, SeenIs, Perm
  <2>4. CaughtUp'
    BY <1>2, <1>5, <1>11 DEF CaughtUp, Agrees
  <2> QED
    BY <1>5, <1>7, <1>8, <1>9, <2>1, <2>3, <2>4 DEF LayoutKept, SeenIsRight
<1> QED
  BY <1>10, <1>11

(* The drop keeps the new order on top of what waited, and tells the LiveView. *)
LEMMA DropKeepsLayout ==
    ASSUME WorkInv, NEW cancelled \in BOOLEAN, DropPane(cancelled)
    PROVE  /\ LayoutKept' /\ seen' \in Arrangement /\ up' \in Seq(Sent) /\ Placed(seen')
           /\ \A e \in Range(up') : e \in Range(up) \/ e.found = {}
           /\ \A a \in Areas : \E d \in Issued \cup {seen} : Len(seen'.panes[a]) = Len(d.panes[a])
<1>1. /\ WorkShape /\ RevisionsGrow /\ RevisionNamesLayout /\ HeldIsOfThis /\ DragIsOfThis /\ EventsTell
      /\ SeenIsPermuted /\ SeenIsRight /\ CaughtUp /\ LastIsDesk /\ ShellsKept
  BY DEF WorkInv, LayoutKept
<1> DEFINE order == IF cancelled THEN drag.start ELSE drag.order
           base == IF pendingState = Nothing THEN seen ELSE pendingState
           event == [Event EXCEPT !.event = "reorder", !.order = order, !.base = drag.start,
                                  !.area = drag.area, !.revision = drag.revision]
<1>2. /\ drag.kind = "pane" /\ seen' = [base EXCEPT !.panes[drag.area] = order]
      /\ up' = (IF drag.moved THEN Append(up, event) ELSE up)
      /\ drag' = NoDrag /\ pendingState' = Nothing /\ desk' = desk /\ down' = down
  BY DEF DropPane, Dropped, Push, serverVars
<1>3. /\ drag.area = seen.active /\ drag.revision = seen.revision
      /\ Perm(drag.start, seen.panes[seen.active]) /\ drag.order = seen.panes[seen.active]
      /\ ~drag.moved => drag.start = drag.order
      /\ drag.start \in Seq(Keys) /\ drag.order \in Seq(Keys)
  BY <1>1, <1>2 DEF DragIsOfThis, Dragging, WorkShape, Gesture
<1>4. /\ order \in Seq(Keys) /\ Perm(order, seen.panes[seen.active]) /\ Range(order) = Range(drag.start)
      /\ Len(order) = Len(drag.start)
      /\ ~drag.moved => order = seen.panes[seen.active]
  BY <1>3 DEF Perm
<1>5. /\ seen.active \in Areas /\ seen.revision \in Nat /\ seen \in Arrangement
      /\ desk \in Issued /\ \A d \in Issued : d \in Arrangement /\ d.revision \in Nat /\ d.panes \in [Areas -> Seq(Keys)]
  BY <1>1, IssuedFacts DEF WorkShape
<1>6. /\ base \in Arrangement /\ base.active = seen.active /\ base.revision = seen.revision
      /\ \/ base = seen /\ pendingState = Nothing
         \/ base = pendingState /\ base \in Issued /\ pendingState # Nothing
  BY <1>1, <1>5 DEF HeldIsOfThis, WorkShape, Issued
<1>7. event \in Sent /\ event.event = "reorder" /\ event.order = order /\ event.base = drag.start
      /\ event.area = seen.active /\ event.revision = seen.revision /\ event.found = {}
  <2> HIDE DEF order
  <2>1. event = [Event EXCEPT !.event = "reorder", !.order = order, !.base = drag.start,
                              !.area = seen.active, !.revision = seen.revision]
    BY <1>3
  <2> HIDE DEF event
  <2>2. drag.start \in Seq(Keys) /\ order \in Seq(Keys) /\ seen.active \in Areas /\ seen.revision \in Nat
    BY <1>3, <1>4, <1>5
  <2>3. <<>> \in Seq(Keys)
    OBVIOUS
  <2>4. event \in Sent
    BY <2>1, <2>2, <2>3 DEF Event, Sent
  <2>5. /\ event.event = "reorder" /\ event.order = order /\ event.base = drag.start
        /\ event.area = seen.active /\ event.revision = seen.revision /\ event.found = {}
    BY <2>1 DEF Event
  <2> QED
    BY <2>4, <2>5
<1> HIDE DEF order, base, event
<1>8. /\ seen'.open = base.open /\ seen'.active = base.active /\ seen'.next = base.next
      /\ seen'.focus = base.focus /\ seen'.revision = base.revision
      /\ seen'.panes = [base.panes EXCEPT ![seen.active] = order]
      /\ seen' = [open |-> seen'.open, panes |-> seen'.panes, focus |-> seen'.focus,
                  active |-> seen'.active, next |-> seen'.next, revision |-> seen'.revision]
  BY <1>2, <1>3, <1>6 DEF Arrangement
<1>9. base.panes \in [Areas -> Seq(Keys)]
  BY <1>6, FieldsOfArrangement
<1>10. seen' \in Arrangement
  <2>1. seen'.panes \in [Areas -> Seq(Keys)]
    BY <1>4, <1>8, <1>9
  <2> QED
    BY <1>6, <1>8, <2>1, FieldsOfArrangement, IsArrangement
<1>11. seen'.panes[seen.active] = order /\ \A a \in Areas : a # seen.active => seen'.panes[a] = base.panes[a]
  BY <1>5, <1>8, <1>9
<1>12. Placed(seen')
  <2>1. \A a \in Areas : Leaves(seen', a) \subseteq AllKeys(seen) \cup AllKeys(base)
    <3> TAKE a \in Areas
    <3>1. CASE a = seen.active
      BY <1>4, <1>11, <3>1 DEF Leaves, AllKeys, Perm
    <3>2. CASE a # seen.active
      BY <1>11, <3>2 DEF Leaves, AllKeys
    <3> QED
      BY <3>1, <3>2
  <2>2. Placed(seen) /\ Placed(base)
    BY <1>1, <1>6 DEF ShellsKept
  <2> QED
    BY <2>1, <2>2 DEF Placed, AllKeys
<1>13. up' \in Seq(Sent) /\ Range(up') = Range(up) \cup (IF drag.moved THEN {event} ELSE {})
  BY <1>1, <1>2, <1>7, AppendFacts DEF WorkShape
<1>14. Issued' \subseteq Issued
  BY <1>2 DEF Issued
<1>15. RevisionNamesLayout' /\ LastIsDesk' /\ HeldIsOfThis' /\ DragIsOfThis'
  BY <1>1, <1>2, <1>14 DEF RevisionNamesLayout, LastIsDesk, HeldIsOfThis, DragIsOfThis, Dragging, NoDrag
<1>16. RevisionsGrow'
  BY <1>1, <1>2, <1>6, <1>7, <1>8, <1>13, <1>14 DEF RevisionsGrow
<1>17. EventsTell'
  <2>1. ASSUME NEW d \in Issued, d.revision = seen.revision
        PROVE  Range(drag.start) = Leaves(d, seen.active) /\ Perm(order, d.panes[seen.active])
    BY <1>1, <1>4, <1>5, <2>1 DEF SeenIsPermuted, Perm, Leaves
  <2> SUFFICES ASSUME NEW e \in Range(up'), e.event \in {"reorder", "resize"},
                      NEW d \in Issued', d.revision = e.revision
               PROVE  Range(e.base) = Leaves(d, e.area) /\ (e.event = "reorder" => Perm(e.order, d.panes[e.area]))
    BY DEF EventsTell, TellsOf, Leaves, Perm
  <2>2. CASE e = event
    BY <1>7, <1>14, <2>1, <2>2
  <2>3. CASE e \in Range(up)
    <3>1. TellsOf(e)
      BY <1>1, <2>3 DEF EventsTell
    <3> QED
      BY <1>14, <3>1 DEF TellsOf
  <2> QED
    BY <1>13, <2>2, <2>3
<1>18. SeenIsPermuted'
  <2>1. ASSUME NEW d \in Issued', d.revision = seen.revision, NEW a \in Areas
        PROVE  Perm(d.panes[a], seen'.panes[a]) /\ (a # seen.active => d.panes[a] = seen'.panes[a])
    <3>1. Perm(d.panes[a], seen.panes[a]) /\ (a # seen.active => d.panes[a] = seen.panes[a])
      BY <1>1, <1>14, <2>1 DEF SeenIsPermuted
    <3>2. CASE a = seen.active
      BY <1>4, <1>11, <3>1, <3>2 DEF Perm
    <3>3. CASE a # seen.active
      <4>1. d.panes[a] = base.panes[a]
        BY <1>1, <1>6, <1>14, <2>1, <3>1, <3>3 DEF RevisionNamesLayout
      <4> QED
        BY <1>11, <3>3, <4>1 DEF Perm
    <3> QED
      BY <3>2, <3>3
  <2> QED
    BY <1>6, <1>8, <2>1 DEF SeenIsPermuted, Perm
<1>19. SeenIsRight'
  <2>1. CASE drag.moved
    BY <1>6, <1>7, <1>8, <1>11, <1>13, <2>1 DEF SeenIsRight, WillBeTold
  <2>2. CASE ~drag.moved
    <3>0. order = seen.panes[seen.active]
      BY <1>4, <2>2
    <3>1. seen'.panes[seen.active] = seen.panes[seen.active] /\ seen'.revision = seen.revision /\ seen'.active = seen.active
      BY <1>6, <1>8, <1>11, <3>0
    <3>2. WillBeTold => WillBeTold'
      BY <1>2, <2>2, <3>1 DEF WillBeTold
    <3>3. SeenIs => SeenIs'
      BY <1>14, <3>1 DEF SeenIs
    <3> QED
      BY <1>1, <2>2, <3>2, <3>3 DEF SeenIsRight, Moving
  <2> QED
    BY <2>1, <2>2
<1>20. CaughtUp'
  BY <1>1, <1>2, <1>6, <1>8 DEF CaughtUp, Agrees
<1>21. \A a \in Areas : \E d \in Issued \cup {seen} : Len(seen'.panes[a]) = Len(d.panes[a])
  <2> TAKE a \in Areas
  <2>1. CASE a = seen.active
    BY <1>4, <1>11, <2>1 DEF Perm
  <2>2. CASE a # seen.active
    BY <1>6, <1>11, <2>2
  <2> QED
    BY <2>1, <2>2
<1> QED
  BY <1>7, <1>10, <1>12, <1>13, <1>15, <1>16, <1>17, <1>18, <1>19, <1>20, <1>21 DEF LayoutKept

(* An event that is pushed names shells that were ended before. *)
LEMMA PushKeepsShells ==
    ASSUME WorkInv, NEW e \in Sent, up' = Append(up, e), e.found \subseteq numbered \ shells', shells' \subseteq shells,
           desk' = desk, down' = down, seen' = seen, pendingState' = pendingState, numbered' = numbered,
           unasked' = unasked, asking'.hooks \subseteq numbered
    PROVE  ShellsKept' /\ up' \in Seq(Sent)
<1>1. up \in Seq(Sent) /\ ShellsKept
  BY DEF WorkInv, WorkShape
<1>2. up' \in Seq(Sent) /\ Range(up') = Range(up) \cup {e}
  BY <1>1, AppendFacts
<1>3. Issued' = Issued
  BY DEF Issued
<1>4. AllKeys(desk') = AllKeys(desk)
  BY DEF AllKeys, Leaves
<1>5. (\A d \in Issued : Placed(d))' /\ Placed(seen)'
  BY <1>1, <1>3 DEF ShellsKept, Placed, AllKeys, Leaves
<1>6. GonePanesHaveNoShell'
  BY <1>1 DEF ShellsKept, GonePanesHaveNoShell, AllKeys, Leaves
<1>7. \A f \in Range(up') : f.found \subseteq numbered' \ shells'
  BY <1>1, <1>2 DEF ShellsKept
<1> QED
  BY <1>2, <1>5, <1>6, <1>7 DEF ShellsKept

(* What only moves the page keeps the shells. *)
LEMMA PageKeepsShells ==
    ASSUME WorkInv, desk' = desk, down' = down, up' = up, Placed(seen'), pendingState' = pendingState,
           numbered' = numbered, shells' = shells, unasked' = unasked, asking'.hooks \subseteq numbered
    PROVE  ShellsKept'
<1>1. ShellsKept
  BY DEF WorkInv
<1>2. Issued' = Issued
  BY DEF Issued
<1> QED
  BY <1>1, <1>2 DEF ShellsKept, Placed, GonePanesHaveNoShell, AllKeys, Leaves

(* The invariant, action by action: the LiveView answers an event, *)
LEMMA HandleKeeps == ASSUME WorkInv, HandleEvent PROVE WorkInv'
<1> DEFINE e == Head(up)
<1>1. WorkShape /\ ShellsKept
  BY DEF WorkInv
<1>2. /\ up # <<>> /\ desk' = Answer(desk, e) /\ down' = Append(down, desk') /\ up' = Tail(up)
      /\ unasked' = unasked \cup {k \in Terminals \cap AllKeys(desk) : k \notin AllKeys(desk') \cup e.found}
      /\ numbered' = numbered /\ shells' = shells
      /\ seen' = seen /\ pendingState' = pendingState /\ drag' = drag /\ asking' = asking
  BY DEF HandleEvent, pageVars
<1>3. /\ e \in Range(up) /\ up' \in Seq(Sent)
      /\ Range(up') \subseteq Range(up) /\ Range(up) \subseteq Range(up') \cup {e} /\ e \in Sent
  <2>1. up \in Seq(Sent)
    BY <1>1 DEF WorkShape
  <2>2. e \in Range(up) /\ Range(up') \subseteq Range(up) /\ Range(up) \subseteq Range(up') \cup {e}
    BY <1>2, <2>1, TailRange
  <2>3. up' \in Seq(Sent) /\ e \in Sent
    BY <1>2, <2>1
  <2> QED
    BY <2>2, <2>3
<1> HIDE DEF e
<1>4. desk \in Arrangement
  BY <1>1 DEF WorkShape
<1>5. /\ desk' \in Arrangement /\ KeepsOrBumps(desk, desk') /\ AllKeys(desk') \subseteq AllKeys(desk)
      /\ e.event = "reorder" /\ ~Current(desk, e) => desk' = desk
      /\ e.event = "reorder" /\ Current(desk, e) =>
           IF e.order # desk.panes[desk.active] /\ Perm(e.order, desk.panes[desk.active])
           THEN desk'.revision = desk.revision + 1 ELSE desk' = desk
  BY <1>2, <1>3, <1>4, AnswerKeeps
<1>6. LayoutKept'
  <2>1. ASSUME NEW f \in Range(up) \ Range(up'), f.event = "reorder"
        PROVE  IF Current(desk, f) /\ f.order # desk.panes[desk.active] /\ Perm(f.order, desk.panes[desk.active])
               THEN desk'.revision = desk.revision + 1 ELSE desk' = desk
    BY <1>3, <1>5, <2>1
  <2> QED
    BY <1>2, <1>3, <1>5, <2>1, ServerKeepsLayout
<1>7. down' \in Seq(Arrangement) /\ Range(down') = Range(down) \cup {desk'}
  BY <1>1, <1>2, <1>5, AppendFacts DEF WorkShape
<1>8. WorkShape'
  BY <1>1, <1>2, <1>3, <1>5, <1>7 DEF WorkShape
<1>9. ShellsKept'
  <2>1. \A d \in Issued' : AllKeys(d) \cap Terminals \subseteq numbered
    BY <1>1, <1>2, <1>5, <1>7 DEF Issued, ShellsKept, Placed
  <2>2. Placed(seen)'
    BY <1>1, <1>2 DEF ShellsKept, Placed, AllKeys, Leaves
  <2>3. shells \subseteq AllKeys(desk') \cup unasked'
    <3>1. e.found \cap shells = {} /\ shells \subseteq AllKeys(desk) \cup unasked /\ shells \subseteq Terminals
      BY <1>1, <1>3 DEF ShellsKept, GonePanesHaveNoShell, WorkShape
    <3> QED
      BY <1>2, <3>1
  <2>4. GonePanesHaveNoShell'
    BY <1>2, <2>3 DEF GonePanesHaveNoShell, AllKeys, Leaves
  <2>5. (\A d \in Issued : Placed(d))'
    BY <1>2, <2>1 DEF Placed, AllKeys, Leaves
  <2> QED
    BY <1>1, <1>2, <1>3, <2>2, <2>4, <2>5 DEF ShellsKept
<1> QED
  BY <1>6, <1>8, <1>9 DEF WorkInv

(* opens a panel, *)
LEMMA OpenPanelKeeps == ASSUME WorkInv, NEW key \in Keys, OpenPanel(key) PROVE WorkInv'
<1> DEFINE begun == {key} \cap Terminals \cap AllKeys(desk')
<1>1. WorkShape /\ ShellsKept /\ desk \in Arrangement
  BY DEF WorkInv, WorkShape
<1>2. /\ key \notin numbered /\ desk' = DeskOpens(desk, key) /\ down' = Append(down, desk') /\ up' = up
      /\ numbered' = numbered \cup begun /\ shells' = shells \cup begun /\ unasked' = unasked
      /\ seen' = seen /\ pendingState' = pendingState /\ drag' = drag /\ asking' = asking
  BY DEF OpenPanel, pageVars
<1>3. /\ desk' \in Arrangement /\ KeepsOrBumps(desk, desk') /\ AllKeys(desk) \subseteq AllKeys(desk')
      /\ AllKeys(desk') \subseteq AllKeys(desk) \cup {key}
  BY <1>1, <1>2, OpenKeeps
<1>4. LayoutKept'
  BY <1>2, <1>3, ServerKeepsLayout
<1>5. down' \in Seq(Arrangement) /\ Range(down') = Range(down) \cup {desk'}
  BY <1>1, <1>2, <1>3, AppendFacts DEF WorkShape
<1>6. begun \subseteq Terminals \cap AllKeys(desk') /\ begun \subseteq {key}
  OBVIOUS
<1>7. AllKeys(desk') \cap Terminals \subseteq numbered'
  BY <1>1, <1>2, <1>3 DEF ShellsKept, Placed, Issued
<1> HIDE DEF begun
<1>8. WorkShape'
  BY <1>1, <1>2, <1>3, <1>5, <1>6 DEF WorkShape
<1>9. ShellsKept'
  <2>1. \A d \in Issued' : AllKeys(d) \cap Terminals \subseteq numbered'
    BY <1>1, <1>2, <1>5, <1>7 DEF Issued, ShellsKept, Placed
  <2>2. (\A d \in Issued : Placed(d))'
    BY <2>1 DEF Placed, AllKeys, Leaves
  <2>3. Placed(seen)'
    BY <1>1, <1>2 DEF ShellsKept, Placed, AllKeys, Leaves
  <2>4. shells' \subseteq AllKeys(desk') \cup unasked'
    BY <1>1, <1>2, <1>3, <1>6 DEF ShellsKept, GonePanesHaveNoShell
  <2>5. GonePanesHaveNoShell'
    BY <2>4 DEF GonePanesHaveNoShell, AllKeys, Leaves
  <2>6. \A e \in Range(up') : e.found \subseteq numbered' \ shells'
    BY <1>1, <1>2, <1>6 DEF ShellsKept
  <2>7. asking'.hooks \subseteq numbered'
    BY <1>1, <1>2 DEF ShellsKept
  <2> QED
    BY <2>2, <2>3, <2>5, <2>6, <2>7 DEF ShellsKept
<1> QED
  BY <1>4, <1>8, <1>9 DEF WorkInv

(* the page takes an answer, *)
LEMMA ReceiveKeeps == ASSUME WorkInv, ReceiveState PROVE WorkInv'
<1> DEFINE d == Head(down)
<1>1. WorkShape /\ ShellsKept
  BY DEF WorkInv
<1>2. /\ down # <<>> /\ down' = Tail(down) /\ desk' = desk /\ up' = up /\ asking' = asking
      /\ numbered' = numbered /\ shells' = shells /\ unasked' = unasked
      /\ \/ pendingState' = d /\ seen' = seen /\ drag' = drag
         \/ pendingState' = Nothing /\ seen' = d /\ drag' = NoDrag
  BY DEF ReceiveState, serverVars
<1>3. down' \in Seq(Arrangement) /\ d \in Arrangement /\ d \in Range(down) /\ Range(down') \subseteq Range(down)
  <2>1. down \in Seq(Arrangement)
    BY <1>1 DEF WorkShape
  <2>2. d \in Range(down) /\ Range(down') \subseteq Range(down)
    BY <1>2, <2>1, TailRange
  <2>3. down' \in Seq(Arrangement) /\ d \in Arrangement
    BY <1>2, <2>1
  <2> QED
    BY <2>2, <2>3
<1> HIDE DEF d
<1>4. NoDrag \in Gesture
  BY AreasAssumption DEF NoDrag, Gesture
<1>5. WorkShape'
  BY <1>1, <1>2, <1>3, <1>4 DEF WorkShape
<1>6. ShellsKept'
  <2>1. Issued' \subseteq Issued /\ d \in Issued
    BY <1>2, <1>3 DEF Issued
  <2>2. (\A c \in Issued : Placed(c))' /\ Placed(seen)'
    BY <1>1, <1>2, <2>1 DEF ShellsKept, Placed, AllKeys, Leaves
  <2>3. GonePanesHaveNoShell'
    BY <1>1, <1>2 DEF ShellsKept, GonePanesHaveNoShell, AllKeys, Leaves
  <2> QED
    BY <1>1, <1>2, <2>2, <2>3 DEF ShellsKept
<1> QED
  BY <1>5, <1>6, ReceiveKeepsLayout DEF WorkInv

(* focuses a panel or selects an area, *)
LEMMA PointKeeps ==
    ASSUME WorkInv, NEW key \in Keys, NEW a \in Areas, PushFocus(key) \/ SelectArea(a) PROVE WorkInv'
<1>1. WorkShape /\ ShellsKept /\ desk.revision \in Nat
  BY IssuedFacts DEF WorkInv
<1>2. PICK e \in Sent : /\ up' = Append(up, e) /\ e.event \in {"focus", "select"} /\ e.revision = 0 /\ e.found = {}
  <2>1. <<>> \in Seq(Keys)
    OBVIOUS
  <2>2. CASE PushFocus(key)
    <3> DEFINE e == [Event EXCEPT !.event = "focus", !.key = key]
    <3>1. e \in [event : {"focus"}, key : Keys, area : Areas, revision : {0}, order : Seq(Keys),
                 base : Seq(Keys), found : {{}}]
      BY <2>1, AreasAssumption DEF Event
    <3>2. up' = Append(up, e)
      BY <2>2 DEF PushFocus, Push
    <3> HIDE DEF e
    <3>3. e \in Sent /\ e.event = "focus" /\ e.revision = 0 /\ e.found = {}
      BY <3>1 DEF Sent
    <3> QED
      BY <3>2, <3>3
  <2>3. CASE SelectArea(a)
    <3> DEFINE e == [Event EXCEPT !.event = "select", !.area = a]
    <3>1. e \in [event : {"select"}, key : {Nothing}, area : Areas, revision : {0}, order : Seq(Keys),
                 base : Seq(Keys), found : {{}}]
      BY <2>1 DEF Event
    <3>2. up' = Append(up, e)
      BY <2>3 DEF SelectArea, Push
    <3> HIDE DEF e
    <3>3. e \in Sent /\ e.event = "select" /\ e.revision = 0 /\ e.found = {}
      BY <3>1 DEF Sent
    <3> QED
      BY <3>2, <3>3
  <2> QED
    BY <2>2, <2>3
<1>3. /\ desk' = desk /\ numbered' = numbered /\ shells' = shells /\ unasked' = unasked /\ down' = down
      /\ seen' = seen /\ pendingState' = pendingState /\ drag' = drag /\ asking' = asking
  BY DEF PushFocus, SelectArea, serverVars, pageVars
<1>4. TellsOf(e) /\ e.revision <= desk.revision
  BY <1>1, <1>2 DEF TellsOf
<1>5. LayoutKept'
  BY <1>2, <1>3, <1>4, PushKeepsLayout
<1>6. ShellsKept' /\ up' \in Seq(Sent)
  BY <1>1, <1>2, <1>3, PushKeepsShells DEF ShellsKept
<1>7. WorkShape'
  BY <1>1, <1>3, <1>6 DEF WorkShape
<1> QED
  BY <1>5, <1>6, <1>7 DEF WorkInv

(* begins a drag or moves a divider, *)
LEMMA GestureKeeps ==
    ASSUME WorkInv, NEW key \in Keys, ArmPaneDrag(key) \/ StartDrag \/ MoveDivider PROVE WorkInv'
<1>1. WorkShape /\ ShellsKept /\ DragIsOfThis /\ seen.panes \in [Areas -> Seq(Keys)] /\ seen.active \in Areas
      /\ seen.revision \in Nat
  BY IssuedFacts DEF WorkInv, LayoutKept
<1>2. /\ desk' = desk /\ numbered' = numbered /\ shells' = shells /\ unasked' = unasked /\ down' = down /\ up' = up
      /\ seen' = seen /\ pendingState' = pendingState /\ asking' = asking
  BY DEF ArmPaneDrag, StartDrag, MoveDivider, serverVars
<1>3. Shown \in Seq(Keys)
  BY <1>1 DEF Shown
<1>4. drag' \in Gesture /\ DragIsOfThis' /\ ~Moving /\ ~Moving'
  <2>1. CASE ArmPaneDrag(key)
    <3>1. drag' = [kind |-> "pane", area |-> seen.active, revision |-> seen.revision, key |-> key,
                   start |-> Shown, order |-> Shown, moved |-> FALSE] /\ key \in Range(Shown) /\ ~Dragging
      BY <2>1 DEF ArmPaneDrag, Snapshot
    <3>2. drag' \in Gesture /\ ~Moving /\ ~Moving'
      BY <1>1, <1>3, <3>1 DEF Gesture, Moving, Dragging
    <3> QED
      BY <1>2, <3>1, <3>2 DEF DragIsOfThis, Perm, Shown
  <2>2. CASE StartDrag
    <3>1. drag' = [kind |-> "divider", area |-> seen.active, revision |-> seen.revision, key |-> Nothing,
                   start |-> Shown, order |-> Shown, moved |-> FALSE] /\ ~Dragging
      BY <2>2 DEF StartDrag, Snapshot
    <3>2. drag' \in Gesture /\ ~Moving /\ ~Moving'
      BY <1>1, <1>3, <3>1 DEF Gesture, Moving, Dragging
    <3> QED
      BY <1>2, <3>1, <3>2 DEF DragIsOfThis, Perm, Shown
  <2>3. CASE MoveDivider
    <3>1. drag.kind = "divider" /\ drag' = [drag EXCEPT !.moved = TRUE] /\ drag \in Gesture
      BY <1>1, <2>3 DEF MoveDivider, WorkShape
    <3>2. /\ drag' \in Gesture /\ drag'.kind = "divider" /\ drag'.area = drag.area /\ drag'.revision = drag.revision
          /\ drag'.start = drag.start
      BY <3>1 DEF Gesture
    <3> QED
      BY <1>1, <1>2, <3>1, <3>2 DEF DragIsOfThis, Dragging, Moving, Perm
  <2> QED
    BY <2>1, <2>2, <2>3
<1>5. LayoutKept'
  BY <1>2, <1>4, GestureKeepsLayout
<1>6. ShellsKept'
  <2>1. Placed(seen') /\ asking'.hooks \subseteq numbered
    BY <1>1, <1>2 DEF ShellsKept
  <2> QED
    BY <1>2, <2>1, PageKeepsShells
<1>7. WorkShape'
  BY <1>1, <1>2, <1>4 DEF WorkShape
<1> QED
  BY <1>5, <1>6, <1>7 DEF WorkInv

(* slides a panel, *)
LEMMA MoveKeeps == ASSUME WorkInv, NEW target \in Keys, MovePane(target) PROVE WorkInv'
<1>1. WorkShape /\ ShellsKept /\ drag \in Gesture
  BY DEF WorkInv, WorkShape
<1>2. LayoutKept' /\ seen' \in Arrangement /\ drag'.order \in Seq(Keys) /\ AllKeys(seen') = AllKeys(seen)
  BY SlideKeepsLayout
<1>3. /\ desk' = desk /\ numbered' = numbered /\ shells' = shells /\ unasked' = unasked /\ down' = down /\ up' = up
      /\ pendingState' = pendingState /\ asking' = asking
  BY DEF MovePane, serverVars
<1> DEFINE order == ReorderKeys(drag.order, drag.key, target)
<1>4. drag' = [drag EXCEPT !.moved = TRUE, !.order = order]
  BY DEF MovePane
<1> HIDE DEF order
<1>5. drag'.order = order
  BY <1>1, <1>4 DEF Gesture
<1>6. drag' \in Gesture
  BY <1>1, <1>2, <1>4, <1>5 DEF Gesture
<1>7. ShellsKept'
  <2>1. Placed(seen') /\ asking'.hooks \subseteq numbered
    BY <1>1, <1>2, <1>3 DEF ShellsKept, Placed
  <2> QED
    BY <1>3, <2>1, PageKeepsShells
<1>8. WorkShape'
  BY <1>1, <1>2, <1>3, <1>6 DEF WorkShape
<1> QED
  BY <1>2, <1>7, <1>8 DEF WorkInv

(* drops it, *)
LEMMA DropKeeps == ASSUME WorkInv, NEW cancelled \in BOOLEAN, DropPane(cancelled) PROVE WorkInv'
<1>1. WorkShape /\ ShellsKept
  BY DEF WorkInv
<1>2. LayoutKept' /\ seen' \in Arrangement /\ up' \in Seq(Sent) /\ Placed(seen')
      /\ \A e \in Range(up') : e \in Range(up) \/ e.found = {}
  BY DropKeepsLayout
<1>3. /\ desk' = desk /\ numbered' = numbered /\ shells' = shells /\ unasked' = unasked /\ down' = down
      /\ pendingState' = Nothing /\ asking' = asking /\ drag' = NoDrag
  BY DEF DropPane, serverVars
<1>4. NoDrag \in Gesture
  BY AreasAssumption DEF NoDrag, Gesture
<1>5. ShellsKept'
  <2>1. Issued' \subseteq Issued
    BY <1>3 DEF Issued
  <2>2. (\A d \in Issued : Placed(d))' /\ GonePanesHaveNoShell'
    BY <1>1, <1>3, <2>1 DEF ShellsKept, Placed, GonePanesHaveNoShell, AllKeys, Leaves
  <2>3. \A e \in Range(up') : e.found \subseteq numbered' \ shells'
    BY <1>1, <1>2, <1>3 DEF ShellsKept
  <2>4. Placed(seen)'
    BY <1>2, <1>3 DEF Placed, AllKeys, Leaves
  <2> QED
    BY <1>1, <1>3, <2>2, <2>3, <2>4 DEF ShellsKept
<1>6. WorkShape'
  BY <1>1, <1>2, <1>3, <1>4 DEF WorkShape
<1> QED
  BY <1>2, <1>5, <1>6 DEF WorkInv

(* lets the divider go, *)
LEMMA EndDragKeeps == ASSUME WorkInv, EndDrag PROVE WorkInv'
<1> DEFINE e == [Event EXCEPT !.event = "resize", !.area = drag.area, !.revision = drag.revision, !.base = drag.start]
<1>1. /\ WorkShape /\ ShellsKept /\ DragIsOfThis /\ SeenIsPermuted /\ drag \in Gesture /\ RevisionsGrow
      /\ \A d \in Issued : d.panes \in [Areas -> Seq(Keys)]
      /\ seen.active \in Areas /\ seen.revision \in Nat
  BY IssuedFacts DEF WorkInv, WorkShape, LayoutKept
<1>2. /\ desk' = desk /\ numbered' = numbered /\ shells' = shells /\ unasked' = unasked /\ down' = down
      /\ seen' = seen /\ pendingState' = pendingState /\ asking' = asking /\ drag' = NoDrag
      /\ drag.kind = "divider" /\ up' = IF drag.moved THEN Append(up, e) ELSE up
  BY DEF EndDrag, Push, serverVars
<1>3. NoDrag \in Gesture /\ ~Moving /\ ~Moving' /\ DragIsOfThis'
  BY <1>2, AreasAssumption DEF NoDrag, Gesture, Moving, DragIsOfThis, Dragging
<1>4. drag.area = seen.active /\ drag.revision = seen.revision /\ Perm(drag.start, seen.panes[seen.active])
  BY <1>1, <1>2 DEF DragIsOfThis, Dragging
<1>5. drag.start \in Seq(Keys) /\ drag.area \in Areas /\ drag.revision \in Nat /\ <<>> \in Seq(Keys)
  BY <1>1 DEF Gesture
<1>6. e \in Sent /\ e.event = "resize" /\ e.area = drag.area /\ e.revision = drag.revision /\ e.base = drag.start
      /\ e.found = {}
  BY <1>5 DEF Event, Sent
<1> HIDE DEF e
<1>7. TellsOf(e) /\ e.revision <= desk.revision
  BY <1>1, <1>4, <1>6 DEF TellsOf, SeenIsPermuted, Perm, Leaves, RevisionsGrow
<1>8. asking'.hooks \subseteq numbered /\ Placed(seen')
  BY <1>1, <1>2 DEF ShellsKept
<1>9. LayoutKept' /\ ShellsKept' /\ up' \in Seq(Sent)
  <2>1. CASE drag.moved
    <3>1. LayoutKept'
      BY <1>2, <1>3, <1>6, <1>7, <2>1, PushKeepsLayout
    <3>2. ShellsKept' /\ up' \in Seq(Sent)
      BY <1>2, <1>6, <1>8, <2>1, PushKeepsShells
    <3> QED
      BY <3>1, <3>2
  <2>2. CASE ~drag.moved
    <3>1. LayoutKept'
      BY <1>2, <1>3, <2>2, GestureKeepsLayout
    <3>2. ShellsKept'
      BY <1>2, <1>8, <2>2, PageKeepsShells
    <3> QED
      BY <1>1, <1>2, <2>2, <3>1, <3>2 DEF WorkShape
  <2> QED
    BY <2>1, <2>2
<1>10. WorkShape'
  BY <1>1, <1>2, <1>3, <1>9 DEF WorkShape
<1> QED
  BY <1>9, <1>10 DEF WorkInv

(* asks whether a pane may be closed, *)
LEMMA AskKeeps ==
    ASSUME WorkInv, NEW key \in Keys, NEW a \in Areas, AskArea(a) \/ AskTerminal(key) \/ Refuse PROVE WorkInv'
<1>1. WorkShape /\ ShellsKept /\ DragIsOfThis /\ seen.active \in Areas
  BY IssuedFacts DEF WorkInv, LayoutKept
<1>2. /\ desk' = desk /\ numbered' = numbered /\ shells' = shells /\ unasked' = unasked /\ down' = down /\ up' = up
      /\ seen' = seen /\ pendingState' = pendingState /\ drag' = drag
  BY DEF AskArea, AskTerminal, Refuse, serverVars
<1>3. asking' \in Question /\ asking'.hooks \subseteq AllKeys(seen) \cap Terminals
  <2>1. CASE AskArea(a)
    <3>1. asking' = [area |-> a, key |-> Nothing, hooks |-> Leaves(seen, a) \cap Terminals]
      BY <2>1 DEF AskArea
    <3> QED
      BY <3>1 DEF Question, AllKeys
  <2>2. CASE AskTerminal(key)
    <3>1. asking' = [area |-> Nothing, key |-> key, hooks |-> {key}] /\ key \in AllKeys(seen) \cap Terminals
      BY <2>2 DEF AskTerminal
    <3> QED
      BY <3>1 DEF Question
  <2>3. CASE Refuse
    BY <2>3 DEF Refuse, NoAsk, Question
  <2> QED
    BY <2>1, <2>2, <2>3
<1>4. LayoutKept'
  <2>1. DragIsOfThis' /\ (Moving' <=> Moving)
    BY <1>1, <1>2 DEF DragIsOfThis, Dragging, Moving
  <2> QED
    BY <1>2, <2>1, GestureKeepsLayout
<1>5. ShellsKept'
  <2>1. Placed(seen') /\ asking'.hooks \subseteq numbered
    BY <1>1, <1>2, <1>3 DEF ShellsKept, Placed
  <2> QED
    BY <1>2, <2>1, PageKeepsShells
<1>6. WorkShape'
  BY <1>1, <1>2, <1>3 DEF WorkShape
<1> QED
  BY <1>4, <1>5, <1>6 DEF WorkInv

(* and closes it. *)
LEMMA AgreeKeeps == ASSUME WorkInv, Agree PROVE WorkInv'
<1>1. WorkShape /\ ShellsKept /\ DragIsOfThis /\ desk.revision \in Nat /\ asking \in Question
  BY IssuedFacts DEF WorkInv, LayoutKept, WorkShape
<1>2. /\ desk' = desk /\ numbered' = numbered /\ unasked' = unasked /\ down' = down
      /\ seen' = seen /\ pendingState' = pendingState /\ drag' = drag
      /\ asking # NoAsk /\ asking' = NoAsk /\ shells' = shells \ asking.hooks
  BY DEF Agree, EndSessions
<1>3. PICK e \in Sent : /\ up' = Append(up, e) /\ e.event \in {"area", "close"} /\ e.revision = 0
                        /\ e.found = asking.hooks
  <2>1. <<>> \in Seq(Keys) /\ asking.hooks \subseteq Terminals /\ asking.area \in Areas \cup {Nothing}
        /\ asking.key \in Terminals \cup {Nothing}
    BY <1>1 DEF Question
  <2>2. CASE asking.key = Nothing
    <3> DEFINE e == [Event EXCEPT !.event = "area", !.area = asking.area, !.found = asking.hooks]
    <3>1. e \in Sent /\ e.event = "area" /\ e.revision = 0 /\ e.found = asking.hooks
      BY <2>1 DEF Event, Sent
    <3>2. up' = Append(up, e)
      BY <2>2 DEF Agree, Push
    <3> HIDE DEF e
    <3> QED
      BY <3>1, <3>2
  <2>3. CASE asking.key # Nothing
    <3> DEFINE e == [Event EXCEPT !.event = "close", !.key = asking.key, !.found = asking.hooks]
    <3>1. e \in Sent /\ e.event = "close" /\ e.revision = 0 /\ e.found = asking.hooks
      BY <2>1, <2>3, AreasAssumption DEF Event, Sent, Keys
    <3>2. up' = Append(up, e)
      BY <2>3 DEF Agree, Push
    <3> HIDE DEF e
    <3> QED
      BY <3>1, <3>2
  <2> QED
    BY <2>2, <2>3
<1>4. TellsOf(e) /\ e.revision <= desk.revision
  BY <1>1, <1>3 DEF TellsOf
<1>5. LayoutKept'
  BY <1>2, <1>3, <1>4, PushKeepsLayout
<1>6. NoAsk \in Question /\ NoAsk.hooks = {}
  BY DEF NoAsk, Question
<1>7. ShellsKept' /\ up' \in Seq(Sent)
  <2>1. e.found \subseteq numbered \ shells' /\ shells' \subseteq shells /\ asking'.hooks \subseteq numbered
    BY <1>1, <1>2, <1>3, <1>6 DEF ShellsKept
  <2> QED
    BY <1>2, <1>3, <2>1, PushKeepsShells
<1>8. WorkShape'
  BY <1>1, <1>2, <1>6, <1>7 DEF WorkShape
<1> QED
  BY <1>5, <1>7, <1>8 DEF WorkInv

(* Every step keeps the invariant. *)
LEMMA WorkInvStep == WorkInv /\ [WorkNext]_workVars => WorkInv'
<1> SUFFICES ASSUME WorkInv, [WorkNext]_workVars PROVE WorkInv'
  OBVIOUS
<1>1. CASE UNCHANGED workVars
  <2>1. /\ desk' = desk /\ numbered' = numbered /\ shells' = shells /\ unasked' = unasked /\ down' = down /\ up' = up
        /\ seen' = seen /\ pendingState' = pendingState /\ drag' = drag /\ asking' = asking
    BY <1>1 DEF workVars
  <2>2. WorkShape /\ ShellsKept /\ DragIsOfThis
    BY DEF WorkInv, LayoutKept
  <2>3. DragIsOfThis' /\ (Moving' <=> Moving)
    BY <2>1, <2>2 DEF DragIsOfThis, Dragging, Moving
  <2>4. LayoutKept'
    BY <2>1, <2>3, GestureKeepsLayout
  <2>5. Placed(seen') /\ asking'.hooks \subseteq numbered
    BY <2>1, <2>2 DEF ShellsKept
  <2>6. ShellsKept'
    BY <2>1, <2>5, PageKeepsShells
  <2>7. WorkShape'
    BY <2>1, <2>2 DEF WorkShape
  <2> QED
    BY <2>4, <2>6, <2>7 DEF WorkInv
<1>2. CASE HandleEvent
  BY <1>2, HandleKeeps
<1>3. CASE ReceiveState
  BY <1>3, ReceiveKeeps
<1>4. ASSUME NEW key \in Keys, OpenPanel(key) \/ PushFocus(key) \/ ArmPaneDrag(key) \/ MovePane(key) \/ AskTerminal(key)
      PROVE  WorkInv'
  BY <1>4, OpenPanelKeeps, PointKeeps, GestureKeeps, MoveKeeps, AskKeeps, AreasAssumption
<1>5. ASSUME NEW a \in Areas, SelectArea(a) \/ AskArea(a) PROVE WorkInv'
  <2>1. Home \in Keys
    BY HomeAssumption DEF Keys
  <2> QED
    BY <1>5, <2>1, PointKeeps, AskKeeps
<1>6. ASSUME NEW cancelled \in BOOLEAN, DropPane(cancelled) PROVE WorkInv'
  BY <1>6, DropKeeps
<1>7. CASE StartDrag \/ MoveDivider \/ EndDrag \/ Refuse \/ Agree
  <2>1. Home \in Keys /\ 1 \in Areas
    BY HomeAssumption, AreasAssumption DEF Keys
  <2> QED
    BY <1>7, <2>1, GestureKeeps, EndDragKeeps, AskKeeps, AgreeKeeps
<1> QED
  BY <1>1, <1>2, <1>3, <1>4, <1>5, <1>6, <1>7 DEF WorkNext

(* The invariant gives the property the run checks. *)
LEMMA WorkInvFollows == WorkInv => PagesAndShellsFollow
<1> SUFFICES ASSUME WorkInv PROVE PagesAndShellsFollow
  OBVIOUS
<1>1. /\ WorkShape /\ GonePanesHaveNoShell /\ SeenIsPermuted /\ SeenIsRight /\ CaughtUp
  BY DEF WorkInv, LayoutKept, ShellsKept
<1>2. ASSUME up = <<>>, down = <<>>, ~Dragging, pendingState = Nothing PROVE desk = seen
  <2>1. Agrees(seen, desk)
    BY <1>1, <1>2 DEF CaughtUp
  <2>2. SeenIs
    <3>1. Range(up) = {} /\ Range(down) = {}
      BY <1>2 DEF Range
    <3>2. ~Moving /\ ~WillBeTold
      BY <1>2, <3>1 DEF Moving, WillBeTold, Dragging
    <3> QED
      BY <1>1, <3>2 DEF SeenIsRight
  <2>3. /\ desk \in Issued /\ desk \in Arrangement /\ seen \in Arrangement
        /\ seen.panes \in [Areas -> Seq(Keys)] /\ desk.panes \in [Areas -> Seq(Keys)]
    BY <1>1, FieldsOfArrangement DEF Issued, WorkShape
  <2>4. desk.revision = seen.revision
    BY <2>1 DEF Agrees
  <2>5. \A a \in Areas : desk.panes[a] = seen.panes[a]
    <3> TAKE a \in Areas
    <3>1. CASE a = seen.active
      BY <2>2, <2>3, <2>4, <3>1 DEF SeenIs
    <3>2. CASE a # seen.active
      BY <1>1, <2>3, <2>4, <3>2 DEF SeenIsPermuted
    <3> QED
      BY <3>1, <3>2
  <2>6. desk.panes = seen.panes
    BY <2>3, <2>5
  <2> QED
    BY <2>1, <2>3, <2>6 DEF Agrees, Arrangement
<1>3. PageCatchesUp
  BY <1>1, <1>2 DEF PageCatchesUp, CaughtUp
<1> QED
  BY <1>1, <1>3 DEF PagesAndShellsFollow

(* However events, drags, closings and answers cross, the page catches up
   with the LiveView, and no shell outlives its pane unless the pane joined an
   area whose closing had already looked its terminals up
   (workbench_hook.ex, hooks/workbench_areas.js, hooks/workbench.js). *)
THEOREM PagesAndShellsAlwaysFollow == WorkSpec => []PagesAndShellsFollow
<1>1. WorkInit => WorkInv
  BY WorkInvInit
<1>2. WorkInv /\ [WorkNext]_workVars => WorkInv'
  BY WorkInvStep
<1>3. WorkInv => PagesAndShellsFollow
  BY WorkInvFollows
<1> QED
  BY <1>1, <1>2, <1>3, PTL DEF WorkSpec

(* A reorder or a resize that the LiveView applies was made among the panels
   the area still has (workbench_hook.ex:133-141). *)
THEOREM DragsAlwaysApply == WorkSpec => DragsApplyToWhatWasShown
<1> DEFINE Applies == \A i \in DOMAIN up :
               HandleEvent /\ i = 1 /\ up[i].event \in {"reorder", "resize"} /\ desk'.revision # desk.revision
                 => Range(up[i].base) = Leaves(desk, desk.active)
<1>1. WorkInit => WorkInv
  BY WorkInvInit
<1>2. WorkInv /\ [WorkNext]_workVars => WorkInv'
  BY WorkInvStep
<1>3. ASSUME WorkInv PROVE Applies
  <2> SUFFICES ASSUME HandleEvent, 1 \in DOMAIN up, up[1].event \in {"reorder", "resize"},
                      desk'.revision # desk.revision
               PROVE  Range(up[1].base) = Leaves(desk, desk.active)
    OBVIOUS
  <2>1. WorkShape /\ EventsTell /\ desk \in Issued /\ desk \in Arrangement /\ up \in Seq(Sent)
    BY <1>3, IssuedFacts DEF WorkInv, WorkShape, LayoutKept
  <2>2. up[1] \in Range(up) /\ up[1] \in Sent /\ Head(up) = up[1]
    BY <2>1 DEF Range
  <2>3. desk' = Answer(desk, up[1])
    BY <2>2 DEF HandleEvent
  <2>4. Current(desk, up[1])
    BY <2>1, <2>2, <2>3, AnswerKeeps
  <2>5. TellsOf(up[1])
    BY <2>1, <2>2 DEF EventsTell
  <2> QED
    BY <2>1, <2>4, <2>5 DEF TellsOf, Current
<1>4. WorkInv => [Applies]_workVars
  BY <1>3
<1> QED
  BY <1>1, <1>2, <1>4, PTL DEF WorkSpec, DragsApplyToWhatWasShown

(* No panel stands twice. *)
Apart(panes) ==
    /\ \A a \in Areas : IsInjective(panes[a])
    /\ \A a, b \in Areas : a # b => Range(panes[a]) \cap Range(panes[b]) = {}
(* An arrangement in which no panel stands twice, the first and the active *)
(* area are open, the closed ones empty and the focus is in its area. *)
Tidy(d) ==
    /\ Apart(d.panes)
    /\ {1, d.active} \subseteq d.open
    /\ \A a \in Areas \ d.open : d.panes[a] = <<>>
    /\ \A a \in d.open : a < d.next
    /\ \A a \in d.open : d.focus[a] \in Leaves(d, a) \/ d.panes[a] = <<>>
Fits(d) == \A a \in Areas : Len(d.panes[a]) <= Capacity

(* Closing a panel, closing an area, reordering, any event, and opening a *)
(* panel keep an arrangement tidy and within its capacity. *)
LEMMA CloseTidies ==
    ASSUME NEW d \in Arrangement, NEW key, Tidy(d), Fits(d)
    PROVE  Tidy(DeskCloses(d, key)) /\ Fits(DeskCloses(d, key))
<1>1. CASE key \notin AllKeys(d)
  BY <1>1 DEF DeskCloses
<1>2. CASE key \in AllKeys(d)
  <2> DEFINE a == Holder(d, key)
             n == Without(d, a, key)
  <2>1. a \in Areas /\ key \in Leaves(d, a) /\ DeskCloses(d, key) = n
    BY <1>2 DEF AllKeys, Holder, DeskCloses
  <2> HIDE DEF a
  <2>2. PICK k \in 1..Len(d.panes[a]) :
          /\ d.panes[a][k] = key /\ n \in Arrangement
          /\ n.open = d.open /\ n.active = d.active /\ n.next = d.next
          /\ n.panes[a] = RemoveAt(d.panes[a], k)
          /\ n.focus[a] = FocusAfter(d.focus[a], key, RemoveAt(d.panes[a], k))
          /\ \A b \in Areas \ {a} : n.panes[b] = d.panes[b] /\ n.focus[b] = d.focus[b]
    BY <2>1, WithoutFields
  <2> DEFINE rest == RemoveAt(d.panes[a], k)
  <2>3. d.panes[a] \in Seq(Keys) /\ \A b \in Areas : Len(d.panes[b]) \in Nat
    BY <2>1, FieldsOfArrangement
  <2>4. /\ rest \in Seq(Keys) /\ Len(rest) = Len(d.panes[a]) - 1 /\ Range(rest) \subseteq Range(d.panes[a])
        /\ Range(d.panes[a]) \subseteq Range(rest) \cup {key} /\ IsInjective(rest) /\ key \notin Range(rest)
    BY <2>1, <2>2, <2>3, RemoveAtRange, SMTT(30) DEF Tidy, Apart
  <2>5. n.panes[a] = rest /\ n.focus[a] = FocusAfter(d.focus[a], key, rest)
    BY <2>2
  <2> HIDE DEF n, rest
  <2>6. Apart(n.panes)
    BY <2>2, <2>4, <2>5, ZenonT(40) DEF Tidy, Apart
  <2>7. Fits(n)
    BY <2>2, <2>3, <2>4, <2>5, CapacityAssumption DEF Fits
  <2>8. a \in d.open
    BY <2>1 DEF Tidy, Leaves, Range
  <2>9. n.focus[a] \in Leaves(n, a) \/ n.panes[a] = <<>>
    <3>1. CASE d.focus[a] = key
      <4>1. n.focus[a] = FirstOr(rest)
        BY <2>5, <3>1 DEF FocusAfter
      <4>2. rest = <<>> \/ Head(rest) \in Range(rest)
        BY <2>4 DEF Range
      <4> QED
        BY <2>5, <4>1, <4>2 DEF FirstOr, Leaves
    <3>2. CASE d.focus[a] # key
      <4>1. n.focus[a] = d.focus[a]
        BY <2>5, <3>2 DEF FocusAfter
      <4>2. d.focus[a] \in Leaves(d, a)
        BY <2>1, <2>8 DEF Tidy, Leaves, Range
      <4> QED
        BY <2>4, <2>5, <3>2, <4>1, <4>2 DEF Leaves
    <3> QED
      BY <3>1, <3>2
  <2>10. \A b \in n.open : n.focus[b] \in Leaves(n, b) \/ n.panes[b] = <<>>
    <3>1. n.open \subseteq Areas
      BY <2>2, FieldsOfArrangement
    <3> QED
      BY <2>2, <2>9, <3>1 DEF Tidy, Leaves
  <2> QED
    BY <2>1, <2>2, <2>6, <2>7, <2>8, <2>10 DEF Tidy
<1> QED
  BY <1>1, <1>2

(* Closing an area. *)
LEMMA AreaCloseTidies ==
    ASSUME NEW d \in Arrangement, NEW a, Tidy(d), Fits(d)
    PROVE  Tidy(DeskClosesArea(d, a)) /\ Fits(DeskClosesArea(d, a))
<1>1. CASE a \notin d.open \ {1}
  BY <1>1 DEF DeskClosesArea
<1>2. CASE a \in d.open \ {1}
  <2> DEFINE n == DeskClosesArea(d, a)
  <2>1. /\ a \in Areas /\ n \in Arrangement
        /\ n.open = d.open \ {a} /\ n.next = d.next
        /\ n.active = IF d.active = a THEN 1 ELSE d.active
        /\ n.panes[a] = <<>> /\ \A b \in Areas \ {a} : n.panes[b] = d.panes[b] /\ n.focus[b] = d.focus[b]
    BY <1>2, AreaFields
  <2> HIDE DEF n
  <2>2. Len(<<>>) = 0 /\ Range(<<>>) = {} /\ IsInjective(<<>>) /\ d.open \subseteq Areas
    BY FieldsOfArrangement DEF Range, IsInjective
  <2>3. Apart(n.panes)
    BY <2>1, <2>2 DEF Tidy, Apart
  <2>4. Fits(n)
    BY <2>1, <2>2, CapacityAssumption DEF Fits
  <2>5. {1, n.active} \subseteq n.open
    BY <1>2, <2>1 DEF Tidy
  <2>6. \A b \in n.open : b < n.next /\ (n.focus[b] \in Leaves(n, b) \/ n.panes[b] = <<>>)
    BY <2>1, <2>2 DEF Tidy, Leaves
  <2>7. \A b \in Areas \ n.open : n.panes[b] = <<>>
    BY <2>1 DEF Tidy
  <2> QED
    BY <2>3, <2>4, <2>5, <2>6, <2>7 DEF Tidy, n
<1> QED
  BY <1>1, <1>2

(* Reordering. *)
LEMMA ReorderTidies ==
    ASSUME NEW d \in Arrangement, NEW order \in Seq(Keys), Tidy(d), Fits(d)
    PROVE  Tidy(Reordered(d, order)) /\ Fits(Reordered(d, order))
<1>1. CASE ~(order # d.panes[d.active] /\ Perm(order, d.panes[d.active]))
  BY <1>1, ReorderKeeps
<1>2. CASE order # d.panes[d.active] /\ Perm(order, d.panes[d.active])
  <2> DEFINE n == Reordered(d, order)
             a == d.active
  <2>1. /\ n.open = d.open /\ n.active = d.active /\ n.next = d.next /\ n.focus = d.focus
        /\ n.panes[a] = order /\ \A b \in Areas \ {a} : n.panes[b] = d.panes[b]
    BY <1>2, ReorderedFields
  <2>2. a \in Areas /\ d.panes[a] \in Seq(Keys) /\ d.open \subseteq Areas
    BY FieldsOfArrangement
  <2>3. IsInjective(order)
    BY <1>2, <2>2, SameKeysApart DEF Perm, Tidy, Apart
  <2>4. a \in d.open /\ d.panes[a] # <<>>
    <3>1. CASE d.panes[a] = <<>>
      <4>1. Len(order) = 0
        BY <1>2, <3>1 DEF Perm
      <4>2. order = <<>>
        BY <4>1
      <4> QED
        BY <1>2, <3>1, <4>2
    <3> QED
      BY <3>1 DEF Tidy
  <2> HIDE DEF n, a
  <2>5. \A b \in Areas : Range(n.panes[b]) = Range(d.panes[b]) /\ Len(n.panes[b]) = Len(d.panes[b])
    BY <1>2, <2>1 DEF Perm, a
  <2>6. Apart(n.panes)
    BY <2>1, <2>3, <2>5 DEF Tidy, Apart
  <2>7. Fits(n)
    BY <2>5 DEF Fits
  <2>8. \A b \in n.open : n.focus[b] \in Leaves(n, b) \/ n.panes[b] = <<>>
    <3> TAKE b \in n.open
    <3>1. b \in Areas /\ (d.focus[b] \in Leaves(d, b) \/ d.panes[b] = <<>>)
      BY <2>1, <2>2 DEF Tidy
    <3>2. CASE b = a
      BY <2>1, <2>4, <2>5, <3>1, <3>2 DEF Leaves
    <3>3. CASE b # a
      BY <2>1, <3>1, <3>3 DEF Leaves
    <3> QED
      BY <3>2, <3>3
  <2>9. \A b \in Areas \ n.open : n.panes[b] = <<>>
    BY <2>1, <2>4 DEF Tidy
  <2> QED
    BY <2>1, <2>6, <2>7, <2>8, <2>9 DEF Tidy, n
<1> QED
  BY <1>1, <1>2

(* Any event. *)
LEMMA AnswerTidies ==
    ASSUME NEW d \in Arrangement, NEW e \in Sent, Tidy(d), Fits(d)
    PROVE  Tidy(Answer(d, e)) /\ Fits(Answer(d, e))
<1> USE FieldsOfArrangement
<1>1. CASE e.event = "focus"
  <2> DEFINE n == [d EXCEPT !.focus[d.active] = e.key]
  <2>1. Answer(d, e) = IF e.key \in Leaves(d, d.active) THEN n ELSE d
    BY <1>1 DEF Answer
  <2>2. CASE e.key \in Leaves(d, d.active)
    <3>1. /\ n.open = d.open /\ n.active = d.active /\ n.next = d.next /\ n.panes = d.panes
          /\ n.focus[d.active] = e.key /\ \A a \in Areas \ {d.active} : n.focus[a] = d.focus[a]
      BY DEF Arrangement
    <3> HIDE DEF n
    <3> QED
      BY <2>1, <2>2, <3>1 DEF Tidy, Fits, Leaves
  <2> QED
    BY <2>1, <2>2
<1>2. CASE e.event = "select"
  <2> DEFINE n == [d EXCEPT !.active = e.area]
  <2>1. Answer(d, e) = IF e.area \in d.open THEN n ELSE d
    BY <1>2 DEF Answer
  <2>2. CASE e.area \in d.open
    <3>1. /\ n.open = d.open /\ n.active = e.area /\ n.next = d.next /\ n.panes = d.panes /\ n.focus = d.focus
      BY DEF Arrangement
    <3> HIDE DEF n
    <3> QED
      BY <2>1, <2>2, <3>1 DEF Tidy, Fits, Leaves
  <2> QED
    BY <2>1, <2>2
<1>3. CASE e.event = "reorder"
  <2>1. Answer(d, e) = IF Current(d, e) THEN Reordered(d, e.order) ELSE d
    BY <1>3 DEF Answer
  <2> QED
    BY <2>1, ReorderTidies DEF Sent
<1>4. CASE e.event = "resize"
  <2>1. Answer(d, e) = IF Current(d, e) THEN Bumped(d) ELSE d
    BY <1>4 DEF Answer
  <2> DEFINE n == Bumped(d)
  <2>2. /\ n.open = d.open /\ n.active = d.active /\ n.next = d.next /\ n.panes = d.panes /\ n.focus = d.focus
    BY DEF Bumped, Arrangement
  <2> HIDE DEF n
  <2>3. Tidy(n) /\ Fits(n)
    BY <2>2 DEF Tidy, Fits, Leaves
  <2> QED
    BY <2>1, <2>3 DEF n
<1>5. CASE e.event = "close"
  <2>1. Answer(d, e) = DeskCloses(d, e.key)
    BY <1>5 DEF Answer
  <2> QED
    BY <2>1, CloseTidies
<1>6. CASE e.event = "area"
  <2>1. Answer(d, e) = DeskClosesArea(d, e.area)
    BY <1>6 DEF Answer
  <2> QED
    BY <2>1, AreaCloseTidies
<1> QED
  BY <1>1, <1>2, <1>3, <1>4, <1>5, <1>6 DEF Sent

(* Opening a panel. *)
LEMMA OpenTidies ==
    ASSUME NEW d \in Arrangement, NEW key \in Keys, Tidy(d), Fits(d)
    PROVE  Tidy(DeskOpens(d, key)) /\ Fits(DeskOpens(d, key))
<1>1. CASE key \in AllKeys(d)
  <2> DEFINE a == Holder(d, key)
             n == [d EXCEPT !.active = a, !.focus[a] = key]
  <2>1. a \in Areas /\ key \in Leaves(d, a) /\ DeskOpens(d, key) = n
    BY <1>1 DEF AllKeys, Holder, DeskOpens
  <2> HIDE DEF a
  <2>2. a \in d.open
    BY <2>1 DEF Tidy, Leaves, Range
  <2>3. /\ n.open = d.open /\ n.active = a /\ n.next = d.next /\ n.panes = d.panes
        /\ n.focus[a] = key /\ \A b \in Areas \ {a} : n.focus[b] = d.focus[b]
    BY <2>1 DEF Arrangement
  <2> HIDE DEF n
  <2>4. d.open \subseteq Areas
    BY FieldsOfArrangement
  <2> QED
    BY <2>1, <2>2, <2>3, <2>4 DEF Tidy, Fits, Leaves
<1>2. CASE key \notin AllKeys(d)
  <2>1. ASSUME NEW c \in Arrangement, NEW a \in Areas, Apart(c.panes), Fits(c), c.panes = d.panes,
               1 \in c.open, \A b \in Areas \ c.open : c.panes[b] = <<>>,
               \A b \in c.open \cup {a} : b < c.next,
               \A b \in c.open : c.focus[b] \in Leaves(c, b) \/ c.panes[b] = <<>>, Len(c.panes[a]) < Capacity
        PROVE  Tidy(OpenedIn(c, a, key)) /\ Fits(OpenedIn(c, a, key))
    <3> DEFINE n == OpenedIn(c, a, key)
               panes == Append(c.panes[a], key)
    <3>1. /\ n.open = c.open \cup {a} /\ n.active = a /\ n.next = c.next
          /\ n.panes[a] = panes /\ n.focus[a] = key
          /\ \A b \in Areas \ {a} : n.panes[b] = c.panes[b] /\ n.focus[b] = c.focus[b]
      BY OpenedFields
    <3>2. c.panes[a] \in Seq(Keys) /\ c.open \subseteq Areas
      BY FieldsOfArrangement
    <3>3. \A b \in Areas : key \notin Range(c.panes[b])
      BY <1>2, <2>1 DEF AllKeys, Leaves
    <3>4. Len(panes) = Len(c.panes[a]) + 1 /\ Len(c.panes[a]) \in Nat /\ Range(panes) = Range(c.panes[a]) \cup {key}
      BY <3>2, AppendRange
    <3>5. IsInjective(panes)
      <4>1. IsInjective(c.panes[a]) /\ key \notin Range(c.panes[a])
        BY <2>1, <3>3 DEF Apart
      <4> QED
        BY <3>2, <4>1, AppendKeepsApart
    <3> HIDE DEF n, panes
    <3>6. Apart(n.panes)
      <4>1. \A b \in Areas : IsInjective(n.panes[b])
        BY <2>1, <3>1, <3>5 DEF Apart
      <4>2. ASSUME NEW b \in Areas, NEW x \in Areas, b # x PROVE Range(n.panes[b]) \cap Range(n.panes[x]) = {}
        <5>1. Range(c.panes[b]) \cap Range(c.panes[x]) = {} /\ key \notin Range(c.panes[b]) /\ key \notin Range(c.panes[x])
          BY <2>1, <3>3, <4>2 DEF Apart
        <5>2. CASE b = a
          BY <3>1, <3>4, <4>2, <5>1, <5>2
        <5>3. CASE x = a
          BY <3>1, <3>4, <4>2, <5>1, <5>3
        <5>4. CASE b # a /\ x # a
          BY <3>1, <5>1, <5>4
        <5> QED
          BY <5>2, <5>3, <5>4
      <4> QED
        BY <4>1, <4>2 DEF Apart
    <3>7. Fits(n)
      BY <2>1, <3>1, <3>4, CapacityAssumption DEF Fits
    <3>8. \A b \in n.open : b < n.next /\ (n.focus[b] \in Leaves(n, b) \/ n.panes[b] = <<>>)
      BY <2>1, <3>1, <3>2, <3>4 DEF Leaves
    <3>9. \A b \in Areas \ n.open : n.panes[b] = <<>>
      BY <2>1, <3>1
    <3> QED
      BY <2>1, <3>1, <3>6, <3>7, <3>8, <3>9 DEF Tidy, n
  <2> DEFINE c == [d EXCEPT !.next = @ + 1]
  <2>2. DeskOpens(d, key) = IF Len(d.panes[d.active]) < Capacity THEN OpenedIn(d, d.active, key)
                            ELSE IF d.next \in Areas THEN OpenedIn(c, d.next, key) ELSE d
    BY <1>2 DEF DeskOpens, PlaceKey
  <2>3. CASE Len(d.panes[d.active]) < Capacity
    <3>1. d.active \in Areas /\ d.active \in d.open /\ d.active < d.next
      BY FieldsOfArrangement DEF Tidy
    <3> QED
      BY <2>1, <2>2, <2>3, <3>1 DEF Tidy
  <2>4. CASE ~(Len(d.panes[d.active]) < Capacity) /\ d.next \in Areas
    <3>1. /\ c \in Arrangement /\ c.open = d.open /\ c.next = d.next + 1
          /\ c.focus = d.focus /\ c.panes = d.panes
      BY NumberTaken
    <3> HIDE DEF c
    <3>2. d.next \in Nat /\ d.open \subseteq Areas
      BY FieldsOfArrangement
    <3>3. \A b \in d.open : b \in Nat /\ b < d.next
      BY <3>2, AreasAssumption DEF Tidy
    <3>4. \A b \in c.open \cup {d.next} : b < c.next
      BY <3>1, <3>2, <3>3
    <3>5. d.next \notin d.open
      BY <3>2, <3>3
    <3>6. d.panes[d.next] = <<>>
      BY <2>4, <3>5 DEF Tidy
    <3>7. Len(d.panes[d.next]) < Capacity
      BY <3>6, CapacityAssumption
    <3> QED
      BY <2>1, <2>2, <2>4, <3>1, <3>4, <3>7 DEF Tidy, Fits, Leaves
  <2> QED
    BY <2>2, <2>3, <2>4
<1> QED
  BY <1>1, <1>2

(* The second invariant, for the type invariant. *)
DeskKept == Tidy(desk) /\ (\A d \in Issued \cup {seen} : Fits(d)) /\ unasked \subseteq Terminals

(* The desk is tidy at the start, *)
LEMMA DeskKeptInit == WorkInit => DeskKept
<1> SUFFICES ASSUME WorkInit PROVE DeskKept
  OBVIOUS
<1>1. seen = desk /\ pendingState = Nothing /\ Range(down) = {} /\ unasked = {}
  BY DEF WorkInit, Range
<1>2. Issued \cup {seen} = {desk}
  BY <1>1 DEF Issued
<1>3. /\ desk.open = {1} /\ desk.active = 1 /\ desk.next = 2
      /\ \A a \in Areas : desk.panes[a] = (IF a = 1 THEN <<Home>> ELSE <<>>)
      /\ desk.focus[1] = Home
  BY AreasAssumption DEF WorkInit
<1>4. /\ Range(<<Home>>) = {Home} /\ Range(<<>>) = {} /\ IsInjective(<<Home>>) /\ IsInjective(<<>>)
      /\ Len(<<Home>>) = 1 /\ Len(<<>>) = 0
  BY DEF Range, IsInjective
<1>5. desk.panes[1] = <<Home>> /\ 1 \in Areas /\ \A a \in Areas : a # 1 => desk.panes[a] = <<>>
  BY <1>3, AreasAssumption
<1>6. Fits(desk)
  <2>1. 1 <= Capacity /\ 0 <= Capacity
    BY CapacityAssumption
  <2> QED
    BY <1>4, <1>5, <2>1 DEF Fits
<1>7. Tidy(desk)
  <2>1. \A a \in Areas : IsInjective(desk.panes[a])
    BY <1>4, <1>5
  <2>2. \A a, b \in Areas : a # b => Range(desk.panes[a]) \cap Range(desk.panes[b]) = {}
    BY <1>4, <1>5
  <2>3. 1 < 2
    OBVIOUS
  <2>4. \A a \in desk.open : desk.focus[a] \in Leaves(desk, a)
    BY <1>3, <1>4, <1>5 DEF Leaves
  <2> QED
    BY <1>3, <1>5, <2>1, <2>2, <2>3, <2>4 DEF Tidy, Apart
<1> QED
  BY <1>1, <1>2, <1>6, <1>7 DEF DeskKept

(* stays so in every step, *)
LEMMA DeskKeptStep == WorkInv /\ DeskKept /\ [WorkNext]_workVars => DeskKept'
<1> SUFFICES ASSUME WorkInv, DeskKept, [WorkNext]_workVars PROVE DeskKept'
  OBVIOUS
<1>1. /\ WorkShape /\ Tidy(desk) /\ Fits(desk) /\ desk \in Arrangement /\ desk \in Issued
      /\ \A d \in Issued \cup {seen} : Fits(d)
      /\ unasked \subseteq Terminals
  BY IssuedFacts DEF WorkInv, WorkShape, DeskKept
<1>2. ASSUME desk' \in Arrangement, Tidy(desk'), Fits(desk'), down' = Append(down, desk'), seen' = seen,
             pendingState' = pendingState, unasked' \subseteq Terminals
      PROVE  DeskKept'
  <2>1. Range(down') = Range(down) \cup {desk'}
    BY <1>1, <1>2, AppendFacts DEF WorkShape
  <2>2. Issued' \subseteq Issued \cup {desk'}
    BY <1>2, <2>1 DEF Issued
  <2> QED
    BY <1>1, <1>2, <2>2 DEF DeskKept, Tidy, Fits, Leaves
<1>3. ASSUME desk' = desk, Issued' \subseteq Issued, unasked' = unasked,
             \A a \in Areas : \E d \in Issued \cup {seen} : Len(seen'.panes[a]) = Len(d.panes[a])
      PROVE  DeskKept'
  BY <1>1, <1>3 DEF DeskKept, Tidy, Fits, Leaves
<1>4. CASE HandleEvent
  <2>1. /\ desk' = Answer(desk, Head(up)) /\ down' = Append(down, desk') /\ seen' = seen
        /\ pendingState' = pendingState /\ unasked' \subseteq Terminals /\ up # <<>>
    BY <1>1, <1>4 DEF HandleEvent, pageVars
  <2>2. Head(up) \in Sent
    BY <1>1, <2>1 DEF WorkShape
  <2>3. desk' \in Arrangement
    BY <1>1, <2>1, <2>2, AnswerKeeps
  <2>4. Tidy(desk') /\ Fits(desk')
    BY <1>1, <2>1, <2>2, AnswerTidies
  <2> QED
    BY <1>2, <2>1, <2>3, <2>4
<1>5. ASSUME NEW key \in Keys, OpenPanel(key) PROVE DeskKept'
  <2>1. /\ desk' = DeskOpens(desk, key) /\ down' = Append(down, desk') /\ seen' = seen
        /\ pendingState' = pendingState /\ unasked' \subseteq Terminals
    BY <1>1, <1>5 DEF OpenPanel, pageVars
  <2>2. desk' \in Arrangement
    BY <1>1, <2>1, OpenKeeps
  <2>3. Tidy(desk') /\ Fits(desk')
    BY <1>1, <2>1, OpenTidies
  <2> QED
    BY <1>2, <2>1, <2>2, <2>3
<1>6. CASE ReceiveState
  <2>1. /\ desk' = desk /\ unasked' = unasked /\ down' = Tail(down) /\ down # <<>>
        /\ \/ pendingState' = Head(down) /\ seen' = seen
           \/ pendingState' = Nothing /\ seen' = Head(down)
    BY <1>6 DEF ReceiveState, serverVars
  <2>2. Head(down) \in Range(down) /\ Range(down') \subseteq Range(down)
    BY <1>1, <2>1, TailRange DEF WorkShape
  <2>3. Issued' \subseteq Issued /\ seen' \in Issued \cup {seen}
    BY <2>1, <2>2 DEF Issued
  <2> QED
    BY <1>3, <2>1, <2>3
<1>7. ASSUME NEW target \in Keys, MovePane(target) PROVE DeskKept'
  <2>1. desk' = desk /\ unasked' = unasked /\ Issued' = Issued
    BY <1>7 DEF MovePane, serverVars, Issued
  <2>2. \A a \in Areas : Len(seen'.panes[a]) = Len(seen.panes[a])
    BY <1>7, SlideKeepsLayout
  <2> QED
    BY <1>3, <2>1, <2>2
<1>8. ASSUME NEW cancelled \in BOOLEAN, DropPane(cancelled) PROVE DeskKept'
  <2>1. desk' = desk /\ unasked' = unasked /\ Issued' \subseteq Issued
    BY <1>8 DEF DropPane, serverVars, Issued
  <2>2. \A a \in Areas : \E d \in Issued \cup {seen} : Len(seen'.panes[a]) = Len(d.panes[a])
    BY <1>8, DropKeepsLayout
  <2> QED
    BY <1>3, <2>1, <2>2
<1>9. ASSUME desk' = desk, unasked' = unasked, down' = down, pendingState' = pendingState, seen' = seen
      PROVE  DeskKept'
  <2>1. Issued' = Issued
    BY <1>9 DEF Issued
  <2> QED
    BY <1>3, <1>9, <2>1
<1>10. ASSUME NEW key \in Keys, PushFocus(key) \/ ArmPaneDrag(key) \/ AskTerminal(key) PROVE DeskKept'
  BY <1>9, <1>10 DEF PushFocus, ArmPaneDrag, AskTerminal, serverVars, pageVars
<1>11. ASSUME NEW a \in Areas, SelectArea(a) \/ AskArea(a) PROVE DeskKept'
  BY <1>9, <1>11 DEF SelectArea, AskArea, serverVars, pageVars
<1>12. CASE StartDrag \/ MoveDivider \/ EndDrag \/ Refuse \/ Agree
  BY <1>9, <1>12 DEF StartDrag, MoveDivider, EndDrag, Refuse, Agree, serverVars
<1>13. CASE UNCHANGED workVars
  BY <1>9, <1>13 DEF workVars
<1> QED
  BY <1>4, <1>5, <1>6, <1>7, <1>8, <1>10, <1>11, <1>12, <1>13 DEF WorkNext

(* and this gives the type invariant. *)
LEMMA DeskKeptTypes == WorkInv /\ DeskKept => WorkTypeOK
<1> SUFFICES ASSUME WorkInv, DeskKept PROVE WorkTypeOK
  OBVIOUS
<1>1. WorkShape /\ Tidy(desk) /\ (\A d \in Issued \cup {seen} : Fits(d)) /\ unasked \subseteq Terminals
  BY DEF WorkInv, DeskKept
<1>2. \A d \in {desk, seen, pendingState} \ {Nothing} : d \in Arrangement /\ Fits(d)
  BY <1>1 DEF WorkShape, Issued
<1>3. ASSUME NEW a \in Areas, NEW b \in Areas, NEW i \in DOMAIN desk.panes[a], NEW j \in DOMAIN desk.panes[b],
             desk.panes[a][i] = desk.panes[b][j]
      PROVE  a = b /\ i = j
  <2>1. desk.panes[a][i] \in Range(desk.panes[a]) /\ desk.panes[b][j] \in Range(desk.panes[b])
    BY DEF Range
  <2>2. a = b
    BY <1>1, <1>3, <2>1 DEF Tidy, Apart
  <2> QED
    BY <1>1, <1>3, <2>2 DEF Tidy, Apart, IsInjective
<1> QED
  BY <1>1, <1>2, <1>3 DEF WorkTypeOK, WorkShape, Fits, Tidy

(* No panel stands twice, no area exceeds its capacity, a closed area is empty,
   the active one is open and holds its focus (work_areas.ex). *)
THEOREM WorkTypeCorrect == WorkSpec => []WorkTypeOK
<1>1. WorkInit => WorkInv /\ DeskKept
  BY WorkInvInit, DeskKeptInit
<1>2. WorkInv /\ DeskKept /\ [WorkNext]_workVars => WorkInv' /\ DeskKept'
  BY WorkInvStep, DeskKeptStep
<1>3. WorkInv /\ DeskKept => WorkTypeOK
  BY DeskKeptTypes
<1> QED
  BY <1>1, <1>2, <1>3, PTL DEF WorkSpec

-----------------------------------------------------------------------------
(* The strip of app tabs. *)

(* No page has two tabs of its own. *)
SolosApart(s) == \A i, j \in DOMAIN s : s[i] = s[j] /\ ~IsJoined(s[i]) => i = j
Strips == {s \in Seq(Paths) : SolosApart(s)}

(* A tab is one page or two. *)
LEMMA PathForms ==
    /\ \A p \in Pages : <<p>> \in Paths /\ Len(<<p>>) = 1 /\ ~IsJoined(<<p>>) /\ <<p>>[1] = p /\ Range(<<p>>) = {p}
    /\ \A p, q \in Pages : /\ <<p, q>> \in Paths /\ Len(<<p, q>>) = 2 /\ IsJoined(<<p, q>>)
                           /\ <<p, q>>[1] = p /\ <<p, q>>[2] = q /\ Range(<<p, q>>) = {p, q}
    /\ \A path \in Paths : IF IsJoined(path) THEN path[1] \in Pages /\ path[2] \in Pages /\ path = <<path[1], path[2]>>
                           ELSE path[1] \in Pages /\ path = <<path[1]>>
<1>1. ASSUME NEW p \in Pages
      PROVE  <<p>> \in Paths /\ Len(<<p>>) = 1 /\ ~IsJoined(<<p>>) /\ <<p>>[1] = p /\ Range(<<p>>) = {p}
  <2>1. DOMAIN <<p>> = {1}
    OBVIOUS
  <2> QED
    BY <2>1 DEF Paths, IsJoined, Range
<1>2. ASSUME NEW p \in Pages, NEW q \in Pages
      PROVE  /\ <<p, q>> \in Paths /\ Len(<<p, q>>) = 2 /\ IsJoined(<<p, q>>)
             /\ <<p, q>>[1] = p /\ <<p, q>>[2] = q /\ Range(<<p, q>>) = {p, q}
  <2>1. DOMAIN <<p, q>> = {1, 2}
    OBVIOUS
  <2> QED
    BY <2>1 DEF Paths, IsJoined, Range
<1>3. ASSUME NEW path \in Paths
      PROVE  IF IsJoined(path) THEN path[1] \in Pages /\ path[2] \in Pages /\ path = <<path[1], path[2]>>
             ELSE path[1] \in Pages /\ path = <<path[1]>>
  <2>1. CASE path \in {<<p>> : p \in Pages}
    BY <1>1, <2>1
  <2>2. CASE path \in Pages \X Pages
    <3>1. path[1] \in Pages /\ path[2] \in Pages /\ path = <<path[1], path[2]>>
      BY <2>2
    <3> QED
      BY <1>2, <3>1
  <2> QED
    BY <2>1, <2>2 DEF Paths
<1> QED
  BY <1>1, <1>2, <1>3

(* Taking some of the tabs, in their order. *)
LEMMA PickStrip ==
    ASSUME NEW s \in Strips, NEW I
    PROVE  /\ PickAt(s, I) \in Strips
           /\ Range(PickAt(s, I)) = {s[i] : i \in {j \in DOMAIN s : j \in I}}
           /\ Range(PickAt(s, I)) \subseteq Range(s)
<1> DEFINE t == PickAt(s, I)
<1>1. s \in Seq(Paths) /\ SolosApart(s)
  BY DEF Strips
<1>2. t \in Seq(Paths) /\ Range(t) = {s[i] : i \in {j \in DOMAIN s : j \in I}}
  BY <1>1, PickAtRange
<1>3. PICK m : Enumerates(m, t, s, I, Len(s))
  BY <1>1, PickAtEnumerates
<1> HIDE DEF t
<1>4. DOMAIN t = 1..Len(t) /\ DOMAIN s = 1..Len(s) /\ Len(t) \in Nat /\ Len(s) \in Nat
  BY <1>1, <1>2
<1>5. /\ \A k \in 1..Len(t) : m[k] \in DOMAIN s /\ t[k] = s[m[k]] /\ m[k] \in Nat
      /\ \A k, l \in 1..Len(t) : k < l => m[k] < m[l]
  <2>1. \A i \in 1..Len(s) : i \in Nat
    BY <1>4
  <2> QED
    BY <1>3, <1>4, <2>1 DEF Enumerates
<1>6. SolosApart(t)
  <2> SUFFICES ASSUME NEW k \in 1..Len(t), NEW l \in 1..Len(t), t[k] = t[l], ~IsJoined(t[k]) PROVE k = l
    BY <1>4 DEF SolosApart
  <2>1. m[k] = m[l]
    BY <1>1, <1>5 DEF SolosApart
  <2>2. m[k] \in Nat /\ ~(k < l) /\ ~(l < k)
    BY <1>5, <2>1
  <2> QED
    BY <1>4, <2>2
<1>7. Range(t) \subseteq Range(s)
  BY <1>2 DEF Range
<1> QED
  BY <1>2, <1>6, <1>7 DEF t, Strips

LEMMA FilterStrip ==
    ASSUME NEW s \in Strips, NEW S
    PROVE  /\ AllBut(s, S) \in Strips /\ Range(AllBut(s, S)) = Range(s) \ S
           /\ Only(s, S) \in Strips /\ Range(Only(s, S)) = Range(s) \cap S
<1> DEFINE I == {i \in DOMAIN s : s[i] \notin S}
           J == {i \in DOMAIN s : s[i] \in S}
<1>1. AllBut(s, S) = PickAt(s, I) /\ Only(s, S) = PickAt(s, J)
  BY DEF AllBut, Only
<1>2. PickAt(s, I) \in Strips /\ Range(PickAt(s, I)) = {s[i] : i \in {j \in DOMAIN s : j \in I}}
  BY PickStrip
<1>3. PickAt(s, J) \in Strips /\ Range(PickAt(s, J)) = {s[i] : i \in {j \in DOMAIN s : j \in J}}
  BY PickStrip
<1>4. {s[i] : i \in {j \in DOMAIN s : j \in I}} = Range(s) \ S
  BY DEF Range
<1>5. {s[i] : i \in {j \in DOMAIN s : j \in J}} = Range(s) \cap S
  BY DEF Range
<1> QED
  BY ONLY <1>1, <1>2, <1>3, <1>4, <1>5

(* Two lists in a row that share no tab of one page. *)
LEMMA ConcatStrip ==
    ASSUME NEW s \in Strips, NEW t \in Strips,
           \A e \in Range(s) : e \in Range(t) => IsJoined(e)
    PROVE  s \o t \in Strips /\ Range(s \o t) = Range(s) \cup Range(t)
<1>1. s \in Seq(Paths) /\ t \in Seq(Paths) /\ SolosApart(s) /\ SolosApart(t)
  BY DEF Strips
<1> DEFINE c == s \o t
           n == Len(s)
<1>2. /\ c \in Seq(Paths)
      /\ \A i \in DOMAIN s : i \in DOMAIN c /\ c[i] = s[i]
      /\ \A j \in DOMAIN t : n + j \in DOMAIN c /\ c[n + j] = t[j]
      /\ \A i \in DOMAIN c : i \in DOMAIN s \/ \E j \in DOMAIN t : i = n + j
  BY <1>1, ConcatPlaces, SMTT(30)
<1> HIDE DEF c, n
<1>3. Range(c) = Range(s) \cup Range(t)
  BY <1>2 DEF Range
<1>4. ASSUME NEW i \in DOMAIN c, NEW j \in DOMAIN c, c[i] = c[j], ~IsJoined(c[i]) PROVE i = j
  <2>1. CASE i \in DOMAIN s /\ j \in DOMAIN s
    BY <1>1, <1>2, <1>4, <2>1 DEF SolosApart
  <2>2. ASSUME i \in DOMAIN s, NEW l \in DOMAIN t, j = n + l PROVE FALSE
    BY <1>2, <1>4, <2>2 DEF Range
  <2>3. ASSUME j \in DOMAIN s, NEW l \in DOMAIN t, i = n + l PROVE FALSE
    BY <1>2, <1>4, <2>3 DEF Range
  <2>4. ASSUME NEW k \in DOMAIN t, NEW l \in DOMAIN t, i = n + k, j = n + l PROVE i = j
    <3>1. t[k] = t[l] /\ ~IsJoined(t[k])
      BY <1>2, <1>4, <2>4
    <3> QED
      BY <1>1, <2>4, <3>1 DEF SolosApart
  <2> QED
    BY <1>2, <2>1, <2>2, <2>3, <2>4
<1>5. SolosApart(c)
  BY <1>4 DEF SolosApart
<1> QED
  BY <1>2, <1>3, <1>5 DEF Strips, c

(* A tab at the end. *)
LEMMA AppendStrip ==
    ASSUME NEW s \in Strips, NEW e \in Paths, IsJoined(e) \/ e \notin Range(s)
    PROVE  Append(s, e) \in Strips /\ Range(Append(s, e)) = Range(s) \cup {e}
<1>1. s \in Seq(Paths) /\ SolosApart(s)
  BY DEF Strips
<1> DEFINE u == Append(s, e)
<1>2. /\ DOMAIN u = 1..(Len(s) + 1) /\ Len(s) \in Nat /\ DOMAIN s = 1..Len(s) /\ u \in Seq(Paths)
      /\ \A i \in 1..Len(s) : u[i] = s[i]
      /\ u[Len(s) + 1] = e
  BY <1>1
<1> HIDE DEF u
<1>3. 1..(Len(s) + 1) = 1..Len(s) \cup {Len(s) + 1}
  BY <1>2
<1>4. \A i \in 1..Len(s) : s[i] = e => IsJoined(e)
  BY <1>2 DEF Range
<1>5. SolosApart(u)
  BY <1>1, <1>2, <1>3, <1>4 DEF SolosApart
<1>6. Range(u) = Range(s) \cup {e}
  BY <1>2, <1>3 DEF Range
<1> QED
  BY <1>2, <1>5, <1>6 DEF Strips, u

(* The tabs before a place and those after another share no tab of one page. *)
LEMMA PiecesOfStrip ==
    ASSUME NEW s \in Strips, NEW i \in 1..(Len(s) + 1), NEW j \in i..(Len(s) + 1)
    PROVE  LET p == SubSeq(s, 1, i - 1)
               q == SubSeq(s, j, Len(s))
           IN  /\ p \in Strips /\ Range(p) = {s[k] : k \in 1..(i - 1)}
               /\ q \in Strips /\ Range(q) = {s[k] : k \in j..Len(s)}
               /\ Range(p) \subseteq Range(s) /\ Range(q) \subseteq Range(s)
               /\ \A e \in Range(p) : e \in Range(q) => IsJoined(e)
<1> DEFINE n == Len(s)
           p == SubSeq(s, 1, i - 1)
           q == SubSeq(s, j, n)
<1>1. s \in Seq(Paths) /\ SolosApart(s) /\ n \in Nat /\ DOMAIN s = 1..n
  BY DEF Strips
<1>2. /\ i \in Nat /\ i >= 1 /\ i <= n + 1 /\ j \in Nat /\ j >= i /\ j <= n + 1
  BY <1>1
<1> HIDE DEF n
<1>3. p \in Seq(Paths) /\ Len(p) = i - 1 /\ \A k \in 1..(i - 1) : p[k] = s[k] /\ k \in 1..n
  <2>1. \A k \in 1..(i - 1) : k \in 1..n
    BY <1>1, <1>2
  <2> QED
    BY <1>1, <1>2, <2>1, SubSeqProperties DEF n
<1>4. q \in Seq(Paths) /\ Len(q) = n - j + 1 /\ \A k \in 1..(n - j + 1) : q[k] = s[j + k - 1]
  <2>1. \A k \in j..n : k \in 1..n
    BY <1>1, <1>2
  <2>2. q \in Seq(Paths) /\ Len(q) = (IF j <= n THEN n - j + 1 ELSE 0)
        /\ \A k \in 1..(n - j + 1) : q[k] = s[j + k - 1]
    BY <1>1, <1>2, <2>1, SubSeqProperties DEF n
  <2>3. (IF j <= n THEN n - j + 1 ELSE 0) = n - j + 1
    BY <1>1, <1>2
  <2> QED
    BY <2>2, <2>3
<1> HIDE DEF p, q
<1>5. DOMAIN p = 1..(i - 1) /\ DOMAIN q = 1..(n - j + 1)
  BY <1>3, <1>4
<1>6. /\ \A k \in 1..(n - j + 1) : j + k - 1 \in j..n /\ j + k - 1 \in 1..n
      /\ \A k \in j..n : k - j + 1 \in 1..(n - j + 1) /\ j + (k - j + 1) - 1 = k
      /\ \A k, l \in 1..(n - j + 1) : j + k - 1 = j + l - 1 => k = l
      /\ \A k \in 1..(i - 1), l \in j..n : k # l
  BY <1>1, <1>2
<1>7. Range(p) = {s[k] : k \in 1..(i - 1)}
  BY <1>3, <1>5 DEF Range
<1>8. Range(q) = {s[k] : k \in j..n}
  <2>1. \A k \in 1..(n - j + 1) : q[k] \in {s[l] : l \in j..n}
    BY <1>4, <1>6
  <2>2. \A k \in j..n : s[k] \in Range(q)
    BY <1>4, <1>5, <1>6 DEF Range
  <2> QED
    BY <1>5, <2>1, <2>2 DEF Range
<1>9. Range(p) \subseteq Range(s) /\ Range(q) \subseteq Range(s)
  <2>1. \A k \in j..n : k \in 1..n
    BY <1>1, <1>2
  <2> QED
    BY <1>1, <1>3, <1>7, <1>8, <2>1 DEF Range
<1>10. SolosApart(p)
  BY <1>1, <1>3, <1>5 DEF SolosApart
<1>11. SolosApart(q)
  <2> SUFFICES ASSUME NEW k \in 1..(n - j + 1), NEW l \in 1..(n - j + 1), q[k] = q[l], ~IsJoined(q[k]) PROVE k = l
    BY <1>5 DEF SolosApart
  <2>1. j + k - 1 = j + l - 1
    <3>1. s[j + k - 1] = s[j + l - 1] /\ ~IsJoined(s[j + k - 1])
      BY <1>4
    <3>2. j + k - 1 \in DOMAIN s /\ j + l - 1 \in DOMAIN s
      BY <1>1, <1>6
    <3> HIDE DEF n
    <3> QED
      BY ONLY <1>1, <3>1, <3>2 DEF SolosApart
  <2> QED
    BY <1>6, <2>1
<1>12. ASSUME NEW e \in Range(p), e \in Range(q) PROVE IsJoined(e)
  <2>1. PICK k \in 1..(i - 1) : e = s[k]
    BY <1>7
  <2>2. PICK l \in j..n : e = s[l]
    BY <1>8, <1>12
  <2>3. k \in DOMAIN s /\ l \in DOMAIN s /\ k # l
    BY <1>1, <1>2, <1>6
  <2> QED
    BY <1>1, <2>1, <2>2, <2>3 DEF SolosApart
<1> QED
  BY <1>3, <1>4, <1>7, <1>8, <1>9, <1>10, <1>11, <1>12 DEF n, p, q, Strips

(* A tab taken out of the list. *)
LEMMA RemoveStrip ==
    ASSUME NEW s \in Strips, NEW i \in 1..Len(s)
    PROVE  /\ RemoveAt(s, i) \in Strips /\ Len(RemoveAt(s, i)) = Len(s) - 1
           /\ Range(RemoveAt(s, i)) \subseteq Range(s)
           /\ ~IsJoined(s[i]) => s[i] \notin Range(RemoveAt(s, i))
<1> DEFINE p == SubSeq(s, 1, i - 1)
           q == SubSeq(s, i + 1, Len(s))
           R == Range(RemoveAt(s, i))
<1>1. s \in Seq(Paths) /\ SolosApart(s) /\ Len(s) \in Nat /\ i \in Nat /\ i >= 1 /\ i <= Len(s) /\ DOMAIN s = 1..Len(s)
  BY DEF Strips
<1>2. i \in 1..(Len(s) + 1) /\ i + 1 \in i..(Len(s) + 1)
  BY <1>1
<1>3. /\ p \in Strips /\ Range(p) = {s[k] : k \in 1..(i - 1)}
      /\ q \in Strips /\ Range(q) = {s[k] : k \in (i + 1)..Len(s)}
      /\ Range(p) \subseteq Range(s) /\ Range(q) \subseteq Range(s)
      /\ \A e \in Range(p) : e \in Range(q) => IsJoined(e)
  BY <1>2, PiecesOfStrip
<1>4. RemoveAt(s, i) = p \o q
  BY DEF RemoveAt
<1> HIDE DEF p, q
<1>5. RemoveAt(s, i) \in Strips /\ R = Range(p) \cup Range(q)
  BY <1>3, <1>4, ConcatStrip
<1>6. Len(RemoveAt(s, i)) = Len(s) - 1
  BY <1>1, RemoveAtRange
<1>7. ASSUME ~IsJoined(s[i]), s[i] \in R PROVE FALSE
  <2>1. \E k \in 1..Len(s) : k # i /\ s[k] = s[i]
    <3>1. \A k \in 1..(i - 1) : k \in 1..Len(s) /\ k # i
      BY <1>1
    <3>2. \A k \in (i + 1)..Len(s) : k \in 1..Len(s) /\ k # i
      BY <1>1
    <3> HIDE DEF R
    <3> QED
      BY ONLY <1>3, <1>5, <1>7, <3>1, <3>2
  <2> QED
    BY <1>1, <1>7, <2>1 DEF SolosApart
<1>8. R \subseteq Range(s)
  BY <1>3, <1>5
<1> QED
  BY <1>5, <1>6, <1>7, <1>8

(* A tab put into the list. *)
LEMMA InsertStrip ==
    ASSUME NEW s \in Strips, NEW i \in 1..(Len(s) + 1), NEW e \in Paths, IsJoined(e) \/ e \notin Range(s)
    PROVE  InsertAt(s, i, e) \in Strips /\ Range(InsertAt(s, i, e)) = Range(s) \cup {e}
<1> DEFINE p == SubSeq(s, 1, i - 1)
           q == SubSeq(s, i, Len(s))
<1>1. s \in Seq(Paths) /\ Len(s) \in Nat /\ i \in i..(Len(s) + 1)
  BY DEF Strips
<1>2. /\ p \in Strips /\ q \in Strips
      /\ Range(p) \subseteq Range(s) /\ Range(q) \subseteq Range(s)
      /\ \A d \in Range(p) : d \in Range(q) => IsJoined(d)
  BY <1>1, PiecesOfStrip
<1>3. InsertAt(s, i, e) = Append(p, e) \o q
  <2>1. InsertAt(s, i, e) = p \o <<e>> \o q
    BY DEF InsertAt
  <2> HIDE DEF p, q
  <2>2. p \o <<e>> = Append(p, e)
    BY <1>2 DEF Strips
  <2> QED
    BY <2>1, <2>2
<1> HIDE DEF p, q
<1>4. Append(p, e) \in Strips /\ Range(Append(p, e)) = Range(p) \cup {e}
  BY <1>2, AppendStrip
<1>5. \A d \in Range(Append(p, e)) : d \in Range(q) => IsJoined(d)
  BY <1>2, <1>4
<1>6. InsertAt(s, i, e) \in Strips
  BY <1>2, <1>3, <1>4, <1>5, ConcatStrip
<1>7. Range(InsertAt(s, i, e)) = Range(s) \cup {e}
  BY <1>1, InsertAtRange DEF Strips
<1> QED
  BY <1>6, <1>7

(* The first place of a tab. *)
PlaceOf(s, e) == SelectInSeq(s, LAMBDA q : q = e)

LEMMA FirstPlace ==
    ASSUME NEW s \in Strips, NEW e
    PROVE  IF e \in Range(s)
           THEN PlaceOf(s, e) \in 1..Len(s) /\ s[PlaceOf(s, e)] = e
           ELSE PlaceOf(s, e) = 0
<1> DEFINE I == {i \in 1..Len(s) : s[i] = e}
<1>1. PlaceOf(s, e) = IF I # {} THEN CHOOSE x \in I : \A y \in I : x <= y ELSE 0
  BY DEF SelectInSeq, Min, PlaceOf
<1>2. s \in Seq(Paths) /\ DOMAIN s = 1..Len(s) /\ Len(s) \in Nat
  BY DEF Strips
<1>3. I # {} <=> e \in Range(s)
  BY <1>2 DEF Range
<1>4. ASSUME I # {} PROVE PlaceOf(s, e) \in I
  <2>1. I \in SUBSET Nat
    BY <1>2
  <2> HIDE DEF I
  <2>2. \E x \in I : \A y \in I : x <= y
    BY <1>4, <2>1, LeastNatural
  <2> QED
    BY <1>1, <1>4, <2>2
<1> QED
  BY <1>1, <1>3, <1>4

(* The pages of the strip. *)
LEMMA NamedPages ==
    /\ HomePath \in Pages /\ Settings \in Pages /\ Inner \in Pages /\ Duty \in Pages /\ Voice \in Pages
    /\ Browse \in Pages /\ Console \in Pages /\ AllAreas \subseteq Pages /\ HomePath \in AllAreas
    /\ Settings # Inner /\ Settings # Voice /\ Inner # Voice
BY DEF Pages, AllAreas, Browsers, HomePath, Settings, Inner, Duty, Voice, Browse, Console

(* The voice page's tabs become tabs of Settings, and only one stays. *)
LEMMA RecoverStrip ==
    ASSUME NEW list \in Strips
    PROVE  RecoverRetiredTabs(list) \in Strips
<1> DEFINE n == Len(list)
           moved == [i \in DOMAIN list |->
                       IF list[i] = <<Voice>> THEN <<Settings>>
                       ELSE [side \in DOMAIN list[i] |-> IF list[i][side] = Voice THEN Inner ELSE list[i][side]]]
           first == {i \in DOMAIN list : <<Settings>> \notin Before(moved, i)}
           I == {i \in DOMAIN list : moved[i] # <<Settings>>} \cup first
           t == PickAt(moved, I)
<1>1. RecoverRetiredTabs(list) = t
  BY DEF RecoverRetiredTabs
<1>2. list \in Seq(Paths) /\ SolosApart(list) /\ n \in Nat /\ DOMAIN list = 1..n /\ \A i \in 1..n : list[i] \in Paths
  BY DEF Strips
<1> HIDE DEF n
<1>3. ASSUME NEW i \in 1..n PROVE moved[i] \in Paths /\ (IsJoined(moved[i]) \/ moved[i] = <<Settings>> \/ moved[i] = list[i])
  <2> DEFINE new == [side \in DOMAIN list[i] |-> IF list[i][side] = Voice THEN Inner ELSE list[i][side]]
  <2>1. moved[i] = IF list[i] = <<Voice>> THEN <<Settings>> ELSE new
    BY <1>2
  <2>2. CASE list[i] = <<Voice>>
    <3>1. moved[i] = <<Settings>>
      BY <2>1, <2>2
    <3>2. <<Settings>> \in Paths
      BY NamedPages, PathForms
    <3> QED
      BY ONLY <3>1, <3>2
  <2>3. CASE list[i] # <<Voice>> /\ ~IsJoined(list[i])
    <3>1. PICK p \in Pages : list[i] = <<p>>
      BY <1>2, <2>3, PathForms
    <3>2. new = list[i]
      <4>1. p # Voice /\ DOMAIN <<p>> = 1..1
        BY <2>3, <3>1
      <4>2. \A side \in DOMAIN <<p>> : (IF <<p>>[side] = Voice THEN Inner ELSE <<p>>[side]) = <<p>>[side]
        BY <4>1
      <4>3. <<p>> = [side \in DOMAIN <<p>> |-> <<p>>[side]]
        OBVIOUS
      <4>4. new = [side \in DOMAIN <<p>> |-> IF <<p>>[side] = Voice THEN Inner ELSE <<p>>[side]]
        BY <3>1
      <4> QED
        BY <3>1, <4>2, <4>3, <4>4
    <3> QED
      BY <1>2, <2>1, <2>3, <3>2
  <2>4. CASE IsJoined(list[i])
    <3>1. PICK p \in Pages, q \in Pages : list[i] = <<p, q>>
      BY <1>2, <2>4, PathForms
    <3> DEFINE a == IF p = Voice THEN Inner ELSE p
               b == IF q = Voice THEN Inner ELSE q
    <3>2. a \in Pages /\ b \in Pages
      BY NamedPages
    <3>3. new = <<a, b>>
      <4>1. DOMAIN <<p, q>> = 1..2 /\ <<p, q>>[1] = p /\ <<p, q>>[2] = q
        OBVIOUS
      <4>2. new = [side \in 1..2 |-> IF <<p, q>>[side] = Voice THEN Inner ELSE <<p, q>>[side]]
        BY <3>1, <4>1
      <4>3. \A side \in 1..2 : (IF <<p, q>>[side] = Voice THEN Inner ELSE <<p, q>>[side]) = IF side = 1 THEN a ELSE b
        BY <4>1
      <4>4. new = [side \in 1..2 |-> IF side = 1 THEN a ELSE b]
        BY <4>2, <4>3
      <4> HIDE DEF new, a, b
      <4> QED
        BY <4>4
    <3>4. list[i] # <<Voice>>
      BY <2>4, NamedPages, PathForms
    <3> HIDE DEF a, b, new
    <3> QED
      BY <2>1, <3>2, <3>3, <3>4, PathForms
  <2> QED
    BY <2>2, <2>3, <2>4
<1>4. moved \in Seq(Paths) /\ DOMAIN moved = 1..n /\ Len(moved) = n
  <2>1. moved = [i \in 1..n |-> moved[i]]
    BY <1>2
  <2> HIDE DEF moved
  <2>2. moved \in [1..n -> Paths]
    BY <1>3, <2>1
  <2> QED
    BY <1>2, <2>2
<1>5. t \in Seq(Paths)
  <2> HIDE DEF moved, I
  <2> QED
    BY <1>4, PickAtRange
<1>6. PICK m : Enumerates(m, t, moved, I, n)
  <2> HIDE DEF moved, I
  <2> QED
    BY <1>4, PickAtEnumerates
<1>7. \A i \in I : i \in 1..n /\ (moved[i] # <<Settings>> \/ \A j \in 1..(i - 1) : moved[j] # <<Settings>>)
  BY <1>2 DEF Before
<1> HIDE DEF t, I, first, moved
<1>8. DOMAIN t = 1..Len(t) /\ Len(t) \in Nat
  BY <1>5
<1>9. /\ \A k \in 1..Len(t) : m[k] \in I /\ t[k] = moved[m[k]] /\ m[k] \in 1..n
      /\ \A k, l \in 1..Len(t) : k < l => m[k] < m[l]
  BY <1>6 DEF Enumerates
<1>10. ASSUME NEW k \in 1..Len(t), NEW l \in 1..Len(t), t[k] = t[l], ~IsJoined(t[k]), k < l PROVE FALSE
  <2>1. m[k] \in 1..n /\ m[l] \in 1..n /\ m[k] < m[l] /\ m[k] \in 1..(m[l] - 1)
    BY <1>2, <1>9, <1>10
  <2>2. moved[m[k]] = moved[m[l]] /\ ~IsJoined(moved[m[k]])
    BY <1>9, <1>10
  <2>3. moved[m[l]] # <<Settings>>
    BY <1>7, <1>9, <2>1, <2>2
  <2>4. moved[m[k]] = list[m[k]] /\ moved[m[l]] = list[m[l]]
    BY <1>3, <2>1, <2>2, <2>3
  <2>5. m[k] = m[l]
    BY <1>2, <2>1, <2>2, <2>4 DEF SolosApart
  <2> QED
    BY <1>2, <2>1, <2>5
<1>11. SolosApart(t)
  <2> SUFFICES ASSUME NEW k \in 1..Len(t), NEW l \in 1..Len(t), t[k] = t[l], ~IsJoined(t[k]) PROVE k = l
    BY <1>8 DEF SolosApart
  <2>1. ~(k < l) /\ ~(l < k)
    BY <1>10
  <2> QED
    BY <1>8, <2>1
<1> QED
  BY <1>1, <1>5, <1>11 DEF Strips

(* Tabs of one page each, of pages that differ. *)
LEMMA TabsOfPages ==
    ASSUME NEW areas \in Seq(Pages), IsInjective(areas)
    PROVE  LET t == [i \in DOMAIN areas |-> <<areas[i]>>]
           IN  t \in Strips /\ Range(t) = {<<areas[i]>> : i \in DOMAIN areas}
<1> DEFINE t == [i \in DOMAIN areas |-> <<areas[i]>>]
<1>1. Len(areas) \in Nat /\ DOMAIN areas = 1..Len(areas) /\ \A i \in 1..Len(areas) : areas[i] \in Pages
  OBVIOUS
<1>2. DOMAIN t = 1..Len(areas) /\ \A i \in 1..Len(areas) : t[i] = <<areas[i]>> /\ t[i] \in Paths
  BY <1>1, PathForms
<1>3. t = [i \in 1..Len(areas) |-> t[i]]
  BY <1>1
<1> HIDE DEF t
<1>4. t \in Seq(Paths)
  BY <1>1, <1>2, <1>3
<1>5. SolosApart(t)
  <2> SUFFICES ASSUME NEW i \in 1..Len(areas), NEW j \in 1..Len(areas), t[i] = t[j] PROVE i = j
    BY <1>2 DEF SolosApart
  <2>1. areas[i] = areas[j]
    BY <1>1, <1>2, PathForms
  <2> QED
    BY <1>1, <2>1 DEF IsInjective
<1>6. Range(t) = {<<areas[i]>> : i \in DOMAIN areas}
  BY <1>1, <1>2 DEF Range
<1> QED
  BY <1>4, <1>5, <1>6 DEF t, Strips

Layouts == {l \in Seq(AllAreas) : IsInjective(l)}

LEMMA FilterLayout ==
    ASSUME NEW l \in Layouts, NEW S
    PROVE  AllBut(l, S) \in Layouts /\ Range(AllBut(l, S)) = Range(l) \ S
<1> DEFINE I == {i \in DOMAIN l : l[i] \notin S}
<1>1. AllBut(l, S) = PickAt(l, I)
  BY DEF AllBut
<1>2. l \in Seq(AllAreas) /\ IsInjective(l)
  BY DEF Layouts
<1>3. /\ PickAt(l, I) \in Seq(AllAreas) /\ IsInjective(PickAt(l, I))
      /\ Range(PickAt(l, I)) = {l[i] : i \in {j \in DOMAIN l : j \in I}}
  BY <1>2, PickAtRange
<1>4. {l[i] : i \in {j \in DOMAIN l : j \in I}} = Range(l) \ S
  BY DEF Range
<1> QED
  BY ONLY <1>1, <1>3, <1>4 DEF Layouts

(* Every open area gets a tab, unless one shows it. *)
LEMMA ReconcileStrip ==
    ASSUME NEW list \in Strips, NEW areas \in Layouts
    PROVE  ReconcileAreaTabs(list, areas) \in Strips
<1> DEFINE hosted == AllAreas \cap UNION {Range(path) : path \in {q \in Range(list) : IsJoined(q)}}
           stays(i) == \/ IsJoined(list[i]) \/ list[i][1] \notin AllAreas
                       \/ list[i][1] \in Range(areas) \ hosted /\ list[i] \notin Before(list, i)
           I == {i \in DOMAIN list : stays(i)}
           next == PickAt(list, I)
           missing == AllBut(areas, ShownIn(next))
           new == [i \in DOMAIN missing |-> <<missing[i]>>]
<1>1. ReconcileAreaTabs(list, areas) = next \o new
  BY DEF ReconcileAreaTabs
<1> HIDE DEF I
<1>2. next \in Strips
  BY PickStrip
<1>3. missing \in Layouts /\ Range(missing) = Range(areas) \ ShownIn(next)
  BY FilterLayout
<1> HIDE DEF next, missing
<1>4. missing \in Seq(Pages) /\ IsInjective(missing) /\ \A i \in DOMAIN missing : missing[i] \in Pages
  <2>1. missing \in Seq(AllAreas) /\ AllAreas \subseteq Pages
    BY <1>3, NamedPages DEF Layouts
  <2> QED
    BY <1>3, <2>1 DEF Layouts
<1>5. new \in Strips /\ Range(new) = {<<missing[i]>> : i \in DOMAIN missing}
  BY <1>4, TabsOfPages
<1> HIDE DEF new
<1>6. ASSUME NEW e \in Range(next), e \in Range(new) PROVE FALSE
  <2>1. PICK i \in DOMAIN missing : e = <<missing[i]>>
    BY <1>5, <1>6
  <2>2. missing[i] \in Range(e)
    BY <1>4, <2>1, PathForms
  <2>3. missing[i] \in ShownIn(next)
    BY <1>6, <2>2 DEF ShownIn
  <2>4. missing[i] \in Range(missing)
    BY <2>1 DEF Range
  <2> QED
    BY <1>3, <2>3, <2>4
<1> QED
  BY <1>1, <1>2, <1>5, <1>6, ConcatStrip

(* Where a tab stood there is a place for it among the others. *)
LEMMA PlaceAmongOthers ==
    ASSUME NEW list \in Strips, NEW i \in 1..Len(list), ~IsJoined(list[i])
    PROVE  i \in 1..(Len(AllBut(list, {list[i]})) + 1)
<1> DEFINE I == {j \in DOMAIN list : list[j] \notin {list[i]}}
           t == PickAt(list, I)
           d == Len(t)
           n == Len(list)
<1>1. AllBut(list, {list[i]}) = t
  BY DEF AllBut
<1>2. list \in Seq(Paths) /\ SolosApart(list) /\ n \in Nat /\ DOMAIN list = 1..n /\ i \in Nat /\ i >= 1 /\ i <= n
  BY DEF Strips
<1>3. \A j \in 1..(i - 1) : j \in I /\ j \in 1..n
  <2>1. \A j \in 1..(i - 1) : j \in 1..n /\ j # i
    BY <1>2
  <2> QED
    BY <1>2, <2>1 DEF SolosApart
<1> HIDE DEF I
<1>4. t \in Seq(Paths) /\ d \in Nat
  BY <1>2, PickAtRange
<1>5. PICK m : Enumerates(m, t, list, I, n)
  BY <1>2, PickAtEnumerates
<1> HIDE DEF t, d, n
<1>6. m \in Seq(1..n) /\ Len(m) = d /\ DOMAIN m = 1..d
  <2>1. m \in [1..d -> 1..n]
    BY <1>5 DEF Enumerates, d
  <2>2. m = [k \in 1..d |-> m[k]] /\ \A k \in 1..d : m[k] \in 1..n
    BY ONLY <2>1
  <2>3. d \in Nat
    BY <1>4
  <2> QED
    BY ONLY <2>1, <2>2, <2>3
<1>7. 1..(i - 1) \subseteq Range(m)
  <2>1. \A j \in 1..(i - 1) : \E k \in 1..d : m[k] = j
    BY <1>3, <1>5 DEF Enumerates, d
  <2> QED
    BY <1>6, <2>1 DEF Range
<1>8. IsFiniteSet(Range(m)) /\ Cardinality(Range(m)) \in Nat /\ Cardinality(Range(m)) <= d
  BY <1>6, RangeCardinality
<1>9. IsFiniteSet(1..(i - 1)) /\ Cardinality(1..(i - 1)) = i - 1
  <2>1. 1 \in Int /\ i - 1 \in Int /\ (IF 1 > i - 1 THEN 0 ELSE (i - 1) - 1 + 1) = i - 1
    BY <1>2
  <2> QED
    BY <2>1, FS_Interval
<1>10. Cardinality(1..(i - 1)) <= Cardinality(Range(m))
  BY <1>7, <1>8, FS_Subset
<1>11. i \in 1..(d + 1)
  BY <1>2, <1>4, <1>8, <1>9, <1>10
<1> QED
  BY <1>1, <1>11 DEF d

(* The duty tab is there while a shift is on, and only then. *)
LEMMA DutyStrip ==
    ASSUME NEW list \in Strips, NEW onDuty \in BOOLEAN
    PROVE  DutyTabs(list, onDuty) \in Strips
<1> DEFINE others == AllBut(list, {<<Duty>>})
           i == PlaceOf(list, <<Duty>>)
<1>1. DutyTabs(list, onDuty) = IF ~onDuty THEN others ELSE
                               IF i = 0 THEN Append(others, <<Duty>>) ELSE InsertAt(others, i, <<Duty>>)
  BY DEF DutyTabs, PlaceOf
<1>2. others \in Strips /\ Range(others) = Range(list) \ {<<Duty>>}
  BY FilterStrip
<1>3. <<Duty>> \in Paths /\ ~IsJoined(<<Duty>>)
  BY NamedPages, PathForms
<1>4. i = 0 \/ (i \in 1..Len(list) /\ list[i] = <<Duty>>)
  BY FirstPlace
<1>5. ASSUME i # 0 PROVE i \in 1..(Len(others) + 1)
  BY <1>3, <1>4, <1>5, PlaceAmongOthers
<1> HIDE DEF others, i
<1>6. CASE i = 0 \/ ~onDuty
  BY <1>1, <1>2, <1>3, <1>6, AppendStrip
<1>7. CASE i # 0 /\ onDuty
  BY <1>1, <1>2, <1>3, <1>5, <1>7, InsertStrip
<1> QED
  BY <1>6, <1>7

(* Loading and syncing. *)
LEMMA LoadStrip ==
    ASSUME tabs \in Strips, NEW areas \in Layouts, NEW onDuty \in BOOLEAN
    PROVE  LoadWith(areas, onDuty) \in Strips
BY RecoverStrip, ReconcileStrip, DutyStrip DEF LoadWith

LEMMA SyncStrip ==
    ASSUME NEW list \in Strips, NEW key \in Paths
    PROVE  Sync(list, key) \in Strips
<1>1. AllBut(list, {<<Inner>>}) \in Strips
  BY FilterStrip
<1> QED
  BY <1>1, AppendStrip DEF Sync

LEMMA KeysArePaths ==
    ASSUME NEW path \in Paths
    PROVE  CurrentKey(path) \in Paths /\ TabDestination(path) \in Paths
BY NamedPages, PathForms DEF CurrentKey, TabDestination

(* The pages that Settings leads to count as Settings. *)
Group(p) == IF p = Inner THEN Settings ELSE p

LEMMA ReachableIs ==
    ASSUME NEW list
    PROVE  Reachable(list) = {Group(p) : p \in ShownIn(list)}
BY DEF Reachable, Group

LEMMA ReachableGrows ==
    ASSUME NEW s, NEW t, \A p \in ShownIn(s) : \E q \in ShownIn(t) : Group(p) = Group(q)
    PROVE  Reachable(s) \subseteq Reachable(t)
BY DEF Reachable, Group

LEMMA PaneOfPage ==
    ASSUME NEW p \in Pages
    PROVE  AsPane(p) \in Pages /\ Group(AsPane(p)) = Group(p)
<1>1. CASE p = Settings
  <2>1. AsPane(p) = <<Inner>>[1]
    BY <1>1 DEF AsPane, TabDestination
  <2> QED
    BY <1>1, <2>1, NamedPages, PathForms DEF Group
<1>2. CASE p # Settings
  <2>1. <<p>> # <<Settings>>
    BY <1>2, NamedPages, PathForms
  <2>2. AsPane(p) = <<p>>[1]
    BY <2>1 DEF AsPane, TabDestination
  <2> QED
    BY <2>2, PathForms
<1> QED
  BY <1>1, <1>2

(* What the strip shows is the pages of its tabs. *)
LEMMA ShownAre ==
    ASSUME NEW s \in Strips
    PROVE  /\ ShownIn(s) \subseteq Pages
           /\ \A path \in Range(s) : path \in Paths /\ Range(path) \subseteq ShownIn(s)
           /\ \A p \in ShownIn(s) : \E path \in Range(s) : p \in Range(path)
           /\ \A path \in Paths : Range(path) \subseteq Pages
<1>1. \A path \in Range(s) : path \in Paths
  BY DEF Strips, Range
<1>2. ASSUME NEW path \in Paths PROVE Range(path) \subseteq Pages
  <2>1. CASE IsJoined(path)
    <3>1. PICK p \in Pages, q \in Pages : path = <<p, q>>
      BY <1>2, <2>1, PathForms
    <3> QED
      BY <3>1, PathForms
  <2>2. CASE ~IsJoined(path)
    <3>1. PICK p \in Pages : path = <<p>>
      BY <1>2, <2>2, PathForms
    <3> QED
      BY <3>1, PathForms
  <2> QED
    BY <2>1, <2>2
<1>3. \A path \in Range(s) : Range(path) \subseteq ShownIn(s)
  BY DEF ShownIn
<1>4. \A p \in ShownIn(s) : \E path \in Range(s) : p \in Range(path)
  BY DEF ShownIn
<1> QED
  BY <1>1, <1>2, <1>3, <1>4

(* A page that a selector means is one. *)
LEMMA ResolvesToPages ==
    ASSUME NEW list \in Strips, NEW key \in Paths, NEW selector
    PROVE  Resolve(list, key, selector) \subseteq Pages
<1> DEFINE solos == {path[1] : path \in {q \in Range(list) : ~IsJoined(q)}}
           found == {p \in solos : Matches(p, selector)}
           hosted == {p \in ShownIn(list) \ solos : Matches(p, selector)}
<1>1. solos \subseteq Pages
  BY ShownAre, PathForms
<1>2. key[1] \in Pages
  BY PathForms
<1>3. Bare \subseteq Pages
  BY NamedPages DEF Bare
<1>4. Resolve(list, key, selector) =
        IF selector = JoinCurrent THEN (IF IsJoined(key) THEN {} ELSE {key[1]})
        ELSE IF selector \in solos THEN {selector}
        ELSE IF found # {} THEN (IF Cardinality(found) = 1 THEN found ELSE {})
        ELSE IF hosted = {} THEN {selector} \cap Bare ELSE {}
  BY DEF Resolve
<1>5. found \subseteq solos
  OBVIOUS
<1> HIDE DEF solos, found, hosted
<1> QED
  BY <1>1, <1>2, <1>3, <1>4, <1>5

(* A plan that can be applied, and one that takes no page out of the strip. *)
GoodPlans == {plan \in Plan : SolosApart(plan.tabs) /\ (plan.ok => plan.path \in Paths)}
Keeps(plan, list) == plan.ok => Reachable(list) \subseteq Reachable(plan.tabs)

LEMMA PlanFits ==
    ASSUME NEW ok \in BOOLEAN, NEW s \in Strips, NEW path \in Paths, NEW changed \in BOOLEAN
    PROVE  [ok |-> ok, tabs |-> s, path |-> path, changed |-> changed] \in GoodPlans
BY DEF GoodPlans, Plan, Strips

LEMMA GoodPlanHas ==
    ASSUME NEW plan \in GoodPlans
    PROVE  plan \in Plan /\ plan.ok \in BOOLEAN /\ plan.tabs \in Strips /\ (plan.ok => plan.path \in Paths)
BY DEF GoodPlans, Plan, Strips

LEMMA NoPlanFits == NoPlan \in GoodPlans /\ NoPlan.ok = FALSE
<1>1. /\ <<>> \in Seq(Paths) /\ SolosApart(<<>>)
  <2>1. DOMAIN <<>> = {}
    OBVIOUS
  <2> QED
    BY <2>1 DEF SolosApart
<1> QED
  BY <1>1 DEF NoPlan, GoodPlans, Plan

(* A list that shows the pages of all tabs that are gone keeps every page. *)
LEMMA OthersStay ==
    ASSUME NEW s \in Strips, NEW t \in Strips,
           \A path \in Range(s) : path \notin Range(t) =>
               \A p \in Range(path) : \E q \in ShownIn(t) : Group(p) = Group(q)
    PROVE  Reachable(s) \subseteq Reachable(t)
<1> SUFFICES ASSUME NEW p \in ShownIn(s) PROVE \E q \in ShownIn(t) : Group(p) = Group(q)
  BY ReachableGrows
<1>1. PICK path \in Range(s) : p \in Range(path)
  BY ShownAre
<1>2. CASE path \notin Range(t)
  BY <1>1, <1>2
<1>3. CASE path \in Range(t)
  BY <1>1, <1>3, ShownAre
<1> QED
  BY <1>2, <1>3

LEMMA JoinPlanFits ==
    ASSUME NEW list \in Strips, NEW key \in Paths, NEW a, NEW b
    PROVE  JoinPlan(list, key, a, b) \in GoodPlans /\ Keeps(JoinPlan(list, key, a, b), list)
<1> DEFINE plan == JoinPlan(list, key, a, b)
           may == \E p \in Resolve(list, key, a), q \in Resolve(list, key, b) :
                      p # q /\ ~{p, q} \subseteq AllAreas /\ Duty \notin {p, q}
           p == CHOOSE r \in Resolve(list, key, a) : TRUE
           q == CHOOSE r \in Resolve(list, key, b) : TRUE
           joined == <<AsPane(p), AsPane(q)>>
           kept == WithoutSources(list, p, q)
           new == [ok |-> TRUE, path |-> joined, changed |-> TRUE, tabs |-> Append(kept, joined)]
           same == [ok |-> TRUE, tabs |-> list, path |-> key, changed |-> FALSE]
<1>1. plan = IF AlreadyJoined(list, key, a, b) THEN same ELSE IF may THEN new ELSE NoPlan
  BY DEF JoinPlan
<1>2. same \in GoodPlans /\ Keeps(same, list)
  BY PlanFits DEF Keeps
<1>3. NoPlan \in GoodPlans /\ Keeps(NoPlan, list)
  BY NoPlanFits DEF Keeps
<1>4. ASSUME may PROVE new \in GoodPlans /\ Keeps(new, list)
  <2>1. p \in Pages /\ q \in Pages
    <3>1. p \in Resolve(list, key, a) /\ q \in Resolve(list, key, b)
      BY <1>4
    <3> HIDE DEF p, q
    <3> QED
      BY <3>1, ResolvesToPages
  <2> HIDE DEF p, q
  <2>2. /\ AsPane(p) \in Pages /\ Group(AsPane(p)) = Group(p)
        /\ AsPane(q) \in Pages /\ Group(AsPane(q)) = Group(q)
    BY <2>1, PaneOfPage
  <2>3. joined \in Paths /\ IsJoined(joined) /\ Range(joined) = {AsPane(p), AsPane(q)}
    BY <2>2, PathForms
  <2>4. kept \in Strips /\ Range(kept) = Range(list) \ {<<p>>, <<q>>}
    BY FilterStrip DEF WithoutSources
  <2> HIDE DEF joined, kept
  <2> DEFINE t == Append(kept, joined)
  <2>5. t \in Strips /\ Range(t) = Range(kept) \cup {joined}
    BY <2>3, <2>4, AppendStrip
  <2> HIDE DEF t
  <2>6. AsPane(p) \in ShownIn(t) /\ AsPane(q) \in ShownIn(t)
    BY <2>3, <2>5, ShownAre
  <2>7. \A path \in {<<p>>, <<q>>} : \A r \in Range(path) : r = p \/ r = q
    BY <2>1, PathForms
  <2>8. Reachable(list) \subseteq Reachable(t)
    <3>1. \A path \in Range(list) : path \notin Range(t) => path \in {<<p>>, <<q>>}
      BY <2>4, <2>5
    <3>2. \A path \in {<<p>>, <<q>>} : \A r \in Range(path) : \E r2 \in ShownIn(t) : Group(r) = Group(r2)
      BY <2>2, <2>6, <2>7
    <3> QED
      BY ONLY <2>5, <3>1, <3>2, OthersStay, list \in Strips
  <2>9. new = [ok |-> TRUE, tabs |-> t, path |-> joined, changed |-> TRUE]
    BY DEF t
  <2>10. [ok |-> TRUE, tabs |-> t, path |-> joined, changed |-> TRUE] \in GoodPlans
    BY <2>3, <2>5, PlanFits
  <2> QED
    BY <2>8, <2>9, <2>10 DEF Keeps
<1> HIDE DEF may, new, same, plan
<1> QED
  BY <1>1, <1>2, <1>3, <1>4 DEF plan

(* The panes of a joined tab that get a tab of their own. *)
LEMMA PushStrip ==
    ASSUME NEW s \in Strips, NEW p \in Pages
    PROVE  PushMissing(s, p) \in Strips /\ Range(PushMissing(s, p)) = Range(s) \cup {<<p>>}
<1>1. <<p>> \in Paths
  BY PathForms
<1>2. CASE <<p>> \in Range(s)
  BY <1>2 DEF PushMissing
<1>3. CASE <<p>> \notin Range(s)
  BY <1>1, <1>3, AppendStrip DEF PushMissing
<1> QED
  BY <1>2, <1>3

LEMMA PushPanesStrip ==
    ASSUME NEW s \in Strips, NEW kept \in Paths
    PROVE  /\ PushPanes(s, kept) \in Strips /\ Range(s) \subseteq Range(PushPanes(s, kept))
           /\ \A p \in Range(kept) : <<p>> \in Range(PushPanes(s, kept))
<1> DEFINE first == PushMissing(s, kept[1])
<1>1. PushPanes(s, kept) = IF Len(kept) = 2 THEN PushMissing(first, kept[2]) ELSE first
  BY DEF PushPanes
<1>2. kept[1] \in Pages
  BY PathForms
<1>3. first \in Strips /\ Range(first) = Range(s) \cup {<<kept[1]>>}
  BY <1>2, PushStrip
<1> HIDE DEF first
<1>4. CASE IsJoined(kept)
  <2>1. kept[2] \in Pages /\ Range(kept) = {kept[1], kept[2]}
    <3>1. PICK p \in Pages, q \in Pages : kept = <<p, q>>
      BY <1>4, PathForms
    <3> QED
      BY <3>1, PathForms
  <2>2. PushPanes(s, kept) = PushMissing(first, kept[2])
    BY <1>1, <1>4 DEF IsJoined
  <2>3. PushPanes(s, kept) \in Strips /\ Range(PushPanes(s, kept)) = Range(first) \cup {<<kept[2]>>}
    BY <1>3, <2>1, <2>2, PushStrip
  <2> QED
    BY ONLY <1>3, <2>1, <2>3
<1>5. CASE ~IsJoined(kept)
  <2>1. Range(kept) = {kept[1]}
    <3>1. PICK p \in Pages : kept = <<p>>
      BY <1>5, PathForms
    <3> QED
      BY <3>1, PathForms
  <2>2. PushPanes(s, kept) = first
    BY <1>1, <1>5 DEF IsJoined
  <2> QED
    BY ONLY <1>3, <2>1, <2>2
<1> QED
  BY <1>4, <1>5

(* A list of pages: those of a tab that are areas, then all of them. *)
LEMMA FirstOfPanes ==
    ASSUME NEW kept \in Paths
    PROVE  Head(Only(kept, AllAreas) \o kept) \in Pages
<1>1. kept \in Seq(Pages) /\ kept # <<>>
  <2>1. CASE IsJoined(kept)
    <3>1. PICK p \in Pages, q \in Pages : kept = <<p, q>>
      BY <2>1, PathForms
    <3> QED
      BY <3>1
  <2>2. CASE ~IsJoined(kept)
    <3>1. PICK p \in Pages : kept = <<p>>
      BY <2>2, PathForms
    <3> QED
      BY <3>1
  <2> QED
    BY <2>1, <2>2
<1> DEFINE I == {i \in DOMAIN kept : kept[i] \in AllAreas}
           homes == Only(kept, AllAreas)
<1>2. homes = PickAt(kept, I)
  BY DEF Only
<1> HIDE DEF I, homes
<1>3. homes \in Seq(Pages)
  BY <1>1, <1>2, PickAtRange
<1>4. homes \o kept \in Seq(Pages) /\ homes \o kept # <<>>
  BY ONLY <1>1, <1>3
<1> QED
  BY ONLY <1>4 DEF homes

LEMMA SeparatePlanFits ==
    ASSUME NEW list \in Strips, NEW path \in Paths, NEW kept \in Paths
    PROVE  /\ SeparatePlan(list, path, kept) \in GoodPlans
           /\ kept = path => Keeps(SeparatePlan(list, path, kept), list)
<1> DEFINE s == AllBut(list, {path})
           t == PushPanes(s, kept)
           top == Head(Only(kept, AllAreas) \o kept)
           plan == SeparatePlan(list, path, kept)
<1>1. CASE ~IsJoined(path)
  BY <1>1, NoPlanFits DEF SeparatePlan, Keeps
<1>2. CASE IsJoined(path)
  <2>1. plan = [ok |-> TRUE, tabs |-> t, path |-> <<top>>, changed |-> TRUE]
    BY <1>2 DEF SeparatePlan
  <2>2. s \in Strips /\ Range(s) = Range(list) \ {path}
    BY FilterStrip
  <2> HIDE DEF s
  <2>3. /\ t \in Strips /\ Range(s) \subseteq Range(t)
        /\ \A p \in Range(kept) : <<p>> \in Range(t)
    BY <2>2, PushPanesStrip
  <2> HIDE DEF t
  <2>4. <<top>> \in Paths
    BY FirstOfPanes, PathForms
  <2> HIDE DEF top
  <2>5. [ok |-> TRUE, tabs |-> t, path |-> <<top>>, changed |-> TRUE] \in GoodPlans
    BY <2>3, <2>4, PlanFits
  <2>6. ASSUME kept = path PROVE Reachable(list) \subseteq Reachable(t)
    <3>1. \A q \in Range(list) : q \notin Range(t) => q = path
      BY <2>2, <2>3
    <3>2. ASSUME NEW p \in Range(path) PROVE p \in ShownIn(t)
      <4>1. p \in Pages /\ <<p>> \in Range(t)
        BY <2>3, <2>6, <3>2, ShownAre
      <4>2. p \in Range(<<p>>)
        BY <4>1, PathForms
      <4> QED
        BY <2>3, <4>1, <4>2, ShownAre
    <3>3. \A p \in Range(path) : \E r \in ShownIn(t) : Group(p) = Group(r)
      BY <3>2
    <3> QED
      BY ONLY <2>3, <3>1, <3>3, OthersStay, list \in Strips
  <2> HIDE DEF plan
  <2> QED
    BY <2>1, <2>5, <2>6 DEF Keeps, plan
<1> QED
  BY <1>1, <1>2

LEMMA SwapPlanFits ==
    ASSUME NEW list \in Strips, NEW path \in Paths
    PROVE  SwapPlan(list, path) \in GoodPlans /\ Keeps(SwapPlan(list, path), list)
<1> DEFINE s == AllBut(list, {path})
           back == Reverse(path)
           t == Append(s, back)
           plan == SwapPlan(list, path)
<1>1. CASE ~IsJoined(path)
  BY <1>1, NoPlanFits DEF SwapPlan, Keeps
<1>2. CASE IsJoined(path)
  <2>1. plan = [ok |-> TRUE, tabs |-> t, path |-> back, changed |-> TRUE]
    BY <1>2 DEF SwapPlan
  <2>2. s \in Strips /\ Range(s) = Range(list) \ {path}
    BY FilterStrip
  <2>3. back \in Paths /\ IsJoined(back) /\ Range(back) = Range(path)
    <3>1. PICK p \in Pages, q \in Pages : path = <<p, q>>
      BY <1>2, PathForms
    <3>2. back = <<q, p>>
      <4>1. Len(path) = 2 /\ path[1] = p /\ path[2] = q
        BY <3>1
      <4>2. back = [i \in 1..2 |-> path[(2 - i) + 1]]
        BY <4>1 DEF Reverse
      <4>3. back = [i \in 1..2 |-> IF i = 1 THEN q ELSE p]
        <5>1. \A i \in 1..2 : path[(2 - i) + 1] = IF i = 1 THEN q ELSE p
          BY <4>1
        <5> QED
          BY <4>2, <5>1
      <4> HIDE DEF back
      <4> QED
        BY ONLY <4>3
    <3> HIDE DEF back
    <3>3. /\ <<p, q>> \in Paths /\ Range(<<p, q>>) = {p, q}
          /\ <<q, p>> \in Paths /\ IsJoined(<<q, p>>) /\ Range(<<q, p>>) = {q, p}
      BY PathForms
    <3> QED
      BY <3>1, <3>2, <3>3
  <2> HIDE DEF s, back
  <2>4. t \in Strips /\ Range(t) = Range(s) \cup {back}
    BY <2>2, <2>3, AppendStrip
  <2> HIDE DEF t
  <2>5. [ok |-> TRUE, tabs |-> t, path |-> back, changed |-> TRUE] \in GoodPlans
    BY <2>3, <2>4, PlanFits
  <2>6. Reachable(list) \subseteq Reachable(t)
    <3>1. \A q \in Range(list) : q \notin Range(t) => q = path
      BY <2>2, <2>4
    <3>2. Range(path) \subseteq ShownIn(t)
      BY <2>3, <2>4, ShownAre
    <3>3. \A p \in Range(path) : \E r \in ShownIn(t) : Group(p) = Group(r)
      BY <3>2
    <3> QED
      BY ONLY <2>4, <3>1, <3>3, OthersStay, list \in Strips
  <2> HIDE DEF plan
  <2> QED
    BY <2>1, <2>5, <2>6 DEF Keeps, plan
<1> QED
  BY <1>1, <1>2

(* Closing a tab, and what is shown then. *)
LEMMA CloseFits ==
    ASSUME NEW list \in Strips, NEW path \in Range(list)
    PROVE  LET c == CloseTabIn(list, path)
           IN  c \in [path : Paths, tabs : Seq(Paths), next : Paths] /\ c.tabs \in Strips /\ c.next \in Paths
<1> DEFINE i == PlaceOf(list, path)
           rest == RemoveAt(list, i)
           next == IF rest = <<>> THEN <<HomePath>> ELSE rest[IF i <= Len(rest) THEN i ELSE i - 1]
           c == CloseTabIn(list, path)
<1>1. c = [path |-> path, tabs |-> rest, next |-> next]
  BY DEF CloseTabIn, PlaceOf
<1>2. i \in 1..Len(list) /\ path \in Paths /\ Len(list) \in Nat
  BY FirstPlace, ShownAre DEF Strips
<1> HIDE DEF i
<1>3. rest \in Strips /\ Len(rest) = Len(list) - 1
  BY <1>2, RemoveStrip
<1> HIDE DEF rest
<1>4. next \in Paths
  <2>1. <<HomePath>> \in Paths
    BY NamedPages, PathForms
  <2>2. ASSUME rest # <<>> PROVE (IF i <= Len(rest) THEN i ELSE i - 1) \in 1..Len(rest)
    <3>1. rest \in Seq(Paths)
      BY <1>3 DEF Strips
    <3>2. Len(rest) \in Nat /\ Len(rest) # 0
      BY ONLY <2>2, <3>1
    <3> QED
      BY <1>2, <1>3, <3>2
  <2>3. \A k \in 1..Len(rest) : rest[k] \in Paths
    BY <1>3 DEF Strips
  <2> DEFINE k == IF i <= Len(rest) THEN i ELSE i - 1
  <2> HIDE DEF k
  <2> QED
    BY <2>1, <2>2, <2>3 DEF k
<1> HIDE DEF next, c
<1>5. rest \in Seq(Paths)
  BY <1>3 DEF Strips
<1> QED
  BY <1>1, <1>2, <1>3, <1>4, <1>5 DEF c

(* The list is a strip, and no area is open twice. *)
StripOK == tabs \in Strips /\ layout \in Layouts /\ duty \in BOOLEAN

(* A close that waits writes a strip, and knows what comes next. *)
Closes == {c \in [path : Paths, tabs : Seq(Paths), next : Paths] : c.tabs \in Strips}
WindowOK == at \in Paths /\ leaving \in Paths \cup {Nowhere} /\ closing \in Closes \cup {NoClose}

(* The plan of a request keeps the pages of the list it was made on, and an *)
(* accepted one was reported as done before the page hears of it. *)
Requests == {<<>>, <<"separate">>} \cup {<<"join", p>> : p \in Pages}
RequestRecords == [at : {"idle", "sent", "result", "reply"}, args : Requests, before : Strips,
                   plan : GoodPlans, accepted : BOOLEAN]
Promised ==
    request.at = "reply" => ~waiting /\ (request.accepted /\ request.plan.ok => told = "done")
RequestOK ==
    /\ request \in RequestRecords /\ waiting \in BOOLEAN /\ told \in {"nothing", "done", "error"}
    /\ ops \in 0..MaxTabOps
    /\ Keeps(request.plan, request.before)
    /\ Promised

TabsInv == StripOK /\ WindowOK /\ RequestOK

LEMMA EmptyStrip == <<>> \in Strips
<1>1. DOMAIN <<>> = {}
  OBVIOUS
<1>2. <<>> \in Seq(Paths)
  OBVIOUS
<1> QED
  BY <1>1, <1>2 DEF Strips, SolosApart

LEMMA IdleFits == Idle \in RequestRecords /\ Keeps(Idle.plan, Idle.before) /\ Idle.at = "idle"
<1>1. Idle.at = "idle" /\ Idle.plan = NoPlan /\ Idle.before = <<>>
  BY DEF Idle
<1>2. Idle \in RequestRecords
  BY EmptyStrip, NoPlanFits DEF Idle, RequestRecords, Requests
<1> QED
  BY <1>1, <1>2, NoPlanFits DEF Keeps

LEMMA TabsInvInit == TabsInit => TabsInv
<1> SUFFICES ASSUME TabsInit PROVE TabsInv
  OBVIOUS
<1>1. tabs \in Strips
  <2>1. CASE tabs = <<>>
    BY <2>1, EmptyStrip
  <2>2. CASE tabs = << <<HomePath>>, <<Settings>>, <<Voice>> >>
    <3>1. tabs \in Seq(Paths) /\ DOMAIN tabs = 1..3
          /\ tabs[1] = <<HomePath>> /\ tabs[2] = <<Settings>> /\ tabs[3] = <<Voice>>
      <4>1. <<HomePath>> \in Paths /\ <<Settings>> \in Paths /\ <<Voice>> \in Paths
        BY NamedPages, PathForms
      <4> QED
        BY <2>2, <4>1
    <3>2. <<HomePath>> # <<Settings>> /\ <<HomePath>> # <<Voice>> /\ <<Settings>> # <<Voice>>
      BY DEF HomePath, Settings, Voice
    <3> QED
      BY <3>1, <3>2 DEF Strips, SolosApart
  <2>3. CASE tabs = << <<Browse>>, <<Voice, Browse>> >>
    <3>1. tabs \in Seq(Paths) /\ DOMAIN tabs = 1..2
          /\ tabs[1] = <<Browse>> /\ tabs[2] = <<Voice, Browse>>
      <4>1. <<Browse>> \in Paths /\ <<Voice, Browse>> \in Paths
        BY NamedPages, PathForms
      <4> QED
        BY <2>3, <4>1
    <3>2. ~IsJoined(<<Browse>>) /\ IsJoined(<<Voice, Browse>>)
      BY NamedPages, PathForms
    <3>3. tabs[1] # tabs[2]
      BY <3>1, <3>2
    <3> QED
      BY <3>1, <3>2, <3>3 DEF Strips, SolosApart
  <2> QED
    BY <2>1, <2>2, <2>3 DEF TabsInit
<1>2. layout \in Layouts
  <2>1. layout \in Seq(AllAreas) /\ DOMAIN layout = 1..1
    BY NamedPages DEF TabsInit
  <2> QED
    BY <2>1 DEF Layouts, IsInjective
<1>3. WindowOK
  BY NamedPages, PathForms DEF TabsInit, WindowOK
<1>4. RequestOK
  <2>1. request = Idle /\ waiting = FALSE /\ told = "nothing" /\ ops = 0
    BY DEF TabsInit
  <2>2. Promised
    BY <2>1, IdleFits DEF Promised
  <2>3. 0 \in 0..MaxTabOps
    BY TabsAssumption
  <2> QED
    BY <2>1, <2>2, <2>3, IdleFits DEF RequestOK
<1> QED
  BY <1>1, <1>2, <1>3, <1>4 DEF TabsInv, StripOK, TabsInit

(* What a step that leaves the request, or that ends it with its page, does. *)
LEMMA LoadFits == ASSUME StripOK PROVE Load \in Strips
  BY LoadStrip DEF StripOK, Load

LEMMA OneMore ==
    ASSUME ops \in 0..MaxTabOps, Operates
    PROVE  ops' \in 0..MaxTabOps
BY TabsAssumption DEF Operates

LEMMA RequestStays ==
    ASSUME RequestOK, UNCHANGED requestVars, Operates \/ ops' = ops
    PROVE  RequestOK'
<1>1. request' = request /\ waiting' = waiting /\ told' = told
  BY DEF requestVars
<1>2. ops' \in 0..MaxTabOps
  BY OneMore DEF RequestOK
<1>3. Keeps(request.plan, request.before)' /\ Promised'
  BY <1>1 DEF RequestOK, Keeps, Promised, Reachable, ShownIn
<1> QED
  BY <1>1, <1>2, <1>3 DEF RequestOK

LEMMA RequestEnds ==
    ASSUME RequestOK, Disconnect, Operates \/ ops' = ops
    PROVE  RequestOK'
<1>1. request' = Idle /\ waiting' = FALSE /\ told' \in {"nothing", "done", "error"}
  BY DEF Disconnect, RequestOK
<1>2. ops' \in 0..MaxTabOps
  BY OneMore DEF RequestOK
<1>3. request'.at = "idle" /\ Keeps(request'.plan, request'.before) /\ request' \in RequestRecords
  BY <1>1, IdleFits
<1>4. Keeps(request.plan, request.before)' /\ Promised'
  BY <1>3 DEF Keeps, Promised, Reachable, ShownIn
<1> QED
  BY <1>1, <1>2, <1>3, <1>4 DEF RequestOK

(* The steps of the strip. *)
LEMMA VisitKeeps ==
    ASSUME TabsInv, NEW path \in Range(Load) \cup Docked, Visit(path)
    PROVE  TabsInv'
<1>1. StripOK /\ WindowOK /\ RequestOK /\ Load \in Strips
  BY LoadFits DEF TabsInv
<1>2. path \in Paths
  <2>1. Docked \subseteq Paths
    <3>1. Range(layout) \subseteq Pages
      <4>1. layout \in Seq(AllAreas)
        BY <1>1 DEF StripOK, Layouts
      <4> QED
        BY <4>1, NamedPages DEF Range
    <3> QED
      BY <3>1, NamedPages, PathForms DEF Docked
  <2> QED
    BY <1>1, <2>1, ShownAre
<1>3. at' \in Paths
  BY <1>2, KeysArePaths DEF Visit
<1>4. tabs' \in Strips
  BY <1>1, <1>3, SyncStrip DEF Visit
<1>5. StripOK' /\ WindowOK'
  BY <1>1, <1>3, <1>4 DEF Visit, StripOK, WindowOK
<1>6. RequestOK'
  BY <1>1, RequestEnds DEF Visit
<1> QED
  BY <1>5, <1>6 DEF TabsInv

LEMMA ArriveKeeps == ASSUME TabsInv, Arrive PROVE TabsInv'
<1>1. StripOK /\ WindowOK /\ RequestOK /\ Load \in Strips
  BY LoadFits DEF TabsInv
<1>2. at' \in Paths
  BY <1>1, KeysArePaths DEF Arrive, WindowOK
<1>3. tabs' \in Strips
  BY <1>1, <1>2, SyncStrip DEF Arrive
<1>4. StripOK' /\ WindowOK'
  BY <1>1, <1>2, <1>3 DEF Arrive, StripOK, WindowOK
<1>5. RequestOK'
  BY <1>1, RequestEnds DEF Arrive
<1> QED
  BY <1>4, <1>5 DEF TabsInv

(* A step that leaves the request, and writes a strip. *)
LEMMA StripWritten ==
    ASSUME TabsInv, UNCHANGED requestVars, Operates \/ ops' = ops,
           tabs' \in Strips, layout' \in Layouts, duty' \in BOOLEAN, WindowOK'
    PROVE  TabsInv'
BY RequestStays DEF TabsInv, StripOK

LEMMA OnDutyKeeps == ASSUME TabsInv, OnDuty PROVE TabsInv'
<1>1. StripOK /\ WindowOK
  BY DEF TabsInv
<1>2. duty' \in BOOLEAN
  BY DEF OnDuty
<1>3. LoadWith(layout, duty') \in Strips
  BY <1>1, <1>2, LoadStrip DEF StripOK
<1>4. tabs' \in Strips
  BY <1>1, <1>3, SyncStrip DEF OnDuty, WindowOK
<1>5. WindowOK'
  BY <1>1 DEF OnDuty, WindowOK
<1>6. layout' \in Layouts
  BY <1>1 DEF OnDuty, StripOK
<1> QED
  BY <1>2, <1>4, <1>5, <1>6, StripWritten DEF OnDuty

LEMMA OnAreaStateKeeps ==
    ASSUME TabsInv, NEW a \in SecondAreas, OnAreaState(a)
    PROVE  TabsInv'
<1>1. StripOK /\ WindowOK
  BY DEF TabsInv
<1>2. layout' \in Layouts
  <2>1. CASE a \in Range(layout)
    BY <1>1, <2>1, FilterLayout DEF OnAreaState, StripOK
  <2>2. CASE a \notin Range(layout)
    <3>1. layout' = Append(layout, a) /\ a \in AllAreas
      BY <2>2 DEF OnAreaState, AllAreas
    <3>2. layout \in Seq(AllAreas) /\ IsInjective(layout)
      BY <1>1 DEF StripOK, Layouts
    <3>3. IsInjective(Append(layout, a))
      BY <2>2, <3>1, <3>2, AppendKeepsApart
    <3> QED
      BY <3>1, <3>2, <3>3 DEF Layouts
  <2> QED
    BY <2>1, <2>2
<1>3. tabs' \in Strips
  BY <1>1, <1>2, LoadStrip DEF OnAreaState, StripOK
<1>4. WindowOK' /\ duty' \in BOOLEAN
  BY <1>1 DEF OnAreaState, WindowOK, StripOK
<1> QED
  BY <1>2, <1>3, <1>4, StripWritten DEF OnAreaState

LEMMA OnOpenTerminalKeeps ==
    ASSUME TabsInv, NEW activate \in BOOLEAN, OnOpenTerminalRequest(activate)
    PROVE  TabsInv'
<1>1. StripOK /\ WindowOK /\ Load \in Strips
  BY LoadFits DEF TabsInv
<1>2. <<Console>> \in Paths
  BY NamedPages, PathForms
<1>3. AllBut(Load, {<<Console>>}) \in Strips /\ Range(AllBut(Load, {<<Console>>})) = Range(Load) \ {<<Console>>}
  BY <1>1, FilterStrip
<1>4. Append(AllBut(Load, {<<Console>>}), <<Console>>) \in Strips
  BY <1>2, <1>3, AppendStrip
<1>5. tabs' \in Strips
  BY <1>4 DEF OnOpenTerminalRequest
<1>6. WindowOK' /\ layout' \in Layouts /\ duty' \in BOOLEAN
  BY <1>1, <1>2 DEF OnOpenTerminalRequest, WindowOK, StripOK
<1> QED
  BY <1>5, <1>6, StripWritten DEF OnOpenTerminalRequest

LEMMA ReorderTabKeeps ==
    ASSUME TabsInv, NEW from \in Range(Load), NEW to \in Range(Load), ReorderTab(from, to)
    PROVE  TabsInv'
<1> DEFINE list == Load
           i == PlaceOf(list, from)
           j == PlaceOf(list, to)
           rest == RemoveAt(list, i)
<1>1. StripOK /\ WindowOK /\ list \in Strips
  BY LoadFits DEF TabsInv
<1>2. tabs' = InsertAt(rest, j, from)
  BY DEF ReorderTab, PlaceOf
<1> HIDE DEF list
<1>3. from \in Range(list) /\ to \in Range(list)
  BY DEF list
<1>4. i \in 1..Len(list) /\ list[i] = from /\ j \in 1..Len(list) /\ Len(list) \in Nat /\ from \in Paths
  BY <1>1, <1>3, FirstPlace, ShownAre DEF Strips
<1> HIDE DEF i, j
<1>5. rest \in Strips /\ Len(rest) = Len(list) - 1 /\ (~IsJoined(from) => from \notin Range(rest))
  BY <1>1, <1>4, RemoveStrip
<1> HIDE DEF rest
<1>6. j \in 1..(Len(rest) + 1)
  BY <1>4, <1>5
<1>7. tabs' \in Strips
  BY <1>2, <1>4, <1>5, <1>6, InsertStrip
<1>8. WindowOK' /\ layout' \in Layouts /\ duty' \in BOOLEAN
  BY <1>1 DEF ReorderTab, WindowOK, StripOK
<1> QED
  BY <1>7, <1>8, StripWritten DEF ReorderTab

LEMMA CloseTabKeeps ==
    ASSUME TabsInv, NEW path \in Closable, CloseTab(path)
    PROVE  TabsInv'
<1>1. StripOK /\ WindowOK /\ Load \in Strips
  BY LoadFits DEF TabsInv
<1>2. path \in Range(Load)
  BY DEF Closable
<1>3. /\ CloseTabIn(Load, path) \in [path : Paths, tabs : Seq(Paths), next : Paths]
      /\ CloseTabIn(Load, path).tabs \in Strips
  BY <1>1, <1>2, CloseFits
<1>4. tabs' \in Strips /\ closing' \in Closes \cup {NoClose}
  BY <1>1, <1>3 DEF CloseTab, StripOK, WindowOK, Closes
<1>5. WindowOK' /\ layout' \in Layouts /\ duty' \in BOOLEAN
  BY <1>1, <1>4 DEF CloseTab, WindowOK, StripOK
<1> QED
  BY <1>4, <1>5, StripWritten DEF CloseTab

LEMMA CloseAppTabKeeps ==
    ASSUME TabsInv, NEW path \in Closable, CloseAppTab(path)
    PROVE  TabsInv'
<1>1. StripOK /\ WindowOK /\ Load \in Strips
  BY LoadFits DEF TabsInv
<1>2. path \in Range(Load)
  BY DEF Closable
<1>3. CloseTabIn(Load, path).tabs \in Strips /\ CloseTabIn(Load, path).next \in Paths
  BY <1>1, <1>2, CloseFits
<1>4. tabs' \in Strips /\ leaving' \in Paths \cup {Nowhere}
  BY <1>1, <1>3, KeysArePaths DEF CloseAppTab, WindowOK
<1>5. WindowOK' /\ layout' \in Layouts /\ duty' \in BOOLEAN
  BY <1>1, <1>4 DEF CloseAppTab, WindowOK, StripOK
<1> QED
  BY <1>4, <1>5, StripWritten DEF CloseAppTab

LEMMA ConfirmCloseKeeps ==
    ASSUME TabsInv, NEW agreed \in BOOLEAN, ConfirmClose(agreed)
    PROVE  TabsInv'
<1>1. StripOK /\ WindowOK
  BY DEF TabsInv
<1>2. closing.tabs \in Strips /\ closing.next \in Paths
  BY <1>1 DEF ConfirmClose, WindowOK, Closes
<1>3. tabs' \in Strips /\ leaving' \in Paths \cup {Nowhere}
  BY <1>1, <1>2, KeysArePaths DEF ConfirmClose, WindowOK, StripOK
<1>4. WindowOK' /\ layout' \in Layouts /\ duty' \in BOOLEAN
  BY <1>1, <1>3 DEF ConfirmClose, WindowOK, StripOK
<1> QED
  BY <1>3, <1>4, StripWritten DEF ConfirmClose, requestVars

LEMMA ApplyLayoutKeeps ==
    ASSUME TabsInv, NEW plan \in GoodPlans, ApplyLayout(plan)
    PROVE  TabsInv'
<1>1. StripOK /\ WindowOK
  BY DEF TabsInv
<1>2. plan.tabs \in Strips /\ plan.path \in Paths
  BY GoodPlanHas DEF ApplyLayout
<1>3. tabs' \in Strips /\ leaving' \in Paths \cup {Nowhere}
  BY <1>2, KeysArePaths DEF ApplyLayout
<1>4. WindowOK' /\ layout' \in Layouts /\ duty' \in BOOLEAN
  BY <1>1, <1>3 DEF ApplyLayout, WindowOK, StripOK
<1> QED
  BY <1>3, <1>4, StripWritten DEF ApplyLayout

(* The steps of a request. *)
LEMMA RequestTabsKeeps ==
    ASSUME TabsInv, NEW args \in Requests, RequestTabs(args)
    PROVE  TabsInv'
<1>1. StripOK /\ WindowOK /\ RequestOK
  BY DEF TabsInv
<1>2. StripOK' /\ WindowOK'
  BY <1>1 DEF RequestTabs, StripOK, WindowOK
<1> DEFINE r == [Idle EXCEPT !.at = "sent", !.args = args]
<1>3. request' = r /\ waiting' = TRUE /\ told' = "nothing" /\ Operates
  BY DEF RequestTabs
<1>4. r \in RequestRecords /\ r.plan = NoPlan /\ r.at = "sent"
  BY IdleFits, NoPlanFits, EmptyStrip DEF Idle, RequestRecords
<1> HIDE DEF r
<1>5. ops' \in 0..MaxTabOps
  BY <1>1, <1>3, OneMore DEF RequestOK
<1>6. Keeps(request.plan, request.before)' /\ Promised'
  <2>1. request'.plan.ok = FALSE /\ request'.at # "reply"
    BY <1>3, <1>4, NoPlanFits
  <2> QED
    BY <2>1 DEF Keeps, Promised
<1>7. RequestOK'
  BY <1>3, <1>4, <1>5, <1>6 DEF RequestOK
<1> QED
  BY <1>2, <1>7 DEF TabsInv

LEMMA RequestPlanFits ==
    ASSUME Load \in Strips, at \in Paths, NEW args
    PROVE  RequestPlan(args) \in GoodPlans /\ Keeps(RequestPlan(args), Load)
<1>1. JoinPlan(Load, at, JoinCurrent, args[2]) \in GoodPlans /\ Keeps(JoinPlan(Load, at, JoinCurrent, args[2]), Load)
  BY JoinPlanFits
<1>2. SeparatePlan(Load, at, at) \in GoodPlans /\ Keeps(SeparatePlan(Load, at, at), Load)
  BY SeparatePlanFits
<1>3. NoPlan \in GoodPlans /\ Keeps(NoPlan, Load)
  BY NoPlanFits DEF Keeps
<1> QED
  BY <1>1, <1>2, <1>3 DEF RequestPlan

LEMMA OnTabRequestKeeps == ASSUME TabsInv, OnTabRequest PROVE TabsInv'
<1>1. StripOK /\ WindowOK /\ RequestOK /\ Load \in Strips
  BY LoadFits DEF TabsInv
<1> DEFINE list == Load
           plan == IF waiting THEN RequestPlan(request.args) ELSE NoPlan
           r == [request EXCEPT !.at = "result", !.plan = plan, !.before = list]
<1>2. plan \in GoodPlans /\ Keeps(plan, list)
  <2>1. RequestPlan(request.args) \in GoodPlans /\ Keeps(RequestPlan(request.args), list)
    BY <1>1, RequestPlanFits DEF WindowOK
  <2>2. NoPlan \in GoodPlans /\ Keeps(NoPlan, list)
    BY NoPlanFits DEF Keeps
  <2> QED
    BY <2>1, <2>2
<1>3. request' = r /\ tabs' = IF plan.ok THEN plan.tabs ELSE tabs
  BY DEF OnTabRequest
<1>4. UNCHANGED <<layout, duty, at, leaving, closing, waiting, told, ops>>
  BY DEF OnTabRequest
<1> HIDE DEF plan
<1>5. list \in Strips
  BY <1>1
<1> HIDE DEF list
<1>6. r \in RequestRecords /\ r.at = "result" /\ r.plan = plan /\ r.before = list
  BY <1>1, <1>2, <1>5 DEF RequestOK, RequestRecords
<1> HIDE DEF r
<1>7. request'.at = "result" /\ request'.plan = plan /\ request'.before = list /\ request' \in RequestRecords
  BY <1>3, <1>6
<1>8. RequestOK'
  <2>1. Keeps(request.plan, request.before)'
    BY <1>2, <1>7 DEF Keeps, Reachable, ShownIn
  <2>2. Promised'
    BY <1>7 DEF Promised
  <2> QED
    BY <1>1, <1>4, <1>7, <2>1, <2>2 DEF RequestOK
<1>9. tabs' \in Strips
  BY <1>1, <1>2, <1>3, GoodPlanHas DEF StripOK
<1>10. StripOK' /\ WindowOK'
  BY <1>1, <1>4, <1>9 DEF StripOK, WindowOK
<1> QED
  BY <1>8, <1>10 DEF TabsInv

LEMMA FulfillKeeps == ASSUME TabsInv, Fulfill PROVE TabsInv'
<1>1. StripOK /\ WindowOK /\ RequestOK
  BY DEF TabsInv
<1> DEFINE r == [request EXCEPT !.at = "reply", !.accepted = Accepts]
<1>2. /\ request' = r /\ waiting' = FALSE
      /\ told' = IF waiting THEN IF request.plan.ok THEN "done" ELSE "error" ELSE told
      /\ UNCHANGED <<tabs, layout, duty, at, leaving, closing, ops>>
  BY DEF Fulfill
<1>3. /\ r \in RequestRecords /\ r.accepted = waiting /\ r.plan = request.plan /\ r.before = request.before
  BY <1>1 DEF RequestOK, RequestRecords, Accepts
<1> HIDE DEF r
<1>4. request'.accepted = waiting /\ request'.plan = request.plan /\ request'.before = request.before
  BY <1>2, <1>3
<1>5. Keeps(request.plan, request.before)'
  BY <1>1, <1>4 DEF RequestOK, Keeps, Reachable, ShownIn
<1>6. Promised'
  BY <1>2, <1>4 DEF Promised
<1>7. told' \in {"nothing", "done", "error"}
  BY <1>1, <1>2 DEF RequestOK
<1>8. RequestOK'
  BY <1>1, <1>2, <1>3, <1>5, <1>6, <1>7 DEF RequestOK
<1> QED
  BY <1>1, <1>2, <1>8 DEF TabsInv, StripOK, WindowOK

LEMMA ExpireKeeps == ASSUME TabsInv, Expire PROVE TabsInv'
<1>1. StripOK /\ WindowOK /\ RequestOK
  BY DEF TabsInv
<1>2. Keeps(request.plan, request.before)' /\ Promised'
  BY <1>1 DEF Expire, RequestOK, Keeps, Promised, Reachable, ShownIn
<1>3. RequestOK'
  BY <1>1, <1>2 DEF Expire, RequestOK
<1> QED
  BY <1>1, <1>3 DEF Expire, TabsInv, StripOK, WindowOK

LEMMA OnReplyKeeps == ASSUME TabsInv, OnReply PROVE TabsInv'
<1>1. StripOK /\ WindowOK /\ RequestOK
  BY DEF TabsInv
<1>2. /\ request' = Idle /\ (tabs' = tabs \/ tabs' = request.before)
      /\ leaving' = leaving \/ (request.plan.ok /\ leaving' = request.plan.path)
      /\ UNCHANGED <<layout, duty, at, closing, waiting, told, ops>>
  BY DEF OnReply
<1>3. request.before \in Strips /\ (request.plan.ok => request.plan.path \in Paths)
  BY <1>1, GoodPlanHas DEF RequestOK, RequestRecords
<1>4. StripOK' /\ WindowOK'
  BY <1>1, <1>2, <1>3 DEF StripOK, WindowOK
<1>5. request'.at = "idle" /\ Keeps(request'.plan, request'.before) /\ request' \in RequestRecords
  BY <1>2, IdleFits
<1>6. Keeps(request.plan, request.before)' /\ Promised'
  BY <1>5 DEF Keeps, Promised, Reachable, ShownIn
<1>7. RequestOK'
  BY <1>1, <1>2, <1>5, <1>6 DEF RequestOK
<1> QED
  BY <1>4, <1>7 DEF TabsInv

(* The strip's own controls. *)
LEMMA ControlsKeep ==
    ASSUME TabsInv, NEW path \in Range(Load), NEW other \in Range(Load),
           SeparateTabs(path) \/ SwapSides(path) \/ JoinTabs(path, other)
    PROVE  TabsInv'
<1>1. Load \in Strips /\ at \in Paths /\ path \in Paths
  BY LoadFits, ShownAre DEF TabsInv, WindowOK
<1>2. CASE SeparateTabs(path)
  <2>1. SeparatePlan(Load, path, path) \in GoodPlans
    BY <1>1, SeparatePlanFits
  <2> QED
    BY <1>2, <2>1, ApplyLayoutKeeps DEF SeparateTabs
<1>3. CASE SwapSides(path)
  <2>1. SwapPlan(Load, path) \in GoodPlans
    BY <1>1, SwapPlanFits
  <2> QED
    BY <1>3, <2>1, ApplyLayoutKeeps DEF SwapSides
<1>4. CASE JoinTabs(path, other)
  <2>1. JoinPlan(Load, at, path[1], other[1]) \in GoodPlans
    BY <1>1, JoinPlanFits
  <2> QED
    BY <1>4, <2>1, ApplyLayoutKeeps DEF JoinTabs
<1> QED
  BY <1>2, <1>3, <1>4

LEMMA ClosePaneKeeps ==
    ASSUME TabsInv, NEW side \in 1..2, CloseSplitPane(side)
    PROVE  TabsInv'
<1>1. Load \in Strips /\ at \in Paths /\ IsJoined(at)
  BY LoadFits DEF TabsInv, WindowOK, CloseSplitPane
<1>2. <<at[3 - side]>> \in Paths
  <2>1. 3 - side = 1 \/ 3 - side = 2
    OBVIOUS
  <2>2. at[1] \in Pages /\ at[2] \in Pages
    BY <1>1, PathForms
  <2> QED
    BY <2>1, <2>2, PathForms
<1>3. SeparatePlan(Load, at, <<at[3 - side]>>) \in GoodPlans
  BY <1>1, <1>2, SeparatePlanFits
<1> QED
  BY <1>3, ApplyLayoutKeeps DEF CloseSplitPane

(* Every step keeps the invariant: one step for each action. *)
LEMMA TabsInvStep == TabsInv /\ [TabsNext]_tabVars => TabsInv'
<1> SUFFICES ASSUME TabsInv, [TabsNext]_tabVars PROVE TabsInv'
  OBVIOUS
<1>1. CASE UNCHANGED tabVars
  <2>1. StripOK /\ WindowOK /\ RequestOK
    BY DEF TabsInv
  <2>2. RequestOK'
    BY <1>1, <2>1, RequestStays DEF tabVars, requestVars
  <2> QED
    BY <1>1, <2>1, <2>2 DEF tabVars, TabsInv, StripOK, WindowOK
<1>2. CASE Arrive \/ OnDuty \/ OnTabRequest \/ Fulfill \/ Expire \/ OnReply
  BY <1>2, ArriveKeeps, OnDutyKeeps, OnTabRequestKeeps, FulfillKeeps, ExpireKeeps, OnReplyKeeps
<1>3. ASSUME NEW path \in Range(Load) \cup Docked, Visit(path) PROVE TabsInv'
  BY <1>3, VisitKeeps
<1>4. ASSUME NEW path \in Closable, CloseTab(path) \/ CloseAppTab(path) PROVE TabsInv'
  BY <1>4, CloseTabKeeps, CloseAppTabKeeps
<1>5. ASSUME NEW path \in Range(Load), SeparateTabs(path) \/ SwapSides(path) PROVE TabsInv'
  BY <1>5, ControlsKeep
<1>6. ASSUME NEW path \in Range(Load), NEW other \in Range(Load), ReorderTab(path, other) \/ JoinTabs(path, other)
      PROVE  TabsInv'
  BY <1>6, ReorderTabKeeps, ControlsKeep
<1>7. ASSUME NEW a \in SecondAreas, OnAreaState(a) PROVE TabsInv'
  BY <1>7, OnAreaStateKeeps
<1>8. ASSUME NEW answer \in BOOLEAN, ConfirmClose(answer) \/ OnOpenTerminalRequest(answer) PROVE TabsInv'
  BY <1>8, ConfirmCloseKeeps, OnOpenTerminalKeeps
<1>9. ASSUME NEW side \in 1..2, CloseSplitPane(side) PROVE TabsInv'
  BY <1>9, ClosePaneKeeps
<1>10. CASE RequestTabs(<<"separate">>)
  BY <1>10, RequestTabsKeeps DEF Requests
<1>11. ASSUME NEW p \in Pages \ {Voice, Inner}, RequestTabs(<<"join", p>>) PROVE TabsInv'
  BY <1>11, RequestTabsKeeps DEF Requests
<1> QED
  BY <1>1, <1>2, <1>3, <1>4, <1>5, <1>6, <1>7, <1>8, <1>9, <1>10, <1>11 DEF TabsNext

LEMMA TabsAlways == TabsSpec => []TabsInv
  BY TabsInvInit, TabsInvStep, PTL DEF TabsSpec

(* No page has two tabs of its own, in the list and in what a close or a plan will *)
(* write (tabs.js, tab_layout.js). *)
THEOREM TabsTypeCorrect == TabsSpec => []TabsTypeOK
<1>1. TabsInv => TabsTypeOK
  <2> SUFFICES ASSUME TabsInv PROVE TabsTypeOK
    OBVIOUS
  <2>1. tabs \in Seq(Paths) /\ SolosApart(tabs) /\ layout \in Seq(AllAreas) /\ duty \in BOOLEAN
    BY DEF TabsInv, StripOK, Strips, Layouts
  <2>2. at \in Paths /\ leaving \in Paths \cup {Nowhere}
    BY DEF TabsInv, WindowOK
  <2>3. closing \in [path : Paths \cup {Nowhere}, tabs : Seq(Paths), next : Paths \cup {Nowhere}]
    <3>1. NoClose \in [path : Paths \cup {Nowhere}, tabs : Seq(Paths), next : Paths \cup {Nowhere}]
      <4>1. <<>> \in Seq(Paths)
        OBVIOUS
      <4> QED
        BY <4>1 DEF NoClose
    <3>2. CASE closing \in Closes
      BY <3>2 DEF Closes
    <3> QED
      BY <3>1, <3>2 DEF TabsInv, WindowOK
  <2>4. /\ request.at \in {"idle", "sent", "result", "reply"} /\ request.plan \in Plan
        /\ waiting \in BOOLEAN /\ told \in {"nothing", "done", "error"} /\ ops \in 0..MaxTabOps
    BY GoodPlanHas DEF TabsInv, RequestOK, RequestRecords
  <2> QED
    BY <2>1, <2>2, <2>3, <2>4 DEF TabsTypeOK, SolosApart
<1> QED
  BY <1>1, TabsAlways, PTL

(* A join, a separation and a swap take no page out of the strip, whatever *)
(* else is open (planTabLayout of lib/tab_layout.js). *)
THEOREM LayoutAlwaysKeepsPages == TabsSpec => []LayoutKeepsPages
<1>1. TabsInv => LayoutKeepsPages
  <2> SUFFICES ASSUME TabsInv PROVE LayoutKeepsPages
    OBVIOUS
  <2>1. tabs \in Strips
    BY DEF TabsInv, StripOK
  <2>2. request.plan.ok => Reachable(request.before) \subseteq Reachable(request.plan.tabs)
    BY DEF TabsInv, RequestOK, Keeps
  <2>3. ASSUME NEW path \in Range(tabs), IsJoined(path)
        PROVE  /\ Reachable(tabs) \subseteq Reachable(SwapPlan(tabs, path).tabs)
               /\ Reachable(tabs) \subseteq Reachable(SeparatePlan(tabs, path, path).tabs)
    <3>1. path \in Paths
      BY <2>1, ShownAre
    <3>2. Keeps(SwapPlan(tabs, path), tabs) /\ Keeps(SeparatePlan(tabs, path, path), tabs)
      BY <2>1, <3>1, SwapPlanFits, SeparatePlanFits
    <3>3. SwapPlan(tabs, path).ok /\ SeparatePlan(tabs, path, path).ok
      BY <2>3 DEF SwapPlan, SeparatePlan
    <3> QED
      BY <3>2, <3>3 DEF Keeps
  <2> QED
    BY <2>2, <2>3 DEF LayoutKeepsPages
<1> QED
  BY <1>1, TabsAlways, PTL

(* A request ends as its caller was told: what is undone takes away no page that *)
(* was opened since, and the window follows only what was reported as done *)
(* (app_tabs.ex, hooks/tab_layout.js). *)
THEOREM RequestsAlwaysEndAsTold == TabsSpec => RequestsEndAsTold
<1>1. TabsInv /\ [TabsNext]_tabVars => [OnReply => RollbackLosesNothing /\ FollowsOnlyWhatWasTold]_tabVars
  <2> SUFFICES ASSUME TabsInv, OnReply PROVE RollbackLosesNothing /\ FollowsOnlyWhatWasTold
    OBVIOUS
  <2>1. RollbackLosesNothing
    <3>1. CASE ~request.accepted /\ request.plan.ok /\ UndoIfUntouched(request.plan)
      BY <3>1 DEF UndoIfUntouched, RollbackLosesNothing
    <3>2. CASE ~(~request.accepted /\ request.plan.ok /\ UndoIfUntouched(request.plan))
      BY <3>2 DEF OnReply, RollbackLosesNothing, ShownIn
    <3> QED
      BY <3>1, <3>2
  <2>2. FollowsOnlyWhatWasTold
    BY DEF OnReply, FollowsOnlyWhatWasTold, TabsInv, RequestOK, Promised
  <2> QED
    BY <2>1, <2>2
<1> QED
  BY <1>1, TabsAlways, PTL DEF TabsSpec, RequestsEndAsTold

-----------------------------------------------------------------------------
(* The paint filter of a terminal. *)

(* The least of the places, if there is one. *)
LEMMA LeastPlace ==
    ASSUME NEW S \in SUBSET Nat
    PROVE  IF S = {} THEN LeastOr0(S) = 0
           ELSE LeastOr0(S) \in S /\ \A k \in S : LeastOr0(S) <= k
<1>1. ASSUME S # {} PROVE \E x \in S : \A y \in S : x <= y
  BY <1>1, LeastNatural
<1> QED
  BY <1>1 DEF LeastOr0, Min

(* A control sequence begins at a place. *)
Begins(s, k) == k + 1 <= Len(s) /\ s[k] = "ESC" /\ s[k + 1] = "["

LEMMA CsiStartIs ==
    ASSUME NEW s \in Seq(Tokens)
    PROVE  /\ CsiStart(s) = 0 => \A k \in 1..Len(s) : ~Begins(s, k)
           /\ CsiStart(s) # 0 => /\ CsiStart(s) \in 1..(Len(s) - 1) /\ Begins(s, CsiStart(s))
                                 /\ \A k \in 1..(CsiStart(s) - 1) : ~Begins(s, k)
<1> DEFINE S == {i \in 1..(Len(s) - 1) : s[i] = "ESC" /\ s[i + 1] = "["}
           i == CsiStart(s)
<1>1. Len(s) \in Nat /\ S \in SUBSET Nat
  OBVIOUS
<1>2. i = LeastOr0(S)
  BY DEF CsiStart
<1>3. \A k \in 1..Len(s) : Begins(s, k) <=> k \in S
  BY <1>1 DEF Begins
<1>4. \A k \in S : k \in 1..(Len(s) - 1) /\ k \in 1..Len(s) /\ k # 0
  BY <1>1
<1> HIDE DEF S, i
<1>5. IF S = {} THEN i = 0 ELSE i \in S /\ \A k \in S : i <= k
  BY <1>1, <1>2, LeastPlace
<1>6. CASE S = {}
  BY <1>3, <1>5, <1>6 DEF i
<1>7. CASE S # {}
  <2>1. i \in S /\ i \in 1..(Len(s) - 1) /\ i # 0 /\ Begins(s, i)
    BY <1>3, <1>4, <1>5, <1>7
  <2>2. \A k \in 1..(i - 1) : ~(i <= k) /\ k \in 1..Len(s)
    BY <1>1, <2>1
  <2>3. \A k \in 1..(i - 1) : ~Begins(s, k)
    BY <1>3, <1>5, <1>7, <2>2
  <2> QED
    BY <2>1, <2>3 DEF i
<1> QED
  BY <1>6, <1>7

LEMMA FindCsiEndIs ==
    ASSUME NEW s \in Seq(Tokens), NEW i \in Nat
    PROVE  /\ FindCsiEnd(s, i) = 0 => \A k \in (i + 2)..Len(s) : s[k] \notin FinalBytes
           /\ FindCsiEnd(s, i) # 0 =>
                 /\ FindCsiEnd(s, i) \in (i + 2)..Len(s) /\ s[FindCsiEnd(s, i)] \in FinalBytes
                 /\ \A k \in (i + 2)..(FindCsiEnd(s, i) - 1) : s[k] \notin FinalBytes
<1> DEFINE S == {k \in (i + 2)..Len(s) : s[k] \in FinalBytes}
           j == FindCsiEnd(s, i)
<1>1. Len(s) \in Nat /\ S \in SUBSET Nat
  OBVIOUS
<1>2. j = LeastOr0(S)
  BY DEF FindCsiEnd
<1>3. \A k \in S : k \in (i + 2)..Len(s) /\ s[k] \in FinalBytes /\ k # 0
  OBVIOUS
<1>4. \A k \in (i + 2)..Len(s) : s[k] \in FinalBytes => k \in S
  OBVIOUS
<1> HIDE DEF S, j
<1>5. IF S = {} THEN j = 0 ELSE j \in S /\ \A k \in S : j <= k
  BY <1>1, <1>2, LeastPlace
<1>6. CASE S = {}
  BY <1>4, <1>5, <1>6 DEF j
<1>7. CASE S # {}
  <2>1. j \in S /\ j \in (i + 2)..Len(s) /\ j # 0 /\ s[j] \in FinalBytes
    BY <1>3, <1>5, <1>7
  <2>2. \A k \in (i + 2)..(j - 1) : ~(j <= k) /\ k \in (i + 2)..Len(s)
    BY <1>1, <2>1
  <2>3. \A k \in (i + 2)..(j - 1) : s[k] \notin FinalBytes
    BY <1>4, <1>5, <1>7, <2>2
  <2> QED
    BY <2>1, <2>3 DEF j
<1> QED
  BY <1>6, <1>7

(* A text with a whole control sequence: what comes before and in it, and what *)
(* comes after. *)
EndOf(s) == FindCsiEnd(s, CsiStart(s))
HasSequence(s) == CsiStart(s) # 0 /\ EndOf(s) # 0
After(s) == SubSeq(s, EndOf(s) + 1, Len(s))
Sequence(s) == SubSeq(s, CsiStart(s), EndOf(s))
Painted(s) == IF s[EndOf(s)] = "m" THEN StripDarkBackgroundSgr(Sequence(s)) ELSE Sequence(s)
Lead(s) == SubSeq(s, 1, CsiStart(s) - 1)
Held(s) == IF CsiStart(s) = 0 THEN [out |-> s, pending |-> <<>>]
           ELSE [out |-> Lead(s), pending |-> SubSeq(s, CsiStart(s), Len(s))]
StripStep(f, s) ==
    IF HasSequence(s) THEN [out |-> Lead(s) \o Painted(s) \o f[After(s)].out, pending |-> f[After(s)].pending]
    ELSE Held(s)

(* The loop goes on with less. *)
LEMMA AfterIsLess ==
    ASSUME NEW s \in Seq(Tokens), HasSequence(s)
    PROVE  After(s) \in Seq(Tokens) /\ Len(After(s)) = Len(s) - EndOf(s) /\ Len(After(s)) < Len(s)
<1> DEFINE i == CsiStart(s)
           j == EndOf(s)
<1>1. i \in 1..(Len(s) - 1) /\ Len(s) \in Nat
  BY CsiStartIs DEF HasSequence
<1>2. j \in (i + 2)..Len(s)
  BY <1>1, FindCsiEndIs DEF HasSequence, EndOf
<1> HIDE DEF i, j
<1>3. j \in Nat /\ j <= Len(s) /\ j >= 3 /\ \A k \in (j + 1)..Len(s) : k \in 1..Len(s)
  BY <1>1, <1>2
<1>4. SubSeq(s, j + 1, Len(s)) \in Seq(Tokens)
      /\ Len(SubSeq(s, j + 1, Len(s))) = IF j + 1 <= Len(s) THEN Len(s) - (j + 1) + 1 ELSE 0
  BY <1>1, <1>3, SubSeqProperties
<1>5. (IF j + 1 <= Len(s) THEN Len(s) - (j + 1) + 1 ELSE 0) = Len(s) - j
  BY <1>1, <1>3
<1> QED
  BY <1>1, <1>3, <1>4, <1>5 DEF After, j

(* That the loop ends: its result exists for texts up to every length, is the *)
(* only one, and so exists for every text. *)
Upto(n) == {s \in Seq(Tokens) : Len(s) <= n}
Solves(f, n) == f = [s \in Upto(n) |-> StripStep(f, s)]

LEMMA SolutionsExist == \A n \in Nat : \E f : Solves(f, n)
<1> DEFINE T == {n \in Nat : \E f : Solves(f, n)}
<1>1. 0 \in T
  <2> DEFINE f == [s \in Upto(0) |-> Held(s)]
  <2>1. \A s \in Upto(0) : Held(s) = StripStep(f, s)
    <3> SUFFICES ASSUME NEW s \in Upto(0) PROVE ~HasSequence(s)
      BY DEF StripStep
    <3>1. s \in Seq(Tokens) /\ ~(Len(s) > 0)
      BY DEF Upto
    <3>2. HasSequence(s) => Len(After(s)) < Len(s) /\ Len(After(s)) \in Nat
      BY <3>1, AfterIsLess
    <3> QED
      BY <3>1, <3>2
  <2>2. f = [s \in Upto(0) |-> StripStep(f, s)]
    BY <2>1
  <2> HIDE DEF f
  <2>3. Solves(f, 0)
    BY <2>2 DEF Solves
  <2> QED
    BY <2>3
<1>2. ASSUME NEW n \in Nat, n \in T PROVE n + 1 \in T
  <2>1. PICK f : Solves(f, n)
    BY <1>2
  <2> DEFINE g == [s \in Upto(n + 1) |-> StripStep(f, s)]
  <2>2. ASSUME NEW s \in Upto(n + 1) PROVE StripStep(f, s) = StripStep(g, s)
    <3>1. CASE ~HasSequence(s)
      BY <3>1 DEF StripStep
    <3>2. CASE HasSequence(s)
      <4>1. s \in Seq(Tokens) /\ Len(s) <= n + 1
        BY DEF Upto
      <4>2. After(s) \in Upto(n) /\ After(s) \in Upto(n + 1)
        <5>1. After(s) \in Seq(Tokens) /\ Len(After(s)) < Len(s)
          BY <3>2, <4>1, AfterIsLess
        <5>2. Len(After(s)) \in Nat /\ Len(s) \in Nat
          BY <4>1, <5>1
        <5> QED
          BY <4>1, <5>1, <5>2 DEF Upto
      <4>3. f[After(s)] = StripStep(f, After(s))
        BY <2>1, <4>2 DEF Solves
      <4>4. g[After(s)] = f[After(s)]
        BY <4>2, <4>3
      <4> HIDE DEF g
      <4> QED
        BY <4>4 DEF StripStep
    <3> QED
      BY <3>1, <3>2
  <2>3. g = [s \in Upto(n + 1) |-> StripStep(g, s)]
    BY <2>2
  <2> HIDE DEF g
  <2>4. Solves(g, n + 1)
    BY <2>3 DEF Solves
  <2> QED
    BY <2>4
<1> HIDE DEF T
<1>3. T = Nat
  <2>1. T \in SUBSET Nat
    BY DEF T
  <2> QED
    BY <1>1, <1>2, <2>1, ByInduction
<1> QED
  BY <1>3 DEF T

LEMMA SolutionsAgree ==
    ASSUME NEW n \in Nat, NEW m \in Nat, NEW f, NEW g, Solves(f, n), Solves(g, m)
    PROVE  \A s \in Seq(Tokens) : Len(s) <= n /\ Len(s) <= m => f[s] = g[s]
<1> DEFINE T == {k \in Nat : \A s \in Seq(Tokens) : Len(s) <= k /\ Len(s) <= n /\ Len(s) <= m => f[s] = g[s]}
<1>1. ASSUME NEW s \in Seq(Tokens), Len(s) <= n, Len(s) <= m, HasSequence(s) => f[After(s)] = g[After(s)]
      PROVE  f[s] = g[s]
  <2>1. s \in Upto(n) /\ s \in Upto(m)
    BY <1>1 DEF Upto
  <2>2. f[s] = StripStep(f, s) /\ g[s] = StripStep(g, s)
    BY <2>1 DEF Solves
  <2>3. StripStep(f, s) = StripStep(g, s)
    BY <1>1 DEF StripStep
  <2> QED
    BY <2>2, <2>3
<1>2. 0 \in T
  <2> SUFFICES ASSUME NEW s \in Seq(Tokens), Len(s) <= 0, Len(s) <= n, Len(s) <= m PROVE f[s] = g[s]
    OBVIOUS
  <2>1. HasSequence(s) => Len(After(s)) < Len(s) /\ Len(After(s)) \in Nat
    BY AfterIsLess
  <2>2. ~HasSequence(s)
    BY <2>1
  <2> QED
    BY <1>1, <2>2
<1>3. ASSUME NEW k \in Nat, k \in T PROVE k + 1 \in T
  <2> SUFFICES ASSUME NEW s \in Seq(Tokens), Len(s) <= k + 1, Len(s) <= n, Len(s) <= m PROVE f[s] = g[s]
    OBVIOUS
  <2>1. ASSUME HasSequence(s) PROVE f[After(s)] = g[After(s)]
    <3>1. After(s) \in Seq(Tokens) /\ Len(After(s)) < Len(s) /\ Len(After(s)) \in Nat /\ Len(s) \in Nat
      BY <2>1, AfterIsLess
    <3>2. Len(After(s)) <= k /\ Len(After(s)) <= n /\ Len(After(s)) <= m
      BY <3>1
    <3> QED
      BY <1>3, <3>1, <3>2
  <2> QED
    BY <1>1, <2>1
<1>4. T \in SUBSET Nat
  OBVIOUS
<1>5. T = Nat
  <2> HIDE DEF T
  <2> QED
    BY <1>2, <1>3, <1>4, ByInduction
<1>6. \A s \in Seq(Tokens) : Len(s) \in Nat /\ Len(s) <= Len(s)
  OBVIOUS
<1> QED
  BY <1>5, <1>6

(* What the filter does with a text. *)
LEMMA StripPaintIs ==
    ASSUME NEW s \in Seq(Tokens)
    PROVE  StripPaint[s] = StripStep(StripPaint, s)
<1> DEFINE best(n) == CHOOSE f : Solves(f, n)
           F == [u \in Seq(Tokens) |-> best(Len(u))[u]]
<1>1. \A n \in Nat : Solves(best(n), n)
  BY SolutionsExist
<1> HIDE DEF best
<1>2. ASSUME NEW u \in Seq(Tokens) PROVE F[u] = StripStep(F, u)
  <2>1. Len(u) \in Nat /\ u \in Upto(Len(u)) /\ Solves(best(Len(u)), Len(u))
    BY <1>1 DEF Upto
  <2>2. F[u] = StripStep(best(Len(u)), u)
    BY <2>1 DEF Solves
  <2>3. ASSUME HasSequence(u) PROVE F[After(u)] = best(Len(u))[After(u)]
    <3>1. After(u) \in Seq(Tokens) /\ Len(After(u)) < Len(u) /\ Len(After(u)) \in Nat
      BY <2>3, AfterIsLess
    <3>2. F[After(u)] = best(Len(After(u)))[After(u)]
      BY <3>1
    <3>3. Solves(best(Len(After(u))), Len(After(u)))
      BY <1>1, <3>1
    <3>4. Len(After(u)) <= Len(After(u)) /\ Len(After(u)) <= Len(u)
      BY <2>1, <3>1
    <3>5. best(Len(After(u)))[After(u)] = best(Len(u))[After(u)]
      BY <2>1, <3>1, <3>3, <3>4, SolutionsAgree
    <3> QED
      BY <3>2, <3>5
  <2> HIDE DEF F
  <2> QED
    BY <2>2, <2>3 DEF StripStep
<1>3. F = [u \in Seq(Tokens) |-> StripStep(F, u)]
  BY <1>2
<1> HIDE DEF F
<1>4. StripPaint = CHOOSE f : f = [u \in Seq(Tokens) |-> StripStep(f, u)]
  BY ZenonT(40) DEF StripPaint, StripStep, HasSequence, EndOf, After, Sequence, Painted, Lead, Held
<1>5. StripPaint = [u \in Seq(Tokens) |-> StripStep(StripPaint, u)]
  BY <1>3, <1>4
<1> QED
  BY <1>5

(* What reaches the screen as text, and the parameters that are no background. *)
Content == {"other", "text"}

LEMMA DarkIsNoContent ==
    ASSUME NEW s \in Seq(Tokens)
    PROVE  Only(AllBut(s, {"dark"}), Content) = Only(s, Content)
<1> DEFINE S == Tokens \ {"dark"}
           I == {i \in DOMAIN s : s[i] \notin {"dark"}}
           J == {i \in DOMAIN s : s[i] \in S}
<1>1. I = J
  OBVIOUS
<1>2. AllBut(s, {"dark"}) = PickAt(s, I) /\ Only(s, S) = PickAt(s, J)
  BY DEF AllBut, Only
<1>3. Content \subseteq S
  BY DEF Content, Tokens
<1> HIDE DEF I, J, S
<1>4. Only(Only(s, S), Content) = Only(s, Content)
  BY <1>3, OnlyOfOnly
<1> QED
  BY <1>1, <1>2, <1>4

(* A colour sequence of which only dark backgrounds were taken keeps its content; *)
(* one that was nothing else had none. *)
LEMMA SgrKeepsContent ==
    ASSUME NEW s \in Seq(Tokens), Len(s) >= 3, s[1] = "ESC", s[2] = "[", s[Len(s)] = "m"
    PROVE  /\ StripDarkBackgroundSgr(s) \in Seq(Tokens)
           /\ Only(StripDarkBackgroundSgr(s), Content) = Only(s, Content)
<1> DEFINE kept == AllBut(s, {"dark"})
           I == {i \in DOMAIN s : s[i] \notin {"dark"}}
<1>1. kept \in Seq(Tokens) /\ Only(kept, Content) = Only(s, Content)
  BY OnlyKeeps, DarkIsNoContent
<1>2. kept = PickAt(s, I)
  BY DEF AllBut
<1>3. PickAt(s, I) \in Seq(Tokens) /\ Range(PickAt(s, I)) = {s[i] : i \in {j \in DOMAIN s : j \in I}}
  <2> HIDE DEF I
  <2> QED
    BY PickAtRange
<1>4. "ESC" \in Range(kept) /\ "[" \in Range(kept) /\ "m" \in Range(kept)
  <2>1. 1 \in I /\ 2 \in I /\ Len(s) \in I
    OBVIOUS
  <2> HIDE DEF kept, I
  <2> QED
    BY <1>2, <1>3, <2>1
<1> HIDE DEF kept
<1>5. ASSUME Len(kept) = 3 PROVE Only(kept, Content) = <<>>
  <2>1. DOMAIN kept = 1..3
    BY <1>1, <1>5
  <2>2. PICK p \in 1..3, q \in 1..3, r \in 1..3 : kept[p] = "ESC" /\ kept[q] = "[" /\ kept[r] = "m"
    BY <1>4, <2>1 DEF Range
  <2>3. p # q /\ p # r /\ q # r
    BY <2>2
  <2>4. \A i \in 1..3 : i = p \/ i = q \/ i = r
    BY <2>3
  <2>5. \A i \in 1..3 : kept[i] \notin Content
    BY <2>2, <2>4 DEF Content
  <2> DEFINE J == {i \in DOMAIN kept : kept[i] \in Content}
             o == Only(kept, Content)
  <2>6. J = {}
    BY <2>1, <2>5
  <2>7. o = PickAt(kept, J)
    BY DEF Only
  <2> HIDE DEF J
  <2>8. PickAt(kept, J) \in Seq(Tokens) /\ Range(PickAt(kept, J)) = {kept[i] : i \in {j \in DOMAIN kept : j \in J}}
    BY <1>1, PickAtRange
  <2>9. o \in Seq(Tokens) /\ Range(o) = {}
    BY <2>6, <2>7, <2>8
  <2> HIDE DEF o
  <2>10. o = <<>>
    <3>1. o # <<>> => 1 \in DOMAIN o
      BY <2>9
    <3> QED
      BY <2>9, <3>1 DEF Range
  <2> QED
    BY <2>10 DEF o
<1>6. StripDarkBackgroundSgr(s) = IF kept = s THEN s ELSE IF Len(kept) = 3 THEN <<>> ELSE kept
  BY DEF StripDarkBackgroundSgr, kept
<1>7. CASE kept = s
  BY <1>6, <1>7
<1>8. CASE kept # s /\ Len(kept) = 3
  <2>1. StripDarkBackgroundSgr(s) = <<>> /\ <<>> \in Seq(Tokens)
    BY <1>6, <1>8
  <2> QED
    BY ONLY <1>1, <1>5, <1>8, <2>1, OnlyOfNothing
<1>9. CASE kept # s /\ Len(kept) # 3
  BY <1>1, <1>6, <1>9
<1> QED
  BY <1>7, <1>8, <1>9

(* A text with a whole control sequence, in three pieces. *)
LEMMA ThreePieces ==
    ASSUME NEW s \in Seq(Tokens), HasSequence(s)
    PROVE  /\ CsiStart(s) \in 1..(Len(s) - 1) /\ EndOf(s) \in (CsiStart(s) + 2)..Len(s)
           /\ Lead(s) \in Seq(Tokens) /\ Sequence(s) \in Seq(Tokens) /\ After(s) \in Seq(Tokens)
           /\ s = Lead(s) \o Sequence(s) \o After(s)
           /\ Len(Lead(s)) = CsiStart(s) - 1 /\ Len(Sequence(s)) = EndOf(s) - CsiStart(s) + 1
           /\ Sequence(s)[1] = "ESC" /\ Sequence(s)[2] = "[" /\ Sequence(s)[Len(Sequence(s))] = s[EndOf(s)]
<1> DEFINE i == CsiStart(s)
           j == EndOf(s)
           n == Len(s)
           a == SubSeq(s, 1, j)
           p == Lead(s)
           q == Sequence(s)
           r == After(s)
<1>1. i \in 1..(n - 1) /\ n \in Nat /\ Begins(s, i)
  BY CsiStartIs DEF HasSequence
<1>2. j \in (i + 2)..n
  BY <1>1, FindCsiEndIs DEF HasSequence, EndOf
<1> HIDE DEF i, j, n
<1>3. i \in Nat /\ j \in Nat /\ j \in 0..n /\ i - 1 \in 0..j /\ i >= 1 /\ i + 2 <= j /\ j <= n /\ (i - 1) + 1 = i
  BY <1>1, <1>2
<1>4. /\ a \in Seq(Tokens) /\ Len(a) = j /\ (\A k \in 1..j : a[k] = s[k])
      /\ SubSeq(s, j + 1, n) \in Seq(Tokens) /\ s = a \o SubSeq(s, j + 1, n)
  BY <1>3, CutList DEF n
<1> HIDE DEF a
<1>5. /\ SubSeq(a, 1, i - 1) \in Seq(Tokens) /\ Len(SubSeq(a, 1, i - 1)) = i - 1
      /\ \A k \in 1..(i - 1) : SubSeq(a, 1, i - 1)[k] = a[k]
      /\ SubSeq(a, i, j) \in Seq(Tokens) /\ Len(SubSeq(a, i, j)) = j - (i - 1)
      /\ \A k \in 1..(j - (i - 1)) : SubSeq(a, i, j)[k] = a[(i - 1) + k]
      /\ a = SubSeq(a, 1, i - 1) \o SubSeq(a, i, j)
  <2>1. i - 1 \in 0..Len(a)
    BY <1>3, <1>4
  <2> DEFINE b == i - 1
  <2>3. b \in 0..Len(a) /\ b + 1 = i
    BY <1>3, <2>1
  <2> HIDE DEF b
  <2>2. /\ SubSeq(a, 1, b) \in Seq(Tokens) /\ Len(SubSeq(a, 1, b)) = b
        /\ \A k \in 1..b : SubSeq(a, 1, b)[k] = a[k]
        /\ SubSeq(a, b + 1, Len(a)) \in Seq(Tokens) /\ Len(SubSeq(a, b + 1, Len(a))) = Len(a) - b
        /\ \A k \in 1..(Len(a) - b) : SubSeq(a, b + 1, Len(a))[k] = a[b + k]
        /\ a = SubSeq(a, 1, b) \o SubSeq(a, b + 1, Len(a))
    BY <1>4, <2>3, CutList
  <2> QED
    BY <1>4, <2>2, <2>3 DEF b
<1>6. p = SubSeq(a, 1, i - 1)
  <2>1. \A k \in 1..(i - 1) : k \in 1..n /\ k \in 1..j
    BY <1>1, <1>3
  <2>2. p \in Seq(Tokens) /\ Len(p) = i - 1 /\ \A k \in 1..(i - 1) : p[k] = s[k]
    BY <1>1, <1>3, <2>1, SubSeqProperties DEF Lead, i, n
  <2> DEFINE b == SubSeq(a, 1, i - 1)
  <2>3. b \in Seq(Tokens) /\ Len(b) = i - 1 /\ \A k \in 1..(i - 1) : b[k] = s[k]
    BY <1>4, <1>5, <2>1
  <2> HIDE DEF b, p
  <2>4. p = b
    BY ONLY <2>2, <2>3, <1>3
  <2> QED
    BY <2>4 DEF b
<1>7. q = SubSeq(a, i, j)
  <2>1. \A k \in i..j : k \in 1..n
    BY <1>1, <1>3
  <2>2. q \in Seq(Tokens) /\ Len(q) = (IF i <= j THEN j - i + 1 ELSE 0) /\ \A k \in 1..(j - i + 1) : q[k] = s[i + k - 1]
    BY <1>1, <1>3, <2>1, SubSeqProperties, SMTT(30) DEF Sequence, i, j, n
  <2> DEFINE b == SubSeq(a, i, j)
             m == j - i + 1
  <2>3. /\ (IF i <= j THEN j - i + 1 ELSE 0) = m /\ j - (i - 1) = m /\ m \in Nat
        /\ \A k \in 1..m : i + k - 1 = (i - 1) + k /\ (i - 1) + k \in 1..j
    BY <1>3
  <2>4. b \in Seq(Tokens) /\ Len(b) = m /\ \A k \in 1..m : b[k] = s[i + k - 1]
    BY <1>4, <1>5, <2>3
  <2>5. q \in Seq(Tokens) /\ Len(q) = m /\ \A k \in 1..m : q[k] = s[i + k - 1]
    BY <2>2, <2>3
  <2> HIDE DEF b, q, m
  <2>6. q = b
    BY ONLY <2>3, <2>4, <2>5
  <2> QED
    BY <2>6 DEF b
<1>8. r = SubSeq(s, j + 1, n)
  BY DEF After, j, n
<1> HIDE DEF p, q, r
<1>9. Len(q) = j - i + 1 /\ q[1] = "ESC" /\ q[2] = "[" /\ q[Len(q)] = s[j]
  <2>1. Len(q) = j - i + 1 /\ j - i + 1 = j - (i - 1) /\ j - i + 1 \in Nat
    BY <1>3, <1>5, <1>7
  <2>2. /\ 1 \in 1..(j - (i - 1)) /\ 2 \in 1..(j - (i - 1)) /\ j - i + 1 \in 1..(j - (i - 1))
        /\ (i - 1) + 1 = i /\ (i - 1) + 2 = i + 1 /\ (i - 1) + (j - i + 1) = j
        /\ i \in 1..j /\ i + 1 \in 1..j /\ j \in 1..j
    BY <1>3
  <2>3. q[1] = s[i] /\ q[2] = s[i + 1] /\ q[j - i + 1] = s[j]
    <3>1. q[1] = a[(i - 1) + 1] /\ q[2] = a[(i - 1) + 2] /\ q[j - i + 1] = a[(i - 1) + (j - i + 1)]
      BY ONLY <1>5, <1>7, <2>2
    <3>2. a[i] = s[i] /\ a[i + 1] = s[i + 1] /\ a[j] = s[j]
      BY ONLY <1>4, <2>2
    <3> QED
      BY ONLY <2>2, <3>1, <3>2
  <2> QED
    BY <1>1, <2>1, <2>3 DEF Begins
<1>10. s = (p \o q) \o r
  BY <1>4, <1>5, <1>6, <1>7, <1>8
<1> QED
  BY <1>1, <1>2, <1>4, <1>5, <1>6, <1>7, <1>8, <1>9, <1>10 DEF i, j, n, p, q, r

(* A control sequence that no final byte ends: all of the text from where it begins. *)
Unfinished(p) == Begins(p, 1) /\ FindCsiEnd(p, 1) = 0 /\ CsiStart(p) = 1

LEMMA HeldPieces ==
    ASSUME NEW s \in Seq(Tokens), ~HasSequence(s), CsiStart(s) # 0
    PROVE  LET p == SubSeq(s, CsiStart(s), Len(s))
           IN  /\ Lead(s) \in Seq(Tokens) /\ p \in Seq(Tokens) /\ s = Lead(s) \o p
               /\ Len(Lead(s)) = CsiStart(s) - 1 /\ Unfinished(p) /\ p # <<>>
<1> DEFINE i == CsiStart(s)
           n == Len(s)
           b == i - 1
           a == Lead(s)
           p == SubSeq(s, i, n)
<1>1. i \in 1..(n - 1) /\ n \in Nat /\ Begins(s, i)
  BY CsiStartIs
<1>2. \A k \in (i + 2)..n : s[k] \notin FinalBytes
  <2>1. FindCsiEnd(s, i) = 0 /\ i \in Nat
    BY <1>1 DEF HasSequence, EndOf
  <2> QED
    BY <2>1, FindCsiEndIs
<1> HIDE DEF i, n
<1>3. b \in 0..n /\ b + 1 = i /\ i \in Nat /\ b \in Nat /\ i >= 1 /\ i + 1 <= n
  BY <1>1
<1>4. /\ a \in Seq(Tokens) /\ Len(a) = b /\ p \in Seq(Tokens) /\ Len(p) = n - b
      /\ (\A k \in 1..(n - b) : p[k] = s[b + k]) /\ s = a \o p
  <2> HIDE DEF b
  <2>1. /\ SubSeq(s, 1, b) \in Seq(Tokens) /\ Len(SubSeq(s, 1, b)) = b
        /\ SubSeq(s, b + 1, Len(s)) \in Seq(Tokens) /\ Len(SubSeq(s, b + 1, Len(s))) = Len(s) - b
        /\ \A k \in 1..(Len(s) - b) : SubSeq(s, b + 1, Len(s))[k] = s[b + k]
        /\ s = SubSeq(s, 1, b) \o SubSeq(s, b + 1, Len(s))
    BY <1>3, CutList, ZenonT(40) DEF n
  <2>2. a = SubSeq(s, 1, b) /\ p = SubSeq(s, b + 1, Len(s))
    BY <1>3 DEF Lead, i, b, n
  <2> HIDE DEF a, p
  <2> QED
    BY ONLY <2>1, <2>2 DEF n
<1> HIDE DEF a, p
<1>45. n - b >= 2 /\ n - b \in Nat
  <2> HIDE DEF b
  <2> QED
    BY <1>1, <1>3
<1>5. Begins(p, 1)
  <2>1. 1 \in 1..(n - b) /\ 2 \in 1..(n - b) /\ b + 1 = i /\ b + 2 = i + 1 /\ 1 + 1 <= n - b
    BY <1>1, <1>3
  <2>2. p[1] = s[i] /\ p[2] = s[i + 1]
    BY ONLY <1>4, <2>1
  <2>3. s[i] = "ESC" /\ s[i + 1] = "["
    BY <1>1 DEF Begins
  <2> QED
    BY ONLY <1>4, <2>1, <2>2, <2>3 DEF Begins
<1>6. CsiStart(p) = 1
  <2>1. 1 \in 1..Len(p)
    BY ONLY <1>4, <1>45
  <2>2. CsiStart(p) # 0
    BY <1>4, <1>5, <2>1, CsiStartIs
  <2>3. CsiStart(p) \in 1..(Len(p) - 1) /\ \A k \in 1..(CsiStart(p) - 1) : ~Begins(p, k)
    BY <1>4, <2>2, CsiStartIs
  <2>4. CsiStart(p) \in Nat /\ CsiStart(p) >= 1 /\ (CsiStart(p) # 1 => 1 \in 1..(CsiStart(p) - 1))
    BY <1>4, <2>3
  <2> QED
    BY <1>5, <2>3, <2>4
<1>7. FindCsiEnd(p, 1) = 0
  <2> DEFINE j == FindCsiEnd(p, 1)
  <2> SUFFICES ASSUME j # 0 PROVE FALSE
    OBVIOUS
  <2>1. j \in (1 + 2)..Len(p) /\ p[j] \in FinalBytes
    BY <1>4, FindCsiEndIs
  <2> HIDE DEF j
  <2>2. j \in 1..(n - b) /\ b + j \in (i + 2)..n
    BY <1>1, <1>3, <1>4, <2>1
  <2>3. p[j] = s[b + j]
    BY ONLY <1>4, <2>2
  <2> QED
    BY <1>2, <2>1, <2>2, <2>3
<1>8. p # <<>>
  <2>1. Len(p) # 0
    BY ONLY <1>4, <1>45
  <2> QED
    BY ONLY <2>1, Len(<<>>) = 0
<1> QED
  BY <1>4, <1>5, <1>6, <1>7, <1>8 DEF Unfinished, i, n, b, a, p

(* What the filter writes and holds back has the content of the text, and what it *)
(* holds back is unfinished. *)
FiltersWell(s) ==
    LET r == StripPaint[s]
    IN  /\ r.out \in Seq(Tokens) /\ r.pending \in Seq(Tokens)
        /\ Only(s, Content) = Only(r.out, Content) \o Only(r.pending, Content)
        /\ r.pending # <<>> => Unfinished(r.pending)

LEMMA HeldFiltersWell ==
    ASSUME NEW s \in Seq(Tokens), ~HasSequence(s)
    PROVE  FiltersWell(s)
<1>1. StripPaint[s] = Held(s)
  BY StripPaintIs DEF StripStep
<1>2. CASE CsiStart(s) = 0
  <2>1. StripPaint[s].out = s /\ StripPaint[s].pending = <<>>
    BY <1>1, <1>2 DEF Held
  <2>2. Only(s, Content) \o <<>> = Only(s, Content) /\ <<>> \in Seq(Tokens)
    <3>1. Only(s, Content) \in Seq(Tokens)
      BY OnlyKeeps
    <3> QED
      BY <3>1
  <2> QED
    BY ONLY <2>1, <2>2, s \in Seq(Tokens), OnlyOfNothing DEF FiltersWell
<1>3. CASE CsiStart(s) # 0
  <2> DEFINE p == SubSeq(s, CsiStart(s), Len(s))
             a == Lead(s)
  <2>1. StripPaint[s].out = a /\ StripPaint[s].pending = p
    <3>1. Held(s) = [out |-> a, pending |-> p]
      BY <1>3 DEF Held
    <3> HIDE DEF a, p
    <3> QED
      BY ONLY <1>1, <3>1
  <2>2. a \in Seq(Tokens) /\ p \in Seq(Tokens) /\ s = a \o p /\ Unfinished(p)
    BY <1>3, HeldPieces
  <2> HIDE DEF a, p
  <2>3. Only(a \o p, Content) = Only(a, Content) \o Only(p, Content)
    BY <2>2, OnlyOfConcat
  <2> QED
    BY ONLY <2>1, <2>2, <2>3 DEF FiltersWell
<1> QED
  BY <1>2, <1>3

LEMMA ContentOfConcat ==
    \A s, t \in Seq(Tokens) : Only(s \o t, Content) = Only(s, Content) \o Only(t, Content)
BY OnlyOfConcat

LEMMA StepFiltersWell ==
    ASSUME NEW s \in Seq(Tokens), HasSequence(s), FiltersWell(After(s))
    PROVE  FiltersWell(s)
<1> DEFINE a == Lead(s)
           b == Sequence(s)
           c == After(s)
           d == Painted(s)
           r == StripPaint[c]
           o == r.out
           h == r.pending
           K(u) == Only(u, Content)
<1>1. StripPaint[s].out = (a \o d) \o o /\ StripPaint[s].pending = h
  <2>1. StripPaint[s] = StripStep(StripPaint, s)
    BY StripPaintIs
  <2>2. StripStep(StripPaint, s) = [out |-> (a \o d) \o o, pending |-> h]
    BY HasSequence(s) DEF StripStep
  <2> HIDE DEF a, d, o, h
  <2> QED
    BY ONLY <2>1, <2>2
<1>2. /\ a \in Seq(Tokens) /\ b \in Seq(Tokens) /\ c \in Seq(Tokens) /\ s = (a \o b) \o c
      /\ Len(b) >= 3 /\ b[1] = "ESC" /\ b[2] = "[" /\ b[Len(b)] = s[EndOf(s)]
  <2>1. /\ a \in Seq(Tokens) /\ b \in Seq(Tokens) /\ c \in Seq(Tokens) /\ s = (a \o b) \o c
        /\ Len(b) = EndOf(s) - CsiStart(s) + 1 /\ b[1] = "ESC" /\ b[2] = "[" /\ b[Len(b)] = s[EndOf(s)]
        /\ CsiStart(s) \in 1..(Len(s) - 1) /\ EndOf(s) \in (CsiStart(s) + 2)..Len(s)
    BY ThreePieces
  <2>2. EndOf(s) - CsiStart(s) + 1 >= 3
    BY <2>1
  <2> HIDE DEF a, b, c
  <2> QED
    BY ONLY <2>1, <2>2
<1>3. d \in Seq(Tokens) /\ K(d) = K(b)
  <2>1. d = IF s[EndOf(s)] = "m" THEN StripDarkBackgroundSgr(b) ELSE b
    BY DEF Painted
  <2> HIDE DEF b, d
  <2>2. CASE s[EndOf(s)] = "m"
    BY <1>2, <2>1, <2>2, SgrKeepsContent
  <2>3. CASE s[EndOf(s)] # "m"
    BY <1>2, <2>1, <2>3
  <2> QED
    BY <2>2, <2>3
<1>4. o \in Seq(Tokens) /\ h \in Seq(Tokens) /\ K(c) = K(o) \o K(h) /\ (h # <<>> => Unfinished(h))
  BY DEF FiltersWell
<1> HIDE DEF a, b, c, d, r, o, h
<1>5. a \o b \in Seq(Tokens) /\ a \o d \in Seq(Tokens) /\ (a \o d) \o o \in Seq(Tokens)
  BY ONLY <1>2, <1>3, <1>4, ConcatProperties
<1>6. K(a \o b) = K(a) \o K(b)
  BY ONLY <1>2, OnlyOfConcat
<1>7. K(a \o d) = K(a) \o K(d)
  <2>1. a \in Seq(Tokens) /\ d \in Seq(Tokens)
    BY <1>2, <1>3
  <2> QED
    BY ONLY <2>1, OnlyOfConcat
<1>8. K((a \o b) \o c) = K(a \o b) \o K(c)
  <2>1. a \o b \in Seq(Tokens) /\ c \in Seq(Tokens)
    BY <1>2, <1>5
  <2> QED
    BY ONLY <2>1, ContentOfConcat, Zenon DEF K
<1>9. K((a \o d) \o o) = K(a \o d) \o K(o)
  <2>1. a \o d \in Seq(Tokens) /\ o \in Seq(Tokens)
    BY <1>4, <1>5
  <2> QED
    BY ONLY <2>1, ContentOfConcat, Zenon DEF K
<1>10. K(a \o d) \in Seq(Tokens) /\ K(o) \in Seq(Tokens) /\ K(h) \in Seq(Tokens)
  BY <1>4, <1>5, OnlyKeeps
<1> HIDE DEF K
<1>11. K(a \o d) \o (K(o) \o K(h)) = (K(a \o d) \o K(o)) \o K(h)
  BY ONLY <1>10, ConcatAssociative, SMTT(30)
<1>12. K(s) = K((a \o d) \o o) \o K(h)
  BY ONLY <1>2, <1>3, <1>4, <1>6, <1>7, <1>8, <1>9, <1>11
<1> QED
  BY ONLY <1>1, <1>4, <1>5, <1>12 DEF FiltersWell, K

LEMMA AllFilterWell == \A s \in Seq(Tokens) : FiltersWell(s)
<1> DEFINE T == {n \in Nat : \A s \in Seq(Tokens) : Len(s) <= n => FiltersWell(s)}
<1>1. 0 \in T
  <2> SUFFICES ASSUME NEW s \in Seq(Tokens), Len(s) <= 0 PROVE FiltersWell(s)
    OBVIOUS
  <2>1. HasSequence(s) => Len(After(s)) < Len(s) /\ Len(After(s)) \in Nat
    BY AfterIsLess
  <2> QED
    BY <2>1, HeldFiltersWell
<1>2. ASSUME NEW n \in Nat, n \in T PROVE n + 1 \in T
  <2> SUFFICES ASSUME NEW s \in Seq(Tokens), Len(s) <= n + 1 PROVE FiltersWell(s)
    OBVIOUS
  <2>1. CASE HasSequence(s)
    <3>1. After(s) \in Seq(Tokens) /\ Len(After(s)) < Len(s) /\ Len(After(s)) \in Nat /\ Len(s) \in Nat
      BY <2>1, AfterIsLess
    <3>2. Len(After(s)) <= n
      BY <3>1
    <3>3. FiltersWell(After(s))
      BY <1>2, <3>1, <3>2
    <3> QED
      BY <2>1, <3>3, StepFiltersWell
  <2>2. CASE ~HasSequence(s)
    BY <2>2, HeldFiltersWell
  <2> QED
    BY <2>1, <2>2
<1>3. T \in SUBSET Nat
  OBVIOUS
<1>4. T = Nat
  <2> HIDE DEF T
  <2> QED
    BY <1>1, <1>2, <1>3, ByInduction
<1>5. \A s \in Seq(Tokens) : Len(s) \in Nat /\ Len(s) <= Len(s)
  OBVIOUS
<1> QED
  BY <1>4, <1>5

(* The places of two texts one after the other. *)
LEMMA PlacesOfTwo ==
    ASSUME NEW s \in Seq(Tokens), NEW c \in Seq(Tokens)
    PROVE  /\ s \o c \in Seq(Tokens) /\ Len(s \o c) = Len(s) + Len(c)
           /\ \A k \in 1..Len(s) : (s \o c)[k] = s[k]
           /\ \A k \in 1..Len(c) : (s \o c)[Len(s) + k] = c[k]
<1>1. s \o c \in Seq(Tokens) /\ Len(s \o c) = Len(s) + Len(c) /\ Len(s) \in Nat /\ Len(c) \in Nat
  OBVIOUS
<1>2. \A k \in 1..Len(s) : (s \o c)[k] = s[k]
  OBVIOUS
<1>3. \A k \in 1..Len(c) : (s \o c)[Len(s) + k] = c[k]
  OBVIOUS
<1> QED
  BY <1>1, <1>2, <1>3

(* The place of the first beginning, told by what it is. *)
LEMMA StartTold ==
    ASSUME NEW s \in Seq(Tokens), NEW i \in 1..(Len(s) - 1), Begins(s, i),
           \A k \in 1..(i - 1) : ~Begins(s, k)
    PROVE  CsiStart(s) = i
<1> DEFINE f == CsiStart(s)
<1>1. i \in Nat /\ i >= 1 /\ i \in 1..Len(s) /\ Len(s) \in Nat
  OBVIOUS
<1>2. f # 0
  BY <1>1, CsiStartIs
<1>3. f \in 1..(Len(s) - 1) /\ Begins(s, f) /\ \A k \in 1..(f - 1) : ~Begins(s, k)
  BY <1>2, CsiStartIs
<1> HIDE DEF f
<1>4. f \in Nat /\ (f < i => f \in 1..(i - 1)) /\ (i < f => i \in 1..(f - 1))
  BY <1>1, <1>3
<1>5. ~(f < i) /\ ~(i < f)
  BY <1>3, <1>4
<1>6. f = i
  BY <1>1, <1>4, <1>5
<1> QED
  BY <1>6 DEF f

(* There is no beginning, told by what that is. *)
LEMMA NoStartTold ==
    ASSUME NEW s \in Seq(Tokens), \A k \in 1..Len(s) : ~Begins(s, k)
    PROVE  CsiStart(s) = 0
<1>1. CsiStart(s) # 0 => CsiStart(s) \in 1..(Len(s) - 1) /\ Begins(s, CsiStart(s))
  BY CsiStartIs
<1>2. \A k \in 1..(Len(s) - 1) : k \in 1..Len(s)
  OBVIOUS
<1> QED
  BY <1>1, <1>2

(* The place of the final byte, told by what it is. *)
LEMMA EndTold ==
    ASSUME NEW s \in Seq(Tokens), NEW i \in Nat, NEW j \in (i + 2)..Len(s), s[j] \in FinalBytes,
           \A k \in (i + 2)..(j - 1) : s[k] \notin FinalBytes
    PROVE  FindCsiEnd(s, i) = j
<1> DEFINE f == FindCsiEnd(s, i)
<1>1. j \in Nat /\ Len(s) \in Nat
  OBVIOUS
<1>2. f # 0
  BY FindCsiEndIs
<1>3. f \in (i + 2)..Len(s) /\ s[f] \in FinalBytes /\ \A k \in (i + 2)..(f - 1) : s[k] \notin FinalBytes
  BY <1>2, FindCsiEndIs
<1> HIDE DEF f
<1>4. f \in Nat /\ (f < j => f \in (i + 2)..(j - 1)) /\ (j < f => j \in (i + 2)..(f - 1))
  BY <1>1, <1>3
<1>5. ~(f < j) /\ ~(j < f)
  BY <1>3, <1>4
<1>6. f = j
  BY <1>1, <1>4, <1>5
<1> QED
  BY <1>6 DEF f

LEMMA NoEndTold ==
    ASSUME NEW s \in Seq(Tokens), NEW i \in Nat, \A k \in (i + 2)..Len(s) : s[k] \notin FinalBytes
    PROVE  FindCsiEnd(s, i) = 0
BY FindCsiEndIs

(* A text that goes on begins its first sequence where it did, and ends it there. *)
LEMMA GrownStart ==
    ASSUME NEW s \in Seq(Tokens), NEW c \in Seq(Tokens)
    PROVE  /\ \A k \in 1..(Len(s) - 1) : Begins(s \o c, k) <=> Begins(s, k)
           /\ CsiStart(s) # 0 => CsiStart(s \o c) = CsiStart(s)
<1> DEFINE t == s \o c
           i == CsiStart(s)
<1>1. /\ t \in Seq(Tokens) /\ Len(t) = Len(s) + Len(c) /\ \A k \in 1..Len(s) : t[k] = s[k]
  BY PlacesOfTwo
<1>2. Len(s) \in Nat /\ Len(c) \in Nat
  OBVIOUS
<1> HIDE DEF t
<1>3. ASSUME NEW k \in 1..(Len(s) - 1) PROVE Begins(t, k) <=> Begins(s, k)
  <2>1. k \in 1..Len(s) /\ k + 1 \in 1..Len(s) /\ k + 1 <= Len(s) /\ k + 1 <= Len(t)
    BY <1>1, <1>2
  <2> QED
    BY <1>1, <2>1 DEF Begins
<1>4. ASSUME i # 0 PROVE CsiStart(t) = i
  <2>1. i \in 1..(Len(s) - 1) /\ Begins(s, i) /\ \A k \in 1..(i - 1) : ~Begins(s, k)
    BY <1>4, CsiStartIs
  <2> HIDE DEF i
  <2>2. i \in 1..(Len(t) - 1) /\ \A k \in 1..(i - 1) : k \in 1..(Len(s) - 1)
    BY <1>1, <1>2, <2>1
  <2>3. Begins(t, i) /\ \A k \in 1..(i - 1) : ~Begins(t, k)
    BY <1>3, <2>1, <2>2
  <2> QED
    BY <1>1, <2>2, <2>3, StartTold
<1> QED
  BY <1>3, <1>4 DEF t, i

LEMMA GrownEnd ==
    ASSUME NEW s \in Seq(Tokens), NEW c \in Seq(Tokens), NEW i \in Nat, FindCsiEnd(s, i) # 0
    PROVE  FindCsiEnd(s \o c, i) = FindCsiEnd(s, i)
<1> DEFINE t == s \o c
           j == FindCsiEnd(s, i)
<1>1. t \in Seq(Tokens) /\ Len(t) = Len(s) + Len(c) /\ \A k \in 1..Len(s) : t[k] = s[k]
  BY PlacesOfTwo
<1>2. Len(s) \in Nat /\ Len(c) \in Nat
  OBVIOUS
<1>3. j \in (i + 2)..Len(s) /\ s[j] \in FinalBytes /\ \A k \in (i + 2)..(j - 1) : s[k] \notin FinalBytes
  BY FindCsiEndIs
<1> HIDE DEF t, j
<1>4. j \in (i + 2)..Len(t) /\ j \in 1..Len(s) /\ \A k \in (i + 2)..(j - 1) : k \in 1..Len(s)
  BY <1>1, <1>2, <1>3
<1>5. t[j] \in FinalBytes /\ \A k \in (i + 2)..(j - 1) : t[k] \notin FinalBytes
  BY <1>1, <1>3, <1>4
<1>6. FindCsiEnd(t, i) = j
  BY <1>1, <1>4, <1>5, EndTold
<1> QED
  BY <1>6 DEF t, j

(* A part of the first text is the same part of both. *)
LEMMA PartOfFirst ==
    ASSUME NEW s \in Seq(Tokens), NEW c \in Seq(Tokens), NEW a \in Nat, NEW b \in 0..Len(s), a >= 1
    PROVE  SubSeq(s \o c, a, b) = SubSeq(s, a, b) /\ SubSeq(s, a, b) \in Seq(Tokens)
<1> DEFINE t == s \o c
           u == SubSeq(t, a, b)
           v == SubSeq(s, a, b)
           m == IF a <= b THEN b - a + 1 ELSE 0
<1>1. t \in Seq(Tokens) /\ Len(t) = Len(s) + Len(c) /\ \A k \in 1..Len(s) : t[k] = s[k]
  BY PlacesOfTwo
<1>2. Len(s) \in Nat /\ Len(c) \in Nat /\ b \in Nat /\ b <= Len(s)
  OBVIOUS
<1> HIDE DEF t
<1>3. \A k \in a..b : k \in 1..Len(s) /\ k \in 1..Len(t)
  BY <1>1, <1>2
<1>4. v \in Seq(Tokens) /\ Len(v) = m /\ \A k \in 1..m : v[k] = s[a + k - 1]
  BY <1>2, <1>3, SubSeqProperties
<1>5. u \in Seq(Tokens) /\ Len(u) = m /\ \A k \in 1..m : u[k] = t[a + k - 1]
  BY <1>1, <1>2, <1>3, SubSeqProperties
<1>6. m \in Nat /\ \A k \in 1..m : a + k - 1 \in 1..Len(s)
  BY <1>2
<1> HIDE DEF u, v, m
<1>7. \A k \in 1..m : u[k] = v[k]
  BY <1>1, <1>4, <1>5, <1>6
<1>8. u = v
  BY ONLY <1>4, <1>5, <1>6, <1>7
<1> QED
  BY <1>4, <1>8 DEF u, v, t

(* A part that reaches into the second text from inside the first. *)
LEMMA RestOfTwo ==
    ASSUME NEW s \in Seq(Tokens), NEW c \in Seq(Tokens), NEW a \in 0..Len(s)
    PROVE  SubSeq(s \o c, a + 1, Len(s \o c)) = SubSeq(s, a + 1, Len(s)) \o c
<1> DEFINE t == s \o c
           u == SubSeq(t, a + 1, Len(t))
           v == SubSeq(s, a + 1, Len(s))
           w == v \o c
           m == Len(s) - a
           l == m + Len(c)
<1>1. /\ t \in Seq(Tokens) /\ Len(t) = Len(s) + Len(c) /\ \A k \in 1..Len(s) : t[k] = s[k]
      /\ \A k \in 1..Len(c) : t[Len(s) + k] = c[k]
  BY PlacesOfTwo
<1>2. Len(s) \in Nat /\ Len(c) \in Nat /\ a \in Nat /\ a <= Len(s) /\ m \in Nat
  OBVIOUS
<1> HIDE DEF t
<1>3. v \in Seq(Tokens) /\ Len(v) = m /\ \A k \in 1..m : v[k] = s[a + k]
  BY CutList
<1>4. a \in 0..Len(t) /\ Len(t) - a = l
  BY <1>1, <1>2
<1>5. u \in Seq(Tokens) /\ Len(u) = l /\ \A k \in 1..l : u[k] = t[a + k]
  BY <1>1, <1>4, CutList
<1> HIDE DEF u, v
<1>6. /\ w \in Seq(Tokens) /\ Len(w) = l /\ (\A k \in 1..m : w[k] = v[k])
      /\ \A k \in 1..Len(c) : w[m + k] = c[k]
  <2>1. /\ v \o c \in Seq(Tokens) /\ Len(v \o c) = Len(v) + Len(c) /\ (\A k \in 1..Len(v) : (v \o c)[k] = v[k])
        /\ \A k \in 1..Len(c) : (v \o c)[Len(v) + k] = c[k]
    BY <1>3, PlacesOfTwo
  <2> QED
    BY ONLY <1>3, <2>1
<1> HIDE DEF w
<1>7. ASSUME NEW k \in 1..l PROVE u[k] = w[k]
  <2>1. CASE k <= m
    <3>1. k \in 1..m /\ a + k \in 1..Len(s)
      BY <1>2, <2>1
    <3> QED
      BY <1>1, <1>3, <1>5, <1>6, <3>1
  <2>2. CASE ~(k <= m)
    <3>1. k - m \in 1..Len(c) /\ a + k = Len(s) + (k - m) /\ m + (k - m) = k
      BY <1>2, <2>2
    <3>2. t[Len(s) + (k - m)] = c[k - m] /\ w[m + (k - m)] = c[k - m]
      BY <1>1, <1>6, <3>1
    <3> QED
      BY <1>5, <3>1, <3>2
  <2> QED
    BY <2>1, <2>2
<1>8. u = w
  <2>1. l \in Nat
    BY <1>2
  <2> HIDE DEF l
  <2> QED
    BY ONLY <1>5, <1>6, <1>7, <2>1
<1> QED
  BY <1>8 DEF u, v, w, t

(* A whole sequence of the first text is dealt with as it was, and the loop goes on *)
(* with both rests. *)
LEMMA GrownStep ==
    ASSUME NEW s \in Seq(Tokens), NEW c \in Seq(Tokens), HasSequence(s)
    PROVE  /\ HasSequence(s \o c) /\ Lead(s \o c) = Lead(s) /\ Painted(s \o c) = Painted(s)
           /\ After(s \o c) = After(s) \o c
<1> DEFINE t == s \o c
           i == CsiStart(s)
           j == EndOf(s)
<1>1. i # 0 /\ j # 0
  BY DEF HasSequence
<1>2. i \in 1..(Len(s) - 1) /\ i \in Nat /\ Len(s) \in Nat
  BY <1>1, CsiStartIs
<1>3. CsiStart(t) = i
  BY <1>1, GrownStart
<1>4. FindCsiEnd(s, i) = j
  BY DEF EndOf
<1>5. j \in (i + 2)..Len(s)
  BY <1>1, <1>2, <1>4, FindCsiEndIs
<1>6. FindCsiEnd(t, i) = j
  <2>1. FindCsiEnd(s, i) # 0
    BY <1>1, <1>4
  <2> HIDE DEF i, j
  <2> QED
    BY <1>2, <1>4, <2>1, GrownEnd
<1> HIDE DEF i, j
<1>7. EndOf(t) = j
  BY <1>3, <1>6 DEF EndOf
<1>8. HasSequence(t)
  BY <1>1, <1>3, <1>7 DEF HasSequence
<1>9. t[j] = s[j]
  <2>1. j \in 1..Len(s)
    BY <1>2, <1>5
  <2> QED
    BY <2>1, PlacesOfTwo
<1>10. Lead(t) = Lead(s)
  <2>1. 1 \in Nat /\ 1 >= 1 /\ i - 1 \in 0..Len(s)
    BY <1>2
  <2>2. SubSeq(t, 1, i - 1) = SubSeq(s, 1, i - 1)
    BY <2>1, PartOfFirst
  <2> QED
    BY <1>3, <2>2 DEF Lead, i
<1>11. Sequence(t) = Sequence(s)
  <2>1. i \in Nat /\ i >= 1 /\ j \in 0..Len(s)
    BY <1>2, <1>5
  <2>2. SubSeq(t, i, j) = SubSeq(s, i, j)
    BY <2>1, PartOfFirst
  <2> QED
    BY <1>3, <1>7, <2>2 DEF Sequence, i, j
<1>12. Painted(t) = Painted(s)
  BY <1>7, <1>9, <1>11 DEF Painted, j
<1>13. After(t) = After(s) \o c
  <2>1. j \in 0..Len(s)
    BY <1>2, <1>5
  <2>2. SubSeq(t, j + 1, Len(t)) = SubSeq(s, j + 1, Len(s)) \o c
    BY <2>1, RestOfTwo
  <2> QED
    BY <1>7, <2>2 DEF After, j
<1> QED
  BY <1>8, <1>10, <1>12, <1>13

(* The end of the sequence that begins in the second text. *)
LEMMA ShiftedEnd ==
    ASSUME NEW a \in Seq(Tokens), NEW x \in Seq(Tokens), NEW i \in Nat
    PROVE  FindCsiEnd(a \o x, Len(a) + i) = IF FindCsiEnd(x, i) = 0 THEN 0 ELSE Len(a) + FindCsiEnd(x, i)
<1> DEFINE t == a \o x
           n == Len(a)
           j == FindCsiEnd(x, i)
<1>1. t \in Seq(Tokens) /\ Len(t) = n + Len(x) /\ \A k \in 1..Len(x) : t[n + k] = x[k]
  BY PlacesOfTwo
<1>2. n \in Nat /\ Len(x) \in Nat /\ n + i \in Nat
  OBVIOUS
<1> HIDE DEF t, n
<1>3. ASSUME NEW k \in (n + i + 2)..Len(t)
      PROVE  k - n \in (i + 2)..Len(x) /\ k - n \in 1..Len(x) /\ n + (k - n) = k /\ t[k] = x[k - n]
  <2>1. k - n \in (i + 2)..Len(x) /\ k - n \in 1..Len(x) /\ n + (k - n) = k
    BY <1>1, <1>2
  <2>2. t[n + (k - n)] = x[k - n]
    BY <1>1, <2>1
  <2> QED
    BY <2>1, <2>2
<1>4. CASE j = 0
  <2>1. \A k \in (i + 2)..Len(x) : x[k] \notin FinalBytes
    BY <1>4, FindCsiEndIs
  <2>2. \A k \in (n + i + 2)..Len(t) : t[k] \notin FinalBytes
    BY <1>3, <2>1
  <2>3. FindCsiEnd(t, n + i) = 0
    BY <1>1, <1>2, <2>2, NoEndTold
  <2> QED
    BY <1>4, <2>3 DEF t, n
<1>5. CASE j # 0
  <2>1. j \in (i + 2)..Len(x) /\ x[j] \in FinalBytes /\ \A k \in (i + 2)..(j - 1) : x[k] \notin FinalBytes
    BY <1>5, FindCsiEndIs
  <2> HIDE DEF j
  <2>2. n + j \in (n + i + 2)..Len(t) /\ j \in 1..Len(x)
    BY <1>1, <1>2, <2>1
  <2>3. t[n + j] \in FinalBytes
    BY <1>1, <2>1, <2>2
  <2>4. ASSUME NEW k \in (n + i + 2)..(n + j - 1) PROVE t[k] \notin FinalBytes
    <3>1. k \in (n + i + 2)..Len(t) /\ k - n \in (i + 2)..(j - 1)
      BY <1>1, <1>2, <2>1
    <3> QED
      BY <1>3, <2>1, <3>1
  <2>5. FindCsiEnd(t, n + i) = n + j
    <3> DEFINE g == n + i
               e == n + j
    <3>1. t \in Seq(Tokens) /\ g \in Nat /\ e \in (g + 2)..Len(t) /\ t[e] \in FinalBytes
      BY <1>1, <1>2, <2>2, <2>3
    <3>2. ASSUME NEW k \in (g + 2)..(e - 1) PROVE t[k] \notin FinalBytes
      <4>1. k \in (n + i + 2)..(n + j - 1)
        BY <1>2, <2>1
      <4> QED
        BY <2>4, <4>1
    <3> HIDE DEF g, e
    <3>3. FindCsiEnd(t, g) = e
      BY ONLY <3>1, <3>2, EndTold
    <3> QED
      BY <3>3 DEF g, e
  <2> QED
    BY <1>5, <2>5 DEF t, n, j
<1> QED
  BY <1>4, <1>5

(* A part of the second text is the same part of both, further on. *)
LEMMA PartOfSecond ==
    ASSUME NEW a \in Seq(Tokens), NEW x \in Seq(Tokens), NEW d \in Nat, d >= 1, NEW e \in 0..Len(x)
    PROVE  SubSeq(a \o x, Len(a) + d, Len(a) + e) = SubSeq(x, d, e)
<1> DEFINE t == a \o x
           n == Len(a)
           u == SubSeq(t, n + d, n + e)
           v == SubSeq(x, d, e)
           m == IF d <= e THEN e - d + 1 ELSE 0
<1>1. t \in Seq(Tokens) /\ Len(t) = n + Len(x) /\ \A k \in 1..Len(x) : t[n + k] = x[k]
  BY PlacesOfTwo
<1>2. n \in Nat /\ Len(x) \in Nat /\ n + d \in Nat /\ n + e \in Nat /\ m \in Nat
  OBVIOUS
<1> HIDE DEF t, n
<1>3. (\A k \in d..e : k \in 1..Len(x)) /\ \A k \in (n + d)..(n + e) : k \in 1..Len(t)
  BY <1>1, <1>2
<1>4. v \in Seq(Tokens) /\ Len(v) = m /\ \A k \in 1..m : v[k] = x[d + k - 1]
  BY <1>2, <1>3, SubSeqProperties
<1>5. m = IF n + d <= n + e THEN (n + e) - (n + d) + 1 ELSE 0
  BY <1>2
<1>6. u \in Seq(Tokens) /\ Len(u) = m /\ \A k \in 1..m : u[k] = t[n + d + k - 1]
  <2> HIDE DEF m
  <2>1. u \in Seq(Tokens) /\ Len(u) = (IF n + d <= n + e THEN (n + e) - (n + d) + 1 ELSE 0)
        /\ \A k \in 1..((n + e) - (n + d) + 1) : u[k] = t[n + d + k - 1]
    BY <1>1, <1>2, <1>3, SubSeqProperties
  <2>2. \A k \in 1..m : k \in 1..((n + e) - (n + d) + 1)
    BY <1>2, <1>5
  <2> QED
    BY <1>5, <2>1, <2>2
<1>7. \A k \in 1..m : d + k - 1 \in 1..Len(x) /\ n + (d + k - 1) = n + d + k - 1
  BY <1>2
<1> HIDE DEF u, v, m
<1>8. ASSUME NEW k \in 1..m PROVE u[k] = v[k]
  <2>1. t[n + (d + k - 1)] = x[d + k - 1]
    BY <1>1, <1>7
  <2> QED
    BY <1>4, <1>6, <1>7, <2>1
<1>9. u = v
  BY ONLY <1>2, <1>4, <1>6, <1>8
<1> QED
  BY <1>9 DEF u, v, t, n
(* The front of both, from inside the second text. *)
LEMMA FrontOfTwo ==
    ASSUME NEW a \in Seq(Tokens), NEW x \in Seq(Tokens), NEW e \in 0..Len(x)
    PROVE  /\ SubSeq(a \o x, 1, Len(a) + e) = a \o SubSeq(x, 1, e)
           /\ SubSeq(x, 1, e) \in Seq(Tokens)
<1> DEFINE w == SubSeq(x, 1, e)
           q == SubSeq(x, e + 1, Len(x))
           c == a \o w
<1>1. w \in Seq(Tokens) /\ Len(w) = e /\ q \in Seq(Tokens) /\ x = w \o q
  BY CutList, ZenonT(40)
<1> HIDE DEF w, q
<1>2. a \o (w \o q) = c \o q
  BY ONLY <1>1, a \in Seq(Tokens), ConcatAssociative, SMTT(30) DEF c
<1>3. c \in Seq(Tokens) /\ Len(c) = Len(a) + e
  BY <1>1, PlacesOfTwo
<1> HIDE DEF c
<1>4. Len(c) \in 0..Len(c) /\ 1 \in Nat /\ 1 >= 1
  BY <1>3
<1>5. SubSeq(c \o q, 1, Len(c)) = SubSeq(c, 1, Len(c))
  BY <1>1, <1>3, <1>4, PartOfFirst
<1>6. SubSeq(c, 1, Len(c)) = c
  BY ONLY <1>3, SubSeqFull
<1> QED
  BY ONLY <1>1, <1>2, <1>3, <1>5, <1>6 DEF c, w

LEMMA PaintedKeeps ==
    ASSUME NEW s \in Seq(Tokens), HasSequence(s)
    PROVE  Painted(s) \in Seq(Tokens)
<1> DEFINE b == Sequence(s)
<1>1. /\ b \in Seq(Tokens) /\ Len(b) = EndOf(s) - CsiStart(s) + 1
      /\ b[1] = "ESC" /\ b[2] = "[" /\ b[Len(b)] = s[EndOf(s)]
      /\ CsiStart(s) \in 1..(Len(s) - 1) /\ EndOf(s) \in (CsiStart(s) + 2)..Len(s)
  BY ThreePieces
<1>2. Len(b) >= 3
  <2>1. EndOf(s) - CsiStart(s) + 1 >= 3
    BY <1>1
  <2> HIDE DEF b
  <2> QED
    BY ONLY <1>1, <2>1
<1>3. Painted(s) = IF s[EndOf(s)] = "m" THEN StripDarkBackgroundSgr(b) ELSE b
  BY DEF Painted
<1> HIDE DEF b
<1> QED
  BY <1>1, <1>2, <1>3, SgrKeepsContent

LEMMA AssociativeTexts ==
    \A s, t, u \in Seq(Tokens) : (s \o t) \o u = s \o (t \o u)
BY ConcatAssociative

(* What begins nowhere in the first text is written as it is, and the filter goes on *)
(* with the second. *)
LEMMA PlainPrefix ==
    ASSUME NEW a \in Seq(Tokens), NEW x \in Seq(Tokens),
           \A k \in 1..Len(a) : ~Begins(a \o x, k)
    PROVE  StripPaint[a \o x] = [out |-> a \o StripPaint[x].out, pending |-> StripPaint[x].pending]
<1> DEFINE t == a \o x
           n == Len(a)
           i == CsiStart(x)
           l == Len(x)
<1>1. /\ t \in Seq(Tokens) /\ Len(t) = n + l /\ (\A k \in 1..n : t[k] = a[k])
      /\ \A k \in 1..l : t[n + k] = x[k]
  BY PlacesOfTwo
<1>2. n \in Nat /\ l \in Nat
  OBVIOUS
<1>3. \A k \in 1..n : ~Begins(t, k)
  OBVIOUS
<1>4. StripPaint[t] = StripStep(StripPaint, t) /\ StripPaint[x] = StripStep(StripPaint, x)
  BY <1>1, StripPaintIs
<1> HIDE DEF t, n, l
<1>5. ASSUME NEW k \in 1..l PROVE Begins(t, n + k) <=> Begins(x, k)
  <2>1. Len(x) = l
    BY DEF l
  <2>2. n + k + 1 <= Len(t) <=> k + 1 <= l
    BY <1>1, <1>2
  <2>3. t[n + k] = x[k]
    BY <1>1
  <2>4. k + 1 <= l => t[n + k + 1] = x[k + 1]
    <3>1. SUFFICES ASSUME k + 1 <= l PROVE t[n + k + 1] = x[k + 1]
      OBVIOUS
    <3>2. k + 1 \in 1..l /\ n + (k + 1) = n + k + 1
      BY <1>2, <3>1
    <3>3. t[n + (k + 1)] = x[k + 1]
      BY <1>1, <3>2
    <3> QED
      BY <3>2, <3>3
  <2> QED
    BY <2>1, <2>2, <2>3, <2>4 DEF Begins
<1>6. ASSUME i = 0 PROVE CsiStart(t) = 0
  <2>1. \A k \in 1..l : ~Begins(x, k)
    BY <1>6, CsiStartIs DEF l
  <2>2. ASSUME NEW k \in 1..Len(t) PROVE ~Begins(t, k)
    <3>1. CASE k \in 1..n
      BY <1>3, <3>1
    <3>2. CASE k \notin 1..n
      <4>1. k - n \in 1..l /\ n + (k - n) = k
        BY <1>1, <1>2, <3>2
      <4>2. Begins(t, n + (k - n)) <=> Begins(x, k - n)
        BY <1>5, <4>1
      <4> QED
        BY <2>1, <4>1, <4>2
    <3> QED
      BY <3>1, <3>2
  <2> QED
    BY <1>1, <2>2, NoStartTold
<1>7. ASSUME i # 0 PROVE CsiStart(t) = n + i /\ i \in 1..(l - 1)
  <2>1. i \in 1..(l - 1) /\ Begins(x, i) /\ \A k \in 1..(i - 1) : ~Begins(x, k)
    BY <1>7, CsiStartIs DEF l
  <2> HIDE DEF i
  <2>2. i \in 1..l /\ n + i \in 1..(Len(t) - 1)
    BY <1>1, <1>2, <2>1
  <2>3. Begins(t, n + i)
    BY <1>5, <2>1, <2>2
  <2>4. ASSUME NEW k \in 1..(n + i - 1) PROVE ~Begins(t, k)
    <3>1. CASE k \in 1..n
      BY <1>3, <3>1
    <3>2. CASE k \notin 1..n
      <4>1. k - n \in 1..l /\ n + (k - n) = k /\ k - n \in 1..(i - 1)
        BY <1>2, <2>1, <3>2
      <4>2. Begins(t, n + (k - n)) <=> Begins(x, k - n)
        BY <1>5, <4>1
      <4> QED
        BY <2>1, <4>1, <4>2
    <3> QED
      BY <3>1, <3>2
  <2> DEFINE e == n + i
  <2>5. e \in 1..(Len(t) - 1) /\ Begins(t, e)
    BY <2>2, <2>3
  <2>7. ASSUME NEW k \in 1..(e - 1) PROVE ~Begins(t, k)
    <3>1. k \in 1..(n + i - 1)
      BY <1>2, <2>1
    <3> QED
      BY <2>4, <3>1
  <2> HIDE DEF e
  <2>6. CsiStart(t) = e
    BY ONLY <1>1, <2>5, <2>7, StartTold
  <2> QED
    BY <2>1, <2>6 DEF e
<1>8. CASE i = 0
  <2>1. StripPaint[x] = [out |-> x, pending |-> <<>>]
    BY <1>4, <1>8 DEF StripStep, Held, HasSequence
  <2>2. StripPaint[t] = [out |-> t, pending |-> <<>>]
    BY <1>4, <1>6, <1>8 DEF StripStep, Held, HasSequence
  <2> QED
    BY <2>1, <2>2 DEF t
<1>9. CASE i # 0
  <2>1. CsiStart(t) = n + i /\ i \in 1..(l - 1) /\ i \in Nat /\ n + i # 0
    BY <1>2, <1>7, <1>9
  <2>2. EndOf(t) = IF EndOf(x) = 0 THEN 0 ELSE n + EndOf(x)
    <3>1. FindCsiEnd(t, n + i) = IF FindCsiEnd(x, i) = 0 THEN 0 ELSE n + FindCsiEnd(x, i)
      BY <2>1, ShiftedEnd DEF t, n
    <3> QED
      BY <2>1, <3>1 DEF EndOf
  <2>3. Lead(t) = a \o Lead(x) /\ Lead(x) \in Seq(Tokens)
    <3>1. i - 1 \in 0..Len(x)
      BY <1>2, <2>1 DEF l
    <3>2. SubSeq(t, 1, n + (i - 1)) = a \o SubSeq(x, 1, i - 1) /\ SubSeq(x, 1, i - 1) \in Seq(Tokens)
      BY <3>1, FrontOfTwo DEF t, n
    <3>3. n + (i - 1) = (n + i) - 1
      BY <1>2, <2>1
    <3>4. Lead(x) = SubSeq(x, 1, i - 1) /\ Lead(t) = SubSeq(t, 1, (n + i) - 1)
      <4>1. Lead(x) = SubSeq(x, 1, i - 1)
        BY DEF Lead
      <4>2. Lead(t) = SubSeq(t, 1, CsiStart(t) - 1)
        BY DEF Lead
      <4> HIDE DEF i
      <4>3. CsiStart(t) = n + i
        BY <2>1
      <4> QED
        BY ONLY <4>1, <4>2, <4>3, Zenon
    <3> QED
      BY ONLY <3>2, <3>3, <3>4
  <2>4. CASE EndOf(x) = 0
    <3>1. ~HasSequence(x) /\ ~HasSequence(t)
      BY <2>2, <2>4 DEF HasSequence
    <3>2. StripPaint[x] = [out |-> Lead(x), pending |-> SubSeq(x, i, l)]
      BY <1>4, <1>9, <3>1 DEF StripStep, Held, l
    <3>3. StripPaint[t] = [out |-> Lead(t), pending |-> SubSeq(t, n + i, n + l)]
      BY <1>1, <1>4, <2>1, <3>1 DEF StripStep, Held
    <3>4. SubSeq(t, n + i, n + l) = SubSeq(x, i, l)
      <4>1. i >= 1 /\ l \in 0..Len(x)
        BY <1>2, <2>1 DEF l
      <4> QED
        BY <2>1, <4>1, PartOfSecond DEF t, n
    <3> HIDE DEF i
    <3>5. StripPaint[x].out = Lead(x) /\ StripPaint[x].pending = SubSeq(x, i, l)
      <4> DEFINE q == SubSeq(x, i, l)
      <4>1. StripPaint[x] = [out |-> Lead(x), pending |-> q]
        BY <3>2
      <4> HIDE DEF q
      <4>2. StripPaint[x].out = Lead(x) /\ StripPaint[x].pending = q
        BY ONLY <4>1
      <4> QED
        BY <4>2 DEF q
    <3>6. StripPaint[t] = [out |-> a \o StripPaint[x].out, pending |-> StripPaint[x].pending]
      BY ONLY <2>3, <3>3, <3>4, <3>5
    <3> QED
      BY ONLY <3>6 DEF t
  <2>5. CASE EndOf(x) # 0
    <3> DEFINE j == EndOf(x)
               y == StripPaint[After(x)]
    <3>1. HasSequence(x) /\ j \in (i + 2)..l /\ x[j] \in FinalBytes
      <4>1. HasSequence(x)
        BY <1>9, <2>5 DEF HasSequence
      <4>2. j = FindCsiEnd(x, i) /\ i \in Nat /\ j # 0
        BY <2>1, <2>5 DEF EndOf
      <4> QED
        BY <4>1, <4>2, FindCsiEndIs DEF l
    <3>2. j \in 1..l /\ j \in 0..Len(x) /\ i >= 1 /\ n + j # 0 /\ j \in Nat
      BY <1>2, <2>1, <3>1 DEF l
    <3>3. EndOf(t) = n + j
      BY <2>2, <2>5
    <3>4. HasSequence(t)
      BY <2>1, <3>2, <3>3 DEF HasSequence
    <3>5. t[n + j] = x[j]
      BY <1>1, <3>2
    <3>6. Sequence(t) = Sequence(x)
      <4>1. SubSeq(t, n + i, n + j) = SubSeq(x, i, j)
        BY <2>1, <3>2, PartOfSecond DEF t, n
      <4> QED
        BY <2>1, <3>3, <4>1 DEF Sequence
    <3>7. Painted(t) = Painted(x)
      BY <3>3, <3>5, <3>6 DEF Painted
    <3>8. After(t) = After(x)
      <4>1. j + 1 \in Nat /\ j + 1 >= 1 /\ l \in 0..Len(x) /\ n + (j + 1) = n + j + 1
        BY <1>2, <3>2 DEF l
      <4>2. SubSeq(t, n + (j + 1), n + l) = SubSeq(x, j + 1, l)
        BY <4>1, PartOfSecond DEF t, n
      <4> QED
        BY <1>1, <3>3, <4>1, <4>2 DEF After, l
    <3>9. StripPaint[x] = [out |-> Lead(x) \o Painted(x) \o y.out, pending |-> y.pending]
      BY <1>4, <3>1 DEF StripStep
    <3>10. StripPaint[t] = [out |-> (a \o Lead(x)) \o Painted(x) \o y.out, pending |-> y.pending]
      BY <1>4, <2>3, <3>4, <3>7, <3>8 DEF StripStep
    <3>11. Painted(x) \in Seq(Tokens) /\ y.out \in Seq(Tokens)
      <4>1. After(x) \in Seq(Tokens)
        BY <3>1, AfterIsLess
      <4>2. y.out \in Seq(Tokens)
        BY <4>1, AllFilterWell DEF FiltersWell
      <4> QED
        BY <3>1, <4>2, PaintedKeeps
    <3> DEFINE u == Lead(x)
               v == Painted(x)
               w == y.out
               z == y.pending
    <3> HIDE DEF y, u, v, w, z
    <3>12. (a \o u) \o v = a \o (u \o v) /\ u \o v \in Seq(Tokens)
      BY ONLY <2>3, <3>11, a \in Seq(Tokens), ConcatAssociative DEF u, v
    <3>13. (a \o (u \o v)) \o w = a \o ((u \o v) \o w)
      <4>1. w \in Seq(Tokens)
        BY <3>11 DEF w
      <4> QED
        BY ONLY <3>12, <4>1, a \in Seq(Tokens), AssociativeTexts, Zenon
    <3>14. StripPaint[x] = [out |-> (u \o v) \o w, pending |-> z]
      BY <3>9 DEF u, v, w, z
    <3>15. StripPaint[t] = [out |-> ((a \o u) \o v) \o w, pending |-> z]
      BY <3>10 DEF u, v, w, z
    <3>16. StripPaint[x].out = (u \o v) \o w /\ StripPaint[x].pending = z
      BY ONLY <3>14
    <3>17. StripPaint[t] = [out |-> a \o StripPaint[x].out, pending |-> StripPaint[x].pending]
      BY ONLY <3>12, <3>13, <3>15, <3>16
    <3> QED
      BY ONLY <3>17 DEF t
  <2> QED
    BY <2>4, <2>5
<1> QED
  BY <1>8, <1>9 DEF t

(* A text that does not end in ESC: nothing begins across its end. *)
EndsWhole(s) == s = <<>> \/ s[Len(s)] # "ESC"

(* Filtering a text and then the rest with what was held back is filtering both as one. *)
GoesOn(s, c) ==
    LET r == StripPaint[s]
        f == StripPaint[r.pending \o c]
    IN  StripPaint[s \o c] = [out |-> r.out \o f.out, pending |-> f.pending]

LEMMA HeldGoesOn ==
    ASSUME NEW s \in Seq(Tokens), NEW c \in Seq(Tokens), EndsWhole(s), ~HasSequence(s)
    PROVE  GoesOn(s, c)
<1>1. StripPaint[s] = Held(s)
  BY StripPaintIs DEF StripStep
<1>2. \A k \in 1..(Len(s) - 1) : Begins(s \o c, k) <=> Begins(s, k)
  BY GrownStart
<1>3. Len(s) \in Nat
  OBVIOUS
<1>4. CASE CsiStart(s) = 0
  <2>1. StripPaint[s].out = s /\ StripPaint[s].pending = <<>>
    BY <1>1, <1>4 DEF Held
  <2>2. \A k \in 1..Len(s) : ~Begins(s, k)
    BY <1>4, CsiStartIs
  <2>3. ASSUME NEW k \in 1..Len(s) PROVE ~Begins(s \o c, k)
    <3>1. CASE k = Len(s)
      <4>1. s # <<>>
        BY <3>1
      <4>2. (s \o c)[k] = s[k] /\ s[k] # "ESC"
        BY <3>1, <4>1, PlacesOfTwo DEF EndsWhole
      <4> QED
        BY <4>2 DEF Begins
    <3>2. CASE k # Len(s)
      <4>1. k \in 1..(Len(s) - 1)
        BY <1>3, <3>2
      <4> QED
        BY <1>2, <2>2, <4>1
    <3> QED
      BY <3>1, <3>2
  <2>4. StripPaint[s \o c] = [out |-> s \o StripPaint[c].out, pending |-> StripPaint[c].pending]
    BY <2>3, PlainPrefix
  <2>5. <<>> \o c = c
    BY ConcatEmptySeq
  <2> QED
    BY ONLY <2>1, <2>4, <2>5 DEF GoesOn
<1>5. CASE CsiStart(s) # 0
  <2> DEFINE p == SubSeq(s, CsiStart(s), Len(s))
             a == Lead(s)
             i == CsiStart(s)
  <2>1. StripPaint[s].out = a /\ StripPaint[s].pending = p
    <3>1. Held(s) = [out |-> a, pending |-> p]
      BY <1>5 DEF Held
    <3> HIDE DEF a, p
    <3> QED
      BY ONLY <1>1, <3>1
  <2>2. a \in Seq(Tokens) /\ p \in Seq(Tokens) /\ s = a \o p /\ Len(a) = i - 1
    BY <1>5, HeldPieces
  <2>3. i \in 1..(Len(s) - 1) /\ \A k \in 1..(i - 1) : ~Begins(s, k)
    BY <1>5, CsiStartIs
  <2> HIDE DEF a, p, i
  <2>4. s \o c = a \o (p \o c) /\ p \o c \in Seq(Tokens)
    <3>1. p \o c \in Seq(Tokens)
      BY <2>2
    <3>2. (a \o p) \o c = a \o (p \o c)
      BY <2>2, AssociativeTexts
    <3> QED
      BY ONLY <2>2, <3>1, <3>2
  <2>5. ASSUME NEW k \in 1..Len(a) PROVE ~Begins(s \o c, k)
    <3>1. k \in 1..(i - 1)
      BY <2>2
    <3>2. k \in 1..(Len(s) - 1)
      BY <1>3, <2>3, <3>1
    <3> QED
      BY <1>2, <2>3, <3>1, <3>2
  <2> DEFINE x == p \o c
  <2>6. StripPaint[a \o x] = [out |-> a \o StripPaint[x].out, pending |-> StripPaint[x].pending]
    <3>1. \A k \in 1..Len(a) : ~Begins(a \o x, k)
      BY <2>4, <2>5
    <3>2. x \in Seq(Tokens)
      BY <2>4
    <3> HIDE DEF x
    <3> QED
      BY ONLY <2>2, <3>1, <3>2, PlainPrefix
  <2> QED
    BY ONLY <2>1, <2>4, <2>6 DEF GoesOn
<1> QED
  BY <1>4, <1>5

LEMMA StepGoesOn ==
    ASSUME NEW s \in Seq(Tokens), NEW c \in Seq(Tokens), HasSequence(s), GoesOn(After(s), c)
    PROVE  GoesOn(s, c)
<1> DEFINE u == Lead(s) \o Painted(s)
           r == StripPaint[After(s)]
           o == r.out
           h == r.pending
           f == StripPaint[h \o c]
           w == f.out
           z == f.pending
<1>1. StripPaint[s] = [out |-> u \o o, pending |-> h]
  BY StripPaintIs DEF StripStep
<1>2. StripPaint[After(s) \o c] = [out |-> o \o w, pending |-> z]
  BY DEF GoesOn
<1>3. StripPaint[s \o c] = [out |-> u \o StripPaint[After(s) \o c].out, pending |-> StripPaint[After(s) \o c].pending]
  <2>1. s \o c \in Seq(Tokens)
    BY PlacesOfTwo
  <2>2. StripPaint[s \o c] = StripStep(StripPaint, s \o c)
    BY <2>1, StripPaintIs
  <2>3. HasSequence(s \o c) /\ Lead(s \o c) = Lead(s) /\ Painted(s \o c) = Painted(s) /\ After(s \o c) = After(s) \o c
    BY GrownStep
  <2> QED
    BY ONLY <2>2, <2>3 DEF StripStep
<1>4. u \in Seq(Tokens) /\ o \in Seq(Tokens) /\ w \in Seq(Tokens)
  <2>1. Lead(s) \in Seq(Tokens) /\ Painted(s) \in Seq(Tokens) /\ After(s) \in Seq(Tokens)
    BY ThreePieces, PaintedKeeps
  <2>2. o \in Seq(Tokens) /\ h \in Seq(Tokens)
    BY <2>1, AllFilterWell DEF FiltersWell
  <2>3. h \o c \in Seq(Tokens)
    BY <2>2
  <2>4. w \in Seq(Tokens)
    BY <2>3, AllFilterWell DEF FiltersWell
  <2>5. u \in Seq(Tokens)
    BY <2>1
  <2> QED
    BY <2>2, <2>4, <2>5
<1> HIDE DEF u, o, w, z
<1>5. (u \o o) \o w = u \o (o \o w)
  BY <1>4, AssociativeTexts, SMTT(30)
<1>6. StripPaint[After(s) \o c].out = o \o w /\ StripPaint[After(s) \o c].pending = z
  BY ONLY <1>2
<1>7. StripPaint[s].out = u \o o /\ StripPaint[s].pending = h
  <2> HIDE DEF h
  <2> QED
    BY ONLY <1>1
<1>8. StripPaint[s \o c] = [out |-> (u \o o) \o w, pending |-> z]
  BY ONLY <1>3, <1>5, <1>6
<1>9. w = StripPaint[h \o c].out /\ z = StripPaint[h \o c].pending
  BY DEF w, z
<1> HIDE DEF h
<1> QED
  BY ONLY <1>7, <1>8, <1>9 DEF GoesOn

LEMMA AfterEndsWhole ==
    ASSUME NEW s \in Seq(Tokens), HasSequence(s), EndsWhole(s)
    PROVE  EndsWhole(After(s))
<1> DEFINE j == EndOf(s)
           n == Len(s)
           v == SubSeq(s, j + 1, n)
<1>1. j \in (CsiStart(s) + 2)..n /\ CsiStart(s) \in 1..(n - 1) /\ n \in Nat
  BY ThreePieces
<1>2. s # <<>>
  BY <1>1
<1>3. s[n] # "ESC"
  BY <1>2 DEF EndsWhole
<1>4. j \in 0..n
  BY <1>1
<1> HIDE DEF j
<1>5. Len(v) = n - j /\ \A k \in 1..(n - j) : v[k] = s[j + k]
  <2>1. v \in Seq(Tokens)
    BY <1>4, CutList
  <2> QED
    BY <1>4, CutList
<1>6. v \in Seq(Tokens)
  BY <1>4, CutList
<1> HIDE DEF v, n
<1>7. ASSUME v # <<>> PROVE v[Len(v)] = s[n]
  <2>1. n - j \in 1..(n - j) /\ j + (n - j) = n
    <3>1. Len(v) # 0
      BY <1>6, <1>7
    <3> QED
      BY <1>1, <1>4, <1>5, <3>1
  <2>2. v[n - j] = s[j + (n - j)]
    BY <1>5, <2>1
  <2> QED
    BY <1>5, <2>1, <2>2
<1>8. EndsWhole(v)
  BY <1>3, <1>7 DEF EndsWhole
<1> QED
  BY <1>8 DEF After, v, j, n

LEMMA AllGoOn ==
    \A s, c \in Seq(Tokens) : EndsWhole(s) => GoesOn(s, c)
<1> SUFFICES ASSUME NEW c \in Seq(Tokens) PROVE \A s \in Seq(Tokens) : EndsWhole(s) => GoesOn(s, c)
  OBVIOUS
<1> DEFINE T == {n \in Nat : \A s \in Seq(Tokens) : Len(s) <= n /\ EndsWhole(s) => GoesOn(s, c)}
<1>1. 0 \in T
  <2> SUFFICES ASSUME NEW s \in Seq(Tokens), Len(s) <= 0, EndsWhole(s) PROVE GoesOn(s, c)
    OBVIOUS
  <2>1. HasSequence(s) => Len(After(s)) < Len(s) /\ Len(After(s)) \in Nat
    BY AfterIsLess
  <2>2. ~HasSequence(s)
    BY <2>1
  <2> QED
    BY <2>2, HeldGoesOn
<1>2. ASSUME NEW n \in Nat, n \in T PROVE n + 1 \in T
  <2> SUFFICES ASSUME NEW s \in Seq(Tokens), Len(s) <= n + 1, EndsWhole(s) PROVE GoesOn(s, c)
    OBVIOUS
  <2>1. CASE HasSequence(s)
    <3>1. After(s) \in Seq(Tokens) /\ Len(After(s)) < Len(s) /\ Len(After(s)) \in Nat /\ Len(s) \in Nat
      BY <2>1, AfterIsLess
    <3>2. Len(After(s)) <= n
      BY <3>1
    <3>3. EndsWhole(After(s))
      BY <2>1, AfterEndsWhole
    <3>4. GoesOn(After(s), c)
      BY <1>2, <3>1, <3>2, <3>3
    <3> QED
      BY <2>1, <3>4, StepGoesOn
  <2>2. CASE ~HasSequence(s)
    BY <2>2, HeldGoesOn
  <2> QED
    BY <2>1, <2>2
<1>3. T \in SUBSET Nat
  OBVIOUS
<1>4. T = Nat
  <2> HIDE DEF T
  <2> QED
    BY <1>1, <1>2, <1>3, ByInduction
<1>5. \A s \in Seq(Tokens) : Len(s) \in Nat /\ Len(s) <= Len(s)
  OBVIOUS
<1> QED
  BY <1>4, <1>5

(* The invariant: everything that is no background is on the screen or held back, *)
(* and as long as no chunk ended in ESC and the background stayed on, the screen and *)
(* what is held back are what the filter makes of the whole stream. *)
FilteredSoFar ==
    ~cut => /\ screen = StripPaint[whole].out /\ pending = StripPaint[whole].pending
            /\ EndsWhole(whole)
PaintInv == PaintTypeOK /\ NothingSwallowed /\ FilteredSoFar

(* It holds at first, and no write and no switch of the background breaks it. *)
LEMMA PaintInitHolds == PaintInit => PaintInv
<1> SUFFICES ASSUME PaintInit PROVE PaintInv
  OBVIOUS
<1>1. whole = <<>> /\ screen = <<>> /\ pending = <<>> /\ active \in BOOLEAN /\ cut = FALSE
  BY DEF PaintInit
<1>2. <<>> \in Seq(Tokens) /\ <<>> \o <<>> = <<>> /\ Len(<<>>) = 0
  OBVIOUS
<1>3. PaintTypeOK
  BY <1>1, <1>2 DEF PaintTypeOK
<1>4. NothingSwallowed
  BY ONLY <1>1, <1>2 DEF NothingSwallowed
<1>5. FilteredSoFar
  <2>1. CsiStart(<<>>) = 0
    <3>1. \A k \in 1..Len(<<>>) : ~Begins(<<>>, k)
      BY <1>2
    <3> QED
      BY <1>2, <3>1, NoStartTold
  <2>2. StripPaint[<<>>] = StripStep(StripPaint, <<>>)
    BY <1>2, StripPaintIs
  <2>3. StripPaint[<<>>] = [out |-> <<>>, pending |-> <<>>]
    BY <2>1, <2>2 DEF StripStep, HasSequence, Held
  <2>4. StripPaint[<<>>].out = <<>> /\ StripPaint[<<>>].pending = <<>>
    BY <2>3
  <2> QED
    BY ONLY <1>1, <2>4 DEF FilteredSoFar, EndsWhole
<1> QED
  BY <1>3, <1>4, <1>5 DEF PaintInv

LEMMA WriteKeeps ==
    ASSUME PaintInv, NEW c \in SeqOf(Tokens, MaxChunk) \ {<<>>}, WriteTerminal(c)
    PROVE  PaintInv'
<1>1. /\ whole \in Seq(Tokens) /\ screen \in Seq(Tokens) /\ pending \in Seq(Tokens)
      /\ active \in BOOLEAN /\ cut \in BOOLEAN /\ (pending # <<>> => active)
  BY DEF PaintInv, PaintTypeOK
<1>2. c \in Seq(Tokens) /\ c # <<>> /\ Len(c) \in Nat /\ Len(c) >= 1
  <2>1. PICK m \in 0..MaxChunk : c \in [1..m -> Tokens]
    BY DEF SeqOf
  <2>2. m \in Nat
    BY PaintAssumption
  <2>3. c \in Seq(Tokens)
    BY <2>1, <2>2
  <2>4. c # <<>>
    OBVIOUS
  <2>5. Len(c) \in Nat /\ (Len(c) = 0 => c = <<>>)
    BY ONLY <2>3
  <2> QED
    BY <2>3, <2>4, <2>5
<1>3. /\ whole' = whole \o c /\ active' = active
      /\ cut' = (cut \/ ~active \/ c[Len(c)] = "ESC")
      /\ active => /\ screen' = screen \o StripPaint[pending \o c].out
                   /\ pending' = StripPaint[pending \o c].pending
      /\ ~active => screen' = screen \o (pending \o c) /\ pending' = <<>>
  <2>1. /\ whole' = whole \o c /\ active' = active /\ cut' = (cut \/ ~active \/ Last(c) = "ESC")
    BY DEF WriteTerminal
  <2>2. active => /\ screen' = screen \o StripPaint[pending \o c].out
                  /\ pending' = StripPaint[pending \o c].pending
    BY DEF WriteTerminal, StripTransparentBackgroundPaint
  <2>3. ~active => screen' = screen \o (pending \o c) /\ pending' = <<>>
    BY DEF WriteTerminal
  <2>4. Last(c) = c[Len(c)]
    BY DEF Last
  <2> QED
    BY ONLY <2>1, <2>2, <2>3, <2>4
<1>4. pending \o c \in Seq(Tokens) /\ whole \o c \in Seq(Tokens) /\ Len(whole) \in Nat
  BY <1>1, <1>2
<1>5. FiltersWell(pending \o c)
  BY <1>4, AllFilterWell
<1>6. Only(screen \o pending, Content) = Only(whole, Content)
  BY DEF PaintInv, NothingSwallowed, Content
<1>7. EndsWhole(whole \o c) <=> c[Len(c)] # "ESC"
  <2>1. Len(whole \o c) = Len(whole) + Len(c) /\ (whole \o c)[Len(whole) + Len(c)] = c[Len(c)]
    BY <1>1, <1>2, PlacesOfTwo
  <2>2. whole \o c # <<>>
    <3>1. Len(whole \o c) # 0
      BY <1>2, <1>4, <2>1
    <3> QED
      BY ONLY <3>1, Len(<<>>) = 0
  <2> QED
    BY ONLY <2>1, <2>2 DEF EndsWhole
<1>8. ASSUME active PROVE PaintInv'
  <2> DEFINE o == StripPaint[pending \o c].out
             h == StripPaint[pending \o c].pending
  <2>1. /\ o \in Seq(Tokens) /\ h \in Seq(Tokens) /\ (h # <<>> => Unfinished(h))
        /\ Only(pending \o c, Content) = Only(o, Content) \o Only(h, Content)
    BY <1>5 DEF FiltersWell
  <2>2. screen' = screen \o o /\ pending' = h
    BY <1>3, <1>8
  <2> HIDE DEF o, h
  <2>3. PaintTypeOK'
    <3>1. whole' \in Seq(Tokens) /\ screen' \in Seq(Tokens) /\ pending' \in Seq(Tokens)
      BY <1>1, <1>3, <1>4, <2>1, <2>2
    <3>2. active' \in BOOLEAN /\ cut' \in BOOLEAN
      BY <1>1, <1>3
    <3>3. pending' # <<>> => active' /\ CsiStart(pending') = 1 /\ FindCsiEnd(pending', 1) = 0
      BY ONLY <1>3, <1>8, <2>1, <2>2 DEF Unfinished
    <3> QED
      BY ONLY <3>1, <3>2, <3>3 DEF PaintTypeOK, CsiStart, FindCsiEnd, LeastOr0
  <2>4. NothingSwallowed'
    <3>1. Only((screen \o o) \o h, Content) = Only(whole \o c, Content)
      <4>1. /\ whole \in Seq(Tokens) /\ screen \in Seq(Tokens) /\ pending \in Seq(Tokens) /\ c \in Seq(Tokens)
            /\ o \in Seq(Tokens) /\ h \in Seq(Tokens)
        BY <1>1, <1>2, <2>1
      <4> DEFINE ks == Only(screen, Content)
                 kp == Only(pending, Content)
                 kc == Only(c, Content)
                 ko == Only(o, Content)
                 kh == Only(h, Content)
      <4>2. screen \o o \in Seq(Tokens)
        BY ONLY <4>1
      <4>3. /\ ks \in Seq(Tokens) /\ kp \in Seq(Tokens) /\ kc \in Seq(Tokens)
            /\ ko \in Seq(Tokens) /\ kh \in Seq(Tokens)
        BY ONLY <4>1, OnlyKeeps
      <4>4. /\ Only(screen \o pending, Content) = ks \o kp /\ Only(pending \o c, Content) = kp \o kc
            /\ Only(screen \o o, Content) = ks \o ko /\ Only(whole \o c, Content) = Only(whole, Content) \o kc
        BY ONLY <4>1, ContentOfConcat, Zenon
      <4>5. Only((screen \o o) \o h, Content) = Only(screen \o o, Content) \o kh
        BY ONLY <4>1, <4>2, ContentOfConcat, Zenon
      <4>6. Only(screen \o pending, Content) = Only(whole, Content) /\ Only(pending \o c, Content) = ko \o kh
        BY <1>6, <2>1
      <4> HIDE DEF ks, kp, kc, ko, kh
      <4>7. (ks \o ko) \o kh = ks \o (ko \o kh)
        <5>1. ks \in Seq(Tokens) /\ ko \in Seq(Tokens)
          BY ONLY <4>3
        <5>2. kh \in Seq(Tokens)
          BY ONLY <4>3
        <5> QED
          BY ONLY <5>1, <5>2, AssociativeTexts, ZenonT(40)
      <4>8. (ks \o kp) \o kc = ks \o (kp \o kc)
        BY ONLY <4>3, AssociativeTexts, ZenonT(40)
      <4> QED
        BY ONLY <4>4, <4>5, <4>6, <4>7, <4>8
    <3> QED
      BY ONLY <1>3, <2>2, <3>1 DEF NothingSwallowed, Content
  <2>5. FilteredSoFar'
    <3> SUFFICES ASSUME ~cut' PROVE /\ screen' = StripPaint[whole'].out /\ pending' = StripPaint[whole'].pending
                                    /\ EndsWhole(whole')
      BY DEF FilteredSoFar, EndsWhole
    <3>1. ~cut /\ c[Len(c)] # "ESC"
      BY <1>3
    <3>2. screen = StripPaint[whole].out /\ pending = StripPaint[whole].pending /\ EndsWhole(whole)
      BY <3>1 DEF PaintInv, FilteredSoFar
    <3>3. GoesOn(whole, c)
      BY <1>1, <1>2, <3>2, AllGoOn
    <3>4. StripPaint[whole \o c] = [out |-> screen \o o, pending |-> h]
      BY ONLY <3>2, <3>3 DEF GoesOn, o, h
    <3>5. StripPaint[whole \o c].out = screen \o o /\ StripPaint[whole \o c].pending = h
      BY ONLY <3>4
    <3> QED
      BY ONLY <1>3, <1>7, <2>2, <3>1, <3>5
  <2> QED
    BY <2>3, <2>4, <2>5 DEF PaintInv
<1>9. ASSUME ~active PROVE PaintInv'
  <2>1. pending = <<>>
    BY <1>1, <1>9
  <2>2. <<>> \o c = c /\ screen \o <<>> = screen /\ (screen \o c) \o <<>> = screen \o c /\ screen \o c \in Seq(Tokens)
    BY <1>1, <1>2
  <2>3. screen' = screen \o c /\ pending' = <<>> /\ cut'
    BY <1>3, <1>9, <2>1, <2>2
  <2>4. PaintTypeOK'
    BY <1>1, <1>3, <1>4, <2>2, <2>3 DEF PaintTypeOK
  <2>5. NothingSwallowed'
    <3>1. Only(screen \o c, Content) = Only(screen, Content) \o Only(c, Content)
      BY <1>1, <1>2, ContentOfConcat
    <3>2. Only(whole \o c, Content) = Only(whole, Content) \o Only(c, Content)
      BY <1>1, <1>2, ContentOfConcat
    <3>3. Only(screen, Content) = Only(whole, Content)
      BY ONLY <1>6, <2>1, <2>2
    <3> QED
      BY ONLY <1>3, <2>2, <2>3, <3>1, <3>2, <3>3 DEF NothingSwallowed, Content
  <2>6. FilteredSoFar'
    BY <2>3 DEF FilteredSoFar
  <2> QED
    BY <2>4, <2>5, <2>6 DEF PaintInv
<1> QED
  BY <1>8, <1>9

LEMMA SetKeeps ==
    ASSUME PaintInv, NEW on \in BOOLEAN, SetBackground(on)
    PROVE  PaintInv'
<1>1. /\ whole \in Seq(Tokens) /\ screen \in Seq(Tokens) /\ pending \in Seq(Tokens)
      /\ active \in BOOLEAN /\ cut \in BOOLEAN /\ (pending # <<>> => active)
      /\ pending # <<>> => CsiStart(pending) = 1 /\ FindCsiEnd(pending, 1) = 0
  BY DEF PaintInv, PaintTypeOK
<1>2. /\ screen' = (IF on THEN screen ELSE screen \o pending) /\ pending' = (IF on THEN pending ELSE <<>>)
      /\ active' = on /\ cut' = (cut \/ on # active) /\ whole' = whole
  BY DEF SetBackground, HeldAfter, FlushTransparentBackgroundPaint
<1>3. screen \o pending \in Seq(Tokens) /\ (screen \o pending) \o <<>> = screen \o pending /\ screen \o <<>> = screen
  BY <1>1
<1>4. PaintTypeOK'
  <2>1. whole' \in Seq(Tokens) /\ screen' \in Seq(Tokens) /\ pending' \in Seq(Tokens)
    BY <1>1, <1>2, <1>3
  <2>2. active' \in BOOLEAN /\ cut' \in BOOLEAN
    BY <1>1, <1>2
  <2>3. pending' # <<>> => active' /\ CsiStart(pending') = 1 /\ FindCsiEnd(pending', 1) = 0
    BY <1>1, <1>2
  <2> QED
    BY ONLY <2>1, <2>2, <2>3 DEF PaintTypeOK, CsiStart, FindCsiEnd, LeastOr0
<1>5. NothingSwallowed'
  <2>1. Only(screen \o pending, Content) = Only(whole, Content)
    BY DEF PaintInv, NothingSwallowed, Content
  <2>2. screen' \o pending' = screen \o pending
    BY <1>2, <1>3
  <2> QED
    BY ONLY <1>2, <2>1, <2>2 DEF NothingSwallowed, Content
<1>6. FilteredSoFar'
  <2> SUFFICES ASSUME ~cut' PROVE /\ screen' = StripPaint[whole'].out /\ pending' = StripPaint[whole'].pending
                                  /\ EndsWhole(whole')
    BY DEF FilteredSoFar, EndsWhole
  <2>1. ~cut /\ on = active
    BY <1>2
  <2>2. screen = StripPaint[whole].out /\ pending = StripPaint[whole].pending /\ EndsWhole(whole)
    BY <2>1 DEF PaintInv, FilteredSoFar
  <2>3. screen' = screen /\ pending' = pending
    BY <1>1, <1>2, <1>3, <2>1
  <2> QED
    BY ONLY <1>2, <2>2, <2>3
<1> QED
  BY <1>4, <1>5, <1>6 DEF PaintInv

LEMMA PaintInductive == PaintSpec => []PaintInv
<1>1. PaintInit => PaintInv
  BY PaintInitHolds
<1>2. PaintInv /\ [PaintNext]_paintVars => PaintInv'
  <2> SUFFICES ASSUME PaintInv, [PaintNext]_paintVars PROVE PaintInv'
    OBVIOUS
  <2>1. CASE PaintNext
    <3>1. CASE \E c \in SeqOf(Tokens, MaxChunk) \ {<<>>} : WriteTerminal(c)
      BY <3>1, WriteKeeps
    <3>2. CASE \E on \in BOOLEAN : SetBackground(on)
      BY <3>2, SetKeeps
    <3> QED
      BY <2>1, <3>1, <3>2 DEF PaintNext
  <2>2. CASE UNCHANGED paintVars
    BY <2>2 DEF PaintInv, PaintTypeOK, NothingSwallowed, FilteredSoFar, EndsWhole, CsiStart, FindCsiEnd,
                LeastOr0, paintVars
  <2> QED
    BY <2>1, <2>2
<1> QED
  BY <1>1, <1>2, PTL DEF PaintSpec

(* What a terminal holds back is one unfinished control sequence, and only while the *)
(* filter is on (lib/ansi.js:28-36). *)
THEOREM PaintTypeCorrect == PaintSpec => []PaintTypeOK
<1>1. PaintInv => PaintTypeOK
  BY DEF PaintInv
<1> QED
  BY <1>1, PaintInductive, PTL

(* Wherever the output is cut and however often the background is switched, the screen *)
(* gets all of it but background paints, once and in order; without a switch or a cut *)
(* after ESC it gets what filtering the stream at once gives (lib/ansi.js:21-57, *)
(* terminal.js writeTerminal and setBackground). *)
THEOREM AlwaysPaintsTheStream == PaintSpec => []PaintsTheStream
<1>1. PaintInv => PaintsTheStream
  BY DEF PaintInv, PaintsTheStream, ChunksFilterAsOne, FilteredSoFar
<1> QED
  BY <1>1, PaintInductive, PTL

-----------------------------------------------------------------------------
(* The four parts together. *)

(* A step of the page is a step of one part, and the others stay. *)
LEMMA WorkspaceParts == WorkspaceSpec => TabsSpec /\ WorkSpec /\ TermSpec /\ PaintSpec
<1> DEFINE all == <<subject, tabVars, workVars, termVars, paintVars>>
<1>1. WorkspaceInit => TabsInit /\ WorkInit /\ TermInit /\ PaintInit
  BY DEF WorkspaceInit
<1>2. [WorkspaceNext]_all => [TabsNext]_tabVars
  BY DEF WorkspaceNext
<1>3. [WorkspaceNext]_all => [WorkNext]_workVars
  BY DEF WorkspaceNext
<1>4. [WorkspaceNext]_all => [TermNext]_termVars
  BY DEF WorkspaceNext
<1>5. [WorkspaceNext]_all => [PaintNext]_paintVars
  BY DEF WorkspaceNext
<1> QED
  BY <1>1, <1>2, <1>3, <1>4, <1>5, PTL DEF WorkspaceSpec, TabsSpec, WorkSpec, TermSpec, PaintSpec

(* What the runs check of the page holds of it for every value of the constants: *)
(* its type invariant (app_tabs.ex, work_areas.ex, terminal.js, lib/ansi.js) ... *)
THEOREM WorkspaceTypeCorrect == WorkspaceSpec => []WorkspaceTypeOK
<1>1. TabsTypeOK /\ WorkTypeOK /\ TermTypeOK /\ PaintTypeOK => WorkspaceTypeOK
  BY DEF WorkspaceTypeOK
<1> QED
  BY <1>1, WorkspaceParts, TabsTypeCorrect, WorkTypeCorrect, TermTypeCorrect, PaintTypeCorrect, PTL

(* ... and everything else. *)
THEOREM WorkspaceCorrect ==
    WorkspaceSpec => /\ [](LayoutKeepsPages /\ PagesAndShellsFollow /\ ClosedShellsEnd /\ PaintsTheStream)
                     /\ RequestsEndAsTold /\ DragsApplyToWhatWasShown
BY WorkspaceParts, LayoutAlwaysKeepsPages, PagesAndShellsAlwaysFollow, ClosedShellsAlwaysEnd,
   AlwaysPaintsTheStream, RequestsAlwaysEndAsTold, DragsAlwaysApply, PTL
=============================================================================
