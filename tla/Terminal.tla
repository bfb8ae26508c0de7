------------------------------ MODULE Terminal ------------------------------
(* One keyed terminal: the view that is mounted, unmounted and mounted     *)
(* again (hooks/terminal.js), the shells behind it (terminal.rs) and the   *)
(* session id kept in localStorage under the view's session key.           *)
(*                                                                         *)
(* mounted() awaits the fonts, the shell and two listeners; the page may   *)
(* unmount the view, close its session or load anew at each of them, and   *)
(* the shell may exit.  An await is a value of "at": the step that runs    *)
(* when the promise resolves.                                              *)
EXTENDS Naturals, FiniteSets

CONSTANTS
    Views,      \* the mounts of the view, each used once
    Shells,     \* the shells the backend can start
    NoShell

ASSUME NoShellAssumption == NoShell \notin Shells

VARIABLES
    view,       \* what each mount has reached
    shell,      \* each shell's process
    stored,     \* localStorage["bc:term:<key>"]
    typed       \* how often the startup command was typed into a shell
termVars == <<view, shell, stored, typed>>

Awaits == {"fonts", "attach", "attached", "open", "opened", "closing", "data", "exit", "startup"}
View == [at : Awaits \cup {"absent", "ready", "over", "error", "unloaded"}, id : Shells \cup {NoShell},
         answer : Shells \cup {NoShell}, fresh : BOOLEAN, hears : SUBSET {"data", "exit"},
         disposed : BOOLEAN, closed : BOOLEAN]
Unmounted == [at |-> "absent", id |-> NoShell, answer |-> NoShell, fresh |-> FALSE,
              hears |-> {}, disposed |-> FALSE, closed |-> FALSE]

AtRest == {"over", "ready", "error"}

\* The type invariant.  The startup command reaches a shell at most once, however often
\* the view is mounted again on it (hooks/terminal.js:159), and an unmounted view keeps
\* no listener once its continuations have run (hooks/terminal.js:172-176 and 312-313).
TermTypeOK ==
    /\ view \in [Views -> View]
    /\ shell \in [Shells -> {"absent", "live", "exiting", "gone"}]
    /\ stored \in Shells \cup {NoShell}
    /\ typed \in [Shells -> 0..1]
    /\ \A v \in Views : view[v].disposed /\ view[v].at \in AtRest => view[v].hears = {}

TermInit ==
    /\ view = [v \in Views |-> Unmounted]
    /\ shell = [s \in Shells |-> "absent"]
    /\ stored = NoShell
    /\ typed = [s \in Shells |-> 0]

OnPage(v) == view[v].at # "absent" /\ ~view[v].disposed
Stopped(v) == view[v].disposed \/ view[v].closed
Goto(v, step) == view' = [view EXCEPT ![v].at = step]
Alive(s) == s # NoShell /\ shell[s] = "live"

\* terminal_close: an id the map no longer has is ignored.
Kill(s) == shell' = IF Alive(s) THEN [shell EXCEPT ![s] = "gone"] ELSE shell

-----------------------------------------------------------------------------
(* mounted(), await by await.                                              *)

Mount(v) ==
    /\ view[v].at = "absent"
    /\ \A w \in Views : ~OnPage(w)
    /\ Goto(v, "fonts")
    /\ UNCHANGED <<shell, stored, typed>>

\* The fonts are there or 600 ms have passed.  A stored id is tried first.
FontsReady(v) ==
    /\ view[v].at = "fonts"
    /\ view' = [view EXCEPT ![v].at = IF Stopped(v) THEN "over"
                                      ELSE IF stored # NoShell THEN "attach" ELSE "open",
                            ![v].answer = IF Stopped(v) THEN NoShell ELSE stored]
    /\ UNCHANGED <<shell, stored, typed>>

\* terminal_attach: a shell whose exit was emitted is in the map until the
\* reader thread removes it.
Attach(v) ==
    /\ view[v].at = "attach"
    /\ view' = [view EXCEPT ![v].at = "attached",
                            ![v].answer = IF shell[@] \in {"live", "exiting"} THEN @ ELSE NoShell]
    /\ UNCHANGED <<shell, stored, typed>>

\* terminal_open, which may fail.
Open(v) ==
    /\ view[v].at = "open"
    /\ \/ \E s \in Shells : /\ shell[s] = "absent"
                            /\ shell' = [shell EXCEPT ![s] = "live"]
                            /\ view' = [view EXCEPT ![v].at = "opened", ![v].answer = s]
       \/ Goto(v, "error") /\ UNCHANGED shell
    /\ UNCHANGED <<stored, typed>>

\* abortMount: a view that was unmounted or whose session was closed lets its
\* listeners go, and in the second case ends the shell it had just got.
AbortMountKeepsShell(v, id, onward) == IF Stopped(v) THEN "over" ELSE onward        \* mutant: no close
AbortMount(v, id, onward) ==
    IF ~Stopped(v) THEN onward ELSE IF view[v].closed /\ id # NoShell THEN "closing" ELSE "over"

Attached(v) ==
    /\ view[v].at = "attached"
    /\ LET s == view[v].answer IN
       view' = [view EXCEPT ![v].id = s,
                            ![v].at = IF s = NoShell THEN "open" ELSE AbortMount(v, s, "data")]
    /\ UNCHANGED <<shell, stored, typed>>

Opened(v) ==
    /\ view[v].at = "opened"
    /\ LET s == view[v].answer IN
       /\ view' = [view EXCEPT ![v].id = s, ![v].fresh = TRUE, ![v].at = AbortMount(v, s, "data")]
       /\ stored' = s
    /\ UNCHANGED <<shell, typed>>

ListenData(v) ==
    /\ view[v].at = "data"
    /\ view' = [view EXCEPT ![v].at = "exit", ![v].hears = {"data"}]
    /\ UNCHANGED <<shell, stored, typed>>

HearsAnyway(v) == {"data", "exit"}                                             \* mutant: no unlisten
HearsUnlessStopped(v) == IF Stopped(v) THEN {} ELSE {"data", "exit"}

\* The second listener, then abortMount again; then the startup command is
\* due in a shell this mount opened.
ListenExit(v) ==
    /\ view[v].at = "exit"
    /\ LET onward == IF view[v].fresh /\ view[v].id # NoShell THEN "startup" ELSE "ready" IN
       view' = [view EXCEPT ![v].at = AbortMount(v, view[v].id, onward),
                            ![v].hears = HearsUnlessStopped(v)]
    /\ UNCHANGED <<shell, stored, typed>>

AbortClose(v) ==
    /\ view[v].at = "closing"
    /\ Kill(view[v].id)
    /\ view' = [view EXCEPT ![v].at = "over", ![v].id = NoShell]
    /\ stored' = NoShell
    /\ UNCHANGED typed

\* 250 ms later the command is typed into whatever id the view holds then; a
\* shell that is gone refuses the input.
StartupEverywhere(v) == view[v].at \in {"startup", "ready"}                            \* mutant: on attach too
StartupDue(v) == view[v].at = "startup"

RunStartupCommand(v) ==
    /\ StartupDue(v)
    /\ LET s == view[v].id IN
       IF Alive(s)
       THEN Goto(v, "ready") /\ typed' = [typed EXCEPT ![s] = @ + 1]
       ELSE Goto(v, "error") /\ UNCHANGED typed
    /\ UNCHANGED <<shell, stored>>

-----------------------------------------------------------------------------
(* What happens to the view and its shell meanwhile.                       *)

\* destroyed(): listeners go, the keyed shell stays.
Destroyed(v) ==
    /\ OnPage(v)
    /\ view' = [view EXCEPT ![v].disposed = TRUE, ![v].hears = {}]
    /\ UNCHANGED <<shell, stored, typed>>

\* A full page load: the pending continuations never run, and a shell that is
\* being opened is opened all the same.
PageLoad ==
    /\ \E v \in Views : OnPage(v)
    /\ view' = [v \in Views |-> IF view[v].at = "absent" THEN view[v]
                                ELSE [view[v] EXCEPT !.at = "unloaded", !.disposed = TRUE, !.hears = {}]]
    /\ UNCHANGED <<shell, stored, typed>>

\* closeSession(): called by the work area on a pane that is on the page.
CloseSession(v) ==
    /\ OnPage(v) /\ ~view[v].closed
    /\ view' = [view EXCEPT ![v].closed = TRUE, ![v].id = NoShell]
    /\ Kill(IF view[v].id # NoShell THEN view[v].id ELSE stored)
    /\ stored' = NoShell
    /\ UNCHANGED typed

\* The shell ends: the exit is emitted to whoever listens, and the entry is
\* removed afterwards.
ShellExits(s) ==
    /\ shell[s] = "live"
    /\ shell' = [shell EXCEPT ![s] = "exiting"]
    /\ LET heard == {v \in Views : "exit" \in view[v].hears /\ view[v].id = s} IN
       /\ view' = [v \in Views |-> IF v \in heard THEN [view[v] EXCEPT !.id = NoShell] ELSE view[v]]
       /\ stored' = IF heard = {} THEN stored ELSE NoShell
    /\ UNCHANGED typed

Reap(s) ==
    /\ shell[s] = "exiting"
    /\ shell' = [shell EXCEPT ![s] = "gone"]
    /\ UNCHANGED <<view, stored, typed>>

MountStep(v) ==
    \/ FontsReady(v) \/ Attach(v) \/ Attached(v) \/ Open(v) \/ Opened(v)
    \/ ListenData(v) \/ ListenExit(v) \/ AbortClose(v) \/ RunStartupCommand(v)

TermNext ==
    \/ \E v \in Views : MountStep(v) \/ Mount(v) \/ Destroyed(v) \/ CloseSession(v)
    \/ \E s \in Shells : ShellExits(s) \/ Reap(s)
    \/ PageLoad

TermSpec == TermInit /\ [][TermNext]_termVars

-----------------------------------------------------------------------------
(* Properties.                                                             *)

\* Closing a session ends its shell whatever the mount was waiting for: once
\* the continuations of a closed view have run, no shell it got is alive.
ClosedShellsEnd ==
    \A v \in Views : view[v].closed /\ view[v].at \in AtRest
                        => ~Alive(view[v].answer)
=============================================================================
