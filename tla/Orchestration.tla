---------------------------- MODULE Orchestration ----------------------------
(***************************************************************************)
(* Shifts, the kill switch, the shift's specialist assignments, and the    *)
(* ticker that watches them: BusterClaw.Orchestration, Duty, the shift_*   *)
(* commands and the Orchestrator process.                                  *)
(*                                                                         *)
(* Nothing here is a transaction.  Operators (a LiveView, a CLI request),  *)
(* the ticker and the pump all call the same functions, and each function  *)
(* is several database statements and file operations: call[p] says how    *)
(* far p has got and what it has read.                                     *)
(***************************************************************************)
EXTENDS Naturals, FiniteSets

CONSTANTS
    Shifts,         \* rows the shifts table may come to hold, in order of id
    Assignments,    \* rows of shift_assignments
    Keys,           \* what makes two assignments duplicates (dedupe_key, or role_key)
    Modes,          \* what unattended may be in a shift_start
    Operators,      \* processes that start, stop and staff shifts
    Ticker,         \* the Orchestrator
    Pump,           \* the Dispatcher, which stops a shift that is over budget
    NoShift,
    MaxFailures,    \* max_consecutive_failures of the Orchestrator
    MaxRestarts     \* bound: how often the application restarts

Procs == Operators \cup {Ticker, Pump}

ASSUME ShiftsAssumption ==
    Shifts \subseteq Nat /\ IsFiniteSet(Shifts) /\ NoShift \notin Shifts \cup Operators
ASSUME ProcsAssumption  == Ticker \notin Operators /\ Pump \notin Operators /\ Ticker # Pump
ASSUME BoundsAssumption == MaxFailures \in Nat \ {0} /\ MaxRestarts \in Nat /\ Modes \subseteq BOOLEAN

VARIABLES
    shift,          \* the shifts table
    assignment,     \* the shift_assignments table
    stop,           \* the STOP file is there
    call,           \* what each process is in the middle of
    failures,       \* consecutive_failures of the Orchestrator
    restarts        \* application restarts so far

shiftVars == <<shift, assignment, stop, call, failures, restarts>>

\* starter is history: the process whose shift_start made the row.
ShiftRow == [status : {"absent", "active", "completed", "stopped"},
             unattended : BOOLEAN, at : Nat, starter : Operators \cup {NoShift}]
AssignmentRow == [status : {"absent", "active", "stopped", "blocked"},
                  shift : Shifts \cup {NoShift}, key : Keys \cup {NoShift}]

\* stop: stop_shift is about to look for the active shift; stopping: it has
\* found call[p].shift.  cleared, superseding: inside shift_start.  staffing,
\* inserting: inside start_shift_assignment.
Steps == {"idle", "stop", "stopping", "cleared", "superseding", "staffing", "inserting"}
Call  == [step : Steps, shift : Shifts \cup {NoShift}, left : SUBSET Shifts,
          unattended : BOOLEAN, key : Keys \cup {NoShift}]

ShiftTypeOK ==
    /\ shift \in [Shifts -> ShiftRow]
    /\ assignment \in [Assignments -> AssignmentRow]
    /\ stop \in BOOLEAN
    /\ call \in [Procs -> Call]
    /\ failures \in 0..(MaxFailures - 1)
    /\ restarts \in 0..MaxRestarts

NewShift(s)  == shift[s].status = "absent"
Active       == {s \in Shifts : shift[s].status = "active"}

\* active_shift orders by started_at, which has a resolution of one second:
\* among active shifts of the same second any may come first.
ActiveShift  == {s \in Active : \A t \in Active : shift[t].at <= shift[s].at}
Staff(s)     == {a \in Assignments : assignment[a].status = "active" /\ assignment[a].shift = s}

IdleCall     == [step |-> "idle", shift |-> NoShift, left |-> {}, unattended |-> FALSE,
                 key |-> NoShift]
Idle(p)      == call[p].step = "idle"
Goto(p, s)   == call' = [call EXCEPT ![p].step = s]
Return(p)    == call' = [call EXCEPT ![p] = IdleCall]
Starting     == {p \in Procs : call[p].step \in {"cleared", "superseding"}}

ShiftInit ==
    /\ shift = [s \in Shifts |-> [status |-> "absent", unattended |-> FALSE, at |-> 0,
                                  starter |-> NoShift]]
    /\ assignment = [a \in Assignments |-> [status |-> "absent", shift |-> NoShift,
                                            key |-> NoShift]]
    /\ stop = FALSE
    /\ call = [p \in Procs |-> IdleCall]
    /\ failures = 0
    /\ restarts = 0

-----------------------------------------------------------------------------
(* set_shift_status: the row it was handed is updated by id, and then the  *)
(* shift's active assignments are stopped.                                 *)
SetShiftStatus(s, status) ==
    /\ shift' = [shift EXCEPT ![s].status = status]
    /\ assignment' = [a \in Assignments |->
          IF a \in Staff(s) THEN [assignment[a] EXCEPT !.status = "stopped"] ELSE assignment[a]]

(* stop_shift: look for the active shift ...                               *)
StopRead(p) ==
    /\ call[p].step = "stop"
    /\ IF Active = {}
       THEN Return(p)
       ELSE \E s \in ActiveShift :
               call' = [call EXCEPT ![p].step = "stopping", ![p].shift = s]
    /\ UNCHANGED <<shift, assignment, stop, failures, restarts>>

(* ... and end it.                                                         *)
StopWrite(p) ==
    /\ call[p].step = "stopping"
    /\ SetShiftStatus(call[p].shift, "stopped")
    /\ Return(p)
    /\ UNCHANGED <<stop, failures, restarts>>

(* shift_stop, the command that does not latch.                            *)
ShiftStop(p) ==
    /\ Idle(p)
    /\ Goto(p, "stop")
    /\ UNCHANGED <<shift, assignment, stop, failures, restarts>>

(* stand_down: engage the STOP file, then stop_shift.                      *)
StandDown(p) ==
    /\ Idle(p)
    /\ stop' = TRUE
    /\ Goto(p, "stop")
    /\ UNCHANGED <<shift, assignment, failures, restarts>>

(* The kill switch is a file: somebody may create it by hand.              *)
TouchStop ==
    /\ ~stop
    /\ stop' = TRUE
    /\ UNCHANGED <<shift, assignment, call, failures, restarts>>

(* shift_start and go_on_duty: clear the STOP file, then start_shift.  A   *)
(* start is not begun unless a row is left for it.                         *)
ClearKillSwitch(p, unattended) ==
    /\ Idle(p)
    /\ Cardinality(Starting) < Cardinality({s \in Shifts : NewShift(s)})
    /\ stop' = FALSE
    /\ call' = [call EXCEPT ![p].step = "cleared", ![p].unattended = unattended]
    /\ UNCHANGED <<shift, assignment, failures, restarts>>

(* start_shift: read every active shift ...                                *)
SupersededNone == {}                            \* mutant: nothing is completed
Superseded == Active

ReadActives(p) ==
    /\ call[p].step = "cleared"
    /\ call' = [call EXCEPT ![p].step = "superseding", ![p].left = Superseded]
    /\ UNCHANGED <<shift, assignment, stop, failures, restarts>>

(* ... complete them one by one ...                                        *)
Supersede(p) ==
    /\ call[p].step = "superseding"
    /\ \E s \in call[p].left :
          /\ SetShiftStatus(s, "completed")
          /\ call' = [call EXCEPT ![p].left = @ \ {s}]
    /\ UNCHANGED <<stop, failures, restarts>>

(* ... and insert the new one, in the second of the latest shift or in a   *)
(* later one.                                                              *)
InsertShift(p) ==
    /\ call[p].step = "superseding"
    /\ call[p].left = {}
    /\ \E s \in Shifts, n \in 0..Cardinality(Shifts) :
          /\ NewShift(s) /\ \A t \in Shifts : NewShift(t) => s <= t
          /\ \A t \in Shifts : shift[t].at <= n
          /\ \E t \in Shifts : n <= shift[t].at + 1
          /\ shift' = [shift EXCEPT ![s] = [status |-> "active", at |-> n, starter |-> p,
                                            unattended |-> call[p].unattended]]
    /\ Return(p)
    /\ UNCHANGED <<assignment, stop, failures, restarts>>

-----------------------------------------------------------------------------
(* start_shift_assignment: read the active shift ...                       *)
StaffRead(p, k) ==
    /\ Idle(p)
    /\ \E a \in Assignments : assignment[a].status = "absent"
    /\ \E s \in ActiveShift :
          call' = [call EXCEPT ![p].step = "staffing", ![p].shift = s, ![p].key = k]
    /\ UNCHANGED <<shift, assignment, stop, failures, restarts>>

(* ... stop the assignments the new one duplicates ...                     *)
Duplicates(s, k) == {a \in Staff(s) : assignment[a].key = k}

StopDuplicates(p) ==
    /\ call[p].step = "staffing"
    /\ assignment' = [a \in Assignments |->
          IF a \in Duplicates(call[p].shift, call[p].key)
          THEN [assignment[a] EXCEPT !.status = "stopped"] ELSE assignment[a]]
    /\ Goto(p, "inserting")
    /\ UNCHANGED <<shift, stop, failures, restarts>>

(* ... and insert it.  With the table's bound reached it is not modelled   *)
(* further.                                                                *)
InsertAssignment(p) ==
    /\ call[p].step = "inserting"
    /\ \/ \E a \in Assignments :
             /\ assignment[a].status = "absent"
             /\ assignment' = [assignment EXCEPT
                   ![a] = [status |-> "active", shift |-> call[p].shift, key |-> call[p].key]]
       \/ /\ \A a \in Assignments : assignment[a].status # "absent"
          /\ UNCHANGED assignment
    /\ Return(p)
    /\ UNCHANGED <<shift, stop, failures, restarts>>

(* stop_shift_assignment, by the key of an assignment of the active shift. *)
(* Repo.one raises when two match: then nothing changes.                   *)
StopAssignment(p, k) ==
    /\ Idle(p)
    /\ \E s \in ActiveShift, status \in {"stopped", "blocked"} :
          \E a \in Assignments :
             /\ Duplicates(s, k) = {a}
             /\ assignment' = [assignment EXCEPT ![a].status = status]
    /\ UNCHANGED <<shift, stop, call, failures, restarts>>

-----------------------------------------------------------------------------
(* A tick of the Orchestrator: with a shift active and the STOP file       *)
(* there, call stop_shift; a tick that does not raise clears the counter.  *)
TickNever == FALSE                              \* mutant: the ticker never looks
TickStops == Active # {} /\ stop

Tick ==
    /\ Idle(Ticker)
    /\ failures' = 0
    /\ IF TickStops THEN Goto(Ticker, "stop") ELSE UNCHANGED call
    /\ UNCHANGED <<shift, assignment, stop, restarts>>

(* A tick whose body raised; enough of them in a row stop the shift.       *)
TripsLate(n) == n > MaxFailures                 \* mutant: one too late
Trips(n) == n >= MaxFailures

TickRaises ==
    /\ Idle(Ticker)
    /\ IF Trips(failures + 1)
       THEN failures' = 0 /\ Goto(Ticker, "stop")
       ELSE failures' = failures + 1 /\ UNCHANGED call
    /\ UNCHANGED <<shift, assignment, stop, restarts>>

(* The pump's budget brake: it decides for an unattended shift, and        *)
(* stop_shift stops whichever is active when it gets there.                *)
BudgetBrake ==
    /\ Idle(Pump)
    /\ \E s \in ActiveShift : shift[s].unattended
    /\ Goto(Pump, "stop")
    /\ UNCHANGED <<shift, assignment, stop, failures, restarts>>

(* The application goes down and comes back: every call is lost where it   *)
(* stands; the tables and the STOP file remain.                            *)
RestartCalls ==
    /\ restarts < MaxRestarts
    /\ restarts' = restarts + 1
    /\ call' = [p \in Procs |-> IdleCall]
    /\ failures' = 0
    /\ UNCHANGED <<shift, assignment, stop>>

Begin(p) ==
    \/ ShiftStop(p) \/ StandDown(p)
    \/ \E unattended \in Modes : ClearKillSwitch(p, unattended)
    \/ \E k \in Keys : StaffRead(p, k) \/ StopAssignment(p, k)

Continue(p) ==
    \/ StopRead(p) \/ StopWrite(p)
    \/ ReadActives(p) \/ Supersede(p) \/ InsertShift(p)
    \/ StopDuplicates(p) \/ InsertAssignment(p)

ShiftNext ==
    \/ \E p \in Operators : Begin(p)
    \/ \E p \in Procs : Continue(p)
    \/ TouchStop \/ Tick \/ TickRaises \/ BudgetBrake
    \/ RestartCalls

ShiftSpec == ShiftInit /\ [][ShiftNext]_shiftVars

(* A call that was begun is carried on, and the ticker's timer goes off.   *)
ShiftFairness ==
    /\ \A p \in Procs : WF_shiftVars(Continue(p))
    /\ WF_shiftVars(Tick)

FairShiftSpec == ShiftSpec /\ ShiftFairness

-----------------------------------------------------------------------------
(* Each process leaves at most one shift active, however starts, stops and *)
(* restarts interleave: a start completes whatever its own process had     *)
(* left, so there are never more active shifts than processes starting     *)
(* them at once, and one when starts do not overlap.                       *)
OneActivePerStarter ==
    \A s, t \in Active : shift[s].starter = shift[t].starter => s = t

(* Once the STOP file is there to stay no shift survives: not the one that *)
(* a start under way inserts after stand_down has looked, and not a second *)
(* one that two overlapping starts left behind.                            *)
StopEndsEveryShift == <>[]stop => <>[](Active = {})
=============================================================================
