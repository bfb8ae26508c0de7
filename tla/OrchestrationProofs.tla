------------------------- MODULE OrchestrationProofs -------------------------
(* Orchestration for any number of operators, shifts and assignments:       *)
(* its type invariant, and that each process leaves at most one shift       *)
(* active however the statements of the calls interleave.                   *)
EXTENDS Orchestration, FiniteSetTheorems, TLAPS

(* Only operators are inside shift_start, and what such a call has read to  *)
(* complete covers whatever its own process has left active: this is what   *)
(* OneActivePerStarter lacks to be inductive.                               *)
OnlyOperatorsStart ==
    \A p \in Procs : call[p].step \in {"cleared", "superseding"} => p \in Operators

StartCoversItsOwn ==
    \A p \in Procs : call[p].step = "superseding" =>
        \A s \in Active : shift[s].starter = p => s \in call[p].left

StarterInv == OneActivePerStarter /\ OnlyOperatorsStart /\ StartCoversItsOwn

-----------------------------------------------------------------------------
LEMMA IdleCallTyped == IdleCall \in Call
BY DEF IdleCall, Call, Steps

LEMMA InitTyped == ShiftInit => ShiftTypeOK
<1> SUFFICES ASSUME ShiftInit PROVE ShiftTypeOK
  OBVIOUS
<1>1. [status |-> "absent", unattended |-> FALSE, at |-> 0, starter |-> NoShift] \in ShiftRow
  BY DEF ShiftRow
<1>2. [status |-> "absent", shift |-> NoShift, key |-> NoShift] \in AssignmentRow
  BY DEF AssignmentRow
<1>3. 0 \in 0..(MaxFailures - 1) /\ 0 \in 0..MaxRestarts
  BY BoundsAssumption
<1> QED
  BY <1>1, <1>2, <1>3, IdleCallTyped DEF ShiftInit, ShiftTypeOK

(* Ending a shift keeps the tables' types, and so does moving one call on.  *)
LEMMA EndingTyped ==
    ASSUME ShiftTypeOK, NEW s \in Shifts, NEW status \in {"completed", "stopped"},
           SetShiftStatus(s, status)
    PROVE  /\ shift' \in [Shifts -> ShiftRow]
           /\ assignment' \in [Assignments -> AssignmentRow]
<1>1. [shift[s] EXCEPT !.status = status] \in ShiftRow
  BY DEF ShiftTypeOK, ShiftRow
<1>2. shift' = [shift EXCEPT ![s] = [shift[s] EXCEPT !.status = status]]
  BY DEF SetShiftStatus
<1>3. \A a \in Assignments : [assignment[a] EXCEPT !.status = "stopped"] \in AssignmentRow
  BY DEF ShiftTypeOK, AssignmentRow
<1> QED
  BY <1>1, <1>2, <1>3 DEF SetShiftStatus, ShiftTypeOK

LEMMA CallTyped ==
    ASSUME ShiftTypeOK, NEW p \in Procs, NEW c \in Call, call' = [call EXCEPT ![p] = c]
    PROVE  call' \in [Procs -> Call]
BY DEF ShiftTypeOK

LEMMA GotoTyped ==
    ASSUME ShiftTypeOK, NEW p \in Procs, NEW step \in Steps, Goto(p, step)
    PROVE  call' \in [Procs -> Call]
<1>1. [call[p] EXCEPT !.step = step] \in Call
  BY DEF ShiftTypeOK, Call
<1>2. call' = [call EXCEPT ![p] = [call[p] EXCEPT !.step = step]]
  BY DEF Goto
<1> QED
  BY <1>1, <1>2, CallTyped

(* A step of a call under way keeps the types.                             *)
LEMMA ContinueTyped ==
    ASSUME ShiftTypeOK, NEW p \in Procs, Continue(p), OnlyOperatorsStart
    PROVE  ShiftTypeOK'
<1>1. Return(p) => call' \in [Procs -> Call]
  BY IdleCallTyped, CallTyped DEF Return
<1>2. CASE StopRead(p)
  <2>1. CASE Return(p)
    BY <1>1, <1>2, <2>1 DEF StopRead, ShiftTypeOK
  <2>2. ASSUME NEW s \in ActiveShift,
               call' = [call EXCEPT ![p].step = "stopping", ![p].shift = s]
        PROVE  ShiftTypeOK'
    <3>1. [call[p] EXCEPT !.step = "stopping", !.shift = s] \in Call
      BY DEF ShiftTypeOK, Call, Steps, ActiveShift, Active
    <3>2. call' = [call EXCEPT ![p] = [call[p] EXCEPT !.step = "stopping", !.shift = s]]
      BY <2>2 DEF ShiftTypeOK
    <3> QED
      BY <1>2, <3>1, <3>2, CallTyped DEF StopRead, ShiftTypeOK
  <2> QED
    BY <1>2, <2>1, <2>2 DEF StopRead
<1>3. CASE StopWrite(p)
  <2>1. CASE call[p].shift \in Shifts
    BY <1>1, <1>3, <2>1, EndingTyped DEF StopWrite, ShiftTypeOK
  <2>2. CASE call[p].shift \notin Shifts
    <3>1. shift' = shift
      BY <1>3, <2>2 DEF StopWrite, SetShiftStatus, ShiftTypeOK
    <3>2. \A a \in Assignments : [assignment[a] EXCEPT !.status = "stopped"] \in AssignmentRow
      BY DEF ShiftTypeOK, AssignmentRow
    <3> QED
      BY <1>1, <1>3, <3>1, <3>2 DEF StopWrite, SetShiftStatus, ShiftTypeOK
  <2> QED
    BY <2>1, <2>2
<1>4. CASE ReadActives(p)
  <2>1. [call[p] EXCEPT !.step = "superseding", !.left = Superseded] \in Call
    BY DEF ShiftTypeOK, Call, Steps, Superseded, Active
  <2>2. call' = [call EXCEPT ![p] = [call[p] EXCEPT !.step = "superseding", !.left = Superseded]]
    BY <1>4 DEF ReadActives, ShiftTypeOK
  <2> QED
    BY <1>4, <2>1, <2>2, CallTyped DEF ReadActives, ShiftTypeOK
<1>5. CASE Supersede(p)
  <2>1. PICK s \in call[p].left :
           SetShiftStatus(s, "completed") /\ call' = [call EXCEPT ![p].left = @ \ {s}]
    BY <1>5 DEF Supersede
  <2>2. s \in Shifts
    BY <2>1 DEF ShiftTypeOK, Call
  <2>3. [call[p] EXCEPT !.left = @ \ {s}] \in Call
    BY DEF ShiftTypeOK, Call
  <2>4. call' = [call EXCEPT ![p] = [call[p] EXCEPT !.left = @ \ {s}]]
    BY <2>1
  <2> QED
    BY <1>5, <2>1, <2>2, <2>3, <2>4, CallTyped, EndingTyped DEF Supersede, ShiftTypeOK
<1>6. CASE InsertShift(p)
  <2>1. p \in Operators
    BY <1>6 DEF InsertShift, OnlyOperatorsStart
  <2>2. Cardinality(Shifts) \in Nat
    BY ShiftsAssumption, FS_CardinalityType
  <2>3. PICK s \in Shifts, n \in 0..Cardinality(Shifts) :
           shift' = [shift EXCEPT ![s] = [status |-> "active", at |-> n, starter |-> p,
                                          unattended |-> call[p].unattended]]
    BY <1>6 DEF InsertShift
  <2>4. [status |-> "active", at |-> n, starter |-> p, unattended |-> call[p].unattended]
           \in ShiftRow
    BY <2>1, <2>2 DEF ShiftRow, ShiftTypeOK, Call
  <2> QED
    BY <1>1, <1>6, <2>3, <2>4 DEF InsertShift, ShiftTypeOK
<1>7. CASE StopDuplicates(p)
  <2>1. \A a \in Assignments : [assignment[a] EXCEPT !.status = "stopped"] \in AssignmentRow
    BY DEF ShiftTypeOK, AssignmentRow
  <2>2. call' \in [Procs -> Call]
    BY <1>7, GotoTyped DEF StopDuplicates, Steps
  <2> QED
    BY <1>7, <2>1, <2>2 DEF StopDuplicates, ShiftTypeOK
<1>8. CASE InsertAssignment(p)
  <2>1. [status |-> "active", shift |-> call[p].shift, key |-> call[p].key] \in AssignmentRow
    BY DEF ShiftTypeOK, AssignmentRow, Call
  <2> QED
    BY <1>1, <1>8, <2>1 DEF InsertAssignment, ShiftTypeOK
<1> QED
  BY <1>2, <1>3, <1>4, <1>5, <1>6, <1>7, <1>8 DEF Continue

(* So does a call that begins.                                             *)
LEMMA BeginTyped ==
    ASSUME ShiftTypeOK, NEW p \in Operators, Begin(p)
    PROVE  ShiftTypeOK'
<1>1. p \in Procs
  BY DEF Procs
<1>2. CASE ShiftStop(p) \/ StandDown(p)
  <2>1. call' \in [Procs -> Call]
    BY <1>1, <1>2, GotoTyped DEF ShiftStop, StandDown, Steps
  <2> QED
    BY <1>2, <2>1 DEF ShiftStop, StandDown, ShiftTypeOK
<1>3. ASSUME NEW unattended \in Modes, ClearKillSwitch(p, unattended)
      PROVE  ShiftTypeOK'
  <2>1. [call[p] EXCEPT !.step = "cleared", !.unattended = unattended] \in Call
    BY <1>1, BoundsAssumption DEF ShiftTypeOK, Call, Steps
  <2>2. call' = [call EXCEPT ![p] = [call[p] EXCEPT !.step = "cleared", !.unattended = unattended]]
    BY <1>1, <1>3 DEF ClearKillSwitch, ShiftTypeOK
  <2> QED
    BY <1>1, <1>3, <2>1, <2>2, CallTyped DEF ClearKillSwitch, ShiftTypeOK
<1>4. ASSUME NEW k \in Keys, StaffRead(p, k)
      PROVE  ShiftTypeOK'
  <2>1. PICK s \in ActiveShift :
           call' = [call EXCEPT ![p].step = "staffing", ![p].shift = s, ![p].key = k]
    BY <1>4 DEF StaffRead
  <2>2. [call[p] EXCEPT !.step = "staffing", !.shift = s, !.key = k] \in Call
    BY <1>1 DEF ShiftTypeOK, Call, Steps, ActiveShift, Active
  <2>3. call' = [call EXCEPT ![p] = [call[p] EXCEPT !.step = "staffing", !.shift = s, !.key = k]]
    BY <1>1, <2>1 DEF ShiftTypeOK
  <2> QED
    BY <1>1, <1>4, <2>2, <2>3, CallTyped DEF StaffRead, ShiftTypeOK
<1>5. ASSUME NEW k \in Keys, StopAssignment(p, k)
      PROVE  ShiftTypeOK'
  BY <1>5 DEF StopAssignment, ShiftTypeOK, AssignmentRow
<1> QED
  BY <1>2, <1>3, <1>4, <1>5 DEF Begin

(* And so do the watchers and a restart.                                   *)
LEMMA WatchTyped ==
    ASSUME ShiftTypeOK, TouchStop \/ Tick \/ TickRaises \/ BudgetBrake \/ RestartCalls
    PROVE  ShiftTypeOK'
<1> USE BoundsAssumption DEF ShiftTypeOK, Call, Steps, Procs
<1>1. CASE TouchStop
  BY <1>1 DEF TouchStop
<1>2. CASE Tick
  BY <1>2 DEF Tick, Goto
<1>3. CASE TickRaises
  BY <1>3 DEF TickRaises, Trips, Goto
<1>4. CASE BudgetBrake
  BY <1>4 DEF BudgetBrake, Goto
<1>5. CASE RestartCalls
  BY <1>5 DEF RestartCalls, IdleCall
<1> QED
  BY <1>1, <1>2, <1>3, <1>4, <1>5

-----------------------------------------------------------------------------
(* A step that ends shifts, and takes from what a start has still to       *)
(* complete only what it ended, keeps the invariant.                       *)
LEMMA EndingKeepsStarterInv ==
    ASSUME ShiftTypeOK, StarterInv,
           \A s \in Shifts : shift'[s].status = "active" =>
               shift[s].status = "active" /\ shift'[s].starter = shift[s].starter,
           \A p \in Procs : call'[p].step \in {"cleared", "superseding"} => p \in Operators,
           \A p \in Procs : call'[p].step = "superseding" =>
               /\ call[p].step = "superseding"
               /\ \A s \in Shifts : s \in call[p].left /\ shift'[s].status = "active"
                                       => s \in call'[p].left
    PROVE  StarterInv'
BY DEF StarterInv, OneActivePerStarter, OnlyOperatorsStart, StartCoversItsOwn, Active

LEMMA ContinueKeepsStarterInv ==
    ASSUME ShiftTypeOK, StarterInv, NEW p \in Procs, Continue(p)
    PROVE  StarterInv'
<1> USE DEF ShiftTypeOK, Call, ShiftRow
<1>1. CASE StopRead(p)
  BY <1>1, EndingKeepsStarterInv, SMTT(30) DEF StopRead, Return, IdleCall, StarterInv, OnlyOperatorsStart
<1>2. CASE StopWrite(p)
  BY <1>2, EndingKeepsStarterInv
     DEF StopWrite, Return, IdleCall, SetShiftStatus, StarterInv, OnlyOperatorsStart
<1>3. CASE ReadActives(p)
  BY <1>3 DEF ReadActives, Superseded, Active, StarterInv, OneActivePerStarter,
              OnlyOperatorsStart, StartCoversItsOwn
<1>4. CASE Supersede(p)
  BY <1>4, EndingKeepsStarterInv DEF Supersede, SetShiftStatus, StarterInv, OnlyOperatorsStart
<1>5. CASE InsertShift(p)
  <2>1. \A s \in Active : shift[s].starter # p
    BY <1>5 DEF InsertShift, StarterInv, StartCoversItsOwn
  <2>2. PICK s \in Shifts, n \in 0..Cardinality(Shifts) :
           shift' = [shift EXCEPT ![s] = [status |-> "active", at |-> n, starter |-> p,
                                          unattended |-> call[p].unattended]]
    BY <1>5 DEF InsertShift
  <2>3. call' = [call EXCEPT ![p] = IdleCall]
    BY <1>5 DEF InsertShift, Return
  <2>4. \A t \in Active' : t = s \/ (t \in Active /\ shift'[t].starter = shift[t].starter)
    BY <2>2 DEF Active
  <2>5. shift'[s].starter = p
    BY <2>2
  <2>6. OneActivePerStarter'
    BY <2>1, <2>4, <2>5 DEF OneActivePerStarter, StarterInv
  <2>7. OnlyOperatorsStart'
    BY <2>3 DEF OnlyOperatorsStart, StarterInv, IdleCall
  <2>8. StartCoversItsOwn'
    BY <2>3, <2>4, <2>5 DEF StartCoversItsOwn, StarterInv, IdleCall
  <2> QED
    BY <2>6, <2>7, <2>8 DEF StarterInv
<1>6. CASE StopDuplicates(p)
  BY <1>6, EndingKeepsStarterInv DEF StopDuplicates, Goto, StarterInv, OnlyOperatorsStart
<1>7. CASE InsertAssignment(p)
  BY <1>7, EndingKeepsStarterInv
     DEF InsertAssignment, Return, IdleCall, StarterInv, OnlyOperatorsStart
<1> QED
  BY <1>1, <1>2, <1>3, <1>4, <1>5, <1>6, <1>7 DEF Continue

LEMMA BeginKeepsStarterInv ==
    ASSUME ShiftTypeOK, StarterInv, NEW p \in Operators, Begin(p)
    PROVE  StarterInv'
<1> USE DEF ShiftTypeOK, Call, ShiftRow, Procs, Idle
<1>1. CASE ShiftStop(p) \/ StandDown(p)
  BY <1>1, EndingKeepsStarterInv DEF ShiftStop, StandDown, Goto, StarterInv, OnlyOperatorsStart
<1>2. CASE \E unattended \in Modes : ClearKillSwitch(p, unattended)
  BY <1>2, EndingKeepsStarterInv DEF ClearKillSwitch, StarterInv, OnlyOperatorsStart
<1>3. CASE \E k \in Keys : StaffRead(p, k)
  BY <1>3, EndingKeepsStarterInv DEF StaffRead, StarterInv, OnlyOperatorsStart
<1>4. CASE \E k \in Keys : StopAssignment(p, k)
  BY <1>4, EndingKeepsStarterInv DEF StopAssignment, StarterInv, OnlyOperatorsStart
<1> QED
  BY <1>1, <1>2, <1>3, <1>4 DEF Begin

LEMMA WatchKeepsStarterInv ==
    ASSUME ShiftTypeOK, StarterInv,
           TouchStop \/ Tick \/ TickRaises \/ BudgetBrake \/ RestartCalls
    PROVE  StarterInv'
<1> USE DEF ShiftTypeOK, Call, ShiftRow, Procs, Idle, StarterInv, OnlyOperatorsStart
<1>1. CASE TouchStop
  BY <1>1, EndingKeepsStarterInv DEF TouchStop
<1>2. CASE Tick
  BY <1>2, EndingKeepsStarterInv DEF Tick, Goto
<1>3. CASE TickRaises
  BY <1>3, EndingKeepsStarterInv DEF TickRaises, Goto
<1>4. CASE BudgetBrake
  BY <1>4, EndingKeepsStarterInv DEF BudgetBrake, Goto
<1>5. CASE RestartCalls
  BY <1>5, EndingKeepsStarterInv DEF RestartCalls, IdleCall
<1> QED
  BY <1>1, <1>2, <1>3, <1>4, <1>5

-----------------------------------------------------------------------------
LEMMA ShiftStepKeepsInv ==
    ASSUME ShiftTypeOK, StarterInv, [ShiftNext]_shiftVars
    PROVE  ShiftTypeOK' /\ StarterInv'
<1>1. CASE \E p \in Operators : Begin(p)
  BY <1>1, BeginTyped, BeginKeepsStarterInv
<1>2. CASE \E p \in Procs : Continue(p)
  BY <1>2, ContinueTyped, ContinueKeepsStarterInv DEF StarterInv
<1>3. CASE TouchStop \/ Tick \/ TickRaises \/ BudgetBrake \/ RestartCalls
  BY <1>3, WatchTyped, WatchKeepsStarterInv
<1>4. CASE UNCHANGED shiftVars
  BY <1>4 DEF shiftVars, ShiftTypeOK, StarterInv, OneActivePerStarter, OnlyOperatorsStart,
              StartCoversItsOwn, Active
<1> QED
  BY <1>1, <1>2, <1>3, <1>4 DEF ShiftNext

(* The tables, the calls and the counter keep their types.                 *)
THEOREM ShiftTypeCorrect == ShiftSpec => []ShiftTypeOK
<1>1. ShiftInit => ShiftTypeOK /\ StarterInv
  BY InitTyped DEF ShiftInit, StarterInv, OneActivePerStarter, OnlyOperatorsStart,
     StartCoversItsOwn, Active, IdleCall
<1>2. ShiftTypeOK /\ StarterInv /\ [ShiftNext]_shiftVars => (ShiftTypeOK /\ StarterInv)'
  BY ShiftStepKeepsInv
<1> QED
  BY <1>1, <1>2, PTL DEF ShiftSpec

(* start_shift "completes any other active shift first": for any number of *)
(* operators, no process ever has two shifts active.                       *)
THEOREM AtMostOneActivePerStarter == ShiftSpec => []OneActivePerStarter
<1>1. ShiftInit => ShiftTypeOK /\ StarterInv
  BY InitTyped DEF ShiftInit, StarterInv, OneActivePerStarter, OnlyOperatorsStart,
     StartCoversItsOwn, Active, IdleCall
<1>2. ShiftTypeOK /\ StarterInv /\ [ShiftNext]_shiftVars => (ShiftTypeOK /\ StarterInv)'
  BY ShiftStepKeepsInv
<1>3. StarterInv => OneActivePerStarter
  BY DEF StarterInv
<1> QED
  BY <1>1, <1>2, <1>3, PTL DEF ShiftSpec
=============================================================================
