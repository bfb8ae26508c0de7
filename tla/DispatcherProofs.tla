--------------------------- MODULE DispatcherProofs ---------------------------
(* The queue for any set of rows and of callers: its types, and that no     *)
(* interleaving of commands steals a claim or reopens a settled row.  Then  *)
(* the pump for any queue, any number of shifts, callers and agents, and    *)
(* any cap.                                                                 *)
EXTENDS Dispatcher, OrchestrationProofs

LEMMA NoRequestTyped == NoRequest \in Request
BY ItemsAssumption DEF NoRequest, Request, Strategies

(* The queue's rows and requests keep their types in every step.            *)
LEMMA RowsTyped ==
    ASSUME QueueTypeOK, NEW i \in Items,
           NEW r \in Row, item' = [item EXCEPT ![i] = r]
    PROVE  item' \in [Items -> Row]
BY DEF QueueTypeOK

LEMMA StatusTyped ==
    ASSUME QueueTypeOK, NEW i \in Items, NEW s \in Statuses
    PROVE  [item EXCEPT ![i].status = s] \in [Items -> Row]
<1>1. [item[i] EXCEPT !.status = s] \in Row
  BY DEF QueueTypeOK, Row
<1>2. [item EXCEPT ![i].status = s] = [item EXCEPT ![i] = [item[i] EXCEPT !.status = s]]
  OBVIOUS
<1> QED
  BY <1>1, <1>2 DEF QueueTypeOK

LEMMA ReclaimedTyped == ASSUME QueueTypeOK PROVE Reclaimed \in [Items -> Row]
<1>1. \A i \in Items : [item[i] EXCEPT !.status = "queued", !.by = NoOne] \in Row
  BY DEF QueueTypeOK, Row, Statuses, InFlight, Settled
<1> QED
  BY <1>1 DEF Reclaimed, QueueTypeOK

LEMMA AnswerTyped ==
    ASSUME QueueTypeOK, NEW c \in Callers \cup {Coordinator}, Answer(c)
    PROVE  request' \in [Callers \cup {Coordinator} -> Request]
BY NoRequestTyped DEF Answer, QueueTypeOK

LEMMA EnqueueTyped ==
    ASSUME QueueTypeOK, NEW s \in Strategies, Enqueue(s)
    PROVE  QueueTypeOK'
<1>1. PICK i \in Items : item' = [item EXCEPT ![i].status = "queued", ![i].strategy = s]
  BY DEF Enqueue, Oldest, WithStatus
<1>2. [item[i] EXCEPT !.status = "queued", !.strategy = s] \in Row
  BY DEF QueueTypeOK, Row, Statuses
<1>3. item' = [item EXCEPT ![i] = [item[i] EXCEPT !.status = "queued", !.strategy = s]]
  BY <1>1 DEF QueueTypeOK
<1> QED
  BY <1>2, <1>3, RowsTyped DEF Enqueue, QueueTypeOK

LEMMA CommandTyped ==
    ASSUME QueueTypeOK, NEW c \in Callers, CommandOf(c)
    PROVE  QueueTypeOK'
<1>1. CASE ClaimRead(c)
  <2>1. PICK i \in Items :
           request' = [request EXCEPT ![c] = [step |-> "claim", item |-> i, strategy |-> "single"]]
    BY <1>1 DEF ClaimRead, Oldest, QueuedAs, Queued, WithStatus
  <2>2. [step |-> "claim", item |-> i, strategy |-> "single"] \in Request
    BY DEF Request, Strategies
  <2> QED
    BY <1>1, <2>1, <2>2 DEF ClaimRead, QueueTypeOK
<1>2. ASSUME NEW i \in Items, NEW s \in Strategies, StrategyRead(c, i, s)
      PROVE  QueueTypeOK'
  <2>1. [step |-> "strategy", item |-> i, strategy |-> s] \in Request
    BY DEF Request
  <2> QED
    BY <1>2, <2>1 DEF StrategyRead, QueueTypeOK
<1>3. ASSUME NEW i \in Items, NEW s \in {"done", "blocked"}, Finish(c, i, s)
      PROVE  QueueTypeOK'
  BY <1>3, StatusTyped DEF Finish, FinishedAs, QueueTypeOK, Statuses, Settled
<1> QED
  BY <1>1, <1>2, <1>3 DEF CommandOf

LEMMA CompletionTyped ==
    ASSUME QueueTypeOK, NEW c \in Callers, Completion(c)
    PROVE  QueueTypeOK'
<1> DEFINE i == request[c].item
<1>1. i \in Items /\ request[c].strategy \in Strategies
  BY DEF QueueTypeOK, Request
<1>2. CASE ClaimSwap(c)
  <2>1. [item[i] EXCEPT !.status = "claimed", !.by = c] \in Row
    BY <1>1 DEF QueueTypeOK, Row, Statuses, InFlight
  <2>2. [item EXCEPT ![i].status = "claimed", ![i].by = c] =
            [item EXCEPT ![i] = [item[i] EXCEPT !.status = "claimed", !.by = c]]
    BY <1>1 DEF QueueTypeOK
  <2> QED
    BY <1>1, <1>2, <2>1, <2>2, AnswerTyped DEF ClaimSwap, QueueTypeOK
<1>3. CASE StrategyWrite(c)
  <2>1. [item[i] EXCEPT !.strategy = request[c].strategy] \in Row
    BY <1>1 DEF QueueTypeOK, Row
  <2>2. item' = [item EXCEPT ![i] = [item[i] EXCEPT !.strategy = request[c].strategy]]
    BY <1>3 DEF StrategyWrite
  <2> QED
    BY <1>1, <1>3, <2>1, <2>2, AnswerTyped DEF StrategyWrite, QueueTypeOK
<1> QED
  BY <1>2, <1>3 DEF Completion

LEMMA RunningTyped ==
    ASSUME QueueTypeOK, NEW i \in Items
    PROVE  RunningNow(i) \in [Items -> Row]
<1>1. [item[i] EXCEPT !.status = "running", !.by = Coordinator] \in Row
  BY DEF QueueTypeOK, Row, Statuses, InFlight
<1>2. RunningNow(i) = [item EXCEPT ![i] = [item[i] EXCEPT !.status = "running", !.by = Coordinator]]
  BY DEF RunningNow, QueueTypeOK
<1> QED
  BY <1>1, <1>2 DEF QueueTypeOK

LEMMA QueueInitTyped == QueueInit => QueueTypeOK
<1>1. [status |-> "absent", strategy |-> "single", by |-> NoOne] \in Row
  BY DEF Row, Statuses, Strategies
<1> QED
  BY <1>1, NoRequestTyped DEF QueueInit, QueueTypeOK

LEMMA QueueStepTyped == QueueTypeOK /\ [QueueNext]_queueVars => QueueTypeOK'
<1> SUFFICES ASSUME QueueTypeOK, [QueueNext]_queueVars PROVE QueueTypeOK'
  OBVIOUS
<1>1. CASE MarkRead
  <2>1. PICK i \in Items :
           request' = [request EXCEPT ![Coordinator] =
                          [step |-> "mark", item |-> i, strategy |-> "swarm"]]
    BY <1>1 DEF MarkRead, Newest, QueuedAs, Queued, WithStatus
  <2>2. [step |-> "mark", item |-> i, strategy |-> "swarm"] \in Request
    BY DEF Request, Strategies
  <2> QED
    BY <1>1, <2>1, <2>2 DEF MarkRead, QueueTypeOK
<1>2. CASE MarkRunning
  <2>1. request[Coordinator].item \in Items
    BY DEF QueueTypeOK, Request
  <2> QED
    BY <1>2, <2>1, RunningTyped, AnswerTyped DEF MarkRunning, QueueTypeOK
<1>3. ASSUME NEW i \in Items, NEW s \in {"done", "blocked"}, Finish(Coordinator, i, s)
      PROVE  QueueTypeOK'
  BY <1>3, StatusTyped DEF Finish, FinishedAs, QueueTypeOK, Statuses, Settled
<1>4. CASE ReclaimOrphans \/ RestartQueue
  BY <1>4, ReclaimedTyped, NoRequestTyped DEF ReclaimOrphans, RestartQueue, QueueTypeOK
<1>5. CASE UNCHANGED queueVars
  BY <1>5 DEF queueVars, QueueTypeOK
<1> QED
  BY <1>1, <1>2, <1>3, <1>4, <1>5, EnqueueTyped, CommandTyped, CompletionTyped DEF QueueNext

-----------------------------------------------------------------------------
(* The row's status and holder before the step decide what it may become.   *)
StepIsFair ==
    \A i \in Items :
        /\ \A c \in Callers :
              item'[i].by = c /\ item[i].by # c => item[i].status = "queued"
        /\ item[i].status \in Settled => item'[i].status \notin {"queued", "claimed"}

LEMMA QueueStepIsFair == QueueTypeOK /\ [QueueNext]_queueVars => StepIsFair
<1> SUFFICES ASSUME QueueTypeOK, [QueueNext]_queueVars PROVE StepIsFair
  OBVIOUS
<1> USE CallersAssumption DEF StepIsFair, QueueTypeOK, Row, Request, Settled
<1>1. CASE \E s \in Strategies : Enqueue(s)
  BY <1>1 DEF Enqueue, Oldest, WithStatus
<1>2. CASE \E c \in Callers : CommandOf(c)
  BY <1>2 DEF CommandOf, ClaimRead, StrategyRead, Finish, FinishedAs
<1>3. CASE \E c \in Callers : Completion(c)
  <2>1. CASE \E c \in Callers : ClaimSwap(c)
    BY <2>1 DEF ClaimSwap, Claimable
  <2>2. CASE \E c \in Callers : StrategyWrite(c)
    BY <2>2 DEF StrategyWrite
  <2> QED
    BY <1>3, <2>1, <2>2 DEF Completion
<1>4. CASE MarkRead \/ UNCHANGED queueVars
  BY <1>4 DEF MarkRead, queueVars
<1>5. CASE MarkRunning
  BY <1>5 DEF MarkRunning, RunningNow
<1>6. CASE \E i \in Items, s \in {"done", "blocked"} : Finish(Coordinator, i, s)
  BY <1>6 DEF Finish, FinishedAs
<1>7. CASE ReclaimOrphans \/ RestartQueue
  <2>1. item' = Reclaimed
    BY <1>7 DEF ReclaimOrphans, RestartQueue
  <2> QED
    BY <2>1 DEF Reclaimed, Orphaned, InFlight
<1> QED
  BY <1>1, <1>2, <1>3, <1>4, <1>5, <1>6, <1>7 DEF QueueNext

(* The table and the requests under way keep their types.                   *)
THEOREM QueueTypeCorrect == QueueSpec => []QueueTypeOK
BY QueueInitTyped, QueueStepTyped, PTL DEF QueueSpec

(* claim_next: whoever comes to hold a row took it out of the queue, however *)
(* many claims read it at once.                                             *)
THEOREM ClaimsAreNotStolen == QueueSpec => NoClaimIsStolen
<1>1. QueueTypeOK /\ [QueueNext]_queueVars =>
          [\A c \in Callers, i \in Items :
              item'[i].by = c /\ item[i].by # c => item[i].status = "queued"]_queueVars
  BY QueueStepIsFair DEF StepIsFair
<1> QED
  BY <1>1, QueueInitTyped, QueueStepTyped, PTL DEF QueueSpec, NoClaimIsStolen

(* Nothing a late command does puts a settled row back to work.             *)
THEOREM SettledIsNotRequeued == QueueSpec => SettledStaysOutOfTheQueue
<1>1. QueueTypeOK /\ [QueueNext]_queueVars =>
          [\A i \in Items : item[i].status \in Settled =>
              item'[i].status \notin {"queued", "claimed"}]_queueVars
  BY QueueStepIsFair DEF StepIsFair
<1> QED
  BY <1>1, QueueInitTyped, QueueStepTyped, PTL DEF QueueSpec, SettledStaysOutOfTheQueue

-----------------------------------------------------------------------------
(* The pump.                                                                *)

(* The cap is inductive only with what is owed: a decided run, and a swarm  *)
(* not charged yet, must still fit under it.                                *)
OwedFits ==
    /\ choice.step = "single" => dispatched[choice.shift] < Cap
    /\ choice.step = "swarm"  => dispatched[choice.shift] + 1 + MaxSubtasks <= Cap
    /\ run.state # "none" /\ run.kind = "swarm" =>
           dispatched[run.shift] + 1 + MaxSubtasks <= Cap

(* A decision and a run name a shift, and no swarm costs more than its      *)
(* planner and its sub-runs.                                                *)
ChargesAShift ==
    /\ Deciding => choice.shift \in Shifts
    /\ run.state # "none" => run.shift \in Shifts
    /\ run.cost <= 1 + MaxSubtasks

BudgetInv == WithinCap /\ OwedFits /\ ChargesAShift

-----------------------------------------------------------------------------
(* The composition takes the shifts only through steps of Orchestration.    *)
LEMMA StepOfShifts == [Next]_vars => [ShiftNext]_shiftVars
<1> SUFFICES ASSUME [Next]_vars PROVE [ShiftNext]_shiftVars
  OBVIOUS
<1>1. CASE QueueStep
  BY <1>1 DEF QueueStep, shiftVars
<1>2. CASE ShiftStep
  BY <1>2 DEF ShiftStep, ShiftNext
<1>3. CASE MaybeRun
  <2>1. CASE \E s \in Shifts : DecideSingle(s) \/ DecideSwarm(s)
    BY <1>3, <2>1 DEF MaybeRun, DecideSingle, DecideSwarm, shiftVars
  <2>2. CASE \E s \in Shifts : TripBudgetBrake(s)
    <3>1. BudgetBrake
      BY <1>3, <2>2 DEF MaybeRun, TripBudgetBrake, Ready, BudgetBrake
    <3> QED
      BY <3>1 DEF ShiftNext
  <2> QED
    BY <1>3, <2>1, <2>2 DEF MaybeRun
<1>4. CASE StartRun \/ StartSwarmRun \/ RunDone \/ RunDown
  BY <1>4, SMTT(30) DEF StartRun, StartSwarmRun, RunDone, RunDown, shiftVars
<1>5. CASE CooldownElapses \/ RunReports \/ RunCrashes
  BY <1>5 DEF CooldownElapses, RunReports, RunCrashes, shiftVars
<1>6. CASE Restart
  BY <1>6 DEF Restart, ShiftNext
<1>7. CASE UNCHANGED vars
  BY <1>7 DEF vars, shiftVars
<1> QED
  BY <1>1, <1>2, <1>3, <1>4, <1>5, <1>6, <1>7 DEF Next, PumpStep

(* Whatever holds of the shifts alone therefore holds of the whole system:  *)
(* every behaviour of the composition is one of Orchestration.              *)
THEOREM ShiftsImplemented == Spec => WorksTheShifts
<1>1. Init => ShiftInit
  BY DEF Init
<1> QED
  BY <1>1, StepOfShifts, PTL DEF Spec, WorksTheShifts, ShiftSpec

-----------------------------------------------------------------------------
LEMMA NoItemTyped == NoItem \in Items
BY NoRequestTyped DEF NoItem, Request

(* What the composition does to the queue keeps the queue's types.          *)
LEMMA QueueKeepsTypes ==
    ASSUME QueueTypeOK, PumpTypeOK, [Next]_vars
    PROVE  QueueTypeOK'
<1>1. CASE QueueStep
  BY <1>1, EnqueueTyped, CommandTyped, CompletionTyped DEF QueueStep
<1>2. CASE ShiftStep
  BY <1>2, SMTT(30) DEF ShiftStep, QueueTypeOK
<1>3. CASE MaybeRun \/ StartRun \/ CooldownElapses \/ RunReports \/ RunCrashes
  BY <1>3 DEF MaybeRun, StartRun, CooldownElapses, RunReports, RunCrashes, QueueTypeOK
<1>4. CASE StartSwarmRun
  <2>1. choice.item \in Items
    BY DEF PumpTypeOK, Choice
  <2> QED
    BY <1>4, <2>1, RunningTyped DEF StartSwarmRun, QueueTypeOK
<1>5. CASE RunDone
  <2>1. run.item \in Items /\ run.status \in Statuses
    BY DEF PumpTypeOK, Run, Statuses, Settled
  <2>2. SettleItem \in [Items -> Row]
    BY <2>1, StatusTyped DEF SettleItem, FinishedAs, QueueTypeOK
  <2> QED
    BY <1>5, <2>2 DEF RunDone, QueueTypeOK
<1>6. CASE RunDown
  BY <1>6, ReclaimedTyped DEF RunDown, AfterCrash, QueueTypeOK
<1>7. CASE Restart
  BY <1>7, ReclaimedTyped, NoRequestTyped DEF Restart, RestartQueue, QueueTypeOK
<1>8. CASE UNCHANGED vars
  BY <1>8 DEF vars, QueueTypeOK
<1> QED
  BY <1>1, <1>2, <1>3, <1>4, <1>5, <1>6, <1>7, <1>8 DEF Next, PumpStep

-----------------------------------------------------------------------------
LEMMA CostsTyped == ASSUME PumpTypeOK, NEW n \in Costs PROVE n \in Nat /\ n <= 1 + MaxSubtasks
BY BudgetAssumption DEF Costs

LEMMA NoRunTyped == NoRun \in Run /\ NoChoice \in Choice
BY NoItemTyped DEF NoRun, NoChoice, Run, Choice

(* What an agent really spends is counted in Nat, whichever way a run ends. *)
LEMMA SpendTyped ==
    ASSUME PumpTypeOK, NEW n \in Nat, Spend(n)
    PROVE  spent' \in [Shifts -> Nat]
<1>1. CASE run.shift \in Shifts
  <2>1. spent[run.shift] \in Nat /\ Cap + 1 \in Nat
    BY <1>1, BudgetAssumption DEF PumpTypeOK
  <2> QED
    BY <1>1, <2>1 DEF Spend, PumpTypeOK
<1>2. CASE run.shift \notin Shifts
  <2>1. spent' = spent
    BY <1>2 DEF Spend, PumpTypeOK
  <2> QED
    BY <2>1 DEF PumpTypeOK
<1> QED
  BY <1>1, <1>2

LEMMA PumpKeepsTypes ==
    ASSUME PumpTypeOK, ChargesAShift, [Next]_vars
    PROVE  PumpTypeOK'
<1>1. CASE QueueStep \/ ShiftStep \/ UNCHANGED vars
  BY <1>1 DEF QueueStep, ShiftStep, vars, pumpVars, PumpTypeOK
<1>2. CASE MaybeRun
  <2>1. choice' \in Choice
    <3>1. ASSUME NEW s \in Shifts, DecideSingle(s) PROVE choice' \in Choice
      BY <3>1, NoItemTyped DEF DecideSingle, Choice
    <3>2. ASSUME NEW s \in Shifts, DecideSwarm(s) PROVE choice' \in Choice
      BY <3>2 DEF DecideSwarm, Choice, Newest, QueuedAs, Queued, WithStatus
    <3>3. ASSUME NEW s \in Shifts, TripBudgetBrake(s) PROVE choice' \in Choice
      BY <3>3 DEF TripBudgetBrake, PumpTypeOK
    <3> QED
      BY <1>2, <3>1, <3>2, <3>3 DEF MaybeRun
  <2> QED
    BY <1>2, <2>1 DEF MaybeRun, PumpTypeOK
<1>3. CASE StartRun
  <2>1. choice.shift \in Shifts
    BY <1>3 DEF StartRun, ChargesAShift, Deciding
  <2>2. run' \in Run
    BY <1>3, <2>1, NoRunTyped DEF StartRun, Run
  <2>3. dispatched' \in [Shifts -> Nat] /\ spent' \in [Shifts -> Nat]
    BY <1>3, <2>1 DEF StartRun, PumpTypeOK
  <2> QED
    BY <1>3, <2>2, <2>3, NoRunTyped DEF StartRun, PumpTypeOK
<1>4. CASE StartSwarmRun
  <2>1. choice.shift \in Shifts /\ choice.item \in Items
    BY <1>4 DEF StartSwarmRun, ChargesAShift, Deciding, PumpTypeOK, Choice
  <2>2. run' \in Run
    <3>1. [NoRun EXCEPT !.state = "live", !.kind = "swarm", !.shift = choice.shift,
                        !.item = choice.item] \in Run
      BY <2>1, NoRunTyped DEF Run
    <3> QED
      BY <1>4, <3>1 DEF StartSwarmRun
  <2> QED
    BY <1>4, <2>2, NoRunTyped DEF StartSwarmRun, PumpTypeOK
<1>5. CASE RunDone
  <2>1. dispatched' \in [Shifts -> Nat]
    <3>1. run.shift \in Shifts /\ run.cost \in Nat
      BY <1>5 DEF RunDone, ChargesAShift, PumpTypeOK, Run
    <3> QED
      BY <1>5, <3>1 DEF RunDone, Charge, PumpTypeOK
  <2> QED
    BY <1>5, <2>1, NoRunTyped DEF RunDone, PumpTypeOK
<1>6. CASE RunDown \/ CooldownElapses
  BY <1>6, NoRunTyped DEF RunDown, CooldownElapses, PumpTypeOK
<1>7. CASE RunReports
  <2>1. PICK n \in Costs, status \in {"done", "blocked"} :
           Spend(n) /\ run' = [run EXCEPT !.state = "reported", !.status = status, !.cost = n]
    BY <1>7 DEF RunReports
  <2>2. n \in Nat
    BY CostsTyped
  <2>3. run' \in Run
    BY <2>1, <2>2 DEF Run, PumpTypeOK
  <2> QED
    BY <1>7, <2>1, <2>2, <2>3, SpendTyped DEF RunReports, PumpTypeOK
<1>8. CASE RunCrashes
  <2>1. spent' \in [Shifts -> Nat]
    BY <1>8, CostsTyped, SpendTyped DEF RunCrashes
  <2>2. run' \in Run
    BY <1>8 DEF RunCrashes, Run, PumpTypeOK
  <2> QED
    BY <1>8, <2>1, <2>2 DEF RunCrashes, PumpTypeOK
<1>9. CASE Restart
  <2>1. spent' \in [Shifts -> Nat]
    BY <1>9, CostsTyped, SpendTyped DEF Restart, PumpTypeOK
  <2> QED
    BY <1>9, <2>1, NoRunTyped DEF Restart, PumpTypeOK
<1> QED
  BY <1>1, <1>2, <1>3, <1>4, <1>5, <1>6, <1>7, <1>8, <1>9 DEF Next, PumpStep

-----------------------------------------------------------------------------
(* One thing at a time: no handler but the pump's own touches its decision, *)
(* its run or its call, and each of its handlers waits for the others.      *)
LEMMA SerializedKept ==
    ASSUME Serialized, ShiftTypeOK, PumpTypeOK, [Next]_vars
    PROVE  Serialized'
<1> USE ProcsAssumption DEF Serialized, Deciding, Idle, ShiftTypeOK, Procs
<1>1. CASE QueueStep \/ UNCHANGED vars
  BY <1>1 DEF QueueStep, vars, pumpVars
<1>2. CASE ShiftStep
  <2>1. UNCHANGED <<choice, running, run>>
    BY <1>2 DEF ShiftStep, pumpVars
  <2>2. call[Pump].step = "idle" => call'[Pump] = call[Pump]
    <3>1. ASSUME NEW p \in Operators, Begin(p) PROVE call'[Pump] = call[Pump]
      BY <3>1 DEF Begin, ShiftStop, StandDown, Goto, ClearKillSwitch, StaffRead, StopAssignment
    <3>2. ASSUME NEW p \in Procs, Continue(p), call[Pump].step = "idle"
          PROVE  call'[Pump] = call[Pump]
      BY <3>2 DEF Continue, StopRead, StopWrite, ReadActives, Supersede, InsertShift,
                  StopDuplicates, InsertAssignment, Return, Goto
    <3>3. CASE TouchStop \/ Tick \/ TickRaises
      BY <3>3 DEF TouchStop, Tick, TickRaises, Goto
    <3> QED
      BY <1>2, <3>1, <3>2, <3>3 DEF ShiftStep
  <2> QED
    BY <2>1, <2>2
<1>3. CASE MaybeRun
  <2>1. ~running /\ run.state = "none" /\ call[Pump].step = "idle" /\ ~Deciding
    BY <1>3 DEF MaybeRun, DecideSingle, DecideSwarm, TripBudgetBrake, Ready, IdlePump
  <2>2. running' = running /\ run' = run
    BY <1>3 DEF MaybeRun
  <2>3. call' = call \/ choice' = choice
    BY <1>3 DEF MaybeRun, DecideSingle, DecideSwarm, TripBudgetBrake
  <2> QED
    BY <2>1, <2>2, <2>3
<1>4. CASE StartRun \/ StartSwarmRun
  <2>1. run'.state = "live" /\ running' = TRUE
    BY <1>4 DEF StartRun, StartSwarmRun, NoRun
  <2>2. choice'.step = "idle"
    BY <1>4 DEF StartRun, StartSwarmRun, NoChoice
  <2> QED
    BY <2>1, <2>2
<1>5. CASE RunDone \/ RunDown
  BY <1>5 DEF RunDone, RunDown, NoRun
<1>6. CASE CooldownElapses
  BY <1>6 DEF CooldownElapses
<1>7. CASE RunReports \/ RunCrashes
  <2>1. running /\ ~Deciding /\ UNCHANGED <<choice, running, call>>
    BY <1>7 DEF RunReports, RunCrashes
  <2>2. run'.state # "none"
    BY <1>7 DEF RunReports, RunCrashes, PumpTypeOK, Run
  <2> QED
    BY <2>1, <2>2
<1>8. CASE Restart
  BY <1>8 DEF Restart, NoRun, NoChoice
<1> QED
  BY <1>1, <1>2, <1>3, <1>4, <1>5, <1>6, <1>7, <1>8 DEF Next, PumpStep

-----------------------------------------------------------------------------
(* Deciding leaves room for what was decided, a start turns room into a     *)
(* charge or into a debt, and a report pays no more than the debt.          *)
LEMMA BudgetKept ==
    ASSUME TypeOK, Serialized, BudgetInv, [Next]_vars
    PROVE  BudgetInv'
<1> USE BudgetAssumption DEF BudgetInv, WithinCap, OwedFits, ChargesAShift, Deciding
<1>1. CASE QueueStep \/ ShiftStep \/ CooldownElapses \/ UNCHANGED vars
  BY <1>1 DEF QueueStep, ShiftStep, CooldownElapses, vars, pumpVars
<1>2. CASE MaybeRun
  <2>1. UNCHANGED <<dispatched, run>>
    BY <1>2 DEF MaybeRun
  <2>2. \/ choice' = choice
        \/ \E s \in Shifts : WithinBudget(s) /\ choice' = [step |-> "single", shift |-> s, item |-> NoItem]
        \/ \E s \in Shifts, i \in Items :
              SwarmFits(s) /\ choice' = [step |-> "swarm", shift |-> s, item |-> i]
    BY <1>2 DEF MaybeRun, DecideSingle, DecideSwarm, TripBudgetBrake, Newest, QueuedAs, Queued,
                WithStatus
  <2> QED
    BY <2>1, <2>2 DEF WithinBudget, SwarmFits
<1>3. CASE StartRun
  <2>1. run'.kind = "single" /\ run'.shift = choice.shift /\ run'.cost = 0 /\ choice'.step = "idle"
    BY <1>3 DEF StartRun, NoRun, NoChoice
  <2>2. choice.shift \in Shifts /\ dispatched[choice.shift] < Cap
    BY <1>3 DEF StartRun
  <2>3. \A s \in Shifts : dispatched'[s] <= Cap
    BY <1>3, <2>2 DEF StartRun, TypeOK, PumpTypeOK
  <2> QED
    BY <2>1, <2>2, <2>3
<1>4. CASE StartSwarmRun
  <2>1. run'.shift = choice.shift /\ run'.cost = 0 /\ choice'.step = "idle" /\ dispatched' = dispatched
    BY <1>4 DEF StartSwarmRun, NoRun, NoChoice
  <2> QED
    BY <1>4, <2>1 DEF StartSwarmRun
<1>5. CASE RunDone
  <2>1. run'.state = "none" /\ run'.cost = 0 /\ choice' = choice /\ choice.step = "idle"
    BY <1>5 DEF RunDone, NoRun
  <2>2. run.shift \in Shifts /\ run.cost \in Nat
    BY <1>5 DEF RunDone, TypeOK, PumpTypeOK, Run
  <2>3. \A s \in Shifts : dispatched'[s] <= Cap
    BY <1>5, <2>2 DEF RunDone, Charge, TypeOK, PumpTypeOK
  <2> QED
    BY <2>1, <2>3
<1>6. CASE RunDown
  BY <1>6 DEF RunDown, NoRun
<1>7. CASE RunReports
  <2>1. PICK n \in Costs, status \in {"done", "blocked"} :
           run' = [run EXCEPT !.state = "reported", !.status = status, !.cost = n]
    BY <1>7 DEF RunReports
  <2>2. n <= 1 + MaxSubtasks
    BY CostsTyped DEF TypeOK
  <2>3. /\ run'.kind = run.kind /\ run'.shift = run.shift /\ run'.cost = n
        /\ run.state = "live" /\ UNCHANGED <<dispatched, choice>>
    BY <1>7, <2>1 DEF RunReports, TypeOK, PumpTypeOK, Run
  <2> QED
    BY <2>2, <2>3
<1>8. CASE RunCrashes
  <2>1. /\ run'.kind = run.kind /\ run'.shift = run.shift /\ run'.cost = run.cost
        /\ run.state = "live" /\ UNCHANGED <<dispatched, choice>>
    BY <1>8 DEF RunCrashes, TypeOK, PumpTypeOK, Run
  <2> QED
    BY <2>1
<1>9. CASE Restart
  BY <1>9 DEF Restart, NoRun, NoChoice
<1> QED
  BY <1>1, <1>2, <1>3, <1>4, <1>5, <1>6, <1>7, <1>8, <1>9 DEF Next, PumpStep

-----------------------------------------------------------------------------
(* No command makes a row "running", so only a swarm that starts does.      *)
LEMMA CommandsRunNothing ==
    ASSUME QueueTypeOK, QueueStep
    PROVE  \A i \in Items : item'[i].status = "running" => item[i].status = "running"
<1>1. CASE \E s \in Strategies : Enqueue(s)
  BY <1>1 DEF Enqueue, Oldest, WithStatus, QueueTypeOK, Row
<1>2. ASSUME NEW c \in Callers, CommandOf(c)
      PROVE  \A i \in Items : item'[i].status = "running" => item[i].status = "running"
  BY <1>2 DEF CommandOf, ClaimRead, StrategyRead, Finish, FinishedAs, QueueTypeOK, Row
<1>3. ASSUME NEW c \in Callers, Completion(c)
      PROVE  \A i \in Items : item'[i].status = "running" => item[i].status = "running"
  BY <1>3 DEF Completion, ClaimSwap, StrategyWrite, QueueTypeOK, Row
<1> QED
  BY <1>1, <1>2, <1>3 DEF QueueStep

LEMMA AttendedKept ==
    ASSUME TypeOK, Serialized, RunningIsAttended, [Next]_vars
    PROVE  RunningIsAttended'
<1> USE DEF RunningIsAttended, WithStatus
<1>1. CASE QueueStep
  <2>1. run' = run
    BY <1>1 DEF QueueStep, pumpVars
  <2> QED
    BY <1>1, <2>1, CommandsRunNothing DEF TypeOK
<1>2. CASE ShiftStep \/ MaybeRun \/ CooldownElapses \/ UNCHANGED vars
  BY <1>2 DEF ShiftStep, MaybeRun, CooldownElapses, vars, pumpVars
<1>3. CASE StartRun
  BY <1>3 DEF StartRun, Serialized, Deciding
<1>4. CASE StartSwarmRun
  <2>1. \A i \in Items : item[i].status # "running"
    BY <1>4 DEF StartSwarmRun, Serialized, Deciding
  <2>2. run'.state = "live" /\ run'.kind = "swarm" /\ run'.item = choice.item
    BY <1>4 DEF StartSwarmRun, NoRun
  <2>3. \A i \in Items : item'[i].status = "running" => i = choice.item
    BY <1>4, <2>1 DEF StartSwarmRun, RunningNow, TypeOK, QueueTypeOK, Row
  <2> QED
    BY <2>2, <2>3
<1>5. CASE RunDone
  BY <1>5 DEF RunDone, SettleItem, FinishedAs, TypeOK, QueueTypeOK, Row, PumpTypeOK, Run
<1>6. CASE RunDown \/ Restart
  <2>1. item' = Reclaimed
    BY <1>6 DEF RunDown, AfterCrash, Restart, RestartQueue
  <2>2. \A i \in Items : item'[i].status # "running"
    BY <2>1 DEF Reclaimed, Orphaned, InFlight, TypeOK, QueueTypeOK, Row
  <2> QED
    BY <2>2
<1>7. CASE RunReports \/ RunCrashes
  BY <1>7 DEF RunReports, RunCrashes, TypeOK, PumpTypeOK, Run
<1> QED
  BY <1>1, <1>2, <1>3, <1>4, <1>5, <1>6, <1>7 DEF Next, PumpStep

-----------------------------------------------------------------------------
(* The row of a swarm, decided or running, is there: no row ever vanishes.  *)
SwarmRowExists ==
    /\ choice.step = "swarm" => item[choice.item].status # "absent"
    /\ run.state # "none" /\ run.kind = "swarm" => item[run.item].status # "absent"

LEMMA RowsStay ==
    ASSUME TypeOK, [Next]_vars
    PROVE  \A i \in Items : item[i].status # "absent" => item'[i].status # "absent"
<1> SUFFICES ASSUME NEW i \in Items, item[i].status # "absent" PROVE item'[i].status # "absent"
  OBVIOUS
<1> USE DEF TypeOK, QueueTypeOK, Row
<1>1. CASE \E s \in Strategies : Enqueue(s)
  BY <1>1 DEF Enqueue, Oldest, WithStatus
<1>2. CASE \E c \in Callers : CommandOf(c)
  BY <1>2 DEF CommandOf, ClaimRead, StrategyRead, Finish, FinishedAs
<1>3. CASE \E c \in Callers : Completion(c)
  BY <1>3 DEF Completion, ClaimSwap, StrategyWrite
<1>4. CASE ShiftStep \/ MaybeRun \/ StartRun \/ CooldownElapses \/ UNCHANGED vars
  BY <1>4 DEF ShiftStep, MaybeRun, StartRun, CooldownElapses, vars
<1>5. CASE StartSwarmRun
  BY <1>5 DEF StartSwarmRun, RunningNow
<1>6. CASE RunDone
  BY <1>6 DEF RunDone, SettleItem, FinishedAs, PumpTypeOK, Run
<1>7. CASE RunDown \/ Restart
  <2>1. item' = Reclaimed
    BY <1>7, SMTT(30) DEF RunDown, AfterCrash, Restart, RestartQueue
  <2> QED
    BY <2>1 DEF Reclaimed
<1>8. CASE RunReports \/ RunCrashes
  BY <1>8 DEF RunReports, RunCrashes
<1> QED
  BY <1>1, <1>2, <1>3, <1>4, <1>5, <1>6, <1>7, <1>8 DEF Next, PumpStep, QueueStep

LEMMA SwarmRowKept ==
    ASSUME TypeOK, SwarmRowExists, [Next]_vars
    PROVE  SwarmRowExists'
<1> USE DEF SwarmRowExists
<1>1. choice.item \in Items /\ run.item \in Items
  BY DEF TypeOK, PumpTypeOK, Choice, Run
<1>2. CASE QueueStep \/ ShiftStep \/ CooldownElapses \/ UNCHANGED vars
  BY <1>1, <1>2, RowsStay DEF QueueStep, ShiftStep, CooldownElapses, vars, pumpVars
<1>3. CASE MaybeRun
  <2>1. item' = item /\ run' = run
    BY <1>3 DEF MaybeRun
  <2>2. choice' = choice \/ (choice'.step = "swarm" => item[choice'.item].status # "absent")
    BY <1>3 DEF MaybeRun, DecideSingle, DecideSwarm, TripBudgetBrake, Newest, QueuedAs, Queued,
                WithStatus
  <2> QED
    BY <2>1, <2>2
<1>4. CASE StartRun
  BY <1>4 DEF StartRun, NoRun, NoChoice
<1>5. CASE StartSwarmRun
  <2>1. run'.item = choice.item /\ choice'.step = "idle" /\ choice.step = "swarm"
    BY <1>5 DEF StartSwarmRun, NoRun, NoChoice
  <2> QED
    BY <1>1, <2>1, RowsStay
<1>6. CASE RunDone \/ RunDown \/ Restart
  <2>1. run'.state = "none" /\ choice'.step # "swarm"
    BY <1>6 DEF RunDone, RunDown, Restart, NoRun, NoChoice, Deciding
  <2> QED
    BY <2>1
<1>7. CASE RunReports \/ RunCrashes
  <2>1. run.state = "live" /\ run'.kind = run.kind /\ run'.item = run.item /\ UNCHANGED <<item, choice>>
    BY <1>7 DEF RunReports, RunCrashes, TypeOK, PumpTypeOK, Run
  <2> QED
    BY <2>1, SMTT(30)
<1> QED
  BY <1>2, <1>3, <1>4, <1>5, <1>6, <1>7 DEF Next, PumpStep

PumpInv ==
    TypeOK /\ StarterInv /\ Serialized /\ BudgetInv /\ RunningIsAttended /\ SwarmRowExists

LEMMA PumpInvInit == Init => PumpInv
<1> SUFFICES ASSUME Init PROVE PumpInv
  OBVIOUS
<1>1. ShiftTypeOK /\ StarterInv
  BY InitTyped DEF Init, ShiftInit, StarterInv, OneActivePerStarter, OnlyOperatorsStart,
     StartCoversItsOwn, Active, IdleCall
<1>2. QueueTypeOK
  <2>1. [status |-> "absent", strategy |-> "single", by |-> NoOne] \in Row
    BY DEF Row, Statuses, Strategies
  <2> QED
    BY <2>1, NoRequestTyped DEF Init, QueueInit, QueueTypeOK
<1>3. PumpTypeOK
  BY NoRunTyped DEF Init, PumpTypeOK
<1>4. Serialized
  BY <1>1, ProcsAssumption
     DEF Init, ShiftInit, Serialized, Deciding, NoChoice, NoRun, Idle, IdleCall, Procs
<1>5. BudgetInv
  BY BudgetAssumption DEF Init, BudgetInv, WithinCap, OwedFits, ChargesAShift, Deciding,
     NoChoice, NoRun
<1>6. RunningIsAttended
  BY DEF Init, QueueInit, RunningIsAttended, WithStatus
<1>7. SwarmRowExists
  BY DEF Init, SwarmRowExists, NoChoice, NoRun
<1> QED
  BY <1>1, <1>2, <1>3, <1>4, <1>5, <1>6, <1>7 DEF PumpInv, TypeOK

LEMMA PumpInvKept == PumpInv /\ [Next]_vars => PumpInv'
<1> SUFFICES ASSUME PumpInv, [Next]_vars PROVE PumpInv'
  OBVIOUS
<1>1. ShiftTypeOK' /\ StarterInv'
  BY StepOfShifts, ShiftStepKeepsInv DEF PumpInv, TypeOK
<1>2. QueueTypeOK' /\ PumpTypeOK'
  BY QueueKeepsTypes, PumpKeepsTypes DEF PumpInv, TypeOK, BudgetInv
<1>3. Serialized' /\ BudgetInv' /\ RunningIsAttended' /\ SwarmRowExists'
  BY SerializedKept, BudgetKept, AttendedKept, SwarmRowKept DEF PumpInv, TypeOK
<1> QED
  BY <1>1, <1>2, <1>3 DEF PumpInv, TypeOK

(* Every step of the composition is a step of the queue's own protocol, or  *)
(* leaves the queue as it was.  Serialized is what makes it so: a row       *)
(* chosen for a swarm is marked before anything else settles or reclaims.   *)
LEMMA StepOfQueue == PumpInv /\ [Next]_vars => [Queue!QueueNext]_(Queue!queueVars)
<1> SUFFICES ASSUME PumpInv, [Next]_vars PROVE [Queue!QueueNext]_(Queue!queueVars)
  OBVIOUS
<1> DEFINE seen == [request EXCEPT ![Coordinator] = Mark]
<1>0. /\ request \in [Callers \cup {Coordinator} -> Request]
      /\ Serialized /\ choice \in Choice /\ run \in Run
  BY DEF PumpInv, TypeOK, QueueTypeOK, PumpTypeOK
<1>1. CASE QueueStep
  <2>1. choice' = choice
    BY <1>1 DEF QueueStep, pumpVars
  <2>2. ASSUME NEW s \in Strategies, Enqueue(s) PROVE Queue!Enqueue(s)
    BY <1>0, <2>1, <2>2 DEF Enqueue, Oldest, WithStatus, Mark, Queue!Enqueue, Queue!Oldest,
       Queue!WithStatus, NoRequest
  <2>3. ASSUME NEW c \in Callers, CommandOf(c) PROVE Queue!CommandOf(c)
    <3>1. seen[c] = request[c] /\ c # Coordinator
      BY <1>0, CallersAssumption
    <3>2. \A r : request' = [request EXCEPT ![c] = r] => seen' = [seen EXCEPT ![c] = r]
      BY <1>0, <2>1, <3>1 DEF Mark, NoRequest
    <3>3. CASE ClaimRead(c)
      BY <3>1, <3>2, <3>3
         DEF ClaimRead, Oldest, QueuedAs, Queued, WithStatus, Queue!CommandOf, Queue!ClaimRead,
             Queue!Oldest, Queue!QueuedAs, Queue!Queued, Queue!WithStatus
    <3>4. ASSUME NEW i \in Items, NEW s \in Strategies, StrategyRead(c, i, s)
          PROVE  Queue!StrategyRead(c, i, s)
      BY <3>1, <3>2, <3>4
         DEF StrategyRead, Queued, WithStatus, Queue!StrategyRead, Queue!Queued, Queue!WithStatus
    <3>5. ASSUME NEW i \in Items, NEW s \in {"done", "blocked"}, Finish(c, i, s)
          PROVE  Queue!Finish(c, i, s)
      BY <2>1, <3>1, <3>5 DEF Finish, FinishedAs, Mark, NoRequest, Queue!Finish, Queue!FinishedAs
    <3> QED
      BY <2>3, <3>3, <3>4, <3>5 DEF CommandOf, Queue!CommandOf, Queue!Strategies, Strategies
  <2>4. ASSUME NEW c \in Callers, Completion(c) PROVE Queue!Completion(c)
    BY <1>0, <2>1, <2>4, CallersAssumption
       DEF Completion, ClaimSwap, StrategyWrite, Claimable, Answer, Mark, NoRequest,
           Queue!Completion, Queue!ClaimSwap, Queue!StrategyWrite, Queue!Claimable,
           Queue!Answer, Queue!NoRequest
  <2> QED
    BY <1>1, <2>2, <2>3, <2>4 DEF QueueStep, Queue!QueueNext, Queue!Strategies, Strategies
<1>2. CASE ShiftStep \/ StartRun \/ CooldownElapses \/ RunReports \/ RunCrashes \/ UNCHANGED vars
  <2>1. item' = item /\ request' = request
    BY <1>2 DEF ShiftStep, StartRun, CooldownElapses, RunReports, RunCrashes, vars, pumpVars
  <2>2. choice' = choice \/ (choice.step = "single" /\ choice'.step = "idle")
    <3>1. CASE StartRun
      BY <3>1, SMTT(30) DEF StartRun, NoChoice
    <3>2. CASE ~StartRun
      BY <1>2, <3>2 DEF ShiftStep, CooldownElapses, RunReports, RunCrashes, vars, pumpVars
    <3> QED
      BY <3>1, <3>2
  <2>3. Mark' = Mark
    BY <2>2 DEF Mark, NoRequest
  <2> QED
    BY <2>1, <2>3 DEF Queue!queueVars
<1>3. CASE MaybeRun
  <2>1. item' = item /\ request' = request
    BY <1>3 DEF MaybeRun
  <2>2. CASE Mark' = Mark
    BY <2>1, <2>2 DEF Queue!queueVars
  <2>3. CASE \E s \in Shifts : DecideSwarm(s)
    <3>1. PICK i \in Newest(QueuedAs("swarm")) :
             choice'.step = "swarm" /\ choice'.item = i /\ choice.step = "idle"
      BY <2>3 DEF DecideSwarm, Ready, Deciding
    <3>2. i \in Queue!Newest(Queue!QueuedAs("swarm"))
      BY <3>1 DEF Newest, QueuedAs, Queued, WithStatus, Queue!Newest, Queue!QueuedAs,
         Queue!Queued, Queue!WithStatus
    <3>3. seen[Coordinator].step = "none"
      BY <1>0, <3>1 DEF Mark, NoRequest
    <3>4. [request EXCEPT ![Coordinator] = Mark]' =
             [seen EXCEPT ![Coordinator] = [step |-> "mark", item |-> i, strategy |-> "swarm"]]
      BY <1>0, <2>1, <3>1 DEF Mark
    <3> QED
      BY <2>1, <3>2, <3>3, <3>4 DEF Queue!QueueNext, Queue!MarkRead
  <2>4. CASE \E s \in Shifts : DecideSingle(s) \/ TripBudgetBrake(s)
    <3>1. choice.step # "swarm" /\ choice'.step # "swarm"
      BY <2>4 DEF DecideSingle, TripBudgetBrake, Ready, Deciding
    <3>2. Mark' = Mark
      BY <3>1 DEF Mark, NoRequest
    <3> QED
      BY <2>2, <3>2
  <2> QED
    BY <1>3, <2>3, <2>4 DEF MaybeRun
<1>4. CASE StartSwarmRun
  <2>1. seen[Coordinator] = [step |-> "mark", item |-> choice.item, strategy |-> "swarm"]
    BY <1>0, <1>4 DEF StartSwarmRun, Mark
  <2>2. [request EXCEPT ![Coordinator] = Mark]' = [seen EXCEPT ![Coordinator] = NoRequest]
    BY <1>0, <1>4 DEF StartSwarmRun, Mark, NoChoice, NoRequest
  <2>3. item' = Queue!RunningNow(choice.item)
    BY <1>4 DEF StartSwarmRun, RunningNow, Queue!RunningNow
  <2> QED
    BY <2>1, <2>2, <2>3 DEF Queue!QueueNext, Queue!MarkRunning, Queue!Answer, Queue!NoRequest, NoRequest
<1>5. CASE RunDone
  <2>1. \/ item' = item
        \/ item' = FinishedAs(run.item, run.status) /\ item[run.item].status # "absent"
    BY <1>5 DEF RunDone, SettleItem, PumpInv, SwarmRowExists
  <2>2. Mark' = Mark /\ request' = request /\ seen[Coordinator].step = "none"
    BY <1>0, <1>5 DEF RunDone, Mark, NoRequest, Deciding
  <2> QED
    <3>1. CASE item' = item
      BY <2>2, <3>1 DEF Queue!queueVars
    <3>2. CASE item' = FinishedAs(run.item, run.status) /\ item[run.item].status # "absent"
      BY <1>0, <2>2, <3>2 DEF Queue!QueueNext, Queue!Finish, Queue!FinishedAs, FinishedAs, Run
    <3> QED
      BY <2>1, <3>1, <3>2
<1>6. CASE RunDown
  <2>1. item' = Queue!Reclaimed
    BY <1>6 DEF RunDown, AfterCrash, Reclaimed, Orphaned, InFlight, Queue!Reclaimed,
       Queue!Orphaned, Queue!InFlight
  <2>2. request' = request /\ Mark' = Mark
    BY <1>6 DEF RunDown, Mark, NoRequest
  <2> QED
    BY <2>1, <2>2 DEF Queue!QueueNext, Queue!ReclaimOrphans
<1>7. CASE Restart
  <2>1. item' = Queue!Reclaimed
    BY <1>7 DEF Restart, RestartQueue, Reclaimed, Orphaned, InFlight, Queue!Reclaimed,
       Queue!Orphaned, Queue!InFlight
  <2>2. [request EXCEPT ![Coordinator] = Mark]' =
           [c \in Callers \cup {Coordinator} |-> Queue!NoRequest]
    BY <1>0, <1>7 DEF Restart, RestartQueue, NoChoice, Mark, NoRequest, Queue!NoRequest
  <2> QED
    BY <2>1, <2>2 DEF Queue!QueueNext, Queue!RestartQueue
<1> QED
  BY <1>1, <1>2, <1>3, <1>4, <1>5, <1>6, <1>7 DEF Next, PumpStep

(* The queue's rows, the shifts and the pump's state keep their types.      *)
THEOREM TypeCorrect == Spec => []TypeOK
<1>1. PumpInv => TypeOK
  BY DEF PumpInv
<1> QED
  BY <1>1, PumpInvInit, PumpInvKept, PTL DEF Spec

(* budget_status: no shift is ever charged more runs than its cap, swarms   *)
(* and their deferred charge included.                                      *)
THEOREM CapHolds == Spec => []WithinCap
<1>1. PumpInv => WithinCap
  BY DEF PumpInv, BudgetInv
<1> QED
  BY <1>1, PumpInvInit, PumpInvKept, PTL DEF Spec

(* One run at a time: the pump decides nothing while a run lives or while   *)
(* the message it left has not been handled.                                *)
THEOREM RunsAreSerialized == Spec => []Serialized
<1>1. PumpInv => Serialized
  BY DEF PumpInv
<1> QED
  BY <1>1, PumpInvInit, PumpInvKept, PTL DEF Spec

(* No row is left "running" without a child whose end will settle it.       *)
THEOREM NoItemIsStranded == Spec => []RunningIsAttended
<1>1. PumpInv => RunningIsAttended
  BY DEF PumpInv
<1> QED
  BY <1>1, PumpInvInit, PumpInvKept, PTL DEF Spec

(* The pump respects the queue: the whole system implements the protocol    *)
(* that Dispatch describes alone, the pump being one more of its callers.   *)
THEOREM QueueImplemented == Spec => WorksTheQueue
<1>1. Init => Queue!QueueInit
  <2> SUFFICES ASSUME Init PROVE Queue!QueueInit
    OBVIOUS
  <2>1. Mark = NoRequest /\ NoRequest = Queue!NoRequest
    BY DEF Init, NoChoice, Mark, NoRequest, Queue!NoRequest
  <2> QED
    BY <2>1 DEF Init, QueueInit, Queue!QueueInit
<1> QED
  BY <1>1, PumpInvInit, PumpInvKept, StepOfQueue, PTL DEF Spec, WorksTheQueue, Queue!QueueSpec
=============================================================================
