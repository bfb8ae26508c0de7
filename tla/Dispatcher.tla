----------------------------- MODULE Dispatcher -----------------------------
(***************************************************************************)
(* The unattended work pump: BusterClaw.Dispatcher, composed with the      *)
(* queue it works (Dispatch) and the shifts it works for (Orchestration).  *)
(*                                                                         *)
(* The pump is one process, but its handlers read and write the same       *)
(* tables as every CLI request and every operator.  A decision is taken in *)
(* one step from what the pump reads (choice) and acted on in a later one, *)
(* so that whatever the others do in between is seen.  A run is the        *)
(* monitored child: it lives, and then either reports or goes down; what   *)
(* its agent does, it does as one of the callers of the queue.             *)
(*                                                                         *)
(* done_count and failed_count, the provenance of a run and its prompt are *)
(* left out.  spent is history: the agent runs really made for a shift; it *)
(* stops counting at Cap + 1, which is all a property asks of it.          *)
(***************************************************************************)
EXTENDS Dispatch, Orchestration

CONSTANTS
    Agents,         \* the callers that are agents of an unattended run
    Cap,            \* max_runs_per_shift
    MaxSubtasks     \* swarm_max_subtasks

ASSUME AgentsAssumption == Agents \subseteq Callers
ASSUME BudgetAssumption == Cap \in Nat /\ MaxSubtasks \in Nat \ {0}

VARIABLES
    dispatched,     \* dispatched_count of each shift
    spent,          \* history: agent runs made for each shift
    choice,         \* what the pump has decided and not yet done
    running,        \* running_ref and running_pid are set
    run,            \* the monitored child, and the message it leaves
    cooling         \* last_finished_ms is less than cooldown_ms ago

pumpVars == <<dispatched, spent, choice, running, run, cooling>>
vars == <<item, request, shift, assignment, stop, call, failures, restarts,
          dispatched, spent, choice, running, run, cooling>>

Choice == [step : {"idle", "single", "swarm"}, shift : Shifts \cup {NoShift}, item : Items]

\* reported: its :run_done is in the pump's mailbox; down: its :DOWN is.
\* A swarm's report says how the item ends and what the swarm cost.
Run == [state : {"none", "live", "reported", "down"}, kind : {"single", "swarm"},
        shift : Shifts \cup {NoShift}, item : Items,
        status : {"done", "blocked"}, cost : Nat]

PumpTypeOK ==
    /\ dispatched \in [Shifts -> Nat]
    /\ spent \in [Shifts -> Nat]
    /\ choice \in Choice
    /\ running \in BOOLEAN
    /\ run \in Run
    /\ cooling \in BOOLEAN

TypeOK == QueueTypeOK /\ ShiftTypeOK /\ PumpTypeOK

NoItem   == NoRequest.item
NoChoice == [step |-> "idle", shift |-> NoShift, item |-> NoItem]
NoRun    == [state |-> "none", kind |-> "single", shift |-> NoShift, item |-> NoItem,
             status |-> "done", cost |-> 0]
Deciding == choice.step # "idle"

Init ==
    /\ QueueInit
    /\ ShiftInit
    /\ dispatched = [s \in Shifts |-> 0]
    /\ spent = [s \in Shifts |-> 0]
    /\ choice = NoChoice
    /\ running = FALSE
    /\ run = NoRun
    /\ cooling = FALSE

-----------------------------------------------------------------------------
(* maybe_run.  The pump is idle when it is not inside a handler, no run is *)
(* in flight and the cooldown has passed.                                  *)
IdleUnlessLive == ~running \/ run.state # "live"                          \* mutant
IdlePump == ~running

ReadyAttended(s) ==                                                        \* mutant
    /\ IdlePump /\ ~Deciding /\ Idle(Pump) /\ ~cooling
    /\ s \in ActiveShift /\ ~stop /\ Queued # {}
Ready(s) ==
    /\ IdlePump /\ ~Deciding /\ Idle(Pump) /\ ~cooling
    /\ s \in ActiveShift /\ shift[s].unattended
    /\ ~stop
    /\ Queued # {}

WithinBudget(s) == dispatched[s] < Cap
SwarmFitsToday(s) == dispatched[s] < Cap                                  \* mutant
SwarmFits(s) == dispatched[s] + 1 + MaxSubtasks <= Cap

\* A swarm item is preferred when one is queued; list_queued sorts newest first.
DecideSingle(s) ==
    /\ Ready(s) /\ WithinBudget(s) /\ QueuedAs("swarm") = {}
    /\ choice' = [step |-> "single", shift |-> s, item |-> NoItem]
    /\ UNCHANGED call

DecideSwarm(s) ==
    /\ Ready(s) /\ WithinBudget(s) /\ SwarmFits(s)
    /\ \E i \in Newest(QueuedAs("swarm")) :
          choice' = [step |-> "swarm", shift |-> s, item |-> i]
    /\ UNCHANGED call

AtCapOnly(s) == ~WithinBudget(s)                                          \* mutant
OverBudget(s) == ~WithinBudget(s) \/ (QueuedAs("swarm") # {} /\ ~SwarmFits(s))

\* trip_budget_brake calls stop_shift, which looks for the active shift anew.
TripBudgetBrake(s) ==
    /\ Ready(s)
    /\ OverBudget(s)
    /\ Goto(Pump, "stop")
    /\ UNCHANGED choice

MaybeRun ==
    /\ \E s \in Shifts : DecideSingle(s) \/ DecideSwarm(s) \/ TripBudgetBrake(s)
    /\ UNCHANGED <<item, request, shift, assignment, stop, failures, restarts,
                   dispatched, spent, running, run, cooling>>

(* start_run: the shift is charged, then the child is spawned.             *)
StartRun ==
    /\ choice.step = "single"
    /\ dispatched' = [dispatched EXCEPT ![choice.shift] = @ + 1]
    /\ spent' = [spent EXCEPT ![choice.shift] = IF @ > Cap THEN @ ELSE @ + 1]
    /\ run' = [NoRun EXCEPT !.state = "live", !.shift = choice.shift]
    /\ running' = TRUE
    /\ choice' = NoChoice
    /\ UNCHANGED <<item, request, shift, assignment, stop, call, failures, restarts, cooling>>

(* start_swarm_run: the row read at the decision is marked running.        *)
StartSwarmRun ==
    /\ choice.step = "swarm"
    /\ item' = RunningNow(choice.item)
    /\ run' = [NoRun EXCEPT !.state = "live", !.kind = "swarm", !.shift = choice.shift,
                            !.item = choice.item]
    /\ running' = TRUE
    /\ choice' = NoChoice
    /\ UNCHANGED <<request, shift, assignment, stop, call, failures, restarts,
                   dispatched, spent, cooling>>

-----------------------------------------------------------------------------
(* The child.  A single run was paid for when it started; a swarm costs    *)
(* its planner and each sub-run it got to.                                 *)
Costs == IF run.kind = "swarm" THEN 1..(1 + MaxSubtasks) ELSE {0}
Spend(n) == spent' = [spent EXCEPT ![run.shift] = IF @ + n > Cap THEN Cap + 1 ELSE @ + n]

(* It reports: a swarm without a plan has spent its planner and blocks.    *)
RunReports ==
    /\ run.state = "live"
    /\ \E n \in Costs, status \in {"done", "blocked"} :
          /\ n = 1 => status = "blocked"
          /\ Spend(n)
          /\ run' = [run EXCEPT !.state = "reported", !.status = status, !.cost = n]
    /\ UNCHANGED <<item, request, shift, assignment, stop, call, failures, restarts,
                   dispatched, choice, running, cooling>>

(* Or it dies without reporting.                                           *)
RunCrashes ==
    /\ run.state = "live"
    /\ \E n \in Costs : Spend(n)
    /\ run' = [run EXCEPT !.state = "down"]
    /\ UNCHANGED <<item, request, shift, assignment, stop, call, failures, restarts,
                   dispatched, choice, running, cooling>>

(* The pump takes the :run_done: it charges a swarm to the shift that was  *)
(* captured when it started, settles the swarm's item, and is idle again.  *)
Charge == IF run.kind = "swarm"
          THEN [dispatched EXCEPT ![run.shift] = @ + run.cost] ELSE dispatched
LeaveItem == item                                                         \* mutant
RequeueItem == IF run.kind = "swarm" THEN FinishedAs(run.item, "queued") ELSE item \* mutant
SettleItem == IF run.kind = "swarm" THEN FinishedAs(run.item, run.status) ELSE item

RunDone ==
    /\ run.state = "reported" /\ running /\ ~Deciding /\ Idle(Pump)
    /\ dispatched' = Charge
    /\ item' = SettleItem
    /\ run' = NoRun /\ running' = FALSE /\ cooling' = TRUE
    /\ UNCHANGED <<request, shift, assignment, stop, call, failures, restarts, spent, choice>>

(* Or the :DOWN: everything in flight goes back to the queue.              *)
AfterCrashNothing == item                                                 \* mutant
AfterCrash == Reclaimed

RunDown ==
    /\ run.state = "down" /\ running /\ ~Deciding /\ Idle(Pump)
    /\ item' = AfterCrash
    /\ run' = NoRun /\ running' = FALSE /\ cooling' = TRUE
    /\ UNCHANGED <<request, shift, assignment, stop, call, failures, restarts,
                   dispatched, spent, choice>>

CooldownElapses ==
    /\ cooling
    /\ cooling' = FALSE
    /\ UNCHANGED <<item, request, shift, assignment, stop, call, failures, restarts,
                   dispatched, spent, choice, running, run>>

-----------------------------------------------------------------------------
(* The application restarts: the child dies with it, every process forgets *)
(* what it was doing, and DispatchProjector reclaims before the pump and   *)
(* the endpoint are up.                                                    *)
Restart ==
    /\ RestartCalls
    /\ RestartQueue
    /\ choice' = NoChoice
    /\ IF run.state = "live" THEN \E n \in Costs : Spend(n) ELSE UNCHANGED spent
    /\ run' = NoRun /\ running' = FALSE /\ cooling' = FALSE
    /\ UNCHANGED dispatched

(* Everybody else.  An agent acts only while its run lives.                *)
MayAct(c) == c \in Agents => run.state = "live"

QueueStep ==
    /\ \/ \E s \in Strategies : Enqueue(s)
       \/ \E c \in Callers : MayAct(c) /\ CommandOf(c)
       \/ \E c \in Callers : Completion(c)
    /\ UNCHANGED <<shift, assignment, stop, call, failures, restarts, pumpVars>>

\* The pump's own call of stop_shift is the last thing its handler does.
ShiftStep ==
    /\ \/ \E p \in Operators : Begin(p)
       \/ \E p \in Procs : Continue(p)
       \/ TouchStop \/ Tick \/ TickRaises
    /\ UNCHANGED <<item, request, pumpVars>>

PumpStep == MaybeRun \/ StartRun \/ StartSwarmRun \/ RunDone \/ RunDown

Next ==
    \/ QueueStep \/ ShiftStep
    \/ PumpStep \/ CooldownElapses
    \/ RunReports \/ RunCrashes
    \/ Restart

Spec == Init /\ [][Next]_vars

(* The pump's tick is its backstop, so what it may decide it decides; its  *)
(* handlers and the calls that others began go on; run_timeout_ms bounds a *)
(* run; clocks advance and the Orchestrator ticks.  No agent, operator or  *)
(* caller has to do anything.                                              *)
Fairness ==
    /\ WF_vars(PumpStep)
    /\ WF_vars(CooldownElapses)
    /\ WF_vars(RunReports \/ RunCrashes)
    /\ \A p \in Procs : WF_vars(Continue(p) /\ UNCHANGED <<item, request, pumpVars>>)
    /\ WF_vars(Tick /\ UNCHANGED <<item, request, pumpVars>>)

FairSpec == Spec /\ Fairness

-----------------------------------------------------------------------------
(* The run cap: what a shift is charged never passes it, although a swarm  *)
(* is charged only when it ends and to the shift captured when it began.   *)
WithinCap == \A s \in Shifts : dispatched[s] <= Cap

(* Serialized: nothing is decided while a child lives or while a message   *)
(* it left is unread, so a run never overwrites another.                   *)
Serialized ==
    /\ running <=> run.state # "none"
    /\ Deciding => run.state = "none" /\ Idle(Pump)

(* No item is stranded in "running": its swarm lives, or the report or the *)
(* :DOWN that will settle or requeue it is on its way.                     *)
RunningIsAttended ==
    \A i \in WithStatus("running") :
        run.state # "none" /\ run.kind = "swarm" /\ run.item = i

(* The brake works to the end: with the STOP file there to stay, no shift  *)
(* is left, no run is left in flight and none starts any more.             *)
BrakeDrains == <>[]stop => <>[](Active = {} /\ run.state = "none")

(* An unattended shift with work waiting always gets to a run or to its    *)
(* end; no wake-up is lost while a run is in flight or cooling down.       *)
WorkIsServed ==
    []<>(\/ running \/ stop \/ Queued = {}
         \/ \A s \in ActiveShift : ~shift[s].unattended)

(* What was in flight when a run died does not stay in flight.             *)
CrashRequeues == \A i \in Items : (run.state = "down" /\ i \in Held) ~> i \notin Held

(* The pump keeps to the queue's protocol and to the shifts': seen through *)
(* the row it has chosen and not yet marked, every step of the composition *)
(* is a step of Dispatch alone, and one of Orchestration alone, or leaves  *)
(* its state as it was.                                                    *)
Mark == IF choice.step = "swarm"
        THEN [step |-> "mark", item |-> choice.item, strategy |-> "swarm"] ELSE NoRequest
Queue == INSTANCE Dispatch WITH request <- [request EXCEPT ![Coordinator] = Mark]

WorksTheQueue == Queue!QueueSpec

(* The budget brake and the restart are the only ways the pump's side      *)
(* touches a shift, and only an unattended one is braked.                  *)
WorksTheShifts == ShiftSpec

(* "The only in-flight items belong to this dead run - reclaiming them     *)
(* globally is safe" (the :DOWN handler).                                  *)
ReclaimTakesOnlyTheDeadRuns ==
    [][RunDown => \A i \in Held : item[i].by \in Agents \cup {Coordinator}]_vars

(* The cap bounds what a shift really runs, not only what it is charged.   *)
SpentWithinCap == \A s \in Shifts : spent[s] <= Cap
=============================================================================
