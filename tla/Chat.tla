-------------------------------- MODULE Chat --------------------------------
(***************************************************************************)
(* One chat conversation: the BusterClaw.Agent.Chat process, its rows in   *)
(* the delivery ledger (BusterClaw.Agent.Deliveries), and the agent        *)
(* processes it talks to through the Claude transports.                    *)
(*                                                                         *)
(* The process handles one mailbox message at a time.  Only its crash and  *)
(* the agent processes interleave with a handler, so a handler is cut into *)
(* steps only where it hands a message to an agent before it writes the    *)
(* ledger; pc says where it stands, and the next mailbox message is taken  *)
(* when pc is "ready".                                                     *)
(*                                                                         *)
(* A turn is named by the message that started it, and so is an operating  *)
(* system process by the message it was spawned for; the token of a run's  *)
(* timer is the turn too.  Text, attachments, transcript, cost and session *)
(* id are left out, and ledger writes succeed.                             *)
(***************************************************************************)
EXTENDS Integers, SequencesExt

CONSTANTS
    Messages,       \* what the operator may submit, numbered as it is sent
    Kinds,          \* transports a conversation may open
    None,           \* nil
    MaxCrashes      \* bound on the crashes, or stops and reopenings, of the process

Transports == {"one_shot", "duplex"}

ASSUME KindsAssumption    == Kinds \subseteq Transports /\ Kinds # {}
ASSUME MessagesAssumption == Messages \subseteq Nat /\ MaxCrashes \in Nat
ASSUME NoneAssumption     == None \notin Nat \cup Transports

VARIABLES
    row,            \* the ledger; status "absent" is a message not recorded yet
    queue,          \* messages on deck, in memory
    chat,           \* status, transport, port and turn of the process
    pc,             \* where its handler stands
    proc,           \* agent processes, and what they sent that is in the mailbox
    fired,          \* turns whose run_timeout message is in the mailbox
    aim,            \* the turn a steer still in the mailbox was aimed at
    crashes,
    ran,            \* history: how often a message was handed to an agent
    torn,           \* history: messages a crash caught between the agent and the ledger
    dropped,        \* history: messages the operator took off the queue
    reordered       \* history: the operator rearranged the queue

vars == <<row, queue, chat, pc, proc, fired, aim, crashes, ran, torn, dropped, reordered>>
history == <<crashes, ran, torn, dropped, reordered>>

Unfinished == {"pending", "queued"}
Statuses   == {"absent", "delivered", "uncertain", "failed"} \cup Unfinished
Row == [status : Statuses, position : Int]

\* alive: the port is open.  stdin counts lines not yet read, results and
\* exited are messages not yet handled.
Proc == [alive : BOOLEAN, duplex : BOOLEAN, working : BOOLEAN, stdin : Nat, results : Nat,
         exited : BOOLEAN]
Unborn == [alive |-> FALSE, duplex |-> FALSE, working |-> FALSE, stdin |-> 0, results |-> 0,
           exited |-> FALSE]
Spawned(kind) ==
    IF kind = "duplex" THEN [Unborn EXCEPT !.alive = TRUE, !.duplex = TRUE, !.stdin = 1]
                       ELSE [Unborn EXCEPT !.alive = TRUE, !.working = TRUE]

IdleChat == [status |-> "idle", transport |-> None, port |-> None, turn |-> None]
At(step, m, from) == [step |-> step, msg |-> m, from |-> from]
AtReady    == At("ready", None, None)
AtDispatch == At("dispatch", None, None)

Ready      == pc.step = "ready"
Running    == chat.status = "running"
Absent(m)  == row[m].status = "absent"
Recorded   == {m \in Messages : ~Absent(m)}
Fresh(m)   == Absent(m) /\ aim[m] = None
NextFresh(m) == Fresh(m) /\ \A n \in Messages : Fresh(n) => m <= n
UnfinishedRows == {m \in Messages : row[m].status \in Unfinished}

ChatTypeOK ==
    /\ row \in [Messages -> Row]
    /\ queue \in Seq(Messages) /\ IsInjective(queue)
    /\ chat \in [status : {"idle", "running"}, transport : Kinds \cup {None},
                 port : Messages \cup {None}, turn : Messages \cup {None}]
    /\ Running <=> chat.turn # None
    /\ chat.transport = None <=> chat.port = None
    /\ pc \in [step : {"ready", "dispatch", "starting", "started", "steered"},
               msg : Messages \cup {None}, from : {None, "submit", "dispatch"}]
    /\ proc \in [Messages -> Proc]
    /\ fired \subseteq Messages
    /\ aim \in [Messages -> Messages \cup {None}]
    /\ crashes \in 0..MaxCrashes
    /\ ran \in [Messages -> Nat]
    /\ torn \subseteq Messages /\ dropped \subseteq Messages /\ reordered \in BOOLEAN

Init ==
    /\ row = [m \in Messages |-> [status |-> "absent", position |-> 0]]
    /\ queue = <<>> /\ chat = IdleChat /\ pc = AtReady
    /\ proc = [m \in Messages |-> Unborn]
    /\ fired = {} /\ aim = [m \in Messages |-> None]
    /\ crashes = 0 /\ ran = [m \in Messages |-> 0]
    /\ torn = {} /\ dropped = {} /\ reordered = FALSE

-----------------------------------------------------------------------------
(* The ledger.                                                             *)
NextPosition  == Max({row[m].position : m \in Recorded} \cup {0}) + 1
FrontAtBack   == NextPosition                                               \* mutant
FrontPosition == Min({row[m].position : m \in UnfinishedRows} \cup {NextPosition}) - 1

RecordAs(m, status, position) ==
    row' = [row EXCEPT ![m] = [status |-> status, position |-> position]]
Transition(m, status) == row' = [row EXCEPT ![m].status = status]

-----------------------------------------------------------------------------
(* Submissions.  The operator's screen shows the running turn when a steer *)
(* is sent; the process takes the call when it gets to it.                 *)
AimSteer(m) ==
    /\ Running /\ NextFresh(m)
    /\ aim' = [aim EXCEPT ![m] = chat.turn]
    /\ UNCHANGED <<row, queue, chat, pc, proc, fired, history>>

Answer(m) == aim' = [aim EXCEPT ![m] = None]

SubmitIdle(m) ==
    /\ Ready /\ ~Running /\ Absent(m) /\ (aim[m] # None \/ NextFresh(m))
    /\ RecordAs(m, "pending", NextPosition)
    /\ pc' = At("starting", m, "submit")
    /\ Answer(m)
    /\ UNCHANGED <<queue, chat, proc, fired, history>>

Enqueue(m) ==
    /\ RecordAs(m, "queued", NextPosition)
    /\ queue' = Append(queue, m)
    /\ Answer(m)
    /\ UNCHANGED <<chat, pc, proc, fired, history>>

SubmitRunning(m) == Ready /\ Running /\ NextFresh(m) /\ Enqueue(m)

(* A steer, handled while a turn is running, goes to that turn: the call   *)
(* carries no turn.  A one-shot transport cannot steer and a duplex one    *)
(* refuses an oversized line; either way the message waits its turn.       *)
Steerable(m) == Ready /\ Running /\ Absent(m) /\ aim[m] # None

SteerRefused(m) == Steerable(m) /\ Enqueue(m)

(* ChatTransport.ClaudeDuplex: is there a live process to write to?        *)
AtHand == chat.transport = "duplex" /\ proc[chat.port].alive

SteerWritten(m) ==
    /\ Steerable(m) /\ AtHand
    /\ RecordAs(m, "pending", NextPosition)
    /\ proc' = [proc EXCEPT ![chat.port].stdin = @ + 1]
    /\ ran' = [ran EXCEPT ![m] = @ + 1]
    /\ pc' = At("steered", m, None)
    /\ UNCHANGED <<queue, chat, fired, aim, crashes, torn, dropped, reordered>>

CommitSteer ==
    /\ pc.step = "steered"
    /\ Transition(pc.msg, "uncertain")
    /\ pc' = AtReady
    /\ Answer(pc.msg)
    /\ UNCHANGED <<queue, chat, proc, fired, history>>

(* The process of the turn has died and its exit is still in the mailbox:  *)
(* the message becomes the next turn, in the queue and in the ledger.      *)
SteerMissed(m) ==
    /\ Steerable(m) /\ chat.transport = "duplex" /\ ~AtHand
    /\ RecordAs(m, "queued", FrontPosition)
    /\ queue' = <<m>> \o queue
    /\ Answer(m)
    /\ UNCHANGED <<chat, pc, proc, fired, history>>

-----------------------------------------------------------------------------
(* start_run and dispatch_next.                                            *)
Opens == IF chat.transport = None THEN Kinds ELSE {chat.transport}

WriteTurn ==
    /\ AtHand
    /\ proc' = [proc EXCEPT ![chat.port].stdin = @ + 1]
    /\ UNCHANGED chat

SpawnTurn ==
    /\ ~AtHand
    /\ \E kind \in Opens :
          /\ proc' = [proc EXCEPT ![pc.msg] = Spawned(kind)]
          /\ chat' = [chat EXCEPT !.transport = kind, !.port = pc.msg]

StartTurn ==
    /\ pc.step = "starting"
    /\ WriteTurn \/ SpawnTurn
    /\ ran' = [ran EXCEPT ![pc.msg] = @ + 1]
    /\ pc' = [pc EXCEPT !.step = "started"]
    /\ UNCHANGED <<row, queue, fired, aim, crashes, torn, dropped, reordered>>

CommitStart ==
    /\ pc.step = "started"
    /\ Transition(pc.msg, "delivered")
    /\ chat' = [chat EXCEPT !.status = "running", !.turn = pc.msg]
    /\ pc' = AtReady
    /\ UNCHANGED <<queue, proc, fired, aim, history>>

(* The duplex transport spawns its process and then refuses an oversized   *)
(* line: the answer is an error and carries no handle, so nobody keeps the *)
(* process, which waits for input.                                         *)
SpawnForgotten ==
    /\ ~AtHand /\ "duplex" \in Opens
    /\ proc' = [proc EXCEPT ![pc.msg] = [Spawned("duplex") EXCEPT !.stdin = 0]]

(* The turn is not started: a submission answers the error, dispatch_next  *)
(* goes on.                                                                *)
StartFails ==
    /\ pc.step = "starting"
    /\ UNCHANGED proc \/ SpawnForgotten
    /\ Transition(pc.msg, "failed")
    /\ pc' = IF pc.from = "submit" THEN AtReady ELSE AtDispatch
    /\ UNCHANGED <<queue, chat, fired, aim, history>>

DispatchNext ==
    /\ pc.step = "dispatch"
    /\ IF queue = <<>> THEN pc' = AtReady /\ UNCHANGED queue
                       ELSE pc' = At("starting", Head(queue), "dispatch") /\ queue' = Tail(queue)
    /\ UNCHANGED <<row, chat, proc, fired, aim, history>>

-----------------------------------------------------------------------------
(* The ends of a turn.  finish_turn keeps the transport, finish_run and    *)
(* drop_transport forget it; each hands over to dispatch_next.             *)
FinishTurnKeepsTurn == chat' = [chat EXCEPT !.status = "idle"] /\ pc' = AtDispatch \* mutant
FinishTurn == chat' = [chat EXCEPT !.status = "idle", !.turn = None] /\ pc' = AtDispatch
FinishRun == chat' = IdleChat /\ pc' = AtDispatch

Killed(p) == [proc EXCEPT ![p].alive = FALSE, ![p].working = FALSE, ![p].stdin = 0]
KillNothing == proc                                                         \* mutant
KillPort == IF chat.port = None THEN proc ELSE Killed(chat.port)

CurrentAny(p) == chat.port # None                                           \* mutant
Current(p) == p = chat.port

(* A result event ends the turn of the process it comes from; it does not  *)
(* say which turn.                                                         *)
HandleResult(p) ==
    /\ Ready /\ proc[p].results > 0
    /\ proc' = [proc EXCEPT ![p].results = @ - 1]
    /\ IF Current(p) THEN FinishTurn ELSE UNCHANGED <<chat, pc>>
    /\ UNCHANGED <<row, queue, fired, aim, history>>

HandleExit(p) ==
    /\ Ready /\ proc[p].exited /\ proc[p].results = 0
    /\ proc' = [proc EXCEPT ![p].exited = FALSE]
    /\ IF Current(p) THEN FinishRun ELSE UNCHANGED <<chat, pc>>
    /\ UNCHANGED <<row, queue, fired, aim, history>>

TimesOutNever(m) == FALSE                                                   \* mutant
TimesOut(m) == Running /\ chat.turn = m

TimerFires(m) ==
    /\ Running /\ chat.turn = m /\ m \notin fired
    /\ fired' = fired \cup {m}
    /\ UNCHANGED <<row, queue, chat, pc, proc, aim, history>>

HandleTimeout(m) ==
    /\ Ready /\ m \in fired
    /\ fired' = fired \ {m}
    /\ IF TimesOut(m) THEN proc' = KillPort /\ FinishRun ELSE UNCHANGED <<proc, chat, pc>>
    /\ UNCHANGED <<row, queue, aim, history>>

-----------------------------------------------------------------------------
(* What the operator does to a turn and to the queue.                      *)
Interrupt ==
    /\ Ready /\ Running
    /\ proc' = KillPort /\ FinishRun
    /\ UNCHANGED <<row, queue, fired, aim, history>>

Rearrange(q) == queue' = q /\ reordered' = (reordered \/ q # queue)

(* A message is on deck once.                                              *)
Without(m) == RemoveAt(queue, CHOOSE i \in DOMAIN queue : queue[i] = m)

Barge(m) ==
    /\ Ready /\ m \in ToSet(queue)
    /\ Rearrange(<<m>> \o Without(m))
    /\ IF Running THEN proc' = KillPort /\ FinishRun
                  ELSE pc' = AtDispatch /\ UNCHANGED <<proc, chat>>
    /\ UNCHANGED <<row, fired, aim, crashes, ran, torn, dropped>>

(* Neither touches the ledger.                                             *)
RemoveQueued(m) ==
    /\ Ready /\ m \in ToSet(queue)
    /\ queue' = Without(m)
    /\ dropped' = dropped \cup {m}
    /\ UNCHANGED <<row, chat, pc, proc, fired, aim, crashes, ran, torn, reordered>>

ReorderQueue ==
    /\ Ready
    /\ \E q \in SetToSeqs(ToSet(queue)) : Rearrange(q)
    /\ UNCHANGED <<row, chat, pc, proc, fired, aim, crashes, ran, torn, dropped>>

Reset ==
    /\ Ready
    /\ proc' = KillPort /\ chat' = IdleChat /\ queue' = <<>>
    /\ dropped' = dropped \cup ToSet(queue) /\ reordered' = FALSE
    /\ UNCHANGED <<row, pc, fired, aim, crashes, ran, torn>>

-----------------------------------------------------------------------------
(* The process goes away, in the middle of a handler or between two, and   *)
(* init recovers the queue from the ledger.  Ports close with their owner, *)
(* and calls, timers and port messages of the old process are gone.        *)
ResumableUncertain == {m \in Messages : row[m].status \in Unfinished \cup {"uncertain"}} \* mutant
ResumableQueued == {m \in Messages : row[m].status = "queued"}              \* mutant
Resumable == UnfinishedRows

InLedgerOrder(q) == \A i, j \in DOMAIN q : i < j => row[q[i]].position < row[q[j]].position

Crash ==
    /\ crashes < MaxCrashes /\ crashes' = crashes + 1
    /\ \E q \in SetToSeqs(Resumable) : InLedgerOrder(q) /\ queue' = q
    /\ chat' = IdleChat /\ pc' = AtReady
    /\ proc' = [p \in Messages |-> Unborn] /\ fired' = {}
    /\ aim' = [m \in Messages |-> None]
    /\ torn' = torn \cup {m \in {pc.msg} : pc.step \in {"started", "steered"}}
    /\ dropped' = {} /\ reordered' = FALSE
    /\ UNCHANGED <<row, ran>>

-----------------------------------------------------------------------------
(* The agent processes (external).  A duplex one takes a line into the     *)
(* turn it is working on, or starts a turn with it; a one-shot one exits   *)
(* when its turn is done.  Any may die.                                    *)
ProcReads(p) ==
    /\ proc[p].alive /\ proc[p].stdin > 0
    /\ proc' = [proc EXCEPT ![p].stdin = @ - 1, ![p].working = TRUE]
    /\ UNCHANGED <<row, queue, chat, pc, fired, aim, history>>

ProcFinishes(p) ==
    /\ proc[p].alive /\ proc[p].duplex /\ proc[p].working
    /\ proc' = [proc EXCEPT ![p].working = FALSE, ![p].results = @ + 1]
    /\ UNCHANGED <<row, queue, chat, pc, fired, aim, history>>

ProcExits(p) ==
    /\ proc[p].alive
    /\ proc' = [proc EXCEPT ![p].alive = FALSE, ![p].working = FALSE, ![p].stdin = 0,
                            ![p].exited = TRUE]
    /\ UNCHANGED <<row, queue, chat, pc, fired, aim, history>>

-----------------------------------------------------------------------------
OperatorStops == Interrupt \/ Reset \/ \E m \in Messages : Barge(m)
Submit(m)     == SubmitIdle(m) \/ SubmitRunning(m)
                 \/ SteerRefused(m) \/ SteerWritten(m) \/ SteerMissed(m)
Continue      == CommitSteer \/ StartTurn \/ CommitStart \/ StartFails \/ DispatchNext

Next ==
    \/ Continue \/ OperatorStops \/ ReorderQueue \/ Crash
    \/ \E m \in Messages :
         \/ AimSteer(m) \/ Submit(m) \/ RemoveQueued(m) \/ TimerFires(m)
         \/ HandleResult(m) \/ HandleExit(m) \/ HandleTimeout(m)
         \/ ProcReads(m) \/ ProcFinishes(m) \/ ProcExits(m)

Spec == Init /\ [][Next]_vars

(* The process goes on with its handler or takes some message of its       *)
(* mailbox, and a timer fires.  Nothing is assumed of the agent processes. *)
Works == \/ Continue
         \/ \E m \in Messages : HandleResult(m) \/ HandleExit(m) \/ HandleTimeout(m)

Fairness == WF_vars(Works) /\ WF_vars(\E m \in Messages : TimerFires(m))

FairSpec == Spec /\ Fairness

-----------------------------------------------------------------------------
(* One turn in flight per conversation: no two agent processes are at work *)
(* or have work to do, after any order of timeouts, stops, exits and stale *)
(* messages.                                                               *)
Busy(p) == proc[p].alive /\ (proc[p].working \/ proc[p].stdin > 0)
OneBusyProcess == \A p, q \in Messages : Busy(p) /\ Busy(q) => p = q

(* A message the ledger owes the operator is on deck or being started,     *)
(* unless the operator took it off: steers that miss, failing starts and   *)
(* a restart lose nothing.                                                 *)
NothingIsLost ==
    \A m \in UnfinishedRows : m \in ToSet(queue) \/ m = pc.msg \/ m \in dropped

(* No message is handed to an agent twice, over stops and restarts, but    *)
(* one that a crash caught after the agent had it and before the ledger    *)
(* knew: recovery resumes pending and queued rows only.                    *)
RunsOnce == \A m \in Messages : ran[m] > 1 => m \in torn

(* What the operator did not rearrange is on deck in the ledger's order,   *)
(* so that a restart brings back the order shown (move_to_front).          *)
LedgerKeepsOrder == ~reordered => InLedgerOrder(queue)

(* A turn ends because its own process reported or exited, its own timer   *)
(* fired, or the operator or a crash stopped it; never by a message of an  *)
(* earlier run's process or timer.                                         *)
TurnsEndForCause ==
    [][(Running /\ chat'.turn # chat.turn) =>
          \/ proc[chat.port].results > 0 \/ proc[chat.port].exited
          \/ chat.turn \in fired
          \/ OperatorStops \/ Crash]_vars

(* A message on deck behind a running turn leaves the deck, whatever the   *)
(* agent does, unless a crash leaves it there with the process idle.       *)
QueueMoves ==
    \A m \in Messages :
        (m \in ToSet(queue) /\ Running) ~>
            (m \notin ToSet(queue) \/ (crashes > 0 /\ Ready /\ ~Running))

(* Deliveries.recover: a pending or queued row was never handed to a       *)
(* backend, so that running it applies nothing twice.                      *)
ResumesOnlyUnsent == pc.step = "starting" => ran[pc.msg] = 0
=============================================================================
