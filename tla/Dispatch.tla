------------------------------ MODULE Dispatch ------------------------------
(***************************************************************************)
(* The durable work queue: the dispatch_items table and every operation    *)
(* that BusterClaw.Dispatch and the dispatch_* commands perform on it.     *)
(*                                                                         *)
(* A command runs in the process of its own HTTP request, so two commands  *)
(* interleave between any two of their database statements.  A command     *)
(* that reads a row and later writes it takes two steps here, and keeps    *)
(* the row it read in request[c]; an operation that is one statement takes *)
(* one step.                                                               *)
(*                                                                         *)
(* Items are natural numbers in the order of (inserted_at, id).  The text  *)
(* of an item, its sender and its trust flag are left out, and so are the  *)
(* source and role filters of a claim: they only narrow what a claim sees. *)
(***************************************************************************)
EXTENDS Naturals, FiniteSets

CONSTANTS
    Items,          \* rows the table may come to hold, oldest first
    Callers,        \* processes that run dispatch_* commands
    Coordinator,    \* claimed_by of the pump's own swarm path
    NoOne           \* claimed_by is nil

ASSUME ItemsAssumption == Items \subseteq Nat /\ Items # {}
ASSUME CallersAssumption ==
    Coordinator \notin Callers /\ NoOne \notin Callers /\ Coordinator # NoOne

VARIABLES
    item,           \* the table; status "absent" is a row not inserted yet
    request         \* what each caller, or the pump, has read and not yet acted on

queueVars == <<item, request>>

Strategies == {"single", "swarm"}
InFlight   == {"claimed", "running"}
Settled    == {"done", "failed", "blocked", "cancelled"}
Statuses   == {"absent", "queued"} \cup InFlight \cup Settled

Row == [status : Statuses, strategy : Strategies, by : Callers \cup {Coordinator, NoOne}]

\* item and strategy mean nothing while step is "none".
Request == [step : {"none", "claim", "strategy", "mark"}, item : Items, strategy : Strategies]

QueueTypeOK ==
    /\ item \in [Items -> Row]
    /\ request \in [Callers \cup {Coordinator} -> Request]

WithStatus(s) == {i \in Items : item[i].status = s}
Queued        == WithStatus("queued")
QueuedAs(s)   == {i \in Queued : item[i].strategy = s}
Held          == {i \in Items : item[i].status \in InFlight}
Oldest(S)     == {i \in S : \A j \in S : i <= j}
Newest(S)     == {i \in S : \A j \in S : j <= i}

NoRequest == [step |-> "none", item |-> CHOOSE i \in Items : TRUE, strategy |-> "single"]
Answer(c) == request' = [request EXCEPT ![c] = NoRequest]

QueueInit ==
    /\ item = [i \in Items |-> [status |-> "absent", strategy |-> "single", by |-> NoOne]]
    /\ request = [c \in Callers \cup {Coordinator} |-> NoRequest]

-----------------------------------------------------------------------------
(* dispatch_enqueue and enqueue_gmail: one insert.                         *)
Enqueue(s) ==
    \E i \in Oldest(WithStatus("absent")) :
        /\ item' = [item EXCEPT ![i].status = "queued", ![i].strategy = s]
        /\ UNCHANGED request

(* claim_next first selects the oldest queued single-strategy row; with    *)
(* none it answers :empty at once.                                         *)
ClaimRead(c) ==
    /\ request[c].step = "none"
    /\ \E i \in Oldest(QueuedAs("single")) :
          request' = [request EXCEPT ![c] = [step |-> "claim", item |-> i, strategy |-> "single"]]
    /\ UNCHANGED item

(* It then updates that row on condition that it is still queued.  A count *)
(* of 0 answers :not_claimable.  The condition does not repeat the         *)
(* strategy the row was selected by.                                       *)
ClaimableUnchecked(i) == TRUE                   \* mutant: update by id alone
Claimable(i) == item[i].status = "queued"

ClaimSwap(c) ==
    /\ request[c].step = "claim"
    /\ LET i == request[c].item
       IN  item' = IF Claimable(i)
                   THEN [item EXCEPT ![i].status = "claimed", ![i].by = c]
                   ELSE item
    /\ Answer(c)

(* dispatch_strategy reads the row; set_strategy refuses (and changes      *)
(* nothing) unless the row it was handed is queued.                        *)
StrategyRead(c, i, s) ==
    /\ request[c].step = "none"
    /\ i \in Queued
    /\ item[i].strategy # s
    /\ request' = [request EXCEPT ![c] = [step |-> "strategy", item |-> i, strategy |-> s]]
    /\ UNCHANGED item

(* The update it then makes is unconditional: it names the row by id.      *)
StrategyWrite(c) ==
    /\ request[c].step = "strategy"
    /\ item' = [item EXCEPT ![request[c].item].strategy = request[c].strategy]
    /\ Answer(c)

(* dispatch_done, dispatch_block, the finish at the end of dispatch_reply, *)
(* and the pump's own finish_swarm_item: any caller, any row, whatever its *)
(* status.  The read that precedes the update is not a step, for the       *)
(* update does not depend on what it saw.                                  *)
FinishedBeyondEnum(i, s) == [item EXCEPT ![i].status = "closed"]         \* mutant
FinishedAs(i, s) == [item EXCEPT ![i].status = s]

Finish(c, i, s) ==
    /\ request[c].step = "none"
    /\ item[i].status # "absent"
    /\ item' = FinishedAs(i, s)
    /\ UNCHANGED request

(* mark_running, called by the pump with a row it read as queued: again an *)
(* update by id, whatever the row has become.                              *)
RunningNow(i) == [item EXCEPT ![i].status = "running", ![i].by = Coordinator]

(* reclaim_orphans: one update over every row in flight, whoever holds it. *)
OrphanedUnlessQueued(i) == item[i].status \notin {"absent", "queued"}   \* mutant
Orphaned(i) == item[i].status \in InFlight

Reclaimed ==
    [i \in Items |-> IF Orphaned(i)
                     THEN [item[i] EXCEPT !.status = "queued", !.by = NoOne]
                     ELSE item[i]]

-----------------------------------------------------------------------------
(* What the callers in the set active may do.  A command under way         *)
(* completes even when its caller is gone: the request process is the      *)
(* server's.                                                               *)
CommandOf(c) ==
    \/ ClaimRead(c)
    \/ \E i \in Items, s \in Strategies : StrategyRead(c, i, s)
    \/ \E i \in Items, s \in {"done", "blocked"} : Finish(c, i, s)

Completion(c) == ClaimSwap(c) \/ StrategyWrite(c)

(* Taken alone, the queue must bear a pump that looks for a swarm row and  *)
(* marks it at any later time, and one that reclaims at any time;          *)
(* Dispatcher says when it does.                                           *)
MarkRead ==
    /\ request[Coordinator].step = "none"
    /\ \E i \in Newest(QueuedAs("swarm")) :
          request' = [request EXCEPT ![Coordinator] =
                         [step |-> "mark", item |-> i, strategy |-> "swarm"]]
    /\ UNCHANGED item

MarkRunning ==
    /\ request[Coordinator].step = "mark"
    /\ item' = RunningNow(request[Coordinator].item)
    /\ Answer(Coordinator)

ReclaimOrphans ==
    /\ item' = Reclaimed
    /\ UNCHANGED request

(* The application restarts: what anyone was about to do is lost, and the  *)
(* projector reclaims before a pump or a command runs again.               *)
RestartQueue ==
    /\ item' = Reclaimed
    /\ request' = [c \in Callers \cup {Coordinator} |-> NoRequest]

QueueNext ==
    \/ \E s \in Strategies : Enqueue(s)
    \/ \E c \in Callers : CommandOf(c)
    \/ \E c \in Callers : Completion(c)
    \/ MarkRead \/ MarkRunning
    \/ \E i \in Items, s \in {"done", "blocked"} : Finish(Coordinator, i, s)
    \/ ReclaimOrphans
    \/ RestartQueue

QueueSpec == QueueInit /\ [][QueueNext]_queueVars

-----------------------------------------------------------------------------
(* However claims interleave, a row gets a new holder only out of the      *)
(* queue: the loser of two claims that read the same row answers           *)
(* :not_claimable and takes nothing.                                       *)
NoClaimIsStolen ==
    [][\A c \in Callers, i \in Items :
          item'[i].by = c /\ item[i].by # c => item[i].status = "queued"]_queueVars

(* No operation hands a row that was settled back to the queue: reclaiming *)
(* touches only what was in flight, and a late claim or a late change of   *)
(* strategy does not reopen what another caller closed meanwhile.          *)
SettledStaysOutOfTheQueue ==
    [][\A i \in Items : item[i].status \in Settled => item'[i].status \notin {"queued", "claimed"}]_queueVars
=============================================================================
