----------------------------- MODULE ChatProofs -----------------------------
(***************************************************************************)
(* One turn in flight per conversation, for any number of messages, any    *)
(* transports and any number of crashes: no two agent processes are busy.  *)
(*                                                                         *)
(* The invariant says that a busy process is the one the conversation      *)
(* talks to (Attached).  A start gives work to another one only if it does *)
(* not find the first alive, so it must never start with a one-shot        *)
(* transport at hand (FreshOneShot), and a result event, the only end of a *)
(* turn that keeps the transport, must come from a duplex process          *)
(* (ResultsAreDuplex, PortMatches).  An exit forgets the transport, so the *)
(* process must be dead (ExitedIsDead).                                    *)
(***************************************************************************)
EXTENDS Chat, ListLemmas

ProcTypeOK ==
    /\ proc \in [Messages -> Proc]
    /\ chat = [status |-> chat.status, transport |-> chat.transport, port |-> chat.port,
               turn |-> chat.turn]
    /\ chat.transport \in Kinds \cup {None}
    /\ pc = At(pc.step, pc.msg, pc.from)

Attached == \A p \in Messages : Busy(p) => p = chat.port
Unopened == chat.transport = None => chat.port = None
PortMatches == \A p \in Messages : p = chat.port => (proc[p].duplex <=> chat.transport = "duplex")
ExitedIsDead == \A p \in Messages : proc[p].exited => ~proc[p].alive
ResultsAreDuplex == \A p \in Messages : proc[p].results > 0 => proc[p].duplex
IdleBetweenTurns == pc.step \in {"dispatch", "starting", "started"} => ~Running
FreshOneShot == ~Running /\ pc.step # "started" => chat.transport # "one_shot"

ProcInv == /\ ProcTypeOK /\ Attached /\ Unopened /\ PortMatches /\ ExitedIsDead /\ ResultsAreDuplex
           /\ IdleBetweenTurns /\ FreshOneShot

-----------------------------------------------------------------------------
(* A step of one message of the operator's that leaves the processes and   *)
(* the conversation's transport alone.                                     *)
LEMMA QuietSteps ==
    ASSUME ProcInv, NEW m \in Messages,
           AimSteer(m) \/ SubmitIdle(m) \/ SubmitRunning(m) \/ SteerRefused(m)
           \/ SteerMissed(m) \/ RemoveQueued(m) \/ TimerFires(m)
    PROVE  ProcInv'
<1>1. UNCHANGED <<proc, chat>>
  BY DEF AimSteer, SubmitIdle, SubmitRunning, SteerRefused, SteerMissed, Enqueue, RemoveQueued,
         TimerFires, history
<1>2. \/ pc' = pc
      \/ ~Running /\ Ready /\ pc' = At("starting", m, "submit")
  BY DEF AimSteer, SubmitIdle, SubmitRunning, SteerRefused, SteerMissed, Enqueue, RemoveQueued,
         TimerFires, history
<1> QED
  BY <1>1, <1>2 DEF ProcInv, ProcTypeOK, Attached, Busy, Unopened, PortMatches, ExitedIsDead,
         ResultsAreDuplex, IdleBetweenTurns, FreshOneShot, At, Proc, Ready, Running

(* No process but the one at hand gets work, none changes its kind, and    *)
(* only a duplex one reports results.                                      *)
Quieter ==
    /\ proc' \in [Messages -> Proc]
    /\ \A q \in Messages : Busy(q)' => Busy(q) \/ q = chat.port
    /\ \A q \in Messages : proc'[q].duplex = proc[q].duplex
    /\ \A q \in Messages : proc'[q].results > 0 => proc[q].duplex
    /\ \A q \in Messages : proc'[q].exited => ~proc'[q].alive

LEMMA OneRecordQuieter ==
    ASSUME ProcInv, NEW p \in Messages, NEW r \in Proc, proc' = [proc EXCEPT ![p] = r],
           r.alive /\ (r.working \/ r.stdin > 0) => Busy(p) \/ p = chat.port,
           r.duplex = proc[p].duplex,
           r.results > 0 => proc[p].duplex, r.exited => ~r.alive
    PROVE  Quieter
<1>1. proc' \in [Messages -> Proc]
  BY DEF ProcInv, ProcTypeOK
<1>2. \A q \in Messages : proc'[q] = IF q = p THEN r ELSE proc[q]
  BY DEF ProcInv, ProcTypeOK
<1> QED
  BY <1>1, <1>2 DEF Quieter, Busy, ProcInv, ResultsAreDuplex, ExitedIsDead

LEMMA QuieterKeepsInv ==
    ASSUME ProcInv, Quieter, UNCHANGED <<chat, pc>>
    PROVE  ProcInv'
BY DEF Quieter, ProcInv, ProcTypeOK, Attached, Busy, Unopened, PortMatches, ExitedIsDead,
         ResultsAreDuplex, IdleBetweenTurns, FreshOneShot, At, Ready, Running

(* The agent processes by themselves: none comes to life.                  *)
LEMMA ProcSteps ==
    ASSUME ProcInv, NEW p \in Messages, ProcReads(p) \/ ProcFinishes(p) \/ ProcExits(p)
    PROVE  ProcInv'
<1>1. proc[p] \in Proc
  BY DEF ProcInv, ProcTypeOK
<1>2. UNCHANGED <<chat, pc>>
  BY DEF ProcReads, ProcFinishes, ProcExits
<1>3. CASE ProcReads(p)
  <2> DEFINE r == [proc[p] EXCEPT !.stdin = @ - 1, !.working = TRUE]
  <2>1. proc[p].stdin - 1 \in Nat
    BY <1>1, <1>3 DEF ProcReads, Proc
  <2>2. r \in Proc
    BY <1>1, <2>1 DEF Proc
  <2>3. /\ r.alive = proc[p].alive /\ r.duplex = proc[p].duplex
        /\ r.results = proc[p].results /\ r.exited = proc[p].exited
        /\ Busy(p)
    BY <1>1, <1>3 DEF Proc, ProcReads, Busy
  <2>4. proc' = [proc EXCEPT ![p] = r]
    BY <1>3 DEF ProcReads
  <2> HIDE DEF r
  <2>5. Quieter
    BY <2>2, <2>3, <2>4, OneRecordQuieter DEF ProcInv, ResultsAreDuplex, ExitedIsDead
  <2> QED
    BY <1>2, <2>5, QuieterKeepsInv
<1>4. CASE ProcFinishes(p)
  <2> DEFINE r == [proc[p] EXCEPT !.working = FALSE, !.results = @ + 1]
  <2>1. proc[p].results + 1 \in Nat
    BY <1>1 DEF Proc
  <2>2. r \in Proc
    BY <1>1, <2>1 DEF Proc
  <2>3. /\ r.alive = proc[p].alive /\ r.duplex = proc[p].duplex /\ r.exited = proc[p].exited
        /\ Busy(p)
    BY <1>1, <1>4 DEF Proc, ProcFinishes, Busy
  <2>4. proc[p].duplex
    BY <1>4 DEF ProcFinishes
  <2>5. proc' = [proc EXCEPT ![p] = r]
    BY <1>4 DEF ProcFinishes
  <2> HIDE DEF r
  <2>6. Quieter
    BY <2>2, <2>3, <2>4, <2>5, OneRecordQuieter DEF ProcInv, ExitedIsDead
  <2> QED
    BY <1>2, <2>6, QuieterKeepsInv
<1>5. CASE ProcExits(p)
  <2> DEFINE r == [proc[p] EXCEPT !.alive = FALSE, !.working = FALSE, !.stdin = 0, !.exited = TRUE]
  <2>1. r \in Proc /\ ~r.alive /\ r.duplex = proc[p].duplex /\ r.results = proc[p].results
    BY <1>1 DEF Proc
  <2>2. proc' = [proc EXCEPT ![p] = r]
    BY <1>5 DEF ProcExits
  <2> HIDE DEF r
  <2>3. Quieter
    BY <2>1, <2>2, OneRecordQuieter DEF ProcInv, ResultsAreDuplex
  <2> QED
    BY <1>2, <2>3, QuieterKeepsInv
<1> QED
  BY <1>3, <1>4, <1>5

(* A line written to the process at hand, by a start or by a steer.        *)
LEMMA LineWritten ==
    ASSUME ProcInv, NEW p \in Messages, p = chat.port,
           proc' = [proc EXCEPT ![p].stdin = @ + 1]
    PROVE  Quieter
<1> DEFINE r == [proc[p] EXCEPT !.stdin = @ + 1]
<1>1. proc[p] \in Proc
  BY DEF ProcInv, ProcTypeOK
<1>2. proc[p].stdin + 1 \in Nat
  BY <1>1 DEF Proc
<1>3. r \in Proc
  BY <1>1, <1>2 DEF Proc
<1>4. /\ r.alive = proc[p].alive /\ r.duplex = proc[p].duplex
      /\ r.results = proc[p].results /\ r.exited = proc[p].exited
  BY <1>1 DEF Proc
<1>5. proc' = [proc EXCEPT ![p] = r]
  OBVIOUS
<1> HIDE DEF r
<1> QED
  BY <1>3, <1>4, <1>5, OneRecordQuieter, ZenonT(40) DEF ProcInv, ResultsAreDuplex, ExitedIsDead

(* A turn starts: in the duplex process at hand, or in a new process when  *)
(* none is busy.                                                           *)
LEMMA StartStep ==
    ASSUME ProcInv, StartTurn
    PROVE  ProcInv'
<1>1. pc' = At("started", pc.msg, pc.from) /\ pc.step = "starting" /\ ~Running
  BY DEF StartTurn, ProcInv, ProcTypeOK, IdleBetweenTurns, At
<1>2. \A q \in Messages : proc[q] \in Proc
  BY DEF ProcInv, ProcTypeOK
<1>3. CASE WriteTurn
  <2> DEFINE p == chat.port
  <2>1. proc' = [proc EXCEPT ![p].stdin = @ + 1] /\ chat' = chat
    BY <1>3 DEF WriteTurn
  <2>2. CASE p \in Messages
    <3>1. Quieter
      BY <2>1, <2>2, LineWritten
    <3> QED
      BY <1>1, <2>1, <3>1 DEF Quieter, ProcInv, ProcTypeOK, Attached, Busy, Unopened, PortMatches,
         ExitedIsDead, ResultsAreDuplex, IdleBetweenTurns, FreshOneShot, At, Running
  <2>3. CASE p \notin Messages
    <3>1. proc' = proc
      BY <2>1, <2>3 DEF ProcInv, ProcTypeOK
    <3> QED
      BY <1>1, <2>1, <3>1 DEF ProcInv, ProcTypeOK, Attached, Busy, Unopened, PortMatches,
         ExitedIsDead, ResultsAreDuplex, IdleBetweenTurns, FreshOneShot, At, Running
  <2> QED
    BY <2>2, <2>3
<1>4. CASE SpawnTurn
  <2> DEFINE m == pc.msg
  <2>1. PICK kind \in Opens : /\ proc' = [proc EXCEPT ![m] = Spawned(kind)]
                             /\ chat' = [chat EXCEPT !.transport = kind, !.port = m]
    BY <1>4 DEF SpawnTurn
  <2>2. kind \in Kinds
    BY <2>1 DEF Opens, ProcInv, ProcTypeOK
  <2>3. \A q \in Messages : ~Busy(q)
    BY <1>1, <1>4, KindsAssumption, MessagesAssumption, NoneAssumption
    DEF Transports, SpawnTurn, AtHand, ProcInv, ProcTypeOK, Attached, Busy, Unopened, FreshOneShot
  <2>4. /\ Spawned(kind) \in Proc
        /\ Spawned(kind).duplex <=> kind = "duplex"
        /\ Spawned(kind).results = 0 /\ ~Spawned(kind).exited
    BY DEF Spawned, Unborn, Proc
  <2>5. \A q \in Messages : proc'[q] = IF q = m THEN Spawned(kind) ELSE proc[q]
    BY <2>1 DEF ProcInv, ProcTypeOK
  <2>6. proc' \in [Messages -> Proc]
    BY <2>1, <2>4 DEF ProcInv, ProcTypeOK
  <2>7. /\ chat'.transport = kind /\ chat'.port = m /\ chat'.status = chat.status
        /\ chat' = [status |-> chat'.status, transport |-> chat'.transport,
                    port |-> chat'.port, turn |-> chat'.turn]
    BY <2>1 DEF ProcInv, ProcTypeOK
  <2>8. \A q \in Messages : Busy(q)' => q = m
    BY <2>3, <2>5 DEF Busy
  <2> HIDE DEF m
  <2> QED
    BY <1>1, <2>2, <2>4, <2>5, <2>6, <2>7, <2>8, KindsAssumption, MessagesAssumption, NoneAssumption
    DEF Transports, ProcInv, ProcTypeOK, Attached, Busy,
         Unopened, PortMatches,
         ExitedIsDead, ResultsAreDuplex, IdleBetweenTurns, FreshOneShot, At, Running
<1> QED
  BY <1>3, <1>4 DEF StartTurn

LEMMA ContinueSteps ==
    ASSUME ProcInv, CommitStart \/ StartFails \/ DispatchNext \/ CommitSteer
    PROVE  ProcInv'
<1>1. CASE CommitStart
  BY <1>1 DEF CommitStart, AtReady, history, ProcInv, ProcTypeOK, Attached, Busy, Unopened,
         PortMatches, ExitedIsDead,
         ResultsAreDuplex, IdleBetweenTurns, FreshOneShot, At, Ready, Running
<1>2. CASE (StartFails /\ UNCHANGED proc) \/ DispatchNext \/ CommitSteer
  BY <1>2 DEF StartFails, DispatchNext, CommitSteer, AtReady, AtDispatch, history, ProcInv,
         ProcTypeOK, Attached, Busy, Unopened, PortMatches, ExitedIsDead,
         ResultsAreDuplex, IdleBetweenTurns, FreshOneShot, At, Ready, Running
<1>3. CASE StartFails /\ SpawnForgotten
  <2> DEFINE m == pc.msg
             idler == [Spawned("duplex") EXCEPT !.stdin = 0]
  <2>1. idler \in Proc /\ idler.duplex /\ idler.results = 0 /\ ~idler.exited
    BY DEF Spawned, Unborn, Proc
  <2>2. ~(idler.alive /\ (idler.working \/ idler.stdin > 0))
    BY DEF Spawned, Unborn
  <2>3. proc' = [proc EXCEPT ![m] = idler]
    BY <1>3 DEF SpawnForgotten
  <2> HIDE DEF idler
  <2>4. \A q \in Messages : proc'[q] = IF q = m THEN idler ELSE proc[q]
    BY <2>3 DEF ProcInv, ProcTypeOK
  <2>5. proc' \in [Messages -> Proc]
    BY <2>1, <2>3 DEF ProcInv, ProcTypeOK
  <2>6. chat' = chat /\ (pc' = AtReady \/ pc' = AtDispatch) /\ ~Running /\ pc.step = "starting"
    BY <1>3 DEF StartFails, ProcInv, IdleBetweenTurns
  <2>7. \A q \in Messages : Busy(q)' => Busy(q)
    BY <2>2, <2>4 DEF Busy
  <2>8. PortMatches'
    BY <2>1, <2>4, <2>6, KindsAssumption, MessagesAssumption, NoneAssumption
    DEF Transports, ProcInv, ProcTypeOK, PortMatches, Unopened, FreshOneShot
  <2> QED
    BY <2>1, <2>4, <2>5, <2>6, <2>7, <2>8 DEF AtReady, AtDispatch, ProcInv, ProcTypeOK, Attached,
       Busy, Unopened, ExitedIsDead, ResultsAreDuplex, IdleBetweenTurns, FreshOneShot, At, Running
<1> QED
  BY <1>1, <1>2, <1>3 DEF StartFails

LEMMA SteerWrittenStep ==
    ASSUME ProcInv, NEW m \in Messages, SteerWritten(m)
    PROVE  ProcInv'
<1>1. /\ proc' = [proc EXCEPT ![chat.port].stdin = @ + 1] /\ chat' = chat
      /\ pc' = At("steered", m, None) /\ Running
  BY DEF SteerWritten, Steerable
<1>2. CASE chat.port \in Messages
  <2>1. Quieter
    BY <1>1, <1>2, LineWritten
  <2> QED
    BY <1>1, <2>1 DEF Quieter, ProcInv, ProcTypeOK, Attached, Busy, Unopened, PortMatches,
         ExitedIsDead,
         ResultsAreDuplex, IdleBetweenTurns, FreshOneShot, At, Ready, Running
<1>3. CASE chat.port \notin Messages
  <2>1. proc' = proc
    BY <1>1, <1>3 DEF ProcInv, ProcTypeOK
  <2> QED
    BY <1>1, <2>1 DEF ProcInv, ProcTypeOK, Attached, Busy, Unopened, PortMatches, ExitedIsDead,
         ResultsAreDuplex, IdleBetweenTurns, FreshOneShot, At, Ready, Running
<1> QED
  BY <1>2, <1>3

(* kill_port on the port at hand leaves no process busy.                   *)
LEMMA KillPortKills ==
    ASSUME ProcInv, proc' = KillPort
    PROVE  Quieter /\ \A q \in Messages : ~Busy(q)'
<1> DEFINE p == chat.port
           r == [proc[p] EXCEPT !.alive = FALSE, !.working = FALSE, !.stdin = 0]
<1>1. CASE p \in Messages
  <2>1. proc[p] \in Proc
    BY <1>1 DEF ProcInv, ProcTypeOK
  <2>2. /\ r \in Proc /\ ~r.alive /\ r.duplex = proc[p].duplex
        /\ r.results = proc[p].results
    BY <2>1 DEF Proc
  <2>3. proc' = [proc EXCEPT ![p] = r]
    BY <1>1, MessagesAssumption, NoneAssumption DEF Transports, KillPort, Killed
  <2>4. \A q \in Messages : proc'[q] = IF q = p THEN r ELSE proc[q]
    BY <2>3 DEF ProcInv, ProcTypeOK
  <2> HIDE DEF r
  <2>5. Quieter
    BY <1>1, <2>2, <2>3, OneRecordQuieter DEF ProcInv, ResultsAreDuplex
  <2> QED
    BY <2>2, <2>4, <2>5 DEF Busy, Quieter, ProcInv, Attached
<1>2. CASE p \notin Messages
  <2>1. proc' = proc
    BY <1>2 DEF KillPort, Killed, ProcInv, ProcTypeOK
  <2> QED
    BY <1>2, <2>1 DEF Quieter, Busy, ProcInv, ProcTypeOK, Attached, ResultsAreDuplex, ExitedIsDead
<1> QED
  BY <1>1, <1>2

(* With no process busy the transport may be forgotten.                    *)
LEMMA TransportDropped ==
    ASSUME ProcInv, Quieter, \A q \in Messages : ~Busy(q)', chat' = IdleChat,
           pc' = AtDispatch \/ pc' = AtReady \/ (Ready /\ pc' = pc)
    PROVE  ProcInv'
BY KindsAssumption, MessagesAssumption, NoneAssumption
DEF Transports, IdleChat, AtDispatch, AtReady, Quieter, ProcInv, ProcTypeOK, Attached, Busy, Unopened,
         PortMatches, ExitedIsDead,
         ResultsAreDuplex, IdleBetweenTurns, FreshOneShot, At, Ready, Running

LEMMA OperatorSteps ==
    ASSUME ProcInv, OperatorStops \/ ReorderQueue
    PROVE  ProcInv'
<1>1. CASE Interrupt
  <2>1. proc' = KillPort /\ chat' = IdleChat /\ pc' = AtDispatch
    BY <1>1 DEF Interrupt, FinishRun
  <2> QED
    BY <2>1, KillPortKills, TransportDropped
<1>2. CASE Reset
  <2>1. proc' = KillPort /\ chat' = IdleChat /\ Ready /\ pc' = pc
    BY <1>2 DEF Reset
  <2> QED
    BY <2>1, KillPortKills, TransportDropped
<1>3. ASSUME NEW m \in Messages, Barge(m)
      PROVE  ProcInv'
  <2>1. CASE Running
    <3>1. proc' = KillPort /\ chat' = IdleChat /\ pc' = AtDispatch
      BY <1>3, <2>1 DEF Barge, FinishRun
    <3> QED
      BY <3>1, KillPortKills, TransportDropped
  <2>2. CASE ~Running
    <3>1. UNCHANGED <<proc, chat>> /\ pc' = AtDispatch /\ Ready
      BY <1>3, <2>2 DEF Barge
    <3> QED
      BY <2>2, <3>1 DEF AtDispatch, ProcInv, ProcTypeOK, Attached, Busy, Unopened, PortMatches,
         ExitedIsDead,
         ResultsAreDuplex, IdleBetweenTurns, FreshOneShot, At, Ready, Running
  <2> QED
    BY <2>1, <2>2
<1>4. CASE ReorderQueue
  <2>1. UNCHANGED <<proc, chat, pc>>
    BY <1>4 DEF ReorderQueue, Rearrange
  <2> QED
    BY <2>1 DEF ProcInv, ProcTypeOK, Attached, Busy, Unopened, PortMatches, ExitedIsDead,
         ResultsAreDuplex, IdleBetweenTurns, FreshOneShot, At, Ready, Running
<1> QED
  BY <1>1, <1>2, <1>3, <1>4 DEF OperatorStops

(* A result ends the turn and keeps the transport, which is duplex; an     *)
(* exit says that no process is left to work, and a timeout leaves none.   *)
LEMMA MailboxSteps ==
    ASSUME ProcInv, NEW p \in Messages, HandleResult(p) \/ HandleExit(p) \/ HandleTimeout(p)
    PROVE  ProcInv'
<1>1. proc[p] \in Proc
  BY DEF ProcInv, ProcTypeOK
<1>2. CASE HandleResult(p)
  <2> DEFINE r == [proc[p] EXCEPT !.results = @ - 1]
  <2>1. proc[p].results \in Nat /\ proc[p].results > 0 /\ proc[p].results - 1 \in Nat
    BY <1>1, <1>2 DEF HandleResult, Proc
  <2>2. r \in Proc
    BY <1>1, <2>1 DEF Proc
  <2>3. /\ r.alive = proc[p].alive /\ r.working = proc[p].working /\ r.stdin = proc[p].stdin
        /\ r.duplex = proc[p].duplex /\ r.exited = proc[p].exited
    BY <1>1 DEF Proc
  <2>4. proc[p].duplex
    BY <2>1 DEF ProcInv, ResultsAreDuplex
  <2>5. proc' = [proc EXCEPT ![p] = r]
    BY <1>2 DEF HandleResult
  <2> HIDE DEF r
  <2>6. Quieter
    BY <2>2, <2>3, <2>4, <2>5, OneRecordQuieter DEF Busy, ProcInv, ExitedIsDead
  <2>7. CASE p = chat.port
    <3>1. chat' = [chat EXCEPT !.status = "idle", !.turn = None] /\ pc' = AtDispatch
      BY <1>2, <2>7 DEF HandleResult, Current, FinishTurn
    <3>2. chat.transport = "duplex"
      BY <2>4, <2>7 DEF ProcInv, PortMatches
    <3>3. /\ chat'.status = "idle" /\ chat'.transport = chat.transport /\ chat'.port = chat.port
          /\ chat' = [status |-> chat'.status, transport |-> chat'.transport,
                      port |-> chat'.port, turn |-> chat'.turn]
      BY <3>1 DEF ProcInv, ProcTypeOK
    <3> QED
      BY <2>6, <3>1, <3>2, <3>3 DEF AtDispatch, Quieter, ProcInv, ProcTypeOK, Attached, Busy,
         Unopened, PortMatches, ExitedIsDead,
         ResultsAreDuplex, IdleBetweenTurns, FreshOneShot, At, Ready, Running
  <2>8. CASE p # chat.port
    BY <1>2, <2>6, <2>8, QuieterKeepsInv DEF HandleResult, Current
  <2> QED
    BY <2>7, <2>8
<1>3. CASE HandleExit(p)
  <2> DEFINE r == [proc[p] EXCEPT !.exited = FALSE]
  <2>1. /\ r \in Proc /\ r.alive = proc[p].alive /\ r.duplex = proc[p].duplex
        /\ r.working = proc[p].working /\ r.stdin = proc[p].stdin
        /\ r.results = proc[p].results /\ ~r.exited
    BY <1>1 DEF Proc
  <2>2. proc' = [proc EXCEPT ![p] = r]
    BY <1>3 DEF HandleExit
  <2> HIDE DEF r
  <2>3. Quieter
    BY <2>1, <2>2, OneRecordQuieter DEF Busy, ProcInv, ResultsAreDuplex
  <2>4. CASE p = chat.port
    <3>1. chat' = IdleChat /\ pc' = AtDispatch /\ ~proc[p].alive
      BY <1>3, <2>4 DEF HandleExit, Current, FinishRun, ProcInv, ExitedIsDead
    <3>2. \A q \in Messages : ~Busy(q)'
      <4>1. proc'[p] = r
        BY <2>2 DEF ProcInv, ProcTypeOK
      <4>2. ~Busy(p)'
        BY <2>1, <3>1, <4>1 DEF Busy
      <4> QED
        BY <2>3, <2>4, <4>2 DEF Quieter, ProcInv, Attached
    <3> QED
      BY <2>3, <3>1, <3>2, TransportDropped
  <2>5. CASE p # chat.port
    BY <1>3, <2>3, <2>5, QuieterKeepsInv DEF HandleExit, Current
  <2> QED
    BY <2>4, <2>5
<1>4. CASE HandleTimeout(p)
  <2>1. CASE TimesOut(p)
    <3>1. proc' = KillPort /\ chat' = IdleChat /\ pc' = AtDispatch
      BY <1>4, <2>1 DEF HandleTimeout, FinishRun
    <3> QED
      BY <3>1, KillPortKills, TransportDropped
  <2>2. CASE ~TimesOut(p)
    <3>1. UNCHANGED <<proc, chat, pc>>
      BY <1>4, <2>2 DEF HandleTimeout
    <3> QED
      BY <3>1 DEF ProcInv, ProcTypeOK, Attached, Busy, Unopened, PortMatches, ExitedIsDead,
         ResultsAreDuplex, IdleBetweenTurns, FreshOneShot, At, Ready, Running
  <2> QED
    BY <2>1, <2>2
<1> QED
  BY <1>2, <1>3, <1>4

LEMMA CrashStep ==
    ASSUME ProcInv, Crash
    PROVE  ProcInv'
<1>1. proc' = [p \in Messages |-> Unborn] /\ chat' = IdleChat /\ pc' = AtReady
  BY DEF Crash
<1>2. Unborn \in Proc /\ ~Unborn.alive /\ Unborn.results = 0 /\ ~Unborn.exited
  BY DEF Unborn, Proc
<1>3. proc' \in [Messages -> Proc] /\ \A p \in Messages : proc'[p] = Unborn
  BY <1>1, <1>2
<1> QED
  BY <1>1, <1>2, <1>3, KindsAssumption, MessagesAssumption, NoneAssumption
  DEF Transports, AtReady, IdleChat, ProcInv, ProcTypeOK, Attached, Busy, Unopened,
         PortMatches, ExitedIsDead,
         ResultsAreDuplex, IdleBetweenTurns, FreshOneShot, At, Ready, Running

-----------------------------------------------------------------------------
LEMMA ProcInvInit == Init => ProcInv
<1> SUFFICES ASSUME Init PROVE ProcInv
  OBVIOUS
<1>1. Unborn \in Proc /\ ~Unborn.alive /\ Unborn.results = 0 /\ ~Unborn.exited
  BY DEF Unborn, Proc
<1>2. proc \in [Messages -> Proc] /\ \A p \in Messages : proc[p] = Unborn
  BY <1>1 DEF Init
<1>3. /\ chat = [status |-> "idle", transport |-> None, port |-> None, turn |-> None]
      /\ pc = At("ready", None, None) /\ pc.step = "ready" /\ chat.transport = None /\ chat.port = None
  BY DEF Init, AtReady, IdleChat, At
<1>4. None # "one_shot" /\ \A p \in Messages : p # None
  BY MessagesAssumption, NoneAssumption DEF Transports
<1>5. \A p \in Messages : ~Busy(p)
  BY <1>1, <1>2 DEF Busy
<1>6. ProcTypeOK
  BY <1>2, <1>3 DEF ProcTypeOK, At
<1> QED
  BY <1>1, <1>2, <1>3, <1>4, <1>5, <1>6
  DEF ProcInv, Attached, Unopened, PortMatches, ExitedIsDead, ResultsAreDuplex,
      IdleBetweenTurns, FreshOneShot

LEMMA ProcInvStep == ProcInv /\ [Next]_vars => ProcInv'
<1> SUFFICES ASSUME ProcInv, [Next]_vars PROVE ProcInv'
  OBVIOUS
<1>1. CASE Continue
  BY <1>1, StartStep, ContinueSteps DEF Continue
<1>2. CASE OperatorStops \/ ReorderQueue
  BY <1>2, OperatorSteps
<1>3. CASE Crash
  BY <1>3, CrashStep
<1>4. ASSUME NEW m \in Messages,
             AimSteer(m) \/ Submit(m) \/ RemoveQueued(m) \/ TimerFires(m)
      PROVE  ProcInv'
  BY <1>4, QuietSteps, SteerWrittenStep DEF Submit
<1>5. ASSUME NEW m \in Messages, HandleResult(m) \/ HandleExit(m) \/ HandleTimeout(m)
      PROVE  ProcInv'
  BY <1>5, MailboxSteps
<1>6. ASSUME NEW m \in Messages, ProcReads(m) \/ ProcFinishes(m) \/ ProcExits(m)
      PROVE  ProcInv'
  BY <1>6, ProcSteps
<1>7. CASE UNCHANGED vars
  BY <1>7 DEF vars, ProcInv, ProcTypeOK, Attached, Busy, Unopened, PortMatches, ExitedIsDead,
         ResultsAreDuplex, IdleBetweenTurns, FreshOneShot, At, Ready, Running
<1> QED
  BY <1>1, <1>2, <1>3, <1>4, <1>5, <1>6, <1>7 DEF Next

(* One turn in flight per conversation: over every order of starts,        *)
(* steers, stops, timeouts, exits, stale events and crashes, at most one   *)
(* agent process of the conversation is busy.                              *)
THEOREM OneBusyProcessAlways == Spec => []OneBusyProcess
<1>1. ProcInv => OneBusyProcess
  BY DEF ProcInv, Attached, OneBusyProcess
<1> QED
  BY <1>1, ProcInvInit, ProcInvStep, PTL DEF Spec

-----------------------------------------------------------------------------
(***************************************************************************)
(* The conversation's queue and the delivery ledger agree, for any number  *)
(* of messages and of crashes: nothing the ledger owes is lost, nothing is *)
(* handed to an agent twice but what a crash tore, and the queue keeps the *)
(* ledger's order.                                                         *)
(*                                                                         *)
(* The process and its ledger row disagree only while a handler is between *)
(* the two, so the invariant says what a handler holds (PcKnows): a        *)
(* message that is owed and no longer on deck.  A message whose row is     *)
(* unfinished was not run (RunsAreTold), so recovery may run it.  That the *)
(* largest and the smallest position exist at all, and that the unfinished *)
(* rows can be put in an order, is because finitely many messages have     *)
(* been recorded, at bounded positions (RowsShape); Messages itself need   *)
(* not be finite.                                                          *)
(***************************************************************************)

ChatShape ==
    /\ chat \in [status : {"idle", "running"}, transport : Kinds \cup {None},
                 port : Messages \cup {None}, turn : Messages \cup {None}]
    /\ Running <=> chat.turn # None
    /\ chat.transport = None <=> chat.port = None

PcShape == pc \in [step : {"ready", "dispatch", "starting", "started", "steered"},
                   msg : Messages \cup {None}, from : {None, "submit", "dispatch"}]

MailShape ==
    /\ fired \subseteq Messages
    /\ aim \in [Messages -> Messages \cup {None}]
    /\ crashes \in 0..MaxCrashes

ProcessShape == ChatShape /\ PcShape /\ MailShape

RowsShape ==
    /\ row \in [Messages -> Row]
    /\ IsFiniteSet(Recorded)
    /\ \E b \in Nat : \A m \in Messages : -b <= row[m].position /\ row[m].position <= b

QueueShape == queue \in Seq(Messages) /\ IsInjective(queue)

HistoryShape ==
    /\ ran \in [Messages -> Nat]
    /\ torn \subseteq Messages /\ dropped \subseteq Messages /\ reordered \in BOOLEAN

HandedOver == pc.step \in {"started", "steered"}

PcKnows ==
    /\ pc.step \in {"starting", "started", "steered"} =>
          /\ pc.msg \in Messages
          /\ row[pc.msg].status \in Unfinished
          /\ pc.msg \notin ToSet(queue)
    /\ pc.step \in {"ready", "dispatch"} => pc.msg = None

OnDeckIsOwed == \A m \in ToSet(queue) : row[m].status \in Unfinished

RunsAreTold ==
    \A m \in Messages :
        Absent(m) \/ row[m].status \in Unfinished =>
            ran[m] = 0 \/ m \in torn \/ (HandedOver /\ m = pc.msg)

LedgerInv == /\ RowsShape /\ QueueShape /\ HistoryShape /\ PcKnows /\ OnDeckIsOwed
             /\ RunsAreTold /\ RunsOnce /\ NothingIsLost /\ LedgerKeepsOrder

ConversationInv == ProcInv /\ ProcessShape /\ LedgerInv

-----------------------------------------------------------------------------
(* Sequences without repetition, and the order of what is in them.         *)

(* InLedgerOrder, for any ledger r.                                        *)
Ascends(q, r) == \A i, j \in DOMAIN q : i < j => r[q[i]].position < r[q[j]].position

(* A message put last, after everything on deck.                            *)
LEMMA Appended ==
    ASSUME NEW q \in Seq(Messages), NEW m \in Messages, m \notin ToSet(q), IsInjective(q)
    PROVE  /\ Append(q, m) \in Seq(Messages) /\ IsInjective(Append(q, m))
           /\ ToSet(Append(q, m)) = ToSet(q) \cup {m}
           /\ \A r : Ascends(q, r) /\ (\A x \in ToSet(q) : r[x].position < r[m].position)
                       => Ascends(Append(q, m), r)
<1> DEFINE a == Append(q, m)
           n == Len(q)
<1>1. /\ n \in Nat /\ DOMAIN q = 1..n
      /\ a \in Seq(Messages) /\ DOMAIN a = 1..n + 1 /\ a[n + 1] = m
      /\ \A i \in 1..n : a[i] = q[i]
  OBVIOUS
<1>2. \A i \in 1..n : q[i] \in ToSet(q) /\ q[i] # m
  BY <1>1 DEF ToSet
<1> HIDE DEF a, n
<1>3. IsInjective(a)
  BY <1>1, <1>2 DEF IsInjective
<1>4. ToSet(a) = ToSet(q) \cup {m}
  <2>1. \A x \in ToSet(a) : x \in ToSet(q) \cup {m}
    BY <1>1 DEF ToSet
  <2>2. \A x \in ToSet(q) \cup {m} : x \in ToSet(a)
    BY <1>1 DEF ToSet
  <2> QED
    BY <2>1, <2>2
<1>5. ASSUME NEW r, Ascends(q, r), \A x \in ToSet(q) : r[x].position < r[m].position,
             NEW i \in DOMAIN a, NEW j \in DOMAIN a, i < j
      PROVE  r[a[i]].position < r[a[j]].position
  <2>1. i \in 1..n /\ (j \in 1..n \/ j = n + 1)
    BY <1>1, <1>5
  <2> QED
    BY <1>1, <1>2, <1>5, <2>1 DEF Ascends
<1> QED
  BY <1>1, <1>3, <1>4, <1>5 DEF Ascends, a

(* A message put first, before everything on deck.                          *)
LEMMA Pushed ==
    ASSUME NEW q \in Seq(Messages), NEW m \in Messages, m \notin ToSet(q), IsInjective(q)
    PROVE  /\ <<m>> \o q \in Seq(Messages) /\ IsInjective(<<m>> \o q)
           /\ ToSet(<<m>> \o q) = ToSet(q) \cup {m}
           /\ \A r : Ascends(q, r) /\ (\A x \in ToSet(q) : r[m].position < r[x].position)
                       => Ascends(<<m>> \o q, r)
<1> DEFINE a == <<m>> \o q
           n == Len(q)
<1>1. /\ n \in Nat /\ DOMAIN q = 1..n
      /\ a \in Seq(Messages) /\ DOMAIN a = 1..n + 1 /\ a[1] = m
      /\ \A i \in 1..n : a[i + 1] = q[i]
      /\ \A i \in 2..n + 1 : a[i] = q[i - 1] /\ i - 1 \in 1..n
  OBVIOUS
<1>2. \A i \in 1..n : q[i] \in ToSet(q) /\ q[i] # m
  BY <1>1 DEF ToSet
<1> HIDE DEF a, n
<1>3. IsInjective(a)
  <2> SUFFICES ASSUME NEW i \in 1..n + 1, NEW j \in 1..n + 1, a[i] = a[j] PROVE i = j
    BY <1>1 DEF IsInjective
  <2>1. i = 1 \/ (i \in 2..n + 1 /\ i - 1 \in 1..n /\ a[i] = q[i - 1])
    BY <1>1
  <2>2. j = 1 \/ (j \in 2..n + 1 /\ j - 1 \in 1..n /\ a[j] = q[j - 1])
    BY <1>1
  <2>3. CASE i = 1 \/ j = 1
    BY <1>1, <1>2, <2>1, <2>2, <2>3
  <2>4. CASE i # 1 /\ j # 1
    <3>1. i - 1 = j - 1
      BY <1>1, <2>1, <2>2, <2>4 DEF IsInjective
    <3> QED
      BY <3>1
  <2> QED
    BY <2>3, <2>4
<1>4. ToSet(a) = ToSet(q) \cup {m}
  <2>1. ASSUME NEW i \in 1..n + 1 PROVE a[i] \in ToSet(q) \cup {m}
    <3>1. i = 1 \/ i \in 2..n + 1
      BY <1>1
    <3> QED
      BY <1>1, <1>2, <3>1
  <2>2. \A i \in 1..n : q[i] \in ToSet(a)
    <3>1. \A i \in 1..n : i + 1 \in DOMAIN a
      BY <1>1
    <3> QED
      BY <1>1, <3>1 DEF ToSet
  <2>3. m \in ToSet(a)
    <3>1. 1 \in DOMAIN a
      BY <1>1
    <3> QED
      BY <1>1, <3>1 DEF ToSet
  <2> QED
    BY <1>1, <2>1, <2>2, <2>3 DEF ToSet
<1>5. ASSUME NEW r, Ascends(q, r), \A x \in ToSet(q) : r[m].position < r[x].position,
             NEW i \in DOMAIN a, NEW j \in DOMAIN a, i < j
      PROVE  r[a[i]].position < r[a[j]].position
  <2>1. /\ j - 1 \in 1..n /\ a[j] = q[j - 1]
        /\ i = 1 \/ (i - 1 \in 1..n /\ a[i] = q[i - 1] /\ i - 1 < j - 1)
    <3>1. j \in 2..n + 1 /\ (i = 1 \/ i \in 2..n + 1)
      BY <1>1, <1>5
    <3> QED
      BY <1>1, <1>5, <3>1
  <2> QED
    BY <1>1, <1>2, <1>5, <2>1, SMTT(30) DEF Ascends
<1> QED
  BY <1>1, <1>3, <1>4, <1>5 DEF Ascends, a

(* The head is taken off.                                                   *)
LEMMA Popped ==
    ASSUME NEW q \in Seq(Messages), q # <<>>, IsInjective(q)
    PROVE  /\ Tail(q) \in Seq(Messages) /\ IsInjective(Tail(q))
           /\ Head(q) \in ToSet(q) /\ ToSet(Tail(q)) = ToSet(q) \ {Head(q)}
           /\ \A r : Ascends(q, r) => Ascends(Tail(q), r)
<1> DEFINE a == Tail(q)
           n == Len(q)
<1>1. /\ n \in Nat /\ n >= 1 /\ DOMAIN q = 1..n /\ Head(q) = q[1]
      /\ a \in Seq(Messages) /\ DOMAIN a = 1..n - 1
      /\ \A i \in 1..n - 1 : a[i] = q[i + 1] /\ i + 1 \in 1..n
  OBVIOUS
<1> HIDE DEF a, n
<1>2. \A i \in 2..n : i - 1 \in 1..n - 1 /\ a[i - 1] = q[i]
  BY <1>1
<1>3. IsInjective(a)
  <2> SUFFICES ASSUME NEW i \in 1..n - 1, NEW j \in 1..n - 1, a[i] = a[j] PROVE i = j
    BY <1>1 DEF IsInjective
  <2>1. i + 1 \in DOMAIN q /\ j + 1 \in DOMAIN q /\ q[i + 1] = q[j + 1]
    BY <1>1
  <2>2. i + 1 = j + 1
    BY <2>1 DEF IsInjective
  <2> QED
    BY <2>2
<1>4. Head(q) \in ToSet(q) /\ ToSet(a) = ToSet(q) \ {Head(q)}
  <2>1. 1 \in DOMAIN q
    BY <1>1
  <2>2. ASSUME NEW i \in 1..n - 1 PROVE a[i] \in ToSet(q) \ {Head(q)}
    <3>1. i + 1 \in DOMAIN q /\ i + 1 # 1 /\ a[i] = q[i + 1]
      BY <1>1
    <3>2. q[i + 1] # q[1]
      BY <2>1, <3>1 DEF IsInjective
    <3> QED
      BY <1>1, <3>1, <3>2 DEF ToSet
  <2>3. ASSUME NEW i \in 1..n, q[i] # Head(q) PROVE q[i] \in ToSet(a)
    <3>1. i \in 2..n
      BY <1>1, <2>3
    <3> QED
      BY <1>1, <1>2, <3>1 DEF ToSet
  <2>4. Head(q) \in ToSet(q)
    BY <1>1, <2>1 DEF ToSet
  <2>5. \A x \in ToSet(a) : x \in ToSet(q) \ {Head(q)}
    BY <1>1, <2>2 DEF ToSet
  <2>6. \A x \in ToSet(q) \ {Head(q)} : x \in ToSet(a)
    BY <1>1, <2>3 DEF ToSet
  <2> QED
    BY <2>4, <2>5, <2>6
<1>5. ASSUME NEW r, Ascends(q, r), NEW i \in 1..n - 1, NEW j \in 1..n - 1, i < j
      PROVE  r[a[i]].position < r[a[j]].position
  <2>1. /\ i + 1 \in DOMAIN q /\ j + 1 \in DOMAIN q /\ i + 1 < j + 1
        /\ a[i] = q[i + 1] /\ a[j] = q[j + 1]
    BY <1>1, <1>5
  <2> QED
    BY <1>5, <2>1 DEF Ascends
<1> QED
  BY <1>1, <1>3, <1>4, <1>5 DEF a, Ascends

(* One message is taken out, wherever it is.                                *)
LEMMA Removed ==
    ASSUME NEW m, queue \in Seq(Messages), IsInjective(queue), m \in ToSet(queue)
    PROVE  /\ Without(m) \in Seq(Messages) /\ IsInjective(Without(m))
           /\ ToSet(Without(m)) = ToSet(queue) \ {m}
           /\ \A r : Ascends(queue, r) => Ascends(Without(m), r)
<1> DEFINE k == CHOOSE i \in DOMAIN queue : queue[i] = m
           a == RemoveAt(queue, k)
           n == Len(queue)
<1>1. n \in Nat /\ DOMAIN queue = 1..n /\ k \in 1..n /\ queue[k] = m
  BY DEF ToSet
<1> HIDE DEF k
<1>2. /\ a \in Seq(Messages) /\ DOMAIN a = 1..n - 1
      /\ \A i \in 1..k - 1 : a[i] = queue[i]
      /\ \A i \in k..n - 1 : a[i] = queue[i + 1]
  <2> DEFINE b == SubSeq(queue, 1, k - 1)
             c == SubSeq(queue, k + 1, n)
  <2>1. /\ b \in Seq(Messages) /\ Len(b) = k - 1
        /\ \A i \in 1..k - 1 : b[i] = queue[i]
    BY <1>1, SubSeqProperties
  <2>2. /\ c \in Seq(Messages) /\ Len(c) = n - k
        /\ \A i \in 1..n - k : c[i] = queue[k + i]
    <3>1. k + 1 \in Int /\ n \in Int /\ \A i \in k + 1..n : queue[i] \in Messages
      BY <1>1
    <3>2. /\ c \in Seq(Messages)
          /\ Len(c) = IF k + 1 <= n THEN n - (k + 1) + 1 ELSE 0
          /\ \A i \in 1..n - (k + 1) + 1 : c[i] = queue[k + 1 + i - 1]
      BY <3>1, SubSeqProperties
    <3> HIDE DEF c
    <3>3. n - (k + 1) + 1 = n - k /\ \A i \in 1..n - k : k + 1 + i - 1 = k + i
      BY <1>1
    <3>4. Len(c) = n - k
      <4> HIDE DEF n
      <4>1. (k + 1 <= n /\ n - (k + 1) + 1 = n - k) \/ (~(k + 1 <= n) /\ n - k = 0)
        BY <1>1
      <4> QED
        BY <3>2, <4>1
    <3>5. ASSUME NEW i \in 1..n - k PROVE c[i] = queue[k + i]
      <4>1. i \in 1..n - (k + 1) + 1 /\ k + 1 + i - 1 = k + i
        BY <3>3
      <4> QED
        BY <3>2, <4>1
    <3> QED
      BY <3>2, <3>4, <3>5
  <2>3. a = b \o c
    BY DEF RemoveAt
  <2> HIDE DEF a, b, c
  <2>4. /\ a \in Seq(Messages) /\ Len(a) = n - 1
        /\ \A i \in 1..k - 1 : a[i] = b[i]
        /\ \A i \in k..n - 1 : a[i] = c[i - k + 1]
    <3>1. /\ a \in Seq(Messages) /\ Len(a) = (k - 1) + (n - k)
          /\ \A i \in 1..(k - 1) + (n - k) : a[i] = IF i <= k - 1 THEN b[i] ELSE c[i - (k - 1)]
      <4>1. /\ a \in Seq(Messages) /\ Len(a) = Len(b) + Len(c)
            /\ \A i \in 1..Len(b) + Len(c) : a[i] = IF i <= Len(b) THEN b[i] ELSE c[i - Len(b)]
        BY <2>1, <2>2, <2>3, ConcatProperties
      <4> QED
        BY <2>1, <2>2, <4>1
    <3>2. (k - 1) + (n - k) = n - 1 /\ \A i \in Int : i - (k - 1) = i - k + 1
      BY <1>1
    <3>3. Len(a) = n - 1 /\ \A i \in 1..n - 1 : a[i] = IF i <= k - 1 THEN b[i] ELSE c[i - k + 1]
      BY <1>1, <3>1, <3>2
    <3>4. /\ \A i \in 1..k - 1 : i \in 1..n - 1 /\ i <= k - 1
          /\ \A i \in k..n - 1 : i \in 1..n - 1 /\ ~(i <= k - 1)
      BY <1>1
    <3> QED
      BY <3>1, <3>3, <3>4
  <2> QED
    BY <1>1, <2>1, <2>2, <2>4
<1> HIDE DEF a, n
<1>3. IsInjective(a)
  <2> SUFFICES ASSUME NEW i \in 1..n - 1, NEW j \in 1..n - 1, a[i] = a[j] PROVE i = j
    BY <1>2 DEF IsInjective
  <2>1. \A x \in 1..n, y \in 1..n : queue[x] = queue[y] => x = y
    BY <1>1 DEF IsInjective
  <2>2. i \in 1..k - 1 \/ (i \in k..n - 1 /\ i + 1 \in 1..n)
    BY <1>1
  <2>3. j \in 1..k - 1 \/ (j \in k..n - 1 /\ j + 1 \in 1..n)
    BY <1>1
  <2> QED
    BY <1>1, <1>2, <2>1, <2>2, <2>3
<1>4. ToSet(a) = ToSet(queue) \ {m}
  <2>1. ASSUME NEW i \in 1..n - 1 PROVE a[i] \in ToSet(queue) \ {m}
    <3>1. \A x \in 1..n : x # k => queue[x] # m
      BY <1>1 DEF IsInjective
    <3>2. \/ i \in 1..n /\ i # k /\ a[i] = queue[i]
          \/ i + 1 \in 1..n /\ i + 1 # k /\ a[i] = queue[i + 1]
      <4>1. i \in 1..k - 1 \/ i \in k..n - 1
        BY <1>1
      <4> QED
        BY <1>1, <1>2, <4>1
    <3> QED
      BY <1>1, <3>1, <3>2 DEF ToSet
  <2>2. ASSUME NEW i \in 1..n, queue[i] # m PROVE queue[i] \in ToSet(a)
    <3>1. i \in 1..k - 1 \/ (i - 1 \in k..n - 1)
      BY <1>1, <2>2
    <3>2. CASE i \in 1..k - 1
      BY <1>1, <1>2, <3>2 DEF ToSet
    <3>3. CASE i - 1 \in k..n - 1
      <4>1. i - 1 \in DOMAIN a /\ a[i - 1] = queue[i]
        BY <1>1, <1>2, <3>3
      <4> QED
        BY <4>1 DEF ToSet
    <3> QED
      BY <3>1, <3>2, <3>3
  <2>3. ToSet(a) = {a[i] : i \in 1..n - 1} /\ ToSet(queue) = {queue[i] : i \in 1..n}
    BY <1>1, <1>2 DEF ToSet
  <2>4. ToSet(a) \subseteq ToSet(queue) \ {m}
    BY <2>1, <2>3
  <2>5. ToSet(queue) \ {m} \subseteq ToSet(a)
    BY <2>2, <2>3
  <2> QED
    BY <2>4, <2>5
<1>5. ASSUME NEW r, Ascends(queue, r), NEW i \in 1..n - 1, NEW j \in 1..n - 1, i < j
      PROVE  r[a[i]].position < r[a[j]].position
  <2>1. /\ i \in 1..k - 1 \/ i \in k..n - 1
        /\ j \in 1..k - 1 \/ j \in k..n - 1
    BY <1>1
  <2>2. PICK x \in 1..n, y \in 1..n : x < y /\ a[i] = queue[x] /\ a[j] = queue[y]
    <3>1. CASE i \in 1..k - 1 /\ j \in 1..k - 1
      <4>1. i \in 1..n /\ j \in 1..n /\ a[i] = queue[i] /\ a[j] = queue[j]
        BY <1>1, <1>2, <3>1
      <4> QED
        BY <1>5, <4>1
    <3>2. CASE i \in 1..k - 1 /\ j \in k..n - 1
      <4>1. i \in 1..n /\ j + 1 \in 1..n /\ a[i] = queue[i] /\ a[j] = queue[j + 1] /\ i < j + 1
        BY <1>1, <1>2, <1>5, <3>2
      <4> QED
        BY <4>1
    <3>3. CASE i \in k..n - 1 /\ j \in k..n - 1
      <4>1. i + 1 \in 1..n /\ j + 1 \in 1..n /\ a[i] = queue[i + 1] /\ a[j] = queue[j + 1] /\ i + 1 < j + 1
        BY <1>1, <1>2, <1>5, <3>3
      <4> QED
        BY <4>1
    <3> QED
      BY <1>1, <1>5, <2>1, <3>1, <3>2, <3>3
  <2> QED
    BY <1>1, <1>5, <2>2 DEF Ascends
<1> QED
  BY <1>2, <1>3, <1>4, <1>5 DEF Ascends, Without, a, k

(* Any order of finitely many messages.                                     *)
LEMMA Listed ==
    ASSUME NEW S \in SUBSET Messages, IsFiniteSet(S), NEW q \in SetToSeqs(S)
    PROVE  q \in Seq(Messages) /\ IsInjective(q) /\ ToSet(q) = S
<1> DEFINE n == Cardinality(S)
<1>1. n \in Nat /\ q \in [1..n -> S] /\ \A i, j \in 1..n : i # j => q[i] # q[j]
  BY FS_CardinalityType DEF SetToSeqs
<1>2. IsFiniteSet(1..n) /\ Cardinality(1..n) = n
  BY <1>1, FS_Interval
<1> HIDE DEF n
<1>3. q \in Injection(1..n, S) /\ IsInjective(q)
  BY <1>1 DEF Injection, IsInjective
<1>4. q \in Surjection(1..n, S)
  BY <1>2, <1>3, FS_Injection DEF n
<1>5. q \in Seq(Messages) /\ DOMAIN q = 1..n
  BY <1>1
<1> QED
  BY <1>1, <1>3, <1>4, <1>5 DEF Surjection, ToSet

-----------------------------------------------------------------------------
(* Extremes of bounded sets of integers.                                   *)

LEMMA MaxOfBounded ==
    ASSUME NEW S \in SUBSET Int, S # {}, NEW b \in Int, \A x \in S : x <= b
    PROVE  Max(S) \in S /\ \A x \in S : Max(S) >= x
<1> DEFINE T == {b - x : x \in S}
<1>1. T \in SUBSET Nat /\ T # {}
  <2>1. \A x \in S : b - x \in Nat
    OBVIOUS
  <2>2. \A t \in T : t \in Nat
    BY <2>1
  <2> QED
    BY <2>2
<1>2. PICK t \in T : \A u \in T : t <= u
  <2> HIDE DEF T
  <2> QED BY <1>1, LeastNatural
<1>3. PICK z \in S : t = b - z
  BY <1>2
<1>4. \A x \in S : z >= x
  BY <1>2, <1>3
<1> QED
  BY <1>3, <1>4 DEF Max

LEMMA MinOfBounded ==
    ASSUME NEW S \in SUBSET Int, S # {}, NEW b \in Int, \A x \in S : b <= x
    PROVE  Min(S) \in S /\ \A x \in S : Min(S) <= x
<1> DEFINE T == {x - b : x \in S}
<1>1. T \in SUBSET Nat /\ T # {}
  <2>1. \A x \in S : x - b \in Nat
    OBVIOUS
  <2>2. \A t \in T : t \in Nat
    BY <2>1
  <2> QED
    BY <2>2
<1>2. PICK t \in T : \A u \in T : t <= u
  <2> HIDE DEF T
  <2> QED BY <1>1, LeastNatural
<1>3. PICK z \in S : t = z - b
  BY <1>2
<1>4. \A x \in S : z <= x
  BY <1>2, <1>3, SMTT(30)
<1> QED
  BY <1>3, <1>4 DEF Min

-----------------------------------------------------------------------------
(* The positions a new row gets.                                           *)
LEMMA NextIsLast ==
    ASSUME RowsShape
    PROVE  NextPosition \in Int /\ \A m \in Recorded : row[m].position < NextPosition
<1> DEFINE S == {row[m].position : m \in Recorded} \cup {0}
<1>1. \A m \in Messages : row[m].position \in Int
  BY DEF RowsShape, Row
<1>2. PICK b \in Nat : \A m \in Messages : row[m].position <= b
  BY DEF RowsShape
<1>3. S \in SUBSET Int /\ S # {} /\ \A x \in S : x <= b
  BY <1>1, <1>2 DEF Recorded
<1>4. Max(S) \in S /\ \A x \in S : Max(S) >= x
  <2> HIDE DEF S
  <2> QED
    BY <1>2, <1>3, MaxOfBounded
<1>5. \A m \in Recorded : row[m].position \in S /\ row[m].position \in Int
  BY <1>1 DEF Recorded
<1>6. NextPosition = Max(S) + 1
  BY DEF NextPosition
<1>7. Max(S) \in Int
  BY <1>3, <1>4
<1>8. \A m \in Recorded : row[m].position \in Int /\ row[m].position <= Max(S)
  BY <1>4, <1>5, <1>7
<1> HIDE DEF S
<1> QED
  BY <1>6, <1>7, <1>8

LEMMA FrontIsFirst ==
    ASSUME RowsShape
    PROVE  FrontPosition \in Int /\ \A m \in UnfinishedRows : FrontPosition < row[m].position
<1> DEFINE S == {row[m].position : m \in UnfinishedRows} \cup {NextPosition}
<1>1. \A m \in Messages : row[m].position \in Int
  BY DEF RowsShape, Row
<1>2. PICK b \in Nat : \A m \in Messages : -b <= row[m].position
  BY DEF RowsShape
<1>3. PICK c \in Int : c <= -b /\ c <= NextPosition
  <2>1. -b <= NextPosition \/ NextPosition < -b
    BY <1>2, NextIsLast
  <2> QED
    BY <1>2, <2>1, NextIsLast
<1>4. S \in SUBSET Int /\ S # {} /\ \A x \in S : c <= x
  <2>1. \A m \in Messages : c <= row[m].position
    BY <1>1, <1>2, <1>3
  <2> QED
    BY <1>1, <1>3, <2>1, NextIsLast DEF UnfinishedRows
<1>5. Min(S) \in S /\ \A x \in S : Min(S) <= x
  <2> HIDE DEF S
  <2> QED
    BY <1>3, <1>4, MinOfBounded
<1>6. \A m \in UnfinishedRows : row[m].position \in S
  OBVIOUS
<1>7. FrontPosition = Min(S) - 1
  BY DEF FrontPosition
<1> HIDE DEF S
<1>8. Min(S) \in Int
  BY <1>4, <1>5
<1>9. ASSUME NEW m \in UnfinishedRows PROVE FrontPosition < row[m].position
  <2>1. row[m].position \in Int
    BY <1>1 DEF UnfinishedRows
  <2>2. Min(S) <= row[m].position
    BY <1>5, <1>6
  <2> QED
    BY <1>7, <1>8, <2>1, <2>2
<1> QED
  BY <1>7, <1>8, <1>9

(* One row of the ledger is written.                                       *)
LEMMA RowWritten ==
    ASSUME RowsShape, NEW m \in Messages, NEW s \in Statuses \ {"absent"}, NEW p \in Int,
           row' = [row EXCEPT ![m] = [status |-> s, position |-> p]]
    PROVE  /\ RowsShape'
           /\ row'[m] = [status |-> s, position |-> p]
           /\ \A x \in Messages : x # m => row'[x] = row[x]
<1>1. /\ row'[m] = [status |-> s, position |-> p]
      /\ \A x \in Messages : x # m => row'[x] = row[x]
      /\ row' \in [Messages -> Row]
  BY DEF RowsShape, Row
<1>2. IsFiniteSet(Recorded')
  <2>1. Recorded' = Recorded \cup {m}
    BY <1>1 DEF Recorded, Absent
  <2> QED
    BY <2>1, FS_AddElement DEF RowsShape
<1>3. \E b \in Nat : \A x \in Messages : -b <= row'[x].position /\ row'[x].position <= b
  <2>1. PICK b \in Nat : \A x \in Messages : -b <= row[x].position /\ row[x].position <= b
    BY DEF RowsShape
  <2>2. PICK c \in Nat : c >= b /\ c >= p /\ c >= -p
    <3>1. \E d \in Nat : d >= p /\ d >= -p
      <4>1. p \in Nat \/ -p \in Nat
        OBVIOUS
      <4>2. CASE p \in Nat
        BY <4>2
      <4>3. CASE -p \in Nat
        BY <4>3
      <4> QED
        BY <4>1, <4>2, <4>3
    <3>2. PICK d \in Nat : d >= p /\ d >= -p
      BY <3>1
    <3>3. b + d \in Nat /\ b + d >= b /\ b + d >= p /\ b + d >= -p
      BY <3>2
    <3> QED
      BY <3>3
  <2>3. \A x \in Messages : row[x].position \in Int
    BY DEF RowsShape, Row
  <2>4. ASSUME NEW x \in Messages PROVE -c <= row'[x].position /\ row'[x].position <= c
    <3>1. CASE x = m
      BY <1>1, <2>2, <3>1
    <3>2. CASE x # m
      <4>1. row'[x].position = row[x].position
        BY <1>1, <3>2
      <4> QED
        BY <2>1, <2>2, <2>3, <4>1
    <3> QED
      BY <3>1, <3>2
  <2> QED
    BY <2>4
<1> QED
  BY <1>1, <1>2, <1>3 DEF RowsShape

LEMMA RowSettled ==
    ASSUME RowsShape, NEW m \in Messages, NEW s \in Statuses \ {"absent"}, Transition(m, s)
    PROVE  /\ RowsShape'
           /\ row'[m].status = s
           /\ \A x \in Messages : x # m => row'[x] = row[x]
<1> DEFINE p == row[m].position
<1>1. p \in Int
  BY DEF RowsShape, Row
<1>2. row' = [row EXCEPT ![m] = [status |-> s, position |-> p]]
  <2>1. row[m] = [status |-> row[m].status, position |-> row[m].position]
    BY DEF RowsShape, Row
  <2>2. row' = [row EXCEPT ![m] = [row[m] EXCEPT !.status = s]]
    BY DEF Transition
  <2>3. [row[m] EXCEPT !.status = s] = [status |-> s, position |-> p]
    BY <2>1
  <2> QED
    BY <2>2, <2>3
<1>3. /\ RowsShape'
      /\ row'[m] = [status |-> s, position |-> p]
      /\ \A x \in Messages : x # m => row'[x] = row[x]
  <2> HIDE DEF p
  <2> QED
    BY <1>1, <1>2, RowWritten
<1> QED
  BY <1>3

LEMMA SameOrder ==
    ASSUME NEW q \in Seq(Messages), NEW r, NEW s, Ascends(q, r),
           \A x \in ToSet(q) : s[x].position = r[x].position
    PROVE  Ascends(q, s)
<1>1. \A i \in DOMAIN q : q[i] \in ToSet(q)
  BY DEF ToSet
<1> QED
  BY <1>1 DEF Ascends

-----------------------------------------------------------------------------
(* The steps that leave the ledger, the queue and the history alone.       *)
LEMMA LedgerUntouched ==
    ASSUME LedgerInv, UNCHANGED <<row, queue, ran, torn, dropped, reordered>>,
           pc' = pc \/ (Ready /\ pc' = AtDispatch)
    PROVE  LedgerInv'
<1>1. /\ row' = row /\ queue' = queue /\ ran' = ran /\ torn' = torn
      /\ dropped' = dropped /\ reordered' = reordered
  OBVIOUS
<1>2. RowsShape'
  <2>1. Recorded' = Recorded
    BY <1>1 DEF Recorded, Absent
  <2> QED
    BY <1>1, <2>1 DEF LedgerInv, RowsShape
<1>3. QueueShape' /\ HistoryShape' /\ OnDeckIsOwed' /\ RunsOnce' /\ LedgerKeepsOrder'
  BY <1>1 DEF LedgerInv, QueueShape, HistoryShape, OnDeckIsOwed, RunsOnce, LedgerKeepsOrder,
              InLedgerOrder
<1>4. /\ pc'.msg = pc.msg /\ (HandedOver' <=> HandedOver)
      /\ pc'.step \in {"starting", "started", "steered"} => pc.step = pc'.step
      /\ pc'.step \in {"ready", "dispatch"} => pc.msg = None
  BY DEF LedgerInv, PcKnows, Ready, AtDispatch, At, HandedOver
<1>5. PcKnows' /\ RunsAreTold' /\ NothingIsLost'
  BY <1>1, <1>4 DEF LedgerInv, PcKnows, RunsAreTold, NothingIsLost, UnfinishedRows, Absent
<1> QED
  BY <1>2, <1>3, <1>5 DEF LedgerInv

(* A message is put on deck, in the queue and in the ledger.               *)
LEMMA OnDeck ==
    ASSUME LedgerInv, Ready, NEW m \in Messages, Absent(m), NEW p \in Int,
           RecordAs(m, "queued", p),
           QueueShape', ToSet(queue') = ToSet(queue) \cup {m},
           Ascends(queue, row') => Ascends(queue', row'),
           UNCHANGED <<pc, ran, torn, dropped, reordered>>
    PROVE  LedgerInv'
<1>1. /\ RowsShape' /\ row'[m].status = "queued" /\ row'[m].position = p
      /\ \A x \in Messages : x # m => row'[x] = row[x]
  <2>1. row' = [row EXCEPT ![m] = [status |-> "queued", position |-> p]]
    BY DEF RecordAs
  <2>2. RowsShape /\ "queued" \in Statuses \ {"absent"} /\ p \in Int
    BY DEF Statuses, Unfinished, LedgerInv
  <2>3. /\ RowsShape' /\ row'[m] = [status |-> "queued", position |-> p]
        /\ \A x \in Messages : x # m => row'[x] = row[x]
    BY <2>1, <2>2, RowWritten
  <2> QED
    BY <2>3
<1>2. pc.msg = None /\ ~HandedOver /\ pc' = pc /\ pc.step = "ready"
  BY DEF LedgerInv, PcKnows, Ready, HandedOver
<1>3. m \notin ToSet(queue) /\ ToSet(queue) \subseteq Messages
  BY DEF LedgerInv, OnDeckIsOwed, Absent, Unfinished, ToSet, QueueShape
<1>4. LedgerKeepsOrder'
  <2>1. ASSUME ~reordered PROVE Ascends(queue', row')
    <3>1. Ascends(queue, row)
      BY <2>1 DEF LedgerInv, LedgerKeepsOrder, InLedgerOrder, Ascends
    <3>2. Ascends(queue, row')
      <4>1. \A x \in ToSet(queue) : row'[x].position = row[x].position
        BY <1>1, <1>3
      <4> QED
        BY <3>1, <4>1, SameOrder DEF LedgerInv, QueueShape
    <3> QED
      BY <3>2
  <2> QED
    BY <2>1 DEF LedgerKeepsOrder, InLedgerOrder, Ascends
<1>5. OnDeckIsOwed' /\ PcKnows'
  BY <1>1, <1>2, <1>3 DEF LedgerInv, OnDeckIsOwed, PcKnows, Unfinished
<1>6. RunsAreTold' /\ RunsOnce' /\ NothingIsLost' /\ HistoryShape'
  BY <1>1, <1>2, <1>3 DEF LedgerInv, RunsAreTold, RunsOnce, NothingIsLost, HistoryShape, UnfinishedRows,
                          Absent, HandedOver
<1> QED
  BY <1>1, <1>4, <1>5, <1>6 DEF LedgerInv

LEMMA EnqueueStep ==
    ASSUME LedgerInv, Ready, NEW m \in Messages, Absent(m), Enqueue(m)
    PROVE  LedgerInv'
<1>1. /\ RecordAs(m, "queued", NextPosition) /\ queue' = Append(queue, m)
      /\ UNCHANGED <<pc, ran, torn, dropped, reordered>>
  BY DEF Enqueue, history
<1>2. m \notin ToSet(queue) /\ \A x \in ToSet(queue) : x \in Messages /\ x # m /\ x \in Recorded
  BY DEF LedgerInv, OnDeckIsOwed, Absent, Unfinished, ToSet, QueueShape, Recorded
<1>3. /\ NextPosition \in Int
      /\ \A x \in ToSet(queue) : row[x].position < NextPosition
  BY <1>2, NextIsLast DEF LedgerInv
<1>4. \A x \in ToSet(queue) : row'[x].position < row'[m].position
  BY <1>1, <1>2, <1>3 DEF RecordAs, LedgerInv, RowsShape
<1>5. /\ QueueShape' /\ ToSet(queue') = ToSet(queue) \cup {m}
      /\ Ascends(queue, row') => Ascends(queue', row')
  BY <1>1, <1>2, <1>4, Appended DEF LedgerInv, QueueShape
<1> QED
  BY <1>1, <1>3, <1>5, OnDeck

LEMMA SteerMissedStep ==
    ASSUME LedgerInv, NEW m \in Messages, SteerMissed(m)
    PROVE  LedgerInv'
<1>1. /\ RecordAs(m, "queued", FrontPosition) /\ queue' = <<m>> \o queue
      /\ UNCHANGED <<pc, ran, torn, dropped, reordered>> /\ Ready /\ Absent(m)
  BY DEF SteerMissed, Steerable, history
<1>2. m \notin ToSet(queue) /\ \A x \in ToSet(queue) : x \in Messages /\ x # m /\ x \in UnfinishedRows
  <2>1. ToSet(queue) \subseteq Messages
    BY DEF LedgerInv, ToSet, QueueShape
  <2>2. \A x \in ToSet(queue) : row[x].status \in Unfinished
    BY DEF LedgerInv, OnDeckIsOwed
  <2>3. row[m].status \notin Unfinished
    BY <1>1 DEF Absent, Unfinished
  <2> QED
    BY <2>1, <2>2, <2>3 DEF UnfinishedRows
<1>3. /\ FrontPosition \in Int
      /\ \A x \in ToSet(queue) : FrontPosition < row[x].position
  BY <1>2, FrontIsFirst DEF LedgerInv
<1>4. \A x \in ToSet(queue) : row'[m].position < row'[x].position
  BY <1>1, <1>2, <1>3 DEF RecordAs, LedgerInv, RowsShape
<1>5. /\ QueueShape' /\ ToSet(queue') = ToSet(queue) \cup {m}
      /\ Ascends(queue, row') => Ascends(queue', row')
  BY <1>1, <1>2, <1>4, Pushed DEF LedgerInv, QueueShape
<1> QED
  BY <1>1, <1>3, <1>5, OnDeck

(* A message leaves the mailbox for the agent: its row is pending and the  *)
(* handler holds it.                                                       *)
LEMMA TakenInHand ==
    ASSUME LedgerInv, Ready, NEW m \in Messages, Absent(m),
           RecordAs(m, "pending", NextPosition),
           pc'.msg = m, pc'.step \in {"starting", "steered"},
           ran' \in [Messages -> Nat],
           pc'.step = "starting" => ran'[m] = ran[m],
           ran'[m] = ran[m] \/ ran'[m] = ran[m] + 1,
           \A x \in Messages : x # m => ran'[x] = ran[x],
           UNCHANGED <<queue, torn, dropped, reordered>>
    PROVE  LedgerInv'
<1>1. /\ RowsShape' /\ row'[m].status = "pending"
      /\ \A x \in Messages : x # m => row'[x] = row[x]
  <2>1. row' = [row EXCEPT ![m] = [status |-> "pending", position |-> NextPosition]]
    BY DEF RecordAs
  <2>2. RowsShape /\ "pending" \in Statuses \ {"absent"} /\ NextPosition \in Int
    BY NextIsLast DEF Statuses, Unfinished, LedgerInv
  <2>3. /\ RowsShape' /\ row'[m] = [status |-> "pending", position |-> NextPosition]
        /\ \A x \in Messages : x # m => row'[x] = row[x]
    BY <2>1, <2>2, RowWritten, ZenonT(40)
  <2> QED
    BY <2>3
<1>2. pc.msg = None /\ None \notin Messages /\ ~HandedOver
  BY MessagesAssumption, NoneAssumption DEF LedgerInv, PcKnows, Ready, HandedOver
<1>3. /\ m \notin ToSet(queue) /\ ToSet(queue) \subseteq Messages /\ queue' = queue
      /\ torn' = torn /\ dropped' = dropped /\ reordered' = reordered
  BY DEF LedgerInv, OnDeckIsOwed, Absent, Unfinished, ToSet, QueueShape
<1>4. LedgerKeepsOrder'
  <2>1. ASSUME ~reordered PROVE Ascends(queue, row')
    <3>1. Ascends(queue, row)
      BY <2>1 DEF LedgerInv, LedgerKeepsOrder, InLedgerOrder, Ascends
    <3>2. \A x \in ToSet(queue) : row'[x].position = row[x].position
      BY <1>1, <1>3
    <3> QED
      BY <3>1, <3>2, SameOrder DEF LedgerInv, QueueShape
  <2> QED
    BY <1>3, <2>1 DEF LedgerKeepsOrder, InLedgerOrder, Ascends
<1>5. OnDeckIsOwed' /\ PcKnows' /\ QueueShape'
  BY <1>1, <1>2, <1>3 DEF LedgerInv, OnDeckIsOwed, PcKnows, Unfinished, QueueShape
<1>6. ran[m] \in Nat /\ (ran[m] = 0 \/ m \in torn)
  BY <1>2 DEF LedgerInv, HistoryShape, RunsAreTold
<1>7. RunsAreTold'
  <2> SUFFICES ASSUME NEW x \in Messages, Absent(x)' \/ row'[x].status \in Unfinished
               PROVE  ran'[x] = 0 \/ x \in torn' \/ (HandedOver' /\ x = pc'.msg)
    BY DEF RunsAreTold
  <2>1. CASE x = m
    BY <1>3, <1>6, <2>1 DEF HandedOver
  <2>2. CASE x # m
    BY <1>1, <1>2, <1>3, <2>2 DEF LedgerInv, RunsAreTold, Absent, HandedOver
  <2> QED
    BY <2>1, <2>2
<1>8. RunsOnce'
  <2> SUFFICES ASSUME NEW x \in Messages, ran'[x] > 1 PROVE x \in torn'
    BY DEF RunsOnce
  <2>1. x = m => x \in torn
    BY <1>6
  <2> QED
    BY <1>3, <2>1 DEF LedgerInv, RunsOnce
<1>9. NothingIsLost' /\ HistoryShape'
  BY <1>1, <1>2, <1>3 DEF LedgerInv, NothingIsLost, HistoryShape, UnfinishedRows
<1> QED
  BY <1>1, <1>4, <1>5, <1>7, <1>8, <1>9 DEF LedgerInv

LEMMA SubmissionSteps ==
    ASSUME LedgerInv, NEW m \in Messages, Submit(m)
    PROVE  LedgerInv'
<1>1. CASE SubmitIdle(m)
  <2>1. /\ Ready /\ Absent(m) /\ RecordAs(m, "pending", NextPosition)
        /\ pc' = At("starting", m, "submit")
        /\ UNCHANGED <<queue, ran, torn, dropped, reordered>>
    BY <1>1 DEF SubmitIdle, history
  <2>2. /\ pc'.msg = m /\ pc'.step = "starting"
        /\ ran' \in [Messages -> Nat] /\ \A x \in Messages : ran'[x] = ran[x]
    BY <2>1 DEF At, LedgerInv, HistoryShape
  <2> QED
    BY <2>1, <2>2, TakenInHand
<1>2. CASE SteerWritten(m)
  <2>1. /\ Ready /\ Absent(m) /\ RecordAs(m, "pending", NextPosition)
        /\ pc' = At("steered", m, None) /\ ran' = [ran EXCEPT ![m] = @ + 1]
        /\ UNCHANGED <<queue, torn, dropped, reordered>>
    BY <1>2 DEF SteerWritten, Steerable
  <2>2. /\ pc'.msg = m /\ pc'.step = "steered"
        /\ ran' \in [Messages -> Nat] /\ ran'[m] = ran[m] + 1
        /\ \A x \in Messages : x # m => ran'[x] = ran[x]
    BY <2>1 DEF At, LedgerInv, HistoryShape
  <2> QED
    BY <2>1, <2>2, TakenInHand
<1>3. CASE SubmitRunning(m) \/ SteerRefused(m)
  <2>1. Ready /\ Absent(m) /\ Enqueue(m)
    BY <1>3 DEF SubmitRunning, SteerRefused, Steerable, NextFresh, Fresh
  <2> QED
    BY <2>1, EnqueueStep
<1> QED
  BY <1>1, <1>2, <1>3, SteerMissedStep DEF Submit

-----------------------------------------------------------------------------
(* A turn is handed to an agent: the row was pending or queued, so it had  *)
(* not been handed over before, or a crash tore it.                        *)
LEMMA HandOver ==
    ASSUME LedgerInv, ProcInv, StartTurn
    PROVE  LedgerInv'
<1> DEFINE m == pc.msg
<1>1. /\ pc.step = "starting" /\ pc'.step = "started" /\ pc'.msg = m
      /\ ran' = [ran EXCEPT ![m] = @ + 1]
      /\ row' = row /\ queue' = queue /\ torn' = torn /\ dropped' = dropped /\ reordered' = reordered
  BY DEF StartTurn, ProcInv, ProcTypeOK, At
<1>2. m \in Messages /\ row[m].status \in Unfinished /\ m \notin ToSet(queue)
  BY <1>1 DEF LedgerInv, PcKnows
<1>3. ran[m] \in Nat /\ (ran[m] = 0 \/ m \in torn)
  BY <1>1, <1>2 DEF LedgerInv, HistoryShape, RunsAreTold, HandedOver
<1>4. /\ ran' \in [Messages -> Nat] /\ ran'[m] = ran[m] + 1
      /\ \A x \in Messages : x # m => ran'[x] = ran[x]
  BY <1>1, <1>2, <1>3 DEF LedgerInv, HistoryShape
<1> HIDE DEF m
<1>5. RowsShape'
  <2>1. Recorded' = Recorded
    BY <1>1 DEF Recorded, Absent
  <2> QED
    BY <1>1, <2>1 DEF LedgerInv, RowsShape
<1>6. QueueShape' /\ HistoryShape' /\ OnDeckIsOwed' /\ LedgerKeepsOrder'
  BY <1>1, <1>4 DEF LedgerInv, QueueShape, HistoryShape, OnDeckIsOwed, LedgerKeepsOrder, InLedgerOrder
<1>7. PcKnows'
  BY <1>1, <1>2 DEF PcKnows
<1>8. NothingIsLost'
  BY <1>1 DEF LedgerInv, NothingIsLost, UnfinishedRows, m
<1>9. RunsAreTold'
  BY <1>1, <1>4 DEF LedgerInv, RunsAreTold, Absent, HandedOver
<1>10. RunsOnce'
  <2> SUFFICES ASSUME NEW x \in Messages, ran'[x] > 1 PROVE x \in torn'
    BY DEF RunsOnce
  <2>1. x = m => x \in torn
    BY <1>3, <1>4
  <2> QED
    BY <1>1, <1>4, <2>1 DEF LedgerInv, RunsOnce
<1> QED
  BY <1>5, <1>6, <1>7, <1>8, <1>9, <1>10 DEF LedgerInv

(* The ledger hears what became of the message in hand.                    *)
LEMMA Settled ==
    ASSUME LedgerInv, pc.step \in {"starting", "started", "steered"},
           NEW s \in {"delivered", "uncertain", "failed"}, Transition(pc.msg, s),
           pc' = AtReady \/ pc' = AtDispatch,
           UNCHANGED <<queue, ran, torn, dropped, reordered>>
    PROVE  LedgerInv'
<1> DEFINE m == pc.msg
<1>1. m \in Messages /\ m \notin ToSet(queue)
  BY DEF LedgerInv, PcKnows
<1>2. /\ RowsShape' /\ row'[m].status = s
      /\ \A x \in Messages : x # m => row'[x] = row[x]
  <2>1. s \in Statuses \ {"absent"} /\ RowsShape
    BY DEF Statuses, LedgerInv
  <2> QED
    BY <1>1, <2>1, RowSettled
<1>3. /\ queue' = queue /\ ran' = ran /\ torn' = torn /\ dropped' = dropped /\ reordered' = reordered
      /\ pc'.msg = None /\ pc'.step \in {"ready", "dispatch"}
  BY DEF AtReady, AtDispatch, At
<1>4. s \notin Unfinished \cup {"absent"}
  BY DEF Unfinished
<1>5. ToSet(queue) \subseteq Messages
  BY DEF LedgerInv, QueueShape, ToSet
<1>6. LedgerKeepsOrder'
  <2>1. ASSUME ~reordered PROVE Ascends(queue, row')
    <3>1. Ascends(queue, row)
      BY <2>1 DEF LedgerInv, LedgerKeepsOrder, InLedgerOrder, Ascends
    <3>2. \A x \in ToSet(queue) : row'[x].position = row[x].position
      BY <1>1, <1>2, <1>5
    <3> QED
      BY <3>1, <3>2, SameOrder DEF LedgerInv, QueueShape
  <2> QED
    BY <1>3, <2>1 DEF LedgerKeepsOrder, InLedgerOrder, Ascends
<1>7. QueueShape' /\ HistoryShape' /\ RunsOnce' /\ PcKnows'
  BY <1>3 DEF LedgerInv, QueueShape, HistoryShape, RunsOnce, PcKnows
<1>8. OnDeckIsOwed'
  BY <1>1, <1>2, <1>3, <1>5 DEF LedgerInv, OnDeckIsOwed
<1>9. \A x \in Messages : x # m => ~(HandedOver /\ x = pc.msg)
  OBVIOUS
<1> HIDE DEF m
<1>10. RunsAreTold'
  BY <1>1, <1>2, <1>3, <1>4, <1>9 DEF LedgerInv, RunsAreTold, Absent
<1>11. NothingIsLost'
  BY <1>1, <1>2, <1>3, <1>4 DEF LedgerInv, NothingIsLost, UnfinishedRows, m
<1> QED
  BY <1>2, <1>6, <1>7, <1>8, <1>10, <1>11 DEF LedgerInv

(* The head of the queue is taken in hand.                                 *)
LEMMA DispatchStep ==
    ASSUME LedgerInv, DispatchNext
    PROVE  LedgerInv'
<1>1. /\ row' = row /\ ran' = ran /\ torn' = torn /\ dropped' = dropped /\ reordered' = reordered
      /\ pc.step = "dispatch" /\ pc.msg = None /\ None \notin Messages
  BY MessagesAssumption, NoneAssumption DEF DispatchNext, history, LedgerInv, PcKnows
<1>2. RowsShape' /\ HistoryShape' /\ RunsOnce'
  <2>1. Recorded' = Recorded
    BY <1>1 DEF Recorded, Absent
  <2> QED
    BY <1>1, <2>1 DEF LedgerInv, RowsShape, HistoryShape, RunsOnce
<1>3. CASE queue = <<>>
  <2>1. queue' = queue /\ pc'.step = "ready" /\ pc'.msg = None
    BY <1>3 DEF DispatchNext, AtReady, At
  <2>2. QueueShape' /\ PcKnows' /\ OnDeckIsOwed' /\ LedgerKeepsOrder'
    BY <1>1, <2>1 DEF LedgerInv, QueueShape, PcKnows, OnDeckIsOwed, LedgerKeepsOrder, InLedgerOrder
  <2>3. RunsAreTold' /\ NothingIsLost'
    BY <1>1, <2>1 DEF LedgerInv, RunsAreTold, NothingIsLost, UnfinishedRows, Absent, HandedOver
  <2> QED
    BY <1>2, <2>2, <2>3 DEF LedgerInv
<1>4. CASE queue # <<>>
  <2> DEFINE m == Head(queue)
  <2>1. queue' = Tail(queue) /\ pc'.step = "starting" /\ pc'.msg = m
    BY <1>4 DEF DispatchNext, At
  <2>2. /\ queue' \in Seq(Messages) /\ IsInjective(queue')
        /\ m \in ToSet(queue) /\ ToSet(queue') = ToSet(queue) \ {m}
        /\ Ascends(queue, row) => Ascends(queue', row)
    BY <1>4, <2>1, Popped DEF LedgerInv, QueueShape
  <2>3. m \in Messages /\ row[m].status \in Unfinished
    BY <2>2 DEF LedgerInv, QueueShape, OnDeckIsOwed, ToSet
  <2> HIDE DEF m
  <2>4. QueueShape' /\ PcKnows' /\ OnDeckIsOwed'
    BY <1>1, <2>1, <2>2, <2>3 DEF LedgerInv, QueueShape, PcKnows, OnDeckIsOwed
  <2>5. LedgerKeepsOrder'
    BY <1>1, <2>2 DEF LedgerInv, LedgerKeepsOrder, InLedgerOrder, Ascends
  <2>6. RunsAreTold'
    BY <1>1, <2>1 DEF LedgerInv, RunsAreTold, Absent, HandedOver
  <2>7. NothingIsLost'
    BY <1>1, <2>1, <2>2 DEF LedgerInv, NothingIsLost, UnfinishedRows
  <2> QED
    BY <1>2, <2>4, <2>5, <2>6, <2>7 DEF LedgerInv
<1> QED
  BY <1>3, <1>4

(* The operator changes the queue and not the ledger: what leaves it, he   *)
(* dropped.                                                                *)
LEMMA QueueChanged ==
    ASSUME LedgerInv, Ready, QueueShape',
           ToSet(queue') \subseteq ToSet(queue),
           dropped' = dropped \cup (ToSet(queue) \ ToSet(queue')),
           reordered' \in BOOLEAN,
           ~reordered' => Ascends(queue', row),
           pc' = pc \/ pc' = AtDispatch,
           UNCHANGED <<row, ran, torn>>
    PROVE  LedgerInv'
<1>1. /\ row' = row /\ ran' = ran /\ torn' = torn
      /\ pc.step = "ready" /\ pc.msg = None
      /\ pc'.step \in {"ready", "dispatch"} /\ pc'.msg = None
  BY DEF LedgerInv, PcKnows, Ready, AtDispatch, At
<1>2. RowsShape' /\ HistoryShape' /\ RunsOnce'
  <2>1. Recorded' = Recorded
    BY <1>1 DEF Recorded, Absent
  <2>2. ToSet(queue) \subseteq Messages
    BY DEF LedgerInv, QueueShape, ToSet
  <2> QED
    BY <1>1, <2>1, <2>2 DEF LedgerInv, RowsShape, HistoryShape, RunsOnce
<1>3. PcKnows' /\ OnDeckIsOwed'
  BY <1>1 DEF LedgerInv, PcKnows, OnDeckIsOwed
<1>4. LedgerKeepsOrder'
  BY <1>1 DEF LedgerKeepsOrder, InLedgerOrder, Ascends
<1>5. RunsAreTold' /\ NothingIsLost'
  BY <1>1 DEF LedgerInv, RunsAreTold, NothingIsLost, UnfinishedRows, Absent, HandedOver
<1> QED
  BY <1>2, <1>3, <1>4, <1>5 DEF LedgerInv

LEMMA RearrangeSteps ==
    ASSUME LedgerInv, ReorderQueue \/ \E m \in Messages : Barge(m)
    PROVE  LedgerInv'
<1>1. ASSUME Ready, NEW q, q \in Seq(Messages), IsInjective(q), ToSet(q) = ToSet(queue),
             Rearrange(q), pc' = pc \/ pc' = AtDispatch, UNCHANGED <<row, ran, torn, dropped>>
      PROVE  LedgerInv'
  <2>1. /\ queue' = q /\ reordered' = (reordered \/ q # queue)
        /\ row' = row /\ ran' = ran /\ torn' = torn /\ dropped' = dropped
    BY <1>1 DEF Rearrange
  <2>2. QueueShape' /\ ToSet(queue') \subseteq ToSet(queue)
    BY <1>1, <2>1 DEF QueueShape
  <2>3. dropped' = dropped \cup (ToSet(queue) \ ToSet(queue'))
    BY <1>1, <2>1
  <2>4. reordered' \in BOOLEAN
    BY <2>1 DEF LedgerInv, HistoryShape
  <2>5. ~reordered' => Ascends(queue', row)
    BY <2>1 DEF LedgerInv, LedgerKeepsOrder, InLedgerOrder, Ascends
  <2> QED
    BY <1>1, <2>1, <2>2, <2>3, <2>4, <2>5, QueueChanged
<1>2. CASE ReorderQueue
  <2>1. PICK q \in SetToSeqs(ToSet(queue)) : Rearrange(q)
    BY <1>2 DEF ReorderQueue
  <2>2. Ready /\ pc' = pc /\ UNCHANGED <<row, ran, torn, dropped>>
    BY <1>2 DEF ReorderQueue
  <2>3. ToSet(queue) \in SUBSET Messages /\ IsFiniteSet(ToSet(queue))
    <3>1. ToSet(queue) \in SUBSET Recorded
      BY DEF LedgerInv, QueueShape, OnDeckIsOwed, ToSet, Recorded, Absent, Unfinished
    <3> QED
      BY <3>1, FS_Subset DEF LedgerInv, RowsShape, Recorded
  <2>4. q \in Seq(Messages) /\ IsInjective(q) /\ ToSet(q) = ToSet(queue)
    BY <2>3, Listed
  <2> QED
    BY <1>1, <2>1, <2>2, <2>4
<1>3. ASSUME NEW m \in Messages, Barge(m)
      PROVE  LedgerInv'
  <2> DEFINE q == <<m>> \o Without(m)
  <2>1. /\ Ready /\ m \in ToSet(queue) /\ Rearrange(q)
        /\ pc' = AtDispatch /\ UNCHANGED <<row, ran, torn, dropped>>
    BY <1>3 DEF Barge, FinishRun
  <2>2. /\ Without(m) \in Seq(Messages) /\ IsInjective(Without(m))
        /\ ToSet(Without(m)) = ToSet(queue) \ {m}
    BY <2>1, Removed DEF LedgerInv, QueueShape
  <2>3. q \in Seq(Messages) /\ IsInjective(q) /\ ToSet(q) = ToSet(Without(m)) \cup {m}
    BY <2>2, Pushed
  <2>4. ToSet(q) = ToSet(queue)
    BY <2>1, <2>2, <2>3
  <2> HIDE DEF q
  <2> QED
    BY <1>1, <2>1, <2>3, <2>4
<1> QED
  BY <1>2, <1>3

LEMMA RemoveStep ==
    ASSUME LedgerInv, NEW m \in Messages, RemoveQueued(m)
    PROVE  LedgerInv'
<1>1. /\ Ready /\ m \in ToSet(queue) /\ queue' = Without(m) /\ dropped' = dropped \cup {m}
      /\ reordered' = reordered /\ pc' = pc /\ UNCHANGED <<row, ran, torn>>
  BY DEF RemoveQueued
<1>2. /\ Without(m) \in Seq(Messages) /\ IsInjective(Without(m))
      /\ ToSet(Without(m)) = ToSet(queue) \ {m}
      /\ Ascends(queue, row) => Ascends(Without(m), row)
  BY <1>1, Removed DEF LedgerInv, QueueShape
<1>3. /\ QueueShape' /\ ToSet(queue') \subseteq ToSet(queue)
      /\ dropped' = dropped \cup (ToSet(queue) \ ToSet(queue'))
  BY <1>1, <1>2 DEF QueueShape
<1>4. reordered' \in BOOLEAN /\ (~reordered' => Ascends(queue', row))
  BY <1>1, <1>2 DEF LedgerInv, HistoryShape, LedgerKeepsOrder, InLedgerOrder, Ascends
<1> QED
  BY <1>1, <1>3, <1>4, QueueChanged

LEMMA ResetStep ==
    ASSUME LedgerInv, Reset
    PROVE  LedgerInv'
<1>1. /\ Ready /\ queue' = <<>> /\ dropped' = dropped \cup ToSet(queue) /\ reordered' = FALSE
      /\ pc' = pc /\ UNCHANGED <<row, ran, torn>>
  BY DEF Reset
<1>2. QueueShape' /\ ToSet(queue') = {} /\ Ascends(queue', row)
  BY <1>1 DEF QueueShape, IsInjective, ToSet, Ascends
<1> QED
  BY <1>1, <1>2, QueueChanged

(* The process starts again with what the ledger owes, in its order.       *)
LEMMA RecoveryStep ==
    ASSUME LedgerInv, Crash
    PROVE  LedgerInv'
<1>1. PICK q \in SetToSeqs(Resumable) : InLedgerOrder(q) /\ queue' = q
  BY DEF Crash
<1>2. /\ row' = row /\ ran' = ran /\ dropped' = {} /\ reordered' = FALSE /\ pc' = AtReady
      /\ torn' = torn \cup {m \in {pc.msg} : HandedOver}
  BY DEF Crash, HandedOver
<1>3. Resumable \in SUBSET Messages /\ IsFiniteSet(Resumable)
  <2>1. Resumable \in SUBSET Recorded
    BY DEF Resumable, UnfinishedRows, Recorded, Absent, Unfinished
  <2> QED
    BY <2>1, FS_Subset DEF LedgerInv, RowsShape, Recorded
<1>4. q \in Seq(Messages) /\ IsInjective(q) /\ ToSet(q) = Resumable
  BY <1>3, Listed
<1>5. RowsShape' /\ UnfinishedRows' = UnfinishedRows
  <2>1. Recorded' = Recorded
    BY <1>2 DEF Recorded, Absent
  <2> QED
    BY <1>2, <2>1 DEF LedgerInv, RowsShape, UnfinishedRows
<1>6. QueueShape' /\ HistoryShape'
  <2>1. HandedOver => pc.msg \in Messages
    BY DEF HandedOver, LedgerInv, PcKnows
  <2> QED
    BY <1>1, <1>2, <1>4, <2>1 DEF LedgerInv, QueueShape, HistoryShape
<1>7. PcKnows' /\ OnDeckIsOwed'
  BY <1>1, <1>2, <1>4 DEF AtReady, At, PcKnows, OnDeckIsOwed, Resumable, UnfinishedRows
<1>8. LedgerKeepsOrder'
  BY <1>1, <1>2 DEF LedgerKeepsOrder, InLedgerOrder
<1>9. NothingIsLost'
  BY <1>1, <1>4, <1>5 DEF NothingIsLost, Resumable
<1>10. RunsAreTold' /\ RunsOnce'
  BY <1>2 DEF LedgerInv, RunsAreTold, RunsOnce, Absent
<1> QED
  BY <1>5, <1>6, <1>7, <1>8, <1>9, <1>10 DEF LedgerInv

-----------------------------------------------------------------------------
LEMMA LedgerInvStep ==
    ASSUME ConversationInv, [Next]_vars
    PROVE  LedgerInv'
<1>1. LedgerInv /\ ProcInv
  BY DEF ConversationInv
<1>2. CASE Continue
  <2>1. CASE CommitSteer
    BY <1>1, <2>1, Settled DEF CommitSteer, history
  <2>2. CASE CommitStart
    BY <1>1, <2>2, Settled DEF CommitStart, history
  <2>3. CASE StartFails
    BY <1>1, <2>3, Settled DEF StartFails, history
  <2> QED
    BY <1>1, <1>2, <2>1, <2>2, <2>3, HandOver, DispatchStep DEF Continue
<1>3. CASE OperatorStops \/ ReorderQueue
  <2>1. CASE Interrupt
    BY <1>1, <2>1, LedgerUntouched DEF Interrupt, FinishRun, history
  <2> QED
    BY <1>1, <1>3, <2>1, ResetStep, RearrangeSteps DEF OperatorStops
<1>4. CASE Crash
  BY <1>1, <1>4, RecoveryStep
<1>5. ASSUME NEW m \in Messages, AimSteer(m) \/ TimerFires(m) \/ ProcReads(m) \/ ProcFinishes(m)
                                 \/ ProcExits(m)
      PROVE  LedgerInv'
  BY <1>1, <1>5, LedgerUntouched DEF AimSteer, TimerFires, ProcReads, ProcFinishes, ProcExits, history
<1>6. ASSUME NEW m \in Messages, HandleResult(m) \/ HandleExit(m) \/ HandleTimeout(m)
      PROVE  LedgerInv'
  BY <1>1, <1>6, LedgerUntouched DEF HandleResult, HandleExit, HandleTimeout, FinishTurn, FinishRun,
                                     history
<1>7. ASSUME NEW m \in Messages, Submit(m) \/ RemoveQueued(m)
      PROVE  LedgerInv'
  BY <1>1, <1>7, SubmissionSteps, RemoveStep
<1>8. CASE UNCHANGED vars
  BY <1>1, <1>8, LedgerUntouched DEF vars
<1> QED
  BY <1>2, <1>3, <1>4, <1>5, <1>6, <1>7, <1>8 DEF Next

(* The process's own variables keep their shape.                           *)
LEMMA ChatMoves ==
    ASSUME ChatShape,
           \/ chat' = chat
           \/ chat' = IdleChat
           \/ chat' = [chat EXCEPT !.status = "idle", !.turn = None]
           \/ \E m \in Messages : chat' = [chat EXCEPT !.status = "running", !.turn = m]
           \/ \E m \in Messages, kind \in Kinds : chat' = [chat EXCEPT !.transport = kind, !.port = m]
    PROVE  ChatShape'
<1>1. None \notin Messages /\ None \notin Kinds
  BY KindsAssumption, MessagesAssumption, NoneAssumption
<1>2. CASE chat' = chat
  BY <1>2 DEF ChatShape, Running
<1>3. CASE chat' = IdleChat
  BY <1>3 DEF ChatShape, Running, IdleChat
<1>4. CASE chat' = [chat EXCEPT !.status = "idle", !.turn = None]
  BY <1>4 DEF ChatShape, Running
<1>5. ASSUME NEW m \in Messages, chat' = [chat EXCEPT !.status = "running", !.turn = m]
      PROVE  ChatShape'
  BY <1>1, <1>5 DEF ChatShape, Running
<1>6. ASSUME NEW m \in Messages, NEW kind \in Kinds,
             chat' = [chat EXCEPT !.transport = kind, !.port = m]
      PROVE  ChatShape'
  BY <1>1, <1>6 DEF ChatShape, Running
<1> QED
  BY <1>2, <1>3, <1>4, <1>5, <1>6

LEMMA ChatShapeStep ==
    ASSUME ConversationInv, [Next]_vars
    PROVE  ChatShape'
<1>1. ChatShape /\ ProcInv /\ LedgerInv
  BY DEF ConversationInv, ProcessShape
<1>2. CASE Continue
  <2>1. CASE CommitSteer \/ StartFails \/ DispatchNext
    BY <1>1, <2>1, ChatMoves DEF CommitSteer, StartFails, DispatchNext
  <2>2. CASE CommitStart
    <3>1. pc.msg \in Messages /\ chat' = [chat EXCEPT !.status = "running", !.turn = pc.msg]
      BY <1>1, <2>2 DEF CommitStart, LedgerInv, PcKnows
    <3> QED
      BY <1>1, <3>1, ChatMoves
  <2>3. CASE StartTurn /\ WriteTurn
    BY <1>1, <2>3, ChatMoves DEF WriteTurn
  <2>4. CASE StartTurn /\ SpawnTurn
    <3>1. PICK kind \in Opens : chat' = [chat EXCEPT !.transport = kind, !.port = pc.msg]
      BY <2>4 DEF SpawnTurn
    <3>2. pc.msg \in Messages /\ kind \in Kinds
      BY <1>1, <2>4, <3>1 DEF StartTurn, LedgerInv, PcKnows, Opens, ChatShape
    <3> QED
      BY <1>1, <3>1, <3>2, ChatMoves
  <2> QED
    BY <1>2, <2>1, <2>2, <2>3, <2>4 DEF Continue, StartTurn
<1>3. CASE OperatorStops \/ ReorderQueue \/ Crash
  BY <1>1, <1>3, ChatMoves
     DEF OperatorStops, Interrupt, Reset, Barge, FinishRun, ReorderQueue, Rearrange, Crash
<1>4. ASSUME NEW m \in Messages,
             AimSteer(m) \/ Submit(m) \/ RemoveQueued(m) \/ TimerFires(m)
             \/ ProcReads(m) \/ ProcFinishes(m) \/ ProcExits(m)
      PROVE  ChatShape'
  BY <1>1, <1>4, ChatMoves
     DEF AimSteer, Submit, SubmitIdle, SubmitRunning, SteerRefused, SteerWritten, SteerMissed, Enqueue,
         RemoveQueued, TimerFires, ProcReads, ProcFinishes, ProcExits
<1>5. ASSUME NEW m \in Messages, HandleResult(m) \/ HandleExit(m) \/ HandleTimeout(m)
      PROVE  ChatShape'
  BY <1>1, <1>5, ChatMoves DEF HandleResult, HandleExit, HandleTimeout, FinishTurn, FinishRun
<1>6. CASE UNCHANGED vars
  BY <1>1, <1>6, ChatMoves DEF vars
<1> QED
  BY <1>2, <1>3, <1>4, <1>5, <1>6 DEF Next

LEMMA PcShapeStep ==
    ASSUME ConversationInv, [Next]_vars
    PROVE  PcShape'
<1>1. /\ PcShape /\ pc = At(pc.step, pc.msg, pc.from)
      /\ AtReady \in [step : {"ready"}, msg : {None}, from : {None}]
      /\ AtDispatch \in [step : {"dispatch"}, msg : {None}, from : {None}]
  BY DEF ConversationInv, ProcInv, ProcTypeOK, ProcessShape, PcShape, AtReady, AtDispatch, At
<1>2. CASE Continue
  <2>1. CASE CommitSteer \/ StartFails \/ CommitStart
    BY <1>1, <2>1 DEF CommitSteer, StartFails, CommitStart, PcShape
  <2>2. CASE DispatchNext
    <3>1. queue # <<>> => Head(queue) \in Messages
      BY DEF ConversationInv, LedgerInv, QueueShape
    <3> QED
      BY <1>1, <2>2, <3>1 DEF DispatchNext, PcShape, At
  <2>3. CASE StartTurn
    BY <1>1, <2>3 DEF StartTurn, PcShape
  <2> QED
    BY <1>2, <2>1, <2>2, <2>3 DEF Continue
<1>3. CASE OperatorStops \/ ReorderQueue \/ Crash
  BY <1>1, <1>3
     DEF OperatorStops, Interrupt, Reset, Barge, FinishRun, ReorderQueue, Rearrange, Crash, PcShape
<1>4. ASSUME NEW m \in Messages,
             AimSteer(m) \/ Submit(m) \/ RemoveQueued(m) \/ TimerFires(m)
             \/ ProcReads(m) \/ ProcFinishes(m) \/ ProcExits(m)
      PROVE  PcShape'
  BY <1>1, <1>4
     DEF AimSteer, Submit, SubmitIdle, SubmitRunning, SteerRefused, SteerWritten, SteerMissed, Enqueue,
         RemoveQueued, TimerFires, ProcReads, ProcFinishes, ProcExits, PcShape, At
<1>5. ASSUME NEW m \in Messages, HandleResult(m) \/ HandleExit(m) \/ HandleTimeout(m)
      PROVE  PcShape'
  BY <1>1, <1>5 DEF HandleResult, HandleExit, HandleTimeout, FinishTurn, FinishRun, PcShape
<1>6. CASE UNCHANGED vars
  BY <1>1, <1>6 DEF vars, PcShape
<1> QED
  BY <1>2, <1>3, <1>4, <1>5, <1>6 DEF Next

LEMMA MailShapeStep ==
    ASSUME ConversationInv, [Next]_vars
    PROVE  MailShape'
<1>1. MailShape /\ chat.turn \in Messages \cup {None}
  BY DEF ConversationInv, ProcessShape, MailShape, ChatShape
<1>2. CASE Continue
  BY <1>1, <1>2 DEF Continue, CommitSteer, StartTurn, CommitStart, StartFails, DispatchNext, Answer,
                    history, MailShape
<1>3. CASE OperatorStops \/ ReorderQueue
  BY <1>1, <1>3 DEF OperatorStops, Interrupt, Reset, Barge, ReorderQueue, history, MailShape
<1>4. CASE Crash
  BY <1>1, <1>4, MessagesAssumption DEF Crash, MailShape
<1>5. ASSUME NEW m \in Messages,
             AimSteer(m) \/ Submit(m) \/ RemoveQueued(m) \/ TimerFires(m)
             \/ ProcReads(m) \/ ProcFinishes(m) \/ ProcExits(m)
      PROVE  MailShape'
  BY <1>1, <1>5
     DEF AimSteer, Submit, SubmitIdle, SubmitRunning, SteerRefused, SteerWritten, SteerMissed, Enqueue,
         RemoveQueued, TimerFires, ProcReads, ProcFinishes, ProcExits, Answer, history, MailShape
<1>6. ASSUME NEW m \in Messages, HandleResult(m) \/ HandleExit(m) \/ HandleTimeout(m)
      PROVE  MailShape'
  BY <1>1, <1>6 DEF HandleResult, HandleExit, HandleTimeout, history, MailShape
<1>7. CASE UNCHANGED vars
  BY <1>1, <1>7 DEF vars, MailShape
<1> QED
  BY <1>2, <1>3, <1>4, <1>5, <1>6, <1>7 DEF Next

-----------------------------------------------------------------------------
LEMMA ConversationInvInit == Init => ConversationInv
<1> SUFFICES ASSUME Init PROVE ConversationInv
  OBVIOUS
<1>1. /\ row = [m \in Messages |-> [status |-> "absent", position |-> 0]]
      /\ queue = <<>> /\ chat = IdleChat /\ pc = AtReady /\ fired = {}
      /\ aim = [m \in Messages |-> None] /\ crashes = 0 /\ ran = [m \in Messages |-> 0]
      /\ torn = {} /\ dropped = {} /\ reordered = FALSE
  BY DEF Init
<1>2. RowsShape
  <2>1. row \in [Messages -> Row] /\ \A m \in Messages : row[m].position = 0
    BY <1>1 DEF Row, Statuses
  <2>2. IsFiniteSet(Recorded)
    <3>1. Recorded = {}
      BY <1>1 DEF Recorded, Absent
    <3> QED
      BY <3>1, FS_EmptySet
  <2>3. \A m \in Messages : -0 <= row[m].position /\ row[m].position <= 0
    BY <2>1
  <2> QED
    BY <2>1, <2>2, <2>3 DEF RowsShape
<1>3. QueueShape /\ HistoryShape /\ ToSet(queue) = {}
  <2>1. HistoryShape
    BY <1>1 DEF HistoryShape
  <2>2. queue \in Seq(Messages) /\ DOMAIN queue = {}
    BY <1>1
  <2> QED
    BY <2>1, <2>2 DEF QueueShape, IsInjective, ToSet
<1>4. PcKnows /\ OnDeckIsOwed /\ RunsAreTold /\ RunsOnce /\ NothingIsLost /\ LedgerKeepsOrder
  BY <1>1, <1>3 DEF PcKnows, OnDeckIsOwed, RunsAreTold, RunsOnce, NothingIsLost, LedgerKeepsOrder,
                    InLedgerOrder, UnfinishedRows, Unfinished, AtReady, At
<1>5. ProcessShape
  BY <1>1, MessagesAssumption DEF ProcessShape, ChatShape, PcShape, MailShape, Running, IdleChat, AtReady, At
<1> QED
  BY <1>2, <1>3, <1>4, <1>5, ProcInvInit DEF LedgerInv, ConversationInv

LEMMA ConversationInvStep == ConversationInv /\ [Next]_vars => ConversationInv'
<1> SUFFICES ASSUME ConversationInv, [Next]_vars PROVE ConversationInv'
  OBVIOUS
<1>1. ProcInv'
  BY ProcInvStep DEF ConversationInv
<1> QED
  BY <1>1, LedgerInvStep, ChatShapeStep, PcShapeStep, MailShapeStep
     DEF ConversationInv, ProcessShape

LEMMA ConversationAlways == Spec => []ConversationInv
BY ConversationInvInit, ConversationInvStep, PTL DEF Spec

(* The variables of the conversation keep their types: the queue holds no  *)
(* message twice, a turn is set exactly while the process is running, and  *)
(* a transport exactly while it has a port.                                *)
THEOREM ChatTypeCorrect == Spec => []ChatTypeOK
<1>1. ConversationInv => ChatTypeOK
  BY DEF ConversationInv, ProcessShape, ChatShape, PcShape, MailShape, LedgerInv, RowsShape, QueueShape, HistoryShape,
         ProcInv, ProcTypeOK, ChatTypeOK
<1> QED
  BY <1>1, ConversationAlways, PTL

(* Nothing is lost: over every order of submissions, steers that miss,     *)
(* starts that fail, stops and crashes, a message the ledger owes is on    *)
(* deck, in the handler's hands, or dropped by the operator.               *)
THEOREM NothingIsEverLost == Spec => []NothingIsLost
<1>1. ConversationInv => NothingIsLost
  BY DEF ConversationInv, LedgerInv
<1> QED
  BY <1>1, ConversationAlways, PTL

(* A message is handed to an agent twice only if a crash caught it between *)
(* the agent and the ledger: recovery runs no row whose outcome the ledger *)
(* already knows.                                                          *)
THEOREM RunsOnceAlways == Spec => []RunsOnce
<1>1. ConversationInv => RunsOnce
  BY DEF ConversationInv, LedgerInv
<1> QED
  BY <1>1, ConversationAlways, PTL

(* Unless the operator rearranged it, the queue is in the ledger's order:  *)
(* a new position is behind every recorded one, and the front position is  *)
(* before everything still owed.                                           *)
THEOREM LedgerAlwaysKeepsOrder == Spec => []LedgerKeepsOrder
<1>1. ConversationInv => LedgerKeepsOrder
  BY DEF ConversationInv, LedgerInv
<1> QED
  BY <1>1, ConversationAlways, PTL

(* A turn is replaced or cleared only by its own process's result or exit, *)
(* its own timer, the operator, or a crash.                                *)
THEOREM TurnsAlwaysEndForCause == Spec => TurnsEndForCause
<1> DEFINE Cause == \/ proc[chat.port].results > 0 \/ proc[chat.port].exited
                    \/ chat.turn \in fired
                    \/ OperatorStops \/ Crash
<1>1. ASSUME ConversationInv, [Next]_vars, Running, chat'.turn # chat.turn
      PROVE  Cause
  <2>1. ChatShape /\ ProcInv
    BY <1>1 DEF ConversationInv, ProcessShape
  <2>2. ~CommitStart
    BY <1>1, <2>1 DEF CommitStart, ProcInv, IdleBetweenTurns
  <2>3. ~StartTurn
    BY <1>1, <2>1 DEF StartTurn, ProcInv, IdleBetweenTurns
  <2>4. ~(CommitSteer \/ StartFails \/ DispatchNext \/ ReorderQueue)
    BY <1>1 DEF CommitSteer, StartFails, DispatchNext, ReorderQueue, Rearrange
  <2>5. ~UNCHANGED vars
    BY <1>1 DEF vars
  <2>6. ASSUME NEW m \in Messages
        PROVE  ~(AimSteer(m) \/ Submit(m) \/ RemoveQueued(m) \/ TimerFires(m)
                 \/ ProcReads(m) \/ ProcFinishes(m) \/ ProcExits(m))
    BY <1>1 DEF AimSteer, Submit, SubmitIdle, SubmitRunning, SteerRefused, SteerWritten, SteerMissed,
                Enqueue, RemoveQueued, TimerFires, ProcReads, ProcFinishes, ProcExits
  <2>7. ASSUME NEW m \in Messages, HandleResult(m) \/ HandleExit(m) \/ HandleTimeout(m)
        PROVE  Cause
    <3>1. CASE HandleResult(m)
      BY <1>1, <3>1 DEF HandleResult, Current
    <3>2. CASE HandleExit(m)
      BY <1>1, <3>2 DEF HandleExit, Current
    <3>3. CASE HandleTimeout(m)
      BY <1>1, <3>3 DEF HandleTimeout, TimesOut
    <3> QED
      BY <2>7, <3>1, <3>2, <3>3
  <2> QED
    BY <1>1, <2>2, <2>3, <2>4, <2>5, <2>6, <2>7 DEF Next, Continue
<1>2. ConversationInv /\ [Next]_vars => [(Running /\ chat'.turn # chat.turn) => Cause]_vars
  BY <1>1
<1> QED
  BY <1>2, ConversationAlways, PTL DEF Spec, TurnsEndForCause
=============================================================================
