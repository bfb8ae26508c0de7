------------------------------- MODULE MCLive -------------------------------
(* Two parts of the server that must come to an end whatever the others do, *)
(* one at a time: the pump with its queue and shifts, and the bridge to the *)
(* browser.  `subject` is the part that moves, the other keeps one initial  *)
(* state.                                                                   *)
EXTENDS MCDispatcher, BrowserBridge

VARIABLE subject

LiveInit ==
    /\ subject \in {"pump", "bridge"}
    /\ Init
    /\ BridgeInit
    /\ subject # "bridge" => listening = {} /\ \A c \in Calls : kind[c] = "tab"

LiveNext ==
    /\ UNCHANGED subject
    /\ \/ subject = "pump" /\ Next /\ UNCHANGED bridgeVars
       \/ subject = "bridge" /\ BridgeNext /\ UNCHANGED vars

\* What Fairness and FairBridgeSpec assume, of the part that moves.
LiveFairness ==
    /\ WF_vars(subject = "pump" /\ PumpStep)
    /\ WF_vars(subject = "pump" /\ CooldownElapses)
    /\ WF_vars(subject = "pump" /\ (RunReports \/ RunCrashes))
    /\ \A p \in Procs :
          WF_vars(subject = "pump" /\ Continue(p) /\ UNCHANGED <<item, request, pumpVars>>)
    /\ WF_vars(subject = "pump" /\ Tick /\ UNCHANGED <<item, request, pumpVars>>)
    /\ \A c \in Calls : WF_bridgeVars(subject = "bridge" /\ Expire(c))

LiveSpec == LiveInit /\ [][LiveNext]_<<subject, vars, bridgeVars>> /\ LiveFairness
=============================================================================
