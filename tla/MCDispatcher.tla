---------------------------- MODULE MCDispatcher ----------------------------
(* The pump with one terminal agent beside the agent of its run, and one   *)
(* operator; the configurations choose how many rows there are.            *)
EXTENDS Dispatcher

CONSTANTS terminal, agent, op
OneItem    == 1..1
TwoItems   == 1..2
OneShift   == 1..1
TwoShifts  == 1..2
MCCallers  == {terminal, agent}
OnlyAgent  == {agent}
MCAgents   == {agent}
MCOperators == {op}
=============================================================================
