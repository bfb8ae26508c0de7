--------------------------- MODULE MCOrchestration ---------------------------
(* The sets that the configurations of Orchestration give its constants.    *)
EXTENDS Orchestration, TLC

CONSTANTS o1, o2
TwoOperators == {o1, o2}
TwoShifts    == 1..2
=============================================================================
