----------------------------- MODULE MCDispatch -----------------------------
(* The queue with three rows, so that the oldest and the newest differ from *)
(* the one between, and two callers.                                        *)
EXTENDS Dispatch, TLC

CONSTANTS c1, c2
MCItems   == 1..3
MCCallers == {c1, c2}
Symmetry  == Permutations(MCCallers)
=============================================================================
