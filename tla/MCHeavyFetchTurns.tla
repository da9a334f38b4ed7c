-------------------------- MODULE MCHeavyFetchTurns --------------------------
(* The three kinds of the code; nothing to bound, the state space is       *)
(* finite.                                                                 *)
EXTENDS HeavyFetchTurns
=============================================================================
