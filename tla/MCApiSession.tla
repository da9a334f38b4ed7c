---------------------------- MODULE MCApiSession ----------------------------
(* Several casts of threads share one api object, one cast in a behaviour: *)
(* the worker of a cycle beside that of the abandoned cycle before it; a   *)
(* write and its read-back beside the recovery; the teardown beside all    *)
(* that may still be queued.                                               *)
EXTENDS ApiSession

CONSTANT Casts
VARIABLE cast

OnlyTheCast == \A t \in Threads \ cast : pc[t] = "idle"

MCInit == Init /\ cast \in Casts
MCNext == Next /\ UNCHANGED cast /\ OnlyTheCast'
MCFairSpec == MCInit /\ [][MCNext]_<<vars, cast>> /\ Fairness
=============================================================================
