-------------------------- MODULE MCEntryLifecycle --------------------------
(* Three entries, of which one cast is on stage in a behaviour: two of one *)
(* account that come and go through each other, one of them built twice,   *)
(* with nothing to save; or one of an account of its own that is built,    *)
(* and reloaded or retried, with everything to save.                       *)
EXTENDS EntryLifecycle, TLC

CONSTANTS e1, e2, e3
VARIABLE cast   \* how often each entry is built

MCAccount == e1 :> "shared" @@ e2 :> "shared" @@ e3 :> "own"
Pair == e1 :> 2 @@ e2 :> 1 @@ e3 :> 0
Alone == e1 :> 0 @@ e2 :> 0 @@ e3 :> 2

OnlyTheCast ==
    \A e \in Entries :
        /\ phase[e] = "loading" => gen[e] < cast[e]
        /\ cast = Pair => \A g \in Gens : cycle[e][g] # "saving"

MCInit == LifecycleInit /\ cast \in {Pair, Alone}
MCNext == LifecycleNext /\ UNCHANGED cast /\ OnlyTheCast'
MCFairSpec == MCInit /\ [][MCNext]_<<lifecycleVars, cast>> /\ Fairness
=============================================================================
