---------------------------- MODULE MCExpertPoll ----------------------------
(* Three parameters, of which one cast is configured in a behaviour: two   *)
(* that can be read, or one that can and one that cannot, and nobody       *)
(* writes; or one, written on both routes; or two, of which the service    *)
(* writes one, in an entry that stays and has the account to itself.       *)
EXTENDS ExpertPoll

CONSTANTS a, b, c
VARIABLE cast   \* the configured parameters and how often one is changed

Reads == [ids |-> {a, b}, changes |-> 0]
OneUnreadable == [ids |-> {a, c}, changes |-> 0]
Writes == [ids |-> {a}, changes |-> MostChanges]
Beside == [ids |-> {a, b}, changes |-> 1]

OnlyTheCast ==
    /\ entities \subseteq cast.ids
    /\ \A i \in Ids : change[i] <= cast.changes
    /\ \A i \in Ids :
          \/ write[i] = NoWrite
          \/ i = a /\ cast = Writes
          \/ i = a /\ cast = Beside /\ write[i].route = "service"
    /\ cast = Beside => ~unloading /\ expertLock # Busy

MCInit ==
    /\ PollInit /\ cast \in {Reads, OneUnreadable, Writes, Beside}
    /\ \A i \in Ids \ cast.ids : shown[i] = Nothing
MCNext == PollNext /\ UNCHANGED cast /\ OnlyTheCast'
MCFairSpec == MCInit /\ [][MCNext]_<<pollVars, cast>> /\ PollFairness
=============================================================================
