---------------------------- MODULE MCDateWrites ----------------------------
(* The calls of one cast are made in a behaviour: the service, again and   *)
(* again, beside the end of the holiday set elsewhere; two date entities,  *)
(* each of which has one write accepted, of the other day than it starts   *)
(* from; or the service and an entity, which set one date at a time, with  *)
(* the device list read once.  What a single date is compared with is the  *)
(* same date, so the last two start from the same day.                     *)
EXTENDS DateWrites

CONSTANTS b, e, both
VARIABLE cast

Service == {both}
TwoEntities == {b, e}
OneDateTwice == {b, both}
MCOwns == [c \in Calls |-> CASE c = both -> Keys [] c = b -> {Begin} [] OTHER -> {End}]

OnlyTheCast ==
    /\ \A c \in Calls \ cast : pc'[c] = "idle"
    /\ cast # Service => ~SetElsewhere
    /\ cast = OneDateTwice => ~listDue'
    /\ cast = TwoEntities => \A c \in cast : Range(call'[c].asked) \subseteq {2}

MCInit ==
    /\ Init /\ cast \in {Service, TwoEntities, OneDateTwice}
    /\ cast # Service => portal = [k \in Keys |-> 1]
MCNext == Next /\ UNCHANGED cast /\ OnlyTheCast
MCSpec == MCInit /\ [][MCNext]_<<vars, cast>>
=============================================================================
