---------------------------- MODULE MCHourlyReads ----------------------------
(* Two devices, and one of three casts: the programmes of the first, two   *)
(* circuits with one parameter catalogue and a programme the portal types  *)
(* as JSON; the statistics of both, with two groups and one; or the energy *)
(* of one group over the days.                                             *)
EXTENDS HourlyReads

CONSTANTS d1, d2
VARIABLE cast

Programme(m, p) == [device |-> d1, module |-> m, parameter |-> p]
Circuits == {Programme(1, "a"), Programme(2, "a"), Programme(1, "b")}
TypedAsProgram == {Programme(1, "a"), Programme(2, "a")}
Group(d, n) == [device |-> d, group |-> n]
BothDevices == {Group(d1, 1), Group(d1, 2), Group(d2, 1)}

(* What the cast is not about: the second device is the first one to be    *)
(* passed over, programmes' rows stay empty, no day goes by.               *)
OnlyTheCast ==
    /\ turn' \in {IF cast = "schedules" THEN cast ELSE "statistics", "other"}
    /\ cast # "schedules" => UNCHANGED raw
    /\ cast # "statistics" => here' # d2 /\ (d2 \in left' => left' = Devices)
    /\ cast = "schedules" => UNCHANGED book
    /\ cast = "statistics" => \A g \in Groups : book'[g][1] \in {None, 0}
    /\ cast # "energy" => today' = 1
    /\ cast = "energy" => walk' \subseteq Circuits \cup {Group(d1, 1)}
    /\ cast = "energy" => \A g \in Groups : book'[g] # book[g] => g = Group(d1, 1)

MCInit ==
    /\ Init /\ cast \in {"schedules", "statistics", "energy"}
    /\ turn = "other"
MCNext == Next /\ UNCHANGED cast /\ OnlyTheCast
MCSpec == MCInit /\ [][MCNext]_<<vars, cast>>
=============================================================================
