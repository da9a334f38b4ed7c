----------------------------- MODULE MCDiscovery -----------------------------
(* Two modules, each of a device of its own, in one of two casts: the      *)
(* portal may leave the first one off its list; or the user asks for       *)
(* searches, and the second device may be offline or disabled, and its     *)
(* module describes something whenever it is described.                    *)
EXTENDS Discovery

CONSTANTS m1, m2, d1, d2
VARIABLE cast

InOrder == <<m1, m2>>
TwoDevices == [m \in {m1, m2} |-> IF m = m1 THEN d1 ELSE d2]

OnlyTheCast ==
    IF cast = "lists"
    THEN ~Rescan /\ readable' \in {{}, Devices}
    ELSE /\ pc' = "listed" => DOMAIN fresh' = Modules
         /\ m2 \in DOMAIN known' => known'[m2].list # "empty"

MCInit == Init /\ cast \in {"lists", "searches"}
MCNext == Next /\ UNCHANGED cast /\ OnlyTheCast
MCSpec == MCInit /\ [][MCNext]_<<vars, cast>>
=============================================================================
