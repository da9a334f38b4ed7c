--------------------------- MODULE MCExpertSession ---------------------------
(* A cast is the operations that are asked for in a behaviour, against     *)
(* each other: a write and a batch of reads of one entry, which may be     *)
(* unloaded; the module list and a discovery of two entries.               *)
EXTENDS ExpertSession

CONSTANT Casts
VARIABLE cast

MCKindOf == [o \in Ops |-> CASE o = "w" -> "write" [] o = "r" -> "read"
                             [] o = "l" -> "list" [] OTHER -> "discover"]
MCEntryOf == [o \in Ops |-> IF o = "d" THEN "E2" ELSE "E1"]

OnlyTheCast ==
    /\ \A o \in Ops \ cast : op[o] = Idle
    /\ torn \subseteq {EntryOf[o] : o \in cast \cap {"w", "r"}}

MCInit == Init /\ cast \in Casts
MCNext == Next /\ UNCHANGED cast /\ OnlyTheCast'
MCSpec == MCInit /\ [][MCNext]_<<vars, cast>>
MCFairSpec == MCSpec /\ Fairness
=============================================================================
