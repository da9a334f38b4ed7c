--------------------------- MODULE MCValueFreshness ---------------------------
(* Module A describes a reading and a programme that mean the same scraped *)
(* row, module B a control.  A cast is what the portal ever has a value    *)
(* for: either A alone, which comes and goes and may be described anew     *)
(* without its programme; or the programme and the control, where both     *)
(* modules come and go.                                                    *)
EXTENDS ValueFreshness

VARIABLE cast
MCModuleOf == [p \in Params |-> IF p = "c" THEN "B" ELSE "A"]
MCMeant == [p \in Params |-> IF p = "c" THEN NoRow ELSE "s"]

OneModule == {"p", "q"}
TwoModules == {"q", "c"}
OnlyTheCast ==
    /\ DOMAIN rows \cap Params \subseteq cast /\ DOMAIN merged \subseteq cast
    /\ cast = OneModule => "B" \in listed /\ described["B"] # {} /\ answered["B"] = NeverRead
    /\ cast = OneModule => described["A"] \in {{}, {"p"}, {"p", "q"}}
    /\ cast = TwoModules => \A m \in Modules : described[m] \in {{}, Of(m)}

MCInit == FreshInit /\ cast \in {OneModule, TwoModules}
MCNext == FreshNext /\ UNCHANGED cast /\ OnlyTheCast'
MCSpec == MCInit /\ [][MCNext]_<<freshVars, cast>>
=============================================================================
