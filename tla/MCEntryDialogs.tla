--------------------------- MODULE MCEntryDialogs ---------------------------
(* A cast is the dialogs that may be opened in a behaviour and what they   *)
(* may be answered with: every dialog about one entry, which keeps its     *)
(* account, with two passwords and two modes; the options of one that      *)
(* moves between two accounts; and an entry that moves while another one   *)
(* moves, or is added.  Nothing tells accounts, passwords or modes apart   *)
(* but equality, so one start stands for all.                              *)
EXTENDS EntryDialogs

CONSTANTS e1, e2, e3, auth, conf, conf2, opts, add, A, B, C, p, q, api, web
VARIABLE cast

MCKind == [d \in Dialogs |->
    CASE d = auth -> "reauth" [] d = opts -> "options" [] d = add -> "user"
      [] OTHER -> "reconfigure"]
MCOn == [d \in Dialogs |-> CASE d = conf2 -> e2 [] d = add -> e3 [] OTHER -> e1]

Logins == [dialogs |-> {auth, conf, opts}, accounts |-> {A},
           passwords |-> {p, q}, modes |-> {api, web}]
Slots == [dialogs |-> {conf, opts}, accounts |-> {A, B},
          passwords |-> {p}, modes |-> {api}]
Moving(other) == [dialogs |-> {conf, other}, accounts |-> {A, B, C},
                  passwords |-> {p}, modes |-> {api}]
Casts == {Logins, Slots, Moving(conf2), Moving(add)}

(* What a form holds is what it was answered with. *)
MayAnswer(f) ==
    /\ "account" \in DOMAIN f => f.account \in cast.accounts /\ f.password \in cast.passwords
    /\ "mode" \in DOMAIN f => f.mode \in cast.modes

OnlyTheCast ==
    /\ \A d \in Dialogs \ cast.dialogs : pc[d] = "closed"
    /\ \A d \in cast.dialogs : MayAnswer(form[d])
    /\ cast = Logins => \A e \in Present : entry[e] # None => entry[e].slots = None

(* What the cast is not about rests: the second entry's cache, all of it   *)
(* where no dialog is about it; in the first cast the first entry runs on, *)
(* as its cache could hold nothing else.                                   *)
(* Only where an entry is added another one is reloaded for no reason.     *)
Rests ==
    /\ UNCHANGED cache[e2]
    /\ conf2 \notin cast.dialogs => UNCHANGED <<entry[e2], running[e2], phase[e2]>>
    /\ cast = Logins => UNCHANGED cache /\ phase'[e1] # "loading"
    /\ add \notin cast.dialogs =>
          \A e \in Entries : phase'[e] # phase[e] /\ phase'[e] = "loading" => e \in due

MCInit ==
    /\ Init /\ cast \in Casts
    /\ \A e \in Present : entry[e].account = (IF e = e1 THEN A ELSE C)
    /\ \A e \in Present : entry[e].password = p /\ entry[e].mode = api
MCNext == Next /\ UNCHANGED cast /\ OnlyTheCast' /\ Rests
MCFairSpec == MCInit /\ [][MCNext]_<<vars, cast>> /\ Fairness
=============================================================================
