------------------------- MODULE EntryDialogs_proofs -------------------------
(* Proofs about EntryDialogs, for any entries, accounts and dialogs: no    *)
(* two entries share an account, and a move leaves nothing of the old      *)
(* installation behind.                                                    *)
EXTENDS EntryDialogs, TLAPS

USE DialogsAssumption, ConfigsAssumption

-----------------------------------------------------------------------------
(* The inductive invariant *)

Busy == {"checking", "waiting", "forgetting", "forgot"}

(* A dialog on its way to a login that is not its entry's.                 *)
Claims(d) ==
    /\ pc[d] \in Busy /\ Kind[d] \in {"user", "reconfigure"}
    /\ Kind[d] = "reconfigure" => form[d].seen[1][1] # form[d].account

(* What a dialog holds, where it is.                                       *)
FormOK(d) ==
    /\ Kind[d] # "options" =>
          /\ pc[d] \notin {"menu", "form"}
          /\ pc[d] \in Busy => /\ form[d].account \in Accounts
                              /\ form[d].password \in Passwords
                              /\ form[d].mode \in Modes
    /\ Kind[d] = "options" =>
          /\ pc[d] = "menu" => form[d].found \in Accounts \cup {None}
          /\ pc[d] \in {"form", "checking", "waiting"} =>
                form[d].slots \in Accounts \cup {None}
          /\ pc[d] \in {"checking", "waiting"} => form[d].mode \in Modes

TypesOK ==
    /\ entry \in [Entries -> Configs \cup {None}]
    /\ pc \in [Dialogs -> {"closed", "menu", "form"} \cup Busy]
    /\ DOMAIN form = Dialogs /\ \A d \in Dialogs : FormOK(d)
    /\ running \in [Entries -> Accounts \cup {None}]
    /\ phase \in [Entries -> {"out", "loading", "loaded", "removed"}]
    /\ cache \in [Entries -> Accounts \cup {None}]
    /\ raced \subseteq Entries

(* A login that is claimed is nobody's yet, and claimed once; who forgets  *)
(* an installation has claimed the next one.                               *)
ClaimsOK ==
    /\ \A d \in Dialogs : Claims(d) => form[d].account \in Accounts /\ ~Taken(form[d].account)
    /\ \A d, o \in Dialogs :
          Claims(d) /\ Claims(o) /\ form[d].account = form[o].account => d = o
    /\ \A d \in Dialogs : pc[d] \in {"forgetting", "forgot"} => Claims(d)

(* What an entry keeps is of its login, and it runs on it; one that is     *)
(* moving does not run, and one that is gone keeps nothing.                *)
Down(e) == phase[e] \in {"out", "removed"}

KeptOK ==
    /\ \A e \in Entries : Down(e) => running[e] = None
    /\ \A e \in Entries : Exists(e) => phase[e] # "removed"
    /\ \A e \in Entries : ~Exists(e) => Down(e) /\ cache[e] = None /\ e \notin raced
    /\ \A e \in Entries : Exists(e) /\ e \notin raced =>
          /\ running[e] \in {None, entry[e].account}
          /\ cache[e] \in {None, entry[e].account}
    /\ \A d \in Dialogs : On[d] \notin raced =>
          /\ pc[d] \in {"forgetting", "forgot"} => Down(On[d])
          /\ pc[d] = "forgot" => cache[On[d]] = None

IInv == TypesOK /\ ClaimsOK /\ KeptOK /\ OneEntryPerAccount

LEMMA InitIInv == Init => IInv
<1>. SUFFICES ASSUME Init PROVE IInv
  OBVIOUS
<1>. USE DEF Init
<1>1. TypesOK
  <2>1. running \in [Entries -> Accounts \cup {None}]
    BY DEF Exists, Configs
  <2>. QED
    BY <2>1 DEF TypesOK, FormOK, Busy
<1>2. ClaimsOK
  BY DEF ClaimsOK, Claims, Busy
<1>3. KeptOK
  BY DEF KeptOK, Down
<1>4. OneEntryPerAccount
  BY DEF OneEntryPerAccount, Exists
<1>. QED
  BY <1>1, <1>2, <1>3, <1>4 DEF IInv

-----------------------------------------------------------------------------
(* What a step of one dialog has to show *)

(* Only its own form is another.                                           *)
Rewrites(d) == DOMAIN form' = Dialogs /\ \A o \in Dialogs \ {d} : form'[o] = form[o]

LEMMA HoldsIs ==
    ASSUME IInv, NEW d \in Dialogs
    PROVE  /\ UNCHANGED form => Rewrites(d) /\ form'[d] = form[d]
           /\ \A what : Holds(d, what) => Rewrites(d) /\ form'[d] = what
BY DEF IInv, TypesOK, Rewrites, Holds

LEMMA FormsStep ==
    ASSUME IInv, NEW d \in Dialogs, NEW where \in {"closed", "menu", "form"} \cup Busy,
           Goes(d, where), Rewrites(d), FormOK(d)'
    PROVE  /\ pc' \in [Dialogs -> {"closed", "menu", "form"} \cup Busy]
           /\ DOMAIN form' = Dialogs /\ \A o \in Dialogs : FormOK(o)'
           /\ pc'[d] = where
           /\ \A o \in Dialogs \ {d} : pc'[o] = pc[o] /\ form'[o] = form[o]
<1>1. /\ pc \in [Dialogs -> {"closed", "menu", "form"} \cup Busy]
      /\ \A o \in Dialogs : FormOK(o)
  BY DEF IInv, TypesOK
<1>2. /\ pc' \in [Dialogs -> {"closed", "menu", "form"} \cup Busy]
      /\ DOMAIN form' = Dialogs /\ pc'[d] = where
      /\ \A o \in Dialogs \ {d} : pc'[o] = pc[o] /\ form'[o] = form[o]
  BY <1>1 DEF Goes, Rewrites
<1>3. ASSUME NEW o \in Dialogs \ {d} PROVE FormOK(o)'
  BY <1>1, <1>2 DEF FormOK
<1>. QED
  BY <1>2, <1>3

(* Claims stay single and on accounts that are nobody's.                   *)
LEMMA ClaimsStep ==
    ASSUME IInv, NEW d \in Dialogs,
           \A o \in Dialogs \ {d} : pc'[o] = pc[o] /\ form'[o] = form[o],
           \A o \in Dialogs \ {d} : Claims(o) => ~Taken(form[o].account)',
           Claims(d)' =>
              /\ form'[d].account \in Accounts /\ ~Taken(form[d].account)'
              /\ \A o \in Dialogs \ {d} : Claims(o) => form[o].account # form'[d].account,
           pc'[d] \in {"forgetting", "forgot"} => Claims(d)'
    PROVE  ClaimsOK'
<1>1. \A o \in Dialogs \ {d} : Claims(o)' <=> Claims(o)
  BY DEF Claims
<1>2. \A o \in Dialogs \ {d} : Claims(o)' =>
          form'[o].account \in Accounts /\ ~Taken(form[o].account)'
  BY <1>1 DEF IInv, ClaimsOK
<1>3. \A o, p \in Dialogs :
          Claims(o)' /\ Claims(p)' /\ form'[o].account = form'[p].account => o = p
  BY <1>1 DEF IInv, ClaimsOK
<1>4. \A o \in Dialogs : pc'[o] \in {"forgetting", "forgot"} => Claims(o)'
  BY <1>1 DEF IInv, ClaimsOK
<1>. QED
  BY <1>2, <1>3, <1>4 DEF ClaimsOK

(* An account that is taken was taken before.                              *)
LEMMA TakenStep ==
    ASSUME \A e \in Entries :
              Exists(e)' => Exists(e) /\ entry'[e].account = entry[e].account
    PROVE  \A a : Taken(a)' => Taken(a)
BY DEF Taken

(* A dialog opens, or moves on with the claim it had or none; no entry     *)
(* changes.                                                                *)
LEMMA FormStep ==
    ASSUME IInv, NEW d \in Dialogs, NEW where \in {"closed", "menu", "form", "checking", "waiting"},
           Goes(d, where), Rewrites(d), FormOK(d)',
           Claims(d)' =>
              \/ Claims(d) /\ form'[d].account = form[d].account
              \/ /\ form'[d].account \in Accounts
                 /\ ~Taken(form'[d].account) /\ ~Claimed(form'[d].account, d),
           UNCHANGED <<entry, running, phase, cache, raced>>
    PROVE  IInv'
<1>1. /\ pc' \in [Dialogs -> {"closed", "menu", "form"} \cup Busy]
      /\ DOMAIN form' = Dialogs /\ \A o \in Dialogs : FormOK(o)'
      /\ pc'[d] = where
      /\ \A o \in Dialogs \ {d} : pc'[o] = pc[o] /\ form'[o] = form[o]
  <2>1. where \in {"closed", "menu", "form"} \cup Busy
    BY DEF Busy
  <2>. QED BY <2>1, FormsStep
<1>2. TypesOK'
  BY <1>1 DEF IInv, TypesOK
<1>3. \A a : Taken(a)' => Taken(a)
  BY DEF Taken, Exists
<1>4. \A o \in Dialogs \ {d} : \A a :
         Claims(o) /\ form[o].account = a => Claimed(a, d)
  BY DEF Claims, Claimed, Busy
<1>5. ClaimsOK'
  <2>1. \A o \in Dialogs \ {d} : Claims(o) => ~Taken(form[o].account)'
    BY <1>1, <1>3 DEF IInv, ClaimsOK
  <2>2. Claims(d)' =>
           /\ form'[d].account \in Accounts /\ ~Taken(form[d].account)'
           /\ \A o \in Dialogs \ {d} : Claims(o) => form[o].account # form'[d].account
    BY <1>3, <1>4 DEF IInv, ClaimsOK
  <2>3. pc'[d] \notin {"forgetting", "forgot"}
    BY <1>1
  <2>. QED
    BY <1>1, <2>1, <2>2, <2>3, ClaimsStep
<1>6. KeptOK'
  BY <1>1 DEF IInv, KeptOK, Down, Exists
<1>7. OneEntryPerAccount'
  BY DEF IInv, OneEntryPerAccount, Exists
<1>. QED
  BY <1>2, <1>5, <1>6, <1>7 DEF IInv

LEMMA ConfigIs ==
    ASSUME IInv, NEW e \in Entries, Exists(e)
    PROVE  /\ entry[e] \in Configs /\ entry[e].account \in Accounts
           /\ entry[e].mode \in Modes /\ entry[e].password \in Passwords
           /\ entry[e].slots \in Accounts \cup {None}
BY DEF IInv, TypesOK, Exists, Configs

-----------------------------------------------------------------------------
(* A dialog and the portal *)

LEMMA OpenStep ==
    ASSUME IInv, NEW d \in Dialogs, OpenUser(d) \/ OpenReauth(d) \/ OpenReconfigure(d)
    PROVE  IInv'
<1>. DEFINE a == form'[d].account
<1>1. \E b \in Accounts, p \in Passwords, m \in Modes : \E s :
         /\ Sent(d, b, p, m, s)
         /\ Kind[d] = "user" => ~Claimed(b, d) /\ ~Taken(b)
         /\ Kind[d] = "reconfigure" /\ s[1][1] # b => ~Claimed(b, d) /\ ~Taken(b)
  <2>1. CASE OpenUser(d)
    BY <2>1 DEF OpenUser, New
  <2>2. CASE OpenReauth(d)
    <3>1. Here(d).account \in Accounts /\ Here(d).mode \in Modes
      BY <2>2, ConfigIs DEF OpenReauth, Here
    <3>. QED BY <2>2, <3>1 DEF OpenReauth
  <2>3. CASE OpenReconfigure(d)
    <3>1. Here(d).mode \in Modes
      BY <2>3, ConfigIs DEF OpenReconfigure, Here
    <3>2. LoginState(Here(d))[1][1] = Here(d).account
      BY DEF LoginState, Data
    <3>. QED BY <2>3, <3>1, <3>2 DEF OpenReconfigure
  <2>. QED BY <2>1, <2>2, <2>3
<1>2. PICK b, p, m, s :
         /\ b \in Accounts /\ p \in Passwords /\ m \in Modes
         /\ Sent(d, b, p, m, s)
         /\ Kind[d] = "user" => ~Claimed(b, d) /\ ~Taken(b)
         /\ Kind[d] = "reconfigure" /\ s[1][1] # b => ~Claimed(b, d) /\ ~Taken(b)
  BY <1>1
<1>3. Rewrites(d) /\ form'[d] = [account |-> b, password |-> p, mode |-> m, seen |-> s]
  BY <1>2, HoldsIs DEF Sent
<1>4. Goes(d, "checking") /\ UNCHANGED <<entry, running, phase, cache, raced>>
      /\ Kind[d] # "options"
  BY DEF OpenUser, OpenReauth, OpenReconfigure, home, history
<1>5. pc'[d] = "checking"
  BY <1>4 DEF Goes, IInv, TypesOK
<1>6. FormOK(d)'
  BY <1>2, <1>3, <1>4, <1>5 DEF FormOK
<1>7. Claims(d)' => /\ form'[d].account \in Accounts
                    /\ ~Taken(form'[d].account) /\ ~Claimed(form'[d].account, d)
  BY <1>2, <1>3, <1>4 DEF Claims
<1>. QED
  BY <1>3, <1>4, <1>6, <1>7, FormStep

(* An options dialog, which claims nothing.                                *)
LEMMA OptionsStep ==
    ASSUME IInv, NEW d \in Dialogs, Kind[d] = "options",
           NEW where \in {"closed", "menu", "form", "checking", "waiting"},
           Goes(d, where), Rewrites(d), FormOK(d)',
           UNCHANGED <<entry, running, phase, cache, raced>>
    PROVE  IInv'
<1>1. ~Claims(d)'
  BY DEF Claims
<1>. QED
  BY <1>1, FormStep

LEMMA OptionsFormsStep ==
    ASSUME IInv, NEW d \in Dialogs,
           OpenOptions(d) \/ Discover(d) \/ ShowOptions(d) \/ SubmitOptions(d)
    PROVE  IInv'
<1>1. UNCHANGED <<entry, running, phase, cache, raced>>
  BY DEF OpenOptions, Discover, ShowOptions, SubmitOptions, home, history, Stray
<1>2. Exists(On[d]) /\ On[d] \in Entries
  BY DEF OpenOptions, Discover, ShowOptions, SubmitOptions
<1>3. Here(d).account \in Accounts /\ Here(d).slots \in Accounts \cup {None}
  BY <1>2, ConfigIs DEF Here
<1>4. pc \in [Dialogs -> {"closed", "menu", "form"} \cup Busy] /\ FormOK(d)
  BY DEF IInv, TypesOK
<1>5. CASE OpenOptions(d)
  <2>1. Kind[d] = "options" /\ Goes(d, "menu") /\ pc'[d] = "menu"
    BY <1>4, <1>5 DEF OpenOptions, Goes
  <2>2. Rewrites(d) /\ form'[d].found = None
    BY <1>5, HoldsIs DEF OpenOptions
  <2>3. FormOK(d)'
    BY <2>1, <2>2 DEF FormOK, Busy
  <2>. QED BY <1>1, <2>1, <2>2, <2>3, OptionsStep
<1>6. CASE Discover(d)
  <2>1. pc' = pc /\ pc[d] = "menu" /\ Kind[d] = "options"
    BY <1>4, <1>6 DEF Discover, FormOK
  <2>2. Rewrites(d) /\ form'[d] = [form[d] EXCEPT !.found = Here(d).account]
    BY <1>6, HoldsIs DEF Discover
  <2>3. Goes(d, "menu")
    BY <1>4, <2>1 DEF Goes
  <2>4. FormOK(d)'
    BY <1>3, <2>1, <2>2 DEF FormOK
  <2>. QED BY <1>1, <2>1, <2>2, <2>3, <2>4, OptionsStep
<1>7. CASE ShowOptions(d)
  <2>1. pc[d] = "menu" /\ Kind[d] = "options" /\ Goes(d, "form") /\ pc'[d] = "form"
    BY <1>4, <1>7 DEF ShowOptions, FormOK, Goes
  <2>2. PICK s \in {Here(d).slots, form[d].found, None} :
           Holds(d, [opened |-> form[d].opened, slots |-> s])
    BY <1>7 DEF ShowOptions
  <2>3. Rewrites(d) /\ form'[d].slots = s
    BY <2>2, HoldsIs
  <2>4. s \in Accounts \cup {None}
    BY <1>3, <1>4, <2>1 DEF FormOK
  <2>5. FormOK(d)'
    BY <2>1, <2>3, <2>4 DEF FormOK
  <2>. QED BY <1>1, <2>1, <2>3, <2>5, OptionsStep
<1>8. CASE SubmitOptions(d)
  <2>1. pc[d] = "form" /\ Kind[d] = "options"
    BY <1>4, <1>8 DEF SubmitOptions, FormOK
  <2>2. PICK m \in Modes : /\ Holds(d, Options(d, m))
                           /\ Goes(d, "waiting") \/ Goes(d, "checking")
    BY <1>8 DEF SubmitOptions
  <2>3. Rewrites(d) /\ form'[d].slots = form[d].slots /\ form'[d].mode = m
    BY <2>2, HoldsIs DEF Options
  <2>4. pc'[d] \in {"waiting", "checking"}
    BY <1>4, <2>2 DEF Goes
  <2>5. FormOK(d)'
    BY <1>4, <2>1, <2>3, <2>4 DEF FormOK
  <2>. QED BY <1>1, <2>1, <2>2, <2>3, <2>5, OptionsStep
<1>. QED
  BY <1>5, <1>6, <1>7, <1>8

(* A dialog that waits, shows its form again or ends keeps its claim or    *)
(* drops it.                                                               *)
LEMMA EndsStep ==
    ASSUME IInv, NEW d \in Dialogs, Ends(d),
           UNCHANGED <<entry, running, phase, cache, raced>>
    PROVE  IInv'
<1>1. Goes(d, "closed") /\ Rewrites(d) /\ pc'[d] = "closed"
  BY HoldsIs DEF Ends, Goes, IInv, TypesOK
<1>2. FormOK(d)' /\ ~Claims(d)'
  BY <1>1 DEF FormOK, Claims, Busy
<1>. QED
  BY <1>1, <1>2, FormStep

LEMMA AcceptedStep == ASSUME IInv, NEW d \in Dialogs, Accepted(d) PROVE IInv'
<1>1. Goes(d, "waiting") /\ pc[d] = "checking" /\ pc'[d] = "waiting"
  BY DEF Accepted, Goes, IInv, TypesOK
<1>2. Rewrites(d) /\ form'[d] = form[d]
  BY HoldsIs DEF Accepted
<1>3. FormOK(d)'
  BY <1>1, <1>2 DEF FormOK, Busy, IInv, TypesOK
<1>4. Claims(d)' => Claims(d) /\ form'[d].account = form[d].account
  BY <1>1, <1>2 DEF Claims, Busy
<1>. QED
  BY <1>1, <1>2, <1>3, <1>4, FormStep DEF Accepted, home, history

LEMMA RefusedStep == ASSUME IInv, NEW d \in Dialogs, Refused(d) PROVE IInv'
<1>1. UNCHANGED <<entry, running, phase, cache, raced>>
  BY DEF Refused, home, history
<1>2. CASE Kind[d] = "options"
  <2>1. Goes(d, "form") /\ pc[d] = "checking" /\ pc'[d] = "form"
    BY <1>2 DEF Refused, Goes, IInv, TypesOK
  <2>2. Rewrites(d) /\ form'[d] = form[d]
    BY <1>2, HoldsIs DEF Refused
  <2>3. FormOK(d)'
    BY <1>2, <2>1, <2>2 DEF FormOK, Busy, IInv, TypesOK
  <2>. QED BY <1>1, <1>2, <2>1, <2>2, <2>3, OptionsStep
<1>3. CASE Kind[d] # "options"
  BY <1>1, <1>3, EndsStep DEF Refused
<1>. QED
  BY <1>2, <1>3

-----------------------------------------------------------------------------
(* What a dialog writes to its entry *)

LEMMA SaveStep ==
    ASSUME IInv, NEW d \in Dialogs, Ends(d), NEW c \in Configs,
           entry' = [entry EXCEPT ![On[d]] = c],
           Exists(On[d]), c.account = Here(d).account,
           UNCHANGED <<running, phase, cache, raced>>
    PROVE  IInv'
<1>1. Goes(d, "closed") /\ Rewrites(d) /\ pc'[d] = "closed"
  BY HoldsIs DEF Ends, Goes, IInv, TypesOK
<1>2. FormOK(d)' /\ ~Claims(d)'
  BY <1>1 DEF FormOK, Claims, Busy
<1>3. /\ pc' \in [Dialogs -> {"closed", "menu", "form"} \cup Busy]
      /\ DOMAIN form' = Dialogs /\ \A o \in Dialogs : FormOK(o)'
      /\ \A o \in Dialogs \ {d} : pc'[o] = pc[o] /\ form'[o] = form[o]
  BY <1>1, <1>2, FormsStep
<1>4. TypesOK'
  BY <1>3 DEF IInv, TypesOK
<1>5. \A e \in Entries :
         /\ Exists(e)' <=> Exists(e)
         /\ Exists(e) => entry'[e].account = entry[e].account
  <2>1. On[d] \in Entries /\ entry \in [Entries -> Configs \cup {None}]
    BY DEF IInv, TypesOK
  <2>. QED BY <2>1 DEF Exists, Here
<1>6. \A a : Taken(a)' => Taken(a)
  BY <1>5, TakenStep
<1>7. ClaimsOK'
  <2>1. \A o \in Dialogs \ {d} : Claims(o) => ~Taken(form[o].account)'
    BY <1>3, <1>6 DEF IInv, ClaimsOK
  <2>. QED
    BY <1>1, <1>2, <1>3, <2>1, ClaimsStep
<1>8. KeptOK'
  BY <1>1, <1>3, <1>5 DEF IInv, KeptOK, Down
<1>9. OneEntryPerAccount'
  BY <1>5 DEF IInv, OneEntryPerAccount
<1>. QED
  BY <1>4, <1>7, <1>8, <1>9 DEF IInv

(* An entry gets the login its dialog has claimed.                         *)
LEMMA TakeStep ==
    ASSUME IInv, NEW d \in Dialogs, Ends(d), NEW c \in Configs,
           entry' = [entry EXCEPT ![On[d]] = c],
           Claims(d), c.account = form[d].account,
           New(On[d]) \/ (Exists(On[d]) /\ pc[d] = "forgot"),
           UNCHANGED <<running, phase, cache, raced>>
    PROVE  IInv'
<1>1. Goes(d, "closed") /\ Rewrites(d) /\ pc'[d] = "closed"
  BY HoldsIs DEF Ends, Goes, IInv, TypesOK
<1>2. FormOK(d)' /\ ~Claims(d)'
  BY <1>1 DEF FormOK, Claims, Busy
<1>3. /\ pc' \in [Dialogs -> {"closed", "menu", "form"} \cup Busy]
      /\ DOMAIN form' = Dialogs /\ \A o \in Dialogs : FormOK(o)'
      /\ \A o \in Dialogs \ {d} : pc'[o] = pc[o] /\ form'[o] = form[o]
  BY <1>1, <1>2, FormsStep
<1>4. TypesOK'
  BY <1>3 DEF IInv, TypesOK
<1>5. /\ \A e \in Entries \ {On[d]} : entry'[e] = entry[e]
      /\ entry'[On[d]] = c /\ On[d] \in Entries
  BY DEF IInv, TypesOK
<1>6. \A a : Taken(a)' => Taken(a) \/ a = form[d].account
  BY <1>5 DEF Taken, Exists
<1>7. ~Taken(form[d].account)
  BY DEF IInv, ClaimsOK
<1>8. ClaimsOK'
  <2>1. \A o \in Dialogs \ {d} : Claims(o) => ~Taken(form[o].account)'
    BY <1>3, <1>6 DEF IInv, ClaimsOK
  <2>. QED
    BY <1>1, <1>2, <1>3, <2>1, ClaimsStep
<1>9. KeptOK'
  <2>1. ASSUME On[d] \notin raced
        PROVE  Down(On[d]) /\ cache[On[d]] = None /\ running[On[d]] = None
    BY <2>1, <1>5 DEF IInv, KeptOK, Down, New
  <2>2. Exists(On[d])' /\ phase[On[d]] # "removed"
    BY <1>5 DEF Exists, New, IInv, KeptOK
  <2>. QED
    BY <1>1, <1>3, <1>5, <2>1, <2>2 DEF IInv, KeptOK, Down, Exists
<1>10. OneEntryPerAccount'
  <2>1. \A e \in Entries : e # On[d] /\ Exists(e) => entry[e].account # form[d].account
    BY <1>7 DEF Taken
  <2>. QED
    BY <1>5, <2>1 DEF IInv, OneEntryPerAccount, Exists
<1>. QED
  BY <1>4, <1>8, <1>9, <1>10 DEF IInv

LEMMA CreatedStep == ASSUME IInv, NEW d \in Dialogs, Created(d) PROVE IInv'
<1>. DEFINE c == [account |-> form[d].account, password |-> form[d].password,
                  mode |-> form[d].mode, slots |-> None]
<1>1. Claims(d) /\ FormOK(d) /\ pc[d] \in Busy /\ Kind[d] # "options"
  BY DEF Created, Claims, Busy, IInv, TypesOK, New
<1>2. c \in Configs
  BY <1>1 DEF FormOK, Configs
<1>3. c.account = form[d].account /\ entry' = [entry EXCEPT ![On[d]] = c]
  BY DEF Created
<1>4. New(On[d]) /\ UNCHANGED <<running, phase, cache, raced>> /\ Ends(d)
  BY DEF Created
<1>. HIDE DEF c
<1>. QED
  BY <1>1, <1>2, <1>3, <1>4, TakeStep

(* The same entry with something else in it.                               *)
Edited(c, m, s) == [c EXCEPT !.mode = m, !.slots = s]
EntryEdited(e, m, s) == [entry EXCEPT ![e].mode = m, ![e].slots = s]
Moved(c, a, p) == [Without(c) EXCEPT !.account = a, !.password = p]

LEMMA EditIs ==
    ASSUME IInv, NEW e \in Entries, Exists(e)
    PROVE  /\ \A p \in Passwords :
                 LET c == [entry[e] EXCEPT !.password = p]
                 IN  /\ c \in Configs /\ c.account = entry[e].account
                     /\ [entry EXCEPT ![e].password = p] = [entry EXCEPT ![e] = c]
           /\ \A m \in Modes, s \in Accounts \cup {None} :
                 LET c == Edited(entry[e], m, s)
                 IN  /\ c \in Configs /\ c.account = entry[e].account
                     /\ EntryEdited(e, m, s) = [entry EXCEPT ![e] = c]
           /\ \A a \in Accounts, p \in Passwords :
                 LET c == Moved(entry[e], a, p)
                 IN  c \in Configs /\ c.account = a
<1>1. entry[e] \in Configs /\ entry \in [Entries -> Configs \cup {None}]
  BY ConfigIs DEF IInv, TypesOK
<1>2. ASSUME NEW p \in Passwords
      PROVE  LET c == [entry[e] EXCEPT !.password = p]
             IN  /\ c \in Configs /\ c.account = entry[e].account
                 /\ [entry EXCEPT ![e].password = p] = [entry EXCEPT ![e] = c]
  BY <1>1 DEF Configs
<1>3. ASSUME NEW m \in Modes, NEW s \in Accounts \cup {None}
      PROVE  LET c == Edited(entry[e], m, s)
             IN  /\ c \in Configs /\ c.account = entry[e].account
                 /\ EntryEdited(e, m, s) = [entry EXCEPT ![e] = c]
  BY <1>1 DEF Configs, Edited, EntryEdited
<1>4. ASSUME NEW a \in Accounts, NEW p \in Passwords
      PROVE  LET c == Moved(entry[e], a, p)
             IN  c \in Configs /\ c.account = a
  BY <1>1 DEF Configs, Without, Moved
<1>. QED
  BY <1>2, <1>3, <1>4

LEMMA CommitPasswordStep ==
    ASSUME IInv, NEW d \in Dialogs, CommitReauth(d) \/ CommitPassword(d)
    PROVE  IInv'
<1>. DEFINE p == form[d].password
            c == [Here(d) EXCEPT !.password = p]
<1>1. /\ entry' = [entry EXCEPT ![On[d]].password = p] /\ Ends(d)
      /\ pc[d] = "waiting" /\ Kind[d] # "options" /\ Exists(On[d])
      /\ UNCHANGED <<running, phase, cache, raced>>
  BY DEF CommitReauth, CommitPassword, ChangedSince, Releases, history
<1>2. p \in Passwords
  BY <1>1 DEF IInv, TypesOK, FormOK, Busy
<1>. HIDE DEF p
<1>3. c \in Configs /\ c.account = Here(d).account /\ entry' = [entry EXCEPT ![On[d]] = c]
  BY <1>1, <1>2, EditIs DEF Here
<1>. HIDE DEF c
<1>. QED
  BY <1>1, <1>3, SaveStep

LEMMA CommitOptionsStep == ASSUME IInv, NEW d \in Dialogs, CommitOptions(d) PROVE IInv'
<1>. DEFINE m == form[d].mode
            s == form[d].slots
            c == Edited(Here(d), m, s)
<1>1. /\ Ends(d) /\ UNCHANGED <<running, phase, cache, raced>>
      /\ pc[d] = "waiting" /\ Kind[d] = "options"
  BY DEF CommitOptions, Releases
<1>2. m \in Modes /\ s \in Accounts \cup {None}
  BY <1>1 DEF IInv, TypesOK, FormOK
<1>3. CASE Exists(On[d]) /\ Data(Here(d)) = form[d].opened
  <2>1. entry' = [entry EXCEPT ![On[d]].mode = m, ![On[d]].slots = s]
    BY <1>3 DEF CommitOptions
  <2>. HIDE DEF m, s
  <2>2. c \in Configs /\ c.account = Here(d).account /\ entry' = [entry EXCEPT ![On[d]] = c]
    <3>1. /\ c \in Configs /\ c.account = Here(d).account
          /\ EntryEdited(On[d], m, s) = [entry EXCEPT ![On[d]] = c]
      <4>1. On[d] \in Entries /\ Exists(On[d])
        BY <1>3
      <4>. QED
        BY <1>2, <4>1, EditIs DEF Here
    <3>. QED BY <2>1, <3>1 DEF EntryEdited
  <2>. HIDE DEF c
  <2>. QED
    BY <1>1, <1>3, <2>2, SaveStep
<1>4. CASE ~(Exists(On[d]) /\ Data(Here(d)) = form[d].opened)
  <2>1. UNCHANGED entry
    BY <1>4 DEF CommitOptions
  <2>. QED
    BY <1>1, <2>1, EndsStep
<1>. QED
  BY <1>3, <1>4

LEMMA CommitMoveStep == ASSUME IInv, NEW d \in Dialogs, CommitMove(d) PROVE IInv'
<1>. DEFINE a == form[d].account
            p == form[d].password
            c == Moved(Here(d), a, p)
<1>1. /\ entry' = [entry EXCEPT ![On[d]] = c] /\ Ends(d)
      /\ pc[d] = "forgot" /\ Exists(On[d])
      /\ UNCHANGED <<running, phase, cache, raced>>
  BY DEF CommitMove, Releases, Moved
<1>2. Claims(d) /\ FormOK(d)
  BY <1>1 DEF IInv, ClaimsOK, TypesOK
<1>3. a \in Accounts /\ p \in Passwords
  BY <1>2 DEF Claims, FormOK
<1>. HIDE DEF a, p
<1>4. c \in Configs /\ c.account = a
  BY <1>1, <1>3, EditIs DEF Here
<1>. HIDE DEF c
<1>. QED
  BY <1>1, <1>2, <1>4, TakeStep DEF a

LEMMA UnloadsStep == ASSUME IInv, NEW d \in Dialogs, Unloads(d) PROVE IInv'
<1>1. Goes(d, "forgetting") /\ "forgetting" \in Busy /\ pc[d] = "waiting" /\ UNCHANGED form
  BY DEF Unloads, Busy
<1>2. Rewrites(d) /\ form'[d] = form[d]
  BY <1>1, HoldsIs
<1>3. pc'[d] = "forgetting" /\ Kind[d] = "reconfigure" /\ Exists(On[d])
  BY <1>1 DEF Unloads, Goes, ChangedSince, IInv, TypesOK
<1>4. Claims(d)
  <2>1. form[d].seen = LoginState(Here(d)) /\ form[d].account # Here(d).account
    BY DEF Unloads, ChangedSince, Moves
  <2>2. form[d].seen[1][1] # form[d].account
    BY <2>1 DEF LoginState, Data
  <2>. QED
    BY <1>1, <1>3, <2>2 DEF Claims, Busy
<1>5. Claims(d)'
  BY <1>2, <1>3, <1>4 DEF Claims, Busy
<1>6. FormOK(d)'
  BY <1>2, <1>3, <1>4 DEF FormOK, Claims, IInv, TypesOK
<1>7. /\ pc' \in [Dialogs -> {"closed", "menu", "form"} \cup Busy]
      /\ DOMAIN form' = Dialogs /\ \A o \in Dialogs : FormOK(o)'
      /\ \A o \in Dialogs \ {d} : pc'[o] = pc[o] /\ form'[o] = form[o]
  <2>1. "forgetting" \in {"closed", "menu", "form"} \cup Busy
    BY <1>1
  <2>. QED
    BY <1>1, <1>2, <1>6, <2>1, FormsStep
<1>8. /\ phase' = [phase EXCEPT ![On[d]] = "out"]
      /\ running' = [running EXCEPT ![On[d]] = None]
      /\ UNCHANGED <<entry, cache, raced>>
  BY DEF Unloads, history
<1>9. TypesOK'
  BY <1>7, <1>8 DEF IInv, TypesOK
<1>10. ClaimsOK'
  <2>1. \A a : Taken(a)' => Taken(a)
    BY <1>8 DEF Taken, Exists
  <2>2. \A o \in Dialogs \ {d} : Claims(o) => ~Taken(form[o].account)'
    BY <1>7, <2>1 DEF IInv, ClaimsOK
  <2>3. /\ form'[d].account \in Accounts /\ ~Taken(form[d].account)'
        /\ \A o \in Dialogs \ {d} : Claims(o) => form[o].account # form'[d].account
    BY <1>2, <1>4, <2>1 DEF IInv, ClaimsOK
  <2>. QED
    BY <1>5, <1>7, <2>2, <2>3, ClaimsStep
<1>11. KeptOK'
  <2>1. On[d] \in Entries /\ phase'[On[d]] = "out" /\ running'[On[d]] = None
    BY <1>8 DEF IInv, TypesOK
  <2>2. \A e \in Entries : e # On[d] => phase'[e] = phase[e] /\ running'[e] = running[e]
    BY <1>8 DEF IInv, TypesOK
  <2>. QED
    BY <1>3, <1>7, <1>8, <2>1, <2>2 DEF IInv, KeptOK, Down, Exists
<1>12. OneEntryPerAccount'
  BY <1>8 DEF IInv, OneEntryPerAccount, Exists
<1>. QED
  BY <1>9, <1>10, <1>11, <1>12 DEF IInv

LEMMA ForgetsStep == ASSUME IInv, NEW d \in Dialogs, Forgets(d) PROVE IInv'
<1>1. Goes(d, "forgot") /\ "forgot" \in Busy /\ pc[d] = "forgetting" /\ UNCHANGED form
  BY DEF Forgets, Busy
<1>2. Rewrites(d) /\ form'[d] = form[d]
  BY <1>1, HoldsIs
<1>3. pc'[d] = "forgot" /\ Claims(d)
  BY <1>1 DEF Goes, IInv, TypesOK, ClaimsOK
<1>4. Claims(d)'
  BY <1>2, <1>3 DEF Claims, Busy
<1>5. FormOK(d)'
  BY <1>2, <1>3 DEF FormOK, Claims, IInv, TypesOK
<1>6. /\ pc' \in [Dialogs -> {"closed", "menu", "form"} \cup Busy]
      /\ DOMAIN form' = Dialogs /\ \A o \in Dialogs : FormOK(o)'
      /\ \A o \in Dialogs \ {d} : pc'[o] = pc[o] /\ form'[o] = form[o]
  <2>1. "forgot" \in {"closed", "menu", "form"} \cup Busy
    BY <1>1
  <2>. QED
    BY <1>1, <1>2, <1>5, <2>1, FormsStep
<1>7. cache' = [cache EXCEPT ![On[d]] = None] /\ UNCHANGED <<entry, running, phase, raced>>
  BY DEF Forgets, history
<1>8. TypesOK'
  BY <1>6, <1>7 DEF IInv, TypesOK
<1>9. ClaimsOK'
  <2>1. \A a : Taken(a)' => Taken(a)
    BY <1>7 DEF Taken, Exists
  <2>2. \A o \in Dialogs \ {d} : Claims(o) => ~Taken(form[o].account)'
    BY <1>6, <2>1 DEF IInv, ClaimsOK
  <2>3. /\ form'[d].account \in Accounts /\ ~Taken(form[d].account)'
        /\ \A o \in Dialogs \ {d} : Claims(o) => form[o].account # form'[d].account
    BY <1>2, <1>3, <2>1 DEF IInv, ClaimsOK
  <2>. QED
    BY <1>4, <1>6, <2>2, <2>3, ClaimsStep
<1>10. KeptOK'
  <2>1. On[d] \in Entries /\ cache'[On[d]] = None
    BY <1>7 DEF IInv, TypesOK
  <2>2. \A e \in Entries : cache'[e] \in {None, cache[e]}
    BY <1>7 DEF IInv, TypesOK
  <2>. QED
    BY <1>1, <1>3, <1>6, <1>7, <2>1, <2>2 DEF IInv, KeptOK, Down, Exists
<1>11. OneEntryPerAccount'
  BY <1>7 DEF IInv, OneEntryPerAccount, Exists
<1>. QED
  BY <1>8, <1>9, <1>10, <1>11 DEF IInv

-----------------------------------------------------------------------------
(* The entry *)

LEMMA DialogsKept ==
    ASSUME IInv, UNCHANGED <<pc, form>>, \A a : Taken(a)' => Taken(a)
    PROVE  /\ pc' \in [Dialogs -> {"closed", "menu", "form"} \cup Busy]
           /\ DOMAIN form' = Dialogs /\ \A o \in Dialogs : FormOK(o)'
           /\ ClaimsOK'
<1>1. \A o \in Dialogs : FormOK(o)'
  BY DEF IInv, TypesOK, FormOK
<1>2. \A o \in Dialogs : Claims(o)' <=> Claims(o)
  BY DEF Claims
<1>3. \A o \in Dialogs : Claims(o) => ~Taken(form[o].account)'
  BY DEF IInv, ClaimsOK
<1>4. ClaimsOK'
  BY <1>2, <1>3 DEF IInv, ClaimsOK
<1>. QED
  BY <1>1, <1>4 DEF IInv, TypesOK

LEMMA EntryStep ==
    ASSUME IInv, NEW e \in Entries, Reload(e) \/ SetupEnds(e) \/ Saves(e)
    PROVE  IInv'
<1>1. UNCHANGED <<entry, pc, form>>
  BY DEF Reload, SetupEnds, Saves, dialogs
<1>2. \A a : Taken(a)' => Taken(a)
  BY <1>1 DEF Taken, Exists
<1>3. OneEntryPerAccount'
  BY <1>1 DEF IInv, OneEntryPerAccount, Exists
<1>4. CASE Reload(e)
  <2>1. /\ Exists(e) /\ phase' = [phase EXCEPT ![e] = "loading"]
        /\ running' = [running EXCEPT ![e] = entry[e].account] /\ UNCHANGED cache
        /\ raced' = IF Forgetting(e) THEN raced \cup {e} ELSE raced
    BY <1>4 DEF Reload
  <2>2. entry[e].account \in Accounts
    BY <2>1, ConfigIs
  <2>3. raced \subseteq raced' /\ raced' \subseteq Entries
    BY <2>1 DEF IInv, TypesOK
  <2>4. TypesOK'
    BY <1>1, <1>2, <2>1, <2>2, <2>3, DialogsKept DEF IInv, TypesOK
  <2>5. /\ phase'[e] = "loading" /\ running'[e] = entry[e].account
        /\ \A x \in Entries \ {e} : phase'[x] = phase[x] /\ running'[x] = running[x]
    BY <2>1 DEF IInv, TypesOK
  <2>6. \A d \in Dialogs : pc[d] \in {"forgetting", "forgot"} /\ On[d] = e => e \in raced'
    BY <2>1 DEF Forgetting
  <2>7. \A x \in Entries : x \in raced' => x \in raced \/ x = e
    BY <2>1
  <2>8. KeptOK'
    BY <1>1, <2>1, <2>3, <2>5, <2>6, <2>7 DEF IInv, KeptOK, Down, Exists
  <2>. QED
    BY <1>1, <1>2, <1>3, <2>4, <2>8, DialogsKept DEF IInv
<1>5. CASE SetupEnds(e)
  <2>1. /\ phase[e] = "loading" /\ UNCHANGED <<cache, raced>>
        /\ \/ phase' = [phase EXCEPT ![e] = "loaded"] /\ UNCHANGED running
           \/ /\ phase' = [phase EXCEPT ![e] = "out"]
              /\ running' = [running EXCEPT ![e] = None]
    BY <1>5 DEF SetupEnds, history
  <2>2. TypesOK'
    BY <1>1, <1>2, <2>1, DialogsKept DEF IInv, TypesOK
  <2>3. /\ \A x \in Entries \ {e} : phase'[x] = phase[x] /\ running'[x] = running[x]
        /\ \/ phase'[e] = "loaded" /\ running'[e] = running[e]
           \/ phase'[e] = "out" /\ running'[e] = None
    BY <2>1 DEF IInv, TypesOK
  <2>4. KeptOK'
    BY <1>1, <2>1, <2>3 DEF IInv, KeptOK, Down, Exists
  <2>. QED
    BY <1>1, <1>2, <1>3, <2>2, <2>4, DialogsKept DEF IInv
<1>6. CASE Saves(e)
  <2>1. /\ ~Down(e) /\ cache' = [cache EXCEPT ![e] = running[e]]
        /\ UNCHANGED <<running, phase, raced>>
    BY <1>6 DEF Saves, history, Down
  <2>2. TypesOK'
    BY <1>1, <1>2, <2>1, DialogsKept DEF IInv, TypesOK
  <2>3. /\ cache'[e] = running[e] /\ \A x \in Entries \ {e} : cache'[x] = cache[x]
    BY <2>1 DEF IInv, TypesOK
  <2>4. KeptOK'
    BY <1>1, <2>1, <2>3 DEF IInv, KeptOK, Down, Exists
  <2>. QED
    BY <1>1, <1>2, <1>3, <2>2, <2>4, DialogsKept DEF IInv
<1>. QED
  BY <1>4, <1>5, <1>6

LEMMA RemovedStep == ASSUME IInv, NEW e \in Entries, Removed(e) PROVE IInv'
<1>1. /\ entry' = [entry EXCEPT ![e] = None] /\ running' = [running EXCEPT ![e] = None]
      /\ phase' = [phase EXCEPT ![e] = "removed"] /\ cache' = [cache EXCEPT ![e] = None]
      /\ raced' = raced \ {e} /\ UNCHANGED <<pc, form>>
  BY DEF Removed, dialogs
<1>2. /\ entry'[e] = None /\ running'[e] = None /\ phase'[e] = "removed" /\ cache'[e] = None
      /\ \A x \in Entries \ {e} : /\ entry'[x] = entry[x] /\ running'[x] = running[x]
                                   /\ phase'[x] = phase[x] /\ cache'[x] = cache[x]
  BY <1>1 DEF IInv, TypesOK
<1>3. \A a : Taken(a)' => Taken(a)
  BY <1>2 DEF Taken, Exists
<1>4. TypesOK'
  BY <1>1, <1>3, DialogsKept DEF IInv, TypesOK
<1>5. KeptOK'
  BY <1>1, <1>2 DEF IInv, KeptOK, Down, Exists
<1>6. OneEntryPerAccount'
  BY <1>2 DEF IInv, OneEntryPerAccount, Exists
<1>. QED
  BY <1>1, <1>3, <1>4, <1>5, <1>6, DialogsKept DEF IInv

-----------------------------------------------------------------------------
(* Every step *)

LEMMA NextIInv == IInv /\ [Next]_vars => IInv'
<1>. SUFFICES ASSUME IInv, [Next]_vars PROVE IInv'
  OBVIOUS
<1>1. ASSUME NEW d \in Dialogs, OpenUser(d) \/ OpenReauth(d) \/ OpenReconfigure(d)
      PROVE  IInv'
  BY <1>1, OpenStep
<1>2. ASSUME NEW d \in Dialogs,
             OpenOptions(d) \/ Discover(d) \/ ShowOptions(d) \/ SubmitOptions(d)
      PROVE  IInv'
  BY <1>2, OptionsFormsStep
<1>3. ASSUME NEW d \in Dialogs, Answer(d) PROVE IInv'
  BY <1>3, AcceptedStep, CreatedStep, RefusedStep DEF Answer
<1>4. ASSUME NEW d \in Dialogs,
             Closed(d) \/ LoginAborts(d) \/ UnloadRefused(d) \/ MoveAborts(d)
      PROVE  IInv'
  BY <1>4, EndsStep DEF Closed, LoginAborts, UnloadRefused, MoveAborts, Releases,
     home, history
<1>5. ASSUME NEW d \in Dialogs, Commit(d) PROVE IInv'
  BY <1>4, <1>5, CommitPasswordStep, CommitOptionsStep, CommitMoveStep, UnloadsStep,
     ForgetsStep DEF Commit
<1>6. ASSUME NEW e \in Entries, Reload(e) \/ SetupEnds(e) \/ Saves(e) \/ Removed(e)
      PROVE  IInv'
  BY <1>6, EntryStep, RemovedStep
<1>7. CASE UNCHANGED vars
  <2>1. UNCHANGED <<entry, running, phase, cache, raced, pc, form>>
    BY <1>7 DEF vars, home, dialogs, history
  <2>2. \A a : Taken(a)' => Taken(a)
    BY <2>1 DEF Taken, Exists
  <2>3. TypesOK' /\ KeptOK' /\ OneEntryPerAccount'
    BY <2>1, <2>2, DialogsKept DEF IInv, TypesOK, KeptOK, Down, OneEntryPerAccount, Exists
  <2>. QED
    BY <2>1, <2>2, <2>3, DialogsKept DEF IInv
<1>. QED
  BY <1>1, <1>2, <1>3, <1>4, <1>5, <1>6, <1>7 DEF Next

(* What the dialogs claim and what the entries keep.                       *)
THEOREM Invariance == Spec => []IInv
BY InitIInv, NextIInv, PTL DEF Spec

-----------------------------------------------------------------------------
(* The commit lock *)

Awaits(d) == pc[d] \in {"waiting", "forgetting", "forgot"}

QueueOK ==
    /\ queue \in Seq(Dialogs) /\ IsInjective(queue)
    /\ \A d \in Dialogs : Contains(queue, d) <=> Awaits(d)
    /\ \A d \in Dialogs : pc[d] \in {"forgetting", "forgot"} => Has(d)

(* What a step of one dialog does to the lock: nothing, it comes to wait,  *)
(* or it ends as the holder.                                               *)
LEMMA LockKept ==
    ASSUME QueueOK, NEW d \in Dialogs, UNCHANGED queue,
           \A o \in Dialogs \ {d} : pc'[o] = pc[o],
           Awaits(d)' <=> Awaits(d),
           pc'[d] \in {"forgetting", "forgot"} => Has(d)
    PROVE  QueueOK'
<1>1. \A o \in Dialogs : Awaits(o)' <=> Awaits(o)
  BY DEF Awaits
<1>2. \A o \in Dialogs : Contains(queue, o)' <=> Contains(queue, o)
  BY DEF Contains
<1>3. \A o \in Dialogs : pc'[o] \in {"forgetting", "forgot"} => Has(o)'
  BY DEF QueueOK, Has
<1>4. IsInjective(queue)'
  BY DEF QueueOK, IsInjective
<1>. QED
  BY <1>1, <1>2, <1>3, <1>4 DEF QueueOK

LEMMA LockAwaited ==
    ASSUME QueueOK, NEW d \in Dialogs, queue' = Append(queue, d), ~Awaits(d),
           \A o \in Dialogs \ {d} : pc'[o] = pc[o], pc'[d] = "waiting"
    PROVE  QueueOK'
<1>1. queue \in Seq(Dialogs) /\ Len(queue) \in Nat
  BY DEF QueueOK
<1>2. /\ queue' \in Seq(Dialogs) /\ Len(queue') = Len(queue) + 1
      /\ queue'[Len(queue) + 1] = d
      /\ \A i \in 1..Len(queue) : queue'[i] = queue[i]
  BY <1>1
<1>3. \A i \in 1..Len(queue) : queue[i] # d
  BY DEF QueueOK, Contains
<1>4. \A o \in Dialogs : Contains(queue, o)' <=> Contains(queue, o) \/ o = d
  BY <1>1, <1>2 DEF Contains
<1>5. \A o \in Dialogs : Awaits(o)' <=> Awaits(o) \/ o = d
  BY DEF Awaits
<1>6. IsInjective(queue)'
  <2>1. \A i, j \in 1..Len(queue) : queue[i] = queue[j] => i = j
    BY <1>1 DEF QueueOK, IsInjective
  <2>. QED
    BY <1>1, <1>2, <1>3, <2>1 DEF IsInjective
<1>7. \A o \in Dialogs : pc'[o] \in {"forgetting", "forgot"} => Has(o)'
  <2>. SUFFICES ASSUME NEW o \in Dialogs, pc'[o] \in {"forgetting", "forgot"} PROVE Has(o)'
    OBVIOUS
  <2>1. Has(o) /\ Len(queue) > 0
    BY <1>1 DEF QueueOK, Has
  <2>. QED
    BY <1>1, <1>2, <2>1 DEF Has
<1>. QED
  BY <1>2, <1>4, <1>5, <1>6, <1>7 DEF QueueOK

LEMMA LockReleased ==
    ASSUME QueueOK, NEW d \in Dialogs, Has(d), queue' = Tail(queue),
           \A o \in Dialogs \ {d} : pc'[o] = pc[o], pc'[d] = "closed"
    PROVE  QueueOK'
<1>1. queue \in Seq(Dialogs) /\ Len(queue) \in Nat \ {0} /\ queue[1] = d
  BY DEF QueueOK, Has
<1>2. /\ queue' \in Seq(Dialogs) /\ Len(queue') = Len(queue) - 1
      /\ \A i \in 1..Len(queue') : queue'[i] = queue[i + 1]
  BY <1>1
<1>3. \A i, j \in 1..Len(queue) : queue[i] = queue[j] => i = j
  BY <1>1 DEF QueueOK, IsInjective
<1>4. \A i \in 1..Len(queue') : queue'[i] # d
  BY <1>1, <1>2, <1>3
<1>5. \A o \in Dialogs \ {d} : Contains(queue, o)' <=> Contains(queue, o)
  <2>1. ASSUME NEW o \in Dialogs \ {d}, Contains(queue, o) PROVE Contains(queue, o)'
    <3>1. PICK i \in 1..Len(queue) : queue[i] = o
      BY <2>1 DEF Contains
    <3>2. i - 1 \in 1..Len(queue') /\ queue'[i - 1] = o
      BY <1>1, <1>2, <3>1
    <3>. QED
      BY <3>2 DEF Contains
  <2>2. ASSUME NEW o \in Dialogs \ {d}, Contains(queue, o)' PROVE Contains(queue, o)
    BY <1>1, <1>2, <2>2 DEF Contains
  <2>. QED
    BY <2>1, <2>2
<1>6. ~Contains(queue, d)'
  BY <1>4 DEF Contains
<1>7. /\ \A o \in Dialogs \ {d} : Awaits(o)' <=> Awaits(o)
      /\ ~Awaits(d)'
  BY DEF Awaits
<1>8. IsInjective(queue)'
  BY <1>1, <1>2, <1>3 DEF IsInjective
<1>9. \A o \in Dialogs : pc'[o] \notin {"forgetting", "forgot"}
  BY DEF QueueOK, Has
<1>. QED
  BY <1>2, <1>5, <1>6, <1>7, <1>8, <1>9 DEF QueueOK

LEMMA InitQueue == Init => QueueOK
BY DEF Init, QueueOK, IsInjective, Contains, Awaits

LEMMA GoesTo ==
    ASSUME IInv, NEW d \in Dialogs
    PROVE  \A where : Goes(d, where) =>
              pc'[d] = where /\ \A o \in Dialogs \ {d} : pc'[o] = pc[o]
BY DEF IInv, TypesOK, Goes

LEMMA NextQueue == IInv /\ QueueOK /\ [Next]_vars => QueueOK'
<1>. SUFFICES ASSUME IInv, QueueOK, [Next]_vars PROVE QueueOK'
  OBVIOUS
<1>1. ASSUME NEW d \in Dialogs, UNCHANGED queue,
             NEW where \in {"closed", "menu", "form", "checking"}, Goes(d, where), ~Awaits(d)
      PROVE  QueueOK'
  <2>1. pc'[d] = where /\ \A o \in Dialogs \ {d} : pc'[o] = pc[o]
    BY <1>1, GoesTo
  <2>2. ~Awaits(d)'
    BY <2>1 DEF Awaits
  <2>. QED
    BY <1>1, <2>1, <2>2, LockKept
<1>2. ASSUME NEW d \in Dialogs, Has(d), Releases(d) PROVE QueueOK'
  BY <1>2, GoesTo, LockReleased DEF Releases, Ends
<1>3. ASSUME UNCHANGED <<pc, queue>> PROVE QueueOK'
  BY <1>3 DEF QueueOK, Awaits, Has, Contains, IsInjective
<1>4. ASSUME NEW d \in Dialogs,
             \/ OpenUser(d) \/ OpenReauth(d) \/ OpenReconfigure(d) \/ OpenOptions(d)
             \/ ShowOptions(d) \/ Created(d) \/ Refused(d) \/ Closed(d)
      PROVE  QueueOK'
  <2>1. ~Awaits(d) /\ UNCHANGED queue
    BY <1>4 DEF OpenUser, OpenReauth, OpenReconfigure, OpenOptions, ShowOptions, Created,
       Refused, Closed, Awaits
  <2>2. Goes(d, "closed") \/ Goes(d, "menu") \/ Goes(d, "form") \/ Goes(d, "checking")
    BY <1>4 DEF OpenUser, OpenReauth, OpenReconfigure, OpenOptions, ShowOptions, Created,
       Refused, Closed, Ends
  <2>. QED
    BY <1>1, <2>1, <2>2
<1>5. ASSUME NEW d \in Dialogs, SubmitOptions(d) \/ Accepted(d) PROVE QueueOK'
  <2>1. ~Awaits(d)
    BY <1>5 DEF SubmitOptions, Accepted, Awaits
  <2>2. CASE Goes(d, "waiting") /\ queue' = Append(queue, d)
    BY <2>1, <2>2, GoesTo, LockAwaited
  <2>3. CASE Goes(d, "checking") /\ queue' = queue
    BY <1>1, <2>1, <2>3
  <2>. QED
    BY <1>5, <2>2, <2>3 DEF SubmitOptions, Accepted
<1>6. ASSUME NEW d \in Dialogs, Unloads(d) \/ Forgets(d) PROVE QueueOK'
  <2>1. Has(d) /\ Awaits(d) /\ UNCHANGED queue
    BY <1>6 DEF Unloads, Forgets, QueueOK, Awaits
  <2>2. Goes(d, "forgetting") \/ Goes(d, "forgot")
    BY <1>6 DEF Unloads, Forgets
  <2>3. Awaits(d)' /\ \A o \in Dialogs \ {d} : pc'[o] = pc[o]
    BY <2>2, GoesTo DEF Awaits
  <2>. QED
    BY <2>1, <2>3, LockKept
<1>7. ASSUME NEW d \in Dialogs,
             \/ LoginAborts(d) \/ CommitReauth(d) \/ CommitPassword(d) \/ UnloadRefused(d)
             \/ CommitMove(d) \/ MoveAborts(d) \/ CommitOptions(d)
      PROVE  QueueOK'
  <2>1. Has(d)
    BY <1>7 DEF LoginAborts, CommitReauth, CommitPassword, UnloadRefused, CommitMove,
       MoveAborts, CommitOptions, QueueOK
  <2>2. Releases(d)
    BY <1>7 DEF LoginAborts, CommitReauth, CommitPassword, UnloadRefused, CommitMove,
       MoveAborts, CommitOptions
  <2>. QED
    BY <1>2, <2>1, <2>2
<1>8. ASSUME NEW d \in Dialogs, Discover(d) PROVE QueueOK'
  BY <1>3, <1>8 DEF Discover
<1>9. ASSUME NEW e \in Entries, Reload(e) \/ SetupEnds(e) \/ Saves(e) \/ Removed(e)
      PROVE  QueueOK'
  BY <1>3, <1>9 DEF Reload, SetupEnds, Saves, Removed, dialogs
<1>10. CASE UNCHANGED vars
  BY <1>3, <1>10 DEF vars, dialogs
<1>. QED
  BY <1>4, <1>5, <1>6, <1>7, <1>8, <1>9, <1>10 DEF Next, Answer, Commit

-----------------------------------------------------------------------------
(* What the portal has accepted *)

(* A dialog about a login it found: it keeps to the mode, a reauth to the  *)
(* account, and what it waits to save has been accepted; nobody touches    *)
(* the entry whose installation it forgets.                                *)
LoginFormOK(d) ==
    Kind[d] \in {"reauth", "reconfigure"} =>
        /\ pc[d] \in Busy =>
              /\ form[d].mode = form[d].seen[2]
              /\ Kind[d] = "reauth" => form[d].account = form[d].seen[1][1]
        /\ Awaits(d) => Asks(d) \in tried

HolderOK(d) ==
    pc[d] \in {"forgetting", "forgot"} =>
        /\ Kind[d] = "reconfigure"
        /\ \/ Exists(On[d]) /\ LoginState(Here(d)) = form[d].seen
           \/ ~Exists(On[d]) /\ phase[On[d]] = "removed"

(* The options keep to the login they were opened for, unless they have    *)
(* strayed.                                                                *)
OptionsFormOK(d) ==
    Kind[d] = "options" /\ pc[d] # "closed" =>
        /\ form[d].opened \in Accounts \X Passwords
        /\ <<d, "form">> \notin strayed =>
              /\ pc[d] = "menu" => form[d].found \in {None, form[d].opened[1]}
              /\ pc[d] \in {"form", "checking", "waiting"} =>
                    form[d].slots \in {None, form[d].opened[1]}
              /\ pc[d] = "waiting" => Asks(d) \in tried

DialogOK(d) == LoginFormOK(d) /\ HolderOK(d) /\ OptionsFormOK(d)

EntryOK(e) ==
    Exists(e) /\ <<e, "saved">> \notin strayed =>
        LoginState(entry[e]) \in tried /\ entry[e].slots \in {None, entry[e].account}

HistoryOK ==
    /\ due \subseteq Entries
    /\ tried \subseteq (Accounts \X Passwords) \X Modes

LoginInv ==
    /\ HistoryOK
    /\ \A d \in Dialogs : DialogOK(d)
    /\ \A e \in Entries : EntryOK(e)

LEMMA InitLogins == Init => LoginInv
<1>. SUFFICES ASSUME Init PROVE LoginInv
  OBVIOUS
<1>1. \A e \in Entries : Exists(e) <=> e \in Present
  BY DEF Init
<1>2. \A e \in Present : entry[e] \in Configs
  BY <1>1 DEF Init, Exists
<1>3. \A e \in Present : LoginState(entry[e]) \in (Accounts \X Passwords) \X Modes
  BY <1>2 DEF LoginState, Data, Configs
<1>4. HistoryOK
  BY <1>3 DEF Init, HistoryOK
<1>5. \A d \in Dialogs : DialogOK(d)
  BY DEF Init, DialogOK, LoginFormOK, HolderOK, OptionsFormOK, Awaits, Busy
<1>6. \A e \in Entries : EntryOK(e)
  BY <1>1 DEF Init, EntryOK
<1>. QED
  BY <1>4, <1>5, <1>6 DEF LoginInv

(* The dialogs a step is not about: the portal forgets nothing, and        *)
(* nobody writes to an entry under the holder of the lock.                 *)
LEMMA OthersKept ==
    ASSUME LoginInv, NEW o \in Dialogs, pc'[o] = pc[o], form'[o] = form[o],
           tried \subseteq tried', <<o, "form">> \in strayed' <=> <<o, "form">> \in strayed,
           HolderOK(o)'
    PROVE  DialogOK(o)'
BY DEF LoginInv, DialogOK, LoginFormOK, OptionsFormOK, Awaits, Asks

(* Where no entry is written to.                                           *)
LEMMA HolderKept ==
    ASSUME LoginInv, NEW o \in Dialogs, pc'[o] = pc[o], form'[o] = form[o],
           UNCHANGED entry, \A e \in Entries : phase[e] = "removed" => phase'[e] = "removed"
    PROVE  HolderOK(o)'
BY DEF LoginInv, DialogOK, HolderOK, Exists, Here

LEMMA EntriesKept ==
    ASSUME LoginInv, UNCHANGED entry, tried \subseteq tried',
           \A e \in Entries : <<e, "saved">> \in strayed => <<e, "saved">> \in strayed'
    PROVE  \A e \in Entries : EntryOK(e)'
BY DEF LoginInv, EntryOK, Exists

(* A step of one dialog that writes to no entry.                           *)
LEMMA DialogStep ==
    ASSUME LoginInv, NEW d \in Dialogs,
           \A o \in Dialogs \ {d} : pc'[o] = pc[o] /\ form'[o] = form[o],
           UNCHANGED <<entry, due>>,
           \A e \in Entries : phase[e] = "removed" => phase'[e] = "removed",
           tried \subseteq tried', tried' \subseteq (Accounts \X Passwords) \X Modes,
           \A x : x # <<d, "form">> => (x \in strayed' <=> x \in strayed),
           DialogOK(d)'
    PROVE  LoginInv'
<1>1. \A o \in Dialogs \ {d} : DialogOK(o)'
  <2>. SUFFICES ASSUME NEW o \in Dialogs \ {d} PROVE DialogOK(o)'
    OBVIOUS
  <2>1. HolderOK(o)'
    BY HolderKept
  <2>2. <<o, "form">> # <<d, "form">>
    OBVIOUS
  <2>. QED
    BY <2>1, <2>2, OthersKept
<1>2. \A e \in Entries : EntryOK(e)'
  <2>1. \A e \in Entries : <<e, "saved">> # <<d, "form">>
    OBVIOUS
  <2>. QED
    BY <2>1, EntriesKept
<1>3. HistoryOK'
  BY DEF LoginInv, HistoryOK
<1>. QED
  BY <1>1, <1>2, <1>3 DEF LoginInv

(* A dialog that saves to its entry, as the holder of the lock or to one   *)
(* it has just added.                                                      *)
LEMMA SavedStep ==
    ASSUME QueueOK, LoginInv, NEW d \in Dialogs, Has(d) \/ New(On[d]),
           \A o \in Dialogs \ {d} : pc'[o] = pc[o] /\ form'[o] = form[o],
           pc'[d] = "closed",
           \A e \in Entries \ {On[d]} : entry'[e] = entry[e],
           UNCHANGED phase, due' \subseteq Entries,
           tried \subseteq tried', tried' \subseteq (Accounts \X Passwords) \X Modes,
           \A o \in Dialogs \ {d} : <<o, "form">> \in strayed' <=> <<o, "form">> \in strayed,
           \A e \in Entries \ {On[d]} : <<e, "saved">> \in strayed => <<e, "saved">> \in strayed',
           EntryOK(On[d])'
    PROVE  LoginInv'
<1>1. \A o \in Dialogs \ {d} : DialogOK(o)'
  <2>. SUFFICES ASSUME NEW o \in Dialogs \ {d} PROVE DialogOK(o)'
    OBVIOUS
  <2>1. HolderOK(o)'
    <3>. SUFFICES ASSUME pc[o] \in {"forgetting", "forgot"} PROVE HolderOK(o)'
      BY DEF HolderOK
    <3>1. Has(o) /\ HolderOK(o)
      BY DEF QueueOK, LoginInv, DialogOK
    <3>2. New(On[d]) /\ On[o] # On[d]
      BY <3>1 DEF Has, New, HolderOK
    <3>3. entry'[On[o]] = entry[On[o]]
      BY <3>2
    <3>. QED
      BY <3>1, <3>3 DEF HolderOK, Exists, Here
  <2>. QED
    BY <2>1, OthersKept
<1>2. DialogOK(d)'
  BY DEF DialogOK, LoginFormOK, HolderOK, OptionsFormOK, Awaits, Busy
<1>3. \A e \in Entries : EntryOK(e)'
  BY DEF LoginInv, EntryOK, Exists
<1>. QED
  BY <1>1, <1>2, <1>3 DEF LoginInv, HistoryOK

(* What a step leaves alone, and what becomes of its own dialog.           *)
LEMMA FormIs ==
    ASSUME IInv, NEW d \in Dialogs
    PROVE  /\ \A where : Goes(d, where) =>
                 pc'[d] = where /\ \A o \in Dialogs \ {d} : pc'[o] = pc[o]
           /\ \A what : Holds(d, what) =>
                 form'[d] = what /\ \A o \in Dialogs \ {d} : form'[o] = form[o]
BY GoesTo, HoldsIs DEF Rewrites

LEMMA AsksIs ==
    ASSUME IInv, LoginInv, NEW d \in Dialogs, pc[d] \in {"checking", "waiting"}
    PROVE  Asks(d) \in (Accounts \X Passwords) \X Modes
<1>1. FormOK(d) /\ OptionsFormOK(d)
  BY DEF IInv, TypesOK, LoginInv, DialogOK
<1>. QED
  BY <1>1 DEF FormOK, OptionsFormOK, Asks, Busy

LEMMA DataIs ==
    ASSUME IInv, NEW e \in Entries, Exists(e)
    PROVE  /\ Data(entry[e]) \in Accounts \X Passwords
           /\ Data(entry[e])[1] = entry[e].account
           /\ LoginState(entry[e])[1][1] = entry[e].account
           /\ LoginState(entry[e])[2] = entry[e].mode
BY ConfigIs DEF Data, LoginState

LEMMA OpenLogin ==
    ASSUME IInv, LoginInv, NEW d \in Dialogs,
           OpenUser(d) \/ OpenReauth(d) \/ OpenReconfigure(d)
    PROVE  LoginInv'
<1>1. /\ Goes(d, "checking") /\ Kind[d] # "options"
      /\ UNCHANGED <<entry, phase, due, tried, strayed>>
  BY DEF OpenUser, OpenReauth, OpenReconfigure, home, history
<1>2. pc'[d] = "checking" /\ \A o \in Dialogs \ {d} : pc'[o] = pc[o]
  BY <1>1, FormIs
<1>3. \E a, p, m, seen :
         /\ Sent(d, a, p, m, seen)
         /\ Kind[d] # "user" => m = seen[2]
         /\ Kind[d] = "reauth" => a = seen[1][1]
  <2>1. CASE OpenUser(d)
    BY <2>1 DEF OpenUser
  <2>2. CASE OpenReauth(d)
    BY <2>2, DataIs DEF OpenReauth, Here
  <2>3. CASE OpenReconfigure(d)
    BY <2>3, DataIs DEF OpenReconfigure, Here
  <2>. QED BY <2>1, <2>2, <2>3
<1>4. /\ \A o \in Dialogs \ {d} : form'[o] = form[o]
      /\ Kind[d] # "user" => form'[d].mode = form'[d].seen[2]
      /\ Kind[d] = "reauth" => form'[d].account = form'[d].seen[1][1]
  <2>1. PICK a, p, m, seen :
           /\ Sent(d, a, p, m, seen)
           /\ Kind[d] # "user" => m = seen[2]
           /\ Kind[d] = "reauth" => a = seen[1][1]
    BY <1>3
  <2>2. /\ form'[d] = [account |-> a, password |-> p, mode |-> m, seen |-> seen]
        /\ \A o \in Dialogs \ {d} : form'[o] = form[o]
    BY <2>1, FormIs DEF Sent
  <2>. QED BY <2>1, <2>2
<1>5. DialogOK(d)'
  BY <1>1, <1>2, <1>4 DEF DialogOK, LoginFormOK, HolderOK, OptionsFormOK, Awaits
<1>. QED
  BY <1>1, <1>2, <1>4, <1>5, DialogStep DEF LoginInv, HistoryOK

LEMMA StrayIs ==
    ASSUME NEW d \in Dialogs, Stray(d)
    PROVE  /\ \A x : x # <<d, "form">> => (x \in strayed' <=> x \in strayed)
           /\ <<d, "form">> \notin strayed' =>
                 /\ <<d, "form">> \notin strayed /\ <<On[d], "saved">> \notin strayed
                 /\ Data(Here(d)) = form[d].opened
BY DEF Stray

LEMMA OptionsLogin ==
    ASSUME IInv, LoginInv, NEW d \in Dialogs,
           OpenOptions(d) \/ Discover(d) \/ ShowOptions(d) \/ SubmitOptions(d)
    PROVE  LoginInv'
<1>1. UNCHANGED <<entry, phase, due, tried>> /\ Exists(On[d]) /\ On[d] \in Entries
  BY DEF OpenOptions, Discover, ShowOptions, SubmitOptions, home, history
<1>2. Data(Here(d)) \in Accounts \X Passwords /\ Data(Here(d))[1] = Here(d).account
  BY <1>1, DataIs DEF Here
<1>3. OptionsFormOK(d) /\ FormOK(d) /\ EntryOK(On[d])
  BY <1>1 DEF LoginInv, DialogOK, IInv, TypesOK
<1>4. ASSUME NEW where \in {"menu", "form", "checking", "waiting"}, Kind[d] = "options",
             Goes(d, where), \A o \in Dialogs \ {d} : form'[o] = form[o],
             \A x : x # <<d, "form">> => (x \in strayed' <=> x \in strayed),
             OptionsFormOK(d)'
      PROVE  LoginInv'
  <2>1. pc'[d] = where /\ \A o \in Dialogs \ {d} : pc'[o] = pc[o]
    BY <1>4, FormIs
  <2>2. DialogOK(d)'
    BY <1>4, <2>1 DEF DialogOK, LoginFormOK, HolderOK
  <2>. QED
    BY <1>1, <1>4, <2>1, <2>2, DialogStep DEF LoginInv, HistoryOK
<1>5. CASE OpenOptions(d)
  <2>1. Kind[d] = "options" /\ Goes(d, "menu") /\ UNCHANGED strayed
    BY <1>5 DEF OpenOptions, history
  <2>2. /\ pc'[d] = "menu" /\ form'[d].opened = Data(Here(d)) /\ form'[d].found = None
        /\ \A o \in Dialogs \ {d} : form'[o] = form[o]
    BY <1>5, FormIs DEF OpenOptions
  <2>3. OptionsFormOK(d)'
    BY <1>2, <2>2 DEF OptionsFormOK
  <2>. QED BY <1>4, <2>1, <2>2, <2>3
<1>6. CASE Discover(d)
  <2>1. pc' = pc /\ pc[d] = "menu" /\ Kind[d] = "options" /\ Stray(d)
    BY <1>3, <1>6 DEF Discover, FormOK
  <2>2. Goes(d, "menu")
    BY <2>1 DEF Goes, IInv, TypesOK
  <2>3. /\ form'[d] = [form[d] EXCEPT !.found = Here(d).account]
        /\ \A o \in Dialogs \ {d} : form'[o] = form[o]
    BY <1>6, FormIs DEF Discover
  <2>4. form'[d].opened = form[d].opened /\ form'[d].found \in {Here(d).account, form[d].found}
    BY <2>3
  <2>5. OptionsFormOK(d)'
    BY <1>2, <1>3, <2>1, <2>4, StrayIs DEF OptionsFormOK
  <2>. QED BY <1>4, <2>1, <2>2, <2>3, <2>5, StrayIs
<1>7. CASE ShowOptions(d)
  <2>1. pc[d] = "menu" /\ Kind[d] = "options" /\ Goes(d, "form") /\ Stray(d) /\ pc'[d] = "form"
    BY <1>3, <1>7, FormIs DEF ShowOptions, FormOK
  <2>2. PICK s \in {Here(d).slots, form[d].found, None} :
           Holds(d, [opened |-> form[d].opened, slots |-> s])
    BY <1>7 DEF ShowOptions
  <2>3. /\ form'[d].opened = form[d].opened /\ form'[d].slots = s
        /\ \A o \in Dialogs \ {d} : form'[o] = form[o]
    BY <2>2, FormIs
  <2>4. <<d, "form">> \notin strayed' => s \in {None, form[d].opened[1]}
    BY <1>1, <1>2, <1>3, <2>1, <2>2, StrayIs DEF OptionsFormOK, EntryOK, Here
  <2>5. OptionsFormOK(d)'
    BY <1>3, <2>1, <2>3, <2>4 DEF OptionsFormOK
  <2>. QED BY <1>4, <2>1, <2>3, <2>5, StrayIs
<1>8. CASE SubmitOptions(d)
  <2>1. pc[d] = "form" /\ Kind[d] = "options" /\ Stray(d)
    BY <1>3, <1>8 DEF SubmitOptions, FormOK
  <2>2. PICK m \in Modes :
           /\ Holds(d, Options(d, m))
           /\ \/ m = Here(d).mode /\ Goes(d, "waiting")
              \/ Goes(d, "checking")
    BY <1>8 DEF SubmitOptions
  <2>3. /\ form'[d].opened = form[d].opened /\ form'[d].slots = form[d].slots
        /\ form'[d].mode = m /\ \A o \in Dialogs \ {d} : form'[o] = form[o]
    BY <2>2, FormIs DEF Options
  <2>4. \/ pc'[d] = "waiting" /\ m = Here(d).mode
        \/ pc'[d] = "checking"
    BY <2>2, FormIs
  <2>5. Asks(d)' = <<form[d].opened, m>>
    BY <2>1, <2>3 DEF Asks
  <2>6. <<d, "form">> \notin strayed' /\ pc'[d] = "waiting" => Asks(d)' \in tried'
    BY <1>1, <1>3, <2>1, <2>4, <2>5, StrayIs DEF EntryOK, LoginState, Here
  <2>7. OptionsFormOK(d)'
    BY <1>3, <2>1, <2>3, <2>4, <2>6, StrayIs DEF OptionsFormOK
  <2>. QED BY <1>4, <2>1, <2>2, <2>3, <2>7, StrayIs
<1>. QED
  BY <1>5, <1>6, <1>7, <1>8

(* A dialog that ends without having saved.                                *)
LEMMA EndedLogin ==
    ASSUME IInv, LoginInv, NEW d \in Dialogs, Ends(d), UNCHANGED <<entry, phase, due, tried>>,
           \A x : x # <<d, "form">> => (x \in strayed' <=> x \in strayed)
    PROVE  LoginInv'
<1>1. /\ pc'[d] = "closed"
      /\ \A o \in Dialogs \ {d} : pc'[o] = pc[o] /\ form'[o] = form[o]
  BY FormIs DEF Ends
<1>2. DialogOK(d)'
  BY <1>1 DEF DialogOK, LoginFormOK, HolderOK, OptionsFormOK, Awaits, Busy
<1>. QED
  BY <1>1, <1>2, DialogStep DEF LoginInv, HistoryOK

(* The portal answers.                                                     *)
LEMMA AcceptedLogin == ASSUME IInv, LoginInv, NEW d \in Dialogs, Accepted(d) PROVE LoginInv'
<1>1. /\ pc[d] = "checking" /\ UNCHANGED <<entry, phase, due, form, strayed>>
      /\ tried' = tried \cup {Asks(d)}
  BY DEF Accepted, home
<1>2. pc'[d] = "waiting" /\ \A o \in Dialogs \ {d} : pc'[o] = pc[o]
  BY FormIs DEF Accepted
<1>3. DialogOK(d)
  BY DEF LoginInv
<1>4. Asks(d)' = Asks(d)
  BY <1>1 DEF Asks
<1>5. LoginFormOK(d)'
  BY <1>1, <1>2, <1>3, <1>4 DEF DialogOK, LoginFormOK, Busy
<1>6. OptionsFormOK(d)'
  BY <1>1, <1>2, <1>3, <1>4 DEF DialogOK, OptionsFormOK
<1>7. DialogOK(d)'
  BY <1>2, <1>5, <1>6 DEF DialogOK, HolderOK
<1>8. tried' \subseteq (Accounts \X Passwords) \X Modes
  BY <1>1, AsksIs DEF LoginInv, HistoryOK
<1>. QED
  BY <1>1, <1>2, <1>7, <1>8, DialogStep

LEMMA RefusedLogin == ASSUME IInv, LoginInv, NEW d \in Dialogs, Refused(d) PROVE LoginInv'
<1>1. pc[d] = "checking" /\ UNCHANGED <<entry, phase, due, tried, strayed>>
  BY DEF Refused, home, history
<1>2. CASE Kind[d] = "options"
  <2>1. pc'[d] = "form" /\ UNCHANGED form /\ \A o \in Dialogs \ {d} : pc'[o] = pc[o]
    BY <1>2, FormIs DEF Refused
  <2>2. DialogOK(d)
    BY DEF LoginInv
  <2>3. DialogOK(d)'
    BY <1>1, <1>2, <2>1, <2>2 DEF DialogOK, LoginFormOK, HolderOK, OptionsFormOK
  <2>. QED
    BY <1>1, <2>1, <2>3, DialogStep DEF LoginInv, HistoryOK
<1>3. CASE Kind[d] # "options"
  BY <1>1, <1>3, EndedLogin DEF Refused
<1>. QED
  BY <1>2, <1>3

LEMMA CreatedLogin ==
    ASSUME IInv, QueueOK, LoginInv, NEW d \in Dialogs, Created(d)
    PROVE  LoginInv'
<1>. DEFINE e == On[d]
            c == [account |-> form[d].account, password |-> form[d].password,
                  mode |-> form[d].mode, slots |-> None]
<1>1. /\ pc[d] = "checking" /\ Kind[d] = "user" /\ New(e) /\ Ends(d)
      /\ entry' = [entry EXCEPT ![e] = c] /\ UNCHANGED <<phase, strayed>>
      /\ due' = due \cup {e} /\ tried' = tried \cup {Asks(d)} /\ e \in Entries
  BY DEF Created
<1>2. /\ pc'[d] = "closed"
      /\ \A o \in Dialogs \ {d} : pc'[o] = pc[o] /\ form'[o] = form[o]
  BY <1>1, FormIs DEF Ends
<1>3. entry'[e] = c /\ \A x \in Entries \ {e} : entry'[x] = entry[x]
  BY <1>1 DEF IInv, TypesOK
<1>4. LoginState(c) = Asks(d) /\ c.slots = None
  BY <1>1 DEF LoginState, Data, Asks
<1>5. EntryOK(e)'
  <2>1. LoginState(entry[e])' = LoginState(c)
    BY <1>3 DEF LoginState, Data
  <2>. QED
    BY <1>1, <1>3, <1>4, <2>1 DEF EntryOK
<1>6. tried' \subseteq (Accounts \X Passwords) \X Modes /\ due' \subseteq Entries
  BY <1>1, AsksIs DEF LoginInv, HistoryOK
<1>. QED
  BY <1>1, <1>2, <1>3, <1>5, <1>6, SavedStep

-----------------------------------------------------------------------------
(* What the holder of the lock saves *)

LEMMA PasswordLogin ==
    ASSUME IInv, QueueOK, LoginInv, NEW d \in Dialogs, CommitReauth(d) \/ CommitPassword(d)
    PROVE  LoginInv'
<1>. DEFINE e == On[d]
<1>1. /\ entry' = [entry EXCEPT ![e].password = form[d].password] /\ Ends(d) /\ Has(d)
      /\ pc[d] = "waiting" /\ Kind[d] \in {"reauth", "reconfigure"} /\ Exists(e)
      /\ LoginState(Here(d)) = form[d].seen
      /\ Kind[d] = "reconfigure" => form[d].account = Here(d).account
      /\ due' = due \cup {e} /\ UNCHANGED <<phase, tried, strayed>> /\ e \in Entries
  BY DEF CommitReauth, CommitPassword, ChangedSince, Releases, history, Moves
<1>2. /\ pc'[d] = "closed"
      /\ \A o \in Dialogs \ {d} : pc'[o] = pc[o] /\ form'[o] = form[o]
  BY <1>1, FormIs DEF Ends
<1>3. entry[e] \in Configs
  BY <1>1, ConfigIs
<1>4. /\ entry'[e] = [entry[e] EXCEPT !.password = form[d].password]
      /\ \A x \in Entries \ {e} : entry'[x] = entry[x]
  BY <1>1 DEF IInv, TypesOK
<1>5. /\ entry'[e].account = entry[e].account /\ entry'[e].password = form[d].password
      /\ entry'[e].mode = entry[e].mode /\ entry'[e].slots = entry[e].slots
  BY <1>3, <1>4 DEF Configs
<1>6. form[d].account = entry[e].account /\ form[d].mode = entry[e].mode /\ Asks(d) \in tried
  <2>1. LoginFormOK(d)
    BY DEF LoginInv, DialogOK
  <2>2. form[d].seen[1][1] = entry[e].account /\ form[d].seen[2] = entry[e].mode
    BY <1>1, DataIs DEF Here
  <2>. QED
    BY <1>1, <2>1, <2>2 DEF LoginFormOK, Busy, Awaits, Here
<1>7. LoginState(entry[e])' = Asks(d)
  BY <1>1, <1>5, <1>6 DEF LoginState, Data, Asks
<1>8. EntryOK(e)'
  BY <1>1, <1>5, <1>6, <1>7 DEF EntryOK, LoginInv
<1>9. due' \subseteq Entries
  BY <1>1 DEF LoginInv, HistoryOK
<1>. QED
  BY <1>1, <1>2, <1>4, <1>8, <1>9, SavedStep DEF LoginInv, HistoryOK

LEMMA MoveLogin ==
    ASSUME IInv, QueueOK, LoginInv, NEW d \in Dialogs, CommitMove(d)
    PROVE  LoginInv'
<1>. DEFINE e == On[d]
<1>1. /\ entry' = [entry EXCEPT ![e] = Moved(Here(d), form[d].account, form[d].password)]
      /\ Ends(d) /\ pc[d] = "forgot" /\ Exists(e) /\ due' = due \cup {e}
      /\ strayed' = strayed \ {<<e, "saved">>} /\ UNCHANGED <<phase, tried>> /\ e \in Entries
  BY DEF CommitMove, Releases, Moved
<1>2. /\ pc'[d] = "closed"
      /\ \A o \in Dialogs \ {d} : pc'[o] = pc[o] /\ form'[o] = form[o]
  BY <1>1, FormIs DEF Ends
<1>3. Has(d) /\ Claims(d) /\ LoginFormOK(d) /\ LoginState(Here(d)) = form[d].seen
  BY <1>1 DEF QueueOK, IInv, ClaimsOK, LoginInv, DialogOK, HolderOK
<1>4. entry[e] \in Configs /\ form[d].seen[2] = entry[e].mode
  BY <1>1, <1>3, ConfigIs, DataIs DEF Here
<1>5. Kind[d] = "reconfigure"
  BY <1>1 DEF LoginInv, DialogOK, HolderOK
<1>6. form[d].mode = entry[e].mode /\ Asks(d) \in tried
  BY <1>1, <1>3, <1>4, <1>5 DEF LoginFormOK, Busy, Awaits
<1>7. /\ entry'[e] = Moved(entry[e], form[d].account, form[d].password)
      /\ \A x \in Entries \ {e} : entry'[x] = entry[x]
  BY <1>1 DEF IInv, TypesOK, Here
<1>8. /\ entry'[e].account = form[d].account /\ entry'[e].password = form[d].password
      /\ entry'[e].mode = entry[e].mode /\ entry'[e].slots = None
  BY <1>4, <1>7 DEF Configs, Moved, Without
<1>9. LoginState(entry[e])' = Asks(d)
  BY <1>5, <1>6, <1>8 DEF LoginState, Data, Asks
<1>10. EntryOK(e)'
  BY <1>1, <1>6, <1>8, <1>9 DEF EntryOK
<1>11. due' \subseteq Entries
  BY <1>1 DEF LoginInv, HistoryOK
<1>. QED
  BY <1>1, <1>2, <1>3, <1>7, <1>10, <1>11, SavedStep DEF LoginInv, HistoryOK

LEMMA OptionsSaved ==
    ASSUME IInv, QueueOK, LoginInv, NEW d \in Dialogs, CommitOptions(d)
    PROVE  LoginInv'
<1>. DEFINE e == On[d]
<1>1. /\ Ends(d) /\ Has(d) /\ pc[d] = "waiting" /\ Kind[d] = "options"
      /\ UNCHANGED <<phase, tried>> /\ e \in Entries
  BY DEF CommitOptions, Releases
<1>2. CASE Exists(e) /\ Data(Here(d)) = form[d].opened
  <2>1. /\ entry' = [entry EXCEPT ![e].mode = form[d].mode, ![e].slots = form[d].slots]
        /\ due' = due \/ due' = due \cup {e}
        /\ strayed' = (strayed \ {<<d, "form">>}) \cup
              (IF <<d, "form">> \in strayed THEN {<<e, "saved">>} ELSE {})
    BY <1>2 DEF CommitOptions
  <2>2. /\ pc'[d] = "closed"
        /\ \A o \in Dialogs \ {d} : pc'[o] = pc[o] /\ form'[o] = form[o]
    BY <1>1, FormIs DEF Ends
  <2>3. entry[e] \in Configs /\ EntryOK(e) /\ OptionsFormOK(d)
    BY <1>1, <1>2, ConfigIs DEF LoginInv, DialogOK
  <2>4. /\ entry'[e].account = entry[e].account /\ entry'[e].password = entry[e].password
        /\ entry'[e].mode = form[d].mode /\ entry'[e].slots = form[d].slots
        /\ \A x \in Entries \ {e} : entry'[x] = entry[x]
    BY <1>1, <2>1, <2>3 DEF IInv, TypesOK, Configs
  <2>5. LoginState(entry[e])' = Asks(d) /\ form[d].opened[1] = entry[e].account
    BY <1>1, <1>2, <2>4 DEF LoginState, Data, Asks, Here
  <2>6. EntryOK(e)'
    <3>1. <<e, "saved">> \notin strayed' => <<d, "form">> \notin strayed
      BY <2>1
    <3>. QED
      BY <1>1, <2>3, <2>4, <2>5, <3>1 DEF EntryOK, OptionsFormOK
  <2>7. /\ \A o \in Dialogs \ {d} : <<o, "form">> \in strayed' <=> <<o, "form">> \in strayed
        /\ \A x \in Entries \ {e} : <<x, "saved">> \in strayed => <<x, "saved">> \in strayed'
    BY <2>1
  <2>8. due' \subseteq Entries
    BY <1>1, <2>1 DEF LoginInv, HistoryOK
  <2>. QED
    BY <1>1, <2>2, <2>4, <2>6, <2>7, <2>8, SavedStep DEF LoginInv, HistoryOK
<1>3. CASE ~(Exists(e) /\ Data(Here(d)) = form[d].opened)
  <2>1. UNCHANGED <<entry, due>> /\ strayed' = strayed \ {<<d, "form">>}
    BY <1>3 DEF CommitOptions
  <2>. QED
    BY <1>1, <2>1, EndedLogin
<1>. QED
  BY <1>2, <1>3

(* The holder takes the entry down and forgets what it kept.               *)
LEMMA ForgettingLogin ==
    ASSUME IInv, QueueOK, LoginInv, NEW d \in Dialogs, Unloads(d) \/ Forgets(d)
    PROVE  LoginInv'
<1>1. /\ UNCHANGED <<entry, due, form, tried, strayed>>
      /\ pc[d] \in {"waiting", "forgetting"} /\ pc'[d] \in {"forgetting", "forgot"}
      /\ \A o \in Dialogs \ {d} : pc'[o] = pc[o]
  BY FormIs DEF Unloads, Forgets, history
<1>2. \A e \in Entries : phase[e] = "removed" => phase'[e] = "removed"
  <2>1. CASE Unloads(d)
    <3>1. Exists(On[d]) /\ phase' = [phase EXCEPT ![On[d]] = "out"]
      BY <2>1 DEF Unloads, ChangedSince
    <3>2. phase[On[d]] # "removed"
      BY <3>1 DEF IInv, KeptOK
    <3>. QED
      BY <3>1, <3>2 DEF IInv, TypesOK
  <2>2. CASE Forgets(d)
    BY <2>2 DEF Forgets
  <2>. QED
    BY <2>1, <2>2
<1>3. LoginFormOK(d) /\ HolderOK(d) /\ OptionsFormOK(d)
  BY DEF LoginInv, DialogOK
<1>4. HolderOK(d)'
  <2>1. CASE Unloads(d)
    <3>1. Exists(On[d]) /\ LoginState(Here(d)) = form[d].seen /\ Kind[d] = "reconfigure"
      BY <2>1 DEF Unloads, ChangedSince
    <3>. QED
      BY <1>1, <3>1 DEF HolderOK, Exists, Here
  <2>2. CASE Forgets(d)
    BY <1>1, <1>2, <1>3, <2>2 DEF Forgets, HolderOK, Exists, Here
  <2>. QED
    BY <2>1, <2>2
<1>5. LoginFormOK(d)'
  BY <1>1, <1>3 DEF LoginFormOK, Busy, Awaits, Asks
<1>6. OptionsFormOK(d)'
  BY <1>1, <1>3 DEF OptionsFormOK
<1>7. DialogOK(d)'
  BY <1>4, <1>5, <1>6 DEF DialogOK
<1>. QED
  BY <1>1, <1>2, <1>7, DialogStep DEF LoginInv, HistoryOK

(* The entry is reloaded, set up or removed.                               *)
LEMMA EntryLogin ==
    ASSUME IInv, LoginInv, NEW e \in Entries,
           Reload(e) \/ SetupEnds(e) \/ Saves(e) \/ Removed(e)
    PROVE  LoginInv'
<1>1. /\ UNCHANGED <<pc, form, tried>> /\ due' \subseteq Entries
      /\ \A x : x # <<e, "saved">> => (x \in strayed' <=> x \in strayed)
  BY DEF Reload, SetupEnds, Saves, Removed, dialogs, history, LoginInv, HistoryOK
<1>2. /\ \A x \in Entries \ {e} : entry'[x] = entry[x] /\ phase'[x] = phase[x]
      /\ \/ ~Exists(e)' /\ phase'[e] = "removed"
         \/ UNCHANGED <<entry, strayed>> /\ (phase'[e] = phase[e] \/ phase[e] # "removed")
  <2>1. CASE Reload(e)
    <3>1. phase[e] # "removed" /\ UNCHANGED <<entry, strayed>>
      BY <2>1 DEF Reload, IInv, KeptOK
    <3>. QED BY <2>1, <3>1 DEF Reload, IInv, TypesOK
  <2>2. CASE SetupEnds(e)
    <3>1. phase[e] # "removed" /\ UNCHANGED <<entry, strayed>>
      BY <2>2 DEF SetupEnds, history
    <3>. QED BY <2>2, <3>1 DEF SetupEnds, IInv, TypesOK
  <2>3. CASE Saves(e)
    BY <2>3 DEF Saves, history
  <2>4. CASE Removed(e)
    BY <2>4 DEF Removed, IInv, TypesOK, Exists
  <2>. QED
    BY <2>1, <2>2, <2>3, <2>4
<1>3. \A x \in Entries : EntryOK(x)'
  <2>. SUFFICES ASSUME NEW x \in Entries, Exists(x)', <<x, "saved">> \notin strayed'
                PROVE  EntryOK(x)'
    BY DEF EntryOK
  <2>1. entry'[x] = entry[x] /\ <<x, "saved">> \notin strayed
    BY <1>1, <1>2
  <2>. QED
    BY <1>1, <2>1 DEF EntryOK, Exists, LoginInv
<1>4. \A d \in Dialogs : HolderOK(d)'
  <2>. SUFFICES ASSUME NEW d \in Dialogs PROVE HolderOK(d)'
    OBVIOUS
  <2>1. HolderOK(d) /\ On[d] \in Entries
    BY DEF LoginInv, DialogOK
  <2>2. CASE On[d] = e
    BY <1>1, <1>2, <2>1, <2>2 DEF HolderOK, Exists, Here
  <2>3. CASE On[d] # e
    <3>1. entry'[On[d]] = entry[On[d]] /\ phase'[On[d]] = phase[On[d]]
      BY <1>2, <2>1, <2>3
    <3>. QED
      BY <1>1, <2>1, <3>1 DEF HolderOK, Exists, Here
  <2>. QED
    BY <2>2, <2>3
<1>5. \A d \in Dialogs : DialogOK(d)'
  <2>1. \A d : <<d, "form">> # <<e, "saved">>
    OBVIOUS
  <2>. QED
    BY <1>1, <1>4, <2>1, OthersKept
<1>. QED
  BY <1>1, <1>3, <1>5 DEF LoginInv, HistoryOK

LEMMA NextLogin == IInv /\ QueueOK /\ LoginInv /\ [Next]_vars => LoginInv'
<1>. SUFFICES ASSUME IInv, QueueOK, LoginInv, [Next]_vars PROVE LoginInv'
  OBVIOUS
<1>1. ASSUME NEW d \in Dialogs, Answer(d) PROVE LoginInv'
  BY <1>1, AcceptedLogin, CreatedLogin, RefusedLogin DEF Answer
<1>2. ASSUME NEW d \in Dialogs,
             Closed(d) \/ LoginAborts(d) \/ UnloadRefused(d) \/ MoveAborts(d)
      PROVE  LoginInv'
  BY <1>2, EndedLogin DEF Closed, LoginAborts, UnloadRefused, MoveAborts, Releases,
     home, history
<1>3. ASSUME NEW d \in Dialogs, Commit(d) PROVE LoginInv'
  BY <1>2, <1>3, PasswordLogin, MoveLogin, OptionsSaved, ForgettingLogin DEF Commit
<1>4. CASE UNCHANGED vars
  <2>1. UNCHANGED <<entry, phase, due, pc, form, tried, strayed>>
    BY <1>4 DEF vars, home, dialogs, history
  <2>2. \A d \in Dialogs : HolderOK(d)'
    BY <2>1, HolderKept
  <2>. QED
    BY <2>1, <2>2, OthersKept, EntriesKept DEF LoginInv, HistoryOK
<1>5. ASSUME NEW d \in Dialogs,
             \/ OpenUser(d) \/ OpenReauth(d) \/ OpenReconfigure(d) \/ OpenOptions(d)
             \/ Discover(d) \/ ShowOptions(d) \/ SubmitOptions(d) \/ Closed(d)
      PROVE  LoginInv'
  BY <1>2, <1>5, OpenLogin, OptionsLogin
<1>. QED
  BY <1>1, <1>3, <1>4, <1>5, EntryLogin DEF Next

(* Who waits for the lock, and what the portal has accepted.               *)
THEOREM LoginInvariance == Spec => [](QueueOK /\ LoginInv)
<1>1. Init => QueueOK /\ LoginInv
  BY InitQueue, InitLogins
<1>2. IInv /\ (QueueOK /\ LoginInv) /\ [Next]_vars => (QueueOK /\ LoginInv)'
  BY NextQueue, NextLogin
<1>. QED
  BY <1>1, <1>2, Invariance, PTL DEF Spec

-----------------------------------------------------------------------------
(* The properties *)

(* No two entries log in to one account, whatever dialogs add entries and  *)
(* move them there at the same time.                                       *)
THEOREM AccountsAreApart == Spec => []OneEntryPerAccount
<1>1. IInv => OneEntryPerAccount
  BY DEF IInv
<1>. QED
  BY <1>1, Invariance, PTL

(* An entry runs on the modules of its own installation, whatever moves it *)
(* has made.                                                               *)
THEOREM MovesLeaveNothing == Spec => []CacheIsOfTheLogin
<1>1. IInv => CacheIsOfTheLogin
  <2>. SUFFICES ASSUME IInv, NEW e \in Entries \ raced, running[e] # None
                PROVE  cache[e] \in {None, running[e]}
    BY DEF CacheIsOfTheLogin
  <2>1. Exists(e)
    BY DEF IInv, KeptOK, Down
  <2>. QED
    BY <2>1 DEF IInv, KeptOK, Down
<1>. QED
  BY <1>1, Invariance, PTL

(* The types; whoever commits holds the lock or waits for it, and only its *)
(* holder forgets an installation.                                         *)
THEOREM TypeCorrect == Spec => []TypeOK
<1>1. IInv /\ QueueOK /\ LoginInv => TypeOK
  BY DEF TypeOK, IInv, TypesOK, Busy, QueueOK, Awaits, LoginInv, HistoryOK
<1>. QED
  BY <1>1, Invariance, LoginInvariance, PTL

(* What an entry logs in with is what the portal has accepted, whichever   *)
(* dialogs its account, password and mode came from.                       *)
THEOREM LoginsAreTried == Spec => []StoredLoginWasTried
<1>1. LoginInv => StoredLoginWasTried
  BY DEF LoginInv, EntryOK, StoredLoginWasTried
<1>. QED
  BY <1>1, LoginInvariance, PTL

(* The expert slots name parameters of the heating system behind the       *)
(* entry's login, unless the options they come from saw another one.       *)
THEOREM SlotsAreKept == Spec => []SlotsAreOfTheLogin
<1>1. LoginInv => SlotsAreOfTheLogin
  BY DEF LoginInv, EntryOK, SlotsAreOfTheLogin
<1>. QED
  BY <1>1, LoginInvariance, PTL

(* Whatever dialogs are open at once, an account has one entry and an      *)
(* entry a login that was tried.                                           *)
THEOREM SoundLogins == Spec => []LoginsAreSound
<1>1. TypeOK /\ OneEntryPerAccount /\ StoredLoginWasTried => LoginsAreSound
  BY DEF LoginsAreSound
<1>. QED
  BY <1>1, TypeCorrect, AccountsAreApart, LoginsAreTried, PTL

(* Nothing of one heating system is kept for another, by any dialogs.      *)
THEOREM InstallationsApart == Spec => []InstallationsStayApart
<1>1. SlotsAreOfTheLogin /\ CacheIsOfTheLogin => InstallationsStayApart
  BY DEF InstallationsStayApart
<1>. QED
  BY <1>1, SlotsAreKept, MovesLeaveNothing, PTL
=============================================================================
