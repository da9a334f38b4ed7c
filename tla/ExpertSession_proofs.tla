------------------------ MODULE ExpertSession_proofs ------------------------
(* Proofs about ExpertSession, for any operations, entries and numbers of  *)
(* attempts its assumption allows, and about ExpertPoll, the entry whose   *)
(* entities work through such sessions.                                    *)
EXTENDS ExpertSession, ExpertPoll, Integers, Sequences, TLAPS

USE ExpertAssumption

-----------------------------------------------------------------------------
(* The inductive invariant *)

Places == Login \cup Context \cup {"item", "timer", "page", "post"}

Records == [pc : {"idle", "gate", "sent", "over"}, at : Places,
            reused : BOOLEAN, left : 0..Items,
            tries : 0..(FormTries + VerifyTries + Extras),
            posted : BOOLEAN, taken : BOOLEAN,
            out : Outcomes, told : BOOLEAN, heard : BOOLEAN, awaited : BOOLEAN]

(* While an operation works it has something left to ask for and no        *)
(* outcome yet; an answer other than a page as expected has been met only  *)
(* past the pages that lead to its own requests.                           *)
Good(r) ==
    /\ r.pc \in {"gate", "sent"} =>
          /\ r.left # 0 /\ r.out = "none"
          /\ r.at \in Login \cup Context => ~r.told
    /\ r.out = "stopped" => ~r.posted

OpsOK == op \in [Ops -> Records] /\ \A o \in Ops : Good(op[o])

(* Whoever works holds the account's lock.                                 *)
LockOK ==
    /\ lock \in Ops \cup {NoOp}
    /\ \A o \in Ops : Running(o) => lock = o

RestOK ==
    /\ jar \in [Entries -> {"none", "young", "old"}]
    /\ torn \subseteq Entries /\ seenDead \subseteq Entries
    /\ pause \subseteq {"expert", "all"} /\ refusals \in 0..MostRefusals
    /\ param \in Ops \cup {NoOp}
    /\ DeadSessionsAreForgotten

IInv == OpsOK /\ LockOK /\ RestOK

LEMMA InitIInv == Init => IInv
<1>. SUFFICES ASSUME Init PROVE IInv
  OBVIOUS
<1>1. Idle \in Records /\ Good(Idle)
  BY DEF Idle, Records, Places, Context, Outcomes, Good
<1>2. OpsOK
  BY <1>1 DEF Init, OpsOK
<1>3. \A o \in Ops : ~Running(o)
  BY DEF Init, Running, Idle
<1>. QED
  BY <1>2, <1>3 DEF Init, IInv, LockOK, RestOK, DeadSessionsAreForgotten

-----------------------------------------------------------------------------
(* What a step of one operation has to show: a good record of its own, and *)
(* the lock taken over from nobody else.                                   *)

LEMMA OpStep ==
    ASSUME IInv, NEW o \in Ops,
           op' = [op EXCEPT ![o] = op'[o]], op'[o] \in Records, Good(op'[o]),
           \/ lock' = lock /\ (Running(o)' => lock = o)
           \/ lock \in {o, NoOp} /\ lock' \in {o, NoOp} /\ (Running(o)' => lock' = o)
    PROVE  OpsOK' /\ LockOK'
<1>. USE DEF IInv
<1>1. OpsOK'
  <2>. DEFINE r == op'[o]
  <2>1. op' = [op EXCEPT ![o] = r] /\ r \in Records /\ Good(r)
    OBVIOUS
  <2>. HIDE DEF r
  <2>. QED BY <2>1 DEF OpsOK
<1>2. \A p \in Ops \ {o} : Running(p)' <=> Running(p)
  BY DEF Running, OpsOK
<1>. QED
  BY <1>1, <1>2 DEF LockOK

LEMMA IdleIs ==
    /\ Idle \in Records /\ Idle.posted = FALSE /\ Idle.told = FALSE
    /\ Idle.out = "none"
BY DEF Idle, Records, Places, Context, Outcomes

(* An operation that is asked for.                                         *)
LEMMA BeginStep == ASSUME IInv, NEW o \in Ops, Begin(o) PROVE IInv'
<1>. USE DEF IInv
<1>2. RestOK'
  BY DEF Begin, RestOK, DeadSessionsAreForgotten
<1>3. ASSUME NEW r \in Records, Good(r), r.pc = "over", lock' = lock,
             op' = [op EXCEPT ![o] = r]
      PROVE  OpsOK' /\ LockOK'
  <2>1. op'[o] = r
    BY <1>3 DEF OpsOK
  <2>. QED BY <1>3, <2>1, OpStep DEF Running
<1>4. ASSUME NEW r \in Records, Good(r), lock = NoOp, lock' = o,
             op' = [op EXCEPT ![o] = r]
      PROVE  OpsOK' /\ LockOK'
  <2>1. op'[o] = r
    BY <1>4 DEF OpsOK
  <2>. QED BY <1>4, <2>1, OpStep
<1>5. \A out \in {"stopped", "busy"} :
         LET r == [Idle EXCEPT !.pc = "over", !.out = out]
         IN  r \in Records /\ Good(r) /\ r.pc = "over"
  BY IdleIs DEF Records, Outcomes, Good
<1>6. \A reused \in BOOLEAN :
         LET r == [Idle EXCEPT !.pc = "gate", !.reused = reused, !.left = Items,
                               !.at = IF reused THEN "main" ELSE "loginPage"]
         IN  r \in Records /\ Good(r)
  <2>. TAKE reused \in BOOLEAN
  <2>. DEFINE at == IF reused THEN "main" ELSE "loginPage"
  <2>1. at \in Places /\ Items \in 0..Items
    BY DEF Places, Context, Login
  <2>. HIDE DEF at
  <2>2. [Idle EXCEPT !.pc = "gate", !.reused = reused, !.left = Items, !.at = at]
          \in Records
    BY <2>1, IdleIs DEF Records
  <2>3. Good([Idle EXCEPT !.pc = "gate", !.reused = reused, !.left = Items, !.at = at])
    BY IdleIs DEF Records, Good
  <2>. QED BY <2>2, <2>3 DEF at
<1>7. CASE Gone(o) /\ KindOf[o] = "write"
  BY <1>7, <1>5, <1>3, <1>2 DEF Begin
<1>8. CASE ~(Gone(o) /\ KindOf[o] = "write") /\ lock # NoOp
  BY <1>8, <1>5, <1>3, <1>2 DEF Begin
<1>9. CASE ~(Gone(o) /\ KindOf[o] = "write") /\ lock = NoOp
  <2>1. Reusable(EntryOf[o]) \in BOOLEAN
    BY DEF Reusable
  <2>. QED
    BY <1>9, <2>1, <1>6, <1>4, <1>2 DEF Begin
<1>. QED
  BY <1>7, <1>8, <1>9

(* An operation that ends.                                                 *)
LEMMA EndedIs ==
    ASSUME IInv, NEW o \in Ops, NEW out \in Outcomes \ {"none"},
           out = "stopped" => ~op[o].posted
    PROVE  LET r == Ended(o, out)[o]
           IN  /\ Ended(o, out) = [op EXCEPT ![o] = r]
               /\ r \in Records /\ Good(r) /\ r.pc = "over" /\ r.out = out
<1>1. op[o] \in Records /\ op \in [Ops -> Records]
  BY DEF IInv, OpsOK
<1>2. op[o].posted \in BOOLEAN /\ op[o].taken \in BOOLEAN
  BY <1>1 DEF Records
<1>. DEFINE r == [Idle EXCEPT !.pc = "over", !.out = out, !.posted = op[o].posted,
                              !.taken = op[o].taken]
<1>3. Ended(o, out)[o] = r /\ Ended(o, out) = [op EXCEPT ![o] = r]
  BY <1>1 DEF Ended
<1>4. r \in Records /\ Good(r) /\ r.pc = "over" /\ r.out = out
  BY <1>2, IdleIs DEF Records, Good
<1>. QED
  BY <1>3, <1>4

LEMMA EndStep ==
    ASSUME IInv, NEW o \in Ops, Running(o), NEW r \in Records, r.pc = "over",
           r.out = "stopped" => ~r.posted, op' = [op EXCEPT ![o] = r], Release
    PROVE  OpsOK' /\ LockOK'
<1>1. op'[o] = r /\ lock = o
  BY DEF IInv, OpsOK, LockOK
<1>. QED
  BY <1>1, OpStep DEF Release, Running, Good

(* An operation that goes on with its next request.                        *)
LEMMA GoOnStep ==
    ASSUME IInv, NEW o \in Ops, Running(o),
           op' = [op EXCEPT ![o] = op'[o]], op'[o] \in Records,
           op'[o].pc \in {"gate", "sent"},
           op'[o].left # 0, op'[o].out = op[o].out,
           op'[o].at \in Login \cup Context => ~op'[o].told,
           lock' = lock
    PROVE  OpsOK' /\ LockOK'
<1>1. op[o].out = "none" /\ lock = o
  BY DEF IInv, OpsOK, LockOK, Good, Running
<1>. QED
  BY <1>1, OpStep DEF Good

LEMMA RecordIs ==
    ASSUME IInv, NEW o \in Ops, Running(o)
    PROVE  /\ op \in [Ops -> Records] /\ op[o] \in Records
           /\ op[o].left \in 1..Items /\ op[o].left # 0 /\ op[o].out = "none"
           /\ op[o].at \in Login \cup Context => ~op[o].told
           /\ lock = o
<1>1. op \in [Ops -> Records] /\ op[o] \in Records /\ Good(op[o]) /\ lock = o
  BY DEF IInv, OpsOK, LockOK
<1>. QED
  BY <1>1 DEF Records, Good, Running

LEMMA NextItemStep ==
    ASSUME IInv, NEW o \in Ops, Running(o), NEW told \in BOOLEAN, NEW heard \in BOOLEAN,
           NextItem(o, told, heard)
    PROVE  OpsOK' /\ LockOK' /\ refusals' \in 0..MostRefusals
<1>1. CASE op[o].left > 1
  <2>1. op' = [op EXCEPT ![o].pc = "gate", ![o].at = "item", ![o].tries = 0,
                         ![o].left = @ - 1, ![o].told = @ \/ told,
                         ![o].heard = @ \/ heard]
    BY <1>1 DEF NextItem
  <2>2. op' = [op EXCEPT ![o] = op'[o]] /\ op'[o] \in Records
    <3>. DEFINE s == [op[o] EXCEPT !.pc = "gate", !.at = "item", !.tries = 0,
                                   !.left = @ - 1, !.told = @ \/ told,
                                   !.heard = @ \/ heard]
    <3>1. op \in [Ops -> Records] /\ op[o] \in Records /\ "item" \in Places
      BY RecordIs DEF Places
    <3>2. s \in Records
      <4>1. /\ op[o].left - 1 \in 0..Items /\ 0 \in 0..(FormTries + VerifyTries + Extras)
            /\ (op[o].told \/ told) \in BOOLEAN /\ (op[o].heard \/ heard) \in BOOLEAN
        BY <1>1, RecordIs
      <4>. QED BY <3>1, <4>1 DEF Records
    <3>3. op' = [op EXCEPT ![o] = s]
      BY <2>1, <3>1
    <3>. QED
      BY <3>1, <3>2, <3>3
  <2>3. /\ op'[o].pc = "gate" /\ op'[o].at = "item" /\ op'[o].out = op[o].out
        /\ op'[o].left = op[o].left - 1
    BY <2>1, RecordIs DEF Records
  <2>4. lock' = lock /\ refusals' = refusals
    BY <1>1 DEF NextItem
  <2>5. "item" \notin Login \cup Context /\ op'[o].left # 0
    BY <1>1, <2>3, RecordIs DEF Login, Context
  <2>. QED
    BY <2>2, <2>3, <2>4, <2>5, GoOnStep DEF IInv, RestOK
<1>2. CASE ~(op[o].left > 1)
  <2>. DEFINE r == Ended(o, "ok")[o]
              s == [r EXCEPT !.heard = op[o].heard \/ heard]
  <2>1. "ok" \in Outcomes \ {"none"} /\ op[o].heard \in BOOLEAN
    BY RecordIs DEF Outcomes, Records
  <2>2. Ended(o, "ok") = [op EXCEPT ![o] = r] /\ r \in Records /\ r.pc = "over"
        /\ r.out = "ok"
    BY <2>1, EndedIs
  <2>3. op' = [Ended(o, "ok") EXCEPT ![o].heard = op[o].heard \/ heard] /\ Release
        /\ refusals' = 0
    BY <1>2 DEF NextItem
  <2>. HIDE DEF r
  <2>4. op' = [op EXCEPT ![o] = s]
    BY <2>2, <2>3, RecordIs
  <2>5. s \in Records /\ s.pc = "over" /\ s.out = "ok"
    BY <2>1, <2>2 DEF Records
  <2>. HIDE DEF s
  <2>6. 0 \in 0..MostRefusals
    OBVIOUS
  <2>. QED
    BY <2>3, <2>4, <2>5, <2>6, EndStep
<1>. QED
  BY <1>1, <1>2

LEMMA FailsStep ==
    ASSUME IInv, NEW o \in Ops, Running(o), NEW told \in BOOLEAN, Fails(o, told)
    PROVE  OpsOK' /\ LockOK' /\ refusals' = refusals
<1>. DEFINE r == Ended(o, "failed")[o]
            s == [r EXCEPT !.told = @ \/ told]
<1>1. "failed" \in Outcomes \ {"none"}
  BY DEF Outcomes
<1>2. Ended(o, "failed") = [op EXCEPT ![o] = r] /\ r \in Records /\ r.pc = "over"
      /\ r.out = "failed"
  BY <1>1, EndedIs
<1>3. op' = [Ended(o, "failed") EXCEPT ![o].told = @ \/ told] /\ Release
      /\ refusals' = refusals
  BY DEF Fails
<1>. HIDE DEF r
<1>4. op' = [op EXCEPT ![o] = s]
  BY <1>2, <1>3, RecordIs
<1>5. s \in Records /\ s.pc = "over" /\ s.out = "failed"
  BY <1>2 DEF Records
<1>. HIDE DEF s
<1>. QED
  BY <1>3, <1>4, <1>5, EndStep

(* What an answer does to the cookies.                                     *)
LEMMA SeenStep ==
    ASSUME IInv, NEW o \in Ops, NEW onLogin, NEW good, Seen(o, onLogin, good)
    PROVE  /\ jar' \in [Entries -> {"none", "young", "old"}]
           /\ seenDead' \subseteq Entries /\ DeadSessionsAreForgotten'
BY DEF IInv, RestOK, Seen, DeadSessionsAreForgotten

LEMMA TakesStep ==
    ASSUME IInv, NEW o \in Ops, NEW yes \in BOOLEAN, Takes(o, yes)
    PROVE  param' \in Ops \cup {NoOp}
BY DEF IInv, RestOK, Takes

-----------------------------------------------------------------------------
(* The answers *)

LEMMA RefusedStep ==
    ASSUME IInv, NEW o \in Ops, NEW onLogin \in BOOLEAN, NEW yes \in BOOLEAN,
           Refused(o, onLogin, yes)
    PROVE  IInv'
<1>. DEFINE r == Ended(o, "refused")[o]
            s == [r EXCEPT !.told = TRUE, !.taken = yes]
<1>1. "refused" \in Outcomes \ {"none"} /\ Running(o)
  BY DEF Outcomes, Refused, Running
<1>2. Ended(o, "refused") = [op EXCEPT ![o] = r] /\ r \in Records /\ r.pc = "over"
      /\ r.out = "refused"
  BY <1>1, EndedIs
<1>3. op' = [Ended(o, "refused") EXCEPT ![o].told = TRUE, ![o].taken = yes] /\ Release
  BY DEF Refused
<1>. HIDE DEF r
<1>4. op' = [op EXCEPT ![o] = s]
  BY <1>1, <1>2, <1>3, RecordIs
<1>5. s \in Records /\ s.pc = "over" /\ s.out = "refused"
  BY <1>2 DEF Records
<1>. HIDE DEF s
<1>6. OpsOK' /\ LockOK'
  BY <1>1, <1>3, <1>4, <1>5, EndStep
<1>7. refusals' \in 0..MostRefusals
  BY DEF Refused, Least, IInv, RestOK
<1>8. RestOK'
  BY <1>7, SeenStep, TakesStep DEF Refused, IInv, RestOK
<1>. QED
  BY <1>6, <1>8 DEF IInv

LEMMA ErrorStep ==
    ASSUME IInv, NEW o \in Ops, NEW onLogin \in BOOLEAN, NEW yes \in BOOLEAN,
           Error(o, onLogin, yes)
    PROVE  IInv'
<1>1. Running(o)
  BY DEF Error, Running
<1>2. OpsOK' /\ LockOK' /\ refusals' \in 0..MostRefusals
  BY <1>1, NextItemStep, FailsStep DEF Error, IInv, RestOK
<1>3. RestOK'
  BY <1>2, SeenStep, TakesStep DEF Error, IInv, RestOK
<1>. QED
  BY <1>2, <1>3 DEF IInv

LEMMA UnusableStep ==
    ASSUME IInv, NEW o \in Ops, NEW why \in {"lost", "login page", "level"},
           Unusable(o, why)
    PROVE  IInv'
<1>. DEFINE stale == op[o].reused /\ op[o].at \in Context
            onLogin == why = "login page" /\ op[o].at # "loginPost"
<1>1. Running(o)
  BY DEF Unusable, Running
<1>2. OpsOK' /\ LockOK' /\ refusals' \in 0..MostRefusals
  <2>1. CASE stale
    <3>1. op' = [op EXCEPT ![o].pc = "gate", ![o].at = "loginPage", ![o].reused = FALSE]
          /\ lock' = lock /\ refusals' = refusals
      BY <2>1 DEF Unusable
    <3>2. op' = [op EXCEPT ![o] = op'[o]] /\ op'[o] \in Records
      <4>1. op \in [Ops -> Records] /\ "loginPage" \in Places
        BY <1>1, RecordIs DEF Places, Login
      <4>. DEFINE s == [op[o] EXCEPT !.pc = "gate", !.at = "loginPage", !.reused = FALSE]
      <4>2. s \in Records
        <5>1. op[o] \in Records
          BY <4>1
        <5>. QED BY <4>1, <5>1 DEF Records
      <4>3. op' = [op EXCEPT ![o] = s]
        BY <3>1, <4>1
      <4>. QED
        BY <4>1, <4>2, <4>3
    <3>3. op'[o].pc = "gate" /\ op'[o].left = op[o].left /\ op'[o].out = op[o].out
          /\ op'[o].told = op[o].told
      BY ZenonT(60), <1>1, <3>1, RecordIs DEF Records
    <3>4. ~op[o].told /\ op[o].left # 0
      <4>1. op[o].at \in Login \cup Context
        BY <2>1
      <4>2. op[o].left # 0 /\ ~op[o].told
        BY <1>1, <4>1, RecordIs
      <4>. QED BY <4>2
    <3>. QED
      BY <1>1, <3>1, <3>2, <3>3, <3>4, GoOnStep DEF IInv, RestOK
  <2>2. CASE ~stale
    <3>1. NextItem(o, FALSE, FALSE) \/ Fails(o, FALSE)
      BY <2>2 DEF Unusable
    <3>. QED
      BY <1>1, <3>1, NextItemStep, FailsStep DEF IInv, RestOK
  <2>. QED BY <2>1, <2>2
<1>3. jar' = (IF onLogin \/ stale THEN [jar EXCEPT ![EntryOf[o]] = "none"] ELSE jar)
      /\ seenDead' = (IF onLogin THEN seenDead \cup {EntryOf[o]} ELSE seenDead)
  BY DEF Unusable
<1>4. param' \in Ops \cup {NoOp}
  BY TakesStep DEF Unusable
<1>. HIDE DEF stale, onLogin
<1>5. /\ jar' \in [Entries -> {"none", "young", "old"}]
      /\ seenDead' \subseteq Entries /\ DeadSessionsAreForgotten'
  <2>1. EntryOf[o] \in Entries
    OBVIOUS
  <2>2. CASE onLogin
    BY ZenonT(60), <1>3, <2>1, <2>2 DEF IInv, RestOK, DeadSessionsAreForgotten
  <2>3. CASE ~onLogin
    <3>1. CASE stale
      BY <1>3, <2>1, <2>3, <3>1 DEF IInv, RestOK, DeadSessionsAreForgotten
    <3>2. CASE ~stale
      BY <1>3, <2>3, <3>2 DEF IInv, RestOK, DeadSessionsAreForgotten
    <3>. QED BY <3>1, <3>2
  <2>. QED BY <2>2, <2>3
<1>6. RestOK'
  BY <1>2, <1>4, <1>5 DEF Unusable, IInv, RestOK
<1>. QED
  BY <1>2, <1>6 DEF IInv

(* A page that is as expected, and the operation goes on.                  *)
Onward(o, at, tries, taken, heard) ==
    [op EXCEPT ![o].pc = "gate", ![o].at = at, ![o].tries = tries,
               ![o].taken = taken, ![o].heard = heard]

LEMMA PageStep ==
    ASSUME IInv, NEW o \in Ops, op[o].pc = "sent",
           NEW at \in Places \ (Login \cup Context),
           NEW tries \in 0..(FormTries + VerifyTries + Extras),
           NEW taken \in BOOLEAN, NEW heard \in BOOLEAN,
           op' = Onward(o, at, tries, taken, heard), lock' = lock
    PROVE  OpsOK' /\ LockOK'
<1>. USE DEF Onward
<1>1. Running(o)
  BY DEF Running
<1>2. op' = [op EXCEPT ![o] = op'[o]] /\ op'[o] \in Records
  <2>1. op \in [Ops -> Records] /\ at \in Places
    BY <1>1, RecordIs
  <2>. DEFINE s == [op[o] EXCEPT !.pc = "gate", !.at = at, !.tries = tries,
                                 !.taken = taken, !.heard = heard]
  <2>2. s \in Records
    <3>1. op[o] \in Records
      BY <2>1
    <3>. QED BY <2>1, <3>1 DEF Records
  <2>3. op' = [op EXCEPT ![o] = s]
    BY <2>1
  <2>. QED
    BY <2>1, <2>2, <2>3
<1>3. /\ op'[o].pc = "gate" /\ op'[o].at = at /\ op'[o].out = op[o].out
      /\ op'[o].left = op[o].left
  BY <1>1, RecordIs DEF Records
<1>4. op'[o].left # 0 /\ op'[o].at \notin Login \cup Context
  BY <1>1, <1>3, RecordIs
<1>. QED
  BY <1>1, <1>2, <1>3, <1>4, GoOnStep

LEMMA AdvancesStep == ASSUME IInv, NEW o \in Ops, Advances(o) PROVE IInv'
<1>. DEFINE at == op[o].at
            more == \/ at = "menu" /\ Extras > 0
                    \/ at = "nav" /\ op[o].tries + 1 < Extras
            arrives == at \in {"menu", "nav"} /\ ~more
            e == EntryOf[o]
<1>1. Running(o) /\ at \in Login \cup Context
  BY DEF Advances, Running
<1>2. /\ jar' = (IF arrives THEN [jar EXCEPT ![e] = "young"]
                 ELSE IF at = "loginPage" THEN [jar EXCEPT ![e] = "none"] ELSE jar)
      /\ seenDead' = (IF arrives THEN seenDead \ {e} ELSE seenDead)
  BY DEF Advances
<1>3. OpsOK' /\ LockOK' /\ refusals' \in 0..MostRefusals
  <2>1. CASE arrives /\ KindOf[o] = "list"
    <3>. DEFINE r == Ended(o, "ok")[o]
                s == [r EXCEPT !.heard = TRUE]
    <3>1. "ok" \in Outcomes \ {"none"}
      BY DEF Outcomes
    <3>2. Ended(o, "ok") = [op EXCEPT ![o] = r] /\ r \in Records /\ r.pc = "over"
          /\ r.out = "ok"
      BY <3>1, EndedIs
    <3>3. op' = [Ended(o, "ok") EXCEPT ![o].heard = TRUE] /\ Release /\ refusals' = 0
      BY <2>1 DEF Advances
    <3>. HIDE DEF r
    <3>4. op' = [op EXCEPT ![o] = s]
      BY <1>1, <3>2, <3>3, RecordIs
    <3>5. s \in Records /\ s.pc = "over" /\ s.out = "ok"
      BY <3>2 DEF Records
    <3>. HIDE DEF s
    <3>6. 0 \in 0..MostRefusals
      OBVIOUS
    <3>. QED
      BY <1>1, <3>3, <3>4, <3>5, <3>6, EndStep
  <2>2. CASE ~(arrives /\ KindOf[o] = "list")
    <3>. DEFINE next == CASE at = "loginPage" -> "loginPost"
                          [] at = "loginPost" -> "main"
                          [] at = "main" -> "menu"
                          [] more -> "nav"
                          [] OTHER -> "item"
                tries == IF at = "nav" /\ more THEN op[o].tries + 1 ELSE 0
    <3>1. op' = [op EXCEPT ![o].pc = "gate", ![o].tries = tries, ![o].at = next]
          /\ lock' = lock /\ refusals' = refusals
      BY <2>2 DEF Advances, LoginSaysNothing
    <3>2. next \in Places
      BY DEF Places, Login, Context
    <3>3. tries \in 0..(FormTries + VerifyTries + Extras)
      <4>1. op[o].tries \in Nat
        BY <1>1, RecordIs DEF Records
      <4>. QED BY <4>1
    <3>. HIDE DEF next, tries
    <3>4. op' = [op EXCEPT ![o] = op'[o]] /\ op'[o] \in Records
      BY ZenonT(60), <1>1, <3>1, <3>2, <3>3, RecordIs DEF Records
    <3>5. op'[o].pc = "gate" /\ op'[o].left = op[o].left /\ op'[o].out = op[o].out
          /\ op'[o].told = op[o].told
      BY <1>1, <3>1, RecordIs DEF Records
    <3>6. op[o].left # 0 /\ ~op[o].told
      BY <1>1, RecordIs
    <3>. QED
      BY <1>1, <3>1, <3>4, <3>5, <3>6, GoOnStep DEF IInv, RestOK
  <2>. QED BY <2>1, <2>2
<1>4. /\ jar' \in [Entries -> {"none", "young", "old"}]
      /\ seenDead' \subseteq Entries /\ DeadSessionsAreForgotten'
  <2>1. e \in Entries
    OBVIOUS
  <2>. HIDE DEF e
  <2>2. CASE arrives
    BY <1>2, <2>1, <2>2 DEF IInv, RestOK, DeadSessionsAreForgotten
  <2>3. CASE ~arrives /\ at = "loginPage"
    BY <1>2, <2>1, <2>3 DEF IInv, RestOK, DeadSessionsAreForgotten
  <2>4. CASE ~arrives /\ at # "loginPage"
    BY <1>2, <2>4 DEF IInv, RestOK, DeadSessionsAreForgotten
  <2>. QED BY <2>2, <2>3, <2>4
<1>5. RestOK'
  BY <1>3, <1>4 DEF Advances, IInv, RestOK
<1>. QED
  BY <1>3, <1>5 DEF IInv

(* What the pages leave alone.                                             *)
LEMMA RestKept ==
    ASSUME IInv, UNCHANGED <<jar, torn, pause, param, seenDead>>,
           refusals' \in 0..MostRefusals
    PROVE  RestOK'
BY DEF IInv, RestOK, DeadSessionsAreForgotten

LEMMA FurtherPlaces == {"item", "timer", "page", "post"} \subseteq Places \ (Login \cup Context)
BY DEF Places, Login, Context

LEMMA StillEmptyStep == ASSUME IInv, NEW o \in Ops, StillEmpty(o) PROVE IInv'
<1>1. Running(o) /\ op[o].pc = "sent"
  BY DEF StillEmpty, Running
<1>2. OpsOK' /\ LockOK' /\ refusals' \in 0..MostRefusals
  <2>1. CASE op[o].tries + 1 < Tries(o)
    <3>1. op' = [op EXCEPT ![o].pc = "gate", ![o].at = "timer", ![o].tries = @ + 1,
                           ![o].heard = TRUE]
          /\ lock' = lock /\ refusals' = refusals
      BY <2>1 DEF StillEmpty
    <3>2. op[o] \in Records /\ op \in [Ops -> Records]
      BY <1>1, RecordIs
    <3>3. op[o].tries + 1 \in 0..(FormTries + VerifyTries + Extras) /\ op[o].taken \in BOOLEAN
      <4>1. op[o].tries \in Nat /\ op[o].taken \in BOOLEAN
        BY <3>2 DEF Records
      <4>. QED BY <2>1, <4>1 DEF Tries
    <3>. DEFINE tries == op[o].tries + 1
                taken == op[o].taken
    <3>4. op' = Onward(o, "timer", tries, taken, TRUE)
      BY <3>1, <3>2 DEF Records, Onward
    <3>5. "timer" \in Places \ (Login \cup Context)
      BY FurtherPlaces
    <3>. HIDE DEF tries, taken
    <3>6. tries \in 0..(FormTries + VerifyTries + Extras) /\ taken \in BOOLEAN
      BY <3>3 DEF tries, taken
    <3>7. OpsOK' /\ LockOK'
      BY <1>1, <3>1, <3>4, <3>5, <3>6, PageStep
    <3>. QED
      BY <3>1, <3>7 DEF IInv, RestOK
  <2>2. CASE ~(op[o].tries + 1 < Tries(o))
    BY <1>1, <2>2, NextItemStep, FailsStep DEF StillEmpty, IInv, RestOK
  <2>. QED BY <2>1, <2>2
<1>. QED
  BY <1>2, RestKept DEF StillEmpty, IInv

(* A page that says where to go on, and nothing else.                      *)
Turned(o, at, heard) == [op EXCEPT ![o].pc = "gate", ![o].at = at, ![o].heard = heard]

LEMMA TurnStep ==
    ASSUME IInv, NEW o \in Ops, op[o].pc = "sent",
           NEW at \in {"item", "timer", "page", "post"},
           NEW heard \in BOOLEAN,
           op' = Turned(o, at, heard), lock' = lock
    PROVE  OpsOK' /\ LockOK'
<1>. DEFINE tries == op[o].tries
            taken == op[o].taken
<1>1. op[o] \in Records /\ op \in [Ops -> Records]
  BY RecordIs DEF Running
<1>2. op' = Onward(o, at, tries, taken, heard)
  BY ZenonT(60), <1>1 DEF Records, Onward, Turned
<1>3. tries \in 0..(FormTries + VerifyTries + Extras) /\ taken \in BOOLEAN
  BY <1>1 DEF Records
<1>4. at \in Places \ (Login \cup Context)
  BY FurtherPlaces
<1>. HIDE DEF tries, taken
<1>. QED
  BY <1>2, <1>3, <1>4, PageStep

LEMMA TimerPolledStep == ASSUME IInv, NEW o \in Ops, TimerPolled(o) PROVE IInv'
<1>. DEFINE heard == op[o].heard
<1>1. op[o].pc = "sent" /\ Running(o)
  BY DEF TimerPolled, Running
<1>2. op[o] \in Records /\ op \in [Ops -> Records]
  BY <1>1, RecordIs
<1>3. heard \in BOOLEAN
  BY <1>2 DEF Records
<1>4. op' = Turned(o, "item", heard)
  BY <1>2 DEF Records, TimerPolled, Turned
<1>. HIDE DEF heard
<1>5. OpsOK' /\ LockOK'
  BY <1>1, <1>3, <1>4, TurnStep DEF TimerPolled
<1>6. refusals' \in 0..MostRefusals
  BY DEF TimerPolled, IInv, RestOK
<1>. QED
  BY <1>5, <1>6, RestKept DEF TimerPolled, IInv

LEMMA ItemReadStep == ASSUME IInv, NEW o \in Ops, ItemRead(o) PROVE IInv'
<1>1. OpsOK' /\ LockOK' /\ refusals' \in 0..MostRefusals
  BY NextItemStep DEF ItemRead, Running
<1>. QED
  BY <1>1, RestKept DEF ItemRead, IInv

LEMMA NoRowsStep == ASSUME IInv, NEW o \in Ops, NoRows(o) PROVE IInv'
<1>1. OpsOK' /\ LockOK'
  BY TurnStep DEF NoRows, Turned
<1>2. refusals' \in 0..MostRefusals
  BY DEF NoRows, IInv, RestOK
<1>. QED
  BY <1>1, <1>2, RestKept DEF NoRows, IInv

LEMMA FormReadStep ==
    ASSUME IInv, NEW o \in Ops, NEW offered \in BOOLEAN, FormRead(o, offered)
    PROVE  IInv'
<1>1. op[o].pc = "sent" /\ Running(o)
  BY DEF FormRead, Running
<1>2. OpsOK' /\ LockOK'
  <2>1. CASE offered
    <3>. DEFINE heard == op[o].heard
    <3>1. op[o] \in Records /\ op \in [Ops -> Records]
      BY <1>1, RecordIs
    <3>2. heard \in BOOLEAN
      BY <3>1 DEF Records
    <3>3. op' = Turned(o, "post", heard)
      BY <2>1, <3>1 DEF Records, FormRead, Turned
    <3>. HIDE DEF heard
    <3>. QED
      BY <1>1, <2>1, <3>2, <3>3, TurnStep DEF FormRead
  <2>2. CASE ~offered
    <3>. DEFINE r == Ended(o, "not offered")[o]
    <3>1. "not offered" \in Outcomes \ {"none"}
      BY DEF Outcomes
    <3>2. Ended(o, "not offered") = [op EXCEPT ![o] = r] /\ r \in Records
          /\ r.pc = "over" /\ r.out = "not offered"
      BY <3>1, EndedIs
    <3>3. op' = Ended(o, "not offered") /\ Release
      BY <2>2 DEF FormRead
    <3>. HIDE DEF r
    <3>. QED
      BY <1>1, <3>2, <3>3, EndStep
  <2>. QED BY <2>1, <2>2
<1>3. refusals' \in 0..MostRefusals
  BY DEF FormRead, IInv, RestOK
<1>. QED
  BY <1>2, <1>3, RestKept DEF FormRead, IInv

LEMMA PostedStep ==
    ASSUME IInv, NEW o \in Ops, NEW yes \in BOOLEAN, Posted(o, yes)
    PROVE  IInv'
<1>. DEFINE heard == op[o].heard
<1>1. op[o].pc = "sent" /\ Running(o)
  BY DEF Posted, Running
<1>2. op[o] \in Records /\ op \in [Ops -> Records]
  BY <1>1, RecordIs
<1>3. heard \in BOOLEAN /\ 0 \in 0..(FormTries + VerifyTries + Extras)
  BY <1>2 DEF Records
<1>4. op' = Onward(o, "item", 0, yes, heard)
  BY <1>2 DEF Records, Posted, Onward
<1>5. "item" \in Places \ (Login \cup Context)
  BY FurtherPlaces
<1>. HIDE DEF heard
<1>6. OpsOK' /\ LockOK'
  BY <1>1, <1>3, <1>4, <1>5, PageStep DEF Posted
<1>7. RestOK'
  BY TakesStep DEF Posted, IInv, RestOK, DeadSessionsAreForgotten
<1>. QED
  BY <1>6, <1>7 DEF IInv

LEMMA VerifiedStep == ASSUME IInv, NEW o \in Ops, Verified(o) PROVE IInv'
<1>. DEFINE out == IF param = o THEN "ok" ELSE "unconfirmed"
            r == Ended(o, out)[o]
            s == [r EXCEPT !.heard = TRUE]
<1>1. out \in Outcomes \ {"none"} /\ out # "stopped" /\ Running(o)
  BY DEF Outcomes, Verified, Running
<1>2. op' = [Ended(o, out) EXCEPT ![o].heard = TRUE] /\ Release
  BY DEF Verified
<1>. HIDE DEF out
<1>3. Ended(o, out) = [op EXCEPT ![o] = r] /\ r \in Records /\ r.pc = "over"
      /\ r.out = out
  BY <1>1, EndedIs
<1>. HIDE DEF r
<1>4. op' = [op EXCEPT ![o] = s]
  BY <1>1, <1>2, <1>3, RecordIs
<1>5. s \in Records /\ s.pc = "over" /\ s.out = out
  BY <1>3 DEF Records
<1>. HIDE DEF s
<1>6. OpsOK' /\ LockOK'
  BY <1>1, <1>2, <1>4, <1>5, EndStep
<1>7. refusals' \in 0..MostRefusals
  BY DEF Verified, IInv, RestOK
<1>. QED
  BY <1>6, <1>7, RestKept DEF Verified, IInv

-----------------------------------------------------------------------------
(* Every step *)

(* The gates before a request, and the request.                            *)
LEMMA GateStep ==
    ASSUME IInv, NEW o \in Ops, Stopped(o) \/ Paused(o) \/ Send(o) \/ CallerGoes(o)
    PROVE  IInv'
<1>1. RestOK'
  <2>1. refusals' = refusals /\ UNCHANGED <<jar, torn, pause, param, seenDead>>
    BY DEF Stopped, Paused, Send, CallerGoes
  <2>. QED BY <2>1, RestKept DEF IInv, RestOK
<1>2. Running(o)
  BY DEF Stopped, Paused, Send, CallerGoes, Running
<1>3. op[o] \in Records /\ op \in [Ops -> Records] /\ op[o].out = "none" /\ lock = o
  BY <1>2, RecordIs
<1>4. ASSUME NEW out \in Outcomes \ {"none"}, out = "stopped" => ~op[o].posted,
             op' = Ended(o, out), Release
      PROVE  OpsOK' /\ LockOK'
  <2>. DEFINE r == Ended(o, out)[o]
  <2>1. Ended(o, out) = [op EXCEPT ![o] = r] /\ r \in Records /\ Good(r)
        /\ r.pc = "over" /\ r.out = out
    BY <1>4, EndedIs
  <2>. HIDE DEF r
  <2>2. r.out = "stopped" => ~r.posted
    BY <2>1 DEF Good
  <2>. QED
    BY <1>2, <1>4, <2>1, <2>2, EndStep
<1>5. CASE Stopped(o)
  <2>1. CASE op[o].posted
    BY <1>4, <1>5, <2>1, <1>1 DEF Stopped, Outcomes, IInv
  <2>2. CASE ~op[o].posted
    BY <1>4, <1>5, <2>2, <1>1 DEF Stopped, Outcomes, IInv
  <2>. QED BY <2>1, <2>2
<1>6. CASE Paused(o)
  BY <1>4, <1>6, <1>1 DEF Paused, Outcomes, IInv
<1>7. CASE Send(o)
  <2>. DEFINE posted == op[o].posted \/ op[o].at = "post"
              s == [op[o] EXCEPT !.pc = "sent", !.posted = posted]
  <2>1. posted \in BOOLEAN
    BY <1>3 DEF Records
  <2>2. op' = [op EXCEPT ![o].pc = "sent", ![o].posted = posted]
    BY <1>7 DEF Send
  <2>. HIDE DEF posted
  <2>3. s \in Records /\ op' = [op EXCEPT ![o] = s]
    <3>1. s \in Records
      BY <1>3, <2>1 DEF Records
    <3>2. op' = [op EXCEPT ![o] = s]
      BY <1>3, <2>2
    <3>. QED BY <3>1, <3>2
  <2>4. s.pc = "sent" /\ s.left = op[o].left /\ s.out = op[o].out /\ s.at = op[o].at
        /\ s.told = op[o].told
    BY <1>3 DEF Records
  <2>. HIDE DEF s
  <2>5. op'[o] = s
    BY <1>3, <2>3
  <2>6. OpsOK' /\ LockOK'
    BY <1>2, <1>7, <2>3, <2>4, <2>5, RecordIs, GoOnStep DEF Send
  <2>. QED BY <2>6, <1>1 DEF IInv
<1>8. CASE CallerGoes(o)
  <2>. DEFINE s == [op[o] EXCEPT !.awaited = FALSE]
  <2>1. s \in Records /\ op' = [op EXCEPT ![o] = s]
    <3>1. s \in Records
      BY <1>3 DEF Records
    <3>2. op' = [op EXCEPT ![o] = s]
      BY <1>3, <1>8 DEF CallerGoes
    <3>. QED BY <3>1, <3>2
  <2>2. s.pc = op[o].pc /\ s.left = op[o].left /\ s.out = op[o].out /\ s.at = op[o].at
        /\ s.told = op[o].told
    BY <1>3 DEF Records
  <2>. HIDE DEF s
  <2>3. op'[o] = s
    BY <1>3, <2>1
  <2>4. OpsOK' /\ LockOK'
    BY <1>2, <1>8, <2>1, <2>2, <2>3, RecordIs, GoOnStep DEF CallerGoes, Running
  <2>. QED BY <2>4, <1>1 DEF IInv
<1>. QED
  BY <1>5, <1>6, <1>7, <1>8

LEMMA AnswerStep == ASSUME IInv, NEW o \in Ops, Answer(o) PROVE IInv'
BY RefusedStep, ErrorStep, UnusableStep, AdvancesStep, StillEmptyStep, TimerPolledStep,
   ItemReadStep, NoRowsStep, FormReadStep, PostedStep, VerifiedStep DEF Answer

LEMMA NextIInv == IInv /\ [Next]_vars => IInv'
<1>. SUFFICES ASSUME IInv, [Next]_vars PROVE IInv'
  OBVIOUS
<1>1. ASSUME NEW o \in Ops, Begin(o) PROVE IInv'
  BY <1>1, BeginStep
<1>2. ASSUME NEW o \in Ops, Stopped(o) \/ Paused(o) \/ Send(o) \/ CallerGoes(o) PROVE IInv'
  BY <1>2, GateStep
<1>3. ASSUME NEW o \in Ops, Answer(o) PROVE IInv'
  BY <1>3, AnswerStep
<1>4. ASSUME UNCHANGED <<op, lock>>, RestOK' PROVE IInv'
  BY <1>4 DEF IInv, OpsOK, LockOK, Running
<1>5. ASSUME NEW e \in Entries, BeginUnload(e) \/ UnloadFails(e) PROVE IInv'
  <2>1. RestOK'
    BY <1>5 DEF BeginUnload, UnloadFails, IInv, RestOK, DeadSessionsAreForgotten
  <2>. QED BY <1>4, <1>5, <2>1 DEF BeginUnload, UnloadFails
<1>6. ASSUME NEW e \in Entries, JarAges(e) PROVE IInv'
  <2>1. RestOK'
    BY <1>6 DEF JarAges, IInv, RestOK, DeadSessionsAreForgotten
  <2>. QED BY <1>4, <1>6, <2>1 DEF JarAges
<1>7. CASE PollRefused \/ PauseEnds \/ SetElsewhere
  <2>1. RestOK'
    BY <1>7 DEF PollRefused, PauseEnds, SetElsewhere, IInv, RestOK, DeadSessionsAreForgotten
  <2>. QED BY <1>4, <1>7, <2>1 DEF PollRefused, PauseEnds, SetElsewhere
<1>8. CASE UNCHANGED vars
  <2>1. RestOK'
    BY <1>8 DEF vars, IInv, RestOK, DeadSessionsAreForgotten
  <2>. QED BY <1>4, <1>8, <2>1 DEF vars
<1>. QED
  BY <1>1, <1>2, <1>3, <1>5, <1>6, <1>7, <1>8 DEF Next

(* The operations, the lock and the cookies, whatever the portal answers.  *)
THEOREM Invariance == Spec => []IInv
BY InitIInv, NextIInv, PTL DEF Spec

-----------------------------------------------------------------------------
(* The properties *)

(* The types of the component.                                             *)
THEOREM TypeCorrect == Spec => []TypeOK
<1>1. IInv => TypeOK
  BY DEF IInv, OpsOK, LockOK, RestOK, Good, Records, Places, Running, TypeOK
<1>. QED
  BY <1>1, Invariance, PTL

(* One operation of the account drives the portal at a time, whatever      *)
(* became of whoever asked for it.                                         *)
THEOREM Exclusion == Spec => []OneSession
<1>1. IInv => OneSession
  BY DEF IInv, LockOK, OneSession
<1>. QED
  BY <1>1, Invariance, PTL

(* Who is told "stopped" has had nothing posted.                           *)
THEOREM StoppedIsSafe == Spec => []StoppedMeansUntouched
<1>1. IInv => StoppedMeansUntouched
  BY DEF IInv, OpsOK, Good, StoppedMeansUntouched
<1>. QED
  BY <1>1, Invariance, PTL

(* No password follows an answer of the portal.                            *)
THEOREM NoPasswordAfterAnAnswer == Spec => []NoLoginAfterAnAnswer
<1>1. IInv => NoLoginAfterAnAnswer
  BY DEF IInv, OpsOK, Good, Running, NoLoginAfterAnAnswer
<1>. QED
  BY <1>1, Invariance, PTL

(* Cookies that ended at the login page are gone.                          *)
THEOREM DeadCookiesAreGone == Spec => []DeadSessionsAreForgotten
<1>1. IInv => DeadSessionsAreForgotten
  BY DEF IInv, RestOK
<1>. QED
  BY <1>1, Invariance, PTL

(* One clean session at a time.                                            *)
THEOREM CleanSessions == Spec => []SessionsAreClean
BY TypeCorrect, Exclusion, DeadCookiesAreGone, PTL DEF SessionsAreClean

-----------------------------------------------------------------------------
(* The streak of refusals *)

EndsWell(o) == Running(o) /\ op'[o].pc = "over" /\ op'[o].out = "ok"

LEMMA EndedWell ==
    ASSUME OpsOK, NEW o \in Ops, NEW b, op[o].pc = "sent",
           op' = [Ended(o, "ok") EXCEPT ![o].heard = b]
    PROVE  EndsWell(o)
BY DEF EndsWell, Ended, OpsOK, Records, Running

LEMMA NextItemEnds ==
    ASSUME OpsOK, NEW o \in Ops, op[o].pc = "sent", NEW t, NEW h, NextItem(o, t, h)
    PROVE  refusals' = refusals \/ EndsWell(o)
BY EndedWell DEF NextItem

(* An answer that ends the streak is the last of an operation's own.       *)
LEMMA AnswerEnds ==
    ASSUME IInv, NEW o \in Ops, Answer(o), refusals' < refusals
    PROVE  EndsWell(o)
<1>0. OpsOK /\ refusals \in 0..MostRefusals /\ MostRefusals \in Nat
  BY DEF IInv, RestOK
<1>. DEFINE Ends == refusals' # refusals
<1>00. Ends
  BY <1>0
<1>1. ASSUME NEW b \in BOOLEAN, NEW yes \in BOOLEAN, Refused(o, b, yes) PROVE FALSE
  BY <1>0, <1>1 DEF Refused, Least
<1>2. ASSUME NEW b \in BOOLEAN, NEW yes \in BOOLEAN, Error(o, b, yes) PROVE EndsWell(o)
  <2>1. op[o].pc = "sent" /\ (NextItem(o, TRUE, TRUE) \/ Fails(o, TRUE))
    BY <1>2 DEF Error
  <2>2. ~Fails(o, TRUE)
    BY <1>0 DEF Fails
  <2>. QED
    BY <1>0, <1>00, <2>1, <2>2, NextItemEnds, Zenon
<1>3. ASSUME NEW why, Unusable(o, why) PROVE EndsWell(o)
  <2>1. /\ op[o].pc = "sent"
        /\ refusals' = refusals \/ NextItem(o, FALSE, FALSE) \/ Fails(o, FALSE)
    BY <1>3 DEF Unusable
  <2>2. ~Fails(o, FALSE)
    BY <1>0 DEF Fails
  <2>. QED
    BY <1>0, <1>00, <2>1, <2>2, NextItemEnds, Zenon
<1>4. ASSUME Advances(o) PROVE EndsWell(o)
  <2>1. /\ op[o].pc = "sent"
        /\ \/ op' = [Ended(o, "ok") EXCEPT ![o].heard = TRUE]
           \/ refusals' = refusals
    BY <1>4 DEF Advances, LoginSaysNothing
  <2>. QED
    BY <1>0, <1>00, <2>1, EndedWell, Zenon
<1>5. ASSUME StillEmpty(o) \/ ItemRead(o) PROVE EndsWell(o)
  <2>1. /\ op[o].pc = "sent"
        /\ refusals' = refusals \/ NextItem(o, FALSE, TRUE) \/ Fails(o, FALSE)
    BY <1>5 DEF StillEmpty, ItemRead
  <2>2. ~Fails(o, FALSE)
    BY <1>0 DEF Fails
  <2>. QED
    BY <1>0, <1>00, <2>1, <2>2, NextItemEnds, Zenon
<1>6. ASSUME \/ TimerPolled(o) \/ NoRows(o)
             \/ \E yes \in BOOLEAN : FormRead(o, yes) \/ Posted(o, yes)
      PROVE  FALSE
  BY <1>00, <1>6, Zenon DEF TimerPolled, NoRows, FormRead, Posted
<1>7. ASSUME Verified(o) PROVE EndsWell(o)
  <2>1. param = o
    BY <1>00, <1>7 DEF Verified
  <2>. QED
    BY <1>0, <1>7, <2>1, EndedWell, Zenon DEF Verified
<1>. QED
  BY <1>1, <1>2, <1>3, <1>4, <1>5, <1>6, <1>7 DEF Answer

(* A login that works before a dialog that is always refused does not end  *)
(* the streak; only an operation that went through does.                   *)
THEOREM WorkEndsTheStreak == Spec => StreakEndsByWork
<1>1. ASSUME IInv, [Next]_vars, refusals' < refusals
      PROVE  \E o \in Ops : EndsWell(o)
  <2>0. refusals' # refusals
    <3>1. refusals \in Nat
      BY <1>1 DEF IInv, RestOK
    <3>. QED
      BY <1>1, <3>1
  <2>1. \A o \in Ops : ~Begin(o) /\ ~CallerGoes(o) /\ ~Stopped(o) /\ ~Paused(o) /\ ~Send(o)
    BY <2>0, Zenon DEF Begin, CallerGoes, Stopped, Paused, Send
  <2>2. ~PollRefused /\ ~PauseEnds /\ ~SetElsewhere /\ ~UNCHANGED vars
    BY <2>0 DEF PollRefused, PauseEnds, SetElsewhere, vars
  <2>3. \A e \in Entries : ~BeginUnload(e) /\ ~UnloadFails(e) /\ ~JarAges(e)
    BY <2>0 DEF BeginUnload, UnloadFails, JarAges
  <2>4. PICK o \in Ops : Answer(o)
    BY <1>1, <2>1, <2>2, <2>3 DEF Next
  <2>. QED
    BY <1>1, <2>4, AnswerEnds
<1>2. IInv /\ [Next]_vars
      => [refusals' < refusals =>
             \E o \in Ops : Running(o) /\ op'[o].pc = "over" /\ op'[o].out = "ok"]_vars
  BY <1>1 DEF EndsWell
<1>. QED
  BY <1>2, Invariance, PTL DEF Spec, StreakEndsByWork

-----------------------------------------------------------------------------
(* The account's lock implements the turns of PortalTurns *)

(* The answer is in: the operation has no request out, goes on or lets go, *)
(* and nobody else has moved.                                              *)
AnswerIsIn(o) ==
    /\ op'[o].pc # "sent" /\ lock' \in {o, NoOp}
    /\ \A p \in Ops \ {o} : op'[p] = op[p]

(* An operation that ends, with whatever is noted of its last answer.      *)
LEMMA EndIsIn ==
    ASSUME IInv, NEW o \in Ops, NEW out \in Outcomes \ {"none", "stopped"}, Release,
           NEW told, NEW heard, NEW taken,
           \/ op' = Ended(o, out)
           \/ op' = [Ended(o, out) EXCEPT ![o].told = told]
           \/ op' = [Ended(o, out) EXCEPT ![o].heard = heard]
           \/ op' = [Ended(o, out) EXCEPT ![o].told = told, ![o].taken = taken]
    PROVE  AnswerIsIn(o) /\ op'[o].pc = "over"
<1>. DEFINE r == Ended(o, out)[o]
<1>1. op \in [Ops -> Records]
  BY DEF IInv, OpsOK
<1>2. Ended(o, out) = [op EXCEPT ![o] = r] /\ r \in Records /\ r.pc = "over"
  BY EndedIs
<1>. HIDE DEF r
<1>3. \A p \in Ops \ {o} : op'[p] = op[p]
  BY <1>1, <1>2
<1>4. op'[o].pc = "over"
  BY <1>1, <1>2 DEF Records
<1>. QED
  BY <1>3, <1>4 DEF AnswerIsIn, Release

(* One that goes on with its next request.                                 *)
LEMMA GoingOnIsIn ==
    ASSUME IInv, NEW o \in Ops, Running(o), lock' = lock,
           op'[o].pc = "gate", \A p \in Ops \ {o} : op'[p] = op[p]
    PROVE  AnswerIsIn(o)
BY RecordIs DEF AnswerIsIn

LEMMA NextItemIsIn ==
    ASSUME IInv, NEW o \in Ops, Running(o), NEW told, NEW heard, NextItem(o, told, heard)
    PROVE  AnswerIsIn(o)
<1>1. op \in [Ops -> Records] /\ op[o] \in Records
  BY RecordIs
<1>2. CASE op[o].left > 1
  <2>1. op'[o].pc = "gate" /\ \A p \in Ops \ {o} : op'[p] = op[p]
    BY <1>1, <1>2 DEF NextItem, Records
  <2>. QED
    BY <1>2, <2>1, GoingOnIsIn DEF NextItem
<1>3. CASE ~(op[o].left > 1)
  <2>1. "ok" \in Outcomes \ {"none", "stopped"}
    BY DEF Outcomes
  <2>. DEFINE h == op[o].heard \/ heard
  <2>2. op' = [Ended(o, "ok") EXCEPT ![o].heard = h] /\ Release
    BY <1>3 DEF NextItem
  <2>. HIDE DEF h
  <2>. QED
    BY <2>1, <2>2, EndIsIn
<1>. QED BY <1>2, <1>3

LEMMA FailsIsIn ==
    ASSUME IInv, NEW o \in Ops, Running(o), NEW told, Fails(o, told)
    PROVE  AnswerIsIn(o) /\ op'[o].pc = "over"
<1>. DEFINE t == Ended(o, "failed")[o].told \/ told
<1>1. "failed" \in Outcomes \ {"none", "stopped"}
  BY DEF Outcomes
<1>2. op' = [Ended(o, "failed") EXCEPT ![o].told = t] /\ Release
  BY DEF Fails
<1>. HIDE DEF t
<1>. QED
  BY <1>1, <1>2, EndIsIn

LEMMA AnswersAreIn ==
    ASSUME IInv, NEW o \in Ops, Answer(o)
    PROVE  op[o].pc = "sent" /\ AnswerIsIn(o)
<1>0. op[o].pc = "sent" /\ Running(o)
  BY Zenon DEF Answer, Refused, Error, Unusable, Advances, StillEmpty, TimerPolled, ItemRead,
               NoRows, FormRead, Posted, Verified, Running
<1>00. op \in [Ops -> Records] /\ op[o] \in Records
  BY <1>0, RecordIs
<1>01. {"ok", "refused", "not offered", "unconfirmed"} \subseteq Outcomes \ {"none", "stopped"}
  BY DEF Outcomes
<1>1. ASSUME NEW b \in BOOLEAN, NEW yes \in BOOLEAN, Refused(o, b, yes) PROVE AnswerIsIn(o)
  BY <1>01, <1>1, EndIsIn DEF Refused
<1>2. ASSUME NEW b \in BOOLEAN, NEW yes \in BOOLEAN, Error(o, b, yes) PROVE AnswerIsIn(o)
  <2>1. NextItem(o, TRUE, TRUE) \/ Fails(o, TRUE)
    BY <1>2 DEF Error
  <2>. QED
    BY <1>0, <2>1, NextItemIsIn, FailsIsIn
<1>3. ASSUME NEW why, Unusable(o, why) PROVE AnswerIsIn(o)
  <2>1. \/ /\ op' = [op EXCEPT ![o].pc = "gate", ![o].at = "loginPage", ![o].reused = FALSE]
           /\ lock' = lock
        \/ NextItem(o, FALSE, FALSE) \/ Fails(o, FALSE)
    BY <1>3 DEF Unusable
  <2>2. CASE /\ op' = [op EXCEPT ![o].pc = "gate", ![o].at = "loginPage", ![o].reused = FALSE]
             /\ lock' = lock
    <3>1. op'[o].pc = "gate" /\ \A p \in Ops \ {o} : op'[p] = op[p]
      BY <1>00, <2>2 DEF Records
    <3>. QED
      BY <1>0, <2>2, <3>1, GoingOnIsIn
  <2>. QED
    BY <1>0, <2>1, <2>2, NextItemIsIn, FailsIsIn
<1>4. ASSUME Advances(o) PROVE AnswerIsIn(o)
  <2>1. CASE op' = [Ended(o, "ok") EXCEPT ![o].heard = TRUE] /\ Release
    BY <1>01, <2>1, EndIsIn
  <2>2. ASSUME NEW tries, NEW at, lock' = lock,
               op' = [op EXCEPT ![o].pc = "gate", ![o].tries = tries, ![o].at = at]
        PROVE  AnswerIsIn(o)
    <3>1. op'[o].pc = "gate" /\ \A p \in Ops \ {o} : op'[p] = op[p]
      BY <1>00, <2>2 DEF Records
    <3>. QED
      BY <1>0, <2>2, <3>1, GoingOnIsIn
  <2>. QED
    BY <1>4, <2>1, <2>2 DEF Advances
<1>5. ASSUME StillEmpty(o) PROVE AnswerIsIn(o)
  <2>1. CASE op[o].tries + 1 < Tries(o)
    <3>1. op'[o].pc = "gate" /\ \A p \in Ops \ {o} : op'[p] = op[p]
      BY <1>00, <1>5, <2>1 DEF StillEmpty, Records
    <3>. QED
      BY <1>0, <1>5, <2>1, <3>1, GoingOnIsIn DEF StillEmpty
  <2>2. CASE ~(op[o].tries + 1 < Tries(o))
    BY <1>0, <1>5, <2>2, NextItemIsIn, FailsIsIn DEF StillEmpty
  <2>. QED BY <2>1, <2>2
<1>6. ASSUME TimerPolled(o) \/ NoRows(o) PROVE AnswerIsIn(o)
  <2>1. op'[o].pc = "gate" /\ \A p \in Ops \ {o} : op'[p] = op[p]
    BY <1>00, <1>6 DEF TimerPolled, NoRows, Records
  <2>. QED
    BY <1>0, <1>6, <2>1, GoingOnIsIn DEF TimerPolled, NoRows
<1>7. ASSUME ItemRead(o) PROVE AnswerIsIn(o)
  BY <1>0, <1>7, NextItemIsIn DEF ItemRead
<1>8. ASSUME NEW yes \in BOOLEAN, FormRead(o, yes) PROVE AnswerIsIn(o)
  <2>1. CASE yes
    <3>1. op'[o].pc = "gate" /\ \A p \in Ops \ {o} : op'[p] = op[p]
      BY <1>00, <1>8, <2>1 DEF FormRead, Records
    <3>. QED
      BY <1>0, <1>8, <2>1, <3>1, GoingOnIsIn DEF FormRead
  <2>2. CASE ~yes
    BY <1>01, <1>8, <2>2, EndIsIn DEF FormRead
  <2>. QED BY <2>1, <2>2
<1>9. ASSUME NEW yes \in BOOLEAN, Posted(o, yes) PROVE AnswerIsIn(o)
  <2>1. op'[o].pc = "gate" /\ \A p \in Ops \ {o} : op'[p] = op[p]
    BY <1>00, <1>9 DEF Posted, Records
  <2>. QED
    BY <1>0, <1>9, <2>1, GoingOnIsIn DEF Posted
<1>10. ASSUME Verified(o) PROVE AnswerIsIn(o)
  <2>. DEFINE out == IF param = o THEN "ok" ELSE "unconfirmed"
  <2>1. out \in Outcomes \ {"none", "stopped"}
    BY <1>01
  <2>2. op' = [Ended(o, out) EXCEPT ![o].heard = TRUE] /\ Release
    BY <1>10 DEF Verified
  <2>. HIDE DEF out
  <2>. QED
    BY <2>1, <2>2, EndIsIn
<1>. QED
  BY <1>0, <1>1, <1>2, <1>3, <1>4, <1>5, <1>6, <1>7, <1>8, <1>9, <1>10 DEF Answer

(* A gate that is closed ends an operation.                                *)
LEMMA ClosedGateIs ==
    ASSUME IInv, NEW o \in Ops, Stopped(o) \/ Paused(o)
    PROVE  /\ op[o].pc = "gate" /\ op'[o].pc = "over" /\ lock' = NoOp
           /\ \A p \in Ops \ {o} : op'[p] = op[p]
<1>0. op \in [Ops -> Records]
  BY DEF IInv, OpsOK
<1>1. PICK out : op[o].pc = "gate" /\ op' = Ended(o, out) /\ Release
  BY DEF Stopped, Paused
<1>. DEFINE r == [Idle EXCEPT !.pc = "over", !.out = out, !.posted = op[o].posted,
                              !.taken = op[o].taken]
<1>2. r.pc = "over" /\ op' = [op EXCEPT ![o] = r]
  BY <1>1 DEF Ended, Idle
<1>. HIDE DEF r
<1>. QED
  BY <1>0, <1>1, <1>2 DEF Release

(* Beginning takes a turn, a request is sent in it, an answer settles it,  *)
(* a closed gate leaves it; a caller that goes changes nothing.            *)
LEMMA StepTakesTurns == IInv /\ [Next]_vars => [Turns!Next]_(Turns!vars)
<1>. SUFFICES ASSUME IInv, [Next]_vars PROVE [Turns!Next]_(Turns!vars)
  OBVIOUS
<1>0. op \in [Ops -> Records] /\ \A p \in Ops : Running(p) => lock = p
  BY DEF IInv, OpsOK, LockOK
<1>1. ASSUME NEW o \in Ops, Begin(o) PROVE [Turns!Next]_(Turns!vars)
  <2>. DEFINE Asked == [Idle EXCEPT !.pc = "gate", !.reused = Reusable(EntryOf[o]),
                                    !.left = Items,
                                    !.at = IF Reusable(EntryOf[o]) THEN "main" ELSE "loginPage"]
  <2>0. PICK r : op' = [op EXCEPT ![o] = r] /\ r.pc \in {"gate", "over"}
    <3>1. \A out : [Idle EXCEPT !.pc = "over", !.out = out].pc = "over"
      BY DEF Idle
    <3>2. Asked.pc = "gate"
      BY DEF Idle
    <3>3. \/ op' = [op EXCEPT ![o] = [Idle EXCEPT !.pc = "over", !.out = "stopped"]]
          \/ op' = [op EXCEPT ![o] = [Idle EXCEPT !.pc = "over", !.out = "busy"]]
          \/ op' = [op EXCEPT ![o] = Asked]
      BY <1>1 DEF Begin
    <3>. HIDE DEF Asked
    <3>. QED BY <3>1, <3>2, <3>3
  <2>1. /\ op[o].pc # "sent" /\ op'[o].pc # "sent"
        /\ \A p \in Ops \ {o} : op'[p] = op[p]
    BY <1>0, <1>1, <2>0 DEF Begin, Running
  <2>2. OnTheWire' = OnTheWire
    BY <2>1 DEF OnTheWire
  <2>3. lock' = lock \/ (lock = NoOp /\ lock' = o)
    BY <1>1 DEF Begin
  <2>. QED
    BY <2>2, <2>3 DEF Turns!Next, Turns!Take, Turns!vars
<1>2. ASSUME NEW o \in Ops, Running(o),
             \A p \in Ops \ {o} : op'[p].pc = op[p].pc
      PROVE  /\ lock = o
             /\ OnTheWire = IF op[o].pc = "sent" THEN {o} ELSE {}
             /\ OnTheWire' = IF op'[o].pc = "sent" THEN {o} ELSE {}
  BY <1>0, <1>2 DEF OnTheWire, Running
<1>3. ASSUME NEW o \in Ops, CallerGoes(o) PROVE [Turns!Next]_(Turns!vars)
  <2>1. \A p \in Ops : op'[p].pc = op[p].pc
    BY <1>0, <1>3 DEF CallerGoes, Records
  <2>. QED
    BY <1>3, <2>1 DEF CallerGoes, OnTheWire, Turns!vars
<1>4. ASSUME NEW o \in Ops, Stopped(o) \/ Paused(o) PROVE [Turns!Next]_(Turns!vars)
  <2>1. op[o].pc = "gate" /\ op'[o].pc = "over" /\ lock' = NoOp
        /\ \A p \in Ops \ {o} : op'[p] = op[p]
    BY <1>4, ClosedGateIs
  <2>2. Turns!Leave(o)
    BY <1>2, <2>1 DEF Turns!Leave, Running
  <2>. QED BY <2>2 DEF Turns!Next
<1>5. ASSUME NEW o \in Ops, Send(o) PROVE [Turns!Next]_(Turns!vars)
  <2>1. op[o].pc = "gate" /\ op'[o].pc = "sent" /\ lock' = lock
        /\ \A p \in Ops \ {o} : op'[p] = op[p]
    BY <1>0, <1>5 DEF Send, Records
  <2>2. Turns!Send(o)
    BY <1>2, <2>1 DEF Turns!Send, Running
  <2>. QED BY <2>2 DEF Turns!Next
<1>6. ASSUME NEW o \in Ops, Answer(o) PROVE [Turns!Next]_(Turns!vars)
  <2>1. op[o].pc = "sent" /\ AnswerIsIn(o)
    BY <1>6, AnswersAreIn
  <2>2. Turns!Settle(o)
    BY <1>2, <2>1 DEF AnswerIsIn, Turns!Settle, Running
  <2>. QED BY <2>2 DEF Turns!Next
<1>7. CASE \/ \E e \in Entries : BeginUnload(e) \/ UnloadFails(e) \/ JarAges(e)
           \/ PollRefused \/ PauseEnds \/ SetElsewhere \/ UNCHANGED vars
  BY <1>7 DEF BeginUnload, UnloadFails, JarAges, PollRefused, PauseEnds, SetElsewhere, vars,
              OnTheWire, Turns!vars
<1>. QED
  BY <1>1, <1>3, <1>4, <1>5, <1>6, <1>7 DEF Next

(* The expert operations of an account take turns as those of the mobile   *)
(* API do: one request at a time, none but the holder's, and no turn ended *)
(* over an unanswered one - whichever callers have gone.                   *)
THEOREM ImplementsTurns == Spec => TakesTurns
<1>1. Init => Turns!Init
  BY DEF Init, Turns!Init, OnTheWire, Idle
<1>. QED
  BY <1>1, Invariance, StepTakesTurns, PTL DEF Spec, TakesTurns, Turns!Spec

-----------------------------------------------------------------------------
(* No operation works for ever                                             *)

(* How much an operation still has before it, what counts most first: the  *)
(* login it may fall back on, the pages up to its own requests, the items, *)
(* the post and what it is verified by, the tries, where within a try, and *)
(* the request itself.                                                     *)
PagesLeft == [loginPage |-> 5, loginPost |-> 4, main |-> 3, menu |-> 2, nav |-> 1,
              item |-> 0, timer |-> 0, page |-> 0, post |-> 0]

Remaining(r) ==
    << IF r.reused /\ r.at \in Context THEN 1 ELSE 0,
       PagesLeft[r.at],
       r.left,
       IF ~r.posted THEN 2 ELSE IF r.at = "post" THEN 1 ELSE 0,
       FormTries + VerifyTries + Extras - r.tries,
       IF r.at = "timer" THEN 2 ELSE IF r.at = "item" THEN 1 ELSE 0,
       IF r.pc = "gate" THEN 1 ELSE 0 >>

Nearer(r, s) ==
    \E i \in 1..7 : /\ Remaining(r)[i] < Remaining(s)[i]
                    /\ \A j \in 1..(i - 1) : Remaining(r)[j] = Remaining(s)[j]

(* Each step of an operation brings it nearer to its end, whatever the     *)
(* portal answers: no retry, fallback to a login, empty dialog or failed   *)
(* item leads back to where it has been.                                   *)
ComesNearer ==
    \A o \in Ops : Running(o) /\ Running(o)' =>
        op'[o] \in {op[o], [op[o] EXCEPT !.awaited = FALSE]} \/ Nearer(op'[o], op[o])

NoWayBack == [][ComesNearer]_vars

LEMMA RemainingIs ==
    ASSUME NEW r \in Records
    PROVE  Remaining(r) \in Nat \X Nat \X Nat \X Nat \X Nat \X Nat \X Nat
<1>1. PagesLeft[r.at] \in Nat
  BY DEF PagesLeft, Records, Places, Login, Context
<1>2. FormTries + VerifyTries + Extras - r.tries \in Nat /\ r.left \in Nat
  BY DEF Records
<1>. QED
  BY <1>1, <1>2 DEF Remaining

LEMMA NearerIs ==
    ASSUME NEW r, NEW s, NEW i \in 1..7, Remaining(r)[i] < Remaining(s)[i],
           \A j \in 1..6 : j < i => Remaining(r)[j] = Remaining(s)[j]
    PROVE  Nearer(r, s)
BY DEF Nearer

(* A login that has begun is not gone back from; a post that is out is     *)
(* known of.                                                               *)
WorkOf(r) ==
    /\ r.pc = "sent" /\ r.at = "post" => r.posted
    /\ r.pc \in {"gate", "sent"} /\ r.at \in Login => ~r.reused

WorkInv == \A o \in Ops : WorkOf(op[o])

(* What a step does to the operation whose step it is.                     *)
Works(o) ==
    op'[o].pc \in {"gate", "sent"} => Nearer(op'[o], op[o]) /\ WorkOf(op'[o])

LEMMA NextItemWorks ==
    ASSUME IInv, NEW o \in Ops, Running(o), NEW told, NEW heard, NextItem(o, told, heard),
           op[o].at \in {"item", "timer", "page"}
    PROVE  Works(o)
<1>1. op \in [Ops -> Records] /\ op[o] \in Records
  BY RecordIs
<1>2. CASE op[o].left > 1
  <2>1. /\ op'[o].at = "item" /\ op'[o].left = op[o].left - 1
        /\ op'[o].reused = op[o].reused
    BY <1>1, <1>2 DEF NextItem, Records
  <2>2. /\ Remaining(op'[o])[1] = Remaining(op[o])[1] /\ Remaining(op'[o])[2] = Remaining(op[o])[2]
        /\ Remaining(op'[o])[3] < Remaining(op[o])[3]
    BY <1>1, <2>1 DEF Remaining, PagesLeft, Context, Records
  <2>3. Nearer(op'[o], op[o])
    BY <2>2, NearerIs
  <2>. QED
    BY <2>1, <2>3 DEF Works, WorkOf, Login
<1>3. CASE ~(op[o].left > 1)
  <2>. DEFINE h == op[o].heard \/ heard
  <2>1. op' = [Ended(o, "ok") EXCEPT ![o].heard = h] /\ Release
    BY <1>3 DEF NextItem
  <2>. HIDE DEF h
  <2>2. "ok" \in Outcomes \ {"none", "stopped"}
    BY DEF Outcomes
  <2>3. op'[o].pc = "over"
    BY <2>1, <2>2, EndIsIn
  <2>. QED
    BY <2>3 DEF Works
<1>. QED BY <1>2, <1>3

LEMMA FailsWorks ==
    ASSUME IInv, NEW o \in Ops, Running(o), NEW told, Fails(o, told)
    PROVE  Works(o)
BY FailsIsIn DEF Works

LEMMA AnswerWorks ==
    ASSUME IInv, WorkInv, NEW o \in Ops, Answer(o)
    PROVE  Works(o)
<1>0. op[o].pc = "sent" /\ Running(o)
  BY AnswersAreIn DEF Running
<1>1. op \in [Ops -> Records] /\ op[o] \in Records /\ WorkOf(op[o])
  BY <1>0, RecordIs DEF WorkInv
<1>2. {"ok", "refused", "not offered", "unconfirmed"} \subseteq Outcomes \ {"none", "stopped"}
  BY DEF Outcomes
<1>3. ASSUME NEW b \in BOOLEAN, NEW yes \in BOOLEAN, Refused(o, b, yes) PROVE Works(o)
  BY <1>2, <1>3, EndIsIn DEF Refused, Works
<1>4. ASSUME NEW b \in BOOLEAN, NEW yes \in BOOLEAN, Error(o, b, yes) PROVE Works(o)
  BY <1>0, <1>4, NextItemWorks, FailsWorks DEF Error
<1>5. ASSUME NEW why, Unusable(o, why) PROVE Works(o)
  <2>1. CASE /\ op[o].reused /\ op[o].at \in Context
             /\ op' = [op EXCEPT ![o].pc = "gate", ![o].at = "loginPage", ![o].reused = FALSE]
    <3>1. op'[o].at = "loginPage" /\ ~op'[o].reused /\ op'[o].pc = "gate"
      BY <1>1, <2>1 DEF Records
    <3>2. Remaining(op'[o])[1] < Remaining(op[o])[1]
      BY <2>1, <3>1 DEF Remaining
    <3>3. Nearer(op'[o], op[o])
      BY <3>2, NearerIs
    <3>. QED
      BY <3>1, <3>3 DEF Works, WorkOf
  <2>2. CASE op[o].at \in {"item", "timer", "page"} /\ NextItem(o, FALSE, FALSE)
    BY <1>0, <2>2, NextItemWorks
  <2>3. CASE Fails(o, FALSE)
    BY <1>0, <2>3, FailsWorks
  <2>. QED
    BY <1>5, <2>1, <2>2, <2>3 DEF Unusable
<1>6. ASSUME Advances(o) PROVE Works(o)
  <2>. DEFINE more == \/ op[o].at = "menu" /\ Extras > 0
                      \/ op[o].at = "nav" /\ op[o].tries + 1 < Extras
              tries == IF op[o].at = "nav" /\ more THEN op[o].tries + 1 ELSE 0
              at == CASE op[o].at = "loginPage" -> "loginPost"
                      [] op[o].at = "loginPost" -> "main"
                      [] op[o].at = "main" -> "menu"
                      [] more -> "nav"
                      [] OTHER -> "item"
  <2>1. CASE op' = [Ended(o, "ok") EXCEPT ![o].heard = TRUE] /\ Release
    BY <1>2, <2>1, EndIsIn DEF Works
  <2>2. CASE op' = [op EXCEPT ![o].pc = "gate", ![o].tries = tries, ![o].at = at]
    <3>1. op[o].at \in Login \cup Context
      BY <1>6 DEF Advances
    <3>2. \/ op[o].at = "loginPage" /\ at = "loginPost"
          \/ op[o].at = "loginPost" /\ at = "main"
          \/ op[o].at = "main" /\ at = "menu"
          \/ op[o].at = "menu" /\ at \in {"nav", "item"}
          \/ op[o].at = "nav" /\ at = "nav" /\ tries = op[o].tries + 1
          \/ op[o].at = "nav" /\ at = "item"
      BY <3>1 DEF Login, Context
    <3>. HIDE DEF at, tries
    <3>3. /\ op'[o].at = at /\ op'[o].tries = tries /\ op'[o].pc = "gate"
          /\ op'[o].reused = op[o].reused /\ op'[o].left = op[o].left
          /\ op'[o].posted = op[o].posted
      BY <1>1, <2>2 DEF Records
    <3>4. WorkOf(op'[o])
      BY <1>0, <1>1, <3>2, <3>3 DEF WorkOf, Login
    <3>5. \/ Remaining(op'[o])[1] < Remaining(op[o])[1]
          \/ Remaining(op'[o])[1] = Remaining(op[o])[1]
      <4>1. op[o].at \in Login => ~op[o].reused
        BY <1>0, <1>1 DEF WorkOf
      <4>2. CASE op[o].at \in Login
        BY <3>3, <4>1, <4>2 DEF Remaining
      <4>3. CASE op[o].at \in Context
        BY <3>3, <4>3 DEF Remaining
      <4>. QED BY <3>1, <4>2, <4>3
    <3>6. CASE op[o].at = "nav" /\ at = "nav"
      <4>1. tries = op[o].tries + 1
        BY <3>2, <3>6
      <4>2. /\ Remaining(op'[o])[1] = Remaining(op[o])[1] /\ Remaining(op'[o])[2] = Remaining(op[o])[2]
            /\ Remaining(op'[o])[3] = Remaining(op[o])[3] /\ Remaining(op'[o])[4] = Remaining(op[o])[4]
        BY <3>3, <3>6 DEF Remaining
      <4>3. Remaining(op'[o])[5] < Remaining(op[o])[5]
        BY <1>1, <3>3, <4>1 DEF Remaining, Records
      <4>4. Nearer(op'[o], op[o])
        BY <4>2, <4>3, NearerIs
      <4>. QED
        BY <3>4, <4>4 DEF Works
    <3>7. CASE ~(op[o].at = "nav" /\ at = "nav")
      <4>1. Remaining(op'[o])[2] < Remaining(op[o])[2]
        BY <3>2, <3>3, <3>7 DEF Remaining, PagesLeft
      <4>2. Nearer(op'[o], op[o])
        BY <3>5, <4>1, NearerIs
      <4>. QED
        BY <3>4, <4>2 DEF Works
    <3>. QED BY <3>6, <3>7
  <2>. QED
    BY <1>6, <2>1, <2>2 DEF Advances
<1>7. ASSUME StillEmpty(o) PROVE Works(o)
  <2>1. CASE op[o].tries + 1 < Tries(o)
    <3>1. /\ op[o].at = "item" /\ op'[o].at = "timer" /\ op'[o].tries = op[o].tries + 1
          /\ op'[o].reused = op[o].reused /\ op'[o].left = op[o].left
          /\ op'[o].posted = op[o].posted /\ op'[o].pc = "gate"
      BY <1>1, <1>7, <2>1 DEF StillEmpty, Records
    <3>2. /\ Remaining(op'[o])[1] = Remaining(op[o])[1] /\ Remaining(op'[o])[2] = Remaining(op[o])[2]
          /\ Remaining(op'[o])[3] = Remaining(op[o])[3] /\ Remaining(op'[o])[4] = Remaining(op[o])[4]
      BY <3>1 DEF Remaining, PagesLeft, Context
    <3>3. Remaining(op'[o])[5] < Remaining(op[o])[5]
      BY <1>1, <3>1 DEF Remaining, Records
    <3>4. Nearer(op'[o], op[o])
      BY <3>2, <3>3, NearerIs
    <3>. QED
      BY <3>1, <3>4 DEF Works, WorkOf, Login
  <2>2. CASE ~(op[o].tries + 1 < Tries(o))
    BY <1>0, <1>7, <2>2, NextItemWorks, FailsWorks DEF StillEmpty
  <2>. QED BY <2>1, <2>2
<1>8. ASSUME TimerPolled(o) \/ NoRows(o) \/ FormRead(o, TRUE) PROVE Works(o)
  <2>1. /\ \/ op[o].at = "timer" /\ op'[o].at = "item"
           \/ op[o].at = "item" /\ op'[o].at = "page"
           \/ op[o].at = "item" /\ op'[o].at = "post" /\ ~op[o].posted
        /\ op'[o].reused = op[o].reused /\ op'[o].left = op[o].left
        /\ op'[o].posted = op[o].posted /\ op'[o].pc = "gate"
        /\ op'[o].tries = op[o].tries
    BY <1>1, <1>8 DEF TimerPolled, NoRows, FormRead, Records
  <2>2. /\ Remaining(op'[o])[1] = Remaining(op[o])[1] /\ Remaining(op'[o])[2] = Remaining(op[o])[2]
        /\ Remaining(op'[o])[3] = Remaining(op[o])[3] /\ Remaining(op'[o])[4] = Remaining(op[o])[4]
        /\ Remaining(op'[o])[5] = Remaining(op[o])[5]
    BY <2>1 DEF Remaining, PagesLeft, Context
  <2>3. Remaining(op'[o])[6] < Remaining(op[o])[6]
    BY <2>1 DEF Remaining
  <2>4. Nearer(op'[o], op[o])
    BY <2>2, <2>3, NearerIs
  <2>. QED
    BY <2>1, <2>4 DEF Works, WorkOf, Login
<1>9. ASSUME ItemRead(o) PROVE Works(o)
  BY <1>0, <1>9, NextItemWorks DEF ItemRead
<1>10. ASSUME FormRead(o, FALSE) PROVE Works(o)
  BY <1>2, <1>10, EndIsIn DEF FormRead, Works
<1>11. ASSUME NEW yes \in BOOLEAN, Posted(o, yes) PROVE Works(o)
  <2>1. /\ op[o].at = "post" /\ op'[o].at = "item" /\ op[o].posted /\ op'[o].posted
        /\ op'[o].reused = op[o].reused /\ op'[o].left = op[o].left /\ op'[o].pc = "gate"
    BY <1>0, <1>1, <1>11 DEF Posted, Records, WorkOf
  <2>2. /\ Remaining(op'[o])[1] = Remaining(op[o])[1] /\ Remaining(op'[o])[2] = Remaining(op[o])[2]
        /\ Remaining(op'[o])[3] = Remaining(op[o])[3]
    BY <2>1 DEF Remaining, PagesLeft, Context
  <2>3. Remaining(op'[o])[4] < Remaining(op[o])[4]
    BY <2>1 DEF Remaining
  <2>4. Nearer(op'[o], op[o])
    BY <2>2, <2>3, NearerIs
  <2>. QED
    BY <2>1, <2>4 DEF Works, WorkOf, Login
<1>12. ASSUME Verified(o) PROVE Works(o)
  <2>. DEFINE out == IF param = o THEN "ok" ELSE "unconfirmed"
  <2>1. out \in Outcomes \ {"none", "stopped"}
    BY <1>2
  <2>2. op' = [Ended(o, out) EXCEPT ![o].heard = TRUE] /\ Release
    BY <1>12 DEF Verified
  <2>. HIDE DEF out
  <2>. QED
    BY <2>1, <2>2, EndIsIn DEF Works
<1>. QED
  BY <1>3, <1>4, <1>5, <1>6, <1>7, <1>8, <1>9, <1>10, <1>11, <1>12 DEF Answer

LEMMA SendWorks ==
    ASSUME IInv, WorkInv, NEW o \in Ops, Send(o)
    PROVE  Works(o) /\ \A p \in Ops \ {o} : op'[p] = op[p]
<1>1. op \in [Ops -> Records] /\ op[o] \in Records /\ WorkOf(op[o]) /\ op[o].pc = "gate"
  BY RecordIs DEF WorkInv, Send, Running
<1>2. /\ op'[o].at = op[o].at /\ op'[o].reused = op[o].reused /\ op'[o].left = op[o].left
      /\ op'[o].tries = op[o].tries /\ op'[o].pc = "sent"
      /\ op'[o].posted = (op[o].posted \/ op[o].at = "post")
      /\ \A p \in Ops \ {o} : op'[p] = op[p]
  BY <1>1 DEF Send, Records
<1>3. /\ Remaining(op'[o])[1] = Remaining(op[o])[1] /\ Remaining(op'[o])[2] = Remaining(op[o])[2]
      /\ Remaining(op'[o])[3] = Remaining(op[o])[3] /\ Remaining(op'[o])[5] = Remaining(op[o])[5]
      /\ Remaining(op'[o])[6] = Remaining(op[o])[6]
  BY <1>2 DEF Remaining
<1>4. Remaining(op'[o])[7] < Remaining(op[o])[7]
  BY <1>1, <1>2 DEF Remaining
<1>41. op[o].posted \in BOOLEAN
  BY <1>1 DEF Records
<1>42. WorkOf(op'[o])
  <2>1. op[o].at = "post" => op'[o].posted
    BY <1>2
  <2>. QED
    BY <1>1, <1>2, <2>1 DEF WorkOf
<1>5. CASE op[o].at = "post" /\ ~op[o].posted
  <2>1. op'[o].posted = TRUE
    BY <1>2, <1>5
  <2>2. Remaining(op'[o])[4] < Remaining(op[o])[4]
    BY <1>2, <1>5, <2>1 DEF Remaining
  <2>3. Nearer(op'[o], op[o])
    BY <1>3, <2>2, NearerIs
  <2>. QED
    BY <1>2, <1>42, <2>3 DEF Works
<1>6. CASE ~(op[o].at = "post" /\ ~op[o].posted)
  <2>1. op'[o].posted = op[o].posted
    BY <1>2, <1>41, <1>6
  <2>2. Remaining(op'[o])[4] = Remaining(op[o])[4]
    BY <1>2, <2>1 DEF Remaining
  <2>3. Nearer(op'[o], op[o])
    BY <1>3, <1>4, <2>2, NearerIs
  <2>. QED
    BY <1>2, <1>42, <2>3 DEF Works
<1>. QED BY <1>5, <1>6

(* Every step leaves the operations that run in sight of their end.        *)
LEMMA NextWorks ==
    ASSUME IInv, WorkInv, [Next]_vars
    PROVE  WorkInv' /\ ComesNearer
<1>0. op \in [Ops -> Records]
  BY DEF IInv, OpsOK
<1>1. ASSUME NEW o \in Ops, \A p \in Ops \ {o} : op'[p] = op[p], Works(o)
      PROVE  WorkInv' /\ ComesNearer
  BY <1>1 DEF WorkInv, Works, Running, WorkOf, ComesNearer
<1>2. ASSUME NEW o \in Ops, Begin(o) PROVE WorkInv' /\ ComesNearer
  <2>1. PICK r : /\ op' = [op EXCEPT ![o] = r] /\ r.pc \in {"gate", "over"}
                 /\ r.at \in Login => ~r.reused
    <3>. DEFINE Asked(reused) ==
                  [Idle EXCEPT !.pc = "gate", !.reused = reused, !.left = Items,
                               !.at = IF reused THEN "main" ELSE "loginPage"]
    <3>1. \A out : LET r == [Idle EXCEPT !.pc = "over", !.out = out]
                    IN r.pc = "over" /\ r.at \notin Login
      BY DEF Idle, Login
    <3>2. \A b \in BOOLEAN : /\ Asked(b).pc = "gate"
                            /\ Asked(b).at \in Login => ~Asked(b).reused
      BY DEF Idle, Login
    <3>3. Reusable(EntryOf[o]) \in BOOLEAN
      BY DEF Reusable
    <3>4. \/ op' = [op EXCEPT ![o] = [Idle EXCEPT !.pc = "over", !.out = "stopped"]]
          \/ op' = [op EXCEPT ![o] = [Idle EXCEPT !.pc = "over", !.out = "busy"]]
          \/ op' = [op EXCEPT ![o] = Asked(Reusable(EntryOf[o]))]
      BY <1>2 DEF Begin
    <3>5. CASE op' = [op EXCEPT ![o] = Asked(Reusable(EntryOf[o]))]
      <4>. DEFINE r == Asked(Reusable(EntryOf[o]))
      <4>1. op' = [op EXCEPT ![o] = r] /\ r.pc = "gate" /\ (r.at \in Login => ~r.reused)
        BY <3>2, <3>3, <3>5
      <4>. HIDE DEF r
      <4>. QED BY <4>1
    <3>6. ASSUME NEW out, op' = [op EXCEPT ![o] = [Idle EXCEPT !.pc = "over", !.out = out]]
          PROVE  \E r : /\ op' = [op EXCEPT ![o] = r] /\ r.pc \in {"gate", "over"}
                        /\ r.at \in Login => ~r.reused
      <4>. WITNESS [Idle EXCEPT !.pc = "over", !.out = out]
      <4>. QED BY <3>1, <3>6
    <3>. QED BY <3>4, <3>5, <3>6
  <2>2. ~Running(o) /\ op'[o] = r /\ \A p \in Ops \ {o} : op'[p] = op[p]
    BY <1>0, <1>2, <2>1 DEF Begin
  <2>. QED
    BY <2>1, <2>2 DEF WorkInv, WorkOf, Running, ComesNearer
<1>3. ASSUME NEW o \in Ops, CallerGoes(o) PROVE WorkInv' /\ ComesNearer
  <2>1. op'[o] = [op[o] EXCEPT !.awaited = FALSE] /\ \A p \in Ops \ {o} : op'[p] = op[p]
    BY <1>0, <1>3 DEF CallerGoes
  <2>2. /\ op'[o].pc = op[o].pc /\ op'[o].at = op[o].at
        /\ op'[o].reused = op[o].reused /\ op'[o].posted = op[o].posted
    BY <1>0, <2>1 DEF Records
  <2>. QED
    BY <2>1, <2>2 DEF WorkInv, WorkOf, ComesNearer
<1>4. ASSUME NEW o \in Ops, Stopped(o) \/ Paused(o) PROVE WorkInv' /\ ComesNearer
  <2>1. op'[o].pc = "over" /\ \A p \in Ops \ {o} : op'[p] = op[p]
    BY <1>4, ClosedGateIs
  <2>. QED
    BY <1>1, <2>1 DEF Works
<1>5. ASSUME NEW o \in Ops, Send(o) PROVE WorkInv' /\ ComesNearer
  BY <1>1, <1>5, SendWorks
<1>6. ASSUME NEW o \in Ops, Answer(o) PROVE WorkInv' /\ ComesNearer
  BY <1>1, <1>6, AnswersAreIn, AnswerWorks DEF AnswerIsIn
<1>7. CASE \/ \E e \in Entries : BeginUnload(e) \/ UnloadFails(e) \/ JarAges(e)
           \/ PollRefused \/ PauseEnds \/ SetElsewhere \/ UNCHANGED vars
  <2>1. op' = op
    BY <1>7 DEF BeginUnload, UnloadFails, JarAges, PollRefused, PauseEnds, SetElsewhere, vars
  <2>. QED BY <2>1 DEF WorkInv, Running, ComesNearer
<1>. QED
  BY <1>2, <1>3, <1>4, <1>5, <1>6, <1>7 DEF Next

(* An operation never comes back to where it has been: with each request   *)
(* and each answer it has less before it, in an order that has no endless  *)
(* descent.  What is left of OperationsEnd is that a thread goes on.       *)
THEOREM WorkRunsOut == Spec => NoWayBack
<1>1. Init => WorkInv
  BY IdleIs DEF Init, WorkInv, WorkOf, Idle
<1>2. IInv /\ WorkInv /\ [Next]_vars => WorkInv' /\ [ComesNearer]_vars
  BY NextWorks
<1>. QED
  BY <1>1, <1>2, Invariance, PTL DEF Spec, NoWayBack

-----------------------------------------------------------------------------
HIDE ExpertAssumption

(* The entry that works through these sessions: ExpertPoll.                *)

(* The result of the poll is on its way, or nobody waits for it any more.  *)
ResultDue == {"done", "aborted", "failed", "gone"}

WriteType == [pc : {"none", "running", "done"}, route : {"entity", "service"},
              out : {"verified", "refused", "failed"}, val : 0..MostChanges]
HistType == [unseen : 0..MostUnseen, refilled : BOOLEAN, unfair : BOOLEAN,
             known : 0..MostChanges]

PollTypes ==
    /\ PollTypeOK
    /\ poll = [pc |-> poll.pc, asked |-> poll.asked, got |-> poll.got,
               initial |-> poll.initial]
    /\ poll.asked \subseteq Ids /\ poll.initial \in BOOLEAN
    /\ DOMAIN poll.got \subseteq poll.asked \ Unreadable
    /\ \A i \in DOMAIN poll.got : poll.got[i] \in Nothing..MostChanges
    /\ write \in [Ids -> WriteType] /\ inbox \in Seq(Ids \cup {"poll"})
    /\ hist \in [Ids -> HistType]

(* The lock is of whoever runs; whoever has ended has one result waiting.  *)
Queued(who) == \E m \in 1..Len(inbox) : inbox[m] = who
Once == \A m, n \in 1..Len(inbox) : inbox[m] = inbox[n] => m = n

TakenInv ==
    /\ poll.pc \in {"reading", "orphan"} <=> expertLock = "poll"
    /\ \A i \in Ids : write[i].pc = "running" <=> expertLock = i
    /\ Once
    /\ poll.pc \in ResultDue <=> Queued("poll")
    /\ \A i \in Ids : write[i].pc = "done" <=> Queued(i)

(* One timer or one poll, and both only where an entity has started them.  *)
ChainInv ==
    /\ OneChain
    /\ poll.pc = "none" => ~poll.initial /\ DOMAIN poll.got = {}
    /\ poll.pc = "done" => Left = {}
    /\ life \in {"new", "armed"} => timers = 0 /\ poll.pc = "none"
    /\ life = "armed" => entities = {}
    /\ poll.pc \in {"orphan", "gone"} => life = "stopped"
    /\ life = "stopped" => unloading /\ entities = {} /\ waiting = {}

(* A report is of an entity that is there, has a full count and sits out.  *)
TallyInv ==
    /\ entities \cap waiting = {} /\ issues = notified /\ notified \subseteq entities
    /\ \A i \in Ids : /\ askedAt[i] # "never" => i \in notified
                      /\ fails[i] = FailsToReport => i \in notified
                      /\ ~hist[i].unfair

(* A value that was read or confirmed: every cycle since is in one of the  *)
(* two counts.                                                             *)
Stands(i) == i \in entities /\ shown[i] # Nothing /\ ~hist[i].refilled

CountedInv ==
    \A i \in Ids : Stands(i) =>
        /\ i \notin notified /\ dead < DeadCycles
        /\ hist[i].unseen <= fails[i] * DeadCycles + dead
        /\ poll.pc # "none" /\ i \notin poll.asked => hist[i].unseen = 0

(* What was read or refused is no older than what was confirmed before: a  *)
(* write that ended while the poll's result waits is applied after it.     *)
Ahead(i) ==
    \E m \in 1..Len(inbox) :
        inbox[m] = i /\ \A n \in 1..Len(inbox) : inbox[n] = "poll" => m < n

NewerInv ==
    \A i \in Ids :
        /\ hist[i].known <= change[i]
        /\ shown[i] # Nothing => shown[i] >= hist[i].known
        /\ write[i].pc = "done" => write[i].val >= hist[i].known /\ write[i].val <= change[i]
        /\ i \in DOMAIN poll.got /\ poll.got[i] # Nothing =>
              /\ poll.got[i] >= hist[i].known
              /\ Ahead(i) => poll.got[i] >= write[i].val

PollInv == PollTypes /\ TakenInv /\ ChainInv /\ TallyInv /\ CountedInv /\ NewerInv

LEMMA Given ==
    /\ Unreadable \subseteq Ids /\ "poll" \notin Ids /\ "free" \notin Ids
           /\ FailsToReport \in Nat /\ FailsToReport >= 1
           /\ DeadCycles \in Nat /\ DeadCycles >= 1
           /\ MostChanges \in Nat /\ MostUnseen \in Nat
           /\ Busy \notin Ids /\ Busy # "poll" /\ Busy # "free"
           /\ Nothing = -1 /\ Routes \subseteq {"entity", "service"}
BY PollAssumption DEF Nothing

LEMMA InitPoll == PollInit => PollInv
<1>. SUFFICES ASSUME PollInit PROVE PollInv
  OBVIOUS
<1>. USE Given
<1>1. PollTypes
  <2>1. shown \in [Ids -> Nothing..MostChanges] /\ fails \in [Ids -> 0..FailsToReport]
        /\ change \in [Ids -> 0..MostChanges]
        /\ askedAt \in [Ids -> {"never", "today", "yesterday"}]
    BY DEF PollInit
  <2>2. PollTypeOK
    <3>1. /\ dead \in 0..DeadCycles + 1 /\ timers \in 0..1 /\ poll.pc = "none"
          /\ entities \subseteq Ids /\ waiting \subseteq Ids /\ notified \subseteq Ids
          /\ issues \subseteq Ids
      BY DEF PollInit, NoPoll
    <3>2. life = "new" /\ unloading = FALSE /\ expertLock = "free"
      BY DEF PollInit
    <3>. QED BY <2>1, <3>1, <3>2 DEF PollTypeOK
  <2>3. write \in [Ids -> WriteType] /\ hist \in [Ids -> HistType]
    BY DEF PollInit, NoWrite, Fresh, WriteType, HistType
  <2>4. poll = NoPoll /\ inbox = << >> /\ DOMAIN << >> = {}
    BY DEF PollInit
  <2>. QED BY <2>2, <2>3, <2>4 DEF PollTypes, NoPoll
<1>2. TakenInv
  BY DEF PollInit, TakenInv, NoPoll, NoWrite, Once, Queued, ResultDue
<1>3. ChainInv
  BY DEF PollInit, ChainInv, OneChain, NoPoll
<1>4. TallyInv /\ CountedInv
  BY DEF PollInit, TallyInv, CountedInv, Stands, Fresh
<1>5. NewerInv
  <2>1. DOMAIN poll.got = {}
    BY DEF PollInit, NoPoll
  <2>. QED BY <2>1 DEF PollInit, NewerInv, Fresh, NoWrite
<1>. QED BY <1>1, <1>2, <1>3, <1>4, <1>5 DEF PollInv

-----------------------------------------------------------------------------
(* The inbox *)

LEMMA Appended ==
    ASSUME PollTypes, Once, NEW who \in Ids \cup {"poll"}, ~Queued(who),
           inbox' = Append(inbox, who)
    PROVE  /\ inbox' \in Seq(Ids \cup {"poll"}) /\ Once'
           /\ \A w : Queued(w)' <=> Queued(w) \/ w = who
           /\ \A w : w # who /\ Ahead(w)' => Ahead(w)
           /\ Ahead(who)' => ~Queued("poll")
<1>. DEFINE n == Len(inbox)
<1>1. /\ n \in Nat /\ Len(inbox') = n + 1 /\ inbox'[n + 1] = who
      /\ inbox' \in Seq(Ids \cup {"poll"}) /\ \A m \in 1..n : inbox'[m] = inbox[m]
  BY DEF PollTypes
<1>2. \A m \in 1..n : m \in 1..n + 1 /\ m # n + 1 /\ inbox[m] # who
  BY <1>1 DEF Queued
<1>3. \A m \in 1..n + 1 : m \in 1..n \/ m = n + 1
  BY <1>1
<1>4. n + 1 \in 1..n + 1
  BY <1>1
<1>. HIDE DEF n
<1>5. Once'
  <2>. SUFFICES ASSUME NEW k \in 1..n + 1, NEW m \in 1..n + 1, inbox'[k] = inbox'[m]
                PROVE  k = m
    BY <1>1 DEF Once
  <2>. QED BY <1>1, <1>2, <1>3 DEF Once, n
<1>6. \A w : Queued(w)' <=> Queued(w) \/ w = who
  BY <1>1, <1>2, <1>3, <1>4 DEF Queued, n
<1>7. ASSUME NEW w, w # who, Ahead(w)' PROVE Ahead(w)
  <2>1. PICK m \in 1..n + 1 :
           inbox'[m] = w /\ \A k \in 1..n + 1 : inbox'[k] = "poll" => m < k
    BY <1>1, <1>7 DEF Ahead
  <2>2. m \in 1..n /\ inbox[m] = w
    BY <1>1, <1>3, <1>7, <2>1
  <2>. QED BY <1>1, <1>2, <2>1, <2>2 DEF Ahead, n
<1>8. ASSUME Ahead(who)' PROVE ~Queued("poll")
  <2>1. PICK m \in 1..n + 1 :
           inbox'[m] = who /\ \A k \in 1..n + 1 : inbox'[k] = "poll" => m < k
    BY <1>1, <1>8 DEF Ahead
  <2>2. m = n + 1
    BY <1>1, <1>2, <1>3, <2>1
  <2>. SUFFICES ASSUME NEW k \in 1..n, inbox[k] = "poll" PROVE FALSE
    BY DEF Queued, n
  <2>3. n + 1 < k
    BY <1>1, <1>2, <2>1, <2>2
  <2>. QED BY <1>1, <2>3
<1>. QED BY <1>1, <1>5, <1>6, <1>7, <1>8

LEMMA Delivered ==
    ASSUME PollTypes, Once, NEW who, Arrives(who)
    PROVE  /\ inbox' \in Seq(Ids \cup {"poll"}) /\ Once' /\ Queued(who)
           /\ \A w : Queued(w)' <=> Queued(w) /\ w # who
           /\ who # "poll" => Ahead(who) /\ \A w : Ahead(w)' => Ahead(w)
<1>. DEFINE n == Len(inbox)
<1>1. /\ n \in Nat /\ n >= 1 /\ inbox[1] = who /\ Len(inbox') = n - 1
      /\ inbox' \in Seq(Ids \cup {"poll"})
      /\ \A m \in 1..n - 1 : inbox'[m] = inbox[m + 1]
  BY DEF PollTypes, Arrives
<1>2. \A m \in 1..n - 1 : m + 1 \in 1..n /\ m + 1 # 1 /\ m \in Nat
  BY <1>1
<1>3. \A m \in 1..n : m = 1 \/ (m - 1 \in 1..n - 1 /\ m = (m - 1) + 1 /\ m > 1)
  BY <1>1
<1>4. 1 \in 1..n
  BY <1>1
<1>5. \A m \in 2..n : inbox[m] # who
  BY <1>1, <1>4 DEF Once
<1>. HIDE DEF n
<1>6. Once'
  <2>. SUFFICES ASSUME NEW k \in 1..n - 1, NEW m \in 1..n - 1, inbox'[k] = inbox'[m]
                PROVE  k = m
    BY <1>1 DEF Once
  <2>1. k + 1 = m + 1
    BY <1>1, <1>2 DEF Once, n
  <2>. QED BY <1>2, <2>1
<1>7. ASSUME NEW w PROVE Queued(w)' <=> Queued(w) /\ w # who
  <2>1. ASSUME Queued(w)' PROVE Queued(w) /\ w # who
    <3>1. PICK m \in 1..n - 1 : inbox'[m] = w
      BY <1>1, <2>1 DEF Queued
    <3>2. inbox[m + 1] = w /\ m + 1 \in 1..n /\ m + 1 \in 2..n
      BY <1>1, <1>2, <3>1
    <3>. QED BY <1>5, <3>2 DEF Queued, n
  <2>2. ASSUME Queued(w), w # who PROVE Queued(w)'
    <3>1. PICK m \in 1..n : inbox[m] = w
      BY <2>2 DEF Queued, n
    <3>2. m - 1 \in 1..n - 1 /\ inbox'[m - 1] = w
      BY <1>1, <1>3, <2>2, <3>1
    <3>. QED BY <1>1, <3>2 DEF Queued
  <2>. QED BY <2>1, <2>2
<1>8. ASSUME who # "poll" PROVE Ahead(who)
  <2>. SUFFICES ASSUME NEW k \in 1..n, inbox[k] = "poll" PROVE 1 < k
    BY <1>1, <1>4 DEF Ahead, n
  <2>. QED BY <1>1, <1>3, <1>8
<1>9. ASSUME who # "poll", NEW w, Ahead(w)' PROVE Ahead(w)
  <2>1. PICK m \in 1..n - 1 :
           inbox'[m] = w /\ \A k \in 1..n - 1 : inbox'[k] = "poll" => m < k
    BY <1>1, <1>9 DEF Ahead
  <2>2. m + 1 \in 1..n /\ inbox[m + 1] = w
    BY <1>1, <1>2, <2>1
  <2>3. ASSUME NEW k \in 1..n, inbox[k] = "poll" PROVE m + 1 < k
    <3>1. k - 1 \in 1..n - 1 /\ inbox'[k - 1] = "poll"
      BY <1>1, <1>3, <1>9, <2>3
    <3>2. m < k - 1
      BY <2>1, <3>1
    <3>. QED BY <1>2, <1>3, <3>1, <3>2
  <2>. QED BY <2>2, <2>3 DEF Ahead, n
<1>. QED BY <1>1, <1>4, <1>6, <1>7, <1>8, <1>9 DEF Queued, n

-----------------------------------------------------------------------------
(* The steps *)

ThatWrites(i) ==
    \/ \E out \in {"verified", "refused", "failed"}, made \in BOOLEAN : WriteEnds(i, out, made)
    \/ WriteShown(i)
    \/ \E route \in Routes : BeginWrite(i, route)

LEMMA StepsAre ==
    [PollNext]_pollVars =>
        \/ SetUp \/ UnloadBegins \/ UnloadIsRefused \/ Stop \/ PollBegins \/ Resume
        \/ ResumeNobody \/ OthersTake \/ OthersDone \/ UNCHANGED pollVars
        \/ \E how \in {"done", "aborted", "failed"} : WorkerEnds(how)
        \/ \E i \in Ids : \/ ReadId(i) \/ Attach(i) \/ Detach(i) \/ Rename(i)
                          \/ ThatWrites(i) \/ DayPasses(i)
BY Zenon DEF PollNext, PollSteps, WriteSteps, ThatWrites

(* Who was asked and is there: heard, or missed.                           *)
Present == poll.asked \cap entities
Heard == Present \cap Answered
Missed == {i \in Present : \/ i \notin DOMAIN poll.got
                           \/ i \notin Answered /\ ~WholeBatch}
Told == {i \in Missed \ notified : fails[i] + 1 >= FailsToReport}

(* What a cycle leaves behind: three ways it can end.                      *)
LEMMA ResumeIs ==
    ASSUME Resume
    PROVE  /\ Arrives("poll") /\ poll' = NoPoll
           /\ timers' = IF life = "stopped" THEN 0 ELSE 1
           /\ UNCHANGED <<entities, waiting, life, unloading, expertLock, write, change>>
           /\ \/ poll.pc = "done" /\ ApplyRead
              \/ poll.pc = "failed" /\ DeadCycle
              \/ UNCHANGED <<shown, fails, notified, issues, askedAt, dead, hist>>
<1>1. CASE poll.pc = "done"
  BY <1>1 DEF Resume, Reschedule, Wiring
<1>2. CASE poll.pc = "failed"
  BY <1>2 DEF Resume, Reschedule, Wiring
<1>3. CASE poll.pc \notin {"done", "failed"}
  BY <1>3 DEF Resume, Reschedule, Wiring, Tally
<1>. QED BY <1>1, <1>2, <1>3

LEMMA ReadApplied ==
    ASSUME PollTypes, TallyInv, ApplyRead
    PROVE  /\ fails' \in [Ids -> 0..FailsToReport]
           /\ askedAt' \in [Ids -> {"never", "today", "yesterday"}]
           /\ notified' = (notified \ Heard) \cup Told
           /\ issues' = (issues \ (Heard \cap notified)) \cup Told
           /\ dead' = IF Answered # {} THEN 0
                      ELSE IF WholeBatch THEN More(dead) ELSE dead
           /\ shown' \in [Ids -> Nothing..MostChanges]
           /\ hist' \in [Ids -> HistType]
           /\ \A i \in Heard :
                 /\ fails'[i] = 0 /\ askedAt'[i] = "never"
                 /\ hist'[i].unseen = 0 /\ ~hist'[i].unfair
                 /\ hist'[i].refilled = (hist[i].refilled /\ i \in Writing)
                 /\ shown'[i] = IF i \in Writing THEN shown[i] ELSE poll.got[i]
           /\ \A i \in Missed :
                 /\ fails'[i] = AtMost(fails[i] + 1, FailsToReport)
                 /\ askedAt'[i] # "never" => i \in Told \/ askedAt[i] # "never"
           /\ \A i \in Ids \ (Heard \cup Missed) :
                 fails'[i] = fails[i] /\ (askedAt'[i] # "never" => askedAt[i] # "never")
           /\ \A i \in Present \ Heard :
                 /\ hist'[i].unseen = AtMost(hist[i].unseen + 1, MostUnseen)
                 /\ hist'[i].unfair = \/ hist[i].unfair
                                      \/ /\ i \in Missed \ Unreadable
                                         /\ Answered = {} /\ entities # {i}
                 /\ hist'[i].refilled = hist[i].refilled
           /\ \A i \in Ids \ Present : hist'[i] = hist[i]
           /\ \A i \in Ids : hist'[i].known = hist[i].known
           /\ \A i \in Ids \ Heard :
                 shown'[i] = IF \/ i \in Told
                                \/ /\ WholeBatch /\ dead + 1 = DeadCycles
                                   /\ i \in entities
                             THEN Nothing ELSE shown[i]
<1>. USE Given
<1>1. /\ entities \subseteq Ids /\ fails \in [Ids -> 0..FailsToReport]
      /\ askedAt \in [Ids -> {"never", "today", "yesterday"}]
      /\ shown \in [Ids -> Nothing..MostChanges]
      /\ hist \in [Ids -> HistType] /\ poll.asked \subseteq Ids
      /\ \A i \in DOMAIN poll.got : poll.got[i] \in Nothing..MostChanges
  BY DEF PollTypes, PollTypeOK
<1>2. Heard \cap Missed = {} /\ Heard \subseteq Ids /\ Missed \subseteq Ids /\ Told \subseteq Missed
      /\ Heard \subseteq Present /\ Missed \subseteq Present /\ Present \subseteq Ids
      /\ Heard \subseteq DOMAIN poll.got
  BY <1>1 DEF Heard, Missed, Told, Present, Answered
<1>3. Counted(Missed, Heard)
  BY Zenon DEF ApplyRead, Missed, Heard, Present
<1>4. dead' = IF Answered # {} THEN 0
              ELSE IF WholeBatch THEN More(dead) ELSE dead
  BY Zenon DEF ApplyRead
<1>5. shown' = [i \in Ids |->
                  IF i \in Heard \ Writing THEN poll.got[i]
                  ELSE IF i \in Told \cup (IF WholeBatch /\ dead + 1 = DeadCycles
                                           THEN entities ELSE {})
                       THEN Nothing ELSE shown[i]]
  BY Zenon DEF ApplyRead, Missed, Heard, Present, Told
<1>6. hist' = [i \in Ids |->
          IF i \in Heard
          THEN [Fresh EXCEPT !.known = hist[i].known,
                               !.refilled = hist[i].refilled /\ i \notin Heard \ Writing]
          ELSE IF i \in Present
          THEN [hist[i] EXCEPT !.unseen = AtMost(@ + 1, MostUnseen),
                               !.unfair = @ \/ /\ i \in Missed \ Unreadable
                                               /\ Answered = {} /\ entities # {i}]
          ELSE hist[i]]
  BY Zenon DEF ApplyRead, Missed, Heard, Present
<1>7. fails' = [i \in Ids |-> IF i \in Heard THEN 0
                              ELSE IF i \in Missed THEN AtMost(fails[i] + 1, FailsToReport)
                              ELSE fails[i]]
  BY <1>3 DEF Counted
<1>8. \A i \in Missed \ notified : fails'[i] = FailsToReport <=> fails[i] + 1 >= FailsToReport
  BY <1>1, <1>2, <1>7 DEF AtMost
<1>9. Told = {i \in Missed \ notified : fails'[i] = FailsToReport}
  BY <1>8 DEF Told
<1>10. /\ notified' = (notified \ Heard) \cup Told
       /\ issues' = (issues \ (Heard \cap notified)) \cup Told
       /\ askedAt' = [i \in Ids |-> IF i \in Heard THEN "never"
                                    ELSE IF i \in Told \cup Tried THEN "today" ELSE askedAt[i]]
  BY <1>3, <1>9, Zenon DEF Counted
<1>. HIDE Given
<1>11. fails' \in [Ids -> 0..FailsToReport]
  BY <1>1, <1>2, <1>7, Given DEF AtMost
<1>12. askedAt' \in [Ids -> {"never", "today", "yesterday"}]
  BY <1>1, <1>10
<1>13. shown' \in [Ids -> Nothing..MostChanges]
  BY <1>1, <1>2, <1>5, Given
<1>14. \A i \in Ids : hist[i].unseen \in 0..MostUnseen
  BY <1>1 DEF HistType
<1>15. \A i \in Ids : AtMost(hist[i].unseen + 1, MostUnseen) \in 0..MostUnseen
  BY <1>14, Given DEF AtMost
<1>. DEFINE unjust(i) == \/ hist[i].unfair
                        \/ /\ i \in Missed \ Unreadable
                           /\ Answered = {} /\ entities # {i}
<1>16. ASSUME NEW i \in Ids
       PROVE  hist[i] = [unseen |-> hist[i].unseen, refilled |-> hist[i].refilled,
                         unfair |-> hist[i].unfair, known |-> hist[i].known]
  BY <1>1 DEF HistType
<1>17. ASSUME NEW i \in Heard
       PROVE  hist'[i] = [unseen |-> 0, refilled |-> hist[i].refilled /\ i \in Writing,
                          unfair |-> FALSE, known |-> hist[i].known]
  <2>1. i \in Ids /\ (i \notin Heard \ Writing <=> i \in Writing)
    BY <1>2
  <2>. QED BY <1>6, <2>1 DEF Fresh
<1>18. ASSUME NEW i \in Present \ Heard
       PROVE  hist'[i] = [unseen |-> AtMost(hist[i].unseen + 1, MostUnseen),
                          refilled |-> hist[i].refilled,
                          unfair |-> unjust(i), known |-> hist[i].known]
  <2>1. i \in Ids /\ hist'[i] = [hist[i] EXCEPT !.unseen = AtMost(@ + 1, MostUnseen),
                                               !.unfair = unjust(i)]
    BY <1>2, <1>6
  <2>. QED BY <1>16, <2>1
<1>19. \A i \in Ids \ Present : hist'[i] = hist[i]
  BY <1>2, <1>6
<1>20. ASSUME NEW i \in Heard
       PROVE  /\ hist'[i] \in HistType /\ hist'[i].known = hist[i].known
              /\ hist'[i].unseen = 0 /\ ~hist'[i].unfair
              /\ hist'[i].refilled = (hist[i].refilled /\ i \in Writing)
  <2>1. hist[i] \in HistType
    BY <1>1, <1>2
  <2>2. PICK b \in BOOLEAN : b = (hist[i].refilled /\ i \in Writing)
    OBVIOUS
  <2>3. hist'[i] = [unseen |-> 0, refilled |-> b, unfair |-> FALSE, known |-> hist[i].known]
    BY <1>17, <2>2
  <2>4. hist[i].known \in 0..MostChanges
    BY <2>1 DEF HistType
  <2>5. hist'[i] \in HistType /\ hist'[i].known = hist[i].known
        /\ hist'[i].unseen = 0 /\ ~hist'[i].unfair /\ hist'[i].refilled = b
    BY <2>3, <2>4, Given DEF HistType
  <2>. QED BY <2>2, <2>5
<1>25. ASSUME NEW i \in Present \ Heard
       PROVE  /\ hist'[i] \in HistType /\ hist'[i].known = hist[i].known
              /\ hist'[i].unseen = AtMost(hist[i].unseen + 1, MostUnseen)
              /\ hist'[i].unfair = unjust(i)
              /\ hist'[i].refilled = hist[i].refilled
  <2>1. hist[i] \in HistType /\ i \in Ids
    BY <1>1, <1>2
  <2>2. PICK b \in BOOLEAN : b = unjust(i)
    OBVIOUS
  <2>3. hist'[i] = [unseen |-> AtMost(hist[i].unseen + 1, MostUnseen),
                    refilled |-> hist[i].refilled, unfair |-> b, known |-> hist[i].known]
    BY <1>18, <2>2
  <2>. HIDE DEF unjust
  <2>4. /\ hist[i].known \in 0..MostChanges /\ hist[i].refilled \in BOOLEAN
        /\ AtMost(hist[i].unseen + 1, MostUnseen) \in 0..MostUnseen
    BY <1>15, <2>1 DEF HistType
  <2>5. /\ hist'[i] \in HistType /\ hist'[i].known = hist[i].known
        /\ hist'[i].unseen = AtMost(hist[i].unseen + 1, MostUnseen)
        /\ hist'[i].unfair = b /\ hist'[i].refilled = hist[i].refilled
    BY <2>3, <2>4, Given DEF HistType
  <2>. QED BY <2>2, <2>5
<1>28. hist' \in [Ids -> HistType]
  <2>1. \A i \in Ids : hist'[i] \in HistType
    BY <1>1, <1>19, <1>20, <1>25
  <2>. QED BY <1>6, <2>1
<1>29. \A i \in Ids : hist'[i].known = hist[i].known
  BY <1>2, <1>19, <1>20, <1>25
<1>21. /\ \A i \in Heard : askedAt'[i] = "never"
       /\ \A i \in Missed : askedAt'[i] # "never" => i \in Told \/ askedAt[i] # "never"
       /\ \A i \in Ids \ (Heard \cup Missed) : askedAt'[i] # "never" => askedAt[i] # "never"
  BY <1>1, <1>2, <1>10 DEF Tried
<1>22. /\ \A i \in Heard : fails'[i] = 0
       /\ \A i \in Missed : fails'[i] = AtMost(fails[i] + 1, FailsToReport)
       /\ \A i \in Ids \ (Heard \cup Missed) : fails'[i] = fails[i]
  BY <1>2, <1>7
<1>23. \A i \in Heard : shown'[i] = IF i \in Writing THEN shown[i] ELSE poll.got[i]
  <2>. SUFFICES ASSUME NEW i \in Heard
                PROVE  shown'[i] = IF i \in Writing THEN shown[i] ELSE poll.got[i]
    OBVIOUS
  <2>1. i \in Ids /\ i \notin Told /\ Answered # {} /\ ~WholeBatch
    BY <1>2 DEF Heard, WholeBatch
  <2>. QED BY <1>5, <2>1
<1>24. \A i \in Ids \ Heard :
                 shown'[i] = IF \/ i \in Told
                                \/ /\ WholeBatch /\ dead + 1 = DeadCycles
                                   /\ i \in entities
                             THEN Nothing ELSE shown[i]
  BY <1>5
<1>. HIDE DEF unjust
<1>26. \A i \in Heard :
          /\ hist'[i].unseen = 0 /\ ~hist'[i].unfair
          /\ hist'[i].refilled = (hist[i].refilled /\ i \in Writing)
  BY <1>20, Zenon
<1>27. \A i \in Present \ Heard :
          /\ hist'[i].unseen = AtMost(hist[i].unseen + 1, MostUnseen)
          /\ hist'[i].unfair = unjust(i)
          /\ hist'[i].refilled = hist[i].refilled
  BY <1>25, Zenon
<1>. USE DEF unjust
<1>. QED
  BY <1>4, <1>10, <1>11, <1>12, <1>13, <1>19, <1>29, <1>21, <1>22, <1>23, <1>24, <1>28,
     <1>26, <1>27

(* A write's result: confirmed, refused at the entity, or of no use.       *)
Confirms(i) ==
    /\ i \in entities /\ write[i].out = "verified"
    /\ fails' = [fails EXCEPT ![i] = 0] /\ askedAt' = [askedAt EXCEPT ![i] = "never"]
    /\ notified' = notified \ {i} /\ issues' = issues \ ({i} \cap notified) /\ dead' = 0
    /\ shown' = [shown EXCEPT ![i] = write[i].val]
    /\ hist' \in [Ids -> HistType]
    /\ hist'[i].known = write[i].val
    /\ \A j \in Ids : hist'[j].unseen = 0 /\ (hist'[j].unfair => hist[j].unfair)
    /\ \A j \in Ids \ {i} :
          hist'[j].known = hist[j].known /\ hist'[j].refilled = hist[j].refilled

Refuses(i) ==
    /\ UNCHANGED <<fails, notified, issues, askedAt, dead>>
    /\ shown' = [shown EXCEPT ![i] = write[i].val]
    /\ hist' \in [Ids -> HistType]
    /\ hist'[i].known = hist[i].known /\ hist'[i].refilled
    /\ hist'[i].unfair => hist[i].unfair
    /\ \A j \in Ids \ {i} : hist'[j] = hist[j]

LEMMA WriteApplied ==
    ASSUME PollTypes, NEW i \in Ids, WriteShown(i)
    PROVE  /\ Arrives(i) /\ write' = [write EXCEPT ![i] = NoWrite]
           /\ UNCHANGED <<entities, waiting, life, unloading, timers, poll, expertLock, change>>
           /\ \/ Confirms(i) \/ Refuses(i)
              \/ UNCHANGED <<shown, fails, notified, issues, askedAt, dead, hist>>
<1>. DEFINE good == write[i].out = "verified"
            bad == write[i].out = "refused"
<1>1. Arrives(i) /\ write' = [write EXCEPT ![i] = NoWrite]
      /\ UNCHANGED <<entities, waiting, life, unloading, timers, poll, expertLock, change>>
  BY DEF WriteShown, Wiring, Chain
<1>2. /\ write[i].val \in 0..MostChanges /\ 0 \in 0..MostUnseen /\ hist \in [Ids -> HistType]
      /\ \A j \in Ids : hist[j] = [unseen |-> hist[j].unseen, refilled |-> hist[j].refilled,
                                   unfair |-> hist[j].unfair, known |-> hist[j].known]
      /\ \A j \in Ids : /\ hist[j].unseen \in 0..MostUnseen /\ hist[j].refilled \in BOOLEAN
                        /\ hist[j].unfair \in BOOLEAN /\ hist[j].known \in 0..MostChanges
  BY SMTT(40), Given DEF PollTypes, WriteType, HistType
<1>3. CASE i \in entities /\ good
  <2>1. /\ fails' = [fails EXCEPT ![i] = 0] /\ askedAt' = [askedAt EXCEPT ![i] = "never"]
        /\ notified' = notified \ {i} /\ issues' = issues \ ({i} \cap notified) /\ dead' = 0
        /\ shown' = [shown EXCEPT ![i] = write[i].val]
    BY <1>3 DEF WriteShown
  <2>2. hist' = [j \in Ids |->
                  IF j = i
                  THEN [unseen |-> 0, refilled |-> FALSE, unfair |-> FALSE,
                        known |-> write[i].val]
                  ELSE [hist[j] EXCEPT !.unseen = 0]]
    <3>1. hist' = [j \in Ids |->
                  IF j = i
                  THEN [unseen |-> 0, refilled |-> bad,
                        unfair |-> hist[j].unfair /\ bad,
                        known |-> IF good THEN write[i].val ELSE hist[j].known]
                  ELSE IF good THEN [hist[j] EXCEPT !.unseen = 0] ELSE hist[j]]
      BY <1>3 DEF WriteShown
    <3>2. bad = FALSE /\ good = TRUE
      BY <1>3
    <3>. QED BY <3>1, <3>2
  <2>3. hist'[i] = [unseen |-> 0, refilled |-> FALSE, unfair |-> FALSE, known |-> write[i].val]
    BY <2>2
  <2>4. ASSUME NEW j \in Ids \ {i}
        PROVE  hist'[j] = [unseen |-> 0, refilled |-> hist[j].refilled,
                           unfair |-> hist[j].unfair, known |-> hist[j].known]
    <3>1. hist'[j] = [hist[j] EXCEPT !.unseen = 0]
      BY <2>2
    <3>. QED BY <1>2, <3>1
  <2>5. hist'[i] \in HistType /\ hist'[i].known = write[i].val
        /\ hist'[i].unseen = 0 /\ ~hist'[i].unfair
    BY <1>2, <2>3 DEF HistType
  <2>6. ASSUME NEW j \in Ids \ {i}
        PROVE  /\ hist'[j] \in HistType /\ hist'[j].unseen = 0
               /\ hist'[j].known = hist[j].known /\ hist'[j].refilled = hist[j].refilled
               /\ hist'[j].unfair = hist[j].unfair
    <3>1. hist'[j] = [unseen |-> 0, refilled |-> hist[j].refilled,
                      unfair |-> hist[j].unfair, known |-> hist[j].known]
      BY <2>4
    <3>2. hist[j].refilled \in BOOLEAN /\ hist[j].unfair \in BOOLEAN
          /\ hist[j].known \in 0..MostChanges /\ 0 \in 0..MostUnseen
      BY <1>2
    <3>. QED BY <3>1, <3>2 DEF HistType
  <2>7. hist' \in [Ids -> HistType]
    <3>1. \A j \in Ids : hist'[j] \in HistType
      BY <2>5, <2>6
    <3>. QED BY <2>2, <3>1
  <2>8. \A j \in Ids : hist'[j].unseen = 0 /\ (hist'[j].unfair => hist[j].unfair)
    BY <2>5, <2>6
  <2>. QED BY <1>1, <1>3, <2>1, <2>5, <2>6, <2>7, <2>8 DEF Confirms
<1>4. CASE i \in entities /\ bad /\ write[i].route = "entity"
  <2>0. ~good
    BY <1>4
  <2>1. UNCHANGED <<fails, notified, issues, askedAt, dead>>
        /\ shown' = [shown EXCEPT ![i] = write[i].val]
    BY <1>4, <2>0 DEF WriteShown, Tally
  <2>2. hist' = [j \in Ids |->
                  IF j = i
                  THEN [unseen |-> 0, refilled |-> TRUE, unfair |-> hist[j].unfair,
                        known |-> hist[j].known]
                  ELSE hist[j]]
    <3>1. hist' = [j \in Ids |->
                  IF j = i
                  THEN [unseen |-> 0, refilled |-> bad,
                        unfair |-> hist[j].unfair /\ bad,
                        known |-> IF good THEN write[i].val ELSE hist[j].known]
                  ELSE IF good THEN [hist[j] EXCEPT !.unseen = 0] ELSE hist[j]]
      BY <1>4 DEF WriteShown
    <3>2. bad = TRUE /\ good = FALSE
      BY <1>4, <2>0
    <3>3. \A j \in Ids : (hist[j].unfair /\ TRUE) = hist[j].unfair
      BY <1>2
    <3>. QED BY <3>1, <3>2, <3>3
  <2>3. hist'[i] = [unseen |-> 0, refilled |-> TRUE, unfair |-> hist[i].unfair,
                    known |-> hist[i].known]
    BY <2>2
  <2>4. \A j \in Ids \ {i} : hist'[j] = hist[j]
    BY <2>2
  <2>5. hist'[i] \in HistType /\ hist'[i].known = hist[i].known
        /\ hist'[i].refilled /\ hist'[i].unfair = hist[i].unfair
    BY <1>2, <2>3 DEF HistType
  <2>6. hist' \in [Ids -> HistType]
    <3>1. \A j \in Ids : hist'[j] \in HistType
      BY <1>2, <2>4, <2>5
    <3>. QED BY <2>2, <3>1
  <2>. QED BY <1>1, <2>1, <2>4, <2>5, <2>6 DEF Refuses
<1>5. CASE ~(i \in entities /\ good) /\ ~(i \in entities /\ bad /\ write[i].route = "entity")
  BY <1>1, <1>5 DEF WriteShown, Tally
<1>. QED BY <1>3, <1>4, <1>5

-----------------------------------------------------------------------------
(* The types *)

LEMMA ResumeTypes == ASSUME PollInv, Resume PROVE PollTypes'
<1>1. /\ Arrives("poll") /\ poll' = NoPoll /\ timers' \in 0..1
      /\ UNCHANGED <<entities, waiting, life, unloading, expertLock, write, change>>
  BY ResumeIs
<1>2. /\ fails' \in [Ids -> 0..FailsToReport] /\ notified' \subseteq Ids
      /\ issues' \subseteq Ids /\ askedAt' \in [Ids -> {"never", "today", "yesterday"}]
      /\ dead' \in 0..(DeadCycles + 1) /\ shown' \in [Ids -> Nothing..MostChanges]
      /\ hist' \in [Ids -> HistType]
  <2>1. CASE ApplyRead
    <3>1. /\ notified' = (notified \ Heard) \cup Told
          /\ issues' = (issues \ (Heard \cap notified)) \cup Told
          /\ dead' = IF Answered # {} THEN 0
                     ELSE IF WholeBatch THEN More(dead) ELSE dead
      BY <2>1, ReadApplied DEF PollInv
    <3>2. Told \subseteq Ids
      BY DEF Told, Missed, Present, PollInv, PollTypes
    <3>3. notified' \subseteq Ids /\ issues' \subseteq Ids
      BY <3>1, <3>2 DEF PollInv, PollTypes, PollTypeOK
    <3>4. dead' \in 0..(DeadCycles + 1)
      BY SMTT(40), <3>1, Given DEF PollInv, PollTypes, PollTypeOK, More, AtMost
    <3>. QED BY <2>1, <3>3, <3>4, ReadApplied DEF PollInv
  <2>2. CASE DeadCycle
    <3>1. hist' \in [Ids -> HistType]
      <4>1. hist' = [i \in Ids |-> IF i \in entities
              THEN [hist[i] EXCEPT !.unseen = AtMost(@ + 1, MostUnseen)] ELSE hist[i]]
        BY <2>2 DEF DeadCycle, Unseen
      <4>2. \A i \in Ids : AtMost(hist[i].unseen + 1, MostUnseen) \in 0..MostUnseen
        BY Given DEF PollInv, PollTypes, HistType, AtMost
      <4>3. \A i \in Ids : hist'[i] \in HistType
        BY ZenonT(60), <4>1, <4>2 DEF PollInv, PollTypes, HistType
      <4>. QED BY <4>1, <4>3
    <3>2. dead' \in 0..(DeadCycles + 1)
      BY SMTT(40), <2>2, Given DEF DeadCycle, PollInv, PollTypes, PollTypeOK, More, AtMost
    <3>3. shown' \in [Ids -> Nothing..MostChanges]
      <4>1. shown' = [i \in Ids |-> IF i \in entities /\ dead + 1 = DeadCycles
                                    THEN Nothing ELSE shown[i]]
        BY <2>2 DEF DeadCycle
      <4>2. shown \in [Ids -> Nothing..MostChanges] /\ Nothing \in Nothing..MostChanges
        BY SMTT(40), Given DEF PollInv, PollTypes, PollTypeOK
      <4>. QED BY <4>1, <4>2
    <3>. QED BY <2>2, <3>1, <3>2, <3>3 DEF DeadCycle, PollInv, PollTypes, PollTypeOK
  <2>3. CASE UNCHANGED <<shown, fails, notified, issues, askedAt, dead, hist>>
    BY <2>3 DEF PollInv, PollTypes, PollTypeOK
  <2>. QED BY <2>1, <2>2, <2>3, ResumeIs
<1>3. inbox' \in Seq(Ids \cup {"poll"})
  BY <1>1, Delivered DEF PollInv, TakenInv
<1>4. PollTypeOK'
  BY <1>1, <1>2 DEF PollInv, PollTypes, PollTypeOK, NoPoll
<1>. QED BY <1>1, <1>2, <1>3, <1>4 DEF PollInv, PollTypes, NoPoll

LEMMA WriteTypes == ASSUME PollInv, NEW i \in Ids, ThatWrites(i) PROVE PollTypes'
<1>1. CASE WriteShown(i)
  <2>1. /\ Arrives(i) /\ write' = [write EXCEPT ![i] = NoWrite]
        /\ UNCHANGED <<entities, waiting, life, unloading, timers, poll, expertLock, change>>
    BY <1>1, WriteApplied DEF PollInv
  <2>2. inbox' \in Seq(Ids \cup {"poll"}) /\ write' \in [Ids -> WriteType]
    BY <2>1, Delivered, Given DEF PollInv, TakenInv, PollTypes, WriteType, NoWrite
  <2>3. write[i].val \in Nothing..MostChanges
    BY Given DEF PollInv, PollTypes, WriteType
  <2>4. CASE Confirms(i)
    <3>1. /\ fails' \in [Ids -> 0..FailsToReport] /\ dead' \in 0..(DeadCycles + 1)
          /\ askedAt' \in [Ids -> {"never", "today", "yesterday"}]
          /\ shown' \in [Ids -> Nothing..MostChanges] /\ hist' \in [Ids -> HistType]
          /\ notified' \subseteq Ids /\ issues' \subseteq Ids
      BY SMTT(40), <2>3, <2>4, Given DEF Confirms, PollInv, PollTypes, PollTypeOK
    <3>. QED BY ZenonT(60), <2>1, <2>2, <3>1 DEF PollInv, PollTypes, PollTypeOK
  <2>5. CASE Refuses(i)
    <3>1. shown' \in [Ids -> Nothing..MostChanges] /\ hist' \in [Ids -> HistType]
      BY <2>3, <2>5 DEF Refuses, PollInv, PollTypes, PollTypeOK
    <3>. QED BY <2>1, <2>2, <2>5, <3>1 DEF Refuses, PollInv, PollTypes, PollTypeOK
  <2>6. CASE UNCHANGED <<shown, fails, notified, issues, askedAt, dead, hist>>
    BY <2>1, <2>2, <2>6 DEF PollInv, PollTypes, PollTypeOK
  <2>. QED BY <1>1, <2>4, <2>5, <2>6, WriteApplied DEF PollInv
<1>2. ASSUME NEW out \in {"verified", "refused", "failed"}, NEW made \in BOOLEAN,
             WriteEnds(i, out, made)
      PROVE  PollTypes'
  <2>1. /\ UNCHANGED <<entities, waiting, life, unloading, timers, poll>>
        /\ UNCHANGED <<shown, fails, notified, issues, askedAt, dead, hist>>
        /\ inbox' = Append(inbox, i) /\ expertLock' = "free"
    BY <1>2 DEF WriteEnds, Wiring, Tally, Chain
  <2>2. change' \in [Ids -> 0..MostChanges]
    BY SMTT(40), <1>2, Given DEF WriteEnds, PollInv, PollTypes, PollTypeOK
  <2>3. write' \in [Ids -> WriteType]
    <3>1. write' = [write EXCEPT ![i].pc = "done", ![i].out = out, ![i].val = change'[i]]
      BY <1>2 DEF WriteEnds
    <3>2. write'[i] = [pc |-> "done", route |-> write[i].route, out |-> out, val |-> change'[i]]
      <4>1. write[i] = [pc |-> write[i].pc, route |-> write[i].route, out |-> write[i].out,
                        val |-> write[i].val]
        BY DEF PollInv, PollTypes, WriteType
      <4>2. write \in [Ids -> WriteType]
        BY DEF PollInv, PollTypes
      <4>3. write'[i] = [[[write[i] EXCEPT !.pc = "done"] EXCEPT !.out = out]
                           EXCEPT !.val = change'[i]]
        BY <3>1, <4>2
      <4>. HIDE DEF WriteType
      <4>. QED BY <4>1, <4>3
    <3>3. write'[i] \in WriteType
      BY <2>2, <3>2 DEF PollInv, PollTypes, WriteType
    <3>4. write' = [write EXCEPT ![i] = write'[i]]
      BY <3>1 DEF PollInv, PollTypes
    <3>. QED BY <3>3, <3>4 DEF PollInv, PollTypes
  <2>4. inbox' \in Seq(Ids \cup {"poll"})
    BY <2>1 DEF PollInv, PollTypes
  <2>. QED BY <2>1, <2>2, <2>3, <2>4 DEF PollInv, PollTypes, PollTypeOK
<1>3. ASSUME NEW route \in Routes, BeginWrite(i, route) PROVE PollTypes'
  <2>1. /\ UNCHANGED <<entities, waiting, life, unloading, timers, poll, inbox, change>>
        /\ UNCHANGED <<shown, fails, notified, issues, askedAt, dead, hist>> /\ expertLock' = i
    BY <1>3 DEF BeginWrite, Wiring, Tally, Chain
  <2>2. write' \in [Ids -> WriteType]
    <3>1. write' = [write EXCEPT ![i] = [NoWrite EXCEPT !.pc = "running", !.route = route]]
      BY <1>3 DEF BeginWrite
    <3>2. NoWrite = [pc |-> "none", route |-> "entity", out |-> "failed", val |-> 0]
      BY DEF NoWrite
    <3>3. [NoWrite EXCEPT !.pc = "running", !.route = route] \in WriteType
      <4>1. NoWrite \in WriteType /\ route \in {"entity", "service"}
        BY <3>2, Given DEF WriteType
      <4>. QED BY <4>1 DEF WriteType
    <3>. QED BY <3>1, <3>3 DEF PollInv, PollTypes
  <2>. QED BY <2>1, <2>2 DEF PollInv, PollTypes, PollTypeOK
<1>. QED BY <1>1, <1>2, <1>3 DEF ThatWrites

(* An id is forgotten: its count, its report and its history go with it.   *)
Forgets(is) ==
    /\ fails' \in [Ids -> 0..FailsToReport]
    /\ askedAt' \in [Ids -> {"never", "today", "yesterday"}]
    /\ notified' = notified \ is /\ issues' = issues \ (is \cap notified)
    /\ hist' \in [Ids -> HistType]
    /\ \A j \in Ids : hist'[j].known = hist[j].known /\ (hist'[j].unfair => hist[j].unfair)
    /\ \A j \in is : fails'[j] = 0 /\ askedAt'[j] = "never" /\ hist'[j].unseen = 0
    /\ \A j \in Ids \ is : fails'[j] = fails[j] /\ askedAt'[j] = askedAt[j]

LEMMA FreshIs ==
    /\ Fresh \in HistType /\ Fresh.unseen = 0
                        /\ Fresh.refilled = FALSE /\ Fresh.unfair = FALSE
<1>1. Fresh = [unseen |-> 0, refilled |-> FALSE, unfair |-> FALSE, known |-> 0]
  BY DEF Fresh
<1>. QED BY <1>1, Given DEF HistType

LEMMA WithoutIs ==
    ASSUME PollTypes, NEW is \in SUBSET Ids, Without(is)
    PROVE  /\ fails' \in [Ids -> 0..FailsToReport]
           /\ askedAt' \in [Ids -> {"never", "today", "yesterday"}]
           /\ notified' = notified \ is /\ issues' = issues \ (is \cap notified)
           /\ \A j \in is : fails'[j] = 0 /\ askedAt'[j] = "never"
           /\ \A j \in Ids \ is : fails'[j] = fails[j] /\ askedAt'[j] = askedAt[j]
BY Given DEF Without, PollTypes, PollTypeOK

LEMMA DetachIs ==
    ASSUME PollTypes, NEW i \in Ids, Detach(i)
    PROVE  Forgets({i}) /\ \A j \in Ids \ {i} : hist'[j] = hist[j]
<1>1. hist[i].known \in 0..MostChanges
  BY DEF PollTypes, HistType
<1>2. hist' = [hist EXCEPT ![i] = [Fresh EXCEPT !.known = hist[i].known]]
  BY DEF Detach
<1>. DEFINE r == [Fresh EXCEPT !.known = hist[i].known]
<1>3. r \in HistType /\ r.unseen = 0 /\ ~r.unfair /\ r.known = hist[i].known
  BY <1>1, FreshIs DEF HistType
<1>4. hist' = [hist EXCEPT ![i] = r]
  BY <1>2
<1>. HIDE DEF r
<1>6. hist' \in [Ids -> HistType] /\ hist'[i] = r /\ \A j \in Ids \ {i} : hist'[j] = hist[j]
  BY <1>3, <1>4 DEF PollTypes
<1>7. Without({i})
  BY DEF Detach
<1>. QED BY <1>3, <1>6, <1>7, WithoutIs DEF Forgets

LEMMA RenameIs ==
    ASSUME PollTypes, NEW i \in Ids, Rename(i)
    PROVE  /\ Forgets({i}) /\ hist'[i].refilled = hist[i].refilled
           /\ \A j \in Ids \ {i} : hist'[j] = hist[j]
<1>1. hist[i].known \in 0..MostChanges /\ hist[i].refilled \in BOOLEAN
  BY DEF PollTypes, HistType
<1>. DEFINE r == [Fresh EXCEPT !.known = hist[i].known, !.refilled = hist[i].refilled]
<1>2. r \in HistType /\ r.unseen = 0 /\ ~r.unfair /\ r.known = hist[i].known
      /\ r.refilled = hist[i].refilled
  BY <1>1, FreshIs DEF HistType
<1>3. hist' = [hist EXCEPT ![i] = r]
  BY DEF Rename
<1>. HIDE DEF r
<1>5. hist' \in [Ids -> HistType] /\ hist'[i] = r /\ \A j \in Ids \ {i} : hist'[j] = hist[j]
  BY <1>2, <1>3 DEF PollTypes
<1>6. Without({i})
  BY DEF Rename
<1>. QED BY <1>2, <1>5, <1>6, WithoutIs DEF Forgets

LEMMA StopIs == ASSUME PollTypes, Stop PROVE Forgets(entities)
<1>1. ASSUME NEW j \in Ids
      PROVE  /\ hist'[j] \in HistType /\ hist'[j].known = hist[j].known
             /\ hist'[j].unseen = 0 /\ ~hist'[j].unfair
  <2>. DEFINE r == [Fresh EXCEPT !.known = hist[j].known]
  <2>1. hist[j].known \in 0..MostChanges
    BY DEF PollTypes, HistType
  <2>2. r \in HistType /\ r.unseen = 0 /\ ~r.unfair /\ r.known = hist[j].known
    BY <2>1, FreshIs DEF HistType
  <2>4. hist'[j] = r
    BY DEF Stop
  <2>. HIDE DEF r
  <2>. QED BY <2>2, <2>4
<1>2. hist' \in [Ids -> HistType]
  BY <1>1 DEF Stop
<1>3. Without(entities) /\ entities \in SUBSET Ids
  BY DEF Stop, PollTypes, PollTypeOK
<1>. QED BY <1>1, <1>2, <1>3, WithoutIs DEF Forgets

LEMMA AttachIs ==
    ASSUME PollTypes, NEW i \in Ids, Attach(i)
    PROVE  /\ hist' \in [Ids -> HistType] /\ hist'[i].unseen = 0
           /\ hist'[i].known = hist[i].known /\ hist'[i].unfair = hist[i].unfair
           /\ \A j \in Ids \ {i} : hist'[j] = hist[j]
<1>1. hist' = [hist EXCEPT ![i].unseen = 0] /\ hist \in [Ids -> HistType]
  BY DEF Attach, PollTypes
<1>2. 0 \in 0..MostUnseen
  BY Given
<1>3. hist'[i] = [hist[i] EXCEPT !.unseen = 0] /\ hist[i] \in HistType
  BY <1>1
<1>4. hist'[i] \in HistType /\ hist'[i].unseen = 0
      /\ hist'[i].known = hist[i].known /\ hist'[i].unfair = hist[i].unfair
  BY <1>2, <1>3 DEF HistType
<1>. HIDE DEF HistType
<1>. QED BY <1>1, <1>4

LEMMA StartedIs ==
    ASSUME PollTypes, ChainInv, NEW l, NEW es, Started(l, es), l = life \/ life = "new"
    PROVE  /\ timers' \in 0..1
           /\ \/ life' = l /\ timers' = timers
              \/ l = "armed" /\ es # {} /\ life' = "started"
           /\ life' = "armed" => es = {}
<1>1. CASE l = "armed" /\ es # {}
  <2>1. timers = 0 /\ timers' = timers + 1 /\ life' = "started"
    BY <1>1 DEF Started, ChainInv
  <2>. QED BY <1>1, <2>1
<1>2. CASE ~(l = "armed" /\ es # {})
  <2>1. timers' = timers /\ life' = l
    BY <1>2 DEF Started
  <2>2. timers \in 0..1
    BY DEF PollTypes, PollTypeOK
  <2>. QED BY <1>2, <2>1, <2>2
<1>. QED BY <1>1, <1>2

LEMMA EntityTypes ==
    ASSUME PollInv, NEW i \in Ids,
           Attach(i) \/ Detach(i) \/ Rename(i) \/ DayPasses(i) \/ ReadId(i)
    PROVE  PollTypes'
<1>. USE DEF PollInv
<1>1. CASE Attach(i)
  <2>1. UNCHANGED <<shown, fails, notified, issues, askedAt, dead, poll, unloading,
                    expertLock, write, inbox, change>>
        /\ entities' = entities \cup {i} /\ waiting' = waiting \ {i}
    BY <1>1 DEF Attach, Tally, Portal
  <2>2. Started(life, entities')
    BY <1>1 DEF Attach
  <2>3. timers' \in 0..1 /\ life' \in {life, "started"}
    BY <2>2, StartedIs
  <2>. QED BY ZenonT(60), <1>1, <2>1, <2>3, AttachIs DEF PollTypes, PollTypeOK
<1>2. CASE Detach(i)
  <2>1. UNCHANGED <<shown, dead, timers, poll, life, unloading, waiting, expertLock, write, inbox,
                    change>> /\ entities' \subseteq entities
    BY <1>2 DEF Detach, Chain, Portal
  <2>2. /\ fails' \in [Ids -> 0..FailsToReport] /\ hist' \in [Ids -> HistType]
        /\ askedAt' \in [Ids -> {"never", "today", "yesterday"}]
        /\ notified' \subseteq Ids /\ issues' \subseteq Ids
    <3>1. Forgets({i})
      BY <1>2, DetachIs
    <3>. QED BY <3>1 DEF Forgets, PollTypes, PollTypeOK
  <2>. QED BY <2>1, <2>2 DEF PollTypes, PollTypeOK
<1>3. CASE Rename(i)
  <2>1. UNCHANGED <<shown, dead, poll, unloading, entities, waiting, expertLock, write, inbox,
                    change>>
    BY <1>3 DEF Rename, Portal
  <2>2. Started(life, entities)
    BY <1>3 DEF Rename
  <2>3. timers' \in 0..1 /\ life' \in {life, "started"}
    BY <2>2, StartedIs
  <2>4. /\ fails' \in [Ids -> 0..FailsToReport] /\ hist' \in [Ids -> HistType]
        /\ askedAt' \in [Ids -> {"never", "today", "yesterday"}]
        /\ notified' \subseteq Ids /\ issues' \subseteq Ids
    <3>1. Forgets({i})
      BY <1>3, RenameIs
    <3>. QED BY <3>1 DEF Forgets, PollTypes, PollTypeOK
  <2>. QED BY <2>1, <2>3, <2>4 DEF PollTypes, PollTypeOK
<1>4. CASE DayPasses(i)
  <2>1. UNCHANGED <<shown, dead, poll, unloading, entities, waiting, expertLock, write, inbox,
                    change, fails, notified, issues, timers, life, hist>>
    BY <1>4 DEF DayPasses, Wiring, Chain, Portal
  <2>2. askedAt' \in [Ids -> {"never", "today", "yesterday"}]
    BY <1>4 DEF DayPasses, PollTypes, PollTypeOK
  <2>. QED BY <2>1, <2>2 DEF PollTypes, PollTypeOK
<1>5. CASE ReadId(i)
  <2>1. UNCHANGED <<shown, dead, unloading, entities, waiting, expertLock, write, inbox,
                    change, fails, notified, issues, timers, life, hist, askedAt>>
    BY <1>5 DEF ReadId, Wiring, Tally, Portal
  <2>2. PICK v \in {change[i], Nothing} :
           poll' = [poll EXCEPT !.got = [j \in DOMAIN poll.got \cup {i} |->
                                           IF j = i THEN v ELSE poll.got[j]]]
    BY <1>5 DEF ReadId
  <2>. DEFINE more == [j \in DOMAIN poll.got \cup {i} |-> IF j = i THEN v ELSE poll.got[j]]
  <2>3. /\ poll' = [pc |-> poll.pc, asked |-> poll.asked, got |-> more,
                    initial |-> poll.initial]
    <3>1. poll' = [poll EXCEPT !.got = more]
      BY <2>2
    <3>. HIDE DEF more
    <3>. QED BY <3>1 DEF PollTypes
  <2>4. /\ poll'.pc = poll.pc /\ poll'.asked = poll.asked /\ poll'.initial = poll.initial
        /\ poll'.got = more
    BY <2>3
  <2>5. i \in poll.asked \ Unreadable
    BY <1>5 DEF ReadId, Left
  <2>6. v \in Nothing..MostChanges
    BY Given DEF PollTypes, PollTypeOK
  <2>7. \A j \in DOMAIN more : more[j] \in Nothing..MostChanges
    BY <2>6 DEF PollTypes
  <2>8. DOMAIN more = DOMAIN poll.got \cup {i}
    OBVIOUS
  <2>. HIDE DEF more
  <2>9. /\ DOMAIN poll'.got \subseteq poll'.asked \ Unreadable /\ poll'.asked \subseteq Ids
        /\ \A j \in DOMAIN poll'.got : poll'.got[j] \in Nothing..MostChanges
        /\ poll'.initial \in BOOLEAN
        /\ poll' = [pc |-> poll'.pc, asked |-> poll'.asked, got |-> poll'.got,
                    initial |-> poll'.initial]
    BY <2>3, <2>4, <2>5, <2>7, <2>8 DEF PollTypes
  <2>10. PollTypeOK'
    BY <2>1, <2>4 DEF PollTypes, PollTypeOK
  <2>. QED BY <2>1, <2>9, <2>10 DEF PollTypes
<1>. QED BY <1>1, <1>2, <1>3, <1>4, <1>5

LEMMA EntryTypes ==
    ASSUME PollInv,
           \/ SetUp \/ UnloadBegins \/ UnloadIsRefused \/ Stop \/ PollBegins
           \/ ResumeNobody \/ OthersTake \/ OthersDone \/ UNCHANGED pollVars
           \/ \E how \in {"done", "aborted", "failed"} : WorkerEnds(how)
    PROVE  PollTypes'
<1>. USE DEF PollInv
<1>1. CASE SetUp
  <2>1. UNCHANGED <<entities, waiting, shown, fails, notified, issues, askedAt, dead, poll,
                    unloading, expertLock, write, inbox, change, hist>>
    BY <1>1 DEF SetUp, Tally, Portal
  <2>2. Started("armed", entities) /\ life = "new"
    BY <1>1 DEF SetUp
  <2>3. timers' \in 0..1 /\ life' \in {"armed", "started"}
    BY <2>2, StartedIs
  <2>. QED BY <2>1, <2>3 DEF PollTypes, PollTypeOK
<1>2. CASE UnloadBegins \/ UnloadIsRefused
  <2>1. UNCHANGED <<entities, waiting, shown, fails, notified, issues, askedAt, dead, poll,
                    timers, life, expertLock, write, inbox, change, hist>> /\ unloading' \in BOOLEAN
    BY <1>2 DEF UnloadBegins, UnloadIsRefused, Tally, Portal, Chain
  <2>. QED BY <2>1 DEF PollTypes, PollTypeOK
<1>3. CASE Stop
  <2>1. UNCHANGED <<shown, dead, unloading, expertLock, write, inbox, change>>
        /\ entities' = {} /\ waiting' = {} /\ life' = "stopped" /\ timers' = 0
    BY <1>3 DEF Stop, Portal
  <2>2. /\ poll'.pc \in {poll.pc, "orphan", "gone"} /\ poll'.asked = poll.asked
        /\ poll'.got = poll.got /\ poll'.initial = poll.initial
        /\ poll' = [pc |-> poll'.pc, asked |-> poll'.asked, got |-> poll'.got,
                    initial |-> poll'.initial]
    BY <1>3 DEF Stop, PollTypes
  <2>4. /\ fails' \in [Ids -> 0..FailsToReport] /\ hist' \in [Ids -> HistType]
        /\ askedAt' \in [Ids -> {"never", "today", "yesterday"}]
        /\ notified' \subseteq Ids /\ issues' \subseteq Ids
    BY <1>3, StopIs DEF Forgets, PollTypes, PollTypeOK
  <2>3. PollTypeOK'
    BY SMTT(40), <2>1, <2>2, <2>4 DEF PollTypes, PollTypeOK
  <2>. QED BY <2>1, <2>2, <2>3, <2>4 DEF PollTypes
<1>4. CASE PollBegins
  <2>1. UNCHANGED <<entities, waiting, unloading, shown, fails, notified, issues, askedAt, dead,
                    write, inbox, change, hist>> /\ life' = "going"
    BY <1>4 DEF PollBegins, Tally
  <2>2. CASE timers' \in 0..1 /\ UNCHANGED <<poll, expertLock>>
    BY <2>1, <2>2 DEF PollTypes, PollTypeOK
  <2>3. CASE /\ poll' = [pc |-> "reading", asked |-> Due, got |-> [j \in {} |-> 0],
                         initial |-> life = "started"]
             /\ expertLock' = "poll" /\ timers' = timers - 1
    <3>1. timers' \in 0..1
      BY <1>4, <2>3 DEF PollBegins, PollTypes, PollTypeOK
    <3>2. Due \subseteq Ids /\ DOMAIN [j \in {} |-> 0] = {}
      BY DEF Due, PollTypes, PollTypeOK
    <3>3. /\ poll'.pc = "reading" /\ poll'.asked = Due /\ DOMAIN poll'.got = {}
          /\ poll'.initial \in BOOLEAN
          /\ poll' = [pc |-> poll'.pc, asked |-> poll'.asked, got |-> poll'.got,
                      initial |-> poll'.initial]
      BY <2>3, <3>2
    <3>. QED BY <2>1, <2>3, <3>1, <3>2, <3>3 DEF PollTypes, PollTypeOK
  <2>. QED BY <1>4, <2>2, <2>3 DEF PollBegins, Reschedule
<1>5. CASE ResumeNobody
  <2>1. UNCHANGED <<entities, waiting, shown, fails, notified, issues, askedAt, dead,
                    timers, life, unloading, expertLock, write, change, hist>> /\ poll' = NoPoll
        /\ Arrives("poll")
    BY <1>5 DEF ResumeNobody, Tally, Wiring
  <2>2. inbox' \in Seq(Ids \cup {"poll"})
    BY <2>1, Delivered DEF TakenInv
  <2>. QED BY SMTT(40), <2>1, <2>2 DEF PollTypes, PollTypeOK, NoPoll
<1>6. CASE OthersTake \/ OthersDone
  <2>1. UNCHANGED <<entities, waiting, shown, fails, notified, issues, askedAt, dead, poll,
                    timers, life, unloading, write, inbox, change, hist>>
        /\ expertLock' \in {"free", Busy}
    BY <1>6 DEF OthersTake, OthersDone, Tally, Wiring, Chain
  <2>. QED BY <2>1 DEF PollTypes, PollTypeOK
<1>7. CASE UNCHANGED pollVars
  BY <1>7 DEF PollTypes, PollTypeOK, pollVars
<1>8. ASSUME NEW how \in {"done", "aborted", "failed"}, WorkerEnds(how) PROVE PollTypes'
  <2>1. UNCHANGED <<entities, waiting, shown, fails, notified, issues, askedAt, dead,
                    timers, life, unloading, write, change, hist>> /\ expertLock' = "free"
    BY <1>8 DEF WorkerEnds, Tally, Wiring
  <2>2. inbox' \in Seq(Ids \cup {"poll"})
    BY <1>8 DEF WorkerEnds, PollTypes
  <2>3. CASE poll' = NoPoll
    BY SMTT(40), <2>1, <2>2, <2>3 DEF PollTypes, PollTypeOK, NoPoll
  <2>4. CASE poll' = [poll EXCEPT !.pc = how]
    <3>1. /\ poll'.pc = how /\ poll'.asked = poll.asked
          /\ poll'.got = poll.got /\ poll'.initial = poll.initial
          /\ poll' = [pc |-> poll'.pc, asked |-> poll'.asked, got |-> poll'.got,
                      initial |-> poll'.initial]
      BY <2>4 DEF PollTypes
    <3>. QED BY <2>1, <2>2, <3>1 DEF PollTypes, PollTypeOK
  <2>. QED BY <1>8, <2>3, <2>4 DEF WorkerEnds
<1>. QED BY <1>1, <1>2, <1>3, <1>4, <1>5, <1>6, <1>7, <1>8

LEMMA NextTypes ==
    PollInv /\ [PollNext]_pollVars => PollTypes'
BY StepsAre, EntityTypes, EntryTypes, ResumeTypes, WriteTypes

-----------------------------------------------------------------------------
(* The lock and the results *)

LEMMA TakenKept ==
    ASSUME TakenInv, UNCHANGED <<write, inbox, expertLock>>, poll'.pc = poll.pc
    PROVE  TakenInv'
BY DEF TakenInv, Once, Queued

LEMMA NextTaken ==
    PollInv /\ [PollNext]_pollVars => TakenInv'
<1>. SUFFICES ASSUME PollInv, [PollNext]_pollVars PROVE TakenInv'
  OBVIOUS
<1>. USE DEF PollInv
<1>1. CASE SetUp \/ UnloadBegins \/ UnloadIsRefused \/ UNCHANGED pollVars
  <2>1. UNCHANGED <<write, inbox, expertLock, poll>>
    BY <1>1 DEF SetUp, UnloadBegins, UnloadIsRefused, pollVars, Portal, Chain
  <2>. QED BY <2>1, TakenKept
<1>2. CASE Stop
  <2>1. UNCHANGED <<write, inbox, expertLock>> /\ life # "stopped"
    BY <1>2 DEF Stop, Portal
  <2>2. CASE poll.initial
    <3>1. poll'.pc = (IF poll.pc = "reading" THEN "orphan" ELSE "gone")
      BY <1>2, <2>2 DEF Stop, PollTypes
    <3>2. poll.pc \in {"reading", "done", "aborted", "failed"}
      BY <2>1, <2>2 DEF ChainInv, PollTypes, PollTypeOK
    <3>3. /\ poll'.pc \in {"reading", "orphan"} <=> poll.pc \in {"reading", "orphan"}
          /\ poll'.pc \in ResultDue <=> poll.pc \in ResultDue
      BY <3>1, <3>2 DEF ResultDue
    <3>. QED BY <2>1, <3>3 DEF TakenInv, Once, Queued
  <2>3. CASE ~poll.initial
    <3>1. poll' = poll
      BY <1>2, <2>3 DEF Stop
    <3>. QED BY <2>1, <3>1, TakenKept
  <2>. QED BY <2>2, <2>3
<1>3. CASE PollBegins
  <2>1. UNCHANGED <<write, inbox>> /\ poll.pc = "none"
    BY <1>3 DEF PollBegins
  <2>2. CASE UNCHANGED <<poll, expertLock>>
    BY <2>1, <2>2, TakenKept
  <2>3. CASE poll'.pc = "reading" /\ expertLock' = "poll" /\ expertLock = "free"
    BY <2>1, <2>3, Given DEF TakenInv, Once, Queued, ResultDue
  <2>4. \/ UNCHANGED <<poll, expertLock>>
        \/ poll'.pc = "reading" /\ expertLock' = "poll" /\ expertLock = "free"
    BY <1>3 DEF PollBegins
  <2>. QED BY <2>2, <2>3, <2>4
<1>4. CASE Resume \/ ResumeNobody
  <2>1. Arrives("poll") /\ UNCHANGED <<write, expertLock>> /\ poll'.pc = "none"
    BY <1>4, ResumeIs DEF ResumeNobody, NoPoll
  <2>2. Once' /\ Queued("poll") /\ \A w : Queued(w)' <=> Queued(w) /\ w # "poll"
    BY <2>1, Delivered DEF TakenInv
  <2>3. poll.pc \in ResultDue /\ poll.pc \notin {"reading", "orphan"}
    BY <2>2 DEF TakenInv, ResultDue
  <2>4. \A i \in Ids : Queued(i)' <=> Queued(i)
    BY <2>2, Given
  <2>. QED BY <2>1, <2>2, <2>3, <2>4 DEF TakenInv, ResultDue
<1>5. CASE OthersTake \/ OthersDone
  <2>1. /\ UNCHANGED <<write, inbox, poll>>
        /\ \A who \in Ids \cup {"poll"} : expertLock # who /\ expertLock' # who
    BY <1>5, Given DEF OthersTake, OthersDone, Chain
  <2>. QED BY <2>1, Given DEF TakenInv, Once, Queued
<1>6. ASSUME NEW how \in {"done", "aborted", "failed"}, WorkerEnds(how) PROVE TakenInv'
  <2>1. poll.pc \in {"reading", "orphan"} /\ expertLock' = "free" /\ UNCHANGED write
        /\ expertLock = "poll"
    BY <1>6 DEF WorkerEnds, TakenInv
  <2>2. \A i \in Ids : write[i].pc # "running" /\ expertLock' # i
    BY <2>1, Given DEF TakenInv
  <2>3. CASE poll'.pc = "none" /\ UNCHANGED inbox
    BY <2>1, <2>2, <2>3, Given DEF TakenInv, Once, Queued, ResultDue
  <2>4. CASE poll'.pc = how /\ inbox' = Append(inbox, "poll")
    <3>1. ~Queued("poll")
      BY <2>1 DEF TakenInv, ResultDue
    <3>2. Once' /\ \A w : Queued(w)' <=> Queued(w) \/ w = "poll"
      BY <2>4, <3>1, Appended DEF TakenInv
    <3>3. \A i \in Ids : Queued(i)' <=> Queued(i)
      BY <3>2, Given
    <3>4. Queued("poll")' /\ poll'.pc \in ResultDue /\ poll'.pc \notin {"reading", "orphan"}
      BY <2>4, <3>2 DEF ResultDue
    <3>. QED BY <2>1, <2>2, <3>2, <3>3, <3>4, Given DEF TakenInv
  <2>. QED BY <1>6, <2>3, <2>4 DEF WorkerEnds, NoPoll, PollTypes
<1>7. ASSUME NEW i \in Ids,
             ReadId(i) \/ Attach(i) \/ Detach(i) \/ Rename(i) \/ DayPasses(i)
      PROVE  TakenInv'
  <2>1. UNCHANGED <<write, inbox, expertLock>> /\ poll'.pc = poll.pc
    BY <1>7 DEF ReadId, Attach, Detach, Rename, DayPasses, Portal, Chain, PollTypes
  <2>. QED BY <2>1, TakenKept
<1>8. ASSUME NEW i \in Ids, NEW route \in Routes, BeginWrite(i, route) PROVE TakenInv'
  <2>1. UNCHANGED <<inbox, poll>> /\ expertLock = "free" /\ expertLock' = i /\ write[i].pc = "none"
    BY <1>8 DEF BeginWrite, Chain
  <2>2. write'[i].pc = "running" /\ \A j \in Ids \ {i} : write'[j] = write[j]
    BY <1>8 DEF BeginWrite, PollTypes, NoWrite
  <2>3. /\ poll'.pc \in {"reading", "orphan"} <=> expertLock' = "poll"
        /\ \A j \in Ids : write'[j].pc = "running" <=> expertLock' = j
    BY <2>1, <2>2, Given DEF TakenInv
  <2>4. \A j \in Ids : write'[j].pc = "done" <=> write[j].pc = "done"
    BY <2>1, <2>2
  <2>. QED BY <2>1, <2>3, <2>4 DEF TakenInv, Once, Queued
<1>9. ASSUME NEW i \in Ids, NEW out, NEW made, WriteEnds(i, out, made) PROVE TakenInv'
  <2>1. /\ UNCHANGED poll /\ expertLock' = "free" /\ write[i].pc = "running"
        /\ inbox' = Append(inbox, i) /\ expertLock = i
    BY <1>9 DEF WriteEnds, Chain, TakenInv
  <2>2. write'[i].pc = "done" /\ \A j \in Ids \ {i} : write'[j] = write[j]
    BY <1>9 DEF WriteEnds, PollTypes, WriteType
  <2>3. ~Queued(i)
    BY <2>1 DEF TakenInv
  <2>4. Once' /\ \A w : Queued(w)' <=> Queued(w) \/ w = i
    BY <2>1, <2>3, Appended DEF TakenInv
  <2>5. Queued("poll")' <=> Queued("poll")
    BY <2>4, Given
  <2>6. /\ poll'.pc \in {"reading", "orphan"} <=> expertLock' = "poll"
        /\ \A j \in Ids : write'[j].pc = "running" <=> expertLock' = j
        /\ \A j \in Ids : write'[j].pc = "done" <=> Queued(j)'
    BY <2>1, <2>2, <2>4, Given DEF TakenInv
  <2>. QED BY <2>1, <2>4, <2>5, <2>6 DEF TakenInv
<1>10. ASSUME NEW i \in Ids, WriteShown(i) PROVE TakenInv'
  <2>1. /\ Arrives(i) /\ UNCHANGED <<poll, expertLock>>
        /\ write' = [write EXCEPT ![i] = NoWrite]
    BY <1>10, WriteApplied
  <2>2. Once' /\ Queued(i) /\ \A w : Queued(w)' <=> Queued(w) /\ w # i
    BY <2>1, Delivered DEF TakenInv
  <2>3. write'[i].pc = "none" /\ \A j \in Ids \ {i} : write'[j] = write[j]
    BY <2>1 DEF PollTypes, NoWrite
  <2>4. Queued("poll")' <=> Queued("poll")
    BY <2>2, Given
  <2>5. write[i].pc = "done" /\ \A j \in Ids : write'[j].pc = "running" <=> expertLock' = j
    BY <2>1, <2>2, <2>3 DEF TakenInv
  <2>. QED BY <2>1, <2>2, <2>3, <2>4, <2>5 DEF TakenInv
<1>. QED
  BY <1>1, <1>2, <1>3, <1>4, <1>5, <1>6, <1>7, <1>8, <1>9, <1>10, StepsAre DEF ThatWrites

-----------------------------------------------------------------------------
(* The chain *)

LEMMA ChainKept ==
    ASSUME ChainInv, UNCHANGED <<timers, life, unloading, waiting, poll>>,
           entities' \subseteq entities
    PROVE  ChainInv'
BY DEF ChainInv, OneChain, Left

LEMMA NextChain ==
    PollInv /\ [PollNext]_pollVars => ChainInv'
<1>. SUFFICES ASSUME PollInv, [PollNext]_pollVars PROVE ChainInv'
  OBVIOUS
<1>. USE DEF PollInv
<1>1. CASE UnloadBegins \/ UnloadIsRefused
  <2>1. UNCHANGED <<entities, waiting, life, timers, poll>> /\ life # "stopped"
    BY <1>1 DEF UnloadBegins, UnloadIsRefused, Chain
  <2>. QED BY <2>1 DEF ChainInv, OneChain, Left
<1>2. CASE OthersTake \/ OthersDone \/ UNCHANGED pollVars
  <2>1. UNCHANGED <<timers, life, unloading, waiting, entities, poll>>
    BY <1>2 DEF OthersTake, OthersDone, pollVars, Wiring, Chain
  <2>. QED BY <2>1, ChainKept
<1>3. CASE SetUp
  <2>1. Started("armed", entities) /\ life = "new"
        /\ UNCHANGED <<poll, unloading, waiting, entities>>
    BY <1>3 DEF SetUp
  <2>2. timers' \in 0..1 /\ life' \in {"armed", "started"} /\ (life' = "armed" => entities = {})
        /\ (life' = "armed" => timers' = timers)
    BY <2>1, StartedIs
  <2>. QED BY <2>1, <2>2 DEF ChainInv, OneChain, Left
<1>4. CASE Stop
  <2>1. /\ entities' = {} /\ waiting' = {} /\ life' = "stopped" /\ timers' = 0
        /\ unloading' = TRUE
    BY <1>4 DEF Stop, PollTypes, PollTypeOK
  <2>2. /\ poll'.asked = poll.asked /\ poll'.got = poll.got /\ poll'.initial = poll.initial
        /\ poll'.pc \in {poll.pc, "orphan", "gone"}
    BY <1>4 DEF Stop, PollTypes
  <2>. QED BY <2>1, <2>2 DEF ChainInv, OneChain, Left
<1>5. CASE PollBegins
  <2>1. /\ timers > 0 /\ life' = "going" /\ poll.pc = "none" /\ life # "stopped"
        /\ UNCHANGED <<entities, waiting, unloading>>
    BY <1>5 DEF PollBegins, ChainInv, OneChain
  <2>2. CASE timers' = 1 /\ poll' = poll
    BY <2>1, <2>2 DEF ChainInv, OneChain
  <2>3. CASE timers' = timers - 1 /\ poll'.pc = "reading"
    BY <2>1, <2>3 DEF ChainInv, OneChain, PollTypes, PollTypeOK
  <2>4. (timers' = 1 /\ poll' = poll) \/ (timers' = timers - 1 /\ poll'.pc = "reading")
    BY <1>5, <2>1 DEF PollBegins, Reschedule
  <2>. QED BY <2>2, <2>3, <2>4
<1>6. CASE Resume
  <2>1. /\ poll' = NoPoll /\ timers' = IF life = "stopped" THEN 0 ELSE 1
        /\ UNCHANGED <<entities, waiting, life, unloading>> /\ Arrives("poll")
    BY <1>6, ResumeIs
  <2>2. poll.pc # "none"
    BY <2>1, Delivered DEF TakenInv, ResultDue
  <2>3. poll'.pc = "none" /\ ~poll'.initial /\ DOMAIN poll'.got = {}
    BY <2>1 DEF NoPoll
  <2>. QED BY <2>1, <2>2, <2>3 DEF ChainInv, OneChain
<1>7. CASE ResumeNobody
  <2>1. poll' = NoPoll /\ UNCHANGED <<entities, waiting, life, unloading, timers>>
    BY <1>7 DEF ResumeNobody, Wiring
  <2>2. poll'.pc = "none" /\ ~poll'.initial /\ DOMAIN poll'.got = {}
    BY <2>1 DEF NoPoll
  <2>. QED BY <2>1, <2>2 DEF ChainInv, OneChain
<1>8. ASSUME NEW how \in {"done", "aborted", "failed"}, WorkerEnds(how) PROVE ChainInv'
  <2>1. UNCHANGED <<entities, waiting, life, unloading, timers>>
        /\ poll.pc \in {"reading", "orphan"} /\ (how = "done" => Left = {})
    BY <1>8 DEF WorkerEnds, Wiring
  <2>2. CASE poll.pc = "orphan" /\ poll' = NoPoll
    <3>1. poll'.pc = "none" /\ ~poll'.initial /\ DOMAIN poll'.got = {}
      BY <2>2 DEF NoPoll
    <3>. QED BY <2>1, <3>1 DEF ChainInv, OneChain
  <2>3. CASE poll.pc = "reading" /\ poll' = [poll EXCEPT !.pc = how]
    <3>1. poll'.pc = how /\ poll'.asked = poll.asked /\ poll'.got = poll.got
      BY <2>3 DEF PollTypes
    <3>. QED BY <2>1, <2>3, <3>1 DEF ChainInv, OneChain, Left
  <2>. QED BY <1>8, <2>1, <2>2, <2>3 DEF WorkerEnds
<1>9. ASSUME NEW i \in Ids, ReadId(i) PROVE ChainInv'
  <2>1. UNCHANGED <<entities, waiting, life, unloading, timers>>
        /\ poll.pc \in {"reading", "orphan"} /\ poll'.pc = poll.pc
    BY <1>9 DEF ReadId, Wiring, PollTypes
  <2>. QED BY <2>1 DEF ChainInv, OneChain
<1>10. ASSUME NEW i \in Ids, Attach(i) PROVE ChainInv'
  <2>1. /\ i \in waiting /\ ~unloading /\ waiting' = waiting \ {i}
        /\ entities' = entities \cup {i} /\ Started(life, entities')
        /\ UNCHANGED <<unloading, poll>>
    BY <1>10 DEF Attach
  <2>2. life # "stopped" /\ life' # "armed"
        /\ \/ life' = life /\ timers' = timers
           \/ life = "armed" /\ life' = "started"
        /\ timers' \in 0..1
    <3>1. entities' # {} /\ life # "stopped"
      BY <2>1 DEF ChainInv
    <3>2. /\ timers' \in 0..1
          /\ \/ life' = life /\ timers' = timers
             \/ life = "armed" /\ life' = "started"
          /\ life' = "armed" => entities' = {}
      BY <2>1, StartedIs
    <3>. QED BY <3>1, <3>2
  <2>. QED BY <2>1, <2>2 DEF ChainInv, OneChain, Left, PollTypes, PollTypeOK
<1>11. ASSUME NEW i \in Ids, Rename(i) PROVE ChainInv'
  <2>1. i \in entities /\ Started(life, entities)
        /\ UNCHANGED <<unloading, waiting, entities, poll>>
    BY <1>11 DEF Rename
  <2>2. life' = life /\ timers' = timers
    BY <2>1 DEF Started, ChainInv
  <2>. QED BY <2>1, <2>2, ChainKept
<1>12. ASSUME NEW i \in Ids, Detach(i) \/ DayPasses(i) PROVE ChainInv'
  <2>1. UNCHANGED <<unloading, waiting, life, timers, poll>> /\ entities' \subseteq entities
    BY <1>12 DEF Detach, DayPasses, Wiring, Chain
  <2>. QED BY <2>1, ChainKept
<1>13. ASSUME NEW i \in Ids, ThatWrites(i) PROVE ChainInv'
  <2>1. UNCHANGED <<unloading, waiting, life, timers, poll, entities>>
    BY <1>13 DEF ThatWrites, WriteEnds, WriteShown, BeginWrite, Wiring, Chain
  <2>. QED BY SMTT(40), <2>1, ChainKept
<1>. QED
  BY <1>1, <1>2, <1>3, <1>4, <1>5, <1>6, <1>7, <1>8, <1>9, <1>10, <1>11, <1>12, <1>13,
     StepsAre

-----------------------------------------------------------------------------
(* The reports *)

(* A readable id that was asked has an answer or a failure of its own, so  *)
(* a miss without any answer is one of the whole batch.                    *)
LEMMA NobodyIsBlamed ==
    ASSUME PollInv, poll.pc = "done", Answered = {},
           NEW i \in Missed \ Unreadable, entities # {i}
    PROVE  FALSE
<1>1. i \in poll.asked /\ i \in entities
  BY DEF Missed, Present
<1>2. i \in DOMAIN poll.got
  BY <1>1 DEF PollInv, ChainInv, Left
<1>3. PICK j \in entities : j # i
  BY <1>1
<1>4. Several(entities \cup DOMAIN poll.got)
  BY <1>1, <1>3 DEF Several
<1>5. WholeBatch
  BY <1>2, <1>4 DEF WholeBatch
<1>. QED BY <1>2, <1>5 DEF Missed

LEMMA TallyKept ==
    ASSUME TallyInv, UNCHANGED <<fails, notified, issues, entities>>,
           entities' \cap waiting' = {},
           \A i \in Ids : askedAt'[i] # "never" => askedAt[i] # "never",
           \A i \in Ids : hist'[i].unfair => hist[i].unfair
    PROVE  TallyInv'
BY DEF TallyInv

LEMMA TallyForgets ==
    ASSUME PollTypes, TallyInv, NEW is, Forgets(is), is \subseteq entities,
           entities \ is \subseteq entities', entities' \cap waiting' = {}
    PROVE  TallyInv'
<1>1. issues' = notified' /\ notified' \subseteq entities'
  BY DEF TallyInv, Forgets
<1>2. ASSUME NEW i \in Ids
      PROVE  /\ askedAt'[i] # "never" => i \in notified'
             /\ fails'[i] = FailsToReport => i \in notified'
             /\ ~hist'[i].unfair
  BY Given DEF TallyInv, Forgets
<1>. QED BY <1>1, <1>2 DEF TallyInv

LEMMA ResumeTally == ASSUME PollInv, Resume PROVE TallyInv'
<1>. USE DEF PollInv
<1>1. UNCHANGED <<entities, waiting>>
  BY ResumeIs
<1>2. CASE poll.pc = "done" /\ ApplyRead
  <2>1. /\ Heard \cap Missed = {} /\ Told \subseteq Missed /\ Missed \subseteq Present
        /\ Heard \subseteq Present /\ Present \subseteq entities /\ Present \subseteq Ids
    BY DEF Heard, Missed, Told, Present, PollTypes, Answered
  <2>2. notified' = (notified \ Heard) \cup Told
        /\ issues' = (issues \ (Heard \cap notified)) \cup Told
    BY <1>2, ReadApplied
  <2>3. issues' = notified' /\ notified' \subseteq entities'
    BY <1>1, <2>1, <2>2 DEF TallyInv
  <2>4. ASSUME NEW i \in Heard
        PROVE  askedAt'[i] = "never" /\ fails'[i] # FailsToReport /\ ~hist'[i].unfair
    BY <1>2, <2>4, ReadApplied, Given
  <2>5. ASSUME NEW i \in Missed
        PROVE  /\ askedAt'[i] # "never" => i \in notified'
               /\ fails'[i] = FailsToReport => i \in notified'
    <3>1. i \in Ids /\ i \notin Heard /\ fails[i] \in 0..FailsToReport
      BY <2>1, <2>5 DEF PollTypes, PollTypeOK
    <3>2. fails'[i] = AtMost(fails[i] + 1, FailsToReport)
          /\ (askedAt'[i] # "never" => i \in Told \/ askedAt[i] # "never")
      BY <1>2, <2>5, ReadApplied
    <3>3. fails'[i] = FailsToReport => fails[i] + 1 >= FailsToReport
      BY <3>1, <3>2, Given DEF AtMost
    <3>4. fails'[i] = FailsToReport => i \in notified \/ i \in Told
      BY <2>5, <3>3 DEF Told
    <3>. QED BY <2>2, <3>1, <3>2, <3>4 DEF TallyInv
  <2>6. ASSUME NEW i \in Ids \ (Heard \cup Missed)
        PROVE  /\ askedAt'[i] # "never" => i \in notified'
               /\ fails'[i] = FailsToReport => i \in notified'
    <3>1. fails'[i] = fails[i] /\ (askedAt'[i] # "never" => askedAt[i] # "never")
      BY <1>2, ReadApplied
    <3>. QED BY <2>2, <3>1 DEF TallyInv
  <2>7. ASSUME NEW i \in Ids \ Heard PROVE ~hist'[i].unfair
    <3>1. ~hist[i].unfair
      BY DEF TallyInv
    <3>2. CASE i \in Present
      <4>1. hist'[i].unfair = \/ hist[i].unfair
                              \/ /\ i \in Missed \ Unreadable
                                 /\ Answered = {} /\ entities # {i}
        BY <1>2, <3>2, ReadApplied
      <4>. QED BY <1>2, <3>1, <4>1, NobodyIsBlamed
    <3>3. CASE i \notin Present
      BY <1>2, <3>1, <3>3, ReadApplied
    <3>. QED BY <3>2, <3>3
  <2>. QED BY <1>1, <2>3, <2>4, <2>5, <2>6, <2>7 DEF TallyInv
<1>3. CASE DeadCycle
  <2>1. UNCHANGED <<fails, notified, issues, askedAt>>
    BY <1>3 DEF DeadCycle
  <2>2. \A i \in Ids : hist'[i].unfair = hist[i].unfair
    BY <1>3 DEF DeadCycle, Unseen, PollTypes, HistType
  <2>. QED BY <1>1, <2>1, <2>2, TallyKept DEF TallyInv
<1>4. CASE UNCHANGED <<shown, fails, notified, issues, askedAt, dead, hist>>
  BY <1>1, <1>4, TallyKept DEF TallyInv
<1>. QED BY <1>2, <1>3, <1>4, ResumeIs

LEMMA NextTally ==
    PollInv /\ [PollNext]_pollVars => TallyInv'
<1>. SUFFICES ASSUME PollInv, [PollNext]_pollVars PROVE TallyInv'
  OBVIOUS
<1>. USE DEF PollInv
<1>0. entities \cap waiting = {}
  BY DEF TallyInv
<1>1. CASE \/ SetUp \/ UnloadBegins \/ UnloadIsRefused \/ PollBegins \/ ResumeNobody
           \/ OthersTake \/ OthersDone \/ UNCHANGED pollVars
  <2>1. UNCHANGED <<fails, notified, issues, askedAt, entities, waiting, hist>>
    BY <1>1 DEF SetUp, UnloadBegins, UnloadIsRefused, PollBegins, ResumeNobody, OthersTake,
                OthersDone, pollVars, Tally, Wiring
  <2>. QED BY <1>0, <2>1, TallyKept
<1>2. CASE Stop
  <2>1. entities' = {} /\ waiting' = {}
    BY <1>2 DEF Stop
  <2>2. Forgets(entities)
    BY <1>2, StopIs
  <2>. QED BY <2>1, <2>2, TallyForgets
<1>3. CASE Resume
  BY <1>3, ResumeTally
<1>4. ASSUME NEW how \in {"done", "aborted", "failed"}, WorkerEnds(how) PROVE TallyInv'
  <2>1. UNCHANGED <<fails, notified, issues, askedAt, entities, waiting, hist>>
    BY <1>4 DEF WorkerEnds, Tally, Wiring
  <2>. QED BY <1>0, <2>1, TallyKept
<1>5. ASSUME NEW i \in Ids, ReadId(i) \/ DayPasses(i) PROVE TallyInv'
  <2>1. UNCHANGED <<fails, notified, issues, entities, waiting, hist>>
    BY <1>5 DEF ReadId, DayPasses, Tally, Wiring
  <2>2. \A j \in Ids : askedAt'[j] # "never" => askedAt[j] # "never"
    BY <1>5 DEF ReadId, DayPasses, Tally, PollTypes, PollTypeOK
  <2>. QED BY <1>0, <2>1, <2>2, TallyKept
<1>6. ASSUME NEW i \in Ids, Attach(i) PROVE TallyInv'
  <2>1. /\ UNCHANGED <<fails, notified, issues, askedAt>> /\ i \in waiting
        /\ entities' = entities \cup {i} /\ waiting' = waiting \ {i}
    BY <1>6 DEF Attach, Tally
  <2>2. \A j \in Ids : hist'[j].unfair = hist[j].unfair
    BY <1>6, AttachIs
  <2>. QED BY <2>1, <2>2 DEF TallyInv
<1>7. ASSUME NEW i \in Ids, Detach(i) PROVE TallyInv'
  <2>1. i \in entities /\ entities' = entities \ {i} /\ waiting' = waiting
    BY <1>7 DEF Detach
  <2>2. Forgets({i})
    BY <1>7, DetachIs
  <2>. QED BY <1>0, <2>1, <2>2, TallyForgets
<1>8. ASSUME NEW i \in Ids, Rename(i) PROVE TallyInv'
  <2>1. i \in entities /\ entities' = entities /\ waiting' = waiting
    BY <1>8 DEF Rename
  <2>2. Forgets({i})
    BY <1>8, RenameIs
  <2>. QED BY <1>0, <2>1, <2>2, TallyForgets
<1>9. ASSUME NEW i \in Ids, WriteShown(i) PROVE TallyInv'
  <2>1. UNCHANGED <<entities, waiting>>
    BY <1>9, WriteApplied
  <2>2. CASE Confirms(i)
    <3>1. /\ fails' = [fails EXCEPT ![i] = 0] /\ askedAt' = [askedAt EXCEPT ![i] = "never"]
          /\ notified' = notified \ {i} /\ issues' = issues \ ({i} \cap notified)
          /\ \A j \in Ids : hist'[j].unfair => hist[j].unfair
      BY <2>2 DEF Confirms
    <3>2. issues' = notified' /\ notified' \subseteq entities'
      BY <2>1, <3>1 DEF TallyInv
    <3>3. \A j \in Ids : /\ askedAt'[j] # "never" => j \in notified'
                         /\ fails'[j] = FailsToReport => j \in notified'
      BY <3>1, Given DEF TallyInv, PollTypes, PollTypeOK
    <3>. QED BY <1>0, <2>1, <3>1, <3>2, <3>3 DEF TallyInv
  <2>3. CASE Refuses(i)
    BY <1>0, <2>1, <2>3, TallyKept DEF Refuses
  <2>4. CASE UNCHANGED <<shown, fails, notified, issues, askedAt, dead, hist>>
    BY <1>0, <2>1, <2>4, TallyKept
  <2>. QED BY <1>9, <2>2, <2>3, <2>4, WriteApplied
<1>10. ASSUME NEW i \in Ids,
              \/ \E out \in {"verified", "refused", "failed"}, made \in BOOLEAN :
                    WriteEnds(i, out, made)
              \/ \E route \in Routes : BeginWrite(i, route)
       PROVE  TallyInv'
  <2>1. UNCHANGED <<fails, notified, issues, askedAt, entities, waiting, hist>>
    BY <1>10 DEF WriteEnds, BeginWrite, Tally, Wiring
  <2>. QED BY SMTT(40), <1>0, <2>1, TallyKept
<1>. QED
  BY <1>1, <1>2, <1>3, <1>4, <1>5, <1>6, <1>7, <1>8, <1>9, <1>10, StepsAre DEF ThatWrites

-----------------------------------------------------------------------------
(* The cycles a value goes through *)

LEMMA Cycles ==
    ASSUME NEW f \in Nat, NEW d \in Nat
    PROVE  f * d \in Nat /\ (f + 1) * d = f * d + d
<1>1. f * d \in Nat
  <2>1. f * d \in Int
    OBVIOUS
  <2>2. f * d >= 0
    BY Z3
  <2>. QED BY <2>1, <2>2
<1>2. (f + 1) * d = f * d + d
  BY Z3
<1>. QED BY <1>1, <1>2

LEMMA CountedKept ==
    ASSUME CountedInv, UNCHANGED <<shown, fails, dead>>, notified' \subseteq notified,
           \A i \in Ids : Stands(i)' => i \in entities /\ hist'[i] = hist[i],
           \A i \in Ids : Stands(i) /\ poll'.pc # "none" /\ i \notin poll'.asked
                             => hist[i].unseen = 0
    PROVE  CountedInv'
<1>. SUFFICES ASSUME NEW i \in Ids, Stands(i)'
              PROVE  /\ i \notin notified' /\ dead' < DeadCycles
                     /\ hist'[i].unseen <= fails'[i] * DeadCycles + dead'
                     /\ poll'.pc # "none" /\ i \notin poll'.asked => hist'[i].unseen = 0
  BY DEF CountedInv
<1>1. i \in entities /\ hist'[i] = hist[i]
  OBVIOUS
<1>2. Stands(i)
  BY <1>1 DEF Stands
<1>. QED BY <1>1, <1>2 DEF CountedInv

LEMMA ReadCounted ==
    ASSUME PollInv, poll.pc = "done", ApplyRead, poll'.pc = "none",
           entities' = entities
    PROVE  CountedInv'
<1>. USE DEF PollInv
<1>. SUFFICES ASSUME NEW i \in Ids, Stands(i)'
              PROVE  /\ i \notin notified' /\ dead' < DeadCycles
                     /\ hist'[i].unseen <= fails'[i] * DeadCycles + dead'
  BY DEF CountedInv
<1>1. /\ Heard \cap Missed = {} /\ Told \subseteq Missed /\ Missed \subseteq Present
      /\ Heard \subseteq Present /\ Present \subseteq entities
      /\ (i \in Heard => Answered # {})
  BY DEF Heard, Missed, Told, Present, Answered
<1>2. /\ notified' = (notified \ Heard) \cup Told
      /\ dead' = IF Answered # {} THEN 0 ELSE IF WholeBatch THEN More(dead) ELSE dead
  BY ReadApplied
<1>3. /\ fails[i] \in 0..FailsToReport /\ hist[i].unseen \in 0..MostUnseen /\ dead \in Nat
      /\ fails[i] * DeadCycles \in Nat
      /\ (fails[i] + 1) * DeadCycles = fails[i] * DeadCycles + DeadCycles
  <2>1. /\ fails[i] \in 0..FailsToReport /\ hist[i].unseen \in 0..MostUnseen /\ dead \in Nat
        /\ fails[i] \in Nat
    BY Given DEF PollTypes, PollTypeOK, HistType
  <2>. QED BY <2>1, Cycles, Given
<1>4. CASE i \in Heard
  <2>1. fails'[i] = 0 /\ hist'[i].unseen = 0
    BY <1>4, ReadApplied
  <2>2. dead' = 0
    BY <1>1, <1>2, <1>4
  <2>3. i \notin notified'
    BY <1>1, <1>2, <1>4
  <2>4. 0 * DeadCycles = 0
    BY Given
  <2>. QED BY <2>1, <2>2, <2>3, <2>4, Given
<1>5. CASE i \notin Heard
  <2>1. i \in entities /\ shown'[i] # Nothing /\ ~hist'[i].refilled
    BY DEF Stands
  <2>2. i \notin Told /\ ~(WholeBatch /\ dead + 1 = DeadCycles) /\ shown[i] # Nothing
    BY <1>5, <2>1, ReadApplied
  <2>3. hist'[i].refilled = hist[i].refilled
    <3>1. CASE i \in Present
      BY <1>5, <3>1, ReadApplied
    <3>2. CASE i \notin Present
      BY <3>2, ReadApplied
    <3>. QED BY <3>1, <3>2
  <2>4. Stands(i)
    BY <2>1, <2>2, <2>3 DEF Stands
  <2>5. i \notin notified /\ dead < DeadCycles
        /\ hist[i].unseen <= fails[i] * DeadCycles + dead
        /\ (i \notin poll.asked => hist[i].unseen = 0)
    BY <2>4 DEF CountedInv
  <2>6. i \notin notified'
    BY <1>2, <2>2, <2>5
  <2>7. dead' \in {0, dead} \/ (dead' = dead + 1 /\ dead + 1 < DeadCycles)
    BY <1>2, <1>3, <2>2, <2>5, Given DEF More, AtMost
  <2>8. dead' < DeadCycles /\ dead' \in Nat
    BY <1>3, <2>5, <2>7, Given
  <2>9. CASE i \in Missed
    <3>1. fails'[i] = AtMost(fails[i] + 1, FailsToReport)
          /\ hist'[i].unseen = AtMost(hist[i].unseen + 1, MostUnseen)
      BY <1>1, <1>5, <2>9, ReadApplied
    <3>2. fails'[i] = fails[i] + 1
      BY <1>3, <2>2, <2>5, <2>9, <3>1, Given DEF Told, AtMost
    <3>3. hist'[i].unseen <= hist[i].unseen + 1
      BY <1>3, <3>1, Given DEF AtMost
    <3>4. hist'[i].unseen \in Int
      BY <1>3, <3>1, Given DEF AtMost
    <3>5. fails'[i] * DeadCycles = fails[i] * DeadCycles + DeadCycles
      BY <1>3, <3>2
    <3>. HIDE DEF PollInv
    <3>. DEFINE p == fails[i] * DeadCycles
    <3>6. p \in Nat /\ hist[i].unseen <= p + dead /\ fails'[i] * DeadCycles = p + DeadCycles
      BY <1>3, <2>5, <3>5
    <3>. HIDE DEF p
    <3>7. hist'[i].unseen <= p + DeadCycles + dead'
      BY <1>3, <2>5, <2>8, <3>3, <3>4, <3>6, Given
    <3>. QED BY <2>6, <2>8, <3>6, <3>7
  <2>10. CASE i \in Present \ Missed
    <3>1. fails'[i] = fails[i] /\ hist'[i].unseen = AtMost(hist[i].unseen + 1, MostUnseen)
      BY <1>5, <2>10, ReadApplied
    <3>2. WholeBatch
      BY <1>5, <2>10 DEF Missed, Heard
    <3>3. dead' = dead + 1
      BY <1>2, <1>3, <2>2, <2>5, <3>2, Given DEF WholeBatch, More, AtMost
    <3>4. hist'[i].unseen <= hist[i].unseen + 1 /\ hist'[i].unseen \in Int
      BY <1>3, <3>1, Given DEF AtMost
    <3>. HIDE DEF PollInv
    <3>. DEFINE p == fails[i] * DeadCycles
    <3>5. p \in Nat /\ hist[i].unseen <= p + dead /\ fails'[i] * DeadCycles = p
      BY <1>3, <2>5, <3>1
    <3>. HIDE DEF p
    <3>6. hist'[i].unseen <= p + dead'
      BY <1>3, <3>3, <3>4, <3>5
    <3>. QED BY <2>6, <2>8, <3>5, <3>6
  <2>11. CASE i \notin Present
    <3>1. fails'[i] = fails[i] /\ hist'[i] = hist[i]
      BY <1>1, <1>5, <2>11, ReadApplied
    <3>2. hist'[i].unseen = 0
      BY <2>1, <2>5, <2>11, <3>1 DEF Present
    <3>. QED BY <1>3, <2>6, <2>8, <3>1, <3>2
  <2>. QED BY <2>9, <2>10, <2>11
<1>. QED BY <1>4, <1>5

LEMMA OutageCounted ==
    ASSUME PollInv, DeadCycle, poll'.pc = "none", entities' = entities
    PROVE  CountedInv'
<1>. USE DEF PollInv
<1>. SUFFICES ASSUME NEW i \in Ids, Stands(i)'
              PROVE  /\ i \notin notified' /\ dead' < DeadCycles
                     /\ hist'[i].unseen <= fails'[i] * DeadCycles + dead'
  BY DEF CountedInv
<1>1. /\ UNCHANGED <<fails, notified>> /\ dead' = More(dead) /\ i \in entities
      /\ shown'[i] = (IF i \in entities /\ dead + 1 = DeadCycles THEN Nothing ELSE shown[i])
      /\ hist'[i] = [hist[i] EXCEPT !.unseen = AtMost(hist[i].unseen + 1, MostUnseen)]
  BY DEF DeadCycle, Unseen, Stands
<1>2. /\ fails[i] \in Nat /\ hist[i].unseen \in 0..MostUnseen /\ dead \in Nat
      /\ hist'[i].refilled = hist[i].refilled
      /\ hist'[i].unseen = AtMost(hist[i].unseen + 1, MostUnseen)
  BY <1>1, Given DEF PollTypes, PollTypeOK, HistType
<1>3. shown[i] # Nothing /\ dead + 1 # DeadCycles
  BY <1>1 DEF Stands
<1>4. Stands(i)
  BY <1>1, <1>2, <1>3 DEF Stands
<1>5. i \notin notified /\ dead < DeadCycles /\ hist[i].unseen <= fails[i] * DeadCycles + dead
  BY <1>4 DEF CountedInv
<1>6. dead' = dead + 1 /\ dead' < DeadCycles
  BY <1>1, <1>2, <1>3, <1>5, Given DEF More, AtMost
<1>7. hist'[i].unseen <= hist[i].unseen + 1 /\ hist'[i].unseen \in Int
  BY <1>2, Given DEF AtMost
<1>. DEFINE p == fails[i] * DeadCycles
<1>8. p \in Nat
  BY <1>2, Cycles, Given
<1>9. hist[i].unseen <= p + dead /\ fails'[i] * DeadCycles = p
  BY <1>1, <1>5
<1>. HIDE DEF p, PollInv
<1>10. hist'[i].unseen <= p + dead'
  BY <1>2, <1>6, <1>7, <1>8, <1>9
<1>. QED BY <1>1, <1>5, <1>6, <1>9, <1>10

LEMMA NextCounted ==
    PollInv /\ [PollNext]_pollVars => CountedInv'
<1>. SUFFICES ASSUME PollInv, [PollNext]_pollVars PROVE CountedInv'
  OBVIOUS
<1>. USE DEF PollInv
<1>1. CASE \/ SetUp \/ UnloadBegins \/ UnloadIsRefused
           \/ OthersTake \/ OthersDone \/ UNCHANGED pollVars
  <2>1. UNCHANGED <<shown, fails, notified, dead, entities, hist, poll>>
    BY <1>1 DEF SetUp, UnloadBegins, UnloadIsRefused, OthersTake, OthersDone,
                pollVars, Tally, Wiring, Chain
  <2>. QED BY <2>1, CountedKept DEF Stands, CountedInv
<1>2. CASE Stop
  BY <1>2 DEF Stop, CountedInv, Stands
<1>3. CASE PollBegins
  <2>1. UNCHANGED <<shown, fails, notified, dead, entities, hist>> /\ poll.pc = "none"
        /\ (poll' = poll \/ poll'.asked = Due)
    BY <1>3 DEF PollBegins, Tally
  <2>2. ASSUME NEW i \in Ids, Stands(i) PROVE i \in Due
    <3>1. i \in entities /\ i \notin notified
      BY <2>2 DEF CountedInv, Stands
    <3>2. askedAt[i] = "never"
      BY <3>1 DEF TallyInv
    <3>. QED BY <3>1, <3>2 DEF Due
  <2>. QED BY <2>1, <2>2, CountedKept DEF Stands
<1>4. CASE Resume
  <2>1. poll'.pc = "none" /\ entities' = entities
    BY <1>4, ResumeIs DEF NoPoll
  <2>2. CASE UNCHANGED <<shown, fails, notified, issues, askedAt, dead, hist>>
    BY <2>1, <2>2, CountedKept DEF Stands
  <2>. QED BY <1>4, <2>1, <2>2, ResumeIs, ReadCounted, OutageCounted
<1>5. CASE ResumeNobody
  <2>1. UNCHANGED <<shown, fails, notified, dead, entities, hist>> /\ poll'.pc = "none"
    BY <1>5 DEF ResumeNobody, Tally, Wiring, NoPoll
  <2>. QED BY <2>1, CountedKept DEF Stands
<1>6. ASSUME NEW how \in {"done", "aborted", "failed"}, WorkerEnds(how) PROVE CountedInv'
  <2>1. UNCHANGED <<shown, fails, notified, dead, entities, hist>>
        /\ poll.pc # "none" /\ (poll'.pc = "none" \/ poll'.asked = poll.asked)
    BY <1>6 DEF WorkerEnds, Tally, Wiring, NoPoll, PollTypes
  <2>. QED BY <2>1, CountedKept DEF Stands, CountedInv
<1>7. ASSUME NEW i \in Ids, ReadId(i) \/ DayPasses(i) PROVE CountedInv'
  <2>1. UNCHANGED <<shown, fails, notified, dead, entities, hist>>
        /\ poll'.pc = poll.pc /\ poll'.asked = poll.asked
    BY <1>7 DEF ReadId, DayPasses, Tally, Wiring, Chain, PollTypes
  <2>. QED BY <2>1, CountedKept DEF Stands, CountedInv
<1>8. ASSUME NEW i \in Ids, Attach(i) PROVE CountedInv'
  <2>1. /\ UNCHANGED <<shown, fails, notified, dead, poll>> /\ i \in waiting /\ dead = 0
        /\ entities' = entities \cup {i}
    BY <1>8 DEF Attach, Tally
  <2>2. hist'[i].unseen = 0 /\ \A j \in Ids \ {i} : hist'[j] = hist[j]
    BY <1>8, AttachIs
  <2>3. i \notin notified
    BY <2>1 DEF TallyInv
  <2>4. fails[i] * DeadCycles \in Nat
    BY SMTT(40), Cycles, Given DEF PollTypes, PollTypeOK
  <2>5. ASSUME NEW j \in Ids \ {i}, Stands(j)' PROVE Stands(j)
    BY <2>1, <2>2, <2>5 DEF Stands
  <2>. QED BY <2>1, <2>2, <2>3, <2>4, <2>5, Given DEF CountedInv
<1>9. ASSUME NEW i \in Ids, Detach(i) PROVE CountedInv'
  <2>1. UNCHANGED <<shown, dead, poll>> /\ entities' = entities \ {i}
    BY <1>9 DEF Detach, Chain
  <2>2. Forgets({i}) /\ \A j \in Ids \ {i} : hist'[j] = hist[j]
    BY <1>9, DetachIs
  <2>3. notified' \subseteq notified /\ \A j \in Ids \ {i} : fails'[j] = fails[j]
    BY <2>2 DEF Forgets
  <2>4. ASSUME NEW j \in Ids, Stands(j)' PROVE j # i /\ Stands(j)
    BY <2>1, <2>2, <2>4 DEF Stands
  <2>. QED BY <2>1, <2>2, <2>3, <2>4 DEF CountedInv
<1>10. ASSUME NEW i \in Ids, Rename(i) PROVE CountedInv'
  <2>1. UNCHANGED <<shown, dead, poll, entities>>
    BY <1>10 DEF Rename
  <2>2. /\ Forgets({i}) /\ hist'[i].refilled = hist[i].refilled
        /\ \A j \in Ids \ {i} : hist'[j] = hist[j]
    BY <1>10, RenameIs
  <2>3. /\ notified' = notified \ {i} /\ \A j \in Ids \ {i} : fails'[j] = fails[j]
        /\ fails'[i] = 0 /\ hist'[i].unseen = 0
    BY <2>2 DEF Forgets
  <2>4. ASSUME NEW j \in Ids, Stands(j)' PROVE Stands(j)
    BY <2>1, <2>2, <2>4 DEF Stands
  <2>5. 0 * DeadCycles = 0 /\ dead \in Nat
    BY Given DEF PollTypes, PollTypeOK
  <2>. QED BY <2>1, <2>2, <2>3, <2>4, <2>5, Given DEF CountedInv
<1>11. ASSUME NEW i \in Ids, WriteShown(i) PROVE CountedInv'
  <2>1. UNCHANGED <<entities, poll>>
    BY <1>11, WriteApplied
  <2>2. CASE Confirms(i)
    <3>1. /\ notified' = notified \ {i} /\ dead' = 0
          /\ shown' = [shown EXCEPT ![i] = write[i].val]
          /\ fails' = [fails EXCEPT ![i] = 0]
          /\ \A j \in Ids : hist'[j].unseen = 0
          /\ \A j \in Ids \ {i} : hist'[j].refilled = hist[j].refilled
      BY <2>2 DEF Confirms
    <3>2. ASSUME NEW j \in Ids, Stands(j)' PROVE j \notin notified'
      <4>1. CASE j = i
        BY <3>1, <4>1
      <4>2. CASE j # i
        <5>1. Stands(j)
          BY <2>1, <3>1, <3>2, <4>2 DEF Stands, PollTypes, PollTypeOK
        <5>. QED BY <3>1, <5>1 DEF CountedInv
      <4>. QED BY <4>1, <4>2
    <3>3. ASSUME NEW j \in Ids PROVE fails'[j] * DeadCycles \in Nat
      <4>1. fails'[j] \in Nat
        BY <3>1, Given DEF PollTypes, PollTypeOK
      <4>. QED BY <4>1, Cycles, Given
    <3>. QED BY <3>1, <3>2, <3>3, Given DEF CountedInv
  <2>3. CASE Refuses(i)
    <3>1. /\ UNCHANGED <<fails, notified, dead>> /\ hist'[i].refilled
          /\ shown' = [shown EXCEPT ![i] = write[i].val]
          /\ \A j \in Ids \ {i} : hist'[j] = hist[j]
      BY <2>3 DEF Refuses
    <3>2. ASSUME NEW j \in Ids, Stands(j)' PROVE j # i /\ Stands(j)
      BY <2>1, <3>1, <3>2 DEF Stands, PollTypes, PollTypeOK
    <3>. QED BY <2>1, <3>1, <3>2 DEF CountedInv
  <2>4. CASE UNCHANGED <<shown, fails, notified, issues, askedAt, dead, hist>>
    BY <2>1, <2>4, CountedKept DEF Stands, CountedInv
  <2>. QED BY <1>11, <2>2, <2>3, <2>4, WriteApplied
<1>12. ASSUME NEW i \in Ids,
              \/ \E out \in {"verified", "refused", "failed"}, made \in BOOLEAN :
                    WriteEnds(i, out, made)
              \/ \E route \in Routes : BeginWrite(i, route)
       PROVE  CountedInv'
  <2>1. UNCHANGED <<shown, fails, notified, dead, entities, hist, poll>>
    BY <1>12 DEF WriteEnds, BeginWrite, Tally, Wiring, Chain
  <2>. QED BY <2>1, CountedKept DEF Stands, CountedInv
<1>. QED
  BY <1>1, <1>2, <1>3, <1>4, <1>5, <1>6, <1>7, <1>8, <1>9, <1>10, <1>11, <1>12, StepsAre
  DEF ThatWrites

-----------------------------------------------------------------------------
(* What is shown and what is confirmed *)

(* Nothing is read or written, and the entities show what they did.        *)
LEMMA NewerKept ==
    ASSUME NewerInv, UNCHANGED <<shown, write, change>>,
           \A i \in Ids : hist'[i].known = hist[i].known,
           poll'.got = poll.got \/ DOMAIN poll'.got = {},
           \A i \in Ids : Ahead(i)' => Ahead(i)
    PROVE  NewerInv'
BY DEF NewerInv

LEMMA ResumeNewer == ASSUME PollInv, Resume PROVE NewerInv'
<1>. USE DEF PollInv
<1>1. UNCHANGED <<write, change>> /\ DOMAIN poll'.got = {}
  BY ResumeIs DEF NoPoll
<1>2. CASE ApplyRead
  <2>1. ASSUME NEW i \in Ids PROVE hist'[i].known = hist[i].known
    BY <1>2, ReadApplied
  <2>2. ASSUME NEW i \in Ids, shown'[i] # Nothing PROVE shown'[i] >= hist[i].known
    <3>1. CASE i \in Heard
      <4>1. shown'[i] = IF i \in Writing THEN shown[i] ELSE poll.got[i]
        BY <1>2, <3>1, ReadApplied
      <4>2. i \in DOMAIN poll.got /\ poll.got[i] # Nothing
        BY <3>1 DEF Heard, Answered
      <4>. QED BY <2>2, <4>1, <4>2 DEF NewerInv
    <3>2. CASE i \notin Heard
      <4>1. shown'[i] \in {Nothing, shown[i]}
        BY <1>2, <3>2, ReadApplied
      <4>. QED BY <2>2, <4>1 DEF NewerInv
    <3>. QED BY <3>1, <3>2
  <2>. QED BY <1>1, <2>1, <2>2 DEF NewerInv
<1>3. CASE DeadCycle
  <2>1. \A i \in Ids : hist'[i].known = hist[i].known /\ shown'[i] \in {Nothing, shown[i]}
    BY <1>3 DEF DeadCycle, Unseen, PollTypes, HistType
  <2>. QED BY <1>1, <2>1 DEF NewerInv
<1>4. CASE UNCHANGED <<shown, fails, notified, issues, askedAt, dead, hist>>
  BY <1>1, <1>4 DEF NewerInv
<1>. QED BY <1>2, <1>3, <1>4, ResumeIs

LEMMA NextNewer ==
    PollInv /\ [PollNext]_pollVars => NewerInv'
<1>. SUFFICES ASSUME PollInv, [PollNext]_pollVars PROVE NewerInv'
  OBVIOUS
<1>. USE DEF PollInv
<1>1. CASE \/ SetUp \/ UnloadBegins \/ UnloadIsRefused \/ PollBegins
           \/ OthersTake \/ OthersDone \/ UNCHANGED pollVars
  <2>1. UNCHANGED <<shown, write, change, hist, inbox>>
    BY <1>1 DEF SetUp, UnloadBegins, UnloadIsRefused, PollBegins, OthersTake, OthersDone,
                pollVars, Wiring, Chain, Portal
  <2>2. poll' = poll \/ DOMAIN poll'.got = {}
    BY <1>1 DEF SetUp, UnloadBegins, UnloadIsRefused, PollBegins, OthersTake, OthersDone,
                pollVars, Wiring, Chain, Portal
  <2>. QED BY <2>1, <2>2, NewerKept DEF Ahead
<1>2. CASE Stop
  <2>1. UNCHANGED <<shown, write, change, inbox>> /\ poll'.got = poll.got
    BY <1>2 DEF Stop, Portal, PollTypes
  <2>2. \A i \in Ids : hist'[i].known = hist[i].known
    BY <1>2, StopIs DEF Forgets
  <2>. QED BY <2>1, <2>2, NewerKept DEF Ahead
<1>3. CASE Resume
  BY <1>3, ResumeNewer
<1>4. CASE ResumeNobody
  <2>1. UNCHANGED <<shown, write, change, hist>> /\ DOMAIN poll'.got = {}
    BY <1>4 DEF ResumeNobody, NoPoll
  <2>. QED BY <2>1 DEF NewerInv
<1>5. ASSUME NEW how \in {"done", "aborted", "failed"}, WorkerEnds(how) PROVE NewerInv'
  <2>1. UNCHANGED <<shown, write, change, hist>> /\ poll.pc \in {"reading", "orphan"}
    BY <1>5 DEF WorkerEnds
  <2>2. CASE poll' = NoPoll
    <3>1. DOMAIN poll'.got = {}
      BY <2>2 DEF NoPoll
    <3>. QED BY <2>1, <3>1 DEF NewerInv
  <2>3. CASE poll'.got = poll.got /\ inbox' = Append(inbox, "poll")
    <3>1. ~Queued("poll")
      BY <2>1 DEF TakenInv, ResultDue
    <3>2. \A i \in Ids : Ahead(i)' => Ahead(i)
      BY <2>3, <3>1, Appended, Given DEF TakenInv
    <3>. QED BY <2>1, <2>3, <3>2, NewerKept
  <2>. QED BY <1>5, <2>2, <2>3 DEF WorkerEnds, PollTypes
<1>6. ASSUME NEW i \in Ids, ReadId(i) PROVE NewerInv'
  <2>1. UNCHANGED <<shown, write, change, hist, inbox>> /\ poll.pc \in {"reading", "orphan"}
    BY <1>6 DEF ReadId, Portal
  <2>2. PICK v \in {change[i], Nothing} :
           poll'.got = [j \in DOMAIN poll.got \cup {i} |-> IF j = i THEN v ELSE poll.got[j]]
    BY <1>6 DEF ReadId, PollTypes
  <2>3. ASSUME NEW j \in DOMAIN poll'.got, poll'.got[j] # Nothing
        PROVE  /\ poll'.got[j] >= hist[j].known
               /\ Ahead(j) => poll'.got[j] >= write[j].val
    <3>1. CASE j = i
      <4>1. poll'.got[j] = change[i]
        BY <2>2, <2>3, <3>1
      <4>2. Ahead(j) => write[i].pc = "done"
        BY <3>1 DEF Ahead, Queued, TakenInv
      <4>. QED BY <3>1, <4>1, <4>2 DEF NewerInv, PollTypes, PollTypeOK, HistType, WriteType
    <3>2. CASE j # i
      <4>1. j \in DOMAIN poll.got /\ poll'.got[j] = poll.got[j] /\ j \in Ids
        BY <2>2, <3>2 DEF PollTypes
      <4>. QED BY <2>3, <4>1 DEF NewerInv
    <3>. QED BY <3>1, <3>2
  <2>. QED BY <2>1, <2>3 DEF NewerInv, Ahead
<1>7. ASSUME NEW i \in Ids, Attach(i) \/ Detach(i) \/ Rename(i) \/ DayPasses(i)
      PROVE  NewerInv'
  <2>1. UNCHANGED <<shown, write, change, inbox, poll>>
    BY <1>7 DEF Attach, Detach, Rename, DayPasses, Portal, Chain
  <2>2. \A j \in Ids : hist'[j].known = hist[j].known
    <3>1. CASE Attach(i)
      BY <3>1, AttachIs
    <3>2. CASE Detach(i) \/ Rename(i)
      <4>1. Forgets({i})
        BY <3>2, DetachIs, RenameIs
      <4>. QED BY <4>1 DEF Forgets
    <3>3. CASE DayPasses(i)
      BY <3>3 DEF DayPasses
    <3>. QED BY <1>7, <3>1, <3>2, <3>3
  <2>. QED BY <2>1, <2>2, NewerKept DEF Ahead
<1>8. ASSUME NEW i \in Ids, NEW route \in Routes, BeginWrite(i, route) PROVE NewerInv'
  <2>1. UNCHANGED <<shown, change, hist, inbox, poll>> /\ write[i].pc = "none"
    BY <1>8 DEF BeginWrite, Chain
  <2>2. write'[i].pc = "running" /\ \A j \in Ids \ {i} : write'[j] = write[j]
    BY <1>8 DEF BeginWrite, PollTypes, NoWrite
  <2>3. ~Ahead(i) /\ \A j : Ahead(j)' <=> Ahead(j)
    BY <2>1 DEF Ahead, Queued, TakenInv
  <2>. QED BY <2>1, <2>2, <2>3 DEF NewerInv
<1>9. ASSUME NEW i \in Ids, NEW out, NEW made \in BOOLEAN, WriteEnds(i, out, made)
      PROVE  NewerInv'
  <2>1. /\ UNCHANGED <<shown, hist, poll>> /\ write[i].pc = "running"
        /\ inbox' = Append(inbox, i) /\ expertLock = i
        /\ change' = (IF made THEN [change EXCEPT ![i] = @ + 1] ELSE change)
        /\ write' = [write EXCEPT ![i].pc = "done", ![i].out = out, ![i].val = change'[i]]
    BY <1>9 DEF WriteEnds, Chain, TakenInv
  <2>2. write'[i].val = change'[i] /\ \A j \in Ids \ {i} : write'[j] = write[j]
    BY <2>1 DEF PollTypes, WriteType
  <2>3. \A j \in Ids : change'[j] >= change[j] /\ change[j] \in Int /\ change'[j] \in Int
    <3>1. \A j \in Ids : change[j] \in Int
      BY Given DEF PollTypes, PollTypeOK
    <3>2. CASE made
      <4>1. change' = [change EXCEPT ![i] = change[i] + 1]
        BY <2>1, <3>2
      <4>2. \A j \in Ids : change'[j] = (IF j = i THEN change[j] + 1 ELSE change[j])
        BY <4>1 DEF PollTypes, PollTypeOK
      <4>. QED BY <3>1, <4>2
    <3>3. CASE ~made
      BY <2>1, <3>1, <3>3
    <3>. QED BY <3>2, <3>3
  <2>4. ~Queued(i) /\ poll.pc \notin {"reading", "orphan"}
    BY <2>1, Given DEF TakenInv
  <2>5. \A j \in Ids \ {i} : Ahead(j)' => Ahead(j)
    BY <2>1, <2>4, Appended DEF TakenInv
  <2>6. Ahead(i)' => DOMAIN poll.got = {}
    <3>1. Ahead(i)' => ~Queued("poll")
      BY <2>1, <2>4, Appended DEF TakenInv
    <3>2. ~Queued("poll") => poll.pc = "none"
      BY <2>4 DEF TakenInv, ResultDue, PollTypes, PollTypeOK
    <3>. QED BY <3>1, <3>2 DEF ChainInv
  <2>7. ASSUME NEW j \in Ids
        PROVE  /\ hist[j].known \in Int /\ hist[j].known <= change[j]
               /\ write[j].pc = "done" => /\ write[j].val >= hist[j].known
                                          /\ write[j].val <= change[j] /\ write[j].val \in Int
    BY Given DEF NewerInv, PollTypes, HistType, WriteType
  <2>8. ASSUME NEW j \in Ids
        PROVE  /\ hist'[j].known <= change'[j]
               /\ write'[j].pc = "done" => /\ write'[j].val >= hist'[j].known
                                           /\ write'[j].val <= change'[j]
    <3>1. /\ change'[j] >= change[j] /\ change[j] \in Int /\ change'[j] \in Int
          /\ hist'[j] = hist[j]
      BY <2>1, <2>3
    <3>2. hist'[j].known <= change'[j]
      BY <2>7, <3>1
    <3>3. CASE j = i
      BY <2>2, <3>1, <3>2, <3>3
    <3>4. CASE j # i
      BY <2>2, <2>7, <3>1, <3>2, <3>4
    <3>. QED BY <3>2, <3>3, <3>4
  <2>9. ASSUME NEW j \in Ids, j \in DOMAIN poll'.got, poll'.got[j] # Nothing
        PROVE  /\ poll'.got[j] >= hist'[j].known
               /\ Ahead(j)' => poll'.got[j] >= write'[j].val
    BY <2>1, <2>2, <2>5, <2>6, <2>9 DEF NewerInv
  <2>. QED BY <2>1, <2>8, <2>9 DEF NewerInv
<1>10. ASSUME NEW i \in Ids, WriteShown(i) PROVE NewerInv'
  <2>1. /\ Arrives(i) /\ UNCHANGED <<poll, change>> /\ i # "poll"
        /\ write' = [write EXCEPT ![i] = NoWrite]
    BY <1>10, WriteApplied, Given
  <2>2. /\ Queued(i) /\ Ahead(i) /\ \A j : Ahead(j)' => Ahead(j)
        /\ ~Queued(i)'
    BY <2>1, Delivered DEF TakenInv
  <2>3. ~Ahead(i)'
    BY <2>2 DEF Ahead, Queued
  <2>4. write[i].pc = "done" /\ write'[i].pc = "none"
        /\ \A j \in Ids \ {i} : write'[j] = write[j]
    BY <2>1, <2>2 DEF TakenInv, PollTypes, NoWrite
  <2>5. write[i].val >= hist[i].known /\ write[i].val <= change[i] /\ write[i].val \in Int
    BY <2>4 DEF NewerInv, PollTypes, WriteType
  <2>6. CASE Confirms(i)
    <3>1. /\ shown' = [shown EXCEPT ![i] = write[i].val] /\ hist'[i].known = write[i].val
          /\ \A j \in Ids \ {i} : hist'[j].known = hist[j].known
      BY <2>6 DEF Confirms
    <3>2. shown'[i] = write[i].val /\ \A j \in Ids \ {i} : shown'[j] = shown[j]
      BY <3>1 DEF PollTypes, PollTypeOK
    <3>. QED BY <2>1, <2>2, <2>3, <2>4, <2>5, <3>1, <3>2 DEF NewerInv
  <2>7. CASE Refuses(i)
    <3>1. /\ shown' = [shown EXCEPT ![i] = write[i].val]
          /\ \A j \in Ids : hist'[j].known = hist[j].known
      BY <2>7 DEF Refuses
    <3>2. shown'[i] = write[i].val /\ \A j \in Ids \ {i} : shown'[j] = shown[j]
      BY <3>1 DEF PollTypes, PollTypeOK
    <3>. QED BY <2>1, <2>2, <2>3, <2>4, <2>5, <3>1, <3>2 DEF NewerInv
  <2>8. CASE UNCHANGED <<shown, fails, notified, issues, askedAt, dead, hist>>
    BY <2>1, <2>2, <2>3, <2>4, <2>8 DEF NewerInv
  <2>. QED BY <1>10, <2>6, <2>7, <2>8, WriteApplied
<1>. QED
  BY <1>1, <1>2, <1>3, <1>4, <1>5, <1>6, <1>7, <1>8, <1>9, <1>10, StepsAre DEF ThatWrites

-----------------------------------------------------------------------------

(* The inductive invariant of the entry's expert entities, for any         *)
(* parameters and thresholds.                                              *)
THEOREM PollInvariance == PollSpec => []PollInv
<1>1. PollInit => PollInv
  BY InitPoll
<1>2. PollInv /\ [PollNext]_pollVars => PollInv'
  BY NextTypes, NextTaken, NextChain, NextTally, NextCounted, NextNewer DEF PollInv
<1>. QED BY <1>1, <1>2, PTL DEF PollSpec

(* Repair issues are exactly those of the reported parameters that are     *)
(* there, an outage of the whole read reports nobody, and there is one     *)
(* timer chain: ReportsMatch of ExpertPoll.                                *)
THEOREM ReportsMatching == PollSpec => []ReportsMatch
<1>1. PollInv => ReportsMatch
  <2>. SUFFICES ASSUME PollInv PROVE ReportsMatch
    OBVIOUS
  <2>1. PollTypeOK /\ OneChain /\ IssuesMatch
    BY DEF PollInv, PollTypes, ChainInv, TallyInv, IssuesMatch
  <2>2. OutagesBlameNobody
    BY DEF PollInv, PollTypes, PollTypeOK, TallyInv, OutagesBlameNobody
  <2>. QED BY <2>1, <2>2 DEF ReportsMatch
<1>. QED BY <1>1, PollInvariance, PTL

(* However outages and misses alternate with answers, removals and writes, *)
(* an entity shows no value that FailsToReport * DeadCycles cycles have    *)
(* not confirmed, and none older than its last confirmed write:            *)
(* ShownIsConfirmed of ExpertPoll.                                         *)
THEOREM ShownStaysConfirmed == PollSpec => []ShownIsConfirmed
<1>1. PollInv => ShownIsConfirmed
  <2>. SUFFICES ASSUME PollInv PROVE ShownIsConfirmed
    OBVIOUS
  <2>. USE DEF PollInv
  <2>1. ShownIsNewest
    BY DEF ShownIsNewest, NewerInv, PollTypes, PollTypeOK
  <2>2. ASSUME NEW i \in entities, shown[i] # Nothing, ~hist[i].refilled
        PROVE  hist[i].unseen <= Longest
    <3>1. i \in Ids /\ Stands(i)
      BY <2>2 DEF PollTypes, PollTypeOK, Stands
    <3>2. i \notin notified /\ dead < DeadCycles
          /\ hist[i].unseen <= fails[i] * DeadCycles + dead
      BY <3>1 DEF CountedInv
    <3>3. fails[i] \in Nat /\ fails[i] + 1 <= FailsToReport /\ dead \in Nat
          /\ hist[i].unseen \in Int
      <4>1. fails[i] \in 0..FailsToReport /\ dead \in 0..DeadCycles + 1
            /\ hist[i].unseen \in 0..MostUnseen /\ fails[i] # FailsToReport
        BY <3>1, <3>2 DEF TallyInv, PollTypes, PollTypeOK, HistType
      <4>. QED BY <4>1, Given
    <3>4. FailsToReport - (fails[i] + 1) \in Nat
      BY <3>3, Given
    <3>. DEFINE p == fails[i] * DeadCycles
                q == (FailsToReport - (fails[i] + 1)) * DeadCycles
    <3>5. p \in Nat /\ q \in Nat
      BY <3>3, <3>4, Cycles, Given
    <3>6. FailsToReport * DeadCycles = p + q + DeadCycles
      BY <3>3, Given, Z3
    <3>7. hist[i].unseen <= p + dead
      BY <3>2
    <3>. HIDE DEF p, q, PollInv
    <3>8. hist[i].unseen <= p + q + DeadCycles - 1
      BY <3>2, <3>3, <3>5, <3>7, Given
    <3>. QED BY <3>3, <3>5, <3>6, <3>8, Given DEF Longest
  <2>3. UnconfirmedValuesGo
    BY <2>2 DEF UnconfirmedValuesGo
  <2>. QED BY <2>1, <2>3 DEF ShownIsConfirmed
<1>. QED BY <1>1, PollInvariance, PTL
=============================================================================
