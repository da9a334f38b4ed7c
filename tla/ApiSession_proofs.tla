-------------------------- MODULE ApiSession_proofs --------------------------
(* Proofs about ApiSession, for any number of threads of each kind.        *)
EXTENDS ApiSession, TLAPS

(* What every proof below expands: the tuples of variables and the sets.   *)
USE DEF transport, pauses, pollLocals, history, Failures, NoFailure

-----------------------------------------------------------------------------
(* Type correctness *)

LEMMA InitTypeOK == Init => TypeOK
<1>. SUFFICES ASSUME Init PROVE TypeOK
  OBVIOUS
<1>1. call \in [attempt : {1, 2}, attempts : {1, 2}, resend : BOOLEAN, relogin : BOOLEAN]
  BY DEF Init
<1>2. pc \in [Threads -> {"idle", "queued"} \cup Inside]
  BY DEF Init
<1>3. validLogin \in BOOLEAN /\ devicesFetched \in BOOLEAN /\ blocked \in BOOLEAN
  BY DEF Init
<1>4. written \in BOOLEAN /\ closed \in BOOLEAN
  BY DEF Init
<1>. QED BY <1>1, <1>2, <1>3, <1>4 DEF Init, TypeOK, Stages

LEMMA LeaveTypeOK ==
  ASSUME TypeOK, NEW t \in Threads, Leave(t)
  PROVE  /\ lock' \in Threads \cup {Free}
         /\ pc' \in [Threads -> {"idle", "queued"} \cup Inside]
         /\ deadline' \in Polls \cup {Free}
         /\ reloginFailure' \in Failures \cup {NoFailure}
         /\ spent' \subseteq Polls /\ gaveUp' \subseteq Polls
  BY DEF TypeOK, Leave

LEMMA CallFailsTypeOK ==
  ASSUME TypeOK, NEW t \in Threads, NEW f \in Failures, CallFails(t, f)
  PROVE  /\ lock' \in Threads \cup {Free}
         /\ pc' \in [Threads -> {"idle", "queued"} \cup Inside]
         /\ deadline' \in Polls \cup {Free}
         /\ reloginFailure' \in Failures \cup {NoFailure}
         /\ spent' \subseteq Polls /\ gaveUp' \subseteq Polls
  BY LeaveTypeOK DEF TypeOK, CallFails, Inside

LEMMA LoginFailsTypeOK ==
  ASSUME TypeOK, NEW t \in Threads, NEW f \in Failures, LoginFails(t, f)
  PROVE  /\ lock' \in Threads \cup {Free}
         /\ pc' \in [Threads -> {"idle", "queued"} \cup Inside]
         /\ deadline' \in Polls \cup {Free}
         /\ reloginFailure' \in Failures \cup {NoFailure}
         /\ spent' \subseteq Polls /\ gaveUp' \subseteq Polls
  BY LeaveTypeOK DEF TypeOK, LoginFails, Inside

LEMMA BlockTypeOK ==
  ASSUME TypeOK, Block
  PROVE  blocked' \in BOOLEAN /\ slipped' \in Nat
<1>1. blocked' \in BOOLEAN
  BY DEF Block
<1>2. slipped' \in Nat
  BY DEF Block, TypeOK
<1>. QED BY <1>1, <1>2

LEMMA NextTypeOK == TypeOK /\ [Next]_vars => TypeOK'
<1>. SUFFICES ASSUME TypeOK, [Next]_vars PROVE TypeOK'
  OBVIOUS
<1>1. ASSUME NEW t \in Threads, Begin(t) PROVE TypeOK'
  BY <1>1 DEF Begin, TypeOK
<1>2. ASSUME NEW t \in Threads, Acquire(t) PROVE TypeOK'
  BY <1>2 DEF Acquire, TypeOK, FirstStage, Inside, Stages
<1>3. ASSUME NEW t \in Threads, GiveUp(t) PROVE TypeOK'
  BY <1>3 DEF GiveUp, TypeOK
<1>4. ASSUME NEW t \in Polls, BudgetRunsOut(t) PROVE TypeOK'
  BY <1>4 DEF BudgetRunsOut, TypeOK
<1>5. ASSUME NEW t \in Threads, EnterCycle(t) PROVE TypeOK'
  BY <1>5, LeaveTypeOK DEF EnterCycle, TypeOK, Stages
<1>6. ASSUME NEW t \in Threads, DevicesFetched(t) PROVE TypeOK'
  BY <1>6 DEF DevicesFetched, TypeOK, Stages
<1>7. ASSUME NEW t \in Threads, EnsureSession(t) PROVE TypeOK'
  BY ZenonT(60), <1>7 DEF EnsureSession, TypeOK, Stages, Inside
<1>8. ASSUME NEW t \in Threads, StartCall(t) PROVE TypeOK'
  BY <1>8 DEF StartCall, TypeOK, Inside
<1>9. ASSUME NEW t \in Threads, Finish(t) PROVE TypeOK'
  BY <1>9, LeaveTypeOK DEF Finish, TypeOK
<1>10. ASSUME NEW t \in Threads, Gate(t) PROVE TypeOK'
  BY <1>10, CallFailsTypeOK DEF Gate, TypeOK, Inside
<1>11. ASSUME NEW t \in Threads, Send(t) PROVE TypeOK'
  BY <1>11, LeaveTypeOK, CallFailsTypeOK DEF Send, PutOnTheWire, TypeOK, Inside
<1>12. ASSUME NEW t \in Threads, Answer(t) PROVE TypeOK'
  <2>1. CASE AnswerGood(t)
    BY <1>12, <2>1 DEF Answer, AnswerGood, TypeOK, Inside, Stages
  <2>2. CASE AnswerForbidden(t)
    BY ZenonT(60), <1>12, <2>2, CallFailsTypeOK DEF Answer, AnswerForbidden, Block, TypeOK
  <2>3. CASE AnswerExpired(t)
    BY ZenonT(60), <1>12, <2>3, CallFailsTypeOK DEF Answer, AnswerExpired, TypeOK, Inside
  <2>4. CASE AnswerLost(t)
    BY <1>12, <2>4, CallFailsTypeOK DEF Answer, AnswerLost, TypeOK, Inside
  <2>5. CASE AnswerBad(t)
    BY <1>12, <2>5, CallFailsTypeOK DEF Answer, AnswerBad, TypeOK
  <2>. QED BY <1>12, <2>1, <2>2, <2>3, <2>4, <2>5 DEF Answer
<1>13. ASSUME NEW t \in Threads, StartLogin(t) PROVE TypeOK'
  <2>1. validLogin' \in BOOLEAN /\ slipped' \in Nat
    BY <1>13 DEF StartLogin, PutOnTheWire, TypeOK
  <2>. QED
    BY <1>13, <2>1, LeaveTypeOK, LoginFailsTypeOK DEF StartLogin, PutOnTheWire, TypeOK, Inside
<1>14. ASSUME NEW t \in Threads, LoginAnswer(t) PROVE TypeOK'
  <2>1. CASE LoginAccepted(t)
    BY <1>14, <2>1 DEF LoginAnswer, LoginAccepted, TypeOK, Inside
  <2>2. CASE LoginRejected(t)
    BY <1>14, <2>2, LoginFailsTypeOK DEF LoginAnswer, LoginRejected, TypeOK
  <2>3. CASE LoginForbidden(t)
    <3>1. blocked' \in BOOLEAN /\ slipped' \in Nat
      <4>1. CASE Block
        BY <4>1, BlockTypeOK
      <4>2. CASE UNCHANGED <<blocked, slipped>>
        BY <4>2 DEF TypeOK
      <4>. QED BY <2>3, <4>1, <4>2 DEF LoginForbidden
    <3>2. refusedLogins' \in 0..2
      BY <2>3 DEF LoginForbidden, TypeOK
    <3>3. PICK f \in Failures : LoginFails(t, f)
      BY <2>3 DEF LoginForbidden
    <3>4. UNCHANGED <<stage, call, session, validLogin, devicesFetched, history>>
      BY <1>14, <2>3 DEF LoginAnswer, LoginForbidden
    <3>. QED BY <3>1, <3>2, <3>3, <3>4, LoginFailsTypeOK DEF TypeOK
  <2>. QED BY <1>14, <2>1, <2>2, <2>3 DEF LoginAnswer
<1>15. ASSUME NEW t \in Threads, ResetTransport(t) PROVE TypeOK'
  BY <1>15, LeaveTypeOK DEF ResetTransport, TypeOK
<1>16. ASSUME NEW t \in Threads, CloseTransport(t) PROVE TypeOK'
  BY <1>16, LeaveTypeOK DEF CloseTransport, TypeOK
<1>17. ASSUME NEW t \in Threads, CloseAnyway(t) PROVE TypeOK'
  BY <1>17 DEF CloseAnyway, TypeOK
<1>18. CASE RefusedElsewhere
  BY <1>18 DEF RefusedElsewhere, Block, TypeOK
<1>19. CASE PauseEnds
  <2>1. blocked' \in BOOLEAN
    BY <1>19 DEF PauseEnds
  <2>. QED BY <1>19, <2>1 DEF PauseEnds, TypeOK
<1>20. CASE UNCHANGED vars
  BY <1>20 DEF vars, TypeOK
<1>. QED
  BY <1>1, <1>2, <1>3, <1>4, <1>5, <1>6, <1>7, <1>8, <1>9, <1>10, <1>11, <1>12,
     <1>13, <1>14, <1>15, <1>16, <1>17, <1>18, <1>19, <1>20
     DEF Next, Step, Threads, Requesters

(* Every variable keeps its type, whatever the threads do. *)
THEOREM TypeCorrect == Spec => []TypeOK
  BY InitTypeOK, NextTypeOK, PTL DEF Spec

-----------------------------------------------------------------------------
(* One thread inside the lock, and the deadline is its own *)

LockInv == OneInside /\ DeadlineIsTheHolders

(* The four ways a step treats the lock: it leaves it and the deadline     *)
(* alone, with its thread where it was or elsewhere inside; or its thread  *)
(* lets go.                                                                *)
LEMMA LockInvStays ==
  ASSUME TypeOK, LockInv, UNCHANGED <<lock, pc, deadline>>
  PROVE  LockInv'
  BY DEF LockInv, OneInside, DeadlineIsTheHolders

LEMMA LockInvOutside ==
  ASSUME TypeOK, LockInv, NEW t \in Threads, pc[t] \notin Inside,
         NEW x \in {"idle", "queued"}, pc' = [pc EXCEPT ![t] = x],
         UNCHANGED <<lock, deadline>>
  PROVE  LockInv'
  BY DEF LockInv, OneInside, DeadlineIsTheHolders, TypeOK, Inside

LEMMA LockInvInside ==
  ASSUME TypeOK, LockInv, NEW t \in Threads, pc[t] \in Inside,
         NEW x \in Inside, pc' = [pc EXCEPT ![t] = x],
         UNCHANGED <<lock, deadline>>
  PROVE  LockInv'
  BY DEF LockInv, OneInside, DeadlineIsTheHolders, TypeOK

LEMMA LockInvLeaves ==
  ASSUME TypeOK, LockInv, NEW t \in Threads, pc[t] \in Inside,
         lock' = Free, pc' = [pc EXCEPT ![t] = "idle"],
         deadline' = IF t \in Polls THEN Free ELSE deadline
  PROVE  LockInv'
<1>1. lock = t /\ \A u \in Threads : pc[u] \in Inside => u = t
  BY DEF LockInv, OneInside
<1>2. Free \notin Threads /\ "idle" \notin Inside
  BY ThreadsAssumption DEF Inside
<1>3. OneInside'
  BY <1>1, <1>2 DEF OneInside, TypeOK
<1>4. DeadlineIsTheHolders'
  BY <1>1, <1>2 DEF LockInv, DeadlineIsTheHolders, Threads, Requesters
<1>. QED BY <1>3, <1>4 DEF LockInv

LEMMA CallFailsLockInv ==
  ASSUME TypeOK, LockInv, NEW t \in Threads, pc[t] \in Inside, NEW f, CallFails(t, f)
  PROVE  LockInv'
<1>1. CASE Leave(t)
  BY <1>1, LockInvLeaves DEF Leave
<1>2. CASE pc' = [pc EXCEPT ![t] = "held"] /\ UNCHANGED <<lock, pollLocals>>
  BY <1>2, LockInvInside DEF Inside
<1>. QED BY <1>1, <1>2 DEF CallFails

LEMMA LoginFailsLockInv ==
  ASSUME TypeOK, LockInv, NEW t \in Threads, pc[t] \in Inside, NEW f, LoginFails(t, f)
  PROVE  LockInv'
<1>1. CASE /\ lock' = Free /\ pc' = [pc EXCEPT ![t] = "idle"]
           /\ deadline' = IF t \in Polls THEN Free ELSE deadline
  BY <1>1, LockInvLeaves
<1>2. CASE pc' = [pc EXCEPT ![t] = "held"] /\ UNCHANGED <<lock, deadline>>
  BY <1>2, LockInvInside DEF Inside
<1>. QED BY <1>1, <1>2 DEF LoginFails, Leave

LEMMA NextLockInv == TypeOK /\ LockInv /\ [Next]_vars => LockInv'
<1>. SUFFICES ASSUME TypeOK, LockInv, [Next]_vars PROVE LockInv'
  OBVIOUS
<1>. USE DEF Inside
<1>1. ASSUME NEW t \in Threads, Begin(t) PROVE LockInv'
  BY <1>1, LockInvOutside DEF Begin
<1>2. ASSUME NEW t \in Threads, Acquire(t) PROVE LockInv'
  <2>1. OneInside'
    BY <1>2, ThreadsAssumption DEF Acquire, LockInv, OneInside, TypeOK
  <2>2. DeadlineIsTheHolders'
    BY <1>2, ThreadsAssumption
       DEF Acquire, LockInv, DeadlineIsTheHolders, Threads, Requesters
  <2>. QED BY <2>1, <2>2 DEF LockInv
<1>3. ASSUME NEW t \in Threads, GiveUp(t) PROVE LockInv'
  BY <1>3, LockInvOutside DEF GiveUp
<1>4. ASSUME NEW t \in Polls, BudgetRunsOut(t) PROVE LockInv'
  BY <1>4, LockInvStays DEF BudgetRunsOut
<1>5. ASSUME NEW t \in Threads, EnterCycle(t) PROVE LockInv'
  BY <1>5, LockInvStays, LockInvLeaves DEF EnterCycle, Leave
<1>6. ASSUME NEW t \in Threads, DevicesFetched(t) PROVE LockInv'
  BY <1>6, LockInvStays DEF DevicesFetched
<1>7. ASSUME NEW t \in Threads, EnsureSession(t) PROVE LockInv'
  BY <1>7, LockInvStays, LockInvInside DEF EnsureSession
<1>8. ASSUME NEW t \in Threads, StartCall(t) PROVE LockInv'
  BY <1>8, LockInvInside DEF StartCall
<1>9. ASSUME NEW t \in Threads, Finish(t) PROVE LockInv'
  BY <1>9, LockInvLeaves DEF Finish, Leave
<1>10. ASSUME NEW t \in Threads, Gate(t) PROVE LockInv'
  BY <1>10, LockInvInside, CallFailsLockInv DEF Gate
<1>11. ASSUME NEW t \in Threads, Send(t) PROVE LockInv'
  BY <1>11, LockInvInside, LockInvLeaves, CallFailsLockInv DEF Send, PutOnTheWire, Leave
<1>12. ASSUME NEW t \in Threads, Answer(t) PROVE LockInv'
  BY <1>12, LockInvInside, CallFailsLockInv
     DEF Answer, AnswerGood, AnswerForbidden, AnswerExpired, AnswerLost, AnswerBad
<1>13. ASSUME NEW t \in Threads, StartLogin(t) PROVE LockInv'
  BY <1>13, LockInvInside, LockInvLeaves, LoginFailsLockInv
     DEF StartLogin, PutOnTheWire, Leave
<1>14. ASSUME NEW t \in Threads, LoginAnswer(t) PROVE LockInv'
  BY <1>14, LockInvInside, LoginFailsLockInv
     DEF LoginAnswer, LoginAccepted, LoginRejected, LoginForbidden
<1>15. ASSUME NEW t \in Threads, ResetTransport(t) PROVE LockInv'
  BY <1>15, LockInvLeaves DEF ResetTransport, Leave
<1>16. ASSUME NEW t \in Threads, CloseTransport(t) PROVE LockInv'
  BY <1>16, LockInvLeaves DEF CloseTransport, Leave
<1>17. ASSUME NEW t \in Threads, CloseAnyway(t) PROVE LockInv'
  BY <1>17, LockInvOutside DEF CloseAnyway
<1>18. CASE RefusedElsewhere \/ PauseEnds \/ UNCHANGED vars
  BY <1>18, LockInvStays DEF RefusedElsewhere, PauseEnds, vars
<1>. QED
  BY <1>1, <1>2, <1>3, <1>4, <1>5, <1>6, <1>7, <1>8, <1>9, <1>10, <1>11, <1>12,
     <1>13, <1>14, <1>15, <1>16, <1>17, <1>18
     DEF Next, Step, Threads, Requesters

LEMMA InitLockInv == Init => LockInv
  BY ThreadsAssumption
     DEF Init, LockInv, OneInside, DeadlineIsTheHolders, Inside, Threads, Requesters

LEMMA LockInvariant == Spec => [](TypeOK /\ LockInv)
  BY InitTypeOK, NextTypeOK, InitLockInv, NextLockInv, PTL DEF Spec

(* One thread at a time is past Acquire, and it is the one the lock names. *)
THEOREM MutualExclusion == Spec => []OneInside
  BY LockInvariant, PTL DEF LockInv

(* The deadline every thread reads is the holder's own, or there is none:  *)
(* no write and no other poll is stopped by the budget of a poll that has  *)
(* gone.                                                                   *)
THEOREM DeadlineIsOwn == Spec => []DeadlineIsTheHolders
  BY LockInvariant, PTL DEF LockInv

-----------------------------------------------------------------------------
(* At most one request slips into a running 403 pause *)

(* The request that slips had left the gate before the pause began; once   *)
(* it is sent, no thread is left between the gate and the wire.            *)
SlipInv ==
    \/ slipped = 0
    \/ slipped = 1 /\ blocked /\ \A t \in Threads : pc[t] # "pause"

LEMMA CallFailsMoves ==
  ASSUME NEW t, NEW f, CallFails(t, f)
  PROVE  \E x \in {"idle", "held"} : pc' = [pc EXCEPT ![t] = x]
  BY DEF CallFails, Leave

LEMMA LoginFailsMoves ==
  ASSUME NEW t, NEW f, LoginFails(t, f)
  PROVE  \E x \in {"idle", "held"} : pc' = [pc EXCEPT ![t] = x]
  BY DEF LoginFails, Leave

LEMMA SlipInvMoves ==
  ASSUME TypeOK, SlipInv, NEW t \in Threads, NEW x, x # "pause",
         pc' = [pc EXCEPT ![t] = x],
         UNCHANGED <<blocked, slipped>> \/ Block
  PROVE  SlipInv'
<1>1. \A u \in Threads : pc[u] # "pause" => pc'[u] # "pause"
  BY DEF TypeOK
<1>2. CASE UNCHANGED <<blocked, slipped>>
  BY <1>1, <1>2 DEF SlipInv
<1>3. CASE Block
  BY <1>1, <1>3 DEF SlipInv, Block
<1>. QED BY <1>2, <1>3

LEMMA NextSlipInv == TypeOK /\ LockInv /\ SlipInv /\ [Next]_vars => SlipInv'
<1>. SUFFICES ASSUME TypeOK, LockInv, SlipInv, [Next]_vars PROVE SlipInv'
  OBVIOUS
<1>1. ASSUME NEW t \in Threads,
             Begin(t) \/ Acquire(t) \/ GiveUp(t) \/ EnsureSession(t) \/ StartCall(t)
               \/ Finish(t) \/ ResetTransport(t) \/ CloseTransport(t) \/ CloseAnyway(t)
      PROVE  SlipInv'
  <2>1. \/ UNCHANGED pc
        \/ \E x \in {"queued", "held", "idle", "login", "call"} : pc' = [pc EXCEPT ![t] = x]
    BY <1>1 DEF Begin, Acquire, GiveUp, EnsureSession, StartCall, Finish,
                ResetTransport, CloseTransport, CloseAnyway, Leave
  <2>2. UNCHANGED <<blocked, slipped>>
    BY <1>1 DEF Begin, Acquire, GiveUp, EnsureSession, StartCall, Finish,
                ResetTransport, CloseTransport, CloseAnyway
  <2>3. CASE UNCHANGED pc
    BY <2>2, <2>3 DEF SlipInv
  <2>. QED BY <2>1, <2>2, <2>3, SlipInvMoves
<1>2. ASSUME NEW t \in Threads, EnterCycle(t) PROVE SlipInv'
  <2>1. CASE Leave(t)
    BY <1>2, <2>1, SlipInvMoves DEF EnterCycle, Leave
  <2>2. CASE UNCHANGED pc
    BY <1>2, <2>2 DEF EnterCycle, SlipInv
  <2>. QED BY <1>2, <2>1, <2>2 DEF EnterCycle
<1>3. ASSUME NEW t \in Polls, BudgetRunsOut(t) \/ DevicesFetched(t) PROVE SlipInv'
  BY <1>3 DEF BudgetRunsOut, DevicesFetched, SlipInv
<1>4. ASSUME NEW t \in Threads, Gate(t) PROVE SlipInv'
  <2>1. CASE blocked /\ CallFails(t, "other")
    BY <1>4, <2>1, CallFailsMoves, SlipInvMoves DEF Gate
  <2>2. CASE ~blocked
    BY <1>4, <2>2 DEF Gate, SlipInv
  <2>. QED BY <1>4, <2>1, <2>2 DEF Gate
<1>5. ASSUME NEW t \in Threads, Send(t) PROVE SlipInv'
  <2>1. CASE Leave(t) /\ UNCHANGED slipped
    BY <1>5, <2>1, SlipInvMoves DEF Send, Leave
  <2>2. CASE CallFails(t, "other") /\ UNCHANGED slipped
    BY <1>5, <2>2, CallFailsMoves, SlipInvMoves DEF Send
  <2>3. CASE PutOnTheWire(t, "sent")
    <3>1. slipped = 0 /\ \A u \in Threads : pc[u] = "pause" => u = t
      BY <1>5 DEF Send, SlipInv, LockInv, OneInside, Inside
    <3>2. \A u \in Threads : pc'[u] # "pause"
      BY <2>3, <3>1 DEF PutOnTheWire, TypeOK
    <3>. QED BY <1>5, <2>3, <3>1, <3>2 DEF Send, PutOnTheWire, SlipInv
  <2>. QED BY <1>5, <2>1, <2>2, <2>3 DEF Send
<1>6. ASSUME NEW t \in Threads, Answer(t) PROVE SlipInv'
  <2>1. \E x \in {"held", "idle", "login", "call"} : pc' = [pc EXCEPT ![t] = x]
    BY <1>6, CallFailsMoves
       DEF Answer, AnswerGood, AnswerForbidden, AnswerExpired, AnswerLost, AnswerBad
  <2>2. UNCHANGED <<blocked, slipped>> \/ Block
    BY <1>6 DEF Answer, AnswerGood, AnswerForbidden, AnswerExpired, AnswerLost, AnswerBad
  <2>. QED BY <2>1, <2>2, SlipInvMoves
<1>7. ASSUME NEW t \in Threads, StartLogin(t) PROVE SlipInv'
  <2>1. \E x \in {"held", "idle", "posted"} : pc' = [pc EXCEPT ![t] = x]
    BY <1>7, LoginFailsMoves DEF StartLogin, PutOnTheWire, Leave
  <2>2. UNCHANGED <<blocked, slipped>>
    BY <1>7 DEF StartLogin, PutOnTheWire
  <2>. QED BY <2>1, <2>2, SlipInvMoves
<1>8. ASSUME NEW t \in Threads, LoginAnswer(t) PROVE SlipInv'
  <2>1. \E x \in {"held", "idle", "call"} : pc' = [pc EXCEPT ![t] = x]
    BY <1>8, LoginFailsMoves DEF LoginAnswer, LoginAccepted, LoginRejected, LoginForbidden
  <2>2. UNCHANGED <<blocked, slipped>> \/ Block
    BY <1>8 DEF LoginAnswer, LoginAccepted, LoginRejected, LoginForbidden
  <2>. QED BY <2>1, <2>2, SlipInvMoves
<1>9. CASE RefusedElsewhere \/ PauseEnds \/ UNCHANGED vars
  BY <1>9 DEF RefusedElsewhere, Block, PauseEnds, vars, SlipInv
<1>. QED
  BY <1>1, <1>2, <1>3, <1>4, <1>5, <1>6, <1>7, <1>8, <1>9
     DEF Next, Step, Threads, Requesters

(* However many threads queue and retry, a pause costs the portal at most  *)
(* one request of this account after the 403 that began it.                *)
THEOREM PauseHolds == Spec => []AtMostOneSlips
<1>1. Init => SlipInv
  BY DEF Init, SlipInv
<1>2. SlipInv => AtMostOneSlips
  BY DEF SlipInv, AtMostOneSlips
<1>. QED BY <1>1, <1>2, LockInvariant, NextSlipInv, PTL DEF Spec

-----------------------------------------------------------------------------
(* A poll whose re-login failed asks the portal for nothing more *)

(* The stages at which an operation sends its own requests. *)
Asking == {"devices", "refresh", "reading"}

(* A poll that has given up is back in its body, at a stage where the      *)
(* stored failure stops each further request - or has ended.  The last     *)
(* conjunct is why: a re-login only happens inside a request.              *)
ReloginInv ==
    /\ FailureStaysInItsPoll
    /\ \A p \in gaveUp :
          \/ pc[p] = "idle"
          \/ pc[p] = "held" /\ reloginFailure # NoFailure /\ stage \in Asking
    /\ \A t \in Threads :
          \/ pc[t] \in {"call", "pause", "sent"}
          \/ pc[t] \in {"login", "posted"} /\ call.relogin
          => stage \in Asking

(* A thread lets go of the lock: what the poll remembered goes with it. *)
LEMMA ReloginInvLeaves ==
  ASSUME TypeOK, LockInv, ReloginInv, NEW t \in Threads, pc[t] \in Inside,
         Leave(t), UNCHANGED <<stage, call>>
  PROVE  ReloginInv'
<1>1. lock = t /\ \A u \in Threads : pc[u] \in Inside => u = t
  BY DEF LockInv, OneInside
<1>2. reloginFailure' = NoFailure
  BY <1>1 DEF Leave, ReloginInv, FailureStaysInItsPoll
<1>3. \A u \in Threads : pc'[u] = IF u = t THEN "idle" ELSE pc[u]
  BY DEF Leave, TypeOK
<1>4. \A u \in Threads : pc'[u] \notin Inside
  BY <1>1, <1>3 DEF Inside
<1>5. \A p \in gaveUp' : pc'[p] = "idle"
  BY <1>1, <1>3, <1>4 DEF Leave, ReloginInv, Inside, TypeOK, Threads, Requesters
<1>. QED BY <1>2, <1>4, <1>5 DEF ReloginInv, FailureStaysInItsPoll, Inside

(* A thread that has not given up goes from one place of its body to       *)
(* another; a poll that is still at it has not given up.                   *)
LEMMA ReloginInvInside ==
  ASSUME TypeOK, LockInv, ReloginInv, NEW t \in Threads, pc[t] \in Inside,
         t \notin gaveUp, NEW x \in Inside, pc' = [pc EXCEPT ![t] = x],
         UNCHANGED <<lock, reloginFailure, gaveUp>>,
         \/ x \in {"call", "pause", "sent"}
         \/ x \in {"login", "posted"} /\ call.relogin'
         => stage' \in Asking
  PROVE  ReloginInv'
<1>1. \A u \in Threads : pc[u] \in Inside => u = t
  BY DEF LockInv, OneInside
<1>2. \A u \in Threads : pc'[u] = IF u = t THEN x ELSE pc[u]
  BY DEF TypeOK
<1>3. \A p \in gaveUp' : pc'[p] = "idle"
  BY <1>1, <1>2 DEF ReloginInv, Inside, TypeOK, Threads, Requesters
<1>. QED BY <1>1, <1>2, <1>3 DEF ReloginInv, FailureStaysInItsPoll, Inside

(* A thread outside the lock begins, gives up or closes regardless. *)
LEMMA ReloginInvOutside ==
  ASSUME TypeOK, LockInv, ReloginInv, NEW t \in Threads, pc[t] \notin Inside,
         NEW x \in {"idle", "queued"}, pc' = [pc EXCEPT ![t] = x],
         (x = "idle" /\ gaveUp' = gaveUp) \/ gaveUp' = gaveUp \ {t},
         UNCHANGED <<lock, reloginFailure, stage, call>>
  PROVE  ReloginInv'
<1>1. lock # t /\ \A u \in Threads : pc'[u] = IF u = t THEN x ELSE pc[u]
  BY DEF LockInv, OneInside, TypeOK
<1>. QED BY <1>1 DEF ReloginInv, FailureStaysInItsPoll, TypeOK, Threads, Requesters

LEMMA CallFailsReloginInv ==
  ASSUME TypeOK, LockInv, ReloginInv, NEW t \in Threads, pc[t] \in Inside,
         t \notin gaveUp, NEW f, CallFails(t, f), UNCHANGED <<stage, call>>
  PROVE  ReloginInv'
<1>1. CASE Leave(t)
  BY <1>1, ReloginInvLeaves
<1>2. CASE pc' = [pc EXCEPT ![t] = "held"] /\ UNCHANGED <<lock, pollLocals>>
  BY <1>2, ReloginInvInside DEF Inside
<1>. QED BY <1>1, <1>2 DEF CallFails

LEMMA LoginFailsReloginInv ==
  ASSUME TypeOK, LockInv, ReloginInv, NEW t \in Threads, pc[t] \in {"login", "posted"},
         NEW f \in Failures, LoginFails(t, f), UNCHANGED <<stage, call>>
  PROVE  ReloginInv'
<1>1. CASE ~call.relogin
  BY <1>1, ReloginInvLeaves DEF LoginFails, Inside
<1>2. CASE call.relogin
  <2>1. lock = t /\ \A u \in Threads : pc[u] \in Inside => u = t
    BY DEF LockInv, OneInside, Inside
  <2>2. gaveUp' = IF t \in Polls THEN gaveUp \cup {t} ELSE gaveUp
    BY <1>2 DEF LoginFails
  <2>3. CASE lock' = Free /\ pc' = [pc EXCEPT ![t] = "idle"]
    <3>1. \A u \in Threads : pc'[u] = IF u = t THEN "idle" ELSE pc[u]
      BY <2>3 DEF TypeOK
    <3>2. \A u \in Threads : pc'[u] \notin Inside
      BY <2>1, <3>1 DEF Inside
    <3>3. \A p \in gaveUp' : pc'[p] = "idle"
      BY <2>1, <2>2, <3>1, <3>2 DEF ReloginInv, Inside, TypeOK, Threads, Requesters
    <3>4. Free \notin Polls
      BY ThreadsAssumption DEF Threads, Requesters
    <3>5. reloginFailure' = NoFailure
      BY <1>2, <2>1, <2>3, <3>4, ThreadsAssumption
         DEF LoginFails, ReloginInv, FailureStaysInItsPoll
    <3>. QED BY <3>2, <3>3, <3>5 DEF ReloginInv, FailureStaysInItsPoll, Inside
  <2>4. CASE /\ t \in Polls /\ f # "auth" /\ pc' = [pc EXCEPT ![t] = "held"]
             /\ reloginFailure' = IF deadline # Free THEN f ELSE reloginFailure
             /\ UNCHANGED <<lock, deadline>>
    <3>1. deadline # Free
      BY <2>1, <2>4, ThreadsAssumption
         DEF LockInv, DeadlineIsTheHolders, Threads, Requesters
    <3>2. reloginFailure' = f /\ f # NoFailure
      BY <2>4, <3>1
    <3>3. \A u \in Threads : pc'[u] = IF u = t THEN "held" ELSE pc[u]
      BY <2>4 DEF TypeOK
    <3>4. stage' \in Asking
      BY <1>2 DEF ReloginInv
    <3>5. \A p \in gaveUp' : p = t \/ pc'[p] = "idle"
      BY <2>1, <2>2, <3>3 DEF ReloginInv, Inside, TypeOK, Threads, Requesters
    <3>. QED
      BY <2>1, <2>2, <2>4, <3>2, <3>3, <3>4, <3>5
         DEF ReloginInv, FailureStaysInItsPoll, Inside
  <2>. QED BY <1>2, <2>3, <2>4 DEF LoginFails
<1>. QED BY <1>1, <1>2

LEMMA NextReloginInv == TypeOK /\ LockInv /\ ReloginInv /\ [Next]_vars => ReloginInv'
<1>. SUFFICES ASSUME TypeOK, LockInv, ReloginInv, [Next]_vars PROVE ReloginInv'
  OBVIOUS
<1>. USE DEF Inside
<1>1. ASSUME NEW t \in Threads, Begin(t) PROVE ReloginInv'
  BY <1>1, ReloginInvOutside DEF Begin
<1>2. ASSUME NEW t \in Threads, Acquire(t) PROVE ReloginInv'
  <2>1. reloginFailure = NoFailure
    BY <1>2, ThreadsAssumption
       DEF Acquire, ReloginInv, FailureStaysInItsPoll, Threads, Requesters
  <2>2. \A u \in Threads : pc'[u] = IF u = t THEN "held" ELSE pc[u]
    BY <1>2 DEF Acquire, TypeOK
  <2>3. \A u \in Threads : pc[u] \notin Inside
    BY <1>2, ThreadsAssumption DEF Acquire, LockInv, OneInside
  <2>4. t \notin gaveUp
    BY <1>2 DEF Acquire, ReloginInv
  <2>. QED
    BY <1>2, <2>1, <2>2, <2>3, <2>4
       DEF Acquire, ReloginInv, FailureStaysInItsPoll, TypeOK, Threads, Requesters
<1>3. ASSUME NEW t \in Threads, GiveUp(t) \/ CloseAnyway(t) PROVE ReloginInv'
  BY <1>3, ReloginInvOutside DEF GiveUp, CloseAnyway
<1>4. ASSUME NEW t \in Threads, EnterCycle(t) PROVE ReloginInv'
  <2>1. CASE Leave(t) /\ UNCHANGED stage
    BY <1>4, <2>1, ReloginInvLeaves DEF EnterCycle
  <2>2. CASE stage' = "session" /\ UNCHANGED <<lock, pc, pollLocals>>
    <3>1. t \notin gaveUp
      BY <1>4 DEF EnterCycle, ReloginInv, Asking
    <3>2. pc' = [pc EXCEPT ![t] = "held"]
      BY <1>4, <2>2 DEF EnterCycle, TypeOK
    <3>. QED BY <1>4, <2>2, <3>1, <3>2, ReloginInvInside DEF EnterCycle
  <2>. QED BY <1>4, <2>1, <2>2 DEF EnterCycle
<1>5. ASSUME NEW t \in Threads, EnsureSession(t) PROVE ReloginInv'
  <2>1. t \notin gaveUp
    BY <1>5 DEF EnsureSession, ReloginInv, Asking
  <2>2. CASE /\ pc' = [pc EXCEPT ![t] = "login"]
             /\ call' = [call EXCEPT !.relogin = FALSE]
    <3>1. ~call'.relogin
      BY <2>2 DEF TypeOK
    <3>. QED BY <1>5, <2>1, <2>2, <3>1, ReloginInvInside DEF EnsureSession
  <2>3. CASE UNCHANGED pc
    <3>1. pc' = [pc EXCEPT ![t] = "held"]
      BY <1>5, <2>3 DEF EnsureSession, TypeOK
    <3>. QED BY <1>5, <2>1, <3>1, ReloginInvInside DEF EnsureSession
  <2>. QED BY <1>5, <2>2, <2>3 DEF EnsureSession
<1>6. ASSUME NEW t \in Threads, DevicesFetched(t) PROVE ReloginInv'
  BY <1>6 DEF DevicesFetched, ReloginInv, FailureStaysInItsPoll, Asking
<1>7. ASSUME NEW t \in Threads, StartCall(t) PROVE ReloginInv'
  <2>1. t \notin gaveUp
    BY <1>7 DEF StartCall, ReloginInv
  <2>. QED BY <1>7, <2>1, ReloginInvInside DEF StartCall, Asking
<1>8. ASSUME NEW t \in Threads, Finish(t) PROVE ReloginInv'
  BY <1>8, ReloginInvLeaves DEF Finish
<1>9. ASSUME NEW t \in Threads, Gate(t) PROVE ReloginInv'
  <2>1. t \notin gaveUp
    BY <1>9 DEF Gate, ReloginInv
  <2>2. stage \in Asking
    BY <1>9 DEF Gate, ReloginInv
  <2>. QED BY <1>9, <2>1, <2>2, CallFailsReloginInv, ReloginInvInside DEF Gate
<1>10. ASSUME NEW t \in Threads, Send(t) PROVE ReloginInv'
  <2>1. t \notin gaveUp /\ stage \in Asking
    BY <1>10 DEF Send, ReloginInv
  <2>. QED
    BY <1>10, <2>1, ReloginInvLeaves, CallFailsReloginInv, ReloginInvInside
       DEF Send, PutOnTheWire
<1>11. ASSUME NEW t \in Threads, Answer(t) PROVE ReloginInv'
  <2>0. pc[t] = "sent" /\ t \notin gaveUp /\ stage \in Asking
    BY <1>11 DEF Answer, ReloginInv
  <2>1. CASE AnswerGood(t)
    BY <2>0, <2>1, ReloginInvInside DEF AnswerGood
  <2>2. CASE AnswerForbidden(t) \/ AnswerBad(t)
    BY <2>0, <2>2, CallFailsReloginInv DEF AnswerForbidden, AnswerBad
  <2>3. CASE AnswerExpired(t)
    BY <2>0, <2>3, CallFailsReloginInv, ReloginInvInside DEF AnswerExpired
  <2>4. CASE AnswerLost(t)
    BY <2>0, <2>4, CallFailsReloginInv, ReloginInvInside DEF AnswerLost
  <2>. QED BY <1>11, <2>1, <2>2, <2>3, <2>4 DEF Answer
<1>12. ASSUME NEW t \in Threads, StartLogin(t) PROVE ReloginInv'
  <2>1. pc[t] = "login" /\ t \notin gaveUp /\ (call.relogin => stage \in Asking)
    BY <1>12 DEF StartLogin, ReloginInv
  <2>. QED
    BY <1>12, <2>1, LoginFailsReloginInv, ReloginInvLeaves, ReloginInvInside
       DEF StartLogin, PutOnTheWire
<1>13. ASSUME NEW t \in Threads, LoginAnswer(t) PROVE ReloginInv'
  <2>0. /\ pc[t] = "posted" /\ t \notin gaveUp /\ (call.relogin => stage \in Asking)
        /\ UNCHANGED stage
    BY <1>13 DEF LoginAnswer, ReloginInv
  <2>1. CASE LoginAccepted(t)
    BY <2>0, <2>1, ReloginInvInside DEF LoginAccepted
  <2>2. CASE LoginRejected(t) \/ LoginForbidden(t)
    BY <2>0, <2>2, LoginFailsReloginInv DEF LoginRejected, LoginForbidden
  <2>. QED BY <1>13, <2>1, <2>2 DEF LoginAnswer
<1>14. ASSUME NEW t \in Threads, ResetTransport(t) \/ CloseTransport(t) PROVE ReloginInv'
  BY <1>14, ReloginInvLeaves DEF ResetTransport, CloseTransport
<1>15. ASSUME NEW t \in Polls, BudgetRunsOut(t) PROVE ReloginInv'
  BY <1>15 DEF BudgetRunsOut, ReloginInv, FailureStaysInItsPoll
<1>16. CASE RefusedElsewhere \/ PauseEnds \/ UNCHANGED vars
  BY <1>16 DEF RefusedElsewhere, PauseEnds, vars, ReloginInv, FailureStaysInItsPoll
<1>. QED
  BY <1>1, <1>2, <1>3, <1>4, <1>5, <1>6, <1>7, <1>8, <1>9, <1>10, <1>11, <1>12,
     <1>13, <1>14, <1>15, <1>16
     DEF Next, Step, Threads, Requesters

LEMMA ReloginInvariant == Spec => []ReloginInv
<1>1. Init => ReloginInv
  BY DEF Init, ReloginInv, FailureStaysInItsPoll
<1>. QED BY <1>1, LockInvariant, NextReloginInv, PTL DEF Spec

(* A failed re-login is only ever remembered by the poll it failed in,     *)
(* while that poll holds the lock.                                         *)
THEOREM FailureIsForgotten == Spec => []FailureStaysInItsPoll
  BY ReloginInvariant, PTL DEF ReloginInv

(* After a failed re-login the poll puts nothing more on the wire, however *)
(* many of its shields swallow the failure.                                *)
THEOREM NothingAfterFailedRelogin == Spec => []NoRequestAfterFailedRelogin
<1>1. ReloginInv => NoRequestAfterFailedRelogin
  BY DEF ReloginInv, NoRequestAfterFailedRelogin, OnTheWire
<1>. QED BY <1>1, ReloginInvariant, PTL

-----------------------------------------------------------------------------
(* A login that stands has a session to stand on *)

LoginInv ==
    /\ LoginHasASession
    /\ \A t \in Threads : pc[t] = "posted" /\ ~closed => session = "open"

LEMMA LoginInvMoves ==
  ASSUME TypeOK, LoginInv, NEW t \in Threads, NEW x, x # "posted",
         pc' = [pc EXCEPT ![t] = x] \/ UNCHANGED pc,
         validLogin' => validLogin \/ pc[t] = "posted",
         UNCHANGED <<session, closed>>
  PROVE  LoginInv'
<1>1. \A u \in Threads : pc'[u] = "posted" => pc[u] = "posted"
  BY DEF TypeOK
<1>. QED BY <1>1 DEF LoginInv, LoginHasASession

LEMMA NextLoginInv == TypeOK /\ LockInv /\ LoginInv /\ [Next]_vars => LoginInv'
<1>. SUFFICES ASSUME TypeOK, LockInv, LoginInv, [Next]_vars PROVE LoginInv'
  OBVIOUS
<1>1. ASSUME NEW t \in Threads,
             Begin(t) \/ Acquire(t) \/ GiveUp(t) \/ EnterCycle(t) \/ EnsureSession(t)
               \/ DevicesFetched(t) \/ StartCall(t) \/ Finish(t)
      PROVE  LoginInv'
  <2>1. \/ UNCHANGED pc
        \/ \E x \in {"queued", "held", "idle", "login", "call"} : pc' = [pc EXCEPT ![t] = x]
    BY <1>1 DEF Begin, Acquire, GiveUp, EnterCycle, EnsureSession, DevicesFetched,
                StartCall, Finish, Leave
  <2>2. UNCHANGED <<session, validLogin, closed>>
    BY <1>1 DEF Begin, Acquire, GiveUp, EnterCycle, EnsureSession, DevicesFetched,
                StartCall, Finish
  <2>. QED BY <2>1, <2>2, LoginInvMoves
<1>2. ASSUME NEW t \in Threads, Gate(t) \/ Send(t) PROVE LoginInv'
  <2>1. \E x \in {"idle", "held", "pause", "sent"} : pc' = [pc EXCEPT ![t] = x]
    BY <1>2, CallFailsMoves DEF Gate, Send, PutOnTheWire, Leave
  <2>2. UNCHANGED <<session, validLogin, closed>>
    BY <1>2 DEF Gate, Send
  <2>. QED BY <2>1, <2>2, LoginInvMoves
<1>3. ASSUME NEW t \in Threads, Answer(t) PROVE LoginInv'
  <2>1. \E x \in {"held", "idle", "login", "call"} : pc' = [pc EXCEPT ![t] = x]
    BY <1>3, CallFailsMoves
       DEF Answer, AnswerGood, AnswerForbidden, AnswerExpired, AnswerLost, AnswerBad
  <2>2. (validLogin' => validLogin) /\ UNCHANGED <<session, closed>>
    BY <1>3 DEF Answer, AnswerGood, AnswerForbidden, AnswerExpired, AnswerLost, AnswerBad
  <2>. QED BY <2>1, <2>2, LoginInvMoves
<1>4. ASSUME NEW t \in Threads, StartLogin(t) PROVE LoginInv'
  <2>1. CASE session' = "open" /\ validLogin' = FALSE
    BY <1>4, <2>1 DEF StartLogin, LoginInv, LoginHasASession
  <2>2. CASE (Leave(t) \/ LoginFails(t, "other")) /\ UNCHANGED <<session, validLogin>>
    <3>1. \E x \in {"held", "idle"} : pc' = [pc EXCEPT ![t] = x]
      BY <2>2, LoginFailsMoves DEF Leave
    <3>2. UNCHANGED <<session, validLogin, closed>>
      BY <1>4, <2>2 DEF StartLogin
    <3>. QED BY <3>1, <3>2, LoginInvMoves
  <2>. QED BY <1>4, <2>1, <2>2 DEF StartLogin
<1>5. ASSUME NEW t \in Threads, LoginAnswer(t) PROVE LoginInv'
  <2>1. \E x \in {"held", "idle", "call"} : pc' = [pc EXCEPT ![t] = x]
    BY <1>5, LoginFailsMoves DEF LoginAnswer, LoginAccepted, LoginRejected, LoginForbidden
  <2>2. pc[t] = "posted" /\ UNCHANGED <<session, closed>>
    BY <1>5 DEF LoginAnswer
  <2>. QED BY <2>1, <2>2, LoginInvMoves
<1>6. ASSUME NEW t \in Threads, ResetTransport(t) PROVE LoginInv'
  <2>1. \A u \in Threads : pc'[u] # "posted"
    BY <1>6 DEF ResetTransport, Leave, LockInv, OneInside, Inside, TypeOK
  <2>. QED BY <1>6, <2>1 DEF ResetTransport, LoginInv, LoginHasASession
<1>7. ASSUME NEW t \in Threads, CloseTransport(t) \/ CloseAnyway(t) PROVE LoginInv'
  BY <1>7 DEF CloseTransport, CloseAnyway, LoginInv, LoginHasASession
<1>8. CASE \/ RefusedElsewhere \/ PauseEnds \/ UNCHANGED vars
           \/ \E p \in Polls : BudgetRunsOut(p)
  BY <1>8 DEF RefusedElsewhere, PauseEnds, vars, BudgetRunsOut, LoginInv, LoginHasASession
<1>. QED
  BY <1>1, <1>2, <1>3, <1>4, <1>5, <1>6, <1>7, <1>8
     DEF Next, Step, Threads, Requesters

(* While the object is in use, a login that is believed valid has an open  *)
(* session under it: nobody skips the login and finds nothing to send on.  *)
THEOREM LoginIsBacked == Spec => []LoginHasASession
<1>1. Init => LoginInv
  BY DEF Init, LoginInv, LoginHasASession
<1>2. LoginInv => LoginHasASession
  BY DEF LoginInv
<1>. QED BY <1>1, <1>2, LockInvariant, NextLoginInv, PTL DEF Spec

-----------------------------------------------------------------------------
(* A request of a poll or a write finds a session *)

(* Whoever has come past the login - or is inside a request it made after  *)
(* one - has a session under it, unless the object has been torn down: a   *)
(* reset needs the lock, so it falls between two operations, and the next  *)
(* poll or write asks for a login before it asks for anything else.        *)
LoggedIn(t) ==
    \/ pc[t] \in {"call", "pause", "sent"}
    \/ pc[t] = "held" /\ stage \in Asking
    \/ pc[t] = "login" /\ call.relogin

SendInv == \A t \in Polls \cup Writers : LoggedIn(t) /\ ~closed => session = "open"

(* A step of the thread inside changes what the others have come to        *)
(* nowhere: they are outside, whatever the holder does to `stage`.         *)
LEMMA SendInvInside ==
  ASSUME TypeOK, LockInv, NEW t \in Threads, pc[t] \in Inside,
         \A u \in Threads : u # t => pc'[u] = pc[u],
         t \in Polls \cup Writers /\ LoggedIn(t)' /\ ~closed' => session' = "open"
  PROVE  SendInv'
<1>1. \A u \in Threads : u # t => pc[u] \notin Inside
  BY DEF LockInv, OneInside
<1>2. \A u \in Threads : u # t => pc'[u] \notin Inside
  BY <1>1
<1>3. \A u \in Threads : u # t => ~LoggedIn(u)'
  BY <1>2 DEF LoggedIn, Inside
<1>. QED BY <1>3 DEF SendInv, Threads, Requesters

LEMMA SendInvLoggedIn ==
  ASSUME TypeOK, LockInv, SendInv, NEW t \in Threads, LoggedIn(t),
         \A u \in Threads : u # t => pc'[u] = pc[u],
         UNCHANGED <<session, closed>>
  PROVE  SendInv'
<1>1. pc[t] \in Inside
  BY DEF LoggedIn, Inside
<1>2. t \in Polls \cup Writers /\ ~closed' => session' = "open"
  BY DEF SendInv
<1>. QED BY <1>1, <1>2, SendInvInside

LEMMA SendInvOutside ==
  ASSUME TypeOK, SendInv, NEW t \in Threads, NEW x \in {"idle", "queued"},
         pc' = [pc EXCEPT ![t] = x], UNCHANGED <<stage, call>>,
         UNCHANGED <<session, closed>> \/ closed'
  PROVE  SendInv'
<1>1. \A u \in Threads : LoggedIn(u)' => LoggedIn(u)
  BY DEF LoggedIn, TypeOK
<1>. QED BY <1>1 DEF SendInv, Threads, Requesters

LEMMA NextSendInv ==
  TypeOK /\ LockInv /\ LoginInv /\ SendInv /\ [Next]_vars => SendInv'
<1>. SUFFICES ASSUME TypeOK, LockInv, LoginInv, SendInv, [Next]_vars PROVE SendInv'
  OBVIOUS
<1>. USE DEF Inside
<1>1. ASSUME NEW t \in Threads, Begin(t) \/ GiveUp(t) \/ CloseAnyway(t) PROVE SendInv'
  BY <1>1, SendInvOutside DEF Begin, GiveUp, CloseAnyway
<1>2. ASSUME NEW t \in Threads, Acquire(t) PROVE SendInv'
  <2>1. \A u \in Threads : pc'[u] = IF u = t THEN "held" ELSE pc[u]
    BY <1>2 DEF Acquire, TypeOK
  <2>2. \A u \in Threads : pc[u] \notin Inside
    BY <1>2, ThreadsAssumption DEF Acquire, LockInv, OneInside
  <2>3. t \in Polls \cup Writers => stage' \in {"gate", "session"}
    BY <1>2 DEF Acquire, FirstStage
  <2>. QED
    BY <2>1, <2>2, <2>3 DEF SendInv, LoggedIn, Asking, Threads, Requesters
<1>3. ASSUME NEW t \in Threads,
             \/ Leave(t) /\ pc[t] \in Inside
             \/ EnterCycle(t) \/ Finish(t) \/ ResetTransport(t) \/ CloseTransport(t)
      PROVE  SendInv'
  <2>1. pc[t] \in Inside
    BY <1>3 DEF EnterCycle, Finish, ResetTransport, CloseTransport
  <2>2. \/ pc' = [pc EXCEPT ![t] = "idle"]
        \/ UNCHANGED pc /\ stage' = "session" /\ pc[t] = "held"
    BY <1>3 DEF EnterCycle, Finish, ResetTransport, CloseTransport, Leave
  <2>3. ~LoggedIn(t)'
    BY <2>2 DEF LoggedIn, Asking, TypeOK
  <2>4. \A u \in Threads : u # t => pc'[u] = pc[u]
    BY <2>2 DEF TypeOK
  <2>. QED BY <2>1, <2>3, <2>4, SendInvInside
<1>4. ASSUME NEW t \in Threads, EnsureSession(t) PROVE SendInv'
  <2>1. CASE ~validLogin
    <3>1. pc' = [pc EXCEPT ![t] = "login"] /\ ~call'.relogin
      BY <1>4, <2>1 DEF EnsureSession, TypeOK
    <3>2. ~LoggedIn(t)'
      BY <3>1 DEF LoggedIn, TypeOK
    <3>3. \A u \in Threads : u # t => pc'[u] = pc[u]
      BY <3>1 DEF TypeOK
    <3>. QED BY <1>4, <3>2, <3>3, SendInvInside DEF EnsureSession
  <2>2. CASE validLogin
    <3>1. UNCHANGED <<pc, session, closed>>
      BY <1>4, <2>2 DEF EnsureSession
    <3>2. ~closed => session = "open"
      BY <2>2 DEF LoginInv, LoginHasASession
    <3>. QED BY <1>4, <3>1, <3>2, SendInvInside DEF EnsureSession
  <2>. QED BY <2>1, <2>2 DEF TypeOK
<1>5. ASSUME NEW t \in Threads, DevicesFetched(t) \/ StartCall(t) PROVE SendInv'
  <2>1. LoggedIn(t) /\ UNCHANGED <<session, closed>>
    BY <1>5 DEF DevicesFetched, StartCall, LoggedIn, Asking
  <2>2. \/ pc' = [pc EXCEPT ![t] = "call"]
        \/ UNCHANGED pc /\ pc[t] = "held"
    BY <1>5 DEF DevicesFetched, StartCall
  <2>3. \A u \in Threads : u # t => pc'[u] = pc[u]
    BY <2>2 DEF TypeOK
  <2>. QED BY <2>1, <2>3, SendInvLoggedIn
<1>6. ASSUME NEW t \in Threads, Gate(t) \/ Send(t) PROVE SendInv'
  <2>1. LoggedIn(t) /\ UNCHANGED <<session, closed>>
    BY <1>6 DEF Gate, Send, LoggedIn
  <2>2. \E x \in {"idle", "held", "pause", "sent"} : pc' = [pc EXCEPT ![t] = x]
    BY <1>6, CallFailsMoves DEF Gate, Send, PutOnTheWire, Leave
  <2>3. \A u \in Threads : u # t => pc'[u] = pc[u]
    BY <2>2 DEF TypeOK
  <2>. QED BY <2>1, <2>3, SendInvLoggedIn
<1>7. ASSUME NEW t \in Threads, Answer(t) PROVE SendInv'
  <2>1. LoggedIn(t)
    BY <1>7 DEF Answer, LoggedIn
  <2>2. \E x \in {"idle", "held", "login", "call"} : pc' = [pc EXCEPT ![t] = x]
    BY <1>7, CallFailsMoves
       DEF Answer, AnswerGood, AnswerForbidden, AnswerExpired, AnswerLost, AnswerBad
  <2>3. UNCHANGED <<session, closed>>
    BY <1>7 DEF Answer, AnswerGood, AnswerForbidden, AnswerExpired, AnswerLost, AnswerBad
  <2>4. \A u \in Threads : u # t => pc'[u] = pc[u]
    BY <2>2 DEF TypeOK
  <2>. QED BY <2>1, <2>3, <2>4, SendInvLoggedIn
<1>8. ASSUME NEW t \in Threads, StartLogin(t) PROVE SendInv'
  <2>1. CASE session' = "open"
    BY <1>8, <2>1 DEF StartLogin, SendInv
  <2>2. CASE Leave(t)
    <3>1. pc[t] \in Inside
      BY <1>8 DEF StartLogin
    <3>. QED BY <2>2, <3>1, <1>3
  <2>3. CASE call.relogin /\ LoginFails(t, "other") /\ UNCHANGED session
    <3>1. LoggedIn(t) /\ UNCHANGED <<session, closed>>
      BY <1>8, <2>3 DEF StartLogin, LoggedIn
    <3>2. \E x \in {"idle", "held"} : pc' = [pc EXCEPT ![t] = x]
      BY <2>3, LoginFailsMoves
    <3>3. \A u \in Threads : u # t => pc'[u] = pc[u]
      BY <3>2 DEF TypeOK
    <3>. QED BY <3>1, <3>3, SendInvLoggedIn
  <2>. QED BY <1>8, <2>1, <2>2, <2>3 DEF StartLogin, LoginFails
<1>9. ASSUME NEW t \in Threads, LoginAnswer(t) PROVE SendInv'
  <2>1. ~closed => session = "open"
    BY <1>9 DEF LoginAnswer, LoginInv
  <2>. QED BY <1>9, <2>1 DEF LoginAnswer, SendInv
<1>10. CASE \/ RefusedElsewhere \/ PauseEnds \/ UNCHANGED vars
            \/ \E p \in Polls : BudgetRunsOut(p)
  BY <1>10 DEF RefusedElsewhere, PauseEnds, vars, BudgetRunsOut, SendInv, LoggedIn
<1>. QED
  BY <1>1, <1>2, <1>3, <1>4, <1>5, <1>6, <1>7, <1>8, <1>9, <1>10
     DEF Next, Step, Threads, Requesters

LEMMA SessionInvariant == Spec => [](LoginInv /\ SendInv)
<1>1. Init => LoginInv /\ SendInv
  BY DEF Init, LoginInv, LoginHasASession, SendInv, LoggedIn, Threads, Requesters
<1>. QED BY <1>1, LockInvariant, NextLoginInv, NextSendInv, PTL DEF Spec

(* The assertion in _send never fails a poll or a write: past the login    *)
(* gate there is a session to send on, whatever resets and expired logins  *)
(* lie in between, until the object is torn down.                          *)
THEOREM SendsOnASession == Spec => []SendFindsASession
<1>1. SendInv => SendFindsASession
  BY DEF SendInv, SendFindsASession, LoggedIn
<1>. QED BY <1>1, SessionInvariant, PTL

(* What every thread finds when it gets the lock: nobody else inside, its  *)
(* own deadline or none, nobody's stored failure, and a login backed by a  *)
(* session.                                                                *)
THEOREM LockIsOwned == Spec => []Ownership
  BY TypeCorrect, MutualExclusion, DeadlineIsOwn, FailureIsForgotten, LoginIsBacked, PTL
     DEF Ownership

-----------------------------------------------------------------------------
(* The api lock implements the turns of PortalTurns *)

Wire == {t \in Threads : pc[t] \in OnTheWire}

(* A step of the thread inside: it may put a request on the wire, take it  *)
(* off, or let go of the lock - but it neither sends twice nor lets go     *)
(* without the request being over.                                         *)
LEMMA InsideStep ==
  ASSUME TypeOK, LockInv, NEW t \in Threads, pc[t] \in Inside,
         NEW x \in Inside \cup {"idle"}, pc' = [pc EXCEPT ![t] = x],
         lock' = IF x = "idle" THEN Free ELSE lock,
         pc[t] \in OnTheWire => x \notin OnTheWire
  PROVE  [Turns!Next]_(Turns!vars)
<1>1. lock = t /\ \A u \in Threads : pc[u] \in Inside => u = t
  BY DEF LockInv, OneInside
<1>2. OnTheWire \subseteq Inside /\ "idle" \notin Inside
  BY DEF OnTheWire, Inside
<1>3. Wire = IF pc[t] \in OnTheWire THEN {t} ELSE {}
  BY <1>1, <1>2 DEF Wire
<1>4. Wire' = IF x \in OnTheWire THEN {t} ELSE {}
  BY <1>1, <1>2 DEF Wire, TypeOK
<1>5. CASE pc[t] \in OnTheWire
  <2>1. Turns!Settle(t)
    BY <1>1, <1>2, <1>3, <1>4, <1>5 DEF Turns!Settle, Wire
  <2>. QED BY <2>1 DEF Turns!Next
<1>6. CASE pc[t] \notin OnTheWire /\ x \in OnTheWire
  <2>1. Turns!Send(t)
    BY <1>1, <1>2, <1>3, <1>4, <1>6 DEF Turns!Send, Wire
  <2>. QED BY <2>1 DEF Turns!Next
<1>7. CASE pc[t] \notin OnTheWire /\ x = "idle"
  <2>1. Turns!Leave(t)
    BY <1>1, <1>2, <1>3, <1>4, <1>7 DEF Turns!Leave, Wire
  <2>. QED BY <2>1 DEF Turns!Next
<1>8. CASE pc[t] \notin OnTheWire /\ x \in Inside \ OnTheWire
  BY <1>2, <1>3, <1>4, <1>8 DEF Turns!vars, Wire
<1>. QED BY <1>5, <1>6, <1>7, <1>8

LEMMA OutsideStep ==
  ASSUME TypeOK, NEW t \in Threads, pc[t] \notin Inside,
         NEW x \in {"idle", "queued"}, pc' = [pc EXCEPT ![t] = x], UNCHANGED lock
  PROVE  [Turns!Next]_(Turns!vars)
<1>1. Wire' = Wire
  BY DEF Wire, OnTheWire, Inside, TypeOK
<1>. QED BY <1>1 DEF Turns!vars, Wire

LEMMA QuietStep ==
  ASSUME UNCHANGED <<lock, pc>>
  PROVE  [Turns!Next]_(Turns!vars)
  BY DEF Turns!vars

LEMMA CallFailsStep ==
  ASSUME TypeOK, LockInv, NEW t \in Threads, pc[t] \in Inside, NEW f, CallFails(t, f)
  PROVE  [Turns!Next]_(Turns!vars)
<1>1. CASE Leave(t)
  BY <1>1, InsideStep DEF Leave, OnTheWire
<1>2. CASE pc' = [pc EXCEPT ![t] = "held"] /\ UNCHANGED <<lock, pollLocals>>
  BY <1>2, InsideStep DEF Inside, OnTheWire
<1>. QED BY <1>1, <1>2 DEF CallFails

LEMMA LoginFailsStep ==
  ASSUME TypeOK, LockInv, NEW t \in Threads, pc[t] \in Inside, NEW f, LoginFails(t, f)
  PROVE  [Turns!Next]_(Turns!vars)
<1>1. CASE lock' = Free /\ pc' = [pc EXCEPT ![t] = "idle"]
  BY <1>1, InsideStep DEF OnTheWire
<1>2. CASE pc' = [pc EXCEPT ![t] = "held"] /\ UNCHANGED <<lock, deadline>>
  BY <1>2, InsideStep DEF Inside, OnTheWire
<1>. QED BY <1>1, <1>2 DEF LoginFails, Leave

LEMMA StepTakesTurns == TypeOK /\ LockInv /\ [Next]_vars => [Turns!Next]_(Turns!vars)
<1>. SUFFICES ASSUME TypeOK, LockInv, [Next]_vars PROVE [Turns!Next]_(Turns!vars)
  OBVIOUS
<1>. USE DEF Inside, OnTheWire
<1>1. ASSUME NEW t \in Threads, Begin(t) \/ GiveUp(t) \/ CloseAnyway(t)
      PROVE  [Turns!Next]_(Turns!vars)
  BY <1>1, OutsideStep DEF Begin, GiveUp, CloseAnyway
<1>2. ASSUME NEW t \in Threads, Acquire(t) PROVE [Turns!Next]_(Turns!vars)
  <2>1. Wire' = Wire
    BY <1>2 DEF Acquire, Wire, TypeOK
  <2>2. Turns!Take(t)
    BY <1>2, <2>1 DEF Acquire, Turns!Take, Wire
  <2>. QED BY <2>2 DEF Turns!Next
<1>3. ASSUME NEW t \in Threads,
             EnterCycle(t) \/ DevicesFetched(t) \/ EnsureSession(t) \/ StartCall(t)
               \/ Finish(t) \/ ResetTransport(t) \/ CloseTransport(t)
      PROVE  [Turns!Next]_(Turns!vars)
  BY <1>3, InsideStep, QuietStep
     DEF EnterCycle, DevicesFetched, EnsureSession, StartCall, Finish, ResetTransport,
         CloseTransport, Leave
<1>4. ASSUME NEW t \in Threads, Gate(t) \/ Send(t) PROVE [Turns!Next]_(Turns!vars)
  BY <1>4, InsideStep, CallFailsStep DEF Gate, Send, PutOnTheWire, Leave
<1>5. ASSUME NEW t \in Threads, Answer(t) PROVE [Turns!Next]_(Turns!vars)
  BY <1>5, InsideStep, CallFailsStep
     DEF Answer, AnswerGood, AnswerForbidden, AnswerExpired, AnswerLost, AnswerBad
<1>6. ASSUME NEW t \in Threads, StartLogin(t) PROVE [Turns!Next]_(Turns!vars)
  BY <1>6, InsideStep, LoginFailsStep DEF StartLogin, PutOnTheWire, Leave
<1>7. ASSUME NEW t \in Threads, LoginAnswer(t) PROVE [Turns!Next]_(Turns!vars)
  BY <1>7, InsideStep, LoginFailsStep
     DEF LoginAnswer, LoginAccepted, LoginRejected, LoginForbidden
<1>8. CASE \/ RefusedElsewhere \/ PauseEnds \/ UNCHANGED vars
           \/ \E p \in Polls : BudgetRunsOut(p)
  BY <1>8, QuietStep DEF RefusedElsewhere, PauseEnds, vars, BudgetRunsOut
<1>. QED
  BY <1>1, <1>2, <1>3, <1>4, <1>5, <1>6, <1>7, <1>8
     DEF Next, Step, Threads, Requesters

(* Every behaviour of the api object is one of taking turns: one request   *)
(* at a time, none but the holder's, and no turn ended over an unanswered  *)
(* one.                                                                    *)
THEOREM ImplementsTurns == Spec => TakesTurns
<1>1. Init => Turns!Init
  BY DEF Init, Turns!Init, OnTheWire
<1>. QED BY <1>1, LockInvariant, StepTakesTurns, PTL DEF Spec, TakesTurns, Turns!Spec
=============================================================================
