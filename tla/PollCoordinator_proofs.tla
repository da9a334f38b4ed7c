----------------------- MODULE PollCoordinator_proofs -----------------------
(* Proofs about PollCoordinator, for any timeout, threshold, tolerance and *)
(* back-off its assumption allows; and, in the second part, about          *)
(* EntryLifecycle, the entries that build coordinators and take them down. *)
EXTENDS PollCoordinator, EntryLifecycle, TLAPS

USE CoordinatorAssumption

-----------------------------------------------------------------------------
(* The inductive invariant *)

FlagsOK ==
    /\ proof \in BOOLEAN /\ lastOk \in BOOLEAN /\ shown \in BOOLEAN
    /\ parked \in BOOLEAN /\ loggedIn \in BOOLEAN

CountsOK ==
    /\ numFailed \in 0..MaxFailed
    /\ numAuth \in 0..Threshold /\ accountAuth \in 0..Threshold
    /\ streak \in 0..Threshold /\ cycles \in 0..2 /\ since \in 0..MaxWait

PlaceOK ==
    /\ entry \in {"setup", "live", "down", "reauth"}
    /\ pc \in {"idle", "fetch", "reset", "saves"}
    /\ clock \in 0..Timeout /\ resetWait \in 0..LockWait
    /\ verdict \in {"none", "ok", "reauth", "reload"} \cup Failed

(* Asking for a reauth is decided, and is carried out at the cycle's end.  *)
Escalating == pc = "saves" /\ verdict = "reauth"

Running == entry \in {"setup", "live"}

(* What is counted is no more than what happened, unless a login is still  *)
(* to be settled; what the account keeps is what the coordinator counts;   *)
(* and the count only reaches the threshold on the way out.                *)
StreakInv ==
    /\ Running /\ ~proof => numAuth <= streak
    /\ entry = "setup" => ~proof
    /\ Running => accountAuth = numAuth
    /\ entry = "down" => accountAuth <= streak /\ accountAuth < Threshold
    /\ Running /\ ~Escalating => numAuth < Threshold
    /\ ~Running => pc = "idle"

(* The entities never show more than the count allows; a good last update  *)
(* that no failure has been counted since means a count of zero.           *)
ViewInv ==
    /\ Running /\ shown => numFailed <= Tolerated
    /\ Running /\ pc \in {"idle", "fetch"} /\ lastOk => numFailed = 0
    /\ Running /\ pc \in {"reset", "saves"} /\ verdict = "ok" => numFailed = 0
    /\ pc = "reset" => verdict = "fault"
    /\ entry = "live" /\ pc = "idle" /\ lastOk => shown

IInv == FlagsOK /\ CountsOK /\ PlaceOK /\ StreakInv /\ ViewInv

LEMMA InitIInv == Init => IInv
<1>. SUFFICES ASSUME Init PROVE IInv
  OBVIOUS
<1>. USE DEF Init
<1>1. FlagsOK
  BY DEF FlagsOK
<1>2. CountsOK /\ PlaceOK
  BY DEF CountsOK, PlaceOK, Failed
<1>3. StreakInv /\ ViewInv
  BY DEF StreakInv, ViewInv, Running, Escalating
<1>. QED
  BY <1>1, <1>2, <1>3 DEF IInv

LEMMA NextIInv == IInv /\ [Next]_vars => IInv'
<1>. SUFFICES ASSUME IInv, [Next]_vars PROVE IInv'
  OBVIOUS
<1>. USE DEF IInv, FlagsOK, CountsOK, PlaceOK, StreakInv, ViewInv, Running, Escalating,
             Failed, Least, counters, view, ghosts
<1>1. CASE StartSetup
  <2>. USE DEF StartSetup
  <2>1. FlagsOK'
    BY <1>1
  <2>2. CountsOK' /\ PlaceOK'
    BY <1>1
  <2>3. StreakInv'
    BY <1>1
  <2>4. ViewInv'
    BY <1>1
  <2>. QED
    BY <2>1, <2>2, <2>3, <2>4
<1>2. CASE SkipTick
  <2>. USE DEF SkipTick, Later
  <2>1. FlagsOK'
    BY <1>2
  <2>2. CountsOK' /\ PlaceOK'
    BY <1>2
  <2>3. StreakInv'
    BY <1>2
  <2>4. ViewInv'
    BY <1>2
  <2>. QED
    BY <2>1, <2>2, <2>3, <2>4
<1>3. CASE BeginCycle
  <2>. USE DEF BeginCycle, Later
  <2>1. FlagsOK'
    BY <1>3
  <2>2. CountsOK' /\ PlaceOK'
    BY <1>3
  <2>3. StreakInv'
    BY <1>3
  <2>4. ViewInv'
    BY <1>3
  <2>. QED
    BY <2>1, <2>2, <2>3, <2>4
<1>4. ASSUME NEW login \in BOOLEAN, FetchSucceeds(login) PROVE IInv'
  <2>. USE DEF FetchSucceeds, ClearStreak, Ends
  <2>1. FlagsOK'
    BY <1>4
  <2>2. CountsOK' /\ PlaceOK'
    BY <1>4
  <2>3. StreakInv'
    BY <1>4
  <2>4. ViewInv'
    BY <1>4
  <2>. QED
    BY <2>1, <2>2, <2>3, <2>4
<1>5. ASSUME NEW login \in BOOLEAN, FetchReadsNothing(login) PROVE IInv'
  <2>. USE DEF FetchReadsNothing, SettleOnly, Settled, Ends
  <2>1. /\ proof' \in BOOLEAN /\ lastOk' \in BOOLEAN
        /\ parked' \in BOOLEAN /\ loggedIn' \in BOOLEAN
    BY <1>5
  <2>2. shown' \in BOOLEAN
    <3>1. CASE lastOk
      BY <1>5, <3>1
    <3>2. CASE ~lastOk /\ numFailed <= Tolerated
      BY <1>5, <3>2
    <3>3. CASE ~lastOk /\ ~(numFailed <= Tolerated)
      BY <1>5, <3>3
    <3>. QED
      BY <3>1, <3>2, <3>3
  <2>3. FlagsOK'
    BY <2>1, <2>2
  <2>4. CountsOK' /\ PlaceOK'
    BY <1>5, <2>1, <2>2
  <2>5. StreakInv'
    BY <1>5, <2>1, <2>2
  <2>6. ViewInv'
    BY <1>5, <2>1, <2>2
  <2>. QED
    BY <2>3, <2>4, <2>5, <2>6
<1>6. ASSUME NEW login \in BOOLEAN, FetchFails(login) PROVE IInv'
  <2>. USE DEF FetchFails, ClearStreak, Ends, NoteFailedCycle
  <2>1. FlagsOK'
    BY <1>6
  <2>2. CountsOK' /\ PlaceOK'
    BY <1>6
  <2>3. StreakInv'
    BY <1>6
  <2>4. ViewInv'
    BY <1>6
  <2>. QED
    BY <2>1, <2>2, <2>3, <2>4
<1>7. ASSUME NEW login \in BOOLEAN, FetchLoginRefused(login) PROVE IInv'
  <2>. USE DEF FetchLoginRefused, SettleOnly, Settled, Ends, NoteFailedCycle
  <2>1. FlagsOK'
    BY <1>7
  <2>2. CountsOK' /\ PlaceOK'
    BY <1>7
  <2>3. StreakInv'
    BY <1>7
  <2>4. ViewInv'
    BY <1>7
  <2>. QED
    BY <2>1, <2>2, <2>3, <2>4
<1>8. ASSUME NEW login \in BOOLEAN, FetchAuthError(login) PROVE IInv'
  <2>. USE DEF FetchAuthError, Settled, Ends, NoteFailedCycle
  <2>1. FlagsOK'
    BY <1>8
  <2>2. CountsOK' /\ PlaceOK'
    BY <1>8
  <2>3. StreakInv'
    BY <1>8
  <2>4. ViewInv'
    BY <1>8
  <2>. QED
    BY <2>1, <2>2, <2>3, <2>4
<1>9. CASE FetchBusy
  <2>. USE DEF FetchBusy, SettleOnly, Settled, Ends
  <2>1. FlagsOK'
    BY <1>9
  <2>2. CountsOK' /\ PlaceOK'
    BY <1>9
  <2>3. StreakInv'
    BY <1>9
  <2>4. ViewInv'
    BY <1>9
  <2>. QED
    BY <2>1, <2>2, <2>3, <2>4
<1>10. CASE ResetReturns
  <2>. USE DEF ResetReturns
  <2>1. FlagsOK'
    BY <1>10
  <2>2. CountsOK' /\ PlaceOK'
    BY <1>10
  <2>3. StreakInv'
    BY <1>10
  <2>4. ViewInv'
    BY <1>10
  <2>. QED
    BY <2>1, <2>2, <2>3, <2>4
<1>11. CASE EndCycle
  <2>. USE DEF EndCycle
  <2>1. /\ proof' \in BOOLEAN /\ parked' \in BOOLEAN /\ loggedIn' \in BOOLEAN
    BY <1>11
  <2>2. lastOk' \in BOOLEAN /\ (lastOk' <=> verdict = "ok")
    BY <1>11
  <2>3. shown' \in BOOLEAN
    <3>1. CASE (lastOk' \/ lastOk) /\ numFailed <= Tolerated
      BY <1>11, <3>1
    <3>2. CASE (lastOk' \/ lastOk) /\ ~(numFailed <= Tolerated)
      BY <1>11, <3>2
    <3>3. CASE ~(lastOk' \/ lastOk)
      BY <1>11, <3>3
    <3>. QED
      BY <3>1, <3>2, <3>3
  <2>4. FlagsOK'
    BY <2>1, <2>2, <2>3
  <2>5. CountsOK' /\ PlaceOK'
    BY <1>11, <2>1, <2>2, <2>3
  <2>6. StreakInv'
    <3>1. CASE verdict = "ok"
      <4>1. entry' = "live" /\ Running
        BY <1>11, <3>1
      <4>. QED
        BY <1>11, <3>1, <4>1
    <3>2. CASE verdict = "reauth"
      BY <1>11, <3>2
    <3>3. CASE verdict \notin {"ok", "reauth"} /\ entry = "setup"
      BY <1>11, <3>3
    <3>4. CASE verdict \notin {"ok", "reauth"} /\ entry # "setup"
      BY <1>11, <3>4
    <3>. QED
      BY <3>1, <3>2, <3>3, <3>4
  <2>7. ViewInv'
    BY <1>11, <2>1, <2>2, <2>3
  <2>. QED
    BY <2>4, <2>5, <2>6, <2>7
<1>12. CASE TimesOut
  <2>. USE DEF TimesOut
  <2>1. /\ proof' \in BOOLEAN /\ lastOk' \in BOOLEAN
        /\ parked' \in BOOLEAN /\ loggedIn' \in BOOLEAN
    BY <1>12
  <2>2. shown' \in BOOLEAN
    <3>. DEFINE Told == lastOk \/ numFailed + 1 = Tolerated + 1
    <3>1. CASE Told /\ numFailed' <= Tolerated
      BY <1>12, <3>1
    <3>2. CASE Told /\ ~(numFailed' <= Tolerated)
      <4>1. shown' = (numFailed' <= Tolerated)
        BY <1>12, <3>2
      <4>. QED
        BY <3>2, <4>1
    <3>3. CASE ~Told
      BY <1>12, <3>3
    <3>. QED
      BY <3>1, <3>2, <3>3
  <2>3. FlagsOK'
    BY <2>1, <2>2
  <2>4. CountsOK' /\ PlaceOK'
    BY <1>12, <2>1, <2>2
  <2>5. StreakInv'
    BY <1>12, <2>1, <2>2
  <2>6. ViewInv'
    BY <1>12, <2>1, <2>2
  <2>. QED
    BY <2>3, <2>4, <2>5, <2>6
<1>13. CASE Tick
  <2>. USE DEF Tick
  <2>1. FlagsOK'
    BY <1>13
  <2>2. CountsOK' /\ PlaceOK'
    BY <1>13
  <2>3. StreakInv'
    BY <1>13
  <2>4. ViewInv'
    BY <1>13
  <2>. QED
    BY <2>1, <2>2, <2>3, <2>4
<1>14. CASE ParkedWorkerEnds
  <2>. USE DEF ParkedWorkerEnds
  <2>1. FlagsOK'
    BY <1>14
  <2>2. CountsOK' /\ PlaceOK'
    BY <1>14
  <2>3. StreakInv'
    BY <1>14
  <2>4. ViewInv'
    BY <1>14
  <2>. QED
    BY <2>1, <2>2, <2>3, <2>4
<1>15. CASE LoginElsewhere
  <2>. USE DEF LoginElsewhere
  <2>1. FlagsOK'
    BY <1>15
  <2>2. CountsOK' /\ PlaceOK'
    BY <1>15
  <2>3. StreakInv'
    BY <1>15
  <2>4. ViewInv'
    BY <1>15
  <2>. QED
    BY <2>1, <2>2, <2>3, <2>4
<1>16. CASE Reload
  <2>. USE DEF Reload
  <2>1. FlagsOK'
    BY <1>16
  <2>2. CountsOK' /\ PlaceOK'
    BY <1>16
  <2>3. StreakInv'
    BY <1>16
  <2>4. ViewInv'
    BY <1>16
  <2>. QED
    BY <2>1, <2>2, <2>3, <2>4
<1>17. CASE Reauthenticate
  <2>. USE DEF Reauthenticate
  <2>1. FlagsOK'
    BY <1>17
  <2>2. CountsOK' /\ PlaceOK'
    BY <1>17
  <2>3. StreakInv'
    BY <1>17
  <2>4. ViewInv'
    BY <1>17
  <2>. QED
    BY <2>1, <2>2, <2>3, <2>4
<1>18. CASE UNCHANGED vars
  <2>. USE DEF vars
  <2>1. FlagsOK'
    BY <1>18
  <2>2. CountsOK' /\ PlaceOK'
    BY <1>18
  <2>3. StreakInv'
    BY <1>18
  <2>4. ViewInv'
    BY <1>18
  <2>. QED
    BY <2>1, <2>2, <2>3, <2>4
<1>. QED
  BY <1>1, <1>2, <1>3, <1>4, <1>5, <1>6, <1>7, <1>8, <1>9, <1>10, <1>11,
     <1>12, <1>13, <1>14, <1>15, <1>16, <1>17, <1>18 DEF Next, FetchReturns

LEMMA IInvHolds == Spec => []IInv
  BY InitIInv, NextIInv, PTL DEF Spec

(* The types hold in every reachable state: no count leaves its range, the *)
(* streak the account keeps across setups included.                        *)
THEOREM TypeCorrect == Spec => []TypeOK
<1>1. IInv => TypeOK
  BY DEF IInv, FlagsOK, CountsOK, PlaceOK, TypeOK
<1>. QED
  BY <1>1, IInvHolds, PTL

(* After every cycle the entities have been told what the failure count    *)
(* means for them.                                                         *)
THEOREM ViewIsCurrent == Spec => []CrossingIsPublished
<1>1. IInv => CrossingIsPublished
  BY DEF IInv, ViewInv, Running, CrossingIsPublished
<1>. QED
  BY <1>1, IInvHolds, PTL

(* A last update that counts as good has no failure behind it.             *)
THEOREM GoodUpdateHasNoFailures == Spec => []HealthyMeansRead
<1>1. IInv => HealthyMeansRead
  BY DEF IInv, ViewInv, Running, HealthyMeansRead
<1>. QED
  BY <1>1, IInvHolds, PTL

-----------------------------------------------------------------------------
(* The escalation, as a property of the steps *)

Escalates == verdict' = "reauth" /\ verdict # "reauth"

(* Only an AuthError escalates: it has to be the one that fills the row.   *)
LEMMA StepEarnsReauth == IInv /\ [Next]_vars => [Escalates => streak' = Threshold]_vars
<1>. SUFFICES ASSUME IInv, Next, Escalates PROVE streak' = Threshold
  BY DEF vars, counters, view, ghosts, Escalates
<1>. USE DEF Escalates, Failed
<1>1. ASSUME NEW login \in BOOLEAN, FetchAuthError(login) PROVE streak' = Threshold
  <2>. USE DEF IInv, FlagsOK, CountsOK, PlaceOK, StreakInv, Running, Escalating
  <2>1. pc = "fetch" /\ Running /\ numAuth < Threshold /\ numAuth' >= Threshold
    BY <1>1 DEF FetchAuthError, Ends
  <2>2. CASE proof \/ login
    <3>1. numAuth' = 1 /\ Threshold = 1
      BY <1>1, <2>1, <2>2 DEF FetchAuthError, Settled
    <3>2. streak' \in 1..Threshold
      BY <1>1, <3>1 DEF FetchAuthError, Least
    <3>. QED
      BY <3>1, <3>2
  <2>3. CASE ~proof /\ ~login
    <3>1. numAuth' = numAuth + 1 /\ numAuth <= streak
      BY <1>1, <2>1, <2>3 DEF FetchAuthError, Settled
    <3>2. streak' = Least(streak + 1, Threshold)
      BY <1>1, <2>3 DEF FetchAuthError
    <3>. QED
      BY <2>1, <3>1, <3>2 DEF Least
  <2>. QED
    BY <2>2, <2>3
<1>2. ASSUME NEW login \in BOOLEAN,
             FetchSucceeds(login) \/ FetchReadsNothing(login) \/ FetchFails(login)
                \/ FetchLoginRefused(login)
      PROVE FALSE
  BY <1>2 DEF FetchSucceeds, FetchReadsNothing, FetchFails, FetchLoginRefused, Ends
<1>3. ASSUME FetchBusy \/ StartSetup \/ BeginCycle \/ TimesOut \/ Reload PROVE FALSE
  BY <1>3 DEF FetchBusy, Ends, StartSetup, BeginCycle, TimesOut, Reload
<1>4. ASSUME SkipTick \/ ResetReturns \/ EndCycle \/ Tick \/ ParkedWorkerEnds
                \/ LoginElsewhere \/ Reauthenticate
      PROVE FALSE
  BY <1>4 DEF SkipTick, ResetReturns, EndCycle, Tick, ParkedWorkerEnds,
              LoginElsewhere, Reauthenticate
<1>. QED
  BY <1>1, <1>2, <1>3, <1>4 DEF Next, FetchReturns

(* All of what is believed between two cycles, at once.                    *)
THEOREM BeliefIsTrue == Spec => []ViewIsTrue
BY TypeCorrect, ViewIsCurrent, GoodUpdateHasNoFailures, PTL DEF ViewIsTrue

-----------------------------------------------------------------------------
(* And no full row goes unnoticed                                          *)

(* What happened is no more than what is counted: a setup takes the count  *)
(* over, and only a login or a cycle without an AuthError gives it up.     *)
RowInv ==
    /\ Running => streak <= numAuth
    /\ Running /\ proof => streak = 0
    /\ entry = "down" => streak <= accountAuth

LEMMA NextRowInv == IInv /\ RowInv /\ [Next]_vars => RowInv'
<1>. SUFFICES ASSUME IInv, RowInv, [Next]_vars PROVE RowInv'
  OBVIOUS
<1>. USE DEF IInv, FlagsOK, CountsOK, StreakInv, RowInv, Running, counters, view, ghosts
<1>1. CASE StartSetup \/ Reload \/ Reauthenticate \/ LoginElsewhere
  BY <1>1 DEF StartSetup, Reload, Reauthenticate, LoginElsewhere, PlaceOK
<1>2. CASE SkipTick \/ BeginCycle \/ ResetReturns \/ Tick \/ ParkedWorkerEnds \/ UNCHANGED vars
  BY <1>2 DEF SkipTick, BeginCycle, ResetReturns, Tick, ParkedWorkerEnds, vars
<1>3. ASSUME NEW login \in BOOLEAN, FetchSucceeds(login) \/ FetchFails(login) PROVE RowInv'
  BY <1>3 DEF FetchSucceeds, FetchFails, ClearStreak, Ends
<1>4. ASSUME NEW login \in BOOLEAN, FetchReadsNothing(login) \/ FetchLoginRefused(login)
      PROVE  RowInv'
  <2>1. SettleOnly(login) /\ entry' = entry /\ (pc = "fetch" => Running)
    BY <1>4 DEF FetchReadsNothing, FetchLoginRefused, Ends, PlaceOK
  <2>2. CASE proof \/ login
    BY <1>4, <2>1, <2>2 DEF SettleOnly, Settled, FetchReadsNothing, FetchLoginRefused
  <2>3. CASE ~proof /\ ~login
    BY <1>4, <2>1, <2>3 DEF SettleOnly, Settled, FetchReadsNothing, FetchLoginRefused
  <2>. QED BY <2>2, <2>3
<1>5. ASSUME NEW login \in BOOLEAN, FetchAuthError(login) PROVE RowInv'
  <2>1. entry' = entry /\ Running /\ ~proof' /\ accountAuth' = numAuth'
    BY <1>5 DEF FetchAuthError, Ends, PlaceOK
  <2>2. CASE login
    BY <1>5, <2>1, <2>2 DEF FetchAuthError, Settled
  <2>3. CASE ~login /\ proof
    BY <1>5, <2>1, <2>3 DEF FetchAuthError, Settled, Least
  <2>4. CASE ~login /\ ~proof
    BY <1>5, <2>1, <2>4 DEF FetchAuthError, Settled, Least
  <2>. QED BY <2>2, <2>3, <2>4
<1>6. CASE FetchBusy
  <2>1. CASE proof
    BY <1>6, <2>1 DEF FetchBusy, SettleOnly, Settled, Ends, PlaceOK
  <2>2. CASE ~proof
    BY <1>6, <2>2 DEF FetchBusy, SettleOnly, Settled, Ends
  <2>. QED BY <2>1, <2>2
<1>7. CASE EndCycle
  <2>1. Running
    BY <1>7 DEF EndCycle, PlaceOK
  <2>. QED
    BY <1>7, <2>1 DEF EndCycle
<1>8. CASE TimesOut
  BY <1>8 DEF TimesOut, PlaceOK
<1>. QED
  BY <1>1, <1>2, <1>3, <1>4, <1>5, <1>6, <1>7, <1>8 DEF Next, FetchReturns

LEMMA RowInvHolds == Spec => []RowInv
<1>1. Init => RowInv
  BY DEF Init, RowInv, Running
<1>. QED
  BY <1>1, IInvHolds, NextRowInv, PTL DEF Spec

RowFills == streak' = Threshold /\ streak # Threshold

(* The AuthError that fills the row escalates in its own cycle.            *)
LEMMA StepFillsRow == IInv /\ RowInv /\ [Next]_vars => [RowFills => verdict' = "reauth"]_vars
<1>. SUFFICES ASSUME IInv, RowInv, Next, RowFills PROVE verdict' = "reauth"
  BY DEF vars, counters, view, ghosts, RowFills
<1>. USE DEF RowFills
<1>0. Threshold # 0 /\ streak \in Nat
  BY DEF IInv, CountsOK
<1>1. ASSUME NEW login \in BOOLEAN, FetchAuthError(login) PROVE verdict' = "reauth"
  <2>1. RowInv' /\ IInv'
    BY NextRowInv, NextIInv
  <2>2. Running'
    BY <1>1 DEF FetchAuthError, Ends, IInv, StreakInv, Running, PlaceOK
  <2>3. numAuth' >= Threshold
    BY <2>1, <2>2 DEF RowInv, IInv, CountsOK
  <2>. QED
    BY <1>1, <2>3 DEF FetchAuthError, Ends
<1>2. ASSUME NEW login \in BOOLEAN,
             FetchSucceeds(login) \/ FetchReadsNothing(login) \/ FetchFails(login)
                \/ FetchLoginRefused(login)
      PROVE FALSE
  BY <1>0, <1>2 DEF FetchSucceeds, FetchReadsNothing, FetchFails, FetchLoginRefused,
                    ClearStreak, SettleOnly
<1>3. ASSUME FetchBusy \/ StartSetup \/ BeginCycle \/ TimesOut \/ Reload PROVE FALSE
  BY <1>0, <1>3 DEF FetchBusy, SettleOnly, StartSetup, BeginCycle, TimesOut, Reload
<1>4. ASSUME SkipTick \/ ResetReturns \/ EndCycle \/ Tick \/ ParkedWorkerEnds
                \/ LoginElsewhere \/ Reauthenticate
      PROVE FALSE
  BY <1>0, <1>4 DEF SkipTick, ResetReturns, EndCycle, Tick, ParkedWorkerEnds,
                    LoginElsewhere, Reauthenticate, ghosts
<1>. QED
  BY <1>1, <1>2, <1>3, <1>4 DEF Next, FetchReturns

(* The user is asked for new credentials on a full row of AuthErrors and   *)
(* on nothing else, whatever refused logins, busy cycles and failed setups *)
(* lay between them (_fetch, on AuthError).                                *)
THEOREM ReauthOnAFullRow == Spec => ReauthIsEarned
<1>1. IInv /\ RowInv /\ [Next]_vars
      => [/\ Escalates => streak' = Threshold
          /\ RowFills => verdict' = "reauth"]_vars
  BY StepEarnsReauth, StepFillsRow
<1>. QED
  BY <1>1, IInvHolds, RowInvHolds, PTL DEF Spec, ReauthIsEarned, Escalates, RowFills

-----------------------------------------------------------------------------
(* The entry the coordinator belongs to: EntryLifecycle.                   *)
HIDE CoordinatorAssumption
USE LifecycleAssumption DEF Broken

(* The stretches of an entry's life.                                       *)
Refreshing == {"refreshing", "refreshed", "failing"}
Offering == {"registering", "restoring", "loaded", "stuck"}
Leaving == {"leaving", "unloading", "closing", "returned"}
Active == Refreshing \cup Offering \cup Leaving \cup Broken
            \cup {"forwarding", "undoing", "undone"}
Writing == Refreshing \cup Offering
            \cup {"forwarding", "undoing", "undone", "leaving", "dropping", "abandoned"}
Holding == Offering \cup Broken
            \cup {"forwarding", "undoing", "undone", "leaving", "unloading", "closing"}

(* Only the newest generation has anything: runtime data while it is       *)
(* published, its sessions and its timer until they are closed.  An unload *)
(* that failed leaves all of it.                                           *)
Keeps(e) ==
    /\ data[e] = IF phase[e] \in Offering \cup Leaving \cup Broken \cup {"forwarding", "undoing"}
                 THEN gen[e] ELSE 0
    /\ phase[e] \in Offering \cup {"forwarding", "undoing"} => ~going[e]
    /\ phase[e] \in Leaving \cup {"failed"} => going[e]
    /\ open[e] = IF phase[e] \in Active \ {"returned"} THEN {gen[e]} ELSE {}
    /\ listening[e] \subseteq {gen[e]}
    /\ phase[e] \in Offering \cup Broken \cup {"leaving", "unloading", "closing"} =>
           gen[e] \in listening[e]
    /\ phase[e] \notin Holding => listening[e] = {}

Grows(e) ==
    /\ live[e] \subseteq 1..gen[e]
    /\ phase[e] \in Refreshing => gen[e] \notin live[e]
    /\ phase[e] \in Active \ Refreshing => gen[e] \in live[e]
    /\ phase[e] = "loading" => gen[e] < MaxGen
    /\ phase[e] \in Active => unloaded[e] < gen[e]
    /\ unloaded[e] <= gen[e]

(* A cycle is of a published generation, or the newest one's first; a      *)
(* write that is waited for is the newest one's - and it may write.        *)
Tails(e) ==
    /\ \A g \in Gens : cycle[e][g] # "none" /\ g \notin live[e] =>
           g = gen[e] /\ phase[e] \in Refreshing
    /\ \A g \in Gens : cycle[e][g] = "saving" =>
           /\ g = gen[e] /\ phase[e] \in Writing
           /\ phase[e] \in Broken => ~going[e]

(* Nothing is counted or raised between the platforms' unload and the      *)
(* moment Home Assistant drops the runtime data.                           *)
Alone(e) == \A o \in Entries \ {e} : Account[o] # Account[e]

Traces(e) ==
    /\ issue[e] # 0 => issue[e] > unloaded[e]
    /\ phase[e] \in {"closing", "returned"} => issue[e] = 0
    /\ Alone(e) => \A g \in Gens : <<e, g>> \in streaks[Account[e]] =>
           g > unloaded[e] /\ phase[e] \notin {"closing", "returned"}

ServicesInv ==
    /\ \A e \in Entries : phase[e] \in Offering =>
          /\ "holiday" \in services
          /\ phase[e] \in {"registering", "restoring"} => WantsExpert(e)
          /\ phase[e] \in {"loaded", "stuck"} => (WantsExpert(e) => "expert" \in services)
    /\ services # {} => \E e \in Entries : phase[e] \in Holding
    /\ "expert" \in services => \E e \in ExpertOn : phase[e] \in Holding

EntriesInv == \A e \in Entries : Keeps(e) /\ Grows(e) /\ Tails(e) /\ Traces(e)
LifecycleInv == LifecycleTypeOK /\ EntriesInv /\ ServicesInv

LEMMA InitLifecycle == LifecycleInit => LifecycleInv
<1>. SUFFICES ASSUME LifecycleInit PROVE LifecycleInv
  OBVIOUS
<1>1. LifecycleTypeOK
  BY DEF LifecycleInit, LifecycleTypeOK, Gone
<1>2. EntriesInv
  BY DEF LifecycleInit, EntriesInv, Keeps, Grows, Tails, Traces, Gens, Active, Refreshing,
         Offering, Leaving
<1>3. ServicesInv
  BY DEF LifecycleInit, ServicesInv, Offering
<1>. QED BY <1>1, <1>2, <1>3 DEF LifecycleInv

(* What a step of another entry leaves of an entry: all of it, and no more *)
(* counts of its own in the streak.                                        *)
Still(o) ==
    /\ phase'[o] = phase[o] /\ gen'[o] = gen[o] /\ data'[o] = data[o]
    /\ going'[o] = going[o] /\ live'[o] = live[o] /\ listening'[o] = listening[o]
    /\ open'[o] = open[o] /\ cycle'[o] = cycle[o] /\ issue'[o] = issue[o]
    /\ unloaded'[o] = unloaded[o]
    /\ Alone(o) => \A g \in Gens : <<o, g>> \in streaks'[Account[o]] =>
                                   <<o, g>> \in streaks[Account[o]]

LEMMA StillKeeps ==
    ASSUME EntriesInv, NEW o \in Entries, Still(o)
    PROVE  Keeps(o)' /\ Grows(o)' /\ Tails(o)' /\ Traces(o)'
<1>1. Keeps(o)'
  BY ZenonT(60) DEF EntriesInv, Keeps, Still
<1>2. Grows(o)'
  BY DEF EntriesInv, Grows, Still
<1>3. Tails(o)'
  BY DEF EntriesInv, Tails, Still
<1>4. Traces(o)'
  <2>1. Alone(o)' = Alone(o)
    OBVIOUS
  <2>. QED BY DEF EntriesInv, Traces, Still
<1>. QED BY <1>1, <1>2, <1>3, <1>4

LEMMA ServicesStay ==
    ASSUME LifecycleTypeOK, ServicesInv, NEW e \in Entries, UNCHANGED services,
           \A o \in Entries \ {e} : phase'[o] = phase[o],
           phase[e] \in Holding => phase'[e] \in Holding,
           phase'[e] \in Offering => phase'[e] = phase[e]
    PROVE  ServicesInv'
<1>1. \A o \in Entries : phase'[o] \in Offering => phase'[o] = phase[o]
  OBVIOUS
<1>2. \A o \in Entries : phase[o] \in Holding => phase'[o] \in Holding
  OBVIOUS
<1>3. ExpertOn \subseteq Entries
  OBVIOUS
<1>. QED BY DEF ServicesInv


(* An entry is what Keeps says of its phase: spelled out for each action.  *)
LEMMA OwnerIsNew ==
    ASSUME LifecycleTypeOK, NEW e \in Entries, Keeps(e), Grows(e), Tails(e),
           NEW g \in Gens, Owns(e, g), cycle[e][g] # "none"
    PROVE  /\ g = gen[e] /\ g > unloaded[e] /\ phase[e] \in Writing \ {"leaving"}
           /\ phase[e] \notin {"closing", "returned"}
           /\ phase[e] \in Broken => ~going[e]
<1>1. CASE g \in live[e]
  <2>1. data[e] = g /\ ~going[e] /\ g # 0
    BY <1>1 DEF Owns, Gens
  <2>2. phase[e] \in Offering \cup {"forwarding", "undoing", "dropping", "abandoned"}
        /\ g = gen[e]
    BY <2>1 DEF Keeps
  <2>. QED BY <2>1, <2>2 DEF Grows, Active, Writing, Offering
<1>2. CASE g \notin live[e]
  <2>1. g = gen[e] /\ phase[e] \in Refreshing
    BY <1>2 DEF Tails
  <2>. QED BY <2>1 DEF Grows, Active, Writing, Refreshing
<1>. QED BY <1>1, <1>2

LEMMA ReleaseServices ==
    ASSUME LifecycleTypeOK, EntriesInv, NEW e \in Entries, Release(e),
           \A o \in Entries \ {e} : phase'[o] = phase[o], phase'[e] \notin Offering,
           ServicesInv
    PROVE  ServicesInv'
<1>1. ASSUME NEW o \in Entries, Serving(o) PROVE phase[o] \in Holding
  BY <1>1 DEF Serving, EntriesInv, Keeps, Holding
<1>2. ASSUME NEW o \in Entries, phase[o] \in Offering PROVE Configured(o) /\ Serving(o)
  BY <1>2 DEF Configured, Offering, Serving, EntriesInv, Keeps, Grows, LifecycleTypeOK, Active
<1>3. \A o \in Entries : phase'[o] \in Offering =>
          /\ "holiday" \in services'
          /\ phase'[o] \in {"registering", "restoring"} => WantsExpert(o)
          /\ phase'[o] \in {"loaded", "stuck"} /\ WantsExpert(o) => "expert" \in services'
  BY <1>2 DEF Release, StillServed, ServicesInv
<1>4. services' # {} => \E o \in Entries : phase'[o] \in Holding
  BY <1>1 DEF Release, StillServed
<1>5. "expert" \in services' => \E o \in ExpertOn : phase'[o] \in Holding
  BY <1>1 DEF Release, StillServed, WantsExpert
<1>. QED BY <1>3, <1>4, <1>5 DEF ServicesInv

LEMMA RegisterServices ==
    ASSUME LifecycleTypeOK, ServicesInv, NEW e \in Entries,
           NEW next \in {"loaded", "stuck"},
           NEW waiting \in {"registering", "restoring"}, RegisterFrom(e, next, waiting)
    PROVE  ServicesInv'
<1>1. /\ phase'[e] \in {next, waiting}
      /\ phase'[e] = waiting => WantsExpert(e)
      /\ phase'[e] = next /\ WantsExpert(e) => "expert" \in services
      /\ \A o \in Entries \ {e} : phase'[o] = phase[o]
      /\ services' = services \cup {"holiday"}
  BY DEF RegisterFrom, LifecycleTypeOK
<1>2. phase'[e] \in Offering /\ Offering \subseteq Holding
  <2>1. {next, waiting} \subseteq Offering
    BY DEF Offering
  <2>. QED BY <1>1, <2>1 DEF Holding
<1>3. \A o \in Entries : phase[o] \in Holding => phase'[o] \in Holding
  BY <1>1, <1>2
<1>4. "expert" \in services' => \E o \in ExpertOn : phase'[o] \in Holding
  BY <1>1, <1>3 DEF ServicesInv
<1>5. \A o \in Entries : phase'[o] \in Offering =>
          /\ "holiday" \in services'
          /\ phase'[o] \in {"registering", "restoring"} => WantsExpert(o)
          /\ phase'[o] \in {"loaded", "stuck"} /\ WantsExpert(o) => "expert" \in services'
  <2>1. "expert" \in services => "expert" \in services'
    BY <1>1
  <2>2. CASE phase'[e] = next
    BY <1>1 DEF ServicesInv
  <2>3. CASE phase'[e] = waiting
    BY <1>1 DEF ServicesInv
  <2>. QED BY <1>1, <2>2, <2>3
<1>. QED BY <1>2, <1>4, <1>5 DEF ServicesInv

LEMMA ImportKeeps ==
    ASSUME LifecycleInv,
           NEW e \in Entries, NEW next \in {"loaded", "stuck"},
           NEW waiting \in {"registering", "restoring"}, ImportDone(e, waiting, next)
    PROVE  LifecycleInv'
<1>0. /\ phase[e] = waiting /\ phase'[e] = next
      /\ \A o \in Entries \ {e} : phase'[o] = phase[o]
      /\ services' = services \cup {"expert"}
  BY DEF ImportDone, LifecycleInv, LifecycleTypeOK
<1>1. LifecycleTypeOK'
  BY DEF LifecycleInv, LifecycleTypeOK, ImportDone, Services
<1>2. \A o \in Entries \ {e} : Still(o)
  BY DEF ImportDone, Still
<1>3. Keeps(e)' /\ Grows(e)' /\ Tails(e)' /\ Traces(e)'
  BY ZenonT(60), <1>0
     DEF LifecycleInv, EntriesInv, Keeps, Grows, Tails, Traces, Alone, ImportDone,
         Offering, Refreshing, Leaving, Active, Holding, Writing
<1>4. ServicesInv'
  <2>1. WantsExpert(e) /\ "holiday" \in services
    BY <1>0 DEF LifecycleInv, ServicesInv, Offering
  <2>2. \A o \in Entries : phase[o] \in Holding <=> phase'[o] \in Holding
    BY <1>0 DEF Holding, Offering
  <2>3. e \in ExpertOn /\ phase'[e] \in Holding
    BY <1>0, <2>1 DEF WantsExpert, Holding, Offering
  <2>. QED BY <1>0, <2>1, <2>3 DEF LifecycleInv, ServicesInv
<1>5. EntriesInv'
  BY <1>2, <1>3, StillKeeps DEF LifecycleInv, EntriesInv
<1>. QED BY <1>1, <1>4, <1>5 DEF LifecycleInv

LEMMA BuildKeeps ==
    ASSUME LifecycleInv, NEW e \in Entries, Build(e)
    PROVE  LifecycleInv'
<1>1. /\ phase[e] = "loading" /\ phase'[e] = "refreshing" /\ gen'[e] = gen[e] + 1
      /\ open'[e] = open[e] \cup {gen'[e]}
      /\ cycle'[e] = [cycle[e] EXCEPT ![gen'[e]] = "fetching"]
      /\ data'[e] = data[e] /\ going'[e] = going[e] /\ live'[e] = live[e]
      /\ listening'[e] = listening[e] /\ issue'[e] = issue[e]
      /\ unloaded'[e] = unloaded[e]
      /\ UNCHANGED streaks
  BY DEF Build, LifecycleInv, LifecycleTypeOK, remains
<1>2. LifecycleTypeOK'
  <2>1. phase' \in [Entries -> SettingUp \cup Gone \cup Broken \cup
             {"loaded", "leaving", "unloading", "closing", "returned", "restoring",
              "stuck", "deleting"}]
    BY DEF Build, LifecycleInv, LifecycleTypeOK, SettingUp
  <2>2. gen' \in [Entries -> 0..MaxGen]
    BY DEF Build, LifecycleInv, LifecycleTypeOK, EntriesInv, Grows
  <2>3. cycle' \in [Entries -> [Gens -> {"none", "fetching", "saving"}]]
    BY DEF Build, LifecycleInv, LifecycleTypeOK
  <2>. QED BY <2>1, <2>2, <2>3 DEF Build, LifecycleInv, LifecycleTypeOK, remains
<1>3. \A o \in Entries \ {e} : Still(o)
  BY DEF Still, Build, remains
<1>4. LifecycleTypeOK /\ Keeps(e) /\ Grows(e) /\ Tails(e) /\ Traces(e)
  BY DEF LifecycleInv, EntriesInv
<1>5. Keeps(e)'
  BY <1>1, <1>4 DEF Keeps, Offering, Refreshing, Leaving, Active, Holding
<1>6. Grows(e)'
  BY <1>1, <1>4 DEF Grows, LifecycleTypeOK, Refreshing
<1>7. Tails(e)'
  BY <1>1, <1>4 DEF Tails, Offering, Refreshing, Writing
<1>8. Traces(e)'
  BY <1>1, <1>4 DEF Traces
<1>9. ServicesInv'
  <2>1. UNCHANGED services /\ \A o \in Entries \ {e} : phase'[o] = phase[o]
    BY DEF Build, remains
  <2>2. /\ phase[e] \in Holding => phase'[e] \in Holding
        /\ phase'[e] \in Offering => phase'[e] = phase[e]
    BY <1>1 DEF Holding, Offering
  <2>. QED BY <2>1, <2>2, ServicesStay DEF LifecycleInv
<1>10. EntriesInv'
  BY <1>3, <1>5, <1>6, <1>7, <1>8, StillKeeps DEF LifecycleInv, EntriesInv
<1>. QED BY <1>2, <1>9, <1>10 DEF LifecycleInv

LEMMA RefreshFailedKeeps ==
    ASSUME LifecycleInv, NEW e \in Entries, RefreshFailed(e)
    PROVE  LifecycleInv'
<1>1. /\ phase[e] = "failing" /\ phase'[e] = "retry" /\ cycle[e][gen[e]] = "none"
      /\ open'[e] = open[e] \ {gen[e]}
      /\ gen'[e] = gen[e] /\ data'[e] = data[e] /\ going'[e] = going[e]
      /\ live'[e] = live[e] /\ listening'[e] = listening[e] /\ cycle'[e] = cycle[e]
      /\ issue'[e] = issue[e] /\ unloaded'[e] = unloaded[e]
      /\ UNCHANGED streaks
  BY DEF RefreshFailed, LifecycleInv, LifecycleTypeOK, remains
<1>2. LifecycleTypeOK'
  <2>1. phase' \in [Entries -> SettingUp \cup Gone \cup Broken \cup
             {"loaded", "leaving", "unloading", "closing", "returned", "restoring",
              "stuck", "deleting"}]
    BY DEF RefreshFailed, LifecycleInv, LifecycleTypeOK, Gone
  <2>. QED BY <2>1 DEF RefreshFailed, LifecycleInv, LifecycleTypeOK, remains
<1>3. \A o \in Entries \ {e} : Still(o)
  BY DEF Still, RefreshFailed, remains
<1>4. LifecycleTypeOK /\ Keeps(e) /\ Grows(e) /\ Tails(e) /\ Traces(e)
  BY DEF LifecycleInv, EntriesInv
<1>5. Keeps(e)'
  BY <1>1, <1>4 DEF Keeps, Offering, Refreshing, Leaving, Active, Holding
<1>6. Grows(e)'
  BY <1>1, <1>4 DEF Grows, Offering, Refreshing, Leaving, Active
<1>7. Tails(e)'
  BY <1>1, <1>4 DEF Tails
<1>8. Traces(e)'
  BY <1>1, <1>4 DEF Traces
<1>9. ServicesInv'
  <2>1. UNCHANGED services /\ \A o \in Entries \ {e} : phase'[o] = phase[o]
    BY DEF RefreshFailed, remains
  <2>2. /\ phase[e] \in Holding => phase'[e] \in Holding
        /\ phase'[e] \in Offering => phase'[e] = phase[e]
    BY <1>1 DEF Holding, Offering
  <2>. QED BY <2>1, <2>2, ServicesStay DEF LifecycleInv
<1>10. EntriesInv'
  BY <1>3, <1>5, <1>6, <1>7, <1>8, StillKeeps DEF LifecycleInv, EntriesInv
<1>. QED BY <1>2, <1>9, <1>10 DEF LifecycleInv

LEMMA PlatformsForwardedKeeps ==
    ASSUME LifecycleInv,
           NEW e \in Entries, PlatformsForwarded(e)
    PROVE  LifecycleInv'
<1>1. /\ phase[e] = "forwarding" /\ phase'[e] \in {"loaded", "registering"}
      /\ listening'[e] = listening[e] \cup {gen[e]}
      /\ gen'[e] = gen[e] /\ data'[e] = data[e] /\ going'[e] = going[e]
      /\ live'[e] = live[e] /\ open'[e] = open[e] /\ cycle'[e] = cycle[e]
      /\ issue'[e] = issue[e] /\ unloaded'[e] = unloaded[e]
      /\ UNCHANGED streaks
  BY DEF PlatformsForwarded, RegisterFrom, LifecycleInv, LifecycleTypeOK
<1>2. LifecycleTypeOK'
  <2>1. /\ phase' = [phase EXCEPT ![e] = phase'[e]]
        /\ services' = services \cup {"holiday"}
    BY DEF PlatformsForwarded, RegisterFrom
  <2>2. phase'[e] \in SettingUp \cup {"loaded", "stuck", "restoring"}
    BY <1>1 DEF SettingUp
  <2>3. listening' \in [Entries -> SUBSET Gens]
    BY DEF PlatformsForwarded, LifecycleInv, LifecycleTypeOK, EntriesInv, Grows, Gens,
           Active
  <2>4. services' \subseteq Services
    BY <2>1 DEF LifecycleInv, LifecycleTypeOK, Services
  <2>. QED BY <2>1, <2>2, <2>3, <2>4 DEF PlatformsForwarded, LifecycleInv, LifecycleTypeOK
<1>3. \A o \in Entries \ {e} : Still(o)
  BY DEF LifecycleInv, LifecycleTypeOK, Still, PlatformsForwarded, RegisterFrom
<1>4. LifecycleTypeOK /\ Keeps(e) /\ Grows(e) /\ Tails(e) /\ Traces(e)
  BY DEF LifecycleInv, EntriesInv
<1>5. Keeps(e)'
  BY <1>1, <1>4 DEF Keeps, Offering, Leaving, Active, Holding
<1>6. Grows(e)'
  BY <1>1, <1>4 DEF Grows, Refreshing, Active
<1>7. Tails(e)'
  BY <1>1, <1>4 DEF Tails, Offering, Refreshing, Writing
<1>8. Traces(e)'
  BY <1>1, <1>4 DEF Traces
<1>9. ServicesInv'
  <2>1. RegisterFrom(e, "loaded", "registering")
    BY DEF PlatformsForwarded
  <2>. QED BY <2>1, RegisterServices DEF LifecycleInv
<1>10. EntriesInv'
  BY <1>3, <1>5, <1>6, <1>7, <1>8, StillKeeps DEF LifecycleInv, EntriesInv
<1>. QED BY <1>2, <1>9, <1>10 DEF LifecycleInv

LEMMA SetupFailsKeeps ==
    ASSUME LifecycleInv, NEW e \in Entries, SetupFails(e)
    PROVE  LifecycleInv'
<1>1. /\ phase[e] \in {"forwarding", "registering"} /\ phase'[e] = "undoing"
      /\ gen'[e] = gen[e] /\ data'[e] = data[e] /\ going'[e] = going[e]
      /\ live'[e] = live[e] /\ listening'[e] = listening[e] /\ open'[e] = open[e]
      /\ cycle'[e] = cycle[e] /\ issue'[e] = issue[e] /\ unloaded'[e] = unloaded[e]
      /\ UNCHANGED streaks
  BY DEF SetupFails, LifecycleInv, LifecycleTypeOK, remains
<1>2. LifecycleTypeOK'
  <2>1. phase' \in [Entries -> SettingUp \cup Gone \cup Broken \cup
             {"loaded", "leaving", "unloading", "closing", "returned", "restoring",
              "stuck", "deleting"}]
    BY DEF SetupFails, LifecycleInv, LifecycleTypeOK, SettingUp
  <2>. QED BY <2>1 DEF SetupFails, LifecycleInv, LifecycleTypeOK, remains
<1>3. \A o \in Entries \ {e} : Still(o)
  BY DEF Still, SetupFails, remains
<1>4. LifecycleTypeOK /\ Keeps(e) /\ Grows(e) /\ Tails(e) /\ Traces(e)
  BY DEF LifecycleInv, EntriesInv
<1>5. Keeps(e)'
  BY <1>1, <1>4 DEF Keeps, Offering, Leaving, Active, Holding
<1>6. Grows(e)'
  BY <1>1, <1>4 DEF Grows, Offering, Refreshing, Active
<1>7. Tails(e)'
  BY <1>1, <1>4 DEF Tails, Refreshing, Writing
<1>8. Traces(e)'
  BY <1>1, <1>4 DEF Traces
<1>9. ServicesInv'
  <2>1. UNCHANGED services /\ \A o \in Entries \ {e} : phase'[o] = phase[o]
    BY DEF SetupFails, remains
  <2>2. /\ phase[e] \in Holding => phase'[e] \in Holding
        /\ phase'[e] \in Offering => phase'[e] = phase[e]
    BY <1>1 DEF Holding, Offering
  <2>. QED BY <2>1, <2>2, ServicesStay DEF LifecycleInv
<1>10. EntriesInv'
  BY <1>3, <1>5, <1>6, <1>7, <1>8, StillKeeps DEF LifecycleInv, EntriesInv
<1>. QED BY <1>2, <1>9, <1>10 DEF LifecycleInv

LEMMA TakeBackKeeps ==
    ASSUME LifecycleInv, NEW e \in Entries, TakeBack(e)
    PROVE  LifecycleInv'
<1>1. /\ phase[e] = "undoing" /\ phase'[e] = "undone" /\ data'[e] = 0
      /\ listening'[e] \in {listening[e], listening[e] \ {gen[e]}}
      /\ gen'[e] = gen[e] /\ going'[e] = going[e] /\ live'[e] = live[e]
      /\ open'[e] = open[e] /\ cycle'[e] = cycle[e] /\ issue'[e] = issue[e]
      /\ unloaded'[e] = unloaded[e]
      /\ UNCHANGED streaks
  BY DEF TakeBack, LifecycleInv, LifecycleTypeOK, remains
<1>2. LifecycleTypeOK'
  <2>1. phase' \in [Entries -> SettingUp \cup Gone \cup Broken \cup
             {"loaded", "leaving", "unloading", "closing", "returned", "restoring",
              "stuck", "deleting"}]
    BY DEF TakeBack, LifecycleInv, LifecycleTypeOK, SettingUp
  <2>2. listening' \in [Entries -> SUBSET Gens]
    <3>1. listening \in [Entries -> SUBSET Gens]
      BY DEF LifecycleInv, LifecycleTypeOK
    <3>2. CASE listening' = listening
      BY <3>1, <3>2
    <3>3. CASE listening' = [listening EXCEPT ![e] = @ \ {gen[e]}]
      BY <3>1, <3>3
    <3>. QED BY <3>2, <3>3 DEF TakeBack
  <2>. QED BY <2>1, <2>2 DEF TakeBack, LifecycleInv, LifecycleTypeOK, remains
<1>3. \A o \in Entries \ {e} : Still(o)
  BY DEF LifecycleInv, LifecycleTypeOK, Still, TakeBack, remains
<1>4. LifecycleTypeOK /\ Keeps(e) /\ Grows(e) /\ Tails(e) /\ Traces(e)
  BY DEF LifecycleInv, EntriesInv
<1>5. Keeps(e)'
  BY <1>1, <1>4 DEF Keeps, Offering, Leaving, Active, Holding
<1>6. Grows(e)'
  BY <1>1, <1>4 DEF Grows, Refreshing, Active
<1>7. Tails(e)'
  BY <1>1, <1>4 DEF Tails, Refreshing, Writing
<1>8. Traces(e)'
  BY <1>1, <1>4 DEF Traces
<1>9. ServicesInv'
  <2>1. UNCHANGED services /\ \A o \in Entries \ {e} : phase'[o] = phase[o]
    BY DEF TakeBack, remains
  <2>2. /\ phase[e] \in Holding => phase'[e] \in Holding
        /\ phase'[e] \in Offering => phase'[e] = phase[e]
    BY <1>1 DEF Holding, Offering
  <2>. QED BY <2>1, <2>2, ServicesStay DEF LifecycleInv
<1>10. EntriesInv'
  BY <1>3, <1>5, <1>6, <1>7, <1>8, StillKeeps DEF LifecycleInv, EntriesInv
<1>. QED BY <1>2, <1>9, <1>10 DEF LifecycleInv

LEMMA TakenBackKeeps ==
    ASSUME LifecycleInv, NEW e \in Entries, TakenBack(e)
    PROVE  LifecycleInv'
<1>1. /\ phase[e] = "undone" /\ phase'[e] = "retry"
      /\ open'[e] = open[e] \ {gen[e]} /\ listening'[e] = listening[e] \ {gen[e]}
      /\ \A g \in Gens : g # gen[e] => cycle'[e][g] = cycle[e][g]
      /\ cycle'[e][gen[e]] # "saving"
      /\ cycle[e][gen[e]] = "none" => cycle'[e][gen[e]] = "none"
      /\ gen'[e] = gen[e] /\ data'[e] = data[e] /\ going'[e] = going[e]
      /\ live'[e] = live[e] /\ issue'[e] = issue[e] /\ unloaded'[e] = unloaded[e]
      /\ UNCHANGED streaks
  BY DEF TakenBack, LifecycleInv, LifecycleTypeOK, EntriesInv, Grows, Gens, Active
<1>2. LifecycleTypeOK'
  <2>1. phase' \in [Entries -> SettingUp \cup Gone \cup Broken \cup
             {"loaded", "leaving", "unloading", "closing", "returned", "restoring",
              "stuck", "deleting"}]
    BY DEF TakenBack, LifecycleInv, LifecycleTypeOK, Gone
  <2>2. cycle' \in [Entries -> [Gens -> {"none", "fetching", "saving"}]]
    <3>1. cycle \in [Entries -> [Gens -> {"none", "fetching", "saving"}]]
          /\ gen[e] \in Gens
      BY <1>1 DEF LifecycleInv, LifecycleTypeOK, EntriesInv, Grows, Active, Gens
    <3>2. cycle' = cycle \/ cycle' = [cycle EXCEPT ![e][gen[e]] = "none"]
      BY DEF TakenBack
    <3>. QED BY <3>1, <3>2
  <2>3. services' \subseteq Services
    BY DEF TakenBack, Release, LifecycleInv, LifecycleTypeOK
  <2>4. loose' \subseteq Entries \X Gens
    BY SMTT(40) DEF TakenBack, LifecycleInv, LifecycleTypeOK, EntriesInv, Keeps, SettingUp, Active
  <2>. QED BY <2>1, <2>2, <2>3, <2>4 DEF TakenBack, LifecycleInv, LifecycleTypeOK
<1>3. \A o \in Entries \ {e} : Still(o)
  BY DEF LifecycleInv, LifecycleTypeOK, Still, TakenBack
<1>4. LifecycleTypeOK /\ Keeps(e) /\ Grows(e) /\ Tails(e) /\ Traces(e)
  BY DEF LifecycleInv, EntriesInv
<1>5. Keeps(e)'
  BY <1>1, <1>4 DEF Keeps, Offering, Refreshing, Leaving, Active
<1>6. Grows(e)'
  BY <1>1, <1>4 DEF Grows, Refreshing, Active
<1>7. Tails(e)'
  BY <1>1, <1>4
     DEF Tails, Offering, Refreshing, Leaving, Active, Holding, Writing, Gens
<1>8. Traces(e)'
  BY <1>1, <1>4 DEF Traces
<1>9. ServicesInv'
  <2>1. Release(e) /\ \A o \in Entries \ {e} : phase'[o] = phase[o]
    BY DEF TakenBack
  <2>2. phase'[e] \notin Offering
    BY <1>1 DEF Offering
  <2>. QED BY <2>1, <2>2, ReleaseServices DEF LifecycleInv
<1>10. EntriesInv'
  BY <1>3, <1>5, <1>6, <1>7, <1>8, StillKeeps DEF LifecycleInv, EntriesInv
<1>. QED BY <1>2, <1>9, <1>10 DEF LifecycleInv

LEMMA FetchEndsKeeps ==
    ASSUME LifecycleInv,
           NEW e \in Entries, NEW g \in Gens, FetchEnds(e, g)
    PROVE  LifecycleInv'
<1>1. /\ cycle[e][g] = "fetching" /\ cycle'[e][g] # "fetching"
      /\ cycle'[e][g] = "saving" => Owns(e, g)
      /\ \A x \in Gens \ {g} : cycle'[e][x] = cycle[e][x]
      /\ phase'[e] = phase[e] \/ (/\ phase[e] = "refreshing"
                                   /\ phase'[e] \in {"refreshed", "failing"})
      /\ issue'[e] \in {issue[e], 0} \/ (Owns(e, g) /\ issue'[e] = g)
      /\ \A x \in Gens : <<e, x>> \in streaks'[Account[e]] =>
            <<e, x>> \in streaks[Account[e]] \/ (Owns(e, g) /\ x = g)
      /\ gen'[e] = gen[e] /\ data'[e] = data[e] /\ going'[e] = going[e]
      /\ live'[e] = live[e] /\ listening'[e] = listening[e] /\ open'[e] = open[e]
      /\ unloaded'[e] = unloaded[e]
  BY DEF FetchEnds, Counted, IssuesSynced, SetupHears, FirstCycle,
         LifecycleInv, LifecycleTypeOK
<1>2. LifecycleTypeOK'
  <2>1. phase' \in [Entries -> SettingUp \cup Gone \cup Broken \cup
             {"loaded", "leaving", "unloading", "closing", "returned", "restoring",
              "stuck", "deleting"}]
    BY DEF FetchEnds, SetupHears, LifecycleInv, LifecycleTypeOK, SettingUp
  <2>2. cycle' \in [Entries -> [Gens -> {"none", "fetching", "saving"}]]
    BY DEF FetchEnds, LifecycleInv, LifecycleTypeOK
  <2>3. issue' \in [Entries -> 0..MaxGen]
    <3>1. \/ issue' = issue \/ issue' = [issue EXCEPT ![e] = 0]
          \/ issue' = [issue EXCEPT ![e] = g]
      BY DEF FetchEnds, IssuesSynced
    <3>2. 0..MaxGen = {0} \cup Gens
      BY LifecycleAssumption DEF Gens
    <3>. QED BY <3>1, <3>2 DEF LifecycleInv, LifecycleTypeOK
  <2>4. streaks' \in [Accounts -> SUBSET (Entries \X Gens)]
    <3>1. /\ streaks \in [Accounts -> SUBSET (Entries \X Gens)]
          /\ Account[e] \in Accounts
          /\ <<e, g>> \in Entries \X Gens
      BY DEF LifecycleInv, LifecycleTypeOK, Accounts
    <3>2. \/ streaks' = streaks \/ streaks' = [streaks EXCEPT ![Account[e]] = {}]
          \/ streaks' = [streaks EXCEPT ![Account[e]] = @ \cup {<<e, g>>}]
      BY DEF FetchEnds, Counted
    <3>. QED BY <3>1, <3>2
  <2>. QED BY <2>1, <2>2, <2>3, <2>4 DEF FetchEnds, LifecycleInv, LifecycleTypeOK
<1>3. \A o \in Entries \ {e} : Still(o)
  BY DEF LifecycleInv, LifecycleTypeOK, Still, FetchEnds, Counted, IssuesSynced,
         SetupHears
<1>4. LifecycleTypeOK /\ Keeps(e) /\ Grows(e) /\ Tails(e) /\ Traces(e)
  BY DEF LifecycleInv, EntriesInv
<1>5. cycle[e][g] # "none" /\ Owns(e, g) =>
          /\ g = gen[e] /\ g > unloaded[e] /\ phase[e] \in Writing \ {"leaving"}
          /\ phase[e] \notin {"closing", "returned"}
          /\ phase[e] \in Broken => ~going[e]
  BY <1>4, OwnerIsNew
<1>6. Keeps(e)'
  BY <1>1, <1>4 DEF Keeps, Offering, Refreshing, Leaving, Active, Holding
<1>7. Grows(e)'
  BY <1>1, <1>4 DEF Grows, Refreshing, Active
<1>8. Tails(e)'
  BY <1>1, <1>4, <1>5 DEF Tails, Refreshing, Active, Holding, Writing, Gens
<1>9. Traces(e)'
  BY <1>1, <1>4, <1>5 DEF Traces
<1>10. ServicesInv'
  <2>1. UNCHANGED services /\ \A o \in Entries \ {e} : phase'[o] = phase[o]
    BY DEF FetchEnds, SetupHears
  <2>2. /\ phase[e] \in Holding => phase'[e] \in Holding
        /\ phase'[e] \in Offering => phase'[e] = phase[e]
    BY <1>1 DEF Holding, Offering
  <2>. QED BY <2>1, <2>2, ServicesStay DEF LifecycleInv
<1>11. EntriesInv'
  BY <1>3, <1>6, <1>7, <1>8, <1>9, StillKeeps DEF LifecycleInv, EntriesInv
<1>. QED BY <1>2, <1>10, <1>11 DEF LifecycleInv

LEMMA SaveLandsKeeps ==
    ASSUME LifecycleInv,
           NEW e \in Entries, NEW g \in Gens, SaveLands(e, g)
    PROVE  LifecycleInv'
<1>1. /\ cycle[e][g] = "saving" /\ cycle'[e][g] = "none"
      /\ \A x \in Gens \ {g} : cycle'[e][x] = cycle[e][x]
      /\ phase'[e] = phase[e] /\ gen'[e] = gen[e] /\ data'[e] = data[e]
      /\ going'[e] = going[e] /\ live'[e] = live[e] /\ listening'[e] = listening[e]
      /\ open'[e] = open[e] /\ issue'[e] = issue[e] /\ unloaded'[e] = unloaded[e]
      /\ UNCHANGED streaks
  BY DEF SaveLands, LifecycleInv, LifecycleTypeOK, entryVars
<1>2. LifecycleTypeOK'
  <2>1. store' \in [Entries -> 0..MaxGen]
    BY DEF SaveLands, LifecycleInv, LifecycleTypeOK, Gens
  <2>. QED BY <2>1 DEF SaveLands, LifecycleInv, LifecycleTypeOK, entryVars
<1>3. \A o \in Entries \ {e} : Still(o)
  BY DEF Still, SaveLands, entryVars
<1>4. LifecycleTypeOK /\ Keeps(e) /\ Grows(e) /\ Tails(e) /\ Traces(e)
  BY DEF LifecycleInv, EntriesInv
<1>5. Keeps(e)'
  BY <1>1, <1>4 DEF Keeps
<1>6. Grows(e)'
  BY <1>1, <1>4 DEF Grows
<1>7. Tails(e)'
  BY <1>1, <1>4 DEF Tails, Active, Writing
<1>8. Traces(e)'
  BY <1>1, <1>4 DEF Traces
<1>9. ServicesInv'
  <2>1. UNCHANGED services /\ \A o \in Entries \ {e} : phase'[o] = phase[o]
    BY DEF SaveLands, entryVars
  <2>2. /\ phase[e] \in Holding => phase'[e] \in Holding
        /\ phase'[e] \in Offering => phase'[e] = phase[e]
    BY <1>1
  <2>. QED BY <2>1, <2>2, ServicesStay DEF LifecycleInv
<1>10. EntriesInv'
  BY <1>3, <1>5, <1>6, <1>7, <1>8, StillKeeps DEF LifecycleInv, EntriesInv
<1>. QED BY <1>2, <1>9, <1>10 DEF LifecycleInv

LEMMA TimesOutKeeps ==
    ASSUME LifecycleInv,
           NEW e \in Entries, NEW g \in Gens, FetchTimesOut(e, g)
    PROVE  LifecycleInv'
<1>1. /\ cycle'[e][g] = "none" /\ cycle[e][g] # "none"
      /\ \A x \in Gens \ {g} : cycle'[e][x] = cycle[e][x]
      /\ phase'[e] = phase[e] \/ (/\ phase[e] \in {"refreshing", "refreshed"}
                                   /\ phase'[e] = "failing")
      /\ issue'[e] \in {issue[e], 0} \/ (Owns(e, g) /\ issue'[e] = g)
      /\ \A x \in Gens : <<e, x>> \in streaks'[Account[e]] =>
            <<e, x>> \in streaks[Account[e]]
      /\ gen'[e] = gen[e] /\ data'[e] = data[e] /\ going'[e] = going[e]
      /\ live'[e] = live[e] /\ listening'[e] = listening[e] /\ open'[e] = open[e]
      /\ unloaded'[e] = unloaded[e]
  BY DEF FetchTimesOut, Counted, IssuesSynced, LifecycleInv, LifecycleTypeOK
<1>2. LifecycleTypeOK'
  <2>1. phase' \in [Entries -> SettingUp \cup Gone \cup Broken \cup
             {"loaded", "leaving", "unloading", "closing", "returned", "restoring",
              "stuck", "deleting"}]
    BY DEF FetchTimesOut, LifecycleInv, LifecycleTypeOK, SettingUp
  <2>2. issue' \in [Entries -> 0..MaxGen]
    BY DEF FetchTimesOut, Counted, IssuesSynced, LifecycleInv, LifecycleTypeOK, EntriesInv,
           Keeps, Accounts, SettingUp, Gone, Gens, Services, Offering,
           Refreshing, Active
  <2>3. streaks' \in [Accounts -> SUBSET (Entries \X Gens)]
    BY DEF FetchTimesOut, Counted, LifecycleInv, LifecycleTypeOK
  <2>4. loose' \subseteq Entries \X Gens
    BY DEF FetchTimesOut, LifecycleInv, LifecycleTypeOK
  <2>. QED BY <2>1, <2>2, <2>3, <2>4 DEF FetchTimesOut, LifecycleInv, LifecycleTypeOK
<1>3. \A o \in Entries \ {e} : Still(o)
  BY DEF LifecycleInv, LifecycleTypeOK, Still, FetchTimesOut, Counted, IssuesSynced
<1>4. LifecycleTypeOK /\ Keeps(e) /\ Grows(e) /\ Tails(e) /\ Traces(e)
  BY DEF LifecycleInv, EntriesInv
<1>5. cycle[e][g] # "none" /\ Owns(e, g) =>
          /\ g = gen[e] /\ g > unloaded[e] /\ phase[e] \in Writing \ {"leaving"}
          /\ phase[e] \notin {"closing", "returned"}
          /\ phase[e] \in Broken => ~going[e]
  BY <1>4, OwnerIsNew
<1>6. Keeps(e)'
  BY <1>1, <1>4 DEF Keeps, Offering, Refreshing, Leaving, Active, Holding
<1>7. Grows(e)'
  BY <1>1, <1>4 DEF Grows, Refreshing, Active
<1>8. Tails(e)'
  BY <1>1, <1>4 DEF Tails, Refreshing, Writing, Gens
<1>9. Traces(e)'
  BY <1>1, <1>4, <1>5 DEF Traces
<1>10. ServicesInv'
  <2>1. UNCHANGED services /\ \A o \in Entries \ {e} : phase'[o] = phase[o]
    BY DEF FetchTimesOut
  <2>2. /\ phase[e] \in Holding => phase'[e] \in Holding
        /\ phase'[e] \in Offering => phase'[e] = phase[e]
    BY <1>1 DEF Holding, Offering
  <2>. QED BY <2>1, <2>2, ServicesStay DEF LifecycleInv
<1>11. EntriesInv'
  BY <1>3, <1>6, <1>7, <1>8, <1>9, StillKeeps DEF LifecycleInv, EntriesInv
<1>. QED BY <1>2, <1>10, <1>11 DEF LifecycleInv

LEMMA WaitForWritesKeeps ==
    ASSUME LifecycleInv, NEW e \in Entries, WaitForWrites(e)
    PROVE  LifecycleInv'
<1>1. /\ phase[e] = "leaving" /\ phase'[e] = "unloading" /\ cycle[e][gen[e]] # "saving"
      /\ gen'[e] = gen[e] /\ data'[e] = data[e] /\ going'[e] = going[e]
      /\ live'[e] = live[e] /\ listening'[e] = listening[e] /\ open'[e] = open[e]
      /\ cycle'[e] = cycle[e] /\ issue'[e] = issue[e] /\ unloaded'[e] = unloaded[e]
      /\ UNCHANGED streaks
  BY DEF WaitForWrites, LifecycleInv, LifecycleTypeOK, EntriesInv, remains, Leaving, Keeps
<1>2. LifecycleTypeOK'
  <2>. QED BY DEF WaitForWrites, LifecycleInv, LifecycleTypeOK, remains
<1>3. \A o \in Entries \ {e} : Still(o)
  BY DEF Still, WaitForWrites, remains
<1>4. LifecycleTypeOK /\ Keeps(e) /\ Grows(e) /\ Tails(e) /\ Traces(e)
  BY DEF LifecycleInv, EntriesInv
<1>5. Keeps(e)'
  BY <1>1, <1>4 DEF Keeps, Offering, Leaving, Active, Holding
<1>6. Grows(e)'
  BY <1>1, <1>4 DEF Grows, Refreshing, Leaving, Active
<1>7. Tails(e)'
  BY <1>1, <1>4 DEF Tails, Refreshing
<1>8. Traces(e)'
  BY <1>1, <1>4 DEF Traces
<1>9. ServicesInv'
  <2>1. UNCHANGED services /\ \A o \in Entries \ {e} : phase'[o] = phase[o]
    BY DEF WaitForWrites, remains
  <2>2. /\ phase[e] \in Holding => phase'[e] \in Holding
        /\ phase'[e] \in Offering => phase'[e] = phase[e]
    BY <1>1 DEF Holding, Offering
  <2>. QED BY <2>1, <2>2, ServicesStay DEF LifecycleInv
<1>10. EntriesInv'
  BY <1>3, <1>5, <1>6, <1>7, <1>8, StillKeeps DEF LifecycleInv, EntriesInv
<1>. QED BY <1>2, <1>9, <1>10 DEF LifecycleInv

LEMMA RefreshSucceededKeeps ==
    ASSUME LifecycleInv, NEW e \in Entries, RefreshSucceeded(e)
    PROVE  LifecycleInv'
<1>1. /\ phase[e] = "refreshed" /\ phase'[e] = "forwarding" /\ cycle[e][gen[e]] = "none"
      /\ data'[e] = gen[e] /\ going'[e] = FALSE /\ live'[e] = live[e] \cup {gen[e]}
      /\ gen'[e] = gen[e] /\ listening'[e] = listening[e] /\ open'[e] = open[e]
      /\ cycle'[e] = cycle[e] /\ issue'[e] = issue[e] /\ unloaded'[e] = unloaded[e]
      /\ UNCHANGED streaks
  BY DEF RefreshSucceeded, LifecycleInv, LifecycleTypeOK, remains
<1>2. LifecycleTypeOK'
  <2>1. phase' \in [Entries -> SettingUp \cup Gone \cup Broken \cup
             {"loaded", "leaving", "unloading", "closing", "returned", "restoring",
              "stuck", "deleting"}]
    BY DEF RefreshSucceeded, LifecycleInv, LifecycleTypeOK, SettingUp
  <2>2. live' \in [Entries -> SUBSET Gens]
    BY DEF RefreshSucceeded, LifecycleInv, LifecycleTypeOK, EntriesInv, Grows, Gens,
           Refreshing, Active
  <2>. QED BY <2>1, <2>2 DEF RefreshSucceeded, LifecycleInv, LifecycleTypeOK, remains
<1>3. \A o \in Entries \ {e} : Still(o)
  BY DEF Still, RefreshSucceeded, remains
<1>4. LifecycleTypeOK /\ Keeps(e) /\ Grows(e) /\ Tails(e) /\ Traces(e)
  BY DEF LifecycleInv, EntriesInv
<1>5. Keeps(e)'
  BY <1>1, <1>4 DEF Keeps, Offering, Refreshing, Leaving, Active, Holding
<1>6. Grows(e)'
  BY <1>1, <1>4 DEF Grows, LifecycleTypeOK, Refreshing, Active
<1>7. Tails(e)'
  BY <1>1, <1>4 DEF Tails
<1>8. Traces(e)'
  BY <1>1, <1>4 DEF Traces
<1>9. ServicesInv'
  <2>1. UNCHANGED services /\ \A o \in Entries \ {e} : phase'[o] = phase[o]
    BY DEF RefreshSucceeded, remains
  <2>2. /\ phase[e] \in Holding => phase'[e] \in Holding
        /\ phase'[e] \in Offering => phase'[e] = phase[e]
    BY <1>1 DEF Holding, Offering
  <2>. QED BY <2>1, <2>2, ServicesStay DEF LifecycleInv
<1>10. EntriesInv'
  BY <1>3, <1>5, <1>6, <1>7, <1>8, StillKeeps DEF LifecycleInv, EntriesInv
<1>. QED BY <1>2, <1>9, <1>10 DEF LifecycleInv

LEMMA BeginUnloadKeeps ==
    ASSUME LifecycleInv, NEW e \in Entries, BeginUnload(e)
    PROVE  LifecycleInv'
<1>1. /\ phase[e] = "loaded" /\ phase'[e] = "leaving" /\ going'[e] = TRUE
      /\ gen'[e] = gen[e] /\ data'[e] = data[e] /\ live'[e] = live[e]
      /\ listening'[e] = listening[e] /\ open'[e] = open[e] /\ cycle'[e] = cycle[e]
      /\ issue'[e] = issue[e] /\ unloaded'[e] = unloaded[e]
      /\ UNCHANGED streaks
  BY DEF BeginUnload, LifecycleInv, LifecycleTypeOK, remains
<1>2. LifecycleTypeOK'
  <2>. QED BY DEF BeginUnload, LifecycleInv, LifecycleTypeOK, remains
<1>3. \A o \in Entries \ {e} : Still(o)
  BY DEF Still, BeginUnload, remains
<1>4. LifecycleTypeOK /\ Keeps(e) /\ Grows(e) /\ Tails(e) /\ Traces(e)
  BY DEF LifecycleInv, EntriesInv
<1>5. Keeps(e)'
  BY <1>1, <1>4 DEF Keeps, Offering, Leaving, Active, Holding
<1>6. Grows(e)'
  BY <1>1, <1>4 DEF Grows, Offering, Refreshing, Active
<1>7. Tails(e)'
  BY <1>1, <1>4 DEF Tails, Refreshing, Writing
<1>8. Traces(e)'
  BY <1>1, <1>4 DEF Traces
<1>9. ServicesInv'
  <2>1. UNCHANGED services /\ \A o \in Entries \ {e} : phase'[o] = phase[o]
    BY DEF BeginUnload, remains
  <2>2. /\ phase[e] \in Holding => phase'[e] \in Holding
        /\ phase'[e] \in Offering => phase'[e] = phase[e]
    BY <1>1 DEF Holding, Offering
  <2>. QED BY <2>1, <2>2, ServicesStay DEF LifecycleInv
<1>10. EntriesInv'
  BY <1>3, <1>5, <1>6, <1>7, <1>8, StillKeeps DEF LifecycleInv, EntriesInv
<1>. QED BY <1>2, <1>9, <1>10 DEF LifecycleInv

LEMMA PlatformsUnloadedKeeps ==
    ASSUME LifecycleInv,
           NEW e \in Entries, PlatformsUnloaded(e)
    PROVE  LifecycleInv'
<1>1. /\ phase[e] = "unloading" /\ phase'[e] = "closing"
      /\ issue'[e] = 0 /\ (Alone(e) => streaks'[Account[e]] = {})
      /\ gen'[e] = gen[e] /\ data'[e] = data[e] /\ going'[e] = going[e]
      /\ live'[e] = live[e] /\ listening'[e] = listening[e] /\ open'[e] = open[e]
      /\ cycle'[e] = cycle[e] /\ unloaded'[e] = unloaded[e]
  BY DEF PlatformsUnloaded, Shares, LifecycleInv, LifecycleTypeOK, Accounts, Alone
<1>2. LifecycleTypeOK'
  <2>1. streaks' \in [Accounts -> SUBSET (Entries \X Gens)]
    BY DEF PlatformsUnloaded, LifecycleInv, LifecycleTypeOK
  <2>. QED BY <2>1 DEF PlatformsUnloaded, LifecycleInv, LifecycleTypeOK
<1>3. \A o \in Entries \ {e} : Still(o)
  BY DEF Still, PlatformsUnloaded
<1>4. LifecycleTypeOK /\ Keeps(e) /\ Grows(e) /\ Tails(e) /\ Traces(e)
  BY DEF LifecycleInv, EntriesInv
<1>5. Keeps(e)'
  BY <1>1, <1>4 DEF Keeps, Offering, Leaving, Active, Holding
<1>6. Grows(e)'
  BY <1>1, <1>4 DEF Grows, Refreshing, Leaving, Active
<1>7. Tails(e)'
  BY <1>1, <1>4 DEF Tails, Offering, Refreshing, Writing
<1>8. Traces(e)'
  BY <1>1 DEF Traces
<1>9. ServicesInv'
  <2>1. UNCHANGED services /\ \A o \in Entries \ {e} : phase'[o] = phase[o]
    BY DEF PlatformsUnloaded
  <2>2. /\ phase[e] \in Holding => phase'[e] \in Holding
        /\ phase'[e] \in Offering => phase'[e] = phase[e]
    BY <1>1 DEF Holding, Offering
  <2>. QED BY <2>1, <2>2, ServicesStay DEF LifecycleInv
<1>10. EntriesInv'
  BY <1>3, <1>5, <1>6, <1>7, <1>8, StillKeeps DEF LifecycleInv, EntriesInv
<1>. QED BY <1>2, <1>9, <1>10 DEF LifecycleInv

LEMMA PlatformsRefuseKeeps ==
    ASSUME LifecycleInv, NEW e \in Entries, PlatformsRefuse(e)
    PROVE  LifecycleInv'
<1>1. /\ phase[e] = "unloading" /\ phase'[e] \in {"stuck", "restoring"}
      /\ going'[e] = FALSE
      /\ gen'[e] = gen[e] /\ data'[e] = data[e] /\ live'[e] = live[e]
      /\ listening'[e] = listening[e] /\ open'[e] = open[e] /\ cycle'[e] = cycle[e]
      /\ issue'[e] = issue[e] /\ unloaded'[e] = unloaded[e]
      /\ UNCHANGED streaks
  BY DEF PlatformsRefuse, RegisterFrom, LifecycleInv, LifecycleTypeOK
<1>2. LifecycleTypeOK'
  <2>1. /\ phase' = [phase EXCEPT ![e] = phase'[e]]
        /\ services' = services \cup {"holiday"}
    BY DEF PlatformsRefuse, RegisterFrom
  <2>2. phase'[e] \in SettingUp \cup {"loaded", "stuck", "restoring"}
    BY <1>1
  <2>3. services' \subseteq Services
    BY <2>1 DEF LifecycleInv, LifecycleTypeOK, Services
  <2>. QED BY <2>1, <2>2, <2>3 DEF PlatformsRefuse, LifecycleInv, LifecycleTypeOK
<1>3. \A o \in Entries \ {e} : Still(o)
  BY DEF LifecycleInv, LifecycleTypeOK, Still, PlatformsRefuse, RegisterFrom
<1>4. LifecycleTypeOK /\ Keeps(e) /\ Grows(e) /\ Tails(e) /\ Traces(e)
  BY DEF LifecycleInv, EntriesInv
<1>5. Keeps(e)'
  BY <1>1, <1>4 DEF Keeps, Offering, Leaving, Active, Holding
<1>6. Grows(e)'
  BY <1>1, <1>4 DEF Grows, Refreshing, Leaving, Active
<1>7. Tails(e)'
  BY <1>1, <1>4 DEF Tails, Offering, Refreshing, Writing
<1>8. Traces(e)'
  BY <1>1, <1>4 DEF Traces
<1>9. ServicesInv'
  <2>1. RegisterFrom(e, "stuck", "restoring")
    BY DEF PlatformsRefuse
  <2>. QED BY <2>1, RegisterServices DEF LifecycleInv
<1>10. EntriesInv'
  BY <1>3, <1>5, <1>6, <1>7, <1>8, StillKeeps DEF LifecycleInv, EntriesInv
<1>. QED BY <1>2, <1>9, <1>10 DEF LifecycleInv

LEMMA UnloadRaisesKeeps ==
    ASSUME LifecycleInv, NEW e \in Entries, UnloadRaises(e)
    PROVE  LifecycleInv'
<1>1. /\ phase[e] = "unloading" /\ phase'[e] = "failed"
      /\ gen'[e] = gen[e] /\ data'[e] = data[e] /\ going'[e] = going[e]
      /\ live'[e] = live[e] /\ listening'[e] = listening[e] /\ open'[e] = open[e]
      /\ cycle'[e] = cycle[e] /\ issue'[e] = issue[e] /\ unloaded'[e] = unloaded[e]
      /\ UNCHANGED streaks
  BY DEF UnloadRaises, LifecycleInv, LifecycleTypeOK, EntriesInv, remains, Leaving, Keeps
<1>2. LifecycleTypeOK'
  <2>. QED BY DEF UnloadRaises, LifecycleInv, LifecycleTypeOK, remains
<1>3. \A o \in Entries \ {e} : Still(o)
  BY DEF Still, UnloadRaises, remains
<1>4. LifecycleTypeOK /\ Keeps(e) /\ Grows(e) /\ Tails(e) /\ Traces(e)
  BY DEF LifecycleInv, EntriesInv
<1>5. Keeps(e)'
  BY <1>1, <1>4 DEF Keeps, Offering, Leaving, Active, Holding
<1>6. Grows(e)'
  BY <1>1, <1>4 DEF Grows, Refreshing, Leaving, Active
<1>7. Tails(e)'
  BY <1>1, <1>4 DEF Tails, Offering, Refreshing, Writing
<1>8. Traces(e)'
  BY <1>1, <1>4 DEF Traces
<1>9. ServicesInv'
  <2>1. UNCHANGED services /\ \A o \in Entries \ {e} : phase'[o] = phase[o]
    BY DEF UnloadRaises, remains
  <2>2. /\ phase[e] \in Holding => phase'[e] \in Holding
        /\ phase'[e] \in Offering => phase'[e] = phase[e]
    BY <1>1 DEF Holding, Offering
  <2>. QED BY <2>1, <2>2, ServicesStay DEF LifecycleInv
<1>10. EntriesInv'
  BY <1>3, <1>5, <1>6, <1>7, <1>8, StillKeeps DEF LifecycleInv, EntriesInv
<1>. QED BY <1>2, <1>9, <1>10 DEF LifecycleInv

LEMMA ClosedKeeps ==
    ASSUME LifecycleInv, NEW e \in Entries, Closed(e)
    PROVE  LifecycleInv'
<1>1. /\ phase[e] = "closing" /\ phase'[e] = "returned"
      /\ open'[e] = open[e] \ {data[e]} /\ listening'[e] = listening[e] \ {data[e]}
      /\ gen'[e] = gen[e] /\ data'[e] = data[e] /\ going'[e] = going[e]
      /\ live'[e] = live[e] /\ cycle'[e] = cycle[e]
      /\ issue'[e] = issue[e] /\ unloaded'[e] = unloaded[e]
      /\ UNCHANGED streaks
  BY DEF Closed, LifecycleInv, LifecycleTypeOK
<1>2. LifecycleTypeOK'
  <2>1. services' \subseteq Services
    BY DEF Closed, Release, LifecycleInv, LifecycleTypeOK
  <2>. QED BY <2>1 DEF Closed, LifecycleInv, LifecycleTypeOK
<1>3. \A o \in Entries \ {e} : Still(o)
  BY DEF Still, Closed
<1>4. LifecycleTypeOK /\ Keeps(e) /\ Grows(e) /\ Tails(e) /\ Traces(e)
  BY DEF LifecycleInv, EntriesInv
<1>5. Keeps(e)'
  BY <1>1, <1>4 DEF Keeps, Offering, Leaving, Active, Holding
<1>6. Grows(e)'
  BY <1>1, <1>4 DEF Grows, Refreshing, Leaving, Active
<1>7. Tails(e)'
  <2>1. /\ phase[e] \notin Refreshing \cup Writing
        /\ phase'[e] \notin Refreshing \cup Writing \cup Broken
    BY <1>1 DEF Refreshing, Writing, Offering, Broken
  <2>2. \A g \in Gens : cycle[e][g] # "saving" /\ (cycle[e][g] # "none" => g \in live[e])
    BY <1>4, <2>1 DEF Tails
  <2>. QED
    BY <1>1, <2>2 DEF Tails
<1>8. Traces(e)'
  BY <1>1, <1>4 DEF Traces
<1>9. ServicesInv'
  <2>1. Release(e) /\ \A o \in Entries \ {e} : phase'[o] = phase[o]
    BY DEF Closed
  <2>2. phase'[e] \notin Offering
    BY <1>1 DEF Offering
  <2>. QED BY <2>1, <2>2, ReleaseServices DEF LifecycleInv
<1>10. EntriesInv'
  BY <1>3, <1>5, <1>6, <1>7, <1>8, StillKeeps DEF LifecycleInv, EntriesInv
<1>. QED BY <1>2, <1>9, <1>10 DEF LifecycleInv

LEMMA UnloadedKeeps ==
    ASSUME LifecycleInv, NEW e \in Entries, Unloaded(e)
    PROVE  LifecycleInv'
<1>1. /\ phase[e] = "returned" /\ phase'[e] = "out" /\ data'[e] = 0
      /\ unloaded'[e] = data[e]
      /\ gen'[e] = gen[e] /\ going'[e] = going[e] /\ live'[e] = live[e]
      /\ listening'[e] = listening[e] /\ open'[e] = open[e] /\ cycle'[e] = cycle[e]
      /\ issue'[e] = issue[e]
      /\ UNCHANGED streaks
  BY DEF Unloaded, LifecycleInv, LifecycleTypeOK, remains
<1>2. LifecycleTypeOK'
  <2>1. phase' \in [Entries -> SettingUp \cup Gone \cup Broken \cup
             {"loaded", "leaving", "unloading", "closing", "returned", "restoring",
              "stuck", "deleting"}]
    BY DEF Unloaded, LifecycleInv, LifecycleTypeOK, Gone
  <2>. QED BY <2>1 DEF Unloaded, LifecycleInv, LifecycleTypeOK, remains
<1>3. \A o \in Entries \ {e} : Still(o)
  BY DEF Still, Unloaded, remains
<1>4. LifecycleTypeOK /\ Keeps(e) /\ Grows(e) /\ Tails(e) /\ Traces(e)
  BY DEF LifecycleInv, EntriesInv
<1>5. Keeps(e)'
  BY <1>1, <1>4 DEF Keeps, Offering, Refreshing, Leaving, Active, Holding
<1>6. Grows(e)'
  BY <1>1, <1>4 DEF Keeps, Grows, Offering, Refreshing, Leaving, Active
<1>7. Tails(e)'
  BY <1>1, <1>4 DEF Tails, Offering, Refreshing, Writing
<1>8. Traces(e)'
  BY <1>1, <1>4 DEF Traces
<1>9. ServicesInv'
  <2>1. UNCHANGED services /\ \A o \in Entries \ {e} : phase'[o] = phase[o]
    BY DEF Unloaded, remains
  <2>2. /\ phase[e] \in Holding => phase'[e] \in Holding
        /\ phase'[e] \in Offering => phase'[e] = phase[e]
    BY <1>1 DEF Holding, Offering
  <2>. QED BY <2>1, <2>2, ServicesStay DEF LifecycleInv
<1>10. EntriesInv'
  BY <1>3, <1>5, <1>6, <1>7, <1>8, StillKeeps DEF LifecycleInv, EntriesInv
<1>. QED BY <1>2, <1>9, <1>10 DEF LifecycleInv

LEMMA DeleteStoresKeeps ==
    ASSUME LifecycleInv, NEW e \in Entries, DeleteStores(e)
    PROVE  LifecycleInv'
<1>1. /\ \/ phase[e] \in {"out", "retry"} /\ phase'[e] = "deleting"
         \/ phase[e] \in {"stuck", "failed"} /\ phase'[e] = "dropping"
      /\ gen[e] > 0
      /\ gen'[e] = gen[e] /\ data'[e] = data[e] /\ going'[e] = going[e]
      /\ live'[e] = live[e] /\ listening'[e] = listening[e] /\ open'[e] = open[e]
      /\ cycle'[e] = cycle[e] /\ issue'[e] = issue[e] /\ unloaded'[e] = unloaded[e]
      /\ UNCHANGED streaks
  BY DEF DeleteStores, LifecycleInv, LifecycleTypeOK
<1>2. LifecycleTypeOK'
  <2>. QED BY DEF DeleteStores, LifecycleInv, LifecycleTypeOK
<1>3. \A o \in Entries \ {e} : Still(o)
  BY DEF Still, DeleteStores
<1>4. LifecycleTypeOK /\ Keeps(e) /\ Grows(e) /\ Tails(e) /\ Traces(e)
  BY DEF LifecycleInv, EntriesInv
<1>5. Keeps(e)'
  BY <1>1, <1>4 DEF Keeps, Offering, Refreshing, Leaving, Active, Holding
<1>6. Grows(e)'
  BY <1>1, <1>4 DEF Grows, Offering, Refreshing, Leaving, Active
<1>7. Tails(e)'
  BY <1>1, <1>4 DEF Keeps, Tails, Offering, Refreshing, Writing
<1>8. Traces(e)'
  BY <1>1, <1>4 DEF Traces
<1>9. ServicesInv'
  <2>1. UNCHANGED services /\ \A o \in Entries \ {e} : phase'[o] = phase[o]
    BY DEF DeleteStores
  <2>2. /\ phase[e] \in Holding => phase'[e] \in Holding
        /\ phase'[e] \in Offering => phase'[e] = phase[e]
    BY <1>1 DEF Holding, Offering
  <2>. QED BY <2>1, <2>2, ServicesStay DEF LifecycleInv
<1>10. EntriesInv'
  BY <1>3, <1>5, <1>6, <1>7, <1>8, StillKeeps DEF LifecycleInv, EntriesInv
<1>. QED BY <1>2, <1>9, <1>10 DEF LifecycleInv

LEMMA ForgetEntryKeeps ==
    ASSUME LifecycleInv, NEW e \in Entries, ForgetEntry(e)
    PROVE  LifecycleInv'
<1>1. /\ \/ phase[e] = "deleting" /\ phase'[e] = "removed"
         \/ phase[e] = "dropping" /\ phase'[e] = "abandoned"
      /\ issue'[e] = 0
      /\ (Alone(e) => streaks'[Account[e]] = {})
      /\ gen'[e] = gen[e] /\ data'[e] = data[e] /\ going'[e] = going[e]
      /\ live'[e] = live[e] /\ listening'[e] = listening[e] /\ open'[e] = open[e]
      /\ cycle'[e] = cycle[e] /\ unloaded'[e] = unloaded[e]
  BY DEF ForgetEntry, Shares, LifecycleInv, LifecycleTypeOK, Accounts, Alone
<1>2. LifecycleTypeOK'
  <2>1. phase' \in [Entries -> SettingUp \cup Gone \cup Broken \cup
             {"loaded", "leaving", "unloading", "closing", "returned", "restoring",
              "stuck", "deleting"}]
    BY DEF ForgetEntry, LifecycleInv, LifecycleTypeOK, Gone
  <2>2. streaks' \in [Accounts -> SUBSET (Entries \X Gens)]
    BY DEF ForgetEntry, LifecycleInv, LifecycleTypeOK
  <2>. QED BY <2>1, <2>2 DEF ForgetEntry, LifecycleInv, LifecycleTypeOK
<1>3. \A o \in Entries \ {e} : Still(o)
  BY DEF Still, ForgetEntry
<1>4. LifecycleTypeOK /\ Keeps(e) /\ Grows(e) /\ Tails(e) /\ Traces(e)
  BY DEF LifecycleInv, EntriesInv
<1>5. Keeps(e)'
  BY <1>1, <1>4 DEF Keeps, Offering, Refreshing, Leaving, Active, Holding
<1>6. Grows(e)'
  BY <1>1, <1>4 DEF Grows, Offering, Refreshing, Leaving, Active
<1>7. Tails(e)'
  BY <1>1, <1>4 DEF Tails, Offering, Refreshing, Writing
<1>8. Traces(e)'
  BY <1>1 DEF Traces
<1>9. ServicesInv'
  <2>1. UNCHANGED services /\ \A o \in Entries \ {e} : phase'[o] = phase[o]
    BY DEF ForgetEntry
  <2>2. /\ phase[e] \in Holding => phase'[e] \in Holding
        /\ phase'[e] \in Offering => phase'[e] = phase[e]
    BY <1>1 DEF Holding, Offering
  <2>. QED BY <2>1, <2>2, ServicesStay DEF LifecycleInv
<1>10. EntriesInv'
  BY <1>3, <1>5, <1>6, <1>7, <1>8, StillKeeps DEF LifecycleInv, EntriesInv
<1>. QED BY <1>2, <1>9, <1>10 DEF LifecycleInv

LEMMA StartSetupKeeps ==
    ASSUME LifecycleInv, NEW e \in Entries, SetupStarts(e)
    PROVE  LifecycleInv'
<1>1. /\ phase[e] \in {"out", "retry"} /\ phase'[e] = "loading" /\ gen[e] < MaxGen
      /\ gen'[e] = gen[e] /\ data'[e] = data[e] /\ going'[e] = going[e]
      /\ live'[e] = live[e] /\ listening'[e] = listening[e] /\ open'[e] = open[e]
      /\ cycle'[e] = cycle[e] /\ issue'[e] = issue[e] /\ unloaded'[e] = unloaded[e]
      /\ UNCHANGED streaks
  BY DEF SetupStarts, LifecycleInv, LifecycleTypeOK, remains
<1>2. LifecycleTypeOK'
  <2>1. phase' \in [Entries -> SettingUp \cup Gone \cup Broken \cup
             {"loaded", "leaving", "unloading", "closing", "returned", "restoring",
              "stuck", "deleting"}]
    BY DEF SetupStarts, LifecycleInv, LifecycleTypeOK, SettingUp
  <2>. QED BY <2>1 DEF SetupStarts, LifecycleInv, LifecycleTypeOK, remains
<1>3. \A o \in Entries \ {e} : Still(o)
  BY DEF Still, SetupStarts, remains
<1>4. LifecycleTypeOK /\ Keeps(e) /\ Grows(e) /\ Tails(e) /\ Traces(e)
  BY DEF LifecycleInv, EntriesInv
<1>5. Keeps(e)'
  BY <1>1, <1>4 DEF Keeps, Offering, Refreshing, Leaving, Active, Holding
<1>6. Grows(e)'
  BY <1>1, <1>4 DEF Grows, Offering, Refreshing, Leaving, Active
<1>7. Tails(e)'
  BY <1>1, <1>4 DEF Tails, Offering, Refreshing, Writing
<1>8. Traces(e)'
  BY <1>1, <1>4 DEF Traces
<1>9. ServicesInv'
  <2>1. UNCHANGED services /\ \A o \in Entries \ {e} : phase'[o] = phase[o]
    BY DEF SetupStarts, remains
  <2>2. /\ phase[e] \in Holding => phase'[e] \in Holding
        /\ phase'[e] \in Offering => phase'[e] = phase[e]
    BY <1>1 DEF Holding, Offering
  <2>. QED BY <2>1, <2>2, ServicesStay DEF LifecycleInv
<1>10. EntriesInv'
  BY <1>3, <1>5, <1>6, <1>7, <1>8, StillKeeps DEF LifecycleInv, EntriesInv
<1>. QED BY <1>2, <1>9, <1>10 DEF LifecycleInv

LEMMA EntitySubscribesKeeps ==
    ASSUME LifecycleInv, NEW e \in Entries, EntitySubscribes(e)
    PROVE  LifecycleInv'
<1>1. /\ phase[e] = "forwarding" /\ listening'[e] = listening[e] \cup {gen[e]}
      /\ phase'[e] = phase[e] /\ gen'[e] = gen[e] /\ data'[e] = data[e]
      /\ going'[e] = going[e] /\ live'[e] = live[e] /\ open'[e] = open[e]
      /\ cycle'[e] = cycle[e] /\ issue'[e] = issue[e] /\ unloaded'[e] = unloaded[e]
      /\ UNCHANGED streaks
  BY DEF EntitySubscribes, LifecycleInv, LifecycleTypeOK, entryVars, remains
<1>2. LifecycleTypeOK'
  <2>1. listening' \in [Entries -> SUBSET Gens]
    BY DEF EntitySubscribes, LifecycleInv, LifecycleTypeOK, EntriesInv, Keeps, Active
  <2>. QED BY <2>1
              DEF EntitySubscribes, LifecycleInv, LifecycleTypeOK, entryVars, remains
<1>3. \A o \in Entries \ {e} : Still(o)
  BY DEF Still, EntitySubscribes, entryVars, remains
<1>4. LifecycleTypeOK /\ Keeps(e) /\ Grows(e) /\ Tails(e) /\ Traces(e)
  BY DEF LifecycleInv, EntriesInv
<1>5. Keeps(e)'
  BY <1>1, <1>4 DEF Keeps, Holding
<1>6. Grows(e)'
  BY <1>1, <1>4 DEF Grows
<1>7. Tails(e)'
  BY <1>1, <1>4 DEF Tails
<1>8. Traces(e)'
  BY <1>1, <1>4 DEF Traces
<1>9. ServicesInv'
  <2>1. UNCHANGED services /\ \A o \in Entries \ {e} : phase'[o] = phase[o]
    BY DEF EntitySubscribes, entryVars, remains
  <2>2. /\ phase[e] \in Holding => phase'[e] \in Holding
        /\ phase'[e] \in Offering => phase'[e] = phase[e]
    BY <1>1
  <2>. QED BY <2>1, <2>2, ServicesStay DEF LifecycleInv
<1>10. EntriesInv'
  BY <1>3, <1>5, <1>6, <1>7, <1>8, StillKeeps DEF LifecycleInv, EntriesInv
<1>. QED BY <1>2, <1>9, <1>10 DEF LifecycleInv

LEMMA TickKeeps ==
    ASSUME LifecycleInv,
           NEW e \in Entries, NEW g \in Gens, CycleStarts(e, g)
    PROVE  LifecycleInv'
<1>1. /\ g \in listening[e] /\ cycle'[e] = [cycle[e] EXCEPT ![g] = "fetching"]
      /\ phase'[e] = phase[e] /\ gen'[e] = gen[e] /\ data'[e] = data[e]
      /\ going'[e] = going[e] /\ live'[e] = live[e] /\ listening'[e] = listening[e]
      /\ open'[e] = open[e] /\ issue'[e] = issue[e] /\ unloaded'[e] = unloaded[e]
      /\ UNCHANGED streaks
  BY DEF CycleStarts, LifecycleInv, LifecycleTypeOK, entryVars, remains
<1>2. LifecycleTypeOK'
  <2>. QED BY DEF CycleStarts, LifecycleInv, LifecycleTypeOK, entryVars, remains
<1>3. \A o \in Entries \ {e} : Still(o)
  BY DEF Still, CycleStarts, entryVars, remains
<1>4. LifecycleTypeOK /\ Keeps(e) /\ Grows(e) /\ Tails(e) /\ Traces(e)
  BY DEF LifecycleInv, EntriesInv
<1>5. Keeps(e)'
  BY <1>1, <1>4 DEF Keeps
<1>6. Grows(e)'
  BY <1>1, <1>4 DEF Grows
<1>7. Tails(e)'
  BY <1>1, <1>4 DEF Keeps, Grows, Tails, Leaving, Active, Holding
<1>8. Traces(e)'
  BY <1>1, <1>4 DEF Traces
<1>9. ServicesInv'
  <2>1. UNCHANGED services /\ \A o \in Entries \ {e} : phase'[o] = phase[o]
    BY DEF CycleStarts, entryVars, remains
  <2>2. /\ phase[e] \in Holding => phase'[e] \in Holding
        /\ phase'[e] \in Offering => phase'[e] = phase[e]
    BY <1>1
  <2>. QED BY <2>1, <2>2, ServicesStay DEF LifecycleInv
<1>10. EntriesInv'
  BY <1>3, <1>5, <1>6, <1>7, <1>8, StillKeeps DEF LifecycleInv, EntriesInv
<1>. QED BY <1>2, <1>9, <1>10 DEF LifecycleInv

LEMMA LooseLandsKeeps ==
    ASSUME LifecycleInv,
           NEW e \in Entries, NEW g \in Gens, LooseLands(e, g)
    PROVE  LifecycleInv'
<1>1. /\ <<e, g>> \in loose
      /\ phase'[e] = phase[e] /\ gen'[e] = gen[e] /\ data'[e] = data[e]
      /\ going'[e] = going[e] /\ live'[e] = live[e] /\ listening'[e] = listening[e]
      /\ open'[e] = open[e] /\ cycle'[e] = cycle[e] /\ issue'[e] = issue[e]
      /\ unloaded'[e] = unloaded[e]
      /\ UNCHANGED streaks
  BY DEF LooseLands, entryVars
<1>2. LifecycleTypeOK'
  <2>1. store' \in [Entries -> 0..MaxGen]
    BY DEF LooseLands, LifecycleInv, LifecycleTypeOK, Gens
  <2>. QED BY <2>1 DEF LooseLands, LifecycleInv, LifecycleTypeOK, entryVars
<1>3. \A o \in Entries \ {e} : Still(o)
  BY DEF Still, LooseLands, entryVars
<1>4. LifecycleTypeOK /\ Keeps(e) /\ Grows(e) /\ Tails(e) /\ Traces(e)
  BY DEF LifecycleInv, EntriesInv
<1>5. Keeps(e)'
  BY <1>1, <1>4 DEF Keeps
<1>6. Grows(e)'
  BY <1>1, <1>4 DEF Grows
<1>7. Tails(e)'
  BY <1>1, <1>4 DEF Tails
<1>8. Traces(e)'
  BY <1>1, <1>4 DEF Traces
<1>9. ServicesInv'
  <2>1. UNCHANGED services /\ \A o \in Entries \ {e} : phase'[o] = phase[o]
    BY DEF LooseLands, entryVars
  <2>2. /\ phase[e] \in Holding => phase'[e] \in Holding
        /\ phase'[e] \in Offering => phase'[e] = phase[e]
    BY <1>1
  <2>. QED BY <2>1, <2>2, ServicesStay DEF LifecycleInv
<1>10. EntriesInv'
  BY <1>3, <1>5, <1>6, <1>7, <1>8, StillKeeps DEF LifecycleInv, EntriesInv
<1>. QED BY <1>2, <1>9, <1>10 DEF LifecycleInv

LEMMA IdUnreadableKeeps ==
    ASSUME LifecycleInv, NEW e \in Entries, IdUnreadable(e)
    PROVE  LifecycleInv'
<1>1. /\ phase[e] = "loading" /\ phase'[e] = "retry"
      /\ gen'[e] = gen[e] /\ data'[e] = data[e] /\ going'[e] = going[e]
      /\ live'[e] = live[e] /\ listening'[e] = listening[e] /\ open'[e] = open[e]
      /\ cycle'[e] = cycle[e] /\ issue'[e] = issue[e] /\ unloaded'[e] = unloaded[e]
      /\ UNCHANGED streaks
  BY DEF IdUnreadable, LifecycleInv, LifecycleTypeOK, remains
<1>2. LifecycleTypeOK'
  <2>1. phase' \in [Entries -> SettingUp \cup Gone \cup Broken \cup
             {"loaded", "leaving", "unloading", "closing", "returned", "restoring",
              "stuck", "deleting"}]
    BY DEF IdUnreadable, LifecycleInv, LifecycleTypeOK, Gone
  <2>. QED BY <2>1 DEF IdUnreadable, LifecycleInv, LifecycleTypeOK, remains
<1>3. \A o \in Entries \ {e} : Still(o)
  BY DEF Still, IdUnreadable, remains
<1>4. LifecycleTypeOK /\ Keeps(e) /\ Grows(e) /\ Tails(e) /\ Traces(e)
  BY DEF LifecycleInv, EntriesInv
<1>5. Keeps(e)'
  BY <1>1, <1>4 DEF Keeps, Offering, Refreshing, Leaving, Active, Holding
<1>6. Grows(e)'
  BY <1>1, <1>4 DEF Grows, Offering, Refreshing, Leaving, Active
<1>7. Tails(e)'
  BY <1>1, <1>4 DEF Tails, Offering, Refreshing, Writing
<1>8. Traces(e)'
  BY <1>1, <1>4 DEF Traces
<1>9. ServicesInv'
  <2>1. UNCHANGED services /\ \A o \in Entries \ {e} : phase'[o] = phase[o]
    BY DEF IdUnreadable, remains
  <2>2. /\ phase[e] \in Holding => phase'[e] \in Holding
        /\ phase'[e] \in Offering => phase'[e] = phase[e]
    BY <1>1 DEF Holding, Offering
  <2>. QED BY <2>1, <2>2, ServicesStay DEF LifecycleInv
<1>10. EntriesInv'
  BY <1>3, <1>5, <1>6, <1>7, <1>8, StillKeeps DEF LifecycleInv, EntriesInv
<1>. QED BY <1>2, <1>9, <1>10 DEF LifecycleInv

LEMMA NextLifecycle ==
    LifecycleInv /\ [LifecycleNext]_lifecycleVars => LifecycleInv'
<1>. SUFFICES ASSUME LifecycleInv, [LifecycleNext]_lifecycleVars
              PROVE  LifecycleInv'
  OBVIOUS
<1>1. ASSUME NEW e \in Entries, SetupStep(e) PROVE LifecycleInv'
  BY <1>1, IdUnreadableKeeps, BuildKeeps, RefreshSucceededKeeps, RefreshFailedKeeps,
     PlatformsForwardedKeeps, SetupFailsKeeps, TakeBackKeeps, TakenBackKeeps,
     ImportKeeps DEF SetupStep
<1>2. ASSUME NEW e \in Entries, UnloadStep(e) PROVE LifecycleInv'
  BY <1>2, WaitForWritesKeeps, PlatformsUnloadedKeeps, PlatformsRefuseKeeps,
     UnloadRaisesKeeps, ClosedKeeps, UnloadedKeeps, ImportKeeps DEF UnloadStep
<1>3. ASSUME NEW e \in Entries, NEW g \in Gens,
             CycleStarts(e, g) \/ FetchEnds(e, g) \/ SaveLands(e, g) \/ FetchTimesOut(e, g)
             \/ LooseLands(e, g)
      PROVE  LifecycleInv'
  BY <1>3, TickKeeps, FetchEndsKeeps, SaveLandsKeeps, TimesOutKeeps, LooseLandsKeeps
<1>4. ASSUME NEW e \in Entries,
             SetupStarts(e) \/ EntitySubscribes(e) \/ BeginUnload(e) \/ DeleteStores(e)
             \/ ForgetEntry(e)
      PROVE  LifecycleInv'
  BY <1>4, StartSetupKeeps, EntitySubscribesKeeps, BeginUnloadKeeps, DeleteStoresKeeps,
     ForgetEntryKeeps
<1>5. ASSUME UNCHANGED lifecycleVars PROVE LifecycleInv'
  <2>1. LifecycleTypeOK'
    BY <1>5 DEF lifecycleVars, entryVars, remains, LifecycleInv, LifecycleTypeOK
  <2>2. \A o \in Entries : Still(o)
    BY <1>5 DEF lifecycleVars, entryVars, remains, Still
  <2>3. EntriesInv'
    BY <2>2, StillKeeps DEF LifecycleInv, EntriesInv
  <2>4. ServicesInv'
    BY <1>5 DEF lifecycleVars, entryVars, remains, LifecycleInv, ServicesInv
  <2>. QED BY <2>1, <2>3, <2>4 DEF LifecycleInv
<1>. QED BY <1>1, <1>2, <1>3, <1>4, <1>5 DEF LifecycleNext

(* What an entry has at each stage, whatever the others and its own old    *)
(* cycles do.                                                              *)
THEOREM LifecycleInvariance == LifecycleSpec => []LifecycleInv
<1>1. LifecycleInit => LifecycleInv
  BY InitLifecycle
<1>2. LifecycleInv /\ [LifecycleNext]_lifecycleVars => LifecycleInv'
  BY NextLifecycle
<1>. QED BY <1>1, <1>2, PTL DEF LifecycleSpec

-----------------------------------------------------------------------------
(* What follows for the entries *)

LEMMA LoadedEntriesServe == LifecycleInv => LoadedServes
<1>. SUFFICES ASSUME LifecycleInv, NEW e \in Entries, phase[e] \in {"loaded", "stuck"}
              PROVE  /\ Serving(e) /\ data[e] = gen[e]
                     /\ gen[e] \in listening[e] /\ gen[e] \in open[e]
                     /\ "holiday" \in services
                     /\ WantsExpert(e) => "expert" \in services
  BY DEF LoadedServes
<1>1. phase[e] \in Offering /\ phase[e] \in Active \ {"returned"} /\ Keeps(e) /\ Grows(e)
  BY DEF LifecycleInv, EntriesInv, Offering, Active
<1>2. data[e] = gen[e] /\ ~going[e] /\ gen[e] \in listening[e] /\ gen[e] \in open[e]
  BY <1>1 DEF Keeps
<1>3. gen[e] # 0
  BY <1>1 DEF Grows, LifecycleInv, LifecycleTypeOK
<1>4. "holiday" \in services /\ (WantsExpert(e) => "expert" \in services)
  BY <1>1 DEF LifecycleInv, ServicesInv
<1>. QED BY <1>2, <1>3, <1>4 DEF Serving

(* An entry that is loaded - or has refused its unload - serves completely,*)
(* one that is gone has left nothing behind, and a service is there as     *)
(* long as somebody answers it.  An entry removed after its unload failed  *)
(* is neither (async_remove_entry).                                        *)
THEOREM EntriesServe == LifecycleSpec => []EntriesServeOrAreGone
<1>1. LifecycleInv => GoneLeavesNothing
  BY DEF LifecycleInv, EntriesInv, Keeps, GoneLeavesNothing, Gone, Offering,
         Leaving, Refreshing, Active, Holding
<1>2. LifecycleInv => ServicesAreServed
  <2>1. Holding \cap Gone = {}
    BY DEF Holding, Gone, Offering
  <2>. QED BY <2>1 DEF LifecycleInv, ServicesInv, ServicesAreServed
<1>3. LifecycleInv => EntriesServeOrAreGone
  BY <1>1, <1>2, LoadedEntriesServe DEF LifecycleInv, EntriesServeOrAreGone
<1>. QED BY <1>3, LifecycleInvariance, PTL

(* A generation that was unloaded raises nothing and counts for nothing    *)
(* any more.                                                               *)
THEOREM OldTailsAreHarmless == LifecycleSpec => []OldTailsChangeNothing
<1>1. LifecycleInv => OldTailsChangeNothing
  BY DEF LifecycleInv, EntriesInv, Traces, Alone, OldTailsChangeNothing
<1>. QED BY <1>1, LifecycleInvariance, PTL

LEMMA WritesAreTheNewest ==
    ASSUME LifecycleInv, [LifecycleNext]_lifecycleVars,
           NEW e \in Entries, store'[e] \notin {0, store[e]}
    PROVE  \/ /\ store'[e] = gen[e]
              /\ phase[e] \notin {"unloading", "closing", "returned", "out", "failed",
                                  "deleting", "removed"}
              /\ phase[e] \in Broken => ~going[e]
           \/ <<e, store'[e]>> \in loose
<1>1. ASSUME NEW o \in Entries, NEW g \in Gens, SaveLands(o, g)
      PROVE  store'[e] = gen[e] /\ phase[e] \in Writing /\ (phase[e] \in Broken => ~going[e])
  BY <1>1 DEF SaveLands, LifecycleInv, EntriesInv, Tails
<1>2. ASSUME NEW o \in Entries, NEW g \in Gens, LooseLands(o, g)
      PROVE  <<e, store'[e]>> \in loose
  BY <1>2 DEF LooseLands
<1>3. ASSUME NEW o \in Entries, DeleteStores(o) PROVE FALSE
  BY <1>3 DEF DeleteStores
<1>4. \/ \E o \in Entries, g \in Gens : SaveLands(o, g) \/ LooseLands(o, g)
      \/ \E o \in Entries : DeleteStores(o)
      \/ UNCHANGED store
  BY DEF LifecycleNext, SetupStep, UnloadStep, SetupStarts, IdUnreadable, Build,
         RefreshSucceeded, RefreshFailed, PlatformsForwarded, SetupFails,
         TakeBack, TakenBack, ImportDone, EntitySubscribes, CycleStarts, FetchEnds,
         FetchTimesOut, BeginUnload, WaitForWrites, PlatformsUnloaded,
         PlatformsRefuse, UnloadRaises, Closed, Unloaded, ForgetEntry, lifecycleVars, remains
<1>5. Writing \cap {"unloading", "closing", "returned", "out", "failed", "deleting", "removed"}
         = {}
  BY DEF Writing, Refreshing, Offering
<1>. QED BY <1>1, <1>2, <1>3, <1>4, <1>5

LEMMA StreaksEndByTheirOwn ==
    ASSUME LifecycleInv, [LifecycleNext]_lifecycleVars,
           NEW a \in Accounts, streaks[a] # {}, streaks'[a] = {}
    PROVE  \/ \E e \in Entries, g \in Gens : Account[e] = a /\ cycle[e][g] # cycle'[e][g]
           \/ \E e \in Entries :
                 {o \in Entries : Account[o] = a /\ Configured(o)} = {e}
<1>1. ASSUME NEW e \in Entries, NEW g \in Gens, FetchEnds(e, g) \/ FetchTimesOut(e, g)
      PROVE  Account[e] = a /\ cycle[e][g] # cycle'[e][g]
  <2>1. /\ cycle[e][g] # "none" /\ cycle'[e][g] # cycle[e][g]
    BY <1>1 DEF FetchEnds, FetchTimesOut, LifecycleInv, LifecycleTypeOK
  <2>2. \A b \in Accounts \ {Account[e]} : streaks'[b] = streaks[b]
    BY <1>1 DEF FetchEnds, FetchTimesOut, Counted, LifecycleInv, LifecycleTypeOK
  <2>. QED BY <2>1, <2>2
<1>2. ASSUME NEW e \in Entries, PlatformsUnloaded(e) \/ ForgetEntry(e)
      PROVE  {o \in Entries : Account[o] = a /\ Configured(o)} = {e}
  <2>1. ~Shares(e) /\ Account[e] = a /\ Configured(e)
    BY <1>2 DEF PlatformsUnloaded, ForgetEntry, Configured, LifecycleInv, LifecycleTypeOK
  <2>. QED BY <2>1 DEF Shares
<1>3. \/ \E e \in Entries, g \in Gens : FetchEnds(e, g) \/ FetchTimesOut(e, g)
      \/ \E e \in Entries : PlatformsUnloaded(e) \/ ForgetEntry(e)
      \/ UNCHANGED streaks
  BY ZenonT(60) DEF LifecycleNext, SetupStep, UnloadStep, SetupStarts, IdUnreadable, Build,
         RefreshSucceeded, RefreshFailed, PlatformsForwarded, SetupFails,
         TakeBack, TakenBack, ImportDone, EntitySubscribes, CycleStarts, SaveLands,
         LooseLands, BeginUnload, WaitForWrites, PlatformsRefuse, UnloadRaises, Closed,
         Unloaded, DeleteStores, lifecycleVars, entryVars, remains
<1>. QED BY <1>1, <1>2, <1>3

(* A write to the store that the reload reads is the newest generation's,  *)
(* or one its own timeout has let go; so is a write after a removal, but   *)
(* for an entry that was removed although it refused its unload.  And an   *)
(* entry that goes leaves the auth streak to those who share its account.  *)
THEOREM GoingIsOrderly == LifecycleSpec => GoesInOrder
<1>1. LifecycleInv /\ [LifecycleNext]_lifecycleVars => WriteIsNew
  BY WritesAreTheNewest DEF WriteIsNew
<1>2. LifecycleInv /\ [LifecycleNext]_lifecycleVars => StreakEndsByItsOwn
  BY StreaksEndByTheirOwn DEF StreakEndsByItsOwn
<1>. QED
  BY <1>1, <1>2, LifecycleInvariance, PTL
  DEF LifecycleSpec, GoesInOrder, OldWritesAreWaitedFor, StreakIsNotTaken

(* While an entry leaves, none of its cycles begins to save: the unload    *)
(* waits for the write that it met and for no other, however often the     *)
(* timer that still runs polls (async_wait_for_store_writes).              *)
NoFurtherWrite ==
    \A e \in Entries : phase[e] = "leaving" =>
        \A g \in Gens : cycle'[e][g] = "saving" => cycle[e][g] = "saving"

LEMMA LeavingSavesNothing ==
    LifecycleInv /\ [LifecycleNext]_lifecycleVars => NoFurtherWrite
<1>. SUFFICES ASSUME LifecycleInv, [LifecycleNext]_lifecycleVars,
                     NEW e \in Entries, phase[e] = "leaving",
                     NEW g \in Gens, cycle[e][g] # "saving"
              PROVE  cycle'[e][g] # "saving"
  BY DEF NoFurtherWrite
<1>. USE DEF LifecycleInv, LifecycleTypeOK
<1>1. ~Owns(e, g)
  BY DEF EntriesInv, Keeps, Leaving, Owns, SettingUp
<1>2. ASSUME NEW o \in Entries, NEW h \in Gens, FetchEnds(o, h)
      PROVE  cycle'[e][g] # "saving"
  <2>1. CASE o = e /\ h = g
    BY <1>1, <1>2, <2>1 DEF FetchEnds
  <2>2. CASE ~(o = e /\ h = g)
    BY <1>2, <2>2 DEF FetchEnds
  <2>. QED BY <2>1, <2>2
<1>3. ASSUME NEW o \in Entries, NEW h \in Gens,
             CycleStarts(o, h) \/ SaveLands(o, h) \/ FetchTimesOut(o, h)
      PROVE  cycle'[e][g] # "saving"
  <2>1. PICK v \in {"none", "fetching"} : cycle' = [cycle EXCEPT ![o][h] = v]
    BY <1>3 DEF CycleStarts, SaveLands, FetchTimesOut
  <2>2. cycle'[e][g] \in {cycle[e][g], v}
    BY <2>1
  <2>. QED BY <2>2
<1>4. ASSUME NEW o \in Entries, Build(o) \/ TakenBack(o) PROVE cycle'[e][g] # "saving"
  <2>1. o # e
    BY <1>4 DEF Build, TakenBack
  <2>2. cycle'[e] = cycle[e]
    BY <1>4, <2>1 DEF Build, TakenBack
  <2>. QED BY <2>2
<1>5. \/ \E o \in Entries, h \in Gens : \/ FetchEnds(o, h) \/ CycleStarts(o, h)
                                        \/ SaveLands(o, h) \/ FetchTimesOut(o, h)
      \/ \E o \in Entries : Build(o) \/ TakenBack(o)
      \/ UNCHANGED cycle
  BY ZenonT(60) DEF LifecycleNext, SetupStep, UnloadStep, SetupStarts, IdUnreadable,
         RefreshSucceeded, RefreshFailed, PlatformsForwarded, SetupFails, TakeBack,
         ImportDone, EntitySubscribes, LooseLands, BeginUnload, WaitForWrites,
         PlatformsUnloaded, PlatformsRefuse, UnloadRaises, Closed, Unloaded, DeleteStores,
         ForgetEntry,
         lifecycleVars, entryVars
<1>. QED BY <1>2, <1>3, <1>4, <1>5

(* An unload is not kept waiting by a poll that goes on beside it: what is *)
(* left of TransitionsEnd there is that the one write lands or times out.  *)
THEOREM OneWriteIsWaitedFor == LifecycleSpec => [][NoFurtherWrite]_lifecycleVars
BY LeavingSavesNothing, LifecycleInvariance, PTL DEF LifecycleSpec
=============================================================================
