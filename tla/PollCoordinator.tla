--------------------------- MODULE PollCoordinator ---------------------------
(***************************************************************************)
(* One config entry's poll cycles, as its coordinator lives through them:  *)
(* what each ending of fetch_data does to the failure count, the auth      *)
(* streak and what the entities show, under the one 360 s timeout that can *)
(* fire at any await - the fetch, the recovery, the store writes.          *)
(*                                                                         *)
(* A coordinator dies with a failed setup or a reload; the account's streak*)
(* of auth failures is what survives it.  The worker thread is abstracted  *)
(* to how its call ends; ApiSession is what happens inside.  An entry is   *)
(* not unloaded in the middle of a cycle here.                             *)
(*                                                                         *)
(* Home Assistant's part is external: the first refresh of a setup and its *)
(* retries, the interval timer, who is told of a refresh, and the reauth   *)
(* that ends the timer.                                                    *)
(***************************************************************************)
EXTENDS Naturals

CONSTANTS
    Timeout,      \* DEFAULT_TIMEOUT: ticks a cycle may take
    LockWait,     \* API_LOCK_TIMEOUT_SECONDS: ticks a worker waits for the lock
    Threshold,    \* AUTH_ERROR_ESCALATION_THRESHOLD
    Tolerated,    \* API_FAILURES_TOLERATED
    WaitPerFailure, \* the back-off's step, in update intervals
    MaxWait,      \* MAX_BACKOFF_SECONDS, in update intervals
    MaxFailed     \* bound: failures beyond it change nothing any more

ASSUME CoordinatorAssumption ==
    /\ Timeout \in Nat /\ LockWait \in Nat /\ LockWait < Timeout
    /\ Threshold \in Nat \ {0}
    /\ Tolerated \in Nat
    /\ WaitPerFailure \in Nat /\ MaxWait \in Nat
    /\ MaxFailed \in Nat /\ MaxFailed > 2 /\ MaxFailed > Tolerated + 1

(* The back-off has reached its cap by the time the count reaches its own. *)
ASSUME BoundAssumption == WaitPerFailure * (MaxFailed - 2) >= MaxWait

VARIABLES
    entry,        \* "setup", "live", "down" (to be set up), "reauth"
    pc,           \* the await the cycle is in, or "idle"
    clock,        \* ticks since this cycle's timeout was armed
    resetWait,    \* ticks the recovery's worker has waited for the api lock
    verdict,      \* how the current cycle, or the last one, came out
    numFailed,    \* num_failed
    numAuth,      \* num_auth_failed
    accountAuth,  \* AccountState.auth_failures
    proof,        \* api.login_went_through
    lastOk,       \* last_update_success
    shown,        \* available, as the entities were last told to read it
    since,        \* update intervals since last_try, capped at MaxWait
    parked,       \* history: a recovery worker waits that nobody awaits
    streak,       \* history: AuthErrors in a row, capped at Threshold
    loggedIn,     \* history: a login went through since the cycle began
    cycles        \* history: cycles since the last good one, capped at 2

counters == <<numFailed, numAuth, accountAuth, proof>>
view == <<lastOk, shown>>
ghosts == <<streak, loggedIn, cycles>>
vars == <<entry, pc, clock, resetWait, verdict, counters, view, since, parked, ghosts>>

Least(a, b) == IF a < b THEN a ELSE b

(* Endings Home Assistant is told of as a failed update, besides "reauth". *)
Failed == {"auth", "refused", "busy", "nothing", "fault"}

Init ==
    /\ entry = "down" /\ pc = "idle" /\ clock = 0 /\ resetWait = 0
    /\ verdict = "none"
    /\ numFailed = 0 /\ numAuth = 0 /\ accountAuth = 0 /\ proof = FALSE
    /\ lastOk = TRUE /\ shown = TRUE
    /\ since = 0 /\ parked = FALSE
    /\ streak = 0 /\ loggedIn = FALSE /\ cycles = 0

-----------------------------------------------------------------------------
(* Setup and the interval *)

(* Mutant: the new coordinator starts its own count of AuthErrors. *)
StartSetupAfresh ==
    /\ entry = "down"
    /\ entry' = "setup" /\ pc' = "fetch" /\ clock' = 0 /\ verdict' = "none"
    /\ numFailed' = 0 /\ numAuth' = 0 /\ proof' = FALSE
    /\ lastOk' = TRUE /\ shown' = TRUE
    /\ since' = 0 /\ parked' = FALSE
    /\ loggedIn' = FALSE /\ cycles' = 1
    /\ UNCHANGED <<resetWait, accountAuth, streak>>

(* A fresh api and a fresh coordinator, seeded from the account; its first *)
(* refresh is part of the setup.                                           *)
StartSetup ==
    /\ entry = "down"
    /\ entry' = "setup" /\ pc' = "fetch" /\ clock' = 0 /\ verdict' = "none"
    /\ numFailed' = 0 /\ numAuth' = accountAuth /\ proof' = FALSE
    /\ lastOk' = TRUE /\ shown' = TRUE
    /\ since' = 0 /\ parked' = FALSE
    /\ loggedIn' = FALSE /\ cycles' = 1
    /\ UNCHANGED <<resetWait, accountAuth, streak>>

(* last_try is monotonic; `since` is the whole intervals that have passed. *)
Later == Least(since + 1, MaxWait)

RequiredWait == Least(WaitPerFailure * (numFailed - 2), MaxWait)

BacksOff == numFailed > 2 /\ Later < RequiredWait

(* Mutant: a tick that is backed off counts as a try. *)
SkipTickAsATry ==
    /\ entry = "live" /\ pc = "idle" /\ BacksOff
    /\ since' = 0 /\ lastOk' = FALSE
    /\ shown' = IF lastOk THEN numFailed <= Tolerated ELSE shown
    /\ UNCHANGED <<entry, pc, clock, resetWait, verdict, counters, parked, ghosts>>

(* "Waiting for more time to pass": the tick ends before it tried anything,*)
(* and last_try stays.                                                     *)
SkipTick ==
    /\ entry = "live" /\ pc = "idle"
    /\ BacksOff
    /\ since' = Later
    /\ lastOk' = FALSE
    /\ shown' = IF lastOk THEN numFailed <= Tolerated ELSE shown
    /\ UNCHANGED <<entry, pc, clock, resetWait, verdict, counters, parked, ghosts>>

BeginCycle ==
    /\ entry = "live" /\ pc = "idle"
    /\ ~BacksOff
    /\ since' = Later
    /\ pc' = "fetch" /\ clock' = 0 /\ verdict' = "none"
    /\ loggedIn' = FALSE /\ cycles' = Least(cycles + 1, 2)
    /\ UNCHANGED <<entry, resetWait, counters, view, parked, streak>>

-----------------------------------------------------------------------------
(* The endings of fetch_data.  Each settles the login proof first.  The    *)
(* parameter says whether a login went through in this fetch.              *)

(* Mutant: the entities are left to hear of it from Home Assistant. *)
NoteFailedCycleSilently ==
    /\ numFailed' = Least(numFailed + 1, MaxFailed)
    /\ UNCHANGED shown

(* num_failed goes up, and the moment it leaves the tolerance behind is    *)
(* published to the entities.                                              *)
NoteFailedCycle ==
    /\ numFailed' = Least(numFailed + 1, MaxFailed)
    /\ shown' = IF numFailed + 1 = Tolerated + 1 THEN FALSE ELSE shown

(* Mutant: only a good cycle ends the streak. *)
NeverSettled(login, count) == count

(* _end_the_auth_streak_after_a_login, in the `finally` of _fetch. *)
Settled(login, count) == IF proof \/ login THEN 0 ELSE count

SettleOnly(login) ==
    /\ proof' = FALSE
    /\ numAuth' = Settled(login, numAuth)
    /\ accountAuth' = Settled(login, accountAuth)
    /\ loggedIn' = (loggedIn \/ login)
    /\ streak' = IF login THEN 0 ELSE streak

ClearStreak(login) ==
    /\ proof' = FALSE
    /\ numAuth' = 0 /\ accountAuth' = 0
    /\ loggedIn' = (loggedIn \/ login)
    /\ streak' = 0

Ends(how) ==
    /\ pc' = "saves"
    /\ verdict' = how
    /\ UNCHANGED <<entry, clock, resetWait, since, parked>>

FetchSucceeds(login) ==
    /\ pc = "fetch"
    /\ numFailed' = 0
    /\ ClearStreak(login)
    /\ cycles' = 1
    /\ Ends("ok")
    /\ UNCHANGED view

(* `both` mode with nothing due, or only a failed scrape.  While Home      *)
(* Assistant holds the last update for failed, so it stays.                *)
FetchReadsNothing(login) ==
    /\ pc = "fetch" /\ entry = "live"
    /\ SettleOnly(login)
    /\ \/ lastOk /\ Ends("ok") /\ UNCHANGED shown
       \/ ~lastOk /\ Ends("nothing") /\ shown' = (numFailed <= Tolerated)
    /\ UNCHANGED <<numFailed, lastOk, cycles>>

(* Maintenance, the poll's own deadline, a bug, any other WemPortalError:  *)
(* a failed cycle that says nothing about the credentials.  The last of    *)
(* them brings the recovery once it is the second in a row.                *)
FetchFails(login) ==
    /\ pc = "fetch"
    /\ NoteFailedCycle
    /\ ClearStreak(login)
    /\ \/ Ends("fault")
       \/ /\ numFailed' >= 2
          /\ pc' = "reset" /\ resetWait' = 0 /\ verdict' = "fault"
          /\ UNCHANGED <<entry, clock, since, parked>>
    /\ UNCHANGED <<lastOk, cycles>>

FetchLoginRefused(login) ==
    /\ pc = "fetch"
    /\ NoteFailedCycle
    /\ SettleOnly(login)
    /\ Ends("refused")
    /\ UNCHANGED <<lastOk, cycles>>

FetchAuthError(login) ==
    /\ pc = "fetch"
    /\ NoteFailedCycle
    /\ proof' = FALSE
    /\ numAuth' = Settled(login, numAuth) + 1
    /\ accountAuth' = numAuth'
    /\ loggedIn' = (loggedIn \/ login)
    /\ streak' = IF login THEN 1 ELSE Least(streak + 1, Threshold)
    /\ Ends(IF numAuth' >= Threshold THEN "reauth" ELSE "auth")
    /\ UNCHANGED <<lastOk, cycles>>

(* The lock was not to be had, or `web` mode still waits after a refused   *)
(* web login - the account's wait, so a first refresh meets it as well: no *)
(* request, no verdict, no counter.                                        *)
FetchBusy ==
    /\ pc = "fetch"
    /\ SettleOnly(FALSE)
    /\ Ends("busy")
    /\ UNCHANGED <<numFailed, view, cycles>>

-----------------------------------------------------------------------------
(* The rest of a cycle *)

(* reset_transport came back from its worker, with the lock or without. *)
ResetReturns ==
    /\ pc = "reset"
    /\ pc' = "saves"
    /\ UNCHANGED <<entry, clock, resetWait, verdict, counters, view, since, parked, ghosts>>

(* The stores are written and the refresh is over: what Home Assistant     *)
(* makes of it.  Listeners hear of every success, and of a failure that    *)
(* follows a success.                                                      *)
EndCycle ==
    /\ pc = "saves"
    /\ pc' = "idle"
    /\ since' = 0
    /\ lastOk' = (verdict = "ok")
    /\ shown' = IF lastOk' \/ lastOk THEN numFailed <= Tolerated ELSE shown
    /\ \/ verdict = "ok" /\ entry' = "live" /\ cycles' = 0
       \/ verdict = "reauth" /\ entry' = "reauth" /\ UNCHANGED cycles
       \/ /\ verdict \notin {"ok", "reauth"}
          /\ entry' = IF entry = "setup" THEN "down" ELSE entry
          /\ UNCHANGED cycles
    /\ UNCHANGED <<clock, resetWait, verdict, counters, parked, streak, loggedIn>>

(* asyncio.timeout cancels whichever await the cycle is in.  A worker is   *)
(* not cancelled with it.  The handler counts the cycle as a failed one.   *)
TimesOut ==
    /\ pc # "idle" /\ clock = Timeout
    /\ numFailed' = Least(numFailed + 1, MaxFailed)
    /\ shown' = IF lastOk \/ numFailed + 1 = Tolerated + 1
                THEN numFailed' <= Tolerated ELSE shown
    /\ numAuth' = 0 /\ accountAuth' = 0 /\ streak' = 0
    /\ proof' = (proof /\ pc # "fetch")
    /\ pc' = "idle" /\ since' = 0 /\ lastOk' = FALSE /\ verdict' = "fault"
    /\ entry' = IF entry = "setup" THEN "down" ELSE entry
    /\ parked' = (parked \/ pc = "reset")
    /\ UNCHANGED <<clock, resetWait, loggedIn, cycles>>

(* Time passes inside a cycle.  A worker waits LockWait and not longer.    *)
Tick ==
    /\ pc # "idle" /\ clock < Timeout
    /\ pc = "reset" => resetWait < LockWait
    /\ clock' = clock + 1
    /\ resetWait' = IF pc = "reset" THEN resetWait + 1 ELSE resetWait
    /\ UNCHANGED <<entry, pc, verdict, counters, view, since, parked, ghosts>>

ParkedWorkerEnds ==
    /\ parked
    /\ parked' = FALSE
    /\ UNCHANGED <<entry, pc, clock, resetWait, verdict, counters, view, since, ghosts>>

-----------------------------------------------------------------------------
(* Around the cycles *)

(* A write logs in, or the worker of an abandoned cycle does. *)
LoginElsewhere ==
    /\ entry = "live"
    /\ proof' = TRUE /\ loggedIn' = TRUE /\ streak' = 0
    /\ UNCHANGED <<entry, pc, clock, resetWait, verdict, numFailed, numAuth,
                   accountAuth, view, since, parked, cycles>>

(* The user reloads a loaded entry, or answers the reauth: either way the  *)
(* account's streak is forgotten and the entry is set up anew.             *)
Reload ==
    /\ entry = "live" /\ pc = "idle"
    /\ entry' = "down" /\ accountAuth' = 0 /\ streak' = 0 /\ verdict' = "reload"
    /\ UNCHANGED <<pc, clock, resetWait, numFailed, numAuth, proof, view, since,
                   parked, loggedIn, cycles>>

Reauthenticate ==
    /\ entry = "reauth"
    /\ entry' = "down" /\ accountAuth' = 0 /\ streak' = 0
    /\ UNCHANGED <<pc, clock, resetWait, verdict, numFailed, numAuth, proof, view,
                   since, parked, loggedIn, cycles>>

FetchReturns ==
    \/ \E login \in BOOLEAN :
          FetchSucceeds(login) \/ FetchReadsNothing(login) \/ FetchFails(login)
             \/ FetchLoginRefused(login) \/ FetchAuthError(login)
    \/ FetchBusy

Next ==
    \/ StartSetup \/ SkipTick \/ BeginCycle
    \/ FetchReturns \/ ResetReturns \/ EndCycle \/ TimesOut \/ Tick
    \/ ParkedWorkerEnds \/ LoginElsewhere \/ Reload \/ Reauthenticate

Spec == Init /\ [][Next]_vars

(* Home Assistant retries a failed setup and keeps its interval timer; the *)
(* event loop keeps turning, so a timeout fires and a store write ends; a  *)
(* worker that waits for the lock stops waiting.  That the portal answers  *)
(* a fetch is not assumed.                                                 *)
FairSpec ==
    /\ Spec
    /\ WF_vars(StartSetup) /\ WF_vars(SkipTick) /\ WF_vars(BeginCycle)
    /\ WF_vars(ResetReturns) /\ WF_vars(EndCycle)
    /\ WF_vars(Tick) /\ WF_vars(TimesOut)

-----------------------------------------------------------------------------
TypeOK ==
    /\ entry \in {"setup", "live", "down", "reauth"}
    /\ pc \in {"idle", "fetch", "reset", "saves"}
    /\ clock \in 0..Timeout /\ resetWait \in 0..LockWait
    /\ verdict \in {"none", "ok", "reauth", "reload"} \cup Failed
    /\ numFailed \in 0..MaxFailed
    /\ numAuth \in 0..Threshold /\ accountAuth \in 0..Threshold
    /\ proof \in BOOLEAN /\ lastOk \in BOOLEAN /\ shown \in BOOLEAN
    /\ since \in 0..MaxWait /\ parked \in BOOLEAN
    /\ streak \in 0..Threshold /\ loggedIn \in BOOLEAN /\ cycles \in 0..2

(* Between two cycles no entity offers a reading the failure count has     *)
(* taken away - though Home Assistant is silent about a failure that       *)
(* follows a failure - and none is withheld once Home Assistant holds the  *)
(* entry for healthy.                                                      *)
CrossingIsPublished ==
    entry = "live" /\ pc = "idle" =>
        (shown => numFailed <= Tolerated) /\ (lastOk => shown)

(* Home Assistant only holds the entry for healthy on a cycle that read    *)
(* something: a tick with nothing due in the middle of an outage does not  *)
(* declare it over.                                                        *)
HealthyMeansRead ==
    entry = "live" /\ pc = "idle" /\ lastOk => numFailed = 0

(* The user is only asked for new credentials after a full row of          *)
(* AuthErrors with nothing between them that speaks for the old ones - no  *)
(* login that went through, a write's included, and no cycle that reached  *)
(* the portal without an AuthError - counted across failed setups; and the *)
(* AuthError that fills the row is the one that asks.                      *)
ReauthIsEarned ==
    [][/\ verdict' = "reauth" /\ verdict # "reauth" => streak' = Threshold
       /\ streak' = Threshold /\ streak # Threshold => verdict' = "reauth"]_vars

(* However long an outage lasts, the entry keeps trying - unless it waits  *)
(* for the user.                                                           *)
PollingNeverStops == []<>(pc = "fetch" \/ entry = "reauth")

(* A password that is wrong for good is escalated, in a running entry and  *)
(* in one that never gets through its setup, whatever refusals and busy    *)
(* cycles lie between the AuthErrors.                                      *)
WrongPasswordEscalates ==
    /\ []<>(verdict = "auth")
    /\ <>[](verdict \in {"none", "auth", "refused", "busy"} /\ ~loggedIn)
    => <>(entry = "reauth")

(* A worker that waits for the lock gives up before the coordinator gives  *)
(* up on it, as the wait's length is meant to ensure.                      *)
WaiterGivesUpFirst == ~parked

(* One failed cycle is not an outage: it takes a second one before the     *)
(* entities go unavailable.                                                *)
OneFailedCycleIsNoOutage ==
    entry = "live" /\ pc = "idle" /\ cycles <= Tolerated => shown
(* What Home Assistant and the entities believe between two cycles agrees  *)
(* with the failures counted, however the cycles ended.                    *)
ViewIsTrue == TypeOK /\ CrossingIsPublished /\ HealthyMeansRead
=============================================================================
