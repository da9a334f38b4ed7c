--------------------------- MODULE EntryLifecycle ---------------------------
(***************************************************************************)
(* Setting a config entry up, taking it down, reloading and removing it,   *)
(* while poll cycles that nobody can cancel end whenever they like.  Each  *)
(* setup builds a new generation of api, coordinator and runtime data      *)
(* under the same entry id; what an older generation still has in flight   *)
(* must not reach the newer one, nor the entry's remains.                  *)
(*                                                                         *)
(* Home Assistant runs one setup or unload of an entry at a time; between  *)
(* two awaits of a coroutine nothing else happens, so every action is what *)
(* the code does from one await to the next.                               *)
(***************************************************************************)
EXTENDS Naturals

CONSTANTS
    Entries,        \* config entries
    Account,        \* the portal account each of them logs in to
    ExpertOn,       \* entries with expert write access switched on
    MaxGen          \* bound: how often an entry is built

ASSUME LifecycleAssumption == ExpertOn \subseteq Entries /\ MaxGen \in Nat \ {0}

Gens == 1..MaxGen
Accounts == {Account[e] : e \in Entries}
Services == {"expert", "holiday"}

VARIABLES
    phase,      \* where an entry's setup or unload stands
    gen,        \* its newest generation
    data,       \* generation of runtime_data, 0 for none
    going,      \* runtime_data.unloading
    live,       \* generations whose coordinator was published (_published_in)
    listening,  \* generations whose refresh timer is armed
    open,       \* generations whose HTTP sessions are not closed
    cycle,      \* what a generation's poll cycle is at
    store,      \* generation that wrote the entry's store, 0 for no store
    issue,      \* generation that raised the repair issue, 0 for none
    streaks,    \* per account: who counted into the auth streak
    services,   \* domain services registered
    unloaded,   \* history: the last generation that was unloaded
    loose       \* writes on their way to the disk that nobody waits for

entryVars == <<phase, gen, data, going, live>>
remains == <<store, issue, streaks, services>>
lifecycleVars == <<entryVars, listening, open, cycle, remains, unloaded, loose>>

LifecycleInit ==
    /\ phase = [e \in Entries |-> "out"]
    /\ gen = [e \in Entries |-> 0] /\ data = [e \in Entries |-> 0]
    /\ going = [e \in Entries |-> FALSE]
    /\ live = [e \in Entries |-> {}]
    /\ listening = [e \in Entries |-> {}] /\ open = [e \in Entries |-> {}]
    /\ cycle = [e \in Entries |-> [g \in Gens |-> "none"]]
    /\ store = [e \in Entries |-> 0] /\ issue = [e \in Entries |-> 0]
    /\ streaks = [a \in Accounts |-> {}]
    /\ services = {}
    /\ unloaded = [e \in Entries |-> 0] /\ loose = {}

(* Phases in which Home Assistant has the entry in SETUP_IN_PROGRESS. *)
SettingUp == {"loading", "refreshing", "refreshed", "failing",
              "forwarding", "registering", "undoing", "undone"}
Gone == {"out", "retry", "removed"}
(* Left standing by an unload that failed: Home Assistant does not try     *)
(* again, and a removal takes such an entry as it stands.                  *)
Broken == {"failed", "dropping", "abandoned"}
Configured(e) == phase[e] \notin {"removed", "abandoned"}

(* is_still_serving *)
Serving(e) == data[e] # 0 /\ ~going[e]

(* Mutant: the entry's state answers for every coordinator. *)
OwnsByState(e, g) == phase[e] \in SettingUp \/ Serving(e)

(* _owns_its_entry *)
Owns(e, g) == IF g \in live[e] THEN data[e] = g /\ ~going[e]
                               ELSE phase[e] \in SettingUp

(* another_entry_shares_this_account *)
Shares(e) == \E o \in Entries \ {e} : Account[o] = Account[e] /\ Configured(o)

(* The account's state goes with its last entry; a coordinator that still  *)
(* holds it counts for nobody.                                             *)
Remembered(a) == \E o \in Entries : Account[o] = a /\ Configured(o)

-----------------------------------------------------------------------------
(* Services of the whole domain. *)
WantsExpert(e) == e \in ExpertOn

StillServed(e, s) ==
    \E o \in Entries \ {e} :
        Configured(o) /\ Serving(o) /\ (s = "expert" => WantsExpert(o))

(* _async_release_expert_service, async_release_holiday_service *)
Release(e) == services' = {s \in services : StillServed(e, s)}

(* async_register_holiday_service, and the expert service if it is there   *)
(* already; otherwise its module is imported first.                        *)
RegisterFrom(e, next, waiting) ==
    IF WantsExpert(e) /\ "expert" \notin services
    THEN /\ services' = services \cup {"holiday"}
         /\ phase' = [phase EXCEPT ![e] = waiting]
    ELSE /\ services' = services \cup {"holiday"}
         /\ phase' = [phase EXCEPT ![e] = next]

ImportDone(e, waiting, next) ==
    /\ phase[e] = waiting
    /\ services' = services \cup {"expert"}
    /\ phase' = [phase EXCEPT ![e] = next]
    /\ UNCHANGED <<gen, data, going, live, listening, open, cycle, store, issue,
                   streaks, unloaded, loose>>

-----------------------------------------------------------------------------
(* Setup. *)
SetupStarts(e) ==
    /\ phase[e] \in {"out", "retry"} /\ gen[e] < MaxGen
    /\ phase' = [phase EXCEPT ![e] = "loading"]
    /\ UNCHANGED <<gen, data, going, live, listening, open, cycle, remains,
                   unloaded, loose>>

(* An unreadable module cache is done without; an unreadable scraper id    *)
(* ends the setup.                                                         *)
IdUnreadable(e) ==
    /\ phase[e] = "loading"
    /\ phase' = [phase EXCEPT ![e] = "retry"]
    /\ UNCHANGED <<gen, data, going, live, listening, open, cycle, remains,
                   unloaded, loose>>

Build(e) ==
    /\ phase[e] = "loading"
    /\ phase' = [phase EXCEPT ![e] = "refreshing"]
    /\ gen' = [gen EXCEPT ![e] = @ + 1]
    /\ open' = [open EXCEPT ![e] = @ \cup {gen'[e]}]
    /\ cycle' = [cycle EXCEPT ![e][gen'[e]] = "fetching"]
    /\ UNCHANGED <<data, going, live, listening, remains, unloaded, loose>>

FirstCycle(e, g) == phase[e] = "refreshing" /\ g = gen[e]

RefreshSucceeded(e) ==
    /\ phase[e] = "refreshed" /\ cycle[e][gen[e]] = "none"
    /\ data' = [data EXCEPT ![e] = gen[e]]
    /\ going' = [going EXCEPT ![e] = FALSE]
    /\ live' = [live EXCEPT ![e] = @ \cup {gen[e]}]
    /\ phase' = [phase EXCEPT ![e] = "forwarding"]
    /\ UNCHANGED <<gen, listening, open, cycle, remains, unloaded, loose>>

RefreshFailed(e) ==
    /\ phase[e] = "failing" /\ cycle[e][gen[e]] = "none"
    /\ open' = [open EXCEPT ![e] = @ \ {gen[e]}]
    /\ phase' = [phase EXCEPT ![e] = "retry"]
    /\ UNCHANGED <<gen, data, going, live, listening, cycle, remains, unloaded, loose>>

(* Entities subscribe as their platforms come up. *)
EntitySubscribes(e) ==
    /\ phase[e] = "forwarding" /\ gen[e] \notin listening[e]
    /\ listening' = [listening EXCEPT ![e] = @ \cup {gen[e]}]
    /\ UNCHANGED <<entryVars, open, cycle, remains, unloaded, loose>>

PlatformsForwarded(e) ==
    /\ phase[e] = "forwarding"
    /\ listening' = [listening EXCEPT ![e] = @ \cup {gen[e]}]
    /\ RegisterFrom(e, "loaded", "registering")
    /\ UNCHANGED <<gen, data, going, live, open, cycle, store, issue, streaks,
                   unloaded, loose>>

(* A platform raises, or Home Assistant cancels the setup. *)
SetupFails(e) ==
    /\ phase[e] \in {"forwarding", "registering"}
    /\ phase' = [phase EXCEPT ![e] = "undoing"]
    /\ UNCHANGED <<gen, data, going, live, listening, open, cycle, remains,
                   unloaded, loose>>

(* The platforms are taken down as far as they let themselves. *)
TakeBack(e) ==
    /\ phase[e] = "undoing"
    /\ listening' \in {listening, [listening EXCEPT ![e] = @ \ {gen[e]}]}
    /\ data' = [data EXCEPT ![e] = 0]
    /\ phase' = [phase EXCEPT ![e] = "undone"]
    /\ UNCHANGED <<gen, going, live, open, cycle, remains, unloaded, loose>>

(* Mutant: the coordinator is not shut down. *)
TakenBackRunning(e) ==
    /\ phase[e] = "undone"
    /\ open' = [open EXCEPT ![e] = @ \ {gen[e]}]
    /\ Release(e)
    /\ phase' = [phase EXCEPT ![e] = "retry"]
    /\ UNCHANGED <<gen, data, going, live, listening, cycle, store, issue, streaks,
                   unloaded, loose>>

(* close_transport, async_shutdown, and the services.  A write of the      *)
(* failed generation is not waited for.                                    *)
TakenBack(e) ==
    /\ phase[e] = "undone"
    /\ open' = [open EXCEPT ![e] = @ \ {gen[e]}]
    /\ listening' = [listening EXCEPT ![e] = @ \ {gen[e]}]
    /\ Release(e)
    /\ phase' = [phase EXCEPT ![e] = "retry"]
    /\ IF cycle[e][gen[e]] = "saving"
       THEN /\ loose' = loose \cup {<<e, gen[e]>>}
            /\ cycle' = [cycle EXCEPT ![e][gen[e]] = "none"]
       ELSE UNCHANGED <<loose, cycle>>
    /\ UNCHANGED <<gen, data, going, live, store, issue, streaks, unloaded>>

-----------------------------------------------------------------------------
(* Poll cycles; their tails run on the event loop whatever became of the   *)
(* entry.                                                                  *)
CycleStarts(e, g) ==
    /\ g \in listening[e] /\ cycle[e][g] = "none"
    /\ cycle' = [cycle EXCEPT ![e][g] = "fetching"]
    /\ UNCHANGED <<entryVars, listening, open, remains, unloaded, loose>>

(* Counting the outcome, and the issue that follows the state of the api.  *)
Counted(e, g, outcome) ==
    streaks' = IF outcome # "auth" THEN [streaks EXCEPT ![Account[e]] = {}]
              ELSE IF Owns(e, g) /\ Remembered(Account[e])
                   THEN [streaks EXCEPT ![Account[e]] = @ \cup {<<e, g>>}]
                   ELSE streaks

IssuesSynced(e, g) ==
    IF Owns(e, g) THEN issue' \in {[issue EXCEPT ![e] = g], [issue EXCEPT ![e] = 0]}
                  ELSE UNCHANGED issue

SetupHears(e, g, good) ==
    phase' = IF ~FirstCycle(e, g) THEN phase
             ELSE [phase EXCEPT ![e] = IF good THEN "refreshed" ELSE "failing"]

(* A fetch has ended; a changed cache is saved by an owner only. *)
FetchEnds(e, g) ==
    /\ cycle[e][g] = "fetching"
    /\ \E outcome \in {"good", "bad", "auth"} :
          /\ Counted(e, g, outcome)
          /\ SetupHears(e, g, outcome = "good")
    /\ IssuesSynced(e, g)
    /\ \E changed \in BOOLEAN :
          cycle' = [cycle EXCEPT ![e][g] = IF changed /\ Owns(e, g) THEN "saving" ELSE "none"]
    /\ UNCHANGED <<gen, data, going, live, listening, open, store, services,
                   unloaded, loose>>

(* _save_under_store_lock lets go. *)
SaveLands(e, g) ==
    /\ cycle[e][g] = "saving"
    /\ store' = [store EXCEPT ![e] = g]
    /\ cycle' = [cycle EXCEPT ![e][g] = "none"]
    /\ UNCHANGED <<entryVars, listening, open, issue, streaks, services, unloaded, loose>>

(* The timeout cancels the await, and a cancelled setup its first refresh; *)
(* the thread that writes goes on.                                         *)
FetchTimesOut(e, g) ==
    /\ cycle[e][g] # "none"
    /\ cycle' = [cycle EXCEPT ![e][g] = "none"]
    /\ loose' = IF cycle[e][g] = "saving" THEN loose \cup {<<e, g>>} ELSE loose
    /\ Counted(e, g, "bad")
    /\ IssuesSynced(e, g)
    /\ phase' = IF phase[e] \in {"refreshing", "refreshed"} /\ g = gen[e]
                THEN [phase EXCEPT ![e] = "failing"] ELSE phase
    /\ UNCHANGED <<gen, data, going, live, listening, open, store, services, unloaded>>

LooseLands(e, g) ==
    /\ <<e, g>> \in loose
    /\ store' = [store EXCEPT ![e] = g]
    /\ loose' = loose \ {<<e, g>>}
    /\ UNCHANGED <<entryVars, listening, open, cycle, issue, streaks, services, unloaded>>

-----------------------------------------------------------------------------
(* Unload and removal. *)
BeginUnload(e) ==
    /\ phase[e] = "loaded"
    /\ going' = [going EXCEPT ![e] = TRUE]
    /\ phase' = [phase EXCEPT ![e] = "leaving"]
    /\ UNCHANGED <<gen, data, live, listening, open, cycle, remains, unloaded, loose>>

(* Mutants: the unload does not wait; it waits for the whole cycle. *)
WaitNot(e) ==
    /\ phase[e] = "leaving"
    /\ phase' = [phase EXCEPT ![e] = "unloading"]
    /\ UNCHANGED <<gen, data, going, live, listening, open, cycle, remains, unloaded, loose>>

WaitForCycle(e) ==
    /\ phase[e] = "leaving" /\ cycle[e][data[e]] = "none"
    /\ phase' = [phase EXCEPT ![e] = "unloading"]
    /\ UNCHANGED <<gen, data, going, live, listening, open, cycle, remains, unloaded, loose>>

(* async_wait_for_store_writes *)
WaitForWrites(e) ==
    /\ phase[e] = "leaving" /\ cycle[e][data[e]] # "saving"
    /\ phase' = [phase EXCEPT ![e] = "unloading"]
    /\ UNCHANGED <<gen, data, going, live, listening, open, cycle, remains, unloaded, loose>>

(* The entities are gone; one listener is the entry's own, and its timer   *)
(* stays armed until the unload has returned.                              *)
PlatformsUnloaded(e) ==
    /\ phase[e] = "unloading"
    /\ streaks' = IF Shares(e) THEN streaks ELSE [streaks EXCEPT ![Account[e]] = {}]
    /\ issue' = [issue EXCEPT ![e] = 0]
    /\ phase' = [phase EXCEPT ![e] = "closing"]
    /\ UNCHANGED <<gen, data, going, live, listening, open, cycle, store, services,
                   unloaded, loose>>

(* abort_unload: the entry stays, and polls on. *)
PlatformsRefuse(e) ==
    /\ phase[e] = "unloading"
    /\ going' = [going EXCEPT ![e] = FALSE]
    /\ RegisterFrom(e, "stuck", "restoring")
    /\ UNCHANGED <<gen, data, live, listening, open, cycle, store, issue, streaks,
                   unloaded, loose>>

(* A platform raises: the entry keeps everything, and nobody lifts the     *)
(* mark of its going.                                                      *)
UnloadRaises(e) ==
    /\ phase[e] = "unloading"
    /\ phase' = [phase EXCEPT ![e] = "failed"]
    /\ UNCHANGED <<gen, data, going, live, listening, open, cycle, remains, unloaded, loose>>

(* close_transport and the services; what was to run on an unload runs as  *)
(* it returns, and disarms the timer.                                      *)
Closed(e) ==
    /\ phase[e] = "closing"
    /\ open' = [open EXCEPT ![e] = @ \ {data[e]}]
    /\ listening' = [listening EXCEPT ![e] = @ \ {data[e]}]
    /\ Release(e)
    /\ phase' = [phase EXCEPT ![e] = "returned"]
    /\ UNCHANGED <<gen, data, going, live, cycle, store, issue, streaks, unloaded, loose>>

(* Home Assistant drops runtime_data only now. *)
Unloaded(e) ==
    /\ phase[e] = "returned"
    /\ unloaded' = [unloaded EXCEPT ![e] = data[e]]
    /\ data' = [data EXCEPT ![e] = 0]
    /\ phase' = [phase EXCEPT ![e] = "out"]
    /\ UNCHANGED <<gen, going, live, listening, open, cycle, remains, loose>>

(* async_remove_entry, from its first await to its last.  Home Assistant   *)
(* calls it whether the entry came down or would not, and takes the entry  *)
(* out of its registry afterwards.                                         *)
DeleteStores(e) ==
    /\ phase[e] \in {"out", "retry", "stuck", "failed"} /\ gen[e] > 0
    /\ store' = [store EXCEPT ![e] = 0]
    /\ phase' = [phase EXCEPT ![e] =
                    IF @ \in {"out", "retry"} THEN "deleting" ELSE "dropping"]
    /\ UNCHANGED <<gen, data, going, live, listening, open, cycle, issue, streaks,
                   services, unloaded, loose>>

ForgetEntry(e) ==
    /\ phase[e] \in {"deleting", "dropping"}
    /\ issue' = [issue EXCEPT ![e] = 0]
    /\ streaks' = IF Shares(e) THEN streaks ELSE [streaks EXCEPT ![Account[e]] = {}]
    /\ phase' = [phase EXCEPT ![e] = IF @ = "deleting" THEN "removed" ELSE "abandoned"]
    /\ UNCHANGED <<gen, data, going, live, listening, open, cycle, store, services,
                   unloaded, loose>>

SetupStep(e) ==
    \/ IdUnreadable(e) \/ Build(e) \/ RefreshSucceeded(e) \/ RefreshFailed(e)
    \/ PlatformsForwarded(e) \/ SetupFails(e) \/ TakeBack(e) \/ TakenBack(e)
    \/ ImportDone(e, "registering", "loaded")

UnloadStep(e) ==
    \/ WaitForWrites(e) \/ PlatformsUnloaded(e) \/ PlatformsRefuse(e)
    \/ UnloadRaises(e) \/ Closed(e) \/ Unloaded(e)
    \/ ImportDone(e, "restoring", "stuck")

LifecycleNext == \E e \in Entries :
    \/ SetupStarts(e) \/ SetupStep(e) \/ EntitySubscribes(e)
    \/ \E g \in Gens : CycleStarts(e, g) \/ FetchEnds(e, g) \/ SaveLands(e, g)
                       \/ FetchTimesOut(e, g) \/ LooseLands(e, g)
    \/ BeginUnload(e) \/ UnloadStep(e)
    \/ DeleteStores(e) \/ ForgetEntry(e)

LifecycleSpec == LifecycleInit /\ [][LifecycleNext]_lifecycleVars

(* A write to the disk ends, a cycle has its timeout, and Home Assistant   *)
(* finishes the setups and unloads it began.  A setup waits for the cycle  *)
(* of the newest generation, an unload for the write of the serving one.   *)
Fairness ==
    \A e \in Entries :
        /\ WF_lifecycleVars(SetupStep(e)) /\ WF_lifecycleVars(UnloadStep(e))
        /\ WF_lifecycleVars(\E g \in Gens : g = gen[e] /\ (FetchEnds(e, g) \/ SaveLands(e, g)))
        /\ WF_lifecycleVars(\E g \in Gens : g = data[e] /\ SaveLands(e, g))

LifecycleFairSpec == LifecycleSpec /\ Fairness

-----------------------------------------------------------------------------
LifecycleTypeOK ==
    /\ phase \in [Entries -> SettingUp \cup Gone \cup Broken \cup
                    {"loaded", "leaving", "unloading", "closing", "returned", "restoring",
                     "stuck", "deleting"}]
    /\ gen \in [Entries -> 0..MaxGen] /\ data \in [Entries -> 0..MaxGen]
    /\ going \in [Entries -> BOOLEAN]
    /\ live \in [Entries -> SUBSET Gens]
    /\ listening \in [Entries -> SUBSET Gens] /\ open \in [Entries -> SUBSET Gens]
    /\ cycle \in [Entries -> [Gens -> {"none", "fetching", "saving"}]]
    /\ store \in [Entries -> 0..MaxGen] /\ issue \in [Entries -> 0..MaxGen]
    /\ streaks \in [Accounts -> SUBSET (Entries \X Gens)]
    /\ services \subseteq Services
    /\ unloaded \in [Entries -> 0..MaxGen]
    /\ loose \subseteq Entries \X Gens

(* An entry at rest as loaded - an unload it refused included - polls, can *)
(* be written to, has its sessions, and the services it offers are there,  *)
(* whatever other entries came down meanwhile.                             *)
LoadedServes ==
    \A e \in Entries : phase[e] \in {"loaded", "stuck"} =>
        /\ Serving(e) /\ data[e] = gen[e]
        /\ gen[e] \in listening[e] /\ gen[e] \in open[e]
        /\ "holiday" \in services
        /\ WantsExpert(e) => "expert" \in services

(* However a setup failed, an entry that is down leaves no timer that      *)
(* polls, no open session and no runtime data behind.  An unload that      *)
(* fails leaves all of it, and a removal after it changes nothing of that: *)
(* those entries are Broken, and only a restart ends them.                 *)
GoneLeavesNothing ==
    \A e \in Entries : phase[e] \in Gone =>
        data[e] = 0 /\ listening[e] = {} /\ open[e] = {}

(* A service stays registered only while an entry is there to answer it -  *)
(* or was left standing by its unload - also when several come down        *)
(* together.                                                               *)
ServicesAreServed ==
    /\ services # {} => \E e \in Entries : phase[e] \notin Gone
    /\ "expert" \in services => \E e \in ExpertOn : phase[e] \notin Gone

(* No tail of an unloaded generation raises an issue, or counts towards a  *)
(* reauth of the entry that replaced it.                                   *)
OldTailsChangeNothing ==
    \A e \in Entries :
        /\ issue[e] # 0 => issue[e] > unloaded[e]
        /\ (\A o \in Entries \ {e} : Account[o] # Account[e]) =>
              \A g \in Gens : <<e, g>> \in streaks[Account[e]] => g > unloaded[e]

(* Nor does it write to the store the reload reads and the removal         *)
(* deletes - but for a write its own await was cancelled on.  An entry     *)
(* whose unload raised has lost the right to write for good, but one that  *)
(* was removed although it refused its unload has not: it owns itself      *)
(* still, and writes the store the removal deleted anew.                   *)
WriteIsNew ==
    \A e \in Entries : store'[e] \notin {0, store[e]} =>
        \/ /\ store'[e] = gen[e]
           /\ phase[e] \notin {"unloading", "closing", "returned", "out", "failed",
                               "deleting", "removed"}
           /\ phase[e] \in Broken => ~going[e]
        \/ <<e, store'[e]>> \in loose

OldWritesAreWaitedFor == [][WriteIsNew]_lifecycleVars

(* One entry of an account that goes does not take the auth streak from    *)
(* the one that stays.                                                     *)
StreakEndsByItsOwn ==
    \A a \in Accounts : streaks[a] # {} /\ streaks'[a] = {} =>
        \/ \E e \in Entries, g \in Gens : Account[e] = a /\ cycle[e][g] # cycle'[e][g]
        \/ \E e \in Entries : {o \in Entries : Account[o] = a /\ Configured(o)} = {e}

StreakIsNotTaken == [][StreakEndsByItsOwn]_lifecycleVars

(* What async_wait_for_store_writes says of itself: once it has returned,  *)
(* no write of the coordinator is in flight.                               *)
NoWriteInFlight ==
    \A e \in Entries : phase[e] = "unloading" => <<e, data[e]>> \notin loose

(* What async_remove_entry says of itself: a removed entry leaves neither  *)
(* a store nor an issue behind.                                            *)
RemovalLeavesNothing ==
    \A e \in Entries : ~Configured(e) => store[e] = 0 /\ issue[e] = 0

(* An unload ends, and so does a setup. *)
TransitionsEnd ==
    \A e \in Entries : (phase[e] \in SettingUp \/ phase[e] = "leaving") ~>
                          phase[e] \in Gone \cup {"loaded", "stuck", "failed", "deleting"}
(* At rest an entry either serves completely or has left nothing behind -  *)
(* unless its unload failed - whatever other entries did meanwhile.        *)
EntriesServeOrAreGone ==
    LifecycleTypeOK /\ LoadedServes /\ GoneLeavesNothing /\ ServicesAreServed

(* Going takes nothing from others and waits for what it still writes.     *)
GoesInOrder == OldWritesAreWaitedFor /\ StreakIsNotTaken
=============================================================================
