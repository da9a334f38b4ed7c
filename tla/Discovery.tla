------------------------------ MODULE Discovery ------------------------------
(***************************************************************************)
(* Which parameters a module of the heating system has is asked once, kept *)
(* for a day, written to disk and read again - by a poll's worker thread   *)
(* that may be stopped anywhere, beside an event loop that writes what     *)
(* there is to disk and in which the user may ask for a new search.        *)
(*                                                                         *)
(* A list carries the time it was fetched; here, its age.  A description   *)
(* that fails is booked by an age that makes it due again in Retry hours.  *)
(*                                                                         *)
(* The clock moves between cycles only.  A device may be read if it is     *)
(* enabled and was online when it was last looked at.  The turn is given   *)
(* or refused as HeavyFetchTurns says; what a description says is          *)
(* abstracted to some parameters or none.                                  *)
(***************************************************************************)
EXTENDS Naturals, Sequences, SequencesExt, FiniteSets

CONSTANTS
    Order,          \* the modules, as the portal lists them
    DeviceOf,       \* the device each is a module of
    Omitted,        \* bound: modules a device list may leave out
    Offline,        \* bound: devices that may not be readable
    Watched,        \* bound: modules the histories are about
    MaySearch,      \* bound: the user asks for a search
    Interval,       \* PARAMETER_REDISCOVERY_INTERVAL_SECONDS, in hours
    Retry           \* PARAMETER_REDISCOVERY_RETRY_SECONDS

Modules == ToSet(Order)
Devices == {DeviceOf[m] : m \in Modules}

ASSUME DiscoveryAssumption ==
    /\ Order \in Seq(Modules) /\ IsInjective(Order)
    /\ DOMAIN DeviceOf = Modules /\ Omitted \subseteq Modules
    /\ Offline \subseteq Devices /\ Watched \subseteq Modules
    /\ MaySearch \in BOOLEAN
    /\ Interval \in Nat /\ Retry \in 1 .. Interval - 1

VARIABLES
    known,      \* api.modules
    fresh,      \* new_modules of a get_devices
    readable,   \* devices that are enabled and whose last status is online
    listDue,    \* ~_devices_fetched_this_session
    first,      \* ~_first_cycle_done
    pc,         \* where the worker is
    at,         \* how far it has come in Order
    cycle,      \* the coordinator's cycle
    writes,     \* writes that hold or wait for the store lock
    disk,       \* the module cache
    tookTurn,   \* history: this discovery took the heavy turn,
    spent,      \*          and asked for a description
    rejected,   \* history: modules whose latest answer was no answer
    relisted,   \* history: those among them a device list was read over since
    owed,       \* history: hours a module is still to be left alone
    wanted,     \* history: marked by a rescan and not asked since
    crossed,    \* history: those marked while they were asked,
    replaced,   \* history: while their new entry was built
    stored,     \* history: those whose mark was saved
    settled     \* history: modules with parameters when the last cycle ended

worker == <<pc, at, tookTurn, spent>>
session == <<readable, listDue, first>>
store == <<writes, disk>>
answers == <<rejected, relisted, owed>>
rescan == <<wanted, crossed, replaced, stored>>
vars == <<known, fresh, session, worker, cycle, store, answers, rescan, settled>>

(* A module's entry: no "parameters" at all, an empty dict, or some.       *)
Entry(list, refused, age) == [list |-> list, refused |-> refused, age |-> age]
Bare == Entry("none", FALSE, Interval)
Caches == UNION {[S -> [list : {"none", "empty", "some"}, refused : BOOLEAN,
                        age : 0 .. Interval]] : S \in SUBSET Modules}

HasList(m) == known[m].list # "none"
Described(cache) == {m \in DOMAIN cache : cache[m].list = "some"}

Init ==
    /\ known = <<>> /\ fresh = <<>> /\ disk = <<>>
    /\ readable = {} /\ listDue = TRUE /\ first = TRUE
    /\ pc = "idle" /\ at = 0 /\ cycle = "none" /\ writes = <<>>
    /\ tookTurn = FALSE /\ spent = FALSE
    /\ rejected = {} /\ relisted = {} /\ owed = [m \in Watched |-> 0]
    /\ wanted = {} /\ crossed = {} /\ replaced = {} /\ stored = {} /\ settled = {}

-----------------------------------------------------------------------------
(* The device list, once per session *)

Reachable == {Devices \ away : away \in SUBSET Offline}

CycleBegins ==
    /\ cycle = "none" /\ cycle' = "running"
    /\ IF pc = "idle"
       THEN /\ pc' = IF listDue THEN "listing" ELSE "deciding"
            /\ readable' \in Reachable
       ELSE UNCHANGED <<pc, readable>>      \* the lock is still held
    /\ UNCHANGED <<known, fresh, listDue, first, at, tookTurn, spent, store,
                   answers, rescan, settled>>

(* _register_device: the list and its age come across, nothing else.       *)
Carried(m) ==
    IF m \in DOMAIN known /\ HasList(m)
    THEN [known[m] EXCEPT !.refused = FALSE] ELSE Bare

(* The new list is built from the entries of the old one ...               *)
Listed ==
    /\ pc = "listing" /\ pc' = "listed"
    /\ \E left \in SUBSET Omitted :
          fresh' = [m \in Modules \ left |-> Carried(m)]
    /\ readable' \in Reachable
    /\ UNCHANGED <<known, listDue, first, at, tookTurn, spent, cycle, store,
                   answers, rescan, settled>>

StillWanted ==
    /\ crossed' = crossed \cap wanted' /\ replaced' = replaced \cap wanted'
    /\ stored' = stored \cap wanted'

(* ... and takes its place.                                                *)
Adopted ==
    /\ pc = "listed" /\ pc' = "deciding"
    /\ known' = fresh /\ fresh' = <<>> /\ listDue' = FALSE
    /\ relisted' = rejected /\ settled' = settled \cap DOMAIN fresh
    /\ wanted' = wanted \cap DOMAIN fresh
    /\ StillWanted
    /\ UNCHANGED <<readable, first, at, tookTurn, spent, cycle, store, rejected,
                   owed>>

-----------------------------------------------------------------------------
(* What is due *)

CanBeRead(m) == DeviceOf[m] \in readable
Stale(m) == HasList(m) /\ known[m].age = Interval
DescriptionIsDue(m) == HasList(m) => known[m].age = Interval

Missing == \E m \in DOMAIN known : CanBeRead(m) /\ ~HasList(m)
SomeStale == \E m \in DOMAIN known : CanBeRead(m) /\ Stale(m)

(* _discover_parameters_if_due: missing definitions are read at once; the  *)
(* re-read waits for the second cycle and for its turn.                    *)
NotDue ==
    /\ pc = "deciding" /\ pc' = "reading"
    /\ ~Missing
    /\ UNCHANGED <<known, fresh, session, at, tookTurn, spent, cycle, store,
                   answers, rescan, settled>>

ReadNow(turn) ==
    /\ pc = "deciding" /\ pc' = "walking"
    /\ at' = 0 /\ spent' = FALSE /\ tookTurn' = turn
    /\ UNCHANGED <<known, fresh, session, cycle, store, answers, rescan, settled>>

Discover ==
    \/ Missing /\ ReadNow(FALSE)
    \/ ~Missing /\ SomeStale /\ ~first /\ ReadNow(TRUE)

-----------------------------------------------------------------------------
(* One description after another *)

Waiting == {i \in at + 1 .. Len(Order) :
               /\ Order[i] \in DOMAIN known /\ CanBeRead(Order[i])
               /\ DescriptionIsDue(Order[i])}

AskNext ==
    /\ pc = "walking" /\ pc' = "asking"
    /\ \E i \in Waiting :
          /\ \A j \in Waiting : i <= j
          /\ at' = i
          /\ wanted' = wanted \ {Order[i]}
    /\ StillWanted
    /\ spent' = TRUE
    /\ UNCHANGED <<known, fresh, session, tookTurn, cycle, store, answers, settled>>

(* Mutant: what a portal refused to describe again is believed empty. *)
NotedAsSaid(entry, unsupported) ==
    IF unsupported THEN Entry("empty", TRUE, Interval - Retry)
    ELSE Entry("empty", FALSE, 0)

(* Mutant: a list that works stays as it is, its age included. *)
NotedIfNew(entry, unsupported) ==
    IF entry.list = "some" THEN entry
    ELSE Entry("empty", unsupported, IF unsupported THEN Interval - Retry ELSE 0)

(* _note_undescribed_module: nothing is thrown away; a refusal is asked    *)
(* again soon, an empty description in a day.                              *)
Noted(entry, unsupported) ==
    CASE entry.list = "some" -> [entry EXCEPT !.age = Interval - Retry]
      [] entry.list # "some" /\ unsupported -> Entry("empty", TRUE, Interval - Retry)
      [] OTHER -> Entry("empty", FALSE, 0)

Book(entry, wait) ==
    LET m == Order[at]
    IN /\ pc = "asking" /\ pc' = "walking"
       /\ known' = [known EXCEPT ![m] = entry]
       /\ owed' = [w \in Watched |-> IF w = m THEN wait ELSE owed[w]]
       /\ writes' = [i \in DOMAIN writes |-> [writes[i] EXCEPT !.older = TRUE]]
       /\ UNCHANGED <<fresh, session, at, tookTurn, spent, cycle, disk, rescan, settled>>

Said(m, refused) ==
    /\ rejected' = IF refused THEN rejected \cup ({m} \cap Watched) ELSE rejected \ {m}
    /\ relisted' = relisted \ {m}

DescribedSome ==
    /\ Book(Entry("some", FALSE, 0), Interval)
    /\ Said(Order[at], FALSE)

DescribedEmpty ==
    LET entry == known[Order[at]]
    IN /\ Book(Noted(entry, FALSE), IF entry.list = "some" THEN Retry ELSE Interval)
       /\ Said(Order[at], FALSE)

(* A 400, or an answer nobody can read.                                    *)
Rejected ==
    LET entry == known[Order[at]]
    IN /\ Book(Noted(entry, TRUE), Retry)
       /\ Said(Order[at], entry.list # "some")

(* _survive_a_failed_description: a failure of this request says nothing   *)
(* about the module; what was said before stands.                          *)
StandsRefused(entry) == entry.refused

Failed ==
    LET entry == known[Order[at]]
    IN /\ pc = "asking" /\ entry.list # "none"
       /\ Book(Noted(entry, StandsRefused(entry)), Retry)
       /\ UNCHANGED <<rejected, relisted>>

(* _wait_for_a_first_description: asked again next cycle, the others are   *)
(* read; or the cycle fails, when nothing was ever described.              *)
StillUnknown ==
    /\ pc = "asking" /\ ~HasList(Order[at])
    /\ pc' = IF \E m \in DOMAIN known : HasList(m) THEN "walking" ELSE "idle"
    /\ UNCHANGED <<known, fresh, session, at, tookTurn, spent, cycle, store,
                   answers, rescan, settled>>

(* A 403, a session gone, a login refused, the deadline, a reset, an error *)
(* of the list: nothing is booked, and the read is over.                   *)
Stopped ==
    /\ pc \in {"listing", "deciding", "asking", "reading"} /\ pc' = "idle"
    /\ UNCHANGED <<known, fresh, session, at, tookTurn, spent, cycle, store,
                   answers, rescan, settled>>

WalkEnds ==
    /\ pc = "walking" /\ Waiting = {} /\ pc' = "reading"
    /\ UNCHANGED <<known, fresh, session, at, tookTurn, spent, cycle, store,
                   answers, rescan, settled>>

(* The values, the programmes and the statistics.                          *)
ReadEnds ==
    /\ pc = "reading" /\ pc' = "idle" /\ first' = FALSE
    /\ UNCHANGED <<known, fresh, readable, listDue, at, tookTurn, spent, cycle,
                   store, answers, rescan, settled>>

(* The connection pool is replaced: a new session, the same lists.         *)
Reset ==
    /\ pc = "idle" /\ listDue' = TRUE
    /\ UNCHANGED <<known, fresh, readable, first, worker, cycle, store,
                   answers, rescan, settled>>

Worker ==
    \/ Listed \/ Adopted \/ NotDue \/ Discover \/ AskNext
    \/ DescribedSome \/ DescribedEmpty \/ Rejected \/ Failed \/ StillUnknown
    \/ Stopped \/ WalkEnds \/ ReadEnds

-----------------------------------------------------------------------------
(* The event loop *)

(* A write waits for the store lock with the image taken before; it is     *)
(* older once a description was booked since.                              *)
Queue(who, cache) == Append(writes, [by |-> who, cache |-> cache, older |-> FALSE])

(* Nothing there, or what was last saved.                                  *)
NothingToSave ==
    known = <<>> \/ (known = disk /\ \A i \in DOMAIN writes : ~writes[i].older)

(* However the cycle ended - its timeout leaves the worker behind.         *)
CycleSaves ==
    /\ cycle = "running"
    /\ settled' = Described(known) \cap Watched
    /\ IF NothingToSave
       THEN cycle' = "none" /\ writes' = writes
       ELSE cycle' = "saving" /\ writes' = Queue("cycle", known)
    /\ UNCHANGED <<known, fresh, session, worker, disk, answers, rescan>>

(* _save_under_store_lock, and what its two callers do with a failure.     *)
Written(ok) ==
    /\ writes # <<>>
    /\ writes' = Tail(writes)
    /\ disk' = IF ok THEN Head(writes).cache ELSE disk
    /\ cycle' = IF Head(writes).by = "cycle" THEN "none" ELSE cycle
    /\ settled' = IF ok THEN settled ELSE settled \cap Described(disk)
    /\ stored' = IF ok /\ Head(writes).by = "rescan" THEN wanted ELSE stored
    /\ UNCHANGED <<known, fresh, session, worker, answers, wanted, crossed,
                   replaced>>

(* Mutant: an empty list is taken for no list. *)
MarkedNonEmpty == {m \in DOMAIN known : known[m].list = "some"}

Marked == {m \in DOMAIN known : HasList(m)}

Due(marked) == [m \in DOMAIN known |->
    IF m \in marked THEN [known[m] EXCEPT !.age = Interval] ELSE known[m]]

(* What a search stands for: every list there is, whatever gets marked.    *)
Asked(lists) ==
    /\ wanted' = wanted \cup lists
    /\ crossed' = (crossed \ lists) \cup {m \in lists : pc = "asking" /\ m = Order[at]}
    /\ replaced' = (replaced \ lists) \cup {m \in lists : pc = "listed"}
    /\ stored' = stored \ (crossed \cup replaced)
    /\ owed' = [m \in Watched |-> IF m \in lists THEN 0 ELSE owed[m]]

(* async_step_rescan_parameters, up to the store lock.                     *)
Rescan ==
    /\ MaySearch /\ Marked # {}
    /\ \A i \in DOMAIN writes : writes[i].by # "rescan"
    /\ known' = Due(Marked)
    /\ writes' = Queue("rescan", known')
    /\ Asked({m \in DOMAIN known \cap Watched : HasList(m)})
    /\ UNCHANGED <<fresh, session, worker, cycle, disk, rejected, relisted, settled>>

(* Home Assistant, or the entry, starts anew: from what is on disk.        *)
Restart ==
    /\ known' = disk /\ fresh' = <<>>
    /\ readable' = {} /\ listDue' = TRUE /\ first' = TRUE
    /\ pc' = "idle" /\ at' = 0 /\ cycle' = "none" /\ writes' = <<>>
    /\ tookTurn' = FALSE /\ spent' = FALSE
    /\ rejected' = rejected \cap {m \in DOMAIN disk : disk[m].refused}
    /\ relisted' = {}
    /\ owed' = IF known = disk THEN owed ELSE [m \in Watched |-> 0]
    /\ wanted' = stored /\ StillWanted
    /\ settled' = IF cycle = "saving" THEN settled \cap Described(disk) ELSE settled
    /\ UNCHANGED disk

Older(cache) == [m \in DOMAIN cache |->
    [cache[m] EXCEPT !.age = IF @ < Interval THEN @ + 1 ELSE Interval]]

HourPasses ==
    /\ cycle = "none" /\ pc = "idle" /\ writes = <<>>
    /\ known' = Older(known) /\ disk' = Older(disk)
    /\ owed' = [m \in Watched |-> IF owed[m] > 0 THEN owed[m] - 1 ELSE 0]
    /\ UNCHANGED <<fresh, session, worker, cycle, writes, rejected, relisted,
                   rescan, settled>>

Next ==
    \/ CycleBegins \/ Worker \/ Reset \/ CycleSaves
    \/ \E ok \in BOOLEAN : Written(ok)
    \/ Rescan \/ Restart \/ HourPasses

Spec == Init /\ [][Next]_vars

-----------------------------------------------------------------------------
(* Properties *)

(* The types; a refusal is remembered for an empty list only, and leaves   *)
(* it to be asked within the hour.                                         *)
TypeOK ==
    /\ {known, fresh, disk} \subseteq Caches
    /\ \A i \in DOMAIN writes :
          /\ writes[i].by \in {"cycle", "rescan"} /\ writes[i].cache \in Caches
          /\ writes[i].older \in BOOLEAN
    /\ readable \subseteq Devices /\ listDue \in BOOLEAN /\ first \in BOOLEAN
    /\ pc \in {"idle", "listing", "listed", "deciding", "walking", "asking", "reading"}
    /\ at \in 0 .. Len(Order) /\ cycle \in {"none", "running", "saving"}
    /\ tookTurn \in BOOLEAN /\ spent \in BOOLEAN
    /\ rejected \subseteq Modules /\ relisted \subseteq rejected
    /\ owed \in [Watched -> 0 .. Interval]
    /\ wanted \subseteq Modules /\ (crossed \cup replaced) \subseteq wanted
    /\ stored \subseteq wanted /\ settled \subseteq Modules
    /\ pc = "asking" => at > 0 /\ Order[at] \in DOMAIN known
    /\ \A m \in DOMAIN known : known[m].refused =>
          known[m].list = "empty" /\ known[m].age >= Interval - Retry

(* A parameter list that works is only ever replaced by another one: no    *)
(* refusal, empty answer, failure or stopped read takes it away - only a   *)
(* device list without the module, or a restart.                           *)
NoListIsLost ==
    [][\A m \in Described(known) :
          \/ m \in Described(known')
          \/ pc = "listed" /\ m \notin DOMAIN known'
          \/ m \notin Described(disk)]_vars

(* A module is not asked again for as long as it was given: a day after it *)
(* described itself, an hour after it would not - however it ended, across *)
(* sessions, and unless the user asks for a search.                        *)
LeftAlone ==
    pc = "asking" /\ Order[at] \in Watched /\ HasList(Order[at]) => owed[Order[at]] = 0

(* A module the portal refused to describe is asked again within the hour, *)
(* whatever its requests met since, for as long as the session lasts.      *)
RefusedIsAskedSoon ==
    \A m \in (rejected \ relisted) \cap DOMAIN known :
        known[m].list = "empty" => known[m].age >= Interval - Retry

(* A module a rescan has marked is due until it is asked: over failed      *)
(* reads, new sessions and, once its marks are saved, a restart; unless it *)
(* was being asked or listed as it was marked.                             *)
MarkedStaysDue ==
    \A m \in (wanted \ (crossed \cup replaced)) \cap DOMAIN known : DescriptionIsDue(m)

(* What a cycle discovered is on disk when it has ended, though it was     *)
(* stopped half way or timed out, unless the store failed.                 *)
EndedCyclesAreKept ==
    cycle = "none" => settled \subseteq Described(disk)

(* A heavy turn that was taken for descriptions asks for one.              *)
TurnIsSpent == pc = "reading" /\ tookTurn => spent

(* Of the code this is false: a refusal is remembered only until the       *)
(* device list is read again.                                              *)
RefusalIsRemembered ==
    \A m \in rejected \cap DOMAIN known :
        known[m].list = "empty" => known[m].age >= Interval - Retry

(* Of the code this is false: the answer a rescan came across counts as    *)
(* the one it asked for.                                                   *)
RescanIsHeard ==
    \A m \in (wanted \ replaced) \cap DOMAIN known : DescriptionIsDue(m)

(* Of the code this is false: lists that are merely old are read again in  *)
(* the first cycle, too, when another module has none.                     *)
FirstCycleReadsWhatIsMissing ==
    pc = "asking" /\ first => ~HasList(Order[at])
(* The portal is asked for a description when it is time: not sooner, soon *)
(* after a refusal, and with the turn taken for it.                        *)
AskedInTime == TypeOK /\ LeftAlone /\ RefusedIsAskedSoon /\ TurnIsSpent

(* Stopped half way, a search is taken up again and what it found is kept. *)
SearchesAreResumed == MarkedStaysDue /\ EndedCyclesAreKept
=============================================================================
