---------------------------- MODULE ValueFreshness ----------------------------
(***************************************************************************)
(* Which readings of one device are shown, and for how long after their    *)
(* source fell silent.  In `both` mode three fetches write into one dict   *)
(* of rows - the scrape, the value read and the schedule fetch - and five  *)
(* passes take values down again, each for the silence of one of them.     *)
(*                                                                         *)
(* A row's value is only shown or not; its age and its misses are history: *)
(* how many reads and how many failed scrapes ago somebody delivered it,   *)
(* a programme's week counting as delivery for as long as it is there.     *)
(* All steps are taken under the api lock, so one cycle does not overlap   *)
(* another; scrapes come at any moment between two reads.                  *)
(***************************************************************************)
EXTENDS Naturals, FiniteSets, Functions

CONSTANTS
    Params,         \* parameters the device's modules can describe
    ModuleOf,       \* the module of each
    Programmes,     \* parameters that are weekly programmes
    Controls,       \* parameters that become a control
    Scraped,        \* rows the expert page can have
    Meant,          \* the scraped row that names the same thing, or NoRow
    NoRow,          \* no row, no module
    StaleAfter,     \* reads a source may stay silent (_values_stale_after_seconds)
    DeadAfter,      \* SCRAPE_FAILURES_BEFORE_VALUES_ARE_STALE
    LosesAll        \* the device list may drop the last described module

Modules == {ModuleOf[p] : p \in Params}
Rows == Params \cup Scraped

ASSUME FreshnessAssumption ==
    /\ Programmes \subseteq Params /\ Controls \subseteq Params \ Programmes
    /\ Meant \in [Params -> Scraped \cup {NoRow}] /\ Params \cap Scraped = {}
    /\ NoRow \notin Rows \cup Modules
    /\ StaleAfter \in Nat \ {0} /\ DeadAfter \in Nat \ {0} /\ LosesAll \in BOOLEAN

VARIABLES
    at,         \* "idle", or what the value read is at
    listed,     \* modules of the device list
    described,  \* the parameters each of them describes
    rows,       \* the device's rows
    merged,     \* scraping_mapper: the row a parameter's value goes to
    inventory,  \* _previous_scraper_keys
    failedScrapes, \* spider_retry_count
    lastRead,   \* _last_device_read, in reads ago
    answered,   \* _module_answered_at, in reads ago
    adrift,     \* history: what a module came back without, until it is read again
    settled     \* history: the last read has aged what it found, and the schedule
                \* fetch has dropped no week since

lists == <<listed, described, adrift>>
stamps == <<lastRead, answered>>
freshVars == <<at, lists, rows, merged, inventory, failedScrapes, stamps, settled>>

NeverRead == StaleAfter + 1
LongestAge == 2 * StaleAfter
AtMost(i, j) == IF i < j THEN i ELSE j

Older(n) == IF n = NeverRead THEN NeverRead ELSE AtMost(n + 1, StaleAfter)
Empty == [x \in {} |-> NoRow]
Of(m) == {p \in Params : ModuleOf[p] = m}
Described == UNION {described[m] : m \in listed}

FreshInit ==
    /\ at = "idle"
    /\ listed = Modules /\ described = [m \in Modules |-> Of(m)]
    /\ rows = Empty /\ merged = Empty
    /\ inventory = {} /\ failedScrapes = 0
    /\ lastRead = NeverRead /\ answered = [m \in Modules |-> NeverRead]
    /\ adrift = {} /\ settled = FALSE

Blank(rs, gone) ==
    [r \in DOMAIN rs |-> [rs[r] EXCEPT !.shown = @ /\ r \notin gone]]
Shown(rs) == {r \in DOMAIN rs : rs[r].shown}

(* _kept_fresh_by_the_scrape *)
ScrapeFeeds(r) == failedScrapes < DeadAfter /\ r \in inventory

(* schedule_fetch_still_feeds, for the programme an api value is. *)
ScheduleFeeds(rs, r) == rs[r].shown /\ rs[r].week

(* _owned_by_another_fetch *)
OwnedElsewhere(rs, r, scheduleRuns) ==
    ScrapeFeeds(r) \/ (scheduleRuns /\ ScheduleFeeds(rs, r))

-----------------------------------------------------------------------------
(* The scrape. *)

(* Rows whose programme week the schedule fetch still owns.                *)
WeekOwners(map) == {map[p] : p \in DOMAIN map \cap Described}

(* _merge_webscraping_data: new rows without a module; a row that is gone  *)
(* from the page, or has no value on it, shows none.                       *)
ScrapedRows(page, silent, map) ==
    [r \in DOMAIN rows \cup page |->
        IF r \in page
        THEN [shown |-> r \notin silent, mod |-> NoRow,
              week |-> r \in WeekOwners(map) \cap DOMAIN rows /\ rows[r].week,
              age |-> 0, misses |-> 0]
        ELSE IF r \in inventory
        THEN [rows[r] EXCEPT !.shown = FALSE, !.misses = DeadAfter]
        ELSE rows[r]]

ScrapeWorks(page, silent) ==
    /\ at = "idle"
    /\ failedScrapes' = 0 /\ inventory' = page
    /\ merged' = IF page = inventory THEN merged ELSE Empty
    /\ rows' = ScrapedRows(page, silent, merged')
    /\ UNCHANGED <<at, lists, stamps, settled>>

(* _register_scrape_failure; the third in a row forgets what was scraped.  *)
ScrapeFails ==
    /\ at = "idle"
    /\ failedScrapes' = AtMost(failedScrapes + 1, DeadAfter + 1)
    /\ LET missed == [r \in DOMAIN rows |->
                         [rows[r] EXCEPT !.misses = AtMost(@ + 1, DeadAfter)]]
       IN rows' = Blank(missed, IF failedScrapes' = DeadAfter THEN inventory ELSE {})
    /\ UNCHANGED <<at, lists, merged, inventory, stamps, settled>>

-----------------------------------------------------------------------------
(* The value read of one cycle. *)
BeginRead ==
    /\ at = "idle"
    /\ at' = "status" /\ settled' = FALSE
    /\ rows' = [r \in DOMAIN rows |-> [rows[r] EXCEPT !.age = AtMost(@ + 1, LongestAge)]]
    /\ lastRead' = Older(lastRead)
    /\ answered' = [m \in Modules |-> Older(answered[m])]
    /\ UNCHANGED <<lists, merged, inventory, failedScrapes>>

(* A refused login or the deadline ends the cycle before its ageing.       *)
ReadCutShort ==
    /\ at # "idle"
    /\ at' = "idle" /\ settled' = FALSE
    /\ UNCHANGED <<lists, rows, merged, inventory, failedScrapes, stamps>>

(* _forget_stale_device_values: the device has been silent too long, so    *)
(* every row goes that nobody else feeds.  Measured anew from here.        *)
DeviceForgets(scheduleRuns) ==
    LET gone == {r \in Shown(rows) : ~OwnedElsewhere(rows, r, scheduleRuns)}
    IN IF lastRead \notin {NeverRead} \cup 0..(StaleAfter - 1) /\ gone # {}
       THEN rows' = Blank(rows, gone) /\ lastRead' = 0
       ELSE UNCHANGED <<rows, lastRead>>

(* The status says the device is not online: nothing else is asked of it.  *)
NotOnline ==
    /\ at = "status"
    /\ DeviceForgets(FALSE)
    /\ at' = "idle" /\ settled' = TRUE
    /\ UNCHANGED <<lists, merged, inventory, failedScrapes, answered>>

ReadFails ==
    /\ at = "status"
    /\ DeviceForgets(TRUE)
    /\ at' = "schedules" /\ settled' = TRUE
    /\ UNCHANGED <<lists, merged, inventory, failedScrapes, answered>>

(* No module describes anything: NoRead.NOTHING_TO_READ.                   *)
NothingToRead ==
    /\ at = "status" /\ Described = {}
    /\ at' = "schedules" /\ settled' = TRUE
    /\ UNCHANGED <<lists, rows, merged, inventory, failedScrapes, stamps>>

(* _merge_into_scraped: where the values of newly seen parameters go.  A   *)
(* scraped row takes one parameter, if the last good scrape had it and no  *)
(* api reading is in it yet.                                               *)
Free(p) == /\ Meant[p] \in inventory \cap DOMAIN rows
           /\ rows[Meant[p]].mod = NoRow
           /\ \A q \in DOMAIN merged : merged[q] # Meant[p]

Targets(new) ==
    {f \in [new -> Rows] :
        /\ \A p \in new : f[p] = p \/ (Free(p) /\ f[p] = Meant[p])
        /\ \A p, q \in new : f[p] = f[q] => p = q
        /\ \A p \in new : Free(p) => \E q \in new : f[q] = Meant[p]}

(* process_api_values, up to the ageing: said parameters came with a       *)
(* value, empty ones without.  An empty answer erases no scraped value the *)
(* scrape still delivers; a row of the reading's own, written before the   *)
(* first scrape, gives way to the scraped one and hands its week on.       *)
Written(r, p, p_own, empty) ==
    LET old == IF r \in DOMAIN rows THEN rows[r]
               ELSE [shown |-> FALSE, mod |-> NoRow, week |-> FALSE, age |-> 0,
                     misses |-> DeadAfter]
    IN [old EXCEPT !.shown = IF p \notin empty THEN TRUE ELSE @ /\ ScrapeFeeds(r),
                   !.mod = ModuleOf[p],
                   !.week = @ \/ (p_own /\ rows[p].week),
                   !.age = IF p \notin empty THEN 0 ELSE @]

Mapped(said, empty, map, new) ==
    LET target == [p \in said |-> IF p \in Controls THEN p ELSE map[p]]
        moved == {p \in new : map[p] # p}
        from(r) == CHOOSE p \in said : target[p] = r
    IN [r \in (DOMAIN rows \ moved) \cup Range(target) |->
            IF r \in Range(target)
            THEN Written(r, from(r), from(r) \in moved \cap DOMAIN rows, empty)
            ELSE rows[r]]

(* Mutant: what the portal leaves out is blanked wherever it is shown. *)
UnansweredAnywhere(rs, modules, said, map) ==
    {r \in DOMAIN rs :
        \E p \in (UNION {described[m] : m \in modules}) \ said :
            r = IF p \in DOMAIN map THEN map[p] ELSE p}

(* _clear_unanswered: parameters an answering module left out, each where  *)
(* its reading lives.                                                      *)
Unanswered(rs, modules, said, map) ==
    {r \in DOMAIN rs :
        /\ \E p \in (UNION {described[m] : m \in modules}) \ said :
               r = IF p \in DOMAIN map THEN map[p] ELSE p
        /\ ~ScrapeFeeds(r) /\ ~ScheduleFeeds(rs, r)}

(* _rows_this_module_owns; the schedule fetch walks the device list. *)
RowsOwned(rs, m) ==
    {r \in Shown(rs) : rs[r].mod = m /\ ~OwnedElsewhere(rs, r, m \in listed)}

(* Mutant: the pass walks the module list. *)
SilentListed(rs, stamp) ==
    [m \in Modules |->
        IF stamp[m] = NeverRead \/ stamp[m] < StaleAfter \/ m \notin listed THEN {}
        ELSE RowsOwned(rs, m)]

(* _forget_unanswered_module_values: what each silent module takes down.   *)
Silent(rs, stamp) ==
    [m \in Modules |->
        IF stamp[m] = NeverRead \/ stamp[m] < StaleAfter THEN {}
        ELSE RowsOwned(rs, m)]

ReadWorks(modules, said, empty) ==
    /\ at = "status"
    /\ \A m \in modules : described[m] # {}
    /\ LET new == said \ (Controls \cup DOMAIN merged) IN
       \E f \in Targets(new) :
          LET map == [p \in DOMAIN merged \cup new |->
                         IF p \in new THEN f[p] ELSE merged[p]]
              written == Mapped(said, empty, map, new)
              cleared == Blank(written, Unanswered(written, modules, said, map))
              stamp == [m \in Modules |-> IF m \in modules THEN 0 ELSE answered[m]]
              silent == Silent(cleared, stamp)
          IN /\ merged' = map
             /\ rows' = Blank(cleared, UNION Range(silent))
             /\ answered' = [m \in Modules |-> IF silent[m] # {} THEN 0 ELSE stamp[m]]
    /\ lastRead' = 0
    /\ at' = "schedules" /\ settled' = TRUE
    /\ adrift' = adrift \ UNION {described[m] : m \in modules}
    /\ UNCHANGED <<listed, described, inventory, failedScrapes>>

(* The schedule fetch reads weeks for programmes that show one, or drops   *)
(* the week of those it failed to read; most cycles it is not due.         *)
RowOf(p) == IF p \in DOMAIN merged THEN merged[p] ELSE p

FetchSchedules(came, failed) ==
    /\ at = "schedules"
    /\ \A p \in came \cup failed : RowOf(p) \in Shown(rows)
    /\ LET of(ps) == {RowOf(p) : p \in ps} IN
       rows' = [r \in DOMAIN rows |->
                   [rows[r] EXCEPT !.week = (@ \/ r \in of(came)) /\ r \notin of(failed),
                                   !.age = IF rows[r].week /\ r \in of(failed)
                                           THEN 0 ELSE @]]
    /\ at' = "idle" /\ settled' = (settled /\ failed = {})
    /\ UNCHANGED <<lists, merged, inventory, failedScrapes, stamps>>

-----------------------------------------------------------------------------
(* Between the reads. *)

(* A module is described anew; readings of dropped parameters go with the  *)
(* old description (forget_dropped_parameters).                            *)
Redescribe(m, new) ==
    /\ at = "idle" /\ m \in listed /\ new # described[m]
    /\ LET dropped == described[m] \ new
           left == {RowOf(p) : p \in dropped} \ dropped
       IN rows' = [r \in DOMAIN rows \ dropped |->
                      IF r \in left
                      THEN [rows[r] EXCEPT !.week = FALSE, !.shown = @ /\ ScrapeFeeds(r)]
                      ELSE rows[r]]
    /\ described' = [described EXCEPT ![m] = new]
    /\ adrift' = adrift \cup IF described[m] = {} THEN Of(m) \ new ELSE {}
    /\ UNCHANGED <<at, listed, merged, inventory, failedScrapes, stamps, settled>>

(* A new session reads the device list; rows come across with the device. *)
DropModule(m) ==
    /\ at = "idle" /\ m \in listed
    /\ LosesAll \/ \E o \in listed \ {m} : described[o] # {}
    /\ listed' = listed \ {m}
    /\ described' = [described EXCEPT ![m] = {}]
    /\ UNCHANGED <<at, adrift, rows, merged, inventory, failedScrapes, stamps, settled>>

ListModule(m) ==
    /\ at = "idle" /\ m \notin listed
    /\ listed' = listed \cup {m}
    /\ UNCHANGED <<at, described, adrift, rows, merged, inventory, failedScrapes, stamps, settled>>

(* _publish_accepted_values: a write the portal took. *)
Write(p) ==
    /\ at = "idle" /\ p \in Controls \cap DOMAIN rows
    /\ rows' = [rows EXCEPT ![p].shown = TRUE, ![p].age = 0]
    /\ UNCHANGED <<at, lists, merged, inventory, failedScrapes, stamps, settled>>

FreshNext ==
    \/ \E page \in (SUBSET Scraped) \ {{}} :
          \E silent \in SUBSET page : ScrapeWorks(page, silent)
    \/ ScrapeFails
    \/ BeginRead \/ ReadCutShort \/ NotOnline \/ ReadFails \/ NothingToRead
    \/ \E modules \in (SUBSET listed) \ {{}} :
          \E said \in SUBSET UNION {described[m] : m \in modules} :
             \E empty \in SUBSET said : ReadWorks(modules, said, empty)
    \/ \E came \in SUBSET (Programmes \cap Described) :
          \E failed \in SUBSET ((Programmes \cap Described) \ came) :
             FetchSchedules(came, failed)
    \/ \E m \in Modules :
          \/ \E new \in (SUBSET Of(m)) \ {{}} : Redescribe(m, new)
          \/ DropModule(m) \/ ListModule(m)
    \/ \E p \in Controls : Write(p)

FreshSpec == FreshInit /\ [][FreshNext]_freshVars

-----------------------------------------------------------------------------
RowType == [shown : BOOLEAN, mod : Modules \cup {NoRow}, week : BOOLEAN,
            age : 0..LongestAge, misses : 0..DeadAfter]

FreshTypeOK ==
    /\ at \in {"idle", "status", "schedules"}
    /\ listed \subseteq Modules
    /\ described \in [Modules -> SUBSET Params]
    /\ DOMAIN rows \subseteq Rows /\ \A r \in DOMAIN rows : rows[r] \in RowType
    /\ DOMAIN merged \subseteq Params /\ Range(merged) \subseteq Rows
    /\ inventory \subseteq Scraped /\ failedScrapes \in 0..DeadAfter + 1
    /\ lastRead \in 0..NeverRead /\ answered \in [Modules -> 0..NeverRead]
    /\ adrift \subseteq Params /\ settled \in BOOLEAN

(* Whatever else may vouch for a row: fewer failed scrapes since the page  *)
(* had it than make the scrape dead, or a programme's week.                *)
Vouched(r) == rows[r].misses < DeadAfter \/ rows[r].week

(* Nothing walks such a reading again: it is not described, its module     *)
(* answers, and there was no description left to compare the new one with  *)
(* when it came (forget_dropped_parameters).                               *)
BackWithoutIt(r) == \E p \in adrift : r = RowOf(p)

(* After a read nothing is shown that its source has not delivered for two *)
(* stretches of silence - the device's and its module's can follow each    *)
(* other - unless another fetch still feeds the row.  The five ageing      *)
(* passes and the three writers of a row have to agree on it.  Not so for  *)
(* what a module described before it left the list and no longer describes *)
(* once it is back (BackWithoutIt).                                        *)
NothingOldIsShown ==
    settled => \A r \in Shown(rows) :
        Vouched(r) \/ BackWithoutIt(r) \/ rows[r].age <= 2 * (StaleAfter - 1)

(* What the code says of it: one stretch, for a device or a module         *)
(* (_values_stale_after_seconds).                                          *)
OneSilenceAtMost ==
    settled => \A r \in Shown(rows) : Vouched(r) \/ rows[r].age < StaleAfter

(* And of a module that left the device list: outliving the list is what   *)
(* makes its readings reachable (_stamp_answered_modules).                 *)
GoneModulesAge ==
    settled => \A r \in Shown(rows) :
        rows[r].mod \in Modules \ listed =>
            rows[r].misses < DeadAfter \/ rows[r].age <= 2 * (StaleAfter - 1)

(* A value the scrape still delivers is not taken down because the API     *)
(* left it out, answered it empty, fell silent or dropped its parameter.   *)
ScrapedValuesStay ==
    [][at' # at \/ lists' # lists =>
          \A r \in Shown(rows) :
             rows[r].misses < DeadAfter => r \in DOMAIN rows' /\ rows'[r].shown]_freshVars

(* A reading has one row: two parameters never share one, and none that    *)
(* went into a scraped row is left behind under its own key.               *)
OneRowPerReading ==
    \A p \in DOMAIN merged :
        /\ \A q \in DOMAIN merged : merged[p] = merged[q] => p = q
        /\ merged[p] # p => p \notin DOMAIN rows
(* Rows and readings belong together one to one, and no value stands that  *)
(* nobody delivers any more.                                               *)
ValuesAreCurrent == FreshTypeOK /\ OneRowPerReading /\ NothingOldIsShown
=============================================================================
