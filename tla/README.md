# A verification of the WEM Portal integration

TLA+ modules, TLC configurations and TLAPS proofs for the Home Assistant
integration in `src/custom_components/wemportal`. The integration polls a
heating portal through its mobile API and its web pages, writes parameters, and
lives with a portal that blocks the whole IP for hours when it is asked too
much. Its logic is less in what it computes than in *when it may ask, who may
ask, and what an answer that failed is allowed to change*; that is what is
modelled here.

Paths below are relative to `src/custom_components/wemportal`.

## The system

### Components

| Component | Code | State it keeps | Module |
|---|---|---|---|
| Mobile API session | `transport.py`, `wemportalapi.py` | session, `valid_login`, `_deadline`, `_relogin_failure`, `_api_lock`, the 403 pause | `ApiSession`, `PortalTurns` |
| Coordinator | `coordinator.py`, `entity.py` | `num_failed`, `num_auth_failed`, `last_try`, the account's auth streak | `PollCoordinator` |
| Heavy-fetch turns | `models.py` | `_claimed`, `_queue`, `_asked` | `HeavyFetchTurns` |
| Entry lifecycle | `__init__.py`, `coordinator.py` | `runtime_data`, timers, stores, the domain services | `EntryLifecycle` |
| Web scrape, `both` mode | `scraper.py`, `wemportalapi.py` | the two copies of a cookie, the back-off, web refusals of the account | `WebScrape` |
| Poll body | `wemportalapi.py`, `mapper.py` | rows of the entities, answer stamps, ageing | `ValueFreshness` |
| Expert operations | `expert_writer.py`, `expert_controller.py` | the account's expert lock, cookies, refusal streak, one operation's place | `ExpertSession` |
| Expert values | `expert_number.py`, `expert_controller.py` | timer chain, tally, shown values, repair issues | `ExpertPoll` |
| Date writes | `date.py`, `holiday.py`, `entity.py`, `wemportalapi.py` | rows of the api and of the coordinator, calls on their way | `DateWrites` |
| Discovery | `discovery.py`, `coordinator.py` | module cache in memory and on disk, ages, marks of a search | `Discovery` |
| Dialogs | `config_flow.py`, `options_flow.py` | entries' data, `login_commit_lock`, open forms | `EntryDialogs` |
| Schedules, statistics | `schedule.py`, `statistics.py` | stamps of the attempts, weeks, energy rows | `HourlyReads` |
| Migration | `migration.py` | none | not modelled |
| Protocol tables, diagnostics | `utils.py`, `translations.py`, `diagnostics.py`, ... | none | not modelled |

### How they interact

The coordinator's cycle runs `fetch_data` in an executor thread under the api
lock; writes and read-backs take the same lock from threads of their own. The
account (`models.py`) is shared by the entries that log in to it: its auth
streak, refused logins, pauses and expert lock. The poll drives discovery,
schedules and statistics through the turns. Dialogs and the lifecycle replace
all of it under the same entry id.

### What is hard about it

* **Threads that cannot be cancelled.** `asyncio.timeout` cancels the await and
  not the thread, so the worker of an abandoned cycle runs on beside its
  successor, and a cancelled caller's expert operation beside the next.
* **Fields shared by operations.** `_deadline` and `_relogin_failure` belong to
  one poll but live on the object everyone uses.
* **Errors that are swallowed.** The poll is full of shields that keep an
  optional part from costing the readings; what must not be swallowed travels as
  AuthError or as a BaseException, past the code that would book it.
* **Memory with different lifetimes.** Per request, per poll, per session, per
  coordinator (which dies with a failed setup), per account, per process, on disk.
* **Objects that are two.** The api's rows are rebound while the coordinator's
  still stand; a form holds what it read while the entry changes.
* **Counts that stand for time.** Silence in reads, back-off in web intervals,
  thresholds that are acted on when they are reached exactly.

## The modules

Every component has a module; `MC<module>` instantiates it for TLC, and
`<module>_proofs` holds its theorems (those of `EntryLifecycle` are with
`PollCoordinator`, those of `HeavyFetchTurns` with `Discovery`, those of
`ExpertPoll` with `ExpertSession`). In a module the definitions marked "Mutant"
are plausible bugs. No specification uses them; putting one in the place of the
definition it precedes breaks the property PROJECT.json pairs it with, which
shows that the property depends on that piece of code. Variables marked "history"
exist for the properties only; no action depends on them.

At the end of each module its properties are conjoined under a few names, which
the runs check: `Ownership` is the type invariant of `ApiSession` with four
invariants on who the shared fields belong to, and so on. The parts are stated,
and argued for, one by one above.

### ApiSession, PortalTurns

One `WemPortalApi`. A thread is a value of `Polls`, `Writers`, `Rereads`,
`Resets` or `Closes` by the operation it runs, again and again. `lock`,
`session`, `validLogin`, `devicesFetched`, `deadline`, `reloginFailure` are the
object's fields, `blocked` the pause after a 403, `refusedLogins` the account's;
`pc`, `stage`, `call` say where a thread is. A request is four steps
(`StartCall`, `Gate`, `Send`, `Answer`) because other threads act between them:
the pause may begin in the second of courtesy, the budget may run out. A login
is two. All an answer changes, leaving the lock included, is one step. Whether a
shield of the poll swallows an error is left open, except for AuthError, which
none does. `PortalTurns` is what the lock promises - one request at a time, the
holder's - and `TakesTurns` the refinement; `ExpertSession` states the same of the
account's expert lock.

### PollCoordinator

A cycle is `BeginCycle` (or `StartSetup`, whose first refresh is a cycle), one
of the endings of `fetch_data`, possibly the recovery, the store writes, and
`EndCycle`; `TimesOut` may come at any of these. `verdict` is what the handler
raised or returned; `lastOk` and `shown` are Home Assistant's
`last_update_success` and what entities last were told `available` is. Home
Assistant is external: a failed first refresh discards the coordinator,
listeners hear of a success and of the first failure, ConfigEntryAuthFailed ends
the polling until the user answers. `FetchBusy` is every ApiBusyError that says
nothing of the portal: the lock that was not to be had, and in `web` mode the
account's wait after a refused web login (`ScrapeHeldBack`), which setup after
setup may meet.

### HeavyFetchTurns

The class with the three callers that share it, in the order `get_data` comes by
them. `due` abstracts the callers' throttles. `BeginCycle(FALSE)` is a tick that
never reads the API, `CutShort` a poll that an error or the deadline ends
between two callers. `Kept` is the list comprehension of `new_cycle`.

### EntryLifecycle

Every setup of an entry builds a new generation of api, coordinator and runtime
data; an action is what the code does from one await to the next. `phase`
follows `async_setup_entry`, `async_unload_entry` and `async_remove_entry`,
including a platform unload that is refused or raises and a setup taken back;
`cycle` and `loose` are polls and store writes that end when they like. `Owns` is
`_owns_its_entry`.

An unload that fails is final: Home Assistant neither tries again nor sets the
entry up anew before a restart. It can still be removed, and is then taken as it
stands (`dropping`, `abandoned`): `async_remove_entry` deletes the stores and the
issue under a coordinator that polls on. If the unload raised, `unloading` is
still set and nothing more is written. If it was refused, `abort_unload` has
lifted the mark, the coordinator still owns its entry and creates the store anew.
The properties say which of the two it is; what the docstring promises is under
"Deviations". The timer goes with the unload's return (`Closed`), as one listener
is the entry's and not an entity's.

### WebScrape

One tick is the shorter of the two intervals. `Tick`, `Due` and `CountsDown` are
`_collect_both`; a scrape is request by request (`reuse`, `login`, `post`,
`expert`), as several apis of an account interleave there. Every failing exit of
`fetch_webscraping_data` is `Fails`, with its reason; `CutShort` is the deadline,
which passes all handlers. An api whose entry is not loaded is absent.

### ValueFreshness

The rows of one device, their three writers (scrape, value read, schedule fetch)
and the five passes that take values down. Ages are counted in reads, misses in
failed scrapes. Programmes are of the JSON type; weeks are fetched only for rows
on show; statistics and status rows are left out; `described[m] = {}` stands for
a module not described and for one described as empty.

### ExpertSession, ExpertPoll

`ExpertSession` is one account's expert path: writes, batches, discovery and
module lists, each answer through `_check_response`, the gates between two
requests, the cookies of each entry and the streak of refusals. The value at the
portal is abstracted to whose write it is (`param`).

`ExpertPoll` is one entry's: the timer chain, `_register_batch_failure` and the
tally, entities that are added, renamed and removed, and the writes by entity
and by service. A value is the number of the portal's change it shows. A request
and the taking of the lock are one step; results reach the event loop in the
order the lock was released. A confirmed write of one parameter resets the tally
of the whole read (`expert_controller.py:576`), so the cycles its siblings have
gone unconfirmed are counted from there on: `unseen` in `UnconfirmedValuesGo`.

### DateWrites

A reading is an object: `linked` are the dates whose row is the same object in
`api.data` and in the coordinator's. Writes hold the lock from companions to
publication; a read-back is atomic under the lock; its verdict and the blanking
come later, in the event loop (`Settle`). Every value answer that names the
module, to a poll or to a read-back, may leave dates out, as the portal does once
no holiday is set: those rows are blanked where they are (`Replace`,
`_clear_unanswered`), also under a call that has not settled. A call may be
cancelled at either await after its write was accepted (`Cancelled`); a read-back
whose thread has started runs to its end. A row without a day is `Blank` when an
answer left it so, and `Gone` when a call took its day down. A login is part of a
write that is refused. The device stays listed, its dates described, and a date
that is carried has a day. A write whose answer was lost leaves its dates
`foreign`: nobody here knows what the portal holds.

### Discovery

`known`, `fresh` and `disk` are the module cache, the new one while a device
list is read, and the store. The worker may be stopped between any two of its
steps; store writes wait for their lock in order. The clock moves between cycles
only; the turn is given or refused (`HeavyFetchTurns` says which); devices are
`readable` if enabled and online.

### EntryDialogs

Dialogs that add, reauthenticate, reconfigure and configure entries, with forms
that stay open; `queue` is the FIFO `login_commit_lock`. Slots and caches are
abstracted to the account whose heating system they name. Home Assistant runs
one setup or unload of an entry at a time and refuses to unload one that is
setting up; a removed id does not come back. `tried` are the logins the portal
has accepted.

### HourlyReads

The clock counts quarters of an hour, between polls. Each programme has its
stamp, under the key of its circuit; the statistics have one. `left`, `here` and
`walk` are the loops over devices and their programmes or groups, which a
refusal or the deadline may leave anywhere. The turn is given. A reload, which
forgets the stamps, is not modelled.

## The runs

A behaviour of an instance is about one *cast*: which of the threads, entries,
operations or parameters are on stage. The casts are given in the MC modules;
all of them are checked by one run.

| Run | What is on stage | What it shows | Size |
|---|---|---|---|
| `api_session` | two polls; a poll and a recovery; a write, a read-back and a recovery; a poll, a write and the teardown | `Ownership` of lock, deadline, stored failure and login; `NoRequestAfterFailedRelogin`; `AtMostOneSlips` past a 403; `SendFindsASession`; `TakesTurns`; `ThreadsMakeProgress` | 144,000 states |
| `poll_coordinator` | every ending of a cycle, timeouts, recoveries, reauths, failing setups | `ViewIsTrue`: entities, Home Assistant and counts agree; `ReauthIsEarned`, by a full row and at once; `PollingNeverStops`; `WrongPasswordEscalates` | 32,000 |
| `heavy_turns` | the three kinds, due in any pattern, polls cut short | `TurnsAreFair`: one burst per cycle, a turn for everybody; `PlacesAreKept` | 4,900 |
| `entry_lifecycle` | two entries of one account, one of them built twice; or one alone, reloaded and retried, with stores; unloads that succeed, are refused or raise, and removals after each | `EntriesServeOrAreGone`; `OldTailsChangeNothing`; `GoesInOrder`; `TransitionsEnd` | 240,000 |
| `web_scrape` | an api of each mode, one or both of them | `FailuresAreKept` where the next scrape looks; `ReadsArePaced`; `ScrapesComeBack` | 452,000 |
| `value_freshness` | a reading and a programme of one module; or two modules that come and go | `ValuesAreCurrent`: one row per reading, none shown beyond its time; `ScrapedValuesStay` | 937,000 |
| `expert_session` | a write against a batch, with unloads; a module list against a discovery | `SessionsAreClean`; `StoppedMeansUntouched`; `NoLoginAfterAnAnswer`; `OperationsEnd`, in turns | 250,000 |
| `expert_poll` | two readable parameters; one of each kind; one written on both routes; or two, of which one is written | `ReportsMatch`: issues for whom they are due, one chain; `ShownIsConfirmed`; `ChainGoesOn` | 468,000 |
| `date_writes` | the service, with a day set elsewhere; two date entities; or the service and an entity that set one date | `RowsAreThePortals`; `UnconfirmedIsAwaited`; `WritesAreHonest` | 2.3 million |
| `discovery` | a module that the portal may not list; or searches, with a device offline | `AskedInTime`; `SearchesAreResumed`; `NoListIsLost` | 1.1 million |
| `entry_dialogs` | reauth, reconfigure and options of one entry; options of one that moves; a move against a move, or an added entry | `LoginsAreSound`; `InstallationsStayApart`; `LockIsHandedOn` | 407,000 |
| `hourly_reads` | programmes of two circuits; the statistics of two devices; or one group's energy over three days | `ShownWasRead`; `AskedOnTime`; `DayNeverGoesBack` | 639,000 |

Deadlock is checked except in `entry_dialogs` and `entry_lifecycle`, where
nothing is left to do once the entries are removed or built as often as allowed.

### Bounds, and why they are enough

* `ApiSession`: at most three threads at a time - a holder, one that interferes,
  one that profits. `refusedLogins` is capped at 2: the code asks whether a
  refusal is the first.
* `PollCoordinator`: `Timeout = 4` and `LockWait = 3` keep the order of 360 s and
  330 s; `Threshold` and `Tolerated` are the code's; the back-off's growth and
  cap are both reached; `MaxFailed` is where the count makes no more difference.
* `HeavyFetchTurns`: none.
* `EntryLifecycle`: an entry is built twice at most (`MaxGen`): what is asked is
  what one generation does to the next.
* `WebScrape`: `MaxFailures = 3` failures in a row are told apart, beyond the
  second, which the cookie and the repair issue turn on; where two apis
  interleave, one of them fails once. `WebInterval = ApiInterval = 2` leaves a
  tick between two reads.
* `ValueFreshness`: `StaleAfter = DeadAfter = 2`, so that a silence is shorter,
  as long, and longer than the limit. `LosesAll = FALSE` in the run: see
  `GoneModulesAge` below.
* `ExpertSession`: two items in a batch, one further navigation page, two tries
  for a form and for a verification; the streak is told apart up to 2.
* `ExpertPoll`: both thresholds 2 (the code's proportions, every order of an
  outage and a miss), two changes at the portal, the history of unanswered
  cycles up to `MostUnseen = 4`, past what the property allows. Where a write of
  one parameter meets the count of another, one change suffices, by the service;
  what unloads and siblings do to a write is in the cast of one parameter.
* `DateWrites`: two days; a date entity has one write accepted (`Once`), the
  service writes again and again. The casts with entities start from one day, and
  nobody sets days elsewhere there: a single date is only ever compared with
  itself. Two entities ask for the other day than they start from. Only the end
  of the holiday is set elsewhere (`Elsewhere`). Where the service and an entity
  set one date, the device list is read once. Answers leave out any dates, and
  callers are cancelled, in every cast.
* `Discovery`: the histories are about the first module (`Watched`), which may be
  left out (`Omitted`); the second may be unreachable (`Offline`). In the cast of
  searches it always describes something. `Interval = 2`, `Retry = 1`.
* `EntryDialogs`: nothing tells accounts, passwords or modes apart but equality;
  one entry is reloaded for no reason (`Reloaded`), where another is added.
* `HourlyReads`: `Hour = 3`, `Retry = 1`, so that a retry lies strictly inside an
  hour twice; three days, of which answers deliver any first few that end today.

### Fairness

* `ApiSession`: weak fairness for each thread's step - an executor thread runs, a
  request ends by its own timeout, a lock wait by its 330 s - and for each poll's
  clock. Starting an operation, or the end of a pause, is not assumed. The one
  strong fairness (`RunsOutOfCalls`) is for a poll during a pause: each of its
  calls fails at the gate, so only the end of its finite list of calls ends it.
* `PollCoordinator`, `HeavyFetchTurns`, `WebScrape`: Home Assistant's timers, its
  setup retries, and requests that end. That the portal answers is *not*
  assumed.
* `EntryLifecycle`: setups and unloads go from await to await, the newest fetch
  and a waited-for save end.
* `ExpertSession`, `ExpertPoll`: a worker's thread goes on and its requests end,
  the timer that is armed fires.
* `EntryDialogs`: whoever holds the commit lock goes on. That a user answers a
  form is not assumed.

## Deviations

Where a comment, docstring or test says more than the code does, the properties
above state what holds, with the exception named; the stronger statement is kept
in the module beside it. None is checked by a run, as it does not hold. Each
was found as a counterexample.

| Statement | Where | What happens |
|---|---|---|
| a request always finds a session, read-backs included | `wemportalapi.py:1480`, `transport.py:428` | a recovery between a write and its read-back drops the session; the read-back does not log in and meets the assertion. `SendFindsASession` is stated of polls and writes only |
| no session is left after `close_transport` (`NoSessionAfterClose`) | `transport.py:347` | a queued worker logs in afterwards |
| a waiter gives up before its cycle does (`WaiterGivesUpFirst`) | `const.py:28`, `coordinator.py:754` | the recovery starts waiting late in the cycle |
| one failed cycle is no outage (`OneFailedCycleIsNoOutage`) | `coordinator.py:454`, `entity.py:374` | a timeout in the store writes of a failed cycle counts it twice |
| only a kind no longer due loses its place (`OnlyTheIdleLeave`) | `models.py:164` | a poll cut short before it came by a kind |
| nothing of a removed entry is left (`RemovalLeavesNothing`) | `__init__.py:805`, `coordinator.py:251` | an entry removed after it refused its unload still owns itself and writes the deleted store again; so does the thread of a timed-out save |
| no write in flight after the wait (`NoWriteInFlight`) | `coordinator.py:289` | the timeout cancels the await of a save whose thread goes on |
| one silence at most (`OneSilenceAtMost`) | `wemportalapi.py:2193` | the module's silence and then the device's, one after the other |
| modules off the list age (`GoneModulesAge`) | `wemportalapi.py:2203` | not when the rest of the list describes nothing, nor a programme's week while the device fails |
| what a new description leaves out goes (`BackWithoutIt`) | `mapper.py:641` | a module that was off the list comes back without a parameter: there is no old description to compare with |
| an abort after the post means the value was taken (`StoppedAfterMeansTaken`) | `expert_writer.py:1796` | HTTP 200 is all that was seen |
| only an answer ends a refusal streak (`StreakEndsByAnAnswer`) | `expert_writer.py:840` | a batch whose requests all got lost ends it |
| nothing refills an expert value but a read (`EveryValueGoes`) | `expert_controller.py:442` | a refused write does, and it then stands for the outage |
| every verdict was heard (`EveryVerdictWasHeard`) | `holiday.py:215`, `date.py:166` | between a rebind and the next published poll the verdict looks at other objects; a call of the same date may have put its day there, or taken it down. An answer counts whoever it went to: one without the date, to another date's read-back or to a poll, has a confirmed write reported as not kept |
| whatever ends the read-back, the day does not stand (`CutOffIsForgotten`) | `wemportalapi.py:1503` | ApiBusyError leaves before the try; so does a caller cancelled at `date.py:141`, `date.py:145`, `holiday.py:183` or `holiday.py:209` |
| both days are blanked (`MissedIsForgotten`) | `holiday.py:224` | in the coordinator's rows, not in the api's |
| no companion repeats it (`RepeatedIsForgotten`) | `entity.py:269` | a sibling's queued write reads it before the blanking |
| a refusal is remembered (`RefusalIsRemembered`) | `discovery.py:535` | until the next device list |
| a rescan is heard (`RescanIsHeard`) | `options_flow.py:150` | not by the request that is under way |
| the first cycle reads what is missing (`FirstCycleReadsWhatIsMissing`) | `discovery.py:113` | and every list that has expired |
| slots stay with the login (`SlotsStayWithTheLogin`) | `options_flow.py:339` | an entry that moves away and back (`strayed`) |
| a move leaves nothing (`MoveLeavesNothing`) | `config_flow.py:359` | a reload while the stores are removed (`raced`) |
| a refusal shortens the wait (`RefusalShortensTheWait`) | `statistics.py:490` | not if another device's read has worked |

`CrossingIsPublished` is one-sided: after a good fetch whose store writes run
into the timeout the count is one, and tolerated, while entities that were
unavailable before stay so until the next good cycle.

## The proofs

`tlapm` checks 8 modules. A theorem holds for every value of the constants that
meets the named assumption of the module (`ThreadsAssumption`,
`ScrapeAssumption`, ...); these say what kind of value a constant is and which of
two durations is the longer, and TLC evaluates them in the runs.
`HeavyFetchTurns` has no constants: its three kinds are the code's. Three modules
extend two components that belong together; each theorem rests on the assumption
of its own. One theorem has a hypothesis besides: `OldValuesGo`, see there.

The shape is the same everywhere: an invariant `...Inv`, one lemma for `Init`,
one per action, one theorem `...Invariance` that combines them, and then what the
runs check as a consequence. Properties are seldom inductive; the paragraphs say
what had to be added and why.

**`ApiSession_proofs`.** `ThreadsAssumption` makes the five sets of threads
disjoint and `Free` none of them. `LockInv` says that one thread is inside and
the deadline the holder's (`MutualExclusion`, `DeadlineIsOwn`). `SlipInv`: once
the request that slips into a pause is sent, nobody is left between the gate and
the wire (`PauseHolds`). `ReloginInv` adds to the property where a poll that has
given up may be, and that a re-login only happens at a stage whose requests the
stored failure stops (`NothingAfterFailedRelogin`). `LoginInv` and `SendInv` put
an open session under every login that stands and every poll or write that has
come past one; a reset needs the lock, so it falls between two operations
(`SendsOnASession`). `ImplementsTurns` is the refinement of `PortalTurns`: a step
of the thread inside puts a request on the wire, takes it off or lets go, and
`InsideStep` shows that each of these is a step there or a stutter.

**`PollCoordinator_proofs`.** `StreakInv` relates the coordinator's count of
AuthErrors, the account's and the row the property counts, per phase of the
entry: what is counted is no more than what happened. `RowInv` is the converse,
across failed setups, refused logins and busy cycles. The two make
`ReauthOnAFullRow` (`ReauthIsEarned`): a reauth is asked for by the AuthError that
fills the row, and by nothing else - the safety half of `WrongPasswordEscalates`.
`ViewInv` says what `lastOk`, `shown` and `numFailed` have to do with each other
at each stage of a cycle; between two cycles it is `BeliefIsTrue` (`ViewIsTrue`).

The same module proves about `EntryLifecycle`, whose entries build these
coordinators. `LifecycleInv` has four parts for an
entry: `Keeps`, what it has at each stage of a setup, an unload, or after one
that failed; `Grows`, that the
generation on its way is newer than every unloaded one; `Tails`, that an
unfinished cycle is of a published generation and a write that is waited for of
the newest, in an entry that may write; `Traces`, what the issue and the streak may be marked with. A step
touches one entry, so a lemma says once what stays of the others (`StillKeeps`);
`OwnerIsNew` is the heart: a generation that passes `_owns_its_entry` is the
newest one, not yet unloaded. `ServicesInv` ties the domain services to the
stages that hold them. `EntriesServe`, `OldTailsAreHarmless` and `GoingIsOrderly`
are `EntriesServeOrAreGone`, `OldTailsChangeNothing` and `GoesInOrder`.
`OneWriteIsWaitedFor`: no cycle of an entry that leaves begins to save, so that an
unload waits for the write it met and not for the polls that go on.

**`Discovery_proofs`.** `Spared` makes the history of `LeftAlone` inductive: the
time a description is still to be left alone plus its age is at most the
interval, in the lists in use and in those being built. `RefusalInv` says where a
refusal is remembered, and `Sound` that what is remembered is due within the
retry. `TurnInv`: a turn taken for descriptions that has not asked yet still has
a module to ask. From these comes `AskedInTime` (`InTime`). `MarkInv` follows the
marks of a search: they stand in the lists in use and in every image that waits
to be written from the newest rescan's on; `KeepInv` does the same for what was
found, in every image from the cycle's own on, which `WritesInv` shows to be one.
A failed write, a new session or a restart therefore falls back on an image that
still has what the property asks of it (`SearchesResume`). `ListsAreKept` is
`NoListIsLost`.

The same module proves about `HeavyFetchTurns`, where discovery's turns come
from. The bound on waiting is one invariant: the times a
kind has been turned away, plus its place in the queue, is at most `Most` of it,
which is four, one less once the cycle is claimed, one less until the kind has
asked in it (`WaitInv`). As nobody queues twice, the recursive function `Kept` is
unfolded three times and no induction is needed. `FairTurns` is `TurnsAreFair`;
`OldestComesFirst` is the safety half of `PlacesAreKept`. `AnswersStand`: the first
answer a kind gets in a cycle is the one for the rest of it; with one burst per
cycle, this is why `Discovery` and `HourlyReads` settle once per poll who has the
turn.

**`WebScrape_proofs`.** `CookieOK` says where the two copies of a session are
gone once its end was told, `RefusedOK` that the account counts the refusals no
pause has followed. `BackInv` carries the back-off: the time since the last
failure is at least the web intervals already counted off the wait, plus the
running one's ticks; so a wait of zero means that all of it has gone by.
`FailuresAreRemembered` is `FailuresAreKept`, `PacedReads` is `ReadsArePaced`.

The same module proves about `ValueFreshness`, whose rows the scrape shares with
the API's reads. The invariant is `FreshInv`: `HomesInv` says under which
of two rows a parameter's values can be, `PageInv` that exactly the rows of the
last page count the scrape's failures, `OwnerInv` whose value a row shows, and
`TracedInv` that a parameter with a row can still be walked by the ageing: its
module describes it, describes nothing, or came back without it. `AgeInv` is what
makes `NothingOldIsShown` inductive: while a module's silence is shorter than the
limit, a value nobody else vouches for is no older than that silence; while the
device's is, the value is older by less than one limit more - so that two limits
bound it once both have passed. Every step keeps `AgeInv` unless nothing is
described after it, hence the hypothesis of `OldValuesGo`: `ValuesAreCurrent`
holds in every behaviour in which something is described all along
(`SomethingIsDescribed`). Where no device list drops the last described module
(`~LosesAll`, as in the run) every behaviour is such a one
(`OldValuesGoFromAListThatLasts`); elsewhere the rows may keep their values, which
is `GoneModulesAge` under "Deviations". `ReadingsHaveOneRow` and
`TheScrapeKeepsItsRows`, which is `ScrapedValuesStay`, do without.

**`ExpertSession_proofs`.** `Good` says of an operation's place that it has
something left to ask for, and that an answer other than the expected page has
been met only past the pages that lead to its own requests; `LockOK` that whoever
works holds the lock. From these come `CleanSessions` (`SessionsAreClean`),
`StoppedIsSafe`, `NoPasswordAfterAnAnswer` and `WorkEndsTheStreak`.
`ImplementsTurns` is the second implementation of `PortalTurns`, by the account's
lock: an answer settles the turn or goes on in it (`AnswersAreIn`), a closed gate
leaves it, a caller that goes changes nothing. `WorkRunsOut` is why an operation
ends: `Remaining` lists what it has before it - the login to fall back on, pages,
items, the post, tries - and each of its steps makes that less in the
lexicographic order (`NoWayBack`). Of `OperationsEnd` only the fairness of the
thread is left to TLC.

The same module proves about `ExpertPoll`, the entry whose entities work through
such sessions. `CountedInv` is what makes `UnconfirmedValuesGo` inductive: every cycle since a
value was confirmed is in one of two counts, of which `dead` restarts with each
miss, so their number is at most `fails * DeadCycles + dead`, and the value has
gone before either count is full; an id that sits out has no value to lose.
`TallyInv` has no miss blamed on an outage, because a read that came to its end
has an entry for every readable id it asked (`NobodyIsBlamed`). `TakenInv` puts
one result in the inbox for whoever is done, and `NewerInv` says of a poll's
result that it is not older than the writes that will be applied before it
(`Ahead`): the inbox is first in, first out, which is why a read that began before
a write cannot undo it. `ReportsMatching` and `ShownStaysConfirmed` are
`ReportsMatch` and `ShownIsConfirmed`. An earlier form of `UnconfirmedValuesGo` was
refuted on the way: it did not allow for a sibling's confirmed write, which the
casts of the run had not combined with a second parameter.

**`DateWrites_proofs`.** `RowsInv` adds to the rows what a cycle has measured and
not yet published, and what a write in flight brings along (`RowsAreTrue`,
`NoDateIsTakenBack`). `AskedInv` names the call that will take an unconfirmed day
away (`UnconfirmedIsWaitedFor`); a day whose last such call left without settling
is under another tag (`CutOff`, and the deviations above). `VerdictInv`: where the
row that a call is to judge by is what an answer left, the call has heard that
answer, as the day it asked for or as something else. `HonestWrites` is
`WritesAreHonest` for any calls, those of one date included. It exempts a row that
holds the day of another write or that another call of the date took down; without
that a write the portal confirmed can be reported as not kept. "Something else"
includes an answer that leaves the date out, to whichever call or poll: a call that
has read its day back is told "not kept" when such an answer arrives before it
settles.

**`EntryDialogs_proofs`.** `ClaimsOK`: a login that a dialog is on its way to is
nobody's yet and claimed once, which is why no two entries share an account.
`KeptOK` follows the modules an entry runs on and has cached through a move.
`QueueOK` says who waits for the lock, `LoginInv` what a dialog that waits has
had accepted and whose slots it carries. `SoundLogins` and `InstallationsApart`
are `LoginsAreSound` and `InstallationsStayApart`; the histories that the code
does not guard (`strayed`, `raced`) are exempted in the properties themselves.

**`HourlyReads_proofs`.** `StampsOK`: a stamp tells how its read ended, now or as
much earlier as makes a retry due. `WalkInv`: what the loop is past is no
schedule or was tried within the hour. `DayInv`: a row's day has been, and the
portal keeps its reading. `WhatIsShown`, `OnTime` and `MeterDaysGoForward` are the
three properties of the run.

## What is only model-checked

* **Everything that must eventually happen**: `ThreadsMakeProgress`,
  `PollingNeverStops`, `WrongPasswordEscalates`, the liveness half of
  `PlacesAreKept` and of `OperationsEnd`, `ScrapesComeBack`, `LockIsHandedOn`,
  `ChainGoesOn`, `TransitionsEnd`. These rest on fairness, hence on ENABLED, which
  the prover does not handle.

Of four of them the safety core is proved: `ReauthOnAFullRow` for
`WrongPasswordEscalates`, `OldestComesFirst` for `PlacesAreKept`, `WorkRunsOut` for
`OperationsEnd`, `OneWriteIsWaitedFor` for the unloads of `TransitionsEnd`.

Every safety property that a run checks is also a theorem; the hypothesis of
`OldValuesGo` is the only one.

## What is not modelled

* `migration.py` runs in one step of the event loop before an entry's first
  setup and is about the formats of stored names.
* Protocol tables, translations and diagnostics hold no state.
* How pages and JSON are parsed, numbers formatted and entities constructed: an
  answer is what it was understood as.
* The setters of numbers, selects and switches call the same `change_value` as
  `ApiSession`'s writes and have no read-back; `DateWrites` has the one that does.
* The components meet in the checks only where a module has both sides (the
  turns of the lock, the account's streak, the cookies). There is no model of
  the whole integration: its parts share few fields, and each module leaves what
  the other components may do to them open.

## What could be added

* One specification that has the turns, the descriptions and the hourly reads of
  a poll together, with `Discovery` and `HourlyReads` as its parts; so far
  `AnswersStand` justifies their one turn per poll.
* Writes of numbers, selects and switches beside the ageing of the rows they
  write: `ValueFreshness` has them as `Write`, without a queue of siblings.
