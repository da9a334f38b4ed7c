----------------------------- MODULE HourlyReads -----------------------------
(***************************************************************************)
(* The two reads a poll makes once an hour: the device's own view of each  *)
(* weekly programme (CircuitTimes), throttled programme by programme, and  *)
(* the energy statistics, throttled as a whole and read device by device   *)
(* and group by group.                                                     *)
(*                                                                         *)
(* The clock counts quarters of an hour and moves between polls: a poll is *)
(* shorter than one.  Who may read in a cycle is HeavyFetchTurns' matter;  *)
(* here the turn is given.  A programme's row is the one the value read    *)
(* fills: rows merged into scraped ones are left to ValueFreshness.        *)
(***************************************************************************)
EXTENDS Naturals, FiniteSets, FiniteSetsExt

CONSTANTS
    Devices,
    Programmes,     \* records: device, module, parameter
    Declared,       \* those the portal types PROGRAM, the others are JSON
    Groups,         \* statistics groups: records device, group
    Hour, Retry,    \* REFRESH and RETRY_INTERVAL, in quarters of an hour
    Days,           \* bound: days of statistics
    MostEnergy,     \* bound: what one day's reading grows to
    Turns,          \* bound: who gets a turn - schedules, statistics, other
    Statistics,     \* the statistics, as one read
    None

ASSUME HourlyReadsAssumption ==
    /\ Hour \in Nat /\ Retry \in Nat /\ 0 < Retry /\ Retry < Hour
    /\ \A p \in Programmes : p.device \in Devices
    /\ Declared \subseteq Programmes
    /\ \A g \in Groups : g.device \in Devices
    /\ Turns # {} /\ Turns \subseteq {"schedules", "statistics", "other"}
    /\ Days \in Nat \ {0} /\ MostEnergy \in Nat
    /\ None \notin Nat /\ None \notin Devices /\ Statistics \notin Programmes
    /\ None \notin [energy : Nat \cup {None}, day : Nat]

VARIABLES
    progAge,    \* quarters since _last_circuit_times_fetch, by key
    statAge,    \* quarters since last_statistics_fetch
    raw,        \* what the value read left in a programme's row
    detail,     \* the row carries CircuitTimesDay
    row,        \* a group's row: the energy, and its day (last_reset)
    book,       \* the portal's energy by group and day
    today,
    pc,         \* idle, devices, statistics
    turn,       \* who may claim this cycle's turn
    left,       \* devices the loop has not come to
    online,     \* devices whose last status says so
    here,       \* the device being read
    walk,       \* its programmes or groups still to be judged
    tally,      \* what of the statistics run, and of this device, worked
    since,      \* history: quarters since a read was last tried
    ended       \* history: how it ended

gates == <<progAge, statAge>>
rows == <<raw, detail, row>>
portal == <<book, today>>
loop == <<pc, turn, left, online, here, walk, tally>>
history == <<since, ended>>
vars == <<gates, rows, portal, loop, history>>

Reads == Programmes \cup {Statistics}
ProgrammesOf(d) == {p \in Programmes : p.device = d}
GroupsOf(d) == {g \in Groups : g.device = d}
Ages == 0 .. Hour

Fresh == [tried |-> FALSE, worked |-> FALSE, read |-> FALSE, failed |-> FALSE]

(* Never read is as due as an hour ago.                                    *)
Init ==
    /\ progAge = [p \in Programmes |-> Hour] /\ statAge = Hour
    /\ raw = [p \in Programmes |-> None]
    /\ detail = [p \in Programmes |-> FALSE]
    /\ row = [g \in Groups |-> None]
    /\ book = [g \in Groups |-> [n \in 1 .. Days |-> None]] /\ today = 1
    /\ pc = "idle" /\ turn \in Turns /\ left = {} /\ online = Devices
    /\ here = None /\ walk = {} /\ tally = Fresh
    /\ since = [r \in Reads |-> Hour] /\ ended = [r \in Reads |-> "never"]

-----------------------------------------------------------------------------
(* Between polls *)

Older(age) == Min({age + 1, Hour})

QuarterPasses ==
    /\ pc = "idle"
    /\ progAge' = [p \in Programmes |-> Older(progAge[p])]
    /\ statAge' = Older(statAge)
    /\ since' = [r \in Reads |-> Older(since[r])]
    /\ UNCHANGED <<rows, portal, loop, ended>>

(* A day is null until the portal has a reading for it.                    *)
Midnight ==
    /\ pc = "idle" /\ today < Days /\ today' = today + 1
    /\ UNCHANGED <<gates, rows, book, loop, history>>

Consumes(g) ==
    /\ pc = "idle"
    /\ book' = [book EXCEPT ![g][today] =
                    IF @ = None THEN 0 ELSE Min({@ + 1, MostEnergy})]
    /\ UNCHANGED <<gates, rows, today, loop, history>>

(* get_data *)
BeginPoll ==
    /\ pc = "idle" /\ pc' = "devices" /\ left' = Devices
    /\ turn' \in Turns
    /\ UNCHANGED <<gates, rows, portal, online, here, walk, tally, history>>

(* AuthError, ForbiddenError, PollDeadlineExceeded: the poll is over.      *)
PollOver ==
    /\ pc' = "idle" /\ left' = {} /\ here' = None /\ walk' = {} /\ tally' = Fresh
    /\ UNCHANGED <<turn, online>>

-----------------------------------------------------------------------------
(* A device: its status, its values, its programmes *)

DeviceOnline(d) ==
    /\ pc = "devices" /\ here = None /\ d \in left
    /\ left' = left \ {d} /\ here' = d /\ walk' = ProgrammesOf(d)
    /\ online' = online \cup {d}
    /\ \E r \in [ProgrammesOf(d) -> {None, "plain", "week"}] :
          raw' = [p \in Programmes |-> IF p.device = d THEN r[p] ELSE raw[p]]
    /\ UNCHANGED <<gates, detail, row, portal, pc, turn, tally, history>>

(* One that is not is passed over, and its energy ages with it             *)
(* (_forget_stale_device_values): the statistics will not ask it.          *)
DeviceOffline(d) ==
    /\ pc = "devices" /\ here = None /\ d \in left
    /\ left' = left \ {d} /\ online' = online \ {d}
    /\ \E stale \in BOOLEAN :
          row' = [g \in Groups |-> IF stale /\ g.device = d /\ row[g] # None
                                   THEN [row[g] EXCEPT !.energy = None] ELSE row[g]]
    /\ UNCHANGED <<gates, raw, detail, portal, pc, turn, here, walk, tally, history>>

(* Mutant: two circuits of one type share a key. *)
KeyWithoutModule(p) ==
    CHOOSE q \in Programmes : q.device = p.device /\ q.parameter = p.parameter

(* _schedule_throttle_key *)
Key(p) == p

IsSchedule(p) == p \in Declared \/ raw[p] = "week"
ScheduleIsDue(p) == progAge[Key(p)] >= Hour

(* _due_schedules judges one at a time, as the loop comes to it.           *)
NotDue(p) ==
    /\ pc = "devices" /\ p \in walk /\ ~(IsSchedule(p) /\ ScheduleIsDue(p))
    /\ walk' = walk \ {p}
    /\ UNCHANGED <<gates, rows, portal, pc, turn, left, online, here, tally, history>>

NoTurn(p) ==
    /\ pc = "devices" /\ p \in walk /\ IsSchedule(p) /\ ScheduleIsDue(p)
    /\ turn # "schedules"
    /\ walk' = {}
    /\ UNCHANGED <<gates, rows, portal, pc, turn, left, online, here, tally, history>>

Asks(p) ==
    /\ pc = "devices" /\ p \in walk /\ IsSchedule(p) /\ ScheduleIsDue(p)
    /\ turn = "schedules"

Ends(r, how) ==
    /\ since' = [since EXCEPT ![r] = 0]
    /\ ended' = [ended EXCEPT ![r] = how]

(* A failure's stamp: due again after Retry.                               *)
BackDated == Hour - Retry

(* _record_schedule_attempt of a failure drops the row's detail.           *)
BookFailure(p) ==
    /\ progAge' = [progAge EXCEPT ![Key(p)] = BackDated]
    /\ detail' = [detail EXCEPT ![p] = FALSE]

(* The row of a programme only this read feeds gets a placeholder.         *)
ScheduleRead(p) ==
    /\ Asks(p)
    /\ progAge' = [progAge EXCEPT ![Key(p)] = 0]
    /\ detail' = [detail EXCEPT ![p] = TRUE]
    /\ raw' = [raw EXCEPT ![p] = IF @ = None THEN "plain" ELSE @]
    /\ walk' = walk \ {p} /\ Ends(p, "ok")
    /\ UNCHANGED <<statAge, row, portal, pc, turn, left, online, here, tally>>

(* No job, a week without a programme, or any error of its own.            *)
ScheduleFails(p) ==
    /\ Asks(p) /\ BookFailure(p)
    /\ walk' = walk \ {p} /\ Ends(p, "failed")
    /\ UNCHANGED <<statAge, raw, row, portal, pc, turn, left, online, here, tally>>

(* Mutant: a refusal is not booked. *)
ScheduleStopsUnbooked(p) ==
    /\ Asks(p) /\ PollOver /\ Ends(p, "failed")
    /\ UNCHANGED <<gates, rows, portal>>

(* Refused, or out of time: booked on the way out.                         *)
ScheduleStops(p) ==
    /\ Asks(p) /\ BookFailure(p) /\ PollOver /\ Ends(p, "failed")
    /\ UNCHANGED <<statAge, raw, row, portal>>

DeviceDone ==
    /\ pc = "devices" /\ here # None /\ walk = {}
    /\ here' = None
    /\ UNCHANGED <<gates, rows, portal, pc, turn, left, online, walk, tally, history>>

(* Values, or the status, that end the poll.                               *)
PollStops ==
    /\ pc = "devices" /\ here = None /\ left # {}
    /\ PollOver
    /\ UNCHANGED <<gates, rows, portal, history>>

-----------------------------------------------------------------------------
(* get_statistics *)

StatisticsDue == statAge >= Hour
DevicesDone == pc = "devices" /\ here = None /\ left = {}

NoStatistics ==
    /\ DevicesDone /\ ~(StatisticsDue /\ turn = "statistics")
    /\ PollOver
    /\ UNCHANGED <<gates, rows, portal, history>>

AsksStatistics == DevicesDone /\ StatisticsDue /\ turn = "statistics"

(* Stamped before anything is asked; a device that is offline is not.      *)
BeginStatistics ==
    /\ AsksStatistics
    /\ statAge' = 0 /\ pc' = "statistics" /\ left' = online
    /\ UNCHANGED <<progAge, rows, portal, turn, online, here, walk, tally, history>>

InStatistics == pc = "statistics"
Tried == [tried |-> TRUE, worked |-> tally.worked, read |-> FALSE, failed |-> FALSE]

(* Statistics/Refresh lists some of the groups.                            *)
AskDevice(d) ==
    /\ InStatistics /\ here = None /\ d \in left
    /\ left' = left \ {d} /\ here' = d /\ walk' \in SUBSET GroupsOf(d)
    /\ tally' = Tried
    /\ UNCHANGED <<gates, rows, portal, pc, turn, online, history>>

DeviceFails(d) ==
    /\ InStatistics /\ here = None /\ d \in left
    /\ left' = left \ {d} /\ tally' = Tried
    /\ UNCHANGED <<gates, rows, portal, pc, turn, online, here, walk, history>>

(* Mutant: the first entry of the answer. *)
LatestByPosition(g, answer) == Min(answer)

(* latest_statistics_entry: the newest that has a reading, or the newest.  *)
Latest(g, answer) ==
    LET read == {n \in answer : book[g][n] # None}
    IN  Max(IF read # {} THEN read ELSE answer)

(* _store_statistics_group: no reading leaves energy and day alone.        *)
Stored(g, n) ==
    row' = IF book[g][n] = None THEN row
           ELSE [row EXCEPT ![g] = [energy |-> book[g][n], day |-> n]]

(* The days of an answer end with today's.                                 *)
Answers == {n .. today : n \in 1 .. today}

GroupRead(g) ==
    /\ InStatistics /\ g \in walk
    /\ walk' = walk \ {g}
    /\ \/ \E answer \in Answers : Stored(g, Latest(g, answer))
       \/ UNCHANGED row
    /\ tally' = [tally EXCEPT !.read = TRUE]
    /\ UNCHANGED <<gates, raw, detail, portal, pc, turn, left, online, here, history>>

(* Status 3001: not a group of this module.                                *)
GroupInvalid(g) ==
    /\ InStatistics /\ g \in walk
    /\ walk' = walk \ {g}
    /\ UNCHANGED <<gates, rows, portal, pc, turn, left, online, here, tally, history>>

GroupFails(g) ==
    /\ InStatistics /\ g \in walk
    /\ walk' = walk \ {g}
    /\ tally' = [tally EXCEPT !.failed = TRUE]
    /\ UNCHANGED <<gates, rows, portal, pc, turn, left, online, here, history>>

(* A device fails only with every group it was asked for.                  *)
Worked == ~(tally.failed /\ ~tally.read)

StatisticsOfDeviceDone ==
    /\ InStatistics /\ here # None /\ walk = {}
    /\ here' = None
    /\ tally' = [tally EXCEPT !.worked = @ \/ Worked]
    /\ UNCHANGED <<gates, rows, portal, pc, turn, left, online, walk, history>>

(* The finally: nothing worked, so the stamp is moved back.                *)
BookStatistics ==
    statAge' = IF tally.tried /\ ~tally.worked THEN BackDated ELSE statAge

StatisticsEnd ==
    /\ InStatistics /\ here = None /\ left = {}
    /\ BookStatistics /\ PollOver
    /\ Ends(Statistics, CASE ~tally.tried -> "nobody"
                          [] tally.worked -> "ok" [] OTHER -> "failed")
    /\ UNCHANGED <<progAge, rows, portal>>

(* Refused, or out of time, in a request: the finally runs all the same.   *)
StatisticsStop ==
    /\ InStatistics
    /\ (here # None /\ walk # {}) \/ (here = None /\ left # {})
    /\ statAge' = IF tally.worked THEN statAge ELSE BackDated
    /\ PollOver
    /\ Ends(Statistics, IF tally.worked THEN "cut" ELSE "failed")
    /\ UNCHANGED <<progAge, rows, portal>>

-----------------------------------------------------------------------------
Next ==
    \/ QuarterPasses \/ Midnight \/ (\E g \in Groups : Consumes(g)) \/ BeginPoll
    \/ \E d \in Devices :
          DeviceOnline(d) \/ DeviceOffline(d) \/ AskDevice(d) \/ DeviceFails(d)
    \/ \E p \in Programmes :
          \/ NotDue(p) \/ NoTurn(p)
          \/ ScheduleRead(p) \/ ScheduleFails(p) \/ ScheduleStops(p)
    \/ DeviceDone \/ PollStops \/ NoStatistics \/ BeginStatistics
    \/ \E g \in Groups : GroupRead(g) \/ GroupInvalid(g) \/ GroupFails(g)
    \/ StatisticsOfDeviceDone \/ StatisticsEnd \/ StatisticsStop

Spec == Init /\ [][Next]_vars

-----------------------------------------------------------------------------
(* Properties *)

Entries == [energy : 0 .. MostEnergy \cup {None}, day : 1 .. Days]

(* The types: no stamp lies in the future, and what is walked is of the    *)
(* device at hand.                                                         *)
TypeOK ==
    /\ progAge \in [Programmes -> Ages] /\ statAge \in Ages
    /\ raw \in [Programmes -> {None, "plain", "week"}]
    /\ detail \in [Programmes -> BOOLEAN]
    /\ row \in [Groups -> Entries \cup {None}]
    /\ book \in [Groups -> [1 .. Days -> 0 .. MostEnergy \cup {None}]]
    /\ today \in 1 .. Days
    /\ pc \in {"idle", "devices", "statistics"}
    /\ turn \in Turns
    /\ left \subseteq Devices /\ online \subseteq Devices
    /\ here \in Devices \cup {None}
    /\ \A x \in walk : x.device = here
    /\ DOMAIN tally = {"tried", "worked", "read", "failed"}
    /\ since \in [Reads -> Ages]
    /\ ended \in [Reads -> {"never", "ok", "failed", "cut", "nobody"}]

MayAsk(r) ==
    \/ ended[r] = "never"
    \/ since[r] >= (IF ended[r] = "failed" THEN Retry ELSE Hour)

(* However a read ends - refused, out of time, with nothing in it - the    *)
(* portal is asked for it again no sooner than the retry interval after a  *)
(* failure and an hour after a success (_record_schedule_attempt,          *)
(* get_statistics).                                                        *)
AskedCalmly ==
    /\ \A p \in Programmes : Asks(p) => MayAsk(p)
    /\ AsksStatistics => MayAsk(Statistics)

(* A read that failed does not cost a whole hour: it is due again when the *)
(* retry interval is over (the back-dated stamps).                         *)
FailureIsRetriedSoon ==
    pc = "idle" =>
        /\ (ended[Statistics] = "failed" /\ since[Statistics] >= Retry)
              => StatisticsDue
        /\ \A p \in Programmes :
              ended[p] = "failed" /\ since[p] >= Retry => ScheduleIsDue(p)

(* A device whose turn it is has every programme of its own read: a second *)
(* circuit of the same type is not taken for the first                     *)
(* (_schedule_throttle_key).                                               *)
EveryCircuitIsRead ==
    pc = "devices" /\ here # None /\ walk = {} /\ turn = "schedules" =>
        \A p \in ProgrammesOf(here) : IsSchedule(p) => since[p] < Hour

(* The week on show is of the last time the device was asked; one it       *)
(* failed to give is not covered up by an older one.                       *)
DetailIsOfTheLastAttempt == \A p \in Programmes : detail[p] => ended[p] = "ok"

(* The energy on show was read for the day it is booked to: a day without  *)
(* a reading takes neither the day before's energy nor a zero              *)
(* (_store_statistics_group).                                              *)
RowIsADaysReading ==
    \A g \in Groups : row[g] # None /\ row[g].energy # None =>
        /\ book[g][row[g].day] # None
        /\ row[g].energy <= book[g][row[g].day]

(* The day a meter counts from never goes back, whatever days an answer    *)
(* has (latest_statistics_entry).                                          *)
DayNeverGoesBack ==
    [][\A g \in Groups : row[g] # None => row[g]' # None /\ row[g].day <= (row[g].day)']_vars

(* Of the code this is false: a refusal after one device has answered      *)
(* leaves the others the full hour.                                        *)
RefusalShortensTheWait ==
    pc = "idle" /\ ended[Statistics] = "cut" /\ since[Statistics] >= Retry
        => StatisticsDue
(* What is on show was read, when and for what it says: each circuit's     *)
(* week is its own and of its last read, each energy of its day.           *)
ShownWasRead ==
    TypeOK /\ EveryCircuitIsRead /\ DetailIsOfTheLastAttempt /\ RowIsADaysReading

(* The portal is asked on time: not before, and not an hour late.          *)
AskedOnTime == AskedCalmly /\ FailureIsRetriedSoon
=============================================================================
