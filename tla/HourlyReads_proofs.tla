------------------------- MODULE HourlyReads_proofs -------------------------
(* Proofs about HourlyReads, for any devices, programmes and groups and    *)
(* any hour and retry interval its assumption allows.                      *)
EXTENDS HourlyReads, WellFoundedInduction, TLAPS

USE HourlyReadsAssumption

-----------------------------------------------------------------------------
(* The newest and the oldest of a set of days *)

LEMMA NatMin ==
    ASSUME NEW S, S \subseteq Nat, S # {}
    PROVE  \E x \in S : \A y \in S : x <= y
<1>. DEFINE R == {ss \in Nat \X Nat : ss[1] < ss[2]}
<1>1. IsWellFoundedOn(R, Nat)
  BY NatLessThanWellFounded, Zenon DEF OpToRel
<1>2. PICK x \in S : \A y \in S : ~(<<y, x>> \in R)
  <2>. HIDE DEF R
  <2>. QED BY <1>1, WFMin
<1>3. \A y \in S : ~(y < x)
  BY <1>2
<1>. QED
  BY <1>3

LEMMA NatMax ==
    ASSUME NEW n \in Nat, NEW S, S \subseteq 0 .. n, S # {}
    PROVE  Max(S) \in S /\ \A y \in S : y <= Max(S)
<1>. DEFINE U == {n - x : x \in S}
<1>1. U \subseteq Nat /\ U # {}
  <2>1. U \subseteq Nat
    OBVIOUS
  <2>2. PICK x \in S : TRUE
    OBVIOUS
  <2>3. n - x \in U
    OBVIOUS
  <2>. QED BY <2>1, <2>3
<1>2. PICK u \in U : \A v \in U : u <= v
  <2>. HIDE DEF U
  <2>. QED BY <1>1, NatMin
<1>3. PICK x \in S : u = n - x
  OBVIOUS
<1>4. \A y \in S : x >= y
  BY <1>2, <1>3
<1>. QED
  BY <1>3, <1>4 DEF Max

LEMMA OlderIs ==
    ASSUME NEW a \in Ages
    PROVE  Older(a) = IF a < Hour THEN a + 1 ELSE Hour
BY DEF Older, Min, Ages

-----------------------------------------------------------------------------
(* The inductive invariant *)

(* How old the stamp is once the read has ended: as old as the attempt, or *)
(* as much older as lets a failure be tried again.                         *)
Stamp(how, age) ==
    IF how # "failed" THEN age
    ELSE IF age + BackDated < Hour THEN age + BackDated ELSE Hour

GatesOK ==
    /\ progAge \in [Programmes -> Ages] /\ statAge \in Ages
    /\ since \in [Reads -> Ages]
    /\ ended \in [Reads -> {"never", "ok", "failed", "cut", "nobody"}]
    /\ \A p \in Programmes : ended[p] \in {"never", "ok", "failed"}

RowsOK ==
    /\ raw \in [Programmes -> {None, "plain", "week"}]
    /\ detail \in [Programmes -> BOOLEAN]
    /\ row \in [Groups -> Entries \cup {None}]
    /\ book \in [Groups -> [1 .. Days -> 0 .. MostEnergy \cup {None}]]
    /\ today \in 1 .. Days

LoopOK ==
    /\ pc \in {"idle", "devices", "statistics"} /\ turn \in Turns
    /\ left \subseteq Devices /\ online \subseteq Devices
    /\ here \in Devices \cup {None}
    /\ \A x \in walk : x.device = here /\ x \in Programmes \cup Groups
    /\ tally \in [tried : BOOLEAN, worked : BOOLEAN, read : BOOLEAN, failed : BOOLEAN]

(* Every stamp tells how its read ended; the statistics' is set before the *)
(* first request and settled on the way out.                               *)
StampsOK ==
    /\ \A p \in Programmes : progAge[p] = Stamp(ended[p], since[p])
    /\ statAge = (IF pc = "statistics" THEN 0
                  ELSE Stamp(ended[Statistics], since[Statistics]))

IInv ==
    /\ GatesOK /\ RowsOK /\ LoopOK /\ StampsOK
    /\ DetailIsOfTheLastAttempt /\ RowIsADaysReading

LEMMA InitIInv == Init => IInv
<1>. SUFFICES ASSUME Init PROVE IInv
  OBVIOUS
<1>. USE DEF Init
<1>1. GatesOK
  BY DEF GatesOK, Ages, Reads
<1>2. RowsOK /\ LoopOK
  BY DEF RowsOK, LoopOK, Fresh
<1>3. StampsOK
  BY DEF StampsOK, Stamp, Reads
<1>. QED
  BY <1>1, <1>2, <1>3 DEF IInv, DetailIsOfTheLastAttempt, RowIsADaysReading

(* The end of a poll, wherever it comes.                                   *)
LEMMA PollOverStep == LoopOK /\ PollOver => LoopOK' /\ pc' = "idle"
<1>. SUFFICES ASSUME LoopOK, PollOver PROVE LoopOK' /\ pc' = "idle"
  OBVIOUS
<1>1. Fresh \in [tried : BOOLEAN, worked : BOOLEAN, read : BOOLEAN, failed : BOOLEAN]
  BY DEF Fresh
<1>2. pc' = "idle" /\ left' = {} /\ here' = None /\ walk' = {} /\ tally' = Fresh
  BY DEF PollOver
<1>3. turn' = turn /\ online' = online
  BY DEF PollOver
<1>. QED
  BY <1>1, <1>2, <1>3 DEF LoopOK

(* What a step that leaves the gates and the rows alone has to keep.       *)
LEMMA LoopStep ==
    ASSUME IInv, LoopOK',
           UNCHANGED <<gates, rows, portal, history>>,
           pc' = "statistics" <=> pc = "statistics"
    PROVE  IInv'
<1>. USE DEF IInv, gates, rows, portal, history
<1>1. GatesOK' /\ RowsOK'
  BY DEF GatesOK, RowsOK
<1>2. StampsOK'
  BY DEF StampsOK, Stamp
<1>. QED
  BY <1>1, <1>2 DEF DetailIsOfTheLastAttempt, RowIsADaysReading

(* A read that ends is stamped as its end says; the poll goes on, or is    *)
(* over.                                                                   *)
LEMMA ScheduleStep ==
    ASSUME IInv, LoopOK', NEW p \in Programmes, NEW how \in {"ok", "failed"},
           pc # "statistics", pc' # "statistics",
           Ends(p, how),
           progAge' = [progAge EXCEPT ![p] = Stamp(how, 0)],
           detail' = [detail EXCEPT ![p] = how = "ok"],
           raw' \in [Programmes -> {None, "plain", "week"}],
           UNCHANGED <<statAge, row, portal>>
    PROVE  IInv'
<1>. USE DEF IInv, portal, Ends
<1>1. Stamp(how, 0) \in Ages
  BY DEF Stamp, BackDated, Ages
<1>3. Statistics # p /\ Statistics \in Reads /\ p \in Reads /\ 0 \in Ages
  BY DEF Reads, Ages
<1>2. GatesOK' /\ RowsOK'
  <2>1. GatesOK'
    BY <1>1, <1>3 DEF GatesOK, Reads
  <2>2. (how = "ok") \in BOOLEAN
    OBVIOUS
  <2>. QED
    BY <2>1, <2>2 DEF RowsOK
<1>4. StampsOK'
  BY <1>3 DEF StampsOK, GatesOK, Stamp, Reads
<1>5. DetailIsOfTheLastAttempt'
  BY <1>3 DEF DetailIsOfTheLastAttempt, GatesOK, RowsOK, Reads
<1>. QED
  BY <1>2, <1>4, <1>5 DEF RowIsADaysReading

(* The statistics run is over.                                             *)
LEMMA StatisticsStep ==
    ASSUME IInv, LoopOK', NEW how \in {"ok", "failed", "cut", "nobody"},
           pc = "statistics", pc' = "idle",
           Ends(Statistics, how), statAge' = Stamp(how, 0),
           UNCHANGED <<progAge, rows, portal>>
    PROVE  IInv'
<1>. USE DEF IInv, rows, portal, Ends
<1>1. Stamp(how, 0) \in Ages
  BY DEF Stamp, BackDated, Ages
<1>2. Statistics \in Reads /\ \A p \in Programmes : p # Statistics /\ p \in Reads
  BY DEF Reads
<1>3. GatesOK' /\ RowsOK'
  BY <1>1, <1>2 DEF GatesOK, RowsOK, Ages
<1>4. StampsOK'
  BY <1>2 DEF StampsOK, GatesOK, Stamp
<1>. QED
  BY <1>2, <1>3, <1>4 DEF GatesOK, DetailIsOfTheLastAttempt, RowIsADaysReading

LEMMA QuarterStep == IInv /\ QuarterPasses => IInv'
<1>. SUFFICES ASSUME IInv, QuarterPasses PROVE IInv'
  OBVIOUS
<1>. USE DEF IInv, QuarterPasses, rows, portal, loop
<1>1. \A a \in Ages : Older(a) \in Ages
  BY OlderIs DEF Ages
<1>2. GatesOK' /\ RowsOK' /\ LoopOK'
  BY <1>1 DEF GatesOK, RowsOK, LoopOK, Reads
<1>3. ASSUME NEW a \in Ages, NEW how
      PROVE  Older(Stamp(how, a)) = Stamp(how, Older(a))
  <2>1. Stamp(how, a) \in Ages
    BY DEF Stamp, BackDated, Ages
  <2>. QED
    BY <2>1, OlderIs DEF Stamp, BackDated, Ages
<1>4. StampsOK'
  BY <1>3 DEF StampsOK, GatesOK, Reads
<1>. QED
  BY <1>2, <1>4 DEF DetailIsOfTheLastAttempt, RowIsADaysReading

(* The portal's days, the rows read from them, and a device put aside.     *)
LEMMA ReadingGrows ==
    ASSUME RowsOK, NEW g \in Groups, Consumes(g)
    PROVE  \E new \in 0 .. MostEnergy :
              /\ book' = [book EXCEPT ![g] = [@ EXCEPT ![today] = new]]
              /\ book[g][today] # None => book[g][today] <= new
<1>. DEFINE old == book[g][today]
            new == IF old = None THEN 0 ELSE Min({old + 1, MostEnergy})
<1>1. new \in 0 .. MostEnergy /\ (old # None => old <= new)
  <2>1. old \in 0 .. MostEnergy \cup {None}
    BY DEF RowsOK
  <2>2. CASE old = None
    BY <2>2
  <2>3. CASE old # None
    <3>1. old \in 0 .. MostEnergy
      BY <2>1, <2>3
    <3>. HIDE DEF old
    <3>2. Min({old + 1, MostEnergy}) = IF old < MostEnergy THEN old + 1 ELSE MostEnergy
      BY <3>1 DEF Min
    <3>. QED BY <2>3, <3>1, <3>2
  <2>. QED BY <2>2, <2>3
<1>2. book' = [book EXCEPT ![g] = [@ EXCEPT ![today] = new]]
  BY DEF Consumes
<1>. HIDE DEF new
<1>. QED
  BY <1>1, <1>2

LEMMA ConsumesStep == ASSUME IInv, NEW g \in Groups, Consumes(g) PROVE IInv'
<1>. USE DEF IInv
<1>1. PICK new \in 0 .. MostEnergy :
        /\ book' = [book EXCEPT ![g] = [@ EXCEPT ![today] = new]]
        /\ book[g][today] # None => book[g][today] <= new
  BY ReadingGrows
<1>. USE DEF Consumes, gates, rows, loop, history
<1>2. RowsOK'
  BY <1>1 DEF RowsOK
<1>3. RowIsADaysReading'
  BY <1>1 DEF RowIsADaysReading, RowsOK, Entries
<1>. QED
  BY <1>2, <1>3 DEF GatesOK, LoopOK, StampsOK, DetailIsOfTheLastAttempt

LEMMA LatestIsAnAnswer ==
    ASSUME RowsOK, NEW g \in Groups, NEW answer \in Answers
    PROVE  /\ Latest(g, answer) \in answer /\ answer \subseteq 1 .. today
           /\ today \in 1 .. Days
<1>2. today \in Nat /\ today \in 1 .. Days
  BY DEF RowsOK
<1>1. answer \subseteq 1 .. today /\ answer \subseteq 0 .. today /\ answer # {}
  <2>1. PICK n \in 1 .. today : answer = n .. today
    BY DEF Answers
  <2>2. n \in answer
    BY <1>2, <2>1
  <2>. QED
    BY <1>2, <2>1, <2>2
<1>. DEFINE read == {n \in answer : book[g][n] # None}
            of == IF read # {} THEN read ELSE answer
<1>3. of \subseteq answer /\ of # {}
  BY <1>1
<1>4. Latest(g, answer) = Max(of)
  BY DEF Latest
<1>. HIDE DEF of
<1>5. Max(of) \in of
  BY <1>1, <1>2, <1>3, NatMax
<1>. QED
  BY <1>1, <1>2, <1>3, <1>4, <1>5

LEMMA GroupReadStep == ASSUME IInv, NEW g \in Groups, GroupRead(g) PROVE IInv'
<1>. USE DEF IInv, GroupRead, gates, portal, history, InStatistics
<1>1. LoopOK'
  BY DEF LoopOK
<1>2. RowsOK' /\ RowIsADaysReading'
  <2>1. CASE UNCHANGED row
    BY <2>1 DEF RowsOK, RowIsADaysReading
  <2>2. ASSUME NEW answer \in Answers, Stored(g, Latest(g, answer))
        PROVE  RowsOK' /\ RowIsADaysReading'
    <3>1. PICK n \in 1 .. Days : n = Latest(g, answer)
      BY LatestIsAnAnswer
    <3>2. Stored(g, n)
      BY <2>2, <3>1
    <3>3. CASE book[g][n] = None
      BY <3>2, <3>3 DEF Stored, RowsOK, RowIsADaysReading
    <3>4. CASE book[g][n] # None
      <4>1. book[g][n] \in 0 .. MostEnergy
        BY <3>4 DEF RowsOK
      <4>2. row' = [row EXCEPT ![g] = [energy |-> book[g][n], day |-> n]]
        BY <3>2, <3>4 DEF Stored
      <4>3. RowsOK'
        BY <4>1, <4>2 DEF RowsOK, Entries
      <4>4. RowIsADaysReading'
        BY <3>4, <4>1, <4>2 DEF RowIsADaysReading, RowsOK
      <4>. QED BY <4>3, <4>4
    <3>. QED BY <3>3, <3>4
  <2>. QED BY <2>1, <2>2
<1>. QED
  BY <1>1, <1>2 DEF GatesOK, StampsOK, DetailIsOfTheLastAttempt

LEMMA OfflineStep == ASSUME IInv, NEW d \in Devices, DeviceOffline(d) PROVE IInv'
<1>. USE DEF IInv, DeviceOffline, gates, portal, history
<1>1. LoopOK' /\ GatesOK' /\ StampsOK'
  BY DEF LoopOK, GatesOK, StampsOK
<1>2. RowsOK'
  <2>1. \A e \in Entries : [e EXCEPT !.energy = None] \in Entries
    BY DEF Entries
  <2>2. row' \in [Groups -> Entries \cup {None}]
    BY <2>1 DEF RowsOK
  <2>. QED
    BY <2>2 DEF RowsOK
<1>3. RowIsADaysReading'
  BY DEF RowIsADaysReading, RowsOK, Entries
<1>. QED
  BY <1>1, <1>2, <1>3 DEF DetailIsOfTheLastAttempt

-----------------------------------------------------------------------------
(* Every step *)

LEMMA NextIInv == IInv /\ [Next]_vars => IInv'
<1>. SUFFICES ASSUME IInv, [Next]_vars PROVE IInv'
  OBVIOUS
<1>. USE DEF IInv
<1>1. CASE QuarterPasses
  BY <1>1, QuarterStep
<1>2. CASE Midnight
  <2>1. LoopOK' /\ RowsOK'
    BY <1>2 DEF Midnight, LoopOK, RowsOK, gates, rows, loop, history
  <2>. QED
    BY <1>2, <2>1 DEF Midnight, GatesOK, StampsOK, gates, rows, loop, history,
       DetailIsOfTheLastAttempt, RowIsADaysReading
<1>3. ASSUME NEW g \in Groups, Consumes(g) PROVE IInv'
  BY <1>3, ConsumesStep
<1>4. CASE BeginPoll
  BY <1>4, LoopStep DEF BeginPoll, LoopOK, gates, rows, portal, history
<1>5. ASSUME NEW d \in Devices, DeviceOnline(d) PROVE IInv'
  <2>1. LoopOK'
    BY <1>5 DEF DeviceOnline, LoopOK, ProgrammesOf
  <2>2. RowsOK'
    BY <1>5 DEF DeviceOnline, RowsOK, ProgrammesOf, portal
  <2>. QED
    BY <1>5, <2>1, <2>2 DEF DeviceOnline, GatesOK, StampsOK, gates, portal, history,
       DetailIsOfTheLastAttempt, RowIsADaysReading
<1>6. ASSUME NEW d \in Devices, DeviceOffline(d) PROVE IInv'
  BY <1>6, OfflineStep
<1>7. ASSUME NEW p \in Programmes, NotDue(p) \/ NoTurn(p) PROVE IInv'
  <2>1. LoopOK'
    BY <1>7 DEF NotDue, NoTurn, LoopOK
  <2>. QED
    BY <1>7, <2>1, LoopStep DEF NotDue, NoTurn, gates, rows, portal, history
<1>8. ASSUME NEW p \in Programmes, ScheduleRead(p) PROVE IInv'
  <2>0. pc = "devices" /\ pc' = "devices"
    BY <1>8 DEF ScheduleRead, Asks
  <2>1. LoopOK' /\ pc # "statistics" /\ pc' # "statistics"
    BY <1>8, <2>0 DEF ScheduleRead, LoopOK
  <2>2. progAge' = [progAge EXCEPT ![p] = Stamp("ok", 0)]
    BY <1>8 DEF ScheduleRead, Key, Stamp
  <2>3. detail' = [detail EXCEPT ![p] = "ok" = "ok"]
    BY <1>8 DEF ScheduleRead
  <2>4. raw' \in [Programmes -> {None, "plain", "week"}]
    BY <1>8 DEF ScheduleRead, RowsOK
  <2>. QED
    BY <1>8, <2>1, <2>2, <2>3, <2>4, ScheduleStep DEF ScheduleRead
<1>9. ASSUME NEW p \in Programmes, ScheduleFails(p) \/ ScheduleStops(p) PROVE IInv'
  <2>0. pc = "devices" /\ pc' \in {"devices", "idle"}
    BY <1>9 DEF ScheduleFails, ScheduleStops, PollOver, Asks
  <2>1. LoopOK' /\ pc # "statistics" /\ pc' # "statistics"
    <3>1. CASE ScheduleFails(p)
      BY <2>0, <3>1 DEF ScheduleFails, LoopOK
    <3>2. CASE ScheduleStops(p)
      BY <2>0, <3>2, PollOverStep DEF ScheduleStops
    <3>. QED BY <1>9, <3>1, <3>2
  <2>2. progAge' = [progAge EXCEPT ![p] = Stamp("failed", 0)]
    BY <1>9 DEF ScheduleFails, ScheduleStops, BookFailure, Key, Stamp, BackDated
  <2>3. detail' = [detail EXCEPT ![p] = "failed" = "ok"]
    BY <1>9 DEF ScheduleFails, ScheduleStops, BookFailure
  <2>4. raw' \in [Programmes -> {None, "plain", "week"}]
    BY <1>9 DEF ScheduleFails, ScheduleStops, RowsOK
  <2>. QED
    BY <1>9, <2>1, <2>2, <2>3, <2>4, ScheduleStep DEF ScheduleFails, ScheduleStops
<1>10. CASE DeviceDone
  BY <1>10, LoopStep DEF DeviceDone, LoopOK, gates, rows, portal, history
<1>11. CASE PollStops \/ NoStatistics
  <2>1. LoopOK' /\ pc # "statistics" /\ pc' # "statistics"
    BY <1>11, PollOverStep DEF PollStops, NoStatistics, DevicesDone
  <2>. QED
    BY <1>11, <2>1, LoopStep DEF PollStops, NoStatistics, gates, rows, portal, history
<1>12. CASE BeginStatistics
  <2>1. LoopOK'
    <3>1. here = None
      BY <1>12 DEF BeginStatistics, AsksStatistics, DevicesDone
    <3>. QED
      BY <1>12, <3>1 DEF BeginStatistics, LoopOK
  <2>2. GatesOK'
    BY <1>12 DEF BeginStatistics, GatesOK, Ages, history
  <2>3. RowsOK' /\ StampsOK'
    BY <1>12 DEF BeginStatistics, RowsOK, StampsOK, rows, portal, history
  <2>. QED
    BY <1>12, <2>1, <2>2, <2>3 DEF BeginStatistics, rows, portal, history,
       DetailIsOfTheLastAttempt, RowIsADaysReading
<1>13. ASSUME NEW d \in Devices, AskDevice(d) \/ DeviceFails(d) PROVE IInv'
  <2>1. LoopOK'
    <3>1. Tried \in [tried : BOOLEAN, worked : BOOLEAN, read : BOOLEAN, failed : BOOLEAN]
      BY DEF Tried, LoopOK
    <3>2. CASE AskDevice(d)
      <4>1. walk' \subseteq GroupsOf(d) /\ here' = d /\ tally' = Tried
        BY <3>2 DEF AskDevice
      <4>. QED
        BY <3>1, <3>2, <4>1 DEF AskDevice, LoopOK, GroupsOf
    <3>3. CASE DeviceFails(d)
      BY <3>1, <3>3 DEF DeviceFails, LoopOK
    <3>. QED BY <1>13, <3>2, <3>3
  <2>. QED
    BY <1>13, <2>1, LoopStep DEF AskDevice, DeviceFails, gates, rows, portal, history
<1>14. ASSUME NEW g \in Groups, GroupRead(g) PROVE IInv'
  BY <1>14, GroupReadStep
<1>15. ASSUME NEW g \in Groups, GroupInvalid(g) \/ GroupFails(g) PROVE IInv'
  <2>1. LoopOK'
    BY <1>15 DEF GroupInvalid, GroupFails, LoopOK
  <2>. QED
    BY <1>15, <2>1, LoopStep DEF GroupInvalid, GroupFails, gates, rows, portal, history
<1>16. CASE StatisticsOfDeviceDone
  <2>1. (tally.worked \/ Worked) \in BOOLEAN
    BY DEF LoopOK, Worked
  <2>2. LoopOK'
    BY <1>16, <2>1 DEF StatisticsOfDeviceDone, LoopOK
  <2>. QED
    BY <1>16, <2>2, LoopStep DEF StatisticsOfDeviceDone, gates, rows, portal, history
<1>17. CASE StatisticsEnd
  <2>. DEFINE how == CASE ~tally.tried -> "nobody"
                       [] tally.worked -> "ok" [] OTHER -> "failed"
  <2>1. LoopOK' /\ pc = "statistics" /\ pc' = "idle"
    BY <1>17, PollOverStep DEF StatisticsEnd, InStatistics
  <2>2. how \in {"ok", "failed", "cut", "nobody"} /\ Ends(Statistics, how)
    BY <1>17 DEF StatisticsEnd
  <2>3. statAge = 0
    BY <2>1 DEF StampsOK
  <2>4. statAge' = Stamp(how, 0)
    <3>1. CASE tally.tried /\ ~tally.worked
      BY <1>17, <3>1 DEF StatisticsEnd, BookStatistics, Stamp, BackDated
    <3>2. CASE ~(tally.tried /\ ~tally.worked)
      BY <1>17, <2>3, <3>2 DEF StatisticsEnd, BookStatistics, Stamp
    <3>. QED BY <3>1, <3>2
  <2>. HIDE DEF how
  <2>. QED
    BY <1>17, <2>1, <2>2, <2>4, StatisticsStep DEF StatisticsEnd
<1>18. CASE StatisticsStop
  <2>. DEFINE how == IF tally.worked THEN "cut" ELSE "failed"
  <2>1. LoopOK' /\ pc = "statistics" /\ pc' = "idle"
    BY <1>18, PollOverStep DEF StatisticsStop, InStatistics
  <2>2. how \in {"ok", "failed", "cut", "nobody"} /\ Ends(Statistics, how)
    BY <1>18 DEF StatisticsStop
  <2>3. statAge = 0
    BY <2>1 DEF StampsOK
  <2>4. statAge' = Stamp(how, 0)
    BY <1>18, <2>3 DEF StatisticsStop, Stamp, BackDated
  <2>. HIDE DEF how
  <2>. QED
    BY <1>18, <2>1, <2>2, <2>4, StatisticsStep DEF StatisticsStop
<1>19. CASE UNCHANGED vars
  BY <1>19, LoopStep DEF vars, loop, LoopOK
<1>. QED
  BY <1>1, <1>2, <1>3, <1>4, <1>5, <1>6, <1>7, <1>8, <1>9, <1>10, <1>11, <1>12,
     <1>13, <1>14, <1>15, <1>16, <1>17, <1>18, <1>19 DEF Next

(* The stamps, the rows and the loop, whatever the hours bring.            *)
THEOREM Invariance == Spec => []IInv
BY InitIInv, NextIInv, PTL DEF Spec

-----------------------------------------------------------------------------
(* The properties *)

(* The types of the component.                                             *)
THEOREM TypeCorrect == Spec => []TypeOK
<1>1. IInv => TypeOK
  BY DEF IInv, GatesOK, RowsOK, LoopOK, TypeOK
<1>. QED
  BY <1>1, Invariance, PTL

(* A programme or the statistics are asked for again no sooner than the    *)
(* retry interval after a failure and an hour after a success, whatever    *)
(* ended the read.                                                         *)
THEOREM ReadsAreCalm == Spec => []AskedCalmly
<1>1. IInv => AskedCalmly
  <2>. SUFFICES ASSUME IInv PROVE AskedCalmly
    OBVIOUS
  <2>. USE DEF IInv
  <2>1. ASSUME NEW p \in Programmes, Asks(p) PROVE MayAsk(p)
    <3>1. progAge[p] >= Hour /\ progAge[p] = Stamp(ended[p], since[p])
      BY <2>1 DEF Asks, ScheduleIsDue, Key, StampsOK
    <3>2. since[p] \in Ages /\ ended[p] \in {"never", "ok", "failed"}
      BY DEF GatesOK, Reads
    <3>. QED
      BY <3>1, <3>2 DEF MayAsk, Stamp, BackDated, Ages
  <2>2. ASSUME AsksStatistics PROVE MayAsk(Statistics)
    <3>1. statAge >= Hour /\ statAge = Stamp(ended[Statistics], since[Statistics])
      BY <2>2 DEF AsksStatistics, DevicesDone, StatisticsDue, StampsOK
    <3>2. since[Statistics] \in Ages
      BY DEF GatesOK, Reads
    <3>. QED
      BY <3>1, <3>2 DEF MayAsk, Stamp, BackDated, Ages
  <2>. QED
    BY <2>1, <2>2 DEF AskedCalmly
<1>. QED
  BY <1>1, Invariance, PTL

(* A failed read is due again after the retry interval, not after an hour. *)
THEOREM FailuresComeBack == Spec => []FailureIsRetriedSoon
<1>1. IInv => FailureIsRetriedSoon
  <2>. SUFFICES ASSUME IInv PROVE FailureIsRetriedSoon
    OBVIOUS
  <2>. USE DEF IInv, Stamp, BackDated, Ages, StampsOK, GatesOK, Reads
  <2>1. ASSUME pc = "idle", ended[Statistics] = "failed", since[Statistics] >= Retry
        PROVE  StatisticsDue
    BY <2>1 DEF StatisticsDue
  <2>2. ASSUME NEW p \in Programmes, ended[p] = "failed", since[p] >= Retry
        PROVE  ScheduleIsDue(p)
    BY <2>2 DEF ScheduleIsDue, Key
  <2>. QED
    BY <2>1, <2>2 DEF FailureIsRetriedSoon
<1>. QED
  BY <1>1, Invariance, PTL

(* The week on show is of the last time the device was asked for it.       *)
THEOREM NoStaleWeek == Spec => []DetailIsOfTheLastAttempt
<1>1. IInv => DetailIsOfTheLastAttempt
  BY DEF IInv
<1>. QED
  BY <1>1, Invariance, PTL

(* The energy on show was read for the day it is booked to.                *)
THEOREM EnergyIsOfItsDay == Spec => []RowIsADaysReading
<1>1. IInv => RowIsADaysReading
  BY DEF IInv
<1>. QED
  BY <1>1, Invariance, PTL

-----------------------------------------------------------------------------
(* Every circuit of a device is read *)

(* What the loop is past is no weekly programme, or was read within the    *)
(* hour; between two polls no device is at hand.                           *)
WalkInv ==
    /\ pc = "idle" => here = None
    /\ pc = "devices" /\ here # None /\ turn = "schedules" =>
          \A p \in ProgrammesOf(here) :
             p \in walk \/ ~IsSchedule(p) \/ since[p] < Hour

(* A programme judged not due has been tried within the hour: a stamp is   *)
(* never younger than the attempt it tells of.                             *)
LEMMA NotDueWasTried ==
    ASSUME IInv, NEW p \in Programmes, ~ScheduleIsDue(p)
    PROVE  since[p] < Hour
<1>1. progAge[p] < Hour /\ progAge[p] = Stamp(ended[p], since[p])
  BY DEF IInv, GatesOK, StampsOK, ScheduleIsDue, Key, Ages
<1>2. since[p] \in Ages
  BY DEF IInv, GatesOK, Reads
<1>. QED
  BY <1>1, <1>2 DEF Stamp, BackDated, Ages

LEMMA WalkGoesOn ==
    ASSUME IInv, WalkInv, NEW p \in Programmes, pc = "devices", pc' = "devices",
           walk' = walk \ {p}, UNCHANGED <<here, turn>>,
           \A q \in Programmes : IsSchedule(q)' => IsSchedule(q),
           \A q \in Programmes : since'[q] = since[q] \/ since'[q] = 0,
           ~IsSchedule(p) \/ since'[p] < Hour
    PROVE  WalkInv'
<1>1. \A q \in Programmes : since[q] < Hour => since'[q] < Hour
  OBVIOUS
<1>. QED
  BY <1>1 DEF WalkInv, ProgrammesOf

LEMMA NextWalkInv == IInv /\ WalkInv /\ [Next]_vars => WalkInv'
<1>. SUFFICES ASSUME IInv, WalkInv, [Next]_vars PROVE WalkInv'
  OBVIOUS
<1>1. CASE QuarterPasses \/ Midnight \/ (\E g \in Groups : Consumes(g))
  BY <1>1 DEF QuarterPasses, Midnight, Consumes, loop, WalkInv
<1>2. CASE BeginPoll
  BY <1>2 DEF BeginPoll, WalkInv
<1>3. ASSUME NEW d \in Devices, DeviceOnline(d) PROVE WalkInv'
  BY <1>3 DEF DeviceOnline, WalkInv, ProgrammesOf
<1>4. ASSUME NEW d \in Devices, DeviceOffline(d) PROVE WalkInv'
  BY <1>4 DEF DeviceOffline, WalkInv
<1>5. ASSUME NEW p \in Programmes, NotDue(p) PROVE WalkInv'
  <2>1. ~IsSchedule(p) \/ since[p] < Hour
    BY <1>5, NotDueWasTried DEF NotDue
  <2>2. since' = since /\ \A q \in Programmes : IsSchedule(q)' => IsSchedule(q)
    BY <1>5 DEF NotDue, history, rows, IsSchedule
  <2>. QED
    BY <1>5, <2>1, <2>2, WalkGoesOn DEF NotDue
<1>6. ASSUME NEW p \in Programmes, NoTurn(p) PROVE WalkInv'
  BY <1>6 DEF NoTurn, WalkInv
<1>7. ASSUME NEW p \in Programmes, ScheduleRead(p) \/ ScheduleFails(p) PROVE WalkInv'
  <2>1. pc = "devices" /\ pc' = "devices" /\ walk' = walk \ {p} /\ UNCHANGED <<here, turn>>
    BY <1>7 DEF ScheduleRead, ScheduleFails, Asks
  <2>2. since' = [since EXCEPT ![p] = 0]
    BY <1>7 DEF ScheduleRead, ScheduleFails, Ends
  <2>3. /\ \A q \in Programmes : since'[q] = since[q] \/ since'[q] = 0
        /\ since'[p] < Hour
    BY <2>2 DEF IInv, GatesOK, Reads
  <2>4. \A q \in Programmes : IsSchedule(q)' => IsSchedule(q)
    BY <1>7 DEF ScheduleRead, ScheduleFails, IsSchedule, IInv, RowsOK
  <2>. QED
    BY <2>1, <2>3, <2>4, WalkGoesOn
<1>8. ASSUME PollOver PROVE WalkInv'
  BY <1>8 DEF PollOver, WalkInv
<1>9. ASSUME NEW p \in Programmes, ScheduleStops(p) PROVE WalkInv'
  BY <1>8, <1>9 DEF ScheduleStops
<1>10. CASE DeviceDone
  BY <1>10 DEF DeviceDone, WalkInv
<1>11. CASE PollStops \/ NoStatistics \/ StatisticsEnd \/ StatisticsStop
  BY <1>8, <1>11 DEF PollStops, NoStatistics, StatisticsEnd, StatisticsStop
<1>12. CASE BeginStatistics
  BY <1>12 DEF BeginStatistics, WalkInv
<1>13. ASSUME NEW d \in Devices, AskDevice(d) \/ DeviceFails(d) PROVE WalkInv'
  BY <1>13 DEF AskDevice, DeviceFails, InStatistics, WalkInv
<1>14. ASSUME NEW g \in Groups, GroupRead(g) \/ GroupInvalid(g) \/ GroupFails(g)
       PROVE  WalkInv'
  BY <1>14 DEF GroupRead, GroupInvalid, GroupFails, InStatistics, WalkInv
<1>15. CASE StatisticsOfDeviceDone
  BY <1>15 DEF StatisticsOfDeviceDone, InStatistics, WalkInv
<1>16. CASE UNCHANGED vars
  BY <1>16 DEF vars, loop, history, rows, WalkInv, IsSchedule
<1>. QED
  BY <1>1, <1>2, <1>3, <1>4, <1>5, <1>6, <1>7, <1>9, <1>10, <1>11, <1>12, <1>13,
     <1>14, <1>15, <1>16 DEF Next

(* When the turn is the schedules', a device is not left before each of    *)
(* its circuits was read or had been tried within the hour.                *)
THEOREM CircuitsAreRead == Spec => []EveryCircuitIsRead
<1>1. Init => WalkInv
  BY DEF Init, WalkInv
<1>2. WalkInv => EveryCircuitIsRead
  BY DEF WalkInv, EveryCircuitIsRead
<1>. QED
  BY <1>1, <1>2, Invariance, NextWalkInv, PTL DEF Spec

(* What is on show was read, when it says and for the day it says.         *)
THEOREM WhatIsShown == Spec => []ShownWasRead
BY TypeCorrect, CircuitsAreRead, NoStaleWeek, EnergyIsOfItsDay, PTL DEF ShownWasRead

(* The portal is asked no sooner than it should be, and a failure no later *)
(* than the retry interval allows.                                         *)
THEOREM OnTime == Spec => []AskedOnTime
BY ReadsAreCalm, FailuresComeBack, PTL DEF AskedOnTime

-----------------------------------------------------------------------------
(* The day a meter counts from *)

(* A row's day is one that has been, and the portal keeps its reading.     *)
DayInv ==
    \A g \in Groups : row[g] # None =>
        /\ row[g].day \in 1 .. today
        /\ book[g][row[g].day] # None

DaysGoOn ==
    \A g \in Groups : row[g] # None => row'[g] # None /\ row[g].day <= (row'[g]).day

LEMMA RowsStay == IInv /\ UNCHANGED row => DaysGoOn
<1>. SUFFICES ASSUME IInv, UNCHANGED row, NEW g \in Groups, row[g] # None
              PROVE  row[g].day <= row[g].day
  BY DEF DaysGoOn
<1>1. row[g].day \in 1 .. Days
  BY DEF IInv, RowsOK, Entries
<1>. QED
  BY <1>1

LEMMA DayStays ==
    ASSUME IInv, DayInv, UNCHANGED <<row, portal>>
    PROVE  DayInv' /\ DaysGoOn
BY RowsStay DEF DayInv, portal

LEMMA OfflineDay ==
    ASSUME IInv, DayInv, NEW d \in Devices, DeviceOffline(d)
    PROVE  DayInv' /\ DaysGoOn
<1>. USE DEF IInv, DeviceOffline, portal
<1>1. \A g \in Groups : row[g] # None => row'[g] # None /\ (row'[g]).day = row[g].day
  BY DEF RowsOK, Entries
<1>2. \A g \in Groups : row'[g] # None => row[g] # None
  BY DEF RowsOK, Entries
<1>3. \A g \in Groups : row[g] # None => row[g].day \in 1 .. Days
  BY DEF RowsOK, Entries
<1>. QED
  BY <1>1, <1>2, <1>3 DEF DayInv, DaysGoOn

(* The newest day of an answer that has a reading is no earlier than any   *)
(* day that has one: the answer ends with today.                           *)
LEMMA LatestIsTheNewest ==
    ASSUME RowsOK, NEW g \in Groups, NEW answer \in Answers,
           NEW o \in 1 .. today, book[g][o] # None,
           book[g][Latest(g, answer)] # None
    PROVE  o <= Latest(g, answer)
<1>1. today \in Nat
  BY DEF RowsOK
<1>2. PICK n \in 1 .. today : answer = n .. today
  BY DEF Answers
<1>3. Latest(g, answer) \in answer
  BY LatestIsAnAnswer
<1>. DEFINE read == {x \in answer : book[g][x] # None}
<1>4. read # {} /\ Latest(g, answer) = Max(read)
  BY <1>3 DEF Latest
<1>5. CASE o < n
  BY <1>1, <1>2, <1>3, <1>5
<1>6. CASE n <= o
  <2>1. o \in read /\ read \subseteq 0 .. today
    BY <1>1, <1>2, <1>6
  <2>. HIDE DEF read
  <2>. QED
    BY <1>1, <1>4, <2>1, NatMax
<1>. QED
  BY <1>1, <1>2, <1>5, <1>6

LEMMA GroupReadDay ==
    ASSUME IInv, DayInv, NEW g \in Groups, GroupRead(g)
    PROVE  DayInv' /\ DaysGoOn
<1>. USE DEF IInv, portal
<1>0. UNCHANGED <<book, today>>
  BY DEF GroupRead
<1>1. CASE UNCHANGED row
  BY <1>0, <1>1, DayStays
<1>2. ASSUME NEW answer \in Answers, Stored(g, Latest(g, answer)), ~UNCHANGED row
      PROVE  DayInv' /\ DaysGoOn
  <2>1. PICK n \in 1 .. today : n = Latest(g, answer)
    BY LatestIsAnAnswer
  <2>2. /\ book[g][n] # None
        /\ row' = [row EXCEPT ![g] = [energy |-> book[g][n], day |-> n]]
    BY <1>2, <2>1 DEF Stored
  <2>3. row' = [x \in Groups |-> IF x = g THEN [energy |-> book[g][n], day |-> n]
                                 ELSE row[x]]
    BY <2>2 DEF RowsOK
  <2>4. [energy |-> book[g][n], day |-> n] # None
    <3>1. n \in Nat /\ book[g][n] \in Nat \cup {None}
      BY <2>1 DEF RowsOK
    <3>. QED BY <3>1
  <2>5. DayInv'
    BY <1>0, <2>2, <2>3 DEF DayInv
  <2>6. row[g] # None => row[g].day <= n
    BY <2>1, <2>2, LatestIsTheNewest DEF DayInv
  <2>7. \A x \in Groups : row[x] # None => row[x].day \in 1 .. Days
    BY DEF RowsOK, Entries
  <2>8. DaysGoOn
    BY <2>3, <2>4, <2>6, <2>7 DEF DaysGoOn
  <2>. QED BY <2>5, <2>8
<1>. QED
  BY <1>1, <1>2 DEF GroupRead

LEMMA NextDay == IInv /\ DayInv /\ [Next]_vars => DayInv' /\ DaysGoOn
<1>. SUFFICES ASSUME IInv, DayInv, [Next]_vars PROVE DayInv' /\ DaysGoOn
  OBVIOUS
<1>1. CASE Midnight
  <2>1. today' = today + 1 /\ UNCHANGED <<row, book>> /\ today \in Nat
    BY <1>1 DEF Midnight, rows, IInv, RowsOK
  <2>. QED
    BY <2>1, RowsStay DEF DayInv
<1>2. ASSUME NEW g \in Groups, Consumes(g) PROVE DayInv' /\ DaysGoOn
  <2>1. UNCHANGED <<row, today>>
    BY <1>2 DEF Consumes, rows
  <2>2. \A x \in Groups : \A n \in 1 .. today : book[x][n] # None => book'[x][n] # None
    <3>1. PICK new \in 0 .. MostEnergy :
            /\ book' = [book EXCEPT ![g] = [@ EXCEPT ![today] = new]]
            /\ book[g][today] # None => book[g][today] <= new
      BY <1>2, ReadingGrows DEF IInv
    <3>2. new # None
      OBVIOUS
    <3>. QED
      BY <3>1, <3>2 DEF IInv, RowsOK
  <2>. QED
    BY <2>1, <2>2, RowsStay DEF DayInv
<1>3. ASSUME NEW d \in Devices, DeviceOffline(d) PROVE DayInv' /\ DaysGoOn
  BY <1>3, OfflineDay
<1>4. ASSUME NEW g \in Groups, GroupRead(g) PROVE DayInv' /\ DaysGoOn
  BY <1>4, GroupReadDay
<1>5. ASSUME UNCHANGED <<row, portal>> PROVE DayInv' /\ DaysGoOn
  BY <1>5, DayStays
<1>6. CASE QuarterPasses \/ BeginPoll \/ DeviceDone \/ PollStops \/ NoStatistics
           \/ BeginStatistics \/ StatisticsOfDeviceDone \/ StatisticsEnd \/ StatisticsStop
           \/ UNCHANGED vars
  BY <1>5, <1>6 DEF QuarterPasses, BeginPoll, DeviceDone, PollStops, NoStatistics,
     BeginStatistics, StatisticsOfDeviceDone, StatisticsEnd, StatisticsStop, vars, rows
<1>7. ASSUME NEW d \in Devices, DeviceOnline(d) \/ AskDevice(d) \/ DeviceFails(d)
      PROVE  DayInv' /\ DaysGoOn
  BY <1>5, <1>7 DEF DeviceOnline, AskDevice, DeviceFails, rows
<1>8. ASSUME NEW p \in Programmes,
             NotDue(p) \/ NoTurn(p) \/ ScheduleRead(p) \/ ScheduleFails(p) \/ ScheduleStops(p)
      PROVE  DayInv' /\ DaysGoOn
  BY <1>5, <1>8 DEF NotDue, NoTurn, ScheduleRead, ScheduleFails, ScheduleStops, rows
<1>9. ASSUME NEW g \in Groups, GroupInvalid(g) \/ GroupFails(g)
      PROVE  DayInv' /\ DaysGoOn
  BY <1>5, <1>9 DEF GroupInvalid, GroupFails, rows
<1>. QED
  BY <1>1, <1>2, <1>3, <1>4, <1>6, <1>7, <1>8, <1>9 DEF Next

(* A meter's day never goes back: neither an answer of fewer days nor a    *)
(* day without a reading moves the row to an earlier one.                  *)
THEOREM MeterDaysGoForward == Spec => DayNeverGoesBack
<1>1. Init => DayInv
  BY DEF Init, DayInv
<1>2. DaysGoOn =>
        \A g \in Groups : row[g] # None => row[g]' # None /\ row[g].day <= (row[g].day)'
  BY DEF DaysGoOn
<1>. QED
  BY <1>1, <1>2, Invariance, NextDay, PTL DEF Spec, DayNeverGoesBack
=============================================================================
