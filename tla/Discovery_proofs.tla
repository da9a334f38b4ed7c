--------------------------- MODULE Discovery_proofs ---------------------------
(* Proofs about Discovery, for any modules and devices, any list the       *)
(* portal gives and any intervals its assumption allows; and, in the       *)
(* second part, about HeavyFetchTurns, whose turns it takes.               *)
EXTENDS Discovery, HeavyFetchTurns, TLAPS

USE DiscoveryAssumption

-----------------------------------------------------------------------------
(* Caches *)

Entries == [list : {"none", "empty", "some"}, refused : BOOLEAN, age : 0 .. Interval]

LEMMA IsCache ==
    ASSUME NEW c
    PROVE  c \in Caches <=> /\ DOMAIN c \subseteq Modules
                            /\ c = [m \in DOMAIN c |-> c[m]]
                            /\ \A m \in DOMAIN c : c[m] \in Entries
<1>1. ASSUME c \in Caches
      PROVE  /\ DOMAIN c \subseteq Modules /\ c = [m \in DOMAIN c |-> c[m]]
             /\ \A m \in DOMAIN c : c[m] \in Entries
  <2>1. PICK S \in SUBSET Modules : c \in [S -> Entries]
    BY <1>1 DEF Caches, Entries
  <2>. QED BY <2>1
<1>2. ASSUME DOMAIN c \subseteq Modules, c = [m \in DOMAIN c |-> c[m]],
             \A m \in DOMAIN c : c[m] \in Entries
      PROVE  c \in Caches
  <2>1. c \in [DOMAIN c -> Entries]
    BY <1>2
  <2>. QED BY <1>2, <2>1 DEF Caches, Entries
<1>. QED BY <1>1, <1>2

LEMMA EntriesChange ==
    /\ \A r \in Entries : /\ r.list \in {"none", "empty", "some"}
                         /\ r.refused \in BOOLEAN /\ r.age \in 0 .. Interval
    /\ \A r \in Entries, a \in 0 .. Interval :
          LET s == [r EXCEPT !.age = a]
          IN  s \in Entries /\ s.list = r.list /\ s.refused = r.refused /\ s.age = a
    /\ \A r \in Entries, b \in BOOLEAN :
          LET s == [r EXCEPT !.refused = b]
          IN  s \in Entries /\ s.list = r.list /\ s.refused = b /\ s.age = r.age
    /\ \A l \in {"none", "empty", "some"}, b \in BOOLEAN, a \in 0 .. Interval :
          LET s == Entry(l, b, a)
          IN  s \in Entries /\ s.list = l /\ s.refused = b /\ s.age = a
BY DEF Entries, Entry

LEMMA EmptyCache == <<>> \in Caches /\ DOMAIN <<>> = {}
<1>1. DOMAIN <<>> = {} /\ <<>> = [m \in {} |-> m]
  OBVIOUS
<1>. QED BY <1>1, IsCache

LEMMA Constants ==
    /\ Interval \in Nat /\ Retry \in Nat /\ Retry > 0 /\ Retry < Interval
    /\ Len(Order) \in Nat /\ \A i \in 1 .. Len(Order) : Order[i] \in Modules
    /\ \A m \in Modules : \E i \in 1 .. Len(Order) : Order[i] = m
    /\ \A i, j \in 1 .. Len(Order) : Order[i] = Order[j] => i = j
<1>1. Order \in Seq(Modules)
  OBVIOUS
<1>2. DOMAIN Order = 1 .. Len(Order)
  BY <1>1
<1>3. \A m \in Modules : \E i \in 1 .. Len(Order) : Order[i] = m
  BY <1>2 DEF Modules, ToSet
<1>4. \A i, j \in 1 .. Len(Order) : Order[i] = Order[j] => i = j
  BY <1>2 DEF IsInjective
<1>. QED BY <1>1, <1>3, <1>4

(* What the code makes of a cache is one: a device list, an entry, a mark, *)
(* an hour.                                                                *)
LEMMA Builds ==
    ASSUME known \in Caches
    PROVE  /\ \A left \in SUBSET Omitted :
                 [m \in Modules \ left |-> Carried(m)] \in Caches
           /\ \A m \in DOMAIN known, e \in Entries : [known EXCEPT ![m] = e] \in Caches
           /\ \A marks : Due(marks) \in Caches
<1>1. /\ DOMAIN known \subseteq Modules /\ known = [m \in DOMAIN known |-> known[m]]
      /\ \A m \in DOMAIN known : known[m] \in Entries
  BY IsCache
<1>2. \A m \in Modules : Carried(m) \in Entries
  <2>1. Interval \in 0 .. Interval
    BY Constants
  <2>2. Bare \in Entries
    BY <2>1, EntriesChange DEF Bare
  <2>. QED BY <1>1, <2>2, EntriesChange DEF Carried
<1>3. ASSUME NEW left \in SUBSET Omitted
      PROVE  [m \in Modules \ left |-> Carried(m)] \in Caches
  <2>. DEFINE c == [m \in Modules \ left |-> Carried(m)]
  <2>1. DOMAIN c \subseteq Modules /\ c = [m \in DOMAIN c |-> c[m]]
    OBVIOUS
  <2>2. \A m \in DOMAIN c : c[m] \in Entries
    BY <1>2
  <2>. HIDE DEF c
  <2>3. c \in Caches
    BY <2>1, <2>2, IsCache
  <2>. QED BY <2>3 DEF c
<1>4. ASSUME NEW m \in DOMAIN known, NEW e \in Entries
      PROVE  [known EXCEPT ![m] = e] \in Caches
  <2>. DEFINE c == [known EXCEPT ![m] = e]
  <2>1. /\ DOMAIN c \subseteq Modules /\ c = [n \in DOMAIN c |-> c[n]]
        /\ \A n \in DOMAIN c : c[n] \in Entries
    BY <1>1
  <2>. HIDE DEF c
  <2>2. c \in Caches
    BY <2>1, IsCache
  <2>. QED BY <2>2 DEF c
<1>5. ASSUME NEW marks PROVE Due(marks) \in Caches
  <2>1. /\ DOMAIN Due(marks) \subseteq Modules
        /\ Due(marks) = [n \in DOMAIN Due(marks) |-> Due(marks)[n]]
    BY <1>1 DEF Due
  <2>2. \A m \in DOMAIN Due(marks) : Due(marks)[m] \in Entries
    <3>1. Interval \in 0 .. Interval
      BY Constants
    <3>. QED BY <1>1, <3>1, EntriesChange DEF Due
  <2>. QED BY <2>1, <2>2, IsCache
<1>. QED BY <1>3, <1>4, <1>5

LEMMA HourBuilds ==
    ASSUME NEW c \in Caches
    PROVE  Older(c) \in Caches /\ DOMAIN Older(c) = DOMAIN c
<1>1. /\ DOMAIN c \subseteq Modules /\ \A m \in DOMAIN c : c[m] \in Entries
  BY IsCache
<1>2. /\ DOMAIN Older(c) = DOMAIN c
      /\ Older(c) = [n \in DOMAIN Older(c) |-> Older(c)[n]]
  BY <1>1 DEF Older
<1>3. \A m \in DOMAIN c : Older(c)[m] \in Entries
  <2>1. \A m \in DOMAIN c : c[m].age \in 0 .. Interval
    BY <1>1, EntriesChange
  <2>2. \A m \in DOMAIN c :
           (IF c[m].age < Interval THEN c[m].age + 1 ELSE Interval) \in 0 .. Interval
    BY <2>1, Constants
  <2>. QED BY <1>1, <2>2, EntriesChange DEF Older
<1>. QED BY <1>1, <1>2, <1>3, IsCache

-----------------------------------------------------------------------------
(* The inductive invariant *)

(* A refusal is remembered for an empty list only, which is due soon.      *)
Sound(cache) == \A m \in DOMAIN cache : cache[m].refused =>
    cache[m].list = "empty" /\ cache[m].age >= Interval - Retry

Images == [by : {"cycle", "rescan"}, cache : Caches, older : BOOLEAN]

TypesInv ==
    /\ TypeOK /\ writes \in Seq(Images)
    /\ Sound(fresh) /\ Sound(disk) /\ \A i \in DOMAIN writes : Sound(writes[i].cache)
    /\ pc # "listed" => fresh = <<>>

(* One write of a cycle and one of a rescan at a time; the cycle's is what *)
(* the coordinator waits for.                                              *)
WritesInv ==
    /\ \A i, j \in DOMAIN writes : writes[i].by = writes[j].by => i = j
    /\ cycle = "saving" <=> \E i \in DOMAIN writes : writes[i].by = "cycle"

(* Time left and age add up to the interval at most.                       *)
Spared(cache) == \A m \in DOMAIN cache \cap Watched :
    cache[m].list # "none" => owed[m] + cache[m].age <= Interval

AskInv ==
    /\ Spared(known) /\ Spared(fresh)
    /\ pc = "asking" => DescriptionIsDue(Order[at])

(* A refusal that no device list has come after is booked in the entry.    *)
RefusalInv ==
    \A m \in (rejected \ relisted) \cap DOMAIN known :
        known[m].list = "empty" => known[m].refused

(* A turn that has not asked yet has somebody to ask.                      *)
TurnInv == tookTurn /\ ~spent => pc = "walking" /\ at = 0 /\ SomeStale

(* A mark stands in whatever is, or will be, read of the lists.            *)
AllDue(marks, cache) == \A m \in marks \cap DOMAIN cache :
    cache[m].list # "none" => cache[m].age = Interval

Unmet == crossed \cup replaced

MarkInv ==
    /\ pc = "asking" /\ Order[at] \in wanted => Order[at] \in crossed
    /\ AllDue(wanted \ Unmet, known) /\ AllDue(wanted \ Unmet, fresh)
    /\ AllDue(stored \ Unmet, disk)
    /\ \A i \in DOMAIN writes : AllDue(stored \ Unmet, writes[i].cache)
    /\ \A i \in DOMAIN writes :
          (\A j \in DOMAIN writes : j > i => writes[j].by # "rescan") =>
              AllDue(wanted \ Unmet, writes[i].cache)

(* What has parameters keeps them, on the way to the disk, too.            *)
KeepInv ==
    /\ pc = "listed" => Described(known) \cap DOMAIN fresh = Described(fresh)
    /\ settled \subseteq Described(known)
    /\ cycle # "saving" => settled \subseteq Described(disk)
    /\ \A j \in DOMAIN writes :
          cycle # "saving" \/ (\E i \in 1 .. j : writes[i].by = "cycle") =>
              settled \subseteq Described(writes[j].cache)
    /\ \A i \in DOMAIN writes :
          ~writes[i].older => Described(known) \subseteq Described(writes[i].cache)

DiscoveryInv ==
    TypesInv /\ WritesInv /\ AskInv /\ RefusalInv /\ TurnInv /\ MarkInv /\ KeepInv

-----------------------------------------------------------------------------
(* The writes that wait *)

LEMMA WriteAdded ==
    ASSUME writes \in Seq(Images), NEW who \in {"cycle", "rescan"}, NEW cache \in Caches,
           writes' = Queue(who, cache)
    PROVE  /\ writes' \in Seq(Images) /\ Len(writes) \in Nat
           /\ DOMAIN writes = 1 .. Len(writes) /\ DOMAIN writes' = 1 .. Len(writes) + 1
           /\ \A i \in 1 .. Len(writes) : writes'[i] = writes[i]
           /\ writes'[Len(writes) + 1].by = who
           /\ writes'[Len(writes) + 1].cache = cache
           /\ writes'[Len(writes) + 1].older = FALSE
<1>. DEFINE w == [by |-> who, cache |-> cache, older |-> FALSE]
<1>1. w \in Images
  BY DEF Images
<1>. HIDE DEF w
<1>2. writes' = Append(writes, w)
  BY DEF Queue, w
<1>3. /\ writes' \in Seq(Images) /\ Len(writes) \in Nat
      /\ DOMAIN writes = 1 .. Len(writes) /\ DOMAIN writes' = 1 .. Len(writes) + 1
      /\ \A i \in 1 .. Len(writes) : writes'[i] = writes[i]
      /\ writes'[Len(writes) + 1] = w
  BY <1>1, <1>2
<1>4. w.by = who /\ w.cache = cache /\ w.older = FALSE
  BY DEF w
<1>. QED BY <1>3, <1>4

LEMMA WritesGrowOld ==
    ASSUME writes \in Seq(Images),
           writes' = [i \in DOMAIN writes |-> [writes[i] EXCEPT !.older = TRUE]]
    PROVE  /\ writes' \in Seq(Images) /\ DOMAIN writes' = DOMAIN writes
           /\ Len(writes) \in Nat /\ DOMAIN writes = 1 .. Len(writes)
           /\ \A i \in DOMAIN writes : /\ writes'[i].by = writes[i].by
                                       /\ writes'[i].cache = writes[i].cache
                                       /\ writes'[i].older = TRUE
<1>1. /\ Len(writes) \in Nat /\ DOMAIN writes = 1 .. Len(writes)
      /\ \A i \in 1 .. Len(writes) : writes[i] \in Images
  OBVIOUS
<1>2. \A w \in Images : LET v == [w EXCEPT !.older = TRUE]
                        IN  v \in Images /\ v.by = w.by /\ v.cache = w.cache /\ v.older = TRUE
  BY DEF Images
<1>3. \A i \in 1 .. Len(writes) : /\ writes'[i] \in Images
                                  /\ writes'[i].by = writes[i].by
                                  /\ writes'[i].cache = writes[i].cache
                                  /\ writes'[i].older = TRUE
  BY <1>1, <1>2
<1>4. writes' \in [1 .. Len(writes) -> Images]
  BY <1>1, <1>3
<1>5. writes' \in Seq(Images)
  BY <1>1, <1>4
<1>. QED BY <1>1, <1>3, <1>4, <1>5

LEMMA WriteGone ==
    ASSUME writes \in Seq(Images), writes # <<>>, writes' = Tail(writes)
    PROVE  /\ writes' \in Seq(Images) /\ Head(writes) = writes[1]
           /\ Len(writes) \in Nat /\ Len(writes) > 0 /\ DOMAIN writes = 1 .. Len(writes)
           /\ DOMAIN writes' = 1 .. Len(writes) - 1
           /\ \A i \in 1 .. Len(writes) - 1 : writes'[i] = writes[i + 1]
OBVIOUS

LEMMA Image ==
    ASSUME writes \in Seq(Images), NEW i \in DOMAIN writes
    PROVE  /\ writes[i].by \in {"cycle", "rescan"} /\ writes[i].cache \in Caches
           /\ writes[i].older \in BOOLEAN
<1>1. writes[i] \in Images
  OBVIOUS
<1>. QED BY <1>1 DEF Images

-----------------------------------------------------------------------------
(* What an answer does to the module it is about *)

Here == Order[at]

Answered(entry, wait) ==
    /\ Book(entry, wait) /\ entry \in Entries /\ wait \in 0 .. Interval
    /\ entry.list # "none" /\ wait + entry.age <= Interval
    /\ entry.refused => entry.list = "empty" /\ entry.age >= Interval - Retry
    /\ known[Here].list = "some" => entry.list = "some"
    /\ relisted' \subseteq relisted /\ relisted' \subseteq rejected'
    /\ rejected' \subseteq rejected \cup {Here}
    /\ rejected' \ relisted' \subseteq (rejected \ relisted) \cup {Here}
    /\ Here \in rejected' \ relisted' /\ entry.list = "empty" => entry.refused

Answers == DescribedSome \/ DescribedEmpty \/ Rejected \/ Failed

LEMMA NotedIs ==
    ASSUME NEW e \in Entries, NEW b \in BOOLEAN
    PROVE  LET n == Noted(e, b)
           IN  /\ n \in Entries
               /\ e.list = "some" => n.list = "some" /\ n.refused = e.refused
                                     /\ n.age = Interval - Retry
               /\ e.list # "some" => n.list = "empty" /\ n.refused = b
                                     /\ n.age = IF b THEN Interval - Retry ELSE 0
<1>1. Interval - Retry \in 0 .. Interval /\ 0 \in 0 .. Interval
  BY Constants
<1>2. CASE e.list = "some"
  <2>1. Noted(e, b) = [e EXCEPT !.age = Interval - Retry]
    BY <1>2 DEF Noted
  <2>. QED BY <1>1, <1>2, <2>1, EntriesChange
<1>3. CASE e.list # "some" /\ b
  BY <1>1, <1>3, EntriesChange DEF Noted
<1>4. CASE e.list # "some" /\ ~b
  BY <1>1, <1>4, EntriesChange DEF Noted
<1>. QED BY <1>2, <1>3, <1>4

LEMMA AnswersBook ==
    ASSUME TypesInv, RefusalInv, Answers
    PROVE  \E entry, wait : Answered(entry, wait)
<1>. DEFINE e == known[Here]
<1>1. /\ pc = "asking" /\ Here \in DOMAIN known /\ relisted \subseteq rejected
  BY DEF Answers, DescribedSome, DescribedEmpty, Rejected, Failed, Book, TypesInv, TypeOK, Here
<1>2. e \in Entries
  BY <1>1, IsCache DEF TypesInv, TypeOK
<1>3. /\ e.refused \in BOOLEAN /\ e.list \in {"none", "empty", "some"}
      /\ e.refused => e.list = "empty"
      /\ Here \in rejected \ relisted /\ e.list = "empty" => e.refused
  BY <1>1, <1>2, EntriesChange DEF TypesInv, TypeOK, RefusalInv
<1>. HIDE DEF e
<1>4. CASE DescribedSome
  <2>. DEFINE n == Entry("some", FALSE, 0)
  <2>1. n \in Entries /\ n.list = "some" /\ n.refused = FALSE /\ n.age = 0
    <3>1. 0 \in 0 .. Interval
      BY Constants
    <3>. QED BY <3>1, EntriesChange
  <2>. HIDE DEF n
  <2>2. Book(n, Interval) /\ rejected' = rejected \ {Here} /\ relisted' = relisted \ {Here}
    BY <1>4 DEF DescribedSome, Said, Here, n
  <2>3. Answered(n, Interval)
    BY <1>1, <2>1, <2>2, Constants DEF Answered
  <2>. QED BY <2>3
<1>5. CASE DescribedEmpty
  <2>. DEFINE n == Noted(e, FALSE)
              wait == IF e.list = "some" THEN Retry ELSE Interval
  <2>1. /\ n \in Entries
        /\ e.list = "some" => n.list = "some" /\ n.refused = FALSE /\ n.age = Interval - Retry
        /\ e.list # "some" => n.list = "empty" /\ n.refused = FALSE /\ n.age = 0
    BY <1>2, <1>3, NotedIs
  <2>. HIDE DEF n
  <2>2. Book(n, wait) /\ rejected' = rejected \ {Here} /\ relisted' = relisted \ {Here}
    BY <1>5 DEF DescribedEmpty, Said, Here, e, n
  <2>3. Answered(n, wait)
    BY <1>1, <1>3, <2>1, <2>2, Constants DEF Answered, e
  <2>. QED BY <2>3
<1>6. CASE Rejected
  <2>. DEFINE n == Noted(e, TRUE)
  <2>1. /\ n \in Entries /\ n.age = Interval - Retry
        /\ e.list = "some" => n.list = "some" /\ n.refused = FALSE
        /\ e.list # "some" => n.list = "empty" /\ n.refused = TRUE
    BY <1>2, <1>3, NotedIs
  <2>. HIDE DEF n
  <2>2. /\ Book(n, Retry) /\ relisted' = relisted \ {Here}
        /\ rejected' = IF e.list # "some" THEN rejected \cup ({Here} \cap Watched)
                       ELSE rejected \ {Here}
    BY <1>6 DEF Rejected, Said, Here, e, n
  <2>3. Answered(n, Retry)
    BY <1>1, <1>3, <2>1, <2>2, Constants DEF Answered, e
  <2>. QED BY <2>3
<1>7. CASE Failed
  <2>. DEFINE n == Noted(e, StandsRefused(e))
  <2>1. /\ n \in Entries
        /\ e.list = "some" => n.list = "some" /\ n.refused = FALSE /\ n.age = Interval - Retry
        /\ e.list # "some" => n.list = "empty" /\ n.refused = e.refused
        /\ e.list # "some" => n.age = IF e.refused THEN Interval - Retry ELSE 0
    BY <1>2, <1>3, NotedIs DEF StandsRefused
  <2>. HIDE DEF n
  <2>2. Book(n, Retry) /\ UNCHANGED <<rejected, relisted>> /\ e.list # "none"
    BY <1>7 DEF Failed, Here, e, n
  <2>3. Answered(n, Retry)
    BY <1>1, <1>3, <2>1, <2>2, Constants DEF Answered, e
  <2>. QED BY <2>3
<1>. QED BY <1>4, <1>5, <1>6, <1>7 DEF Answers

(* A step that answers no description and leaves the lists where they are. *)
Quiet ==
    \/ CycleBegins \/ NotDue \/ Discover \/ AskNext \/ StillUnknown \/ Stopped
    \/ WalkEnds \/ ReadEnds \/ Reset

LEMMA Steps ==
    ASSUME [Next]_vars
    PROVE  \/ UNCHANGED vars \/ Quiet \/ Listed \/ Adopted \/ Answers \/ CycleSaves
           \/ \E ok \in BOOLEAN : Written(ok)
           \/ Rescan \/ Restart \/ HourPasses
BY DEF Next, Worker, Quiet, Answers

LEMMA QuietIs ==
    ASSUME TypesInv, Quiet
    PROVE  /\ UNCHANGED <<known, fresh, disk, writes, rejected, relisted, owed, settled>>
           /\ wanted' \subseteq wanted /\ StillWanted
           /\ UNCHANGED pc \/ (pc # "listed" /\ pc' # "listed")
           /\ UNCHANGED cycle \/ (cycle = "none" /\ cycle' = "running")
           /\ \/ AskNext
              \/ UNCHANGED wanted /\ pc' # "asking"
              \/ UNCHANGED <<wanted, pc, at>>
<1>1. CASE AskNext
  BY <1>1 DEF AskNext, StillWanted, session, store, answers
<1>2. CASE ~AskNext
  <2>1. UNCHANGED <<wanted, crossed, replaced, stored>>
    BY <1>2 DEF Quiet, CycleBegins, NotDue, Discover, ReadNow, StillUnknown, Stopped,
                WalkEnds, ReadEnds, Reset, rescan, worker
  <2>2. crossed \subseteq wanted /\ replaced \subseteq wanted /\ stored \subseteq wanted
    BY DEF TypesInv, TypeOK
  <2>3. StillWanted
    BY <2>1, <2>2 DEF StillWanted
  <2>4. /\ UNCHANGED <<known, fresh, disk, writes, rejected, relisted, owed, settled>>
        /\ UNCHANGED pc \/ (pc # "listed" /\ pc' # "listed")
        /\ UNCHANGED cycle \/ (cycle = "none" /\ cycle' = "running")
        /\ pc' # "asking" \/ UNCHANGED <<pc, at>>
    BY <1>2 DEF Quiet, CycleBegins, NotDue, Discover, ReadNow, StillUnknown, Stopped,
                WalkEnds, ReadEnds, Reset, worker, store, answers, session
  <2>. QED BY <2>1, <2>3, <2>4
<1>. QED BY <1>1, <1>2

-----------------------------------------------------------------------------
(* Types *)

Session ==
    /\ readable \subseteq Devices /\ listDue \in BOOLEAN /\ first \in BOOLEAN
    /\ pc \in {"idle", "listing", "listed", "deciding", "walking", "asking", "reading"}
    /\ at \in 0 .. Len(Order) /\ cycle \in {"none", "running", "saving"}
    /\ tookTurn \in BOOLEAN /\ spent \in BOOLEAN
    /\ pc = "asking" => at > 0 /\ Here \in DOMAIN known

Marks ==
    /\ rejected \subseteq Modules /\ relisted \subseteq rejected
    /\ owed \in [Watched -> 0 .. Interval]
    /\ wanted \subseteq Modules /\ (crossed \cup replaced) \subseteq wanted
    /\ stored \subseteq wanted /\ settled \subseteq Modules

Lists ==
    /\ known \in Caches /\ fresh \in Caches /\ disk \in Caches
    /\ writes \in Seq(Images)
    /\ Sound(known) /\ Sound(fresh) /\ Sound(disk)
    /\ \A i \in DOMAIN writes : Sound(writes[i].cache)
    /\ pc # "listed" => fresh = <<>>

LEMMA TypesAre == TypesInv <=> Session /\ Marks /\ Lists
<1>1. TypesInv => Session /\ Marks /\ Lists
  BY DEF TypesInv, TypeOK, Session, Marks, Lists, Sound, Here
<1>2. ASSUME Session, Marks, Lists PROVE TypesInv
  <2>1. \A i \in DOMAIN writes :
          /\ writes[i].by \in {"cycle", "rescan"} /\ writes[i].cache \in Caches
          /\ writes[i].older \in BOOLEAN
    BY <1>2, Image DEF Lists
  <2>. QED BY <1>2, <2>1 DEF TypesInv, TypeOK, Session, Marks, Lists, Sound, Here
<1>. QED BY <1>1, <1>2

LEMMA TypesNext == TypesInv' <=> Session' /\ Marks' /\ Lists'
BY TypesAre, PTL

LEMMA InitTypes == Init => TypesInv
<1>. SUFFICES ASSUME Init PROVE TypesInv
  OBVIOUS
<1>1. Session
  <2>1. 0 \in 0 .. Len(Order)
    BY Constants
  <2>. QED BY <2>1 DEF Init, Session
<1>3. Marks
  <2>1. [m \in Watched |-> 0] \in [Watched -> 0 .. Interval]
    BY Constants
  <2>. QED BY <2>1 DEF Init, Marks
<1>2. Lists
  <2>1. <<>> \in Seq(Images)
    OBVIOUS
  <2>. QED BY <2>1, EmptyCache DEF Init, Lists, Sound
<1>. QED BY <1>1, <1>2, <1>3, TypesAre

LEMMA QuietTypes ==
    ASSUME TypesInv, Quiet
    PROVE  TypesInv'
<1>. USE TypesAre, TypesNext, QuietIs
<1>1. Lists'
  BY DEF Lists, Sound
<1>2. Marks'
  BY DEF Marks, StillWanted
<1>3. \A r \in Reachable : r \subseteq Devices
  BY DEF Reachable
<1>4. CASE AskNext
  <2>1. at' \in 1 .. Len(Order) /\ Order[at'] \in DOMAIN known
    BY <1>4, Constants DEF AskNext, Waiting, Session
  <2>. QED BY <1>1, <1>2, <1>4, <2>1 DEF AskNext, Session, session, Here
<1>5. CASE ~AskNext
  <2>1. at' \in {at, 0}
    BY <1>5 DEF Quiet, CycleBegins, NotDue, Discover, ReadNow, StillUnknown, Stopped,
                WalkEnds, ReadEnds, Reset, worker
  <2>2. readable' \subseteq Devices
    BY <1>3, <1>5 DEF Quiet, CycleBegins, NotDue, Discover, ReadNow, StillUnknown, Stopped,
                WalkEnds, ReadEnds, Reset, worker, session, Session
  <2>3. /\ listDue' \in BOOLEAN /\ first' \in BOOLEAN
        /\ tookTurn' \in BOOLEAN /\ spent' \in BOOLEAN
        /\ pc' \in {"idle", "listing", "listed", "deciding", "walking", "asking", "reading"}
    BY <1>5 DEF Quiet, CycleBegins, NotDue, Discover, ReadNow, StillUnknown, Stopped,
                WalkEnds, ReadEnds, Reset, worker, session, Session
  <2>4. pc' = "asking" => UNCHANGED <<pc, at>>
    BY <1>5
  <2>5. at' \in 0 .. Len(Order)
    BY <2>1, Constants DEF Session
  <2>6. Session'
    BY <2>2, <2>3, <2>4, <2>5 DEF Session, Here
  <2>. QED BY <1>1, <1>2, <2>6
<1>. QED BY <1>4, <1>5

LEMMA ListedTypes ==
    ASSUME TypesInv, Listed
    PROVE  /\ TypesInv'
           /\ \E left \in SUBSET Omitted : fresh' = [m \in Modules \ left |-> Carried(m)]
<1>. USE TypesAre, TypesNext
<1>1. PICK left \in SUBSET Omitted : fresh' = [m \in Modules \ left |-> Carried(m)]
  BY DEF Listed
<1>2. fresh' \in Caches
  BY <1>1, Builds DEF Lists
<1>3. Sound(fresh')
  <2>1. \A m \in Modules : Carried(m).refused = FALSE
    <3>1. Bare.refused = FALSE
      BY DEF Bare, Entry
    <3>2. \A m \in DOMAIN known : known[m] \in Entries
      BY IsCache DEF Lists
    <3>. QED BY <3>1, <3>2, EntriesChange DEF Carried
  <2>. QED BY <1>1, <2>1 DEF Sound
<1>4. Lists'
  BY <1>2, <1>3 DEF Listed, Lists, store, Sound
<1>5. Session'
  <2>1. readable' \subseteq Devices
    BY DEF Listed, Reachable
  <2>. QED BY <2>1 DEF Listed, Session, Here
<1>6. Marks'
  BY DEF Listed, Marks, answers, rescan
<1>. QED BY <1>1, <1>4, <1>5, <1>6

LEMMA AdoptedTypes ==
    ASSUME TypesInv, Adopted
    PROVE  TypesInv'
<1>. USE TypesAre, TypesNext
<1>1. Lists'
  BY EmptyCache DEF Adopted, Lists, store, Sound
<1>2. Session'
  BY DEF Adopted, Session
<1>3. Marks'
  BY DEF Adopted, Marks, StillWanted
<1>. QED BY <1>1, <1>2, <1>3

LEMMA AnswersTypes ==
    ASSUME TypesInv, NEW entry, NEW wait, Answered(entry, wait)
    PROVE  TypesInv'
<1>. USE TypesAre, TypesNext
<1>1. /\ pc = "asking" /\ pc' = "walking" /\ Here \in DOMAIN known
      /\ known' = [known EXCEPT ![Here] = entry] /\ DOMAIN known' = DOMAIN known
      /\ owed' = [w \in Watched |-> IF w = Here THEN wait ELSE owed[w]]
      /\ writes' = [i \in DOMAIN writes |-> [writes[i] EXCEPT !.older = TRUE]]
      /\ UNCHANGED <<fresh, session, at, tookTurn, spent, cycle, disk, rescan, settled>>
  BY DEF Answered, Book, Session, Here
<1>2. known' \in Caches
  BY <1>1, Builds DEF Answered, Lists
<1>3. Sound(known')
  BY <1>1, IsCache DEF Answered, Lists, Sound
<1>4. /\ writes' \in Seq(Images) /\ DOMAIN writes' = DOMAIN writes
      /\ \A i \in DOMAIN writes : writes'[i].cache = writes[i].cache
  BY <1>1, WritesGrowOld DEF Lists
<1>5. Lists'
  BY SMTT(40), <1>1, <1>2, <1>3, <1>4 DEF Lists, Sound
<1>6. Session'
  BY <1>1 DEF Session, session
<1>7. Marks'
  <2>1. Here \in Modules
    BY <1>1, IsCache DEF Lists
  <2>2. rejected' \subseteq Modules /\ relisted' \subseteq rejected'
    BY <2>1 DEF Answered, Marks
  <2>3. owed' \in [Watched -> 0 .. Interval]
    BY <1>1 DEF Answered, Marks
  <2>. QED BY <1>1, <2>2, <2>3 DEF Marks, rescan
<1>. QED BY <1>5, <1>6, <1>7

LEMMA SavesTypes ==
    ASSUME TypesInv, CycleSaves
    PROVE  TypesInv'
<1>. USE TypesAre, TypesNext
<1>1. UNCHANGED <<known, fresh, disk, session, worker, answers, rescan>>
  BY DEF CycleSaves
<1>2. CASE writes' = writes
  <2>1. Lists'
    BY <1>1, <1>2 DEF Lists, worker
  <2>2. Session' /\ Marks'
    BY <1>1 DEF CycleSaves, Session, Marks, worker, session, answers, rescan, Here
  <2>. QED BY <2>1, <2>2
<1>3. CASE writes' = Queue("cycle", known)
  <2>1. /\ writes' \in Seq(Images) /\ DOMAIN writes' = 1 .. Len(writes) + 1
        /\ Len(writes) \in Nat /\ DOMAIN writes = 1 .. Len(writes)
        /\ \A i \in 1 .. Len(writes) : writes'[i] = writes[i]
        /\ writes'[Len(writes) + 1].cache = known
    <3>1. known \in Caches /\ writes \in Seq(Images)
      BY DEF Lists
    <3>. QED BY <1>3, <3>1, WriteAdded
  <2>2. \A i \in DOMAIN writes' : Sound(writes'[i].cache)
    <3>. SUFFICES ASSUME NEW i \in DOMAIN writes' PROVE Sound(writes'[i].cache)
      OBVIOUS
    <3>1. i \in 1 .. Len(writes) \/ i = Len(writes) + 1
      BY <2>1
    <3>. QED BY <2>1, <3>1 DEF Lists
  <2>3. Lists'
    BY <1>1, <2>1, <2>2 DEF Lists, worker, Sound
  <2>4. Session' /\ Marks'
    BY <1>1 DEF CycleSaves, Session, Marks, worker, session, answers, rescan, Here
  <2>. QED BY <2>3, <2>4
<1>. QED BY <1>2, <1>3 DEF CycleSaves

LEMMA WrittenTypes ==
    ASSUME TypesInv, NEW ok \in BOOLEAN, Written(ok)
    PROVE  TypesInv'
<1>. USE TypesAre, TypesNext
<1>1. /\ writes' \in Seq(Images) /\ Head(writes) = writes[1]
      /\ Len(writes) \in Nat /\ Len(writes) > 0 /\ DOMAIN writes = 1 .. Len(writes)
      /\ DOMAIN writes' = 1 .. Len(writes) - 1
      /\ \A i \in 1 .. Len(writes) - 1 : writes'[i] = writes[i + 1]
  BY WriteGone DEF Written, Lists
<1>2. 1 \in DOMAIN writes /\ \A i \in DOMAIN writes' : i + 1 \in DOMAIN writes
  BY <1>1
<1>3. \A i \in DOMAIN writes' : Sound(writes'[i].cache)
  BY <1>1, <1>2 DEF Lists
<1>4. disk' \in Caches /\ Sound(disk')
  BY <1>1, <1>2, Image DEF Written, Lists
<1>5. Lists'
  BY <1>1, <1>3, <1>4 DEF Written, Lists, worker, Sound
<1>6. Session' /\ Marks'
  BY DEF Written, Session, Marks, worker, session, answers, Here
<1>. QED BY <1>5, <1>6

LEMMA RescanTypes ==
    ASSUME TypesInv, Rescan
    PROVE  TypesInv'
<1>. USE TypesAre, TypesNext
<1>1. /\ known' = Due(Marked) /\ writes' = Queue("rescan", known')
      /\ Asked({m \in DOMAIN known \cap Watched : HasList(m)})
      /\ UNCHANGED <<fresh, session, worker, cycle, disk, rejected, relisted, settled>>
  BY DEF Rescan
<1>2. known' \in Caches /\ DOMAIN known' = DOMAIN known
  BY <1>1, Builds DEF Lists, Due
<1>3. Sound(known')
  <2>1. \A m \in DOMAIN known : known[m] \in Entries
    BY IsCache DEF Lists
  <2>2. Interval \in 0 .. Interval /\ Interval >= Interval - Retry
    BY Constants
  <2>3. \A m \in DOMAIN known : /\ known'[m].list = known[m].list
                                /\ known'[m].refused = known[m].refused
                                /\ known'[m].age = Interval \/ known'[m].age = known[m].age
    BY <1>1, <2>1, <2>2, EntriesChange DEF Due
  <2>. QED BY <1>2, <2>2, <2>3 DEF Lists, Sound
<1>4. /\ writes' \in Seq(Images) /\ DOMAIN writes' = 1 .. Len(writes) + 1
      /\ Len(writes) \in Nat /\ DOMAIN writes = 1 .. Len(writes)
      /\ \A i \in 1 .. Len(writes) : writes'[i] = writes[i]
      /\ writes'[Len(writes) + 1].cache = known'
  <2>1. writes \in Seq(Images)
    BY DEF Lists
  <2>. QED BY <1>1, <1>2, <2>1, WriteAdded
<1>5. \A i \in DOMAIN writes' : Sound(writes'[i].cache)
  <2>. SUFFICES ASSUME NEW i \in DOMAIN writes' PROVE Sound(writes'[i].cache)
    OBVIOUS
  <2>1. i \in 1 .. Len(writes) \/ i = Len(writes) + 1
    BY <1>4
  <2>. QED BY <1>3, <1>4, <2>1 DEF Lists
<1>6. Lists'
  BY <1>1, <1>2, <1>3, <1>4, <1>5 DEF Lists, worker, Sound
<1>7. Session'
  BY <1>1, <1>2 DEF Session, worker, session, Here
<1>8. Marks'
  <2>1. DOMAIN known \subseteq Modules
    BY IsCache DEF Lists
  <2>2. owed' \in [Watched -> 0 .. Interval]
    BY <1>1, Constants DEF Asked, Marks
  <2>3. /\ wanted' \subseteq Modules /\ stored' \subseteq wanted'
        /\ (crossed' \cup replaced') \subseteq wanted'
    BY <1>1, <2>1 DEF Asked, Marks
  <2>. QED BY <1>1, <2>2, <2>3 DEF Marks
<1>. QED BY <1>6, <1>7, <1>8

LEMMA RestartTypes ==
    ASSUME TypesInv, Restart
    PROVE  TypesInv'
<1>. USE TypesAre, TypesNext
<1>1. Lists'
  <2>1. <<>> \in Seq(Images)
    OBVIOUS
  <2>. QED BY <2>1, EmptyCache DEF Restart, Lists, Sound
<1>2. Session'
  <2>1. 0 \in 0 .. Len(Order)
    BY Constants
  <2>. QED BY <2>1 DEF Restart, Session
<1>3. Marks'
  <2>1. owed' \in [Watched -> 0 .. Interval]
    BY Constants DEF Restart, Marks
  <2>. QED BY <2>1 DEF Restart, Marks, StillWanted
<1>. QED BY <1>1, <1>2, <1>3

(* An hour leaves what a list is, and who is described.                    *)
LEMMA HourIs ==
    ASSUME NEW c \in Caches
    PROVE  /\ DOMAIN Older(c) = DOMAIN c
           /\ \A m \in DOMAIN c :
                 /\ Older(c)[m].list = c[m].list /\ Older(c)[m].refused = c[m].refused
                 /\ Older(c)[m].age = IF c[m].age < Interval THEN c[m].age + 1 ELSE Interval
                 /\ c[m].age \in 0 .. Interval
<1>. SUFFICES ASSUME NEW m \in DOMAIN c
              PROVE  /\ Older(c)[m].list = c[m].list /\ Older(c)[m].refused = c[m].refused
                     /\ Older(c)[m].age =
                           IF c[m].age < Interval THEN c[m].age + 1 ELSE Interval
                     /\ c[m].age \in 0 .. Interval
  BY HourBuilds
<1>. DEFINE a == IF c[m].age < Interval THEN c[m].age + 1 ELSE Interval
<1>1. c[m] \in Entries
  BY IsCache
<1>2. c[m].age \in 0 .. Interval
  BY <1>1, EntriesChange
<1>3. a \in 0 .. Interval
  BY <1>2, Constants
<1>4. Older(c)[m] = [c[m] EXCEPT !.age = a]
  BY DEF Older
<1>. HIDE DEF a
<1>5. Older(c)[m].list = c[m].list /\ Older(c)[m].refused = c[m].refused /\ Older(c)[m].age = a
  BY <1>1, <1>3, <1>4, EntriesChange
<1>. QED BY <1>2, <1>5 DEF a

LEMMA HourTypes ==
    ASSUME TypesInv, HourPasses
    PROVE  TypesInv'
<1>. USE TypesAre, TypesNext
<1>1. known' \in Caches /\ disk' \in Caches
  BY HourBuilds DEF HourPasses, Lists
<1>2. ASSUME NEW c \in Caches, Sound(c) PROVE Sound(Older(c))
  <2>1. DOMAIN Older(c) = DOMAIN c
    BY HourIs
  <2>. SUFFICES ASSUME NEW m \in DOMAIN c, Older(c)[m].refused
                PROVE  Older(c)[m].list = "empty" /\ Older(c)[m].age >= Interval - Retry
    BY <2>1 DEF Sound
  <2>2. /\ Older(c)[m].list = c[m].list /\ Older(c)[m].refused = c[m].refused
        /\ Older(c)[m].age = IF c[m].age < Interval THEN c[m].age + 1 ELSE Interval
        /\ c[m].age \in 0 .. Interval
    BY HourIs
  <2>3. c[m].list = "empty" /\ c[m].age >= Interval - Retry
    BY <1>2, <2>2 DEF Sound
  <2>. QED BY <2>2, <2>3, Constants
<1>3. Sound(known') /\ Sound(disk')
  BY <1>2 DEF HourPasses, Lists
<1>4. Lists'
  BY <1>1, <1>3 DEF HourPasses, Lists, worker, Sound
<1>5. Session'
  BY DEF HourPasses, Session, worker, session
<1>6. Marks'
  <2>1. owed' \in [Watched -> 0 .. Interval]
    <3>1. \A m \in Watched : (IF owed[m] > 0 THEN owed[m] - 1 ELSE 0) \in 0 .. Interval
      BY SMTT(40), Constants DEF Marks
    <3>. QED BY <3>1 DEF HourPasses
  <2>. QED BY <2>1 DEF HourPasses, Marks, rescan
<1>. QED BY <1>4, <1>5, <1>6

LEMMA NextTypes ==
    ASSUME TypesInv, RefusalInv, [Next]_vars
    PROVE  TypesInv'
<1>1. CASE UNCHANGED vars
  BY <1>1 DEF vars, session, worker, store, answers, rescan, TypesInv, TypeOK, Sound
<1>2. CASE Answers
  BY <1>2, AnswersBook, AnswersTypes
<1>. QED BY <1>1, <1>2, Steps, QuietTypes, ListedTypes, AdoptedTypes, SavesTypes, WrittenTypes,
            RescanTypes, RestartTypes, HourTypes

-----------------------------------------------------------------------------
(* Who writes *)

LEMMA NextWrites ==
    ASSUME TypesInv, RefusalInv, WritesInv, [Next]_vars
    PROVE  WritesInv'
<1>. DEFINE n == Len(writes)
<1>1. n \in Nat /\ DOMAIN writes = 1 .. n /\ writes \in Seq(Images) /\ known \in Caches
      /\ known' \in Caches
  <2>1. TypesInv'
    BY NextTypes
  <2>. QED BY <2>1 DEF TypesInv, TypeOK
<1>2. CASE UNCHANGED <<writes, cycle>>
  BY <1>2 DEF WritesInv
<1>3. CASE Quiet
  BY <1>3, QuietIs DEF WritesInv
<1>4. CASE Answers
  <2>1. PICK entry, wait : Answered(entry, wait)
    BY <1>4, AnswersBook
  <2>2. UNCHANGED cycle /\ DOMAIN writes' = DOMAIN writes
        /\ \A i \in DOMAIN writes : writes'[i].by = writes[i].by
    BY <1>1, <2>1, WritesGrowOld DEF Answered, Book
  <2>. QED BY <2>2 DEF WritesInv
<1>5. CASE CycleSaves /\ writes' = Queue("cycle", known)
  <2>1. /\ DOMAIN writes' = 1 .. n + 1 /\ writes'[n + 1].by = "cycle"
        /\ \A i \in 1 .. n : writes'[i] = writes[i]
    BY <1>1, <1>5, WriteAdded
  <2>2. cycle = "running" /\ cycle' = "saving" /\ ~\E i \in 1 .. n : writes[i].by = "cycle"
    BY <1>1, <1>5, <2>1 DEF CycleSaves, WritesInv
  <2>. QED BY <1>1, <2>1, <2>2 DEF WritesInv
<1>6. CASE CycleSaves /\ writes' = writes /\ NothingToSave
  BY <1>6 DEF CycleSaves, WritesInv
<1>7. ASSUME NEW ok \in BOOLEAN, Written(ok) PROVE WritesInv'
  <2>1. /\ n > 0 /\ Head(writes) = writes[1] /\ DOMAIN writes' = 1 .. n - 1
        /\ \A i \in 1 .. n - 1 : writes'[i] = writes[i + 1]
    BY <1>1, <1>7, WriteGone DEF Written
  <2>2. cycle' = IF writes[1].by = "cycle" THEN "none" ELSE cycle
    BY <1>7, <2>1 DEF Written
  <2>3. \A i \in 1 .. n - 1 : i + 1 \in 1 .. n /\ i + 1 # 1
    BY <1>1
  <2>4. \A i, j \in DOMAIN writes' : writes'[i].by = writes'[j].by => i = j
    <3>. SUFFICES ASSUME NEW i \in 1 .. n - 1, NEW j \in 1 .. n - 1,
                         writes'[i].by = writes'[j].by
                  PROVE  i = j
      BY <2>1
    <3>1. i + 1 = j + 1
      <4>1. writes[i + 1].by = writes[j + 1].by
        BY <2>1
      <4>. QED BY <1>1, <2>3, <4>1 DEF WritesInv
    <3>. QED BY <1>1, <3>1
  <2>5. CASE writes[1].by = "cycle"
    <3>1. \A i \in 1 .. n - 1 : writes[i + 1].by # "cycle"
      BY <1>1, <2>1, <2>3, <2>5 DEF WritesInv
    <3>2. \A i \in 1 .. n - 1 : writes'[i].by # "cycle"
      BY <2>1, <3>1
    <3>. QED BY <2>1, <2>2, <2>4, <2>5, <3>2 DEF WritesInv
  <2>6. CASE writes[1].by # "cycle"
    <3>1. \A i \in 2 .. n : i - 1 \in 1 .. n - 1 /\ writes'[i - 1] = writes[i]
      BY <1>1, <2>1
    <3>2. (\E i \in 1 .. n : writes[i].by = "cycle") <=>
             \E i \in 1 .. n - 1 : writes'[i].by = "cycle"
      <4>1. ASSUME NEW i \in 1 .. n, writes[i].by = "cycle"
            PROVE  \E j \in 1 .. n - 1 : writes'[j].by = "cycle"
        <5>1. i \in 2 .. n
          BY <1>1, <2>6, <4>1
        <5>. QED BY <3>1, <4>1, <5>1
      <4>2. ASSUME NEW i \in 1 .. n - 1, writes'[i].by = "cycle"
            PROVE  \E j \in 1 .. n : writes[j].by = "cycle"
        BY <2>1, <2>3, <4>2
      <4>. QED BY <4>1, <4>2
    <3>. QED BY <1>1, <2>1, <2>2, <2>4, <2>6, <3>2 DEF WritesInv
  <2>. QED BY <2>5, <2>6
<1>8. CASE Rescan
  <2>1. /\ DOMAIN writes' = 1 .. n + 1 /\ writes'[n + 1].by = "rescan"
        /\ \A i \in 1 .. n : writes'[i] = writes[i]
    BY <1>1, <1>8, WriteAdded DEF Rescan
  <2>2. UNCHANGED cycle /\ \A i \in 1 .. n : writes[i].by # "rescan"
    BY <1>1, <1>8 DEF Rescan
  <2>3. ASSUME NEW i \in 1 .. n + 1, NEW j \in 1 .. n + 1, writes'[i].by = writes'[j].by
        PROVE  i = j
    <3>1. CASE i \in 1 .. n /\ j \in 1 .. n
      BY <1>1, <2>1, <2>3, <3>1 DEF WritesInv
    <3>2. CASE i = n + 1 \/ j = n + 1
      BY <1>1, <2>1, <2>2, <2>3, <3>2
    <3>. QED BY <1>1, <3>1, <3>2
  <2>4. (\E i \in 1 .. n + 1 : writes'[i].by = "cycle") <=>
           \E i \in 1 .. n : writes[i].by = "cycle"
    BY <1>1, <2>1
  <2>. QED BY <1>1, <2>1, <2>2, <2>3, <2>4 DEF WritesInv
<1>9. CASE Restart
  BY <1>9 DEF Restart, WritesInv
<1>10. CASE UNCHANGED vars \/ Listed \/ Adopted \/ HourPasses
  BY <1>2, <1>10 DEF vars, Listed, Adopted, HourPasses, store
<1>. QED BY <1>3, <1>4, <1>5, <1>6, <1>7, <1>8, <1>9, <1>10, Steps DEF CycleSaves

-----------------------------------------------------------------------------
(* When a module is asked *)

LEMMA Known ==
    ASSUME TypesInv
    PROVE  /\ \A m \in DOMAIN known : /\ known[m] \in Entries /\ m \in Modules
                                      /\ known[m].list \in {"none", "empty", "some"}
                                      /\ known[m].refused \in BOOLEAN
                                      /\ known[m].age \in 0 .. Interval
           /\ \A m \in DOMAIN fresh : fresh[m] \in Entries /\ m \in Modules
           /\ \A m \in DOMAIN disk : disk[m] \in Entries /\ m \in Modules
BY IsCache, EntriesChange DEF TypesInv, TypeOK

(* What a device list carries over.                                        *)
LEMMA CarriedIs ==
    ASSUME TypesInv, NEW m \in Modules
    PROVE  /\ Carried(m).list = (IF m \in DOMAIN known THEN known[m].list ELSE "none")
           /\ Carried(m).list # "none" => Carried(m).age = known[m].age
           /\ Carried(m).list # "none" => m \in DOMAIN known
<1>1. CASE m \in DOMAIN known /\ HasList(m)
  <2>1. Carried(m) = [known[m] EXCEPT !.refused = FALSE]
    BY <1>1 DEF Carried
  <2>. QED BY <1>1, <2>1, Known, EntriesChange
<1>2. CASE ~(m \in DOMAIN known /\ HasList(m))
  <2>1. Carried(m) = Bare
    BY <1>2 DEF Carried
  <2>. QED BY <1>2, <2>1 DEF Bare, Entry, HasList
<1>. QED BY <1>1, <1>2

(* What a mark changes.                                                    *)
LEMMA MarkedIs ==
    ASSUME TypesInv, Rescan
    PROVE  /\ DOMAIN known' = DOMAIN known
           /\ \A m \in DOMAIN known :
                 /\ known'[m].list = known[m].list /\ known'[m].refused = known[m].refused
                 /\ known'[m].age = IF HasList(m) THEN Interval ELSE known[m].age
<1>1. known' = Due(Marked)
  BY DEF Rescan
<1>2. Interval \in 0 .. Interval
  BY Constants
<1>3. ASSUME NEW m \in DOMAIN known
      PROVE  /\ known'[m].list = known[m].list /\ known'[m].refused = known[m].refused
             /\ known'[m].age = IF HasList(m) THEN Interval ELSE known[m].age
  <2>1. CASE HasList(m)
    <3>1. known'[m] = [known[m] EXCEPT !.age = Interval]
      BY <1>1, <1>3, <2>1 DEF Due, Marked
    <3>. QED BY <1>2, <1>3, <2>1, <3>1, Known, EntriesChange
  <2>2. CASE ~HasList(m)
    BY <1>1, <1>3, <2>2 DEF Due, Marked
  <2>. QED BY <2>1, <2>2
<1>. QED BY <1>1, <1>3 DEF Due

LEMMA NextAsk ==
    ASSUME TypesInv, RefusalInv, AskInv, [Next]_vars
    PROVE  AskInv'
<1>1. TypesInv'
  BY NextTypes
<1>2. /\ owed \in [Watched -> 0 .. Interval] /\ owed' \in [Watched -> 0 .. Interval]
      /\ pc = "asking" => Here \in DOMAIN known
      /\ pc # "listed" => fresh = <<>> /\ DOMAIN fresh = {}
  BY <1>1, EmptyCache DEF TypesInv, TypeOK, Here
<1>3. CASE UNCHANGED <<known, fresh, owed, pc, at>>
  BY <1>3 DEF AskInv, Spared, DescriptionIsDue, HasList
<1>4. CASE Quiet
  <2>1. UNCHANGED <<known, fresh, owed>>
    BY <1>4, QuietIs
  <2>2. CASE AskNext
    <3>1. at' \in Waiting
      BY <2>2 DEF AskNext
    <3>2. DescriptionIsDue(Order[at'])
      BY <3>1 DEF Waiting
    <3>. QED BY <2>1, <3>2 DEF AskInv, Spared, DescriptionIsDue, HasList
  <2>3. CASE pc' # "asking" \/ UNCHANGED <<pc, at>>
    BY <2>1, <2>3 DEF AskInv, Spared, DescriptionIsDue, HasList
  <2>. QED BY <1>4, <2>2, <2>3, QuietIs
<1>5. CASE Listed
  <2>1. PICK left \in SUBSET Omitted : fresh' = [m \in Modules \ left |-> Carried(m)]
    BY <1>5 DEF Listed
  <2>2. UNCHANGED <<known, owed>> /\ pc' = "listed"
    BY <1>5 DEF Listed, answers
  <2>3. \A m \in DOMAIN fresh' : fresh'[m].list # "none" =>
           m \in DOMAIN known /\ known[m].list # "none" /\ fresh'[m].age = known[m].age
    BY <2>1, CarriedIs
  <2>4. Spared(fresh)'
    BY <2>2, <2>3, <1>2 DEF AskInv, Spared
  <2>. QED BY <2>2, <2>4 DEF AskInv, Spared
<1>6. CASE Adopted
  BY <1>6, EmptyCache DEF Adopted, AskInv, Spared
<1>7. CASE Answers
  <2>1. PICK entry, wait : Answered(entry, wait)
    BY <1>7, AnswersBook
  <2>2. /\ pc = "asking" /\ pc' = "walking" /\ UNCHANGED fresh
        /\ known' = [known EXCEPT ![Here] = entry]
        /\ owed' = [w \in Watched |-> IF w = Here THEN wait ELSE owed[w]]
    BY <2>1 DEF Answered, Book, Here
  <2>3. Spared(known)'
    BY <1>2, <2>1, <2>2 DEF Answered, AskInv, Spared
  <2>. QED BY <1>2, <2>2, <2>3 DEF AskInv, Spared
<1>8. CASE Rescan
  <2>. DEFINE lists == {m \in DOMAIN known \cap Watched : HasList(m)}
  <2>1. /\ UNCHANGED <<fresh, pc, at>>
        /\ owed' = [m \in Watched |-> IF m \in lists THEN 0 ELSE owed[m]]
    BY <1>8 DEF Rescan, Asked, worker
  <2>2. Spared(known)'
    BY <1>2, <1>8, <2>1, MarkedIs, Known, Constants DEF AskInv, Spared, HasList
  <2>3. \A m \in Watched : owed'[m] <= owed[m]
    BY <1>2, <2>1, Constants
  <2>4. Spared(fresh)'
    <3>1. \A m \in DOMAIN fresh : fresh[m].age \in 0 .. Interval
      BY Known, EntriesChange
    <3>. QED BY SMTT(40), <1>2, <2>1, <2>3, <3>1, Constants DEF AskInv, Spared
  <2>5. pc' = "asking" => DescriptionIsDue(Order[at])'
    BY <1>2, <1>8, <2>1, MarkedIs DEF AskInv, DescriptionIsDue, HasList, Here
  <2>. QED BY <2>2, <2>4, <2>5 DEF AskInv
<1>9. CASE Restart
  <2>1. known' = disk /\ fresh' = <<>> /\ pc' = "idle" /\ DOMAIN fresh' = {}
    BY <1>9, EmptyCache DEF Restart
  <2>2. Spared(known)'
    <3>1. CASE known = disk
      BY <1>9, <2>1, <3>1 DEF Restart, AskInv, Spared
    <3>2. CASE known # disk
      <4>1. \A m \in Watched : owed'[m] = 0
        BY <1>9, <3>2 DEF Restart
      <4>2. \A m \in DOMAIN disk : disk[m].age \in 0 .. Interval
        BY Known, EntriesChange
      <4>. QED BY <2>1, <4>1, <4>2, Constants DEF Spared
    <3>. QED BY <3>1, <3>2
  <2>. QED BY <2>1, <2>2 DEF AskInv, Spared
<1>10. CASE HourPasses
  <2>1. /\ known' = Older(known) /\ pc = "idle" /\ UNCHANGED <<fresh, pc, at>>
        /\ owed' = [m \in Watched |-> IF owed[m] > 0 THEN owed[m] - 1 ELSE 0]
    BY <1>10 DEF HourPasses, worker
  <2>2. known \in Caches
    BY DEF TypesInv, TypeOK
  <2>3. Spared(known)'
    <3>. SUFFICES ASSUME NEW m \in DOMAIN known \cap Watched, known'[m].list # "none"
                  PROVE  owed'[m] + known'[m].age <= Interval
      BY <2>1, <2>2, HourIs DEF Spared
    <3>1. /\ known'[m].list = known[m].list /\ known[m].age \in 0 .. Interval
          /\ known'[m].age = IF known[m].age < Interval THEN known[m].age + 1 ELSE Interval
      BY <2>1, <2>2, HourIs
    <3>2. owed[m] + known[m].age <= Interval /\ owed[m] \in 0 .. Interval
      BY <1>2, <3>1 DEF AskInv, Spared
    <3>3. owed'[m] = IF owed[m] > 0 THEN owed[m] - 1 ELSE 0
      BY <2>1
    <3>4. /\ Interval \in Nat /\ owed[m] \in Nat /\ known[m].age \in Nat
          /\ known[m].age <= Interval
      BY <3>1, <3>2, Constants
    <3>5. CASE known[m].age < Interval
      BY <3>1, <3>2, <3>3, <3>4, <3>5
    <3>6. CASE known[m].age = Interval
      BY <3>1, <3>2, <3>3, <3>4, <3>6
    <3>. QED BY <3>4, <3>5, <3>6
  <2>. QED BY <1>2, <2>1, <2>3 DEF AskInv, Spared
<1>11. CASE UNCHANGED vars \/ CycleSaves \/ \E ok \in BOOLEAN : Written(ok)
  BY <1>3, <1>11 DEF vars, CycleSaves, Written, worker, answers
<1>. QED BY <1>4, <1>5, <1>6, <1>7, <1>8, <1>9, <1>10, <1>11, Steps

LEMMA NextRefusal ==
    ASSUME TypesInv, RefusalInv, [Next]_vars
    PROVE  RefusalInv'
<1>1. CASE UNCHANGED <<known, rejected, relisted>>
  BY <1>1 DEF RefusalInv
<1>2. CASE Adopted
  BY <1>2 DEF Adopted, RefusalInv
<1>3. CASE Answers
  <2>1. PICK entry, wait : Answered(entry, wait)
    BY <1>3, AnswersBook
  <2>2. /\ known' = [known EXCEPT ![Here] = entry] /\ DOMAIN known' = DOMAIN known
        /\ rejected' \ relisted' \subseteq (rejected \ relisted) \cup {Here}
        /\ Here \in rejected' \ relisted' /\ entry.list = "empty" => entry.refused
    BY <2>1 DEF Answered, Book, Here
  <2>. QED BY <2>2 DEF RefusalInv
<1>4. CASE Rescan
  BY <1>4, MarkedIs DEF Rescan, RefusalInv
<1>5. CASE Restart
  BY <1>5 DEF Restart, RefusalInv
<1>6. CASE HourPasses
  <2>1. known' = Older(known) /\ UNCHANGED <<rejected, relisted>> /\ known \in Caches
    BY <1>6 DEF HourPasses, TypesInv, TypeOK
  <2>. QED BY <2>1, HourIs DEF RefusalInv
<1>7. CASE UNCHANGED vars \/ Quiet \/ Listed \/ CycleSaves \/ \E ok \in BOOLEAN : Written(ok)
  BY <1>1, <1>7, QuietIs DEF vars, Listed, CycleSaves, Written, answers
<1>. QED BY <1>2, <1>3, <1>4, <1>5, <1>6, <1>7, Steps

(* A stale list that can be read is one the walk will come to.             *)
LEMMA SomeoneWaits ==
    ASSUME TypesInv, at = 0, SomeStale
    PROVE  Waiting # {}
<1>1. PICK m \in DOMAIN known : CanBeRead(m) /\ Stale(m)
  BY DEF SomeStale
<1>2. PICK i \in 1 .. Len(Order) : Order[i] = m
  BY Known, Constants
<1>3. i \in Waiting
  BY SMTT(40), <1>1, <1>2, Constants DEF Waiting, Stale, DescriptionIsDue
<1>. QED BY <1>3

LEMMA NextTurn ==
    ASSUME TypesInv, RefusalInv, TurnInv, [Next]_vars
    PROVE  TurnInv'
<1>1. CASE UNCHANGED <<tookTurn, spent, pc, at, known, readable>>
  BY <1>1 DEF TurnInv, SomeStale, CanBeRead, Stale, HasList
<1>2. CASE Quiet
  <2>1. CASE CycleBegins
    BY <1>1, <2>1 DEF CycleBegins, TurnInv
  <2>2. CASE Discover
    BY <2>2 DEF Discover, ReadNow, TurnInv, SomeStale, CanBeRead, Stale, HasList, session
  <2>3. CASE AskNext
    BY <2>3 DEF AskNext, TurnInv
  <2>4. CASE WalkEnds
    BY <2>4, SomeoneWaits DEF WalkEnds, TurnInv
  <2>5. CASE NotDue \/ StillUnknown \/ Stopped \/ ReadEnds \/ Reset
    BY <1>1, <2>5 DEF NotDue, StillUnknown, Stopped, ReadEnds, Reset, TurnInv, worker
  <2>. QED BY <1>2, <2>1, <2>2, <2>3, <2>4, <2>5 DEF Quiet
<1>3. CASE Listed \/ Adopted
  BY <1>3 DEF Listed, Adopted, TurnInv
<1>4. CASE Answers
  BY <1>4 DEF Answers, DescribedSome, DescribedEmpty, Rejected, Failed, Book, TurnInv
<1>5. CASE Rescan
  <2>1. UNCHANGED <<tookTurn, spent, pc, at, readable>>
    BY <1>5 DEF Rescan, worker, session
  <2>2. SomeStale => SomeStale'
    BY <1>5, <2>1, MarkedIs DEF SomeStale, CanBeRead, Stale, HasList
  <2>. QED BY <2>1, <2>2 DEF TurnInv
<1>6. CASE Restart
  BY <1>6 DEF Restart, TurnInv
<1>7. CASE HourPasses
  BY <1>7 DEF HourPasses, worker, TurnInv
<1>8. CASE UNCHANGED vars \/ CycleSaves \/ \E ok \in BOOLEAN : Written(ok)
  BY <1>1, <1>8 DEF vars, CycleSaves, Written, worker, session
<1>. QED BY <1>2, <1>3, <1>4, <1>5, <1>6, <1>7, <1>8, Steps

-----------------------------------------------------------------------------
(* What a search has marked *)

LEMMA FewerMarks ==
    ASSUME NEW marks, NEW fewer \in SUBSET marks, NEW cache, AllDue(marks, cache)
    PROVE  AllDue(fewer, cache)
BY DEF AllDue

(* The writes of which the newest marks are.                               *)
Newest(i) == \A j \in DOMAIN writes : j > i => writes[j].by # "rescan"

LEMMA NextMark ==
    ASSUME TypesInv, WritesInv, RefusalInv, AskInv, MarkInv, [Next]_vars
    PROVE  MarkInv'
<1>. DEFINE n == Len(writes)
<1>1. /\ n \in Nat /\ DOMAIN writes = 1 .. n /\ writes \in Seq(Images) /\ known \in Caches
      /\ known' \in Caches /\ Unmet \subseteq wanted /\ stored \subseteq wanted
      /\ pc = "asking" => Here \in DOMAIN known
      /\ pc # "listed" => fresh = <<>> /\ DOMAIN fresh = {}
      /\ TypesInv' /\ DOMAIN known \subseteq Modules
  BY NextTypes, EmptyCache, Known DEF TypesInv, TypeOK, Unmet, Here
<1>2. CASE UNCHANGED <<known, fresh, pc, at, writes, disk, rescan>>
  BY <1>2 DEF MarkInv, Unmet, AllDue, rescan
<1>3. CASE Quiet
  <2>1. /\ UNCHANGED <<known, fresh, disk, writes>> /\ wanted' \subseteq wanted
        /\ Unmet' = Unmet \cap wanted' /\ stored' = stored \cap wanted'
    BY <1>3, QuietIs DEF StillWanted, Unmet
  <2>2. /\ wanted' \ Unmet' \subseteq wanted \ Unmet
        /\ stored' \ Unmet' \subseteq stored \ Unmet
    BY <2>1
  <2>3. pc' = "asking" /\ Order[at'] \in wanted' => Order[at'] \in crossed'
    <3>1. CASE AskNext
      BY <3>1 DEF AskNext
    <3>2. CASE ~AskNext
      BY <1>3, <3>2, QuietIs DEF MarkInv, StillWanted
    <3>. QED BY <3>1, <3>2
  <2>. QED BY <2>1, <2>2, <2>3, FewerMarks DEF MarkInv
<1>4. CASE Listed
  <2>1. PICK left \in SUBSET Omitted : fresh' = [m \in Modules \ left |-> Carried(m)]
    BY <1>4 DEF Listed
  <2>2. UNCHANGED <<known, disk, writes, rescan>> /\ pc' = "listed"
    BY <1>4 DEF Listed, store
  <2>3. AllDue(wanted \ Unmet, fresh')
    BY <2>1, CarriedIs DEF MarkInv, AllDue
  <2>4. UNCHANGED <<Unmet, wanted, stored>>
    BY <2>2 DEF Unmet, rescan
  <2>. QED BY <2>2, <2>3, <2>4 DEF MarkInv, AllDue
<1>5. CASE Adopted
  <2>1. /\ known' = fresh /\ fresh' = <<>> /\ pc' = "deciding" /\ UNCHANGED <<disk, writes>>
        /\ wanted' \subseteq wanted
        /\ Unmet' = Unmet \cap wanted' /\ stored' = stored \cap wanted'
    BY <1>5 DEF Adopted, StillWanted, store, Unmet
  <2>2. /\ wanted' \ Unmet' \subseteq wanted \ Unmet
        /\ stored' \ Unmet' \subseteq stored \ Unmet
    BY <2>1
  <2>3. AllDue((wanted \ Unmet)', fresh')
    BY <2>1, EmptyCache DEF AllDue
  <2>. QED BY <2>1, <2>2, <2>3, FewerMarks DEF MarkInv
<1>6. CASE Answers
  <2>1. PICK entry, wait : Answered(entry, wait)
    BY <1>6, AnswersBook
  <2>2. /\ pc = "asking" /\ pc' = "walking" /\ UNCHANGED <<fresh, disk, rescan>>
        /\ known' = [known EXCEPT ![Here] = entry] /\ DOMAIN known' = DOMAIN known
        /\ DOMAIN writes' = DOMAIN writes
        /\ \A i \in DOMAIN writes : /\ writes'[i].by = writes[i].by
                                    /\ writes'[i].cache = writes[i].cache
    BY <1>1, <2>1, WritesGrowOld DEF Answered, Book, Here
  <2>3. UNCHANGED <<Unmet, wanted, stored, crossed>>
    BY <2>2 DEF Unmet, rescan
  <2>4. Here \notin wanted \ Unmet
    BY <2>2 DEF MarkInv, Unmet, Here
  <2>5. AllDue(wanted \ Unmet, known')
    BY <2>2, <2>4 DEF MarkInv, AllDue
  <2>. QED BY SMTT(40), <2>2, <2>3, <2>5 DEF MarkInv, AllDue
<1>7. CASE CycleSaves /\ writes' = Queue("cycle", known)
  <2>1. /\ DOMAIN writes' = 1 .. n + 1 /\ writes'[n + 1].cache = known
        /\ writes'[n + 1].by = "cycle"
        /\ \A i \in 1 .. n : writes'[i] = writes[i]
    BY <1>1, <1>7, WriteAdded
  <2>2. /\ UNCHANGED <<known, fresh, pc, at, disk, rescan>>
        /\ UNCHANGED <<Unmet, wanted, stored, crossed>>
    BY <1>7 DEF CycleSaves, worker, Unmet, rescan
  <2>3. ASSUME NEW i \in DOMAIN writes'
        PROVE  /\ AllDue(stored \ Unmet, writes'[i].cache)
               /\ Newest(i)' => AllDue(wanted \ Unmet, writes'[i].cache)
    <3>1. CASE i = n + 1
      BY <1>1, <2>1, <3>1, FewerMarks DEF MarkInv
    <3>2. CASE i \in 1 .. n
      <4>1. Newest(i)' => Newest(i)
        BY <1>1, <2>1 DEF Newest
      <4>. QED BY <1>1, <2>1, <3>2, <4>1 DEF MarkInv, Newest
    <3>. QED BY <1>1, <2>1, <3>1, <3>2
  <2>. QED BY <2>2, <2>3 DEF MarkInv, Newest
<1>8. ASSUME NEW ok \in BOOLEAN, Written(ok) PROVE MarkInv'
  <2>1. /\ n > 0 /\ Head(writes) = writes[1] /\ DOMAIN writes' = 1 .. n - 1
        /\ \A i \in 1 .. n - 1 : writes'[i] = writes[i + 1]
    BY <1>1, <1>8, WriteGone DEF Written
  <2>2. /\ UNCHANGED <<known, fresh, pc, at, wanted, crossed, replaced, Unmet>>
        /\ disk' = IF ok THEN writes[1].cache ELSE disk
        /\ stored' = IF ok /\ writes[1].by = "rescan" THEN wanted ELSE stored
    BY <1>8, <2>1 DEF Written, worker, Unmet
  <2>3. \A i \in 1 .. n - 1 : i + 1 \in 1 .. n /\ (Newest(i)' => Newest(i + 1))
    <3>. SUFFICES ASSUME NEW i \in 1 .. n - 1, Newest(i)', NEW j \in 1 .. n, j > i + 1
                  PROVE  writes[j].by # "rescan"
      BY <1>1 DEF Newest
    <3>1. j - 1 \in 1 .. n - 1 /\ j - 1 > i
      BY <1>1
    <3>2. writes'[j - 1] = writes[j]
      BY <1>1, <2>1, <3>1
    <3>. QED BY <2>1, <3>1, <3>2 DEF Newest
  <2>4. CASE ok /\ writes[1].by = "rescan"
    <3>1. \A j \in 1 .. n : j # 1 => writes[j].by # "rescan"
      BY SMTT(40), <1>1, <2>1, <2>4 DEF WritesInv
    <3>2. \A i \in 1 .. n : Newest(i)
      BY <1>1, <3>1 DEF Newest
    <3>3. \A i \in 1 .. n : AllDue(wanted \ Unmet, writes[i].cache)
      BY <1>1, <3>2 DEF MarkInv, Newest
    <3>4. stored' = wanted /\ disk' = writes[1].cache /\ 1 \in 1 .. n
      BY <1>1, <2>1, <2>2, <2>4
    <3>5. \A i \in DOMAIN writes' : AllDue(wanted \ Unmet, writes'[i].cache)
      BY <2>1, <2>3, <3>3
    <3>. QED BY <2>2, <3>3, <3>4, <3>5 DEF MarkInv
  <2>5. CASE ~(ok /\ writes[1].by = "rescan")
    <3>1. AllDue(stored \ Unmet, disk')
      <4>1. 1 \in DOMAIN writes
        BY <1>1, <2>1
      <4>. QED BY <2>2, <4>1 DEF MarkInv
    <3>2. ASSUME NEW i \in DOMAIN writes'
          PROVE  /\ AllDue(stored \ Unmet, writes'[i].cache)
                 /\ Newest(i)' => AllDue(wanted \ Unmet, writes'[i].cache)
      BY <1>1, <2>1, <2>3 DEF MarkInv, Newest
    <3>. QED BY <2>2, <2>5, <3>1, <3>2 DEF MarkInv, Newest
  <2>. QED BY <2>4, <2>5
<1>9. CASE Rescan
  <2>. DEFINE lists == {m \in DOMAIN known \cap Watched : HasList(m)}
  <2>1. /\ UNCHANGED <<fresh, pc, at, disk>>
        /\ \A i \in DOMAIN writes : writes[i].by # "rescan"
        /\ wanted' = wanted \cup lists
        /\ crossed' = (crossed \ lists) \cup {m \in lists : pc = "asking" /\ m = Here}
        /\ replaced' = (replaced \ lists) \cup {m \in lists : pc = "listed"}
        /\ stored' = stored \ Unmet
    BY <1>9 DEF Rescan, Asked, worker, Unmet, Here
  <2>2. /\ DOMAIN writes' = 1 .. n + 1 /\ writes'[n + 1].by = "rescan"
        /\ writes'[n + 1].cache = known'
        /\ \A i \in 1 .. n : writes'[i] = writes[i]
    BY <1>1, <1>9, WriteAdded DEF Rescan
  <2>3. \A marks : AllDue(marks, known')
    BY <1>9, MarkedIs DEF AllDue, HasList
  <2>4. stored' \ Unmet' \subseteq stored \ Unmet
    BY <2>1
  <2>5. AllDue(wanted' \ Unmet', fresh)
    <3>1. CASE pc = "listed"
      <4>1. wanted' \ Unmet' \subseteq wanted \ Unmet
        BY <2>1, <3>1 DEF Unmet
      <4>. QED BY <4>1, FewerMarks DEF MarkInv
    <3>2. CASE pc # "listed"
      BY <1>1, <3>2 DEF AllDue
    <3>. QED BY <3>1, <3>2
  <2>6. pc = "asking" /\ Here \in wanted' => Here \in crossed'
    BY <1>1, <2>1 DEF MarkInv, Here
  <2>7. ASSUME NEW i \in DOMAIN writes'
        PROVE  /\ AllDue(stored' \ Unmet', writes'[i].cache)
               /\ Newest(i)' => AllDue(wanted' \ Unmet', writes'[i].cache)
    <3>1. CASE i = n + 1
      BY <2>2, <2>3, <3>1
    <3>2. CASE i \in 1 .. n
      <4>1. ~Newest(i)'
        BY <1>1, <2>2, <3>2 DEF Newest
      <4>2. AllDue(stored \ Unmet, writes[i].cache)
        BY <1>1, <3>2 DEF MarkInv
      <4>. QED BY <2>2, <2>4, <3>2, <4>1, <4>2, FewerMarks
    <3>. QED BY <1>1, <2>2, <3>1, <3>2
  <2>8. AllDue(stored' \ Unmet', disk)
    BY <2>4, FewerMarks DEF MarkInv
  <2>. QED BY <2>1, <2>3, <2>5, <2>6, <2>7, <2>8 DEF MarkInv, Newest, Here
<1>10. CASE Restart
  <2>1. /\ known' = disk /\ UNCHANGED disk /\ writes' = <<>> /\ fresh' = <<>> /\ pc' = "idle"
        /\ wanted' = stored /\ stored' = stored /\ Unmet' = Unmet \cap stored
    BY <1>1, <1>10 DEF Restart, StillWanted, Unmet
  <2>2. wanted' \ Unmet' = stored \ Unmet /\ stored' \ Unmet' = stored \ Unmet
    BY <2>1
  <2>. QED BY <2>1, <2>2, EmptyCache DEF MarkInv, AllDue
<1>11. CASE HourPasses
  <2>1. /\ known' = Older(known) /\ disk' = Older(disk) /\ pc' = pc /\ pc = "idle"
        /\ UNCHANGED <<fresh, writes, rescan>> /\ writes = <<>>
        /\ known \in Caches /\ disk \in Caches
    BY <1>11 DEF HourPasses, worker, TypesInv, TypeOK
  <2>2. UNCHANGED <<Unmet, wanted, stored>>
    BY <2>1 DEF Unmet, rescan
  <2>3. ASSUME NEW c \in Caches, NEW marks, AllDue(marks, c) PROVE AllDue(marks, Older(c))
    <3>. SUFFICES ASSUME NEW m \in marks \cap DOMAIN c, Older(c)[m].list # "none"
                  PROVE  Older(c)[m].age = Interval
      BY HourIs DEF AllDue
    <3>1. c[m].age = Interval
      BY <2>3, HourIs DEF AllDue
    <3>. QED BY <3>1, HourIs, Constants
  <2>4. AllDue(wanted \ Unmet, known') /\ AllDue(stored \ Unmet, disk')
    BY <2>1, <2>3 DEF MarkInv
  <2>5. AllDue((wanted \ Unmet)', fresh') /\ DOMAIN writes' = {}
    BY <2>1, <2>2, EmptyCache DEF MarkInv
  <2>. QED BY <2>1, <2>2, <2>4, <2>5 DEF MarkInv
<1>12. CASE UNCHANGED vars \/ (CycleSaves /\ writes' = writes)
  BY <1>2, <1>12 DEF vars, CycleSaves, worker, store
<1>. QED BY <1>3, <1>4, <1>5, <1>6, <1>7, <1>8, <1>9, <1>10, <1>11, <1>12, Steps DEF CycleSaves

-----------------------------------------------------------------------------
(* What was found reaches the disk *)

LEMMA NextKeep ==
    ASSUME TypesInv, WritesInv, RefusalInv, KeepInv, [Next]_vars
    PROVE  KeepInv'
<1>. DEFINE n == Len(writes)
            Waits(j) == \E i \in 1 .. j : writes[i].by = "cycle"
<1>1. /\ n \in Nat /\ DOMAIN writes = 1 .. n /\ writes \in Seq(Images) /\ known \in Caches
      /\ known' \in Caches
  BY NextTypes DEF TypesInv, TypeOK
<1>2. CASE UNCHANGED <<known, fresh, disk, writes, settled>>
          /\ (UNCHANGED cycle \/ (cycle = "none" /\ cycle' = "running"))
          /\ (UNCHANGED pc \/ (pc # "listed" /\ pc' # "listed"))
  BY <1>2 DEF KeepInv, Described
<1>3. CASE Quiet
  BY <1>2, <1>3, QuietIs
<1>4. CASE Listed
  <2>1. PICK left \in SUBSET Omitted : fresh' = [m \in Modules \ left |-> Carried(m)]
    BY <1>4 DEF Listed
  <2>2. UNCHANGED <<known, disk, writes, cycle, settled>>
    BY <1>4 DEF Listed, store
  <2>3. Described(known) \cap DOMAIN fresh' = Described(fresh')
    BY <2>1, CarriedIs DEF Described
  <2>. QED BY <2>2, <2>3 DEF KeepInv, Described
<1>5. CASE Adopted
  <2>1. /\ known' = fresh /\ pc = "listed" /\ pc' = "deciding"
        /\ settled' = settled \cap DOMAIN fresh /\ UNCHANGED <<disk, writes, cycle>>
    BY <1>5 DEF Adopted, store
  <2>2. Described(known') \subseteq Described(known) /\ settled' \subseteq Described(known')
    BY <2>1 DEF KeepInv
  <2>. QED BY <2>1, <2>2 DEF KeepInv
<1>6. CASE Answers
  <2>1. PICK entry, wait : Answered(entry, wait)
    BY <1>6, AnswersBook
  <2>2. /\ pc' = "walking" /\ UNCHANGED <<fresh, disk, settled, cycle>>
        /\ known' = [known EXCEPT ![Here] = entry] /\ DOMAIN known' = DOMAIN known
        /\ known[Here].list = "some" => entry.list = "some"
        /\ DOMAIN writes' = DOMAIN writes
        /\ \A i \in DOMAIN writes : /\ writes'[i].by = writes[i].by
                                    /\ writes'[i].cache = writes[i].cache
                                    /\ writes'[i].older
    BY <1>1, <2>1, WritesGrowOld DEF Answered, Book, Here
  <2>3. Described(known) \subseteq Described(known')
    BY <2>2 DEF Described
  <2>4. \A j \in 1 .. n : \A i \in 1 .. j : writes'[i].by = writes[i].by
    BY <1>1, <2>2
  <2>5. \A j \in DOMAIN writes' :
           cycle' # "saving" \/ (\E i \in 1 .. j : writes'[i].by = "cycle") =>
              settled' \subseteq Described(writes'[j].cache)
    BY <1>1, <2>2, <2>4 DEF KeepInv
  <2>. QED BY <2>2, <2>3, <2>5 DEF KeepInv
<1>7. CASE CycleSaves /\ writes' = Queue("cycle", known) /\ cycle' = "saving"
  <2>1. /\ DOMAIN writes' = 1 .. n + 1 /\ writes'[n + 1].cache = known
        /\ \A i \in 1 .. n : writes'[i] = writes[i]
    BY <1>1, <1>7, WriteAdded
  <2>2. /\ UNCHANGED <<known, fresh, pc, disk>> /\ cycle = "running"
        /\ settled' = Described(known) \cap Watched
    BY <1>7 DEF CycleSaves, worker
  <2>3. \A i \in 1 .. n : writes'[i].by # "cycle"
    BY <1>1, <2>1, <2>2 DEF WritesInv
  <2>4. ASSUME NEW j \in DOMAIN writes', \E i \in 1 .. j : writes'[i].by = "cycle"
        PROVE  settled' \subseteq Described(writes'[j].cache)
    <3>1. j = n + 1
      BY <1>1, <2>1, <2>3, <2>4
    <3>. QED BY <2>1, <2>2, <3>1
  <2>5. ASSUME NEW i \in DOMAIN writes', ~writes'[i].older
        PROVE  Described(known) \subseteq Described(writes'[i].cache)
    <3>1. i = n + 1 \/ i \in 1 .. n
      BY <1>1, <2>1
    <3>. QED BY <1>1, <2>1, <2>5, <3>1 DEF KeepInv
  <2>. QED BY <1>7, <2>2, <2>4, <2>5 DEF KeepInv
<1>8. CASE CycleSaves /\ writes' = writes /\ cycle' = "none" /\ NothingToSave
  <2>1. /\ UNCHANGED <<known, fresh, pc, disk, writes>>
        /\ settled' = Described(known) \cap Watched
    BY <1>8 DEF CycleSaves, worker
  <2>2. settled' \subseteq Described(known)
    BY <2>1
  <2>3. CASE known = <<>>
    <3>1. Described(known) = {}
      BY <2>3, EmptyCache DEF Described
    <3>. QED BY <1>8, <2>1, <2>2, <3>1 DEF KeepInv
  <2>4. CASE known = disk /\ \A i \in DOMAIN writes : ~writes[i].older
    BY <1>8, <2>1, <2>2, <2>4 DEF KeepInv
  <2>. QED BY <1>8, <2>3, <2>4 DEF NothingToSave
<1>9. ASSUME NEW ok \in BOOLEAN, Written(ok) PROVE KeepInv'
  <2>1. /\ n > 0 /\ Head(writes) = writes[1] /\ DOMAIN writes' = 1 .. n - 1
        /\ \A i \in 1 .. n - 1 : writes'[i] = writes[i + 1]
    BY <1>1, <1>9, WriteGone DEF Written
  <2>2. /\ UNCHANGED <<known, fresh, pc>>
        /\ disk' = IF ok THEN writes[1].cache ELSE disk
        /\ cycle' = IF writes[1].by = "cycle" THEN "none" ELSE cycle
        /\ settled' = IF ok THEN settled ELSE settled \cap Described(disk)
    BY <1>9, <2>1 DEF Written, worker
  <2>3. 1 \in 1 .. n /\ \A i \in 1 .. n - 1 : i + 1 \in 1 .. n
    BY <1>1, <2>1
  <2>4. cycle # "saving" \/ writes[1].by = "cycle" =>
            settled \subseteq Described(writes[1].cache)
    <3>1. writes[1].by = "cycle" => \E i \in 1 .. 1 : writes[i].by = "cycle"
      OBVIOUS
    <3>. QED BY <1>1, <2>3, <3>1 DEF KeepInv
  <2>5. cycle' # "saving" => settled' \subseteq Described(disk')
    BY <2>2, <2>4 DEF KeepInv
  <2>6. ASSUME NEW j \in 1 .. n - 1,
               cycle' # "saving" \/ \E i \in 1 .. j : writes'[i].by = "cycle"
        PROVE  settled \subseteq Described(writes'[j].cache)
    <3>1. writes'[j] = writes[j + 1] /\ j + 1 \in 1 .. n
      BY <2>1, <2>3
    <3>2. cycle # "saving" \/ \E i \in 1 .. j + 1 : writes[i].by = "cycle"
      <4>1. CASE cycle' # "saving"
        <5>1. writes[1].by = "cycle" \/ cycle # "saving"
          BY <2>2, <4>1
        <5>2. 1 \in 1 .. j + 1
          BY <1>1
        <5>. QED BY <5>1, <5>2
      <4>2. CASE \E i \in 1 .. j : writes'[i].by = "cycle"
        <5>1. PICK i \in 1 .. j : writes'[i].by = "cycle"
          BY <4>2
        <5>2. i + 1 \in 1 .. j + 1 /\ i \in 1 .. n - 1
          BY <1>1
        <5>. QED BY <2>1, <5>1, <5>2
      <4>. QED BY <2>6, <4>1, <4>2
    <3>. QED BY <1>1, <3>1, <3>2 DEF KeepInv
  <2>7. \A i \in 1 .. n - 1 : ~writes'[i].older =>
           Described(known) \subseteq Described(writes'[i].cache)
    BY <1>1, <2>1, <2>3 DEF KeepInv
  <2>8. settled' \subseteq settled
    BY <2>2
  <2>. QED BY <2>1, <2>2, <2>5, <2>6, <2>7, <2>8 DEF KeepInv
<1>10. CASE Rescan
  <2>1. UNCHANGED <<fresh, pc, disk, cycle, settled>>
    BY <1>10 DEF Rescan, worker
  <2>2. /\ DOMAIN writes' = 1 .. n + 1 /\ writes'[n + 1].cache = known'
        /\ \A i \in 1 .. n : writes'[i] = writes[i]
        /\ writes'[n + 1].by = "rescan"
    BY <1>1, <1>10, WriteAdded DEF Rescan
  <2>3. Described(known') = Described(known)
    BY <1>10, MarkedIs DEF Described
  <2>4. ASSUME NEW j \in DOMAIN writes',
               cycle' # "saving" \/ \E i \in 1 .. j : writes'[i].by = "cycle"
        PROVE  settled' \subseteq Described(writes'[j].cache)
    <3>1. CASE j = n + 1
      BY <2>1, <2>2, <2>3, <3>1 DEF KeepInv
    <3>2. CASE j \in 1 .. n
      <4>1. \A i \in 1 .. j : writes'[i] = writes[i]
        BY <1>1, <2>2, <3>2
      <4>. QED BY <1>1, <2>1, <2>2, <2>4, <3>2, <4>1 DEF KeepInv
    <3>. QED BY <1>1, <2>2, <3>1, <3>2
  <2>5. ASSUME NEW i \in DOMAIN writes', ~writes'[i].older
        PROVE  Described(known') \subseteq Described(writes'[i].cache)
    <3>1. i = n + 1 \/ i \in 1 .. n
      BY <1>1, <2>2
    <3>. QED BY <1>1, <2>2, <2>3, <2>5, <3>1 DEF KeepInv
  <2>. QED BY <2>1, <2>3, <2>4, <2>5 DEF KeepInv
<1>11. CASE Restart
  BY <1>11, EmptyCache DEF Restart, KeepInv, Described
<1>12. CASE HourPasses
  <2>1. /\ known' = Older(known) /\ disk' = Older(disk) /\ pc' = pc /\ pc = "idle"
        /\ UNCHANGED <<fresh, writes, settled, cycle>> /\ writes = <<>> /\ cycle = "none"
        /\ known \in Caches /\ disk \in Caches
    BY <1>12 DEF HourPasses, worker, TypesInv, TypeOK
  <2>2. \A c \in Caches : Described(Older(c)) = Described(c)
    BY HourIs DEF Described
  <2>. QED BY <2>1, <2>2, EmptyCache DEF KeepInv
<1>13. CASE UNCHANGED vars
  BY <1>2, <1>13 DEF vars, worker, store
<1>14. CycleSaves => \/ writes' = Queue("cycle", known) /\ cycle' = "saving"
                     \/ writes' = writes /\ cycle' = "none" /\ NothingToSave
  BY DEF CycleSaves
<1>. QED BY <1>3, <1>4, <1>5, <1>6, <1>7, <1>8, <1>9, <1>10, <1>11, <1>12, <1>13, <1>14, Steps

-----------------------------------------------------------------------------
(* The theorems *)

LEMMA InitDiscovery == Init => DiscoveryInv
<1>. SUFFICES ASSUME Init PROVE DiscoveryInv
  OBVIOUS
<1>1. /\ DOMAIN known = {} /\ DOMAIN fresh = {} /\ DOMAIN disk = {} /\ DOMAIN writes = {}
      /\ writes = <<>> /\ pc = "idle" /\ cycle = "none" /\ tookTurn = FALSE
      /\ settled = {}
  BY EmptyCache DEF Init
<1>2. WritesInv /\ AskInv /\ RefusalInv /\ TurnInv /\ MarkInv
  BY <1>1 DEF WritesInv, AskInv, Spared, RefusalInv, TurnInv, MarkInv, AllDue
<1>3. KeepInv
  BY <1>1 DEF KeepInv
<1>. QED BY <1>2, <1>3, InitTypes DEF DiscoveryInv

(* The inductive invariant: what is booked, who waits, which marks and     *)
(* which lists are on their way to the disk.                               *)
THEOREM Invariance == Spec => []DiscoveryInv
<1>1. Init => DiscoveryInv
  BY InitDiscovery
<1>2. DiscoveryInv /\ [Next]_vars => DiscoveryInv'
  BY NextTypes, NextWrites, NextAsk, NextRefusal, NextTurn, NextMark, NextKeep DEF DiscoveryInv
<1>. QED BY <1>1, <1>2, PTL DEF Spec

(* The portal is asked for a description when it is time: not before the   *)
(* day, or the hour, that was booked is over, soon after a refusal, and    *)
(* with a turn that is spent if it was taken.                              *)
THEOREM InTime == Spec => []AskedInTime
<1>1. DiscoveryInv => LeftAlone
  <2>. SUFFICES ASSUME DiscoveryInv, pc = "asking", Here \in Watched, HasList(Here)
                PROVE  owed[Here] = 0
    BY DEF LeftAlone, Here
  <2>1. Here \in DOMAIN known /\ owed[Here] \in 0 .. Interval
    BY DEF DiscoveryInv, TypesInv, TypeOK, Here
  <2>2. known[Here].age = Interval /\ owed[Here] + known[Here].age <= Interval
    BY <2>1 DEF DiscoveryInv, AskInv, Spared, DescriptionIsDue, HasList, Here
  <2>. QED BY SMTT(40), <2>1, <2>2, Constants
<1>2. DiscoveryInv => RefusedIsAskedSoon
  BY DEF DiscoveryInv, RefusalInv, TypesInv, TypeOK, RefusedIsAskedSoon
<1>3. DiscoveryInv => TurnIsSpent
  BY DEF DiscoveryInv, TurnInv, TurnIsSpent
<1>4. DiscoveryInv => AskedInTime
  BY <1>1, <1>2, <1>3 DEF DiscoveryInv, TypesInv, AskedInTime
<1>. QED BY <1>4, Invariance, PTL

(* A search that was stopped is taken up again, over failures, sessions    *)
(* and a restart, and what an ended cycle found is on disk.                *)
THEOREM SearchesResume == Spec => []SearchesAreResumed
<1>1. DiscoveryInv => MarkedStaysDue
  BY DEF DiscoveryInv, MarkInv, AllDue, Unmet, MarkedStaysDue, DescriptionIsDue, HasList
<1>2. DiscoveryInv => EndedCyclesAreKept
  BY DEF DiscoveryInv, KeepInv, EndedCyclesAreKept
<1>3. DiscoveryInv => SearchesAreResumed
  BY <1>1, <1>2 DEF SearchesAreResumed
<1>. QED BY <1>3, Invariance, PTL

ListsStay ==
    \A m \in Described(known) :
        \/ m \in Described(known')
        \/ pc = "listed" /\ m \notin DOMAIN known'
        \/ m \notin Described(disk)

(* A list that works is only ever replaced by another one, taken away by a *)
(* device list without its module, or forgotten by a restart that never    *)
(* had it on disk.                                                         *)
THEOREM ListsAreKept == Spec => NoListIsLost
<1>1. DiscoveryInv /\ [Next]_vars => ListsStay
  <2>. SUFFICES ASSUME DiscoveryInv, [Next]_vars PROVE ListsStay
    OBVIOUS
  <2>1. CASE UNCHANGED known
    BY <2>1 DEF ListsStay
  <2>2. CASE Adopted
    BY <2>2 DEF Adopted, ListsStay, DiscoveryInv, KeepInv
  <2>3. CASE Answers
    <3>1. PICK entry, wait : Answered(entry, wait)
      BY <2>3, AnswersBook DEF DiscoveryInv
    <3>2. /\ known' = [known EXCEPT ![Here] = entry]
          /\ known[Here].list = "some" => entry.list = "some"
      BY <3>1 DEF Answered, Book, Here
    <3>. QED BY <3>2 DEF ListsStay, Described
  <2>4. CASE Rescan
    BY <2>4, MarkedIs DEF ListsStay, Described, DiscoveryInv
  <2>5. CASE Restart
    BY <2>5 DEF Restart, ListsStay
  <2>6. CASE HourPasses
    BY <2>6, HourIs DEF HourPasses, ListsStay, Described, DiscoveryInv, TypesInv, TypeOK
  <2>7. CASE UNCHANGED vars \/ Quiet \/ Listed \/ CycleSaves \/ \E ok \in BOOLEAN : Written(ok)
    BY <2>1, <2>7, QuietIs DEF vars, Listed, CycleSaves, Written, DiscoveryInv
  <2>. QED BY <2>2, <2>3, <2>4, <2>5, <2>6, <2>7, Steps
<1>. QED BY <1>1, Invariance, PTL DEF Spec, NoListIsLost, ListsStay

HIDE DiscoveryAssumption

-----------------------------------------------------------------------------
(* The turns that Discovery takes: HeavyFetchTurns.  The claim of a cycle  *)
(* is its burst, and who waits moves up with every turn that goes by.  The *)
(* queue is settled kind by kind; as nobody is queued twice it is no       *)
(* longer than there are kinds, and three steps of the recursion are       *)
(* enough.                                                                 *)


LEMMA ThreeKinds ==
    /\ Kinds = {"parameters", "schedules", "statistics"}
    /\ Len(AskingOrder) = 3 /\ None \notin Kinds
BY DEF Kinds, AskingOrder, ToSet, None

-----------------------------------------------------------------------------
(* Settling the queue *)

Distinct(s) == \A i, j \in 1..Len(s) : s[i] = s[j] => i = j

(* Of three kinds, a queue without one has two at most, and so on.         *)
LEMMA ShortQueue ==
    ASSUME NEW s \in Seq(Kinds), Distinct(s)
    PROVE  /\ Len(s) \in 0..3
           /\ \A k \in Kinds : ~Contains(s, k) => Len(s) <= 2
           /\ \A j, k \in Kinds :
                 j # k /\ ~Contains(s, j) /\ ~Contains(s, k) => Len(s) <= 1
<1>1. Len(s) \in Nat /\ \A i \in 1..Len(s) : s[i] \in {"parameters", "schedules", "statistics"}
  BY ThreeKinds
<1>2. \A i, j \in 1..Len(s) : i # j => s[i] # s[j]
  BY DEF Distinct
<1>3. Len(s) <= 3
  <2>. SUFFICES ASSUME Len(s) > 3 PROVE FALSE
    BY <1>1
  <2>1. 1 \in 1..Len(s) /\ 2 \in 1..Len(s) /\ 3 \in 1..Len(s) /\ 4 \in 1..Len(s)
    BY <1>1
  <2>. QED
    BY <1>1, <1>2, <2>1
<1>4. ASSUME NEW k \in Kinds, ~Contains(s, k) PROVE Len(s) <= 2
  <2>. SUFFICES ASSUME Len(s) > 2 PROVE FALSE
    BY <1>1
  <2>1. 1 \in 1..Len(s) /\ 2 \in 1..Len(s) /\ 3 \in 1..Len(s)
    BY <1>1
  <2>2. \A i \in 1..Len(s) : s[i] # k
    BY <1>4 DEF Contains
  <2>. QED
    BY <1>1, <1>2, <1>4, <2>1, <2>2, ThreeKinds
<1>5. ASSUME NEW j \in Kinds, NEW k \in Kinds, j # k, ~Contains(s, j), ~Contains(s, k)
      PROVE  Len(s) <= 1
  <2>. SUFFICES ASSUME Len(s) > 1 PROVE FALSE
    BY <1>1
  <2>1. 1 \in 1..Len(s) /\ 2 \in 1..Len(s)
    BY <1>1
  <2>2. \A i \in 1..Len(s) : s[i] # k /\ s[i] # j
    BY <1>5 DEF Contains
  <2>. QED
    BY <1>1, <1>2, <1>5, <2>1, <2>2, ThreeKinds
<1>6. Len(s) \in 0..3
  <2>1. \A l \in Nat : l <= 3 => l \in 0..3
    OBVIOUS
  <2>. QED BY <1>1, <1>3, <2>1
<1>. QED
  BY <1>4, <1>5, <1>6

Step(s, n) == IF queue[n] \in asked THEN Append(s, queue[n]) ELSE s

LEMMA KeptIs ==
    ASSUME queue \in Seq(Kinds), Len(queue) \in 0..3
    PROVE  /\ Kept[0] = <<>>
           /\ \A n \in 1..Len(queue) : Kept[n] = Step(Kept[n - 1], n)
<1>. DEFINE L == Len(queue)
            g == [n \in 0..L |->
                    IF n = 0 THEN <<>>
                    ELSE IF n = 1 THEN Step(<<>>, 1)
                    ELSE IF n = 2 THEN Step(Step(<<>>, 1), 2)
                    ELSE Step(Step(Step(<<>>, 1), 2), 3)]
            Is(f) == f = [n \in 0..L |-> IF n = 0 THEN <<>> ELSE Step(f[n - 1], n)]
<1>1. L \in 0..3
  OBVIOUS
<1>2. Kept = CHOOSE f : Is(f)
  BY DEF Kept, Step
<1>. HIDE DEF L
<1>3. Is(g)
  <2>1. ASSUME NEW n \in 0..L
        PROVE  g[n] = IF n = 0 THEN <<>> ELSE Step(g[n - 1], n)
    <3>1. n = 0 \/ n = 1 \/ n = 2 \/ n = 3
      BY <1>1, <2>1
    <3>2. n # 0 => n - 1 \in 0..L
      BY <1>1, <2>1
    <3>. QED
      BY <1>1, <3>1, <3>2
  <2>. QED
    BY <2>1
<1>. HIDE DEF g
<1>4. Is(Kept)
  <2>. HIDE DEF Is
  <2>. QED
    BY <1>2, <1>3
<1>5. Kept[0] = <<>> /\ \A n \in 1..L : Kept[n] = Step(Kept[n - 1], n)
  BY <1>1, <1>4
<1>. QED
  BY <1>5 DEF L

(* What is kept of the first n: those that asked, in the order in which    *)
(* they waited, each at its place or further on.                           *)
Waited(s, n) ==
    \A i \in 1..Len(s) : \E j \in 1..n :
        /\ i <= j /\ s[i] = queue[j] /\ queue[j] \in asked
        /\ queue[1] \notin asked => i < j
AllStay(s, n) == \A j \in 1..n : queue[j] \in asked => \E i \in 1..Len(s) : s[i] = queue[j]
InOrder(s, n) ==
    \A i, m \in 1..Len(s) : \A j, l \in 1..n :
        i < m /\ s[i] = queue[j] /\ s[m] = queue[l] => j < l

KeepsOrder(s, n) ==
    s \in Seq(Kinds) /\ Len(s) <= n /\ Waited(s, n) /\ AllStay(s, n) /\ InOrder(s, n)

LEMMA KeptStep ==
    ASSUME queue \in Seq(Kinds), Distinct(queue), NEW n \in 1..Len(queue),
           NEW s, KeepsOrder(s, n - 1), NEW t, t = Step(s, n)
    PROVE  KeepsOrder(t, n)
<1>1. queue[n] \in Kinds /\ n \in Nat /\ n >= 1 /\ n <= Len(queue)
  OBVIOUS
<1>2. /\ s \in Seq(Kinds) /\ Len(s) \in Nat /\ Len(s) <= n - 1
      /\ \A i \in 1..Len(s) : s[i] \in Kinds
  BY DEF KeepsOrder
<1>3. \A j \in 1..(n - 1) : j \in 1..n /\ j < n /\ queue[j] # queue[n]
  BY <1>1 DEF Distinct
<1>4. \A i \in 1..Len(s) : s[i] # queue[n]
  BY <1>3 DEF KeepsOrder, Waited
<1>5. CASE queue[n] \in asked
  <2>1. t = Append(s, queue[n])
    BY <1>5 DEF Step
  <2>2. /\ t \in Seq(Kinds) /\ Len(t) = Len(s) + 1 /\ t[Len(s) + 1] = queue[n]
        /\ \A i \in 1..Len(s) : t[i] = s[i]
    BY <1>1, <1>2, <2>1
  <2>3. Waited(t, n)
    <3>. SUFFICES ASSUME NEW i \in 1..Len(t)
                  PROVE  \E j \in 1..n : /\ i <= j /\ t[i] = queue[j] /\ queue[j] \in asked
                                         /\ queue[1] \notin asked => i < j
      BY DEF Waited
    <3>1. CASE i = Len(s) + 1
      <4>1. n \in 1..n /\ i <= n /\ t[i] = queue[n]
        BY <1>1, <1>2, <2>2, <3>1
      <4>2. ASSUME queue[1] \notin asked PROVE i < n
        <5>1. CASE Len(s) = 0
          BY <1>1, <1>5, <3>1, <4>2, <5>1
        <5>2. CASE Len(s) # 0
          <6>1. Len(s) \in 1..Len(s)
            BY <1>2, <5>2
          <6>2. PICK j \in 1..(n - 1) : Len(s) < j
            BY <4>2, <6>1 DEF KeepsOrder, Waited
          <6>. QED
            BY <1>1, <1>2, <3>1, <6>2
        <5>. QED BY <5>1, <5>2
      <4>. QED
        BY <1>5, <4>1, <4>2
    <3>2. CASE i # Len(s) + 1
      <4>1. i \in 1..Len(s) /\ t[i] = s[i]
        BY <1>2, <2>2, <3>2
      <4>2. PICK j \in 1..(n - 1) : /\ i <= j /\ s[i] = queue[j] /\ queue[j] \in asked
                                    /\ queue[1] \notin asked => i < j
        BY <4>1 DEF KeepsOrder, Waited
      <4>. QED
        BY <1>3, <4>1, <4>2
    <3>. QED
      BY <3>1, <3>2
  <2>4. AllStay(t, n)
    <3>. SUFFICES ASSUME NEW j \in 1..n, queue[j] \in asked
                  PROVE  \E i \in 1..Len(t) : t[i] = queue[j]
      BY DEF AllStay
    <3>1. CASE j = n
      BY <1>2, <2>2, <3>1
    <3>2. CASE j # n
      <4>1. j \in 1..(n - 1)
        BY <1>1, <3>2
      <4>2. PICK i \in 1..Len(s) : s[i] = queue[j]
        BY <4>1 DEF KeepsOrder, AllStay
      <4>. QED
        BY <1>2, <2>2, <4>2
    <3>. QED
      BY <3>1, <3>2
  <2>5. InOrder(t, n)
    <3>. SUFFICES ASSUME NEW i \in 1..Len(t), NEW m \in 1..Len(t), NEW j \in 1..n,
                         NEW l \in 1..n, i < m, t[i] = queue[j], t[m] = queue[l]
                  PROVE  j < l
      BY DEF InOrder
    <3>1. i \in 1..Len(s) /\ t[i] = s[i]
      BY <1>2, <2>2
    <3>2. j # n
      BY <1>4, <3>1
    <3>3. j \in 1..(n - 1)
      BY <1>1, <3>2
    <3>4. CASE m = Len(s) + 1
      <4>1. n \in 1..Len(queue) /\ l \in 1..Len(queue) /\ queue[l] = queue[n]
        BY <1>1, <2>2, <3>4
      <4>2. l = n
        BY <4>1 DEF Distinct
      <4>. QED
        BY <1>1, <3>3, <4>2
    <3>5. CASE m # Len(s) + 1
      <4>1. m \in 1..Len(s) /\ t[m] = s[m]
        BY <1>2, <2>2, <3>5
      <4>2. l # n
        BY <1>4, <4>1
      <4>3. l \in 1..(n - 1)
        BY <1>1, <4>2
      <4>. QED
        BY <3>1, <3>3, <4>1, <4>3 DEF KeepsOrder, InOrder
    <3>. QED
      BY <3>4, <3>5
  <2>. QED
    BY <1>1, <1>2, <2>2, <2>3, <2>4, <2>5 DEF KeepsOrder
<1>6. CASE queue[n] \notin asked
  <2>1. t = s
    BY <1>6 DEF Step
  <2>2. Waited(s, n)
    BY <1>3 DEF KeepsOrder, Waited
  <2>3. AllStay(s, n)
    BY <1>1, <1>6 DEF KeepsOrder, AllStay
  <2>4. InOrder(s, n)
    <3>. SUFFICES ASSUME NEW i \in 1..Len(s), NEW m \in 1..Len(s), NEW j \in 1..n,
                         NEW l \in 1..n, i < m, s[i] = queue[j], s[m] = queue[l]
                  PROVE  j < l
      BY DEF InOrder
    <3>1. j # n /\ l # n
      BY <1>4
    <3>2. j \in 1..(n - 1) /\ l \in 1..(n - 1)
      BY <1>1, <3>1
    <3>. QED
      BY <3>2 DEF KeepsOrder, InOrder
  <2>. QED
    BY <1>1, <1>2, <2>1, <2>2, <2>3, <2>4 DEF KeepsOrder
<1>. QED
  BY <1>5, <1>6

LEMMA KeptKeepsOrder ==
    ASSUME queue \in Seq(Kinds), Distinct(queue)
    PROVE  KeepsOrder(Kept[Len(queue)], Len(queue))
<1>1. Len(queue) \in 0..3
  BY ShortQueue
<1>2. KeepsOrder(Kept[0], 0)
  <2>1. Kept[0] = <<>>
    BY <1>1, KeptIs
  <2>2. <<>> \in Seq(Kinds) /\ Len(<<>>) = 0 /\ 1..0 = {}
    OBVIOUS
  <2>. QED
    BY <2>1, <2>2 DEF KeepsOrder, Waited, AllStay, InOrder
<1>3. ASSUME NEW n \in 1..Len(queue), KeepsOrder(Kept[n - 1], n - 1)
      PROVE  KeepsOrder(Kept[n], n)
  BY <1>1, <1>3, KeptIs, KeptStep
<1>4. Len(queue) >= 1 => KeepsOrder(Kept[1], 1)
  <2>1. 1 - 1 = 0
    OBVIOUS
  <2>. QED BY <1>1, <1>2, <1>3, <2>1
<1>5. Len(queue) >= 2 => KeepsOrder(Kept[2], 2)
  <2>1. 2 - 1 = 1
    OBVIOUS
  <2>. QED BY <1>1, <1>3, <1>4, <2>1
<1>6. Len(queue) >= 3 => KeepsOrder(Kept[3], 3)
  <2>1. 3 - 1 = 2
    OBVIOUS
  <2>. QED BY <1>1, <1>3, <1>5, <2>1
<1>7. Len(queue) = 0 \/ Len(queue) = 1 \/ Len(queue) = 2 \/ Len(queue) = 3
  BY <1>1
<1>8. CASE Len(queue) = 0
  BY <1>2, <1>8
<1>9. CASE Len(queue) = 1
  BY <1>4, <1>9
<1>10. CASE Len(queue) = 2
  BY <1>5, <1>10
<1>11. CASE Len(queue) = 3
  BY <1>6, <1>11
<1>. QED
  BY <1>7, <1>8, <1>9, <1>10, <1>11

-----------------------------------------------------------------------------
(* The inductive invariant *)

TypesOK ==
    /\ claimed \in Kinds \cup {None}
    /\ queue \in Seq(Kinds) /\ Distinct(queue)
    /\ asked \subseteq Kinds /\ due \subseteq Kinds
    /\ place \in 0..3
    /\ missing \in BOOLEAN /\ cutShort \in BOOLEAN
    /\ ran \subseteq Kinds /\ skipped \subseteq Kinds
    /\ turnedAway \in [Kinds -> Nat]

(* What ran in this cycle is what the cycle is claimed for. *)
ClaimInv ==
    \/ claimed = None /\ ran = {}
    \/ claimed # None /\ ran = {claimed}

(* How often a kind was turned away and how many wait before it, together: *)
(* the cycle is claimed by one that waited before, or that one is given up *)
(* as it did not ask.                                                      *)
Most(k) ==
    IF claimed = None THEN IF k \in asked THEN 4 ELSE 3
    ELSE IF k \in asked THEN 3 ELSE 2

WaitInv ==
    /\ claimed # None => claimed \in asked /\ ~InQueue(claimed)
    /\ claimed = None /\ queue # <<>> => queue[1] \notin asked
    /\ \A k \in asked : k = claimed \/ InQueue(k)
    /\ \A k \in Kinds : ~InQueue(k) => turnedAway[k] = 0
    /\ \A i \in 1..Len(queue) : turnedAway[queue[i]] + i <= Most(queue[i])

TurnsInv == TypesOK /\ ClaimInv /\ WaitInv

LEMMA InitTurns == TurnsInit => TurnsInv
<1>. SUFFICES ASSUME TurnsInit PROVE TurnsInv
  OBVIOUS
<1>1. TypesOK
  <2>1. <<>> \in Seq(Kinds) /\ Distinct(<<>>)
    BY DEF Distinct
  <2>2. turnedAway \in [Kinds -> Nat]
    BY DEF TurnsInit
  <2>3. place \in 0..3
    BY DEF TurnsInit
  <2>4. /\ missing \in BOOLEAN /\ cutShort \in BOOLEAN
        /\ queue = <<>> /\ claimed = None
        /\ asked = {} /\ due = {} /\ ran = {} /\ skipped = {}
    BY DEF TurnsInit
  <2>. QED
    BY <2>1, <2>2, <2>3, <2>4, Zenon DEF TypesOK
<1>2. ClaimInv
  BY DEF TurnsInit, ClaimInv
<1>3. WaitInv
  BY DEF TurnsInit, WaitInv
<1>. QED
  BY <1>1, <1>2, <1>3 DEF TurnsInv

-----------------------------------------------------------------------------
(* A cycle begins *)

LEMMA QueueSettled ==
    ASSUME TurnsInv, NewCycle
    PROVE  /\ queue' \in Seq(Kinds) /\ Distinct(queue')
           /\ \A i \in 1..Len(queue') : \E j \in 1..Len(queue) :
                 /\ i <= j /\ queue'[i] = queue[j]
                 /\ asked # {} => queue[j] \in asked /\ (queue[1] \notin asked => i < j)
           /\ \A i, m \in 1..Len(queue') : \A j, l \in 1..Len(queue) :
                 i < m /\ queue'[i] = queue[j] /\ queue'[m] = queue[l] => j < l
<1>1. queue \in Seq(Kinds) /\ Distinct(queue) /\ Len(queue) \in Nat
  BY DEF TurnsInv, TypesOK
<1>2. CASE asked = {}
  BY <1>1, <1>2 DEF NewCycle, Distinct
<1>3. CASE asked # {}
  <2>1. queue' = Kept[Len(queue)]
    BY <1>3 DEF NewCycle
  <2>2. KeepsOrder(queue', Len(queue))
    BY <1>1, <2>1, KeptKeepsOrder
  <2>3. Len(queue') \in Nat
    BY <2>2 DEF KeepsOrder
  <2>4. ASSUME NEW i \in 1..Len(queue'), NEW m \in 1..Len(queue'), i < m
        PROVE  queue'[i] # queue'[m]
    <3>1. PICK j \in 1..Len(queue) : queue'[i] = queue[j]
      BY <2>2 DEF KeepsOrder, Waited
    <3>. QED
      BY <1>1, <2>2, <2>4, <3>1 DEF KeepsOrder, InOrder
  <2>5. Distinct(queue')
    <3>. SUFFICES ASSUME NEW i \in 1..Len(queue'), NEW m \in 1..Len(queue'),
                         queue'[i] = queue'[m], i # m
                  PROVE  FALSE
      BY DEF Distinct
    <3>1. i < m \/ m < i
      BY <2>3
    <3>. QED
      BY <2>4, <3>1
  <2>. QED
    BY <2>2, <2>5 DEF KeepsOrder, Waited, InOrder
<1>. QED
  BY <1>2, <1>3

LEMMA BeginStep == ASSUME TurnsInv, NEW reads \in BOOLEAN, BeginCycle(reads) PROVE TurnsInv'
<1>1. NewCycle /\ claimed' = None /\ asked' = {} /\ ran' = {}
  BY DEF BeginCycle, NewCycle
<1>2. /\ queue' \in Seq(Kinds) /\ Distinct(queue')
      /\ \A i \in 1..Len(queue') : \E j \in 1..Len(queue) :
            /\ i <= j /\ queue'[i] = queue[j]
            /\ asked # {} => queue[j] \in asked /\ (queue[1] \notin asked => i < j)
  BY <1>1, QueueSettled
<1>3. \A k \in Kinds :
         turnedAway'[k] = IF InQueue(k) /\ ~InQueue(k)' THEN 0 ELSE turnedAway[k]
  BY DEF BeginCycle, InQueue
<1>4. TypesOK'
  <2>1. turnedAway' \in [Kinds -> Nat]
    BY DEF BeginCycle, TurnsInv, TypesOK
  <2>2. place' \in 0..3
    BY DEF BeginCycle
  <2>3. cutShort' = FALSE /\ skipped' = {} /\ UNCHANGED <<due, missing>>
    BY DEF BeginCycle
  <2>. QED
    BY <1>1, <1>2, <2>1, <2>2, <2>3 DEF TurnsInv, TypesOK
<1>5. ClaimInv'
  BY <1>1 DEF ClaimInv
<1>6. \A k \in Kinds : ~InQueue(k)' => turnedAway'[k] = 0
  BY <1>3 DEF TurnsInv, WaitInv
<1>7. ASSUME NEW i \in 1..Len(queue') PROVE turnedAway'[queue'[i]] + i <= 3
  <2>1. PICK j \in 1..Len(queue) :
           /\ i <= j /\ queue'[i] = queue[j]
           /\ asked # {} => queue[j] \in asked /\ (queue[1] \notin asked => i < j)
    BY <1>2
  <2>2. i \in Nat /\ j \in Nat /\ queue[j] \in Kinds /\ turnedAway[queue[j]] \in Nat
    BY <1>2 DEF TurnsInv, TypesOK
  <2>3. turnedAway[queue[j]] + j <= Most(queue[j])
    BY DEF TurnsInv, WaitInv
  <2>4. turnedAway'[queue'[i]] = turnedAway[queue[j]]
    <3>1. PICK k \in Kinds : k = queue[j]
      BY <2>2
    <3>2. InQueue(k)'
      BY <2>1, <3>1 DEF InQueue, Contains
    <3>. QED
      BY <1>3, <2>1, <3>1, <3>2
  <2>5. CASE asked = {}
    BY <2>1, <2>2, <2>3, <2>4, <2>5 DEF Most, TurnsInv, WaitInv
  <2>6. CASE asked # {} /\ claimed = None
    <3>1. queue # <<>>
      BY <2>1
    <3>2. i < j /\ Most(queue[j]) = 4
      BY <2>1, <2>6, <3>1 DEF Most, TurnsInv, WaitInv
    <3>. QED
      BY <2>2, <2>3, <2>4, <3>2
  <2>7. CASE asked # {} /\ claimed # None
    BY <2>1, <2>2, <2>3, <2>4, <2>7 DEF Most
  <2>. QED
    BY <2>5, <2>6, <2>7
<1>8. WaitInv'
  BY <1>1, <1>6, <1>7 DEF WaitInv, Most
<1>. QED
  BY <1>4, <1>5, <1>8 DEF TurnsInv

-----------------------------------------------------------------------------
(* A kind asks *)

LEMMA GrantedStep ==
    ASSUME TurnsInv, NEW k \in Kinds, asked' = asked \cup {k},
           claimed = k \/ MayTake(k), Granted(k)
    PROVE  /\ queue' \in Seq(Kinds) /\ Distinct(queue') /\ ClaimInv' /\ WaitInv'
           /\ \A i, j \in 1..Len(queue) : \A m, n \in 1..Len(queue') :
                 i < j /\ queue'[m] = queue[i] /\ queue'[n] = queue[j] => m < n
<1>1. /\ queue \in Seq(Kinds) /\ Distinct(queue) /\ Len(queue) \in Nat /\ k # None
      /\ turnedAway \in [Kinds -> Nat] /\ claimed' = k
      /\ turnedAway' = [turnedAway EXCEPT ![k] = 0]
  BY ThreeKinds DEF TurnsInv, TypesOK, Granted
<1>2. ClaimInv'
  BY <1>1 DEF TurnsInv, ClaimInv, Granted, MayTake
<1>3. CASE claimed = k \/ queue = <<>>
  <2>1. queue' = queue /\ ~InQueue(k)
    BY <1>1, <1>3 DEF Granted, TurnsInv, WaitInv, InQueue, Contains
  <2>2. \A j \in Kinds : InQueue(j)' <=> InQueue(j)
    BY <2>1 DEF InQueue
  <2>3. \A i \in 1..Len(queue) : /\ queue[i] \in Kinds /\ queue[i] # k /\ claimed = k
                                 /\ turnedAway'[queue[i]] = turnedAway[queue[i]]
    BY <1>1, <1>3, <2>1 DEF InQueue, Contains
  <2>4. \A i \in 1..Len(queue') : turnedAway'[queue'[i]] + i <= Most(queue[i])'
    BY <1>1, <2>1, <2>3 DEF TurnsInv, WaitInv, Most
  <2>5. \A j \in asked' : j = k \/ InQueue(j)'
    <3>. SUFFICES ASSUME NEW j \in asked, j # k PROVE InQueue(j)'
      OBVIOUS
    <3>1. j \in Kinds /\ InQueue(j)
      <4>1. j \in Kinds /\ (j = claimed \/ InQueue(j))
        BY DEF TurnsInv, WaitInv, TypesOK
      <4>2. CASE claimed = k
        BY <4>1, <4>2
      <4>3. CASE claimed = None
        BY <4>1, <4>3, ThreeKinds
      <4>. QED
        BY <1>3, <4>2, <4>3 DEF MayTake
    <3>. QED
      BY <2>2, <3>1
  <2>6. \A j \in Kinds : ~InQueue(j)' => turnedAway'[j] = 0
    BY <1>1, <2>2 DEF TurnsInv, WaitInv
  <2>7. WaitInv'
    BY <1>1, <2>1, <2>2, <2>4, <2>5, <2>6 DEF WaitInv
  <2>. QED
    BY <1>1, <1>2, <2>1, <2>7 DEF Distinct
<1>4. CASE claimed # k /\ queue # <<>>
  <2>1. claimed = None /\ queue[1] = k /\ queue' = Tail(queue)
    BY <1>1, <1>4 DEF MayTake, Granted
  <2>2. /\ queue' \in Seq(Kinds) /\ Len(queue') = Len(queue) - 1 /\ Len(queue) >= 1
        /\ \A i \in 1..Len(queue') : queue'[i] = queue[i + 1] /\ i + 1 \in 1..Len(queue)
    BY <1>1, <1>4, <2>1
  <2>3. \A i \in 1..Len(queue') : queue'[i] # k
    BY <1>1, <2>1, <2>2 DEF Distinct
  <2>4. Distinct(queue')
    <3>. SUFFICES ASSUME NEW i \in 1..Len(queue'), NEW j \in 1..Len(queue'),
                         queue'[i] = queue'[j]
                  PROVE  i = j
      BY DEF Distinct
    <3>1. i + 1 = j + 1
      BY ZenonT(60), <1>1, <2>2 DEF Distinct
    <3>. QED
      BY <3>1
  <2>5. \A j \in Kinds : InQueue(j)' <=> InQueue(j) /\ j # k
    <3>1. ASSUME NEW j \in Kinds, InQueue(j), j # k PROVE InQueue(j)'
      <4>1. PICK i \in 1..Len(queue) : queue[i] = j
        BY <3>1 DEF InQueue, Contains
      <4>2. i - 1 \in 1..Len(queue') /\ queue'[i - 1] = j
        BY <1>1, <2>1, <2>2, <3>1, <4>1
      <4>. QED
        BY <4>2 DEF InQueue, Contains
    <3>2. ASSUME NEW j \in Kinds, InQueue(j)' PROVE InQueue(j) /\ j # k
      BY <2>2, <2>3, <3>2 DEF InQueue, Contains
    <3>. QED
      BY <3>1, <3>2
  <2>6. \A i \in 1..Len(queue') : turnedAway'[queue'[i]] + i <= Most(queue[i])'
    <3>. SUFFICES ASSUME NEW i \in 1..Len(queue')
                  PROVE  turnedAway'[queue'[i]] + i <= Most(queue[i])'
      OBVIOUS
    <3>1. /\ queue'[i] = queue[i + 1] /\ i + 1 \in 1..Len(queue)
          /\ queue'[i] \in Kinds /\ queue'[i] # k
      BY <2>2, <2>3
    <3>2. turnedAway'[queue'[i]] = turnedAway[queue[i + 1]] /\ turnedAway[queue[i + 1]] \in Nat
      BY <1>1, <3>1
    <3>3. turnedAway[queue[i + 1]] + (i + 1) <= Most(queue[i + 1])
      BY <3>1 DEF TurnsInv, WaitInv
    <3>4. Most(queue[i])' = Most(queue[i + 1]) - 1
      BY <1>1, <2>1, <3>1 DEF Most
    <3>5. Most(queue[i + 1]) \in Nat /\ i \in Nat
      BY DEF Most
    <3>. QED
      BY <3>2, <3>3, <3>4, <3>5
  <2>7. \A j \in asked' : j = k \/ InQueue(j)'
    <3>1. \A j \in asked : j \in Kinds /\ InQueue(j)
      BY <2>1, ThreeKinds DEF TurnsInv, WaitInv, TypesOK
    <3>. QED
      BY <2>5, <3>1
  <2>8. \A j \in Kinds : ~InQueue(j)' => turnedAway'[j] = 0
    BY <1>1, <2>5 DEF TurnsInv, WaitInv
  <2>9. WaitInv'
    BY <1>1, <2>5, <2>6, <2>7, <2>8 DEF WaitInv
  <2>10. ASSUME NEW i \in 1..Len(queue), NEW j \in 1..Len(queue),
                NEW m \in 1..Len(queue'), NEW n \in 1..Len(queue'),
                i < j, queue'[m] = queue[i], queue'[n] = queue[j]
         PROVE  m < n
    <3>1. m + 1 = i
      <4>1. m + 1 \in 1..Len(queue) /\ i \in 1..Len(queue) /\ queue[m + 1] = queue[i]
        BY <2>2, <2>10
      <4>. QED BY <1>1, <4>1 DEF Distinct
    <3>2. n + 1 = j
      <4>1. n + 1 \in 1..Len(queue) /\ queue[n + 1] = queue[j]
        BY <2>2, <2>10
      <4>. QED BY <1>1, <4>1 DEF Distinct
    <3>. QED
      BY <2>10, <3>1, <3>2
  <2>. QED
    BY <1>2, <2>2, <2>4, <2>9, <2>10
<1>. QED
  BY <1>3, <1>4

LEMMA RefusedStep ==
    ASSUME TurnsInv, NEW k \in Kinds, asked' = asked \cup {k},
           claimed # k, ~MayTake(k), Refused(k)
    PROVE  /\ queue' \in Seq(Kinds) /\ Distinct(queue') /\ ClaimInv' /\ WaitInv'
           /\ turnedAway' \in [Kinds -> Nat]
           /\ \A i, j \in 1..Len(queue) : \A m, n \in 1..Len(queue') :
                 i < j /\ queue'[m] = queue[i] /\ queue'[n] = queue[j] => m < n
<1>1. /\ queue \in Seq(Kinds) /\ Distinct(queue) /\ Len(queue) \in Nat /\ k # None
      /\ turnedAway \in [Kinds -> Nat] /\ UNCHANGED <<claimed, ran>>
      /\ claimed = None => queue # <<>> /\ queue[1] # k
  BY ThreeKinds DEF TurnsInv, TypesOK, Refused, MayTake
<1>2. ClaimInv'
  BY <1>1 DEF TurnsInv, ClaimInv
<1>3. /\ turnedAway' \in [Kinds -> Nat]
      /\ \A j \in Kinds \ {k} : turnedAway'[j] = turnedAway[j]
      /\ turnedAway'[k] = IF k \in asked THEN turnedAway[k] ELSE turnedAway[k] + 1
  BY <1>1 DEF Refused
<1>4. \A j \in Kinds \ {k} : Most(j)' = Most(j)
  BY <1>1 DEF Most
<1>5. Most(k)' = IF k \in asked THEN Most(k) ELSE Most(k) + 1
  BY <1>1 DEF Most
<1>6. \A j \in Kinds : Most(j) \in Nat
  BY DEF Most
<1>7. CASE InQueue(k)
  <2>1. queue' = queue
    BY <1>7 DEF Refused
  <2>2. \A j \in Kinds : InQueue(j)' <=> InQueue(j)
    BY <2>1 DEF InQueue
  <2>3. ASSUME NEW i \in 1..Len(queue') PROVE turnedAway'[queue'[i]] + i <= Most(queue[i])'
    <3>1. PICK j \in Kinds : queue[i] = j /\ i \in Nat
      BY <1>1, <2>1
    <3>2. turnedAway[j] + i <= Most(j) /\ turnedAway[j] \in Nat
      BY <1>1, <2>1, <3>1 DEF TurnsInv, WaitInv
    <3>3. turnedAway'[j] + i <= Most(j)'
      <4>1. CASE j = k
        BY SMTT(40), <1>1, <1>3, <1>5, <1>6, <3>1, <3>2, <4>1
      <4>2. CASE j # k
        BY <1>3, <1>4, <3>1, <3>2, <4>2
      <4>. QED
        BY <4>1, <4>2
    <3>. QED
      BY <2>1, <3>1, <3>3 DEF Most
  <2>4. \A j \in asked' : j = claimed' \/ InQueue(j)'
    BY <1>1, <1>7, <2>1 DEF TurnsInv, WaitInv, InQueue
  <2>5. \A j \in Kinds : ~InQueue(j)' => turnedAway'[j] = 0
    BY <1>3, <1>7, <2>2 DEF TurnsInv, WaitInv
  <2>6. /\ claimed' # None => claimed' \in asked' /\ ~InQueue(claimed)'
        /\ claimed' = None /\ queue' # <<>> => queue'[1] \notin asked'
    BY <1>1, <2>1 DEF TurnsInv, WaitInv, InQueue
  <2>7. WaitInv'
    BY <2>3, <2>4, <2>5, <2>6 DEF WaitInv
  <2>8. Distinct(queue')
    BY <1>1, <2>1
  <2>9. \A i, j \in 1..Len(queue) : \A m, n \in 1..Len(queue') :
            i < j /\ queue'[m] = queue[i] /\ queue'[n] = queue[j] => m < n
    BY <1>1, <2>1 DEF Distinct
  <2>. QED
    BY <1>1, <1>2, <1>3, <2>1, <2>7, <2>8, <2>9
<1>8. CASE ~InQueue(k)
  <2>1. /\ queue' \in Seq(Kinds)
        /\ Len(queue') = Len(queue) + 1 /\ queue'[Len(queue) + 1] = k
        /\ \A i \in 1..Len(queue) :
              queue'[i] = queue[i] /\ queue[i] # k /\ queue[i] \in Kinds
    <3>1. queue' = Append(queue, k)
      BY <1>8 DEF Refused
    <3>2. \A i \in 1..Len(queue) : queue[i] # k
      BY <1>8 DEF InQueue, Contains
    <3>. QED BY <1>1, <3>1, <3>2
  <2>2. k \notin asked /\ turnedAway[k] = 0
    BY <1>8 DEF TurnsInv, WaitInv
  <2>3. \A j : InQueue(j)' <=> InQueue(j) \/ j = k
    <3>1. \A j : InQueue(j) => InQueue(j)'
      BY <1>1, <2>1 DEF InQueue, Contains
    <3>2. InQueue(k)'
      BY <1>1, <2>1 DEF InQueue, Contains
    <3>3. ASSUME NEW j, InQueue(j)', j # k PROVE InQueue(j)
      <4>1. PICK i \in 1..Len(queue') : queue'[i] = j
        BY <3>3 DEF InQueue, Contains
      <4>2. i \in 1..Len(queue)
        BY <1>1, <2>1, <3>3, <4>1
      <4>. QED BY <2>1, <4>1, <4>2 DEF InQueue, Contains
    <3>. QED BY <3>1, <3>2, <3>3
  <2>4. turnedAway'[k] + (Len(queue) + 1) <= Most(k)'
    <3>1. CASE claimed = None
      <4>1. Len(queue) <= 2
        BY <1>1, <1>8, ShortQueue DEF InQueue
      <4>. QED
        BY <1>1, <1>3, <2>2, <3>1, <4>1 DEF Most
    <3>2. CASE claimed # None
      <4>1. claimed \in Kinds /\ ~InQueue(claimed)
        BY <3>2 DEF TurnsInv, TypesOK, WaitInv
      <4>2. Len(queue) <= 1
        BY <1>1, <1>8, <4>1, ShortQueue DEF InQueue
      <4>. QED
        BY <1>1, <1>3, <2>2, <3>2, <4>2 DEF Most
    <3>. QED
      BY <3>1, <3>2
  <2>5. ASSUME NEW i \in 1..Len(queue') PROVE turnedAway'[queue'[i]] + i <= Most(queue[i])'
    <3>1. CASE i = Len(queue) + 1
      <4>1. queue'[i] = k
        BY <2>1, <3>1
      <4>. QED
        BY <1>1, <1>3, <2>4, <3>1, <4>1 DEF Most
    <3>2. CASE i # Len(queue) + 1
      <4>1. i \in 1..Len(queue)
        BY <1>1, <2>1, <3>2
      <4>2. PICK j \in Kinds \ {k} : queue[i] = j /\ queue'[i] = j
        BY <2>1, <4>1
      <4>3. turnedAway[j] + i <= Most(j) /\ Most(queue[i])' = Most(j)'
        BY <4>1, <4>2 DEF TurnsInv, WaitInv, Most
      <4>. QED
        BY <1>3, <1>4, <4>2, <4>3
    <3>. QED
      BY <3>1, <3>2
  <2>6. \A j \in asked' : j = claimed' \/ InQueue(j)'
    BY <1>1, <2>3 DEF TurnsInv, WaitInv
  <2>7. \A j \in Kinds : ~InQueue(j)' => turnedAway'[j] = 0
    BY <1>3, <2>3 DEF TurnsInv, WaitInv
  <2>8. claimed' # None => claimed' \in asked' /\ ~InQueue(claimed)'
    <3>1. InQueue(claimed)' <=> InQueue(claimed) \/ claimed = k
      BY SMTT(40), <1>1, <2>1 DEF InQueue, Contains
    <3>. QED
      BY <1>1, <3>1 DEF TurnsInv, WaitInv
  <2>9. claimed' = None /\ queue' # <<>> => queue'[1] \notin asked'
    <3>. SUFFICES ASSUME claimed = None PROVE queue'[1] \notin asked'
      BY <1>1
    <3>1. queue # <<>> /\ Len(queue) >= 1 /\ queue'[1] = queue[1]
      BY <1>1, <2>1
    <3>. QED
      BY <1>1, <3>1 DEF TurnsInv, WaitInv
  <2>10. WaitInv'
    BY <2>5, <2>6, <2>7, <2>8, <2>9 DEF WaitInv
  <2>11. Distinct(queue')
    <3>. SUFFICES ASSUME NEW i \in 1..Len(queue'), NEW j \in 1..Len(queue'),
                         queue'[i] = queue'[j]
                  PROVE  i = j
      BY DEF Distinct
    <3>. QED
      BY SMTT(40), <1>1, <2>1 DEF Distinct
  <2>12. ASSUME NEW i \in 1..Len(queue), NEW j \in 1..Len(queue),
                NEW m \in 1..Len(queue'), NEW n \in 1..Len(queue'),
                i < j, queue'[m] = queue[i], queue'[n] = queue[j]
         PROVE  m < n
    <3>1. /\ i \in 1..Len(queue') /\ queue'[i] = queue'[m]
          /\ j \in 1..Len(queue') /\ queue'[j] = queue'[n]
      BY <1>1, <2>1, <2>12
    <3>2. i = m
      BY <2>11, <3>1 DEF Distinct
    <3>3. j = n
      BY <2>11, <3>1 DEF Distinct
    <3>. QED
      BY <2>12, <3>2, <3>3
  <2>. QED
    BY <1>2, <1>3, <2>1, <2>10, <2>11, <2>12
<1>. QED
  BY <1>7, <1>8

-----------------------------------------------------------------------------
(* Every step *)

LEMMA CallerIsAKind == ASSUME place \in 0..3, place # 0 PROVE Caller \in Kinds
<1>1. place = 1 \/ place = 2 \/ place = 3
  OBVIOUS
<1>. QED
  BY <1>1, ThreeKinds DEF Caller, AskingOrder

LEMMA StaysInOrder == ASSUME place \in 0..3, place # 0, Proceed PROVE place' \in 0..3
  BY DEF Proceed, AskingOrder

(* The order is kept, of those who stay.                                   *)
Keeps ==
    \A i, j \in 1..Len(queue) : \A m, n \in 1..Len(queue') :
        i < j /\ queue'[m] = queue[i] /\ queue'[n] = queue[j] => m < n

LEMMA AskStep == ASSUME TurnsInv, Ask, Proceed \/ AskAgain PROVE TurnsInv' /\ Keeps
<1>. DEFINE k == Caller
<1>1. k \in Kinds /\ asked' = asked \cup {k} /\ place' \in 0..3
      /\ UNCHANGED <<missing, cutShort, skipped>>
  BY CallerIsAKind, StaysInOrder DEF Ask, AskAgain, Claim, TurnsInv, TypesOK
<1>2. CASE claimed = k \/ MayTake(k)
  <2>1. Granted(k)
    BY <1>2 DEF Ask, Claim
  <2>. HIDE DEF k
  <2>2. Distinct(queue') /\ queue' \in Seq(Kinds) /\ ClaimInv' /\ WaitInv' /\ Keeps
    BY <1>1, <1>2, <2>1, GrantedStep DEF Keeps
  <2>3. /\ claimed' = k /\ ran' = ran \cup {k} /\ due' \subseteq due
        /\ turnedAway' \in [Kinds -> Nat]
    BY <1>1, <2>1 DEF Granted, TurnsInv, TypesOK
  <2>4. TypesOK'
    BY <1>1, <2>2, <2>3 DEF TurnsInv, TypesOK
  <2>. QED
    BY <2>2, <2>4 DEF TurnsInv
<1>3. CASE ~(claimed = k \/ MayTake(k))
  <2>1. Refused(k)
    BY <1>3 DEF Ask, Claim
  <2>. HIDE DEF k
  <2>2. /\ Distinct(queue') /\ queue' \in Seq(Kinds) /\ ClaimInv' /\ WaitInv' /\ Keeps
        /\ turnedAway' \in [Kinds -> Nat]
    BY <1>1, <1>3, <2>1, RefusedStep DEF Keeps
  <2>3. UNCHANGED <<claimed, ran, due>>
    BY <2>1 DEF Refused
  <2>4. TypesOK'
    BY <1>1, <2>2, <2>3 DEF TurnsInv, TypesOK
  <2>. QED
    BY <2>2, <2>4 DEF TurnsInv
<1>. QED
  BY <1>2, <1>3

LEMMA TurnsKept ==
    ASSUME TurnsInv, UNCHANGED <<turns, ran, turnedAway>>
    PROVE  ClaimInv' /\ WaitInv' /\ Keeps
<1>1. UNCHANGED <<claimed, queue, asked>> /\ queue \in Seq(Kinds) /\ Distinct(queue)
  BY DEF turns, TurnsInv, TypesOK
<1>2. ClaimInv'
  BY <1>1 DEF TurnsInv, ClaimInv
<1>3. WaitInv'
  BY <1>1 DEF TurnsInv, WaitInv, Most, InQueue
<1>4. Keeps
  BY <1>1 DEF Keeps, Distinct
<1>. QED
  BY <1>2, <1>3, <1>4

LEMMA NextTurns == TurnsInv /\ [TurnsNext]_turnsVars => TurnsInv' /\ Keeps
<1>. SUFFICES ASSUME TurnsInv, [TurnsNext]_turnsVars PROVE TurnsInv' /\ Keeps
  OBVIOUS
<1>1. ASSUME NEW reads \in BOOLEAN, BeginCycle(reads) PROVE TurnsInv' /\ Keeps
  <2>1. NewCycle
    BY <1>1 DEF BeginCycle
  <2>2. queue' \in Seq(Kinds) /\ Distinct(queue')
    BY <2>1, QueueSettled
  <2>3. Keeps
    <3>. SUFFICES ASSUME NEW i \in 1..Len(queue), NEW j \in 1..Len(queue),
                         NEW m \in 1..Len(queue'), NEW n \in 1..Len(queue'),
                         i < j, queue'[m] = queue[i], queue'[n] = queue[j], ~(m < n)
                  PROVE  FALSE
      BY DEF Keeps
    <3>1. m = n \/ n < m
      BY <2>2
    <3>2. m # n
      BY DEF TurnsInv, TypesOK, Distinct
    <3>3. n < m => j < i
      BY <2>1, QueueSettled
    <3>. QED
      BY <3>1, <3>2, <3>3
  <2>. QED
    BY <1>1, <2>3, BeginStep
<1>2. CASE Ask /\ (Proceed \/ AskAgain)
  BY <1>2, AskStep
<1>3. CASE ReadMissing \/ NothingDue
  <2>1. /\ UNCHANGED <<turns, ran, turnedAway, cutShort>>
        /\ Caller \in Kinds /\ place' \in 0..3
        /\ due' \subseteq Kinds /\ missing' \in BOOLEAN /\ skipped' = skipped \cup {Caller}
    BY <1>3, StaysInOrder, CallerIsAKind DEF ReadMissing, NothingDue, TurnsInv, TypesOK
  <2>2. TypesOK'
    BY <2>1 DEF turns, TurnsInv, TypesOK
  <2>. QED
    BY <2>1, <2>2, TurnsKept DEF TurnsInv
<1>4. CASE CutShort
  <2>1. TypesOK'
    BY <1>4 DEF CutShort, turns, TurnsInv, TypesOK
  <2>. QED
    BY <1>4, <2>1, TurnsKept DEF CutShort, TurnsInv
<1>5. ASSUME NEW k \in Kinds, FallDue(k) \/ NoLongerDue(k) PROVE TurnsInv' /\ Keeps
  <2>1. TypesOK'
    BY <1>5 DEF FallDue, NoLongerDue, turns, history, TurnsInv, TypesOK
  <2>. QED
    BY <1>5, <2>1, TurnsKept DEF FallDue, NoLongerDue, history, TurnsInv
<1>6. CASE ModuleAppears
  <2>1. TypesOK'
    BY <1>6 DEF ModuleAppears, turns, history, TurnsInv, TypesOK
  <2>. QED
    BY <1>6, <2>1, TurnsKept DEF ModuleAppears, history, TurnsInv
<1>7. CASE UNCHANGED turnsVars
  <2>1. TypesOK'
    BY <1>7 DEF turnsVars, turns, history, TurnsInv, TypesOK
  <2>. QED
    BY <1>7, <2>1, TurnsKept DEF turnsVars, history, TurnsInv
<1>. QED
  BY <1>1, <1>2, <1>3, <1>4, <1>5, <1>6, <1>7 DEF TurnsNext, GoOn

(* A kind that waits moves up with every turn that goes by.                *)
THEOREM TurnsInvariance == TurnsSpec => []TurnsInv
BY InitTurns, NextTurns, PTL DEF TurnsSpec

-----------------------------------------------------------------------------
(* The properties *)

(* The types; nobody waits at two places.                                  *)
THEOREM TurnsTyped == TurnsSpec => []TurnsTypeOK
<1>1. TurnsInv => TurnsTypeOK
  <2>. SUFFICES ASSUME TurnsInv PROVE TurnsTypeOK
    OBVIOUS
  <2>1. queue \in BoundedSeq(Kinds, Len(AskingOrder))
    <3>1. queue \in Seq(Kinds) /\ Len(queue) \in 0..3 /\ queue \in [1..Len(queue) -> Kinds]
      BY ShortQueue DEF TurnsInv, TypesOK
    <3>. QED
      BY <3>1, ThreeKinds DEF BoundedSeq, SeqOf
  <2>2. IsInjective(queue)
    BY DEF TurnsInv, TypesOK, Distinct, IsInjective
  <2>. QED
    BY <2>1, <2>2, ThreeKinds DEF TurnsInv, TypesOK, TurnsTypeOK
<1>. QED
  BY <1>1, TurnsInvariance, PTL

(* However the kinds fall due and polls are cut short: of the kinds that   *)
(* can wait, one spends its burst in a cycle.                              *)
THEOREM OneBurst == TurnsSpec => []OneBurstPerCycle
<1>1. TurnsInv => OneBurstPerCycle
  BY DEF TurnsInv, ClaimInv, OneBurstPerCycle
<1>. QED
  BY <1>1, TurnsInvariance, PTL

(* Nobody who asks whenever the others do is turned away more often than   *)
(* there are others.                                                       *)
THEOREM TheTurnComes == TurnsSpec => []TurnComes
<1>1. TurnsInv => TurnComes
  <2>. SUFFICES ASSUME TurnsInv, NEW k \in Kinds PROVE turnedAway[k] < 3
    BY ThreeKinds DEF TurnComes
  <2>1. turnedAway[k] \in Nat
    BY DEF TurnsInv, TypesOK
  <2>2. CASE ~InQueue(k)
    BY <2>2 DEF TurnsInv, WaitInv
  <2>3. CASE InQueue(k)
    <3>1. PICK i \in 1..Len(queue) : queue[i] = k
      BY <2>3 DEF InQueue, Contains
    <3>2. turnedAway[k] + i <= Most(k) /\ i \in Nat /\ i >= 1
      BY <3>1 DEF TurnsInv, WaitInv
    <3>3. CASE claimed = None /\ k \in asked
      <4>1. i # 1
        BY <3>1, <3>3 DEF TurnsInv, WaitInv
      <4>. QED
        BY <2>1, <3>2, <3>3, <4>1 DEF Most
    <3>4. CASE ~(claimed = None /\ k \in asked)
      BY <2>1, <3>2, <3>4 DEF Most
    <3>. QED
      BY <3>3, <3>4
  <2>. QED
    BY <2>2, <2>3
<1>. QED
  BY <1>1, TurnsInvariance, PTL

(* The turns are shared fairly whatever falls due, however long the polls  *)
(* run and wherever they end.                                              *)
THEOREM FairTurns == TurnsSpec => []TurnsAreFair
<1>1. TurnsTypeOK /\ OneBurstPerCycle /\ TurnComes => TurnsAreFair
  BY DEF TurnsAreFair
<1>. QED
  BY <1>1, TurnsTyped, OneBurst, TheTurnComes, PTL

(* Two kinds that wait never change places: settling the queue, a turn and *)
(* a newcomer all leave the others in the order they came in.              *)
THEOREM OldestComesFirst == TurnsSpec => OldestFirst
<1>1. TurnsInv /\ [TurnsNext]_turnsVars => PlacesStay
  <2>. SUFFICES ASSUME TurnsInv, [TurnsNext]_turnsVars PROVE PlacesStay
    OBVIOUS
  <2>1. Keeps /\ DOMAIN queue = 1..Len(queue) /\ DOMAIN queue' = 1..Len(queue')
    BY NextTurns DEF TurnsInv, TypesOK
  <2>. QED
    BY <2>1 DEF Keeps, PlacesStay
<1>. QED
  BY <1>1, TurnsInvariance, PTL DEF TurnsSpec, OldestFirst

(* The first answer a kind gets in a cycle is the one it gets for the rest *)
(* of it, whoever asks in between (claim).  With OneBurst this is what     *)
(* ReadNow and HourlyReads' BeginPoll take for granted: who has the turn   *)
(* is settled once for a poll.                                             *)
THEOREM AnswersStand ==
    TurnsSpec => [][asked' # {} => \A k \in asked : k \in ran <=> k \in ran']_turnsVars
<1>1. ASSUME TurnsInv, TurnsNext, asked' # {}, NEW k \in asked PROVE k \in ran <=> k \in ran'
  <2>1. CASE Ask /\ (Proceed \/ AskAgain)
    <3>. DEFINE j == Caller
    <3>1. CASE claimed = j \/ MayTake(j)
      <4>1. ran' = ran \cup {j}
        BY <2>1, <3>1 DEF Ask, Claim, Granted
      <4>2. k = j => claimed = k
        <5>. SUFFICES ASSUME k = j, claimed # k PROVE FALSE
          OBVIOUS
        <5>1. MayTake(k) /\ InQueue(k)
          BY <1>1, <3>1 DEF TurnsInv, WaitInv
        <5>2. queue \in Seq(Kinds) /\ queue # <<>>
          BY <1>1, <5>1 DEF InQueue, Contains, TurnsInv, TypesOK
        <5>3. claimed = None /\ queue[1] = k
          BY <5>1, <5>2 DEF MayTake
        <5>. QED
          BY <1>1, <5>2, <5>3 DEF TurnsInv, WaitInv
      <4>. QED
        BY <1>1, <4>1, <4>2, ThreeKinds DEF TurnsInv, ClaimInv, TypesOK
    <3>2. CASE ~(claimed = j \/ MayTake(j))
      BY <2>1, <3>2 DEF Ask, Claim, Refused
    <3>. QED
      BY <3>1, <3>2
  <2>2. CASE UNCHANGED ran
    BY <2>2
  <2>3. CASE \E reads \in BOOLEAN : BeginCycle(reads)
    BY <1>1, <2>3 DEF BeginCycle, NewCycle
  <2>. QED
    BY <1>1, <2>1, <2>2, <2>3
    DEF TurnsNext, GoOn, ReadMissing, NothingDue, CutShort, FallDue, NoLongerDue,
        ModuleAppears, history
<1>2. TurnsInv /\ [TurnsNext]_turnsVars
      => [asked' # {} => \A k \in asked : k \in ran <=> k \in ran']_turnsVars
  BY <1>1
<1>. QED
  BY <1>2, TurnsInvariance, PTL DEF TurnsSpec
=============================================================================
