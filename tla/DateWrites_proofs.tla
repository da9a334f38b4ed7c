-------------------------- MODULE DateWrites_proofs --------------------------
(* Proofs about DateWrites, for any calls, any dates they set and any days.*)
EXTENDS DateWrites, TLAPS

USE DatesAssumption

-----------------------------------------------------------------------------
(* The types *)

Maps == UNION {[S -> Days] : S \in SUBSET Keys}

(* One call's locals: the days it was given, the companions it sends       *)
(* along, and what was heard of its dates.                                 *)
Locals == [asked : Maps, others : Maps, unsure : SUBSET Keys, failed : BOOLEAN,
           same : SUBSET Keys, other : SUBSET Keys]

UnderWay == {"queued", "posting"} \cup OnItsWay

RowsOK ==
    /\ portal \in [Keys -> Days] /\ measured \in [Keys -> Days \cup {Unknown}]
    /\ api \in [Keys -> Readings] /\ old \in [Keys -> Readings]
    /\ attached \in BOOLEAN /\ foreign \subseteq Keys
    /\ linked \subseteq Keys /\ (attached => linked = Keys)
    /\ \A k \in linked : old[k] = Blank

LocksOK ==
    /\ lock \in {Free, "poll"} \cup Calls
    /\ poll \in {"idle", "running", "measured", "mapped", "saving"}
    /\ pc \in [Calls -> {"idle", "done"} \cup UnderWay]
    /\ \A c \in Calls : pc[c] = "posting" <=> lock = c
    /\ lock = "poll" <=> poll \in {"running", "measured", "mapped"}

(* A call knows the days of its own dates from the start, and its          *)
(* companions are other dates.                                             *)
CallsOK ==
    /\ call \in [Calls -> Locals]
    /\ \A c \in Calls :
          /\ pc[c] \in UnderWay => call[c].asked \in [Owns[c] -> Days]
          /\ DOMAIN call[c].others \subseteq Keys \ Owns[c]
          /\ call[c].same \subseteq Owns[c]

Types == RowsOK /\ LocksOK /\ CallsOK

LEMMA RowIs ==
    ASSUME NEW day \in Days \cup {Unknown}, NEW tag \in Tags
    PROVE  /\ Row(day, tag) \in Readings /\ Row(day, tag).day = day
           /\ Row(day, tag).tag = (IF day = Unknown THEN "read" ELSE tag)
BY DEF Row, Readings, Blank, Tags

LEMMA ReadIs ==
    ASSUME NEW day \in Days \cup {Unknown}
    PROVE  Row(day, "read").day = day
BY RowIs DEF Tags

LEMMA DayIs ==
    ASSUME NEW day \in Days
    PROVE  Row(day, "read").day = day /\ Row(day, "read").tag = "read" /\ day # Unknown
BY RowIs DEF Tags

LEMMA BlankIs ==
    /\ Blank \in Readings /\ Blank.day = Unknown /\ Blank.tag = "read"
    /\ Gone \in Readings /\ Gone.day = Unknown /\ Gone.tag = "gone"
BY RowIs DEF Blank, Gone, Readings, Tags

(* No other row than those two has no day.                                 *)
LEMMA ReadingIs ==
    ASSUME NEW row \in Readings
    PROVE  /\ row.day \in Days \cup {Unknown}
           /\ row.day = Unknown => row.tag \in {"read", "gone"}
BY BlankIs DEF Readings

LEMMA MapIs ==
    ASSUME NEW f \in Maps
    PROVE  f \in [DOMAIN f -> Days] /\ DOMAIN f \subseteq Keys
BY DEF Maps

LEMMA IsMap ==
    ASSUME NEW S \in SUBSET Keys, NEW f \in [S -> Days]
    PROVE  f \in Maps /\ DOMAIN f = S
BY DEF Maps

LEMMA NothingIs ==
    Nothing \in Locals /\ DOMAIN Nothing.others = {} /\ Nothing.same = {}
<1>1. <<>> \in [{} -> Days] /\ DOMAIN <<>> = {}
  OBVIOUS
<1>2. <<>> \in Maps
  BY <1>1 DEF Maps
<1>. QED
  BY <1>1, <1>2 DEF Nothing, Locals

LEMMA OwnsIs == \A c \in Calls : Owns[c] \subseteq Keys /\ Owns[c] # {}
OBVIOUS

(* What is heard of an answer touches nothing but `same` and `other`.      *)
HearsOnly(f) ==
    /\ f \in [Calls -> Locals]
    /\ \A c \in Calls :
          /\ f[c].asked = call[c].asked /\ f[c].others = call[c].others
          /\ f[c].unsure = call[c].unsure /\ f[c].failed = call[c].failed
          /\ f[c].same \subseteq Owns[c]

LEMMA HearIs ==
    ASSUME CallsOK, NEW ks \in SUBSET Keys, NEW day
    PROVE  HearsOnly(Hear(ks, day))
<1>1. ASSUME NEW c \in Calls, NEW S \in SUBSET Owns[c], NEW T \in SUBSET Owns[c]
      PROVE  /\ [call[c] EXCEPT !.same = @ \cup S, !.other = @ \cup T] \in Locals
             /\ [call[c] EXCEPT !.same = @ \cup S, !.other = @ \cup T].same
                   = call[c].same \cup S
  <2>1. call[c] \in Locals
    BY DEF CallsOK
  <2>2. call[c].same \cup S \in SUBSET Keys /\ call[c].other \cup T \in SUBSET Keys
    BY <2>1, OwnsIs DEF Locals
  <2>. QED
    BY <2>1, <2>2 DEF Locals
<1>2. ASSUME NEW c \in Calls
      PROVE  /\ Hear(ks, day)[c] \in Locals
             /\ Hear(ks, day)[c].asked = call[c].asked
             /\ Hear(ks, day)[c].others = call[c].others
             /\ Hear(ks, day)[c].unsure = call[c].unsure
             /\ Hear(ks, day)[c].failed = call[c].failed
             /\ Hear(ks, day)[c].same \subseteq Owns[c]
  <2>. DEFINE S == {k \in Owns[c] \cap ks : day[k] = call[c].asked[k]}
              T == Owns[c] \ S
              new == [call[c] EXCEPT !.same = @ \cup S, !.other = @ \cup T]
  <2>1. Hear(ks, day)[c] = IF pc[c] \in OnItsWay THEN new ELSE call[c]
    BY DEF Hear
  <2>2. S \in SUBSET Owns[c] /\ T \in SUBSET Owns[c]
    OBVIOUS
  <2>3. call[c] \in Locals /\ call[c].same \subseteq Owns[c]
    BY DEF CallsOK
  <2>. HIDE DEF S, T
  <2>4. new \in Locals /\ new.same = call[c].same \cup S
    BY <1>1, <2>2
  <2>5. /\ new.asked = call[c].asked /\ new.others = call[c].others
        /\ new.unsure = call[c].unsure /\ new.failed = call[c].failed
    BY <2>3 DEF Locals
  <2>. HIDE DEF new
  <2>. QED
    BY <2>1, <2>2, <2>3, <2>4, <2>5
<1>3. Hear(ks, day) = [c \in Calls |-> Hear(ks, day)[c]]
  BY DEF Hear
<1>. QED
  BY <1>2, <1>3 DEF HearsOnly

(* What an answer leaves: new readings of the days it carries, no day where*)
(* it carries none, and the rows that are no longer one object keep what   *)
(* they held.                                                              *)
LEMMA ReplaceIs ==
    ASSUME RowsOK, NEW ks \in SUBSET Keys, NEW day \in [Keys -> Days \cup {Unknown}],
           Replace(ks, day), attached' = attached
    PROVE  /\ api' \in [Keys -> Readings] /\ old' \in [Keys -> Readings]
           /\ \A k \in Keys :
                 /\ api'[k].tag = "read"
                 /\ api'[k].day = IF k \in ks THEN day[k] ELSE Unknown
           /\ linked' \subseteq Keys /\ (attached' => linked' = Keys)
           /\ \A k \in linked' : old'[k] = Blank
<1>1. \A k \in Keys : api'[k] = IF k \in ks THEN Row(day[k], "read") ELSE Blank
  BY DEF Replace
<1>2. \A k \in Keys : /\ Row(day[k], "read") \in Readings
                      /\ Row(day[k], "read").day = day[k] /\ Row(day[k], "read").tag = "read"
  BY ZenonT(60), RowIs DEF Tags
<1>3. api' \in [Keys -> Readings]
  BY <1>2, BlankIs DEF Replace
<1>4. linked' = (IF attached THEN linked ELSE linked \ ks) /\ linked' \subseteq linked
  BY DEF Replace
<1>5. /\ old' \in [Keys -> Readings]
      /\ \A k \in Keys : old'[k] = IF k \in linked \ linked' THEN api[k] ELSE old[k]
  BY DEF Replace, RowsOK
<1>6. \A k \in Keys : /\ api'[k].tag = "read"
                      /\ api'[k].day = IF k \in ks THEN day[k] ELSE Unknown
  BY <1>1, <1>2, BlankIs
<1>. QED
  BY <1>3, <1>4, <1>5, <1>6 DEF RowsOK

-----------------------------------------------------------------------------
(* Every step keeps the types *)

(* A step of the poll that leaves the rows and the calls alone.            *)
LEMMA CallsStay ==
    ASSUME CallsOK, UNCHANGED calls
    PROVE  CallsOK'
BY DEF CallsOK, calls

LEMMA RowsStay ==
    ASSUME RowsOK, UNCHANGED <<rows, portal, measured, foreign>>
    PROVE  RowsOK'
BY DEF RowsOK, rows

(* A call that ends, or begins, outside the lock.                          *)
LEMMA LocksStay ==
    ASSUME LocksOK, UNCHANGED <<lock, poll>>, NEW c \in Calls, pc[c] # "posting",
           NEW x \in {"idle", "done", "queued"} \cup OnItsWay, x # "posting",
           pc' = [pc EXCEPT ![c] = x]
    PROVE  LocksOK'
<1>1. x \in {"idle", "done"} \cup UnderWay
  BY DEF UnderWay
<1>2. \A d \in Calls : pc'[d] = IF d = c THEN x ELSE pc[d]
  BY DEF LocksOK
<1>. QED
  BY <1>1, <1>2 DEF LocksOK

LEMMA CallEnds ==
    ASSUME CallsOK, LocksOK, NEW c \in Calls, NEW x \in {"idle", "done"},
           pc' = [pc EXCEPT ![c] = x], call' = [call EXCEPT ![c] = Nothing]
    PROVE  CallsOK'
<1>1. \A d \in Calls : pc'[d] = IF d = c THEN x ELSE pc[d]
  BY DEF LocksOK
<1>2. call' \in [Calls -> Locals]
  BY NothingIs DEF CallsOK
<1>3. \A d \in Calls : call'[d] = IF d = c THEN Nothing ELSE call[d]
  BY DEF CallsOK
<1>4. x \notin UnderWay
  BY DEF UnderWay, OnItsWay
<1>. QED
  BY <1>1, <1>2, <1>3, <1>4, NothingIs DEF CallsOK

LEMMA PollStep ==
    ASSUME Types,
           PollBegins \/ Rebind \/ Measure \/ PollReturns \/ PollFails \/ PollPublished
             \/ PollTimesOut
    PROVE  Types'
<1>1. CallsOK'
  BY CallsStay DEF Types, PollBegins, Rebind, Measure, PollReturns, PollFails,
     PollPublished, PollTimesOut
<1>2. LocksOK'
  BY DEF Types, LocksOK, PollBegins, Rebind, Measure, PollReturns, PollFails,
     PollPublished, PollTimesOut, Release, calls
<1>3. RowsOK'
  <2>1. CASE PollBegins \/ PollReturns \/ PollTimesOut
    BY <2>1, RowsStay DEF Types, PollBegins, PollReturns, PollTimesOut
  <2>2. CASE Rebind \/ Measure
    <3>0. measured' \in {measured, portal}
      BY <2>2 DEF Rebind, Measure
    <3>1. measured' \in [Keys -> Days \cup {Unknown}]
      <4>1. portal \in [Keys -> Days \cup {Unknown}]
        BY DEF Types, RowsOK
      <4>. QED
        BY <3>0, <4>1 DEF Types, RowsOK
    <3>2. UNCHANGED <<portal, api, old, linked, foreign>>
      BY <2>2 DEF Rebind, Measure, rows
    <3>3. attached' \in BOOLEAN /\ (attached' => linked = Keys)
      <4>1. CASE Rebind
        BY <4>1 DEF Rebind
      <4>2. CASE Measure
        <5>1. attached' = attached
          BY <4>2 DEF Measure, rows
        <5>. QED
          BY <5>1 DEF Types, RowsOK
      <4>. QED
        BY <2>2, <4>1, <4>2
    <3>. QED
      BY <3>1, <3>2, <3>3 DEF Types, RowsOK
  <2>3. CASE PollFails
    <3>1. Blanks \in [Keys -> Days \cup {Unknown}]
      BY DEF Blanks
    <3>. QED
      BY <2>3, <3>1 DEF Types, PollFails, RowsOK, rows
  <2>4. CASE PollPublished
    BY <2>4, BlankIs DEF Types, PollPublished, RowsOK
  <2>. QED
    BY <2>1, <2>2, <2>3, <2>4
<1>. QED
  BY <1>1, <1>2, <1>3 DEF Types

LEMMA MapRowsStep ==
    ASSUME Types, MapRows
    PROVE  /\ Types' /\ \A k \in Keys : api'[k].tag = "read"
           /\ \E ks \in SUBSET Keys :
                 /\ \A k \in Keys : api'[k].day = IF k \in ks THEN measured[k] ELSE Unknown
                 /\ foreign' = {k \in foreign : k \notin ks \/ portal[k] # measured[k]}
                 /\ call' = Hear(ks, measured) /\ HearsOnly(call')
<1>. USE DEF Types
<1>0. PICK ks \in SUBSET Keys :
        /\ Replace(ks, measured)
        /\ foreign' = {k \in foreign : k \notin ks \/ portal[k] # measured[k]}
        /\ call' = Hear(ks, measured)
  BY DEF MapRows
<1>1. HearsOnly(call')
  BY <1>0, HearIs
<1>2. CallsOK'
  BY <1>1 DEF CallsOK, HearsOnly, MapRows
<1>3. LocksOK'
  BY DEF LocksOK, MapRows
<1>4. measured \in [Keys -> Days \cup {Unknown}] /\ attached \in BOOLEAN
  BY DEF RowsOK
<1>5. Blanks \in [Keys -> Days \cup {Unknown}]
  BY DEF Blanks
<1>6. UNCHANGED <<portal, attached>> /\ measured' = Blanks
  BY DEF MapRows
<1>7. RowsOK'
  BY <1>0, <1>4, <1>5, <1>6, ReplaceIs DEF RowsOK
<1>8. \A k \in Keys : /\ api'[k].tag = "read"
                      /\ api'[k].day = IF k \in ks THEN measured[k] ELSE Unknown
  BY <1>0, <1>4, <1>6, ReplaceIs
<1>. QED
  BY <1>0, <1>1, <1>2, <1>3, <1>7, <1>8

LEMMA AskStep == ASSUME Types, NEW c \in Calls, Ask(c) PROVE Types'
<1>. USE DEF Types
<1>1. PICK asked \in [Owns[c] -> Days] :
         call' = [call EXCEPT ![c] = [Nothing EXCEPT !.asked = asked]]
  BY DEF Ask
<1>. DEFINE new == [Nothing EXCEPT !.asked = asked]
<1>2. asked \in Maps
  BY OwnsIs, IsMap
<1>3. /\ new \in Locals /\ new.asked = asked /\ new.others = Nothing.others
      /\ new.same = Nothing.same
  BY <1>2, NothingIs DEF Locals
<1>4. pc' = [pc EXCEPT ![c] = "queued"] /\ pc[c] = "idle" /\ UNCHANGED <<lock, polling, portal, rows, foreign>>
  BY DEF Ask
<1>. HIDE DEF new
<1>5. call' = [call EXCEPT ![c] = new]
  BY <1>1 DEF new
<1>6. CallsOK'
  <2>1. \A d \in Calls : call'[d] = IF d = c THEN new ELSE call[d]
    BY <1>5 DEF CallsOK
  <2>2. \A d \in Calls : d # c => pc'[d] = pc[d]
    BY <1>4 DEF LocksOK
  <2>3. call' \in [Calls -> Locals]
    BY <1>3, <1>5 DEF CallsOK
  <2>. QED
    BY <1>3, <2>1, <2>2, <2>3, NothingIs DEF CallsOK
<1>7. LocksOK'
  BY <1>4, LocksStay DEF polling
<1>. QED
  BY <1>4, <1>6, <1>7, RowsStay DEF polling

LEMMA CompanionsAre ==
    ASSUME RowsOK, NEW c \in Calls
    PROVE  /\ Companions(c) \in Maps /\ DOMAIN Companions(c) \subseteq Keys \ Owns[c]
           /\ \A k \in DOMAIN Companions(c) :
                 Companions(c)[k] = api[k].day /\ api[k].day # Unknown
<1>1. CASE Owns[c] = Keys
  <2>1. Companions(c) = <<>> /\ <<>> \in [{} -> Days] /\ DOMAIN <<>> = {}
    BY <1>1 DEF Companions
  <2>. QED
    BY <2>1 DEF Maps
<1>2. CASE Owns[c] # Keys
  <2>. DEFINE S == {j \in Keys \ Owns[c] : api[j].day # Unknown}
  <2>1. Companions(c) = [k \in S |-> api[k].day]
    BY <1>2 DEF Companions
  <2>2. \A k \in S : api[k].day \in Days /\ api[k].day # Unknown
    <3>1. \A k \in S : api[k] \in Readings /\ api[k].day # Unknown
      BY DEF RowsOK
    <3>. HIDE DEF S
    <3>. QED
      BY <3>1, ReadingIs
  <2>3. S \in SUBSET Keys /\ S \subseteq Keys \ Owns[c]
    OBVIOUS
  <2>. HIDE DEF S
  <2>4. Companions(c) \in [S -> Days]
    BY <2>1, <2>2
  <2>. QED
    BY <2>1, <2>2, <2>3, <2>4, IsMap
<1>. QED
  BY <1>1, <1>2

LEMMA EnterStep ==
    ASSUME Types, NEW c \in Calls, Enter(c)
    PROVE  /\ Types'
           /\ call'[c].others = Companions(c)
           /\ call'[c].unsure = {k \in Keys : api[k].tag # "read"}
           /\ \A d \in Calls : d # c => call'[d] = call[d] /\ pc'[d] = pc[d]
           /\ pc'[c] = "posting"
<1>. USE DEF Types
<1>. DEFINE U == {k \in Keys : api[k].tag # "read"}
            new == [call[c] EXCEPT !.others = Companions(c), !.unsure = U]
<1>1. call' = [call EXCEPT ![c] = new]
  BY DEF Enter
<1>2. call[c] \in Locals /\ U \in SUBSET Keys
  BY DEF CallsOK
<1>. HIDE DEF U
<1>3. /\ new \in Locals /\ new.asked = call[c].asked /\ new.others = Companions(c)
      /\ new.unsure = U /\ new.same = call[c].same
  BY <1>2, CompanionsAre DEF Locals
<1>. HIDE DEF new
<1>4. /\ call' \in [Calls -> Locals]
      /\ \A d \in Calls : call'[d] = IF d = c THEN new ELSE call[d]
  BY <1>1, <1>3 DEF CallsOK
<1>5. \A d \in Calls : pc'[d] = IF d = c THEN "posting" ELSE pc[d]
  BY DEF Enter, LocksOK
<1>6. CallsOK'
  <2>1. call[c].asked \in [Owns[c] -> Days]
    BY DEF Enter, CallsOK, UnderWay
  <2>. QED
    BY <1>3, <1>4, <1>5, <2>1, CompanionsAre DEF CallsOK
<1>7. LocksOK'
  <2>1. pc' \in [Calls -> {"idle", "done"} \cup UnderWay]
    BY DEF Enter, LocksOK, UnderWay
  <2>. QED
    BY <1>5, <2>1 DEF Enter, LocksOK, polling
<1>8. RowsOK'
  BY RowsStay DEF Enter, polling
<1>. QED
  BY <1>3, <1>4, <1>5, <1>6, <1>7, <1>8 DEF U

LEMMA BusyStep == ASSUME Types, NEW c \in Calls, Busy(c) PROVE Types'
BY CallEnds, LocksStay, RowsStay DEF Types, Busy, polling

(* What one request carries: the call's own days and its companions'.      *)
LEMMA SentIs ==
    ASSUME CallsOK, NEW c \in Calls, pc[c] = "posting"
    PROVE  /\ DOMAIN Sent(c) = Owns[c] \cup DOMAIN call[c].others
           /\ DOMAIN Sent(c) \subseteq Keys
           /\ \A k \in DOMAIN Sent(c) : Sent(c)[k] \in Days
           /\ \A k \in Owns[c] : Sent(c)[k] = call[c].asked[k]
           /\ \A k \in DOMAIN call[c].others : Sent(c)[k] = call[c].others[k]
<1>1. call[c].asked \in [Owns[c] -> Days]
  BY DEF CallsOK, UnderWay
<1>2. call[c].others \in [DOMAIN call[c].others -> Days]
  BY MapIs DEF CallsOK, Locals
<1>3. DOMAIN call[c].others \subseteq Keys \ Owns[c]
  BY DEF CallsOK
<1>. QED
  BY <1>1, <1>2, <1>3, OwnsIs DEF Sent

LEMMA KeepIs ==
    ASSUME RowsOK, CallsOK, NEW c \in Calls, pc[c] = "posting"
    PROVE  /\ Keep(Sent(c)) \in [Keys -> Days]
           /\ \A k \in Keys : Keep(Sent(c))[k] = IF k \in DOMAIN Sent(c) THEN Sent(c)[k]
                                                ELSE portal[k]
BY SentIs DEF Keep, RowsOK

(* What an accepted write leaves in the api's rows.                        *)
LEMMA PublishIs ==
    ASSUME RowsOK, CallsOK, NEW c \in Calls, pc[c] = "posting", Publish(c, Sent(c))
    PROVE  /\ api' \in [Keys -> Readings]
           /\ \A k \in Owns[c] : api'[k].day = call[c].asked[k] /\ api'[k].tag = "asked"
           /\ \A k \in Keys \ Owns[c] :
                 \/ api'[k] = api[k]
                 \/ /\ k \in DOMAIN call[c].others /\ api'[k].tag = "again"
                    /\ api[k].day # call[c].others[k]
<1>. DEFINE sent == Sent(c)
<1>1. \A k \in Keys : api'[k] =
         IF k \notin DOMAIN sent THEN api[k]
         ELSE IF k \in Owns[c] THEN Row(sent[k], "asked")
         ELSE IF api[k].day = sent[k] THEN api[k]
         ELSE Row(sent[k], "again")
  BY DEF Publish
<1>2. ASSUME NEW k \in DOMAIN sent, NEW tag \in Tags
      PROVE  /\ Row(sent[k], tag) \in Readings
             /\ Row(sent[k], tag).day = sent[k] /\ Row(sent[k], tag).tag = tag
  <2>1. sent[k] \in Days /\ sent[k] # Unknown
    BY ZenonT(60), SentIs
  <2>. QED
    BY <2>1, RowIs
<1>3. "asked" \in Tags /\ "again" \in Tags
  BY DEF Tags
<1>4. DOMAIN api' = Keys /\ api' = [k \in Keys |-> api'[k]]
  BY DEF Publish
<1>. HIDE DEF sent
<1>5. api' \in [Keys -> Readings]
  BY <1>1, <1>2, <1>3, <1>4 DEF RowsOK
<1>6. /\ Owns[c] \subseteq DOMAIN sent /\ Owns[c] \subseteq Keys
      /\ DOMAIN sent = Owns[c] \cup DOMAIN call[c].others
      /\ \A k \in Owns[c] : sent[k] = call[c].asked[k]
      /\ \A k \in DOMAIN call[c].others : sent[k] = call[c].others[k]
  BY SentIs, OwnsIs DEF sent
<1>7. \A k \in Owns[c] : api'[k].day = call[c].asked[k] /\ api'[k].tag = "asked"
  BY <1>1, <1>2, <1>3, <1>6
<1>8. ASSUME NEW k \in Keys \ Owns[c], api'[k] # api[k]
      PROVE  /\ k \in DOMAIN call[c].others /\ api'[k].tag = "again"
             /\ api[k].day # call[c].others[k]
  BY <1>1, <1>2, <1>3, <1>6, <1>8
<1>. QED
  BY <1>5, <1>7, <1>8

LEMMA AcceptedStep ==
    ASSUME Types, NEW c \in Calls, Accepted(c)
    PROVE  /\ Types' /\ pc'[c] = "reread"
           /\ \A d \in Calls : d # c => call'[d] = call[d] /\ pc'[d] = pc[d]
<1>. USE DEF Types
<1>. DEFINE new == [call[c] EXCEPT !.others = <<>>, !.unsure = {}]
<1>1. call' = [call EXCEPT ![c] = new] /\ pc[c] = "posting"
  BY DEF Accepted
<1>2. call[c] \in Locals /\ <<>> \in Maps /\ DOMAIN <<>> = {}
  BY NothingIs DEF CallsOK, Nothing, Locals
<1>3. /\ new \in Locals /\ new.asked = call[c].asked /\ new.others = <<>>
      /\ new.same = call[c].same
  BY <1>2 DEF Locals
<1>. HIDE DEF new
<1>4. /\ call' \in [Calls -> Locals]
      /\ \A d \in Calls : call'[d] = IF d = c THEN new ELSE call[d]
  BY <1>1, <1>3 DEF CallsOK
<1>5. \A d \in Calls : pc'[d] = IF d = c THEN "reread" ELSE pc[d]
  BY DEF Accepted, LocksOK
<1>6. CallsOK'
  BY <1>1, <1>2, <1>3, <1>4, <1>5 DEF CallsOK, UnderWay
<1>7. LocksOK'
  <2>1. pc' \in [Calls -> {"idle", "done"} \cup UnderWay]
    BY DEF Accepted, LocksOK, UnderWay, OnItsWay
  <2>2. lock = c /\ lock' = Free /\ poll' = poll
    BY DEF Accepted, LocksOK, polling
  <2>. QED
    BY <1>5, <2>1, <2>2 DEF LocksOK
<1>8. RowsOK'
  BY <1>1, KeepIs, PublishIs DEF Accepted, RowsOK, polling
<1>. QED
  BY <1>4, <1>5, <1>6, <1>7, <1>8

LEMMA NotAcceptedStep == ASSUME Types, NEW c \in Calls, NotAccepted(c) PROVE Types'
<1>. USE DEF Types, NotAccepted
<1>1. CallsOK'
  BY CallEnds
<1>2. LocksOK'
  <2>1. \A d \in Calls : pc'[d] = IF d = c THEN "idle" ELSE pc[d]
    BY DEF LocksOK
  <2>2. lock = c /\ lock' = Free /\ poll' = poll
    BY DEF LocksOK, polling
  <2>. QED
    BY <2>1, <2>2 DEF LocksOK
<1>3. RowsOK'
  BY ZenonT(60), KeepIs, SentIs DEF RowsOK, polling, rows
<1>. QED
  BY <1>1, <1>2, <1>3

(* A read-back with an answer, whichever dates it carries.                 *)
LEMMA RereadIs ==
    ASSUME Types, NEW c \in Calls, Reread(c), RereadAnswered(c)
    PROVE  /\ Types'
           /\ \E ks \in SUBSET Keys :
                 /\ foreign' = foreign \ ks
                 /\ \A k \in Keys : /\ api'[k].tag = "read"
                                    /\ api'[k].day = IF k \in ks THEN portal[k] ELSE Unknown
                 /\ \A d \in Calls :
                       /\ d # c => pc'[d] = pc[d]
                       /\ call'[d].asked = call[d].asked
                       /\ call'[d].same = Hear(ks, portal)[d].same
                       /\ call'[d].other = Hear(ks, portal)[d].other
<1>. USE DEF Types
<1>1. PICK ks \in SUBSET Keys :
        /\ Replace(ks, portal) /\ foreign' = foreign \ ks
        /\ call' = [Hear(ks, portal) EXCEPT ![c].failed = ~Confirms(c, ks)]
  BY DEF RereadAnswered
<1>. DEFINE heard == Hear(ks, portal)
            new == [heard[c] EXCEPT !.failed = ~Confirms(c, ks)]
<1>2. HearsOnly(heard)
  BY HearIs
<1>. HIDE DEF heard
<1>3. heard \in [Calls -> Locals] /\ \A d \in Calls : heard[d].same \subseteq Owns[d]
  BY <1>2 DEF HearsOnly
<1>4. ASSUME NEW d \in Calls
      PROVE  /\ heard[d].asked = call[d].asked /\ heard[d].others = call[d].others
             /\ heard[d].unsure = call[d].unsure
  BY <1>2 DEF HearsOnly
<1>5. Confirms(c, ks) \in BOOLEAN
  BY DEF Confirms
<1>6. /\ new \in Locals /\ new.asked = heard[c].asked /\ new.others = heard[c].others
      /\ new.unsure = heard[c].unsure /\ new.same = heard[c].same
      /\ new.other = heard[c].other /\ new.failed = ~Confirms(c, ks)
  BY <1>3, <1>5 DEF Locals
<1>. HIDE DEF new
<1>7. call' = [heard EXCEPT ![c] = new]
  BY <1>1 DEF heard, new
<1>8. /\ call' \in [Calls -> Locals]
      /\ \A d \in Calls : call'[d] = IF d = c THEN new ELSE heard[d]
  BY ZenonT(60), <1>3, <1>6, <1>7
<1>9. \A d \in Calls : pc'[d] = IF d = c THEN "settling" ELSE pc[d]
  BY DEF Reread, LocksOK
<1>10. pc[c] = "reread" /\ call[c].asked \in [Owns[c] -> Days]
  BY DEF Reread, CallsOK, UnderWay, OnItsWay
<1>11. CallsOK'
  <2>1. \A d \in Calls : /\ call'[d].asked = call[d].asked
                         /\ call'[d].others = call[d].others
                         /\ call'[d].same \subseteq Owns[d]
    BY ZenonT(60), <1>3, <1>4, <1>6, <1>8
  <2>2. \A d \in Calls : pc'[d] \in UnderWay => pc[d] \in UnderWay
    BY <1>9, <1>10 DEF UnderWay, OnItsWay
  <2>. QED
    BY <1>8, <2>1, <2>2 DEF CallsOK
<1>12. LocksOK'
  BY <1>10, LocksStay DEF Reread, OnItsWay, polling
<1>13. portal \in [Keys -> Days \cup {Unknown}]
  BY DEF RowsOK
<1>14. UNCHANGED <<portal, measured, attached>>
  BY DEF Reread, polling
<1>15. RowsOK'
  BY <1>1, <1>13, <1>14, ReplaceIs DEF RowsOK
<1>16. \A k \in Keys : /\ api'[k].tag = "read"
                       /\ api'[k].day = IF k \in ks THEN portal[k] ELSE Unknown
  BY <1>1, <1>13, <1>14, ReplaceIs
<1>17. ASSUME NEW d \in Calls
       PROVE  /\ d # c => pc'[d] = pc[d]
              /\ call'[d].asked = call[d].asked
              /\ call'[d].same = heard[d].same /\ call'[d].other = heard[d].other
  BY <1>4, <1>6, <1>8, <1>9
<1>. QED
  BY <1>1, <1>11, <1>12, <1>15, <1>16, <1>17 DEF heard

(* A read-back without an answer touches no row.                           *)
LEMMA FailedStep ==
    ASSUME Types, NEW c \in Calls, Reread(c), RereadFailed(c)
    PROVE  /\ Types' /\ pc[c] = "reread" /\ pc'[c] = "settling" /\ call'[c].failed = TRUE
           /\ UNCHANGED <<lock, polling, portal, rows, foreign>>
           /\ \A d \in Calls : d # c => call'[d] = call[d] /\ pc'[d] = pc[d]
<1>. USE DEF Types
<1>. DEFINE new == [call[c] EXCEPT !.failed = TRUE]
<1>1. call' = [call EXCEPT ![c] = new]
  BY DEF RereadFailed
<1>2. call[c] \in Locals
  BY DEF CallsOK
<1>3. /\ new \in Locals /\ new.asked = call[c].asked /\ new.others = call[c].others
      /\ new.same = call[c].same /\ new.failed = TRUE
  BY <1>2 DEF Locals
<1>. HIDE DEF new
<1>4. /\ call' \in [Calls -> Locals]
      /\ \A d \in Calls : call'[d] = IF d = c THEN new ELSE call[d]
  BY <1>1, <1>3 DEF CallsOK
<1>5. /\ \A d \in Calls : pc'[d] = IF d = c THEN "settling" ELSE pc[d]
      /\ pc[c] = "reread"
  BY DEF Reread, LocksOK
<1>6. CallsOK'
  <2>1. \A d \in Calls : pc'[d] \in UnderWay => pc[d] \in UnderWay
    BY <1>5 DEF UnderWay, OnItsWay
  <2>. QED
    BY <1>3, <1>4, <2>1 DEF CallsOK
<1>7. LocksOK'
  BY <1>5, LocksStay DEF Reread, OnItsWay, polling
<1>8. UNCHANGED <<lock, polling, portal, rows, foreign>>
  BY DEF Reread, RereadFailed, rows
<1>9. RowsOK'
  BY <1>8, RowsStay DEF polling
<1>. QED
  BY <1>3, <1>4, <1>5, <1>6, <1>7, <1>8, <1>9

(* A day that is cut off, or missed, is the same day under another tag.    *)
LEMMA Retagged ==
    ASSUME RowsOK, NEW k \in Keys, NEW tag \in Tags, api[k].tag = "asked"
    PROVE  /\ Row(api[k].day, tag) \in Readings /\ Row(api[k].day, tag).day = api[k].day
           /\ Row(api[k].day, tag).tag = tag
<1>1. api[k].day \in Days
  BY ReadingIs DEF RowsOK
<1>. QED
  BY <1>1, RowIs

LEMMA CutOffStep ==
    ASSUME Types, NEW c \in Calls, pc[c] \in OnItsWay, CutOff(c)
    PROVE  /\ Types' /\ pc'[c] \in {"idle", "done"}
           /\ UNCHANGED <<lock, polling, portal, foreign>>
           /\ \A d \in Calls : d # c => call'[d] = call[d] /\ pc'[d] = pc[d]
           /\ \A k \in Keys :
                 \/ /\ api'[k] = api[k]
                    /\ k \in Owns[c] /\ api[k].tag = "asked" =>
                          \E d \in Calls \ {c} : Answers(d, k)
                 \/ api'[k].tag = "cut"
<1>. USE DEF Types
<1>0. PICK x \in {"idle", "done"} : pc' = [pc EXCEPT ![c] = x]
  BY DEF CutOff, Over
<1>1. CallsOK' /\ LocksOK'
  BY <1>0, CallEnds, LocksStay DEF CutOff, OnItsWay, polling
<1>2. "cut" \in Tags
  BY DEF Tags
<1>. DEFINE Orphan(k) == /\ k \in Owns[c] /\ api[k].tag = "asked"
                         /\ \A d \in Calls \ {c} : ~Answers(d, k)
<1>3. api' = [k \in Keys |-> IF Orphan(k) THEN Row(api[k].day, "cut") ELSE api[k]]
  BY DEF CutOff
<1>4. \A k \in Keys : Orphan(k) => /\ Row(api[k].day, "cut") \in Readings
                                   /\ Row(api[k].day, "cut").tag = "cut"
  BY <1>2, Retagged
<1>5. \A k \in Keys :
         \/ /\ api'[k] = api[k]
            /\ k \in Owns[c] /\ api[k].tag = "asked" => \E d \in Calls \ {c} : Answers(d, k)
         \/ api'[k].tag = "cut"
  BY <1>3, <1>4
<1>6. api' \in [Keys -> Readings]
  <2>. HIDE DEF Orphan
  <2>. QED
    BY <1>3, <1>4 DEF RowsOK
<1>7. RowsOK'
  BY <1>6 DEF CutOff, RowsOK, polling
<1>8. \A d \in Calls : d # c => call'[d] = call[d] /\ pc'[d] = pc[d]
  BY <1>0 DEF CutOff, CallsOK, LocksOK
<1>. QED
  BY <1>0, <1>1, <1>5, <1>7, <1>8 DEF CutOff, LocksOK

LEMMA SettleStep ==
    ASSUME Types, NEW c \in Calls, Settle(c)
    PROVE  /\ Types' /\ pc'[c] \in {"idle", "done"}
           /\ \A d \in Calls : d # c => call'[d] = call[d] /\ pc'[d] = pc[d]
           /\ ~call[c].failed => UNCHANGED api
           /\ \A k \in Keys \ Owns[c] : api'[k] = api[k]
           /\ call[c].failed => \A k \in Owns[c] :
                 \/ api'[k] = api[k] /\ api[k].tag # "asked"
                 \/ api'[k].tag \in {"missed", "gone"}
<1>. USE DEF Types
<1>1. PICK x \in {"idle", "done"} : pc' = [pc EXCEPT ![c] = x]
  BY DEF Settle, Over
<1>2. CallsOK' /\ LocksOK'
  BY <1>1, CallEnds, LocksStay DEF Settle, polling
<1>3. "missed" \in Tags
  BY DEF Tags
<1>4. ASSUME Forget(c)
      PROVE  /\ api' \in [Keys -> Readings] /\ old' \in [Keys -> Readings]
             /\ \A k \in linked : old'[k] = Blank
             /\ \A k \in Keys \ Owns[c] : api'[k] = api[k]
             /\ \A k \in Owns[c] :
                   \/ api'[k] = api[k] /\ api[k].tag # "asked"
                   \/ api'[k].tag \in {"missed", "gone"}
  <2>1. \A k \in Keys : api'[k] =
           IF k \notin Owns[c] THEN api[k]
           ELSE IF k \in linked THEN Gone
           ELSE IF api[k].tag = "asked" THEN Row(api[k].day, "missed")
           ELSE api[k]
    BY <1>4 DEF Forget
  <2>2. api' \in [Keys -> Readings]
    BY <1>3, <1>4, BlankIs, Retagged DEF Forget, RowsOK
  <2>3. old' \in [Keys -> Readings] /\ \A k \in linked : old'[k] = Blank
    BY <1>4, BlankIs DEF Forget, RowsOK
  <2>. QED
    BY <1>3, <2>1, <2>2, <2>3, BlankIs, Retagged, OwnsIs
<1>5. RowsOK'
  <2>1. CASE call[c].failed
    BY <1>4, <2>1 DEF Settle, RowsOK, polling
  <2>2. CASE ~call[c].failed
    BY <2>2 DEF Settle, RowsOK, polling
  <2>. QED
    BY <2>1, <2>2
<1>6. \A d \in Calls : d # c => call'[d] = call[d] /\ pc'[d] = pc[d]
  BY <1>1 DEF Settle, CallsOK, LocksOK
<1>7. pc'[c] \in {"idle", "done"}
  BY <1>1 DEF LocksOK
<1>. QED
  BY <1>2, <1>4, <1>5, <1>6, <1>7 DEF Settle

LEMMA ElsewhereStep == ASSUME Types, SetElsewhere PROVE Types'
<1>1. CallsOK' /\ LocksOK'
  BY CallsStay DEF Types, SetElsewhere, LocksOK, calls, polling
<1>2. RowsOK'
  BY DEF Types, SetElsewhere, RowsOK, rows, polling
<1>. QED
  BY <1>1, <1>2 DEF Types

LEMMA NextTypes == Types /\ [Next]_vars => Types'
<1>. SUFFICES ASSUME Types, [Next]_vars PROVE Types'
  OBVIOUS
<1>1. CASE PollBegins \/ Rebind \/ Measure \/ PollReturns \/ PollFails \/ PollPublished
             \/ PollTimesOut
  BY <1>1, PollStep
<1>2. CASE MapRows
  BY <1>2, MapRowsStep
<1>3. CASE SetElsewhere
  BY <1>3, ElsewhereStep
<1>4. ASSUME NEW c \in Calls,
             Ask(c) \/ Enter(c) \/ Busy(c) \/ Accepted(c) \/ NotAccepted(c)
      PROVE  Types'
  BY <1>4, AskStep, EnterStep, BusyStep, AcceptedStep, NotAcceptedStep
<1>5. ASSUME NEW c \in Calls, Reread(c) PROVE Types'
  <2>1. CASE RereadAnswered(c)
    BY <1>5, <2>1, RereadIs
  <2>2. CASE RereadFailed(c)
    BY <1>5, <2>2, FailedStep
  <2>. QED
    BY <1>5, <2>1, <2>2 DEF Reread
<1>6. ASSUME NEW c \in Calls, RereadBusy(c) \/ Cancelled(c) \/ Settle(c) PROVE Types'
  BY <1>6, CutOffStep, SettleStep DEF RereadBusy, Cancelled, OnItsWay
<1>7. CASE UNCHANGED vars
  BY <1>7, CallsStay, RowsStay DEF vars, Types, LocksOK, calls, polling
<1>. QED
  BY <1>1, <1>2, <1>3, <1>4, <1>5, <1>6, <1>7 DEF Next

LEMMA InitTypes == Init => Types
<1>. SUFFICES ASSUME Init PROVE Types
  OBVIOUS
<1>1. RowsOK
  <2>1. \A k \in Keys : Row(portal[k], "read") \in Readings
    BY ZenonT(60), RowIs DEF Init, Tags
  <2>. QED
    BY <2>1, BlankIs DEF Init, RowsOK, Blanks
<1>2. LocksOK
  BY DEF Init, LocksOK
<1>3. CallsOK
  BY NothingIs DEF Init, CallsOK, UnderWay, OnItsWay
<1>. QED
  BY <1>1, <1>2, <1>3 DEF Types

LEMMA TypesAlways == Spec => []Types
BY InitTypes, NextTypes, PTL DEF Spec

(* The types of the component; a date the two dicts share is one object,   *)
(* and whoever posts holds the lock.                                       *)
THEOREM TypeCorrect == Spec => []TypeOK
<1>1. Types => TypeOK
  BY DEF Types, RowsOK, LocksOK, TypeOK, UnderWay
<1>. QED
  BY <1>1, TypesAlways, PTL

-----------------------------------------------------------------------------
(* What a step leaves where it was *)

(* Who is posting is inside the lock: no cycle is, and nobody else.        *)
LEMMA PostingIsAlone ==
    ASSUME LocksOK, NEW c \in Calls, pc[c] = "posting"
    PROVE  /\ lock = c /\ lock # Free /\ lock # "poll"
           /\ poll \notin {"running", "measured", "mapped"}
           /\ \A d \in Calls : pc[d] = "posting" => d = c
BY DEF LocksOK

(* The steps of the poll that publish or read nothing, and a call that is  *)
(* only asked or turned away.                                              *)
Quiet ==
    \/ PollBegins \/ Rebind \/ Measure \/ PollReturns \/ PollFails
    \/ PollPublished \/ PollTimesOut \/ UNCHANGED vars

LEMMA QuietKeeps ==
    ASSUME Types, Quiet
    PROVE  /\ UNCHANGED <<api, portal, calls, foreign>>
           /\ poll' = "measured" => \/ poll = "measured" /\ measured' = measured
                                    \/ measured' = portal
<1>1. UNCHANGED <<api, portal, calls, foreign>>
  BY DEF Quiet, PollBegins, Rebind, Measure, PollReturns, PollFails, PollPublished,
     PollTimesOut, vars, rows, calls
<1>2. poll' = "measured" => \/ poll = "measured" /\ measured' = measured
                            \/ measured' = portal
  BY DEF Quiet, PollBegins, Rebind, Measure, PollReturns, PollFails, PollPublished,
     PollTimesOut, vars, polling
<1>. QED
  BY <1>1, <1>2

LEMMA AskOrBusy ==
    ASSUME Types, NEW c \in Calls, Ask(c) \/ Busy(c)
    PROVE  /\ UNCHANGED <<lock, polling, api, portal, foreign>>
           /\ pc[c] \in {"idle", "queued"} /\ pc'[c] \in {"idle", "queued"}
           /\ \A d \in Calls : d # c => call'[d] = call[d] /\ pc'[d] = pc[d]
BY DEF Ask, Busy, Types, LocksOK, CallsOK, rows

-----------------------------------------------------------------------------
(* Rows keep up with the portal *)

(* What a cycle has measured is what the portal holds, and so is what a    *)
(* write in flight brings along, unless somebody else has been at the      *)
(* portal - or the row it is from was no reading.                          *)
MeasuredInv ==
    poll = "measured" => \A k \in Keys \ foreign : measured[k] = portal[k]

CompanionsInv ==
    \A c \in Calls : pc[c] = "posting" =>
        \A k \in DOMAIN call[c].others :
            k \in foreign \/ k \in call[c].unsure \/ call[c].others[k] = portal[k]

RowsInv == RowsKeepUp /\ MeasuredInv /\ CompanionsInv

(* A step with nobody posting after it, or with the posting call, the      *)
(* portal and the dates in doubt as they were.                             *)
LEMMA CompanionsStay ==
    ASSUME Types, Types', CompanionsInv,
           \A c \in Calls : pc'[c] = "posting" =>
              /\ pc[c] = "posting" /\ call'[c].others = call[c].others
              /\ call'[c].unsure = call[c].unsure,
           \A c \in Calls : pc'[c] = "posting" =>
              foreign \subseteq foreign' /\ \A k \in Keys \ foreign' : portal'[k] = portal[k]
    PROVE  CompanionsInv'
<1>. SUFFICES ASSUME NEW c \in Calls, pc'[c] = "posting",
                     NEW k \in DOMAIN call'[c].others
              PROVE  k \in foreign' \/ k \in call'[c].unsure \/ call'[c].others[k] = portal'[k]
  BY DEF CompanionsInv
<1>1. k \in DOMAIN call[c].others /\ k \in Keys /\ pc[c] = "posting"
  BY DEF Types, CallsOK
<1>2. k \in foreign \/ k \in call[c].unsure \/ call[c].others[k] = portal[k]
  BY <1>1 DEF CompanionsInv
<1>. QED
  BY <1>1, <1>2

LEMMA RowsQuiet == ASSUME Types, RowsInv, Quiet PROVE RowsInv'
<1>. USE DEF RowsInv
<1>1. RowsKeepUp'
  BY QuietKeeps DEF RowsKeepUp
<1>2. MeasuredInv'
  BY QuietKeeps DEF MeasuredInv
<1>3. CompanionsInv'
  BY QuietKeeps DEF CompanionsInv, calls
<1>. QED
  BY <1>1, <1>2, <1>3

LEMMA RowsMapRows == ASSUME Types, Types', RowsInv, MapRows PROVE RowsInv'
<1>. USE DEF RowsInv
<1>0. PICK ks \in SUBSET Keys :
        /\ \A k \in Keys : api'[k].day = IF k \in ks THEN measured[k] ELSE Unknown
        /\ foreign' = {k \in foreign : k \notin ks \/ portal[k] # measured[k]}
  BY MapRowsStep
<1>1. RowsKeepUp'
  <2>1. \A k \in ks : k \notin foreign' => measured[k] = portal[k]
    BY <1>0 DEF MapRows, MeasuredInv
  <2>. QED
    BY <1>0, <2>1 DEF MapRows, RowsKeepUp
<1>2. MeasuredInv'
  BY DEF MapRows, MeasuredInv
<1>3. \A c \in Calls : pc'[c] # "posting"
  BY DEF MapRows, Types, LocksOK
<1>4. CompanionsInv'
  BY <1>3 DEF CompanionsInv
<1>. QED
  BY <1>1, <1>2, <1>4

LEMMA RowsAskOrBusy ==
    ASSUME Types, Types', RowsInv, NEW c \in Calls, Ask(c) \/ Busy(c)
    PROVE  RowsInv'
<1>. USE DEF RowsInv
<1>1. RowsKeepUp' /\ MeasuredInv'
  BY AskOrBusy DEF RowsKeepUp, MeasuredInv, polling
<1>2. CompanionsInv'
  BY AskOrBusy, CompanionsStay
<1>. QED
  BY <1>1, <1>2

(* The companions come from rows that keep up, or are known not to be      *)
(* readings.                                                               *)
LEMMA RowsEnter ==
    ASSUME Types, Types', RowsInv, NEW c \in Calls, Enter(c)
    PROVE  RowsInv'
<1>. USE DEF RowsInv
<1>0. UNCHANGED <<polling, portal, api, foreign>>
  BY DEF Enter, rows
<1>1. RowsKeepUp' /\ MeasuredInv'
  BY <1>0 DEF RowsKeepUp, MeasuredInv, polling
<1>2. \A d \in Calls : pc'[d] = "posting" => d = c
  BY DEF Types, LocksOK, Enter
<1>3. ASSUME NEW k \in DOMAIN call'[c].others
      PROVE  k \in foreign' \/ k \in call'[c].unsure \/ call'[c].others[k] = portal'[k]
  <2>1. /\ k \in Keys /\ call'[c].others[k] = api[k].day /\ api[k].day # Unknown
        /\ k \in call'[c].unsure <=> api[k].tag # "read"
    BY <1>3, EnterStep, CompanionsAre DEF Types
  <2>. QED
    BY <1>0, <2>1 DEF RowsKeepUp
<1>4. CompanionsInv'
  BY <1>2, <1>3 DEF CompanionsInv
<1>. QED
  BY <1>1, <1>4

LEMMA RowsAccepted ==
    ASSUME Types, Types', RowsInv, NEW c \in Calls, Accepted(c)
    PROVE  RowsInv'
<1>. USE DEF RowsInv, Types
<1>0. pc[c] = "posting" /\ UNCHANGED <<polling, foreign>>
  BY DEF Accepted
<1>1. \A d \in Calls : pc'[d] # "posting"
  BY <1>0, PostingIsAlone, AcceptedStep
<1>2. poll # "measured" /\ poll' = poll
  BY <1>0, PostingIsAlone DEF polling
<1>3. RowsKeepUp'
  <2>. SUFFICES ASSUME NEW k \in Keys, api'[k].tag = "read", api'[k].day # Unknown,
                       k \notin foreign
                PROVE  api'[k].day = portal'[k]
    BY <1>0 DEF RowsKeepUp
  <2>0. Publish(c, Sent(c)) /\ portal' \in {portal, Keep(Sent(c))}
    BY DEF Accepted
  <2>1. k \notin Owns[c] /\ api'[k] = api[k]
    BY <1>0, <2>0, PublishIs
  <2>2. api[k].day = portal[k]
    BY <2>1 DEF RowsKeepUp
  <2>3. k \in DOMAIN Sent(c) => Sent(c)[k] = api[k].day
    <3>1. ASSUME k \in DOMAIN Sent(c), Sent(c)[k] # api[k].day PROVE FALSE
      <4>1. api'[k] = Row(Sent(c)[k], "again")
        BY <2>0, <2>1, <3>1 DEF Publish
      <4>2. Sent(c)[k] \in Days
        BY <1>0, <3>1, SentIs
      <4>. QED
        BY ZenonT(60), <4>1, <4>2, RowIs DEF Tags
    <3>. QED BY <3>1
  <2>. QED
    BY <1>0, <2>0, <2>1, <2>2, <2>3, KeepIs
<1>. QED
  BY <1>1, <1>2, <1>3 DEF MeasuredInv, CompanionsInv

LEMMA RowsNotAccepted ==
    ASSUME Types, Types', RowsInv, NEW c \in Calls, NotAccepted(c)
    PROVE  RowsInv'
<1>. USE DEF RowsInv, Types
<1>0. pc[c] = "posting" /\ UNCHANGED <<polling, api>>
  BY DEF NotAccepted, rows
<1>1. \A d \in Calls : pc'[d] # "posting"
  BY <1>0, PostingIsAlone DEF NotAccepted, LocksOK
<1>2. poll # "measured" /\ poll' = poll
  BY <1>0, PostingIsAlone DEF polling
<1>3. \A k \in Keys \ foreign' : k \notin foreign /\ portal'[k] = portal[k]
  BY <1>0, KeepIs DEF NotAccepted
<1>4. RowsKeepUp'
  BY <1>0, <1>3 DEF RowsKeepUp
<1>. QED
  BY <1>1, <1>2, <1>4 DEF MeasuredInv, CompanionsInv

LEMMA RowsReread ==
    ASSUME Types, Types', RowsInv, NEW c \in Calls, Reread(c)
    PROVE  RowsInv'
<1>. USE DEF RowsInv, Types
<1>1. UNCHANGED <<polling, portal>> /\ lock = Free /\ lock' = Free
  BY DEF Reread
<1>2. RowsKeepUp'
  <2>1. CASE RereadAnswered(c)
    <3>1. PICK ks \in SUBSET Keys :
            /\ foreign' = foreign \ ks
            /\ \A k \in Keys : api'[k].day = IF k \in ks THEN portal[k] ELSE Unknown
      BY <2>1, RereadIs
    <3>. QED
      BY <1>1, <3>1 DEF RowsKeepUp
  <2>2. CASE RereadFailed(c)
    BY <1>1, <2>2 DEF RereadFailed, RowsKeepUp
  <2>. QED
    BY <2>1, <2>2 DEF Reread
<1>3. poll # "measured" /\ poll' = poll
  BY <1>1 DEF LocksOK, polling
<1>4. \A d \in Calls : pc'[d] # "posting"
  BY <1>1 DEF LocksOK
<1>. QED
  BY <1>2, <1>3, <1>4 DEF MeasuredInv, CompanionsInv

LEMMA RowsCutOff ==
    ASSUME Types, Types', RowsInv, NEW c \in Calls, RereadBusy(c) \/ Cancelled(c)
    PROVE  RowsInv'
<1>. USE DEF RowsInv
<1>1. pc[c] \in OnItsWay /\ CutOff(c)
  BY DEF RereadBusy, Cancelled, OnItsWay
<1>2. UNCHANGED <<polling, portal, foreign>>
  BY <1>1 DEF CutOff
<1>3. RowsKeepUp'
  BY <1>1, <1>2, CutOffStep DEF RowsKeepUp
<1>4. MeasuredInv'
  BY <1>2 DEF MeasuredInv, polling
<1>5. \A d \in Calls : pc'[d] = "posting" => pc[d] = "posting" /\ call'[d] = call[d]
  BY <1>1, CutOffStep
<1>6. CompanionsInv'
  BY <1>2, <1>5, CompanionsStay
<1>. QED
  BY <1>3, <1>4, <1>6

LEMMA RowsSettle ==
    ASSUME Types, Types', RowsInv, NEW c \in Calls, Settle(c)
    PROVE  RowsInv'
<1>. USE DEF RowsInv
<1>0. UNCHANGED <<polling, portal, foreign>>
  BY DEF Settle
<1>1. \A k \in Keys : api'[k] = api[k] \/ api'[k].tag # "read"
  <2>1. CASE call[c].failed
    BY <2>1, SettleStep
  <2>2. CASE ~call[c].failed
    BY <2>2, SettleStep
  <2>. QED BY <2>1, <2>2
<1>2. RowsKeepUp'
  BY <1>0, <1>1 DEF RowsKeepUp
<1>3. MeasuredInv'
  BY <1>0 DEF MeasuredInv, polling
<1>4. \A d \in Calls : pc'[d] = "posting" => pc[d] = "posting" /\ call'[d] = call[d]
  BY SettleStep
<1>5. CompanionsInv'
  BY <1>0, <1>4, CompanionsStay
<1>. QED
  BY <1>2, <1>3, <1>5

LEMMA RowsElsewhere ==
    ASSUME Types, Types', RowsInv, SetElsewhere
    PROVE  RowsInv'
<1>. USE DEF RowsInv
<1>1. UNCHANGED <<polling, api, pc, call>>
  BY DEF SetElsewhere, rows, calls
<1>2. foreign \subseteq foreign' /\ \A k \in Keys \ foreign' : portal'[k] = portal[k]
  BY DEF SetElsewhere, Types, RowsOK
<1>3. RowsKeepUp' /\ MeasuredInv'
  BY <1>1, <1>2 DEF RowsKeepUp, MeasuredInv, polling
<1>4. CompanionsInv'
  BY <1>1, <1>2, CompanionsStay
<1>. QED
  BY <1>3, <1>4

LEMMA NextRowsInv == Types /\ RowsInv /\ [Next]_vars => RowsInv'
<1>. SUFFICES ASSUME Types, RowsInv, [Next]_vars PROVE RowsInv'
  OBVIOUS
<1>1. Types'
  BY NextTypes
<1>2. CASE Quiet
  BY <1>2, RowsQuiet
<1>3. CASE MapRows \/ SetElsewhere
  BY <1>1, <1>3, RowsMapRows, RowsElsewhere
<1>4. ASSUME NEW c \in Calls,
             \/ Ask(c) \/ Enter(c) \/ Busy(c) \/ Accepted(c) \/ NotAccepted(c)
             \/ Reread(c) \/ RereadBusy(c) \/ Cancelled(c) \/ Settle(c)
      PROVE  RowsInv'
  BY <1>1, <1>4, RowsAskOrBusy, RowsEnter, RowsAccepted, RowsNotAccepted, RowsReread,
     RowsCutOff, RowsSettle
<1>. QED
  BY <1>2, <1>3, <1>4 DEF Next, Quiet

LEMMA RowsAlways == Spec => [](Types /\ RowsInv)
<1>1. Init => RowsInv
  <2>. SUFFICES ASSUME Init PROVE RowsInv
    OBVIOUS
  <2>1. \A k \in Keys : api[k] = Row(portal[k], "read") /\ portal[k] \in Days
    BY DEF Init
  <2>2. \A k \in Keys : api[k].day = portal[k]
    BY <2>1, ReadIs
  <2>. QED
    BY <2>2 DEF Init, RowsInv, RowsKeepUp, MeasuredInv, CompanionsInv
<1>. QED
  BY <1>1, TypesAlways, NextRowsInv, PTL DEF Spec

(* A day that came from the portal is the one the portal holds, as long as *)
(* nobody else changes it there: no cycle and no write puts an older one   *)
(* back.                                                                   *)
THEOREM RowsAreTrue == Spec => []RowsAreThePortals
<1>1. RowsInv => RowsKeepUp
  BY DEF RowsInv
<1>. QED
  BY <1>1, RowsAlways, TypeCorrect, PTL DEF RowsAreThePortals

UndoesNothing ==
    \A c \in Calls : pc[c] = "posting" /\ pc'[c] # "posting" =>
        \A k \in Keys \ Owns[c] :
            portal'[k] = portal[k] \/ k \in foreign \/ k \in call[c].unsure

LEMMA NextUndoesNothing == Types /\ RowsInv /\ [Next]_vars => UndoesNothing
<1>. SUFFICES ASSUME Types, RowsInv, [Next]_vars,
                     NEW c \in Calls, pc[c] = "posting", pc'[c] # "posting",
                     NEW k \in Keys \ Owns[c], portal'[k] # portal[k]
              PROVE  k \in foreign \/ k \in call[c].unsure
  BY DEF UndoesNothing
<1>. USE DEF Types
<1>1. Accepted(c) \/ NotAccepted(c)
  <2>1. ~(Quiet \/ MapRows \/ SetElsewhere)
    <3>1. ~Quiet
      BY QuietKeeps DEF calls
    <3>2. ~MapRows /\ ~SetElsewhere
      BY DEF MapRows, SetElsewhere, calls
    <3>. QED BY <3>1, <3>2
  <2>2. PICK d \in Calls : Ask(d) \/ Enter(d) \/ Busy(d) \/ Accepted(d) \/ NotAccepted(d)
                             \/ Reread(d) \/ RereadBusy(d) \/ Cancelled(d) \/ Settle(d)
    BY <2>1 DEF Next, Quiet
  <2>3. CASE d = c
    BY <2>2, <2>3 DEF Ask, Enter, Busy, Reread, RereadBusy, Cancelled, Settle, OnItsWay
  <2>4. CASE d # c
    BY <2>2, <2>4 DEF Ask, Enter, Busy, Accepted, NotAccepted, Reread, RereadBusy, Cancelled,
       CutOff, Settle, LocksOK
  <2>. QED BY <2>3, <2>4
<1>2. portal' = Keep(Sent(c))
  BY <1>1 DEF Accepted, NotAccepted
<1>3. k \in DOMAIN call[c].others /\ Sent(c)[k] = call[c].others[k] /\ portal'[k] = Sent(c)[k]
  BY <1>2, KeepIs, SentIs
<1>. QED
  BY <1>3 DEF RowsInv, CompanionsInv

(* A write never takes another date back: what it sends along is what the  *)
(* portal holds, but for a day somebody else set since, or one that is     *)
(* itself not confirmed.                                                   *)
THEOREM NoDateIsTakenBack == Spec => NothingUndone
<1>1. UndoesNothing =>
        \A c \in Calls : pc[c] = "posting" /\ pc'[c] # "posting" =>
          \A k \in Keys \ Owns[c] :
             portal'[k] = portal[k] \/ k \in foreign \/ k \in call[c].unsure
  BY DEF UndoesNothing
<1>. QED
  BY <1>1, RowsAlways, NextUndoesNothing, PTL DEF Spec, NothingUndone

-----------------------------------------------------------------------------
(* An unconfirmed day is still to be read back *)

(* A read-back that worked leaves none of its days unconfirmed: it is not  *)
(* the settling alone that answers for a day.                              *)
AskedInv == \A k \in Keys : api[k].tag = "asked" => \E c \in Calls : Answers(c, k)

(* A step that records no new day, and after which those who answer for    *)
(* the days that stay do so still.                                         *)
LEMMA AskedStays ==
    ASSUME AskedInv,
           \A k \in Keys : api'[k].tag = "asked" => api[k].tag = "asked",
           \A k \in Keys : \A c \in Calls :
              api'[k].tag = "asked" /\ Answers(c, k) => Answers(c, k)'
    PROVE  AskedInv'
BY DEF AskedInv

LEMMA AskedReread ==
    ASSUME Types, Types', AskedInv, NEW c \in Calls, Reread(c)
    PROVE  AskedInv'
<1>1. CASE RereadAnswered(c)
  BY <1>1, RereadIs DEF AskedInv
<1>2. CASE RereadFailed(c)
  <2>1. UNCHANGED api
    BY <1>2 DEF RereadFailed
  <2>2. \A k \in Keys : \A d \in Calls : Answers(d, k) => Answers(d, k)'
    BY <1>2, FailedStep DEF Answers
  <2>. QED
    BY <2>1, <2>2, AskedStays
<1>. QED
  BY <1>1, <1>2 DEF Reread

LEMMA AskedSettle ==
    ASSUME Types, Types', AskedInv, NEW c \in Calls, Settle(c)
    PROVE  AskedInv'
<1>. USE DEF Types
<1>0. pc[c] = "settling"
  BY DEF Settle
<1>1. CASE call[c].failed
  <2>1. \A k \in Owns[c] : api'[k].tag # "asked"
    BY <1>1, SettleStep
  <2>2. \A k \in Keys \ Owns[c] : api'[k] = api[k]
    BY SettleStep
  <2>3. \A k \in Keys : \A d \in Calls :
           api'[k].tag = "asked" /\ Answers(d, k) => Answers(d, k)'
    <3>. SUFFICES ASSUME NEW k \in Keys, NEW d \in Calls, api'[k].tag = "asked",
                         Answers(d, k)
                  PROVE  Answers(d, k)'
      OBVIOUS
    <3>1. d # c
      BY <2>1 DEF Answers
    <3>. QED
      BY <3>1, SettleStep DEF Answers
  <2>. QED
    BY <2>1, <2>2, <2>3, AskedStays
<1>2. CASE ~call[c].failed
  <2>1. \A k \in Keys : ~Answers(c, k)
    BY <1>0, <1>2 DEF Answers
  <2>2. UNCHANGED api
    BY <1>2, SettleStep
  <2>3. \A k \in Keys : \A d \in Calls : Answers(d, k) => Answers(d, k)'
    BY <2>1, SettleStep DEF Answers
  <2>. QED
    BY <2>2, <2>3, AskedStays
<1>. QED
  BY <1>1, <1>2

LEMMA NextAskedInv == Types /\ AskedInv /\ [Next]_vars => AskedInv'
<1>. SUFFICES ASSUME Types, AskedInv, [Next]_vars PROVE AskedInv'
  OBVIOUS
<1>. USE DEF Types
<1>0. Types'
  BY NextTypes
<1>1. CASE Quiet \/ SetElsewhere
  <2>1. UNCHANGED <<api, pc, call>>
    BY <1>1, QuietKeeps DEF SetElsewhere, rows, calls
  <2>. QED
    BY <2>1 DEF AskedInv, Answers
<1>2. CASE MapRows
  BY <1>2, MapRowsStep DEF AskedInv
<1>3. ASSUME NEW c \in Calls, Ask(c) \/ Busy(c) PROVE AskedInv'
  <2>1. UNCHANGED api /\ \A k \in Keys : \A d \in Calls : Answers(d, k) => Answers(d, k)'
    BY <1>3, AskOrBusy DEF Answers
  <2>. QED
    BY <2>1, AskedStays
<1>4. ASSUME NEW c \in Calls, Enter(c) PROVE AskedInv'
  <2>1. UNCHANGED api /\ pc[c] = "queued"
    BY <1>4 DEF Enter, rows
  <2>2. \A k \in Keys : \A d \in Calls : Answers(d, k) => Answers(d, k)'
    BY <1>4, <2>1, EnterStep DEF Answers
  <2>. QED
    BY <2>1, <2>2, AskedStays
<1>5. ASSUME NEW c \in Calls, Accepted(c) PROVE AskedInv'
  <2>0. pc[c] = "posting" /\ Publish(c, Sent(c))
    BY <1>5 DEF Accepted
  <2>1. \A k \in Keys \ Owns[c] : api'[k].tag = "asked" => api[k].tag = "asked"
    BY <2>0, PublishIs
  <2>2. \A k \in Owns[c] : Answers(c, k)'
    BY <1>5, AcceptedStep DEF Answers
  <2>3. \A k \in Keys : \A d \in Calls : Answers(d, k) => Answers(d, k)'
    BY <1>5, <2>0, AcceptedStep DEF Answers
  <2>. QED
    BY <2>1, <2>2, <2>3 DEF AskedInv
<1>6. ASSUME NEW c \in Calls, NotAccepted(c) PROVE AskedInv'
  <2>1. /\ UNCHANGED api /\ pc[c] = "posting"
        /\ \A d \in Calls : d # c => call'[d] = call[d] /\ pc'[d] = pc[d]
    BY <1>6 DEF NotAccepted, rows, CallsOK, LocksOK
  <2>2. \A k \in Keys : \A d \in Calls : Answers(d, k) => Answers(d, k)'
    BY <2>1 DEF Answers
  <2>. QED
    BY <2>1, <2>2, AskedStays
<1>7. ASSUME NEW c \in Calls, RereadBusy(c) \/ Cancelled(c) PROVE AskedInv'
  <2>1. pc[c] \in OnItsWay /\ CutOff(c)
    BY <1>7 DEF RereadBusy, Cancelled, OnItsWay
  <2>2. \A d \in Calls : d # c => call'[d] = call[d] /\ pc'[d] = pc[d]
    BY <2>1, CutOffStep
  <2>3. ASSUME NEW k \in Keys, api'[k].tag = "asked"
        PROVE  \E d \in Calls : Answers(d, k)'
    <3>1. /\ api[k].tag = "asked"
          /\ k \in Owns[c] => \E d \in Calls \ {c} : Answers(d, k)
      BY <2>1, <2>3, CutOffStep
    <3>2. PICK d \in Calls : d # c /\ Answers(d, k)
      BY <3>1 DEF AskedInv, Answers
    <3>. QED
      BY <2>2, <3>2 DEF Answers
  <2>. QED
    BY <2>3 DEF AskedInv
<1>8. ASSUME NEW c \in Calls, Reread(c) \/ Settle(c) PROVE AskedInv'
  BY <1>0, <1>8, AskedReread, AskedSettle
<1>. QED
  BY <1>1, <1>2, <1>3, <1>4, <1>5, <1>6, <1>7, <1>8 DEF Next, Quiet

(* A written day that stands in the rows is still to be read back, or its  *)
(* call has not settled: neither another call nor a cycle orphans it.      *)
THEOREM UnconfirmedIsWaitedFor == Spec => []UnconfirmedIsAwaited
<1>1. Init => AskedInv
  <2>. SUFFICES ASSUME Init PROVE AskedInv
    OBVIOUS
  <2>1. \A k \in Keys : api[k] = Row(portal[k], "read") /\ portal[k] \in Days
    BY DEF Init
  <2>2. ASSUME NEW k \in Keys PROVE api[k].tag = "read"
    <3>1. portal[k] \in Days /\ api[k] = Row(portal[k], "read")
      BY <2>1
    <3>. QED
      BY <3>1, DayIs
  <2>. QED
    BY <2>2 DEF AskedInv
<1>2. AskedInv => UnconfirmedIsAwaited
  BY DEF AskedInv, Answers, UnconfirmedIsAwaited, Awaited, OnItsWay
<1>. QED
  BY <1>1, <1>2, TypesAlways, NextAskedInv, PTL DEF Spec

-----------------------------------------------------------------------------
(* A verdict was heard *)

Judging(c) == pc[c] = "settling" /\ ~call[c].failed

(* Where the row that a call is to judge by is what an answer left, the    *)
(* call has heard that answer: the day that was asked for, or something    *)
(* else.                                                                   *)
Told(c, k) ==
    api[k].tag = "read" =>
       k \in (IF api[k].day = call[c].asked[k] THEN call[c].same ELSE call[c].other)

VerdictInv == \A c \in Calls : Judging(c) => \A k \in Owns[c] : Told(c, k)

(* Every call on its way hears of each of its dates in every answer, and   *)
(* forgets nothing it heard.                                               *)
LEMMA HearAdds ==
    ASSUME CallsOK, NEW ks \in SUBSET Keys, NEW day, NEW c \in Calls, pc[c] \in OnItsWay,
           NEW k \in Owns[c]
    PROVE  IF k \in ks /\ day[k] = call[c].asked[k] THEN k \in Hear(ks, day)[c].same
           ELSE k \in Hear(ks, day)[c].other
<1>. DEFINE S == {j \in Owns[c] \cap ks : day[j] = call[c].asked[j]}
            new == [call[c] EXCEPT !.same = @ \cup S, !.other = @ \cup (Owns[c] \ S)]
<1>1. Hear(ks, day)[c] = new
  BY DEF Hear
<1>2. call[c] \in Locals
  BY DEF CallsOK
<1>3. k \in S <=> k \in ks /\ day[k] = call[c].asked[k]
  OBVIOUS
<1>. HIDE DEF S
<1>4. new.same = call[c].same \cup S /\ new.other = call[c].other \cup (Owns[c] \ S)
  BY <1>2 DEF Locals
<1>. HIDE DEF new
<1>. QED
  BY <1>1, <1>3, <1>4

(* An answer, heard by whoever judges after it, tells it of the rows it    *)
(* has left: they hold the days it carried, and no day where it carried    *)
(* none.                                                                   *)
LEMMA AnswerTells ==
    ASSUME Types, NEW ks \in SUBSET Keys, NEW day \in [Keys -> Days \cup {Unknown}],
           \A k \in Keys : api'[k].day = IF k \in ks THEN day[k] ELSE Unknown,
           \A c \in Calls : Judging(c)' =>
              /\ pc[c] \in OnItsWay /\ call'[c].asked = call[c].asked
              /\ call'[c].same = Hear(ks, day)[c].same
              /\ call'[c].other = Hear(ks, day)[c].other
    PROVE  VerdictInv'
<1>. SUFFICES ASSUME NEW c \in Calls, Judging(c)', NEW k \in Owns[c]
              PROVE  Told(c, k)'
  BY DEF VerdictInv
<1>1. /\ pc[c] \in OnItsWay /\ call'[c].asked = call[c].asked
      /\ call'[c].same = Hear(ks, day)[c].same /\ call'[c].other = Hear(ks, day)[c].other
  OBVIOUS
<1>2. k \in Keys /\ call[c].asked[k] \in Days
  BY <1>1, OwnsIs DEF Types, CallsOK, UnderWay
<1>3. IF k \in ks /\ day[k] = call[c].asked[k] THEN k \in call'[c].same
      ELSE k \in call'[c].other
  BY <1>1, HearAdds DEF Types
<1>4. api'[k].day = IF k \in ks THEN day[k] ELSE Unknown
  BY <1>2
<1>. QED
  BY <1>1, <1>2, <1>3, <1>4 DEF Told

(* A step after which no new call is to judge, and which leaves no row as  *)
(* an answer would have that an answer did not leave before.               *)
LEMMA VerdictStays ==
    ASSUME VerdictInv,
           \A c \in Calls : Judging(c)' => pc[c] = "settling" /\ call'[c] = call[c],
           \A c \in Calls : Judging(c)' => \A k \in Owns[c] :
              api'[k].tag = "read" => api'[k] = api[k]
    PROVE  VerdictInv'
<1>. SUFFICES ASSUME NEW c \in Calls, Judging(c)', NEW k \in Owns[c]
              PROVE  Told(c, k)'
  BY DEF VerdictInv
<1>1. Judging(c) /\ call'[c] = call[c]
  BY DEF Judging
<1>2. Told(c, k)
  BY <1>1 DEF VerdictInv
<1>. QED
  BY <1>1, <1>2 DEF Told

LEMMA VerdictMapRows ==
    ASSUME Types, VerdictInv, MapRows
    PROVE  VerdictInv'
<1>1. PICK ks \in SUBSET Keys :
        /\ \A k \in Keys : api'[k].day = IF k \in ks THEN measured[k] ELSE Unknown
        /\ call' = Hear(ks, measured) /\ HearsOnly(call')
  BY MapRowsStep
<1>2. measured \in [Keys -> Days \cup {Unknown}] /\ pc' = pc
  BY DEF MapRows, Types, RowsOK
<1>3. \A c \in Calls : Judging(c)' =>
         /\ pc[c] \in OnItsWay /\ call'[c].asked = call[c].asked
         /\ call'[c].same = Hear(ks, measured)[c].same
         /\ call'[c].other = Hear(ks, measured)[c].other
  BY <1>1, <1>2 DEF Judging, OnItsWay, HearsOnly
<1>. QED
  BY <1>1, <1>2, <1>3, AnswerTells

LEMMA VerdictReread ==
    ASSUME Types, VerdictInv, NEW e \in Calls, Reread(e)
    PROVE  VerdictInv'
<1>1. CASE RereadAnswered(e)
  <2>1. PICK ks \in SUBSET Keys :
          /\ \A k \in Keys : api'[k].day = IF k \in ks THEN portal[k] ELSE Unknown
          /\ \A c \in Calls : /\ c # e => pc'[c] = pc[c]
                              /\ call'[c].asked = call[c].asked
                              /\ call'[c].same = Hear(ks, portal)[c].same
                              /\ call'[c].other = Hear(ks, portal)[c].other
    BY <1>1, RereadIs
  <2>2. \A c \in Calls : Judging(c)' => pc[c] \in OnItsWay
    BY <2>1 DEF Judging, OnItsWay, Reread
  <2>3. portal \in [Keys -> Days \cup {Unknown}]
    BY DEF Types, RowsOK
  <2>. QED
    BY <2>1, <2>2, <2>3, AnswerTells
<1>2. CASE RereadFailed(e)
  <2>1. \A c \in Calls : Judging(c)' => pc[c] = "settling" /\ call'[c] = call[c]
    BY <1>2, FailedStep DEF Judging
  <2>2. UNCHANGED api
    BY <1>2 DEF RereadFailed
  <2>. QED
    BY <2>1, <2>2, VerdictStays
<1>. QED
  BY <1>1, <1>2 DEF Reread

LEMMA VerdictAccepted ==
    ASSUME Types, VerdictInv, NEW e \in Calls, Accepted(e)
    PROVE  VerdictInv'
<1>1. pc[e] = "posting" /\ Publish(e, Sent(e))
  BY DEF Accepted
<1>2. pc'[e] = "reread" /\ \A d \in Calls : d # e => call'[d] = call[d] /\ pc'[d] = pc[d]
  BY AcceptedStep
<1>3. \A c \in Calls : Judging(c)' => pc[c] = "settling" /\ call'[c] = call[c]
  BY <1>2 DEF Judging
<1>4. \A k \in Keys : api'[k].tag = "read" => api'[k] = api[k]
  BY <1>1, PublishIs DEF Types
<1>. QED
  BY <1>3, <1>4, OwnsIs, VerdictStays

LEMMA NextVerdictInv == Types /\ VerdictInv /\ [Next]_vars => VerdictInv'
<1>. SUFFICES ASSUME Types, VerdictInv, [Next]_vars PROVE VerdictInv'
  OBVIOUS
<1>1. CASE Quiet \/ SetElsewhere
  <2>1. UNCHANGED <<api, pc, call>>
    BY <1>1, QuietKeeps DEF SetElsewhere, rows, calls
  <2>. QED
    BY <2>1 DEF VerdictInv, Judging, Told
<1>2. CASE MapRows
  BY <1>2, VerdictMapRows
<1>3. ASSUME NEW e \in Calls, Accepted(e) \/ Reread(e) PROVE VerdictInv'
  BY <1>3, VerdictAccepted, VerdictReread
<1>4. ASSUME NEW e \in Calls, Ask(e) \/ Busy(e) \/ Enter(e) \/ NotAccepted(e)
      PROVE  VerdictInv'
  <2>1. /\ UNCHANGED api /\ pc'[e] \in {"idle", "queued", "posting"}
        /\ \A d \in Calls : d # e => call'[d] = call[d] /\ pc'[d] = pc[d]
    <3>1. CASE Ask(e) \/ Busy(e)
      BY <3>1, AskOrBusy
    <3>2. CASE Enter(e)
      BY <3>2, EnterStep DEF Enter, rows
    <3>3. CASE NotAccepted(e)
      BY <3>3 DEF NotAccepted, rows, Types, CallsOK, LocksOK
    <3>. QED
      BY <1>4, <3>1, <3>2, <3>3
  <2>. QED
    BY <2>1, VerdictStays DEF Judging
<1>5. ASSUME NEW e \in Calls, RereadBusy(e) \/ Cancelled(e) \/ Settle(e)
      PROVE  VerdictInv'
  <2>1. /\ pc'[e] \in {"idle", "done"}
        /\ \A d \in Calls : d # e => call'[d] = call[d] /\ pc'[d] = pc[d]
        /\ \A k \in Keys : api'[k].tag = "read" => api'[k] = api[k]
    <3>1. CASE RereadBusy(e) \/ Cancelled(e)
      BY <3>1, CutOffStep DEF RereadBusy, Cancelled, OnItsWay
    <3>2. CASE Settle(e)
      BY <3>2, SettleStep
    <3>. QED
      BY <1>5, <3>1, <3>2
  <2>. QED
    BY <2>1, OwnsIs, VerdictStays DEF Judging
<1>. QED
  BY <1>1, <1>2, <1>3, <1>4, <1>5 DEF Next, Quiet

VerdictsHeard ==
    \A c \in Calls :
       /\ Judges(c) /\ Owns[c] \subseteq linked
       /\ \A k \in Owns[c] : api[k].tag = "read"
       => Heard(c)

LEMMA VerdictsAreTold == Types /\ VerdictInv => VerdictsHeard
<1>. SUFFICES ASSUME Types, VerdictInv, NEW c \in Calls, Judges(c), Owns[c] \subseteq linked,
                     \A k \in Owns[c] : api[k].tag = "read"
              PROVE  Heard(c)
  BY DEF VerdictsHeard
<1>1. \A k \in Owns[c] : Told(c, k)
  BY DEF VerdictInv, Judges, Judging
<1>2. \A k \in Owns[c] : Shown(k) = api[k]
  BY DEF Shown
<1>3. CASE SaysKept(c)
  <2>1. Owns[c] \subseteq call[c].same
    BY <1>1, <1>2, <1>3 DEF SaysKept, Told
  <2>. QED
    BY <1>3, <2>1 DEF Heard, Types, CallsOK
<1>4. CASE ~SaysKept(c)
  <2>1. PICK k \in Owns[c] : api[k].day # call[c].asked[k]
    BY <1>2, <1>4 DEF SaysKept
  <2>2. k \in call[c].other
    BY <1>1, <2>1 DEF Told
  <2>. QED
    BY <1>4, <2>2 DEF Heard
<1>. QED
  BY <1>3, <1>4

(* A write changes the dates it was asked to change and no other; and what *)
(* it says became of them is what the portal has answered since, to it or  *)
(* to anybody: every day, or for at least one date another day or none.    *)
(* For calls of the same date too: it takes the other's own day in the row,*)
(* or its taking it down, to mislead a verdict.                            *)
THEOREM HonestWrites == Spec => WritesAreHonest
<1>1. Init => VerdictInv
  BY DEF Init, VerdictInv, Judging
<1>2. VerdictsHeard => \A c \in Calls :
                          /\ Judges(c) /\ Owns[c] \subseteq linked
                          /\ \A k \in Owns[c] : api[k].tag = "read"
                          => Heard(c)
  BY DEF VerdictsHeard
<1>3. Spec => VerdictWasHeard
  BY <1>1, <1>2, NextVerdictInv, VerdictsAreTold, TypesAlways, PTL DEF Spec, VerdictWasHeard
<1>. QED
  BY <1>3, NoDateIsTakenBack, PTL DEF WritesAreHonest
=============================================================================
