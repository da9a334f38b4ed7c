-------------------------- MODULE WebScrape_proofs --------------------------
(* Proofs about WebScrape, for any apis of an account and any intervals,   *)
(* and, in the second part, about ValueFreshness.                          *)
EXTENDS WebScrape, ValueFreshness, Integers, TLAPS

USE ScrapeAssumption

-----------------------------------------------------------------------------
(* The inductive invariant *)

(* A session the scraper was told the end of is in nobody's hands: the     *)
(* scraper's copy goes first, the api's when the scrape is over.           *)
CookieOK ==
    \A a \in Apis : sess[a] = "told" =>
        /\ pc[a] # "reuse"
        /\ pc[a] \in Requesting => ~held[a]
        /\ pc[a] \notin Requesting => ~cookie[a]

(* The account counts at least the refusals that no pause has followed.    *)
RefusedOK == unpaused <= refused /\ (paused = 0 => unpaused < 2)

StampsOK == read = tried

IInv == TypeOK /\ EveryFailureCounts /\ CookieOK /\ RefusedOK /\ StampsOK

LEMMA LongestIs == Longest \in Nat /\ Longest > 0
<1>1. (MaxFailures + 1) * WebInterval \in Nat
  OBVIOUS
<1>. QED
  BY <1>1 DEF Longest

LEMMA GrowIs ==
    ASSUME NEW cap \in Nat, NEW n \in 0..cap
    PROVE  Grow(n, cap) \in 0..cap /\ (cap > 0 => Grow(n, cap) # 0)
BY DEF Grow, Least

LEMMA InitIInv == Init => IInv
<1>. SUFFICES ASSUME Init PROVE IInv
  OBVIOUS
<1>. USE DEF Init
<1>1. TypeOK
  BY LongestIs DEF TypeOK, Requesting, Never
<1>. QED
  BY <1>1 DEF IInv, EveryFailureCounts, CookieOK, RefusedOK, StampsOK

-----------------------------------------------------------------------------
(* The cycle around the scrape *)

LEMMA TickStep == IInv /\ Tick => IInv'
<1>. SUFFICES ASSUME IInv, Tick PROVE IInv'
  OBVIOUS
<1>. USE DEF IInv, Tick
<1>1. TypeOK'
  <2>1. /\ \A a \in Apis : Grow(stepped[a], WebInterval) \in 0..WebInterval
        /\ \A a \in Apis : Grow(scraped[a], WebInterval) \in 0..WebInterval
        /\ \A a \in Apis : Grow(read[a], Never) \in 0..Never
        /\ \A a \in Apis : Grow(tried[a], Never) \in 0..Never
        /\ \A a \in Apis : Grow(failed[a], Longest) \in 0..Longest
    BY GrowIs, LongestIs DEF TypeOK, Never
  <2>2. hold' \in 0..Hold /\ paused' \in 0..Pause /\ unpaused' \in 0..2
    BY DEF TypeOK, Less
  <2>. QED
    BY <2>1, <2>2 DEF TypeOK, Requesting
<1>2. CookieOK'
  BY DEF CookieOK, TypeOK, Requesting
<1>3. RefusedOK'
  BY DEF RefusedOK, Less, TypeOK
<1>. QED
  BY <1>1, <1>2, <1>3 DEF EveryFailureCounts, StampsOK

(* A step of one api that leaves sessions, counts and account alone.       *)
LEMMA QuietStep ==
    ASSUME IInv, NEW a \in Apis, NEW place \in {"absent", "idle", "api", "done"} \cup Requesting,
           Goto(a, place), TypeOK', StampsOK',
           UNCHANGED <<cookie, held, sess, failures, missed, refused, unpaused>>,
           paused' = paused \/ paused' > 0,
           sess[a] = "told" => /\ place # "reuse"
                               /\ place \in Requesting => ~held[a]
                               /\ place \notin Requesting => ~cookie[a]
    PROVE  IInv'
<1>1. pc'[a] = place /\ \A b \in Apis \ {a} : pc'[b] = pc[b]
  BY DEF Goto, IInv, TypeOK
<1>2. CookieOK'
  BY <1>1 DEF IInv, CookieOK
<1>3. RefusedOK'
  BY DEF IInv, RefusedOK, TypeOK
<1>. QED
  BY <1>2, <1>3 DEF IInv, EveryFailureCounts

LEMMA CycleStep ==
    ASSUME IInv, NEW a \in Apis,
           \/ NoCycle(a) \/ NoScrape(a) \/ NotDue(a) \/ LoginPage(a)
           \/ \E works, forbidden \in BOOLEAN : ReadApi(a, works, forbidden)
    PROVE  IInv'
<1>. USE DEF IInv
<1>1. CASE NoCycle(a)
  <2>1. TypeOK'
    BY <1>1 DEF NoCycle, Goto, TypeOK, Requesting, cycleVars, accountVars, history
  <2>. QED
    BY <1>1, <2>1, QuietStep DEF NoCycle, cycleVars, accountVars, history, StampsOK,
       CookieOK, Requesting
<1>2. CASE NoScrape(a)
  <2>1. wait' \in [Apis -> 0..MaxFailures] /\ stepped' \in [Apis -> 0..WebInterval]
    BY <1>2 DEF NoScrape, CountsDown, TypeOK
  <2>2. TypeOK'
    BY <1>2, <2>1 DEF NoScrape, Goto, TypeOK, Requesting, accountVars, history
  <2>3. PICK place \in {"api", "done"} : Goto(a, place)
    BY <1>2 DEF NoScrape
  <2>. QED
    BY <1>2, <2>2, <2>3, QuietStep DEF NoScrape, accountVars, history, StampsOK,
       CookieOK, Requesting
<1>3. CASE NotDue(a)
  <2>1. TypeOK'
    BY <1>3 DEF NotDue, Goto, TypeOK, Requesting, cycleVars, accountVars, history
  <2>. QED
    BY <1>3, <2>1, QuietStep DEF NotDue, cycleVars, accountVars, history, StampsOK,
       CookieOK, Requesting
<1>4. CASE LoginPage(a)
  <2>1. TypeOK'
    BY <1>4 DEF LoginPage, Goto, TypeOK, Requesting, cycleVars, accountVars, history
  <2>. QED
    BY <1>4, <2>1, QuietStep DEF LoginPage, cycleVars, accountVars, history, StampsOK,
       CookieOK, Requesting
<1>5. ASSUME NEW works \in BOOLEAN, NEW forbidden \in BOOLEAN, ReadApi(a, works, forbidden)
      PROVE  IInv'
  <2>1. TypeOK' /\ StampsOK'
    BY <1>5 DEF ReadApi, Goto, TypeOK, Requesting, Never, StampsOK
  <2>2. paused' = paused \/ paused' > 0
    BY <1>5 DEF ReadApi
  <2>. QED
    BY <1>5, <2>1, <2>2, QuietStep DEF ReadApi, CookieOK, Requesting
<1>. QED
  BY <1>1, <1>2, <1>3, <1>4, <1>5

LEMMA ScrapeStep == ASSUME IInv, NEW a \in Apis, Scrape(a) PROVE IInv'
<1>. USE DEF IInv, Scrape, Goto, accountVars, history
<1>1. TypeOK'
  BY DEF TypeOK, Requesting
<1>2. CookieOK'
  BY DEF CookieOK, TypeOK, Requesting
<1>. QED
  BY <1>1, <1>2 DEF EveryFailureCounts, RefusedOK, StampsOK

-----------------------------------------------------------------------------
(* How a scrape ends *)

Whys == {"refused", "forbidden", "maintenance", "server", "credentials", "broken",
         "folded"}

(* What a scrape's last answer may have done to the scraper's copy and to  *)
(* the session before its exit is taken.                                   *)
Heard(a) ==
    /\ held' \in [Apis -> BOOLEAN] /\ sess' \in [Apis -> {"live", "dead", "told"}]
    /\ \A b \in Apis \ {a} : held'[b] = held[b] /\ sess'[b] = sess[b]
    /\ sess'[a] = "told" => ~held'[a]

LEMMA NoteRefusedIs ==
    ASSUME TypeOK, RefusedOK, NoteRefused(refused = 0, Pause)
    PROVE  /\ refused' \in 0..2 /\ paused' \in 0..Pause /\ unpaused' \in 0..2
           /\ RefusedOK'
BY DEF NoteRefused, Least, TypeOK, RefusedOK

LEMMA FailsAccount ==
    ASSUME IInv, NEW a \in Apis, NEW why \in Whys, Fails(a, why)
    PROVE  /\ refused' \in 0..2 /\ hold' \in 0..Hold /\ paused' \in 0..Pause
           /\ unpaused' \in 0..2 /\ RefusedOK'
<1>. USE DEF IInv, TypeOK
<1>1. CASE why = "refused"
  <2>1. NoteRefused(refused = 0, Pause) /\ hold' = IF refused = 0 THEN Hold ELSE hold
    BY <1>1 DEF Fails
  <2>. QED
    BY <2>1, NoteRefusedIs
<1>2. CASE why = "forbidden"
  <2>1. paused' = Pause /\ UNCHANGED <<refused, hold, unpaused>>
    BY <1>2 DEF Fails
  <2>. QED
    BY <2>1 DEF RefusedOK
<1>3. CASE why \notin {"refused", "forbidden"}
  <2>1. UNCHANGED <<accountVars, unpaused>>
    BY <1>3 DEF Fails
  <2>. QED
    BY <2>1 DEF RefusedOK, accountVars
<1>. QED
  BY <1>1, <1>2, <1>3

LEMMA FailsStep ==
    ASSUME IInv, NEW a \in Apis, NEW why \in Whys, Fails(a, why), Heard(a)
    PROVE  IInv'
<1>. USE DEF IInv
<1>1. /\ Grow(failures[a], MaxFailures) \in 0..MaxFailures
      /\ Grow(missed[a], MaxFailures) \in 0..MaxFailures
  BY GrowIs DEF TypeOK
<1>2. /\ failures' = [failures EXCEPT ![a] = Grow(@, MaxFailures)]
      /\ stepped' = [stepped EXCEPT ![a] = 0]
      /\ missed' = [missed EXCEPT ![a] = Grow(@, MaxFailures)]
      /\ UNCHANGED <<scraped, read, healthy, tried>>
  BY DEF Fails, Register
<1>3. failures' \in [Apis -> 0..MaxFailures] /\ missed' \in [Apis -> 0..MaxFailures]
  BY <1>1, <1>2 DEF TypeOK
<1>4. wait' \in [Apis -> 0..MaxFailures]
  <2>1. wait' = [wait EXCEPT ![a] = IF why = "refused" /\ refused = 0
                                    THEN 0 ELSE failures'[a]]
    BY DEF Fails
  <2>2. failures'[a] \in 0..MaxFailures /\ 0 \in 0..MaxFailures
    BY <1>3
  <2>. HIDE ScrapeAssumption
  <2>. QED
    BY <2>1, <2>2 DEF TypeOK
<1>5. failed' \in [Apis -> 0..Longest]
  BY LongestIs DEF Fails, TypeOK
<1>6. /\ cookie' \in [Apis -> BOOLEAN]
      /\ \A b \in Apis \ {a} : cookie'[b] = cookie[b]
      /\ cookie'[a] => held'[a]
  BY DEF Fails, Keeps, TypeOK
<1>7. /\ pc' \in [Apis -> {"absent", "idle", "api", "done"} \cup Requesting]
      /\ \A b \in Apis \ {a} : pc'[b] = pc[b]
      /\ pc'[a] \notin Requesting
  BY DEF Fails, AfterScrape, Goto, TypeOK, Requesting
<1>8. TypeOK'
  BY <1>2, <1>3, <1>4, <1>5, <1>6, <1>7, FailsAccount DEF TypeOK, Heard
<1>9. EveryFailureCounts'
  BY <1>2 DEF EveryFailureCounts, TypeOK
<1>10. CookieOK'
  BY <1>6, <1>7 DEF CookieOK, Heard, Requesting
<1>. QED
  BY <1>2, <1>8, <1>9, <1>10, FailsAccount DEF StampsOK

LEMMA DeliversStep ==
    ASSUME IInv, NEW a \in Apis, Delivers(a) PROVE IInv'
<1>. USE DEF IInv, Delivers, AfterScrape, Goto
<1>1. TypeOK'
  BY LongestIs DEF TypeOK, Requesting
<1>2. CookieOK'
  BY DEF CookieOK, TypeOK, Requesting
<1>. QED
  BY <1>1, <1>2 DEF EveryFailureCounts, RefusedOK, StampsOK, TypeOK

LEMMA CutShortStep == ASSUME IInv, NEW a \in Apis, CutShort(a) PROVE IInv'
<1>. USE DEF IInv, CutShort, Goto, accountVars, history
<1>1. TypeOK'
  BY DEF TypeOK, Requesting
<1>2. CookieOK'
  BY DEF CookieOK, TypeOK, Requesting
<1>. QED
  BY <1>1, <1>2 DEF EveryFailureCounts, RefusedOK, StampsOK

-----------------------------------------------------------------------------
(* The requests of a scrape *)

LEMMA ReuseEndsStep ==
    ASSUME IInv, NEW a \in Apis, NEW onLoginPage \in BOOLEAN, ReuseEnds(a, onLoginPage)
    PROVE  IInv'
<1>. USE DEF IInv, ReuseEnds, Goto, accountVars, history
<1>1. TypeOK'
  BY DEF TypeOK, Requesting
<1>2. CookieOK'
  BY DEF CookieOK, TypeOK, Requesting
<1>. QED
  BY <1>1, <1>2 DEF EveryFailureCounts, RefusedOK, StampsOK

LEMMA ReuseStopsStep ==
    ASSUME IInv, NEW a \in Apis, NEW why \in Whys, NEW onLoginPage \in BOOLEAN,
           ReuseStops(a, why, onLoginPage)
    PROVE  IInv'
<1>1. Heard(a)
  <2>1. sess[a] # "told"
    BY DEF IInv, CookieOK, ReuseStops
  <2>. QED
    BY <2>1 DEF ReuseStops, HeldAfter, Heard, IInv, TypeOK
<1>2. Fails(a, why)
  BY DEF ReuseStops
<1>. QED
  BY <1>1, <1>2, FailsStep

LEMMA LoginFailsStep ==
    ASSUME IInv, NEW a \in Apis, NEW why \in Whys,
           LoginFails(a, why) \/ (FoldedPage(a) /\ why = "folded")
    PROVE  IInv'
<1>1. Heard(a)
  BY DEF LoginFails, FoldedPage, Heard, IInv, TypeOK, CookieOK, Requesting
<1>2. Fails(a, why)
  BY DEF LoginFails, FoldedPage
<1>. QED
  BY <1>1, <1>2, FailsStep

LEMMA LoggedInStep == ASSUME IInv, NEW a \in Apis, LoggedIn(a) PROVE IInv'
<1>. USE DEF IInv, LoggedIn, Goto, cycleVars
<1>1. TypeOK'
  BY DEF TypeOK, Requesting
<1>2. CookieOK'
  BY DEF CookieOK, TypeOK, Requesting
<1>. QED
  BY <1>1, <1>2 DEF EveryFailureCounts, RefusedOK, StampsOK

LEMMA FlowLoginStep ==
    ASSUME IInv, NEW through \in BOOLEAN, FlowLogin(through) PROVE IInv'
<1>. USE DEF IInv, FlowLogin, cycleVars
<1>1. /\ refused' \in 0..2 /\ paused' \in 0..Pause /\ unpaused' \in 0..2
      /\ RefusedOK'
  <2>1. CASE through
    BY <2>1 DEF TypeOK, RefusedOK
  <2>2. CASE ~through
    BY <2>2, NoteRefusedIs
  <2>. QED
    BY <2>1, <2>2
<1>2. TypeOK'
  BY <1>1 DEF TypeOK, Requesting
<1>. QED
  BY <1>1, <1>2 DEF EveryFailureCounts, CookieOK, StampsOK

LEMMA SessionEndsStep == ASSUME IInv, NEW a \in Apis, SessionEnds(a) PROVE IInv'
<1>. USE DEF IInv, SessionEnds, accountVars, history
<1>1. TypeOK'
  BY DEF TypeOK, Requesting
<1>. QED
  BY <1>1 DEF EveryFailureCounts, CookieOK, RefusedOK, StampsOK, TypeOK

LEMMA NextIInv == IInv /\ [Next]_vars => IInv'
<1>. SUFFICES ASSUME IInv, [Next]_vars PROVE IInv'
  OBVIOUS
<1>1. CASE Tick
  BY <1>1, TickStep
<1>2. CASE Weather
  BY <1>2 DEF Weather, IInv, TypeOK, EveryFailureCounts, CookieOK, RefusedOK,
     StampsOK, cycleVars, accountVars, history
<1>3. CASE \E through \in BOOLEAN : FlowLogin(through)
  BY <1>3, FlowLoginStep
<1>4. ASSUME NEW a \in Apis, Cycle(a) PROVE IInv'
  <2>1. CASE \/ NoCycle(a) \/ NoScrape(a) \/ NotDue(a) \/ LoginPage(a)
             \/ \E works, forbidden \in BOOLEAN : ReadApi(a, works, forbidden)
    BY <2>1, CycleStep
  <2>2. CASE Scrape(a)
    BY <2>2, ScrapeStep
  <2>3. CASE CutShort(a)
    BY <2>3, CutShortStep
  <2>4. CASE ReuseWorks(a) \/ ExpertPage(a)
    BY <2>4, DeliversStep DEF ReuseWorks, ExpertPage
  <2>5. CASE \E onLoginPage \in BOOLEAN : ReuseEnds(a, onLoginPage)
    BY <2>5, ReuseEndsStep
  <2>6. CASE \E why \in {"refused", "forbidden", "maintenance", "server"},
                onLoginPage \in BOOLEAN : ReuseStops(a, why, onLoginPage)
    BY <2>6, ReuseStopsStep DEF Whys
  <2>7. CASE LoggedIn(a)
    BY <2>7, LoggedInStep
  <2>8. CASE \E why \in {"refused", "forbidden", "maintenance", "server",
                         "credentials", "broken"} : LoginFails(a, why)
    BY <2>8, LoginFailsStep DEF Whys
  <2>9. CASE FoldedPage(a)
    BY <2>9, LoginFailsStep DEF Whys
  <2>. QED
    BY <1>4, <2>1, <2>2, <2>3, <2>4, <2>5, <2>6, <2>7, <2>8, <2>9 DEF Cycle
<1>5. CASE \E a \in Apis : SessionEnds(a)
  BY <1>5, SessionEndsStep
<1>6. CASE UNCHANGED vars
  BY <1>6 DEF vars, IInv, TypeOK, EveryFailureCounts, CookieOK, RefusedOK,
     StampsOK, cycleVars, accountVars, history
<1>. QED
  BY <1>1, <1>2, <1>3, <1>4, <1>5, <1>6 DEF Next

-----------------------------------------------------------------------------
(* The theorems *)

(* The cookie's two copies, the counts and the stamps stay in step in      *)
(* every reachable state.                                                  *)
THEOREM Invariance == Spec => []IInv
<1>. QED
  BY InitIInv, NextIInv, PTL DEF Spec

(* Every variable has its type, whatever the intervals and bounds.         *)
THEOREM TypeCorrect == Spec => []TypeOK
<1>1. IInv => TypeOK
  BY DEF IInv
<1>. QED
  BY <1>1, Invariance, PTL

(* No scrape offers the portal a session that it saw the end of.           *)
THEOREM DeadCookiesAreDropped == Spec => []ToldIsNotReused
<1>1. IInv => ToldIsNotReused
  BY DEF IInv, CookieOK, ToldIsNotReused
<1>. QED
  BY <1>1, Invariance, PTL

(* The back-off counts the scrapes that delivered nothing.                 *)
THEOREM FailuresAreCounted == Spec => []EveryFailureCounts
<1>1. IInv => EveryFailureCounts
  BY DEF IInv
<1>. QED
  BY <1>1, Invariance, PTL

(* Two refused logins of one account in a row start its pause.             *)
THEOREM RefusalsPauseAll == Spec => []RefusalsPause
<1>1. IInv => RefusalsPause
  BY DEF IInv, RefusedOK, RefusalsPause
<1>. QED
  BY <1>1, Invariance, PTL

(* Reads of the mobile API keep the API interval apart, failed ones too.   *)
THEOREM ReadsApart == Spec => ReadsAreSpaced
<1>1. ASSUME IInv, [Next]_vars, NEW a \in Apis, tried'[a] = 0, tried[a] # 0
      PROVE  tried[a] >= ApiInterval
  <2>. USE DEF IInv
  <2>1. CASE Tick
    <3>1. tried'[a] = Grow(tried[a], Never)
      BY <2>1 DEF Tick
    <3>2. tried[a] \in 0..Never /\ Never \in Nat /\ Never > 0
      BY <1>1 DEF TypeOK, Never
    <3>3. Grow(tried[a], Never) # 0
      BY <3>2, GrowIs
    <3>. QED
      BY <1>1, <3>1, <3>3
  <2>2. ASSUME NEW b \in Apis, NEW works \in BOOLEAN, NEW forbidden \in BOOLEAN,
               ReadApi(b, works, forbidden)
        PROVE  tried[a] >= ApiInterval
    <3>1. a = b
      BY <1>1, <2>2 DEF ReadApi, TypeOK
    <3>. QED
      BY <1>1, <2>2, <3>1 DEF ReadApi, StampsOK
  <2>3. CASE tried' = tried
    BY <1>1, <2>3
  <2>4. Tick \/ tried' = tried \/
        \E b \in Apis : \E works, forbidden \in BOOLEAN : ReadApi(b, works, forbidden)
    BY <1>1 DEF Next, Cycle, Weather, FlowLogin, SessionEnds, NoCycle, Scrape,
       NoScrape, NotDue, CutShort, ReuseWorks, ReuseEnds, ReuseStops, LoginPage,
       LoggedIn, ExpertPage, LoginFails, FoldedPage, Delivers, Fails, vars, history
  <2>. QED
    BY <2>1, <2>2, <2>3, <2>4
<1>2. IInv /\ [Next]_vars
      => [\A a \in Apis : tried'[a] = 0 /\ tried[a] # 0 => tried[a] >= ApiInterval]_vars
  BY <1>1
<1>. QED
  BY <1>2, Invariance, PTL DEF Spec, ReadsAreSpaced

(* All that a scrape leaves for the next one, at once.                     *)
THEOREM FailuresAreRemembered == Spec => []FailuresAreKept
BY TypeCorrect, DeadCookiesAreDropped, FailuresAreCounted, RefusalsPauseAll, PTL
   DEF FailuresAreKept

-----------------------------------------------------------------------------
(* The back-off *)

(* A scrape in a row of failures has let a web interval pass for each of   *)
(* the intervals it has already waited off, and the clock of the one it is *)
(* waiting for runs again whenever a cycle begins.                         *)
Backed(a) ==
    /\ wait[a] <= failures[a]
    /\ missed[a] > 0 =>
          /\ pc[a] = "idle" => stepped[a] > 0
          /\ \/ failed[a] = Longest
             \/ failed[a] >= (failures[a] - wait[a]) * WebInterval + stepped[a]

BackInv == \A a \in Apis : Backed(a)

(* What the other steps leave of one api's back-off: all of it.            *)
Rests(a) ==
    /\ wait'[a] = wait[a] /\ failures'[a] = failures[a] /\ stepped'[a] = stepped[a]
    /\ missed'[a] = missed[a] /\ failed'[a] = failed[a]
    /\ pc'[a] = pc[a] \/ pc'[a] # "idle"

(* One failed count more multiplies by one interval more.                  *)
LEMMA OneMore ==
    ASSUME NEW m \in Nat, NEW n \in 0..m, n > 0
    PROVE  (m - (n - 1)) * WebInterval = (m - n) * WebInterval + WebInterval
<1>. DEFINE d == m - n
<1>1. d \in Nat /\ m - (n - 1) = d + 1
  OBVIOUS
<1>. HIDE DEF d
<1>2. (d + 1) * WebInterval = d * WebInterval + WebInterval
  BY <1>1
<1>. QED
  BY <1>1, <1>2 DEF d

LEMMA LongestIsLonger ==
    ASSUME NEW m \in 0..MaxFailures
    PROVE  m * WebInterval \in Nat /\ Longest > m * WebInterval
<1>1. MaxFailures - m \in Nat /\ m \in Nat /\ MaxFailures = (MaxFailures - m) + m
  OBVIOUS
<1>. DEFINE d == MaxFailures - m
<1>2. (d + m + 1) * WebInterval = d * WebInterval + m * WebInterval + WebInterval
  BY <1>1
<1>3. d * WebInterval \in Nat /\ m * WebInterval \in Nat /\ MaxFailures = d + m
  BY <1>1
<1>. HIDE DEF d
<1>. QED
  BY <1>2, <1>3 DEF Longest

(* A scrape that fails starts its wait, and its clock, from the beginning. *)
LEMMA BackedFails ==
    ASSUME IInv, NEW a \in Apis, NEW why \in Whys, Fails(a, why) PROVE Backed(a)'
<1>. USE DEF IInv, TypeOK
<1>1. /\ failures'[a] = Grow(failures[a], MaxFailures) /\ stepped'[a] = 0
      /\ failures'[a] \in 0..MaxFailures /\ pc'[a] # "idle"
  BY GrowIs DEF Fails, Register, AfterScrape, Goto
<1>2. CASE why = "refused" /\ refused = 0
  <2>1. wait'[a] = 0 /\ failed'[a] = Longest
    BY <1>2 DEF Fails
  <2>. QED
    BY <1>1, <2>1 DEF Backed
<1>3. CASE ~(why = "refused" /\ refused = 0)
  <2>1. wait'[a] = failures'[a] /\ failed'[a] = 0
    BY <1>3 DEF Fails
  <2>2. (failures'[a] - wait'[a]) * WebInterval + stepped'[a] = 0
    BY <1>1, <2>1
  <2>. QED
    BY <1>1, <2>1, <2>2 DEF Backed
<1>. QED
  BY <1>2, <1>3

(* A tick ages the failure by as much as the clock it waits by.            *)
LEMMA BackedTick == ASSUME IInv, Tick, NEW a \in Apis, Backed(a) PROVE Backed(a)'
<1>. USE DEF IInv, TypeOK
<1>1. /\ stepped'[a] = Grow(stepped[a], WebInterval)
      /\ failed'[a] = Grow(failed[a], Longest)
      /\ UNCHANGED <<wait, failures, missed>>
  BY DEF Tick
<1>2. stepped'[a] > 0 /\ stepped'[a] <= stepped[a] + 1
  BY <1>1 DEF Grow, Least
<1>3. failed'[a] = Longest \/ failed'[a] = failed[a] + 1
  BY <1>1 DEF Grow, Least
<1>4. failed[a] = Longest => failed'[a] = Longest
  BY <1>1, LongestIs DEF Grow, Least
<1>. DEFINE past == (failures[a] - wait[a]) * WebInterval
<1>5. past \in Int /\ past = ((failures[a] - wait[a]) * WebInterval)'
  BY <1>1
<1>6. /\ stepped[a] \in Nat /\ stepped'[a] \in Nat /\ failed[a] \in Nat
  BY <1>1, LongestIs DEF Grow, Least
<1>. HIDE DEF past
<1>7. failed[a] >= past + stepped[a] => failed'[a] = Longest \/ failed'[a] >= past + stepped'[a]
  BY <1>2, <1>3, <1>5, <1>6
<1>8. Backed(a) => wait[a] <= failures[a]
                   /\ (missed[a] > 0 => failed[a] = Longest \/ failed[a] >= past + stepped[a])
  BY DEF Backed, past
<1>. QED
  BY <1>1, <1>2, <1>4, <1>5, <1>7, <1>8 DEF Backed

(* A count taken off the wait has waited its interval.                     *)
LEMMA BackedNoScrape ==
    ASSUME IInv, NEW a \in Apis, NoScrape(a), Backed(a) PROVE Backed(a)'
<1>. USE DEF IInv, TypeOK
<1>1. pc'[a] # "idle" /\ UNCHANGED <<failures, missed, failed>>
  BY DEF NoScrape, Goto, history
<1>2. CASE Mode[a] = "both" /\ CountsDown(a)
  <2>1. wait'[a] = wait[a] - 1 /\ stepped'[a] = 0
    BY <1>2 DEF NoScrape
  <2>2. wait[a] > 0 /\ stepped[a] >= WebInterval
    BY <1>2 DEF CountsDown
  <2>3. (failures[a] - (wait[a] - 1)) * WebInterval
            = (failures[a] - wait[a]) * WebInterval + WebInterval
    BY <2>2, OneMore DEF Backed
  <2>4. (failures[a] - wait[a]) * WebInterval \in Int /\ failed[a] \in Int
    BY LongestIs
  <2>. QED
    BY <1>1, <2>1, <2>2, <2>3, <2>4 DEF Backed
<1>3. CASE ~(Mode[a] = "both" /\ CountsDown(a))
  BY <1>1, <1>3 DEF NoScrape, Backed
<1>. QED
  BY <1>2, <1>3

(* What a step may do to the back-off of one api.                          *)
LEMMA BackKinds ==
    ASSUME IInv, [Next]_vars, NEW a \in Apis
    PROVE  \/ Tick \/ NoScrape(a) \/ Delivers(a) \/ Rests(a)
           \/ \E why \in Whys : Fails(a, why)
<1>. USE DEF IInv, TypeOK
<1>1. ASSUME NEW b \in Apis, NEW why \in Whys, Fails(b, why), b # a PROVE Rests(a)
  BY <1>1 DEF Fails, Register, AfterScrape, Goto, Rests
<1>2. ASSUME NEW b \in Apis, Delivers(b), b # a PROVE Rests(a)
  BY <1>2 DEF Delivers, AfterScrape, Goto, Rests
<1>3. ASSUME NEW b \in Apis, NoScrape(b), b # a PROVE Rests(a)
  BY <1>3 DEF NoScrape, Goto, history, Rests
<1>4. ASSUME NEW b \in Apis,
             \/ NoCycle(b) \/ Scrape(b) \/ NotDue(b) \/ CutShort(b) \/ LoginPage(b)
             \/ LoggedIn(b) \/ SessionEnds(b)
             \/ \E works, forbidden \in BOOLEAN : ReadApi(b, works, forbidden)
             \/ \E onLoginPage \in BOOLEAN : ReuseEnds(b, onLoginPage)
      PROVE  Rests(a)
  BY <1>4 DEF NoCycle, Scrape, NotDue, CutShort, LoginPage, LoggedIn, SessionEnds,
     ReadApi, ReuseEnds, Goto, cycleVars, history, Rests
<1>5. ASSUME Weather \/ UNCHANGED vars \/ \E through \in BOOLEAN : FlowLogin(through)
      PROVE  Rests(a)
  BY <1>5 DEF Weather, FlowLogin, vars, cycleVars, history, Rests
<1>6. ASSUME NEW b \in Apis,
             \/ \E why \in {"refused", "forbidden", "maintenance", "server"},
                   onLoginPage \in BOOLEAN : ReuseStops(b, why, onLoginPage)
             \/ \E why \in {"refused", "forbidden", "maintenance", "server",
                             "credentials", "broken"} : LoginFails(b, why)
             \/ FoldedPage(b)
      PROVE  \E why \in Whys : Fails(b, why)
  BY <1>6 DEF ReuseStops, LoginFails, FoldedPage, Whys
<1>7. ASSUME NEW b \in Apis, ReuseWorks(b) \/ ExpertPage(b) PROVE Delivers(b)
  BY <1>7 DEF ReuseWorks, ExpertPage
<1>8. ASSUME NEW b \in Apis, Cycle(b)
      PROVE  \/ NoScrape(b) \/ Delivers(b) \/ Rests(a)
             \/ \E why \in Whys : Fails(b, why)
  BY <1>4, <1>6, <1>7, <1>8, Zenon DEF Cycle
<1>9. ASSUME NEW b \in Apis, Cycle(b)
      PROVE  \/ NoScrape(a) \/ Delivers(a) \/ Rests(a)
             \/ \E why \in Whys : Fails(a, why)
  BY <1>1, <1>2, <1>3, <1>8, <1>9, Zenon
<1>. QED
  BY <1>4, <1>5, <1>9 DEF Next

LEMMA NextBackInv == IInv /\ BackInv /\ [Next]_vars => BackInv'
<1>. SUFFICES ASSUME IInv, BackInv, [Next]_vars, NEW a \in Apis PROVE Backed(a)'
  BY DEF BackInv
<1>0. Backed(a)
  BY DEF BackInv
<1>1. CASE Tick
  BY <1>0, <1>1, BackedTick
<1>2. CASE NoScrape(a)
  BY <1>0, <1>2, BackedNoScrape
<1>3. CASE Delivers(a)
  BY <1>3 DEF Delivers, Backed, IInv, TypeOK
<1>4. CASE Rests(a)
  BY <1>0, <1>4 DEF Rests, Backed
<1>5. CASE \E why \in Whys : Fails(a, why)
  BY <1>5, BackedFails
<1>. QED
  BY <1>1, <1>2, <1>3, <1>4, <1>5, BackKinds

(* The wait is counted in web intervals in every reachable state.          *)
THEOREM WaitsAreCounted == Spec => []BackInv
<1>1. Init => BackInv
  <2>. SUFFICES ASSUME Init, NEW a \in Apis PROVE Backed(a)
    BY DEF BackInv
  <2>1. wait[a] = 0 /\ failures[a] = 0 /\ missed[a] = 0
    BY DEF Init
  <2>. QED
    BY <2>1 DEF Backed
<1>. QED
  BY <1>1, NextBackInv, Invariance, PTL DEF Spec

(* A scrape that failed n times in a row waits more than n web intervals.  *)
THEOREM BackoffIsKept == Spec => BackoffGrows
<1>1. ASSUME IInv, BackInv, [Next]_vars, NEW a \in Apis,
             Mode[a] = "both", pc[a] = "idle", pc'[a] \in Requesting, missed[a] > 0
      PROVE  failed[a] > missed[a] * WebInterval
  <2>. USE DEF IInv, TypeOK
  <2>1. Scrape(a)
    <3>1. ~Tick /\ pc'[a] # pc[a]
      BY <1>1 DEF Tick, Requesting
    <3>2. PICK b \in Apis : Cycle(b)
      BY <1>1, <3>1 DEF Next, Weather, FlowLogin, SessionEnds, cycleVars, vars
    <3>3. ASSUME NEW place, Goto(b, place) PROVE a = b /\ place = pc'[a]
      BY <1>1, <3>1, <3>3 DEF Goto
    <3>4. b = a
      BY <3>2, <3>3 DEF Cycle, NoCycle, Scrape, NoScrape, NotDue, ReadApi, CutShort,
         ReuseWorks, ReuseEnds, ReuseStops, LoginPage, LoggedIn, ExpertPage, LoginFails,
         FoldedPage, Delivers, Fails, AfterScrape
    <3>5. ~NoCycle(a) /\ ~NoScrape(a)
      BY <1>1 DEF NoCycle, NoScrape, Goto, Requesting
    <3>. QED
      BY <1>1, <3>2, <3>4, <3>5 DEF Cycle, NotDue, ReadApi, CutShort, ReuseWorks,
         ReuseEnds, ReuseStops, LoginPage, LoggedIn, ExpertPage, LoginFails, FoldedPage,
         Requesting
  <2>2. wait[a] = 0
    BY <1>1, <2>1 DEF Scrape, Due
  <2>3. /\ failures[a] = missed[a] /\ missed[a] \in 0..MaxFailures
        /\ stepped[a] \in Nat /\ stepped[a] > 0 /\ failed[a] \in Nat
        /\ \/ failed[a] = Longest
           \/ failed[a] >= missed[a] * WebInterval + stepped[a]
    BY <1>1, <2>2, LongestIs DEF EveryFailureCounts, BackInv, Backed
  <2>4. missed[a] * WebInterval \in Nat /\ Longest > missed[a] * WebInterval
    BY <2>3, LongestIsLonger
  <2>. HIDE DEF IInv, TypeOK
  <2>. DEFINE past == missed[a] * WebInterval
  <2>5. past \in Nat /\ Longest > past /\ (failed[a] = Longest \/ failed[a] >= past + stepped[a])
    BY <2>3, <2>4
  <2>. HIDE DEF past
  <2>6. failed[a] > past
    BY <2>3, <2>5, LongestIs
  <2>. QED
    BY <2>6 DEF past
<1>2. IInv /\ BackInv /\ [Next]_vars
      => [\A a \in Apis :
             /\ Mode[a] = "both" /\ pc[a] = "idle" /\ pc'[a] \in Requesting
             /\ missed[a] > 0
             => failed[a] > missed[a] * WebInterval]_vars
  BY <1>1
<1>. QED
  BY <1>2, Invariance, WaitsAreCounted, PTL DEF Spec, BackoffGrows

(* The intervals and the back-off bound what the portal is asked.          *)
THEOREM PacedReads == Spec => ReadsArePaced
BY ReadsApart, BackoffIsKept DEF ReadsArePaced

-----------------------------------------------------------------------------
HIDE ScrapeAssumption

(* What becomes of the scraped rows of one device: ValueFreshness.         *)

(* Where the values of a parameter can be: under its own key, or in the    *)
(* scraped row it means, as long as the last page had that.                *)
HomesInv ==
    \A p \in DOMAIN merged :
        /\ p \notin Controls
        /\ merged[p] = p \/ (merged[p] = Meant[p] /\ Meant[p] \in inventory)

(* The rows of the last page count its failures, and no other row does.    *)
PageInv ==
    /\ \A r \in inventory : /\ r \in DOMAIN rows
                            /\ rows[r].misses = AtMost(failedScrapes, DeadAfter)
    /\ \A r \in DOMAIN rows : r \notin inventory => rows[r].misses = DeadAfter

(* Whose a shown value is: the parameter of that name, the one parameter   *)
(* that was put into the scraped row, or the scrape while it is not dead.  *)
OwnerInv ==
    \A r \in DOMAIN rows :
        /\ r \in Params => rows[r].mod = ModuleOf[r]
        /\ r \in Scraped /\ rows[r].shown =>
              /\ r \in inventory
              /\ rows[r].mod = NoRow => failedScrapes < DeadAfter
              /\ rows[r].mod # NoRow =>
                    \E p \in DOMAIN merged : merged[p] = r /\ rows[r].mod = ModuleOf[p]
        /\ rows[r].mod # NoRow =>
              answered[rows[r].mod] # NeverRead /\ lastRead # NeverRead

(* A reading that is there can be walked again: its module describes it,   *)
(* describes nothing, or is known to have come back without it.            *)
Known(p) == \/ p \in described[ModuleOf[p]]
            \/ described[ModuleOf[p]] = {}
            \/ p \in adrift

TracedInv ==
    /\ \A m \in Modules : described[m] \subseteq Of(m)
    /\ \A r \in DOMAIN rows : r \in Params => Known(r)
    /\ \A p \in DOMAIN merged :
          /\ merged[p] \in DOMAIN rows /\ rows[merged[p]].shown
          /\ rows[merged[p]].misses = DeadAfter /\ rows[merged[p]].mod = ModuleOf[p]
          => Known(p)

(* A value nobody else vouches for is as old as its module's last answer,  *)
(* as long as that is recent, and not much older than the device's.        *)
Alone(r) == rows[r].shown /\ ~Vouched(r) /\ ~BackWithoutIt(r)

AgeInv ==
    /\ Params # {} => Described # {}
    /\ \A r \in DOMAIN rows : Alone(r) =>
          /\ answered[rows[r].mod] < StaleAfter => rows[r].age <= answered[rows[r].mod]
          /\ lastRead < StaleAfter => rows[r].age <= lastRead + (StaleAfter - 1)
          /\ settled => rows[r].age <= 2 * (StaleAfter - 1)

FreshInv ==
    /\ FreshTypeOK /\ OneRowPerReading
    /\ HomesInv /\ PageInv /\ OwnerInv /\ TracedInv

(* What every step keeps: the rows' invariant, and the ages as long as     *)
(* there is something to read.                                             *)
SomethingIsDescribed == Params # {} => Described # {}
FreshKept == FreshInv' /\ (AgeInv /\ SomethingIsDescribed' => AgeInv')

LEMMA GivenRows ==
    /\ StaleAfter \in Nat /\ StaleAfter >= 1 /\ DeadAfter \in Nat /\ DeadAfter >= 1
    /\ NeverRead = StaleAfter + 1 /\ LongestAge = 2 * StaleAfter
    /\ LongestAge \in Nat /\ NeverRead \in Nat
    /\ Controls \subseteq Params /\ Params \cap Scraped = {}
    /\ \A p \in Params : /\ Meant[p] \in Scraped \cup {NoRow}
                         /\ p \notin Scraped /\ p # NoRow
                         /\ ModuleOf[p] \in Modules
    /\ NoRow \notin Modules /\ NoRow \notin Scraped /\ NoRow \notin Params
    /\ Rows = Params \cup Scraped
BY FreshnessAssumption DEF NeverRead, LongestAge, Modules, Rows

LEMMA LeastIs ==
    ASSUME NEW i \in Nat, NEW j \in Nat
    PROVE  /\ AtMost(i, j) \in Nat /\ AtMost(i, j) <= i /\ AtMost(i, j) <= j
           /\ i < j => AtMost(i, j) = i
           /\ i >= j => AtMost(i, j) = j
BY DEF AtMost

LEMMA RowIs ==
    ASSUME NEW row \in RowType
    PROVE  /\ row.shown \in BOOLEAN /\ row.week \in BOOLEAN
           /\ row.mod \in Modules \cup {NoRow}
           /\ row.age \in Nat /\ row.age <= LongestAge
           /\ row.misses \in Nat /\ row.misses <= DeadAfter
BY GivenRows DEF RowType

Typed(rs) == /\ DOMAIN rs \subseteq Rows
             /\ \A r \in DOMAIN rs : rs[r] \in RowType

LEMMA BlankIs ==
    ASSUME NEW rs, Typed(rs), NEW gone
    PROVE  /\ Typed(Blank(rs, gone)) /\ DOMAIN Blank(rs, gone) = DOMAIN rs
           /\ \A r \in DOMAIN rs :
                 /\ Blank(rs, gone)[r].shown <=> rs[r].shown /\ r \notin gone
                 /\ Blank(rs, gone)[r].mod = rs[r].mod
                 /\ Blank(rs, gone)[r].week = rs[r].week
                 /\ Blank(rs, gone)[r].age = rs[r].age
                 /\ Blank(rs, gone)[r].misses = rs[r].misses
<1>1. ASSUME NEW r \in DOMAIN rs
      PROVE  /\ Blank(rs, gone)[r] \in RowType
             /\ Blank(rs, gone)[r].shown <=> rs[r].shown /\ r \notin gone
             /\ Blank(rs, gone)[r].mod = rs[r].mod
             /\ Blank(rs, gone)[r].week = rs[r].week
             /\ Blank(rs, gone)[r].age = rs[r].age
             /\ Blank(rs, gone)[r].misses = rs[r].misses
  <2>1. PICK b \in BOOLEAN : b <=> rs[r].shown /\ r \notin gone
    OBVIOUS
  <2>2. rs[r] \in RowType
    BY DEF Typed
  <2>3. rs[r].shown \in BOOLEAN
    BY <2>2 DEF RowType
  <2>4. Blank(rs, gone)[r] = [rs[r] EXCEPT !.shown = b]
    BY <2>1, <2>3 DEF Blank
  <2>. QED BY <2>1, <2>2, <2>4 DEF RowType
<1>. QED BY <1>1 DEF Typed, Blank

-----------------------------------------------------------------------------
(* What the invariant says of a row *)

(* A row counts fewer misses than make the scrape dead exactly while the   *)
(* scrape feeds it.                                                        *)
LEMMA MissesCount ==
    ASSUME FreshTypeOK, PageInv, NEW r \in DOMAIN rows
    PROVE  /\ rows[r].misses < DeadAfter <=> ScrapeFeeds(r)
           /\ ~ScrapeFeeds(r) <=> rows[r].misses = DeadAfter
<1>1. rows[r] \in RowType /\ failedScrapes \in Nat
  BY DEF FreshTypeOK
<1>2. rows[r].misses \in Nat /\ rows[r].misses <= DeadAfter
  BY <1>1, RowIs
<1>3. CASE r \in inventory
  <2>1. rows[r].misses = AtMost(failedScrapes, DeadAfter)
    BY <1>3 DEF PageInv
  <2>2. /\ failedScrapes < DeadAfter => rows[r].misses = failedScrapes
        /\ failedScrapes >= DeadAfter => rows[r].misses = DeadAfter
    BY <1>1, <2>1, GivenRows, LeastIs
  <2>. QED BY <1>1, <1>3, <2>2, GivenRows DEF ScrapeFeeds
<1>4. CASE r \notin inventory
  BY <1>2, <1>4, GivenRows DEF PageInv, ScrapeFeeds
<1>. QED BY <1>3, <1>4

(* The one parameter a row is of, when nobody else vouches for it.         *)
Owner(p, r) == /\ p \in Params /\ RowOf(p) = r /\ rows[r].mod = ModuleOf[p]
               /\ r \in Params => p = r
               /\ r \notin Params => p \in DOMAIN merged /\ merged[p] = r

LEMMA OwnRow ==
    ASSUME FreshTypeOK, OneRowPerReading, HomesInv,
           NEW r \in DOMAIN rows, r \in Params
    PROVE  RowOf(r) = r
BY DEF OneRowPerReading, RowOf

LEMMA OwnerOf ==
    ASSUME FreshInv, NEW r \in DOMAIN rows,
           rows[r].shown, rows[r].misses = DeadAfter
    PROVE  \E p \in Params : Owner(p, r) /\ Known(p)
<1>1. CASE r \in Params
  BY <1>1, OwnRow DEF FreshInv, OwnerInv, TracedInv, Owner
<1>2. CASE r \notin Params
  <2>1. r \in Scraped
    BY <1>2, GivenRows DEF FreshInv, FreshTypeOK
  <2>2. ~(r \in inventory /\ failedScrapes < DeadAfter)
    BY MissesCount DEF FreshInv, ScrapeFeeds
  <2>3. r \in inventory /\ rows[r].mod # NoRow
    BY <2>1, <2>2 DEF FreshInv, OwnerInv
  <2>4. PICK p \in DOMAIN merged : merged[p] = r /\ rows[r].mod = ModuleOf[p]
    BY <2>1, <2>3 DEF FreshInv, OwnerInv
  <2>5. p \in Params /\ Known(p)
    BY <2>4 DEF FreshInv, TracedInv, FreshTypeOK
  <2>. QED BY <1>2, <2>4, <2>5 DEF Owner, RowOf
<1>. QED BY <1>1, <1>2

LEMMA OneOwner ==
    ASSUME FreshInv, NEW r \in DOMAIN rows,
           NEW p, Owner(p, r), NEW q \in Params, RowOf(q) = r
    PROVE  q = p
<1>1. CASE r \in Params
  <2>1. p = r
    BY <1>1 DEF Owner
  <2>2. CASE q \in DOMAIN merged
    BY <1>1, <2>1, <2>2, GivenRows DEF FreshInv, HomesInv, RowOf, FreshTypeOK
  <2>3. CASE q \notin DOMAIN merged
    BY <2>1, <2>3 DEF RowOf
  <2>. QED BY <2>2, <2>3
<1>2. CASE r \notin Params
  <2>1. p \in DOMAIN merged /\ merged[p] = r
    BY <1>2 DEF Owner
  <2>2. q \in DOMAIN merged /\ merged[q] = r
    BY <1>2 DEF RowOf
  <2>. QED BY <2>1, <2>2 DEF FreshInv, OneRowPerReading
<1>. QED BY <1>1, <1>2

(* What stands alone has a module that answered some time, and an owner    *)
(* that can be walked.                                                     *)
LEMMA AloneIs ==
    ASSUME FreshInv, NEW r \in DOMAIN rows, Alone(r)
    PROVE  /\ rows[r].shown /\ rows[r].misses = DeadAfter /\ ~rows[r].week
           /\ ~ScrapeFeeds(r)
           /\ rows[r].mod \in Modules /\ rows[r].mod # NoRow
           /\ answered[rows[r].mod] \in 0..StaleAfter /\ lastRead \in 0..StaleAfter
           /\ \E p \in Params : Owner(p, r) /\ Known(p) /\ p \notin adrift
<1>1. rows[r] \in RowType
  BY DEF FreshInv, FreshTypeOK
<1>2. rows[r].shown /\ rows[r].misses = DeadAfter /\ ~rows[r].week /\ ~ScrapeFeeds(r)
  BY <1>1, RowIs, MissesCount DEF FreshInv, Alone, Vouched
<1>3. PICK p \in Params : Owner(p, r) /\ Known(p)
  BY <1>2, OwnerOf
<1>4. p \notin adrift
  BY <1>3 DEF Alone, BackWithoutIt, Owner
<1>5. rows[r].mod \in Modules /\ rows[r].mod # NoRow
  BY <1>3, GivenRows DEF Owner
<1>6. answered[rows[r].mod] # NeverRead /\ lastRead # NeverRead
  BY <1>5 DEF FreshInv, OwnerInv
<1>7. answered[rows[r].mod] \in 0..NeverRead /\ lastRead \in 0..NeverRead
  BY <1>5 DEF FreshInv, FreshTypeOK
<1>8. answered[rows[r].mod] \in 0..StaleAfter /\ lastRead \in 0..StaleAfter
  BY <1>6, <1>7, GivenRows
<1>. QED BY <1>2, <1>3, <1>4, <1>5, <1>8

-----------------------------------------------------------------------------
(* The steps *)

LEMMA InitFresh == FreshInit => FreshInv /\ AgeInv
<1>. SUFFICES ASSUME FreshInit PROVE FreshInv /\ AgeInv
  OBVIOUS
<1>. USE GivenRows
<1>1. DOMAIN Empty = {} /\ rows = Empty /\ merged = Empty
  BY DEF FreshInit, Empty
<1>2. \A m \in Modules : Of(m) \subseteq Params
  BY DEF Of
<1>3. FreshTypeOK
  <2>1. described \in [Modules -> SUBSET Params]
    BY <1>2 DEF FreshInit
  <2>2. answered \in [Modules -> 0..NeverRead] /\ lastRead \in 0..NeverRead
    BY DEF FreshInit
  <2>3. Range(merged) \subseteq Rows
    BY <1>1 DEF Range
  <2>4. /\ at = "idle" /\ listed \subseteq Modules /\ inventory \subseteq Scraped
        /\ adrift \subseteq Params /\ settled = FALSE
    BY DEF FreshInit
  <2>6. failedScrapes \in 0..DeadAfter + 1
    BY DEF FreshInit
  <2>5. DOMAIN rows \subseteq Rows /\ DOMAIN merged \subseteq Params
        /\ \A r \in DOMAIN rows : rows[r] \in RowType
    BY <1>1
  <2>. QED BY <2>1, <2>2, <2>3, <2>4, <2>5, <2>6 DEF FreshTypeOK
<1>4. OneRowPerReading /\ HomesInv /\ PageInv /\ OwnerInv
  BY <1>1 DEF OneRowPerReading, HomesInv, PageInv, OwnerInv, FreshInit
<1>5. TracedInv
  BY <1>1 DEF TracedInv, FreshInit
<1>6. AgeInv
  <2>1. \A p \in Params : ModuleOf[p] \in listed /\ p \in described[ModuleOf[p]]
    BY DEF FreshInit, Modules, Of
  <2>2. Params # {} => Described # {}
    BY <2>1 DEF Described
  <2>. QED BY <1>1, <2>2 DEF AgeInv
<1>. QED BY <1>3, <1>4, <1>5, <1>6 DEF FreshInv

(* What the merge with a new page leaves of each row. *)
LEMMA PageRows ==
    ASSUME FreshTypeOK, NEW page \in SUBSET Scraped,
           NEW silent \in SUBSET page, NEW map,
           rows' = ScrapedRows(page, silent, map)
    PROVE  /\ DOMAIN rows' = DOMAIN rows \cup page
           /\ \A r \in DOMAIN rows' : rows'[r] \in RowType
           /\ \A r \in page : rows'[r].mod = NoRow /\ rows'[r].misses = 0
           /\ \A r \in DOMAIN rows' : r \notin page /\ r \in inventory =>
                 /\ ~rows'[r].shown /\ rows'[r].misses = DeadAfter
                 /\ rows'[r].mod = rows[r].mod
           /\ \A r \in DOMAIN rows' : r \notin page /\ r \notin inventory => rows'[r] = rows[r]
<1>. USE GivenRows
<1>1. DOMAIN rows' = DOMAIN rows \cup page
  BY DEF ScrapedRows
<1>2. ASSUME NEW r \in page
      PROVE  rows'[r] \in RowType /\ rows'[r].mod = NoRow /\ rows'[r].misses = 0
  <2>1. PICK w \in BOOLEAN : w <=> (r \in WeekOwners(map) \cap DOMAIN rows /\ rows[r].week)
    OBVIOUS
  <2>2. PICK s \in BOOLEAN : s <=> r \notin silent
    OBVIOUS
  <2>3. r \in DOMAIN rows => rows[r].week \in BOOLEAN
    BY DEF FreshTypeOK, RowType
  <2>4. rows'[r] = [shown |-> s, mod |-> NoRow, week |-> w, age |-> 0, misses |-> 0]
    BY <2>1, <2>2, <2>3 DEF ScrapedRows
  <2>. QED BY <2>4 DEF RowType
<1>3. ASSUME NEW r \in DOMAIN rows', r \notin page, r \in inventory
      PROVE  /\ rows'[r] \in RowType /\ ~rows'[r].shown /\ rows'[r].misses = DeadAfter
             /\ rows'[r].mod = rows[r].mod
  <2>1. rows[r] \in RowType
    BY <1>1, <1>3 DEF FreshTypeOK
  <2>2. rows'[r] = [rows[r] EXCEPT !.shown = FALSE, !.misses = DeadAfter]
    BY <1>1, <1>3 DEF ScrapedRows
  <2>3. PICK row \in RowType : row = rows[r]
    BY <2>1
  <2>4. rows'[r] = [row EXCEPT !.shown = FALSE, !.misses = DeadAfter]
    BY <2>2, <2>3
  <2>5. row.mod = rows[r].mod
    BY <2>3
  <2>6. DeadAfter \in 0..DeadAfter
    OBVIOUS
  <2>. QED BY ZenonT(60), <2>4, <2>5, <2>6 DEF RowType
<1>4. ASSUME NEW r \in DOMAIN rows', r \notin page, r \notin inventory
      PROVE  rows'[r] \in RowType /\ rows'[r] = rows[r]
  BY <1>1, <1>4 DEF ScrapedRows, FreshTypeOK
<1>. QED BY <1>1, <1>2, <1>3, <1>4

LEMMA ScrapeWorksKeeps ==
    ASSUME FreshInv, NEW page \in SUBSET Scraped,
           NEW silent \in SUBSET page, ScrapeWorks(page, silent)
    PROVE  FreshKept
<1>. USE GivenRows
<1>1. /\ failedScrapes' = 0 /\ inventory' = page
      /\ merged' = merged \/ merged' = Empty
      /\ page # inventory => merged' = Empty
      /\ UNCHANGED <<at, listed, described, adrift, lastRead, answered, settled>>
  BY DEF ScrapeWorks, lists, stamps
<1>2. /\ DOMAIN rows' = DOMAIN rows \cup page
      /\ \A r \in DOMAIN rows' : rows'[r] \in RowType
      /\ \A r \in page : rows'[r].mod = NoRow /\ rows'[r].misses = 0
      /\ \A r \in DOMAIN rows' : r \notin page /\ r \in inventory =>
            /\ ~rows'[r].shown /\ rows'[r].misses = DeadAfter
            /\ rows'[r].mod = rows[r].mod
      /\ \A r \in DOMAIN rows' : r \notin page /\ r \notin inventory => rows'[r] = rows[r]
  BY PageRows DEF ScrapeWorks, FreshInv
<1>3. DOMAIN Empty = {}
  BY DEF Empty
<1>4. \A p \in DOMAIN merged' : p \in DOMAIN merged /\ merged'[p] = merged[p] /\ page = inventory
  BY <1>1, <1>3
<1>5. FreshTypeOK'
  <2>1. DOMAIN rows' \subseteq Rows /\ DOMAIN merged' \subseteq Params
        /\ Range(merged') \subseteq Rows
    BY <1>1, <1>2, <1>3 DEF FreshInv, FreshTypeOK, Range
  <2>2. failedScrapes' \in 0..DeadAfter + 1
    BY <1>1
  <2>. QED BY <1>1, <1>2, <2>1, <2>2 DEF FreshInv, FreshTypeOK
<1>6. OneRowPerReading'
  <2>1. \A p \in DOMAIN merged' : p \in DOMAIN rows' => p \in DOMAIN rows
    BY <1>2, <1>4 DEF FreshInv, FreshTypeOK
  <2>. QED BY <1>4, <2>1 DEF FreshInv, OneRowPerReading
<1>7. HomesInv'
  BY <1>1, <1>4 DEF FreshInv, HomesInv
<1>8. PageInv'
  <2>1. AtMost(0, DeadAfter) = 0
    BY LeastIs
  <2>. QED BY <1>1, <1>2, <2>1 DEF FreshInv, PageInv
<1>9. OwnerInv'
  <2>. SUFFICES ASSUME NEW r \in DOMAIN rows'
                PROVE  /\ r \in Params => rows'[r].mod = ModuleOf[r]
                       /\ r \in Scraped /\ rows'[r].shown =>
                             r \in page /\ rows'[r].mod = NoRow /\ failedScrapes' < DeadAfter
                       /\ rows'[r].mod # NoRow => rows'[r].mod = rows[r].mod /\ r \in DOMAIN rows
    BY <1>1 DEF FreshInv, OwnerInv
  <2>1. CASE r \in page
    BY <1>1, <1>2, <2>1
  <2>2. CASE r \notin page
    <3>1. r \in DOMAIN rows /\ rows'[r].mod = rows[r].mod
      BY <1>2, <2>2
    <3>2. r \in Scraped => ~rows'[r].shown
      BY <1>2, <2>2, <3>1 DEF FreshInv, OwnerInv
    <3>. QED BY <3>1, <3>2 DEF FreshInv, OwnerInv
  <2>. QED BY <2>1, <2>2
<1>10. \A p : Known(p)' <=> Known(p)
  BY <1>1 DEF Known
<1>11. TracedInv'
  <2>1. ASSUME NEW r \in DOMAIN rows', r \in Params PROVE Known(r)
    BY <1>2, <2>1 DEF FreshInv, TracedInv
  <2>2. ASSUME NEW p \in DOMAIN merged', merged'[p] \in DOMAIN rows',
               rows'[merged'[p]].shown, rows'[merged'[p]].misses = DeadAfter,
               rows'[merged'[p]].mod = ModuleOf[p]
        PROVE  Known(p)
    <3>1. merged'[p] \notin page
      BY <1>2, <2>2
    <3>2. rows'[merged'[p]] = rows[merged'[p]] /\ merged'[p] \in DOMAIN rows
      BY <1>2, <2>2, <3>1
    <3>. QED BY <1>4, <2>2, <3>2 DEF FreshInv, TracedInv
  <2>. QED BY <1>1, <1>10, <2>1, <2>2 DEF FreshInv, TracedInv
<1>12. ASSUME AgeInv, SomethingIsDescribed' PROVE AgeInv'
  <2>1. Described' = Described
    BY <1>1 DEF Described
  <2>2. ASSUME NEW r \in DOMAIN rows', Alone(r)'
        PROVE  r \in DOMAIN rows /\ rows'[r] = rows[r] /\ Alone(r)
    <3>1. r \notin page
      BY <1>2, <2>2 DEF Alone, Vouched
    <3>2. r \notin inventory /\ r \in DOMAIN rows /\ rows'[r] = rows[r]
      BY <1>2, <2>2, <3>1 DEF Alone
    <3>3. r \in Params
      BY <2>2, <3>2 DEF FreshInv, OwnerInv, FreshTypeOK, Alone
    <3>4. ASSUME NEW p \in adrift, r = RowOf(p) PROVE r = RowOf(p)'
      <4>1. p \in Params
        BY DEF FreshInv, FreshTypeOK
      <4>2. p = r
        BY <3>3, <3>4, <4>1 DEF RowOf, FreshInv, HomesInv
      <4>3. CASE p \in DOMAIN merged'
        BY <1>4, <3>4, <4>3 DEF RowOf
      <4>4. CASE p \notin DOMAIN merged'
        BY <4>2, <4>4 DEF RowOf
      <4>. QED BY <4>3, <4>4
    <3>. QED BY <1>1, <2>2, <3>2, <3>4 DEF Alone, Vouched, BackWithoutIt
  <2>. QED BY <1>1, <1>12, <2>1, <2>2 DEF FreshInv, AgeInv
<1>. QED BY <1>5, <1>6, <1>7, <1>8, <1>9, <1>11, <1>12 DEF FreshInv, FreshKept

LEMMA ScrapeFailsKeeps ==
    ASSUME FreshInv, ScrapeFails
    PROVE  FreshKept
<1>. USE GivenRows
<1>. DEFINE counted == [r \in DOMAIN rows |->
                          [rows[r] EXCEPT !.misses = AtMost(@ + 1, DeadAfter)]]
            gone == IF failedScrapes' = DeadAfter THEN inventory ELSE {}
<1>1. /\ failedScrapes \in 0..DeadAfter + 1
      /\ failedScrapes <= DeadAfter => failedScrapes' = failedScrapes + 1
      /\ failedScrapes = DeadAfter + 1 => failedScrapes' = failedScrapes
      /\ failedScrapes' \in 0..DeadAfter + 1
  <2>1. failedScrapes' = AtMost(failedScrapes + 1, DeadAfter + 1)
    BY DEF ScrapeFails
  <2>2. failedScrapes \in 0..DeadAfter + 1
    BY DEF FreshInv, FreshTypeOK
  <2>. QED BY <2>1, <2>2 DEF AtMost
<1>2. ASSUME NEW r \in DOMAIN rows
      PROVE  /\ counted[r] \in RowType
             /\ counted[r].shown = rows[r].shown /\ counted[r].mod = rows[r].mod
             /\ counted[r].week = rows[r].week /\ counted[r].age = rows[r].age
             /\ counted[r].misses = AtMost(rows[r].misses + 1, DeadAfter)
  <2>1. PICK row \in RowType : row = rows[r]
    BY DEF FreshInv, FreshTypeOK
  <2>2. AtMost(row.misses + 1, DeadAfter) \in 0..DeadAfter
    <3>1. row.misses \in Nat
      BY DEF RowType
    <3>. QED BY <3>1 DEF AtMost
  <2>3. counted[r] = [row EXCEPT !.misses = AtMost(row.misses + 1, DeadAfter)]
    BY <2>1
  <2>. QED BY <2>1, <2>2, <2>3 DEF RowType
<1>3. Typed(counted) /\ DOMAIN counted = DOMAIN rows
  BY <1>2 DEF Typed, FreshInv, FreshTypeOK
<1>4. rows' = Blank(counted, gone)
  BY DEF ScrapeFails
<1>. HIDE DEF counted
<1>5. /\ DOMAIN rows' = DOMAIN rows /\ Typed(rows')
      /\ \A r \in DOMAIN rows :
            /\ rows'[r].shown <=> rows[r].shown /\ r \notin gone
            /\ rows'[r].mod = rows[r].mod
            /\ rows'[r].week = rows[r].week /\ rows'[r].age = rows[r].age
            /\ rows'[r].misses = AtMost(rows[r].misses + 1, DeadAfter)
  BY <1>2, <1>3, <1>4, BlankIs
<1>6. UNCHANGED <<at, listed, described, adrift, merged, inventory, lastRead, answered, settled>>
  BY DEF ScrapeFails, lists, stamps
(* What still shows and counts as dead was dead before. *)
<1>7. ASSUME NEW r \in DOMAIN rows, rows'[r].shown, rows'[r].misses = DeadAfter
      PROVE  rows[r].misses = DeadAfter
  <2>1. CASE r \notin inventory
    BY <2>1 DEF FreshInv, PageInv
  <2>2. CASE r \in inventory
    <3>1. failedScrapes' # DeadAfter
      BY <1>5, <1>7, <2>2
    <3>2. rows[r].misses = AtMost(failedScrapes, DeadAfter)
      BY <2>2 DEF FreshInv, PageInv
    <3>3. rows[r].misses \in Nat
      BY <1>1, <3>2, LeastIs
    <3>4. rows[r].misses + 1 < DeadAfter \/ rows[r].misses + 1 >= DeadAfter
      BY <3>3
    <3>5. rows[r].misses + 1 >= DeadAfter
      BY <1>5, <1>7, <3>3, <3>4, LeastIs
    <3>. QED BY <1>1, <3>1, <3>2, <3>5, LeastIs
  <2>. QED BY <2>1, <2>2
<1>8. FreshTypeOK'
  BY <1>1, <1>5, <1>6 DEF FreshInv, FreshTypeOK, Typed, Range
<1>9. OneRowPerReading' /\ HomesInv'
  BY <1>5, <1>6 DEF FreshInv, OneRowPerReading, HomesInv
<1>10. PageInv'
  <2>1. ASSUME NEW r \in inventory PROVE rows'[r].misses = AtMost(failedScrapes', DeadAfter)
    <3>1. r \in DOMAIN rows /\ rows[r].misses = AtMost(failedScrapes, DeadAfter)
      BY DEF FreshInv, PageInv
    <3>2. CASE failedScrapes < DeadAfter
      <4>1. rows[r].misses = failedScrapes /\ failedScrapes' = failedScrapes + 1 /\ failedScrapes \in Nat
        BY <1>1, <3>1, <3>2 DEF AtMost
      <4>. QED BY <1>5, <3>1, <4>1
    <3>3. CASE failedScrapes >= DeadAfter
      <4>1. rows[r].misses = DeadAfter /\ failedScrapes' >= DeadAfter
        BY <1>1, <3>1, <3>3 DEF AtMost
      <4>2. AtMost(DeadAfter + 1, DeadAfter) = DeadAfter /\ AtMost(failedScrapes', DeadAfter) = DeadAfter
        BY <1>1, <4>1, LeastIs
      <4>. QED BY <1>5, <3>1, <4>1, <4>2
    <3>. QED BY <1>1, <3>2, <3>3
  <2>2. ASSUME NEW r \in DOMAIN rows, r \notin inventory PROVE rows'[r].misses = DeadAfter
    <3>1. rows[r].misses = DeadAfter
      BY <2>2 DEF FreshInv, PageInv
    <3>2. AtMost(DeadAfter + 1, DeadAfter) = DeadAfter
      BY LeastIs
    <3>. QED BY <1>5, <3>1, <3>2
  <2>. QED BY <1>5, <1>6, <2>1, <2>2 DEF FreshInv, PageInv
<1>11. OwnerInv'
  <2>. SUFFICES ASSUME NEW r \in DOMAIN rows, r \in inventory, rows'[r].shown,
                       failedScrapes < DeadAfter
                PROVE  failedScrapes' < DeadAfter
    BY <1>5, <1>6 DEF FreshInv, OwnerInv
  <2>. QED BY <1>1, <1>5
<1>12. TracedInv'
  <2>1. \A p : Known(p)' <=> Known(p)
    BY <1>6 DEF Known
  <2>. QED BY <1>5, <1>6, <1>7, <2>1 DEF FreshInv, TracedInv
<1>13. ASSUME AgeInv, SomethingIsDescribed' PROVE AgeInv'
  <2>1. Described' = Described
    BY <1>6 DEF Described
  <2>2. ASSUME NEW r \in DOMAIN rows, Alone(r)' PROVE Alone(r)
    <3>1. \A p : RowOf(p)' = RowOf(p)
      BY <1>6 DEF RowOf
    <3>2. rows'[r].shown /\ ~rows'[r].week /\ ~(rows'[r].misses < DeadAfter)
      BY <2>2 DEF Alone, Vouched
    <3>3. rows'[r].misses = DeadAfter
      BY <1>5, <3>2, RowIs DEF Typed
    <3>4. rows[r].misses = DeadAfter
      BY <1>7, <3>2, <3>3
    <3>. QED BY <1>5, <1>6, <2>2, <3>1, <3>2, <3>4 DEF Alone, Vouched, BackWithoutIt
  <2>. QED BY <1>5, <1>6, <1>13, <2>1, <2>2 DEF FreshInv, AgeInv
<1>. QED BY <1>8, <1>9, <1>10, <1>11, <1>12, <1>13 DEF FreshInv, FreshKept

LEMMA BeginReadKeeps ==
    ASSUME FreshInv, BeginRead
    PROVE  FreshKept
<1>. USE GivenRows
<1>1. /\ at' = "status" /\ settled' = FALSE
      /\ UNCHANGED <<listed, described, adrift, merged, inventory, failedScrapes>>
  BY DEF BeginRead, lists
<1>2. /\ DOMAIN rows' = DOMAIN rows /\ Typed(rows')
      /\ \A r \in DOMAIN rows :
            /\ rows'[r].shown = rows[r].shown /\ rows'[r].mod = rows[r].mod
            /\ rows'[r].week = rows[r].week /\ rows'[r].misses = rows[r].misses
            /\ rows'[r].age <= rows[r].age + 1
  <2>1. DOMAIN rows' = DOMAIN rows
    BY DEF BeginRead
  <2>2. ASSUME NEW r \in DOMAIN rows
        PROVE  /\ rows'[r] \in RowType
               /\ rows'[r].shown = rows[r].shown /\ rows'[r].mod = rows[r].mod
               /\ rows'[r].week = rows[r].week /\ rows'[r].misses = rows[r].misses
               /\ rows'[r].age <= rows[r].age + 1
    <3>1. PICK row \in RowType : row = rows[r]
      BY DEF FreshInv, FreshTypeOK
    <3>2. row.age \in Nat
      BY DEF RowType
    <3>3. /\ AtMost(row.age + 1, LongestAge) \in 0..LongestAge
          /\ AtMost(row.age + 1, LongestAge) <= row.age + 1
      BY <3>2 DEF AtMost
    <3>4. rows'[r] = [row EXCEPT !.age = AtMost(row.age + 1, LongestAge)]
      BY <3>1 DEF BeginRead
    <3>. QED BY <3>1, <3>3, <3>4 DEF RowType
  <2>. QED BY <2>1, <2>2 DEF Typed, FreshInv, FreshTypeOK
<1>3. ASSUME NEW n \in 0..NeverRead
      PROVE  /\ Older(n) \in 0..NeverRead /\ (n # NeverRead => Older(n) # NeverRead)
             /\ Older(n) < StaleAfter => Older(n) = n + 1
  <2>1. /\ AtMost(n + 1, StaleAfter) \in Nat /\ AtMost(n + 1, StaleAfter) <= StaleAfter
        /\ AtMost(n + 1, StaleAfter) < StaleAfter => AtMost(n + 1, StaleAfter) = n + 1
    BY SMTT(40), LeastIs
  <2>. QED BY <2>1 DEF Older
<1>4. /\ lastRead \in 0..NeverRead /\ lastRead' = Older(lastRead)
      /\ \A m \in Modules : answered[m] \in 0..NeverRead /\ answered'[m] = Older(answered[m])
  BY DEF FreshInv, FreshTypeOK, BeginRead
<1>5. FreshTypeOK'
  <2>1. answered' \in [Modules -> 0..NeverRead]
    BY <1>3, <1>4 DEF BeginRead
  <2>2. lastRead' \in 0..NeverRead
    BY <1>3, <1>4
  <2>3. DOMAIN rows' \subseteq Rows /\ \A r \in DOMAIN rows' : rows'[r] \in RowType
    BY <1>2 DEF Typed
  <2>. QED BY <1>1, <2>1, <2>2, <2>3 DEF FreshInv, FreshTypeOK, Range
<1>6. OneRowPerReading' /\ HomesInv' /\ PageInv'
  BY <1>1, <1>2 DEF FreshInv, OneRowPerReading, HomesInv, PageInv
<1>7. OwnerInv'
  <2>. SUFFICES ASSUME NEW r \in DOMAIN rows, rows[r].mod # NoRow
                PROVE  answered'[rows[r].mod] # NeverRead /\ lastRead' # NeverRead
    BY <1>1, <1>2 DEF FreshInv, OwnerInv
  <2>1. rows[r].mod \in Modules
    BY RowIs DEF FreshInv, FreshTypeOK
  <2>. QED BY <1>3, <1>4, <2>1 DEF FreshInv, OwnerInv
<1>8. TracedInv'
  <2>1. \A p : Known(p)' <=> Known(p)
    BY <1>1 DEF Known
  <2>. QED BY <1>1, <1>2, <2>1 DEF FreshInv, TracedInv
<1>9. ASSUME AgeInv, SomethingIsDescribed' PROVE AgeInv'
  <2>1. Described' = Described
    BY <1>1 DEF Described
  <2>2. ASSUME NEW r \in DOMAIN rows, Alone(r)' PROVE Alone(r)
    <3>1. \A p : RowOf(p)' = RowOf(p)
      BY <1>1 DEF RowOf
    <3>. QED BY <1>1, <1>2, <2>2, <3>1 DEF Alone, Vouched, BackWithoutIt
  <2>3. ASSUME NEW r \in DOMAIN rows, Alone(r)'
        PROVE  /\ answered'[rows[r].mod] < StaleAfter => rows'[r].age <= answered'[rows[r].mod]
               /\ lastRead' < StaleAfter => rows'[r].age <= lastRead' + (StaleAfter - 1)
    <3>1. Alone(r) /\ rows[r].mod \in Modules
      BY <2>2, <2>3, AloneIs
    <3>2. /\ answered[rows[r].mod] < StaleAfter => rows[r].age <= answered[rows[r].mod]
          /\ lastRead < StaleAfter => rows[r].age <= lastRead + (StaleAfter - 1)
      BY <1>9, <3>1 DEF FreshInv, AgeInv
    <3>3. rows[r].age \in Nat /\ rows'[r].age \in Nat /\ rows'[r].age <= rows[r].age + 1
      BY <1>2, RowIs DEF Typed, FreshInv, FreshTypeOK
    <3>4. answered'[rows[r].mod] < StaleAfter =>
            /\ answered'[rows[r].mod] = answered[rows[r].mod] + 1
            /\ answered[rows[r].mod] \in Nat
      BY <1>3, <1>4, <3>1
    <3>5. lastRead' < StaleAfter => lastRead' = lastRead + 1 /\ lastRead \in Nat
      BY <1>3, <1>4
    <3>. QED BY <3>2, <3>3, <3>4, <3>5
  <2>. QED BY <1>1, <1>2, <1>9, <2>1, <2>3 DEF FreshInv, AgeInv
<1>. QED BY <1>5, <1>6, <1>7, <1>8, <1>9 DEF FreshInv, FreshKept

LEMMA CutShortKeeps ==
    ASSUME FreshInv, ReadCutShort
    PROVE  FreshKept
<1>1. /\ at' = "idle" /\ settled' = FALSE
      /\ UNCHANGED <<listed, described, adrift, rows, merged, inventory, failedScrapes, lastRead, answered>>
  BY DEF ReadCutShort, lists, stamps
<1>2. FreshTypeOK'
  BY <1>1 DEF FreshInv, FreshTypeOK, Range
<1>3. OneRowPerReading' /\ HomesInv' /\ PageInv' /\ OwnerInv'
  BY <1>1 DEF FreshInv, OneRowPerReading, HomesInv, PageInv, OwnerInv
<1>4. TracedInv'
  BY <1>1 DEF FreshInv, TracedInv, Known
<1>5. ASSUME AgeInv, SomethingIsDescribed' PROVE AgeInv'
  <2>1. Described' = Described /\ \A r : Alone(r)' <=> Alone(r)
    BY <1>1 DEF Described, Alone, Vouched, BackWithoutIt, RowOf
  <2>. QED BY <1>1, <1>5, <2>1 DEF FreshInv, AgeInv
<1>. QED BY <1>2, <1>3, <1>4, <1>5 DEF FreshInv, FreshKept

LEMMA ReadEndsKeeps ==
    ASSUME FreshInv, NotOnline \/ ReadFails
    PROVE  FreshKept
<1>. USE GivenRows
<1>1. /\ at' \in {"idle", "schedules"} /\ settled' = TRUE
      /\ UNCHANGED <<listed, described, adrift, merged, inventory, failedScrapes, answered>>
  BY DEF NotOnline, ReadFails, lists
<1>2. PICK runs \in BOOLEAN : DeviceForgets(runs)
  BY DEF NotOnline, ReadFails
<1>. DEFINE gone == {r \in Shown(rows) : ~OwnedElsewhere(rows, r, runs)}
<1>3. \/ /\ lastRead \notin {NeverRead} \cup 0..(StaleAfter - 1) /\ gone # {}
         /\ rows' = Blank(rows, gone) /\ lastRead' = 0
      \/ /\ lastRead \in {NeverRead} \cup 0..(StaleAfter - 1) \/ gone = {}
         /\ rows' = rows /\ lastRead' = lastRead
  BY <1>2 DEF DeviceForgets
<1>4. Typed(rows) /\ lastRead \in 0..NeverRead
  BY DEF FreshInv, FreshTypeOK, Typed
<1>5. /\ DOMAIN rows' = DOMAIN rows /\ Typed(rows')
      /\ \A r \in DOMAIN rows :
            /\ rows'[r].shown => rows[r].shown
            /\ rows'[r].mod = rows[r].mod /\ rows'[r].week = rows[r].week
            /\ rows'[r].age = rows[r].age /\ rows'[r].misses = rows[r].misses
  BY <1>3, <1>4, BlankIs
<1>6. lastRead' = lastRead \/ lastRead' = 0
  BY <1>3
<1>7. ASSUME NEW r \in DOMAIN rows, rows[r].shown, r \notin gone
      PROVE  Vouched(r)
  <2>1. ScrapeFeeds(r) \/ rows[r].week
    BY <1>7 DEF Shown, OwnedElsewhere, ScheduleFeeds
  <2>. QED BY <2>1, MissesCount DEF Vouched, FreshInv
<1>8. FreshTypeOK'
  BY <1>1, <1>4, <1>5, <1>6 DEF FreshInv, FreshTypeOK, Typed, Range
<1>9. OneRowPerReading' /\ HomesInv' /\ PageInv'
  BY <1>1, <1>5 DEF FreshInv, OneRowPerReading, HomesInv, PageInv
<1>10. OwnerInv'
  BY <1>1, <1>5, <1>6 DEF FreshInv, OwnerInv
<1>11. TracedInv'
  <2>1. \A p : Known(p)' <=> Known(p)
    BY <1>1 DEF Known
  <2>. QED BY <1>1, <1>5, <2>1 DEF FreshInv, TracedInv
<1>12. ASSUME AgeInv, SomethingIsDescribed' PROVE AgeInv'
  <2>1. Described' = Described
    BY <1>1 DEF Described
  <2>2. ASSUME NEW r \in DOMAIN rows, Alone(r)'
        PROVE  /\ rows' = rows /\ lastRead' = lastRead /\ Alone(r)
               /\ rows[r].age <= 2 * (StaleAfter - 1)
    <3>1. Alone(r)
      <4>1. \A p : RowOf(p)' = RowOf(p)
        BY <1>1 DEF RowOf
      <4>. QED BY <1>1, <1>5, <2>2, <4>1 DEF Alone, Vouched, BackWithoutIt
    <3>2. rows[r].shown /\ ~Vouched(r)
      BY <3>1 DEF Alone
    <3>3. r \in gone
      BY <1>7, <3>2
    <3>4. rows' = rows /\ lastRead' = lastRead /\ lastRead \in {NeverRead} \cup 0..(StaleAfter - 1)
      <4>1. ~(rows' = Blank(rows, gone))
        BY <1>4, <2>2, <3>3, BlankIs DEF Alone
      <4>. QED BY <1>3, <3>3, <4>1
    <3>5. lastRead \in 0..StaleAfter - 1
      BY <3>1, <3>4, AloneIs
    <3>6. rows[r].age <= lastRead + (StaleAfter - 1)
      BY <1>12, <3>1, <3>5 DEF FreshInv, AgeInv
    <3>7. rows[r].age \in Nat
      BY RowIs DEF FreshInv, FreshTypeOK
    <3>8. rows[r].age <= 2 * (StaleAfter - 1)
      BY <3>5, <3>6, <3>7
    <3>. QED BY <3>1, <3>4, <3>8
  <2>. QED BY <1>1, <1>5, <1>12, <2>1, <2>2 DEF FreshInv, AgeInv
<1>. QED BY <1>8, <1>9, <1>10, <1>11, <1>12 DEF FreshInv, FreshKept

LEMMA NothingToReadKeeps ==
    ASSUME FreshInv, NothingToRead
    PROVE  FreshKept
<1>1. /\ at' = "schedules" /\ settled' = TRUE /\ Described = {}
      /\ UNCHANGED <<listed, described, adrift, rows, merged, inventory, failedScrapes, lastRead, answered>>
  BY DEF NothingToRead, lists, stamps
<1>2. FreshTypeOK'
  BY <1>1 DEF FreshInv, FreshTypeOK, Range
<1>3. OneRowPerReading' /\ HomesInv' /\ PageInv' /\ OwnerInv'
  BY <1>1 DEF FreshInv, OneRowPerReading, HomesInv, PageInv, OwnerInv
<1>4. TracedInv'
  BY <1>1 DEF FreshInv, TracedInv, Known
<1>5. ASSUME AgeInv, SomethingIsDescribed' PROVE AgeInv'
  <2>1. Params = {}
    BY <1>1, <1>5 DEF FreshInv, AgeInv
  <2>2. Described' = Described /\ \A r : Alone(r)' <=> Alone(r)
    BY <1>1 DEF Described, Alone, Vouched, BackWithoutIt, RowOf
  <2>3. \A r \in DOMAIN rows : ~Alone(r)
    BY <2>1, AloneIs
  <2>. QED BY <1>1, <2>1, <2>2, <2>3 DEF AgeInv
<1>. QED BY <1>2, <1>3, <1>4, <1>5 DEF FreshInv, FreshKept

LEMMA FetchSchedulesKeeps ==
    ASSUME FreshInv, NEW came, NEW lost,
           FetchSchedules(came, lost)
    PROVE  FreshKept
<1>. USE GivenRows
<1>. DEFINE of(ps) == {RowOf(p) : p \in ps}
<1>1. /\ at' = "idle" /\ settled' \in BOOLEAN /\ (settled' => settled /\ lost = {})
      /\ UNCHANGED <<listed, described, adrift, merged, inventory, failedScrapes, lastRead, answered>>
  <2>1. settled \in BOOLEAN
    BY DEF FreshInv, FreshTypeOK
  <2>. QED BY <2>1 DEF FetchSchedules, lists, stamps
<1>2. /\ DOMAIN rows' = DOMAIN rows /\ Typed(rows')
      /\ \A r \in DOMAIN rows :
            /\ rows'[r].shown = rows[r].shown /\ rows'[r].mod = rows[r].mod
            /\ rows'[r].misses = rows[r].misses
            /\ rows'[r].week \/ ~rows[r].week \/ rows'[r].age = 0
            /\ rows[r].week \/ rows'[r].age = rows[r].age
  <2>1. DOMAIN rows' = DOMAIN rows
    BY DEF FetchSchedules
  <2>2. ASSUME NEW r \in DOMAIN rows
        PROVE  /\ rows'[r] \in RowType
               /\ rows'[r].shown = rows[r].shown /\ rows'[r].mod = rows[r].mod
               /\ rows'[r].misses = rows[r].misses
               /\ rows'[r].week \/ ~rows[r].week \/ rows'[r].age = 0
               /\ rows[r].week \/ rows'[r].age = rows[r].age
    <3>1. PICK row \in RowType : row = rows[r]
      BY DEF FreshInv, FreshTypeOK
    <3>2. PICK w \in BOOLEAN : w <=> (row.week \/ r \in of(came)) /\ r \notin of(lost)
      OBVIOUS
    <3>3. PICK a \in 0..LongestAge : a = IF row.week /\ r \in of(lost) THEN 0 ELSE row.age
      BY DEF RowType
    <3>4. row.week \in BOOLEAN
      BY DEF RowType
    <3>5. rows'[r] = [rows[r] EXCEPT !.week = (rows[r].week \/ r \in of(came)) /\ r \notin of(lost),
                                     !.age = IF rows[r].week /\ r \in of(lost)
                                             THEN 0 ELSE rows[r].age]
      BY DEF FetchSchedules
    <3>6. rows'[r] = [row EXCEPT !.week = w, !.age = a]
      BY <3>1, <3>2, <3>3, <3>4, <3>5
    <3>7. /\ rows'[r] \in RowType
          /\ rows'[r].shown = row.shown /\ rows'[r].mod = row.mod
          /\ rows'[r].misses = row.misses /\ rows'[r].week = w /\ rows'[r].age = a
      BY <3>6 DEF RowType
    <3>. QED BY <3>1, <3>2, <3>3, <3>7
  <2>. QED BY <2>1, <2>2 DEF Typed, FreshInv, FreshTypeOK
<1>3. FreshTypeOK'
  BY <1>1, <1>2 DEF FreshInv, FreshTypeOK, Typed, Range
<1>4. OneRowPerReading' /\ HomesInv' /\ PageInv' /\ OwnerInv'
  BY <1>1, <1>2 DEF FreshInv, OneRowPerReading, HomesInv, PageInv, OwnerInv
<1>5. TracedInv'
  <2>1. \A p : Known(p)' <=> Known(p)
    BY <1>1 DEF Known
  <2>. QED BY <1>1, <1>2, <2>1 DEF FreshInv, TracedInv
<1>6. ASSUME AgeInv, SomethingIsDescribed' PROVE AgeInv'
  <2>1. Described' = Described
    BY <1>1 DEF Described
  <2>2. ASSUME NEW r \in DOMAIN rows, Alone(r)'
        PROVE  rows'[r].age = 0 \/ (Alone(r) /\ rows'[r].age = rows[r].age)
    <3>1. \A p : RowOf(p)' = RowOf(p)
      BY <1>1 DEF RowOf
    <3>2. ~rows'[r].week
      BY <2>2 DEF Alone, Vouched
    <3>. QED BY <1>1, <1>2, <2>2, <3>1, <3>2 DEF Alone, Vouched, BackWithoutIt
  <2>3. ASSUME NEW r \in DOMAIN rows, Alone(r)'
        PROVE  /\ answered[rows[r].mod] < StaleAfter => rows'[r].age <= answered[rows[r].mod]
               /\ lastRead < StaleAfter => rows'[r].age <= lastRead + (StaleAfter - 1)
               /\ settled' => rows'[r].age <= 2 * (StaleAfter - 1)
    <3>1. CASE Alone(r) /\ rows'[r].age = rows[r].age
      BY <1>1, <1>6, <3>1 DEF FreshInv, AgeInv
    <3>2. CASE rows'[r].age = 0
      <4>1. rows[r].mod \in Modules
        <5>1. rows[r].shown /\ ~(rows[r].misses < DeadAfter)
          BY <1>2, <2>3 DEF Alone, Vouched
        <5>2. rows[r].misses = DeadAfter
          BY <5>1, MissesCount DEF FreshInv
        <5>. QED BY <5>1, <5>2, OwnerOf DEF Owner
      <4>2. answered[rows[r].mod] \in Nat /\ lastRead \in Nat
        BY <4>1 DEF FreshInv, FreshTypeOK
      <4>. QED BY <3>2, <4>2
    <3>. QED BY <2>2, <2>3, <3>1, <3>2
  <2>. QED BY <1>1, <1>2, <1>6, <2>1, <2>3 DEF FreshInv, AgeInv
<1>. QED BY <1>3, <1>4, <1>5, <1>6 DEF FreshInv, FreshKept

LEMMA RedescribeKeeps ==
    ASSUME FreshInv, NEW m \in Modules,
           NEW new \in SUBSET Of(m), new # {}, Redescribe(m, new)
    PROVE  FreshKept
<1>. USE GivenRows
<1>. DEFINE dropped == described[m] \ new
            left == {RowOf(p) : p \in dropped} \ dropped
<1>1. /\ UNCHANGED <<at, listed, merged, inventory, failedScrapes, lastRead, answered, settled>>
      /\ m \in listed /\ described' = [described EXCEPT ![m] = new]
      /\ adrift' = adrift \cup (IF described[m] = {} THEN Of(m) \ new ELSE {})
  BY DEF Redescribe, stamps
<1>2. /\ described[m] \subseteq Of(m) /\ Of(m) \subseteq Params
      /\ described \in [Modules -> SUBSET Params] /\ dropped \subseteq Params
  BY DEF FreshInv, TracedInv, Of, FreshTypeOK
<1>3. /\ DOMAIN rows' = DOMAIN rows \ dropped /\ Typed(rows')
      /\ \A r \in DOMAIN rows' :
            /\ rows'[r].mod = rows[r].mod /\ rows'[r].misses = rows[r].misses
            /\ r \in left => (rows'[r].shown <=> rows[r].shown /\ ScrapeFeeds(r))
            /\ r \notin left => rows'[r] = rows[r]
  <2>1. DOMAIN rows' = DOMAIN rows \ dropped
    BY DEF Redescribe
  <2>2. ASSUME NEW r \in DOMAIN rows'
        PROVE  /\ rows'[r] \in RowType
               /\ rows'[r].mod = rows[r].mod /\ rows'[r].misses = rows[r].misses
               /\ r \in left => (rows'[r].shown <=> rows[r].shown /\ ScrapeFeeds(r))
               /\ r \notin left => rows'[r] = rows[r]
    <3>1. PICK row \in RowType : row = rows[r]
      BY <2>1 DEF FreshInv, FreshTypeOK
    <3>2. CASE r \notin left
      BY <2>1, <3>1, <3>2 DEF Redescribe
    <3>3. CASE r \in left
      <4>1. PICK b \in BOOLEAN : b <=> row.shown /\ ScrapeFeeds(r)
        OBVIOUS
      <4>2. row.shown \in BOOLEAN
        BY DEF RowType
      <4>3. rows'[r] = [rows[r] EXCEPT !.week = FALSE, !.shown = rows[r].shown /\ ScrapeFeeds(r)]
        BY <2>1, <3>3 DEF Redescribe
      <4>4. rows'[r] = [row EXCEPT !.week = FALSE, !.shown = b]
        BY <3>1, <4>1, <4>2, <4>3
      <4>5. /\ rows'[r] \in RowType /\ rows'[r].shown = b
            /\ rows'[r].mod = row.mod /\ rows'[r].misses = row.misses
        BY <4>4 DEF RowType
      <4>. QED BY <3>1, <3>3, <4>1, <4>5
    <3>. QED BY <3>2, <3>3
  <2>. QED BY <2>1, <2>2 DEF Typed, FreshInv, FreshTypeOK
<1>. HIDE DEF dropped, left
<1>4. ASSUME NEW r \in DOMAIN rows', rows'[r].shown, rows'[r].misses = DeadAfter
      PROVE  r \notin left /\ rows'[r] = rows[r] /\ r \in DOMAIN rows
  <2>1. r \in DOMAIN rows /\ rows[r].misses = DeadAfter
    BY <1>3, <1>4
  <2>2. ~ScrapeFeeds(r)
    BY <2>1, MissesCount DEF FreshInv
  <2>. QED BY <1>3, <1>4, <2>1, <2>2
<1>5. ASSUME NEW p \in Params, p \notin dropped, Known(p) PROVE Known(p)'
  <2>1. CASE ModuleOf[p] = m
    <3>1. CASE p \in new
      BY <1>1, <1>2, <2>1, <3>1 DEF Known
    <3>2. CASE p \notin new
      <4>1. p \notin described[m]
        BY <1>5, <3>2 DEF dropped
      <4>2. p \in Of(m)
        BY <2>1 DEF Of
      <4>. QED BY <1>1, <1>5, <2>1, <3>2, <4>1, <4>2 DEF Known
    <3>. QED BY <3>1, <3>2
  <2>2. CASE ModuleOf[p] # m
    BY <1>1, <1>2, <1>5, <2>2 DEF Known
  <2>. QED BY <2>1, <2>2
<1>6. FreshTypeOK'
  <2>1. described' \in [Modules -> SUBSET Params] /\ adrift' \subseteq Params
    BY <1>1, <1>2 DEF FreshInv, FreshTypeOK
  <2>2. DOMAIN rows' \subseteq Rows /\ \A r \in DOMAIN rows' : rows'[r] \in RowType
    BY <1>3 DEF Typed
  <2>. QED BY <1>1, <2>1, <2>2 DEF FreshInv, FreshTypeOK, Range
<1>7. OneRowPerReading' /\ HomesInv'
  BY <1>1, <1>3 DEF FreshInv, OneRowPerReading, HomesInv
<1>8. PageInv'
  <2>1. \A r \in inventory : r \notin dropped
    BY <1>2 DEF FreshInv, FreshTypeOK
  <2>. QED BY <1>1, <1>3, <2>1 DEF FreshInv, PageInv
<1>9. OwnerInv'
  <2>1. \A r \in DOMAIN rows' : r \in DOMAIN rows /\ (rows'[r].shown => rows[r].shown)
    BY <1>3
  <2>. QED BY <1>1, <1>3, <2>1 DEF FreshInv, OwnerInv
<1>10. TracedInv'
  <2>1. \A n \in Modules : described'[n] \subseteq Of(n)
    BY <1>1, <1>2 DEF FreshInv, TracedInv
  <2>2. ASSUME NEW r \in DOMAIN rows', r \in Params PROVE Known(r)'
    BY <1>3, <1>5, <2>2 DEF FreshInv, TracedInv
  <2>3. ASSUME NEW p \in DOMAIN merged, merged[p] \in DOMAIN rows',
               rows'[merged[p]].shown, rows'[merged[p]].misses = DeadAfter,
               rows'[merged[p]].mod = ModuleOf[p]
        PROVE  Known(p)'
    <3>1. /\ merged[p] \notin left /\ rows'[merged[p]] = rows[merged[p]]
          /\ merged[p] \in DOMAIN rows /\ merged[p] \notin dropped
      BY <1>3, <1>4, <2>3
    <3>2. p \in Params /\ Known(p)
      BY <2>3, <3>1 DEF FreshInv, TracedInv, FreshTypeOK
    <3>3. p \notin dropped
      BY <3>1 DEF left, RowOf
    <3>. QED BY <1>5, <3>2, <3>3
  <2>. QED BY <1>1, <2>1, <2>2, <2>3 DEF TracedInv
<1>11. ASSUME AgeInv, SomethingIsDescribed' PROVE AgeInv'
  <2>1. Described' # {}
    BY <1>1, <1>2 DEF Described
  <2>2. ASSUME NEW r \in DOMAIN rows', Alone(r)'
        PROVE  r \in DOMAIN rows /\ rows'[r] = rows[r] /\ Alone(r)
    <3>1. rows'[r].shown /\ ~(rows'[r].misses < DeadAfter) /\ ~rows'[r].week
      BY <2>2 DEF Alone, Vouched
    <3>2. rows'[r].misses = DeadAfter
      BY <1>3, <3>1, RowIs DEF Typed
    <3>3. rows'[r] = rows[r] /\ r \in DOMAIN rows
      BY <1>4, <3>1, <3>2
    <3>4. \A p : RowOf(p)' = RowOf(p)
      BY <1>1 DEF RowOf
    <3>. QED BY <1>1, <2>2, <3>3, <3>4 DEF Alone, Vouched, BackWithoutIt
  <2>. QED BY <1>1, <1>11, <2>1, <2>2 DEF FreshInv, AgeInv
<1>. QED BY <1>6, <1>7, <1>8, <1>9, <1>10, <1>11 DEF FreshInv, FreshKept

LEMMA ListKeeps ==
    ASSUME FreshInv, NEW m \in Modules,
           DropModule(m) \/ ListModule(m)
    PROVE  FreshKept
<1>. USE GivenRows
<1>1. UNCHANGED <<at, adrift, rows, merged, inventory, failedScrapes, lastRead, answered, settled>>
  BY DEF DropModule, ListModule, stamps
<1>2. /\ described \in [Modules -> SUBSET Params] /\ listed \subseteq Modules
      /\ \A n \in Modules : described[n] \subseteq Of(n)
  BY DEF FreshInv, FreshTypeOK, TracedInv
<1>3. /\ listed' \subseteq Modules /\ described' \in [Modules -> SUBSET Params]
      /\ \A n \in Modules : described'[n] = described[n] \/ described'[n] = {}
  BY <1>2 DEF DropModule, ListModule
<1>4. FreshTypeOK'
  BY <1>1, <1>3 DEF FreshInv, FreshTypeOK, Range
<1>5. OneRowPerReading' /\ HomesInv' /\ PageInv' /\ OwnerInv'
  BY <1>1 DEF FreshInv, OneRowPerReading, HomesInv, PageInv, OwnerInv
<1>6. \A p \in Params : Known(p) => Known(p)'
  BY <1>1, <1>3 DEF Known
<1>7. TracedInv'
  BY <1>1, <1>2, <1>3, <1>6 DEF FreshInv, TracedInv, FreshTypeOK
<1>8. ASSUME AgeInv, SomethingIsDescribed' PROVE AgeInv'
  <2>1. \A r : Alone(r)' <=> Alone(r)
    BY <1>1 DEF Alone, Vouched, BackWithoutIt, RowOf
  <2>. QED BY <1>1, <1>8, <2>1 DEF AgeInv, SomethingIsDescribed
<1>. QED BY <1>4, <1>5, <1>7, <1>8 DEF FreshInv, FreshKept

LEMMA WriteKeeps ==
    ASSUME FreshInv, NEW c \in Controls, Write(c)
    PROVE  FreshKept
<1>. USE GivenRows
<1>1. /\ UNCHANGED <<at, listed, described, adrift, merged, inventory, failedScrapes,
                     lastRead, answered, settled>>
      /\ c \in DOMAIN rows /\ c \in Params
      /\ rows' = [rows EXCEPT ![c].shown = TRUE, ![c].age = 0]
  BY DEF Write, lists, stamps
<1>2. /\ DOMAIN rows' = DOMAIN rows /\ Typed(rows')
      /\ \A r \in DOMAIN rows : r # c => rows'[r] = rows[r]
      /\ rows'[c].mod = rows[c].mod /\ rows'[c].misses = rows[c].misses
      /\ rows'[c].age = 0
  <2>1. PICK row \in RowType : row = rows[c]
    BY <1>1 DEF FreshInv, FreshTypeOK
  <2>2. rows'[c] = [row EXCEPT !.shown = TRUE, !.age = 0]
    BY <1>1, <2>1
  <2>3. /\ rows'[c] \in RowType /\ rows'[c].mod = row.mod
        /\ rows'[c].misses = row.misses /\ rows'[c].age = 0
    <3>1. 0 \in 0..LongestAge
      OBVIOUS
    <3>. QED BY <2>2, <3>1 DEF RowType
  <2>4. DOMAIN rows' = DOMAIN rows /\ \A r \in DOMAIN rows : r # c => rows'[r] = rows[r]
    BY <1>1
  <2>. QED BY <2>1, <2>3, <2>4 DEF Typed, FreshInv, FreshTypeOK
<1>3. \A p \in DOMAIN merged : merged[p] # c
  BY <1>1 DEF FreshInv, HomesInv, FreshTypeOK
<1>4. FreshTypeOK'
  BY <1>1, <1>2 DEF FreshInv, FreshTypeOK, Typed, Range
<1>5. OneRowPerReading' /\ HomesInv' /\ PageInv'
  BY <1>1, <1>2 DEF FreshInv, OneRowPerReading, HomesInv, PageInv
<1>6. OwnerInv'
  BY <1>1, <1>2 DEF FreshInv, OwnerInv
<1>7. TracedInv'
  <2>1. \A p : Known(p)' <=> Known(p)
    BY <1>1 DEF Known
  <2>. QED BY <1>1, <1>2, <1>3, <2>1 DEF FreshInv, TracedInv
<1>8. ASSUME AgeInv, SomethingIsDescribed' PROVE AgeInv'
  <2>1. Described' = Described /\ \A p : RowOf(p)' = RowOf(p)
    BY <1>1 DEF Described, RowOf
  <2>2. ASSUME NEW r \in DOMAIN rows, r # c PROVE Alone(r)' <=> Alone(r)
    BY <1>1, <1>2, <2>1, <2>2 DEF Alone, Vouched, BackWithoutIt
  <2>3. rows[c].mod \in Modules
    BY <1>1 DEF FreshInv, OwnerInv
  <2>4. answered[rows[c].mod] \in Nat /\ lastRead \in Nat
    BY <2>3 DEF FreshInv, FreshTypeOK
  <2>. QED BY <1>1, <1>2, <1>8, <2>1, <2>2, <2>4 DEF FreshInv, AgeInv
<1>. QED BY <1>4, <1>5, <1>6, <1>7, <1>8 DEF FreshInv, FreshKept

-----------------------------------------------------------------------------
(* The value read *)

New(said) == said \ (Controls \cup DOMAIN merged)
MapOf(said, f) ==
    [p \in DOMAIN merged \cup New(said) |-> IF p \in New(said) THEN f[p] ELSE merged[p]]
Target(map, p) == IF p \in Controls THEN p ELSE map[p]
Moved(said, map) == {p \in New(said) : map[p] # p}

(* The map a read leaves behind: the one before it, and one row for each   *)
(* new parameter.                                                          *)
MapIs(said, map) ==
    /\ DOMAIN map = DOMAIN merged \cup New(said)
    /\ \A p \in DOMAIN merged : map[p] = merged[p]
    /\ \A p \in DOMAIN map :
          /\ p \in Params /\ p \notin Controls
          /\ map[p] = p \/ (map[p] = Meant[p] /\ map[p] \in inventory /\ map[p] \in Scraped)
          /\ \A q \in DOMAIN map : map[p] = map[q] => p = q

LEMMA MapOfIs ==
    ASSUME FreshInv, NEW said \in SUBSET Params,
           NEW f \in Targets(New(said))
    PROVE  MapIs(said, MapOf(said, f))
<1>. USE GivenRows
<1>. DEFINE map == MapOf(said, f)
<1>1. /\ DOMAIN map = DOMAIN merged \cup New(said)
      /\ \A p \in New(said) : map[p] = f[p] /\ p \notin DOMAIN merged
                              /\ p \in Params /\ p \notin Controls
      /\ \A p \in DOMAIN merged : map[p] = merged[p] /\ p \in Params
  BY DEF MapOf, New, FreshInv, FreshTypeOK
<1>2. /\ \A p \in New(said) : f[p] = p \/ (Free(p) /\ f[p] = Meant[p])
      /\ \A p, q \in New(said) : f[p] = f[q] => p = q
  BY DEF Targets
<1>. HIDE DEF map
<1>3. inventory \subseteq Scraped
  BY DEF FreshInv, FreshTypeOK
<1>4. ASSUME NEW p \in DOMAIN map
      PROVE  /\ p \in Params /\ p \notin Controls
             /\ map[p] = p \/ (map[p] = Meant[p] /\ map[p] \in inventory /\ map[p] \in Scraped)
  <2>1. CASE p \in DOMAIN merged
    BY <1>1, <1>3, <2>1 DEF FreshInv, HomesInv
  <2>2. CASE p \in New(said)
    BY <1>1, <1>2, <1>3, <2>2 DEF Free
  <2>. QED BY <1>1, <2>1, <2>2
<1>5. ASSUME NEW p \in DOMAIN merged, NEW q \in New(said), map[p] = map[q] PROVE FALSE
  <2>1. CASE map[q] = q
    BY <1>1, <1>4, <1>5, <2>1
  <2>2. CASE map[q] = Meant[q] /\ Free(q)
    BY <1>1, <1>5, <2>2 DEF Free
  <2>. QED BY <1>1, <1>2, <2>1, <2>2
<1>6. ASSUME NEW p \in DOMAIN map, NEW q \in DOMAIN map, map[p] = map[q] PROVE p = q
  <2>1. CASE p \in DOMAIN merged /\ q \in DOMAIN merged
    BY <1>1, <1>6, <2>1 DEF FreshInv, OneRowPerReading
  <2>2. CASE p \in New(said) /\ q \in New(said)
    BY <1>1, <1>2, <1>6, <2>2
  <2>. QED BY <1>1, <1>5, <1>6, <2>1, <2>2
<1>7. MapIs(said, map)
  BY <1>1, <1>4, <1>6 DEF MapIs
<1>. QED BY <1>7 DEF map

LEMMA TargetIs ==
    ASSUME FreshInv, NEW said \in SUBSET Params,
           NEW map, MapIs(said, map)
    PROVE  /\ \A p \in said :
                 /\ p \notin Controls => p \in DOMAIN map
                 /\ Target(map, p) = p \/ /\ Target(map, p) \in inventory
                                          /\ Target(map, p) \in Scraped
                 /\ \A q \in said : Target(map, p) = Target(map, q) => p = q
           /\ Moved(said, map) \subseteq Params
           /\ \A p \in DOMAIN map, q \in said : map[p] = Target(map, q) => p = q
<1>. USE GivenRows
<1>1. \A p \in said : p \notin Controls => p \in DOMAIN map
  BY DEF MapIs, New
<1>2. \A p \in said : Target(map, p) = p \/ /\ Target(map, p) \in inventory
                                            /\ Target(map, p) \in Scraped
  BY <1>1 DEF MapIs, Target
<1>3. ASSUME NEW p \in said, NEW q \in said, Target(map, p) = Target(map, q) PROVE p = q
  BY <1>1, <1>2, <1>3 DEF MapIs, Target
<1>4. ASSUME NEW p \in DOMAIN map, NEW q \in said, map[p] = Target(map, q) PROVE p = q
  BY <1>1, <1>2, <1>4 DEF MapIs, Target
<1>5. Moved(said, map) \subseteq Params
  BY DEF Moved, New
<1>. QED BY <1>1, <1>2, <1>3, <1>4, <1>5

LEMMA WrittenIs ==
    ASSUME FreshInv, NEW r \in Rows, NEW p \in Params, NEW empty,
           NEW own \in BOOLEAN, own => p \in DOMAIN rows
    PROVE  LET w == Written(r, p, own, empty)
           IN /\ w \in RowType /\ w.mod = ModuleOf[p]
              /\ p \notin empty => w.shown /\ w.age = 0
              /\ p \in empty => (w.shown => ScrapeFeeds(r) /\ r \in DOMAIN rows)
              /\ p \in empty /\ r \in DOMAIN rows /\ rows[r].shown /\ ScrapeFeeds(r) => w.shown
              /\ r \in DOMAIN rows => w.misses = rows[r].misses
              /\ r \notin DOMAIN rows => w.misses = DeadAfter
<1>. USE GivenRows
<1>. DEFINE old == IF r \in DOMAIN rows THEN rows[r]
                   ELSE [shown |-> FALSE, mod |-> NoRow, week |-> FALSE, age |-> 0,
                         misses |-> DeadAfter]
            w == Written(r, p, own, empty)
<1>1. /\ old \in RowType
      /\ r \in DOMAIN rows => old.misses = rows[r].misses /\ old.shown = rows[r].shown
      /\ r \notin DOMAIN rows => old.misses = DeadAfter /\ ~old.shown
  <2>1. CASE r \in DOMAIN rows
    BY <2>1 DEF FreshInv, FreshTypeOK
  <2>2. CASE r \notin DOMAIN rows
    <3>1. 0 \in 0..LongestAge /\ DeadAfter \in 0..DeadAfter
      OBVIOUS
    <3>. QED BY <2>2, <3>1 DEF RowType
  <2>. QED BY <2>1, <2>2
<1>2. w = [old EXCEPT !.shown = IF p \notin empty THEN TRUE ELSE old.shown /\ ScrapeFeeds(r),
                      !.mod = ModuleOf[p],
                      !.week = old.week \/ (own /\ rows[p].week),
                      !.age = IF p \notin empty THEN 0 ELSE old.age]
  BY DEF Written
<1>. HIDE DEF old, w
<1>3. own => rows[p].week \in BOOLEAN
  BY RowIs DEF FreshInv, FreshTypeOK
<1>4. old.shown \in BOOLEAN /\ old.week \in BOOLEAN /\ old.age \in 0..LongestAge
  BY <1>1 DEF RowType
<1>5. PICK s \in BOOLEAN : s <=> IF p \notin empty THEN TRUE ELSE old.shown /\ ScrapeFeeds(r)
  OBVIOUS
<1>6. PICK k \in BOOLEAN : k <=> old.week \/ (own /\ rows[p].week)
  OBVIOUS
<1>7. PICK a \in 0..LongestAge : a = IF p \notin empty THEN 0 ELSE old.age
  BY <1>4
<1>8. w = [old EXCEPT !.shown = s, !.mod = ModuleOf[p], !.week = k, !.age = a]
  <2>1. s = IF p \notin empty THEN TRUE ELSE old.shown /\ ScrapeFeeds(r)
    BY <1>4, <1>5
  <2>2. k = (old.week \/ (own /\ rows[p].week))
    BY <1>3, <1>4, <1>6
  <2>. QED BY <1>2, <1>7, <2>1, <2>2
<1>9. /\ w \in RowType /\ w.shown = s /\ w.mod = ModuleOf[p] /\ w.age = a
      /\ w.misses = old.misses
  BY <1>1, <1>8 DEF RowType
<1>10. /\ p \notin empty => w.shown /\ w.age = 0
       /\ p \in empty => (w.shown => ScrapeFeeds(r) /\ r \in DOMAIN rows)
       /\ p \in empty /\ r \in DOMAIN rows /\ rows[r].shown /\ ScrapeFeeds(r) => w.shown
  BY <1>1, <1>5, <1>7, <1>9
<1>11. /\ r \in DOMAIN rows => w.misses = rows[r].misses
       /\ r \notin DOMAIN rows => w.misses = DeadAfter
  BY <1>1, <1>9
<1>12. Written(r, p, own, empty) = w
  BY DEF w
<1>. QED BY <1>9, <1>10, <1>11, <1>12

(* The rows the answer leaves, before anything is taken down: those of the *)
(* answered parameters, and what was there of the others.                  *)
Placed(said, empty, map, W) ==
    /\ Typed(W)
    /\ DOMAIN W = (DOMAIN rows \ Moved(said, map)) \cup {Target(map, p) : p \in said}
    /\ \A p \in said :
          LET r == Target(map, p)
          IN /\ W[r].mod = ModuleOf[p]
             /\ p \notin empty => W[r].shown /\ W[r].age = 0
             /\ p \in empty => (W[r].shown => ScrapeFeeds(r) /\ r \in DOMAIN rows)
             /\ p \in empty /\ r \in DOMAIN rows /\ rows[r].shown /\ ScrapeFeeds(r)
                   => W[r].shown
             /\ r \in DOMAIN rows => W[r].misses = rows[r].misses
             /\ r \notin DOMAIN rows => W[r].misses = DeadAfter
    /\ \A r \in DOMAIN W : r \notin {Target(map, p) : p \in said} =>
          r \in DOMAIN rows /\ W[r] = rows[r]

LEMMA MappedIs ==
    ASSUME FreshInv, NEW said \in SUBSET Params, NEW empty,
           NEW map, MapIs(said, map)
    PROVE  Placed(said, empty, map, Mapped(said, empty, map, New(said)))
<1>. USE GivenRows
<1>. DEFINE W == Mapped(said, empty, map, New(said))
            target == [p \in said |-> IF p \in Controls THEN p ELSE map[p]]
            moved == {p \in New(said) : map[p] # p}
            from(r) == CHOOSE p \in said : target[p] = r
            places == {Target(map, p) : p \in said}
<1>1. Range(target) = places /\ moved = Moved(said, map)
  BY DEF Range, Target, Moved
<1>2. W = [r \in (DOMAIN rows \ moved) \cup Range(target) |->
              IF r \in Range(target)
              THEN Written(r, from(r), from(r) \in moved \cap DOMAIN rows, empty)
              ELSE rows[r]]
  BY DEF Mapped
<1>3. ASSUME NEW p \in said PROVE from(Target(map, p)) = p
  <2>1. target[p] = Target(map, p)
    BY DEF Target
  <2>2. \A q \in said : target[q] = Target(map, p) => q = p
    <3>1. \A q \in said : target[q] = Target(map, q)
      BY DEF Target
    <3>2. \A q \in said : Target(map, q) = Target(map, p) => q = p
      BY TargetIs
    <3>. QED BY <3>1, <3>2
  <2>. QED BY <2>1, <2>2
<1>. HIDE DEF target, moved, from, W
<1>4. DOMAIN W = (DOMAIN rows \ Moved(said, map)) \cup places
  BY <1>1, <1>2
<1>5. ASSUME NEW p \in said
      PROVE  LET r == Target(map, p)
             IN /\ W[r] \in RowType /\ r \in Rows
                /\ W[r].mod = ModuleOf[p]
                /\ p \notin empty => W[r].shown /\ W[r].age = 0
                /\ p \in empty => (W[r].shown => ScrapeFeeds(r) /\ r \in DOMAIN rows)
                /\ p \in empty /\ r \in DOMAIN rows /\ rows[r].shown /\ ScrapeFeeds(r)
                      => W[r].shown
                /\ r \in DOMAIN rows => W[r].misses = rows[r].misses
                /\ r \notin DOMAIN rows => W[r].misses = DeadAfter
  <2>. DEFINE r == Target(map, p)
  <2>1. r \in Rows /\ r \in places
    <3>1. p \in Params /\ inventory \subseteq Rows
      BY DEF FreshInv, FreshTypeOK
    <3>2. r = p \/ r \in inventory
      BY TargetIs
    <3>. QED BY <3>1, <3>2
  <2>2. PICK own \in BOOLEAN : own = (p \in moved \cap DOMAIN rows)
    <3>1. (p \in moved \cap DOMAIN rows) \in BOOLEAN
      OBVIOUS
    <3>. QED BY <3>1
  <2>3. from(r) = p
    BY <1>3
  <2>4. W[r] = Written(r, p, own, empty)
    BY <1>1, <1>2, <2>1, <2>2, <2>3
  <2>5. own => p \in DOMAIN rows
    BY <2>2
  <2>. HIDE DEF r
  <2>6. /\ W[r] \in RowType /\ W[r].mod = ModuleOf[p]
        /\ p \notin empty => W[r].shown /\ W[r].age = 0
        /\ p \in empty => (W[r].shown => ScrapeFeeds(r) /\ r \in DOMAIN rows)
        /\ p \in empty /\ r \in DOMAIN rows /\ rows[r].shown /\ ScrapeFeeds(r) => W[r].shown
        /\ r \in DOMAIN rows => W[r].misses = rows[r].misses
        /\ r \notin DOMAIN rows => W[r].misses = DeadAfter
    BY <2>1, <2>4, <2>5, WrittenIs
  <2>. QED BY <2>1, <2>6 DEF r
<1>6. ASSUME NEW r \in DOMAIN W, r \notin places
      PROVE  r \in DOMAIN rows /\ W[r] = rows[r]
  BY <1>1, <1>2, <1>4, <1>6
<1>7. Typed(W)
  <2>1. \A r \in places : W[r] \in RowType /\ r \in Rows
    BY <1>5
  <2>. QED BY <1>4, <1>6, <2>1 DEF Typed, FreshInv, FreshTypeOK
<1>8. Mapped(said, empty, map, New(said)) = W
  BY DEF W
<1>. QED BY <1>4, <1>5, <1>6, <1>7, <1>8 DEF Placed

(* What a working read does, put in one place: which modules answered,     *)
(* where their values went, and which rows were taken down after that.     *)
Answering(modules, said) ==
    /\ modules \subseteq listed /\ modules \subseteq Modules
    /\ \A m \in modules : described[m] # {}
    /\ said \subseteq UNION {described[m] : m \in modules} /\ said \subseteq Params

TakenDown(W, unanswered, silent) ==
    /\ Typed(W) /\ DOMAIN rows' = DOMAIN W /\ Typed(rows')
    /\ \A r \in DOMAIN W :
          /\ rows'[r].shown <=> /\ W[r].shown /\ r \notin unanswered
                                /\ \A m \in Modules : r \notin silent[m]
          /\ rows'[r].mod = W[r].mod /\ rows'[r].week = W[r].week
          /\ rows'[r].age = W[r].age /\ rows'[r].misses = W[r].misses

LeftOut(modules, said, map, W, unanswered) ==
    \A r \in DOMAIN W : r \in unanswered <=>
        /\ \E p \in (UNION {described[m] : m \in modules}) \ said :
              r = IF p \in DOMAIN map THEN map[p] ELSE p
        /\ ~ScrapeFeeds(r) /\ ~(W[r].shown /\ W[r].week)

Stamp(modules, m) == IF m \in modules THEN 0 ELSE answered[m]
Fresh(modules, m) == Stamp(modules, m) = NeverRead \/ Stamp(modules, m) < StaleAfter

FellSilent(modules, W, unanswered, silent) ==
    \A m \in Modules :
        /\ Fresh(modules, m) => silent[m] = {}
        /\ ~Fresh(modules, m) => \A r \in DOMAIN W : r \in silent[m] <=>
              /\ W[r].shown /\ r \notin unanswered /\ W[r].mod = m
              /\ ~ScrapeFeeds(r) /\ ~(m \in listed /\ W[r].week)
        /\ answered'[m] = IF silent[m] # {} THEN 0 ELSE Stamp(modules, m)

ReadEnds(modules) ==
    /\ answered' = [m \in Modules |-> answered'[m]]
    /\ lastRead' = 0 /\ at' = "schedules" /\ settled' = TRUE
    /\ adrift' = adrift \ UNION {described[m] : m \in modules}
    /\ UNCHANGED <<listed, described, inventory, failedScrapes>>

ReadDoes(modules, said, map, W, unanswered, silent) ==
    /\ Answering(modules, said) /\ MapIs(said, map) /\ merged' = map
    /\ TakenDown(W, unanswered, silent) /\ LeftOut(modules, said, map, W, unanswered)
    /\ FellSilent(modules, W, unanswered, silent) /\ ReadEnds(modules)

LEMMA ReadWorksDoes ==
    ASSUME FreshInv, NEW modules \in SUBSET listed,
           NEW said \in SUBSET UNION {described[m] : m \in modules}, NEW empty,
           ReadWorks(modules, said, empty)
    PROVE  \E map, unanswered, silent :
              ReadDoes(modules, said, map, Mapped(said, empty, map, New(said)),
                       unanswered, silent)
<1>. USE GivenRows
<1>1. /\ modules \subseteq Modules /\ said \in SUBSET Params
      /\ described \in [Modules -> SUBSET Params]
  BY DEF FreshInv, FreshTypeOK
<1>2. PICK f \in Targets(New(said)) :
         LET map == MapOf(said, f)
             written == Mapped(said, empty, map, New(said))
             cleared == Blank(written, Unanswered(written, modules, said, map))
             stamp == [m \in Modules |-> IF m \in modules THEN 0 ELSE answered[m]]
             silent == Silent(cleared, stamp)
         IN /\ merged' = map
            /\ rows' = Blank(cleared, UNION Range(silent))
            /\ answered' = [m \in Modules |-> IF silent[m] # {} THEN 0 ELSE stamp[m]]
  BY DEF ReadWorks, New, MapOf
<1>. DEFINE map == MapOf(said, f)
            W == Mapped(said, empty, map, New(said))
            unanswered == Unanswered(W, modules, said, map)
            cleared == Blank(W, unanswered)
            stamp == [m \in Modules |-> IF m \in modules THEN 0 ELSE answered[m]]
            silent == Silent(cleared, stamp)
<1>3. MapIs(said, map)
  BY <1>1, MapOfIs
<1>4. /\ merged' = map /\ rows' = Blank(cleared, UNION Range(silent))
      /\ answered' = [m \in Modules |-> IF silent[m] # {} THEN 0 ELSE stamp[m]]
  BY <1>2
<1>5. /\ \A m \in modules : described[m] # {}
      /\ lastRead' = 0 /\ at' = "schedules" /\ settled' = TRUE
      /\ adrift' = adrift \ UNION {described[m] : m \in modules}
      /\ UNCHANGED <<listed, described, inventory, failedScrapes>>
  BY DEF ReadWorks
<1>. HIDE DEF map
<1>6. Typed(W)
  BY <1>1, <1>3, MappedIs DEF Placed
<1>. HIDE DEF W
<1>7. /\ Typed(cleared) /\ DOMAIN cleared = DOMAIN W
      /\ \A r \in DOMAIN W :
            /\ cleared[r].shown <=> W[r].shown /\ r \notin unanswered
            /\ cleared[r].mod = W[r].mod /\ cleared[r].week = W[r].week
            /\ cleared[r].age = W[r].age /\ cleared[r].misses = W[r].misses
  BY <1>6, BlankIs
<1>8. LeftOut(modules, said, map, W, unanswered)
  BY DEF Unanswered, ScheduleFeeds, LeftOut
<1>. HIDE DEF unanswered, cleared
<1>9. ASSUME NEW m \in Modules
      PROVE  /\ stamp[m] = Stamp(modules, m)
             /\ Fresh(modules, m) => silent[m] = {}
             /\ ~Fresh(modules, m) => \A r \in DOMAIN W : r \in silent[m] <=>
                   /\ W[r].shown /\ r \notin unanswered /\ W[r].mod = m
                   /\ ~ScrapeFeeds(r) /\ ~(m \in listed /\ W[r].week)
  <2>1. stamp[m] = Stamp(modules, m)
    BY DEF Stamp
  <2>2. Fresh(modules, m) => silent[m] = {}
    BY <2>1 DEF Silent, Fresh
  <2>3. ~Fresh(modules, m) => silent[m] = RowsOwned(cleared, m)
    BY <2>1 DEF Silent, Fresh
  <2>4. \A r \in DOMAIN W : r \in RowsOwned(cleared, m) <=>
                      /\ W[r].shown /\ r \notin unanswered /\ W[r].mod = m
                      /\ ~ScrapeFeeds(r) /\ ~(m \in listed /\ W[r].week)
    BY <1>7 DEF RowsOwned, Shown, OwnedElsewhere, ScheduleFeeds
  <2>. QED BY <2>1, <2>2, <2>3, <2>4
<1>10. DOMAIN silent = Modules
  BY DEF Silent
<1>11. \A r : r \in UNION Range(silent) <=> \E m \in Modules : r \in silent[m]
  BY SMTT(40), <1>10 DEF Range
<1>. HIDE DEF stamp, silent
<1>12. TakenDown(W, unanswered, silent)
  <2>. DEFINE all == UNION Range(silent)
  <2>1. rows' = Blank(cleared, all)
    BY <1>4
  <2>. HIDE DEF all
  <2>2. /\ Typed(Blank(cleared, all)) /\ DOMAIN Blank(cleared, all) = DOMAIN cleared
        /\ \A r \in DOMAIN cleared :
              /\ Blank(cleared, all)[r].shown <=> cleared[r].shown /\ r \notin all
              /\ Blank(cleared, all)[r].mod = cleared[r].mod
              /\ Blank(cleared, all)[r].week = cleared[r].week
              /\ Blank(cleared, all)[r].age = cleared[r].age
              /\ Blank(cleared, all)[r].misses = cleared[r].misses
    BY <1>7, BlankIs
  <2>3. \A r : r \in all <=> \E m \in Modules : r \in silent[m]
    BY <1>11 DEF all
  <2>. QED BY <1>6, <1>7, <2>1, <2>2, <2>3 DEF TakenDown
<1>13. FellSilent(modules, W, unanswered, silent)
  <2>1. \A m \in Modules : answered'[m] = IF silent[m] # {} THEN 0 ELSE stamp[m]
    BY <1>4
  <2>. QED BY <1>9, <2>1 DEF FellSilent
<1>14. ReadEnds(modules)
  <2>1. answered' = [m \in Modules |-> answered'[m]]
    BY <1>4
  <2>. QED BY <1>5, <2>1 DEF ReadEnds
<1>15. Answering(modules, said)
  BY <1>1, <1>5 DEF Answering
<1>16. ReadDoes(modules, said, map, W, unanswered, silent)
  BY <1>3, <1>4, <1>8, <1>12, <1>13, <1>14, <1>15 DEF ReadDoes
<1>. QED BY <1>16 DEF W

LEMMA ReadWorksKeeps ==
    ASSUME FreshInv, NEW modules \in SUBSET listed,
           NEW said \in SUBSET UNION {described[m] : m \in modules}, NEW empty,
           ReadWorks(modules, said, empty)
    PROVE  FreshKept
<1>. USE GivenRows
<1>. DEFINE asked == UNION {described[m] : m \in modules}
<1>1. PICK map, unanswered, silent :
         ReadDoes(modules, said, map, Mapped(said, empty, map, New(said)), unanswered, silent)
  BY ReadWorksDoes
<1>. DEFINE W == Mapped(said, empty, map, New(said))
            places == {Target(map, p) : p \in said}
<1>2. /\ Answering(modules, said) /\ MapIs(said, map) /\ merged' = map
      /\ TakenDown(W, unanswered, silent) /\ LeftOut(modules, said, map, W, unanswered)
      /\ FellSilent(modules, W, unanswered, silent) /\ ReadEnds(modules)
  BY <1>1 DEF ReadDoes
<1>3. said \in SUBSET Params /\ said \subseteq asked /\ modules \subseteq Modules
  BY <1>2 DEF Answering
<1>4. /\ DOMAIN W = (DOMAIN rows \ Moved(said, map)) \cup places
      /\ \A p \in said :
            LET r == Target(map, p)
            IN /\ W[r].mod = ModuleOf[p]
               /\ p \notin empty => W[r].shown /\ W[r].age = 0
               /\ p \in empty => (W[r].shown => ScrapeFeeds(r) /\ r \in DOMAIN rows)
               /\ p \in empty /\ r \in DOMAIN rows /\ rows[r].shown /\ ScrapeFeeds(r)
                     => W[r].shown
               /\ r \in DOMAIN rows => W[r].misses = rows[r].misses
               /\ r \notin DOMAIN rows => W[r].misses = DeadAfter
      /\ \A r \in DOMAIN W : r \notin places => r \in DOMAIN rows /\ W[r] = rows[r]
  <2>1. Placed(said, empty, map, W)
    BY <1>2, <1>3, MappedIs
  <2>. HIDE DEF W
  <2>. QED BY <2>1 DEF Placed
<1>5. /\ \A p \in said :
            /\ p \notin Controls => p \in DOMAIN map
            /\ Target(map, p) = p \/ /\ Target(map, p) \in inventory
                                     /\ Target(map, p) \in Scraped
            /\ \A q \in said : Target(map, p) = Target(map, q) => p = q
      /\ Moved(said, map) \subseteq Params
      /\ \A p \in DOMAIN map, q \in said : map[p] = Target(map, q) => p = q
  BY <1>2, <1>3, TargetIs
<1>6. /\ DOMAIN map = DOMAIN merged \cup New(said)
      /\ \A p \in DOMAIN merged : map[p] = merged[p]
      /\ \A p \in DOMAIN map :
          /\ p \in Params /\ p \notin Controls
          /\ map[p] = p \/ (map[p] = Meant[p] /\ map[p] \in inventory /\ map[p] \in Scraped)
          /\ \A q \in DOMAIN map : map[p] = map[q] => p = q
  BY <1>2 DEF MapIs
<1>. HIDE DEF W
<1>7. /\ Typed(W) /\ DOMAIN rows' = DOMAIN W /\ Typed(rows')
      /\ \A r \in DOMAIN W :
          /\ rows'[r].shown <=> /\ W[r].shown /\ r \notin unanswered
                                /\ \A m \in Modules : r \notin silent[m]
          /\ rows'[r].mod = W[r].mod /\ rows'[r].week = W[r].week
          /\ rows'[r].age = W[r].age /\ rows'[r].misses = W[r].misses
  BY <1>2 DEF TakenDown
<1>8. /\ answered' = [m \in Modules |-> answered'[m]]
      /\ lastRead' = 0 /\ at' = "schedules" /\ settled' = TRUE
      /\ adrift' = adrift \ asked
      /\ UNCHANGED <<listed, described, inventory, failedScrapes>>
  BY <1>2 DEF ReadEnds
<1>9. \A m \in Modules : /\ described[m] \subseteq Of(m) /\ described[m] \subseteq Params
                           /\ answered[m] \in 0..NeverRead
  BY DEF FreshInv, TracedInv, FreshTypeOK
<1>10. \A p \in asked : /\ p \in Params /\ ModuleOf[p] \in modules
                        /\ p \in described[ModuleOf[p]]
  BY <1>3, <1>9 DEF Of
<1>11. ASSUME NEW m \in Modules
       PROVE  /\ answered'[m] \in 0..NeverRead
              /\ m \in modules => answered'[m] = 0
              /\ answered[m] # NeverRead => answered'[m] # NeverRead
  <2>1. answered'[m] = 0 \/ answered'[m] = Stamp(modules, m)
    BY <1>2 DEF FellSilent
  <2>. QED BY <1>9, <2>1 DEF Stamp
<1>12. ASSUME NEW p \in Params, Known(p) PROVE Known(p)'
  <2>1. p \in asked => p \in described[ModuleOf[p]]
    BY <1>10
  <2>. QED BY <1>8, <1>12, <2>1 DEF Known
<1>13. FreshTypeOK'
  <2>1. answered' \in [Modules -> 0..NeverRead]
    BY <1>8, <1>11
  <2>2. DOMAIN merged' \subseteq Params /\ Range(merged') \subseteq Rows
    BY <1>2, <1>6 DEF Range
  <2>3. DOMAIN rows' \subseteq Rows /\ \A r \in DOMAIN rows' : rows'[r] \in RowType
    BY <1>7 DEF Typed
  <2>4. lastRead' \in 0..NeverRead /\ adrift' \subseteq Params
    BY <1>8 DEF FreshInv, FreshTypeOK
  <2>. QED BY <1>8, <2>1, <2>2, <2>3, <2>4 DEF FreshInv, FreshTypeOK
<1>14. OneRowPerReading'
  <2>. SUFFICES ASSUME NEW p \in DOMAIN map, map[p] # p PROVE p \notin DOMAIN W
    BY <1>2, <1>6, <1>7 DEF OneRowPerReading
  <2>1. p \notin places
    <3>. SUFFICES ASSUME NEW q \in said, p = Target(map, q) PROVE FALSE
      OBVIOUS
    <3>1. q = p
      BY <1>5, <1>6
    <3>. QED BY <1>6, <3>1 DEF Target
  <2>2. CASE p \in DOMAIN merged
    BY <1>4, <1>6, <2>1, <2>2 DEF FreshInv, OneRowPerReading
  <2>3. CASE p \in New(said)
    BY <1>4, <2>1, <2>3 DEF Moved
  <2>. QED BY <1>6, <2>2, <2>3
<1>15. HomesInv'
  BY <1>2, <1>6, <1>8 DEF HomesInv
(* A row of the answered parameters keeps its misses; a new one has none.  *)
<1>16. ASSUME NEW r \in DOMAIN W
       PROVE  /\ r \in DOMAIN rows => W[r].misses = rows[r].misses
              /\ r \notin DOMAIN rows => W[r].misses = DeadAfter
  <2>1. CASE r \in places
    BY <1>4, <2>1
  <2>2. CASE r \notin places
    BY <1>4, <2>2
  <2>. QED BY <2>1, <2>2
<1>17. PageInv'
  <2>1. \A r \in inventory : r \in DOMAIN W
    BY <1>4, <1>5 DEF FreshInv, PageInv, FreshTypeOK
  <2>. QED BY <1>7, <1>8, <1>16, <2>1 DEF FreshInv, PageInv
<1>18. OwnerInv'
  <2>1. ASSUME NEW r \in DOMAIN W, r \in Params PROVE W[r].mod = ModuleOf[r]
    <3>1. CASE r \in places
      BY <1>4, <1>5, <2>1, <3>1
    <3>2. CASE r \notin places
      BY <1>4, <2>1, <3>2 DEF FreshInv, OwnerInv
    <3>. QED BY <3>1, <3>2
  <2>2. ASSUME NEW r \in DOMAIN W, r \in Scraped, rows'[r].shown
        PROVE  /\ r \in inventory
               /\ W[r].mod = NoRow => failedScrapes < DeadAfter
               /\ W[r].mod # NoRow => \E p \in DOMAIN map : map[p] = r /\ W[r].mod = ModuleOf[p]
    <3>1. CASE r \in places
      <4>1. PICK p \in said : r = Target(map, p)
        BY <3>1
      <4>2. r # p /\ r \in inventory /\ p \notin Controls
        BY <1>3, <1>5, <2>2, <4>1 DEF Target
      <4>3. p \in DOMAIN map /\ map[p] = r /\ W[r].mod = ModuleOf[p]
        BY <1>4, <1>5, <4>1, <4>2 DEF Target
      <4>. QED BY <1>3, <4>2, <4>3
    <3>2. CASE r \notin places
      <4>1. r \in DOMAIN rows /\ W[r] = rows[r] /\ rows[r].shown
        BY <1>4, <1>7, <2>2, <3>2
      <4>2. /\ r \in inventory
            /\ rows[r].mod = NoRow => failedScrapes < DeadAfter
            /\ rows[r].mod # NoRow =>
                  \E p \in DOMAIN merged : merged[p] = r /\ rows[r].mod = ModuleOf[p]
        BY <2>2, <4>1 DEF FreshInv, OwnerInv
      <4>. QED BY <1>6, <4>1, <4>2
    <3>. QED BY <3>1, <3>2
  <2>3. ASSUME NEW r \in DOMAIN W, W[r].mod # NoRow PROVE answered'[W[r].mod] # NeverRead
    <3>1. W[r].mod \in Modules
      BY <1>7, <2>3, RowIs DEF Typed
    <3>2. CASE r \in places
      <4>1. W[r].mod \in modules
        BY <1>3, <1>4, <1>10, <3>2
      <4>. QED BY <1>11, <3>1, <4>1
    <3>3. CASE r \notin places
      BY <1>4, <1>11, <2>3, <3>1, <3>3 DEF FreshInv, OwnerInv
    <3>. QED BY <3>2, <3>3
  <2>. QED BY <1>2, <1>7, <1>8, <2>1, <2>2, <2>3 DEF OwnerInv
<1>19. TracedInv'
  <2>1. ASSUME NEW p \in said PROVE Known(p)
    BY <1>3, <1>10, <2>1 DEF Known
  <2>2. ASSUME NEW r \in DOMAIN W, r \in Params PROVE Known(r)
    <3>1. CASE r \in places
      BY <1>5, <2>1, <2>2, <3>1
    <3>2. CASE r \notin places
      BY <1>4, <2>2, <3>2 DEF FreshInv, TracedInv
    <3>. QED BY <3>1, <3>2
  <2>3. ASSUME NEW p \in DOMAIN map, map[p] \in DOMAIN W, rows'[map[p]].shown,
               W[map[p]].misses = DeadAfter, W[map[p]].mod = ModuleOf[p]
        PROVE  Known(p)
    <3>1. CASE p \in said
      BY <2>1, <3>1
    <3>2. CASE map[p] = p
      BY <1>6, <2>2, <2>3, <3>2
    <3>3. CASE p \notin said /\ map[p] # p
      <4>1. map[p] \notin places
        BY <1>5, <3>3
      <4>2. map[p] \in DOMAIN rows /\ W[map[p]] = rows[map[p]] /\ rows[map[p]].shown
        BY <1>4, <1>7, <2>3, <4>1
      <4>3. p \in DOMAIN merged /\ map[p] = merged[p]
        BY <1>6, <3>3 DEF New
      <4>. QED BY <2>3, <4>2, <4>3 DEF FreshInv, TracedInv
    <3>. QED BY <3>1, <3>2, <3>3
  <2>. QED BY <1>2, <1>6, <1>7, <1>8, <1>9, <1>12, <2>2, <2>3 DEF TracedInv
<1>20. ASSUME AgeInv, SomethingIsDescribed' PROVE AgeInv'
  <2>1. Described' = Described
    BY <1>8 DEF Described
  <2>2. ASSUME NEW r \in DOMAIN W, Alone(r)'
        PROVE  /\ answered'[W[r].mod] < StaleAfter => W[r].age <= answered'[W[r].mod]
               /\ W[r].age <= StaleAfter - 1
    <3>1. rows'[r].shown /\ ~(rows'[r].misses < DeadAfter) /\ ~rows'[r].week
      BY <2>2 DEF Alone, Vouched
    <3>2. /\ W[r].shown /\ ~(W[r].misses < DeadAfter) /\ ~W[r].week
          /\ r \notin unanswered /\ \A m \in Modules : r \notin silent[m]
      BY <1>7, <3>1
    <3>3. CASE r \in places
      <4>1. PICK p \in said : r = Target(map, p)
        BY <3>3
      <4>2. p \notin empty
        <5>. SUFFICES ASSUME p \in empty PROVE FALSE
          OBVIOUS
        <5>1. ScrapeFeeds(r) /\ r \in DOMAIN rows
          BY <1>4, <3>2, <4>1
        <5>2. rows[r].misses < DeadAfter
          BY <5>1, MissesCount DEF FreshInv
        <5>. QED BY <1>16, <3>2, <5>1, <5>2
      <4>3. W[r].age = 0 /\ W[r].mod = ModuleOf[p]
        BY <1>4, <4>1, <4>2
      <4>4. answered'[W[r].mod] \in Nat
        BY <1>3, <1>11, <4>3
      <4>. QED BY <4>3, <4>4
    <3>4. CASE r \notin places
      <4>1. r \in DOMAIN rows /\ W[r] = rows[r]
        BY <1>4, <3>4
      <4>2. rows[r].shown /\ rows[r].misses = DeadAfter /\ ~ScrapeFeeds(r)
        BY <3>2, <4>1, MissesCount DEF FreshInv
      <4>3. PICK p \in Params : Owner(p, r) /\ Known(p)
        BY <4>1, <4>2, OwnerOf
      <4>. DEFINE m == ModuleOf[p]
      <4>4. m \in Modules /\ rows[r].mod = m
        BY <4>3 DEF Owner
      (* The owner is where it was, and only it is there.                  *)
      <4>5. (IF p \in DOMAIN map THEN map[p] ELSE p) = r
        <5>1. CASE r \in Params
          <6>1. p = r
            BY <4>3, <5>1 DEF Owner
          <6>. QED BY <1>2, <1>7, <1>14, <6>1 DEF OneRowPerReading
        <5>2. CASE r \notin Params
          BY <1>6, <4>3, <5>2 DEF Owner
        <5>. QED BY <5>1, <5>2
      <4>6. p \notin adrift'
        BY <1>2, <2>2, <4>5 DEF Alone, BackWithoutIt, RowOf
      <4>7. p \notin said
        <5>. SUFFICES ASSUME p \in said PROVE Target(map, p) = r
          BY <3>4
        <5>1. p \notin Controls => p \in DOMAIN map
          BY <1>5
        <5>. QED BY <1>6, <4>5, <5>1 DEF Target
      <4>8. p \notin asked
        <5>. SUFFICES ASSUME p \in asked PROVE r \in unanswered
          BY <3>2
        <5>. QED BY <1>2, <3>2, <4>2, <4>5, <4>7 DEF LeftOut
      <4>9. m \notin modules
        <5>. SUFFICES ASSUME m \in modules PROVE FALSE
          OBVIOUS
        <5>1. p \in described[m] \/ p \in adrift
          BY <1>2, <4>3 DEF Answering, Known
        <5>. QED BY <1>8, <4>6, <4>8, <5>1
      <4>10. Alone(r)
        <5>1. ASSUME NEW q \in adrift, r = RowOf(q) PROVE FALSE
          <6>1. q \in Params
            BY DEF FreshInv, FreshTypeOK
          <6>2. q = p
            BY <4>1, <4>3, <5>1, <6>1, OneOwner
          <6>. QED BY <1>8, <4>6, <4>8, <6>2
        <5>. QED BY <3>2, <4>1, <4>2, <5>1 DEF Alone, Vouched, BackWithoutIt
      <4>11. /\ answered[m] < StaleAfter => rows[r].age <= answered[m]
             /\ answered[m] \in 0..StaleAfter
        BY <1>20, <4>1, <4>4, <4>10, AloneIs DEF FreshInv, AgeInv
      <4>12. answered[m] < StaleAfter
        <5>. SUFFICES ASSUME ~(answered[m] < StaleAfter) PROVE r \in silent[m]
          BY <3>2, <4>4
        <5>1. ~Fresh(modules, m)
          BY <4>9, <4>11 DEF Fresh, Stamp
        <5>. QED BY <1>2, <3>2, <4>1, <4>2, <4>4, <5>1 DEF FellSilent
      <4>13. answered'[m] = answered[m]
        <5>1. Fresh(modules, m) /\ Stamp(modules, m) = answered[m]
          BY <4>9, <4>12 DEF Fresh, Stamp
        <5>. QED BY <1>2, <4>4, <5>1 DEF FellSilent
      <4>14. rows[r].age \in Nat
        BY <4>1, RowIs DEF FreshInv, FreshTypeOK
      <4>. QED BY <4>1, <4>4, <4>11, <4>12, <4>13, <4>14
    <3>. QED BY <3>3, <3>4
  <2>3. \A r \in DOMAIN W : W[r].age \in Nat
    BY <1>7, RowIs DEF Typed
  <2>4. \A r \in DOMAIN W : Alone(r)' =>
          /\ lastRead' < StaleAfter => W[r].age <= lastRead' + (StaleAfter - 1)
          /\ settled' => W[r].age <= 2 * (StaleAfter - 1)
    BY <1>8, <2>2, <2>3
  <2>. QED BY <1>7, <1>20, <2>1, <2>2, <2>4 DEF FreshInv, AgeInv
<1>. QED BY <1>13, <1>14, <1>15, <1>17, <1>18, <1>19, <1>20 DEF FreshInv, FreshKept

(* What the scrape still feeds shows on. *)
LEMMA ReadKeepsScraped ==
    ASSUME FreshInv, NEW modules \in SUBSET listed,
           NEW said \in SUBSET UNION {described[m] : m \in modules}, NEW empty,
           ReadWorks(modules, said, empty),
           NEW r \in DOMAIN rows, rows[r].shown, ScrapeFeeds(r), r \notin Params
    PROVE  r \in DOMAIN rows' /\ rows'[r].shown
<1>1. PICK map, unanswered, silent :
         ReadDoes(modules, said, map, Mapped(said, empty, map, New(said)), unanswered, silent)
  BY ReadWorksDoes
<1>. DEFINE W == Mapped(said, empty, map, New(said))
            places == {Target(map, p) : p \in said}
<1>2. /\ Answering(modules, said) /\ MapIs(said, map)
      /\ TakenDown(W, unanswered, silent) /\ LeftOut(modules, said, map, W, unanswered)
      /\ FellSilent(modules, W, unanswered, silent)
  BY <1>1 DEF ReadDoes
<1>3. said \in SUBSET Params
  BY <1>2 DEF Answering
<1>4. r \in DOMAIN W /\ W[r].shown
  <2>1. Moved(said, map) \subseteq Params
    BY <1>2, <1>3, TargetIs
  <2>2. Placed(said, empty, map, W)
    BY <1>2, <1>3, MappedIs
  <2>. HIDE DEF W
  <2>3. CASE r \in places
    BY <2>2, <2>3 DEF Placed
  <2>4. CASE r \notin places
    BY <2>1, <2>2, <2>4 DEF Placed
  <2>. QED BY <2>3, <2>4
<1>. HIDE DEF W
<1>5. r \notin unanswered
  BY <1>2, <1>4 DEF LeftOut
<1>6. \A m \in Modules : r \notin silent[m]
  BY <1>2, <1>4 DEF FellSilent
<1>. QED BY <1>2, <1>4, <1>5, <1>6 DEF TakenDown

LEMMA SchedulesHideNothing ==
    ASSUME FreshInv, NEW came, NEW lost,
           FetchSchedules(came, lost), NEW r \in DOMAIN rows
    PROVE  r \in DOMAIN rows' /\ rows'[r].shown = rows[r].shown
<1>. DEFINE of(ps) == {RowOf(p) : p \in ps}
<1>1. PICK row \in RowType : row = rows[r]
  BY DEF FreshInv, FreshTypeOK
<1>2. PICK w : w = ((row.week \/ r \in of(came)) /\ r \notin of(lost))
  OBVIOUS
<1>3. PICK a : a = IF row.week /\ r \in of(lost) THEN 0 ELSE row.age
  OBVIOUS
<1>4. rows'[r] = [rows[r] EXCEPT !.week = (rows[r].week \/ r \in of(came)) /\ r \notin of(lost),
                                 !.age = IF rows[r].week /\ r \in of(lost)
                                         THEN 0 ELSE rows[r].age]
  BY DEF FetchSchedules
<1>5. rows'[r] = [row EXCEPT !.week = w, !.age = a]
  BY <1>1, <1>2, <1>3, <1>4
<1>6. rows'[r].shown = row.shown
  BY <1>5 DEF RowType
<1>. QED BY <1>1, <1>6 DEF FetchSchedules

LEMMA RedescribeKeepsScraped ==
    ASSUME FreshInv, NEW m \in Modules,
           NEW new \in SUBSET Of(m), Redescribe(m, new),
           NEW r \in DOMAIN rows, rows[r].shown, ScrapeFeeds(r), r \notin Params
    PROVE  r \in DOMAIN rows' /\ rows'[r].shown
<1>. DEFINE dropped == described[m] \ new
            left == {RowOf(p) : p \in dropped} \ dropped
<1>1. r \notin dropped
  BY DEF FreshInv, FreshTypeOK
<1>2. /\ r \in DOMAIN rows'
      /\ rows'[r] = IF r \in left
                    THEN [rows[r] EXCEPT !.week = FALSE, !.shown = rows[r].shown /\ ScrapeFeeds(r)]
                    ELSE rows[r]
  BY <1>1 DEF Redescribe
<1>3. PICK row \in RowType : row = rows[r]
  BY DEF FreshInv, FreshTypeOK
<1>4. rows[r].shown /\ ScrapeFeeds(r) = TRUE
  BY DEF ScrapeFeeds
<1>5. rows'[r] = [row EXCEPT !.week = FALSE, !.shown = TRUE] \/ rows'[r] = rows[r]
  BY <1>2, <1>3, <1>4
<1>. QED BY <1>2, <1>3, <1>5 DEF RowType

-----------------------------------------------------------------------------
(* The theorems *)

LEMMA NextFresh ==
    ASSUME FreshInv, [FreshNext]_freshVars
    PROVE  FreshKept
<1>1. CASE FreshNext
  <2>1. ASSUME NEW page \in (SUBSET Scraped) \ {{}}, NEW silent \in SUBSET page,
               ScrapeWorks(page, silent)
        PROVE  FreshKept
    BY <2>1, ScrapeWorksKeeps
  <2>2. ASSUME NEW modules \in (SUBSET listed) \ {{}},
               NEW said \in SUBSET UNION {described[m] : m \in modules},
               NEW empty \in SUBSET said, ReadWorks(modules, said, empty)
        PROVE  FreshKept
    BY <2>2, ReadWorksKeeps
  <2>3. ASSUME NEW came, NEW lost, FetchSchedules(came, lost) PROVE FreshKept
    BY <2>3, FetchSchedulesKeeps
  <2>4. ASSUME NEW m \in Modules, NEW new \in (SUBSET Of(m)) \ {{}}, Redescribe(m, new)
        PROVE  FreshKept
    BY <2>4, RedescribeKeeps
  <2>5. ASSUME NEW m \in Modules, DropModule(m) \/ ListModule(m) PROVE FreshKept
    BY <2>5, ListKeeps
  <2>6. ASSUME NEW p \in Controls, Write(p) PROVE FreshKept
    BY <2>6, WriteKeeps
  <2>7. ScrapeFails => FreshKept
    BY ScrapeFailsKeeps
  <2>8. BeginRead => FreshKept
    BY BeginReadKeeps
  <2>9. ReadCutShort => FreshKept
    BY CutShortKeeps
  <2>10. NotOnline \/ ReadFails => FreshKept
    BY ReadEndsKeeps
  <2>11. NothingToRead => FreshKept
    BY NothingToReadKeeps
  <2>. QED
    BY <1>1, <2>1, <2>2, <2>3, <2>4, <2>5, <2>6, <2>7, <2>8, <2>9, <2>10, <2>11 DEF FreshNext
<1>2. CASE UNCHANGED freshVars
  <2>1. UNCHANGED <<at, listed, described, adrift, rows, merged, inventory, failedScrapes,
                    lastRead, answered, settled>>
    BY <1>2 DEF freshVars, lists, stamps
  <2>2. FreshTypeOK' /\ OneRowPerReading' /\ HomesInv' /\ PageInv' /\ OwnerInv'
    BY <2>1 DEF FreshInv, FreshTypeOK, OneRowPerReading, HomesInv, PageInv, OwnerInv, Range
  <2>3. TracedInv'
    BY <2>1 DEF FreshInv, TracedInv, Known
  <2>4. ASSUME AgeInv, SomethingIsDescribed' PROVE AgeInv'
    <3>1. Described' = Described /\ \A r : Alone(r)' <=> Alone(r)
      BY <2>1 DEF Described, Alone, Vouched, BackWithoutIt, RowOf
    <3>. QED BY <2>1, <2>4, <3>1 DEF FreshInv, AgeInv
  <2>. QED BY <2>2, <2>3, <2>4 DEF FreshInv, FreshKept
<1>. QED BY <1>1, <1>2

THEOREM RowsInvariance == FreshSpec => []FreshInv
<1>1. FreshInit => FreshInv
  BY InitFresh
<1>2. FreshInv /\ [FreshNext]_freshVars => FreshInv'
  BY NextFresh DEF FreshKept
<1>. QED
  BY <1>1, <1>2, PTL DEF FreshSpec

(* A reading has one row, whatever pages come and go, in whatever order    *)
(* the two sources bring it (_merge_into_scraped,                          *)
(* _merge_webscraping_data).                                               *)
THEOREM ReadingsHaveOneRow ==
    FreshSpec => [](FreshTypeOK /\ OneRowPerReading)
<1>1. FreshInv => FreshTypeOK /\ OneRowPerReading
  BY DEF FreshInv
<1>. QED
  BY <1>1, RowsInvariance, PTL

(* No value stands that nobody delivers any more: the five passes that     *)
(* take values down and the three fetches that bring them agree, in every  *)
(* behaviour in which something is described all along.                    *)
THEOREM OldValuesGo ==
    FreshSpec /\ []SomethingIsDescribed => []ValuesAreCurrent
<1>1. FreshInv /\ AgeInv => ValuesAreCurrent
  <2>. SUFFICES ASSUME FreshInv, AgeInv, settled, NEW r \in DOMAIN rows, rows[r].shown,
                       ~Vouched(r), ~BackWithoutIt(r)
                PROVE  rows[r].age <= 2 * (StaleAfter - 1)
    BY DEF ValuesAreCurrent, NothingOldIsShown, Shown, FreshInv
  <2>. QED BY DEF AgeInv, Alone
<1>2. /\ FreshInit => FreshInv /\ AgeInv
      /\ FreshInv /\ AgeInv /\ [FreshNext]_freshVars /\ SomethingIsDescribed' =>
            FreshInv' /\ AgeInv'
  BY InitFresh, NextFresh DEF FreshKept
<1>. QED
  BY <1>1, <1>2, PTL DEF FreshSpec

(* A device list that keeps a described module is enough for that.         *)
COROLLARY OldValuesGoFromAListThatLasts ==
    ~LosesAll => (FreshSpec => []ValuesAreCurrent)
<1>. SUFFICES ASSUME ~LosesAll PROVE FreshSpec => []ValuesAreCurrent
  OBVIOUS
<1>1. FreshInit => SomethingIsDescribed
  BY InitFresh DEF AgeInv, SomethingIsDescribed
<1>2. FreshInv /\ SomethingIsDescribed /\ [FreshNext]_freshVars => SomethingIsDescribed'
  <2>. SUFFICES ASSUME FreshInv, SomethingIsDescribed, [FreshNext]_freshVars, Params # {}
                PROVE  Described' # {}
    BY DEF SomethingIsDescribed
  <2>1. described \in [Modules -> SUBSET Params] /\ Described # {}
    BY DEF FreshInv, FreshTypeOK, SomethingIsDescribed
  <2>2. ASSUME NEW m \in Modules, DropModule(m) PROVE Described' # {}
    <3>1. PICK o \in listed \ {m} : described[o] # {}
      BY <2>2 DEF DropModule
    <3>2. o \in listed' /\ described'[o] = described[o]
      BY <2>1, <2>2, <3>1 DEF DropModule, FreshInv, FreshTypeOK
    <3>. QED BY <3>1, <3>2 DEF Described
  <2>3. ASSUME NEW m \in Modules, ListModule(m) PROVE Described' # {}
    BY <2>1, <2>3 DEF ListModule, Described
  <2>4. ASSUME NEW m \in Modules, NEW new \in (SUBSET Of(m)) \ {{}}, Redescribe(m, new)
        PROVE  Described' # {}
    <3>1. m \in listed' /\ described'[m] # {}
      BY <2>1, <2>4 DEF Redescribe
    <3>. QED BY <3>1 DEF Described
  <2>5. CASE UNCHANGED <<listed, described>>
    BY <2>1, <2>5 DEF Described
  <2>. QED
    BY <2>2, <2>3, <2>4, <2>5 DEF FreshNext, freshVars, lists, ScrapeWorks, ScrapeFails, BeginRead,
       ReadCutShort, NotOnline, ReadFails, NothingToRead, ReadWorks, FetchSchedules, Write
<1>. QED
  BY <1>1, <1>2, RowsInvariance, OldValuesGo, PTL DEF FreshSpec

(* What the scrape still delivers is taken down by no read, no description *)
(* and no change of the device list.                                       *)
THEOREM TheScrapeKeepsItsRows ==
    FreshSpec => ScrapedValuesStay
<1>. DEFINE Stays ==
       at' # at \/ lists' # lists =>
          \A r \in Shown(rows) :
             rows[r].misses < DeadAfter => r \in DOMAIN rows' /\ rows'[r].shown
<1>1. ASSUME FreshInv, FreshNext, at' # at \/ lists' # lists,
             NEW r \in DOMAIN rows, rows[r].shown, rows[r].misses < DeadAfter
      PROVE  r \in DOMAIN rows' /\ rows'[r].shown
  <2>1. ScrapeFeeds(r) /\ r \in inventory /\ r \in Scraped /\ r \notin Params
    BY <1>1, MissesCount, GivenRows DEF FreshInv, ScrapeFeeds, FreshTypeOK
  <2>2. Typed(rows)
    BY <1>1 DEF FreshInv, FreshTypeOK, Typed
  <2>3. CASE ReadCutShort \/ NothingToRead \/ \E m \in Modules : DropModule(m) \/ ListModule(m)
    BY <1>1, <2>3 DEF ReadCutShort, NothingToRead, DropModule, ListModule
  <2>4. CASE BeginRead
    <3>1. PICK row \in RowType : row = rows[r]
      BY <1>1, <2>2 DEF Typed
    <3>2. rows'[r] = [row EXCEPT !.age = AtMost(row.age + 1, LongestAge)]
      BY <1>1, <2>4, <3>1 DEF BeginRead
    <3>3. rows'[r].shown = row.shown
      BY <3>2 DEF RowType
    <3>. QED BY <1>1, <2>4, <3>1, <3>3 DEF BeginRead
  <2>5. CASE NotOnline \/ ReadFails
    <3>1. PICK runs \in BOOLEAN : DeviceForgets(runs)
      BY <2>5 DEF NotOnline, ReadFails
    <3>. DEFINE gone == {s \in Shown(rows) : ~OwnedElsewhere(rows, s, runs)}
    <3>2. r \notin gone
      BY <2>1 DEF OwnedElsewhere
    <3>3. rows' = rows \/ rows' = Blank(rows, gone)
      BY <3>1 DEF DeviceForgets
    <3>. HIDE DEF gone
    <3>. QED BY <1>1, <2>2, <3>2, <3>3, BlankIs
  <2>6. ASSUME NEW modules \in (SUBSET listed) \ {{}},
               NEW said \in SUBSET UNION {described[m] : m \in modules},
               NEW empty \in SUBSET said, ReadWorks(modules, said, empty)
        PROVE  r \in DOMAIN rows' /\ rows'[r].shown
    BY <1>1, <2>1, <2>6, ReadKeepsScraped
  <2>7. ASSUME NEW came, NEW lost, FetchSchedules(came, lost)
        PROVE  r \in DOMAIN rows' /\ rows'[r].shown
    BY <1>1, <2>7, SchedulesHideNothing
  <2>8. ASSUME NEW m \in Modules, NEW new \in (SUBSET Of(m)) \ {{}}, Redescribe(m, new)
        PROVE  r \in DOMAIN rows' /\ rows'[r].shown
    BY <1>1, <2>1, <2>8, RedescribeKeepsScraped
  <2>9. (\E page \in SUBSET Scraped : \E silent \in SUBSET page : ScrapeWorks(page, silent))
          \/ ScrapeFails \/ (\E p \in Controls : Write(p)) => at' = at /\ lists' = lists
    BY DEF ScrapeWorks, ScrapeFails, Write
  <2>. QED
    BY <1>1, <2>3, <2>4, <2>5, <2>6, <2>7, <2>8, <2>9 DEF FreshNext
<1>2. FreshInv /\ [FreshNext]_freshVars => [Stays]_freshVars
  BY <1>1 DEF Shown
<1>. QED
  BY <1>2, RowsInvariance, PTL DEF FreshSpec, ScrapedValuesStay
=============================================================================
