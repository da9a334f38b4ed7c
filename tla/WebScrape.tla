------------------------------ MODULE WebScrape ------------------------------
(***************************************************************************)
(* The web half of a cycle: when `both` mode scrapes and when it reads the *)
(* mobile API, the requests of one scrape, and what each answer does to    *)
(* the session cookie, the back-off and the account's refused logins.      *)
(*                                                                         *)
(* One tick is the shorter of the two intervals.  Several apis may belong  *)
(* to one portal account and interleave request by request; each has the   *)
(* requests of one scrape to itself.  An api whose entry is not loaded is  *)
(* absent.                                                                 *)
(***************************************************************************)
EXTENDS Naturals

CONSTANTS
    Apis,           \* the apis of one account
    Mode,           \* "both" or "web", for each
    WebInterval,    \* ticks between two scrapes
    ApiInterval,    \* ticks between two reads of the mobile API
    Hold,           \* WEB_LOGIN_RETRY_SECONDS, in ticks
    Pause,          \* the cooldown after a 403, in ticks
    MaxFailures     \* bound: failures in a row that are told apart

ASSUME ScrapeAssumption ==
    /\ Mode \in [Apis -> {"both", "web"}]
    /\ WebInterval \in Nat \ {0} /\ ApiInterval \in Nat \ {0}
    /\ Hold \in Nat \ {0} /\ Pause \in Nat \ {0} /\ MaxFailures \in Nat \ {0}

VARIABLES
    pc,         \* what an api's cycle is at
    cookie,     \* webscraping_cookie is set
    held,       \* the scraper's own copy of it is
    sess,       \* that session at the portal; "told" once a scrape heard it ended
    failures,   \* spider_retry_count
    wait,       \* spider_wait_interval
    stepped,    \* ticks since _backoff_stepped_at
    scraped,    \* ticks since last_scraping_update
    read,       \* ticks since _last_api_read
    refused,    \* refused_web_logins of the account
    hold,       \* ticks left to web_login_retry_at
    paused,     \* ticks left of the cooldown
    healthy,    \* the portal answers every request as it should
    missed,     \* history: scrapes in a row that delivered nothing
    failed,     \* history: ticks since the last of them, first refusals aside
    tried,      \* history: ticks since a read of the mobile API was sent
    unpaused    \* history: refused logins since one worked or a pause ended

cycleVars == <<cookie, held, sess, failures, wait, stepped, scraped, read>>
accountVars == <<refused, hold, paused>>
history == <<missed, failed, tried, unpaused>>
vars == <<pc, cycleVars, accountVars, healthy, history>>

Requesting == {"reuse", "login", "post", "expert"}
Least(i, j) == IF i < j THEN i ELSE j
Grow(n, cap) == Least(n + 1, cap)
Less(n) == IF n = 0 THEN 0 ELSE n - 1
Longest == (MaxFailures + 1) * WebInterval + 1
Never == ApiInterval    \* an interval that has passed counts like no stamp

Init ==
    /\ pc \in [Apis -> {"idle", "absent"}]
    /\ cookie = [a \in Apis |-> FALSE] /\ held = [a \in Apis |-> FALSE]
    /\ sess = [a \in Apis |-> "dead"]
    /\ failures = [a \in Apis |-> 0] /\ wait = [a \in Apis |-> 0]
    /\ stepped = [a \in Apis |-> 0]
    /\ scraped = [a \in Apis |-> WebInterval] /\ read = [a \in Apis |-> Never]
    /\ refused = 0 /\ hold = 0 /\ paused = 0
    /\ healthy = TRUE
    /\ missed = [a \in Apis |-> 0] /\ failed = [a \in Apis |-> Longest]
    /\ tried = [a \in Apis |-> Never] /\ unpaused = 0

Goto(a, place) == pc' = [pc EXCEPT ![a] = place]

-----------------------------------------------------------------------------
(* The cycle around the scrape. *)

(* One tick later; every cycle of the last one has ended.                  *)
Tick ==
    /\ \A a \in Apis : pc[a] \in {"done", "absent"}
    /\ pc' = [a \in Apis |-> IF pc[a] = "done" THEN "idle" ELSE "absent"]
    /\ stepped' = [a \in Apis |-> Grow(stepped[a], WebInterval)]
    /\ scraped' = [a \in Apis |-> Grow(scraped[a], WebInterval)]
    /\ read' = [a \in Apis |-> Grow(read[a], Never)]
    /\ tried' = [a \in Apis |-> Grow(tried[a], Never)]
    /\ failed' = [a \in Apis |-> Grow(failed[a], Longest)]
    /\ hold' = Less(hold) /\ paused' = Less(paused)
    /\ unpaused' = IF paused = 1 THEN 0 ELSE unpaused
    /\ UNCHANGED <<cookie, held, sess, failures, wait, refused, healthy, missed>>

(* The coordinator sits a tick out, or the cooldown, the login or the      *)
(* device list ends the cycle before it reaches either half.               *)
NoCycle(a) ==
    /\ pc[a] = "idle" /\ (paused > 0 \/ ~healthy)
    /\ Goto(a, "done")
    /\ UNCHANGED <<cycleVars, accountVars, healthy, history>>

(* _scrape_is_due; `web` mode scrapes on every tick the hold allows. *)
Due(a) == /\ hold = 0
          /\ Mode[a] = "both" => wait[a] = 0 /\ scraped[a] >= WebInterval

(* The scraper takes the api's cookie over and reuses that session if      *)
(* there is one.                                                           *)
Scrape(a) ==
    /\ pc[a] = "idle" /\ paused = 0 /\ Due(a)
    /\ held' = [held EXCEPT ![a] = cookie[a]]
    /\ Goto(a, IF cookie[a] THEN "reuse" ELSE "login")
    /\ UNCHANGED <<cookie, sess, failures, wait, stepped, scraped, read,
                   accountVars, healthy, history>>

(* Mutant: the wait is counted in ticks. *)
CountsDownEachTick(a) == wait[a] > 0

(* _count_down_scrape_backoff *)
CountsDown(a) == wait[a] > 0 /\ stepped[a] >= WebInterval

(* Mutant: the interval starts over on every tick that only looks. *)
NoScrapeStartsOver(a) ==
    /\ pc[a] = "idle" /\ paused = 0 /\ ~Due(a)
    /\ IF Mode[a] = "both" /\ CountsDown(a)
       THEN wait' = [wait EXCEPT ![a] = @ - 1]
       ELSE UNCHANGED wait
    /\ stepped' = [stepped EXCEPT ![a] = 0]
    /\ Goto(a, IF Mode[a] = "both" THEN "api" ELSE "done")
    /\ UNCHANGED <<cookie, held, sess, failures, scraped, read, accountVars,
                   healthy, history>>

NoScrape(a) ==
    /\ pc[a] = "idle" /\ paused = 0 /\ ~Due(a)
    /\ IF Mode[a] = "both" /\ CountsDown(a)
       THEN /\ wait' = [wait EXCEPT ![a] = @ - 1]
            /\ stepped' = [stepped EXCEPT ![a] = 0]
       ELSE UNCHANGED <<wait, stepped>>
    /\ Goto(a, IF Mode[a] = "both" THEN "api" ELSE "done")
    /\ UNCHANGED <<cookie, held, sess, failures, scraped, read, accountVars,
                   healthy, history>>

(* The read of the mobile API, when its own interval has passed.  A 403    *)
(* pauses everything; an attempt is booked however it ends.                *)
NotDue(a) ==
    /\ pc[a] = "api" /\ read[a] < ApiInterval
    /\ Goto(a, "done")
    /\ UNCHANGED <<cycleVars, accountVars, healthy, history>>

ReadApi(a, works, forbidden) ==
    /\ pc[a] = "api" /\ read[a] >= ApiInterval
    /\ healthy => works
    /\ forbidden => ~works
    /\ read' = [read EXCEPT ![a] = 0] /\ tried' = [tried EXCEPT ![a] = 0]
    /\ paused' = IF forbidden THEN Pause ELSE paused
    /\ Goto(a, "done")
    /\ UNCHANGED <<cookie, held, sess, failures, wait, stepped, scraped, refused,
                   hold, healthy, missed, failed, unpaused>>

-----------------------------------------------------------------------------
(* How a scrape ends.  Whatever it learnt about the session stays: the api *)
(* drops a cookie that the scraper has dropped.                            *)

Keeps(a) == cookie[a] /\ held'[a]

AfterScrape(a) == Goto(a, IF Mode[a] = "both" THEN "api" ELSE "done")

(* Mutant: the block starts with the third. *)
NoteRefusedLate(first, pausesAt) ==
    /\ refused' = Least(refused + 1, 2)
    /\ paused' = IF refused < 2 THEN paused ELSE pausesAt
    /\ unpaused' = Least(unpaused + 1, 2)

(* note_refused_web_login, and the block from the second in a row. *)
NoteRefused(first, pausesAt) ==
    /\ refused' = Least(refused + 1, 2)
    /\ paused' = IF first THEN paused ELSE pausesAt
    /\ unpaused' = Least(unpaused + 1, 2)

Register(a) ==
    /\ failures' = [failures EXCEPT ![a] = Grow(@, MaxFailures)]
    /\ stepped' = [stepped EXCEPT ![a] = 0]

(* The scrape delivered its rows. *)
Delivers(a) ==
    /\ cookie' = [cookie EXCEPT ![a] = TRUE] /\ sess' = [sess EXCEPT ![a] = "live"]
    /\ failures' = [failures EXCEPT ![a] = 0] /\ wait' = [wait EXCEPT ![a] = 0]
    /\ scraped' = [scraped EXCEPT ![a] = 0]
    /\ refused' = 0
    /\ missed' = [missed EXCEPT ![a] = 0] /\ failed' = [failed EXCEPT ![a] = Longest]
    /\ unpaused' = 0
    /\ AfterScrape(a)
    /\ UNCHANGED <<held, stepped, read, hold, paused, healthy, tried>>

(* The failing exits of fetch_webscraping_data.  The first refused login   *)
(* of a streak waits five minutes instead of a cycle.                      *)
Fails(a, why) ==
    /\ Register(a)
    /\ cookie' = [cookie EXCEPT ![a] =
                     /\ Keeps(a)
                     /\ why \notin {"refused", "credentials"}
                     /\ ~(why = "broken" /\ failures'[a] = 2)]
    /\ wait' = [wait EXCEPT ![a] = IF why = "refused" /\ refused = 0
                                   THEN 0 ELSE failures'[a]]
    /\ missed' = [missed EXCEPT ![a] = Grow(@, MaxFailures)]
    /\ failed' = [failed EXCEPT ![a] = IF why = "refused" /\ refused = 0
                                      THEN Longest ELSE 0]
    /\ CASE why = "refused" -> /\ NoteRefused(refused = 0, Pause)
                               /\ hold' = IF refused = 0 THEN Hold ELSE hold
         [] why = "forbidden" -> paused' = Pause /\ UNCHANGED <<refused, hold, unpaused>>
         [] OTHER -> UNCHANGED <<accountVars, unpaused>>
    /\ AfterScrape(a)
    /\ UNCHANGED <<scraped, read, healthy, tried>>

(* The deadline travels past every handler of the scrape and ends the      *)
(* cycle; only the cookie is handed back.                                  *)
CutShort(a) ==
    /\ pc[a] \in Requesting /\ ~healthy
    /\ cookie' = [cookie EXCEPT ![a] = @ /\ held[a]]
    /\ Goto(a, "done")
    /\ UNCHANGED <<held, sess, failures, wait, stepped, scraped, read, accountVars,
                   healthy, history>>

-----------------------------------------------------------------------------
(* The requests of a scrape. *)

(* The reused session shows the expert page. *)
ReuseWorks(a) ==
    /\ pc[a] = "reuse" /\ sess[a] = "live"
    /\ Delivers(a)

(* It does not, or shows the user view or an empty page: log in fresh.     *)
ReuseEnds(a, onLoginPage) ==
    /\ pc[a] = "reuse"
    /\ onLoginPage => sess[a] # "live"
    /\ healthy /\ sess[a] = "dead" => onLoginPage
    /\ healthy => sess[a] # "live"
    /\ held' = [held EXCEPT ![a] = FALSE]
    /\ sess' = IF onLoginPage THEN [sess EXCEPT ![a] = "told"] ELSE sess
    /\ Goto(a, "login")
    /\ UNCHANGED <<cookie, failures, wait, stepped, scraped, read, accountVars,
                   healthy, history>>

(* The scraper drops its cookie whenever it ends up on the login page,     *)
(* whatever the status there.                                              *)
HeldAfter(a, onLoginPage) == held[a] /\ ~onLoginPage

(* A refusal, a server error or a maintenance notice ends the scrape: no   *)
(* login follows.  A 403 is the login's if the login page answered it.     *)
ReuseStops(a, why, onLoginPage) ==
    /\ pc[a] = "reuse" /\ ~healthy
    /\ why = "refused" => onLoginPage
    /\ why \in {"forbidden", "maintenance"} => ~onLoginPage
    /\ onLoginPage => sess[a] # "live"
    /\ held' = [held EXCEPT ![a] = HeldAfter(a, onLoginPage)]
    /\ sess' = IF onLoginPage THEN [sess EXCEPT ![a] = "told"] ELSE sess
    /\ Fails(a, why)

LoginPage(a) ==
    /\ pc[a] = "login"
    /\ Goto(a, "post")
    /\ UNCHANGED <<cycleVars, accountVars, healthy, history>>

(* The portal lets the login through, which ends a streak of refusals      *)
(* whatever the pages after it do.                                         *)
LoggedIn(a) ==
    /\ pc[a] = "post"
    /\ refused' = 0 /\ unpaused' = 0
    /\ Goto(a, "expert")
    /\ UNCHANGED <<cycleVars, hold, paused, healthy, missed, failed, tried>>

ExpertPage(a) == pc[a] = "expert" /\ Delivers(a)

(* The login and what follows it fail, each step in its own ways; a page   *)
(* whose panels are folded is refused after the last of them.              *)
LoginFails(a, why) ==
    /\ pc[a] \in {"login", "post", "expert"} /\ ~healthy
    /\ why = "credentials" => pc[a] = "post"
    /\ why \in {"forbidden", "maintenance"} => pc[a] # "login"
    /\ why = "broken" => pc[a] = "expert"
    /\ UNCHANGED <<held, sess>>
    /\ Fails(a, why)

FoldedPage(a) ==
    /\ pc[a] = "reuse" /\ ~healthy /\ sess[a] = "live"
    /\ UNCHANGED <<held, sess>>
    /\ Fails(a, "folded")

-----------------------------------------------------------------------------
(* web_login: the config flow asks whether a web login works. *)
FlowLogin(through) ==
    /\ paused = 0 /\ (~through => ~healthy)
    /\ IF through THEN refused' = 0 /\ unpaused' = 0 /\ UNCHANGED paused
                  ELSE NoteRefused(refused = 0, Pause)
    /\ UNCHANGED <<pc, cycleVars, hold, healthy, missed, failed, tried>>

(* The portal ends a session, or starts or stops misbehaving. *)
SessionEnds(a) ==
    /\ sess[a] = "live"
    /\ sess' = [sess EXCEPT ![a] = "dead"]
    /\ UNCHANGED <<pc, cookie, held, failures, wait, stepped, scraped, read,
                   accountVars, healthy, history>>

Weather ==
    /\ healthy' = ~healthy
    /\ UNCHANGED <<pc, cycleVars, accountVars, history>>

Cycle(a) ==
    \/ NoCycle(a) \/ Scrape(a) \/ NoScrape(a) \/ NotDue(a)
    \/ \E works, forbidden \in BOOLEAN : ReadApi(a, works, forbidden)
    \/ CutShort(a) \/ ReuseWorks(a)
    \/ \E onLoginPage \in BOOLEAN : ReuseEnds(a, onLoginPage)
    \/ \E why \in {"refused", "forbidden", "maintenance", "server"},
          onLoginPage \in BOOLEAN : ReuseStops(a, why, onLoginPage)
    \/ LoginPage(a) \/ LoggedIn(a) \/ ExpertPage(a)
    \/ \E why \in {"refused", "forbidden", "maintenance", "server", "credentials",
                   "broken"} : LoginFails(a, why)
    \/ FoldedPage(a)

Next ==
    \/ Tick \/ Weather
    \/ \E through \in BOOLEAN : FlowLogin(through)
    \/ \E a \in Apis : Cycle(a) \/ SessionEnds(a)

Spec == Init /\ [][Next]_vars

(* Home Assistant's timer fires, and every request of a cycle ends.        *)
Fairness == WF_vars(Tick) /\ \A a \in Apis : WF_vars(Cycle(a))

FairSpec == Spec /\ Fairness

-----------------------------------------------------------------------------
TypeOK ==
    /\ pc \in [Apis -> {"absent", "idle", "api", "done"} \cup Requesting]
    /\ cookie \in [Apis -> BOOLEAN] /\ held \in [Apis -> BOOLEAN]
    /\ sess \in [Apis -> {"live", "dead", "told"}]
    /\ failures \in [Apis -> 0..MaxFailures] /\ wait \in [Apis -> 0..MaxFailures]
    /\ stepped \in [Apis -> 0..WebInterval] /\ scraped \in [Apis -> 0..WebInterval]
    /\ read \in [Apis -> 0..Never] /\ tried \in [Apis -> 0..Never]
    /\ refused \in 0..2 /\ hold \in 0..Hold /\ paused \in 0..Pause
    /\ healthy \in BOOLEAN
    /\ missed \in [Apis -> 0..MaxFailures] /\ failed \in [Apis -> 0..Longest]
    /\ unpaused \in 0..2

(* A session the portal was seen to have ended is not offered to it again: *)
(* every path out of a scrape hands the dropped cookie back to the api     *)
(* (_scrape_with, _check_response).                                        *)
ToldIsNotReused == \A a \in Apis : pc[a] = "reuse" => sess[a] # "told"

(* The count of failed scrapes is that of the scrapes which ended without  *)
(* their rows, whichever of the six handlers took them                     *)
(* (_register_scrape_failure): back-off, ageing and repair issue rest on   *)
(* it.                                                                     *)
EveryFailureCounts == \A a \in Apis : failures[a] = missed[a]

(* With no pause running at most one refused web login stands; whoever of  *)
(* the account meets the second in a row pauses them all                   *)
(* (note_refused_web_login).                                               *)
RefusalsPause == paused = 0 => unpaused < 2

(* In `both` mode a scrape that failed n times in a row waits more than n  *)
(* web intervals, however short the ticks; a first refused login alone is  *)
(* tried again sooner (_count_down_scrape_backoff).                        *)
BackoffGrows ==
    [][\A a \in Apis :
          /\ Mode[a] = "both" /\ pc[a] = "idle" /\ pc'[a] \in Requesting
          /\ missed[a] > 0
          => failed[a] > missed[a] * WebInterval]_vars

(* Two reads of the mobile API are an API interval apart, whether or not   *)
(* the first one worked: what the interval bounds is requests.             *)
ReadsAreSpaced ==
    [][\A a \in Apis : tried'[a] = 0 /\ tried[a] # 0 => tried[a] >= ApiInterval]_vars

(* Once the portal answers again, every api scrapes again, with no reload: *)
(* no back-off, hold or pause stands for ever.                             *)
ScrapesComeBack ==
    \A a \in Apis :
        <>[](healthy /\ pc[a] # "absent") => []<>(failures[a] = 0 /\ scraped[a] = 0)
(* Every failure and refusal of a scrape is remembered where the next one  *)
(* looks: the dropped cookie, the count, the account's pause.              *)
FailuresAreKept == TypeOK /\ ToldIsNotReused /\ EveryFailureCounts /\ RefusalsPause

(* The portal is asked no more often than the intervals and the back-off   *)
(* allow, on both of its sides.                                            *)
ReadsArePaced == ReadsAreSpaced /\ BackoffGrows
=============================================================================
