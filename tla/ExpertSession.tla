---------------------------- MODULE ExpertSession ----------------------------
(***************************************************************************)
(* The expert operations of one account, request by request: a parameter   *)
(* write, a batch of reads, the module list, a discovery.  Each runs in a  *)
(* worker thread that nothing can cancel, holds the account's lock, and    *)
(* asks two gates before every request - is its entry still there, is a    *)
(* pause running.  It logs in, or tries the cookies its entry remembers.   *)
(*                                                                         *)
(* What a page says is abstracted to how the operation goes on after it;   *)
(* the options of a parameter are ExpertForm's.  The parameter written is  *)
(* the same for every write, whose value is named after it.                *)
(***************************************************************************)
EXTENDS Naturals, FiniteSets

CONSTANTS
    Ops,            \* operations that can be asked for
    KindOf,         \* "write", "read", "list" or "discover"
    Entries,        \* config entries of the account
    EntryOf,        \* the one each operation belongs to
    Items,          \* dialogs of a batch, modules of a discovery
    Extras,         \* further navigation requests the options ask for
    FormTries,      \* EXPERT_FORM_MAX_ATTEMPTS
    VerifyTries,    \* attempts of the read after a write
    MostRefusals,   \* bound of the refusal count
    NoOp            \* nobody

ASSUME ExpertAssumption ==
    /\ KindOf \in [Ops -> {"write", "read", "list", "discover"}]
    /\ EntryOf \in [Ops -> Entries]
    /\ Items \in Nat \ {0} /\ Extras \in Nat
    /\ FormTries \in Nat \ {0} /\ VerifyTries \in Nat \ {0}
    /\ MostRefusals \in Nat \ {0} /\ NoOp \notin Ops

VARIABLES
    op,         \* the operations
    lock,       \* expert_lock of the account
    jar,        \* expert_cookies of each entry: none, young or old
    torn,       \* entries being torn down
    pause,      \* pauses running: "expert", "all"
    refusals,   \* expert_refusals
    param,      \* whose value the parameter has
    seenDead    \* history: entries whose remembered session met the login page

vars == <<op, lock, jar, torn, pause, refusals, param, seenDead>>

Login == {"loginPage", "loginPost"}
Context == {"main", "menu", "nav"}
(* The entry of an operation is gone, or on its way.                       *)
Gone(o) == EntryOf[o] \in torn
(* Cookies that are there and young enough to try.                         *)
Reusable(e) == jar[e] = "young"
Running(o) == op[o].pc \in {"gate", "sent"}
Least(i, j) == IF i < j THEN i ELSE j

Idle == [pc |-> "idle", at |-> "main", reused |-> FALSE, left |-> 0, tries |-> 0,
         posted |-> FALSE, taken |-> FALSE, out |-> "none", told |-> FALSE,
         heard |-> FALSE, awaited |-> TRUE]

Init ==
    /\ op = [o \in Ops |-> Idle]
    /\ lock = NoOp
    /\ jar = [e \in Entries |-> "none"] /\ seenDead = {}
    /\ torn = {} /\ pause = {} /\ refusals = 0
    /\ param = NoOp

-----------------------------------------------------------------------------
(* The worker takes the lock without waiting and holds it for exactly as   *)
(* long as it works; whoever awaits it may be gone by then.  A write looks *)
(* for its entry before that too.                                          *)
Begin(o) ==
    LET reused == Reusable(EntryOf[o]) IN
    /\ ~Running(o)
    /\ IF Gone(o) /\ KindOf[o] = "write"
       THEN op' = [op EXCEPT ![o] = [Idle EXCEPT !.pc = "over", !.out = "stopped"]]
            /\ UNCHANGED lock
       ELSE IF lock # NoOp
       THEN op' = [op EXCEPT ![o] = [Idle EXCEPT !.pc = "over", !.out = "busy"]]
            /\ UNCHANGED lock
       ELSE /\ op' = [op EXCEPT ![o] =
                  [Idle EXCEPT !.pc = "gate", !.reused = reused, !.left = Items,
                               !.at = IF reused THEN "main" ELSE "loginPage"]]
            /\ lock' = o
    /\ UNCHANGED <<jar, torn, pause, refusals, param, seenDead>>

Release == lock' = NoOp

(* Mutant: the awaiting coroutine owns the lock and frees it. *)
CallerGoesFreeing(o) ==
    /\ Running(o) /\ op[o].awaited
    /\ op' = [op EXCEPT ![o].awaited = FALSE] /\ Release
    /\ UNCHANGED <<jar, torn, pause, refusals, param, seenDead>>

(* The caller is cancelled; the thread is not.                             *)
CallerGoes(o) ==
    /\ Running(o) /\ op[o].awaited
    /\ op' = [op EXCEPT ![o].awaited = FALSE]
    /\ UNCHANGED <<lock, jar, torn, pause, refusals, param, seenDead>>

Ended(o, out) ==
    [op EXCEPT ![o] = [Idle EXCEPT !.pc = "over", !.out = out, !.posted = op[o].posted,
                                   !.taken = op[o].taken]]

(* Mutant: an abort is an abort. *)
StoppedPlainly(o) ==
    /\ op[o].pc = "gate" /\ Gone(o)
    /\ op' = Ended(o, "stopped")
    /\ Release
    /\ UNCHANGED <<jar, torn, pause, refusals, param, seenDead>>

(* _check_gates, abort first, then the request.                            *)
Stopped(o) ==
    /\ op[o].pc = "gate" /\ Gone(o)
    /\ op' = Ended(o, IF op[o].posted THEN "stopped after the post" ELSE "stopped")
    /\ Release
    /\ UNCHANGED <<jar, torn, pause, refusals, param, seenDead>>

Paused(o) ==
    /\ op[o].pc = "gate" /\ ~Gone(o) /\ pause # {}
    /\ op' = Ended(o, "refused")
    /\ Release
    /\ UNCHANGED <<jar, torn, pause, refusals, param, seenDead>>

Send(o) ==
    /\ op[o].pc = "gate" /\ ~Gone(o) /\ pause = {}
    /\ op' = [op EXCEPT ![o].pc = "sent", ![o].posted = @ \/ op[o].at = "post"]
    /\ UNCHANGED <<lock, jar, torn, pause, refusals, param, seenDead>>

-----------------------------------------------------------------------------
(* Every answer passes _check_response: the login page costs the entry its *)
(* cookies whatever the status is, a 403 pauses the expert path.           *)

Seen(o, onLogin, good) ==
    LET e == EntryOf[o] IN
    /\ jar' = IF onLogin THEN [jar EXCEPT ![e] = "none"] ELSE jar
    /\ seenDead' = IF onLogin THEN seenDead \cup {e} ELSE seenDead

(* A write may have been taken although its answer was bad or got lost.    *)
Takes(o, yes) ==
    /\ yes => op[o].at = "post"
    /\ param' = IF yes THEN o ELSE param

Refused(o, onLogin, yes) ==
    /\ op[o].pc = "sent"
    /\ Seen(o, onLogin, FALSE) /\ Takes(o, yes)
    /\ refusals' = Least(refusals + 1, MostRefusals)
    /\ pause' = pause \cup {"expert"}
    /\ op' = [Ended(o, "refused") EXCEPT ![o].told = TRUE, ![o].taken = yes]
    /\ Release
    /\ UNCHANGED torn

(* The next dialog or module, or the end of the batch: a refusal streak    *)
(* ends once the operation's own requests were through (_went_through).    *)
NextItem(o, told, heard) ==
    IF op[o].left > 1
    THEN /\ op' = [op EXCEPT ![o].pc = "gate", ![o].at = "item", ![o].tries = 0,
                             ![o].left = @ - 1, ![o].told = @ \/ told,
                             ![o].heard = @ \/ heard]
         /\ UNCHANGED <<lock, refusals>>
    ELSE /\ op' = [Ended(o, "ok") EXCEPT ![o].heard = op[o].heard \/ heard]
         /\ Release /\ refusals' = 0

Fails(o, told) ==
    /\ op' = [Ended(o, "failed") EXCEPT ![o].told = @ \/ told]
    /\ Release /\ UNCHANGED refusals

(* A bad answer: an error status, or on the pages where it counts the      *)
(* maintenance notice.  An answer, so no reason to log in again; a batch   *)
(* books the id as unreadable and goes on.                                 *)

(* Mutant: a maintenance page is a reason to log in again. *)
ErrorMeansStale(o, onLogin, yes) ==
    /\ op[o].pc = "sent"
    /\ Seen(o, onLogin, FALSE) /\ Takes(o, yes)
    /\ IF op[o].reused /\ op[o].at \in Context
       THEN /\ op' = [op EXCEPT ![o].pc = "gate", ![o].at = "loginPage",
                                ![o].reused = FALSE, ![o].told = TRUE]
            /\ UNCHANGED <<lock, refusals>>
       ELSE Fails(o, TRUE)
    /\ UNCHANGED <<torn, pause>>

Error(o, onLogin, yes) ==
    /\ op[o].pc = "sent"
    /\ Seen(o, onLogin, FALSE) /\ Takes(o, yes)
    /\ IF op[o].at \in {"item", "timer", "page"} /\ KindOf[o] # "write"
       THEN NextItem(o, TRUE, TRUE) ELSE Fails(o, TRUE)
    /\ UNCHANGED <<torn, pause>>

(* No answer, or one that says the session is not usable: back at the      *)
(* login page, or on the user level.  A reused session is forgotten and    *)
(* the login begins; a fresh one has nothing left to try.                  *)
Unusable(o, why) ==
    /\ op[o].pc = "sent"
    /\ why = "level" => op[o].at = "menu"
    /\ why = "login page" => op[o].at \notin {"loginPage", "post", "page"}
    /\ LET stale == op[o].reused /\ op[o].at \in Context
           onLogin == why = "login page" /\ op[o].at # "loginPost"
       IN /\ jar' = IF onLogin \/ stale THEN [jar EXCEPT ![EntryOf[o]] = "none"] ELSE jar
          /\ seenDead' = IF onLogin THEN seenDead \cup {EntryOf[o]} ELSE seenDead
          /\ IF stale
             THEN /\ op' = [op EXCEPT ![o].pc = "gate", ![o].at = "loginPage",
                                      ![o].reused = FALSE]
                  /\ UNCHANGED <<lock, refusals>>
             ELSE IF /\ op[o].at \in {"item", "timer", "page"}
                     /\ KindOf[o] # "write" /\ why = "lost"
             THEN NextItem(o, FALSE, FALSE) ELSE Fails(o, FALSE)
    /\ \E yes \in BOOLEAN : (yes => why = "lost") /\ Takes(o, yes)
    /\ UNCHANGED <<torn, pause>>

-----------------------------------------------------------------------------
(* The pages that are as expected.                                         *)

(* Mutant: a login that worked ends the streak. *)
LoginForgives == refusals' = 0

(* _went_through is not called here: the login works before the request    *)
(* that is refused.                                                        *)
LoginSaysNothing == UNCHANGED refusals

(* _login and _establish_context, up to where the operation's own requests *)
(* begin; the cookies are remembered there and only there.                 *)
Advances(o) ==
    LET at == op[o].at
        more == \/ at = "menu" /\ Extras > 0
                \/ at = "nav" /\ op[o].tries + 1 < Extras
        arrives == at \in {"menu", "nav"} /\ ~more
        e == EntryOf[o]
    IN
    /\ op[o].pc = "sent" /\ at \in Login \cup Context
    /\ jar' = IF arrives THEN [jar EXCEPT ![e] = "young"]
              ELSE IF at = "loginPage" THEN [jar EXCEPT ![e] = "none"] ELSE jar
    /\ seenDead' = IF arrives THEN seenDead \ {e} ELSE seenDead
    /\ IF arrives /\ KindOf[o] = "list"
       THEN /\ op' = [Ended(o, "ok") EXCEPT ![o].heard = TRUE]
            /\ Release /\ refusals' = 0
       ELSE /\ op' = [op EXCEPT ![o].pc = "gate",
                  ![o].tries = IF at = "nav" /\ more THEN @ + 1 ELSE 0,
                  ![o].at = CASE at = "loginPage" -> "loginPost"
                              [] at = "loginPost" -> "main"
                              [] at = "main" -> "menu"
                              [] more -> "nav"
                              [] OTHER -> "item"]
            /\ LoginSaysNothing /\ UNCHANGED lock
    /\ UNCHANGED <<torn, pause, param>>

Tries(o) == IF op[o].posted THEN VerifyTries ELSE FormTries

(* _fetch_form: an empty dropdown is asked for again after a timer         *)
(* postback, a fixed number of times.                                      *)
StillEmpty(o) ==
    /\ op[o].pc = "sent" /\ op[o].at = "item" /\ KindOf[o] # "discover"
    /\ IF op[o].tries + 1 < Tries(o)
       THEN /\ op' = [op EXCEPT ![o].pc = "gate", ![o].at = "timer", ![o].tries = @ + 1,
                                ![o].heard = TRUE]
            /\ UNCHANGED <<lock, refusals>>
       ELSE IF KindOf[o] = "write" THEN Fails(o, FALSE)
            ELSE NextItem(o, FALSE, TRUE)
    /\ UNCHANGED <<jar, torn, pause, param, seenDead>>

TimerPolled(o) ==
    /\ op[o].pc = "sent" /\ op[o].at = "timer"
    /\ op' = [op EXCEPT ![o].pc = "gate", ![o].at = "item"]
    /\ UNCHANGED <<lock, jar, torn, pause, refusals, param, seenDead>>

(* read_many, and discover where the answer has the module's rows.         *)
ItemRead(o) ==
    /\ op[o].pc = "sent" /\ op[o].at \in {"item", "page"} /\ KindOf[o] # "write"
    /\ NextItem(o, FALSE, TRUE)
    /\ UNCHANGED <<jar, torn, pause, param, seenDead>>

(* _fetch_module_page: no rows in the postback's answer, so the page.      *)
NoRows(o) ==
    /\ op[o].pc = "sent" /\ op[o].at = "item" /\ KindOf[o] = "discover"
    /\ op' = [op EXCEPT ![o].pc = "gate", ![o].at = "page", ![o].heard = TRUE]
    /\ UNCHANGED <<lock, jar, torn, pause, refusals, param, seenDead>>

(* write_parameter: the form, the post, the form again.                    *)
FormRead(o, offered) ==
    /\ op[o].pc = "sent" /\ op[o].at = "item" /\ KindOf[o] = "write" /\ ~op[o].posted
    /\ IF offered
       THEN op' = [op EXCEPT ![o].pc = "gate", ![o].at = "post"] /\ UNCHANGED lock
       ELSE op' = Ended(o, "not offered") /\ Release
    /\ UNCHANGED <<jar, torn, pause, refusals, param, seenDead>>

Posted(o, yes) ==
    /\ op[o].pc = "sent" /\ op[o].at = "post"
    /\ Takes(o, yes)
    /\ op' = [op EXCEPT ![o].pc = "gate", ![o].at = "item", ![o].tries = 0,
                        ![o].taken = yes]
    /\ UNCHANGED <<lock, jar, torn, pause, refusals, seenDead>>

Verified(o) ==
    /\ op[o].pc = "sent" /\ op[o].at = "item" /\ op[o].posted
    /\ op' = [Ended(o, IF param = o THEN "ok" ELSE "unconfirmed") EXCEPT ![o].heard = TRUE]
    /\ refusals' = IF param = o THEN 0 ELSE refusals
    /\ Release
    /\ UNCHANGED <<jar, torn, pause, param, seenDead>>

Answer(o) ==
    \/ \E onLogin, yes \in BOOLEAN : Refused(o, onLogin, yes) \/ Error(o, onLogin, yes)
    \/ \E why \in {"lost", "login page", "level"} : Unusable(o, why)
    \/ Advances(o)
    \/ StillEmpty(o) \/ TimerPolled(o) \/ ItemRead(o) \/ NoRows(o)
    \/ \E yes \in BOOLEAN : FormRead(o, yes) \/ Posted(o, yes)
    \/ Verified(o)

-----------------------------------------------------------------------------
(* Around the operations: unloads that may be taken back, a 403 of the     *)
(* sensor polling, pauses that end, cookies that age past                  *)
(* EXPERT_SESSION_MAX_AGE_SECONDS, a change at the portal itself.          *)
BeginUnload(e) == e \notin torn /\ torn' = torn \cup {e}
                  /\ UNCHANGED <<op, lock, jar, pause, refusals, param, seenDead>>
UnloadFails(e) == e \in torn /\ torn' = torn \ {e}
                  /\ UNCHANGED <<op, lock, jar, pause, refusals, param, seenDead>>
PollRefused == "all" \notin pause /\ pause' = pause \cup {"all"}
               /\ UNCHANGED <<op, lock, jar, torn, refusals, param, seenDead>>
PauseEnds == \E p \in pause : pause' = pause \ {p}
             /\ UNCHANGED <<op, lock, jar, torn, refusals, param, seenDead>>
JarAges(e) == jar[e] = "young" /\ jar' = [jar EXCEPT ![e] = "old"]
              /\ UNCHANGED <<op, lock, torn, pause, refusals, param, seenDead>>
SetElsewhere == param # NoOp /\ param' = NoOp
                /\ UNCHANGED <<op, lock, jar, torn, pause, refusals, seenDead>>

Next ==
    \/ \E o \in Ops : \/ Begin(o) \/ CallerGoes(o)
                      \/ Stopped(o) \/ Paused(o) \/ Send(o) \/ Answer(o)
    \/ \E e \in Entries : BeginUnload(e) \/ UnloadFails(e) \/ JarAges(e)
    \/ PollRefused \/ PauseEnds \/ SetElsewhere

Spec == Init /\ [][Next]_vars

(* A worker's thread goes on, and every request has a timeout.             *)
GoesOn(o) == Running(o) /\ (Stopped(o) \/ Paused(o) \/ Send(o) \/ Answer(o))
Fairness == \A o \in Ops : WF_vars(GoesOn(o))

FairSpec == Spec /\ Fairness

-----------------------------------------------------------------------------
Outcomes == {"none", "ok", "busy", "stopped", "stopped after the post", "refused",
             "failed", "not offered", "unconfirmed"}

TypeOK ==
    /\ op \in [Ops -> [pc : {"idle", "gate", "sent", "over"},
                       at : Login \cup Context \cup {"item", "timer", "page", "post"},
                       reused : BOOLEAN, left : 0..Items,
                       tries : 0..(FormTries + VerifyTries + Extras),
                       posted : BOOLEAN, taken : BOOLEAN,
                       out : Outcomes, told : BOOLEAN, heard : BOOLEAN,
                       awaited : BOOLEAN]]
    /\ \A o \in Ops : Running(o) => op[o].left # 0
    /\ lock \in Ops \cup {NoOp}
    /\ jar \in [Entries -> {"none", "young", "old"}]
    /\ torn \subseteq Entries /\ seenDead \subseteq Entries
    /\ pause \subseteq {"expert", "all"} /\ refusals \in 0..MostRefusals
    /\ param \in Ops \cup {NoOp}

(* One operation of the account drives the portal at a time, whatever      *)
(* became of whoever asked for it (read_expert_values, _do_write,          *)
(* _run_expert own the lock in the worker).                                *)
OneSession == \A o, p \in Ops : Running(o) /\ Running(p) => o = p

(* A caller that is told "stopped" may repeat the write: nothing was       *)
(* posted.  Which of the two aborts it is depends on where between two     *)
(* requests the teardown landed (write_parameter).                         *)
StoppedMeansUntouched == \A o \in Ops : op[o].out = "stopped" => ~op[o].posted

(* "The value was posted and the portal accepted it", says the other abort.*)
StoppedAfterMeansTaken ==
    \A o \in Ops : op[o].out = "stopped after the post" => op[o].taken

(* After the portal said anything - refused, failing, down - an operation  *)
(* sends it no password (_try_cached_session).                             *)
NoLoginAfterAnAnswer ==
    \A o \in Ops : Running(o) /\ op[o].told => op[o].at \notin Login

(* Cookies that ended at the login page are not kept for the next          *)
(* operation, whatever status the page came with and whichever request it  *)
(* answered (_check_response).                                             *)
DeadSessionsAreForgotten == \A e \in seenDead : jar[e] = "none"

(* Only work that was answered ends a refusal streak: a login that works   *)
(* before a dialog that is always refused does not (_went_through).        *)
StreakEndsByWork ==
    [][refusals' < refusals =>
          \E o \in Ops : Running(o) /\ op'[o].pc = "over" /\ op'[o].out = "ok"]_vars

(* "This operation's own requests were answered" is what ends a streak,    *)
(* says _went_through.                                                     *)
StreakEndsByAnAnswer ==
    [][refusals' < refusals =>
          \E o \in Ops : Running(o) /\ op'[o].out = "ok" /\ op'[o].heard]_vars

(* Every operation ends and frees the account, whatever the portal does.   *)
LockComesBack == lock # NoOp ~> lock = NoOp
(* One operation at a time, and no dead cookies for the next one.          *)
SessionsAreClean == TypeOK /\ OneSession /\ DeadSessionsAreForgotten

(* The account's lock is the turn of PortalTurns: one request at a time,   *)
(* the holder's, and no turn ends over an unanswered one - whichever       *)
(* caller has gone (expert_lock, owned by the worker).                     *)
OnTheWire == {o \in Ops : op[o].pc = "sent"}
Turns == INSTANCE PortalTurns
             WITH Threads <- Ops, Free <- NoOp, holder <- lock, wire <- OnTheWire
TakesTurns == Turns!Spec

(* An operation takes its turn and ends, and only its own answered work    *)
(* ends a streak.                                                          *)
OperationsEnd == TakesTurns /\ StreakEndsByWork /\ LockComesBack
=============================================================================
