----------------------------- MODULE ApiSession -----------------------------
(***************************************************************************)
(* One WemPortalApi object: the HTTP session and the login it carries, the *)
(* shared api lock, and the worker threads that queue for it.              *)
(*                                                                         *)
(* Home Assistant runs every portal operation in an executor thread, and a *)
(* thread cannot be cancelled: the worker of a cycle the coordinator gave  *)
(* up on goes on beside the worker of the next one.  So the poll workers   *)
(* are several, beside the writes, the read-backs of a write, the recovery *)
(* (reset_transport) and the teardown (close_transport).                   *)
(*                                                                         *)
(* A thread is inside the lock from Acquire to Finish.  Inside, requests   *)
(* go through make_api_call: cooldown gate, one second of courtesy pause,  *)
(* deadline, send, answer - with at most one retry.  Time is abstracted to *)
(* "the poll's 330 s are spent" and "the 403 pause holds".                 *)
(*                                                                         *)
(* Left to other modules: the coordinator's counters and the login proof   *)
(* it reads (PollCoordinator); the scrape, which runs under the same lock  *)
(* on a session of its own.                                                *)
(***************************************************************************)
EXTENDS Naturals

CONSTANTS Polls,     \* workers running fetch_data
          Writers,   \* workers running change_value
          Rereads,   \* workers running reread_device_values
          Resets,    \* workers running reset_transport
          Closes,    \* workers running close_transport
          Free       \* the lock's holder when there is none

Requesters == Polls \cup Writers \cup Rereads
Threads == Requesters \cup Resets \cup Closes

ASSUME ThreadsAssumption ==
    /\ Polls \cap (Writers \cup Rereads \cup Resets \cup Closes) = {}
    /\ Writers \cap (Rereads \cup Resets \cup Closes) = {}
    /\ Rereads \cap (Resets \cup Closes) = {}
    /\ Resets \cap Closes = {}
    /\ Free \notin Threads

VARIABLES
    lock,            \* _api_lock: the thread inside, or Free
    pc,              \* where each thread is
    stage,           \* how far the operation inside the lock has come
    call,            \* make_api_call's locals, of the thread inside
    session,         \* self.session: "none" or "open"
    validLogin,      \* valid_login
    devicesFetched,  \* _devices_fetched_this_session
    deadline,        \* _deadline: the poll it was set for, or Free for None
    spent,           \* polls whose 330 s since fetch_data began are over
    reloginFailure,  \* _relogin_failure
    blocked,         \* _BLOCKED_UNTIL is ahead: the IP-wide 403 pause holds
    refusedLogins,   \* AccountState.refused_logins, capped at 2
    slipped,         \* history: requests sent into the running pause
    gaveUp,          \* history: polls whose re-login has failed
    written,         \* history: the portal has accepted a write
    closed           \* history: close_transport has run

transport == <<session, validLogin, devicesFetched>>
pauses == <<blocked, refusedLogins, slipped>>
pollLocals == <<deadline, spent, reloginFailure, gaveUp>>
history == <<written, closed>>
vars == <<lock, pc, stage, call, transport, pauses, pollLocals, history>>

(* No error; AuthError, which every shield of the poll path lets through   *)
(* (LoginRefused is one); any other Exception, which the shields swallow.  *)
NoFailure == "none"
Failures == {"auth", "other"}

Inside == {"held", "call", "pause", "sent", "login", "posted"}
OnTheWire == {"sent", "posted"}
Stages == {"gate", "session", "devices", "refresh", "reading", "done"}

DeadlinePassed == deadline # Free /\ deadline \in spent

Init ==
    /\ lock = Free
    /\ pc = [t \in Threads |-> "idle"]
    /\ stage = "gate"
    /\ call = [attempt |-> 1, attempts |-> 2, resend |-> FALSE, relogin |-> FALSE]
    /\ session = "none" /\ validLogin = FALSE /\ devicesFetched = FALSE
    /\ blocked = FALSE /\ refusedLogins = 0 /\ slipped = 0
    /\ deadline = Free /\ spent = {} /\ reloginFailure = NoFailure /\ gaveUp = {}
    /\ written = FALSE /\ closed = FALSE

-----------------------------------------------------------------------------
(* Queueing for the lock *)

(* Home Assistant starts no operation on an api whose unload has come as   *)
(* far as closing its transport; what is queued by then stays queued.  A   *)
(* read-back follows an accepted write.                                    *)
Begin(t) ==
    /\ pc[t] = "idle"
    /\ ~closed
    /\ t \in Rereads => written
    /\ \A c \in Closes : pc[c] = "idle"
    /\ pc' = [pc EXCEPT ![t] = "queued"]
    /\ spent' = spent \ {t}
    /\ gaveUp' = gaveUp \ {t}
    /\ UNCHANGED <<lock, stage, call, transport, pauses, deadline,
                   reloginFailure, history>>

(* Mutant: a write relies on the login somebody else has made. *)
FirstStageReads(t) == IF t \in Polls THEN "gate" ELSE "reading"

(* Where an operation enters its body: a poll asks for the pause first, a  *)
(* write for a login, a read-back sends its refresh at once.               *)
FirstStage(t) ==
    CASE t \in Polls   -> "gate"
      [] t \in Writers -> "session"
      [] OTHER         -> "refresh"

Acquire(t) ==
    /\ pc[t] = "queued"
    /\ lock = Free
    /\ lock' = t
    /\ pc' = [pc EXCEPT ![t] = "held"]
    /\ stage' = FirstStage(t)
    /\ deadline' = IF t \in Polls THEN t ELSE deadline
    /\ UNCHANGED <<call, transport, pauses, spent, reloginFailure, gaveUp, history>>

(* ApiBusyError, or the recovery's "not resetting": the wait ran out.  A   *)
(* poll's wait counts against the same 330 s as its reading.               *)
GiveUp(t) ==
    /\ pc[t] = "queued"
    /\ lock # Free
    /\ t \notin Closes
    /\ t \in Polls => t \in spent
    /\ pc' = [pc EXCEPT ![t] = "idle"]
    /\ UNCHANGED <<lock, stage, call, transport, pauses, pollLocals, history>>

BudgetRunsOut(p) ==
    /\ pc[p] # "idle"
    /\ p \notin spent
    /\ spent' = spent \cup {p}
    /\ UNCHANGED <<lock, pc, stage, call, transport, pauses, deadline,
                   reloginFailure, gaveUp, history>>

(* Mutant: the `finally` leaves the stored failure. *)
LeaveTheFailure(t) ==
    /\ lock' = Free /\ pc' = [pc EXCEPT ![t] = "idle"]
    /\ deadline' = IF t \in Polls THEN Free ELSE deadline
    /\ UNCHANGED <<reloginFailure, spent, gaveUp>>

(* The `finally` of every operation.  Only fetch_data has poll state to    *)
(* take back.                                                              *)
Leave(t) ==
    /\ lock' = Free
    /\ pc' = [pc EXCEPT ![t] = "idle"]
    /\ deadline' = IF t \in Polls THEN Free ELSE deadline
    /\ reloginFailure' = IF t \in Polls THEN NoFailure ELSE reloginFailure
    /\ UNCHANGED <<spent, gaveUp>>

-----------------------------------------------------------------------------
(* The body of an operation *)

(* _fetch_data asks for the pause before it starts anything. *)
EnterCycle(p) ==
    /\ pc[p] = "held" /\ stage = "gate"
    /\ \/ blocked /\ Leave(p) /\ UNCHANGED stage
       \/ ~blocked /\ stage' = "session" /\ UNCHANGED <<lock, pc, pollLocals>>
    /\ UNCHANGED <<call, transport, pauses, history>>

(* _ensure_api_session, and the first lines of change_value. *)
EnsureSession(t) ==
    /\ pc[t] = "held" /\ stage = "session"
    /\ \/ /\ ~validLogin
          /\ pc' = [pc EXCEPT ![t] = "login"]
          /\ call' = [call EXCEPT !.relogin = FALSE]
          /\ UNCHANGED stage
       \/ /\ validLogin
          /\ stage' = IF t \in Polls /\ ~devicesFetched THEN "devices" ELSE "reading"
          /\ UNCHANGED <<pc, call>>
    /\ UNCHANGED <<lock, transport, pauses, pollLocals, history>>

(* get_devices came to its end. *)
DevicesFetched(p) ==
    /\ pc[p] = "held" /\ stage = "devices"
    /\ devicesFetched' = TRUE
    /\ stage' = "reading"
    /\ UNCHANGED <<lock, pc, call, session, validLogin, pauses, pollLocals, history>>

(* Mutant: the stored re-login failure is not asked for. *)
StartCallAgain(t) ==
    /\ pc[t] = "held" /\ stage \in {"devices", "refresh", "reading"}
    /\ call' = [attempt |-> 1, attempts |-> 2, resend |-> FALSE, relogin |-> FALSE]
    /\ pc' = [pc EXCEPT ![t] = "call"]
    /\ UNCHANGED <<lock, stage, transport, pauses, pollLocals, history>>

(* One more request: of the poll, the write, or the two of a read-back.    *)
(* `resend` is retry_transport, which a write and a refresh never ask for  *)
(* and the value read always does; one call site of the poll asks for no   *)
(* retry at all.                                                           *)
StartCall(t) ==
    /\ pc[t] = "held" /\ stage \in {"devices", "refresh", "reading"}
    /\ reloginFailure = NoFailure
    /\ \E resend \in BOOLEAN, attempts \in {1, 2} :
          /\ resend => attempts = 2
          /\ t \notin Polls =>
                attempts = 2 /\ (resend <=> t \in Rereads /\ stage = "reading")
          /\ call' = [attempt |-> 1, attempts |-> attempts, resend |-> resend,
                      relogin |-> FALSE]
    /\ pc' = [pc EXCEPT ![t] = "call"]
    /\ UNCHANGED <<lock, stage, transport, pauses, pollLocals, history>>

(* The operation comes to its end: nothing more to ask, an answer it could *)
(* not read, or a stored re-login failure, which make_api_call raises      *)
(* without a request.  One that a poll swallows changes no state.          *)
Finish(t) ==
    /\ pc[t] = "held"
    /\ stage \in {"devices", "refresh", "reading", "done"}
    /\ written' = (written \/ (t \in Writers /\ stage = "done"))
    /\ Leave(t)
    /\ UNCHANGED <<stage, call, transport, pauses, closed>>

(* What an error out of make_api_call means for the operation: an          *)
(* AuthError passes every shield of a poll, anything else may be swallowed *)
(* there; a write and a read-back end with it.                             *)
CallFails(t, failure) ==
    \/ Leave(t)
    \/ /\ t \in Polls
       /\ failure # "auth"
       /\ pc' = [pc EXCEPT ![t] = "held"]
       /\ UNCHANGED <<lock, pollLocals>>

-----------------------------------------------------------------------------
(* make_api_call *)

(* The 403 pause starts; only requests from here on slip into it. *)
Block ==
    /\ blocked' = TRUE
    /\ slipped' = IF blocked THEN slipped ELSE 0

(* Mutant: the pause is only asked for once, at the top of the poll. *)
GateOpen(t) ==
    /\ pc[t] = "call"
    /\ pc' = [pc EXCEPT ![t] = "pause"]
    /\ UNCHANGED <<lock, pollLocals, stage, call, transport, pauses, history>>

(* check_cooldown, at the top of every attempt. *)
Gate(t) ==
    /\ pc[t] = "call"
    /\ \/ blocked /\ CallFails(t, "other")
       \/ /\ ~blocked
          /\ pc' = [pc EXCEPT ![t] = "pause"]
          /\ UNCHANGED <<lock, pollLocals>>
    /\ UNCHANGED <<stage, call, transport, pauses, history>>

PutOnTheWire(t, where) ==
    /\ pc' = [pc EXCEPT ![t] = where]
    /\ slipped' = IF blocked THEN slipped + 1 ELSE slipped

(* Mutant: nothing asks for the deadline before the send. *)
SendRegardless(t) ==
    /\ pc[t] = "pause"
    /\ IF session = "none"
       THEN CallFails(t, "other") /\ UNCHANGED slipped
       ELSE PutOnTheWire(t, "sent") /\ UNCHANGED <<lock, pollLocals>>
    /\ UNCHANGED <<stage, call, transport, blocked, refusedLogins, history>>

(* After the courtesy pause: check_deadline, whose PollDeadlineExceeded    *)
(* passes every handler, then the send - which asserts that there is a     *)
(* session.                                                                *)
Send(t) ==
    /\ pc[t] = "pause"
    /\ \/ /\ DeadlinePassed
          /\ Leave(t)
          /\ UNCHANGED slipped
       \/ /\ ~DeadlinePassed /\ session = "none"
          /\ CallFails(t, "other")
          /\ UNCHANGED slipped
       \/ /\ ~DeadlinePassed /\ session = "open"
          /\ PutOnTheWire(t, "sent")
          /\ UNCHANGED <<lock, pollLocals>>
    /\ UNCHANGED <<stage, call, transport, blocked, refusedLogins, history>>

Retries == call.attempt < call.attempts

AnswerGood(t) ==
    /\ pc' = [pc EXCEPT ![t] = "held"]
    /\ stage' = CASE t \in Polls         -> stage
                  [] stage = "refresh"   -> "reading"
                  [] OTHER               -> "done"
    /\ UNCHANGED <<lock, call, transport, pauses, pollLocals>>

(* A 403: the pause begins, the login is given up, no retry. *)
AnswerForbidden(t) ==
    /\ Block
    /\ validLogin' = FALSE
    /\ CallFails(t, "other")
    /\ UNCHANGED <<stage, call, session, devicesFetched, refusedLogins>>

(* A 401 or a redirect to the login page: one re-login, if an attempt is   *)
(* left to use it.                                                         *)
AnswerExpired(t) ==
    /\ \/ /\ Retries
          /\ pc' = [pc EXCEPT ![t] = "login"]
          /\ call' = [call EXCEPT !.relogin = TRUE]
          /\ UNCHANGED <<lock, validLogin, pollLocals>>
       \/ /\ ~Retries
          /\ validLogin' = FALSE
          /\ CallFails(t, "other")
          /\ UNCHANGED call
    /\ UNCHANGED <<stage, session, devicesFetched, pauses>>

(* No answer at all; repeated only where the call site asked for it. *)
AnswerLost(t) ==
    /\ \/ /\ call.resend /\ Retries
          /\ pc' = [pc EXCEPT ![t] = "call"]
          /\ call' = [call EXCEPT !.attempt = 2]
          /\ UNCHANGED <<lock, pollLocals>>
       \/ /\ ~(call.resend /\ Retries)
          /\ CallFails(t, "other")
          /\ UNCHANGED call
    /\ UNCHANGED <<stage, transport, pauses>>

(* Any other status: about the request, not about the login. *)
AnswerBad(t) ==
    /\ CallFails(t, "other")
    /\ UNCHANGED <<stage, call, transport, pauses>>

Answer(t) ==
    /\ pc[t] = "sent"
    /\ AnswerGood(t) \/ AnswerForbidden(t) \/ AnswerExpired(t)
          \/ AnswerLost(t) \/ AnswerBad(t)
    /\ UNCHANGED history

-----------------------------------------------------------------------------
(* api_login *)

(* A login that failed.  Inside a request of a poll it is kept for the     *)
(* rest of the poll (_log_in_again); at the top of an operation it ends it.*)
LoginFails(t, failure) ==
    IF call.relogin
    THEN /\ gaveUp' = IF t \in Polls THEN gaveUp \cup {t} ELSE gaveUp
         /\ UNCHANGED spent
         /\ \/ /\ lock' = Free
               /\ pc' = [pc EXCEPT ![t] = "idle"]
               /\ deadline' = IF t \in Polls THEN Free ELSE deadline
               /\ reloginFailure' = IF t \in Polls THEN NoFailure ELSE reloginFailure
            \/ /\ t \in Polls /\ failure # "auth"
               /\ pc' = [pc EXCEPT ![t] = "held"]
               /\ reloginFailure' = IF deadline # Free THEN failure ELSE reloginFailure
               /\ UNCHANGED <<lock, deadline>>
    ELSE Leave(t)

(* The two gates, then a new session for the POST; the login the old one   *)
(* carried is gone with it.                                                *)
StartLogin(t) ==
    /\ pc[t] = "login"
    /\ \/ /\ blocked
          /\ LoginFails(t, "other")
          /\ UNCHANGED <<session, validLogin, slipped>>
       \/ /\ ~blocked /\ DeadlinePassed
          /\ Leave(t)
          /\ UNCHANGED <<session, validLogin, slipped>>
       \/ /\ ~blocked /\ ~DeadlinePassed
          /\ session' = "open"
          /\ validLogin' = FALSE
          /\ PutOnTheWire(t, "posted")
          /\ UNCHANGED <<lock, pollLocals>>
    /\ UNCHANGED <<stage, call, devicesFetched, blocked, refusedLogins, history>>

LoginAccepted(t) ==
    /\ validLogin' = TRUE
    /\ refusedLogins' = 0
    /\ IF call.relogin
       THEN pc' = [pc EXCEPT ![t] = "call"] /\ call' = [call EXCEPT !.attempt = 2]
       ELSE pc' = [pc EXCEPT ![t] = "held"] /\ UNCHANGED call
    /\ UNCHANGED <<lock, pollLocals, blocked, slipped>>

(* _raise_login_failure on anything but a 403: wrong credentials are an    *)
(* AuthError; maintenance, a 500, HTML, no answer are not.                 *)
LoginRejected(t) ==
    /\ \E failure \in Failures : LoginFails(t, failure)
    /\ UNCHANGED <<call, validLogin, pauses>>

(* A 403: the first bare one in a row is let pass as LoginRefused, any     *)
(* other one is the block.                                                 *)
LoginForbidden(t) ==
    /\ refusedLogins' = IF refusedLogins < 2 THEN refusedLogins + 1 ELSE 2
    /\ \/ /\ refusedLogins = 0
          /\ LoginFails(t, "auth")
          /\ UNCHANGED <<blocked, slipped>>
       \/ /\ Block
          /\ LoginFails(t, "other")
    /\ UNCHANGED <<call, validLogin>>

LoginAnswer(t) ==
    /\ pc[t] = "posted"
    /\ LoginAccepted(t) \/ LoginRejected(t) \/ LoginForbidden(t)
    /\ UNCHANGED <<stage, session, devicesFetched, history>>

-----------------------------------------------------------------------------
(* Recovery, teardown, and what happens outside this object *)

(* _reset_transport_locked: the sessions, the login and the device list go. *)
ResetTransport(r) ==
    /\ pc[r] = "held"
    /\ session' = "none" /\ validLogin' = FALSE /\ devicesFetched' = FALSE
    /\ Leave(r)
    /\ UNCHANGED <<stage, call, pauses, history>>

(* close_transport with the lock. *)
CloseTransport(c) ==
    /\ pc[c] = "held"
    /\ session' = "none" /\ closed' = TRUE
    /\ Leave(c)
    /\ UNCHANGED <<stage, call, validLogin, devicesFetched, pauses, written>>

(* Mutant: the teardown releases a lock it does not hold. *)
CloseReleases(c) ==
    /\ pc[c] = "queued" /\ lock # Free
    /\ session' = "none" /\ closed' = TRUE
    /\ pc' = [pc EXCEPT ![c] = "idle"] /\ lock' = Free
    /\ UNCHANGED <<stage, call, validLogin, devicesFetched, pauses, pollLocals, written>>

(* close_transport after waiting in vain: it closes all the same. *)
CloseAnyway(c) ==
    /\ pc[c] = "queued"
    /\ lock # Free
    /\ session' = "none" /\ closed' = TRUE
    /\ pc' = [pc EXCEPT ![c] = "idle"]
    /\ UNCHANGED <<lock, stage, call, validLogin, devicesFetched, pauses, pollLocals, written>>

(* The pause is IP-wide: another account, the scrape or the expert path    *)
(* can start it at any time.                                               *)
RefusedElsewhere ==
    /\ ~blocked
    /\ Block
    /\ UNCHANGED <<lock, pc, stage, call, transport, refusedLogins, pollLocals, history>>

PauseEnds ==
    /\ blocked
    /\ blocked' = FALSE /\ slipped' = 0
    /\ UNCHANGED <<lock, pc, stage, call, transport, refusedLogins, pollLocals, history>>

-----------------------------------------------------------------------------
(* Every step of a thread, apart from deciding to begin. *)
Step(t) ==
    \/ Acquire(t)
    \/ GiveUp(t)
    \/ t \in Polls /\ (EnterCycle(t) \/ DevicesFetched(t))
    \/ t \in Polls \cup Writers /\ EnsureSession(t)
    \/ t \in Requesters /\ (StartCall(t) \/ Finish(t) \/ Gate(t) \/ Send(t)
                               \/ Answer(t) \/ StartLogin(t) \/ LoginAnswer(t))
    \/ t \in Resets /\ ResetTransport(t)
    \/ t \in Closes /\ (CloseTransport(t) \/ CloseAnyway(t))

Next ==
    \/ \E t \in Threads : Begin(t) \/ Step(t)
    \/ \E p \in Polls : BudgetRunsOut(p)
    \/ RefusedElsewhere
    \/ PauseEnds

Spec == Init /\ [][Next]_vars

(* While the pause holds, every call of a poll fails at its gate, at once  *)
(* and before the deadline is asked: the poll comes to the end of its      *)
(* (finite) list of calls.                                                 *)
RunsOutOfCalls(p) == blocked /\ (DevicesFetched(p) \/ Finish(p))

(* Threads keep running, and a poll's clock keeps running; that anybody    *)
(* starts an operation, or that a pause ends, is not assumed.              *)
Fairness ==
    /\ \A t \in Threads : WF_vars(pc[t] # "idle" /\ Step(t))
    /\ \A p \in Polls : WF_vars(BudgetRunsOut(p)) /\ SF_vars(RunsOutOfCalls(p))

FairSpec == Spec /\ Fairness

-----------------------------------------------------------------------------
TypeOK ==
    /\ lock \in Threads \cup {Free}
    /\ pc \in [Threads -> {"idle", "queued"} \cup Inside]
    /\ stage \in Stages
    /\ call \in [attempt : {1, 2}, attempts : {1, 2}, resend : BOOLEAN, relogin : BOOLEAN]
    /\ session \in {"none", "open"}
    /\ validLogin \in BOOLEAN /\ devicesFetched \in BOOLEAN
    /\ blocked \in BOOLEAN /\ refusedLogins \in 0..2 /\ slipped \in Nat
    /\ deadline \in Polls \cup {Free} /\ spent \subseteq Polls
    /\ reloginFailure \in Failures \cup {NoFailure} /\ gaveUp \subseteq Polls
    /\ written \in BOOLEAN /\ closed \in BOOLEAN

(* One thread at a time is inside: the lock's holder is the only one past  *)
(* Acquire, so no two requests are ever out on the one session.            *)
OneInside == \A t \in Threads : pc[t] \in Inside <=> lock = t

(* The deadline lives in a field every thread reads, but it is only ever   *)
(* the deadline of the poll that holds the lock: a write behind a poll, or *)
(* a poll behind a poll, is never stopped by somebody else's budget.       *)
DeadlineIsTheHolders ==
    deadline = IF lock \in Polls THEN lock ELSE Free

(* A failed re-login is remembered for the rest of that poll and not one   *)
(* request longer: the next operation starts without it.                   *)
FailureStaysInItsPoll ==
    reloginFailure # NoFailure => lock \in Polls /\ lock \in gaveUp

(* A poll whose re-login failed sends nothing more - no request and no     *)
(* further login - however many of its shields swallowed the failure.      *)
NoRequestAfterFailedRelogin ==
    \A p \in gaveUp : pc[p] \notin OnTheWire

(* Once a 403 has started the pause, at most one request of this account   *)
(* still leaves: the one that had passed its gate and sat in the courtesy  *)
(* pause.  Retries and re-logins do not follow it.                         *)
AtMostOneSlips == slipped <= 1

(* Whoever finds valid_login set and skips the login finds a session to    *)
(* send on, as long as the object has not been torn down.                  *)
LoginHasASession == validLogin /\ ~closed => session = "open"

(* A request of a poll or a write is only sent on an existing session:     *)
(* _send asserts it and calls its absence a programming error.  Of a       *)
(* read-back it is false: it logs in nowhere, and a recovery that queued   *)
(* behind its write has dropped the session.                               *)
SendFindsASession ==
    \A t \in Polls \cup Writers : pc[t] = "pause" /\ ~closed => session = "open"

(* What close_transport is for: once it has run and nothing is in flight,  *)
(* no session of this object is left open.  Of the code this is false: a   *)
(* write that was queued when the teardown ran logs in afterwards.         *)
NoSessionAfterClose ==
    closed /\ (\A t \in Threads : pc[t] = "idle") => session = "none"

(* No thread gives the lock away while the portal still owes it an answer, *)
(* and none but the holder sends: the lock is the turn of PortalTurns.     *)
Turns == INSTANCE PortalTurns
             WITH holder <- lock, wire <- {t \in Threads : pc[t] \in OnTheWire}
TakesTurns == Turns!Spec

(* Whoever queues for the connection gets it or is told it is busy; a      *)
(* teardown always closes.                                                 *)
NobodyWaitsForever == \A t \in Threads : pc[t] = "queued" ~> pc[t] # "queued"

(* The deadline is what bounds a poll: however many requests it still      *)
(* wants and however the portal answers, it lets go of the lock.           *)
LockIsReleased == \A t \in Threads : lock = t ~> lock # t
(* What a thread finds when it gets the lock: nobody else inside, no       *)
(* deadline and no stored failure of an earlier poll, and a login that is  *)
(* backed by a session (_api_lock and what fetch_data's `finally` clears). *)
Ownership ==
    /\ TypeOK /\ OneInside /\ DeadlineIsTheHolders
    /\ FailureStaysInItsPoll /\ LoginHasASession

(* Nobody hangs: a waiter gets in or gives up, a holder lets go.           *)
ThreadsMakeProgress == NobodyWaitsForever /\ LockIsReleased
=============================================================================
