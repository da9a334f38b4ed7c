----------------------------- MODULE ExpertPoll -----------------------------
(***************************************************************************)
(* What one entry's expert entities show: the optional timer chain that    *)
(* reads all their parameters in one session, the tally that decides when  *)
(* a value is no longer worth showing and when a parameter is reported,    *)
(* and the two kinds of write that show what they read back.               *)
(*                                                                         *)
(* A value is the number of the portal's change it reads.  A worker takes  *)
(* the account's lock as its request begins, so a request that finds it    *)
(* taken is refused there; its result reaches the event loop after the     *)
(* lock is free, in the order of the releases: the next holder needs       *)
(* several requests first.                                                 *)
(***************************************************************************)
EXTENDS Integers, Sequences

CONSTANTS
    Ids,            \* configured parameters, each with its entity
    Unreadable,     \* those no request can be made for
    FailsToReport,  \* FAILURES_BEFORE_NOTIFYING
    DeadCycles,     \* BATCH_FAILURES_BEFORE_VALUES_ARE_STALE
    Routes,         \* of the writes: "entity", "service"
    MostChanges,    \* bound of the changes at the portal
    MostUnseen,     \* bound of the history of unanswered cycles
    Busy            \* who else holds the account's lock: a sibling or a flow

ASSUME PollAssumption ==
    /\ Ids # {} /\ Unreadable \subseteq Ids /\ Ids \cap {"poll", "free"} = {}
    /\ Routes \subseteq {"entity", "service"}
    /\ FailsToReport \in Nat \ {0} /\ DeadCycles \in Nat \ {0}
    /\ MostChanges \in Nat /\ MostUnseen \in Nat
    /\ Busy \notin Ids \cup {"poll", "free"}

VARIABLES
    entities,   \* entities Home Assistant has added
    waiting,    \* entities it has not added yet
    shown,      \* the value each shows, Nothing if none
    fails,      \* fail_counts
    notified,   \* fail_notified
    issues,     \* the repair issues that are up
    askedAt,    \* _reported_asked_at: "never", "today", "yesterday"
    dead,       \* _batch_failures
    timers,     \* polls that are scheduled
    poll,       \* the running one
    life,       \* "new", "armed", "started", "going", "stopped"
    unloading,  \* its unload has begun
    expertLock, \* expert_lock
    write,      \* the write of each parameter
    inbox,      \* results on their way to the event loop
    change,     \* changes of each parameter at the portal
    hist        \* history, per parameter; see Fresh

pollVars == <<entities, waiting, shown, fails, notified, issues, askedAt, dead, timers,
              poll, life, unloading, expertLock, write, inbox, change, hist>>

Nothing == -1
Tally == <<fails, notified, issues, askedAt, dead>>
Portal == <<expertLock, write, inbox, change>>
Wiring == <<entities, waiting, life, unloading>>
Chain == <<timers, poll>>

AtMost(i, j) == IF i < j THEN i ELSE j
(* unseen: cycles since its value was applied, or since a write, of any,   *)
(* was confirmed; refilled: from a write that failed; unfair: a miss was   *)
(* counted in a cycle in which nothing answered; known: the change a write *)
(* last confirmed here.                                                    *)
Fresh == [unseen |-> 0, refilled |-> FALSE, unfair |-> FALSE, known |-> 0]
NoPoll == [pc |-> "none", asked |-> {}, got |-> << >>, initial |-> FALSE]
NoWrite == [pc |-> "none", route |-> "entity", out |-> "failed", val |-> 0]

PollInit ==
    /\ entities = {} /\ waiting = Ids
    /\ shown \in [Ids -> {Nothing, 0}]
    /\ fails = [i \in Ids |-> 0] /\ notified = {} /\ issues = {}
    /\ askedAt = [i \in Ids |-> "never"] /\ dead = 0
    /\ timers = 0 /\ poll = NoPoll
    /\ life = "new" /\ unloading = FALSE
    /\ expertLock = "free" /\ inbox = << >>
    /\ write = [i \in Ids |-> NoWrite] /\ change = [i \in Ids |-> 0]
    /\ hist = [i \in Ids |-> Fresh]

-----------------------------------------------------------------------------
(* setup_auto_poll, attach_entity, start: whoever comes last starts it.    *)

Started(l, es) ==
    IF l = "armed" /\ es # {}
    THEN life' = "started" /\ timers' = timers + 1
    ELSE life' = l /\ UNCHANGED timers

SetUp ==
    /\ life = "new" /\ Started("armed", entities)
    /\ UNCHANGED <<entities, waiting, shown, Tally, poll, unloading, Portal, hist>>

(* An entity restores its last value as it joins.  They all join in the    *)
(* platform's setup, before an hourly read can have failed.                *)
Attach(i) ==
    /\ i \in waiting /\ ~unloading /\ dead = 0
    /\ waiting' = waiting \ {i} /\ entities' = entities \cup {i}
    /\ Started(life, entities')
    /\ hist' = [hist EXCEPT ![i].unseen = 0]
    /\ UNCHANGED <<shown, Tally, poll, unloading, Portal>>

(* detach_entity: the bookkeeping of an id goes with its entity.           *)
Without(is) ==
    /\ fails' = [i \in Ids |-> IF i \in is THEN 0 ELSE fails[i]]
    /\ askedAt' = [i \in Ids |-> IF i \in is THEN "never" ELSE askedAt[i]]
    /\ notified' = notified \ is /\ issues' = issues \ (is \cap notified)

Detach(i) ==
    /\ i \in entities
    /\ entities' = entities \ {i}
    /\ Without({i})
    /\ hist' = [hist EXCEPT ![i] = [Fresh EXCEPT !.known = hist[i].known]]
    /\ UNCHANGED <<waiting, shown, dead, Chain, life, unloading, Portal>>

(* An entity id is renamed: the same entity leaves and joins in one step.  *)
Rename(i) ==
    /\ i \in entities /\ ~unloading
    /\ Without({i})
    /\ Started(life, entities)
    /\ hist' = [hist EXCEPT ![i] = [Fresh EXCEPT !.known = hist[i].known,
                                               !.refilled = hist[i].refilled]]
    /\ UNCHANGED <<entities, waiting, shown, dead, poll, unloading, Portal>>

UnloadBegins == ~unloading /\ life # "stopped" /\ unloading' = TRUE
    /\ UNCHANGED <<entities, waiting, life, shown, Tally, Chain, Portal, hist>>
UnloadIsRefused == unloading /\ life # "stopped" /\ unloading' = FALSE
    /\ UNCHANGED <<entities, waiting, life, shown, Tally, Chain, Portal, hist>>

(* The platforms are down and stop() runs: the timer is cancelled, and the *)
(* initial read, which is a task - its worker goes on.                     *)
Stop ==
    /\ unloading /\ life # "stopped"
    /\ entities' = {} /\ waiting' = {} /\ Without(entities)
    /\ life' = "stopped" /\ timers' = 0
    /\ poll' = IF poll.initial
             THEN [poll EXCEPT !.pc = IF @ = "reading" THEN "orphan" ELSE "gone"]
             ELSE poll
    /\ hist' = [i \in Ids |-> [Fresh EXCEPT !.known = hist[i].known]]
    /\ UNCHANGED <<shown, dead, unloading, Portal>>

-----------------------------------------------------------------------------
(* poll(): what is due, the guards, the batch in a worker.                 *)

(* Mutant: a cycle that was skipped schedules nothing. *)
RescheduleAfterReads ==
    timers' = IF life = "stopped" \/ poll.pc = "none" THEN 0 ELSE 1

(* Never into an entry that is gone.                                       *)
Reschedule == timers' = IF life = "stopped" THEN 0 ELSE 1

Due == {i \in entities : askedAt[i] # "today"}
Writing == {i \in entities : write[i].pc # "none" /\ write[i].route = "entity"}

PollBegins ==
    /\ timers > 0 /\ poll.pc = "none"
    /\ life' = "going"
    /\ IF Due = {} \/ Writing # {} \/ expertLock # "free"
       THEN Reschedule /\ UNCHANGED <<poll, expertLock>>
       ELSE /\ poll' = [pc |-> "reading", asked |-> Due, got |-> [i \in {} |-> 0],
                        initial |-> life = "started"]
            /\ expertLock' = "poll" /\ timers' = timers - 1
    /\ UNCHANGED <<entities, waiting, unloading, shown, Tally, write, inbox, change, hist>>

Left == (poll.asked \ Unreadable) \ DOMAIN poll.got

(* read_many: the ids one after another; one that fails is booked as that. *)
ReadId(i) ==
    /\ poll.pc \in {"reading", "orphan"} /\ i \in Left
    /\ ~unloading /\ life # "stopped"
    /\ \E v \in {change[i], Nothing} :
          poll' = [poll EXCEPT !.got = [j \in DOMAIN poll.got \cup {i} |->
                                           IF j = i THEN v ELSE poll.got[j]]]
    /\ UNCHANGED <<Wiring, shown, Tally, timers, Portal, hist>>

(* The worker is done: with every id, or with an exception - stopped at a  *)
(* gate, refused, a session that broke.                                    *)
WorkerEnds(how) ==
    /\ poll.pc \in {"reading", "orphan"}
    /\ \/ how = "done" /\ Left = {}
       \/ how = "aborted" /\ Left # {} /\ (unloading \/ life = "stopped")
       \/ how = "failed" /\ Left # {} /\ ~unloading /\ life # "stopped"
    /\ expertLock' = "free"
    /\ IF poll.pc = "orphan"
       THEN poll' = NoPoll /\ UNCHANGED inbox
       ELSE poll' = [poll EXCEPT !.pc = how] /\ inbox' = Append(inbox, "poll")
    /\ UNCHANGED <<Wiring, shown, Tally, timers, write, change, hist>>

-----------------------------------------------------------------------------
(* What a cycle says.  A cycle without any answer counts for every value,  *)
(* and takes them down exactly when the count is reached.                  *)
Answered == {i \in DOMAIN poll.got : poll.got[i] # Nothing}
More(d) == AtMost(d + 1, DeadCycles + 1)
Unseen(is) == [i \in Ids |-> IF i \in is
    THEN [hist[i] EXCEPT !.unseen = AtMost(@ + 1, MostUnseen)] ELSE hist[i]]

(* _register_batch_failure, for a cycle that ended in an exception.        *)
DeadCycle ==
    /\ dead' = More(dead)
    /\ shown' = [i \in Ids |-> IF i \in entities /\ dead + 1 = DeadCycles
                               THEN Nothing ELSE shown[i]]
    /\ hist' = Unseen(entities)
    /\ UNCHANGED <<fails, notified, issues, askedAt>>

Several(is) == \E i, j \in is : i # j

(* Mutant: only what was asked is known. *)
WholeBatchAsked == /\ DOMAIN poll.got # {} /\ Answered = {}
                   /\ Several(poll.asked)

(* Every id failed: no evidence about any of them, if there are several.   *)
WholeBatch == /\ DOMAIN poll.got # {} /\ Answered = {}
              /\ Several(entities \cup DOMAIN poll.got)

(* The day's try of a reported id is used up where it was read.            *)
Tried == {i \in poll.asked \cap entities : askedAt[i] # "never"}

(* Mutant: an answer ends the count, not the report. *)
CountedButReported(missed, heard) ==
    /\ fails' = [i \in Ids |-> IF i \in heard THEN 0
                               ELSE IF i \in missed THEN AtMost(fails[i] + 1, FailsToReport)
                               ELSE fails[i]]
    /\ LET tell == {i \in missed \ notified : fails'[i] = FailsToReport} IN
       /\ notified' = notified \cup tell
       /\ issues' = (issues \ (heard \cap notified)) \cup tell
       /\ askedAt' = [i \in Ids |-> IF i \in heard THEN "never"
                          ELSE IF i \in tell \cup Tried
                          THEN "today" ELSE askedAt[i]]

(* fail_counts, the report at the threshold, _note_the_id_answered.        *)
Counted(missed, heard) ==
    /\ fails' = [i \in Ids |-> IF i \in heard THEN 0
                               ELSE IF i \in missed THEN AtMost(fails[i] + 1, FailsToReport)
                               ELSE fails[i]]
    /\ LET tell == {i \in missed \ notified : fails'[i] = FailsToReport} IN
       /\ notified' = (notified \ heard) \cup tell
       /\ issues' = (issues \ (heard \cap notified)) \cup tell
       /\ askedAt' = [i \in Ids |-> IF i \in heard THEN "never"
                          ELSE IF i \in tell \cup Tried
                          THEN "today" ELSE askedAt[i]]

(* apply_read.  An entity that is being written discards its result.       *)
ApplyRead ==
    LET asked == poll.asked \cap entities
        missed == {i \in asked : \/ i \notin DOMAIN poll.got
                                 \/ i \notin Answered /\ ~WholeBatch}
        heard == asked \cap Answered
        told == {i \in missed \ notified : fails[i] + 1 >= FailsToReport}
        forget == told \cup IF WholeBatch /\ dead + 1 = DeadCycles THEN entities ELSE {}
        apply == heard \ Writing
    IN
    /\ Counted(missed, heard)
    /\ dead' = IF Answered # {} THEN 0 ELSE IF WholeBatch THEN More(dead) ELSE dead
    /\ shown' = [i \in Ids |-> IF i \in apply THEN poll.got[i]
                               ELSE IF i \in forget THEN Nothing ELSE shown[i]]
    /\ hist' = [i \in Ids |->
          IF i \in heard
          THEN [Fresh EXCEPT !.known = hist[i].known,
                             !.refilled = hist[i].refilled /\ i \notin apply]
          ELSE IF i \in asked
          THEN [hist[i] EXCEPT !.unseen = AtMost(@ + 1, MostUnseen),
                               !.unfair = @ \/ /\ i \in missed \ Unreadable
                                               /\ Answered = {} /\ entities # {i}]
          ELSE hist[i]]

Arrives(who) == inbox # << >> /\ Head(inbox) = who /\ inbox' = Tail(inbox)

Resume ==
    /\ Arrives("poll") /\ poll.pc # "gone"
    /\ CASE poll.pc = "done" -> ApplyRead
         [] poll.pc = "failed" -> DeadCycle
         [] OTHER -> UNCHANGED <<shown, Tally, hist>>
    /\ poll' = NoPoll /\ Reschedule
    /\ UNCHANGED <<Wiring, expertLock, write, change>>

(* The cancelled task is gone before its result arrives.                   *)
ResumeNobody ==
    /\ poll.pc = "gone" /\ Arrives("poll")
    /\ poll' = NoPoll
    /\ UNCHANGED <<Wiring, shown, Tally, timers, expertLock, write, change, hist>>

-----------------------------------------------------------------------------
(* The writes: an entity's, which refuses a second one, and the service's. *)

BeginWrite(i, route) ==
    /\ ~unloading /\ life # "stopped" /\ write[i].pc = "none"
    /\ route = "entity" => i \in entities
    /\ expertLock = "free"
    /\ write' = [write EXCEPT ![i] = [NoWrite EXCEPT !.pc = "running", !.route = route]]
    /\ expertLock' = i
    /\ UNCHANGED <<Wiring, shown, Tally, Chain, inbox, change, hist>>

(* Verified: the portal shows the new value.  Refused: not offered, or the *)
(* form still shows another; the failure carries what it showed.  Failed:  *)
(* anything else, after which the change may have been made.               *)
WriteEnds(i, out, made) ==
    /\ write[i].pc = "running"
    /\ IF made THEN out # "refused" ELSE out # "verified"
    /\ made => change[i] < MostChanges
    /\ change' = IF made THEN [change EXCEPT ![i] = @ + 1] ELSE change
    /\ write' = [write EXCEPT ![i].pc = "done", ![i].out = out, ![i].val = change'[i]]
    /\ expertLock' = "free" /\ inbox' = Append(inbox, i)
    /\ UNCHANGED <<Wiring, shown, Tally, Chain, hist>>

(* apply_verified_write, through the controller; a failed entity write     *)
(* applies what it saw itself, a failed service call nothing.              *)
WriteShown(i) ==
    LET w == write[i] IN
    /\ Arrives(i)
    /\ write' = [write EXCEPT ![i] = NoWrite]
    /\ IF i \in entities /\ w.out = "verified"
       THEN /\ fails' = [fails EXCEPT ![i] = 0]
            /\ notified' = notified \ {i} /\ issues' = issues \ ({i} \cap notified)
            /\ askedAt' = [askedAt EXCEPT ![i] = "never"] /\ dead' = 0
       ELSE UNCHANGED Tally
    /\ IF i \in entities /\ (w.out = "verified" \/ (w.out = "refused" /\ w.route = "entity"))
       THEN /\ shown' = [shown EXCEPT ![i] = w.val]
            /\ hist' = [j \in Ids |->
                  IF j = i
                  THEN [unseen |-> 0, refilled |-> w.out = "refused",
                        unfair |-> hist[j].unfair /\ w.out = "refused",
                        known |-> IF w.out = "verified" THEN w.val ELSE hist[j].known]
                  ELSE IF w.out = "verified" THEN [hist[j] EXCEPT !.unseen = 0] ELSE hist[j]]
       ELSE UNCHANGED <<shown, hist>>
    /\ UNCHANGED <<Wiring, Chain, expertLock, change>>

-----------------------------------------------------------------------------
(* Around it: the account's other operations, changes made elsewhere, time.*)
OthersTake == expertLock = "free" /\ expertLock' = Busy
              /\ UNCHANGED <<Wiring, shown, Tally, Chain, write, inbox, change, hist>>
OthersDone == expertLock = Busy /\ expertLock' = "free"
              /\ UNCHANGED <<Wiring, shown, Tally, Chain, write, inbox, change, hist>>
DayPasses(i) ==
    /\ askedAt[i] = "today" /\ askedAt' = [askedAt EXCEPT ![i] = "yesterday"]
    /\ UNCHANGED <<Wiring, shown, fails, notified, issues, dead, Chain, Portal, hist>>

PollSteps ==
    \/ PollBegins
    \/ \E i \in Ids : ReadId(i)
    \/ \E how \in {"done", "aborted", "failed"} : WorkerEnds(how)
    \/ Resume
WriteSteps(i) ==
    \/ \E out \in {"verified", "refused", "failed"}, made \in BOOLEAN : WriteEnds(i, out, made)
    \/ WriteShown(i)

PollNext ==
    \/ SetUp \/ UnloadBegins \/ UnloadIsRefused \/ Stop
    \/ PollSteps \/ ResumeNobody \/ OthersTake \/ OthersDone
    \/ \E i \in Ids : \/ Attach(i) \/ Detach(i) \/ Rename(i) \/ WriteSteps(i)
                      \/ \E route \in Routes : BeginWrite(i, route)
                      \/ DayPasses(i)

PollSpec == PollInit /\ [][PollNext]_pollVars

(* The timer fires, workers end, the event loop runs what is ready.        *)
PollFairness == /\ WF_pollVars(PollSteps) /\ WF_pollVars(OthersDone)
                /\ \A i \in Ids : WF_pollVars(WriteSteps(i))
PollFairSpec == PollSpec /\ PollFairness

-----------------------------------------------------------------------------
PollTypeOK ==
    /\ entities \subseteq Ids /\ waiting \subseteq Ids
    /\ shown \in [Ids -> Nothing..MostChanges]
    /\ fails \in [Ids -> 0..FailsToReport] /\ notified \subseteq Ids /\ issues \subseteq Ids
    /\ askedAt \in [Ids -> {"never", "today", "yesterday"}]
    /\ dead \in 0..(DeadCycles + 1) /\ timers \in 0..1
    /\ poll.pc \in {"none", "reading", "orphan", "gone", "done", "aborted", "failed"}
    /\ life \in {"new", "armed", "started", "going", "stopped"} /\ unloading \in BOOLEAN
    /\ expertLock \in Ids \cup {"free", "poll", Busy}
    /\ change \in [Ids -> 0..MostChanges]

(* However outages of the whole read and misses of one id alternate, a     *)
(* value goes at the latest with the last miss the two thresholds allow:   *)
(* one less than DeadCycles outages before each miss, and after the last.  *)
Longest == FailsToReport * DeadCycles - 1
UnconfirmedValuesGo ==
    \A i \in entities : shown[i] # Nothing /\ ~hist[i].refilled => hist[i].unseen <= Longest

(* "Nothing refills an expert value except a read that works, and that     *)
(* resets the count": no exception for what a failed write showed.         *)
EveryValueGoes ==
    \A i \in entities : shown[i] # Nothing => hist[i].unseen <= Longest

(* An outage blames nobody: no readable id is reported on a miss counted   *)
(* in a cycle in which nothing answered, unless it is the only one.        *)
OutagesBlameNobody == \A i \in notified : ~hist[i].unfair

(* A repair issue is up exactly for the reported streaks of entities that  *)
(* are there.                                                              *)
IssuesMatch == issues = notified /\ notified \subseteq entities

(* What is shown is at least as new as the last write this entity saw      *)
(* confirmed: a read that began before it is not applied after it.         *)
ShownIsNewest ==
    \A i \in entities : shown[i] # Nothing => shown[i] >= hist[i].known

(* One chain per entry, and none in a stopped one.                         *)
OneChain ==
    /\ poll.pc \notin {"none", "orphan", "gone"} => timers = 0
    /\ life = "stopped" => timers = 0
    /\ timers <= 1

(* A skipped, failed, refused or aborted cycle is followed by another.     *)
ChainGoesOn == (life = "going") ~> (timers = 1 \/ life = "stopped")
(* The counts, reports and timers of the poll match what happened: issues  *)
(* for the entities that are there, none for an outage, one chain.         *)
ReportsMatch == PollTypeOK /\ OutagesBlameNobody /\ IssuesMatch /\ OneChain

(* What an entity shows was confirmed recently, and by nothing older than  *)
(* its last write.                                                         *)
ShownIsConfirmed == UnconfirmedValuesGo /\ ShownIsNewest
=============================================================================
