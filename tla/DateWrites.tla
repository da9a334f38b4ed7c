----------------------------- MODULE DateWrites -----------------------------
(***************************************************************************)
(* A holiday is two date parameters of one module, and the portal may      *)
(* accept a write and keep nothing of it.  So every write of a date sends  *)
(* the module's other dates along, publishes what was accepted, reads the  *)
(* dates again and says what it found: from the date entities, one date at *)
(* a time, and from the service that writes both.                          *)
(*                                                                         *)
(* A reading is an object.  The api's dict and the coordinator's hold the  *)
(* same objects until a poll reads the device list again and rebinds the   *)
(* api's: from there to the next published poll a row that is REPLACED in  *)
(* the api's dict is no longer the coordinator's row, while one that is    *)
(* changed in place still is.                                              *)
(*                                                                         *)
(* The device stays listed, and its dates described; a date an answer      *)
(* carries has a day; logins are part of a refused write.                  *)
(***************************************************************************)
EXTENDS Naturals, Functions

CONSTANTS
    Begin, End,     \* the two dates of the module
    Calls,          \* service calls that can be under way at once
    Owns,           \* the dates each of them sets
    Once,           \* bound: calls that have one write accepted only
    Elsewhere,      \* dates somebody else sets
    Days,           \* days there are
    Unknown,        \* a reading without a value
    Free            \* nobody holds the api lock

Keys == {Begin, End}

ASSUME DatesAssumption ==
    /\ Begin # End /\ Days \subseteq Nat /\ Unknown \notin Days
    /\ Owns \in [Calls -> (SUBSET Keys) \ {{}}]
    /\ Once \subseteq Calls /\ Elsewhere \subseteq Keys
    /\ {Free, "poll"} \cap Calls = {} /\ Free # "poll"

VARIABLES
    lock,       \* _api_lock
    poll,       \* how far a cycle has come
    measured,   \* the days its refresh measured
    failed,     \* num_failed is not 0
    listDue,    \* ~_devices_fetched_this_session
    portal,     \* the days the heating system holds
    api,        \* the rows of api.data
    old,        \* the coordinator's rows, where they are other objects
    linked,     \* dates whose row is one object in both dicts
    attached,   \* coordinator.data is api.data
    pc,         \* where each call is
    call,       \* its locals
    foreign     \* history: changed at the portal by somebody else since it was read

polling == <<poll, measured, failed, listDue>>
rows == <<api, old, linked, attached>>
calls == <<pc, call>>
vars == <<lock, polling, portal, rows, calls, foreign>>

(* Where a reading's day is from (history): the portal said so; a write    *)
(* was accepted; the call left without settling that write; its read-back  *)
(* failed, and another object was blanked; a companion brought a blanked   *)
(* day back.  No day is left: a call took it down, not an answer.          *)
Tags == {"read", "asked", "cut", "missed", "again"}
Row(day, tag) == [day |-> day, tag |-> IF day = Unknown THEN "read" ELSE tag]
Blank == Row(Unknown, "read")
Gone == [day |-> Unknown, tag |-> "gone"]
Blanks == [k \in Keys |-> Unknown]

(* _coordinator_row: what an entity shows, and what a verdict is about.    *)
Shown(k) == IF k \in linked THEN api[k] ELSE old[k]

Nothing == [asked |-> <<>>, others |-> <<>>, unsure |-> {}, failed |-> FALSE,
            same |-> {}, other |-> {}]
OnItsWay == {"reread", "settling"}

Init ==
    /\ lock = Free /\ poll = "idle" /\ failed = FALSE /\ listDue = FALSE
    /\ portal \in [Keys -> Days]
    /\ measured = Blanks
    /\ api = [k \in Keys |-> Row(portal[k], "read")]
    /\ old = [k \in Keys |-> Blank]
    /\ linked = Keys /\ attached = TRUE
    /\ pc = [c \in Calls |-> "idle"] /\ call = [c \in Calls |-> Nothing]
    /\ foreign = {}

-----------------------------------------------------------------------------
(* Rows *)

(* process_api_values, of an answer that names the module: a new reading   *)
(* in the api's dict for every date it carries; a date it leaves out is    *)
(* blanked where it is (_clear_unanswered), which is in both dicts as long *)
(* as they share the object.                                               *)
Replace(ks, day) ==
    /\ api' = [k \in Keys |-> IF k \in ks THEN Row(day[k], "read") ELSE Blank]
    /\ linked' = IF attached THEN linked ELSE linked \ ks
    /\ old' = [k \in Keys |-> IF k \in linked \ linked' THEN api[k] ELSE old[k]]

(* That answer, as the calls under way will know it: a date carries the    *)
(* day asked for, or another one or none.                                  *)
Hear(ks, day) ==
    [c \in Calls |->
        IF pc[c] \in OnItsWay
        THEN LET same == {k \in Owns[c] \cap ks : day[k] = call[c].asked[k]}
             IN [call[c] EXCEPT !.same  = @ \cup same,
                                !.other = @ \cup (Owns[c] \ same)]
        ELSE call[c]]

(* _publish_accepted_values: in place, in the api's rows; a companion      *)
(* repeats the day it was read with.                                       *)
Publish(c, sent) ==
    api' = [k \in Keys |->
        IF k \notin DOMAIN sent THEN api[k]
        ELSE IF k \in Owns[c] THEN Row(sent[k], "asked")
        ELSE IF api[k].day = sent[k] THEN api[k]
        ELSE Row(sent[k], "again")]

-----------------------------------------------------------------------------
(* The poll *)

(* Mutant: a cycle does not ask for the lock. *)
PollUnasked ==
    /\ poll = "idle" /\ poll' = "running"
    /\ lock' = IF lock = Free THEN "poll" ELSE lock
    /\ UNCHANGED <<measured, failed, listDue, portal, rows, calls, foreign>>

PollBegins ==
    /\ poll = "idle" /\ lock = Free
    /\ poll' = "running" /\ lock' = "poll"
    /\ UNCHANGED <<measured, failed, listDue, portal, rows, calls, foreign>>

(* get_devices: a new dict, with the readings there are. *)
Rebind ==
    /\ poll = "running" /\ listDue
    /\ listDue' = FALSE /\ attached' = FALSE
    /\ UNCHANGED <<lock, poll, measured, failed, portal, api, old, linked, calls, foreign>>

(* The refresh and the value read ... *)
Measure ==
    /\ poll = "running" /\ ~listDue
    /\ poll' = "measured" /\ measured' = portal
    /\ UNCHANGED <<lock, failed, listDue, portal, rows, calls, foreign>>

(* ... and process_api_values, whichever dates the answer carries: a       *)
(* portal stops sending them once no holiday is set.                       *)
MapRows ==
    /\ poll = "measured" /\ poll' = "mapped"
    /\ \E ks \in SUBSET Keys :
          /\ Replace(ks, measured)
          /\ foreign' = {k \in foreign : k \notin ks \/ portal[k] # measured[k]}
          /\ call' = Hear(ks, measured)
    /\ measured' = Blanks
    /\ UNCHANGED <<lock, failed, listDue, portal, attached, pc>>

Release == lock' = IF lock = "poll" THEN Free ELSE lock

(* fetch_data returns its dict: of a cycle that has read this device, or   *)
(* only another one, or nothing (`both` with nothing due).                 *)
PollReturns ==
    /\ poll \in {"running", "mapped"} /\ ~listDue
    /\ poll' = "saving" /\ Release
    /\ failed' = FALSE
    /\ UNCHANGED <<measured, listDue, portal, rows, calls, foreign>>

(* Any failure; from the second in a row the transport may be reset. *)
PollFails ==
    /\ poll \in {"running", "measured", "mapped"}
    /\ poll' = "idle" /\ Release
    /\ failed' = TRUE /\ listDue' \in {listDue, listDue \/ failed}
    /\ measured' = Blanks
    /\ UNCHANGED <<portal, rows, calls, foreign>>

(* The stores are written, and coordinator.data is what was returned. *)
PollPublished ==
    /\ poll = "saving" /\ poll' = "idle"
    /\ attached' = TRUE /\ linked' = Keys /\ old' = [k \in Keys |-> Blank]
    /\ UNCHANGED <<lock, measured, failed, listDue, portal, api, calls, foreign>>

(* The timeout fires in the saves. *)
PollTimesOut ==
    /\ poll = "saving" /\ poll' = "idle"
    /\ failed' = TRUE
    /\ UNCHANGED <<lock, measured, listDue, portal, rows, calls, foreign>>

-----------------------------------------------------------------------------
(* A call *)

(* Its gates passed, its days converted; the service refuses a holiday     *)
(* that ends before it starts.                                             *)
Ask(c) ==
    /\ pc[c] = "idle"
    /\ \E asked \in [Owns[c] -> Days] :
          /\ Owns[c] = Keys => asked[Begin] <= asked[End]
          /\ call' = [call EXCEPT ![c] = [Nothing EXCEPT !.asked = asked]]
    /\ pc' = [pc EXCEPT ![c] = "queued"]
    /\ UNCHANGED <<lock, polling, portal, rows, foreign>>

(* Mutant: the companions are taken off the coordinator's rows. *)
CompanionsShown(c) ==
    IF Owns[c] = Keys THEN <<>>
    ELSE [k \in {j \in Keys \ Owns[c] : Shown(j).day # Unknown} |-> Shown(k).day]

(* date_companions, of the api's rows; the service sends both dates.       *)
Companions(c) ==
    IF Owns[c] = Keys THEN <<>>
    ELSE [k \in {j \in Keys \ Owns[c] : api[j].day # Unknown} |-> api[k].day]

(* change_value has the lock and reads the companions. *)
Enter(c) ==
    /\ pc[c] = "queued" /\ lock = Free
    /\ lock' = c
    /\ pc' = [pc EXCEPT ![c] = "posting"]
    /\ call' = [call EXCEPT ![c].others = Companions(c),
                            ![c].unsure = {k \in Keys : api[k].tag # "read"}]
    /\ UNCHANGED <<polling, portal, rows, foreign>>

(* ApiBusyError before anything was sent. *)
Busy(c) ==
    /\ pc[c] = "queued" /\ lock # Free
    /\ pc' = [pc EXCEPT ![c] = "idle"]
    /\ call' = [call EXCEPT ![c] = Nothing]
    /\ UNCHANGED <<lock, polling, portal, rows, foreign>>

(* One request; the day a call sets wins over a companion. *)
Sent(c) == [k \in Owns[c] \cup DOMAIN call[c].others |->
              IF k \in Owns[c] THEN call[c].asked[k] ELSE call[c].others[k]]
Keep(sent) == [k \in Keys |-> IF k \in DOMAIN sent THEN sent[k] ELSE portal[k]]

(* Status 0, and kept or not: the answer is the same. *)
Accepted(c) ==
    /\ pc[c] = "posting"
    /\ portal' \in {portal, Keep(Sent(c))}
    /\ Publish(c, Sent(c))
    /\ lock' = Free
    /\ pc' = [pc EXCEPT ![c] = "reread"]
    /\ call' = [call EXCEPT ![c].others = <<>>, ![c].unsure = {}]
    /\ UNCHANGED <<polling, old, linked, attached, foreign>>

(* A refusal, or no answer to a request the portal may have kept. *)
NotAccepted(c) ==
    /\ pc[c] = "posting"
    /\ \/ UNCHANGED <<portal, foreign>>
       \/ portal' = Keep(Sent(c)) /\ foreign' = foreign \cup DOMAIN Sent(c)
    /\ lock' = Free
    /\ pc' = [pc EXCEPT ![c] = "idle"]
    /\ call' = [call EXCEPT ![c] = Nothing]
    /\ UNCHANGED <<polling, rows>>

(* unanswered_parameters finds none. *)
Confirms(c, ks) == Owns[c] \subseteq ks

(* reread_device_values: an answer with the module in it, which carries    *)
(* all, some or none of its dates ...                                      *)
RereadAnswered(c) ==
    \E ks \in SUBSET Keys :
        /\ Replace(ks, portal)
        /\ foreign' = foreign \ ks
        /\ call' = [Hear(ks, portal) EXCEPT ![c].failed = ~Confirms(c, ks)]

(* ... or no answer, or one without it: the rows are left alone.           *)
RereadFailed(c) ==
    /\ call' = [call EXCEPT ![c].failed = TRUE]
    /\ UNCHANGED <<api, old, linked, foreign>>

Reread(c) ==
    /\ pc[c] = "reread" /\ lock = Free
    /\ RereadAnswered(c) \/ RereadFailed(c)
    /\ pc' = [pc EXCEPT ![c] = "settling"]
    /\ UNCHANGED <<lock, polling, portal, attached>>

(* Whoever will take the day away if nothing confirms it: a call that has  *)
(* not read it back yet, or one whose read-back failed and which has not   *)
(* settled.                                                                *)
Answers(c, k) ==
    k \in Owns[c] /\ (pc[c] = "reread" \/ (pc[c] = "settling" /\ call[c].failed))

Over(c) == IF c \in Once THEN "done" ELSE "idle"

(* The call leaves without settling: nobody takes down what it alone       *)
(* answered for.                                                           *)
CutOff(c) ==
    /\ api' = [k \in Keys |->
          IF /\ k \in Owns[c] /\ api[k].tag = "asked"
             /\ \A d \in Calls \ {c} : ~Answers(d, k)
          THEN Row(api[k].day, "cut") ELSE api[k]]
    /\ pc' = [pc EXCEPT ![c] = Over(c)]
    /\ call' = [call EXCEPT ![c] = Nothing]
    /\ UNCHANGED <<lock, polling, portal, old, linked, attached, foreign>>

(* The lock was not to be had: ApiBusyError out of the whole call. *)
RereadBusy(c) == pc[c] = "reread" /\ lock # Free /\ CutOff(c)

(* The caller is cancelled (a script stopped) while it awaits the write or *)
(* the read-back.  A read-back whose thread has started runs to its end.   *)
Cancelled(c) == pc[c] \in OnItsWay /\ CutOff(c)

(* Mutant: only the first of the dates is taken back. *)
ForgetOne(c) ==
    LET ks == Owns[c] \ (IF Begin \in Owns[c] THEN {End} ELSE {})
    IN /\ api' = [k \in Keys |-> IF k \in ks THEN Gone ELSE api[k]]
       /\ UNCHANGED old

(* _forget_written_value, and the service's blanking of both rows: the     *)
(* coordinator's.                                                          *)
Forget(c) ==
    /\ api' = [k \in Keys |->
          IF k \notin Owns[c] THEN api[k]
          ELSE IF k \in linked THEN Gone
          ELSE IF api[k].tag = "asked" THEN Row(api[k].day, "missed")
          ELSE api[k]]
    /\ old' = [k \in Keys |-> IF k \in Owns[c] THEN Blank ELSE old[k]]

SaysKept(c) == \A k \in Owns[c] : Shown(k).day = call[c].asked[k]

(* Back in the event loop, without the lock: the days are blanked, or the  *)
(* call succeeds or fails by what it sees.                                 *)
Settle(c) ==
    /\ pc[c] = "settling"
    /\ IF call[c].failed THEN Forget(c) ELSE UNCHANGED <<api, old>>
    /\ pc' = [pc EXCEPT ![c] = Over(c)]
    /\ call' = [call EXCEPT ![c] = Nothing]
    /\ UNCHANGED <<lock, polling, portal, linked, attached, foreign>>

(* External: a day set at the heating system or on the portal's pages. *)
SetElsewhere ==
    /\ \E k \in Elsewhere, day \in Days :
          day # portal[k] /\ portal' = [portal EXCEPT ![k] = day]
             /\ foreign' = foreign \cup {k}
    /\ UNCHANGED <<lock, polling, rows, calls>>

Next ==
    \/ PollBegins \/ Rebind \/ Measure \/ MapRows \/ PollReturns \/ PollFails
    \/ PollPublished \/ PollTimesOut \/ SetElsewhere
    \/ \E c \in Calls : Ask(c) \/ Enter(c) \/ Busy(c) \/ Accepted(c)
          \/ NotAccepted(c) \/ Reread(c) \/ RereadBusy(c) \/ Cancelled(c)
          \/ Settle(c)

Spec == Init /\ [][Next]_vars

-----------------------------------------------------------------------------
(* Properties *)

Readings == [day : Days, tag : Tags] \cup {Blank, Gone}

(* Every variable keeps its type; a date the two dicts share has no second *)
(* object, and the lock has the holder that is inside (_api_lock).         *)
TypeOK ==
    /\ lock \in {Free, "poll"} \cup Calls
    /\ poll \in {"idle", "running", "measured", "mapped", "saving"}
    /\ portal \in [Keys -> Days] /\ measured \in [Keys -> Days \cup {Unknown}]
    /\ api \in [Keys -> Readings] /\ old \in [Keys -> Readings]
    /\ linked \subseteq Keys /\ (attached => linked = Keys)
    /\ \A k \in linked : old[k] = Blank
    /\ \A c \in Calls : pc[c] \in OnItsWay \cup {"idle", "queued", "posting", "done"}
    /\ \A c \in Calls : pc[c] = "posting" <=> lock = c
    /\ lock = "poll" <=> poll \in {"running", "measured", "mapped"}

(* A write never takes another date back: what it sends along is what the  *)
(* portal holds, unless somebody else has changed it there since it was    *)
(* read, or a write of that date is itself not confirmed yet               *)
(* (change_value: companions and publication are halves of one thing).     *)
NothingUndone ==
    [][\A c \in Calls : pc[c] = "posting" /\ pc'[c] # "posting" =>
          \A k \in Keys \ Owns[c] :
             portal'[k] = portal[k] \/ k \in foreign \/ k \in call[c].unsure]_vars

(* No poll and no other write puts an older day back where an accepted one *)
(* was read: a day that came from the portal is the one it holds, as long  *)
(* as nobody else changes it (the lock around fetch_data and change_value).*)
RowsKeepUp ==
    \A k \in Keys : api[k].tag = "read" /\ api[k].day # Unknown /\ k \notin foreign
                    => api[k].day = portal[k]

(* A written day that stands in the rows either is still to be read back,  *)
(* or was: a read-back that failed leaves nothing behind, neither of the   *)
(* date entity's own day nor of the two the service sent                   *)
(* (_forget_written_value, _write_holiday).                                *)
Awaited(tags) ==
    \A k \in Keys : api[k].tag \in tags =>
        \E c \in Calls : k \in Owns[c] /\ pc[c] \in OnItsWay
UnconfirmedIsAwaited == Awaited({"asked"})

(* A call says "kept" only when the portal has answered, since it accepted *)
(* the write, with every day asked for, and "not kept" only when it has    *)
(* answered with another day, or without one, for one of them - to this    *)
(* call, to another one or to a poll (async_set_value, _write_holiday,     *)
(* _clear_unanswered).  This is of rows that are the api's, and that are   *)
(* as an answer left them: no other write has put its own day there, or    *)
(* taken it down.                                                          *)
Heard(c) == IF SaysKept(c) THEN call[c].same = Owns[c] ELSE call[c].other # {}
Judges(c) == pc[c] = "settling" /\ pc'[c] # "settling" /\ ~call[c].failed
VerdictWasHeard ==
    [][\A c \in Calls :
          /\ Judges(c) /\ Owns[c] \subseteq linked
          /\ \A k \in Owns[c] : api[k].tag = "read"
          => Heard(c)]_vars

(* The tests say it of every write: a day the portal did not keep is not   *)
(* shown as set.                                                           *)
EveryVerdictWasHeard == [][\A c \in Calls : Judges(c) => Heard(c)]_vars

(* reread_device_values: whatever ends the read-back, the recorded value   *)
(* does not stand as verified.                                             *)
CutOffIsForgotten == Awaited({"cut"})

(* _write_holiday: neither date is left for the next write to repeat,      *)
(* whichever dict holds it.                                                *)
MissedIsForgotten == Awaited({"missed"})

(* The same of a write that waits for the lock while the read-back fails.  *)
RepeatedIsForgotten == Awaited({"again"})
(* What came from the portal is what the portal holds.                     *)
RowsAreThePortals == TypeOK /\ RowsKeepUp

(* A write changes what it was asked to change and tells what became of    *)
(* it.                                                                     *)
WritesAreHonest == NothingUndone /\ VerdictWasHeard
=============================================================================
