--------------------------- MODULE HeavyFetchTurns ---------------------------
(***************************************************************************)
(* Who may spend a burst of requests in this poll cycle: the daily         *)
(* parameter re-read, the weekly programmes or the statistics.  One kind   *)
(* per cycle; those turned away queue up, and only the head of the queue   *)
(* may take the next turn.                                                 *)
(*                                                                         *)
(* The queue is moved by three callers that know nothing of each other, in *)
(* the order a poll comes by them, each only when its own throttle has run *)
(* out - and by a poll that an error, the deadline or a 403 may end before *)
(* it has come by all of them.                                             *)
(*                                                                         *)
(* The throttles are abstracted to "due".  Missing parameter definitions   *)
(* are read without asking for a turn.                                     *)
(***************************************************************************)
EXTENDS Naturals, Sequences, SequencesExt

(* The callers, in the order get_data comes by them. *)
AskingOrder == <<"parameters", "schedules", "statistics">>
Kinds == ToSet(AskingOrder)
None == "none"

VARIABLES
    claimed,     \* _claimed
    queue,       \* _queue
    asked,       \* _asked
    place,       \* the caller the poll comes by next, 0 outside of a read
    due,         \* kinds whose guard would have them ask
    missing,     \* some module has no parameter definitions at all
    cutShort,    \* history: the last read ended before its end
    ran,         \* history: kinds that spent their burst in this cycle
    skipped,     \* history: kinds the poll came by and found not due
    turnedAway   \* history: cycles in a row a kind asked and got no turn

turns == <<claimed, queue, asked>>
history == <<cutShort, ran, skipped, turnedAway>>
turnsVars == <<turns, place, due, missing, history>>

TurnsInit ==
    /\ claimed = None /\ queue = <<>> /\ asked = {}
    /\ place = 0
    /\ due = {} /\ missing = TRUE
    /\ cutShort = FALSE /\ ran = {} /\ skipped = {}
    /\ turnedAway = [k \in Kinds |-> 0]

InQueue(k) == Contains(queue, k)

(* Of the first n that waited, those that asked. *)
Kept[n \in 0..Len(queue)] ==
    IF n = 0 THEN <<>>
    ELSE IF queue[n] \in asked THEN Append(Kept[n - 1], queue[n]) ELSE Kept[n - 1]

(* Mutant: a cycle in which nobody asked settles the queue, too. *)
NewCycleAlwaysSettles ==
    /\ queue' = Kept[Len(queue)]
    /\ claimed' = None
    /\ asked' = {}

(* new_cycle.  The queue only moves if the last cycle had somebody ask: a  *)
(* kind that did not is taken to be no longer due.                         *)
NewCycle ==
    /\ queue' = IF asked = {} THEN queue ELSE Kept[Len(queue)]
    /\ claimed' = None
    /\ asked' = {}

(* A poll that comes to the API's reading, and a tick that does not: a     *)
(* `both` tick with no API read due, or a poll that fails before it.       *)
BeginCycle(reads) ==
    /\ place = 0
    /\ NewCycle
    /\ place' = IF reads THEN 1 ELSE 0
    /\ cutShort' = FALSE /\ ran' = {} /\ skipped' = {}
    /\ turnedAway' = [k \in Kinds |->
                        IF InQueue(k) /\ ~Contains(queue', k) THEN 0 ELSE turnedAway[k]]
    /\ UNCHANGED <<due, missing>>

Caller == AskingOrder[place]

(* The poll goes on to the next caller; programmes are asked for device by *)
(* device, so theirs may come again.                                       *)
Proceed == place' = IF place = Len(AskingOrder) THEN 0 ELSE place + 1
AskAgain == Caller = "schedules" /\ UNCHANGED place

(* Mutant: whoever comes first is served first. *)
FirstComeMayTake(k) == claimed = None

MayTake(k) == claimed = None /\ (queue = <<>> \/ Head(queue) = k)

Granted(k) ==
    /\ claimed' = k
    /\ queue' = IF claimed = None /\ queue # <<>> THEN Tail(queue) ELSE queue
    /\ ran' = ran \cup {k}
    /\ turnedAway' = [turnedAway EXCEPT ![k] = 0]
    /\ due' \in {due, due \ {k}}

Refused(k) ==
    /\ queue' = IF InQueue(k) THEN queue ELSE Append(queue, k)
    /\ turnedAway' = IF k \in asked THEN turnedAway
                     ELSE [turnedAway EXCEPT ![k] = @ + 1]
    /\ UNCHANGED <<claimed, ran, due>>

(* claim, and the burst if it is granted: what was read is stamped, but a  *)
(* failed read may be due again by the next cycle.                         *)
Claim(k) ==
    /\ asked' = asked \cup {k}
    /\ IF claimed = k \/ MayTake(k) THEN Granted(k) ELSE Refused(k)

Asks(k) == k \in due /\ ~(k = "parameters" /\ missing)

Ask ==
    /\ place # 0 /\ Asks(Caller)
    /\ Claim(Caller)
    /\ UNCHANGED <<missing, cutShort, skipped>>

(* Missing definitions are fetched now, whoever's turn it is. *)
ReadMissing ==
    /\ place # 0 /\ Caller = "parameters" /\ missing
    /\ missing' \in BOOLEAN
    /\ due' = due \ {"parameters"}
    /\ skipped' = skipped \cup {"parameters"}
    /\ Proceed
    /\ UNCHANGED <<turns, cutShort, ran, turnedAway>>

NothingDue ==
    /\ place # 0 /\ Caller \notin due /\ ~(Caller = "parameters" /\ missing)
    /\ skipped' = skipped \cup {Caller}
    /\ Proceed
    /\ UNCHANGED <<turns, due, missing, cutShort, ran, turnedAway>>

(* An AuthError, a 403 or the poll's deadline ends the read where it is.   *)
CutShort ==
    /\ place # 0
    /\ place' = 0 /\ cutShort' = TRUE
    /\ UNCHANGED <<turns, due, missing, ran, skipped, turnedAway>>

(* The clock, and the portal: a throttle runs out, a new module appears, a *)
(* device goes offline and takes its programmes out of the reckoning.      *)
FallDue(k) ==
    /\ k \notin due
    /\ due' = due \cup {k}
    /\ UNCHANGED <<turns, place, missing, history>>

NoLongerDue(k) ==
    /\ k \in due /\ place = 0
    /\ due' = due \ {k}
    /\ UNCHANGED <<turns, place, missing, history>>

ModuleAppears ==
    /\ ~missing /\ place = 0
    /\ missing' = TRUE
    /\ UNCHANGED <<turns, place, due, history>>

GoOn == (Ask /\ Proceed) \/ ReadMissing \/ NothingDue

TurnsNext ==
    \/ \E reads \in BOOLEAN : BeginCycle(reads)
    \/ GoOn
    \/ Ask /\ AskAgain
    \/ CutShort
    \/ \E k \in Kinds : FallDue(k) \/ NoLongerDue(k)
    \/ ModuleAppears

TurnsSpec == TurnsInit /\ [][TurnsNext]_turnsVars

(* The coordinator keeps polling, the API's turn keeps coming, and a poll  *)
(* that is not cut short comes to its end.                                 *)
TurnsFairSpec == TurnsSpec /\ WF_turnsVars(BeginCycle(TRUE)) /\ WF_turnsVars(GoOn)

-----------------------------------------------------------------------------
TurnsTypeOK ==
    /\ claimed \in Kinds \cup {None}
    /\ queue \in BoundedSeq(Kinds, Len(AskingOrder)) /\ IsInjective(queue)
    /\ asked \subseteq Kinds /\ due \subseteq Kinds
    /\ place \in 0..Len(AskingOrder)
    /\ missing \in BOOLEAN /\ cutShort \in BOOLEAN
    /\ ran \subseteq Kinds /\ skipped \subseteq Kinds
    /\ turnedAway \in [Kinds -> Nat]

(* However the kinds fall due, however often one asks: of those that can   *)
(* wait, one burst leaves per cycle.                                       *)
OneBurstPerCycle == \A j, k \in ran : j = k

(* Nobody who asks whenever the others do is turned away more often than   *)
(* there are others, whatever else falls due meanwhile.                    *)
TurnComes == \A k \in Kinds : turnedAway[k] < Len(AskingOrder)

PlacesStay ==
    \A i, j \in DOMAIN queue :
        i < j => \A m, n \in DOMAIN queue' :
                    queue'[m] = queue[i] /\ queue'[n] = queue[j] => m < n

(* Oldest first: two kinds that wait never change places. *)
OldestFirst == [][PlacesStay]_turnsVars

(* A kind that stays due is served again and again, whatever the others    *)
(* retry and however many ticks read nothing - unless polls keep failing.  *)
NobodyStarves ==
    \A k \in Kinds :
        <>[](Asks(k) /\ ~cutShort) => []<>(claimed = k)

(* Only a kind that is no longer due gives up its place without a turn.    *)
OnlyTheIdleLeave ==
    [][\A k \in Kinds :
          InQueue(k) /\ ~Contains(queue', k) => claimed' = k \/ k \in skipped]_turnsVars
(* The turns are shared fairly whatever falls due: one burst in a cycle,   *)
(* nobody queued twice, nobody turned away more often than there are       *)
(* others.                                                                 *)
TurnsAreFair == TurnsTypeOK /\ OneBurstPerCycle /\ TurnComes

(* Who waits keeps the place until the turn comes, and it comes.           *)
PlacesAreKept == OldestFirst /\ NobodyStarves
=============================================================================
