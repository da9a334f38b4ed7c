---------------------------- MODULE PortalTurns ----------------------------
(***************************************************************************)
(* What a lock around a portal session promises: the operations that use   *)
(* the session take turns on it.  Only the operation whose turn it is has  *)
(* a request out, it has one at a time, and the turn never changes hands   *)
(* while an answer is still owed.                                          *)
(*                                                                         *)
(* ApiSession implements this with the api lock of the mobile API, and     *)
(* ExpertSession with the account's expert lock.                           *)
(***************************************************************************)
CONSTANTS Threads,   \* the worker threads, or operations, that use one session
          Free       \* nobody's turn; not one of the threads

VARIABLES holder,    \* whose turn it is
          wire       \* the threads with an unanswered request

vars == <<holder, wire>>

Init == holder = Free /\ wire = {}

(* The lock goes to one of the threads that asked for it. *)
Take(t) ==
    /\ holder = Free
    /\ holder' = t
    /\ UNCHANGED wire

Send(t) ==
    /\ holder = t
    /\ wire = {}
    /\ wire' = {t}
    /\ UNCHANGED holder

(* An answer, or the failure that stands for one, ends the request; the    *)
(* operation may end with it.                                              *)
Settle(t) ==
    /\ holder = t
    /\ wire = {t}
    /\ wire' = {}
    /\ holder' \in {t, Free}

Leave(t) ==
    /\ holder = t
    /\ wire = {}
    /\ holder' = Free
    /\ UNCHANGED wire

Next == \E t \in Threads : Take(t) \/ Send(t) \/ Settle(t) \/ Leave(t)

Spec == Init /\ [][Next]_vars
=============================================================================
