----------------------------- MODULE MCWebScrape -----------------------------
(* One account, an api in `both` mode and one in `web` mode, each loaded   *)
(* or not.  Where both are, their requests interleave from the start, and  *)
(* through an outage that does not end, until one of their scrapes has     *)
(* failed; the first alone goes through three failures in a row.           *)
EXTENDS WebScrape, FiniteSets

MCMode == [a \in Apis |-> IF a = "w" THEN "web" ELSE "both"]

Pair == \A a \in Apis : pc[a] # "absent"

MCStep == Pair =>
    /\ ~healthy => ~healthy'
    /\ Cardinality({a \in Apis : failures'[a] > 0}) <= 1
    /\ \A a \in Apis : failures'[a] <= 1

MCNext == Next /\ MCStep
MCFairSpec == Init /\ [][MCNext]_vars /\ Fairness
=============================================================================
