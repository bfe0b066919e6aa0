---------------------------- MODULE Enumeration ----------------------------
(***************************************************************************)
(* What the search promises: the answer of a query grows by one result at  *)
(* a time, each a way to find a match of it, never by one it already has,  *)
(* and is reported when it has all.  Data that repeat a triple have        *)
(* several ways to find the same match.                                    *)
(***************************************************************************)
EXTENDS Naturals, Bags

CONSTANTS Queries, Ways(_)   \* Ways(q): the ways to find the matches of query q

VARIABLES
  answer,     \* the results found so far, a bag per query
  reported    \* the queries whose answer is complete

vars == <<answer, reported>>

Init == /\ answer = [q \in Queries |-> EmptyBag]
        /\ reported = {}

Find(q) == /\ q \notin reported
           /\ \E m \in Ways(q) \ BagToSet(answer[q]) :
                 answer' = [answer EXCEPT ![q] = @ (+) SetToBag({m})]
           /\ UNCHANGED reported

Report(q) == /\ q \notin reported
             /\ answer[q] = SetToBag(Ways(q))
             /\ reported' = reported \cup {q}
             /\ UNCHANGED answer

Next == \E q \in Queries : Find(q) \/ Report(q)

Spec == Init /\ [][Next]_vars
=============================================================================
