---------------------------- MODULE ResultHistory ----------------------------
(***************************************************************************)
(* What the service promises of generation results (ADR-0001, ADR-0008):   *)
(* each locator has a history of immutable results, numbered from 1 with   *)
(* no gap, and the newest is the current one.  Publishing is the only      *)
(* change, and it appends.                                                 *)
(***************************************************************************)
EXTENDS Naturals

CONSTANTS RunId, Locator

VARIABLES
  history,  \* the results published so far
  current   \* locator -> version of its current result, 0 when it has none

vars == <<history, current>>

Init ==
  /\ history = {}
  /\ current = [l \in Locator |-> 0]

Publish(l, id) ==
  /\ history' = history \cup {[locator |-> l, version |-> current[l] + 1, run |-> id]}
  /\ current' = [current EXCEPT ![l] = @ + 1]

Next == \E l \in Locator, id \in RunId : Publish(l, id)

Spec == Init /\ [][Next]_vars

=============================================================================
