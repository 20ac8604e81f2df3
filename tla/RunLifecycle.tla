---------------------------- MODULE RunLifecycle ----------------------------
(***************************************************************************)
(* What a submission is promised of its generation run while no lease is   *)
(* taken from a worker and no commit is lost: the run is worked on by one  *)
(* claim at a time, is tried at most three times, and once it succeeded or *)
(* failed it stays so.                                                     *)
(***************************************************************************)
EXTENDS Naturals

CONSTANTS RunId

VARIABLES
  phase,    \* run -> where it is in its life
  attempt   \* run -> failed attempts that were retried

vars == <<phase, attempt>>

Init ==
  /\ phase = [id \in RunId |-> "absent"]
  /\ attempt = [id \in RunId |-> 0]

Move(id, from, to) ==
  /\ phase[id] = from
  /\ phase' = [phase EXCEPT ![id] = to]

Submit(id) == Move(id, "absent", "queued") /\ UNCHANGED attempt

Start(id) == Move(id, "queued", "running") /\ UNCHANGED attempt

Retry(id) ==
  /\ attempt[id] < 2
  /\ Move(id, "running", "queued")
  /\ attempt' = [attempt EXCEPT ![id] = @ + 1]

Finish(id) ==
  /\ \E outcome \in {"succeeded", "failed"} : Move(id, "running", outcome)
  /\ UNCHANGED attempt

Next == \E id \in RunId : Submit(id) \/ Start(id) \/ Retry(id) \/ Finish(id)

Spec == Init /\ [][Next]_vars

=============================================================================
