------------------------- MODULE MCServiceLifecycle -------------------------
(***************************************************************************)
(* Small instances of ServiceLifecycle for TLC: one process that is started *)
(* again, with a handler and a reconciler.                                  *)
(***************************************************************************)
EXTENDS ServiceLifecycle, TLC

CONSTANTS r1, r2, r3, w1, p1, me, pre_toss, h2h, handler, reconciler

OneMember == [c \in CardSet |-> <<h2h>>]
OneProcess == w1 :> p1
ItsName == p1 :> me
AtHome == [s \in Submitter |-> p1]
ItsReconciler == p1 :> reconciler
OneMatch == <<pre_toss>>
NoMatch == <<>>

=============================================================================
