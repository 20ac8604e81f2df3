-------------------------- MODULE GenerationService --------------------------
(***************************************************************************)
(* The generation service: submitters (HTTP requests, the reconciler) and  *)
(* workers around one durable store.  They share nothing else.             *)
(***************************************************************************)
EXTENDS Submission, Worker

vars == <<runs, results, pointers, fresh, clock, sub, wrk>>

Init == StoreInit /\ SubmissionInit /\ WorkerInit

Submit ==
  /\ \E s \in Submitter : Begin(s) \/ SubmitterStep(s) \/ Abandon(s)
  /\ UNCHANGED wrk

Work ==
  /\ \/ \E w \in Worker : Claim(w) \/ WorkerStep(w) \/ Heartbeat(w)
     \/ \E p \in Process : Crash(p)
     \/ Recover
  /\ UNCHANGED sub

TimePasses ==
  /\ \/ \E id \in RunId : RetryDue(id)
     \/ \E id \in RunId : MayRecover /\ LeaseExpires(id)
     \/ \E l \in Locator : ResultAges(l)
  /\ UNCHANGED <<sub, wrk>>

Next == Submit \/ Work \/ TimePasses

Spec == Init /\ [][Next]_vars

(* Requests run to their end, the poll ticker keeps calling ProcessOne, a   *)
(* claimed run is worked on to its end, and retry delays pass.  Nothing is  *)
(* assumed of new requests, of ageing, or of RecoverExpiredLeases.          *)
Fairness ==
  /\ \A s \in Submitter : WF_vars(SubmitterStep(s) /\ UNCHANGED wrk)
  /\ \A w \in Worker : /\ WF_vars(Claim(w) /\ UNCHANGED sub)
                       /\ WF_vars(WorkerStep(w) /\ UNCHANGED sub)
  /\ \A id \in RunId : WF_vars(RetryDue(id) /\ UNCHANGED <<sub, wrk>>)

FairSpec == Spec /\ Fairness

-----------------------------------------------------------------------------
(* Types *)

(* Every table column and local variable keeps its type: in particular the  *)
(* attempt column never passes the last attempt, although zombies write it. *)
TypeOK == StoreTypeOK /\ SubmissionTypeOK /\ WorkerTypeOK

(* A row has a target exactly if it exists, only template runs are ever     *)
(* leased, and a parent is a card-set row.                                  *)
RowWellFormed(id) ==
  /\ runs[id].key = None <=> runs[id].state = "absent"
  /\ runs[id].state = "running" => IsTemplateRun(id)
  /\ runs[id].parent # None => runs[runs[id].parent].key \in CardSet

(* A worker that is not idle holds a template run, and refreshes only a     *)
(* parent that exists.                                                      *)
Holding == {"loading", "executing", "failing"}

ParentOutcome == Settled \cup {"completed_with_errors"}

WorkerWellFormed(w) ==
  /\ wrk[w].pc # "idle" => wrk[w].run # None /\ IsTemplateRun(wrk[w].run)
  /\ wrk[w].pc \in {"counting", "settling"} => runs[wrk[w].run].parent # None
  /\ wrk[w].pc = "settling" => wrk[w].status \in ParentOutcome
  /\ wrk[w].pc = "failing" => wrk[w].failure # None

(* A submission has the kind of target its steps are for, and the parent it *)
(* names has been saved.                                                    *)
SubmissionWellFormed(s) ==
  /\ sub[s].pc = "finding" => sub[s].target # None
  /\ sub[s].pc = "saving" => sub[s].target \in Locator
  /\ sub[s].pc \in {"preparing", "savingParent", "preparingChild", "savingChild", "resaving"}
       => sub[s].target \in CardSet
  /\ sub[s].pc \in {"savingParent", "preparingChild", "savingChild"} => sub[s].pending # <<>>
  /\ sub[s].pc \in {"preparingChild", "savingChild", "resaving"} => sub[s].parent # None
  /\ sub[s].parent # None => runs[sub[s].parent].key \in CardSet

(* Rows, workers and submissions fit each other at every step: the worker   *)
(* never leases a card-set row and no child is saved before its parent.     *)
WellFormed ==
  /\ \A id \in RunId : RowWellFormed(id)
  /\ \A w \in Worker : WorkerWellFormed(w)
  /\ \A s \in Submitter : SubmissionWellFormed(s)

-----------------------------------------------------------------------------
(* Result history *)

(* The results of a locator are numbered 1, 2, ... with no gap and no       *)
(* duplicate, and its pointer names the newest: SaveResult's transaction    *)
(* and the unique key see to it, whatever stale version a run was based on. *)
ResultsNumbered ==
  /\ \A l \in Locator :
       {result.version : result \in {x \in results : x.locator = l}} = 1 .. CurrentVersion(l)
  /\ \A x, y \in results : x.locator = y.locator /\ x.version = y.version => x = y
  /\ \A l \in Locator : pointers[l] # None => pointers[l].locator = l /\ pointers[l] \in results

RowBase(id) == IsTemplateRun(id) => runs[id].version <= CurrentVersion(runs[id].key)

WorkerBase(w) ==
  wrk[w].pc # "idle" => wrk[w].version <= CurrentVersion(runs[wrk[w].run].key)

SubmissionBase(s) ==
  /\ sub[s].target \in Locator => sub[s].version <= CurrentVersion(sub[s].target)
  /\ \A i \in DOMAIN sub[s].pending :
       sub[s].pending[i].version <= CurrentVersion(sub[s].pending[i].locator)

(* Nobody holds a version that has not been published: not a row, a worker  *)
(* that loaded one, or a submission that read the current result earlier.   *)
BasesNotAhead ==
  /\ \A id \in RunId : RowBase(id)
  /\ \A w \in Worker : WorkerBase(w)
  /\ \A s \in Submitter : SubmissionBase(s)

(* A run that reads as succeeded has a result of its own under the version  *)
(* in its row, even if a zombie worker wrote the row last.                  *)
SucceededRunHasResult ==
  \A id \in RunId : IsTemplateRun(id) /\ runs[id].state = "succeeded" =>
    [locator |-> runs[id].key, version |-> runs[id].version, run |-> id] \in results

(* The store implements the abstract history: publishing is the only change *)
(* of results and current versions, and it appends.                         *)
History == INSTANCE ResultHistory
             WITH history <- results, current <- [l \in Locator |-> CurrentVersion(l)]

ImplementsHistory == History!Spec

-----------------------------------------------------------------------------
(* Runs, while leases are left alone and commits are acknowledged *)

(* No two workers work on one run: a claim is exclusive until the run is    *)
(* given back, although Requeue, Fail and SaveResult check no owner.        *)
ExclusiveExecution ==
  \A v, w \in Worker :
    v # w /\ wrk[v].pc \in Holding /\ wrk[w].pc \in Holding => wrk[v].run # wrk[w].run

(* What a worker believes of the run it holds is what the row says.         *)
WorkersKnowTheirRun ==
  \A w \in Worker :
    /\ wrk[w].pc \in Holding => /\ runs[wrk[w].run].state = "running"
                               /\ runs[wrk[w].run].owner = Owner(w)
    /\ wrk[w].pc \in {"executing", "failing"} =>
         /\ wrk[w].attempt = runs[wrk[w].run].attempt
         /\ wrk[w].version = runs[wrk[w].run].version

(* A run fails on a transient failure only after its last attempt: a retry  *)
(* that is still due is never given up.                                     *)
RetriesExhausted ==
  \A id \in RunId :
    runs[id].state = "failed" /\ runs[id].failure = "transient"
      => runs[id].attempt = LastAttempt

(* A run publishes at most one result, and only by succeeding: no crash,    *)
(* retry or lost race leaves a second result or one without its status.     *)
RunPublishesOnce ==
  /\ \A x, y \in results : x.run = y.run => x = y
  /\ \A x \in results : runs[x.run].state = "succeeded"

(* Runs of templates follow the promised life cycle. *)
Lifecycle == INSTANCE RunLifecycle
               WITH phase <- [id \in RunId |-> IF IsTemplateRun(id)
                                                 THEN runs[id].state ELSE "absent"],
                    attempt <- [id \in RunId |-> runs[id].attempt]

ImplementsLifecycle == Lifecycle!Spec

(* Every accepted template run is eventually succeeded or failed, however   *)
(* often it is retried, in whatever order the runs are claimed and whichever *)
(* of them loses the race for a version, when no process stops and requests *)
(* come to an end (RunId is finite).  Nothing is claimed of an endless      *)
(* stream of regenerations, before which ClaimNext lets normal runs wait.   *)
EveryRunSettles ==
  \A id \in RunId :
    IsTemplateRun(id) /\ runs[id].state = "queued" ~> runs[id].state \in Settled

-----------------------------------------------------------------------------
(* Card sets *)

IsParent(id) == runs[id].key \in CardSet

(* The submission that created a parent has returned. *)
SubmissionOver(id) == \A s \in Submitter : sub[s].parent # id

Refreshing(id) ==
  \E w \in Worker : wrk[w].pc \in Holding \cup {"counting", "settling"}
                    /\ runs[wrk[w].run].parent = id

(* With one ProcessOne at a time a parent whose children have all finished  *)
(* carries the status of their outcomes, unless the submission's last       *)
(* SaveRun put it back to queued: no stale count is ever left in it.        *)
SettledStatusAgrees ==
  \A id \in RunId :
    IsParent(id) /\ SubmissionOver(id) /\ ~ Refreshing(id) /\ ChildrenSettled(id)
      => runs[id].state \in {"queued", ChildrenStatus(id)}

(* A parent that still has an unfinished child when its submission returns  *)
(* gets a terminal status eventually.                                       *)
UnfinishedCardSetSettles ==
  \A id \in RunId :
    IsParent(id) /\ SubmissionOver(id) /\ ~ ChildrenSettled(id)
      ~> IsParent(id) /\ runs[id].state \in ParentOutcome

-----------------------------------------------------------------------------
(* What the documents say and the code does not do *)

(* ADR-0003: concurrent submissions for the same locator and mode join its  *)
(* queued or running generation run; FindActiveRun says the same.           *)
OneActiveRun ==
  \A l \in Locator, mode \in Mode : Cardinality(ActiveRuns(l, mode)) <= 1

(* ADR-0008: the ledger owns terminal card-set run status, which changes    *)
(* with the child that makes it terminal.  So a submitted card set settles. *)
CardSetSettles ==
  \A id \in RunId :
    IsParent(id) ~> IsParent(id) /\ runs[id].state \in ParentOutcome

=============================================================================
