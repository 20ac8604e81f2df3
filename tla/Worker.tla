------------------------------- MODULE Worker -------------------------------
(***************************************************************************)
(* Workers: ProcessOne, its heartbeat and finishFailure of                 *)
(* generation/sql_worker.go.  A worker here is one concurrent call of      *)
(* ProcessOne; the callers of one process share that process's slots.      *)
(***************************************************************************)
EXTENDS RunStore

CONSTANTS
  Worker,       \* concurrent callers of ProcessOne
  Process,      \* service processes
  Host,         \* worker -> process that runs it
  WorkerName,   \* process -> the workerID its SQLWorker was built with
  WorkerLimit,  \* slots of one process
  MayCrash,     \* may a process stop at any point?
  MayRecover,   \* is RecoverExpiredLeases called (the service never does)?
  MayLoseAck    \* may a commit take effect and still be reported as failed?

ASSUME WorkerAssumption ==
  /\ Host \in [Worker -> Process]
  /\ WorkerName \in [Process -> WorkerId]
  /\ WorkerLimit \in Nat
  /\ MayCrash \in BOOLEAN
  /\ MayRecover \in BOOLEAN
  /\ MayLoseAck \in BOOLEAN

VARIABLE wrk   \* the local state of each worker

WorkerState ==
  [pc      : {"idle", "loading", "executing", "failing", "counting", "settling"},
   run     : RunId \cup {None},
   attempt : 0 .. LastAttempt,        \* of the run as it was loaded
   version : 0 .. MaxVersion,         \* its base version as it was loaded
   failure : FailureKind \cup {None}, \* what finishFailure was called with
   status  : RunState]                \* the parent status that was derived

IdleWorker ==
  [pc |-> "idle", run |-> None, attempt |-> 0, version |-> 0,
   failure |-> None, status |-> "absent"]

WorkerTypeOK == wrk \in [Worker -> WorkerState]

WorkerInit == wrk = [w \in Worker |-> IdleWorker]

Owner(w) == WorkerName[Host[w]]

(* Faulty: calls do not count against the slots of their process. *)
BusyUncounted(p) == {}

(* The calls that hold a slot of the process. *)
Busy(p) == {w \in Worker : Host[w] = p /\ wrk[w].pc # "idle"}

-----------------------------------------------------------------------------

(* A slot is taken and ClaimNext's transaction commits. *)
Claim(w) ==
  /\ wrk[w].pc = "idle"
  /\ Cardinality(Busy(Host[w])) < WorkerLimit
  /\ \E id \in RunId :
       /\ ClaimRun(id, Owner(w))
       /\ wrk' = [wrk EXCEPT ![w] = [IdleWorker EXCEPT !.pc = "loading", !.run = id]]
  /\ UNCHANGED clock

(* Faulty: the attempt is not read back from the row. *)
LoadWithoutAttempt(w) ==
  /\ wrk[w].pc = "loading"
  /\ wrk' = [wrk EXCEPT ![w].pc = "executing", ![w].version = runs[wrk[w].run].version]
  /\ UNCHANGED storeVars

(* ClaimNext's LoadRun, after its commit. *)
Load(w) ==
  /\ wrk[w].pc = "loading"
  /\ wrk' = [wrk EXCEPT ![w].pc = "executing",
                        ![w].attempt = runs[wrk[w].run].attempt,
                        ![w].version = runs[wrk[w].run].version]
  /\ UNCHANGED storeVars

(* Generate reports a failure, overruns the deadline (transient), or its    *)
(* result cannot be encoded or stored (transient).                          *)
ExecutionFails(w) ==
  /\ wrk[w].pc = "executing"
  /\ \E kind \in FailureKind :
       wrk' = [wrk EXCEPT ![w].pc = "failing", ![w].failure = kind]
  /\ UNCHANGED storeVars

(* After a terminal write the parent is refreshed, if the run has one. *)
AfterSettling(w) ==
  wrk' = [wrk EXCEPT ![w] = IF runs[wrk[w].run].parent = None
                              THEN IdleWorker
                              ELSE [@ EXCEPT !.pc = "counting"]]

NextVersion(w) == wrk[w].version + 1

Publish(w) ==
  /\ wrk[w].pc = "executing"
  /\ wrk[w].version < MaxVersion
  /\ SaveResult(wrk[w].run, NextVersion(w))
  /\ AfterSettling(w)
  /\ UNCHANGED clock

(* The unique key refuses the version: the transaction rolls back. *)
PublishRejected(w) ==
  /\ wrk[w].pc = "executing"
  /\ ~ Unpublished(runs[wrk[w].run].key, NextVersion(w))
  /\ wrk' = [wrk EXCEPT ![w].pc = "failing", ![w].failure = "transient"]
  /\ UNCHANGED storeVars

(* The transaction commits, but Commit returns an error. *)
PublishUnacknowledged(w) ==
  /\ MayLoseAck
  /\ wrk[w].pc = "executing"
  /\ wrk[w].version < MaxVersion
  /\ SaveResult(wrk[w].run, NextVersion(w))
  /\ wrk' = [wrk EXCEPT ![w].pc = "failing", ![w].failure = "transient"]
  /\ UNCHANGED clock

(* Faulty: off by one in either direction. *)
RetryableTooOften(w) == wrk[w].failure = "transient" /\ wrk[w].attempt <= LastAttempt
RetryableTooSeldom(w) == wrk[w].failure = "transient" /\ wrk[w].attempt + 1 < LastAttempt

(* May finishFailure requeue the run? *)
Retryable(w) == wrk[w].failure = "transient" /\ wrk[w].attempt < LastAttempt

(* finishFailure, first branch. *)
RetryRun(w) ==
  /\ wrk[w].pc = "failing"
  /\ Retryable(w)
  /\ Requeue(wrk[w].run, wrk[w].attempt + 1, wrk[w].failure)
  /\ wrk' = [wrk EXCEPT ![w] = IdleWorker]
  /\ UNCHANGED clock

(* Faulty: a failed child does not refresh its parent. *)
FailRunOnly(w) ==
  /\ wrk[w].pc = "failing"
  /\ ~ Retryable(w)
  /\ Fail(wrk[w].run, wrk[w].failure)
  /\ wrk' = [wrk EXCEPT ![w] = IdleWorker]
  /\ UNCHANGED clock

(* finishFailure, second branch. *)
FailRun(w) ==
  /\ wrk[w].pc = "failing"
  /\ ~ Retryable(w)
  /\ Fail(wrk[w].run, wrk[w].failure)
  /\ AfterSettling(w)
  /\ UNCHANGED clock

(* RefreshParentStatus: the counting query ... *)
CountChildren(w) ==
  /\ wrk[w].pc = "counting"
  /\ LET parent == runs[wrk[w].run].parent
     IN wrk' = [wrk EXCEPT ![w] = IF ChildrenSettled(parent)
                 THEN [@ EXCEPT !.pc = "settling", !.status = ChildrenStatus(parent)]
                 ELSE IdleWorker]
  /\ UNCHANGED storeVars

(* ... and the update, in a statement of its own. *)
SettleParent(w) ==
  /\ wrk[w].pc = "settling"
  /\ UpdateParent(runs[wrk[w].run].parent, wrk[w].status)
  /\ wrk' = [wrk EXCEPT ![w] = IdleWorker]
  /\ UNCHANGED clock

(* The heartbeat goroutine, which lives as long as Generate runs.  Leases    *)
(* matter, and are modelled, only where they may be recovered.               *)
Heartbeat(w) ==
  /\ MayRecover
  /\ wrk[w].pc = "executing"
  /\ RenewLease(wrk[w].run, Owner(w))
  /\ UNCHANGED <<clock, wrk>>

(* A process stops: its context is cancelled, so that not even finishFailure *)
(* can write any more, or it is killed, or ProcessOne returned an error.     *)
Crash(p) ==
  /\ MayCrash
  /\ Busy(p) # {}
  /\ wrk' = [w \in Worker |-> IF Host[w] = p THEN IdleWorker ELSE wrk[w]]
  /\ UNCHANGED storeVars

Recover ==
  /\ MayRecover
  /\ RecoverExpiredLeases
  /\ UNCHANGED <<clock, wrk>>

-----------------------------------------------------------------------------

WorkerStep(w) ==
  \/ Load(w)
  \/ ExecutionFails(w)
  \/ Publish(w)
  \/ PublishRejected(w)
  \/ PublishUnacknowledged(w)
  \/ RetryRun(w)
  \/ FailRun(w)
  \/ CountChildren(w)
  \/ SettleParent(w)

=============================================================================
