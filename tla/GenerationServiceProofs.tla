----------------------- MODULE GenerationServiceProofs -----------------------
(***************************************************************************)
(* Proofs about GenerationService, for all values of its constants.        *)
(***************************************************************************)
EXTENDS GenerationService, SequenceTheorems, TLAPS

(* The part of the inductive invariant that types and shapes the state. *)
Shape == TypeOK /\ WellFormed

(* newSQLRun's row is a row. *)
LEMMA NewRowType ==
  ASSUME NEW key \in Locator \cup CardSet \cup {None}, NEW mode \in Mode,
         NEW parent \in RunId \cup {None}, NEW version \in 0 .. MaxVersion,
         NEW created \in 0 .. MaxClock
  PROVE  NewRow(key, mode, parent, version, created) \in Row
  BY DEF NewRow, Row, RunState, Active, LastAttempt

LEMMA AbsentRowType == AbsentRow \in Row
  <1>1. NewRow(None, "normal", None, 0, 0) \in Row
    BY NewRowType, StoreAssumption DEF Mode
  <1>2. QED
    BY <1>1 DEF AbsentRow, Row, RunState

(* The initial state has its shape: no row, nobody busy. *)
LEMMA InitShape == Init => Shape
  <1> SUFFICES ASSUME Init PROVE Shape
    OBVIOUS
  <1> USE StoreAssumption, SubmissionAssumption, WorkerAssumption
      DEF Init, StoreInit, SubmissionInit, WorkerInit
  <1>1. StoreTypeOK
    BY AbsentRowType DEF StoreTypeOK
  <1>2. SubmissionTypeOK
    BY DEF SubmissionTypeOK, SubmissionState, IdleSubmission, Mode
  <1>3. WorkerTypeOK
    BY DEF WorkerTypeOK, WorkerState, IdleWorker, LastAttempt, RunState
  <1>4. \A id \in RunId : RowWellFormed(id)
    BY DEF RowWellFormed, AbsentRow, NewRow
  <1>5. \A w \in Worker : WorkerWellFormed(w)
    BY DEF WorkerWellFormed, IdleWorker
  <1>6. \A s \in Submitter : SubmissionWellFormed(s)
    BY DEF SubmissionWellFormed, IdleSubmission
  <1>7. QED
    BY <1>1, <1>2, <1>3, <1>4, <1>5, <1>6 DEF Shape, TypeOK, WellFormed

-----------------------------------------------------------------------------
(* Steps that only rewrite existing rows *)

(* Every row that exists goes on existing, with its target and its parent. *)
RowsKept ==
  \A id \in RunId :
    /\ runs[id].state # "absent" => /\ runs'[id].state # "absent"
                                   /\ runs'[id].key = runs[id].key
                                   /\ runs'[id].parent = runs[id].parent

LEMMA WorkerKept ==
  ASSUME Shape, RowsKept, NEW w \in Worker, wrk'[w] = wrk[w]
  PROVE  WorkerWellFormed(w)'
  BY StoreAssumption
  DEF Shape, TypeOK, WorkerTypeOK, WorkerState, WellFormed, RowWellFormed, WorkerWellFormed,
      IsTemplateRun, RowsKept

LEMMA SubmissionKept ==
  ASSUME Shape, RowsKept, NEW s \in Submitter, sub'[s] = sub[s]
  PROVE  SubmissionWellFormed(s)'
  BY StoreAssumption
  DEF Shape, TypeOK, SubmissionTypeOK, SubmissionState, WellFormed, RowWellFormed,
      SubmissionWellFormed, RowsKept

(* Rewriting one existing row, of a template run or to a state other than   *)
(* running, keeps the rows well formed.                                     *)
LEMMA RewriteRow ==
  ASSUME Shape, NEW id \in RunId, runs[id].state # "absent", NEW row \in Row,
         row.key = runs[id].key, row.parent = runs[id].parent, row.state # "absent",
         row.state = "running" => IsTemplateRun(id),
         runs' = [runs EXCEPT ![id] = row]
  PROVE  /\ runs' \in [RunId -> Row]
         /\ RowsKept
         /\ \A r \in RunId : RowWellFormed(r)'
  <1>1. runs \in [RunId -> Row]
    BY DEF Shape, TypeOK, StoreTypeOK
  <1>2. runs' \in [RunId -> Row] /\ RowsKept
    BY <1>1 DEF RowsKept
  <1>3. ASSUME NEW r \in RunId PROVE RowWellFormed(r)'
    BY <1>1, <1>2, StoreAssumption
    DEF Shape, WellFormed, RowWellFormed, RowsKept, IsTemplateRun, Row
  <1>4. QED
    BY <1>2, <1>3

LEMMA RowsUnchanged ==
  ASSUME Shape, UNCHANGED runs
  PROVE  RowsKept /\ \A r \in RunId : RowWellFormed(r)'
  BY DEF Shape, WellFormed, RowWellFormed, RowsKept, IsTemplateRun

(* What is left to show of a step that keeps the rows. *)
LEMMA ShapeStep ==
  ASSUME Shape, RowsKept, \A r \in RunId : RowWellFormed(r)',
         StoreTypeOK', WorkerTypeOK', SubmissionTypeOK',
         \A w \in Worker : wrk'[w] = wrk[w] \/ WorkerWellFormed(w)',
         \A s \in Submitter : sub'[s] = sub[s] \/ SubmissionWellFormed(s)'
  PROVE  Shape'
  <1>1. \A w \in Worker : WorkerWellFormed(w)'
    BY WorkerKept
  <1>2. \A s \in Submitter : SubmissionWellFormed(s)'
    BY SubmissionKept
  <1>3. QED
    BY <1>1, <1>2 DEF Shape, TypeOK, WellFormed

-----------------------------------------------------------------------------
(* Workers *)

LEMMA IdleWorkerType == IdleWorker \in WorkerState /\ IdleWorker.pc = "idle"
  BY StoreAssumption DEF IdleWorker, WorkerState, LastAttempt, RunState

(* A worker moves on and nothing else changes. *)
LEMMA WorkerMoves ==
  ASSUME Shape, NEW w \in Worker, NEW state \in WorkerState,
         wrk' = [wrk EXCEPT ![w] = state], WorkerWellFormed(w)',
         UNCHANGED storeVars, UNCHANGED sub
  PROVE  Shape'
  <1>1. StoreTypeOK'
    BY DEF Shape, TypeOK, StoreTypeOK, storeVars
  <1>2. WorkerTypeOK' /\ SubmissionTypeOK'
    BY DEF Shape, TypeOK, WorkerTypeOK, SubmissionTypeOK
  <1>3. \A v \in Worker : v # w => wrk'[v] = wrk[v]
    BY DEF Shape, TypeOK, WorkerTypeOK
  <1>4. UNCHANGED runs
    BY DEF storeVars
  <1>5. QED
    BY <1>1, <1>2, <1>3, <1>4, RowsUnchanged, ShapeStep

(* A worker moves on and rewrites one row that exists. *)
LEMMA WorkerRewrites ==
  ASSUME Shape, NEW w \in Worker, NEW state \in WorkerState,
         wrk' = [wrk EXCEPT ![w] = state], WorkerWellFormed(w)',
         NEW id \in RunId, runs[id].state # "absent", NEW row \in Row,
         row.key = runs[id].key, row.parent = runs[id].parent, row.state # "absent",
         row.state = "running" => IsTemplateRun(id),
         runs' = [runs EXCEPT ![id] = row],
         results' \subseteq ResultRow, pointers' \in [Locator -> ResultRow \cup {None}],
         fresh' \subseteq Locator, UNCHANGED clock, UNCHANGED sub
  PROVE  Shape'
  <1>1. /\ runs' \in [RunId -> Row]
        /\ RowsKept
        /\ \A r \in RunId : RowWellFormed(r)'
    BY RewriteRow
  <1>2. StoreTypeOK'
    BY <1>1 DEF Shape, TypeOK, StoreTypeOK
  <1>3. WorkerTypeOK' /\ SubmissionTypeOK'
    BY DEF Shape, TypeOK, WorkerTypeOK, SubmissionTypeOK
  <1>4. \A v \in Worker : v # w => wrk'[v] = wrk[v]
    BY DEF Shape, TypeOK, WorkerTypeOK
  <1>5. QED
    BY <1>1, <1>2, <1>3, <1>4, ShapeStep

LEMMA ClaimShape ==
  ASSUME Shape, NEW w \in Worker, Claim(w), UNCHANGED sub
  PROVE  Shape'
  <1>1. PICK id \in RunId :
          /\ ClaimRun(id, Owner(w))
          /\ wrk' = [wrk EXCEPT ![w] = [IdleWorker EXCEPT !.pc = "loading", !.run = id]]
    BY DEF Claim
  <1> DEFINE row == [runs[id] EXCEPT !.state = "running", !.owner = Owner(w), !.expired = FALSE]
             state == [IdleWorker EXCEPT !.pc = "loading", !.run = id]
  <1>2. runs[id] \in Row /\ runs[id].state = "queued" /\ IsTemplateRun(id)
    BY <1>1 DEF ClaimRun, NextClaims, Shape, TypeOK, StoreTypeOK
  <1>3. Owner(w) \in WorkerId
    BY WorkerAssumption DEF Owner
  <1>4. /\ row \in Row /\ row.key = runs[id].key /\ row.parent = runs[id].parent
        /\ row.state = "running"
    BY <1>2, <1>3 DEF Row, RunState, Active
  <1>5. runs' = [runs EXCEPT ![id] = row]
    BY <1>1 DEF ClaimRun
  <1>6. state \in WorkerState /\ state.pc = "loading" /\ state.run = id
    BY IdleWorkerType DEF WorkerState
  <1>7. WorkerWellFormed(w)'
    BY <1>1, <1>2, <1>4, <1>5, <1>6, StoreAssumption
    DEF WorkerWellFormed, IsTemplateRun, Shape, TypeOK, WorkerTypeOK, StoreTypeOK
  <1>8. /\ results' \subseteq ResultRow /\ pointers' \in [Locator -> ResultRow \cup {None}]
        /\ fresh' \subseteq Locator /\ UNCHANGED clock
    BY <1>1 DEF Claim, ClaimRun, ledger, Shape, TypeOK, StoreTypeOK
  <1>9. QED
    BY <1>1, <1>2, <1>4, <1>5, <1>6, <1>7, <1>8, WorkerRewrites

(* A worker may always return to idle. *)
LEMMA WorkerRests ==
  ASSUME Shape, NEW w \in Worker, wrk' = [wrk EXCEPT ![w] = IdleWorker]
  PROVE  WorkerWellFormed(w)'
  BY DEF Shape, TypeOK, WorkerTypeOK, WorkerWellFormed, IdleWorker

LEMMA LoadShape ==
  ASSUME Shape, NEW w \in Worker, Load(w), UNCHANGED sub
  PROVE  Shape'
  <1> DEFINE state == [wrk[w] EXCEPT !.pc = "executing",
                                     !.attempt = runs[wrk[w].run].attempt,
                                     !.version = runs[wrk[w].run].version]
  <1>1. wrk[w] \in WorkerState /\ wrk[w].run \in RunId /\ IsTemplateRun(wrk[w].run)
    BY DEF Load, Shape, TypeOK, WorkerTypeOK, WorkerState, WellFormed, WorkerWellFormed
  <1>2. runs[wrk[w].run] \in Row
    BY <1>1 DEF Shape, TypeOK, StoreTypeOK
  <1>3. state \in WorkerState /\ state.pc = "executing" /\ state.run = wrk[w].run
    BY <1>1, <1>2 DEF WorkerState, Row
  <1>4. wrk' = [wrk EXCEPT ![w] = state] /\ UNCHANGED storeVars
    BY DEF Load, Shape, TypeOK, WorkerTypeOK
  <1>5. WorkerWellFormed(w)'
    BY <1>1, <1>3, <1>4, StoreAssumption
    DEF WorkerWellFormed, IsTemplateRun, Shape, TypeOK, WorkerTypeOK, storeVars
  <1>6. QED
    BY <1>3, <1>4, <1>5, WorkerMoves

(* Generation fails, or the unique key refuses the result. *)
LEMMA FailureShape ==
  ASSUME Shape, NEW w \in Worker, ExecutionFails(w) \/ PublishRejected(w), UNCHANGED sub
  PROVE  Shape'
  <1>1. PICK kind \in FailureKind :
          wrk' = [wrk EXCEPT ![w].pc = "failing", ![w].failure = kind]
    BY DEF ExecutionFails, PublishRejected, FailureKind
  <1>2. wrk[w].pc = "executing" /\ UNCHANGED storeVars
    BY DEF ExecutionFails, PublishRejected
  <1> DEFINE state == [wrk[w] EXCEPT !.pc = "failing", !.failure = kind]
  <1>3. wrk[w] \in WorkerState /\ wrk[w].run # None /\ IsTemplateRun(wrk[w].run)
    BY <1>2 DEF Shape, TypeOK, WorkerTypeOK, WellFormed, WorkerWellFormed
  <1>4. state \in WorkerState /\ state.pc = "failing" /\ state.run = wrk[w].run
        /\ state.failure = kind
    BY <1>3 DEF WorkerState
  <1>5. wrk' = [wrk EXCEPT ![w] = state]
    BY <1>1 DEF Shape, TypeOK, WorkerTypeOK
  <1>6. kind # None
    BY NullAssumption
  <1>7. WorkerWellFormed(w)'
    BY <1>2, <1>3, <1>4, <1>5, <1>6
    DEF WorkerWellFormed, IsTemplateRun, Shape, TypeOK, WorkerTypeOK, storeVars
  <1>8. QED
    BY <1>2, <1>4, <1>5, <1>7, WorkerMoves

(* The worker's own row is rewritten: its next state is well formed if it   *)
(* is idle, holds the same run, or goes on to refresh an existing parent.   *)
LEMMA OwnRowRewritten ==
  ASSUME Shape, NEW w \in Worker, wrk[w].pc # "idle", NEW row \in Row,
         row.key = runs[wrk[w].run].key, row.parent = runs[wrk[w].run].parent,
         runs' = [runs EXCEPT ![wrk[w].run] = row],
         NEW state \in WorkerState, wrk' = [wrk EXCEPT ![w] = state],
         \/ state = IdleWorker
         \/ state.run = wrk[w].run /\ state.pc = "failing" /\ state.failure # None
         \/ state.run = wrk[w].run /\ state.pc = "counting" /\ row.parent # None
  PROVE  WorkerWellFormed(w)'
  <1>1. CASE state = IdleWorker
    BY <1>1, WorkerRests
  <1>2. CASE state # IdleWorker
    <2>1. /\ wrk[w].run \in RunId /\ IsTemplateRun(wrk[w].run)
          /\ runs \in [RunId -> Row] /\ wrk'[w] = state
      BY DEF Shape, TypeOK, StoreTypeOK, WorkerTypeOK, WorkerState, WellFormed, WorkerWellFormed
    <2>2. runs'[wrk[w].run] = row
      BY <2>1
    <2>3. QED
      BY <1>2, <2>1, <2>2, StoreAssumption DEF WorkerWellFormed, IsTemplateRun
  <1>3. QED
    BY <1>1, <1>2

(* Where AfterSettling leaves the worker. *)
LEMMA AfterSettlingType ==
  ASSUME Shape, NEW w \in Worker, wrk[w].pc # "idle", AfterSettling(w)
  PROVE  \E state \in WorkerState :
           /\ wrk' = [wrk EXCEPT ![w] = state]
           /\ \/ state = IdleWorker
              \/ /\ state.run = wrk[w].run /\ state.pc = "counting"
                 /\ runs[wrk[w].run].parent # None
  <1> DEFINE state == IF runs[wrk[w].run].parent = None
                        THEN IdleWorker ELSE [wrk[w] EXCEPT !.pc = "counting"]
  <1>1. wrk[w] \in WorkerState /\ wrk' = [wrk EXCEPT ![w] = state]
    BY DEF Shape, TypeOK, WorkerTypeOK, AfterSettling
  <1>2. CASE runs[wrk[w].run].parent = None
    BY <1>1, <1>2, IdleWorkerType
  <1>3. CASE runs[wrk[w].run].parent # None
    <2>1. state = [wrk[w] EXCEPT !.pc = "counting"]
      BY <1>3
    <2>2. state \in WorkerState /\ state.run = wrk[w].run /\ state.pc = "counting"
      BY <1>1, <2>1 DEF WorkerState
    <2>3. QED
      BY <1>1, <1>3, <2>2
  <1>4. QED
    BY <1>2, <1>3

(* The facts about a worker that is about to write its run's row. *)
LEMMA BusyWorkerFacts ==
  ASSUME Shape, NEW w \in Worker, wrk[w].pc # "idle"
  PROVE  /\ wrk[w] \in WorkerState
         /\ wrk[w].run \in RunId
         /\ runs \in [RunId -> Row]
         /\ runs[wrk[w].run] \in Row
         /\ runs[wrk[w].run].key \in Locator
         /\ runs[wrk[w].run].state # "absent"
  BY StoreAssumption
  DEF Shape, TypeOK, StoreTypeOK, WorkerTypeOK, WorkerState, WellFormed, RowWellFormed,
      WorkerWellFormed, IsTemplateRun

(* A worker writes its run's row and moves on. *)
LEMMA OwnRowShape ==
  ASSUME Shape, NEW w \in Worker, wrk[w].pc # "idle", NEW row \in Row,
         row.key = runs[wrk[w].run].key, row.parent = runs[wrk[w].run].parent,
         row.state # "absent",
         runs' = [runs EXCEPT ![wrk[w].run] = row],
         NEW state \in WorkerState, wrk' = [wrk EXCEPT ![w] = state],
         \/ state = IdleWorker
         \/ state.run = wrk[w].run /\ state.pc = "failing" /\ state.failure # None
         \/ state.run = wrk[w].run /\ state.pc = "counting" /\ row.parent # None,
         results' \subseteq ResultRow, pointers' \in [Locator -> ResultRow \cup {None}],
         fresh' \subseteq Locator, UNCHANGED clock, UNCHANGED sub
  PROVE  Shape'
  <1>1. WorkerWellFormed(w)'
    BY OwnRowRewritten
  <1>2. wrk[w].run \in RunId /\ runs[wrk[w].run].state # "absent" /\ IsTemplateRun(wrk[w].run)
    BY BusyWorkerFacts DEF IsTemplateRun
  <1>3. QED
    BY <1>1, <1>2, WorkerRewrites

LEMMA LedgerUnchanged ==
  ASSUME Shape, UNCHANGED ledger
  PROVE  /\ results' \subseteq ResultRow
         /\ pointers' \in [Locator -> ResultRow \cup {None}]
         /\ fresh' \subseteq Locator
  BY DEF ledger, Shape, TypeOK, StoreTypeOK

(* SaveResult keeps the types of the tables. *)
LEMMA SaveResultType ==
  ASSUME Shape, NEW w \in Worker, wrk[w].pc # "idle", wrk[w].version < MaxVersion,
         SaveResult(wrk[w].run, NextVersion(w))
  PROVE  /\ results' \subseteq ResultRow
         /\ pointers' \in [Locator -> ResultRow \cup {None}]
         /\ fresh' \subseteq Locator
         /\ \E row \in Row :
              /\ row.key = runs[wrk[w].run].key
              /\ row.parent = runs[wrk[w].run].parent
              /\ row.state = "succeeded"
              /\ runs' = [runs EXCEPT ![wrk[w].run] = row]
  <1> DEFINE id == wrk[w].run
             result == [locator |-> runs[id].key, version |-> NextVersion(w), run |-> id]
             row == [runs[id] EXCEPT !.state = "succeeded", !.version = NextVersion(w),
                                     !.owner = None, !.expired = FALSE]
  <1>1. /\ wrk[w] \in WorkerState /\ id \in RunId /\ runs \in [RunId -> Row]
        /\ runs[id] \in Row /\ runs[id].key \in Locator
    BY BusyWorkerFacts
  <1>2. NextVersion(w) \in 1 .. MaxVersion
    BY <1>1, StoreAssumption DEF NextVersion, WorkerState
  <1>3. result \in ResultRow
    BY <1>1, <1>2 DEF ResultRow
  <1>4. /\ results' = results \cup {result}
        /\ pointers' = [pointers EXCEPT ![runs[id].key] = result]
        /\ fresh' = fresh \cup {runs[id].key}
        /\ runs' = [runs EXCEPT ![id] = row]
    BY DEF SaveResult, MovePointer, CompleteRun
  <1>5. NextVersion(w) \in 0 .. MaxVersion
    BY <1>2
  <1>6. row \in Row /\ row.key = runs[id].key /\ row.parent = runs[id].parent
        /\ row.state = "succeeded"
    BY <1>1, <1>5 DEF Row, RunState, Settled
  <1>7. /\ results' \subseteq ResultRow
        /\ pointers' \in [Locator -> ResultRow \cup {None}]
        /\ fresh' \subseteq Locator
    BY <1>1, <1>3, <1>4 DEF Shape, TypeOK, StoreTypeOK
  <1>8. QED
    BY <1>4, <1>6, <1>7

LEMMA PublishShape ==
  ASSUME Shape, NEW w \in Worker, Publish(w) \/ PublishUnacknowledged(w), UNCHANGED sub
  PROVE  Shape'
  <1>1. /\ wrk[w].pc = "executing" /\ wrk[w].version < MaxVersion
        /\ SaveResult(wrk[w].run, NextVersion(w)) /\ UNCHANGED clock
    BY DEF Publish, PublishUnacknowledged
  <1>2. /\ results' \subseteq ResultRow
        /\ pointers' \in [Locator -> ResultRow \cup {None}]
        /\ fresh' \subseteq Locator
    BY <1>1, SaveResultType
  <1>3. PICK row \in Row :
          /\ row.key = runs[wrk[w].run].key
          /\ row.parent = runs[wrk[w].run].parent
          /\ row.state = "succeeded"
          /\ runs' = [runs EXCEPT ![wrk[w].run] = row]
    BY <1>1, SaveResultType
  <1>4. CASE Publish(w)
    <2>1. AfterSettling(w)
      BY <1>4 DEF Publish
    <2>2. PICK state \in WorkerState :
            /\ wrk' = [wrk EXCEPT ![w] = state]
            /\ \/ state = IdleWorker
               \/ /\ state.run = wrk[w].run /\ state.pc = "counting"
                  /\ runs[wrk[w].run].parent # None
      BY <1>1, <2>1, AfterSettlingType
    <2>3. QED
      BY <1>1, <1>2, <1>3, <2>2, OwnRowShape
  <1>5. CASE PublishUnacknowledged(w)
    <2> DEFINE state == [wrk[w] EXCEPT !.pc = "failing", !.failure = "transient"]
    <2>1. wrk' = [wrk EXCEPT ![w] = state] /\ wrk[w] \in WorkerState
      BY <1>5 DEF PublishUnacknowledged, Shape, TypeOK, WorkerTypeOK
    <2>2. /\ state \in WorkerState /\ state.pc = "failing" /\ state.run = wrk[w].run
          /\ state.failure # None
      BY <2>1, NullAssumption DEF WorkerState, FailureKind
    <2>3. QED
      BY <1>1, <1>2, <1>3, <2>1, <2>2, OwnRowShape
  <1>6. QED
    BY <1>4, <1>5

LEMMA RetryShape ==
  ASSUME Shape, NEW w \in Worker, RetryRun(w), UNCHANGED sub
  PROVE  Shape'
  <1> DEFINE id == wrk[w].run
             row == [runs[id] EXCEPT !.state = "queued", !.attempt = wrk[w].attempt + 1,
                                     !.failure = wrk[w].failure, !.owner = None,
                                     !.expired = FALSE, !.available = FALSE]
  <1>1. /\ wrk[w].pc = "failing" /\ Retryable(w) /\ UNCHANGED ledger /\ UNCHANGED clock
        /\ wrk' = [wrk EXCEPT ![w] = IdleWorker]
        /\ runs' = [runs EXCEPT ![id] = row]
    BY DEF RetryRun, Requeue
  <1>2. wrk[w] \in WorkerState /\ id \in RunId /\ runs[id] \in Row
        /\ wrk[w].failure \in FailureKind \cup {None}
    BY <1>1, BusyWorkerFacts DEF WorkerState
  <1>3. wrk[w].attempt + 1 \in 0 .. LastAttempt
    BY <1>1, <1>2 DEF Retryable, LastAttempt, WorkerState
  <1>4. /\ row \in Row /\ row.key = runs[id].key /\ row.parent = runs[id].parent
        /\ row.state # "absent"
    BY <1>2, <1>3 DEF Row, RunState, Active
  <1>5. QED
    BY <1>1, <1>4, IdleWorkerType, LedgerUnchanged, OwnRowShape

LEMMA FailShape ==
  ASSUME Shape, NEW w \in Worker, FailRun(w), UNCHANGED sub
  PROVE  Shape'
  <1> DEFINE id == wrk[w].run
             row == [runs[id] EXCEPT !.state = "failed", !.failure = wrk[w].failure,
                                     !.owner = None, !.expired = FALSE]
  <1>1. /\ wrk[w].pc = "failing" /\ UNCHANGED ledger /\ UNCHANGED clock
        /\ AfterSettling(w)
        /\ runs' = [runs EXCEPT ![id] = row]
    BY DEF FailRun, Fail
  <1>2. /\ id \in RunId /\ runs[id] \in Row
        /\ wrk[w].failure \in FailureKind \cup {None}
    BY <1>1, BusyWorkerFacts DEF WorkerState
  <1>3. /\ row \in Row /\ row.key = runs[id].key /\ row.parent = runs[id].parent
        /\ row.state # "absent"
    BY <1>2 DEF Row, RunState, Settled
  <1>4. PICK state \in WorkerState :
          /\ wrk' = [wrk EXCEPT ![w] = state]
          /\ \/ state = IdleWorker
             \/ /\ state.run = wrk[w].run /\ state.pc = "counting"
                /\ runs[wrk[w].run].parent # None
    BY <1>1, AfterSettlingType
  <1>5. QED
    BY <1>1, <1>3, <1>4, LedgerUnchanged, OwnRowShape

LEMMA CountShape ==
  ASSUME Shape, NEW w \in Worker, CountChildren(w), UNCHANGED sub
  PROVE  Shape'
  <1> DEFINE parent == runs[wrk[w].run].parent
             settling == [wrk[w] EXCEPT !.pc = "settling", !.status = ChildrenStatus(parent)]
  <1>1. wrk[w].pc = "counting" /\ UNCHANGED storeVars
    BY DEF CountChildren
  <1>2. wrk[w] \in WorkerState
    BY <1>1, BusyWorkerFacts
  <1>3. CASE ChildrenSettled(parent)
    <2>1. wrk' = [wrk EXCEPT ![w] = settling]
      BY <1>3 DEF CountChildren, Shape, TypeOK, WorkerTypeOK
    <2>2. ChildrenStatus(parent) \in ParentOutcome
      BY DEF ChildrenStatus, ParentOutcome, Settled
    <2>3. ChildrenStatus(parent) \in RunState
      BY <2>2 DEF ParentOutcome, RunState
    <2>4. /\ settling \in WorkerState /\ settling.pc = "settling"
          /\ settling.run = wrk[w].run /\ settling.status = ChildrenStatus(parent)
      BY <1>2, <2>3 DEF WorkerState
    <2>5. WorkerWellFormed(w)'
      BY <1>1, <2>1, <2>2, <2>4
      DEF WorkerWellFormed, IsTemplateRun, Shape, TypeOK, WorkerTypeOK, WellFormed, storeVars
    <2>6. QED
      BY <1>1, <2>1, <2>4, <2>5, WorkerMoves
  <1>4. CASE ~ ChildrenSettled(parent)
    <2>1. wrk' = [wrk EXCEPT ![w] = IdleWorker]
      BY <1>4 DEF CountChildren
    <2>2. QED
      BY <1>1, <2>1, IdleWorkerType, WorkerRests, WorkerMoves
  <1>5. QED
    BY <1>3, <1>4

LEMMA SettleShape ==
  ASSUME Shape, NEW w \in Worker, SettleParent(w), UNCHANGED sub
  PROVE  Shape'
  <1> DEFINE id == runs[wrk[w].run].parent
             row == [runs[id] EXCEPT !.state = wrk[w].status]
  <1>1. /\ wrk[w].pc = "settling" /\ UNCHANGED ledger /\ UNCHANGED clock
        /\ wrk' = [wrk EXCEPT ![w] = IdleWorker]
        /\ runs' = [runs EXCEPT ![id] = row]
    BY DEF SettleParent, UpdateParent
  <1>2. /\ wrk[w] \in WorkerState /\ wrk[w].run \in RunId
        /\ runs[wrk[w].run] \in Row /\ runs \in [RunId -> Row]
    BY <1>1, BusyWorkerFacts
  <1>3. id # None /\ wrk[w].status \in ParentOutcome
    BY <1>1 DEF Shape, WellFormed, WorkerWellFormed
  <1>4. id \in RunId /\ runs[id].key \in CardSet
    BY <1>2, <1>3 DEF Row, Shape, WellFormed, RowWellFormed
  <1>5. runs[id] \in Row /\ runs[id].state # "absent"
    BY <1>2, <1>4, StoreAssumption DEF Shape, WellFormed, RowWellFormed
  <1>6. wrk[w].status \in RunState /\ wrk[w].status # "absent" /\ wrk[w].status # "running"
    BY <1>3 DEF ParentOutcome, Settled, RunState
  <1>7. /\ row \in Row /\ row.key = runs[id].key /\ row.parent = runs[id].parent
        /\ row.state # "absent" /\ row.state # "running"
    BY <1>5, <1>6 DEF Row
  <1>8. QED
    BY <1>1, <1>4, <1>5, <1>7, IdleWorkerType, WorkerRests, LedgerUnchanged, WorkerRewrites

-----------------------------------------------------------------------------
(* Rows rewritten on nobody's behalf, and processes that stop *)

(* One row changes, workers and submissions do not. *)
LEMMA RowRewritten ==
  ASSUME Shape, NEW id \in RunId, runs[id].state # "absent", NEW row \in Row,
         row.key = runs[id].key, row.parent = runs[id].parent, row.state = runs[id].state,
         runs' = [runs EXCEPT ![id] = row],
         UNCHANGED ledger, UNCHANGED clock, UNCHANGED <<wrk, sub>>
  PROVE  Shape'
  <1>1. row.state = "running" => IsTemplateRun(id)
    BY DEF Shape, WellFormed, RowWellFormed
  <1>2. /\ runs' \in [RunId -> Row]
        /\ RowsKept
        /\ \A r \in RunId : RowWellFormed(r)'
    BY <1>1, RewriteRow
  <1>3. StoreTypeOK'
    BY <1>2, LedgerUnchanged DEF Shape, TypeOK, StoreTypeOK
  <1>4. WorkerTypeOK' /\ SubmissionTypeOK'
    BY DEF Shape, TypeOK, WorkerTypeOK, SubmissionTypeOK
  <1>5. QED
    BY <1>2, <1>3, <1>4, ShapeStep

LEMMA HeartbeatShape ==
  ASSUME Shape, NEW w \in Worker, Heartbeat(w), UNCHANGED sub
  PROVE  Shape'
  <1> DEFINE id == wrk[w].run
             row == [runs[id] EXCEPT !.expired = FALSE]
  <1>1. /\ wrk[w].pc = "executing" /\ UNCHANGED ledger /\ UNCHANGED <<clock, wrk>>
        /\ runs' = [runs EXCEPT ![id] = row]
    BY DEF Heartbeat, RenewLease
  <1>2. id \in RunId /\ runs[id] \in Row /\ runs[id].state # "absent"
    BY <1>1, BusyWorkerFacts
  <1>3. /\ row \in Row /\ row.key = runs[id].key /\ row.parent = runs[id].parent
        /\ row.state = runs[id].state
    BY <1>2 DEF Row
  <1>4. QED
    BY <1>1, <1>2, <1>3, RowRewritten

LEMMA CrashShape ==
  ASSUME Shape, NEW p \in Process, Crash(p), UNCHANGED sub
  PROVE  Shape'
  <1>1. /\ wrk' = [w \in Worker |-> IF Host[w] = p THEN IdleWorker ELSE wrk[w]]
        /\ UNCHANGED storeVars
    BY DEF Crash
  <1>2. WorkerTypeOK' /\ SubmissionTypeOK'
    BY <1>1, IdleWorkerType DEF Shape, TypeOK, WorkerTypeOK, SubmissionTypeOK
  <1>3. StoreTypeOK'
    BY <1>1 DEF Shape, TypeOK, StoreTypeOK, storeVars
  <1>4. ASSUME NEW w \in Worker PROVE wrk'[w] = wrk[w] \/ WorkerWellFormed(w)'
    BY <1>1 DEF WorkerWellFormed, IdleWorker
  <1>5. UNCHANGED runs
    BY <1>1 DEF storeVars
  <1>6. QED
    BY <1>2, <1>3, <1>4, <1>5, RowsUnchanged, ShapeStep

LEMMA RecoverShape ==
  ASSUME Shape, Recover, UNCHANGED sub
  PROVE  Shape'
  <1> DEFINE recovered(id) == [runs[id] EXCEPT !.state = "queued", !.owner = None,
                                               !.expired = FALSE]
  <1>1. /\ runs' = [id \in RunId |-> IF id \in Expired THEN recovered(id) ELSE runs[id]]
        /\ UNCHANGED ledger /\ UNCHANGED <<clock, wrk>>
    BY DEF Recover, RecoverExpiredLeases
  <1>2. ASSUME NEW id \in RunId
        PROVE  /\ runs'[id] \in Row /\ runs'[id].key = runs[id].key
               /\ runs'[id].parent = runs[id].parent
               /\ \/ runs'[id].state = runs[id].state
                  \/ runs[id].state = "running" /\ runs'[id].state = "queued"
    <2>1. runs[id] \in Row
      BY DEF Shape, TypeOK, StoreTypeOK
    <2>2. CASE id \in Expired
      <3>1. runs'[id] = recovered(id) /\ runs[id].state = "running"
        BY <1>1, <2>2 DEF Expired
      <3>2. /\ recovered(id) \in Row /\ recovered(id).state = "queued"
            /\ recovered(id).key = runs[id].key /\ recovered(id).parent = runs[id].parent
        BY <2>1 DEF Row, RunState, Active
      <3>3. QED
        BY <3>1, <3>2
    <2>3. CASE id \notin Expired
      BY <1>1, <2>1, <2>3
    <2>4. QED
      BY <2>2, <2>3
  <1>3. runs' \in [RunId -> Row]
    BY <1>1, <1>2
  <1>4. RowsKept
    BY <1>2 DEF RowsKept
  <1>5. ASSUME NEW id \in RunId PROVE RowWellFormed(id)'
    <2>1. RowWellFormed(id)
      BY DEF Shape, WellFormed
    <2>2. runs[id].parent # None => runs[id].parent \in RunId
      BY DEF Shape, TypeOK, StoreTypeOK, Row
    <2>3. QED
      BY <1>2, <2>1, <2>2 DEF RowWellFormed, IsTemplateRun
  <1>6. StoreTypeOK'
    BY <1>1, <1>3, LedgerUnchanged DEF Shape, TypeOK, StoreTypeOK
  <1>7. WorkerTypeOK' /\ SubmissionTypeOK'
    BY <1>1 DEF Shape, TypeOK, WorkerTypeOK, SubmissionTypeOK
  <1>8. QED
    BY <1>1, <1>4, <1>5, <1>6, <1>7, ShapeStep

LEMMA TimeShape ==
  ASSUME Shape, TimePasses
  PROVE  Shape'
  <1>1. CASE \E id \in RunId : RetryDue(id) \/ LeaseExpires(id)
    <2>1. PICK id \in RunId : RetryDue(id) \/ LeaseExpires(id)
      BY <1>1
    <2>2. /\ runs[id] \in Row /\ runs[id].state # "absent"
          /\ UNCHANGED ledger /\ UNCHANGED clock /\ UNCHANGED <<wrk, sub>>
      BY <2>1 DEF RetryDue, LeaseExpires, TimePasses, Shape, TypeOK, StoreTypeOK
    <2> DEFINE due == [runs[id] EXCEPT !.available = TRUE]
               late == [runs[id] EXCEPT !.expired = TRUE]
    <2>3. /\ due \in Row /\ due.key = runs[id].key /\ due.parent = runs[id].parent
          /\ due.state = runs[id].state
      BY <2>2 DEF Row
    <2>4. /\ late \in Row /\ late.key = runs[id].key /\ late.parent = runs[id].parent
          /\ late.state = runs[id].state
      BY <2>2 DEF Row
    <2>5. runs' = [runs EXCEPT ![id] = due] \/ runs' = [runs EXCEPT ![id] = late]
      BY <2>1 DEF RetryDue, LeaseExpires
    <2>6. QED
      BY <2>2, <2>3, <2>4, <2>5, RowRewritten
  <1>2. CASE \E l \in Locator : ResultAges(l)
    <2>1. UNCHANGED <<runs, results, pointers, clock>> /\ fresh' \subseteq fresh
          /\ UNCHANGED <<wrk, sub>>
      BY <1>2 DEF ResultAges, TimePasses
    <2>2. StoreTypeOK' /\ WorkerTypeOK' /\ SubmissionTypeOK'
      BY <2>1 DEF Shape, TypeOK, StoreTypeOK, WorkerTypeOK, SubmissionTypeOK
    <2>3. QED
      BY <2>1, <2>2, RowsUnchanged, ShapeStep
  <1>3. QED
    BY <1>1, <1>2 DEF TimePasses

-----------------------------------------------------------------------------
(* Submissions *)

LEMMA IdleSubmissionType ==
  /\ IdleSubmission \in SubmissionState
  /\ IdleSubmission.pc = "idle" /\ IdleSubmission.parent = None
  BY StoreAssumption DEF IdleSubmission, SubmissionState, Mode

(* What a submission's next local state must satisfy, given the rows. *)
FitsSubmission(state, table) ==
  /\ state.pc = "finding" => state.target # None
  /\ state.pc = "saving" => state.target \in Locator
  /\ state.pc \in {"preparing", "savingParent", "preparingChild", "savingChild", "resaving"}
       => state.target \in CardSet
  /\ state.pc \in {"savingParent", "preparingChild", "savingChild"} => state.pending # <<>>
  /\ state.pc \in {"preparingChild", "savingChild", "resaving"} => state.parent # None
  /\ state.parent # None => table[state.parent].key \in CardSet

LEMMA SubmissionFacts ==
  ASSUME Shape, NEW s \in Submitter
  PROVE  sub[s] \in SubmissionState /\ FitsSubmission(sub[s], runs)
  BY DEF Shape, TypeOK, SubmissionTypeOK, WellFormed, SubmissionWellFormed, FitsSubmission

(* A submission moves on; at most the clock moves with it. *)
LEMMA SubmissionMoves ==
  ASSUME Shape, NEW s \in Submitter, NEW state \in SubmissionState, FitsSubmission(state, runs),
         sub' = [sub EXCEPT ![s] = state],
         UNCHANGED <<runs, ledger>>, clock' \in 0 .. MaxClock, UNCHANGED wrk
  PROVE  Shape'
  <1>1. StoreTypeOK'
    BY DEF Shape, TypeOK, StoreTypeOK, ledger
  <1>2. WorkerTypeOK' /\ SubmissionTypeOK'
    BY DEF Shape, TypeOK, WorkerTypeOK, SubmissionTypeOK
  <1>3. \A t \in Submitter : t # s => sub'[t] = sub[t]
    BY DEF Shape, TypeOK, SubmissionTypeOK
  <1>4. SubmissionWellFormed(s)'
    BY DEF FitsSubmission, SubmissionWellFormed, Shape, TypeOK, SubmissionTypeOK
  <1>5. QED
    BY <1>1, <1>2, <1>3, <1>4, RowsUnchanged, ShapeStep

(* A submission ends. *)
LEMMA SubmissionLeaves ==
  ASSUME Shape, NEW s \in Submitter, Leave(s), UNCHANGED storeVars, UNCHANGED wrk
  PROVE  Shape'
  <1>1. FitsSubmission(IdleSubmission, runs)
    BY IdleSubmissionType DEF FitsSubmission
  <1>2. UNCHANGED <<runs, ledger>> /\ clock' \in 0 .. MaxClock
    BY DEF storeVars, ledger, Shape, TypeOK, StoreTypeOK
  <1>3. QED
    BY <1>1, <1>2, IdleSubmissionType, SubmissionMoves DEF Leave

LEMMA StampType ==
  ASSUME Shape, Stamp
  PROVE  clock' \in 0 .. MaxClock
  BY DEF Stamp

LEMMA BeginTemplateShape ==
  ASSUME Shape, NEW s \in Submitter, NEW l \in Locator, NEW mode \in Modes,
         BeginTemplate(s, l, mode), UNCHANGED wrk
  PROVE  Shape'
  <1> DEFINE state == [IdleSubmission EXCEPT !.pc = "finding", !.target = l,
                         !.mode = mode, !.version = CurrentVersion(l)]
  <1>1. sub' = [sub EXCEPT ![s] = state] /\ UNCHANGED storeVars
    BY DEF BeginTemplate
  <1>2. CurrentVersion(l) \in 0 .. MaxVersion
    <2>1. pointers[l] \in ResultRow \cup {None}
      BY DEF Shape, TypeOK, StoreTypeOK
    <2>2. QED
      BY <2>1, StoreAssumption DEF CurrentVersion, ResultRow
  <1>3. mode \in Mode
    BY SubmissionAssumption
  <1>4. /\ state \in SubmissionState /\ state.pc = "finding" /\ state.target = l
        /\ state.parent = None
    BY <1>2, <1>3, IdleSubmissionType DEF SubmissionState
  <1>5. FitsSubmission(state, runs)
    BY <1>4, StoreAssumption DEF FitsSubmission
  <1>6. UNCHANGED <<runs, ledger>> /\ clock' \in 0 .. MaxClock
    BY <1>1 DEF storeVars, ledger, Shape, TypeOK, StoreTypeOK
  <1>7. QED
    BY <1>1, <1>4, <1>5, <1>6, SubmissionMoves

LEMMA BeginCardSetShape ==
  ASSUME Shape, NEW s \in Submitter, NEW c \in CardSet, NEW mode \in Modes,
         BeginCardSet(s, c, mode), UNCHANGED wrk
  PROVE  Shape'
  <1> DEFINE state == [IdleSubmission EXCEPT !.pc = "finding", !.target = c, !.mode = mode]
  <1>1. sub' = [sub EXCEPT ![s] = state] /\ UNCHANGED storeVars
    BY DEF BeginCardSet
  <1>2. mode \in Mode
    BY SubmissionAssumption
  <1>3. /\ state \in SubmissionState /\ state.pc = "finding" /\ state.target = c
        /\ state.parent = None
    BY <1>2, IdleSubmissionType DEF SubmissionState
  <1>4. FitsSubmission(state, runs)
    BY <1>3, StoreAssumption DEF FitsSubmission
  <1>5. UNCHANGED <<runs, ledger>> /\ clock' \in 0 .. MaxClock
    BY <1>1 DEF storeVars, ledger, Shape, TypeOK, StoreTypeOK
  <1>6. QED
    BY <1>1, <1>3, <1>4, <1>5, SubmissionMoves

(* The steps that take a stamp. *)
LEMMA StampShape ==
  ASSUME Shape, NEW s \in Submitter, MissRun(s) \/ StampParent(s) \/ StampChild(s),
         UNCHANGED wrk
  PROVE  Shape'
  <1>1. PICK pc \in {"saving", "savingParent", "savingChild"} :
          /\ sub' = [sub EXCEPT ![s].pc = pc, ![s].created = clock']
          /\ pc = "saving" => sub[s].target \in Locator
          /\ pc = "savingParent" => sub[s].pc = "preparing" /\ sub[s].pending # <<>>
          /\ pc = "savingChild" => sub[s].pc = "preparingChild"
    BY DEF MissRun, StampParent, StampChild
  <1>2. UNCHANGED <<runs, ledger>> /\ clock' \in 0 .. MaxClock
    BY StampType DEF MissRun, StampParent, StampChild
  <1> DEFINE state == [sub[s] EXCEPT !.pc = pc, !.created = clock']
  <1>3. sub[s] \in SubmissionState /\ FitsSubmission(sub[s], runs)
    BY SubmissionFacts
  <1>4. sub' = [sub EXCEPT ![s] = state]
    BY <1>1 DEF Shape, TypeOK, SubmissionTypeOK
  <1>5. /\ state \in SubmissionState /\ state.pc = pc
        /\ state.target = sub[s].target /\ state.parent = sub[s].parent
        /\ state.pending = sub[s].pending
    BY <1>2, <1>3 DEF SubmissionState
  <1>6. FitsSubmission(state, runs)
    BY <1>1, <1>3, <1>5 DEF FitsSubmission
  <1>7. QED
    BY <1>2, <1>4, <1>5, <1>6, SubmissionMoves

LEMMA MissCardSetShape ==
  ASSUME Shape, NEW s \in Submitter, MissCardSet(s), UNCHANGED wrk
  PROVE  Shape'
  <1> DEFINE state == [sub[s] EXCEPT !.pc = "preparing", !.todo = Members[sub[s].target]]
  <1>1. sub[s] \in SubmissionState /\ FitsSubmission(sub[s], runs)
    BY SubmissionFacts
  <1>2. /\ sub' = [sub EXCEPT ![s] = state] /\ UNCHANGED storeVars
        /\ sub[s].target \in CardSet
    BY DEF MissCardSet, Shape, TypeOK, SubmissionTypeOK
  <1>3. Members[sub[s].target] \in Seq(Locator)
    BY <1>2, SubmissionAssumption
  <1>4. /\ state \in SubmissionState /\ state.pc = "preparing"
        /\ state.target = sub[s].target /\ state.parent = sub[s].parent
    BY <1>1, <1>3 DEF SubmissionState
  <1>5. FitsSubmission(state, runs)
    BY <1>1, <1>2, <1>4 DEF FitsSubmission
  <1>6. UNCHANGED <<runs, ledger>> /\ clock' \in 0 .. MaxClock
    BY <1>2 DEF storeVars, ledger, Shape, TypeOK, StoreTypeOK
  <1>7. QED
    BY <1>2, <1>4, <1>5, <1>6, SubmissionMoves

LEMMA PrepareChildShape ==
  ASSUME Shape, NEW s \in Submitter, PrepareChild(s), UNCHANGED wrk
  PROVE  Shape'
  <1> DEFINE l == Head(sub[s].todo)
             prepared == [locator |-> l, version |-> CurrentVersion(l)]
             pending == IF Reusable(l, sub[s].mode)
                          THEN sub[s].pending ELSE Append(sub[s].pending, prepared)
             state == [sub[s] EXCEPT !.todo = Tail(sub[s].todo), !.pending = pending]
  <1>1. sub[s] \in SubmissionState /\ FitsSubmission(sub[s], runs)
    BY SubmissionFacts
  <1>2. /\ sub' = [sub EXCEPT ![s] = state] /\ UNCHANGED storeVars
        /\ sub[s].todo # <<>> /\ sub[s].pc = "preparing"
    BY DEF PrepareChild, Shape, TypeOK, SubmissionTypeOK
  <1>3. sub[s].todo \in Seq(Locator) /\ sub[s].pending \in Seq(Prepared)
    BY <1>1 DEF SubmissionState
  <1>4. l \in Locator /\ Tail(sub[s].todo) \in Seq(Locator)
    BY <1>2, <1>3
  <1>5. CurrentVersion(l) \in 0 .. MaxVersion
    <2>1. pointers[l] \in ResultRow \cup {None}
      BY <1>4 DEF Shape, TypeOK, StoreTypeOK
    <2>2. QED
      BY <2>1, StoreAssumption DEF CurrentVersion, ResultRow
  <1>6. prepared \in Prepared
    BY <1>4, <1>5 DEF Prepared
  <1>7. pending \in Seq(Prepared)
    BY <1>3, <1>6
  <1>8. /\ state \in SubmissionState /\ state.pc = "preparing"
        /\ state.target = sub[s].target /\ state.parent = sub[s].parent
    BY <1>1, <1>2, <1>4, <1>7 DEF SubmissionState
  <1>9. FitsSubmission(state, runs)
    BY <1>1, <1>2, <1>8 DEF FitsSubmission
  <1>10. UNCHANGED <<runs, ledger>> /\ clock' \in 0 .. MaxClock
    BY <1>2 DEF storeVars, ledger, Shape, TypeOK, StoreTypeOK
  <1>11. QED
    BY <1>2, <1>8, <1>9, <1>10, SubmissionMoves

(* Inserting a queued row under a new run id. *)
LEMMA InsertRow ==
  ASSUME Shape, FreeIds # {}, NEW row \in Row, row.state = "queued", row.key # None,
         row.parent # None => runs[row.parent].key \in CardSet,
         SaveRun(NewRunId, row)
  PROVE  /\ NewRunId \in RunId /\ runs[NewRunId].state = "absent"
         /\ runs' = [runs EXCEPT ![NewRunId] = row]
         /\ runs' \in [RunId -> Row]
         /\ RowsKept
         /\ \A r \in RunId : RowWellFormed(r)'
  <1>1. NewRunId \in RunId /\ runs[NewRunId].state = "absent"
    BY DEF FreeIds, NewRunId
  <1>2. runs \in [RunId -> Row]
    BY DEF Shape, TypeOK, StoreTypeOK
  <1>3. runs' = [runs EXCEPT ![NewRunId] = row]
    BY <1>1, <1>2 DEF SaveRun
  <1>4. runs' \in [RunId -> Row] /\ RowsKept
    BY <1>1, <1>2, <1>3 DEF RowsKept
  <1>5. ASSUME NEW r \in RunId PROVE RowWellFormed(r)'
    <2>1. RowWellFormed(r) /\ \A q \in RunId : RowWellFormed(q)
      BY DEF Shape, WellFormed
    <2>2. row.parent \in RunId \cup {None} /\ runs[r].parent \in RunId \cup {None}
      BY <1>2 DEF Row
    <2>3. \A q \in RunId : runs[q].key \in CardSet => runs'[q].key \in CardSet
      BY <1>1, <1>2, <1>3, <2>1, StoreAssumption DEF RowWellFormed
    <2>4. CASE r = NewRunId
      <3>1. runs'[r] = row
        BY <1>1, <1>2, <1>3, <2>4
      <3>2. QED
        BY <2>2, <2>3, <3>1 DEF RowWellFormed
    <2>5. CASE r # NewRunId
      <3>1. runs'[r] = runs[r]
        BY <1>1, <1>2, <1>3, <2>5
      <3>2. QED
        BY <2>1, <2>2, <2>3, <3>1 DEF RowWellFormed, IsTemplateRun
    <2>6. QED
      BY <2>4, <2>5
  <1>6. QED
    BY <1>1, <1>3, <1>4, <1>5

(* A submission rewrites or inserts rows and moves on. *)
LEMMA SubmissionWrites ==
  ASSUME Shape, NEW s \in Submitter, NEW state \in SubmissionState, FitsSubmission(state, runs'),
         sub' = [sub EXCEPT ![s] = state],
         runs' \in [RunId -> Row], RowsKept, \A r \in RunId : RowWellFormed(r)',
         UNCHANGED ledger, UNCHANGED clock, UNCHANGED wrk
  PROVE  Shape'
  <1>1. StoreTypeOK'
    BY LedgerUnchanged DEF Shape, TypeOK, StoreTypeOK
  <1>2. WorkerTypeOK' /\ SubmissionTypeOK'
    BY DEF Shape, TypeOK, WorkerTypeOK, SubmissionTypeOK
  <1>3. \A t \in Submitter : t # s => sub'[t] = sub[t]
    BY DEF Shape, TypeOK, SubmissionTypeOK
  <1>4. SubmissionWellFormed(s)'
    BY DEF FitsSubmission, SubmissionWellFormed, Shape, TypeOK, SubmissionTypeOK
  <1>5. QED
    BY <1>1, <1>2, <1>3, <1>4, ShapeStep

LEMMA SaveTemplateRunShape ==
  ASSUME Shape, NEW s \in Submitter, SaveTemplateRun(s), UNCHANGED wrk
  PROVE  Shape'
  <1> DEFINE row == NewRow(sub[s].target, sub[s].mode, None, sub[s].version, sub[s].created)
  <1>1. /\ sub[s].pc = "saving" /\ FreeIds # {} /\ SaveRun(NewRunId, row)
        /\ Leave(s) /\ UNCHANGED clock /\ UNCHANGED ledger
    BY DEF SaveTemplateRun, SaveRun
  <1>2. sub[s] \in SubmissionState /\ sub[s].target \in Locator
    BY <1>1, SubmissionFacts DEF FitsSubmission
  <1>3. /\ sub[s].mode \in Mode /\ sub[s].version \in 0 .. MaxVersion
        /\ sub[s].created \in 0 .. MaxClock
    BY <1>2 DEF SubmissionState
  <1>4. row \in Row
    BY <1>2, <1>3, NewRowType
  <1>5. row.state = "queued" /\ row.key # None /\ row.parent = None
    BY <1>2, StoreAssumption DEF NewRow
  <1>6. /\ runs' \in [RunId -> Row] /\ RowsKept
        /\ \A r \in RunId : RowWellFormed(r)'
    BY <1>1, <1>4, <1>5, InsertRow
  <1>7. FitsSubmission(IdleSubmission, runs')
    BY IdleSubmissionType DEF FitsSubmission, IdleSubmission
  <1>8. QED
    BY <1>1, <1>6, <1>7, IdleSubmissionType, SubmissionWrites DEF Leave

LEMMA SaveParentShape ==
  ASSUME Shape, NEW s \in Submitter, SaveParent(s), UNCHANGED wrk
  PROVE  Shape'
  <1> DEFINE row == ParentRow(s)
             state == [sub[s] EXCEPT !.pc = "preparingChild", !.parent = NewRunId]
  <1>1. /\ sub[s].pc = "savingParent" /\ FreeIds # {} /\ SaveRun(NewRunId, row)
        /\ UNCHANGED clock /\ UNCHANGED ledger
    BY DEF SaveParent, SaveRun
  <1>2. sub' = [sub EXCEPT ![s] = state]
    BY DEF SaveParent, Shape, TypeOK, SubmissionTypeOK
  <1>3. /\ sub[s] \in SubmissionState /\ sub[s].target \in CardSet
        /\ sub[s].pending # <<>>
    BY <1>1, SubmissionFacts DEF FitsSubmission
  <1>4. sub[s].mode \in Mode /\ sub[s].created \in 0 .. MaxClock
    BY <1>3 DEF SubmissionState
  <1>5. row \in Row
    BY <1>3, <1>4, NewRowType, StoreAssumption DEF ParentRow
  <1>6. row.state = "queued" /\ row.key = sub[s].target /\ row.parent = None
    BY DEF ParentRow, NewRow
  <1>7. row.key # None
    BY <1>3, <1>6, StoreAssumption
  <1>8. /\ NewRunId \in RunId /\ runs' = [runs EXCEPT ![NewRunId] = row]
        /\ runs' \in [RunId -> Row] /\ RowsKept
        /\ \A r \in RunId : RowWellFormed(r)'
    BY <1>1, <1>5, <1>6, <1>7, InsertRow
  <1>9. /\ state \in SubmissionState /\ state.pc = "preparingChild"
        /\ state.target = sub[s].target /\ state.parent = NewRunId
        /\ state.pending = sub[s].pending
    BY <1>3, <1>8 DEF SubmissionState
  <1>10. runs'[NewRunId].key \in CardSet
    BY <1>3, <1>6, <1>8 DEF Shape, TypeOK, StoreTypeOK
  <1>11. NewRunId # None
    BY <1>8, StoreAssumption
  <1>12. FitsSubmission(state, runs')
    BY <1>3, <1>9, <1>10, <1>11 DEF FitsSubmission
  <1>13. QED
    BY <1>1, <1>2, <1>8, <1>9, <1>12, SubmissionWrites

LEMMA SaveChildShape ==
  ASSUME Shape, NEW s \in Submitter, SaveChild(s), UNCHANGED wrk
  PROVE  Shape'
  <1> DEFINE child == Head(sub[s].pending)
             row == ChildRow(s)
             pc == IF Len(sub[s].pending) = 1 THEN "resaving" ELSE "preparingChild"
             state == [sub[s] EXCEPT !.pending = Tail(sub[s].pending), !.pc = pc]
  <1>1. /\ sub[s].pc = "savingChild" /\ FreeIds # {} /\ SaveRun(NewRunId, row)
        /\ UNCHANGED clock /\ UNCHANGED ledger
    BY DEF SaveChild, SaveRun
  <1>2. sub' = [sub EXCEPT ![s] = state]
    BY DEF SaveChild, Shape, TypeOK, SubmissionTypeOK
  <1>3. /\ sub[s] \in SubmissionState /\ sub[s].target \in CardSet
        /\ sub[s].pending # <<>> /\ sub[s].parent # None
        /\ runs[sub[s].parent].key \in CardSet
    BY <1>1, SubmissionFacts DEF FitsSubmission
  <1>4. /\ sub[s].mode \in Mode /\ sub[s].created \in 0 .. MaxClock
        /\ sub[s].parent \in RunId /\ sub[s].pending \in Seq(Prepared)
    BY <1>3 DEF SubmissionState
  <1>5. child \in Prepared /\ Tail(sub[s].pending) \in Seq(Prepared)
    BY <1>3, <1>4
  <1>6. Len(sub[s].pending) # 1 => Tail(sub[s].pending) # <<>>
    <2>1. /\ Len(Tail(sub[s].pending)) = Len(sub[s].pending) - 1
          /\ Len(sub[s].pending) \in Nat
      BY <1>3, <1>4, HeadTailProperties, LenProperties
    <2>2. Tail(sub[s].pending) = <<>> => Len(Tail(sub[s].pending)) = 0
      BY EmptySeq
    <2>3. QED
      BY <2>1, <2>2
  <1>7. child.locator \in Locator /\ child.version \in 0 .. MaxVersion
    BY <1>5 DEF Prepared
  <1>8. row \in Row
    BY <1>4, <1>7, NewRowType DEF ChildRow
  <1>9. row.state = "queued" /\ row.key # None /\ row.parent = sub[s].parent
    BY <1>7, StoreAssumption DEF ChildRow, NewRow
  <1>10. /\ NewRunId \in RunId /\ runs' = [runs EXCEPT ![NewRunId] = row]
         /\ runs' \in [RunId -> Row] /\ RowsKept
         /\ \A r \in RunId : RowWellFormed(r)'
    BY <1>1, <1>3, <1>8, <1>9, InsertRow
  <1>11. /\ state \in SubmissionState /\ state.pc = pc
         /\ state.target = sub[s].target /\ state.parent = sub[s].parent
         /\ state.pending = Tail(sub[s].pending)
    BY <1>3, <1>5 DEF SubmissionState
  <1>12. runs'[sub[s].parent].key \in CardSet
    BY <1>3, <1>4, <1>10, StoreAssumption DEF RowsKept, Shape, WellFormed, RowWellFormed
  <1>13. FitsSubmission(state, runs')
    BY <1>3, <1>6, <1>11, <1>12 DEF FitsSubmission
  <1>14. QED
    BY <1>1, <1>2, <1>10, <1>11, <1>13, SubmissionWrites

LEMMA ResaveParentShape ==
  ASSUME Shape, NEW s \in Submitter, ResaveParent(s), UNCHANGED wrk
  PROVE  Shape'
  <1> DEFINE id == sub[s].parent
             row == [runs[id] EXCEPT !.state = "queued", !.attempt = 0, !.version = 0,
                                     !.failure = None, !.expired = FALSE]
  <1>1. /\ sub[s].pc = "resaving" /\ SaveRun(id, ParentRow(s))
        /\ Leave(s) /\ UNCHANGED clock /\ UNCHANGED ledger
    BY DEF ResaveParent, SaveRun
  <1>2. sub[s] \in SubmissionState /\ id # None /\ runs[id].key \in CardSet
    BY <1>1, SubmissionFacts DEF FitsSubmission
  <1>3. id \in RunId
    BY <1>2 DEF SubmissionState
  <1>4. runs[id] \in Row /\ runs[id].state # "absent"
    BY <1>2, <1>3, StoreAssumption
    DEF Shape, TypeOK, StoreTypeOK, WellFormed, RowWellFormed
  <1>5. runs' = [runs EXCEPT ![id] = row]
    BY <1>1, <1>4 DEF SaveRun, ParentRow, NewRow
  <1>6. 0 \in 0 .. LastAttempt /\ 0 \in 0 .. MaxVersion
    BY StoreAssumption DEF LastAttempt
  <1>7. row \in Row
    BY <1>4, <1>6 DEF Row, RunState, Active
  <1>8. row.key = runs[id].key /\ row.parent = runs[id].parent /\ row.state = "queued"
    BY <1>4 DEF Row
  <1>9. /\ runs' \in [RunId -> Row] /\ RowsKept
        /\ \A r \in RunId : RowWellFormed(r)'
    BY <1>3, <1>4, <1>5, <1>7, <1>8, RewriteRow
  <1>10. FitsSubmission(IdleSubmission, runs')
    BY IdleSubmissionType DEF FitsSubmission
  <1>11. QED
    BY <1>1, <1>9, <1>10, IdleSubmissionType, SubmissionWrites DEF Leave

LEMMA SubmitShape ==
  ASSUME Shape, Submit
  PROVE  Shape'
  <1>1. PICK s \in Submitter : Begin(s) \/ SubmitterStep(s) \/ Abandon(s)
    BY DEF Submit
  <1>2. UNCHANGED wrk
    BY DEF Submit
  <1>3. CASE Begin(s)
    BY <1>2, <1>3, BeginTemplateShape, BeginCardSetShape DEF Begin
  <1>4. CASE JoinRun(s) \/ ReuseCardSet(s) \/ Abandon(s)
    BY <1>2, <1>4, SubmissionLeaves DEF JoinRun, ReuseCardSet, Abandon
  <1>5. CASE MissRun(s) \/ StampParent(s) \/ StampChild(s)
    BY <1>2, <1>5, StampShape
  <1>6. CASE SaveTemplateRun(s)
    BY <1>2, <1>6, SaveTemplateRunShape
  <1>7. CASE MissCardSet(s)
    BY <1>2, <1>7, MissCardSetShape
  <1>8. CASE PrepareChild(s)
    BY <1>2, <1>8, PrepareChildShape
  <1>9. CASE SaveParent(s)
    BY <1>2, <1>9, SaveParentShape
  <1>10. CASE SaveChild(s)
    BY <1>2, <1>10, SaveChildShape
  <1>11. CASE ResaveParent(s)
    BY <1>2, <1>11, ResaveParentShape
  <1>12. QED
    BY <1>1, <1>3, <1>4, <1>5, <1>6, <1>7, <1>8, <1>9, <1>10, <1>11 DEF SubmitterStep

LEMMA WorkShape ==
  ASSUME Shape, Work
  PROVE  Shape'
  <1>1. UNCHANGED sub
    BY DEF Work
  <1>2. ASSUME NEW w \in Worker, Claim(w) \/ WorkerStep(w) \/ Heartbeat(w)
        PROVE  Shape'
    <2>1. CASE Claim(w)
      BY <1>1, <2>1, ClaimShape
    <2>2. CASE Load(w)
      BY <1>1, <2>2, LoadShape
    <2>3. CASE ExecutionFails(w) \/ PublishRejected(w)
      BY <1>1, <2>3, FailureShape
    <2>4. CASE Publish(w) \/ PublishUnacknowledged(w)
      BY <1>1, <2>4, PublishShape
    <2>5. CASE RetryRun(w)
      BY <1>1, <2>5, RetryShape
    <2>6. CASE FailRun(w)
      BY <1>1, <2>6, FailShape
    <2>7. CASE CountChildren(w)
      BY <1>1, <2>7, CountShape
    <2>8. CASE SettleParent(w)
      BY <1>1, <2>8, SettleShape
    <2>9. CASE Heartbeat(w)
      BY <1>1, <2>9, HeartbeatShape
    <2>10. QED
      BY <1>2, <2>1, <2>2, <2>3, <2>4, <2>5, <2>6, <2>7, <2>8, <2>9 DEF WorkerStep
  <1>3. ASSUME NEW p \in Process, Crash(p) PROVE Shape'
    BY <1>1, <1>3, CrashShape
  <1>4. CASE Recover
    BY <1>1, <1>4, RecoverShape
  <1>5. QED
    BY <1>2, <1>3, <1>4 DEF Work

LEMMA StutterShape ==
  ASSUME Shape, UNCHANGED vars
  PROVE  Shape'
  <1>1. StoreTypeOK' /\ WorkerTypeOK' /\ SubmissionTypeOK'
    BY DEF vars, Shape, TypeOK, StoreTypeOK, WorkerTypeOK, SubmissionTypeOK
  <1>2. QED
    BY <1>1, RowsUnchanged, ShapeStep DEF vars

(* Shape is an inductive invariant. *)
LEMMA NextShape == Shape /\ [Next]_vars => Shape'
  BY SubmitShape, WorkShape, TimeShape, StutterShape DEF Next

-----------------------------------------------------------------------------

(* Rows, workers and submissions keep their types and fit each other, for   *)
(* any number of runs, locators, processes, workers and submitters, and     *)
(* under every fault: a zombie's Requeue never passes the last attempt.     *)
THEOREM TypeCorrect == Spec => [](TypeOK /\ WellFormed)
  <1>1. Shape => TypeOK /\ WellFormed
    BY DEF Shape
  <1>2. QED
    BY <1>1, InitShape, NextShape, PTL DEF Spec

(* Rows, workers and submissions fit each other: no worker leases the row of *)
(* a card set, no child precedes its parent, no refresh lacks one.           *)
THEOREM PartsFit == Spec => []WellFormed
  BY TypeCorrect, PTL

=============================================================================
