---------------------------- MODULE HistoryProofs ----------------------------
(***************************************************************************)
(* The result history is numbered without gap or duplicate, and the store  *)
(* implements the abstract history, whatever faults workers, leases and    *)
(* commits have.  The inductive invariant adds BasesNotAhead to what is    *)
(* wanted: only because no base version lies ahead of the current one does *)
(* the unique key force every published version to be the next one.        *)
(***************************************************************************)
EXTENDS GenerationServiceProofs

HistoryInv == Shape /\ ResultsNumbered /\ BasesNotAhead /\ SucceededRunHasResult

LEMMA VersionType ==
  ASSUME Shape, NEW l \in Locator
  PROVE  CurrentVersion(l) \in 0 .. MaxVersion
  <1>1. pointers[l] \in ResultRow \cup {None}
    BY DEF Shape, TypeOK, StoreTypeOK
  <1>2. QED
    BY <1>1, StoreAssumption DEF CurrentVersion, ResultRow

LEMMA InitHistory == Init => HistoryInv
  <1> SUFFICES ASSUME Init PROVE HistoryInv
    OBVIOUS
  <1>1. Shape
    BY InitShape
  <1>2. \A l \in Locator : CurrentVersion(l) = 0
    BY DEF Init, StoreInit, CurrentVersion
  <1>3. results = {} /\ \A l \in Locator : pointers[l] = None
    BY DEF Init, StoreInit
  <1>4. ResultsNumbered
    BY <1>2, <1>3 DEF ResultsNumbered
  <1>5. \A id \in RunId : ~ IsTemplateRun(id)
    BY StoreAssumption DEF Init, StoreInit, IsTemplateRun, AbsentRow, NewRow
  <1>6. \A w \in Worker : WorkerBase(w)
    BY DEF Init, WorkerInit, WorkerBase, IdleWorker
  <1>7. \A s \in Submitter : SubmissionBase(s)
    BY StoreAssumption DEF Init, SubmissionInit, SubmissionBase, IdleSubmission
  <1>8. QED
    BY <1>1, <1>4, <1>5, <1>6, <1>7 DEF HistoryInv, BasesNotAhead, RowBase,
       SucceededRunHasResult

-----------------------------------------------------------------------------
(* Publishing *)

(* The unique key leaves a run only one version to publish: the next one.   *)
LEMMA NextVersionIsNext ==
  ASSUME HistoryInv, NEW w \in Worker, wrk[w].pc # "idle",
         Unpublished(runs[wrk[w].run].key, NextVersion(w))
  PROVE  NextVersion(w) = CurrentVersion(runs[wrk[w].run].key) + 1
  <1> DEFINE l == runs[wrk[w].run].key
  <1>1. wrk[w] \in WorkerState /\ l \in Locator
    BY BusyWorkerFacts DEF HistoryInv
  <1>2. CurrentVersion(l) \in Nat /\ wrk[w].version \in Nat
    BY <1>1, VersionType, StoreAssumption DEF HistoryInv, WorkerState
  <1>3. wrk[w].version <= CurrentVersion(l)
    BY DEF HistoryInv, BasesNotAhead, WorkerBase
  <1>4. NextVersion(w) \notin 1 .. CurrentVersion(l)
    BY <1>1 DEF HistoryInv, ResultsNumbered, Unpublished
  <1>5. QED
    BY <1>2, <1>3, <1>4 DEF NextVersion

(* What a publication does to the store: worker w publishes result, the next *)
(* version of locator l, for run id.                                         *)
Appends(w, id, l, next, result) ==
  /\ id = wrk[w].run /\ l = runs[id].key
  /\ next = CurrentVersion(l) + 1
  /\ result = [locator |-> l, version |-> next, run |-> id]
  /\ results' = results \cup {result}
  /\ pointers' = [pointers EXCEPT ![l] = result]
  /\ CurrentVersion(l)' = next
  /\ \A k \in Locator : k # l => CurrentVersion(k)' = CurrentVersion(k)
  /\ runs' = [runs EXCEPT ![id].state = "succeeded", ![id].version = next,
                          ![id].owner = None, ![id].expired = FALSE]

LEMMA PublicationAppends ==
  ASSUME HistoryInv, NEW w \in Worker, wrk[w].pc # "idle", wrk[w].version < MaxVersion,
         SaveResult(wrk[w].run, NextVersion(w))
  PROVE  \E id \in RunId, l \in Locator, next \in 1 .. MaxVersion, result \in ResultRow :
           Appends(w, id, l, next, result)
  <1>1. PICK id \in RunId, l \in Locator : id = wrk[w].run /\ l = runs[id].key
    BY BusyWorkerFacts DEF HistoryInv
  <1>2. PICK next \in 1 .. MaxVersion : next = NextVersion(w)
    <2>1. wrk[w].version \in 0 .. MaxVersion
      BY BusyWorkerFacts DEF HistoryInv, WorkerState
    <2>2. NextVersion(w) \in 1 .. MaxVersion
      BY <2>1, StoreAssumption DEF NextVersion
    <2>3. QED
      BY <2>2
  <1>3. next = CurrentVersion(l) + 1
    BY <1>1, <1>2, NextVersionIsNext DEF SaveResult
  <1>4. PICK result \in ResultRow : result = [locator |-> l, version |-> next, run |-> id]
    BY DEF ResultRow
  <1>5. /\ results' = results \cup {result}
        /\ pointers' = [pointers EXCEPT ![l] = result]
        /\ runs' = [runs EXCEPT ![id].state = "succeeded", ![id].version = next,
                                ![id].owner = None, ![id].expired = FALSE]
    BY <1>1, <1>2, <1>4 DEF SaveResult, MovePointer, CompleteRun
  <1>6. pointers \in [Locator -> ResultRow \cup {None}]
    BY DEF HistoryInv, Shape, TypeOK, StoreTypeOK
  <1>7. pointers'[l] = result /\ \A k \in Locator : k # l => pointers'[k] = pointers[k]
    BY <1>5, <1>6
  <1>8. result # None /\ result.version = next
    BY <1>4, NullAssumption
  <1>9. CurrentVersion(l)' = next
    BY <1>7, <1>8 DEF CurrentVersion
  <1>10. \A k \in Locator : k # l => CurrentVersion(k)' = CurrentVersion(k)
    BY <1>7 DEF CurrentVersion
  <1>11. QED
    BY <1>1, <1>3, <1>4, <1>5, <1>9, <1>10 DEF Appends

(* A publication keeps the results numbered. *)
LEMMA PublicationNumbered ==
  ASSUME HistoryInv, NEW l \in Locator, NEW id \in RunId, NEW result,
         result = [locator |-> l, version |-> CurrentVersion(l) + 1, run |-> id],
         results' = results \cup {result},
         pointers' = [pointers EXCEPT ![l] = result],
         CurrentVersion(l)' = CurrentVersion(l) + 1,
         \A k \in Locator : k # l => CurrentVersion(k)' = CurrentVersion(k)
  PROVE  ResultsNumbered'
  <1> DEFINE versions(k) == {x.version : x \in {y \in results : y.locator = k}}
  <1>1. /\ \A k \in Locator : versions(k) = 1 .. CurrentVersion(k)
        /\ \A x, y \in results : x.locator = y.locator /\ x.version = y.version => x = y
        /\ \A k \in Locator : pointers[k] # None =>
             pointers[k].locator = k /\ pointers[k] \in results
    BY DEF HistoryInv, ResultsNumbered
  <1>2. CurrentVersion(l) \in Nat
    BY VersionType, StoreAssumption DEF HistoryInv
  <1>3. ASSUME NEW k \in Locator PROVE versions(k)' = 1 .. CurrentVersion(k)'
    <2>1. CASE k = l
      <3>1. versions(l)' = versions(l) \cup {CurrentVersion(l) + 1}
        OBVIOUS
      <3>2. versions(l)' = 1 .. (CurrentVersion(l) + 1)
        BY <1>1, <1>2, <3>1
      <3>3. QED
        BY <2>1, <3>2
    <2>2. CASE k # l
      <3>1. versions(k)' = versions(k)
        BY <2>2
      <3>2. QED
        BY <1>1, <2>2, <3>1
    <2>3. QED
      BY <2>1, <2>2
  <1>4. \A x \in results : ~ (x.locator = l /\ x.version = CurrentVersion(l) + 1)
    BY <1>1, <1>2
  <1>5. \A x, y \in results' : x.locator = y.locator /\ x.version = y.version => x = y
    BY <1>1, <1>4
  <1>6. ASSUME NEW k \in Locator, pointers'[k] # None
        PROVE  pointers'[k].locator = k /\ pointers'[k] \in results'
    BY <1>1, <1>6 DEF HistoryInv, Shape, TypeOK, StoreTypeOK
  <1>7. QED
    BY <1>3, <1>5, <1>6 DEF ResultsNumbered

-----------------------------------------------------------------------------
(* What a step may do to rows, workers and submissions *)

RowStep(id) ==
  \/ /\ runs'[id].key = runs[id].key
     /\ runs'[id].version = runs[id].version
     /\ runs'[id].state = "succeeded" => runs[id].state = "succeeded"
  \/ runs'[id].key \notin Locator
  \/ /\ RowBase(id)'
     /\ runs'[id].state = "succeeded" =>
          [locator |-> runs'[id].key, version |-> runs'[id].version, run |-> id] \in results'

WorkerMove(w) ==
  \/ /\ wrk[w].pc # "idle"
     /\ wrk'[w].run = wrk[w].run
     /\ wrk'[w].version = wrk[w].version
  \/ WorkerBase(w)'

SubmissionMove(s) ==
  \/ /\ sub'[s].target = sub[s].target
     /\ sub'[s].version = sub[s].version
     /\ sub'[s].pending = sub[s].pending
  \/ SubmissionBase(s)'

LEMMA HistoryStep ==
  ASSUME HistoryInv, Shape', RowsKept, ResultsNumbered', results \subseteq results',
         \A l \in Locator : CurrentVersion(l)' \in Nat /\ CurrentVersion(l) <= CurrentVersion(l)',
         \A id \in RunId : RowStep(id),
         \A w \in Worker : wrk'[w] = wrk[w] \/ WorkerMove(w),
         \A s \in Submitter : SubmissionMove(s)
  PROVE  HistoryInv'
  <1>1. \A l \in Locator : CurrentVersion(l) \in Nat
    BY VersionType, StoreAssumption DEF HistoryInv
  <1>2. ASSUME NEW id \in RunId PROVE RowBase(id)'
    <2>1. RowBase(id) /\ RowStep(id) /\ runs[id] \in Row /\ runs'[id] \in Row
      BY DEF HistoryInv, BasesNotAhead, Shape, TypeOK, StoreTypeOK
    <2>2. CASE runs'[id].key \in Locator /\ ~ RowBase(id)'
      <3>1. runs'[id].key = runs[id].key /\ runs'[id].version = runs[id].version
        BY <2>1, <2>2 DEF RowStep
      <3>2. runs[id].version <= CurrentVersion(runs[id].key) /\ runs[id].version \in Nat
        BY <2>1, <2>2, <3>1, StoreAssumption DEF RowBase, IsTemplateRun, Row
      <3>3. \A l \in Locator : l = runs'[id].key => runs'[id].version <= CurrentVersion(l)'
        BY <1>1, <3>1, <3>2
      <3>4. QED
        BY <2>2, <3>3 DEF RowBase, IsTemplateRun, CurrentVersion
    <2>3. QED
      BY <2>2 DEF RowBase, IsTemplateRun
  <1>3. ASSUME NEW w \in Worker PROVE WorkerBase(w)'
    <2>1. CASE WorkerBase(w)'
      BY <2>1
    <2>2. CASE ~ WorkerBase(w)' /\ wrk[w].pc = "idle"
      BY <2>2 DEF WorkerMove, WorkerBase
    <2>3. CASE ~ WorkerBase(w)' /\ wrk[w].pc # "idle"
      <3>1. wrk'[w].run = wrk[w].run /\ wrk'[w].version = wrk[w].version
        BY <2>3 DEF WorkerMove
      <3>2. /\ wrk[w] \in WorkerState /\ wrk[w].run \in RunId
            /\ runs[wrk[w].run].key \in Locator /\ runs[wrk[w].run].state # "absent"
        BY <2>3, BusyWorkerFacts DEF HistoryInv
      <3>3. runs'[wrk'[w].run].key = runs[wrk[w].run].key
        BY <3>1, <3>2 DEF RowsKept
      <3>4. wrk[w].version <= CurrentVersion(runs[wrk[w].run].key) /\ wrk[w].version \in Nat
        BY <2>3, <3>2, StoreAssumption DEF HistoryInv, BasesNotAhead, WorkerBase, WorkerState
      <3>5. \A l \in Locator : l = runs'[wrk'[w].run].key => wrk'[w].version <= CurrentVersion(l)'
        BY <1>1, <3>1, <3>2, <3>3, <3>4
      <3>6. QED
        BY <3>2, <3>3, <3>5 DEF WorkerBase, CurrentVersion
    <2>4. QED
      BY <2>1, <2>2, <2>3
  <1>4. ASSUME NEW s \in Submitter PROVE SubmissionBase(s)'
    <2>1. SubmissionBase(s) /\ sub[s] \in SubmissionState
      BY DEF HistoryInv, BasesNotAhead, Shape, TypeOK, SubmissionTypeOK
    <2>2. CASE ~ SubmissionBase(s)'
      <3>1. /\ sub'[s].target = sub[s].target /\ sub'[s].version = sub[s].version
            /\ sub'[s].pending = sub[s].pending
        BY <2>2 DEF SubmissionMove
      <3>2. sub[s].version \in Nat /\ sub[s].pending \in Seq(Prepared)
        BY <2>1, StoreAssumption DEF SubmissionState
      <3>3. \A l \in Locator : l = sub'[s].target => sub'[s].version <= CurrentVersion(l)'
        BY <1>1, <2>1, <3>1, <3>2 DEF SubmissionBase
      <3>4. ASSUME NEW i \in DOMAIN sub'[s].pending
            PROVE  \E l \in Locator : /\ l = sub'[s].pending[i].locator
                                      /\ sub'[s].pending[i].version <= CurrentVersion(l)'
        <4>1. sub[s].pending[i] \in Prepared
          BY <3>1, <3>2
        <4>2. sub[s].pending[i].version \in Nat /\ sub[s].pending[i].locator \in Locator
          BY <4>1, StoreAssumption DEF Prepared
        <4>3. sub[s].pending[i].version <= CurrentVersion(sub[s].pending[i].locator)
          BY <2>1, <3>1 DEF SubmissionBase
        <4>4. QED
          BY <1>1, <3>1, <4>2, <4>3
      <3>5. QED
        BY <3>3, <3>4 DEF SubmissionBase, CurrentVersion
    <2>3. QED
      BY <2>2
  <1>5. SucceededRunHasResult'
    BY DEF HistoryInv, SucceededRunHasResult, RowStep, IsTemplateRun
  <1>6. QED
    BY <1>2, <1>3, <1>4, <1>5 DEF HistoryInv, BasesNotAhead

(* Steps that publish nothing. *)
LEMMA QuietStep ==
  ASSUME HistoryInv, Shape', RowsKept, UNCHANGED <<results, pointers>>,
         \A id \in RunId : RowStep(id),
         \A w \in Worker : wrk'[w] = wrk[w] \/ WorkerMove(w),
         \A s \in Submitter : SubmissionMove(s)
  PROVE  HistoryInv'
  <1>1. ResultsNumbered'
    BY DEF HistoryInv, ResultsNumbered, CurrentVersion
  <1>2. ASSUME NEW l \in Locator
        PROVE  CurrentVersion(l)' \in Nat /\ CurrentVersion(l) <= CurrentVersion(l)'
    <2>1. CurrentVersion(l) \in Nat
      BY VersionType, StoreAssumption DEF HistoryInv
    <2>2. CurrentVersion(l)' = CurrentVersion(l)
      BY DEF CurrentVersion
    <2>3. QED
      BY <2>1, <2>2
  <1>3. QED
    BY <1>1, <1>2, HistoryStep

-----------------------------------------------------------------------------
(* Workers and time *)

(* What they do to rows as long as nothing is published. *)
RowsRest ==
  \A id \in RunId :
    /\ runs'[id].key = runs[id].key
    /\ runs'[id].parent = runs[id].parent
    /\ runs'[id].version = runs[id].version
    /\ runs[id].state # "absent" => runs'[id].state # "absent"
    /\ runs'[id].state = "succeeded" => runs[id].state = "succeeded" \/ runs[id].key \in CardSet

LEMMA RestingRows ==
  ASSUME RowsRest
  PROVE  RowsKept /\ \A id \in RunId : RowStep(id)
  BY StoreAssumption DEF RowsRest, RowsKept, RowStep

LEMMA WorkersLeaveRows ==
  ASSUME HistoryInv, NEW w \in Worker,
         \/ Claim(w) \/ Load(w) \/ ExecutionFails(w) \/ PublishRejected(w)
         \/ RetryRun(w) \/ FailRun(w) \/ CountChildren(w) \/ Heartbeat(w)
  PROVE  RowsRest /\ UNCHANGED <<results, pointers>>
  <1>1. runs \in [RunId -> Row]
    BY DEF HistoryInv, Shape, TypeOK, StoreTypeOK
  <1>2. CASE Load(w) \/ ExecutionFails(w) \/ PublishRejected(w) \/ CountChildren(w)
    BY <1>1, <1>2
    DEF Load, ExecutionFails, PublishRejected, CountChildren, storeVars, RowsRest
  <1>3. CASE Claim(w)
    <2>1. PICK id \in RunId : ClaimRun(id, Owner(w))
      BY <1>3 DEF Claim
    <2> DEFINE row == [runs[id] EXCEPT !.state = "running", !.owner = Owner(w),
                                       !.expired = FALSE]
    <2>2. runs' = [runs EXCEPT ![id] = row] /\ UNCHANGED <<results, pointers>>
      BY <2>1 DEF ClaimRun, ledger
    <2>3. /\ row.key = runs[id].key /\ row.parent = runs[id].parent
          /\ row.version = runs[id].version /\ row.state = "running"
      BY <1>1 DEF Row
    <2>4. QED
      BY <1>1, <2>2, <2>3 DEF RowsRest
  <1>4. CASE RetryRun(w)
    <2> DEFINE id == wrk[w].run
               row == [runs[id] EXCEPT !.state = "queued", !.attempt = wrk[w].attempt + 1,
                                       !.failure = wrk[w].failure, !.owner = None,
                                       !.expired = FALSE, !.available = FALSE]
    <2>1. runs' = [runs EXCEPT ![id] = row] /\ UNCHANGED <<results, pointers>>
      BY <1>4 DEF RetryRun, Requeue, ledger
    <2>2. /\ row.key = runs[id].key /\ row.parent = runs[id].parent
          /\ row.version = runs[id].version /\ row.state = "queued"
      BY <1>1, <1>4, BusyWorkerFacts DEF RetryRun, HistoryInv, Row
    <2>3. QED
      BY <1>1, <2>1, <2>2 DEF RowsRest
  <1>5. CASE FailRun(w)
    <2> DEFINE id == wrk[w].run
               row == [runs[id] EXCEPT !.state = "failed", !.failure = wrk[w].failure,
                                       !.owner = None, !.expired = FALSE]
    <2>1. runs' = [runs EXCEPT ![id] = row] /\ UNCHANGED <<results, pointers>>
      BY <1>5 DEF FailRun, Fail, ledger
    <2>2. /\ row.key = runs[id].key /\ row.parent = runs[id].parent
          /\ row.version = runs[id].version /\ row.state = "failed"
      BY <1>1, <1>5, BusyWorkerFacts DEF FailRun, HistoryInv, Row
    <2>3. QED
      BY <1>1, <2>1, <2>2 DEF RowsRest
  <1>6. CASE Heartbeat(w)
    BY <1>1, <1>6 DEF Heartbeat, RenewLease, ledger, RowsRest, Row
  <1>7. QED
    BY <1>2, <1>3, <1>4, <1>5, <1>6

LEMMA SettlingLeavesRows ==
  ASSUME HistoryInv, NEW w \in Worker, SettleParent(w)
  PROVE  RowsRest /\ UNCHANGED <<results, pointers>>
  <1> DEFINE parent == runs[wrk[w].run].parent
  <1>1. wrk[w].pc = "settling" /\ UpdateParent(parent, wrk[w].status)
    BY DEF SettleParent
  <1>2. /\ runs \in [RunId -> Row] /\ wrk[w].run \in RunId
        /\ parent # None /\ wrk[w].status \in ParentOutcome
    BY <1>1, BusyWorkerFacts DEF HistoryInv, Shape, WellFormed, WorkerWellFormed
  <1>3. runs[parent].key \in CardSet
    BY <1>2 DEF HistoryInv, Shape, WellFormed, RowWellFormed
  <1>4. wrk[w].status # "absent"
    BY <1>2 DEF ParentOutcome, Settled
  <1>5. QED
    BY <1>1, <1>2, <1>3, <1>4 DEF UpdateParent, ledger, RowsRest, Row

LEMMA OthersLeaveRows ==
  ASSUME HistoryInv,
         \/ \E p \in Process : Crash(p)
         \/ Recover
         \/ TimePasses
  PROVE  RowsRest /\ UNCHANGED <<results, pointers>>
  <1>1. runs \in [RunId -> Row]
    BY DEF HistoryInv, Shape, TypeOK, StoreTypeOK
  <1>2. CASE \E p \in Process : Crash(p)
    BY <1>1, <1>2 DEF Crash, storeVars, RowsRest
  <1>3. CASE Recover
    BY <1>1, <1>3 DEF Recover, RecoverExpiredLeases, ledger, RowsRest, Row
  <1>4. CASE \E id \in RunId : RetryDue(id) \/ LeaseExpires(id)
    BY <1>1, <1>4 DEF RetryDue, LeaseExpires, ledger, RowsRest, Row
  <1>5. CASE \E l \in Locator : ResultAges(l)
    BY <1>1, <1>5 DEF ResultAges, RowsRest
  <1>6. QED
    BY <1>2, <1>3, <1>4, <1>5 DEF TimePasses

(* Where the step of one worker takes it, and where all the others stay. *)
LEMMA QuietWorkers ==
  ASSUME HistoryInv, NEW w \in Worker,
         \/ Claim(w) \/ Load(w) \/ ExecutionFails(w) \/ PublishRejected(w)
         \/ RetryRun(w) \/ FailRun(w) \/ CountChildren(w) \/ SettleParent(w)
         \/ Heartbeat(w)
  PROVE  \A v \in Worker : wrk'[v] = wrk[v] \/ WorkerMove(v)
  <1>1. wrk \in [Worker -> WorkerState]
    BY DEF HistoryInv, Shape, TypeOK, WorkerTypeOK
  <1>2. \A v \in Worker : v # w => wrk'[v] = wrk[v]
    BY <1>1 DEF Claim, Load, ExecutionFails, PublishRejected, RetryRun, FailRun,
       CountChildren, SettleParent, Heartbeat, AfterSettling
  <1>3. CASE Claim(w)
    <2>1. PICK id \in RunId :
            /\ ClaimRun(id, Owner(w))
            /\ wrk' = [wrk EXCEPT ![w] = [IdleWorker EXCEPT !.pc = "loading", !.run = id]]
      BY <1>3 DEF Claim
    <2>2. wrk'[w].version = 0 /\ wrk'[w].run = id
      BY <1>1, <2>1 DEF IdleWorker
    <2>3. runs[id] \in Row /\ runs'[id].key = runs[id].key /\ runs[id].key \in Locator
          /\ UNCHANGED <<results, pointers>>
      BY <2>1 DEF ClaimRun, NextClaims, IsTemplateRun, ledger, HistoryInv, Shape, TypeOK,
         StoreTypeOK, Row
    <2>4. CurrentVersion(runs[id].key) \in Nat
      BY <2>3, VersionType, StoreAssumption DEF HistoryInv
    <2>5. 0 <= CurrentVersion(runs[id].key)
      BY <2>4
    <2>6. WorkerBase(w)'
      BY <2>2, <2>3, <2>5 DEF WorkerBase, CurrentVersion
    <2>7. QED
      BY <1>2, <2>6 DEF WorkerMove
  <1>4. CASE Load(w)
    <2>1. /\ wrk'[w].run = wrk[w].run /\ wrk'[w].version = runs[wrk[w].run].version
          /\ UNCHANGED storeVars
      BY <1>1, <1>4 DEF Load, WorkerState
    <2>2. wrk[w].run \in RunId /\ runs[wrk[w].run].key \in Locator
      BY <1>4, BusyWorkerFacts DEF Load, HistoryInv
    <2>3. runs[wrk[w].run].version <= CurrentVersion(runs[wrk[w].run].key)
      BY <2>2 DEF HistoryInv, BasesNotAhead, RowBase, IsTemplateRun
    <2>4. WorkerBase(w)'
      BY <2>1, <2>3 DEF WorkerBase, CurrentVersion, storeVars
    <2>5. QED
      BY <1>2, <2>4 DEF WorkerMove
  <1>5. CASE ExecutionFails(w) \/ PublishRejected(w)
    BY <1>1, <1>2, <1>5 DEF ExecutionFails, PublishRejected, WorkerMove, WorkerState
  <1>6. CASE RetryRun(w) \/ SettleParent(w)
    BY <1>1, <1>2, <1>6 DEF RetryRun, SettleParent, WorkerMove, WorkerBase, IdleWorker
  <1>7. CASE FailRun(w) \/ CountChildren(w)
    <2>1. \/ wrk'[w] = IdleWorker
          \/ wrk[w].pc # "idle" /\ wrk'[w].run = wrk[w].run /\ wrk'[w].version = wrk[w].version
      BY <1>1, <1>7 DEF FailRun, CountChildren, AfterSettling, WorkerState
    <2>2. QED
      BY <1>2, <2>1 DEF WorkerMove, WorkerBase, IdleWorker
  <1>8. CASE Heartbeat(w)
    BY <1>8 DEF Heartbeat
  <1>9. QED
    BY <1>3, <1>4, <1>5, <1>6, <1>7, <1>8

LEMMA SubmissionsRest ==
  ASSUME UNCHANGED sub
  PROVE  \A s \in Submitter : SubmissionMove(s)
  BY DEF SubmissionMove

-----------------------------------------------------------------------------
(* Submissions *)

(* What a submission's next local state must satisfy to keep SubmissionBase. *)
BasedSubmission(state) ==
  /\ state.target \in Locator => state.version <= CurrentVersion(state.target)
  /\ \A i \in DOMAIN state.pending :
       state.pending[i].version <= CurrentVersion(state.pending[i].locator)

LEMMA SubmissionBased ==
  ASSUME HistoryInv, NEW s \in Submitter, NEW state, BasedSubmission(state),
         sub' = [sub EXCEPT ![s] = state], UNCHANGED <<results, pointers>>
  PROVE  \A u \in Submitter : SubmissionMove(u)
  <1>1. sub \in [Submitter -> SubmissionState]
    BY DEF HistoryInv, Shape, TypeOK, SubmissionTypeOK
  <1>2. SubmissionBase(s)'
    BY <1>1 DEF BasedSubmission, SubmissionBase, CurrentVersion
  <1>3. ASSUME NEW u \in Submitter, u # s PROVE SubmissionMove(u)
    BY <1>1, <1>3 DEF SubmissionMove
  <1>4. QED
    BY <1>2, <1>3 DEF SubmissionMove

LEMMA BasedFacts ==
  ASSUME HistoryInv, NEW s \in Submitter
  PROVE  BasedSubmission(sub[s]) /\ sub[s] \in SubmissionState
  BY DEF HistoryInv, BasesNotAhead, SubmissionBase, BasedSubmission, Shape, TypeOK,
     SubmissionTypeOK

LEMMA IdleBased == BasedSubmission(IdleSubmission)
  BY StoreAssumption DEF BasedSubmission, IdleSubmission

(* Steps that write no row. *)
LEMMA QuietSubmission ==
  ASSUME HistoryInv, Shape', NEW s \in Submitter, UNCHANGED wrk,
         NEW state, BasedSubmission(state), sub' = [sub EXCEPT ![s] = state],
         UNCHANGED <<runs, ledger>>
  PROVE  HistoryInv'
  <1>1. RowsRest /\ UNCHANGED <<results, pointers>>
    BY DEF RowsRest, ledger
  <1>2. \A u \in Submitter : SubmissionMove(u)
    BY <1>1, SubmissionBased
  <1>3. QED
    BY <1>1, <1>2, RestingRows, QuietStep

LEMMA LeaveHistory ==
  ASSUME HistoryInv, Shape', NEW s \in Submitter, UNCHANGED wrk,
         Leave(s), UNCHANGED storeVars
  PROVE  HistoryInv'
  BY IdleBased, QuietSubmission DEF Leave, storeVars, ledger

LEMMA BeginHistory ==
  ASSUME HistoryInv, Shape', NEW s \in Submitter, UNCHANGED wrk, Begin(s)
  PROVE  HistoryInv'
  <1>1. ASSUME NEW mode \in Modes, NEW l \in Locator, BeginTemplate(s, l, mode)
        PROVE  HistoryInv'
    <2> DEFINE state == [IdleSubmission EXCEPT !.pc = "finding", !.target = l,
                           !.mode = mode, !.version = CurrentVersion(l)]
    <2>1. sub' = [sub EXCEPT ![s] = state] /\ UNCHANGED <<runs, ledger>>
      BY <1>1 DEF BeginTemplate, storeVars, ledger
    <2>2. CurrentVersion(l) <= CurrentVersion(l)
      BY VersionType, StoreAssumption DEF HistoryInv
    <2>3. state.target = l /\ state.version = CurrentVersion(l) /\ state.pending = <<>>
      BY DEF IdleSubmission
    <2>4. BasedSubmission(state)
      BY <2>2, <2>3 DEF BasedSubmission
    <2>5. QED
      BY <2>1, <2>4, QuietSubmission
  <1>2. ASSUME NEW mode \in Modes, NEW c \in CardSet, BeginCardSet(s, c, mode)
        PROVE  HistoryInv'
    <2> DEFINE state == [IdleSubmission EXCEPT !.pc = "finding", !.target = c, !.mode = mode]
    <2>1. sub' = [sub EXCEPT ![s] = state] /\ UNCHANGED <<runs, ledger>>
      BY <1>2 DEF BeginCardSet, storeVars, ledger
    <2>2. state.target = c /\ state.pending = <<>>
      BY DEF IdleSubmission
    <2>3. BasedSubmission(state)
      BY <2>2, StoreAssumption DEF BasedSubmission
    <2>4. QED
      BY <2>1, <2>3, QuietSubmission
  <1>3. QED
    BY <1>1, <1>2 DEF Begin

(* Steps that keep the target, the version and the children still to save. *)
LEMMA StampHistory ==
  ASSUME HistoryInv, Shape', NEW s \in Submitter, UNCHANGED wrk,
         MissRun(s) \/ StampParent(s) \/ StampChild(s) \/ MissCardSet(s)
  PROVE  HistoryInv'
  <1>1. sub \in [Submitter -> SubmissionState]
    BY DEF HistoryInv, Shape, TypeOK, SubmissionTypeOK
  <1>2. \A u \in Submitter : SubmissionMove(u)
    <2>1. CASE MissRun(s)
      BY <1>1, <2>1 DEF MissRun, SubmissionMove, SubmissionState
    <2>2. CASE StampParent(s)
      BY <1>1, <2>2 DEF StampParent, SubmissionMove, SubmissionState
    <2>3. CASE StampChild(s)
      BY <1>1, <2>3 DEF StampChild, SubmissionMove, SubmissionState
    <2>4. CASE MissCardSet(s)
      BY <1>1, <2>4 DEF MissCardSet, SubmissionMove, SubmissionState
    <2>5. QED
      BY <2>1, <2>2, <2>3, <2>4
  <1>3. UNCHANGED <<runs, ledger>>
    BY DEF MissRun, StampParent, StampChild, MissCardSet, storeVars, ledger
  <1>4. RowsRest /\ UNCHANGED <<results, pointers>>
    BY <1>3 DEF RowsRest, ledger
  <1>5. QED
    BY <1>2, <1>4, RestingRows, QuietStep

LEMMA PrepareHistory ==
  ASSUME HistoryInv, Shape', NEW s \in Submitter, UNCHANGED wrk, PrepareChild(s)
  PROVE  HistoryInv'
  <1> DEFINE l == Head(sub[s].todo)
             prepared == [locator |-> l, version |-> CurrentVersion(l)]
             pending == IF Reusable(l, sub[s].mode)
                          THEN sub[s].pending ELSE Append(sub[s].pending, prepared)
             state == [sub[s] EXCEPT !.todo = Tail(sub[s].todo), !.pending = pending]
  <1>1. /\ sub' = [sub EXCEPT ![s] = state] /\ UNCHANGED <<runs, ledger>>
        /\ sub[s].todo # <<>>
    BY DEF PrepareChild, HistoryInv, Shape, TypeOK, SubmissionTypeOK, storeVars, ledger
  <1>2. BasedSubmission(sub[s]) /\ sub[s] \in SubmissionState
    BY BasedFacts
  <1>3. sub[s].pending \in Seq(Prepared) /\ l \in Locator
    BY <1>1, <1>2 DEF SubmissionState
  <1>4. CurrentVersion(l) \in Nat
    BY <1>3, VersionType, StoreAssumption DEF HistoryInv
  <1>5. ASSUME NEW i \in DOMAIN pending
        PROVE  pending[i].version <= CurrentVersion(pending[i].locator)
    <2>1. CASE pending = sub[s].pending
      BY <1>2, <1>5, <2>1 DEF BasedSubmission
    <2>2. CASE pending = Append(sub[s].pending, prepared)
      <3>1. \/ i \in DOMAIN sub[s].pending /\ pending[i] = sub[s].pending[i]
            \/ pending[i] = prepared
        BY <1>3, <1>5, <2>2
      <3>2. QED
        BY <1>2, <1>4, <3>1 DEF BasedSubmission
    <2>3. QED
      BY <2>1, <2>2
  <1>6. /\ state.target = sub[s].target /\ state.version = sub[s].version
        /\ state.pending = pending
    BY <1>2 DEF SubmissionState
  <1>7. BasedSubmission(state)
    BY <1>2, <1>5, <1>6 DEF BasedSubmission
  <1>8. QED
    BY <1>1, <1>7, QuietSubmission

(* An inserted row's base version is current or older. *)
LEMMA InsertedRow ==
  ASSUME HistoryInv, FreeIds # {}, NEW row \in Row, row.state = "queued",
         row.key \in Locator => row.version <= CurrentVersion(row.key),
         SaveRun(NewRunId, row)
  PROVE  /\ RowsKept
         /\ UNCHANGED <<results, pointers>>
         /\ \A id \in RunId : RowStep(id)
  <1>1. PICK new \in RunId : new = NewRunId /\ runs[new].state = "absent"
    BY DEF FreeIds, NewRunId
  <1>2. runs \in [RunId -> Row]
    BY DEF HistoryInv, Shape, TypeOK, StoreTypeOK
  <1>3. runs' = [runs EXCEPT ![new] = row] /\ UNCHANGED <<results, pointers>>
    BY <1>1, <1>2 DEF SaveRun, ledger
  <1>4. runs'[new] = row
    BY <1>2, <1>3
  <1>5. RowBase(new)'
    BY <1>3, <1>4 DEF RowBase, IsTemplateRun, CurrentVersion
  <1>6. ASSUME NEW id \in RunId PROVE RowStep(id)
    <2>1. CASE id = new
      BY <1>4, <1>5, <2>1 DEF RowStep
    <2>2. CASE id # new
      <3>1. runs'[id] = runs[id]
        BY <1>2, <1>3, <2>2
      <3>2. QED
        BY <3>1 DEF RowStep
    <2>3. QED
      BY <2>1, <2>2
  <1>7. RowsKept
    BY <1>1, <1>2, <1>3 DEF RowsKept
  <1>8. QED
    BY <1>3, <1>6, <1>7

LEMMA SaveTemplateHistory ==
  ASSUME HistoryInv, Shape', NEW s \in Submitter, UNCHANGED wrk, SaveTemplateRun(s)
  PROVE  HistoryInv'
  <1> DEFINE row == NewRow(sub[s].target, sub[s].mode, None, sub[s].version, sub[s].created)
  <1>1. /\ sub[s].pc = "saving" /\ FreeIds # {} /\ SaveRun(NewRunId, row)
        /\ sub' = [sub EXCEPT ![s] = IdleSubmission]
    BY DEF SaveTemplateRun, Leave
  <1>2. BasedSubmission(sub[s]) /\ sub[s] \in SubmissionState /\ sub[s].target \in Locator
    BY <1>1, BasedFacts, SubmissionFacts DEF FitsSubmission, HistoryInv
  <1>3. /\ sub[s].mode \in Mode /\ sub[s].version \in 0 .. MaxVersion
        /\ sub[s].created \in 0 .. MaxClock
    BY <1>2 DEF SubmissionState
  <1>4. row \in Row
    BY <1>2, <1>3, NewRowType
  <1>5. row.state = "queued" /\ row.key = sub[s].target /\ row.version = sub[s].version
    BY DEF NewRow
  <1>6. row.version <= CurrentVersion(row.key)
    BY <1>2, <1>5 DEF BasedSubmission
  <1>7. RowsKept /\ UNCHANGED <<results, pointers>> /\ \A id \in RunId : RowStep(id)
    BY <1>1, <1>4, <1>5, <1>6, InsertedRow
  <1>8. \A u \in Submitter : SubmissionMove(u)
    BY <1>1, <1>7, IdleBased, SubmissionBased
  <1>9. QED
    BY <1>7, <1>8, QuietStep

LEMMA SaveParentHistory ==
  ASSUME HistoryInv, Shape', NEW s \in Submitter, UNCHANGED wrk, SaveParent(s)
  PROVE  HistoryInv'
  <1>1. sub[s].pc = "savingParent" /\ FreeIds # {} /\ SaveRun(NewRunId, ParentRow(s))
    BY DEF SaveParent
  <1>2. BasedSubmission(sub[s]) /\ sub[s] \in SubmissionState /\ sub[s].target \in CardSet
    BY <1>1, BasedFacts, SubmissionFacts DEF FitsSubmission, HistoryInv
  <1>3. sub[s].mode \in Mode /\ sub[s].created \in 0 .. MaxClock /\ 0 \in 0 .. MaxVersion
    BY <1>2, StoreAssumption DEF SubmissionState
  <1>4. ParentRow(s) \in Row
    BY <1>2, <1>3, NewRowType, StoreAssumption DEF ParentRow
  <1>5. ParentRow(s).state = "queued" /\ ParentRow(s).key \notin Locator
    BY <1>2, StoreAssumption DEF ParentRow, NewRow
  <1>6. RowsKept /\ UNCHANGED <<results, pointers>> /\ \A id \in RunId : RowStep(id)
    BY <1>1, <1>4, <1>5, InsertedRow
  <1>7. \A u \in Submitter : SubmissionMove(u)
    BY <1>2 DEF SaveParent, SubmissionMove, SubmissionState, HistoryInv, Shape, TypeOK,
       SubmissionTypeOK
  <1>8. QED
    BY <1>6, <1>7, QuietStep

LEMMA SaveChildHistory ==
  ASSUME HistoryInv, Shape', NEW s \in Submitter, UNCHANGED wrk, SaveChild(s)
  PROVE  HistoryInv'
  <1> DEFINE child == Head(sub[s].pending)
             pc == IF Len(sub[s].pending) = 1 THEN "resaving" ELSE "preparingChild"
             state == [sub[s] EXCEPT !.pending = Tail(sub[s].pending), !.pc = pc]
  <1>1. sub[s].pc = "savingChild" /\ FreeIds # {} /\ SaveRun(NewRunId, ChildRow(s))
    BY DEF SaveChild
  <1>2. sub' = [sub EXCEPT ![s] = state]
    BY DEF SaveChild, HistoryInv, Shape, TypeOK, SubmissionTypeOK
  <1>3. /\ BasedSubmission(sub[s]) /\ sub[s] \in SubmissionState
        /\ sub[s].pending # <<>>
    BY <1>1, BasedFacts, SubmissionFacts DEF FitsSubmission, HistoryInv
  <1>4. /\ sub[s].mode \in Mode /\ sub[s].created \in 0 .. MaxClock
        /\ sub[s].parent \in RunId \cup {None} /\ sub[s].pending \in Seq(Prepared)
    BY <1>3 DEF SubmissionState
  <1>5. /\ Len(sub[s].pending) \in Nat \ {0}
        /\ child = sub[s].pending[1] /\ child \in Prepared
    BY <1>3, <1>4
  <1>6. /\ child.locator \in Locator /\ child.version \in 0 .. MaxVersion
        /\ child.version <= CurrentVersion(child.locator)
    BY <1>3, <1>4, <1>5 DEF Prepared, BasedSubmission
  <1>7. ChildRow(s) \in Row
    BY <1>4, <1>6, NewRowType DEF ChildRow
  <1>8. /\ ChildRow(s).state = "queued" /\ ChildRow(s).key = child.locator
        /\ ChildRow(s).version = child.version
    BY DEF ChildRow, NewRow
  <1>9. RowsKept /\ UNCHANGED <<results, pointers>> /\ \A id \in RunId : RowStep(id)
    BY <1>1, <1>6, <1>7, <1>8, InsertedRow
  <1>10. \A i \in DOMAIN Tail(sub[s].pending) :
           /\ i + 1 \in DOMAIN sub[s].pending
           /\ Tail(sub[s].pending)[i] = sub[s].pending[i + 1]
    BY <1>3, <1>4, <1>5, HeadTailProperties
  <1>11. /\ state.target = sub[s].target /\ state.version = sub[s].version
         /\ state.pending = Tail(sub[s].pending)
    BY <1>3 DEF SubmissionState
  <1>12. BasedSubmission(state)
    BY <1>3, <1>10, <1>11 DEF BasedSubmission
  <1>13. \A u \in Submitter : SubmissionMove(u)
    BY <1>2, <1>9, <1>12, SubmissionBased
  <1>14. QED
    BY <1>9, <1>13, QuietStep

(* The parent's row, which is no template run, is written again. *)
LEMMA ResaveHistory ==
  ASSUME HistoryInv, Shape', NEW s \in Submitter, UNCHANGED wrk, ResaveParent(s)
  PROVE  HistoryInv'
  <1> DEFINE id == sub[s].parent
  <1>1. /\ sub[s].pc = "resaving" /\ SaveRun(id, ParentRow(s))
        /\ sub' = [sub EXCEPT ![s] = IdleSubmission]
    BY DEF ResaveParent, Leave
  <1>2. id # None /\ runs[id].key \in CardSet /\ sub[s] \in SubmissionState
    BY <1>1, SubmissionFacts DEF FitsSubmission, HistoryInv
  <1>3. id \in RunId /\ runs \in [RunId -> Row]
    BY <1>2 DEF SubmissionState, HistoryInv, Shape, TypeOK, StoreTypeOK
  <1>4. runs[id].state # "absent"
    BY <1>2, <1>3, StoreAssumption DEF HistoryInv, Shape, WellFormed, RowWellFormed
  <1>5. /\ UNCHANGED <<results, pointers>>
        /\ \A r \in RunId : r # id => runs'[r] = runs[r]
        /\ runs'[id].key = runs[id].key /\ runs'[id].parent = runs[id].parent
        /\ runs'[id].state = "queued"
    BY <1>1, <1>3, <1>4 DEF SaveRun, ParentRow, NewRow, ledger, Row
  <1>6. RowsKept /\ \A r \in RunId : RowStep(r)
    BY <1>2, <1>3, <1>5, StoreAssumption DEF RowsKept, RowStep
  <1>7. \A u \in Submitter : SubmissionMove(u)
    BY <1>1, <1>5, IdleBased, SubmissionBased
  <1>8. QED
    BY <1>5, <1>6, <1>7, QuietStep

-----------------------------------------------------------------------------
(* The invariant *)

LEMMA PublicationStep ==
  ASSUME HistoryInv, Shape', NEW w \in Worker, Publish(w) \/ PublishUnacknowledged(w),
         UNCHANGED sub
  PROVE  HistoryInv'
  <1>1. /\ wrk[w].pc # "idle" /\ wrk[w].version < MaxVersion
        /\ SaveResult(wrk[w].run, NextVersion(w))
    BY DEF Publish, PublishUnacknowledged
  <1>2. PICK id \in RunId, l \in Locator, next \in 1 .. MaxVersion, result \in ResultRow :
          Appends(w, id, l, next, result)
    BY <1>1, PublicationAppends
  <1>3. ResultsNumbered'
    BY <1>2, PublicationNumbered DEF Appends
  <1>4. /\ CurrentVersion(l) \in Nat /\ next \in Nat /\ runs \in [RunId -> Row]
        /\ next = CurrentVersion(l) + 1 /\ CurrentVersion(l)' = next
        /\ \A k \in Locator : k # l => CurrentVersion(k)' = CurrentVersion(k)
    <2>1. CurrentVersion(l) \in Nat /\ next \in Nat
      BY VersionType, StoreAssumption DEF HistoryInv
    <2>2. runs \in [RunId -> Row]
      BY DEF HistoryInv, Shape, TypeOK, StoreTypeOK
    <2>3. QED
      BY <1>2, <2>1, <2>2 DEF Appends
  <1>5. ASSUME NEW k \in Locator
        PROVE  CurrentVersion(k)' \in Nat /\ CurrentVersion(k) <= CurrentVersion(k)'
    <2>1. CurrentVersion(k) \in Nat
      BY VersionType, StoreAssumption DEF HistoryInv
    <2>2. QED
      BY <1>4, <2>1
  <1>6. /\ runs'[id].key = l /\ runs'[id].parent = runs[id].parent
        /\ runs'[id].version = next /\ runs'[id].state = "succeeded"
        /\ \A r \in RunId : r # id => runs'[r] = runs[r]
    <2> DEFINE row == [runs[id] EXCEPT !.state = "succeeded", !.version = next,
                                       !.owner = None, !.expired = FALSE]
    <2>1. runs' = [runs EXCEPT ![id] = row]
      BY <1>2 DEF Appends
    <2>2. /\ row.key = runs[id].key /\ row.parent = runs[id].parent
          /\ row.version = next /\ row.state = "succeeded"
      BY <1>4 DEF Row
    <2>3. QED
      BY <1>2, <1>4, <2>1, <2>2 DEF Appends
  <1>7. RowStep(id)
    <2>1. next <= CurrentVersion(l)'
      BY <1>4
    <2>2. RowBase(id)'
      BY <1>6, <2>1 DEF RowBase, IsTemplateRun, CurrentVersion
    <2>3. [locator |-> runs'[id].key, version |-> runs'[id].version, run |-> id] = result
      BY <1>2, <1>6 DEF Appends
    <2>4. result \in results'
      BY <1>2 DEF Appends
    <2>5. QED
      BY <2>2, <2>3, <2>4 DEF RowStep
  <1>8. \A r \in RunId : RowStep(r)
    BY <1>6, <1>7 DEF RowStep
  <1>9. RowsKept
    BY <1>2, <1>6 DEF Appends, RowsKept
  <1>10. \A v \in Worker : wrk'[v] = wrk[v] \/ WorkerMove(v)
    <2>1. wrk \in [Worker -> WorkerState]
      BY DEF HistoryInv, Shape, TypeOK, WorkerTypeOK
    <2>2. \/ wrk'[w] = IdleWorker
          \/ wrk'[w].run = wrk[w].run /\ wrk'[w].version = wrk[w].version
      BY <2>1 DEF Publish, PublishUnacknowledged, AfterSettling, WorkerState
    <2>3. \A v \in Worker : v # w => wrk'[v] = wrk[v]
      BY <2>1 DEF Publish, PublishUnacknowledged, AfterSettling
    <2>4. QED
      BY <1>1, <2>2, <2>3 DEF WorkerMove, WorkerBase, IdleWorker
  <1>11. \A s \in Submitter : SubmissionMove(s)
    BY SubmissionsRest
  <1>12. results \subseteq results'
    BY <1>2 DEF Appends
  <1>13. QED
    BY <1>3, <1>5, <1>8, <1>9, <1>10, <1>11, <1>12, HistoryStep

LEMMA SubmitHistory ==
  ASSUME HistoryInv, Shape', Submit
  PROVE  HistoryInv'
  <1>1. PICK s \in Submitter : Begin(s) \/ SubmitterStep(s) \/ Abandon(s)
    BY DEF Submit
  <1>2. UNCHANGED wrk
    BY DEF Submit
  <1>3. CASE Begin(s)
    BY <1>2, <1>3, BeginHistory
  <1>4. CASE JoinRun(s) \/ ReuseCardSet(s) \/ Abandon(s)
    BY <1>2, <1>4, LeaveHistory DEF JoinRun, ReuseCardSet, Abandon
  <1>5. CASE MissRun(s) \/ StampParent(s) \/ StampChild(s) \/ MissCardSet(s)
    BY <1>2, <1>5, StampHistory
  <1>6. CASE PrepareChild(s)
    BY <1>2, <1>6, PrepareHistory
  <1>7. CASE SaveTemplateRun(s)
    BY <1>2, <1>7, SaveTemplateHistory
  <1>8. CASE SaveParent(s)
    BY <1>2, <1>8, SaveParentHistory
  <1>9. CASE SaveChild(s)
    BY <1>2, <1>9, SaveChildHistory
  <1>10. CASE ResaveParent(s)
    BY <1>2, <1>10, ResaveHistory
  <1>11. QED
    BY <1>1, <1>3, <1>4, <1>5, <1>6, <1>7, <1>8, <1>9, <1>10 DEF SubmitterStep

LEMMA WorkHistory ==
  ASSUME HistoryInv, Shape', Work
  PROVE  HistoryInv'
  <1>1. UNCHANGED sub
    BY DEF Work
  <1>2. ASSUME NEW w \in Worker, Publish(w) \/ PublishUnacknowledged(w) PROVE HistoryInv'
    BY <1>1, <1>2, PublicationStep
  <1>3. ASSUME NEW w \in Worker,
               \/ Claim(w) \/ Load(w) \/ ExecutionFails(w) \/ PublishRejected(w)
               \/ RetryRun(w) \/ FailRun(w) \/ CountChildren(w) \/ SettleParent(w)
               \/ Heartbeat(w)
        PROVE  HistoryInv'
    <2>1. RowsRest /\ UNCHANGED <<results, pointers>>
      BY <1>3, WorkersLeaveRows, SettlingLeavesRows
    <2>2. \A v \in Worker : wrk'[v] = wrk[v] \/ WorkerMove(v)
      BY <1>3, QuietWorkers
    <2>3. QED
      BY <1>1, <2>1, <2>2, RestingRows, SubmissionsRest, QuietStep
  <1>4. CASE \/ \E p \in Process : Crash(p)
             \/ Recover
    <2>1. RowsRest /\ UNCHANGED <<results, pointers>>
      BY <1>4, OthersLeaveRows
    <2>2. ASSUME NEW v \in Worker PROVE wrk'[v] = wrk[v] \/ WorkerMove(v)
      BY <1>4 DEF Crash, Recover, WorkerMove, WorkerBase, IdleWorker
    <2>3. QED
      BY <1>1, <2>1, <2>2, RestingRows, SubmissionsRest, QuietStep
  <1>5. QED
    BY <1>2, <1>3, <1>4 DEF Work, WorkerStep

LEMMA TimeHistory ==
  ASSUME HistoryInv, Shape', TimePasses
  PROVE  HistoryInv'
  <1>1. RowsRest /\ UNCHANGED <<results, pointers>>
    BY OthersLeaveRows
  <1>2. UNCHANGED sub /\ \A v \in Worker : wrk'[v] = wrk[v]
    BY DEF TimePasses
  <1>3. QED
    BY <1>1, <1>2, RestingRows, SubmissionsRest, QuietStep

LEMMA StutterHistory ==
  ASSUME HistoryInv, Shape', UNCHANGED vars
  PROVE  HistoryInv'
  <1>1. RowsRest /\ UNCHANGED <<results, pointers>>
    BY DEF vars, RowsRest
  <1>2. UNCHANGED sub /\ \A v \in Worker : wrk'[v] = wrk[v]
    BY DEF vars
  <1>3. QED
    BY <1>1, <1>2, RestingRows, SubmissionsRest, QuietStep

(* HistoryInv is an inductive invariant. *)
LEMMA NextHistory == HistoryInv /\ [Next]_vars => HistoryInv'
  <1> SUFFICES ASSUME HistoryInv, [Next]_vars PROVE HistoryInv'
    OBVIOUS
  <1>1. Shape'
    BY NextShape DEF HistoryInv
  <1>2. QED
    BY <1>1, SubmitHistory, WorkHistory, TimeHistory, StutterHistory DEF Next

LEMMA HistoryInvariant == Spec => []HistoryInv
  BY InitHistory, NextHistory, PTL DEF Spec

-----------------------------------------------------------------------------
(* Theorems *)

(* The results of every locator are numbered 1, 2, ... with no gap and no   *)
(* duplicate, and its pointer names the newest one, whatever stale base     *)
(* versions, zombies, lost acknowledgements and crashes SaveResult meets.   *)
THEOREM NumberedHistory == Spec => []ResultsNumbered
  <1>1. HistoryInv => ResultsNumbered
    BY DEF HistoryInv
  <1>2. QED
    BY <1>1, HistoryInvariant, PTL

(* No row, worker or submission ever holds a version that was not published. *)
THEOREM BasesPublished == Spec => []BasesNotAhead
  <1>1. HistoryInv => BasesNotAhead
    BY DEF HistoryInv
  <1>2. QED
    BY <1>1, HistoryInvariant, PTL

(* A row that reads succeeded names a result that exists and that its own   *)
(* run published, even after a zombie's Requeue, Fail or SaveResult.        *)
THEOREM SucceededMeansPublished == Spec => []SucceededRunHasResult
  <1>1. HistoryInv => SucceededRunHasResult
    BY DEF HistoryInv
  <1>2. QED
    BY <1>1, HistoryInvariant, PTL

-----------------------------------------------------------------------------
(* Refinement *)

currentVersions == [l \in Locator |-> CurrentVersion(l)]

(* Publishing is a step of the abstract history ... *)
LEMMA PublicationRefines ==
  ASSUME HistoryInv, NEW w \in Worker, Publish(w) \/ PublishUnacknowledged(w)
  PROVE  History!Next
  <1>1. /\ wrk[w].pc # "idle" /\ wrk[w].version < MaxVersion
        /\ SaveResult(wrk[w].run, NextVersion(w))
    BY DEF Publish, PublishUnacknowledged
  <1>2. PICK id \in RunId, l \in Locator, next \in 1 .. MaxVersion, result \in ResultRow :
          Appends(w, id, l, next, result)
    BY <1>1, PublicationAppends
  <1>3. currentVersions' = [currentVersions EXCEPT ![l] = @ + 1]
    BY <1>2 DEF Appends, currentVersions
  <1>4. results' = results \cup {[locator |-> l, version |-> currentVersions[l] + 1, run |-> id]}
    BY <1>2 DEF Appends, currentVersions
  <1>5. History!Publish(l, id)
    BY <1>3, <1>4 DEF History!Publish, currentVersions
  <1>6. QED
    BY <1>5 DEF History!Next

(* ... and every other step is a stutter of it. *)
LEMMA QuietRefines ==
  ASSUME UNCHANGED <<results, pointers>>
  PROVE  UNCHANGED History!vars
  BY DEF History!vars, CurrentVersion

LEMMA SubmitQuiet ==
  ASSUME Submit
  PROVE  UNCHANGED <<results, pointers>>
  <1>1. PICK s \in Submitter : Begin(s) \/ SubmitterStep(s) \/ Abandon(s)
    BY DEF Submit
  <1>2. CASE Begin(s)
    BY <1>2 DEF Begin, BeginTemplate, BeginCardSet, storeVars
  <1>3. CASE SubmitterStep(s) \/ Abandon(s)
    BY <1>3 DEF SubmitterStep, JoinRun, MissRun, SaveTemplateRun, MissCardSet, PrepareChild,
       ReuseCardSet, StampParent, SaveParent, StampChild, SaveChild, ResaveParent, Abandon,
       SaveRun, storeVars, ledger
  <1>4. QED
    BY <1>1, <1>2, <1>3

LEMMA StepRefines ==
  ASSUME HistoryInv, [Next]_vars
  PROVE  [History!Next]_(History!vars)
  <1>1. CASE Submit
    BY <1>1, SubmitQuiet, QuietRefines
  <1>2. CASE TimePasses
    BY <1>2, OthersLeaveRows, QuietRefines
  <1>3. CASE Work
    <2>1. CASE \E w \in Worker : Publish(w) \/ PublishUnacknowledged(w)
      BY <2>1, PublicationRefines
    <2>2. CASE \E w \in Worker :
                 \/ Claim(w) \/ Load(w) \/ ExecutionFails(w) \/ PublishRejected(w)
                 \/ RetryRun(w) \/ FailRun(w) \/ CountChildren(w) \/ SettleParent(w)
                 \/ Heartbeat(w)
      BY <2>2, WorkersLeaveRows, SettlingLeavesRows, QuietRefines
    <2>3. CASE (\E p \in Process : Crash(p)) \/ Recover
      BY <2>3, OthersLeaveRows, QuietRefines
    <2>4. QED
      BY <1>3, <2>1, <2>2, <2>3 DEF Work, WorkerStep
  <1>4. CASE UNCHANGED vars
    BY <1>4, QuietRefines DEF vars
  <1>5. QED
    BY <1>1, <1>2, <1>3, <1>4 DEF Next

LEMMA InitRefines == Init => History!Init
  BY DEF Init, StoreInit, History!Init, CurrentVersion

(* The store implements the abstract history of ADR-0001 and ADR-0008: only *)
(* SaveResult changes it, and always by appending the next version.         *)
THEOREM HistoryImplemented == Spec => ImplementsHistory
  BY InitRefines, StepRefines, HistoryInvariant, PTL DEF Spec, ImplementsHistory, History!Spec

-----------------------------------------------------------------------------
(* What no step of the service takes back, under any fault: a row keeps its *)
(* target, a failed row its explanation, a locator its result.  Whoever     *)
(* reads the tables twice, or reads and comes back later, relies on this.   *)

(* A row keeps its target, and if it reads failed it says why. *)
StaysReadable(id) ==
  /\ runs[id].state # "absent" => runs'[id].key = runs[id].key
  /\ runs'[id].key \in Locator /\ runs'[id].state = "failed" =>
       \/ runs'[id].failure # None
       \/ /\ runs[id].key = runs'[id].key /\ runs[id].state = "failed"
          /\ runs[id].failure = runs'[id].failure

LEMMA UnchangedReadable ==
  ASSUME NEW id \in RunId, runs'[id] = runs[id]
  PROVE  StaysReadable(id)
  BY DEF StaysReadable

(* One row is rewritten, with its target and not to an unexplained failure. *)
LEMMA RewrittenReadable ==
  ASSUME Shape, NEW id \in RunId, NEW row, runs' = [runs EXCEPT ![id] = row],
         runs[id].state # "absent" => row.key = runs[id].key,
         row.key \in Locator /\ row.state = "failed" => row.failure # None
  PROVE  \A r \in RunId : StaysReadable(r)
  <1>1. runs \in [RunId -> Row]
    BY DEF Shape, TypeOK, StoreTypeOK
  <1>2. StaysReadable(id)
    BY <1>1 DEF StaysReadable
  <1>3. \A r \in RunId : r # id => StaysReadable(r)
    BY <1>1, UnchangedReadable
  <1>4. QED
    BY <1>2, <1>3

LEMMA InsertReadable ==
  ASSUME Shape, FreeIds # {}, NEW key, NEW mode, NEW parent, NEW version, NEW created,
         SaveRun(NewRunId, NewRow(key, mode, parent, version, created))
  PROVE  \A r \in RunId : StaysReadable(r)
  <1> DEFINE row == NewRow(key, mode, parent, version, created)
  <1>1. NewRunId \in RunId /\ runs[NewRunId].state = "absent"
    BY DEF FreeIds, NewRunId
  <1>2. runs' = [runs EXCEPT ![NewRunId] = row]
    BY <1>1 DEF SaveRun, Shape, TypeOK, StoreTypeOK
  <1>3. row.state = "queued"
    BY DEF NewRow
  <1>4. QED
    BY <1>1, <1>2, <1>3, RewrittenReadable

LEMMA SubmitReadable ==
  ASSUME Shape, Submit
  PROVE  \A r \in RunId : StaysReadable(r)
  <1>1. PICK s \in Submitter : Begin(s) \/ SubmitterStep(s) \/ Abandon(s)
    BY DEF Submit
  <1>2. CASE SaveTemplateRun(s)
    BY <1>2, InsertReadable DEF SaveTemplateRun
  <1>3. CASE SaveParent(s)
    BY <1>3, InsertReadable DEF SaveParent, ParentRow
  <1>4. CASE SaveChild(s)
    BY <1>4, InsertReadable DEF SaveChild, ChildRow
  <1>5. CASE ResaveParent(s)
    <2> DEFINE p == sub[s].parent
               row == [runs[p] EXCEPT !.state = "queued", !.attempt = 0, !.version = 0,
                                      !.failure = None, !.expired = FALSE]
    <2>1. sub[s] \in SubmissionState /\ p # None /\ runs[p].key \in CardSet
      BY <1>5, SubmissionFacts DEF ResaveParent, FitsSubmission
    <2>2. p \in RunId /\ runs \in [RunId -> Row] /\ runs[p].state # "absent"
      BY <2>1, StoreAssumption
      DEF SubmissionState, Shape, TypeOK, StoreTypeOK, WellFormed, RowWellFormed
    <2>3. runs' = [runs EXCEPT ![p] = row]
      BY <1>5, <2>2 DEF ResaveParent, SaveRun, ParentRow, NewRow
    <2>4. row.key = runs[p].key /\ row.state = "queued"
      BY <2>2 DEF Row
    <2>5. QED
      BY <2>2, <2>3, <2>4, RewrittenReadable
  <1>6. CASE UNCHANGED runs
    BY <1>6, UnchangedReadable
  <1>7. \/ Begin(s) \/ JoinRun(s) \/ MissRun(s) \/ MissCardSet(s) \/ PrepareChild(s)
        \/ ReuseCardSet(s) \/ StampParent(s) \/ StampChild(s) \/ Abandon(s)
        => UNCHANGED runs
    BY DEF Begin, BeginTemplate, BeginCardSet, JoinRun, MissRun, MissCardSet, PrepareChild,
           ReuseCardSet, StampParent, StampChild, Abandon, storeVars
  <1>8. QED
    BY <1>1, <1>2, <1>3, <1>4, <1>5, <1>6, <1>7 DEF SubmitterStep

LEMMA WorkerReadable ==
  ASSUME Shape, NEW w \in Worker, Claim(w) \/ WorkerStep(w) \/ Heartbeat(w)
  PROVE  \A r \in RunId : StaysReadable(r)
  <1> DEFINE id == wrk[w].run
  <1>0. runs \in [RunId -> Row]
    BY DEF Shape, TypeOK, StoreTypeOK
  <1>1. CASE Claim(w)
    <2>1. PICK q \in RunId : ClaimRun(q, Owner(w))
      BY <1>1 DEF Claim
    <2> DEFINE row == [runs[q] EXCEPT !.state = "running", !.owner = Owner(w), !.expired = FALSE]
    <2>2. runs' = [runs EXCEPT ![q] = row]
      BY <2>1 DEF ClaimRun
    <2>3. row.key = runs[q].key /\ row.state = "running"
      BY <1>0 DEF Row
    <2>4. QED
      BY <2>2, <2>3, RewrittenReadable
  <1>2. CASE Publish(w) \/ PublishUnacknowledged(w)
    <2>1. /\ wrk[w].pc # "idle" /\ wrk[w].version < MaxVersion
          /\ SaveResult(id, NextVersion(w))
      BY <1>2 DEF Publish, PublishUnacknowledged
    <2>2. PICK row \in Row : /\ row.key = runs[id].key /\ row.state = "succeeded"
                             /\ runs' = [runs EXCEPT ![id] = row]
      BY <2>1, SaveResultType
    <2>3. QED
      BY <2>1, <2>2, BusyWorkerFacts, RewrittenReadable
  <1>3. CASE RetryRun(w)
    <2> DEFINE row == [runs[id] EXCEPT !.state = "queued", !.attempt = wrk[w].attempt + 1,
                                       !.failure = wrk[w].failure, !.owner = None,
                                       !.expired = FALSE, !.available = FALSE]
    <2>1. wrk[w].pc # "idle" /\ runs' = [runs EXCEPT ![id] = row]
      BY <1>3 DEF RetryRun, Requeue
    <2>2. id \in RunId /\ row.key = runs[id].key /\ row.state = "queued"
      BY <2>1, BusyWorkerFacts DEF Row
    <2>3. QED
      BY <2>1, <2>2, RewrittenReadable
  <1>4. CASE FailRun(w)
    <2> DEFINE row == [runs[id] EXCEPT !.state = "failed", !.failure = wrk[w].failure,
                                       !.owner = None, !.expired = FALSE]
    <2>1. wrk[w].pc = "failing" /\ runs' = [runs EXCEPT ![id] = row]
      BY <1>4 DEF FailRun, Fail
    <2>2. wrk[w].failure # None
      BY <2>1 DEF Shape, WellFormed, WorkerWellFormed
    <2>3. id \in RunId /\ row.key = runs[id].key /\ row.failure # None
      BY <2>1, <2>2, BusyWorkerFacts DEF Row
    <2>4. QED
      BY <2>1, <2>3, RewrittenReadable
  <1>5. CASE SettleParent(w)
    <2> DEFINE p == runs[id].parent
               row == [runs[p] EXCEPT !.state = wrk[w].status]
    <2>1. wrk[w].pc = "settling" /\ runs' = [runs EXCEPT ![p] = row]
      BY <1>5 DEF SettleParent, UpdateParent
    <2>2. id \in RunId /\ p # None
      BY <2>1, BusyWorkerFacts DEF Shape, WellFormed, WorkerWellFormed
    <2>3. p \in RunId /\ runs[p].key \in CardSet
      BY <1>0, <2>2 DEF Row, Shape, WellFormed, RowWellFormed
    <2>4. row.key = runs[p].key /\ row.key \notin Locator
      BY <1>0, <2>3, StoreAssumption DEF Row
    <2>5. QED
      BY <2>1, <2>3, <2>4, RewrittenReadable
  <1>6. CASE Heartbeat(w)
    BY <1>0, <1>6 DEF Heartbeat, RenewLease, StaysReadable, Row
  <1>7. CASE Load(w) \/ ExecutionFails(w) \/ PublishRejected(w) \/ CountChildren(w)
    BY <1>7, UnchangedReadable DEF Load, ExecutionFails, PublishRejected, CountChildren, storeVars
  <1>8. QED
    BY <1>1, <1>2, <1>3, <1>4, <1>5, <1>6, <1>7 DEF WorkerStep

LEMMA NextReadable ==
  ASSUME Shape, [Next]_vars
  PROVE  \A r \in RunId : StaysReadable(r)
  <1>1. runs \in [RunId -> Row]
    BY DEF Shape, TypeOK, StoreTypeOK
  <1>2. CASE Submit
    BY <1>2, SubmitReadable
  <1>3. CASE \E w \in Worker : Claim(w) \/ WorkerStep(w) \/ Heartbeat(w)
    BY <1>3, WorkerReadable
  <1>4. CASE Recover
    BY <1>1, <1>4 DEF Recover, RecoverExpiredLeases, Expired, StaysReadable, Row
  <1>5. CASE \E id \in RunId : RetryDue(id) \/ LeaseExpires(id)
    BY <1>1, <1>5 DEF RetryDue, LeaseExpires, StaysReadable, Row
  <1>6. CASE \/ \E p \in Process : Crash(p)
             \/ \E l \in Locator : ResultAges(l)
             \/ UNCHANGED vars
    BY <1>6, UnchangedReadable DEF Crash, ResultAges, vars, storeVars
  <1>7. QED
    BY <1>2, <1>3, <1>4, <1>5, <1>6 DEF Next, Work, TimePasses

(* A row with a target exists. *)
LEMMA LocatedExists ==
  ASSUME Shape, NEW id \in RunId, runs[id].key \in Locator
  PROVE  runs[id].state # "absent"
  BY StoreAssumption DEF Shape, WellFormed, RowWellFormed

(* Current versions do not go back: the abstract history sees to it. *)
LEMMA VersionsKept ==
  ASSUME HistoryInv, [Next]_vars, NEW l \in Locator
  PROVE  /\ CurrentVersion(l) \in Nat /\ CurrentVersion(l)' \in Nat
         /\ CurrentVersion(l) <= CurrentVersion(l)'
  <1>1. CurrentVersion(l) \in Nat
    BY VersionType, StoreAssumption DEF HistoryInv
  <1>2. CASE UNCHANGED History!vars
    <2>1. currentVersions' = currentVersions
      BY <1>2 DEF History!vars, currentVersions
    <2>2. QED
      BY <1>1, <2>1 DEF currentVersions
  <1>3. CASE History!Next
    <2>1. PICK k \in Locator : currentVersions' = [currentVersions EXCEPT ![k] = @ + 1]
      BY <1>3 DEF History!Next, History!Publish, currentVersions
    <2>2. \/ CurrentVersion(l)' = CurrentVersion(l)
          \/ CurrentVersion(l)' = CurrentVersion(l) + 1
      BY <2>1 DEF currentVersions
    <2>3. QED
      BY <1>1, <2>2
  <1>4. QED
    BY <1>2, <1>3, StepRefines

(* A locator has a pointer exactly if it has a version. *)
LEMMA PointerVersion ==
  ASSUME Shape, NEW l \in Locator
  PROVE  /\ CurrentVersion(l) \in Nat
         /\ pointers[l] # None <=> CurrentVersion(l) # 0
  <1>1. pointers[l] \in ResultRow \cup {None}
    BY DEF Shape, TypeOK, StoreTypeOK
  <1>2. QED
    BY <1>1, VersionType, StoreAssumption, NullAssumption DEF CurrentVersion, ResultRow

=============================================================================
