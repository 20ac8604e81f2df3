--------------------------- MODULE ExecutionProofs ---------------------------
(***************************************************************************)
(* Proofs about the execution of runs, while no lease is taken from a live *)
(* worker and no commit is lost: claims are exclusive, workers know their  *)
(* run, and runs follow their life cycle.  Crashes may happen at any time. *)
(***************************************************************************)
EXTENDS GenerationServiceProofs

(* A card-set row is never tried: its attempt and failure stay unset. *)
CardSetsUntried ==
  \A id \in RunId : ~ IsTemplateRun(id) => runs[id].attempt = 0 /\ runs[id].failure = None

(* Only template runs have results. *)
ResultsOfTemplates == \A x \in results : IsTemplateRun(x.run)

(* What the run a worker holds has to do with the worker. *)
KnowsItsRun(w) ==
  LET row == runs[wrk[w].run]
  IN /\ wrk[w].pc \in Holding => row.state = "running" /\ row.owner = Owner(w)
     /\ wrk[w].pc \in {"executing", "failing"} =>
          wrk[w].attempt = row.attempt /\ wrk[w].version = row.version

(* The inductive invariant. *)
ExecutionInv ==
  /\ Shape
  /\ ExclusiveExecution
  /\ \A w \in Worker : KnowsItsRun(w)
  /\ RetriesExhausted
  /\ CardSetsUntried
  /\ RunPublishesOnce
  /\ ResultsOfTemplates

LEMMA InitExecution == Init => ExecutionInv
  <1> SUFFICES ASSUME Init PROVE ExecutionInv
    OBVIOUS
  <1>1. \A id \in RunId : runs[id] = AbsentRow
    BY DEF Init, StoreInit
  <1>2. \A w \in Worker : wrk[w].pc = "idle"
    BY DEF Init, WorkerInit, IdleWorker
  <1>3. AbsentRow.state = "absent" /\ AbsentRow.attempt = 0 /\ AbsentRow.failure = None
    BY DEF AbsentRow, NewRow
  <1>4. results = {}
    BY DEF Init, StoreInit
  <1>5. ExclusiveExecution /\ \A w \in Worker : KnowsItsRun(w)
    BY <1>2 DEF ExclusiveExecution, KnowsItsRun, Holding
  <1>6. RetriesExhausted /\ CardSetsUntried
    BY <1>1, <1>3 DEF RetriesExhausted, CardSetsUntried
  <1>7. RunPublishesOnce /\ ResultsOfTemplates
    BY <1>4 DEF RunPublishesOnce, ResultsOfTemplates
  <1>8. QED
    BY <1>5, <1>6, <1>7, InitShape DEF ExecutionInv

-----------------------------------------------------------------------------
(* What a step does to a row *)

Same(id) ==
  /\ runs'[id].key = runs[id].key
  /\ runs'[id].state = runs[id].state
  /\ runs'[id].owner = runs[id].owner
  /\ runs'[id].attempt = runs[id].attempt
  /\ runs'[id].version = runs[id].version
  /\ runs'[id].failure = runs[id].failure

(* A card-set row is rewritten. *)
ParentWritten(id) ==
  /\ runs[id].key \in CardSet /\ runs'[id].key \in CardSet
  /\ runs'[id].attempt = 0 /\ runs'[id].failure = None

Inserted(id) ==
  /\ runs[id].state = "absent" /\ runs'[id].state = "queued"
  /\ runs'[id].attempt = 0 /\ runs'[id].failure = None

Untouched(id) == Same(id) \/ ParentWritten(id)

UntouchedBut(id) == \A r \in RunId : r # id => Untouched(r)

(* A run that is worked on, or has a result, is the run of a template. *)
LEMMA RunningRow ==
  ASSUME Shape, NEW id \in RunId, runs[id].state = "running"
  PROVE  /\ runs[id].key \in Locator
         /\ runs[id].key \notin CardSet
         /\ runs[id].state # "absent"
  BY StoreAssumption DEF Shape, WellFormed, RowWellFormed, IsTemplateRun

(* The rows of quiet steps keep what the invariant says of rows. *)
LEMMA QuietRows ==
  ASSUME ExecutionInv, \A id \in RunId : Untouched(id) \/ Inserted(id)
  PROVE  RetriesExhausted' /\ CardSetsUntried'
  <1>1. ASSUME NEW id \in RunId
        PROVE  /\ runs'[id].state = "failed" /\ runs'[id].failure = "transient"
                    => runs'[id].attempt = LastAttempt
               /\ ~ IsTemplateRun(id)' => runs'[id].attempt = 0 /\ runs'[id].failure = None
    <2>1. CASE Same(id)
      BY <2>1 DEF Same, ExecutionInv, RetriesExhausted, CardSetsUntried, IsTemplateRun
    <2>2. CASE ParentWritten(id) \/ Inserted(id)
      BY <2>2, NullAssumption DEF ParentWritten, Inserted, FailureKind
    <2>3. QED
      BY <1>1, <2>1, <2>2 DEF Untouched
  <1>2. QED
    BY <1>1 DEF RetriesExhausted, CardSetsUntried

(* Rows that are left alone, or new, keep the results they have. *)
LEMMA QuietResults ==
  ASSUME ExecutionInv, \A id \in RunId : Untouched(id) \/ Inserted(id), UNCHANGED results
  PROVE  RunPublishesOnce' /\ ResultsOfTemplates'
  <1>1. ASSUME NEW x \in results
        PROVE  runs'[x.run].state = "succeeded" /\ IsTemplateRun(x.run)'
    <2>1. /\ x.run \in RunId /\ runs[x.run].state = "succeeded"
          /\ runs[x.run].key \in Locator
      BY DEF ExecutionInv, Shape, TypeOK, StoreTypeOK, ResultRow, RunPublishesOnce,
             ResultsOfTemplates, IsTemplateRun
    <2>2. Same(x.run)
      BY <2>1, StoreAssumption DEF Untouched, ParentWritten, Inserted
    <2>3. QED
      BY <2>1, <2>2 DEF Same, IsTemplateRun
  <1>2. QED
    BY <1>1 DEF ExecutionInv, RunPublishesOnce, ResultsOfTemplates

(* A worker takes no new run, and loads what is in the row of the one it has. *)
QuietWorker(w) ==
  wrk'[w].pc \in Holding =>
    /\ wrk[w].pc \in Holding
    /\ wrk'[w].run = wrk[w].run
    /\ wrk'[w].pc \in {"executing", "failing"} =>
         /\ wrk'[w].attempt = runs[wrk[w].run].attempt
         /\ wrk'[w].version = runs[wrk[w].run].version

LEMMA IdleIsQuiet ==
  ASSUME ExecutionInv, NEW w \in Worker, wrk'[w] = wrk[w]
  PROVE  QuietWorker(w)
  BY DEF QuietWorker, ExecutionInv, KnowsItsRun

(* Steps that neither claim nor end the execution of a run. *)
LEMMA QuietExecution ==
  ASSUME ExecutionInv, Shape', UNCHANGED results,
         \A id \in RunId : Untouched(id) \/ Inserted(id),
         \A w \in Worker : QuietWorker(w)
  PROVE  ExecutionInv'
  <1>1. ExclusiveExecution'
    BY DEF ExclusiveExecution, QuietWorker, ExecutionInv
  <1>2. ASSUME NEW w \in Worker PROVE KnowsItsRun(w)'
    <2>1. CASE wrk'[w].pc \notin Holding
      BY <2>1 DEF KnowsItsRun, Holding
    <2>2. CASE wrk'[w].pc \in Holding
      <3>1. wrk[w].pc \in Holding /\ wrk'[w].run = wrk[w].run
        BY <2>2 DEF QuietWorker
      <3>2. wrk[w].run \in RunId
        BY <3>1, BusyWorkerFacts DEF ExecutionInv, Holding
      <3>3. runs[wrk[w].run].state = "running" /\ runs[wrk[w].run].owner = Owner(w)
        BY <3>1 DEF ExecutionInv, KnowsItsRun
      <3>4. Same(wrk[w].run)
        BY <3>2, <3>3, RunningRow DEF ExecutionInv, Untouched, ParentWritten, Inserted
      <3>5. QED
        BY <2>2, <3>1, <3>3, <3>4 DEF KnowsItsRun, QuietWorker, Same, Owner
    <2>3. QED
      BY <2>1, <2>2
  <1>3. QED
    BY <1>1, <1>2, QuietRows, QuietResults DEF ExecutionInv

(* Steps of neither rows nor workers. *)
LEMMA RowsAtRest ==
  ASSUME UNCHANGED runs
  PROVE  \A id \in RunId : Untouched(id)
  BY DEF Untouched, Same

-----------------------------------------------------------------------------
(* Submissions *)

LEMMA SubmissionInserts ==
  ASSUME Shape, FreeIds # {}, NEW key, NEW mode, NEW parent, NEW version, NEW created,
         SaveRun(NewRunId, NewRow(key, mode, parent, version, created))
  PROVE  /\ NewRunId \in RunId /\ Inserted(NewRunId) /\ UntouchedBut(NewRunId)
         /\ UNCHANGED results
  <1> DEFINE row == NewRow(key, mode, parent, version, created)
  <1>1. NewRunId \in RunId /\ runs[NewRunId].state = "absent"
    BY DEF FreeIds, NewRunId
  <1>2. runs \in [RunId -> Row]
    BY DEF Shape, TypeOK, StoreTypeOK
  <1>3. runs' = [runs EXCEPT ![NewRunId] = row] /\ UNCHANGED results
    BY <1>1, <1>2 DEF SaveRun, ledger
  <1>4. runs'[NewRunId] = row /\ \A r \in RunId : r # NewRunId => runs'[r] = runs[r]
    BY <1>1, <1>2, <1>3
  <1>5. row.state = "queued" /\ row.attempt = 0 /\ row.failure = None
    BY DEF NewRow
  <1>6. QED
    BY <1>1, <1>3, <1>4, <1>5 DEF Inserted, UntouchedBut, Untouched, Same

LEMMA ParentRewritten ==
  ASSUME ExecutionInv, NEW s \in Submitter, ResaveParent(s)
  PROVE  (\A id \in RunId : Untouched(id)) /\ UNCHANGED results
  <1> DEFINE p == sub[s].parent
  <1>1. sub[s].pc = "resaving" /\ SaveRun(p, ParentRow(s))
    BY DEF ResaveParent
  <1>2. sub[s] \in SubmissionState /\ p # None /\ runs[p].key \in CardSet
    BY <1>1, SubmissionFacts DEF ExecutionInv, FitsSubmission
  <1>3. p \in RunId /\ runs \in [RunId -> Row]
    BY <1>2 DEF SubmissionState, ExecutionInv, Shape, TypeOK, StoreTypeOK
  <1>4. runs[p] \in Row /\ runs[p].state # "absent"
    BY <1>2, <1>3, StoreAssumption DEF ExecutionInv, Shape, WellFormed, RowWellFormed
  <1>5. /\ runs' = [runs EXCEPT ![p] =
             [runs[p] EXCEPT !.state = "queued", !.attempt = 0, !.version = 0,
                             !.failure = None, !.expired = FALSE]]
        /\ UNCHANGED results
    BY <1>1, <1>4 DEF SaveRun, ParentRow, NewRow, ledger
  <1>6. ParentWritten(p)
    BY <1>2, <1>3, <1>4, <1>5 DEF ParentWritten, Row
  <1>7. \A r \in RunId : r # p => Same(r)
    BY <1>3, <1>5 DEF Same
  <1>8. QED
    BY <1>5, <1>6, <1>7 DEF Untouched

(* A submission inserts one row, or leaves the rows of templates alone. *)
LEMMA SubmissionRows ==
  ASSUME ExecutionInv, NEW s \in Submitter, Begin(s) \/ SubmitterStep(s) \/ Abandon(s)
  PROVE  /\ UNCHANGED results
         /\ \/ \A id \in RunId : Untouched(id)
            \/ \E id \in RunId : Inserted(id) /\ UntouchedBut(id)
  <1>0. Shape
    BY DEF ExecutionInv
  <1>1. CASE SaveTemplateRun(s)
    BY <1>0, <1>1, SubmissionInserts DEF SaveTemplateRun
  <1>2. CASE SaveParent(s)
    BY <1>0, <1>2, SubmissionInserts DEF SaveParent, ParentRow
  <1>3. CASE SaveChild(s)
    BY <1>0, <1>3, SubmissionInserts DEF SaveChild, ChildRow
  <1>4. CASE ResaveParent(s)
    BY <1>4, ParentRewritten
  <1>5. CASE UNCHANGED <<runs, results>>
    BY <1>5, RowsAtRest
  <1>6. \/ Begin(s) \/ JoinRun(s) \/ MissRun(s) \/ MissCardSet(s) \/ PrepareChild(s)
        \/ ReuseCardSet(s) \/ StampParent(s) \/ StampChild(s) \/ Abandon(s)
        => UNCHANGED <<runs, results>>
    BY DEF Begin, BeginTemplate, BeginCardSet, JoinRun, MissRun, MissCardSet, PrepareChild,
           ReuseCardSet, StampParent, StampChild, Abandon, storeVars, ledger
  <1>7. QED
    BY <1>1, <1>2, <1>3, <1>4, <1>5, <1>6 DEF SubmitterStep

LEMMA SubmitExecution ==
  ASSUME ExecutionInv, Shape', Submit
  PROVE  ExecutionInv'
  <1>1. PICK s \in Submitter : Begin(s) \/ SubmitterStep(s) \/ Abandon(s)
    BY DEF Submit
  <1>2. UNCHANGED wrk
    BY DEF Submit
  <1>3. UNCHANGED results /\ \A id \in RunId : Untouched(id) \/ Inserted(id)
    BY <1>1, SubmissionRows DEF UntouchedBut
  <1>4. QED
    BY <1>2, <1>3, IdleIsQuiet, QuietExecution

-----------------------------------------------------------------------------
(* What the steps of workers and of time do to the rows *)

(* The parent that a worker settles is a card-set row. *)
LEMMA ParentSettled ==
  ASSUME ExecutionInv, NEW w \in Worker, SettleParent(w)
  PROVE  (\A id \in RunId : Untouched(id)) /\ UNCHANGED results
  <1> DEFINE p == runs[wrk[w].run].parent
  <1>1. /\ wrk[w].pc = "settling"
        /\ runs' = [runs EXCEPT ![p].state = wrk[w].status] /\ UNCHANGED results
    BY DEF SettleParent, UpdateParent, ledger
  <1>2. wrk[w].run \in RunId /\ runs[wrk[w].run] \in Row /\ runs \in [RunId -> Row]
    BY <1>1, BusyWorkerFacts DEF ExecutionInv
  <1>3. p # None
    BY <1>1 DEF ExecutionInv, Shape, WellFormed, WorkerWellFormed
  <1>4. p \in RunId /\ runs[p].key \in CardSet /\ runs[p] \in Row
    BY <1>2, <1>3 DEF Row, ExecutionInv, Shape, WellFormed, RowWellFormed
  <1>5. runs[p].attempt = 0 /\ runs[p].failure = None
    BY <1>4, StoreAssumption DEF ExecutionInv, CardSetsUntried, IsTemplateRun
  <1>6. ParentWritten(p)
    BY <1>1, <1>2, <1>4, <1>5 DEF ParentWritten, Row
  <1>7. \A r \in RunId : r # p => Same(r)
    BY <1>1, <1>2 DEF Same
  <1>8. QED
    BY <1>1, <1>6, <1>7 DEF Untouched

LEMMA TimeLeavesRuns ==
  ASSUME ~ MayRecover, ExecutionInv, TimePasses
  PROVE  (\A id \in RunId : Untouched(id)) /\ UNCHANGED results
  <1>1. runs \in [RunId -> Row]
    BY DEF ExecutionInv, Shape, TypeOK, StoreTypeOK
  <1>2. CASE \E l \in Locator : ResultAges(l)
    BY <1>2, RowsAtRest DEF ResultAges
  <1>3. ASSUME NEW id \in RunId, RetryDue(id)
        PROVE  (\A r \in RunId : Untouched(r)) /\ UNCHANGED results
    <2>1. runs' = [runs EXCEPT ![id].available = TRUE] /\ UNCHANGED results
      BY <1>3 DEF RetryDue, ledger
    <2>2. \A r \in RunId : Same(r)
      BY <1>1, <2>1 DEF Same, Row
    <2>3. QED
      BY <2>1, <2>2 DEF Untouched
  <1>4. QED
    BY <1>2, <1>3 DEF TimePasses

(* A queued template run becomes the run of a worker. *)
ClaimedBy(id, w) ==
  /\ runs[id].state = "queued" /\ IsTemplateRun(id)
  /\ runs'[id].state = "running" /\ runs'[id].owner = Owner(w)
  /\ runs'[id].key = runs[id].key /\ runs'[id].attempt = runs[id].attempt
  /\ \A r \in RunId : r # id => Same(r)
  /\ wrk'[w].pc = "loading" /\ wrk'[w].run = id
  /\ \A v \in Worker : v # w => wrk'[v] = wrk[v]
  /\ UNCHANGED results

LEMMA ClaimFacts ==
  ASSUME ExecutionInv, NEW w \in Worker, Claim(w)
  PROVE  \E id \in RunId : ClaimedBy(id, w)
  <1>1. PICK id \in RunId :
          /\ ClaimRun(id, Owner(w))
          /\ wrk' = [wrk EXCEPT ![w] = [IdleWorker EXCEPT !.pc = "loading", !.run = id]]
    BY DEF Claim
  <1>2. runs \in [RunId -> Row] /\ wrk \in [Worker -> WorkerState] /\ IdleWorker \in WorkerState
    BY IdleWorkerType DEF ExecutionInv, Shape, TypeOK, StoreTypeOK, WorkerTypeOK
  <1>3. runs[id].state = "queued" /\ IsTemplateRun(id)
    BY <1>1 DEF ClaimRun, NextClaims
  <1>4. /\ runs' = [runs EXCEPT ![id] = [runs[id] EXCEPT !.state = "running",
                                           !.owner = Owner(w), !.expired = FALSE]]
        /\ UNCHANGED results
    BY <1>1 DEF ClaimRun, ledger
  <1>5. /\ runs'[id].state = "running" /\ runs'[id].owner = Owner(w)
        /\ runs'[id].key = runs[id].key /\ runs'[id].attempt = runs[id].attempt
    BY <1>2, <1>4 DEF Row
  <1>6. \A r \in RunId : r # id => Same(r)
    BY <1>2, <1>4 DEF Same
  <1>7. wrk'[w].pc = "loading" /\ wrk'[w].run = id /\ \A v \in Worker : v # w => wrk'[v] = wrk[v]
    BY <1>1, <1>2 DEF WorkerState
  <1>8. QED
    BY <1>3, <1>4, <1>5, <1>6, <1>7 DEF ClaimedBy

-----------------------------------------------------------------------------
(* Workers *)

(* A worker loads its run, fails to execute it, or refreshes a parent.      *)
LEMMA OwnMoves ==
  ASSUME ExecutionInv, Shape', NEW w \in Worker,
         Load(w) \/ ExecutionFails(w) \/ PublishRejected(w) \/ CountChildren(w) \/ SettleParent(w)
  PROVE  ExecutionInv'
  <1>1. wrk \in [Worker -> WorkerState] /\ KnowsItsRun(w)
    BY DEF ExecutionInv, Shape, TypeOK, WorkerTypeOK
  <1>2. ASSUME NEW v \in Worker, v # w PROVE QuietWorker(v)
    <2>1. wrk'[v] = wrk[v]
      BY <1>1, <1>2 DEF Load, ExecutionFails, PublishRejected, CountChildren, SettleParent
    <2>2. QED
      BY <2>1, IdleIsQuiet
  <1>3. QuietWorker(w)
    <2>1. CASE Load(w)
      BY <1>1, <2>1 DEF Load, QuietWorker, WorkerState, Holding
    <2>2. CASE ExecutionFails(w) \/ PublishRejected(w)
      <3>1. /\ wrk[w].pc = "executing" /\ wrk'[w].run = wrk[w].run
            /\ wrk'[w].attempt = wrk[w].attempt /\ wrk'[w].version = wrk[w].version
        BY <1>1, <2>2 DEF ExecutionFails, PublishRejected, WorkerState
      <3>2. QED
        BY <1>1, <3>1 DEF KnowsItsRun, QuietWorker, Holding
    <2>3. CASE CountChildren(w) \/ SettleParent(w)
      <3>1. wrk'[w].pc \in {"idle", "settling"}
        <4>1. CASE CountChildren(w) /\ ChildrenSettled(runs[wrk[w].run].parent)
          BY <1>1, <4>1 DEF CountChildren, WorkerState
        <4>2. CASE CountChildren(w) /\ ~ ChildrenSettled(runs[wrk[w].run].parent)
          BY <1>1, <4>2 DEF CountChildren, IdleWorker
        <4>3. CASE SettleParent(w)
          BY <1>1, <4>3 DEF SettleParent, IdleWorker
        <4>4. QED
          BY <2>3, <4>1, <4>2, <4>3
      <3>2. QED
        BY <3>1 DEF QuietWorker, Holding
    <2>4. QED
      BY <2>1, <2>2, <2>3
  <1>4. UNCHANGED results /\ \A id \in RunId : Untouched(id)
    <2>1. CASE SettleParent(w)
      BY <2>1, ParentSettled
    <2>2. CASE ~ SettleParent(w)
      BY <2>2, RowsAtRest DEF Load, ExecutionFails, PublishRejected, CountChildren, storeVars
    <2>3. QED
      BY <2>1, <2>2
  <1>5. \A v \in Worker : QuietWorker(v)
    BY <1>2, <1>3
  <1>6. QED
    BY <1>4, <1>5, QuietExecution

(* A crash leaves the tables alone and workers with nothing to do. *)
LEMMA CrashExecution ==
  ASSUME ExecutionInv, Shape', NEW p \in Process, Crash(p)
  PROVE  ExecutionInv'
  <1>1. ASSUME NEW w \in Worker PROVE QuietWorker(w)
    <2>1. CASE Host[w] = p
      BY <2>1 DEF Crash, QuietWorker, IdleWorker, Holding
    <2>2. CASE Host[w] # p
      BY <2>2, IdleIsQuiet DEF Crash
    <2>3. QED
      BY <2>1, <2>2
  <1>2. UNCHANGED results /\ \A id \in RunId : Untouched(id)
    BY RowsAtRest DEF Crash, storeVars
  <1>3. QED
    BY <1>1, <1>2, QuietExecution

(* The passing of time, while leases cannot expire. *)
LEMMA TimeExecution ==
  ASSUME ~ MayRecover, ExecutionInv, Shape', TimePasses
  PROVE  ExecutionInv'
  <1>1. \A w \in Worker : QuietWorker(w)
    BY IdleIsQuiet DEF TimePasses
  <1>2. UNCHANGED results /\ \A id \in RunId : Untouched(id)
    BY TimeLeavesRuns
  <1>3. QED
    BY <1>1, <1>2, QuietExecution

(* The claimed row was queued, so nobody held it. *)
LEMMA ClaimExecution ==
  ASSUME ExecutionInv, Shape', NEW w \in Worker, Claim(w)
  PROVE  ExecutionInv'
  <1>1. PICK id \in RunId : ClaimedBy(id, w)
    BY ClaimFacts
  <1>2. ASSUME NEW v \in Worker, v # w
        PROVE  /\ wrk'[v] = wrk[v]
               /\ wrk[v].pc \in Holding => wrk[v].run # id /\ Same(wrk[v].run)
    <2>1. wrk'[v] = wrk[v]
      BY <1>1, <1>2 DEF ClaimedBy
    <2>2. ASSUME wrk[v].pc \in Holding
          PROVE  wrk[v].run # id /\ Same(wrk[v].run)
      <3>1. wrk[v].run \in RunId /\ runs[wrk[v].run].state = "running"
        BY <2>2, BusyWorkerFacts DEF ExecutionInv, KnowsItsRun, Holding
      <3>2. wrk[v].run # id
        BY <1>1, <3>1 DEF ClaimedBy
      <3>3. QED
        BY <1>1, <3>1, <3>2 DEF ClaimedBy
    <2>3. QED
      BY <2>1, <2>2
  <1>3. ExclusiveExecution'
    BY <1>1, <1>2 DEF ExclusiveExecution, ExecutionInv, ClaimedBy
  <1>4. ASSUME NEW v \in Worker PROVE KnowsItsRun(v)'
    <2>1. CASE v = w
      BY <1>1, <2>1 DEF ClaimedBy, KnowsItsRun, Owner
    <2>2. CASE v # w
      BY <1>2, <2>2 DEF ExecutionInv, KnowsItsRun, Same, Owner, Holding
    <2>3. QED
      BY <2>1, <2>2
  <1>5. RetriesExhausted' /\ CardSetsUntried'
    BY <1>1 DEF ClaimedBy, Same, ExecutionInv, RetriesExhausted, CardSetsUntried, IsTemplateRun
  <1>6. ASSUME NEW x \in results
        PROVE  runs'[x.run].state = "succeeded" /\ IsTemplateRun(x.run)'
    BY <1>1
    DEF ClaimedBy, Same, ExecutionInv, Shape, TypeOK, StoreTypeOK, ResultRow, RunPublishesOnce,
        ResultsOfTemplates, IsTemplateRun
  <1>7. RunPublishesOnce' /\ ResultsOfTemplates'
    BY <1>1, <1>6 DEF ClaimedBy, ExecutionInv, RunPublishesOnce, ResultsOfTemplates
  <1>8. QED
    BY <1>3, <1>4, <1>5, <1>7 DEF ExecutionInv

-----------------------------------------------------------------------------
(* The end of an execution *)

(* A worker gives its run back or ends it, and holds no run after that. *)
EndedBy(id, w) ==
  /\ wrk[w].pc \in {"executing", "failing"} /\ wrk[w].run = id
  /\ wrk'[w].pc \notin Holding
  /\ \A v \in Worker : v # w => wrk'[v] = wrk[v]
  /\ runs'[id].key = runs[id].key
  /\ \A r \in RunId : r # id => Same(r)

(* With its result published. *)
PublishedBy(id, w) ==
  /\ EndedBy(id, w)
  /\ runs'[id].state = "succeeded" /\ runs'[id].attempt = runs[id].attempt
  /\ \E x : x.run = id /\ results' = results \cup {x}

RetriedBy(id, w) ==
  /\ EndedBy(id, w)
  /\ runs[id].attempt < LastAttempt
  /\ runs'[id].state = "queued" /\ runs'[id].attempt = runs[id].attempt + 1
  /\ UNCHANGED results

FailedBy(id, w) ==
  /\ EndedBy(id, w)
  /\ runs'[id].state = "failed" /\ runs'[id].attempt = runs[id].attempt
  /\ runs'[id].failure = "transient" => runs[id].attempt = LastAttempt
  /\ UNCHANGED results

(* AfterSettling takes the worker off its run. *)
LEMMA AfterSettlingEnds ==
  ASSUME Shape, NEW w \in Worker, wrk[w].pc # "idle", AfterSettling(w)
  PROVE  wrk'[w].pc \notin Holding /\ \A v \in Worker : v # w => wrk'[v] = wrk[v]
  <1>1. PICK state \in WorkerState :
          /\ wrk' = [wrk EXCEPT ![w] = state]
          /\ state = IdleWorker \/ state.pc = "counting"
    BY AfterSettlingType
  <1>2. wrk \in [Worker -> WorkerState]
    BY DEF Shape, TypeOK, WorkerTypeOK
  <1>3. state.pc \notin Holding
    BY <1>1, IdleWorkerType DEF Holding
  <1>4. QED
    BY <1>1, <1>2, <1>3

LEMMA PublishFacts ==
  ASSUME ExecutionInv, NEW w \in Worker, Publish(w)
  PROVE  PublishedBy(wrk[w].run, w)
  <1> DEFINE id == wrk[w].run
             x == [locator |-> runs[id].key, version |-> NextVersion(w), run |-> id]
  <1>1. wrk[w].pc = "executing" /\ AfterSettling(w) /\ SaveResult(id, NextVersion(w))
    BY DEF Publish
  <1>2. id \in RunId /\ runs \in [RunId -> Row] /\ runs[id] \in Row
    BY <1>1, BusyWorkerFacts DEF ExecutionInv
  <1>3. /\ runs' = [runs EXCEPT ![id] = [runs[id] EXCEPT !.state = "succeeded",
                       !.version = NextVersion(w), !.owner = None, !.expired = FALSE]]
        /\ results' = results \cup {x}
    BY <1>1 DEF SaveResult, CompleteRun
  <1>4. /\ runs'[id].state = "succeeded" /\ runs'[id].attempt = runs[id].attempt
        /\ runs'[id].key = runs[id].key
    BY <1>2, <1>3 DEF Row
  <1>5. \A r \in RunId : r # id => Same(r)
    BY <1>2, <1>3 DEF Same
  <1>6. EndedBy(id, w)
    BY <1>1, <1>4, <1>5, AfterSettlingEnds DEF ExecutionInv, EndedBy
  <1>7. x.run = id
    OBVIOUS
  <1>8. QED
    BY <1>3, <1>4, <1>6, <1>7 DEF PublishedBy

LEMMA RetryFacts ==
  ASSUME ExecutionInv, NEW w \in Worker, RetryRun(w)
  PROVE  RetriedBy(wrk[w].run, w)
  <1> DEFINE id == wrk[w].run
  <1>1. /\ wrk[w].pc = "failing" /\ wrk[w].attempt < LastAttempt
        /\ wrk' = [wrk EXCEPT ![w] = IdleWorker]
        /\ runs' = [runs EXCEPT ![id] = [runs[id] EXCEPT !.state = "queued",
             !.attempt = wrk[w].attempt + 1, !.failure = wrk[w].failure, !.owner = None,
             !.expired = FALSE, !.available = FALSE]]
        /\ UNCHANGED results
    BY DEF RetryRun, Retryable, Requeue, ledger
  <1>2. /\ id \in RunId /\ runs \in [RunId -> Row] /\ runs[id] \in Row
        /\ wrk \in [Worker -> WorkerState]
    BY <1>1, BusyWorkerFacts DEF ExecutionInv, Shape, TypeOK, WorkerTypeOK
  <1>3. wrk[w].attempt = runs[id].attempt
    BY <1>1 DEF ExecutionInv, KnowsItsRun
  <1>4. /\ runs'[id].state = "queued" /\ runs'[id].attempt = wrk[w].attempt + 1
        /\ runs'[id].key = runs[id].key
    BY <1>1, <1>2 DEF Row
  <1>5. \A r \in RunId : r # id => Same(r)
    BY <1>1, <1>2 DEF Same
  <1>6. wrk'[w].pc \notin Holding /\ \A v \in Worker : v # w => wrk'[v] = wrk[v]
    BY <1>1, <1>2, IdleWorkerType DEF Holding
  <1>7. QED
    BY <1>1, <1>3, <1>4, <1>5, <1>6 DEF EndedBy, RetriedBy

LEMMA FailFacts ==
  ASSUME ExecutionInv, NEW w \in Worker, FailRun(w)
  PROVE  FailedBy(wrk[w].run, w)
  <1> DEFINE id == wrk[w].run
  <1>1. /\ wrk[w].pc = "failing" /\ ~ Retryable(w) /\ AfterSettling(w)
        /\ runs' = [runs EXCEPT ![id] = [runs[id] EXCEPT !.state = "failed",
                       !.failure = wrk[w].failure, !.owner = None, !.expired = FALSE]]
        /\ UNCHANGED results
    BY DEF FailRun, Fail, ledger
  <1>2. id \in RunId /\ runs \in [RunId -> Row] /\ runs[id] \in Row /\ wrk[w] \in WorkerState
    BY <1>1, BusyWorkerFacts DEF ExecutionInv
  <1>3. wrk[w].attempt = runs[id].attempt
    BY <1>1 DEF ExecutionInv, KnowsItsRun
  <1>4. /\ runs'[id].state = "failed" /\ runs'[id].failure = wrk[w].failure
        /\ runs'[id].key = runs[id].key /\ runs'[id].attempt = runs[id].attempt
    BY <1>1, <1>2 DEF Row
  <1>5. wrk[w].failure = "transient" => runs[id].attempt = LastAttempt
    BY <1>1, <1>2, <1>3 DEF Retryable, WorkerState, LastAttempt
  <1>6. \A r \in RunId : r # id => Same(r)
    BY <1>1, <1>2 DEF Same
  <1>7. EndedBy(id, w)
    BY <1>1, <1>4, <1>6, AfterSettlingEnds DEF ExecutionInv, EndedBy
  <1>8. QED
    BY <1>1, <1>4, <1>5, <1>7 DEF FailedBy

(* The worker that ends an execution was the only one to hold the run. *)
LEMMA EndExecution ==
  ASSUME ExecutionInv, NEW w \in Worker, NEW id, EndedBy(id, w)
  PROVE  /\ id \in RunId /\ runs[id].state = "running" /\ IsTemplateRun(id)
         /\ ExclusiveExecution'
         /\ \A v \in Worker : KnowsItsRun(v)'
  <1>1. id \in RunId /\ runs[id].state = "running" /\ IsTemplateRun(id)
    BY BusyWorkerFacts DEF EndedBy, ExecutionInv, KnowsItsRun, Holding, IsTemplateRun
  <1>2. ExclusiveExecution'
    BY DEF EndedBy, ExecutionInv, ExclusiveExecution
  <1>3. ASSUME NEW v \in Worker PROVE KnowsItsRun(v)'
    <2>1. CASE wrk'[v].pc \notin Holding
      BY <2>1 DEF KnowsItsRun, Holding
    <2>2. CASE wrk'[v].pc \in Holding
      <3>1. v # w /\ wrk'[v] = wrk[v]
        BY <2>2 DEF EndedBy
      <3>2. wrk[v].run \in RunId /\ wrk[v].run # id
        BY <2>2, <3>1, BusyWorkerFacts DEF EndedBy, ExecutionInv, ExclusiveExecution, Holding
      <3>3. Same(wrk[v].run)
        BY <3>2 DEF EndedBy
      <3>4. QED
        BY <3>1, <3>3 DEF ExecutionInv, KnowsItsRun, Same, Owner
    <2>3. QED
      BY <2>1, <2>2
  <1>4. QED
    BY <1>1, <1>2, <1>3

LEMMA EndRows ==
  ASSUME ExecutionInv, NEW w \in Worker, NEW id,
         PublishedBy(id, w) \/ RetriedBy(id, w) \/ FailedBy(id, w)
  PROVE  RetriesExhausted' /\ CardSetsUntried'
  <1>1. EndedBy(id, w) /\ id \in RunId /\ IsTemplateRun(id)
    BY EndExecution DEF PublishedBy, RetriedBy, FailedBy
  <1>2. IsTemplateRun(id)'
    BY <1>1 DEF EndedBy, IsTemplateRun
  <1>3. /\ runs'[id].state = "failed" /\ runs'[id].failure = "transient"
        => runs'[id].attempt = LastAttempt
    BY DEF PublishedBy, RetriedBy, FailedBy
  <1>4. \A r \in RunId : r # id => Same(r)
    BY <1>1 DEF EndedBy
  <1>5. QED
    BY <1>2, <1>3, <1>4
    DEF ExecutionInv, RetriesExhausted, CardSetsUntried, Same, IsTemplateRun

(* A run that is worked on has no result yet, so it gets its first. *)
LEMMA EndResults ==
  ASSUME ExecutionInv, NEW w \in Worker, NEW id,
         PublishedBy(id, w) \/ RetriedBy(id, w) \/ FailedBy(id, w)
  PROVE  RunPublishesOnce' /\ ResultsOfTemplates'
  <1>1. EndedBy(id, w) /\ id \in RunId /\ runs[id].state = "running" /\ IsTemplateRun(id)
    BY EndExecution DEF PublishedBy, RetriedBy, FailedBy
  <1>2. ASSUME NEW x \in results
        PROVE  /\ x.run # id
               /\ runs'[x.run].state = "succeeded" /\ IsTemplateRun(x.run)'
    <2>1. /\ x.run \in RunId /\ runs[x.run].state = "succeeded" /\ IsTemplateRun(x.run)
      BY DEF ExecutionInv, Shape, TypeOK, StoreTypeOK, ResultRow, RunPublishesOnce,
             ResultsOfTemplates
    <2>2. x.run # id
      BY <1>1, <2>1
    <2>3. Same(x.run)
      BY <1>1, <2>1, <2>2 DEF EndedBy
    <2>4. QED
      BY <2>1, <2>2, <2>3 DEF Same, IsTemplateRun
  <1>3. CASE PublishedBy(id, w)
    <2>1. PICK new : new.run = id /\ results' = results \cup {new}
      BY <1>3 DEF PublishedBy
    <2>2. runs'[id].state = "succeeded" /\ IsTemplateRun(id)'
      BY <1>1, <1>3 DEF PublishedBy, EndedBy, IsTemplateRun
    <2>3. QED
      BY <1>2, <2>1, <2>2 DEF ExecutionInv, RunPublishesOnce, ResultsOfTemplates
  <1>4. CASE UNCHANGED results
    BY <1>2, <1>4 DEF ExecutionInv, RunPublishesOnce, ResultsOfTemplates
  <1>5. QED
    BY <1>3, <1>4 DEF RetriedBy, FailedBy

LEMMA EndInv ==
  ASSUME ExecutionInv, Shape', NEW w \in Worker, Publish(w) \/ RetryRun(w) \/ FailRun(w)
  PROVE  ExecutionInv'
  <1> DEFINE id == wrk[w].run
  <1>1. PublishedBy(id, w) \/ RetriedBy(id, w) \/ FailedBy(id, w)
    BY PublishFacts, RetryFacts, FailFacts
  <1>2. EndedBy(id, w)
    BY <1>1 DEF PublishedBy, RetriedBy, FailedBy
  <1>3. ExclusiveExecution' /\ \A v \in Worker : KnowsItsRun(v)'
    BY <1>2, EndExecution
  <1>4. RetriesExhausted' /\ CardSetsUntried'
    BY <1>1, EndRows
  <1>5. RunPublishesOnce' /\ ResultsOfTemplates'
    BY <1>1, EndResults
  <1>6. QED
    BY <1>3, <1>4, <1>5 DEF ExecutionInv

-----------------------------------------------------------------------------
(* The invariant *)

LEMMA WorkExecution ==
  ASSUME ~ MayRecover, ~ MayLoseAck, ExecutionInv, Shape', Work
  PROVE  ExecutionInv'
  <1>1. ASSUME NEW w \in Worker, Claim(w) \/ WorkerStep(w) PROVE ExecutionInv'
    <2>1. CASE Claim(w)
      BY <2>1, ClaimExecution
    <2>2. CASE Publish(w) \/ RetryRun(w) \/ FailRun(w)
      BY <2>2, EndInv
    <2>3. CASE \/ Load(w) \/ ExecutionFails(w) \/ PublishRejected(w) \/ CountChildren(w)
               \/ SettleParent(w)
      BY <2>3, OwnMoves
    <2>4. QED
      BY <1>1, <2>1, <2>2, <2>3 DEF WorkerStep, PublishUnacknowledged
  <1>2. ASSUME NEW p \in Process, Crash(p) PROVE ExecutionInv'
    BY <1>2, CrashExecution
  <1>3. QED
    BY <1>1, <1>2 DEF Work, Heartbeat, Recover

LEMMA NextExecution ==
  ASSUME ~ MayRecover, ~ MayLoseAck
  PROVE  ExecutionInv /\ [Next]_vars => ExecutionInv'
  <1> SUFFICES ASSUME ExecutionInv, [Next]_vars PROVE ExecutionInv'
    OBVIOUS
  <1>1. Shape'
    BY NextShape DEF ExecutionInv
  <1>2. CASE UNCHANGED vars
    BY <1>1, <1>2, RowsAtRest, IdleIsQuiet, QuietExecution DEF vars
  <1>3. QED
    BY <1>1, <1>2, SubmitExecution, WorkExecution, TimeExecution DEF Next

LEMMA ExecutionInvariant ==
  ASSUME ~ MayRecover, ~ MayLoseAck
  PROVE  Spec => []ExecutionInv
  BY InitExecution, NextExecution, PTL DEF Spec

(* A claim is exclusive until the run is given back, although Requeue, Fail *)
(* and SaveResult address a row by its id alone and processes may stop at   *)
(* any time.                                                                *)
THEOREM ClaimsExclusive ==
  ASSUME ~ MayRecover, ~ MayLoseAck
  PROVE  Spec => []ExclusiveExecution
  <1>1. ExecutionInv => ExclusiveExecution
    BY DEF ExecutionInv
  <1>2. QED
    BY <1>1, ExecutionInvariant, PTL

(* The run that a worker loaded after its claim had committed stays as the  *)
(* worker knows it until the worker itself writes it.                       *)
THEOREM RunsStayAsLoaded ==
  ASSUME ~ MayRecover, ~ MayLoseAck
  PROVE  Spec => []WorkersKnowTheirRun
  <1>1. ExecutionInv => WorkersKnowTheirRun
    BY DEF ExecutionInv, KnowsItsRun, WorkersKnowTheirRun
  <1>2. QED
    BY <1>1, ExecutionInvariant, PTL

(* finishFailure never gives up a retry that is due, and makes none twice.  *)
THEOREM NoRetryGivenUp ==
  ASSUME ~ MayRecover, ~ MayLoseAck
  PROVE  Spec => []RetriesExhausted
  <1>1. ExecutionInv => RetriesExhausted
    BY DEF ExecutionInv
  <1>2. QED
    BY <1>1, ExecutionInvariant, PTL

(* A run has at most one result, and has it only if it succeeded.           *)
THEOREM OneResultPerRun ==
  ASSUME ~ MayRecover, ~ MayLoseAck
  PROVE  Spec => []RunPublishesOnce
  <1>1. ExecutionInv => RunPublishesOnce
    BY DEF ExecutionInv
  <1>2. QED
    BY <1>1, ExecutionInvariant, PTL

-----------------------------------------------------------------------------
(* The life cycle of runs *)

phases == [id \in RunId |-> IF IsTemplateRun(id) THEN runs[id].state ELSE "absent"]
attempts == [id \in RunId |-> runs[id].attempt]

(* What RunLifecycle sees of a row stays as it is. *)
Unseen(id) == phases'[id] = phases[id] /\ attempts'[id] = attempts[id]

LEMMA UntouchedUnseen ==
  ASSUME ExecutionInv, NEW id \in RunId, Untouched(id)
  PROVE  Unseen(id)
  <1>1. CASE Same(id)
    BY <1>1 DEF Same, Unseen, phases, attempts, IsTemplateRun
  <1>2. CASE ParentWritten(id)
    <2>1. ~ IsTemplateRun(id) /\ ~ IsTemplateRun(id)'
      BY <1>2, StoreAssumption DEF ParentWritten, IsTemplateRun
    <2>2. runs[id].attempt = 0 /\ runs'[id].attempt = 0
      BY <1>2, <2>1 DEF ParentWritten, ExecutionInv, CardSetsUntried
    <2>3. QED
      BY <2>1, <2>2 DEF Unseen, phases, attempts
  <1>3. QED
    BY <1>1, <1>2 DEF Untouched

LEMMA AllUnseen ==
  ASSUME \A id \in RunId : Unseen(id)
  PROVE  UNCHANGED Lifecycle!vars
  <1>1. phases' = phases /\ attempts' = attempts
    BY DEF Unseen, phases, attempts
  <1>2. QED
    BY <1>1 DEF Lifecycle!vars, phases, attempts

(* One run moves from one phase to another. *)
LEMMA OneMoves ==
  ASSUME NEW id \in RunId, \A r \in RunId : r # id => Unseen(r),
         NEW from, NEW to, phases[id] = from, phases'[id] = to
  PROVE  Lifecycle!Move(id, from, to)
  <1>1. phases' = [phases EXCEPT ![id] = to]
    BY DEF Unseen, phases
  <1>2. QED
    BY <1>1 DEF Lifecycle!Move, phases

LEMMA OneKeepsAttempts ==
  ASSUME NEW id \in RunId, \A r \in RunId : r # id => Unseen(r),
         runs'[id].attempt = runs[id].attempt
  PROVE  UNCHANGED attempts
  BY DEF Unseen, attempts

(* What a step of the service does to the rows, in terms of runs. *)
LEMMA StepKinds ==
  ASSUME ~ MayRecover, ~ MayLoseAck, ExecutionInv, [Next]_vars
  PROVE  \/ \A id \in RunId : Untouched(id)
         \/ \E id \in RunId : Inserted(id) /\ UntouchedBut(id)
         \/ \E id \in RunId, w \in Worker :
              ClaimedBy(id, w) \/ PublishedBy(id, w) \/ RetriedBy(id, w) \/ FailedBy(id, w)
  <1>1. CASE Submit
    BY <1>1, SubmissionRows DEF Submit
  <1>2. CASE TimePasses
    BY <1>2, TimeLeavesRuns
  <1>3. ASSUME NEW w \in Worker, Publish(w) \/ RetryRun(w) \/ FailRun(w)
        PROVE  \E id \in RunId : PublishedBy(id, w) \/ RetriedBy(id, w) \/ FailedBy(id, w)
    <2>1. wrk[w].run \in RunId
      BY <1>3, BusyWorkerFacts DEF Publish, RetryRun, FailRun, ExecutionInv
    <2>2. QED
      BY <1>3, <2>1, PublishFacts, RetryFacts, FailFacts
  <1>4. ASSUME NEW w \in Worker, WorkerStep(w), ~ (Publish(w) \/ RetryRun(w) \/ FailRun(w))
        PROVE  \A id \in RunId : Untouched(id)
    <2>1. CASE SettleParent(w)
      BY <2>1, ParentSettled
    <2>2. CASE Load(w) \/ ExecutionFails(w) \/ PublishRejected(w) \/ CountChildren(w)
      BY <2>2, RowsAtRest DEF Load, ExecutionFails, PublishRejected, CountChildren, storeVars
    <2>3. QED
      BY <1>4, <2>1, <2>2 DEF WorkerStep, PublishUnacknowledged
  <1>5. CASE (\E p \in Process : Crash(p)) \/ UNCHANGED vars
    BY <1>5, RowsAtRest DEF Crash, storeVars, vars
  <1>6. QED
    BY <1>1, <1>2, <1>3, <1>4, <1>5, ClaimFacts DEF Next, Work, Heartbeat, Recover

LEMMA InsertionSubmits ==
  ASSUME ExecutionInv, NEW id \in RunId, Inserted(id), UntouchedBut(id)
  PROVE  [Lifecycle!Next]_(Lifecycle!vars)
  <1>1. \A r \in RunId : r # id => Unseen(r)
    BY UntouchedUnseen DEF UntouchedBut
  <1>2. phases[id] = "absent" /\ runs[id].attempt = 0 /\ runs'[id].attempt = 0
    BY StoreAssumption
    DEF Inserted, phases, ExecutionInv, CardSetsUntried, Shape, WellFormed, RowWellFormed,
        IsTemplateRun
  <1>3. CASE IsTemplateRun(id)'
    <2>1. phases'[id] = "queued"
      BY <1>3 DEF Inserted, phases
    <2>2. Lifecycle!Move(id, "absent", "queued")
      BY <1>1, <1>2, <2>1, OneMoves
    <2>3. UNCHANGED attempts
      BY <1>1, <1>2, OneKeepsAttempts
    <2>4. Lifecycle!Submit(id)
      BY <2>2, <2>3 DEF Lifecycle!Submit, attempts
    <2>5. QED
      BY <2>4 DEF Lifecycle!Next
  <1>4. CASE ~ IsTemplateRun(id)'
    <2>1. Unseen(id)
      BY <1>2, <1>4 DEF Unseen, phases, attempts
    <2>2. QED
      BY <1>1, <2>1, AllUnseen
  <1>5. QED
    BY <1>3, <1>4

LEMMA ClaimStarts ==
  ASSUME ExecutionInv, NEW id \in RunId, NEW w \in Worker, ClaimedBy(id, w)
  PROVE  Lifecycle!Start(id)
  <1>1. \A r \in RunId : r # id => Unseen(r)
    BY UntouchedUnseen DEF ClaimedBy, Untouched
  <1>2. phases[id] = "queued" /\ phases'[id] = "running"
    BY DEF ClaimedBy, phases, IsTemplateRun
  <1>3. UNCHANGED attempts
    BY <1>1, OneKeepsAttempts DEF ClaimedBy
  <1>4. QED
    BY <1>1, <1>2, <1>3, OneMoves DEF Lifecycle!Start, attempts

LEMMA ExecutionEnds ==
  ASSUME ExecutionInv, NEW id \in RunId, NEW w \in Worker,
         PublishedBy(id, w) \/ RetriedBy(id, w) \/ FailedBy(id, w)
  PROVE  Lifecycle!Retry(id) \/ Lifecycle!Finish(id)
  <1>1. EndedBy(id, w) /\ runs[id].state = "running" /\ IsTemplateRun(id)
    BY EndExecution DEF PublishedBy, RetriedBy, FailedBy
  <1>2. \A r \in RunId : r # id => Unseen(r)
    BY <1>1, UntouchedUnseen DEF EndedBy, Untouched
  <1>3. phases[id] = "running" /\ phases'[id] = runs'[id].state
    BY <1>1 DEF EndedBy, phases, IsTemplateRun
  <1>4. CASE RetriedBy(id, w)
    <2>1. Lifecycle!Move(id, "running", "queued")
      BY <1>2, <1>3, <1>4, OneMoves DEF RetriedBy
    <2>2. /\ attempts[id] < 2
          /\ attempts' = [attempts EXCEPT ![id] = attempts[id] + 1]
      BY <1>2, <1>4 DEF RetriedBy, LastAttempt, Unseen, attempts
    <2>3. Lifecycle!Retry(id)
      BY <2>1, <2>2 DEF Lifecycle!Retry, attempts
    <2>4. QED
      BY <2>3
  <1>5. CASE PublishedBy(id, w) \/ FailedBy(id, w)
    <2>1. PICK outcome \in {"succeeded", "failed"} : runs'[id].state = outcome
      BY <1>5 DEF PublishedBy, FailedBy
    <2>2. Lifecycle!Move(id, "running", outcome)
      BY <1>2, <1>3, <2>1, OneMoves
    <2>3. UNCHANGED attempts
      BY <1>2, <1>5, OneKeepsAttempts DEF PublishedBy, FailedBy
    <2>4. Lifecycle!Finish(id)
      BY <2>2, <2>3 DEF Lifecycle!Finish, attempts
    <2>5. QED
      BY <2>4
  <1>6. QED
    BY <1>4, <1>5

LEMMA LifecycleStep ==
  ASSUME ~ MayRecover, ~ MayLoseAck, ExecutionInv, [Next]_vars
  PROVE  [Lifecycle!Next]_(Lifecycle!vars)
  <1>1. CASE \A id \in RunId : Untouched(id)
    BY <1>1, UntouchedUnseen, AllUnseen
  <1>2. CASE \E id \in RunId : Inserted(id) /\ UntouchedBut(id)
    BY <1>2, InsertionSubmits
  <1>3. ASSUME NEW id \in RunId, NEW w \in Worker,
               ClaimedBy(id, w) \/ PublishedBy(id, w) \/ RetriedBy(id, w) \/ FailedBy(id, w)
        PROVE  Lifecycle!Next
    BY <1>3, ClaimStarts, ExecutionEnds DEF Lifecycle!Next
  <1>4. QED
    BY <1>1, <1>2, <1>3, StepKinds

LEMMA LifecycleBegins == Init => Lifecycle!Init
  <1> SUFFICES ASSUME Init PROVE Lifecycle!Init
    OBVIOUS
  <1>1. \A id \in RunId : /\ runs[id].state = "absent" /\ runs[id].attempt = 0
    BY DEF Init, StoreInit, AbsentRow, NewRow
  <1>2. QED
    BY <1>1 DEF Lifecycle!Init

(* Every run follows the promised life cycle: worked on by one claim at a   *)
(* time, tried at most three times, and over once it succeeded or failed.   *)
THEOREM LifecycleImplemented ==
  ASSUME ~ MayRecover, ~ MayLoseAck
  PROVE  Spec => ImplementsLifecycle
  BY LifecycleBegins, LifecycleStep, ExecutionInvariant, PTL
  DEF Spec, ImplementsLifecycle, Lifecycle!Spec

=============================================================================
