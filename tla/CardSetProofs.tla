---------------------------- MODULE CardSetProofs ----------------------------
(***************************************************************************)
(* Proofs about the status of card sets, with one ProcessOne at a time and *)
(* no crash.  Leases may be recovered and acknowledgements lost: what      *)
(* matters is that only one worker is between a child's terminal write and *)
(* the refresh of the parent.                                              *)
(***************************************************************************)
EXTENDS GenerationServiceProofs, FiniteSetTheorems

(* One process with one slot, which does not stop between two statements. *)
OneAtATime ==
  /\ ~ MayCrash
  /\ WorkerLimit = 1
  /\ \A v, w \in Worker : Host[v] = Host[w]
  /\ IsFiniteSet(Worker)

OneBusy == \A v, w \in Worker : wrk[v].pc # "idle" /\ wrk[w].pc # "idle" => v = w

(* Only runs of templates have a parent. *)
ChildrenAreTemplates == \A id \in RunId : runs[id].parent # None => runs[id].key \in Locator

(* A status that was derived from the counts still is what they give. *)
StatusFits(w) ==
  LET parent == runs[wrk[w].run].parent
  IN wrk[w].pc = "settling" /\ ChildrenSettled(parent) => wrk[w].status = ChildrenStatus(parent)

ParentAgrees(id) ==
  ~ Refreshing(id) /\ ChildrenSettled(id) => runs[id].state \in {"queued", ChildrenStatus(id)}

(* The inductive invariant.  It does not ask whether the submission of a    *)
(* parent is over: a child that is added is queued, so nothing is settled.  *)
AgreeInv ==
  /\ Shape
  /\ OneBusy
  /\ ChildrenAreTemplates
  /\ \A w \in Worker : StatusFits(w)
  /\ \A id \in RunId : ParentAgrees(id)

LEMMA InitAgree == Init => AgreeInv
  <1> SUFFICES ASSUME Init PROVE AgreeInv
    OBVIOUS
  <1>1. \A id \in RunId : runs[id].parent = None
    BY DEF Init, StoreInit, AbsentRow, NewRow
  <1>2. \A w \in Worker : wrk[w].pc = "idle"
    BY DEF Init, WorkerInit, IdleWorker
  <1>3. OneBusy /\ ChildrenAreTemplates /\ \A w \in Worker : StatusFits(w)
    BY <1>1, <1>2 DEF OneBusy, ChildrenAreTemplates, StatusFits
  <1>4. ASSUME NEW id \in RunId PROVE ParentAgrees(id)
    <2>1. Children(id) = {}
      BY <1>1, StoreAssumption DEF Children
    <2>2. QED
      BY <2>1 DEF ParentAgrees, ChildrenSettled
  <1>5. QED
    BY <1>3, <1>4, InitShape DEF AgreeInv

-----------------------------------------------------------------------------
(* What a step does to a row, and to the outcome of a parent *)

Steady(id) ==
  /\ runs'[id].key = runs[id].key
  /\ runs'[id].parent = runs[id].parent
  /\ runs'[id].state = runs[id].state

(* A row is queued or running after the step. *)
Opened(id) ==
  /\ runs'[id].key = runs[id].key
  /\ runs'[id].parent = runs[id].parent
  /\ runs'[id].state \in Active

Added(id) ==
  /\ runs[id].state = "absent" /\ runs'[id].state = "queued"
  /\ runs'[id].parent # None => runs'[id].key \in Locator

Quiet(id) == Steady(id) \/ Opened(id) \/ Added(id)

(* A row that is no child of the parent, an unfinished one, or one as before. *)
KeepsOutcome(id, parent) ==
  \/ runs[id].parent # parent /\ runs'[id].parent # parent
  \/ runs'[id].parent = parent /\ runs'[id].state \in Active
  \/ /\ runs[id].parent = parent /\ runs'[id].parent = parent
     /\ runs'[id].state = runs[id].state

LEMMA OutcomeKept ==
  ASSUME NEW p \in RunId, \A id \in RunId : KeepsOutcome(id, p), ChildrenSettled(p)'
  PROVE  ChildrenSettled(p) /\ ChildrenStatus(p)' = ChildrenStatus(p)
  <1>1. /\ Children(p)' # {}
        /\ \A id \in RunId : runs'[id].parent = p => runs'[id].state \in Settled
    BY DEF ChildrenSettled, Children
  <1>2. \A id \in RunId : /\ runs'[id].parent = p <=> runs[id].parent = p
                          /\ runs[id].parent = p => runs'[id].state = runs[id].state
    BY <1>1 DEF KeepsOutcome, Active, Settled
  <1>3. Children(p)' = Children(p)
    BY <1>2 DEF Children
  <1>4. ChildrenSettled(p)
    BY <1>1, <1>2, <1>3 DEF ChildrenSettled, Children
  <1>5. {runs'[id].state : id \in Children(p)} = {runs[id].state : id \in Children(p)}
    BY <1>2 DEF Children
  <1>6. ChildrenStatus(p)' = ChildrenStatus(p)
    BY <1>3, <1>5 DEF ChildrenStatus
  <1>7. QED
    BY <1>4, <1>6

LEMMA QuietKeepsOutcome ==
  ASSUME AgreeInv, NEW id \in RunId, Quiet(id), NEW p \in RunId
  PROVE  KeepsOutcome(id, p)
  <1>1. CASE Steady(id) \/ Opened(id)
    BY <1>1 DEF Steady, Opened, KeepsOutcome
  <1>2. CASE Added(id)
    <2>1. runs[id].parent = None
      BY <1>2, StoreAssumption
      DEF Added, AgreeInv, ChildrenAreTemplates, Shape, WellFormed, RowWellFormed
    <2>2. runs[id].parent # p
      BY <2>1, StoreAssumption
    <2>3. QED
      BY <1>2, <2>2 DEF Added, Active, KeepsOutcome
  <1>3. QED
    BY <1>1, <1>2 DEF Quiet

(* A row that has children is a card set's, which no worker runs. *)
LEMMA ParentNotRun ==
  ASSUME Shape', NEW p \in RunId, ChildrenSettled(p)'
  PROVE  runs'[p].key \in CardSet /\ runs'[p].key \notin Locator /\ runs'[p].state # "running"
  <1>1. PICK id \in RunId : runs'[id].parent = p
    BY DEF ChildrenSettled, Children
  <1>2. runs'[p].key \in CardSet
    BY <1>1, StoreAssumption DEF Shape, WellFormed, RowWellFormed
  <1>3. QED
    BY <1>2, StoreAssumption DEF Shape, WellFormed, RowWellFormed, IsTemplateRun

(* A busy worker stays with its run, and none turns to settle a parent. *)
Stays(w) ==
  /\ wrk[w].pc # "idle" => wrk'[w].pc # "idle" /\ wrk'[w].run = wrk[w].run
  /\ wrk'[w].pc = "settling" => wrk[w].pc = "settling" /\ wrk'[w].status = wrk[w].status

LEMMA BusyPcs ==
  ASSUME Shape, NEW w \in Worker
  PROVE  wrk[w].pc # "idle" <=> wrk[w].pc \in Holding \cup {"counting", "settling"}
  BY DEF Shape, TypeOK, WorkerTypeOK, WorkerState, Holding

LEMMA BusyPcsNext ==
  ASSUME Shape', NEW w \in Worker
  PROVE  wrk'[w].pc # "idle" <=> wrk'[w].pc \in Holding \cup {"counting", "settling"}
  BY DEF Shape, TypeOK, WorkerTypeOK, WorkerState, Holding

(* Steps that neither end the execution of a run nor refresh a parent. *)
LEMMA QuietAgree ==
  ASSUME AgreeInv, Shape', OneBusy', \A id \in RunId : Quiet(id), \A w \in Worker : Stays(w)
  PROVE  AgreeInv'
  <1>1. ChildrenAreTemplates'
    BY DEF AgreeInv, ChildrenAreTemplates, Quiet, Steady, Opened, Added
  <1>2. ASSUME NEW w \in Worker, wrk[w].pc # "idle"
        PROVE  /\ wrk'[w].run = wrk[w].run /\ wrk[w].run \in RunId
               /\ runs'[wrk[w].run].parent = runs[wrk[w].run].parent
    <2>1. wrk[w].run \in RunId /\ runs[wrk[w].run].state # "absent"
      BY <1>2, BusyWorkerFacts DEF AgreeInv
    <2>2. QED
      BY <1>2, <2>1 DEF Stays, Quiet, Steady, Opened, Added
  <1>3. ASSUME NEW w \in Worker, wrk'[w].pc = "settling" PROVE StatusFits(w)'
    <2>1. wrk[w].pc = "settling" /\ wrk'[w].status = wrk[w].status
      BY <1>3 DEF Stays
    <2>2. PICK p \in RunId : p = runs[wrk[w].run].parent
      BY <2>1, BusyWorkerFacts DEF AgreeInv, Shape, WellFormed, WorkerWellFormed, Row
    <2>3. runs'[wrk'[w].run].parent = p
      BY <1>2, <2>1, <2>2
    <2>4. ASSUME ChildrenSettled(p)' PROVE wrk'[w].status = ChildrenStatus(p)'
      <3>1. ChildrenSettled(p) /\ ChildrenStatus(p)' = ChildrenStatus(p)
        BY <2>4, QuietKeepsOutcome, OutcomeKept
      <3>2. wrk[w].status = ChildrenStatus(p)
        BY <2>1, <2>2, <3>1 DEF AgreeInv, StatusFits
      <3>3. QED
        BY <2>1, <3>1, <3>2
    <2>5. QED
      BY <2>3, <2>4 DEF StatusFits, ChildrenSettled, ChildrenStatus, Children
  <1>4. ASSUME NEW p \in RunId, ~ Refreshing(p)', ChildrenSettled(p)'
        PROVE  runs'[p].state \in {"queued", ChildrenStatus(p)'}
    <2>1. ChildrenSettled(p) /\ ChildrenStatus(p)' = ChildrenStatus(p)
      BY <1>4, QuietKeepsOutcome, OutcomeKept
    <2>2. ~ Refreshing(p)
      <3>1. SUFFICES ASSUME NEW w \in Worker, wrk[w].pc # "idle", runs[wrk[w].run].parent = p
                     PROVE  FALSE
        BY BusyPcs DEF Refreshing, AgreeInv
      <3>2. wrk'[w].pc # "idle" /\ runs'[wrk'[w].run].parent = p
        BY <3>1, <1>2 DEF Stays
      <3>3. QED
        BY <1>4, <3>2, BusyPcsNext DEF Refreshing
    <2>3. runs[p].state \in {"queued", ChildrenStatus(p)}
      BY <2>1, <2>2 DEF AgreeInv, ParentAgrees
    <2>4. runs'[p].state \in {runs[p].state, "queued"}
      BY <1>4, ParentNotRun DEF Quiet, Steady, Opened, Added, Active
    <2>5. QED
      BY <2>1, <2>3, <2>4
  <1>5. QED
    BY <1>1, <1>3, <1>4 DEF AgreeInv, ParentAgrees, StatusFits

LEMMA RowsRest ==
  ASSUME UNCHANGED runs
  PROVE  \A id \in RunId : Quiet(id)
  BY DEF Quiet, Steady

-----------------------------------------------------------------------------
(* Submissions *)

LEMMA SubmissionAdds ==
  ASSUME Shape, FreeIds # {}, NEW key, NEW mode, NEW parent, NEW version, NEW created,
         parent # None => key \in Locator,
         SaveRun(NewRunId, NewRow(key, mode, parent, version, created))
  PROVE  \A id \in RunId : Quiet(id)
  <1> DEFINE row == NewRow(key, mode, parent, version, created)
  <1>1. NewRunId \in RunId /\ runs[NewRunId].state = "absent"
    BY DEF FreeIds, NewRunId
  <1>2. runs \in [RunId -> Row]
    BY DEF Shape, TypeOK, StoreTypeOK
  <1>3. runs' = [runs EXCEPT ![NewRunId] = row]
    BY <1>1, <1>2 DEF SaveRun
  <1>4. runs'[NewRunId] = row /\ \A r \in RunId : r # NewRunId => runs'[r] = runs[r]
    BY <1>1, <1>2, <1>3
  <1>5. row.state = "queued" /\ row.key = key /\ row.parent = parent
    BY DEF NewRow
  <1>6. Added(NewRunId)
    BY <1>1, <1>4, <1>5 DEF Added
  <1>7. QED
    BY <1>4, <1>6 DEF Quiet, Steady

LEMMA ParentReopened ==
  ASSUME Shape, NEW s \in Submitter, ResaveParent(s)
  PROVE  \A id \in RunId : Quiet(id)
  <1> DEFINE p == sub[s].parent
  <1>1. sub[s].pc = "resaving" /\ SaveRun(p, ParentRow(s))
    BY DEF ResaveParent
  <1>2. sub[s] \in SubmissionState /\ p # None /\ runs[p].key \in CardSet
    BY <1>1, SubmissionFacts DEF FitsSubmission
  <1>3. p \in RunId /\ runs \in [RunId -> Row]
    BY <1>2 DEF SubmissionState, Shape, TypeOK, StoreTypeOK
  <1>4. runs[p] \in Row /\ runs[p].state # "absent"
    BY <1>2, <1>3, StoreAssumption DEF Shape, WellFormed, RowWellFormed
  <1>5. runs' = [runs EXCEPT ![p] =
          [runs[p] EXCEPT !.state = "queued", !.attempt = 0, !.version = 0,
                          !.failure = None, !.expired = FALSE]]
    BY <1>1, <1>4 DEF SaveRun, ParentRow, NewRow
  <1>6. Opened(p)
    BY <1>3, <1>4, <1>5 DEF Opened, Active, Row
  <1>7. \A r \in RunId : r # p => Steady(r)
    BY <1>3, <1>5 DEF Steady
  <1>8. QED
    BY <1>6, <1>7 DEF Quiet

LEMMA SubmissionQuiet ==
  ASSUME Shape, NEW s \in Submitter, Begin(s) \/ SubmitterStep(s) \/ Abandon(s)
  PROVE  \A id \in RunId : Quiet(id)
  <1>1. CASE SaveTemplateRun(s)
    BY <1>1, SubmissionAdds DEF SaveTemplateRun
  <1>2. CASE SaveParent(s)
    BY <1>2, SubmissionAdds DEF SaveParent, ParentRow
  <1>3. CASE SaveChild(s)
    <2>1. sub[s].pending \in Seq(Prepared) /\ sub[s].pending # <<>>
      BY <1>3, SubmissionFacts DEF SaveChild, SubmissionState, FitsSubmission
    <2>2. Head(sub[s].pending) \in Prepared
      BY <2>1
    <2>3. Head(sub[s].pending).locator \in Locator
      BY <2>2 DEF Prepared
    <2>4. QED
      BY <1>3, <2>3, SubmissionAdds DEF SaveChild, ChildRow
  <1>4. CASE ResaveParent(s)
    BY <1>4, ParentReopened
  <1>5. \/ Begin(s) \/ JoinRun(s) \/ MissRun(s) \/ MissCardSet(s) \/ PrepareChild(s)
        \/ ReuseCardSet(s) \/ StampParent(s) \/ StampChild(s) \/ Abandon(s)
        => UNCHANGED runs
    BY DEF Begin, BeginTemplate, BeginCardSet, JoinRun, MissRun, MissCardSet, PrepareChild,
           ReuseCardSet, StampParent, StampChild, Abandon, storeVars
  <1>6. QED
    BY <1>1, <1>2, <1>3, <1>4, <1>5, RowsRest DEF SubmitterStep

(* Steps in which no worker takes part. *)
LEMMA RowsOnly ==
  ASSUME AgreeInv, Shape', UNCHANGED wrk, \A id \in RunId : Quiet(id)
  PROVE  AgreeInv'
  <1>1. OneBusy' /\ \A w \in Worker : Stays(w)
    BY DEF AgreeInv, OneBusy, Stays
  <1>2. QED
    BY <1>1, QuietAgree

-----------------------------------------------------------------------------
(* Time, leases *)

(* The state of one row is written, or nothing the status depends on. *)
LEMMA OneRowQuiet ==
  ASSUME Shape, NEW id \in RunId, NEW row, runs' = [runs EXCEPT ![id] = row],
         row.key = runs[id].key, row.parent = runs[id].parent,
         row.state = runs[id].state \/ row.state \in Active
  PROVE  \A r \in RunId : Quiet(r)
  <1>1. runs \in [RunId -> Row]
    BY DEF Shape, TypeOK, StoreTypeOK
  <1>2. runs'[id] = row /\ \A r \in RunId : r # id => runs'[r] = runs[r]
    BY <1>1
  <1>3. QED
    BY <1>2 DEF Quiet, Steady, Opened

LEMMA TimeQuiet ==
  ASSUME Shape, TimePasses
  PROVE  UNCHANGED wrk /\ \A id \in RunId : Quiet(id)
  <1>1. runs \in [RunId -> Row]
    BY DEF Shape, TypeOK, StoreTypeOK
  <1>2. ASSUME NEW id \in RunId, RetryDue(id) PROVE \A r \in RunId : Quiet(r)
    <2> DEFINE row == [runs[id] EXCEPT !.available = TRUE]
    <2>1. runs' = [runs EXCEPT ![id] = row]
      BY <1>2 DEF RetryDue
    <2>2. row.key = runs[id].key /\ row.parent = runs[id].parent /\ row.state = runs[id].state
      BY <1>1 DEF Row
    <2>3. QED
      BY <2>1, <2>2, OneRowQuiet
  <1>3. ASSUME NEW id \in RunId, LeaseExpires(id) PROVE \A r \in RunId : Quiet(r)
    <2> DEFINE row == [runs[id] EXCEPT !.expired = TRUE]
    <2>1. runs' = [runs EXCEPT ![id] = row]
      BY <1>3 DEF LeaseExpires
    <2>2. row.key = runs[id].key /\ row.parent = runs[id].parent /\ row.state = runs[id].state
      BY <1>1 DEF Row
    <2>3. QED
      BY <2>1, <2>2, OneRowQuiet
  <1>4. CASE \E l \in Locator : ResultAges(l)
    BY <1>4, RowsRest DEF ResultAges, TimePasses
  <1>5. UNCHANGED wrk
    BY DEF TimePasses
  <1>6. \A r \in RunId : Quiet(r)
    BY <1>2, <1>3, <1>4 DEF TimePasses
  <1>7. QED
    BY <1>5, <1>6

LEMMA HeartbeatQuiet ==
  ASSUME Shape, NEW w \in Worker, Heartbeat(w)
  PROVE  \A id \in RunId : Quiet(id)
  <1> DEFINE id == wrk[w].run
             row == [runs[id] EXCEPT !.expired = FALSE]
  <1>1. id \in RunId /\ runs[id] \in Row
    BY BusyWorkerFacts DEF Heartbeat
  <1>2. runs' = [runs EXCEPT ![id] = row]
    BY DEF Heartbeat, RenewLease
  <1>3. row.key = runs[id].key /\ row.parent = runs[id].parent /\ row.state = runs[id].state
    BY <1>1 DEF Row
  <1>4. QED
    BY <1>1, <1>2, <1>3, OneRowQuiet

LEMMA RecoverQuiet ==
  ASSUME Shape, Recover
  PROVE  \A id \in RunId : Quiet(id)
  <1>1. runs \in [RunId -> Row]
    BY DEF Shape, TypeOK, StoreTypeOK
  <1>2. ASSUME NEW id \in RunId PROVE Quiet(id)
    <2>1. CASE id \in Expired
      <3>1. runs'[id] = [runs[id] EXCEPT !.state = "queued", !.owner = None, !.expired = FALSE]
        BY <2>1 DEF Recover, RecoverExpiredLeases
      <3>2. QED
        BY <1>1, <3>1 DEF Quiet, Opened, Active, Row
    <2>2. CASE id \notin Expired
      BY <2>2 DEF Recover, RecoverExpiredLeases, Quiet, Steady
    <2>3. QED
      BY <2>1, <2>2
  <1>3. QED
    BY <1>2

-----------------------------------------------------------------------------
(* Workers *)

(* The one worker that has something to do makes a step. *)
LEMMA OthersIdle ==
  ASSUME OneBusy, NEW w \in Worker, wrk[w].pc # "idle"
  PROVE  \A v \in Worker : v # w => wrk[v].pc = "idle"
  BY DEF OneBusy

LEMMA OthersStay ==
  ASSUME OneBusy, NEW w \in Worker, wrk[w].pc # "idle",
         \A v \in Worker : v # w => wrk'[v] = wrk[v]
  PROVE  /\ OneBusy'
         /\ \A v \in Worker : v # w => Stays(v) /\ wrk'[v].pc = "idle"
  BY DEF OneBusy, Stays

(* A worker claims only while it is the only one. *)
LEMMA ClaimAgree ==
  ASSUME OneAtATime, AgreeInv, Shape', NEW w \in Worker, Claim(w)
  PROVE  AgreeInv'
  <1>1. PICK id \in RunId :
          /\ ClaimRun(id, Owner(w))
          /\ wrk' = [wrk EXCEPT ![w] = [IdleWorker EXCEPT !.pc = "loading", !.run = id]]
    BY DEF Claim
  <1>2. wrk \in [Worker -> WorkerState] /\ runs \in [RunId -> Row]
    BY DEF AgreeInv, Shape, TypeOK, StoreTypeOK, WorkerTypeOK
  <1>3. Busy(Host[w]) = {}
    <2>1. IsFiniteSet(Busy(Host[w]))
      BY FS_Subset DEF OneAtATime, Busy
    <2>2. Cardinality(Busy(Host[w])) \in Nat /\ Cardinality(Busy(Host[w])) < 1
      BY <2>1, FS_CardinalityType DEF Claim, OneAtATime
    <2>3. Cardinality(Busy(Host[w])) = 0
      BY <2>2
    <2>4. QED
      BY <2>1, <2>3, FS_EmptySet
  <1>4. \A v \in Worker : wrk[v].pc = "idle"
    BY <1>3 DEF Busy, OneAtATime
  <1>5. \A v \in Worker : v # w => wrk'[v] = wrk[v]
    BY <1>1, <1>2
  <1>6. wrk'[w].pc = "loading"
    BY <1>1, <1>2 DEF IdleWorker
  <1>7. OneBusy' /\ \A v \in Worker : Stays(v)
    BY <1>4, <1>5, <1>6 DEF OneBusy, Stays
  <1>8. \A r \in RunId : Quiet(r)
    <2> DEFINE row == [runs[id] EXCEPT !.state = "running", !.owner = Owner(w), !.expired = FALSE]
    <2>1. runs' = [runs EXCEPT ![id] = row]
      BY <1>1 DEF ClaimRun
    <2>2. row.key = runs[id].key /\ row.parent = runs[id].parent /\ row.state \in Active
      BY <1>2 DEF Row, Active
    <2>3. QED
      BY <2>1, <2>2, OneRowQuiet DEF AgreeInv
  <1>9. QED
    BY <1>7, <1>8, QuietAgree

(* A run is loaded, or its execution fails. *)
LEMMA ProceedAgree ==
  ASSUME AgreeInv, Shape', NEW w \in Worker, Load(w) \/ ExecutionFails(w) \/ PublishRejected(w)
  PROVE  AgreeInv'
  <1>1. wrk \in [Worker -> WorkerState] /\ wrk[w].pc # "idle"
    BY DEF AgreeInv, Shape, TypeOK, WorkerTypeOK, Load, ExecutionFails, PublishRejected
  <1>2. /\ \A v \in Worker : v # w => wrk'[v] = wrk[v]
        /\ wrk'[w].pc \in {"executing", "failing"} /\ wrk'[w].run = wrk[w].run
    BY <1>1 DEF Load, ExecutionFails, PublishRejected, WorkerState
  <1>3. OneBusy' /\ \A v \in Worker : Stays(v)
    BY <1>1, <1>2, OthersStay DEF AgreeInv, Stays
  <1>4. \A id \in RunId : Quiet(id)
    BY RowsRest DEF Load, ExecutionFails, PublishRejected, storeVars
  <1>5. QED
    BY <1>3, <1>4, QuietAgree

(* A parent other than the one of the worker's run is not being refreshed,  *)
(* so it keeps agreeing if its children and itself are left alone.          *)
LEMMA OtherParent ==
  ASSUME AgreeInv, NEW w \in Worker, wrk[w].pc # "idle",
         NEW p \in RunId, p # runs[wrk[w].run].parent,
         \A id \in RunId : KeepsOutcome(id, p), ChildrenSettled(p)',
         runs'[p].state = runs[p].state
  PROVE  runs'[p].state \in {"queued", ChildrenStatus(p)'}
  <1>1. ChildrenSettled(p) /\ ChildrenStatus(p)' = ChildrenStatus(p)
    BY OutcomeKept
  <1>2. ~ Refreshing(p)
    BY BusyPcs DEF AgreeInv, OneBusy, Refreshing
  <1>3. QED
    BY <1>1, <1>2 DEF AgreeInv, ParentAgrees

(* A worker writes its run, and then refreshes the parent if there is one,  *)
(* unless it queued the run again.                                          *)
Ends(w) ==
  LET id == wrk[w].run
  IN /\ wrk[w].pc # "idle"
     /\ \A v \in Worker : v # w => wrk'[v] = wrk[v]
     /\ \A r \in RunId : r # id => Steady(r)
     /\ runs'[id].key = runs[id].key /\ runs'[id].parent = runs[id].parent
     /\ wrk'[w].pc # "settling"
     /\ \/ runs[id].parent = None
        \/ runs'[id].state \in Active
        \/ wrk'[w].pc # "idle" /\ wrk'[w].run = id

LEMMA EndsAgree ==
  ASSUME AgreeInv, Shape', NEW w \in Worker, Ends(w)
  PROVE  AgreeInv'
  <1> DEFINE id == wrk[w].run
  <1>1. /\ id \in RunId /\ runs[id].key \in Locator
        /\ wrk[w].pc # "idle"
    BY BusyWorkerFacts DEF Ends, AgreeInv
  <1>2. OneBusy' /\ \A v \in Worker : wrk'[v].pc # "settling"
    BY <1>1, OthersStay DEF Ends, AgreeInv
  <1>3. \A v \in Worker : StatusFits(v)'
    BY <1>2 DEF StatusFits
  <1>4. ChildrenAreTemplates'
    BY DEF Ends, Steady, AgreeInv, ChildrenAreTemplates
  <1>5. ASSUME NEW p \in RunId, ~ Refreshing(p)', ChildrenSettled(p)'
        PROVE  runs'[p].state \in {"queued", ChildrenStatus(p)'}
    <2>1. p # runs[id].parent
      <3>1. SUFFICES ASSUME p = runs[id].parent PROVE FALSE
        OBVIOUS
      <3>2. CASE runs'[id].state \in Active
        <4>1. id \in Children(p)'
          BY <1>1, <3>1 DEF Ends, Children
        <4>2. QED
          BY <1>5, <3>2, <4>1 DEF ChildrenSettled, Active, Settled
      <3>3. CASE wrk'[w].pc # "idle" /\ wrk'[w].run = id
        BY <1>5, <3>1, <3>3, BusyPcsNext DEF Refreshing, Ends
      <3>4. QED
        BY <3>1, <3>2, <3>3, StoreAssumption DEF Ends
    <2>2. \A r \in RunId : KeepsOutcome(r, p)
      BY <2>1 DEF Ends, Steady, KeepsOutcome
    <2>3. p # id
      BY <1>1, <1>5, ParentNotRun DEF Ends
    <2>4. runs'[p].state = runs[p].state
      BY <2>3 DEF Ends, Steady
    <2>5. QED
      BY <1>1, <1>5, <2>1, <2>2, <2>4, OtherParent
  <1>6. QED
    BY <1>2, <1>3, <1>4, <1>5 DEF AgreeInv, ParentAgrees

(* The row of the worker's run is written, whatever the other columns get.  *)
LEMMA OwnRowWritten ==
  ASSUME Shape, NEW w \in Worker, wrk[w].pc # "idle",
         NEW row, runs' = [runs EXCEPT ![wrk[w].run] = row],
         row.key = runs[wrk[w].run].key, row.parent = runs[wrk[w].run].parent
  PROVE  /\ \A r \in RunId : r # wrk[w].run => Steady(r)
         /\ runs'[wrk[w].run].key = runs[wrk[w].run].key
         /\ runs'[wrk[w].run].parent = runs[wrk[w].run].parent
         /\ runs'[wrk[w].run].state = row.state
  <1>1. wrk[w].run \in RunId /\ runs \in [RunId -> Row]
    BY BusyWorkerFacts
  <1>2. runs'[wrk[w].run] = row /\ \A r \in RunId : r # wrk[w].run => runs'[r] = runs[r]
    BY <1>1
  <1>3. QED
    BY <1>2 DEF Steady

LEMMA AfterSettlingRefreshes ==
  ASSUME Shape, NEW w \in Worker, wrk[w].pc # "idle", AfterSettling(w)
  PROVE  /\ \A v \in Worker : v # w => wrk'[v] = wrk[v]
         /\ wrk'[w].pc # "settling"
         /\ \/ runs[wrk[w].run].parent = None
            \/ wrk'[w].pc = "counting" /\ wrk'[w].run = wrk[w].run
  <1>1. wrk \in [Worker -> WorkerState]
    BY DEF Shape, TypeOK, WorkerTypeOK
  <1>2. CASE runs[wrk[w].run].parent = None
    BY <1>1, <1>2 DEF AfterSettling, IdleWorker
  <1>3. CASE runs[wrk[w].run].parent # None
    <2>1. wrk' = [wrk EXCEPT ![w] = [wrk[w] EXCEPT !.pc = "counting"]]
      BY <1>1, <1>3 DEF AfterSettling
    <2>2. QED
      BY <1>1, <2>1 DEF WorkerState
  <1>4. QED
    BY <1>2, <1>3

LEMMA PublishEnds ==
  ASSUME Shape, NEW w \in Worker, Publish(w) \/ PublishUnacknowledged(w)
  PROVE  Ends(w)
  <1> DEFINE id == wrk[w].run
             row == [runs[id] EXCEPT !.state = "succeeded", !.version = NextVersion(w),
                                     !.owner = None, !.expired = FALSE]
  <1>1. wrk[w].pc # "idle" /\ SaveResult(id, NextVersion(w))
    BY DEF Publish, PublishUnacknowledged
  <1>2. runs[id] \in Row /\ wrk \in [Worker -> WorkerState]
    BY <1>1, BusyWorkerFacts DEF Shape, TypeOK, WorkerTypeOK
  <1>3. runs' = [runs EXCEPT ![id] = row]
    BY <1>1 DEF SaveResult, CompleteRun
  <1>4. row.key = runs[id].key /\ row.parent = runs[id].parent
    BY <1>2 DEF Row
  <1>5. /\ \A r \in RunId : r # id => Steady(r)
        /\ runs'[id].key = runs[id].key /\ runs'[id].parent = runs[id].parent
    BY <1>1, <1>3, <1>4, OwnRowWritten
  <1>6. CASE Publish(w)
    BY <1>1, <1>5, <1>6, AfterSettlingRefreshes DEF Publish, Ends
  <1>7. CASE PublishUnacknowledged(w)
    <2>1. /\ wrk'[w].pc = "failing" /\ wrk'[w].run = id
          /\ \A v \in Worker : v # w => wrk'[v] = wrk[v]
      BY <1>2, <1>7 DEF PublishUnacknowledged, WorkerState
    <2>2. QED
      BY <1>1, <1>5, <2>1 DEF Ends
  <1>8. QED
    BY <1>6, <1>7

LEMMA RetryEnds ==
  ASSUME Shape, NEW w \in Worker, RetryRun(w)
  PROVE  Ends(w)
  <1> DEFINE id == wrk[w].run
             row == [runs[id] EXCEPT !.state = "queued", !.attempt = wrk[w].attempt + 1,
                       !.failure = wrk[w].failure, !.owner = None, !.expired = FALSE,
                       !.available = FALSE]
  <1>1. /\ wrk[w].pc # "idle" /\ runs' = [runs EXCEPT ![id] = row]
        /\ wrk' = [wrk EXCEPT ![w] = IdleWorker]
    BY DEF RetryRun, Requeue
  <1>2. runs[id] \in Row /\ wrk \in [Worker -> WorkerState]
    BY <1>1, BusyWorkerFacts DEF Shape, TypeOK, WorkerTypeOK
  <1>3. row.key = runs[id].key /\ row.parent = runs[id].parent /\ row.state = "queued"
    BY <1>2 DEF Row
  <1>4. /\ \A r \in RunId : r # id => Steady(r)
        /\ runs'[id].key = runs[id].key /\ runs'[id].parent = runs[id].parent
        /\ runs'[id].state = "queued"
    BY <1>1, <1>3, OwnRowWritten
  <1>5. wrk'[w].pc = "idle" /\ \A v \in Worker : v # w => wrk'[v] = wrk[v]
    BY <1>1, <1>2 DEF IdleWorker
  <1>6. QED
    BY <1>1, <1>4, <1>5 DEF Ends, Active

LEMMA FailEnds ==
  ASSUME Shape, NEW w \in Worker, FailRun(w)
  PROVE  Ends(w)
  <1> DEFINE id == wrk[w].run
             row == [runs[id] EXCEPT !.state = "failed", !.failure = wrk[w].failure,
                                     !.owner = None, !.expired = FALSE]
  <1>1. wrk[w].pc # "idle" /\ runs' = [runs EXCEPT ![id] = row] /\ AfterSettling(w)
    BY DEF FailRun, Fail
  <1>2. runs[id] \in Row
    BY <1>1, BusyWorkerFacts
  <1>3. row.key = runs[id].key /\ row.parent = runs[id].parent
    BY <1>2 DEF Row
  <1>4. /\ \A r \in RunId : r # id => Steady(r)
        /\ runs'[id].key = runs[id].key /\ runs'[id].parent = runs[id].parent
    BY <1>1, <1>3, OwnRowWritten
  <1>5. QED
    BY <1>1, <1>4, AfterSettlingRefreshes DEF Ends

-----------------------------------------------------------------------------
(* RefreshParentStatus *)

(* The counting query: what it derives is what the children have now.       *)
LEMMA CountAgree ==
  ASSUME AgreeInv, Shape', NEW w \in Worker, CountChildren(w)
  PROVE  AgreeInv'
  <1> DEFINE parent == runs[wrk[w].run].parent
  <1>1. UNCHANGED runs /\ wrk \in [Worker -> WorkerState] /\ wrk[w].pc = "counting"
    BY DEF CountChildren, storeVars, AgreeInv, Shape, TypeOK, WorkerTypeOK
  <1>2. /\ \A v \in Worker : v # w => wrk'[v] = wrk[v]
        /\ \/ /\ ChildrenSettled(parent) /\ wrk'[w].pc = "settling"
              /\ wrk'[w].run = wrk[w].run /\ wrk'[w].status = ChildrenStatus(parent)
           \/ ~ ChildrenSettled(parent) /\ wrk'[w].pc = "idle"
    <2>1. CASE ChildrenSettled(parent)
      BY <1>1, <2>1 DEF CountChildren, WorkerState
    <2>2. CASE ~ ChildrenSettled(parent)
      BY <1>1, <2>2 DEF CountChildren, IdleWorker
    <2>3. QED
      BY <2>1, <2>2
  <1>3. OneBusy' /\ \A v \in Worker : v # w => wrk'[v].pc = "idle"
    BY <1>1, <1>2, OthersStay DEF AgreeInv
  <1>4. ASSUME NEW v \in Worker, wrk'[v].pc = "settling" PROVE StatusFits(v)'
    <2>1. v = w /\ wrk'[w].run = wrk[w].run /\ wrk'[w].status = ChildrenStatus(parent)
      BY <1>2, <1>3, <1>4
    <2>2. PICK p \in RunId : p = parent
      BY <1>1, BusyWorkerFacts DEF AgreeInv, Shape, WellFormed, WorkerWellFormed, Row
    <2>3. runs'[wrk'[v].run].parent = p /\ wrk'[v].status = ChildrenStatus(p)
      BY <1>1, <2>1, <2>2
    <2>4. ChildrenStatus(p)' = ChildrenStatus(p)
      BY <1>1 DEF ChildrenStatus, Children
    <2>5. wrk'[v].status = ChildrenStatus(p)'
      BY <2>3, <2>4
    <2>6. QED
      BY <2>3, <2>5 DEF StatusFits, ChildrenStatus, Children
  <1>5. ASSUME NEW p \in RunId, ~ Refreshing(p)', ChildrenSettled(p)'
        PROVE  runs'[p].state \in {"queued", ChildrenStatus(p)'}
    <2>1. ChildrenSettled(p)
      BY <1>1, <1>5 DEF ChildrenSettled, Children
    <2>2. p # parent
      BY <1>1, <1>2, <1>5, <2>1 DEF Refreshing
    <2>3. \A id \in RunId : KeepsOutcome(id, p)
      BY <1>1 DEF KeepsOutcome
    <2>4. QED
      BY <1>1, <1>5, <2>2, <2>3, OtherParent
  <1>6. ChildrenAreTemplates'
    BY <1>1 DEF AgreeInv, ChildrenAreTemplates
  <1>7. QED
    BY <1>3, <1>4, <1>5, <1>6 DEF AgreeInv, ParentAgrees, StatusFits

(* The update: the counts have not changed, or a child was added meanwhile. *)
LEMMA SettleAgree ==
  ASSUME AgreeInv, Shape', NEW w \in Worker, SettleParent(w)
  PROVE  AgreeInv'
  <1>1. wrk[w].pc = "settling" /\ runs \in [RunId -> Row] /\ wrk \in [Worker -> WorkerState]
    BY DEF SettleParent, AgreeInv, Shape, TypeOK, StoreTypeOK, WorkerTypeOK
  <1>2. PICK q \in RunId : q = runs[wrk[w].run].parent
    BY <1>1, BusyWorkerFacts DEF AgreeInv, Shape, WellFormed, WorkerWellFormed, Row
  <1>3. runs' = [runs EXCEPT ![q] = [runs[q] EXCEPT !.state = wrk[w].status]]
    BY <1>2 DEF SettleParent, UpdateParent
  <1>4. /\ runs'[q].key = runs[q].key /\ runs'[q].parent = runs[q].parent
        /\ runs'[q].state = wrk[w].status
        /\ \A r \in RunId : r # q => Steady(r)
    BY <1>1, <1>3 DEF Row, Steady
  <1>5. runs[q].parent = None
    <2>1. runs[q].key \in CardSet
      BY <1>1, <1>2, StoreAssumption, BusyWorkerFacts
      DEF AgreeInv, Shape, WellFormed, RowWellFormed
    <2>2. QED
      BY <2>1, StoreAssumption DEF AgreeInv, ChildrenAreTemplates
  <1>6. \A p, r \in RunId : KeepsOutcome(r, p)
    BY <1>4, <1>5, StoreAssumption DEF Steady, KeepsOutcome
  <1>7. wrk'[w].pc = "idle" /\ \A v \in Worker : v # w => wrk'[v] = wrk[v]
    BY <1>1 DEF SettleParent, IdleWorker
  <1>8. OneBusy' /\ \A v \in Worker : wrk'[v].pc = "idle"
    BY <1>1, <1>7, OthersStay DEF AgreeInv
  <1>9. \A v \in Worker : StatusFits(v)'
    BY <1>8 DEF StatusFits
  <1>10. ASSUME NEW p \in RunId, ChildrenSettled(p)'
         PROVE  runs'[p].state \in {"queued", ChildrenStatus(p)'}
    <2>1. CASE p = q
      <3>1. ChildrenSettled(q) /\ ChildrenStatus(q)' = ChildrenStatus(q)
        BY <1>6, <1>10, <2>1, OutcomeKept
      <3>2. wrk[w].status = ChildrenStatus(q)
        BY <1>1, <1>2, <3>1 DEF AgreeInv, StatusFits
      <3>3. QED
        BY <1>4, <2>1, <3>1, <3>2
    <2>2. CASE p # q
      BY <1>1, <1>2, <1>4, <1>6, <1>10, <2>2, OtherParent DEF Steady
    <2>3. QED
      BY <2>1, <2>2
  <1>11. ChildrenAreTemplates'
    BY <1>4, <1>5 DEF AgreeInv, ChildrenAreTemplates, Steady
  <1>12. QED
    BY <1>8, <1>9, <1>10, <1>11 DEF AgreeInv, ParentAgrees

-----------------------------------------------------------------------------
(* The invariant *)

LEMMA WorkAgree ==
  ASSUME OneAtATime, AgreeInv, Shape', Work
  PROVE  AgreeInv'
  <1>1. ASSUME NEW w \in Worker, WorkerStep(w) PROVE AgreeInv'
    <2>1. CASE Load(w) \/ ExecutionFails(w) \/ PublishRejected(w)
      BY <2>1, ProceedAgree
    <2>2. CASE Publish(w) \/ PublishUnacknowledged(w) \/ RetryRun(w) \/ FailRun(w)
      BY <2>2, PublishEnds, RetryEnds, FailEnds, EndsAgree DEF AgreeInv
    <2>3. CASE CountChildren(w)
      BY <2>3, CountAgree
    <2>4. CASE SettleParent(w)
      BY <2>4, SettleAgree
    <2>5. QED
      BY <1>1, <2>1, <2>2, <2>3, <2>4 DEF WorkerStep
  <1>2. ASSUME NEW w \in Worker, Heartbeat(w) PROVE AgreeInv'
    BY <1>2, HeartbeatQuiet, RowsOnly DEF Heartbeat, AgreeInv
  <1>3. CASE Recover
    BY <1>3, RecoverQuiet, RowsOnly DEF Recover, AgreeInv
  <1>4. QED
    BY <1>1, <1>2, <1>3, ClaimAgree DEF Work, Crash, OneAtATime

LEMMA NextAgree ==
  ASSUME OneAtATime
  PROVE  AgreeInv /\ [Next]_vars => AgreeInv'
  <1> SUFFICES ASSUME AgreeInv, [Next]_vars PROVE AgreeInv'
    OBVIOUS
  <1>1. Shape'
    BY NextShape DEF AgreeInv
  <1>2. CASE Submit
    BY <1>1, <1>2, SubmissionQuiet, RowsOnly DEF Submit, AgreeInv
  <1>3. CASE TimePasses
    BY <1>1, <1>3, TimeQuiet, RowsOnly DEF AgreeInv
  <1>4. CASE UNCHANGED vars
    BY <1>1, <1>4, RowsRest, RowsOnly DEF vars
  <1>5. QED
    BY <1>1, <1>2, <1>3, <1>4, WorkAgree DEF Next

(* While one ProcessOne runs at a time and is not stopped half way, a       *)
(* settled card set that nobody is refreshing carries the status of its     *)
(* children's outcomes, or queued where its submission wrote it last.       *)
THEOREM SettledParentsAgree ==
  ASSUME OneAtATime
  PROVE  Spec => []SettledStatusAgrees
  <1>1. AgreeInv => SettledStatusAgrees
    BY DEF AgreeInv, ParentAgrees, SettledStatusAgrees
  <1>2. QED
    BY <1>1, InitAgree, NextAgree, PTL DEF Spec

=============================================================================
