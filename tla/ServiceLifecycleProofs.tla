----------------------- MODULE ServiceLifecycleProofs -----------------------
(***************************************************************************)
(* The processes implement the generation service, so every property of    *)
(* the service that survives crashes and abandoned requests survives the   *)
(* starts, faults and stops of its processes.                              *)
(***************************************************************************)
EXTENDS ServiceLifecycle, HistoryProofs, ExecutionProofs, FiniteSetTheorems

(* A process that goes down is a process. *)
LEMMA EndTyped ==
  ASSUME LifecycleTypeOK, NEW p \in Process, End(p)
  PROVE  LifecycleTypeOK'
<1>1. DownProcess(proc[p].starts) \in ProcessState
  BY DEF LifecycleTypeOK, DownProcess, ProcessState
<1>2. QED
  BY <1>1 DEF End, LifecycleTypeOK

LEMMA ProcessStepTyped ==
  ASSUME LifecycleTypeOK, NEW p \in Process, ProcessStep(p)
  PROVE  LifecycleTypeOK'
<1>0. /\ proc[p] \in ProcessState
      /\ Eligible \in Seq(CardSet)
      /\ MaxStarts \in Nat
  BY LifecycleAssumption DEF LifecycleTypeOK
<1>1. CASE Start(p)
  <2>1. proc[p].starts + 1 \in 0 .. MaxStarts
    BY <1>0, <1>1 DEF Start, Fallible, ProcessState
  <2>2. QED
    BY <1>0, <1>1, <2>1 DEF Start, DownProcess, LifecycleTypeOK, ProcessState
<1>2. CASE Listen(p) \/ Signal(p) \/ StopService(p)
  <2>1. CASE Listen(p)
    BY <1>0, <2>1 DEF Listen, LifecycleTypeOK, ProcessState
  <2>2. CASE Signal(p)
    BY <1>0, <2>2 DEF Signal, LifecycleTypeOK, ProcessState
  <2>3. CASE StopService(p)
    BY <1>0, <2>3 DEF StopService, LifecycleTypeOK, ProcessState
  <2>4. QED
    BY <1>2, <2>1, <2>2, <2>3
<1>3. CASE ListenFails(p) \/ Exit(p) \/ Kill(p)
  BY <1>3, EndTyped DEF ListenFails, Exit, Kill
<1>4. CASE LoopFails(p) \/ LoopCancelled(p)
  <2>1. CASE LoopFails(p)
    BY <1>0, <2>1 DEF LoopFails, LifecycleTypeOK, ProcessState
  <2>2. CASE LoopCancelled(p)
    BY <1>0, <2>2 DEF LoopCancelled, LifecycleTypeOK, ProcessState
  <2>3. QED
    BY <1>4, <2>1, <2>2
<1>5. CASE StartNext(p)
  <2>1. Tail(proc[p].todo) \in Seq(CardSet)
    BY <1>0, <1>5 DEF StartNext, ProcessState
  <2>2. QED
    BY <1>0, <1>5, <2>1 DEF StartNext, LifecycleTypeOK, ProcessState
<1>6. CASE ReconcilerStep(p)
  BY <1>6 DEF ReconcilerStep, LifecycleTypeOK
<1>7. CASE RoundOver(p) \/ NextRound(p)
  <2>1. CASE RoundOver(p)
    BY <1>0, <2>1 DEF RoundOver, LifecycleTypeOK, ProcessState
  <2>2. CASE NextRound(p)
    BY <1>0, <2>2 DEF NextRound, LifecycleTypeOK, ProcessState
  <2>3. QED
    BY <1>7, <2>1, <2>2
<1>8. CASE ReconcilerFails(p)
  <2>1. <<>> \in Seq(CardSet)
    OBVIOUS
  <2>2. QED
    BY <1>0, <1>8, <2>1 DEF ReconcilerFails, LifecycleTypeOK, ProcessState
<1>9. QED
  BY <1>1, <1>2, <1>3, <1>4, <1>5, <1>6, <1>7, <1>8 DEF ProcessStep

LEMMA LifecycleStepTyped ==
  ASSUME LifecycleTypeOK, [LifecycleNext]_lifecycleVars
  PROVE  LifecycleTypeOK'
<1>1. CASE \E p \in Process : ProcessStep(p)
  BY <1>1, ProcessStepTyped
<1>2. CASE UNCHANGED proc
  BY <1>2 DEF LifecycleTypeOK
<1>3. QED
  BY <1>1, <1>2 DEF LifecycleNext, lifecycleVars, LoopStep, Handle, Vanish

LEMMA LifecycleTyped == LifecycleSpec => []LifecycleTypeOK
<1>1. LifecycleInit => LifecycleTypeOK
  <2>1. DownProcess(0) \in ProcessState
    BY LifecycleAssumption DEF DownProcess, ProcessState
  <2>2. QED
    BY <2>1 DEF LifecycleInit, LifecycleTypeOK
<1>2. QED
  BY <1>1, LifecycleStepTyped, PTL DEF LifecycleSpec

(* What stops with a process is a crash of its worker, or nothing.          *)
LEMMA LoseWorkIsCrash ==
  ASSUME MayCrash, NEW p \in Process, LoseWork(p)
  PROVE  [Next]_vars
<1>1. CASE Busy(p) = {}
  BY <1>1 DEF LoseWork, vars, storeVars
<1>2. CASE Busy(p) # {}
  <2>1. Crash(p) /\ UNCHANGED sub
    BY <1>2 DEF LoseWork
  <2>2. QED
    BY <2>1 DEF Next, Work
<1>3. QED
  BY <1>1, <1>2

(* A step of one submitter is a step of the service. *)
LEMMA SubmitterMoves ==
  ASSUME NEW s \in Submitter, UNCHANGED wrk,
         Begin(s) \/ SubmitterStep(s) \/ Abandon(s)
  PROVE  Next
BY DEF Next, Submit

(* Each step of a process is a step of the service, or changes nothing there. *)
LEMMA ProcessStepRefines ==
  ASSUME MayCrash, LifecycleTypeOK, NEW p \in Process, ProcessStep(p)
  PROVE  [Next]_vars
<1>0. Reconciler[p] \in Submitter /\ "normal" \in Modes
  BY LifecycleAssumption
<1>1. CASE Start(p) \/ Listen(p) \/ Signal(p) \/ StopService(p) \/ RoundOver(p) \/ NextRound(p)
  BY <1>1 DEF Start, Listen, Signal, StopService, RoundOver, NextRound
<1>2. CASE ListenFails(p) \/ Exit(p) \/ Kill(p)
  BY <1>2, LoseWorkIsCrash DEF ListenFails, Exit, Kill, End
<1>3. CASE LoopFails(p) \/ LoopCancelled(p)
  BY <1>3, LoseWorkIsCrash DEF LoopFails, LoopCancelled
<1>4. CASE StartNext(p)
  <2>1. Head(proc[p].todo) \in CardSet
    BY <1>4 DEF StartNext, LifecycleTypeOK, ProcessState
  <2>2. UNCHANGED wrk /\ Begin(Reconciler[p])
    BY <1>0, <1>4, <2>1 DEF StartNext, Begin
  <2>3. QED
    BY <1>0, <2>2, SubmitterMoves
<1>5. CASE ReconcilerStep(p)
  BY <1>0, <1>5, SubmitterMoves DEF ReconcilerStep
<1>6. CASE ReconcilerFails(p)
  <2>1. UNCHANGED wrk /\ (UNCHANGED <<storeVars, sub>> \/ Abandon(Reconciler[p]))
    BY <1>6 DEF ReconcilerFails
  <2>2. CASE UNCHANGED <<storeVars, sub>>
    BY <2>1, <2>2 DEF vars, storeVars
  <2>3. CASE Abandon(Reconciler[p])
    BY <1>0, <2>1, <2>3, SubmitterMoves
  <2>4. QED
    BY <2>1, <2>2, <2>3
<1>7. QED
  BY <1>1, <1>2, <1>3, <1>4, <1>5, <1>6 DEF ProcessStep

LEMMA LifecycleStepRefines ==
  ASSUME MayCrash, LifecycleTypeOK, [LifecycleNext]_lifecycleVars
  PROVE  [Next]_vars
<1>1. CASE \E p \in Process : ProcessStep(p)
  BY <1>1, ProcessStepRefines
<1>2. CASE \E w \in Worker : LoopStep(w)
  BY <1>2 DEF LoopStep, Next, Work
<1>3. CASE \E s \in Submitter : Handle(s) \/ Vanish(s)
  BY <1>3, SubmitterMoves DEF Handle, Vanish
<1>4. CASE TimePasses
  BY <1>4 DEF Next
<1>5. CASE UNCHANGED lifecycleVars
  BY <1>5 DEF lifecycleVars
<1>6. QED
  BY <1>1, <1>2, <1>3, <1>4, <1>5 DEF LifecycleNext

(* Starts, faults and stops of processes add nothing to the generation       *)
(* service with crashes: what main, Service.Run and the reconciler do to the *)
(* tables and to their workers is always a step of it.                       *)
THEOREM ProcessesImplementService ==
  ASSUME MayCrash
  PROVE  LifecycleSpec => ImplementsService
<1>1. LifecycleInit => Init
  BY DEF LifecycleInit
<1>2. QED
  BY <1>1, LifecycleStepRefines, LifecycleTyped, PTL DEF LifecycleSpec, ImplementsService, Spec

(* The result history of every locator stays append-only and numbered over  *)
(* any number of processes, however they start, fail and stop.              *)
THEOREM HistorySurvivesRestarts ==
  ASSUME MayCrash
  PROVE  LifecycleSpec => ImplementsHistory
BY ProcessesImplementService, HistoryImplemented DEF ImplementsService

(* Runs keep the promised life cycle over any number of processes, however   *)
(* they start, fail and stop: a stop may strand a run but never lets one be  *)
(* worked on twice at a time, tried a fourth time or changed after its end.  *)
THEOREM LifecycleSurvivesRestarts ==
  ASSUME MayCrash, ~ MayRecover, ~ MayLoseAck
  PROVE  LifecycleSpec => ImplementsLifecycle
BY ProcessesImplementService, LifecycleImplemented DEF ImplementsService

-----------------------------------------------------------------------------
(* Rounds of the reconciler: what a round has passed, it has covered *)

(* The match of a card set needs no further submission. *)
Covered(c) ==
  \/ \E id \in RunId : runs[id].key = c
  \/ \A j \in DOMAIN Members[c] : pointers[Members[c][j]] # None

(* Submission s may still end without a run of c only because every result  *)
(* is there: a template it did not find one for has made it prepare a child. *)
Underway(s, c) ==
  /\ sub[s].pc \in {"finding", "preparing", "savingParent"}
  /\ sub[s].target = c
  /\ sub[s].pc = "preparing" =>
       \A j \in DOMAIN Members[c] :
         \/ \E k \in DOMAIN sub[s].todo : sub[s].todo[k] = Members[c][j]
         \/ sub[s].pending # <<>>
         \/ pointers[Members[c][j]] # None

(* The matches of a round are covered, being submitted, or still to come. *)
RoundCovers(p) ==
  /\ proc[p].rec = "waiting" => \A i \in DOMAIN Eligible : Covered(Eligible[i])
  /\ Alive(p) /\ proc[p].rec = "round" =>
       \A i \in DOMAIN Eligible :
         \/ Covered(Eligible[i])
         \/ Underway(Reconciler[p], Eligible[i])
         \/ \E k \in DOMAIN proc[p].todo : proc[p].todo[k] = Eligible[i]

RoundInv ==
  /\ HistoryInv
  /\ LifecycleTypeOK
  /\ \A p \in Process : RoundCovers(p)

LEMMA EligibleFacts ==
  /\ \A i \in DOMAIN Eligible : Eligible[i] \in CardSet
  /\ \A c \in CardSet : \A j \in DOMAIN Members[c] : Members[c][j] \in Locator
  BY LifecycleAssumption, SubmissionAssumption

LEMMA PointersStay ==
  ASSUME HistoryInv, [Next]_vars, NEW l \in Locator, pointers[l] # None
  PROVE  pointers'[l] # None
  <1>1. CurrentVersion(l) # 0 /\ CurrentVersion(l) \in Nat
    BY PointerVersion DEF HistoryInv
  <1>2. CurrentVersion(l)' # 0
    BY <1>1, VersionsKept
  <1>3. QED
    BY <1>2 DEF CurrentVersion

LEMMA CoveredStays ==
  ASSUME HistoryInv, [Next]_vars, NEW c \in CardSet, Covered(c)
  PROVE  Covered(c)'
  <1>1. CASE \E id \in RunId : runs[id].key = c
    <2>1. PICK id \in RunId : runs[id].key = c
      BY <1>1
    <2>2. runs[id].state # "absent"
      BY <2>1, StoreAssumption DEF HistoryInv, Shape, WellFormed, RowWellFormed
    <2>3. runs'[id].key = c
      BY <2>1, <2>2, NextReadable DEF HistoryInv, StaysReadable
    <2>4. QED
      BY <2>3 DEF Covered
  <1>2. CASE \A j \in DOMAIN Members[c] : pointers[Members[c][j]] # None
    BY <1>2, EligibleFacts, PointersStay DEF Covered
  <1>3. QED
    BY <1>1, <1>2 DEF Covered

-----------------------------------------------------------------------------
(* A submission that is under way *)

LEMMA UnderwayWaits ==
  ASSUME HistoryInv, [Next]_vars, NEW s \in Submitter, NEW c \in CardSet,
         Underway(s, c), sub'[s] = sub[s]
  PROVE  Underway(s, c)'
  BY EligibleFacts, PointersStay DEF Underway

LEMMA UnderwayBegins ==
  ASSUME HistoryInv, NEW s \in Submitter, NEW c \in CardSet, BeginCardSet(s, c, "normal")
  PROVE  Underway(s, c)'
  <1>1. sub \in [Submitter -> SubmissionState]
    BY DEF HistoryInv, Shape, TypeOK, SubmissionTypeOK
  <1>2. sub'[s].pc = "finding" /\ sub'[s].target = c
    BY <1>1 DEF BeginCardSet, IdleSubmission
  <1>3. QED
    BY <1>2 DEF Underway

(* It goes on, or ends with its match covered. *)
LEMMA UnderwayMoves ==
  ASSUME HistoryInv, [Next]_vars, NEW s \in Submitter, NEW c \in CardSet,
         Underway(s, c), SubmitterStep(s)
  PROVE  Covered(c)' \/ Underway(s, c)'
  <1>0. /\ sub \in [Submitter -> SubmissionState] /\ sub[s] \in SubmissionState
        /\ runs \in [RunId -> Row] /\ sub[s].target = c /\ c \notin Locator
    BY StoreAssumption
    DEF HistoryInv, Shape, TypeOK, SubmissionTypeOK, StoreTypeOK, Underway
  <1>1. CASE JoinRun(s)
    <2>1. PICK id \in RunId : runs[id].key = c
      BY <1>0, <1>1 DEF JoinRun, ActiveRuns
    <2>2. QED
      BY <2>1, CoveredStays DEF Covered
  <1>2. CASE MissCardSet(s)
    <2>1. /\ sub'[s].pc = "preparing" /\ sub'[s].target = c
          /\ sub'[s].todo = Members[c]
      BY <1>0, <1>2 DEF MissCardSet, SubmissionState
    <2>2. QED
      BY <2>1 DEF Underway
  <1>3. CASE PrepareChild(s)
    <2> DEFINE todo == sub[s].todo
    <2>1. /\ sub[s].pc = "preparing" /\ todo # <<>> /\ todo \in Seq(Locator)
          /\ sub[s].pending \in Seq(Prepared)
      BY <1>0, <1>3 DEF PrepareChild, SubmissionState
    <2>2. PICK prepared \in Prepared :
            /\ sub'[s].pc = "preparing" /\ sub'[s].target = c
            /\ sub'[s].todo = Tail(todo)
            /\ sub'[s].pending = IF Reusable(Head(todo), sub[s].mode) THEN sub[s].pending
                                 ELSE Append(sub[s].pending, prepared)
      <3> DEFINE prepared == [locator |-> Head(todo), version |-> CurrentVersion(Head(todo))]
      <3>1. Head(todo) \in Locator
        BY <2>1
      <3>2. prepared \in Prepared
        BY <3>1, VersionType DEF Prepared, HistoryInv
      <3>3. QED
        BY <1>0, <1>3, <3>2 DEF PrepareChild, SubmissionState
    <2>3. UNCHANGED pointers
      BY <1>3 DEF PrepareChild, storeVars
    <2>4. ASSUME NEW j \in DOMAIN Members[c]
          PROVE  \/ \E k \in DOMAIN sub'[s].todo : sub'[s].todo[k] = Members[c][j]
                 \/ sub'[s].pending # <<>>
                 \/ pointers'[Members[c][j]] # None
      <3>1. CASE \E k \in DOMAIN todo : todo[k] = Members[c][j]
        <4>1. PICK k \in DOMAIN todo : todo[k] = Members[c][j]
          BY <3>1
        <4>2. CASE k = 1
          <5>1. Head(todo) = Members[c][j]
            BY <2>1, <4>1, <4>2
          <5>2. CASE Reusable(Head(todo), sub[s].mode)
            BY <2>3, <5>1, <5>2 DEF Reusable
          <5>3. CASE ~ Reusable(Head(todo), sub[s].mode)
            <6>1. sub'[s].pending = Append(sub[s].pending, prepared)
              BY <2>2, <5>3
            <6>2. sub'[s].pending # <<>>
              BY <2>1, <6>1
            <6>3. QED
              BY <6>2
          <5>4. QED
            BY <5>2, <5>3
        <4>3. CASE k # 1
          <5>1. k - 1 \in DOMAIN Tail(todo) /\ Tail(todo)[k - 1] = todo[k]
            BY <2>1, <4>3
          <5>2. QED
            BY <2>2, <4>1, <5>1
        <4>4. QED
          BY <4>2, <4>3
      <3>2. CASE sub[s].pending # <<>>
        <4>1. Append(sub[s].pending, prepared) # <<>>
          BY <2>1
        <4>2. sub'[s].pending # <<>>
          BY <2>2, <3>2, <4>1
        <4>3. QED
          BY <4>2
      <3>3. CASE pointers[Members[c][j]] # None
        BY <2>3, <3>3
      <3>4. QED
        BY <2>1, <3>1, <3>2, <3>3 DEF Underway
    <2>5. QED
      BY <2>2, <2>4 DEF Underway
  <1>4. CASE ReuseCardSet(s)
    <2>1. \A j \in DOMAIN Members[c] : pointers[Members[c][j]] # None
      BY <1>4 DEF ReuseCardSet, Underway
    <2>2. QED
      BY <2>1, CoveredStays DEF Covered
  <1>5. CASE StampParent(s)
    <2>1. sub'[s].pc = "savingParent" /\ sub'[s].target = c
      BY <1>0, <1>5 DEF StampParent, SubmissionState
    <2>2. QED
      BY <2>1 DEF Underway
  <1>6. CASE SaveParent(s)
    <2>1. NewRunId \in RunId /\ runs[NewRunId].state = "absent"
      BY <1>6 DEF SaveParent, FreeIds, NewRunId
    <2>2. runs'[NewRunId].key = c
      BY <1>0, <1>6, <2>1 DEF SaveParent, SaveRun, ParentRow, NewRow
    <2>3. QED
      BY <2>1, <2>2 DEF Covered, NewRunId, FreeIds
  <1>7. ~ (\/ MissRun(s) \/ SaveTemplateRun(s) \/ StampChild(s) \/ SaveChild(s)
           \/ ResaveParent(s))
    BY <1>0 DEF Underway, MissRun, SaveTemplateRun, StampChild, SaveChild, ResaveParent
  <1>8. QED
    BY <1>1, <1>2, <1>3, <1>4, <1>5, <1>6, <1>7 DEF SubmitterStep

-----------------------------------------------------------------------------
(* Steps *)

(* A process that nobody moves, and whose reconciler nobody moves. *)
LEMMA RoundWaits ==
  ASSUME RoundInv, [Next]_vars, NEW p \in Process, proc'[p] = proc[p],
         sub'[Reconciler[p]] = sub[Reconciler[p]]
  PROVE  RoundCovers(p)'
  <1>1. RoundCovers(p) /\ HistoryInv /\ Reconciler[p] \in Submitter
    BY LifecycleAssumption DEF RoundInv
  <1>2. ASSUME NEW i \in DOMAIN Eligible
        PROVE  /\ Covered(Eligible[i]) => Covered(Eligible[i])'
               /\ Underway(Reconciler[p], Eligible[i]) => Underway(Reconciler[p], Eligible[i])'
    <2>1. PICK c \in CardSet : c = Eligible[i]
      BY EligibleFacts
    <2>2. PICK s \in Submitter : s = Reconciler[p]
      BY <1>1
    <2>3. Covered(c) => Covered(c)'
      BY <1>1, CoveredStays
    <2>4. Underway(s, c) => Underway(s, c)'
      BY <1>1, <2>2, UnderwayWaits
    <2>5. QED
      BY <2>1, <2>2, <2>3, <2>4
  <1>3. QED
    BY <1>1, <1>2 DEF RoundCovers, Alive, Up

(* A step that leaves the covering of process p's round to be shown. *)
LEMMA RoundStays ==
  ASSUME RoundInv, [Next]_vars, NEW p \in Process,
         proc'[p].rec = "waiting" =>
           \/ proc[p].rec = "waiting"
           \/ /\ Alive(p) /\ proc[p].rec = "round" /\ proc[p].todo = <<>>
              /\ sub[Reconciler[p]].pc = "idle",
         Alive(p)' /\ proc'[p].rec = "round" =>
           \/ proc'[p].todo = Eligible
           \/ /\ Alive(p) /\ proc[p].rec = "round" /\ proc'[p].todo = proc[p].todo
              /\ \/ sub'[Reconciler[p]] = sub[Reconciler[p]]
                 \/ SubmitterStep(Reconciler[p])
           \/ /\ Alive(p) /\ proc[p].rec = "round"
              /\ proc[p].todo # <<>> /\ proc'[p].todo = Tail(proc[p].todo)
              /\ BeginCardSet(Reconciler[p], Head(proc[p].todo), "normal")
  PROVE  RoundCovers(p)'
  <1> DEFINE s == Reconciler[p]
  <1>1. /\ RoundCovers(p) /\ HistoryInv /\ s \in Submitter
        /\ Eligible \in Seq(CardSet) /\ proc[p].todo \in Seq(CardSet)
    BY LifecycleAssumption DEF RoundInv, LifecycleTypeOK, ProcessState
  <1>2. ASSUME proc'[p].rec = "waiting", NEW i \in DOMAIN Eligible
        PROVE  Covered(Eligible[i])'
    <2>1. PICK c \in CardSet : c = Eligible[i]
      BY EligibleFacts
    <2>2. ~ (sub[s].pc = "idle" /\ Underway(s, c))
      BY DEF Underway
    <2>3. Covered(c)
      BY <1>1, <1>2, <2>1, <2>2 DEF RoundCovers
    <2>4. QED
      BY <1>1, <2>1, <2>3, CoveredStays
  <1>3. ASSUME Alive(p)', proc'[p].rec = "round", NEW i \in DOMAIN Eligible
        PROVE  \/ Covered(Eligible[i])'
               \/ Underway(s, Eligible[i])'
               \/ \E k \in DOMAIN proc'[p].todo : proc'[p].todo[k] = Eligible[i]
    <2>1. PICK c \in CardSet : c = Eligible[i]
      BY EligibleFacts
    <2>2. Covered(c) => Covered(c)'
      BY <1>1, CoveredStays
    <2>3. CASE proc'[p].todo = Eligible
      BY <2>3
    <2>4. CASE /\ Alive(p) /\ proc[p].rec = "round" /\ proc'[p].todo = proc[p].todo
               /\ sub'[s] = sub[s] \/ SubmitterStep(s)
      <3>1. Underway(s, c) => Covered(c)' \/ Underway(s, c)'
        <4>1. PICK t \in Submitter : t = s
          BY <1>1
        <4>2. Underway(t, c) => Covered(c)' \/ Underway(t, c)'
          BY <1>1, <2>4, <4>1, UnderwayWaits, UnderwayMoves
        <4>3. QED
          BY <4>1, <4>2
      <3>2. QED
        BY <1>1, <2>1, <2>2, <2>4, <3>1 DEF RoundCovers
    <2>5. CASE /\ Alive(p) /\ proc[p].rec = "round"
               /\ proc[p].todo # <<>> /\ proc'[p].todo = Tail(proc[p].todo)
               /\ BeginCardSet(s, Head(proc[p].todo), "normal")
      <3>1. ~ Underway(s, c)
        BY <2>5 DEF BeginCardSet, Underway
      <3>2. CASE \E k \in DOMAIN proc[p].todo : proc[p].todo[k] = c
        <4>1. PICK k \in DOMAIN proc[p].todo : proc[p].todo[k] = c
          BY <3>2
        <4>2. CASE k = 1
          <5>1. Head(proc[p].todo) = c
            BY <1>1, <4>1, <4>2
          <5>2. PICK t \in Submitter : t = s
            BY <1>1
          <5>3. Underway(t, c)'
            BY <1>1, <2>5, <5>1, <5>2, UnderwayBegins
          <5>4. QED
            BY <2>1, <5>2, <5>3
        <4>3. CASE k # 1
          <5>1. /\ k - 1 \in DOMAIN Tail(proc[p].todo)
                /\ Tail(proc[p].todo)[k - 1] = proc[p].todo[k]
            BY <1>1, <2>5, <4>3
          <5>2. QED
            BY <2>1, <2>5, <4>1, <5>1
        <4>4. QED
          BY <4>2, <4>3
      <3>3. QED
        BY <1>1, <2>1, <2>2, <2>5, <3>1, <3>2 DEF RoundCovers
    <2>6. QED
      BY <1>3, <2>3, <2>4, <2>5
  <1>4. QED
    BY <1>2, <1>3 DEF RoundCovers

LEMMA InitRound == LifecycleInit => RoundInv
  <1> SUFFICES ASSUME LifecycleInit PROVE RoundInv
    OBVIOUS
  <1>1. HistoryInv
    BY InitHistory DEF LifecycleInit
  <1>2. DownProcess(0) \in ProcessState /\ DownProcess(0).rec = "off"
    BY LifecycleAssumption DEF DownProcess, ProcessState
  <1>3. LifecycleTypeOK /\ \A p \in Process : RoundCovers(p)
    BY <1>2 DEF LifecycleInit, LifecycleTypeOK, RoundCovers
  <1>4. QED
    BY <1>1, <1>3 DEF RoundInv

(* A step of a submitter moves no other. *)
LEMMA OneSubmitterMoves ==
  ASSUME Shape, NEW s \in Submitter, Begin(s) \/ SubmitterStep(s) \/ Abandon(s),
         NEW t \in Submitter, t # s
  PROVE  sub'[t] = sub[t]
  <1>1. sub \in [Submitter -> SubmissionState]
    BY DEF Shape, TypeOK, SubmissionTypeOK
  <1>2. CASE Begin(s) \/ Abandon(s)
    BY <1>1, <1>2 DEF Begin, BeginTemplate, BeginCardSet, Abandon, Leave
  <1>3. CASE SubmitterStep(s)
    BY <1>1, <1>3
    DEF SubmitterStep, JoinRun, MissRun, SaveTemplateRun, MissCardSet, PrepareChild,
        ReuseCardSet, StampParent, SaveParent, StampChild, SaveChild, ResaveParent, Leave
  <1>4. QED
    BY <1>2, <1>3

(* What a process does moves no other process and no other reconciler. *)
LEMMA OneProcessMoves ==
  ASSUME Shape, LifecycleTypeOK, NEW p \in Process, ProcessStep(p),
         NEW q \in Process, q # p
  PROVE  proc'[q] = proc[q] /\ sub'[Reconciler[q]] = sub[Reconciler[q]]
  <1>1. proc \in [Process -> ProcessState] /\ Reconciler[p] # Reconciler[q]
        /\ Reconciler[p] \in Submitter /\ Reconciler[q] \in Submitter
    BY LifecycleAssumption DEF LifecycleTypeOK
  <1>2. proc'[q] = proc[q]
    BY <1>1 DEF ProcessStep, Start, Listen, ListenFails, Signal, StopService, Exit, Kill, End,
       LoopFails, LoopCancelled, StartNext, ReconcilerStep, RoundOver, NextRound, ReconcilerFails
  <1>3. CASE UNCHANGED sub
    BY <1>2, <1>3
  <1>4. CASE SubmitterStep(Reconciler[p]) \/ Abandon(Reconciler[p])
    BY <1>1, <1>2, <1>4, OneSubmitterMoves
  <1>5. CASE StartNext(p)
    <2>1. Head(proc[p].todo) \in CardSet /\ "normal" \in Modes
      BY <1>1, <1>5, LifecycleAssumption DEF StartNext, ProcessState
    <2>2. Begin(Reconciler[p])
      BY <1>5, <2>1 DEF StartNext, Begin
    <2>3. QED
      BY <1>1, <1>2, <2>2, OneSubmitterMoves
  <1>6. \/ UNCHANGED sub \/ SubmitterStep(Reconciler[p]) \/ Abandon(Reconciler[p])
        \/ StartNext(p)
    BY DEF ProcessStep, Start, Listen, ListenFails, Signal, StopService, Exit, Kill, End, LoseWork,
       LoopFails, LoopCancelled, ReconcilerStep, RoundOver, NextRound, ReconcilerFails, vars
  <1>7. QED
    BY <1>3, <1>4, <1>5, <1>6

LEMMA ProcessStepCovers ==
  ASSUME RoundInv, [Next]_vars, NEW p \in Process, ProcessStep(p)
  PROVE  RoundCovers(p)'
  <1>0. proc \in [Process -> ProcessState] /\ proc[p] \in ProcessState
    BY DEF RoundInv, LifecycleTypeOK
  <1>1. CASE Start(p) \/ NextRound(p)
    BY <1>0, <1>1, RoundStays DEF Start, NextRound, DownProcess, ProcessState
  <1>2. CASE Listen(p) \/ Signal(p) \/ StopService(p)
    <2>1. /\ proc'[p].rec = proc[p].rec /\ proc'[p].todo = proc[p].todo /\ UNCHANGED sub
          /\ Alive(p)' => Alive(p)
      <3>1. CASE Listen(p)
        BY <1>0, <3>1 DEF Listen, Alive, Up, ProcessState, vars
      <3>2. CASE Signal(p)
        BY <1>0, <3>2 DEF Signal, Alive, Up, ProcessState, vars
      <3>3. CASE StopService(p)
        BY <1>0, <3>3 DEF StopService, Alive, Up, ProcessState, vars
      <3>4. QED
        BY <1>2, <3>1, <3>2, <3>3
    <2>2. QED
      BY <2>1, RoundStays
  <1>3. CASE ListenFails(p) \/ Exit(p) \/ Kill(p)
    BY <1>0, <1>3, RoundStays DEF ListenFails, Exit, Kill, End, DownProcess
  <1>4. CASE LoopFails(p) \/ LoopCancelled(p)
    BY <1>0, <1>4, RoundStays DEF LoopFails, LoopCancelled, LoseWork, Alive, Up, ProcessState
  <1>5. CASE StartNext(p)
    BY <1>0, <1>5, RoundStays DEF StartNext, Reconciling, ProcessState
  <1>6. CASE ReconcilerStep(p)
    BY <1>0, <1>6, RoundStays DEF ReconcilerStep, Reconciling, ProcessState
  <1>7. CASE RoundOver(p)
    BY <1>0, <1>7, RoundStays DEF RoundOver, Reconciling, ProcessState
  <1>8. CASE ReconcilerFails(p)
    BY <1>0, <1>8, RoundStays DEF ReconcilerFails, ProcessState
  <1>9. QED
    BY <1>1, <1>2, <1>3, <1>4, <1>5, <1>6, <1>7, <1>8 DEF ProcessStep

(* A request that handlers or stopped processes move is not one of a round. *)
LEMMA HandlerCovers ==
  ASSUME RoundInv, [Next]_vars, NEW s \in Submitter, Handle(s) \/ Vanish(s),
         NEW p \in Process
  PROVE  RoundCovers(p)'
  <1>1. /\ Shape /\ Reconciler[p] \in Submitter /\ Home[Reconciler[p]] = p
        /\ UNCHANGED proc /\ Reconciler[p] \in Reconcilers
    BY LifecycleAssumption DEF RoundInv, HistoryInv, Handle, Vanish, Reconcilers
  <1>2. CASE s # Reconciler[p]
    <2>1. sub'[Reconciler[p]] = sub[Reconciler[p]]
      BY <1>1, <1>2, OneSubmitterMoves DEF Handle, Vanish
    <2>2. QED
      BY <1>1, <2>1, RoundWaits
  <1>3. CASE s = Reconciler[p]
    <2>1. ~ Alive(p)
      BY <1>1, <1>3 DEF Handle, Vanish
    <2>2. ~ Alive(p)'
      BY <1>1, <2>1 DEF Alive, Up
    <2>3. QED
      BY <1>1, <2>2, RoundStays
  <1>4. QED
    BY <1>2, <1>3

LEMMA NextRounds ==
  ASSUME MayCrash, RoundInv, [LifecycleNext]_lifecycleVars
  PROVE  RoundInv'
  <1>1. LifecycleTypeOK' /\ [Next]_vars
    BY LifecycleStepTyped, LifecycleStepRefines DEF RoundInv
  <1>2. HistoryInv'
    BY <1>1, NextHistory DEF RoundInv
  <1>3. ASSUME NEW q \in Process PROVE RoundCovers(q)'
    <2>1. CASE \E p \in Process : ProcessStep(p)
      <3>1. PICK p \in Process : ProcessStep(p)
        BY <2>1
      <3>2. CASE p = q
        BY <1>1, <3>1, <3>2, ProcessStepCovers
      <3>3. CASE p # q
        BY <1>1, <3>1, <3>3, OneProcessMoves, RoundWaits DEF RoundInv, HistoryInv
      <3>4. QED
        BY <3>2, <3>3
    <2>2. CASE \E s \in Submitter : Handle(s) \/ Vanish(s)
      BY <1>1, <2>2, HandlerCovers
    <2>3. CASE \/ \E w \in Worker : LoopStep(w)
               \/ TimePasses /\ UNCHANGED proc
               \/ UNCHANGED lifecycleVars
      <3>1. UNCHANGED <<sub, proc>>
        BY <2>3 DEF LoopStep, TimePasses, lifecycleVars, vars
      <3>2. QED
        BY <1>1, <3>1, RoundWaits
    <2>4. QED
      BY <2>1, <2>2, <2>3 DEF LifecycleNext
  <1>4. QED
    BY <1>1, <1>2, <1>3 DEF RoundInv

(* Between two rounds of a reconciler every match that the source listed    *)
(* has a run of its card set or all its results: joining, reusing and saving *)
(* are the only ways to leave startCardSet without the error that ends it.  *)
THEOREM RoundsSubmitAll ==
  ASSUME MayCrash
  PROVE  LifecycleSpec => []RoundSubmitsAll
  <1>1. RoundInv => RoundSubmitsAll
    BY DEF RoundInv, RoundCovers, Covered, RoundSubmitsAll
  <1>2. QED
    BY <1>1, InitRound, NextRounds, PTL DEF LifecycleSpec

-----------------------------------------------------------------------------
(* Orphans: one for each loop that has ended, at most *)

Held(id) == \E w \in Worker : wrk[w].pc \in Holding /\ wrk[w].run = id

(* A loop counts from the start of its process, and its worker works only   *)
(* while it runs.                                                           *)
LoopFits(p) ==
  /\ proc[p].loop = "running" => Up(p) /\ proc[p].starts > 0
  /\ Busy(p) # {} => proc[p].loop = "running"

OrphanInv ==
  /\ Shape
  /\ LifecycleTypeOK
  /\ \A p \in Process : LoopFits(p)
  /\ IsFiniteSet(Orphans)
  /\ OneOrphanPerStop

(* A step that strands nothing: what is worked on is held, or was an orphan. *)
StrandsNothing ==
  \A id \in RunId :
    runs'[id].state = "running" =>
      \/ Held(id)'
      \/ runs[id].state = "running" /\ ~ Held(id)

LEMMA OrphansAre ==
  Orphans = {id \in RunId : runs[id].state = "running" /\ ~ Held(id)}
  BY DEF Orphans, Held

LEMMA OrphansStay == ASSUME StrandsNothing PROVE Orphans' \subseteq Orphans
  BY OrphansAre DEF StrandsNothing, Orphans, Held

(* No row is put to work, and every worker keeps what it holds or gives it back. *)
LEMMA KeepsHolding ==
  ASSUME \A id \in RunId : runs'[id].state = "running" => runs[id].state = "running",
         \A w \in Worker : wrk[w].pc \in Holding =>
           \/ wrk'[w].pc \in Holding /\ wrk'[w].run = wrk[w].run
           \/ runs'[wrk[w].run].state # "running"
  PROVE  StrandsNothing
  BY DEF StrandsNothing, Held

(* SaveRun puts nothing to work. *)
LEMMA SavedNotRunning ==
  ASSUME Shape, NEW id \in RunId, NEW row, row.state = "queued", SaveRun(id, row)
  PROVE  \A r \in RunId : runs'[r].state = "running" => runs[r].state = "running"
  BY DEF Shape, TypeOK, StoreTypeOK, SaveRun, Row

LEMMA SubmissionStrandsNothing ==
  ASSUME Shape, NEW s \in Submitter, Begin(s) \/ SubmitterStep(s) \/ Abandon(s), UNCHANGED wrk
  PROVE  StrandsNothing
  <1>1. \A r \in RunId : runs'[r].state = "running" => runs[r].state = "running"
    <2>1. FreeIds # {} => NewRunId \in RunId
      BY DEF FreeIds, NewRunId
    <2>2. CASE SaveTemplateRun(s)
      BY <2>1, <2>2, SavedNotRunning DEF SaveTemplateRun, NewRow
    <2>3. CASE SaveParent(s)
      BY <2>1, <2>3, SavedNotRunning DEF SaveParent, ParentRow, NewRow
    <2>4. CASE SaveChild(s)
      BY <2>1, <2>4, SavedNotRunning DEF SaveChild, ChildRow, NewRow
    <2>5. CASE ResaveParent(s)
      <3>1. sub[s].parent \in RunId
        BY <2>5 DEF ResaveParent, Shape, TypeOK, SubmissionTypeOK, SubmissionState,
                    WellFormed, SubmissionWellFormed
      <3>2. QED
        BY <2>5, <3>1, SavedNotRunning DEF ResaveParent, ParentRow, NewRow
    <2>6. CASE UNCHANGED runs
      BY <2>6
    <2>7. \/ Begin(s) \/ JoinRun(s) \/ MissRun(s) \/ MissCardSet(s) \/ PrepareChild(s)
          \/ ReuseCardSet(s) \/ StampParent(s) \/ StampChild(s) \/ Abandon(s)
          => UNCHANGED runs
      BY DEF Begin, BeginTemplate, BeginCardSet, JoinRun, MissRun, MissCardSet, PrepareChild,
             ReuseCardSet, StampParent, StampChild, Abandon, storeVars, ledger
    <2>8. QED
      BY <2>2, <2>3, <2>4, <2>5, <2>6, <2>7 DEF SubmitterStep
  <1>2. QED
    BY <1>1, KeepsHolding

(* A claimed row is held by the worker that claimed it. *)
LEMMA ClaimStrandsNothing ==
  ASSUME Shape, NEW w \in Worker, Claim(w)
  PROVE  StrandsNothing
  <1>1. runs \in [RunId -> Row] /\ wrk \in [Worker -> WorkerState]
    BY DEF Shape, TypeOK, StoreTypeOK, WorkerTypeOK
  <1>2. PICK id \in RunId :
          /\ ClaimRun(id, Owner(w))
          /\ wrk' = [wrk EXCEPT ![w] = [IdleWorker EXCEPT !.pc = "loading", !.run = id]]
    BY DEF Claim
  <1>3. wrk[w].pc \notin Holding
    BY DEF Claim, Holding
  <1>4. wrk'[w].pc \in Holding /\ wrk'[w].run = id
    BY <1>1, <1>2 DEF IdleWorker, Holding
  <1>5. \A v \in Worker : v # w => wrk'[v] = wrk[v]
    BY <1>1, <1>2
  <1>6. \A r \in RunId : r # id => runs'[r] = runs[r]
    BY <1>1, <1>2 DEF ClaimRun
  <1>7. QED
    BY <1>3, <1>4, <1>5, <1>6 DEF StrandsNothing, Held

(* A worker that ends its work on a run leaves it in another state. *)
LEMMA WorkerStrandsNothing ==
  ASSUME Shape, NEW w \in Worker, WorkerStep(w)
  PROVE  StrandsNothing
  <1>1. runs \in [RunId -> Row] /\ wrk \in [Worker -> WorkerState]
    BY DEF Shape, TypeOK, StoreTypeOK, WorkerTypeOK
  <1>2. wrk[w].pc # "idle"
    BY DEF WorkerStep, Load, ExecutionFails, Publish, PublishRejected, PublishUnacknowledged,
           RetryRun, FailRun, CountChildren, SettleParent
  <1>3. wrk[w].run \in RunId
    BY <1>2, BusyWorkerFacts
  <1>4. \A v \in Worker : v # w => wrk'[v] = wrk[v]
    BY <1>1 DEF WorkerStep, Load, ExecutionFails, Publish, PublishRejected, PublishUnacknowledged,
           RetryRun, FailRun, CountChildren, SettleParent, AfterSettling
  <1>5. CASE Load(w) \/ ExecutionFails(w) \/ PublishRejected(w)
    <2>1. UNCHANGED runs
      BY <1>5 DEF Load, ExecutionFails, PublishRejected, storeVars
    <2>2. wrk'[w].pc \in Holding /\ wrk'[w].run = wrk[w].run
      <3>1. CASE Load(w)
        BY <1>1, <3>1 DEF Load, WorkerState, Holding
      <3>2. CASE ExecutionFails(w) \/ PublishRejected(w)
        BY <1>1, <3>2 DEF ExecutionFails, PublishRejected, WorkerState, Holding
      <3>3. QED
        BY <1>5, <3>1, <3>2
    <2>3. QED
      BY <1>4, <2>1, <2>2, KeepsHolding
  <1>6. CASE Publish(w) \/ PublishUnacknowledged(w) \/ RetryRun(w) \/ FailRun(w)
    <2>1. /\ runs'[wrk[w].run].state # "running"
          /\ \A r \in RunId : r # wrk[w].run => runs'[r] = runs[r]
      <3>1. CASE Publish(w) \/ PublishUnacknowledged(w)
        BY <1>1, <1>3, <3>1 DEF Publish, PublishUnacknowledged, SaveResult, CompleteRun, Row
      <3>2. CASE RetryRun(w)
        BY <1>1, <1>3, <3>2 DEF RetryRun, Requeue, Row
      <3>3. CASE FailRun(w)
        BY <1>1, <1>3, <3>3 DEF FailRun, Fail, Row
      <3>4. QED
        BY <1>6, <3>1, <3>2, <3>3
    <2>2. QED
      BY <1>4, <2>1, KeepsHolding
  <1>7. CASE CountChildren(w) \/ SettleParent(w)
    <2>1. wrk[w].pc \notin Holding
      BY <1>7 DEF CountChildren, SettleParent, Holding
    <2>2. \A r \in RunId : runs'[r].state = "running" => runs[r].state = "running"
      <3>1. CASE CountChildren(w)
        BY <3>1 DEF CountChildren, storeVars
      <3>2. CASE SettleParent(w)
        <4>1. wrk[w].status # "running"
          BY <3>2 DEF SettleParent, Shape, WellFormed, WorkerWellFormed, ParentOutcome, Settled
        <4>2. QED
          BY <1>1, <3>2, <4>1 DEF SettleParent, UpdateParent, Row
      <3>3. QED
        BY <1>7, <3>1, <3>2
    <2>3. QED
      BY <1>4, <2>1, <2>2, KeepsHolding
  <1>8. QED
    BY <1>5, <1>6, <1>7 DEF WorkerStep

LEMMA TimeStrandsNothing ==
  ASSUME Shape, TimePasses
  PROVE  StrandsNothing
  <1>1. runs \in [RunId -> Row] /\ UNCHANGED wrk
    BY DEF Shape, TypeOK, StoreTypeOK, TimePasses
  <1>2. \A r \in RunId : runs'[r].state = "running" => runs[r].state = "running"
    BY <1>1 DEF TimePasses, RetryDue, LeaseExpires, ResultAges, Row
  <1>3. QED
    BY <1>1, <1>2, KeepsHolding

-----------------------------------------------------------------------------
(* What the loops that ended become *)

LEMMA StopsType ==
  ASSUME LifecycleTypeOK, NEW p \in Process, LoopFits(p)
  PROVE  Stops(p) \in Nat /\ Stops(p) <= MaxStarts
  <1>1. proc[p].starts \in 0 .. MaxStarts /\ MaxStarts \in Nat
    BY LifecycleAssumption DEF LifecycleTypeOK, ProcessState
  <1>2. QED
    BY <1>1 DEF Stops, LoopFits

LEMMA EndedLoopsFinite == IsFiniteSet(EndedLoops) /\ IsFiniteSet(EndedLoops')
  <1>1. IsFiniteSet(Process \X (1 .. MaxStarts))
    <2>1. IsFiniteSet(Process) /\ MaxStarts \in Int
      BY LifecycleAssumption
    <2>2. IsFiniteSet(1 .. MaxStarts)
      BY <2>1, FS_Interval
    <2>3. QED
      BY <2>1, <2>2, FS_Product
  <1>2. EndedLoops \subseteq Process \X (1 .. MaxStarts)
        /\ EndedLoops' \subseteq Process \X (1 .. MaxStarts)
    BY DEF EndedLoops
  <1>3. QED
    BY <1>1, <1>2, FS_Subset

(* No loop begins to run again once it has ended. *)
LEMMA EndedLoopsStay ==
  ASSUME LifecycleTypeOK, \A p \in Process : LoopFits(p),
         LifecycleTypeOK', \A p \in Process : LoopFits(p)',
         \A p \in Process : Stops(p) <= Stops(p)'
  PROVE  EndedLoops \subseteq EndedLoops'
  <1>1. ASSUME NEW loop \in EndedLoops PROVE loop \in EndedLoops'
    <2>1. /\ loop \in Process \X (1 .. MaxStarts) /\ loop[1] \in Process
          /\ loop[2] \in Nat /\ loop[2] <= Stops(loop[1])
      BY DEF EndedLoops
    <2>2. Stops(loop[1]) \in Nat
      BY <2>1, StopsType
    <2>3. Stops(loop[1])' \in Nat /\ Stops(loop[1]) <= Stops(loop[1])'
      <3>1. PICK p \in Process : p = loop[1]
        BY <2>1
      <3>2. /\ proc'[p].starts \in 0 .. MaxStarts /\ MaxStarts \in Nat
            /\ proc'[p].loop = "running" => proc'[p].starts > 0
        BY LifecycleAssumption DEF LifecycleTypeOK, ProcessState, LoopFits
      <3>3. Stops(p)' \in Nat
        BY <3>2 DEF Stops
      <3>4. Stops(p) <= Stops(p)'
        OBVIOUS
      <3>5. QED
        BY <3>1, <3>3, <3>4 DEF Stops
    <2>4. loop[2] <= Stops(loop[1])'
      BY <2>1, <2>2, <2>3
    <2>5. QED
      BY <2>1, <2>4 DEF EndedLoops
  <1>2. QED
    BY <1>1

(* A step that strands nothing keeps the bound. *)
LEMMA BoundStays ==
  ASSUME OrphanInv, LifecycleTypeOK', \A p \in Process : LoopFits(p)',
         \A p \in Process : Stops(p) <= Stops(p)', StrandsNothing
  PROVE  IsFiniteSet(Orphans') /\ OneOrphanPerStop'
  <1>1. IsFiniteSet(Orphans') /\ Cardinality(Orphans') <= Cardinality(Orphans)
    BY OrphansStay, FS_Subset DEF OrphanInv
  <1>2. Cardinality(EndedLoops) <= Cardinality(EndedLoops')
    BY EndedLoopsStay, EndedLoopsFinite, FS_Subset DEF OrphanInv
  <1>3. /\ Cardinality(Orphans) \in Nat /\ Cardinality(Orphans') \in Nat
        /\ Cardinality(EndedLoops) \in Nat /\ Cardinality(EndedLoops') \in Nat
    BY <1>1, EndedLoopsFinite, FS_CardinalityType DEF OrphanInv
  <1>4. QED
    BY <1>1, <1>2, <1>3 DEF OrphanInv, OneOrphanPerStop

(* What stops with a process is all its worker has to do, and nothing else. *)
LEMMA LoseWorkFacts ==
  ASSUME NEW p \in Process, LoseWork(p)
  PROVE  /\ UNCHANGED <<runs, sub>>
         /\ Busy(p)' = {}
         /\ \A w \in Worker : Host[w] # p => wrk'[w] = wrk[w]
         /\ \A q \in Process : q # p => Busy(q)' = Busy(q)
  <1>1. CASE Busy(p) = {}
    BY <1>1 DEF LoseWork, storeVars, Busy
  <1>2. CASE Busy(p) # {}
    <2>1. /\ UNCHANGED <<runs, sub>>
          /\ wrk' = [w \in Worker |-> IF Host[w] = p THEN IdleWorker ELSE wrk[w]]
      BY <1>2 DEF LoseWork, Crash, storeVars
    <2>2. QED
      BY <2>1, IdleWorkerType DEF Busy
  <1>3. QED
    BY <1>1, <1>2

(* The end of a loop strands the run that its worker held, if it held one. *)
LEMMA LoopEndStrandsOne ==
  ASSUME OrphanInv, LifecycleTypeOK', \A q \in Process : LoopFits(q)',
         NEW p \in Process, LoseWork(p),
         proc'[p].loop # "running", proc'[p].starts = proc[p].starts,
         \A q \in Process : q # p => proc'[q] = proc[q]
  PROVE  IsFiniteSet(Orphans') /\ OneOrphanPerStop'
  <1>1. \A q \in Process : proc[q].starts \in 0 .. MaxStarts /\ MaxStarts \in Nat
    BY LifecycleAssumption DEF OrphanInv, LifecycleTypeOK, ProcessState
  <1>2. \A q \in Process : Stops(q) <= Stops(q)'
    BY <1>1 DEF Stops
  <1>3. CASE Busy(p) = {}
    <2>1. UNCHANGED <<runs, wrk>>
      BY <1>3 DEF LoseWork, storeVars
    <2>2. StrandsNothing
      BY <2>1, KeepsHolding
    <2>3. QED
      BY <1>2, <2>2, BoundStays
  <1>4. CASE Busy(p) # {}
    <2>1. PICK w \in Worker : w \in Busy(p) /\ Host[w] = p
      BY <1>4 DEF Busy
    <2>2. proc[p].loop = "running" /\ proc[p].starts > 0
      BY <1>4 DEF OrphanInv, LoopFits
    <2>3. \A v \in Worker : v # w => wrk'[v] = wrk[v]
      BY <2>1, LoseWorkFacts, LifecycleAssumption
    <2>4. Orphans' \subseteq Orphans \cup {wrk[w].run}
      BY <2>3, LoseWorkFacts DEF Orphans
    <2> DEFINE loop == <<p, proc[p].starts>>
    <2>5. loop \notin EndedLoops
      <3>1. Stops(p) = proc[p].starts - 1
        BY <2>2 DEF Stops
      <3>2. ~ (loop[2] <= Stops(loop[1]))
        BY <1>1, <3>1
      <3>3. QED
        BY <3>2 DEF EndedLoops
    <2>6. loop \in EndedLoops'
      <3>1. Stops(p)' = proc[p].starts
        BY <1>1 DEF Stops
      <3>2. loop \in Process \X (1 .. MaxStarts)
        BY <1>1, <2>2
      <3>3. QED
        BY <1>1, <3>1, <3>2 DEF EndedLoops, Stops
    <2>7. EndedLoops \cup {loop} \subseteq EndedLoops'
      BY <1>2, <2>6, EndedLoopsStay DEF OrphanInv
    <2>8. /\ IsFiniteSet(EndedLoops) /\ IsFiniteSet(EndedLoops')
          /\ IsFiniteSet(EndedLoops \cup {loop})
          /\ Cardinality(EndedLoops \cup {loop}) = Cardinality(EndedLoops) + 1
      BY <2>5, EndedLoopsFinite, FS_AddElement
    <2>9. Cardinality(EndedLoops) + 1 <= Cardinality(EndedLoops')
      BY <2>7, <2>8, FS_Subset
    <2>10. /\ IsFiniteSet(Orphans \cup {wrk[w].run})
           /\ Cardinality(Orphans \cup {wrk[w].run}) <= Cardinality(Orphans) + 1
      <3>1. IsFiniteSet(Orphans)
        BY DEF OrphanInv
      <3>2. Cardinality(Orphans) \in Nat
        BY <3>1, FS_CardinalityType
      <3>3. /\ IsFiniteSet(Orphans \cup {wrk[w].run})
            /\ Cardinality(Orphans \cup {wrk[w].run}) =
                 IF wrk[w].run \in Orphans THEN Cardinality(Orphans)
                                           ELSE Cardinality(Orphans) + 1
        BY <3>1, FS_AddElement
      <3>4. QED
        BY <3>2, <3>3
    <2>11. /\ IsFiniteSet(Orphans')
           /\ Cardinality(Orphans') <= Cardinality(Orphans \cup {wrk[w].run})
      BY <2>4, <2>10, FS_Subset
    <2>12. /\ Cardinality(Orphans) \in Nat /\ Cardinality(Orphans') \in Nat
           /\ Cardinality(Orphans \cup {wrk[w].run}) \in Nat
           /\ Cardinality(EndedLoops) \in Nat /\ Cardinality(EndedLoops') \in Nat
      BY <2>8, <2>10, <2>11, FS_CardinalityType DEF OrphanInv
    <2>13. QED
      BY <2>9, <2>10, <2>11, <2>12 DEF OrphanInv, OneOrphanPerStop
  <1>5. QED
    BY <1>3, <1>4

-----------------------------------------------------------------------------
(* Steps *)

(* A loop that goes on, or has ended, as it did. *)
LEMMA LoopRests ==
  ASSUME NEW q \in Process, LoopFits(q), Up(q) => Up(q)',
         proc'[q].loop = proc[q].loop, proc'[q].starts = proc[q].starts,
         Busy(q)' \subseteq Busy(q)
  PROVE  LoopFits(q)' /\ Stops(q)' = Stops(q)
  BY DEF LoopFits, Stops

(* The process whose loop ends, and the others. *)
LEMMA LoopEnds ==
  ASSUME OrphanInv, Shape', LifecycleTypeOK', NEW p \in Process, LoseWork(p),
         proc'[p].loop # "running", proc'[p].starts = proc[p].starts,
         \A q \in Process : q # p => proc'[q] = proc[q]
  PROVE  OrphanInv'
  <1>1. \A q \in Process : LoopFits(q)'
    <2>1. LoopFits(p)'
      BY LoseWorkFacts DEF LoopFits
    <2>2. ASSUME NEW q \in Process, q # p PROVE LoopFits(q)'
      BY <2>2, LoseWorkFacts, LoopRests DEF OrphanInv, Up
    <2>3. QED
      BY <2>1, <2>2
  <1>2. QED
    BY <1>1, LoopEndStrandsOne DEF OrphanInv

(* Steps that move no loop and no worker. *)
LEMMA LoopsRest ==
  ASSUME OrphanInv, LifecycleTypeOK', Shape', UNCHANGED wrk, StrandsNothing,
         \A q \in Process : /\ Up(q) => Up(q)'
                            /\ proc'[q].loop = proc[q].loop
                            /\ proc'[q].starts = proc[q].starts
  PROVE  OrphanInv'
  <1>1. \A q \in Process : Busy(q)' = Busy(q)
    BY DEF Busy
  <1>2. \A q \in Process : LoopFits(q)' /\ Stops(q)' = Stops(q)
    BY <1>1, LoopRests DEF OrphanInv
  <1>3. \A q \in Process : Stops(q) <= Stops(q)'
    BY <1>2, StopsType DEF OrphanInv
  <1>4. QED
    BY <1>2, <1>3, BoundStays DEF OrphanInv

LEMMA ProcessStepOrphans ==
  ASSUME OrphanInv, Shape', LifecycleTypeOK', NEW p \in Process, ProcessStep(p)
  PROVE  OrphanInv'
  <1>0. /\ proc \in [Process -> ProcessState] /\ proc[p] \in ProcessState
        /\ Reconciler[p] \in Submitter
    BY LifecycleAssumption DEF OrphanInv, LifecycleTypeOK
  <1>1. CASE Start(p)
    <2>1. /\ proc'[p].main # "down" /\ proc'[p].loop = "running"
          /\ proc'[p].starts = proc[p].starts + 1
          /\ \A q \in Process : q # p => proc'[q] = proc[q]
      BY <1>0, <1>1 DEF Start, DownProcess, ProcessState
    <2>2. UNCHANGED <<runs, wrk>> /\ proc[p].loop # "running"
      BY <1>1 DEF Start, vars, OrphanInv, LoopFits
    <2>3. LoopFits(p)' /\ Stops(p) <= Stops(p)'
      BY <1>0, <2>1, <2>2 DEF LoopFits, Up, Stops, ProcessState
    <2>4. ASSUME NEW q \in Process, q # p
          PROVE  LoopFits(q)' /\ Stops(q) <= Stops(q)'
      <3>1. LoopFits(q)' /\ Stops(q)' = Stops(q)
        BY <2>1, <2>2, <2>4, LoopRests DEF OrphanInv, Up, Busy
      <3>2. QED
        BY <3>1, StopsType DEF OrphanInv
    <2>5. StrandsNothing
      BY <2>2, KeepsHolding
    <2>6. \A q \in Process : LoopFits(q)' /\ Stops(q) <= Stops(q)'
      BY <2>3, <2>4
    <2>7. QED
      BY <2>5, <2>6, BoundStays DEF OrphanInv
  <1>2. CASE Listen(p) \/ Signal(p) \/ RoundOver(p) \/ NextRound(p)
    <2>1. /\ proc'[p].loop = proc[p].loop /\ proc'[p].starts = proc[p].starts
          /\ Up(p) => Up(p)'
          /\ \A q \in Process : q # p => proc'[q] = proc[q]
      <3>1. CASE Listen(p)
        BY <1>0, <3>1 DEF Listen, Up, ProcessState
      <3>2. CASE Signal(p)
        BY <1>0, <3>2 DEF Signal, Up, ProcessState
      <3>3. CASE RoundOver(p)
        BY <1>0, <3>3 DEF RoundOver, Up, ProcessState
      <3>4. CASE NextRound(p)
        BY <1>0, <3>4 DEF NextRound, Up, ProcessState
      <3>5. QED
        BY <1>2, <3>1, <3>2, <3>3, <3>4
    <2>2. UNCHANGED <<runs, wrk>>
      BY <1>2 DEF Listen, Signal, RoundOver, NextRound, vars
    <2>3. StrandsNothing
      BY <2>2, KeepsHolding
    <2>4. QED
      BY <2>1, <2>2, <2>3, LoopsRest DEF Up
  <1>3. CASE StopService(p)
    <2>1. /\ proc'[p].loop = "done" /\ proc'[p].starts = proc[p].starts
          /\ \A q \in Process : q # p => proc'[q] = proc[q]
      BY <1>0, <1>3 DEF StopService, ProcessState
    <2>2. UNCHANGED <<storeVars, wrk, sub>> /\ Busy(p) = {}
      BY <1>3 DEF StopService, vars, storeVars, OrphanInv, LoopFits
    <2>3. LoseWork(p)
      BY <2>2 DEF LoseWork
    <2>4. QED
      BY <2>1, <2>3, LoopEnds
  <1>4. CASE ListenFails(p) \/ Exit(p) \/ Kill(p)
    <2>1. LoseWork(p) /\ proc' = [proc EXCEPT ![p] = DownProcess(proc[p].starts)]
      BY <1>4 DEF ListenFails, Exit, Kill, End
    <2>2. /\ proc'[p].loop # "running" /\ proc'[p].starts = proc[p].starts
          /\ \A q \in Process : q # p => proc'[q] = proc[q]
      BY <1>0, <2>1 DEF DownProcess
    <2>3. QED
      BY <2>1, <2>2, LoopEnds
  <1>5. CASE LoopFails(p) \/ LoopCancelled(p)
    <2>1. LoseWork(p)
      BY <1>5 DEF LoopFails, LoopCancelled
    <2>2. /\ proc'[p].loop # "running" /\ proc'[p].starts = proc[p].starts
          /\ \A q \in Process : q # p => proc'[q] = proc[q]
      BY <1>0, <1>5 DEF LoopFails, LoopCancelled, ProcessState
    <2>3. QED
      BY <2>1, <2>2, LoopEnds
  <1>6. CASE StartNext(p) \/ ReconcilerStep(p) \/ ReconcilerFails(p)
    <2>1. /\ proc'[p].loop = proc[p].loop /\ proc'[p].starts = proc[p].starts
          /\ Up(p) => Up(p)'
          /\ \A q \in Process : q # p => proc'[q] = proc[q]
      <3>1. CASE StartNext(p)
        BY <1>0, <3>1 DEF StartNext, Up, ProcessState
      <3>2. CASE ReconcilerStep(p)
        BY <1>0, <3>2 DEF ReconcilerStep, Up, ProcessState
      <3>3. CASE ReconcilerFails(p)
        BY <1>0, <3>3 DEF ReconcilerFails, Up, ProcessState
      <3>4. QED
        BY <1>6, <3>1, <3>2, <3>3
    <2>2. UNCHANGED wrk
      BY <1>6 DEF StartNext, ReconcilerStep, ReconcilerFails
    <2>3. StrandsNothing
      <3>1. CASE UNCHANGED runs
        BY <2>2, <3>1, KeepsHolding
      <3>2. CASE SubmitterStep(Reconciler[p]) \/ Abandon(Reconciler[p])
        BY <1>0, <2>2, <3>2, SubmissionStrandsNothing DEF OrphanInv
      <3>3. UNCHANGED runs \/ SubmitterStep(Reconciler[p]) \/ Abandon(Reconciler[p])
        BY <1>6 DEF StartNext, BeginCardSet, ReconcilerStep, ReconcilerFails, storeVars
      <3>4. QED
        BY <3>1, <3>2, <3>3
    <2>4. QED
      BY <2>1, <2>2, <2>3, LoopsRest DEF Up
  <1>7. QED
    BY <1>1, <1>2, <1>3, <1>4, <1>5, <1>6 DEF ProcessStep

(* A worker works while its loop runs. *)
LEMMA LoopStepOrphans ==
  ASSUME OrphanInv, Shape', LifecycleTypeOK', NEW w \in Worker, LoopStep(w)
  PROVE  OrphanInv'
  <1>1. /\ UNCHANGED proc /\ proc[Host[w]].loop = "running" /\ Host[w] \in Process
        /\ Claim(w) \/ WorkerStep(w)
    BY WorkerAssumption DEF LoopStep, Looping
  <1>2. StrandsNothing
    BY <1>1, ClaimStrandsNothing, WorkerStrandsNothing DEF OrphanInv
  <1>3. \A v \in Worker : v # w => wrk'[v] = wrk[v]
    <2>1. wrk \in [Worker -> WorkerState]
      BY DEF OrphanInv, Shape, TypeOK, WorkerTypeOK
    <2>2. QED
      BY <1>1, <2>1
      DEF Claim, WorkerStep, Load, ExecutionFails, Publish, PublishRejected,
          PublishUnacknowledged, RetryRun, FailRun, CountChildren, SettleParent, AfterSettling
  <1>4. ASSUME NEW q \in Process PROVE LoopFits(q)' /\ Stops(q) <= Stops(q)'
    <2>1. Stops(q)' = Stops(q) /\ Stops(q) \in Nat
      BY <1>1, StopsType DEF OrphanInv, Stops
    <2>2. CASE q = Host[w]
      BY <1>1, <2>1, <2>2 DEF OrphanInv, LoopFits, Up
    <2>3. CASE q # Host[w]
      <3>1. Busy(q)' \subseteq Busy(q)
        BY <1>3, <2>3 DEF Busy
      <3>2. QED
        BY <1>1, <2>1, <3>1 DEF OrphanInv, LoopFits, Up
    <2>4. QED
      BY <2>2, <2>3
  <1>5. QED
    BY <1>2, <1>4, BoundStays DEF OrphanInv

LEMMA NextOrphans ==
  ASSUME MayCrash, OrphanInv, [LifecycleNext]_lifecycleVars
  PROVE  OrphanInv'
  <1>1. LifecycleTypeOK' /\ Shape'
    BY LifecycleStepTyped, LifecycleStepRefines, NextShape DEF OrphanInv
  <1>2. CASE \E p \in Process : ProcessStep(p)
    BY <1>1, <1>2, ProcessStepOrphans
  <1>3. CASE \E w \in Worker : LoopStep(w)
    BY <1>1, <1>3, LoopStepOrphans
  <1>4. CASE \/ \E s \in Submitter : Handle(s) \/ Vanish(s)
             \/ TimePasses /\ UNCHANGED proc
             \/ UNCHANGED lifecycleVars
    <2>1. UNCHANGED <<wrk, proc>>
      BY <1>4 DEF Handle, Vanish, TimePasses, lifecycleVars, vars
    <2>2. StrandsNothing
      <3>1. CASE \E s \in Submitter : Handle(s) \/ Vanish(s)
        BY <2>1, <3>1, SubmissionStrandsNothing DEF Handle, Vanish, OrphanInv
      <3>2. CASE TimePasses
        BY <3>2, TimeStrandsNothing DEF OrphanInv
      <3>3. CASE UNCHANGED lifecycleVars
        BY <3>3, KeepsHolding DEF lifecycleVars, vars
      <3>4. QED
        BY <1>4, <3>1, <3>2, <3>3
    <2>3. QED
      BY <1>1, <2>1, <2>2, LoopsRest DEF Up
  <1>5. QED
    BY <1>2, <1>3, <1>4 DEF LifecycleNext

LEMMA InitOrphans == LifecycleInit => OrphanInv
  <1> SUFFICES ASSUME LifecycleInit PROVE OrphanInv
    OBVIOUS
  <1>1. Shape
    BY InitShape DEF LifecycleInit
  <1>2. DownProcess(0) \in ProcessState /\ DownProcess(0).loop = "off"
    BY LifecycleAssumption DEF DownProcess, ProcessState
  <1>3. LifecycleTypeOK /\ \A p \in Process : proc[p].loop = "off"
    BY <1>2 DEF LifecycleInit, LifecycleTypeOK
  <1>4. \A p \in Process : LoopFits(p)
    <2>1. \A p \in Process : Busy(p) = {}
      BY DEF LifecycleInit, Init, WorkerInit, IdleWorker, Busy
    <2>2. QED
      BY <1>3, <2>1 DEF LoopFits
  <1>5. Orphans = {}
    BY DEF LifecycleInit, Init, StoreInit, AbsentRow, NewRow, Orphans
  <1>6. IsFiniteSet(Orphans) /\ Cardinality(Orphans) = 0
    BY <1>5, FS_EmptySet
  <1>7. Cardinality(EndedLoops) \in Nat
    BY EndedLoopsFinite, FS_CardinalityType
  <1>8. QED
    BY <1>1, <1>3, <1>4, <1>6, <1>7 DEF OrphanInv, OneOrphanPerStop

(* However often processes start, fail and stop, the runs that nobody works  *)
(* on any more are at most as many as the loops that ended: a loop that      *)
(* meets an error ends before it claims the next run.                        *)
THEOREM OrphansBounded ==
  ASSUME MayCrash
  PROVE  LifecycleSpec => []OneOrphanPerStop
  <1>1. OrphanInv => OneOrphanPerStop
    BY DEF OrphanInv
  <1>2. QED
    BY <1>1, InitOrphans, NextOrphans, PTL DEF LifecycleSpec

=============================================================================
