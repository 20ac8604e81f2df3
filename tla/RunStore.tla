------------------------------ MODULE RunStore ------------------------------
(***************************************************************************)
(* The durable generation store: generation/sql_store.go over the tables   *)
(* of migrations/001_generation_runs.sql.  One operator per store method;  *)
(* each is one committed statement or transaction, so each is one step of  *)
(* whoever calls it.  A method made of several statements that do not      *)
(* share a transaction (RefreshParentStatus, ClaimNext followed by         *)
(* LoadRun) is split, and its callers take the parts as separate steps.    *)
(*                                                                         *)
(* Time is not a number here.  What the code compares with the clock is    *)
(* kept as a flag that the environment flips: a retry that is due          *)
(* (available), a lease that ran out (expired), a result that is still     *)
(* fresh (fresh).  Only created_at is a number, because rows are ordered   *)
(* by it; stamps may tie.                                                  *)
(***************************************************************************)
EXTENDS Naturals, FiniteSets

CONSTANTS
  RunId,       \* generation_run_id values, all that the model may draw
  Locator,     \* result locators of templates: template, version, match, inputs
  CardSet,     \* locators of card-set requests
  WorkerId,    \* lease_owner values
  None,        \* SQL NULL
  MaxVersion,  \* bound on result versions
  MaxClock     \* bound on distinct created_at stamps

ASSUME StoreAssumption ==
  /\ None \notin RunId \cup Locator \cup CardSet \cup WorkerId
  /\ Locator \cap CardSet = {}
  /\ MaxVersion \in Nat
  /\ MaxClock \in Nat

VARIABLES
  runs,      \* table generation_runs, one row per run id
  results,   \* table generation_results
  pointers,  \* table generation_result_pointers: the current result of a locator
  fresh,     \* locators whose current result is younger than FreshFor
  clock      \* the latest created_at stamp handed out

ledger == <<results, pointers, fresh>>
storeVars == <<runs, results, pointers, fresh, clock>>

Mode == {"normal", "regeneration"}
FailureKind == {"transient", "permanent"}
Active == {"queued", "running"}
Settled == {"succeeded", "failed"}
RunState == Active \cup Settled \cup {"absent", "completed_with_errors"}
LastAttempt == 2

Row ==
  [state     : RunState,
   key       : Locator \cup CardSet \cup {None},
   mode      : Mode,
   parent    : RunId \cup {None},
   attempt   : 0 .. LastAttempt,
   version   : 0 .. MaxVersion,
   failure   : FailureKind \cup {None},
   available : BOOLEAN,
   owner     : WorkerId \cup {None},
   expired   : BOOLEAN,
   created   : 0 .. MaxClock]

ResultRow == [locator : Locator, version : 1 .. MaxVersion, run : RunId]

(* NULL is neither a failure kind nor a row. *)
ASSUME NullAssumption == None \notin FailureKind \cup ResultRow

(* The row newSQLRun describes, ready to be inserted. *)
NewRow(key, mode, parent, version, created) ==
  [state |-> "queued", key |-> key, mode |-> mode, parent |-> parent,
   attempt |-> 0, version |-> version, failure |-> None, available |-> TRUE,
   owner |-> None, expired |-> FALSE, created |-> created]

(* A run id for which the table has no row. *)
AbsentRow == [NewRow(None, "normal", None, 0, 0) EXCEPT !.state = "absent"]

StoreTypeOK ==
  /\ runs \in [RunId -> Row]
  /\ results \subseteq ResultRow
  /\ pointers \in [Locator -> ResultRow \cup {None}]
  /\ fresh \subseteq Locator
  /\ clock \in 0 .. MaxClock

StoreInit ==
  /\ runs = [id \in RunId |-> AbsentRow]
  /\ results = {}
  /\ pointers = [l \in Locator |-> None]
  /\ fresh = {}
  /\ clock = 0

-----------------------------------------------------------------------------
(* Reads *)

FreeIds == {id \in RunId : runs[id].state = "absent"}

(* newRunID: a random id that no row has.  Ids are interchangeable, so the  *)
(* model always draws the same one of those that are left.                  *)
NewRunId == CHOOSE id \in FreeIds : TRUE

(* A child or template run: its row has a template_id. *)
IsTemplateRun(id) == runs[id].key \in Locator

(* LoadCurrentResult: the version the pointer names, 0 when it names none. *)
CurrentVersion(l) == IF pointers[l] = None THEN 0 ELSE pointers[l].version

(* FindActiveRun: the query's matches; any of them answers "join". *)
ActiveRuns(key, mode) ==
  {id \in RunId : /\ runs[id].key = key
                  /\ runs[id].mode = mode
                  /\ runs[id].state \in Active}

(* Faulty: only runs that are still active are looked up. *)
LatestRunsActive(l) ==
  {id \in RunId : runs[id].key = l /\ runs[id].state \in Active}

(* LoadLatestRunByLocator: the youngest rows, one of which is returned. *)
LatestRuns(l) ==
  LET located == {id \in RunId : runs[id].key = l}
  IN {id \in located : \A other \in located : runs[other].created <= runs[id].created}

Priority(id) == IF runs[id].mode = "regeneration" THEN 1 ELSE 0

ClaimedBefore(a, b) ==
  \/ Priority(a) > Priority(b)
  \/ Priority(a) = Priority(b) /\ runs[a].created < runs[b].created

(* Faulty: the condition template_id IS NOT NULL is missing. *)
NextClaimsOfAnyTarget ==
  LET claimable == {id \in RunId : runs[id].state = "queued" /\ runs[id].available}
  IN {id \in claimable : \A other \in claimable : ~ ClaimedBefore(other, id)}

(* The SELECT of ClaimNext: any row that no other claimable row precedes. *)
NextClaims ==
  LET claimable == {id \in RunId : /\ runs[id].state = "queued"
                                   /\ runs[id].available
                                   /\ IsTemplateRun(id)}
  IN {id \in claimable : \A other \in claimable : ~ ClaimedBefore(other, id)}

Children(parent) == {id \in RunId : runs[id].parent = parent}

(* The first statement of RefreshParentStatus: are all children terminal? *)
ChildrenSettled(parent) ==
  /\ Children(parent) # {}
  /\ \A id \in Children(parent) : runs[id].state \in Settled

(* The status it derives from the counts. *)
ChildrenStatus(parent) ==
  LET states == {runs[id].state : id \in Children(parent)}
  IN IF states = {"failed"} THEN "failed"
     ELSE IF "failed" \in states THEN "completed_with_errors"
     ELSE "succeeded"

-----------------------------------------------------------------------------
(* Writes *)

(* SaveRun: insert, or on a duplicate id overwrite only the listed columns. *)
SaveRun(id, row) ==
  /\ runs' = [runs EXCEPT ![id] =
       IF @.state = "absent"
         THEN row
         ELSE [@ EXCEPT !.state = row.state, !.attempt = row.attempt,
                        !.version = row.version, !.failure = row.failure,
                        !.expired = FALSE]]
  /\ UNCHANGED ledger

(* Faulty: the table has no unique key. *)
UnpublishedUnchecked(l, version) == TRUE

(* The UNIQUE KEY generation_results_version. *)
Unpublished(l, version) ==
  \A result \in results : ~ (result.locator = l /\ result.version = version)

(* Faulty: an existing pointer is left where it is. *)
MovePointerOnce(result) ==
  pointers' = [pointers EXCEPT ![result.locator] = IF @ = None THEN result ELSE @]

(* Faulty: the pointer is left to a later statement. *)
MovePointerLater(result) == UNCHANGED pointers

(* The upsert of the current result. *)
MovePointer(result) == pointers' = [pointers EXCEPT ![result.locator] = result]

(* Faulty: the run keeps the version it was based on. *)
CompleteRunKeepingBase(id, version) ==
  runs' = [runs EXCEPT ![id].state = "succeeded", ![id].owner = None, ![id].expired = FALSE]

(* Faulty: the run is left to be completed by a later statement. *)
CompleteRunLater(id, version) == UNCHANGED runs

(* The update that completes the run; its failure columns are kept. *)
CompleteRun(id, version) ==
  runs' = [runs EXCEPT ![id].state = "succeeded", ![id].version = version,
                       ![id].owner = None, ![id].expired = FALSE]

(* SaveResult: one transaction inserts the result, moves the pointer and    *)
(* completes the run.                                                       *)
SaveResult(id, version) ==
  LET l == runs[id].key
      result == [locator |-> l, version |-> version, run |-> id]
  IN /\ Unpublished(l, version)
     /\ results' = results \cup {result}
     /\ MovePointer(result)
     /\ fresh' = fresh \cup {l}
     /\ CompleteRun(id, version)

(* Faulty: the lease is written, the state is not. *)
ClaimRunStillQueued(id, who) ==
  /\ id \in NextClaims
  /\ runs' = [runs EXCEPT ![id].owner = who, ![id].expired = FALSE]
  /\ UNCHANGED ledger

(* ClaimNext's transaction: lease the selected row to a worker. *)
ClaimRun(id, who) ==
  /\ id \in NextClaims
  /\ runs' = [runs EXCEPT ![id].state = "running", ![id].owner = who,
                          ![id].expired = FALSE]
  /\ UNCHANGED ledger

RenewLease(id, who) ==
  /\ runs[id].state = "running"
  /\ runs[id].owner = who
  /\ runs' = [runs EXCEPT ![id].expired = FALSE]
  /\ UNCHANGED ledger

(* RecoverExpiredLeases: every running row whose lease ran out, at once. *)
Expired == {id \in RunId : runs[id].state = "running" /\ runs[id].expired}

RecoverExpiredLeases ==
  /\ Expired # {}
  /\ runs' = [id \in RunId |->
       IF id \in Expired
         THEN [runs[id] EXCEPT !.state = "queued", !.owner = None, !.expired = FALSE]
         ELSE runs[id]]
  /\ UNCHANGED ledger

(* Faulty: the attempt is not stored. *)
RequeueKeepingAttempt(id, attempt, failure) ==
  /\ runs' = [runs EXCEPT ![id].state = "queued", ![id].failure = failure,
                          ![id].owner = None, ![id].expired = FALSE,
                          ![id].available = FALSE]
  /\ UNCHANGED ledger

(* Faulty: the failure is not stored. *)
FailSilently(id, failure) ==
  /\ runs' = [runs EXCEPT ![id].state = "failed", ![id].owner = None,
                          ![id].expired = FALSE]
  /\ UNCHANGED ledger

(* Requeue and Fail address the row by its id alone. *)
Requeue(id, attempt, failure) ==
  /\ runs' = [runs EXCEPT ![id].state = "queued", ![id].attempt = attempt,
                          ![id].failure = failure, ![id].owner = None,
                          ![id].expired = FALSE, ![id].available = FALSE]
  /\ UNCHANGED ledger

Fail(id, failure) ==
  /\ runs' = [runs EXCEPT ![id].state = "failed", ![id].failure = failure,
                          ![id].owner = None, ![id].expired = FALSE]
  /\ UNCHANGED ledger

(* The second statement of RefreshParentStatus. *)
UpdateParent(parent, status) ==
  /\ runs' = [runs EXCEPT ![parent].state = status]
  /\ UNCHANGED ledger

-----------------------------------------------------------------------------
(* The passage of time, as the queries above see it *)

RetryDue(id) ==
  /\ runs[id].state = "queued"
  /\ ~ runs[id].available
  /\ runs' = [runs EXCEPT ![id].available = TRUE]
  /\ UNCHANGED <<ledger, clock>>

LeaseExpires(id) ==
  /\ runs[id].state = "running"
  /\ ~ runs[id].expired
  /\ runs' = [runs EXCEPT ![id].expired = TRUE]
  /\ UNCHANGED <<ledger, clock>>

ResultAges(l) ==
  /\ l \in fresh
  /\ fresh' = fresh \ {l}
  /\ UNCHANGED <<runs, results, pointers, clock>>

(* A created_at stamp is taken: time stood still or moved on since the last. *)
Stamp == clock' \in {clock, clock + 1} \cap 0 .. MaxClock

=============================================================================
