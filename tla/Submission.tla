----------------------------- MODULE Submission -----------------------------
(***************************************************************************)
(* Submissions: StartRun and startCardSet of generation/sql_module.go, as  *)
(* an HTTP request or the reconciler runs them.  Every database call is a  *)
(* step of its own; nothing is locked between them, so submitters          *)
(* interleave with each other and with the workers at each one.            *)
(***************************************************************************)
EXTENDS RunStore, Sequences

CONSTANTS
  Submitter,   \* concurrent callers of StartRun
  Members,     \* card set -> sequence of the locators of its templates
  Modes,       \* the modes callers ask for, a subset of Mode
  MayAbandon   \* may a request end half way (client gone, statement failed)?

ASSUME SubmissionAssumption ==
  /\ Members \in [CardSet -> Seq(Locator)]
  /\ Modes \subseteq Mode
  /\ MayAbandon \in BOOLEAN

VARIABLE sub   \* the local state of each submitter

Prepared == [locator : Locator, version : 0 .. MaxVersion]

SubmissionState ==
  [pc      : {"idle", "finding", "saving", "preparing", "savingParent",
              "preparingChild", "savingChild", "resaving"},
   target  : Locator \cup CardSet \cup {None},
   mode    : Mode,
   version : 0 .. MaxVersion,      \* of the result read first
   created : 0 .. MaxClock,        \* stamp of the run about to be saved
   parent  : RunId \cup {None},
   todo    : Seq(Locator),         \* templates still to be prepared
   pending : Seq(Prepared)]        \* children still to be saved

IdleSubmission ==
  [pc |-> "idle", target |-> None, mode |-> "normal", version |-> 0,
   created |-> 0, parent |-> None, todo |-> <<>>, pending |-> <<>>]

SubmissionTypeOK == sub \in [Submitter -> SubmissionState]

SubmissionInit == sub = [s \in Submitter |-> IdleSubmission]

-----------------------------------------------------------------------------

(* A normal request is answered by a current result that is not stale. *)
Reusable(l, mode) ==
  /\ mode = "normal"
  /\ pointers[l] # None
  /\ l \in fresh

Leave(s) == sub' = [sub EXCEPT ![s] = IdleSubmission]

(* StartRun up to LoadCurrentResult; a reusable result changes nothing. *)
BeginTemplate(s, l, mode) ==
  /\ sub[s].pc = "idle"
  /\ ~ Reusable(l, mode)
  /\ sub' = [sub EXCEPT ![s] = [IdleSubmission EXCEPT
       !.pc = "finding", !.target = l, !.mode = mode, !.version = CurrentVersion(l)]]
  /\ UNCHANGED storeVars

BeginCardSet(s, c, mode) ==
  /\ sub[s].pc = "idle"
  /\ Cardinality(FreeIds) > Len(Members[c])   \* bound: the run ids must suffice
  /\ sub' = [sub EXCEPT ![s] = [IdleSubmission EXCEPT
       !.pc = "finding", !.target = c, !.mode = mode]]
  /\ UNCHANGED storeVars

(* FindActiveRun finds work to join: the request is answered. *)
JoinRun(s) ==
  /\ sub[s].pc = "finding"
  /\ ActiveRuns(sub[s].target, sub[s].mode) # {}
  /\ Leave(s)
  /\ UNCHANGED storeVars

(* FindActiveRun finds nothing for a template: newSQLRun stamps a run. *)
MissRun(s) ==
  /\ sub[s].pc = "finding"
  /\ sub[s].target \in Locator
  /\ ActiveRuns(sub[s].target, sub[s].mode) = {}
  /\ Stamp
  /\ sub' = [sub EXCEPT ![s].pc = "saving", ![s].created = clock']
  /\ UNCHANGED <<runs, ledger>>

(* The run is inserted with the version that was current at the beginning. *)
SaveTemplateRun(s) ==
  /\ sub[s].pc = "saving"
  /\ FreeIds # {}
  /\ SaveRun(NewRunId, NewRow(sub[s].target, sub[s].mode, None,
                             sub[s].version, sub[s].created))
  /\ Leave(s)
  /\ UNCHANGED clock

-----------------------------------------------------------------------------
(* startCardSet *)

MissCardSet(s) ==
  /\ sub[s].pc = "finding"
  /\ sub[s].target \in CardSet
  /\ ActiveRuns(sub[s].target, sub[s].mode) = {}
  /\ sub' = [sub EXCEPT ![s].pc = "preparing", ![s].todo = Members[sub[s].target]]
  /\ UNCHANGED storeVars

(* One turn of the preparation loop: LoadCurrentResult for one template. *)
PrepareChild(s) ==
  /\ sub[s].pc = "preparing"
  /\ sub[s].todo # <<>>
  /\ LET l == Head(sub[s].todo)
         prepared == [locator |-> l, version |-> CurrentVersion(l)]
     IN sub' = [sub EXCEPT ![s].todo = Tail(@),
                           ![s].pending = IF Reusable(l, sub[s].mode)
                                            THEN @ ELSE Append(@, prepared)]
  /\ UNCHANGED storeVars

(* Every template has a fresh result: nothing is saved. *)
ReuseCardSet(s) ==
  /\ sub[s].pc = "preparing"
  /\ sub[s].todo = <<>>
  /\ sub[s].pending = <<>>
  /\ Leave(s)
  /\ UNCHANGED storeVars

StampParent(s) ==
  /\ sub[s].pc = "preparing"
  /\ sub[s].todo = <<>>
  /\ sub[s].pending # <<>>
  /\ Stamp
  /\ sub' = [sub EXCEPT ![s].pc = "savingParent", ![s].created = clock']
  /\ UNCHANGED <<runs, ledger>>

ParentRow(s) == NewRow(sub[s].target, sub[s].mode, None, 0, sub[s].created)

SaveParent(s) ==
  /\ sub[s].pc = "savingParent"
  /\ FreeIds # {}
  /\ SaveRun(NewRunId, ParentRow(s))
  /\ sub' = [sub EXCEPT ![s].pc = "preparingChild", ![s].parent = NewRunId]
  /\ UNCHANGED clock

StampChild(s) ==
  /\ sub[s].pc = "preparingChild"
  /\ Stamp
  /\ sub' = [sub EXCEPT ![s].pc = "savingChild", ![s].created = clock']
  /\ UNCHANGED <<runs, ledger>>

ChildRow(s) ==
  LET child == Head(sub[s].pending)
  IN NewRow(child.locator, sub[s].mode, sub[s].parent, child.version, sub[s].created)

SaveChild(s) ==
  /\ sub[s].pc = "savingChild"
  /\ FreeIds # {}
  /\ SaveRun(NewRunId, ChildRow(s))
  /\ sub' = [sub EXCEPT ![s].pending = Tail(@),
                        ![s].pc = IF Len(sub[s].pending) = 1
                                    THEN "resaving" ELSE "preparingChild"]
  /\ UNCHANGED clock

(* The last SaveRun writes the parent again, as it was built: queued. *)
ResaveParent(s) ==
  /\ sub[s].pc = "resaving"
  /\ SaveRun(sub[s].parent, ParentRow(s))
  /\ Leave(s)
  /\ UNCHANGED clock

(* The request ends between two statements: its context is cancelled, or a  *)
(* statement fails.  An exhausted supply of run ids counts as the latter.   *)
Abandon(s) ==
  /\ sub[s].pc # "idle"
  /\ MayAbandon \/ FreeIds = {}
  /\ Leave(s)
  /\ UNCHANGED storeVars

-----------------------------------------------------------------------------

Begin(s) ==
  \E mode \in Modes :
    \/ \E l \in Locator : BeginTemplate(s, l, mode)
    \/ \E c \in CardSet : BeginCardSet(s, c, mode)

SubmitterStep(s) ==
  \/ JoinRun(s)
  \/ MissRun(s)
  \/ SaveTemplateRun(s)
  \/ MissCardSet(s)
  \/ PrepareChild(s)
  \/ ReuseCardSet(s)
  \/ StampParent(s)
  \/ SaveParent(s)
  \/ StampChild(s)
  \/ SaveChild(s)
  \/ ResaveParent(s)

=============================================================================
