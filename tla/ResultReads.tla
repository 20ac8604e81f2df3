----------------------------- MODULE ResultReads -----------------------------
(***************************************************************************)
(* Result reads: GetResult of generation/sql_module.go, which GET          *)
(* /v1/results/{locator} calls, beside the running service.  It makes up   *)
(* to three database reads with no transaction around them: the current    *)
(* result, the id of the youngest run, and that run's row.                 *)
(***************************************************************************)
EXTENDS GenerationService

CONSTANT Reader   \* clients, each reading one locator after another

VARIABLE reader   \* what each client's request has read and answered

ReaderState ==
  [pc      : {"idle", "latest", "loading", "answered"},
   locator : Locator \cup {None},
   known   : BOOLEAN,                         \* was a run accepted before?
   run     : RunId \cup {None},
   status  : RunState \cup {"not found"},     \* of the answer
   failure : FailureKind \cup {None},
   version : 0 .. MaxVersion,                 \* of the answer's result, 0 for none
   seen    : [Locator -> 0 .. MaxVersion]]    \* versions this client was answered

NewReader ==
  [pc |-> "idle", locator |-> None, known |-> FALSE, run |-> None,
   status |-> "absent", failure |-> None, version |-> 0,
   seen |-> [l \in Locator |-> 0]]

readVars == <<vars, reader>>

ReadsInit == Init /\ reader = [c \in Reader |-> NewReader]

Waiting(c) == reader[c].pc \in {"latest", "loading"}

Accepted(l) == \E id \in RunId : runs[id].key = l

(* An answer without a result: nothing of an earlier answer survives in it. *)
Answer(c, status, failure) ==
  LET forgotten == [reader[c].seen EXCEPT ![reader[c].locator] = 0]
  IN reader' = [reader EXCEPT ![c] =
       [reader[c] EXCEPT !.pc = "answered", !.status = status, !.failure = failure,
                         !.version = 0, !.seen = forgotten]]

(* Faulty: any result of the locator is returned, not the pointer's. *)
ReadAnyResult(c, l) ==
  /\ ~ Waiting(c)
  /\ \E result \in {x \in results : x.locator = l} :
       reader' = [reader EXCEPT ![c] =
         [NewReader EXCEPT !.pc = "answered", !.locator = l, !.known = Accepted(l),
                           !.status = "succeeded", !.version = result.version,
                           !.seen = [reader[c].seen EXCEPT ![l] = result.version]]]

(* LoadCurrentResultByLocator finds a result: the request is answered. *)
ReadCurrent(c, l) ==
  /\ ~ Waiting(c)
  /\ pointers[l] # None
  /\ reader' = [reader EXCEPT ![c] =
       [NewReader EXCEPT !.pc = "answered", !.locator = l, !.known = Accepted(l),
                         !.status = "succeeded", !.version = CurrentVersion(l),
                         !.seen = [reader[c].seen EXCEPT ![l] = CurrentVersion(l)]]]

(* It finds none: the youngest run is asked for next. *)
MissCurrent(c, l) ==
  /\ ~ Waiting(c)
  /\ pointers[l] = None
  /\ reader' = [reader EXCEPT ![c] =
       [NewReader EXCEPT !.pc = "latest", !.locator = l, !.known = Accepted(l),
                         !.seen = reader[c].seen]]

FindLatest(c) ==
  /\ reader[c].pc = "latest"
  /\ \E id \in LatestRuns(reader[c].locator) :
       reader' = [reader EXCEPT ![c].pc = "loading", ![c].run = id]

MissLatest(c) ==
  /\ reader[c].pc = "latest"
  /\ LatestRuns(reader[c].locator) = {}
  /\ Answer(c, "not found", None)

(* LoadRun: the row's state and failure, whatever they are by now. *)
ReadRun(c) ==
  /\ reader[c].pc = "loading"
  /\ Answer(c, runs[reader[c].run].state, runs[reader[c].run].failure)

ReaderStep(c) ==
  \/ \E l \in Locator : ReadCurrent(c, l) \/ MissCurrent(c, l)
  \/ FindLatest(c)
  \/ MissLatest(c)
  \/ ReadRun(c)

ReadsNext ==
  \/ Next /\ UNCHANGED reader
  \/ (\E c \in Reader : ReaderStep(c)) /\ UNCHANGED vars

ReadsSpec == ReadsInit /\ [][ReadsNext]_readVars

-----------------------------------------------------------------------------

Answered(c) == reader[c].pc = "answered"

(* README: "a failed response includes failure".  The status and the        *)
(* failure come from one read of one row, which Fail wrote in one update.   *)
FailedAnswerExplains ==
  \A c \in Reader : Answered(c) /\ reader[c].status = "failed" => reader[c].failure # None

(* ADR-0003: unknown locators return 404.  The converse: a locator whose    *)
(* run was accepted before the request is never answered "not found",       *)
(* however the two queries interleave with the service.                     *)
AcceptedLocatorFound ==
  \A c \in Reader : Answered(c) /\ reader[c].known => reader[c].status # "not found"

(* ADR-0003: a locator with a result stays succeeded while it is            *)
(* regenerated.  The versions one client is answered never go back.         *)
VersionsAdvance ==
  [][\A c \in Reader, l \in Locator : reader'[c].seen[l] >= reader[c].seen[l]]_readVars

(* A client that is told "succeeded", even by an answer that came without   *)
(* the result (see below), finds one when it asks again: the pointer is     *)
(* written with the row's state, whatever the queries interleave with.      *)
SucceededResultFindable ==
  \A c \in Reader :
    Answered(c) /\ reader[c].status = "succeeded" => pointers[reader[c].locator] # None

-----------------------------------------------------------------------------
(* What the documents say and the code does not do *)

(* README: "A succeeded response includes result"; ADR-0003 says the same.  *)
(* GetResult misses the current result, then reads a run that has published *)
(* one in between, and answers its state without going back for the result. *)
SucceededIncludesResult ==
  \A c \in Reader :
    Answered(c) /\ reader[c].status = "succeeded" => reader[c].version > 0

=============================================================================
