# insights-automation in TLA+

`insights-automation` is a Go service that generates cricket insight cards.
Clients (and a reconciler) ask for a card or a set of cards; the request becomes
one or more durable *generation runs* in a SQL database; a worker loop claims
runs, computes the card from historical data, and publishes a numbered
*generation result*; clients read results by *result locator*.

The interesting part of the program is the protocol between submissions,
workers and readers over one database, none of which holds a lock for longer
than one statement or transaction. Around it stand three smaller questions: what
the processes that run it do when they start, fail and stop; which requests are
accepted and which locators they get; and what a card says that is put together
from one query after another of an archive that grows meanwhile. These are what
the modules model.

Paths below are relative to `src/`.

## 1. The system

| Part | Code | State it keeps | Operations |
|---|---|---|---|
| Generation ledger | `generation/sql_store.go`, `migrations/001_generation_runs.sql`, `generation/sqlite_schema.go` | tables `generation_runs`, `generation_results`, `generation_result_pointers` | `SaveRun`, `SaveResult`, `LoadRun`, `FindActiveRun`, `LoadCurrentResult(ByLocator)`, `LoadLatestRunByLocator`, `ClaimNext`, `RenewLease`, `RecoverExpiredLeases`, `Requeue`, `Fail`, `RefreshParentStatus` |
| Submissions | `generation/sql_module.go` | local variables of a request | `StartRun`, `startCardSet`, `validate` |
| Worker | `generation/sql_worker.go` | slots, the claimed run, a heartbeat goroutine | `ProcessOne`, `heartbeat`, `finishFailure` |
| Result reads | `generation/sql_module.go`, `app/app.go` | local variables of a request | `GetResult`, `GET /v1/results/{locator}` |
| Service lifecycle | `app/app.go`, `cmd/insights-automation/main.go` | the root context, the goroutines of the loop and of the reconciler | `main`, `New`, `Service.Run`, `Handler`, signals and shutdown |
| Reconciler | `generation/reconciler.go` | what is left of its round | `Run`, `Reconcile` |
| Request intake | `app/app.go`, `generation/match_context.go` | none | `submitRun`, `resolvedInputs`, `selectedPlayers`, roles |
| Locators and validation | `generation/identity.go`, `generation/config.go`, `generation/sql_module.go` | template configuration | `canonicalInputs`, `InputHash`, `validate`, `ResultLocators` |
| Domain types | `generation/types.go` | none | - |
| Card generators | `generation/h2h.go`, `team_form.go`, `venue_dna.go`, `player_venue.go`, `last5.go`, `phase_profiles.go`, `phases.go`, `player_population.go`, `composite.go` | local variables of a generation; the archive is read, never written | `Generate` and the queries it makes |
| Database opening | `generation/database.go` | none | connection settings |

### How they interact

- A request handler or the reconciler calls `StartRun`. It reads the current
  result (reuse it if it is not stale), looks for an active run of the same
  locator and mode (join it), and otherwise inserts a run. Each is a statement
  of its own on a connection pool.
- `startCardSet` does the same for every template of a set, inserts a parent
  row, then one child row per template, and finally writes the parent a second
  time. Rows are visible to workers from the moment they are inserted.
- `Service.Run` calls `ProcessOne` every 100 ms. It claims a row in a
  transaction, loads it, calls the generator under a 45 s deadline with a
  heartbeat renewing the 60 s lease every 15 s, and then publishes the result
  in one transaction, or requeues or fails the run.
- After a terminal write to a child, `RefreshParentStatus` counts the children
  in one statement and updates the parent in the next.
- `GetResult` reads the pointer, and only if there is none the youngest run,
  in up to three statements.

- `main` runs `Service.Run` and the reconciler in goroutines of one root context,
  and the handlers outside it. A signal, or the end of `Service.Run`, cancels the
  context; `Shutdown` then makes `ListenAndServe` return, and `main` with it.
- `Generate` asks the historical database up to eight questions in turn, without
  a transaction. Others record and archive matches in it at the same time.

There are no messages and no shared memory between these parts apart from the
slots of one worker and the root context of one process: everything else meets
in the tables.

### What is hard about it

- *Interleaving between statements.* Find-then-insert, count-then-update and
  read-pointer-then-read-run are not atomic.
- *Ownership.* `Requeue`, `Fail` and `SaveResult` address a row by id alone.
  Only the claim is exclusive; nothing checks the lease owner afterwards.
- *Stale versions.* A run keeps the version that was current when it was
  submitted, and publishes that version plus one. A normal run and a
  regeneration of the same locator may hold the same base.
- *Crashes.* The database survives; everything else is lost at any statement
  boundary. A commit may take effect and be reported as an error.
- *Shutdown.* It is a crash in all but name: nothing waits for the loop, for the
  run it works on, or for requests that are being handled.
- *Growing archive.* The windows and slices of one card are separate statements,
  and the answer of one decides whether the next is asked.
- *Liveness.* Priorities, retry delays, a bounded number of attempts, and lost
  version races all decide whether a run ends.
- *Parents.* The status of a card set is derived from its children by several
  writers, one of which is its own submission.

### What makes each part correct

| Part | Property |
|---|---|
| Ledger | results of a locator are numbered 1, 2, ... and the pointer names the newest; a run that reads succeeded has published what its row names; the history is append-only |
| Submissions | no child before its parent; a base version has been published; work for the same locator and mode is shared |
| Worker | a claim is exclusive, the worker's view of its run agrees with the row, a transient failure ends a run only after the last attempt, a run publishes once, every run ends |
| Card sets | the parent's status agrees with its children's, and every parent settles |
| Reads | failed answers explain themselves, a client told "succeeded" finds a result (at the latest when it asks again), accepted locators are found, versions do not go back |
| Processes | what runs in them never takes a step the generation service would not; a stop strands one run at most; queued runs survive; a dead loop takes its process with it; a finished round has submitted every match |
| Intake, locators | the same card gives the same locator and other cards others; an answered locator is one that work was saved under, or is to be by the submission that was joined; the filters of an answer fail their generator's validation only for want of facts in the archive |
| Cards | slices, fallbacks and benchmarks of one card agree though they are read at different times; what is reported missing was missing |

`PROJECT.json` lists the hazards behind these at their lines.

## 2. The modules

```
  ResultHistory  (abstract: append-only numbered results)
  RunLifecycle   (abstract: queued, running, retried at most twice, ended)
        ^  INSTANCE
  RunStore  <--  Submission  <--+
     ^                          +-- GenerationService  <--+--  ResultReads
     +---------  Worker      <--+                         +--  ServiceLifecycle
                                                          +--  MCGenerationService
  Inputs  <--+-- Intake
             +-- CardGeneration  -->  History

  MCResultReads, MCServiceLifecycle, MCIntake, MCCardGeneration extend the
  specification they are named after.
```

The proofs extend the specification they are about, and each other:

```
  GenerationServiceProofs  <--+-- CardSetProofs
                              +-- ExecutionProofs  <---------+
                              +-- HistoryProofs  <--+-- ServiceLifecycleProofs
                                                    +-- ReadsProofs
  IntakeProofs
  CardGenerationProofs
```

An arrow points at the module that is extended.

**RunStore** is the ledger. Its variables are the tables: `runs` (a row per run
id, `absent` where there is none), `results`, `pointers`, and what the queries
see of time: `fresh` (locators whose current result is younger than `FreshFor`),
`available` and `expired` in a row, and `clock`, the last `created_at` stamp
(rows are ordered by it, so it is a number; stamps may tie). There is an
operator for each store method that writes, and one for each query. A method
made of several statements outside a transaction is split: `ClaimNext`'s
`LoadRun` and the two statements of `RefreshParentStatus` are steps of the worker.

**Submission** is `StartRun` and `startCardSet`. `sub[s].pc` is the statement a
submitter executes next; `BeginTemplate` ... `SaveTemplateRun` is the template
path, `BeginCardSet` ... `ResaveParent` the card-set path, in the order of the
code. A request that reuses a result changes nothing and has no step. The model's
`SaveTemplateRun` uses the version that was read in `BeginTemplate`, as the code
does.

**Worker** is `ProcessOne`: `Claim` (slot and transaction), `Load`, then
`Publish` / `PublishRejected` (unique key) / `ExecutionFails` (generator error,
deadline, encoding or store error), then `RetryRun` / `FailRun`
(`finishFailure`), then `CountChildren` and `SettleParent`. `Heartbeat`,
`Recover`, `Crash` and `PublishUnacknowledged` are enabled by constants.
A failure kind is `transient` or `permanent`: `finishFailure` tells only these
apart, and the three permanent kinds of the code are one here.

**GenerationService** composes the two over one store, adds the passing of time
(`RetryDue`, `LeaseExpires`, `ResultAges`), and states the properties.

**ResultReads** adds readers to the service.

**ServiceLifecycle** puts the service into processes. `proc[p]` says where `main`
is (`down`, `starting`, `serving`), whether the root context is cancelled, how
`Service.Run` and the reconciler's goroutine stand, and what is left of the
reconciler's round. `Start`, `Listen`, `ListenFails`, `Signal`, `StopService`,
`Exit` and `Kill` are `main`; `LoopStep`, `LoopFails` and `LoopCancelled` are
`Service.Run` around the steps of `Worker`; `StartNext`, `ReconcilerStep`,
`RoundOver`, `NextRound` and `ReconcilerFails` are the reconciler around the steps
of `Submission`; `Handle` is a request. `Vanish` drops a submission whose process
or context is gone. A process that ends leaves its claim behind, as `Crash` does.
Every step is one of `GenerationService` or leaves its variables alone
(`ImplementsService`): so what holds of the service with `MayCrash` and
`MayAbandon` holds of the processes.

**ResultHistory** and **RunLifecycle** are abstract specifications. The first is
ADR-0001 and ADR-0008's immutable, numbered results; the service implements
it under every fault of the model (`ImplementsHistory`). The second is what a
submission is promised of its run; the service implements it while no lease is
taken from a live worker and no commit is lost (`ImplementsLifecycle`).

**Inputs** holds what a request's inputs are and become: template configuration,
`validate`, `resolvedInputs`, selection of players, defaults, and what each
generator takes out of its filters (`Usable`). A player's team and name come
from the archive unchecked; `HasPlayers` is where `playerPopulationFrom` checks
them, after the request was accepted.

**Intake** stands beside the service: it says which submissions are accepted and which
locators they get, where `Submission` takes a locator as given and says how the
statements of submissions interleave. Its state is the archive of match facts
(which may be corrected), the rows of `generation_runs` and the current results
by locator, the card sets that are being saved (`saving`) or were given up half
way (`failed`), and `answers`: what clients have been told. `SubmitRun(r)` is a
request that will be answered with 202: `resolvedInputs`, the role check, `validate`
and `StartRun` up to its first insert in one step; a rejected request changes nothing
and has no step. A single card is answered then, and so is a request that joins
a run or finds everything current. A card set goes on: `SaveChild` inserts the
next child, `ResaveParent` is the last `SaveRun` and the answer, and `SavingFails`
an insert that fails or a request that ends; other submissions may join the parent
between any two of them. `Reconcile` is the reconciler's call for one match,
`RunEnds`, `ResultAges` and `MatchCorrected` are what the rest of the service
and the archive do meanwhile. Values are tagged with what JSON tells apart (a
number, the text of a number, a word, a list of ids), because that decides
validation, identity and what a generator accepts. Players are `Sorted` by the
number of ids that are not above them, which says what the order is without
saying how it is reached. `Locator` is a record of what
`InputHash` hashes: SHA-256 is taken to be injective. `rows` is a set, so a
child that duplicates an active direct run is one row here; the duplicates are
the subject of `Submission`. The card state, which is hashed beside the
match id, is left out.

**History** is the archive as the queries see it. A query that counts or lists
matches by a key is answered by the set of the matches it counts for each key,
from which the numbers of the card would follow. A match is recorded, then
archived; `Answers` is what a query may return now (`ORDER BY start DESC LIMIT n`
breaks ties in any way). Innings and balls are rows of two tables, so a match may
have either without the other (`Counts`).

**CardGeneration** is `Generate` of each template. `job` holds the inputs, the
answers so far and the outcome. `Order` lists a generator's statements as the
code does, and `Due` says which of them it makes: some depend on an id among the
inputs, some on what the statements before them answered. `Unasked` are those
still to come, of which `Ask` makes the first; `QueryFails` its
error or the run's deadline, `Refuse` an input the generator rejects before its
first query, `Finish` how the card ends; `ArchiveStep` is what others do to the
archive in between. The inputs of `Query` come out of `Inputs`, so they are those
that a request, a card set or the reconciler leads to.

Operators commented "Faulty" are variants of the operator that follows them, as
a plausible mistake would have it. No specification uses them; each shows that a
property can fail (`PROJECT.json`, "mutants").

### Abstractions worth knowing

- *Time* is nondeterministic: a retry becomes due, a result stale and a lease
  expired at any moment. The distances between 45, 60 and 15 seconds are not
  represented, so a run with `MayRecover` covers every timing, and one without
  it covers what the deployed service does, where nothing recovers leases.
- *Heartbeats* matter only when leases can expire; `Heartbeat` needs `MayRecover`.
- *Run ids* come from a finite supply and are drawn fresh. A submission that
  finds the supply empty ends as if its insert had failed (`Abandon`).
  `BeginCardSet` needs enough ids for a parent and its children.
- *Bounds*: `MaxVersion` stops publication at the last version; `MaxClock` bounds
  distinct stamps, after which all stamps tie.
- *Card contents* are left out of the service (a `NoContent` result is a result)
  and are sets of matches in `CardGeneration`: averages, rates and orderings of
  rows are not computed.
- *The archive only grows.* Matches are recorded and archived in the model, never
  corrected or removed; nothing in this repository writes the archive.
- *Processes*: a statement under the cancelled root context has no effect, or had
  it just before. `LoopFails` stands for every error that `ProcessOne` returns.

## 3. The runs

All instances are small on purpose: the hazards need two actors and two runs.

| Run | Instance | What it shows |
|---|---|---|
| `runs_core` | 2 runs, 1 locator, 1 submitter that may abandon a request, 2 processes with a worker each, both modes, crashes, versions to 2, 2 stamps, 1 reading client | `TypeOK`; a claim is exclusive; workers know their run; retries are exhausted before a transient failure ends a run; a run publishes once; `RunLifecycle` is implemented; failed answers explain themselves; accepted locators are found; whoever was told "succeeded" finds a result when asking again; versions never go back |
| `runs_zombie` | 2 runs, 1 submitter, 2 workers of the same name, leases recovered, acknowledgements lost | whatever a zombie writes, results stay numbered, bases are published, a succeeded run has its result, `ResultHistory` is implemented |
| `cardset` | a card set of 2 templates next to direct requests, normal mode, one stamp (rows are claimed in any order), 2 callers of `ProcessOne` sharing one slot, fairness | rows, workers and submissions fit (`WellFormed`); a settled parent agrees with its children; a parent with an unfinished child settles; every template run ends (`EveryRunSettles`) |
| `service` | one process that starts up to 3 times, a handler, a reconciler with one eligible match, 2 run ids; signals, kills, errors of the loop, of the reconciler and of the listener | every step is one of the service; a stop strands one run at most; a queued run is settled in the end unless it was being worked on when its process stopped; a dead loop ends its process; a finished round has submitted every match |
| `intake` | one match, three versions of its facts, 14 kinds of request, one eligible match; 2 submissions remembered, of which 1 at a time saves a card set and 1 fails; 1 ended run | two answers share a locator exactly if they ask for the same card; an answered locator was saved, but for those of a request that joined a card set still to be saved or given up; the filters of an answer pass validation exactly if the archive has the facts of the card |
| `cards` | 5 matches at 2 venues of a country, one generation of each template from resolved inputs, up to 3 changes of the archive during it | the slices of a head-to-head card agree; a fallback never shows less than the window had; a match behind the averages is behind the benchmark of each phase it has balls of; what is reported missing was missing when the generation began |
| `runs_duplicate` | 2 submitters of one locator, no crashes | *violation*: `OneActiveRun` |
| `reads_partial` | 1 client, 1 submitter, 1 worker, nothing fails | *violation*: `SucceededIncludesResult` |
| `runs_stranded` | one process, SIGTERM and a restart, nothing else fails, fairness | *violation*: `EveryRunSettles` |
| `cardset_stuck` | a card set, one worker, fairness | *violation*: `CardSetSettles` |
| `intake_venue` | as `intake` | *violation*: `VenueSliceShown` |
| `cards_empty` | as `cards` | *violation*: `EmptySlicesReturned` |

Why the bounds suffice for these questions: two run ids are the least with which
two runs of one locator compete for a version, and version 2 is the second
publication they compete for. Two workers are the least that can both want one
row, and the least that can be a zombie and its successor. Attempts run over
their full range, 0 to 2. Two stamps are enough for both orders and a tie of two
rows. Three run ids are a parent and two children, or direct runs instead.

`runs_core` needs one submitter only: it makes one request after another, and two
that race for one locator are the subject of `runs_duplicate`. In `cardset` all
stamps tie, so any order of claims occurs that creation times could give; modes
are left out there, because the settling of runs does not survive an endless
stream of regenerations, which `ClaimNext` takes first (`EveryRunSettles` says
what is claimed). Run ids are drawn with `CHOOSE`, so there is no symmetry to use.

In `intake`, two submissions suffice because `LocatorIdentifiesCard` compares
answers in pairs, and because the locators of a joined card set take one that
saves it (or failed to, for which one failure is enough) and one that joins; one
ended run lets a locator have a run that is over, a result, or neither. The
requests differ in one respect each: alone or in a set,
defaults left out or spelled out, players in another order or number, a player of
only some squads, a derived input, an unknown input that is not an integer, a
regeneration with and without the role for it. The facts differ in a player
listed for both teams, a player without a name, and a missing venue and team.
Inputs of the eligible match are
those the reconciler's tests use; the deployed service lists none.

In `service`, one process is enough because processes meet only in the tables,
which `runs_core` covers with two; three starts let a process fail, come back,
fail again and come back for good, which is the least in which two stops strand
two runs. The last start meets no fault (`Fallible`), or nothing could be said to
settle.

In `cards`, the constants of the code are scaled: samples of 10, 15 and 10 become
2, and lists of the newest 10 or 5 become the newest 2. What the properties tell
apart is too few, just enough, and more than the list holds; with five matches
every question meets all three. The matches differ in what the queries look at:
one before the window, one at another venue of the country, one abandoned without
an innings, one without ball-by-ball rows, one of another opponent, one without an innings for a player, and the
target match itself. Three changes suffice to push a match out of a list of two,
or to fill a sample, between any two questions.

`CHECK_DEADLOCK` is left on except in `cards` and `cards_empty`, where a
generation ends and nothing follows: elsewhere ageing, retries, corrections and
requests keep the system able to move.

### Fairness

`Fairness` in `GenerationService` assumes that

- a request that has begun runs on to its end (a handler goroutine is not
  suspended for ever): weak fairness of each submitter's own steps;
- `Service.Run`'s ticker calls `ProcessOne` again and again, so a worker that
  could claim a row eventually does, and one that has claimed goes on: weak
  fairness of `Claim` and of the worker's steps;
- the retry delay passes: weak fairness of `RetryDue`.

Nothing is assumed of new requests, of the ageing of results, of crashes, of
heartbeats or of `RecoverExpiredLeases`, which no code outside the tests calls.
Nothing is assumed of the outcome of a generation: a worker may fail every
time, so termination comes from the bounded attempts.

`LifecycleFairness` assumes the same of the goroutines of a process that is up,
that `main` goes on (it listens, stops on the error of the loop, exits after
`Shutdown`), and, of the deployment, that a process which is down is started
again. That last one is not in the code: it is what any supervisor does, and
without it no run could be expected to end. Faults, signals, new requests and
later rounds may always fail to happen.

### What disagrees with the documents

1. **Two active runs** (`runs_duplicate`). ADR-0003 says concurrent submissions
   of one locator and mode join its queued or running run. `FindActiveRun` and
   `SaveRun` are separate statements and no key prevents the second insert: two
   submitters both miss, then both insert.
2. **Succeeded without a result** (`reads_partial`). `README.md` says that a
   succeeded response includes `result`, and ADR-0003 that a read includes it
   when the state is succeeded. `GetResult` reads the result and then, in another
   statement, the run: if the run publishes in between, the answer is `succeeded`
   and empty. Asking again finds the result, which is what
   `SucceededResultFindable` says and `SucceededFound` proves.
3. **Stranded runs** (`runs_stranded`). The queue is said to be durable across
   restarts, but a row that is `running` when its process stops is never claimed
   again: only `RecoverExpiredLeases` would requeue it, and nothing in the service
   calls it. An orderly SIGTERM is enough, because `finishFailure` writes with
   the context that the signal cancelled. Later requests join the stranded run.
4. **A card set that never settles** (`cardset_stuck`). If the workers finish all
   children before the last `SaveRun` of `startCardSet`, that statement puts the
   settled parent back to `queued` and nothing refreshes it again.
5. **No venue slices in a set** (`intake_venue`). `resolvedInputs` gives the
   head-to-head card the venue as a number and then, for the other cards of the
   set, overwrites it with a text; `generateComposite` wants a number and leaves
   out both `at_venue` slices. This is also why `LocatorIdentifiesCard`
   excepts `h2h_record` asked for alone against the same in a set: they have
   two locators, for two different cards.
6. **An empty slice fails the card** (`cards_empty`). ADR-0005 has an empty slice
   returned as such. `teamSummary` (`generation/h2h.go:240`) divides by the number
   of matches of the slice: for two teams with history that have not met, or not
   at the venue, the win rate is 0/0, `SaveResult` cannot encode it, and the run
   is retried and fails.
7. **Nameless players are accepted** (no run of its own: `AcceptedInputsUsable`
   says exactly which accepted submissions fail). ADR-0010:13 has a squad row
   without a canonical `fullName` reject the submission. `selectedPlayers` copies
   the name unchecked (`app/app.go:296`), and `playerContext` refuses an empty one
   only when the run is generated; a squad row without an entry in the player
   master is left out by the join (`generation/match_context.go:64`).

Seen while modelling, and not stated by any document one way or the other:

- A card-set request that joins a parent is answered with a locator for each
  template, while the submission it joined may not have saved the children
  (`generation/sql_module.go:84`): reading such a locator is a 404, for good if
  a child's insert fails. `AnsweredLocatorsSaved` excepts exactly these.
- Unknown inputs of a card set are dropped for its children and kept, unchecked,
  for its parent. With `{"other": 1.5}` the parent cannot be loaded (`Joinable`),
  so the same request is rejected while the run it should join is active.
- A team id of zero is not rejected at intake either; the run fails validation.
- Regenerations are claimed before normal runs (`generation/sql_store.go:358`), so
  an endless stream of them keeps normal runs waiting.
- The reconciler's first error ends its goroutine without a word; the process goes
  on serving without it (`app/app.go:105`).
- The phases of the venue card are ranges of ball numbers (`generation/venue_dna.go:123`),
  those of the phase profiles are ranges of overs; ADR-0011 wants one owner of
  these ranges. `PhaseOfBall` and `PhaseOfOver` are both in `History`.
- `team_form` counts a match without a winner as a draw, whatever the reason.
- `PlayerVenueStats` and `LastGames` do not ask for `isArchived`: matches in play
  count for player cards and for no other.
- A wide slice is read before a narrow one, so an `at_venue` slice may show a match
  that `overall` does not have yet; `SlicesAgree` is the direction that holds.

## 4. The proofs

The theorems hold for every value of the constants: any number of runs, locators,
workers, processes, submitters and clients, any card sets, matches and requests.
They rest on the assumptions the modules state, and on those named below, which
are settings of the fault model. The modules assume that sets of ids and names
are what they are taken for (`StoreAssumption`, `SubmissionAssumption`,
`WorkerAssumption`, `LifecycleAssumption`), that NULL differs from the values it
stands in for (`NullAssumption`), that requests name a configured target and a
known match, whose ids are not negative and whose squad is finite
(`IntakeAssumption`), that the archive has finitely many matches, each at a venue
of some country (`HistoryAssumption`), and that samples and lists ask for at least
one match (`MinimumAssumption`, `QueryAssumption`: `validate` approves 5, 10, 15
and 20). `PROJECT.json` lists the
theorems and the properties they state; TLC checks each of these properties on
a small instance as well.

**Types** (`TypeCorrect`, `PartsFit`; under every fault). The inductive invariant
is `Shape == TypeOK /\ WellFormed`. `TypeOK` alone is not inductive: a worker
adds one to an attempt, takes the head of a list and writes to the parent of its
row, all of which are well-typed only because the row has the shape `WellFormed`
says. There is a lemma per action, and lemmas about the ways the actions change
state (a row is rewritten in place, `RewriteRow`; a row is inserted, `InsertRow`;
a worker or a submission moves).

**History** (`NumberedHistory`, `BasesPublished`, `SucceededMeansPublished`,
`HistoryImplemented`; under every fault). The inductive invariant is `HistoryInv
== Shape /\ ResultsNumbered /\ BasesNotAhead /\ SucceededRunHasResult`. The
argument: a worker publishes its base plus one. `BasesNotAhead` says the base is
at most the current version, so what it publishes is at most the next number; the
unique key says the number is unused, and by `ResultsNumbered` all numbers up to
the current version are used; so it is exactly the next (`NextVersionIsNext`).
Without `BasesNotAhead` a gap would be possible, and the base of a row is only
known because the submission that inserted it, and the worker that loaded it,
are covered too. The steps divide into publications (`PublicationStep`) and quiet
steps, which leave the ledger alone and may only bring bases it already has
(`QuietStep`). `HistoryImplemented` maps a publication to `ResultHistory`'s
`Publish` and every quiet step to a stutter.

It is worth noting what these theorems do not need: no owner check, no lease, no
exclusive claim. The unique key and the single transaction are enough for the
history, whatever happens to run rows.

**Execution** (`ClaimsExclusive`, `RunsStayAsLoaded`, `NoRetryGivenUp`,
`OneResultPerRun`, `LifecycleImplemented`; assuming `~ MayRecover` and
`~ MayLoseAck`, crashes allowed). The inductive invariant `ExecutionInv` ties a
running row to the worker that holds it (`KnowsItsRun`, `ExclusiveExecution`),
and adds that parents are never tried and have no results. A claim takes a
queued row, so nobody held it; a worker that holds a row is the only one who can
write it, so what it loaded stays true until it writes; and a row that has a
result has succeeded, so it is not running, so nobody holds it. The last is why a
run publishes once although nothing in `SaveResult` says so. Both assumptions
are needed: `runs_zombie` is the service without them. Each step is one of
`RunLifecycle`'s for one run, or leaves every run's phase and attempt alone
(`StepKinds`).

**Card sets** (`SettledParentsAgree`; assuming `OneAtATime`: one process, one
slot, no crash). The counting query and the update of `RefreshParentStatus`
are two statements, and the status a worker is about to write may be stale by
then. The invariant `AgreeInv` says it is not: if the children are still all
settled, the status is still what their states give (`StatusFits`). With one
worker busy at a time no child can settle between the two statements; a child
may be inserted, but then the children are not all settled, and its own end
brings another refresh. With two slots the property is false.

**Rows** (in `HistoryProofs`). Lemmas about what any step may do to a row: a
located row stays located, a readable row stays readable, versions only grow,
what is published stays.

**Reads** (`FailuresExplainedToClients`, `AcceptedFound`, `SucceededFound`,
`VersionsNeverGoBack`; under every fault). A client's answer is composed of
queries between which the service moves on. `ReadsInv` is `HistoryInv`, the
invariant that a failed row has a failure, and for each client what it may
still conclude from the queries it has made (`ReaderFits`) and was answered
(`AnswerFits`). `AcceptedFound` also needs that the youngest of a set of rows
exists (`YoungestFound`), which follows from the well-foundedness of the order
of stamps.

**Processes** (`ProcessesImplementService`, `HistorySurvivesRestarts`,
`LifecycleSurvivesRestarts`, `RoundsSubmitAll`; assuming `MayCrash`, which is what
the end of a process is to the service, and for the life cycle what `Execution`
assumes). Every step of `ServiceLifecycle` is one
of `GenerationService` or leaves its tables, submissions and workers alone, so
the theorems above hold over any number of restarts. `RoundsSubmitAll` follows
the reconciler's round: every eligible match is covered (it has a run or all its
results), under way in the reconciler's own submission, or still to do
(`RoundCovers`). What is under way becomes covered because a submission ends
only by joining, reusing or saving, or else the goroutine ends with it.

**Orphans** (`OrphansBounded`; assuming `MayCrash`). An orphan is a row that is
running and that no worker holds; nothing takes it up again. That there are at
most as many as poll loops have ended (`EndedLoops`, one for every start whose
loop is no longer running) compares two numbers that change together, so the
proof follows the sets. A step adds no orphan (`StrandsNothing`) unless it ends
the loop of a process, and then at most the one its worker held, as a process has
one loop. `LoopFits` says that a worker is busy only while its loop runs: without
it a process could strand a run twice.

**Intake** (`AnswersSaved`; no assumptions). An answer's locators are computed
anew from the inputs of the run that was saved, joined or made unnecessary.
`IntakeInv` adds to the property what makes the three agree: every run has the
locator of its inputs (`RunsLocated`, `SavingLocated`), every template of a card
set has been saved or is missed by a submission that saves it or gave up
(`SetsWhole`), a submission that saves a set saves all it is going to answer
(`RepliesCovered`), and a current result has the run that published it
(`ResultsRun`). What is saved under a locator stays so, and what is missing is
saved or still missed after every step (`AccountedStays`): that is what an answer
given early can rely on.

**Locators and inputs** (`LocatorsIdentifyCards`, `AcceptedAlwaysUsable`). The
invariant says only that every answer, given or ready, was made by `submitRun` of
facts that the archive had then (`AnswerMade`); the work is in what such an answer holds.
`ResolvedDerives` follows the assignments of `resolvedInputs` in their order and
says which are undone: the client's list of players and, in a set, the venue as
a number. `FiltersFilled` carries that through `inputsForTemplate` and the defaults
to one statement for each key of the filters (`Filled`), the same for a card
asked for alone and in a set but for the venue of `h2h_record`. From there
`AnswerUsable` goes through the generators template by template, with what
`validate` approved (`SelectorsApproved`) and with `SortedHas`: sorting a finite set
of ids loses and invents none, so the players are not empty and the context names
each. What is left to fail is what the archive leaves open: a team, a player's id
or team, or a name (`FactsComplete`); both directions are proved.
`AnswersAgree` compares two answers key by key (`Agree`): filters agree under a key
exactly if the cards show the same there, where it matters that values of one
JSON form are told apart (`ValuesDiffer`) and that an id which is not recorded is
left out and not written as 0 (`OptionalAgree`).

**Cards** (`SlicesAlwaysAgree`, `FallbackOnlyWidens`, `BenchmarksAlwaysCover`,
`HistoryNeverMissed`; in `CardGenerationProofs`). A card's statements see different
archives. `CardInv` ties every answer to the archive of now and to the one of
the beginning (`AnswersFit`): an answer lists nothing that is not counted by now,
and, where it is not limited to the newest, all that was counted when the
generation began. Because matches are only added and archived, both stay true
while others write. The order of the statements does the rest: where a figure
must contain another, the statement for the wider one comes later
(`NeededFirst`, `CareersCover`, `BenchmarksCover`), or, for the slices of a
head-to-head card, the narrow one does, and what it no longer lists has been
pushed out by newer matches. `HistoryNeverMissed` is the other half: an empty answer
proves that the archive of the beginning had nothing to count. The statements of
each template are gone through one by one (`AskSlicesAgree`,
`AskCareersCover`, `AskBenchmarksCover`), so a generator that asks in another
order, as the mutant `PhaseQuestionSwapped` in effect does, would not get through.

**Model-checked only.** *Liveness* (`EveryRunSettles`, `UnfinishedCardSetSettles`,
`QueuedRunsSurvive`, `LoopEndsProcess`) and the fairness behind it are beyond the
prover. Every invariant and action property of a passing run is stated by a
theorem. What no theorem states of the card sets is `SettledStatusAgrees` with
crashes or with two slots, because it is false there.

## 5. Not modelled

- *The arithmetic of cards*: averages, rates, result strings and the order of
  rows. `CardGeneration` keeps which matches each figure is computed from, and the
  one ratio that can have no value. The branch of `FindH2H` for players is reached
  from tests only.
- *Corrections of the archive during a generation*: nothing in this repository
  writes the historical tables, so what is known of their writer is that matches
  are added and archived.
- *Rejections*: which error and which HTTP status a rejected request gets, and
  requests with neither or both of a template and a card set. Roles are taken as
  known; how a role is established is left out.
- *The link between `Intake` and `Submission`*: that the first step of `Intake`'s
  submissions is what the statements of `Submission` before the first insert come
  to is not checked; `Submission`'s races are exactly the ways in which it is not.
- *Times*: the distances between the 45 s deadline, the 60 s lease and the 15 s
  heartbeat. `RecoverExpiredLeases` is called by tests only, so in the deployed
  service nothing depends on them; with `MayRecover` every order is allowed.
- *Database opening, readiness, migrations, HTTP and JSON encoding, logging*: no
  protocol state.
- *Collisions of run ids* (40 random bits): ids are drawn fresh.

## 6. Plan

1. `RunStore`, `Submission`, `Worker`, `GenerationService` with both abstract
   specifications; runs `runs_*` and `cardset*`. Done.
2. `ResultReads`; runs `runs_core` (with the readers) and `reads_partial`. Done.
3. `Inputs` and `Intake`; runs `intake*`. Done.
4. `ServiceLifecycle`; runs `service` and `runs_stranded`. Done.
5. `History` and `CardGeneration`; runs `cards*`. Done.
6. Proofs: types, history, execution, card sets, reads, processes, orphans, intake,
   locators, cards. Done.
7. Open: a proof that the steps of `Intake` are what the statements of
   `Submission` come to when no other submission interleaves.
8. Open: should the service come to call `RecoverExpiredLeases`, a module
   `LeaseTiming` with deadline, lease and heartbeat as numbers, to find the
   distances that keep a live worker's lease.
