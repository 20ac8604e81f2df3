------------------------------- MODULE Intake -------------------------------
(***************************************************************************)
(* Request intake: submissions to app/app.go and generation/sql_module.go, *)
(* the runs they are saved under and the locators they are answered with.  *)
(*                                                                         *)
(* A submission begins in one step, because Submission.tla models how the  *)
(* statements before the first insert interleave; there, a locator is just *)
(* a value.  Here it is made of what the code hashes, so that two submis-  *)
(* sions share one exactly if the code makes them share it.  The inserts of *)
(* a card set are steps of their own: others join the set meanwhile.  A    *)
(* rejected submission changes nothing and has no step.                    *)
(***************************************************************************)
EXTENDS Inputs

CONSTANTS
  Match,           \* match ids
  Facts,           \* what the archive may say of a match
  Request,         \* submissions that clients may make
  EligibleInputs,  \* inputs that the source of eligible matches may give
  MaxRemembered,   \* bound on submissions that are answered, under way or failed
  MaxEnded,        \* bound on runs that have ended
  MaxSaving,       \* bound on card sets that are saved at one time
  MaxFailures      \* bound on submissions that fail half way

(* Targets are configured, the match is known, and ids are not negative: 0  *)
(* stands for a team, a venue or a country that is not recorded.            *)
ASSUME IntakeAssumption ==
  /\ \A r \in Request :
       r.target \in CardSetTemplates \cup {"pre_toss_v1"} /\ r.match \in Match
  /\ \A facts \in Facts :
       /\ {facts.team_a, facts.team_b, facts.venue, facts.country} \subseteq Nat
       /\ IsFiniteSet(facts.squad) /\ facts.squad \subseteq Nat \X Nat

VARIABLES
  archive,  \* match -> its facts now; the archive may be corrected
  rows,     \* generation_runs, as far as intake reads and writes them
  current,  \* locators with a current result that is not stale
  saving,   \* submissions of card sets that are saving their runs
  failed,   \* those of them that ended before their last statement
  answers   \* what clients have been told, and of which facts

vars == <<archive, rows, current, saving, failed, answers>>

-----------------------------------------------------------------------------
(* StartRun and startCardSet *)

(* Regenerations are for editors and operations. *)
Authorized(mode, role) == mode = "regeneration" => role \in {"editor", "operations"}

AllValid(target, inputs) ==
  IF IsCardSet(target)
    THEN \A t \in CardSetTemplates : Valid(t, Only(inputs, Allowed[t]))
    ELSE Valid(target, inputs)

(* The inputs of the run: those of a card set are kept as they came. *)
RunInputs(target, inputs) ==
  IF IsCardSet(target) THEN inputs ELSE Validated(target, inputs)

Run(target, match, inputs, mode) ==
  [target |-> target, match |-> match, inputs |-> inputs, mode |-> mode,
   locator |-> Locator(target, match, inputs), active |-> TRUE]

(* The runs of the templates that have no current result to reuse. *)
TemplateRuns(target, match, inputs, mode) ==
  LET wanted == IF IsCardSet(target)
                  THEN {Run(t, match, InputsOf(t, inputs), mode) : t \in CardSetTemplates}
                  ELSE {Run(target, match, inputs, mode)}
  IN {run \in wanted : mode = "regeneration" \/ run.locator \notin current}

(* FindActiveRun finds a run of the target, or every result is current:     *)
(* there is nothing to save.                                                *)
NothingToSave(target, match, inputs, mode) ==
  \/ Run(target, match, inputs, mode) \in rows
  \/ TemplateRuns(target, match, inputs, mode) = {}

(* Else the run is saved.  That is all for a single template, and the parent *)
(* of a card set, whose missing templates are saved after it.  A request    *)
(* has its reply ready, the reconciler wants none.                          *)
StartRun(target, match, inputs, mode, reply) ==
  IF NothingToSave(target, match, inputs, mode)
    THEN answers' = answers \cup reply /\ UNCHANGED <<rows, saving>>
    ELSE LET run == Run(target, match, inputs, mode)
         IN /\ rows' = rows \cup {run}
            /\ IF IsCardSet(target)
                 THEN /\ Cardinality(saving) < MaxSaving   \* bound
                      /\ saving' = saving \cup
                           {[parent |-> run, reply |-> reply,
                             missing |-> TemplateRuns(target, match, inputs, mode)]}
                      /\ UNCHANGED answers
                 ELSE answers' = answers \cup reply /\ UNCHANGED saving

(* FindActiveRun loads the run that is to be joined. *)
Joinable(target, match, inputs, mode) ==
  Run(target, match, inputs, mode) \in rows => Loadable(inputs)

-----------------------------------------------------------------------------
(* Steps *)

InputsFor(r) == Resolved(r.target, r.inputs, archive[r.match])

(* A submission that would be answered with 202 now. *)
Acceptable(r) ==
  /\ r.match \in DOMAIN archive
  /\ Resolvable(r.target, r.inputs, archive[r.match])
  /\ Authorized(r.mode, r.role)
  /\ AllValid(r.target, InputsFor(r))
  /\ Joinable(r.target, r.match, RunInputs(r.target, InputsFor(r)), r.mode)

(* What a request will be answered with.  Whether it joined the work of     *)
(* another is not part of the answer, but decides what it can rely on.      *)
ReplyTo(r) ==
  LET inputs == RunInputs(r.target, InputsFor(r))
  IN [request |-> r, facts |-> archive[r.match],
      joined |-> Run(r.target, r.match, inputs, r.mode) \in rows,
      locators |-> ResultLocators(r.target, r.match, inputs)]

Remembered == Cardinality(answers) + Cardinality(saving) + Cardinality(failed)

(* submitRun accepts a request. *)
SubmitRun(r) ==
  /\ Remembered < MaxRemembered   \* bound
  /\ Acceptable(r)
  /\ StartRun(r.target, r.match, RunInputs(r.target, InputsFor(r)), r.mode, {ReplyTo(r)})
  /\ UNCHANGED <<archive, current, failed>>

(* Reconcile starts the card set with the inputs of the eligible match, one *)
(* match after the other.                                                   *)
Reconcile(match, inputs) ==
  /\ Remembered < MaxRemembered   \* bound
  /\ \A s \in saving : s.reply # {}
  /\ AllValid("pre_toss_v1", inputs)
  /\ Joinable("pre_toss_v1", match, inputs, "normal")
  /\ StartRun("pre_toss_v1", match, inputs, "normal", {})
  /\ UNCHANGED <<archive, current, failed>>

(* The next run of a card set is saved, in the order of the configuration.  *)
SaveChild(s) ==
  \E child \in s.missing :
    /\ \A other \in s.missing : Turn[child.target] <= Turn[other.target]
    /\ rows' = rows \cup {child}
    /\ saving' = (saving \ {s}) \cup {[s EXCEPT !.missing = @ \ {child}]}
    /\ UNCHANGED <<archive, current, failed, answers>>

(* The last SaveRun makes the parent active again, if it has ended, and the *)
(* request is answered.                                                     *)
ResaveParent(s) ==
  /\ s.missing = {}
  /\ rows' = (rows \ {[s.parent EXCEPT !.active = FALSE]}) \cup {s.parent}
  /\ saving' = saving \ {s}
  /\ answers' = answers \cup s.reply
  /\ UNCHANGED <<archive, current, failed>>

(* An insert fails, or the request ends: what is missing stays so.          *)
SavingFails(s) ==
  /\ Cardinality(failed) < MaxFailures   \* bound
  /\ saving' = saving \ {s}
  /\ failed' = failed \cup {s}
  /\ UNCHANGED <<archive, rows, current, answers>>

(* A run ends; a template run may have published its result, under the hash *)
(* of the inputs that were loaded with it.  A parent ends with the children *)
(* it has so far, even while its submission saves others.                   *)
RunEnds(run) ==
  /\ Cardinality({other \in rows : ~ other.active}) < MaxEnded   \* bound
  /\ run.active
  /\ rows' = (rows \ {run}) \cup {[run EXCEPT !.active = FALSE]}
  /\ \/ UNCHANGED current
     \/ /\ ~ IsCardSet(run.target)
        /\ current' = current \cup {Locator(run.target, run.match, run.inputs)}
  /\ UNCHANGED <<archive, saving, failed, answers>>

(* The current result of a locator becomes stale. *)
ResultAges(locator) ==
  /\ current' = current \ {locator}
  /\ UNCHANGED <<archive, rows, saving, failed, answers>>

(* The archive is corrected: another squad, venue or start. *)
MatchCorrected(match, facts) ==
  /\ archive' = [archive EXCEPT ![match] = facts]
  /\ UNCHANGED <<rows, current, saving, failed, answers>>

Init ==
  /\ archive \in [Match -> Facts]
  /\ rows = {}
  /\ current = {}
  /\ saving = {}
  /\ failed = {}
  /\ answers = {}

Next ==
  \/ \E r \in Request : SubmitRun(r)
  \/ \E match \in Match, inputs \in EligibleInputs : Reconcile(match, inputs)
  \/ \E s \in saving : SaveChild(s) \/ ResaveParent(s) \/ SavingFails(s)
  \/ \E run \in rows : RunEnds(run)
  \/ \E locator \in current : ResultAges(locator)
  \/ \E match \in Match, facts \in Facts : MatchCorrected(match, facts)

Spec == Init /\ [][Next]_vars

-----------------------------------------------------------------------------
(* What a locator stands for, said without the way the code builds it: the  *)
(* facts that the template shows, the client's selectors with the defaults, *)
(* and the players with their teams and names.                              *)

MatchShown(t, facts) ==
  CASE t = "h2h_record" -> <<TeamFacts(facts), facts.venue, facts.country, facts.start>>
    [] t \in {"team_form", "team_phase_profiles"} -> <<TeamFacts(facts)>>
    [] t \in {"venue_dna", "player_stats_at_venue"} -> <<facts.format, facts.venue>>
    [] t = "last_5_games" -> <<facts.format>>

SelectorKeys == {"latest_matches", "team_form_latest_matches", "window"}

SelectorsShown(t, supplied) ==
  [key \in SelectorKeys \cap Allowed[t] |->
     IF key \in DOMAIN supplied THEN supplied[key] ELSE Defaults(t)[key]]

PlayersShown(t, supplied, facts) ==
  LET asked == ToSet(Requested(supplied))
      shown == IF "players" \notin Allowed[t] THEN {}
               ELSE IF asked = {} THEN Squad(facts) ELSE asked
  IN [player \in shown |-> PlayerOf(facts, player)]

CardOf(answer, t) ==
  <<answer.request.match, MatchShown(t, answer.facts),
    SelectorsShown(t, answer.request.inputs),
    PlayersShown(t, answer.request.inputs, answer.facts)>>

(* Two submissions are answered the same locator for a template exactly if  *)
(* they ask for the same card: however players are listed, whether defaults *)
(* are spelled out, alone or in a set; and a corrected squad, venue or      *)
(* start gives another locator (ADR-0004).  Only h2h_record has one locator *)
(* when it is asked for alone and another in a set.                         *)
LocatorIdentifiesCard ==
  \A a, b \in answers : \A t \in DOMAIN a.locators \cap DOMAIN b.locators :
    \/ a.locators[t] = b.locators[t] <=> CardOf(a, t) = CardOf(b, t)
    \/ t = "h2h_record" /\ IsCardSet(a.request.target) # IsCardSet(b.request.target)

SavedUnder(t, locator) == \E run \in rows : run.target = t /\ run.locator = locator

Misses(s, t, locator) == \E run \in s.missing : run.target = t /\ run.locator = locator

(* Every locator in an answer is one that a run was saved under, although   *)
(* the answer computes it anew, from a joined run's inputs if there is one. *)
(* Only a request that joined a card set may be answered earlier: then the  *)
(* submission it joined is still to save the run, or failed before it could. *)
AnsweredLocatorsSaved ==
  \A a \in answers : \A t \in DOMAIN a.locators :
    \/ SavedUnder(t, a.locators[t])
    \/ /\ a.joined /\ IsCardSet(a.request.target)
       /\ \E s \in saving \cup failed : Misses(s, t, a.locators[t])

(* Are the facts that the card shows all recorded?  A team, or the team of a *)
(* player, may be missing in the archive, and a name may be empty.          *)
FactsComplete(t, supplied, facts) ==
  /\ t \in {"h2h_record", "team_form", "team_phase_profiles"}
       => facts.team_a > 0 /\ facts.team_b > 0
  /\ LET players == PlayersShown(t, supplied, facts)
     IN \A p \in DOMAIN players : p > 0 /\ players[p].team > 0 /\ players[p].name # NoName

(* The filters of an answered locator fail the validation of its generator  *)
(* exactly if the archive lacks a fact that the card shows: whatever the    *)
(* client asks for, nothing else in them does, and no type assertion of     *)
(* Generate panics.  Every player that is listed is in the context.         *)
AcceptedInputsUsable ==
  \A a \in answers : \A t \in DOMAIN a.locators :
    LET filters == a.locators[t].filters
    IN /\ Usable(t, filters) <=> FactsComplete(t, a.request.inputs, a.facts)
       /\ "players" \in DOMAIN filters =>
            ToSet(filters.players[2]) \subseteq DOMAIN filters.player_context[2]

-----------------------------------------------------------------------------
(* What the documents say and the code does not do *)

(* ADR-0005: the slices at the venue are omitted only if the venue of the   *)
(* match is missing; generateComposite adds them if the venue is a number.  *)
VenueSliceShown ==
  \A a \in answers : "h2h_record" \in DOMAIN a.locators /\ a.facts.venue > 0
    => ScopeId(a.locators["h2h_record"].filters, "venue") > 0

=============================================================================
