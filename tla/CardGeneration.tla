--------------------------- MODULE CardGeneration ---------------------------
(***************************************************************************)
(* Card generation: the generators of generation/h2h.go, team_form.go,     *)
(* venue_dna.go, player_venue.go, last5.go and phase_profiles.go.  Each    *)
(* asks the archive one question after another, with no transaction around *)
(* them, while matches are recorded and archived; the answers decide which *)
(* question is next, what the card shows and how the generation ends.      *)
(***************************************************************************)
EXTENDS Inputs, History

CONSTANTS
  Query,          \* what is to be generated: [template, filters]
  VenueMinimum,   \* venueMinimumSample, 10 in the code
  PlayerMinimum,  \* playerVenueMinimumInnings, 15 in the code
  PhaseMinimum,   \* phaseMinimumInnings, 10 in the code
  MaxChanges      \* bound on what the archive gains during a generation

ASSUME MinimumAssumption ==
  /\ VenueMinimum \in Nat \ {0}
  /\ PlayerMinimum \in Nat \ {0}
  /\ PhaseMinimum \in Nat \ {0}

(* validate approves a few positive counts only. *)
ASSUME QueryAssumption ==
  \A query \in Query :
    /\ query.template \in CardSetTemplates
    /\ \A key \in {"latest_matches", "team_form_latest_matches"} :
         HasCount(query.filters, key) => query.filters[key][2] \in Nat \ {0}

VARIABLE job      \* the generation: its query, its answers and its outcome

cardVars == <<recorded, archived, job>>

Outcome ==
  {"none",         \* still generating
   "content", "no_content",
   "unencodable",  \* the data has a NaN, which SaveResult cannot encode
   "validation", "transient", "sample"}   \* kinds of failure

CardInit ==
  /\ HistoryInit
  /\ \E query \in Query :
       job = [query |-> query, answers |-> NoInputs, begun |-> Tables, outcome |-> "none"]

-----------------------------------------------------------------------------
(* The questions of each generator, by the names of their answers *)

Format(filters) == filters.format[2]
Teams(filters) == {IdOf(filters, "team_a"), IdOf(filters, "team_b")}
Latest(filters) == filters.latest_matches[2]
FormLatest(filters) ==
  IF HasCount(filters, "team_form_latest_matches")
    THEN filters.team_form_latest_matches[2] ELSE 5

Anywhere(filters) == Scope(Format(filters), AllVenues)

(* generateComposite: three places, each with the matches before the target's. *)
Place(name) ==
  IF name \in {"h2h", "form_a", "form_b"} THEN "overall"
  ELSE IF name \in {"h2h_at_venue", "form_a_at_venue", "form_b_at_venue"} THEN "venue"
  ELSE "country"

H2HScope(filters, name) ==
  LET venues == CASE Place(name) = "overall" -> AllVenues
                  [] Place(name) = "venue" -> {ScopeId(filters, "venue")}
                  [] Place(name) = "country" -> VenuesIn(ScopeId(filters, "host_country"))
  IN [Scope(Format(filters), venues) EXCEPT !.before = filters.target_start[2]]

FormKey(filters, name) ==
  IdOf(filters, IF name \in {"form_a", "form_a_at_venue", "form_a_in_country"}
                  THEN "team_a" ELSE "team_b")

H2HQuestion(filters, name) ==
  IF name \in {"h2h", "h2h_at_venue"}
    THEN [Question("between", {Teams(filters)}, H2HScope(filters, name))
            EXCEPT !.latest = Latest(filters)]
    ELSE [Question("plays", {FormKey(filters, name)}, H2HScope(filters, name))
            EXCEPT !.latest = FormLatest(filters)]

TeamFormQuestion(filters, name) ==
  [Question("plays", {FormKey(filters, name)}, Anywhere(filters))
     EXCEPT !.latest = Latest(filters)]

(* Faulty: the benchmarks are those of the venue, whatever the sample is of. *)
VenuesOfVenueOnly(filters, name, answers) ==
  LET venue == IdOf(filters, "venue")
  IN IF name = "country" THEN VenuesAround(venue) ELSE {venue}

(* The benchmarks are of the country if the sample fell back to it. *)
VenuesOf(filters, name, answers) ==
  LET venue == IdOf(filters, "venue")
      country == name = "country" \/ (name = "benchmarks" /\ "country" \in DOMAIN answers)
  IN IF country THEN VenuesAround(venue) ELSE {venue}

VenueQuestion(filters, name, answers) ==
  LET scope == InWindow(Scope(Format(filters), VenuesOf(filters, name, answers)),
                        IF HasWord(filters, "window") THEN filters.window[2] ELSE "")
  IN IF name = "benchmarks" THEN Question("ball_phase", Phase, scope)
                            ELSE Question("first_innings", {"all"}, scope)

(* PlayerVenueStats and LastGames read the scorecards of any recorded match. *)
PlayerQuestion(filters, name) ==
  LET scoped == InWindow(Scope(Format(filters), {IdOf(filters, "venue")}), filters.window[2])
      bats == name \in {"batting", "career_batting"}
  IN [Question(IF name = "games" THEN "appears" ELSE IF bats THEN "bats" ELSE "bowls",
               ToSet(filters.players[2]),
               IF name \in {"batting", "bowling"} THEN scoped ELSE Anywhere(filters))
        EXCEPT !.inPlay = TRUE, !.latest = IF name = "games" THEN Latest(filters) ELSE 0]

(* Faulty: the window is that of the other statement. *)
PhaseQuestionSwapped(filters, name) ==
  Question("phase", Teams(filters) \X Phase,
           IF name = "career_phases" THEN InWindow(Anywhere(filters), filters.window[2])
                                     ELSE Anywhere(filters))

PhaseQuestion(filters, name) ==
  Question("phase", Teams(filters) \X Phase,
           IF name = "phases" THEN InWindow(Anywhere(filters), filters.window[2])
                              ELSE Anywhere(filters))

QuestionOf(query, name, answers) ==
  LET filters == query.filters
  IN CASE query.template = "h2h_record" -> H2HQuestion(filters, name)
       [] query.template = "team_form" -> TeamFormQuestion(filters, name)
       [] query.template = "venue_dna" -> VenueQuestion(filters, name, answers)
       [] query.template \in {"player_stats_at_venue", "last_5_games"} ->
            PlayerQuestion(filters, name)
       [] query.template = "team_phase_profiles" -> PhaseQuestion(filters, name)

-----------------------------------------------------------------------------
(* The order of the questions, and which of them the answers ask for *)

Order ==
  [h2h_record            |-> <<"h2h", "form_a", "form_b",
                               "h2h_at_venue", "form_a_at_venue", "form_b_at_venue",
                               "form_a_in_country", "form_b_in_country">>,
   team_form             |-> <<"form_a", "form_b">>,
   venue_dna             |-> <<"venue", "country", "benchmarks">>,
   player_stats_at_venue |-> <<"batting", "bowling", "career_batting", "career_bowling">>,
   last_5_games          |-> <<"games", "career_batting", "career_bowling">>,
   team_phase_profiles   |-> <<"phases", "career_phases">>]

NoneFound(answers, names) ==
  \A name \in names : \A key \in DOMAIN answers[name] : answers[name][key] = {}

Overall == {"h2h", "form_a", "form_b"}

(* The slices of a place need a match anywhere, and the place. *)
H2HDue(filters, answers, name) ==
  \/ name \in Overall
  \/ /\ Overall \subseteq DOMAIN answers /\ ~ NoneFound(answers, Overall)
     /\ ScopeId(filters, IF Place(name) = "venue" THEN "venue" ELSE "host_country") > 0

(* The matches that the venue card is about. *)
Sample(answers) ==
  IF "country" \in DOMAIN answers THEN answers["country"]["all"] ELSE answers["venue"]["all"]

TooFew(matches) == Cardinality(matches) < VenueMinimum

VenueDue(answers, name) ==
  \/ name = "venue"
  \/ /\ "venue" \in DOMAIN answers
     /\ IF name = "country" THEN TooFew(answers["venue"]["all"]) ELSE ~ TooFew(Sample(answers))

Due(query, answers, name) ==
  /\ query.template = "h2h_record" => H2HDue(query.filters, answers, name)
  /\ query.template = "venue_dna" => VenueDue(answers, name)

(* The places in the order of what is due and not answered yet. *)
Unasked(query, answers) ==
  LET order == Order[query.template]
  IN {i \in DOMAIN order : order[i] \notin DOMAIN answers /\ Due(query, answers, order[i])}

-----------------------------------------------------------------------------
(* How a generation ends once all is asked *)

(* teamSummary divides the wins by the number of matches of the slice. *)
Encodable(answers) ==
  \A name \in {"h2h", "h2h_at_venue"} \cap DOMAIN answers :
    ~ NoneFound(answers, {name})

(* Faulty: either team without a match fails the card. *)
TeamFormMissingEither(answers) ==
  NoneFound(answers, {"form_a"}) \/ NoneFound(answers, {"form_b"})

TeamFormMissing(answers) ==
  NoneFound(answers, {"form_a"}) /\ NoneFound(answers, {"form_b"})

Ending(query, answers) ==
  CASE query.template = "h2h_record" ->
         IF NoneFound(answers, Overall) THEN "no_content"
         ELSE IF Encodable(answers) THEN "content" ELSE "unencodable"
    [] query.template = "team_form" ->
         IF TeamFormMissing(answers) THEN "sample" ELSE "content"
    [] query.template = "venue_dna" ->
         IF TooFew(Sample(answers)) THEN "sample" ELSE "content"
    [] OTHER -> "content"

(* What is shown of a player, or of a phase: the career if there is too     *)
(* little in the window.                                                    *)
PlayerRow(answers, name, player) ==
  LET scoped == answers[name][player]
      career == IF name = "batting" THEN "career_batting" ELSE "career_bowling"
  IN IF Cardinality(scoped) < PlayerMinimum THEN answers[career][player] ELSE scoped

PhaseRow(answers, key) ==
  IF Cardinality(answers["phases"][key]) < PhaseMinimum
    THEN answers["career_phases"][key] ELSE answers["phases"][key]

-----------------------------------------------------------------------------
(* Steps *)

Generating == job.outcome = "none"

(* inputID, formatID, playerPopulationFrom: before the first question. *)
Refuse ==
  /\ Generating /\ ~ Usable(job.query.template, job.query.filters)
  /\ job' = [job EXCEPT !.outcome = "validation"]
  /\ UNCHANGED <<recorded, archived>>

NextQuestion ==
  /\ Generating /\ Usable(job.query.template, job.query.filters)
  /\ Unasked(job.query, job.answers) # {}

Ask ==
  /\ NextQuestion
  /\ \E i \in Unasked(job.query, job.answers) :
       /\ \A j \in Unasked(job.query, job.answers) : i <= j
       /\ LET name == Order[job.query.template][i]
          IN \E answer \in Answers(QuestionOf(job.query, name, job.answers)) :
               job' = [job EXCEPT !.answers = Over([n \in {name} |-> answer], @)]
  /\ UNCHANGED <<recorded, archived>>

(* A query fails, or the run's deadline passes. *)
QueryFails ==
  /\ NextQuestion
  /\ job' = [job EXCEPT !.outcome = "transient"]
  /\ UNCHANGED <<recorded, archived>>

Finish ==
  /\ Generating /\ Usable(job.query.template, job.query.filters)
  /\ Unasked(job.query, job.answers) = {}
  /\ job' = [job EXCEPT !.outcome = Ending(job.query, job.answers)]
  /\ UNCHANGED <<recorded, archived>>

(* The archive goes on while a card is generated. *)
Changes ==
  Cardinality(recorded \ job.begun.recorded) + Cardinality(archived \ job.begun.archived)

ArchiveStep ==
  /\ Generating /\ Changes < MaxChanges
  /\ \E m \in MatchId : MatchRecorded(m) \/ MatchArchived(m)
  /\ UNCHANGED job

CardNext == Refuse \/ Ask \/ QueryFails \/ Finish \/ ArchiveStep

CardSpec == CardInit /\ [][CardNext]_cardVars

-----------------------------------------------------------------------------
(* Properties *)

(* May the newest of some matches, limit of them, leave m out? *)
PushedOut(m, list, limit) ==
  /\ Cardinality(list) = limit
  /\ \A other \in list : Matches[other].start >= Matches[m].start

(* The slices of a wide one. *)
Narrow ==
  [h2h    |-> {"h2h_at_venue"},
   form_a |-> {"form_a_at_venue", "form_a_in_country"},
   form_b |-> {"form_b_at_venue", "form_b_in_country"}]

(* The slices of one head-to-head card are separate statements (h2h.go:110, *)
(* 129), yet what a wide one lists of the venue, or of the country, is in   *)
(* the narrow one that was asked for later, unless newer matches fill it.   *)
SlicesAgree ==
  LET answers == job.answers
      limit(name) == IF name = "h2h" THEN Latest(job.query.filters)
                                     ELSE FormLatest(job.query.filters)
  IN job.query.template = "h2h_record" =>
       \A wide \in Overall \cap DOMAIN answers : \A narrow \in Narrow[wide] \cap DOMAIN answers :
         LET venues == QuestionOf(job.query, narrow, answers).scope.venues
         IN \A key \in DOMAIN answers[wide] : \A m \in answers[wide][key] :
              Matches[m].venue \in venues =>
                \/ m \in answers[narrow][key]
                \/ PushedOut(m, answers[narrow][key], limit(wide))

Done == job.outcome = "content"

(* Falling back to the career is for want of matches (player_venue.go:51,   *)
(* phase_profiles.go:51): a row of a card never shows less than the window  *)
(* had, and the career that the arrow of last_5_games compares with         *)
(* (last5.go:46) has every innings that the arrow is about.                 *)
FallbackNeverShrinks ==
  Done =>
    LET answers == job.answers
    IN CASE job.query.template = "player_stats_at_venue" ->
              \A name \in {"batting", "bowling"} : \A p \in DOMAIN answers[name] :
                answers[name][p] \subseteq PlayerRow(answers, name, p)
         [] job.query.template = "last_5_games" ->
              \A p \in DOMAIN answers["games"] : \A m \in answers["games"][p] :
                /\ p \in Matches[m].batted => m \in answers["career_batting"][p]
                /\ p \in Matches[m].bowled => m \in answers["career_bowling"][p]
         [] job.query.template = "team_phase_profiles" ->
              \A key \in DOMAIN answers["phases"] :
                answers["phases"][key] \subseteq PhaseRow(answers, key)
         [] OTHER -> TRUE

(* The averages and the phase benchmarks of a venue card come from separate *)
(* statements (venue_dna.go:42, 73), with or without the fallback to the    *)
(* country: a match behind an average is behind the benchmark of each phase *)
(* that the archive has balls of.                                           *)
BenchmarksCoverSample ==
  Done /\ job.query.template = "venue_dna" =>
    \A m \in Sample(job.answers) : \A phase \in Phase :
      Counts("ball_phase", m, phase) => m \in job.answers["benchmarks"][phase]

(* A sample failure ends the run for good and no content is final, so both  *)
(* need a reason: what is found missing was missing when the generation     *)
(* began, whatever the archive gained in between.                           *)
HistoryNotMissed ==
  LET query == job.query
      had(name) ==
        LET question == QuestionOf(query, name, job.answers)
        IN UNION {PopulationIn(job.begun, question, key) : key \in question.keys}
  IN /\ job.outcome = "no_content" => \A name \in Overall : had(name) = {}
     /\ job.outcome = "sample" =>
          IF query.template = "team_form" THEN had("form_a") \cup had("form_b") = {}
          ELSE TooFew(had("venue") \cup had("country"))

(* docs/adr/0005: "A valid scoped population with no records is returned as *)
(* an explicit empty slice", and a section without overall history is       *)
(* "explicit and empty": a generation with history has data to store.       *)
EmptySlicesReturned == job.outcome # "unencodable"

=============================================================================
