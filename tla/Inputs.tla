------------------------------- MODULE Inputs -------------------------------
(***************************************************************************)
(* Inputs: what a card is asked for.  The template configuration           *)
(* (generation/config.go), the inputs that app/app.go derives from a match,*)
(* their validation and identity (generation/sql_module.go, identity.go),  *)
(* and what a card generator takes out of them.  All of it is pure.        *)
(***************************************************************************)
EXTENDS Naturals, Sequences, FiniteSets, SequencesExt

-----------------------------------------------------------------------------
(* Input values as JSON tells them apart.  Two values with different tags   *)
(* are different filters, even if they read alike.                          *)

Number(n) == <<"number", n>>       \* a JSON number that is an integer
Fraction == <<"fraction", 0>>      \* a JSON number that is not
Numeral(n) == <<"numeral", n>>     \* the decimal text of an id
Word(w) == <<"word", w>>           \* other text
Players(ids) == <<"ids", ids>>     \* a list of ids, as texts or numbers
Details(d) == <<"details", d>>     \* player -> team and name

NoInputs == <<>>

(* f, with the keys of g that it does not have itself. *)
Over(f, g) == [k \in DOMAIN f \cup DOMAIN g |-> IF k \in DOMAIN f THEN f[k] ELSE g[k]]

Only(f, keys) == [k \in DOMAIN f \cap keys |-> f[k]]

-----------------------------------------------------------------------------
(* DefaultConfiguration *)

CardSetTemplates ==
  {"h2h_record", "team_form", "venue_dna", "player_stats_at_venue",
   "last_5_games", "team_phase_profiles"}

(* The turn of each in the set. *)
Turn ==
  [h2h_record |-> 1, team_form |-> 2, venue_dna |-> 3, player_stats_at_venue |-> 4,
   last_5_games |-> 5, team_phase_profiles |-> 6]

TeamKeys == {"team_a", "team_b", "format"}

Allowed ==
  [h2h_record            |-> TeamKeys \cup {"latest_matches", "team_form_latest_matches",
                                            "venue", "host_country", "target_start"},
   team_form             |-> TeamKeys \cup {"latest_matches"},
   venue_dna             |-> {"venue", "format", "window"},
   player_stats_at_venue |-> {"players", "venue", "format", "window", "player_context"},
   last_5_games          |-> {"players", "format", "latest_matches", "player_context"},
   team_phase_profiles   |-> TeamKeys \cup {"window"}]

Required ==
  [h2h_record            |-> TeamKeys,
   team_form             |-> TeamKeys,
   venue_dna             |-> {"venue", "format"},
   player_stats_at_venue |-> {"players", "venue", "format"},
   last_5_games          |-> {"players", "format"},
   team_phase_profiles   |-> TeamKeys]

Windowed == {"venue_dna", "player_stats_at_venue", "team_phase_profiles"}

Defaults(t) ==
  IF t \in Windowed THEN [window |-> Word("since_2024")]
  ELSE IF t = "h2h_record"
    THEN [latest_matches |-> Number(10), team_form_latest_matches |-> Number(5)]
    ELSE [latest_matches |-> Number(5)]

(* Is the value among the choices that the template approves for the key? *)
Approved(t, key, value) ==
  CASE key = "format" -> value \in {Word("t20"), Word("odi")}
    [] key = "window" -> value \in {Word("since_2024"), Word("career")}
    [] key = "latest_matches" /\ t = "h2h_record" -> value \in {Number(n) : n \in {5, 10, 15, 20}}
    [] key \in {"latest_matches", "team_form_latest_matches"} -> value \in {Number(n) : n \in {5, 10}}
    [] OTHER -> TRUE

-----------------------------------------------------------------------------
(* validate, InputHash and the stored form of inputs *)

(* validate accepts the inputs ... *)
Valid(t, inputs) ==
  /\ \A key \in DOMAIN inputs :
       /\ inputs[key] # Fraction
       /\ key \in Allowed[t]
       /\ Approved(t, key, inputs[key])
  /\ Required[t] \subseteq DOMAIN inputs \cup DOMAIN Defaults(t)

(* Faulty: the defaults only serve to check what is required. *)
ValidatedAsGiven(t, inputs) == inputs

(* ... and returns them over the template's defaults. *)
Validated(t, inputs) == Over(inputs, Defaults(t))

(* InputHash: SHA-256 of these parts, which tells all of them apart. *)
Locator(target, match, inputs) == [target |-> target, match |-> match, filters |-> inputs]

(* decodeNormalizedInputs: LoadRun fails on a number it cannot store.  What *)
(* it returns encodes to the same JSON as what was stored.                  *)
Loadable(inputs) == \A key \in DOMAIN inputs : inputs[key] # Fraction

(* inputsForTemplate, then validate. *)
InputsOf(t, inputs) == Validated(t, Only(inputs, Allowed[t]))

IsCardSet(target) == target = "pre_toss_v1"

Templates(target) == IF IsCardSet(target) THEN CardSetTemplates ELSE {target}

(* Faulty: every template gets the inputs of the whole set. *)
ResultLocatorsUnfiltered(target, match, inputs) ==
  [t \in Templates(target) |-> Locator(t, match, Validated(t, inputs))]

(* ResultLocators: computed once more, from the inputs of the run. *)
ResultLocators(target, match, inputs) ==
  [t \in Templates(target) |->
     Locator(t, match, IF IsCardSet(target) THEN InputsOf(t, inputs) ELSE inputs)]

-----------------------------------------------------------------------------
(* resolvedInputs *)

Derived == {"team_a", "team_b", "format", "venue", "host_country",
            "target_start", "player_context"}

(* A full name that the player master has, but left empty. *)
NoName == ""

Squad(facts) == {member[1] : member \in facts.squad}

(* A player listed for both teams counts for the one that is listed last. *)
TeamOf(facts, player) ==
  CHOOSE team \in {member[2] : member \in facts.squad} :
    /\ <<player, team>> \in facts.squad
    /\ \A member \in facts.squad : member[1] = player => member[2] <= team

(* Team and name are taken from the archive as they are. *)
PlayerOf(facts, player) ==
  [team |-> TeamOf(facts, player), name |-> facts.names[player]]

NeedsVenue(target) ==
  Templates(target) \cap {"venue_dna", "player_stats_at_venue"} # {}

NeedsPlayers(target) ==
  Templates(target) \cap {"player_stats_at_venue", "last_5_games"} # {}

(* requestedPlayerIDs, none of them if the client leaves the choice open. *)
Requested(supplied) ==
  IF "players" \in DOMAIN supplied THEN supplied.players[2] ELSE <<>>

(* Ids in order, each listed at the number of those that are not above it. *)
(* The code orders their texts: which order it is makes no difference.     *)
Sorted(ids) ==
  [i \in 1 .. Cardinality(ids) |->
     CHOOSE id \in ids : Cardinality({other \in ids : other <= id}) = i]

(* Faulty: the players stay in the order and number the client gave. *)
SelectedAsGiven(supplied, facts) ==
  IF Requested(supplied) = <<>> THEN Sorted(Squad(facts)) ELSE Requested(supplied)

(* selectedPlayers: sorted and without duplicates; the whole squad if open. *)
Selected(supplied, facts) ==
  LET requested == ToSet(Requested(supplied))
  IN Sorted(IF requested = {} THEN Squad(facts) ELSE requested)

(* The submission is one that resolvedInputs does not reject. *)
Resolvable(target, supplied, facts) ==
  /\ DOMAIN supplied \cap Derived = {}
  /\ NeedsVenue(target) => facts.venue > 0
  /\ NeedsPlayers(target) =>
       /\ Squad(facts) # {}
       /\ "players" \in DOMAIN supplied => supplied.players[1] = "ids"
       /\ ToSet(Requested(supplied)) \subseteq Squad(facts) \ {0}

TeamFacts(facts) ==
  [team_a |-> Numeral(facts.team_a), team_b |-> Numeral(facts.team_b),
   format |-> Word(facts.format)]

(* What only h2h_record gets: its venue is a number. *)
H2HFacts(facts) ==
  Over([target_start |-> Word(facts.start)],
       Only([venue |-> Number(facts.venue), host_country |-> Number(facts.country)],
            {key \in {"venue", "host_country"} :
               IF key = "venue" THEN facts.venue > 0 ELSE facts.country > 0}))

PlayerFacts(supplied, facts) ==
  LET players == Selected(supplied, facts)
  IN [players |-> Players(players),
      player_context |-> Details([p \in ToSet(players) |-> PlayerOf(facts, p)])]

(* The inputs, later assignments over earlier ones: where a template of the *)
(* set needs a venue, the venue becomes a text for all of them.             *)
Resolved(target, supplied, facts) ==
  LET templates == Templates(target)
      teams == Only(TeamFacts(facts), UNION {Allowed[t] : t \in templates})
      h2h == IF "h2h_record" \in templates THEN H2HFacts(facts) ELSE NoInputs
      venue == IF NeedsVenue(target) THEN [venue |-> Numeral(facts.venue)] ELSE NoInputs
      players == IF NeedsPlayers(target) THEN PlayerFacts(supplied, facts) ELSE NoInputs
  IN Over(players, Over(venue, Over(h2h, Over(teams, supplied))))

-----------------------------------------------------------------------------
(* What a generator takes out of the filters of its run *)

(* inputID: a positive id, as a number or its text. *)
HasId(filters, key) ==
  /\ key \in DOMAIN filters
  /\ filters[key][1] \in {"number", "numeral"}
  /\ filters[key][2] > 0

IdOf(filters, key) == filters[key][2]

(* inputs[key].(int) and inputs[key].(string), which panic on anything else. *)
HasCount(filters, key) == key \in DOMAIN filters /\ filters[key][1] = "number"
HasWord(filters, key) == key \in DOMAIN filters /\ filters[key][1] = "word"

(* inputs[key].(int) with a default: an id of any other form counts as none. *)
ScopeId(filters, key) == IF HasCount(filters, key) THEN filters[key][2] ELSE 0

(* playerPopulationFrom: the ids that are listed, and the details of every  *)
(* player in the context, whether it is listed or not.                      *)
HasPlayers(filters) ==
  /\ {"players", "player_context"} \subseteq DOMAIN filters
  /\ filters.players[1] = "ids" /\ filters.players[2] # <<>>
  /\ \A i \in DOMAIN filters.players[2] : filters.players[2][i] > 0
  /\ filters.player_context[1] = "details"
  /\ \A p \in DOMAIN filters.player_context[2] :
       /\ p > 0
       /\ filters.player_context[2][p].team > 0
       /\ filters.player_context[2][p].name # NoName

HasTeams(filters) == HasId(filters, "team_a") /\ HasId(filters, "team_b")

(* Generate reaches its first query: no validation failure and no panic. *)
Usable(t, filters) ==
  /\ "format" \in DOMAIN filters /\ filters.format \in {Word("t20"), Word("odi")}
  /\ CASE t = "h2h_record" -> /\ HasTeams(filters)
                              /\ HasCount(filters, "latest_matches")
                              /\ HasWord(filters, "target_start")
       [] t = "team_form" -> HasTeams(filters) /\ HasCount(filters, "latest_matches")
       [] t = "venue_dna" -> HasId(filters, "venue")
       [] t = "player_stats_at_venue" -> /\ HasPlayers(filters)
                                         /\ HasId(filters, "venue")
                                         /\ HasWord(filters, "window")
       [] t = "last_5_games" -> HasPlayers(filters) /\ HasCount(filters, "latest_matches")
       [] t = "team_phase_profiles" -> HasTeams(filters) /\ HasWord(filters, "window")

=============================================================================
