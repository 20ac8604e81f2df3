------------------------------- MODULE History -------------------------------
(***************************************************************************)
(* The historical archive and the queries of the card generators: match,   *)
(* scorecard and ball-by-ball tables of a database that others write, read *)
(* through generation/h2h.go, team_form.go, venue_dna.go, player_venue.go, *)
(* last5.go and phase_profiles.go.                                         *)
(*                                                                         *)
(* A query counts, adds up or lists matches by some key (a team, a player, *)
(* a phase).  What it answers is kept as the set of the matches that it    *)
(* counts for each key, from which the numbers of a card follow.           *)
(***************************************************************************)
EXTENDS Integers, FiniteSets

CONSTANTS
  Matches,    \* match id -> the facts of the match
  CountryOf,  \* venue -> its country, 0 if none is recorded
  Since2024,  \* the first date of the window since_2024
  Ever        \* a date that all matches precede

VARIABLES
  recorded,   \* matches with rows in the match and scorecard tables
  archived    \* those of them with isArchived = 1

MatchId == DOMAIN Matches

(* Dates count from 0.  A venue of a match that has no country counts as 0. *)
ASSUME HistoryAssumption ==
  /\ IsFiniteSet(MatchId)
  /\ \A m \in MatchId : /\ Matches[m].start \in Nat
                        /\ Matches[m].innings \in Nat /\ Matches[m].balls \in Nat
                        /\ Matches[m].venue \in DOMAIN CountryOf

HistoryInit ==
  /\ recorded \in SUBSET MatchId
  /\ archived \in SUBSET recorded

(* A match is recorded while it is played, and archived when it is over. *)
MatchRecorded(m) ==
  /\ m \notin recorded
  /\ recorded' = recorded \cup {m}
  /\ UNCHANGED archived

MatchArchived(m) ==
  /\ m \in recorded \ archived
  /\ archived' = archived \cup {m}
  /\ UNCHANGED recorded

-----------------------------------------------------------------------------
(* Phases *)

Phase == {"powerplay", "middle", "death"}

PhaseBetween(n, powerplay, middle) ==
  IF n <= powerplay THEN "powerplay" ELSE IF n <= middle THEN "middle" ELSE "death"

(* phaseNameExpression: by the over in which a ball is bowled. *)
PhaseOfOver(format, ball) ==
  LET over == (ball - 1) \div 6 + 1
  IN IF format = "odi" THEN PhaseBetween(over, 10, 40) ELSE PhaseBetween(over, 6, 15)

(* VenuePhaseBenchmarks: by the number of the ball, in either format. *)
PhaseOfBall(ball) == PhaseBetween(ball, 6, 15)

-----------------------------------------------------------------------------
(* Questions: what is counted, for which keys, in which scope, how many of   *)
(* the newest at most (0: all), and whether matches in play count as well.  *)

AllVenues == DOMAIN CountryOf
VenuesIn(country) == {v \in AllVenues : CountryOf[v] = country}

(* The country of a venue; the subquery is NULL if none is recorded. *)
VenuesAround(venue) ==
  IF CountryOf[venue] = 0 THEN {} ELSE VenuesIn(CountryOf[venue])

Scope(format, venues) == [format |-> format, venues |-> venues, from |-> 0, before |-> Ever]

InWindow(scope, window) ==
  IF window = "since_2024" THEN [scope EXCEPT !.from = Since2024] ELSE scope

Question(what, keys, scope) ==
  [what |-> what, keys |-> keys, scope |-> scope, latest |-> 0, inPlay |-> FALSE]

InScope(m, scope) ==
  /\ Matches[m].format = scope.format
  /\ Matches[m].venue \in scope.venues
  /\ scope.from <= Matches[m].start
  /\ Matches[m].start < scope.before

(* Does the match count for the key?  Its innings are rows of one table, and *)
(* its balls of another: a match may have either without the other.  A phase *)
(* is one of a batting team; all innings are taken to be of one length.     *)
Counts(what, m, key) ==
  LET match == Matches[m]
  IN CASE what = "between" -> match.teams = key
       [] what = "plays" -> key \in match.teams
       [] what = "first_innings" -> match.innings > 0
       [] what = "bats" -> key \in match.batted
       [] what = "bowls" -> key \in match.bowled
       [] what = "appears" -> key \in match.batted \cup match.bowled
       [] what = "phase" ->
            /\ key[1] \in match.teams
            /\ \E ball \in 1 .. match.balls : PhaseOfOver(match.format, ball) = key[2]
       [] what = "ball_phase" -> \E ball \in 1 .. match.balls : PhaseOfBall(ball) = key

(* The matches a question counts for a key, in a given state of the tables. *)
PopulationIn(tables, question, key) ==
  {m \in IF question.inPlay THEN tables.recorded ELSE tables.archived :
     InScope(m, question.scope) /\ Counts(question.what, m, key)}

Tables == [recorded |-> recorded, archived |-> archived]

Population(question, key) == PopulationIn(Tables, question, key)

(* Faulty: LIMIT n without an ORDER BY. *)
NewestUnordered(matches, n) ==
  {list \in SUBSET matches :
     Cardinality(list) = IF Cardinality(matches) < n THEN Cardinality(matches) ELSE n}

(* ORDER BY start DESC LIMIT n: ties are broken in any way (LastGames breaks *)
(* them by id, which is one of the ways).                                   *)
Newest(matches, n) ==
  {list \in SUBSET matches :
     /\ Cardinality(list) = IF Cardinality(matches) < n THEN Cardinality(matches) ELSE n
     /\ \A m \in list, other \in matches \ list : Matches[m].start >= Matches[other].start}

(* The answers a query may give now. *)
Answers(question) ==
  LET lists == [key \in question.keys |-> Newest(Population(question, key), question.latest)]
  IN IF question.latest = 0
       THEN {[key \in question.keys |-> Population(question, key)]}
       ELSE {answer \in [question.keys -> UNION {lists[key] : key \in question.keys}] :
               \A key \in question.keys : answer[key] \in lists[key]}

=============================================================================
