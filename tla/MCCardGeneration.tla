-------------------------- MODULE MCCardGeneration --------------------------
(* A small instance of CardGeneration for TLC. *)
EXTENDS CardGeneration

CONSTANTS m1, m2, m3, m4, m5

Played(start, venue, teams, players) ==
  [start |-> start, venue |-> venue, teams |-> teams, format |-> "t20",
   batted |-> players, bowled |-> players \ {12}, innings |-> 2, balls |-> 60]

(* m1 is before the window, m2 has no ball-by-ball rows, m3 is of another   *)
(* venue of the country, m4 is abandoned and m5 is the match that the cards *)
(* are about.                                                               *)
FiveMatches ==
  [m \in {m1, m2, m3, m4, m5} |->
     CASE m = m1 -> Played(1, 4, {1, 2}, {11, 12})
       [] m = m2 -> [Played(4, 4, {1, 2}, {11, 12}) EXCEPT !.balls = 0]
       [] m = m3 -> Played(5, 5, {1, 3}, {11})
       [] m = m4 -> [Played(6, 4, {1, 2}, {}) EXCEPT !.innings = 0, !.balls = 0]
       [] m = m5 -> Played(8, 4, {1, 2}, {11, 12})]

TwoVenues == [v \in {4, 5} |-> 7]

Facts ==
  [team_a |-> 1, team_b |-> 2, format |-> "t20", venue |-> 4, country |-> 7,
   start |-> 8, squad |-> {<<11, 1>>, <<12, 2>>},
   names |-> [p \in {11, 12} |-> "known"]]

(* The newest two take the place of the newest ten or five. *)
Scaled(filters) ==
  [key \in DOMAIN filters |->
     IF key \in {"latest_matches", "team_form_latest_matches"} THEN Number(2)
     ELSE filters[key]]

Card(target, t, supplied) ==
  [template |-> t, filters |-> Scaled(InputsOf(t, Resolved(target, supplied, Facts)))]

(* A reconciler's inputs, which no match has been asked for. *)
Unresolved ==
  [template |-> "venue_dna",
   filters |-> InputsOf("venue_dna", [venue |-> Word("wankhede"), format |-> Word("t20")])]

Queries ==
  {Card("h2h_record", "h2h_record", NoInputs),
   Card("pre_toss_v1", "h2h_record", NoInputs),
   Card("venue_dna", "venue_dna", [window |-> Word("career")]),
   Unresolved}
  \cup {Card("pre_toss_v1", t, NoInputs) : t \in CardSetTemplates \ {"h2h_record"}}

=============================================================================
