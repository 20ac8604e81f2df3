------------------------------ MODULE MCIntake ------------------------------
(* A small instance of Intake for TLC. *)
EXTENDS Intake, TLC

CONSTANT m1

AtVenue ==
  [team_a |-> 1, team_b |-> 2, format |-> "t20", venue |-> 4, country |-> 7,
   start |-> 1, squad |-> {<<11, 1>>, <<12, 2>>},
   names |-> 11 :> "sharma" @@ 12 :> "smith" @@ 13 :> "khan"]

(* A correction: player 11 is listed for the other team as well, and the    *)
(* squad has a player whose name is empty.                                  *)
OtherSquad ==
  [AtVenue EXCEPT !.squad = @ \cup {<<11, 2>>, <<13, 2>>}, !.names[13] = NoName]

(* Neither the venue nor its country is recorded, nor one of the teams.     *)
NoVenue == [AtVenue EXCEPT !.venue = 0, !.country = 0, !.team_b = 0]

MatchFacts == {AtVenue, OtherSquad, NoVenue}

Ask(target, inputs) ==
  [target |-> target, match |-> m1, inputs |-> inputs, mode |-> "normal",
   role |-> "scheduler"]

Requests ==
  {Ask("h2h_record", NoInputs),
   Ask("h2h_record", [latest_matches |-> Number(10)]),
   Ask("h2h_record", [latest_matches |-> Number(15)]),
   Ask("h2h_record", [venue |-> Number(4)]),
   Ask("team_form", [latest_matches |-> Number(15)]),
   Ask("last_5_games", NoInputs),
   Ask("last_5_games", [players |-> Players(<<12, 11, 12>>)]),
   Ask("last_5_games", [players |-> Players(<<13>>)]),
   Ask("venue_dna", NoInputs),
   Ask("pre_toss_v1", NoInputs),
   Ask("pre_toss_v1", [latest_matches |-> Number(10)]),
   Ask("pre_toss_v1", [other |-> Fraction]),
   [Ask("team_form", NoInputs) EXCEPT !.mode = "regeneration"],
   [Ask("team_form", NoInputs) EXCEPT !.mode = "regeneration", !.role = "editor"]}

(* Inputs for a card set as the tests of the reconciler give them. *)
Eligible ==
  {[team_a |-> Word("india"), team_b |-> Word("australia"), format |-> Word("t20"),
    venue |-> Word("wankhede"), players |-> Players(<<11>>)]}

=============================================================================
