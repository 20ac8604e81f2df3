------------------------ MODULE MCGenerationService ------------------------
(***************************************************************************)
(* Small instances of GenerationService for TLC.                           *)
(***************************************************************************)
EXTENDS GenerationService, TLC

CONSTANTS
  r1, r2, r3, w1, w2, p1, p2, me, you, pre_toss, h2h, dna, s1, s2

NoMembers == [c \in CardSet |-> <<>>]
TwoMembers == [c \in CardSet |-> <<h2h, dna>>]

(* Two service processes, one worker each. *)
OwnProcess == w1 :> p1 @@ w2 :> p2
(* Every deployed process uses the default worker id of app.New. *)
SameName == [p \in Process |-> me]
OwnName == p1 :> me @@ p2 :> you

(* One process. *)
OneProcess == [w \in Worker |-> p1]

=============================================================================
