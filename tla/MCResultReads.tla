--------------------------- MODULE MCResultReads ---------------------------
(* Small instances of ResultReads for TLC. *)
EXTENDS ResultReads, TLC

CONSTANTS r1, r2, w1, w2, p1, p2, me, you, h2h, s1, c1

NoMembers == [c \in CardSet |-> <<>>]
OwnProcess == [w \in Worker |-> IF w = w1 THEN p1 ELSE p2]
OwnName == [p \in Process |-> IF p = p1 THEN me ELSE you]

=============================================================================
