--------------------------- MODULE MCEntityCache ---------------------------
(* A small instance of EntityCache for TLC. *)
EXTENDS EntityCache, TLC

CONSTANTS r1, u1, u2, i1, i2, q1, q2, k1, k2

OneReader == {r1}
TwoWriters == {u1, u2}
TwoIds == {i1, i2}
TwoQueries == {q1, q2}
TwoKeys == {k1, k2}

\* Two queries with different filters; the second selects every record.
OwnKeys == q1 :> k1 @@ q2 :> k2
Nested == q1 :> {i1} @@ q2 :> {i1, i2}

Symmetry == Permutations(Writers)
=============================================================================
