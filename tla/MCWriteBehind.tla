--------------------------- MODULE MCWriteBehind ---------------------------
(* Small instances of WriteBehind for TLC. *)
EXTENDS WriteBehind, TLC

CONSTANTS h1, h2, w1, w2, w3, w4

TwoHandlers == {h1, h2}
ThreeWrites == {w1, w2, w3}
FourWrites == {w1, w2, w3, w4}

\* Handlers and writes are interchangeable: no action or invariant names one.
Symmetry == Permutations(Handlers) \union Permutations(Writes)

=============================================================================
