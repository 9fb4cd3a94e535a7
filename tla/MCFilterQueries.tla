-------------------------- MODULE MCFilterQueries ---------------------------
(* Small instances of FilterQueries for TLC. *)
EXTENDS FilterQueries, TLC

\* Enough ticks to expire an entry twice over.
MCTimes == 0 .. 8

Symmetry == Permutations(Digests)
=============================================================================
