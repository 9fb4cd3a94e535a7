----------------------- MODULE MCObfs4ServerHandshake -----------------------
(* Small instances of Obfs4ServerHandshake for TLC. *)
EXTENDS Obfs4ServerHandshake, TLC

MCTimes == 0 .. MaxTime

\* A client's clock is an hour off, either way.  (A client whose clock is
\* right is like one that is ahead, a tick of HourLength later.)
MCSkews == {-1, 1}

Symmetry == Permutations(Conns) \cup Permutations(Digests)
=============================================================================
