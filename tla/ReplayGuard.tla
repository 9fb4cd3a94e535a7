----------------------------- MODULE ReplayGuard -----------------------------
(***************************************************************************)
(* The promise of a replay filter, without its data structures: a digest   *)
(* is reported as seen exactly when a query of it was answered "not seen"  *)
(* less than TTL ago.  At capacity, and only then, the filter may forget   *)
(* one digest early, and it forgets the one it has known longest.          *)
(***************************************************************************)
EXTENDS Integers, FiniteSets

CONSTANTS Digests, Times, MaxFilterSize, TTL

VARIABLES seen, now, hit

vars == <<seen, now, hit>>

Init ==
  /\ seen = {}
  /\ now \in Times
  /\ hit = FALSE

Live(t) == {e \in seen : t - e.firstSeen < TTL}

\* S is what is remembered when the query of time t is answered.
Remembers(S, t) ==
  LET dropped == Live(t) \ S IN
  /\ S \subseteq Live(t)
  /\ Cardinality(seen) < MaxFilterSize => dropped = {}
  /\ Cardinality(dropped) <= 1
  /\ \A e \in dropped, f \in S : e.firstSeen <= f.firstSeen

Query(t, d) ==
  /\ t >= now
  /\ now' = t
  /\ \E S \in SUBSET seen :
       /\ Remembers(S, t)
       /\ hit' = (d \in {e.digest : e \in S})
       /\ seen' = IF hit'
                  THEN S
                  ELSE S \cup {[digest |-> d, firstSeen |-> t]}

Next == \E t \in Times, d \in Digests : Query(t, d)

Spec == Init /\ [][Next]_vars
=============================================================================
