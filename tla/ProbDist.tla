------------------------------ MODULE ProbDist ------------------------------
(***************************************************************************)
(* The weighted distributions that lengths and delays are drawn from:      *)
(* Reset, which makes the tables of Vose's alias method from weights, one  *)
(* turn of its loops at a time, and Sample, which uses them.  Probability  *)
(* is counted in parts: 1.0 is the sum of the weights, and a weight times  *)
(* the number of values is exact (there is no rounding).                   *)
(***************************************************************************)
EXTENDS Integers, Sequences, SequencesExt

CONSTANTS
  MaxValues,    \* maxValues, scaled down
  MaxWeight     \* BOUND: weights are whole numbers up to this

ASSUME ProbDistAssumption == MaxValues \in Nat \ {0} /\ MaxWeight \in Nat

VARIABLES
  weights,        \* of the values, by index
  scaled,         \* what is left of each, times their number
  small, large,   \* the worklists
  prob, alias,    \* the tables
  locked          \* Reset holds the lock: no Sample

distVars == <<weights, scaled, small, large, prob, alias, locked>>

DistInit ==
  /\ weights = <<1>> /\ scaled = <<1>>
  /\ small = <<>> /\ large = <<>>
  /\ prob = <<1>> /\ alias = <<0>>
  /\ locked = FALSE

Total(w) ==
  LET sum[i \in 0 .. Len(w)] == IF i = 0 THEN 0 ELSE sum[i - 1] + w[i]
  IN sum[Len(w)]
One == Total(weights)

\* The worklist of the values in S, of n: they are pushed as they come.
InOrder(S, n) ==
  LET list[i \in 0 .. n] ==
        IF i = 0 THEN <<>> ELSE IF i \in S THEN Append(list[i - 1], i) ELSE list[i - 1]
  IN list[n]

\* Reset draws a number of values and their weights (whether biased or not),
\* not all of them 0, and sorts the scaled ones into the worklists.
Reset(w) ==
  LET n == Len(w)
      s == [i \in 1 .. n |-> w[i] * n]
  IN /\ ~locked /\ locked' = TRUE
     /\ weights' = w /\ scaled' = s
     /\ small' = InOrder({i \in 1 .. n : s[i] < Total(w)}, n)
     /\ large' = InOrder({i \in 1 .. n : s[i] >= Total(w)}, n)
     /\ prob' = [i \in 1 .. n |-> 0] /\ alias' = [i \in 1 .. n |-> 0]

\* Mutant: the one that gave keeps what it gave.
LeftAfterGivingAll(g, l) == scaled[g]

\* What a large one has left when it has filled up a small one.
LeftAfterGiving(g, l) == (scaled[g] + scaled[l]) - One

\* The first of both lists: the large one fills up the small one.
PairUp ==
  /\ locked /\ small # <<>> /\ large # <<>>
  /\ LET l == Head(small)
         g == Head(large)
         left == LeftAfterGiving(g, l)
     IN /\ prob' = [prob EXCEPT ![l] = scaled[l]]
        /\ alias' = [alias EXCEPT ![l] = g]
        /\ scaled' = [scaled EXCEPT ![g] = left]
        /\ small' = IF left < One THEN Append(Tail(small), g) ELSE Tail(small)
        /\ large' = IF left < One THEN Tail(large) ELSE Append(Tail(large), g)
  /\ UNCHANGED <<weights, locked>>

\* What is left in one of the lists is certain; Reset is done when both are empty.
FillUp ==
  /\ locked /\ (small = <<>> \/ large = <<>>)
  /\ prob' = [i \in DOMAIN prob |-> IF Contains(small, i) \/ Contains(large, i) THEN One ELSE prob[i]]
  /\ small' = <<>> /\ large' = <<>> /\ locked' = FALSE
  /\ UNCHANGED <<weights, scaled, alias>>

DistNext ==
  \/ \E n \in 1 .. MaxValues : \E w \in [1 .. n -> 0 .. MaxWeight] : Total(w) > 0 /\ Reset(w)
  \/ PairUp \/ FillUp

DistSpec == DistInit /\ [][DistNext]_distVars

-----------------------------------------------------------------------------
\* Sample rolls a side i, all alike, and returns i with prob[i], alias[i]
\* otherwise: the parts of all sides for which it returns j.
Share(j) ==
  Total([i \in DOMAIN prob |-> (IF i = j THEN prob[i] ELSE 0)
                               + (IF alias[i] = j THEN One - prob[i] ELSE 0)])

\* Sample returns each value with the probability its weight gives it, and
\* never looks up an alias that was not set.
DrawsAsWeighted ==
  ~locked => \A j \in DOMAIN weights :
    /\ Share(j) = weights[j] * Len(weights)
    /\ prob[j] < One => alias[j] # 0
=============================================================================
