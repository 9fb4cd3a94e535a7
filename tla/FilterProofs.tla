--------------------------- MODULE FilterProofs ----------------------------
(***************************************************************************)
(* Theorems about the replay filter, for all digests, times, capacities    *)
(* and times to live, and the lemmas about its data structure and its one  *)
(* operation, which the proofs of HandshakeProofs use too.                 *)
(***************************************************************************)
EXTENDS FilterQueries, FiniteSetTheorems, WellFoundedInduction, SequenceTheorems, TLAPS

(***************************************************************************)
(* compactFilter stops: the number of entries it removes is well defined.  *)
(***************************************************************************)

\* A set of natural numbers has a least element.  (The strict inclusion of
\* the finite sets 1 .. k is well founded.)
LEMMA LeastNatural ==
  ASSUME NEW T, T \subseteq Nat, T # {}
  PROVE  \E x \in T : \A y \in T : x <= y
<1> DEFINE R == StrictSubsetOrdering(Nat)
           U == {1 .. k : k \in T}
<1>1. IsWellFoundedOn(R, FiniteSubsetsOf(Nat))
  BY FS_StrictSubsetOrderingWellFounded
<1>2. U \subseteq FiniteSubsetsOf(Nat) /\ U # {}
  <2>1. \A k \in Nat : IsFiniteSet(1 .. k) /\ (1 .. k) \subseteq Nat
    BY FS_Interval
  <2> QED
    BY <2>1 DEF FiniteSubsetsOf
<1>3. PICK s \in U : \A u \in U : ~(<<u, s>> \in R)
  <2> HIDE DEF R, U
  <2> QED BY <1>1, <1>2, WFMin
<1>4. PICK x \in T : s = 1 .. x
  OBVIOUS
<1>5. ASSUME NEW y \in T, y < x
      PROVE  FALSE
  <2>1. (1 .. y) \subseteq (1 .. x) /\ (1 .. y) # (1 .. x)
    BY <1>5, x \in 1 .. x /\ x \notin 1 .. y
  <2>2. <<1 .. y, 1 .. x>> \in R
    BY <2>1 DEF StrictSubsetOrdering
  <2> QED
    BY <1>3, <1>4, <2>2
<1> QED
  BY <1>5

\* The walk over the list has a first place to stop, and Purged is it.
LEMMA PurgedIsFirstStop ==
  ASSUME FilterTypeOK, NEW t \in Times
  PROVE  /\ Purged(t) \in 0 .. Len(fifo)
         /\ StopsAt(t, Purged(t))
         /\ \A j \in 0 .. (Purged(t) - 1) : ~StopsAt(t, j)
<1> DEFINE T == {k \in 0 .. Len(fifo) : StopsAt(t, k)}
           First(k) == StopsAt(t, k) /\ \A j \in 0 .. (k - 1) : ~StopsAt(t, j)
<1>1. Len(fifo) \in Nat
  BY LenProperties DEF FilterTypeOK
<1>2. T \subseteq Nat /\ T # {}
  BY <1>1 DEF StopsAt
<1>3. PICK x \in T : \A y \in T : x <= y
  <2> HIDE DEF T
  <2> QED BY <1>2, LeastNatural
<1>4. First(x)
  BY <1>1, <1>3
<1>5. x \in 0 .. Len(fifo)
  BY <1>3
<1>6. \E k \in 0 .. Len(fifo) : First(k)
  BY <1>4, <1>5
<1>7. Purged(t) = CHOOSE k \in 0 .. Len(fifo) : First(k)
  BY DEF Purged
<1> HIDE DEF First
<1>8. Purged(t) \in 0 .. Len(fifo) /\ First(Purged(t))
  BY <1>6, <1>7
<1> QED
  BY <1>8 DEF First

\* What compactFilter leaves: the end of the list and the digests in it,
\* with room for one entry more and nothing stale in front.
LEMMA Compaction ==
  ASSUME FilterTypeOK, MapMatchesList, Bounded, NEW t \in Times
  PROVE  LET F == SurvivingFifo(t) IN
         /\ F \in Seq(Entry)
         /\ Len(F) < MaxFilterSize
         /\ SurvivingFilter(t) = {F[i].digest : i \in 1 .. Len(F)}
         /\ \A i, j \in 1 .. Len(F) : F[i].digest = F[j].digest => i = j
         /\ F # <<>> => /\ t >= F[1].firstSeen
                        /\ t - F[1].firstSeen < TTL
         /\ Len(F) <= Len(fifo)
         /\ \A i \in 1 .. Len(F) : F[i] = fifo[Len(fifo) - Len(F) + i]
<1> DEFINE F == SurvivingFifo(t)
           p == Purged(t)
<1>1. /\ fifo \in Seq(Entry)
      /\ Len(fifo) \in Nat
      /\ \A i \in 1 .. Len(fifo) : fifo[i] \in Entry
  BY LenProperties, ElementOfSeq DEF FilterTypeOK
<1>2. /\ p \in 0 .. Len(fifo)
      /\ StopsAt(t, p)
  BY PurgedIsFirstStop
<1>3. CASE TimeWentBack(t)
  <2>1. F = <<>> /\ SurvivingFilter(t) = {}
    BY <1>3 DEF SurvivingFifo, SurvivingFilter
  <2>2. Len(F) = 0 /\ F \in Seq(Entry)
    BY <2>1, EmptySeq
  <2> QED
    BY <2>1, <2>2, <1>1, FilterAssumption
<1>4. CASE ~TimeWentBack(t)
  <2> HIDE DEF p
  <2>1. F = SubSeq(fifo, p + 1, Len(fifo))
    BY <1>4 DEF SurvivingFifo, p
  <2>2. /\ F \in Seq(Entry)
        /\ Len(F) = Len(fifo) - p
        /\ \A i \in 1 .. Len(F) : F[i] = fifo[p + i]
    <3> HIDE DEF F
    <3>1. p + 1 \in Int /\ Len(fifo) \in Int /\ \A i \in p + 1 .. Len(fifo) : fifo[i] \in Entry
      BY <1>1, <1>2
    <3>2. /\ F \in Seq(Entry)
          /\ Len(F) = IF p + 1 <= Len(fifo) THEN Len(fifo) - (p + 1) + 1 ELSE 0
          /\ \A i \in 1 .. Len(fifo) - (p + 1) + 1 : F[i] = fifo[p + 1 + i - 1]
      BY <2>1, <3>1, SubSeqProperties
    <3> QED
      BY <3>2, <1>1, <1>2
  <2> HIDE DEF F
  <2>3. Len(F) < MaxFilterSize
    BY <1>1, <1>2, <2>2, FilterAssumption DEF StopsAt, JudgedByAge
  <2>4. SurvivingFilter(t) = {fifo[i].digest : i \in 1 .. Len(fifo)} \ {fifo[i].digest : i \in 1 .. p}
    BY <1>4 DEF SurvivingFilter, MapMatchesList, p
  <2>5. SurvivingFilter(t) = {fifo[i].digest : i \in p + 1 .. Len(fifo)}
    BY <2>4, <1>1, <1>2 DEF MapMatchesList
  <2>6. {fifo[i].digest : i \in p + 1 .. Len(fifo)} = {F[i].digest : i \in 1 .. Len(F)}
    <3>1. \A i \in p + 1 .. Len(fifo) : i - p \in 1 .. Len(F) /\ fifo[i] = F[i - p]
      BY <2>2, <1>1, <1>2
    <3>2. \A i \in 1 .. Len(F) : p + i \in p + 1 .. Len(fifo) /\ fifo[p + i] = F[i]
      BY <2>2, <1>1, <1>2
    <3> QED
      BY <3>1, <3>2
  <2>7. \A i, j \in 1 .. Len(F) : F[i].digest = F[j].digest => i = j
    BY <2>2, <1>1, <1>2 DEF MapMatchesList
  <2>8. ASSUME F # <<>>
        PROVE  t >= F[1].firstSeen /\ t - F[1].firstSeen < TTL
    <3>1. p < Len(fifo) /\ F[1] = fifo[p + 1]
      BY <2>8, <2>2, <1>1, <1>2, EmptySeq
    <3>2. fifo[p + 1] \in Entry
      BY <3>1, <1>1, <1>2
    <3>3. fifo[p + 1].firstSeen \in Int /\ t \in Int /\ TTL \in Int
      BY <3>2, FilterAssumption DEF Entry
    <3>4. t - fifo[p + 1].firstSeen < TTL
      BY <3>1, <1>2, <1>1 DEF StopsAt
    <3>5. ~(t < fifo[p + 1].firstSeen)
      BY <3>1, <1>4 DEF TimeWentBack, p
    <3> QED
      BY <3>1, <3>3, <3>4, <3>5
  <2>9. /\ Len(F) <= Len(fifo)
        /\ \A i \in 1 .. Len(F) : F[i] = fifo[Len(fifo) - Len(F) + i]
    BY <2>2, <1>1, <1>2
  <2>10. SurvivingFilter(t) = {F[i].digest : i \in 1 .. Len(F)}
    BY <2>5, <2>6
  <2>11. F \in Seq(Entry)
    BY <2>2
  <2> QED
    BY <2>11, <2>3, <2>10, <2>7, <2>8, <2>9, Zenon DEF F
<1> QED
  BY <1>3, <1>4

\* The entries compactFilter walks past were expired or, the first of them,
\* one too many (or its clock is behind them).
LEMMA WalkedPast ==
  ASSUME FilterTypeOK, Bounded, NEW t \in Times, NEW i \in 1 .. Purged(t)
  PROVE  \/ t - fifo[i].firstSeen >= TTL
         \/ i = 1 /\ Len(fifo) = MaxFilterSize
         \/ t < fifo[i].firstSeen
<1>1. /\ FilterTypeOK
      /\ Len(fifo) \in Nat
      /\ Len(fifo) <= MaxFilterSize
  BY LenProperties DEF FilterTypeOK, Bounded
<1>2. /\ Purged(t) \in 0 .. Len(fifo)
      /\ \A j \in 0 .. (Purged(t) - 1) : ~StopsAt(t, j)
  BY <1>1, PurgedIsFirstStop
<1>3. i \in 1 .. Len(fifo) /\ ~StopsAt(t, i - 1)
  BY <1>1, <1>2
<1>4. fifo[i].firstSeen \in Int /\ t \in Int
  <2>1. fifo[i] \in Entry
    BY <1>1, <1>3, ElementOfSeq DEF FilterTypeOK
  <2> QED
    BY <2>1, FilterAssumption DEF Entry
<1>5. ~(Len(fifo) - (i - 1) < MaxFilterSize /\ TTL > 0) \/ ~(t - fifo[i].firstSeen < TTL)
  BY <1>1, <1>3 DEF StopsAt, JudgedByAge
<1>6. CASE ~(t - fifo[i].firstSeen < TTL)
  BY <1>6, <1>4, FilterAssumption
<1>7. CASE ~(Len(fifo) - (i - 1) < MaxFilterSize)
  BY <1>7, <1>1, <1>3, FilterAssumption
<1>8. CASE ~(TTL > 0)
  <2>1. t - fifo[i].firstSeen >= 0 \/ t < fifo[i].firstSeen
    BY <1>4
  <2> QED
    BY <2>1, <1>8, <1>4, FilterAssumption
<1> QED
  BY <1>5, <1>6, <1>7, <1>8

\* TestAndSet keeps the two structures in step: a digest is inserted only if
\* it is in neither of them, and the compaction has made room for it.
LEMMA TestAndSetKeeps ==
  ASSUME FilterTypeOK, MapMatchesList, Bounded, NEW t \in Times, NEW d \in Digests,
         TestAndSet(t, d)
  PROVE  /\ FilterTypeOK' /\ MapMatchesList' /\ Bounded'
         /\ fifo' # <<>> => t >= fifo'[1].firstSeen
         /\ fifo' # <<>> /\ TTL > 0 => t - fifo'[1].firstSeen < TTL
<1> DEFINE F == SurvivingFifo(t)
           e == [digest |-> d, firstSeen |-> t]
<1>1. /\ F \in Seq(Entry)
      /\ Len(F) < MaxFilterSize
      /\ SurvivingFilter(t) = {F[i].digest : i \in 1 .. Len(F)}
      /\ \A i, j \in 1 .. Len(F) : F[i].digest = F[j].digest => i = j
      /\ F # <<>> => t >= F[1].firstSeen /\ t - F[1].firstSeen < TTL
  BY Compaction
<1>2. Len(F) \in Nat /\ \A i \in 1 .. Len(F) : F[i] \in Entry
  BY <1>1, LenProperties, ElementOfSeq
<1>3. CASE Seen(t, d)
  <2>1. filter' = SurvivingFilter(t) /\ fifo' = F
    BY <1>3 DEF TestAndSet
  <2>2. filter' \in SUBSET Digests
    BY <2>1, <1>1, <1>2 DEF Entry
  <2> HIDE DEF F
  <2> QED
    BY <2>1, <2>2, <1>1, <1>2, FilterAssumption
    DEF FilterTypeOK, MapMatchesList, Bounded
<1>4. CASE ~Seen(t, d)
  <2>1. filter' = SurvivingFilter(t) \cup {d} /\ fifo' = Append(F, e)
    BY <1>4 DEF TestAndSet
  <2>2. e \in Entry /\ e.digest = d /\ e.firstSeen = t
    BY DEF Entry
  <2> HIDE DEF F, e
  <2>3. /\ fifo' \in Seq(Entry)
        /\ Len(fifo') = Len(F) + 1
        /\ \A i \in 1 .. Len(F) : fifo'[i] = F[i]
        /\ fifo'[Len(F) + 1] = e
    BY <2>1, <2>2, <1>1, AppendProperties
  <2>4. \A i \in 1 .. Len(F) : F[i].digest # d
    BY <1>4, <1>1 DEF Seen
  <2>5. filter' = {fifo'[i].digest : i \in 1 .. Len(fifo')}
    <3>1. 1 .. Len(fifo') = (1 .. Len(F)) \cup {Len(F) + 1}
      BY <2>3, <1>2
    <3> QED
      BY <3>1, <2>1, <2>2, <2>3, <1>1
  <2>6. \A i, j \in 1 .. Len(fifo') : fifo'[i].digest = fifo'[j].digest => i = j
    BY <2>2, <2>3, <2>4, <1>1, <1>2
  <2>7. filter' \in SUBSET Digests
    BY <2>1, <1>1, <1>2 DEF Entry
  <2>8. fifo'[1].firstSeen \in Int /\ t >= fifo'[1].firstSeen
        /\ (TTL > 0 => t - fifo'[1].firstSeen < TTL)
    <3>1. CASE F = <<>>
      <4>1. Len(F) = 0
        BY <3>1, EmptySeq
      <4>2. fifo'[1] = e
        BY <4>1, <2>3
      <4> QED
        BY <4>2, <2>2, FilterAssumption
    <3>2. CASE F # <<>>
      <4>1. 1 \in 1 .. Len(F)
        BY <3>2, <1>1, EmptySeq
      <4>2. fifo'[1] = F[1] /\ F[1] \in Entry
        BY <4>1, <2>3, <1>2
      <4>3. F[1].firstSeen \in Int
        BY <4>2, FilterAssumption DEF Entry
      <4> QED
        BY <4>2, <4>3, <3>2, <1>1
    <3> QED
      BY <3>1, <3>2
  <2>9. Len(fifo') <= MaxFilterSize
    BY <2>3, <1>1, <1>2, FilterAssumption
  <2> QED
    BY <2>3, <2>5, <2>6, <2>7, <2>8, <2>9
    DEF FilterTypeOK, MapMatchesList, Bounded
<1> QED
  BY <1>3, <1>4


\* A digest that compactFilter takes out of a filter below its capacity had
\* expired, if no entry is younger than the query.
LEMMA OnlyExpiredForgotten ==
  ASSUME FilterTypeOK, MapMatchesList, Bounded, NEW t \in Times,
         Len(fifo) < MaxFilterSize,
         \A k \in 1 .. Len(fifo) : fifo[k].firstSeen <= t,
         NEW i \in 1 .. Len(fifo), fifo[i].digest \notin SurvivingFilter(t)
  PROVE  t - fifo[i].firstSeen >= TTL
<1> DEFINE p == Purged(t)
<1>1. /\ Len(fifo) \in Nat /\ t \in Int /\ p \in 0 .. Len(fifo)
      /\ \A k \in 1 .. Len(fifo) : fifo[k].firstSeen \in Int
  <2>1. Len(fifo) \in Nat /\ \A k \in 1 .. Len(fifo) : fifo[k] \in Entry
    BY LenProperties, ElementOfSeq DEF FilterTypeOK
  <2> QED
    BY <2>1, PurgedIsFirstStop, FilterAssumption DEF Entry
<1>2. ~TimeWentBack(t)
  <2> HIDE DEF p
  <2>1. p < Len(fifo) => p + 1 \in 1 .. Len(fifo)
    BY <1>1
  <2>2. p < Len(fifo) => ~(t < fifo[p + 1].firstSeen)
    BY <1>1, <2>1
  <2> QED
    BY <2>2 DEF TimeWentBack, p
<1>3. fifo[i].digest \in filter
  BY DEF MapMatchesList
<1>4. PICK k \in 1 .. p : fifo[k].digest = fifo[i].digest
  BY <1>2, <1>3 DEF SurvivingFilter
<1>5. k \in 1 .. Len(fifo)
  BY <1>1
<1>6. k = i
  BY <1>4, <1>5 DEF MapMatchesList
<1>7. i \in 1 .. Purged(t)
  BY <1>6
<1>8. \/ t - fifo[i].firstSeen >= TTL
      \/ i = 1 /\ Len(fifo) = MaxFilterSize
      \/ t < fifo[i].firstSeen
  BY <1>7, WalkedPast
<1> QED
  BY <1>8, <1>1, FilterAssumption

\* The entries after a query are entries from before it and, if the digest
\* was not seen, the new one; the map loses what compactFilter takes out.
LEMMA EntriesAfter ==
  ASSUME FilterTypeOK, MapMatchesList, Bounded, NEW t \in Times, NEW d \in Digests,
         TestAndSet(t, d)
  PROVE  /\ SurvivingFilter(t) \subseteq filter
         /\ filter' = SurvivingFilter(t) \cup {d}
         /\ \A i \in 1 .. Len(fifo') :
              \/ \E j \in 1 .. Len(fifo) : fifo'[i] = fifo[j] /\ fifo[j].digest \in SurvivingFilter(t)
              \/ ~Seen(t, d) /\ fifo'[i] = [digest |-> d, firstSeen |-> t]
<1> DEFINE F == SurvivingFifo(t)
           e == [digest |-> d, firstSeen |-> t]
           k == Len(fifo) - Len(F)
<1>1. /\ F \in Seq(Entry) /\ Len(F) \in Nat /\ Len(fifo) \in Nat
      /\ Len(F) <= Len(fifo)
      /\ SurvivingFilter(t) = {F[i].digest : i \in 1 .. Len(F)}
      /\ \A i \in 1 .. Len(F) : F[i] = fifo[k + i]
  BY Compaction, LenProperties DEF FilterTypeOK
<1>2. SurvivingFilter(t) \subseteq filter
  BY DEF SurvivingFilter
<1>3. filter' = SurvivingFilter(t) \cup {d}
  BY DEF TestAndSet, Seen
<1> HIDE DEF F
<1>4. ASSUME NEW i \in 1 .. Len(F)
      PROVE  \E j \in 1 .. Len(fifo) : F[i] = fifo[j] /\ fifo[j].digest \in SurvivingFilter(t)
  <2>1. k + i \in 1 .. Len(fifo) /\ F[i] = fifo[k + i]
    BY <1>1
  <2>2. fifo[k + i].digest \in SurvivingFilter(t)
    BY <2>1, <1>1
  <2> QED
    BY <2>1, <2>2
<1>5. ASSUME NEW i \in 1 .. Len(fifo')
      PROVE  \/ \E j \in 1 .. Len(fifo) : fifo'[i] = fifo[j] /\ fifo[j].digest \in SurvivingFilter(t)
             \/ ~Seen(t, d) /\ fifo'[i] = e
  <2>1. CASE Seen(t, d)
    <3>1. fifo' = F
      BY <2>1 DEF TestAndSet, F
    <3> QED
      BY <3>1, <1>4
  <2>2. CASE ~Seen(t, d)
    <3>1. fifo' = Append(F, e) /\ e \in Entry
      BY <2>2 DEF TestAndSet, F, Entry
    <3> HIDE DEF e
    <3>2. /\ Len(fifo') = Len(F) + 1
          /\ \A j \in 1 .. Len(F) : fifo'[j] = F[j]
          /\ fifo'[Len(F) + 1] = e
      BY <3>1, <1>1, AppendProperties
    <3>3. i \in 1 .. Len(F) \/ i = Len(F) + 1
      BY <3>2, <1>1
    <3> QED
      BY <3>2, <3>3, <2>2, <1>4
  <2> QED
    BY <2>1, <2>2
<1> QED
  BY <1>2, <1>3, <1>5

-----------------------------------------------------------------------------
\* A list without a repetition has as many members as its length.
LEMMA MembersOfList ==
  ASSUME NEW X, NEW s \in Seq(X), \A i, j \in 1 .. Len(s) : s[i] = s[j] => i = j
  PROVE  /\ IsFiniteSet({s[i] : i \in 1 .. Len(s)})
         /\ Cardinality({s[i] : i \in 1 .. Len(s)}) = Len(s)
<1> DEFINE D == 1 .. Len(s)
           M == {s[i] : i \in 1 .. Len(s)}
           f == [i \in D |-> s[i]]
<1>1. Len(s) \in Nat
  BY LenProperties
<1>2. IsFiniteSet(D) /\ Cardinality(D) = Len(s)
  <2>1. \A n \in Nat : IsFiniteSet(1 .. n) /\ Cardinality(1 .. n) = n
    BY FS_Interval
  <2> QED
    BY <1>1, <2>1
<1>3. f \in Bijection(D, M)
  BY DEF Bijection, Injection, Surjection, IsInjective
<1>4. ExistsBijection(D, M)
  BY <1>3 DEF ExistsBijection
<1> HIDE DEF D, M
<1>5. IsFiniteSet(M) /\ Cardinality(M) = Cardinality(D)
  BY <1>2, <1>4, FS_Bijection
<1> QED
  BY <1>2, <1>5 DEF M

(***************************************************************************)
(* The inductive invariant.  FrontIsFresh does not follow from the others, *)
(* and nothing else needs it; MapMatchesList needs the digests of the list *)
(* to be distinct, or a purge could take a digest out of the map that is   *)
(* still in the list; Bounded needs the compaction before the insertion.   *)
(***************************************************************************)
IInv == QueryTypeOK /\ MapMatchesList /\ Bounded

-----------------------------------------------------------------------------
\* The invariant holds of an empty filter.
LEMMA InitIInv == QueryInit => IInv /\ FrontIsFresh
<1> SUFFICES ASSUME QueryInit
             PROVE  IInv /\ FrontIsFresh
  OBVIOUS
<1>1. filter = {} /\ fifo = <<>> /\ Len(fifo) = 0 /\ fifo \in Seq(Entry)
  BY EmptySeq DEF QueryInit, FilterInit
<1>2. 1 .. Len(fifo) = {}
  BY <1>1
<1>3. {fifo[i].digest : i \in 1 .. Len(fifo)} = {}
  BY <1>2
<1>4. QueryTypeOK
  BY <1>1 DEF QueryInit, QueryTypeOK, FilterTypeOK
<1>5. MapMatchesList
  BY <1>1, <1>2, <1>3 DEF MapMatchesList
<1>6. Bounded /\ FrontIsFresh
  BY <1>1, FilterAssumption DEF Bounded, FrontIsFresh
<1> QED
  BY <1>4, <1>5, <1>6 DEF IInv

\* A query preserves it.
LEMMA QueryIInv ==
  ASSUME IInv, NEW t \in Times, NEW d \in Digests, Query(t, d)
  PROVE  IInv' /\ FrontIsFresh'
<1>1. now' = t /\ hit' \in BOOLEAN /\ orderly' \in BOOLEAN
  BY DEF Query, Seen
<1>2. /\ FilterTypeOK' /\ MapMatchesList' /\ Bounded'
      /\ fifo' # <<>> => t >= fifo'[1].firstSeen
      /\ fifo' # <<>> /\ TTL > 0 => t - fifo'[1].firstSeen < TTL
  BY TestAndSetKeeps DEF IInv, QueryTypeOK, Query
<1>3. IInv'
  BY <1>1, <1>2, Zenon DEF IInv, QueryTypeOK
<1>4. FrontIsFresh'
  <2>1. now' = t
    BY <1>1
  <2> QED
    BY <2>1, <1>2 DEF FrontIsFresh
<1> QED
  BY <1>3, <1>4

\* The invariant is inductive.
LEMMA NextIInv == IInv /\ FrontIsFresh /\ [QueryNext]_queryVars => IInv' /\ FrontIsFresh'
<1> SUFFICES ASSUME IInv, FrontIsFresh, [QueryNext]_queryVars
             PROVE  IInv' /\ FrontIsFresh'
  OBVIOUS
<1>1. CASE QueryNext
  BY <1>1, QueryIInv DEF QueryNext
<1>2. CASE UNCHANGED queryVars
  BY <1>2 DEF queryVars, IInv, QueryTypeOK, FilterTypeOK, MapMatchesList, Bounded, FrontIsFresh
<1> QED
  BY <1>1, <1>2

\* Whatever times the callers bring, the filter's structures stay well
\* formed, ...
THEOREM TypeCorrect == QuerySpec => []QueryTypeOK
<1>1. IInv => QueryTypeOK
  BY DEF IInv
<1> QED
  BY InitIInv, NextIInv, <1>1, PTL DEF QuerySpec

\* ... the map and the list describe the same entries, each digest once, ...
THEOREM MapAlwaysMatchesList == QuerySpec => []MapMatchesList
<1>1. IInv => MapMatchesList
  BY DEF IInv
<1> QED
  BY InitIInv, NextIInv, <1>1, PTL DEF QuerySpec

\* ... the capacity is never exceeded, ...
THEOREM AlwaysBounded == QuerySpec => []Bounded
<1>1. IInv => Bounded
  BY DEF IInv
<1> QED
  BY InitIInv, NextIInv, <1>1, PTL DEF QuerySpec

\* ... and after every query the eldest entry is young enough.
THEOREM FrontAlwaysFresh == QuerySpec => []FrontIsFresh
BY InitIInv, NextIInv, PTL DEF QuerySpec

-----------------------------------------------------------------------------
\* A query forgets an entry only with a cause.
LEMMA QueryForgets ==
  ASSUME IInv, NEW t \in Times, NEW d \in Digests, Query(t, d),
         NEW i \in 1 .. Len(fifo)
  PROVE  \/ \E j \in 1 .. Len(fifo') : fifo'[j] = fifo[i]
         \/ now' - fifo[i].firstSeen >= TTL
         \/ i = 1 /\ Len(fifo) = MaxFilterSize
         \/ \E j \in 1 .. Len(fifo) : now' < fifo[j].firstSeen
<1> DEFINE F == SurvivingFifo(t)
           p == Purged(t)
<1>1. /\ FilterTypeOK
      /\ Len(fifo) \in Nat
      /\ Len(fifo) <= MaxFilterSize
      /\ fifo[i].firstSeen \in Int /\ t \in Int
      /\ \A j \in 1 .. Len(fifo) : fifo[j] \in Entry
  <2>1. FilterTypeOK /\ Len(fifo) <= MaxFilterSize
    BY DEF IInv, QueryTypeOK, Bounded
  <2>2. Len(fifo) \in Nat /\ \A j \in 1 .. Len(fifo) : fifo[j] \in Entry
    BY <2>1, LenProperties, ElementOfSeq DEF FilterTypeOK
  <2>3. fifo[i].firstSeen \in Times
    BY <2>2 DEF Entry
  <2> QED
    BY <2>1, <2>2, <2>3, FilterAssumption
<1>2. now' = t
  BY DEF Query
<1>3. /\ p \in 0 .. Len(fifo)
      /\ \A j \in 0 .. (p - 1) : ~StopsAt(t, j)
  BY <1>1, PurgedIsFirstStop
<1>4. CASE TimeWentBack(t)
  <2>1. p + 1 \in 1 .. Len(fifo) /\ t < fifo[p + 1].firstSeen
    BY <1>1, <1>3, <1>4 DEF TimeWentBack
  <2> QED
    BY <2>1, <1>2
<1>5. CASE ~TimeWentBack(t) /\ i <= p
  <2>1. i \in 1 .. p
    BY <1>3, <1>5
  <2>2. Bounded
    BY DEF IInv
  <2> QED
    BY <2>1, <2>2, <1>1, <1>2, WalkedPast
<1>6. CASE ~TimeWentBack(t) /\ i > p
  <2>1. /\ F \in Seq(Entry)
        /\ \A j \in 1 .. Len(F) : F[j] = fifo[Len(fifo) - Len(F) + j]
    BY Compaction, <1>1 DEF IInv
  <2>2. F = SubSeq(fifo, p + 1, Len(fifo))
    BY <1>6 DEF SurvivingFifo
  <2> HIDE DEF F, p
  <2>3. Len(F) = Len(fifo) - p
    <3>1. p + 1 \in Int /\ Len(fifo) \in Int /\ \A j \in p + 1 .. Len(fifo) : fifo[j] \in Entry
      BY <1>1, <1>3
    <3>2. Len(F) = IF p + 1 <= Len(fifo) THEN Len(fifo) - (p + 1) + 1 ELSE 0
      BY <2>2, <3>1, SubSeqProperties
    <3> QED
      BY <3>2, <1>1, <1>3
  <2>4. i - p \in 1 .. Len(F) /\ F[i - p] = fifo[i]
    BY <2>1, <2>3, <1>1, <1>3, <1>6
  <2>5. i - p \in 1 .. Len(fifo') /\ fifo'[i - p] = F[i - p]
    <3>1. CASE Seen(t, d)
      <4>1. fifo' = F
        BY <3>1 DEF Query, TestAndSet, F
      <4> QED
        BY <4>1, <2>4
    <3>2. CASE ~Seen(t, d)
      <4>1. fifo' = Append(F, [digest |-> d, firstSeen |-> t])
        BY <3>2 DEF Query, TestAndSet, F
      <4>2. [digest |-> d, firstSeen |-> t] \in Entry
        BY DEF Entry
      <4>3. Len(fifo') = Len(F) + 1 /\ \A j \in 1 .. Len(F) : fifo'[j] = F[j]
        BY <4>1, <4>2, <2>1, AppendProperties
      <4>4. Len(F) \in Nat
        BY <2>1, LenProperties
      <4> QED
        BY <4>3, <4>4, <2>4
    <3> QED
      BY <3>1, <3>2
  <2> QED
    BY <2>4, <2>5
<1> QED
  BY <1>1, <1>3, <1>4, <1>5, <1>6

\* The filter never forgets a digest without one of the three causes.
THEOREM AlwaysForgetsWithCause == QuerySpec => ForgetsOnlyWithCause
<1> DEFINE Caused(i) == \/ \E j \in 1 .. Len(fifo') : fifo'[j] = fifo[i]
                        \/ now' - fifo[i].firstSeen >= TTL
                        \/ i = 1 /\ Len(fifo) = MaxFilterSize
                        \/ \E j \in 1 .. Len(fifo) : now' < fifo[j].firstSeen
<1>1. IInv /\ [QueryNext]_queryVars => [\A i \in 1 .. Len(fifo) : Caused(i)]_queryVars
  <2>1. ASSUME IInv, QueryNext, NEW i \in 1 .. Len(fifo)
        PROVE  Caused(i)
    BY <2>1, QueryForgets DEF QueryNext
  <2> QED
    BY <2>1
<1> QED
  BY InitIInv, NextIInv, <1>1, PTL DEF QuerySpec, ForgetsOnlyWithCause

-----------------------------------------------------------------------------
\* Under callers whose times never decrease the list is sorted by age.  For
\* the induction, nothing in it is younger than the latest query.
SortedUpToNow == Sorted /\ \A i \in 1 .. Len(fifo) : fifo[i].firstSeen <= now

LEMMA MonotoneQuerySorted ==
  ASSUME IInv, SortedUpToNow, NEW t \in Times, NEW d \in Digests, t >= now, Query(t, d)
  PROVE  SortedUpToNow'
<1> DEFINE F == SurvivingFifo(t)
           k == Len(fifo) - Len(F)
           e == [digest |-> d, firstSeen |-> t]
<1>1. /\ F \in Seq(Entry)
      /\ Len(F) <= Len(fifo)
      /\ \A i \in 1 .. Len(F) : F[i] = fifo[k + i]
  BY Compaction DEF IInv, QueryTypeOK
<1>2. /\ Len(F) \in Nat /\ Len(fifo) \in Nat
      /\ \A i \in 1 .. Len(fifo) : fifo[i] \in Entry
  BY <1>1, LenProperties, ElementOfSeq DEF IInv, QueryTypeOK, FilterTypeOK
<1>3. /\ now' = t /\ t \in Int /\ now \in Int
      /\ \A i \in 1 .. Len(fifo) : fifo[i].firstSeen \in Int
  BY <1>2, FilterAssumption DEF Query, IInv, QueryTypeOK, Entry
<1>4. \A i \in 1 .. Len(F) : k + i \in 1 .. Len(fifo)
  BY <1>1, <1>2
<1>5. /\ \A i, j \in 1 .. Len(F) : i <= j => F[i].firstSeen <= F[j].firstSeen
      /\ \A i \in 1 .. Len(F) : F[i].firstSeen \in Int /\ F[i].firstSeen <= t
  <2> HIDE DEF F
  <2>1. \A i, j \in 1 .. Len(F) : i <= j => k + i <= k + j
    BY <1>2
  <2> HIDE DEF k
  <2>2. \A i, j \in 1 .. Len(F) : i <= j => F[i].firstSeen <= F[j].firstSeen
    BY <2>1, <1>1, <1>4 DEF SortedUpToNow, Sorted
  <2>3. \A i \in 1 .. Len(F) :
          fifo[k + i].firstSeen \in Int /\ fifo[k + i].firstSeen <= now
    BY <1>3, <1>4 DEF SortedUpToNow
  <2>4. ASSUME NEW i \in 1 .. Len(F)
        PROVE  F[i].firstSeen \in Int /\ F[i].firstSeen <= t
    <3>1. F[i].firstSeen \in Int /\ F[i].firstSeen <= now
      BY <2>3, <1>1
    <3> QED
      BY <3>1, <1>3
  <2> QED
    BY <2>2, <2>4
<1> HIDE DEF F, e
<1>6. CASE Seen(t, d)
  <2>1. fifo' = F
    BY <1>6 DEF Query, TestAndSet, F
  <2> QED
    BY <2>1, <1>3, <1>5 DEF SortedUpToNow, Sorted
<1>7. CASE ~Seen(t, d)
  <2>1. fifo' = Append(F, e)
    BY <1>7 DEF Query, TestAndSet, F, e
  <2>2. e \in Entry /\ e.firstSeen = t
    BY DEF Entry, e
  <2>3. /\ Len(fifo') = Len(F) + 1
        /\ \A i \in 1 .. Len(F) : fifo'[i] = F[i]
        /\ fifo'[Len(F) + 1] = e
    BY <2>1, <2>2, <1>1, AppendProperties
  <2>4. \A i \in 1 .. Len(fifo') : i \in 1 .. Len(F) \/ i = Len(F) + 1
    BY <2>3, <1>2
  <2>5. \A i \in 1 .. Len(fifo') : fifo'[i].firstSeen \in Int /\ fifo'[i].firstSeen <= t
    BY <2>2, <2>3, <2>4, <1>3, <1>5
  <2>6. \A i, j \in 1 .. Len(fifo') : i <= j => fifo'[i].firstSeen <= fifo'[j].firstSeen
    <3> SUFFICES ASSUME NEW i \in 1 .. Len(fifo'), NEW j \in 1 .. Len(fifo'), i <= j
                 PROVE  fifo'[i].firstSeen <= fifo'[j].firstSeen
      OBVIOUS
    <3>1. CASE j = Len(F) + 1
      BY <3>1, <2>2, <2>3, <2>5
    <3>2. CASE j \in 1 .. Len(F)
      <4>1. i \in 1 .. Len(F)
        BY <3>2, <1>2
      <4> QED
        BY <4>1, <3>2, <2>3, <1>5
    <3> QED
      BY <3>1, <3>2, <2>4
  <2> QED
    BY <2>5, <2>6, <1>3 DEF SortedUpToNow, Sorted
<1> QED
  BY <1>6, <1>7

\* While the times are in order the list is, whatever the queries before.
OrderlyInv == IInv /\ FrontIsFresh /\ (orderly => SortedUpToNow)

LEMMA OrderlyInvIsInvariant == QuerySpec => []OrderlyInv
<1>1. QueryInit => OrderlyInv
  <2> SUFFICES ASSUME QueryInit
               PROVE  SortedUpToNow
    BY InitIInv DEF OrderlyInv
  <2>1. 1 .. Len(fifo) = {}
    BY EmptySeq DEF QueryInit, FilterInit
  <2> QED
    BY <2>1 DEF SortedUpToNow, Sorted
<1>2. OrderlyInv /\ [QueryNext]_queryVars => OrderlyInv'
  <2> SUFFICES ASSUME OrderlyInv, [QueryNext]_queryVars
               PROVE  OrderlyInv'
    OBVIOUS
  <2>1. IInv' /\ FrontIsFresh'
    BY NextIInv DEF OrderlyInv
  <2>2. ASSUME NEW t \in Times, NEW d \in Digests, Query(t, d), orderly'
        PROVE  SortedUpToNow'
    <3>1. orderly /\ t >= now
      BY <2>2, Zenon DEF Query
    <3>2. IInv /\ SortedUpToNow
      BY <3>1 DEF OrderlyInv
    <3> QED
      BY <2>2, <3>1, <3>2, MonotoneQuerySorted
  <2>3. CASE UNCHANGED queryVars
    BY <2>1, <2>3 DEF queryVars, SortedUpToNow, Sorted, OrderlyInv
  <2> QED
    BY <2>1, <2>2, <2>3 DEF QueryNext, OrderlyInv
<1> QED
  BY <1>1, <1>2, PTL DEF QuerySpec

\* compactFilter may stop at the first young entry: all older ones are
\* behind it, as long as the callers' times never decrease.
THEOREM AlwaysSorted == QuerySpec => []SortedWhileOrderly
<1>1. OrderlyInv => SortedWhileOrderly
  BY DEF OrderlyInv, SortedUpToNow, SortedWhileOrderly
<1> QED
  BY OrderlyInvIsInvariant, <1>1, PTL

-----------------------------------------------------------------------------
\* The guard counts as the filter does.
LEMMA SameCardinality == \A X : Guard!Cardinality(X) = Cardinality(X)
BY DEF Guard!Cardinality, Cardinality

\* A query that does not go back in time is a query of the abstract guard:
\* what compactFilter leaves is what the guard remembers.
LEMMA OrderlyQueryIsGuarded ==
  ASSUME IInv, SortedUpToNow, NEW t \in Times, NEW d \in Digests, t >= now, Query(t, d)
  PROVE  Guard!Query(t, d)
<1> DEFINE F == SurvivingFifo(t)
           p == Purged(t)
           e == [digest |-> d, firstSeen |-> t]
           seen == {fifo[i] : i \in 1 .. Len(fifo)}
           S == {F[i] : i \in 1 .. Len(F)}
           dropped == Guard!Live(t) \ S
<1>1. /\ fifo \in Seq(Entry)
      /\ Len(fifo) \in Nat
      /\ Len(fifo) <= MaxFilterSize
      /\ \A i \in 1 .. Len(fifo) : fifo[i] \in Entry
      /\ t \in Int /\ now \in Int /\ TTL \in Int /\ MaxFilterSize \in Nat
  BY LenProperties, ElementOfSeq, FilterAssumption
  DEF IInv, QueryTypeOK, FilterTypeOK, Bounded
<1>2. \A i \in 1 .. Len(fifo) : fifo[i].firstSeen \in Int /\ fifo[i].firstSeen <= t
  <2> SUFFICES ASSUME NEW i \in 1 .. Len(fifo)
               PROVE  fifo[i].firstSeen \in Int /\ fifo[i].firstSeen <= t
    OBVIOUS
  <2>1. fifo[i].firstSeen \in Int
    BY <1>1, FilterAssumption DEF Entry
  <2>2. fifo[i].firstSeen <= now
    BY DEF SortedUpToNow
  <2> QED
    BY <2>1, <2>2, <1>1
<1>3. p \in 0 .. Len(fifo)
  BY PurgedIsFirstStop DEF IInv, QueryTypeOK
<1>4. /\ F \in Seq(Entry)
      /\ Len(F) \in Nat
      /\ SurvivingFilter(t) = {F[i].digest : i \in 1 .. Len(F)}
      /\ F # <<>> => t - F[1].firstSeen < TTL
  BY Compaction, LenProperties DEF IInv, QueryTypeOK
<1>5. F = SubSeq(fifo, p + 1, Len(fifo))
  <2>1. p < Len(fifo) => ~(t < fifo[p + 1].firstSeen)
    <3> HIDE DEF p
    <3> QED BY <1>1, <1>2, <1>3
  <2> QED
    BY <2>1 DEF TimeWentBack, SurvivingFifo
<1> HIDE DEF F, p
<1>6. Len(F) = Len(fifo) - p /\ \A i \in 1 .. Len(F) : F[i] = fifo[p + i]
  <2>1. p + 1 \in Int /\ Len(fifo) \in Int /\ \A i \in p + 1 .. Len(fifo) : fifo[i] \in Entry
    BY <1>1, <1>3
  <2>2. /\ Len(F) = IF p + 1 <= Len(fifo) THEN Len(fifo) - (p + 1) + 1 ELSE 0
        /\ \A i \in 1 .. Len(fifo) - (p + 1) + 1 : F[i] = fifo[p + 1 + i - 1]
    BY <1>5, <2>1, SubSeqProperties
  <2> QED
    BY <2>2, <1>1, <1>3
<1>7. /\ \A i \in 1 .. Len(F) : p + i \in 1 .. Len(fifo)
      /\ \A i \in p + 1 .. Len(fifo) : i - p \in 1 .. Len(F) /\ fifo[i] = F[i - p]
  BY <1>1, <1>3, <1>6
<1>8. S \subseteq seen
  BY <1>6, <1>7
<1>9. ASSUME NEW i \in 1 .. Len(fifo)
      PROVE  fifo[1].firstSeen <= fifo[i].firstSeen
  <2>1. 1 \in 1 .. Len(fifo) /\ 1 <= i
    BY <1>1
  <2> QED
    BY <2>1 DEF SortedUpToNow, Sorted
<1>10. S \subseteq Guard!Live(t)
  <2> SUFFICES ASSUME NEW i \in 1 .. Len(F)
               PROVE  t - F[i].firstSeen < TTL
    BY <1>8 DEF Guard!Live
  <2>1. 1 \in 1 .. Len(F) /\ F # <<>>
    BY <1>4, EmptySeq
  <2>2. /\ F[1] = fifo[p + 1] /\ F[i] = fifo[p + i]
        /\ p + 1 \in 1 .. Len(fifo) /\ p + i \in 1 .. Len(fifo)
        /\ p + 1 <= p + i
    BY <2>1, <1>3, <1>6, <1>7
  <2>3. fifo[p + 1].firstSeen <= fifo[p + i].firstSeen
    BY <2>2 DEF SortedUpToNow, Sorted
  <2> QED
    BY <2>1, <2>2, <2>3, <1>1, <1>2, <1>4, SMTT(60)
<1>11. ASSUME NEW x \in dropped
       PROVE  x = fifo[1] /\ Len(fifo) = MaxFilterSize
  <2>1. PICK i \in 1 .. Len(fifo) : x = fifo[i]
    BY DEF Guard!Live
  <2>2. t - fifo[i].firstSeen < TTL /\ fifo[i] \notin S
    BY <2>1 DEF Guard!Live
  <2>3. i \in 1 .. p
    <3>1. ~(i \in p + 1 .. Len(fifo))
      BY <2>2, <1>7
    <3> QED
      BY <3>1, <1>1, <1>3
  <2>4. ~(t - fifo[i].firstSeen >= TTL) /\ ~(t < fifo[i].firstSeen)
    BY <2>2, <1>1, <1>2
  <2> QED
    BY <2>1, <2>3, <2>4, WalkedPast DEF p, IInv, QueryTypeOK
<1>12. IsFiniteSet(seen) /\ Cardinality(seen) = Len(fifo)
  <2>1. \A i, j \in 1 .. Len(fifo) : fifo[i] = fifo[j] => i = j
    BY DEF IInv, MapMatchesList
  <2> QED
    BY <2>1, <1>1, MembersOfList
<1>13. Cardinality(seen) < MaxFilterSize => dropped = {}
  <2> HIDE DEF seen, dropped
  <2> QED BY <1>11, <1>12, <1>1
<1>14. Cardinality(dropped) <= 1
  <2>1. dropped \in SUBSET {fifo[1]}
    <3> HIDE DEF dropped
    <3> QED BY <1>11
  <2>2. IsFiniteSet({fifo[1]}) /\ Cardinality({fifo[1]}) = 1
    BY FS_Singleton
  <2> HIDE DEF dropped
  <2> QED
    BY <2>1, <2>2, FS_Subset
<1>15. ASSUME NEW x \in dropped, NEW y \in S
       PROVE  x.firstSeen <= y.firstSeen
  <2>1. PICK i \in 1 .. Len(F) : y = F[i]
    OBVIOUS
  <2>2. y = fifo[p + i] /\ p + i \in 1 .. Len(fifo)
    BY <2>1, <1>6, <1>7
  <2>3. x = fifo[1]
    BY <1>11
  <2> QED
    BY <2>2, <2>3, <1>9
<1>16. Guard!Remembers(S, t)
  BY <1>10, <1>13, <1>14, <1>15, SameCardinality DEF Guard!Remembers
<1>17. hit' = (d \in {x.digest : x \in S})
  <2>1. {x.digest : x \in S} = {F[i].digest : i \in 1 .. Len(F)}
    OBVIOUS
  <2> QED
    BY <2>1, <1>4, Zenon DEF Query, Seen
<1>18. seen' = IF hit' THEN S ELSE S \cup {e}
  <2>1. CASE Seen(t, d)
    <3>1. fifo' = F
      BY <2>1 DEF Query, TestAndSet, F
    <3>2. hit'
      BY <2>1, Zenon DEF Query
    <3> QED
      BY <3>1, <3>2
  <2>2. CASE ~Seen(t, d)
    <3>1. fifo' = Append(F, e)
      BY <2>2 DEF Query, TestAndSet, F
    <3>6. ~hit'
      BY <2>2, Zenon DEF Query
    <3>2. e \in Entry
      BY DEF Entry
    <3> HIDE DEF e
    <3>3. /\ Len(fifo') = Len(F) + 1
          /\ \A i \in 1 .. Len(F) : fifo'[i] = F[i]
          /\ fifo'[Len(F) + 1] = e
      BY <3>1, <3>2, <1>4, AppendProperties
    <3>4. 1 .. Len(fifo') = (1 .. Len(F)) \cup {Len(F) + 1}
      BY <3>3, <1>4
    <3>5. seen' = S \cup {e}
      BY <3>3, <3>4
    <3> QED
      BY <3>5, <3>6
  <2> QED
    BY <2>1, <2>2
<1>19. now' = t
  BY DEF Query
<1>20. S \in SUBSET seen
  BY <1>8
<1> QED
  BY <1>16, <1>17, <1>18, <1>19, <1>20, Zenon DEF Guard!Query

\* Until a query goes back in time, the filter implements the guard: a digest
\* is reported as seen exactly when it was answered "not seen" less than TTL
\* ago, but for the eldest one of a full filter.
THEOREM FilterImplementsGuard == QuerySpec => GuardedWhileOrderly
<1>1. QueryInit => Guard!Init
  <2> SUFFICES ASSUME QueryInit
               PROVE  Guard!Init
    OBVIOUS
  <2>1. 1 .. Len(fifo) = {}
    BY EmptySeq DEF QueryInit, FilterInit
  <2> QED
    BY <2>1 DEF QueryInit, Guard!Init
<1>2. OrderlyInv /\ [QueryNext]_queryVars => [orderly' => Guard!Next]_queryVars
  <2> SUFFICES ASSUME OrderlyInv, NEW t \in Times, NEW d \in Digests, Query(t, d), orderly'
               PROVE  Guard!Query(t, d)
    BY Zenon DEF QueryNext, Guard!Next
  <2>1. orderly /\ t >= now
    BY Zenon DEF Query
  <2>2. IInv /\ SortedUpToNow
    BY <2>1 DEF OrderlyInv
  <2> QED
    BY <2>1, <2>2, OrderlyQueryIsGuarded
<1> QED
  BY OrderlyInvIsInvariant, <1>1, <1>2, PTL DEF QuerySpec, GuardedWhileOrderly
=============================================================================
