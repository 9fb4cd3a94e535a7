----------------------------- MODULE MeekProofs -----------------------------
(***************************************************************************)
(* Theorems about a meek_lite connection: what is written and what is      *)
(* received arrives whole and in order, through channels and bodies of any *)
(* size and whatever exchanges fail; and the rotation of the fronts.       *)
(***************************************************************************)
EXTENDS MeekConn, FiniteSetTheorems, WellFoundedInduction, SequenceTheorems, TLAPS

(***************************************************************************)
(* Induction, for sets of naturals.                                        *)
(***************************************************************************)

\* A set of naturals that is not empty has a least element.
LEMMA LeastNatural ==
  ASSUME NEW T, T \subseteq Nat, T # {}
  PROVE  \E x \in T : \A y \in T : x <= y
<1> DEFINE R == StrictSubsetOrdering(Nat)
           U == {1 .. k : k \in T}
<1>1. IsWellFoundedOn(R, FiniteSubsetsOf(Nat))
  BY FS_StrictSubsetOrderingWellFounded
<1>2. U \subseteq FiniteSubsetsOf(Nat) /\ U # {}
  <2>1. \A k \in Nat : IsFiniteSet(1 .. k) /\ (1 .. k) \subseteq Nat
    BY FS_Interval
  <2> QED
    BY <2>1 DEF FiniteSubsetsOf
<1>3. PICK s \in U : \A u \in U : ~(<<u, s>> \in R)
  <2> HIDE DEF R, U
  <2> QED BY <1>1, <1>2, WFMin
<1>4. PICK x \in T : s = 1 .. x
  OBVIOUS
<1>5. ASSUME NEW y \in T, y < x
      PROVE  FALSE
  <2>1. (1 .. y) \subseteq (1 .. x) /\ (1 .. y) # (1 .. x)
    BY <1>5, x \in 1 .. x /\ x \notin 1 .. y
  <2>2. <<1 .. y, 1 .. x>> \in R
    BY <2>1 DEF StrictSubsetOrdering
  <2> QED
    BY <1>3, <1>4, <2>2
<1> QED
  BY <1>5

\* A set that has 1, and of every number before n the next, has all to n.
LEMMA SetInduction ==
  ASSUME NEW n \in Nat, NEW T, 1 \in T,
         \A i \in 1 .. n : i \in T /\ i < n => i + 1 \in T
  PROVE  1 .. n \subseteq T
<1> DEFINE Missing == (1 .. n) \ T
<1>1. CASE Missing # {}
  <2>1. Missing \subseteq Nat
    OBVIOUS
  <2> HIDE DEF Missing
  <2>2. PICK x \in Missing : \A y \in Missing : x <= y
    BY <1>1, <2>1, LeastNatural
  <2> USE DEF Missing
  <2>3. x \in 1 .. n /\ x \notin T /\ x # 1
    BY <2>2
  <2>4. x - 1 \in 1 .. n /\ x - 1 < n /\ (x - 1) + 1 = x
    BY <2>3
  <2>5. x - 1 \in T
    BY <2>2, <2>4
  <2> QED
    BY <2>3, <2>4, <2>5
<1> QED
  BY <1>1

-----------------------------------------------------------------------------
(***************************************************************************)
(* FlattenSeq, which the properties apply to a channel's chunks.           *)
(***************************************************************************)

\* f is the function that FlattenSeq(s) defines: f[i] joins the first i.
Joins(s, f) == f = [i \in 1 .. Len(s) |-> IF i = 1 THEN s[i] ELSE f[i - 1] \o s[i]]

\* There is such a function ...
LEMMA JoinsExists ==
  ASSUME NEW S, NEW s \in Seq(Seq(S))
  PROVE  \E f : Joins(s, f)
<1> DEFINE n == Len(s)
           UpTo(k, f) == f = [i \in 1 .. k |-> IF i = 1 THEN s[i] ELSE f[i - 1] \o s[i]]
           T == {k \in 1 .. n : \E f : UpTo(k, f)}
<1>1. n \in Nat
  BY LenProperties
<1>2. CASE n = 0
  <2> DEFINE f == [i \in 1 .. n |-> s[i]]
  <2>1. 1 .. n = {}
    BY <1>2
  <2>2. Joins(s, f)
    BY <2>1 DEF Joins
  <2> QED
    BY <2>2
<1>3. CASE n # 0
  <2>1. 1 \in T
    <3> DEFINE f == [i \in 1 .. 1 |-> s[i]]
    <3>1. UpTo(1, f)
      OBVIOUS
    <3>2. 1 \in 1 .. n
      BY <1>1, <1>3
    <3> QED
      BY <3>1, <3>2
  <2>2. ASSUME NEW k \in 1 .. n, k \in T, k < n
        PROVE  k + 1 \in T
    <3>1. PICK f : UpTo(k, f)
      BY <2>2
    <3> DEFINE g == [i \in 1 .. k + 1 |-> IF i <= k THEN f[i] ELSE f[k] \o s[k + 1]]
    <3>2. ASSUME NEW i \in 1 .. k + 1
          PROVE  g[i] = IF i = 1 THEN s[i] ELSE g[i - 1] \o s[i]
      <4>1. CASE i = 1
        <5>1. 1 \in 1 .. k /\ 1 <= k
          BY <1>1
        <5>2. f[1] = s[1]
          BY <3>1, <5>1
        <5> QED
          BY <4>1, <5>1, <5>2
      <4>2. CASE i # 1 /\ i <= k
        <5>1. i \in 1 .. k /\ i - 1 \in 1 .. k + 1 /\ i - 1 <= k
          BY <4>2, <1>1
        <5>2. f[i] = f[i - 1] \o s[i]
          BY <3>1, <4>2, <5>1
        <5> QED
          BY <4>2, <5>1, <5>2
      <4>3. CASE i # 1 /\ ~(i <= k)
        <5>1. i = k + 1 /\ i - 1 = k /\ k \in 1 .. k + 1 /\ k <= k
          BY <4>3, <1>1
        <5> QED
          BY <4>3, <5>1
      <4> QED
        BY <4>1, <4>2, <4>3
    <3>3. UpTo(k + 1, g)
      BY <3>2
    <3>4. k + 1 \in 1 .. n
      BY <2>2, <1>1
    <3> HIDE DEF g
    <3> QED
      BY <3>3, <3>4
  <2> HIDE DEF T
  <2>3. 1 .. n \subseteq T
    BY <1>1, <2>1, <2>2, SetInduction
  <2>4. n \in T
    BY <1>1, <1>3, <2>3
  <2> USE DEF T
  <2> QED
    BY <2>4 DEF Joins
<1> QED
  BY <1>2, <1>3

\* ... and FlattenSeq is its last value.
LEMMA FlattenIs ==
  ASSUME NEW S, NEW s \in Seq(Seq(S)), s # <<>>
  PROVE  \E f : Joins(s, f) /\ FlattenSeq(s) = f[Len(s)]
<1> DEFINE f == CHOOSE f : Joins(s, f)
<1>1. Joins(s, f)
  BY JoinsExists
<1>2. Len(s) # 0
  BY EmptySeq
<1>3. FlattenSeq(s) = f[Len(s)]
  BY <1>2 DEF FlattenSeq, Joins
<1> QED
  BY <1>1, <1>3

\* Each part joined is a sequence, ...
LEMMA JoinsTypes ==
  ASSUME NEW S, NEW s \in Seq(Seq(S)), NEW f, Joins(s, f)
  PROVE  \A i \in 1 .. Len(s) : f[i] \in Seq(S)
<1> DEFINE n == Len(s)
           T == {i \in 1 .. n : f[i] \in Seq(S)}
<1>1. n \in Nat /\ \A i \in 1 .. n : s[i] \in Seq(S)
  BY LenProperties, ElementOfSeq
<1>2. \A i \in 1 .. n : f[i] = IF i = 1 THEN s[i] ELSE f[i - 1] \o s[i]
  BY DEF Joins
<1> HIDE DEF n
<1>3. ASSUME NEW i \in 1 .. n, i \in T, i < n
      PROVE  i + 1 \in T
  <2>1. i + 1 \in 1 .. n /\ i + 1 # 1 /\ (i + 1) - 1 = i
    BY <1>1, <1>3
  <2>2. f[i + 1] = f[i] \o s[i + 1]
    BY <1>2, <2>1
  <2>3. f[i] \o s[i + 1] \in Seq(S)
    BY <1>1, <1>3, <2>1, ConcatProperties
  <2> QED
    BY <2>1, <2>2, <2>3
<1>4. CASE n = 0
  BY <1>4 DEF n
<1>5. CASE n # 0
  <2>1. 1 \in T
    BY <1>1, <1>2, <1>5
  <2> HIDE DEF T
  <2>2. 1 .. n \subseteq T
    BY <1>1, <1>3, <2>1, SetInduction
  <2> QED
    BY <2>2 DEF T, n
<1> QED
  BY <1>4, <1>5

\* ... and so is the whole.
LEMMA FlattenType ==
  ASSUME NEW S, NEW s \in Seq(Seq(S))
  PROVE  FlattenSeq(s) \in Seq(S)
<1>1. CASE s = <<>>
  BY <1>1, EmptySeq DEF FlattenSeq
<1>2. CASE s # <<>>
  <2>1. PICK f : Joins(s, f) /\ FlattenSeq(s) = f[Len(s)]
    BY <1>2, FlattenIs
  <2>2. Len(s) \in 1 .. Len(s)
    BY <1>2, EmptySeq
  <2>3. \A i \in 1 .. Len(s) : f[i] \in Seq(S)
    BY <2>1, JoinsTypes
  <2> QED
    BY <2>1, <2>2, <2>3
<1> QED
  BY <1>1, <1>2

LEMMA FlattenEmpty == FlattenSeq(<<>>) = <<>>
BY DEF FlattenSeq

\* What is sent on a channel comes after all that waits in it.
LEMMA FlattenAppend ==
  ASSUME NEW S, NEW s \in Seq(Seq(S)), NEW x \in Seq(S)
  PROVE  FlattenSeq(Append(s, x)) = FlattenSeq(s) \o x
<1> DEFINE t == Append(s, x)
           n == Len(s)
<1>1. /\ n \in Nat /\ t \in Seq(Seq(S)) /\ Len(t) = n + 1 /\ t # <<>>
      /\ \A i \in 1 .. n : t[i] = s[i]
      /\ t[n + 1] = x
  BY LenProperties, AppendProperties, EmptySeq
<1> HIDE DEF t
<1>2. PICK g : Joins(t, g) /\ FlattenSeq(t) = g[Len(t)]
  BY <1>1, FlattenIs
<1>3. CASE s = <<>>
  <2>1. n = 0
    BY <1>3
  <2>2. g[1] = x
    BY <1>1, <1>2, <2>1 DEF Joins
  <2>3. FlattenSeq(s) = <<>>
    BY <1>3, FlattenEmpty
  <2>4. <<>> \o x = x
    BY ConcatEmptySeq
  <2> QED
    BY <1>1, <1>2, <2>1, <2>2, <2>3, <2>4 DEF t
<1>4. CASE s # <<>>
  <2>1. PICK f : Joins(s, f) /\ FlattenSeq(s) = f[Len(s)]
    BY <1>4, FlattenIs
  <2> DEFINE T == {i \in 1 .. n : g[i] = f[i]}
  <2>2. n # 0
    BY <1>4, EmptySeq
  <2>3. /\ \A i \in 1 .. n : f[i] = IF i = 1 THEN s[i] ELSE f[i - 1] \o s[i]
        /\ \A i \in 1 .. n + 1 : g[i] = IF i = 1 THEN t[i] ELSE g[i - 1] \o t[i]
    BY <1>1, <1>2, <2>1 DEF Joins
  <2>4. f[n] = FlattenSeq(s) /\ g[n + 1] = FlattenSeq(t)
    BY <1>1, <1>2, <2>1
  <2> HIDE DEF n
  <2>5. 1 \in T
    BY <1>1, <2>2, <2>3
  <2>6. ASSUME NEW i \in 1 .. n, i \in T, i < n
        PROVE  i + 1 \in T
    <3>1. i + 1 \in 1 .. n /\ i + 1 \in 1 .. n + 1 /\ i + 1 # 1 /\ (i + 1) - 1 = i
      BY <1>1, <2>6
    <3>2. f[i + 1] = f[i] \o s[i + 1] /\ g[i + 1] = g[i] \o t[i + 1] /\ t[i + 1] = s[i + 1]
      BY <1>1, <2>3, <3>1
    <3> QED
      BY <2>6, <3>1, <3>2
  <2> HIDE DEF T
  <2>7. n \in T
    <3>1. 1 .. n \subseteq T
      BY <1>1, <2>5, <2>6, SetInduction
    <3> QED
      BY <3>1, <1>1, <2>2
  <2>8. g[n] = f[n]
    BY <2>7 DEF T
  <2>9. n + 1 \in 1 .. n + 1 /\ n + 1 # 1 /\ (n + 1) - 1 = n
    BY <1>1, <2>2
  <2>10. g[n + 1] = g[n] \o t[n + 1]
    BY <2>3, <2>9
  <2> QED
    BY <1>1, <2>4, <2>8, <2>10 DEF t
<1> QED
  BY <1>3, <1>4

\* What is received from a channel comes before all that still waits in it.
LEMMA FlattenHead ==
  ASSUME NEW S, NEW s \in Seq(Seq(S)), s # <<>>
  PROVE  FlattenSeq(s) = Head(s) \o FlattenSeq(Tail(s))
<1>assoc. \A a, b, c \in Seq(S) : (a \o b) \o c = a \o (b \o c)
  BY ConcatAssociative, SMTT(60)
<1> DEFINE h == Head(s)
           t == Tail(s)
           n == Len(s)
<1>1. /\ n \in Nat \ {0} /\ h \in Seq(S) /\ t \in Seq(Seq(S)) /\ Len(t) = n - 1
      /\ h = s[1]
      /\ \A i \in 1 .. n - 1 : t[i] = s[i + 1]
  BY EmptySeq, HeadTailProperties, ElementOfSeq
<1>2. PICK f : Joins(s, f) /\ FlattenSeq(s) = f[n]
  BY FlattenIs
<1>3. /\ \A i \in 1 .. n : f[i] = IF i = 1 THEN s[i] ELSE f[i - 1] \o s[i]
      /\ \A i \in 1 .. n : s[i] \in Seq(S)
  BY <1>2, ElementOfSeq DEF Joins
<1> HIDE DEF h, t, n
<1>4. CASE t = <<>>
  <2>1. n = 1
    BY <1>1, <1>4, EmptySeq
  <2>2. f[1] = h
    BY <1>1, <1>3, <2>1
  <2>3. h \o <<>> = h
    BY <1>1, ConcatEmptySeq
  <2> QED
    BY <1>2, <1>4, <2>1, <2>2, <2>3, FlattenEmpty DEF h, t
<1>5. CASE t # <<>>
  <2> DEFINE k == n - 1
  <2>1. k \in Nat \ {0} /\ k + 1 = n
    BY <1>1, <1>5, EmptySeq
  <2>2. PICK g : Joins(t, g) /\ FlattenSeq(t) = g[k]
    BY <1>1, <1>5, FlattenIs
  <2>3. \A i \in 1 .. k : g[i] = IF i = 1 THEN t[i] ELSE g[i - 1] \o t[i]
    BY <1>1, <2>2 DEF Joins
  <2>4. \A i \in 1 .. k : g[i] \in Seq(S)
    BY <1>1, <2>2, JoinsTypes
  <2> DEFINE T == {i \in 1 .. k : f[i + 1] = h \o g[i]}
  <2>5. 1 \in T
    <3>1. 1 \in 1 .. k /\ 1 \in 1 .. n /\ 2 \in 1 .. n /\ 1 + 1 = 2 /\ 2 - 1 = 1 /\ 2 # 1
      BY <2>1
    <3>2. f[1] = h /\ f[2] = f[1] \o s[2]
      BY <1>1, <1>3, <3>1
    <3>3. g[1] = s[2]
      BY <1>1, <2>3, <3>1
    <3> QED
      BY <3>1, <3>2, <3>3
  <2>6. ASSUME NEW i \in 1 .. k, i \in T, i < k
        PROVE  i + 1 \in T
    <3>1. /\ i + 1 \in 1 .. k /\ i + 1 # 1 /\ (i + 1) - 1 = i
          /\ (i + 1) + 1 \in 1 .. n /\ (i + 1) + 1 # 1 /\ ((i + 1) + 1) - 1 = i + 1
      BY <2>1, <2>6
    <3>2. f[(i + 1) + 1] = f[i + 1] \o s[(i + 1) + 1]
      BY <1>3, <3>1
    <3>3. t[i + 1] = s[(i + 1) + 1]
      BY <1>1, <3>1
    <3>4. g[i + 1] = g[i] \o s[(i + 1) + 1]
      BY <2>3, <3>1, <3>3
    <3>5. g[i] \in Seq(S) /\ s[(i + 1) + 1] \in Seq(S)
      BY <1>3, <2>4, <2>6, <3>1
    <3>6. (h \o g[i]) \o s[(i + 1) + 1] = h \o (g[i] \o s[(i + 1) + 1])
      <4>1. h \in Seq(S)
        BY <1>1
      <4> QED
        BY <1>assoc, <3>5, <4>1, Zenon
    <3> QED
      BY <2>6, <3>1, <3>2, <3>4, <3>6
  <2> HIDE DEF T
  <2>7. k \in T
    <3>1. 1 .. k \subseteq T
      BY <2>1, <2>5, <2>6, SetInduction
    <3> QED
      BY <3>1, <2>1
  <2>8. f[k + 1] = h \o g[k]
    BY <2>7 DEF T
  <2> QED
    BY <1>2, <2>1, <2>2, <2>8 DEF h, t
<1> QED
  BY <1>4, <1>5

-----------------------------------------------------------------------------
(***************************************************************************)
(* Sequences of units.                                                     *)
(***************************************************************************)

\* A sequence cut in two is whole when its parts are put together.
LEMMA CutInTwo ==
  ASSUME NEW S, NEW s \in Seq(S), NEW n \in 0 .. Len(s)
  PROVE  /\ SubSeq(s, 1, n) \in Seq(S) /\ SubSeq(s, n + 1, Len(s)) \in Seq(S)
         /\ Len(SubSeq(s, 1, n)) = n
         /\ SubSeq(s, 1, n) \o SubSeq(s, n + 1, Len(s)) = s
<1>1. Len(s) \in Nat /\ n \in Nat /\ n <= Len(s) /\ \A i \in 1 .. Len(s) : s[i] \in S
  BY LenProperties, ElementOfSeq
<1>2. SubSeq(s, 1, n) \in Seq(S) /\ Len(SubSeq(s, 1, n)) = n
  <2>1. \A i \in 1 .. n : s[i] \in S
    BY <1>1
  <2>2. n \in Int /\ 1 \in Int
    BY <1>1
  <2>3. SubSeq(s, 1, n) \in Seq(S) /\ Len(SubSeq(s, 1, n)) = IF 1 <= n THEN n - 1 + 1 ELSE 0
    BY <2>1, <2>2, SubSeqProperties
  <2> QED
    BY <1>1, <2>3
<1>3. SubSeq(s, n + 1, Len(s)) \in Seq(S)
  <2>1. \A i \in n + 1 .. Len(s) : s[i] \in S
    BY <1>1
  <2>2. n + 1 \in Int /\ Len(s) \in Int
    BY <1>1
  <2> QED
    BY <2>1, <2>2, SubSeqProperties
<1>4. SubSeq(s, 1, n) \o SubSeq(s, n + 1, Len(s)) = SubSeq(s, 1, Len(s))
  <2>1. 1 \in 1 .. Len(s) + 1 /\ n \in 1 - 1 .. Len(s) /\ Len(s) \in n .. Len(s)
    BY <1>1
  <2> QED
    BY <2>1, ConcatAdjacentSubSeq
<1> QED
  BY <1>2, <1>3, <1>4, SubSeqFull

LEMMA UnitsAssociate == \A a, b, c \in Seq(Nat) : (a \o b) \o c = a \o (b \o c)
BY ConcatAssociative

\* Body is what the request takes of what was gathered, Rest what it leaves.
LEMMA BodyAndRest ==
  ASSUME sndBuf \in Seq(Nat)
  PROVE  Body \in Seq(Nat) /\ Rest \in Seq(Nat) /\ Body \o Rest = sndBuf
<1> DEFINE n == Len(sndBuf)
           m == maxPayloadLength
           k == Min({n, m})
<1>1. n \in Nat /\ m \in Nat
  BY LenProperties, MeekAssumption
<1>2. k \in {n, m} /\ \A y \in {n, m} : k <= y
  <2> HIDE DEF n, m
  <2>1. \E x \in {n, m} : \A y \in {n, m} : x <= y
    BY <1>1
  <2> QED
    BY <2>1 DEF Min
<1>3. k \in 0 .. n
  <2> HIDE DEF k, n, m
  <2> QED
    BY <1>1, <1>2
<1>4. Body = SubSeq(sndBuf, 1, k)
  BY DEF Body
<1> HIDE DEF k
<1>5. Len(Body) = k
  BY <1>3, <1>4, CutInTwo
<1>6. Rest = SubSeq(sndBuf, k + 1, Len(sndBuf))
  BY <1>5 DEF Rest
<1> QED
  BY <1>3, <1>4, <1>6, CutInTwo

\* The units of two writes, one after the other.
LEMMA UnitsInTurn ==
  ASSUME NEW a \in Nat, NEW n \in Nat
  PROVE  /\ Units(1, a) \in Seq(Nat) /\ Units(a + 1, a + n) \in Seq(Nat)
         /\ Len(Units(a + 1, a + n)) = n
         /\ Units(1, a) \o Units(a + 1, a + n) = Units(1, a + n)
<1>1. \A i, j \in Nat : i <= j + 1 /\ 1 <= i =>
        /\ Units(i, j) \in Seq(Nat) /\ Len(Units(i, j)) = j - i + 1
        /\ \A k \in 1 .. j - i + 1 : Units(i, j)[k] = i + k - 1
  <2> TAKE i, j \in Nat
  <2> HAVE i <= j + 1 /\ 1 <= i
  <2> DEFINE l == j - i + 1
  <2>1. l \in Nat /\ \A k \in 1 .. l : i + k - 1 \in Nat
    OBVIOUS
  <2>2. Units(i, j) = [k \in 1 .. l |-> i + k - 1]
    BY DEF Units
  <2> HIDE DEF l
  <2>3. Units(i, j) \in [1 .. l -> Nat]
    BY <2>1, <2>2
  <2>4. Units(i, j) \in Seq(Nat) /\ Len(Units(i, j)) = l
    BY <2>1, <2>3
  <2> QED
    BY <2>2, <2>4 DEF l
<1> DEFINE s == Units(1, a)
           t == Units(a + 1, a + n)
           u == Units(1, a + n)
<1>2. /\ s \in Seq(Nat) /\ Len(s) = a /\ \A k \in 1 .. a : s[k] = k
      /\ t \in Seq(Nat) /\ Len(t) = n /\ \A k \in 1 .. n : t[k] = a + k
      /\ u \in Seq(Nat) /\ Len(u) = a + n /\ \A k \in 1 .. a + n : u[k] = k
  <2>1. s \in Seq(Nat) /\ Len(s) = a /\ \A k \in 1 .. a : s[k] = k
    BY <1>1
  <2>2. t \in Seq(Nat) /\ Len(t) = n /\ \A k \in 1 .. n : t[k] = a + k
    <3>1. a + 1 \in Nat /\ a + n \in Nat /\ a + 1 <= (a + n) + 1 /\ 1 <= a + 1
      OBVIOUS
    <3>2. /\ t \in Seq(Nat) /\ Len(t) = (a + n) - (a + 1) + 1
          /\ \A k \in 1 .. (a + n) - (a + 1) + 1 : t[k] = (a + 1) + k - 1
      BY <1>1, <3>1
    <3>3. (a + n) - (a + 1) + 1 = n /\ \A k \in 1 .. n : (a + 1) + k - 1 = a + k
      OBVIOUS
    <3> HIDE DEF t
    <3> QED
      BY <3>2, <3>3
  <2>3. u \in Seq(Nat) /\ Len(u) = a + n /\ \A k \in 1 .. a + n : u[k] = k
    <3>1. 1 \in Nat /\ a + n \in Nat /\ 1 <= (a + n) + 1 /\ 1 <= 1
      OBVIOUS
    <3>2. /\ u \in Seq(Nat) /\ Len(u) = (a + n) - 1 + 1
          /\ \A k \in 1 .. (a + n) - 1 + 1 : u[k] = 1 + k - 1
      BY <1>1, <3>1
    <3>3. (a + n) - 1 + 1 = a + n /\ \A k \in 1 .. a + n : 1 + k - 1 = k
      OBVIOUS
    <3> HIDE DEF u
    <3> QED
      BY <3>2, <3>3
  <2> QED
    BY <2>1, <2>2, <2>3
<1> HIDE DEF s, t, u
<1>3. /\ s \o t \in Seq(Nat) /\ Len(s \o t) = a + n
      /\ \A k \in 1 .. a + n : (s \o t)[k] = IF k <= a THEN s[k] ELSE t[k - a]
  BY <1>2, ConcatProperties
<1>4. \A k \in 1 .. a + n : (s \o t)[k] = u[k]
  BY <1>2, <1>3
<1>5. s \o t = u
  BY <1>2, <1>3, <1>4, SeqEqual
<1> QED
  BY <1>2, <1>5 DEF s, t, u

-----------------------------------------------------------------------------
(***************************************************************************)
(* The invariant, in three parts.                                          *)
(***************************************************************************)
Stages == {"select", "gather", "trip", "enqueue", "failed", "gone"}

\* What was written: gathered data is what the last request left over and
\* what followed it, and a body that was served is not sent on again.
UpInv ==
  /\ worker \in Stages /\ served \in BOOLEAN /\ accepted \in Nat
  /\ wrChan \in Seq(Seq(Nat))
  /\ sndBuf \in Seq(Nat) /\ leftBuf \in Seq(Nat)
  /\ upstream \in Seq(Nat) /\ writer \in Seq(Nat)
  /\ worker \in {"select", "enqueue"} => sndBuf = <<>>
  /\ worker \in {"gather", "trip"} /\ sndBuf = <<>> => leftBuf = <<>>
  /\ served = TRUE => worker \in {"trip", "failed", "gone"}
  /\ writer # <<>> => \E n \in 1 .. MaxChunk : writer = Units(accepted + 1, accepted + n)
  /\ UpstreamConserved

\* What was received: only a worker about to enqueue has any of it in hand,
\* and a reader that was refused left nothing behind.
DownInv ==
  /\ worker \in Stages /\ readErr \in BOOLEAN /\ downstream \in Nat
  /\ rdChan \in Seq(Seq(Nat))
  /\ rdBuf \in Seq(Nat) /\ rcvd \in Seq(Nat)
  /\ given \in Seq(Nat) /\ arrived \in Seq(Nat)
  /\ worker # "enqueue" => rcvd = <<>>
  /\ readErr = TRUE => worker = "gone" /\ rdBuf = <<>> /\ rdChan = <<>>
  /\ given \o rdBuf \o FlattenSeq(rdChan) \o rcvd = arrived

\* The front that was tried j requests ago.
Back(j) == IF j <= index THEN index - j ELSE index - j + Fronts

\* As long as no exchange was lost, the fronts tried so far are blocked.
FrontInv ==
  /\ index \in 0 .. Fronts - 1 /\ retries \in Nat /\ losses \in Nat
  /\ losses = 0 => \A j \in 1 .. Fronts : j <= retries => Back(j) \in Blocked

-----------------------------------------------------------------------------
(* What was written. *)

LEMMA PendingIs ==
  ASSUME UpInv
  PROVE  /\ served = TRUE => Pending = Rest
         /\ served = FALSE /\ sndBuf # <<>> => Pending = sndBuf
         /\ served = FALSE /\ sndBuf = <<>> => Pending = leftBuf
         /\ Pending \in Seq(Nat) /\ FlattenSeq(wrChan) \in Seq(Nat)
<1>1. Rest \in Seq(Nat)
  BY BodyAndRest DEF UpInv
<1>2. FlattenSeq(wrChan) \in Seq(Nat)
  BY FlattenType DEF UpInv
<1> QED
  BY <1>1, <1>2 DEF UpInv, Pending

\* A request takes Body from what is pending, if it did not before.
LEMMA BodyIsSent ==
  ASSUME UpInv, worker = "trip"
  PROVE  LET sent == IF served THEN upstream ELSE upstream \o Body IN
         /\ sent \in Seq(Nat) /\ Rest \in Seq(Nat)
         /\ sent \o Rest \o FlattenSeq(wrChan) = Units(1, accepted)
<1>1. /\ Body \in Seq(Nat) /\ Rest \in Seq(Nat) /\ Body \o Rest = sndBuf
      /\ upstream \in Seq(Nat)
      /\ upstream \o Pending \o FlattenSeq(wrChan) = Units(1, accepted)
  BY BodyAndRest DEF UpInv, UpstreamConserved
<1>2. CASE served = TRUE
  BY <1>1, <1>2, PendingIs
<1>3. CASE served = FALSE
  <2>1. Pending = sndBuf
    BY <1>3, PendingIs DEF UpInv
  <2>2. (upstream \o Body) \o Rest = upstream \o sndBuf
    BY <1>1, UnitsAssociate, Zenon
  <2>3. upstream \o Body \in Seq(Nat)
    BY <1>1, ConcatProperties
  <2> QED
    BY <1>1, <1>3, <2>1, <2>2, <2>3
<1> QED
  BY <1>2, <1>3 DEF UpInv

\* What a step preserves that moves no data written.
LEMMA UpKept ==
  ASSUME UpInv, UNCHANGED <<wrChan, sndBuf, leftBuf, upstream, accepted, served, writer>>,
         worker' \in Stages,
         worker' \in {"select", "enqueue"} => worker \in {"select", "enqueue"},
         worker' \in {"gather", "trip"} => worker \in {"gather", "trip"},
         worker \in {"trip", "failed", "gone"} => worker' \in {"trip", "failed", "gone"}
  PROVE  UpInv'
<1>1. Pending' = Pending
  BY DEF Pending, Rest, Body
<1> QED
  BY <1>1 DEF UpInv, UpstreamConserved

LEMMA WriteUp ==
  ASSUME UpInv, NEW n \in 1 .. MaxChunk, Write(n)
  PROVE  UpInv'
<1>1. n \in Nat
  BY MeekAssumption
<1>2. writer' = Units(accepted + 1, accepted + n) /\ writer' \in Seq(Nat)
  BY <1>1, UnitsInTurn DEF Write, UpInv
<1>3. UNCHANGED <<wrChan, sndBuf, leftBuf, upstream, accepted, served, worker>>
  BY DEF Write, workerVars, historyVars
<1>4. Pending' = Pending
  BY <1>3 DEF Pending, Rest, Body
<1> QED
  BY <1>2, <1>3, <1>4 DEF UpInv, UpstreamConserved

LEMMA EnqueueWriteUp ==
  ASSUME UpInv, EnqueueWrite
  PROVE  UpInv'
<1>1. /\ writer # <<>> /\ writer' = <<>>
      /\ UNCHANGED <<sndBuf, leftBuf, upstream, served, worker>>
  BY DEF EnqueueWrite, workerVars
<1>2. Pending' = Pending
  BY <1>1 DEF Pending, Rest, Body
<1>3. writer' \in Seq(Nat)
  BY <1>1
<1>4. CASE UNCHANGED <<wrChan, accepted>>
  BY <1>1, <1>2, <1>3, <1>4 DEF UpInv, UpstreamConserved
<1>5. CASE wrChan' = Append(wrChan, writer) /\ accepted' = accepted + Len(writer)
  <2>1. PICK n \in 1 .. MaxChunk : writer = Units(accepted + 1, accepted + n)
    BY <1>1 DEF UpInv
  <2>2. n \in Nat /\ accepted \in Nat /\ writer \in Seq(Nat) /\ wrChan \in Seq(Seq(Nat))
    BY MeekAssumption DEF UpInv
  <2>3. accepted' = accepted + n /\ Units(1, accepted) \o writer = Units(1, accepted')
    BY <1>5, <2>1, <2>2, UnitsInTurn
  <2>4. FlattenSeq(wrChan') = FlattenSeq(wrChan) \o writer
    BY <1>5, <2>2, FlattenAppend
  <2>5. /\ upstream \in Seq(Nat) /\ Pending \in Seq(Nat) /\ FlattenSeq(wrChan) \in Seq(Nat)
        /\ upstream \o Pending \in Seq(Nat)
    BY PendingIs, ConcatProperties DEF UpInv
  <2>6. ((upstream \o Pending) \o FlattenSeq(wrChan)) \o writer
          = (upstream \o Pending) \o (FlattenSeq(wrChan) \o writer)
    BY <2>2, <2>5, UnitsAssociate, Zenon
  <2>7. UpstreamConserved'
    BY <1>1, <1>2, <2>3, <2>4, <2>6 DEF UpInv, UpstreamConserved
  <2>8. wrChan' \in Seq(Seq(Nat)) /\ accepted' \in Nat
    BY <1>5, <2>2, <2>3, AppendProperties
  <2> QED
    BY <1>1, <1>3, <2>7, <2>8 DEF UpInv
<1> QED
  BY <1>4, <1>5 DEF EnqueueWrite

\* A chunk goes from the channel behind what is gathered.
LEMMA ChunkIsGathered ==
  ASSUME UpInv, wrChan # <<>>, NEW s \in Seq(Nat), NEW t,
         t = s \o Head(wrChan),
         upstream \o s \o FlattenSeq(wrChan) = Units(1, accepted)
  PROVE  /\ t \in Seq(Nat) /\ Tail(wrChan) \in Seq(Seq(Nat))
         /\ upstream \o t \o FlattenSeq(Tail(wrChan)) = Units(1, accepted)
         /\ t = <<>> => s = <<>>
<1> DEFINE h == Head(wrChan)
           r == FlattenSeq(Tail(wrChan))
<1>1. h \in Seq(Nat) /\ Tail(wrChan) \in Seq(Seq(Nat)) /\ upstream \in Seq(Nat)
  BY HeadTailProperties DEF UpInv
<1>2. r \in Seq(Nat)
  BY <1>1, FlattenType
<1>3. FlattenSeq(wrChan) = h \o r
  BY FlattenHead DEF UpInv
<1>4. s \o h \in Seq(Nat) /\ upstream \o s \in Seq(Nat)
  BY <1>1, ConcatProperties
<1> HIDE DEF h, r
<1>5. (upstream \o (s \o h)) \o r = (upstream \o s) \o (h \o r)
  <2>1. upstream \o (s \o h) = (upstream \o s) \o h
    BY <1>1, UnitsAssociate, Zenon
  <2>2. ((upstream \o s) \o h) \o r = (upstream \o s) \o (h \o r)
    BY <1>1, <1>2, <1>4, UnitsAssociate, Zenon
  <2> QED
    BY <2>1, <2>2
<1>6. t = <<>> => s = <<>>
  <2>1. s \o h = <<>> <=> s = <<>> /\ h = <<>>
    BY <1>1, ConcatEqualIffEmpty
  <2> QED
    BY <2>1 DEF h
<1> QED
  BY <1>1, <1>3, <1>4, <1>5, <1>6 DEF h, r

LEMMA SelectUp ==
  ASSUME UpInv, Select
  PROVE  UpInv'
<1>1. /\ worker = "select" /\ worker' = "gather" /\ sndBuf = <<>> /\ served = FALSE
      /\ UNCHANGED <<leftBuf, upstream, accepted, served, writer>>
  BY DEF Select, UpInv, historyVars
<1>2. /\ leftBuf \in Seq(Nat) /\ upstream \o leftBuf \o FlattenSeq(wrChan) = Units(1, accepted)
  BY <1>1, PendingIs DEF UpInv, UpstreamConserved
<1>3. /\ sndBuf' \in Seq(Nat) /\ wrChan' \in Seq(Seq(Nat))
      /\ upstream \o sndBuf' \o FlattenSeq(wrChan') = Units(1, accepted)
      /\ sndBuf' = <<>> => leftBuf = <<>>
  <2>1. CASE sndBuf' = leftBuf /\ UNCHANGED wrChan
    BY <1>2, <2>1 DEF UpInv
  <2>2. CASE /\ wrChan # <<>>
             /\ sndBuf' = leftBuf \o Head(wrChan)
             /\ wrChan' = Tail(wrChan)
    BY <1>2, <2>2, ChunkIsGathered
  <2> QED
    BY <2>1, <2>2 DEF Select
<1>4. Pending' = sndBuf'
  BY <1>1, <1>3 DEF Pending
<1> QED
  BY <1>1, <1>3, <1>4 DEF UpInv, UpstreamConserved, Stages

LEMMA GatherUp ==
  ASSUME UpInv, Gather
  PROVE  UpInv'
<1>1. /\ worker = "gather" /\ served = FALSE
      /\ UNCHANGED <<leftBuf, upstream, accepted, writer>>
  BY DEF Gather, UpInv, historyVars
<1>2. CASE wrChan # <<>> /\ Len(sndBuf) < maxPayloadLength
  <2>1. /\ sndBuf' = sndBuf \o Head(wrChan) /\ wrChan' = Tail(wrChan)
        /\ UNCHANGED <<worker, served>>
    BY <1>2 DEF Gather
  <2>2. sndBuf \in Seq(Nat) /\ upstream \o sndBuf \o FlattenSeq(wrChan) = Units(1, accepted)
    BY <1>1, PendingIs DEF UpInv, UpstreamConserved
  <2>3. /\ sndBuf' \in Seq(Nat) /\ wrChan' \in Seq(Seq(Nat))
        /\ upstream \o sndBuf' \o FlattenSeq(wrChan') = Units(1, accepted)
        /\ sndBuf' = <<>> => leftBuf = <<>>
    BY <1>1, <1>2, <2>1, <2>2, ChunkIsGathered DEF UpInv
  <2>4. Pending' = sndBuf'
    BY <1>1, <2>1, <2>3 DEF Pending
  <2> QED
    BY <1>1, <2>1, <2>3, <2>4 DEF UpInv, UpstreamConserved, Stages
<1>3. CASE ~(wrChan # <<>> /\ Len(sndBuf) < maxPayloadLength)
  <2>1. worker' = "trip" /\ served' = FALSE /\ UNCHANGED <<sndBuf, wrChan>>
    BY <1>3 DEF Gather
  <2>2. Pending' = Pending
    BY <1>1, <2>1 DEF Pending, Rest, Body
  <2> QED
    BY <1>1, <2>1, <2>2 DEF UpInv, UpstreamConserved, Stages
<1> QED
  BY <1>2, <1>3

\* A request that the server has served is in its hands, whatever came of it.
LEMMA TripFailsUp ==
  ASSUME UpInv, RequestFails \/ TripFails \/ ResponseBreaks
  PROVE  UpInv'
<1>1. /\ worker = "trip" /\ worker' \in {"trip", "failed"}
      /\ UNCHANGED <<sndBuf, leftBuf, wrChan, accepted, writer>>
      /\ \/ UNCHANGED <<served, upstream>>
         \/ served' = TRUE /\ upstream' = IF served THEN upstream ELSE upstream \o Body
  BY DEF RequestFails, TripFails, ResponseBreaks, historyVars
<1>2. Rest' = Rest
  BY <1>1 DEF Rest, Body
<1>3. CASE UNCHANGED <<served, upstream>>
  <2>1. Pending' = Pending
    BY <1>1, <1>2, <1>3 DEF Pending
  <2> QED
    BY <1>1, <1>3, <2>1 DEF UpInv, UpstreamConserved, Stages
<1>4. CASE served' = TRUE /\ upstream' = IF served THEN upstream ELSE upstream \o Body
  <2>1. Pending' = Rest
    BY <1>2, <1>4 DEF Pending
  <2>2. /\ upstream' \in Seq(Nat)
        /\ upstream' \o Rest \o FlattenSeq(wrChan) = Units(1, accepted)
    BY <1>1, <1>4, BodyIsSent
  <2> QED
    BY <1>1, <1>4, <2>1, <2>2 DEF UpInv, UpstreamConserved, Stages
<1> QED
  BY <1>1, <1>3, <1>4

LEMMA TripSucceedsUp ==
  ASSUME UpInv, NEW n \in 0 .. maxPayloadLength, TripSucceeds(n)
  PROVE  UpInv'
<1>1. /\ worker = "trip" /\ worker' \in {"select", "enqueue"}
      /\ UNCHANGED <<wrChan, accepted, writer>>
      /\ served' = FALSE /\ sndBuf' = <<>> /\ leftBuf' = Rest
      /\ upstream' = IF served THEN upstream ELSE upstream \o Body
  BY DEF TripSucceeds
<1>2. Pending' = Rest
  BY <1>1 DEF Pending
<1>3. /\ upstream' \in Seq(Nat) /\ Rest \in Seq(Nat) /\ sndBuf' \in Seq(Nat)
      /\ upstream' \o Rest \o FlattenSeq(wrChan) = Units(1, accepted)
  BY <1>1, BodyIsSent, EmptySeq
<1> QED
  BY <1>1, <1>2, <1>3 DEF UpInv, UpstreamConserved, Stages

LEMMA NextUp == UpInv /\ [Next]_vars => UpInv'
<1> SUFFICES ASSUME UpInv, [Next]_vars
             PROVE  UpInv'
  OBVIOUS
<1>1. ASSUME NEW n \in 1 .. MaxChunk, Write(n)
      PROVE  UpInv'
  BY <1>1, WriteUp
<1>2. ASSUME \/ EnqueueWrite \/ Select \/ Gather
             \/ RequestFails \/ TripFails \/ ResponseBreaks
      PROVE  UpInv'
  BY <1>2, EnqueueWriteUp, SelectUp, GatherUp, TripFailsUp
<1>3. ASSUME NEW n \in 0 .. maxPayloadLength, TripSucceeds(n)
      PROVE  UpInv'
  BY <1>3, TripSucceedsUp
<1>4. ASSUME Reads \/ Close \/ UNCHANGED vars
      PROVE  UpInv'
  <2>1. UNCHANGED <<wrChan, sndBuf, leftBuf, upstream, accepted, served, writer, worker>>
    BY <1>4 DEF Reads, Read, ReadFails, Close, vars, workerVars, historyVars
  <2> QED
    BY <2>1, UpKept DEF UpInv
<1>5. ASSUME SelectClosed \/ EnqueueRead \/ Leave
      PROVE  UpInv'
  <2>1. /\ UNCHANGED <<wrChan, sndBuf, leftBuf, upstream, accepted, served, writer>>
        /\ \/ worker = "select" /\ worker' = "failed"
           \/ worker = "enqueue" /\ worker' = "select"
           \/ worker = "failed" /\ worker' = "gone"
    BY <1>5 DEF SelectClosed, EnqueueRead, Leave, historyVars
  <2>2. served = FALSE \/ worker = "failed"
    BY <2>1 DEF UpInv
  <2> QED
    BY <2>1, <2>2, UpKept DEF Stages
<1> QED
  BY <1>1, <1>2, <1>3, <1>4, <1>5 DEF Next, Worker

-----------------------------------------------------------------------------
(* What was received. *)

LEMMA DownTypes ==
  ASSUME DownInv
  PROVE  /\ FlattenSeq(rdChan) \in Seq(Nat)
         /\ given \o rdBuf \in Seq(Nat) /\ given \o rdBuf \o FlattenSeq(rdChan) \in Seq(Nat)
BY FlattenType, ConcatProperties DEF DownInv

\* Read takes the next n units of what the reader has begun, or of the next chunk.
LEMMA ReadDown ==
  ASSUME DownInv, NEW n \in 1 .. maxPayloadLength, Read(n)
  PROVE  DownInv'
<1> DEFINE chunk == IF rdBuf = <<>> THEN Head(rdChan) ELSE rdBuf
           left == IF rdBuf = <<>> THEN Tail(rdChan) ELSE rdChan
<1>1. /\ readErr # TRUE
      /\ rdBuf = <<>> => rdChan # <<>>
      /\ n <= Len(chunk) /\ n \in Nat
      /\ given' = given \o SubSeq(chunk, 1, n)
      /\ rdBuf' = SubSeq(chunk, n + 1, Len(chunk))
      /\ rdChan' = left
      /\ UNCHANGED <<worker, rcvd, downstream, arrived, readErr>>
  <2>1. n \in Nat
    BY MeekAssumption
  <2>2. readErr # TRUE /\ (rdBuf = <<>> => rdChan # <<>>)
    BY DEF Read
  <2>3. n <= Len(chunk) /\ given' = given \o SubSeq(chunk, 1, n)
    BY DEF Read
  <2>4. rdBuf' = SubSeq(chunk, n + 1, Len(chunk)) /\ rdChan' = left
    BY DEF Read
  <2>5. UNCHANGED <<worker, rcvd, downstream, arrived, readErr>>
    BY DEF Read, workerVars
  <2> HIDE DEF chunk, left
  <2> QED
    BY <2>1, <2>2, <2>3, <2>4, <2>5
<1>2. /\ chunk \in Seq(Nat) /\ left \in Seq(Seq(Nat))
      /\ rdBuf \o FlattenSeq(rdChan) = chunk \o FlattenSeq(left)
  <2>1. CASE rdBuf = <<>>
    <3>1. /\ rdChan \in Seq(Seq(Nat)) /\ rdChan # <<>>
      BY <1>1, <2>1 DEF DownInv
    <3>2. Head(rdChan) \in Seq(Nat) /\ Tail(rdChan) \in Seq(Seq(Nat))
      BY <3>1, HeadTailProperties
    <3>3. FlattenSeq(rdChan) = Head(rdChan) \o FlattenSeq(Tail(rdChan))
      BY <3>1, FlattenHead
    <3>4. <<>> \o FlattenSeq(rdChan) = FlattenSeq(rdChan)
      BY DownTypes, ConcatEmptySeq
    <3> QED
      BY <2>1, <3>2, <3>3, <3>4
  <2>2. CASE rdBuf # <<>>
    BY <2>2 DEF DownInv
  <2> QED
    BY <2>1, <2>2
<1> HIDE DEF chunk, left
<1> DEFINE a == SubSeq(chunk, 1, n)
           b == SubSeq(chunk, n + 1, Len(chunk))
           f == FlattenSeq(rdChan)
           g == FlattenSeq(left)
<1>3. a \in Seq(Nat) /\ b \in Seq(Nat) /\ a \o b = chunk
  <2>1. n \in 0 .. Len(chunk)
    BY <1>1, <1>2, LenProperties
  <2> QED
    BY <1>2, <2>1, CutInTwo
<1>4. f \in Seq(Nat) /\ g \in Seq(Nat) /\ given \in Seq(Nat) /\ rdBuf \in Seq(Nat)
  BY <1>2, FlattenType DEF DownInv
<1>5. given \o a \in Seq(Nat)
  BY <1>3, <1>4, ConcatProperties
<1>6. given' = given \o a /\ rdBuf' = b /\ rdChan' = left
  BY <1>1
<1>7. rdBuf \o f = chunk \o g
  BY <1>2
<1> HIDE DEF a, b, f, g
<1>8. (given \o rdBuf) \o f = ((given \o a) \o b) \o g
  <2>1. (given \o rdBuf) \o f = given \o (chunk \o g)
    <3>1. (given \o rdBuf) \o f = given \o (rdBuf \o f)
      BY <1>4, UnitsAssociate, Zenon
    <3> QED
      BY <1>7, <3>1
  <2>2. given \o (chunk \o g) = (given \o chunk) \o g
    BY <1>2, <1>4, UnitsAssociate, Zenon
  <2>3. given \o chunk = (given \o a) \o b
    BY <1>3, <1>4, UnitsAssociate, ZenonT(60)
  <2> QED
    BY <2>1, <2>2, <2>3
<1>9. given' \o rdBuf' \o FlattenSeq(rdChan') \o rcvd' = arrived'
  <2>1. given \o rdBuf \o f \o rcvd = arrived
    BY DEF DownInv, f
  <2> QED
    BY <1>1, <1>6, <1>8, <2>1 DEF g
<1>10. /\ rdChan' \in Seq(Seq(Nat)) /\ rdBuf' \in Seq(Nat) /\ given' \in Seq(Nat)
       /\ UNCHANGED <<worker, rcvd, downstream, arrived, readErr>>
  BY <1>1, <1>2, <1>3, <1>5, <1>6
<1> QED
  BY <1>1, <1>9, <1>10 DEF DownInv

LEMMA TripSucceedsDown ==
  ASSUME DownInv, NEW n \in 0 .. maxPayloadLength, TripSucceeds(n)
  PROVE  DownInv'
<1>1. /\ worker = "trip" /\ worker' = IF n > 0 THEN "enqueue" ELSE "select"
      /\ downstream' = downstream + n /\ rcvd' = Units(downstream + 1, downstream + n)
      /\ arrived' = arrived \o rcvd'
      /\ UNCHANGED <<rdChan, rdBuf, given, readErr>>
  BY DEF TripSucceeds
<1>2. n \in Nat /\ downstream \in Nat /\ rcvd = <<>> /\ arrived \in Seq(Nat)
  BY <1>1, MeekAssumption DEF DownInv
<1>3. rcvd' \in Seq(Nat) /\ Len(rcvd') = n /\ arrived' \in Seq(Nat)
  BY <1>1, <1>2, UnitsInTurn, ConcatProperties
<1>4. n = 0 => rcvd' = <<>>
  BY <1>3, EmptySeq
<1>5. given \o rdBuf \o FlattenSeq(rdChan) = arrived
  <2> DEFINE x == given \o rdBuf \o FlattenSeq(rdChan)
  <2>1. x \in Seq(Nat) /\ x \o rcvd = arrived
    BY DownTypes DEF DownInv
  <2> HIDE DEF x
  <2>2. x \o <<>> = x
    BY <2>1, ConcatEmptySeq
  <2>3. x = arrived
    BY <1>2, <2>1, <2>2
  <2> QED
    BY <2>3 DEF x
<1>6. given' \o rdBuf' \o FlattenSeq(rdChan') \o rcvd' = arrived'
  BY <1>1, <1>5
<1>7. readErr # TRUE
  BY <1>1 DEF DownInv
<1>8. /\ worker' \in Stages /\ downstream' \in Nat
      /\ worker' # "enqueue" => rcvd' = <<>>
  BY <1>1, <1>2, <1>4 DEF Stages
<1>9. readErr' # TRUE /\ UNCHANGED <<rdChan, rdBuf, given, readErr>>
  BY <1>1, <1>7
<1> QED
  BY <1>3, <1>6, <1>8, <1>9 DEF DownInv

LEMMA EnqueueReadDown ==
  ASSUME DownInv, EnqueueRead
  PROVE  DownInv'
<1>1. /\ worker = "enqueue" /\ worker' = "select" /\ rcvd' = <<>>
      /\ rdChan' = Append(rdChan, rcvd)
      /\ UNCHANGED <<rdBuf, given, arrived, downstream, readErr>>
  BY DEF EnqueueRead, historyVars
<1>2. rdChan \in Seq(Seq(Nat)) /\ rcvd \in Seq(Nat)
  BY DEF DownInv
<1>3. rdChan' \in Seq(Seq(Nat)) /\ rcvd' \in Seq(Nat)
  BY <1>1, <1>2, AppendProperties, EmptySeq
<1> DEFINE x == given \o rdBuf
           f == FlattenSeq(rdChan)
<1>4. FlattenSeq(rdChan') = f \o rcvd
  BY <1>1, <1>2, FlattenAppend
<1>5. x \in Seq(Nat) /\ f \in Seq(Nat) /\ arrived \in Seq(Nat) /\ (x \o f) \o rcvd = arrived
  BY DownTypes DEF DownInv
<1> HIDE DEF x, f
<1>6. x \o (f \o rcvd) = arrived
  BY <1>2, <1>5, UnitsAssociate, Zenon
<1>7. arrived \o <<>> = arrived
  BY <1>5, ConcatEmptySeq
<1>8. given' \o rdBuf' \o FlattenSeq(rdChan') \o rcvd' = arrived'
  BY <1>1, <1>4, <1>6, <1>7 DEF x
<1>9. readErr # TRUE
  BY <1>1 DEF DownInv
<1> QED
  BY <1>1, <1>3, <1>8, <1>9 DEF DownInv, Stages

LEMMA NextDown == DownInv /\ [Next]_vars => DownInv'
<1> SUFFICES ASSUME DownInv, [Next]_vars
             PROVE  DownInv'
  OBVIOUS
<1>1. ASSUME NEW n \in 1 .. maxPayloadLength, Read(n)
      PROVE  DownInv'
  BY <1>1, ReadDown
<1>2. ASSUME NEW n \in 0 .. maxPayloadLength, TripSucceeds(n)
      PROVE  DownInv'
  BY <1>2, TripSucceedsDown
<1>3. CASE EnqueueRead
  BY <1>3, EnqueueReadDown
<1>4. ASSUME \/ \E n \in 1 .. MaxChunk : Write(n)
             \/ EnqueueWrite \/ ReadFails \/ Close
             \/ Select \/ SelectClosed \/ Gather \/ Leave
             \/ RequestFails \/ TripFails \/ ResponseBreaks
             \/ UNCHANGED vars
      PROVE  DownInv'
  <2>1. UNCHANGED <<rdChan, rdBuf, rcvd, given, arrived, downstream>>
    BY <1>4 DEF Write, EnqueueWrite, ReadFails, Close, Select, SelectClosed, Gather, Leave,
                RequestFails, TripFails, ResponseBreaks, vars, workerVars, historyVars
  <2>2. \/ worker' = worker
        \/ worker # "enqueue" /\ worker # "gone" /\ worker' \in Stages /\ worker' # "enqueue"
    BY <1>4 DEF Write, EnqueueWrite, ReadFails, Close, Select, SelectClosed, Gather, Leave,
                RequestFails, TripFails, ResponseBreaks, vars, workerVars, historyVars, Stages
  <2>3. \/ readErr' = readErr
        \/ readErr' = TRUE /\ worker' = "gone" /\ rdBuf = <<>> /\ rdChan = <<>>
    BY <1>4 DEF Write, EnqueueWrite, ReadFails, Close, Select, SelectClosed, Gather, Leave,
                RequestFails, TripFails, ResponseBreaks, vars, workerVars, historyVars
  <2> QED
    BY <2>1, <2>2, <2>3 DEF DownInv
<1> QED
  BY <1>1, <1>2, <1>3, <1>4 DEF Next, Worker, Reads

-----------------------------------------------------------------------------
(* The rotation of the fronts. *)

LEMMA TripFailsFront ==
  ASSUME FrontInv, TripFails
  PROVE  FrontInv'
<1>1. /\ retries' = retries + 1 /\ index' = NextFront
      /\ \/ index \in Blocked /\ losses' = losses
         \/ losses' = losses + 1
  BY DEF TripFails
<1>2. /\ index \in Nat /\ Fronts \in Nat \ {0} /\ index <= Fronts - 1
      /\ retries \in Nat /\ losses \in Nat
  BY MeekAssumption DEF FrontInv
<1>3. index' = IF index + 1 >= Fronts THEN 0 ELSE index + 1
  BY <1>1 DEF NextFront
<1>4. ASSUME losses' = 0, NEW j \in 1 .. Fronts, j <= retries'
      PROVE  Back(j)' \in Blocked
  <2>1. losses = 0 /\ index \in Blocked
    BY <1>1, <1>2, <1>4
  <2>2. CASE j = 1
    BY <1>2, <1>3, <2>1, <2>2 DEF Back
  <2>3. CASE j # 1
    <3>1. j - 1 \in 1 .. Fronts /\ j - 1 <= retries
      BY <1>1, <1>2, <1>4, <2>3
    <3>2. Back(j - 1) \in Blocked
      BY <2>1, <3>1 DEF FrontInv
    <3>3. Back(j)' = Back(j - 1)
      BY <1>2, <1>3, <2>3 DEF Back
    <3> QED
      BY <3>2, <3>3
  <2> QED
    BY <2>2, <2>3
<1>5. /\ index' \in 0 .. Fronts - 1 /\ retries' \in Nat /\ losses' \in Nat
  BY <1>1, <1>2, <1>3
<1> QED
  BY <1>4, <1>5 DEF FrontInv

LEMMA NextFronts == FrontInv /\ [Next]_vars => FrontInv'
<1> SUFFICES ASSUME FrontInv, [Next]_vars
             PROVE  FrontInv'
  OBVIOUS
<1>1. CASE TripFails
  BY <1>1, TripFailsFront
<1>2. CASE ResponseBreaks
  <2>1. losses' = losses + 1 /\ UNCHANGED <<index, retries>>
    BY <1>2 DEF ResponseBreaks
  <2>2. losses' \in Nat /\ losses' # 0
    BY <2>1 DEF FrontInv
  <2> QED
    BY <2>1, <2>2 DEF FrontInv
<1>3. ASSUME \/ \E n \in 1 .. MaxChunk : Write(n)
             \/ EnqueueWrite \/ Reads \/ Close
             \/ Select \/ SelectClosed \/ Gather \/ EnqueueRead \/ Leave \/ RequestFails
             \/ \E n \in 0 .. maxPayloadLength : TripSucceeds(n)
             \/ UNCHANGED vars
      PROVE  FrontInv'
  <2>1. UNCHANGED <<index, losses>> /\ (retries' = retries \/ retries' = 0)
    BY <1>3 DEF Write, EnqueueWrite, Reads, Read, ReadFails, Close, Select, SelectClosed, Gather,
                EnqueueRead, Leave, RequestFails, TripSucceeds, vars, workerVars, historyVars
  <2>2. CASE retries' = 0
    BY <2>1, <2>2 DEF FrontInv
  <2>3. CASE retries' = retries
    BY <2>1, <2>3 DEF FrontInv, Back
  <2> QED
    BY <2>1, <2>2, <2>3
<1> QED
  BY <1>1, <1>2, <1>3 DEF Next, Worker

-----------------------------------------------------------------------------
(* The theorems. *)

LEMMA InitMeek == Init => UpInv /\ DownInv /\ FrontInv
<1> SUFFICES ASSUME Init
             PROVE  UpInv /\ DownInv /\ FrontInv
  OBVIOUS
<1>1. <<>> \in Seq(Nat) /\ <<>> \in Seq(Seq(Nat)) /\ <<>> \o <<>> = <<>>
  <2>1. \A s \in Seq(Nat) : s \o <<>> = s
    BY ConcatEmptySeq
  <2> QED
    BY <2>1, EmptySeq
<1>2. Units(1, 0) = <<>>
  BY UnitsInTurn, EmptySeq DEF Units
<1>3. Pending = <<>>
  BY DEF Init, Pending
<1>4. UpstreamConserved
  BY <1>1, <1>2, <1>3, FlattenEmpty DEF Init, UpstreamConserved
<1>5. UpInv
  BY <1>1, <1>4 DEF Init, UpInv, Stages
<1>6. DownInv
  BY <1>1, FlattenEmpty DEF Init, DownInv, Stages
<1>7. FrontInv
  BY MeekAssumption DEF Init, FrontInv
<1> QED
  BY <1>5, <1>6, <1>7

\* Every unit that Write took is with the server or in the worker's hands, in
\* order, each once: for channels and bodies of any size, any number of
\* retries, and exchanges that fail before or after the server has the body.
THEOREM UpstreamAlwaysConserved == Spec => []UpstreamConserved
<1>1. UpInv => UpstreamConserved
  BY DEF UpInv
<1> QED
  BY <1>1, InitMeek, NextUp, PTL DEF Spec

\* Every unit the worker received is with the user or on its way there, in
\* order, and an error of Read comes only after the last of them.
THEOREM DownstreamAlwaysConserved == Spec => []DownstreamConserved
<1>1. ASSUME DownInv
      PROVE  DownstreamConserved
  <2>1. ASSUME readErr
        PROVE  given = arrived
    <3>1. rdBuf = <<>> /\ rdChan = <<>> /\ rcvd = <<>> /\ given \in Seq(Nat)
      BY <1>1, <2>1 DEF DownInv
    <3>2. given \o <<>> = given
      BY <3>1, ConcatEmptySeq
    <3> QED
      BY <1>1, <3>1, <3>2, FlattenEmpty DEF DownInv
  <2> QED
    BY <1>1, <2>1 DEF DownInv, DownstreamConserved
<1>2. DownInv => DownstreamConserved
  BY <1>1
<1> QED
  BY <1>2, InitMeek, NextDown, PTL DEF Spec

\* A list of fronts that roundTrip can go through with the tries it has: a
\* connection that gives up has tried every one of them.
THEOREM WorkingFrontIsAlwaysFound ==
  ASSUME Fronts <= maxRetries
  PROVE  Spec => []WorkingFrontIsFound
<1>1. ASSUME FrontInv
      PROVE  WorkingFrontIsFound
  <2> SUFFICES ASSUME retries = maxRetries, losses = 0
               PROVE  Blocked = 0 .. (Fronts - 1)
    BY DEF WorkingFrontIsFound
  <2>1. /\ index \in Nat /\ index <= Fronts - 1 /\ Fronts \in Nat \ {0} /\ maxRetries \in Nat
        /\ Blocked \subseteq 0 .. (Fronts - 1)
    BY <1>1, MeekAssumption DEF FrontInv
  <2>2. ASSUME NEW i \in 0 .. (Fronts - 1)
        PROVE  i \in Blocked
    <3> DEFINE j == IF i < index THEN index - i ELSE index - i + Fronts
    <3>1. j \in 1 .. Fronts /\ j <= retries /\ Back(j) = i
      BY <2>1 DEF Back
    <3> HIDE DEF j
    <3> QED
      BY <1>1, <3>1 DEF FrontInv
  <2> QED
    BY <2>1, <2>2
<1>2. FrontInv => WorkingFrontIsFound
  BY <1>1
<1> QED
  BY <1>2, InitMeek, NextFronts, PTL DEF Spec
=============================================================================
