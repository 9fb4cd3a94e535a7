---------------------------- MODULE ConnProofs ----------------------------
(***************************************************************************)
(* Theorems about an obfs4 connection: from the handshakes on no payload   *)
(* is lost, doubled or reordered, the end comes after the last of them,    *)
(* and the seed before the first, for any number of writes and of padding  *)
(* packets and every way the streams are cut.                              *)
(***************************************************************************)
EXTENDS Obfs4Conn, FiniteSetTheorems, WellFoundedInduction, SequenceTheorems, TLAPS

(***************************************************************************)
(* The inductive invariant, in three parts.                                *)
(***************************************************************************)
Thing == [type : {"request", "response", "payload", "seed", "padding"},
          part : Nat, key : {"nil", First, Second}]

ConnTypes ==
  /\ phase \in [Sides -> {"handshake", "ready", "failed"}]
  /\ DOMAIN encoder = Sides /\ DOMAIN decoder = Sides
  /\ lenDist \in [Sides -> Sides]
  /\ stream \in [Sides -> Seq(Thing)]
  /\ rcvBuf \in [Sides -> Seq(Thing)]
  /\ closed \in [Sides -> BOOLEAN]
  /\ ended \in [Sides -> BOOLEAN]
  /\ decoded \in [Sides -> Seq(Nat)]
  /\ given \in [Sides -> Seq(Nat)]
  /\ written \in [Sides -> Nat]

\* What s has received and what is on its way.
Total(s) == rcvBuf[s] \o stream[s]

\* The same without the handshake message that a client still waits for.
Ahead(s) ==
  IF s = Client /\ phase[Client] = "handshake" THEN Trailing(Total(s)) ELSE Total(s)

\* The half of the key material under which s is sent its packets.
KeyFor(s) == IF s = Server THEN First ELSE Second

\* How far each side is tells who has keys, and a side without keys has moved
\* no data.
KeyInv ==
  /\ phase[Server] = "handshake" => encoder[Server] = "nil" /\ Total(Server) = Request
  /\ encoder[Server] \in {"nil", Second}
  /\ encoder[Server] = Second => decoder[Server] = First /\ phase[Server] = "ready"
  /\ encoder[Server] = "nil" => Total(Client) = <<>>
  /\ encoder[Server] = "nil" => phase[Client] # "ready"
  /\ phase[Client] = "ready" => encoder[Client] = First /\ decoder[Client] = Second
  /\ phase[Client] # "ready" => encoder[Client] = "nil"
  /\ \A s \in Sides :
       encoder[s] = "nil" => /\ given[s] = <<>> /\ decoded[s] = <<>>
                             /\ ended[s] = FALSE /\ written[s] = 0

\* All that is ahead of s was sealed for it, and completes what it was given.
Completes(s) ==
  /\ \A i \in 1 .. Len(Ahead(s)) : Ahead(s)[i].key = KeyFor(s)
  /\ given[s] \o decoded[s] \o PayloadsOf(Ahead(s)) = [i \in 1 .. written[Peer(s)] |-> i]

\* A client that has not had the seed has had nothing, and it is what comes next.
SeedIsNext ==
  /\ given[Client] = <<>> /\ decoded[Client] = <<>>
  /\ Ahead(Client) # <<>> /\ Ahead(Client)[1].type = "seed"

DataInv == encoder[Server] = Second =>
  /\ phase[Client] # "ready" => Total(Server) = <<>>
  /\ phase[Client] = "handshake" => Len(Total(Client)) >= 2
  /\ \A s \in Sides : phase[s] # "failed" => Completes(s)
  /\ phase[Client] # "failed" /\ lenDist[Client] = Client => SeedIsNext

EndInv == \A s \in Sides : ended[s] = TRUE => closed[Peer(s)] = TRUE /\ Total(s) = <<>>

ConnInv ==
  /\ ConnTypes /\ KeyInv /\ DataInv /\ EndInv
  /\ lenDist[Server] = Server


(***************************************************************************)
(* Induction, for sets of numbers from 0 on.                               *)
(***************************************************************************)

\* A set of naturals that is not empty has a least element.
LEMMA LeastNatural ==
  ASSUME NEW T, T \subseteq Nat, T # {}
  PROVE  \E x \in T : \A y \in T : x <= y
<1> DEFINE R == StrictSubsetOrdering(Nat)
           U == {1 .. k : k \in T}
<1>1. IsWellFoundedOn(R, FiniteSubsetsOf(Nat))
  BY FS_StrictSubsetOrderingWellFounded
<1>2. U \subseteq FiniteSubsetsOf(Nat) /\ U # {}
  <2>1. \A k \in Nat : IsFiniteSet(1 .. k) /\ (1 .. k) \subseteq Nat
    BY FS_Interval
  <2> QED
    BY <2>1 DEF FiniteSubsetsOf
<1>3. PICK s \in U : \A u \in U : ~(<<u, s>> \in R)
  <2> HIDE DEF R, U
  <2> QED BY <1>1, <1>2, WFMin
<1>4. PICK x \in T : s = 1 .. x
  OBVIOUS
<1>5. ASSUME NEW y \in T, y < x
      PROVE  FALSE
  <2>1. (1 .. y) \subseteq (1 .. x) /\ (1 .. y) # (1 .. x)
    BY <1>5, x \in 1 .. x /\ x \notin 1 .. y
  <2>2. <<1 .. y, 1 .. x>> \in R
    BY <2>1 DEF StrictSubsetOrdering
  <2> QED
    BY <1>3, <1>4, <2>2
<1> QED
  BY <1>5

\* A set that has 0, and of every number before n the next, has n.
LEMMA ReachesFromZero ==
  ASSUME NEW n \in Nat, NEW T, 0 \in T,
         \A i \in 0 .. n - 1 : i \in T => i + 1 \in T
  PROVE  0 .. n \subseteq T
<1> DEFINE Missing == (0 .. n) \ T
<1>1. CASE Missing # {}
  <2>1. Missing \subseteq Nat
    OBVIOUS
  <2> HIDE DEF Missing
  <2>2. PICK x \in Missing : \A y \in Missing : x <= y
    BY <1>1, <2>1, LeastNatural
  <2> USE DEF Missing
  <2>3. x \in 0 .. n /\ x \notin T /\ x # 0
    BY <2>2
  <2>4. x - 1 \in 0 .. n - 1 /\ (x - 1) + 1 = x
    BY <2>3
  <2>5. x - 1 \in T
    BY <2>2, <2>4
  <2> QED
    BY <2>3, <2>4, <2>5
<1> QED
  BY <1>1

(***************************************************************************)
(* PayloadsOf, which selects the payloads of a sequence of packets.        *)
(***************************************************************************)

\* f is the function that PayloadsOf(packets) defines, up to k.
Selects(packets, f, k) ==
  f = [n \in 0 .. k |-> IF n = 0 THEN <<>> ELSE f[n - 1] \o PayloadIn(packets[n])]

\* There is such a function ...
LEMMA SelectsExists ==
  ASSUME NEW packets, NEW k \in Nat
  PROVE  \E f : Selects(packets, f, k)
<1> DEFINE T == {n \in 0 .. k : \E f : Selects(packets, f, n)}
<1>1. 0 \in T
  <2> DEFINE f == [n \in 0 .. 0 |-> <<>>]
  <2>1. Selects(packets, f, 0)
    BY DEF Selects
  <2> QED
    BY <2>1
<1>2. ASSUME NEW n \in 0 .. k - 1, n \in T
      PROVE  n + 1 \in T
  <2>1. PICK f : Selects(packets, f, n)
    BY <1>2
  <2> DEFINE g == [i \in 0 .. n + 1 |->
                     IF i <= n THEN f[i] ELSE f[n] \o PayloadIn(packets[n + 1])]
  <2>2. ASSUME NEW i \in 0 .. n + 1
        PROVE  g[i] = IF i = 0 THEN <<>> ELSE g[i - 1] \o PayloadIn(packets[i])
    <3>1. n \in Nat
      BY <1>2
    <3>2. CASE i = 0
      BY <2>1, <3>1, <3>2 DEF Selects
    <3>3. CASE i > 0 /\ i <= n
      <4>1. i \in 0 .. n /\ i # 0 /\ i - 1 \in 0 .. n + 1 /\ i - 1 <= n
        BY <3>1, <3>3
      <4>2. g[i] = f[i] /\ g[i - 1] = f[i - 1]
        BY <3>3, <4>1
      <4>3. f[i] = f[i - 1] \o PayloadIn(packets[i])
        BY <2>1, <4>1 DEF Selects
      <4> QED
        BY <4>1, <4>2, <4>3
    <3>4. CASE i = n + 1
      <4>1. ~(i <= n) /\ i # 0 /\ i - 1 = n /\ n \in 0 .. n + 1 /\ n <= n
        BY <3>1, <3>4
      <4> QED
        BY <3>4, <4>1
    <3> QED
      BY <3>1, <3>2, <3>3, <3>4
  <2>3. Selects(packets, g, n + 1)
    BY <2>2 DEF Selects
  <2>4. n + 1 \in 0 .. k
    BY <1>2
  <2> HIDE DEF g
  <2> QED
    BY <2>3, <2>4
<1> HIDE DEF T
<1>3. k \in T
  <2>1. 0 .. k \subseteq T
    BY <1>1, <1>2, ReachesFromZero
  <2> QED
    BY <2>1
<1> QED
  BY <1>3 DEF T

\* ... and PayloadsOf is its last value.
LEMMA PayloadsAre ==
  ASSUME NEW S, NEW packets \in Seq(S)
  PROVE  \E f : /\ \A n \in 0 .. Len(packets) :
                     f[n] = IF n = 0 THEN <<>> ELSE f[n - 1] \o PayloadIn(packets[n])
                /\ PayloadsOf(packets) = f[Len(packets)]
<1> DEFINE f == CHOOSE f : Selects(packets, f, Len(packets))
<1>1. Selects(packets, f, Len(packets))
  BY LenProperties, SelectsExists
<1>2. PayloadsOf(packets) = f[Len(packets)]
  BY DEF PayloadsOf, Selects
<1> HIDE DEF f
<1> QED
  BY <1>1, <1>2 DEF Selects

\* A payload is a number.
LEMMA PayloadInType ==
  ASSUME NEW x \in Thing
  PROVE  PayloadIn(x) \in Seq(Nat)
<1>1. x.part \in Nat
  BY DEF Thing
<1>2. <<x.part>> \in Seq(Nat) /\ <<>> \in Seq(Nat)
  BY <1>1
<1> QED
  BY <1>2 DEF PayloadIn

LEMMA PayloadsType ==
  ASSUME NEW a \in Seq(Thing)
  PROVE  PayloadsOf(a) \in Seq(Nat)
<1> DEFINE n == Len(a)
<1>1. n \in Nat /\ \A i \in 1 .. n : a[i] \in Thing
  BY LenProperties, ElementOfSeq
<1>2. PICK f : /\ \A i \in 0 .. n : f[i] = IF i = 0 THEN <<>> ELSE f[i - 1] \o PayloadIn(a[i])
               /\ PayloadsOf(a) = f[n]
  BY PayloadsAre
<1> HIDE DEF n
<1> DEFINE T == {i \in 0 .. n : f[i] \in Seq(Nat)}
<1>3. 0 \in T
  <2>1. 0 \in 0 .. n /\ f[0] = <<>>
    BY <1>1, <1>2
  <2>2. <<>> \in Seq(Nat)
    BY EmptySeq
  <2> QED
    BY <2>1, <2>2
<1>4. ASSUME NEW i \in 0 .. n - 1, i \in T
      PROVE  i + 1 \in T
  <2>1. i + 1 \in 1 .. n /\ i + 1 \in 0 .. n /\ i + 1 # 0 /\ (i + 1) - 1 = i
    BY <1>1, <1>4
  <2>2. f[i + 1] = f[i] \o PayloadIn(a[i + 1])
    BY <1>2, <2>1
  <2>3. f[i] \in Seq(Nat) /\ PayloadIn(a[i + 1]) \in Seq(Nat)
    BY <1>1, <1>4, <2>1, PayloadInType
  <2>4. f[i] \o PayloadIn(a[i + 1]) \in Seq(Nat)
    BY <2>3, ConcatProperties
  <2> QED
    BY <2>1, <2>2, <2>4
<1> HIDE DEF T
<1>5. 0 .. n \subseteq T
  BY <1>1, <1>3, <1>4, ReachesFromZero
<1>6. n \in T
  BY <1>1, <1>5
<1> QED
  BY <1>2, <1>6 DEF T

LEMMA PayloadsEmpty == PayloadsOf(<<>>) = <<>>
<1>1. ASSUME NEW a \in Seq(Thing), Len(a) = 0
      PROVE  PayloadsOf(a) = <<>>
  <2>1. PICK f : /\ \A n \in 0 .. Len(a) :
                      f[n] = IF n = 0 THEN <<>> ELSE f[n - 1] \o PayloadIn(a[n])
                 /\ PayloadsOf(a) = f[Len(a)]
    BY PayloadsAre
  <2> QED
    BY <1>1, <2>1
<1> QED
  BY <1>1, EmptySeq

LEMMA NumbersAssociate == \A a, b, c \in Seq(Nat) : (a \o b) \o c = a \o (b \o c)
BY ConcatAssociative

\* The payloads of two sequences one after the other are those of the first and
\* then those of the second.
LEMMA PayloadsConcat ==
  ASSUME NEW a \in Seq(Thing), NEW b \in Seq(Thing)
  PROVE  PayloadsOf(a \o b) = PayloadsOf(a) \o PayloadsOf(b)
<1> DEFINE m == Len(a)
           n == Len(b)
           c == a \o b
<1>1. /\ m \in Nat /\ n \in Nat /\ c \in Seq(Thing) /\ Len(c) = m + n
      /\ \A i \in 1 .. m : c[i] = a[i]
      /\ \A i \in 1 .. n : c[m + i] = b[i] /\ b[i] \in Thing
  <2>1. m \in Nat /\ n \in Nat /\ \A i \in 1 .. n : b[i] \in Thing
    BY LenProperties, ElementOfSeq
  <2>2. /\ c \in Seq(Thing) /\ Len(c) = m + n
        /\ \A i \in 1 .. m + n : c[i] = IF i <= m THEN a[i] ELSE b[i - m]
    BY ConcatProperties
  <2> HIDE DEF m, n, c
  <2> QED
    BY <2>1, <2>2
<1>2. PICK f : /\ \A i \in 0 .. m : f[i] = IF i = 0 THEN <<>> ELSE f[i - 1] \o PayloadIn(a[i])
               /\ PayloadsOf(a) = f[m]
  BY PayloadsAre
<1>3. PICK g : /\ \A i \in 0 .. n : g[i] = IF i = 0 THEN <<>> ELSE g[i - 1] \o PayloadIn(b[i])
               /\ PayloadsOf(b) = g[n]
  BY PayloadsAre
<1>4. PICK h : /\ \A i \in 0 .. m + n : h[i] = IF i = 0 THEN <<>> ELSE h[i - 1] \o PayloadIn(c[i])
               /\ PayloadsOf(c) = h[m + n]
  <2> HIDE DEF c
  <2> QED
    BY <1>1, PayloadsAre
<1> HIDE DEF m, n, c
<1>5. h[m] = f[m]
  <2> DEFINE T == {i \in 0 .. m : h[i] = f[i]}
  <2>1. 0 \in T
    BY <1>1, <1>2, <1>4
  <2>2. ASSUME NEW i \in 0 .. m - 1, i \in T
        PROVE  i + 1 \in T
    <3>1. i + 1 \in 1 .. m /\ i + 1 \in 0 .. m /\ i + 1 \in 0 .. m + n /\ i + 1 # 0 /\ (i + 1) - 1 = i
      BY <1>1, <2>2
    <3>2. h[i + 1] = h[i] \o PayloadIn(c[i + 1]) /\ f[i + 1] = f[i] \o PayloadIn(a[i + 1])
      BY <1>2, <1>4, <3>1
    <3> QED
      BY <1>1, <2>2, <3>1, <3>2
  <2> HIDE DEF T
  <2>3. 0 .. m \subseteq T
    BY <1>1, <2>1, <2>2, ReachesFromZero
  <2>4. m \in T
    BY <1>1, <2>3
  <2> QED
    BY <2>4 DEF T
<1>6. h[m] \in Seq(Nat)
  BY <1>2, <1>5, PayloadsType
<1>7. h[m + n] = h[m] \o g[n]
  <2> DEFINE T == {i \in 0 .. n : g[i] \in Seq(Nat) /\ h[m + i] = h[m] \o g[i]}
  <2>1. 0 \in T
    <3>1. g[0] = <<>> /\ m + 0 = m /\ 0 \in 0 .. n
      BY <1>1, <1>3
    <3>2. h[m] \o <<>> = h[m] /\ <<>> \in Seq(Nat)
      BY <1>6, ConcatEmptySeq
    <3> QED
      BY <3>1, <3>2
  <2>2. ASSUME NEW i \in 0 .. n - 1, i \in T
        PROVE  i + 1 \in T
    <3>1. /\ i + 1 \in 1 .. n /\ i + 1 \in 0 .. n /\ i + 1 # 0 /\ (i + 1) - 1 = i
          /\ m + (i + 1) \in 0 .. m + n /\ m + (i + 1) # 0 /\ (m + (i + 1)) - 1 = m + i
      BY <1>1, <2>2
    <3> DEFINE p == PayloadIn(b[i + 1])
    <3>2. p \in Seq(Nat) /\ c[m + (i + 1)] = b[i + 1]
      BY <1>1, <3>1, PayloadInType
    <3>3. g[i + 1] = g[i] \o p
      BY <1>3, <3>1
    <3>4. h[m + (i + 1)] = h[m + i] \o p
      BY <1>4, <3>1, <3>2
    <3>5. g[i] \in Seq(Nat) /\ h[m + i] = h[m] \o g[i]
      BY <2>2
    <3> HIDE DEF p
    <3>6. g[i] \o p \in Seq(Nat)
      BY <3>2, <3>5, ConcatProperties
    <3>7. (h[m] \o g[i]) \o p = h[m] \o (g[i] \o p)
      BY <1>6, <3>2, <3>5, NumbersAssociate, Zenon
    <3> QED
      BY <3>1, <3>3, <3>4, <3>5, <3>6, <3>7
  <2> HIDE DEF T
  <2>3. 0 .. n \subseteq T
    BY <1>1, <2>1, <2>2, ReachesFromZero
  <2>4. n \in T
    BY <1>1, <2>3
  <2> QED
    BY <2>4 DEF T
<1> QED
  BY <1>2, <1>3, <1>4, <1>5, <1>7 DEF c

\* A packet alone gives its own payload, ...
LEMMA PayloadOfOne ==
  ASSUME NEW x \in Thing
  PROVE  <<x>> \in Seq(Thing) /\ PayloadsOf(<<x>>) = PayloadIn(x)
<1>1. ASSUME NEW a \in Seq(Thing), Len(a) = 1, a[1] = x
      PROVE  PayloadsOf(a) = PayloadIn(x)
  <2>1. PICK f : /\ \A n \in 0 .. Len(a) :
                      f[n] = IF n = 0 THEN <<>> ELSE f[n - 1] \o PayloadIn(a[n])
                 /\ PayloadsOf(a) = f[Len(a)]
    BY PayloadsAre
  <2>2. f[0] = <<>> /\ f[1] = f[0] \o PayloadIn(x)
    BY <1>1, <2>1
  <2>3. <<>> \o PayloadIn(x) = PayloadIn(x)
    BY PayloadInType, ConcatEmptySeq
  <2> QED
    BY <1>1, <2>1, <2>2, <2>3
<1>2. <<x>> \in Seq(Thing) /\ Len(<<x>>) = 1 /\ <<x>>[1] = x
  OBVIOUS
<1> QED
  BY <1>1, <1>2

\* ... and packets of other kinds none.
LEMMA NoPayloads ==
  ASSUME NEW a \in Seq(Thing), \A i \in 1 .. Len(a) : a[i].type # "payload"
  PROVE  PayloadsOf(a) = <<>>
<1> DEFINE n == Len(a)
<1>1. n \in Nat
  BY LenProperties
<1>2. PICK f : /\ \A i \in 0 .. n : f[i] = IF i = 0 THEN <<>> ELSE f[i - 1] \o PayloadIn(a[i])
               /\ PayloadsOf(a) = f[n]
  BY PayloadsAre
<1>3. \A i \in 1 .. n : PayloadIn(a[i]) = <<>>
  BY DEF PayloadIn
<1> HIDE DEF n
<1> DEFINE T == {i \in 0 .. n : f[i] = <<>>}
<1>4. 0 \in T
  BY <1>1, <1>2
<1>5. ASSUME NEW i \in 0 .. n - 1, i \in T
      PROVE  i + 1 \in T
  <2>1. i + 1 \in 1 .. n /\ i + 1 \in 0 .. n /\ i + 1 # 0 /\ (i + 1) - 1 = i
    BY <1>1, <1>5
  <2>2. f[i + 1] = <<>> \o <<>>
    BY <1>2, <1>3, <1>5, <2>1
  <2> QED
    BY <2>1, <2>2
<1> HIDE DEF T
<1>6. 0 .. n \subseteq T
  BY <1>1, <1>4, <1>5, ReachesFromZero
<1>7. n \in T
  BY <1>1, <1>6
<1> QED
  BY <1>2, <1>7 DEF T

-----------------------------------------------------------------------------
(***************************************************************************)
(* What is read, and what is opened of it.                                 *)
(***************************************************************************)

\* A stream cut in two is whole when its parts are put together.
LEMMA CutInTwo ==
  ASSUME NEW t \in Seq(Thing), NEW n \in 0 .. Len(t)
  PROVE  /\ SubSeq(t, 1, n) \in Seq(Thing) /\ SubSeq(t, n + 1, Len(t)) \in Seq(Thing)
         /\ Len(SubSeq(t, 1, n)) = n
         /\ SubSeq(t, 1, n) \o SubSeq(t, n + 1, Len(t)) = t
<1>1. Len(t) \in Nat /\ n \in Nat /\ n <= Len(t) /\ \A i \in 1 .. Len(t) : t[i] \in Thing
  BY LenProperties, ElementOfSeq
<1>2. SubSeq(t, 1, n) \in Seq(Thing) /\ Len(SubSeq(t, 1, n)) = n
  <2>1. \A i \in 1 .. n : t[i] \in Thing
    BY <1>1
  <2>2. n \in Int /\ 1 \in Int
    BY <1>1
  <2>3. SubSeq(t, 1, n) \in Seq(Thing) /\ Len(SubSeq(t, 1, n)) = IF 1 <= n THEN n - 1 + 1 ELSE 0
    BY <2>1, <2>2, SubSeqProperties
  <2> QED
    BY <1>1, <2>3
<1>3. SubSeq(t, n + 1, Len(t)) \in Seq(Thing)
  <2>1. \A i \in n + 1 .. Len(t) : t[i] \in Thing
    BY <1>1
  <2>2. n + 1 \in Int /\ Len(t) \in Int
    BY <1>1
  <2> QED
    BY <2>1, <2>2, SubSeqProperties
<1>4. SubSeq(t, 1, n) \o SubSeq(t, n + 1, Len(t)) = SubSeq(t, 1, Len(t))
  <2>1. 1 \in 1 .. Len(t) + 1 /\ n \in 1 - 1 .. Len(t) /\ Len(t) \in n .. Len(t)
    BY <1>1
  <2> QED
    BY <2>1, ConcatAdjacentSubSeq
<1> QED
  BY <1>2, <1>3, <1>4, SubSeqFull

LEMMA ThingsAssociate == \A a, b, c \in Seq(Thing) : (a \o b) \o c = a \o (b \o c)
BY ConcatAssociative

\* A read moves the front of the stream into the buffer.
LEMMA ReadMoves ==
  ASSUME ConnTypes, NEW s \in Sides, NEW k \in 0 .. Len(stream[s])
  PROVE  /\ Arrived(s, k) \in Seq(Thing) /\ Unread(s, k) \in Seq(Thing)
         /\ Total(s) \in Seq(Thing)
         /\ Arrived(s, k) \o Unread(s, k) = Total(s)
<1> DEFINE a == SubSeq(stream[s], 1, k)
           b == SubSeq(stream[s], k + 1, Len(stream[s]))
<1>1. rcvBuf[s] \in Seq(Thing) /\ stream[s] \in Seq(Thing)
  BY DEF ConnTypes
<1>2. a \in Seq(Thing) /\ b \in Seq(Thing) /\ a \o b = stream[s]
  BY <1>1, CutInTwo
<1> HIDE DEF a, b
<1>3. (rcvBuf[s] \o a) \o b = rcvBuf[s] \o stream[s]
  <2>1. (rcvBuf[s] \o a) \o b = rcvBuf[s] \o (a \o b)
    BY <1>1, <1>2, ThingsAssociate, Zenon
  <2> QED
    BY <1>2, <2>1
<1>4. rcvBuf[s] \o a \in Seq(Thing) /\ rcvBuf[s] \o stream[s] \in Seq(Thing)
  BY <1>1, <1>2, ConcatProperties
<1> QED
  BY <1>2, <1>3, <1>4 DEF Arrived, Unread, Total, a, b

\* A decoder that has the key of every packet opens them all.
LEMMA AllOpen ==
  ASSUME NEW s \in Sides, NEW buf \in Seq(Thing),
         \A i \in 1 .. Len(buf) : buf[i].key = decoder[s]
  PROVE  Openable(s, buf) = buf
<1> DEFINE l == Len(buf)
           opens(n) == \A i \in 1 .. n : buf[i].key = decoder[s]
           P(n) == opens(n) /\ (n = l \/ ~opens(n + 1))
           m == CHOOSE n \in 0 .. l : P(n)
<1>1. l \in Nat
  BY LenProperties
<1>2. \A n \in 0 .. l : opens(n)
  BY <1>1
<1>3. \A n \in 0 .. l : P(n) => n = l
  <2> SUFFICES ASSUME NEW n \in 0 .. l, n # l
               PROVE  opens(n + 1)
    OBVIOUS
  <2>1. n + 1 \in 0 .. l
    BY <1>1
  <2> HIDE DEF opens
  <2> QED
    BY <1>2, <2>1
<1>4. l \in 0 .. l /\ P(l)
  <2> HIDE DEF l
  <2>1. l \in 0 .. l
    BY <1>1
  <2> QED
    BY <1>2, <2>1
<1>5. Openable(s, buf) = SubSeq(buf, 1, m)
  BY DEF Openable
<1> HIDE DEF P
<1>6. m = l
  BY <1>3, <1>4
<1> QED
  BY <1>5, <1>6, SubSeqFull

\* What trails a response goes on with whatever is received after it.
LEMMA TrailingConcat ==
  ASSUME NEW a \in Seq(Thing), NEW b \in Seq(Thing), Len(a) >= 2
  PROVE  Trailing(a) \in Seq(Thing) /\ Trailing(a \o b) = Trailing(a) \o b
<1> DEFINE m == Len(a)
           n == Len(b)
           c == a \o b
           t == Trailing(a)
           u == Trailing(c)
<1>1. /\ m \in Nat /\ n \in Nat /\ m >= 2
      /\ c \in Seq(Thing) /\ Len(c) = m + n
      /\ \A i \in 1 .. m + n : c[i] = IF i <= m THEN a[i] ELSE b[i - m]
      /\ \A i \in 1 .. m + n : c[i] \in Thing
      /\ \A i \in 1 .. m : a[i] \in Thing
  BY LenProperties, ElementOfSeq, ConcatProperties
<1>2. /\ t \in Seq(Thing) /\ Len(t) = m - 2
      /\ \A i \in 1 .. m - 2 : t[i] = a[i + 2]
  <2>1. 3 \in Int /\ m \in Int /\ \A i \in 3 .. m : a[i] \in Thing
    BY <1>1
  <2>2. /\ t \in Seq(Thing) /\ Len(t) = IF 3 <= m THEN m - 3 + 1 ELSE 0
        /\ \A i \in 1 .. m - 3 + 1 : t[i] = a[3 + i - 1]
    BY <2>1, SubSeqProperties DEF Trailing
  <2> HIDE DEF t, m
  <2> QED
    BY <1>1, <2>2
<1>3. /\ u \in Seq(Thing) /\ Len(u) = m + n - 2
      /\ \A i \in 1 .. m + n - 2 : u[i] = c[i + 2]
  <2> DEFINE z == m + n
  <2>1. z \in Int /\ z >= 2 /\ u = SubSeq(c, 3, z) /\ \A i \in 3 .. z : c[i] \in Thing
    <3> HIDE DEF c, m, n
    <3> QED
      BY <1>1 DEF Trailing
  <2> HIDE DEF c, m, n, u, z
  <2>2. /\ u \in Seq(Thing) /\ Len(u) = IF 3 <= z THEN z - 3 + 1 ELSE 0
        /\ \A i \in 1 .. z - 3 + 1 : u[i] = c[3 + i - 1]
    BY <2>1, SubSeqProperties
  <2>3. /\ u \in Seq(Thing) /\ Len(u) = z - 2
        /\ \A i \in 1 .. z - 2 : u[i] = c[i + 2]
    BY <2>1, <2>2
  <2>4. z = m + n /\ m \in Nat /\ n \in Nat
    BY <1>1 DEF z
  <2> QED
    BY <2>3, <2>4
<1>4. /\ t \o b \in Seq(Thing) /\ Len(t \o b) = (m - 2) + n
      /\ \A i \in 1 .. (m - 2) + n : (t \o b)[i] = IF i <= m - 2 THEN t[i] ELSE b[i - (m - 2)]
  <2> HIDE DEF t, m, n
  <2>1. /\ t \o b \in Seq(Thing) /\ Len(t \o b) = Len(t) + Len(b)
        /\ \A i \in 1 .. Len(t) + Len(b) :
             (t \o b)[i] = IF i <= Len(t) THEN t[i] ELSE b[i - Len(t)]
    BY <1>2, ConcatProperties
  <2>2. Len(t) = m - 2 /\ Len(b) = n
    BY <1>2 DEF n
  <2> QED
    BY <2>1, <2>2
<1> HIDE DEF c, t, u, m, n
<1>5. \A i \in 1 .. Len(u) : u[i] = (t \o b)[i]
  <2> TAKE i \in 1 .. Len(u)
  <2>1. i \in 1 .. m + n - 2 /\ i \in 1 .. (m - 2) + n /\ i + 2 \in 1 .. m + n
    BY <1>1, <1>3
  <2>2. CASE i <= m - 2
    <3>1. i + 2 <= m /\ i \in 1 .. m - 2
      BY <1>1, <2>1, <2>2
    <3> QED
      BY <1>1, <1>2, <1>3, <1>4, <2>1, <2>2, <3>1
  <2>3. CASE ~(i <= m - 2)
    <3>1. ~(i + 2 <= m) /\ (i + 2) - m = i - (m - 2)
      BY <1>1, <2>1, <2>3
    <3>2. u[i] = b[(i + 2) - m]
      BY <1>1, <1>3, <2>1, <3>1
    <3>3. (t \o b)[i] = b[i - (m - 2)]
      BY <1>4, <2>1, <2>3
    <3> QED
      BY <3>1, <3>2, <3>3
  <2> QED
    BY <2>2, <2>3
<1>6. Len(u) = Len(t \o b)
  BY <1>1, <1>3, <1>4
<1>7. u = t \o b
  BY <1>3, <1>4, <1>5, <1>6, SeqEqual
<1> QED
  BY <1>2, <1>7 DEF t, u, c

-----------------------------------------------------------------------------
(***************************************************************************)
(* The invariant, action by action.                                        *)
(***************************************************************************)
LEMMA SidesAre ==
  /\ Sides = {Client, Server} /\ Client # Server
  /\ Peer(Client) = Server /\ Peer(Server) = Client
  /\ KeyFor(Server) = First /\ KeyFor(Client) = Second
  /\ First # Second /\ First # "nil" /\ Second # "nil"
BY DEF Sides, Client, Server, Peer, KeyFor, First, Second

\* The first n numbers.
LEMMA NumbersOneMore ==
  ASSUME NEW n \in Nat
  PROVE  /\ [i \in 1 .. n |-> i] \in Seq(Nat)
         /\ [i \in 1 .. n |-> i] \o <<n + 1>> = [i \in 1 .. n + 1 |-> i]
<1> DEFINE a == [i \in 1 .. n |-> i]
           b == <<n + 1>>
           c == [i \in 1 .. n + 1 |-> i]
<1>1. /\ a \in Seq(Nat) /\ Len(a) = n /\ \A i \in 1 .. n : a[i] = i
      /\ b \in Seq(Nat) /\ Len(b) = 1 /\ b[1] = n + 1
      /\ c \in Seq(Nat) /\ Len(c) = n + 1 /\ \A i \in 1 .. n + 1 : c[i] = i
  OBVIOUS
<1> HIDE DEF a, b, c
<1>2. /\ a \o b \in Seq(Nat) /\ Len(a \o b) = n + 1
      /\ \A i \in 1 .. n + 1 : (a \o b)[i] = IF i <= n THEN a[i] ELSE b[i - n]
  <2>1. /\ a \o b \in Seq(Nat) /\ Len(a \o b) = Len(a) + Len(b)
        /\ \A i \in 1 .. Len(a) + Len(b) :
             (a \o b)[i] = IF i <= Len(a) THEN a[i] ELSE b[i - Len(a)]
    BY <1>1, ConcatProperties
  <2> QED
    BY <1>1, <2>1
<1>3. \A i \in 1 .. n + 1 : (a \o b)[i] = c[i]
  <2> TAKE i \in 1 .. n + 1
  <2>1. CASE i <= n
    BY <1>1, <1>2, <2>1
  <2>2. CASE ~(i <= n)
    <3>1. i = n + 1 /\ i - n = 1
      BY <2>2
    <3> QED
      BY <1>1, <1>2, <2>2, <3>1
  <2> QED
    BY <2>1, <2>2
<1>4. a \o b = c
  BY <1>1, <1>2, <1>3, SeqEqual
<1> QED
  BY <1>1, <1>4 DEF a, b, c

\* The handshake messages.
LEMMA MessagesAre ==
  /\ Request \in Seq(Thing) /\ Len(Request) = 2
  /\ ResponseAndSeed \in Seq(Thing) /\ Len(ResponseAndSeed) = 3
  /\ Trailing(ResponseAndSeed) = <<Packet("seed", 0, Second)>>
  /\ Packet("seed", 0, Second) \in Thing
<1> DEFINE x == Packet("seed", 0, Second)
<1>1. /\ Request \in Seq(Thing) /\ Len(Request) = 2
      /\ Response \in Seq(Thing) /\ Len(Response) = 2
  BY DEF Request, Response, HandshakeMessage, Thing
<1>2. x \in Thing
  BY DEF Packet, Thing
<1> HIDE DEF x
<1>3. <<x>> \in Seq(Thing) /\ Len(<<x>>) = 1 /\ <<x>>[1] = x
  BY <1>2
<1>4. ResponseAndSeed = Response \o <<x>>
  BY DEF ResponseAndSeed, x
<1>5. ResponseAndSeed \in Seq(Thing) /\ Len(ResponseAndSeed) = 3
  BY <1>1, <1>3, <1>4, ConcatProperties
<1>6. Trailing(ResponseAndSeed) = Trailing(Response) \o <<x>>
  <2>1. Len(Response) >= 2
    BY <1>1
  <2>2. Trailing(Response \o <<x>>) = Trailing(Response) \o <<x>>
    BY <1>1, <1>3, <2>1, TrailingConcat
  <2> QED
    BY <1>4, <2>2
<1>7. Trailing(Response) = <<>>
  BY <1>1, SubSeqEmpty DEF Trailing
<1>8. <<>> \o <<x>> = <<x>>
  BY <1>3, ConcatEmptySeq
<1> QED
  BY <1>1, <1>2, <1>5, <1>6, <1>7, <1>8 DEF x

LEMMA InitConn == Init => ConnInv
<1> SUFFICES ASSUME Init
             PROVE  ConnInv
  OBVIOUS
<1>1. <<>> \in Seq(Thing) /\ <<>> \in Seq(Nat)
  BY EmptySeq
<1>2. Total(Server) = Request /\ Total(Client) = <<>>
  <2>1. <<>> \o Request = Request /\ <<>> \o <<>> = <<>>
    BY <1>1, MessagesAre, ConcatEmptySeq
  <2> QED
    BY <2>1, SidesAre DEF Init, Total
<1>3. ConnTypes
  BY <1>1, MessagesAre, SidesAre DEF Init, ConnTypes
<1>4. encoder[Server] = "nil" /\ encoder[Client] = "nil"
  BY SidesAre DEF Init
<1>5. KeyInv
  BY <1>2, <1>4, SidesAre DEF Init, KeyInv
<1> QED
  BY <1>3, <1>4, <1>5, SidesAre DEF Init, ConnInv, DataInv, EndInv

\* What a step preserves that moves no packets but on their way, or leaves a
\* client that has failed behind.
LEMMA Kept ==
  ASSUME ConnInv, ConnTypes',
         UNCHANGED <<encoder, decoder, lenDist, given, decoded, written, ended>>,
         \A s \in Sides : phase'[s] = phase[s] \/ (phase[s] = "handshake" /\ phase'[s] = "failed"),
         \A s \in Sides : closed[s] = TRUE => closed'[s] = TRUE,
         Total(Server)' = Total(Server),
         \/ Total(Client)' = Total(Client)
         \/ phase[Client] = "handshake" /\ phase'[Client] = "failed" /\ encoder[Server] = Second
  PROVE  ConnInv'
<1>1. KeyInv'
  BY SidesAre DEF ConnInv, KeyInv
<1>2. \A s \in Sides : phase'[s] # "failed" => Ahead(s)' = Ahead(s)
  BY SidesAre DEF Ahead
<1>3. DataInv'
  <2> SUFFICES ASSUME encoder[Server] = Second
               PROVE  DataInv'
    BY DEF DataInv
  <2>1. \A s \in Sides : phase'[s] # "failed" => Completes(s)'
    BY <1>2 DEF ConnInv, DataInv, Completes
  <2>2. phase'[Client] # "failed" /\ lenDist'[Client] = Client => SeedIsNext'
    BY <1>2, SidesAre DEF ConnInv, DataInv, SeedIsNext
  <2>3. phase'[Client] # "ready" => Total(Server)' = <<>>
    BY SidesAre DEF ConnInv, DataInv
  <2>4. phase'[Client] = "handshake" => Len(Total(Client)') >= 2
    BY SidesAre DEF ConnInv, DataInv
  <2> QED
    BY <2>1, <2>2, <2>3, <2>4 DEF DataInv
<1>4. EndInv'
  BY SidesAre DEF ConnInv, KeyInv, EndInv
<1> QED
  BY <1>1, <1>3, <1>4 DEF ConnInv

LEMMA HandshakeFailsConn ==
  ASSUME ConnInv, NEW s \in Sides, HandshakeFails(s)
  PROVE  ConnInv'
<1>1. ConnTypes'
  BY DEF ConnInv, ConnTypes, HandshakeFails
<1>2. \A t \in Sides : Total(t)' = Total(t)
  BY DEF HandshakeFails, Total
<1>3. /\ \A t \in Sides : phase'[t] = phase[t] \/ (phase[t] = "handshake" /\ phase'[t] = "failed")
      /\ \A t \in Sides : closed[t] = TRUE => closed'[t] = TRUE
      /\ UNCHANGED <<encoder, decoder, lenDist, given, decoded, written, ended>>
  BY DEF ConnInv, ConnTypes, HandshakeFails
<1> QED
  BY <1>1, <1>2, <1>3, Kept, SidesAre

LEMMA HandshakeContinuesConn ==
  ASSUME ConnInv, NEW s \in Sides, NEW k \in 1 .. Len(stream[s]), HandshakeContinues(s, k)
  PROVE  ConnInv'
<1>1. k \in 0 .. Len(stream[s]) /\ ConnTypes
  BY DEF ConnInv
<1>2. /\ Arrived(s, k) \in Seq(Thing) /\ Unread(s, k) \in Seq(Thing)
      /\ Arrived(s, k) \o Unread(s, k) = Total(s)
  BY <1>1, ReadMoves
<1>3. /\ rcvBuf' = [rcvBuf EXCEPT ![s] = Arrived(s, k)]
      /\ stream' = [stream EXCEPT ![s] = Unread(s, k)]
      /\ UNCHANGED <<connVars, lenDist, decoded, userVars>>
  BY DEF HandshakeContinues
<1>4. ConnTypes'
  BY <1>1, <1>2, <1>3 DEF ConnTypes, connVars, userVars
<1>5. \A t \in Sides : Total(t)' = Total(t)
  BY <1>1, <1>2, <1>3 DEF ConnTypes, Total
<1> QED
  BY <1>3, <1>4, <1>5, Kept, SidesAre DEF connVars, userVars

LEMMA CloseConn ==
  ASSUME ConnInv, NEW s \in Sides, Close(s)
  PROVE  ConnInv'
<1>1. ConnTypes'
  BY DEF ConnInv, ConnTypes, Close, connVars
<1>2. \A t \in Sides : Total(t)' = Total(t)
  BY DEF Close, Total
<1>3. /\ \A t \in Sides : closed[t] = TRUE => closed'[t] = TRUE
      /\ UNCHANGED <<encoder, decoder, lenDist, given, decoded, written, ended, phase>>
  BY DEF ConnInv, ConnTypes, Close, connVars
<1> QED
  BY <1>1, <1>2, <1>3, Kept, SidesAre

LEMMA ClientClearFailsConn ==
  ASSUME ConnInv, NEW k \in 1 .. Len(stream[Client]), ClientClearFails(k)
  PROVE  ConnInv'
<1>1. k \in 0 .. Len(stream[Client]) /\ Client \in Sides /\ ConnTypes
  BY SidesAre DEF ConnInv
<1>2. /\ Arrived(Client, k) \in Seq(Thing) /\ Unread(Client, k) \in Seq(Thing)
      /\ Arrived(Client, k) \o Unread(Client, k) = Total(Client)
  BY <1>1, ReadMoves
<1>3. ConnTypes'
  BY <1>1, <1>2 DEF ConnTypes, ClientClearFails
<1>4. Total(Server)' = Total(Server)
  BY <1>1, SidesAre DEF ConnTypes, ClientClearFails, Total
<1>5. Total(Client) # <<>>
  BY <1>2, ConcatEqualIffEmpty, EmptySeq DEF ClientClearFails
<1>6. encoder[Server] = Second
  BY <1>5 DEF ConnInv, KeyInv
<1>7. /\ \A t \in Sides : phase'[t] = phase[t] \/ (phase[t] = "handshake" /\ phase'[t] = "failed")
      /\ phase[Client] = "handshake" /\ phase'[Client] = "failed"
      /\ \A t \in Sides : closed[t] = TRUE => closed'[t] = TRUE
      /\ UNCHANGED <<encoder, decoder, lenDist, given, decoded, written, ended>>
  BY <1>1, SidesAre DEF ConnTypes, ClientClearFails
<1> QED
  BY <1>3, <1>4, <1>6, <1>7, Kept

\* The server has the request and nothing else.
LEMMA RequestArrived ==
  ASSUME ConnInv, NEW k \in 1 .. Len(stream[Server]), phase[Server] = "handshake",
         Arrived(Server, k) = Request
  PROVE  /\ Unread(Server, k) = <<>>
         /\ Total(Client) = <<>> /\ rcvBuf[Client] = <<>> /\ stream[Client] = <<>>
         /\ encoder[Server] = "nil" /\ encoder[Client] = "nil" /\ phase[Client] # "ready"
         /\ \A s \in Sides : given[s] = <<>> /\ decoded[s] = <<>> /\ ended[s] = FALSE /\ written[s] = 0
<1>1. k \in 0 .. Len(stream[Server]) /\ Server \in Sides /\ Client \in Sides /\ ConnTypes
  BY SidesAre DEF ConnInv
<1>2. /\ Arrived(Server, k) \in Seq(Thing) /\ Unread(Server, k) \in Seq(Thing)
      /\ Arrived(Server, k) \o Unread(Server, k) = Total(Server)
  BY <1>1, ReadMoves
<1>3. /\ Total(Server) = Request /\ encoder[Server] = "nil" /\ Total(Client) = <<>>
      /\ phase[Client] # "ready" /\ encoder[Client] = "nil"
  BY DEF ConnInv, KeyInv
<1>4. Request \o Unread(Server, k) = Request
  BY <1>2, <1>3
<1>5. Unread(Server, k) = <<>>
  BY <1>2, <1>4, MessagesAre, ConcatEqualIffEmpty
<1>6. rcvBuf[Client] = <<>> /\ stream[Client] = <<>>
  BY <1>1, <1>3, ConcatEqualIffEmpty DEF ConnTypes, Total
<1> QED
  BY <1>3, <1>5, <1>6, SidesAre DEF ConnInv, KeyInv

LEMMA ServerClearFailsConn ==
  ASSUME ConnInv, NEW k \in 1 .. Len(stream[Server]), ServerClearFails(k)
  PROVE  ConnInv'
<1>1. /\ Unread(Server, k) = <<>>
      /\ Total(Client) = <<>>
      /\ encoder[Server] = "nil" /\ encoder[Client] = "nil" /\ phase[Client] # "ready"
      /\ \A s \in Sides : given[s] = <<>> /\ decoded[s] = <<>> /\ ended[s] = FALSE /\ written[s] = 0
  BY RequestArrived DEF ServerClearFails
<1>2. <<>> \in Seq(Thing) /\ Server \in Sides /\ Client \in Sides /\ ConnTypes
  BY EmptySeq, SidesAre DEF ConnInv
<1>3. ConnTypes'
  BY <1>1, <1>2 DEF ServerClearFails, ConnTypes, userVars
<1>4. /\ UNCHANGED <<encoder, decoder, lenDist, decoded, given, ended, written>>
      /\ phase' = [phase EXCEPT ![Server] = "ready"]
  BY DEF ServerClearFails, userVars
<1>5. phase'[Server] = "ready" /\ phase'[Client] = phase[Client]
  BY <1>2, <1>4, SidesAre DEF ConnTypes
<1>6. Total(Client)' = <<>>
  BY <1>1, <1>2, SidesAre DEF ServerClearFails, ConnTypes, Total
<1>7. KeyInv'
  BY <1>1, <1>4, <1>5, <1>6, SidesAre DEF KeyInv
<1>8. DataInv' /\ EndInv'
  BY <1>1, <1>4, SidesAre DEF DataInv, EndInv
<1> QED
  BY <1>3, <1>4, <1>7, <1>8 DEF ConnInv

LEMMA ServerHandshakeConn ==
  ASSUME ConnInv, NEW k \in 1 .. Len(stream[Server]), ServerHandshake(k)
  PROVE  ConnInv'
<1>1. /\ Unread(Server, k) = <<>>
      /\ rcvBuf[Client] = <<>> /\ stream[Client] = <<>>
      /\ encoder[Client] = "nil" /\ phase[Client] # "ready"
      /\ \A s \in Sides : given[s] = <<>> /\ decoded[s] = <<>> /\ ended[s] = FALSE /\ written[s] = 0
  BY RequestArrived DEF ServerHandshake
<1>2. /\ <<>> \in Seq(Thing) /\ <<>> \in Seq(Nat)
      /\ Server \in Sides /\ Client \in Sides /\ Server # Client /\ ConnTypes
  BY EmptySeq, SidesAre DEF ConnInv
<1>3. /\ rcvBuf' = [rcvBuf EXCEPT ![Server] = <<>>]
      /\ encoder' = [encoder EXCEPT ![Server] = Second]
      /\ decoder' = [decoder EXCEPT ![Server] = First]
      /\ phase' = [phase EXCEPT ![Server] = "ready"]
      /\ stream' = [stream EXCEPT ![Server] = Unread(Server, k), ![Client] = @ \o ResponseAndSeed]
      /\ UNCHANGED <<lenDist, decoded, closed, ended, given, written>>
  BY DEF ServerHandshake, userVars
<1>4. <<>> \o ResponseAndSeed = ResponseAndSeed /\ <<>> \o <<>> = <<>>
  BY <1>2, MessagesAre, ConcatEmptySeq
<1>5. /\ stream'[Server] = <<>> /\ stream'[Client] = ResponseAndSeed
      /\ rcvBuf'[Server] = <<>> /\ rcvBuf'[Client] = <<>>
  BY <1>1, <1>2, <1>3, <1>4 DEF ConnTypes
<1>6. /\ phase'[Server] = "ready" /\ phase'[Client] = phase[Client]
      /\ encoder'[Server] = Second /\ encoder'[Client] = "nil" /\ decoder'[Server] = First
  BY <1>1, <1>2, <1>3 DEF ConnTypes
<1>7. ConnTypes'
  <2>1. stream' \in [Sides -> Seq(Thing)]
    BY <1>2, <1>3, <1>5, MessagesAre, SidesAre DEF ConnTypes
  <2> QED
    BY <1>2, <1>3, <2>1 DEF ConnTypes
<1>8. Total(Server)' = <<>> /\ Total(Client)' = ResponseAndSeed
  BY <1>4, <1>5 DEF Total
<1>9. KeyInv'
  BY <1>1, <1>3, <1>6, <1>8, SidesAre DEF KeyInv
<1>10. DataInv'
  <2>1. [i \in 1 .. 0 |-> i] = <<>> /\ <<>> \o <<>> \o <<>> = <<>>
    BY <1>4
  <2>2. Completes(Server)'
    <3>1. Ahead(Server)' = <<>> /\ Len(<<>>) = 0
      BY <1>8, SidesAre DEF Ahead
    <3>2. given'[Server] \o decoded'[Server] \o PayloadsOf(Ahead(Server)') = <<>>
      BY <1>1, <1>2, <1>3, <2>1, <3>1, PayloadsEmpty
    <3>3. [i \in 1 .. written'[Peer(Server)] |-> i] = <<>>
      BY <1>1, <1>2, <1>3, <2>1, SidesAre
    <3>4. \A i \in 1 .. Len(Ahead(Server)') : Ahead(Server)'[i].key = KeyFor(Server)
      BY <3>1
    <3> QED
      BY <3>2, <3>3, <3>4 DEF Completes
  <2> DEFINE x == Packet("seed", 0, Second)
  <2>3. x.type = "seed" /\ x.key = Second /\ x \in Thing
    BY MessagesAre DEF Packet
  <2> HIDE DEF x
  <2>4. ASSUME phase'[Client] # "failed"
        PROVE  Ahead(Client)' = <<x>>
    <3>1. phase'[Client] = "handshake"
      BY <1>1, <1>2, <1>6, <2>4 DEF ConnTypes
    <3> QED
      BY <1>8, <3>1, MessagesAre DEF Ahead, x
  <2>5. ASSUME phase'[Client] # "failed"
        PROVE  Completes(Client)' /\ SeedIsNext'
    <3>1. PayloadsOf(<<x>>) = <<>>
      BY <2>3, PayloadOfOne DEF PayloadIn
    <3>2. Len(<<x>>) = 1 /\ <<x>>[1] = x /\ <<x>> # <<>>
      OBVIOUS
    <3>3. Ahead(Client)' = <<x>>
      BY <2>4, <2>5
    <3>4. Completes(Client)'
      <4>1. given'[Client] \o decoded'[Client] \o PayloadsOf(Ahead(Client)') = <<>>
        BY <1>1, <1>2, <1>3, <2>1, <3>1, <3>3
      <4>2. [i \in 1 .. written'[Peer(Client)] |-> i] = <<>>
        BY <1>1, <1>2, <1>3, <2>1, SidesAre
      <4>3. \A i \in 1 .. Len(Ahead(Client)') : Ahead(Client)'[i].key = KeyFor(Client)
        BY <2>3, <3>2, <3>3, SidesAre
      <4> QED
        BY <4>1, <4>2, <4>3 DEF Completes
    <3>5. SeedIsNext'
      BY <1>1, <1>2, <1>3, <2>3, <3>2, <3>3 DEF SeedIsNext
    <3> QED
      BY <3>4, <3>5
  <2>6. Len(Total(Client)') >= 2
    BY <1>8, MessagesAre
  <2> QED
    BY <1>8, <2>2, <2>5, <2>6, SidesAre DEF DataInv
<1>11. EndInv'
  BY <1>1, <1>3 DEF EndInv
<1> QED
  BY <1>3, <1>7, <1>9, <1>10, <1>11 DEF ConnInv

LEMMA ClientHandshakeConn ==
  ASSUME ConnInv, NEW k \in 1 .. Len(stream[Client]), ClientHandshake(k)
  PROVE  ConnInv'
<1> DEFINE buf == Arrived(Client, k)
           rest == Unread(Client, k)
<1>1. k \in 0 .. Len(stream[Client]) /\ Server \in Sides /\ Client \in Sides /\ ConnTypes
  BY SidesAre DEF ConnInv
<1>2. buf \in Seq(Thing) /\ rest \in Seq(Thing) /\ buf \o rest = Total(Client)
  BY <1>1, ReadMoves
<1>3. /\ phase[Client] = "handshake" /\ Len(buf) >= 2
      /\ rcvBuf' = [rcvBuf EXCEPT ![Client] = Trailing(buf)]
      /\ stream' = [stream EXCEPT ![Client] = rest]
      /\ encoder' = [encoder EXCEPT ![Client] = First]
      /\ decoder' = [decoder EXCEPT ![Client] = Second]
      /\ phase' = [phase EXCEPT ![Client] = "ready"]
      /\ UNCHANGED <<lenDist, decoded, closed, ended, given, written>>
  BY DEF ClientHandshake, userVars
<1> HIDE DEF buf, rest
<1>4. Trailing(buf) \in Seq(Thing) /\ Trailing(Total(Client)) = Trailing(buf) \o rest
  BY <1>2, <1>3, TrailingConcat
<1>5. encoder[Server] = Second
  <2>1. Total(Client) # <<>>
    BY <1>2, <1>3, ConcatEqualIffEmpty, EmptySeq
  <2> QED
    BY <2>1 DEF ConnInv, KeyInv
<1>6. /\ phase'[Server] = phase[Server] /\ phase'[Client] = "ready"
      /\ encoder'[Server] = Second /\ encoder'[Client] = First
      /\ decoder'[Server] = decoder[Server] /\ decoder'[Client] = Second
      /\ rcvBuf'[Client] = Trailing(buf) /\ stream'[Client] = rest
      /\ rcvBuf'[Server] = rcvBuf[Server] /\ stream'[Server] = stream[Server]
  BY <1>1, <1>3, <1>5, SidesAre DEF ConnTypes
<1>7. ConnTypes'
  BY <1>1, <1>2, <1>3, <1>4 DEF ConnTypes
<1>8. Total(Server)' = Total(Server) /\ Total(Client)' = Ahead(Client)
  BY <1>3, <1>4, <1>6 DEF Total, Ahead
<1>9. Ahead(Server)' = Ahead(Server) /\ Ahead(Client)' = Ahead(Client)
  BY <1>6, <1>8, SidesAre DEF Ahead
<1>10. KeyInv'
  BY <1>1, <1>3, <1>5, <1>6, SidesAre DEF ConnInv, KeyInv
<1>11. DataInv'
  <2>1. \A s \in Sides : phase[s] # "failed"
    BY <1>3, <1>5, SidesAre DEF ConnInv, KeyInv
  <2>2. \A s \in Sides : Completes(s)
    BY <1>5, <2>1 DEF ConnInv, DataInv
  <2>3. \A s \in Sides : Completes(s)'
    <3>1. \A s \in Sides : Ahead(s)' = Ahead(s)
      BY <1>9, SidesAre
    <3> QED
      BY <1>3, <2>2, <3>1 DEF Completes
  <2>4. lenDist[Client] = Client => SeedIsNext'
    BY <1>1, <1>3, <1>5, <1>9, <2>1 DEF ConnInv, DataInv, SeedIsNext
  <2> QED
    BY <1>3, <1>6, <2>3, <2>4 DEF DataInv
<1>12. EndInv'
  <2>1. ended[Client] = FALSE
    BY <1>1, <1>3 DEF ConnInv, KeyInv
  <2> QED
    BY <1>3, <1>8, <2>1, SidesAre DEF ConnInv, EndInv
<1> QED
  BY <1>3, <1>7, <1>10, <1>11, <1>12 DEF ConnInv

\* Who can be used has keys, and so has the server.
LEMMA UsableHasKeys ==
  ASSUME ConnInv, NEW s \in Sides, Usable(s)
  PROVE  /\ encoder[Server] = Second /\ encoder[s] = KeyFor(Peer(s)) /\ decoder[s] = KeyFor(s)
         /\ phase[s] = "ready" /\ Ahead(s) = Total(s) /\ closed[s] = FALSE
         /\ Peer(s) \in Sides /\ Peer(s) # s /\ Peer(Peer(s)) = s
         /\ Completes(s)
         /\ s = Client /\ lenDist[Client] = Client => SeedIsNext
<1>1. phase[s] = "ready" /\ encoder[s] # "nil" /\ closed[s] = FALSE
  BY DEF Usable, ConnInv, ConnTypes
<1>2. encoder[Server] = Second
  BY <1>1, SidesAre DEF ConnInv, KeyInv
<1>3. Ahead(s) = Total(s)
  BY <1>1, SidesAre DEF Ahead
<1>4. encoder[s] = KeyFor(Peer(s)) /\ decoder[s] = KeyFor(s)
  BY <1>1, <1>2, SidesAre DEF ConnInv, KeyInv
<1>5. Completes(s) /\ (s = Client /\ lenDist[Client] = Client => SeedIsNext)
  BY <1>1, <1>2, SidesAre DEF ConnInv, DataInv
<1> QED
  BY <1>1, <1>2, <1>3, <1>4, <1>5, SidesAre

\* A burst: one payload, and nothing but padding behind it.
Burst(w, key, n) ==
  <<Packet("payload", w, key)>> \o [i \in 1 .. n |-> Packet("padding", 0, key)]

LEMMA BurstIs ==
  ASSUME NEW w \in Nat, NEW key \in {First, Second}, NEW n \in Nat,
         NEW burst, burst = Burst(w, key, n)
  PROVE  /\ burst \in Seq(Thing) /\ PayloadsOf(burst) = <<w>>
         /\ \A i \in 1 .. Len(burst) : burst[i].key = key
<1> DEFINE x == Packet("payload", w, key)
           y == Packet("padding", 0, key)
           a == <<x>>
           b == [i \in 1 .. n |-> y]
<1>1. /\ x \in Thing /\ x.key = key /\ x.type = "payload" /\ x.part = w
      /\ y \in Thing /\ y.key = key /\ y.type # "payload"
  BY DEF Packet, Thing
<1> HIDE DEF x, y
<1>2. /\ b \in Seq(Thing) /\ Len(b) = n /\ \A i \in 1 .. n : b[i] = y
      /\ a \in Seq(Thing) /\ Len(a) = 1 /\ a[1] = x
  BY <1>1
<1>3. PayloadsOf(a) = <<w>>
  BY <1>1, PayloadOfOne DEF PayloadIn
<1>4. burst = a \o b
  BY DEF x, y, Burst
<1> HIDE DEF a, b
<1>5. PayloadsOf(b) = <<>>
  BY <1>1, <1>2, NoPayloads
<1>6. /\ burst \in Seq(Thing) /\ Len(burst) = Len(a) + Len(b)
      /\ \A i \in 1 .. Len(a) + Len(b) : burst[i] = IF i <= Len(a) THEN a[i] ELSE b[i - Len(a)]
  <2>1. /\ a \o b \in Seq(Thing) /\ Len(a \o b) = Len(a) + Len(b)
        /\ \A i \in 1 .. Len(a) + Len(b) :
             (a \o b)[i] = IF i <= Len(a) THEN a[i] ELSE b[i - Len(a)]
    BY <1>2, ConcatProperties
  <2> QED
    BY <1>4, <2>1
<1>7. PayloadsOf(burst) = PayloadsOf(a) \o PayloadsOf(b)
  BY <1>2, <1>4, PayloadsConcat
<1>8. <<w>> \o <<>> = <<w>>
  BY ConcatEmptySeq, <<w>> \in Seq(Nat)
<1>9. \A i \in 1 .. Len(burst) : burst[i].key = key
  <2> TAKE i \in 1 .. Len(burst)
  <2>1. i \in 1 .. 1 + n /\ burst[i] = IF i <= 1 THEN a[i] ELSE b[i - 1]
    BY <1>2, <1>6
  <2>2. CASE i = 1
    BY <1>1, <1>2, <2>1, <2>2
  <2>3. CASE i # 1
    <3>1. i - 1 \in 1 .. n /\ ~(i <= 1)
      BY <2>1, <2>3
    <3> QED
      BY <1>1, <1>2, <2>1, <3>1
  <2> QED
    BY <2>2, <2>3
<1> QED
  BY <1>3, <1>5, <1>6, <1>7, <1>8, <1>9

LEMMA WriteConn ==
  ASSUME ConnInv, NEW s \in Sides, Write(s)
  PROVE  ConnInv'
<1> DEFINE p == Peer(s)
           w == written[s]
           key == encoder[s]
<1>1. /\ encoder[Server] = Second /\ key = KeyFor(p) /\ phase[s] = "ready" /\ closed[s] = FALSE
      /\ p \in Sides /\ p # s /\ Peer(p) = s /\ key \in {First, Second}
  BY UsableHasKeys, SidesAre DEF Write
<1>2. ConnTypes /\ w \in Nat
  BY DEF ConnInv, ConnTypes
<1>3. PICK n \in 0 .. MaxPadding :
        stream' = [stream EXCEPT ![p] = @ \o <<Packet("payload", w + 1, key)>>
                                          \o [i \in 1 .. n |-> Packet("padding", 0, key)]]
  BY DEF Write
<1>4. n \in Nat
  BY ConnAssumption
<1>5. /\ written' = [written EXCEPT ![s] = w + 1]
      /\ UNCHANGED <<phase, encoder, decoder, lenDist, rcvBuf, decoded, closed, ended, given>>
  BY DEF Write, connVars
<1> DEFINE x == <<Packet("payload", w + 1, key)>>
           y == [i \in 1 .. n |-> Packet("padding", 0, key)]
           burst == x \o y
<1>6. x \in Seq(Thing) /\ y \in Seq(Thing)
  BY <1>1, <1>2 DEF Packet, Thing
<1>7. /\ burst \in Seq(Thing) /\ PayloadsOf(burst) = <<w + 1>>
      /\ \A i \in 1 .. Len(burst) : burst[i].key = key
  <2> DEFINE v == w + 1
  <2>1. v \in Nat /\ key \in {First, Second} /\ n \in Nat
    BY <1>1, <1>2, <1>4
  <2>2. burst = Burst(v, key, n)
    BY DEF Burst
  <2> HIDE DEF burst, key, v
  <2>3. /\ burst \in Seq(Thing) /\ PayloadsOf(burst) = <<v>>
        /\ \A i \in 1 .. Len(burst) : burst[i].key = key
    BY <2>1, <2>2, BurstIs
  <2> QED
    BY <2>3 DEF v
<1>8. stream[p] \in Seq(Thing) /\ rcvBuf[p] \in Seq(Thing) /\ Total(p) \in Seq(Thing)
  BY <1>1, <1>2, ConcatProperties DEF ConnTypes, Total
<1> HIDE DEF x, y, p, w, key
<1>9. stream' = [stream EXCEPT ![p] = stream[p] \o burst]
  <2>1. (stream[p] \o x) \o y = stream[p] \o (x \o y)
    BY <1>6, <1>8, ThingsAssociate, Zenon
  <2> QED
    BY <1>1, <1>2, <1>3, <2>1 DEF ConnTypes, x, y
<1> HIDE DEF burst
<1>10. /\ stream'[p] = stream[p] \o burst /\ stream'[s] = stream[s]
       /\ stream[p] \o burst \in Seq(Thing)
  BY <1>1, <1>2, <1>7, <1>8, <1>9, ConcatProperties DEF ConnTypes
<1>11. ConnTypes'
  <2>1. stream' \in [Sides -> Seq(Thing)]
    BY <1>2, <1>9, <1>10 DEF ConnTypes
  <2>2. written' \in [Sides -> Nat]
    <3>1. w + 1 \in Nat
      BY <1>2
    <3> QED
      BY <1>2, <1>5, <3>1 DEF ConnTypes
  <2> QED
    BY <1>2, <1>5, <2>1, <2>2 DEF ConnTypes
<1>12. Total(s)' = Total(s) /\ Total(p)' = Total(p) \o burst
  <2>1. (rcvBuf[p] \o stream[p]) \o burst = rcvBuf[p] \o (stream[p] \o burst)
    BY <1>7, <1>8, ThingsAssociate, Zenon
  <2> QED
    BY <1>5, <1>10, <2>1 DEF Total
<1>13. Ahead(s)' = Ahead(s)
  BY <1>5, <1>12 DEF Ahead
<1>14. /\ Ahead(p) \in Seq(Thing)
       /\ phase[p] # "failed" => Ahead(p)' = Ahead(p) \o burst
  <2>1. CASE p = Client /\ phase[p] = "handshake"
    <3>1. Len(Total(p)) >= 2
      BY <1>1, <2>1 DEF ConnInv, DataInv
    <3> QED
      BY <1>5, <1>7, <1>8, <1>12, <2>1, <3>1, TrailingConcat DEF Ahead
  <2>2. CASE ~(p = Client /\ phase[p] = "handshake")
    BY <1>5, <1>8, <1>12, <2>2 DEF Ahead
  <2> QED
    BY <2>1, <2>2
<1>15. KeyInv'
  <2>1. phase[Server] = "ready" /\ (s = Client => phase[Client] = "ready")
    BY <1>1 DEF ConnInv, KeyInv
  <2>2. encoder[s] # "nil" /\ \A t \in Sides : t # s => written'[t] = written[t]
    BY <1>1, <1>2, <1>5, SidesAre DEF ConnTypes, key
  <2> QED
    BY <1>1, <1>5, <2>1, <2>2, SidesAre DEF ConnInv, KeyInv
<1>16. DataInv'
  <2>1. Completes(s)'
    <3>1. Completes(s) /\ written'[p] = written[p]
      BY <1>1, <1>2, <1>5, UsableHasKeys DEF Write, ConnTypes
    <3> QED
      BY <1>5, <1>13, <3>1 DEF Completes, p
  <2>2. ASSUME phase[p] # "failed"
        PROVE  Completes(p)'
    <3> DEFINE g == given[p] \o decoded[p]
               f == PayloadsOf(Ahead(p))
    <3>1. Ahead(p)' = Ahead(p) \o burst /\ Ahead(p) \in Seq(Thing)
      BY <1>14, <2>2
    <3>2. Completes(p)
      BY <1>1, <2>2 DEF ConnInv, DataInv
    <3>3. g \in Seq(Nat) /\ f \in Seq(Nat) /\ <<w + 1>> \in Seq(Nat)
      <4>1. given[p] \in Seq(Nat) /\ decoded[p] \in Seq(Nat)
        BY <1>1, <1>2 DEF ConnTypes
      <4>2. g \in Seq(Nat)
        BY <4>1, ConcatProperties
      <4>3. f \in Seq(Nat)
        BY <3>1, PayloadsType
      <4>4. w + 1 \in Nat
        BY <1>2
      <4> QED
        BY <4>2, <4>3, <4>4
    <3>4. PayloadsOf(Ahead(p)') = f \o <<w + 1>>
      BY <1>7, <3>1, PayloadsConcat
    <3>5. g \o f = [i \in 1 .. w |-> i]
      BY <1>1, <3>2 DEF Completes, w
    <3> HIDE DEF g, f
    <3>6. (g \o f) \o <<w + 1>> = g \o (f \o <<w + 1>>)
      BY <3>3, NumbersAssociate, Zenon
    <3>7. g \o PayloadsOf(Ahead(p)') = [i \in 1 .. w + 1 |-> i]
      BY <1>2, <3>4, <3>5, <3>6, NumbersOneMore
    <3>8. written'[Peer(p)] = w + 1 /\ given' = given /\ decoded' = decoded
      BY <1>1, <1>2, <1>5 DEF ConnTypes
    <3>9. ASSUME NEW i \in 1 .. Len(Ahead(p)')
          PROVE  Ahead(p)'[i].key = KeyFor(p)
      <4>1. /\ Len(Ahead(p)) \in Nat /\ Len(burst) \in Nat
            /\ Len(Ahead(p)') = Len(Ahead(p)) + Len(burst)
            /\ Ahead(p)'[i] = IF i <= Len(Ahead(p)) THEN Ahead(p)[i] ELSE burst[i - Len(Ahead(p))]
        <5> DEFINE a == Ahead(p)
                   c == a \o burst
        <5>1. /\ Len(a) \in Nat /\ Len(burst) \in Nat /\ Len(c) = Len(a) + Len(burst)
              /\ \A j \in 1 .. Len(a) + Len(burst) :
                   c[j] = IF j <= Len(a) THEN a[j] ELSE burst[j - Len(a)]
          <6> HIDE DEF a
          <6>1. a \in Seq(Thing) /\ burst \in Seq(Thing)
            BY <1>7, <3>1 DEF a
          <6> QED
            BY <6>1, ConcatProperties, LenProperties
        <5>2. Ahead(p)' = c
          BY <3>1
        <5> HIDE DEF c
        <5> QED
          BY <3>9, <5>1, <5>2
      <4>2. CASE i <= Len(Ahead(p))
        <5>1. i \in 1 .. Len(Ahead(p))
          BY <4>1, <4>2
        <5> QED
          BY <3>2, <4>1, <4>2, <5>1 DEF Completes
      <4>3. CASE ~(i <= Len(Ahead(p)))
        <5>1. i - Len(Ahead(p)) \in 1 .. Len(burst)
          BY <4>1, <4>3, <3>9
        <5> QED
          BY <1>1, <1>7, <4>1, <4>3, <5>1
      <4> QED
        BY <4>2, <4>3
    <3> QED
      BY <3>7, <3>8, <3>9 DEF Completes, g
  <2>3. ASSUME phase[Client] # "failed", lenDist[Client] = Client
        PROVE  SeedIsNext'
    <3>1. SeedIsNext /\ UNCHANGED <<given, decoded>>
      BY <1>1, <1>5, <2>3 DEF ConnInv, DataInv
    <3>2. CASE s = Client
      BY <1>13, <3>1, <3>2 DEF SeedIsNext
    <3>3. CASE p = Client
      <4>1. Ahead(Client)' = Ahead(Client) \o burst /\ Ahead(Client) \in Seq(Thing)
        BY <1>14, <2>3, <3>3
      <4>2. Ahead(Client) # <<>> /\ Ahead(Client)[1].type = "seed"
        BY <3>1 DEF SeedIsNext
      <4>3. Len(Ahead(Client)) \in Nat \ {0} /\ Len(burst) \in Nat
        BY <1>7, <4>1, <4>2, EmptySeq, LenProperties
      <4>4. /\ (Ahead(Client) \o burst)[1] = Ahead(Client)[1]
            /\ Len(Ahead(Client) \o burst) # 0
        BY <1>7, <4>1, <4>3, ConcatProperties
      <4>5. Ahead(Client)' # <<>> /\ Ahead(Client)'[1].type = "seed"
        BY <4>1, <4>2, <4>4
      <4> QED
        BY <3>1, <4>5 DEF SeedIsNext
    <3> QED
      BY <1>1, <3>2, <3>3, SidesAre
  <2>4. \A t \in Sides : t = s \/ t = p
    BY <1>1, SidesAre
  <2>5. phase[Client] # "ready" => Total(Server)' = <<>>
    <3> SUFFICES ASSUME phase[Client] # "ready"
                 PROVE  Total(Server)' = <<>>
      OBVIOUS
    <3>1. s = Server
      BY <1>1, SidesAre
    <3> QED
      BY <1>1, <1>12, <3>1 DEF ConnInv, DataInv
  <2>6. phase[Client] = "handshake" => Len(Total(Client)') >= 2
    <3> SUFFICES ASSUME phase[Client] = "handshake"
                 PROVE  Len(Total(Client)') >= 2
      OBVIOUS
    <3>1. p = Client /\ Len(Total(Client)) >= 2
      BY <1>1, SidesAre DEF ConnInv, DataInv
    <3>2. Len(Total(Client) \o burst) = Len(Total(Client)) + Len(burst)
          /\ Len(Total(Client)) \in Nat /\ Len(burst) \in Nat
      BY <1>7, <1>8, <3>1, ConcatProperties, LenProperties
    <3> QED
      BY <1>12, <3>1, <3>2
  <2>7. \A t \in Sides : phase'[t] # "failed" => Completes(t)'
    BY <1>5, <2>1, <2>2, <2>4
  <2> QED
    BY <1>5, <2>3, <2>5, <2>6, <2>7 DEF DataInv
<1>17. EndInv'
  <2>1. ended[p] # TRUE
    BY <1>1 DEF ConnInv, EndInv
  <2> QED
    BY <1>1, <1>5, <1>12, <2>1, SidesAre DEF ConnInv, EndInv
<1> QED
  BY <1>5, <1>11, <1>15, <1>16, <1>17 DEF ConnInv

\* A read that gives packets is followed by no error, and one that reports the
\* end of the stream comes when nothing is on its way.
LEMMA ReadPacketsConn ==
  ASSUME ConnInv, NEW s \in Sides, NEW k \in 0 .. Len(stream[s]), ReadPackets(s, k),
         k = 0 => closed[Peer(s)] = TRUE /\ stream[s] = <<>>
  PROVE  ConnInv'
<1> DEFINE p == Peer(s)
           buf == Arrived(s, k)
           rest == Unread(s, k)
<1>1. /\ encoder[Server] = Second /\ encoder[s] # "nil" /\ decoder[s] = KeyFor(s)
      /\ phase[s] = "ready" /\ Ahead(s) = Total(s)
      /\ p \in Sides /\ p # s
      /\ Completes(s) /\ decoded[s] = <<>> /\ ended[s] = FALSE
      /\ s = Client /\ lenDist[Client] = Client => SeedIsNext
  <2>1. Usable(s) /\ decoded[s] = <<>>
    BY DEF ReadPackets
  <2>2. ended[s] = FALSE
    BY DEF ReadPackets, ConnInv, ConnTypes
  <2>3. encoder[s] # "nil"
    BY <2>1 DEF Usable
  <2> QED
    BY <2>1, <2>2, <2>3, UsableHasKeys
<1>2. ConnTypes /\ lenDist[Server] = Server
  BY DEF ConnInv
<1>3. buf \in Seq(Thing) /\ rest \in Seq(Thing) /\ buf \o rest = Total(s)
  BY <1>2, ReadMoves
<1>4. Decoded(s, k) = Openable(s, buf)
  BY DEF Decoded
<1> HIDE DEF buf, rest, p
<1>5. /\ Len(buf) \in Nat /\ Len(rest) \in Nat
      /\ \A i \in 1 .. Len(buf) : i \in 1 .. Len(Total(s)) /\ Total(s)[i] = buf[i]
      /\ \A i \in 1 .. Len(rest) :
           Len(buf) + i \in 1 .. Len(Total(s)) /\ Total(s)[Len(buf) + i] = rest[i]
  <2>1. /\ Len(buf) \in Nat /\ Len(rest) \in Nat /\ Len(Total(s)) = Len(buf) + Len(rest)
        /\ \A i \in 1 .. Len(buf) + Len(rest) :
             Total(s)[i] = IF i <= Len(buf) THEN buf[i] ELSE rest[i - Len(buf)]
    BY <1>3, ConcatProperties, LenProperties
  <2>2. \A i \in 1 .. Len(buf) : i \in 1 .. Len(Total(s)) /\ Total(s)[i] = buf[i]
    BY <2>1
  <2>3. ASSUME NEW i \in 1 .. Len(rest)
        PROVE  Len(buf) + i \in 1 .. Len(Total(s)) /\ Total(s)[Len(buf) + i] = rest[i]
    <3>1. /\ Len(buf) + i \in 1 .. Len(buf) + Len(rest) /\ ~(Len(buf) + i <= Len(buf))
          /\ (Len(buf) + i) - Len(buf) = i
      BY <2>1
    <3> QED
      BY <2>1, <3>1
  <2> QED
    BY <2>1, <2>2, <2>3
<1>6. Decoded(s, k) = buf
  <2>1. \A i \in 1 .. Len(buf) : buf[i].key = decoder[s]
    BY <1>1, <1>5 DEF Completes
  <2> QED
    BY <1>3, <1>4, <2>1, AllOpen
<1>7. /\ decoded' = [decoded EXCEPT ![s] = PayloadsOf(buf)]
      /\ lenDist' = [lenDist EXCEPT ![s] =
                       IF s = Client /\ \E i \in DOMAIN buf : buf[i].type = "seed"
                       THEN Server ELSE @]
      /\ ended' = [ended EXCEPT ![s] = (k = 0)]
      /\ rcvBuf' = [rcvBuf EXCEPT ![s] = <<>>]
      /\ stream' = [stream EXCEPT ![s] = rest]
      /\ UNCHANGED <<phase, encoder, decoder, closed, given, written>>
  BY <1>6 DEF ReadPackets, connVars, buf, rest
<1>8. <<>> \in Seq(Thing) /\ PayloadsOf(buf) \in Seq(Nat) /\ DOMAIN buf = 1 .. Len(buf)
  BY <1>3, PayloadsType, EmptySeq, LenProperties
<1>9. ConnTypes'
  <2>1. lenDist' \in [Sides -> Sides] /\ ended' \in [Sides -> BOOLEAN]
    BY <1>2, <1>7, SidesAre DEF ConnTypes
  <2>2. decoded' \in [Sides -> Seq(Nat)]
    BY <1>2, <1>7, <1>8 DEF ConnTypes
  <2>3. rcvBuf' \in [Sides -> Seq(Thing)] /\ stream' \in [Sides -> Seq(Thing)]
    BY <1>2, <1>3, <1>7, <1>8 DEF ConnTypes
  <2> QED
    BY <1>2, <1>7, <2>1, <2>2, <2>3 DEF ConnTypes
<1>10. Total(p)' = Total(p) /\ Total(s)' = rest
  <2>1. <<>> \o rest = rest
    BY <1>3, ConcatEmptySeq
  <2> QED
    BY <1>1, <1>2, <1>7, <2>1 DEF ConnTypes, Total
<1>11. Ahead(p)' = Ahead(p) /\ Ahead(s)' = rest
  BY <1>1, <1>7, <1>10 DEF Ahead
<1>12. decoded'[p] = decoded[p] /\ decoded'[s] = PayloadsOf(buf) /\ lenDist'[p] = lenDist[p]
       /\ ended'[p] = ended[p] /\ ended'[s] = (k = 0)
  BY <1>1, <1>2, <1>7 DEF ConnTypes
<1>13. \A t \in Sides : t = s \/ t = p
  BY <1>1, SidesAre
<1>14. lenDist'[Server] = Server
  BY <1>2, <1>7, SidesAre DEF ConnTypes
<1>15. KeyInv'
  <2>1. phase[Server] = "ready" /\ encoder[Server] # "nil"
    BY <1>1, SidesAre DEF ConnInv, KeyInv
  <2>2. /\ phase'[Server] = "handshake" => encoder'[Server] = "nil" /\ Total(Server)' = Request
        /\ encoder'[Server] = "nil" => Total(Client)' = <<>>
    BY <1>7, <2>1
  <2>3. \A t \in Sides :
          encoder'[t] = "nil" => /\ given'[t] = <<>> /\ decoded'[t] = <<>>
                                 /\ ended'[t] = FALSE /\ written'[t] = 0
    BY <1>1, <1>7, <1>12, <1>13 DEF ConnInv, KeyInv
  <2> QED
    BY <1>7, <2>2, <2>3 DEF ConnInv, KeyInv
<1>16. DataInv'
  <2>1. Completes(s)'
    <3> DEFINE g == given[s]
               f == PayloadsOf(buf)
               h == PayloadsOf(rest)
    <3>1. g \in Seq(Nat) /\ f \in Seq(Nat) /\ h \in Seq(Nat)
      BY <1>2, <1>3, PayloadsType DEF ConnTypes
    <3>2. PayloadsOf(Total(s)) = f \o h
      BY <1>3, PayloadsConcat
    <3>3. g \o <<>> = g
      BY <3>1, ConcatEmptySeq
    <3>4. g \o (f \o h) = [i \in 1 .. written[Peer(s)] |-> i]
      BY <1>1, <3>2, <3>3 DEF Completes
    <3>5. (g \o f) \o h = g \o (f \o h)
      <4> HIDE DEF g, f, h
      <4> QED
        BY <3>1, NumbersAssociate, Zenon
    <3>6. given'[s] \o decoded'[s] \o PayloadsOf(Ahead(s)') = [i \in 1 .. written'[Peer(s)] |-> i]
      BY <1>7, <1>11, <1>12, <3>4, <3>5
    <3>7. \A i \in 1 .. Len(Ahead(s)') : Ahead(s)'[i].key = KeyFor(s)
      BY <1>1, <1>5, <1>11 DEF Completes
    <3> QED
      BY <3>6, <3>7 DEF Completes
  <2>2. ASSUME phase[p] # "failed"
        PROVE  Completes(p)'
    <3>1. Completes(p)
      BY <1>1, <2>2 DEF ConnInv, DataInv
    <3> QED
      BY <1>7, <1>11, <1>12, <3>1 DEF Completes
  <2>3. \A t \in Sides : phase'[t] # "failed" => Completes(t)'
    BY <1>7, <1>13, <2>1, <2>2
  <2>4. ASSUME phase[Client] # "failed", lenDist'[Client] = Client
        PROVE  SeedIsNext'
    <3>1. CASE p = Client
      <4>1. SeedIsNext
        BY <1>1, <1>12, <2>4, <3>1 DEF ConnInv, DataInv
      <4> QED
        BY <1>7, <1>11, <1>12, <3>1, <4>1 DEF SeedIsNext
    <3>2. CASE s = Client
      <4>1. lenDist[Client] = Client /\ ~ \E i \in DOMAIN buf : buf[i].type = "seed"
        BY <1>2, <1>7, <2>4, <3>2, SidesAre DEF ConnTypes
      <4>2. SeedIsNext
        BY <1>1, <3>2, <4>1
      <4>3. Len(buf) = 0
        <5>1. CASE Len(buf) # 0
          <6>1. 1 \in 1 .. Len(buf)
            BY <1>5, <5>1
          <6>2. buf[1].type = "seed"
            BY <1>1, <1>5, <3>2, <4>2, <6>1 DEF SeedIsNext
          <6> QED
            BY <1>8, <4>1, <6>1, <6>2
        <5> QED
          BY <5>1
      <4>4. buf = <<>>
        BY <1>3, <4>3, EmptySeq
      <4>5. rest = Total(s)
        BY <1>3, <4>4, ConcatEmptySeq
      <4>6. decoded'[s] = <<>> /\ Ahead(s)' = Ahead(s)
        BY <1>1, <1>11, <1>12, <4>4, <4>5, PayloadsEmpty
      <4> QED
        BY <1>7, <3>2, <4>2, <4>6 DEF SeedIsNext
    <3> QED
      BY <1>13, <3>1, <3>2, SidesAre
  <2>5. phase[Client] # "ready" => Total(Server)' = <<>>
    <3> SUFFICES ASSUME phase[Client] # "ready"
                 PROVE  Total(Server)' = <<>>
      OBVIOUS
    <3>1. s = Server /\ Total(s) = <<>>
      BY <1>1, SidesAre DEF ConnInv, DataInv
    <3>2. rest = <<>>
      BY <1>3, <3>1, ConcatEqualIffEmpty
    <3> QED
      BY <1>10, <3>1, <3>2
  <2>6. phase[Client] = "handshake" => Len(Total(Client)') >= 2
    <3> SUFFICES ASSUME phase[Client] = "handshake"
                 PROVE  Len(Total(Client)') >= 2
      OBVIOUS
    <3>1. p = Client /\ Len(Total(Client)) >= 2
      BY <1>1, SidesAre DEF ConnInv, DataInv
    <3> QED
      BY <1>10, <3>1
  <2> QED
    BY <1>7, <2>3, <2>4, <2>5, <2>6 DEF DataInv
<1>17. EndInv'
  <2>1. ended[p] = TRUE => closed[Peer(p)] = TRUE /\ Total(p) = <<>>
    BY <1>1 DEF ConnInv, EndInv
  <2>2. k = 0 => rest = <<>>
    <3> SUFFICES ASSUME k = 0
                 PROVE  rest = <<>>
      OBVIOUS
    <3>1. rest = SubSeq(<<>>, 1, 0)
      BY EmptySeq DEF rest, Unread
    <3> QED
      BY <3>1, SubSeqEmpty
  <2>3. ended'[s] = TRUE => closed'[Peer(s)] = TRUE /\ Total(s)' = <<>>
    BY <1>7, <1>10, <1>12, <2>2
  <2>4. ended'[p] = TRUE => closed'[Peer(p)] = TRUE /\ Total(p)' = <<>>
    BY <1>7, <1>10, <1>12, <2>1
  <2> QED
    BY <1>13, <2>3, <2>4 DEF EndInv
<1> QED
  BY <1>9, <1>14, <1>15, <1>16, <1>17 DEF ConnInv

LEMMA ReadConn ==
  ASSUME ConnInv, NEW s \in Sides, Read(s)
  PROVE  ConnInv'
<1>1. /\ encoder[Server] = Second /\ phase[s] = "ready" /\ encoder[s] # "nil"
      /\ Completes(s)
      /\ s = Client /\ lenDist[Client] = Client => SeedIsNext
  BY UsableHasKeys, SidesAre DEF Read, Usable
<1>2. /\ given' = [given EXCEPT ![s] = @ \o decoded[s]]
      /\ decoded' = [decoded EXCEPT ![s] = <<>>]
      /\ UNCHANGED <<phase, encoder, decoder, lenDist, stream, rcvBuf, closed, ended, written>>
      /\ decoded[s] # <<>>
  BY DEF Read, connVars
<1>3. ConnTypes /\ given[s] \in Seq(Nat) /\ decoded[s] \in Seq(Nat) /\ <<>> \in Seq(Nat)
  BY EmptySeq DEF ConnInv, ConnTypes
<1>4. given[s] \o decoded[s] \in Seq(Nat) /\ (given[s] \o decoded[s]) \o <<>> = given[s] \o decoded[s]
  <2>1. given[s] \o decoded[s] \in Seq(Nat)
    BY <1>3, ConcatProperties
  <2> QED
    BY <2>1, ConcatEmptySeq
<1>5. /\ given'[s] = given[s] \o decoded[s] /\ decoded'[s] = <<>>
      /\ \A t \in Sides : t # s => given'[t] = given[t] /\ decoded'[t] = decoded[t]
  BY <1>2, <1>3 DEF ConnTypes
<1>6. ConnTypes'
  BY <1>2, <1>3, <1>4 DEF ConnTypes
<1>7. \A t \in Sides : Total(t)' = Total(t) /\ Ahead(t)' = Ahead(t)
  BY <1>2 DEF Total, Ahead
<1>8. KeyInv'
  BY <1>1, <1>2, <1>5, <1>7, SidesAre DEF ConnInv, KeyInv
<1>9. DataInv'
  <2>1. ASSUME NEW t \in Sides, phase[t] # "failed"
        PROVE  Completes(t)'
    <3>1. Completes(t)
      BY <1>1, <2>1 DEF ConnInv, DataInv
    <3>2. given'[t] \o decoded'[t] = given[t] \o decoded[t]
      BY <1>4, <1>5
    <3> QED
      BY <1>2, <1>7, <3>1, <3>2 DEF Completes
  <2>2. ASSUME phase[Client] # "failed", lenDist[Client] = Client
        PROVE  SeedIsNext'
    <3>1. SeedIsNext
      BY <1>1, <2>2 DEF ConnInv, DataInv
    <3>2. s # Client
      BY <1>2, <3>1 DEF SeedIsNext
    <3> QED
      BY <1>5, <1>7, <3>1, <3>2, SidesAre DEF SeedIsNext
  <2> QED
    BY <1>1, <1>2, <1>7, <2>1, <2>2, SidesAre DEF ConnInv, DataInv
<1>10. EndInv'
  BY <1>2, <1>7 DEF ConnInv, EndInv
<1> QED
  BY <1>2, <1>6, <1>8, <1>9, <1>10 DEF ConnInv

LEMMA NextConn == ConnInv /\ [Next]_vars => ConnInv'
<1> SUFFICES ASSUME ConnInv, [Next]_vars
             PROVE  ConnInv'
  OBVIOUS
<1>1. CASE UNCHANGED vars
  <2>1. ConnTypes'
    BY <1>1 DEF ConnInv, ConnTypes, vars, connVars, userVars
  <2>2. \A s \in Sides : Total(s)' = Total(s)
    BY <1>1 DEF Total, vars
  <2> QED
    BY <1>1, <2>1, <2>2, Kept, SidesAre DEF vars, connVars, userVars
<1>2. ASSUME NEW s \in Sides, Receive(s)
      PROVE  ConnInv'
  <2>1. PICK k \in 1 .. Len(stream[s]) :
          \/ HandshakeContinues(s, k)
          \/ s = Server /\ (ServerHandshake(k) \/ ServerClearFails(k))
          \/ s = Client /\ (ClientHandshake(k) \/ ClientClearFails(k))
          \/ ReadPackets(s, k)
    BY <1>2 DEF Receive
  <2>2. CASE ReadPackets(s, k)
    <3>1. k \in 0 .. Len(stream[s]) /\ k # 0
      OBVIOUS
    <3> QED
      BY <2>2, <3>1, ReadPacketsConn
  <2> QED
    BY <2>1, <2>2, HandshakeContinuesConn, ServerHandshakeConn, ServerClearFailsConn,
       ClientHandshakeConn, ClientClearFailsConn
<1>3. ASSUME NEW s \in Sides, ReadEnd(s)
      PROVE  ConnInv'
  <2>1. /\ 0 \in 0 .. Len(stream[s]) /\ ReadPackets(s, 0)
        /\ closed[Peer(s)] = TRUE /\ stream[s] = <<>>
    BY <1>3, EmptySeq, SidesAre DEF ReadEnd, ConnInv, ConnTypes
  <2> QED
    BY <2>1, ReadPacketsConn
<1> QED
  BY <1>1, <1>2, <1>3, HandshakeFailsConn, WriteConn, ReadConn, CloseConn DEF Next

-----------------------------------------------------------------------------
(* The theorems. *)

\* Who has keys, what they have been given and what is ahead of them fit
\* together in every state of a connection.
THEOREM ConnInvIsInvariant == Spec => []ConnInv
BY InitConn, NextConn, PTL DEF Spec

\* Everything the peer wrote is given to the user, decoded, received or on its
\* way, in order and once, from the moment the handshake ends: for any number
\* of writes and of padding packets, and wherever reads cut the stream.
THEOREM PayloadAlwaysConserved == Spec => []PayloadConserved
<1>1. ASSUME ConnInv
      PROVE  PayloadConserved
  <2> SUFFICES ASSUME NEW s \in Sides, Usable(s)
               PROVE  given[s] \o decoded[s] \o PayloadsOf(rcvBuf[s] \o stream[s])
                        = [i \in 1 .. written[Peer(s)] |-> i]
    BY DEF PayloadConserved
  <2>1. Completes(s) /\ Ahead(s) = Total(s)
    BY <1>1, UsableHasKeys
  <2> QED
    BY <2>1 DEF Completes, Total
<1>2. ConnInv => PayloadConserved
  BY <1>1
<1> QED
  BY <1>2, ConnInvIsInvariant, PTL

\* When Read reports the end of the stream, its user has all that was written.
THEOREM EndAlwaysAfterAllData == Spec => []EndAfterAllData
<1>1. ASSUME ConnInv
      PROVE  EndAfterAllData
  <2> SUFFICES ASSUME NEW s \in Sides, Usable(s), ended[s]
               PROVE  Len(given[s] \o decoded[s]) = written[Peer(s)]
    BY DEF EndAfterAllData
  <2> DEFINE g == given[s] \o decoded[s]
             w == written[Peer(s)]
  <2>1. Completes(s) /\ Ahead(s) = Total(s) /\ Peer(s) \in Sides
    BY <1>1, UsableHasKeys
  <2>2. Total(s) = <<>>
    BY <1>1 DEF ConnInv, ConnTypes, EndInv
  <2>3. g \in Seq(Nat) /\ w \in Nat
    BY <1>1, <2>1, ConcatProperties DEF ConnInv, ConnTypes
  <2>4. g \o <<>> = [i \in 1 .. w |-> i]
    BY <2>1, <2>2, PayloadsEmpty DEF Completes
  <2> HIDE DEF g, w
  <2>5. g = [i \in 1 .. w |-> i]
    BY <2>3, <2>4, ConcatEmptySeq
  <2>6. Len(g) = w
    BY <2>3, <2>5
  <2> QED
    BY <2>6 DEF g, w
<1>2. ConnInv => EndAfterAllData
  BY <1>1
<1> QED
  BY <1>2, ConnInvIsInvariant, PTL

\* The client takes over the server's length distribution before its user is
\* given anything, and the server never another's.
THEOREM SeedAlwaysBeforePayload == Spec => []SeedBeforePayload
<1>1. ASSUME ConnInv
      PROVE  SeedBeforePayload
  <2>1. ASSUME given[Client] # <<>>
        PROVE  lenDist[Client] = Server
    <3>1. lenDist[Client] \in {Client, Server}
      BY <1>1, SidesAre DEF ConnInv, ConnTypes
    <3>2. encoder[Client] # "nil"
      BY <1>1, <2>1, SidesAre DEF ConnInv, KeyInv
    <3>3. phase[Client] = "ready" /\ encoder[Server] = Second
      BY <1>1, <3>2, SidesAre DEF ConnInv, KeyInv
    <3> QED
      BY <1>1, <2>1, <3>1, <3>3 DEF ConnInv, DataInv, SeedIsNext
  <2> QED
    BY <1>1, <2>1 DEF ConnInv, SeedBeforePayload
<1>2. ConnInv => SeedBeforePayload
  BY <1>1
<1> QED
  BY <1>2, ConnInvIsInvariant, PTL
=============================================================================
