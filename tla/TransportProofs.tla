-------------------------- MODULE TransportProofs --------------------------
(***************************************************************************)
(* Theorems about the older transports: obfs2, obfs3 and scramblesuit lose *)
(* nothing and put nothing out of order, for any number of units, any cut  *)
(* of the streams and any padding.                                         *)
(***************************************************************************)
EXTENDS Obfs23, Scramblesuit, FiniteSetTheorems, WellFoundedInduction, SequenceTheorems, TLAPS

(***************************************************************************)
(* Parts of a stream.  A stream is a function F of the places 1, 2, ...    *)
(***************************************************************************)

\* The n units that follow the first "from".
Stretch(F, from, n) == [i \in 1 .. n |-> F[from + i]]

OnStream(F) == {F[k] : k \in Nat}

LEMMA StretchIs ==
  ASSUME NEW F, NEW from \in Nat, NEW n \in Nat
  PROVE  /\ Stretch(F, from, n) \in Seq(OnStream(F)) /\ Len(Stretch(F, from, n)) = n
         /\ \A i \in 1 .. n : Stretch(F, from, n)[i] = F[from + i]
<1>1. \A i \in 1 .. n : F[from + i] \in OnStream(F)
  BY DEF OnStream
<1> QED
  BY <1>1 DEF Stretch

\* A sequence that agrees with the stream is a stretch of it.
LEMMA IsStretch ==
  ASSUME NEW F, NEW from \in Nat, NEW n \in Nat,
         NEW s \in Seq(OnStream(F)), Len(s) = n,
         \A i \in 1 .. n : s[i] = F[from + i]
  PROVE  s = Stretch(F, from, n)
<1>1. DOMAIN s = 1 .. n /\ s \in [1 .. n -> OnStream(F)]
  BY LenProperties
<1> QED
  BY <1>1 DEF Stretch

LEMMA NoStretch ==
  ASSUME NEW F, NEW from \in Nat
  PROVE  <<>> = Stretch(F, from, 0)
<1>1. <<>> \in Seq(OnStream(F)) /\ Len(<<>>) = 0
  BY EmptySeq
<1>2. \A i \in 1 .. 0 : <<>>[i] = F[from + i]
  OBVIOUS
<1> QED
  BY <1>1, <1>2, 0 \in Nat, IsStretch, Zenon

\* One after the other they are one.
LEMMA StretchesJoin ==
  ASSUME NEW F, NEW from \in Nat, NEW m \in Nat, NEW n \in Nat
  PROVE  Stretch(F, from, m) \o Stretch(F, from + m, n) = Stretch(F, from, m + n)
<1> DEFINE a == Stretch(F, from, m)
           b == Stretch(F, from + m, n)
           S == OnStream(F)
<1>1. /\ a \in Seq(S) /\ Len(a) = m /\ \A i \in 1 .. m : a[i] = F[from + i]
      /\ b \in Seq(S) /\ Len(b) = n /\ \A i \in 1 .. n : b[i] = F[(from + m) + i]
      /\ from + m \in Nat /\ m + n \in Nat
  <2>1. from + m \in Nat /\ m + n \in Nat
    OBVIOUS
  <2>2. a \in Seq(S) /\ Len(a) = m /\ \A i \in 1 .. m : a[i] = F[from + i]
    BY StretchIs
  <2>3. b \in Seq(S) /\ Len(b) = n /\ \A i \in 1 .. n : b[i] = F[(from + m) + i]
    BY <2>1, StretchIs
  <2> QED
    BY <2>1, <2>2, <2>3
<1> HIDE DEF a, b
<1>2. /\ a \o b \in Seq(S) /\ Len(a \o b) = m + n
      /\ \A i \in 1 .. m + n : (a \o b)[i] = IF i <= m THEN a[i] ELSE b[i - m]
  <2>1. a \in Seq(S) /\ b \in Seq(S) /\ Len(a) = m /\ Len(b) = n
    BY <1>1
  <2> QED
    BY <2>1, ConcatProperties
<1> DEFINE c == a \o b
<1> HIDE DEF c
<1>3. c \in Seq(S) /\ Len(c) = m + n
  BY <1>2 DEF c
<1>4. ASSUME NEW i \in 1 .. m + n
      PROVE  c[i] = F[from + i]
  <2>1. CASE i <= m
    BY <1>1, <1>2, <2>1 DEF c
  <2>2. CASE ~(i <= m)
    <3>1. i - m \in 1 .. n /\ (from + m) + (i - m) = from + i
      BY <2>2
    <3>2. c[i] = b[i - m] /\ b[i - m] = F[(from + m) + (i - m)]
      BY <1>1, <1>2, <2>2, <3>1 DEF c
    <3> QED
      BY <3>1, <3>2
  <2> QED
    BY <2>1, <2>2
<1>5. c = Stretch(F, from, m + n)
  BY <1>1, <1>3, <1>4, IsStretch
<1> QED
  BY <1>5 DEF c, a, b

\* What is taken from the front, and what is left.
LEMMA StretchIsCut ==
  ASSUME NEW F, NEW from \in Nat, NEW n \in Nat, NEW k \in 0 .. n
  PROVE  /\ SubSeq(Stretch(F, from, n), 1, k) = Stretch(F, from, k)
         /\ SubSeq(Stretch(F, from, n), k + 1, n) = Stretch(F, from + k, n - k)
<1> DEFINE a == Stretch(F, from, n)
           S == OnStream(F)
           x == SubSeq(a, 1, k)
           y == SubSeq(a, k + 1, n)
<1>1. /\ k \in Nat /\ n - k \in Nat /\ from + k \in Nat /\ k + 1 \in Int /\ k \in Int /\ n \in Int /\ 1 \in Int
      /\ \A i \in 1 .. n : a[i] = F[from + i] /\ a[i] \in S
  <2>1. a \in Seq(S) /\ Len(a) = n /\ \A i \in 1 .. n : a[i] = F[from + i]
    BY StretchIs
  <2>2. \A i \in 1 .. n : F[from + i] \in S
    BY DEF OnStream
  <2> QED
    BY <2>1, <2>2
<1> HIDE DEF a
<1>2. x \in Seq(S) /\ Len(x) = k /\ \A i \in 1 .. k : x[i] = F[from + i]
  <2>1. \A i \in 1 .. k : a[i] \in S
    BY <1>1
  <2>2. /\ x \in Seq(S) /\ Len(x) = IF 1 <= k THEN k - 1 + 1 ELSE 0
        /\ \A i \in 1 .. k - 1 + 1 : x[i] = a[1 + i - 1]
    BY <1>1, <2>1, SubSeqProperties
  <2>3. Len(x) = k /\ k - 1 + 1 = k /\ \A i \in 1 .. k : i \in 1 .. n /\ 1 + i - 1 = i
    BY <1>1, <2>2
  <2> QED
    BY <1>1, <2>2, <2>3
<1>3. y \in Seq(S) /\ Len(y) = n - k /\ \A i \in 1 .. n - k : y[i] = F[(from + k) + i]
  <2>1. \A i \in k + 1 .. n : a[i] \in S
    BY <1>1
  <2>2. /\ y \in Seq(S) /\ Len(y) = IF k + 1 <= n THEN n - (k + 1) + 1 ELSE 0
        /\ \A i \in 1 .. n - (k + 1) + 1 : y[i] = a[(k + 1) + i - 1]
    BY <1>1, <2>1, SubSeqProperties
  <2>3. /\ Len(y) = n - k /\ n - (k + 1) + 1 = n - k
        /\ \A i \in 1 .. n - k : (k + 1) + i - 1 \in 1 .. n /\ (k + 1) + i - 1 = k + i
                                  /\ from + (k + i) = (from + k) + i
    BY <1>1, <2>2
  <2>4. ASSUME NEW i \in 1 .. n - k
        PROVE  y[i] = F[(from + k) + i]
    <3>1. y[i] = a[k + i] /\ k + i \in 1 .. n
      BY <2>2, <2>3
    <3>2. a[k + i] = F[from + (k + i)]
      BY <1>1, <3>1
    <3> QED
      BY <2>3, <3>1, <3>2
  <2> QED
    BY <2>2, <2>3, <2>4
<1> HIDE DEF x, y
<1>4. x = Stretch(F, from, k) /\ y = Stretch(F, from + k, n - k)
  BY <1>1, <1>2, <1>3, IsStretch
<1> QED
  BY <1>4 DEF x, y, a

(***************************************************************************)
(* obfs2 and obfs3.                                                        *)
(***************************************************************************)

\* There are two ends.
LEMMA PeerIs ==
  ASSUME NEW e \in Ends
  PROVE  /\ Peer(e) \in Ends /\ Peer(e) # e /\ Peer(Peer(e)) = e
         /\ \A p \in Ends : p # e => p = Peer(e)
         /\ e = "initiator" => Peer(e) = "responder"
         /\ e = "responder" => Peer(e) = "initiator"
<1>1. \E p \in Ends : p # e
  BY DEF Ends
<1>2. Peer(e) \in Ends /\ Peer(e) # e
  BY <1>1 DEF Peer
<1>3. \E p \in Ends : p # Peer(e)
  BY <1>2
<1>4. Peer(Peer(e)) \in Ends /\ Peer(Peer(e)) # Peer(e)
  BY <1>3 DEF Peer
<1> HIDE DEF Peer
<1> QED
  BY <1>2, <1>4 DEF Ends

\* The streams that a sender's data are enciphered with.
KeysOf(s) == <<s, <<"initiator", "responder">>>>

\* What a connection carries apart from padding and data.
Fixed(v) == IF v = "obfs3" THEN 4 ELSE 3

\* All that an end s sends, for the padding q in all that it uses.
LegacyUnit(v, s, q, k) ==
  IF k = 1 THEN [is |-> "key", of |-> s]
  ELSE IF k = 2 THEN [is |-> "key2", of |-> s]
  ELSE IF v = "obfs2" /\ k = 3 THEN [is |-> "header", of |-> q]
  ELSE IF v = "obfs3" /\ k = q + 3 THEN [is |-> "magic", of |-> s]
  ELSE IF v = "obfs3" /\ k = q + 4 THEN [is |-> "magic2", of |-> s]
  ELSE IF k > q + Fixed(v)
       THEN [is |-> "data", of |-> <<KeysOf(s), k - (q + Fixed(v)) - 1, k - (q + Fixed(v))>>]
  ELSE [is |-> "padding", of |-> "nobody"]
LegacyStream(v, s, q) == [k \in Nat |-> LegacyUnit(v, s, q, k)]

\* How much of it has been sent, and how much the other end e is done with.
Written(s, q) ==
  IF phase[s] = "start" THEN 0
  ELSE IF txMagic[s] THEN q + 2 ELSE q + Fixed(version) + sent[s]

\* What end e has taken out of its peer's stream.
Taken(e, q) ==
  IF phase[e] \in {"start", "key"} THEN 0
  ELSE IF phase[e] = "header" \/ rxMagic[e] THEN 2
  ELSE q + Fixed(version) + Len(got[e])

\* What lies ahead of an end: m units in its buffer, then n in the network, that
\* are what follows in the stream, up to its end if the peer has not closed.
AheadIs(e, q, m, n) ==
  /\ txMagic[Peer(e)] => q <= MaxPadding \div 2
  /\ rxMagic[e] => m < q + 2
  /\ rxBuf[e] = Stretch(LegacyStream(version, Peer(e), q), Taken(e, q), m)
  /\ inFlight[e] = Stretch(LegacyStream(version, Peer(e), q), Taken(e, q) + m, n)
  /\ Taken(e, q) + m + n <= Written(Peer(e), q)
  /\ phase[Peer(e)] # "closed" => Taken(e, q) + m + n = Written(Peer(e), q)

\* Until it closes, an end has its peer's stream ahead of it, for some padding.
AheadInv(e) ==
  phase[e] # "closed" => \E q \in 0 .. MaxPadding : \E m, n \in Nat : AheadIs(e, q, m, n)

LegacyTypes ==
  /\ version \in {"obfs2", "obfs3"}
  /\ phase \in [Ends -> {"start", "key", "header", "open", "closed"}]
  /\ rxMagic \in [Ends -> BOOLEAN] /\ txMagic \in [Ends -> BOOLEAN]
  /\ sent \in [Ends -> Nat]
  /\ inFlight = [e \in Ends |-> inFlight[e]] /\ rxBuf = [e \in Ends |-> rxBuf[e]]
  /\ tx = [e \in Ends |-> tx[e]] /\ rx = [e \in Ends |-> rx[e]] /\ got = [e \in Ends |-> got[e]]
  /\ \A e \in Ends : Len(got[e]) \in Nat
  /\ broken \in BOOLEAN

\* How far an end is says what it has, which keys it uses and from where.
EndInv(e) ==
  /\ phase[e] \in {"start", "key", "header"} =>
       /\ sent[e] = 0 /\ got[e] = <<>> /\ rxBuf[e] = <<>>
       /\ txMagic[e] = (version = "obfs3") /\ rxMagic[e] = (version = "obfs3")
  /\ phase[e] = "header" => version = "obfs2"
  /\ version = "obfs2" => rxBuf[e] = <<>> /\ rxMagic[e] = FALSE /\ txMagic[e] = FALSE
  /\ rxMagic[e] => got[e] = <<>>
  /\ txMagic[e] => sent[e] = 0
  /\ phase[e] = "open" =>
       /\ tx[e] = [key |-> KeysOf(e), at |-> sent[e]]
       /\ rx[e] = [key |-> KeysOf(Peer(e)), at |-> Len(got[e])]
  /\ phase[e] = "closed" => broken
  /\ got[e] = [i \in 1 .. Len(got[e]) |-> i] /\ Len(got[e]) <= sent[Peer(e)]

LegacyInv ==
  /\ LegacyTypes
  /\ \A e \in Ends : EndInv(e) /\ AheadInv(e)

\* The parts of the stream.
StreamParts(F, v, s, q) ==
  /\ F[1] = [is |-> "key", of |-> s] /\ F[2] = [is |-> "key2", of |-> s]
  /\ v = "obfs2" => F[3] = [is |-> "header", of |-> q]
  /\ v = "obfs2" => \A j \in 1 .. q : F[3 + j] = [is |-> "padding", of |-> "nobody"]
  /\ v = "obfs3" => \A j \in 1 .. q : F[2 + j] = [is |-> "padding", of |-> "nobody"]
  /\ v = "obfs3" => F[q + 3] = [is |-> "magic", of |-> s] /\ F[q + 4] = [is |-> "magic2", of |-> s]
  /\ \A j \in Nat \ {0} : F[(q + Fixed(v)) + j] = [is |-> "data", of |-> <<KeysOf(s), j - 1, j>>]

LEMMA UnitsAre ==
  ASSUME NEW v \in {"obfs2", "obfs3"}, NEW s, NEW q \in Nat
  PROVE  StreamParts(LegacyStream(v, s, q), v, s, q)
<1> DEFINE F == LegacyStream(v, s, q)
<1>1. \A k \in Nat : F[k] = LegacyUnit(v, s, q, k)
  BY DEF LegacyStream
<1> HIDE DEF F
<1>2. (v = "obfs2" => Fixed(v) = 3) /\ (v = "obfs3" => Fixed(v) = 4) /\ "obfs2" # "obfs3"
  BY DEF Fixed
<1>3. F[1] = [is |-> "key", of |-> s] /\ F[2] = [is |-> "key2", of |-> s]
  <2>1. 1 \in Nat /\ 2 \in Nat /\ 2 # 1
    OBVIOUS
  <2> QED
    BY <1>1, <2>1, Zenon DEF LegacyUnit
<1>4. v = "obfs2" => F[3] = [is |-> "header", of |-> q]
  <2>1. 3 \in Nat /\ 3 # 1 /\ 3 # 2
    OBVIOUS
  <2> QED
    BY <1>1, <2>1, Zenon DEF LegacyUnit
<1>5. v = "obfs2" => \A j \in 1 .. q : F[3 + j] = [is |-> "padding", of |-> "nobody"]
  <2>1. \A j \in 1 .. q : 3 + j \in Nat /\ 3 + j # 1 /\ 3 + j # 2 /\ 3 + j # 3 /\ ~(3 + j > q + 3)
    OBVIOUS
  <2> QED
    BY <1>1, <1>2, <2>1, Zenon DEF LegacyUnit
<1>6. v = "obfs3" => \A j \in 1 .. q : F[2 + j] = [is |-> "padding", of |-> "nobody"]
  <2>1. \A j \in 1 .. q : 2 + j \in Nat /\ 2 + j # 1 /\ 2 + j # 2 /\ 2 + j # q + 3 /\ 2 + j # q + 4
                           /\ ~(2 + j > q + 4)
    OBVIOUS
  <2> QED
    BY <1>1, <1>2, <2>1, Zenon DEF LegacyUnit
<1>7. v = "obfs3" => F[q + 3] = [is |-> "magic", of |-> s] /\ F[q + 4] = [is |-> "magic2", of |-> s]
  <2>1. /\ q + 3 \in Nat /\ q + 4 \in Nat /\ q + 3 # 1 /\ q + 3 # 2 /\ q + 4 # 1 /\ q + 4 # 2
        /\ q + 4 # q + 3
    OBVIOUS
  <2> QED
    BY <1>1, <1>2, <2>1, Zenon DEF LegacyUnit
<1>8. ASSUME NEW j \in Nat \ {0}
      PROVE  F[(q + Fixed(v)) + j] = [is |-> "data", of |-> <<KeysOf(s), j - 1, j>>]
  <2> DEFINE k == (q + Fixed(v)) + j
  <2>1. Fixed(v) \in {3, 4} /\ (v = "obfs3" => Fixed(v) = 4)
    BY <1>2
  <2>2. k \in Nat /\ k > 3 /\ k > q + Fixed(v) /\ k - (q + Fixed(v)) = j
        /\ (v = "obfs3" => k # q + 3 /\ k # q + 4)
    BY <2>1
  <2> HIDE DEF k
  <2>3. F[k] = LegacyUnit(v, s, q, k) /\ k # 1 /\ k # 2 /\ k # 3
    BY <1>1, <2>2
  <2>4. LegacyUnit(v, s, q, k)
          = [is |-> "data", of |-> <<KeysOf(s), k - (q + Fixed(v)) - 1, k - (q + Fixed(v))>>]
    BY <2>2, <2>3, Zenon DEF LegacyUnit
  <2> QED
    BY <2>2, <2>3, <2>4 DEF k
<1> QED
  BY <1>3, <1>4, <1>5, <1>6, <1>7, <1>8 DEF StreamParts, F

\* The magic of obfs3 is in one place only.
LEMMA MagicIsOnce ==
  ASSUME NEW s, NEW q \in Nat, NEW F, F = LegacyStream("obfs3", s, q),
         NEW k \in Nat, k # q + 3
  PROVE  F[k].is # "magic"
<1>1. F[k] = LegacyUnit("obfs3", s, q, k)
  BY DEF LegacyStream
<1>2. LegacyUnit("obfs3", s, q, k).is \in {"key", "key2", "header", "magic2", "data", "padding"}
  BY DEF LegacyUnit
<1> QED
  BY <1>1, <1>2

\* What is sent is a part of the stream.
LEMMA PaddingIsStretch ==
  ASSUME NEW s, NEW q \in Nat, NEW f \in Nat, NEW n \in Nat, f + n <= q
  PROVE  /\ Padding(n) = Stretch(LegacyStream("obfs3", s, q), 2 + f, n)
         /\ Padding(n) = Stretch(LegacyStream("obfs2", s, q), 3 + f, n)
<1>1. \A i \in 1 .. n : f + i \in 1 .. q /\ (2 + f) + i = 2 + (f + i) /\ (3 + f) + i = 3 + (f + i)
  OBVIOUS
<1>2. \A i \in 1 .. n : LegacyStream("obfs3", s, q)[(2 + f) + i] = [is |-> "padding", of |-> "nobody"]
  <2>1. \A j \in 1 .. q : LegacyStream("obfs3", s, q)[2 + j] = [is |-> "padding", of |-> "nobody"]
    <3>1. StreamParts(LegacyStream("obfs3", s, q), "obfs3", s, q)
      BY UnitsAre
    <3> QED
      BY <3>1 DEF StreamParts
  <2> QED
    <3>1. ASSUME NEW i \in 1 .. n
          PROVE  LegacyStream("obfs3", s, q)[(2 + f) + i] = [is |-> "padding", of |-> "nobody"]
      <4>1. f + i \in 1 .. q /\ (2 + f) + i = 2 + (f + i)
        BY <1>1
      <4>2. LegacyStream("obfs3", s, q)[2 + (f + i)] = [is |-> "padding", of |-> "nobody"]
        BY <2>1, <4>1
      <4> QED
        BY <4>1, <4>2
    <3> QED
      BY <3>1
<1>3. \A i \in 1 .. n : LegacyStream("obfs2", s, q)[(3 + f) + i] = [is |-> "padding", of |-> "nobody"]
  <2>1. \A j \in 1 .. q : LegacyStream("obfs2", s, q)[3 + j] = [is |-> "padding", of |-> "nobody"]
    <3>1. StreamParts(LegacyStream("obfs2", s, q), "obfs2", s, q)
      BY UnitsAre
    <3> QED
      BY <3>1 DEF StreamParts
  <2> QED
    <3>1. ASSUME NEW i \in 1 .. n
          PROVE  LegacyStream("obfs2", s, q)[(3 + f) + i] = [is |-> "padding", of |-> "nobody"]
      <4>1. f + i \in 1 .. q /\ (3 + f) + i = 3 + (f + i)
        BY <1>1
      <4>2. LegacyStream("obfs2", s, q)[3 + (f + i)] = [is |-> "padding", of |-> "nobody"]
        BY <2>1, <4>1
      <4> QED
        BY <4>1, <4>2
    <3> QED
      BY <3>1
<1> QED
  BY <1>2, <1>3 DEF Padding, Stretch

LEMMA SealedIsStretch ==
  ASSUME NEW v \in {"obfs2", "obfs3"}, NEW s, NEW q \in Nat, NEW first \in Nat, NEW n \in Nat
  PROVE  Sealed([key |-> KeysOf(s), at |-> first], first, n)
           = Stretch(LegacyStream(v, s, q), (q + Fixed(v)) + first, n)
<1> DEFINE F == LegacyStream(v, s, q)
<1>1. ASSUME NEW i \in 1 .. n
      PROVE  F[((q + Fixed(v)) + first) + i]
               = [is |-> "data", of |-> <<KeysOf(s), first + i - 1, first + i>>]
  <2>1. first + i \in Nat \ {0} /\ q + Fixed(v) \in Nat
        /\ ((q + Fixed(v)) + first) + i = (q + Fixed(v)) + (first + i)
    BY DEF Fixed
  <2>2. F[(q + Fixed(v)) + (first + i)] = [is |-> "data", of |-> <<KeysOf(s), (first + i) - 1, first + i>>]
    <3>1. \A j \in Nat \ {0} : F[(q + Fixed(v)) + j] = [is |-> "data", of |-> <<KeysOf(s), j - 1, j>>]
      <4>1. StreamParts(F, v, s, q)
        BY UnitsAre
      <4> QED
        BY <4>1 DEF StreamParts
    <3> QED
      BY <2>1, <3>1, Zenon
  <2> QED
    BY <2>1, <2>2
<1> HIDE DEF F
<1> QED
  BY <1>1 DEF Sealed, Stretch, F

LEMMA KeyIsStretch ==
  ASSUME NEW v \in {"obfs2", "obfs3"}, NEW s, NEW q \in Nat
  PROVE  /\ Key(s) = Stretch(LegacyStream(v, s, q), 0, 2)
         /\ v = "obfs2" => Header(q) = Stretch(LegacyStream(v, s, q), 2, 1)
         /\ v = "obfs3" => Magic(s) = Stretch(LegacyStream(v, s, q), q + 2, 2)
<1> DEFINE F == LegacyStream(v, s, q)
<1>1. /\ F[1] = [is |-> "key", of |-> s] /\ F[2] = [is |-> "key2", of |-> s]
      /\ v = "obfs2" => F[3] = [is |-> "header", of |-> q]
      /\ v = "obfs3" => /\ F[q + 3] = [is |-> "magic", of |-> s]
                        /\ F[q + 4] = [is |-> "magic2", of |-> s]
  <2>1. StreamParts(F, v, s, q)
    BY UnitsAre
  <2> QED
    BY <2>1 DEF StreamParts
<1> HIDE DEF F
<1>2. Stretch(F, 0, 2) = <<F[1], F[2]>>
  BY DEF Stretch
<1>3. Stretch(F, 2, 1) = <<F[3]>>
  BY DEF Stretch
<1>4. Stretch(F, q + 2, 2) = <<F[q + 3], F[q + 4]>>
  BY DEF Stretch
<1> QED
  BY <1>1, <1>2, <1>3, <1>4 DEF Key, Header, Magic, F

\* What both ends send first.
LEMMA HelloIsStretch ==
  ASSUME NEW s, NEW p \in Nat
  PROVE  /\ Key(s) \o Padding(p) = Stretch(LegacyStream("obfs3", s, p), 0, 2 + p)
         /\ (Key(s) \o Header(p)) \o Padding(p) = Stretch(LegacyStream("obfs2", s, p), 0, 3 + p)
<1>1. ASSUME NEW v \in {"obfs2", "obfs3"}
      PROVE  Key(s) = Stretch(LegacyStream(v, s, p), 0, 2)
  BY KeyIsStretch
<1>2. Key(s) \o Padding(p) = Stretch(LegacyStream("obfs3", s, p), 0, 2 + p)
  <2> DEFINE F == LegacyStream("obfs3", s, p)
  <2>1. Key(s) = Stretch(F, 0, 2)
    BY <1>1
  <2>2. Padding(p) = Stretch(F, 2 + 0, p)
    BY 0 \in Nat, 0 + p <= p, PaddingIsStretch
  <2> HIDE DEF F
  <2>3. Stretch(F, 0, 2) \o Stretch(F, 0 + 2, p) = Stretch(F, 0, 2 + p)
    BY 0 \in Nat, 2 \in Nat, StretchesJoin
  <2>4. 0 + 2 = 2 /\ 2 + 0 = 2
    OBVIOUS
  <2> QED
    BY <2>1, <2>2, <2>3, <2>4 DEF F
<1>3. (Key(s) \o Header(p)) \o Padding(p) = Stretch(LegacyStream("obfs2", s, p), 0, 3 + p)
  <2> DEFINE F == LegacyStream("obfs2", s, p)
  <2>1. Key(s) = Stretch(F, 0, 2) /\ Header(p) = Stretch(F, 2, 1)
    BY <1>1, KeyIsStretch
  <2>2. Padding(p) = Stretch(F, 3 + 0, p)
    BY 0 \in Nat, 0 + p <= p, PaddingIsStretch
  <2> HIDE DEF F
  <2>3. Stretch(F, 0, 2) \o Stretch(F, 0 + 2, 1) = Stretch(F, 0, 2 + 1)
    BY 0 \in Nat, 2 \in Nat, 1 \in Nat, StretchesJoin
  <2>4. Stretch(F, 0, 3) \o Stretch(F, 0 + 3, p) = Stretch(F, 0, 3 + p)
    BY 0 \in Nat, 3 \in Nat, StretchesJoin
  <2>5. 0 + 2 = 2 /\ 2 + 1 = 3 /\ 0 + 3 = 3 /\ 3 + 0 = 3
    OBVIOUS
  <2> QED
    BY <2>1, <2>2, <2>3, <2>4, <2>5 DEF F
<1> QED
  BY <1>2, <1>3

\* What obfs3 sends with its first data.
FirstWrite(s, f, p, n) ==
  (Padding(p) \o Magic(s)) \o Sealed([key |-> KeysOf(s), at |-> 0], 0, n)
    = Stretch(LegacyStream("obfs3", s, f + p), 2 + f, (p + 2) + n)

LEMMA MagicIsStretch ==
  ASSUME NEW s, NEW f \in Nat, NEW p \in Nat, NEW n \in Nat
  PROVE  FirstWrite(s, f, p, n)
<1> DEFINE F == LegacyStream("obfs3", s, f + p)
           D == Sealed([key |-> KeysOf(s), at |-> 0], 0, n)
<1>1. /\ f + p \in Nat /\ 2 + f \in Nat /\ p + 2 \in Nat /\ f + p <= f + p /\ 2 \in Nat /\ 0 \in Nat
      /\ (2 + f) + p = (f + p) + 2 /\ (2 + f) + (p + 2) = ((f + p) + 4) + 0
      /\ Fixed("obfs3") = 4
  BY DEF Fixed
<1>2. Padding(p) = Stretch(F, 2 + f, p)
  BY <1>1, PaddingIsStretch
<1>3. Magic(s) = Stretch(F, (f + p) + 2, 2)
  BY <1>1, KeyIsStretch
<1>4. D = Stretch(F, ((f + p) + 4) + 0, n)
  <2>1. D = Stretch(F, ((f + p) + Fixed("obfs3")) + 0, n)
    BY <1>1, SealedIsStretch
  <2> QED
    BY <1>1, <2>1
<1> HIDE DEF F, D
<1>5. Stretch(F, 2 + f, p) \o Stretch(F, (2 + f) + p, 2) = Stretch(F, 2 + f, p + 2)
  <2>1. 2 + f \in Nat /\ 2 \in Nat
    BY <1>1
  <2> QED
    BY <2>1, StretchesJoin
<1>6. Stretch(F, 2 + f, p + 2) \o Stretch(F, (2 + f) + (p + 2), n) = Stretch(F, 2 + f, (p + 2) + n)
  <2>1. 2 + f \in Nat /\ p + 2 \in Nat
    BY <1>1
  <2> QED
    BY <2>1, StretchesJoin
<1> QED
  BY <1>1, <1>2, <1>3, <1>4, <1>5, <1>6 DEF F, D, FirstWrite

\* Until the magic is sent, more padding may come.
LEMMA MorePadding ==
  ASSUME NEW s, NEW q \in Nat, NEW p \in Nat, NEW from \in Nat, NEW n \in Nat, from + n <= q + 2
  PROVE  Stretch(LegacyStream("obfs3", s, q), from, n) = Stretch(LegacyStream("obfs3", s, q + p), from, n)
<1> DEFINE F == LegacyStream("obfs3", s, q)
           G == LegacyStream("obfs3", s, q + p)
<1>1. StreamParts(F, "obfs3", s, q) /\ StreamParts(G, "obfs3", s, q + p)
  BY UnitsAre
<1> HIDE DEF F, G
<1>2. ASSUME NEW k \in 1 .. q + 2
      PROVE  F[k] = G[k]
  <2>1. CASE k = 1 \/ k = 2
    BY <1>1, <2>1 DEF StreamParts
  <2>2. CASE k > 2
    <3>1. k - 2 \in 1 .. q /\ k - 2 \in 1 .. q + p /\ 2 + (k - 2) = k
      BY <2>2
    <3>2. F[2 + (k - 2)] = G[2 + (k - 2)]
      BY <1>1, <3>1 DEF StreamParts
    <3> QED
      BY <3>1, <3>2
  <2> QED
    BY <2>1, <2>2
<1>3. \A i \in 1 .. n : from + i \in 1 .. q + 2
  OBVIOUS
<1>4. \A i \in 1 .. n : F[from + i] = G[from + i]
  BY <1>2, <1>3
<1>5. Stretch(F, from, n) = Stretch(G, from, n)
  BY <1>4 DEF Stretch
<1> QED
  BY <1>5 DEF F, G

\* What has to be shown of what is ahead after a step.
LEMMA AheadNext ==
  ASSUME LegacyTypes, NEW e \in Ends, version' = version,
         NEW q \in 0 .. MaxPadding, NEW m \in Nat, NEW n \in Nat, NEW t, NEW w,
         Taken(e, q)' = t, Written(Peer(e), q)' = w,
         txMagic'[Peer(e)] => q <= MaxPadding \div 2,
         rxMagic'[e] => m < q + 2,
         rxBuf'[e] = Stretch(LegacyStream(version, Peer(e), q), t, m),
         inFlight'[e] = Stretch(LegacyStream(version, Peer(e), q), t + m, n),
         t + m + n <= w,
         phase'[Peer(e)] # "closed" => t + m + n = w
  PROVE  AheadInv(e)'
<1>1. AheadIs(e, q, m, n)'
  BY Zenon DEF AheadIs
<1> QED
  BY <1>1, Zenon DEF AheadInv

\* What is ahead of an end does not depend on the rest.
LEMMA AheadFrame ==
  ASSUME LegacyTypes, NEW e \in Ends, AheadInv(e), version' = version,
         rxMagic'[e] = rxMagic[e], rxBuf'[e] = rxBuf[e],
         inFlight'[e] = inFlight[e], got'[e] = got[e],
         txMagic'[Peer(e)] = txMagic[Peer(e)], sent'[Peer(e)] = sent[Peer(e)],
         phase'[e] # "closed" => \/ phase'[e] = phase[e]
                                 \/ phase'[e] = "key" /\ phase[e] = "start",
         phase'[Peer(e)] = "start" <=> phase[Peer(e)] = "start",
         phase'[Peer(e)] # "closed" => phase[Peer(e)] # "closed"
  PROVE  AheadInv(e)'
<1> SUFFICES ASSUME phase'[e] # "closed"
             PROVE  \E q \in 0 .. MaxPadding : \E m, n \in Nat : AheadIs(e, q, m, n)'
  BY DEF AheadInv
<1>1. PICK q \in 0 .. MaxPadding, m \in Nat, n \in Nat : AheadIs(e, q, m, n)
  BY DEF AheadInv
<1>2. Written(Peer(e), q)' = Written(Peer(e), q)
  BY DEF Written
<1>3. Taken(e, q)' = Taken(e, q)
  BY DEF Taken
<1>4. AheadIs(e, q, m, n)'
  BY <1>1, <1>2, <1>3 DEF AheadIs
<1> QED
  BY <1>4

LEMMA InitLegacy == Obfs23Init => LegacyInv
<1> SUFFICES ASSUME Obfs23Init
             PROVE  LegacyInv
  OBVIOUS
<1>1. LegacyTypes
  BY DEF Obfs23Init, LegacyTypes
<1>2. ASSUME NEW e \in Ends
      PROVE  EndInv(e)
  <2>1. Peer(e) \in Ends
    BY PeerIs
  <2>2. got[e] = <<>> /\ Len(<<>>) = 0 /\ sent[Peer(e)] = 0
    BY <2>1, EmptySeq DEF Obfs23Init
  <2>3. <<>> = [i \in 1 .. 0 |-> i]
    OBVIOUS
  <2>4. got[e] = [i \in 1 .. Len(got[e]) |-> i] /\ Len(got[e]) <= sent[Peer(e)]
    BY <2>2, <2>3
  <2> QED
    BY <2>1, <2>4 DEF Obfs23Init, EndInv
<1>3. ASSUME NEW e \in Ends
      PROVE  AheadInv(e)
  <2>1. Peer(e) \in Ends
    BY PeerIs
  <2>2. 0 \in 0 .. MaxPadding /\ 0 \in Nat /\ 0 <= MaxPadding \div 2
    BY Obfs23Assumption
  <2>3. /\ <<>> = Stretch(LegacyStream(version, Peer(e), 0), 0, 0)
        /\ Taken(e, 0) = 0 /\ Written(Peer(e), 0) = 0
    BY <2>1, NoStretch DEF Obfs23Init, Taken, Written
  <2>4. AheadIs(e, 0, 0, 0)
    BY <2>1, <2>2, <2>3 DEF Obfs23Init, AheadIs
  <2> QED
    BY <2>2, <2>4 DEF AheadInv
<1> QED
  BY <1>1, <1>2, <1>3 DEF LegacyInv

LEMMA BothEnds ==
  ASSUME NEW e \in Ends, LegacyTypes', EndInv(e)', AheadInv(e)', EndInv(Peer(e))', AheadInv(Peer(e))'
  PROVE  LegacyInv'
<1>1. \A x \in Ends : x = e \/ x = Peer(e)
  BY PeerIs
<1> QED
  BY <1>1 DEF LegacyInv

\* What an end sends is what it has in the network, and the peer finds at the end
\* of what lies ahead of it.
LEMMA SendHelloLegacy ==
  ASSUME LegacyInv, NEW e \in Ends, NEW p \in 0 .. MaxPadding, SendHello(e, p)
  PROVE  LegacyInv'
<1> DEFINE r == Peer(e)
<1>1. r \in Ends /\ r # e /\ Peer(r) = e
  BY PeerIs
<1>2. /\ LegacyTypes /\ EndInv(e) /\ EndInv(r) /\ AheadInv(e) /\ AheadInv(r)
      /\ p \in Nat /\ p <= MaxPadding
  BY <1>1, Obfs23Assumption DEF LegacyInv
<1>3. /\ phase[e] = "start" /\ phase'[e] = "key" /\ phase'[r] = phase[r]
      /\ phase' = [phase EXCEPT ![e] = "key"]
      /\ version = "obfs3" => /\ p <= MaxPadding \div 2
                              /\ inFlight' = [inFlight EXCEPT ![r] = @ \o (Key(e) \o Padding(p))]
      /\ version = "obfs2" => inFlight' = [inFlight EXCEPT ![r] = @ \o ((Key(e) \o Header(p)) \o Padding(p))]
      /\ UNCHANGED <<version, rxMagic, txMagic, rxBuf, tx, rx, sent, got, broken>>
  BY <1>1, <1>2 DEF SendHello, Send, LegacyTypes
<1>4. LegacyTypes'
  BY <1>2, <1>3 DEF LegacyTypes
<1> HIDE DEF r
<1>5. EndInv(e)' /\ EndInv(r)'
  BY <1>1, <1>2, <1>3 DEF EndInv
<1>6. inFlight'[e] = inFlight[e]
  BY <1>1, <1>2, <1>3 DEF LegacyTypes
<1>7. AheadInv(e)'
  BY <1>1, <1>2, <1>3, <1>6, AheadFrame DEF r
<1>8. ASSUME phase[r] # "closed"
      PROVE  AheadInv(r)'
  <2> DEFINE F == LegacyStream(version, e, p)
             n == IF version = "obfs3" THEN 2 + p ELSE 3 + p
  <2>1. PICK q \in 0 .. MaxPadding, m \in Nat, k \in Nat : AheadIs(r, q, m, k)
    BY <1>2, <1>8 DEF AheadInv
  <2>2. Written(e, q) = 0 /\ q \in Nat
    BY <1>3 DEF Written
  <2>3. Taken(r, q) \in Nat /\ (Taken(r, q) = 0 => phase[r] \in {"start", "key"})
    BY <1>1, <1>2, <2>2 DEF Taken, LegacyTypes, Fixed
  <2>4. Taken(r, q) = 0 /\ m = 0 /\ k = 0 /\ phase[r] \in {"start", "key"}
    BY <1>1, <2>1, <2>2, <2>3 DEF AheadIs
  <2>5. rxBuf[r] = <<>> /\ inFlight[r] = <<>>
    <3>1. \A G : Stretch(G, 0, 0) = <<>> /\ Stretch(G, 0 + 0, 0) = <<>>
      BY NoStretch
    <3> QED
      BY <2>1, <2>4, <3>1 DEF AheadIs
  <2>6. n \in Nat /\ inFlight'[r] = <<>> \o Stretch(F, 0, n)
    <3>1. CASE version = "obfs3"
      <4>1. Key(e) \o Padding(p) = Stretch(F, 0, n)
        BY <1>2, <3>1, HelloIsStretch
      <4> HIDE DEF F, n
      <4>2. inFlight'[r] = inFlight[r] \o (Key(e) \o Padding(p))
        BY <1>1, <1>2, <1>3, <3>1 DEF LegacyTypes
      <4> QED
        BY <1>2, <2>5, <3>1, <4>1, <4>2 DEF n
    <3>2. CASE version = "obfs2"
      <4>1. (Key(e) \o Header(p)) \o Padding(p) = Stretch(F, 0, n)
        BY <1>2, <3>2, HelloIsStretch
      <4> HIDE DEF F, n
      <4>2. inFlight'[r] = inFlight[r] \o ((Key(e) \o Header(p)) \o Padding(p))
        BY <1>1, <1>2, <1>3, <3>2 DEF LegacyTypes
      <4> QED
        BY <1>2, <2>5, <3>2, <4>1, <4>2 DEF n
    <3> QED
      BY <1>2, <3>1, <3>2 DEF LegacyTypes
  <2>7. /\ n = (IF version = "obfs3" THEN 2 + p ELSE 3 + p)
        /\ Taken(r, p)' = 0
    BY <1>1, <1>3, <2>4 DEF Taken
  <2>8. Written(e, p)' = n
    <3>1. /\ txMagic'[e] = (version = "obfs3") /\ sent'[e] = 0 /\ phase'[e] # "start"
          /\ version' = version /\ version \in {"obfs2", "obfs3"} /\ txMagic'[e] \in BOOLEAN
      BY <1>1, <1>2, <1>3 DEF EndInv, LegacyTypes
    <3>2. /\ version = "obfs3" => txMagic'[e] /\ Written(e, p)' = p + 2
          /\ version = "obfs2" => ~txMagic'[e] /\ Written(e, p)' = p + 3 + 0
      BY <1>2, <3>1 DEF Written, Fixed
    <3>3. CASE version = "obfs3"
      BY <1>2, <3>2, <3>3
    <3>4. CASE version = "obfs2"
      BY <1>2, <3>2, <3>4
    <3> QED
      BY <3>1, <3>3, <3>4
  <2> HIDE DEF F, n
  <2>9. inFlight'[r] = Stretch(F, 0 + 0, n)
    <3>1. Stretch(F, 0, n) \in Seq(OnStream(F)) /\ 0 + 0 = 0
      BY <2>6, StretchIs, 0 \in Nat
    <3> QED
      BY <2>6, <3>1, ConcatEmptySeq
  <2>10. txMagic'[e] => p <= MaxPadding \div 2
    <3>1. txMagic'[e] = (version = "obfs3")
      BY <1>1, <1>2, <1>3 DEF EndInv
    <3> QED
      BY <1>3, <3>1
  <2>11. rxBuf'[r] = Stretch(F, 0, 0)
    <3>1. \A G : Stretch(G, 0, 0) = <<>>
      BY NoStretch, 0 \in Nat
    <3> QED
      BY <1>3, <2>5, <3>1
  <2>12. 0 < p + 2 /\ 0 + 0 + n <= n /\ 0 + 0 + n = n
    BY <1>2, <2>6
  <2> QED
    BY <1>1, <1>2, <1>3, <2>6, <2>7, <2>8, <2>9, <2>10, <2>11, <2>12, 0 \in Nat, AheadNext, Zenon DEF F
<1>9. AheadInv(r)'
  BY <1>3, <1>8 DEF AheadInv
<1> QED
  BY <1>4, <1>5, <1>7, <1>9, BothEnds DEF r

\* The streams of both ends are the same.
LEMMA KdfIs ==
  ASSUME NEW e \in Ends
  PROVE  /\ Stream(e, e, Peer(e)) = [key |-> KeysOf(e), at |-> 0]
         /\ Stream(Peer(e), e, Peer(e)) = [key |-> KeysOf(Peer(e)), at |-> 0]
<1>1. \/ e = "initiator" /\ Peer(e) = "responder"
      \/ e = "responder" /\ Peer(e) = "initiator"
  BY PeerIs DEF Ends
<1>2. "responder" # "initiator"
  OBVIOUS
<1> QED
  BY <1>1, <1>2 DEF Stream, KeysOf

\* What lies ahead, as parts of the stream.
LEMMA AheadCut ==
  ASSUME NEW e, NEW q \in Nat, NEW m \in Nat, NEW n \in Nat, AheadIs(e, q, m, n),
         Taken(e, q) \in Nat
  PROVE  /\ Len(rxBuf[e]) = m /\ Len(inFlight[e]) = n
         /\ \A k \in 0 .. n :
              /\ SubSeq(inFlight[e], 1, k) = Stretch(LegacyStream(version, Peer(e), q), Taken(e, q) + m, k)
              /\ SubSeq(inFlight[e], k + 1, Len(inFlight[e]))
                   = Stretch(LegacyStream(version, Peer(e), q), (Taken(e, q) + m) + k, n - k)
         /\ \A k \in 0 .. m :
              /\ SubSeq(rxBuf[e], 1, k) = Stretch(LegacyStream(version, Peer(e), q), Taken(e, q), k)
              /\ SubSeq(rxBuf[e], k + 1, Len(rxBuf[e]))
                   = Stretch(LegacyStream(version, Peer(e), q), Taken(e, q) + k, m - k)
<1> DEFINE F == LegacyStream(version, Peer(e), q)
           t == Taken(e, q)
<1>1. rxBuf[e] = Stretch(F, t, m) /\ inFlight[e] = Stretch(F, t + m, n)
  BY DEF AheadIs
<1> HIDE DEF F, t
<1>2. t \in Nat /\ t + m \in Nat
  BY DEF t
<1>3. Len(Stretch(F, t, m)) = m /\ Len(Stretch(F, t + m, n)) = n
  BY <1>2, StretchIs
<1>4. Len(rxBuf[e]) = m /\ Len(inFlight[e]) = n
  BY <1>1, <1>3, Zenon
<1>5. ASSUME NEW k \in 0 .. n
      PROVE  /\ SubSeq(inFlight[e], 1, k) = Stretch(F, t + m, k)
             /\ SubSeq(inFlight[e], k + 1, Len(inFlight[e])) = Stretch(F, (t + m) + k, n - k)
  <2>1. /\ SubSeq(Stretch(F, t + m, n), 1, k) = Stretch(F, t + m, k)
        /\ SubSeq(Stretch(F, t + m, n), k + 1, n) = Stretch(F, (t + m) + k, n - k)
    BY <1>2, StretchIsCut
  <2> QED
    BY <1>1, <1>4, <2>1, Zenon
<1>6. ASSUME NEW k \in 0 .. m
      PROVE  /\ SubSeq(rxBuf[e], 1, k) = Stretch(F, t, k)
             /\ SubSeq(rxBuf[e], k + 1, Len(rxBuf[e])) = Stretch(F, t + k, m - k)
  <2>1. /\ SubSeq(Stretch(F, t, m), 1, k) = Stretch(F, t, k)
        /\ SubSeq(Stretch(F, t, m), k + 1, m) = Stretch(F, t + k, m - k)
    BY <1>2, StretchIsCut
  <2> QED
    BY <1>1, <1>4, <2>1, Zenon
<1> QED
  BY <1>4, <1>5, <1>6, Zenon DEF F, t

LEMMA TakenIs ==
  ASSUME LegacyTypes, NEW e \in Ends, NEW q \in Nat
  PROVE  Taken(e, q) \in Nat /\ Fixed(version) \in {3, 4}
<1>1. Len(got[e]) \in Nat /\ Fixed(version) \in {3, 4}
  BY DEF LegacyTypes, Fixed
<1> QED
  BY <1>1 DEF Taken

LEMMA ReadKeyLegacy ==
  ASSUME LegacyInv, NEW e \in Ends, ReadKey(e)
  PROVE  LegacyInv'
<1> DEFINE r == Peer(e)
<1>1. r \in Ends /\ r # e /\ Peer(r) = e
  BY PeerIs
<1>2. /\ LegacyTypes /\ EndInv(e) /\ EndInv(r) /\ AheadInv(e) /\ AheadInv(r)
  BY <1>1 DEF LegacyInv
<1>3. /\ phase[e] = "key" /\ Len(inFlight[e]) >= 2
      /\ phase'[r] = phase[r] /\ inFlight'[r] = inFlight[r] /\ tx'[r] = tx[r] /\ rx'[r] = rx[r]
      /\ inFlight' = [inFlight EXCEPT ![e] = SubSeq(@, 3, Len(@))]
      /\ inFlight'[e] = SubSeq(inFlight[e], 3, Len(inFlight[e]))
      /\ version = "obfs3" => /\ phase' = [phase EXCEPT ![e] = "open"]
                              /\ phase'[e] = "open"
                              /\ Kdf(e, inFlight[e][1].of)
                              /\ tx'[e] = Stream(e, e, inFlight[e][1].of)
                              /\ rx'[e] = Stream(r, e, inFlight[e][1].of)
      /\ version = "obfs2" => /\ phase' = [phase EXCEPT ![e] = "header"]
                              /\ phase'[e] = "header"
                              /\ tx' = tx /\ rx' = rx
      /\ UNCHANGED <<version, rxMagic, txMagic, rxBuf, sent, got, broken>>
  BY <1>1, <1>2 DEF ReadKey, LegacyTypes, Kdf
<1>4. LegacyTypes'
  BY <1>2, <1>3 DEF LegacyTypes, Kdf
<1> HIDE DEF r
<1>5. PICK q \in 0 .. MaxPadding, m \in Nat, n \in Nat : AheadIs(e, q, m, n)
  BY <1>2, <1>3 DEF AheadInv
<1> DEFINE F == LegacyStream(version, r, q)
<1>6. q \in Nat /\ Taken(e, q) = 0 /\ 0 \in Nat
  BY <1>3, Obfs23Assumption DEF Taken
<1>7. m = 0 /\ n >= 2 /\ Len(inFlight[e]) = n
  <2>1. Len(rxBuf[e]) = m /\ Len(inFlight[e]) = n
    BY <1>5, <1>6, AheadCut
  <2>2. rxBuf[e] = <<>> /\ Len(<<>>) = 0
    BY <1>2, <1>3, EmptySeq DEF EndInv
  <2> QED
    BY <1>3, <2>1, <2>2
<1>8. inFlight[e] = Stretch(F, 0, n)
  BY <1>5, <1>6, <1>7 DEF AheadIs, r
<1>9. F[1].of = r
  <2>1. StreamParts(F, version, r, q)
    BY <1>2, <1>6, UnitsAre DEF LegacyTypes
  <2> QED
    BY <2>1 DEF StreamParts
<1>10. inFlight[e][1].of = r
  <2>1. \A i \in 1 .. n : Stretch(F, 0, n)[i] = F[0 + i]
    BY <1>6, StretchIs, ZenonT(60)
  <2> HIDE DEF F
  <2>2. 1 \in 1 .. n /\ 0 + 1 = 1
    BY <1>7
  <2> QED
    BY <1>8, <1>9, <2>1, <2>2
<1>11. EndInv(e)'
  <2>1. /\ Stream(e, e, r) = [key |-> KeysOf(e), at |-> 0]
        /\ Stream(r, e, r) = [key |-> KeysOf(r), at |-> 0]
    BY KdfIs DEF r
  <2>2. sent[e] = 0 /\ got[e] = <<>> /\ Len(got[e]) = 0
    BY <1>2, <1>3, EmptySeq DEF EndInv
  <2>3. phase'[e] = "open" => /\ tx'[e] = [key |-> KeysOf(e), at |-> sent'[e]]
                              /\ rx'[e] = [key |-> KeysOf(r), at |-> Len(got'[e])]
    <3>1. CASE version = "obfs3"
      BY <1>3, <1>10, <2>1, <2>2, <3>1
    <3>2. CASE version = "obfs2"
      BY <1>3, <3>2
    <3> QED
      BY <1>2, <3>1, <3>2 DEF LegacyTypes
  <2> QED
    BY <1>2, <1>3, <2>3 DEF EndInv, LegacyTypes, r
<1>12. EndInv(r)'
  BY <1>1, <1>2, <1>3 DEF EndInv
<1>13. AheadInv(e)'
  <2>1. Taken(e, q)' = 2
    <3>1. version = "obfs3" => rxMagic'[e]
      BY <1>2, <1>3 DEF EndInv
    <3> QED
      BY <1>2, <1>3, <3>1 DEF Taken, LegacyTypes
  <2>2. Written(r, q)' = Written(r, q)
    BY <1>3 DEF Written
  <2>3. inFlight'[e] = Stretch(F, 2 + 0, n - 2)
    <3>1. SubSeq(Stretch(F, 0, n), 2 + 1, n) = Stretch(F, 0 + 2, n - 2)
      <4>1. 2 \in 0 .. n
        BY <1>7
      <4> QED
        BY <1>6, <4>1, StretchIsCut
    <3>2. 2 + 1 = 3 /\ 0 + 2 = 2 /\ 2 + 0 = 2
      OBVIOUS
    <3> QED
      BY <1>3, <1>7, <1>8, <3>1, <3>2
  <2>4. rxBuf'[e] = Stretch(F, 2, 0)
    <3>1. \A G : Stretch(G, 2, 0) = <<>>
      BY NoStretch, 2 \in Nat
    <3> QED
      BY <1>2, <1>3, <3>1 DEF EndInv
  <2>5. /\ txMagic'[r] => q <= MaxPadding \div 2
        /\ rxMagic'[e] => 0 < q + 2
        /\ 2 + 0 + (n - 2) <= Written(r, q)
        /\ phase'[r] # "closed" => 2 + 0 + (n - 2) = Written(r, q)
        /\ n - 2 \in Nat
    <3>1. /\ txMagic[r] => q <= MaxPadding \div 2
          /\ 0 + 0 + n <= Written(r, q)
          /\ phase[r] # "closed" => 0 + 0 + n = Written(r, q)
      BY <1>5, <1>6, <1>7 DEF AheadIs, r
    <3>2. 0 + 0 + n = 2 + 0 + (n - 2) /\ n - 2 \in Nat /\ 0 < q + 2
      BY <1>6, <1>7
    <3> QED
      BY <1>3, <3>1, <3>2
  <2>6. version' = version /\ LegacyTypes /\ 0 \in Nat /\ q \in 0 .. MaxPadding
    BY <1>2, <1>3, <1>5
  <2> QED
    BY <2>1, <2>2, <2>3, <2>4, <2>5, <2>6, AheadNext, Zenon DEF F, r
<1>14. AheadInv(r)'
  <2>1. phase'[e] # "start" /\ phase[e] # "start" /\ phase[e] # "closed"
    BY <1>2, <1>3 DEF LegacyTypes
  <2>2. got' = got /\ rxMagic' = rxMagic /\ rxBuf' = rxBuf /\ txMagic' = txMagic /\ sent' = sent
        /\ version' = version
    BY <1>3
  <2> QED
    BY <1>1, <1>2, <1>3, <2>1, <2>2, AheadFrame
<1> QED
  BY <1>4, <1>11, <1>12, <1>13, <1>14, BothEnds DEF r

LEMMA ReadHeaderLegacy ==
  ASSUME LegacyInv, NEW e \in Ends, ReadHeader(e)
  PROVE  LegacyInv'
<1> DEFINE r == Peer(e)
<1>1. r \in Ends /\ r # e /\ Peer(r) = e
  BY PeerIs
<1>2. /\ LegacyTypes /\ EndInv(e) /\ EndInv(r) /\ AheadInv(e) /\ AheadInv(r)
  BY <1>1 DEF LegacyInv
<1>3. phase[e] = "header" /\ version = "obfs2" /\ inFlight[e] # <<>>
  BY <1>2 DEF ReadHeader, EndInv
<1> HIDE DEF r
<1>4. PICK q \in 0 .. MaxPadding, m \in Nat, n \in Nat : AheadIs(e, q, m, n)
  BY <1>2, <1>3 DEF AheadInv
<1> DEFINE F == LegacyStream(version, r, q)
<1>5. q \in Nat /\ Taken(e, q) = 2 /\ 2 \in Nat /\ 0 \in Nat /\ q <= MaxPadding
  BY <1>3, <1>4, Obfs23Assumption DEF Taken
<1>6. m = 0 /\ Len(inFlight[e]) = n
  <2>1. Len(rxBuf[e]) = m /\ Len(inFlight[e]) = n
    BY <1>4, <1>5, AheadCut
  <2>2. rxBuf[e] = <<>> /\ Len(<<>>) = 0
    BY <1>2, <1>3, EmptySeq DEF EndInv
  <2> QED
    BY <2>1, <2>2
<1>7. inFlight[e] = Stretch(F, 2, n)
  <2>1. inFlight[e] = Stretch(F, 2 + 0, n) /\ 2 + 0 = 2
    BY <1>4, <1>5, <1>6 DEF AheadIs, r
  <2> QED
    BY <2>1
<1>8. n > 0
  <2>1. CASE n = 0
    <3>1. \A G : Stretch(G, 2, 0) = <<>>
      BY NoStretch, 2 \in Nat
    <3> QED
      BY <1>3, <1>7, <2>1, <3>1
  <2> QED
    BY <1>4, <2>1
<1>9. F[3] = [is |-> "header", of |-> q]
  <2>1. StreamParts(F, version, r, q)
    BY <1>2, <1>5, UnitsAre DEF LegacyTypes
  <2> QED
    BY <1>3, <2>1 DEF StreamParts
<1> HIDE DEF F
<1>10. Head(inFlight[e]).of = q
  <2>1. /\ \A i \in 1 .. n : Stretch(F, 2, n)[i] = F[2 + i]
        /\ Stretch(F, 2, n) \in Seq(OnStream(F)) /\ Len(Stretch(F, 2, n)) = n
    BY <1>5, StretchIs
  <2>2. 1 \in 1 .. n /\ 2 + 1 = 3
    BY <1>8
  <2>3. inFlight[e][1] = F[3]
    BY <1>7, <2>1, <2>2
  <2>4. Head(inFlight[e]) = inFlight[e][1]
    BY <1>3, <1>7, <2>1
  <2> QED
    BY <1>9, <2>3, <2>4
<1>11. /\ n > q
       /\ phase'[r] = phase[r] /\ inFlight'[r] = inFlight[r] /\ tx'[r] = tx[r] /\ rx'[r] = rx[r]
       /\ inFlight' = [inFlight EXCEPT ![e] = SubSeq(@, q + 2, Len(@))]
       /\ inFlight'[e] = SubSeq(inFlight[e], q + 2, Len(inFlight[e]))
       /\ phase' = [phase EXCEPT ![e] = "open"]
       /\ phase'[e] = "open"
       /\ Kdf(e, r)
       /\ tx'[e] = Stream(e, e, r)
       /\ rx'[e] = Stream(r, e, r)
       /\ UNCHANGED <<version, rxMagic, txMagic, rxBuf, sent, got, broken>>
  <2>1. ~(q > MaxPadding)
    BY <1>4, <1>5, Obfs23Assumption
  <2>2. /\ n > q
        /\ inFlight' = [inFlight EXCEPT ![e] = SubSeq(@, q + 2, Len(@))]
        /\ phase' = [phase EXCEPT ![e] = "open"]
        /\ Kdf(e, r)
        /\ UNCHANGED <<version, rxMagic, txMagic, rxBuf, sent, got, broken>>
    BY <1>6, <1>10, <2>1 DEF ReadHeader, r
  <2>3. /\ tx' = [tx EXCEPT ![e] = Stream(e, e, r)]
        /\ rx' = [rx EXCEPT ![e] = Stream(r, e, r)]
    BY <2>2 DEF Kdf, r
  <2> QED
    BY <1>1, <1>2, <2>2, <2>3 DEF LegacyTypes
<1>12. LegacyTypes'
  BY <1>2, <1>11 DEF LegacyTypes, Kdf
<1>13. EndInv(e)'
  <2>1. /\ Stream(e, e, r) = [key |-> KeysOf(e), at |-> 0]
        /\ Stream(r, e, r) = [key |-> KeysOf(r), at |-> 0]
    BY KdfIs DEF r
  <2>2. sent[e] = 0 /\ got[e] = <<>> /\ Len(got[e]) = 0
    BY <1>2, <1>3, EmptySeq DEF EndInv
  <2>3. /\ tx'[e] = [key |-> KeysOf(e), at |-> sent'[e]]
        /\ rx'[e] = [key |-> KeysOf(r), at |-> Len(got'[e])]
    BY <1>11, <2>1, <2>2
  <2> QED
    BY <1>2, <1>3, <1>11, <2>3 DEF EndInv, r
<1>14. EndInv(r)'
  BY <1>1, <1>2, <1>11 DEF EndInv
<1>15. AheadInv(e)'
  <2>1. Taken(e, q)' = q + 3
    <3>1. ~rxMagic'[e] /\ got'[e] = <<>> /\ Len(<<>>) = 0
      BY <1>2, <1>3, <1>11, EmptySeq DEF EndInv
    <3>2. Taken(e, q)' = q + 3 + 0
      BY <1>3, <1>11, <3>1 DEF Taken, Fixed
    <3> QED
      BY <1>5, <3>2
  <2>2. Written(r, q)' = Written(r, q)
    BY <1>11 DEF Written
  <2>3. inFlight'[e] = Stretch(F, (q + 3) + 0, n - (q + 1))
    <3>1. SubSeq(Stretch(F, 2, n), (q + 1) + 1, n) = Stretch(F, 2 + (q + 1), n - (q + 1))
      <4>1. q + 1 \in 0 .. n
        BY <1>5, <1>11
      <4> QED
        BY <1>5, <4>1, StretchIsCut
    <3>2. (q + 1) + 1 = q + 2 /\ 2 + (q + 1) = (q + 3) + 0
      BY <1>5
    <3> QED
      BY <1>6, <1>7, <1>11, <3>1, <3>2
  <2>4. rxBuf'[e] = Stretch(F, q + 3, 0)
    <3>1. \A G : Stretch(G, q + 3, 0) = <<>>
      BY <1>5, NoStretch, q + 3 \in Nat
    <3> QED
      BY <1>2, <1>3, <1>11, <3>1 DEF EndInv
  <2>5. /\ txMagic'[r] => q <= MaxPadding \div 2
        /\ rxMagic'[e] => 0 < q + 2
        /\ (q + 3) + 0 + (n - (q + 1)) <= Written(r, q)
        /\ phase'[r] # "closed" => (q + 3) + 0 + (n - (q + 1)) = Written(r, q)
        /\ n - (q + 1) \in Nat
    <3>1. /\ txMagic[r] => q <= MaxPadding \div 2
          /\ 2 + 0 + n <= Written(r, q)
          /\ phase[r] # "closed" => 2 + 0 + n = Written(r, q)
      BY <1>4, <1>5, <1>6 DEF AheadIs, r
    <3>2. 2 + 0 + n = (q + 3) + 0 + (n - (q + 1)) /\ n - (q + 1) \in Nat /\ 0 < q + 2
      BY <1>5, <1>11
    <3> QED
      BY <1>11, <3>1, <3>2
  <2>6. version' = version /\ LegacyTypes /\ 0 \in Nat /\ q \in 0 .. MaxPadding
    BY <1>2, <1>4, <1>11
  <2> QED
    BY <2>1, <2>2, <2>3, <2>4, <2>5, <2>6, AheadNext, Zenon DEF F, r
<1>16. AheadInv(r)'
  <2>1. phase'[e] # "start" /\ phase[e] # "start" /\ phase[e] # "closed"
    BY <1>3, <1>11
  <2>2. got' = got /\ rxMagic' = rxMagic /\ rxBuf' = rxBuf /\ txMagic' = txMagic /\ sent' = sent
        /\ version' = version
    BY <1>11
  <2> QED
    BY <1>1, <1>2, <1>11, <2>1, <2>2, AheadFrame
<1> QED
  BY <1>12, <1>13, <1>14, <1>15, <1>16, BothEnds DEF r

\* What the network loses is what was sent last.
LEMMA BreakLegacy ==
  ASSUME LegacyInv, NEW e \in Ends, Break(e)
  PROVE  LegacyInv'
<1> DEFINE r == Peer(e)
<1>1. r \in Ends /\ r # e /\ Peer(r) = e
  BY PeerIs
<1>2. /\ LegacyTypes /\ EndInv(e) /\ EndInv(r) /\ AheadInv(r)
  BY <1>1 DEF LegacyInv
<1>3. /\ phase'[e] = "closed" /\ phase'[r] = phase[r] /\ broken' = TRUE
      /\ phase' = [phase EXCEPT ![e] = "closed"]
      /\ UNCHANGED <<version, rxMagic, txMagic, rxBuf, tx, rx, sent, got>>
  BY <1>1, <1>2 DEF Break, LegacyTypes
<1>4. PICK kept \in 0 .. Len(inFlight[r]) : inFlight' = [inFlight EXCEPT ![r] = SubSeq(@, 1, kept)]
  BY DEF Break
<1>5. inFlight'[r] = SubSeq(inFlight[r], 1, kept)
  BY <1>1, <1>2, <1>4 DEF LegacyTypes
<1>6. LegacyTypes'
  BY <1>2, <1>3, <1>4 DEF LegacyTypes
<1> HIDE DEF r
<1>7. EndInv(e)' /\ EndInv(r)'
  BY <1>1, <1>2, <1>3 DEF EndInv
<1>8. AheadInv(e)'
  BY <1>3 DEF AheadInv
<1>9. ASSUME phase[r] # "closed"
      PROVE  AheadInv(r)'
  <2>1. PICK q \in 0 .. MaxPadding, m \in Nat, n \in Nat : AheadIs(r, q, m, n)
    BY <1>2, <1>9 DEF AheadInv
  <2>2. q \in Nat /\ q \in 0 .. MaxPadding /\ m \in Nat /\ n \in Nat
    BY <2>1, Obfs23Assumption
  <2> DEFINE F == LegacyStream(version, e, q)
             t == Taken(r, q)
  <2>3. t \in Nat
    BY <1>1, <1>2, <2>2, TakenIs
  <2>4. Len(inFlight[r]) = n
    BY <2>1, <2>2, <2>3, AheadCut
  <2>5. kept \in 0 .. n /\ kept \in Nat /\ kept <= n
    BY <1>4, <2>2, <2>4
  <2>6. inFlight'[r] = Stretch(F, t + m, kept)
    <3>1. SubSeq(inFlight[r], 1, kept) = Stretch(LegacyStream(version, Peer(r), q), t + m, kept)
      BY <2>1, <2>2, <2>3, <2>5, AheadCut
    <3> QED
      BY <1>1, <1>5, <3>1, Zenon
  <2>7. Taken(r, q)' = t
    BY <1>1, <1>3 DEF Taken
  <2>8. /\ Written(e, q) \in Nat /\ Written(e, q)' \in Nat
        /\ Written(e, q) <= Written(e, q)'
    <3>1. Fixed(version) \in Nat /\ sent[e] \in Nat /\ sent' = sent /\ txMagic' = txMagic
          /\ version' = version /\ phase'[e] # "start"
      BY <1>2, <1>3 DEF Fixed, LegacyTypes
    <3> QED
      BY <2>2, <3>1 DEF Written
  <2>9. /\ t + m + n <= Written(e, q)
        /\ txMagic[e] => q <= MaxPadding \div 2
        /\ rxMagic[r] => m < q + 2
        /\ rxBuf[r] = Stretch(F, t, m)
    BY <1>1, <2>1 DEF AheadIs
  <2>10. t + m + kept <= Written(e, q)'
    BY <2>2, <2>3, <2>5, <2>8, <2>9
  <2>11. rxMagic' = rxMagic /\ rxBuf' = rxBuf /\ txMagic' = txMagic /\ version' = version
    BY <1>3
  <2> HIDE DEF t, F
  <2>12. /\ txMagic'[e] => q <= MaxPadding \div 2
         /\ rxMagic'[r] => m < q + 2
         /\ rxBuf'[r] = Stretch(F, t, m)
         /\ phase'[e] # "closed" => t + m + kept = Written(e, q)'
    BY <1>3, <2>9, <2>11
  <2> QED
    BY <1>1, <1>2, <2>2, <2>5, <2>6, <2>7, <2>10, <2>11, <2>12, AheadNext, Zenon DEF F
<1>10. AheadInv(r)'
  BY <1>3, <1>9 DEF AheadInv
<1> QED
  BY <1>6, <1>7, <1>8, <1>10, BothEnds DEF r

\* The key stream at the right place gives the plaintext.
LEMMA OpenedIs ==
  ASSUME NEW v \in {"obfs2", "obfs3"}, NEW s, NEW q \in Nat, NEW g \in Nat, NEW n \in Nat
  PROVE  Opened([key |-> KeysOf(s), at |-> g], Stretch(LegacyStream(v, s, q), (q + Fixed(v)) + g, n))
           = [i \in 1 .. n |-> g + i]
<1> DEFINE F == LegacyStream(v, s, q)
           k == [key |-> KeysOf(s), at |-> g]
           u == Stretch(F, (q + Fixed(v)) + g, n)
<1>1. Sealed(k, g, n) = u
  BY SealedIsStretch
<1>2. \A i \in 1 .. n : u[i] = [is |-> "data", of |-> <<KeysOf(s), g + i - 1, g + i>>]
  BY <1>1 DEF Sealed
<1>3. Len(u) = n
  <2>1. (q + Fixed(v)) + g \in Nat
    BY DEF Fixed
  <2> QED
    BY <2>1, StretchIs
<1> HIDE DEF u
<1>4. ASSUME NEW i \in 1 .. n
      PROVE  /\ u[i].is = "data" /\ u[i].of[1] = k.key /\ u[i].of[2] = k.at + i - 1
             /\ u[i].of[3] = g + i
  <2>1. u[i] = [is |-> "data", of |-> <<KeysOf(s), g + i - 1, g + i>>]
    BY <1>2
  <2>2. k.key = KeysOf(s) /\ k.at = g
    OBVIOUS
  <2>3. u[i].of = <<KeysOf(s), g + i - 1, g + i>> /\ u[i].is = "data"
    BY <2>1
  <2> HIDE DEF k
  <2> QED
    BY <2>2, <2>3
<1> HIDE DEF k
<1>5. Opened(k, u) = [i \in 1 .. n |-> g + i]
  BY <1>3, <1>4 DEF Opened
<1> QED
  BY <1>5 DEF k, u

\* Counting on.
LEMMA CountingOn ==
  ASSUME NEW g \in Nat, NEW n \in Nat
  PROVE  /\ [i \in 1 .. g |-> i] \o [i \in 1 .. n |-> g + i] = [i \in 1 .. g + n |-> i]
         /\ Len([i \in 1 .. g + n |-> i]) = g + n
<1> DEFINE F == [k \in Nat |-> k]
<1>1. ASSUME NEW from \in Nat, NEW k \in Nat
      PROVE  Stretch(F, from, k) = [i \in 1 .. k |-> from + i]
  BY DEF Stretch
<1>2. /\ Stretch(F, 0, g) = [i \in 1 .. g |-> i] /\ Stretch(F, g, n) = [i \in 1 .. n |-> g + i]
      /\ Stretch(F, 0, g + n) = [i \in 1 .. g + n |-> i]
  <2>1. \A k \in Nat : [i \in 1 .. k |-> 0 + i] = [i \in 1 .. k |-> i]
    OBVIOUS
  <2>2. g + n \in Nat /\ 0 \in Nat
    OBVIOUS
  <2> QED
    BY <1>1, <2>1, <2>2
<1> HIDE DEF F
<1>3. Stretch(F, 0, g) \o Stretch(F, 0 + g, n) = Stretch(F, 0, g + n)
  <2>1. 0 \in Nat
    OBVIOUS
  <2> QED
    BY <2>1, StretchesJoin
<1>4. Len(Stretch(F, 0, g + n)) = g + n
  BY StretchIs, 0 \in Nat, g + n \in Nat
<1>5. 0 + g = g
  OBVIOUS
<1> QED
  BY <1>2, <1>3, <1>4, <1>5, Zenon

\* The receiver is never ahead of the data.
LEMMA DataAhead ==
  ASSUME LegacyTypes, NEW e \in Ends, EndInv(Peer(e)), Peer(e) \in Ends,
         NEW q \in Nat, NEW m \in Nat, NEW n \in Nat, AheadIs(e, q, m, n),
         phase[e] = "open", ~rxMagic[e]
  PROVE  /\ Taken(e, q) = (q + Fixed(version)) + Len(got[e])
         /\ Written(Peer(e), q) = (q + Fixed(version)) + sent[Peer(e)]
         /\ Len(got[e]) + m + n <= sent[Peer(e)]
         /\ phase[Peer(e)] # "closed" => Len(got[e]) + m + n = sent[Peer(e)]
<1> DEFINE r == Peer(e)
<1> HIDE DEF r
<1>1. /\ Len(got[e]) \in Nat /\ Fixed(version) \in {3, 4} /\ sent[r] \in Nat
      /\ version = "obfs3" => Fixed(version) = 4
      /\ version = "obfs2" => ~txMagic[r]
      /\ version \in {"obfs2", "obfs3"}
  BY DEF LegacyTypes, Fixed, EndInv, r
<1>2. Taken(e, q) = (q + Fixed(version)) + Len(got[e])
  BY DEF Taken
<1>3. /\ Taken(e, q) + m + n <= Written(r, q)
      /\ phase[r] # "closed" => Taken(e, q) + m + n = Written(r, q)
  BY DEF AheadIs, r
<1>4. /\ phase[r] = "start" => Written(r, q) = 0
      /\ txMagic[r] /\ phase[r] # "start" => Written(r, q) = q + 2
      /\ ~txMagic[r] /\ phase[r] # "start" => Written(r, q) = (q + Fixed(version)) + sent[r]
  BY DEF Written
<1> DEFINE t == Taken(e, q)
           w == Written(r, q)
           d == q + Fixed(version)
           g == Len(got[e])
           k == sent[r]
<1>5. /\ d \in Nat /\ g \in Nat /\ k \in Nat /\ t = d + g /\ t \in Nat /\ d > q + 2
      /\ t + m + n <= w
      /\ phase[r] # "closed" => t + m + n = w
  BY <1>1, <1>2, <1>3
<1>6. w = d + k
  <2> HIDE DEF t, w, d, k, g
  <2>1. phase[r] # "start"
    <3>1. CASE phase[r] = "start"
      <4>1. w = 0
        BY <1>4, <3>1 DEF w
      <4> QED
        BY <1>5, <4>1
    <3> QED
      BY <3>1
  <2>2. ~txMagic[r]
    <3>1. CASE txMagic[r]
      <4>1. w = q + 2
        BY <1>4, <2>1, <3>1 DEF w
      <4> QED
        BY <1>5, <4>1
    <3> QED
      BY <3>1
  <2> QED
    BY <1>4, <2>1, <2>2 DEF w, d, k
<1> HIDE DEF t, w, d, k, g
<1>7. g + m + n <= k /\ (phase[r] # "closed" => g + m + n = k)
  BY <1>5, <1>6
<1> QED
  BY <1>2, <1>6, <1>7 DEF r, t, w, d, k, g

LEMMA Read23Legacy ==
  ASSUME LegacyInv, NEW e \in Ends, NEW n \in 1 .. MaxSent, Read23(e, n)
  PROVE  LegacyInv'
<1> DEFINE r == Peer(e)
<1>1. r \in Ends /\ r # e /\ Peer(r) = e
  BY PeerIs
<1>2. /\ LegacyTypes /\ EndInv(e) /\ EndInv(r) /\ AheadInv(e) /\ AheadInv(r) /\ n \in Nat /\ n > 0
  BY <1>1, Obfs23Assumption DEF LegacyInv
<1> DEFINE g == Len(got[e])
           from == IF rxBuf[e] # <<>> THEN rxBuf[e] ELSE inFlight[e]
<1>3. /\ phase[e] = "open" /\ ~rxMagic[e]
      /\ n <= Len(from)
      /\ got' = [got EXCEPT ![e] = @ \o Opened(rx[e], SubSeq(from, 1, n))]
      /\ rx' = [rx EXCEPT ![e].at = @ + n]
      /\ UNCHANGED <<version, phase, rxMagic, txMagic, tx, sent, broken>>
  BY DEF Read23
<1>4. /\ rxBuf[e] # <<>> => /\ rxBuf' = [rxBuf EXCEPT ![e] = SubSeq(@, n + 1, Len(@))]
                            /\ inFlight' = inFlight
      /\ rxBuf[e] = <<>> => /\ inFlight' = [inFlight EXCEPT ![e] = SubSeq(@, n + 1, Len(@))]
                            /\ rxBuf' = rxBuf
  BY DEF Read23
<1> HIDE DEF r
<1>5. PICK q \in 0 .. MaxPadding, m \in Nat, k \in Nat : AheadIs(e, q, m, k)
  BY <1>2, <1>3 DEF AheadInv
<1>6. q \in Nat /\ q \in 0 .. MaxPadding /\ m \in Nat /\ k \in Nat /\ g \in Nat
      /\ Fixed(version) \in Nat /\ version \in {"obfs2", "obfs3"}
  BY <1>2, <1>5, Obfs23Assumption DEF LegacyTypes, Fixed
<1> DEFINE F == LegacyStream(version, r, q)
           t == (q + Fixed(version)) + g
<1>7. /\ Taken(e, q) = t
      /\ Written(r, q) = (q + Fixed(version)) + sent[r]
      /\ g + m + k <= sent[r]
      /\ phase[r] # "closed" => g + m + k = sent[r]
  BY <1>1, <1>2, <1>3, <1>5, <1>6, DataAhead DEF r
<1>8. t \in Nat /\ sent[r] \in Nat
  BY <1>1, <1>2, <1>6 DEF LegacyTypes
<1>9. Len(rxBuf[e]) = m /\ Len(inFlight[e]) = k
  BY <1>5, <1>6, <1>7, <1>8, AheadCut
<1> HIDE DEF t, F, g
<1>10. rxBuf[e] = Stretch(F, t, m) /\ inFlight[e] = Stretch(F, t + m, k)
  BY <1>5, <1>7 DEF AheadIs, F, r
<1>11. (rxBuf[e] = <<>>) <=> (m = 0)
  <2>1. \A G : Stretch(G, t, 0) = <<>>
    BY <1>8, NoStretch
  <2>2. m = 0 => rxBuf[e] = <<>>
    BY <1>10, <2>1
  <2>3. Len(<<>>) = 0
    BY EmptySeq
  <2> QED
    BY <1>9, <2>2, <2>3
\* What is left, in the buffer and in the network.
<1> DEFINE M == IF m = 0 THEN 0 ELSE m - n
           K == IF m = 0 THEN k - n ELSE k
<1>12. /\ SubSeq(from, 1, n) = Stretch(F, t, n)
       /\ rxBuf'[e] = Stretch(F, t + n, M) /\ inFlight'[e] = Stretch(F, (t + n) + M, K)
       /\ M \in Nat /\ K \in Nat /\ n + M + K = m + k
       /\ inFlight'[r] = inFlight[r] /\ rxBuf'[r] = rxBuf[r]
       /\ inFlight' = [x \in Ends |-> inFlight'[x]] /\ rxBuf' = [x \in Ends |-> rxBuf'[x]]
  <2>1. CASE m = 0
    <3>1. n <= k /\ from = inFlight[e] /\ inFlight[e] = Stretch(F, t, k)
      <4>1. t + 0 = t
        BY <1>8
      <4> QED
        BY <1>3, <1>9, <1>10, <1>11, <2>1, <4>1
    <3>2. /\ SubSeq(Stretch(F, t, k), 1, n) = Stretch(F, t, n)
          /\ SubSeq(Stretch(F, t, k), n + 1, k) = Stretch(F, t + n, k - n)
      <4>1. n \in 0 .. k
        BY <1>2, <3>1
      <4> QED
        BY <1>6, <1>8, <4>1, StretchIsCut
    <3>3. /\ inFlight' = [inFlight EXCEPT ![e] = SubSeq(@, n + 1, Len(@))] /\ rxBuf' = rxBuf
          /\ rxBuf[e] = <<>>
      BY <1>4, <1>11, <2>1
    <3>4. inFlight'[e] = SubSeq(inFlight[e], n + 1, Len(inFlight[e])) /\ inFlight'[r] = inFlight[r]
          /\ inFlight' = [x \in Ends |-> inFlight'[x]] /\ rxBuf' = [x \in Ends |-> rxBuf'[x]]
      BY <1>1, <1>2, <3>3 DEF LegacyTypes
    <3>5. <<>> = Stretch(F, t + n, 0)
      <4>1. t + n \in Nat
        BY <1>2, <1>8
      <4> QED
        BY <4>1, NoStretch
    <3>6. M = 0 /\ K = k - n /\ (t + n) + 0 = t + n /\ k - n \in Nat /\ n + 0 + (k - n) = m + k
      BY <1>2, <1>6, <1>8, <2>1, <3>1
    <3> HIDE DEF M, K, from
    <3>7. inFlight'[e] = Stretch(F, t + n, k - n)
      BY <1>9, <3>1, <3>2, <3>4
    <3>8. SubSeq(from, 1, n) = Stretch(F, t, n)
      BY <3>1, <3>2
    <3> QED
      BY <3>3, <3>4, <3>5, <3>6, <3>7, <3>8
  <2>2. CASE m # 0
    <3>1. n <= m /\ from = rxBuf[e]
      BY <1>3, <1>9, <1>11, <2>2
    <3>2. /\ SubSeq(Stretch(F, t, m), 1, n) = Stretch(F, t, n)
          /\ SubSeq(Stretch(F, t, m), n + 1, m) = Stretch(F, t + n, m - n)
      <4>1. n \in 0 .. m
        BY <1>2, <3>1
      <4> QED
        BY <1>6, <1>8, <4>1, StretchIsCut
    <3>3. /\ rxBuf' = [rxBuf EXCEPT ![e] = SubSeq(@, n + 1, Len(@))] /\ inFlight' = inFlight
      BY <1>4, <1>11, <2>2
    <3>4. rxBuf'[e] = SubSeq(rxBuf[e], n + 1, Len(rxBuf[e])) /\ rxBuf'[r] = rxBuf[r]
          /\ inFlight' = [x \in Ends |-> inFlight'[x]] /\ rxBuf' = [x \in Ends |-> rxBuf'[x]]
      BY <1>1, <1>2, <3>3 DEF LegacyTypes
    <3>5. M = m - n /\ K = k /\ (t + n) + (m - n) = t + m /\ m - n \in Nat /\ n + (m - n) + k = m + k
      BY <1>2, <1>6, <1>8, <2>2, <3>1
    <3> HIDE DEF M, K, from
    <3>6. rxBuf'[e] = Stretch(F, t + n, m - n)
      BY <1>9, <1>10, <3>2, <3>4
    <3>7. SubSeq(from, 1, n) = Stretch(F, t, n)
      BY <1>10, <3>1, <3>2
    <3> QED
      BY <1>6, <1>10, <3>3, <3>4, <3>5, <3>6, <3>7
  <2> QED
    BY <2>1, <2>2
<1> HIDE DEF M, K, from
<1>13. got'[e] = [i \in 1 .. g + n |-> i] /\ Len(got'[e]) = g + n
  <2>1. got[e] = [i \in 1 .. g |-> i]
    BY <1>2 DEF EndInv, g
  <2>2. rx[e] = [key |-> KeysOf(r), at |-> g]
    BY <1>2, <1>3 DEF EndInv, g, r
  <2>3. Opened(rx[e], Stretch(F, t, n)) = [i \in 1 .. n |-> g + i]
    BY <1>2, <1>6, <2>2, OpenedIs DEF F, t
  <2>4. got'[e] = got[e] \o Opened(rx[e], SubSeq(from, 1, n))
    BY <1>2, <1>3 DEF LegacyTypes
  <2>5. got'[e] = [i \in 1 .. g |-> i] \o [i \in 1 .. n |-> g + i]
    BY <1>12, <2>1, <2>3, <2>4, Zenon
  <2>6. /\ [i \in 1 .. g |-> i] \o [i \in 1 .. n |-> g + i] = [i \in 1 .. g + n |-> i]
        /\ Len([i \in 1 .. g + n |-> i]) = g + n
    BY <1>2, <1>6, CountingOn
  <2> QED
    BY <2>5, <2>6, Zenon
<1>14. g + n \in Nat /\ g + n <= sent[r]
  <2>1. M \in Nat /\ K \in Nat /\ n + M + K = m + k
    BY <1>12
  <2>2. g + m + k <= sent[r]
    BY <1>7
  <2> QED
    BY <1>2, <1>6, <1>8, <2>1, <2>2
<1>15. /\ got'[r] = got[r] /\ rx'[r] = rx[r]
       /\ rx'[e] = [key |-> KeysOf(r), at |-> g + n]
       /\ got' = [x \in Ends |-> got'[x]] /\ rx' = [x \in Ends |-> rx'[x]]
  <2>1. rx[e] = [key |-> KeysOf(r), at |-> g]
    BY <1>2, <1>3 DEF EndInv, g, r
  <2>2. rx' = [rx EXCEPT ![e].at = @ + n] /\ rx = [x \in Ends |-> rx[x]] /\ got = [x \in Ends |-> got[x]]
    BY <1>2, <1>3 DEF LegacyTypes
  <2>3. rx'[e] = [rx[e] EXCEPT !.at = @ + n] /\ rx'[r] = rx[r] /\ rx' = [x \in Ends |-> rx'[x]]
    BY <1>1, <2>2
  <2>4. got'[r] = got[r] /\ got' = [x \in Ends |-> got'[x]]
    BY <1>1, <1>3, <2>2
  <2> QED
    BY <2>1, <2>3, <2>4
<1>16. LegacyTypes'
  <2>1. \A x \in Ends : x = e \/ x = r
    BY PeerIs DEF r
  <2>2. \A x \in Ends : Len(got'[x]) \in Nat
    BY <1>2, <1>13, <1>14, <1>15, <2>1 DEF LegacyTypes
  <2> QED
    BY <1>2, <1>3, <1>12, <1>15, <2>2 DEF LegacyTypes
<1>17. EndInv(e)'
  <2>1. version = "obfs2" => rxBuf'[e] = <<>>
    <3>1. version = "obfs2" => rxBuf[e] = <<>>
      BY <1>2 DEF EndInv
    <3> QED
      BY <1>4, <3>1
  <2> QED
    BY <1>1, <1>2, <1>3, <1>13, <1>14, <1>15, <2>1 DEF EndInv, r
<1>18. EndInv(r)'
  BY <1>1, <1>2, <1>3, <1>12, <1>15 DEF EndInv
<1>19. AheadInv(e)'
  <2>1. Taken(e, q)' = t + n
    <3>1. Taken(e, q)' = (q + Fixed(version)) + (g + n)
      BY <1>3, <1>13 DEF Taken
    <3>2. (q + Fixed(version)) + (g + n) = t + n
      BY <1>2, <1>6 DEF t
    <3> QED
      BY <3>1, <3>2
  <2>2. Written(r, q)' = Written(r, q)
    BY <1>3 DEF Written
  <2>3. /\ (t + n) + M + K <= Written(r, q)
        /\ phase'[r] # "closed" => (t + n) + M + K = Written(r, q)
    <3>1. (t + n) + M + K = (q + Fixed(version)) + (g + m + k)
      <4>1. M \in Nat /\ K \in Nat /\ n + M + K = m + k
        BY <1>12
      <4> QED
        BY <1>2, <1>6, <4>1 DEF t
    <3> QED
      BY <1>3, <1>6, <1>7, <1>8, <3>1
  <2>4. /\ txMagic'[r] => q <= MaxPadding \div 2
        /\ ~rxMagic'[e] /\ version' = version /\ LegacyTypes
    BY <1>2, <1>3, <1>5 DEF AheadIs, r
  <2> QED
    BY <1>6, <1>12, <2>1, <2>2, <2>3, <2>4, AheadNext, Zenon DEF F, r
<1>20. AheadInv(r)'
  <2>1. got'[r] = got[r] /\ rxMagic' = rxMagic /\ txMagic' = txMagic /\ sent' = sent
        /\ version' = version /\ phase' = phase
    BY <1>3, <1>15
  <2> QED
    BY <1>1, <1>2, <1>12, <2>1, AheadFrame
<1> QED
  BY <1>16, <1>17, <1>18, <1>19, <1>20, BothEnds DEF r

LEMMA Write23Legacy ==
  ASSUME LegacyInv, NEW e \in Ends, NEW n \in 1 .. MaxSent, NEW p \in 0 .. MaxPadding,
         Write23(e, n, p)
  PROVE  LegacyInv'
<1> DEFINE r == Peer(e)
           units == (IF txMagic[e] THEN Padding(p) \o Magic(e) ELSE <<>>) \o Sealed(tx[e], sent[e], n)
<1>1. r \in Ends /\ r # e /\ Peer(r) = e
  BY PeerIs
<1>2. /\ LegacyTypes /\ EndInv(e) /\ EndInv(r) /\ AheadInv(e) /\ AheadInv(r)
      /\ n \in Nat /\ n > 0 /\ p \in Nat /\ MaxPadding \in Nat
  BY <1>1, Obfs23Assumption DEF LegacyInv
<1>3. /\ phase[e] = "open"
      /\ p <= IF txMagic[e] THEN MaxPadding \div 2 ELSE 0
      /\ inFlight' = [inFlight EXCEPT ![r] = @ \o units]
      /\ txMagic' = [txMagic EXCEPT ![e] = FALSE]
      /\ tx' = [tx EXCEPT ![e].at = @ + n]
      /\ sent' = [sent EXCEPT ![e] = @ + n]
      /\ UNCHANGED <<version, phase, rxMagic, rxBuf, rx, got, broken>>
  BY DEF Write23, Send
<1> HIDE DEF r, units
<1>4. /\ inFlight'[r] = inFlight[r] \o units /\ inFlight'[e] = inFlight[e]
      /\ txMagic'[e] = FALSE /\ txMagic'[r] = txMagic[r]
      /\ sent'[e] = sent[e] + n /\ sent'[r] = sent[r] /\ sent[e] \in Nat /\ sent'[e] \in Nat
      /\ inFlight' = [x \in Ends |-> inFlight'[x]]
      /\ txMagic' \in [Ends -> BOOLEAN] /\ sent' \in [Ends -> Nat]
  <2>1. /\ inFlight = [x \in Ends |-> inFlight[x]]
        /\ txMagic \in [Ends -> BOOLEAN] /\ sent \in [Ends -> Nat]
    BY <1>2 DEF LegacyTypes
  <2>2. sent[e] + n \in Nat
    BY <1>2, <2>1
  <2> QED
    BY <1>1, <1>3, <2>1, <2>2
<1>5. tx[e] = [key |-> KeysOf(e), at |-> sent[e]]
  BY <1>2, <1>3 DEF EndInv
<1>6. /\ tx'[e] = [key |-> KeysOf(e), at |-> sent'[e]] /\ tx'[r] = tx[r]
      /\ tx' = [x \in Ends |-> tx'[x]]
  <2>1. tx = [x \in Ends |-> tx[x]] /\ tx' = [tx EXCEPT ![e].at = @ + n]
    BY <1>2, <1>3 DEF LegacyTypes
  <2>2. tx'[e] = [tx[e] EXCEPT !.at = @ + n] /\ tx'[r] = tx[r] /\ tx' = [x \in Ends |-> tx'[x]]
    BY <1>1, <2>1
  <2> QED
    BY <1>4, <1>5, <2>2
<1>7. /\ version' = version /\ phase' = phase /\ rxMagic' = rxMagic /\ rxBuf' = rxBuf /\ rx' = rx
      /\ got' = got /\ broken' = broken
  BY <1>3
<1>8. LegacyTypes'
  BY <1>2, <1>4, <1>6, <1>7 DEF LegacyTypes
<1>9. EndInv(e)'
  <2>1. phase'[e] = "open" /\ version' = version
    BY <1>3, <1>7
  <2> QED
    BY <1>1, <1>2, <1>3, <1>4, <1>6, <1>7, <2>1 DEF EndInv, r
<1>10. EndInv(r)'
  <2>1. Len(got[r]) \in Nat /\ Len(got[r]) <= sent[e]
    BY <1>1, <1>2 DEF LegacyTypes, EndInv
  <2>2. Len(got'[r]) <= sent'[Peer(r)]
    BY <1>1, <1>2, <1>4, <1>7, <2>1
  <2> QED
    BY <1>1, <1>2, <1>4, <1>6, <1>7, <2>2 DEF EndInv
<1>11. AheadInv(e)'
  BY <1>1, <1>2, <1>4, <1>7, AheadFrame DEF r
<1>12. ASSUME phase[r] # "closed"
       PROVE  AheadInv(r)'
  <2>1. PICK q \in 0 .. MaxPadding, m \in Nat, k \in Nat : AheadIs(r, q, m, k)
    BY <1>2, <1>12 DEF AheadInv
  <2>2. q \in Nat /\ q \in 0 .. MaxPadding /\ q <= MaxPadding /\ m \in Nat /\ k \in Nat
    BY <1>2, <2>1
  <2> DEFINE F == LegacyStream(version, e, q)
             t == Taken(r, q)
             w == Written(e, q)
  <2>3. t \in Nat
    BY <1>1, <1>2, <2>2, TakenIs
  <2>4. /\ txMagic[e] => q <= MaxPadding \div 2
        /\ rxMagic[r] => m < q + 2
        /\ rxBuf[r] = Stretch(F, t, m)
        /\ inFlight[r] = Stretch(F, t + m, k)
        /\ t + m + k = w
    BY <1>1, <1>3, <2>1 DEF AheadIs
  <2> HIDE DEF F, t, w
  <2>7. t + m + k = w /\ m \in Nat /\ k \in Nat /\ q \in Nat
    BY <2>2, <2>4
  <2>5. CASE txMagic[e]
    <3> DEFINE G == LegacyStream(version, e, q + p)
               N == k + ((p + 2) + n)
    <3>1. version = "obfs3" /\ sent[e] = 0
      BY <1>2, <2>5 DEF EndInv, LegacyTypes
    <3>2. /\ q + p \in 0 .. MaxPadding /\ q + p \in Nat /\ (p + 2) + n \in Nat /\ N \in Nat
          /\ (2 + q) + ((p + 2) + n) = (q + p) + 4 + n
      <4>1. p <= MaxPadding \div 2 /\ q <= MaxPadding \div 2
        BY <1>3, <2>4, <2>5
      <4> QED
        BY <1>2, <2>2, <4>1
    <3>3. w = q + 2
      BY <1>3, <2>5 DEF Written, w
    <3>4. phase[r] \notin {"start", "key", "header"} => rxMagic[r]
      <4>1. CASE phase[r] \notin {"start", "key", "header"} /\ ~rxMagic[r]
        <5>1. t = q + 4 + Len(got[r]) /\ Len(got[r]) \in Nat
          BY <1>1, <1>2, <3>1, <4>1 DEF Taken, t, Fixed, LegacyTypes
        <5> DEFINE g == Len(got[r])
        <5> HIDE DEF g
        <5>2. t = q + 4 + g /\ g \in Nat
          BY <5>1 DEF g
        <5>3. FALSE
          BY <2>3, <2>7, <3>3, <5>2
        <5> QED
          BY <5>3
      <4> QED
        BY <4>1
    <3>5. Taken(r, q + p)' = t
      BY <1>7, <3>4 DEF Taken, t
    <3>6. Written(e, q + p)' = (q + p) + 4 + n
      <4>1. /\ phase'[e] = "open" /\ ~txMagic'[e] /\ sent'[e] = n /\ version' = "obfs3"
        BY <1>2, <1>3, <1>4, <1>7, <3>1
      <4>2. Written(e, q + p)' = q + p + Fixed("obfs3") + n
        BY <4>1 DEF Written
      <4>3. Fixed("obfs3") = 4
        BY DEF Fixed
      <4> QED
        BY <1>2, <2>2, <4>2, <4>3
    <3>7. units = Stretch(G, 2 + q, (p + 2) + n)
      <4>1. (Padding(p) \o Magic(e)) \o Sealed([key |-> KeysOf(e), at |-> 0], 0, n)
               = Stretch(LegacyStream("obfs3", e, q + p), 2 + q, (p + 2) + n)
        <5>1. q \in Nat /\ p \in Nat /\ n \in Nat
          BY <1>2, <2>2
        <5>2. FirstWrite(e, q, p, n)
          BY <5>1, MagicIsStretch
        <5> QED
          BY <5>2, Zenon DEF FirstWrite
      <4>2. units = (Padding(p) \o Magic(e)) \o Sealed([key |-> KeysOf(e), at |-> 0], 0, n)
        BY <1>5, <2>5, <3>1 DEF units
      <4> QED
        BY <3>1, <4>1, <4>2, Zenon
    <3>8. Stretch(F, t, m) = Stretch(G, t, m) /\ Stretch(F, t + m, k) = Stretch(G, t + m, k)
      <4>1. /\ t + m <= q + 2 /\ (t + m) + k <= q + 2 /\ t + m \in Nat
        BY <2>2, <2>3, <2>4, <3>3
      <4> QED
        BY <1>2, <2>2, <2>3, <3>1, <4>1, MorePadding DEF F
    <3> HIDE DEF G
    <3>9. Stretch(G, t + m, k) \o Stretch(G, (t + m) + k, (p + 2) + n) = Stretch(G, t + m, N)
      <4>1. t + m \in Nat /\ k \in Nat /\ (p + 2) + n \in Nat
        BY <2>2, <2>3, <3>2
      <4> QED
        BY <4>1, StretchesJoin
    <3>10. (t + m) + k = 2 + q
      BY <2>2, <2>4, <3>3
    <3>11. inFlight'[r] = Stretch(G, t + m, N)
      BY <1>4, <2>4, <3>7, <3>8, <3>9, <3>10, Zenon
    <3>12. t + m + N = (q + p) + 4 + n /\ t + m + N <= (q + p) + 4 + n
           /\ m < (q + p) + 2
      <4>1. t + m \in Nat /\ m <= t + m /\ k = (q + 2) - (t + m)
        BY <2>2, <2>3, <2>4, <3>3
      <4>2. CASE rxMagic[r]
        BY <1>2, <2>2, <2>3, <2>4, <3>2, <3>10, <4>1, <4>2
      <4>3. CASE ~rxMagic[r]
        <5>1. phase[r] \in {"start", "key", "header"}
          BY <3>4, <4>3
        <5>2. rxBuf[r] = <<>>
          BY <1>2, <5>1 DEF EndInv
        <5>3. Len(rxBuf[r]) = m /\ Len(<<>>) = 0
          <6>1. Len(Stretch(F, t, m)) = m
            BY <2>3, <2>7, StretchIs
          <6> QED
            BY <2>4, <6>1, EmptySeq
        <5>4. m = 0
          BY <5>2, <5>3
        <5> QED
          BY <1>2, <2>2, <2>3, <3>2, <3>10, <4>1, <5>4
      <4> QED
        BY <4>2, <4>3
    <3> HIDE DEF N
    <3>13. rxBuf'[r] = Stretch(G, t, m)
      BY <1>7, <2>4, <3>8
    <3>14. ~txMagic'[Peer(r)] /\ version' = version /\ LegacyTypes
      BY <1>1, <1>2, <1>4, <1>7
    <3> QED
      BY <1>1, <2>2, <3>2, <3>5, <3>6, <3>11, <3>12, <3>13, <3>14, AheadNext, Zenon DEF G
  <2>6. CASE ~txMagic[e]
    <3> DEFINE d == q + Fixed(version)
    <3>1. d \in Nat /\ version \in {"obfs2", "obfs3"}
      BY <1>2, <2>2 DEF Fixed, LegacyTypes
    <3>2. w = d + sent[e]
      BY <1>3, <2>6 DEF Written, w
    <3>3. Taken(r, q)' = t
      BY <1>7 DEF Taken, t
    <3>4. Written(e, q)' = d + (sent[e] + n)
      BY <1>3, <1>4, <1>7 DEF Written
    <3>5. units = Stretch(F, d + sent[e], n)
      <4>1. Sealed(tx[e], sent[e], n) = Stretch(F, d + sent[e], n)
        BY <1>2, <1>4, <1>5, <2>2, <3>1, SealedIsStretch DEF F
      <4>2. Stretch(F, d + sent[e], n) \in Seq(OnStream(F))
        <5>1. d + sent[e] \in Nat
          BY <1>4, <3>1
        <5> HIDE DEF d
        <5> QED
          BY <1>2, <5>1, StretchIs
      <4>3. units = <<>> \o Sealed(tx[e], sent[e], n)
        BY <2>6 DEF units
      <4> QED
        BY <4>1, <4>2, <4>3, ConcatEmptySeq
    <3> HIDE DEF d
    <3>6. Stretch(F, t + m, k) \o Stretch(F, (t + m) + k, n) = Stretch(F, t + m, k + n)
      <4>1. t + m \in Nat /\ k \in Nat /\ n \in Nat
        BY <1>2, <2>2, <2>3
      <4> QED
        BY <4>1, StretchesJoin
    <3>7. (t + m) + k = d + sent[e]
      BY <2>4, <3>2
    <3>8. inFlight'[r] = Stretch(F, t + m, k + n)
      BY <1>4, <2>4, <3>5, <3>6, <3>7, Zenon
    <3>9. t + m + (k + n) = d + (sent[e] + n) /\ t + m + (k + n) <= d + (sent[e] + n) /\ k + n \in Nat
      <4>1. sent[e] \in Nat
        BY <1>4
      <4> QED
        BY <1>2, <2>3, <2>7, <3>1, <3>7, <4>1
    <3>10. rxBuf'[r] = Stretch(F, t, m) /\ (rxMagic'[r] => m < q + 2)
      BY <1>7, <2>4
    <3>11. ~txMagic'[Peer(r)] /\ version' = version /\ LegacyTypes
      BY <1>1, <1>2, <1>4, <1>7
    <3> QED
      BY <1>1, <2>2, <3>3, <3>4, <3>8, <3>9, <3>10, <3>11, AheadNext, Zenon DEF F
  <2> QED
    BY <2>5, <2>6
<1>13. AheadInv(r)'
  BY <1>7, <1>12 DEF AheadInv
<1> QED
  BY <1>8, <1>9, <1>10, <1>11, <1>13, BothEnds DEF r

\* Two units of a stretch.
LEMMA TwoOfStretch ==
  ASSUME NEW F, NEW from \in Nat, NEW n \in Nat, NEW i \in Nat, i + 2 <= n
  PROVE  SubSeq(Stretch(F, from, n), i + 1, i + 2) = Stretch(F, from + i, 2)
<1> DEFINE a == Stretch(F, from, n)
           S == OnStream(F)
           x == SubSeq(a, i + 1, i + 2)
<1>1. a \in Seq(S) /\ Len(a) = n /\ \A j \in 1 .. n : a[j] = F[from + j]
  BY StretchIs
<1>2. \A j \in i + 1 .. i + 2 : a[j] \in S
  <2>1. \A j \in i + 1 .. i + 2 : j \in 1 .. n
    OBVIOUS
  <2>2. \A j \in 1 .. n : F[from + j] \in S
    BY DEF OnStream
  <2> HIDE DEF a, S
  <2> QED
    BY <1>1, <2>1, <2>2
<1> HIDE DEF a, S
<1>3. /\ x \in Seq(S) /\ Len(x) = IF i + 1 <= i + 2 THEN (i + 2) - (i + 1) + 1 ELSE 0
      /\ \A j \in 1 .. (i + 2) - (i + 1) + 1 : x[j] = a[(i + 1) + j - 1]
  BY <1>2, i + 1 \in Int, i + 2 \in Int, SubSeqProperties
<1>4. Len(x) = 2 /\ (i + 2) - (i + 1) + 1 = 2
  BY <1>3
<1>5. ASSUME NEW j \in 1 .. 2
      PROVE  x[j] = F[(from + i) + j]
  <2>1. x[j] = a[(i + 1) + j - 1]
    BY <1>3, <1>4
  <2>2. (i + 1) + j - 1 = i + j /\ i + j \in 1 .. n /\ from + (i + j) = (from + i) + j
    OBVIOUS
  <2>3. a[i + j] = F[from + (i + j)]
    BY <1>1, <2>2
  <2> QED
    BY <2>1, <2>2, <2>3
<1> HIDE DEF x
<1>6. from + i \in Nat /\ 2 \in Nat
  OBVIOUS
<1>7. x = Stretch(F, from + i, 2)
  BY <1>3, <1>4, <1>5, <1>6, IsStretch DEF S
<1> QED
  BY <1>7 DEF x, a

\* The search finds the magic where it is, as soon as all of it is there.
LEMMA IndexIs ==
  ASSUME NEW e, NEW q \in Nat, NEW n \in Nat
  PROVE  IndexOfMagic(e, Stretch(LegacyStream("obfs3", Peer(e), q), 2, n))
           = IF q + 2 <= n THEN q ELSE -1
<1> DEFINE F == LegacyStream("obfs3", Peer(e), q)
           buf == Stretch(F, 2, n)
           At == {i \in 0 .. Len(buf) - 2 : SubSeq(buf, i + 1, i + 2) = Magic(Peer(e))}
<1>1. Len(buf) = n
  BY 2 \in Nat, StretchIs
<1>2. Magic(Peer(e)) = Stretch(F, q + 2, 2)
  BY KeyIsStretch
<1>3. ASSUME NEW i \in 0 .. n - 2, i # q
      PROVE  Stretch(F, 2 + i, 2) # Magic(Peer(e))
  <2>1. F[(2 + i) + 1].is # "magic"
    <3>1. (2 + i) + 1 \in Nat /\ (2 + i) + 1 # q + 3
      BY <1>3
    <3> QED
      BY <3>1, MagicIsOnce
  <2> HIDE DEF F
  <2>2. Stretch(F, 2 + i, 2)[1] = F[(2 + i) + 1]
    <3>1. 2 + i \in Nat /\ 2 \in Nat /\ 1 \in 1 .. 2
      OBVIOUS
    <3> QED
      BY <3>1, StretchIs
  <2>3. Magic(Peer(e))[1].is = "magic"
    BY DEF Magic
  <2> QED
    BY <2>1, <2>2, <2>3
<1> HIDE DEF F
<1>4. ASSUME NEW i \in 0 .. n - 2
      PROVE  SubSeq(buf, i + 1, i + 2) = Stretch(F, 2 + i, 2)
  <2>1. i \in Nat /\ i + 2 <= n /\ 2 \in Nat
    OBVIOUS
  <2> QED
    BY <2>1, TwoOfStretch
<1> HIDE DEF buf
<1>5. At = {i \in 0 .. n - 2 : i = q}
  <2>1. 2 + q = q + 2
    OBVIOUS
  <2>2. \A i \in 0 .. n - 2 : SubSeq(buf, i + 1, i + 2) = Magic(Peer(e)) <=> i = q
    BY <1>2, <1>3, <1>4, <2>1
  <2> QED
    BY <1>1, <2>2
<1> HIDE DEF At
<1>6. CASE q + 2 <= n
  <2>1. At = {q}
    BY <1>5, <1>6
  <2>2. q <= q
    OBVIOUS
  <2>3. (CHOOSE i \in At : \A j \in At : i <= j) = q
    BY <2>1, <2>2
  <2>4. IndexOfMagic(e, buf) = q
    BY <2>1, <2>3 DEF IndexOfMagic, At
  <2> QED
    BY <1>6, <2>4 DEF F, buf
<1>7. CASE ~(q + 2 <= n)
  <2>1. At = {}
    BY <1>5, <1>7
  <2>2. IndexOfMagic(e, buf) = -1
    BY <2>1 DEF IndexOfMagic, At
  <2> QED
    BY <1>7, <2>2 DEF F, buf
<1> QED
  BY <1>6, <1>7

LEMMA FindPeerMagicLegacy ==
  ASSUME LegacyInv, NEW e \in Ends, NEW n \in 1 .. Len(inFlight[e]), FindPeerMagic(e, n)
  PROVE  LegacyInv'
<1> DEFINE r == Peer(e)
           buf == rxBuf[e] \o SubSeq(inFlight[e], 1, n)
           pos == IndexOfMagic(e, buf)
           tooMuch == IF pos = -1 THEN Len(buf) >= MaxPadding + 2 ELSE pos > MaxPadding
<1>1. r \in Ends /\ r # e /\ Peer(r) = e
  BY PeerIs
<1>2. /\ LegacyTypes /\ EndInv(e) /\ EndInv(r) /\ AheadInv(e) /\ AheadInv(r)
  BY <1>1 DEF LegacyInv
<1>3. /\ phase[e] = "open" /\ rxMagic[e] /\ n <= Len(inFlight[e])
      /\ inFlight' = [inFlight EXCEPT ![e] = SubSeq(@, n + 1, Len(@))]
      /\ ~tooMuch => /\ rxBuf' = [rxBuf EXCEPT ![e] = IF pos = -1 THEN buf ELSE SubSeq(buf, pos + 3, Len(buf))]
                     /\ rxMagic' = [rxMagic EXCEPT ![e] = pos = -1]
                     /\ phase' = phase
      /\ version' = version /\ txMagic' = txMagic /\ tx' = tx /\ rx' = rx /\ sent' = sent
      /\ got' = got /\ broken' = broken
  BY DEF FindPeerMagic
<1>4. version = "obfs3" /\ got[e] = <<>> /\ Len(got[e]) = 0
  BY <1>2, <1>3, EmptySeq DEF EndInv, LegacyTypes
<1> HIDE DEF r
<1>5. PICK q \in 0 .. MaxPadding, m \in Nat, k \in Nat : AheadIs(e, q, m, k)
  BY <1>2, <1>3 DEF AheadInv
<1>6. q \in Nat /\ q \in 0 .. MaxPadding /\ q <= MaxPadding /\ m \in Nat /\ k \in Nat /\ MaxPadding \in Nat
  BY <1>5, Obfs23Assumption
<1> DEFINE F == LegacyStream("obfs3", r, q)
           l == m + n
<1>7. Taken(e, q) = 2 /\ 2 \in Nat
  BY <1>3 DEF Taken
<1>8. Len(rxBuf[e]) = m /\ Len(inFlight[e]) = k
  BY <1>5, <1>6, <1>7, AheadCut
<1>9. /\ rxBuf[e] = Stretch(F, 2, m) /\ inFlight[e] = Stretch(F, 2 + m, k)
      /\ m < q + 2
      /\ txMagic[r] => q <= MaxPadding \div 2
      /\ 2 + m + k <= Written(r, q)
      /\ phase[r] # "closed" => 2 + m + k = Written(r, q)
  BY <1>3, <1>4, <1>5, <1>7 DEF AheadIs, r
<1>10. n \in Nat /\ n <= k /\ n > 0 /\ 2 + m \in Nat /\ l \in Nat /\ k - n \in Nat
       /\ 2 + l = (2 + m) + n /\ 2 + l + (k - n) = 2 + m + k
  <2>1. n \in 1 .. k
    BY <1>8
  <2> QED
    BY <1>6, <2>1
<1> HIDE DEF F, l
<1>11. /\ SubSeq(inFlight[e], 1, n) = Stretch(F, 2 + m, n)
       /\ SubSeq(inFlight[e], n + 1, Len(inFlight[e])) = Stretch(F, 2 + l, k - n)
  <2>1. /\ SubSeq(Stretch(F, 2 + m, k), 1, n) = Stretch(F, 2 + m, n)
        /\ SubSeq(Stretch(F, 2 + m, k), n + 1, k) = Stretch(F, (2 + m) + n, k - n)
    <3>1. n \in 0 .. k /\ k \in Nat /\ 2 + m \in Nat
      BY <1>6, <1>10
    <3> QED
      BY <3>1, StretchIsCut
  <2> QED
    BY <1>8, <1>9, <1>10, <2>1, Zenon
<1>12. buf = Stretch(F, 2, l) /\ Len(buf) = l
  <2>1. Stretch(F, 2, m) \o Stretch(F, 2 + m, n) = Stretch(F, 2, m + n)
    <3>1. 2 \in Nat /\ m \in Nat /\ n \in Nat
      BY <1>6, <1>10
    <3> QED
      BY <3>1, StretchesJoin
  <2>2. buf = Stretch(F, 2, l)
    BY <1>9, <1>11, <2>1, Zenon DEF l
  <2>3. Len(Stretch(F, 2, l)) = l
    BY <1>10, 2 \in Nat, StretchIs
  <2> QED
    BY <2>2, <2>3, Zenon
<1>13. pos = IF q + 2 <= l THEN q ELSE -1
  <2>1. IndexOfMagic(e, Stretch(F, 2, l)) = IF q + 2 <= l THEN q ELSE -1
    <3>1. q \in Nat /\ l \in Nat
      BY <1>6, <1>10
    <3> QED
      BY <3>1, IndexIs DEF F, r
  <2> HIDE DEF buf
  <2> QED
    BY <1>12, <2>1 DEF pos
<1> HIDE DEF buf, pos
<1>14. ~tooMuch
  <2>1. CASE q + 2 <= l
    <3>1. pos = q /\ pos # -1
      BY <1>6, <1>13, <2>1
    <3> QED
      BY <1>6, <3>1
  <2>2. CASE ~(q + 2 <= l)
    <3>1. pos = -1
      BY <1>13, <2>2
    <3> QED
      BY <1>6, <1>10, <1>12, <2>2, <3>1
  <2> QED
    BY <2>1, <2>2
<1> HIDE DEF tooMuch
<1>15. /\ inFlight'[e] = Stretch(F, 2 + l, k - n) /\ inFlight'[r] = inFlight[r]
       /\ rxBuf'[r] = rxBuf[r] /\ rxMagic'[r] = rxMagic[r] /\ phase' = phase
       /\ rxBuf'[e] = (IF pos = -1 THEN buf ELSE SubSeq(buf, pos + 3, Len(buf)))
       /\ rxMagic'[e] = (pos = -1) /\ rxMagic' \in [Ends -> BOOLEAN]
       /\ inFlight' = [x \in Ends |-> inFlight'[x]] /\ rxBuf' = [x \in Ends |-> rxBuf'[x]]
  <2>1. /\ inFlight = [x \in Ends |-> inFlight[x]] /\ rxBuf = [x \in Ends |-> rxBuf[x]]
        /\ rxMagic \in [Ends -> BOOLEAN]
    BY <1>2 DEF LegacyTypes
  <2>2. /\ rxBuf' = [rxBuf EXCEPT ![e] = IF pos = -1 THEN buf ELSE SubSeq(buf, pos + 3, Len(buf))]
        /\ rxMagic' = [rxMagic EXCEPT ![e] = pos = -1]
        /\ phase' = phase
        /\ inFlight' = [inFlight EXCEPT ![e] = SubSeq(@, n + 1, Len(@))]
    BY <1>3, <1>14
  <2> QED
    BY <1>1, <1>11, <2>1, <2>2
<1>16. LegacyTypes'
  BY <1>2, <1>3, <1>15 DEF LegacyTypes
<1>17. EndInv(e)'
  <2>1. phase'[e] = "open" /\ version' = "obfs3" /\ "obfs3" # "obfs2"
    BY <1>3, <1>4, <1>15
  <2> QED
    BY <1>1, <1>2, <1>3, <1>4, <1>15, <2>1 DEF EndInv, r
<1>18. EndInv(r)'
  BY <1>1, <1>2, <1>3, <1>15 DEF EndInv
<1>19. Written(r, q)' = Written(r, q)
  BY <1>3, <1>15 DEF Written
<1>20. AheadInv(e)'
  <2>1. CASE q + 2 <= l
    <3> DEFINE M == l - (q + 2)
    <3>1. pos = q /\ pos # -1 /\ q + 3 = (q + 2) + 1
      BY <1>6, <1>13, <2>1
    <3>2. /\ M \in Nat /\ q + 4 \in Nat /\ (q + 4) + M = 2 + l /\ 2 + (q + 2) = q + 4
          /\ (q + 4) + M + (k - n) = 2 + m + k
      BY <1>6, <1>10, <2>1
    <3>3. SubSeq(Stretch(F, 2, l), (q + 2) + 1, l) = Stretch(F, 2 + (q + 2), l - (q + 2))
      <4>1. q + 2 \in 0 .. l /\ l \in Nat /\ 2 \in Nat
        BY <1>6, <1>10, <2>1
      <4> QED
        BY <4>1, StretchIsCut
    <3>4. rxBuf'[e] = SubSeq(buf, q + 3, Len(buf)) /\ ~rxMagic'[e]
      BY <1>15, <3>1
    <3>5. rxBuf'[e] = Stretch(F, q + 4, M)
      BY <1>12, <3>1, <3>2, <3>3, <3>4
    <3> HIDE DEF M
    <3>6. Taken(e, q)' = q + 4
      <4>1. phase'[e] = "open" /\ version' = "obfs3" /\ Len(got'[e]) = 0
        BY <1>3, <1>4, <1>15
      <4>2. Taken(e, q)' = q + Fixed("obfs3") + 0
        BY <3>4, <4>1 DEF Taken
      <4>3. Fixed("obfs3") = 4
        BY DEF Fixed
      <4> QED
        BY <1>6, <4>2, <4>3
    <3>7. inFlight'[e] = Stretch(F, (q + 4) + M, k - n)
      BY <1>15, <3>2
    <3>8. /\ (q + 4) + M + (k - n) <= Written(r, q)
          /\ phase'[r] # "closed" => (q + 4) + M + (k - n) = Written(r, q)
          /\ txMagic'[r] => q <= MaxPadding \div 2
      BY <1>3, <1>9, <1>15, <3>2
    <3>9. version' = version /\ version = "obfs3" /\ LegacyTypes /\ k - n \in Nat /\ M \in Nat
      BY <1>2, <1>3, <1>4, <1>10, <3>2
    <3> QED
      BY <1>6, <1>19, <3>4, <3>5, <3>6, <3>7, <3>8, <3>9, AheadNext, Zenon DEF F, r
  <2>2. CASE ~(q + 2 <= l)
    <3>1. pos = -1 /\ l < q + 2
      BY <1>6, <1>10, <1>13, <2>2
    <3>2. rxBuf'[e] = Stretch(F, 2, l) /\ rxMagic'[e]
      BY <1>12, <1>15, <3>1
    <3>3. Taken(e, q)' = 2
      <4>1. phase'[e] = "open"
        BY <1>3, <1>15
      <4> QED
        BY <3>2, <4>1 DEF Taken
    <3>4. /\ 2 + l + (k - n) <= Written(r, q)
          /\ phase'[r] # "closed" => 2 + l + (k - n) = Written(r, q)
          /\ txMagic'[r] => q <= MaxPadding \div 2
      BY <1>3, <1>9, <1>10, <1>15
    <3>5. version' = version /\ version = "obfs3" /\ LegacyTypes /\ k - n \in Nat /\ l \in Nat
      BY <1>2, <1>3, <1>4, <1>10
    <3>6. inFlight'[e] = Stretch(F, 2 + l, k - n)
      BY <1>15
    <3> QED
      BY <1>6, <1>19, <3>1, <3>2, <3>3, <3>4, <3>5, <3>6, AheadNext, Zenon DEF F, r
  <2> QED
    BY <2>1, <2>2
<1>21. AheadInv(r)'
  BY <1>1, <1>2, <1>3, <1>15, AheadFrame
<1> QED
  BY <1>16, <1>17, <1>18, <1>20, <1>21, BothEnds DEF r

LEMMA NextLegacy ==
  ASSUME LegacyInv, [Obfs23Next]_obfs23Vars
  PROVE  LegacyInv'
<1>1. CASE UNCHANGED obfs23Vars
  BY <1>1 DEF obfs23Vars, LegacyInv, LegacyTypes, EndInv, AheadInv, AheadIs, Taken, Written
<1>2. CASE Obfs23Next
  <2>1. PICK e \in Ends :
          \/ \E p \in 0 .. MaxPadding :
               SendHello(e, p) \/ \E n \in 1 .. MaxSent : Write23(e, n, p)
          \/ ReadKey(e) \/ ReadHeader(e) \/ Break(e)
          \/ \E n \in 1 .. Len(inFlight[e]) : FindPeerMagic(e, n)
          \/ \E n \in 1 .. MaxSent : Read23(e, n)
    BY <1>2, Zenon DEF Obfs23Next
  <2>2. CASE \E p \in 0 .. MaxPadding : SendHello(e, p)
    BY <2>2, SendHelloLegacy
  <2>3. CASE \E p \in 0 .. MaxPadding : \E n \in 1 .. MaxSent : Write23(e, n, p)
    BY <2>3, Write23Legacy
  <2>4. CASE ReadKey(e)
    BY <2>4, ReadKeyLegacy
  <2>5. CASE ReadHeader(e)
    BY <2>5, ReadHeaderLegacy
  <2>6. CASE Break(e)
    BY <2>6, BreakLegacy
  <2>7. CASE \E n \in 1 .. Len(inFlight[e]) : FindPeerMagic(e, n)
    BY <2>7, FindPeerMagicLegacy
  <2>8. CASE \E n \in 1 .. MaxSent : Read23(e, n)
    BY <2>8, Read23Legacy
  <2> QED
    BY <2>1, <2>2, <2>3, <2>4, <2>5, <2>6, <2>7, <2>8
<1> QED
  BY <1>1, <1>2

\* While nothing is ahead of an end, nothing is missing.
LEMMA NothingAhead ==
  ASSUME LegacyInv, NEW e \in Ends, phase[e] = "open", inFlight[e] = <<>>,
         rxMagic[e] \/ rxBuf[e] = <<>>, ~broken
  PROVE  Len(got[e]) = sent[Peer(e)]
<1> DEFINE r == Peer(e)
<1>1. r \in Ends /\ r # e /\ Peer(r) = e
  BY PeerIs
<1>2. /\ LegacyTypes /\ EndInv(e) /\ EndInv(r) /\ AheadInv(e)
  BY <1>1 DEF LegacyInv
<1>3. phase[r] # "closed"
  BY <1>2 DEF EndInv
<1> HIDE DEF r
<1>4. PICK q \in 0 .. MaxPadding, m \in Nat, k \in Nat : AheadIs(e, q, m, k)
  BY <1>2 DEF AheadInv
<1>5. q \in Nat /\ m \in Nat /\ k \in Nat /\ Taken(e, q) \in Nat
  <2>1. q \in Nat /\ m \in Nat /\ k \in Nat
    BY <1>4, Obfs23Assumption
  <2> QED
    BY <1>2, <2>1, TakenIs
<1>6. Len(rxBuf[e]) = m /\ k = 0
  <2>1. Len(rxBuf[e]) = m /\ Len(inFlight[e]) = k
    BY <1>4, <1>5, AheadCut
  <2> QED
    BY <2>1, EmptySeq
<1>7. CASE rxMagic[e]
  <2>1. Taken(e, q) = 2 /\ m < q + 2 /\ Taken(e, q) + m + k = Written(r, q)
    BY <1>3, <1>4, <1>7 DEF Taken, AheadIs, r
  <2>2. Written(r, q) < q + 4 /\ version = "obfs3" /\ got[e] = <<>>
    <3>1. version = "obfs3" /\ got[e] = <<>>
      BY <1>2, <1>7 DEF EndInv, LegacyTypes
    <3> QED
      BY <1>5, <1>6, <2>1, <3>1
  <2>3. sent[r] = 0
    <3>1. CASE phase[r] = "start"
      BY <1>2, <3>1 DEF EndInv
    <3>2. CASE phase[r] # "start" /\ txMagic[r]
      BY <1>2, <3>2 DEF EndInv
    <3>3. CASE phase[r] # "start" /\ ~txMagic[r]
      <4>1. Written(r, q) = q + 4 + sent[r] /\ sent[r] \in Nat
        BY <1>1, <1>2, <2>2, <3>3 DEF Written, Fixed, LegacyTypes
      <4>2. FALSE
        BY <1>5, <2>2, <4>1
      <4> QED
        BY <4>2
    <3> QED
      BY <3>1, <3>2, <3>3
  <2> QED
    BY <2>2, <2>3, EmptySeq DEF r
<1>8. CASE ~rxMagic[e]
  <2>1. m = 0
    BY <1>6, <1>8, EmptySeq
  <2>2. Len(got[e]) + m + k = sent[Peer(e)]
    BY <1>1, <1>2, <1>3, <1>4, <1>5, <1>8, DataAhead DEF r
  <2>3. Len(got[e]) \in Nat
    BY <1>2 DEF LegacyTypes
  <2> QED
    BY <1>6, <2>1, <2>2, <2>3
<1> QED
  BY <1>7, <1>8

LEMMA LegacyConservesFromInv == LegacyInv => LegacyConserves
<1> SUFFICES ASSUME LegacyInv, NEW e \in Ends
             PROVE  /\ got[e] = [i \in 1 .. Len(got[e]) |-> i] /\ Len(got[e]) <= sent[Peer(e)]
                    /\ phase[e] = "closed" => broken
                    /\ phase[e] = "open" /\ inFlight[e] = <<>> /\ (rxMagic[e] \/ rxBuf[e] = <<>>) /\ ~broken
                          => Len(got[e]) = sent[Peer(e)]
  BY DEF LegacyConserves
<1>1. EndInv(e)
  BY DEF LegacyInv
<1> QED
  BY <1>1, NothingAhead DEF EndInv

\* For every length of padding and however the network cuts the bytes, both ends
\* of obfs2 and obfs3 read what the other has written, in order (obfs2.go, obfs3.go).
THEOREM LegacyAlwaysConserves == Obfs23Spec => []LegacyConserves
<1>1. Obfs23Init => LegacyInv
  BY InitLegacy
<1>2. LegacyInv /\ [Obfs23Next]_obfs23Vars => LegacyInv'
  BY NextLegacy
<1>3. LegacyInv => LegacyConserves
  BY LegacyConservesFromInv
<1> QED
  BY <1>1, <1>2, <1>3, PTL DEF Obfs23Spec

(***************************************************************************)
(* Induction, for sets of naturals.                                        *)
(***************************************************************************)

\* A set of naturals that is not empty has a least element.
LEMMA LeastNatural ==
  ASSUME NEW T, T \subseteq Nat, T # {}
  PROVE  \E x \in T : \A y \in T : x <= y
<1> DEFINE R == StrictSubsetOrdering(Nat)
           U == {1 .. k : k \in T}
<1>1. IsWellFoundedOn(R, FiniteSubsetsOf(Nat))
  BY FS_StrictSubsetOrderingWellFounded
<1>2. U \subseteq FiniteSubsetsOf(Nat) /\ U # {}
  <2>1. \A k \in Nat : IsFiniteSet(1 .. k) /\ (1 .. k) \subseteq Nat
    BY FS_Interval
  <2> QED
    BY <2>1 DEF FiniteSubsetsOf
<1>3. PICK s \in U : \A u \in U : ~(<<u, s>> \in R)
  <2> HIDE DEF R, U
  <2> QED BY <1>1, <1>2, WFMin
<1>4. PICK x \in T : s = 1 .. x
  OBVIOUS
<1>5. ASSUME NEW y \in T, y < x
      PROVE  FALSE
  <2>1. (1 .. y) \subseteq (1 .. x) /\ (1 .. y) # (1 .. x)
    BY <1>5, x \in 1 .. x /\ x \notin 1 .. y
  <2>2. <<1 .. y, 1 .. x>> \in R
    BY <2>1 DEF StrictSubsetOrdering
  <2> QED
    BY <1>3, <1>4, <2>2
<1> QED
  BY <1>5

\* A set that has 0, and of every number before n the next, has n.
LEMMA ReachesFromZero ==
  ASSUME NEW n \in Nat, NEW T, 0 \in T,
         \A i \in 0 .. n - 1 : i \in T => i + 1 \in T
  PROVE  0 .. n \subseteq T
<1> DEFINE Missing == (0 .. n) \ T
<1>1. CASE Missing # {}
  <2>1. Missing \subseteq Nat
    OBVIOUS
  <2> HIDE DEF Missing
  <2>2. PICK x \in Missing : \A y \in Missing : x <= y
    BY <1>1, <2>1, LeastNatural
  <2> USE DEF Missing
  <2>3. x \in 0 .. n /\ x \notin T /\ x # 0
    BY <2>2
  <2>4. x - 1 \in 0 .. n - 1 /\ (x - 1) + 1 = x
    BY <2>3
  <2>5. x - 1 \in T
    BY <2>2, <2>4
  <2> QED
    BY <2>3, <2>4, <2>5
<1> QED
  BY <1>1

(***************************************************************************)
(* More of stretches.                                                      *)
(***************************************************************************)

\* A sequence is a stretch of itself.
LEMMA SeqIsStretch ==
  ASSUME NEW S, NEW L \in Seq(S)
  PROVE  L = Stretch(L, 0, Len(L))
<1>1. L = [i \in 1 .. Len(L) |-> L[i]]
  OBVIOUS
<1>2. \A i \in 1 .. Len(L) : 0 + i = i
  OBVIOUS
<1> QED
  BY <1>1, <1>2 DEF Stretch

\* Streams that agree up to a place.
LEMMA StretchSame ==
  ASSUME NEW F, NEW G, NEW from \in Nat, NEW n \in Nat,
         \A k \in 1 .. from + n : F[k] = G[k]
  PROVE  Stretch(F, from, n) = Stretch(G, from, n)
<1>1. \A i \in 1 .. n : from + i \in 1 .. from + n
  OBVIOUS
<1>2. \A i \in 1 .. n : F[from + i] = G[from + i]
  BY <1>1
<1> QED
  BY <1>2 DEF Stretch

\* One unit more.
LEMMA StretchAppend ==
  ASSUME NEW F, NEW from \in Nat, NEW n \in Nat
  PROVE  Append(Stretch(F, from, n), F[from + (n + 1)]) = Stretch(F, from, n + 1)
<1> DEFINE a == Stretch(F, from, n)
           S == OnStream(F)
           x == F[from + (n + 1)]
           b == Append(a, x)
<1>1. a \in Seq(S) /\ Len(a) = n /\ \A i \in 1 .. n : a[i] = F[from + i]
  BY StretchIs
<1>2. x \in S
  BY DEF OnStream
<1> HIDE DEF a, S, x
<1>3. /\ b \in Seq(S) /\ Len(b) = n + 1
      /\ \A i \in 1 .. n : b[i] = a[i]
      /\ b[n + 1] = x
  BY <1>1, <1>2, AppendProperties
<1> HIDE DEF b
<1>4. ASSUME NEW i \in 1 .. n + 1
      PROVE  b[i] = F[from + i]
  <2>1. CASE i = n + 1
    BY <1>3, <2>1 DEF x
  <2>2. CASE i # n + 1
    <3>1. i \in 1 .. n
      BY <2>2
    <3> QED
      BY <1>1, <1>3, <3>1
  <2> QED
    BY <2>1, <2>2
<1>5. n + 1 \in Nat
  OBVIOUS
<1>6. b = Stretch(F, from, n + 1)
  BY <1>3, <1>4, <1>5, IsStretch DEF S
<1> QED
  BY <1>6 DEF a, b, x

(***************************************************************************)
(* The packets whose payload, or whose ticket or seed, is to be used.      *)
(***************************************************************************)

\* What SentOf is of the packets sent, of any list of kinds.
Chosen(ks, kinds) ==
  LET first[i \in 0 .. Len(ks)] ==
        IF i = 0 THEN <<>> ELSE IF ks[i] \in kinds THEN Append(first[i - 1], i) ELSE first[i - 1]
  IN first[Len(ks)]

Picks(ks, kinds, f, k) ==
  f = [i \in 0 .. k |->
        IF i = 0 THEN <<>> ELSE IF ks[i] \in kinds THEN Append(f[i - 1], i) ELSE f[i - 1]]

LEMMA PicksExist ==
  ASSUME NEW ks, NEW kinds, NEW k \in Nat
  PROVE  \E f : Picks(ks, kinds, f, k)
<1> DEFINE T == {n \in 0 .. k : \E f : Picks(ks, kinds, f, n)}
<1>1. 0 \in T
  <2> DEFINE f == [n \in 0 .. 0 |-> <<>>]
  <2>1. Picks(ks, kinds, f, 0)
    BY DEF Picks
  <2> QED
    BY <2>1
<1>2. ASSUME NEW n \in 0 .. k - 1, n \in T
      PROVE  n + 1 \in T
  <2>1. PICK f : Picks(ks, kinds, f, n)
    BY <1>2
  <2> DEFINE last == IF ks[n + 1] \in kinds THEN Append(f[n], n + 1) ELSE f[n]
             g == [i \in 0 .. n + 1 |-> IF i <= n THEN f[i] ELSE last]
  <2>2. ASSUME NEW i \in 0 .. n + 1
        PROVE  g[i] = IF i = 0 THEN <<>> ELSE IF ks[i] \in kinds THEN Append(g[i - 1], i) ELSE g[i - 1]
    <3>1. n \in Nat
      BY <1>2
    <3>2. CASE i = 0
      BY <2>1, <3>1, <3>2 DEF Picks
    <3>3. CASE i > 0 /\ i <= n
      <4>1. i \in 0 .. n /\ i # 0 /\ i - 1 \in 0 .. n + 1 /\ i - 1 <= n
        BY <3>1, <3>3
      <4>2. g[i] = f[i] /\ g[i - 1] = f[i - 1]
        BY <3>3, <4>1
      <4>3. f[i] = IF ks[i] \in kinds THEN Append(f[i - 1], i) ELSE f[i - 1]
        BY <2>1, <4>1 DEF Picks
      <4> QED
        BY <4>1, <4>2, <4>3
    <3>4. CASE i = n + 1
      <4>1. ~(i <= n) /\ i # 0 /\ i - 1 = n /\ n \in 0 .. n + 1 /\ n <= n
        BY <3>1, <3>4
      <4>2. g[i] = last /\ g[i - 1] = f[n]
        BY <4>1
      <4> QED
        BY <3>4, <4>1, <4>2
    <3> QED
      BY <3>1, <3>2, <3>3, <3>4
  <2>3. Picks(ks, kinds, g, n + 1)
    BY <2>2 DEF Picks
  <2>4. n + 1 \in 0 .. k
    BY <1>2
  <2> HIDE DEF g
  <2> QED
    BY <2>3, <2>4
<1> HIDE DEF T
<1>3. k \in T
  <2>1. 0 .. k \subseteq T
    BY <1>1, <1>2, ReachesFromZero
  <2> QED
    BY <2>1
<1> QED
  BY <1>3 DEF T

\* Chosen is the last of these.
LEMMA ChosenIs ==
  ASSUME NEW ks, NEW kinds, Len(ks) \in Nat
  PROVE  \E f : Picks(ks, kinds, f, Len(ks)) /\ Chosen(ks, kinds) = f[Len(ks)]
<1> DEFINE f == CHOOSE f : Picks(ks, kinds, f, Len(ks))
<1>1. Picks(ks, kinds, f, Len(ks))
  BY PicksExist
<1>2. Chosen(ks, kinds) = f[Len(ks)]
  BY DEF Chosen, Picks
<1> QED
  BY <1>1, <1>2

LEMMA ChosenType ==
  ASSUME NEW ks, NEW kinds, Len(ks) \in Nat
  PROVE  Chosen(ks, kinds) \in Seq(Nat) /\ (Len(ks) = 0 => Chosen(ks, kinds) = <<>>)
<1> DEFINE n == Len(ks)
<1>1. PICK f : Picks(ks, kinds, f, n) /\ Chosen(ks, kinds) = f[n]
  BY ChosenIs
<1> HIDE DEF n
<1> DEFINE T == {i \in 0 .. n : f[i] \in Seq(Nat)}
<1>2. n \in Nat
  BY DEF n
<1>3. f[0] = <<>>
  BY <1>1, <1>2, 0 \in 0 .. n DEF Picks
<1>4. 0 \in T
  <2>1. f[0] \in Seq(Nat)
    BY <1>3, EmptySeq
  <2>2. 0 \in 0 .. n
    BY <1>2
  <2> QED
    BY <2>1, <2>2
<1>5. ASSUME NEW i \in 0 .. n - 1, i \in T
      PROVE  i + 1 \in T
  <2>1. i + 1 \in 0 .. n /\ i + 1 # 0 /\ (i + 1) - 1 = i /\ i + 1 \in Nat
    BY <1>2
  <2>2. f[i + 1] = IF ks[i + 1] \in kinds THEN Append(f[i], i + 1) ELSE f[i]
    BY <1>1, <2>1 DEF Picks
  <2>3. f[i] \in Seq(Nat)
    BY <1>5
  <2>4. Append(f[i], i + 1) \in Seq(Nat)
    BY <2>1, <2>3, AppendProperties
  <2> QED
    BY <2>1, <2>2, <2>3, <2>4
<1> HIDE DEF T
<1>6. n \in T
  BY <1>2, <1>4, <1>5, ReachesFromZero, n \in 0 .. n
<1>7. n = 0 => f[n] = <<>>
  BY <1>3
<1> QED
  BY <1>1, <1>6, <1>7 DEF T, n

\* One packet more.
LEMMA ChosenAppend ==
  ASSUME NEW S, NEW ks \in Seq(S), NEW k \in S, NEW kinds
  PROVE  Chosen(Append(ks, k), kinds)
           = IF k \in kinds THEN Append(Chosen(ks, kinds), Len(ks) + 1) ELSE Chosen(ks, kinds)
<1> DEFINE n == Len(ks)
           js == Append(ks, k)
<1>1. /\ n \in Nat /\ Len(js) = n + 1 /\ js[n + 1] = k
      /\ \A i \in 1 .. n : js[i] = ks[i]
  BY AppendProperties
<1> HIDE DEF n, js
<1>2. PICK f : Picks(ks, kinds, f, n) /\ Chosen(ks, kinds) = f[n]
  BY <1>1, ChosenIs DEF n
<1>3. PICK g : Picks(js, kinds, g, n + 1) /\ Chosen(js, kinds) = g[n + 1]
  <2>1. n + 1 \in Nat
    BY <1>1
  <2> QED
    BY <1>1, <2>1, ChosenIs
<1> DEFINE T == {i \in 0 .. n : f[i] = g[i]}
<1>4. 0 \in T
  BY <1>1, <1>2, <1>3, 0 \in 0 .. n, 0 \in 0 .. n + 1 DEF Picks
<1>5. ASSUME NEW i \in 0 .. n - 1, i \in T
      PROVE  i + 1 \in T
  <2>1. /\ i + 1 \in 0 .. n /\ i + 1 \in 0 .. n + 1 /\ i + 1 # 0 /\ (i + 1) - 1 = i
        /\ i + 1 \in 1 .. n
    BY <1>1
  <2>2. f[i + 1] = IF ks[i + 1] \in kinds THEN Append(f[i], i + 1) ELSE f[i]
    BY <1>2, <2>1 DEF Picks
  <2>3. g[i + 1] = IF js[i + 1] \in kinds THEN Append(g[i], i + 1) ELSE g[i]
    BY <1>3, <2>1 DEF Picks
  <2>4. js[i + 1] = ks[i + 1] /\ f[i] = g[i]
    BY <1>1, <1>5, <2>1
  <2> QED
    BY <2>1, <2>2, <2>3, <2>4
<1> HIDE DEF T
<1>6. n \in T
  BY <1>1, <1>4, <1>5, ReachesFromZero, n \in 0 .. n
<1>7. g[n + 1] = IF js[n + 1] \in kinds THEN Append(g[n], n + 1) ELSE g[n]
  <2>1. n + 1 \in 0 .. n + 1 /\ n + 1 # 0 /\ (n + 1) - 1 = n
    BY <1>1
  <2> QED
    BY <1>3, <2>1 DEF Picks
<1>8. f[n] = g[n]
  BY <1>6 DEF T
<1> QED
  BY <1>1, <1>2, <1>3, <1>7, <1>8 DEF js, n

(***************************************************************************)
(* The stream of the server.                                               *)
(***************************************************************************)

\* A packet is what follows the first a units.
PacketLaid(F, a, b, i, kind) ==
  /\ b = a + 3 + TotalLen(kind)
  /\ Units("mac", i, 2) = Stretch(F, a, 2)
  /\ Units(kind, i, 1) = Stretch(F, a + 2, 1)
  /\ Units("body", i, TotalLen(kind)) = Stretch(F, a + 3, TotalLen(kind))
  /\ F[a + 3] = [is |-> kind, of |-> i, nth |-> 1]

\* F is all that the server sends, with packet i up to E[i]: the response with
\* its padding unless a ticket has made it superfluous, and p packets.
Laid(F, E, pad, ks, p) ==
  /\ E \in [0 .. p -> Nat] /\ \A i \in 0 .. p : E[i] <= E[p]
  /\ E[0] # 0 => E[0] = pad + 5 /\ Stretch(F, 0, pad + 5) = Response(pad)
  /\ \A i \in 0 .. p - 1 : PacketLaid(F, E[i], E[i + 1], i + 1, ks[i + 1])
  /\ \A k \in 1 .. E[p] : F[k].is = "mark" /\ F[k].nth = 1 => E[0] # 0 /\ k = pad + 2

\* L is the packets of some kinds, N[i] of which are among the first i.
Counted(L, N, kinds, ks, p) ==
  /\ N \in [0 .. p -> Nat] /\ N[0] = 0 /\ \A i \in 0 .. p : N[i] <= N[p]
  /\ L \in Seq(Nat) /\ Len(L) = N[p]
  /\ \A i \in 0 .. p - 1 : IF ks[i + 1] \in kinds THEN N[i + 1] = N[i] + 1 /\ L[N[i] + 1] = i + 1
                                                  ELSE N[i + 1] = N[i]

LEMMA TotalLenType ==
  ASSUME NEW kind \in Kinds
  PROVE  TotalLen(kind) \in Nat /\ TotalLen(kind) <= 2
BY DEF Kinds, TotalLen

PacketUnit(i, kind, j) ==
  IF j <= 2 THEN [is |-> "mac", of |-> i, nth |-> j]
  ELSE IF j = 3 THEN [is |-> kind, of |-> i, nth |-> 1]
  ELSE [is |-> "body", of |-> i, nth |-> j - 3]

LEMMA PacketIsLaid ==
  ASSUME NEW G, NEW a \in Nat, NEW i, NEW kind \in Kinds,
         \A j \in 1 .. 3 + TotalLen(kind) : G[a + j] = PacketUnit(i, kind, j)
  PROVE  /\ PacketLaid(G, a, a + 3 + TotalLen(kind), i, kind)
         /\ Packet(i, kind) = Stretch(G, a, 3 + TotalLen(kind))
<1> DEFINE n == TotalLen(kind)
<1>1. n \in Nat /\ a + 2 \in Nat /\ a + 3 \in Nat
  BY TotalLenType
<1> HIDE DEF n
<1>2. \A j \in 1 .. 3 + n : G[a + j] = PacketUnit(i, kind, j)
  BY DEF n
<1>3. Units("mac", i, 2) = Stretch(G, a, 2)
  <2>1. ASSUME NEW j \in 1 .. 2
        PROVE  G[a + j] = [is |-> "mac", of |-> i, nth |-> j]
    <3>1. j \in 1 .. 3 + n /\ j <= 2
      BY <1>1
    <3> QED
      BY <1>2, <3>1 DEF PacketUnit
  <2> QED
    BY <2>1 DEF Units, Stretch
<1>4. G[a + 3] = [is |-> kind, of |-> i, nth |-> 1]
  <2>1. 3 \in 1 .. 3 + n /\ ~(3 <= 2)
    BY <1>1
  <2> QED
    BY <1>2, <2>1 DEF PacketUnit
<1>5. Units(kind, i, 1) = Stretch(G, a + 2, 1)
  <2>1. ASSUME NEW j \in 1 .. 1
        PROVE  G[(a + 2) + j] = [is |-> kind, of |-> i, nth |-> j]
    <3>1. (a + 2) + j = a + 3 /\ j = 1
      OBVIOUS
    <3> QED
      BY <1>4, <3>1
  <2> QED
    BY <2>1 DEF Units, Stretch
<1>6. Units("body", i, n) = Stretch(G, a + 3, n)
  <2>1. ASSUME NEW j \in 1 .. n
        PROVE  G[(a + 3) + j] = [is |-> "body", of |-> i, nth |-> j]
    <3>1. /\ (a + 3) + j = a + (3 + j) /\ 3 + j \in 1 .. 3 + n /\ ~(3 + j <= 2) /\ 3 + j # 3
          /\ (3 + j) - 3 = j
      BY <1>1
    <3>2. G[a + (3 + j)] = PacketUnit(i, kind, 3 + j)
      BY <1>2, <3>1
    <3> QED
      BY <3>1, <3>2 DEF PacketUnit
  <2> QED
    BY <2>1 DEF Units, Stretch
<1>7. PacketLaid(G, a, a + 3 + n, i, kind)
  BY <1>3, <1>4, <1>5, <1>6 DEF PacketLaid, n
<1>8. Packet(i, kind) = Stretch(G, a, 3 + n)
  <2>1. Stretch(G, a, 2) \o Stretch(G, a + 2, 1) = Stretch(G, a, 2 + 1)
    BY 2 \in Nat, 1 \in Nat, StretchesJoin
  <2>2. Stretch(G, a, 3) \o Stretch(G, a + 3, n) = Stretch(G, a, 3 + n)
    BY <1>1, 3 \in Nat, StretchesJoin
  <2>3. 2 + 1 = 3 /\ MacLength = 2
    BY DEF MacLength
  <2>4. Packet(i, kind) = (Units("mac", i, 2) \o Units(kind, i, 1)) \o Units("body", i, n)
    BY <2>3 DEF Packet, n
  <2> QED
    BY <1>3, <1>5, <1>6, <2>1, <2>2, <2>3, <2>4
<1> QED
  BY <1>7, <1>8 DEF n

\* What the new stream is to the old.
Longer(G, D, F, E, kind, p) ==
  /\ \A i \in 0 .. p : D[i] = E[i]
  /\ D[p + 1] = E[p] + (3 + TotalLen(kind))
  /\ \A k \in 1 .. E[p] : G[k] = F[k]
  /\ Packet(p + 1, kind) = Stretch(G, E[p], 3 + TotalLen(kind))

LEMMA PacketStaysLaid ==
  ASSUME NEW F, NEW G, NEW a \in Nat, NEW b \in Nat, NEW i, NEW kind \in Kinds,
         PacketLaid(F, a, b, i, kind), \A k \in 1 .. b : G[k] = F[k]
  PROVE  PacketLaid(G, a, b, i, kind)
<1> DEFINE n == TotalLen(kind)
<1>1. n \in Nat /\ b = a + 3 + n /\ a + 2 \in Nat /\ a + 3 \in Nat
  BY TotalLenType DEF PacketLaid
<1> HIDE DEF n
<1>2. ASSUME NEW from \in Nat, NEW m \in Nat, from + m <= b
      PROVE  Stretch(F, from, m) = Stretch(G, from, m)
  <2>1. \A k \in 1 .. from + m : F[k] = G[k]
    BY <1>1, <1>2
  <2> QED
    BY <2>1, StretchSame
<1>3. Stretch(F, a, 2) = Stretch(G, a, 2)
  BY <1>1, <1>2
<1>4. Stretch(F, a + 2, 1) = Stretch(G, a + 2, 1)
  BY <1>1, <1>2
<1>5. Stretch(F, a + 3, n) = Stretch(G, a + 3, n)
  BY <1>1, <1>2
<1>6. G[a + 3] = F[a + 3]
  BY <1>1
<1> QED
  BY <1>3, <1>4, <1>5, <1>6 DEF PacketLaid, n

\* Another packet is sent.
LEMMA LaidMore ==
  ASSUME NEW ks \in Seq(Kinds), NEW p, p = Len(ks), NEW kind \in Kinds,
         NEW F, NEW E, NEW pad \in Nat, Laid(F, E, pad, ks, p)
  PROVE  \E G, D : Laid(G, D, pad, Append(ks, kind), p + 1) /\ Longer(G, D, F, E, kind, p)
<1> DEFINE e == E[p]
           n == TotalLen(kind)
           js == Append(ks, kind)
           G == [k \in Nat |-> IF k <= e THEN F[k] ELSE PacketUnit(p + 1, kind, k - e)]
           D == [i \in 0 .. p + 1 |-> IF i <= p THEN E[i] ELSE e + (3 + n)]
<1>1. p \in Nat /\ e \in Nat /\ n \in Nat /\ p \in 0 .. p /\ 0 \in 0 .. p
  BY TotalLenType DEF Laid
<1>2. /\ \A i \in 0 .. p : E[i] \in Nat /\ E[i] <= e
      /\ E[0] # 0 => E[0] = pad + 5 /\ Stretch(F, 0, pad + 5) = Response(pad)
      /\ \A i \in 0 .. p - 1 : PacketLaid(F, E[i], E[i + 1], i + 1, ks[i + 1])
      /\ \A k \in 1 .. e : F[k].is = "mark" /\ F[k].nth = 1 => E[0] # 0 /\ k = pad + 2
  BY DEF Laid
<1>3. js[p + 1] = kind /\ \A i \in 1 .. p : js[i] = ks[i] /\ ks[i] \in Kinds
  <2>1. js[p + 1] = kind /\ \A i \in 1 .. p : js[i] = ks[i]
    BY AppendProperties
  <2> QED
    BY <2>1
<1> HIDE DEF js, e, n
<1>4. /\ \A i \in 0 .. p : D[i] = E[i]
      /\ D[p + 1] = e + (3 + n) /\ e + (3 + n) \in Nat
      /\ D \in [0 .. p + 1 -> Nat]
  BY <1>1, <1>2
<1>5. /\ \A k \in 1 .. e : G[k] = F[k]
      /\ \A j \in 1 .. 3 + n : G[e + j] = PacketUnit(p + 1, kind, j)
  <2>1. \A j \in 1 .. 3 + n : e + j \in Nat /\ ~(e + j <= e) /\ (e + j) - e = j
    BY <1>1
  <2>2. \A k \in 1 .. e : k \in Nat /\ k <= e
    BY <1>1
  <2> QED
    BY <2>1, <2>2
<1> HIDE DEF G, D
<1>6. /\ PacketLaid(G, e, e + 3 + n, p + 1, kind)
      /\ Packet(p + 1, kind) = Stretch(G, e, 3 + n)
  BY <1>1, <1>5, PacketIsLaid DEF n
<1>7. Longer(G, D, F, E, kind, p)
  BY <1>4, <1>5, <1>6 DEF Longer, e, n
<1>8. \A i \in 0 .. p + 1 : D[i] <= D[p + 1]
  <2>1. ASSUME NEW i \in 0 .. p
        PROVE  D[i] <= e + (3 + n)
    <3>1. D[i] = E[i] /\ E[i] \in Nat /\ E[i] <= e
      BY <1>2, <1>4
    <3> QED
      BY <1>1, <3>1
  <2>2. \A i \in 0 .. p + 1 : i \in 0 .. p \/ i = p + 1
    BY <1>1
  <2> QED
    BY <1>1, <1>4, <2>1, <2>2
<1>9. D[0] # 0 => D[0] = pad + 5 /\ Stretch(G, 0, pad + 5) = Response(pad)
  <2> SUFFICES ASSUME D[0] # 0
               PROVE  D[0] = pad + 5 /\ Stretch(G, 0, pad + 5) = Response(pad)
    OBVIOUS
  <2>1. E[0] = pad + 5 /\ Stretch(F, 0, pad + 5) = Response(pad) /\ D[0] = E[0] /\ E[0] <= e
    BY <1>1, <1>2, <1>4
  <2>2. \A k \in 1 .. 0 + (pad + 5) : F[k] = G[k]
    BY <1>1, <1>5, <2>1
  <2>3. 0 \in Nat /\ pad + 5 \in Nat
    OBVIOUS
  <2>4. Stretch(F, 0, pad + 5) = Stretch(G, 0, pad + 5)
    BY <2>2, <2>3, StretchSame
  <2> QED
    BY <2>1, <2>4
<1>10. ASSUME NEW i \in 0 .. (p + 1) - 1
       PROVE  PacketLaid(G, D[i], D[i + 1], i + 1, js[i + 1])
  <2>1. CASE i = p
    <3>1. e + (3 + n) = e + 3 + n
      BY <1>1
    <3>2. D[i] = e /\ D[i + 1] = e + 3 + n /\ js[i + 1] = kind
      BY <1>1, <1>3, <1>4, <2>1, <3>1 DEF e
    <3> QED
      BY <1>6, <2>1, <3>2
  <2>2. CASE i # p
    <3>1. i \in 0 .. p - 1 /\ i \in 0 .. p /\ i + 1 \in 0 .. p /\ i + 1 \in 1 .. p
      BY <1>1, <2>2
    <3>2. PacketLaid(F, E[i], E[i + 1], i + 1, ks[i + 1])
      BY <1>2, <3>1
    <3>3. E[i] \in Nat /\ E[i + 1] \in Nat /\ E[i + 1] <= e /\ ks[i + 1] \in Kinds
          /\ D[i] = E[i] /\ D[i + 1] = E[i + 1] /\ js[i + 1] = ks[i + 1]
      BY <1>2, <1>3, <1>4, <3>1
    <3>4. \A k \in 1 .. E[i + 1] : G[k] = F[k]
      <4>1. \A k \in 1 .. E[i + 1] : k \in 1 .. e
        BY <1>1, <3>3
      <4> QED
        BY <1>5, <4>1
    <3>5. PacketLaid(G, E[i], E[i + 1], i + 1, ks[i + 1])
      BY <3>2, <3>3, <3>4, PacketStaysLaid
    <3> QED
      BY <3>3, <3>5
  <2> QED
    BY <2>1, <2>2
<1>11. ASSUME NEW k \in 1 .. D[p + 1], G[k].is = "mark" /\ G[k].nth = 1
       PROVE  D[0] # 0 /\ k = pad + 2
  <2>1. CASE k <= e
    <3>1. k \in 1 .. e /\ G[k] = F[k]
      BY <1>1, <1>4, <1>5, <2>1
    <3>2. D[0] = E[0]
      BY <1>1, <1>4
    <3> QED
      BY <1>2, <1>11, <3>1, <3>2
  <2>2. CASE k > e
    <3>1. k - e \in 1 .. 3 + n /\ e + (k - e) = k
      BY <1>1, <1>4, <2>2
    <3>2. G[k] = PacketUnit(p + 1, kind, k - e)
      BY <1>5, <3>1
    <3>3. PacketUnit(p + 1, kind, k - e).is # "mark"
      BY DEF PacketUnit, Kinds
    <3> QED
      BY <1>11, <3>2, <3>3
  <2> QED
    BY <1>1, <1>4, <2>1, <2>2
<1>12. Laid(G, D, pad, js, p + 1)
  BY <1>4, <1>8, <1>9, <1>10, <1>11 DEF Laid
<1> QED
  BY <1>7, <1>12 DEF js

\* ... and may be counted.
LEMMA CountMore ==
  ASSUME NEW ks \in Seq(Kinds), NEW p, p = Len(ks), NEW kind \in Kinds, NEW kinds,
         NEW N, Counted(Chosen(ks, kinds), N, kinds, ks, p)
  PROVE  /\ \E M : /\ Counted(Chosen(Append(ks, kind), kinds), M, kinds, Append(ks, kind), p + 1)
                   /\ \A i \in 0 .. p : M[i] = N[i]
                   /\ N[p] <= M[p + 1]
         /\ \A i \in 1 .. N[p] : Chosen(Append(ks, kind), kinds)[i] = Chosen(ks, kinds)[i]
<1> DEFINE L == Chosen(ks, kinds)
           K == Chosen(Append(ks, kind), kinds)
           js == Append(ks, kind)
           M == [i \in 0 .. p + 1 |-> IF i <= p THEN N[i]
                                      ELSE IF kind \in kinds THEN N[p] + 1 ELSE N[p]]
<1>1. p \in Nat /\ 0 \in 0 .. p /\ p \in 0 .. p
  OBVIOUS
<1>2. js[p + 1] = kind /\ \A i \in 1 .. p : js[i] = ks[i]
  BY AppendProperties
<1>3. K = IF kind \in kinds THEN Append(L, p + 1) ELSE L
  BY ChosenAppend
<1> HIDE DEF L, K, js
<1>4. /\ N \in [0 .. p -> Nat] /\ N[0] = 0 /\ \A i \in 0 .. p : N[i] <= N[p]
      /\ L \in Seq(Nat) /\ Len(L) = N[p]
      /\ \A i \in 0 .. p - 1 : IF ks[i + 1] \in kinds THEN N[i + 1] = N[i] + 1 /\ L[N[i] + 1] = i + 1
                                                      ELSE N[i + 1] = N[i]
  BY DEF Counted, L
<1>5. N[p] \in Nat /\ \A i \in 0 .. p : N[i] \in Nat
  BY <1>1, <1>4
<1>6. /\ M \in [0 .. p + 1 -> Nat] /\ \A i \in 0 .. p : M[i] = N[i]
      /\ M[p + 1] = IF kind \in kinds THEN N[p] + 1 ELSE N[p]
  BY <1>1, <1>5
<1> HIDE DEF M
<1>7. /\ K \in Seq(Nat) /\ Len(K) = M[p + 1] /\ \A i \in 1 .. N[p] : K[i] = L[i]
      /\ kind \in kinds => K[N[p] + 1] = p + 1
  <2>1. CASE kind \in kinds
    <3>1. p + 1 \in Nat
      BY <1>1
    <3>2. /\ Append(L, p + 1) \in Seq(Nat) /\ Len(Append(L, p + 1)) = Len(L) + 1
          /\ \A i \in 1 .. Len(L) : Append(L, p + 1)[i] = L[i]
          /\ Append(L, p + 1)[Len(L) + 1] = p + 1
      BY <1>4, <3>1, AppendProperties
    <3> QED
      BY <1>3, <1>4, <1>6, <2>1, <3>2
  <2>2. CASE kind \notin kinds
    BY <1>3, <1>4, <1>6, <2>2
  <2> QED
    BY <2>1, <2>2
<1>8. N[p] <= M[p + 1] /\ M[p + 1] \in Nat
  BY <1>5, <1>6
<1>9. \A i \in 0 .. p + 1 : M[i] <= M[p + 1]
  <2>1. ASSUME NEW i \in 0 .. p
        PROVE  M[i] <= M[p + 1]
    <3>1. M[i] = N[i] /\ N[i] \in Nat /\ N[i] <= N[p]
      BY <1>4, <1>5, <1>6
    <3> QED
      BY <1>5, <1>8, <3>1
  <2>2. \A i \in 0 .. p + 1 : i \in 0 .. p \/ i = p + 1
    BY <1>1
  <2> QED
    BY <1>8, <2>1, <2>2
<1>10. ASSUME NEW i \in 0 .. (p + 1) - 1
       PROVE  IF js[i + 1] \in kinds THEN M[i + 1] = M[i] + 1 /\ K[M[i] + 1] = i + 1
                                     ELSE M[i + 1] = M[i]
  <2>1. CASE i = p
    BY <1>1, <1>2, <1>6, <1>7, <2>1
  <2>2. CASE i # p
    <3>1. i \in 0 .. p - 1 /\ i \in 0 .. p /\ i + 1 \in 0 .. p /\ i + 1 \in 1 .. p
      BY <1>1, <2>2
    <3>2. M[i] = N[i] /\ M[i + 1] = N[i + 1] /\ js[i + 1] = ks[i + 1]
          /\ N[i] \in Nat /\ N[i + 1] <= N[p]
      BY <1>2, <1>4, <1>5, <1>6, <3>1
    <3>3. IF ks[i + 1] \in kinds THEN N[i + 1] = N[i] + 1 /\ L[N[i] + 1] = i + 1 ELSE N[i + 1] = N[i]
      BY <1>4, <3>1
    <3>4. ks[i + 1] \in kinds => N[i] + 1 \in 1 .. N[p]
      BY <1>5, <3>2, <3>3
    <3>5. ks[i + 1] \in kinds => K[N[i] + 1] = L[N[i] + 1]
      BY <1>7, <3>4
    <3> QED
      BY <3>2, <3>3, <3>5
  <2> QED
    BY <2>1, <2>2
<1>11. M[0] = 0
  BY <1>1, <1>4, <1>6
<1>12. Counted(K, M, kinds, js, p + 1)
  BY <1>6, <1>7, <1>9, <1>10, <1>11 DEF Counted
<1>13. /\ Counted(K, M, kinds, js, p + 1) /\ \A i \in 0 .. p : M[i] = N[i]
       /\ N[p] <= M[p + 1]
  BY <1>6, <1>8, <1>12
<1> QED
  BY <1>7, <1>13 DEF K, L, js

(***************************************************************************)
(* readPackets.                                                            *)
(***************************************************************************)

\* F is the stream of the packets ks, of which L have a payload and K are to be
\* acted on.
Known(F, E, pad, ks, p, L, N, K, M) ==
  /\ ks \in Seq(Kinds) /\ p = Len(ks) /\ p \in Nat /\ pad \in Nat
  /\ Laid(F, E, pad, ks, p)
  /\ Counted(L, N, {"payload"}, ks, p)
  /\ Counted(K, M, {"ticket", "seed"}, ks, p)

\* i packets are done, u units of a MAC and h of a header are taken of the next,
\* and m more are in the buffer, up to a place in the stream.
At(E, p, top, N, b, i, u, h, m) ==
  /\ i \in 0 .. p /\ m \in Nat
  /\ (u = 0 /\ h = 0) \/ (u = 2 /\ h = 0) \/ (u = 2 /\ h = 1)
  /\ u = 2 => i < p
  /\ E[i] + u + h + m = top
  /\ b <= N[i]

\* One round of the loop.
Fine == FALSE

Round(buf, mac, hdr, decoded, done, bad) ==
  [buf |-> buf, mac |-> mac, hdr |-> hdr, decoded |-> decoded, done |-> done, bad |-> bad]

LEMMA WithBuf ==
  ASSUME NEW buf, NEW mac, NEW hdr, NEW decoded, NEW done, NEW bad, NEW new
  PROVE  [Round(buf, mac, hdr, decoded, done, bad) EXCEPT !.buf = new] = Round(new, mac, hdr, decoded, done, bad)
BY DEF Round

LEMMA WithMac ==
  ASSUME NEW buf, NEW mac, NEW hdr, NEW decoded, NEW done, NEW bad, NEW new
  PROVE  [Round(buf, mac, hdr, decoded, done, bad) EXCEPT !.mac = new] = Round(buf, new, hdr, decoded, done, bad)
BY DEF Round

LEMMA WithHdr ==
  ASSUME NEW buf, NEW mac, NEW hdr, NEW decoded, NEW done, NEW bad, NEW new
  PROVE  [Round(buf, mac, hdr, decoded, done, bad) EXCEPT !.hdr = new] = Round(buf, mac, new, decoded, done, bad)
BY DEF Round

LEMMA TakeIs ==
  ASSUME NEW buf, NEW mac, NEW hdr, NEW decoded, NEW done, NEW bad, NEW n
  PROVE  Take(Round(buf, mac, hdr, decoded, done, bad), n)
           = Round(SubSeq(buf, n + 1, Len(buf)), mac, hdr, decoded, done, bad)
<1> DEFINE r == Round(buf, mac, hdr, decoded, done, bad)
           y == SubSeq(buf, n + 1, Len(buf))
<1>1. r.buf = buf
  BY DEF Round
<1>2. Take(r, n) = [r EXCEPT !.buf = SubSeq(r.buf, n + 1, Len(r.buf))]
  BY DEF Take
<1>3. Take(r, n) = [r EXCEPT !.buf = y]
  <2> HIDE DEF r
  <2> QED BY <1>1, <1>2
<1> HIDE DEF y
<1>4. [r EXCEPT !.buf = y] = Round(y, mac, hdr, decoded, done, bad)
  BY WithBuf
<1> QED
  BY <1>3, <1>4 DEF y
LEMMA ActIs ==
  ASSUME NEW buf, NEW mac, NEW hdr, NEW decoded, NEW done, NEW bad, NEW i, NEW kind, NEW body,
    mac = Units("mac", i, MacLength), body = Units("body", i, TotalLen(kind))
  PROVE  Act(Round(buf, mac, hdr, decoded, done, bad), i, kind, body)
           = Round(buf, <<>>, <<>>, IF kind = "payload" THEN Append(decoded, i) ELSE decoded,
                IF kind \in {"ticket", "seed"} THEN Append(done, i) ELSE done, bad)
<1> DEFINE r == Round(buf, mac, hdr, decoded, done, bad)
           d == IF kind = "payload" THEN Append(decoded, i) ELSE decoded
           k == IF kind \in {"ticket", "seed"} THEN Append(done, i) ELSE done
<1>1. r.mac = mac /\ r.decoded = decoded /\ r.done = done
  BY DEF Round
<1> HIDE DEF r
<1>2. Act(r, i, kind, body) = [r EXCEPT !.mac = <<>>, !.hdr = <<>>,
                 !.decoded = d, !.done = k]
  BY <1>1 DEF Act
<1> HIDE DEF d, k
<1>3. [r EXCEPT !.mac = <<>>, !.hdr = <<>>, !.decoded = d, !.done = k] = Round(buf, <<>>, <<>>, d, k, bad)
  <2>1. ASSUME NEW x, NEW y
        PROVE  [r EXCEPT !.mac = x, !.hdr = y, !.decoded = d, !.done = k] = Round(buf, x, y, d, k, bad)
    <3>1. [r EXCEPT !.mac = x, !.hdr = y, !.decoded = d, !.done = k]
           = [[[[r EXCEPT !.mac = x] EXCEPT !.hdr = y] EXCEPT !.decoded = d] EXCEPT !.done = k]
      OBVIOUS
    <3>2. [r EXCEPT !.mac = x] = Round(buf, x, hdr, decoded, done, bad)
      BY DEF r, Round
    <3>3. [Round(buf, x, hdr, decoded, done, bad) EXCEPT !.hdr = y] = Round(buf, x, y, decoded, done, bad)
      BY DEF Round
    <3>4. [Round(buf, x, y, decoded, done, bad) EXCEPT !.decoded = d] = Round(buf, x, y, d, done, bad)
      BY DEF Round
    <3>5. [Round(buf, x, y, d, done, bad) EXCEPT !.done = k] = Round(buf, x, y, d, k, bad)
      BY DEF Round
    <3> QED
      BY <3>1, <3>2, <3>3, <3>4, <3>5
  <2> QED
    BY <2>1
<1> QED
  BY <1>2, <1>3 DEF d, k, r

Parts(F, E, L, N, K, M, b, i, u, h, m) ==
  Round(Stretch(F, E[i] + u + h, m), Stretch(F, E[i], u), Stretch(F, E[i] + 2, h),
        Stretch(L, b, N[i] - b), Stretch(K, 0, M[i]), Fine)

\* What is in the buffer is not enough for the next part.
Waits(ks, i, u, h, m) ==
  /\ u = 0 => m < 2
  /\ u = 2 /\ h = 0 => m < 1
  /\ h = 1 => m < TotalLen(ks[i + 1])

\* One unit.
LEMMA OneUnit ==
  ASSUME NEW F, NEW from \in Nat, NEW n \in Nat, n >= 1
  PROVE  Stretch(F, from, n)[1] = F[from + 1] /\ Stretch(F, from, n) # <<>>
<1>1. \A i \in 1 .. n : Stretch(F, from, n)[i] = F[from + i]
  BY StretchIs
<1>2. 1 \in 1 .. n
  OBVIOUS
<1>3. Len(Stretch(F, from, n)) = n /\ Len(<<>>) = 0
  BY StretchIs, EmptySeq
<1> QED
  BY <1>1, <1>2, <1>3

LEMMA MacIsTaken ==
  ASSUME NEW F, NEW E, NEW L, NEW N, NEW K, NEW M, NEW b, NEW i, NEW m \in Nat, E[i] \in Nat
  PROVE  NextPart(Parts(F, E, L, N, K, M, b, i, 0, 0, m))
           = IF m < 2 THEN Parts(F, E, L, N, K, M, b, i, 0, 0, m)
             ELSE Parts(F, E, L, N, K, M, b, i, 2, 0, m - 2)
<1> DEFINE e == E[i]
           r == Parts(F, E, L, N, K, M, b, i, 0, 0, m)
<1>1. e + 0 + 0 = e /\ e + 2 + 0 = e + 2 /\ e \in Nat /\ e + 2 \in Nat
  OBVIOUS
<1> DEFINE d == Stretch(L, b, N[i] - b)
           k == Stretch(K, 0, M[i])
           x == Stretch(F, e, m)
           none == Stretch(F, e, 0)
           nohdr == Stretch(F, e + 2, 0)
<1>2. r = Round(x, none, nohdr, d, k, Fine)
  BY <1>1 DEF Parts
<1>3. none = <<>> /\ Len(x) = m
  BY <1>1, NoStretch, StretchIs
<1>4. m >= 2 => /\ SubSeq(x, 1, 2) = Stretch(F, e, 2)
                /\ SubSeq(x, 2 + 1, m) = Stretch(F, e + 2, m - 2)
  <2> SUFFICES ASSUME m >= 2
               PROVE  /\ SubSeq(x, 1, 2) = Stretch(F, e, 2)
                      /\ SubSeq(x, 2 + 1, m) = Stretch(F, e + 2, m - 2)
    OBVIOUS
  <2>1. 2 \in 0 .. m /\ e \in Nat
    OBVIOUS
  <2> HIDE DEF e
  <2> QED
    BY <2>1, StretchIsCut
<1>5. Parts(F, E, L, N, K, M, b, i, 2, 0, m - 2)
        = Round(Stretch(F, e + 2, m - 2), Stretch(F, e, 2), nohdr, d, k, Fine)
  BY <1>1 DEF Parts
<1> HIDE DEF d, k, x, none, nohdr, r, e
<1>6. /\ r.bad = FALSE /\ r.mac = <<>> /\ r.buf = x /\ MacLength = 2
  BY <1>2, <1>3 DEF MacLength, Round, Fine
<1>7. NextPart(r) = IF Len(r.buf) >= 2 THEN [Take(r, 2) EXCEPT !.mac = SubSeq(r.buf, 1, 2)] ELSE r
  BY <1>6 DEF NextPart
<1>8. CASE m < 2
  <2>1. ~(Len(r.buf) >= 2)
    BY <1>3, <1>6, <1>8
  <2> QED
    BY <1>7, <1>8, <2>1 DEF r
<1>9. CASE ~(m < 2)
  <2>1. Len(r.buf) >= 2 /\ m >= 2
    BY <1>3, <1>6, <1>9
  <2>2. Take(r, 2) = Round(SubSeq(x, 2 + 1, m), none, nohdr, d, k, Fine)
    <3>1. Take(Round(x, none, nohdr, d, k, Fine), 2) = Round(SubSeq(x, 2 + 1, Len(x)), none, nohdr, d, k, Fine)
      BY TakeIs
    <3> QED
      BY <1>2, <1>3, <3>1, Zenon
  <2>3. [Take(r, 2) EXCEPT !.mac = SubSeq(r.buf, 1, 2)]
          = Round(SubSeq(x, 2 + 1, m), SubSeq(x, 1, 2), nohdr, d, k, Fine)
    <3> DEFINE front == SubSeq(x, 1, 2)
               rest == SubSeq(x, 2 + 1, m)
    <3>1. [Round(rest, none, nohdr, d, k, Fine) EXCEPT !.mac = front] = Round(rest, front, nohdr, d, k, Fine)
      <4> HIDE DEF front, rest
      <4> QED BY WithMac
    <3> QED
      BY <1>6, <2>2, <3>1, Zenon
  <2> QED
    BY <1>4, <1>5, <1>7, <1>9, <2>1, <2>3 DEF r
<1> QED
  BY <1>8, <1>9

LEMMA HeaderIsTaken ==
  ASSUME NEW F, NEW E, NEW L, NEW N, NEW K, NEW M, NEW b, NEW i, NEW m \in Nat, E[i] \in Nat,
         F[E[i] + 3].is \in Kinds
  PROVE  NextPart(Parts(F, E, L, N, K, M, b, i, 2, 0, m))
           = IF m < 1 THEN Parts(F, E, L, N, K, M, b, i, 2, 0, m)
             ELSE Parts(F, E, L, N, K, M, b, i, 2, 1, m - 1)
<1> DEFINE e == E[i]
           r == Parts(F, E, L, N, K, M, b, i, 2, 0, m)
<1>1. e + 2 + 0 = e + 2 /\ e + 2 + 1 = (e + 2) + 1 /\ (e + 2) + 1 = e + 3 /\ e \in Nat /\ e + 2 \in Nat
      /\ 0 \in Nat /\ 2 \in Nat /\ 2 >= 1
  OBVIOUS
<1> DEFINE d == Stretch(L, b, N[i] - b)
           k == Stretch(K, 0, M[i])
           x == Stretch(F, e + 2, m)
           mac == Stretch(F, e, 2)
           nohdr == Stretch(F, e + 2, 0)
<1>2. r = Round(x, mac, nohdr, d, k, Fine)
  BY <1>1 DEF Parts
<1>3. nohdr = <<>> /\ Len(x) = m /\ mac # <<>>
  BY <1>1, NoStretch, StretchIs, OneUnit
<1>4. m >= 1 => /\ SubSeq(x, 1, 1) = Stretch(F, e + 2, 1)
                /\ SubSeq(x, 1 + 1, m) = Stretch(F, (e + 2) + 1, m - 1)
                /\ x[1] = F[(e + 2) + 1]
  <2> SUFFICES ASSUME m >= 1
               PROVE  /\ SubSeq(x, 1, 1) = Stretch(F, e + 2, 1)
                      /\ SubSeq(x, 1 + 1, m) = Stretch(F, (e + 2) + 1, m - 1)
                      /\ x[1] = F[(e + 2) + 1]
    OBVIOUS
  <2>1. 1 \in 0 .. m /\ e + 2 \in Nat
    BY <1>1
  <2> HIDE DEF e
  <2> QED
    BY <2>1, StretchIsCut, OneUnit
<1>5. Parts(F, E, L, N, K, M, b, i, 2, 1, m - 1)
        = Round(Stretch(F, (e + 2) + 1, m - 1), mac, Stretch(F, e + 2, 1), d, k, Fine)
  BY <1>1 DEF Parts
<1>6. F[(e + 2) + 1].is \in Kinds
  BY <1>1
<1> HIDE DEF d, k, x, mac, nohdr, r, e
<1>7. /\ r.bad = FALSE /\ r.mac # <<>> /\ r.hdr = <<>> /\ r.buf = x
  BY <1>2, <1>3 DEF Round, Fine
<1>8. NextPart(r) = IF ~(Len(r.buf) >= 1) THEN r
                    ELSE IF r.buf[1].is \notin Kinds THEN [r EXCEPT !.bad = TRUE]
                    ELSE [Take(r, 1) EXCEPT !.hdr = SubSeq(r.buf, 1, 1)]
  BY <1>7 DEF NextPart
<1>9. CASE m < 1
  <2>1. ~(Len(r.buf) >= 1)
    BY <1>3, <1>7, <1>9
  <2> QED
    BY <1>8, <1>9, <2>1 DEF r
<1>10. CASE ~(m < 1)
  <2>1. Len(r.buf) >= 1 /\ m >= 1
    BY <1>3, <1>7, <1>10
  <2>2. r.buf[1].is \in Kinds
    BY <1>4, <1>6, <1>7, <2>1
  <2>3. Take(r, 1) = Round(SubSeq(x, 1 + 1, m), mac, nohdr, d, k, Fine)
    <3>1. Take(Round(x, mac, nohdr, d, k, Fine), 1) = Round(SubSeq(x, 1 + 1, Len(x)), mac, nohdr, d, k, Fine)
      BY TakeIs
    <3> QED
      BY <1>2, <1>3, <3>1, Zenon
  <2>4. [Take(r, 1) EXCEPT !.hdr = SubSeq(r.buf, 1, 1)]
          = Round(SubSeq(x, 1 + 1, m), mac, SubSeq(x, 1, 1), d, k, Fine)
    <3> DEFINE front == SubSeq(x, 1, 1)
               rest == SubSeq(x, 1 + 1, m)
    <3>1. [Round(rest, mac, nohdr, d, k, Fine) EXCEPT !.hdr = front] = Round(rest, mac, front, d, k, Fine)
      <4> HIDE DEF front, rest
      <4> QED BY WithHdr
    <3> QED
      BY <1>7, <2>3, <3>1, Zenon
  <2> QED
    BY <1>4, <1>5, <1>8, <1>10, <2>1, <2>2, <2>4 DEF r
<1> QED
  BY <1>9, <1>10

LEMMA Grown ==
  ASSUME NEW L, NEW b \in Nat, NEW x \in Nat, b <= x, NEW y, y = x + 1, NEW v, L[x + 1] = v
  PROVE  Append(Stretch(L, b, x - b), v) = Stretch(L, b, y - b)
<1>1. x - b \in Nat /\ b + ((x - b) + 1) = x + 1 /\ (x - b) + 1 = y - b
  OBVIOUS
<1>2. Append(Stretch(L, b, x - b), L[b + ((x - b) + 1)]) = Stretch(L, b, (x - b) + 1)
  BY <1>1, StretchAppend
<1> QED
  BY <1>1, <1>2

\* What the lists are after a packet of a kind.
Counts(kind, i, L, N, K, M) ==
  /\ N[i] \in Nat /\ M[i] \in Nat
  /\ IF kind = "payload" THEN N[i + 1] = N[i] + 1 /\ L[N[i] + 1] = i + 1 ELSE N[i + 1] = N[i]
  /\ IF kind \in {"ticket", "seed"} THEN M[i + 1] = M[i] + 1 /\ K[M[i] + 1] = i + 1 ELSE M[i + 1] = M[i]

More(kind, s, i) == IF kind = "payload" THEN Append(s, i) ELSE s
Used(kind, s, i) == IF kind \in {"ticket", "seed"} THEN Append(s, i) ELSE s

Grows(kind, i, L, N, K, M, b) ==
  /\ More(kind, Stretch(L, b, N[i] - b), i + 1) = Stretch(L, b, N[i + 1] - b)
  /\ Used(kind, Stretch(K, 0, M[i]), i + 1) = Stretch(K, 0, M[i + 1])

LEMMA CountsGrow ==
  ASSUME NEW kind, NEW i, NEW L, NEW N, NEW K, NEW M, NEW b \in Nat,
         Counts(kind, i, L, N, K, M), b <= N[i]
  PROVE  Grows(kind, i, L, N, K, M, b)
<1>1. /\ N[i] \in Nat /\ M[i] \in Nat
      /\ kind = "payload" => N[i + 1] = N[i] + 1 /\ L[N[i] + 1] = i + 1
      /\ kind # "payload" => N[i + 1] = N[i]
      /\ kind \in {"ticket", "seed"} => M[i + 1] = M[i] + 1 /\ K[M[i] + 1] = i + 1
      /\ kind \notin {"ticket", "seed"} => M[i + 1] = M[i]
  BY DEF Counts
<1>2. kind = "payload" => Append(Stretch(L, b, N[i] - b), i + 1) = Stretch(L, b, N[i + 1] - b)
  <2> SUFFICES ASSUME kind = "payload"
               PROVE  Append(Stretch(L, b, N[i] - b), i + 1) = Stretch(L, b, N[i + 1] - b)
    OBVIOUS
  <2> DEFINE x == N[i]
             y == N[i + 1]
             v == i + 1
  <2>1. x \in Nat /\ b <= x /\ y = x + 1 /\ L[x + 1] = v
    BY <1>1
  <2> HIDE DEF x, y, v
  <2>2. Append(Stretch(L, b, x - b), v) = Stretch(L, b, y - b)
    BY <2>1, Grown
  <2> QED
    BY <2>2 DEF x, y, v
<1>3. kind \in {"ticket", "seed"} => Append(Stretch(K, 0, M[i]), i + 1) = Stretch(K, 0, M[i + 1])
  <2> SUFFICES ASSUME kind \in {"ticket", "seed"}
               PROVE  Append(Stretch(K, 0, M[i]), i + 1) = Stretch(K, 0, M[i + 1])
    OBVIOUS
  <2>1. M[i] \in Nat /\ M[i + 1] = M[i] + 1 /\ K[M[i] + 1] = i + 1 /\ 0 + (M[i] + 1) = M[i] + 1
    BY <1>1
  <2>2. Append(Stretch(K, 0, M[i]), K[0 + (M[i] + 1)]) = Stretch(K, 0, M[i] + 1)
    BY <2>1, 0 \in Nat, StretchAppend
  <2> QED
    BY <2>1, <2>2
<1> QED
  BY <1>1, <1>2, <1>3 DEF More, Used, Grows

LEMMA BodyIsTaken ==
  ASSUME NEW F, NEW E, NEW L, NEW N, NEW K, NEW M, NEW b \in Nat, NEW i, NEW m \in Nat,
         NEW kind \in Kinds, E[i] \in Nat, PacketLaid(F, E[i], E[i + 1], i + 1, kind),
         Counts(kind, i, L, N, K, M), b <= N[i]
  PROVE  NextPart(Parts(F, E, L, N, K, M, b, i, 2, 1, m))
           = IF m < TotalLen(kind) THEN Parts(F, E, L, N, K, M, b, i, 2, 1, m)
             ELSE Parts(F, E, L, N, K, M, b, i + 1, 0, 0, m - TotalLen(kind))
<1> DEFINE e == E[i]
           n == TotalLen(kind)
           r == Parts(F, E, L, N, K, M, b, i, 2, 1, m)
<1>1. /\ n \in Nat /\ e \in Nat /\ e + 3 \in Nat /\ e + 2 \in Nat /\ e + 2 + 1 = e + 3 /\ (e + 2) + 1 = e + 3
      /\ E[i + 1] = e + 3 + n /\ E[i + 1] \in Nat /\ E[i + 1] + 2 \in Nat /\ E[i + 1] + 0 + 0 = e + 3 + n
      /\ 1 \in Nat /\ 1 >= 1 /\ 2 \in Nat /\ 2 >= 1
  BY TotalLenType DEF PacketLaid
<1>2. /\ Units("mac", i + 1, 2) = Stretch(F, e, 2)
      /\ Units("body", i + 1, n) = Stretch(F, e + 3, n)
      /\ F[e + 3].is = kind /\ F[e + 3].of = i + 1
  BY DEF PacketLaid
<1> DEFINE d == Stretch(L, b, N[i] - b)
           k == Stretch(K, 0, M[i])
           x == Stretch(F, e + 3, m)
           mac == Stretch(F, e, 2)
           hdr == Stretch(F, e + 2, 1)
           more == More(kind, d, i + 1)
           used == Used(kind, k, i + 1)
           next == Parts(F, E, L, N, K, M, b, i + 1, 0, 0, m - n)
<1>3. r = Round(x, mac, hdr, d, k, Fine)
  BY <1>1 DEF Parts
<1>4. Len(x) = m /\ mac # <<>> /\ hdr # <<>> /\ hdr[1] = F[e + 3]
  <2> HIDE DEF e
  <2>1. Len(x) = m
    BY <1>1, StretchIs
  <2>2. mac # <<>>
    BY <1>1, OneUnit
  <2>3. hdr # <<>> /\ hdr[1] = F[(e + 2) + 1]
    BY <1>1, OneUnit
  <2> QED
    BY <1>1, <2>1, <2>2, <2>3
<1>5. m >= n => SubSeq(x, 1, n) = Stretch(F, e + 3, n) /\ SubSeq(x, n + 1, m) = Stretch(F, e + 3 + n, m - n)
  <2> SUFFICES ASSUME m >= n
               PROVE  SubSeq(x, 1, n) = Stretch(F, e + 3, n) /\ SubSeq(x, n + 1, m) = Stretch(F, e + 3 + n, m - n)
    OBVIOUS
  <2> HIDE DEF n
  <2>1. n \in 0 .. m /\ e + 3 \in Nat
    BY <1>1
  <2> HIDE DEF e
  <2> QED
    BY <2>1, StretchIsCut
<1>6. more = Stretch(L, b, N[i + 1] - b) /\ used = Stretch(K, 0, M[i + 1])
  <2>1. Counts(kind, i, L, N, K, M) /\ b <= N[i] /\ b \in Nat
    OBVIOUS
  <2>2. Grows(kind, i, L, N, K, M, b)
    BY <2>1, CountsGrow
  <2> QED
    BY <2>2, Zenon DEF Grows
<1>7. <<>> = Stretch(F, E[i + 1], 0) /\ <<>> = Stretch(F, E[i + 1] + 2, 0)
  BY <1>1, NoStretch
<1>8. next = Round(Stretch(F, e + 3 + n, m - n), <<>>, <<>>, more, used, Fine)
  <2> HIDE DEF e, n, more, used
  <2> QED BY <1>1, <1>6, <1>7 DEF Parts
<1> HIDE DEF d, k, x, mac, hdr, r, e, n, more, used, next
<1>9. /\ r.bad = FALSE /\ r.mac # <<>> /\ r.hdr # <<>> /\ r.buf = x
      /\ r.hdr[1].is = kind /\ r.hdr[1].of = i + 1
  BY <1>2, <1>3, <1>4 DEF Round, Fine
<1>10. NextPart(r) = IF Len(r.buf) >= n THEN Act(Take(r, n), i + 1, kind, SubSeq(r.buf, 1, n)) ELSE r
  BY <1>9 DEF NextPart, n
<1>11. CASE m < n
  <2>1. ~(Len(r.buf) >= n)
    BY <1>1, <1>4, <1>9, <1>11
  <2> QED
    BY <1>10, <1>11, <2>1 DEF r, n
<1>12. CASE ~(m < n)
  <2>1. Len(r.buf) >= n /\ m >= n
    <3>1. m >= n
      BY <1>1, <1>12
    <3>2. Len(r.buf) = m
      BY <1>4, <1>9, Zenon
    <3> QED
      BY <3>1, <3>2
  <2> DEFINE rest == SubSeq(x, n + 1, m)
             body == SubSeq(x, 1, n)
  <2>2. Take(r, n) = Round(rest, mac, hdr, d, k, Fine)
    <3>1. Take(Round(x, mac, hdr, d, k, Fine), n) = Round(SubSeq(x, n + 1, Len(x)), mac, hdr, d, k, Fine)
      BY TakeIs
    <3> QED
      BY <1>3, <1>4, <3>1, Zenon
  <2>3. body = Units("body", i + 1, TotalLen(kind)) /\ mac = Units("mac", i + 1, MacLength)
        /\ rest = Stretch(F, e + 3 + n, m - n)
    BY <1>2, <1>5, <2>1 DEF MacLength, mac, n
  <2> HIDE DEF rest, body
  <2>4. Act(Round(rest, mac, hdr, d, k, Fine), i + 1, kind, body) = Round(rest, <<>>, <<>>, more, used, Fine)
    BY <2>3, ActIs DEF more, used, More, Used
  <2>5. NextPart(r) = Act(Take(r, n), i + 1, kind, body)
    BY <1>9, <1>10, <2>1 DEF body
  <2>6. NextPart(r) = next
    BY <1>8, <2>2, <2>3, <2>4, <2>5, Zenon
  <2> QED
    BY <1>12, <2>6 DEF r, next, n
<1> QED
  BY <1>11, <1>12

\* What Known says of the next packet.
LEMMA NextPacket ==
  ASSUME NEW F, NEW E, NEW pad, NEW ks, NEW p, NEW L, NEW N, NEW K, NEW M,
         Known(F, E, pad, ks, p, L, N, K, M), NEW i \in 0 .. p, i # p
  PROVE  /\ ks[i + 1] \in Kinds /\ E[i] \in Nat /\ E[i + 1] \in Nat /\ i + 1 \in 0 .. p
         /\ PacketLaid(F, E[i], E[i + 1], i + 1, ks[i + 1])
         /\ Counts(ks[i + 1], i, L, N, K, M)
         /\ N[i] \in Nat /\ N[i + 1] \in Nat /\ N[i] <= N[i + 1] /\ E[i + 1] <= E[p]
<1>1. ks \in Seq(Kinds) /\ p = Len(ks) /\ p \in Nat
  BY DEF Known
<1>2. i \in 0 .. p - 1 /\ i + 1 \in 0 .. p /\ i + 1 \in 1 .. Len(ks)
  BY <1>1
<1>3. ks[i + 1] \in Kinds
  BY <1>1, <1>2
<1>4. E \in [0 .. p -> Nat] /\ PacketLaid(F, E[i], E[i + 1], i + 1, ks[i + 1])
      /\ \A j \in 0 .. p : E[j] <= E[p]
  BY <1>2 DEF Known, Laid
<1>5. /\ N \in [0 .. p -> Nat]
      /\ IF ks[i + 1] \in {"payload"} THEN N[i + 1] = N[i] + 1 /\ L[N[i] + 1] = i + 1 ELSE N[i + 1] = N[i]
  BY <1>2 DEF Known, Counted
<1>6. /\ M \in [0 .. p -> Nat]
      /\ IF ks[i + 1] \in {"ticket", "seed"} THEN M[i + 1] = M[i] + 1 /\ K[M[i] + 1] = i + 1 ELSE M[i + 1] = M[i]
  BY <1>2 DEF Known, Counted
<1>7. E[i] \in Nat /\ E[i + 1] \in Nat /\ N[i] \in Nat /\ N[i + 1] \in Nat /\ M[i] \in Nat
  BY <1>2, <1>4, <1>5, <1>6
<1>8. Counts(ks[i + 1], i, L, N, K, M)
  BY <1>5, <1>6, <1>7 DEF Counts
<1>9. N[i] <= N[i + 1]
  BY <1>5, <1>7
<1> QED
  BY <1>2, <1>3, <1>4, <1>7, <1>8, <1>9

\* One part: there is less left than before.
LEMMA PartIsTaken ==
  ASSUME NEW F, NEW E, NEW pad, NEW ks, NEW p, NEW L, NEW N, NEW K, NEW M,
         Known(F, E, pad, ks, p, L, N, K, M), NEW b \in Nat, NEW top \in Nat, top <= E[p],
         NEW i, NEW u, NEW h, NEW m, At(E, p, top, N, b, i, u, h, m)
  PROVE  /\ Waits(ks, i, u, h, m)
              => NextPart(Parts(F, E, L, N, K, M, b, i, u, h, m)) = Parts(F, E, L, N, K, M, b, i, u, h, m)
         /\ ~Waits(ks, i, u, h, m)
              => \E j, v, g, o : /\ At(E, p, top, N, b, j, v, g, o) /\ 2 * o + g < 2 * m + h
                                 /\ NextPart(Parts(F, E, L, N, K, M, b, i, u, h, m))
                                      = Parts(F, E, L, N, K, M, b, j, v, g, o)
<1>1. /\ i \in 0 .. p /\ m \in Nat /\ E[i] + u + h + m = top /\ b <= N[i]
      /\ (u = 0 /\ h = 0) \/ (u = 2 /\ h = 0) \/ (u = 2 /\ h = 1)
      /\ u = 2 => i < p
  BY DEF At
<1>2. E[i] \in Nat /\ E[p] \in Nat
  <2>1. E \in [0 .. p -> Nat] /\ p \in Nat
    BY DEF Known, Laid
  <2> QED
    BY <1>1, <2>1
<1>3. CASE u = 0 /\ h = 0
  <2>1. NextPart(Parts(F, E, L, N, K, M, b, i, 0, 0, m))
          = IF m < 2 THEN Parts(F, E, L, N, K, M, b, i, 0, 0, m)
            ELSE Parts(F, E, L, N, K, M, b, i, 2, 0, m - 2)
    BY <1>1, <1>2, MacIsTaken
  <2>2. Waits(ks, i, 0, 0, m) <=> m < 2
    BY DEF Waits
  <2>3. CASE m < 2
    BY <1>3, <2>1, <2>2, <2>3
  <2>4. CASE ~(m < 2)
    <3>1. i # p
      <4>1. SUFFICES ASSUME i = p PROVE FALSE
        OBVIOUS
      <4> QED
        BY <1>1, <1>2, <1>3, <2>4, <4>1
    <3>2. m - 2 \in Nat /\ i < p /\ E[i] + 2 + 0 + (m - 2) = top /\ 2 * (m - 2) + 0 < 2 * m + 0
      <4>1. p \in Nat
        BY DEF Known
      <4> QED
        BY <1>1, <1>2, <1>3, <2>4, <3>1, <4>1
    <3>3. At(E, p, top, N, b, i, 2, 0, m - 2)
      <4> DEFINE o == m - 2
      <4>1. o \in Nat /\ i < p /\ E[i] + 2 + 0 + o = top /\ i \in 0 .. p /\ b <= N[i]
        BY <1>1, <3>2
      <4> HIDE DEF o
      <4>2. At(E, p, top, N, b, i, 2, 0, o)
        BY <4>1 DEF At
      <4> QED
        BY <4>2 DEF o
    <3>4. NextPart(Parts(F, E, L, N, K, M, b, i, 0, 0, m)) = Parts(F, E, L, N, K, M, b, i, 2, 0, m - 2)
      BY <2>1, <2>4
    <3> QED
      BY <1>3, <2>2, <2>4, <3>2, <3>3, <3>4
  <2> QED
    BY <2>3, <2>4
<1>4. CASE u = 2 /\ h = 0
  <2>1. i # p
    BY <1>1, <1>4
  <2>2. F[E[i] + 3].is \in Kinds
    <3>1. ks[i + 1] \in Kinds /\ PacketLaid(F, E[i], E[i + 1], i + 1, ks[i + 1])
      BY <1>1, <2>1, NextPacket
    <3> QED
      BY <3>1 DEF PacketLaid
  <2>3. NextPart(Parts(F, E, L, N, K, M, b, i, 2, 0, m))
          = IF m < 1 THEN Parts(F, E, L, N, K, M, b, i, 2, 0, m)
            ELSE Parts(F, E, L, N, K, M, b, i, 2, 1, m - 1)
    BY <1>1, <1>2, <2>2, HeaderIsTaken
  <2>4. Waits(ks, i, 2, 0, m) <=> m < 1
    BY DEF Waits
  <2>5. CASE m < 1
    BY <1>4, <2>3, <2>4, <2>5
  <2>6. CASE ~(m < 1)
    <3>1. m - 1 \in Nat /\ i < p /\ E[i] + 2 + 1 + (m - 1) = top /\ 2 * (m - 1) + 1 < 2 * m + 0
      BY <1>1, <1>2, <1>4, <2>6
    <3>2. At(E, p, top, N, b, i, 2, 1, m - 1)
      BY <1>1, <3>1 DEF At
    <3>3. NextPart(Parts(F, E, L, N, K, M, b, i, 2, 0, m)) = Parts(F, E, L, N, K, M, b, i, 2, 1, m - 1)
      BY <2>3, <2>6
    <3> QED
      BY <1>4, <2>4, <2>6, <3>1, <3>2, <3>3
  <2> QED
    BY <2>5, <2>6
<1>5. CASE u = 2 /\ h = 1
  <2> DEFINE kind == ks[i + 1]
             n == TotalLen(kind)
  <2>1. i # p
    BY <1>1, <1>5
  <2>2. /\ kind \in Kinds /\ PacketLaid(F, E[i], E[i + 1], i + 1, kind) /\ Counts(kind, i, L, N, K, M)
        /\ N[i] \in Nat /\ N[i + 1] \in Nat /\ N[i] <= N[i + 1] /\ i + 1 \in 0 .. p
    BY <1>1, <2>1, NextPacket
  <2> HIDE DEF kind
  <2>3. n \in Nat /\ E[i + 1] = E[i] + 3 + n
    BY <2>2, TotalLenType DEF PacketLaid
  <2>4. NextPart(Parts(F, E, L, N, K, M, b, i, 2, 1, m))
          = IF m < n THEN Parts(F, E, L, N, K, M, b, i, 2, 1, m)
            ELSE Parts(F, E, L, N, K, M, b, i + 1, 0, 0, m - n)
    <3>1. m \in Nat /\ b \in Nat /\ kind \in Kinds /\ E[i] \in Nat /\ b <= N[i]
          /\ PacketLaid(F, E[i], E[i + 1], i + 1, kind) /\ Counts(kind, i, L, N, K, M)
      BY <1>1, <1>2, <2>2
    <3> QED
      BY <3>1, BodyIsTaken
  <2> HIDE DEF n
  <2>5. Waits(ks, i, 2, 1, m) <=> m < n
    BY DEF Waits, n, kind
  <2>6. CASE m < n
    BY <1>5, <2>4, <2>5, <2>6
  <2>7. CASE ~(m < n)
    <3>1. m - n \in Nat /\ E[i + 1] + 0 + 0 + (m - n) = top /\ 2 * (m - n) + 0 < 2 * m + 1
      BY <1>1, <1>2, <1>5, <2>3, <2>7
    <3>2. b <= N[i + 1]
      BY <1>1, <2>2
    <3>3. At(E, p, top, N, b, i + 1, 0, 0, m - n)
      <4> DEFINE o == m - n
                 j == i + 1
      <4>1. o \in Nat /\ E[j] + 0 + 0 + o = top /\ j \in 0 .. p /\ b <= N[j]
        BY <2>2, <3>1, <3>2
      <4> HIDE DEF o, j
      <4>2. At(E, p, top, N, b, j, 0, 0, o)
        BY <4>1 DEF At
      <4> QED
        BY <4>2 DEF o, j
    <3>4. NextPart(Parts(F, E, L, N, K, M, b, i, 2, 1, m)) = Parts(F, E, L, N, K, M, b, i + 1, 0, 0, m - n)
      BY <2>4, <2>7
    <3> QED
      BY <1>5, <2>5, <2>7, <3>1, <3>3, <3>4
  <2> QED
    BY <2>6, <2>7
<1> QED
  BY <1>1, <1>3, <1>4, <1>5

\* The rounds of the loop of readPackets.
Rounds(f, r, k) == f = [n \in 0 .. k |-> IF n = 0 THEN r ELSE NextPart(f[n - 1])]

LEMMA RoundsExist ==
  ASSUME NEW r, NEW k \in Nat
  PROVE  \E f : Rounds(f, r, k)
<1> DEFINE T == {n \in 0 .. k : \E f : Rounds(f, r, n)}
<1>1. 0 \in T
  <2> DEFINE f == [n \in 0 .. 0 |-> r]
  <2>1. Rounds(f, r, 0)
    BY DEF Rounds
  <2> QED
    BY <2>1
<1>2. ASSUME NEW n \in 0 .. k - 1, n \in T
      PROVE  n + 1 \in T
  <2>1. PICK f : Rounds(f, r, n)
    BY <1>2
  <2> DEFINE g == [i \in 0 .. n + 1 |-> IF i <= n THEN f[i] ELSE NextPart(f[n])]
  <2>2. ASSUME NEW i \in 0 .. n + 1
        PROVE  g[i] = IF i = 0 THEN r ELSE NextPart(g[i - 1])
    <3>1. n \in Nat
      BY <1>2
    <3>2. CASE i = 0
      BY <2>1, <3>1, <3>2 DEF Rounds
    <3>3. CASE i > 0 /\ i <= n
      <4>1. i \in 0 .. n /\ i # 0 /\ i - 1 \in 0 .. n + 1 /\ i - 1 <= n
        BY <3>1, <3>3
      <4>2. g[i] = f[i] /\ g[i - 1] = f[i - 1]
        BY <3>3, <4>1
      <4>3. f[i] = NextPart(f[i - 1])
        BY <2>1, <4>1 DEF Rounds
      <4> QED
        BY <4>1, <4>2, <4>3
    <3>4. CASE i = n + 1
      <4>1. ~(i <= n) /\ i # 0 /\ i - 1 = n /\ n \in 0 .. n + 1 /\ n <= n
        BY <3>1, <3>4
      <4>2. g[i] = NextPart(f[n]) /\ g[i - 1] = f[n]
        BY <4>1
      <4> QED
        BY <4>1, <4>2
    <3> QED
      BY <3>1, <3>2, <3>3, <3>4
  <2>3. Rounds(g, r, n + 1)
    BY <2>2 DEF Rounds
  <2>4. n + 1 \in 0 .. k
    BY <1>2
  <2> HIDE DEF g
  <2> QED
    BY <2>3, <2>4
<1> HIDE DEF T
<1>3. k \in T
  <2>1. 0 .. k \subseteq T
    BY <1>1, <1>2, ReachesFromZero
  <2> QED
    BY <2>1
<1> QED
  BY <1>3 DEF T

LEMMA ProcessIs ==
  ASSUME NEW r, Len(r.buf) \in Nat
  PROVE  \E f : Rounds(f, r, 3 * Len(r.buf) + 1) /\ Process(r) = f[3 * Len(r.buf) + 1]
<1> DEFINE k == 3 * Len(r.buf) + 1
           f == CHOOSE f : Rounds(f, r, k)
<1>1. Rounds(f, r, k)
  <2>1. k \in Nat
    OBVIOUS
  <2> HIDE DEF k
  <2> QED
    BY <2>1, RoundsExist
<1>2. Process(r) = f[k]
  BY DEF Process, Rounds
<1> QED
  BY <1>1, <1>2

\* What is left is not enough for the next part, or there is not much left.
Reached(F, E, ks, p, L, N, K, M, b, top, r, q) ==
  \E i, u, h, m : /\ At(E, p, top, N, b, i, u, h, m)
                  /\ Waits(ks, i, u, h, m) \/ 2 * m + h <= q
                  /\ r = Parts(F, E, L, N, K, M, b, i, u, h, m)

Settled(F, E, ks, p, L, N, K, M, b, top, r) ==
  \E i, u, h, m : /\ At(E, p, top, N, b, i, u, h, m)
                  /\ Waits(ks, i, u, h, m)
                  /\ r = Parts(F, E, L, N, K, M, b, i, u, h, m)

\* The loop takes all that is whole.
LEMMA LoopSettles ==
  ASSUME NEW F, NEW E, NEW pad, NEW ks, NEW p, NEW L, NEW N, NEW K, NEW M,
         Known(F, E, pad, ks, p, L, N, K, M), NEW b \in Nat, NEW top \in Nat, top <= E[p],
         NEW i, NEW u, NEW h, NEW m, At(E, p, top, N, b, i, u, h, m)
  PROVE  Settled(F, E, ks, p, L, N, K, M, b, top, Process(Parts(F, E, L, N, K, M, b, i, u, h, m)))
<1> DEFINE r == Parts(F, E, L, N, K, M, b, i, u, h, m)
           k == 3 * m + 1
<1>1. /\ m \in Nat /\ i \in 0 .. p
      /\ (u = 0 /\ h = 0) \/ (u = 2 /\ h = 0) \/ (u = 2 /\ h = 1)
  BY DEF At
<1>2. Len(r.buf) = m
  <2>1. E[i] \in Nat
    BY <1>1 DEF Known, Laid
  <2>2. E[i] + u + h \in Nat
    BY <1>1, <2>1
  <2>3. r.buf = Stretch(F, E[i] + u + h, m)
    BY DEF Parts, Round
  <2> DEFINE c == E[i] + u + h
  <2> HIDE DEF r, c
  <2>4. Len(Stretch(F, c, m)) = m
    BY <1>1, <2>2, StretchIs DEF c
  <2> QED
    BY <2>3, <2>4 DEF c
<1> HIDE DEF r
<1>3. PICK f : Rounds(f, r, k) /\ Process(r) = f[k]
  BY <1>1, <1>2, ProcessIs
<1>4. k \in Nat /\ h \in Nat /\ h <= 1
  BY <1>1
<1> DEFINE T == {n \in 0 .. k : Reached(F, E, ks, p, L, N, K, M, b, top, f[n], (2 * m + 1) - n)}
<1>5. 0 \in T
  <2>1. f[0] = r /\ 0 \in 0 .. k
    BY <1>3, <1>4 DEF Rounds
  <2>2. 2 * m + h <= (2 * m + 1) - 0
    BY <1>1, <1>4
  <2>3. Reached(F, E, ks, p, L, N, K, M, b, top, f[0], (2 * m + 1) - 0)
    BY <2>1, <2>2 DEF Reached, r
  <2> QED
    BY <2>1, <2>3
<1>6. ASSUME NEW n \in 0 .. k - 1, n \in T
      PROVE  n + 1 \in T
  <2>1. PICK j, v, g, o : /\ At(E, p, top, N, b, j, v, g, o)
                          /\ Waits(ks, j, v, g, o) \/ 2 * o + g <= (2 * m + 1) - n
                          /\ f[n] = Parts(F, E, L, N, K, M, b, j, v, g, o)
    BY <1>6 DEF Reached
  <2>2. n + 1 \in 0 .. k /\ n + 1 # 0 /\ (n + 1) - 1 = n
    BY <1>4
  <2>3. f[n + 1] = NextPart(f[n])
    BY <1>3, <2>2 DEF Rounds
  <2>4. CASE Waits(ks, j, v, g, o)
    <3>1. f[n + 1] = Parts(F, E, L, N, K, M, b, j, v, g, o)
      BY <2>1, <2>3, <2>4, PartIsTaken
    <3> QED
      BY <2>1, <2>2, <2>4, <3>1 DEF Reached
  <2>5. CASE ~Waits(ks, j, v, g, o)
    <3>1. PICK j2, v2, g2, o2 : /\ At(E, p, top, N, b, j2, v2, g2, o2) /\ 2 * o2 + g2 < 2 * o + g
                                /\ NextPart(f[n]) = Parts(F, E, L, N, K, M, b, j2, v2, g2, o2)
      BY <2>1, <2>5, PartIsTaken
    <3>2. 2 * o2 + g2 <= (2 * m + 1) - (n + 1)
      <4>1. o2 \in Nat /\ g2 \in Nat /\ o \in Nat /\ g \in Nat
        BY <2>1, <3>1 DEF At
      <4>2. 2 * o + g <= (2 * m + 1) - n /\ n \in Nat
        BY <1>4, <2>1, <2>5
      <4> QED
        BY <1>1, <3>1, <4>1, <4>2
    <3> QED
      BY <2>2, <2>3, <3>1, <3>2 DEF Reached
  <2> QED
    BY <2>4, <2>5
<1> HIDE DEF T
<1>7. k \in T
  <2>1. 0 .. k \subseteq T
    BY <1>4, <1>5, <1>6, ReachesFromZero
  <2> QED
    BY <1>4, <2>1
<1>8. PICK j, v, g, o : /\ At(E, p, top, N, b, j, v, g, o)
                        /\ Waits(ks, j, v, g, o) \/ 2 * o + g <= (2 * m + 1) - k
                        /\ f[k] = Parts(F, E, L, N, K, M, b, j, v, g, o)
  BY <1>7 DEF T, Reached
<1>9. Waits(ks, j, v, g, o)
  <2> SUFFICES ASSUME 2 * o + g <= (2 * m + 1) - k
               PROVE  Waits(ks, j, v, g, o)
    BY <1>8
  <2>1. o \in Nat /\ g \in Nat
    BY <1>8 DEF At
  <2>2. o = 0 /\ g = 0
    BY <1>1, <2>1
  <2> QED
    BY <2>2 DEF Waits
<1> QED
  BY <1>3, <1>8, <1>9 DEF Settled, r

\* When all the server has sent is in the buffer and no part is whole, all the
\* packets are done.
LEMMA WaitsAtEnd ==
  ASSUME NEW F, NEW E, NEW pad, NEW ks, NEW p, NEW L, NEW N, NEW K, NEW M,
         Known(F, E, pad, ks, p, L, N, K, M), NEW b,
         NEW i, NEW u, NEW h, NEW m, At(E, p, E[p], N, b, i, u, h, m), Waits(ks, i, u, h, m)
  PROVE  i = p
<1> SUFFICES ASSUME i # p
             PROVE  FALSE
  OBVIOUS
<1>1. /\ i \in 0 .. p /\ m \in Nat /\ E[i] + u + h + m = E[p]
      /\ (u = 0 /\ h = 0) \/ (u = 2 /\ h = 0) \/ (u = 2 /\ h = 1)
  BY DEF At
<1> DEFINE n == TotalLen(ks[i + 1])
<1>2. /\ ks[i + 1] \in Kinds /\ E[i] \in Nat /\ E[i + 1] \in Nat /\ E[i + 1] <= E[p]
      /\ PacketLaid(F, E[i], E[i + 1], i + 1, ks[i + 1])
  BY <1>1, NextPacket
<1>3. n \in Nat /\ E[i + 1] = E[i] + 3 + n
  BY <1>2, TotalLenType DEF PacketLaid
<1>4. (u = 0 => m < 2) /\ (u = 2 /\ h = 0 => m < 1) /\ (h = 1 => m < n)
  BY DEF Waits
<1> HIDE DEF n
<1>5. E[i] + 3 + n <= E[i] + u + h + m
  BY <1>1, <1>2, <1>3
<1> QED
  BY <1>1, <1>2, <1>3, <1>4, <1>5

(***************************************************************************)
(* The response.                                                           *)
(***************************************************************************)

ResponseUnit(pad, k) ==
  IF k <= 1 THEN [is |-> "key", of |-> 0, nth |-> k]
  ELSE IF k <= pad + 1 THEN [is |-> "pad", of |-> 0, nth |-> k - 1]
  ELSE IF k <= pad + 3 THEN [is |-> "mark", of |-> 0, nth |-> k - (pad + 1)]
  ELSE [is |-> "mac", of |-> 0, nth |-> k - (pad + 3)]

LEMMA FrontsJoin ==
  ASSUME NEW F, NEW a \in Nat, NEW n \in Nat, NEW c, c = a + n
  PROVE  Stretch(F, 0, a) \o Stretch(F, a, n) = Stretch(F, 0, c)
<1>1. Stretch(F, 0, a) \o Stretch(F, 0 + a, n) = Stretch(F, 0, a + n)
  BY 0 \in Nat, StretchesJoin
<1>2. 0 + a = a
  OBVIOUS
<1> QED
  BY <1>1, <1>2

LEMMA ResponseIs ==
  ASSUME NEW pad \in Nat, NEW G, \A k \in 1 .. pad + 5 : G[k] = ResponseUnit(pad, k)
  PROVE  Response(pad) = Stretch(G, 0, pad + 5)
<1>1. Units("key", 0, 1) = Stretch(G, 0, 1)
  <2>1. ASSUME NEW j \in 1 .. 1
        PROVE  G[0 + j] = [is |-> "key", of |-> 0, nth |-> j]
    <3>1. 0 + j = j /\ j \in 1 .. pad + 5 /\ j <= 1
      OBVIOUS
    <3> QED
      BY <3>1 DEF ResponseUnit
  <2> QED
    BY <2>1 DEF Units, Stretch
<1>2. Units("pad", 0, pad) = Stretch(G, 1, pad)
  <2>1. ASSUME NEW j \in 1 .. pad
        PROVE  G[1 + j] = [is |-> "pad", of |-> 0, nth |-> j]
    <3>1. 1 + j \in 1 .. pad + 5 /\ ~(1 + j <= 1) /\ 1 + j <= pad + 1 /\ (1 + j) - 1 = j
      OBVIOUS
    <3> QED
      BY <3>1 DEF ResponseUnit
  <2> QED
    BY <2>1 DEF Units, Stretch
<1>3. Units("mark", 0, 2) = Stretch(G, pad + 1, 2)
  <2>1. ASSUME NEW j \in 1 .. 2
        PROVE  G[(pad + 1) + j] = [is |-> "mark", of |-> 0, nth |-> j]
    <3> DEFINE k == (pad + 1) + j
    <3>1. k \in 1 .. pad + 5 /\ ~(k <= 1) /\ ~(k <= pad + 1) /\ k <= pad + 3 /\ k - (pad + 1) = j
      OBVIOUS
    <3> HIDE DEF k
    <3>2. G[k] = [is |-> "mark", of |-> 0, nth |-> j]
      BY <3>1 DEF ResponseUnit
    <3> QED
      BY <3>2 DEF k
  <2> QED
    BY <2>1 DEF Units, Stretch
<1>4. Units("mac", 0, 2) = Stretch(G, pad + 3, 2)
  <2>1. ASSUME NEW j \in 1 .. 2
        PROVE  G[(pad + 3) + j] = [is |-> "mac", of |-> 0, nth |-> j]
    <3> DEFINE k == (pad + 3) + j
    <3>1. k \in 1 .. pad + 5 /\ ~(k <= 1) /\ ~(k <= pad + 1) /\ ~(k <= pad + 3) /\ k - (pad + 3) = j
      OBVIOUS
    <3> HIDE DEF k
    <3>2. G[k] = [is |-> "mac", of |-> 0, nth |-> j]
      BY <3>1 DEF ResponseUnit
    <3> QED
      BY <3>2 DEF k
  <2> QED
    BY <2>1 DEF Units, Stretch
<1>5. /\ 1 \in Nat /\ pad + 1 \in Nat /\ pad + 3 \in Nat
      /\ pad + 1 = 1 + pad /\ pad + 3 = (pad + 1) + 2 /\ pad + 5 = (pad + 3) + 2
  OBVIOUS
<1>6. Stretch(G, 0, 1) \o Stretch(G, 1, pad) = Stretch(G, 0, pad + 1)
  BY <1>5, FrontsJoin
<1>7. Stretch(G, 0, pad + 1) \o Stretch(G, pad + 1, 2) = Stretch(G, 0, pad + 3)
  <2> DEFINE x == pad + 1
             y == pad + 3
  <2>1. x \in Nat /\ y = x + 2
    BY <1>5
  <2> HIDE DEF x, y
  <2>2. Stretch(G, 0, x) \o Stretch(G, x, 2) = Stretch(G, 0, y)
    BY <2>1, 2 \in Nat, FrontsJoin
  <2> QED
    BY <2>2 DEF x, y
<1>8. Stretch(G, 0, pad + 3) \o Stretch(G, pad + 3, 2) = Stretch(G, 0, pad + 5)
  <2> DEFINE x == pad + 3
             y == pad + 5
  <2>1. x \in Nat /\ y = x + 2
    BY <1>5
  <2> HIDE DEF x, y
  <2>2. Stretch(G, 0, x) \o Stretch(G, x, 2) = Stretch(G, 0, y)
    BY <2>1, 2 \in Nat, FrontsJoin
  <2> QED
    BY <2>2 DEF x, y
<1>9. Response(pad) = ((Units("key", 0, 1) \o Units("pad", 0, pad)) \o Units("mark", 0, 2)) \o Units("mac", 0, 2)
  BY DEF Response, Mark, Size, MacLength
<1> DEFINE a == Stretch(G, 0, 1)
           b == Stretch(G, 1, pad)
           c == Stretch(G, pad + 1, 2)
           d == Stretch(G, pad + 3, 2)
           ab == Stretch(G, 0, pad + 1)
           abc == Stretch(G, 0, pad + 3)
           abcd == Stretch(G, 0, pad + 5)
<1>10. a \o b = ab /\ ab \o c = abc /\ abc \o d = abcd
  BY <1>5, <1>6, <1>7, <1>8
<1>11. Response(pad) = ((a \o b) \o c) \o d
  BY <1>1, <1>2, <1>3, <1>4, <1>9
<1> HIDE DEF a, b, c, d, ab, abc, abcd
<1>12. Response(pad) = abcd
  BY <1>10, <1>11, Zenon
<1> QED
  BY <1>12 DEF abcd

\* Before the first packet: the response, or nothing.
LEMMA FirstLaid ==
  ASSUME NEW pad \in Nat, NEW response \in {0, pad + 5}
  PROVE  \E F, E : Laid(F, E, pad, <<>>, 0) /\ E[0] = response
<1> DEFINE F == [k \in Nat |-> ResponseUnit(pad, k)]
           E == [i \in 0 .. 0 |-> response]
<1>1. E[0] = response /\ response \in Nat
  OBVIOUS
<1>2. \A k \in 1 .. pad + 5 : F[k] = ResponseUnit(pad, k)
  <2>1. \A k \in 1 .. pad + 5 : k \in Nat
    OBVIOUS
  <2> QED
    BY <2>1
<1>3. E \in [0 .. 0 -> Nat] /\ \A i \in 0 .. 0 : E[i] <= E[0]
  BY <1>1
<1> HIDE DEF F, E
<1>4. E[0] # 0 => E[0] = pad + 5 /\ Stretch(F, 0, pad + 5) = Response(pad)
  <2>1. Response(pad) = Stretch(F, 0, pad + 5)
    BY <1>2, ResponseIs
  <2> QED
    BY <1>1, <2>1
<1>5. ASSUME NEW k \in 1 .. E[0], F[k].is = "mark" /\ F[k].nth = 1
      PROVE  E[0] # 0 /\ k = pad + 2
  <2>1. E[0] = pad + 5 /\ k \in 1 .. pad + 5
    BY <1>1, <1>5
  <2>2. F[k] = ResponseUnit(pad, k)
    BY <1>2, <2>1
  <2>3. /\ k <= 1 => F[k].is = "key"
        /\ ~(k <= 1) /\ k <= pad + 1 => F[k].is = "pad"
        /\ ~(k <= 1) /\ ~(k <= pad + 1) /\ k <= pad + 3 => F[k].nth = k - (pad + 1)
        /\ ~(k <= 1) /\ ~(k <= pad + 1) /\ ~(k <= pad + 3) => F[k].is = "mac"
    BY <2>2 DEF ResponseUnit
  <2>4. k - (pad + 1) = 1
    BY <1>5, <2>3
  <2> QED
    BY <2>1, <2>4
<1>6. \A i \in 0 .. 0 - 1 : PacketLaid(F, E[i], E[i + 1], i + 1, <<>>[i + 1])
  OBVIOUS
<1>7. Laid(F, E, pad, <<>>, 0)
  BY <1>3, <1>4, <1>5, <1>6 DEF Laid
<1> QED
  BY <1>1, <1>7

\* The mark is found nowhere but where it is.
LEMMA MarkIsAt ==
  ASSUME NEW F, NEW E, NEW pad \in Nat, NEW ks, NEW p \in Nat, Laid(F, E, pad, ks, p),
         NEW t \in Nat, t <= E[p], MarkAt(Stretch(F, 0, t)) # -1
  PROVE  MarkAt(Stretch(F, 0, t)) = pad
<1> DEFINE resp == Stretch(F, 0, t)
           S == OnStream(F)
           endPos == IF Len(resp) > MaxHandshakeLength - MacLength
                     THEN MaxHandshakeLength - MacLength ELSE Len(resp)
           Found == {q \in 0 .. endPos - Size - MacLength :
                       SubSeq(resp, Size + q + 1, Size + q + MacLength) = Mark}
<1>1. resp \in Seq(S) /\ Len(resp) = t /\ \A i \in 1 .. t : resp[i] = F[0 + i]
  BY 0 \in Nat, StretchIs
<1>2. MarkAt(resp) = IF Found = {} THEN -1 ELSE CHOOSE q \in Found : \A o \in Found : q <= o
  BY DEF MarkAt
<1>3. Found # {}
  <2> HIDE DEF Found, resp
  <2> QED BY <1>2 DEF resp
<1>4. endPos \in Int /\ endPos <= t
  BY <1>1, ScramblesuitAssumption DEF MaxHandshakeLength, MacLength, Size
<1> HIDE DEF resp, endPos
<1>5. Found \subseteq Nat
  BY <1>4 DEF Size, MacLength
<1>6. MarkAt(resp) \in Found
  <2> HIDE DEF Found
  <2>1. \E q \in Found : \A o \in Found : q <= o
    BY <1>3, <1>5, LeastNatural
  <2> QED
    BY <1>2, <1>3, <2>1
<1> DEFINE q == MarkAt(resp)
           x == SubSeq(resp, q + 2, q + 3)
<1>7. q \in Nat /\ q + 3 <= t /\ SubSeq(resp, Size + q + 1, Size + q + MacLength) = Mark
  <2> HIDE DEF q
  <2>1. q \in Found
    BY <1>6 DEF q
  <2> QED
    BY <1>4, <2>1 DEF Size, MacLength
<1> HIDE DEF q, Found
<1>8. Size + q + 1 = q + 2 /\ Size + q + MacLength = q + 3
  BY <1>7 DEF Size, MacLength
<1>9. x = Mark
  BY <1>7, <1>8
<1>10. x[1] = resp[q + 2]
  <2>1. \A i \in q + 2 .. q + 3 : resp[i] \in S
    <3>1. \A i \in q + 2 .. q + 3 : i \in 1 .. Len(resp)
      BY <1>1, <1>7
    <3> HIDE DEF S
    <3> QED
      BY <1>1, <3>1
  <2>2. q + 2 \in Int /\ q + 3 \in Int
    BY <1>7
  <2>3. \A i \in 1 .. (q + 3) - (q + 2) + 1 : x[i] = resp[(q + 2) + i - 1]
    BY <2>1, <2>2, SubSeqProperties
  <2>4. 1 \in 1 .. (q + 3) - (q + 2) + 1 /\ (q + 2) + 1 - 1 = q + 2
    BY <1>7
  <2> HIDE DEF x
  <2> QED
    BY <2>3, <2>4
<1>11. Mark[1] = [is |-> "mark", of |-> 0, nth |-> 1]
  BY DEF Mark, Units, MacLength
<1>12. resp[q + 2] = F[q + 2]
  <2>1. q + 2 \in 1 .. t /\ 0 + (q + 2) = q + 2
    BY <1>7
  <2> QED
    BY <1>1, <2>1
<1>13. F[q + 2].is = "mark" /\ F[q + 2].nth = 1
  <2> HIDE DEF x
  <2>1. F[q + 2] = [is |-> "mark", of |-> 0, nth |-> 1]
    BY <1>9, <1>10, <1>11, <1>12, Zenon
  <2> QED
    BY <2>1
<1>14. q + 2 = pad + 2
  <2>1. E[p] \in Nat
    BY DEF Laid
  <2>2. q + 2 \in 1 .. E[p]
    BY <1>7, <2>1
  <2> QED
    BY <1>13, <2>2 DEF Laid
<1> QED
  BY <1>7, <1>14 DEF q, resp

\* What is recognised as the response is the response.
LEMMA ValidIsWhole ==
  ASSUME NEW F, NEW E, NEW pad \in Nat, NEW ks, NEW p \in Nat, Laid(F, E, pad, ks, p),
         NEW t \in Nat, t <= E[p], ParseServerHandshake(Stretch(F, 0, t)) = "valid"
  PROVE  ResponseLength(Stretch(F, 0, t)) = pad + 5 /\ pad + 5 <= t
<1> DEFINE resp == Stretch(F, 0, t)
<1>1. Len(resp) = t
  BY 0 \in Nat, StretchIs
<1> HIDE DEF resp
<1>2. MarkAt(resp) # -1 /\ ~(Len(resp) < ResponseLength(resp))
  BY <1>1 DEF resp, ParseServerHandshake, MinHandshakeLength, Size, MacLength
<1>3. MarkAt(resp) = pad
  BY <1>2, MarkIsAt DEF resp
<1>4. ResponseLength(resp) = pad + 5
  BY <1>3 DEF ResponseLength, Size, MacLength
<1> QED
  BY <1>1, <1>2, <1>4 DEF resp

(***************************************************************************)
(* The invariant.                                                          *)
(***************************************************************************)

\* Nothing has happened.
Dialing ==
  /\ arriving = <<>> /\ ended = "no" /\ packets = <<>>
  /\ receiveBuffer = <<>> /\ receiveState = NoPart /\ receiveDecodedBuffer = <<>>
  /\ returned = <<>> /\ handled = <<>> /\ fresh = TRUE /\ cause = "none"

\* F is what the server sends of the packets.
Server(F, E, pad, p, L, N, K, M) ==
  /\ Known(F, E, pad, packets, p, L, N, K, M)
  /\ L = Chosen(packets, {"payload"}) /\ K = Chosen(packets, {"ticket", "seed"})

\* What has come and what is on the way goes up to this place.
GoesTo(E, p, at) == at <= E[p] /\ (ended # "broken" => at = E[p])

\* m units of the response are in the buffer, n more units are on the way.
WaitingWith(F, E, pad, p, m, n) ==
  /\ m \in Nat /\ n \in Nat /\ E[0] = pad + 5
  /\ receiveBuffer = Stretch(F, 0, m) /\ arriving = Stretch(F, m, n) /\ GoesTo(E, p, m + n)
  /\ receiveState = NoPart /\ receiveDecodedBuffer = <<>>
  /\ returned = <<>> /\ handled = <<>> /\ fresh = TRUE /\ cause = "none"

\* b payloads have been returned, i packets are done and those payloads are
\* returned or decoded, those tickets and seeds used.
OpenWith(F, E, p, L, N, K, M, b, top, n, i, u, h, m) ==
  /\ b \in Nat /\ top \in Nat /\ n \in Nat
  /\ At(E, p, top, N, b, i, u, h, m)
  /\ receiveBuffer = Stretch(F, E[i] + u + h, m)
  /\ receiveState = [mac |-> Stretch(F, E[i], u), hdr |-> Stretch(F, E[i] + 2, h)]
  /\ arriving = Stretch(F, top, n) /\ GoesTo(E, p, top + n)
  /\ returned = Stretch(L, 0, b) /\ receiveDecodedBuffer = Stretch(L, b, N[i] - b)
  /\ handled = Stretch(K, 0, M[i])
  /\ cause = "none" /\ (fresh # TRUE => Waits(packets, i, u, h, m))

\* What has been returned and used when the client is done.
OverWith(L, N, K, M, p, k, j) ==
  /\ k \in 0 .. N[p] /\ j \in 0 .. p
  /\ cause # "packet" /\ receiveDecodedBuffer = <<>>
  /\ returned = Stretch(L, 0, k) /\ handled = Stretch(K, 0, M[j])
  /\ cause = "none" => ended # "no"
  /\ ended = "closed" /\ cause = "none" => k = N[p]

Client(F, E, pad, p, L, N, K, M) ==
  /\ step = "awaitResponse" => \E m, n : WaitingWith(F, E, pad, p, m, n)
  /\ step = "open" => \E b, top, n, i, u, h, m : OpenWith(F, E, p, L, N, K, M, b, top, n, i, u, h, m)
  /\ step = "over" => \E k, j : OverWith(L, N, K, M, p, k, j)

SsTypes ==
  /\ packets \in Seq(Kinds) /\ ended \in {"no", "closed", "broken"}
  /\ step \in {"dial", "awaitResponse", "open", "over"}

\* From the first step on there are a stream F of the server, the ends E of its
\* packets, the padding of its response and the lists of what is to be used,
\* and the client is at a place of that stream.
SsInv ==
  /\ SsTypes
  /\ step = "dial" => Dialing
  /\ step # "dial" => \E F, E, pad, p, L, N, K, M : /\ Server(F, E, pad, p, L, N, K, M)
                                                     /\ Client(F, E, pad, p, L, N, K, M)

\* What Server says.
LEMMA ServerFacts ==
  ASSUME NEW F, NEW E, NEW pad, NEW p, NEW L, NEW N, NEW K, NEW M, Server(F, E, pad, p, L, N, K, M)
  PROVE  /\ p \in Nat /\ p = Len(packets) /\ pad \in Nat /\ 0 \in 0 .. p /\ p \in 0 .. p
         /\ \A i \in 0 .. p : E[i] \in Nat /\ E[i] <= E[p] /\ N[i] \in Nat /\ N[i] <= N[p]
                              /\ M[i] \in Nat /\ M[i] <= M[p]
         /\ N[0] = 0 /\ M[0] = 0
         /\ L \in Seq(Nat) /\ Len(L) = N[p] /\ K \in Seq(Nat) /\ Len(K) = M[p]
<1>1. p \in Nat /\ p = Len(packets) /\ pad \in Nat
  BY DEF Server, Known
<1>2. E \in [0 .. p -> Nat] /\ \A i \in 0 .. p : E[i] <= E[p]
  BY DEF Server, Known, Laid
<1>3. /\ N \in [0 .. p -> Nat] /\ N[0] = 0 /\ \A i \in 0 .. p : N[i] <= N[p]
      /\ L \in Seq(Nat) /\ Len(L) = N[p]
  BY DEF Server, Known, Counted
<1>4. /\ M \in [0 .. p -> Nat] /\ M[0] = 0 /\ \A i \in 0 .. p : M[i] <= M[p]
      /\ K \in Seq(Nat) /\ Len(K) = M[p]
  BY DEF Server, Known, Counted
<1>5. 0 \in 0 .. p /\ p \in 0 .. p
  BY <1>1
<1>6. \A i \in 0 .. p : E[i] \in Nat /\ N[i] \in Nat /\ M[i] \in Nat
  BY <1>2, <1>3, <1>4
<1> QED
  BY <1>1, <1>2, <1>3, <1>4, <1>5, <1>6

(***************************************************************************)
(* It implies the property.                                                *)
(***************************************************************************)

LEMMA FrontIsPrefix ==
  ASSUME NEW L \in Seq(Nat), NEW k \in 0 .. Len(L)
  PROVE  IsPrefix(Stretch(L, 0, k), L)
<1> DEFINE s == Stretch(L, 0, k)
           l == Len(L)
<1>1. L = Stretch(L, 0, l)
  BY SeqIsStretch
<1>2. Len(s) = k /\ k \in 0 .. k /\ k \in Nat /\ l \in Nat /\ k \in 0 .. l
  <2>1. k \in 0 .. k /\ k \in Nat /\ l \in Nat /\ k \in 0 .. l
    OBVIOUS
  <2>2. Len(s) = k
    BY <2>1, 0 \in Nat, StretchIs
  <2> QED
    BY <2>1, <2>2
<1> HIDE DEF l
<1>3. SubSeq(Stretch(L, 0, l), 1, k) = s /\ SubSeq(s, 1, k) = s
  BY <1>2, 0 \in Nat, StretchIsCut
<1> HIDE DEF s
<1>4. SubSeq(L, 1, k) = s
  BY <1>1, <1>3, Zenon
<1> QED
  BY <1>2, <1>3, <1>4 DEF IsPrefix, s, l

\* All of it.
LEMMA WholeIs ==
  ASSUME NEW L \in Seq(Nat), NEW k, k = Len(L)
  PROVE  Stretch(L, 0, k) = L
BY SeqIsStretch

LEMMA SentIsChosen ==
  \A kinds : SentOf(kinds) = Chosen(packets, kinds)
BY DEF SentOf, Chosen

LEMMA DialingConserves ==
  ASSUME Dialing, step = "dial"
  PROVE  ScramblesuitConserves
<1>1. packets = <<>> /\ Len(packets) = 0
  BY DEF Dialing
<1>2. Chosen(packets, {"payload"}) = <<>> /\ Chosen(packets, {"ticket", "seed"}) = <<>>
  BY <1>1, ChosenType
<1>3. SentOf({"payload"}) = <<>> /\ SentOf({"ticket", "seed"}) = <<>>
  BY <1>2, SentIsChosen
<1>4. IsPrefix(<<>>, <<>>) /\ <<>> \o <<>> = <<>>
  BY DEF IsPrefix
<1> QED
  BY <1>3, <1>4 DEF ScramblesuitConserves, Dialing

LEMMA ClientConserves ==
  ASSUME NEW F, NEW E, NEW pad, NEW p, NEW L, NEW N, NEW K, NEW M,
         Server(F, E, pad, p, L, N, K, M), Client(F, E, pad, p, L, N, K, M),
         step \in {"awaitResponse", "open", "over"}
  PROVE  ScramblesuitConserves
<1>1. SentOf({"payload"}) = L /\ SentOf({"ticket", "seed"}) = K
  BY SentIsChosen DEF Server
<1>2. /\ p \in Nat /\ 0 \in 0 .. p /\ p \in 0 .. p
      /\ \A i \in 0 .. p : E[i] \in Nat /\ E[i] <= E[p] /\ N[i] \in Nat /\ N[i] <= N[p]
                           /\ M[i] \in Nat /\ M[i] <= M[p]
      /\ N[0] = 0 /\ M[0] = 0
      /\ L \in Seq(Nat) /\ Len(L) = N[p] /\ K \in Seq(Nat) /\ Len(K) = M[p]
  BY ServerFacts
<1>3. CASE step = "awaitResponse"
  <2>1. PICK m, n : WaitingWith(F, E, pad, p, m, n)
    BY <1>3 DEF Client
  <2>2. returned \o receiveDecodedBuffer = <<>> /\ handled = <<>> /\ cause = "none"
    BY <2>1 DEF WaitingWith
  <2>3. <<>> = Stretch(L, 0, 0) /\ <<>> = Stretch(K, 0, 0)
    BY 0 \in Nat, NoStretch
  <2>4. 0 \in 0 .. Len(L) /\ 0 \in 0 .. Len(K)
    BY <1>2
  <2>5. IsPrefix(<<>>, L) /\ IsPrefix(<<>>, K)
    BY <1>2, <2>3, <2>4, FrontIsPrefix
  <2> QED
    BY <1>1, <1>3, <2>2, <2>5 DEF ScramblesuitConserves
<1>4. CASE step = "open"
  <2>1. PICK b, top, n, i, u, h, m : OpenWith(F, E, p, L, N, K, M, b, top, n, i, u, h, m)
    BY <1>4 DEF Client
  <2>2. /\ b \in Nat /\ i \in 0 .. p /\ b <= N[i] /\ N[i] - b \in Nat /\ 0 + b = b /\ b + (N[i] - b) = N[i]
    <3>1. b \in Nat /\ At(E, p, top, N, b, i, u, h, m)
      BY <2>1 DEF OpenWith
    <3>2. i \in 0 .. p /\ b <= N[i]
      BY <3>1 DEF At
    <3>3. N[i] \in Nat
      BY <1>2, <3>2
    <3> QED
      BY <3>1, <3>2, <3>3
  <2>3. /\ returned = Stretch(L, 0, b) /\ receiveDecodedBuffer = Stretch(L, b, N[i] - b)
        /\ handled = Stretch(K, 0, M[i]) /\ cause = "none"
    BY <2>1 DEF OpenWith
  <2>4. returned \o receiveDecodedBuffer = Stretch(L, 0, N[i])
    <3> DEFINE c == N[i]
               o == N[i] - b
    <3>1. o \in Nat /\ c = b + o /\ b \in Nat
      BY <2>2
    <3> HIDE DEF c, o
    <3>2. Stretch(L, 0, b) \o Stretch(L, b, o) = Stretch(L, 0, c)
      BY <3>1, FrontsJoin
    <3> QED
      BY <2>3, <3>2, Zenon DEF c, o
  <2>5. IsPrefix(returned \o receiveDecodedBuffer, L) /\ IsPrefix(handled, K)
    <3>1. N[i] \in 0 .. Len(L) /\ M[i] \in 0 .. Len(K)
      BY <1>2, <2>2
    <3>2. IsPrefix(Stretch(L, 0, N[i]), L) /\ IsPrefix(Stretch(K, 0, M[i]), K)
      BY <1>2, <3>1, FrontIsPrefix
    <3> QED
      BY <2>3, <2>4, <3>2, Zenon
  <2>6. ASSUME arriving = <<>>, ended = "no", receiveDecodedBuffer = <<>>, ~fresh
        PROVE  returned = L
    <3>1. n \in Nat /\ arriving = Stretch(F, top, n) /\ top \in Nat
      BY <2>1 DEF OpenWith
    <3>2. Len(Stretch(F, top, n)) = n /\ Len(<<>>) = 0
      BY <3>1, StretchIs, EmptySeq
    <3>3. n = 0
      BY <2>6, <3>1, <3>2
    <3>4. Len(Stretch(L, b, N[i] - b)) = N[i] - b
      <4> DEFINE o == N[i] - b
      <4>1. o \in Nat
        BY <2>2
      <4> HIDE DEF o
      <4>2. Len(Stretch(L, b, o)) = o
        BY <2>2, <4>1, StretchIs
      <4> QED
        BY <4>2 DEF o
    <3>5. N[i] = b
      <4>1. N[i] - b = 0
        BY <2>3, <2>6, <3>2, <3>4
      <4> QED
        BY <1>2, <2>2, <4>1
    <3>6. top + n = E[p]
      BY <2>1, <2>6 DEF OpenWith, GoesTo
    <3>7. fresh # TRUE
      BY <2>6
    <3>8. Waits(packets, i, u, h, m) /\ At(E, p, top, N, b, i, u, h, m)
      BY <2>1, <3>7 DEF OpenWith
    <3>9. top = E[p]
      BY <1>2, <3>1, <3>3, <3>6
    <3>10. i = p
      <4>1. Known(F, E, pad, packets, p, L, N, K, M)
        BY DEF Server
      <4>2. At(E, p, E[p], N, b, i, u, h, m)
        BY <3>8, <3>9, Zenon
      <4> QED
        BY <3>8, <4>1, <4>2, WaitsAtEnd
    <3>11. returned = Stretch(L, 0, N[p]) /\ Len(L) = N[p]
      BY <1>2, <2>3, <3>5, <3>10
    <3> QED
      BY <1>2, <3>11, WholeIs
  <2> QED
    BY <1>1, <1>4, <2>3, <2>5, <2>6 DEF ScramblesuitConserves
<1>5. CASE step = "over"
  <2>1. PICK k, j : OverWith(L, N, K, M, p, k, j)
    BY <1>5 DEF Client
  <2>2. /\ k \in 0 .. N[p] /\ j \in 0 .. p /\ cause # "packet"
        /\ returned = Stretch(L, 0, k) /\ handled = Stretch(K, 0, M[j]) /\ receiveDecodedBuffer = <<>>
        /\ ended = "closed" /\ cause = "none" => k = N[p]
    BY <2>1 DEF OverWith
  <2>3. returned \o receiveDecodedBuffer = returned
    <3>1. Stretch(L, 0, k) \in Seq(OnStream(L))
      BY <2>2, 0 \in Nat, k \in Nat, StretchIs
    <3> QED
      BY <2>2, <3>1, ConcatEmptySeq
  <2>4. k \in 0 .. Len(L) /\ M[j] \in 0 .. Len(K)
    BY <1>2, <2>2
  <2>5. IsPrefix(Stretch(L, 0, k), L) /\ IsPrefix(Stretch(K, 0, M[j]), K)
    BY <1>2, <2>4, FrontIsPrefix
  <2>6. ended = "closed" /\ cause = "none" => returned = L
    BY <1>2, <2>2, WholeIs
  <2> QED
    BY <1>1, <1>5, <2>2, <2>3, <2>5, <2>6 DEF ScramblesuitConserves
<1> QED
  BY <1>3, <1>4, <1>5

LEMMA SsInvConserves == SsInv => ScramblesuitConserves
<1> SUFFICES ASSUME SsInv
             PROVE  ScramblesuitConserves
  OBVIOUS
<1>1. CASE step = "dial"
  BY <1>1, DialingConserves DEF SsInv
<1>2. CASE step # "dial"
  <2>1. PICK F, E, pad, p, L, N, K, M : Server(F, E, pad, p, L, N, K, M) /\ Client(F, E, pad, p, L, N, K, M)
    BY <1>2 DEF SsInv
  <2>2. step \in {"awaitResponse", "open", "over"}
    BY <1>2 DEF SsInv, SsTypes
  <2> QED
    BY <2>1, <2>2, ClientConserves
<1> QED
  BY <1>1, <1>2

(***************************************************************************)
(* It is inductive.                                                        *)
(***************************************************************************)

\* How a step is put together.
LEMMA SsInvNext ==
  ASSUME NEW F, NEW E, NEW pad, NEW p, NEW L, NEW N, NEW K, NEW M,
         Server(F, E, pad, p, L, N, K, M)', Client(F, E, pad, p, L, N, K, M)',
         SsTypes', step' # "dial"
  PROVE  SsInv'
BY DEF SsInv

LEMMA SsInvInit == ScramblesuitInit => SsInv
<1> SUFFICES ASSUME ScramblesuitInit
             PROVE  SsInv
  OBVIOUS
<1>1. packets \in Seq(Kinds)
  BY EmptySeq DEF ScramblesuitInit
<1> QED
  BY <1>1 DEF ScramblesuitInit, SsInv, SsTypes, Dialing

\* Nothing is counted of no packets.
LEMMA NoneKnown ==
  ASSUME NEW F, NEW E, NEW pad \in Nat, Laid(F, E, pad, <<>>, 0)
  PROVE  \E N : Known(F, E, pad, <<>>, 0, <<>>, N, <<>>, N) /\ N[0] = 0
<1> DEFINE N == [i \in 0 .. 0 |-> 0]
<1>1. N \in [0 .. 0 -> Nat] /\ N[0] = 0 /\ \A i \in 0 .. 0 : N[i] <= N[0]
  OBVIOUS
<1>2. <<>> \in Seq(Kinds) /\ <<>> \in Seq(Nat) /\ Len(<<>>) = 0
  BY EmptySeq
<1> HIDE DEF N
<1>3. \A kinds : Counted(<<>>, N, kinds, <<>>, 0)
  <2>1. \A i \in 0 .. 0 - 1 : FALSE
    OBVIOUS
  <2> QED
    BY <1>1, <1>2, <2>1 DEF Counted
<1>4. Known(F, E, pad, <<>>, 0, <<>>, N, <<>>, N)
  BY <1>2, <1>3 DEF Known
<1> QED
  BY <1>1, <1>4

LEMMA ClientHandshakeStep ==
  ASSUME SsInv, ClientHandshake
  PROVE  SsInv'
<1>1. Dialing /\ SsTypes
  BY DEF SsInv, ClientHandshake
<1>2. /\ ended' = ended /\ packets' = packets /\ receiveBuffer' = receiveBuffer
      /\ receiveState' = receiveState /\ receiveDecodedBuffer' = receiveDecodedBuffer
      /\ returned' = returned /\ handled' = handled /\ fresh' = fresh /\ cause' = cause
  BY DEF ClientHandshake
<1>3. /\ ended' = "no" /\ packets' = <<>> /\ receiveBuffer' = <<>> /\ receiveState' = NoPart
      /\ receiveDecodedBuffer' = <<>> /\ returned' = <<>> /\ handled' = <<>> /\ fresh' = TRUE
      /\ cause' = "none" /\ arriving = <<>>
  BY <1>1, <1>2 DEF Dialing
<1>4. Chosen(packets', {"payload"}) = <<>> /\ Chosen(packets', {"ticket", "seed"}) = <<>>
  <2>1. Len(packets') = 0
    BY <1>3
  <2> QED
    BY <2>1, ChosenType
<1>5. CASE step' = "open" /\ arriving' = arriving
  <2>1. PICK F, E : Laid(F, E, 0, <<>>, 0) /\ E[0] = 0
    BY FirstLaid, 0 \in Nat, 0 \in {0, 0 + 5}
  <2>2. PICK N : Known(F, E, 0, <<>>, 0, <<>>, N, <<>>, N) /\ N[0] = 0
    BY <2>1, 0 \in Nat, NoneKnown
  <2>3. Server(F, E, 0, 0, <<>>, N, <<>>, N)'
    BY <1>3, <1>4, <2>2 DEF Server
  <2>4. At(E, 0, 0, N, 0, 0, 0, 0, 0)
    BY <2>1, <2>2 DEF At
  <2>5. /\ <<>> = Stretch(F, 0, 0) /\ <<>> = Stretch(F, E[0] + 0 + 0, 0) /\ <<>> = Stretch(F, E[0], 0)
        /\ <<>> = Stretch(F, E[0] + 2, 0) /\ <<>> = Stretch(<<>>, 0, 0) /\ <<>> = Stretch(<<>>, 0, N[0] - 0)
        /\ <<>> = Stretch(<<>>, 0, N[0])
    <3>1. \A f : <<>> = Stretch(f, 0, 0) /\ <<>> = Stretch(f, 2, 0)
      BY 0 \in Nat, 2 \in Nat, NoStretch
    <3>2. E[0] + 0 + 0 = 0 /\ E[0] = 0 /\ E[0] + 2 = 2 /\ N[0] - 0 = 0 /\ N[0] = 0
      BY <2>1, <2>2
    <3> QED
      BY <3>1, <3>2
  <2>6. GoesTo(E, 0, 0 + 0)'
    BY <2>1 DEF GoesTo
  <2>7. OpenWith(F, E, 0, <<>>, N, <<>>, N, 0, 0, 0, 0, 0, 0, 0)'
    BY <1>3, <1>5, <2>4, <2>5, <2>6 DEF OpenWith, NoPart
  <2>8. Client(F, E, 0, 0, <<>>, N, <<>>, N)'
    BY <1>5, <2>7 DEF Client
  <2>9. SsTypes'
    BY <1>1, <1>2, <1>5 DEF SsTypes
  <2> QED
    BY <1>5, <2>3, <2>8, <2>9, SsInvNext
<1>6. CASE step' = "awaitResponse" /\ \E padLen \in 0 .. MaxPad : arriving' = Response(padLen)
  <2>1. PICK pad \in Nat : arriving' = Response(pad)
    BY <1>6, ScramblesuitAssumption
  <2>2. PICK F, E : Laid(F, E, pad, <<>>, 0) /\ E[0] = pad + 5
    BY FirstLaid
  <2>3. PICK N : Known(F, E, pad, <<>>, 0, <<>>, N, <<>>, N) /\ N[0] = 0
    BY <2>2, NoneKnown
  <2>4. Server(F, E, pad, 0, <<>>, N, <<>>, N)'
    BY <1>3, <1>4, <2>3 DEF Server
  <2>5. arriving' = Stretch(F, 0, pad + 5)
    BY <2>1, <2>2 DEF Laid
  <2>6. <<>> = Stretch(F, 0, 0)
    BY 0 \in Nat, NoStretch
  <2>7. GoesTo(E, 0, 0 + (pad + 5))'
    BY <2>2 DEF GoesTo
  <2>8. WaitingWith(F, E, pad, 0, 0, pad + 5)'
    BY <1>3, <2>2, <2>5, <2>6, <2>7 DEF WaitingWith
  <2>9. Client(F, E, pad, 0, <<>>, N, <<>>, N)'
    BY <1>6, <2>8 DEF Client
  <2>10. SsTypes'
    BY <1>1, <1>2, <1>6 DEF SsTypes
  <2> QED
    BY <1>6, <2>4, <2>9, <2>10, SsInvNext
<1> QED
  BY <1>5, <1>6 DEF ClientHandshake

\* The next state of a client that is not dialling.
LEMMA Connected ==
  ASSUME SsInv, step # "dial"
  PROVE  \E F, E, pad, p, L, N, K, M : Server(F, E, pad, p, L, N, K, M) /\ Client(F, E, pad, p, L, N, K, M)
BY DEF SsInv

\* One packet more, and its place in the lists.
LEMMA KnownMore ==
  ASSUME NEW F, NEW E, NEW pad, NEW p, NEW L, NEW N, NEW K, NEW M,
         Server(F, E, pad, p, L, N, K, M), NEW kind \in Kinds, packets' = Append(packets, kind)
  PROVE  \E G, D, A, X, B, Y :
           /\ Known(G, D, pad, packets', p + 1, A, X, B, Y) /\ Longer(G, D, F, E, kind, p)
           /\ A = Chosen(packets', {"payload"}) /\ B = Chosen(packets', {"ticket", "seed"})
           /\ \A i \in 0 .. p : X[i] = N[i] /\ Y[i] = M[i]
           /\ N[p] <= X[p + 1] /\ \A i \in 1 .. N[p] : A[i] = L[i]
           /\ \A i \in 1 .. M[p] : B[i] = K[i]
<1>1. /\ packets \in Seq(Kinds) /\ p = Len(packets) /\ p \in Nat /\ pad \in Nat
      /\ Laid(F, E, pad, packets, p)
      /\ Counted(L, N, {"payload"}, packets, p) /\ Counted(K, M, {"ticket", "seed"}, packets, p)
      /\ L = Chosen(packets, {"payload"}) /\ K = Chosen(packets, {"ticket", "seed"})
  BY DEF Server, Known
<1>j. PICK js : js = Append(packets, kind)
  OBVIOUS
<1>a. PICK A : A = Chosen(js, {"payload"})
  OBVIOUS
<1>b. PICK B : B = Chosen(js, {"ticket", "seed"})
  OBVIOUS
<1>2. PICK G, D : Laid(G, D, pad, js, p + 1) /\ Longer(G, D, F, E, kind, p)
  BY <1>1, <1>j, LaidMore
<1>3. Counted(Chosen(packets, {"payload"}), N, {"payload"}, packets, p)
      /\ Counted(Chosen(packets, {"ticket", "seed"}), M, {"ticket", "seed"}, packets, p)
  BY <1>1
<1>4. /\ \E X : /\ Counted(A, X, {"payload"}, js, p + 1)
                /\ \A i \in 0 .. p : X[i] = N[i]
                /\ N[p] <= X[p + 1]
      /\ \A i \in 1 .. N[p] : A[i] = Chosen(packets, {"payload"})[i]
  BY <1>1, <1>3, <1>j, <1>a, <1>b, CountMore
<1>5. /\ \E Y : /\ Counted(B, Y, {"ticket", "seed"}, js, p + 1)
                /\ \A i \in 0 .. p : Y[i] = M[i]
                /\ M[p] <= Y[p + 1]
      /\ \A i \in 1 .. M[p] : B[i] = Chosen(packets, {"ticket", "seed"})[i]
  BY <1>1, <1>3, <1>j, <1>a, <1>b, CountMore
<1>6. js \in Seq(Kinds) /\ p + 1 = Len(js) /\ p + 1 \in Nat
  BY <1>1, <1>j, AppendProperties
<1>7. PICK X : Counted(A, X, {"payload"}, js, p + 1) /\ (\A i \in 0 .. p : X[i] = N[i]) /\ N[p] <= X[p + 1]
  BY <1>4
<1>8. PICK Y : Counted(B, Y, {"ticket", "seed"}, js, p + 1) /\ (\A i \in 0 .. p : Y[i] = M[i])
  BY <1>5
<1>9. Known(G, D, pad, js, p + 1, A, X, B, Y)
  BY <1>1, <1>2, <1>6, <1>7, <1>8 DEF Known
<1>10. packets' = js
  BY <1>j
<1>11. /\ A = Chosen(packets', {"payload"}) /\ B = Chosen(packets', {"ticket", "seed"})
       /\ Known(G, D, pad, packets', p + 1, A, X, B, Y)
  BY <1>9, <1>10, <1>a, <1>b
<1>12. (\A i \in 1 .. N[p] : A[i] = L[i]) /\ (\A i \in 1 .. M[p] : B[i] = K[i])
  BY <1>1, <1>4, <1>5
<1>13. \A i \in 0 .. p : X[i] = N[i] /\ Y[i] = M[i]
  BY <1>7, <1>8
<1>14. N[p] <= X[p + 1]
  BY <1>7
<1> QED
  BY <1>2, <1>11, <1>12, <1>13, <1>14

LEMMA ServerSendsStep ==
  ASSUME SsInv, NEW kind \in Kinds, ServerSends(kind)
  PROVE  SsInv'
<1>1. /\ step # "dial" /\ ended = "no" /\ packets' = Append(packets, kind)
      /\ arriving' = arriving \o Packet(Len(packets) + 1, kind)
      /\ step' = step /\ ended' = ended /\ receiveBuffer' = receiveBuffer
      /\ receiveState' = receiveState /\ receiveDecodedBuffer' = receiveDecodedBuffer
      /\ returned' = returned /\ handled' = handled /\ fresh' = fresh /\ cause' = cause
  BY DEF ServerSends
<1>2. PICK F, E, pad, p, L, N, K, M : Server(F, E, pad, p, L, N, K, M) /\ Client(F, E, pad, p, L, N, K, M)
  BY <1>1, Connected
<1>3. PICK G, D, A, X, B, Y :
           /\ Known(G, D, pad, packets', p + 1, A, X, B, Y) /\ Longer(G, D, F, E, kind, p)
           /\ A = Chosen(packets', {"payload"}) /\ B = Chosen(packets', {"ticket", "seed"})
           /\ \A i \in 0 .. p : X[i] = N[i] /\ Y[i] = M[i]
           /\ N[p] <= X[p + 1] /\ \A i \in 1 .. N[p] : A[i] = L[i]
           /\ \A i \in 1 .. M[p] : B[i] = K[i]
  BY <1>1, <1>2, KnownMore
<1>4. /\ p \in Nat /\ p = Len(packets) /\ 0 \in 0 .. p /\ p \in 0 .. p
      /\ \A i \in 0 .. p : E[i] \in Nat /\ E[i] <= E[p] /\ N[i] \in Nat /\ N[i] <= N[p]
                           /\ M[i] \in Nat /\ M[i] <= M[p]
  BY <1>2, ServerFacts
<1> DEFINE e == E[p]
           c == 3 + TotalLen(kind)
<1>5. e \in Nat /\ c \in Nat
  BY <1>4, TotalLenType
<1>6. /\ \A i \in 0 .. p : D[i] = E[i]
      /\ D[p + 1] = e + c
      /\ \A k \in 1 .. e : G[k] = F[k]
      /\ Packet(p + 1, kind) = Stretch(G, e, c)
  BY <1>3 DEF Longer
<1> HIDE DEF e, c
\* The stretches of the old stream are stretches of the new.
<1>7. ASSUME NEW from \in Nat, NEW o \in Nat, from + o <= e
      PROVE  Stretch(F, from, o) = Stretch(G, from, o)
  <2>1. \A k \in 1 .. from + o : F[k] = G[k]
    BY <1>5, <1>6, <1>7
  <2> QED
    BY <2>1, StretchSame
<1>8. ASSUME NEW from \in Nat, NEW o \in Nat, from + o = e, arriving = Stretch(F, from, o)
      PROVE  arriving' = Stretch(G, from, o + c) /\ from + (o + c) = D[p + 1] /\ o + c \in Nat
  <2>1. from + o <= e /\ from + (o + c) = e + c /\ o + c \in Nat
    BY <1>5, <1>8
  <2>2. arriving = Stretch(G, from, o)
    BY <1>7, <1>8, <2>1
  <2>3. Packet(Len(packets) + 1, kind) = Stretch(G, from + o, c)
    BY <1>4, <1>6, <1>8
  <2>4. Stretch(G, from, o) \o Stretch(G, from + o, c) = Stretch(G, from, o + c)
    BY <1>5, StretchesJoin
  <2>5. arriving' = Stretch(G, from, o + c)
    BY <1>1, <2>2, <2>3, <2>4, Zenon
  <2> QED
    BY <1>6, <2>1, <2>5
<1>9. ASSUME NEW at, GoesTo(E, p, at)
      PROVE  at = e
  BY <1>1, <1>9 DEF GoesTo, e
<1>10. ASSUME NEW at, at = D[p + 1], at \in Nat
       PROVE  GoesTo(D, p + 1, at)'
  BY <1>10 DEF GoesTo
<1>11. ASSUME step' = "awaitResponse"
       PROVE  \E m, n : WaitingWith(G, D, pad, p + 1, m, n)'
  <2>1. PICK m, n : WaitingWith(F, E, pad, p, m, n)
    BY <1>1, <1>2, <1>11 DEF Client
  <2>2. /\ m \in Nat /\ n \in Nat /\ E[0] = pad + 5
        /\ receiveBuffer = Stretch(F, 0, m) /\ arriving = Stretch(F, m, n) /\ GoesTo(E, p, m + n)
        /\ receiveState = NoPart /\ receiveDecodedBuffer = <<>>
        /\ returned = <<>> /\ handled = <<>> /\ fresh = TRUE /\ cause = "none"
    BY <2>1 DEF WaitingWith
  <2>3. m + n = e
    BY <1>9, <2>2
  <2>4. arriving' = Stretch(G, m, n + c) /\ m + (n + c) = D[p + 1] /\ n + c \in Nat
    BY <1>8, <2>2, <2>3
  <2>5. receiveBuffer' = Stretch(G, 0, m)
    <3>1. 0 \in Nat /\ 0 + m <= e
      BY <1>5, <2>2, <2>3
    <3>2. Stretch(F, 0, m) = Stretch(G, 0, m)
      BY <1>7, <2>2, <3>1
    <3> QED
      BY <1>1, <2>2, <3>2
  <2>6. GoesTo(D, p + 1, m + (n + c))'
    BY <1>10, <2>2, <2>4
  <2>7. D[0] = pad + 5
    BY <1>4, <1>6, <2>2
  <2>8. WaitingWith(G, D, pad, p + 1, m, n + c)'
    BY <1>1, <2>2, <2>4, <2>5, <2>6, <2>7, Zenon DEF WaitingWith
  <2> QED
    BY <2>8
<1>12. ASSUME step' = "open"
       PROVE  \E b, top, n, i, u, h, m : OpenWith(G, D, p + 1, A, X, B, Y, b, top, n, i, u, h, m)'
  <2>1. PICK b, top, n, i, u, h, m : OpenWith(F, E, p, L, N, K, M, b, top, n, i, u, h, m)
    BY <1>1, <1>2, <1>12 DEF Client
  <2>2. /\ b \in Nat /\ top \in Nat /\ n \in Nat
        /\ At(E, p, top, N, b, i, u, h, m)
        /\ receiveBuffer = Stretch(F, E[i] + u + h, m)
        /\ receiveState = [mac |-> Stretch(F, E[i], u), hdr |-> Stretch(F, E[i] + 2, h)]
        /\ arriving = Stretch(F, top, n) /\ GoesTo(E, p, top + n)
        /\ returned = Stretch(L, 0, b) /\ receiveDecodedBuffer = Stretch(L, b, N[i] - b)
        /\ handled = Stretch(K, 0, M[i])
        /\ cause = "none" /\ (fresh # TRUE => Waits(packets, i, u, h, m))
    BY <2>1 DEF OpenWith
  <2>3. /\ i \in 0 .. p /\ m \in Nat /\ E[i] + u + h + m = top /\ b <= N[i]
        /\ (u = 0 /\ h = 0) \/ (u = 2 /\ h = 0) \/ (u = 2 /\ h = 1)
        /\ u = 2 => i < p
    BY <2>2 DEF At
  <2>4. E[i] \in Nat /\ N[i] \in Nat /\ M[i] \in Nat /\ N[i] <= N[p] /\ M[i] <= M[p] /\ D[i] = E[i]
        /\ X[i] = N[i] /\ Y[i] = M[i] /\ N[p] \in Nat /\ M[p] \in Nat
    BY <1>3, <1>4, <1>6, <2>3
  <2>5. top + n = e
    BY <1>9, <2>2
  <2>6. arriving' = Stretch(G, top, n + c) /\ top + (n + c) = D[p + 1] /\ n + c \in Nat
    BY <1>8, <2>2, <2>5
  <2>7. receiveBuffer' = Stretch(G, D[i] + u + h, m)
    <3>1. E[i] + u + h \in Nat /\ (E[i] + u + h) + m <= e
      BY <1>5, <2>2, <2>3, <2>4, <2>5
    <3> DEFINE x == E[i] + u + h
    <3> HIDE DEF x
    <3>2. Stretch(F, x, m) = Stretch(G, x, m)
      BY <1>7, <2>3, <3>1 DEF x
    <3> QED
      BY <1>1, <2>2, <2>4, <3>2 DEF x
  <2>8. receiveState' = [mac |-> Stretch(G, D[i], u), hdr |-> Stretch(G, D[i] + 2, h)]
    <3>1. Stretch(F, E[i], u) = Stretch(G, E[i], u)
      <4>1. u \in Nat /\ E[i] + u <= e
        BY <1>5, <2>2, <2>3, <2>4, <2>5
      <4> QED
        BY <1>7, <2>4, <4>1
    <3>2. Stretch(F, E[i] + 2, h) = Stretch(G, E[i] + 2, h)
      <4> DEFINE x == E[i] + 2
      <4>1. CASE h = 0
        <5>1. \A f : <<>> = Stretch(f, x, 0)
          <6>1. x \in Nat
            BY <2>4
          <6> HIDE DEF x
          <6> QED
            BY <6>1, NoStretch
        <5> QED
          BY <4>1, <5>1
      <4>2. CASE h # 0
        <5>1. h \in Nat /\ x \in Nat /\ x + h <= e
          BY <1>5, <2>2, <2>3, <2>4, <2>5, <4>2
        <5> HIDE DEF x
        <5>2. Stretch(F, x, h) = Stretch(G, x, h)
          BY <1>7, <5>1
        <5> QED
          BY <5>2 DEF x
      <4> QED
        BY <4>1, <4>2
    <3> QED
      BY <1>1, <2>2, <2>4, <3>1, <3>2
  <2>9. At(D, p + 1, top, X, b, i, u, h, m)
    <3>1. i \in 0 .. p + 1 /\ (u = 2 => i < p + 1)
      BY <1>4, <2>3
    <3> QED
      BY <2>3, <2>4, <3>1 DEF At
  <2>10. returned' = Stretch(A, 0, b)
    <3>1. \A k \in 1 .. 0 + b : L[k] = A[k]
      <4>1. \A k \in 1 .. 0 + b : k \in 1 .. N[p]
        BY <2>2, <2>3, <2>4
      <4> QED
        BY <1>3, <4>1
    <3>2. Stretch(L, 0, b) = Stretch(A, 0, b)
      BY <2>2, <3>1, 0 \in Nat, StretchSame
    <3> QED
      BY <1>1, <2>2, <3>2
  <2>11. receiveDecodedBuffer' = Stretch(A, b, X[i] - b)
    <3> DEFINE o == N[i] - b
    <3>1. o \in Nat /\ \A k \in 1 .. b + o : k \in 1 .. N[p]
      BY <2>2, <2>3, <2>4
    <3> HIDE DEF o
    <3>2. \A k \in 1 .. b + o : L[k] = A[k]
      BY <1>3, <3>1
    <3>3. Stretch(L, b, o) = Stretch(A, b, o)
      BY <2>2, <3>1, <3>2, StretchSame
    <3> QED
      BY <1>1, <2>2, <2>4, <3>3 DEF o
  <2>12. handled' = Stretch(B, 0, Y[i])
    <3>1. \A k \in 1 .. 0 + M[i] : K[k] = B[k]
      <4>1. \A k \in 1 .. 0 + M[i] : k \in 1 .. M[p]
        BY <2>4
      <4> QED
        BY <1>3, <4>1
    <3>2. Stretch(K, 0, M[i]) = Stretch(B, 0, M[i])
      BY <2>4, <3>1, 0 \in Nat, StretchSame, SMTT(60)
    <3> QED
      BY <1>1, <2>2, <2>4, <3>2
  <2>13. fresh' # TRUE => Waits(packets', i, u, h, m)
    <3> SUFFICES ASSUME fresh' # TRUE
                 PROVE  Waits(packets', i, u, h, m)
      OBVIOUS
    <3>1. Waits(packets, i, u, h, m)
      BY <1>1, <2>2
    <3>2. h = 1 => packets'[i + 1] = packets[i + 1]
      <4> SUFFICES ASSUME h = 1
                   PROVE  packets'[i + 1] = packets[i + 1]
        OBVIOUS
      <4>1. i + 1 \in 1 .. Len(packets)
        BY <1>4, <2>3
      <4>2. packets \in Seq(Kinds)
        BY DEF SsInv, SsTypes
      <4> QED
        BY <1>1, <4>1, <4>2, AppendProperties
    <3> QED
      BY <3>1, <3>2 DEF Waits
  <2>14. GoesTo(D, p + 1, top + (n + c))'
    BY <1>10, <2>2, <2>6
  <2>15. OpenWith(G, D, p + 1, A, X, B, Y, b, top, n + c, i, u, h, m)'
    BY <1>1, <2>2, <2>6, <2>7, <2>8, <2>9, <2>10, <2>11, <2>12, <2>13, <2>14, Zenon DEF OpenWith
  <2> QED
    BY <2>15
<1>13. ASSUME step' = "over"
       PROVE  \E k, j : OverWith(A, X, B, Y, p + 1, k, j)'
  <2>1. PICK k, j : OverWith(L, N, K, M, p, k, j)
    BY <1>1, <1>2, <1>13 DEF Client
  <2>2. /\ k \in 0 .. N[p] /\ j \in 0 .. p
        /\ cause # "packet" /\ receiveDecodedBuffer = <<>>
        /\ returned = Stretch(L, 0, k) /\ handled = Stretch(K, 0, M[j])
        /\ cause = "none" => ended # "no"
    BY <2>1 DEF OverWith
  <2>3. N[p] \in Nat /\ M[j] \in Nat /\ M[j] <= M[p] /\ M[p] \in Nat /\ Y[j] = M[j] /\ X[p + 1] \in Nat
    <3>1. X[p + 1] \in Nat
      <4>1. Known(G, D, pad, packets', p + 1, A, X, B, Y)
        BY <1>3
      <4>2. X \in [0 .. p + 1 -> Nat]
        BY <4>1 DEF Known, Counted
      <4>3. p + 1 \in 0 .. p + 1
        BY <1>4
      <4> QED
        BY <4>2, <4>3, Zenon
    <3> QED
      BY <1>3, <1>4, <2>2, <3>1
  <2>4. k \in 0 .. X[p + 1] /\ j \in 0 .. p + 1
    BY <1>3, <1>4, <2>2, <2>3
  <2>5. returned' = Stretch(A, 0, k)
    <3>1. \A x \in 1 .. 0 + k : L[x] = A[x]
      <4>1. \A x \in 1 .. 0 + k : x \in 1 .. N[p]
        BY <2>2, <2>3
      <4> QED
        BY <1>3, <4>1
    <3>2. Stretch(L, 0, k) = Stretch(A, 0, k)
      BY <2>2, <3>1, 0 \in Nat, k \in Nat, StretchSame
    <3> QED
      BY <1>1, <2>2, <3>2
  <2>6. handled' = Stretch(B, 0, Y[j])
    <3>1. \A x \in 1 .. 0 + M[j] : K[x] = B[x]
      <4>1. \A x \in 1 .. 0 + M[j] : x \in 1 .. M[p]
        BY <2>3
      <4> QED
        BY <1>3, <4>1
    <3>2. Stretch(K, 0, M[j]) = Stretch(B, 0, M[j])
      BY <2>3, <3>1, 0 \in Nat, StretchSame
    <3> QED
      BY <1>1, <2>2, <2>3, <3>2
  <2>7. ended' # "closed"
    BY <1>1
  <2>8. OverWith(A, X, B, Y, p + 1, k, j)'
    BY <1>1, <2>2, <2>4, <2>5, <2>6, <2>7, Zenon DEF OverWith
  <2> QED
    BY <2>8
<1>server. Server(G, D, pad, p + 1, A, X, B, Y)'
  BY <1>3, Zenon DEF Server
<1>14. Client(G, D, pad, p + 1, A, X, B, Y)'
  BY <1>11, <1>12, <1>13 DEF Client
<1>15. SsTypes' /\ step' # "dial"
  <2>1. packets' \in Seq(Kinds)
    BY <1>1, AppendProperties DEF SsInv, SsTypes
  <2> QED
    BY <1>1, <2>1 DEF SsInv, SsTypes
<1> QED
  BY <1>14, <1>15, <1>server, SsInvNext

\* A step that sends nothing leaves the stream as it is.
LEMMA ServerStays ==
  ASSUME NEW F, NEW E, NEW pad, NEW p, NEW L, NEW N, NEW K, NEW M,
         Server(F, E, pad, p, L, N, K, M), packets' = packets
  PROVE  Server(F, E, pad, p, L, N, K, M)'
BY DEF Server

LEMMA ConnectionEndsStep ==
  ASSUME SsInv, NEW how \in {"closed", "broken"}, ConnectionEnds(how)
  PROVE  SsInv'
<1>1. /\ step # "dial" /\ ended = "no" /\ ended' = how
      /\ how = "closed" => arriving' = arriving
      /\ how = "broken" => \E kept \in 0 .. Len(arriving) : arriving' = SubSeq(arriving, 1, kept)
      /\ step' = step /\ packets' = packets /\ receiveBuffer' = receiveBuffer
      /\ receiveState' = receiveState /\ receiveDecodedBuffer' = receiveDecodedBuffer
      /\ returned' = returned /\ handled' = handled /\ fresh' = fresh /\ cause' = cause
  BY DEF ConnectionEnds
<1>2. PICK F, E, pad, p, L, N, K, M : Server(F, E, pad, p, L, N, K, M) /\ Client(F, E, pad, p, L, N, K, M)
  BY <1>1, Connected
<1>3. /\ p \in Nat /\ p \in 0 .. p /\ E[p] \in Nat
  BY <1>2, ServerFacts
\* What is kept of what is on the way.
<1>4. ASSUME NEW from \in Nat, NEW n \in Nat, arriving = Stretch(F, from, n), GoesTo(E, p, from + n)
      PROVE  \E k \in Nat : arriving' = Stretch(F, from, k) /\ GoesTo(E, p, from + k)'
  <2>1. from + n = E[p]
    BY <1>1, <1>4 DEF GoesTo
  <2>2. CASE how = "closed"
    <3>1. GoesTo(E, p, from + n)'
      BY <1>3, <2>1 DEF GoesTo
    <3> QED
      BY <1>1, <1>4, <2>2, <3>1
  <2>3. CASE how = "broken"
    <3>1. Len(arriving) = n
      BY <1>4, StretchIs
    <3>2. PICK k \in 0 .. n : arriving' = SubSeq(arriving, 1, k)
      BY <1>1, <2>3, <3>1
    <3>3. arriving' = Stretch(F, from, k)
      <4>1. SubSeq(Stretch(F, from, n), 1, k) = Stretch(F, from, k)
        BY <3>2, StretchIsCut
      <4> QED
        BY <1>4, <3>2, <4>1
    <3>4. GoesTo(E, p, from + k)'
      <4>1. from + k <= E[p]
        BY <2>1, <3>2
      <4> QED
        BY <1>1, <2>3, <4>1 DEF GoesTo
    <3>5. k \in Nat
      BY <3>2
    <3> QED
      BY <3>3, <3>4, <3>5
  <2> QED
    BY <2>2, <2>3
<1>5. ASSUME step' = "awaitResponse"
      PROVE  \E m, n : WaitingWith(F, E, pad, p, m, n)'
  <2>1. PICK m, n : WaitingWith(F, E, pad, p, m, n)
    BY <1>1, <1>2, <1>5 DEF Client
  <2>2. /\ m \in Nat /\ n \in Nat /\ E[0] = pad + 5
        /\ receiveBuffer = Stretch(F, 0, m) /\ arriving = Stretch(F, m, n) /\ GoesTo(E, p, m + n)
        /\ receiveState = NoPart /\ receiveDecodedBuffer = <<>>
        /\ returned = <<>> /\ handled = <<>> /\ fresh = TRUE /\ cause = "none"
    BY <2>1 DEF WaitingWith
  <2>3. PICK k \in Nat : arriving' = Stretch(F, m, k) /\ GoesTo(E, p, m + k)'
    BY <1>4, <2>2
  <2>4. k \in Nat
    OBVIOUS
  <2>5. WaitingWith(F, E, pad, p, m, k)'
    BY <1>1, <2>2, <2>3, <2>4, Zenon DEF WaitingWith
  <2> QED
    BY <2>5
<1>6. ASSUME step' = "open"
      PROVE  \E b, top, n, i, u, h, m : OpenWith(F, E, p, L, N, K, M, b, top, n, i, u, h, m)'
  <2>1. PICK b, top, n, i, u, h, m : OpenWith(F, E, p, L, N, K, M, b, top, n, i, u, h, m)
    BY <1>1, <1>2, <1>6 DEF Client
  <2>2. /\ b \in Nat /\ top \in Nat /\ n \in Nat
        /\ At(E, p, top, N, b, i, u, h, m)
        /\ receiveBuffer = Stretch(F, E[i] + u + h, m)
        /\ receiveState = [mac |-> Stretch(F, E[i], u), hdr |-> Stretch(F, E[i] + 2, h)]
        /\ arriving = Stretch(F, top, n) /\ GoesTo(E, p, top + n)
        /\ returned = Stretch(L, 0, b) /\ receiveDecodedBuffer = Stretch(L, b, N[i] - b)
        /\ handled = Stretch(K, 0, M[i])
        /\ cause = "none" /\ (fresh # TRUE => Waits(packets, i, u, h, m))
    BY <2>1 DEF OpenWith
  <2>3. PICK k \in Nat : arriving' = Stretch(F, top, k) /\ GoesTo(E, p, top + k)'
    BY <1>4, <2>2
  <2>4. k \in Nat
    OBVIOUS
  <2>5. fresh' # TRUE => Waits(packets', i, u, h, m)
    BY <1>1, <2>2
  <2>6. OpenWith(F, E, p, L, N, K, M, b, top, k, i, u, h, m)'
    BY <1>1, <2>2, <2>3, <2>4, <2>5, Zenon DEF OpenWith
  <2> QED
    BY <2>6
<1>7. ASSUME step' = "over"
      PROVE  \E k, j : OverWith(L, N, K, M, p, k, j)'
  <2>1. PICK k, j : OverWith(L, N, K, M, p, k, j)
    BY <1>1, <1>2, <1>7 DEF Client
  <2>2. /\ k \in 0 .. N[p] /\ j \in 0 .. p
        /\ cause # "packet" /\ receiveDecodedBuffer = <<>>
        /\ returned = Stretch(L, 0, k) /\ handled = Stretch(K, 0, M[j])
        /\ cause # "none"
    BY <1>1, <2>1 DEF OverWith
  <2>3. OverWith(L, N, K, M, p, k, j)'
    BY <1>1, <2>2, Zenon DEF OverWith
  <2> QED
    BY <2>3
<1>8. Client(F, E, pad, p, L, N, K, M)'
  BY <1>5, <1>6, <1>7 DEF Client
<1>9. SsTypes' /\ step' # "dial"
  BY <1>1 DEF SsInv, SsTypes
<1>10. Server(F, E, pad, p, L, N, K, M)'
  BY <1>1, <1>2, ServerStays
<1> QED
  BY <1>8, <1>9, <1>10, SsInvNext

\* Nothing of the packets has been used while the response is awaited.
LEMMA NothingUsed ==
  ASSUME NEW F, NEW E, NEW pad, NEW p, NEW L, NEW N, NEW K, NEW M,
         Server(F, E, pad, p, L, N, K, M), returned' = <<>>, handled' = <<>>, receiveDecodedBuffer' = <<>>,
         cause' # "packet", cause' = "none" => ended' = "broken"
  PROVE  OverWith(L, N, K, M, p, 0, 0)'
<1>1. N[0] = 0 /\ M[0] = 0 /\ 0 \in 0 .. p /\ N[p] \in Nat
  BY ServerFacts
<1>2. 0 \in 0 .. N[p]
  BY <1>1
<1>3. <<>> = Stretch(L, 0, 0) /\ <<>> = Stretch(K, 0, 0)
  BY 0 \in Nat, NoStretch
<1>4. <<>> = Stretch(K, 0, M[0])
  BY <1>1, <1>3
<1>5. (cause' = "none" => ended' # "no") /\ (cause' = "none" => ended' # "closed")
  OBVIOUS
<1> QED
  BY <1>1, <1>2, <1>3, <1>4, <1>5, Zenon DEF OverWith

LEMMA HandshakeFailsStep ==
  ASSUME SsInv, HandshakeFails
  PROVE  SsInv'
<1>1. /\ step = "awaitResponse" /\ step' = "over" /\ ended' = "broken" /\ packets' = packets
      /\ returned' = returned /\ handled' = handled /\ receiveDecodedBuffer' = receiveDecodedBuffer
      /\ cause' = cause
  BY DEF HandshakeFails
<1>2. PICK F, E, pad, p, L, N, K, M : Server(F, E, pad, p, L, N, K, M) /\ Client(F, E, pad, p, L, N, K, M)
  BY <1>1, Connected
<1>3. returned = <<>> /\ handled = <<>> /\ receiveDecodedBuffer = <<>> /\ cause = "none"
  BY <1>1, <1>2 DEF Client, WaitingWith
<1>4. OverWith(L, N, K, M, p, 0, 0)'
  BY <1>1, <1>2, <1>3, NothingUsed
<1>5. Client(F, E, pad, p, L, N, K, M)'
  BY <1>1, <1>4 DEF Client
<1>6. SsTypes' /\ step' # "dial"
  BY <1>1 DEF SsInv, SsTypes
<1>7. Server(F, E, pad, p, L, N, K, M)'
  BY <1>1, <1>2, ServerStays
<1> QED
  BY <1>5, <1>6, <1>7, SsInvNext

\* What the network has is read: it is behind what is in the buffer.
ReadOf(F, at, from, m, n, k) ==
  /\ Stretch(F, at, m) \o SubSeq(Stretch(F, from, n), 1, k) = Stretch(F, at, m + k)
  /\ SubSeq(Stretch(F, from, n), k + 1, Len(Stretch(F, from, n))) = Stretch(F, from + k, n - k)

LEMMA NetworkIsRead ==
  ASSUME NEW F, NEW at \in Nat, NEW m \in Nat, NEW n \in Nat, NEW k \in 0 .. n
  PROVE  ReadOf(F, at, at + m, m, n, k)
<1> DEFINE from == at + m
           a == Stretch(F, at, m)
           b == Stretch(F, from, n)
           c == Stretch(F, from, k)
           d == Stretch(F, at, m + k)
<1>1. from \in Nat /\ k \in Nat
  OBVIOUS
<1>2. a \o c = d
  BY <1>1, StretchesJoin
<1> HIDE DEF a, d, from
<1>3. SubSeq(b, 1, k) = c
  BY <1>1, StretchIsCut
<1>4. SubSeq(b, k + 1, n) = Stretch(F, from + k, n - k)
  BY <1>1, StretchIsCut
<1>5. Len(b) = n
  BY <1>1, StretchIs
<1> HIDE DEF b, c
<1>6. a \o SubSeq(b, 1, k) = d
  BY <1>2, <1>3, Zenon
<1>7. SubSeq(b, k + 1, Len(b)) = Stretch(F, from + k, n - k)
  BY <1>4, <1>5, Zenon
<1> QED
  BY <1>6, <1>7, Zenon DEF a, b, d, from, ReadOf

LEMMA FrontIsRead ==
  ASSUME NEW F, NEW m \in Nat, NEW n \in Nat, NEW k \in 0 .. n
  PROVE  ReadOf(F, 0, m, m, n, k)
<1> DEFINE z == 0
<1>1. z \in Nat /\ z + m = m /\ z = 0
  OBVIOUS
<1> HIDE DEF z
<1>2. ReadOf(F, z, z + m, m, n, k)
  BY <1>1, NetworkIsRead
<1> QED
  BY <1>1, <1>2, Zenon

LEMMA ReadResponseStep ==
  ASSUME SsInv, NEW t, ReadResponse(t)
  PROVE  SsInv'
<1>1. PICK resp : resp = receiveBuffer \o SubSeq(arriving, 1, t)
  OBVIOUS
<1>2. PICK verdict : verdict = ParseServerHandshake(resp)
  OBVIOUS
<1>3. /\ step = "awaitResponse" /\ t \in 1 .. Len(arriving)
      /\ arriving' = SubSeq(arriving, t + 1, Len(arriving))
      /\ step' = CASE verdict = "notYet" -> step [] verdict = "valid" -> "open" [] OTHER -> "over"
      /\ receiveBuffer' = IF verdict = "valid" THEN SubSeq(resp, ResponseLength(resp) + 1, Len(resp)) ELSE resp
      /\ cause' = IF verdict = "invalid" THEN "handshake" ELSE cause
      /\ ended' = ended /\ packets' = packets /\ receiveState' = receiveState
      /\ receiveDecodedBuffer' = receiveDecodedBuffer
      /\ returned' = returned /\ handled' = handled /\ fresh' = fresh
  BY <1>1, <1>2 DEF ReadResponse
<1>4. PICK F, E, pad, p, L, N, K, M : Server(F, E, pad, p, L, N, K, M) /\ Client(F, E, pad, p, L, N, K, M)
  BY <1>3, Connected
<1>5. /\ p \in Nat /\ p = Len(packets) /\ pad \in Nat /\ 0 \in 0 .. p /\ p \in 0 .. p
      /\ E[p] \in Nat /\ N[0] = 0 /\ M[0] = 0
  BY <1>4, ServerFacts
<1>6. PICK m, n : WaitingWith(F, E, pad, p, m, n)
  BY <1>3, <1>4 DEF Client
<1>7. /\ m \in Nat /\ n \in Nat /\ E[0] = pad + 5
      /\ receiveBuffer = Stretch(F, 0, m) /\ arriving = Stretch(F, m, n) /\ GoesTo(E, p, m + n)
      /\ receiveState = NoPart /\ receiveDecodedBuffer = <<>>
      /\ returned = <<>> /\ handled = <<>> /\ fresh = TRUE /\ cause = "none"
  BY <1>6 DEF WaitingWith
<1>8. Len(arriving) = n /\ t \in 1 .. n /\ t \in 0 .. n /\ t \in Nat
  <2>1. Len(arriving) = n
    BY <1>7, StretchIs
  <2> QED
    BY <1>3, <1>7, <2>1
<1>9. resp = Stretch(F, 0, m + t) /\ arriving' = Stretch(F, m + t, n - t)
  <2>1. /\ Stretch(F, 0, m) \o SubSeq(Stretch(F, m, n), 1, t) = Stretch(F, 0, m + t)
        /\ SubSeq(Stretch(F, m, n), t + 1, Len(Stretch(F, m, n))) = Stretch(F, m + t, n - t)
    <3>1. ReadOf(F, 0, m, m, n, t)
      BY <1>7, <1>8, FrontIsRead
    <3> QED
      BY <3>1, Zenon DEF ReadOf
  <2> QED
    BY <1>1, <1>3, <1>7, <2>1, Zenon
<1>10. m + t \in Nat /\ n - t \in Nat /\ (m + t) + (n - t) = m + n /\ m + t <= m + n
  BY <1>7, <1>8
<1>11. GoesTo(E, p, (m + t) + (n - t))'
  BY <1>3, <1>7, <1>10 DEF GoesTo
<1>12. m + t <= E[p]
  BY <1>5, <1>7, <1>10 DEF GoesTo
<1>13. Server(F, E, pad, p, L, N, K, M)'
  BY <1>3, <1>4, ServerStays
<1>14. verdict \in {"notYet", "invalid", "valid"}
  <2>1. Len(resp) = m + t
    BY <1>9, <1>10, 0 \in Nat, StretchIs
  <2> QED
    BY <1>2, <1>10, <2>1 DEF ParseServerHandshake, MinHandshakeLength, Size, MacLength
<1>15. CASE verdict = "notYet"
  <2>1. step' = "awaitResponse" /\ receiveBuffer' = resp /\ cause' = cause
    BY <1>3, <1>15
  <2>2. WaitingWith(F, E, pad, p, m + t, n - t)'
    BY <1>3, <1>7, <1>9, <1>10, <1>11, <2>1, Zenon DEF WaitingWith
  <2>3. Client(F, E, pad, p, L, N, K, M)'
    BY <2>1, <2>2 DEF Client
  <2>4. SsTypes' /\ step' # "dial"
    BY <1>3, <2>1 DEF SsInv, SsTypes
  <2> QED
    BY <1>13, <2>3, <2>4, SsInvNext
<1>16. CASE verdict = "invalid"
  <2>1. step' = "over" /\ cause' = "handshake"
    BY <1>3, <1>16
  <2>2. OverWith(L, N, K, M, p, 0, 0)'
    <3>1. returned' = <<>> /\ handled' = <<>> /\ receiveDecodedBuffer' = <<>>
      BY <1>3, <1>7
    <3> QED
      BY <1>4, <2>1, <3>1, NothingUsed
  <2>3. Client(F, E, pad, p, L, N, K, M)'
    BY <2>1, <2>2 DEF Client
  <2>4. SsTypes' /\ step' # "dial"
    BY <1>3, <2>1 DEF SsInv, SsTypes
  <2> QED
    BY <1>13, <2>3, <2>4, SsInvNext
<1>17. CASE verdict = "valid"
  <2>1. step' = "open" /\ receiveBuffer' = SubSeq(resp, ResponseLength(resp) + 1, Len(resp)) /\ cause' = cause
    BY <1>3, <1>17
  <2>2. Laid(F, E, pad, packets, p)
    BY <1>4 DEF Server, Known
  <2>3. ResponseLength(resp) = pad + 5 /\ pad + 5 <= m + t
    <3>1. ParseServerHandshake(Stretch(F, 0, m + t)) = "valid"
      BY <1>2, <1>9, <1>17
    <3> DEFINE x == m + t
    <3>2. x \in Nat /\ x <= E[p]
      BY <1>10, <1>12
    <3> HIDE DEF x
    <3>3. ParseServerHandshake(Stretch(F, 0, x)) = "valid"
      BY <3>1 DEF x
    <3>4. ResponseLength(Stretch(F, 0, x)) = pad + 5 /\ pad + 5 <= x
      BY <1>5, <2>2, <3>2, <3>3, ValidIsWhole
    <3> QED
      BY <1>9, <3>4 DEF x
  <2> DEFINE o == (m + t) - (pad + 5)
  <2>4. o \in Nat /\ E[0] + 0 + 0 + o = m + t
    BY <1>5, <1>7, <1>10, <2>3
  <2>5. receiveBuffer' = Stretch(F, E[0] + 0 + 0, o)
    <3> DEFINE x == m + t
               r == pad + 5
    <3>1. x \in Nat /\ r \in 0 .. x /\ 0 + r = r /\ E[0] + 0 + 0 = r
      BY <1>5, <1>7, <1>10, <2>3
    <3>2. resp = Stretch(F, 0, x) /\ receiveBuffer' = SubSeq(resp, r + 1, Len(resp))
      <4>1. resp = Stretch(F, 0, x)
        BY <1>9
      <4> QED
        BY <2>1, <2>3, <4>1
    <3> HIDE DEF x, r
    <3>3. Len(Stretch(F, 0, x)) = x /\ SubSeq(Stretch(F, 0, x), r + 1, x) = Stretch(F, 0 + r, x - r)
      BY <3>1, 0 \in Nat, StretchIs, StretchIsCut
    <3>4. receiveBuffer' = Stretch(F, 0 + r, x - r)
      BY <3>2, <3>3, Zenon
    <3>5. receiveBuffer' = Stretch(F, E[0] + 0 + 0, x - r)
      BY <3>1, <3>4, Zenon
    <3> QED
      BY <3>5 DEF x, r
  <2> HIDE DEF o
  <2>6. At(E, p, m + t, N, 0, 0, 0, 0, o)
    BY <1>5, <2>4 DEF At
  <2>7. \A f : <<>> = Stretch(f, 0, 0) /\ <<>> = Stretch(f, E[0], 0) /\ <<>> = Stretch(f, E[0] + 2, 0)
    <3>1. E[0] \in Nat /\ E[0] + 2 \in Nat
      BY <1>5, <1>7
    <3> QED
      BY <3>1, 0 \in Nat, NoStretch
  <2>8. /\ returned' = Stretch(L, 0, 0) /\ receiveDecodedBuffer' = Stretch(L, 0, N[0] - 0)
        /\ handled' = Stretch(K, 0, M[0])
        /\ receiveState' = [mac |-> Stretch(F, E[0], 0), hdr |-> Stretch(F, E[0] + 2, 0)]
    <3>1. N[0] - 0 = 0 /\ M[0] = 0
      BY <1>5
    <3> QED
      BY <1>3, <1>7, <2>7, <3>1 DEF NoPart
  <2>9. cause' = "none" /\ (fresh' # TRUE => Waits(packets', 0, 0, 0, o)) /\ 0 \in Nat
    BY <1>3, <1>7, <2>1
  <2>10. OpenWith(F, E, p, L, N, K, M, 0, m + t, n - t, 0, 0, 0, o)'
    BY <1>9, <1>10, <1>11, <2>5, <2>6, <2>8, <2>9, Zenon DEF OpenWith
  <2>11. Client(F, E, pad, p, L, N, K, M)'
    BY <2>1, <2>10 DEF Client
  <2>12. SsTypes' /\ step' # "dial"
    BY <1>3, <2>1 DEF SsInv, SsTypes
  <2> QED
    BY <1>13, <2>11, <2>12, SsInvNext
<1> QED
  BY <1>14, <1>15, <1>16, <1>17

LEMMA ServeReadStep ==
  ASSUME SsInv, NEW t, ServeRead(t)
  PROVE  SsInv'
<1>1. /\ step = "open" /\ t \in 1 .. Len(receiveDecodedBuffer)
      /\ returned' = returned \o SubSeq(receiveDecodedBuffer, 1, t)
      /\ receiveDecodedBuffer' = SubSeq(receiveDecodedBuffer, t + 1, Len(receiveDecodedBuffer))
      /\ step' = step /\ arriving' = arriving /\ ended' = ended /\ packets' = packets
      /\ receiveBuffer' = receiveBuffer /\ receiveState' = receiveState /\ handled' = handled
      /\ fresh' = fresh /\ cause' = cause
  BY DEF ServeRead
<1>2. PICK F, E, pad, p, L, N, K, M : Server(F, E, pad, p, L, N, K, M) /\ Client(F, E, pad, p, L, N, K, M)
  BY <1>1, Connected
<1>3. \A i \in 0 .. p : N[i] \in Nat
  BY <1>2, ServerFacts
<1>4. PICK b, top, n, i, u, h, m : OpenWith(F, E, p, L, N, K, M, b, top, n, i, u, h, m)
  BY <1>1, <1>2 DEF Client
<1>5. /\ b \in Nat /\ top \in Nat /\ n \in Nat
      /\ At(E, p, top, N, b, i, u, h, m)
      /\ receiveBuffer = Stretch(F, E[i] + u + h, m)
      /\ receiveState = [mac |-> Stretch(F, E[i], u), hdr |-> Stretch(F, E[i] + 2, h)]
      /\ arriving = Stretch(F, top, n) /\ GoesTo(E, p, top + n)
      /\ returned = Stretch(L, 0, b) /\ receiveDecodedBuffer = Stretch(L, b, N[i] - b)
      /\ handled = Stretch(K, 0, M[i])
      /\ cause = "none" /\ (fresh # TRUE => Waits(packets, i, u, h, m))
  BY <1>4 DEF OpenWith
<1>6. /\ i \in 0 .. p /\ m \in Nat /\ E[i] + u + h + m = top /\ b <= N[i]
      /\ (u = 0 /\ h = 0) \/ (u = 2 /\ h = 0) \/ (u = 2 /\ h = 1)
      /\ u = 2 => i < p
  BY <1>5 DEF At
<1>7. PICK o : o = N[i] - b
  OBVIOUS
<1>8. o \in Nat /\ receiveDecodedBuffer = Stretch(L, b, o)
  BY <1>3, <1>5, <1>6, <1>7
<1>9. t \in 0 .. o /\ t \in Nat
  <2>1. b \in Nat /\ o \in Nat
    BY <1>5, <1>8
  <2>2. Len(Stretch(L, b, o)) = o
    BY <2>1, StretchIs
  <2>3. Len(receiveDecodedBuffer) = o
    BY <1>8, <2>2, Zenon
  <2> QED
    BY <1>1, <1>8, <2>3
<1>10. returned' = Stretch(L, 0, b + t) /\ receiveDecodedBuffer' = Stretch(L, b + t, o - t)
  <2>1. ReadOf(L, 0, b, b, o, t)
    BY <1>5, <1>8, <1>9, FrontIsRead
  <2> QED
    BY <1>1, <1>5, <1>8, <2>1, Zenon DEF ReadOf
<1>11. PICK c : c = b + t
  OBVIOUS
<1>12. c \in Nat /\ c <= N[i] /\ N[i] - c = o - t
  BY <1>3, <1>5, <1>6, <1>7, <1>8, <1>9, <1>11
<1>13. returned' = Stretch(L, 0, c) /\ receiveDecodedBuffer' = Stretch(L, c, N[i] - c)
  BY <1>10, <1>11, <1>12
<1>14. At(E, p, top, N, c, i, u, h, m)
  BY <1>6, <1>12 DEF At
<1>15. GoesTo(E, p, top + n)' /\ (fresh' # TRUE => Waits(packets', i, u, h, m))
  BY <1>1, <1>5 DEF GoesTo
<1>16. OpenWith(F, E, p, L, N, K, M, c, top, n, i, u, h, m)'
  BY <1>1, <1>5, <1>12, <1>13, <1>14, <1>15, Zenon DEF OpenWith
<1>17. Client(F, E, pad, p, L, N, K, M)'
  BY <1>1, <1>16 DEF Client
<1>18. SsTypes' /\ step' # "dial"
  BY <1>1 DEF SsInv, SsTypes
<1>19. Server(F, E, pad, p, L, N, K, M)'
  BY <1>1, <1>2, ServerStays
<1> QED
  BY <1>17, <1>18, <1>19, SsInvNext

LEMMA ReadPacketsStep ==
  ASSUME SsInv, NEW t, ReadPackets(t)
  PROVE  SsInv'
<1>1. PICK r : r = Process([buf |-> receiveBuffer \o SubSeq(arriving, 1, t),
                            mac |-> receiveState.mac, hdr |-> receiveState.hdr,
                            decoded |-> <<>>, done |-> handled, bad |-> FALSE])
  OBVIOUS
<1>2. /\ step = "open" /\ receiveDecodedBuffer = <<>>
      /\ t \in 1 .. Len(arriving) \/ (t = 0 /\ arriving = <<>> /\ ended # "no")
      /\ arriving' = SubSeq(arriving, t + 1, Len(arriving))
      /\ receiveBuffer' = r.buf
      /\ receiveState' = [mac |-> r.mac, hdr |-> r.hdr]
      /\ receiveDecodedBuffer' = (IF r.bad \/ t = 0 THEN <<>> ELSE r.decoded)
      /\ returned' = (IF r.bad \/ t = 0 THEN returned \o r.decoded ELSE returned)
      /\ handled' = r.done
      /\ cause' = (IF r.bad THEN "packet" ELSE cause)
      /\ step' = (IF r.bad \/ t = 0 THEN "over" ELSE step)
      /\ fresh' = FALSE /\ ended' = ended /\ packets' = packets
  BY <1>1 DEF ReadPackets
<1>3. PICK F, E, pad, p, L, N, K, M : Server(F, E, pad, p, L, N, K, M) /\ Client(F, E, pad, p, L, N, K, M)
  BY <1>2, Connected
<1>4. /\ p \in Nat /\ p \in 0 .. p /\ E[p] \in Nat /\ N[p] \in Nat
      /\ \A i \in 0 .. p : E[i] \in Nat /\ N[i] \in Nat /\ N[i] <= N[p]
  BY <1>3, ServerFacts
<1>5. PICK b, top, n, i, u, h, m : OpenWith(F, E, p, L, N, K, M, b, top, n, i, u, h, m)
  BY <1>2, <1>3 DEF Client
<1>6. /\ b \in Nat /\ top \in Nat /\ n \in Nat
      /\ At(E, p, top, N, b, i, u, h, m)
      /\ receiveBuffer = Stretch(F, E[i] + u + h, m)
      /\ receiveState = [mac |-> Stretch(F, E[i], u), hdr |-> Stretch(F, E[i] + 2, h)]
      /\ arriving = Stretch(F, top, n) /\ GoesTo(E, p, top + n)
      /\ returned = Stretch(L, 0, b) /\ receiveDecodedBuffer = Stretch(L, b, N[i] - b)
      /\ handled = Stretch(K, 0, M[i])
      /\ cause = "none"
  BY <1>5 DEF OpenWith
<1>7. /\ i \in 0 .. p /\ m \in Nat /\ E[i] + u + h + m = top /\ b <= N[i]
      /\ (u = 0 /\ h = 0) \/ (u = 2 /\ h = 0) \/ (u = 2 /\ h = 1)
      /\ u = 2 => i < p
  BY <1>6 DEF At
<1>8. t \in 0 .. n /\ t \in Nat
  <2>1. Len(arriving) = n
    BY <1>6, StretchIs
  <2> QED
    BY <1>2, <1>6, <2>1
<1>9. PICK at : at = E[i] + u + h
  OBVIOUS
<1>10. at \in Nat /\ top = at + m /\ at + (m + t) = top + t /\ m + t \in Nat /\ top + t \in Nat
       /\ top + t <= E[p] /\ n - t \in Nat /\ (top + t) + (n - t) = top + n
  <2>1. top + n <= E[p]
    BY <1>6 DEF GoesTo
  <2>2. E[i] \in Nat
    BY <1>4, <1>7
  <2>3. at \in Nat /\ at + m = top
    BY <1>7, <1>9, <2>2
  <2> QED
    BY <1>4, <1>6, <1>7, <1>8, <2>1, <2>3
<1>11. /\ receiveBuffer \o SubSeq(arriving, 1, t) = Stretch(F, at, m + t)
       /\ arriving' = Stretch(F, top + t, n - t)
  <2>1. ReadOf(F, at, at + m, m, n, t)
    BY <1>6, <1>7, <1>8, <1>10, NetworkIsRead
  <2>2. ReadOf(F, at, top, m, n, t)
    BY <1>10, <2>1
  <2> QED
    BY <1>2, <1>6, <1>9, <2>2, Zenon DEF ReadOf
\* The loop starts from the parts that are there.
<1>12. r = Process(Parts(F, E, L, N, K, M, b, i, u, h, m + t))
  <2> DEFINE buf == receiveBuffer \o SubSeq(arriving, 1, t)
  <2>1. buf = Stretch(F, E[i] + u + h, m + t)
    BY <1>9, <1>11
  <2>2. receiveState.mac = Stretch(F, E[i], u) /\ receiveState.hdr = Stretch(F, E[i] + 2, h)
    BY <1>6
  <2>3. <<>> = Stretch(L, b, N[i] - b) /\ handled = Stretch(K, 0, M[i])
    BY <1>2, <1>6
  <2> HIDE DEF buf
  <2>4. Parts(F, E, L, N, K, M, b, i, u, h, m + t)
          = [buf |-> buf, mac |-> receiveState.mac, hdr |-> receiveState.hdr,
             decoded |-> <<>>, done |-> handled, bad |-> FALSE]
    BY <2>1, <2>2, <2>3, Zenon DEF Parts, Round, Fine
  <2> QED
    BY <1>1, <2>4, Zenon DEF buf
<1>13. At(E, p, top + t, N, b, i, u, h, m + t)
  <2>1. E[i] + u + h + (m + t) = top + t
    BY <1>9, <1>10
  <2> QED
    BY <1>7, <1>10, <2>1 DEF At
<1>14. Known(F, E, pad, packets, p, L, N, K, M)
  BY <1>3 DEF Server
<1>15. Settled(F, E, packets, p, L, N, K, M, b, top + t, r)
  BY <1>6, <1>10, <1>12, <1>13, <1>14, LoopSettles
<1>16. PICK j, v, g, o : /\ At(E, p, top + t, N, b, j, v, g, o)
                         /\ Waits(packets, j, v, g, o)
                         /\ r = Parts(F, E, L, N, K, M, b, j, v, g, o)
  BY <1>15 DEF Settled
<1>17. /\ r.buf = Stretch(F, E[j] + v + g, o) /\ r.mac = Stretch(F, E[j], v)
       /\ r.hdr = Stretch(F, E[j] + 2, g) /\ r.decoded = Stretch(L, b, N[j] - b)
       /\ r.done = Stretch(K, 0, M[j]) /\ r.bad = FALSE
  BY <1>16 DEF Parts, Round, Fine
<1>18. j \in 0 .. p /\ b <= N[j] /\ N[j] \in Nat
  <2>1. j \in 0 .. p /\ b <= N[j]
    BY <1>16 DEF At
  <2> QED
    BY <1>4, <2>1
<1>19. /\ receiveBuffer' = Stretch(F, E[j] + v + g, o)
       /\ receiveState' = [mac |-> Stretch(F, E[j], v), hdr |-> Stretch(F, E[j] + 2, g)]
       /\ handled' = Stretch(K, 0, M[j]) /\ cause' = "none"
  BY <1>2, <1>6, <1>17
<1>20. GoesTo(E, p, (top + t) + (n - t))'
  BY <1>2, <1>6, <1>10 DEF GoesTo
<1>21. Server(F, E, pad, p, L, N, K, M)'
  BY <1>2, <1>3, ServerStays
<1>22. CASE t # 0
  <2>1. step' = "open" /\ receiveDecodedBuffer' = r.decoded /\ returned' = returned
    BY <1>2, <1>17, <1>22
  <2>2. returned' = Stretch(L, 0, b) /\ receiveDecodedBuffer' = Stretch(L, b, N[j] - b)
    BY <1>6, <1>17, <2>1
  <2>3. fresh' # TRUE => Waits(packets', j, v, g, o)
    BY <1>2, <1>16
  <2>4. OpenWith(F, E, p, L, N, K, M, b, top + t, n - t, j, v, g, o)'
    BY <1>6, <1>10, <1>11, <1>16, <1>19, <1>20, <2>2, <2>3, Zenon DEF OpenWith
  <2>5. Client(F, E, pad, p, L, N, K, M)'
    BY <2>1, <2>4 DEF Client
  <2>6. SsTypes' /\ step' # "dial"
    BY <1>2, <2>1 DEF SsInv, SsTypes
  <2> QED
    BY <1>21, <2>5, <2>6, SsInvNext
<1>23. CASE t = 0
  <2>1. step' = "over" /\ receiveDecodedBuffer' = <<>> /\ returned' = returned \o r.decoded
        /\ ended # "no" /\ arriving = <<>>
    BY <1>2, <1>17, <1>23
  <2>2. returned' = Stretch(L, 0, N[j])
    <3> DEFINE y == N[j] - b
               z == N[j]
    <3>1. y \in Nat /\ z = b + y /\ b \in Nat
      BY <1>6, <1>18
    <3> HIDE DEF y, z
    <3>2. Stretch(L, 0, b) \o Stretch(L, b, y) = Stretch(L, 0, z)
      BY <3>1, FrontsJoin
    <3> QED
      BY <1>6, <1>17, <2>1, <3>2, Zenon DEF y, z
  <2>3. ASSUME ended = "closed"
        PROVE  N[j] = N[p]
    <3>1. Len(Stretch(F, top, n)) = n /\ Len(<<>>) = 0
      BY <1>6, StretchIs, EmptySeq
    <3>2. n = 0
      BY <1>6, <2>1, <3>1
    <3>3. top + n = E[p]
      BY <1>6, <2>3 DEF GoesTo
    <3>4. top + t = E[p]
      BY <1>6, <1>23, <3>2, <3>3
    <3>5. At(E, p, E[p], N, b, j, v, g, o)
      BY <1>16, <3>4, Zenon
    <3>6. j = p
      BY <1>14, <1>16, <3>5, WaitsAtEnd
    <3> QED
      BY <3>6
  <2>4. N[j] \in 0 .. N[p]
    BY <1>4, <1>18
  <2>5. /\ cause' # "packet" /\ (cause' = "none" => ended' # "no")
        /\ (ended' = "closed" /\ cause' = "none" => N[j] = N[p])
    BY <1>2, <1>19, <2>1, <2>3
  <2>6. OverWith(L, N, K, M, p, N[j], j)'
    BY <1>18, <1>19, <2>1, <2>2, <2>4, <2>5, Zenon DEF OverWith
  <2>7. Client(F, E, pad, p, L, N, K, M)'
    BY <2>1, <2>6 DEF Client
  <2>8. SsTypes' /\ step' # "dial"
    BY <1>2, <2>1 DEF SsInv, SsTypes
  <2> QED
    BY <1>21, <2>7, <2>8, SsInvNext
<1> QED
  BY <1>22, <1>23

LEMMA SsInvStutter == SsInv /\ UNCHANGED ssVars => SsInv'
<1> SUFFICES ASSUME SsInv, UNCHANGED ssVars
             PROVE  SsInv'
  OBVIOUS
<1>1. /\ step' = step /\ arriving' = arriving /\ ended' = ended /\ packets' = packets
      /\ receiveBuffer' = receiveBuffer /\ receiveState' = receiveState
      /\ receiveDecodedBuffer' = receiveDecodedBuffer /\ returned' = returned /\ handled' = handled
      /\ fresh' = fresh /\ cause' = cause
  BY DEF ssVars
<1>2. SsTypes'
  BY <1>1 DEF SsInv, SsTypes
<1>3. CASE step = "dial"
  BY <1>1, <1>2, <1>3 DEF SsInv, Dialing
<1>4. CASE step # "dial"
  <2>1. PICK F, E, pad, p, L, N, K, M : Server(F, E, pad, p, L, N, K, M) /\ Client(F, E, pad, p, L, N, K, M)
    BY <1>4, Connected
  <2>2. Server(F, E, pad, p, L, N, K, M)'
    BY <1>1, <2>1, ServerStays
  <2>3. Client(F, E, pad, p, L, N, K, M)'
    <3>1. step' = "awaitResponse" => \E m, n : WaitingWith(F, E, pad, p, m, n)'
      BY <1>1, <2>1 DEF Client, WaitingWith, GoesTo
    <3>2. step' = "open" => \E b, top, n, i, u, h, m : OpenWith(F, E, p, L, N, K, M, b, top, n, i, u, h, m)'
      <4> SUFFICES ASSUME step' = "open"
                   PROVE  \E b, top, n, i, u, h, m : OpenWith(F, E, p, L, N, K, M, b, top, n, i, u, h, m)'
        OBVIOUS
      <4>1. PICK b, top, n, i, u, h, m : OpenWith(F, E, p, L, N, K, M, b, top, n, i, u, h, m)
        BY <1>1, <2>1 DEF Client
      <4>2. OpenWith(F, E, p, L, N, K, M, b, top, n, i, u, h, m)'
        BY <1>1, <4>1, Zenon DEF OpenWith, GoesTo
      <4> QED
        BY <4>2
    <3>3. step' = "over" => \E k, j : OverWith(L, N, K, M, p, k, j)'
      BY <1>1, <2>1 DEF Client, OverWith
    <3> QED
      BY <3>1, <3>2, <3>3 DEF Client
  <2> QED
    BY <1>1, <1>2, <1>4, <2>2, <2>3, SsInvNext
<1> QED
  BY <1>3, <1>4

LEMMA SsInvStep == SsInv /\ [ScramblesuitNext]_ssVars => SsInv'
<1> SUFFICES ASSUME SsInv, [ScramblesuitNext]_ssVars
             PROVE  SsInv'
  OBVIOUS
<1>1. CASE ClientHandshake
  BY <1>1, ClientHandshakeStep
<1>2. CASE HandshakeFails
  BY <1>2, HandshakeFailsStep
<1>3. ASSUME NEW kind \in Kinds, ServerSends(kind)
      PROVE  SsInv'
  BY <1>3, ServerSendsStep
<1>4. ASSUME NEW how \in {"closed", "broken"}, ConnectionEnds(how)
      PROVE  SsInv'
  BY <1>4, ConnectionEndsStep
<1>5. ASSUME NEW n \in 0 .. Len(arriving), ReadResponse(n) \/ ReadPackets(n)
      PROVE  SsInv'
  BY <1>5, ReadResponseStep, ReadPacketsStep
<1>6. ASSUME NEW n \in 1 .. MaxPackets, ServeRead(n)
      PROVE  SsInv'
  BY <1>6, ServeReadStep
<1>7. CASE UNCHANGED ssVars
  BY <1>7, SsInvStutter
<1> QED
  BY <1>1, <1>2, <1>3, <1>4, <1>5, <1>6, <1>7 DEF ScramblesuitNext

\* For every padding of the response, every mix of payload, ticket, seed and
\* padding packets and every cut of the stream, and whether or not packets come
\* in one piece with the response: scramblesuit's client hands on the payload
\* in order, each once, uses every ticket and seed once, and never calls a
\* stream bad that is not (conn.go).
THEOREM ScramblesuitAlwaysConserves == ScramblesuitSpec => []ScramblesuitConserves
<1>1. ScramblesuitInit => SsInv
  BY SsInvInit
<1>2. SsInv /\ [ScramblesuitNext]_ssVars => SsInv'
  BY SsInvStep
<1>3. SsInv => ScramblesuitConserves
  BY SsInvConserves
<1> QED
  BY <1>1, <1>2, <1>3, PTL DEF ScramblesuitSpec
=============================================================================
