---------------------------- MODULE LengthProofs ----------------------------
(***************************************************************************)
(* Theorems about lengths: the messages of the obfs4 handshake, for every  *)
(* padding and every cut of the stream; the bursts of obfs4 and of         *)
(* scramblesuit, for every write and every distribution; and the alias     *)
(* tables the lengths are drawn from, for all weights.                     *)
(***************************************************************************)
EXTENDS HandshakeBytes, Obfs4Write, ScramblesuitWrite, ProbDist,
        FiniteSetTheorems, WellFoundedInduction, SequenceTheorems, TLAPS

(***************************************************************************)
(* The bytes of the obfs4 handshake.                                       *)
(***************************************************************************)

\* What the reader waits for is ahead of it, ends where it must be found, and
\* carries an hour that it accepts.
HandshakeInv ==
  /\ reader \in {"server", "client", "done"}
  /\ markAt \in Nat /\ total \in Nat /\ received \in Nat
  /\ clientHour \in 0 .. 2 /\ serverHour \in 1 .. 2
  /\ serverHour = 2 => clientHour > 0
  /\ reader = "server" =>
       /\ markAt >= RepresentativeLength + clientMinPadLength
       /\ total = markAt + markLength + macLength
       /\ total <= maxHandshakeLength
       /\ received < total
  /\ reader = "client" =>
       /\ markAt >= RepresentativeLength + AuthLength + serverMinPadLength
       /\ markAt + markLength + macLength + inlineSeedFrameLength <= maxHandshakeLength
       /\ agreedHour = clientHour
       /\ received < markAt + markLength + macLength
  /\ \A l \in firstFlights :
       clientMinHandshakeLength + clientMinPadLength <= l /\ l <= maxHandshakeLength

\* A drawn length is in the range it is drawn from.
LEMMA DrawnInRange ==
  ASSUME NEW lo \in Int, NEW hi \in Int, NEW drawn \in IntRange(lo, hi)
  PROVE  drawn \in Int /\ lo <= drawn /\ drawn <= hi
<1>1. drawn \in lo .. hi
  BY DEF IntRange
<1> QED
  BY <1>1

\* The lengths of the code, as numbers.
LEMMA LengthsAsNumbers ==
  /\ clientMinHandshakeLength = 64 /\ serverMinHandshakeLength = 96
  /\ clientMinPadLength = 77 /\ clientMaxPadLength = 8128
  /\ serverMinPadLength = 0 /\ serverMaxPadLength = 8051
BY DEF clientMinPadLength, clientMaxPadLength, serverMinPadLength, serverMaxPadLength,
       serverMinHandshakeLength, clientMinHandshakeLength, RepresentativeLength, AuthLength,
       markLength, macLength, maxHandshakeLength, inlineSeedFrameLength

\* The padding bounds leave room for everything else in a message, and for the
\* seed frame behind the response: both sides' first flights have one range.
LEMMA FlightsHaveOneRange ==
  /\ \A padLen \in IntRange(clientMinPadLength, clientMaxPadLength) :
       /\ padLen \in Nat /\ padLen >= clientMinPadLength
       /\ RepresentativeLength + padLen + markLength + macLength
            \in clientMinHandshakeLength + clientMinPadLength .. maxHandshakeLength
  /\ \A padLen \in IntRange(serverMinPadLength, serverMaxPadLength) :
       /\ padLen \in Nat
       /\ serverMinHandshakeLength + padLen + inlineSeedFrameLength
            \in clientMinHandshakeLength + clientMinPadLength .. maxHandshakeLength
<1>1. ASSUME NEW padLen \in IntRange(clientMinPadLength, clientMaxPadLength)
      PROVE  /\ padLen \in Nat /\ padLen >= clientMinPadLength
             /\ RepresentativeLength + padLen + markLength + macLength
                  \in clientMinHandshakeLength + clientMinPadLength .. maxHandshakeLength
  <2>1. padLen \in Int /\ clientMinPadLength <= padLen /\ padLen <= clientMaxPadLength
    BY DrawnInRange, LengthsAsNumbers
  <2> QED
    BY <2>1, LengthsAsNumbers DEF RepresentativeLength, markLength, macLength, maxHandshakeLength
<1>2. ASSUME NEW padLen \in IntRange(serverMinPadLength, serverMaxPadLength)
      PROVE  /\ padLen \in Nat
             /\ serverMinHandshakeLength + padLen + inlineSeedFrameLength
                  \in clientMinHandshakeLength + clientMinPadLength .. maxHandshakeLength
  <2>1. padLen \in Int /\ serverMinPadLength <= padLen /\ padLen <= serverMaxPadLength
    BY DrawnInRange, LengthsAsNumbers
  <2> QED
    BY <2>1, LengthsAsNumbers DEF maxHandshakeLength, inlineSeedFrameLength
<1> QED
  BY <1>1, <1>2

LEMMA InitHandshake == HandshakeBytesInit => HandshakeInv
<1> SUFFICES ASSUME HandshakeBytesInit
             PROVE  HandshakeInv
  OBVIOUS
<1>1. PICK padLen \in IntRange(clientMinPadLength, clientMaxPadLength) :
        markAt = RepresentativeLength + padLen /\ total = markAt + markLength + macLength
  BY DEF HandshakeBytesInit
<1>2. /\ padLen \in Nat /\ padLen >= clientMinPadLength
      /\ total \in clientMinHandshakeLength + clientMinPadLength .. maxHandshakeLength
  BY <1>1, FlightsHaveOneRange
<1> QED
  BY <1>1, <1>2
  DEF HandshakeBytesInit, HandshakeInv, RepresentativeLength, markLength, macLength,
      clientMinPadLength, serverMinHandshakeLength, clientMinHandshakeLength, AuthLength,
      inlineSeedFrameLength, maxHandshakeLength

\* After a read there is more than before, and no more than was sent.
LEMMA FilledIsFurther ==
  ASSUME HandshakeInv, NEW length \in Filled
  PROVE  length \in Nat /\ received < length /\ length <= total
<1>1. \A e \in Int : \A l \in e - Near .. e + Near : l \in Int
  OBVIOUS
<1>2. length \in Int
  BY <1>1 DEF HandshakeInv, Filled, clientMinHandshakeLength, serverMinHandshakeLength,
              RepresentativeLength, AuthLength, markLength, macLength, maxHandshakeLength
<1> QED
  BY <1>2 DEF HandshakeInv, Filled

\* The server finds the mark when it has the whole request, and not before.
LEMMA TailSearch ==
  ASSUME HandshakeInv, reader = "server", NEW length \in Nat, length <= total
  PROVE  FindMarkMac(length, RepresentativeLength + clientMinPadLength, maxHandshakeLength, TRUE)
           = IF length = total THEN markAt ELSE -1
BY DEF HandshakeInv, FindMarkMac, RepresentativeLength, markLength, macLength, maxHandshakeLength,
       clientMinPadLength, serverMinHandshakeLength, clientMinHandshakeLength, AuthLength,
       inlineSeedFrameLength

\* The client finds it when it has the whole response, whatever is behind.
LEMMA SubstringSearch ==
  ASSUME HandshakeInv, reader = "client", NEW length \in Nat
  PROVE  FindMarkMac(length, RepresentativeLength + AuthLength + serverMinPadLength,
                     maxHandshakeLength, FALSE)
           = IF length >= markAt + markLength + macLength THEN markAt ELSE -1
BY DEF HandshakeInv, FindMarkMac, RepresentativeLength, AuthLength, serverMinPadLength, markLength,
       macLength, maxHandshakeLength, inlineSeedFrameLength

LEMMA ServerReadsInv ==
  ASSUME HandshakeInv, NEW length \in Filled, ServerReads(length)
  PROVE  HandshakeInv'
<1>1. length \in Nat /\ received < length /\ length <= total
  BY FilledIsFurther
<1>2. /\ reader = "server" /\ UNCHANGED <<clientHour, serverHour>>
      /\ total = markAt + markLength + macLength /\ total <= maxHandshakeLength
  BY DEF ServerReads, HandshakeInv
<1> DEFINE pos == FindMarkMac(length, RepresentativeLength + clientMinPadLength,
                              maxHandshakeLength, TRUE)
<1>3. pos = IF length = total THEN markAt ELSE -1
  BY <1>1, <1>2, TailSearch
<1>4. \E off \in {0, -1, 1} : serverHour + off = clientHour
  <2>1. \/ serverHour + 0 = clientHour \/ serverHour + (-1) = clientHour
        \/ serverHour + 1 = clientHour
    BY DEF HandshakeInv
  <2> QED
    BY <2>1
<1> HIDE DEF pos
<1>5. CASE length < total
  <2>1. pos = -1 /\ ~(length >= maxHandshakeLength)
    BY <1>1, <1>2, <1>3, <1>5 DEF HandshakeInv, maxHandshakeLength
  <2>2. received' = length /\ UNCHANGED <<reader, markAt, total, agreedHour, firstFlights>>
    BY <2>1 DEF ServerReads, NotFoundYet, pos
  <2> QED
    BY <2>2, <1>1, <1>2, <1>5 DEF HandshakeInv
<1>6. CASE length = total
  <2>1. pos = markAt /\ pos # -1 /\ length = pos + markLength + macLength
    BY <1>2, <1>3, <1>6 DEF HandshakeInv
  <2>2. ~(length < clientMinHandshakeLength)
    BY <1>2, <1>6
    DEF HandshakeInv, clientMinHandshakeLength, RepresentativeLength, markLength, macLength,
        clientMinPadLength, serverMinHandshakeLength, AuthLength, inlineSeedFrameLength
  <2>3. Respond
    BY <1>4, <2>1, <2>2 DEF ServerReads, pos
  <2>4. PICK padLen \in IntRange(serverMinPadLength, serverMaxPadLength), payload \in Payloads :
          /\ reader' = "client"
          /\ markAt' = RepresentativeLength + AuthLength + padLen
          /\ total' = serverMinHandshakeLength + padLen + inlineSeedFrameLength + payload
          /\ received' = 0
          /\ agreedHour' = clientHour
          /\ firstFlights' =
               firstFlights \cup {serverMinHandshakeLength + padLen + inlineSeedFrameLength}
    BY <2>3 DEF Respond
  <2>5. /\ padLen \in Nat /\ payload \in Nat
        /\ serverMinHandshakeLength + padLen + inlineSeedFrameLength
             \in clientMinHandshakeLength + clientMinPadLength .. maxHandshakeLength
    BY FlightsHaveOneRange, HandshakeBytesAssumption
  <2>6. \A l \in firstFlights' :
          clientMinHandshakeLength + clientMinPadLength <= l /\ l <= maxHandshakeLength
    BY <2>4, <2>5 DEF HandshakeInv
  <2> QED
    BY <1>2, <2>4, <2>5, <2>6
    DEF HandshakeInv, RepresentativeLength, AuthLength, serverMinPadLength, markLength, macLength,
        serverMinHandshakeLength, clientMinHandshakeLength, inlineSeedFrameLength,
        maxHandshakeLength
<1> QED
  BY <1>1, <1>2, <1>5, <1>6 DEF HandshakeInv

LEMMA ClientReadsInv ==
  ASSUME HandshakeInv, NEW length \in Filled, ClientReads(length)
  PROVE  HandshakeInv'
<1>1. length \in Nat /\ received < length
  BY FilledIsFurther
<1>2. reader = "client" /\ UNCHANGED <<clientHour, serverHour>> /\ agreedHour = clientHour
  BY DEF ClientReads, HandshakeInv
<1> DEFINE pos == FindMarkMac(length, RepresentativeLength + AuthLength + serverMinPadLength,
                              maxHandshakeLength, FALSE)
           responseEnd == markAt + markLength + macLength
<1>3. pos = IF length >= responseEnd THEN markAt ELSE -1
  BY <1>1, <1>2, SubstringSearch
<1>4. markAt \in Nat /\ responseEnd \in Nat /\ responseEnd < maxHandshakeLength
      /\ responseEnd >= serverMinHandshakeLength
  BY <1>2 DEF HandshakeInv, markLength, macLength, inlineSeedFrameLength, maxHandshakeLength,
     serverMinHandshakeLength, clientMinHandshakeLength, RepresentativeLength, AuthLength,
     serverMinPadLength
<1> HIDE DEF pos, responseEnd
<1>5. CASE length < responseEnd
  <2>1. pos = -1 /\ ~(length >= maxHandshakeLength)
    BY <1>1, <1>3, <1>4, <1>5 DEF maxHandshakeLength
  <2>2. received' = length /\ UNCHANGED <<reader, markAt, total, agreedHour, firstFlights>>
    BY <2>1 DEF ClientReads, NotFoundYet, pos
  <2> QED
    BY <2>2, <1>1, <1>2, <1>5 DEF HandshakeInv, responseEnd
<1>6. CASE length >= responseEnd
  <2>1. pos = markAt /\ pos # -1
    BY <1>3, <1>4, <1>6
  <2>2. ~(length < serverMinHandshakeLength)
    BY <1>1, <1>4, <1>6, LengthsAsNumbers
  <2>3. /\ reader' = "done"
        /\ received' = length - (pos + markLength + macLength)
        /\ UNCHANGED <<markAt, total, agreedHour, firstFlights>>
    <3>1. length >= pos + markLength + macLength
      BY <1>6, <2>1 DEF responseEnd
    <3> QED
      BY <1>2, <2>1, <2>2, <3>1 DEF ClientReads, pos
  <2>4. received' \in Nat
    BY <1>1, <1>4, <1>6, <2>1, <2>3 DEF responseEnd, markLength, macLength
  <2> QED
    BY <1>2, <2>3, <2>4 DEF HandshakeInv
<1> QED
  BY <1>1, <1>4, <1>5, <1>6

LEMMA NextHandshake == HandshakeInv /\ [HandshakeBytesNext]_handshakeBytesVars => HandshakeInv'
<1> SUFFICES ASSUME HandshakeInv, [HandshakeBytesNext]_handshakeBytesVars
             PROVE  HandshakeInv'
  OBVIOUS
<1>1. CASE HourPasses
  BY <1>1 DEF HourPasses, HandshakeInv
<1>2. ASSUME NEW length \in Filled, ServerReads(length)
      PROVE  HandshakeInv'
  BY <1>2, ServerReadsInv
<1>3. ASSUME NEW length \in Filled, ClientReads(length)
      PROVE  HandshakeInv'
  BY <1>3, ClientReadsInv
<1>4. CASE UNCHANGED handshakeBytesVars
  BY <1>4 DEF handshakeBytesVars, HandshakeInv
<1> QED
  BY <1>1, <1>2, <1>3, <1>4 DEF HandshakeBytesNext

\* With every padding that the two sides may draw, every way to cut the stream
\* (Near may be as large as a message) and any payload behind the response, an
\* honest client and an honest server complete their handshake.
THEOREM HonestHandshakeAlwaysCompletes == HandshakeBytesSpec => []HonestHandshakeCompletes
<1>1. HandshakeInv => HonestHandshakeCompletes
  BY DEF HandshakeInv, HonestHandshakeCompletes
<1> QED
  BY InitHandshake, NextHandshake, <1>1, PTL DEF HandshakeBytesSpec

(***************************************************************************)
(* Remainders.                                                             *)
(***************************************************************************)

LEMMA DivisionDef ==
  ASSUME NEW a \in Int, NEW m \in Nat \ {0}
  PROVE  a \div m \in Int /\ a % m \in 0 .. m - 1 /\ a = m * (a \div m) + (a % m)
OBVIOUS

\* No multiple of m but 0 is less than m away from 0.
LEMMA SmallMultiple ==
  ASSUME NEW q \in Int, NEW m \in Nat \ {0}, -m < m * q, m * q < m
  PROVE  q = 0
<1>1. q >= 1 => m * q >= m
  OBVIOUS
<1>2. q <= -1 => m * q <= -m
  OBVIOUS
<1> QED
  BY <1>1, <1>2

\* There is one remainder.
LEMMA RemainderIsUnique ==
  ASSUME NEW a \in Int, NEW m \in Nat \ {0}, NEW q \in Int, NEW r \in 0 .. m - 1,
         a = m * q + r
  PROVE  a % m = r
<1> DEFINE x == a \div m
           y == a % m
           d == x - q
<1>1. x \in Int /\ y \in 0 .. m - 1 /\ a = m * x + y
  BY DivisionDef
<1> HIDE DEF x, y
<1>2. m * d = m * x - m * q
  BY <1>1
<1>3. m * d = r - y
  <2> DEFINE mx == m * x
             mq == m * q
             md == m * d
  <2>1. mx \in Int /\ mq \in Int /\ md = mx - mq /\ a = mx + y /\ a = mq + r
    BY <1>1, <1>2
  <2> HIDE DEF mx, mq, md
  <2>2. md = r - y
    BY <1>1, <2>1
  <2> QED
    BY <2>2 DEF md
<1>4. d \in Int /\ -m < m * d /\ m * d < m
  BY <1>1, <1>3
<1> HIDE DEF d
<1>5. d = 0
  BY <1>4, SmallMultiple
<1>6. y = r
  BY <1>1, <1>3, <1>5
<1> QED
  BY <1>6 DEF y

\* Numbers a multiple of m apart have the same remainder.
LEMMA SameRemainder ==
  ASSUME NEW a \in Int, NEW b \in Int, NEW m \in Nat \ {0}, NEW q \in Int, a = b + m * q
  PROVE  a % m = b % m
<1>1. b \div m \in Int /\ b % m \in 0 .. m - 1 /\ b = m * (b \div m) + (b % m)
  BY DivisionDef
<1> DEFINE k == (b \div m) + q
           r == b % m
<1>2. m * k = m * (b \div m) + m * q
  BY <1>1
<1>3. k \in Int /\ r \in 0 .. m - 1 /\ a = m * k + r
  BY <1>1, <1>2
<1> HIDE DEF k, r
<1>4. a % m = r
  BY <1>3, RemainderIsUnique
<1> QED
  BY <1>4 DEF r

\* Numbers with the same remainder are a multiple of m apart.
LEMMA MultipleApart ==
  ASSUME NEW a \in Int, NEW b \in Int, NEW m \in Nat \ {0}, a % m = b % m
  PROVE  \E q \in Int : a = b + m * q
<1> DEFINE x == a \div m
           y == b \div m
           q == x - y
<1>1. /\ x \in Int /\ a = m * x + (a % m)
      /\ y \in Int /\ b = m * y + (b % m)
      /\ b % m \in 0 .. m - 1
  BY DivisionDef
<1> HIDE DEF x, y
<1>2. q \in Int /\ m * q = m * x - m * y
  BY <1>1
<1> HIDE DEF q
<1>3. a - b = m * x - m * y
  BY <1>1
<1>4. a = b + m * q
  BY <1>1, <1>2, <1>3
<1> QED
  BY <1>2, <1>4

LEMMA RemainderOfSum ==
  ASSUME NEW s \in Int, NEW t \in Int, NEW c \in Int, NEW d \in Nat \ {0}, s % d = t % d
  PROVE  (s + c) % d = (t + c) % d
<1>1. PICK k \in Int : s = t + d * k
  BY MultipleApart
<1>2. \A u, v \in Int : u = v + d * k => u % d = v % d
  <2> TAKE u, v \in Int
  <2> HAVE u = v + d * k
  <2> QED
    BY SameRemainder
<1>3. s + c \in Int /\ t + c \in Int /\ s + c = (t + c) + d * k
  BY <1>1
<1> QED
  BY <1>2, <1>3

(***************************************************************************)
(* The bursts of obfs4.                                                    *)
(***************************************************************************)

WriteType ==
  /\ pc \in {"idle", "pad", "flush", "panic:iatLength"}
  /\ burst \in Nat /\ target \in Int /\ tail \in Int
  /\ pc = "pad" => iatMode # iatParanoid

\* Between padBurst and the last write the burst ends where it was padded to.
EndsAsSampled ==
  burst % MaximumSegmentLength =
    (IF Gap \in 1 .. headerLength THEN target + headerLength ELSE target) % MaximumSegmentLength

\* A burst that overshot its sample holds a whole segment.
OvershotHoldsSegment ==
  overshot = FALSE \/ (pc = "flush" /\ iatMode = iatParanoid /\ burst >= MaximumSegmentLength)

WriteInv ==
  /\ WriteType
  /\ pc = "flush" /\ iatMode # iatParanoid => EndsAsSampled
  /\ OvershotHoldsSegment

LEMMA WriteConstants ==
  /\ MaximumSegmentLength \in Nat \ {0} /\ headerLength \in Nat \ {0}
  /\ maxPacketPayloadLength \in Nat \ {0}
  /\ headerLength < maxPacketPayloadLength /\ maxPacketPayloadLength < 65536
  /\ MaximumSegmentLength = maxPacketPayloadLength + headerLength
  /\ \A sample \in Values : sample \in Nat /\ sample <= MaximumSegmentLength
BY WriteAssumption DEF maxPacketPayloadLength

\* uint16 leaves a length as it is.
LEMMA Uint16Identity ==
  ASSUME NEW n \in Nat, n < 65536
  PROVE  Uint16(n) = n
BY DEF Uint16

LEMMA ChoppedType ==
  ASSUME NEW n \in Nat
  PROVE  Chopped(n) \in Nat
<1> DEFINE full == n \div maxPacketPayloadLength
           rest == n % maxPacketPayloadLength
<1>1. full \in Int /\ rest \in 0 .. maxPacketPayloadLength - 1
      /\ n = maxPacketPayloadLength * full + rest
  BY DivisionDef, WriteConstants
<1>2. full >= 0
  <2>1. full <= -1 => maxPacketPayloadLength * full <= -maxPacketPayloadLength
    BY <1>1, WriteConstants
  <2> QED
    BY <1>1, <2>1, WriteConstants
<1>3. full * MaximumSegmentLength \in Nat
  BY <1>1, <1>2, WriteConstants
<1> QED
  BY <1>1, <1>3, WriteConstants DEF Chopped, FrameLength

\* padBurst's distance is from 0 to a segment, and takes the end of the burst to
\* the sample.
LEMMA PadLengthReaches ==
  ASSUME NEW n \in Nat, NEW sample \in Values
  PROVE  /\ PadLength(n, sample) \in 0 .. MaximumSegmentLength
         /\ (n + PadLength(n, sample)) % MaximumSegmentLength = sample % MaximumSegmentLength
         /\ (sample - (n % MaximumSegmentLength)) % MaximumSegmentLength =
              IF PadLength(n, sample) = MaximumSegmentLength THEN 0 ELSE PadLength(n, sample)
<1> DEFINE M == MaximumSegmentLength
           tailLen == n % M
           p == PadLength(n, sample)
<1>1. /\ M \in Nat \ {0} /\ sample \in Nat /\ sample <= M
  BY WriteConstants
<1>2. n \div M \in Int /\ tailLen \in 0 .. M - 1 /\ n = M * (n \div M) + tailLen
  BY <1>1, DivisionDef
<1>3. p = IF sample >= tailLen THEN sample - tailLen ELSE (M - tailLen) + sample
  BY DEF PadLength
<1> HIDE DEF M, tailLen, p
<1>4. p \in 0 .. M
  BY <1>1, <1>2, <1>3
<1>5. PICK k \in {0, 1} : p = (sample - tailLen) + M * k
  <2>1. p = (sample - tailLen) + M * 0 \/ p = (sample - tailLen) + M * 1
    BY <1>1, <1>2, <1>3
  <2> QED
    BY <2>1
<1>6. (n + p) % M = sample % M
  <2> DEFINE x == n \div M
             q == x + k
             mx == M * x
             mk == M * k
  <2>1. x \in Int /\ k \in Int
    BY <1>2
  <2> HIDE DEF x
  <2>2. M * q = mx + mk /\ mx \in Int /\ mk \in Int
    BY <1>1, <2>1
  <2>3. n = mx + tailLen /\ p = (sample - tailLen) + mk
    BY <1>2, <1>5 DEF x
  <2> HIDE DEF mx, mk
  <2>4. q \in Int /\ n + p \in Int /\ sample \in Int
    BY <1>1, <1>4, <2>1
  <2> HIDE DEF q
  <2>5. n + p = sample + M * q
    BY <1>1, <1>2, <2>2, <2>3
  <2>6. M \in Nat \ {0}
    BY <1>1
  <2> QED
    BY <2>4, <2>5, <2>6, SameRemainder, ZenonT(60)
<1>7. (sample - tailLen) % M = IF p = M THEN 0 ELSE p
  <2> DEFINE r == IF p = M THEN 0 ELSE p
             q == (IF p = M THEN 1 ELSE 0) - k
  <2>1. r \in 0 .. M - 1 /\ p = r + M * (IF p = M THEN 1 ELSE 0)
    BY <1>1, <1>4
  <2>2. q \in Int /\ M * q = M * (IF p = M THEN 1 ELSE 0) - M * k
    BY <1>1
  <2>3. sample - tailLen \in Int /\ sample - tailLen = M * q + r
    BY <1>1, <1>2, <1>4, <1>5, <2>1, <2>2
  <2> HIDE DEF r, q
  <2>4. (sample - tailLen) % M = r
    BY <1>1, <2>1, <2>2, <2>3, RemainderIsUnique
  <2> QED
    BY <2>4 DEF r
<1> QED
  BY <1>4, <1>6, <1>7 DEF M, tailLen, p

\* The packets of a padding fit, and are the padding; one that is shorter than a
\* header takes a segment and a header more.
LEMMA PaddingFits ==
  ASSUME NEW n \in Nat, NEW padLen \in 0 .. MaximumSegmentLength
  PROVE  /\ ~PanicsOn(PadPackets(padLen))
         /\ Padded(n, PadPackets(padLen)) =
              IF padLen \in 1 .. headerLength THEN n + padLen + headerLength + MaximumSegmentLength
              ELSE n + padLen
<1>1. CASE padLen > headerLength
  <2>1. PadPackets(padLen) = <<padLen - headerLength>>
    BY <1>1, WriteConstants, Uint16Identity DEF PadPackets
  <2> QED
    BY <1>1, <2>1, WriteConstants DEF PanicsOn, Padded, FrameLength
<1>2. CASE padLen > 0 /\ padLen <= headerLength
  <2>1. PadPackets(padLen) = <<maxPacketPayloadLength, padLen>>
    BY <1>2, WriteConstants, Uint16Identity DEF PadPackets
  <2> QED
    BY <1>2, <2>1, WriteConstants DEF PanicsOn, Padded, FrameLength
<1>3. CASE padLen = 0
  <2>1. PadPackets(padLen) = <<>>
    BY <1>3, WriteConstants DEF PadPackets
  <2> QED
    BY <1>3, <2>1, WriteConstants DEF PanicsOn, Padded
<1> QED
  BY <1>1, <1>2, <1>3, WriteConstants

LEMMA PadInv ==
  ASSUME WriteInv, NEW sample \in Values, Pad(sample)
  PROVE  WriteInv'
<1> DEFINE p == PadLength(burst, sample)
           M == MaximumSegmentLength
           gap == IF p = M THEN 0 ELSE p
<1>1. /\ pc = "pad" /\ target' = sample /\ tail' = burst % M
      /\ iatMode # iatParanoid /\ iatMode' = iatMode
      /\ burst \in Nat /\ M \in Nat \ {0} /\ sample \in Nat /\ sample <= M
  BY WriteConstants DEF Pad, WriteInv, WriteType
<1>0. OvershotHoldsSegment'
  BY DEF Pad, WriteInv, WriteType, OvershotHoldsSegment
<1>2. p \in 0 .. M /\ (burst + p) % M = sample % M /\ (sample - (burst % M)) % M = gap
  BY <1>1, PadLengthReaches
<1>3. /\ pc' = "flush"
      /\ burst' = IF p \in 1 .. headerLength THEN burst + p + headerLength + M ELSE burst + p
  BY <1>1, <1>2, PaddingFits DEF Pad
<1>4. Gap' = gap
  BY <1>1, <1>2 DEF Gap
<1>5. tail' \in Int
  BY <1>1, DivisionDef
<1> HIDE DEF p, M
<1>6. headerLength \in Nat /\ headerLength < M
  BY WriteConstants DEF M
<1>7. EndsAsSampled'
  <2> SUFFICES burst' % M =
                 (IF Gap' \in 1 .. headerLength THEN target' + headerLength ELSE target') % M
    BY DEF EndsAsSampled, M
  <2>1. CASE p \in 1 .. headerLength
    <3>1. Gap' \in 1 .. headerLength
      BY <1>4, <1>6, <2>1
    <3>2. (burst + p) \in Int /\ sample \in Int /\ headerLength \in Int /\ 1 \in Int
      BY <1>1, <1>2, <1>6
    <3>3. burst' = (burst + p + headerLength) + M * 1
      BY <1>1, <1>2, <1>3, <1>6, <2>1
    <3>4. burst' % M = (burst + p + headerLength) % M
      BY <1>1, <3>2, <3>3, SameRemainder
    <3>5. (burst + p + headerLength) % M = (sample + headerLength) % M
      BY <1>1, <1>2, <3>2, RemainderOfSum
    <3> QED
      BY <1>1, <3>1, <3>4, <3>5
  <2>2. CASE p \notin 1 .. headerLength
    BY <1>1, <1>2, <1>3, <1>4, <1>6, <2>2
  <2> QED
    BY <2>1, <2>2
<1>8. burst' \in Nat /\ target' \in Int
  BY <1>1, <1>2, <1>3, <1>6
<1> QED
  BY <1>0, <1>1, <1>3, <1>5, <1>7, <1>8 DEF WriteInv, WriteType

LEMMA FlushInv == ASSUME WriteInv, Flush PROVE WriteInv'
<1> DEFINE M == MaximumSegmentLength
<1>1. /\ pc = "flush" /\ iatMode # iatParanoid /\ burst \in Nat /\ M \in Nat \ {0}
      /\ iatMode' = iatMode
  BY WriteConstants DEF Flush, WriteInv, WriteType
<1>2. target' \in Int /\ tail' \in Int
  BY DEF Flush, WriteInv, WriteType
<1>0. OvershotHoldsSegment'
  BY DEF Flush, WriteInv, WriteType, OvershotHoldsSegment
<1> HIDE DEF M
<1>3. CASE iatMode = iatNone \/ burst < M
  <2>1. WriteOut(burst, burst)
    BY <1>1, <1>3 DEF Flush, M
  <2>2. burst' = 0 /\ pc' \in {"idle", "panic:iatLength"}
    BY <1>1, <2>1 DEF WriteOut
  <2> QED
    BY <1>0, <1>1, <1>2, <2>2 DEF WriteInv, WriteType
<1>4. CASE ~(iatMode = iatNone \/ burst < M)
  <2>1. WriteOut(M, burst)
    BY <1>1, <1>4 DEF Flush, M
  <2>2. burst' = burst - M /\ burst' \in Nat /\ pc' \in {"idle", "flush"}
    BY <1>1, <1>4, <2>1 DEF WriteOut
  <2>3. CASE pc' = "flush"
    <3>1. UNCHANGED <<target, tail>>
      BY <2>3 DEF Flush
    <3>2. -1 \in Int /\ burst \in Int /\ burst' \in Int /\ burst' = burst + M * (-1)
      BY <1>1, <2>2
    <3>3. burst' % M = burst % M
      BY <1>1, <3>2, SameRemainder
    <3>4. Gap' = Gap
      BY <3>1 DEF Gap
    <3> QED
      BY <1>0, <1>1, <1>2, <2>2, <3>1, <3>3, <3>4 DEF WriteInv, WriteType, EndsAsSampled, M
  <2>4. CASE pc' = "idle"
    BY <1>0, <1>1, <1>2, <2>2, <2>4 DEF WriteInv, WriteType
  <2> QED
    BY <2>2, <2>3, <2>4
<1> QED
  BY <1>3, <1>4

LEMMA FlushParanoidInv ==
  ASSUME WriteInv, NEW sample \in Values, FlushParanoid(sample)
  PROVE  WriteInv'
<1> DEFINE M == MaximumSegmentLength
           p == PadLength(burst, sample)
           packets == PadPackets(p)
<1>1. /\ pc = "flush" /\ iatMode = iatParanoid /\ burst \in Nat /\ M \in Nat \ {0}
      /\ UNCHANGED <<iatMode, target, tail>> /\ sample \in Nat /\ sample <= M
      /\ headerLength \in Nat /\ target \in Int /\ tail \in Int
  BY WriteConstants DEF FlushParanoid, WriteInv, WriteType
<1> HIDE DEF M, p, packets
<1>2. CASE burst < sample
  <2>1. p = sample - burst
    <3>1. burst = M * 0 + burst /\ burst \in 0 .. M - 1 /\ 0 \in Int /\ burst \in Int
      BY <1>1, <1>2
    <3>2. burst % M = burst
      BY <1>1, <3>1, RemainderIsUnique
    <3> QED
      BY <1>1, <1>2, <3>2 DEF PadLength, p, M
  <2>2. /\ ~PanicsOn(packets)
        /\ Padded(burst, packets) =
             IF p \in 1 .. headerLength THEN burst + p + headerLength + M ELSE burst + p
    <3>1. p \in 0 .. MaximumSegmentLength
      BY <1>1, <1>2, <2>1 DEF M
    <3> QED
      BY <1>1, <3>1, PaddingFits DEF packets, M
  <2>3. CASE Padded(burst, packets) = sample
    <3>1. WriteOut(sample, sample) /\ overshot' = FALSE
      BY <1>1, <1>2, <2>2, <2>3 DEF FlushParanoid, packets, p
    <3>2. burst' = 0 /\ pc' \in {"idle", "panic:iatLength"}
      BY <1>1, <3>1 DEF WriteOut
    <3> QED
      BY <1>1, <3>1, <3>2 DEF WriteInv, WriteType, OvershotHoldsSegment
  <2>4. CASE Padded(burst, packets) # sample
    <3>1. burst' = Padded(burst, packets) /\ overshot' = TRUE /\ UNCHANGED pc
      BY <1>1, <1>2, <2>2, <2>4 DEF FlushParanoid, packets, p
    <3>2. burst' \in Nat /\ burst' >= M
      BY <1>1, <1>2, <2>1, <2>2, <2>4, <3>1
    <3> QED
      BY <1>1, <3>1, <3>2 DEF WriteInv, WriteType, OvershotHoldsSegment, M
  <2> QED
    BY <2>3, <2>4
<1>3. CASE burst >= sample
  <2>1. WriteOut(sample, burst) /\ overshot' = FALSE
    BY <1>1, <1>3 DEF FlushParanoid
  <2>2. burst' \in Nat /\ pc' \in {"idle", "flush", "panic:iatLength"}
    BY <1>1, <1>3, <2>1 DEF WriteOut
  <2> QED
    BY <1>1, <2>1, <2>2 DEF WriteInv, WriteType, OvershotHoldsSegment
<1> QED
  BY <1>1, <1>2, <1>3

LEMMA NextWrite == WriteInv /\ [WriteNext]_writeVars => WriteInv'
<1> SUFFICES ASSUME WriteInv, [WriteNext]_writeVars
             PROVE  WriteInv'
  OBVIOUS
<1>1. ASSUME NEW n \in Lengths, Chop(n)
      PROVE  WriteInv'
  <2>1. Chopped(n) \in Nat
    BY WriteAssumption, ChoppedType
  <2> QED
    BY <1>1, <2>1 DEF Chop, WriteInv, WriteType, OvershotHoldsSegment
<1>2. ASSUME NEW sample \in Values, Pad(sample)
      PROVE  WriteInv'
  BY <1>2, PadInv
<1>3. ASSUME NEW sample \in Values, FlushParanoid(sample)
      PROVE  WriteInv'
  BY <1>3, FlushParanoidInv
<1>4. CASE Flush
  BY <1>4, FlushInv
<1>5. CASE UNCHANGED writeVars
  BY <1>5 DEF writeVars, WriteInv, WriteType, EndsAsSampled, OvershotHoldsSegment, Gap
<1> QED
  BY <1>1, <1>2, <1>3, <1>4, <1>5 DEF WriteNext

LEMMA InitWrite == WriteInit => WriteInv
BY DEF WriteInit, WriteInv, WriteType, OvershotHoldsSegment

\* For every segment and header length, every distribution and every write: the
\* padding is never asked to make a packet that does not fit, and a burst ends
\* where the sample says, or a header further if it had less than a header to go.
THEOREM BurstsAlwaysEndAsSampled == WriteSpec => []BurstEndsAsSampled
<1>1. WriteInv => BurstEndsAsSampled
  BY DEF WriteInv, WriteType, EndsAsSampled, BurstEndsAsSampled
<1> QED
  BY InitWrite, NextWrite, <1>1, PTL DEF WriteSpec

\* In paranoid mode a turn of the loop that wrote nothing leaves enough for
\* whatever the next turn draws: the loop never goes round twice for nothing.
THEOREM OvershootIsAlwaysWritten == WriteSpec => []OvershootIsWritten
<1>1. WriteInv => OvershootIsWritten
  BY WriteConstants DEF WriteInv, WriteType, OvershotHoldsSegment, OvershootIsWritten
<1> QED
  BY InitWrite, NextWrite, <1>1, PTL DEF WriteSpec

(***************************************************************************)
(* The bursts of scramblesuit.                                             *)
(***************************************************************************)

SsWriteInv ==
  /\ ssPc \in {"idle", "pad", "write"}
  /\ ssBurst \in Nat
  /\ ssPc = "pad" => ssData = ssBurst
  /\ ssPc = "write" =>
       ssBurst % maxSegmentLength =
         (ssSample - IF SsGap \in 1 .. pktOverhead - 1 THEN pktOverhead ELSE 0) % maxSegmentLength

LEMMA PadBurstInv ==
  ASSUME SsWriteInv, NEW sampleLen \in SampleLengths, PadBurst(sampleLen)
  PROVE  SsWriteInv'
<1> DEFINE tailLen == ssBurst % 1448
           padLen == PadLen(tailLen, sampleLen)
<1>1. /\ ssPc = "pad" /\ ssSample' = sampleLen /\ ssData' = ssData /\ ssData = ssBurst
      /\ ssBurst \in Nat /\ sampleLen \in 21 .. 1448
  BY DEF PadBurst, SsWriteInv, SampleLengths, pktOverhead, maxSegmentLength
<1>2. tailLen \in 0 .. 1447 /\ \E q \in Int : ssBurst = 1448 * q + tailLen
  BY <1>1
<1>3. /\ padLen \in 21 .. 1448 + 20
      /\ padLen = sampleLen - tailLen \/ padLen = sampleLen - tailLen + 1448
         \/ padLen = sampleLen - tailLen + 2 * 1448
  <2>1. tailLen \in 0 .. 1447 /\ sampleLen \in 21 .. 1448
    BY <1>1, <1>2
  <2> HIDE DEF tailLen
  <2> QED
    BY <2>1 DEF PadLen, pktOverhead, maxSegmentLength
<1>4. SsGap' = (sampleLen - ssBurst) % 1448
  BY <1>1 DEF SsGap, maxSegmentLength
<1> HIDE DEF tailLen, padLen
<1>5. SsGap' = IF padLen >= 1448 THEN padLen - 1448 ELSE padLen
  BY <1>1, <1>2, <1>3, <1>4
<1>6. CASE padLen > 1448
  <2>1. PaddingPackets(padLen) = <<679, padLen - 742>>
    BY <1>3, <1>6 DEF PaddingPackets, pktOverhead, maxSegmentLength
  <2>2. ssPc' = "write" /\ ssBurst' = ssBurst + padLen - 21
    <3> DEFINE paddings == <<679, padLen - 742>>
    <3>1. /\ \A i \in DOMAIN paddings : paddings[i] \in 0 .. 1427
          /\ DOMAIN paddings # {1} /\ paddings[1] = 679 /\ paddings[2] = padLen - 742
      <4>1. DOMAIN paddings = {1, 2} /\ paddings[1] = 679 /\ paddings[2] = padLen - 742
        OBVIOUS
      <4> QED
        BY <1>3, <1>6, <4>1
    <3>2. PaddingPackets(PadLen(ssBurst % maxSegmentLength, sampleLen)) = paddings
      BY <2>1 DEF tailLen, padLen, maxSegmentLength
    <3> HIDE DEF paddings
    <3>3. ssPc' = "write" /\ ssBurst' = ssBurst + 679 + 21 + ((padLen - 742) + 21)
      <4>1. IF \E i \in DOMAIN paddings : paddings[i] \notin 0 .. maxPayloadLength
            THEN ssPc' = "panic" /\ UNCHANGED ssBurst
            ELSE /\ ssPc' = "write"
                 /\ ssBurst' = ssBurst + paddings[1] + pktOverhead
                      + (IF DOMAIN paddings = {1} THEN 0 ELSE paddings[2] + pktOverhead)
        BY <3>2, Zenon DEF PadBurst
      <4>2. ~\E i \in DOMAIN paddings : paddings[i] \notin 0 .. maxPayloadLength
        BY <3>1 DEF maxPayloadLength
      <4>3. /\ ssPc' = "write"
            /\ ssBurst' = ssBurst + paddings[1] + pktOverhead + (paddings[2] + pktOverhead)
        BY <3>1, <4>1, <4>2
      <4> QED
        BY <3>1, <4>3 DEF pktOverhead
    <3> QED
      BY <1>1, <1>3, <3>3
  <2> QED
    BY <1>1, <1>2, <1>3, <1>5, <1>6, <2>2 DEF SsWriteInv, pktOverhead, maxSegmentLength
<1>7. CASE padLen <= 1448
  <2>1. PaddingPackets(padLen) = <<padLen - 21>>
    BY <1>3, <1>7 DEF PaddingPackets, pktOverhead, maxSegmentLength
  <2>2. ssPc' = "write" /\ ssBurst' = ssBurst + padLen
    BY <1>1, <1>3, <1>7, <2>1, SMTT(60)
    DEF PadBurst, pktOverhead, maxSegmentLength, maxPayloadLength, tailLen, padLen
  <2> QED
    BY <1>1, <1>2, <1>3, <1>5, <1>7, <2>2 DEF SsWriteInv, pktOverhead, maxSegmentLength
<1> QED
  BY <1>3, <1>6, <1>7

LEMMA NextSsWrite == SsWriteInv /\ [SsWriteNext]_ssWriteVars => SsWriteInv'
<1> SUFFICES ASSUME SsWriteInv, [SsWriteNext]_ssWriteVars
             PROVE  SsWriteInv'
  OBVIOUS
<1>1. ASSUME NEW n \in SsLengths, MakePackets(n)
      PROVE  SsWriteInv'
  <2>1. PacketsLength(n) \in Nat
    BY SsWriteAssumption DEF PacketsLength, pktOverhead, maxPayloadLength
  <2> QED
    BY <1>1, <2>1 DEF MakePackets, SsWriteInv
<1>2. ASSUME NEW sampleLen \in SampleLengths, PadBurst(sampleLen)
      PROVE  SsWriteInv'
  BY <1>2, PadBurstInv
<1>3. CASE WriteBurst
  BY <1>3 DEF WriteBurst, SsWriteInv
<1>4. CASE UNCHANGED ssWriteVars
  BY <1>4 DEF ssWriteVars, SsWriteInv, SsGap
<1> QED
  BY <1>1, <1>2, <1>3, <1>4 DEF SsWriteNext

\* scramblesuit's bursts, for writes of every length: padBurst never makes a
\* packet that does not fit, and a burst ends as sampled, or one overhead short of
\* it when the padding took two packets.
THEOREM ScramblesuitAlwaysPads == SsWriteSpec => []ScramblesuitPadding
<1>1. SsWriteInit => SsWriteInv
  BY DEF SsWriteInit, SsWriteInv
<1>2. SsWriteInv => ScramblesuitPadding
  BY DEF SsWriteInv, ScramblesuitPadding
<1> QED
  BY <1>1, NextSsWrite, <1>2, PTL DEF SsWriteSpec

(***************************************************************************)
(* Induction, for sets of naturals.                                        *)
(***************************************************************************)

\* A set of naturals that is not empty has a least element.
LEMMA LeastNatural ==
  ASSUME NEW T, T \subseteq Nat, T # {}
  PROVE  \E x \in T : \A y \in T : x <= y
<1> DEFINE R == StrictSubsetOrdering(Nat)
           U == {1 .. k : k \in T}
<1>1. IsWellFoundedOn(R, FiniteSubsetsOf(Nat))
  BY FS_StrictSubsetOrderingWellFounded
<1>2. U \subseteq FiniteSubsetsOf(Nat) /\ U # {}
  <2>1. \A k \in Nat : IsFiniteSet(1 .. k) /\ (1 .. k) \subseteq Nat
    BY FS_Interval
  <2> QED
    BY <2>1 DEF FiniteSubsetsOf
<1>3. PICK s \in U : \A u \in U : ~(<<u, s>> \in R)
  <2> HIDE DEF R, U
  <2> QED BY <1>1, <1>2, WFMin
<1>4. PICK x \in T : s = 1 .. x
  OBVIOUS
<1>5. ASSUME NEW y \in T, y < x
      PROVE  FALSE
  <2>1. (1 .. y) \subseteq (1 .. x) /\ (1 .. y) # (1 .. x)
    BY <1>5, x \in 1 .. x /\ x \notin 1 .. y
  <2>2. <<1 .. y, 1 .. x>> \in R
    BY <2>1 DEF StrictSubsetOrdering
  <2> QED
    BY <1>3, <1>4, <2>2
<1> QED
  BY <1>5

\* A set that has 0, and of every number before n the next, has n.
LEMMA ReachesFromZero ==
  ASSUME NEW n \in Nat, NEW T, 0 \in T,
         \A i \in 0 .. n - 1 : i \in T => i + 1 \in T
  PROVE  0 .. n \subseteq T
<1> DEFINE Missing == (0 .. n) \ T
<1>1. CASE Missing # {}
  <2>1. Missing \subseteq Nat
    OBVIOUS
  <2> HIDE DEF Missing
  <2>2. PICK x \in Missing : \A y \in Missing : x <= y
    BY <1>1, <2>1, LeastNatural
  <2> USE DEF Missing
  <2>3. x \in 0 .. n /\ x \notin T /\ x # 0
    BY <2>2
  <2>4. x - 1 \in 0 .. n - 1 /\ (x - 1) + 1 = x
    BY <2>3
  <2>5. x - 1 \in T
    BY <2>2, <2>4
  <2> QED
    BY <2>3, <2>4, <2>5
<1> QED
  BY <1>1

(***************************************************************************)
(* Total, which adds up weights.                                           *)
(***************************************************************************)

\* f is the function that Total(w) defines, up to k.
Sums(w, f, k) == f = [i \in 0 .. k |-> IF i = 0 THEN 0 ELSE f[i - 1] + w[i]]

\* There is such a function ...
LEMMA SumsExists ==
  ASSUME NEW w, NEW k \in Nat
  PROVE  \E f : Sums(w, f, k)
<1> DEFINE T == {n \in 0 .. k : \E f : Sums(w, f, n)}
<1>1. 0 \in T
  <2> DEFINE f == [n \in 0 .. 0 |-> 0]
  <2>1. Sums(w, f, 0)
    BY DEF Sums
  <2> QED
    BY <2>1
<1>2. ASSUME NEW n \in 0 .. k - 1, n \in T
      PROVE  n + 1 \in T
  <2>1. PICK f : Sums(w, f, n)
    BY <1>2
  <2> DEFINE g == [i \in 0 .. n + 1 |-> IF i <= n THEN f[i] ELSE f[n] + w[n + 1]]
  <2>2. ASSUME NEW i \in 0 .. n + 1
        PROVE  g[i] = IF i = 0 THEN 0 ELSE g[i - 1] + w[i]
    <3>1. n \in Nat
      BY <1>2
    <3>2. CASE i = 0
      BY <2>1, <3>1, <3>2 DEF Sums
    <3>3. CASE i > 0 /\ i <= n
      <4>1. i \in 0 .. n /\ i # 0 /\ i - 1 \in 0 .. n + 1 /\ i - 1 <= n
        BY <3>1, <3>3
      <4>2. g[i] = f[i] /\ g[i - 1] = f[i - 1]
        BY <3>3, <4>1
      <4>3. f[i] = f[i - 1] + w[i]
        BY <2>1, <4>1 DEF Sums
      <4> QED
        BY <4>1, <4>2, <4>3
    <3>4. CASE i = n + 1
      <4>1. ~(i <= n) /\ i # 0 /\ i - 1 = n /\ n \in 0 .. n + 1 /\ n <= n
        BY <3>1, <3>4
      <4> QED
        BY <3>4, <4>1
    <3> QED
      BY <3>1, <3>2, <3>3, <3>4
  <2>3. Sums(w, g, n + 1)
    BY <2>2 DEF Sums
  <2>4. n + 1 \in 0 .. k
    BY <1>2
  <2> HIDE DEF g
  <2> QED
    BY <2>3, <2>4
<1> HIDE DEF T
<1>3. k \in T
  <2>1. 0 .. k \subseteq T
    BY <1>1, <1>2, ReachesFromZero
  <2> QED
    BY <2>1
<1> QED
  BY <1>3 DEF T

\* What is added up: n numbers.
Numbers(n) == [1 .. n -> Int]

LEMMA LenOfNumbers ==
  ASSUME NEW n \in Nat, NEW w \in Numbers(n)
  PROVE  Len(w) = n
BY DEF Numbers

\* ... and Total is its last value.
LEMMA TotalIs ==
  ASSUME NEW n \in Nat, NEW w \in Numbers(n)
  PROVE  \E f : /\ \A i \in 0 .. n : f[i] \in Int
                /\ f[0] = 0 /\ \A i \in 0 .. n - 1 : f[i + 1] = f[i] + w[i + 1]
                /\ Total(w) = f[n]
<1> DEFINE f == CHOOSE f : Sums(w, f, n)
<1>1. Sums(w, f, n)
  BY SumsExists
<1>2. Total(w) = f[n]
  BY LenOfNumbers DEF Total, Sums
<1> HIDE DEF f
<1>3. ASSUME NEW i \in 0 .. n - 1
      PROVE  f[i + 1] = f[i] + w[i + 1]
  <2>1. i + 1 \in 0 .. n /\ i + 1 # 0 /\ (i + 1) - 1 = i
    BY <1>3
  <2> QED
    BY <1>1, <2>1 DEF Sums
<1>4. f[0] = 0
  BY <1>1, 0 \in 0 .. n DEF Sums
<1> DEFINE T == {i \in 0 .. n : f[i] \in Int}
<1>5. ASSUME NEW i \in 0 .. n - 1, i \in T
      PROVE  i + 1 \in T
  <2>1. i + 1 \in 1 .. n /\ i + 1 \in 0 .. n /\ w[i + 1] \in Int
    BY DEF Numbers
  <2> QED
    BY <1>3, <1>5, <2>1
<1>6. 0 \in T
  BY <1>4
<1> HIDE DEF T
<1>7. 0 .. n \subseteq T
  BY <1>5, <1>6, ReachesFromZero
<1>8. \A i \in 0 .. n : f[i] \in Int
  BY <1>7 DEF T
<1> QED
  BY <1>2, <1>3, <1>4, <1>8

LEMMA TotalType ==
  ASSUME NEW n \in Nat, NEW w \in Numbers(n)
  PROVE  Total(w) \in Int
BY TotalIs, n \in 0 .. n

\* Sums add up, term by term ...
LEMMA TotalOfSums ==
  ASSUME NEW n \in Nat, NEW u \in Numbers(n), NEW v \in Numbers(n), NEW w \in Numbers(n),
         \A i \in 1 .. n : w[i] = u[i] + v[i]
  PROVE  Total(w) = Total(u) + Total(v)
<1>1. PICK f : /\ \A i \in 0 .. n : f[i] \in Int
               /\ f[0] = 0 /\ \A i \in 0 .. n - 1 : f[i + 1] = f[i] + u[i + 1]
               /\ Total(u) = f[n]
  BY TotalIs
<1>2. PICK g : /\ \A i \in 0 .. n : g[i] \in Int
               /\ g[0] = 0 /\ \A i \in 0 .. n - 1 : g[i + 1] = g[i] + v[i + 1]
               /\ Total(v) = g[n]
  BY TotalIs
<1>3. PICK h : /\ \A i \in 0 .. n : h[i] \in Int
               /\ h[0] = 0 /\ \A i \in 0 .. n - 1 : h[i + 1] = h[i] + w[i + 1]
               /\ Total(w) = h[n]
  BY TotalIs
<1> DEFINE T == {i \in 0 .. n : h[i] = f[i] + g[i]}
<1>4. 0 \in T
  BY <1>1, <1>2, <1>3
<1>5. ASSUME NEW i \in 0 .. n - 1, i \in T
      PROVE  i + 1 \in T
  <2>1. i \in 0 .. n /\ i + 1 \in 1 .. n /\ i + 1 \in 0 .. n
        /\ u[i + 1] \in Int /\ v[i + 1] \in Int
    BY DEF Numbers
  <2>2. f[i] \in Int /\ g[i] \in Int /\ h[i] = f[i] + g[i]
    BY <1>1, <1>2, <1>5, <2>1
  <2>3. f[i + 1] = f[i] + u[i + 1] /\ g[i + 1] = g[i] + v[i + 1] /\ h[i + 1] = h[i] + w[i + 1]
    BY <1>1, <1>2, <1>3
  <2>4. w[i + 1] = u[i + 1] + v[i + 1]
    BY <2>1
  <2> QED
    BY <2>1, <2>2, <2>3, <2>4
<1> HIDE DEF T
<1>6. n \in T
  BY <1>4, <1>5, ReachesFromZero, n \in 0 .. n
<1> QED
  BY <1>1, <1>2, <1>3, <1>6 DEF T

\* ... a factor common to all can be taken out ...
LEMMA TotalTimes ==
  ASSUME NEW n \in Nat, NEW c \in Int, NEW u \in Numbers(n), NEW w \in Numbers(n),
         \A i \in 1 .. n : w[i] = u[i] * c
  PROVE  Total(w) = Total(u) * c
<1>1. PICK f : /\ \A i \in 0 .. n : f[i] \in Int
               /\ f[0] = 0 /\ \A i \in 0 .. n - 1 : f[i + 1] = f[i] + u[i + 1]
               /\ Total(u) = f[n]
  BY TotalIs
<1>2. PICK h : /\ \A i \in 0 .. n : h[i] \in Int
               /\ h[0] = 0 /\ \A i \in 0 .. n - 1 : h[i + 1] = h[i] + w[i + 1]
               /\ Total(w) = h[n]
  BY TotalIs
<1> DEFINE T == {i \in 0 .. n : h[i] = f[i] * c}
<1>3. 0 \in T
  BY <1>1, <1>2, 0 * c = 0
<1>4. ASSUME NEW i \in 0 .. n - 1, i \in T
      PROVE  i + 1 \in T
  <2>1. i \in 0 .. n /\ i + 1 \in 1 .. n /\ i + 1 \in 0 .. n /\ u[i + 1] \in Int
    BY DEF Numbers
  <2>2. f[i] \in Int /\ h[i] = f[i] * c
    BY <1>1, <1>4, <2>1
  <2>3. f[i + 1] = f[i] + u[i + 1] /\ h[i + 1] = h[i] + w[i + 1] /\ w[i + 1] = u[i + 1] * c
    BY <1>1, <1>2, <2>1
  <2>4. \A x, y \in Int : (x + y) * c = x * c + y * c
    OBVIOUS
  <2>5. h[i + 1] = f[i + 1] * c
    BY <2>1, <2>2, <2>3, <2>4
  <2> QED
    BY <2>1, <2>5
<1> HIDE DEF T
<1>5. n \in T
  BY <1>3, <1>4, ReachesFromZero, n \in 0 .. n
<1> QED
  BY <1>1, <1>2, <1>5 DEF T

\* ... and n times the same makes n times that.
LEMMA TotalOfSame ==
  ASSUME NEW n \in Nat, NEW c \in Int
  PROVE  Total([i \in 1 .. n |-> c]) = n * c
<1> DEFINE w == [i \in 1 .. n |-> c]
<1>1. w \in Numbers(n)
  BY DEF Numbers
<1>2. PICK h : /\ \A i \in 0 .. n : h[i] \in Int
               /\ h[0] = 0 /\ \A i \in 0 .. n - 1 : h[i + 1] = h[i] + w[i + 1]
               /\ Total(w) = h[n]
  BY <1>1, TotalIs
<1> DEFINE T == {i \in 0 .. n : h[i] = i * c}
<1>3. 0 \in T
  BY <1>2, 0 * c = 0
<1>4. ASSUME NEW i \in 0 .. n - 1, i \in T
      PROVE  i + 1 \in T
  <2>1. i \in Int /\ i + 1 \in 1 .. n /\ i + 1 \in 0 .. n /\ w[i + 1] = c
    OBVIOUS
  <2>2. h[i + 1] = i * c + c
    BY <1>2, <1>4, <2>1
  <2>3. \A x \in Int : (x + 1) * c = x * c + c
    OBVIOUS
  <2> QED
    BY <2>1, <2>2, <2>3
<1> HIDE DEF T
<1>5. n \in T
  BY <1>3, <1>4, ReachesFromZero, n \in 0 .. n
<1> QED
  BY <1>2, <1>5 DEF T

\* One term, if it is the only one.
LEMMA TotalOfOne ==
  ASSUME NEW n \in Nat, NEW w \in Numbers(n), NEW k \in 1 .. n,
         \A i \in 1 .. n : i # k => w[i] = 0
  PROVE  Total(w) = w[k]
<1>1. PICK h : /\ \A i \in 0 .. n : h[i] \in Int
               /\ h[0] = 0 /\ \A i \in 0 .. n - 1 : h[i + 1] = h[i] + w[i + 1]
               /\ Total(w) = h[n]
  BY TotalIs
<1> DEFINE T == {i \in 0 .. n : h[i] = IF i < k THEN 0 ELSE w[k]}
<1>2. 0 \in T
  BY <1>1
<1>3. ASSUME NEW i \in 0 .. n - 1, i \in T
      PROVE  i + 1 \in T
  <2>1. i + 1 \in 1 .. n /\ i + 1 \in 0 .. n /\ w[i + 1] \in Int /\ w[k] \in Int
    BY DEF Numbers
  <2>2. h[i + 1] = h[i] + w[i + 1] /\ h[i] = IF i < k THEN 0 ELSE w[k]
    BY <1>1, <1>3
  <2>3. CASE i + 1 = k
    BY <2>1, <2>2, <2>3
  <2>4. CASE i + 1 # k
    <3>1. w[i + 1] = 0
      BY <2>1, <2>4
    <3>2. i < k <=> i + 1 < k
      BY <2>4
    <3> QED
      BY <2>1, <2>2, <3>1, <3>2
  <2> QED
    BY <2>3, <2>4
<1> HIDE DEF T
<1>4. n \in T
  BY <1>2, <1>3, ReachesFromZero, n \in 0 .. n
<1> QED
  BY <1>1, <1>4 DEF T

\* No term is more than the sum, if none is negative.
LEMMA TermsOfTotal ==
  ASSUME NEW n \in Nat, NEW w \in Numbers(n), \A i \in 1 .. n : w[i] >= 0
  PROVE  Total(w) >= 0 /\ \A k \in 1 .. n : w[k] <= Total(w)
<1>1. PICK h : /\ \A i \in 0 .. n : h[i] \in Int
               /\ h[0] = 0 /\ \A i \in 0 .. n - 1 : h[i + 1] = h[i] + w[i + 1]
               /\ Total(w) = h[n]
  BY TotalIs
<1> DEFINE T == {i \in 0 .. n : h[i] >= 0 /\ \A k \in 1 .. i : w[k] <= h[i]}
<1>2. 0 \in T
  BY <1>1
<1>3. ASSUME NEW i \in 0 .. n - 1, i \in T
      PROVE  i + 1 \in T
  <2>1. i + 1 \in 1 .. n /\ i + 1 \in 0 .. n /\ w[i + 1] \in Int /\ w[i + 1] >= 0
    BY DEF Numbers
  <2>2. h[i + 1] = h[i] + w[i + 1] /\ h[i] >= 0 /\ h[i] \in Int /\ h[i + 1] \in Int
    BY <1>1, <1>3, <2>1
  <2>3. ASSUME NEW k \in 1 .. i + 1
        PROVE  w[k] <= h[i + 1]
    <3>1. w[k] \in Int
      BY <2>1 DEF Numbers
    <3>2. CASE k = i + 1
      BY <2>1, <2>2, <3>2
    <3>3. CASE k # i + 1
      <4>1. k \in 1 .. i
        BY <3>3
      <4>2. w[k] <= h[i]
        BY <1>3, <4>1
      <4> QED
        BY <2>1, <2>2, <3>1, <4>2
    <3> QED
      BY <3>2, <3>3
  <2> QED
    BY <2>1, <2>2, <2>3
<1> HIDE DEF T
<1>4. n \in T
  BY <1>2, <1>3, ReachesFromZero, n \in 0 .. n
<1> QED
  BY <1>1, <1>4 DEF T

(***************************************************************************)
(* The worklists.                                                          *)
(***************************************************************************)

Listed(s) == {s[i] : i \in 1 .. Len(s)}

\* A list of values of which none is in it twice.
Worklist(s, n) ==
  /\ s \in Seq(1 .. n)
  /\ \A i, k \in 1 .. Len(s) : s[i] = s[k] => i = k

LEMMA ListedType ==
  ASSUME NEW n \in Nat, NEW s, Worklist(s, n)
  PROVE  Listed(s) \subseteq 1 .. n /\ (s = <<>> <=> Listed(s) = {})
         /\ \A i : Contains(s, i) <=> i \in Listed(s)
<1>1. s \in Seq(1 .. n) /\ Len(s) \in Nat /\ \A i \in 1 .. Len(s) : s[i] \in 1 .. n
  BY LenProperties, ElementOfSeq DEF Worklist
<1>2. s = <<>> <=> Listed(s) = {}
  <2>1. CASE s = <<>>
    BY <2>1 DEF Listed
  <2>2. CASE s # <<>>
    <3>1. 1 \in 1 .. Len(s)
      BY <1>1, <2>2, EmptySeq
    <3> QED
      BY <2>2, <3>1 DEF Listed
  <2> QED
    BY <2>1, <2>2
<1> QED
  BY <1>1, <1>2 DEF Listed, Contains

LEMMA EmptyList ==
  ASSUME NEW n \in Nat
  PROVE  Worklist(<<>>, n) /\ Listed(<<>>) = {}
BY EmptySeq DEF Worklist, Listed

LEMMA ListTail ==
  ASSUME NEW n \in Nat, NEW s, Worklist(s, n), s # <<>>
  PROVE  /\ Head(s) \in Listed(s) /\ Worklist(Tail(s), n)
         /\ Listed(Tail(s)) = Listed(s) \ {Head(s)}
<1>1. /\ s \in Seq(1 .. n) /\ Len(s) \in Nat /\ Len(s) >= 1
      /\ \A i \in 1 .. Len(s) : s[i] \in 1 .. n
  BY LenProperties, ElementOfSeq, EmptySeq DEF Worklist
<1>2. /\ Tail(s) \in Seq(1 .. n) /\ Len(Tail(s)) = Len(s) - 1 /\ Head(s) = s[1]
      /\ \A i \in 1 .. Len(s) - 1 : Tail(s)[i] = s[i + 1]
  BY <1>1, HeadTailProperties
<1> DEFINE t == Tail(s)
<1> HIDE DEF t
<1>3. /\ t \in Seq(1 .. n) /\ Len(t) = Len(s) - 1 /\ Head(s) = s[1]
      /\ \A i \in 1 .. Len(t) : i + 1 \in 1 .. Len(s) /\ t[i] = s[i + 1]
  BY <1>1, <1>2 DEF t
<1>4. Worklist(t, n)
  <2>1. ASSUME NEW i \in 1 .. Len(t), NEW k \in 1 .. Len(t), t[i] = t[k]
        PROVE  i = k
    <3>1. i + 1 \in 1 .. Len(s) /\ k + 1 \in 1 .. Len(s) /\ s[i + 1] = s[k + 1]
      BY <1>3, <2>1
    <3>2. i + 1 = k + 1
      BY <3>1 DEF Worklist
    <3> QED
      BY <1>1, <1>3, <3>2
  <2> QED
    BY <1>3, <2>1 DEF Worklist
<1>5. ASSUME NEW x \in Listed(s), x # s[1]
      PROVE  x \in Listed(t)
  <2>1. PICK i \in 1 .. Len(s) : x = s[i]
    BY DEF Listed
  <2>2. i - 1 \in 1 .. Len(t) /\ (i - 1) + 1 = i
    BY <1>1, <1>3, <1>5, <2>1
  <2> QED
    BY <1>3, <2>1, <2>2 DEF Listed
<1>6. ASSUME NEW x \in Listed(t)
      PROVE  x \in Listed(s) /\ x # s[1]
  <2>1. PICK i \in 1 .. Len(t) : x = t[i]
    BY DEF Listed
  <2>2. i + 1 \in 1 .. Len(s) /\ x = s[i + 1] /\ i + 1 # 1 /\ 1 \in 1 .. Len(s)
    BY <1>1, <1>3, <2>1
  <2> QED
    BY <2>2 DEF Listed, Worklist
<1>7. s[1] \in Listed(s)
  BY <1>1 DEF Listed
<1> QED
  BY <1>3, <1>4, <1>5, <1>6, <1>7 DEF t

LEMMA ListAppend ==
  ASSUME NEW n \in Nat, NEW s, Worklist(s, n), NEW x \in 1 .. n, x \notin Listed(s)
  PROVE  Worklist(Append(s, x), n) /\ Listed(Append(s, x)) = Listed(s) \cup {x}
<1>1. s \in Seq(1 .. n) /\ Len(s) \in Nat
  BY LenProperties DEF Worklist
<1> DEFINE t == Append(s, x)
<1>2. /\ t \in Seq(1 .. n) /\ Len(t) = Len(s) + 1 /\ t[Len(s) + 1] = x
      /\ \A i \in 1 .. Len(s) : t[i] = s[i]
  BY <1>1, AppendProperties
<1> HIDE DEF t
<1>3. \A i \in 1 .. Len(t) : i \in 1 .. Len(s) \/ i = Len(s) + 1
  BY <1>1, <1>2
<1>4. Worklist(t, n)
  <2>1. ASSUME NEW i \in 1 .. Len(t), NEW k \in 1 .. Len(t), t[i] = t[k]
        PROVE  i = k
    <3>1. CASE i \in 1 .. Len(s) /\ k \in 1 .. Len(s)
      BY <1>2, <2>1, <3>1 DEF Worklist
    <3>2. CASE i = Len(s) + 1 /\ k \in 1 .. Len(s)
      BY <1>2, <2>1, <3>2 DEF Listed
    <3>3. CASE k = Len(s) + 1 /\ i \in 1 .. Len(s)
      BY <1>2, <2>1, <3>3 DEF Listed
    <3> QED
      BY <1>3, <3>1, <3>2, <3>3
  <2> QED
    BY <1>2, <2>1 DEF Worklist
<1>5. Listed(t) = Listed(s) \cup {x}
  <2>1. ASSUME NEW y \in Listed(t)
        PROVE  y \in Listed(s) \cup {x}
    BY <1>2, <1>3 DEF Listed
  <2>2. ASSUME NEW y \in Listed(s)
        PROVE  y \in Listed(t)
    <3>1. PICK i \in 1 .. Len(s) : y = s[i]
      BY DEF Listed
    <3>2. i \in 1 .. Len(t) /\ t[i] = y
      BY <1>1, <1>2, <3>1
    <3> QED
      BY <3>2 DEF Listed
  <2>3. Len(s) + 1 \in 1 .. Len(t)
    BY <1>1, <1>2
  <2>4. x \in Listed(t)
    BY <1>2, <2>3 DEF Listed
  <2> QED
    BY <2>1, <2>2, <2>4
<1> QED
  BY <1>4, <1>5 DEF t

\* f is the function that InOrder(S, k) defines.
Lists(S, f, k) ==
  f = [i \in 0 .. k |->
        IF i = 0 THEN <<>> ELSE IF i \in S THEN Append(f[i - 1], i) ELSE f[i - 1]]

LEMMA ListsExists ==
  ASSUME NEW S, NEW k \in Nat
  PROVE  \E f : Lists(S, f, k)
<1> DEFINE T == {n \in 0 .. k : \E f : Lists(S, f, n)}
<1>1. 0 \in T
  <2> DEFINE f == [n \in 0 .. 0 |-> <<>>]
  <2>1. Lists(S, f, 0)
    BY DEF Lists
  <2> QED
    BY <2>1
<1>2. ASSUME NEW n \in 0 .. k - 1, n \in T
      PROVE  n + 1 \in T
  <2>1. PICK f : Lists(S, f, n)
    BY <1>2
  <2> DEFINE last == IF n + 1 \in S THEN Append(f[n], n + 1) ELSE f[n]
             g == [i \in 0 .. n + 1 |-> IF i <= n THEN f[i] ELSE last]
  <2>2. ASSUME NEW i \in 0 .. n + 1
        PROVE  g[i] = IF i = 0 THEN <<>> ELSE IF i \in S THEN Append(g[i - 1], i) ELSE g[i - 1]
    <3>1. n \in Nat
      BY <1>2
    <3>2. CASE i = 0
      BY <2>1, <3>1, <3>2 DEF Lists
    <3>3. CASE i > 0 /\ i <= n
      <4>1. i \in 0 .. n /\ i # 0 /\ i - 1 \in 0 .. n + 1 /\ i - 1 <= n
        BY <3>1, <3>3
      <4>2. g[i] = f[i] /\ g[i - 1] = f[i - 1]
        BY <3>3, <4>1
      <4>3. f[i] = IF i \in S THEN Append(f[i - 1], i) ELSE f[i - 1]
        BY <2>1, <4>1 DEF Lists
      <4> QED
        BY <4>1, <4>2, <4>3
    <3>4. CASE i = n + 1
      <4>1. ~(i <= n) /\ i # 0 /\ i - 1 = n /\ n \in 0 .. n + 1 /\ n <= n
        BY <3>1, <3>4
      <4>2. g[i] = last /\ g[i - 1] = f[n]
        BY <4>1
      <4> QED
        BY <3>4, <4>1, <4>2
    <3> QED
      BY <3>1, <3>2, <3>3, <3>4
  <2>3. Lists(S, g, n + 1)
    BY <2>2 DEF Lists
  <2>4. n + 1 \in 0 .. k
    BY <1>2
  <2> HIDE DEF g
  <2> QED
    BY <2>3, <2>4
<1> HIDE DEF T
<1>3. k \in T
  <2>1. 0 .. k \subseteq T
    BY <1>1, <1>2, ReachesFromZero
  <2> QED
    BY <2>1
<1> QED
  BY <1>3 DEF T

\* InOrder makes a worklist of a set.
LEMMA InOrderIs ==
  ASSUME NEW n \in Nat, NEW S \in SUBSET (1 .. n)
  PROVE  Worklist(InOrder(S, n), n) /\ Listed(InOrder(S, n)) = S
<1> DEFINE f == CHOOSE f : Lists(S, f, n)
<1>1. Lists(S, f, n)
  BY ListsExists
<1>2. InOrder(S, n) = f[n]
  BY DEF InOrder, Lists
<1> HIDE DEF f
<1> DEFINE T == {i \in 0 .. n : Worklist(f[i], n) /\ Listed(f[i]) = S \cap (1 .. i)}
<1>3. 0 \in T
  <2>1. f[0] = <<>>
    BY <1>1, 0 \in 0 .. n DEF Lists
  <2>2. Worklist(<<>>, n) /\ Listed(<<>>) = {}
    BY EmptySeq DEF Worklist, Listed
  <2> QED
    BY <2>1, <2>2
<1>4. ASSUME NEW i \in 0 .. n - 1, i \in T
      PROVE  i + 1 \in T
  <2>1. i + 1 \in 0 .. n /\ i + 1 \in 1 .. n /\ i + 1 # 0 /\ (i + 1) - 1 = i
        /\ i + 1 \notin 1 .. i /\ 1 .. i + 1 = (1 .. i) \cup {i + 1}
    OBVIOUS
  <2>2. f[i + 1] = IF i + 1 \in S THEN Append(f[i], i + 1) ELSE f[i]
    BY <1>1, <2>1 DEF Lists
  <2>3. Worklist(f[i], n) /\ Listed(f[i]) = S \cap (1 .. i)
    BY <1>4
  <2>4. CASE i + 1 \in S
    <3>1. /\ Worklist(Append(f[i], i + 1), n)
          /\ Listed(Append(f[i], i + 1)) = (S \cap (1 .. i)) \cup {i + 1}
      BY <2>1, <2>3, ListAppend
    <3> QED
      BY <2>1, <2>2, <2>4, <3>1
  <2>5. CASE i + 1 \notin S
    BY <2>1, <2>2, <2>3, <2>5
  <2> QED
    BY <2>4, <2>5
<1> HIDE DEF T
<1>5. n \in T
  BY <1>3, <1>4, ReachesFromZero, n \in 0 .. n
<1> QED
  BY <1>2, <1>5 DEF T

(***************************************************************************)
(* The tables.                                                             *)
(***************************************************************************)

\* One term changes.
LEMMA TotalMoves ==
  ASSUME NEW n \in Nat, NEW u \in Numbers(n), NEW w \in Numbers(n), NEW k \in 1 .. n,
         \A i \in 1 .. n : i # k => w[i] = u[i]
  PROVE  Total(w) = Total(u) + (w[k] - u[k])
<1> DEFINE d == [i \in 1 .. n |-> w[i] - u[i]]
<1>1. \A i \in 1 .. n : w[i] \in Int /\ u[i] \in Int
  BY DEF Numbers
<1>2. d \in Numbers(n)
  BY <1>1 DEF Numbers
<1>3. /\ \A i \in 1 .. n : w[i] = u[i] + d[i]
      /\ \A i \in 1 .. n : i # k => d[i] = 0
      /\ d[k] = w[k] - u[k]
  BY <1>1
<1> HIDE DEF d
<1>4. Total(w) = Total(u) + Total(d)
  BY <1>2, <1>3, TotalOfSums
<1>5. Total(d) = d[k]
  BY <1>2, <1>3, TotalOfOne
<1> QED
  BY <1>3, <1>4, <1>5

Faces == Len(weights)
Pending == Listed(small) \cup Listed(large)

\* What the sides of the die contribute to a value j, for n sides with
\* tables p and a.
Sides(p, a, one, j, n) ==
  [i \in 1 .. n |-> (IF i = j THEN p[i] ELSE 0) + (IF a[i] = j THEN one - p[i] ELSE 0)]

\* What the values that are still in a list have more than one side of the die.
Excess == [i \in 1 .. Faces |-> IF i \in Pending THEN scaled[i] - One ELSE 0]

DistTypes ==
  /\ Faces \in Nat /\ One \in Int
  /\ weights \in Numbers(Faces) /\ scaled \in Numbers(Faces) /\ prob \in Numbers(Faces)
  /\ alias \in [1 .. Faces -> 0 .. Faces]
  /\ locked \in BOOLEAN
  /\ Worklist(small, Faces) /\ Worklist(large, Faces)

\* While the tables are made: what a value has got on the sides that are done and
\* what it has left make its weight, and what is left fills the sides left.
TablesInv ==
  /\ Listed(small) \cap Listed(large) = {}
  /\ \A i \in Listed(small) : scaled[i] < One
  /\ \A i \in Listed(large) : scaled[i] >= One
  /\ \A i \in 1 .. Faces : IF i \in Pending THEN prob[i] = 0 /\ alias[i] = 0 ELSE alias[i] # 0
  /\ \A j \in 1 .. Faces :
       Total(Sides(prob, alias, One, j, Faces)) + (IF j \in Pending THEN scaled[j] ELSE 0)
         = weights[j] * Faces
  /\ Total(Excess) = 0

DistInv ==
  /\ DistTypes
  /\ locked = TRUE => TablesInv
  /\ DrawsAsWeighted

LEMMA SidesType ==
  ASSUME NEW n \in Nat, NEW p \in Numbers(n), NEW a, NEW one \in Int, NEW j
  PROVE  Sides(p, a, one, j, n) \in Numbers(n)
<1>1. \A i \in 1 .. n : p[i] \in Int
  BY DEF Numbers
<1> QED
  BY <1>1 DEF Sides, Numbers

LEMMA ShareIs ==
  ASSUME DistTypes, NEW j
  PROVE  Share(j) = Total(Sides(prob, alias, One, j, Faces))
<1>1. DOMAIN prob = 1 .. Faces
  BY DEF DistTypes, Numbers
<1> QED
  BY <1>1 DEF Share, Sides

LEMMA InitDist == DistInit => DistInv
<1> SUFFICES ASSUME DistInit
             PROVE  DistInv
  OBVIOUS
<1>1. Faces = 1 /\ weights \in Numbers(1) /\ weights[1] = 1 /\ 1 \in Nat
  BY DEF DistInit, Faces, Numbers
<1>2. One = 1
  <2>1. Total(weights) = weights[1]
    BY <1>1, TotalOfOne
  <2> QED
    BY <1>1, <2>1 DEF One
<1>3. Worklist(<<>>, Faces)
  BY <1>1, EmptyList
<1>4. DistTypes
  <2>1. scaled \in Numbers(Faces) /\ prob \in Numbers(Faces) /\ weights \in Numbers(Faces)
    BY <1>1 DEF DistInit, Numbers
  <2>2. alias \in [1 .. Faces -> 0 .. Faces]
    BY <1>1 DEF DistInit
  <2>3. Worklist(small, Faces) /\ Worklist(large, Faces) /\ locked \in BOOLEAN
    BY <1>3 DEF DistInit
  <2>4. Faces \in Nat /\ One \in Int
    BY <1>1, <1>2
  <2> QED
    BY <2>1, <2>2, <2>3, <2>4 DEF DistTypes
<1>5. ASSUME NEW j \in 1 .. 1
      PROVE  Share(j) = weights[j] * Faces
  <2>1. Sides(prob, alias, One, j, Faces) \in Numbers(1)
    BY <1>1, <1>2, <1>4, SidesType DEF DistTypes
  <2>2. Total(Sides(prob, alias, One, j, Faces)) = Sides(prob, alias, One, j, Faces)[1]
    BY <2>1, TotalOfOne
  <2>3. j = 1 /\ prob[1] = 1 /\ alias[1] = 0
    BY DEF DistInit
  <2>4. Sides(prob, alias, One, j, Faces)[1] = 1
    BY <1>1, <1>2, <2>3 DEF Sides
  <2> QED
    BY <1>1, <1>4, <2>2, <2>3, <2>4, ShareIs
<1>6. DrawsAsWeighted
  <2>1. DOMAIN weights = 1 .. 1 /\ Len(weights) = Faces
    BY <1>1 DEF Numbers, Faces
  <2>2. \A j \in 1 .. 1 : ~(prob[j] < One)
    BY <1>2 DEF DistInit
  <2> QED
    BY <1>5, <2>1, <2>2 DEF DrawsAsWeighted
<1> QED
  BY <1>4, <1>6 DEF DistInv, DistInit

LEMMA ResetDist ==
  ASSUME DistInv, NEW n \in 1 .. MaxValues, NEW w \in [1 .. n -> 0 .. MaxWeight], Reset(w)
  PROVE  DistInv'
<1> DEFINE s == [i \in 1 .. n |-> w[i] * n]
           S == {i \in 1 .. n : s[i] < Total(w)}
           L == {i \in 1 .. n : s[i] >= Total(w)}
<1>1. n \in Nat /\ n \in Int /\ w \in Numbers(n) /\ Len(w) = n /\ Total(w) \in Int
  <2>1. n \in Nat /\ w \in Numbers(n)
    BY ProbDistAssumption DEF Numbers
  <2> QED
    BY <2>1, LenOfNumbers, TotalType
<1>2. /\ s \in Numbers(n) /\ S \in SUBSET (1 .. n) /\ L \in SUBSET (1 .. n)
      /\ S \cap L = {} /\ S \cup L = 1 .. n
  <2>1. \A i \in 1 .. n : w[i] \in Int
    BY <1>1 DEF Numbers
  <2>2. \A i \in 1 .. n : s[i] \in Int
    BY <1>1, <2>1
  <2> QED
    BY <1>1, <2>2 DEF Numbers
<1>3. /\ weights' = w /\ scaled' = s /\ locked' = TRUE
      /\ small' = InOrder(S, n) /\ large' = InOrder(L, n)
      /\ prob' = [i \in 1 .. n |-> 0] /\ alias' = [i \in 1 .. n |-> 0]
  BY <1>1 DEF Reset
<1>4. Total(s) = Total(w) * n
  BY <1>1, <1>2, TotalTimes
<1>5. /\ \A i \in S : s[i] < Total(w)
      /\ \A i \in L : s[i] >= Total(w)
      /\ \A i \in 1 .. n : s[i] = w[i] * n
  OBVIOUS
<1> HIDE DEF s, S, L
<1>6. Faces' = n /\ One' = Total(w)
  BY <1>1, <1>3 DEF Faces, One
<1>7. /\ Worklist(small', n) /\ Worklist(large', n)
      /\ Listed(small') = S /\ Listed(large') = L /\ Pending' = 1 .. n
  BY <1>1, <1>2, <1>3, InOrderIs DEF Pending
<1>8. DistTypes'
  BY <1>1, <1>2, <1>3, <1>6, <1>7 DEF DistTypes, Numbers
<1>9. ASSUME NEW j \in 1 .. n
      PROVE  Total(Sides(prob', alias', One', j, n)) + (IF j \in Pending' THEN scaled'[j] ELSE 0)
               = weights'[j] * n
  <2>1. Sides(prob', alias', One', j, n) = [i \in 1 .. n |-> 0]
    <3>1. \A i \in 1 .. n : prob'[i] = 0 /\ alias'[i] # j
      BY <1>3
    <3>2. \A i \in 1 .. n : (IF i = j THEN prob'[i] ELSE 0)
                              + (IF alias'[i] = j THEN One' - prob'[i] ELSE 0) = 0
      BY <3>1
    <3> QED
      BY <3>2 DEF Sides
  <2>2. Total([i \in 1 .. n |-> 0]) = n * 0
    BY <1>1, 0 \in Int, TotalOfSame, Zenon
  <2>3. s[j] = w[j] * n /\ s[j] \in Int
    BY <1>2, <1>5 DEF Numbers
  <2> QED
    BY <1>1, <1>3, <1>7, <2>1, <2>2, <2>3
<1>10. Total(Excess') = 0
  <2> DEFINE e == [i \in 1 .. n |-> s[i] - Total(w)]
             c == [i \in 1 .. n |-> Total(w)]
  <2>1. Excess' = e
    BY <1>3, <1>6, <1>7 DEF Excess
  <2>2. \A i \in 1 .. n : s[i] \in Int
    BY <1>2 DEF Numbers
  <2>3. e \in Numbers(n) /\ c \in Numbers(n) /\ \A i \in 1 .. n : s[i] = e[i] + c[i]
    BY <1>1, <2>2 DEF Numbers
  <2>4. Total(c) = n * Total(w)
    BY <1>1, TotalOfSame
  <2> HIDE DEF e, c
  <2>5. Total(s) = Total(e) + Total(c) /\ Total(e) \in Int
    BY <1>1, <1>2, <2>3, TotalOfSums, TotalType
  <2>6. \A x, y \in Int : x * y = y * x
    OBVIOUS
  <2>7. Total(w) * n = n * Total(w) /\ n * Total(w) \in Int
    BY <1>1, <2>6
  <2>8. Total(e) = 0
    BY <1>4, <2>4, <2>5, <2>7
  <2> QED
    BY <2>1, <2>8
<1>11. TablesInv'
  <2>1. \A i \in 1 .. n : prob'[i] = 0 /\ alias'[i] = 0 /\ i \in Pending'
    BY <1>3, <1>7
  <2>2. \A i \in S : scaled'[i] < One'
    BY <1>3, <1>5, <1>6
  <2>3. \A i \in L : scaled'[i] >= One'
    BY <1>3, <1>5, <1>6
  <2> QED
    BY <1>2, <1>6, <1>7, <1>9, <1>10, <2>1, <2>2, <2>3 DEF TablesInv
<1> QED
  BY <1>3, <1>8, <1>11 DEF DistInv, DrawsAsWeighted

LEMMA PairUpDist ==
  ASSUME DistInv, PairUp
  PROVE  DistInv'
<1> DEFINE n == Faces
           l == Head(small)
           g == Head(large)
           left == (scaled[g] + scaled[l]) - One
<1>1. DistTypes /\ TablesInv
  BY DEF DistInv, PairUp
<1>2. /\ n \in Nat /\ Worklist(small, n) /\ Worklist(large, n) /\ small # <<>> /\ large # <<>>
  BY <1>1 DEF DistTypes, PairUp
<1>3. /\ l \in Listed(small) /\ g \in Listed(large)
      /\ Worklist(Tail(small), n) /\ Worklist(Tail(large), n)
      /\ Listed(Tail(small)) = Listed(small) \ {l} /\ Listed(Tail(large)) = Listed(large) \ {g}
      /\ Listed(small) \subseteq 1 .. n /\ Listed(large) \subseteq 1 .. n
  BY <1>2, ListTail, ListedType
<1>4. l \in 1 .. n /\ g \in 1 .. n /\ l # g /\ Listed(small) \cap Listed(large) = {}
  BY <1>1, <1>3 DEF TablesInv
<1>5. /\ prob' = [prob EXCEPT ![l] = scaled[l]]
      /\ alias' = [alias EXCEPT ![l] = g]
      /\ scaled' = [scaled EXCEPT ![g] = left]
      /\ small' = IF left < One THEN Append(Tail(small), g) ELSE Tail(small)
      /\ large' = IF left < One THEN Tail(large) ELSE Append(Tail(large), g)
      /\ weights' = weights /\ locked' = TRUE /\ locked = TRUE
  BY <1>1 DEF PairUp, LeftAfterGiving, DistTypes
<1>6. /\ One \in Int /\ One' = One /\ Faces' = n
      /\ scaled \in Numbers(n) /\ prob \in Numbers(n) /\ alias \in [1 .. n -> 0 .. n]
      /\ \A i \in 1 .. n : scaled[i] \in Int /\ prob[i] \in Int
  BY <1>1, <1>5 DEF DistTypes, One, Faces, Numbers
<1>7. left \in Int /\ scaled[l] \in Int /\ scaled[g] \in Int
  BY <1>4, <1>6
<1> HIDE DEF n, l, g
<1>8. /\ scaled' \in Numbers(n) /\ prob' \in Numbers(n) /\ alias' \in [1 .. n -> 0 .. n]
      /\ prob'[l] = scaled[l] /\ alias'[l] = g /\ scaled'[g] = left
      /\ \A i \in 1 .. n : i # l => prob'[i] = prob[i] /\ alias'[i] = alias[i]
      /\ \A i \in 1 .. n : i # g => scaled'[i] = scaled[i]
  <2>1. /\ prob' \in Numbers(n) /\ prob'[l] = scaled[l]
        /\ \A i \in 1 .. n : i # l => prob'[i] = prob[i]
    BY <1>4, <1>5, <1>6, <1>7 DEF Numbers
  <2>2. /\ scaled' \in Numbers(n) /\ scaled'[g] = left
        /\ \A i \in 1 .. n : i # g => scaled'[i] = scaled[i]
    BY <1>4, <1>5, <1>6, <1>7 DEF Numbers
  <2>3. g \in 0 .. n
    BY <1>2, <1>4
  <2>4. /\ alias' \in [1 .. n -> 0 .. n] /\ alias'[l] = g
        /\ \A i \in 1 .. n : i # l => alias'[i] = alias[i]
    BY <1>4, <1>5, <1>6, <2>3
  <2> QED
    BY <2>1, <2>2, <2>4
<1> HIDE DEF left
<1>9. /\ Worklist(small', n) /\ Worklist(large', n)
      /\ Listed(small') = (Listed(small) \ {l}) \cup (IF left < One THEN {g} ELSE {})
      /\ Listed(large') = (Listed(large) \ {g}) \cup (IF left < One THEN {} ELSE {g})
  <2>1. g \notin Listed(small) \ {l} /\ g \notin Listed(large) \ {g}
    BY <1>3, <1>4
  <2>2. /\ Worklist(Append(Tail(small), g), n)
        /\ Listed(Append(Tail(small), g)) = (Listed(small) \ {l}) \cup {g}
    BY <1>2, <1>3, <1>4, <2>1, ListAppend
  <2>3. /\ Worklist(Append(Tail(large), g), n)
        /\ Listed(Append(Tail(large), g)) = (Listed(large) \ {g}) \cup {g}
    BY <1>2, <1>3, <1>4, <2>1, ListAppend
  <2> QED
    BY <1>3, <1>5, <2>2, <2>3
<1>10. Pending' = Pending \ {l} /\ g \in Pending' /\ g \in Pending /\ l \in Pending
  BY <1>3, <1>4, <1>9 DEF Pending
<1>11. DistTypes'
  BY <1>1, <1>5, <1>6, <1>8, <1>9 DEF DistTypes, n
<1>12. prob[l] = 0 /\ alias[l] = 0
  BY <1>1, <1>4, <1>10 DEF TablesInv, n
<1>13. ASSUME NEW j \in 1 .. n
       PROVE  Total(Sides(prob', alias', One, j, n)) + (IF j \in Pending' THEN scaled'[j] ELSE 0)
                = weights[j] * n
  <2> DEFINE u == Sides(prob, alias, One, j, Faces)
             v == Sides(prob', alias', One, j, n)
  <2>1. u \in Numbers(n) /\ v \in Numbers(n)
    BY <1>2, <1>6, <1>8, SidesType DEF n
  <2>2. \A i \in 1 .. n : i # l => v[i] = u[i]
    BY <1>8 DEF Sides, n
  <2>3. /\ u[l] = 0
        /\ v[l] = (IF l = j THEN scaled[l] ELSE 0) + (IF g = j THEN One - scaled[l] ELSE 0)
    BY <1>4, <1>7, <1>8, <1>12 DEF Sides, n
  <2> HIDE DEF u, v
  <2>4. Total(v) = Total(u) + (v[l] - u[l]) /\ Total(u) \in Int
    BY <1>2, <1>4, <2>1, <2>2, TotalMoves, TotalType
  <2>5. Total(u) + (IF j \in Pending THEN scaled[j] ELSE 0) = weights[j] * n
    BY <1>1 DEF TablesInv, n, u
  <2>6. CASE j = l
    <3>1. v[l] = scaled[l] /\ j \in Pending /\ j \notin Pending'
      BY <1>4, <1>7, <1>10, <2>3, <2>6
    <3> QED
      BY <1>7, <2>3, <2>4, <2>5, <2>6, <3>1 DEF v
  <2>7. CASE j = g
    <3>1. v[l] = One - scaled[l] /\ j \in Pending /\ j \in Pending' /\ scaled'[j] = left
      BY <1>4, <1>6, <1>7, <1>8, <1>10, <2>3, <2>7
    <3>2. left = (scaled[g] + scaled[l]) - One
      BY DEF left
    <3> QED
      BY <1>6, <1>7, <2>3, <2>4, <2>5, <2>7, <3>1, <3>2 DEF v
  <2>8. CASE j # l /\ j # g
    <3>1. v[l] = 0 /\ (j \in Pending <=> j \in Pending') /\ scaled'[j] = scaled[j]
      BY <1>8, <1>10, <2>3, <2>8
    <3> QED
      BY <2>3, <2>4, <2>5, <3>1 DEF v
  <2> QED
    BY <2>6, <2>7, <2>8
<1>14. Total(Excess') = 0
  <2> DEFINE m == [i \in 1 .. n |-> IF i = l THEN 0 ELSE Excess[i]]
  <2>1. Excess = [i \in 1 .. n |-> IF i \in Pending THEN scaled[i] - One ELSE 0]
    BY DEF Excess, n
  <2>2. Excess' = [i \in 1 .. n |-> IF i \in Pending' THEN scaled'[i] - One ELSE 0]
    BY <1>6 DEF Excess, n
  <2>3. Excess \in Numbers(n) /\ Excess[l] = scaled[l] - One /\ Excess[g] = scaled[g] - One
    BY <1>4, <1>6, <1>10, <2>1 DEF Numbers
  <2>4. \A i \in 1 .. n : scaled'[i] \in Int /\ Excess[i] \in Int
    BY <1>8, <2>3 DEF Numbers
  <2>5. Excess' \in Numbers(n) /\ Excess'[g] = left - One
    BY <1>4, <1>6, <1>8, <1>10, <2>2, <2>4 DEF Numbers
  <2>6. m \in Numbers(n) /\ m[l] = 0 /\ m[g] = Excess[g] /\ \A i \in 1 .. n : i # l => m[i] = Excess[i]
    BY <1>4, <2>4 DEF Numbers
  <2> HIDE DEF m
  <2>7. ASSUME NEW i \in 1 .. n, i # g
        PROVE  Excess'[i] = m[i]
    BY <1>8, <1>10, <2>1, <2>2, <2>6, <2>7
  <2>8. Total(m) = Total(Excess) + (m[l] - Excess[l]) /\ Total(m) \in Int
    BY <1>2, <1>4, <2>3, <2>6, TotalMoves, TotalType
  <2>9. Total(Excess') = Total(m) + (Excess'[g] - m[g])
    BY <1>2, <1>4, <2>5, <2>6, <2>7, TotalMoves
  <2>10. Total(Excess) = 0 /\ left = (scaled[g] + scaled[l]) - One
    BY <1>1 DEF TablesInv, left
  <2> QED
    BY <1>6, <1>7, <2>3, <2>5, <2>6, <2>8, <2>9, <2>10, SMTT(60)
<1>15. TablesInv'
  <2>1. Listed(small') \cap Listed(large') = {}
    <3>1. g \notin Listed(small) /\ Listed(small) \cap Listed(large) = {}
      BY <1>3, <1>4
    <3>2. CASE left < One
      BY <1>9, <3>1, <3>2
    <3>3. CASE ~(left < One)
      BY <1>9, <3>1, <3>3
    <3> QED
      BY <3>2, <3>3
  <2>2. ASSUME NEW i \in Listed(small')
        PROVE  scaled'[i] < One
    <3>1. CASE i = g
      <4>1. left < One
        BY <1>3, <1>4, <1>9, <2>2, <3>1
      <4> QED
        BY <1>8, <3>1, <4>1
    <3>2. CASE i # g
      BY <1>1, <1>3, <1>8, <1>9, <3>2 DEF TablesInv
    <3> QED
      BY <3>1, <3>2
  <2>3. ASSUME NEW i \in Listed(large')
        PROVE  scaled'[i] >= One
    <3>1. CASE i = g
      <4>1. ~(left < One)
        BY <1>3, <1>4, <1>9, <2>3, <3>1
      <4> QED
        BY <1>6, <1>7, <1>8, <3>1, <4>1
    <3>2. CASE i # g
      BY <1>1, <1>3, <1>8, <1>9, <3>2 DEF TablesInv
    <3> QED
      BY <3>1, <3>2
  <2>4. ASSUME NEW i \in 1 .. n
        PROVE  IF i \in Pending' THEN prob'[i] = 0 /\ alias'[i] = 0 ELSE alias'[i] # 0
    <3>1. CASE i = l
      <4>1. g # 0
        BY <1>2, <1>4
      <4> QED
        BY <1>8, <1>10, <3>1, <4>1
    <3>2. CASE i # l
      BY <1>1, <1>8, <1>10, <3>2 DEF TablesInv, n
    <3> QED
      BY <3>1, <3>2
  <2>5. \A j \in 1 .. n :
          Total(Sides(prob', alias', One', j, n)) + (IF j \in Pending' THEN scaled'[j] ELSE 0)
            = weights'[j] * n
    BY <1>5, <1>6, <1>13
  <2> QED
    BY <1>6, <1>14, <2>1, <2>2, <2>3, <2>4, <2>5 DEF TablesInv, n
<1> QED
  BY <1>5, <1>11, <1>15 DEF DistInv, DrawsAsWeighted

\* When one of the lists is empty, what is left in the other is exactly one side
\* for each.
LEMMA OneSideEach ==
  ASSUME DistTypes, TablesInv, small = <<>> \/ large = <<>>
  PROVE  \A i \in Pending : scaled[i] = One
<1>1. /\ Faces \in Nat /\ One \in Int /\ Pending \subseteq 1 .. Faces
      /\ \A i \in 1 .. Faces : scaled[i] \in Int
  BY ListedType DEF DistTypes, Numbers, Pending
<1>2. Excess \in Numbers(Faces) /\ Total(Excess) = 0
  BY <1>1 DEF Excess, Numbers, TablesInv
<1>3. /\ \A i \in 1 .. Faces : Excess[i] \in Int
      /\ \A i \in Pending : Excess[i] = scaled[i] - One
      /\ \A i \in 1 .. Faces : i \notin Pending => Excess[i] = 0
  BY <1>1 DEF Excess
<1>4. CASE small = <<>>
  <2>1. Pending = Listed(large)
    BY <1>1, <1>4, EmptyList DEF Pending
  <2>2. \A i \in Pending : scaled[i] >= One
    BY <2>1 DEF TablesInv
  <2>3. \A i \in 1 .. Faces : Excess[i] >= 0
    BY <1>1, <1>3, <2>2
  <2>4. \A i \in 1 .. Faces : Excess[i] <= 0
    BY <1>1, <1>2, <2>3, TermsOfTotal
  <2> QED
    BY <1>1, <1>3, <2>3, <2>4
<1>5. CASE large = <<>>
  <2> DEFINE m == [i \in 1 .. Faces |-> Excess[i] * (-1)]
  <2>1. Pending = Listed(small)
    BY <1>1, <1>5, EmptyList DEF Pending
  <2>2. \A i \in Pending : scaled[i] < One
    BY <2>1 DEF TablesInv
  <2>3. m \in Numbers(Faces) /\ \A i \in 1 .. Faces : m[i] = Excess[i] * (-1)
    BY <1>3 DEF Numbers
  <2>4. \A i \in 1 .. Faces : m[i] >= 0
    BY <1>1, <1>3, <2>2
  <2> HIDE DEF m
  <2>5. Total(m) = 0
    <3>1. Total(m) = Total(Excess) * (-1)
      BY <1>1, <1>2, <2>3, TotalTimes, -1 \in Int
    <3> QED
      BY <1>2, <3>1
  <2>6. \A i \in 1 .. Faces : m[i] <= 0
    BY <1>1, <2>3, <2>4, <2>5, TermsOfTotal
  <2>7. \A i \in 1 .. Faces : Excess[i] >= 0
    BY <1>3, <2>3, <2>6
  <2> QED
    BY <1>1, <1>3, <2>2, <2>7
<1> QED
  BY <1>4, <1>5

LEMMA FillUpDist ==
  ASSUME DistInv, FillUp
  PROVE  DistInv'
<1> DEFINE n == Faces
<1>1. DistTypes /\ TablesInv
  BY DEF DistInv, FillUp
<1>2. /\ n \in Nat /\ One \in Int /\ One' = One /\ Faces' = n
      /\ prob \in Numbers(n) /\ DOMAIN prob = 1 .. n
      /\ \A i \in 1 .. n : scaled[i] \in Int /\ prob[i] \in Int
      /\ Pending \subseteq 1 .. n
      /\ \A i : (Contains(small, i) \/ Contains(large, i)) <=> i \in Pending
  <2>1. /\ Faces \in Nat /\ One \in Int /\ One' = One /\ Faces' = Faces
        /\ prob \in Numbers(Faces) /\ DOMAIN prob = 1 .. Faces
        /\ \A i \in 1 .. Faces : scaled[i] \in Int /\ prob[i] \in Int
    BY <1>1 DEF DistTypes, FillUp, One, Faces, Numbers
  <2>2. /\ Listed(small) \subseteq 1 .. Faces /\ Listed(large) \subseteq 1 .. Faces
        /\ \A i : Contains(small, i) <=> i \in Listed(small)
        /\ \A i : Contains(large, i) <=> i \in Listed(large)
    BY <1>1, <2>1, ListedType DEF DistTypes
  <2> QED
    BY <2>1, <2>2 DEF Pending
<1>3. /\ prob' = [i \in 1 .. n |-> IF i \in Pending THEN One ELSE prob[i]]
      /\ small' = <<>> /\ large' = <<>> /\ locked' = FALSE
      /\ weights' = weights /\ scaled' = scaled /\ alias' = alias
  BY <1>2 DEF FillUp
<1>4. \A i \in Pending : scaled[i] = One
  BY <1>1, OneSideEach DEF FillUp
<1> HIDE DEF n
<1>5. prob' \in Numbers(n)
  BY <1>2, <1>3 DEF Numbers
<1>6. DistTypes'
  BY <1>1, <1>2, <1>3, <1>5, EmptyList DEF DistTypes, n
<1>7. ASSUME NEW j \in 1 .. n
      PROVE  Total(Sides(prob', alias', One, j, n)) = weights[j] * n
  <2> DEFINE u == Sides(prob, alias, One, j, n)
             v == Sides(prob', alias', One, j, n)
  <2>1. u \in Numbers(n) /\ v \in Numbers(n)
    BY <1>2, <1>5, SidesType
  <2>2. ASSUME NEW i \in 1 .. n
        PROVE  v[i] = u[i] + (IF i = j /\ i \in Pending THEN One ELSE 0)
    <3>1. /\ v[i] = (IF i = j THEN prob'[i] ELSE 0) + (IF alias[i] = j THEN One - prob'[i] ELSE 0)
          /\ u[i] = (IF i = j THEN prob[i] ELSE 0) + (IF alias[i] = j THEN One - prob[i] ELSE 0)
      BY <1>3 DEF Sides
    <3>2. prob'[i] = IF i \in Pending THEN One ELSE prob[i]
      BY <1>3
    <3>3. CASE i \in Pending
      <4>1. prob[i] = 0 /\ alias[i] # j /\ prob'[i] = One
        BY <1>1, <1>2, <2>2, <3>2, <3>3 DEF TablesInv, n
      <4> QED
        BY <1>2, <3>1, <3>3, <4>1
    <3>4. CASE i \notin Pending
      <4>1. u[i] \in Int
        BY <2>1 DEF Numbers
      <4> QED
        BY <3>1, <3>2, <3>4, <4>1
    <3> QED
      BY <3>3, <3>4
  <2>3. Total(u) + (IF j \in Pending THEN scaled[j] ELSE 0) = weights[j] * n
    BY <1>1 DEF TablesInv, n
  <2> HIDE DEF u, v
  <2>4. u[j] \in Int /\ v[j] = u[j] + (IF j \in Pending THEN One ELSE 0)
    BY <2>1, <2>2 DEF Numbers
  <2>5. \A i \in 1 .. n : i # j => v[i] = u[i]
    <3>1. \A i \in 1 .. n : u[i] \in Int
      BY <2>1 DEF Numbers
    <3> QED
      BY <2>2, <3>1
  <2>6. Total(v) = Total(u) + (v[j] - u[j]) /\ Total(u) \in Int
    BY <1>2, <2>1, <2>5, TotalMoves, TotalType
  <2>7. Total(v) = Total(u) + (IF j \in Pending THEN scaled[j] ELSE 0)
    BY <1>2, <1>4, <2>4, <2>6
  <2> QED
    BY <2>3, <2>7 DEF v
<1>8. ASSUME NEW j \in 1 .. n
      PROVE  Share(j)' = weights[j] * n
  <2>1. Share(j)' = Total(Sides(prob', alias', One', j, n))
    <3>1. DOMAIN prob' = 1 .. n
      BY <1>3
    <3> QED
      BY <3>1 DEF Share, Sides
  <2> QED
    BY <1>2, <1>7, <2>1
<1>9. ASSUME NEW j \in 1 .. n, prob'[j] < One
      PROVE  alias'[j] # 0
  <2>1. j \notin Pending
    BY <1>2, <1>3, <1>9
  <2> QED
    BY <1>1, <1>3, <2>1 DEF TablesInv, n
<1>10. DOMAIN weights = 1 .. n /\ Len(weights) = n
  BY <1>1 DEF DistTypes, Numbers, Faces, n
<1>11. DrawsAsWeighted'
  BY <1>2, <1>3, <1>8, <1>9, <1>10 DEF DrawsAsWeighted
<1> QED
  BY <1>3, <1>6, <1>11 DEF DistInv

LEMMA NextDist == DistInv /\ [DistNext]_distVars => DistInv'
<1> SUFFICES ASSUME DistInv, [DistNext]_distVars
             PROVE  DistInv'
  OBVIOUS
<1>1. CASE \E n \in 1 .. MaxValues : \E w \in [1 .. n -> 0 .. MaxWeight] : Total(w) > 0 /\ Reset(w)
  BY <1>1, ResetDist
<1>2. CASE PairUp
  BY <1>2, PairUpDist
<1>3. CASE FillUp
  BY <1>3, FillUpDist
<1>4. CASE UNCHANGED distVars
  <2>1. \A j : Share(j)' = Share(j)
    BY <1>4 DEF distVars, Share, One
  <2>2. DrawsAsWeighted'
    BY <1>4, <2>1 DEF DistInv, DrawsAsWeighted, distVars, One
  <2>3. DistTypes'
    BY <1>4 DEF DistInv, DistTypes, distVars, One, Faces
  <2>4. /\ One' = One /\ Faces' = Faces /\ Pending' = Pending /\ Excess' = Excess
    BY <1>4 DEF distVars, One, Faces, Pending, Excess
  <2>5. locked' = TRUE => TablesInv'
    BY <1>4, <2>4 DEF DistInv, TablesInv, distVars
  <2> QED
    BY <2>2, <2>3, <2>5 DEF DistInv
<1> QED
  BY <1>1, <1>2, <1>3, <1>4 DEF DistNext

\* Sample returns each value with the probability that its weight gives it, for
\* any number of values and any weights, and never looks up an alias that
\* genTables did not set (weighted_dist.go).
THEOREM AlwaysDrawsAsWeighted == DistSpec => []DrawsAsWeighted
<1>1. DistInv => DrawsAsWeighted
  BY DEF DistInv
<1> QED
  BY <1>1, InitDist, NextDist, PTL DEF DistSpec
=============================================================================
