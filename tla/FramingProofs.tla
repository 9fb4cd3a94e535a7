--------------------------- MODULE FramingProofs ---------------------------
(***************************************************************************)
(* Theorems about the link layer, for every counter width, frame length    *)
(* and amount of tampering.                                                *)
(***************************************************************************)
EXTENDS Framing, SequenceTheorems, TLAPS

(***************************************************************************)
(* The inductive invariant.  Frame number n is sealed under nonce n, since *)
(* the encoder stops for good when its counter comes round to 0; and the   *)
(* decoder, which has decoded n frames, waits for nonce n + 1 whatever the *)
(* network gave it.                                                        *)
(***************************************************************************)

\* The value of a counter that started at 1 and was bumped n times.
CounterAfter(n) == IF n + 1 = CounterLimit THEN 0 ELSE n + 1

EncoderInv ==
  /\ Len(frames) < CounterLimit
  /\ encCounter = CounterAfter(Len(frames))
  /\ \A i \in 1 .. Len(frames) : frames[i].nonce = i

DecoderInv ==
  /\ DeliveredInOrder
  /\ decCounter = CounterAfter(Len(delivered))
  /\ nextLength # 0 => nextNonce = decCounter /\ decCounter # 0

IInv == TypeOK /\ EncoderInv /\ DecoderInv

\* What Bump does, without the modulus.
LEMMA BumpIsNext ==
  ASSUME NEW c \in Counters
  PROVE  /\ Bump(c) \in Counters
         /\ Bump(c) = IF c + 1 = CounterLimit THEN 0 ELSE c + 1
<1>1. c + 1 \in Nat /\ c + 1 <= CounterLimit /\ CounterLimit \in Nat \ {0}
  BY FramingAssumption DEF Counters
<1>2. CASE c + 1 = CounterLimit
  <2>1. CounterLimit % CounterLimit = 0
    BY <1>1
  <2> QED
    BY <1>1, <1>2, <2>1 DEF Bump, Counters
<1>3. CASE c + 1 < CounterLimit
  <2>1. (c + 1) % CounterLimit = c + 1
    BY <1>1, <1>3
  <2> QED
    BY <1>1, <1>3, <2>1 DEF Bump, Counters
<1> QED
  BY <1>1, <1>2, <1>3

\* The units of a frame, and the stream with some of them replaced, are units.
LEMMA UnitsType ==
  ASSUME NEW f \in Nat, NEW from \in Nat, NEW to \in Int, from >= 1
  PROVE  Units(f, from, to) \in Seq(Unit)
<1>1. CASE to - from + 1 \in Nat
  <2>1. Units(f, from, to) \in [1 .. (to - from + 1) -> Unit]
    BY DEF Units, Unit
  <2> QED
    BY <1>1, <2>1
<1>2. CASE to - from + 1 < 0
  <2>1. 1 .. (to - from + 1) = {}
    BY <1>2
  <2>2. Units(f, from, to) = <<>>
    BY <2>1 DEF Units
  <2> QED
    BY <2>2, EmptySeq
<1> QED
  BY <1>1, <1>2

LEMMA SubSeqType ==
  ASSUME NEW s \in Seq(Unit), NEW m \in Int, NEW n \in Int, m >= 1, n <= Len(s)
  PROVE  SubSeq(s, m, n) \in Seq(Unit)
<1>1. \A i \in m .. n : s[i] \in Unit
  BY ElementOfSeq, LenProperties
<1> QED
  BY <1>1, SubSeqProperties

-----------------------------------------------------------------------------
\* One lemma per action: that it preserves the invariant.

LEMMA InitIInv == Init => IInv
<1> SUFFICES ASSUME Init
             PROVE  IInv
  OBVIOUS
<1>1. TypeOK
  <2>1. <<>> \in Seq(Frame) /\ <<>> \in Seq(Unit) /\ <<>> \in Seq(Nat)
    BY EmptySeq
  <2>2. 0 \in Counters /\ 1 \in Counters /\ 0 \in 0 .. MaxFrameLength /\ 0 \in 0 .. MaxTamper
    BY FramingAssumption DEF Counters
  <2> QED
    BY <2>1, <2>2 DEF Init, TypeOK
<1>2. Len(frames) = 0 /\ Len(delivered) = 0
  BY DEF Init
<1>3. CounterAfter(0) = 1
  BY FramingAssumption DEF CounterAfter
<1>4. EncoderInv
  BY <1>2, <1>3, FramingAssumption DEF Init, EncoderInv
<1>5. DecoderInv
  BY <1>2, <1>3 DEF Init, DecoderInv, DeliveredInOrder
<1> QED
  BY <1>1, <1>4, <1>5 DEF IInv

LEMMA EncodeIInv ==
  ASSUME IInv, NEW n \in Lengths, Encode(n)
  PROVE  IInv'
<1> DEFINE fr == [nonce |-> encCounter, block |-> encBlock, length |-> n]
<1>1. /\ fr \in Frame /\ fr.nonce = encCounter
      /\ frames \in Seq(Frame)
      /\ encBlock' \in Nat
  <2>1. encCounter \in Counters /\ encBlock \in Nat /\ frames \in Seq(Frame)
    BY DEF IInv, TypeOK
  <2>2. encBlock' = encBlock + 1
    BY DEF Encode
  <2> QED
    BY <2>1, <2>2 DEF Frame
<1>2. frames' = Append(frames, fr)
  BY DEF Encode
<1> HIDE DEF fr
<1>3. /\ frames' \in Seq(Frame)
      /\ Len(frames') = Len(frames) + 1
      /\ \A i \in 1 .. Len(frames) : frames'[i] = frames[i]
      /\ frames'[Len(frames) + 1] = fr
      /\ Len(frames) \in Nat
  BY <1>1, <1>2, AppendProperties, LenProperties
<1>4. encCounter' = Bump(encCounter) /\ encCounter # 0 /\ encCounter \in Counters
  BY DEF Encode, IInv, TypeOK
<1>5. encCounter = Len(frames) + 1 /\ Len(frames) + 1 < CounterLimit
  BY <1>3, <1>4, FramingAssumption DEF IInv, EncoderInv, CounterAfter
<1>6. encCounter' \in Counters /\ encCounter' = CounterAfter(Len(frames'))
  BY <1>3, <1>4, <1>5, BumpIsNext DEF CounterAfter
<1>7. EncoderInv'
  <2>1. \A i \in 1 .. Len(frames') : i \in 1 .. Len(frames) \/ i = Len(frames) + 1
    BY <1>3
  <2>2. \A i \in 1 .. Len(frames') : frames'[i].nonce = i
    BY <2>1, <1>1, <1>3, <1>5 DEF IInv, EncoderInv
  <2>3. Len(frames') < CounterLimit
    BY <1>3, <1>5
  <2> QED
    BY <2>2, <2>3, <1>6 DEF EncoderInv, CounterAfter
<1>8. wire' \in Seq(Unit)
  <2>1. Units(Len(frames) + 1, 1, LengthLength + n) \in Seq(Unit)
    BY <1>3, UnitsType, FramingAssumption DEF LengthLength, Lengths
  <2> QED
    BY <2>1, ConcatProperties DEF Encode, IInv, TypeOK
<1>9. TypeOK'
  <2>1. UNCHANGED <<rx, decCounter, decBlock, nextLength, nextNonce,
                    nextLengthInvalid, decErr, delivered, tampered>>
    BY DEF Encode, decVars
  <2>2. TypeOK
    BY DEF IInv
  <2> QED
    BY <1>1, <1>3, <1>6, <1>8, <2>1, <2>2 DEF TypeOK
<1>10. DecoderInv'
  <2>1. Len(delivered) <= Len(frames) /\ Len(delivered) \in Nat
    BY LenProperties DEF IInv, TypeOK, DecoderInv, DeliveredInOrder
  <2>2. DeliveredInOrder'
    BY <2>1, <1>3 DEF Encode, IInv, DecoderInv, DeliveredInOrder, decVars
  <2> QED
    BY <2>2 DEF Encode, IInv, DecoderInv, decVars, CounterAfter
<1> QED
  BY <1>7, <1>9, <1>10 DEF IInv

\* The network touches nothing but the stream.
LEMMA NetworkIInv ==
  ASSUME IInv, wire' \in Seq(Unit), rx' \in Seq(Unit), tampered' \in 0 .. MaxTamper,
         UNCHANGED <<encVars, decVars>>
  PROVE  IInv'
<1>1. TypeOK'
  BY DEF IInv, TypeOK, encVars, decVars
<1>2. EncoderInv' /\ DecoderInv'
  BY DEF IInv, EncoderInv, DecoderInv, DeliveredInOrder, CounterAfter, encVars, decVars
<1> QED
  BY <1>1, <1>2 DEF IInv

LEMMA ReceiveIInv ==
  ASSUME IInv, NEW k \in 1 .. Len(wire), Receive(k)
  PROVE  IInv'
<1>1. wire \in Seq(Unit) /\ rx \in Seq(Unit) /\ Len(wire) \in Nat
  BY LenProperties DEF IInv, TypeOK
<1>2. SubSeq(wire, 1, k) \in Seq(Unit) /\ SubSeq(wire, k + 1, Len(wire)) \in Seq(Unit)
  BY <1>1, SubSeqType
<1>3. wire' \in Seq(Unit) /\ rx' \in Seq(Unit)
  BY <1>1, <1>2, ConcatProperties DEF Receive
<1>4. tampered' \in 0 .. MaxTamper
  BY DEF Receive, IInv, TypeOK
<1> QED
  BY <1>3, <1>4, NetworkIInv DEF Receive

LEMMA TamperIInv ==
  ASSUME IInv, Tamper
  PROVE  IInv'
<1>1. wire \in Seq(Unit) /\ Len(wire) \in Nat /\ frames \in Seq(Frame) /\ Len(frames) \in Nat
  BY LenProperties DEF IInv, TypeOK
<1>2. \A i \in 1 .. (Len(wire) + 1), j \in Nat \ {0}, s \in Seq(Unit) :
        Splice(i, s, j) \in Seq(Unit)
  <2> SUFFICES ASSUME NEW i \in 1 .. (Len(wire) + 1), NEW j \in Nat \ {0},
                      NEW s \in Seq(Unit)
               PROVE  Splice(i, s, j) \in Seq(Unit)
    OBVIOUS
  <2>1. SubSeq(wire, 1, i - 1) \in Seq(Unit) /\ SubSeq(wire, j, Len(wire)) \in Seq(Unit)
    BY <1>1, SubSeqType
  <2> QED
    BY <2>1, ConcatProperties DEF Splice
<1>3. wire' \in Seq(Unit)
  <2> \A i \in 1 .. Len(wire) : i \in 1 .. (Len(wire) + 1) /\ i + 1 \in Nat \ {0}
    BY <1>1
  <2>1. CASE \E i \in 1 .. Len(wire) : wire' = Splice(i, <<Noise>>, i + 1)
    <3>1. <<Noise>> \in Seq(Unit)
      BY DEF Noise, Unit
    <3> QED
      BY <2>1, <3>1, <1>2, Zenon
  <2>2. CASE \E i \in 1 .. Len(wire) : \E j \in i .. Len(wire) :
               wire' = Splice(i, <<>>, j + 1)
    <3>1. <<>> \in Seq(Unit)
      BY EmptySeq
    <3>2. PICK i \in 1 .. Len(wire) : \E j \in i .. Len(wire) : wire' = Splice(i, <<>>, j + 1)
      BY <2>2
    <3>3. PICK j \in i .. Len(wire) : wire' = Splice(i, <<>>, j + 1)
      BY <3>2
    <3>4. i \in 1 .. (Len(wire) + 1) /\ j + 1 \in Nat \ {0}
      BY <1>1
    <3> QED
      BY <3>1, <3>3, <3>4, <1>2, Zenon
  <2>3. CASE \E i \in 1 .. (Len(wire) + 1), f \in 1 .. Len(frames) :
               wire' = Splice(i, Units(f, 1, LengthLength + frames[f].length), i)
    <3>1. PICK i \in 1 .. (Len(wire) + 1), f \in 1 .. Len(frames) :
                 wire' = Splice(i, Units(f, 1, LengthLength + frames[f].length), i)
      BY <2>3
    <3>2. frames[f] \in Frame
      BY <1>1, ElementOfSeq
    <3>3. f \in Nat /\ LengthLength + frames[f].length \in Int
      BY <3>2, <1>1 DEF Frame, Lengths, LengthLength
    <3>4. 1 \in Nat /\ 1 >= 1 /\ i \in Nat \ {0}
      BY <1>1
    <3>5. Units(f, 1, LengthLength + frames[f].length) \in Seq(Unit)
      BY <3>3, <3>4, UnitsType, Zenon
    <3> QED
      BY <3>1, <3>4, <3>5, <1>2, Zenon
  <2> QED
    BY <2>1, <2>2, <2>3 DEF Tamper
<1>4. tampered' \in 0 .. MaxTamper /\ rx' \in Seq(Unit)
  <2>1. tampered \in 0 .. MaxTamper /\ rx \in Seq(Unit)
    BY DEF IInv, TypeOK
  <2>2. tampered' = tampered + 1 /\ tampered < MaxTamper /\ rx' = rx
    BY DEF Tamper
  <2> QED
    BY <2>1, <2>2, FramingAssumption
<1> QED
  BY <1>3, <1>4, NetworkIInv DEF Tamper

LEMMA DecodeLengthIInv ==
  ASSUME IInv, DecodeLength
  PROVE  IInv'
<1>1. /\ rx \in Seq(Unit) /\ Len(rx) \in Nat
      /\ frames \in Seq(Frame) /\ Len(frames) \in Nat
      /\ nextLengthInvalid \in BOOLEAN /\ decBlock \in Nat /\ decCounter \in Counters
      /\ nextNonce \in Counters
  BY LenProperties DEF IInv, TypeOK
<1>2. rx' \in Seq(Unit)
  <2>1. rx' = SubSeq(rx, LengthLength + 1, Len(rx))
    BY DEF DecodeLength
  <2>2. LengthLength + 1 \in Int /\ LengthLength + 1 >= 1
    BY DEF LengthLength
  <2> QED
    BY <1>1, <2>1, <2>2, SubSeqType
<1>3. UNCHANGED <<encCounter, encBlock, frames, wire, decCounter, delivered, tampered>>
  BY DEF DecodeLength, encVars
<1>4. CASE decCounter = 0
  <2>1. /\ decErr' = "counterWrapped"
        /\ UNCHANGED <<decBlock, nextLength, nextNonce, nextLengthInvalid>>
    BY <1>4 DEF DecodeLength
  <2>2. TypeOK'
    BY <1>2, <1>3, <2>1 DEF IInv, TypeOK
  <2>3. EncoderInv' /\ DecoderInv'
    BY <1>3, <2>1 DEF IInv, EncoderInv, DecoderInv, DeliveredInOrder, CounterAfter
  <2> QED
    BY <2>2, <2>3 DEF IInv
<1>5. CASE decCounter # 0
  <2>1. /\ nextNonce' = decCounter
        /\ decBlock' = decBlock + 1
        /\ Unmask
        /\ UNCHANGED decErr
    BY <1>5 DEF DecodeLength
  <2>2. nextLength' \in 0 .. MaxFrameLength /\ nextLengthInvalid' \in BOOLEAN
    <3>1. ASSUME NEW f \in 1 .. Len(frames)
          PROVE  frames[f].length \in Lengths
      <4>1. frames[f] \in Frame
        BY <1>1, ElementOfSeq
      <4> QED
        BY <4>1 DEF Frame
    <3>2. nextLength' \in Lengths /\ nextLengthInvalid' \in BOOLEAN
      BY <3>1, <2>1, <1>1 DEF Unmask
    <3> QED
      BY <3>2, FramingAssumption DEF Lengths
  <2>3. TypeOK'
    <3>1. decBlock' \in Nat /\ nextNonce' \in Counters
      BY <1>1, <2>1
    <3> QED
      BY <1>2, <1>3, <2>1, <2>2, <3>1 DEF IInv, TypeOK
  <2>4. EncoderInv' /\ DecoderInv'
    BY <1>3, <1>5, <2>1 DEF IInv, EncoderInv, DecoderInv, DeliveredInOrder, CounterAfter
  <2> QED
    BY <2>3, <2>4 DEF IInv
<1> QED
  BY <1>4, <1>5

\* The heart of it: the box that opens is that of the very next frame, since
\* it was sealed under the nonce that the decoder waits for.
LEMMA DecodeBoxIInv ==
  ASSUME IInv, DecodeBox
  PROVE  IInv'
<1>1. /\ rx \in Seq(Unit) /\ Len(rx) \in Nat
      /\ Len(frames) \in Nat /\ Len(delivered) \in Nat
      /\ delivered \in Seq(Nat)
      /\ decCounter \in Counters /\ nextLength \in 0 .. MaxFrameLength
  BY LenProperties DEF IInv, TypeOK
<1>2. rx' \in Seq(Unit)
  <2>1. nextLength + 1 \in Int /\ nextLength + 1 >= 1
    BY <1>1
  <2>2. rx' = SubSeq(rx, nextLength + 1, Len(rx))
    BY DEF DecodeBox
  <2> QED
    BY <2>1, <2>2, <1>1, SubSeqType
<1>3. UNCHANGED <<encCounter, encBlock, frames, wire, decBlock, nextNonce,
                  nextLengthInvalid, tampered>>
  BY DEF DecodeBox, encVars
<1>4. nextNonce = decCounter /\ decCounter # 0
  BY DEF DecodeBox, IInv, DecoderInv
<1>5. CASE \E f \in 1 .. Len(frames) :
              /\ Opens(f)
              /\ delivered' = Append(delivered, f)
              /\ nextLength' = 0
              /\ decCounter' = Bump(decCounter)
              /\ UNCHANGED decErr
  <2>1. PICK f \in 1 .. Len(frames) :
               /\ Opens(f)
               /\ delivered' = Append(delivered, f)
               /\ nextLength' = 0
               /\ decCounter' = Bump(decCounter)
               /\ UNCHANGED decErr
    BY <1>5
  <2>2. f = decCounter
    BY <1>4, <2>1 DEF Opens, IInv, EncoderInv
  <2>3. f = Len(delivered) + 1 /\ Len(delivered) + 1 # CounterLimit
    BY <1>1, <1>4, <2>2 DEF IInv, DecoderInv, CounterAfter
  <2>4. f \in Nat
    BY <1>1
  <2>5. /\ delivered' \in Seq(Nat)
        /\ Len(delivered') = Len(delivered) + 1
        /\ \A i \in 1 .. Len(delivered) : delivered'[i] = delivered[i]
        /\ delivered'[Len(delivered) + 1] = f
    BY <2>1, <2>4, <1>1, AppendProperties
  <2>6. decCounter' \in Counters /\ decCounter' = CounterAfter(Len(delivered'))
    BY <2>1, <2>2, <2>3, <2>5, <1>1, BumpIsNext DEF CounterAfter
  <2>7. DeliveredInOrder'
    <3>1. \A i \in 1 .. Len(delivered') : i \in 1 .. Len(delivered) \/ i = Len(delivered) + 1
      BY <2>5, <1>1
    <3>2. \A i \in 1 .. Len(delivered') : delivered'[i] = i
      BY <3>1, <2>3, <2>5 DEF IInv, DecoderInv, DeliveredInOrder
    <3>3. Len(delivered') <= Len(frames')
      BY <2>3, <2>5, <1>1, <1>3
    <3> QED
      BY <3>2, <3>3 DEF DeliveredInOrder
  <2>8. 0 \in 0 .. MaxFrameLength
    BY FramingAssumption
  <2>9. TypeOK'
    BY <1>2, <1>3, <2>1, <2>5, <2>6, <2>8 DEF IInv, TypeOK
  <2>10. EncoderInv'
    BY <1>3 DEF IInv, EncoderInv, CounterAfter
  <2>11. DecoderInv'
    BY <2>1, <2>6, <2>7 DEF DecoderInv, CounterAfter
  <2> QED
    BY <2>9, <2>10, <2>11 DEF IInv
<1>6. CASE decErr' = "tagMismatch" /\ UNCHANGED <<delivered, nextLength, decCounter>>
  <2>1. TypeOK'
    BY <1>2, <1>3, <1>6 DEF IInv, TypeOK
  <2>2. EncoderInv' /\ DecoderInv'
    BY <1>3, <1>6 DEF IInv, EncoderInv, DecoderInv, DeliveredInOrder, CounterAfter
  <2> QED
    BY <2>1, <2>2 DEF IInv
<1> QED
  BY <1>5, <1>6 DEF DecodeBox

LEMMA NextIInv == IInv /\ [Next]_vars => IInv'
<1> SUFFICES ASSUME IInv, [Next]_vars
             PROVE  IInv'
  OBVIOUS
<1>1. ASSUME NEW n \in Lengths, Encode(n)
      PROVE  IInv'
  BY <1>1, EncodeIInv
<1>2. ASSUME NEW k \in 1 .. Len(wire), Receive(k)
      PROVE  IInv'
  BY <1>2, ReceiveIInv
<1>3. CASE Tamper
  BY <1>3, TamperIInv
<1>4. CASE DecodeLength
  BY <1>4, DecodeLengthIInv
<1>5. CASE DecodeBox
  BY <1>5, DecodeBoxIInv
<1>6. CASE UNCHANGED vars
  <2>1. TypeOK'
    BY <1>6 DEF vars, encVars, decVars, IInv, TypeOK
  <2>2. EncoderInv' /\ DecoderInv'
    BY <1>6 DEF vars, encVars, decVars, IInv, EncoderInv, DecoderInv, DeliveredInOrder,
                CounterAfter
  <2> QED
    BY <2>1, <2>2 DEF IInv
<1> QED
  BY <1>1, <1>2, <1>3, <1>4, <1>5, <1>6 DEF Next

-----------------------------------------------------------------------------
\* The types are right whatever the network does, ...
THEOREM TypeCorrect == Spec => []TypeOK
<1>1. IInv => TypeOK
  BY DEF IInv
<1> QED
  BY InitIInv, NextIInv, <1>1, PTL DEF Spec

\* ... no nonce is used for two frames, although the counter wraps, ...
THEOREM NonceAlwaysUnique == Spec => []NonceUnique
<1>1. IInv => NonceUnique
  BY DEF IInv, EncoderInv, NonceUnique
<1> QED
  BY InitIInv, NextIInv, <1>1, PTL DEF Spec

\* ... and a network that replaces, drops and replays what it likes cannot
\* make the decoder deliver anything but the frames sealed, in their order.
THEOREM AlwaysDeliveredInOrder == Spec => []DeliveredInOrder
<1>1. IInv => DeliveredInOrder
  BY DEF IInv, DecoderInv
<1> QED
  BY InitIInv, NextIInv, <1>1, PTL DEF Spec
-----------------------------------------------------------------------------
(***************************************************************************)
(* The refinement of AuthenticatedStream.  That a stream nobody disturbs   *)
(* never breaks needs the shape of what is in flight: the units of the     *)
(* frames not yet decoded, each frame whole but for the first one.         *)
(***************************************************************************)
SizeOf(fr, f) == LengthLength + fr[f].length

\* s holds the units from number p of frame f to the end of the last frame.
Unbroken(fr, s, f, p) ==
  /\ s = <<>> => f = Len(fr) + 1 /\ p = 1
  /\ s # <<>> => s[1] = [frame |-> f, pos |-> p]
  /\ s # <<>> => s[Len(s)] = [frame |-> Len(fr), pos |-> SizeOf(fr, Len(fr))]
  /\ \A i \in 1 .. Len(s) :
       /\ s[i].frame \in 1 .. Len(fr)
       /\ s[i].pos \in 1 .. SizeOf(fr, s[i].frame)
  /\ \A i, j \in 1 .. Len(s) :
       i <= j /\ s[i].pos + (j - i) <= SizeOf(fr, s[i].frame)
         => s[j] = [frame |-> s[i].frame, pos |-> s[i].pos + (j - i)]
  /\ \A i \in 1 .. (Len(s) - 1) :
       s[i].pos = SizeOf(fr, s[i].frame)
         => s[i + 1] = [frame |-> s[i].frame + 1, pos |-> 1]

\* What the units of a frame are, as a sequence.
LEMMA UnitsProperties ==
  ASSUME NEW f \in Nat, NEW from \in Nat \ {0}, NEW to \in Nat, from <= to + 1
  PROVE  /\ Units(f, from, to) \in Seq(Unit)
         /\ Len(Units(f, from, to)) = to - from + 1
         /\ \A i \in 1 .. (to - from + 1) :
              Units(f, from, to)[i] = [frame |-> f, pos |-> from + i - 1]
<1>1. Units(f, from, to) \in Seq(Unit)
  BY UnitsType
<1>2. /\ DOMAIN Units(f, from, to) = 1 .. (to - from + 1)
      /\ \A i \in 1 .. (to - from + 1) :
           Units(f, from, to)[i] = [frame |-> f, pos |-> from + i - 1]
  BY DEF Units
<1>3. DOMAIN Units(f, from, to) = 1 .. Len(Units(f, from, to))
      /\ Len(Units(f, from, to)) \in Nat
  BY <1>1, LenProperties
<1> HIDE DEF Units
<1>4. Len(Units(f, from, to)) = to - from + 1
  BY <1>2, <1>3
<1> QED
  BY <1>1, <1>2, <1>4

\* Every frame has at least one unit of box.
LEMMA SizeType ==
  ASSUME NEW fr \in Seq(Frame), NEW f \in 1 .. Len(fr)
  PROVE  /\ fr[f].length \in Nat \ {0}
         /\ SizeOf(fr, f) \in Nat
         /\ SizeOf(fr, f) = 2 + fr[f].length
<1>1. fr[f] \in Frame
  BY ElementOfSeq
<1> QED
  BY <1>1, FramingAssumption DEF Frame, Lengths, SizeOf, LengthLength

\* Taking units of one frame from the front leaves the rest unbroken.
LEMMA TakeFromFront ==
  ASSUME NEW fr \in Seq(Frame), NEW s \in Seq(Unit), NEW f \in Nat, NEW p \in Nat \ {0},
         NEW k \in 1 .. Len(s), Unbroken(fr, s, f, p), p + k <= SizeOf(fr, f) + 1
  PROVE  /\ f \in 1 .. Len(fr)
         /\ SubSeq(s, 1, k) = Units(f, p, p + k - 1)
         /\ p + k <= SizeOf(fr, f) =>
              Unbroken(fr, SubSeq(s, k + 1, Len(s)), f, p + k)
         /\ p + k = SizeOf(fr, f) + 1 =>
              Unbroken(fr, SubSeq(s, k + 1, Len(s)), f + 1, 1)
<1> DEFINE n == Len(s)
           u == SubSeq(s, k + 1, n)
           head == SubSeq(s, 1, k)
<1>1. /\ n \in Nat /\ Len(fr) \in Nat /\ k \in Nat \ {0} /\ k <= n
      /\ \A i \in 1 .. n : s[i] \in Unit
  BY LenProperties, ElementOfSeq
<1>2. /\ head \in Seq(Unit) /\ Len(head) = k
      /\ \A i \in 1 .. k : head[i] = s[i]
  <2>1. 1 \in Int /\ k \in Int /\ \A i \in 1 .. k : s[i] \in Unit
    BY <1>1
  <2>2. /\ SubSeq(s, 1, k) \in Seq(Unit)
        /\ Len(SubSeq(s, 1, k)) = IF 1 <= k THEN k - 1 + 1 ELSE 0
        /\ \A i \in 1 .. k - 1 + 1 : SubSeq(s, 1, k)[i] = s[1 + i - 1]
    BY <2>1, SubSeqProperties
  <2> HIDE DEF head
  <2> QED
    BY <1>1, <2>2 DEF head
<1>3. /\ u \in Seq(Unit) /\ Len(u) = n - k
      /\ \A i \in 1 .. (n - k) : u[i] = s[k + i]
  <2>1. k + 1 \in Int /\ n \in Int /\ \A i \in k + 1 .. n : s[i] \in Unit
    BY <1>1
  <2>2. /\ SubSeq(s, k + 1, n) \in Seq(Unit)
        /\ Len(SubSeq(s, k + 1, n)) = IF k + 1 <= n THEN n - (k + 1) + 1 ELSE 0
        /\ \A i \in 1 .. n - (k + 1) + 1 : SubSeq(s, k + 1, n)[i] = s[k + 1 + i - 1]
    BY <2>1, SubSeqProperties
  <2>3. k + 1 <= n \/ k = n
    BY <1>1
  <2>4. n - (k + 1) + 1 = n - k /\ \A i \in 1 .. (n - k) : k + 1 + i - 1 = k + i
    BY <1>1
  <2>5. u \in Seq(Unit)
    BY <2>2
  <2> HIDE DEF n
  <2>6. Len(u) = n - k
    BY <1>1, <2>2, <2>3, <2>4
  <2>7. ASSUME NEW i \in 1 .. (n - k)
        PROVE  u[i] = s[k + i]
    BY <1>1, <2>2, <2>4
  <2> QED
    BY <2>5, <2>6, <2>7
<1>4. s # <<>>
  BY <1>1, EmptySeq
<1>5. /\ s[1] = [frame |-> f, pos |-> p]
      /\ s[n] = [frame |-> Len(fr), pos |-> SizeOf(fr, Len(fr))]
      /\ \A i \in 1 .. n : /\ s[i].frame \in 1 .. Len(fr)
                           /\ s[i].pos \in 1 .. SizeOf(fr, s[i].frame)
      /\ \A i, j \in 1 .. n :
           i <= j /\ s[i].pos + (j - i) <= SizeOf(fr, s[i].frame)
             => s[j] = [frame |-> s[i].frame, pos |-> s[i].pos + (j - i)]
      /\ \A i \in 1 .. (n - 1) :
           s[i].pos = SizeOf(fr, s[i].frame)
             => s[i + 1] = [frame |-> s[i].frame + 1, pos |-> 1]
  BY <1>4 DEF Unbroken
<1> HIDE DEF u, head, n
<1>6. f \in 1 .. Len(fr)
  BY <1>1, <1>5
<1>7. SizeOf(fr, f) \in Nat
  BY <1>6, SizeType
<1>8. ASSUME NEW j \in 1 .. n, p + j <= SizeOf(fr, f) + 1
      PROVE  s[j] = [frame |-> f, pos |-> p + j - 1]
  <2>1. 1 \in 1 .. n /\ 1 <= j /\ s[1].pos + (j - 1) <= SizeOf(fr, s[1].frame)
    BY <1>1, <1>5, <1>7, <1>8
  <2>2. s[j] = [frame |-> s[1].frame, pos |-> s[1].pos + (j - 1)]
    BY <2>1, <1>5
  <2>3. p + (j - 1) = p + j - 1
    BY <1>1
  <2> QED
    BY <2>2, <2>3, <1>5
<1>9. head = Units(f, p, p + k - 1)
  <2>1. p + k - 1 \in Nat /\ p <= p + k - 1 + 1 /\ (p + k - 1) - p + 1 = k
    BY <1>1
  <2>2. /\ Units(f, p, p + k - 1) \in Seq(Unit)
        /\ Len(Units(f, p, p + k - 1)) = k
        /\ \A i \in 1 .. k : Units(f, p, p + k - 1)[i] = [frame |-> f, pos |-> p + i - 1]
    BY <2>1, UnitsProperties
  <2>3. \A i \in 1 .. k : i \in 1 .. n /\ p + i <= SizeOf(fr, f) + 1
    BY <1>1, <1>7
  <2>4. \A i \in 1 .. k : head[i] = [frame |-> f, pos |-> p + i - 1]
    BY <2>3, <1>2, <1>8
  <2> QED
    BY <2>2, <2>4, <1>2, SeqEqual
\* The parts that do not depend on where the rest begins.
<1>10. /\ \A i \in 1 .. Len(u) : k + i \in 1 .. n
       /\ \A i \in 1 .. (Len(u) - 1) : k + i \in 1 .. (n - 1)
       /\ u # <<>> => k + 1 \in 1 .. n /\ Len(u) \in 1 .. Len(u) /\ k + Len(u) = n
       /\ u = <<>> => k = n
  BY <1>1, <1>3, EmptySeq
<1>11. /\ u # <<>> => u[Len(u)] = [frame |-> Len(fr), pos |-> SizeOf(fr, Len(fr))]
       /\ \A i \in 1 .. Len(u) : /\ u[i].frame \in 1 .. Len(fr)
                                 /\ u[i].pos \in 1 .. SizeOf(fr, u[i].frame)
  BY <1>3, <1>5, <1>10
<1>12. \A i, j \in 1 .. Len(u) :
         i <= j /\ u[i].pos + (j - i) <= SizeOf(fr, u[i].frame)
           => u[j] = [frame |-> u[i].frame, pos |-> u[i].pos + (j - i)]
  <2> SUFFICES ASSUME NEW i \in 1 .. Len(u), NEW j \in 1 .. Len(u), i <= j,
                      u[i].pos + (j - i) <= SizeOf(fr, u[i].frame)
               PROVE  u[j] = [frame |-> u[i].frame, pos |-> u[i].pos + (j - i)]
    OBVIOUS
  <2>1. k + i <= k + j /\ (k + j) - (k + i) = j - i
    BY <1>1
  <2>2. k + i \in 1 .. n /\ k + j \in 1 .. n /\ u[i] = s[k + i] /\ u[j] = s[k + j]
    BY <1>3, <1>10
  <2> QED
    BY <2>1, <2>2, <1>5
<1>13. \A i \in 1 .. (Len(u) - 1) :
         u[i].pos = SizeOf(fr, u[i].frame)
           => u[i + 1] = [frame |-> u[i].frame + 1, pos |-> 1]
  <2> SUFFICES ASSUME NEW i \in 1 .. (Len(u) - 1), u[i].pos = SizeOf(fr, u[i].frame)
               PROVE  u[i + 1] = [frame |-> u[i].frame + 1, pos |-> 1]
    OBVIOUS
  <2>1. k + i \in 1 .. (n - 1) /\ i \in 1 .. (n - k) /\ i + 1 \in 1 .. (n - k)
    <3>1. Len(u) - 1 = (n - k) - 1
      BY <1>3
    <3>2. i \in 1 .. ((n - k) - 1)
      BY <3>1
    <3> QED
      BY <3>2, <1>1
  <2>2. u[i] = s[k + i] /\ u[i + 1] = s[(k + i) + 1]
    <3>1. k + (i + 1) = (k + i) + 1
      BY <1>1
    <3> QED
      BY <2>1, <3>1, <1>3
  <2> QED
    BY <2>1, <2>2, <1>5
<1>14. ASSUME p + k <= SizeOf(fr, f)
       PROVE  Unbroken(fr, u, f, p + k)
  <2>1. k # n
    <3> SUFFICES ASSUME k = n
                 PROVE  FALSE
      OBVIOUS
    <3>1. n \in 1 .. n /\ p + n <= SizeOf(fr, f) + 1
      BY <1>1, <1>7, <1>14
    <3>2. s[n] = [frame |-> f, pos |-> p + n - 1]
      BY <3>1, <1>8
    <3>3. f = Len(fr) /\ p + n - 1 = SizeOf(fr, Len(fr))
      BY <3>2, <1>5
    <3> QED
      BY <3>3, <1>1, <1>7, <1>14
  <2>2. u # <<>> /\ u[1] = s[k + 1]
    BY <2>1, <1>1, <1>3, EmptySeq
  <2>3. s[k + 1] = [frame |-> f, pos |-> p + (k + 1) - 1]
    BY <2>1, <1>1, <1>7, <1>8, <1>14
  <2>4. p + (k + 1) - 1 = p + k
    BY <1>1
  <2> QED
    BY <2>2, <2>3, <2>4, <1>11, <1>12, <1>13 DEF Unbroken
<1>15. ASSUME p + k = SizeOf(fr, f) + 1
       PROVE  Unbroken(fr, u, f + 1, 1)
  <2>1. s[k] = [frame |-> f, pos |-> SizeOf(fr, f)]
    <3>1. k \in 1 .. n /\ p + k <= SizeOf(fr, f) + 1 /\ p + k - 1 = SizeOf(fr, f)
      <4> DEFINE z == SizeOf(fr, f)
      <4>1. z \in Nat /\ p + k = z + 1
        BY <1>7, <1>15
      <4> HIDE DEF z
      <4>2. p + k <= z + 1 /\ p + k - 1 = z
        BY <4>1, <1>1
      <4> QED
        BY <4>2, <1>1 DEF z
    <3> QED
      BY <3>1, <1>8
  <2>2. CASE u = <<>>
    <3>1. Len(u) = 0 /\ f = Len(fr)
      BY <2>1, <2>2, <1>5, <1>10, EmptySeq
    <3> QED
      BY <3>1, <2>2, <1>11, <1>12, <1>13 DEF Unbroken
  <2>3. CASE u # <<>>
    <3>1. k \in 1 .. (n - 1) /\ u[1] = s[k + 1]
      BY <2>3, <1>1, <1>3, <1>10
    <3>2. s[k + 1] = [frame |-> f + 1, pos |-> 1]
      BY <3>1, <2>1, <1>5, SMTT(60)
    <3> QED
      BY <3>1, <3>2, <2>3, <1>11, <1>12, <1>13 DEF Unbroken
  <2> QED
    BY <2>2, <2>3
<1> QED
  BY <1>6, <1>9, <1>14, <1>15 DEF u, head, n


\* Adding the units of the next frame at the back keeps it unbroken.
LEMMA AddToBack ==
  ASSUME NEW fr \in Seq(Frame), NEW x \in Frame, NEW s \in Seq(Unit), NEW f \in Nat,
         NEW p \in Nat, Unbroken(fr, s, f, p)
  PROVE  Unbroken(Append(fr, x), s \o Units(Len(fr) + 1, 1, LengthLength + x.length), f, p)
<1> DEFINE N == Len(fr)
           n == Len(s)
           z == LengthLength + x.length
           fr2 == Append(fr, x)
           w == Units(N + 1, 1, z)
           c == s \o w
<1>1. /\ n \in Nat /\ N \in Nat /\ z \in Nat /\ z >= 1
      /\ \A i \in 1 .. n : s[i] \in Unit
  BY LenProperties, ElementOfSeq, FramingAssumption DEF Frame, Lengths, LengthLength
<1>2. /\ Len(fr2) = N + 1
      /\ \A g \in 1 .. N : SizeOf(fr2, g) = SizeOf(fr, g) /\ SizeOf(fr, g) \in Nat
      /\ SizeOf(fr2, N + 1) = z
  <2>1. /\ Len(fr2) = N + 1
        /\ \A g \in 1 .. N : fr2[g] = fr[g]
        /\ fr2[N + 1] = x
    BY AppendProperties
  <2>2. \A g \in 1 .. N : SizeOf(fr, g) \in Nat
    BY SizeType
  <2> HIDE DEF fr2, N
  <2> QED
    BY <2>1, <2>2 DEF SizeOf
<1> HIDE DEF z, fr2
<1>3. w \in Seq(Unit) /\ Len(w) = z /\ \A i \in 1 .. z : w[i] = [frame |-> N + 1, pos |-> i]
  <2> HIDE DEF N
  <2>1. /\ Units(N + 1, 1, z) \in Seq(Unit)
        /\ Len(Units(N + 1, 1, z)) = z - 1 + 1
        /\ \A i \in 1 .. (z - 1 + 1) :
             Units(N + 1, 1, z)[i] = [frame |-> N + 1, pos |-> 1 + i - 1]
    <3>1. N + 1 \in Nat /\ 1 \in Nat \ {0} /\ z \in Nat /\ 1 <= z + 1
      BY <1>1
    <3> QED
      BY <3>1, UnitsProperties, Zenon
  <2>2. z - 1 + 1 = z /\ \A i \in 1 .. z : 1 + i - 1 = i
    BY <1>1
  <2> QED
    BY <2>1, <2>2
<1> HIDE DEF w
<1>4. /\ c \in Seq(Unit) /\ Len(c) = n + z
      /\ \A i \in 1 .. n : c[i] = s[i]
      /\ \A i \in n + 1 .. n + z : c[i] = [frame |-> N + 1, pos |-> i - n]
  <2>1. /\ c \in Seq(Unit) /\ Len(c) = n + Len(w)
        /\ \A i \in 1 .. n + Len(w) : c[i] = IF i <= n THEN s[i] ELSE w[i - n]
    BY <1>3, ConcatProperties
  <2> HIDE DEF c, n, N
  <2>2. \A i \in n + 1 .. n + z : i \in 1 .. n + z /\ ~(i <= n) /\ i - n \in 1 .. z
    BY <1>1
  <2>3. \A i \in 1 .. n : i \in 1 .. n + z /\ i <= n
    BY <1>1
  <2> QED
    BY <2>1, <2>2, <2>3, <1>3
<1>5. /\ s = <<>> => f = N + 1 /\ p = 1
      /\ s # <<>> => s[1] = [frame |-> f, pos |-> p]
      /\ s # <<>> => s[n] = [frame |-> N, pos |-> SizeOf(fr, N)]
      /\ \A i \in 1 .. n : /\ s[i].frame \in 1 .. N
                           /\ s[i].pos \in 1 .. SizeOf(fr, s[i].frame)
      /\ \A i, j \in 1 .. n :
           i <= j /\ s[i].pos + (j - i) <= SizeOf(fr, s[i].frame)
             => s[j] = [frame |-> s[i].frame, pos |-> s[i].pos + (j - i)]
      /\ \A i \in 1 .. (n - 1) :
           s[i].pos = SizeOf(fr, s[i].frame)
             => s[i + 1] = [frame |-> s[i].frame + 1, pos |-> 1]
  BY DEF Unbroken
<1>6. s # <<>> => n \in 1 .. n /\ 1 \in 1 .. n
  BY <1>1, EmptySeq
<1>7. s = <<>> => n = 0
  BY EmptySeq
<1> HIDE DEF c, n, N
<1>8. c # <<>> /\ c[1] = [frame |-> f, pos |-> p]
  <2>1. Len(c) # 0 /\ c # <<>>
    BY <1>1, <1>4, EmptySeq
  <2>2. CASE s = <<>>
    <3>1. 1 \in n + 1 .. n + z /\ 1 - n = 1
      BY <2>2, <1>1, <1>7
    <3> QED
      BY <2>1, <2>2, <3>1, <1>4, <1>5
  <2>3. CASE s # <<>>
    BY <2>1, <2>3, <1>4, <1>5, <1>6
  <2> QED
    BY <2>2, <2>3
<1>9. c[Len(c)] = [frame |-> Len(fr2), pos |-> SizeOf(fr2, Len(fr2))]
  <2>1. n + z \in n + 1 .. n + z /\ (n + z) - n = z
    BY <1>1
  <2> QED
    BY <2>1, <1>2, <1>4
<1>10. ASSUME NEW i \in n + 1 .. n + z
       PROVE  /\ c[i] = [frame |-> N + 1, pos |-> i - n]
              /\ c[i].frame = N + 1
              /\ c[i].pos = i - n
  <2>1. c[i] = [frame |-> N + 1, pos |-> i - n]
    BY <1>4
  <2> QED
    BY <2>1
<1>11. \A i \in 1 .. Len(c) : i \in 1 .. n \/ i \in n + 1 .. n + z
  BY <1>1, <1>4
<1>12. ASSUME NEW i \in 1 .. Len(c)
       PROVE  /\ c[i].frame \in 1 .. Len(fr2)
              /\ c[i].pos \in 1 .. SizeOf(fr2, c[i].frame)
  <2>1. CASE i \in 1 .. n
    <3>1. c[i].frame \in 1 .. N /\ c[i].pos \in 1 .. SizeOf(fr, c[i].frame)
      BY <2>1, <1>4, <1>5
    <3> QED
      BY <3>1, <1>1, <1>2
  <2>2. CASE i \in n + 1 .. n + z
    <3>1. c[i].frame = N + 1 /\ c[i].pos = i - n
      BY <2>2, <1>10
    <3> QED
      BY <3>1, <2>2, <1>1, <1>2
  <2> QED
    BY <2>1, <2>2, <1>11
<1>13. ASSUME NEW i \in 1 .. Len(c), NEW j \in 1 .. Len(c), i <= j,
              c[i].pos + (j - i) <= SizeOf(fr2, c[i].frame)
       PROVE  c[j] = [frame |-> c[i].frame, pos |-> c[i].pos + (j - i)]
  <2>1. CASE i \in 1 .. n /\ j \in 1 .. n
    <3>1. SizeOf(fr2, s[i].frame) = SizeOf(fr, s[i].frame)
      BY <2>1, <1>2, <1>5
    <3> QED
      BY <2>1, <3>1, <1>4, <1>5, <1>13
  <2>2. CASE i \in n + 1 .. n + z /\ j \in n + 1 .. n + z
    <3>1. i - n + (j - i) = j - n
      BY <2>2, <1>1
    <3>2. c[i].frame = N + 1 /\ c[i].pos = i - n /\ c[j] = [frame |-> N + 1, pos |-> j - n]
      BY <2>2, <1>10
    <3> QED
      BY <3>1, <3>2
  <2>3. CASE i \in 1 .. n /\ j \in n + 1 .. n + z
    <3>1. n \in 1 .. n /\ i <= n /\ s # <<>>
      BY <2>3, <1>1, <1>7
    <3>2. /\ s[i].frame \in 1 .. N /\ s[i].pos \in Nat
          /\ SizeOf(fr2, s[i].frame) = SizeOf(fr, s[i].frame)
          /\ SizeOf(fr, s[i].frame) \in Nat
      BY <2>3, <1>2, <1>5
    <3>3. s[i].pos + (j - i) <= SizeOf(fr, s[i].frame)
      BY <2>3, <3>2, <1>4, <1>13
    <3>4. s[i].pos + (n - i) < s[i].pos + (j - i)
      <4>1. n < j /\ i \in Nat /\ j \in Nat
        BY <2>3, <1>1
      <4>2. \A a, b, d, e \in Int : b < d => a + (b - e) < a + (d - e)
        OBVIOUS
      <4>3. s[i].pos \in Int /\ n \in Int /\ j \in Int /\ i \in Int
        BY <4>1, <3>2, <1>1
      <4> QED
        BY <4>1, <4>2, <4>3
    <3>5. s[i].pos + (n - i) <= SizeOf(fr, s[i].frame)
      BY <2>3, <3>2, <3>3, <3>4, <1>1
    <3>6. s[n] = [frame |-> s[i].frame, pos |-> s[i].pos + (n - i)]
      BY <2>3, <3>1, <3>5, <1>5
    <3>7. s[i].frame = N /\ s[i].pos + (n - i) = SizeOf(fr, s[i].frame)
      BY <3>1, <3>6, <1>5
    <3>8. \A a, b, m \in Int : ~(a < b /\ b <= m /\ a = m)
      OBVIOUS
    <3>9. s[i].pos + (n - i) \in Int /\ s[i].pos + (j - i) \in Int
      BY <2>3, <3>2, <1>1
    <3>10. SizeOf(fr, s[i].frame) \in Int
      BY <3>2
    <3> QED
      BY <3>3, <3>4, <3>7, <3>8, <3>9, <3>10
  <2>4. ~(i \in n + 1 .. n + z /\ j \in 1 .. n)
    BY <1>1, <1>13
  <2> QED
    BY <2>1, <2>2, <2>3, <2>4, <1>11
<1>14. ASSUME NEW i \in 1 .. (Len(c) - 1), c[i].pos = SizeOf(fr2, c[i].frame)
       PROVE  c[i + 1] = [frame |-> c[i].frame + 1, pos |-> 1]
  <2>1. i \in Nat /\ 1 <= i /\ i < n + z
    BY <1>1, <1>4
  <2>2. CASE i < n
    <3>1. i \in 1 .. (n - 1) /\ i \in 1 .. n /\ i + 1 \in 1 .. n
      BY <2>1, <2>2, <1>1
    <3>2. s[i].pos = SizeOf(fr, s[i].frame)
      BY <3>1, <1>2, <1>4, <1>5, <1>14
    <3> QED
      BY <3>1, <3>2, <1>4, <1>5
  <2>3. CASE i = n
    <3>1. s # <<>> /\ n \in 1 .. n /\ n + 1 \in n + 1 .. n + z /\ (n + 1) - n = 1
      BY <2>1, <2>3, <1>1, <1>7
    <3> QED
      BY <2>3, <3>1, <1>4, <1>5
  <2>4. CASE i > n
    <3>1. i \in n + 1 .. n + z
      BY <2>1, <2>4, <1>1
    <3>2. i - n = z
      BY <3>1, <1>2, <1>14, <1>10
    <3> QED
      BY <3>2, <2>1, <1>1
  <2> QED
    BY <2>1, <2>2, <2>3, <2>4, <1>1
<1>15. Unbroken(fr2, c, f, p)
  BY <1>8, <1>9, <1>12, <1>13, <1>14 DEF Unbroken
<1> QED
  BY <1>15 DEF c, w, fr2, z, N


-----------------------------------------------------------------------------
\* Frame number i is masked with the block that i - 1 draws came before.
BlockInv ==
  /\ encBlock = Len(frames)
  /\ \A i \in 1 .. Len(frames) : frames[i].block = i - 1

\* A stream nobody disturbed: the decoder stands at the boundary of a length
\* and a box of the very next frame, and what follows is unbroken.
Undisturbed ==
  /\ decErr = "none"
  /\ nextLengthInvalid = FALSE
  /\ decBlock = Len(delivered) + (IF nextLength = 0 THEN 0 ELSE 1)
  /\ nextLength # 0 => Len(delivered) < Len(frames)
  /\ nextLength # 0 => nextLength = frames[Len(delivered) + 1].length
  /\ Unbroken(frames, rx \o wire, Len(delivered) + 1,
              IF nextLength = 0 THEN 1 ELSE LengthLength + 1)

StreamInv ==
  /\ IInv
  /\ BlockInv
  /\ tampered = 0 => Undisturbed

LEMMA FlightAssociative ==
  \A a, b, c \in Seq(Unit) : (a \o b) \o c = a \o (b \o c)
BY ConcatAssociative

LEMMA InitStreamInv == Init => StreamInv
<1> SUFFICES ASSUME Init
             PROVE  StreamInv
  OBVIOUS
<1>1. IInv
  BY InitIInv
<1>2. frames = <<>> /\ delivered = <<>> /\ Len(frames) = 0 /\ Len(delivered) = 0
  BY EmptySeq DEF Init
<1>3. BlockInv
  BY <1>2 DEF Init, BlockInv
<1>4. rx \o wire = <<>> /\ Len(rx \o wire) = 0
  BY EmptySeq, ConcatEmptySeq DEF Init
<1>5. Unbroken(frames, rx \o wire, 1, 1)
  BY <1>2, <1>4 DEF Unbroken
<1>6. Undisturbed
  BY <1>2, <1>5 DEF Init, Undisturbed
<1> QED
  BY <1>1, <1>3, <1>6 DEF StreamInv

\* Encoding adds a frame at the back.
LEMMA EncodeStreamInv ==
  ASSUME StreamInv, NEW n \in Lengths, Encode(n)
  PROVE  StreamInv'
<1> DEFINE fr == [nonce |-> encCounter, block |-> encBlock, length |-> n]
           u == Units(Len(frames) + 1, 1, LengthLength + n)
<1>1. /\ frames \in Seq(Frame) /\ Len(frames) \in Nat
      /\ delivered \in Seq(Nat) /\ Len(delivered) \in Nat
      /\ rx \in Seq(Unit) /\ wire \in Seq(Unit)
      /\ fr \in Frame /\ fr.length = n /\ fr.block = encBlock
  BY LenProperties DEF StreamInv, IInv, TypeOK, Frame
<1>2. /\ frames' = Append(frames, fr) /\ wire' = wire \o u /\ encBlock' = encBlock + 1
      /\ UNCHANGED <<rx, decBlock, nextLength, nextLengthInvalid, decErr, delivered, tampered>>
  BY DEF Encode, decVars
<1> HIDE DEF fr
<1>3. /\ Len(frames') = Len(frames) + 1
      /\ \A i \in 1 .. Len(frames) : frames'[i] = frames[i]
      /\ frames'[Len(frames) + 1] = fr
  BY <1>1, <1>2, AppendProperties
<1>4. IInv'
  BY EncodeIInv DEF StreamInv
<1>5. BlockInv'
  <2>1. \A i \in 1 .. Len(frames') : i \in 1 .. Len(frames) \/ i = Len(frames) + 1
    BY <1>1, <1>3
  <2>2. encBlock = Len(frames) /\ \A i \in 1 .. Len(frames) : frames[i].block = i - 1
    BY DEF StreamInv, BlockInv
  <2>3. \A i \in 1 .. Len(frames') : frames'[i].block = i - 1
    <3> SUFFICES ASSUME NEW i \in 1 .. Len(frames')
                 PROVE  frames'[i].block = i - 1
      OBVIOUS
    <3>1. CASE i \in 1 .. Len(frames)
      BY <3>1, <2>2, <1>3
    <3>2. CASE i = Len(frames) + 1
      <4>1. frames'[i].block = Len(frames)
        BY <3>2, <2>2, <1>1, <1>3
      <4> QED
        BY <3>2, <4>1, <1>1
    <3> QED
      BY <3>1, <3>2, <2>1
  <2> QED
    BY <2>2, <2>3, <1>2, <1>3 DEF BlockInv
<1>6. ASSUME tampered' = 0
      PROVE  Undisturbed'
  <2> DEFINE p == IF nextLength = 0 THEN 1 ELSE LengthLength + 1
  <2>1. Undisturbed
    BY <1>2, <1>6 DEF StreamInv
  <2>2. u \in Seq(Unit)
    BY <1>1, UnitsType, FramingAssumption DEF LengthLength, Lengths
  <2>3. rx' \o wire' = (rx \o wire) \o u
    <3>1. rx' \o wire' = rx \o (wire \o u)
      BY <1>2, Zenon
    <3> HIDE DEF u
    <3>2. (rx \o wire) \o u = rx \o (wire \o u)
      BY <2>2, <1>1, FlightAssociative, Zenon
    <3> QED
      BY <3>1, <3>2, Zenon
  <2>4. rx \o wire \in Seq(Unit) /\ Len(delivered) + 1 \in Nat /\ p \in Nat
    BY <1>1, ConcatProperties DEF LengthLength
  <2>5. Unbroken(frames, rx \o wire, Len(delivered) + 1, p)
    BY <2>1 DEF Undisturbed
  <2>6. Unbroken(frames', rx' \o wire', Len(delivered) + 1, p)
    BY <2>3, <2>4, <2>5, <1>1, <1>2, AddToBack
  <2>7. Len(delivered) < Len(frames) => Len(delivered) + 1 \in 1 .. Len(frames)
    BY <1>1
  <2>8. /\ nextLength' # 0 => Len(delivered') < Len(frames')
        /\ nextLength' # 0 => nextLength' = frames'[Len(delivered') + 1].length
    BY <2>1, <2>7, <1>1, <1>2, <1>3 DEF Undisturbed
  <2> QED
    BY <2>1, <2>6, <2>8, <1>2 DEF Undisturbed
<1> QED
  BY <1>4, <1>5, <1>6 DEF StreamInv

\* Receiving moves units from the wire to the decoder.
LEMMA ReceiveStreamInv ==
  ASSUME StreamInv, NEW k \in 1 .. Len(wire), Receive(k)
  PROVE  StreamInv'
<1>1. rx \in Seq(Unit) /\ wire \in Seq(Unit) /\ Len(wire) \in Nat
  BY LenProperties DEF StreamInv, IInv, TypeOK
<1>2. rx' \o wire' = rx \o wire
  <2>1. SubSeq(wire, 1, k) \in Seq(Unit) /\ SubSeq(wire, k + 1, Len(wire)) \in Seq(Unit)
    BY <1>1, SubSeqType
  <2>2. SubSeq(wire, 1, k) \o SubSeq(wire, k + 1, Len(wire)) = SubSeq(wire, 1, Len(wire))
    BY <1>1, ConcatAdjacentSubSeq
  <2>3. SubSeq(wire, 1, Len(wire)) = wire
    BY <1>1, SubSeqFull
  <2>4. rx' \o wire' = (rx \o SubSeq(wire, 1, k)) \o SubSeq(wire, k + 1, Len(wire))
    BY DEF Receive
  <2>5. rx' \o wire' = rx \o (SubSeq(wire, 1, k) \o SubSeq(wire, k + 1, Len(wire)))
    BY <1>1, <2>1, <2>4, FlightAssociative, Zenon
  <2> QED
    BY <2>2, <2>3, <2>5, Zenon
<1>3. UNCHANGED <<encBlock, frames, decBlock, nextLength, nextLengthInvalid, decErr, delivered, tampered>>
  BY DEF Receive, encVars, decVars
<1>4. IInv'
  BY ReceiveIInv DEF StreamInv
<1>5. BlockInv' /\ (tampered' = 0 => Undisturbed')
  BY <1>2, <1>3 DEF StreamInv, BlockInv, Undisturbed
<1> QED
  BY <1>4, <1>5 DEF StreamInv

LEMMA TamperStreamInv ==
  ASSUME StreamInv, Tamper
  PROVE  StreamInv'
<1>1. IInv'
  BY TamperIInv DEF StreamInv
<1>2. BlockInv'
  BY DEF Tamper, encVars, StreamInv, BlockInv
<1>3. tampered' # 0
  BY DEF Tamper, StreamInv, IInv, TypeOK
<1> QED
  BY <1>1, <1>2, <1>3 DEF StreamInv

\* Decoding takes units from the front of what is in flight.
LEMMA FrontOfFlight ==
  ASSUME NEW r \in Seq(Unit), NEW w \in Seq(Unit), NEW k \in 1 .. Len(r)
  PROVE  /\ r \o w \in Seq(Unit)
         /\ k \in 1 .. Len(r \o w)
         /\ SubSeq(r, 1, k) = SubSeq(r \o w, 1, k)
         /\ SubSeq(r, k + 1, Len(r)) \o w = SubSeq(r \o w, k + 1, Len(r \o w))
<1> DEFINE s == r \o w
           u == SubSeq(r, k + 1, Len(r))
           v == SubSeq(s, k + 1, Len(s))
<1>1. /\ Len(r) \in Nat /\ Len(w) \in Nat
      /\ s \in Seq(Unit) /\ Len(s) = Len(r) + Len(w)
      /\ \A i \in 1 .. Len(r) + Len(w) : s[i] = IF i <= Len(r) THEN r[i] ELSE w[i - Len(r)]
  BY LenProperties, ConcatProperties
<1> HIDE DEF s
<1>2. k \in 1 .. Len(s)
  BY <1>1
<1>3. SubSeq(r, 1, k) = SubSeq(s, 1, k)
  <2>1. 1 \in 1 .. Len(r)
    BY <1>1
  <2> QED
    BY <2>1, SubSeqOfConcat1 DEF s
<1>4. /\ u \in Seq(Unit) /\ Len(u) = Len(r) - k
      /\ \A i \in 1 .. (Len(r) - k) : u[i] = r[k + i]
  <2>1. k + 1 \in Int /\ Len(r) \in Int /\ \A i \in k + 1 .. Len(r) : r[i] \in Unit
    BY <1>1, ElementOfSeq
  <2>2. /\ u \in Seq(Unit)
        /\ Len(u) = IF k + 1 <= Len(r) THEN Len(r) - (k + 1) + 1 ELSE 0
        /\ \A i \in 1 .. Len(r) - (k + 1) + 1 : u[i] = r[k + 1 + i - 1]
    BY <2>1, SubSeqProperties
  <2> HIDE DEF u
  <2>3. Len(u) = Len(r) - k
    BY <2>2, <1>1
  <2>4. ASSUME NEW i \in 1 .. (Len(r) - k)
        PROVE  u[i] = r[k + i]
    <3>1. i \in 1 .. Len(r) - (k + 1) + 1 /\ k + 1 + i - 1 = k + i
      BY <1>1
    <3> QED
      BY <3>1, <2>2
  <2> QED
    BY <2>2, <2>3, <2>4
<1>5. /\ v \in Seq(Unit) /\ Len(v) = Len(s) - k
      /\ \A i \in 1 .. (Len(s) - k) : v[i] = s[k + i]
  <2>1. k + 1 \in Int /\ Len(s) \in Int /\ \A i \in k + 1 .. Len(s) : s[i] \in Unit
    BY <1>1, ElementOfSeq
  <2>2. /\ v \in Seq(Unit)
        /\ Len(v) = IF k + 1 <= Len(s) THEN Len(s) - (k + 1) + 1 ELSE 0
        /\ \A i \in 1 .. Len(s) - (k + 1) + 1 : v[i] = s[k + 1 + i - 1]
    BY <2>1, SubSeqProperties
  <2> HIDE DEF v
  <2>3. Len(v) = Len(s) - k
    BY <2>2, <1>1, <1>2
  <2>4. ASSUME NEW i \in 1 .. (Len(s) - k)
        PROVE  v[i] = s[k + i]
    <3>1. i \in 1 .. Len(s) - (k + 1) + 1 /\ k + 1 + i - 1 = k + i
      BY <1>1
    <3> QED
      BY <3>1, <2>2
  <2> QED
    BY <2>2, <2>3, <2>4
<1> HIDE DEF u, v
<1>6. u \o w = v
  <2>1. /\ u \o w \in Seq(Unit)
        /\ Len(u \o w) = Len(v)
        /\ \A i \in 1 .. Len(v) : (u \o w)[i] = IF i <= Len(u) THEN u[i] ELSE w[i - Len(u)]
    <3>1. Len(u) + Len(w) = Len(v)
      BY <1>1, <1>4, <1>5
    <3> QED
      BY <3>1, <1>4, ConcatProperties
  <2>2. ASSUME NEW i \in 1 .. Len(v)
        PROVE  (u \o w)[i] = v[i]
    <3>1. v[i] = s[k + i] /\ k + i \in 1 .. Len(r) + Len(w)
      BY <1>1, <1>5
    <3>2. CASE i <= Len(u)
      <4>1. i \in 1 .. (Len(r) - k) /\ k + i <= Len(r)
        BY <3>2, <1>1, <1>4
      <4> QED
        BY <3>1, <3>2, <4>1, <2>1, <1>1, <1>4
    <3>3. CASE ~(i <= Len(u))
      <4>1. ~(k + i <= Len(r)) /\ (k + i) - Len(r) = i - Len(u)
        BY <3>3, <1>1, <1>4, <1>5
      <4> QED
        BY <3>1, <3>3, <4>1, <2>1, <1>1
    <3> QED
      BY <3>2, <3>3
  <2> QED
    BY <2>1, <2>2, <1>5, SeqEqual
<1> QED
  BY <1>1, <1>2, <1>3, <1>6 DEF s, u, v


\* The types the decoder's steps rely on.
LEMMA FlightTypes ==
  ASSUME StreamInv
  PROVE  /\ frames \in Seq(Frame) /\ Len(frames) \in Nat
         /\ delivered \in Seq(Nat) /\ Len(delivered) \in Nat
         /\ rx \in Seq(Unit) /\ wire \in Seq(Unit) /\ Len(rx) \in Nat
         /\ nextLength \in Nat
         /\ CounterLimit \in Nat
BY LenProperties, FramingAssumption DEF StreamInv, IInv, TypeOK

\* The decoder's counter has not come round as long as a frame is left.
LEMMA CounterOfNextFrame ==
  ASSUME StreamInv, Len(delivered) + 1 <= Len(frames)
  PROVE  /\ decCounter = Len(delivered) + 1
         /\ decCounter # 0
         /\ frames[Len(delivered) + 1].nonce = decCounter
<1>1. Len(delivered) + 1 \in 1 .. Len(frames) /\ Len(frames) < CounterLimit
  BY FlightTypes DEF StreamInv, IInv, EncoderInv
<1>2. decCounter = Len(delivered) + 1
  BY <1>1, FlightTypes DEF StreamInv, IInv, DecoderInv, CounterAfter
<1> QED
  BY <1>1, <1>2, FlightTypes DEF StreamInv, IInv, EncoderInv

\* An undisturbed length unmasks as that of the next frame.
LEMMA DecodeLengthStreamInv ==
  ASSUME StreamInv, DecodeLength
  PROVE  StreamInv'
<1> DEFINE f == Len(delivered) + 1
<1>1. IInv'
  BY DecodeLengthIInv DEF StreamInv
<1>2. UNCHANGED <<encBlock, frames, wire, delivered, tampered>>
  BY DEF DecodeLength, encVars
<1>3. BlockInv'
  BY <1>2 DEF StreamInv, BlockInv
<1>4. ASSUME tampered' = 0
      PROVE  Undisturbed'
  <2>1. /\ Undisturbed
        /\ nextLength = 0 /\ decBlock = Len(delivered)
        /\ Unbroken(frames, rx \o wire, f, 1)
    <3>1. Undisturbed /\ nextLength = 0
      BY <1>2, <1>4 DEF StreamInv, DecodeLength
    <3> QED
      BY <3>1, FlightTypes DEF Undisturbed
  <2>2. 2 \in 1 .. Len(rx) /\ rx' = SubSeq(rx, 2 + 1, Len(rx))
    BY FlightTypes DEF DecodeLength, Available, LengthLength
  <2>3. /\ rx \o wire \in Seq(Unit)
        /\ 2 \in 1 .. Len(rx \o wire)
        /\ SubSeq(rx, 1, 2) = SubSeq(rx \o wire, 1, 2)
        /\ rx' \o wire' = SubSeq(rx \o wire, 2 + 1, Len(rx \o wire))
    BY <2>2, <1>2, FlightTypes, FrontOfFlight
  <2>4. f \in 1 .. Len(frames)
    <3>1. Len(rx \o wire) \in Nat /\ 1 \in 1 .. Len(rx \o wire) /\ rx \o wire # <<>>
      BY <2>3, EmptySeq, LenProperties
    <3>2. (rx \o wire)[1].frame \in 1 .. Len(frames)
          /\ (rx \o wire)[1] = [frame |-> f, pos |-> 1]
      BY <3>1, <2>1 DEF Unbroken
    <3> QED
      BY <3>2
  <2>5. SizeOf(frames, f) \in Nat /\ SizeOf(frames, f) >= 3 /\ frames[f].length \in Nat \ {0}
    BY <2>4, FlightTypes, SizeType
  <2>6. /\ SubSeq(rx \o wire, 1, 2) = Units(f, 1, 1 + 2 - 1)
        /\ Unbroken(frames, SubSeq(rx \o wire, 2 + 1, Len(rx \o wire)), f, 1 + 2)
    <3> DEFINE s == rx \o wire
    <3>1. f \in Nat /\ 1 \in Nat \ {0} /\ frames \in Seq(Frame)
      BY FlightTypes
    <3>2. Unbroken(frames, s, f, 1) /\ s \in Seq(Unit) /\ 2 \in 1 .. Len(s)
      BY <2>1, <2>3
    <3>3. 1 + 2 <= SizeOf(frames, f) /\ 1 + 2 <= SizeOf(frames, f) + 1
      BY <2>5
    <3> HIDE DEF f, s
    <3>4. /\ SubSeq(s, 1, 2) = Units(f, 1, 1 + 2 - 1)
          /\ 1 + 2 <= SizeOf(frames, f) => Unbroken(frames, SubSeq(s, 2 + 1, Len(s)), f, 1 + 2)
      BY <3>1, <3>2, <3>3, TakeFromFront
    <3> QED
      BY <3>3, <3>4 DEF s
  <2>7. LengthOf(f)
    <3>1. frames[f].block = f - 1
      BY <2>4 DEF StreamInv, BlockInv
    <3>2. frames[f].block = decBlock
      BY <3>1, <2>1, FlightTypes
    <3>3. 1 + 2 - 1 = 2
      OBVIOUS
    <3> QED
      BY <3>2, <3>3, <2>3, <2>6 DEF LengthOf, LengthLength
  <2>8. ASSUME NEW g \in 1 .. Len(frames), LengthOf(g)
        PROVE  g = f
    <3>1. frames[g].block = decBlock
      BY <2>8 DEF LengthOf
    <3>2. frames[g].block = g - 1
      BY DEF StreamInv, BlockInv
    <3>3. g - 1 = Len(delivered)
      BY <3>1, <3>2, <2>1
    <3>4. g \in Int /\ Len(delivered) \in Int
      BY FlightTypes
    <3> QED
      BY <3>3, <3>4
  <2>9. decCounter # 0
    BY <2>4, FlightTypes, CounterOfNextFrame
  <2>10. decBlock' = decBlock + 1 /\ Unmask /\ decErr' = decErr
    BY <2>9 DEF DecodeLength
  <2>11. nextLength' = frames[f].length /\ nextLengthInvalid' = nextLengthInvalid
    <3>1. PICK g \in 1 .. Len(frames) :
                 /\ LengthOf(g)
                 /\ nextLength' = frames[g].length
                 /\ UNCHANGED nextLengthInvalid
      BY <2>4, <2>7, <2>10 DEF Unmask
    <3> QED
      BY <3>1, <2>8
  <2>12. nextLength' # 0 /\ decBlock' = Len(delivered') + 1 /\ Len(delivered') < Len(frames')
    BY <2>1, <2>4, <2>5, <2>10, <2>11, <1>2, FlightTypes
  <2>13. Unbroken(frames', rx' \o wire', Len(delivered') + 1, LengthLength + 1)
    <3>1. 1 + 2 = LengthLength + 1
      BY DEF LengthLength
    <3> QED
      BY <3>1, <2>3, <2>6, <1>2
  <2>14. decErr' = "none" /\ nextLengthInvalid' = FALSE
    BY <2>1, <2>10, <2>11 DEF Undisturbed
  <2> QED
    BY <2>11, <2>12, <2>13, <2>14, <1>2 DEF Undisturbed
<1> QED
  BY <1>1, <1>3, <1>4 DEF StreamInv

\* An undisturbed box opens.
LEMMA DecodeBoxStreamInv ==
  ASSUME StreamInv, DecodeBox
  PROVE  StreamInv'
<1> DEFINE f == Len(delivered) + 1
           n == nextLength
<1>1. IInv'
  BY DecodeBoxIInv DEF StreamInv
<1>2. UNCHANGED <<encBlock, frames, wire, decBlock, nextLengthInvalid, tampered>>
  BY DEF DecodeBox, encVars
<1>3. BlockInv'
  BY <1>2 DEF StreamInv, BlockInv
<1>4. ASSUME tampered' = 0
      PROVE  Undisturbed'
  <2>1. /\ Undisturbed
        /\ n # 0 /\ n = frames[f].length /\ f \in 1 .. Len(frames)
        /\ decBlock = Len(delivered) + 1
        /\ Unbroken(frames, rx \o wire, f, 3)
    <3>1. Undisturbed /\ nextLength # 0
      BY <1>2, <1>4 DEF StreamInv, DecodeBox
    <3>2. LengthLength + 1 = 3
      BY DEF LengthLength
    <3>3. f \in 1 .. Len(frames)
      BY <3>1, FlightTypes DEF Undisturbed
    <3> QED
      BY <3>1, <3>2, <3>3 DEF Undisturbed
  <2>2. n \in Nat /\ n \in 1 .. Len(rx) /\ rx' = SubSeq(rx, n + 1, Len(rx))
    BY <2>1, FlightTypes DEF DecodeBox, Available
  <2> HIDE DEF n
  <2>3. /\ rx \o wire \in Seq(Unit)
        /\ n \in 1 .. Len(rx \o wire)
        /\ SubSeq(rx, 1, n) = SubSeq(rx \o wire, 1, n)
        /\ rx' \o wire' = SubSeq(rx \o wire, n + 1, Len(rx \o wire))
    BY <2>2, <1>2, FlightTypes, FrontOfFlight
  <2>4. SizeOf(frames, f) = 2 + n
    BY <2>1, FlightTypes, SizeType
  <2>5. /\ SubSeq(rx \o wire, 1, n) = Units(f, 3, 3 + n - 1)
        /\ Unbroken(frames, SubSeq(rx \o wire, n + 1, Len(rx \o wire)), f + 1, 1)
    <3> DEFINE z == SizeOf(frames, f)
               s == rx \o wire
    <3>1. f \in Nat /\ 3 \in Nat \ {0} /\ frames \in Seq(Frame)
      BY FlightTypes
    <3>2. z = 2 + n
      BY <2>4
    <3>3. Unbroken(frames, s, f, 3) /\ s \in Seq(Unit) /\ n \in 1 .. Len(s)
      BY <2>1, <2>3
    <3> HIDE DEF f, z, s
    <3>4. 3 + n <= z + 1 /\ 3 + n = z + 1
      BY <3>2, <2>2
    <3>5. /\ SubSeq(s, 1, n) = Units(f, 3, 3 + n - 1)
          /\ 3 + n = z + 1 => Unbroken(frames, SubSeq(s, n + 1, Len(s)), f + 1, 1)
      BY <3>1, <3>3, <3>4, TakeFromFront DEF z
    <3> QED
      BY <3>4, <3>5 DEF s
  <2>6. Opens(f)
    <3>1. nextNonce = decCounter
      BY <2>1 DEF n, StreamInv, IInv, DecoderInv
    <3>2. frames[f].nonce = nextNonce
      BY <3>1, <2>1, FlightTypes, CounterOfNextFrame
    <3>3. LengthLength + 1 = 3 /\ LengthLength + frames[f].length = 3 + n - 1
      BY <2>1, <2>2 DEF LengthLength
    <3>4. SubSeq(rx, 1, n) = Units(f, LengthLength + 1, LengthLength + frames[f].length)
      BY <2>3, <2>5, <3>3
    <3>5. ~nextLengthInvalid
      BY <2>1 DEF Undisturbed
    <3> QED
      BY <3>2, <3>4, <3>5 DEF Opens, n
  <2>7. PICK g \in 1 .. Len(frames) :
               /\ delivered' = Append(delivered, g)
               /\ nextLength' = 0
               /\ UNCHANGED decErr
    BY <2>1, <2>6 DEF DecodeBox
  <2>8. Len(delivered') = Len(delivered) + 1
    BY <2>7, FlightTypes, AppendProperties
  <2>9. decErr' = "none" /\ nextLengthInvalid' = FALSE
    BY <2>1, <2>7, <1>2 DEF Undisturbed
  <2>10. decBlock' = Len(delivered') + 0
    BY <2>1, <2>8, <1>2, FlightTypes
  <2>11. Unbroken(frames', rx' \o wire', Len(delivered') + 1, 1)
    BY <2>3, <2>5, <2>8, <1>2
  <2> QED
    BY <2>7, <2>9, <2>10, <2>11 DEF Undisturbed
<1> QED
  BY <1>1, <1>3, <1>4 DEF StreamInv

LEMMA NextStreamInv == StreamInv /\ [Next]_vars => StreamInv'
<1> SUFFICES ASSUME StreamInv, [Next]_vars
             PROVE  StreamInv'
  OBVIOUS
<1>1. ASSUME NEW n \in Lengths, Encode(n)
      PROVE  StreamInv'
  BY <1>1, EncodeStreamInv
<1>2. ASSUME NEW k \in 1 .. Len(wire), Receive(k)
      PROVE  StreamInv'
  BY <1>2, ReceiveStreamInv
<1>3. CASE Tamper
  BY <1>3, TamperStreamInv
<1>4. CASE DecodeLength
  BY <1>4, DecodeLengthStreamInv
<1>5. CASE DecodeBox
  BY <1>5, DecodeBoxStreamInv
<1>6. CASE UNCHANGED vars
  <2>1. IInv'
    BY <1>6, NextIInv DEF StreamInv
  <2>2. BlockInv' /\ (tampered' = 0 => Undisturbed')
    BY <1>6 DEF vars, encVars, decVars, StreamInv, BlockInv, Undisturbed
  <2> QED
    BY <2>1, <2>2 DEF StreamInv
<1> QED
  BY <1>1, <1>2, <1>3, <1>4, <1>5, <1>6 DEF Next

\* Every step of the link layer is a step of the authenticated stream: a
\* message sent, the next one delivered, a disturbance, a break that a
\* disturbance explains, or nothing the stream can tell.
LEMMA StepIsOfStream ==
  ASSUME StreamInv, StreamInv', Next
  PROVE  [Stream!Next]_(Stream!vars)
<1> DEFINE broken == decErr # "none"
           disturbed == tampered > 0
<1>1. tampered \in Nat /\ tampered' \in Nat
  BY DEF StreamInv, IInv, TypeOK
<1>2. ASSUME NEW n \in Lengths, Encode(n)
      PROVE  Stream!Send
  <2>1. Len(frames') = Len(frames) + 1
    <3>1. [nonce |-> encCounter, block |-> encBlock, length |-> n] \in Frame
      BY DEF StreamInv, IInv, TypeOK, Frame
    <3> QED
      BY <3>1, <1>2, FlightTypes, AppendProperties DEF Encode
  <2>2. UNCHANGED <<delivered, decErr, tampered>>
    BY <1>2 DEF Encode, decVars
  <2> QED
    BY <2>1, <2>2 DEF Stream!Send
<1>3. ASSUME NEW k \in 1 .. Len(wire), Receive(k)
      PROVE  UNCHANGED Stream!vars
  BY <1>3 DEF Receive, encVars, decVars, Stream!vars
<1>4. ASSUME Tamper
      PROVE  Stream!Disturb
  <2>1. tampered' > 0 /\ UNCHANGED <<frames, delivered, decErr>>
    BY <1>1, <1>4 DEF Tamper, encVars, decVars
  <2> QED
    BY <2>1 DEF Stream!Disturb
<1>5. ASSUME UNCHANGED <<frames, delivered, tampered>>, decErr' # "none"
      PROVE  Stream!Break
  <2>1. tampered' # 0
    BY <1>5 DEF StreamInv, Undisturbed
  <2>2. tampered > 0
    BY <2>1, <1>1, <1>5
  <2> QED
    BY <2>2, <1>5 DEF Stream!Break
<1>6. ASSUME DecodeLength
      PROVE  [Stream!Next]_(Stream!vars)
  <2>1. UNCHANGED <<frames, delivered, tampered>>
    BY <1>6 DEF DecodeLength, encVars
  <2>2. CASE decErr' # "none"
    BY <2>1, <2>2, <1>5 DEF Stream!Next
  <2>3. CASE decErr' = "none"
    <3>1. decErr' = decErr
      BY <2>3, <1>6 DEF DecodeLength
    <3> QED
      BY <2>1, <3>1 DEF Stream!vars
  <2> QED
    BY <2>2, <2>3
<1>7. ASSUME DecodeBox
      PROVE  Stream!Next
  <2>1. UNCHANGED <<frames, tampered>> /\ decErr = "none"
    BY <1>7 DEF DecodeBox, encVars
  <2>2. CASE decErr' = "tagMismatch" /\ UNCHANGED delivered
    BY <2>1, <2>2, <1>5 DEF Stream!Next
  <2>3. CASE \E f \in 1 .. Len(frames) : delivered' = Append(delivered, f) /\ UNCHANGED decErr
    <3>1. PICK f \in 1 .. Len(frames) : delivered' = Append(delivered, f) /\ UNCHANGED decErr
      BY <2>3
    <3>2. Len(delivered') = Len(delivered) + 1
      BY <3>1, FlightTypes, AppendProperties
    <3>3. Len(delivered') <= Len(frames')
      BY DEF StreamInv, IInv, DecoderInv, DeliveredInOrder
    <3>4. Len(delivered) < Len(frames)
      BY <2>1, <3>2, <3>3, FlightTypes
    <3> QED
      BY <2>1, <3>1, <3>2, <3>4 DEF Stream!Next, Stream!Deliver
  <2> QED
    BY <2>2, <2>3, <1>7 DEF DecodeBox
<1> QED
  BY <1>2, <1>3, <1>4, <1>6, <1>7 DEF Next, Stream!Next

\* The link layer implements an authenticated stream: messages arrive in the
\* order sent, each once, and the stream breaks only if it was disturbed.
THEOREM FramingImplementsStream == Spec => StreamSpec
<1>1. Init => Stream!Init
  <2> SUFFICES ASSUME Init
               PROVE  Stream!Init
    OBVIOUS
  <2>1. Len(frames) = 0 /\ Len(delivered) = 0 /\ ~(tampered > 0) /\ ~(decErr # "none")
    BY EmptySeq DEF Init
  <2> QED
    BY <2>1 DEF Stream!Init
<1>2. StreamInv /\ StreamInv' /\ [Next]_vars => [Stream!Next]_(Stream!vars)
  <2>1. CASE UNCHANGED vars
    BY <2>1 DEF vars, encVars, decVars, Stream!vars
  <2> QED
    BY <2>1, StepIsOfStream
<1> QED
  BY InitStreamInv, NextStreamInv, <1>1, <1>2, PTL DEF Spec, StreamSpec, Stream!Spec
=============================================================================
