------------------------------- MODULE Framing -------------------------------
(***************************************************************************)
(* The obfs4 link layer of transports/obfs4/framing: an Encoder, a byte    *)
(* stream and the Decoder at its far end, for one direction of a           *)
(* connection.                                                             *)
(*                                                                         *)
(* The stream is a sequence of units.  A frame is LengthLength units of    *)
(* masked length and one unit per byte of its secretbox.  What the         *)
(* cryptography guarantees is written as a comparison: a length unmasks    *)
(* only with the DRBG block it was masked with, a box opens only whole and *)
(* under the nonce it was sealed with; the keys of the two ends agree      *)
(* (Obfs4Conn has the handshake that sees to it).  The network may replace,*)
(* drop and replay whatever it carries.                                    *)
(***************************************************************************)
EXTENDS Integers, Sequences

CONSTANTS
  CounterLimit,    \* nonce counters are taken modulo this (2^64)
  MaxFrameLength,  \* units in the longest box; the shortest has 1
  MaxTamper        \* bound: interventions of the network

ASSUME FramingAssumption ==
  /\ CounterLimit \in Nat /\ CounterLimit >= 2
  /\ MaxFrameLength \in Nat \ {0}
  /\ MaxTamper \in Nat

LengthLength == 2

VARIABLES
  encCounter,         \* encoder.nonce.counter
  encBlock,           \* blocks drawn from encoder.drbg
  frames,             \* history: the frames sealed, in order
  wire,               \* units on their way
  rx,                 \* units received and not yet decoded
  decCounter,         \* decoder.nonce.counter
  decBlock,           \* blocks drawn from decoder.drbg
  nextLength,         \* decoder.nextLength, 0 if not known
  nextNonce,          \* decoder.nextNonce
  nextLengthInvalid,  \* decoder.nextLengthInvalid
  decErr,             \* the fatal error Decode returned
  delivered,          \* history: the frames decoded, in order
  tampered            \* how often the network intervened

encVars == <<encCounter, encBlock, frames>>
decVars == <<decCounter, decBlock, nextLength, nextNonce, nextLengthInvalid,
             decErr, delivered>>
vars == <<encVars, wire, rx, decVars, tampered>>

Lengths == 1 .. MaxFrameLength
Counters == 0 .. (CounterLimit - 1)
Frame == [nonce : Counters, block : Nat, length : Lengths]
Unit == [frame : Nat, pos : Nat]

\* A unit that belongs to no frame.
Noise == [frame |-> 0, pos |-> 0]

\* Units number from to to of frame f.
Units(f, from, to) == [i \in 1 .. (to - from + 1) |-> [frame |-> f, pos |-> from + i - 1]]

TypeOK ==
  /\ encCounter \in Counters
  /\ encBlock \in Nat
  /\ frames \in Seq(Frame)
  /\ wire \in Seq(Unit)
  /\ rx \in Seq(Unit)
  /\ decCounter \in Counters
  /\ decBlock \in Nat
  /\ nextLength \in 0 .. MaxFrameLength
  /\ nextNonce \in Counters
  /\ nextLengthInvalid \in BOOLEAN
  /\ decErr \in {"none", "tagMismatch", "counterWrapped"}
  /\ delivered \in Seq(Nat)
  /\ tampered \in 0 .. MaxTamper

Init ==
  /\ encCounter = 1
  /\ encBlock = 0
  /\ frames = <<>>
  /\ wire = <<>>
  /\ rx = <<>>
  /\ decCounter = 1
  /\ decBlock = 0
  /\ nextLength = 0
  /\ nextNonce = 0
  /\ nextLengthInvalid = FALSE
  /\ decErr = "none"
  /\ delivered = <<>>
  /\ tampered = 0

-----------------------------------------------------------------------------
(* Encoder.Encode of a payload whose box has n units.  A counter that has  *)
(* come round to 0 makes it fail, with ErrNonceCounterWrapped, for good.   *)

\* Mutant: a counter that wraps to its initial value.
BumpPastZero(counter) == IF counter + 1 = CounterLimit THEN 1 ELSE counter + 1

Bump(counter) == (counter + 1) % CounterLimit

Encode(n) ==
  /\ encCounter # 0
  /\ frames' = Append(frames, [nonce |-> encCounter, block |-> encBlock, length |-> n])
  /\ encCounter' = Bump(encCounter)
  /\ encBlock' = encBlock + 1
  /\ wire' = wire \o Units(Len(frames) + 1, 1, LengthLength + n)
  /\ UNCHANGED <<rx, decVars, tampered>>

-----------------------------------------------------------------------------
(* The network.                                                            *)

\* A read returns the next k units of the stream, however they were written.
Receive(k) ==
  /\ rx' = rx \o SubSeq(wire, 1, k)
  /\ wire' = SubSeq(wire, k + 1, Len(wire))
  /\ UNCHANGED <<encVars, decVars, tampered>>

\* The units of wire before position i, then s, then those from position j.
Splice(i, s, j) == SubSeq(wire, 1, i - 1) \o s \o SubSeq(wire, j, Len(wire))

\* The network replaces a unit, drops a run of units (a frame, say), or plays
\* back a whole frame.
Tamper ==
  /\ tampered < MaxTamper
  /\ tampered' = tampered + 1
  /\ \/ \E i \in 1 .. Len(wire) : wire' = Splice(i, <<Noise>>, i + 1)
     \/ \E i \in 1 .. Len(wire) : \E j \in i .. Len(wire) : wire' = Splice(i, <<>>, j + 1)
     \/ \E i \in 1 .. (Len(wire) + 1), f \in 1 .. Len(frames) :
          wire' = Splice(i, Units(f, 1, LengthLength + frames[f].length), i)
  /\ UNCHANGED <<encVars, rx, decVars>>

-----------------------------------------------------------------------------
(* Decoder.Decode, the part that takes a length and the part that takes a  *)
(* box.  One call does the second right after the first if the box is      *)
(* there; otherwise it returns ErrAgain in between.                        *)

\* Mutant: a strict comparison.
AvailableAndMore(n) == Len(rx) > n

\* Less than n units are a reason to return ErrAgain.
Available(n) == Len(rx) >= n

\* Mutant: the decoder is a DRBG block ahead.
LengthOfNextBlock(f) ==
  /\ SubSeq(rx, 1, LengthLength) = Units(f, 1, LengthLength)
  /\ frames[f].block = decBlock + 1

\* The frame whose masked length the first units of rx are, if any.
LengthOf(f) ==
  /\ SubSeq(rx, 1, LengthLength) = Units(f, 1, LengthLength)
  /\ frames[f].block = decBlock

\* What comes of unmasking the length: the length of the frame; or, if the
\* units are not a length masked with this block, some 16 bit number, which
\* is replaced by a random valid one if it is out of range.
Unmask ==
  \/ \E f \in 1 .. Len(frames) :
       /\ LengthOf(f)
       /\ nextLength' = frames[f].length
       /\ UNCHANGED nextLengthInvalid
  \/ /\ ~\E f \in 1 .. Len(frames) : LengthOf(f)
     /\ nextLength' \in Lengths
     /\ \/ UNCHANGED nextLengthInvalid
        \/ nextLengthInvalid' = TRUE

DecodeLength ==
  /\ decErr = "none"
  /\ nextLength = 0
  /\ Available(LengthLength)
  /\ rx' = SubSeq(rx, LengthLength + 1, Len(rx))
  /\ IF decCounter = 0
     THEN /\ decErr' = "counterWrapped"
          /\ UNCHANGED <<decBlock, nextLength, nextNonce, nextLengthInvalid>>
     ELSE /\ nextNonce' = decCounter
          /\ decBlock' = decBlock + 1
          /\ Unmask
          /\ UNCHANGED decErr
  /\ UNCHANGED <<encVars, wire, decCounter, delivered, tampered>>

\* Mutant: a box opens under any nonce.
OpensUnderAnyNonce(f) ==
  /\ SubSeq(rx, 1, nextLength) = Units(f, LengthLength + 1, LengthLength + frames[f].length)
  /\ ~nextLengthInvalid

\* The frame the box at the front of rx opens as, if any.
Opens(f) ==
  /\ SubSeq(rx, 1, nextLength) = Units(f, LengthLength + 1, LengthLength + frames[f].length)
  /\ frames[f].nonce = nextNonce
  /\ ~nextLengthInvalid

DecodeBox ==
  /\ decErr = "none"
  /\ nextLength # 0
  /\ Available(nextLength)
  /\ rx' = SubSeq(rx, nextLength + 1, Len(rx))
  /\ \/ \E f \in 1 .. Len(frames) :
          /\ Opens(f)
          /\ delivered' = Append(delivered, f)
          /\ nextLength' = 0
          /\ decCounter' = Bump(decCounter)
          /\ UNCHANGED decErr
     \/ /\ ~\E f \in 1 .. Len(frames) : Opens(f)
        /\ decErr' = "tagMismatch"
        /\ UNCHANGED <<delivered, nextLength, decCounter>>
  /\ UNCHANGED <<encVars, wire, decBlock, nextNonce, nextLengthInvalid, tampered>>

Next ==
  \/ \E n \in Lengths : Encode(n)
  \/ \E k \in 1 .. Len(wire) : Receive(k)
  \/ Tamper
  \/ DecodeLength
  \/ DecodeBox

Spec == Init /\ [][Next]_vars

\* The reader keeps reading, and every byte written arrives.
FairSpec ==
  /\ Spec
  /\ WF_vars(\E k \in 1 .. Len(wire) : Receive(k))
  /\ WF_vars(DecodeLength)
  /\ WF_vars(DecodeBox)

-----------------------------------------------------------------------------
\* "The security guarantee of Poly1305 is broken if a nonce is ever reused
\* for a given key": no two frames are sealed under one nonce, in spite of
\* the counter being an integer that wraps.
NonceUnique ==
  \A i, j \in 1 .. Len(frames) : frames[i].nonce = frames[j].nonce => i = j

\* Whatever the network does to the stream, the frames decoded are the
\* frames encoded, from the first, none left out, repeated or reordered.
DeliveredInOrder ==
  /\ Len(delivered) <= Len(frames)
  /\ \A i \in 1 .. Len(delivered) : delivered[i] = i

\* Every frame encoded is decoded in the end, the last one before the
\* encoder's counter wraps included, unless the network intervenes.
EventuallyDelivered ==
  \A n \in 1 .. (CounterLimit - 1) :
    Len(frames) >= n ~> (Len(delivered) >= n \/ tampered > 0)

\* In one formula: a stream that is authenticated and in order.
Stream == INSTANCE AuthenticatedStream
            WITH sent <- Len(frames), received <- Len(delivered),
                 disturbed <- tampered > 0, broken <- decErr # "none"

StreamSpec == Stream!Spec
=============================================================================
