----------------------------- MODULE Obfs4Write -----------------------------
(***************************************************************************)
(* The lengths obfs4Conn.Write puts on the wire: chopping the payload into *)
(* frames, padBurst, and the three inter-arrival-time modes.  A buffer is  *)
(* its number of bytes; the length distribution is the set of its values,  *)
(* any of which Sample may return.                                         *)
(***************************************************************************)
EXTENDS Integers

CONSTANTS
  MaximumSegmentLength,    \* the longest frame
  headerLength,            \* what framing and packet header add to a packet
  Values,                  \* the values of the length distribution
  Lengths                  \* bound: lengths of the user's writes

iatNone == 0
iatEnabled == 1
iatParanoid == 2

ASSUME WriteAssumption ==
  /\ headerLength \in Nat \ {0}
  /\ MaximumSegmentLength \in Nat /\ MaximumSegmentLength > 2 * headerLength
  /\ MaximumSegmentLength < 65536   \* lengths are 16 bit numbers
  /\ Values # {} /\ Values \subseteq 0 .. MaximumSegmentLength
  /\ Lengths \subseteq Nat \ {0}

maxPacketPayloadLength == MaximumSegmentLength - headerLength

VARIABLES
  iatMode,   \* set once, when the connection is made
  pc,        \* where Write is
  burst,     \* frameBuf.Len()
  target,    \* the length padBurst was given outside paranoid mode
  tail,      \* history: burst % MaximumSegmentLength as padBurst found it
  overshot   \* the last padding of paranoid mode missed its target

writeVars == <<iatMode, pc, burst, target, tail, overshot>>

\* uint16(n)
Uint16(n) == n % 65536

\* The frame of a packet of n bytes of payload and padding.
FrameLength(n) == headerLength + n

\* The frames that carry n bytes of payload.
Chopped(n) ==
  LET full == n \div maxPacketPayloadLength
      rest == n % maxPacketPayloadLength
  IN full * MaximumSegmentLength + (IF rest = 0 THEN 0 ELSE FrameLength(rest))

\* Mutant: the room of a packet is taken for that of a segment.
PadLengthByPacket(n, toPadTo) ==
  LET tailLen == n % MaximumSegmentLength
  IN IF toPadTo >= tailLen THEN toPadTo - tailLen
     ELSE (maxPacketPayloadLength - tailLen) + toPadTo

\* How far padBurst has to move the end of a burst.
PadLength(n, toPadTo) ==
  LET tailLen == n % MaximumSegmentLength
  IN IF toPadTo >= tailLen THEN toPadTo - tailLen
     ELSE (MaximumSegmentLength - tailLen) + toPadTo

\* Mutant: the full packet before a short padding is left out.
PadPacketsShort(padLen) ==
  CASE padLen > headerLength -> <<Uint16(padLen - headerLength)>>
    [] padLen > 0 /\ padLen <= headerLength -> <<Uint16(padLen)>>
    [] padLen = 0 -> <<>>

\* The paddings of the packets padBurst makes, in order: one that is the
\* whole of it; or, if a header does not fit, a full one and one more.
PadPackets(padLen) ==
  CASE padLen > headerLength -> <<Uint16(padLen - headerLength)>>
    [] padLen > 0 /\ padLen <= headerLength -> <<maxPacketPayloadLength, Uint16(padLen)>>
    [] padLen = 0 -> <<>>

PanicsOn(packets) == \E i \in DOMAIN packets : packets[i] > maxPacketPayloadLength

Padded(n, packets) ==
  CASE DOMAIN packets = {} -> n
    [] DOMAIN packets = {1} -> n + FrameLength(packets[1])
    [] DOMAIN packets = {1, 2} -> n + FrameLength(packets[1]) + FrameLength(packets[2])

WriteInit ==
  /\ iatMode \in {iatNone, iatEnabled, iatParanoid}
  /\ pc = "idle"
  /\ burst = 0
  /\ target = 0
  /\ tail = 0
  /\ overshot = FALSE

\* Write is called with n bytes and chops them into frames.
Chop(n) ==
  /\ pc = "idle"
  /\ burst' = Chopped(n)
  /\ pc' = IF iatMode = iatParanoid THEN "flush" ELSE "pad"
  /\ UNCHANGED <<iatMode, target, tail, overshot>>

\* Outside paranoid mode a burst is padded once.
Pad(sample) ==
  /\ pc = "pad"
  /\ target' = sample
  /\ tail' = burst % MaximumSegmentLength
  /\ LET packets == PadPackets(PadLength(burst, sample)) IN
     IF PanicsOn(packets)
     THEN pc' = "panic:makePacket" /\ UNCHANGED burst
     ELSE pc' = "flush" /\ burst' = Padded(burst, packets)
  /\ UNCHANGED <<iatMode, overshot>>

\* n bytes of a buffer of len go to the network; none to write is a bug.
WriteOut(n, len) ==
  /\ burst' = len - n
  /\ pc' = IF n = 0 THEN "panic:iatLength" ELSE IF n = len THEN "idle" ELSE "flush"

\* The rest of Write in iatNone, which is one write, and a turn of its loop in
\* iatEnabled.
Flush ==
  /\ pc = "flush"
  /\ iatMode # iatParanoid
  /\ IF iatMode = iatNone \/ burst < MaximumSegmentLength
     THEN WriteOut(burst, burst)
     ELSE WriteOut(MaximumSegmentLength, burst)
  /\ target' = IF pc' = "idle" THEN 0 ELSE target
  /\ tail' = IF pc' = "idle" THEN 0 ELSE tail
  /\ UNCHANGED <<iatMode, overshot>>

\* A turn of the loop in iatParanoid, in which every write has a length of
\* its own.  A buffer that is shorter is padded; if the padding misses the
\* length there is no write in this turn.
FlushParanoid(sample) ==
  /\ pc = "flush"
  /\ iatMode = iatParanoid
  /\ LET packets == PadPackets(PadLength(burst, sample))
         padded == Padded(burst, packets) IN
     \/ /\ burst < sample
        /\ PanicsOn(packets)
        /\ pc' = "panic:makePacket"
        /\ UNCHANGED <<burst, overshot>>
     \/ /\ burst < sample
        /\ ~PanicsOn(packets) /\ padded # sample
        /\ burst' = padded
        /\ overshot' = TRUE
        /\ UNCHANGED pc
     \/ /\ burst < sample
        /\ ~PanicsOn(packets) /\ padded = sample
        /\ WriteOut(sample, padded)
        /\ overshot' = FALSE
     \/ /\ burst >= sample
        /\ WriteOut(sample, burst)
        /\ overshot' = FALSE
  /\ UNCHANGED <<iatMode, target, tail>>

WriteNext ==
  \/ \E n \in Lengths : Chop(n)
  \/ \E sample \in Values : Pad(sample) \/ FlushParanoid(sample)
  \/ Flush

WriteSpec == WriteInit /\ [][WriteNext]_writeVars

-----------------------------------------------------------------------------
\* The distance padBurst has to go, modulo the segment.
Gap == (target - tail) % MaximumSegmentLength

\* A padded burst ends where the distribution says, which is what hides the
\* length of the payload, and goes on doing so as it is sent; unless the
\* distance was shorter than a header, and then it ends one header further.  On
\* the way padBurst asks makePacket for no more than a packet holds, nor for a
\* negative length, which uint16 turns into a huge one: the panic
\* "BUG: makePacket()" does not happen.
BurstEndsAsSampled ==
  /\ pc # "panic:makePacket"
  /\ pc = "flush" /\ iatMode # iatParanoid =>
       burst % MaximumSegmentLength =
         (IF Gap \in 1 .. headerLength THEN target + headerLength ELSE target)
           % MaximumSegmentLength

\* "there's enough data to ensure that the next sample will be written": a
\* turn of paranoid mode that wrote nothing is never followed by another.
OvershootIsWritten == overshot => \A sample \in Values : burst >= sample
=============================================================================
