-------------------------- MODULE ScramblesuitWrite --------------------------
(***************************************************************************)
(* The lengths scramblesuit's Write puts on the wire: packets of payload,  *)
(* then padBurst.  A buffer is its number of bytes; the constants have the *)
(* values of the code, whose sums the properties are about.                *)
(***************************************************************************)
EXTENDS Integers

CONSTANT SsLengths    \* BOUND: lengths of the caller's writes

ASSUME SsWriteAssumption == SsLengths \subseteq Nat

maxSegmentLength == 1448
maxPayloadLength == 1427
pktOverhead == 21
SampleLengths == pktOverhead .. maxSegmentLength    \* min and maxLenDistLength

VARIABLES
  ssPc,       \* "idle", "pad", "write" or "panic"
  ssBurst,    \* frameBuf.Len()
  ssSample,   \* the length drawn for the burst
  ssData      \* history: frameBuf.Len() before the padding

ssWriteVars == <<ssPc, ssBurst, ssSample, ssData>>

SsWriteInit == ssPc = "idle" /\ ssBurst = 0 /\ ssSample = 0 /\ ssData = 0

\* The packets of n bytes of payload.
PacketsLength(n) == n + pktOverhead * ((n + maxPayloadLength - 1) \div maxPayloadLength)

MakePackets(n) ==
  /\ ssPc = "idle"
  /\ ssPc' = "pad"
  /\ ssBurst' = PacketsLength(n) /\ ssData' = PacketsLength(n)
  /\ UNCHANGED ssSample

\* How far the end of the burst has to be moved; a distance shorter than a
\* packet's overhead, none included, becomes one that is a segment longer.
PadLen(dataLen, sampleLen) ==
  LET gap == IF sampleLen >= dataLen THEN sampleLen - dataLen
                                     ELSE (maxSegmentLength - dataLen) + sampleLen
  IN IF gap < pktOverhead THEN gap + maxSegmentLength ELSE gap

\* Mutant: the split is made one byte too late.
PaddingPacketsLate(padLen) ==
  IF padLen > maxSegmentLength + 1
  THEN <<700 - pktOverhead, padLen - (700 + 2 * pktOverhead)>>
  ELSE <<padLen - pktOverhead>>

\* The paddings of the packets padBurst makes: one, or two if one cannot hold it.
PaddingPackets(padLen) ==
  IF padLen > maxSegmentLength
  THEN <<700 - pktOverhead, padLen - (700 + 2 * pktOverhead)>>
  ELSE <<padLen - pktOverhead>>

\* padBurst, for a sample of the length distribution.  makePacket panics on a
\* padding that is longer than a packet or negative.
PadBurst(sampleLen) ==
  /\ ssPc = "pad"
  /\ ssSample' = sampleLen
  /\ LET paddings == PaddingPackets(PadLen(ssBurst % maxSegmentLength, sampleLen))
         bad == \E i \in DOMAIN paddings : paddings[i] \notin 0 .. maxPayloadLength
     IN IF bad THEN ssPc' = "panic" /\ UNCHANGED ssBurst
        ELSE /\ ssPc' = "write"
             /\ ssBurst' = ssBurst + paddings[1] + pktOverhead
                  + (IF DOMAIN paddings = {1} THEN 0 ELSE paddings[2] + pktOverhead)
  /\ UNCHANGED ssData

WriteBurst ==
  /\ ssPc = "write"
  /\ ssPc' = "idle" /\ ssBurst' = 0 /\ ssSample' = 0 /\ ssData' = 0

SsWriteNext ==
  \/ \E n \in SsLengths : MakePackets(n)
  \/ \E sampleLen \in SampleLengths : PadBurst(sampleLen)
  \/ WriteBurst

SsWriteSpec == SsWriteInit /\ [][SsWriteNext]_ssWriteVars

-----------------------------------------------------------------------------
SsGap == (ssSample - ssData) % maxSegmentLength

\* "Pad it out so that the last segment [...] is sampleLen bytes": makePacket is
\* never asked for more than it can hold, nor for less than nothing, and a burst
\* ends as the distribution says, except that one whose padding takes two
\* packets ends one overhead short of it (the second packet's length takes off
\* the first one's overhead a second time).
ScramblesuitPadding ==
  /\ ssPc # "panic"
  /\ ssPc = "write" =>
       ssBurst % maxSegmentLength =
         (ssSample - IF SsGap \in 1 .. pktOverhead - 1 THEN pktOverhead ELSE 0) % maxSegmentLength
=============================================================================
