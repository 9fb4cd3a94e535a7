------------------------------- MODULE Obfs23 -------------------------------
(***************************************************************************)
(* The two oldest transports, obfs2 and obfs3, from the dial to the end:   *)
(* two ends that start at the same time over one connection, whose bytes   *)
(* arrive cut anywhere.  Bytes are units of a few kinds; a data unit is    *)
(* what a stream cipher made of it, and is read back only by the same key  *)
(* stream at the same place.                                               *)
(***************************************************************************)
EXTENDS Integers, Sequences, SequencesExt

CONSTANTS
  MaxPadding,   \* maxPadding of obfs3 (and of obfs2), scaled down
  MaxSent       \* BOUND: data units an end writes

ASSUME Obfs23Assumption == MaxPadding \in Nat /\ MaxSent \in Nat

Ends == {"initiator", "responder"}
Peer(e) == CHOOSE p \in Ends : p # e

VARIABLES
  version,    \* "obfs2" or "obfs3"
  phase,      \* per end: the step of its handshake, "open" or "closed"
  inFlight,   \* per end: what the network holds for it
  rxMagic,    \* per end: the magic is still to be found (obfs3)
  txMagic,    \* per end: the magic is still to be sent (obfs3)
  rxBuf,      \* per end: what the search for the magic has read
  tx, rx,     \* per end: its key streams
  sent,       \* history: data units given to Write
  got,        \* history: what Read has returned
  broken      \* history: the network, or a timeout, has ended the connection

obfs23Vars == <<version, phase, inFlight, rxMagic, txMagic, rxBuf, tx, rx, sent, got, broken>>

\* The units: halves of a public key or of a seed, padding, obfs2's header,
\* halves of a magic, data.
Key(e) == <<[is |-> "key", of |-> e], [is |-> "key2", of |-> e]>>
Padding(n) == [i \in 1 .. n |-> [is |-> "padding", of |-> "nobody"]]
Header(n) == <<[is |-> "header", of |-> n]>>
Magic(e) == <<[is |-> "magic", of |-> e], [is |-> "magic2", of |-> e]>>
Sealed(stream, first, n) ==
  [i \in 1 .. n |-> [is |-> "data", of |-> <<stream.key, stream.at + i - 1, first + i>>]]

\* What a stream cipher makes of units: the plaintext, or garbage (0).
Opened(stream, units) ==
  [i \in 1 .. Len(units) |->
     IF units[i].is = "data" /\ units[i].of[1] = stream.key /\ units[i].of[2] = stream.at + i - 1
     THEN units[i].of[3] ELSE 0]

NoStream == [key |-> <<"none">>, at |-> 0]

Obfs23Init ==
  /\ version \in {"obfs2", "obfs3"}
  /\ phase = [e \in Ends |-> "start"]
  /\ inFlight = [e \in Ends |-> <<>>]
  /\ rxMagic = [e \in Ends |-> version = "obfs3"]
  /\ txMagic = [e \in Ends |-> version = "obfs3"]
  /\ rxBuf = [e \in Ends |-> <<>>]
  /\ tx = [e \in Ends |-> NoStream] /\ rx = [e \in Ends |-> NoStream]
  /\ sent = [e \in Ends |-> 0]
  /\ got = [e \in Ends |-> <<>>]
  /\ broken = FALSE

Send(e, units) == inFlight' = [inFlight EXCEPT ![Peer(e)] = @ \o units]

\* What both handshakes send before they read: obfs3 its public key and random
\* padding, obfs2 its seed, a header that tells the length, and the padding.
SendHello(e, padLen) ==
  /\ phase[e] = "start"
  /\ phase' = [phase EXCEPT ![e] = "key"]
  /\ IF version = "obfs3"
     THEN padLen <= MaxPadding \div 2 /\ Send(e, Key(e) \o Padding(padLen))
     ELSE Send(e, Key(e) \o Header(padLen) \o Padding(padLen))
  /\ UNCHANGED <<version, rxMagic, txMagic, rxBuf, tx, rx, sent, got, broken>>

\* kdf: both ends derive two streams from the same secret or the same seeds, in
\* the same order, and use them the other way around.
Stream(sender, e, peerKey) ==
  [key |-> <<sender, IF e = "initiator" THEN <<e, peerKey>> ELSE <<peerKey, e>> >>, at |-> 0]

Kdf(e, peerKey) ==
  /\ tx' = [tx EXCEPT ![e] = Stream(e, e, peerKey)]
  /\ rx' = [rx EXCEPT ![e] = Stream(Peer(e), e, peerKey)]

\* io.ReadFull of the peer's key or seed.  obfs3 is done with it; what follows
\* stays in the network.
ReadKey(e) ==
  /\ phase[e] = "key" /\ Len(inFlight[e]) >= 2
  /\ inFlight' = [inFlight EXCEPT ![e] = SubSeq(@, 3, Len(@))]
  /\ IF version = "obfs3"
     THEN phase' = [phase EXCEPT ![e] = "open"] /\ Kdf(e, inFlight[e][1].of)
     ELSE phase' = [phase EXCEPT ![e] = "header"] /\ UNCHANGED <<tx, rx>>
  /\ UNCHANGED <<version, rxMagic, txMagic, rxBuf, sent, got, broken>>

\* obfs2 reads the header, then exactly the padding it announces, and only then
\* changes its streams.
ReadHeader(e) ==
  /\ phase[e] = "header"
  /\ inFlight[e] # <<>>
  /\ LET padLen == Head(inFlight[e]).of IN
     IF padLen > MaxPadding
     THEN phase' = [phase EXCEPT ![e] = "closed"] /\ UNCHANGED <<inFlight, tx, rx>>
     ELSE /\ Len(inFlight[e]) > padLen
          /\ inFlight' = [inFlight EXCEPT ![e] = SubSeq(@, padLen + 2, Len(@))]
          /\ phase' = [phase EXCEPT ![e] = "open"]
          /\ Kdf(e, Peer(e))
  /\ UNCHANGED <<version, rxMagic, txMagic, rxBuf, sent, got, broken>>

\* Write.  obfs3 sends padding and its magic before the first data.
Write23(e, n, padLen) ==
  /\ phase[e] = "open" /\ sent[e] + n <= MaxSent
  /\ padLen <= IF txMagic[e] THEN MaxPadding \div 2 ELSE 0
  /\ Send(e, (IF txMagic[e] THEN Padding(padLen) \o Magic(e) ELSE <<>>) \o Sealed(tx[e], sent[e], n))
  /\ txMagic' = [txMagic EXCEPT ![e] = FALSE]
  /\ tx' = [tx EXCEPT ![e].at = @ + n]
  /\ sent' = [sent EXCEPT ![e] = @ + n]
  /\ UNCHANGED <<version, phase, rxMagic, rxBuf, rx, got, broken>>

\* bytes.Index of the peer's magic: where it starts, -1 if it is not there.
IndexOfMagic(e, buf) ==
  LET At == {i \in 0 .. Len(buf) - 2 : SubSeq(buf, i + 1, i + 2) = Magic(Peer(e))}
  IN IF At = {} THEN -1 ELSE CHOOSE i \in At : \A j \in At : i <= j

\* Mutant: what came with the magic is discarded with the padding.
FindPeerMagicDiscards(e, n) ==
  /\ phase[e] = "open" /\ rxMagic[e] /\ n <= Len(inFlight[e])
  /\ inFlight' = [inFlight EXCEPT ![e] = SubSeq(@, n + 1, Len(@))]
  /\ LET buf == rxBuf[e] \o SubSeq(inFlight[e], 1, n) IN
     /\ rxBuf' = [rxBuf EXCEPT ![e] = IF IndexOfMagic(e, buf) = -1 THEN buf ELSE <<>>]
     /\ rxMagic' = [rxMagic EXCEPT ![e] = IndexOfMagic(e, buf) = -1]
  /\ UNCHANGED <<version, phase, txMagic, tx, rx, sent, got, broken>>

\* One round of findPeerMagic, which the first Read of obfs3 runs: n units more.
FindPeerMagic(e, n) ==
  /\ phase[e] = "open" /\ rxMagic[e] /\ n <= Len(inFlight[e])
  /\ inFlight' = [inFlight EXCEPT ![e] = SubSeq(@, n + 1, Len(@))]
  /\ LET buf == rxBuf[e] \o SubSeq(inFlight[e], 1, n)
         pos == IndexOfMagic(e, buf)
         tooMuch == IF pos = -1 THEN Len(buf) >= MaxPadding + 2 ELSE pos > MaxPadding
     IN IF tooMuch
        THEN phase' = [phase EXCEPT ![e] = "closed"] /\ UNCHANGED <<rxBuf, rxMagic>>
        ELSE /\ rxBuf' = [rxBuf EXCEPT ![e] = IF pos = -1 THEN buf ELSE SubSeq(buf, pos + 3, Len(buf))]
             /\ rxMagic' = [rxMagic EXCEPT ![e] = pos = -1]
             /\ UNCHANGED phase
  /\ UNCHANGED <<version, txMagic, tx, rx, sent, got, broken>>

\* Read: from the rest of the search while there is one, then from the network.
Read23(e, n) ==
  /\ phase[e] = "open" /\ ~rxMagic[e]
  /\ LET from == IF rxBuf[e] # <<>> THEN rxBuf[e] ELSE inFlight[e]
         units == SubSeq(from, 1, n)
     IN
     /\ n <= Len(from)
     /\ got' = [got EXCEPT ![e] = @ \o Opened(rx[e], units)]
     /\ rx' = [rx EXCEPT ![e].at = @ + n]
  /\ IF rxBuf[e] # <<>>
     THEN rxBuf' = [rxBuf EXCEPT ![e] = SubSeq(@, n + 1, Len(@))] /\ UNCHANGED inFlight
     ELSE inFlight' = [inFlight EXCEPT ![e] = SubSeq(@, n + 1, Len(@))] /\ UNCHANGED rxBuf
  /\ UNCHANGED <<version, phase, rxMagic, txMagic, tx, sent, broken>>

\* A deadline, an error of the network or the end of the stream: this end closes
\* and what it had sent last may not arrive.
Break(e) ==
  /\ phase[e] # "closed"
  /\ phase' = [phase EXCEPT ![e] = "closed"]
  /\ broken' = TRUE
  /\ \E kept \in 0 .. Len(inFlight[Peer(e)]) :
       inFlight' = [inFlight EXCEPT ![Peer(e)] = SubSeq(@, 1, kept)]
  /\ UNCHANGED <<version, rxMagic, txMagic, rxBuf, tx, rx, sent, got>>

Obfs23Next ==
  \E e \in Ends :
    \/ \E padLen \in 0 .. MaxPadding :
         SendHello(e, padLen) \/ \E n \in 1 .. MaxSent : Write23(e, n, padLen)
    \/ ReadKey(e) \/ ReadHeader(e) \/ Break(e)
    \/ \E n \in 1 .. Len(inFlight[e]) : FindPeerMagic(e, n)
    \/ \E n \in 1 .. MaxSent : Read23(e, n)

Obfs23Spec == Obfs23Init /\ [][Obfs23Next]_obfs23Vars

-----------------------------------------------------------------------------
\* However the bytes are cut and however long the paddings are, two honest ends
\* read exactly what the other has written, in order; the checks of the padding
\* close no connection that the network has not broken; and a Read that would
\* wait has returned everything written, what had come with the magic included.
LegacyConserves ==
  \A e \in Ends :
    /\ got[e] = [i \in 1 .. Len(got[e]) |-> i] /\ Len(got[e]) <= sent[Peer(e)]
    /\ phase[e] = "closed" => broken
    /\ phase[e] = "open" /\ inFlight[e] = <<>> /\ (rxMagic[e] \/ rxBuf[e] = <<>>) /\ ~broken
         => Len(got[e]) = sent[Peer(e)]
=============================================================================
