---------------------------- MODULE Scramblesuit ----------------------------
(***************************************************************************)
(* A scramblesuit client from its handshake on, against an honest server   *)
(* (which is not in this repository) and a network that cuts the bytes     *)
(* anywhere: the handshake by ticket or by UniformDH, the packets that     *)
(* follow, and Read.  Bytes are units: a public key is one, a mark and a   *)
(* MAC are two each, a packet header is one.                               *)
(***************************************************************************)
EXTENDS Integers, Sequences, SequencesExt

CONSTANTS
  MaxPad,       \* the longest padding of a response (dhMaxPadLength)
  MaxPackets    \* BOUND: packets the server sends

ASSUME ScramblesuitAssumption == MaxPad \in Nat /\ MaxPackets \in Nat

VARIABLES
  step,            \* "dial", "awaitResponse", "open" or "over"
  arriving,        \* the units the network holds for the client
  ended,           \* "no", "closed" by the server or "broken"
  packets,         \* history: the kinds of the packets the server has sent
  receiveBuffer, receiveState, receiveDecodedBuffer,
  returned,        \* history: the packets whose payload Read has returned
  handled,         \* history: tickets stored and seeds used, by packet
  fresh,           \* history: no read of the network since the handshake
  cause            \* history: why the client gave up by itself

ssVars == <<step, arriving, ended, packets, receiveBuffer, receiveState,
            receiveDecodedBuffer, returned, handled, fresh, cause>>

Size == 1        \* uniformdh.Size
MacLength == 2
MinHandshakeLength == Size + 2 * MacLength
MaxHandshakeLength == Size + MaxPad + 2 * MacLength

\* A unit: its kind, the packet it belongs to (0: the response), its place.
Units(kind, i, n) == [j \in 1 .. n |-> [is |-> kind, of |-> i, nth |-> j]]
Mark == Units("mark", 0, MacLength)
Response(padLen) == Units("key", 0, Size) \o Units("pad", 0, padLen) \o Mark \o Units("mac", 0, MacLength)

Kinds == {"payload", "ticket", "seed", "padding", "empty"}
TotalLen(kind) == CASE kind = "payload" -> 2 [] kind = "empty" -> 0 [] OTHER -> 1
Packet(i, kind) == Units("mac", i, MacLength) \o Units(kind, i, 1) \o Units("body", i, TotalLen(kind))

NoPart == [mac |-> <<>>, hdr |-> <<>>]

ScramblesuitInit ==
  /\ step = "dial" /\ arriving = <<>> /\ ended = "no" /\ packets = <<>>
  /\ receiveBuffer = <<>> /\ receiveState = NoPart /\ receiveDecodedBuffer = <<>>
  /\ returned = <<>> /\ handled = <<>> /\ fresh = TRUE /\ cause = "none"

\* clientHandshake: with a ticket both sides have the keys when it is sent;
\* otherwise, and if no ticket handshake can be made, UniformDH asks for a
\* response, which the server sends with its padding.
ClientHandshake ==
  /\ step = "dial"
  /\ \/ step' = "open" /\ UNCHANGED arriving
     \/ step' = "awaitResponse"
        /\ \E padLen \in 0 .. MaxPad : arriving' = Response(padLen)
  /\ UNCHANGED <<ended, packets, receiveBuffer, receiveState, receiveDecodedBuffer,
                 returned, handled, fresh, cause>>

\* The server does not wait for anything before its first packet.
ServerSends(kind) ==
  /\ step # "dial" /\ ended = "no" /\ Len(packets) < MaxPackets
  /\ packets' = Append(packets, kind)
  /\ arriving' = arriving \o Packet(Len(packets) + 1, kind)
  /\ UNCHANGED <<step, ended, receiveBuffer, receiveState, receiveDecodedBuffer,
                 returned, handled, fresh, cause>>

\* The connection ends: in order, or with the loss of what is on the way.
ConnectionEnds(how) ==
  /\ step # "dial" /\ ended = "no"
  /\ ended' = how
  /\ how = "closed" => UNCHANGED arriving
  /\ how = "broken" => \E kept \in 0 .. Len(arriving) : arriving' = SubSeq(arriving, 1, kept)
  /\ UNCHANGED <<step, packets, receiveBuffer, receiveState, receiveDecodedBuffer,
                 returned, handled, fresh, cause>>

\* Where the mark is in what follows the key, -1 if it is not there.
MarkAt(resp) ==
  LET endPos == IF Len(resp) > MaxHandshakeLength - MacLength
                THEN MaxHandshakeLength - MacLength ELSE Len(resp)
      At == {p \in 0 .. endPos - Size - MacLength :
               SubSeq(resp, Size + p + 1, Size + p + MacLength) = Mark}
  IN IF At = {} THEN -1 ELSE CHOOSE p \in At : \A q \in At : p <= q

ResponseLength(resp) == Size + MarkAt(resp) + 2 * MacLength

\* parseServerHandshake.  The position of the mark is still relative to the end
\* of the key when it is checked against the length, so that a MAC of which a
\* part is missing is compared, with what lies behind the buffer, and found
\* wrong (or the slice is out of range).
ParseServerHandshake(resp) ==
  CASE Len(resp) < MinHandshakeLength -> "notYet"
    [] Len(resp) >= MinHandshakeLength /\ MarkAt(resp) = -1 ->
         IF Len(resp) >= MaxHandshakeLength THEN "invalid" ELSE "notYet"
    [] Len(resp) >= MinHandshakeLength /\ MarkAt(resp) # -1 ->
         IF Len(resp) < MarkAt(resp) + 2 * MacLength THEN "notYet"
         ELSE IF Len(resp) < ResponseLength(resp) THEN "invalid"
         ELSE IF SubSeq(resp, ResponseLength(resp) - MacLength + 1, ResponseLength(resp))
                   = Units("mac", 0, MacLength)
         THEN "valid" ELSE "invalid"

\* One round of the loop that waits for the response: n units more.
ReadResponse(n) ==
  /\ step = "awaitResponse" /\ n \in 1 .. Len(arriving)
  /\ LET resp == receiveBuffer \o SubSeq(arriving, 1, n)
         verdict == ParseServerHandshake(resp)
     IN /\ arriving' = SubSeq(arriving, n + 1, Len(arriving))
        /\ step' = CASE verdict = "notYet" -> step [] verdict = "valid" -> "open" [] OTHER -> "over"
        /\ receiveBuffer' = IF verdict = "valid" THEN SubSeq(resp, ResponseLength(resp) + 1, Len(resp)) ELSE resp
        /\ cause' = IF verdict = "invalid" THEN "handshake" ELSE cause
  /\ UNCHANGED <<ended, packets, receiveState, receiveDecodedBuffer, returned, handled, fresh>>

\* The end of the connection, or the deadline of the handshake.
HandshakeFails ==
  /\ step = "awaitResponse"
  /\ step' = "over" 
  /\ ended' = "broken"
  /\ UNCHANGED <<arriving, packets, receiveBuffer, receiveState, receiveDecodedBuffer,
                 returned, handled, fresh, cause>>

\* The parts readPackets has taken, and what it takes next: a MAC, a header,
\* or the rest of a packet, which it authenticates and acts on.
Take(r, n) == [r EXCEPT !.buf = SubSeq(@, n + 1, Len(@))]

Act(r, i, kind, body) ==
  IF r.mac # Units("mac", i, MacLength) \/ body # Units("body", i, TotalLen(kind))
  THEN [r EXCEPT !.bad = TRUE]
  ELSE [r EXCEPT !.mac = <<>>, !.hdr = <<>>,
                 !.decoded = IF kind = "payload" THEN Append(@, i) ELSE @,
                 !.done = IF kind \in {"ticket", "seed"} THEN Append(@, i) ELSE @]

NextPart(r) ==
  LET has(n) == Len(r.buf) >= n
      kind == r.hdr[1].is
  IN CASE r.bad -> r
       [] ~r.bad /\ r.mac = <<>> ->
            IF has(MacLength) THEN [Take(r, MacLength) EXCEPT !.mac = SubSeq(r.buf, 1, MacLength)] ELSE r
       [] ~r.bad /\ r.mac # <<>> /\ r.hdr = <<>> ->
            IF ~has(1) THEN r
            ELSE IF r.buf[1].is \notin Kinds THEN [r EXCEPT !.bad = TRUE]
            ELSE [Take(r, 1) EXCEPT !.hdr = SubSeq(r.buf, 1, 1)]
       [] ~r.bad /\ r.mac # <<>> /\ r.hdr # <<>> ->
            IF has(TotalLen(kind))
            THEN Act(Take(r, TotalLen(kind)), r.hdr[1].of, kind, SubSeq(r.buf, 1, TotalLen(kind)))
            ELSE r

\* readPackets' loop over the buffer (three parts make a packet).
Process(r) ==
  LET after[n \in 0 .. 3 * Len(r.buf) + 1] == IF n = 0 THEN r ELSE NextPart(after[n - 1])
  IN after[3 * Len(r.buf) + 1]

\* Mutant: the parts taken are forgotten when the rest of a packet is missing.
ReadPacketsForgets(n) ==
  /\ step = "open" /\ receiveDecodedBuffer = <<>>
  /\ n \in 1 .. Len(arriving)
  /\ arriving' = SubSeq(arriving, n + 1, Len(arriving))
  /\ LET r == Process([buf |-> receiveBuffer \o SubSeq(arriving, 1, n), mac |-> <<>>, hdr |-> <<>>,
                       decoded |-> <<>>, done |-> handled, bad |-> FALSE])
     IN /\ receiveBuffer' = r.buf /\ receiveState' = NoPart
        /\ receiveDecodedBuffer' = r.decoded /\ handled' = r.done
        /\ cause' = IF r.bad THEN "packet" ELSE cause
        /\ step' = IF r.bad THEN "over" ELSE step
  /\ fresh' = FALSE
  /\ UNCHANGED <<ended, packets, returned>>

\* readPackets, run by a Read that has no payload to return: it takes n units of
\* the network first, none when the connection has ended, and then processes
\* all that has come, also what came with the response.  A Read returns the
\* payload it has together with the error.
ReadPackets(n) ==
  /\ step = "open" /\ receiveDecodedBuffer = <<>>
  /\ n \in 1 .. Len(arriving) \/ (n = 0 /\ arriving = <<>> /\ ended # "no")
  /\ arriving' = SubSeq(arriving, n + 1, Len(arriving))
  /\ LET r == Process([buf |-> receiveBuffer \o SubSeq(arriving, 1, n),
                       mac |-> receiveState.mac, hdr |-> receiveState.hdr,
                       decoded |-> <<>>, done |-> handled, bad |-> FALSE])
         error == r.bad \/ n = 0
     IN /\ receiveBuffer' = r.buf
        /\ receiveState' = [mac |-> r.mac, hdr |-> r.hdr]
        /\ receiveDecodedBuffer' = IF error THEN <<>> ELSE r.decoded
        /\ returned' = IF error THEN returned \o r.decoded ELSE returned
        /\ handled' = r.done
        /\ cause' = IF r.bad THEN "packet" ELSE cause
        /\ step' = IF error THEN "over" ELSE step
  /\ fresh' = FALSE
  /\ UNCHANGED <<ended, packets>>

\* The rest of Read: the payload goes to the caller, as much as he asked for.
ServeRead(n) ==
  /\ step = "open" /\ n \in 1 .. Len(receiveDecodedBuffer)
  /\ returned' = returned \o SubSeq(receiveDecodedBuffer, 1, n)
  /\ receiveDecodedBuffer' = SubSeq(receiveDecodedBuffer, n + 1, Len(receiveDecodedBuffer))
  /\ UNCHANGED <<step, arriving, ended, packets, receiveBuffer, receiveState, handled, fresh, cause>>

ScramblesuitNext ==
  \/ ClientHandshake \/ HandshakeFails
  \/ \E kind \in Kinds : ServerSends(kind)
  \/ \E how \in {"closed", "broken"} : ConnectionEnds(how)
  \/ \E n \in 0 .. Len(arriving) : ReadResponse(n) \/ ReadPackets(n)
  \/ \E n \in 1 .. MaxPackets : ServeRead(n)

ScramblesuitSpec == ScramblesuitInit /\ [][ScramblesuitNext]_ssVars

-----------------------------------------------------------------------------
SentOf(kinds) ==
  LET first[i \in 0 .. Len(packets)] ==
        IF i = 0 THEN <<>> ELSE IF packets[i] \in kinds THEN Append(first[i - 1], i) ELSE first[i - 1]
  IN first[Len(packets)]

\* However the bytes are cut, the payloads Read returns are those of the packets
\* sent, in order, and each ticket and each seed is used once, in order; no
\* packet of the honest server is refused; a Read that waits has been given
\* everything that was sent, except what came with the response while nothing
\* has come after it; and the end of the connection loses nothing.
ScramblesuitConserves ==
  LET payloads == SentOf({"payload"}) IN
  /\ IsPrefix(returned \o receiveDecodedBuffer, payloads)
  /\ IsPrefix(handled, SentOf({"ticket", "seed"}))
  /\ cause # "packet"
  /\ step = "open" /\ arriving = <<>> /\ ended = "no" /\ receiveDecodedBuffer = <<>> /\ ~fresh
       => returned = payloads
  /\ step = "over" /\ ended = "closed" /\ cause = "none" => returned = payloads

\* The client waits for the mark and the MAC of a response "till we either find
\* the tail marker + MAC digest [...] or the maximum handshake size passes": an
\* honest response is never refused.
HonestResponseAccepted == cause # "handshake"
=============================================================================
