------------------------------ MODULE Obfs4Conn ------------------------------
(***************************************************************************)
(* One obfs4 connection, from the first byte of the handshake to the data  *)
(* both ends relay: newObfs4ClientConn and WrapConn, the two handshakes,   *)
(* the packets of packet.go, Read and Write, over a reliable byte stream   *)
(* in each direction that cuts and joins the writes at will.               *)
(*                                                                         *)
(* Items of the stream are whole frames, which module Framing justifies,   *)
(* and the two halves of a handshake message, so that a read may end in    *)
(* the middle of one.  Both ends are honest here; replayed and malformed   *)
(* requests are the matter of Obfs4ServerHandshake.                        *)
(***************************************************************************)
EXTENDS Integers, Sequences

CONSTANTS
  MaxWrites,         \* bound: Write calls of each side
  MaxPadding         \* padding packets that may end one burst (padBurst: 2)

ASSUME ConnAssumption ==
  /\ MaxWrites \in Nat
  /\ MaxPadding \in Nat

Client == "client"
Server == "server"
Sides == {Client, Server}
Peer(s) == IF s = Client THEN Server ELSE Client

VARIABLES
  phase,     \* how far the handshake of s has come
  armed,     \* armed[s]: a deadline is set on the net.Conn
  encoder,   \* encoder[s]: the half of the key material it was made with
  decoder,   \* decoder[s]: likewise
  lenDist,   \* lenDist[s]: whose seed the length distribution is made from
  stream,    \* stream[s]: the items on their way to s
  closed,    \* closed[s]: s has closed its net.Conn
  rcvBuf,    \* receiveBuffer of s
  decoded,   \* receiveDecodedBuffer of s
  ended,     \* ended[s]: Read has returned an error to the user of s
  given,     \* history: the payloads Read gave to the user of s
  written    \* history: how many payloads the user of s wrote

connVars == <<phase, armed, encoder, decoder>>
userVars == <<closed, ended, given, written>>
vars == <<connVars, lenDist, stream, rcvBuf, decoded, userVars>>

\* okm[:KeyLength] and okm[KeyLength:], the halves of the key material.
First == "okmFirst"
Second == "okmSecond"
Halves == {First, Second}

Item == [type : {"request", "response"}, part : 1 .. 2, key : {"nil"}]
          \cup [type : {"payload"}, part : 1 .. MaxWrites, key : Halves]
          \cup [type : {"seed", "padding"}, part : {0}, key : Halves]

HandshakeMessage(t) == [p \in 1 .. 2 |-> [type |-> t, part |-> p, key |-> "nil"]]
Request == HandshakeMessage("request")
Response == HandshakeMessage("response")

Packet(t, p, k) == [type |-> t, part |-> p, key |-> k]

\* The client has armed its deadline and sent its request; the server has
\* armed its own and waits.
Init ==
  /\ phase = [s \in Sides |-> "handshake"]
  /\ armed = [s \in Sides |-> TRUE]
  /\ encoder = [s \in Sides |-> "nil"]
  /\ decoder = [s \in Sides |-> "nil"]
  /\ lenDist = [s \in Sides |-> s]
  /\ stream = [s \in Sides |-> IF s = Server THEN Request ELSE <<>>]
  /\ closed = [s \in Sides |-> FALSE]
  /\ rcvBuf = [s \in Sides |-> <<>>]
  /\ decoded = [s \in Sides |-> <<>>]
  /\ ended = [s \in Sides |-> FALSE]
  /\ given = [s \in Sides |-> <<>>]
  /\ written = [s \in Sides |-> 0]

-----------------------------------------------------------------------------
(* The handshake.                                                          *)

\* What receiveBuffer holds once conn.Conn.Read gave s the next k items,
\* and what is left on its way.
Arrived(s, k) == rcvBuf[s] \o SubSeq(stream[s], 1, k)
Unread(s, k) == SubSeq(stream[s], k + 1, Len(stream[s]))

\* The deadline passes, or the peer closes: the client's Dial closes its
\* connection, the server's closeAfterDelay its own.
HandshakeFails(s) ==
  /\ phase[s] = "handshake"
  /\ armed[s] \/ closed[Peer(s)]
  /\ phase' = [phase EXCEPT ![s] = "failed"]
  /\ closed' = [closed EXCEPT ![s] = TRUE]
  /\ UNCHANGED <<armed, encoder, decoder, lenDist, stream, rcvBuf, decoded,
                 ended, given, written>>

\* A turn of either handshake loop in which the message is still incomplete.
HandshakeContinues(s, k) ==
  /\ phase[s] = "handshake"
  /\ Len(Arrived(s, k)) < 2
  /\ rcvBuf' = [rcvBuf EXCEPT ![s] = Arrived(s, k)]
  /\ stream' = [stream EXCEPT ![s] = Unread(s, k)]
  /\ UNCHANGED <<connVars, lenDist, decoded, userVars>>

\* Mutant: no PRNG seed for the client.
ResponseOnly == Response

\* The response and the inline PRNG seed packet, sealed with the new encoder.
ResponseAndSeed == Response \o <<Packet("seed", 0, Second)>>

\* The turn of serverHandshake that has a complete request: it empties the
\* buffer, clears the deadline, makes the link keys, and sends the response
\* and the PRNG seed packet in one write.
ServerHandshake(k) ==
  /\ phase[Server] = "handshake"
  /\ Arrived(Server, k) = Request
  /\ rcvBuf' = [rcvBuf EXCEPT ![Server] = <<>>]
  /\ armed' = [armed EXCEPT ![Server] = FALSE]
  /\ encoder' = [encoder EXCEPT ![Server] = Second]
  /\ decoder' = [decoder EXCEPT ![Server] = First]
  /\ phase' = [phase EXCEPT ![Server] = "ready"]
  /\ stream' = [stream EXCEPT
                  ![Server] = Unread(Server, k),
                  ![Client] = @ \o ResponseAndSeed]
  /\ UNCHANGED <<lenDist, decoded, userVars>>

\* The same turn when the deadline cannot be cleared: serverHandshake
\* returns there, with a nil error, and WrapConn hands the connection on.
ServerClearFails(k) ==
  /\ phase[Server] = "handshake"
  /\ Arrived(Server, k) = Request
  /\ rcvBuf' = [rcvBuf EXCEPT ![Server] = <<>>]
  /\ phase' = [phase EXCEPT ![Server] = "ready"]
  /\ stream' = [stream EXCEPT ![Server] = Unread(Server, k)]
  /\ UNCHANGED <<armed, encoder, decoder, lenDist, decoded, userVars>>

\* Mutant: the buffer is reset, as the server may do.
Discarded(buf) == <<>>

\* What trails the response in the client's buffer.
Trailing(buf) == SubSeq(buf, 3, Len(buf))

\* The turn of clientHandshake that finds a complete response, and the end
\* of newObfs4ClientConn.  What trails the response stays in the buffer.
ClientHandshake(k) ==
  /\ phase[Client] = "handshake"
  /\ LET buf == Arrived(Client, k) IN
     /\ Len(buf) >= 2
     /\ SubSeq(buf, 1, 2) = Response
     /\ rcvBuf' = [rcvBuf EXCEPT ![Client] = Trailing(buf)]
  /\ stream' = [stream EXCEPT ![Client] = Unread(Client, k)]
  /\ encoder' = [encoder EXCEPT ![Client] = First]
  /\ decoder' = [decoder EXCEPT ![Client] = Second]
  /\ armed' = [armed EXCEPT ![Client] = FALSE]
  /\ phase' = [phase EXCEPT ![Client] = "ready"]
  /\ UNCHANGED <<lenDist, decoded, userVars>>

\* The same turn when the deadline cannot be cleared: Dial fails.
ClientClearFails(k) ==
  /\ phase[Client] = "handshake"
  /\ Len(Arrived(Client, k)) >= 2
  /\ SubSeq(Arrived(Client, k), 1, 2) = Response
  /\ phase' = [phase EXCEPT ![Client] = "failed"]
  /\ closed' = [closed EXCEPT ![Client] = TRUE]
  /\ stream' = [stream EXCEPT ![Client] = Unread(Client, k)]
  /\ UNCHANGED <<armed, encoder, decoder, lenDist, rcvBuf, decoded, ended,
                 given, written>>

-----------------------------------------------------------------------------
(* Relaying.  A connection that ServerClearFails left without keys would   *)
(* crash its first user here, so the actions want keys.                    *)

Usable(s) == phase[s] = "ready" /\ encoder[s] # "nil" /\ ~closed[s]

\* Write: the payload and the padding packets that end the burst.
Write(s) ==
  /\ Usable(s)
  /\ written[s] < MaxWrites
  /\ written' = [written EXCEPT ![s] = @ + 1]
  /\ \E n \in 0 .. MaxPadding :
       stream' = [stream EXCEPT ![Peer(s)] =
                    @ \o <<Packet("payload", written[s] + 1, encoder[s])>>
                      \o [i \in 1 .. n |-> Packet("padding", 0, encoder[s])]]
  /\ UNCHANGED <<connVars, lenDist, rcvBuf, decoded, closed, ended, given>>

\* The packets of buf up to the first that the decoder of s cannot open.
Openable(s, buf) ==
  LET opens(n) == \A i \in 1 .. n : buf[i].key = decoder[s]
  IN SubSeq(buf, 1, CHOOSE n \in 0 .. Len(buf) :
                      opens(n) /\ (n = Len(buf) \/ ~opens(n + 1)))

\* Mutant: a failed read returns at once.
DecodedUnlessFailed(s, k) == IF k = 0 THEN <<>> ELSE Openable(s, Arrived(s, k))

\* What readPackets decodes, after a read of k items (k = 0: a failed one).
Decoded(s, k) == Openable(s, Arrived(s, k))

\* Mutant: a second payload in the buffer is dropped.
FirstPayload(packets) ==
  LET payloads == SelectSeq(packets, LAMBDA packet : packet.type = "payload")
  IN IF payloads = <<>> THEN <<>> ELSE <<payloads[1].part>>

\* The payload of one packet, if it has one.
PayloadIn(packet) == IF packet.type = "payload" THEN <<packet.part>> ELSE <<>>

PayloadsOf(packets) ==
  LET upTo[n \in 0 .. Len(packets)] ==
        IF n = 0 THEN <<>> ELSE upTo[n - 1] \o PayloadIn(packets[n])
  IN upTo[Len(packets)]

\* readPackets, which Read calls when it has nothing decoded to give.  It
\* reads from the network first, and waits there if it must; then it decodes
\* whatever the buffer holds.  Only a client heeds the seed packet.  An error
\* of the network (k = 0) or of the decoder reaches the user.
ReadPackets(s, k) ==
  /\ Usable(s)
  /\ ~ended[s]
  /\ decoded[s] = <<>>
  /\ LET buf == Arrived(s, k)
         packets == Decoded(s, k) IN
     /\ decoded' = [decoded EXCEPT ![s] = PayloadsOf(packets)]
     /\ lenDist' = [lenDist EXCEPT ![s] =
                      IF s = Client /\ \E i \in DOMAIN packets : packets[i].type = "seed"
                      THEN Server ELSE @]
     /\ ended' = [ended EXCEPT ![s] = k = 0 \/ packets # buf]
  /\ rcvBuf' = [rcvBuf EXCEPT ![s] = <<>>]
  /\ stream' = [stream EXCEPT ![s] = Unread(s, k)]
  /\ UNCHANGED <<connVars, closed, given, written>>

\* The network reports the end only when it has given everything.
ReadEnd(s) ==
  /\ closed[Peer(s)]
  /\ stream[s] = <<>>
  /\ ReadPackets(s, 0)

\* Read gives its user what is decoded, with the error if there is one.
Read(s) ==
  /\ Usable(s)
  /\ decoded[s] # <<>>
  /\ given' = [given EXCEPT ![s] = @ \o decoded[s]]
  /\ decoded' = [decoded EXCEPT ![s] = <<>>]
  /\ UNCHANGED <<connVars, lenDist, stream, rcvBuf, closed, ended, written>>

\* The user of s closes the connection.
Close(s) ==
  /\ phase[s] = "ready"
  /\ ~closed[s]
  /\ closed' = [closed EXCEPT ![s] = TRUE]
  /\ UNCHANGED <<connVars, lenDist, stream, rcvBuf, decoded, ended, given, written>>

-----------------------------------------------------------------------------
Receive(s) ==
  \E k \in 1 .. Len(stream[s]) :
    \/ HandshakeContinues(s, k)
    \/ s = Server /\ (ServerHandshake(k) \/ ServerClearFails(k))
    \/ s = Client /\ (ClientHandshake(k) \/ ClientClearFails(k))
    \/ ReadPackets(s, k)

Next ==
  \E s \in Sides :
    \/ Receive(s)
    \/ HandshakeFails(s)
    \/ Write(s)
    \/ ReadEnd(s)
    \/ Read(s)
    \/ Close(s)

Spec == Init /\ [][Next]_vars

\* The network delivers, and the relay calls Read again and again.
FairSpec ==
  /\ Spec
  /\ \A s \in Sides : WF_vars(Receive(s)) /\ WF_vars(ReadEnd(s)) /\ WF_vars(Read(s))

-----------------------------------------------------------------------------
\* From the moment a handshake ends, no byte of the relayed stream is lost,
\* doubled or reordered: what the user was given, what is decoded, what is
\* in the receive buffer (whatever the handshake left there) and what is on
\* its way are together all that the peer wrote.
PayloadConserved ==
  \A s \in Sides :
    Usable(s) =>
      given[s] \o decoded[s] \o PayloadsOf(rcvBuf[s] \o stream[s])
        = [i \in 1 .. written[Peer(s)] |-> i]

\* "all decoded data gets relayed before the connection is torn down": when
\* Read reports the end of the stream, its user has, or gets with it, all
\* that the peer wrote.
EndAfterAllData ==
  \A s \in Sides :
    Usable(s) /\ ended[s] => Len(given[s] \o decoded[s]) = written[Peer(s)]

\* The length distribution of the client is the server's before the first
\* payload of the server reaches its user, and the server's never changes:
\* the seed precedes every payload and no peer can re-seed a server.
SeedBeforePayload ==
  /\ lenDist[Server] = Server
  /\ given[Client] # <<>> => lenDist[Client] = Server

\* What the client writes reaches the server's user, unless someone closes.
UpstreamArrives ==
  \A n \in 1 .. MaxWrites :
    written[Client] >= n
      ~> (Len(given[Server]) >= n \/ closed[Client] \/ closed[Server])

\* What the server writes reaches the client's user, unless someone closes:
\* "the server can and will send payload trailing the response".
DownstreamArrives ==
  \A n \in 1 .. MaxWrites :
    written[Server] >= n
      ~> (Len(given[Client]) >= n \/ closed[Client] \/ closed[Server])
=============================================================================
