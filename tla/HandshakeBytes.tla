--------------------------- MODULE HandshakeBytes ---------------------------
(***************************************************************************)
(* Where the two messages of an obfs4 handshake begin and end, with the    *)
(* lengths of the code: an honest client and an honest server, whose       *)
(* messages arrive cut at any byte.  A buffer is its length, and a mark    *)
(* the place where the sender wrote it: random padding holds no mark.      *)
(* Obfs4ServerHandshake has what the server's goroutines share.            *)
(***************************************************************************)
EXTENDS Integers

CONSTANTS
  Near,      \* BOUND: reads end, and paddings lie, this near to an edge
  Payloads   \* BOUND: how much payload a server sends behind its seed frame

ASSUME HandshakeBytesAssumption == Near \in Nat /\ Payloads \subseteq Nat

markLength == 16
macLength == 16
RepresentativeLength == 32
AuthLength == 32
maxHandshakeLength == 8192
inlineSeedFrameLength == 18 + 3 + 24   \* FrameOverhead, packetOverhead, the seed

clientMinHandshakeLength == RepresentativeLength + markLength + macLength
serverMinHandshakeLength == clientMinHandshakeLength + AuthLength

clientMinPadLength ==
  (serverMinHandshakeLength + inlineSeedFrameLength) - clientMinHandshakeLength
clientMaxPadLength == maxHandshakeLength - clientMinHandshakeLength
serverMinPadLength == 0

serverMaxPadLength == maxHandshakeLength - (serverMinHandshakeLength + inlineSeedFrameLength)

VARIABLES
  reader,        \* who reads: "server", then "client"; "done"; "refused"
  markAt,        \* where the mark of the message being read is
  total,         \* the length of that message and of what its sender sent behind it
  received,      \* the length of the reader's receiveBuffer
  clientHour,    \* the hour in the client's message (its hs.epochHour)
  serverHour,    \* what getEpochHour tells the server
  agreedHour,    \* the hour in the response (the server's hs.epochHour)
  firstFlights   \* history: the lengths of what each side sent first

handshakeBytesVars == <<reader, markAt, total, received, clientHour, serverHour, agreedHour,
                        firstFlights>>

\* csrand.IntRange(lo, hi), as far as it is near an end of the range.
IntRange(lo, hi) == ((lo .. lo + Near) \cup (hi - Near .. hi)) \cap (lo .. hi)

\* clientHandshake.generateHandshake: X, the padding, the mark, the MAC.  The
\* client's clock is off by an hour at most, or the hour has just changed.
HandshakeBytesInit ==
  /\ reader = "server"
  /\ \E padLen \in IntRange(clientMinPadLength, clientMaxPadLength) :
       /\ markAt = RepresentativeLength + padLen
       /\ total = markAt + markLength + macLength
  /\ received = 0
  /\ serverHour = 1 /\ clientHour \in {0, 1, 2} /\ agreedHour = 0
  /\ firstFlights = {total}

\* The lengths a receiveBuffer can have after the next Read of at most
\* maxHandshakeLength bytes, near the places that the parsers look at.
Filled ==
  LET edges == {clientMinHandshakeLength, serverMinHandshakeLength, markAt,
                markAt + markLength, markAt + markLength + macLength,
                maxHandshakeLength, total}
  IN {l \in UNION {e - Near .. e + Near : e \in edges} :
        received < l /\ l <= received + maxHandshakeLength /\ l <= total}

\* Mutant: the substring search does not ask for room for the MAC.
FindMarkMacAnywhere(length, startPos, maxPos, fromTail) ==
  LET endPos == IF length > maxPos THEN maxPos ELSE length
  IN IF fromTail
     THEN IF endPos - startPos >= markLength + macLength /\ endPos = markAt + markLength + macLength
          THEN markAt ELSE -1
     ELSE IF startPos <= markAt /\ markAt + markLength <= endPos THEN markAt ELSE -1

\* findMarkMac: at the tail of what has come (server), or anywhere in it with
\* room for the MAC behind it (client).
FindMarkMac(length, startPos, maxPos, fromTail) ==
  LET endPos == IF length > maxPos THEN maxPos ELSE length
      found == /\ endPos - startPos >= markLength + macLength
               /\ IF fromTail
                  THEN markAt = endPos - (markLength + macLength)
                  ELSE /\ startPos <= markAt /\ markAt + markLength <= endPos
                       /\ markAt + markLength + macLength <= endPos
  IN IF found THEN markAt ELSE -1

Refuse == reader' = "refused" /\ UNCHANGED <<markAt, total, agreedHour, firstFlights>>

\* ErrMarkNotFoundYet, or ErrInvalidHandshake once it is too late for a mark.
NotFoundYet(length) ==
  IF length >= maxHandshakeLength THEN Refuse
  ELSE UNCHANGED <<reader, markAt, total, agreedHour, firstFlights>>

\* serverHandshake.generateHandshake and the seed frame behind it: Y, AUTH,
\* padding, mark and a MAC over the hour that the client's MAC was good for.
Respond ==
  \E padLen \in IntRange(serverMinPadLength, serverMaxPadLength), payload \in Payloads :
    LET response == serverMinHandshakeLength + padLen IN
    /\ reader' = "client"
    /\ markAt' = RepresentativeLength + AuthLength + padLen
    /\ total' = response + inlineSeedFrameLength + payload
    /\ received' = 0
    /\ agreedHour' = clientHour
    /\ firstFlights' = firstFlights \cup {response + inlineSeedFrameLength}

\* A round of the loop in serverHandshake, with parseClientHandshake.
ServerReads(length) ==
  /\ reader = "server"
  /\ LET pos == FindMarkMac(length, RepresentativeLength + clientMinPadLength,
                            maxHandshakeLength, TRUE)
         macFound == \E off \in {0, -1, 1} : serverHour + off = clientHour
     IN IF length < clientMinHandshakeLength
        THEN received' = length
             /\ UNCHANGED <<reader, markAt, total, agreedHour, firstFlights>>
        ELSE IF pos = -1 THEN received' = length /\ NotFoundYet(length)
        ELSE IF ~macFound \/ length # pos + markLength + macLength
        THEN received' = length /\ Refuse
        ELSE Respond
  /\ UNCHANGED <<clientHour, serverHour>>

\* A round of the loop in clientHandshake, with parseServerHandshake: what is
\* behind the response stays in the buffer for the frame decoder.
ClientReads(length) ==
  /\ reader = "client"
  /\ LET pos == FindMarkMac(length, RepresentativeLength + AuthLength + serverMinPadLength,
                            maxHandshakeLength, FALSE)
         macFits == length >= pos + markLength + macLength /\ agreedHour = clientHour
     IN IF length < serverMinHandshakeLength
        THEN received' = length
             /\ UNCHANGED <<reader, markAt, total, agreedHour, firstFlights>>
        ELSE IF pos = -1 THEN received' = length /\ NotFoundYet(length)
        ELSE IF ~macFits THEN received' = length /\ Refuse
        ELSE /\ reader' = "done"
             /\ received' = length - (pos + markLength + macLength)
             /\ UNCHANGED <<markAt, total, agreedHour, firstFlights>>
  /\ UNCHANGED <<clientHour, serverHour>>

\* The hour may change while the client's message is on its way, as long as
\* that leaves the clocks an hour apart at most.
HourPasses ==
  /\ reader = "server" /\ serverHour = 1 /\ clientHour > 0
  /\ serverHour' = 2
  /\ UNCHANGED <<reader, markAt, total, received, clientHour, agreedHour, firstFlights>>

HandshakeBytesNext ==
  \/ HourPasses
  \/ \E length \in Filled : ServerReads(length) \/ ClientReads(length)

HandshakeBytesSpec == HandshakeBytesInit /\ [][HandshakeBytesNext]_handshakeBytesVars

-----------------------------------------------------------------------------
\* However long the paddings are, wherever the two messages are cut, whatever
\* comes behind the response and whatever the hours are: neither side refuses
\* the other, and a reader that has all of a message does not wait for more.  What
\* the two sides send first is of lengths from one range
\* ("rebalance this by tweaking the client minimum padding/server maximum padding").
HonestHandshakeCompletes ==
  /\ reader # "refused"
  /\ reader \in {"server", "client"} => received < markAt + markLength + macLength
  /\ \A l \in firstFlights :
       clientMinHandshakeLength + clientMinPadLength <= l /\ l <= maxHandshakeLength
=============================================================================
