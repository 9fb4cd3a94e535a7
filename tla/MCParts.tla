------------------------------- MODULE MCParts -------------------------------
(* The parts of the process that share no state, each on a small instance. *)
(* A behaviour is a behaviour of one of them, the others stay as they are. *)
EXTENDS StateFile, TicketStore, Obfs23, Scramblesuit, ScramblesuitWrite, Obfs4Write,
        ProbDist, ServerNames, SocksServer, UpstreamProxy, HandshakeBytes

CONSTANTS n1, n2, n3

VARIABLE part    \* the one that runs

PartNames == {"state file", "tickets", "obfs23", "scramblesuit", "scramblesuit write",
              "obfs4 write", "distribution", "names", "socks", "proxy", "handshake bytes"}

PartsInit ==
  /\ part \in PartNames
  /\ StateInit /\ TicketInit /\ Obfs23Init /\ ScramblesuitInit /\ SsWriteInit
  /\ WriteInit /\ DistInit /\ NamesInit /\ SocksInit /\ ProxyInit
  /\ HandshakeBytesInit
  \* What only another part would tell apart is not multiplied.
  /\ part # "tickets" => proxied = FALSE
  /\ part # "obfs23" => version = "obfs3"
  /\ part # "obfs4 write" => iatMode = iatNone
  /\ part # "handshake bytes" =>
       clientHour = serverHour /\ markAt = RepresentativeLength + clientMinPadLength

Only(p) ==
  /\ part = p /\ UNCHANGED part
  /\ p # "state file" => UNCHANGED stateVars
  /\ p # "tickets" => UNCHANGED ticketVars
  /\ p # "obfs23" => UNCHANGED obfs23Vars
  /\ p # "scramblesuit" => UNCHANGED ssVars
  /\ p # "scramblesuit write" => UNCHANGED ssWriteVars
  /\ p # "obfs4 write" => UNCHANGED writeVars
  /\ p # "distribution" => UNCHANGED distVars
  /\ p # "names" => UNCHANGED namesVars
  /\ p # "socks" => UNCHANGED socksVars
  /\ p # "proxy" => UNCHANGED proxyVars
  /\ p # "handshake bytes" => UNCHANGED handshakeBytesVars

PartsNext ==
  \/ Only("state file") /\ StateNext
  \/ Only("tickets") /\ TicketNext
  \/ Only("obfs23") /\ Obfs23Next
  \/ Only("scramblesuit") /\ ScramblesuitNext
  \/ Only("scramblesuit write") /\ SsWriteNext
  \/ Only("obfs4 write") /\ WriteNext
  \/ Only("distribution") /\ DistNext
  \/ Only("names") /\ NamesNext
  \/ Only("socks") /\ SocksNext
  \/ Only("proxy") /\ ProxyNext
  \/ Only("handshake bytes") /\ HandshakeBytesNext

partsVars == <<part, stateVars, ticketVars, obfs23Vars, ssVars, ssWriteVars, writeVars,
               distVars, namesVars, socksVars, proxyVars, handshakeBytesVars>>

PartsSpec == PartsInit /\ [][PartsNext]_partsVars

-----------------------------------------------------------------------------
\* obfs4 and scramblesuit: every sample there is, and writes that hit the edges
\* of a packet.
MCValues == 0 .. MaximumSegmentLength
MCLengths == {1, 700, 1406, 1426, 1427, 1428, 2854}

\* Lists of names, some with nothing in them.
MCSpecs == {<<n1, n2, n3>>, <<Blank, n1, Blank>>, <<Blank, Blank>>, <<Blank>>}

\* Arguments with and without the characters that are escaped, and a key twice.
MCArgLists ==
  LET Texts == {<<>>, <<"=">>, <<"\\", ";">>}
      Keys == {<<"a">>, <<"=">>, <<"\\", ";">>}
  IN {<< <<k, v>> >> : k \in Keys, v \in Texts}
       \cup {<< <<<<"a">>, <<>>>>, <<<<"a">>, v>> >> : v \in Texts}
=============================================================================
