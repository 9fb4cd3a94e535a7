---------------------------- MODULE UpstreamProxy ----------------------------
(***************************************************************************)
(* Dialling a bridge through an upstream proxy, and what is read from the  *)
(* connection afterwards.  A bridge of obfs2 or obfs3 speaks first, so its *)
(* bytes may come together with the proxy's answer.  The answer is two     *)
(* parts; the network cuts anywhere.                                       *)
(***************************************************************************)
EXTENDS Integers, Sequences

CONSTANT MaxBytes    \* BOUND: what the bridge sends

ASSUME UpstreamProxyAssumption == MaxBytes \in Nat

VARIABLES
  proxyKind,      \* "none" before the dial, "http" or "socks4a"
  proxyAt,        \* "dial", "asked", "open" or "failed"
  fromProxy,      \* what the network holds
  answered,       \* the proxy has
  bridgeSent,     \* history: bytes of the bridge
  staleReader,    \* the buffer of the HTTP client, also after Hijack
  stale,          \* httpConn still has it
  proxyRead       \* history: what Read has returned

proxyVars == <<proxyKind, proxyAt, fromProxy, answered, bridgeSent, staleReader, stale, proxyRead>>

Answer(granted) == IF granted THEN <<-2, -1>> ELSE <<-4, -3>>
Granted(answer) == answer = <<-2, -1>>

ProxyInit ==
  /\ proxyKind = "none" /\ proxyAt = "dial"
  /\ fromProxy = <<>> /\ answered = FALSE /\ bridgeSent = 0
  /\ staleReader = <<>> /\ stale = FALSE /\ proxyRead = <<>>

\* Both kinds of Dial: connect to the proxy and send the request.
ProxyDial(kind) ==
  /\ proxyAt = "dial"
  /\ proxyKind' = kind /\ proxyAt' = "asked"
  /\ UNCHANGED <<fromProxy, answered, bridgeSent, staleReader, stale, proxyRead>>

\* An address that cannot be used, or an error of the connection.
ProxyDialFails ==
  /\ proxyAt \in {"dial", "asked"}
  /\ proxyAt' = "failed"
  /\ UNCHANGED <<proxyKind, fromProxy, answered, bridgeSent, staleReader, stale, proxyRead>>

ProxyAnswers(granted) ==
  /\ proxyAt = "asked" /\ ~answered
  /\ answered' = TRUE
  /\ fromProxy' = fromProxy \o Answer(granted)
  /\ UNCHANGED <<proxyKind, proxyAt, bridgeSent, staleReader, stale, proxyRead>>

BridgeSends ==
  /\ answered /\ bridgeSent < MaxBytes
  /\ bridgeSent' = bridgeSent + 1
  /\ fromProxy' = Append(fromProxy, bridgeSent + 1)
  /\ UNCHANGED <<proxyKind, proxyAt, answered, staleReader, stale, proxyRead>>

\* httputil.ClientConn reads through a buffer, which takes what there is.
HTTPFill(n) ==
  /\ proxyKind = "http" /\ proxyAt = "asked" /\ Len(staleReader) < 2
  /\ n \in 1 .. Len(fromProxy)
  /\ staleReader' = staleReader \o SubSeq(fromProxy, 1, n)
  /\ fromProxy' = SubSeq(fromProxy, n + 1, Len(fromProxy))
  /\ UNCHANGED <<proxyKind, proxyAt, answered, bridgeSent, stale, proxyRead>>

\* Do returns the response; Hijack gives the connection and the buffer back.
HTTPResponse ==
  /\ proxyKind = "http" /\ proxyAt = "asked" /\ Len(staleReader) >= 2
  /\ proxyAt' = IF Granted(SubSeq(staleReader, 1, 2)) THEN "open" ELSE "failed"
  /\ staleReader' = SubSeq(staleReader, 3, Len(staleReader))
  /\ stale' = TRUE
  /\ UNCHANGED <<proxyKind, fromProxy, answered, bridgeSent, proxyRead>>

\* io.ReadFull of exactly the answer.
SOCKS4Response ==
  /\ proxyKind = "socks4a" /\ proxyAt = "asked" /\ Len(fromProxy) >= 2
  /\ proxyAt' = IF Granted(SubSeq(fromProxy, 1, 2)) THEN "open" ELSE "failed"
  /\ fromProxy' = SubSeq(fromProxy, 3, Len(fromProxy))
  /\ UNCHANGED <<proxyKind, answered, bridgeSent, staleReader, stale, proxyRead>>

\* Mutant: the buffer is dropped at the first Read.
ReadsStaleNever == FALSE

\* httpConn.Read looks at the buffer first.
ReadsStale == stale /\ staleReader # <<>>

ProxyConnRead(n) ==
  /\ proxyAt = "open"
  /\ n \in 1 .. Len(IF ReadsStale THEN staleReader ELSE fromProxy)
  /\ IF ReadsStale
     THEN /\ proxyRead' = proxyRead \o SubSeq(staleReader, 1, n)
          /\ staleReader' = SubSeq(staleReader, n + 1, Len(staleReader))
          /\ UNCHANGED <<fromProxy, stale>>
     ELSE /\ proxyRead' = proxyRead \o SubSeq(fromProxy, 1, n)
          /\ fromProxy' = SubSeq(fromProxy, n + 1, Len(fromProxy))
          /\ stale' = FALSE
          /\ UNCHANGED staleReader
  /\ UNCHANGED <<proxyKind, proxyAt, answered, bridgeSent>>

ProxyNext ==
  \/ \E kind \in {"http", "socks4a"} : ProxyDial(kind)
  \/ ProxyDialFails \/ HTTPResponse \/ SOCKS4Response \/ BridgeSends
  \/ \E granted \in BOOLEAN : ProxyAnswers(granted)
  \/ \E n \in 1 .. Len(fromProxy) + Len(staleReader) : HTTPFill(n) \/ ProxyConnRead(n)

ProxySpec == ProxyInit /\ [][ProxyNext]_proxyVars

-----------------------------------------------------------------------------
\* A transport reads through a proxy what it would read without one: the bytes
\* of the bridge and no others, in order, and a Read that waits has returned all,
\* those that came with the proxy's answer included.
ProxyConserves ==
  proxyAt = "open" =>
    /\ proxyRead = [i \in 1 .. Len(proxyRead) |-> i]
    /\ ~ReadsStale /\ fromProxy = <<>> => Len(proxyRead) = bridgeSent
=============================================================================
