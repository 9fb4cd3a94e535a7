----------------------------- MODULE SocksServer -----------------------------
(***************************************************************************)
(* A SOCKS5 client of lyrebird, from its first byte to the relay.  The     *)
(* server reads through a buffer, but the relay reads the connection, so   *)
(* that every message must end where the buffer does.  A message is two    *)
(* parts, which the network delivers cut anywhere.                         *)
(***************************************************************************)
EXTENDS Integers, Sequences, SequencesExt

CONSTANT ArgLists    \* the arguments clients send: sequences of <<key, value>>

\* No list is empty (such a client offers no password) and no key is.
ASSUME ArgsAssumption ==
  \A args \in ArgLists :
    /\ args # <<>> /\ args \in Seq(Seq(STRING) \X Seq(STRING))
    /\ \A i \in 1 .. Len(args) : args[i][1] # <<>>

VARIABLES
  script,       \* the messages the client has still to send
  lockstep,     \* the client waits for every answer
  offered,      \* the best method it offers: "password", "none" or "other"
  sentArgs,     \* the arguments it sends
  argStr,       \* the same as the string that goes out
  fromClient,   \* parts on the way
  rdBuf,        \* the server's bufio.Reader
  socksAt,      \* "method", "auth", "command", "dial", "relay" or "refused"
  answers,      \* answers the client has got, to go on with
  parsedArgs,   \* req.Args
  excused       \* history: a bad message, a failure or a deadline

socksVars == <<script, lockstep, offered, sentArgs, argStr, fromClient, rdBuf,
               socksAt, answers, parsedArgs, excused>>

\* The characters that stand for themselves only behind a "\".
Special == {"\\", "=", ";"}

\* How tor writes arguments: key=value, joined by ";", with \ before the special.
Escape(s) == FlattenSeq([i \in 1 .. Len(s) |-> IF s[i] \in Special THEN <<"\\", s[i]>> ELSE <<s[i]>>])
Encode(args) ==
  FlattenSeq([i \in 1 .. Len(args) |->
    (IF i = 1 THEN <<>> ELSE <<";">>) \o Escape(args[i][1]) \o <<"=">> \o Escape(args[i][2])])

\* Strings that are no arguments, and what is in the place of their arguments.
Malformed == {<<"a">>, <<"=", "a">>, <<"a", "=", "\\">>, <<"a", "=", "\\", "a">>, <<"a", "=", "a", ";">>}
NotArgs == << <<>> >>

Parts(m, bad) == <<[of |-> m, nth |-> 1, bad |-> bad = 1], [of |-> m, nth |-> 2, bad |-> bad = 2]>>

\* The messages of a client, one of which may have an error in one of its parts.
Script(method) ==
  IF method = "password" THEN <<"method", "auth", "command", "payload">>
                         ELSE <<"method", "command", "payload">>

SocksInit ==
  /\ offered = "unknown" /\ lockstep = TRUE
  /\ script = <<>> /\ sentArgs = <<>> /\ argStr = <<>>
  /\ fromClient = <<>> /\ rdBuf = <<>>
  /\ socksAt = "method" /\ answers = 0 /\ parsedArgs = <<>> /\ excused = FALSE

ClientConnects(method, inStep) ==
  /\ offered = "unknown" /\ socksAt = "method"
  /\ offered' = method /\ lockstep' = inStep
  /\ script' = Script(method)
  /\ excused' = (method = "other")
  /\ UNCHANGED <<sentArgs, argStr, fromClient, rdBuf, socksAt, answers, parsedArgs>>

\* The client sends its next message, with an error in one of its parts if bad
\* is not 0.  The arguments go with "auth"; that they are cut into a user name
\* and a password (NUL, if there is nothing left for it) does not show in argStr.
ClientSends(bad, args, str) ==
  /\ script # <<>> /\ socksAt # "refused"
  /\ lockstep => answers = Len(Script(offered)) - Len(script)
  /\ Head(script) = "payload" => bad = 0
  /\ IF Head(script) = "auth" THEN args # <<>> /\ sentArgs' = args /\ argStr' = str
     ELSE args = <<>> /\ UNCHANGED <<sentArgs, argStr>>
  /\ fromClient' = fromClient \o Parts(Head(script), bad)
  /\ script' = Tail(script)
  /\ excused' = (excused \/ bad # 0 \/ args = NotArgs)
  /\ UNCHANGED <<lockstep, offered, rdBuf, socksAt, answers, parsedArgs>>

InHandshake == socksAt \in {"method", "auth", "command"}

BadPart == \E i \in DOMAIN rdBuf : i <= 2 /\ rdBuf[i].bad

\* The reader takes what is there, when a message is not complete.
FillBuffer(n) ==
  /\ InHandshake /\ Len(rdBuf) < 2 /\ ~BadPart
  /\ n \in 1 .. Len(fromClient)
  /\ rdBuf' = rdBuf \o SubSeq(fromClient, 1, n)
  /\ fromClient' = SubSeq(fromClient, n + 1, Len(fromClient))
  /\ UNCHANGED <<script, lockstep, offered, sentArgs, argStr, socksAt, answers, parsedArgs, excused>>

\* A field that is not as expected is seen as soon as it has come.
RefuseBadMessage ==
  /\ InHandshake /\ BadPart
  /\ socksAt' = "refused"
  /\ UNCHANGED <<script, lockstep, offered, sentArgs, argStr, fromClient, rdBuf, answers, parsedArgs, excused>>

\* Mutant: no look at what is left in the buffer.
AfterFlushAnyway(next, trailing) == next

\* Data behind a message is refused: the relay would not find it.
AfterFlush(next, trailing) == IF trailing # <<>> THEN "refused" ELSE next

\* flushBuffers, after a message: the answer goes out, and the buffer must be empty.
FlushBuffers(next) ==
  /\ rdBuf' = SubSeq(rdBuf, 3, Len(rdBuf))
  /\ answers' = answers + (IF next = "dial" THEN 0 ELSE 1)
  /\ socksAt' = AfterFlush(next, rdBuf')

NegotiateAuth ==
  /\ socksAt = "method" /\ Len(rdBuf) >= 2 /\ ~BadPart
  /\ FlushBuffers(CASE offered = "password" -> "auth" [] offered = "none" -> "command" [] OTHER -> "refused")
  /\ UNCHANGED <<script, lockstep, offered, sentArgs, argStr, fromClient, parsedArgs, excused>>

\* Mutant: any ";" at the end is refused.
BadSemicolonAny(p, last) == p.key = <<>> \/ last

\* parseClientParameters: a ";" that separates nothing, or that ends the string.
BadSemicolon(p, last) == p.esc = FALSE /\ (p.key = <<>> \/ last)

\* ... for one character; p.key is <<>> while there is none.
Parse1(p, ch, last) ==
  LET plain == [p EXCEPT !.acc = Append(@, ch), !.esc = FALSE]
      error == [p EXCEPT !.err = TRUE]
  IN CASE p.err -> p
       [] ~p.err /\ ch = "\\" -> IF p.esc THEN plain ELSE [p EXCEPT !.esc = TRUE]
       [] ~p.err /\ ch = "=" ->
            IF p.esc \/ p.key # <<>> THEN plain
            ELSE IF p.acc = <<>> THEN error ELSE [p EXCEPT !.key = p.acc, !.acc = <<>>]
       [] ~p.err /\ ch = ";" ->
            IF BadSemicolon(p, last) THEN error
            ELSE IF p.esc THEN plain
            ELSE [p EXCEPT !.args = Append(@, <<p.key, p.acc>>), !.key = <<>>, !.acc = <<>>]
       [] OTHER -> IF p.esc THEN error ELSE plain

\* The whole string: the arguments, or NotArgs.
ParseClientParameters(str) ==
  LET parsed[i \in 0 .. Len(str)] ==
        IF i = 0 THEN [args |-> <<>>, key |-> <<>>, acc |-> <<>>, esc |-> FALSE, err |-> FALSE]
                 ELSE Parse1(parsed[i - 1], str[i], i = Len(str))
      p == parsed[Len(str)]
  IN CASE str = <<>> -> <<>>
       [] str # <<>> /\ (p.err \/ p.esc \/ p.key = <<>>) -> NotArgs
       [] OTHER -> Append(p.args, <<p.key, p.acc>>)

\* authenticate, which flushes the answer itself when all is well.
Authenticate ==
  /\ socksAt = "auth" /\ Len(rdBuf) >= 2 /\ ~BadPart
  /\ LET args == ParseClientParameters(argStr) IN
     IF args = NotArgs
     THEN socksAt' = "refused" /\ UNCHANGED <<rdBuf, answers, parsedArgs>>
     ELSE FlushBuffers("command") /\ parsedArgs' = args
  /\ argStr' = <<>>
  /\ UNCHANGED <<script, lockstep, offered, sentArgs, fromClient, excused>>

\* readCommand ends the handshake; it leaves the answer to clientHandler.
ReadCommand ==
  /\ socksAt = "command" /\ Len(rdBuf) >= 2 /\ ~BadPart
  /\ FlushBuffers("dial")
  /\ UNCHANGED <<script, lockstep, offered, sentArgs, argStr, fromClient, parsedArgs, excused>>

\* The deadline of the handshake (also in the relay, when disarming it failed:
\* that error is lost), or an error of the connection.
SocksFails ==
  /\ socksAt # "refused"
  /\ socksAt' = "refused" /\ excused' = TRUE
  /\ UNCHANGED <<script, lockstep, offered, sentArgs, argStr, fromClient, rdBuf, answers, parsedArgs>>

\* clientHandler: the arguments suit the transport and its Dial succeeds.
\* Reply flushes once more, and the relay starts.
DialSucceeds ==
  /\ socksAt = "dial"
  /\ answers' = answers + 1
  /\ socksAt' = AfterFlush("relay", rdBuf)
  /\ UNCHANGED <<script, lockstep, offered, sentArgs, argStr, fromClient, rdBuf, parsedArgs, excused>>

SocksNext ==
  \/ \E method \in {"password", "none", "other"}, inStep \in BOOLEAN : ClientConnects(method, inStep)
  \/ \E bad \in 0 .. 2 :
       \/ \E args \in ArgLists : ClientSends(bad, args, Encode(args))
       \/ ClientSends(bad, <<>>, <<>>)
  \/ \E str \in Malformed : ClientSends(0, NotArgs, str)
  \/ \E n \in 1 .. Len(fromClient) : FillBuffer(n)
  \/ RefuseBadMessage \/ NegotiateAuth \/ Authenticate \/ ReadCommand
  \/ SocksFails \/ DialSucceeds

SocksSpec == SocksInit /\ [][SocksNext]_socksVars

-----------------------------------------------------------------------------
\* When the relay starts, the transport was dialled with the arguments that the
\* client had sent, whatever they contain, and nothing of what the client wants
\* relayed has stayed behind in the buffer of the handshake.
SocksRelaysCleanly ==
  socksAt = "relay" =>
    /\ parsedArgs = sentArgs
    /\ rdBuf = <<>>
    /\ fromClient = IF script = <<>> THEN Parts("payload", 0) ELSE <<>>

\* A client that waits for every answer and sends what is right is not refused
\* unless something outside has failed.
LockstepNeverRefused == socksAt = "refused" /\ lockstep => excused
=============================================================================
