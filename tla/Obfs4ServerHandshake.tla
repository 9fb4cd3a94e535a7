------------------------ MODULE Obfs4ServerHandshake ------------------------
(***************************************************************************)
(* The server side of the obfs4 handshake: WrapConn, serverHandshake,      *)
(* parseClientHandshake and closeAfterDelay of transports/obfs4, run by    *)
(* one goroutine per accepted connection, all of them sharing the server   *)
(* factory's replay filter and reading the system clock as they go.        *)
(*                                                                         *)
(* A client request is a model value: its mark is found once all of it has *)
(* arrived, and its MAC covers the hour the client believed it was, so the *)
(* server's MAC comparison is a comparison of hours.  The ntor computation *)
(* and the response are a success or a failure.                            *)
(***************************************************************************)
EXTENDS ReplayFilter

CONSTANTS
  Conns,          \* connection slots of the server, reused after a close
  HourLength,     \* clock ticks per hour
  Skews,          \* by how many hours a client's clock may be off
  MaxTime,        \* bound: the last tick of the clock
  MaxDeliveries,  \* bound: how often one request is put on the wire
  NoMsg           \* no request received yet

ASSUME HandshakeAssumption ==
  /\ HourLength \in Nat \ {0}
  /\ NoMsg \notin Digests
  /\ Skews \subseteq Int
  /\ MaxTime \in Nat /\ HourLength <= MaxTime
  /\ 0 .. MaxTime \subseteq Times

\* replayTTL is three hours.
ASSUME ReplayTTLAssumption == TTL = 3 * HourLength

Msgs == Digests   \* a request, identified with the digest of its MAC_C

NotSent == 0 - 99  \* no clock of the model shows this hour

VARIABLES
  clock,       \* the system clock, in ticks
  sentHour,    \* sentHour[m] = the hour in MAC_C of m, or NotSent
  deliveries,  \* deliveries[m] = how many connections received m so far
  pc,          \* pc[c] = where the goroutine of connection c is
  msg,         \* msg[c] = the request connection c received
  off,         \* off[c] = the iteration of the epoch loop c is in
  stamp,       \* stamp[c] = the time.Now() taken for TestAndSet
  macFound,    \* macFound[c] = the local variable of that name
  err,         \* err[c] = why the handshake of c failed
  admitted,    \* admitted[m] = the stamps under which the filter let m pass
  schedule     \* history: "steady" while the clock has not ticked during the
               \* parsing of a request; then "orderly" while the filter's lock
               \* is taken in the order of the stamps; "overtaken" after that

connVars == <<pc, msg, off, stamp, macFound, err>>
vars == <<clock, sentHour, deliveries, connVars, admitted, schedule, filterVars>>

\* "Allow epoch to be off by up to a hour in either direction."
OffsetsOneMore == <<0, -1, 1, -2>>  \* mutant: a window of four hours

Offsets == <<0, -1, 1>>

Hour(t) == t \div HourLength        \* getEpochHour

Init ==
  /\ FilterInit
  /\ clock = HourLength
  /\ sentHour = [m \in Msgs |-> NotSent]
  /\ deliveries = [m \in Msgs |-> 0]
  /\ pc = [c \in Conns |-> "closed"]
  /\ msg = [c \in Conns |-> NoMsg]
  /\ off = [c \in Conns |-> 1]
  /\ stamp = [c \in Conns |-> 0]
  /\ macFound = [c \in Conns |-> FALSE]
  /\ err = [c \in Conns |-> "none"]
  /\ admitted = [m \in Msgs |-> <<>>]
  /\ schedule = "steady"

-----------------------------------------------------------------------------
(* The environment: time, clients and the network.                         *)

Parsing(c) == pc[c] \in {"mac", "stamp", "filter"}

Tick ==
  /\ clock < MaxTime
  /\ clock' = clock + 1
  /\ schedule' = IF schedule = "steady" /\ \E c \in Conns : Parsing(c)
                 THEN "orderly" ELSE schedule
  /\ UNCHANGED <<sentHour, deliveries, connVars, admitted, filterVars>>

\* clientHandshake.generateHandshake: the MAC covers the client's hour.
Generate(m) ==
  /\ sentHour[m] = NotSent
  /\ \E skew \in Skews : sentHour' = [sentHour EXCEPT ![m] = Hour(clock) + skew]
  /\ UNCHANGED <<clock, deliveries, connVars, admitted, schedule, filterVars>>

-----------------------------------------------------------------------------
(* The goroutine of one connection.                                        *)

\* serverAcceptLoop hands a connection to WrapConn, which arms the timeout.
Accept(c) ==
  /\ pc[c] = "closed"
  /\ pc' = [pc EXCEPT ![c] = "reading"]
  /\ UNCHANGED <<clock, sentHour, deliveries, msg, off, stamp, macFound, err,
                 admitted, schedule, filterVars>>

Fail(c, e) ==
  /\ pc' = [pc EXCEPT ![c] = "draining"]
  /\ err' = [err EXCEPT ![c] = e]

\* A read error or the 30 s deadline, or maxHandshakeLength bytes came in
\* which there is no mark.
StopReading(c) ==
  /\ pc[c] = "reading"
  /\ Fail(c, "invalid")
  /\ UNCHANGED <<clock, sentHour, deliveries, msg, off, stamp, macFound,
                 admitted, schedule, filterVars>>

\* The last byte of a request has been read and findMarkMac found the mark.
\* (Until then ErrMarkNotFoundYet sends the goroutine back to its Read.)
ReceiveRequest(c, m) ==
  /\ pc[c] = "reading"
  /\ sentHour[m] # NotSent
  /\ deliveries[m] < MaxDeliveries
  /\ deliveries' = [deliveries EXCEPT ![m] = @ + 1]
  /\ msg' = [msg EXCEPT ![c] = m]
  /\ pc' = [pc EXCEPT ![c] = "mac"]
  /\ UNCHANGED <<clock, sentHour, off, stamp, macFound, err, admitted, schedule, filterVars>>

\* Mutant: the loop does not get on.
AdvanceNot(c) == UNCHANGED off

\* The next iteration of the epoch loop.
Advance(c) == off' = [off EXCEPT ![c] = @ + 1]

\* One iteration of the epoch loop up to hmac.Equal.  getEpochHour is called
\* anew in each iteration, and a match does not leave the loop.
CompareMac(c) ==
  /\ pc[c] = "mac"
  /\ off[c] <= Len(Offsets)
  /\ IF Hour(clock) + Offsets[off[c]] = sentHour[msg[c]]
     THEN pc' = [pc EXCEPT ![c] = "stamp"] /\ UNCHANGED off
     ELSE Advance(c) /\ UNCHANGED pc
  /\ UNCHANGED <<clock, sentHour, deliveries, msg, stamp, macFound, err,
                 admitted, schedule, filterVars>>

\* time.Now() is evaluated before TestAndSet takes the filter's lock ...
ReadClock(c) ==
  /\ pc[c] = "stamp"
  /\ stamp' = [stamp EXCEPT ![c] = clock]
  /\ pc' = [pc EXCEPT ![c] = "filter"]
  /\ UNCHANGED <<clock, sentHour, deliveries, msg, off, macFound, err,
                 admitted, schedule, filterVars>>

\* ... and this is the part of the call that runs under the lock.
CheckReplay(c) ==
  /\ pc[c] = "filter"
  /\ TestAndSet(stamp[c], msg[c])
  /\ stamp' = [stamp EXCEPT ![c] = 0]
  /\ schedule' = IF \E d \in Conns : pc[d] = "filter" /\ stamp[d] < stamp[c]
                 THEN "overtaken" ELSE schedule
  /\ IF Seen(stamp[c], msg[c])
     THEN Fail(c, "replayed") /\ UNCHANGED <<off, macFound, admitted>>
     ELSE /\ macFound' = [macFound EXCEPT ![c] = TRUE]
          /\ Advance(c)
          /\ pc' = [pc EXCEPT ![c] = "mac"]
          /\ admitted' = [admitted EXCEPT ![msg[c]] = Append(@, stamp[c])]
          /\ UNCHANGED err
  /\ UNCHANGED <<clock, sentHour, deliveries, msg>>

\* After the loop: no MAC matched; or bytes trail the request, ntor fails or
\* the response cannot be written; or the handshake is complete.
FinishParse(c) ==
  /\ pc[c] = "mac"
  /\ off[c] > Len(Offsets)
  /\ \/ ~macFound[c] /\ Fail(c, "invalid")
     \/ macFound[c] /\ Fail(c, "invalid")
     \/ macFound[c] /\ pc' = [pc EXCEPT ![c] = "established"] /\ UNCHANGED err
  /\ UNCHANGED <<clock, sentHour, deliveries, msg, off, stamp, macFound,
                 admitted, schedule, filterVars>>

\* The connection is closed and its goroutine's variables go with it.
Close(c) ==
  /\ pc' = [pc EXCEPT ![c] = "closed"]
  /\ msg' = [msg EXCEPT ![c] = NoMsg]
  /\ off' = [off EXCEPT ![c] = 1]
  /\ macFound' = [macFound EXCEPT ![c] = FALSE]
  /\ err' = [err EXCEPT ![c] = "none"]
  /\ UNCHANGED <<clock, sentHour, deliveries, stamp, admitted, schedule, filterVars>>

\* closeAfterDelay discards input until its deadline and closes.
CloseAfterDelay(c) == pc[c] = "draining" /\ Close(c)

\* The relayed connection ends some day.
Disconnect(c) == pc[c] = "established" /\ Close(c)

Handshake(c) ==
  \/ CompareMac(c)
  \/ ReadClock(c)
  \/ CheckReplay(c)
  \/ FinishParse(c)
  \/ CloseAfterDelay(c)

Next ==
  \/ Tick
  \/ \E m \in Msgs : Generate(m)
  \/ \E c \in Conns :
       \/ Accept(c)
       \/ StopReading(c)
       \/ \E m \in Msgs : ReceiveRequest(c, m)
       \/ CompareMac(c)
       \/ ReadClock(c)
       \/ CheckReplay(c)
       \/ FinishParse(c)
       \/ CloseAfterDelay(c)
       \/ Disconnect(c)

Spec == Init /\ [][Next]_vars

-----------------------------------------------------------------------------
\* replayTTL is exactly as long as a request stays acceptable: the filter may
\* forget a request only once its hour is out of the window of Offsets, so
\* a request establishes at most one session however often it is delivered,
\* as long as no parse straddles a tick of the clock.
AdmittedOnce ==
  schedule = "steady" => \A m \in Msgs : Len(admitted[m]) <= 1

\* Whenever the clock ticks: one request passes the filter twice only if the
\* two passes are a full TTL apart, or if a goroutine overtook another one.
AdmittedTwiceApart ==
  schedule # "overtaken" =>
    \A m \in Msgs : \A i, j \in 1 .. Len(admitted[m]) :
      i < j => admitted[m][j] - admitted[m][i] >= TTL

\* "The client either happened to generate exactly the same session key and
\* padding, or someone is replaying a previous handshake": unless a parse
\* straddles a tick, a request delivered once is not reported as a replay.
ReplayMeansSecondDelivery ==
  schedule = "steady" =>
    \A c \in Conns : err[c] = "replayed" => deliveries[msg[c]] > 1
=============================================================================
