------------------------------ MODULE MeekConn ------------------------------
(***************************************************************************)
(* A meek_lite client connection: the user's Write, Read and Close, the    *)
(* ioWorker goroutine between them and the HTTP server, the two bounded    *)
(* channels, and the retries of roundTrip over the list of fronts.         *)
(*                                                                         *)
(* Data is a sequence of units, numbered in each direction.  The poll      *)
(* timer may fire at any time; a request may be lost, and so may the       *)
(* response to a request that was served.                                  *)
(***************************************************************************)
EXTENDS Integers, Sequences, SequencesExt

CONSTANTS
  maxChanBacklog,     \* capacity of workerWrChan and of workerRdChan
  maxPayloadLength,   \* units in the body of a request or a response
  maxRetries,         \* requests one roundTrip makes at most
  Fronts,             \* len(fronts.list)
  Blocked,            \* the fronts that never work, of 0 .. Fronts - 1
  Malformed,          \* the other fronts that do not form a URL with theirs
  MaxChunk,           \* bound: units in one Write
  MaxUp, MaxDown,     \* bound: units written, and units the server has to send
  MaxLosses           \* bound: exchanges that fail on a front that works

ASSUME MeekAssumption ==
  /\ maxChanBacklog \in Nat \ {0} /\ maxPayloadLength \in Nat \ {0}
  /\ maxRetries \in Nat \ {0} /\ Fronts \in Nat \ {0}
  /\ Blocked \subseteq 0 .. (Fronts - 1)
  /\ Malformed \subseteq (0 .. (Fronts - 1)) \ Blocked
  /\ MaxChunk \in Nat \ {0} /\ MaxUp \in Nat /\ MaxDown \in Nat /\ MaxLosses \in Nat

VARIABLES
  closed,        \* workerCloseChan is closed
  worker,        \* where ioWorker is
  wrChan,        \* workerWrChan: a sequence of chunks
  rdChan,        \* workerRdChan: likewise
  sndBuf,        \* what ioWorker has gathered
  leftBuf,       \* what did not fit the last request
  retries,       \* requests this roundTrip has made
  index,         \* fronts.index
  served,        \* the server has had the body of this roundTrip
  rcvd,          \* the response on its way to workerRdChan
  writer,        \* the chunk a Write is waiting to enqueue, or <<>>
  rdBuf,         \* the rest of a chunk that Read has begun
  accepted,      \* history: units Write has taken
  upstream,      \* history: units the server got, repeats left out
  downstream,    \* history: units the server has sent
  arrived,       \* history: units the worker has received
  given,         \* history: units Read has returned
  readErr,       \* Read has returned io.ErrClosedPipe
  losses         \* exchanges that failed on a front that works

workerVars == <<worker, sndBuf, leftBuf, retries, index, served, rcvd>>
historyVars == <<accepted, upstream, downstream, arrived, given>>
vars == <<closed, workerVars, wrChan, rdChan, writer, rdBuf, historyVars, readErr, losses>>

\* The units from number from to number to.
Units(from, to) == [i \in 1 .. (to - from + 1) |-> from + i - 1]

\* What of sndBuf fits a request, and the rest.
Body == SubSeq(sndBuf, 1, Min({Len(sndBuf), maxPayloadLength}))
\* Mutant: the rest is not stashed.
NoRest == <<>>

Rest == SubSeq(sndBuf, Len(Body) + 1, Len(sndBuf))

Up == 1 .. MaxUp
Down == 1 .. MaxDown

Init ==
  /\ closed = FALSE
  /\ worker = "select"
  /\ wrChan = <<>> /\ rdChan = <<>>
  /\ sndBuf = <<>> /\ leftBuf = <<>>
  /\ retries = 0 /\ index = 0 /\ served = FALSE
  /\ rcvd = <<>> /\ writer = <<>> /\ rdBuf = <<>>
  /\ accepted = 0 /\ upstream = <<>> /\ downstream = 0 /\ arrived = <<>> /\ given = <<>>
  /\ readErr = FALSE
  /\ losses = 0

-----------------------------------------------------------------------------
(* The user.  One goroutine writes, one reads.                             *)

\* Write finds the connection open and goes on to enqueue n units.
Write(n) ==
  /\ writer = <<>>
  /\ ~closed
  /\ accepted + n <= MaxUp
  /\ writer' = Units(accepted + 1, accepted + n)
  /\ UNCHANGED <<closed, workerVars, wrChan, rdChan, rdBuf, historyVars, readErr, losses>>

\* A send on the channel does not wait.
HasRoom(channel) == Len(channel) < maxChanBacklog

\* enqueueWrite: the channel takes the chunk; or it is closed, which panics,
\* and Write returns an error.
EnqueueWrite ==
  /\ writer # <<>>
  /\ writer' = <<>>
  /\ \/ /\ worker # "gone"
        /\ HasRoom(wrChan)
        /\ wrChan' = Append(wrChan, writer)
        /\ accepted' = accepted + Len(writer)
     \/ /\ worker = "gone"
        /\ UNCHANGED <<wrChan, accepted>>
  /\ UNCHANGED <<closed, workerVars, rdChan, rdBuf, upstream, downstream, arrived,
                 given, readErr, losses>>

\* Read returns the next n units of the chunk it has begun, or begins one.
Read(n) ==
  /\ ~readErr
  /\ LET fresh == rdBuf = <<>>
         chunk == IF fresh THEN Head(rdChan) ELSE rdBuf IN
     /\ fresh => rdChan # <<>>
     /\ n <= Len(chunk)
     /\ given' = given \o SubSeq(chunk, 1, n)
     /\ rdBuf' = SubSeq(chunk, n + 1, Len(chunk))
     /\ rdChan' = IF fresh THEN Tail(rdChan) ELSE rdChan
  /\ UNCHANGED <<closed, workerVars, wrChan, writer, accepted, upstream, downstream,
                 arrived, readErr, losses>>

\* The channel is closed and drained.
ReadFails ==
  /\ ~readErr
  /\ rdBuf = <<>> /\ rdChan = <<>>
  /\ worker = "gone"
  /\ readErr' = TRUE
  /\ UNCHANGED <<closed, workerVars, wrChan, rdChan, writer, rdBuf, historyVars, losses>>

Close ==
  /\ ~closed
  /\ closed' = TRUE
  /\ UNCHANGED <<workerVars, wrChan, rdChan, writer, rdBuf, historyVars, readErr, losses>>

-----------------------------------------------------------------------------
(* ioWorker.                                                               *)

\* The poll interval elapses, or a write is pending.
Select ==
  /\ worker = "select"
  /\ worker' = "gather"
  /\ \/ /\ sndBuf' = leftBuf
        /\ UNCHANGED wrChan
     \/ /\ wrChan # <<>>
        /\ sndBuf' = leftBuf \o Head(wrChan)
        /\ wrChan' = Tail(wrChan)
  /\ UNCHANGED <<closed, leftBuf, retries, index, served, rcvd, rdChan, writer, rdBuf,
                 historyVars, readErr, losses>>

\* Mutant: a select without workerCloseChan.
SelectNeverClosed == FALSE

\* workerCloseChan is closed: the select may choose to leave the loop.
SelectClosed ==
  /\ worker = "select"
  /\ closed
  /\ worker' = "failed"
  /\ UNCHANGED <<closed, sndBuf, leftBuf, retries, index, served, rcvd, wrChan, rdChan,
                 writer, rdBuf, historyVars, readErr, losses>>

\* Short writes are combined as long as there are any and there is room.
Gather ==
  /\ worker = "gather"
  /\ IF wrChan # <<>> /\ Len(sndBuf) < maxPayloadLength
     THEN /\ sndBuf' = sndBuf \o Head(wrChan)
          /\ wrChan' = Tail(wrChan)
          /\ UNCHANGED <<worker, retries, served>>
     ELSE /\ worker' = "trip"
          /\ retries' = 0
          /\ served' = FALSE
          /\ UNCHANGED <<sndBuf, wrChan>>
  /\ UNCHANGED <<closed, leftBuf, index, rcvd, rdChan, writer, rdBuf, historyVars,
                 readErr, losses>>

\* Mutant: the index is not moved.
SameFront == index

\* fronts.Next().
NextFront == IF index + 1 >= Fronts THEN 0 ELSE index + 1

\* roundTrip can make a request for this front, and the front may answer it.
Reachable == index \notin Blocked \cup Malformed

\* No request can be made: roundTrip returns, and tries no other front.
RequestFails ==
  /\ worker = "trip"
  /\ index \in Malformed
  /\ worker' = "failed"
  /\ UNCHANGED <<closed, sndBuf, leftBuf, retries, index, served, rcvd, wrChan, rdChan,
                 writer, rdBuf, historyVars, readErr, losses>>

\* A request fails, or its status is not 200.  The server may have served
\* it if the front works; then what it sent back is lost.
TripFails ==
  /\ worker = "trip"
  /\ retries' = retries + 1
  /\ index' = NextFront
  /\ worker' = IF retries + 1 = maxRetries THEN "failed" ELSE "trip"
  /\ \/ index \in Blocked /\ UNCHANGED <<served, upstream, losses>>
     \/ /\ Reachable
        /\ losses < MaxLosses
        /\ losses' = losses + 1
        /\ \/ UNCHANGED <<served, upstream>>
           \/ /\ served' = TRUE
              /\ upstream' = IF served THEN upstream ELSE upstream \o Body
  /\ UNCHANGED <<closed, sndBuf, leftBuf, rcvd, wrChan, rdChan, writer, rdBuf, accepted,
                 downstream, arrived, given, readErr>>

\* A request succeeds, with n units in the response.
TripSucceeds(n) ==
  /\ worker = "trip"
  /\ Reachable
  /\ downstream + n <= MaxDown
  /\ upstream' = IF served THEN upstream ELSE upstream \o Body
  /\ downstream' = downstream + n
  /\ rcvd' = Units(downstream + 1, downstream + n)
  /\ arrived' = arrived \o rcvd'
  /\ leftBuf' = Rest
  /\ sndBuf' = <<>>
  /\ retries' = 0 /\ served' = FALSE
  /\ worker' = IF n > 0 THEN "enqueue" ELSE "select"
  /\ UNCHANGED <<closed, index, wrChan, rdChan, writer, rdBuf, accepted, given, readErr,
                 losses>>

\* The response breaks off: roundTrip does not repeat the request.
ResponseBreaks ==
  /\ worker = "trip"
  /\ Reachable
  /\ losses < MaxLosses
  /\ losses' = losses + 1
  /\ upstream' = IF served THEN upstream ELSE upstream \o Body
  /\ served' = TRUE
  /\ worker' = "failed"
  /\ UNCHANGED <<closed, sndBuf, leftBuf, retries, index, rcvd, wrChan, rdChan, writer,
                 rdBuf, accepted, downstream, arrived, given, readErr>>

\* Mutant: a send that does not wait, and loses the data.
EnqueueReadOrDrop ==
  /\ worker = "enqueue"
  /\ rdChan' = IF HasRoom(rdChan) THEN Append(rdChan, rcvd) ELSE rdChan
  /\ rcvd' = <<>>
  /\ worker' = "select"
  /\ UNCHANGED <<closed, sndBuf, leftBuf, retries, index, served, wrChan, writer, rdBuf,
                 historyVars, readErr, losses>>

\* workerRdChan <- rdBuf, which waits for room and for nothing else.
EnqueueRead ==
  /\ worker = "enqueue"
  /\ HasRoom(rdChan)
  /\ rdChan' = Append(rdChan, rcvd)
  /\ rcvd' = <<>>
  /\ worker' = "select"
  /\ UNCHANGED <<closed, sndBuf, leftBuf, retries, index, served, wrChan, writer, rdBuf,
                 historyVars, readErr, losses>>

\* Mutant: the channels are not closed.
LeaveOpen ==
  /\ worker = "failed"
  /\ ~closed
  /\ closed' = TRUE
  /\ UNCHANGED <<workerVars, wrChan, rdChan, writer, rdBuf, historyVars, readErr, losses>>

\* After the loop: close both channels and the connection.
Leave ==
  /\ worker = "failed"
  /\ worker' = "gone"
  /\ closed' = TRUE
  /\ UNCHANGED <<sndBuf, leftBuf, retries, index, served, rcvd, wrChan, rdChan, writer,
                 rdBuf, historyVars, readErr, losses>>

Worker ==
  \/ Select \/ SelectClosed \/ Gather \/ EnqueueRead \/ Leave
  \/ RequestFails \/ TripFails \/ ResponseBreaks
  \/ \E n \in 0 .. maxPayloadLength : TripSucceeds(n)

Reads == ReadFails \/ \E n \in 1 .. maxPayloadLength : Read(n)

Next ==
  \/ \E n \in 1 .. MaxChunk : Write(n)
  \/ EnqueueWrite
  \/ Reads
  \/ Close
  \/ Worker

Spec == Init /\ [][Next]_vars

\* The worker runs, a select that may leave the loop does so in the end, and
\* a Write that waits for room goes on.
FairSpec ==
  /\ Spec
  /\ WF_vars(Worker)
  /\ SF_vars(SelectClosed)
  /\ SF_vars(EnqueueWrite)

\* And the user reads all there is.
FairReaderSpec == FairSpec /\ WF_vars(Reads)

-----------------------------------------------------------------------------
\* What the worker holds that the server has not had.
Pending ==
  CASE served -> Rest
    [] ~served /\ sndBuf # <<>> -> sndBuf
    [] ~served /\ sndBuf = <<>> -> leftBuf

\* Every unit Write took is, in order, with the server or still in the hands
\* of the worker: combining short writes, cutting long ones and stashing the
\* rest lose and reorder nothing, and a retried body is not counted twice.
UpstreamConserved == upstream \o Pending \o FlattenSeq(wrChan) = Units(1, accepted)

\* What the worker received reaches the user whole and in order, and an
\* error comes only after it: closing the channel does not drop its content.
DownstreamConserved ==
  /\ given \o rdBuf \o FlattenSeq(rdChan) \o rcvd = arrived
  /\ readErr => given = arrived

\* Rotating through the fronts finds one that works: all the tries of an
\* exchange are used up only if every front is blocked, as long as the fronts
\* are no more than the tries.
WorkingFrontIsFound ==
  worker = "failed" /\ retries = maxRetries /\ losses = 0 =>
    Blocked = 0 .. (Fronts - 1)

\* "Unblock callers waiting in Read() for data that will never arrive, and
\* callers waiting in Write() for data that will never get sent".
CallersUnblocked ==
  /\ worker = "gone" ~> (writer = <<>> /\ readErr)
  /\ writer # <<>> ~> writer = <<>>

\* "Tear down the worker, if it is still running."
CloseTearsDown == closed ~> worker = "gone"
=============================================================================
