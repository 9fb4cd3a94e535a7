--------------------------- MODULE ProcessProofs ---------------------------
(***************************************************************************)
(* Theorems about the lyrebird process, what it keeps on disk and how it   *)
(* dials: the monitor's count, for any finite set of connections and any   *)
(* number of signals; the identity of an obfs4 bridge and the session      *)
(* tickets of scramblesuit's client, whatever write is interrupted by a    *)
(* crash or an error; the bytes behind a proxy's answer, however they are  *)
(* cut; webtunnel's server names, for any lists and dials; and the SOCKS5  *)
(* server, for any arguments of its clients and any cut of their messages. *)
(***************************************************************************)
EXTENDS Lyrebird, StateFile, TicketStore, UpstreamProxy, ServerNames,
        SocksServer, FiniteSetTheorems, WellFoundedInduction, SequenceTheorems, TLAPS

(***************************************************************************)
(* The process and its monitor.                                            *)
(***************************************************************************)

HandlerStates == {"none", "starting", "handshake", "relay", "finishing", "done"}

\* The handlers and the count are of the right types, and a handler is in its
\* relay only after its handshake, so that each is counted once in and once out.
CountInv ==
  /\ numHandlers \in Int
  /\ handler \in [Handlers -> HandlerStates]
  /\ CountIsHandlers

Running == {h \in Handlers : Counted(h)}

LEMMA RunningIsFinite == IsFiniteSet(Running)
BY LyrebirdAssumption, FS_Subset DEF Running

\* A step after which the same handlers are counted, and the count is the same.
LEMMA SameRunning ==
  ASSUME CountInv, handler' \in [Handlers -> HandlerStates], numHandlers' = numHandlers,
         \A h \in Handlers : Counted(h)' <=> Counted(h)
  PROVE  CountInv'
<1>1. Running' = Running
  BY DEF Running
<1> QED
  BY <1>1 DEF CountInv, CountIsHandlers, Running

\* A step of one handler that leaves it counted, or not counted, as it was.
LEMMA BecomesKeepsCount ==
  ASSUME CountInv, NEW h \in Handlers, NEW s \in HandlerStates, Becomes(h, s),
         numHandlers' = numHandlers,
         s \in {"handshake", "relay", "finishing"} <=> Counted(h)
  PROVE  CountInv'
<1>1. handler' \in [Handlers -> HandlerStates]
  BY DEF CountInv, Becomes
<1>2. \A k \in Handlers : Counted(k)' <=> Counted(k)
  BY DEF CountInv, Becomes, Counted
<1> QED
  BY <1>1, <1>2, SameRunning

LEMMA InitCount == Init => CountInv
<1> SUFFICES ASSUME Init
             PROVE  CountInv
  OBVIOUS
<1>1. Running = {}
  BY DEF Init, Running, Counted
<1>2. Cardinality(Running) = 0
  BY <1>1, FS_EmptySet
<1> QED
  BY <1>2 DEF Init, CountInv, CountIsHandlers, Running, HandlerStates

\* onHandlerStart: the handler joins those that run, and +1 is counted.
LEMMA HandlerStartCounts ==
  ASSUME CountInv, NEW h \in Handlers, HandlerStart(h)
  PROVE  CountInv'
<1>1. handler' \in [Handlers -> HandlerStates] /\ numHandlers' = numHandlers + 1
  BY DEF CountInv, HandlerStart, Becomes, Count, HandlerStates
<1>2. Running' = Running \cup {h} /\ h \notin Running
  BY DEF CountInv, HandlerStart, Becomes, Running, Counted
<1>3. Cardinality(Running') = Cardinality(Running) + 1
  BY <1>2, RunningIsFinite, FS_AddElement
<1> QED
  BY <1>1, <1>3 DEF CountInv, CountIsHandlers, Running

\* onHandlerFinish: it leaves them, and -1 is counted.
LEMMA HandlerFinishCounts ==
  ASSUME CountInv, NEW h \in Handlers, HandlerFinish(h)
  PROVE  CountInv'
<1>1. handler' \in [Handlers -> HandlerStates] /\ numHandlers' = numHandlers - 1
  BY DEF CountInv, HandlerFinish, Becomes, Count, HandlerStates
<1>2. Running' = Running \ {h} /\ h \in Running
  BY DEF CountInv, HandlerFinish, Becomes, Running, Counted
<1>3. Cardinality(Running') = Cardinality(Running) - 1
  BY <1>2, RunningIsFinite, FS_RemoveElement
<1> QED
  BY <1>1, <1>3 DEF CountInv, CountIsHandlers, Running

LEMMA NextCount == CountInv /\ [Next]_vars => CountInv'
<1> SUFFICES ASSUME CountInv, [Next]_vars
             PROVE  CountInv'
  OBVIOUS
<1>1. ASSUME UNCHANGED <<numHandlers, handler>>
      PROVE  CountInv'
  BY <1>1, SameRunning DEF CountInv, Counted
<1>2. CASE Listen \/ SetupDone \/ WaitAgain \/ CloseListeners
  BY <1>1, <1>2 DEF Listen, SetupDone, WaitAgain, CloseListeners, handlerVars
<1>3. CASE \E sig \in {"SIGINT", "SIGTERM"} : Signal(sig)
  BY <1>1, <1>3 DEF Signal, handlerVars
<1>4. CASE ParentDies \/ WatcherNotices \/ WatcherSends
  BY <1>1, <1>4 DEF ParentDies, WatcherNotices, WatcherSends, handlerVars
<1>5. ASSUME NEW h \in Handlers, Accept(h)
      PROVE  CountInv'
  BY <1>5, BecomesKeepsCount DEF Accept, Counted, HandlerStates
<1>6. ASSUME NEW h \in Handlers, HandlerRuns(h)
      PROVE  CountInv'
  <2>1. CASE HandlerStart(h)
    BY <2>1, HandlerStartCounts
  <2>2. CASE Handshake(h)
    BY <2>2, BecomesKeepsCount DEF Handshake, Counted, HandlerStates
  <2>3. CASE \E d \in Directions : CopyEnds(h, d)
    BY <2>3, <1>1 DEF CopyEnds
  <2>4. CASE RelayEnds(h)
    BY <2>4, BecomesKeepsCount DEF RelayEnds, Counted, HandlerStates
  <2>5. CASE HandlerFinish(h)
    BY <2>5, HandlerFinishCounts
  <2> QED
    BY <1>6, <2>1, <2>2, <2>3, <2>4, <2>5 DEF HandlerRuns
<1>7. CASE \E h \in Handlers : \/ \E e \in Ends : PeerCloses(h, e)
                               \/ \E d \in Directions : CopyFails(h, d)
  BY <1>1, <1>7 DEF PeerCloses, CopyFails
<1>8. CASE UNCHANGED vars
  BY <1>1, <1>8 DEF vars, handlerVars
<1> QED
  BY <1>2, <1>3, <1>4, <1>5, <1>6, <1>7, <1>8 DEF Next

\* Whoever connects, hangs up or sends signals, and wherever main is: the
\* monitor's count is the number of handlers that have started and not finished.
THEOREM AlwaysCountsHandlers == Spec => []CountIsHandlers
<1>1. CountInv => CountIsHandlers
  BY DEF CountInv
<1> QED
  BY InitCount, NextCount, <1>1, PTL DEF Spec

-----------------------------------------------------------------------------
(***************************************************************************)
(* The state of an obfs4 bridge.                                           *)
(***************************************************************************)

StateType ==
  /\ stateFile \in [is : {"absent", "torn", "whole"}, holds : Settings]
  /\ boot \in {"down", "newState", "check", "bridgeLine", "state", "up"}
  /\ js \in Settings
  /\ iatArg \in {IatMissing, IatInvalid} \cup IatModes
  /\ truncated \in BOOLEAN
  /\ truncated = TRUE => boot \in {"newState", "bridgeLine", "state"}

\* The bridge line is in its file before the state is written again.
LineBeforeState ==
  /\ boot \in {"state", "up"} => bridgeFile = Whole(js)
  /\ boot = "up" => stateFile = Whole(js)

\* Once a bridge was in service its state is never absent, and the identity in
\* the file and the one of a start are the one in service, or were asked for.
IdentityKept ==
  lastUp # NoIdentity =>
    /\ stateFile # Absent
    /\ stateFile.is = "whole" => stateFile.holds.id \in {lastUp} \cup asked
    /\ boot # "down" => js.id \in {lastUp} \cup asked

StateInv == StateType /\ LineBeforeState /\ IdentityKept

LEMMA NothingIsSettings == Nothing \in Settings
BY DEF Nothing, Settings, IatModes

LEMMA InitState == StateInit => StateInv
<1> SUFFICES ASSUME StateInit
             PROVE  StateInv
  OBVIOUS
<1>1. truncated \in BOOLEAN /\ ~(truncated = TRUE)
  BY DEF StateInit
<1>2. StateType
  BY <1>1, NothingIsSettings DEF StateInit, StateType, Absent
<1> QED
  BY <1>2 DEF StateInit, StateInv, LineBeforeState, IdentityKept

LEMMA GoDownInv ==
  ASSUME StateInv, GoDown, UNCHANGED <<stateFile, bridgeFile, known, lastUp, asked>>
  PROVE  StateInv'
BY NothingIsSettings
DEF GoDown, StateInv, StateType, LineBeforeState, IdentityKept, Absent

LEMMA StartInv ==
  ASSUME StateInv, NEW id \in Identities, NEW iat \in {IatMissing, IatInvalid} \cup IatModes,
         StartGiven(id, iat) \/ StartNew(id, iat) \/ StartFromFile(iat)
  PROVE  StateInv'
<1>1. [id |-> id, iat |-> 0] \in Settings
  BY DEF Settings, IatModes
<1>2. CASE StartGiven(id, iat)
  <2>1. StateType'
    BY <1>1, <1>2 DEF StartGiven, StateInv, StateType
  <2> QED
    BY <1>2, <2>1 DEF StartGiven, StateInv, StateType, LineBeforeState, IdentityKept, Absent
<1>3. CASE StartNew(id, iat)
  <2>1. StateType'
    BY <1>1, <1>3 DEF StartNew, StateInv, StateType
  <2> QED
    BY <1>3, <2>1 DEF StartNew, StateInv, StateType, LineBeforeState, IdentityKept, Absent
<1>4. CASE StartFromFile(iat)
  <2>1. StateType'
    BY <1>4 DEF StartFromFile, StateInv, StateType
  <2> QED
    BY <1>4, <2>1 DEF StartFromFile, StateInv, StateType, LineBeforeState, IdentityKept, Absent
<1> QED
  BY <1>2, <1>3, <1>4

LEMMA CheckInv == ASSUME StateInv, Check PROVE StateInv'
<1> DEFINE iat == IF iatArg = IatMissing THEN js.iat ELSE iatArg
<1>1. UNCHANGED <<stateFile, bridgeFile, known, lastUp, asked>> /\ boot = "check"
  BY DEF Check
<1>2. CASE iat \in IatModes
  <2>1. /\ boot' = "bridgeLine" /\ js' = [js EXCEPT !.iat = iat]
        /\ UNCHANGED <<truncated, iatArg>>
    BY <1>2 DEF Check
  <2>2. js' \in Settings /\ js'.id = js.id
    BY <1>2, <2>1 DEF StateInv, StateType, Settings
  <2> QED
    BY <1>1, <2>1, <2>2 DEF StateInv, StateType, LineBeforeState, IdentityKept, Absent
<1>3. CASE iat \notin IatModes
  BY <1>1, <1>3, GoDownInv DEF Check
<1> QED
  BY <1>2, <1>3

LEMMA TruncateInv == ASSUME StateInv, Truncate PROVE StateInv'
<1>1. Torn \in [is : {"absent", "torn", "whole"}, holds : Settings]
  BY NothingIsSettings DEF Torn
<1>2. /\ boot \in {"newState", "bridgeLine", "state"} /\ truncated' = TRUE
      /\ UNCHANGED <<boot, js, iatArg, known, lastUp, asked>>
  BY DEF Truncate
<1>3. IF boot = "bridgeLine" THEN bridgeFile' = Torn /\ UNCHANGED stateFile
                             ELSE stateFile' = Torn /\ UNCHANGED bridgeFile
  BY DEF Truncate, Target
<1>4. Torn.is = "torn" /\ Torn # Absent
  BY DEF Torn, Absent
<1> QED
  BY <1>1, <1>2, <1>3, <1>4 DEF StateInv, StateType, LineBeforeState, IdentityKept

LEMMA FillInv == ASSUME StateInv, Fill PROVE StateInv'
<1>1. /\ Whole(js) \in [is : {"absent", "torn", "whole"}, holds : Settings]
      /\ Whole(js).holds = js /\ Whole(js) # Absent
  BY DEF Whole, Absent, StateInv, StateType
<1>2. /\ boot \in {"newState", "bridgeLine", "state"} /\ truncated' = FALSE
      /\ UNCHANGED <<js, iatArg, known>> /\ Whole(js)' = Whole(js)
  BY DEF Fill, StateInv, StateType, Whole
<1>3. IF boot = "bridgeLine" THEN bridgeFile' = Whole(js) /\ UNCHANGED stateFile
                             ELSE stateFile' = Whole(js) /\ UNCHANGED bridgeFile
  BY DEF Fill, Target
<1>4. CASE boot = "newState"
  BY <1>1, <1>2, <1>3, <1>4 DEF Fill, StateInv, StateType, LineBeforeState, IdentityKept
<1>5. CASE boot = "bridgeLine"
  BY <1>1, <1>2, <1>3, <1>5 DEF Fill, StateInv, StateType, LineBeforeState, IdentityKept
<1>6. CASE boot = "state"
  BY <1>1, <1>2, <1>3, <1>6 DEF Fill, StateInv, StateType, LineBeforeState, IdentityKept
<1> QED
  BY <1>2, <1>4, <1>5, <1>6

LEMMA NextState == StateInv /\ [StateNext]_stateVars => StateInv'
<1> SUFFICES ASSUME StateInv, [StateNext]_stateVars
             PROVE  StateInv'
  OBVIOUS
<1>1. ASSUME NEW id \in Identities, NEW iat \in {IatMissing, IatInvalid} \cup IatModes,
             StartGiven(id, iat) \/ StartNew(id, iat)
      PROVE  StateInv'
  BY <1>1, StartInv
<1>2. ASSUME NEW iat \in {IatMissing, IatInvalid} \cup IatModes, StartFromFile(iat)
      PROVE  StateInv'
  <2>1. StateType'
    BY <1>2 DEF StartFromFile, StateInv, StateType
  <2> QED
    BY <1>2, <2>1 DEF StartFromFile, StateInv, StateType, LineBeforeState, IdentityKept, Absent
<1>3. CASE Check
  BY <1>3, CheckInv
<1>4. CASE Truncate
  BY <1>4, TruncateInv
<1>5. CASE Fill
  BY <1>5, FillInv
<1>6. CASE WriteFails \/ Die
  BY <1>6, GoDownInv DEF WriteFails, Die
<1>7. CASE UNCHANGED stateVars
  BY <1>7 DEF stateVars, StateInv, StateType, LineBeforeState, IdentityKept, Whole, Absent
<1> QED
  BY <1>1, <1>2, <1>3, <1>4, <1>5, <1>6, <1>7 DEF StateNext

\* A bridge in service runs on the identity and the mode that both files hold.
THEOREM AlwaysRunsOnWhatIsWritten == StateSpec => []RunsOnWhatIsWritten
<1>1. StateInv => RunsOnWhatIsWritten
  BY DEF StateInv, LineBeforeState, RunsOnWhatIsWritten
<1> QED
  BY InitState, NextState, <1>1, PTL DEF StateSpec

\* Whatever write a crash or an error interrupts, and however often, a bridge
\* comes back into service with its identity or with one its operator has given.
THEOREM IdentityIsKept == StateSpec => KeepsIdentity
<1>1. StateInv /\ [StateNext]_stateVars =>
        [lastUp # NoIdentity /\ lastUp' # lastUp => lastUp' \in asked]_stateVars
  <2> SUFFICES ASSUME StateInv, StateNext, lastUp # NoIdentity, lastUp' # lastUp
               PROVE  lastUp' \in asked
    OBVIOUS
  <2>1. Fill
    BY DEF StateNext, StartGiven, StartNew, StartFromFile, Check, Truncate, WriteFails, Die
  <2>2. boot = "state" /\ lastUp' = js.id
    BY <2>1 DEF Fill
  <2> QED
    BY <2>2 DEF StateInv, IdentityKept
<1> QED
  BY InitState, NextState, <1>1, PTL DEF StateSpec, KeepsIdentity

(***************************************************************************)
(* The tickets of scramblesuit's client.                                   *)
(***************************************************************************)

Steps == {"idle", "dialled", "open", "send"} \cup Locked

\* The steps of a dial that is going to use its ticket.
Using == {"taken", "taking", "send"}

TicketTypes ==
  /\ store \in [Addrs -> Tickets \cup {NoTicket}]
  /\ disk \in [Addrs -> Tickets \cup {NoTicket}]
  /\ dial \in [Dials -> [at : Steps, to : Addrs, ticket : Tickets \cup {NoTicket}]]
  /\ issuedBy \in [Tickets -> Addrs]
  /\ presented \in [Tickets -> [Bridges -> Nat]]

InStore(t) == \E a \in Addrs : store[a] = t
OnDisk(t) == diskIs = "whole" /\ \E a \in Addrs : disk[a] = t
Uses(d, t) == dial[d].at \in Using /\ dial[d].ticket = t
WasPresented(t) == \E b \in Bridges : presented[t][b] > 0

\* The dials are the process's, and one at a time holds the lock; from its first
\* write to its last the file is torn.
DialsInOrder ==
  /\ \A d \in Dials :
       /\ dial[d].at # "idle" => running = TRUE /\ dial[d].to \in Bridges
       /\ dial[d].at \in Using => dial[d].ticket \in Tickets
       /\ dial[d].at \in {"taking", "storing"} => diskIs = "torn"
  /\ \A d, e \in Dials : dial[d].at \in Locked /\ dial[e].at \in Locked => d = e

\* Wherever a ticket is, its issuer's address leads there.
WhereIssued ==
  /\ \A t \in Tickets, a \in Addrs :
       store[a] = t \/ (diskIs = "whole" /\ disk[a] = t) =>
         issuedBy[t] \in Bridges /\ a = RemoteAddr(issuedBy[t])
  /\ \A t \in Tickets, d \in Dials :
       Uses(d, t) =>
         issuedBy[t] \in Bridges /\ RemoteAddr(dial[d].to) = RemoteAddr(issuedBy[t])
  /\ \A t \in Tickets : WasPresented(t) => issuedBy[t] \in Bridges

\* A ticket is in the map, or with one dial, or was presented; and it is on disk
\* neither when it is presented nor once it has been.
OnePlace ==
  \A t \in Tickets :
    /\ InStore(t) => ~WasPresented(t) /\ \A d \in Dials : ~Uses(d, t)
    /\ \A d, e \in Dials : Uses(d, t) /\ Uses(e, t) => d = e
    /\ \A d \in Dials : Uses(d, t) => ~WasPresented(t)
    /\ OnDisk(t) => ~WasPresented(t) /\ \A d \in Dials : Uses(d, t) => dial[d].at # "send"

\* It was presented once, and to its issuer if no proxy is between.
PresentedOnce ==
  \A t \in Tickets : \A b \in Bridges :
    presented[t][b] > 0 =>
      /\ presented[t][b] = 1
      /\ ~proxied => b = issuedBy[t]
      /\ \A c \in Bridges : presented[t][c] > 0 => c = b

TicketInv == TicketTypes /\ DialsInOrder /\ WhereIssued /\ OnePlace /\ PresentedOnce

LEMMA NoTicketIsNone == NoTicket \notin Tickets /\ ProxyAddr \notin Bridges
BY TicketAssumption

LEMMA RemoteAddrs ==
  /\ \A b \in Bridges : RemoteAddr(b) \in Addrs
  /\ \A b, c \in Bridges : ~proxied /\ RemoteAddr(b) = RemoteAddr(c) => b = c
BY DEF RemoteAddr, Addrs

\* The ticket invariants survive a step that presents nothing and only takes
\* tickets away: from the map, from the file, from the dials.
LEMMA TakenAway ==
  ASSUME TicketInv,
         UNCHANGED <<proxied, issuedBy, presented>>,
         \A a \in Addrs : store'[a] = store[a] \/ store'[a] = NoTicket,
         \A a \in Addrs : diskIs' = "whole" => diskIs = "whole" /\ disk'[a] = disk[a],
         \A d \in Dials, t \in Tickets :
           Uses(d, t)' => /\ Uses(d, t) /\ dial'[d].to = dial[d].to
                          /\ dial'[d].at = "send" => dial[d].at = "send"
  PROVE  WhereIssued' /\ OnePlace' /\ PresentedOnce'
<1>1. \A b : RemoteAddr(b)' = RemoteAddr(b)
  BY DEF RemoteAddr
<1>2. ASSUME NEW t \in Tickets
      PROVE  /\ InStore(t)' => InStore(t)
             /\ OnDisk(t)' => OnDisk(t)
             /\ WasPresented(t)' => WasPresented(t)
  BY NoTicketIsNone DEF InStore, OnDisk, WasPresented
<1>3. WhereIssued'
  <2>1. ASSUME NEW t \in Tickets, NEW a \in Addrs,
               store'[a] = t \/ (diskIs' = "whole" /\ disk'[a] = t)
        PROVE  issuedBy[t] \in Bridges /\ a = RemoteAddr(issuedBy[t])
    <3>1. store[a] = t \/ (diskIs = "whole" /\ disk[a] = t)
      BY <2>1, NoTicketIsNone
    <3> QED
      BY <1>1, <3>1 DEF TicketInv, WhereIssued
  <2>2. ASSUME NEW t \in Tickets, NEW d \in Dials, Uses(d, t)'
        PROVE  issuedBy[t] \in Bridges /\ RemoteAddr(dial'[d].to) = RemoteAddr(issuedBy[t])
    BY <1>1, <2>2 DEF TicketInv, WhereIssued
  <2>3. ASSUME NEW t \in Tickets, WasPresented(t)'
        PROVE  issuedBy[t] \in Bridges
    BY <1>2, <2>3 DEF TicketInv, WhereIssued
  <2> QED
    BY <2>1, <2>2, <2>3 DEF WhereIssued, RemoteAddr
<1>4. OnePlace'
  <2> SUFFICES ASSUME NEW t \in Tickets
               PROVE  /\ InStore(t)' => ~WasPresented(t)' /\ \A d \in Dials : ~Uses(d, t)'
                      /\ \A d, e \in Dials : Uses(d, t)' /\ Uses(e, t)' => d = e
                      /\ \A d \in Dials : Uses(d, t)' => ~WasPresented(t)'
                      /\ OnDisk(t)' => /\ ~WasPresented(t)'
                                       /\ \A d \in Dials : Uses(d, t)' => dial'[d].at # "send"
    BY DEF OnePlace
  <2>1. /\ InStore(t) => ~WasPresented(t) /\ \A d \in Dials : ~Uses(d, t)
        /\ \A d, e \in Dials : Uses(d, t) /\ Uses(e, t) => d = e
        /\ \A d \in Dials : Uses(d, t) => ~WasPresented(t)
        /\ OnDisk(t) => ~WasPresented(t) /\ \A d \in Dials : Uses(d, t) => dial[d].at # "send"
    BY DEF TicketInv, OnePlace
  <2>2. \A d \in Dials : Uses(d, t)' => Uses(d, t) /\ (dial'[d].at = "send" => dial[d].at = "send")
    OBVIOUS
  <2>3. \A d, e \in Dials : Uses(d, t)' /\ Uses(e, t)' => d = e
    BY <2>1, <2>2
  <2>4. \A d \in Dials : Uses(d, t)' => ~WasPresented(t)'
    BY <1>2, <2>1, <2>2
  <2>5. InStore(t)' => ~WasPresented(t)' /\ \A d \in Dials : ~Uses(d, t)'
    BY <1>2, <2>1, <2>2
  <2>6. OnDisk(t)' => /\ ~WasPresented(t)'
                      /\ \A d \in Dials : Uses(d, t)' => dial'[d].at # "send"
    BY <1>2, <2>1, <2>2
  <2> QED
    BY <2>3, <2>4, <2>5, <2>6
<1>5. PresentedOnce'
  BY DEF TicketInv, PresentedOnce
<1> QED
  BY <1>3, <1>4, <1>5

LEMMA LoadInv == ASSUME TicketInv, LoadTicketStore PROVE TicketInv'
<1>1. /\ running # TRUE /\ diskIs # "torn" /\ running' = TRUE
      /\ UNCHANGED <<proxied, diskIs, disk, dial, expired, issuedBy, presented>>
  BY DEF LoadTicketStore
<1>2. store' \in [Addrs -> Tickets \cup {NoTicket}]
  BY DEF LoadTicketStore, TicketInv, TicketTypes
<1>3. \A a \in Addrs : \A t \in Tickets : store'[a] = t => diskIs = "whole" /\ disk[a] = t
  BY NoTicketIsNone DEF LoadTicketStore, TicketInv, TicketTypes
<1>4. \A d \in Dials : dial[d].at = "idle"
  BY <1>1 DEF TicketInv, DialsInOrder
<1>5. \A d \in Dials, t \in Tickets : ~Uses(d, t)
  BY <1>4 DEF Uses, Using
<1>6. TicketTypes' /\ DialsInOrder'
  BY <1>1, <1>2, <1>4 DEF TicketInv, TicketTypes, DialsInOrder, Locked, Using
<1>7. ASSUME NEW t \in Tickets
      PROVE  /\ InStore(t)' => OnDisk(t)
             /\ OnDisk(t)' => OnDisk(t)
             /\ WasPresented(t)' => WasPresented(t)
             /\ \A d \in Dials : ~Uses(d, t)'
  <2>1. InStore(t)' => OnDisk(t)
    BY <1>3 DEF InStore, OnDisk
  <2>2. /\ OnDisk(t)' => OnDisk(t)
        /\ WasPresented(t)' => WasPresented(t)
    BY <1>1 DEF OnDisk, WasPresented
  <2>3. \A d \in Dials : ~Uses(d, t)'
    BY <1>1, <1>5 DEF Uses
  <2> QED
    BY <2>1, <2>2, <2>3
<1>8. WhereIssued'
  <2>1. \A t \in Tickets, a \in Addrs :
          store'[a] = t \/ (diskIs' = "whole" /\ disk'[a] = t) =>
            diskIs = "whole" /\ disk[a] = t
    BY <1>1, <1>3
  <2>2. \A b : RemoteAddr(b)' = RemoteAddr(b)
    BY <1>1 DEF RemoteAddr
  <2> QED
    BY <1>1, <1>5, <2>1, <2>2 DEF TicketInv, WhereIssued, Uses, WasPresented
<1>9. OnePlace'
  <2> SUFFICES ASSUME NEW t \in Tickets
               PROVE  /\ InStore(t)' => ~WasPresented(t)'
                      /\ \A d \in Dials : ~Uses(d, t)'
                      /\ OnDisk(t)' => ~WasPresented(t)'
    BY DEF OnePlace
  <2>1. OnDisk(t) => ~WasPresented(t)
    BY DEF TicketInv, OnePlace
  <2> QED
    BY <1>7, <2>1
<1>10. PresentedOnce'
  BY <1>1 DEF TicketInv, PresentedOnce
<1> QED
  BY <1>6, <1>8, <1>9, <1>10 DEF TicketInv

\* A step of a dial that takes nothing from the map, sets its own place and
\* nothing else, and does not take the lock.
LEMMA DialMoves ==
  ASSUME TicketInv, NEW d \in Dials, NEW new \in [at : Steps, to : Addrs, ticket : Tickets \cup {NoTicket}],
         dial' = [dial EXCEPT ![d] = new],
         UNCHANGED <<proxied, running, store, diskIs, disk, issuedBy, presented>>,
         new.at # "idle" => running = TRUE /\ new.to \in Bridges,
         new.at \notin Using \cup Locked
  PROVE  TicketInv'
<1>1. dial'[d] = new /\ \A e \in Dials : e # d => dial'[e] = dial[e]
  BY DEF TicketInv, TicketTypes
<1>2. TicketTypes'
  BY DEF TicketInv, TicketTypes
<1>3. DialsInOrder'
  BY <1>1 DEF TicketInv, DialsInOrder, Using, Locked
<1>4. \A e \in Dials, t \in Tickets :
        Uses(e, t)' => /\ Uses(e, t) /\ dial'[e].to = dial[e].to
                       /\ dial'[e].at = "send" => dial[e].at = "send"
  BY <1>1 DEF Uses, Using
<1>5. WhereIssued' /\ OnePlace' /\ PresentedOnce'
  BY <1>4, TakenAway
<1> QED
  BY <1>2, <1>3, <1>5 DEF TicketInv

LEMMA GetTicketInv == ASSUME TicketInv, NEW d \in Dials, GetTicket(d) PROVE TicketInv'
<1> DEFINE b == dial[d].to
           a == RemoteAddr(b)
<1>1. /\ dial[d].at = "dialled" /\ running = TRUE /\ b \in Bridges /\ a \in Addrs
      /\ \A e \in Dials : dial[e].at \notin Locked
      /\ dial[d] \in [at : Steps, to : Addrs, ticket : Tickets \cup {NoTicket}]
      /\ UNCHANGED <<proxied, running, diskIs, disk, expired, issuedBy, presented>>
  BY RemoteAddrs DEF GetTicket, Unlocked, TicketInv, TicketTypes, DialsInOrder
<1>2. CASE store[a] = NoTicket
  <2> DEFINE new == [dial[d] EXCEPT !.at = "open"]
  <2>1. dial' = [dial EXCEPT ![d] = new] /\ UNCHANGED store
    BY <1>2 DEF GetTicket, TicketInv, TicketTypes
  <2>2. /\ new \in [at : Steps, to : Addrs, ticket : Tickets \cup {NoTicket}]
        /\ new.at = "open" /\ new.to = b
    BY <1>1 DEF Steps
  <2>3. new.at \notin Using \cup Locked
    BY <2>2 DEF Using, Locked
  <2> HIDE DEF new
  <2> QED
    BY <1>1, <2>1, <2>2, <2>3, DialMoves
<1>3. CASE store[a] # NoTicket
  <2> DEFINE u == store[a]
             new == [at |-> "taken", to |-> b, ticket |-> u]
  <2>1. u \in Tickets /\ InStore(u)
    BY <1>1, <1>3 DEF TicketInv, TicketTypes, InStore
  <2>2. dial' = [dial EXCEPT ![d] = new] /\ store' = [store EXCEPT ![a] = NoTicket]
    BY <1>1, <1>3 DEF GetTicket, TicketInv, TicketTypes
  <2> HIDE DEF a
  <2>3. /\ dial'[d] = new /\ \A e \in Dials : e # d => dial'[e] = dial[e]
        /\ store'[a] = NoTicket /\ \A c \in Addrs : c # a => store'[c] = store[c]
    BY <1>1, <2>2 DEF TicketInv, TicketTypes
  <2>4. TicketTypes'
    BY <1>1, <2>1, <2>2 DEF TicketInv, TicketTypes, Steps, Locked
  <2>5. DialsInOrder'
    BY <1>1, <2>1, <2>3 DEF TicketInv, DialsInOrder, Using, Locked
  <2> HIDE DEF u
  <2>6. issuedBy[u] \in Bridges /\ a = RemoteAddr(issuedBy[u])
    BY <1>1, <2>1 DEF TicketInv, WhereIssued, u
  <2>7. ~WasPresented(u) /\ \A e \in Dials : ~Uses(e, u)
    BY <2>1 DEF TicketInv, OnePlace
  <2>8. \A c \in Addrs : store[c] = u => c = a
    BY <2>1, <2>6 DEF TicketInv, WhereIssued
  <2>9. ASSUME NEW t \in Tickets
        PROVE  /\ InStore(t)' => InStore(t) /\ t # u
               /\ OnDisk(t)' => OnDisk(t)
               /\ WasPresented(t)' => WasPresented(t)
               /\ \A e \in Dials :
                    Uses(e, t)' => \/ e # d /\ Uses(e, t) /\ dial'[e] = dial[e]
                                   \/ e = d /\ t = u /\ dial'[e].at = "taken" /\ dial'[e].to = b
    <3>1. InStore(t)' => InStore(t) /\ t # u
      BY <2>3, <2>8, NoTicketIsNone DEF InStore
    <3>2. OnDisk(t)' => OnDisk(t)
      BY <1>1 DEF OnDisk
    <3>3. WasPresented(t)' => WasPresented(t)
      BY <1>1 DEF WasPresented
    <3>4. \A e \in Dials :
            Uses(e, t)' => \/ e # d /\ Uses(e, t) /\ dial'[e] = dial[e]
                           \/ e = d /\ t = u /\ dial'[e].at = "taken" /\ dial'[e].to = b
      <4>1. dial'[d].at = "taken" /\ dial'[d].to = b /\ dial'[d].ticket = u
        BY <2>3
      <4> QED
        BY <2>3, <4>1 DEF Uses
    <3> QED
      BY <3>1, <3>2, <3>3, <3>4
  <2>10. WhereIssued'
    <3>1. ASSUME NEW t \in Tickets, NEW c \in Addrs,
                 store'[c] = t \/ (diskIs' = "whole" /\ disk'[c] = t)
          PROVE  issuedBy[t] \in Bridges /\ c = RemoteAddr(issuedBy[t])
      BY <1>1, <2>3, <3>1, NoTicketIsNone DEF TicketInv, WhereIssued
    <3>2. ASSUME NEW t \in Tickets, NEW e \in Dials, Uses(e, t)'
          PROVE  issuedBy[t] \in Bridges /\ RemoteAddr(dial'[e].to) = RemoteAddr(issuedBy[t])
      <4>1. CASE e # d /\ Uses(e, t) /\ dial'[e] = dial[e]
        BY <4>1 DEF TicketInv, WhereIssued
      <4>2. CASE e = d /\ t = u /\ dial'[e].to = b
        BY <2>6, <4>2 DEF a
      <4> QED
        BY <2>9, <3>2, <4>1, <4>2
    <3>3. ASSUME NEW t \in Tickets, WasPresented(t)'
          PROVE  issuedBy[t] \in Bridges
      BY <2>9, <3>3 DEF TicketInv, WhereIssued
    <3> QED
      BY <1>1, <3>1, <3>2, <3>3 DEF WhereIssued, RemoteAddr
  <2>11. OnePlace'
    <3> SUFFICES ASSUME NEW t \in Tickets
                 PROVE  /\ InStore(t)' => ~WasPresented(t)' /\ \A e \in Dials : ~Uses(e, t)'
                        /\ \A e, f \in Dials : Uses(e, t)' /\ Uses(f, t)' => e = f
                        /\ \A e \in Dials : Uses(e, t)' => ~WasPresented(t)'
                        /\ OnDisk(t)' => /\ ~WasPresented(t)'
                                         /\ \A e \in Dials : Uses(e, t)' => dial'[e].at # "send"
      BY DEF OnePlace
    <3>1. /\ InStore(t) => ~WasPresented(t) /\ \A e \in Dials : ~Uses(e, t)
          /\ \A e, f \in Dials : Uses(e, t) /\ Uses(f, t) => e = f
          /\ \A e \in Dials : Uses(e, t) => ~WasPresented(t)
          /\ OnDisk(t) => ~WasPresented(t) /\ \A e \in Dials : Uses(e, t) => dial[e].at # "send"
      BY DEF TicketInv, OnePlace
    <3>2. CASE t = u
      <4>1. ~WasPresented(t) /\ \A e \in Dials : ~Uses(e, t)
        BY <2>7, <3>2
      <4>2. /\ ~InStore(t)' /\ ~WasPresented(t)'
            /\ \A e \in Dials : Uses(e, t)' => e = d /\ dial'[e].at = "taken"
        BY <2>9, <3>2, <4>1
      <4> QED
        BY <4>2
    <3>3. CASE t # u
      <4>1. /\ InStore(t)' => InStore(t)
            /\ OnDisk(t)' => OnDisk(t)
            /\ WasPresented(t)' => WasPresented(t)
            /\ \A e \in Dials : Uses(e, t)' => Uses(e, t) /\ dial'[e] = dial[e]
        BY <2>9, <3>3
      <4> QED
        BY <3>1, <4>1
    <3> QED
      BY <3>2, <3>3
  <2>12. PresentedOnce'
    BY <1>1 DEF TicketInv, PresentedOnce
  <2> QED
    BY <2>4, <2>5, <2>10, <2>11, <2>12 DEF TicketInv
<1> QED
  BY <1>2, <1>3

LEMMA SerializeTruncateInv ==
  ASSUME TicketInv, NEW d \in Dials, SerializeTruncate(d)
  PROVE  TicketInv'
<1> DEFINE new == [dial[d] EXCEPT !.at = IF dial[d].at = "taken" THEN "taking" ELSE "storing"]
<1>1. /\ dial[d].at \in {"taken", "stored"} /\ dial' = [dial EXCEPT ![d] = new]
      /\ diskIs' = "torn" /\ disk' = EmptyMap
      /\ UNCHANGED <<proxied, running, store, expired, issuedBy, presented>>
      /\ dial[d] \in [at : Steps, to : Addrs, ticket : Tickets \cup {NoTicket}]
  BY DEF SerializeTruncate, TicketInv, TicketTypes
<1>2. /\ new \in [at : Steps, to : Addrs, ticket : Tickets \cup {NoTicket}]
      /\ new.to = dial[d].to /\ new.ticket = dial[d].ticket
      /\ new.at = IF dial[d].at = "taken" THEN "taking" ELSE "storing"
  BY <1>1 DEF Steps, Locked
<1> HIDE DEF new
<1>3. dial'[d] = new /\ \A e \in Dials : e # d => dial'[e] = dial[e]
  BY <1>1 DEF TicketInv, TicketTypes
<1>4. TicketTypes'
  BY <1>1, <1>2 DEF TicketInv, TicketTypes, EmptyMap
<1>5. DialsInOrder'
  BY <1>1, <1>2, <1>3 DEF TicketInv, DialsInOrder, Using, Locked
<1>6. \A e \in Dials, t \in Tickets :
        Uses(e, t)' => /\ Uses(e, t) /\ dial'[e].to = dial[e].to
                       /\ dial'[e].at = "send" => dial[e].at = "send"
  BY <1>1, <1>2, <1>3 DEF Uses, Using
<1>7. WhereIssued' /\ OnePlace' /\ PresentedOnce'
  BY <1>1, <1>6, TakenAway
<1> QED
  BY <1>4, <1>5, <1>7 DEF TicketInv

LEMMA SerializeFailsInv ==
  ASSUME TicketInv, NEW d \in Dials, SerializeFails(d)
  PROVE  TicketInv'
<1> DEFINE new == IF dial[d].at \in {"taken", "taking"} THEN Idle ELSE [dial[d] EXCEPT !.at = "open"]
<1>1. /\ dial[d].at \in Locked /\ dial' = [dial EXCEPT ![d] = new]
      /\ UNCHANGED <<proxied, running, store, diskIs, disk, expired, issuedBy, presented>>
      /\ dial[d] \in [at : Steps, to : Addrs, ticket : Tickets \cup {NoTicket}]
  BY DEF SerializeFails, TicketInv, TicketTypes
<1>2. running = TRUE /\ dial[d].to \in Bridges
  BY <1>1 DEF Locked, TicketInv, DialsInOrder
<1>3. /\ new \in [at : Steps, to : Addrs, ticket : Tickets \cup {NoTicket}]
      /\ new.at \in {"idle", "open"} /\ (new.at = "open" => new.to = dial[d].to)
  BY <1>1 DEF Steps, Idle, Addrs
<1>4. new.at \notin Using \cup Locked
  BY <1>3 DEF Using, Locked
<1> HIDE DEF new
<1> QED
  BY <1>1, <1>2, <1>3, <1>4, DialMoves

LEMMA DialBridgeInv ==
  ASSUME TicketInv, NEW d \in Dials, NEW b \in Bridges, DialBridge(d, b)
  PROVE  TicketInv'
<1> DEFINE new == [at |-> "dialled", to |-> b, ticket |-> NoTicket]
<1>1. /\ running = TRUE /\ dial' = [dial EXCEPT ![d] = new]
      /\ UNCHANGED <<proxied, running, store, diskIs, disk, expired, issuedBy, presented>>
  <2>1. running = TRUE
    BY DEF DialBridge, TicketInv, DialsInOrder
  <2> QED
    BY <2>1 DEF DialBridge
<1>2. /\ new \in [at : Steps, to : Addrs, ticket : Tickets \cup {NoTicket}]
      /\ new.at = "dialled" /\ new.to \in Bridges
  BY DEF Steps, Addrs
<1>3. new.at \notin Using \cup Locked
  BY <1>2 DEF Using, Locked
<1> HIDE DEF new
<1> QED
  BY <1>1, <1>2, <1>3, DialMoves

LEMMA HangUpInv == ASSUME TicketInv, NEW d \in Dials, HangUp(d) PROVE TicketInv'
<1>1. /\ Idle \in [at : Steps, to : Addrs, ticket : Tickets \cup {NoTicket}]
      /\ Idle.at = "idle"
  BY DEF Steps, Idle, Addrs
<1>2. Idle.at \notin Using \cup Locked
  BY <1>1 DEF Using, Locked
<1> QED
  BY <1>1, <1>2, DialMoves DEF HangUp

LEMMA ExpireInv == ASSUME TicketInv, NEW t \in Tickets, Expire(t) PROVE TicketInv'
<1>1. UNCHANGED <<proxied, running, store, diskIs, disk, dial, issuedBy, presented>>
  BY DEF Expire
<1>2. TicketTypes' /\ DialsInOrder'
  BY <1>1 DEF TicketInv, TicketTypes, DialsInOrder
<1>3. \A d \in Dials, u \in Tickets :
        Uses(d, u)' => /\ Uses(d, u) /\ dial'[d].to = dial[d].to
                       /\ dial'[d].at = "send" => dial[d].at = "send"
  BY <1>1 DEF Uses
<1>4. WhereIssued' /\ OnePlace' /\ PresentedOnce'
  BY <1>1, <1>3, TakenAway
<1> QED
  BY <1>2, <1>4 DEF TicketInv

LEMMA DieInv == ASSUME TicketInv, DieWithTickets PROVE TicketInv'
<1>1. /\ store' = EmptyMap /\ dial' = [d \in Dials |-> Idle]
      /\ UNCHANGED <<proxied, diskIs, disk, expired, issuedBy, presented>>
  BY DEF DieWithTickets
<1>2. /\ Idle \in [at : Steps, to : Addrs, ticket : Tickets \cup {NoTicket}]
      /\ Idle.at = "idle"
  BY DEF Steps, Idle, Addrs
<1>3. TicketTypes'
  BY <1>1, <1>2 DEF TicketInv, TicketTypes, EmptyMap
<1>4. \A d \in Dials : dial'[d].at = "idle"
  BY <1>1, <1>2
<1>5. DialsInOrder'
  BY <1>4 DEF DialsInOrder, Using, Locked
<1>6. \A d \in Dials, u \in Tickets :
        Uses(d, u)' => /\ Uses(d, u) /\ dial'[d].to = dial[d].to
                       /\ dial'[d].at = "send" => dial[d].at = "send"
  BY <1>4 DEF Uses, Using
<1>7. \A a \in Addrs : store'[a] = NoTicket
  BY <1>1 DEF EmptyMap
<1>8. WhereIssued' /\ OnePlace' /\ PresentedOnce'
  BY <1>1, <1>6, <1>7, TakenAway
<1> QED
  BY <1>3, <1>5, <1>8 DEF TicketInv

LEMMA SerializeFillInv ==
  ASSUME TicketInv, NEW d \in Dials, SerializeFill(d)
  PROVE  TicketInv'
<1> DEFINE new == [dial[d] EXCEPT !.at =
                     IF dial[d].at = "taking" THEN AfterTaking(dial[d].ticket) ELSE "open"]
<1>1. /\ dial[d].at \in {"taking", "storing"} /\ dial' = [dial EXCEPT ![d] = new]
      /\ diskIs' = "whole" /\ disk' = store
      /\ UNCHANGED <<proxied, running, store, expired, issuedBy, presented>>
      /\ dial[d] \in [at : Steps, to : Addrs, ticket : Tickets \cup {NoTicket}]
  BY DEF SerializeFill, TicketInv, TicketTypes
<1>2. AfterTaking(dial[d].ticket) \in {"open", "send"}
  BY DEF AfterTaking
<1>3. /\ new \in [at : Steps, to : Addrs, ticket : Tickets \cup {NoTicket}]
      /\ new.to = dial[d].to /\ new.ticket = dial[d].ticket
      /\ new.at \in {"open", "send"} /\ (new.at = "send" => dial[d].at = "taking")
  BY <1>1, <1>2 DEF Steps
<1> HIDE DEF new
<1>4. dial'[d] = new /\ \A e \in Dials : e # d => dial'[e] = dial[e]
  BY <1>1 DEF TicketInv, TicketTypes
<1>5. TicketTypes'
  BY <1>1, <1>3 DEF TicketInv, TicketTypes
<1>6. DialsInOrder'
  <2>1. dial[d].at \in Locked /\ running = TRUE /\ dial[d].to \in Bridges
    BY <1>1 DEF Locked, TicketInv, DialsInOrder
  <2>2. new.at = "send" => dial[d].ticket \in Tickets
    BY <1>3 DEF TicketInv, DialsInOrder, Using
  <2>3. \A e \in Dials : e # d => dial[e].at \notin Locked
    BY <2>1 DEF TicketInv, DialsInOrder
  <2> QED
    BY <1>1, <1>3, <1>4, <2>1, <2>2, <2>3 DEF TicketInv, DialsInOrder, Using, Locked
<1>7. ASSUME NEW t \in Tickets
      PROVE  /\ InStore(t)' => InStore(t)
             /\ OnDisk(t)' => InStore(t)
             /\ WasPresented(t)' => WasPresented(t)
             /\ \A e \in Dials : Uses(e, t)' => Uses(e, t) /\ dial'[e].to = dial[e].to
  <2>1. \A e \in Dials : Uses(e, t)' => Uses(e, t) /\ dial'[e].to = dial[e].to
    BY <1>1, <1>3, <1>4 DEF Uses, Using
  <2> QED
    BY <1>1, <2>1 DEF InStore, OnDisk, WasPresented
<1>8. WhereIssued'
  <2>1. ASSUME NEW t \in Tickets, NEW a \in Addrs, store[a] = t
        PROVE  issuedBy[t] \in Bridges /\ a = RemoteAddr(issuedBy[t])
    BY <2>1 DEF TicketInv, WhereIssued
  <2>2. ASSUME NEW t \in Tickets, NEW e \in Dials, Uses(e, t)'
        PROVE  issuedBy[t] \in Bridges /\ RemoteAddr(dial'[e].to) = RemoteAddr(issuedBy[t])
    BY <1>7, <2>2 DEF TicketInv, WhereIssued
  <2>3. ASSUME NEW t \in Tickets, WasPresented(t)'
        PROVE  issuedBy[t] \in Bridges
    BY <1>7, <2>3 DEF TicketInv, WhereIssued
  <2> QED
    BY <1>1, <2>1, <2>2, <2>3 DEF WhereIssued, RemoteAddr
<1>9. OnePlace'
  <2> SUFFICES ASSUME NEW t \in Tickets
               PROVE  /\ InStore(t)' => ~WasPresented(t)' /\ \A e \in Dials : ~Uses(e, t)'
                      /\ \A e, f \in Dials : Uses(e, t)' /\ Uses(f, t)' => e = f
                      /\ \A e \in Dials : Uses(e, t)' => ~WasPresented(t)'
                      /\ OnDisk(t)' => ~WasPresented(t)' /\ \A e \in Dials : ~Uses(e, t)'
    BY DEF OnePlace
  <2>1. /\ InStore(t) => ~WasPresented(t) /\ \A e \in Dials : ~Uses(e, t)
        /\ \A e, f \in Dials : Uses(e, t) /\ Uses(f, t) => e = f
        /\ \A e \in Dials : Uses(e, t) => ~WasPresented(t)
    BY DEF TicketInv, OnePlace
  <2> QED
    BY <1>7, <2>1
<1>10. PresentedOnce'
  BY <1>1 DEF TicketInv, PresentedOnce
<1> QED
  BY <1>5, <1>6, <1>8, <1>9, <1>10 DEF TicketInv

LEMMA PresentTicketInv ==
  ASSUME TicketInv, NEW d \in Dials, PresentTicket(d)
  PROVE  TicketInv'
<1> DEFINE t == dial[d].ticket
           b == dial[d].to
<1>1. /\ dial[d].at = "send" /\ running = TRUE /\ t \in Tickets /\ b \in Bridges /\ Uses(d, t)
      /\ UNCHANGED <<proxied, running, store, diskIs, disk, expired, issuedBy>>
      /\ dial[d] \in [at : Steps, to : Addrs, ticket : Tickets \cup {NoTicket}]
  BY DEF PresentTicket, TicketInv, TicketTypes, DialsInOrder, Uses, Using
<1>2. PICK new \in {Idle, [dial[d] EXCEPT !.at = "open"]} : dial' = [dial EXCEPT ![d] = new]
  <2>1. \/ dial' = [dial EXCEPT ![d] = Idle]
        \/ dial' = [dial EXCEPT ![d] = [dial[d] EXCEPT !.at = "open"]]
    BY DEF PresentTicket, TicketInv, TicketTypes
  <2> QED
    BY <2>1
<1>3. /\ new \in [at : Steps, to : Addrs, ticket : Tickets \cup {NoTicket}]
      /\ new.at \in {"idle", "open"} /\ (new.at = "open" => new.to = b)
  BY <1>1 DEF Steps, Idle, Addrs
<1>4. new.at \notin Using \cup Locked
  BY <1>3 DEF Using, Locked
<1>5. CASE UNCHANGED presented
  BY <1>1, <1>2, <1>3, <1>4, <1>5, DialMoves
<1>6. CASE presented' = [presented EXCEPT ![t][b] = @ + 1]
  <2> HIDE DEF t, b
  <2>1. dial'[d] = new /\ \A e \in Dials : e # d => dial'[e] = dial[e]
    BY <1>2 DEF TicketInv, TicketTypes
  <2>2. /\ presented' \in [Tickets -> [Bridges -> Nat]]
        /\ presented'[t][b] = presented[t][b] + 1
        /\ \A c \in Bridges : c # b => presented'[t][c] = presented[t][c]
        /\ \A u \in Tickets : u # t => presented'[u] = presented[u]
    BY <1>1, <1>6 DEF TicketInv, TicketTypes
  <2>3. /\ ~WasPresented(t) /\ ~InStore(t) /\ ~OnDisk(t)
        /\ \A e \in Dials : Uses(e, t) => e = d
    BY <1>1 DEF TicketInv, OnePlace
  <2>4. \A c \in Bridges : presented[t][c] = 0
    BY <1>1, <2>3 DEF WasPresented, TicketInv, TicketTypes
  <2>5. issuedBy[t] \in Bridges /\ RemoteAddr(b) = RemoteAddr(issuedBy[t])
    BY <1>1 DEF TicketInv, WhereIssued, b
  <2>6. TicketTypes'
    BY <1>1, <1>2, <1>3, <2>2 DEF TicketInv, TicketTypes
  <2>7. DialsInOrder'
    BY <1>1, <1>3, <1>4, <2>1 DEF TicketInv, DialsInOrder, Using, Locked
  <2>8. ASSUME NEW u \in Tickets
        PROVE  /\ InStore(u)' => InStore(u)
               /\ OnDisk(u)' => OnDisk(u)
               /\ WasPresented(u)' => WasPresented(u) \/ u = t
               /\ \A e \in Dials :
                    Uses(e, u)' => Uses(e, u) /\ e # d /\ u # t /\ dial'[e] = dial[e]
    <3>1. \A e \in Dials : Uses(e, u)' => Uses(e, u) /\ e # d /\ u # t /\ dial'[e] = dial[e]
      BY <1>4, <2>1, <2>3 DEF Uses
    <3>2. WasPresented(u)' => WasPresented(u) \/ u = t
      BY <2>2 DEF WasPresented
    <3> QED
      BY <1>1, <3>1, <3>2 DEF InStore, OnDisk
  <2>9. WhereIssued'
    <3>1. ASSUME NEW u \in Tickets, NEW a \in Addrs,
                 store[a] = u \/ (diskIs = "whole" /\ disk[a] = u)
          PROVE  issuedBy[u] \in Bridges /\ a = RemoteAddr(issuedBy[u])
      BY <3>1 DEF TicketInv, WhereIssued
    <3>2. ASSUME NEW u \in Tickets, NEW e \in Dials, Uses(e, u)'
          PROVE  issuedBy[u] \in Bridges /\ RemoteAddr(dial'[e].to) = RemoteAddr(issuedBy[u])
      BY <2>8, <3>2 DEF TicketInv, WhereIssued
    <3>3. ASSUME NEW u \in Tickets, WasPresented(u)'
          PROVE  issuedBy[u] \in Bridges
      BY <2>5, <2>8, <3>3 DEF TicketInv, WhereIssued
    <3> QED
      BY <1>1, <3>1, <3>2, <3>3 DEF WhereIssued, RemoteAddr
  <2>10. OnePlace'
    <3> SUFFICES ASSUME NEW u \in Tickets
                 PROVE  /\ InStore(u)' => ~WasPresented(u)' /\ \A e \in Dials : ~Uses(e, u)'
                        /\ \A e, f \in Dials : Uses(e, u)' /\ Uses(f, u)' => e = f
                        /\ \A e \in Dials : Uses(e, u)' => ~WasPresented(u)'
                        /\ OnDisk(u)' => /\ ~WasPresented(u)'
                                         /\ \A e \in Dials : Uses(e, u)' => dial'[e].at # "send"
      BY DEF OnePlace
    <3>1. /\ InStore(u) => ~WasPresented(u) /\ \A e \in Dials : ~Uses(e, u)
          /\ \A e, f \in Dials : Uses(e, u) /\ Uses(f, u) => e = f
          /\ \A e \in Dials : Uses(e, u) => ~WasPresented(u)
          /\ OnDisk(u) => ~WasPresented(u) /\ \A e \in Dials : Uses(e, u) => dial[e].at # "send"
      BY DEF TicketInv, OnePlace
    <3> QED
      BY <2>3, <2>8, <3>1
  <2>11. PresentedOnce'
    <3> SUFFICES ASSUME NEW u \in Tickets, NEW c \in Bridges, presented'[u][c] > 0
                 PROVE  /\ presented'[u][c] = 1
                        /\ ~proxied' => c = issuedBy'[u]
                        /\ \A g \in Bridges : presented'[u][g] > 0 => g = c
      BY DEF PresentedOnce
    <3>1. CASE u = t
      <4>1. c = b /\ presented'[t][b] = 1 /\ \A g \in Bridges : presented'[t][g] > 0 => g = b
        BY <1>1, <2>2, <2>4, <3>1
      <4>2. ~proxied => b = issuedBy[t]
        BY <1>1, <2>5, RemoteAddrs
      <4> QED
        BY <1>1, <3>1, <4>1, <4>2
    <3>2. CASE u # t
      BY <1>1, <2>2, <3>2 DEF TicketInv, PresentedOnce
    <3> QED
      BY <3>1, <3>2
  <2> QED
    BY <2>6, <2>7, <2>9, <2>10, <2>11 DEF TicketInv
<1> QED
  BY <1>5, <1>6 DEF PresentTicket

LEMMA StoreTicketInv ==
  ASSUME TicketInv, NEW d \in Dials, NEW t \in Tickets, StoreTicket(d, t)
  PROVE  TicketInv'
<1> DEFINE b == dial[d].to
           a == RemoteAddr(b)
           new == [dial[d] EXCEPT !.at = "stored"]
<1>1. /\ dial[d].at = "open" /\ running = TRUE /\ b \in Bridges /\ a \in Addrs
      /\ \A e \in Dials : dial[e].at \notin Locked
      /\ dial[d] \in [at : Steps, to : Addrs, ticket : Tickets \cup {NoTicket}]
      /\ issuedBy[t] = ProxyAddr
      /\ issuedBy' = [issuedBy EXCEPT ![t] = b]
      /\ store' = [store EXCEPT ![a] = t] /\ dial' = [dial EXCEPT ![d] = new]
      /\ UNCHANGED <<proxied, running, diskIs, disk, expired, presented>>
  BY RemoteAddrs DEF StoreTicket, Unlocked, TicketInv, TicketTypes, DialsInOrder
<1>2. /\ new \in [at : Steps, to : Addrs, ticket : Tickets \cup {NoTicket}]
      /\ new.at = "stored" /\ new.to = b
  BY <1>1 DEF Steps, Locked
<1> HIDE DEF new, b, a
<1>3. /\ dial'[d] = new /\ \A e \in Dials : e # d => dial'[e] = dial[e]
      /\ store'[a] = t /\ \A c \in Addrs : c # a => store'[c] = store[c]
      /\ issuedBy'[t] = b /\ \A u \in Tickets : u # t => issuedBy'[u] = issuedBy[u]
  BY <1>1 DEF TicketInv, TicketTypes
<1>4. /\ ~WasPresented(t) /\ \A e \in Dials : ~Uses(e, t)
      /\ \A c \in Addrs : store[c] # t /\ ~(diskIs = "whole" /\ disk[c] = t)
  BY <1>1, NoTicketIsNone DEF TicketInv, WhereIssued
<1>5. TicketTypes'
  BY <1>1, <1>2 DEF TicketInv, TicketTypes, Addrs
<1>6. DialsInOrder'
  BY <1>1, <1>2, <1>3 DEF TicketInv, DialsInOrder, Using, Locked
<1>7. ASSUME NEW u \in Tickets
      PROVE  /\ InStore(u)' => InStore(u) \/ u = t
             /\ OnDisk(u)' => OnDisk(u) /\ u # t
             /\ WasPresented(u)' => WasPresented(u) /\ u # t
             /\ \A e \in Dials : Uses(e, u)' => Uses(e, u) /\ u # t /\ dial'[e] = dial[e]
  <2>1. InStore(u)' => InStore(u) \/ u = t
    BY <1>1, <1>3 DEF InStore
  <2>2. OnDisk(u)' => OnDisk(u) /\ u # t
    BY <1>1, <1>4 DEF OnDisk
  <2>3. WasPresented(u)' => WasPresented(u) /\ u # t
    BY <1>1, <1>4 DEF WasPresented
  <2>4. \A e \in Dials : Uses(e, u)' => Uses(e, u) /\ u # t /\ dial'[e] = dial[e]
    BY <1>2, <1>3, <1>4 DEF Uses, Using
  <2> QED
    BY <2>1, <2>2, <2>3, <2>4
<1>8. WhereIssued'
  <2>1. ASSUME NEW u \in Tickets, NEW c \in Addrs,
               store'[c] = u \/ (diskIs = "whole" /\ disk[c] = u)
        PROVE  issuedBy'[u] \in Bridges /\ c = RemoteAddr(issuedBy'[u])
    <3>1. CASE c = a /\ store'[c] = u
      BY <1>1, <1>3, <3>1 DEF a
    <3>2. CASE ~(c = a /\ store'[c] = u)
      <4>1. store[c] = u \/ (diskIs = "whole" /\ disk[c] = u)
        BY <1>3, <2>1, <3>2
      <4> QED
        BY <1>3, <1>4, <4>1 DEF TicketInv, WhereIssued
    <3> QED
      BY <3>1, <3>2
  <2>2. ASSUME NEW u \in Tickets, NEW e \in Dials, Uses(e, u)'
        PROVE  issuedBy'[u] \in Bridges /\ RemoteAddr(dial'[e].to) = RemoteAddr(issuedBy'[u])
    BY <1>3, <1>7, <2>2 DEF TicketInv, WhereIssued
  <2>3. ASSUME NEW u \in Tickets, WasPresented(u)'
        PROVE  issuedBy'[u] \in Bridges
    BY <1>3, <1>7, <2>3 DEF TicketInv, WhereIssued
  <2> QED
    BY <1>1, <2>1, <2>2, <2>3 DEF WhereIssued, RemoteAddr
<1>9. OnePlace'
  <2> SUFFICES ASSUME NEW u \in Tickets
               PROVE  /\ InStore(u)' => ~WasPresented(u)' /\ \A e \in Dials : ~Uses(e, u)'
                      /\ \A e, f \in Dials : Uses(e, u)' /\ Uses(f, u)' => e = f
                      /\ \A e \in Dials : Uses(e, u)' => ~WasPresented(u)'
                      /\ OnDisk(u)' => /\ ~WasPresented(u)'
                                       /\ \A e \in Dials : Uses(e, u)' => dial'[e].at # "send"
    BY DEF OnePlace
  <2>1. /\ InStore(u) => ~WasPresented(u) /\ \A e \in Dials : ~Uses(e, u)
        /\ \A e, f \in Dials : Uses(e, u) /\ Uses(f, u) => e = f
        /\ \A e \in Dials : Uses(e, u) => ~WasPresented(u)
        /\ OnDisk(u) => ~WasPresented(u) /\ \A e \in Dials : Uses(e, u) => dial[e].at # "send"
    BY DEF TicketInv, OnePlace
  <2> QED
    BY <1>7, <2>1
<1>10. PresentedOnce'
  <2> SUFFICES ASSUME NEW u \in Tickets, NEW c \in Bridges, presented[u][c] > 0
               PROVE  /\ presented[u][c] = 1
                      /\ ~proxied => c = issuedBy'[u]
                      /\ \A g \in Bridges : presented[u][g] > 0 => g = c
    BY <1>1 DEF PresentedOnce
  <2>1. u # t
    BY <1>4 DEF WasPresented
  <2> QED
    BY <1>3, <2>1 DEF TicketInv, PresentedOnce
<1> QED
  BY <1>5, <1>6, <1>8, <1>9, <1>10 DEF TicketInv

LEMMA InitTickets == TicketInit => TicketInv
<1> SUFFICES ASSUME TicketInit
             PROVE  TicketInv
  OBVIOUS
<1>1. /\ Idle \in [at : Steps, to : Addrs, ticket : Tickets \cup {NoTicket}]
      /\ Idle.at = "idle"
  BY DEF Steps, Idle, Addrs
<1>2. /\ store = EmptyMap /\ disk = EmptyMap /\ diskIs = "absent"
      /\ dial = [d \in Dials |-> Idle]
      /\ issuedBy = [t \in Tickets |-> ProxyAddr]
      /\ presented = [t \in Tickets |-> [b \in Bridges |-> 0]]
  BY DEF TicketInit
<1>3. TicketTypes
  BY <1>1, <1>2 DEF TicketTypes, EmptyMap, Addrs
<1>4. /\ \A d \in Dials : dial[d].at = "idle"
      /\ \A a \in Addrs : store[a] = NoTicket
      /\ \A t \in Tickets, b \in Bridges : presented[t][b] = 0
  BY <1>1, <1>2 DEF EmptyMap
<1>5. /\ \A d \in Dials, t \in Tickets : ~Uses(d, t)
      /\ \A t \in Tickets : ~InStore(t) /\ ~OnDisk(t) /\ ~WasPresented(t)
  BY <1>2, <1>4, NoTicketIsNone DEF Uses, Using, InStore, OnDisk, WasPresented
<1> QED
  BY <1>2, <1>3, <1>4, <1>5, NoTicketIsNone
  DEF TicketInv, DialsInOrder, WhereIssued, OnePlace, PresentedOnce, Using, Locked

LEMMA NextTickets == TicketInv /\ [TicketNext]_ticketVars => TicketInv'
<1> SUFFICES ASSUME TicketInv, [TicketNext]_ticketVars
             PROVE  TicketInv'
  OBVIOUS
<1>1. CASE LoadTicketStore
  BY <1>1, LoadInv
<1>2. CASE DieWithTickets
  BY <1>2, DieInv
<1>3. ASSUME NEW d \in Dials, NEW b \in Bridges, DialBridge(d, b)
      PROVE  TicketInv'
  BY <1>3, DialBridgeInv
<1>4. ASSUME NEW d \in Dials, NEW t \in Tickets, StoreTicket(d, t)
      PROVE  TicketInv'
  BY <1>4, StoreTicketInv
<1>5. ASSUME NEW d \in Dials,
             \/ GetTicket(d) \/ SerializeTruncate(d) \/ SerializeFill(d) \/ SerializeFails(d)
             \/ PresentTicket(d) \/ HangUp(d)
      PROVE  TicketInv'
  BY <1>5, GetTicketInv, SerializeTruncateInv, SerializeFillInv, SerializeFailsInv,
     PresentTicketInv, HangUpInv
<1>6. ASSUME NEW t \in Tickets, Expire(t)
      PROVE  TicketInv'
  BY <1>6, ExpireInv
<1>7. CASE UNCHANGED ticketVars
  <2>1. UNCHANGED <<proxied, running, store, diskIs, disk, dial, issuedBy, presented>>
    BY <1>7 DEF ticketVars
  <2>2. TicketTypes' /\ DialsInOrder'
    BY <2>1 DEF TicketInv, TicketTypes, DialsInOrder
  <2>3. \A d \in Dials, u \in Tickets :
          Uses(d, u)' => /\ Uses(d, u) /\ dial'[d].to = dial[d].to
                         /\ dial'[d].at = "send" => dial[d].at = "send"
    BY <2>1 DEF Uses
  <2>4. WhereIssued' /\ OnePlace' /\ PresentedOnce'
    BY <2>1, <2>3, TakenAway
  <2> QED
    BY <2>2, <2>4 DEF TicketInv
<1> QED
  BY <1>1, <1>2, <1>3, <1>4, <1>5, <1>6, <1>7 DEF TicketNext

\* However many dials and bridges there are, and whatever crashes and failed
\* writes do to the map and its file: no ticket is presented twice, and without
\* a proxy only the bridge that issued it ever sees it.
THEOREM TicketsAreUsedOnce == TicketSpec => []TicketUsedOnce
<1>1. TicketInv => TicketUsedOnce
  <2> SUFFICES ASSUME TicketInv, NEW t \in Tickets
               PROVE  /\ Cardinality(Presentations(t)) <= 1
                      /\ \A b \in Presentations(t) :
                           presented[t][b] = 1 /\ (~proxied => b = issuedBy[t])
    BY DEF TicketUsedOnce
  <2>1. \A b \in Presentations(t) :
          /\ presented[t][b] = 1 /\ (~proxied => b = issuedBy[t])
          /\ \A c \in Presentations(t) : c = b
    BY DEF TicketInv, PresentedOnce, Presentations
  <2>2. CASE Presentations(t) = {}
    BY <2>1, <2>2, FS_EmptySet
  <2>3. CASE Presentations(t) # {}
    <3>1. PICK b \in Presentations(t) : Presentations(t) = {b}
      BY <2>1, <2>3
    <3>2. Cardinality({b}) = 1
      BY FS_Singleton
    <3> QED
      BY <2>1, <3>1, <3>2
  <2> QED
    BY <2>2, <2>3
<1> QED
  BY InitTickets, NextTickets, <1>1, PTL DEF TicketSpec

(***************************************************************************)
(* The upstream proxies.                                                   *)
(***************************************************************************)

\* Parts of the proxy's answer and bytes of the bridge.
Part == Int

\* What the bridge has sent when it has sent n bytes.
Bytes(n) == [i \in 1 .. n |-> i]

ProxyTypes ==
  /\ proxyKind \in {"none", "http", "socks4a"}
  /\ proxyAt \in {"dial", "asked", "open", "failed"}
  /\ fromProxy \in Seq(Part) /\ staleReader \in Seq(Part) /\ proxyRead \in Seq(Part)
  /\ bridgeSent \in Nat /\ answered \in BOOLEAN /\ stale \in BOOLEAN

\* Until the answer is read, the client's buffer and the network hold the answer
\* and then the bridge's bytes; from then on these alone, behind what was read.
ProxyInv ==
  /\ ProxyTypes
  /\ answered = FALSE =>
       /\ fromProxy = <<>> /\ staleReader = <<>> /\ bridgeSent = 0
       /\ proxyAt # "open"
  /\ proxyAt = "dial" => answered = FALSE
  /\ proxyAt \in {"dial", "asked"} => proxyRead = <<>> /\ stale = FALSE
  /\ proxyAt = "asked" /\ proxyKind # "http" => staleReader = <<>>
  /\ proxyAt = "asked" /\ answered = TRUE =>
       \E granted \in BOOLEAN : staleReader \o fromProxy = Answer(granted) \o Bytes(bridgeSent)
  /\ proxyAt = "open" =>
       /\ proxyRead \o (staleReader \o fromProxy) = Bytes(bridgeSent)
       /\ stale = FALSE => staleReader = <<>>

\* What the library says of sequences, for those of numbers.
LEMMA BytesAssociate == \A a, b, c \in Seq(Part) : (a \o b) \o c = a \o (b \o c)
BY ConcatAssociative

LEMMA BytesJoin ==
  ASSUME NEW a \in Seq(Part), NEW b \in Seq(Part)
  PROVE  /\ a \o b \in Seq(Part) /\ Len(a) \in Nat /\ Len(b) \in Nat
         /\ Len(a \o b) = Len(a) + Len(b)
         /\ \A i \in 1 .. Len(a) : (a \o b)[i] = a[i]
         /\ a \o <<>> = a /\ <<>> \o a = a
<1>1. Len(a) \in Nat /\ Len(b) \in Nat
  BY LenProperties
<1>2. /\ a \o b \in Seq(Part) /\ Len(a \o b) = Len(a) + Len(b)
      /\ \A i \in 1 .. Len(a) + Len(b) : (a \o b)[i] = IF i <= Len(a) THEN a[i] ELSE b[i - Len(a)]
  BY ConcatProperties
<1>3. \A i \in 1 .. Len(a) : (a \o b)[i] = a[i]
  BY <1>1, <1>2
<1>4. a \o <<>> = a /\ <<>> \o a = a
  BY ConcatEmptySeq
<1> QED
  BY <1>1, <1>2, <1>3, <1>4

\* The front of a sequence moves to the end of the one before it.
LEMMA BytesMove ==
  ASSUME NEW a \in Seq(Part), NEW x \in Seq(Part), NEW y \in Seq(Part), NEW s, x \o y = s
  PROVE  (a \o x) \o y = a \o s
BY BytesAssociate

LEMMA NoBytes ==
  /\ <<>> \in Seq(Part) /\ Len(<<>>) = 0
  /\ \A a \in Seq(Part) : Len(a) = 0 => a = <<>>
<1>1. <<>> \in Seq(Part) /\ Len(<<>>) = 0 /\ \A a \in Seq(Part) : a # <<>> => Len(a) \in Nat \ {0}
  BY EmptySeq
<1> QED
  BY <1>1

LEMMA ProxyCut ==
  ASSUME NEW s \in Seq(Part), NEW n \in 0 .. Len(s)
  PROVE  /\ SubSeq(s, 1, n) \in Seq(Part) /\ SubSeq(s, n + 1, Len(s)) \in Seq(Part)
         /\ Len(SubSeq(s, 1, n)) = n
         /\ SubSeq(s, 1, n) \o SubSeq(s, n + 1, Len(s)) = s
<1>1. Len(s) \in Nat /\ n \in Nat /\ n <= Len(s) /\ \A i \in 1 .. Len(s) : s[i] \in Part
  BY LenProperties, ElementOfSeq
<1>2. SubSeq(s, 1, n) \in Seq(Part) /\ Len(SubSeq(s, 1, n)) = n
  <2>1. \A i \in 1 .. n : s[i] \in Part
    BY <1>1
  <2> QED
    BY <2>1, <1>1, SubSeqProperties
<1>3. SubSeq(s, n + 1, Len(s)) \in Seq(Part)
  <2>1. \A i \in n + 1 .. Len(s) : s[i] \in Part
    BY <1>1
  <2> QED
    BY <2>1, <1>1, SubSeqProperties
<1>4. SubSeq(s, 1, n) \o SubSeq(s, n + 1, Len(s)) = SubSeq(s, 1, Len(s))
  <2>1. 1 \in 1 .. Len(s) + 1 /\ n \in 1 - 1 .. Len(s) /\ Len(s) \in n .. Len(s)
    BY <1>1
  <2> QED
    BY <2>1, ConcatAdjacentSubSeq
<1> QED
  BY <1>2, <1>3, <1>4, SubSeqFull

LEMMA BytesAre ==
  ASSUME NEW n \in Nat
  PROVE  /\ Bytes(n) \in Seq(Part) /\ Len(Bytes(n)) = n
         /\ Append(Bytes(n), n + 1) = Bytes(n + 1)
<1>1. Bytes(n) \in Seq(Part) /\ Len(Bytes(n)) = n
  BY DEF Bytes, Part
<1>2. Bytes(n + 1) \in Seq(Part) /\ Len(Bytes(n + 1)) = n + 1
  BY DEF Bytes, Part
<1>3. /\ Append(Bytes(n), n + 1) \in Seq(Part)
      /\ Len(Append(Bytes(n), n + 1)) = n + 1
      /\ \A i \in 1 .. n : Append(Bytes(n), n + 1)[i] = Bytes(n)[i]
      /\ Append(Bytes(n), n + 1)[n + 1] = n + 1
  BY <1>1, n + 1 \in Part, AppendProperties DEF Part
<1>4. \A i \in 1 .. n + 1 : Append(Bytes(n), n + 1)[i] = Bytes(n + 1)[i]
  BY <1>3 DEF Bytes
<1> QED
  BY <1>1, <1>2, <1>3, <1>4, SeqEqual

LEMMA AnswerIs ==
  ASSUME NEW granted \in BOOLEAN
  PROVE  Answer(granted) \in Seq(Part) /\ Len(Answer(granted)) = 2
BY DEF Answer, Part

\* The first two parts of a sequence that has so many.
LEMMA FirstTwo ==
  ASSUME NEW a \in Seq(Part), NEW b \in Seq(Part), Len(a) >= 2
  PROVE  LET y == SubSeq(a, 3, Len(a)) IN
         /\ y \in Seq(Part) /\ y \o b \in Seq(Part)
         /\ \E x \in Seq(Part) : Len(x) = 2 /\ x \o (y \o b) = a \o b
<1> DEFINE x == SubSeq(a, 1, 2)
           y == SubSeq(a, 3, Len(a))
<1>1. Len(a) \in Nat /\ 2 \in 0 .. Len(a)
  BY LenProperties
<1>2. x \in Seq(Part) /\ y \in Seq(Part) /\ Len(x) = 2 /\ x \o y = a
  BY <1>1, ProxyCut, 2 + 1 = 3
<1> HIDE DEF x, y
<1>3. (x \o y) \o b = x \o (y \o b)
  BY <1>2, BytesAssociate, ZenonT(60)
<1>4. x \o (y \o b) = a \o b
  BY <1>2, <1>3
<1>5. y \o b \in Seq(Part)
  BY <1>2, BytesJoin
<1> QED
  BY <1>2, <1>4, <1>5 DEF y

\* Two sequences with the same front have the same rest.
LEMMA FrontIs ==
  ASSUME NEW x \in Seq(Part), NEW z \in Seq(Part), Len(x) = 2
  PROVE  (x \o z)[1] = x[1] /\ (x \o z)[2] = x[2]
<1>1. 1 \in 1 .. Len(x) /\ 2 \in 1 .. Len(x)
  OBVIOUS
<1> QED
  BY <1>1, BytesJoin

LEMMA SameRest ==
  ASSUME NEW x \in Seq(Part), NEW z \in Seq(Part), NEW c \in Seq(Part), NEW d \in Seq(Part),
         Len(x) = 2, Len(c) = 2, x \o z = c \o d
  PROVE  z = d
<1>1. (x \o z)[1] = x[1] /\ (x \o z)[2] = x[2]
  BY FrontIs, Zenon
<1>2. (c \o d)[1] = c[1] /\ (c \o d)[2] = c[2]
  BY FrontIs, Zenon
<1>3. x[1] = c[1] /\ x[2] = c[2]
  BY <1>1, <1>2, Zenon
<1>4. x = c
  <2>1. \A i \in 1 .. 2 : x[i] = c[i]
    BY <1>3
  <2> QED
    BY <2>1, SeqEqual
<1>5. c \o z = c \o d
  BY <1>4
<1> QED
  BY <1>5, ConcatSimplifications

\* Two buffers that hold an answer and the bridge's n bytes, or these alone.
AnswerThenBytes(a, b, n) == \E granted \in BOOLEAN : a \o b = Answer(granted) \o Bytes(n)
BytesAlone(a, b, n) == a \in Seq(Part) /\ a \o b = Bytes(n)

\* An answer that was read whole leaves the bytes of the bridge.
LEMMA AnswerTaken ==
  ASSUME NEW a \in Seq(Part), NEW b \in Seq(Part), Len(a) >= 2,
         NEW n \in Nat, AnswerThenBytes(a, b, n)
  PROVE  BytesAlone(SubSeq(a, 3, Len(a)), b, n)
<1> DEFINE y == SubSeq(a, 3, Len(a))
           z == y \o b
           d == Bytes(n)
<1>1. PICK granted \in BOOLEAN : a \o b = Answer(granted) \o d
  BY DEF AnswerThenBytes
<1> DEFINE c == Answer(granted)
<1>2. c \in Seq(Part) /\ Len(c) = 2 /\ d \in Seq(Part)
  BY AnswerIs, BytesAre
<1>3. y \in Seq(Part) /\ z \in Seq(Part) /\ \E x \in Seq(Part) : Len(x) = 2 /\ x \o z = a \o b
  BY FirstTwo
<1>4. PICK x \in Seq(Part) : Len(x) = 2 /\ x \o z = c \o d
  BY <1>1, <1>3
<1> HIDE DEF c, d, z
<1>5. z = d
  BY <1>2, <1>3, <1>4, SameRest
<1> QED
  BY <1>3, <1>5 DEF z, d, BytesAlone

LEMMA InitProxy == ProxyInit => ProxyInv
<1> SUFFICES ASSUME ProxyInit
             PROVE  ProxyInv
  OBVIOUS
<1>1. ProxyTypes
  BY NoBytes DEF ProxyInit, ProxyTypes
<1> QED
  BY <1>1 DEF ProxyInit, ProxyInv

LEMMA DialProxy ==
  ASSUME ProxyInv, (\E kind \in {"http", "socks4a"} : ProxyDial(kind)) \/ ProxyDialFails
  PROVE  ProxyInv'
BY DEF ProxyInv, ProxyTypes, ProxyDial, ProxyDialFails

LEMMA AnswersProxy ==
  ASSUME ProxyInv, NEW granted \in BOOLEAN, ProxyAnswers(granted)
  PROVE  ProxyInv'
<1>1. /\ Answer(granted) \in Seq(Part) /\ Bytes(0) \in Seq(Part) /\ Len(Bytes(0)) = 0
  BY AnswerIs, BytesAre
<1>2. Bytes(0) = <<>>
  BY <1>1, EmptySeq
<1>3. fromProxy' = Answer(granted) /\ staleReader' = <<>> /\ bridgeSent' = 0
  BY <1>1, ConcatEmptySeq DEF ProxyInv, ProxyAnswers
<1>4. staleReader' \o fromProxy' = Answer(granted) \o Bytes(bridgeSent')
  BY <1>1, <1>2, <1>3, ConcatEmptySeq
<1>5. ProxyTypes'
  BY <1>1, <1>3 DEF ProxyInv, ProxyTypes, ProxyAnswers
<1> QED
  BY <1>3, <1>4, <1>5 DEF ProxyInv, ProxyAnswers

LEMMA BridgeSendsProxy ==
  ASSUME ProxyInv, BridgeSends
  PROVE  ProxyInv'
<1> DEFINE b == bridgeSent + 1
<1>1. /\ b \in Nat /\ b \in Part /\ bridgeSent' = b /\ fromProxy' = fromProxy \o <<b>>
      /\ <<b>> \in Seq(Part)
      /\ fromProxy \in Seq(Part) /\ staleReader \in Seq(Part) /\ proxyRead \in Seq(Part)
  <2>1. /\ b \in Nat /\ b \in Part /\ bridgeSent' = b /\ fromProxy' = Append(fromProxy, b)
        /\ fromProxy \in Seq(Part) /\ staleReader \in Seq(Part) /\ proxyRead \in Seq(Part)
    BY DEF ProxyInv, ProxyTypes, BridgeSends, Part
  <2> HIDE DEF b
  <2>2. Append(fromProxy, b) = fromProxy \o <<b>> /\ <<b>> \in Seq(Part)
    BY <2>1, AppendIsConcat
  <2> QED
    BY <2>1, <2>2
<1>2. /\ Bytes(bridgeSent) \in Seq(Part)
      /\ Bytes(b) = Bytes(bridgeSent) \o <<b>>
  <2>1. bridgeSent \in Nat
    BY DEF ProxyInv, ProxyTypes
  <2>2. Bytes(bridgeSent) \in Seq(Part) /\ Append(Bytes(bridgeSent), b) = Bytes(b)
    BY <2>1, BytesAre
  <2> QED
    BY <2>2, <1>1, AppendIsConcat
<1> HIDE DEF b
<1>3. ASSUME NEW s \in Seq(Part)
      PROVE  /\ s \o fromProxy \in Seq(Part)
             /\ s \o fromProxy' = (s \o fromProxy) \o <<b>>
  BY <1>1, <1>3, BytesJoin
<1>4. ASSUME proxyAt = "asked"
      PROVE  \E granted \in BOOLEAN : (staleReader \o fromProxy = Answer(granted) \o Bytes(bridgeSent))'
  <2>1. PICK granted \in BOOLEAN : staleReader \o fromProxy = Answer(granted) \o Bytes(bridgeSent)
    BY <1>4 DEF ProxyInv, BridgeSends
  <2>2. staleReader \o fromProxy' = (Answer(granted) \o Bytes(bridgeSent)) \o <<b>>
    BY <1>1, <1>3, <2>1
  <2>3. (Answer(granted) \o Bytes(bridgeSent)) \o <<b>> = Answer(granted) \o Bytes(b)
    <3>1. Answer(granted) \in Seq(Part)
      BY AnswerIs
    <3> QED
      BY <1>1, <1>2, <3>1, BytesMove
  <2> QED
    BY <1>1, <2>2, <2>3 DEF BridgeSends
<1>5. ASSUME proxyAt = "open"
      PROVE  (proxyRead \o (staleReader \o fromProxy) = Bytes(bridgeSent))'
  <2>1. proxyRead \o (staleReader \o fromProxy) = Bytes(bridgeSent)
    BY <1>5 DEF ProxyInv
  <2>2. /\ staleReader \o fromProxy \in Seq(Part)
        /\ staleReader \o fromProxy' = (staleReader \o fromProxy) \o <<b>>
    BY <1>1, <1>3
  <2>3. proxyRead \o (staleReader \o fromProxy') = (proxyRead \o (staleReader \o fromProxy)) \o <<b>>
    BY <1>1, <2>2, BytesJoin
  <2> QED
    BY <1>1, <1>2, <2>1, <2>3 DEF BridgeSends
<1>6. ProxyTypes'
  BY <1>1, ConcatProperties DEF ProxyInv, ProxyTypes, BridgeSends
<1> QED
  BY <1>4, <1>5, <1>6 DEF ProxyInv, ProxyTypes, BridgeSends

\* The HTTP client's buffer takes from the front of the network.
LEMMA FillProxy ==
  ASSUME ProxyInv, NEW n \in 1 .. Len(fromProxy), HTTPFill(n)
  PROVE  ProxyInv'
<1>1. /\ fromProxy \in Seq(Part) /\ staleReader \in Seq(Part)
      /\ Len(fromProxy) \in Nat /\ n \in 0 .. Len(fromProxy)
  BY LenProperties DEF ProxyInv, ProxyTypes
<1>2. /\ SubSeq(fromProxy, 1, n) \in Seq(Part)
      /\ SubSeq(fromProxy, n + 1, Len(fromProxy)) \in Seq(Part)
      /\ SubSeq(fromProxy, 1, n) \o SubSeq(fromProxy, n + 1, Len(fromProxy)) = fromProxy
  BY <1>1, ProxyCut
<1>3. staleReader' \in Seq(Part) /\ fromProxy' \in Seq(Part)
  BY <1>1, <1>2, ConcatProperties DEF HTTPFill
<1>4. staleReader' \o fromProxy' = staleReader \o fromProxy
  <2> DEFINE x == SubSeq(fromProxy, 1, n)
             y == SubSeq(fromProxy, n + 1, Len(fromProxy))
  <2>1. staleReader' = staleReader \o x /\ fromProxy' = y
    BY DEF HTTPFill
  <2>2. x \in Seq(Part) /\ y \in Seq(Part) /\ x \o y = fromProxy
    BY <1>2
  <2> HIDE DEF x, y
  <2>3. (staleReader \o x) \o y = staleReader \o (x \o y)
    BY <1>1, <2>2, BytesAssociate
  <2> QED
    BY <2>1, <2>2, <2>3
<1>5. answered = TRUE
  <2>1. fromProxy # <<>>
    BY <1>1, EmptySeq
  <2> QED
    BY <2>1 DEF ProxyInv, ProxyTypes
<1> QED
  BY <1>3, <1>4, <1>5 DEF ProxyInv, ProxyTypes, HTTPFill

LEMMA HTTPResponseProxy ==
  ASSUME ProxyInv, HTTPResponse
  PROVE  ProxyInv'
<1>1. /\ fromProxy \in Seq(Part) /\ staleReader \in Seq(Part) /\ bridgeSent \in Nat
      /\ Len(staleReader) \in Nat
  BY LenProperties DEF ProxyInv, ProxyTypes
<1>2. answered = TRUE
  BY <1>1, EmptySeq DEF ProxyInv, ProxyTypes, HTTPResponse
<1>3. AnswerThenBytes(staleReader, fromProxy, bridgeSent)
  BY <1>2 DEF ProxyInv, HTTPResponse, AnswerThenBytes
<1>4. staleReader' \in Seq(Part) /\ staleReader' \o fromProxy = Bytes(bridgeSent)
  <2>1. Len(staleReader) >= 2 /\ staleReader' = SubSeq(staleReader, 3, Len(staleReader))
    BY DEF HTTPResponse
  <2>2. BytesAlone(SubSeq(staleReader, 3, Len(staleReader)), fromProxy, bridgeSent)
    BY <1>1, <1>3, <2>1, AnswerTaken
  <2> QED
    BY <2>1, <2>2 DEF BytesAlone
<1>5. proxyRead \o (staleReader' \o fromProxy) = Bytes(bridgeSent)
  <2>1. proxyRead = <<>> /\ Bytes(bridgeSent) \in Seq(Part)
    BY <1>1, BytesAre DEF ProxyInv, HTTPResponse
  <2> QED
    BY <2>1, <1>4, ConcatEmptySeq
<1> QED
  BY <1>2, <1>4, <1>5 DEF ProxyInv, ProxyTypes, HTTPResponse

LEMMA SOCKS4ResponseProxy ==
  ASSUME ProxyInv, SOCKS4Response
  PROVE  ProxyInv'
<1>1. /\ fromProxy \in Seq(Part) /\ staleReader = <<>> /\ bridgeSent \in Nat
      /\ Len(fromProxy) \in Nat
  BY LenProperties DEF ProxyInv, ProxyTypes, SOCKS4Response
<1>2. answered = TRUE
  BY <1>1, EmptySeq DEF ProxyInv, ProxyTypes, SOCKS4Response
<1>3. \E granted \in BOOLEAN : staleReader \o fromProxy = Answer(granted) \o Bytes(bridgeSent)
  BY <1>2 DEF ProxyInv, SOCKS4Response
<1>4. AnswerThenBytes(fromProxy, <<>>, bridgeSent) /\ <<>> \in Seq(Part)
  <2>1. staleReader \o fromProxy = fromProxy /\ fromProxy \o <<>> = fromProxy /\ <<>> \in Seq(Part)
    BY <1>1, ConcatEmptySeq, EmptySeq
  <2> QED
    BY <1>3, <2>1, Zenon DEF AnswerThenBytes
<1>5. fromProxy' \in Seq(Part) /\ fromProxy' \o <<>> = Bytes(bridgeSent)
  <2>1. Len(fromProxy) >= 2 /\ fromProxy' = SubSeq(fromProxy, 3, Len(fromProxy))
    BY DEF SOCKS4Response
  <2>2. BytesAlone(SubSeq(fromProxy, 3, Len(fromProxy)), <<>>, bridgeSent)
    BY <1>1, <1>4, <2>1, AnswerTaken
  <2> QED
    BY <2>1, <2>2 DEF BytesAlone
<1>6. proxyRead \o (staleReader \o fromProxy') = Bytes(bridgeSent)
  <2>1. proxyRead = <<>>
    BY DEF ProxyInv, SOCKS4Response
  <2> QED
    BY <2>1, <1>1, <1>5, ConcatEmptySeq
<1> QED
  BY <1>1, <1>2, <1>5, <1>6 DEF ProxyInv, ProxyTypes, SOCKS4Response

\* A Read takes from the front of what is left, wherever that is.
LEMMA ReadProxy ==
  ASSUME ProxyInv, NEW n, ProxyConnRead(n)
  PROVE  ProxyInv'
<1>1. /\ fromProxy \in Seq(Part) /\ staleReader \in Seq(Part) /\ proxyRead \in Seq(Part)
      /\ Len(fromProxy) \in Nat /\ Len(staleReader) \in Nat
      /\ proxyRead \o (staleReader \o fromProxy) = Bytes(bridgeSent)
      /\ answered = TRUE /\ proxyAt = "open"
  BY LenProperties DEF ProxyInv, ProxyTypes, ProxyConnRead
<1>2. CASE ReadsStale
  <2> DEFINE x == SubSeq(staleReader, 1, n)
             y == SubSeq(staleReader, n + 1, Len(staleReader))
  <2>1. n \in 0 .. Len(staleReader)
    BY <1>1, <1>2 DEF ProxyConnRead
  <2>2. x \in Seq(Part) /\ y \in Seq(Part) /\ x \o y = staleReader
    BY <1>1, <2>1, ProxyCut
  <2>3. proxyRead' = proxyRead \o x /\ staleReader' = y /\ UNCHANGED <<fromProxy, stale>>
    BY <1>2 DEF ProxyConnRead
  <2> HIDE DEF x, y
  <2>4. (proxyRead \o x) \o (y \o fromProxy) = proxyRead \o (staleReader \o fromProxy)
    <3>1. y \o fromProxy \in Seq(Part)
      BY <1>1, <2>2, BytesJoin
    <3>2. (x \o y) \o fromProxy = x \o (y \o fromProxy)
      BY <1>1, <2>2, BytesAssociate, ZenonT(60)
    <3>3. (proxyRead \o x) \o (y \o fromProxy) = proxyRead \o (x \o (y \o fromProxy))
      BY <1>1, <2>2, <3>1, BytesAssociate
    <3> QED
      BY <2>2, <3>2, <3>3
  <2>5. proxyRead' \in Seq(Part)
    BY <1>1, <2>2, <2>3, ConcatProperties
  <2>6. stale = TRUE
    BY <1>2 DEF ReadsStale, ProxyInv, ProxyTypes
  <2> QED
    BY <1>1, <2>2, <2>3, <2>4, <2>5, <2>6 DEF ProxyInv, ProxyTypes, ProxyConnRead
<1>3. CASE ~ReadsStale
  <2> DEFINE x == SubSeq(fromProxy, 1, n)
             y == SubSeq(fromProxy, n + 1, Len(fromProxy))
  <2>1. n \in 0 .. Len(fromProxy)
    BY <1>1, <1>3 DEF ProxyConnRead
  <2>2. x \in Seq(Part) /\ y \in Seq(Part) /\ x \o y = fromProxy
    BY <1>1, <2>1, ProxyCut
  <2>3. proxyRead' = proxyRead \o x /\ fromProxy' = y /\ stale' = FALSE /\ UNCHANGED staleReader
    BY <1>3 DEF ProxyConnRead
  <2> HIDE DEF x, y
  <2>4. staleReader = <<>>
    BY <1>1, <1>3 DEF ReadsStale, ProxyInv, ProxyTypes
  <2>5. (proxyRead \o x) \o (staleReader \o y) = proxyRead \o (staleReader \o fromProxy)
    <3>1. staleReader \o y = y /\ staleReader \o fromProxy = fromProxy
      BY <1>1, <2>2, <2>4, BytesJoin
    <3>2. (proxyRead \o x) \o y = proxyRead \o (x \o y)
      BY <1>1, <2>2, BytesAssociate
    <3> QED
      BY <2>2, <3>1, <3>2
  <2>6. proxyRead' \in Seq(Part)
    BY <1>1, <2>2, <2>3, ConcatProperties
  <2> QED
    BY <1>1, <2>2, <2>3, <2>4, <2>5, <2>6 DEF ProxyInv, ProxyTypes, ProxyConnRead
<1> QED
  BY <1>2, <1>3

LEMMA NextProxy == ProxyInv /\ [ProxyNext]_proxyVars => ProxyInv'
<1> SUFFICES ASSUME ProxyInv, [ProxyNext]_proxyVars
             PROVE  ProxyInv'
  OBVIOUS
<1>1. CASE UNCHANGED proxyVars
  BY <1>1 DEF ProxyInv, ProxyTypes, proxyVars
<1>2. ASSUME NEW n, HTTPFill(n)
      PROVE  ProxyInv'
  <2>1. n \in 1 .. Len(fromProxy)
    BY <1>2 DEF HTTPFill
  <2> QED
    BY <2>1, <1>2, FillProxy
<1> QED
  BY <1>1, <1>2, DialProxy, AnswersProxy, BridgeSendsProxy, HTTPResponseProxy,
     SOCKS4ResponseProxy, ReadProxy DEF ProxyNext

\* Through either kind of proxy a transport reads the bytes of the bridge, all
\* and in order, however they come together with the proxy's answer.
THEOREM ProxyAlwaysConserves == ProxySpec => []ProxyConserves
<1>1. ASSUME ProxyInv
      PROVE  ProxyConserves
  <2> SUFFICES ASSUME proxyAt = "open"
               PROVE  /\ proxyRead = [i \in 1 .. Len(proxyRead) |-> i]
                      /\ ~ReadsStale /\ fromProxy = <<>> => Len(proxyRead) = bridgeSent
    BY DEF ProxyConserves
  <2> DEFINE ahead == staleReader \o fromProxy
             k == Len(proxyRead)
  <2>1. /\ proxyRead \in Seq(Part) /\ ahead \in Seq(Part) /\ bridgeSent \in Nat
        /\ proxyRead \o ahead = Bytes(bridgeSent)
    BY <1>1, ConcatProperties DEF ProxyInv, ProxyTypes
  <2> HIDE DEF ahead
  <2>2. /\ k \in Nat /\ Len(ahead) \in Nat /\ k + Len(ahead) = bridgeSent
        /\ \A i \in 1 .. k : proxyRead[i] = Bytes(bridgeSent)[i]
    <3>1. Len(Bytes(bridgeSent)) = bridgeSent
      BY <2>1, BytesAre
    <3>2. /\ Len(proxyRead) \in Nat /\ Len(ahead) \in Nat
          /\ Len(proxyRead \o ahead) = Len(proxyRead) + Len(ahead)
          /\ \A i \in 1 .. Len(proxyRead) : (proxyRead \o ahead)[i] = proxyRead[i]
      BY <2>1, BytesJoin
    <3> QED
      BY <2>1, <3>1, <3>2
  <2>3. proxyRead = Bytes(k)
    <3>1. \A i \in 1 .. k : proxyRead[i] = Bytes(k)[i]
      <4> SUFFICES ASSUME NEW i \in 1 .. k
                   PROVE  proxyRead[i] = Bytes(k)[i]
        OBVIOUS
      <4>1. i \in 1 .. bridgeSent
        BY <2>1, <2>2
      <4>2. Bytes(bridgeSent)[i] = i
        BY <4>1 DEF Bytes
      <4>3. Bytes(k)[i] = i
        BY DEF Bytes
      <4> QED
        BY <2>2, <4>2, <4>3
    <3>2. Bytes(k) \in Seq(Part) /\ Len(Bytes(k)) = k
      BY <2>2, BytesAre
    <3> QED
      BY <3>1, <3>2, <2>1, SeqEqual
  <2>4. ASSUME ~ReadsStale, fromProxy = <<>>
        PROVE  k = bridgeSent
    <3>1. staleReader = <<>>
      BY <1>1, <2>4 DEF ReadsStale, ProxyInv, ProxyTypes
    <3>2. ahead = <<>>
      BY <3>1, <2>4, ConcatEmptySeq, EmptySeq DEF ahead
    <3> QED
      BY <3>2, <2>2, EmptySeq
  <2> QED
    BY <2>3, <2>4 DEF Bytes
<1> QED
  BY <1>1, InitProxy, NextProxy, PTL DEF ProxySpec

(***************************************************************************)
(* The server names of webtunnel.                                          *)
(***************************************************************************)

NamesInv == DOMAIN position = Specs /\ position = [s \in Specs |-> position[s]]

LEMMA NamesInvHolds == NamesSpec => []NamesInv
<1>1. NamesInit => NamesInv
  BY DEF NamesInit, NamesInv
<1>2. NamesInv /\ [NamesNext]_namesVars => NamesInv'
  <2> SUFFICES ASSUME NamesInv, [NamesNext]_namesVars
               PROVE  NamesInv'
    OBVIOUS
  <2>1. UNCHANGED position \/ \E s, p : position' = [position EXCEPT ![s] = p]
    BY DEF namesVars, NamesNext, Connect, GetGenerator, GenerateServerName,
           TLSFails, UpgradeFails, Reroll, Upgraded, NextDial
  <2> QED
    BY <2>1 DEF NamesInv
<1> QED
  BY <1>1, <1>2, PTL DEF NamesSpec

\* A dial that failed moves the position only from the name it failed with, and
\* that name does not work: for any lists of names and any number of dials.
THEOREM WorkingNamesStay == NamesSpec => WorkingNameStays
<1>1. ASSUME NamesInv, [NamesNext]_namesVars,
             NEW s \in Specs, position[s] # 0, NameAt(s) \in Working
      PROVE  position'[s] = position[s]
  <2>1. ASSUME NEW d \in Dialers, GetGenerator(d)
        PROVE  position'[s] = position[s]
    <3>1. position[dialSpec[d]] = 0 /\ dialSpec[d] # s
      BY <2>1, <1>1 DEF GetGenerator
    <3>2. UNCHANGED position \/ \E p : position' = [position EXCEPT ![dialSpec[d]] = p]
      BY <2>1 DEF GetGenerator
    <3> QED
      BY <3>1, <3>2, <1>1 DEF NamesInv
  <2>2. ASSUME NEW d \in Dialers, UpgradeFails(d)
        PROVE  position'[s] = position[s]
    <3>1. CASE NameAt(dialSpec[d]) = serverName[d]
      <4>1. dialSpec[d] # s
        BY <3>1, <2>2, <1>1 DEF UpgradeFails
      <4>2. \E p : position' = [position EXCEPT ![dialSpec[d]] = p]
        BY <3>1, <2>2 DEF UpgradeFails, Reroll
      <4> QED
        BY <4>1, <4>2, <1>1 DEF NamesInv
    <3>2. CASE NameAt(dialSpec[d]) # serverName[d]
      BY <3>2, <2>2 DEF UpgradeFails, Reroll
    <3> QED
      BY <3>1, <3>2
  <2>3. ASSUME NEW d \in Dialers,
               \/ \E spec \in Specs : Connect(d, spec)
               \/ GenerateServerName(d) \/ TLSFails(d) \/ Upgraded(d) \/ NextDial(d)
        PROVE  position'[s] = position[s]
    BY <2>3 DEF Connect, GenerateServerName, TLSFails, Upgraded, NextDial
  <2>4. CASE UNCHANGED namesVars
    BY <2>4 DEF namesVars
  <2> QED
    BY <1>1, <2>1, <2>2, <2>3, <2>4 DEF NamesNext
<1>2. NamesInv /\ [NamesNext]_namesVars =>
        [\A s \in Specs : position[s] # 0 /\ NameAt(s) \in Working => position'[s] = position[s]]_namesVars
  BY <1>1
<1> QED
  BY <1>2, NamesInvHolds, PTL DEF NamesSpec, WorkingNameStays

(***************************************************************************)
(* The SOCKS5 server.  What it reads from the arguments as tor writes them *)
(* is the arguments (ParseEncode); first, induction for sets of naturals.  *)
(***************************************************************************)

\* A set of naturals that is not empty has a least element.
LEMMA LeastNatural ==
  ASSUME NEW T, T \subseteq Nat, T # {}
  PROVE  \E x \in T : \A y \in T : x <= y
<1> DEFINE R == StrictSubsetOrdering(Nat)
           U == {1 .. k : k \in T}
<1>1. IsWellFoundedOn(R, FiniteSubsetsOf(Nat))
  BY FS_StrictSubsetOrderingWellFounded
<1>2. U \subseteq FiniteSubsetsOf(Nat) /\ U # {}
  <2>1. \A k \in Nat : IsFiniteSet(1 .. k) /\ (1 .. k) \subseteq Nat
    BY FS_Interval
  <2> QED
    BY <2>1 DEF FiniteSubsetsOf
<1>3. PICK s \in U : \A u \in U : ~(<<u, s>> \in R)
  <2> HIDE DEF R, U
  <2> QED BY <1>1, <1>2, WFMin
<1>4. PICK x \in T : s = 1 .. x
  OBVIOUS
<1>5. ASSUME NEW y \in T, y < x
      PROVE  FALSE
  <2>1. (1 .. y) \subseteq (1 .. x) /\ (1 .. y) # (1 .. x)
    BY <1>5, x \in 1 .. x /\ x \notin 1 .. y
  <2>2. <<1 .. y, 1 .. x>> \in R
    BY <2>1 DEF StrictSubsetOrdering
  <2> QED
    BY <1>3, <1>4, <2>2
<1> QED
  BY <1>5

\* A set that has 0, and of every number before n the next, has n.
LEMMA ReachesFromZero ==
  ASSUME NEW n \in Nat, NEW T, 0 \in T,
         \A i \in 0 .. n - 1 : i \in T => i + 1 \in T
  PROVE  0 .. n \subseteq T
<1> DEFINE Missing == (0 .. n) \ T
<1>1. CASE Missing # {}
  <2>1. Missing \subseteq Nat
    OBVIOUS
  <2> HIDE DEF Missing
  <2>2. PICK x \in Missing : \A y \in Missing : x <= y
    BY <1>1, <2>1, LeastNatural
  <2> USE DEF Missing
  <2>3. x \in 0 .. n /\ x \notin T /\ x # 0
    BY <2>2
  <2>4. x - 1 \in 0 .. n - 1 /\ (x - 1) + 1 = x
    BY <2>3
  <2>5. x - 1 \in T
    BY <2>2, <2>4
  <2> QED
    BY <2>3, <2>4, <2>5
<1> QED
  BY <1>1

(***************************************************************************)
(* FlattenSeq, by places.                                                  *)
(***************************************************************************)

\* g[i] joins the first i of the sequences s.
Chain(s, g) == g = [i \in 0 .. Len(s) |-> IF i = 0 THEN <<>> ELSE g[i - 1] \o s[i]]

LEMMA ChainExists ==
  ASSUME NEW S, NEW s \in Seq(Seq(S))
  PROVE  \E g : Chain(s, g)
<1> DEFINE n == Len(s)
           Next1(q, i) == q \o s[i]
           UpTo(m, g) == g = [i \in 0 .. m |-> IF i = 0 THEN <<>> ELSE Next1(g[i - 1], i)]
           T == {m \in 0 .. n : \E g : UpTo(m, g)}
<1>1. n \in Nat
  BY LenProperties
<1> HIDE DEF n, Next1
<1>2. 0 \in T
  <2> DEFINE g == [i \in 0 .. 0 |-> <<>>]
  <2>1. UpTo(0, g)
    OBVIOUS
  <2> HIDE DEF g
  <2> QED
    BY <1>1, <2>1
<1>3. ASSUME NEW m \in 0 .. n - 1, m \in T
      PROVE  m + 1 \in T
  <2>1. PICK f : UpTo(m, f)
    BY <1>3
  <2> DEFINE g == [i \in 0 .. m + 1 |-> IF i <= m THEN f[i] ELSE Next1(f[m], m + 1)]
  <2>2. ASSUME NEW i \in 0 .. m + 1
        PROVE  g[i] = IF i = 0 THEN <<>> ELSE Next1(g[i - 1], i)
    <3>1. CASE i = 0
      <4>1. 0 \in 0 .. m /\ 0 <= m
        BY <1>1
      <4> QED
        BY <2>1, <3>1, <4>1
    <3>2. CASE i # 0 /\ i <= m
      <4>1. i \in 0 .. m /\ i - 1 \in 0 .. m + 1 /\ i - 1 <= m
        BY <1>1, <3>2
      <4>2. f[i] = Next1(f[i - 1], i)
        BY <2>1, <3>2, <4>1
      <4> QED
        BY <3>2, <4>1, <4>2
    <3>3. CASE i # 0 /\ ~(i <= m)
      <4>1. i = m + 1 /\ i - 1 = m /\ m \in 0 .. m + 1 /\ m <= m
        BY <1>1, <3>3
      <4> QED
        BY <3>3, <4>1
    <3> QED
      BY <3>1, <3>2, <3>3
  <2>3. UpTo(m + 1, g)
    BY <2>2
  <2>4. m + 1 \in 0 .. n
    BY <1>1
  <2> HIDE DEF g
  <2> QED
    BY <2>3, <2>4
<1> HIDE DEF T
<1>4. n \in T
  <2>1. 0 .. n \subseteq T
    BY <1>1, <1>2, <1>3, ReachesFromZero
  <2> QED
    BY <1>1, <2>1
<1> QED
  BY <1>4 DEF T, Chain, n, Next1

\* FlattenSeq joins them all.
LEMMA FlattenIsChain ==
  ASSUME NEW S, NEW s \in Seq(Seq(S))
  PROVE  \E g : Chain(s, g) /\ FlattenSeq(s) = g[Len(s)]
<1> DEFINE n == Len(s)
           Joins(f) == f = [i \in 1 .. n |-> IF i = 1 THEN s[i] ELSE f[i - 1] \o s[i]]
<1>1. n \in Nat /\ \A i \in 1 .. n : s[i] \in Seq(S)
  BY LenProperties, ElementOfSeq
<1>2. PICK g : Chain(s, g)
  BY ChainExists
<1>3. g[0] = <<>> /\ \A i \in 1 .. n : g[i] = g[i - 1] \o s[i]
  <2>1. 0 \in 0 .. n /\ \A i \in 1 .. n : i \in 0 .. n /\ i # 0
    BY <1>1
  <2> QED
    BY <1>2, <2>1 DEF Chain
<1>4. CASE n = 0
  <2>1. s = <<>> /\ FlattenSeq(s) = s
    BY <1>4, EmptySeq DEF FlattenSeq
  <2> QED
    BY <1>2, <1>3, <1>4, <2>1
<1>5. CASE n # 0
  <2> DEFINE f0 == [i \in 1 .. n |-> g[i]]
             f == CHOOSE f : Joins(f)
             h == [i \in 0 .. n |-> IF i = 0 THEN <<>> ELSE f[i]]
  <2>1. ASSUME NEW i \in 1 .. n
        PROVE  f0[i] = IF i = 1 THEN s[i] ELSE f0[i - 1] \o s[i]
    <3>1. CASE i = 1
      <4>1. 1 \in 1 .. n /\ 1 - 1 = 0
        BY <1>1, <1>5
      <4>2. g[1] = g[0] \o s[1] /\ s[1] \in Seq(S)
        BY <1>1, <1>3, <4>1
      <4>3. <<>> \o s[1] = s[1]
        BY <4>2, ConcatEmptySeq
      <4>4. g[1] = s[1]
        BY <1>3, <4>2, <4>3, Zenon
      <4>5. f0[1] = g[1]
        BY <4>1
      <4> QED
        BY <3>1, <4>4, <4>5
    <3>2. CASE i # 1
      <4>1. i - 1 \in 1 .. n
        BY <1>1, <3>2
      <4> QED
        BY <1>3, <3>2, <4>1
    <3> QED
      BY <3>1, <3>2
  <2>2. Joins(f0)
    BY <2>1
  <2>3. Joins(f)
    BY <2>2
  <2>4. FlattenSeq(s) = f[n]
    BY <1>5 DEF FlattenSeq
  <2> HIDE DEF f
  <2>5. ASSUME NEW i \in 0 .. n
        PROVE  h[i] = IF i = 0 THEN <<>> ELSE h[i - 1] \o s[i]
    <3>1. CASE i = 0
      BY <3>1
    <3>2. CASE i = 1
      <4>1. h[1] = f[1] /\ h[0] = <<>> /\ f[1] = s[1] /\ s[1] \in Seq(S)
        BY <1>1, <1>5, <2>3
      <4>2. <<>> \o s[1] = s[1]
        BY <4>1, ConcatEmptySeq
      <4>3. h[1] = h[0] \o s[1]
        BY <4>1, <4>2, Zenon
      <4>4. i - 1 = 0 /\ i = 1 /\ i # 0
        BY <3>2
      <4> HIDE DEF h
      <4> QED
        BY <4>3, <4>4
    <3>3. CASE i # 0 /\ i # 1
      <4>1. i \in 1 .. n /\ i - 1 \in 0 .. n /\ i - 1 # 0
        BY <1>1, <3>3
      <4>2. f[i] = f[i - 1] \o s[i]
        BY <2>3, <3>3, <4>1
      <4> QED
        BY <3>3, <4>1, <4>2
    <3> QED
      BY <3>1, <3>2, <3>3
  <2>6. Chain(s, h)
    BY <2>5 DEF Chain
  <2>7. h[n] = f[n]
    BY <1>1, <1>5
  <2> HIDE DEF h
  <2> QED
    BY <2>4, <2>6, <2>7
<1> QED
  BY <1>4, <1>5

\* The sequences of s follow one another in str, the next from at[i] on.
PlacedAt(s, str, at) ==
  /\ at \in [0 .. Len(s) -> Nat] /\ at[0] = 0 /\ at[Len(s)] = Len(str)
  /\ \A i \in 0 .. Len(s) - 1 :
       /\ at[i + 1] = at[i] + Len(s[i + 1]) /\ at[i + 1] <= Len(str)
       /\ \A j \in 1 .. Len(s[i + 1]) : str[at[i] + j] = s[i + 1][j]

LEMMA FlattenPlaces ==
  ASSUME NEW S, NEW s \in Seq(Seq(S))
  PROVE  FlattenSeq(s) \in Seq(S) /\ \E at : PlacedAt(s, FlattenSeq(s), at)
<1> DEFINE n == Len(s)
<1>1. n \in Nat /\ \A i \in 1 .. n : s[i] \in Seq(S)
  BY LenProperties, ElementOfSeq
<1>2. PICK g : Chain(s, g) /\ FlattenSeq(s) = g[n]
  BY FlattenIsChain
<1>3. g[0] = <<>> /\ \A i \in 0 .. n - 1 : g[i + 1] = g[i] \o s[i + 1]
  <2>1. 0 \in 0 .. n /\ \A i \in 0 .. n - 1 : i + 1 \in 0 .. n /\ i + 1 # 0 /\ (i + 1) - 1 = i
    BY <1>1
  <2> QED
    BY <1>2, <2>1 DEF Chain
<1> HIDE DEF n
<1>4. \A i \in 0 .. n - 1 : i \in 0 .. n /\ i + 1 \in 0 .. n /\ i + 1 \in 1 .. n
  BY <1>1
<1>5. ASSUME NEW k \in 0 .. n - 1, g[k] \in Seq(S)
      PROVE  /\ g[k + 1] \in Seq(S) /\ Len(g[k + 1]) = Len(g[k]) + Len(s[k + 1])
             /\ Len(g[k]) \in Nat /\ Len(s[k + 1]) \in Nat
             /\ \A p \in 1 .. Len(g[k]) : g[k + 1][p] = g[k][p]
             /\ \A j \in 1 .. Len(s[k + 1]) : g[k + 1][Len(g[k]) + j] = s[k + 1][j]
  <2> DEFINE a == g[k]
             b == s[k + 1]
             c == g[k + 1]
  <2>1. a \in Seq(S) /\ b \in Seq(S) /\ c = a \o b
    BY <1>1, <1>3, <1>4, <1>5
  <2> HIDE DEF a, b, c
  <2>2. /\ a \o b \in Seq(S) /\ Len(a \o b) = Len(a) + Len(b) /\ Len(a) \in Nat /\ Len(b) \in Nat
        /\ \A p \in 1 .. Len(a) : (a \o b)[p] = a[p]
        /\ \A j \in 1 .. Len(b) : (a \o b)[Len(a) + j] = b[j]
    BY <2>1
  <2>3. /\ c \in Seq(S) /\ Len(c) = Len(a) + Len(b) /\ Len(a) \in Nat /\ Len(b) \in Nat
        /\ \A p \in 1 .. Len(a) : c[p] = a[p]
        /\ \A j \in 1 .. Len(b) : c[Len(a) + j] = b[j]
    BY <2>1, <2>2, Zenon
  <2> QED
    BY <2>3 DEF a, b, c
<1>6. ASSUME NEW k \in 0 .. n
      PROVE  g[k] \in Seq(S) /\ Len(g[k]) \in Nat
  <2> DEFINE T == {i \in 0 .. n : g[i] \in Seq(S)}
  <2>1. 0 \in T
    <3>1. <<>> \in Seq(S) /\ 0 \in 0 .. n
      BY <1>1
    <3> QED
      BY <1>3, <3>1
  <2>2. ASSUME NEW i \in 0 .. n - 1, i \in T
        PROVE  i + 1 \in T
    BY <1>4, <1>5, <2>2
  <2> HIDE DEF T
  <2>3. k \in T
    BY <1>1, <2>1, <2>2, ReachesFromZero
  <2> USE DEF T
  <2> QED
    BY <2>3, LenProperties
<1> DEFINE Begins(i, k) == Len(g[i]) <= Len(g[k]) /\ \A p \in 1 .. Len(g[i]) : g[k][p] = g[i][p]
<1>7. ASSUME NEW k \in 0 .. n - 1
      PROVE  /\ Begins(k, k + 1) /\ Len(g[k + 1]) = Len(g[k]) + Len(s[k + 1])
             /\ \A j \in 1 .. Len(s[k + 1]) : g[k + 1][Len(g[k]) + j] = s[k + 1][j]
  <2>1. g[k] \in Seq(S)
    BY <1>4, <1>6
  <2>2. /\ Len(g[k + 1]) = Len(g[k]) + Len(s[k + 1]) /\ Len(g[k]) \in Nat /\ Len(s[k + 1]) \in Nat
        /\ \A p \in 1 .. Len(g[k]) : g[k + 1][p] = g[k][p]
        /\ \A j \in 1 .. Len(s[k + 1]) : g[k + 1][Len(g[k]) + j] = s[k + 1][j]
    BY <1>5, <2>1, Zenon
  <2>3. Len(g[k]) <= Len(g[k + 1])
    <3>1. \A x, y \in Nat : x <= x + y
      OBVIOUS
    <3> QED
      BY <2>2, <3>1, Zenon
  <2> QED
    BY <2>2, <2>3, Zenon
<1>8. ASSUME NEW a \in 0 .. n, NEW b \in 0 .. n, NEW c \in 0 .. n, Begins(a, b), Begins(b, c)
      PROVE  Begins(a, c)
  <2>1. Len(g[a]) \in Nat /\ Len(g[b]) \in Nat /\ Len(g[c]) \in Nat
    BY <1>6
  <2>2. Len(g[a]) <= Len(g[c]) /\ \A p \in 1 .. Len(g[a]) : p \in 1 .. Len(g[b])
    BY <1>8, <2>1
  <2> QED
    BY <1>8, <2>2
<1>9. ASSUME NEW k \in 0 .. n
      PROVE  \A i \in 0 .. k : Begins(i, k)
  <2> DEFINE T == {m \in 0 .. n : \A i \in 0 .. m : Begins(i, m)}
  <2>1. ASSUME NEW m \in 0 .. n
        PROVE  Begins(m, m)
    BY <1>6
  <2> HIDE DEF Begins
  <2>2. 0 \in T
    BY <1>1, <2>1
  <2>3. ASSUME NEW m \in 0 .. n - 1, m \in T
        PROVE  m + 1 \in T
    <3>1. ASSUME NEW i \in 0 .. m + 1
          PROVE  Begins(i, m + 1)
      <4>1. CASE i = m + 1
        BY <1>4, <2>1, <4>1
      <4>2. CASE i # m + 1
        <5>1. i \in 0 .. m /\ i \in 0 .. n
          BY <1>1, <4>2
        <5>2. Begins(i, m)
          BY <2>3, <5>1
        <5> QED
          BY <1>4, <1>7, <1>8, <5>1, <5>2
      <4> QED
        BY <4>1, <4>2
    <3> QED
      BY <1>4, <3>1
  <2> HIDE DEF T
  <2>4. k \in T
    BY <1>1, <2>2, <2>3, ReachesFromZero
  <2> QED
    BY <2>4 DEF T
<1> DEFINE at == [i \in 0 .. n |-> Len(g[i])]
<1>10. at \in [0 .. n -> Nat] /\ at[0] = 0 /\ at[n] = Len(g[n])
  <2>1. 0 \in 0 .. n /\ n \in 0 .. n /\ Len(<<>>) = 0
    BY <1>1
  <2> QED
    BY <1>3, <1>6, <2>1
<1>11. ASSUME NEW i \in 0 .. n - 1
       PROVE  /\ at[i + 1] = at[i] + Len(s[i + 1]) /\ at[i + 1] <= Len(g[n])
              /\ \A j \in 1 .. Len(s[i + 1]) : g[n][at[i] + j] = s[i + 1][j]
  <2>0. i \in 0 .. n /\ i + 1 \in 0 .. n /\ n \in 0 .. n
    BY <1>1, <1>4
  <2>1. Begins(i + 1, n) /\ at[i] = Len(g[i]) /\ at[i + 1] = Len(g[i + 1])
    <3>1. at[i] = Len(g[i]) /\ at[i + 1] = Len(g[i + 1])
      BY <2>0
    <3> HIDE DEF Begins, at
    <3>2. Begins(i + 1, n)
      BY <1>9, <2>0
    <3> QED
      BY <3>1, <3>2
  <2>2. /\ Len(g[i + 1]) = Len(g[i]) + Len(s[i + 1])
        /\ \A j \in 1 .. Len(s[i + 1]) : g[i + 1][Len(g[i]) + j] = s[i + 1][j]
    BY <1>7
  <2>3. Len(g[i]) \in Nat /\ Len(s[i + 1]) \in Nat
    BY <1>1, <1>4, <1>6, LenProperties
  <2>4. \A j \in 1 .. Len(s[i + 1]) : Len(g[i]) + j \in 1 .. Len(g[i + 1])
    <3>1. \A x, y \in Nat : \A j \in 1 .. y : x + j \in 1 .. x + y
      OBVIOUS
    <3> QED
      BY <2>2, <2>3, <3>1, Zenon
  <2> QED
    BY <2>1, <2>2, <2>4
<1> HIDE DEF at
<1>12. PlacedAt(s, g[n], at)
  BY <1>10, <1>11 DEF PlacedAt, n
<1>13. g[n] \in Seq(S)
  BY <1>1, <1>6
<1> QED
  BY <1>2, <1>12, <1>13

\* What parseClientParameters has read, when no "\" waits for its character.
Read(args, key, acc) == [args |-> args, key |-> key, acc |-> acc, esc |-> FALSE, err |-> FALSE]
Escaping(args, key, acc) == [args |-> args, key |-> key, acc |-> acc, esc |-> TRUE, err |-> FALSE]

LEMMA ParsePlain ==
  ASSUME NEW a, NEW k, NEW x, NEW c, c \notin Special, NEW last
  PROVE  Parse1(Read(a, k, x), c, last) = Read(a, k, Append(x, c))
BY DEF Parse1, Read, Special

LEMMA ParseBackslash ==
  ASSUME NEW a, NEW k, NEW x, NEW last
  PROVE  Parse1(Read(a, k, x), "\\", last) = Escaping(a, k, x)
BY DEF Parse1, Read, Escaping

LEMMA ParseEscaped ==
  ASSUME NEW a, NEW k, NEW x, NEW c \in Special, NEW last
  PROVE  Parse1(Escaping(a, k, x), c, last) = Read(a, k, Append(x, c))
BY DEF Parse1, Read, Escaping, Special, BadSemicolon

LEMMA ParseEquals ==
  ASSUME NEW a, NEW x, x # <<>>, NEW last
  PROVE  Parse1(Read(a, <<>>, x), "=", last) = Read(a, x, <<>>)
BY DEF Parse1, Read

LEMMA ParseSemicolon ==
  ASSUME NEW a, NEW k, k # <<>>, NEW x, NEW last, ~last
  PROVE  Parse1(Read(a, k, x), ";", last) = Read(Append(a, <<k, x>>), <<>>, <<>>)
BY DEF Parse1, Read, BadSemicolon

(***************************************************************************)
(* parseClientParameters.                                                  *)
(***************************************************************************)

\* g is the function that ParseClientParameters(str) defines: g[i] is what has
\* been read after i characters.
Parses(str, g) ==
  g = [i \in 0 .. Len(str) |-> IF i = 0 THEN Read(<<>>, <<>>, <<>>)
                                ELSE Parse1(g[i - 1], str[i], i = Len(str))]

\* There is such a function ...
LEMMA ParsesExists ==
  ASSUME NEW C, NEW str \in Seq(C)
  PROVE  \E g : Parses(str, g)
<1> DEFINE n == Len(str)
           Step(p, i) == Parse1(p, str[i], i = n)
           UpTo(m, g) == g = [i \in 0 .. m |-> IF i = 0 THEN Read(<<>>, <<>>, <<>>) ELSE Step(g[i - 1], i)]
           T == {m \in 0 .. n : \E g : UpTo(m, g)}
<1>1. n \in Nat
  BY LenProperties
<1> HIDE DEF n, Step
<1>2. 0 \in T
  <2> DEFINE g == [i \in 0 .. 0 |-> Read(<<>>, <<>>, <<>>)]
  <2>1. UpTo(0, g)
    OBVIOUS
  <2> HIDE DEF g
  <2> QED
    BY <1>1, <2>1
<1>3. ASSUME NEW m \in 0 .. n - 1, m \in T
      PROVE  m + 1 \in T
  <2>1. PICK f : UpTo(m, f)
    BY <1>3
  <2> DEFINE g == [i \in 0 .. m + 1 |-> IF i <= m THEN f[i] ELSE Step(f[m], m + 1)]
  <2>2. ASSUME NEW i \in 0 .. m + 1
        PROVE  g[i] = IF i = 0 THEN Read(<<>>, <<>>, <<>>) ELSE Step(g[i - 1], i)
    <3>1. CASE i = 0
      <4>1. 0 \in 0 .. m /\ 0 <= m
        BY <1>1
      <4> QED
        BY <2>1, <3>1, <4>1
    <3>2. CASE i # 0 /\ i <= m
      <4>1. i \in 0 .. m /\ i - 1 \in 0 .. m + 1 /\ i - 1 <= m
        BY <1>1, <3>2
      <4>2. f[i] = Step(f[i - 1], i)
        BY <2>1, <3>2, <4>1
      <4> QED
        BY <3>2, <4>1, <4>2
    <3>3. CASE i # 0 /\ ~(i <= m)
      <4>1. i = m + 1 /\ i - 1 = m /\ m \in 0 .. m + 1 /\ m <= m
        BY <1>1, <3>3
      <4> QED
        BY <3>3, <4>1
    <3> QED
      BY <3>1, <3>2, <3>3
  <2>3. UpTo(m + 1, g)
    BY <2>2
  <2>4. m + 1 \in 0 .. n
    BY <1>1
  <2> HIDE DEF g
  <2> QED
    BY <2>3, <2>4
<1> HIDE DEF T
<1>4. n \in T
  <2>1. 0 .. n \subseteq T
    BY <1>1, <1>2, <1>3, ReachesFromZero
  <2> QED
    BY <1>1, <2>1
<1> QED
  BY <1>4 DEF T, Parses, n, Step

\* ... and its last value decides.
LEMMA ParseIs ==
  ASSUME NEW C, NEW str \in Seq(C)
  PROVE  \E g : /\ Parses(str, g)
                /\ str # <<>> => ParseClientParameters(str) =
                     IF g[Len(str)].err \/ g[Len(str)].esc \/ g[Len(str)].key = <<>> THEN NotArgs
                     ELSE Append(g[Len(str)].args, <<g[Len(str)].key, g[Len(str)].acc>>)
<1> DEFINE g == CHOOSE g : Parses(str, g)
<1>1. Parses(str, g)
  BY ParsesExists
<1>2. ASSUME str # <<>>
      PROVE  ParseClientParameters(str) =
               IF g[Len(str)].err \/ g[Len(str)].esc \/ g[Len(str)].key = <<>> THEN NotArgs
               ELSE Append(g[Len(str)].args, <<g[Len(str)].key, g[Len(str)].acc>>)
  BY <1>2 DEF ParseClientParameters, Parses, Read
<1> QED
  BY <1>1, <1>2

LEMMA ParseBegins ==
  ASSUME NEW C, NEW str \in Seq(C), NEW g, Parses(str, g)
  PROVE  g[0] = Read(<<>>, <<>>, <<>>)
<1>1. 0 \in 0 .. Len(str)
  BY LenProperties
<1> QED
  BY <1>1 DEF Parses

\* One character more.
LEMMA ParseStep ==
  ASSUME NEW C, NEW str \in Seq(C), NEW g, Parses(str, g), NEW m \in Nat, m < Len(str)
  PROVE  g[m + 1] = Parse1(g[m], str[m + 1], m + 1 = Len(str))
<1>1. m + 1 \in 0 .. Len(str) /\ m + 1 # 0 /\ (m + 1) - 1 = m
  BY LenProperties
<1> QED
  BY <1>1 DEF Parses

-----------------------------------------------------------------------------
\* A "\" in front of a character that needs none, and whatever follows an error.
Failed(p) == p.err = TRUE

LEMMA ParseStrayBackslash ==
  ASSUME NEW a, NEW k, NEW x, NEW c, c \notin Special, NEW last
  PROVE  Failed(Parse1(Escaping(a, k, x), c, last))
BY DEF Parse1, Escaping, Special, Failed

LEMMA ParseNoKey ==
  ASSUME NEW a, NEW last
  PROVE  Failed(Parse1(Read(a, <<>>, <<>>), "=", last))
BY DEF Parse1, Read, Failed

LEMMA ParseLastSemicolon ==
  ASSUME NEW a, NEW k, NEW x, NEW last, last
  PROVE  Failed(Parse1(Read(a, k, x), ";", last))
BY DEF Parse1, Read, BadSemicolon, Failed

LEMMA ParseStaysFailed ==
  ASSUME NEW p, Failed(p), NEW c, NEW last
  PROVE  Failed(Parse1(p, c, last))
BY DEF Parse1, Failed

LEMMA ParseA ==
  ASSUME NEW a, NEW k, NEW last
  PROVE  Parse1(Read(a, k, <<>>), "a", last) = Read(a, k, <<"a">>)
<1>1. "a" \notin Special
  BY DEF Special
<1>2. \A x : Parse1(Read(a, k, x), "a", last) = Read(a, k, Append(x, "a"))
  BY <1>1, ParsePlain
<1>3. Append(<<>>, "a") = <<"a">>
  OBVIOUS
<1> QED
  BY <1>2, <1>3

LEMMA TuplesAreSeqs ==
  ASSUME NEW C, NEW a \in C, NEW b \in C, NEW c \in C, NEW d \in C
  PROVE  /\ <<a>> \in Seq(C) /\ <<a, b>> \in Seq(C)
         /\ <<a, b, c>> \in Seq(C) /\ <<a, b, c, d>> \in Seq(C)
OBVIOUS

\* None of the malformed strings is read as arguments.
LEMMA MalformedIsRefused ==
  ASSUME NEW str \in Malformed
  PROVE  ParseClientParameters(str) = NotArgs
<1> DEFINE C == {"a"} \cup Special
<1>1. str \in Seq(C)
  <2>1. "a" \in C /\ "=" \in C /\ "\\" \in C /\ ";" \in C
    BY Zenon DEF Special
  <2> HIDE DEF C
  <2> QED
    BY <2>1, TuplesAreSeqs, Zenon DEF Malformed
<1> HIDE DEF C
<1>0. str # <<>>
  <2>1. \A a, b, c, d : <<a>> # <<>> /\ <<a, b>> # <<>> /\ <<a, b, c>> # <<>> /\ <<a, b, c, d>> # <<>>
    OBVIOUS
  <2> QED
    BY <2>1, Zenon DEF Malformed
<1>2. PICK g : /\ Parses(str, g)
               /\ ParseClientParameters(str) =
                    IF g[Len(str)].err \/ g[Len(str)].esc \/ g[Len(str)].key = <<>> THEN NotArgs
                    ELSE Append(g[Len(str)].args, <<g[Len(str)].key, g[Len(str)].acc>>)
  BY <1>0, <1>1, ParseIs
<1>3. g[0] = Read(<<>>, <<>>, <<>>)
  BY <1>1, <1>2, ParseBegins
<1> DEFINE last(m) == m = Len(str)
<1>4. \A m \in Nat : m < Len(str) => g[m + 1] = Parse1(g[m], str[m + 1], last(m + 1))
  BY <1>1, <1>2, ParseStep
<1>5. "a" \notin Special
  BY DEF Special
<1>6. Append(<<>>, "a") = <<"a">> /\ <<"a">> # <<>>
  OBVIOUS
<1>last. ASSUME NEW m, m = Len(str) PROVE last(m)
  BY <1>last
<1> HIDE DEF Read, Escaping, last
<1>7. ASSUME Len(str) > 1, str[1] = "a", str[2] = "="
      PROVE  g[2] = Read(<<>>, <<"a">>, <<>>)
  <2>1. g[1] = Parse1(g[0], "a", last(1)) /\ g[2] = Parse1(g[1], "=", last(2))
    <3>1. 0 < Len(str) /\ 1 < Len(str) /\ 0 \in Nat /\ 1 \in Nat /\ 0 + 1 = 1 /\ 1 + 1 = 2
      BY <1>7
    <3> QED
      BY <1>4, <1>7, <3>1
  <2>2. g[1] = Read(<<>>, <<>>, <<"a">>)
    <3>1. Parse1(Read(<<>>, <<>>, <<>>), "a", last(1)) = Read(<<>>, <<>>, <<"a">>)
      BY ParseA, Zenon
    <3> QED
      BY <1>3, <2>1, <3>1
  <2> QED
    BY <1>6, <2>1, <2>2, ParseEquals, Zenon
<1>8. CASE str = <<"a">>
  <2>1. Len(str) = 1 /\ str[1] = "a"
    BY <1>8
  <2>2. g[1] = Parse1(g[0], "a", last(1))
    BY <1>4, <2>1
  <2>3. g[1] = Read(<<>>, <<>>, <<"a">>)
    <3>1. Parse1(Read(<<>>, <<>>, <<>>), "a", last(1)) = Read(<<>>, <<>>, <<"a">>)
      BY ParseA, Zenon
    <3> QED
      BY <1>3, <2>2, <3>1
  <2>4. g[Len(str)].key = <<>>
    BY <2>1, <2>3 DEF Read
  <2> QED
    BY <1>2, <2>4
<1>9. CASE str = <<"=", "a">>
  <2>1. Len(str) = 2 /\ str[1] = "=" /\ str[2] = "a"
    BY <1>9
  <2>2. g[1] = Parse1(g[0], "=", last(1)) /\ g[2] = Parse1(g[1], "a", last(2))
    <3>1. 0 < Len(str) /\ 1 < Len(str) /\ 0 \in Nat /\ 1 \in Nat /\ 0 + 1 = 1 /\ 1 + 1 = 2
      BY <2>1
    <3> QED
      BY <1>4, <2>1, <3>1
  <2>3. Failed(g[1])
    BY <1>3, <2>2, ParseNoKey
  <2>4. Failed(g[2])
    BY <2>2, <2>3, ParseStaysFailed
  <2>5. g[Len(str)].err
    BY <2>1, <2>4 DEF Failed
  <2> QED
    BY <1>2, <2>5
<1>10. CASE str = <<"a", "=", "\\">>
  <2>1. Len(str) = 3 /\ str[1] = "a" /\ str[2] = "=" /\ str[3] = "\\"
    BY <1>10
  <2>2. g[3] = Parse1(g[2], "\\", last(3))
    <3>1. 2 < Len(str) /\ 2 \in Nat /\ 2 + 1 = 3
      BY <2>1
    <3> QED
      BY <1>4, <2>1, <3>1
  <2>3. g[3] = Escaping(<<>>, <<"a">>, <<>>)
    BY <1>7, <2>1, <2>2, ParseBackslash
  <2>4. g[Len(str)].esc
    BY <2>1, <2>3 DEF Escaping
  <2> QED
    BY <1>2, <2>4
<1>11. CASE str = <<"a", "=", "\\", "a">>
  <2>1. Len(str) = 4 /\ str[1] = "a" /\ str[2] = "=" /\ str[3] = "\\" /\ str[4] = "a"
    BY <1>11
  <2>2. g[3] = Parse1(g[2], "\\", last(3)) /\ g[4] = Parse1(g[3], "a", last(4))
    <3>1. 2 < Len(str) /\ 3 < Len(str) /\ 2 \in Nat /\ 3 \in Nat /\ 2 + 1 = 3 /\ 3 + 1 = 4
      BY <2>1
    <3> QED
      BY <1>4, <2>1, <3>1
  <2>3. g[3] = Escaping(<<>>, <<"a">>, <<>>)
    BY <1>7, <2>1, <2>2, ParseBackslash
  <2>4. Failed(g[4])
    BY <1>5, <2>2, <2>3, ParseStrayBackslash
  <2>5. g[Len(str)].err
    BY <2>1, <2>4 DEF Failed
  <2> QED
    BY <1>2, <2>5
<1>12. CASE str = <<"a", "=", "a", ";">>
  <2>0. Len(str) = 4 /\ 1 < Len(str)
    <3>1. \A c : Len(<<"a", "=", "a", c>>) = 4 /\ 1 < 4
      OBVIOUS
    <3> QED
      BY <1>12, <3>1, Zenon
  <2>1. str[1] = "a" /\ str[2] = "=" /\ str[3] = "a" /\ str[4] = ";"
    BY <1>12
  <2>2. g[3] = Parse1(g[2], "a", last(3)) /\ g[4] = Parse1(g[3], ";", last(4))
    <3>1. 2 < Len(str) /\ 3 < Len(str) /\ 2 \in Nat /\ 3 \in Nat /\ 2 + 1 = 3 /\ 3 + 1 = 4
      BY <2>0
    <3> QED
      BY <1>4, <2>1, <3>1
  <2>3. g[3] = Read(<<>>, <<"a">>, <<"a">>)
    <3>1. g[2] = Read(<<>>, <<"a">>, <<>>)
      BY <1>7, <2>0, <2>1
    <3>2. Parse1(Read(<<>>, <<"a">>, <<>>), "a", last(3)) = Read(<<>>, <<"a">>, <<"a">>)
      BY ParseA, Zenon
    <3>3. g[3] = Parse1(g[2], "a", last(3))
      BY <2>2, Zenon
    <3> QED
      BY <3>1, <3>2, <3>3
  <2>4. Failed(g[4])
    <3>1. last(4)
      BY <2>0, <1>last
    <3> QED
      BY <2>2, <2>3, <3>1, ParseLastSemicolon
  <2>5. g[Len(str)].err
    BY <2>0, <2>4 DEF Failed
  <2> QED
    BY <1>2, <2>5
<1> QED
  BY <1>8, <1>9, <1>10, <1>11, <1>12 DEF Malformed

(***************************************************************************)
(* What tor writes is read as what it stands for.                          *)
(***************************************************************************)

EscParts(s) == [i \in 1 .. Len(s) |-> IF s[i] \in Special THEN <<"\\", s[i]>> ELSE <<s[i]>>]

LEMMA EscapeIs ==
  ASSUME NEW C, "\\" \in C, NEW s \in Seq(C)
  PROVE  Escape(s) \in Seq(C) /\ \E at : PlacedAt(EscParts(s), Escape(s), at)
<1>1. EscParts(s) \in Seq(Seq(C))
  <2>1. ASSUME NEW i \in 1 .. Len(s)
        PROVE  (IF s[i] \in Special THEN <<"\\", s[i]>> ELSE <<s[i]>>) \in Seq(C)
    <3>1. s[i] \in C
      BY ElementOfSeq
    <3>2. <<"\\", s[i]>> \in Seq(C) /\ <<s[i]>> \in Seq(C)
      BY <3>1, TuplesAreSeqs, Zenon
    <3> QED
      BY <3>2, Zenon
  <2>2. Len(s) \in Nat
    BY LenProperties
  <2> QED
    BY <2>1, <2>2 DEF EscParts
<1>2. Escape(s) = FlattenSeq(EscParts(s))
  BY DEF Escape, EscParts
<1>3. /\ FlattenSeq(EscParts(s)) \in Seq(C)
      /\ \E at : PlacedAt(EscParts(s), FlattenSeq(EscParts(s)), at)
  BY <1>1, FlattenPlaces
<1> QED
  BY <1>2, <1>3, Zenon

\* What has been read grows by a character.
LEMMA TextGrows ==
  ASSUME NEW C, NEW s \in Seq(C), NEW i \in 0 .. Len(s) - 1
  PROVE  Append(SubSeq(s, 1, i), s[i + 1]) = SubSeq(s, 1, i + 1)
<1>1. Len(s) \in Nat /\ i \in Nat /\ i + 1 <= Len(s)
  BY LenProperties
<1> DEFINE u == SubSeq(s, 1, i)
           v == SubSeq(s, 1, i + 1)
<1>2. /\ u \in Seq(C) /\ Len(u) = i /\ \A j \in 1 .. i : u[j] = s[j]
      /\ v \in Seq(C) /\ Len(v) = i + 1 /\ \A j \in 1 .. i + 1 : v[j] = s[j]
  BY <1>1
<1> HIDE DEF u, v
<1>3. s[i + 1] \in C
  BY <1>1
<1>4. Append(u, s[i + 1]) = v
  BY <1>1, <1>2, <1>3
<1> QED
  BY <1>4 DEF u, v

\* The text t is in str behind the first m characters.
Shows(str, m, t) == m + Len(t) <= Len(str) /\ \A j \in 1 .. Len(t) : str[m + j] = t[j]

\* An escaped text is read as the text.
LEMMA ReadsText ==
  ASSUME NEW C, "\\" \in C, NEW str \in Seq(C), NEW g, Parses(str, g),
         NEW m \in Nat, NEW s \in Seq(C), Shows(str, m, Escape(s)),
         NEW a, NEW k, g[m] = Read(a, k, <<>>)
  PROVE  g[m + Len(Escape(s))] = Read(a, k, s)
<1> DEFINE n == Len(s)
           ps == EscParts(s)
           e == Escape(s)
           T == {i \in 0 .. n : \A at : PlacedAt(ps, e, at) => g[m + at[i]] = Read(a, k, SubSeq(s, 1, i))}
<1>1. n \in Nat /\ Len(str) \in Nat /\ e \in Seq(C) /\ Len(e) \in Nat /\ \A i \in 1 .. n : s[i] \in C
  BY LenProperties, EscapeIs, ElementOfSeq
<1>2. PICK at : PlacedAt(ps, e, at)
  BY EscapeIs
<1>3. Len(ps) = n /\ \A i \in 1 .. n : ps[i] = IF s[i] \in Special THEN <<"\\", s[i]>> ELSE <<s[i]>>
  BY <1>1 DEF EscParts
<1> DEFINE Done(i) == g[m + at[i]] = Read(a, k, SubSeq(s, 1, i))
<1> HIDE DEF ps, e, n
<1>4. at \in [0 .. n -> Nat] /\ at[0] = 0 /\ at[n] = Len(e)
  BY <1>2, <1>3 DEF PlacedAt
<1>5. ASSUME NEW i \in 0 .. n - 1
      PROVE  /\ at[i + 1] = at[i] + Len(ps[i + 1]) /\ at[i + 1] <= Len(e)
             /\ \A j \in 1 .. Len(ps[i + 1]) : e[at[i] + j] = ps[i + 1][j]
  BY <1>2, <1>3 DEF PlacedAt
<1>6. Done(0)
  <2>1. SubSeq(s, 1, 0) = <<>>
    BY SubSeqEmpty
  <2>2. m + at[0] = m
    BY <1>4
  <2> QED
    BY <2>1, <2>2, Zenon
<1>7. ASSUME NEW i \in 0 .. n - 1, Done(i)
      PROVE  Done(i + 1)
  <2> DEFINE c == s[i + 1]
             A == at[i]
             B == at[i + 1]
             p == m + A
             y == SubSeq(s, 1, i)
             part == ps[i + 1]
             last(q) == q = Len(str)
  <2>1. i \in 0 .. n /\ i + 1 \in 1 .. n /\ i + 1 \in 0 .. n
    BY <1>1
  <2>2. A \in Nat /\ B \in Nat
    BY <1>4, <2>1
  <2>3. Append(y, c) = SubSeq(s, 1, i + 1)
    BY TextGrows, Zenon DEF n
  <2>4. g[p] = Read(a, k, y)
    BY <1>7
  <2>5. B = A + Len(part) /\ B <= Len(e) /\ \A j \in 1 .. Len(part) : e[A + j] = part[j]
    BY <1>5
  <2>6. \A q \in Nat : q < Len(str) => g[q + 1] = Parse1(g[q], str[q + 1], last(q + 1))
    BY ParseStep
  <2>7. \A j \in 1 .. Len(e) : str[m + j] = e[j]
    BY DEF e, Shows
  <2>8. m + Len(e) <= Len(str)
    BY DEF e, Shows
  <2>9. part = IF c \in Special THEN <<"\\", c>> ELSE <<c>>
    BY <1>3, <2>1
  <2>10. Done(i + 1) <=> g[m + B] = Read(a, k, SubSeq(s, 1, i + 1))
    OBVIOUS
  <2> HIDE DEF c, A, B, y, last, part, Done
  <2>11. p \in Nat
    BY <2>2
  <2>12. CASE c \in Special
    <3>1. Len(part) = 2 /\ part[1] = "\\" /\ part[2] = c
      BY <2>9, <2>12
    <3>2. B = A + 2 /\ A + 1 \in 1 .. Len(e) /\ A + 2 \in 1 .. Len(e)
      BY <1>1, <2>2, <2>5, <3>1
    <3>3. e[A + 1] = "\\" /\ e[A + 2] = c
      <4>1. 1 \in 1 .. 2 /\ 2 \in 1 .. 2
        OBVIOUS
      <4> QED
        BY <2>5, <3>1, <4>1, Zenon
    <3>4. /\ p + 1 = m + (A + 1) /\ p + 2 = m + (A + 2) /\ p + 2 = m + B
          /\ p < Len(str) /\ p + 1 < Len(str) /\ p + 1 \in Nat /\ (p + 1) + 1 = p + 2
      BY <1>1, <2>2, <2>8, <3>2
    <3>5. str[p + 1] = "\\" /\ str[p + 2] = c
      <4>1. str[m + (A + 1)] = e[A + 1] /\ str[m + (A + 2)] = e[A + 2]
        BY <2>7, <3>2, Zenon
      <4> QED
        BY <3>3, <3>4, <4>1
    <3> HIDE DEF p
    <3>6. g[p + 1] = Parse1(g[p], "\\", last(p + 1)) /\ g[p + 2] = Parse1(g[p + 1], c, last(p + 2))
      BY <2>6, <2>11, <3>4, <3>5
    <3>7. g[p + 1] = Escaping(a, k, y)
      BY <2>4, <3>6, ParseBackslash
    <3>8. Parse1(Escaping(a, k, y), c, last(p + 2)) = Read(a, k, Append(y, c))
      BY <2>12, ParseEscaped, Zenon
    <3>9. g[p + 2] = Read(a, k, Append(y, c))
      BY <3>6, <3>7, <3>8, Zenon
    <3> QED
      BY <2>3, <2>10, <3>4, <3>9, Zenon
  <2>13. CASE c \notin Special
    <3>1. Len(part) = 1 /\ part[1] = c
      BY <2>9, <2>13
    <3>2. B = A + 1 /\ A + 1 \in 1 .. Len(e)
      BY <1>1, <2>2, <2>5, <3>1
    <3>3. e[A + 1] = c
      <4>1. 1 \in 1 .. 1
        OBVIOUS
      <4> QED
        BY <2>5, <3>1, <4>1, Zenon
    <3>4. p + 1 = m + (A + 1) /\ p + 1 = m + B /\ p < Len(str)
      BY <1>1, <2>2, <2>8, <3>2
    <3>5. str[p + 1] = c
      <4>1. str[m + (A + 1)] = e[A + 1]
        BY <2>7, <3>2, Zenon
      <4> QED
        BY <3>3, <3>4, <4>1
    <3> HIDE DEF p
    <3>6. g[p + 1] = Parse1(g[p], c, last(p + 1))
      <4>1. g[p + 1] = Parse1(g[p], str[p + 1], last(p + 1))
        BY <2>6, <2>11, <3>4, Zenon
      <4> QED
        BY <3>5, <4>1, Zenon
    <3>7. Parse1(Read(a, k, y), c, last(p + 1)) = Read(a, k, Append(y, c))
      <4>1. \A w : Parse1(Read(a, k, w), c, last(p + 1)) = Read(a, k, Append(w, c))
        BY <2>13, ParsePlain
      <4> QED
        BY <4>1, Zenon
    <3>8. g[p + 1] = Read(a, k, Append(y, c))
      BY <2>4, <3>6, <3>7, Zenon
    <3> QED
      BY <2>3, <2>10, <3>4, <3>8, Zenon
  <2> QED
    BY <2>12, <2>13
<1>8. Done(n)
  <2> DEFINE U == {i \in 0 .. n : Done(i)}
  <2> HIDE DEF Done
  <2>1. 0 \in U /\ \A i \in 0 .. n - 1 : i \in U => i + 1 \in U
    <3>1. 0 \in 0 .. n /\ \A i \in 0 .. n - 1 : i + 1 \in 0 .. n
      BY <1>1
    <3> QED
      BY <1>6, <1>7, <3>1
  <2> HIDE DEF U
  <2>2. n \in U
    <3>1. 0 .. n \subseteq U
      BY <1>1, <2>1, ReachesFromZero
    <3> QED
      BY <1>1, <3>1
  <2> QED
    BY <2>2 DEF U
<1>9. SubSeq(s, 1, n) = s
  BY DEF n
<1> QED
  BY <1>4, <1>8, <1>9, Zenon DEF e

\* The places of four sequences that are joined.
LEMMA FourJoined ==
  ASSUME NEW C, NEW p \in Seq(C), NEW q \in Seq(C), NEW r \in Seq(C), NEW s \in Seq(C)
  PROVE  /\ p \o q \o r \o s \in Seq(C)
         /\ Len(p \o q \o r \o s) = Len(p) + Len(q) + Len(r) + Len(s)
         /\ \A j \in 1 .. Len(p) : (p \o q \o r \o s)[j] = p[j]
         /\ \A j \in 1 .. Len(q) : (p \o q \o r \o s)[Len(p) + j] = q[j]
         /\ \A j \in 1 .. Len(r) : (p \o q \o r \o s)[Len(p) + Len(q) + j] = r[j]
         /\ \A j \in 1 .. Len(s) : (p \o q \o r \o s)[Len(p) + Len(q) + Len(r) + j] = s[j]
<1>1. Len(p) \in Nat /\ Len(q) \in Nat /\ Len(r) \in Nat /\ Len(s) \in Nat
  BY LenProperties
<1> QED
  BY <1>1

\* Any escaped text in str is read as the text.
TextsRead(C, str, g) ==
  \A m \in Nat, s \in Seq(C) : \A a, k :
    Shows(str, m, Escape(s)) /\ g[m] = Read(a, k, <<>>) => g[m + Len(Escape(s))] = Read(a, k, s)

LEMMA ReadsTexts ==
  ASSUME NEW C, "\\" \in C, NEW str \in Seq(C), NEW g, Parses(str, g)
  PROVE  TextsRead(C, str, g)
<1>1. ASSUME NEW m \in Nat, NEW s \in Seq(C), NEW a, NEW k, Shows(str, m, Escape(s)), g[m] = Read(a, k, <<>>)
      PROVE  g[m + Len(Escape(s))] = Read(a, k, s)
  <2> HIDE DEF Shows, Escape, Read
  <2> QED
    BY <1>1, ReadsText
<1> QED
  BY <1>1, Zenon DEF TextsRead

\* A key and its value, escaped, with "=" between them, are read as a key and its value.
LEMMA ReadsArgument ==
  ASSUME NEW C, "\\" \in C, NEW str \in Seq(C), NEW g, Parses(str, g),
         NEW k \in Seq(C), k # <<>>, NEW v \in Seq(C),
         NEW m \in Nat, Shows(str, m, Escape(k)), str[m + Len(Escape(k)) + 1] = "=",
         Shows(str, m + Len(Escape(k)) + 1, Escape(v)),
         NEW a, g[m] = Read(a, <<>>, <<>>)
  PROVE  g[m + Len(Escape(k)) + 1 + Len(Escape(v))] = Read(a, k, v)
<1> DEFINE A == Len(Escape(k))
           B == Len(Escape(v))
           l == m + A
           o == l + 1
           last(q) == q = Len(str)
<1>1. A \in Nat /\ B \in Nat /\ Len(str) \in Nat
  BY EscapeIs, LenProperties
<1>2. <<>> \in Seq(C)
  BY EmptySeq
<1>3. l \in Nat /\ o \in Nat /\ m + A <= Len(str) /\ l < Len(str) /\ o + B <= Len(str)
  BY <1>1 DEF Shows
<1>10. TextsRead(C, str, g)
  BY ReadsTexts, Zenon
<1>4. g[l] = Read(a, <<>>, k)
  <2>1. Shows(str, m, Escape(k))
    BY <1>3 DEF Shows
  <2> HIDE DEF A, B, l, o, Escape, Read
  <2>2. g[m + Len(Escape(k))] = Read(a, <<>>, k)
    BY <1>2, <1>10, <2>1, Zenon DEF TextsRead
  <2> QED
    BY <2>2, Zenon DEF l, A
<1>5. g[o] = Read(a, k, <<>>)
  <2>1. g[l + 1] = Parse1(g[l], str[l + 1], last(l + 1))
    BY <1>3, ParseStep
  <2>2. str[l + 1] = "="
    OBVIOUS
  <2> HIDE DEF last, l, A
  <2>3. g[l + 1] = Parse1(Read(a, <<>>, k), "=", last(l + 1))
    BY <1>2, <1>4, <2>1, <2>2, Zenon
  <2> QED
    BY <2>3, ParseEquals
<1>6. g[o + B] = Read(a, k, v)
  <2>1. Shows(str, o, Escape(v))
    BY <1>3 DEF Shows
  <2> HIDE DEF A, B, l, o, Escape, Read
  <2>2. g[o + Len(Escape(v))] = Read(a, k, v)
    <3>1. o \in Nat
      BY <1>3
    <3>2. \A b, c : Shows(str, o, Escape(v)) /\ g[o] = Read(b, c, <<>>) => g[o + Len(Escape(v))] = Read(b, c, v)
      BY <1>10, <3>1, Zenon DEF TextsRead
    <3> QED
      BY <1>5, <2>1, <3>2, Zenon
  <2> QED
    BY <2>2, Zenon DEF B
<1> QED
  BY <1>2, <1>6, Zenon

Semicolon == ";"
ArgParts(args) ==
  [i \in 1 .. Len(args) |->
    (IF i = 1 THEN <<>> ELSE <<Semicolon>>) \o Escape(args[i][1]) \o <<"=">> \o Escape(args[i][2])]

LEMMA EncodeIs ==
  ASSUME NEW args
  PROVE  Encode(args) = FlattenSeq(ArgParts(args))
BY Zenon DEF Encode, ArgParts, Semicolon

\* What a list of arguments is made of.
ArgsOf(C) == {args \in Seq(Seq(C) \X Seq(C)) : args # <<>> /\ \A i \in 1 .. Len(args) : args[i][1] # <<>>}

LEMMA EncodePlaces ==
  ASSUME NEW C, "\\" \in C, "=" \in C, Semicolon \in C, NEW args \in ArgsOf(C)
  PROVE  Encode(args) \in Seq(C) /\ \E at : PlacedAt(ArgParts(args), Encode(args), at)
<1>1. Len(args) \in Nat /\ \A i \in 1 .. Len(args) : args[i] \in Seq(C) \X Seq(C)
  BY LenProperties, ElementOfSeq DEF ArgsOf
<1>2. ASSUME NEW i \in 1 .. Len(args)
      PROVE  ((IF i = 1 THEN <<>> ELSE <<Semicolon>>) \o Escape(args[i][1]) \o <<"=">> \o Escape(args[i][2])) \in Seq(C)
  <2> DEFINE p == IF i = 1 THEN <<>> ELSE <<Semicolon>>
  <2>1. p \in Seq(C) /\ <<"=">> \in Seq(C)
    OBVIOUS
  <2>2. args[i][1] \in Seq(C) /\ args[i][2] \in Seq(C)
    BY <1>1
  <2>3. Escape(args[i][1]) \in Seq(C) /\ Escape(args[i][2]) \in Seq(C)
    BY <2>2, EscapeIs
  <2> HIDE DEF p
  <2>4. p \o Escape(args[i][1]) \o <<"=">> \o Escape(args[i][2]) \in Seq(C)
    BY <2>1, <2>3, FourJoined, Zenon
  <2> QED
    BY <2>4 DEF p
<1>3. ArgParts(args) \in Seq(Seq(C))
  BY <1>1, <1>2 DEF ArgParts
<1>4. FlattenSeq(ArgParts(args)) \in Seq(C) /\ \E at : PlacedAt(ArgParts(args), FlattenSeq(ArgParts(args)), at)
  BY <1>3, FlattenPlaces
<1> QED
  BY <1>4, EncodeIs, Zenon

\* The places of four sequences that are joined, for all of them.
FourPlaced(p, q, r, s, t) ==
  /\ Len(t) = Len(p) + Len(q) + Len(r) + Len(s)
  /\ \A j \in 1 .. Len(q) : t[Len(p) + j] = q[j]
  /\ \A j \in 1 .. Len(r) : t[Len(p) + Len(q) + j] = r[j]
  /\ \A j \in 1 .. Len(s) : t[Len(p) + Len(q) + Len(r) + j] = s[j]
FoursPlaced(C) == \A p, q, r, s \in Seq(C) : FourPlaced(p, q, r, s, p \o q \o r \o s)

LEMMA FourPlaces ==
  ASSUME NEW C
  PROVE  FoursPlaced(C)
<1>1. ASSUME NEW p \in Seq(C), NEW q \in Seq(C), NEW r \in Seq(C), NEW s \in Seq(C)
      PROVE  FourPlaced(p, q, r, s, p \o q \o r \o s)
  <2>1. Len(p) \in Nat /\ Len(q) \in Nat /\ Len(r) \in Nat /\ Len(s) \in Nat
    BY LenProperties
  <2> QED
    BY <2>1 DEF FourPlaced
<1> QED
  BY <1>1, Zenon DEF FoursPlaced

\* Any argument in str is read as what it stands for.
ArgumentsRead(C, str, g) ==
  \A k, v \in Seq(C) : \A m \in Nat : \A a :
    /\ k # <<>> /\ Shows(str, m, Escape(k)) /\ str[m + Len(Escape(k)) + 1] = "="
    /\ Shows(str, m + Len(Escape(k)) + 1, Escape(v)) /\ g[m] = Read(a, <<>>, <<>>)
    => g[m + Len(Escape(k)) + 1 + Len(Escape(v))] = Read(a, k, v)

LEMMA ReadsArguments ==
  ASSUME NEW C, "\\" \in C, NEW str \in Seq(C), NEW g, Parses(str, g)
  PROVE  ArgumentsRead(C, str, g)
<1>1. ASSUME NEW k \in Seq(C), NEW v \in Seq(C), NEW m \in Nat, NEW a, k # <<>>,
             Shows(str, m, Escape(k)), str[m + Len(Escape(k)) + 1] = "=",
             Shows(str, m + Len(Escape(k)) + 1, Escape(v)), g[m] = Read(a, <<>>, <<>>)
      PROVE  g[m + Len(Escape(k)) + 1 + Len(Escape(v))] = Read(a, k, v)
  <2> HIDE DEF Escape, Read, Shows
  <2> QED
    BY <1>1, ReadsArgument
<1> QED
  BY <1>1, Zenon DEF ArgumentsRead

\* Where the pieces of a part are.
Pieces(p, q, x, y, m, len, r) ==
  /\ r = m + x + 1 + y
  /\ \A j \in 1 .. x : q + j \in 1 .. len /\ m + j = p + (q + j)
  /\ q + x + 1 \in 1 .. len /\ m + x + 1 = p + (q + x + 1)
  /\ \A j \in 1 .. y : q + x + 1 + j \in 1 .. len /\ m + x + 1 + j = p + (q + x + 1 + j)

LEMMA PiecesOfPart ==
  ASSUME NEW p \in Nat, NEW q \in Nat, NEW x \in Nat, NEW y \in Nat,
         NEW m, m = p + q, NEW len, len = q + x + 1 + y, NEW r, r = p + len
  PROVE  Pieces(p, q, x, y, m, len, r)
BY DEF Pieces

\* One argument, behind the ";" that follows the one before.
LEMMA ReadsPart ==
  ASSUME NEW C, "\\" \in C, "=" \in C, Semicolon \in C, NEW args \in ArgsOf(C),
         NEW str \in Seq(C), NEW g, Parses(str, g), NEW at, PlacedAt(ArgParts(args), str, at),
         NEW i \in 0 .. Len(args) - 1, NEW m \in Nat, m = at[i] + (IF i = 0 THEN 0 ELSE 1),
         NEW a, g[m] = Read(a, <<>>, <<>>)
  PROVE  g[at[i + 1]] = Read(a, args[i + 1][1], args[i + 1][2])
<1> DEFINE k == args[i + 1][1]
           v == args[i + 1][2]
           pre == IF i + 1 = 1 THEN <<>> ELSE <<Semicolon>>
           part == pre \o Escape(k) \o <<"=">> \o Escape(v)
           A == Len(Escape(k))
           B == Len(Escape(v))
           P == at[i]
           Q == at[i + 1]
<1>1. Len(args) \in Nat /\ i + 1 \in 1 .. Len(args) /\ i \in 0 .. Len(args) /\ i + 1 \in 0 .. Len(args)
  BY LenProperties DEF ArgsOf
<1>2. k \in Seq(C) /\ v \in Seq(C) /\ k # <<>>
  <2>1. args[i + 1] \in Seq(C) \X Seq(C)
    BY <1>1, ElementOfSeq DEF ArgsOf
  <2> QED
    BY <1>1, <2>1 DEF ArgsOf
<1>3. Len(ArgParts(args)) = Len(args) /\ ArgParts(args)[i + 1] = part
  BY <1>1 DEF ArgParts
<1>4. pre \in Seq(C) /\ Len(pre) = IF i = 0 THEN 0 ELSE 1
  OBVIOUS
<1>5. Escape(k) \in Seq(C) /\ Escape(v) \in Seq(C) /\ <<"=">> \in Seq(C) /\ Len(<<"=">>) = 1
  BY <1>2, EscapeIs
<1>6. A \in Nat /\ B \in Nat /\ Len(pre) \in Nat
  BY <1>4, <1>5, LenProperties
<1>7. /\ P \in Nat /\ Q = P + Len(part) /\ Q <= Len(str)
      /\ \A j \in 1 .. Len(part) : str[P + j] = part[j]
  <2> HIDE DEF part
  <2> QED
    BY <1>1, <1>3 DEF PlacedAt
<1> HIDE DEF pre, k, v, Read, Escape
<1>8. /\ Len(part) = Len(pre) + A + 1 + B
      /\ \A j \in 1 .. A : part[Len(pre) + j] = Escape(k)[j]
      /\ part[Len(pre) + A + 1] = "="
      /\ \A j \in 1 .. B : part[Len(pre) + A + 1 + j] = Escape(v)[j]
  <2> DEFINE eq == <<"=">>
  <2>1. eq[1] = "=" /\ 1 \in 1 .. 1 /\ Len(eq) = 1 /\ eq \in Seq(C)
    BY <1>5
  <2>3. part = pre \o Escape(k) \o eq \o Escape(v)
    BY Zenon
  <2> HIDE DEF part, eq
  <2>4. FoursPlaced(C)
    BY FourPlaces, Zenon
  <2>5. FourPlaced(pre, Escape(k), eq, Escape(v), part)
    BY <1>4, <1>5, <2>1, <2>3, <2>4, Zenon DEF FoursPlaced
  <2> QED
    BY <2>1, <2>5, Zenon DEF FourPlaced
<1> HIDE DEF part, A, B, P, Q
<1>9. m = P + Len(pre)
  BY <1>4 DEF P
<1>10. /\ Q = m + A + 1 + B
       /\ \A j \in 1 .. A : Len(pre) + j \in 1 .. Len(part) /\ m + j = P + (Len(pre) + j)
       /\ Len(pre) + A + 1 \in 1 .. Len(part) /\ m + A + 1 = P + (Len(pre) + A + 1)
       /\ \A j \in 1 .. B : /\ Len(pre) + A + 1 + j \in 1 .. Len(part)
                            /\ m + A + 1 + j = P + (Len(pre) + A + 1 + j)
  <2>1. P \in Nat /\ Q = P + Len(part) /\ Len(part) = Len(pre) + A + 1 + B
    BY <1>7, <1>8
  <2>2. Pieces(P, Len(pre), A, B, m, Len(part), Q)
    BY <1>6, <1>9, <2>1, PiecesOfPart
  <2> QED
    BY <2>2, Zenon DEF Pieces
<1>11. /\ \A j \in 1 .. A : str[m + j] = Escape(k)[j]
       /\ str[m + A + 1] = "="
       /\ \A j \in 1 .. B : str[m + A + 1 + j] = Escape(v)[j]
  BY <1>7, <1>8, <1>10, ZenonT(60)
<1>12. m + A + 1 + B <= Len(str) /\ m + A <= Len(str)
  <2>1. m + A + 1 + B <= Len(str)
    BY <1>7, <1>10, Zenon
  <2> HIDE <1>7
  <2> QED
    BY <1>6, <2>1, str \in Seq(C), LenProperties
<1>13. g[m + A + 1 + B] = Read(a, k, v)
  <2>1. Shows(str, m, Escape(k)) /\ Shows(str, m + A + 1, Escape(v))
    BY <1>11, <1>12, Zenon DEF Shows, A, B
  <2>2. ArgumentsRead(C, str, g)
    BY ReadsArguments, Zenon
  <2>3. \A b : k # <<>> /\ Shows(str, m, Escape(k)) /\ str[m + Len(Escape(k)) + 1] = "="
               /\ Shows(str, m + Len(Escape(k)) + 1, Escape(v)) /\ g[m] = Read(b, <<>>, <<>>)
               => g[m + Len(Escape(k)) + 1 + Len(Escape(v))] = Read(b, k, v)
    <3> HIDE DEF Shows
    <3> QED
      BY <1>2, <2>2 DEF ArgumentsRead
  <2> QED
    BY <1>2, <1>11, <2>1, <2>3, Zenon DEF A, B
<1>14. g[Q] = Read(a, k, v)
  BY <1>10, <1>13, Zenon
<1> QED
  BY <1>14 DEF Q, k, v

\* All the arguments in str, one after the other.
PartsRead(args, str, g, at) ==
  \A i \in 0 .. Len(args) - 1 : \A a :
    g[at[i] + (IF i = 0 THEN 0 ELSE 1)] = Read(a, <<>>, <<>>)
    => g[at[i + 1]] = Read(a, args[i + 1][1], args[i + 1][2])

LEMMA ReadsParts ==
  ASSUME NEW C, "\\" \in C, "=" \in C, Semicolon \in C, NEW args \in ArgsOf(C),
         NEW str \in Seq(C), NEW g, Parses(str, g), NEW at, PlacedAt(ArgParts(args), str, at)
  PROVE  PartsRead(args, str, g, at)
<1>1. ASSUME NEW i \in 0 .. Len(args) - 1, NEW a,
             g[at[i] + (IF i = 0 THEN 0 ELSE 1)] = Read(a, <<>>, <<>>)
      PROVE  g[at[i + 1]] = Read(a, args[i + 1][1], args[i + 1][2])
  <2> DEFINE m == at[i] + (IF i = 0 THEN 0 ELSE 1)
  <2>1. m \in Nat
    <3>1. Len(args) \in Nat /\ Len(ArgParts(args)) = Len(args)
      BY LenProperties DEF ArgsOf, ArgParts
    <3>2. at[i] \in Nat
      BY <3>1 DEF PlacedAt
    <3> QED
      BY <3>2
  <2>2. g[m] = Read(a, <<>>, <<>>) /\ m = at[i] + (IF i = 0 THEN 0 ELSE 1)
    BY <1>1
  <2> HIDE DEF m, Read
  <2> QED
    BY <2>1, <2>2, ReadsPart
<1> QED
  BY <1>1, Zenon DEF PartsRead

\* Every argument but the first has a ";" in front, which is not the last character.
Separated(args, str, at) ==
  \A i \in 1 .. Len(args) - 1 : str[at[i] + 1] = Semicolon /\ at[i] + 1 < Len(str)

LEMMA SeparatorsThere ==
  ASSUME NEW C, "\\" \in C, "=" \in C, Semicolon \in C, NEW args \in ArgsOf(C),
         NEW str, NEW at, PlacedAt(ArgParts(args), str, at)
  PROVE  Separated(args, str, at)
<1>1. ASSUME NEW i \in 1 .. Len(args) - 1
      PROVE  str[at[i] + 1] = Semicolon /\ at[i] + 1 < Len(str)
  <2> DEFINE e == Escape(args[i + 1][1])
             f == Escape(args[i + 1][2])
             part == <<Semicolon>> \o e \o <<"=">> \o f
             P == at[i]
  <2>1. Len(args) \in Nat /\ i + 1 \in 1 .. Len(args) /\ i \in 0 .. Len(args) /\ i + 1 # 1 /\ i \in 0 .. Len(args) - 1
    BY LenProperties DEF ArgsOf
  <2>2. e \in Seq(C) /\ f \in Seq(C)
    <3>1. args[i + 1] \in Seq(C) \X Seq(C)
      BY <2>1, ElementOfSeq DEF ArgsOf
    <3> QED
      BY <3>1, EscapeIs
  <2>3. Len(ArgParts(args)) = Len(args) /\ ArgParts(args)[i + 1] = part
    BY <2>1, SMTT(60) DEF ArgParts
  <2>4. /\ P \in Nat /\ P + Len(part) <= Len(str)
        /\ \A j \in 1 .. Len(part) : str[P + j] = part[j]
    <3> HIDE DEF part
    <3>1. at[i + 1] = at[i] + Len(part) /\ at[i + 1] <= Len(str) /\ \A j \in 1 .. Len(part) : str[at[i] + j] = part[j]
      BY <2>1, <2>3 DEF PlacedAt
    <3>2. at[i] \in Nat
      BY <2>1, <2>3 DEF PlacedAt
    <3> QED
      BY <3>1, <3>2
  <2> HIDE DEF e, f, P
  <2>5. Len(part) > 1 /\ part[1] = Semicolon /\ Len(part) \in Nat
    <3>1. Len(e) \in Nat /\ Len(f) \in Nat
      BY <2>2, LenProperties
    <3> QED
      BY <2>2, <3>1
  <2>6. Len(str) \in Int
    <3>1. at[Len(args)] = Len(str) /\ at[Len(args)] \in Nat
      BY <2>1, <2>3 DEF PlacedAt
    <3> QED
      BY <3>1
  <2> HIDE DEF part
  <2>7. str[P + 1] = Semicolon /\ P + 1 < Len(str)
    BY <2>4, <2>5, <2>6
  <2> QED
    BY <2>7 DEF P
<1> QED
  BY <1>1, Zenon DEF Separated

\* What parseClientParameters reads from the arguments as tor writes them is the arguments.
LEMMA ParseEncode ==
  ASSUME NEW C, "\\" \in C, "=" \in C, Semicolon \in C, NEW args \in ArgsOf(C)
  PROVE  ParseClientParameters(Encode(args)) = args
<1> DEFINE str == Encode(args)
           n == Len(args)
<1>1. str \in Seq(C) /\ \E at : PlacedAt(ArgParts(args), str, at)
  BY EncodePlaces
<1>2. PICK at : PlacedAt(ArgParts(args), str, at)
  BY <1>1
<1> HIDE DEF str
<1>3. PICK g : /\ Parses(str, g)
               /\ str # <<>> => ParseClientParameters(str) =
                    IF g[Len(str)].err \/ g[Len(str)].esc \/ g[Len(str)].key = <<>> THEN NotArgs
                    ELSE Append(g[Len(str)].args, <<g[Len(str)].key, g[Len(str)].acc>>)
  BY <1>1, ParseIs
<1>4. /\ n \in Nat /\ n # 0 /\ Len(str) \in Nat
      /\ \A i \in 1 .. n : args[i] = <<args[i][1], args[i][2]>> /\ args[i][1] # <<>>
  <2>1. \A i \in 1 .. n : args[i] \in Seq(C) \X Seq(C)
    BY ElementOfSeq DEF ArgsOf
  <2>2. n \in Nat /\ n # 0
    BY EmptySeq, LenProperties DEF ArgsOf
  <2>3. Len(str) \in Nat
    BY <1>1, LenProperties
  <2> QED
    BY <2>1, <2>2, <2>3 DEF ArgsOf
<1>5. /\ \A i \in 0 .. n : at[i] \in Nat
      /\ at[0] = 0 /\ at[n] = Len(str)
  <2>1. Len(ArgParts(args)) = n
    BY <1>4 DEF ArgParts
  <2> QED
    BY <1>2, <2>1 DEF PlacedAt
<1>6. PartsRead(args, str, g, at) /\ Separated(args, str, at)
  <2>1. PartsRead(args, str, g, at)
    BY <1>1, <1>2, <1>3, ReadsParts
  <2>2. Separated(args, str, at)
    BY <1>2, SeparatorsThere
  <2> QED
    BY <2>1, <2>2
<1>7. ASSUME NEW i \in 0 .. n - 1
      PROVE  Append(SubSeq(args, 1, i), args[i + 1]) = SubSeq(args, 1, i + 1)
  BY TextGrows DEF ArgsOf
<1>8. SubSeq(args, 1, 0) = <<>> /\ SubSeq(args, 1, n) = args
  <2>1. SubSeq(args, 1, 0) = <<>>
    BY SubSeqEmpty
  <2> QED
    BY <2>1 DEF ArgsOf
<1> DEFINE Done(i) == g[at[i + 1]] = Read(SubSeq(args, 1, i), args[i + 1][1], args[i + 1][2])
           last(q) == q = Len(str)
<1> HIDE DEF n
<1>9. Done(0)
  <2>1. 0 \in 0 .. n - 1 /\ at[0] + (IF 0 = 0 THEN 0 ELSE 1) = 0
    BY <1>4, <1>5
  <2>2. g[0] = Read(<<>>, <<>>, <<>>)
    BY <1>1, <1>3, ParseBegins
  <2>3. g[at[0 + 1]] = Read(<<>>, args[0 + 1][1], args[0 + 1][2])
    BY <1>6, <2>1, <2>2, Zenon DEF PartsRead, n
  <2> QED
    BY <1>8, <2>3, Zenon
<1>10. ASSUME NEW i \in 0 .. n - 1 - 1, Done(i)
       PROVE  Done(i + 1)
  <2> DEFINE o == i + 1
             p == at[o]
             k == args[o][1]
             v == args[o][2]
             a == SubSeq(args, 1, i)
  <2>1. o \in 1 .. n - 1 /\ o \in 0 .. n - 1 /\ o \in 1 .. n /\ o # 0 /\ o \in 0 .. n /\ i \in 0 .. n - 1
    BY <1>4
  <2>2. p \in Nat
    BY <1>5, <2>1
  <2>3. str[p + 1] = Semicolon /\ p + 1 < Len(str)
    BY <1>6, <2>1 DEF Separated, n
  <2>4. g[p + 1] = Parse1(g[p], str[p + 1], last(p + 1)) /\ ~last(p + 1)
    <3>1. p < Len(str) /\ ~last(p + 1)
      BY <1>4, <2>2, <2>3
    <3> QED
      BY <1>1, <1>3, <2>2, <3>1, ParseStep
  <2>5. k # <<>> /\ args[o] = <<k, v>>
    BY <1>4, <2>1
  <2>6. g[p] = Read(a, k, v)
    BY <1>10
  <2>7. Append(a, args[o]) = SubSeq(args, 1, o)
    BY <1>7, <2>1
  <2> HIDE DEF o, p, k, v, a, last
  <2>8. g[p + 1] = Read(Append(a, <<k, v>>), <<>>, <<>>)
    <3>1. Parse1(Read(a, k, v), ";", last(p + 1)) = Read(Append(a, <<k, v>>), <<>>, <<>>)
      BY <2>4, <2>5, ParseSemicolon, Zenon
    <3> QED
      BY <2>3, <2>4, <2>6, <3>1, Zenon DEF Semicolon
  <2>9. g[p + 1] = Read(SubSeq(args, 1, o), <<>>, <<>>)
    BY <2>5, <2>7, <2>8, Zenon
  <2>10. at[o] + (IF o = 0 THEN 0 ELSE 1) = p + 1
    BY <2>1 DEF p
  <2>11. g[at[o + 1]] = Read(SubSeq(args, 1, o), args[o + 1][1], args[o + 1][2])
    BY <1>6, <2>1, <2>9, <2>10, Zenon DEF PartsRead, n
  <2> QED
    BY <2>11, Zenon DEF o
<1>11. Done(n - 1)
  <2> DEFINE U == {i \in 0 .. n - 1 : Done(i)}
  <2> HIDE DEF Done
  <2>1. 0 \in U /\ \A i \in 0 .. n - 1 - 1 : i \in U => i + 1 \in U
    <3>1. 0 \in 0 .. n - 1 /\ \A i \in 0 .. n - 1 - 1 : i + 1 \in 0 .. n - 1
      BY <1>4
    <3> QED
      BY <1>9, <1>10, <3>1
  <2> HIDE DEF U
  <2>2. n - 1 \in U
    <3>1. n - 1 \in Nat /\ n - 1 \in 0 .. n - 1
      BY <1>4
    <3>2. 0 .. n - 1 \subseteq U
      BY <2>1, <3>1, ReachesFromZero
    <3> QED
      BY <3>1, <3>2
  <2> QED
    BY <2>2 DEF U
<1> DEFINE k == args[n][1]
           v == args[n][2]
           a == SubSeq(args, 1, n - 1)
<1>12. g[Len(str)] = Read(a, k, v)
  <2>1. (n - 1) + 1 = n
    BY <1>4
  <2> QED
    BY <1>5, <1>11, <2>1, Zenon
<1>13. k # <<>> /\ args[n] = <<k, v>> /\ Append(a, args[n]) = args
  <2>1. n \in 1 .. n /\ n - 1 \in 0 .. n - 1 /\ (n - 1) + 1 = n
    BY <1>4
  <2>2. k # <<>> /\ args[n] = <<k, v>>
    BY <1>4, <2>1
  <2>3. Append(a, args[n]) = SubSeq(args, 1, n)
    <3>1. Append(SubSeq(args, 1, n - 1), args[(n - 1) + 1]) = SubSeq(args, 1, (n - 1) + 1)
      BY <1>7, <2>1
    <3> QED
      BY <2>1, <3>1, Zenon
  <2> QED
    BY <1>8, <2>2, <2>3, Zenon
<1> HIDE DEF k, v, a
<1>14. ParseClientParameters(str) = Append(a, <<k, v>>)
  <2> DEFINE q == g[Len(str)]
  <2>1. q.err = FALSE /\ q.esc = FALSE /\ q.key = k /\ q.args = a /\ q.acc = v
    BY <1>12 DEF Read
  <2> HIDE DEF q
  <2>5. str # <<>>
    <3>1. g[0] = Read(<<>>, <<>>, <<>>)
      BY <1>1, <1>3, ParseBegins
    <3>2. Read(<<>>, <<>>, <<>>).key = <<>>
      BY DEF Read
    <3>3. g[0].key # k
      BY <1>13, <3>1, <3>2
    <3>4. Len(str) # 0
      BY <2>1, <3>3 DEF q
    <3> QED
      BY <3>4
  <2>2. ParseClientParameters(str) = IF q.err \/ q.esc \/ q.key = <<>> THEN NotArgs ELSE Append(q.args, <<q.key, q.acc>>)
    BY <1>3, <2>5, Zenon DEF q
  <2>3. ~(q.err \/ q.esc \/ q.key = <<>>)
    BY <1>13, <2>1, Zenon
  <2>4. ParseClientParameters(str) = Append(q.args, <<q.key, q.acc>>)
    BY <2>2, <2>3, Zenon
  <2> QED
    BY <2>1, <2>4, Zenon
<1> QED
  BY <1>13, <1>14, Zenon DEF str

LEMMA ArgListsAreRead ==
  ASSUME NEW args \in ArgLists
  PROVE  ParseClientParameters(Encode(args)) = args /\ args # NotArgs /\ args # <<>>
<1> DEFINE C == STRING \cup {"\\", "=", Semicolon}
<1>1. "\\" \in C /\ "=" \in C /\ Semicolon \in C
  BY Zenon
<1>2. args # <<>> /\ args \in Seq(Seq(STRING) \X Seq(STRING)) /\ \A i \in 1 .. Len(args) : args[i][1] # <<>>
  BY ArgsAssumption
<1>3. args \in ArgsOf(C)
  <2>1. STRING \subseteq C
    BY Zenon
  <2> HIDE DEF C
  <2>2. Seq(STRING) \X Seq(STRING) \subseteq Seq(C) \X Seq(C)
    <3>1. ASSUME NEW s \in Seq(STRING)
          PROVE  s \in Seq(C)
      <4>1. Len(s) \in Nat /\ \A i \in 1 .. Len(s) : s[i] \in C
        BY <2>1, LenProperties, ElementOfSeq
      <4> QED
        BY <4>1
    <3> QED
      BY <3>1, Zenon
  <2>3. args \in Seq(Seq(C) \X Seq(C))
    BY <1>2, <2>2
  <2> QED
    BY <1>2, <2>3, Zenon DEF ArgsOf
<1> HIDE DEF C
<1>4. ParseClientParameters(Encode(args)) = args
  BY <1>1, <1>3, ParseEncode
<1>5. args # NotArgs /\ args # <<>>
  <2>1. Len(args) \in Nat /\ Len(args) # 0
    BY <1>2, EmptySeq, LenProperties
  <2>2. args[1] \in Seq(STRING) \X Seq(STRING)
    BY <1>2, <2>1, ElementOfSeq
  <2>3. args[1] = <<args[1][1], args[1][2]>>
    BY <2>2
  <2>4. Len(args[1]) = 2
    BY <2>3
  <2>5. args[1] # <<>>
    BY <2>4
  <2>6. NotArgs[1] = <<>>
    BY DEF NotArgs
  <2> QED
    BY <1>2, <2>5, <2>6, Zenon
<1> QED
  BY <1>4, <1>5

(***************************************************************************)
(* The SOCKS5 server: the inductive invariant.  Up to the relay, what is   *)
(* in its buffer and on the way is what the client has sent and it has not *)
(* handled, message by message.                                            *)
(***************************************************************************)
Methods == {"unknown", "password", "none", "other"}
Places == {"method", "auth", "command", "dial", "relay", "refused"}
Messages == {"method", "auth", "command", "payload"}
MessagePart == [of : Messages, nth : {1, 2}, bad : BOOLEAN]
Payload == Parts("payload", 0)

\* What a client may have still to send.
Remaining(method) ==
  IF method = "password"
  THEN {<<"method", "auth", "command", "payload">>, <<"auth", "command", "payload">>,
        <<"command", "payload">>, <<"payload">>, <<>>}
  ELSE {<<"method", "command", "payload">>, <<"command", "payload">>, <<"payload">>, <<>>}

SocksTypeOK ==
  /\ offered \in Methods /\ socksAt \in Places
  /\ lockstep \in BOOLEAN /\ excused \in BOOLEAN
  /\ script \in Remaining(offered)
  /\ rdBuf \in Seq(MessagePart) /\ fromClient \in Seq(MessagePart) /\ answers \in Int

\* The messages of a client, those it has sent, and those the server is through with.
MsgCount == IF offered = "password" THEN 4 ELSE 3
SentCount == IF offered = "unknown" THEN 0 ELSE MsgCount - Len(script)
DoneCount ==
  CASE socksAt = "method" -> 0 [] socksAt = "auth" -> 1
    [] socksAt = "command" -> MsgCount - 2 [] OTHER -> MsgCount - 1

\* One of the parts has an error.
ErrorsIn(s) == \E i \in 1 .. Len(s) : s[i].bad = TRUE

\* The last two parts in a buffer and on the way are the payload.
EndsWithPayload(buf, way) ==
  LET len == Len(buf) + Len(way)
      at(i) == IF i <= Len(buf) THEN buf[i] ELSE way[i - Len(buf)]
  IN len >= 2 => at(len - 1) = Payload[1] /\ at(len) = Payload[2]

BeforeConnection ==
  offered = "unknown" =>
    /\ script = <<>> /\ rdBuf = <<>> /\ fromClient = <<>> /\ answers = 0
    /\ socksAt \in {"method", "refused"} /\ sentArgs = <<>> /\ parsedArgs = <<>>

PartsAccounted ==
  socksAt # "refused" =>
    /\ Len(rdBuf) + Len(fromClient) = 2 * (SentCount - DoneCount)
    /\ answers = IF socksAt = "dial" THEN DoneCount - 1 ELSE DoneCount
    /\ ErrorsIn(rdBuf) \/ ErrorsIn(fromClient) => excused
    /\ offered # "unknown" /\ script = <<>> => EndsWithPayload(rdBuf, fromClient)
    /\ socksAt \in {"dial", "relay"} => rdBuf = <<>>
    /\ socksAt = "auth" => offered = "password"

ArgsAccounted ==
  socksAt # "refused" =>
    /\ IF socksAt \in {"method", "auth"} THEN parsedArgs = <<>> ELSE parsedArgs = sentArgs
    /\ offered = "password" /\ SentCount >= 2 =>
         \/ sentArgs \in ArgLists /\ (socksAt \in {"method", "auth"} => argStr = Encode(sentArgs))
         \/ excused /\ socksAt \in {"method", "auth"} /\ argStr \in Malformed
    /\ ~(offered = "password" /\ SentCount >= 2) => sentArgs = <<>>

Excuses ==
  /\ offered = "other" => excused
  /\ lockstep /\ offered # "unknown" => SentCount <= answers + 1
  /\ LockstepNeverRefused

SocksInv == SocksTypeOK /\ BeforeConnection /\ PartsAccounted /\ ArgsAccounted /\ Excuses

-----------------------------------------------------------------------------
\* The places of two sequences that are joined, and of one without its first two.
TwoPlaced(p, q, t) ==
  /\ Len(t) = Len(p) + Len(q)
  /\ \A i \in 1 .. Len(p) : t[i] = p[i]
  /\ \A i \in 1 .. Len(q) : t[Len(p) + i] = q[i]

LEMMA TwoJoined ==
  ASSUME NEW C, NEW p \in Seq(C), NEW q \in Seq(C)
  PROVE  p \o q \in Seq(C) /\ TwoPlaced(p, q, p \o q)
<1>1. Len(p) \in Nat /\ Len(q) \in Nat
  BY LenProperties
<1> QED
  BY <1>1 DEF TwoPlaced

Dropped(n, s, t) == Len(t) = Len(s) - n /\ \A i \in 1 .. Len(s) - n : t[i] = s[n + i]

LEMMA RestOf ==
  ASSUME NEW C, NEW s \in Seq(C), NEW n \in 0 .. Len(s)
  PROVE  SubSeq(s, n + 1, Len(s)) \in Seq(C) /\ Dropped(n, s, SubSeq(s, n + 1, Len(s)))
<1>1. Len(s) \in Nat /\ n \in Nat /\ n <= Len(s)
  BY LenProperties
<1> QED
  BY <1>1 DEF Dropped

-----------------------------------------------------------------------------
LEMMA PartsAreParts ==
  ASSUME NEW m \in Messages, NEW bad
  PROVE  /\ Parts(m, bad) \in Seq(MessagePart) /\ Len(Parts(m, bad)) = 2
         /\ bad \notin {1, 2} => ~ErrorsIn(Parts(m, bad))
<1> DEFINE p == [of |-> m, nth |-> 1, bad |-> bad = 1]
           q == [of |-> m, nth |-> 2, bad |-> bad = 2]
<1>1. p \in MessagePart /\ q \in MessagePart
  BY DEF MessagePart
<1>2. Parts(m, bad) = <<p, q>>
  BY DEF Parts
<1>3. bad \notin {1, 2} => p.bad # TRUE /\ q.bad # TRUE
  OBVIOUS
<1> HIDE DEF p, q
<1>4. <<p, q>> \in Seq(MessagePart) /\ Len(<<p, q>>) = 2 /\ <<p, q>>[1] = p /\ <<p, q>>[2] = q
  BY <1>1
<1>5. bad \notin {1, 2} => ~ErrorsIn(<<p, q>>)
  <2> DEFINE s == <<p, q>>
  <2>1. Len(s) = 2 /\ s[1] = p /\ s[2] = q /\ \A i \in 1 .. 2 : i = 1 \/ i = 2
    BY <1>4
  <2> HIDE DEF s
  <2>2. bad \notin {1, 2} => ~ErrorsIn(s)
    BY <1>3, <2>1, Zenon DEF ErrorsIn
  <2> QED
    BY <2>2 DEF s
<1> QED
  BY <1>2, <1>4, <1>5, Zenon

LEMMA PayloadSent ==
  ASSUME NEW buf \in Seq(MessagePart), NEW way \in Seq(MessagePart)
  PROVE  EndsWithPayload(buf, way \o Payload)
<1>1. Payload \in Seq(MessagePart) /\ Len(Payload) = 2
  BY PartsAreParts DEF Payload, Messages
<1> DEFINE w == way \o Payload
<1>2. Len(buf) \in Nat /\ Len(way) \in Nat
  BY LenProperties
<1> HIDE DEF Payload
<1>3. Len(w) = Len(way) + 2 /\ w[Len(way) + 1] = Payload[1] /\ w[Len(way) + 2] = Payload[2]
  <2>1. TwoPlaced(way, Payload, w)
    BY <1>1, TwoJoined
  <2>2. 1 \in 1 .. 2 /\ 2 \in 1 .. 2
    OBVIOUS
  <2> QED
    BY <1>1, <2>1, <2>2, Zenon DEF TwoPlaced
<1> HIDE DEF w
<1>4. EndsWithPayload(buf, w)
  BY <1>2, <1>3 DEF EndsWithPayload
<1> QED
  BY <1>4 DEF w

LEMMA PayloadRead ==
  ASSUME NEW buf \in Seq(MessagePart), NEW way \in Seq(MessagePart), NEW n \in 1 .. Len(way)
  PROVE  /\ buf \o SubSeq(way, 1, n) \in Seq(MessagePart) /\ SubSeq(way, n + 1, Len(way)) \in Seq(MessagePart)
         /\ Len(buf \o SubSeq(way, 1, n)) + Len(SubSeq(way, n + 1, Len(way))) = Len(buf) + Len(way)
         /\ EndsWithPayload(buf, way)
              => EndsWithPayload(buf \o SubSeq(way, 1, n), SubSeq(way, n + 1, Len(way)))
         /\ ErrorsIn(buf \o SubSeq(way, 1, n)) \/ ErrorsIn(SubSeq(way, n + 1, Len(way)))
              => ErrorsIn(buf) \/ ErrorsIn(way)
<1> DEFINE u == SubSeq(way, 1, n)
           w == SubSeq(way, n + 1, Len(way))
           b == buf \o u
<1>1. Len(buf) \in Nat /\ Len(way) \in Nat /\ n \in Nat /\ n <= Len(way)
  BY LenProperties
<1>2. /\ u \in Seq(MessagePart) /\ Len(u) = n /\ \A i \in 1 .. n : u[i] = way[i]
      /\ w \in Seq(MessagePart) /\ Len(w) = Len(way) - n /\ \A i \in 1 .. Len(way) - n : w[i] = way[n + i]
  BY <1>1
<1> HIDE DEF u, w
<1>3. /\ b \in Seq(MessagePart) /\ Len(b) = Len(buf) + n
      /\ \A i \in 1 .. Len(buf) : b[i] = buf[i]
      /\ \A i \in 1 .. n : b[Len(buf) + i] = way[i]
  <2>1. b \in Seq(MessagePart) /\ TwoPlaced(buf, u, b)
    BY <1>2, TwoJoined
  <2> HIDE DEF b
  <2> QED
    BY <1>2, <2>1, Zenon DEF TwoPlaced
<1> HIDE DEF b
<1>4. Len(b) + Len(w) = Len(buf) + Len(way)
  BY <1>1, <1>2, <1>3
<1>5. EndsWithPayload(buf, way) => EndsWithPayload(b, w)
  <2> DEFINE len == Len(buf) + Len(way)
             old(i) == IF i <= Len(buf) THEN buf[i] ELSE way[i - Len(buf)]
             new(i) == IF i <= Len(b) THEN b[i] ELSE w[i - Len(b)]
  <2>1. ASSUME NEW i \in 1 .. len
        PROVE  new(i) = old(i)
    <3>1. CASE i <= Len(buf)
      <4>1. i \in 1 .. Len(buf) /\ i <= Len(b)
        BY <1>1, <1>3, <3>1
      <4> QED
        BY <1>3, <3>1, <4>1
    <3>2. CASE ~(i <= Len(buf)) /\ i <= Len(b)
      <4>1. i - Len(buf) \in 1 .. n /\ Len(buf) + (i - Len(buf)) = i
        BY <1>1, <1>3, <3>2
      <4>2. b[Len(buf) + (i - Len(buf))] = way[i - Len(buf)]
        BY <1>3, <4>1
      <4> QED
        BY <3>2, <4>1, <4>2
    <3>3. CASE ~(i <= Len(b))
      <4>1. i - Len(b) \in 1 .. Len(way) - n /\ n + (i - Len(b)) = i - Len(buf) /\ ~(i <= Len(buf))
        BY <1>1, <1>3, <3>3
      <4>2. w[i - Len(b)] = way[n + (i - Len(b))]
        BY <1>2, <4>1
      <4> QED
        BY <3>3, <4>1, <4>2
    <3> QED
      BY <3>1, <3>2, <3>3
  <2>2. len >= 2 => len - 1 \in 1 .. len /\ len \in 1 .. len
    BY <1>1
  <2>3. EndsWithPayload(buf, way) = (len >= 2 => old(len - 1) = Payload[1] /\ old(len) = Payload[2])
    BY DEF EndsWithPayload
  <2>4. EndsWithPayload(b, w) = (len >= 2 => new(len - 1) = Payload[1] /\ new(len) = Payload[2])
    BY <1>4 DEF EndsWithPayload
  <2> HIDE DEF len, old, new
  <2> QED
    BY <2>1, <2>2, <2>3, <2>4, Zenon
<1>6. ErrorsIn(b) \/ ErrorsIn(w) => ErrorsIn(buf) \/ ErrorsIn(way)
  <2>1. ASSUME NEW i \in 1 .. Len(b), b[i].bad = TRUE
        PROVE  ErrorsIn(buf) \/ ErrorsIn(way)
    <3>1. CASE i <= Len(buf)
      <4>1. i \in 1 .. Len(buf)
        BY <1>1, <1>3, <3>1
      <4>2. buf[i].bad = TRUE
        BY <1>3, <2>1, <4>1
      <4> QED
        BY <4>1, <4>2 DEF ErrorsIn
    <3>2. CASE ~(i <= Len(buf))
      <4>1. i - Len(buf) \in 1 .. n /\ i - Len(buf) \in 1 .. Len(way) /\ Len(buf) + (i - Len(buf)) = i
        BY <1>1, <1>3, <3>2
      <4>2. way[i - Len(buf)].bad = TRUE
        BY <1>3, <2>1, <4>1
      <4> QED
        BY <4>1, <4>2 DEF ErrorsIn
    <3> QED
      BY <3>1, <3>2
  <2>2. ASSUME NEW i \in 1 .. Len(w), w[i].bad = TRUE
        PROVE  ErrorsIn(way)
    <3>1. n + i \in 1 .. Len(way) /\ w[i] = way[n + i]
      BY <1>1, <1>2
    <3> QED
      BY <2>2, <3>1 DEF ErrorsIn
  <2> QED
    BY <2>1, <2>2 DEF ErrorsIn
<1> QED
  BY <1>2, <1>3, <1>4, <1>5, <1>6 DEF b, u, w

\* A message is taken from the buffer.
LEMMA MessageTaken ==
  ASSUME NEW buf \in Seq(MessagePart), NEW way \in Seq(MessagePart), Len(buf) >= 2
  PROVE  /\ SubSeq(buf, 3, Len(buf)) \in Seq(MessagePart)
         /\ Len(SubSeq(buf, 3, Len(buf))) = Len(buf) - 2
         /\ EndsWithPayload(buf, way) => EndsWithPayload(SubSeq(buf, 3, Len(buf)), way)
         /\ ErrorsIn(SubSeq(buf, 3, Len(buf))) => ErrorsIn(buf)
<1> DEFINE b == SubSeq(buf, 3, Len(buf))
<1>1. Len(buf) \in Nat /\ Len(way) \in Nat
  BY LenProperties
<1>2. b \in Seq(MessagePart) /\ Len(b) = Len(buf) - 2 /\ \A i \in 1 .. Len(buf) - 2 : b[i] = buf[2 + i]
  <2>1. 2 \in 0 .. Len(buf) /\ 2 + 1 = 3
    BY <1>1
  <2>2. b \in Seq(MessagePart) /\ Dropped(2, buf, b)
    BY <2>1, RestOf
  <2> QED
    BY <2>2 DEF Dropped
<1> HIDE DEF b
<1>3. EndsWithPayload(buf, way) => EndsWithPayload(b, way)
  <2> DEFINE len == Len(buf) + Len(way)
             old(i) == IF i <= Len(buf) THEN buf[i] ELSE way[i - Len(buf)]
             new(i) == IF i <= Len(b) THEN b[i] ELSE way[i - Len(b)]
  <2>1. ASSUME NEW i \in 3 .. len
        PROVE  new(i - 2) = old(i)
    <3>1. CASE i <= Len(buf)
      <4>1. i - 2 \in 1 .. Len(buf) - 2 /\ 2 + (i - 2) = i /\ i - 2 <= Len(b)
        BY <1>1, <1>2, <3>1
      <4>2. b[i - 2] = buf[2 + (i - 2)]
        BY <1>2, <4>1
      <4> QED
        BY <3>1, <4>1, <4>2
    <3>2. CASE ~(i <= Len(buf))
      <4>1. ~(i - 2 <= Len(b)) /\ (i - 2) - Len(b) = i - Len(buf)
        BY <1>1, <1>2, <3>2
      <4> QED
        BY <3>2, <4>1
    <3> QED
      BY <3>1, <3>2
  <2>2. len - 2 >= 2 => /\ len - 1 \in 3 .. len /\ len \in 3 .. len /\ len >= 2
                        /\ (len - 1) - 2 = (len - 2) - 1
    BY <1>1
  <2>3. EndsWithPayload(buf, way) = (len >= 2 => old(len - 1) = Payload[1] /\ old(len) = Payload[2])
    BY DEF EndsWithPayload
  <2>4. EndsWithPayload(b, way) = (len - 2 >= 2 => new((len - 2) - 1) = Payload[1] /\ new(len - 2) = Payload[2])
    <3>1. Len(b) + Len(way) = len - 2
      BY <1>1, <1>2
    <3> QED
      BY <3>1, Zenon DEF EndsWithPayload
  <2> HIDE DEF len, old, new
  <2>5. len - 2 >= 2 => new((len - 2) - 1) = old(len - 1) /\ new(len - 2) = old(len)
    BY <2>1, <2>2, Zenon
  <2> QED
    BY <2>2, <2>3, <2>4, <2>5, Zenon
<1>4. ErrorsIn(b) => ErrorsIn(buf)
  <2>1. ASSUME NEW i \in 1 .. Len(b), b[i].bad = TRUE
        PROVE  ErrorsIn(buf)
    <3>1. 2 + i \in 1 .. Len(buf) /\ b[i] = buf[2 + i]
      BY <1>1, <1>2
    <3>2. buf[2 + i].bad = TRUE
      BY <2>1, <3>1
    <3> QED
      BY <3>1, <3>2, Zenon DEF ErrorsIn
  <2> QED
    BY <2>1 DEF ErrorsIn
<1> QED
  BY <1>2, <1>3, <1>4 DEF b

LEMMA OnlyPayloadLeft ==
  ASSUME NEW way \in Seq(MessagePart), EndsWithPayload(<<>>, way), Len(way) = 2
  PROVE  way = Payload
<1>1. Payload \in Seq(MessagePart) /\ Len(Payload) = 2
  BY PartsAreParts DEF Payload, Messages
<1>2. way[1] = Payload[1] /\ way[2] = Payload[2]
  BY DEF EndsWithPayload
<1> HIDE DEF Payload
<1> QED
  BY <1>1, <1>2

LEMMA ScriptShrinks ==
  ASSUME NEW method, NEW s \in Remaining(method)
  PROVE  /\ Len(s) \in 0 .. IF method = "password" THEN 4 ELSE 3
         /\ s = <<>> <=> Len(s) = 0
         /\ s # <<>> => /\ Tail(s) \in Remaining(method) /\ Len(Tail(s)) = Len(s) - 1
                        /\ Head(s) \in Messages
                        /\ Head(s) = "payload" <=> Len(s) = 1
                        /\ Head(s) = "auth" <=> method = "password" /\ Len(s) = 3
<1> DEFINE Good(t) ==
             /\ Len(t) \in 0 .. IF method = "password" THEN 4 ELSE 3
             /\ t = <<>> <=> Len(t) = 0
             /\ t # <<>> => /\ Tail(t) \in Remaining(method) /\ Len(Tail(t)) = Len(t) - 1
                            /\ Head(t) \in Messages
                            /\ Head(t) = "payload" <=> Len(t) = 1
                            /\ Head(t) = "auth" <=> method = "password" /\ Len(t) = 3
<1>1. CASE method = "password"
  <2>1. /\ Tail(<<"method", "auth", "command", "payload">>) = <<"auth", "command", "payload">>
        /\ Tail(<<"auth", "command", "payload">>) = <<"command", "payload">>
        /\ Tail(<<"command", "payload">>) = <<"payload">> /\ Tail(<<"payload">>) = <<>>
    OBVIOUS
  <2>2. Good(<<"method", "auth", "command", "payload">>) /\ Good(<<"auth", "command", "payload">>)
    BY <1>1, <2>1 DEF Remaining, Messages
  <2>3. Good(<<"command", "payload">>) /\ Good(<<"payload">>) /\ Good(<<>>)
    BY <1>1, <2>1 DEF Remaining, Messages
  <2> HIDE DEF Good
  <2>4. Good(s)
    BY <1>1, <2>2, <2>3, Zenon DEF Remaining
  <2> QED
    BY <2>4 DEF Good
<1>2. CASE method # "password"
  <2>1. /\ Tail(<<"method", "command", "payload">>) = <<"command", "payload">>
        /\ Tail(<<"command", "payload">>) = <<"payload">> /\ Tail(<<"payload">>) = <<>>
    OBVIOUS
  <2>2. Good(<<"method", "command", "payload">>) /\ Good(<<"command", "payload">>)
    BY <1>2, <2>1 DEF Remaining, Messages
  <2>3. Good(<<"payload">>) /\ Good(<<>>)
    BY <1>2, <2>1 DEF Remaining, Messages
  <2> HIDE DEF Good
  <2>4. Good(s)
    BY <1>2, <2>2, <2>3, Zenon DEF Remaining
  <2> QED
    BY <2>4 DEF Good
<1> QED
  BY <1>1, <1>2

LEMMA ScriptBegins ==
  ASSUME NEW method
  PROVE  /\ Script(method) \in Remaining(method) /\ Script(method) # <<>>
         /\ Len(Script(method)) = IF method = "password" THEN 4 ELSE 3
BY DEF Script, Remaining

LEMMA NoErrors ==
  ~ErrorsIn(<<>>) /\ Len(<<>>) = 0 /\ <<>> \in Seq(MessagePart)
BY DEF ErrorsIn

LEMMA SocksInvInit ==
  ASSUME SocksInit
  PROVE  SocksInv
<1>1. SocksTypeOK
  <2>1. offered \in Methods /\ socksAt \in Places /\ script \in Remaining(offered) /\ answers \in Int
    BY DEF SocksInit, Remaining, Methods, Places
  <2>2. lockstep \in BOOLEAN /\ excused \in BOOLEAN /\ rdBuf \in Seq(MessagePart) /\ fromClient \in Seq(MessagePart)
    BY NoErrors, Zenon DEF SocksInit
  <2> QED
    BY <2>1, <2>2 DEF SocksTypeOK
<1>2. BeforeConnection /\ ArgsAccounted /\ Excuses
  BY DEF SocksInit, BeforeConnection, ArgsAccounted, Excuses, LockstepNeverRefused, SentCount
<1>3. PartsAccounted
  BY NoErrors DEF SocksInit, PartsAccounted, SentCount, DoneCount
<1> QED
  BY <1>1, <1>2, <1>3 DEF SocksInv

LEMMA ConnectingKeeps ==
  ASSUME SocksInv, NEW method \in {"password", "none", "other"}, NEW inStep \in BOOLEAN,
         ClientConnects(method, inStep)
  PROVE  SocksInv'
<1> USE DEF SocksInv, ClientConnects
<1>1. /\ method \in Methods /\ method # "unknown"
      /\ Script(method) \in Remaining(method) /\ Script(method) # <<>>
      /\ Len(Script(method)) = IF method = "password" THEN 4 ELSE 3
  BY ScriptBegins DEF Methods
<1>2. SentCount' = 0 /\ DoneCount' = 0 /\ answers = 0
  BY <1>1 DEF SentCount, DoneCount, MsgCount, BeforeConnection
<1> HIDE DEF Script
<1>3. SocksTypeOK'
  BY <1>1 DEF SocksTypeOK
<1>4. BeforeConnection' /\ ArgsAccounted'
  BY <1>1, <1>2 DEF BeforeConnection, ArgsAccounted
<1>5. PartsAccounted'
  BY <1>1, <1>2, NoErrors DEF PartsAccounted, BeforeConnection
<1>6. Excuses'
  <2>1. offered' = "other" => excused'
    <3>1. offered' = method /\ excused' = (method = "other")
      OBVIOUS
    <3> HIDE DEF SocksInv, ClientConnects
    <3> QED
      BY <3>1, Zenon
  <2>2. socksAt' # "refused" /\ SentCount' <= answers' + 1
    BY <1>2
  <2> QED
    BY <2>1, <2>2 DEF Excuses, LockstepNeverRefused
<1> QED
  BY <1>3, <1>4, <1>5, <1>6

\* What a client may send as its next message.
LEMMA SendingKeeps ==
  ASSUME SocksInv, NEW bad \in 0 .. 2, NEW args, NEW str, ClientSends(bad, args, str),
         \/ args \in ArgLists /\ str = Encode(args)
         \/ args = <<>>
         \/ args = NotArgs /\ str \in Malformed
  PROVE  SocksInv'
<1> USE DEF SocksInv
<1> DEFINE head == Head(script)
<1>1. /\ script # <<>> /\ socksAt # "refused" /\ offered # "unknown"
      /\ UNCHANGED <<lockstep, offered, rdBuf, socksAt, answers, parsedArgs>>
      /\ script' = Tail(script) /\ fromClient' = fromClient \o Parts(head, bad)
      /\ excused' = (excused \/ bad # 0 \/ args = NotArgs)
      /\ head = "payload" => bad = 0
      /\ lockstep => answers = Len(Script(offered)) - Len(script)
      /\ IF head = "auth" THEN args # <<>> /\ sentArgs' = args /\ argStr' = str
         ELSE args = <<>> /\ UNCHANGED <<sentArgs, argStr>>
  BY DEF ClientSends, BeforeConnection
<1>2. /\ Len(script) \in 1 .. MsgCount /\ script' \in Remaining(offered) /\ Len(script') = Len(script) - 1
      /\ head \in Messages
      /\ head = "payload" <=> script' = <<>>
      /\ head = "auth" <=> offered = "password" /\ Len(script) = 3
  <2>1. script \in Remaining(offered)
    BY DEF SocksTypeOK
  <2>2. /\ Len(script) \in 0 .. MsgCount /\ (script = <<>> <=> Len(script) = 0)
        /\ Tail(script) \in Remaining(offered) /\ Len(Tail(script)) = Len(script) - 1
        /\ head \in Messages /\ (head = "payload" <=> Len(script) = 1)
        /\ (head = "auth" <=> offered = "password" /\ Len(script) = 3)
    BY <1>1, <2>1, ScriptShrinks DEF MsgCount
  <2>3. script' = <<>> <=> Len(script') = 0
    BY <1>1, <2>2, ScriptShrinks
  <2>4. MsgCount \in Nat
    BY DEF MsgCount
  <2> QED
    BY <1>1, <2>2, <2>3, <2>4
<1>3. /\ SentCount' = SentCount + 1 /\ DoneCount' = DoneCount /\ SentCount \in Nat /\ SentCount = MsgCount - Len(script)
      /\ DoneCount \in Nat /\ MsgCount \in {3, 4} /\ (MsgCount = 4 <=> offered = "password")
  BY <1>1, <1>2 DEF SentCount, DoneCount, MsgCount
<1> HIDE DEF head
<1>4. /\ Parts(head, bad) \in Seq(MessagePart) /\ Len(Parts(head, bad)) = 2
      /\ bad \notin {1, 2} => ~ErrorsIn(Parts(head, bad))
  BY <1>2, PartsAreParts
<1>5. rdBuf \in Seq(MessagePart) /\ fromClient \in Seq(MessagePart) /\ Len(rdBuf) \in Nat /\ Len(fromClient) \in Nat
  BY LenProperties DEF SocksTypeOK
<1>6. fromClient' \in Seq(MessagePart) /\ TwoPlaced(fromClient, Parts(head, bad), fromClient')
  BY <1>1, <1>4, <1>5, TwoJoined
<1>7. ErrorsIn(fromClient') => ErrorsIn(fromClient) \/ bad # 0
  <2>1. ASSUME NEW i \in 1 .. Len(fromClient'), fromClient'[i].bad = TRUE, ~ErrorsIn(Parts(head, bad))
        PROVE  ErrorsIn(fromClient)
    <3>1. CASE i <= Len(fromClient)
      <4>1. i \in 1 .. Len(fromClient)
        BY <1>5, <3>1
      <4>2. fromClient[i].bad = TRUE
        BY <1>6, <2>1, <4>1 DEF TwoPlaced
      <4> QED
        BY <4>1, <4>2, Zenon DEF ErrorsIn
    <3>2. CASE ~(i <= Len(fromClient))
      <4>1. i - Len(fromClient) \in 1 .. 2 /\ Len(fromClient) + (i - Len(fromClient)) = i
        BY <1>4, <1>5, <1>6, <3>2 DEF TwoPlaced
      <4>2. Parts(head, bad)[i - Len(fromClient)].bad = TRUE
        BY <1>4, <1>6, <2>1, <4>1 DEF TwoPlaced
      <4> QED
        BY <1>4, <2>1, <4>1, <4>2 DEF ErrorsIn
    <3> QED
      BY <3>1, <3>2
  <2>2. bad = 0 => ~ErrorsIn(Parts(head, bad))
    BY <1>4
  <2> QED
    BY <2>1, <2>2 DEF ErrorsIn
<1>8. SocksTypeOK'
  BY <1>1, <1>2, <1>6 DEF SocksTypeOK
<1>9. PartsAccounted'
  <2>1. Len(rdBuf') + Len(fromClient') = 2 * (SentCount' - DoneCount')
    BY <1>1, <1>3, <1>4, <1>5, <1>6 DEF TwoPlaced, PartsAccounted
  <2>2. ErrorsIn(rdBuf') \/ ErrorsIn(fromClient') => excused'
    BY <1>1, <1>7 DEF PartsAccounted
  <2>3. script' = <<>> => EndsWithPayload(rdBuf', fromClient')
    <3>1. ASSUME script' = <<>>
          PROVE  fromClient' = fromClient \o Payload
      BY <1>1, <1>2, <3>1 DEF Payload
    <3> QED
      BY <1>1, <1>5, <3>1, PayloadSent
  <2>4. /\ answers' = (IF socksAt' = "dial" THEN DoneCount' - 1 ELSE DoneCount')
        /\ socksAt' \in {"dial", "relay"} => rdBuf' = <<>>
        /\ socksAt' = "auth" => offered' = "password"
    BY <1>1, <1>3 DEF PartsAccounted
  <2> QED
    BY <2>1, <2>2, <2>3, <2>4 DEF PartsAccounted
<1>10. ArgsAccounted'
  <2>1. CASE head = "auth"
    <3>1. SentCount = 1 /\ SentCount' = 2 /\ offered = "password"
      <4>1. offered = "password" /\ Len(script) = 3
        BY <1>2, <2>1, Zenon
      <4>2. MsgCount = 4
        BY <1>3, <4>1, Zenon
      <4> QED
        BY <1>3, <4>1, <4>2
    <3>2. socksAt \in {"method", "auth"}
      <4>1. DoneCount <= 1
        BY <1>1, <1>3, <1>5, <3>1 DEF PartsAccounted
      <4> QED
        BY <1>1, <3>1, <4>1 DEF DoneCount, MsgCount, SocksTypeOK, Places
    <3>3. parsedArgs' = <<>>
      BY <1>1, <3>2 DEF ArgsAccounted
    <3>4. \/ sentArgs' \in ArgLists /\ argStr' = Encode(sentArgs')
          \/ excused' /\ argStr' \in Malformed
      BY <1>1, <2>1
    <3> QED
      BY <1>1, <3>1, <3>2, <3>3, <3>4 DEF ArgsAccounted
  <2>2. CASE head # "auth"
    <3>1. offered = "password" => (SentCount' >= 2 <=> SentCount >= 2)
      BY <1>2, <1>3, <2>2
    <3>2. excused => excused'
      BY <1>1
    <3> QED
      BY <1>1, <2>2, <3>1, <3>2 DEF ArgsAccounted
  <2> QED
    BY <2>1, <2>2
<1>11. Excuses'
  <2>1. lockstep => SentCount' <= answers' + 1
    <3>1. Len(Script(offered)) = MsgCount
      BY ScriptBegins DEF MsgCount
    <3> QED
      BY <1>1, <1>3, <3>1
  <2> QED
    BY <1>1, <2>1 DEF Excuses, LockstepNeverRefused
<1>12. BeforeConnection'
  BY <1>1 DEF BeforeConnection
<1> QED
  BY <1>8, <1>9, <1>10, <1>11, <1>12

\* A whole message in the buffer.
LEMMA MessageThere ==
  ASSUME SocksInv, InHandshake, Len(rdBuf) >= 2
  PROVE  /\ rdBuf \in Seq(MessagePart) /\ fromClient \in Seq(MessagePart) /\ Len(rdBuf) \in Nat /\ Len(fromClient) \in Nat
         /\ socksAt \in {"method", "auth", "command"} /\ offered # "unknown"
         /\ SentCount \in Int /\ DoneCount \in Int /\ SentCount >= DoneCount + 1
         /\ Len(rdBuf) + Len(fromClient) = 2 * (SentCount - DoneCount) /\ answers = DoneCount
         /\ lockstep => Len(rdBuf) = 2
<1>1. rdBuf \in Seq(MessagePart) /\ fromClient \in Seq(MessagePart) /\ Len(rdBuf) \in Nat /\ Len(fromClient) \in Nat
  BY LenProperties DEF SocksInv, SocksTypeOK
<1>2. offered # "unknown" /\ socksAt \in {"method", "auth", "command"}
  <2>1. rdBuf # <<>>
    BY NoErrors
  <2> QED
    BY <2>1 DEF SocksInv, BeforeConnection, InHandshake
<1>3. Len(rdBuf) + Len(fromClient) = 2 * (SentCount - DoneCount) /\ answers = DoneCount
  BY <1>2 DEF SocksInv, PartsAccounted
<1>4. SentCount \in Int /\ DoneCount \in Int
  <2>1. Len(script) \in Nat
    BY ScriptShrinks DEF SocksInv, SocksTypeOK
  <2> QED
    BY <1>2, <2>1 DEF SentCount, DoneCount, MsgCount
<1>5. SentCount >= DoneCount + 1
  BY <1>1, <1>3, <1>4
<1>6. ASSUME lockstep PROVE Len(rdBuf) = 2
  <2>1. SentCount <= answers + 1
    BY <1>2, <1>6 DEF SocksInv, Excuses
  <2>2. SentCount - DoneCount <= 1
    BY <1>3, <1>4, <2>1
  <2>3. \A x, y \in Nat : \A s, d \in Int : x >= 2 /\ x + y = 2 * (s - d) /\ s - d <= 1 => x = 2
    OBVIOUS
  <2> QED
    BY <1>1, <1>3, <1>4, <2>2, <2>3, Zenon
<1> QED
  BY <1>1, <1>2, <1>3, <1>4, <1>5, <1>6

\* The server has handled a message and goes on to the next step.
LEMMA MessageHandled ==
  ASSUME SocksInv, InHandshake, Len(rdBuf) >= 2,
         NEW next \in {"auth", "command", "dial"}, FlushBuffers(next),
         UNCHANGED <<script, lockstep, offered, fromClient, excused>>,
         next = "auth" => socksAt = "method" /\ offered = "password",
         next = "command" => IF offered = "password" THEN socksAt = "auth" ELSE socksAt = "method",
         next = "dial" => socksAt = "command"
  PROVE  /\ SocksTypeOK' /\ BeforeConnection' /\ PartsAccounted' /\ Excuses'
         /\ socksAt' \in {next, "refused"} /\ SentCount' = SentCount
<1>1. /\ rdBuf \in Seq(MessagePart) /\ fromClient \in Seq(MessagePart) /\ Len(rdBuf) \in Nat /\ Len(fromClient) \in Nat
      /\ socksAt \in {"method", "auth", "command"} /\ offered # "unknown"
      /\ SentCount \in Int /\ DoneCount \in Int /\ SentCount >= DoneCount + 1
      /\ Len(rdBuf) + Len(fromClient) = 2 * (SentCount - DoneCount) /\ answers = DoneCount
      /\ lockstep => Len(rdBuf) = 2
  BY MessageThere
<1>2. /\ rdBuf' = SubSeq(rdBuf, 3, Len(rdBuf))
      /\ answers' = answers + (IF next = "dial" THEN 0 ELSE 1)
      /\ socksAt' = IF rdBuf' # <<>> THEN "refused" ELSE next
  BY Zenon DEF FlushBuffers, AfterFlush
<1>3. /\ rdBuf' \in Seq(MessagePart) /\ Len(rdBuf') = Len(rdBuf) - 2
      /\ EndsWithPayload(rdBuf, fromClient) => EndsWithPayload(rdBuf', fromClient)
      /\ ErrorsIn(rdBuf') => ErrorsIn(rdBuf)
  <2>1. /\ SubSeq(rdBuf, 3, Len(rdBuf)) \in Seq(MessagePart) /\ Len(SubSeq(rdBuf, 3, Len(rdBuf))) = Len(rdBuf) - 2
        /\ EndsWithPayload(rdBuf, fromClient) => EndsWithPayload(SubSeq(rdBuf, 3, Len(rdBuf)), fromClient)
        /\ ErrorsIn(SubSeq(rdBuf, 3, Len(rdBuf))) => ErrorsIn(rdBuf)
    BY <1>1, MessageTaken, Zenon
  <2> QED
    BY <1>2, <2>1, Zenon
<1>4. lockstep => rdBuf' = <<>>
  <2>1. Len(rdBuf') = 0 => rdBuf' = <<>>
    BY <1>3, EmptySeq
  <2> QED
    BY <1>1, <1>3, <2>1
<1>5. SentCount' = SentCount /\ MsgCount' = MsgCount
  BY DEF SentCount, MsgCount
<1>6. socksAt' # "refused" => DoneCount' = DoneCount + 1 /\ rdBuf' = <<>> /\ socksAt' = next
  <2>1. socksAt' # "refused" => rdBuf' = <<>> /\ socksAt' = next
    BY <1>2
  <2> QED
    BY <1>5, <2>1 DEF DoneCount, MsgCount
<1>7. SocksTypeOK'
  <2>1. socksAt' \in Places /\ answers' \in Int
    BY <1>1, <1>2 DEF Places
  <2> QED
    BY <1>3, <2>1 DEF SocksInv, SocksTypeOK
<1>8. PartsAccounted'
  <2>1. ASSUME socksAt' # "refused"
        PROVE  /\ Len(rdBuf') + Len(fromClient') = 2 * (SentCount' - DoneCount')
               /\ answers' = IF socksAt' = "dial" THEN DoneCount' - 1 ELSE DoneCount'
               /\ socksAt' = "auth" => offered' = "password"
    <3>1. rdBuf' = <<>> /\ socksAt' = next /\ DoneCount' = DoneCount + 1 /\ fromClient' = fromClient
      BY <1>6, <2>1
    <3>2. Len(rdBuf') + Len(fromClient') = 2 * (SentCount' - DoneCount')
      BY <1>1, <1>3, <1>5, <3>1
    <3>3. answers' = IF socksAt' = "dial" THEN DoneCount' - 1 ELSE DoneCount'
      BY <1>1, <1>2, <3>1
    <3> QED
      BY <3>1, <3>2, <3>3
  <2>2. ErrorsIn(rdBuf') \/ ErrorsIn(fromClient') => excused'
    BY <1>1, <1>3 DEF SocksInv, PartsAccounted
  <2>3. script' = <<>> => EndsWithPayload(rdBuf', fromClient')
    BY <1>1, <1>3 DEF SocksInv, PartsAccounted
  <2> QED
    BY <1>6, <2>1, <2>2, <2>3 DEF PartsAccounted
<1>9. Excuses'
  <2>1. lockstep => SentCount' <= answers' + 1 /\ socksAt' = next
    <3>1. lockstep => SentCount <= answers + 1
      BY <1>1 DEF SocksInv, Excuses
    <3> QED
      BY <1>1, <1>2, <1>4, <1>5, <3>1
  <2>2. offered' = "other" => excused'
    BY DEF SocksInv, Excuses
  <2> QED
    BY <2>1, <2>2 DEF Excuses, LockstepNeverRefused
<1>10. BeforeConnection'
  BY <1>1 DEF BeforeConnection
<1> QED
  BY <1>2, <1>5, <1>7, <1>8, <1>9, <1>10

LEMMA FillingKeeps ==
  ASSUME SocksInv, NEW n \in 1 .. Len(fromClient), FillBuffer(n)
  PROVE  SocksInv'
<1>1. /\ rdBuf \in Seq(MessagePart) /\ fromClient \in Seq(MessagePart) /\ Len(fromClient) \in Nat
      /\ rdBuf' = rdBuf \o SubSeq(fromClient, 1, n)
      /\ fromClient' = SubSeq(fromClient, n + 1, Len(fromClient))
      /\ socksAt \in {"method", "auth", "command"}
      /\ UNCHANGED <<script, lockstep, offered, sentArgs, argStr, socksAt, answers, parsedArgs, excused>>
  BY LenProperties DEF SocksInv, SocksTypeOK, FillBuffer, InHandshake
<1>2. /\ rdBuf' \in Seq(MessagePart) /\ fromClient' \in Seq(MessagePart)
      /\ Len(rdBuf') + Len(fromClient') = Len(rdBuf) + Len(fromClient)
      /\ EndsWithPayload(rdBuf, fromClient) => EndsWithPayload(rdBuf', fromClient')
      /\ ErrorsIn(rdBuf') \/ ErrorsIn(fromClient') => ErrorsIn(rdBuf) \/ ErrorsIn(fromClient)
  BY <1>1, PayloadRead, Zenon
<1>3. offered # "unknown"
  <2>1. fromClient # <<>>
    BY <1>1, NoErrors
  <2> QED
    BY <2>1 DEF SocksInv, BeforeConnection
<1>4. SentCount' = SentCount /\ DoneCount' = DoneCount
  BY <1>1 DEF SentCount, DoneCount, MsgCount
<1>5. SocksTypeOK' /\ BeforeConnection'
  BY <1>1, <1>2, <1>3 DEF SocksInv, SocksTypeOK, BeforeConnection
<1>6. PartsAccounted'
  BY <1>1, <1>2, <1>4 DEF SocksInv, PartsAccounted
<1>7. ArgsAccounted' /\ Excuses'
  BY <1>1, <1>4 DEF SocksInv, ArgsAccounted, Excuses, LockstepNeverRefused
<1> QED
  BY <1>5, <1>6, <1>7 DEF SocksInv

\* Whatever refuses the client, if there is an excuse.
LEMMA RefusingKeeps ==
  ASSUME SocksInv, socksAt' = "refused", excused' = TRUE, SocksTypeOK',
         UNCHANGED <<script, lockstep, offered, sentArgs, parsedArgs>>,
         answers' >= answers,
         offered = "unknown" => UNCHANGED <<rdBuf, fromClient, answers>>
  PROVE  SocksInv'
<1>1. SentCount' = SentCount
  BY DEF SentCount, MsgCount
<1>2. BeforeConnection' /\ PartsAccounted' /\ ArgsAccounted'
  BY DEF SocksInv, BeforeConnection, PartsAccounted, ArgsAccounted
<1>3. Excuses'
  <2>1. lockstep /\ offered # "unknown" => SentCount <= answers' + 1
    <3>1. offered # "unknown" => SentCount \in Int
      <4>1. Len(script) \in Nat
        BY ScriptShrinks DEF SocksInv, SocksTypeOK
      <4> QED
        BY <4>1 DEF SentCount, MsgCount
    <3>2. answers \in Int /\ answers' \in Int
      BY DEF SocksInv, SocksTypeOK
    <3> QED
      BY <3>1, <3>2 DEF SocksInv, Excuses
  <2> QED
    BY <1>1, <2>1 DEF Excuses, LockstepNeverRefused
<1> QED
  BY <1>2, <1>3 DEF SocksInv

\* An error in the buffer is an excuse.
LEMMA BadPartIsError ==
  ASSUME SocksTypeOK, BadPart
  PROVE  ErrorsIn(rdBuf)
<1>1. PICK i \in DOMAIN rdBuf : rdBuf[i].bad
  BY DEF BadPart
<1>2. i \in 1 .. Len(rdBuf) /\ rdBuf[i] \in MessagePart
  BY <1>1, LenProperties, ElementOfSeq DEF SocksTypeOK
<1>3. rdBuf[i].bad = TRUE
  <2>1. rdBuf[i].bad \in BOOLEAN
    BY <1>2 DEF MessagePart
  <2> QED
    BY <1>1, <2>1, Zenon
<1> QED
  BY <1>2, <1>3, Zenon DEF ErrorsIn

LEMMA BadMessageKeeps ==
  ASSUME SocksInv, RefuseBadMessage
  PROVE  SocksInv'
<1>1. /\ socksAt \in {"method", "auth", "command"} /\ BadPart /\ socksAt' = "refused"
      /\ UNCHANGED <<script, lockstep, offered, sentArgs, argStr, fromClient, rdBuf, answers, parsedArgs, excused>>
  BY DEF RefuseBadMessage, InHandshake
<1>2. ErrorsIn(rdBuf)
  BY <1>1, BadPartIsError DEF SocksInv
<1>3. excused = TRUE
  BY <1>1, <1>2 DEF SocksInv, SocksTypeOK, PartsAccounted
<1>4. SocksTypeOK' /\ answers' >= answers
  BY <1>1 DEF SocksInv, SocksTypeOK, Places
<1> QED
  BY <1>1, <1>3, <1>4, RefusingKeeps

LEMMA FailingKeeps ==
  ASSUME SocksInv, SocksFails
  PROVE  SocksInv'
<1>1. /\ socksAt' = "refused" /\ excused' = TRUE
      /\ UNCHANGED <<script, lockstep, offered, sentArgs, argStr, fromClient, rdBuf, answers, parsedArgs>>
  BY DEF SocksFails
<1>2. SocksTypeOK' /\ answers' >= answers
  BY <1>1 DEF SocksInv, SocksTypeOK, Places
<1> QED
  BY <1>1, <1>2, RefusingKeeps

LEMMA NegotiatingKeeps ==
  ASSUME SocksInv, NegotiateAuth
  PROVE  SocksInv'
<1>1. /\ socksAt = "method" /\ InHandshake /\ Len(rdBuf) >= 2
      /\ UNCHANGED <<script, lockstep, offered, sentArgs, argStr, fromClient, parsedArgs, excused>>
  BY DEF NegotiateAuth, InHandshake
<1>2. offered \in Methods /\ offered # "unknown"
  BY <1>1, MessageThere DEF SocksInv, SocksTypeOK
<1>3. CASE offered = "password"
  <2>1. FlushBuffers("auth")
    BY <1>3 DEF NegotiateAuth
  <2>2. /\ SocksTypeOK' /\ BeforeConnection' /\ PartsAccounted' /\ Excuses'
        /\ socksAt' \in {"auth", "refused"} /\ SentCount' = SentCount
    BY <1>1, <1>3, <2>1, MessageHandled
  <2>3. ArgsAccounted'
    BY <1>1, <2>2 DEF SocksInv, ArgsAccounted
  <2> QED
    BY <2>2, <2>3 DEF SocksInv
<1>4. CASE offered = "none"
  <2>1. FlushBuffers("command")
    BY <1>4 DEF NegotiateAuth
  <2>2. /\ SocksTypeOK' /\ BeforeConnection' /\ PartsAccounted' /\ Excuses'
        /\ socksAt' \in {"command", "refused"} /\ SentCount' = SentCount
    BY <1>1, <1>4, <2>1, MessageHandled
  <2>3. ArgsAccounted'
    BY <1>1, <1>4, <2>2 DEF SocksInv, ArgsAccounted
  <2> QED
    BY <2>2, <2>3 DEF SocksInv
<1>5. CASE offered = "other"
  <2>1. FlushBuffers("refused")
    BY <1>5 DEF NegotiateAuth
  <2>2. socksAt' = "refused" /\ answers' = answers + 1 /\ rdBuf' = SubSeq(rdBuf, 3, Len(rdBuf))
    BY <2>1 DEF FlushBuffers, AfterFlush
  <2>3. excused' = TRUE
    BY <1>1, <1>5 DEF SocksInv, SocksTypeOK, Excuses
  <2>4. rdBuf' \in Seq(MessagePart)
    BY <1>1, <2>2, MessageTaken DEF SocksInv, SocksTypeOK
  <2>5. answers \in Int /\ answers' >= answers
    BY <2>2 DEF SocksInv, SocksTypeOK
  <2>6. SocksTypeOK'
    BY <1>1, <2>2, <2>4, <2>5 DEF SocksInv, SocksTypeOK, Places
  <2> QED
    BY <1>1, <1>5, <2>2, <2>3, <2>5, <2>6, RefusingKeeps
<1> QED
  BY <1>2, <1>3, <1>4, <1>5 DEF Methods

LEMMA AuthenticatingKeeps ==
  ASSUME SocksInv, Authenticate
  PROVE  SocksInv'
<1> DEFINE args == ParseClientParameters(argStr)
<1>1. /\ socksAt = "auth" /\ InHandshake /\ Len(rdBuf) >= 2
      /\ UNCHANGED <<script, lockstep, offered, sentArgs, fromClient, excused>>
  BY DEF Authenticate, InHandshake
<1>2. /\ offered = "password" /\ SentCount >= 2
  <2>1. SentCount >= DoneCount + 1 /\ DoneCount = 1 /\ SentCount \in Int
    BY <1>1, MessageThere DEF DoneCount
  <2> QED
    BY <1>1, <2>1 DEF SocksInv, PartsAccounted
<1>3. IF args = NotArgs
      THEN socksAt' = "refused" /\ UNCHANGED <<rdBuf, answers, parsedArgs>>
      ELSE FlushBuffers("command") /\ parsedArgs' = args
  BY DEF Authenticate
<1>4. \/ args = sentArgs /\ args # NotArgs
      \/ args = NotArgs /\ excused
  <2>1. \/ sentArgs \in ArgLists /\ argStr = Encode(sentArgs)
        \/ excused /\ argStr \in Malformed
    BY <1>1, <1>2 DEF SocksInv, ArgsAccounted
  <2> HIDE DEF SocksInv
  <2>2. CASE sentArgs \in ArgLists /\ argStr = Encode(sentArgs)
    <3>1. ParseClientParameters(Encode(sentArgs)) = sentArgs /\ sentArgs # NotArgs
      BY <2>2, ArgListsAreRead
    <3> QED
      BY <2>2, <3>1, Zenon
  <2>3. CASE excused /\ argStr \in Malformed
    BY <2>3, MalformedIsRefused
  <2> QED
    BY <2>1, <2>2, <2>3
<1> HIDE DEF args
<1>5. CASE args = NotArgs
  <2>1. socksAt' = "refused" /\ UNCHANGED <<rdBuf, answers, parsedArgs>> /\ excused
    BY <1>3, <1>4, <1>5
  <2>2. excused' = TRUE
    BY <1>1, <2>1 DEF SocksInv, SocksTypeOK
  <2>3. SocksTypeOK' /\ answers' >= answers
    BY <1>1, <2>1 DEF SocksInv, SocksTypeOK, Places
  <2> QED
    BY <1>1, <2>1, <2>2, <2>3, RefusingKeeps
<1>6. CASE args # NotArgs
  <2>1. FlushBuffers("command") /\ parsedArgs' = sentArgs
    BY <1>3, <1>4, <1>6
  <2>2. /\ SocksTypeOK' /\ BeforeConnection' /\ PartsAccounted' /\ Excuses'
        /\ socksAt' \in {"command", "refused"} /\ SentCount' = SentCount
    BY <1>1, <1>2, <2>1, MessageHandled
  <2>3. ArgsAccounted'
    <3>1. \/ sentArgs \in ArgLists /\ argStr = Encode(sentArgs)
          \/ excused /\ argStr \in Malformed
      BY <1>1, <1>2 DEF SocksInv, ArgsAccounted
    <3>2. sentArgs \in ArgLists
      BY <1>6, <3>1, MalformedIsRefused DEF args
    <3> QED
      BY <1>1, <1>2, <2>1, <2>2, <3>2 DEF ArgsAccounted
  <2> QED
    BY <2>2, <2>3 DEF SocksInv
<1> QED
  BY <1>5, <1>6

LEMMA CommandKeeps ==
  ASSUME SocksInv, ReadCommand
  PROVE  SocksInv'
<1>1. /\ socksAt = "command" /\ InHandshake /\ Len(rdBuf) >= 2 /\ FlushBuffers("dial")
      /\ UNCHANGED <<script, lockstep, offered, sentArgs, argStr, fromClient, parsedArgs, excused>>
  BY DEF ReadCommand, InHandshake
<1>2. /\ SocksTypeOK' /\ BeforeConnection' /\ PartsAccounted' /\ Excuses'
      /\ socksAt' \in {"dial", "refused"} /\ SentCount' = SentCount
  BY <1>1, MessageHandled
<1>3. ArgsAccounted'
  BY <1>1, <1>2 DEF SocksInv, ArgsAccounted
<1> QED
  BY <1>2, <1>3 DEF SocksInv

LEMMA DialingKeeps ==
  ASSUME SocksInv, DialSucceeds
  PROVE  SocksInv'
<1>1. /\ socksAt = "dial" /\ rdBuf = <<>> /\ answers' = answers + 1 /\ socksAt' = "relay"
      /\ UNCHANGED <<script, lockstep, offered, sentArgs, argStr, fromClient, rdBuf, parsedArgs, excused>>
  BY DEF SocksInv, PartsAccounted, DialSucceeds, AfterFlush
<1>2. SentCount' = SentCount /\ DoneCount' = DoneCount /\ DoneCount \in Int /\ offered # "unknown"
  BY <1>1 DEF SocksInv, BeforeConnection, SentCount, DoneCount, MsgCount
<1>3. answers \in Int /\ answers = DoneCount - 1
  BY <1>1 DEF SocksInv, SocksTypeOK, PartsAccounted
<1>4. SocksTypeOK' /\ BeforeConnection'
  BY <1>1, <1>2, <1>3 DEF SocksInv, SocksTypeOK, BeforeConnection, Places
<1>5. PartsAccounted'
  BY <1>1, <1>2, <1>3 DEF SocksInv, PartsAccounted
<1>6. ArgsAccounted'
  BY <1>1, <1>2 DEF SocksInv, ArgsAccounted
<1>7. Excuses'
  <2>1. lockstep => SentCount' <= answers' + 1
    <3>1. SentCount \in Int
      <4>1. Len(script) \in Nat
        BY ScriptShrinks DEF SocksInv, SocksTypeOK
      <4> QED
        BY <4>1 DEF SentCount, MsgCount
    <3>2. lockstep => SentCount <= answers + 1
      BY <1>2 DEF SocksInv, Excuses
    <3> QED
      BY <1>1, <1>2, <1>3, <3>1, <3>2
  <2> QED
    BY <1>1, <2>1 DEF SocksInv, Excuses, LockstepNeverRefused
<1> QED
  BY <1>4, <1>5, <1>6, <1>7 DEF SocksInv

LEMMA SocksInvNext ==
  ASSUME SocksInv, [SocksNext]_socksVars
  PROVE  SocksInv'
<1>1. CASE \E method \in {"password", "none", "other"}, inStep \in BOOLEAN : ClientConnects(method, inStep)
  BY <1>1, ConnectingKeeps, Zenon
<1>2. CASE \E bad \in 0 .. 2 :
             \/ \E args \in ArgLists : ClientSends(bad, args, Encode(args))
             \/ ClientSends(bad, <<>>, <<>>)
  BY <1>2, SendingKeeps, Zenon
<1>3. CASE \E str \in Malformed : ClientSends(0, NotArgs, str)
  <2>1. 0 \in 0 .. 2
    OBVIOUS
  <2> QED
    BY <1>3, <2>1, SendingKeeps, Zenon
<1>4. CASE \E n \in 1 .. Len(fromClient) : FillBuffer(n)
  BY <1>4, FillingKeeps, Zenon
<1>5. CASE RefuseBadMessage
  BY <1>5, BadMessageKeeps
<1>6. CASE NegotiateAuth
  BY <1>6, NegotiatingKeeps
<1>7. CASE Authenticate
  BY <1>7, AuthenticatingKeeps
<1>8. CASE ReadCommand
  BY <1>8, CommandKeeps
<1>9. CASE SocksFails
  BY <1>9, FailingKeeps
<1>10. CASE DialSucceeds
  BY <1>10, DialingKeeps
<1>11. CASE UNCHANGED socksVars
  BY <1>11 DEF socksVars, SocksInv, SocksTypeOK, BeforeConnection, PartsAccounted, ArgsAccounted,
       Excuses, LockstepNeverRefused, SentCount, DoneCount, MsgCount
<1> QED
  BY <1>1, <1>2, <1>3, <1>4, <1>5, <1>6, <1>7, <1>8, <1>9, <1>10, <1>11, Zenon DEF SocksNext

LEMMA SocksAlwaysInv ==
  SocksSpec => []SocksInv
BY SocksInvInit, SocksInvNext, PTL DEF SocksSpec

\* A client that waits for every answer and sends what is right is not refused
\* unless something outside has failed.
THEOREM LockstepIsNeverRefused ==
  SocksSpec => []LockstepNeverRefused
<1>1. SocksInv => LockstepNeverRefused
  BY DEF SocksInv, Excuses
<1> QED
  BY <1>1, SocksAlwaysInv, PTL

LEMMA InvRelaysCleanly ==
  ASSUME SocksInv
  PROVE  SocksRelaysCleanly
<1>1. SUFFICES ASSUME socksAt = "relay"
               PROVE  /\ parsedArgs = sentArgs /\ rdBuf = <<>>
                      /\ fromClient = IF script = <<>> THEN Parts("payload", 0) ELSE <<>>
  BY DEF SocksRelaysCleanly
<1>2. parsedArgs = sentArgs /\ rdBuf = <<>> /\ offered # "unknown"
  BY <1>1 DEF SocksInv, PartsAccounted, ArgsAccounted, BeforeConnection
<1>3. /\ fromClient \in Seq(MessagePart) /\ Len(fromClient) \in Nat /\ Len(script) \in Nat
      /\ script = <<>> <=> Len(script) = 0
  BY ScriptShrinks, LenProperties DEF SocksInv, SocksTypeOK
<1>4. Len(fromClient) = 2 * (1 - Len(script))
  <2>1. Len(rdBuf) + Len(fromClient) = 2 * (SentCount - DoneCount)
    BY <1>1 DEF SocksInv, PartsAccounted
  <2>2. SentCount = MsgCount - Len(script) /\ DoneCount = MsgCount - 1 /\ MsgCount \in {3, 4}
    BY <1>1, <1>2 DEF SentCount, DoneCount, MsgCount
  <2>3. Len(rdBuf) = 0
    BY <1>2, NoErrors
  <2> QED
    BY <1>3, <2>1, <2>2, <2>3
<1>5. CASE script = <<>>
  <2>1. Len(fromClient) = 2 /\ EndsWithPayload(<<>>, fromClient)
    BY <1>1, <1>2, <1>3, <1>4, <1>5 DEF SocksInv, PartsAccounted
  <2> QED
    BY <1>2, <1>3, <1>5, <2>1, OnlyPayloadLeft DEF Payload
<1>6. CASE script # <<>>
  <2>1. Len(fromClient) = 0
    BY <1>3, <1>4, <1>6
  <2> QED
    BY <1>2, <1>3, <1>6, <2>1, EmptySeq
<1> QED
  BY <1>5, <1>6

\* When the relay starts, the transport was dialled with the client's arguments,
\* and nothing of what it wants relayed is in the buffer of the handshake.
THEOREM SocksAlwaysRelaysCleanly ==
  SocksSpec => []SocksRelaysCleanly
BY InvRelaysCleanly, SocksAlwaysInv, PTL
=============================================================================
