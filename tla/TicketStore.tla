----------------------------- MODULE TicketStore -----------------------------
(***************************************************************************)
(* The session tickets of scramblesuit's client: a map behind a lock, a    *)
(* copy of it on disk that is rewritten in place with the lock held, the   *)
(* dials that take a ticket out and the connections that put one in.  The  *)
(* process may die at any step and be started again.                       *)
(***************************************************************************)
EXTENDS Integers, FiniteSets

CONSTANTS
  Tickets,      \* what bridges can issue
  NoTicket,     \* not one of them
  Bridges,
  Dials,        \* goroutines of the client
  ProxyAddr     \* the address of an upstream proxy, not a bridge

ASSUME TicketAssumption == NoTicket \notin Tickets /\ ProxyAddr \notin Bridges

VARIABLES
  proxied,    \* connections go through an upstream proxy
  running,    \* the client process is
  store,      \* the map, by remote address
  diskIs,     \* "absent", "torn" or "whole": the file
  disk,       \* the map it holds when whole
  dial,       \* per dial: where it is, its bridge and its ticket
  expired,    \* tickets past their life time
  issuedBy,   \* history: the bridge that issued each ticket
  presented   \* history: the tickets sent, each with the bridge it was sent to

ticketVars == <<proxied, running, store, diskIs, disk, dial, expired, issuedBy, presented>>

Addrs == Bridges \cup {ProxyAddr}

EmptyMap == [a \in Addrs |-> NoTicket]

Idle == [at |-> "idle", to |-> ProxyAddr, ticket |-> NoTicket]

\* Steps at which a dial holds the lock of the store.
Locked == {"taken", "taking", "stored", "storing"}

TicketInit ==
  /\ proxied \in BOOLEAN
  /\ running = FALSE
  /\ store = EmptyMap
  /\ diskIs = "absent" /\ disk = EmptyMap
  /\ dial = [d \in Dials |-> Idle]
  /\ expired = {}
  /\ issuedBy = [t \in Tickets |-> ProxyAddr]
  /\ presented = [t \in Tickets |-> [b \in Bridges |-> 0]]

\* conn.RemoteAddr(), which is the proxy's when there is one.
RemoteAddr(b) == IF proxied THEN ProxyAddr ELSE b

Unlocked == \A d \in Dials : dial[d].at \notin Locked

\* loadTicketStore.  No file is fine, a file that does not parse is not, and
\* the transport is not offered then.
LoadTicketStore ==
  /\ ~running
  /\ diskIs # "torn"
  /\ running' = TRUE
  /\ store' = [a \in Addrs |-> IF diskIs = "whole" /\ disk[a] \notin expired THEN disk[a] ELSE NoTicket]
  /\ UNCHANGED <<proxied, diskIs, disk, dial, expired, issuedBy, presented>>

DialBridge(d, b) ==
  /\ running /\ dial[d].at = "idle"
  /\ dial' = [dial EXCEPT ![d] = [at |-> "dialled", to |-> b, ticket |-> NoTicket]]
  /\ UNCHANGED <<proxied, running, store, diskIs, disk, expired, issuedBy, presented>>

\* getTicket, up to the removal from the map.  Without a ticket the handshake
\* is by UniformDH and needs nothing from the store.
GetTicket(d) ==
  /\ dial[d].at = "dialled" /\ Unlocked
  /\ LET a == RemoteAddr(dial[d].to) IN
     IF store[a] = NoTicket
     THEN dial' = [dial EXCEPT ![d].at = "open"] /\ UNCHANGED store
     ELSE dial' = [dial EXCEPT ![d].at = "taken", ![d].ticket = store[a]]
          /\ store' = [store EXCEPT ![a] = NoTicket]
  /\ UNCHANGED <<proxied, running, diskIs, disk, expired, issuedBy, presented>>

\* serialize: the file is truncated, then filled with the map.
SerializeTruncate(d) ==
  /\ dial[d].at \in {"taken", "stored"}
  /\ dial' = [dial EXCEPT ![d].at = IF @ = "taken" THEN "taking" ELSE "storing"]
  /\ diskIs' = "torn" /\ disk' = EmptyMap
  /\ UNCHANGED <<proxied, running, store, expired, issuedBy, presented>>

\* What getTicket returns after the file was written: an expired ticket is
\* dropped, and the handshake is by UniformDH.
AfterTaking(t) == IF t \in expired THEN "open" ELSE "send"

SerializeFill(d) ==
  /\ dial[d].at \in {"taking", "storing"}
  /\ dial' = [dial EXCEPT ![d].at = IF @ = "taking" THEN AfterTaking(dial[d].ticket) ELSE "open"]
  /\ diskIs' = "whole" /\ disk' = store
  /\ UNCHANGED <<proxied, running, store, expired, issuedBy, presented>>

\* Mutant: a ticket is used although its removal was not saved.
SerializeFailsUnnoticed(d) ==
  /\ dial[d].at \in Locked
  /\ dial' = [dial EXCEPT ![d].at = IF @ \in {"taken", "taking"} THEN AfterTaking(dial[d].ticket) ELSE "open"]
  /\ UNCHANGED <<proxied, running, store, diskIs, disk, expired, issuedBy, presented>>

\* The file cannot be opened or written.  getTicket returns the error and the
\* dial fails; storeTicket does not look at it.
SerializeFails(d) ==
  /\ dial[d].at \in Locked
  /\ dial' = [dial EXCEPT ![d] = IF @.at \in {"taken", "taking"} THEN Idle ELSE [@ EXCEPT !.at = "open"]]
  /\ UNCHANGED <<proxied, running, store, diskIs, disk, expired, issuedBy, presented>>

\* The ticket goes to the network, whole or in part, or the handshake turns to
\* UniformDH because no keys or no padding could be made.
PresentTicket(d) ==
  /\ dial[d].at = "send"
  /\ \/ presented' = [presented EXCEPT ![dial[d].ticket][dial[d].to] = @ + 1]
     \/ UNCHANGED presented
  /\ \E at \in {"open", "idle"} :
       dial' = [dial EXCEPT ![d] = IF at = "idle" THEN Idle ELSE [@ EXCEPT !.at = "open"]]
  /\ UNCHANGED <<proxied, running, store, diskIs, disk, expired, issuedBy>>

\* A new ticket from the bridge (which issues none twice): storeTicket, up to
\* the insertion into the map.
StoreTicket(d, t) ==
  /\ dial[d].at = "open" /\ Unlocked
  /\ issuedBy[t] = ProxyAddr
  /\ issuedBy' = [issuedBy EXCEPT ![t] = dial[d].to]
  /\ store' = [store EXCEPT ![RemoteAddr(dial[d].to)] = t]
  /\ dial' = [dial EXCEPT ![d].at = "stored"]
  /\ UNCHANGED <<proxied, running, diskIs, disk, expired, presented>>

HangUp(d) ==
  /\ dial[d].at = "open"
  /\ dial' = [dial EXCEPT ![d] = Idle]
  /\ UNCHANGED <<proxied, running, store, diskIs, disk, expired, issuedBy, presented>>

\* A week passes for a ticket: isValid no longer holds.
Expire(t) ==
  /\ issuedBy[t] # ProxyAddr
  /\ expired' = expired \cup {t}
  /\ UNCHANGED <<proxied, running, store, diskIs, disk, dial, issuedBy, presented>>

\* The process dies; what is on disk stays as it is.
DieWithTickets ==
  /\ running
  /\ running' = FALSE
  /\ store' = EmptyMap
  /\ dial' = [d \in Dials |-> Idle]
  /\ UNCHANGED <<proxied, diskIs, disk, expired, issuedBy, presented>>

TicketNext ==
  \/ LoadTicketStore \/ DieWithTickets
  \/ \E d \in Dials :
       \/ \E b \in Bridges : DialBridge(d, b)
       \/ \E t \in Tickets : StoreTicket(d, t)
       \/ GetTicket(d) \/ SerializeTruncate(d) \/ SerializeFill(d) \/ SerializeFails(d)
       \/ PresentTicket(d) \/ HangUp(d)
  \/ \E t \in Tickets : Expire(t)

TicketSpec == TicketInit /\ [][TicketNext]_ticketVars

-----------------------------------------------------------------------------
Presentations(t) == {b \in Bridges : presented[t][b] > 0}

\* "Tickets are one use only": none is presented twice, by two dials or after a
\* restart, whatever the disk did; and, unless a proxy stands between, only the
\* bridge that issued a ticket gets to see it.
TicketUsedOnce ==
  \A t \in Tickets :
    /\ Cardinality(Presentations(t)) <= 1
    /\ \A b \in Presentations(t) : presented[t][b] = 1 /\ (~proxied => b = issuedBy[t])
=============================================================================
