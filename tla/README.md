# Models of the tor proxy toolkit

TLA+ models of the concurrent and stateful parts of this repository, the TLC
instances that check them, and TLAPS proofs of the main safety properties. Paths
below are relative to the root of the repository; `obfs4/` stands for
`src/obfs4/`.

## The system

The repository is a toolkit that runs tor behind pluggable transports. Shell
and Python scripts start and watch a tor process; tor starts **lyrebird**
(`obfs4/`, in Go), which carries tor's connections over one of several
transports. The state worth modelling is in lyrebird.

    application -> tor -> [SOCKS5] lyrebird client == transport == lyrebird server -> tor bridge

| component | source | state | operations | modules |
|---|---|---|---|---|
| replay filter | `common/replayfilter` | map of digests, list of entries by age, lock | `New`, `TestAndSet` (compaction, eviction, reset) | `ReplayFilter`, `FilterQueries`, `ReplayGuard` |
| obfs4 server handshake | `transports/obfs4/handshake_ntor.go`, `obfs4.go` | per connection: receive buffer, mark, MAC found; shared: filter, close delay | `WrapConn`, `serverHandshake`, `parseClientHandshake`, `closeAfterDelay` | `Obfs4ServerHandshake`, `HandshakeBytes` |
| obfs4 framing | `transports/obfs4/framing`, `common/drbg` | nonce counter, DRBG block, length and nonce of the next frame | `Encode`, `Decode` | `Framing`, `AuthenticatedStream` |
| obfs4 connection | `transports/obfs4/obfs4.go`, `packet.go` | receive buffer, decoded buffer, encoder, decoder, length distribution, deadline | both handshakes, `readPackets`, `Read`, `Write`, `Close` | `Obfs4Conn` |
| obfs4 write path | `transports/obfs4/obfs4.go`, `packet.go` | the burst and its length | chopping, `padBurst`, `makePacket`, the three IAT modes | `Obfs4Write` |
| lyrebird process | `cmd/lyrebird/lyrebird.go`, `termmon*.go` | handler count, listeners, relays, the monitor's goroutine | `main`, `wait`, accept loops, handlers, `copyLoop` | `Lyrebird` |
| meek_lite connection | `transports/meeklite/meek.go`, `frontlist.go` | two bounded channels, gathered and left-over data, index of the front | `Read`, `Write`, `Close`, `ioWorker`, `roundTrip` | `MeekConn` |
| meek_lite HTTP transport | `transports/meeklite/transport.go` | one HTTP transport per connection, a connection to hand over | `RoundTrip`, `dialTLS` | not modelled |
| obfs4 state file | `transports/obfs4/statefile.go` | the bridge's identity on disk, the bridge line | load, generate, rewrite | `StateFile` |
| SOCKS5 server | `common/socks5` | one request, its arguments, a deadline | `Handshake`, `Reply`, `parseClientParameters` | `SocksServer` |
| scramblesuit | `transports/scramblesuit` | session tickets on disk, packet state | handshakes, `readPackets`, `padBurst`, ticket store | `Scramblesuit`, `ScramblesuitWrite`, `TicketStore` |
| obfs3, obfs2 | `transports/obfs3`, `transports/obfs2` | ciphers, the magic value expected | handshake, search for the magic, `Read`, `Write` | `Obfs23` |
| webtunnel | `transports/webtunnel` | shared position in a list of server names | `dial`, `GetGenerator`, `Reroll...` | `ServerNames` |
| snowflake adapter | `transports/snowflake` | configuration | `ParseArgs`, `Dial` | not modelled |
| probability distributions | `common/probdist` | weights, alias tables, lock | `Reset`, `Sample` | `ProbDist` |
| upstream proxies | `cmd/lyrebird/proxy_*.go` | one exchange, the HTTP client's buffer | `Dial`, `Read` | `UpstreamProxy` |
| cryptography | `common/ntor`, `uniformdh`, `csrand` | keys | pure computations | abstracted |
| tor managers | `tor-start.sh`, `tor-proxy.sh`, `tor-proxy.py`, ... | pid file, log, cached descriptors | start, stop, watchdog, restart | not modelled |
| bridge tools, installers | `tor-bridge.sh`, `bridge-finder.py`, `setup.sh`, ... | bridge lists, torrc | fetch, test, select, install | not modelled |

How they interact:

- A lyrebird handler is a goroutine. It calls a transport's `Dial` or `WrapConn`
  and relays with `copyLoop`, which calls `Read` and `Write` of the transport's
  connection from two goroutines.
- All server handlers of obfs4 share the factory's replay filter, behind its lock.
- `Obfs4Conn` uses `Framing` through `makePacket` and `readPackets`; what
  `Framing` shows (whole frames, in order) is what lets `Obfs4Conn` take a frame
  as one item.
- Handlers, `package signal` and the watcher of tor talk to `main` over two
  unbuffered channels.
- The SOCKS server of a handler hands arguments and target to the transport's
  `Dial`, which goes through an upstream proxy's dialer when there is one; the relay
  then reads the connections the two have read from. Nothing may stay in either's
  buffer.
- All dials of scramblesuit share the ticket store and its file, all dials of
  webtunnel the generators of server names.
- obfs4 and scramblesuit draw the lengths of their bursts from `probdist`.
- A meek connection's user and its worker talk over two buffered channels and one
  that is closed as a signal.

What is hard: the clock is read before a lock is taken; a MAC is compared three
times while the hour may change; streams are cut at any byte and the handshake
shares a buffer with the data that follows; counters wrap; signals are lost when
nobody listens; bounded channels fill; requests are retried without sequence
numbers; the end of one direction has to end the other; files that must not be
lost are rewritten in place; a bridge that speaks first is heard through the buffer
of somebody else.

## The modules

**ReplayFilter** has the two data structures and `TestAndSet`, which holds the
lock throughout and is therefore one step. `compactFilter`'s walk is
`Purged(t)`, the number of entries removed when it stops; `TimeWentBack(t)` is
the branch that calls `reset`. **FilterQueries** adds callers that bring any
time, because a caller reads the clock before it takes the lock; `orderly`
records whether the times have been in order so far. **ReplayGuard** is the
promise: an answer is exact for `TTL`, but for one digest forgotten early at
capacity.

**Obfs4ServerHandshake** extends ReplayFilter with goroutines. One action per
step between which another goroutine can run or the clock can tick: each of the
three comparisons of the MAC (`CompareMac`), the evaluation of `time.Now()`
(`ReadClock`), the call under the lock (`CheckReplay`), and the rest of the parse
(`FinishParse`). A request is a model value with the hour its MAC covers; slots
are reused when a connection closes. `schedule` is a history variable with three
values: *steady* (no tick during a parse), *orderly* (ticks, but the lock is taken
in the order of the stamps), *overtaken*.

**HandshakeBytes** is the same handshake seen from its bytes, for one honest client and
one honest server: the paddings' ranges, `findMarkMac` at the tail and as a search, the
minimum and maximum lengths, and the hour that both MACs cover. A buffer is its length
and the mark is a position, with the numbers of the code.

**Framing** is one direction of a connection: `Encode` gives a frame a nonce and
a mask block; the stream is a sequence of units that a read cuts anywhere;
`DecodeLength` and `DecodeBox` are the two halves of `Decode`, between which it
may return `ErrAgain`. `Tamper` replaces, drops and replays. A length that was
not masked with the decoder's block unmasks to any number, and to a random valid
one with `nextLengthInvalid` if that is out of range. **AuthenticatedStream** is
the promise.

**Obfs4Conn** is a pair of honest ends. `Receive` is a read of any number of items
by whichever loop is reading: the two handshake loops or `readPackets`. The
handshake messages have two halves, so a read can end inside one; a read can also
take the response together with what follows.

**Obfs4Write** has a buffer's length for a buffer and a set of values for a
distribution. `Chop`, `Pad`, `Flush` and `FlushParanoid` are the phases of
`Write`; both panics of the code are values of `pc`.

**Lyrebird** has the process. A send on an unbuffered channel and the `select`
that receives it are one step, possible only while `main` is in `wait`;
`Deliver`, for `package signal`, is possible always and does nothing otherwise.
`Count` puts `main` between the message and the next turn of the loop (`WaitAgain`),
where a signal is lost. `monitor` is the way the process found to notice tor's
death.

**MeekConn** has the user's calls, the worker's loop and the exchange over HTTP.
`EnqueueWrite` and `EnqueueRead` are the two sends that can wait. `TripFails`
includes the answer lost after the server has had the body; `RequestFails` is the
exit of `roundTrip` for a front that forms no URL, which tries no other front. The
server that sees a body twice is not in the repository: `upstream` leaves repeats out.

**StateFile** has the two files of an obfs4 bridge. A write is a truncation and a
fill; it can fail, and the process can die, before, between and after. A start is one
of three (`StartGiven`, `StartNew`, `StartFromFile`), followed by the check of the
iat-mode, the bridge line and the state.

**TicketStore** has the map, the file, and one record per dial. `GetTicket` and
`StoreTicket` are the changes of the map, after which the dial holds the lock until
`SerializeFill` or `SerializeFails`. A ticket remembers who issued it and a history
counts who was shown it. Tickets are kept by `RemoteAddr`, which is the proxy's
address when there is one; that one bridge's ticket can be shown to another then
is the code's behaviour, and the property has the exception.

**Scramblesuit** is the client against an honest server. `ParseServerHandshake` has
the same positions and comparisons as the code, in units of which a key is one and a
mark and a MAC are two each. `Process` is the loop of `readPackets` over MAC, header
and rest. **ScramblesuitWrite** has the lengths of `Write` and `padBurst`, with the
numbers of the code.

**Obfs23** is both ends of an obfs2 or obfs3 connection. A data unit carries the key
and position of the stream that sealed it and opens under no other, so a byte that is
skipped, or a stream that is swapped, shows as garbage.

**SocksServer** has a client that may wait for answers or not, send a bad part, or
arguments that do not parse. The buffer takes any number of parts that have come.
`ParseClientParameters` runs over the four kinds of character it tells apart.

**UpstreamProxy** has the answer of a proxy and what the bridge sends behind it; the
HTTP client reads ahead into `staleReader`, the SOCKS4a dialer reads exactly.

**ServerNames** has a position per value of the `servername` argument, and dials
for which reading the name and moving the position are two steps with the whole dial
in between. A value without any name makes the code panic in `Intn(0)`
(`servername_generator.go:22`) if it is only space; the model has that end too, after
which no dial goes on.

**ProbDist** builds the alias tables one turn of a loop at a time and counts
probability in whole parts, so that the shares of the values can be compared exactly.

The last nine, `Obfs4Write` and `HandshakeBytes` share no state with one another. **MCParts** is their sum: a
behaviour picks one of them and runs it while the others stay as they began, so that
one run checks all at the cost of their state spaces added up, not multiplied.

`MCFilterQueries`, `MCObfs4ServerHandshake` and `MCParts` give instances
their sets and symmetry; the other modules are instantiated by their configuration
alone. The proofs are in `FilterProofs`, whose lemmas `HandshakeProofs` uses too,
`FramingProofs`, `ConnProofs`, `MeekProofs`, `TransportProofs` (obfs2, obfs3, scramblesuit),
`LengthProofs` (obfs4 and scramblesuit lengths, the bytes of the handshake, the
distributions) and `ProcessProofs` (process, state file, tickets, proxies, server names).
Definitions
marked *Mutant* are plausible bugs of the definition that follows them, each of
which breaks a property of a run; no specification uses them.

## The runs

| run | what it checks | bounds | result |
|---|---|---|---|
| `MCFilter` | both structures agree; size; age of the front; order; reasons to forget; refinement of ReplayGuard | 4 digests, capacity 3, TTL 3, times 0..8 | holds |
| `MCHandshake` | which replays pass; which genuine requests are refused | 2 connections, 2 requests delivered twice, hours of 2 ticks, clock 2..8, client clocks off by an hour either way | holds |
| `MCFraming` | unique nonces; order; refinement of AuthenticatedStream; delivery | counters modulo 3, boxes of 1 and 2 units, 2 interventions | holds |
| `MCObfs4Conn` | conservation of data; end after all data; seed first; upstream delivery | 2 writes a side, up to 2 padding packets | holds |
| `MCParts` | files: identity and tickets survive crashes; streams: obfs2, obfs3, scramblesuit, SOCKS and proxies lose nothing; lengths: an honest obfs4 handshake completes, bursts end as sampled, draws as weighted; a working name is kept | below | holds |
| `MCLyrebird` | exact count; no handler locked out; exits | 2 connections, 2 signals | holds |
| `MCMeek` | conservation both ways; rotation of fronts; callers and worker end | backlog 2, bodies of 2, 4 tries, 4 fronts of which 2 are blocked and 1 forms no URL, 2 losses | holds |
| `MCObfs4ConnTrailing` | downstream delivery | 2 writes | **violated** |
| `MCScramblesuitSplit` | an honest response is accepted | padding up to 2, 1 packet | **violated** |
| `MCLyrebirdIdle` | exit when nothing is left | 1 connection, 1 signal | **violated** |
| `MCLyrebirdHalfClosed` | one end's close ends the relay | 1 connection | **violated** |
| `MCMeekStuck` | a close ends the worker although the user reads no more | backlog 1, bodies of 1 | **violated** |

Why the bounds are enough. *Filter*: capacity 3 with 4 digests reaches eviction,
expiry and their combination; times to 8 expire an entry twice over. *Handshake*:
three hours of two ticks each pass within the run, so a request can be accepted
at the first and at the last tick of its window and the filter's TTL ends
exactly there; two goroutines are what an overtaking needs. The capacity is
above the number of requests on purpose: eviction at capacity is the matter of
`MCFilter`, and a full filter does forget a request early. *Framing*: two frames
are needed for reordering and replay, two interventions for dropping one and
replaying another; the third Encode fails on the wrapped counter. *Conn*: two
writes tell loss from reordering. *Parts*: three identities let a bridge be given one,
make one and be given another; two dials, two bridges and two tickets are what
a race for a ticket and a mix-up need, across any number of restarts; two padding
units and two data units put the magic of obfs3 at every offset of the longest legal
padding, alone and with data behind it; two packets of every kind can be cut at every
place; the lengths of `Obfs4Write` and `ScramblesuitWrite` are those of the code, with
every sample there is and writes at the edges of a packet, and those of `HandshakeBytes`
too, with paddings and reads that end within a byte of every place the parsers look
at; three values with weights
to 4 let an index that has given become one that is given to; three names of
which one works, in lists with and without blanks, make two dials move one position;
arguments have every escaped character in keys and values; three bytes of a bridge
come before, with and behind the proxy's answer. *Lyrebird*: two handlers let one wait for the
channel while another uses it; two signals reach the second wait and end it.
*Meek*: chunks of three in bodies of two exercise gathering, cutting and
stashing together; the working front is second, so rotation has to pass a
blocked one, and two losses take it past another to the one that forms no URL.

`CHECK_DEADLOCK FALSE` stands where a system really stops: a connection that is
closed and drained, a process that has exited, an encoder out of nonces, a
panic.

Symmetry is used for safety only: in `MCFilter` and `MCHandshake`, whose digests
and connections are interchangeable. `ForgetsOnlyWithCause` and
`GuardedWhileOrderly` are action properties that name no digest.

### What the violated properties show

1. **Payload that trails the handshake response** (`DownstreamArrives`).
   `readPackets` reads the network before it decodes what is in the buffer
   (`packet.go:113`). Data that came with the response waits for the next data. tor
   hides it, because its client speaks first and is answered.
2. **A response cut inside its MAC** (`HonestResponseAccepted`). scramblesuit's
   client checks the length of what it has against a position that does not yet
   include the public key (`handshake_uniformdh.go:132`), so a response that comes in two
   reads, the first of which ends between its mark and the end of its MAC, is refused, or makes
   a slice go out of range.
3. **SIGINT with no connections** (`ExitsWhenIdle`). `wait` looks at the count
   only after a message (`termmon.go:69`).
4. **A relay whose one end hangs up** (`OneSideClosesOther`). `copyLoop` closes
   nothing until both directions have ended (`lyrebird.go:308`).
5. **A meek worker in a full channel** (`CloseTearsDown`). The send of
   `meek.go:355` does not look at the close. `MCMeek` shows the same property to
   hold for a user who reads to the end.

Three things the models show without a property of their own. In paranoid mode
`Obfs4Write` reaches `panic:iatLength` when a length of 0 is sampled
(`obfs4.go:550`), as the distribution begins at 0. scramblesuit's client, too, keeps packets
that came with the response until something else arrives (`conn.go:264`);
`ScramblesuitConserves` has that exception. And a scramblesuit burst whose padding
takes two packets ends one overhead, 21 bytes, short of its sample, because the
second packet's length takes off the first one's overhead again (`conn.go:487`);
`ScramblesuitPadding` states where bursts do end.

Properties that carry a condition because the code needs it: `AdmittedOnce` and
`ReplayMeansSecondDelivery` hold while the schedule is *steady*. Without that, a
request can be accepted again when an hour changes inside a parse, and a genuine one can be
refused as a replay of itself. `AdmittedTwiceApart` covers ticking clocks, but
not goroutines that overtake one another, where the filter takes an older stamp
for a clock that jumped back and forgets everything. `RunsOnWhatIsWritten` is about a bridge in
service: a crash between the bridge line and the state may leave the two with
different iat-modes until the next start. `SeedBeforePayload` is about the client,
the only end that is sent a seed. `ExitsAfterParent` is for the stdin
monitor; the single SIGTERM of `PR_SET_PDEATHSIG` can be lost. `LockstepNeverRefused` is
for SOCKS clients that wait for each answer, as tor does: one that sends ahead is
refused. `WorkingNameStays` takes it that a dial with a working name does not fail
at the HTTP upgrade; the code cannot tell a network that fails from a name that does.

### Fairness

Fairness is on the program's own steps, never on users, peers, signals or faults.

- *Framing*: the reader reads and decodes what arrives (weak); the network
  delivers what it does not change. TCP promises that, and the relay calls
  `Read` in a loop.
- *Obfs4Conn*: the same for both ends.
- *Lyrebird*: goroutines run (weak). Sends on unbuffered channels are strongly
  fair, because `main` leaves and re-enters the `select` and Go serves the senders
  that wait on a channel in order.
- *MeekConn*: the worker runs (weak), which includes that a `RoundTrip`
  returns in the end. The choice of the close in its `select` is strongly fair:
  the choice among ready cases is uniformly random, so a case that is ready
  again and again is taken. A waiting `Write` is strongly fair, as waiting senders are
  served in order. `FairReaderSpec` adds a user who reads all there is, as
  `copyLoop` does while its other end is open.

## The proofs

Each theorem is for every value of the constants that the named assumption of its module
allows; a run checks the same property on a small instance.

| module | theorems | of |
|---|---|---|
| `FilterProofs` | `TypeCorrect`, `MapAlwaysMatchesList`, `AlwaysBounded`, `FrontAlwaysFresh`, `AlwaysSorted`, `AlwaysForgetsWithCause`, `FilterImplementsGuard` | `FilterQueries` |
| `HandshakeProofs` | `HandshakeInvIsInvariant`, `ReplayAlwaysMeansSecondDelivery`, `AdmittedTwiceAlwaysApart`, `AdmittedAtMostOnce`, `FewRequestsNeverFill` | `Obfs4ServerHandshake` |
| `FramingProofs` | `TypeCorrect`, `NonceAlwaysUnique`, `AlwaysDeliveredInOrder`, `FramingImplementsStream` | `Framing` |
| `ConnProofs` | `ConnInvIsInvariant`, `PayloadAlwaysConserved`, `EndAlwaysAfterAllData`, `SeedAlwaysBeforePayload` | `Obfs4Conn` |
| `LengthProofs` | `HonestHandshakeAlwaysCompletes`, `BurstsAlwaysEndAsSampled`, `OvershootIsAlwaysWritten`, `ScramblesuitAlwaysPads`, `AlwaysDrawsAsWeighted` | `HandshakeBytes`, `Obfs4Write`, `ScramblesuitWrite`, `ProbDist` |
| `ProcessProofs` | `AlwaysCountsHandlers`, `AlwaysRunsOnWhatIsWritten`, `IdentityIsKept`, `TicketsAreUsedOnce`, `ProxyAlwaysConserves`, `WorkingNamesStay`, `LockstepIsNeverRefused`, `SocksAlwaysRelaysCleanly` | `Lyrebird`, `StateFile`, `TicketStore`, `UpstreamProxy`, `ServerNames`, `SocksServer` |
| `MeekProofs` | `UpstreamAlwaysConserved`, `DownstreamAlwaysConserved`, `WorkingFrontIsAlwaysFound` | `MeekConn` |
| `TransportProofs` | `LegacyAlwaysConserves`, `ScramblesuitAlwaysConserves` | `Obfs23`, `Scramblesuit` |

### The filter

For every set of digests and times, every capacity above zero and every TTL
(`FilterAssumption`):

- The inductive invariant is `QueryTypeOK /\ MapMatchesList /\ Bounded`. None of its
  parts is inductive alone: that a digest leaves the map with its entry needs the
  list to hold each digest once, and that an insertion does not exceed the capacity
  needs the compaction to have made room, which follows from the size before.
- `LeastNatural` and `PurgedIsFirstStop` show that `Purged(t)` exists and is the
  first stop; `Compaction` says what the two structures hold after it. The facts
  about a query are consequences.
- That the list is sorted needs that no entry is younger than the last query,
  which is stated for orderly callers only and proved beside the order itself.
- `FilterImplementsGuard` is the refinement of `ReplayGuard`: while callers are orderly
  what a query purges is exactly what has expired, so the map is what the guard
  remembers and an eviction is the one digest the guard may forget early.

### The server handshake

The inductive invariant `HandshakeInv` has types (`HandshakeTypes`), what the place of a
goroutine says of its variables (`ConnInv`), who has had a request delivered how often
(`CountInv`), that an entry of the filter is an admission with its last stamp (`EntryInv`),
and what a schedule without a tick in a parse implies: the hour found, the stamp and
the clock agree (`SteadyInv`).

- `ReplayAlwaysMeansSecondDelivery` needs no more than that, at any capacity.
- `AdmittedTwiceAlwaysApart` and `AdmittedAtMostOnce` are proved under `[]NotFull`,
  that the filter has room (`Len(fifo) < MaxFilterSize`, 102400 in the code). At
  capacity the code evicts the eldest entry however young it is
  (`replay_filter.go:120`), and then a request can be admitted twice: the
  condition is the code's own. `FewRequestsNeverFill` discharges it when there are fewer
  requests than places, however often each is delivered.
- The first uses `OrderInv`: while no goroutine overtakes another, stamps come in order
  and what is forgotten has expired for every query to come. The second uses the
  first and `SteadyInv`: two stamps in one window of the MAC are less than three hours
  apart. `ReplayTTLAssumption` (TTL = 3 hours, `obfs4.go:70`) is what makes the two meet.

### Framing

For every width of the counter from 2, every length of a frame and any number of
interventions (`FramingAssumption`):

- The invariant adds to the types what relates the counters to the histories: frame
  `i` has nonce `i`; the encoder's counter is one more than the frames sealed, or 0
  for good once it has wrapped; the decoder's counter is one more than the frames
  delivered while it can go on; and a nonce taken for the next box is that counter.
- A box that opens was sealed under the decoder's nonce, and so is the next frame in
  order, whatever the network did. `NonceUnique` and `DeliveredInOrder` do not look at
  the stream at all, which is the point: order rests on the nonce alone.
- `FramingImplementsStream`, the refinement of `AuthenticatedStream`, does need the
  stream: the numbers of the length blocks, and that an undisturbed stream is unbroken,
  because the abstract reader fails only after a tampering.

### The connection

For any number of writes and of padding packets. `ConnInv` says how far the
handshake is for either side and which half of the keys it holds (`KeyInv`), that what
is given, decoded, received and under way makes up what was written, with the seed first
until the client has it (`DataInv`), and that an end of stream leaves nothing
behind (`EndInv`). `PayloadsConcat` is the lemma that lets a read be cut anywhere: the
payloads of two sequences joined are their payloads joined.

### Lengths

`HonestHandshakeAlwaysCompletes` is for every padding, every cut of either stream and any
change of the hour between. `BurstsAlwaysEndAsSampled` and `OvershootIsAlwaysWritten` ask of
the constants that a segment has room for two headers and that lengths fit 16 bits
(`WriteAssumption`); the write and the sampled lengths are arbitrary.
`ScramblesuitAlwaysPads` is for the lengths the code fixes and every write and
sample. The arithmetic is stated once: a remainder is determined by its range and
multiple (`RemainderIsUnique`), and the padding reaches its target (`PadLengthReaches`).

### Distributions

`AlwaysDrawsAsWeighted` is for any number of values and any weights, not all of them 0.
`DistInv` says, while Reset holds the lock, that what the sides of the die give a value
and what is still to be given of it (`scaled`, if it waits in a worklist) make up its weight
times the number of values; that small ones wait in one list and large ones in the
other, each once; and that what the waiting ones have over 1 each adds up to nothing
(`Excess`). The last is what the end of the algorithm rests on: when one list is empty,
no value in the other has anything over or short, so that filling them up with probability 1
and no alias is right. Sums over the values are compared by `TotalOfSums` and
`TotalOfOne`, as each step changes one or two terms.

### Process, state file, tickets

`AlwaysCountsHandlers` needs only types: a handler is counted from the message that
starts it to the one that finishes it, and each step moves one handler and the count
together. `AlwaysRunsOnWhatIsWritten` needs that a start writes the bridge line before the
state (`LineBeforeState`). `IdentityIsKept`, an action property, needs that once a bridge has
been in service its state file is never absent, though it may be cut short, and that its
identity is the last in service or one asked for (`IdentityKept`). `TicketsAreUsedOnce`
needs `OnePlace`: a ticket is in the map, or with one dial, or presented; and by the time
a dial sends it, it is no longer on disk, so no crash brings it back.

### Proxies and server names

`ProxyInv` places the bytes of the bridge: until the answer is read they are behind it, in the
client's buffer and on the way; from then on what was read, the rest of the
buffer (of the HTTP client) and what is on the way are the bytes of the bridge, in order.
`ProxyCut` and `BytesJoin` let the reads be cut anywhere. `WorkingNamesStay` needs only
that `position` is a function: a step moves it off the name a dial has failed with, and
such a name does not work.

### The SOCKS5 server

For every set of argument lists whose keys are not empty, over any characters
(`ArgsAssumption`; `parseClientParameters` refuses an empty key). `ParseEncode` says that
what the parser reads from the arguments as tor writes them is the arguments. `ReadsText`
follows an escaped text character by character, `ReadsArgument` a key, "=" and a value, and
`ParseEncode` the arguments and the ";" between them, none of which is the last character.
`MalformedIsRefused` is for the strings that are no arguments. `SocksInv` counts: up to the
relay, what is in the buffer and on the way is two parts for each message that was sent and
not handled (`PartsAccounted`), and a client in lockstep is at most one message ahead
(`Excuses`). So nothing trails behind a message of such a client, and for any client the
buffer is empty when the relay starts.

### The older transports

Both proofs fix what the writer's stream is, as a function of the place in it, and
make the reader's place part of the invariant (`Stretch(F, from, n)`: the `n` units behind
the first `from`). A read that takes a prefix, or a search that drops one, then moves a
place, whatever the cut.

- `LegacyAlwaysConserves`: for every length of padding, either version and any cut. `AheadInv`
  says that what is in an end's buffer and what the network holds are the next stretches of its
  peer's stream. In obfs3 the search for the peer's magic stops at the magic
  (`FindPeerMagic` finds no earlier one, as padding is no magic), and in obfs2 the header says
  how much padding follows. `EndInv` ties the ciphers' positions to what was sent and read.
- `ScramblesuitAlwaysConserves`: `Server` says that the stream is the response, then the packets,
  one behind the other up to the ends `E`, and how many payloads (`N`) and how many tickets and
  seeds (`M`) the first so many packets hold. `WaitingWith`, `OpenWith` and `OverWith` say where the
  client is while it reads the response, reads packets, or has ended. `Process`, the loop
  of `readPackets`, is followed round by round: `Parts` is what holds between two
  rounds (which part of which packet is next), `MacIsTaken`, `HeaderIsTaken` and `BodyIsTaken`
  are the three rounds, and `RoundsExist` is the induction. That no packet of an honest server
  is called bad follows, because a MAC, a header and a body are only ever taken from their
  own places.

### meek_lite

For every backlog, body size, number of tries and sequence of lost exchanges. `UpInv` and
`DownInv` place every unit with the user, in a channel, with the worker or with the
server, with the chunks of a channel joined by `FlattenSeq`. `FrontInv` says that, as
long as no exchange was lost, the fronts its retries have passed are blocked. `WorkingFrontIsAlwaysFound` is for no more
fronts than tries (10 in the code): with more of them the code gives up before it has tried
them all. It speaks of connections that have used up their tries: a front that forms
no URL ends one before that, whatever the other fronts are.

### What stays with TLC

- Liveness under fairness and `ENABLED`, which these provers do not handle: every liveness
  property of the runs.
- The properties that the runs expect to see violated.

Every invariant and every safety property of the passing runs is a theorem.

Induction theorems that take a predicate as a parameter cannot be used with these provers.
Where a proof is by induction, over the length of a sequence or a range of numbers,
it takes the set of numbers that fail and their least element, or a set that has 0 and
is closed under successor (`LeastNatural`, `ReachesFromZero`); a recursive function gets
its two equations first and the induction is on those (`FlattenSeq` in `MeekProofs`,
`PayloadsOf` in `ConnProofs`, `Total` in `LengthProofs`, `Process` and `SentOf` in
`TransportProofs`, `Encode` and `ParseClientParameters` in `ProcessProofs`). No module declares a recursive operator.

## What is not modelled

Cryptography is taken at its word: MACs compare hours, boxes open under their
nonce, SipHash has no collisions, Elligator and ntor succeed or fail. Delays between
writes and the poll interval are left out; no property depends on them.
Partial writes are fatal in the code and end a
connection like any other error. The distributions are exact in `ProbDist`, where the
code rounds, and are the set of their values in `Obfs4Write` and `ScramblesuitWrite`.
Who closes which connection is left out of `ServerNames` (the code does not close
one whose dial fails after `dialFn`, `client.go:130`), and of `SocksServer` why a
deadline may strike after the handshake (an error of its disarming is lost,
`socks5.go:138`). `clientHandler` sets the proxy of snowflake on a copy of its
configuration (`lyrebird.go:169-175`), so it has no effect: plain from the code,
and all that happens is in the vendored library.

The HTTP transport of meek_lite is net/http and uTLS with a lazily made transport;
`MeekConn` sees whether `RoundTrip` succeeds. The parsing of arguments of webtunnel and snowflake
and of proxy URLs keeps no state.

The scripts that manage tor work on the pid, log and timing of processes that are
not in the repository; a model of them would be a model of assumptions.

Outside: the vendored snowflake library and the binaries, tor itself, text
processing and downloads in the scripts.

## Plan

Done, in this order, the most important first: the replay filter and its promise;
the server handshake over it; framing and its promise; the connection over frames;
the write path; the process; meek_lite; the files (state and tickets); the older
transports; SOCKS and upstream proxies; server names; distributions; the bytes of the
obfs4 handshake.

Then the proofs, in the order of the section above.

Next: what a larger instance of the parts can show on its own (a ticket store of three dials,
messages cut into more than two parts).
