-------------------------- MODULE HandshakeProofs --------------------------
(***************************************************************************)
(* Theorems about the server side of the obfs4 handshake: how often one    *)
(* request is admitted, and when it is reported as a replay, for any       *)
(* number of connections and requests, any clock and any network.          *)
(***************************************************************************)
EXTENDS Obfs4ServerHandshake, FilterProofs

(***************************************************************************)
(* The inductive invariant, in five parts.                                 *)
(***************************************************************************)
Places == {"closed", "reading", "mac", "stamp", "filter", "draining", "established"}

HandshakeTypes ==
  /\ clock \in 0 .. MaxTime
  /\ sentHour \in [Msgs -> Int]
  /\ deliveries \in [Msgs -> Nat]
  /\ pc \in [Conns -> Places]
  /\ msg \in [Conns -> Msgs \cup {NoMsg}]
  /\ off \in [Conns -> Nat \ {0}]
  /\ stamp \in [Conns -> 0 .. MaxTime]
  /\ DOMAIN macFound = Conns
  /\ err \in [Conns -> {"none", "invalid", "replayed"}]
  /\ admitted \in [Msgs -> Seq(0 .. MaxTime)]
  /\ FilterTypeOK

\* What the place a goroutine is at says about its variables.
ConnInv == \A c \in Conns :
  /\ pc[c] \in {"closed", "reading"} => msg[c] = NoMsg
  /\ pc[c] \in {"closed", "reading"} => macFound[c] = FALSE
  /\ Parsing(c) => msg[c] # NoMsg
  /\ pc[c] \in {"stamp", "filter"} => off[c] \in 1 .. 3
  /\ err[c] # "none" => pc[c] = "draining"
  /\ err[c] = "replayed" => msg[c] # NoMsg

\* Two goroutines with one request, or one whose request another admitted,
\* need two deliveries of it.
CountInv ==
  /\ \A c \in Conns :
       msg[c] # NoMsg => sentHour[msg[c]] # NotSent /\ deliveries[msg[c]] >= 1
  /\ \A c, d \in Conns :
       c # d /\ msg[c] # NoMsg /\ msg[c] = msg[d] => deliveries[msg[c]] > 1
  /\ \A m \in Msgs :
       admitted[m] # <<>> => sentHour[m] # NotSent /\ deliveries[m] >= 1
  /\ \A c \in Conns :
       msg[c] # NoMsg /\ macFound[c] = FALSE /\ admitted[msg[c]] # <<>>
         => deliveries[msg[c]] > 1

\* The stamp under which m passed the filter last.
LastOf(m) == admitted[m][Len(admitted[m])]

\* An entry of the filter is a request it admitted, with its last stamp.
EntryInv ==
  /\ MapMatchesList
  /\ Bounded
  /\ \A i \in 1 .. Len(fifo) : admitted[fifo[i].digest] # <<>>
  /\ \A i \in 1 .. Len(fifo) : fifo[i].firstSeen = LastOf(fifo[i].digest)

BaseInv == HandshakeTypes /\ ConnInv /\ CountInv /\ EntryInv

\* While no parse straddles a tick, the hour of the clock is the one that a
\* goroutine found in the window, and only one offset leads there.
SteadyInv == schedule = "steady" =>
  /\ \A c \in Conns :
       pc[c] \in {"stamp", "filter"} => Hour(clock) + Offsets[off[c]] = sentHour[msg[c]]
  /\ \A c \in Conns : pc[c] = "filter" => stamp[c] = clock
  /\ \A c \in Conns :
       Parsing(c) /\ macFound[c] # FALSE
         => \E o \in 1 .. 3 : o < off[c] /\ Hour(clock) + Offsets[o] = sentHour[msg[c]]
  /\ \A m \in Msgs : \A i \in 1 .. Len(admitted[m]) :
       \E o \in 1 .. 3 : Hour(admitted[m][i]) + Offsets[o] = sentHour[m]
  /\ \A c \in Conns : err[c] = "replayed" => deliveries[msg[c]] > 1

\* No query that is still to come will carry a time before t.
NowOrLater(t) == t <= clock /\ \A c \in Conns : pc[c] = "filter" => t <= stamp[c]

\* While no goroutine overtakes another, stamps reach the filter in order,
\* and what it has forgotten had expired for every query still to come.
OrderInv ==
  /\ \A c \in Conns : pc[c] = "filter" => stamp[c] <= clock
  /\ schedule # "overtaken" =>
       \A m \in Msgs : \A i \in 1 .. Len(admitted[m]) : NowOrLater(admitted[m][i])
  /\ schedule # "overtaken" =>
       \A m \in Msgs : \A i, j \in 1 .. Len(admitted[m]) :
         i < j => admitted[m][j] - admitted[m][i] >= TTL
  /\ schedule # "overtaken" =>
       \A m \in Msgs : admitted[m] # <<>> /\ m \notin filter => NowOrLater(LastOf(m) + TTL)

-----------------------------------------------------------------------------
LEMMA OffsetsAre ==
  /\ Len(Offsets) = 3
  /\ \A o \in 1 .. 3 : Offsets[o] \in Int /\ -1 <= Offsets[o] /\ Offsets[o] <= 1
  /\ \A o, p \in 1 .. 3 : Offsets[o] = Offsets[p] => o = p
BY DEF Offsets

\* An hour is that many multiples of HourLength.
LEMMA HourDef ==
  ASSUME NEW t \in Nat
  PROVE  /\ Hour(t) \in Int
         /\ HourLength * Hour(t) <= t
         /\ t < HourLength * Hour(t) + HourLength
<1>1. \A a \in Int, n \in Nat \ {0} :
        a \div n \in Int /\ a % n \in 0 .. n - 1 /\ a = n * (a \div n) + (a % n)
  OBVIOUS
<1>2. /\ Hour(t) \in Int /\ t % HourLength \in 0 .. HourLength - 1
      /\ t = HourLength * Hour(t) + (t % HourLength)
  BY <1>1, HandshakeAssumption DEF Hour
<1> DEFINE x == HourLength * Hour(t)
           r == t % HourLength
<1>3. HourLength \in Nat /\ x \in Int /\ r \in 0 .. HourLength - 1 /\ t = x + r
  BY <1>2, HandshakeAssumption
<1> HIDE DEF x, r
<1>4. x <= t /\ t < x + HourLength
  BY <1>3
<1> QED
  BY <1>2, <1>4 DEF x

\* Two times whose hours lead to the same hour by an offset each are less
\* than three hours apart.
LEMMA WindowIsThreeHours ==
  ASSUME NEW t \in Nat, NEW u \in Nat, NEW o \in 1 .. 3, NEW p \in 1 .. 3,
         Hour(t) + Offsets[o] = Hour(u) + Offsets[p]
  PROVE  u - t < 3 * HourLength
<1> DEFINE x == HourLength * Hour(t)
           y == HourLength * Hour(u)
<1>1. HourLength \in Nat \ {0}
  BY HandshakeAssumption
<1>2. Hour(t) \in Int /\ Hour(u) \in Int /\ Hour(u) <= Hour(t) + 2
  BY HourDef, OffsetsAre
<1>3. y <= x + 2 * HourLength
  <2>1. \A a, b \in Int : a <= b + 2 => HourLength * a <= HourLength * b + 2 * HourLength
    <3> TAKE a, b \in Int
    <3> HAVE a <= b + 2
    <3>1. HourLength * (b + 2) = HourLength * b + 2 * HourLength
      BY <1>1
    <3>2. HourLength * a <= HourLength * (b + 2)
      <4>1. \A k \in Nat : HourLength * (a + k) = HourLength * a + HourLength * k
        BY <1>1
      <4>2. b + 2 - a \in Nat /\ a + (b + 2 - a) = b + 2
        OBVIOUS
      <4>3. \A k \in Nat : HourLength * k >= 0
        BY <1>1
      <4>4. HourLength * (b + 2) = HourLength * a + HourLength * (b + 2 - a)
            /\ HourLength * (b + 2 - a) >= 0
        BY <4>1, <4>2, <4>3
      <4> QED
        BY <4>4, <1>1
    <3> QED
      BY <3>1, <3>2
  <2> QED
    BY <2>1, <1>2
<1>4. x <= t /\ u < y + HourLength /\ x \in Int /\ y \in Int
  BY HourDef, <1>1, <1>2
<1> HIDE DEF x, y
<1> QED
  BY <1>1, <1>3, <1>4
-----------------------------------------------------------------------------
(* The invariant, action by action.                                        *)

HandshakeInv == BaseInv /\ SteadyInv

\* What a step that leaves the filter and the admissions alone preserves.
LEMMA FilterUntouched ==
  ASSUME BaseInv, UNCHANGED <<admitted, filterVars>>
  PROVE  EntryInv' /\ FilterTypeOK'
BY DEF BaseInv, HandshakeTypes, EntryInv, MapMatchesList, Bounded, LastOf, filterVars, FilterTypeOK

LEMMA InitHandshake == Init => HandshakeInv /\ OrderInv
<1> SUFFICES ASSUME Init
             PROVE  HandshakeInv /\ OrderInv
  OBVIOUS
<1>1. /\ fifo = <<>> /\ filter = {} /\ Len(fifo) = 0 /\ fifo \in Seq(Entry)
      /\ 1 .. Len(fifo) = {}
  BY EmptySeq DEF Init, FilterInit
<1>2. HandshakeTypes
  <2>1. <<>> \in Seq(0 .. MaxTime) /\ 0 \in 0 .. MaxTime /\ HourLength \in 0 .. MaxTime
    BY EmptySeq, HandshakeAssumption
  <2>2. FilterTypeOK
    BY <1>1 DEF FilterTypeOK
  <2>3. NotSent \in Int
    BY DEF NotSent
  <2> QED
    BY <2>1, <2>2, <2>3 DEF Init, HandshakeTypes, Places
<1>3. ConnInv
  BY DEF Init, ConnInv, Parsing
<1>4. CountInv
  BY DEF Init, CountInv
<1>5. EntryInv
  <2>1. {fifo[i].digest : i \in 1 .. Len(fifo)} = {}
    BY <1>1
  <2> QED
    BY <1>1, <2>1, FilterAssumption DEF EntryInv, MapMatchesList, Bounded
<1>6. SteadyInv
  <2>1. \A m \in Msgs : 1 .. Len(admitted[m]) = {}
    BY EmptySeq DEF Init
  <2> QED
    BY <2>1 DEF Init, SteadyInv, Parsing
<1>7. OrderInv
  <2>1. \A m \in Msgs : 1 .. Len(admitted[m]) = {} /\ admitted[m] = <<>>
    BY EmptySeq DEF Init
  <2> QED
    BY <2>1 DEF Init, OrderInv
<1> QED
  BY <1>2, <1>3, <1>4, <1>5, <1>6, <1>7 DEF HandshakeInv, BaseInv

LEMMA TickHandshake ==
  ASSUME HandshakeInv, Tick
  PROVE  HandshakeInv'
<1>1. BaseInv
  BY DEF HandshakeInv
<1>2. /\ clock \in Nat /\ clock' = clock + 1 /\ clock' \in 0 .. MaxTime
      /\ UNCHANGED <<sentHour, deliveries, pc, msg, off, stamp, macFound, err, admitted, filterVars>>
  BY <1>1, HandshakeAssumption DEF Tick, connVars, BaseInv, HandshakeTypes
<1>3. EntryInv' /\ FilterTypeOK'
  BY <1>1, <1>2, FilterUntouched
<1>4. HandshakeTypes'
  BY <1>1, <1>2, <1>3 DEF BaseInv, HandshakeTypes
<1>5. ConnInv' /\ CountInv'
  BY <1>1, <1>2 DEF BaseInv, ConnInv, CountInv, Parsing
<1>6. SteadyInv'
  <2>1. ASSUME schedule' = "steady"
        PROVE  schedule = "steady" /\ \A c \in Conns : ~Parsing(c)
    BY <2>1 DEF Tick
  <2> QED
    BY <2>1, <1>2 DEF HandshakeInv, SteadyInv, Parsing
<1> QED
  BY <1>3, <1>4, <1>5, <1>6 DEF HandshakeInv, BaseInv

LEMMA GenerateHandshake ==
  ASSUME HandshakeInv, NEW m \in Msgs, Generate(m)
  PROVE  HandshakeInv'
<1>1. BaseInv
  BY DEF HandshakeInv
<1>2. /\ UNCHANGED <<clock, deliveries, pc, msg, off, stamp, macFound, err, admitted, schedule, filterVars>>
      /\ sentHour[m] = NotSent
      /\ \A n \in Msgs : n # m => sentHour'[n] = sentHour[n]
      /\ sentHour' \in [Msgs -> Int]
  <2>1. PICK skew \in Skews : sentHour' = [sentHour EXCEPT ![m] = Hour(clock) + skew]
    BY DEF Generate
  <2>2. Hour(clock) + skew \in Int
    BY <1>1, HourDef, HandshakeAssumption DEF BaseInv, HandshakeTypes
  <2> QED
    BY <1>1, <2>1, <2>2 DEF Generate, connVars, BaseInv, HandshakeTypes
<1>3. EntryInv' /\ FilterTypeOK'
  BY <1>1, <1>2, FilterUntouched
<1>4. HandshakeTypes'
  BY <1>1, <1>2, <1>3 DEF BaseInv, HandshakeTypes
<1>5. ConnInv'
  BY <1>1, <1>2 DEF BaseInv, ConnInv, Parsing
<1>6. /\ \A c \in Conns : msg[c] # NoMsg => sentHour'[msg[c]] = sentHour[msg[c]]
      /\ \A n \in Msgs : admitted[n] # <<>> => sentHour'[n] = sentHour[n]
  BY <1>1, <1>2 DEF BaseInv, HandshakeTypes, CountInv
<1>7. CountInv'
  BY <1>1, <1>2, <1>6 DEF BaseInv, CountInv
<1>8. SteadyInv'
  <2>1. \A c \in Conns : Parsing(c) => msg[c] # NoMsg
    BY <1>1 DEF BaseInv, ConnInv
  <2>2. \A n \in Msgs : \A i \in 1 .. Len(admitted[n]) : admitted[n] # <<>>
    BY EmptySeq
  <2> SUFFICES ASSUME schedule = "steady"
               PROVE  SteadyInv'
    BY <1>2 DEF SteadyInv
  <2>3. \A d \in Conns :
          pc[d] \in {"stamp", "filter"} => Hour(clock) + Offsets[off[d]] = sentHour'[msg[d]]
    BY <1>6, <2>1 DEF HandshakeInv, SteadyInv, Parsing
  <2>4. \A d \in Conns :
          Parsing(d) /\ macFound[d] # FALSE
            => \E o \in 1 .. 3 : o < off[d] /\ Hour(clock) + Offsets[o] = sentHour'[msg[d]]
    BY <1>6, <2>1, ZenonT(60) DEF HandshakeInv, SteadyInv
  <2>5. \A n \in Msgs : \A i \in 1 .. Len(admitted[n]) :
          \E o \in 1 .. 3 : Hour(admitted[n][i]) + Offsets[o] = sentHour'[n]
    BY <1>6, <2>2 DEF HandshakeInv, SteadyInv
  <2> QED
    BY <1>2, <2>3, <2>4, <2>5 DEF HandshakeInv, SteadyInv, Parsing
<1> QED
  BY <1>3, <1>4, <1>5, <1>7, <1>8 DEF HandshakeInv, BaseInv

\* A goroutine moves outside the part between two looks at the clock.
LEMMA AcceptHandshake ==
  ASSUME HandshakeInv, NEW c \in Conns, Accept(c)
  PROVE  HandshakeInv'
<1>1. BaseInv
  BY DEF HandshakeInv
<1>2. /\ UNCHANGED <<clock, sentHour, deliveries, msg, off, stamp, macFound, err, admitted, schedule, filterVars>>
      /\ pc[c] = "closed" /\ pc' = [pc EXCEPT ![c] = "reading"]
  BY DEF Accept
<1>3. EntryInv' /\ FilterTypeOK'
  BY <1>1, <1>2, FilterUntouched
<1>4. HandshakeTypes'
  BY <1>1, <1>2, <1>3 DEF BaseInv, HandshakeTypes, Places
<1>5. pc'[c] = "reading" /\ \A d \in Conns : d # c => pc'[d] = pc[d]
  BY <1>1, <1>2 DEF BaseInv, HandshakeTypes
<1>6. ConnInv'
  BY <1>1, <1>2, <1>5 DEF BaseInv, ConnInv, Parsing
<1>7. CountInv'
  BY <1>1, <1>2 DEF BaseInv, CountInv
<1>8. SteadyInv'
  BY <1>2, <1>5 DEF HandshakeInv, SteadyInv, Parsing
<1> QED
  BY <1>3, <1>4, <1>6, <1>7, <1>8 DEF HandshakeInv, BaseInv

LEMMA StopReadingHandshake ==
  ASSUME HandshakeInv, NEW c \in Conns, StopReading(c)
  PROVE  HandshakeInv'
<1>1. BaseInv
  BY DEF HandshakeInv
<1>2. /\ UNCHANGED <<clock, sentHour, deliveries, msg, off, stamp, macFound, admitted, schedule, filterVars>>
      /\ pc[c] = "reading" /\ pc' = [pc EXCEPT ![c] = "draining"]
      /\ err' = [err EXCEPT ![c] = "invalid"]
  BY DEF StopReading, Fail
<1>3. EntryInv' /\ FilterTypeOK'
  BY <1>1, <1>2, FilterUntouched
<1>4. HandshakeTypes'
  BY <1>1, <1>2, <1>3 DEF BaseInv, HandshakeTypes, Places
<1>5. /\ pc'[c] = "draining" /\ err'[c] = "invalid"
      /\ \A d \in Conns : d # c => pc'[d] = pc[d] /\ err'[d] = err[d]
  BY <1>1, <1>2 DEF BaseInv, HandshakeTypes
<1>6. ConnInv'
  BY <1>1, <1>2, <1>5 DEF BaseInv, ConnInv, Parsing
<1>7. CountInv'
  BY <1>1, <1>2 DEF BaseInv, CountInv
<1>8. SteadyInv'
  BY <1>2, <1>5 DEF HandshakeInv, SteadyInv, Parsing
<1> QED
  BY <1>3, <1>4, <1>6, <1>7, <1>8 DEF HandshakeInv, BaseInv

LEMMA ReceiveRequestHandshake ==
  ASSUME HandshakeInv, NEW c \in Conns, NEW m \in Msgs, ReceiveRequest(c, m)
  PROVE  HandshakeInv'
<1>1. BaseInv
  BY DEF HandshakeInv
<1>2. /\ UNCHANGED <<clock, sentHour, off, stamp, macFound, err, admitted, schedule, filterVars>>
      /\ pc[c] = "reading" /\ pc' = [pc EXCEPT ![c] = "mac"]
      /\ msg' = [msg EXCEPT ![c] = m]
      /\ deliveries' = [deliveries EXCEPT ![m] = deliveries[m] + 1]
      /\ sentHour[m] # NotSent
  BY DEF ReceiveRequest
<1>3. EntryInv' /\ FilterTypeOK'
  BY <1>1, <1>2, FilterUntouched
<1>4. HandshakeTypes'
  BY <1>1, <1>2, <1>3 DEF BaseInv, HandshakeTypes, Places
<1>5. /\ pc'[c] = "mac" /\ msg'[c] = m /\ msg[c] = NoMsg /\ macFound[c] = FALSE /\ err[c] = "none"
      /\ \A d \in Conns : d # c => pc'[d] = pc[d] /\ msg'[d] = msg[d]
      /\ \A n \in Msgs : deliveries[n] \in Nat /\ deliveries'[n] = IF n = m THEN deliveries[n] + 1 ELSE deliveries[n]
      /\ m # NoMsg
  BY <1>1, <1>2, HandshakeAssumption DEF BaseInv, HandshakeTypes, ConnInv, Msgs
<1>6. ConnInv'
  BY <1>1, <1>2, <1>5 DEF BaseInv, ConnInv, Parsing
<1>7. CountInv'
  <2>1. \A d \in Conns : msg[d] = m => deliveries[m] >= 1
    BY <1>1, <1>5 DEF BaseInv, CountInv
  <2>2. admitted[m] # <<>> => deliveries[m] >= 1
    BY <1>1 DEF BaseInv, CountInv
  <2>3. \A d \in Conns : msg[d] # NoMsg => msg[d] \in Msgs
    BY <1>1 DEF BaseInv, HandshakeTypes
  <2>4. \A d \in Conns : msg'[d] # NoMsg => sentHour'[msg'[d]] # NotSent /\ deliveries'[msg'[d]] >= 1
    BY <1>1, <1>2, <1>5, <2>3 DEF BaseInv, CountInv
  <2>5. \A d, e \in Conns :
          d # e /\ msg'[d] # NoMsg /\ msg'[d] = msg'[e] => deliveries'[msg'[d]] > 1
    <3> SUFFICES ASSUME NEW d \in Conns, NEW e \in Conns,
                        d # e, msg'[d] # NoMsg, msg'[d] = msg'[e]
                 PROVE  deliveries'[msg'[d]] > 1
      OBVIOUS
    <3>1. CASE d = c \/ e = c
      BY <3>1, <1>5, <2>1
    <3>2. CASE d # c /\ e # c
      BY <3>2, <1>1, <1>5, <2>3 DEF BaseInv, CountInv
    <3> QED
      BY <3>1, <3>2
  <2>6. \A n \in Msgs : admitted'[n] # <<>> => sentHour'[n] # NotSent /\ deliveries'[n] >= 1
    BY <1>1, <1>2, <1>5 DEF BaseInv, CountInv
  <2>7. \A d \in Conns :
          msg'[d] # NoMsg /\ macFound'[d] = FALSE /\ admitted'[msg'[d]] # <<>>
            => deliveries'[msg'[d]] > 1
    <3> SUFFICES ASSUME NEW d \in Conns, msg'[d] # NoMsg, macFound'[d] = FALSE,
                        admitted'[msg'[d]] # <<>>
                 PROVE  deliveries'[msg'[d]] > 1
      OBVIOUS
    <3>1. CASE d = c
      BY <3>1, <1>2, <1>5, <2>2
    <3>2. CASE d # c
      BY <3>2, <1>1, <1>2, <1>5, <2>3 DEF BaseInv, CountInv
    <3> QED
      BY <3>1, <3>2
  <2> QED
    BY <2>4, <2>5, <2>6, <2>7 DEF CountInv
<1>8. SteadyInv'
  <2> SUFFICES ASSUME schedule = "steady"
               PROVE  SteadyInv'
    BY <1>2 DEF SteadyInv
  <2>1. \A d \in Conns : err'[d] = "replayed" => deliveries'[msg'[d]] > 1
    <3> SUFFICES ASSUME NEW d \in Conns, err[d] = "replayed"
                 PROVE  deliveries'[msg'[d]] > 1
      BY <1>2
    <3>1. d # c /\ deliveries[msg[d]] > 1
      BY <1>5 DEF HandshakeInv, SteadyInv
    <3>2. msg[d] \in Msgs
      BY <1>1 DEF BaseInv, HandshakeTypes, ConnInv
    <3> QED
      BY <3>1, <3>2, <1>5
  <2>2. \A d \in Conns :
          pc'[d] \in {"stamp", "filter"} => Hour(clock) + Offsets[off[d]] = sentHour[msg'[d]]
    BY <1>5 DEF HandshakeInv, SteadyInv
  <2>3. \A d \in Conns : pc'[d] = "filter" => stamp[d] = clock
    BY <1>5 DEF HandshakeInv, SteadyInv
  <2>4. ASSUME NEW d \in Conns, Parsing(d)', macFound[d] # FALSE
        PROVE  \E o \in 1 .. 3 : o < off[d] /\ Hour(clock) + Offsets[o] = sentHour[msg'[d]]
    <3>1. Parsing(d) /\ msg'[d] = msg[d]
      BY <1>5, <2>4, <1>1, <1>2 DEF Parsing, BaseInv, ConnInv
    <3> QED
      BY <2>4, <3>1 DEF HandshakeInv, SteadyInv
  <2> QED
    BY <2>1, <2>2, <2>3, <2>4, <1>2, ZenonT(60) DEF HandshakeInv, SteadyInv, Parsing
<1> QED
  BY <1>3, <1>4, <1>6, <1>7, <1>8 DEF HandshakeInv, BaseInv

LEMMA CompareMacHandshake ==
  ASSUME HandshakeInv, NEW c \in Conns, CompareMac(c)
  PROVE  HandshakeInv'
<1>1. BaseInv
  BY DEF HandshakeInv
<1>2. /\ UNCHANGED <<clock, sentHour, deliveries, msg, stamp, macFound, err, admitted, schedule, filterVars>>
      /\ pc[c] = "mac" /\ off[c] \in 1 .. 3
  BY <1>1, OffsetsAre DEF CompareMac, BaseInv, HandshakeTypes
<1>3. EntryInv' /\ FilterTypeOK'
  BY <1>1, <1>2, FilterUntouched
<1>4. CountInv'
  BY <1>1, <1>2 DEF BaseInv, CountInv
<1>5. CASE /\ Hour(clock) + Offsets[off[c]] = sentHour[msg[c]]
           /\ pc' = [pc EXCEPT ![c] = "stamp"] /\ UNCHANGED off
  <2>1. HandshakeTypes'
    BY <1>1, <1>2, <1>3, <1>5 DEF BaseInv, HandshakeTypes, Places
  <2>2. pc'[c] = "stamp" /\ \A d \in Conns : d # c => pc'[d] = pc[d]
    BY <1>1, <1>5 DEF BaseInv, HandshakeTypes
  <2>3. ConnInv'
    BY <1>1, <1>2, <1>5, <2>2 DEF BaseInv, ConnInv, Parsing
  <2>4. SteadyInv'
    <3> SUFFICES ASSUME schedule = "steady"
                 PROVE  SteadyInv'
      BY <1>2 DEF SteadyInv
    <3>1. \A d \in Conns :
            pc'[d] \in {"stamp", "filter"} => Hour(clock) + Offsets[off[d]] = sentHour[msg[d]]
      BY <1>5, <2>2 DEF HandshakeInv, SteadyInv
    <3>2. \A d \in Conns : pc'[d] = "filter" => stamp[d] = clock
      BY <2>2 DEF HandshakeInv, SteadyInv
    <3>3. ASSUME NEW d \in Conns, Parsing(d)', macFound[d] # FALSE
          PROVE  \E o \in 1 .. 3 : o < off[d] /\ Hour(clock) + Offsets[o] = sentHour[msg[d]]
      <4>1. Parsing(d)
        BY <1>2, <2>2, <3>3 DEF Parsing
      <4> QED
        BY <3>3, <4>1 DEF HandshakeInv, SteadyInv
    <3> QED
      BY <3>1, <3>2, <3>3, <1>2, <1>5 DEF HandshakeInv, SteadyInv
  <2> QED
    BY <1>3, <1>4, <2>1, <2>3, <2>4 DEF HandshakeInv, BaseInv
<1>6. CASE Advance(c) /\ UNCHANGED pc
  <2>1. off' = [off EXCEPT ![c] = off[c] + 1]
    BY <1>6 DEF Advance
  <2>2. HandshakeTypes'
    BY <1>1, <1>2, <1>3, <1>6, <2>1 DEF BaseInv, HandshakeTypes
  <2>3. off'[c] = off[c] + 1 /\ \A d \in Conns : d # c => off'[d] = off[d]
    BY <1>1, <2>1 DEF BaseInv, HandshakeTypes
  <2>4. ConnInv'
    BY <1>1, <1>2, <1>6, <2>3 DEF BaseInv, ConnInv, Parsing
  <2>5. SteadyInv'
    <3> SUFFICES ASSUME schedule = "steady"
                 PROVE  SteadyInv'
      BY <1>2 DEF SteadyInv
    <3>1. \A d \in Conns :
            pc[d] \in {"stamp", "filter"} => Hour(clock) + Offsets[off'[d]] = sentHour[msg[d]]
      BY <1>2, <2>3 DEF HandshakeInv, SteadyInv
    <3>2. ASSUME NEW d \in Conns, Parsing(d), macFound[d] # FALSE
          PROVE  \E o \in 1 .. 3 : o < off'[d] /\ Hour(clock) + Offsets[o] = sentHour[msg[d]]
      <4>1. PICK o \in 1 .. 3 : o < off[d] /\ Hour(clock) + Offsets[o] = sentHour[msg[d]]
        BY <3>2 DEF HandshakeInv, SteadyInv
      <4>2. o < off'[d]
        BY <4>1, <2>3, <1>2
      <4> QED
        BY <4>1, <4>2
    <3> QED
      BY <3>1, <3>2, <1>2, <1>6 DEF HandshakeInv, SteadyInv, Parsing
  <2> QED
    BY <1>3, <1>4, <2>2, <2>4, <2>5 DEF HandshakeInv, BaseInv
<1> QED
  BY <1>5, <1>6 DEF CompareMac

LEMMA ReadClockHandshake ==
  ASSUME HandshakeInv, NEW c \in Conns, ReadClock(c)
  PROVE  HandshakeInv'
<1>1. BaseInv
  BY DEF HandshakeInv
<1>2. /\ UNCHANGED <<clock, sentHour, deliveries, msg, off, macFound, err, admitted, schedule, filterVars>>
      /\ pc[c] = "stamp" /\ pc' = [pc EXCEPT ![c] = "filter"]
      /\ stamp' = [stamp EXCEPT ![c] = clock]
  BY DEF ReadClock
<1>3. EntryInv' /\ FilterTypeOK'
  BY <1>1, <1>2, FilterUntouched
<1>4. HandshakeTypes'
  BY <1>1, <1>2, <1>3 DEF BaseInv, HandshakeTypes, Places
<1>5. /\ pc'[c] = "filter" /\ stamp'[c] = clock
      /\ \A d \in Conns : d # c => pc'[d] = pc[d] /\ stamp'[d] = stamp[d]
  BY <1>1, <1>2 DEF BaseInv, HandshakeTypes
<1>6. ConnInv'
  BY <1>1, <1>2, <1>5 DEF BaseInv, ConnInv, Parsing
<1>7. CountInv'
  BY <1>1, <1>2 DEF BaseInv, CountInv
<1>8. SteadyInv'
  <2> SUFFICES ASSUME schedule = "steady"
               PROVE  SteadyInv'
    BY <1>2 DEF SteadyInv
  <2>1. \A d \in Conns :
          pc'[d] \in {"stamp", "filter"} => Hour(clock) + Offsets[off[d]] = sentHour[msg[d]]
    BY <1>2, <1>5 DEF HandshakeInv, SteadyInv
  <2>2. \A d \in Conns : pc'[d] = "filter" => stamp'[d] = clock
    BY <1>5 DEF HandshakeInv, SteadyInv
  <2>3. ASSUME NEW d \in Conns, Parsing(d)', macFound[d] # FALSE
        PROVE  \E o \in 1 .. 3 : o < off[d] /\ Hour(clock) + Offsets[o] = sentHour[msg[d]]
    <3>1. Parsing(d)
      BY <1>2, <1>5, <2>3 DEF Parsing
    <3> QED
      BY <2>3, <3>1 DEF HandshakeInv, SteadyInv
  <2> QED
    BY <2>1, <2>2, <2>3, <1>2 DEF HandshakeInv, SteadyInv
<1> QED
  BY <1>3, <1>4, <1>6, <1>7, <1>8 DEF HandshakeInv, BaseInv

\* A goroutine that leaves the parse, or leaves altogether.
LEMMA FinishParseHandshake ==
  ASSUME HandshakeInv, NEW c \in Conns, FinishParse(c)
  PROVE  HandshakeInv'
<1>1. BaseInv
  BY DEF HandshakeInv
<1>2. UNCHANGED <<clock, sentHour, deliveries, msg, off, stamp, macFound, admitted, schedule, filterVars>>
      /\ pc[c] = "mac"
  BY DEF FinishParse
<1>3. PICK p \in {"draining", "established"}, e \in {"none", "invalid"} :
        pc' = [pc EXCEPT ![c] = p] /\ err' = [err EXCEPT ![c] = e] /\ (e # "none" => p = "draining")
  <2>1. CASE Fail(c, "invalid")
    BY <2>1 DEF Fail
  <2>2. CASE pc' = [pc EXCEPT ![c] = "established"] /\ UNCHANGED err
    <3>1. err[c] = "none" /\ err \in [Conns -> {"none", "invalid", "replayed"}]
      BY <1>1, <1>2 DEF BaseInv, ConnInv, HandshakeTypes
    <3>2. err' = [err EXCEPT ![c] = "none"]
      BY <2>2, <3>1
    <3> QED
      BY <2>2, <3>2
  <2> QED
    BY <2>1, <2>2 DEF FinishParse
<1>4. EntryInv' /\ FilterTypeOK'
  BY <1>1, <1>2, FilterUntouched
<1>5. HandshakeTypes'
  BY <1>1, <1>2, <1>3, <1>4 DEF BaseInv, HandshakeTypes, Places
<1>6. /\ pc'[c] = p /\ err'[c] = e
      /\ \A d \in Conns : d # c => pc'[d] = pc[d] /\ err'[d] = err[d]
  BY <1>1, <1>3 DEF BaseInv, HandshakeTypes
<1>7. ConnInv'
  BY <1>1, <1>2, <1>3, <1>6 DEF BaseInv, ConnInv, Parsing
<1>8. CountInv'
  BY <1>1, <1>2 DEF BaseInv, CountInv
<1>9. SteadyInv'
  BY <1>2, <1>3, <1>6 DEF HandshakeInv, SteadyInv, Parsing
<1> QED
  BY <1>4, <1>5, <1>7, <1>8, <1>9 DEF HandshakeInv, BaseInv

LEMMA CloseHandshake ==
  ASSUME HandshakeInv, NEW c \in Conns, Close(c)
  PROVE  HandshakeInv'
<1>1. BaseInv
  BY DEF HandshakeInv
<1>2. /\ UNCHANGED <<clock, sentHour, deliveries, stamp, admitted, schedule, filterVars>>
      /\ pc' = [pc EXCEPT ![c] = "closed"] /\ msg' = [msg EXCEPT ![c] = NoMsg]
      /\ off' = [off EXCEPT ![c] = 1] /\ macFound' = [macFound EXCEPT ![c] = FALSE]
      /\ err' = [err EXCEPT ![c] = "none"]
  BY DEF Close
<1>3. EntryInv' /\ FilterTypeOK'
  BY <1>1, <1>2, FilterUntouched
<1>4. HandshakeTypes'
  BY <1>1, <1>2, <1>3 DEF BaseInv, HandshakeTypes, Places
<1>5. /\ pc'[c] = "closed" /\ msg'[c] = NoMsg /\ macFound'[c] = FALSE /\ err'[c] = "none"
      /\ \A d \in Conns :
           d # c => /\ pc'[d] = pc[d] /\ msg'[d] = msg[d] /\ off'[d] = off[d]
                    /\ macFound'[d] = macFound[d] /\ err'[d] = err[d]
  BY <1>1, <1>2 DEF BaseInv, HandshakeTypes
<1>6. ConnInv'
  BY <1>1, <1>2, <1>5 DEF BaseInv, ConnInv, Parsing
<1>7. CountInv'
  BY <1>1, <1>2, <1>5 DEF BaseInv, CountInv
<1>8. SteadyInv'
  <2> SUFFICES ASSUME schedule = "steady"
               PROVE  SteadyInv'
    BY <1>2 DEF SteadyInv
  <2>1. \A d \in Conns :
          pc'[d] \in {"stamp", "filter"} => Hour(clock) + Offsets[off'[d]] = sentHour[msg'[d]]
    BY <1>5 DEF HandshakeInv, SteadyInv
  <2>2. \A d \in Conns : pc'[d] = "filter" => stamp[d] = clock
    BY <1>5 DEF HandshakeInv, SteadyInv
  <2>3. ASSUME NEW d \in Conns, Parsing(d)', macFound'[d] # FALSE
        PROVE  \E o \in 1 .. 3 : o < off'[d] /\ Hour(clock) + Offsets[o] = sentHour[msg'[d]]
    <3>1. d # c
      BY <2>3, <1>5
    <3>2. Parsing(d) /\ macFound[d] # FALSE /\ off'[d] = off[d] /\ msg'[d] = msg[d]
      BY <3>1, <2>3, <1>5 DEF Parsing
    <3> QED
      BY <3>2 DEF HandshakeInv, SteadyInv
  <2>4. \A d \in Conns : err'[d] = "replayed" => deliveries[msg'[d]] > 1
    BY <1>5 DEF HandshakeInv, SteadyInv
  <2>5. \A m \in Msgs : \A i \in 1 .. Len(admitted[m]) :
          \E o \in 1 .. 3 : Hour(admitted[m][i]) + Offsets[o] = sentHour[m]
    BY DEF HandshakeInv, SteadyInv
  <2>6. UNCHANGED <<clock, sentHour, deliveries, stamp, admitted, schedule>>
    BY <1>2
  <2> QED
    BY <2>1, <2>2, <2>3, <2>4, <2>5, <2>6 DEF SteadyInv
<1> QED
  BY <1>3, <1>4, <1>6, <1>7, <1>8 DEF HandshakeInv, BaseInv

\* The query under the filter's lock.  What the filter reports as seen was
\* admitted before; by this goroutine only if its request matched at an
\* earlier offset already, which without a tick it cannot have.
LEMMA CheckReplayHandshake ==
  ASSUME HandshakeInv, NEW c \in Conns, CheckReplay(c)
  PROVE  HandshakeInv'
<1> DEFINE m == msg[c]
           t == stamp[c]
<1>1. BaseInv
  BY DEF HandshakeInv
<1>2. /\ UNCHANGED <<clock, sentHour, deliveries, msg>>
      /\ pc[c] = "filter" /\ TestAndSet(t, m)
      /\ stamp' = [stamp EXCEPT ![c] = 0]
      /\ schedule' = "steady" => schedule = "steady"
  BY DEF CheckReplay
<1>3. /\ m \in Msgs /\ m # NoMsg /\ t \in Times /\ t \in 0 .. MaxTime /\ off[c] \in 1 .. 3
      /\ err[c] = "none"
  BY <1>1, <1>2, HandshakeAssumption DEF BaseInv, HandshakeTypes, ConnInv, Parsing
<1>4. FilterTypeOK /\ MapMatchesList /\ Bounded
  BY <1>1 DEF BaseInv, HandshakeTypes, EntryInv
<1>5. FilterTypeOK' /\ MapMatchesList' /\ Bounded'
  BY <1>2, <1>3, <1>4, TestAndSetKeeps DEF Msgs
<1>6. /\ SurvivingFilter(t) \subseteq filter
      /\ \A i \in 1 .. Len(fifo') :
           \/ \E j \in 1 .. Len(fifo) : fifo'[i] = fifo[j] /\ fifo[j].digest \in SurvivingFilter(t)
           \/ ~Seen(t, m) /\ fifo'[i] = [digest |-> m, firstSeen |-> t]
  BY <1>2, <1>3, <1>4, EntriesAfter DEF Msgs
<1>7. \A i \in 1 .. Len(fifo) : fifo[i].digest \in Msgs
  <2>1. \A i \in 1 .. Len(fifo) : fifo[i] \in Entry
    BY <1>4, ElementOfSeq DEF FilterTypeOK
  <2> QED
    BY <2>1 DEF Entry, Msgs
<1>8. m \in filter => admitted[m] # <<>>
  BY <1>1 DEF BaseInv, EntryInv, MapMatchesList
<1> HIDE DEF m, t
<1>9. CASE Seen(t, m)
  <2>1. /\ pc' = [pc EXCEPT ![c] = "draining"] /\ err' = [err EXCEPT ![c] = "replayed"]
        /\ UNCHANGED <<off, macFound, admitted>>
    BY <1>9 DEF CheckReplay, Fail, m, t
  <2>2. /\ pc'[c] = "draining" /\ err'[c] = "replayed"
        /\ \A d \in Conns : d # c => pc'[d] = pc[d] /\ err'[d] = err[d] /\ stamp'[d] = stamp[d]
    BY <1>1, <1>2, <2>1 DEF BaseInv, HandshakeTypes
  <2>3. HandshakeTypes'
    BY <1>1, <1>2, <1>5, <2>1, HandshakeAssumption DEF BaseInv, HandshakeTypes, Places
  <2>4. ConnInv'
    BY <1>1, <1>2, <1>3, <2>1, <2>2 DEF BaseInv, ConnInv, Parsing, m
  <2>5. CountInv'
    BY <1>1, <1>2, <2>1 DEF BaseInv, CountInv
  <2>6. EntryInv'
    <3>1. ASSUME NEW i \in 1 .. Len(fifo')
          PROVE  /\ admitted'[fifo'[i].digest] # <<>>
                 /\ fifo'[i].firstSeen
                      = admitted'[fifo'[i].digest][Len(admitted'[fifo'[i].digest])]
      <4>1. PICK j \in 1 .. Len(fifo) : fifo'[i] = fifo[j]
        BY <1>6, <1>9
      <4> QED
        BY <4>1, <1>1, <2>1 DEF BaseInv, EntryInv, LastOf
    <3> QED
      BY <3>1, <1>5 DEF EntryInv, LastOf
  <2>7. schedule = "steady" => deliveries[m] > 1
    <3> SUFFICES ASSUME schedule = "steady"
                 PROVE  deliveries[m] > 1
      OBVIOUS
    <3>1. admitted[m] # <<>>
      BY <1>6, <1>8, <1>9 DEF Seen
    <3>2. macFound[c] = FALSE
      <4> SUFFICES ASSUME macFound[c] # FALSE
                   PROVE  FALSE
        OBVIOUS
      <4>1. PICK o \in 1 .. 3 : o < off[c] /\ Hour(clock) + Offsets[o] = sentHour[m]
        BY <1>2 DEF HandshakeInv, SteadyInv, Parsing, m
      <4>2. Hour(clock) + Offsets[off[c]] = sentHour[m]
        BY <1>2 DEF HandshakeInv, SteadyInv, m
      <4>3. Hour(clock) \in Int /\ Offsets[o] \in Int /\ Offsets[off[c]] \in Int
        <5>1. clock \in Nat
          BY <1>1, HandshakeAssumption DEF BaseInv, HandshakeTypes
        <5>2. Hour(clock) \in Int
          BY <5>1, HourDef
        <5>3. Offsets[o] \in Int /\ Offsets[off[c]] \in Int
          BY <1>3, OffsetsAre
        <5> QED
          BY <5>2, <5>3
      <4>4. Offsets[o] = Offsets[off[c]]
        BY <4>1, <4>2, <4>3
      <4>5. o = off[c]
        BY <4>4, <1>3, OffsetsAre
      <4> QED
        BY <4>1, <4>5
    <3> QED
      BY <3>1, <3>2, <1>1, <1>3 DEF BaseInv, CountInv, m
  <2>8. SteadyInv'
    <3> SUFFICES ASSUME schedule = "steady", schedule' = "steady"
                 PROVE  SteadyInv'
      BY <1>2 DEF SteadyInv
    <3>1. \A d \in Conns :
            pc'[d] \in {"stamp", "filter"} => Hour(clock) + Offsets[off[d]] = sentHour[msg[d]]
      BY <2>2 DEF HandshakeInv, SteadyInv
    <3>2. \A d \in Conns : pc'[d] = "filter" => stamp'[d] = clock
      BY <2>2 DEF HandshakeInv, SteadyInv
    <3>3. ASSUME NEW d \in Conns, Parsing(d)', macFound[d] # FALSE
          PROVE  \E o \in 1 .. 3 : o < off[d] /\ Hour(clock) + Offsets[o] = sentHour[msg[d]]
      <4>1. Parsing(d)
        BY <2>2, <3>3 DEF Parsing
      <4> QED
        BY <3>3, <4>1 DEF HandshakeInv, SteadyInv
    <3>4. \A d \in Conns : err'[d] = "replayed" => deliveries[msg[d]] > 1
      BY <2>2, <2>7 DEF HandshakeInv, SteadyInv, m
    <3> QED
      BY <3>1, <3>2, <3>3, <3>4, <1>2, <2>1 DEF HandshakeInv, SteadyInv
  <2> QED
    BY <2>3, <2>4, <2>5, <2>6, <2>8 DEF HandshakeInv, BaseInv
<1>10. CASE ~Seen(t, m)
  <2>1. /\ pc' = [pc EXCEPT ![c] = "mac"] /\ macFound' = [macFound EXCEPT ![c] = TRUE]
        /\ off' = [off EXCEPT ![c] = off[c] + 1]
        /\ admitted' = [admitted EXCEPT ![m] = Append(admitted[m], t)]
        /\ UNCHANGED err
    BY <1>10 DEF CheckReplay, Advance, m, t
  <2>2. /\ pc'[c] = "mac" /\ macFound'[c] = TRUE /\ off'[c] = off[c] + 1
        /\ \A d \in Conns : d # c => /\ pc'[d] = pc[d] /\ macFound'[d] = macFound[d]
                                     /\ off'[d] = off[d] /\ stamp'[d] = stamp[d]
    BY <1>1, <1>2, <2>1 DEF BaseInv, HandshakeTypes
  <2>3. /\ admitted[m] \in Seq(0 .. MaxTime) /\ Len(admitted[m]) \in Nat
        /\ admitted'[m] \in Seq(0 .. MaxTime)
        /\ admitted'[m] # <<>>
        /\ Len(admitted'[m]) = Len(admitted[m]) + 1
        /\ \A i \in 1 .. Len(admitted[m]) : admitted'[m][i] = admitted[m][i]
        /\ admitted'[m][Len(admitted[m]) + 1] = t
        /\ \A n \in Msgs : n # m => admitted'[n] = admitted[n]
    <3>1. admitted[m] \in Seq(0 .. MaxTime) /\ Len(admitted[m]) \in Nat
      BY <1>1, <1>3, LenProperties DEF BaseInv, HandshakeTypes
    <3>2. admitted'[m] = Append(admitted[m], t) /\ \A n \in Msgs : n # m => admitted'[n] = admitted[n]
      BY <1>1, <1>3, <2>1 DEF BaseInv, HandshakeTypes
    <3> QED
      BY <3>1, <3>2, <1>3, AppendProperties
  <2>4. HandshakeTypes'
    <3>1. admitted' \in [Msgs -> Seq(0 .. MaxTime)]
      BY <1>1, <2>1, <2>3 DEF BaseInv, HandshakeTypes
    <3>2. DOMAIN macFound' = Conns
      BY <1>1, <2>1 DEF BaseInv, HandshakeTypes
    <3> QED
      BY <1>1, <1>2, <1>3, <1>5, <2>1, <3>1, <3>2, HandshakeAssumption DEF BaseInv, HandshakeTypes, Places
  <2>5. ConnInv'
    BY <1>1, <1>2, <1>3, <2>1, <2>2 DEF BaseInv, ConnInv, Parsing, m
  <2>6. CountInv'
    <3>1. \A d \in Conns :
            msg'[d] # NoMsg => sentHour'[msg'[d]] # NotSent /\ deliveries'[msg'[d]] >= 1
      BY <1>1, <1>2 DEF BaseInv, CountInv
    <3>2. \A d, e \in Conns :
            d # e /\ msg'[d] # NoMsg /\ msg'[d] = msg'[e] => deliveries'[msg'[d]] > 1
      BY <1>1, <1>2 DEF BaseInv, CountInv
    <3>3. \A n \in Msgs : admitted'[n] # <<>> => sentHour'[n] # NotSent /\ deliveries'[n] >= 1
      <4>1. sentHour[m] # NotSent /\ deliveries[m] >= 1
        BY <1>1, <1>3 DEF BaseInv, CountInv, m
      <4> QED
        BY <4>1, <1>1, <1>2, <2>3 DEF BaseInv, CountInv
    <3>4. \A d \in Conns :
            msg'[d] # NoMsg /\ macFound'[d] = FALSE /\ admitted'[msg'[d]] # <<>>
              => deliveries'[msg'[d]] > 1
      <4> SUFFICES ASSUME NEW d \in Conns, msg[d] # NoMsg, macFound'[d] = FALSE,
                          admitted'[msg[d]] # <<>>
                   PROVE  deliveries[msg[d]] > 1
        BY <1>2
      <4>1. d # c /\ macFound[d] = FALSE /\ msg[d] \in Msgs
        BY <1>1, <2>2 DEF BaseInv, HandshakeTypes
      <4>2. CASE msg[d] = m
        BY <4>1, <4>2, <1>1, <1>3 DEF BaseInv, CountInv, m
      <4>3. CASE msg[d] # m
        BY <4>1, <4>3, <1>1, <2>3 DEF BaseInv, CountInv
      <4> QED
        BY <4>2, <4>3
    <3> QED
      BY <3>1, <3>2, <3>3, <3>4 DEF CountInv
  <2>7. EntryInv'
    <3>1. ASSUME NEW i \in 1 .. Len(fifo')
          PROVE  /\ admitted'[fifo'[i].digest] # <<>>
                 /\ fifo'[i].firstSeen
                      = admitted'[fifo'[i].digest][Len(admitted'[fifo'[i].digest])]
      <4>1. CASE \E j \in 1 .. Len(fifo) :
                   fifo'[i] = fifo[j] /\ fifo[j].digest \in SurvivingFilter(t)
        <5>1. PICK j \in 1 .. Len(fifo) :
                   fifo'[i] = fifo[j] /\ fifo[j].digest \in SurvivingFilter(t)
          BY <4>1
        <5>2. fifo[j].digest # m /\ fifo[j].digest \in Msgs
          BY <5>1, <1>7, <1>10 DEF Seen
        <5>3. admitted'[fifo[j].digest] = admitted[fifo[j].digest]
          BY <5>2, <2>3
        <5> QED
          BY <5>1, <5>3, <1>1 DEF BaseInv, EntryInv, LastOf
      <4>2. CASE fifo'[i] = [digest |-> m, firstSeen |-> t]
        <5>1. fifo'[i].digest = m /\ fifo'[i].firstSeen = t
          BY <4>2
        <5>2. admitted'[m] # <<>> /\ admitted'[m][Len(admitted'[m])] = t
          BY <2>3
        <5> QED
          BY <5>1, <5>2
      <4> QED
        BY <4>1, <4>2, <1>6
    <3> QED
      BY <3>1, <1>5 DEF EntryInv, LastOf
  <2>8. SteadyInv'
    <3> SUFFICES ASSUME schedule = "steady", schedule' = "steady"
                 PROVE  SteadyInv'
      BY <1>2 DEF SteadyInv
    <3>1. Hour(clock) + Offsets[off[c]] = sentHour[m] /\ t = clock
      BY <1>2 DEF HandshakeInv, SteadyInv, m, t
    <3>2. \A d \in Conns :
            pc'[d] \in {"stamp", "filter"} => Hour(clock) + Offsets[off'[d]] = sentHour[msg[d]]
      BY <2>2 DEF HandshakeInv, SteadyInv
    <3>3. \A d \in Conns : pc'[d] = "filter" => stamp'[d] = clock
      BY <2>2 DEF HandshakeInv, SteadyInv
    <3>4. ASSUME NEW d \in Conns, Parsing(d)', macFound'[d] # FALSE
          PROVE  \E o \in 1 .. 3 : o < off'[d] /\ Hour(clock) + Offsets[o] = sentHour[msg[d]]
      <4>1. CASE d = c
        <5>1. off[c] \in 1 .. 3 /\ off[c] < off'[c]
          BY <1>3, <2>2
        <5> QED
          BY <4>1, <5>1, <3>1 DEF m
      <4>2. CASE d # c
        <5>1. Parsing(d) /\ macFound[d] # FALSE /\ off'[d] = off[d]
          BY <4>2, <3>4, <2>2 DEF Parsing
        <5> QED
          BY <5>1 DEF HandshakeInv, SteadyInv
      <4> QED
        BY <4>1, <4>2
    <3>5. ASSUME NEW n \in Msgs, NEW i \in 1 .. Len(admitted'[n])
          PROVE  \E o \in 1 .. 3 : Hour(admitted'[n][i]) + Offsets[o] = sentHour[n]
      <4>1. CASE n = m /\ i = Len(admitted[m]) + 1
        BY <4>1, <2>3, <3>1, <1>3
      <4>2. CASE ~(n = m /\ i = Len(admitted[m]) + 1)
        <5>1. i \in 1 .. Len(admitted[n]) /\ admitted'[n][i] = admitted[n][i]
          BY <4>2, <2>3
        <5> QED
          BY <5>1 DEF HandshakeInv, SteadyInv
      <4> QED
        BY <4>1, <4>2
    <3>6. \A d \in Conns : err'[d] = "replayed" => deliveries[msg[d]] > 1
      BY <2>1 DEF HandshakeInv, SteadyInv
    <3>7. UNCHANGED <<clock, sentHour, deliveries, msg>>
      BY <1>2
    <3> QED
      BY <3>2, <3>3, <3>4, <3>5, <3>6, <3>7 DEF SteadyInv
  <2> QED
    BY <2>4, <2>5, <2>6, <2>7, <2>8 DEF HandshakeInv, BaseInv
<1> QED
  BY <1>9, <1>10

LEMMA NextHandshake == HandshakeInv /\ [Next]_vars => HandshakeInv'
<1> SUFFICES ASSUME HandshakeInv, [Next]_vars
             PROVE  HandshakeInv'
  OBVIOUS
<1>1. CASE Tick
  BY <1>1, TickHandshake
<1>2. ASSUME NEW m \in Msgs, Generate(m)
      PROVE  HandshakeInv'
  BY <1>2, GenerateHandshake
<1>3. ASSUME NEW c \in Conns,
             \/ Accept(c)
             \/ StopReading(c)
             \/ \E m \in Msgs : ReceiveRequest(c, m)
             \/ CompareMac(c)
             \/ ReadClock(c)
             \/ CheckReplay(c)
             \/ FinishParse(c)
             \/ CloseAfterDelay(c)
             \/ Disconnect(c)
      PROVE  HandshakeInv'
  BY <1>3, AcceptHandshake, StopReadingHandshake, ReceiveRequestHandshake,
     CompareMacHandshake, ReadClockHandshake, CheckReplayHandshake,
     FinishParseHandshake, CloseHandshake
  DEF CloseAfterDelay, Disconnect
<1>4. CASE UNCHANGED vars
  <2>1. UNCHANGED <<clock, sentHour, deliveries, pc, msg, off, stamp, macFound, err,
                    admitted, schedule, filterVars>>
    BY <1>4 DEF vars, connVars
  <2>2. BaseInv
    BY DEF HandshakeInv
  <2>3. EntryInv' /\ FilterTypeOK'
    BY <2>1, <2>2, FilterUntouched
  <2>4. HandshakeTypes' /\ ConnInv' /\ CountInv'
    BY <2>1, <2>2, <2>3 DEF BaseInv, HandshakeTypes, ConnInv, CountInv, Parsing
  <2>5. SteadyInv'
    BY <2>1 DEF HandshakeInv, SteadyInv, Parsing
  <2> QED
    BY <2>3, <2>4, <2>5 DEF HandshakeInv, BaseInv
<1> QED
  BY <1>1, <1>2, <1>3, <1>4 DEF Next

-----------------------------------------------------------------------------
(***************************************************************************)
(* The stamps of one request are TTL apart.  This needs the filter never   *)
(* to be at its capacity when it is queried: there the eldest entry is     *)
(* discarded whatever its age.                                             *)
(***************************************************************************)
NotFull == Len(fifo) < MaxFilterSize

LEMMA TTLIsNatural == TTL \in Nat
BY ReplayTTLAssumption, HandshakeAssumption

\* What a step preserves that leaves the filter and the admissions alone and
\* takes no stamp but that of the clock.
LEMMA OrderKept ==
  ASSUME HandshakeInv, OrderInv, UNCHANGED <<admitted, filter>>,
         clock' \in Int, clock <= clock',
         schedule' # "overtaken" => schedule # "overtaken",
         \A d \in Conns : pc'[d] = "filter" =>
           \/ pc[d] = "filter" /\ stamp'[d] = stamp[d]
           \/ stamp'[d] = clock
  PROVE  OrderInv'
<1>1. /\ clock \in Int /\ \A d \in Conns : stamp[d] \in Int
      /\ \A m \in Msgs : \A i \in 1 .. Len(admitted[m]) : admitted[m][i] \in Int
      /\ \A m \in Msgs : admitted[m] # <<>> => LastOf(m) + TTL \in Int
  <2>1. \A m \in Msgs : \A i \in 1 .. Len(admitted[m]) : admitted[m][i] \in 0 .. MaxTime
    BY ElementOfSeq DEF HandshakeInv, BaseInv, HandshakeTypes
  <2>2. \A m \in Msgs : admitted[m] # <<>> => Len(admitted[m]) \in 1 .. Len(admitted[m])
    BY LenProperties, EmptySeq DEF HandshakeInv, BaseInv, HandshakeTypes
  <2>3. 0 .. MaxTime \subseteq Int
    BY HandshakeAssumption
  <2>4. \A m \in Msgs : \A i \in 1 .. Len(admitted[m]) : admitted[m][i] \in Int
    BY <2>1, <2>3
  <2>5. \A m \in Msgs : admitted[m] # <<>> => LastOf(m) \in Int
    BY <2>2, <2>4 DEF LastOf
  <2>6. \A m \in Msgs : admitted[m] # <<>> => LastOf(m) + TTL \in Int
    BY <2>5, TTLIsNatural
  <2>7. clock \in Int /\ \A d \in Conns : stamp[d] \in Int
    BY <2>3 DEF HandshakeInv, BaseInv, HandshakeTypes
  <2> QED
    BY <2>4, <2>6, <2>7
<1>2. ASSUME NEW t \in Int, NowOrLater(t)
      PROVE  t <= clock' /\ \A d \in Conns : pc'[d] = "filter" => t <= stamp'[d]
  BY <1>1, <1>2 DEF NowOrLater
<1>3. \A d \in Conns : pc'[d] = "filter" => stamp'[d] <= clock'
  BY <1>1 DEF OrderInv
<1>4. schedule' # "overtaken" =>
        \A m \in Msgs : \A i \in 1 .. Len(admitted'[m]) :
          /\ admitted'[m][i] <= clock'
          /\ \A d \in Conns : pc'[d] = "filter" => admitted'[m][i] <= stamp'[d]
  BY <1>1, <1>2 DEF OrderInv
<1>5. schedule' # "overtaken" =>
        \A m \in Msgs : \A i, j \in 1 .. Len(admitted'[m]) :
          i < j => admitted'[m][j] - admitted'[m][i] >= TTL
  BY DEF OrderInv
<1>6. schedule' # "overtaken" =>
        \A m \in Msgs : admitted'[m] # <<>> /\ m \notin filter' =>
          /\ LastOf(m)' + TTL <= clock'
          /\ \A d \in Conns : pc'[d] = "filter" => LastOf(m)' + TTL <= stamp'[d]
  BY <1>1, <1>2 DEF OrderInv, LastOf
<1> QED
  BY <1>3, <1>4, <1>5, <1>6 DEF OrderInv, NowOrLater

LEMMA CheckReplayOrder ==
  ASSUME HandshakeInv, OrderInv, NotFull, NEW c \in Conns, CheckReplay(c)
  PROVE  OrderInv'
<1> DEFINE m == msg[c]
           t == stamp[c]
           Pending(d) == d # c /\ pc[d] = "filter"
<1>1. BaseInv
  BY DEF HandshakeInv
<1>2. /\ clock' = clock /\ pc[c] = "filter" /\ TestAndSet(t, m)
      /\ stamp' = [stamp EXCEPT ![c] = 0]
      /\ schedule' # "overtaken" =>
           /\ schedule # "overtaken"
           /\ \A d \in Conns : ~(pc[d] = "filter" /\ stamp[d] < t)
  BY DEF CheckReplay
<1>3. m \in Msgs /\ t \in Times /\ clock \in Int /\ \A d \in Conns : stamp[d] \in Int
  BY <1>1, <1>2, HandshakeAssumption DEF BaseInv, HandshakeTypes, ConnInv, Parsing
<1>4. FilterTypeOK /\ MapMatchesList /\ Bounded
  BY <1>1 DEF BaseInv, HandshakeTypes, EntryInv
<1>5. SurvivingFilter(t) \subseteq filter /\ filter' = SurvivingFilter(t) \cup {m}
  BY <1>2, <1>3, <1>4, EntriesAfter DEF Msgs
<1>6. \/ Seen(t, m) /\ pc' = [pc EXCEPT ![c] = "draining"] /\ admitted' = admitted
      \/ /\ ~Seen(t, m) /\ pc' = [pc EXCEPT ![c] = "mac"]
         /\ admitted' = [admitted EXCEPT ![m] = Append(admitted[m], t)]
  BY DEF CheckReplay, Fail
<1>7. \A d \in Conns : pc'[d] = "filter" => Pending(d) /\ stamp'[d] = stamp[d]
  BY <1>1, <1>2, <1>6 DEF BaseInv, HandshakeTypes
<1>8. \A n \in Msgs : /\ admitted[n] \in Seq(0 .. MaxTime) /\ Len(admitted[n]) \in Nat
                      /\ \A i \in 1 .. Len(admitted[n]) : admitted[n][i] \in Int
                      /\ admitted[n] # <<>> =>
                           Len(admitted[n]) \in 1 .. Len(admitted[n]) /\ LastOf(n) \in Int
  <2> TAKE n \in Msgs
  <2>1. admitted[n] \in Seq(0 .. MaxTime)
    BY <1>1 DEF BaseInv, HandshakeTypes
  <2>2. Len(admitted[n]) \in Nat /\ (admitted[n] # <<>> => Len(admitted[n]) \in 1 .. Len(admitted[n]))
    BY <2>1, LenProperties, EmptySeq
  <2>3. \A i \in 1 .. Len(admitted[n]) : admitted[n][i] \in 0 .. MaxTime
    BY <2>1, ElementOfSeq
  <2>4. 0 .. MaxTime \subseteq Int
    BY HandshakeAssumption
  <2> QED
    BY <2>1, <2>2, <2>3, <2>4 DEF LastOf
<1>9. \A d \in Conns : pc'[d] = "filter" => stamp'[d] <= clock'
  BY <1>2, <1>7 DEF OrderInv
<1>10. CASE schedule' = "overtaken"
  BY <1>9, <1>10 DEF OrderInv
<1>11. CASE schedule' # "overtaken"
  <2>1. /\ t <= clock
        /\ \A d \in Conns : pc'[d] = "filter" => t <= stamp'[d]
    BY <1>2, <1>3, <1>7, <1>11 DEF OrderInv
  <2>2. \A n \in Msgs : \A i \in 1 .. Len(admitted[n]) : admitted[n][i] <= t
    BY <1>2, <1>11 DEF OrderInv, NowOrLater
  <2>3. ASSUME NEW u \in Int, u <= t
        PROVE  u <= clock' /\ \A d \in Conns : pc'[d] = "filter" => u <= stamp'[d]
    BY <2>1, <2>3, <1>2, <1>3, <1>7
  <2>4. \A k \in 1 .. Len(fifo) :
          /\ fifo[k].digest \in Msgs /\ admitted[fifo[k].digest] # <<>>
          /\ fifo[k].firstSeen = LastOf(fifo[k].digest)
    <3>1. \A k \in 1 .. Len(fifo) : fifo[k] \in Entry
      BY <1>4, ElementOfSeq DEF FilterTypeOK
    <3> QED
      BY <3>1, <1>1 DEF BaseInv, EntryInv, Entry, Msgs
  <2>5. \A k \in 1 .. Len(fifo) : fifo[k].firstSeen <= t
    BY <2>2, <2>4, <1>8 DEF LastOf
  \* Whatever the query leaves no entry of, expired for this query.
  <2>6. ASSUME NEW n \in Msgs, admitted[n] # <<>>, n \notin SurvivingFilter(t)
        PROVE  t - LastOf(n) >= TTL
    <3>1. CASE n \in filter
      <4>1. PICK k \in 1 .. Len(fifo) : fifo[k].digest = n
        BY <3>1, <1>4 DEF MapMatchesList
      <4>2. t - fifo[k].firstSeen >= TTL
        BY <4>1, <2>5, <2>6, <1>3, <1>4, OnlyExpiredForgotten DEF NotFull
      <4> QED
        BY <4>1, <4>2, <2>4
    <3>2. CASE n \notin filter
      <4>1. LastOf(n) + TTL <= t
        BY <3>2, <2>6, <1>2, <1>11 DEF OrderInv, NowOrLater
      <4> QED
        BY <4>1, <2>6, <1>3, <1>8, TTLIsNatural
    <3> QED
      BY <3>1, <3>2
  <2>7. CASE Seen(t, m)
    <3>1. admitted' = admitted /\ filter' = SurvivingFilter(t)
      BY <2>7, <1>5, <1>6 DEF Seen
    <3>2. \A n \in Msgs : \A i \in 1 .. Len(admitted'[n]) :
            /\ admitted'[n][i] <= clock'
            /\ \A d \in Conns : pc'[d] = "filter" => admitted'[n][i] <= stamp'[d]
      BY <3>1, <2>2, <2>3, <1>8
    <3>3. \A n \in Msgs : \A i, j \in 1 .. Len(admitted'[n]) :
            i < j => admitted'[n][j] - admitted'[n][i] >= TTL
      BY <3>1, <1>2, <1>11 DEF OrderInv
    <3>4. \A n \in Msgs : admitted'[n] # <<>> /\ n \notin filter' =>
            /\ LastOf(n)' + TTL <= clock'
            /\ \A d \in Conns : pc'[d] = "filter" => LastOf(n)' + TTL <= stamp'[d]
      <4> TAKE n \in Msgs
      <4> HAVE admitted'[n] # <<>> /\ n \notin filter'
      <4>1. t - LastOf(n) >= TTL /\ LastOf(n) \in Int
        BY <3>1, <2>6, <1>8
      <4>2. LastOf(n) + TTL \in Int /\ LastOf(n) + TTL <= t
        BY <4>1, <1>3, TTLIsNatural, HandshakeAssumption, FilterAssumption
      <4>3. LastOf(n)' = LastOf(n)
        BY <3>1 DEF LastOf
      <4> QED
        BY <4>2, <4>3, <2>3
    <3> QED
      BY <3>2, <3>3, <3>4, <1>9 DEF OrderInv, NowOrLater
  <2>8. CASE ~Seen(t, m)
    <3> DEFINE a == admitted[m]
               k == Len(a)
    <3>1. /\ a \in Seq(0 .. MaxTime) /\ k \in Nat /\ t \in 0 .. MaxTime
          /\ admitted'[m] = Append(a, t)
          /\ \A n \in Msgs : n # m => admitted'[n] = admitted[n]
          /\ m \notin SurvivingFilter(t)
      BY <2>8, <1>1, <1>3, <1>6, <1>8 DEF BaseInv, HandshakeTypes, Seen
    <3>2. /\ Len(admitted'[m]) = k + 1
          /\ \A i \in 1 .. k : admitted'[m][i] = a[i]
          /\ admitted'[m][k + 1] = t
      <4> HIDE DEF a, t
      <4> QED
        BY <3>1, AppendProperties
    <3>3. \A n \in Msgs : \A i \in 1 .. Len(admitted'[n]) :
            admitted'[n][i] \in Int /\ admitted'[n][i] <= t
      <4> TAKE n \in Msgs
      <4> TAKE i \in 1 .. Len(admitted'[n])
      <4>1. CASE n = m /\ i = k + 1
        BY <4>1, <3>2, <1>3
      <4>2. CASE ~(n = m /\ i = k + 1)
        <5>1. CASE n = m
          BY <4>2, <5>1, <3>1, <3>2, <2>2, <1>8
        <5>2. CASE n # m
          BY <5>2, <3>1, <2>2, <1>8
        <5> QED
          BY <5>1, <5>2
      <4> QED
        BY <4>1, <4>2
    <3>4. \A i \in 1 .. k : t - a[i] >= TTL
      <4> TAKE i \in 1 .. k
      <4>1. a # <<>> /\ k \in 1 .. k /\ a[k] \in Int /\ a[i] \in Int
        BY <1>3, <1>8, <3>1, EmptySeq
      <4>2. t - a[k] >= TTL
        BY <4>1, <3>1, <2>6, <1>3 DEF LastOf
      <4>3. CASE i = k
        BY <4>2, <4>3
      <4>4. CASE i < k
        <5>1. a[k] - a[i] >= TTL
          BY <4>1, <4>4, <1>2, <1>3, <1>11 DEF OrderInv
        <5> QED
          BY <5>1, <4>1, <4>2, <1>3, TTLIsNatural
      <4> QED
        BY <4>3, <4>4, <3>1
    <3>5. ASSUME NEW n \in Msgs, NEW i \in 1 .. Len(admitted'[n]), NEW j \in 1 .. Len(admitted'[n]),
                 i < j
          PROVE  admitted'[n][j] - admitted'[n][i] >= TTL
      <4>1. CASE n = m /\ j = k + 1
        <5>1. i \in 1 .. k
          BY <4>1, <3>1, <3>2, <3>5
        <5> QED
          BY <4>1, <5>1, <3>2, <3>4
      <4>2. CASE ~(n = m /\ j = k + 1)
        <5>1. /\ i \in 1 .. Len(admitted[n]) /\ j \in 1 .. Len(admitted[n])
              /\ admitted'[n][i] = admitted[n][i] /\ admitted'[n][j] = admitted[n][j]
          <6>1. CASE n = m
            BY <4>2, <6>1, <3>1, <3>2, <3>5
          <6>2. CASE n # m
            BY <6>2, <3>1, <3>5
          <6> QED
            BY <6>1, <6>2
        <5> QED
          BY <5>1, <3>5, <1>2, <1>11 DEF OrderInv
      <4> QED
        BY <4>1, <4>2
    <3>6. \A n \in Msgs : admitted'[n] # <<>> /\ n \notin filter' =>
            /\ LastOf(n)' + TTL <= clock'
            /\ \A d \in Conns : pc'[d] = "filter" => LastOf(n)' + TTL <= stamp'[d]
      <4> TAKE n \in Msgs
      <4> HAVE admitted'[n] # <<>> /\ n \notin filter'
      <4>1. n # m /\ n \notin SurvivingFilter(t)
        BY <1>5
      <4>2. admitted'[n] = admitted[n]
        BY <4>1, <3>1
      <4>3. t - LastOf(n) >= TTL /\ LastOf(n) \in Int
        BY <4>1, <4>2, <2>6, <1>8
      <4>4. LastOf(n) + TTL \in Int /\ LastOf(n) + TTL <= t
        BY <4>3, <1>3, TTLIsNatural
      <4>5. LastOf(n)' = LastOf(n)
        BY <4>2 DEF LastOf
      <4> QED
        BY <4>4, <4>5, <2>3
    <3>7. \A n \in Msgs : \A i \in 1 .. Len(admitted'[n]) :
            /\ admitted'[n][i] <= clock'
            /\ \A d \in Conns : pc'[d] = "filter" => admitted'[n][i] <= stamp'[d]
      BY <3>3, <2>3
    <3> HIDE DEF a, k
    <3> QED
      BY <3>5, <3>6, <3>7, <1>9 DEF OrderInv, NowOrLater
  <2> QED
    BY <2>7, <2>8
<1> QED
  BY <1>10, <1>11

LEMMA NextOrder == HandshakeInv /\ OrderInv /\ NotFull /\ [Next]_vars => OrderInv'
<1> SUFFICES ASSUME HandshakeInv, OrderInv, NotFull, [Next]_vars
             PROVE  OrderInv'
  OBVIOUS
<1>1. clock \in Int /\ HandshakeTypes
  BY DEF HandshakeInv, BaseInv, HandshakeTypes
<1>2. ASSUME NEW c \in Conns, CheckReplay(c)
      PROVE  OrderInv'
  BY <1>2, CheckReplayOrder
<1>3. CASE \/ Tick
           \/ \E m \in Msgs : Generate(m)
           \/ UNCHANGED vars
  <2>1. /\ UNCHANGED <<admitted, filter, pc, stamp>>
        /\ clock' \in Int /\ clock <= clock'
        /\ schedule' # "overtaken" => schedule # "overtaken"
    BY <1>1, <1>3 DEF Tick, Generate, vars, connVars, filterVars
  <2> QED
    BY <2>1, OrderKept
<1>4. ASSUME NEW c \in Conns, ReadClock(c)
      PROVE  OrderInv'
  <2>1. /\ UNCHANGED <<admitted, filter, clock, schedule>>
        /\ pc' = [pc EXCEPT ![c] = "filter"] /\ stamp' = [stamp EXCEPT ![c] = clock]
    BY <1>4 DEF ReadClock, filterVars
  <2>2. \A d \in Conns : pc'[d] = "filter" =>
          \/ pc[d] = "filter" /\ stamp'[d] = stamp[d]
          \/ stamp'[d] = clock
    BY <1>1, <2>1 DEF HandshakeTypes
  <2> QED
    BY <1>1, <2>1, <2>2, OrderKept
<1>5. ASSUME NEW c \in Conns,
             \/ Accept(c)
             \/ StopReading(c)
             \/ \E m \in Msgs : ReceiveRequest(c, m)
             \/ CompareMac(c)
             \/ FinishParse(c)
             \/ CloseAfterDelay(c)
             \/ Disconnect(c)
      PROVE  OrderInv'
  <2>1. /\ UNCHANGED <<admitted, filter, clock, schedule, stamp>>
        /\ \/ pc' = pc
           \/ \E p \in Places \ {"filter"} : pc' = [pc EXCEPT ![c] = p]
    BY <1>5 DEF Accept, StopReading, ReceiveRequest, CompareMac, FinishParse, CloseAfterDelay,
                Disconnect, Close, Fail, Places, filterVars
  <2>2. \A d \in Conns : pc'[d] = "filter" => pc[d] = "filter"
    BY <1>1, <2>1 DEF HandshakeTypes
  <2> QED
    BY <1>1, <2>1, <2>2, OrderKept
<1> QED
  BY <1>2, <1>3, <1>4, <1>5 DEF Next

-----------------------------------------------------------------------------
(* The theorems. *)

\* What relates the connections, the deliveries and the filter holds in every
\* state: a digest is in the filter since the query that admitted it, and
\* without a tick during a parse only a second delivery can meet it there.
THEOREM HandshakeInvIsInvariant == Spec => []HandshakeInv
<1>1. Init => HandshakeInv
  BY InitHandshake
<1>2. HandshakeInv /\ [Next]_vars => HandshakeInv'
  BY NextHandshake
<1> QED
  BY <1>1, <1>2, PTL DEF Spec

\* A request that the server reports as replayed has reached it at least
\* twice, unless the clock ticked during a parse: parseClientHandshake does
\* not mistake its own first query for a replay, though it goes on comparing
\* hours after a match.
THEOREM ReplayAlwaysMeansSecondDelivery == Spec => []ReplayMeansSecondDelivery
<1>1. HandshakeInv => ReplayMeansSecondDelivery
  BY DEF HandshakeInv, SteadyInv, ReplayMeansSecondDelivery
<1> QED
  BY <1>1, HandshakeInvIsInvariant, PTL

LEMMA OrderInvWhileNotFull == Spec /\ []NotFull => [](HandshakeInv /\ OrderInv)
<1>1. Init => OrderInv
  BY InitHandshake
<1>2. HandshakeInv /\ OrderInv /\ NotFull /\ [Next]_vars => OrderInv'
  BY NextOrder
<1> QED
  BY <1>1, <1>2, HandshakeInvIsInvariant, PTL DEF Spec

\* As long as the filter has room, two admissions of one request are at least
\* the TTL apart, whatever the clock does, unless one goroutine overtook
\* another on the way from time.Now() to the filter's lock.
THEOREM AdmittedTwiceAlwaysApart == Spec /\ []NotFull => []AdmittedTwiceApart
<1>1. HandshakeInv /\ OrderInv => AdmittedTwiceApart
  BY DEF OrderInv, AdmittedTwiceApart
<1> QED
  BY <1>1, OrderInvWhileNotFull, PTL

\* As long as the filter has room, no request is admitted twice, unless the
\* clock ticked during a parse: three hours of replayTTL outlast the hours in
\* which parseClientHandshake accepts the MAC of one request.
THEOREM AdmittedAtMostOnce == Spec /\ []NotFull => []AdmittedOnce
<1>1. ASSUME HandshakeInv, OrderInv
      PROVE  AdmittedOnce
  <2> SUFFICES ASSUME schedule = "steady", NEW m \in Msgs, ~(Len(admitted[m]) <= 1)
               PROVE  FALSE
    BY DEF AdmittedOnce
  <2> DEFINE a == admitted[m]
             t == a[1]
             u == a[2]
  <2>1. admitted[m] \in Seq(0 .. MaxTime)
    BY <1>1 DEF HandshakeInv, BaseInv, HandshakeTypes
  <2>2. 1 \in 1 .. Len(a) /\ 2 \in 1 .. Len(a)
    BY <2>1, LenProperties
  <2>3. t \in Nat /\ u \in Nat
    <3>1. t \in 0 .. MaxTime /\ u \in 0 .. MaxTime
      BY <2>1, <2>2, ElementOfSeq
    <3>2. 0 .. MaxTime \subseteq Nat
      BY HandshakeAssumption
    <3> QED
      BY <3>1, <3>2
  <2>4. PICK o \in 1 .. 3 : Hour(t) + Offsets[o] = sentHour[m]
    BY <1>1, <2>2 DEF HandshakeInv, SteadyInv
  <2>5. PICK p \in 1 .. 3 : Hour(u) + Offsets[p] = sentHour[m]
    BY <1>1, <2>2 DEF HandshakeInv, SteadyInv
  <2>6. Hour(t) + Offsets[o] = Hour(u) + Offsets[p]
    BY <2>4, <2>5
  <2>7. u - t >= TTL
    BY <1>1, <2>2 DEF OrderInv
  <2> HIDE DEF t, u
  <2>8. u - t < 3 * HourLength
    BY <2>3, <2>6, WindowIsThreeHours
  <2> QED
    BY <2>3, <2>7, <2>8, ReplayTTLAssumption, TTLIsNatural
<1>2. HandshakeInv /\ OrderInv => AdmittedOnce
  BY <1>1
<1> QED
  BY <1>2, OrderInvWhileNotFull, PTL

\* The filter keeps room when fewer different requests exist than it has
\* places for, however often each of them is delivered.
THEOREM FewRequestsNeverFill ==
  ASSUME IsFiniteSet(Digests), Cardinality(Digests) < MaxFilterSize
  PROVE  Spec => [](NotFull /\ AdmittedOnce /\ AdmittedTwiceApart)
<1>1. ASSUME HandshakeInv
      PROVE  NotFull
  <2> DEFINE s == [i \in 1 .. Len(fifo) |-> fifo[i].digest]
             D == {fifo[i].digest : i \in 1 .. Len(fifo)}
  <2>1. FilterTypeOK /\ MapMatchesList
    BY <1>1 DEF HandshakeInv, BaseInv, HandshakeTypes, EntryInv
  <2>2. Len(fifo) \in Nat /\ \A i \in 1 .. Len(fifo) : fifo[i].digest \in Digests
    <3>1. fifo \in Seq(Entry)
      BY <2>1 DEF FilterTypeOK
    <3>2. \A i \in 1 .. Len(fifo) : fifo[i] \in Entry
      BY <3>1, ElementOfSeq
    <3> QED
      BY <3>1, <3>2, LenProperties DEF Entry
  <2>3. s \in Seq(Digests) /\ Len(s) = Len(fifo)
    BY <2>2, IsASeq
  <2>4. \A i, j \in 1 .. Len(s) : s[i] = s[j] => i = j
    BY <2>1, <2>3 DEF MapMatchesList
  <2>5. D = {s[i] : i \in 1 .. Len(s)}
    BY <2>3
  <2>6. D \subseteq Digests
    BY <2>2
  <2> HIDE DEF s, D
  <2>7. Cardinality(D) = Len(fifo)
    BY <2>3, <2>4, <2>5, MembersOfList
  <2>8. Cardinality(D) <= Cardinality(Digests)
    BY <2>6, FS_Subset
  <2>9. Cardinality(Digests) \in Nat /\ MaxFilterSize \in Nat
    BY FS_CardinalityType, FilterAssumption
  <2> QED
    BY <2>2, <2>7, <2>8, <2>9 DEF NotFull
<1>2. Spec => []NotFull
  BY <1>1, HandshakeInvIsInvariant, PTL
<1> QED
  BY <1>2, AdmittedAtMostOnce, AdmittedTwiceAlwaysApart, PTL
=============================================================================
