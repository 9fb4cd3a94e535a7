---------------------------- MODULE ReplayFilter ----------------------------
(***************************************************************************)
(* The replay filter of common/replayfilter/replay_filter.go: a hash map   *)
(* of digests and a list of its entries in order of insertion, bounded in  *)
(* size and pruned by age whenever it is queried.                          *)
(*                                                                         *)
(* This module is the data structure and its one operation; the modules    *)
(* that extend it call the operation.                                      *)
(***************************************************************************)
EXTENDS Integers, Sequences, FiniteSets

CONSTANTS
  Digests,        \* the SipHash digests of the byte sequences queried
  Times,          \* the values of time.Now() a caller may bring
  MaxFilterSize,  \* maxFilterSize (100 * 1024 in the code)
  TTL             \* the ttl given to New (3 hours in obfs4)

ASSUME FilterAssumption ==
  /\ Times \subseteq Int
  /\ MaxFilterSize \in Nat \ {0}
  /\ TTL \in Int

VARIABLES
  filter,   \* the digests that have an entry in the map f.filter
  fifo      \* f.fifo, eldest entry first

filterVars == <<filter, fifo>>

Entry == [digest : Digests, firstSeen : Times]

FilterTypeOK ==
  /\ filter \in SUBSET Digests
  /\ fifo \in Seq(Entry)

FilterInit ==
  /\ filter = {}
  /\ fifo = <<>>

-----------------------------------------------------------------------------
(***************************************************************************)
(* compactFilter(t) walks the list from the front.  With k entries removed *)
(* it stops at the first entry that it may judge by its age (the filter is *)
(* below its capacity) and whose age is under the TTL; an age below zero   *)
(* discards the whole filter.                                              *)
(***************************************************************************)
\* Mutant: the size is compared with <= where it should be <.
JudgedByAgeOneOver(k) == Len(fifo) - k <= MaxFilterSize /\ TTL > 0

\* Mutant: an entry too many is kept free.
JudgedByAgeOneUnder(k) == Len(fifo) - k < MaxFilterSize - 1 /\ TTL > 0

JudgedByAge(k) == Len(fifo) - k < MaxFilterSize /\ TTL > 0

\* Mutant: an entry whose age is the TTL is kept.
StopsAtTTL(t, k) ==
  \/ k = Len(fifo)
  \/ JudgedByAge(k) /\ t - fifo[k + 1].firstSeen <= TTL

StopsAt(t, k) ==
  \/ k = Len(fifo)
  \/ JudgedByAge(k) /\ t - fifo[k + 1].firstSeen < TTL

Purged(t) ==
  CHOOSE k \in 0 .. Len(fifo) :
    StopsAt(t, k) /\ \A j \in 0 .. (k - 1) : ~StopsAt(t, j)

\* Mutant: entries from the future are left alone.
TimeNeverWentBack(t) == FALSE

\* Mutant: an age of zero counts as negative.
TimeStoodStill(t) ==
  Purged(t) < Len(fifo) /\ t <= fifo[Purged(t) + 1].firstSeen

TimeWentBack(t) ==
  Purged(t) < Len(fifo) /\ t < fifo[Purged(t) + 1].firstSeen

\* What the two structures hold when compactFilter returns.
SurvivingFifo(t) ==
  IF TimeWentBack(t) THEN <<>> ELSE SubSeq(fifo, Purged(t) + 1, Len(fifo))

\* Mutant: expired entries leave the list and stay in the map.
UnprunedFilter(t) == IF TimeWentBack(t) THEN {} ELSE filter

SurvivingFilter(t) ==
  IF TimeWentBack(t)
  THEN {}
  ELSE filter \ {fifo[i].digest : i \in 1 .. Purged(t)}

\* One call of f.TestAndSet(t, buf), d the digest of buf.
Seen(t, d) == d \in SurvivingFilter(t)

\* Mutant: PushFront where it should be PushBack.
TestAndSetFront(t, d) ==
  /\ ~Seen(t, d)
  /\ filter' = SurvivingFilter(t) \cup {d}
  /\ fifo' = <<[digest |-> d, firstSeen |-> t]>> \o SurvivingFifo(t)

TestAndSet(t, d) ==
  IF Seen(t, d)
  THEN /\ filter' = SurvivingFilter(t)
       /\ fifo' = SurvivingFifo(t)
  ELSE /\ filter' = SurvivingFilter(t) \cup {d}
       /\ fifo' = Append(SurvivingFifo(t), [digest |-> d, firstSeen |-> t])

-----------------------------------------------------------------------------
\* The map and the list describe the same entries, each digest once: no
\* digest can stay in the map after its entry left the list (it would be a
\* replay forever), and none can be in the list twice.
MapMatchesList ==
  /\ filter = {fifo[i].digest : i \in 1 .. Len(fifo)}
  /\ \A i, j \in 1 .. Len(fifo) :
       fifo[i].digest = fifo[j].digest => i = j

\* "the maximum capacity of a replay filter": it is never exceeded, in spite
\* of an insertion that follows the compaction without looking at the size.
Bounded == Len(fifo) <= MaxFilterSize
=============================================================================
