---------------------------- MODULE FilterQueries ----------------------------
(***************************************************************************)
(* A replay filter and its callers.  A caller reads the clock BEFORE it    *)
(* takes the filter's lock, so the times that successive queries carry     *)
(* need not be in order.  orderly is a history variable: so far they were. *)
(***************************************************************************)
EXTENDS ReplayFilter

VARIABLES
  now,      \* the time the latest query carried
  hit,      \* what the latest query returned
  orderly   \* history: the times of the queries never decreased

queryVars == <<filter, fifo, now, hit, orderly>>

QueryTypeOK ==
  /\ FilterTypeOK
  /\ now \in Times
  /\ hit \in BOOLEAN
  /\ orderly \in BOOLEAN

QueryInit ==
  /\ FilterInit
  /\ now \in Times
  /\ hit = FALSE
  /\ orderly = TRUE

Query(t, d) ==
  /\ TestAndSet(t, d)
  /\ hit' = Seen(t, d)
  /\ now' = t
  /\ orderly' = (orderly /\ t >= now)

QueryNext == \E t \in Times, d \in Digests : Query(t, d)

QuerySpec == QueryInit /\ [][QueryNext]_queryVars

-----------------------------------------------------------------------------
\* After a query the eldest entry is within its time to live, so a filter
\* below its capacity holds nothing in front that has expired.
FrontIsFresh ==
  fifo # <<>> => now >= fifo[1].firstSeen /\ (TTL > 0 => now - fifo[1].firstSeen < TTL)

\* The list is in order of age as long as the callers' times are: the
\* compaction stops at the first young entry and relies on this to find all
\* the old ones.
Sorted ==
  \A i, j \in 1 .. Len(fifo) :
    i <= j => fifo[i].firstSeen <= fifo[j].firstSeen

SortedWhileOrderly == orderly => Sorted

\* The filter forgets an entry for one of three reasons only: the entry's
\* time to live has passed; it was the eldest of a full filter; or the query
\* carried a time from before the entry that had become the eldest, which
\* compactFilter takes for a jump of the system's clock and answers by
\* discarding everything.
ForgetsOnlyWithCause ==
  [][\A i \in 1 .. Len(fifo) :
       \/ \E j \in 1 .. Len(fifo') : fifo'[j] = fifo[i]
       \/ now' - fifo[i].firstSeen >= TTL
       \/ i = 1 /\ Len(fifo) = MaxFilterSize
       \/ \E j \in 1 .. Len(fifo) : now' < fifo[j].firstSeen]_queryVars

(***************************************************************************)
(* What the filter promises a caller whose times never decrease.           *)
(***************************************************************************)
Guard == INSTANCE ReplayGuard
           WITH seen <- {fifo[i] : i \in 1 .. Len(fifo)}

\* Until a query goes back in time, the filter is the abstract guard: every
\* answer is exact but for one digest forgotten early at capacity.
GuardedWhileOrderly == Guard!Init /\ [][orderly' => Guard!Next]_queryVars
=============================================================================
