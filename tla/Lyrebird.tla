------------------------------ MODULE Lyrebird ------------------------------
(***************************************************************************)
(* The lyrebird process: main and the termMonitor it waits in, the accept  *)
(* loops, one handler goroutine per connection with the two directions of  *)
(* its copyLoop, and the ways in which the process learns that it should   *)
(* go: signals, and the goroutine that watches stdin or the parent.        *)
(*                                                                         *)
(* handlerChan and sigChan are unbuffered, so a goroutine's send and the   *)
(* select of wait are one step, possible only while main is in the select. *)
(* signal.Notify does not wait: a signal that finds main elsewhere is lost.*)
(***************************************************************************)
EXTENDS Integers, FiniteSets

CONSTANTS
  Handlers,     \* the connections that may come (bound)
  MaxSignals    \* bound: signals sent by somebody else than the kernel

ASSUME LyrebirdAssumption ==
  /\ IsFiniteSet(Handlers)
  /\ MaxSignals \in Nat

VARIABLES
  main,         \* where main is
  numHandlers,  \* m.numHandlers
  listening,    \* the listeners are open
  handler,      \* handler[h]: where the handler of connection h is
  open,         \* open[h]: the peers of h that have not closed, "a" and "b"
  copying,      \* copying[h]: the directions still in io.Copy
  monitor,      \* how newTermMonitor will notice that tor is gone (termOnPPIDChange,
                \* the last resort, behaves like "stdin")
  parent,       \* tor is alive (and holds our stdin open)
  watcher,      \* the goroutine of termOnStdinClose or termOnPPIDChange
  signals       \* signals sent so far

handlerVars == <<handler, open, copying>>
vars == <<main, numHandlers, listening, handlerVars, monitor, parent, watcher, signals>>

\* The two ends of a relay: the SOCKS or OR connection, the transport's.
Ends == {"a", "b"}
\* The two io.Copy: "up" from a to b, "down" from b to a.
Directions == {"up", "down"}
From(d) == IF d = "up" THEN "a" ELSE "b"
To(d) == IF d = "up" THEN "b" ELSE "a"

Init ==
  /\ main = "setup"
  /\ numHandlers = 0
  /\ listening = FALSE
  /\ handler = [h \in Handlers |-> "none"]
  /\ open = [h \in Handlers |-> {}]
  /\ copying = [h \in Handlers |-> {}]
  /\ monitor \in {"stdin", "pdeathsig"}
  /\ parent = TRUE
  /\ watcher = IF monitor = "pdeathsig" THEN "none" ELSE "watching"
  /\ signals = 0

-----------------------------------------------------------------------------
(* main.                                                                   *)

\* clientSetup and serverSetup start accepting before they are done.
Listen ==
  /\ main = "setup"
  /\ ~listening
  /\ listening' = TRUE
  /\ UNCHANGED <<main, numHandlers, handlerVars, monitor, parent, watcher, signals>>

SetupDone ==
  /\ main = "setup"
  /\ listening
  /\ main' = "wait"
  /\ UNCHANGED <<numHandlers, listening, handlerVars, monitor, parent, watcher, signals>>

\* Mutant: the wait for the last handler listens to nobody.
InFirstSelect == main = "wait"

\* main is in the select of wait(termOnNoHandlers).
InSelect == main \in {"wait", "waitNone"}

\* handlerChan delivers n.
Count(n) ==
  /\ InSelect
  /\ numHandlers' = numHandlers + n
  /\ main' = IF main = "wait" THEN "counted" ELSE "countedNone"

\* Mutant: wait(true) does not look at the count.
WaitForEver ==
  /\ \/ main = "counted" /\ main' = "wait"
     \/ main = "countedNone" /\ main' = "waitNone"
  /\ UNCHANGED <<numHandlers, listening, handlerVars, monitor, parent, watcher, signals>>

\* The rest of the turn: wait(true) gives up if no handler is left.
WaitAgain ==
  /\ \/ main = "counted" /\ main' = "wait"
     \/ main = "countedNone" /\ numHandlers = 0 /\ main' = "exited"
     \/ main = "countedNone" /\ numHandlers # 0 /\ main' = "waitNone"
  /\ UNCHANGED <<numHandlers, listening, handlerVars, monitor, parent, watcher, signals>>

\* sigChan delivers: SIGINT takes the first wait to the closing of the
\* listeners, everything else ends the process.
Return(sig) ==
  /\ InSelect
  /\ main' = IF main = "wait" /\ sig = "SIGINT" THEN "closing" ELSE "exited"

CloseListeners ==
  /\ main = "closing"
  /\ main' = "waitNone"
  /\ listening' = FALSE
  /\ UNCHANGED <<numHandlers, handlerVars, monitor, parent, watcher, signals>>

-----------------------------------------------------------------------------
(* Signals, the parent, and who watches it.                                *)

\* The non-blocking send of package signal.
Deliver(sig) == IF InSelect THEN Return(sig) ELSE UNCHANGED main

Signal(sig) ==
  /\ main # "exited"
  /\ signals < MaxSignals
  /\ signals' = signals + 1
  /\ Deliver(sig)
  /\ UNCHANGED <<numHandlers, listening, handlerVars, monitor, parent, watcher>>

\* tor dies.  With PR_SET_PDEATHSIG the kernel sends SIGTERM at that moment.
ParentDies ==
  /\ main # "exited"
  /\ parent
  /\ parent' = FALSE
  /\ IF monitor = "pdeathsig" THEN Deliver("SIGTERM") ELSE UNCHANGED main
  /\ UNCHANGED <<numHandlers, listening, handlerVars, monitor, watcher, signals>>

\* Stdin is at its end, or Getppid has changed.
WatcherNotices ==
  /\ main # "exited"
  /\ watcher = "watching"
  /\ ~parent
  /\ watcher' = "sending"
  /\ UNCHANGED <<main, numHandlers, listening, handlerVars, monitor, parent, signals>>

\* Mutant: a send that does not wait, like that of package signal.
WatcherTries ==
  /\ watcher = "sending"
  /\ Deliver("SIGTERM")
  /\ watcher' = "done"
  /\ UNCHANGED <<numHandlers, listening, handlerVars, monitor, parent, signals>>

WatcherSends ==
  /\ watcher = "sending"
  /\ Return("SIGTERM")
  /\ watcher' = "done"
  /\ UNCHANGED <<numHandlers, listening, handlerVars, monitor, parent, signals>>

-----------------------------------------------------------------------------
(* Connections.                                                            *)

Becomes(h, state) == handler' = [handler EXCEPT ![h] = state]
OtherVars == <<listening, monitor, parent, watcher, signals>>

Accept(h) ==
  /\ main # "exited"
  /\ listening
  /\ handler[h] = "none"
  /\ Becomes(h, "starting")
  /\ UNCHANGED <<main, numHandlers, open, copying, OtherVars>>

\* Mutant: a send that does not wait for main.
HandlerStartsAnyway(h) ==
  /\ main # "exited"
  /\ handler[h] = "starting"
  /\ IF InSelect THEN Count(1) ELSE UNCHANGED <<main, numHandlers>>
  /\ Becomes(h, "handshake")
  /\ UNCHANGED <<open, copying, OtherVars>>

\* onHandlerStart.
HandlerStart(h) ==
  /\ handler[h] = "starting"
  /\ Count(1)
  /\ Becomes(h, "handshake")
  /\ UNCHANGED <<open, copying, OtherVars>>

\* SOCKS and transport handshake and the dialling, which fail or do not.
Handshake(h) ==
  /\ main # "exited"
  /\ handler[h] = "handshake"
  /\ \/ /\ Becomes(h, "relay")
        /\ open' = [open EXCEPT ![h] = Ends]
        /\ copying' = [copying EXCEPT ![h] = Directions]
     \/ /\ Becomes(h, "finishing")
        /\ UNCHANGED <<open, copying>>
  /\ UNCHANGED <<main, numHandlers, OtherVars>>

\* One peer of the relay closes its connection.
PeerCloses(h, e) ==
  /\ main # "exited"
  /\ handler[h] = "relay"
  /\ e \in open[h]
  /\ open' = [open EXCEPT ![h] = @ \ {e}]
  /\ UNCHANGED <<main, numHandlers, handler, copying, OtherVars>>

\* An io.Copy ends at the end of what it reads.
CopyEnds(h, d) ==
  /\ main # "exited"
  /\ d \in copying[h]
  /\ From(d) \notin open[h]
  /\ copying' = [copying EXCEPT ![h] = @ \ {d}]
  /\ UNCHANGED <<main, numHandlers, handler, open, OtherVars>>

\* An io.Copy ends for want of someone to write to, if it has data.
CopyFails(h, d) ==
  /\ main # "exited"
  /\ d \in copying[h]
  /\ To(d) \notin open[h]
  /\ copying' = [copying EXCEPT ![h] = @ \ {d}]
  /\ UNCHANGED <<main, numHandlers, handler, open, OtherVars>>

\* copyLoop returns: its own io.Copy is over, the other one's error is in
\* errChan, and only then are a and b closed.
RelayEnds(h) ==
  /\ main # "exited"
  /\ handler[h] = "relay"
  /\ copying[h] = {}
  /\ Becomes(h, "finishing")
  /\ open' = [open EXCEPT ![h] = {}]
  /\ UNCHANGED <<main, numHandlers, copying, OtherVars>>

\* onHandlerFinish.
HandlerFinish(h) ==
  /\ handler[h] = "finishing"
  /\ Count(-1)
  /\ Becomes(h, "done")
  /\ UNCHANGED <<open, copying, OtherVars>>

HandlerRuns(h) ==
  \/ HandlerStart(h)
  \/ Handshake(h)
  \/ \E d \in Directions : CopyEnds(h, d)
  \/ RelayEnds(h)
  \/ HandlerFinish(h)

Next ==
  \/ Listen \/ SetupDone \/ WaitAgain \/ CloseListeners
  \/ \E sig \in {"SIGINT", "SIGTERM"} : Signal(sig)
  \/ ParentDies \/ WatcherNotices \/ WatcherSends
  \/ \E h \in Handlers :
       \/ Accept(h)
       \/ HandlerRuns(h)
       \/ \E e \in Ends : PeerCloses(h, e)
       \/ \E d \in Directions : CopyFails(h, d)

Spec == Init /\ [][Next]_vars

\* Goroutines run.  Nobody has to connect, to signal, to die or to hang up.
FairSpec ==
  /\ Spec
  /\ WF_vars(Listen) /\ WF_vars(SetupDone)
  /\ WF_vars(WaitAgain) /\ WF_vars(CloseListeners)
  /\ WF_vars(WatcherNotices) /\ SF_vars(WatcherSends)
  /\ \A h \in Handlers :
       /\ WF_vars(Handshake(h)) /\ WF_vars(RelayEnds(h))
       /\ SF_vars(HandlerStart(h)) /\ SF_vars(HandlerFinish(h))
       /\ \A d \in Directions : WF_vars(CopyEnds(h, d))

-----------------------------------------------------------------------------
Counted(h) == handler[h] \in {"handshake", "relay", "finishing"}

\* The monitor's count is the number of handlers that have started and not
\* finished, whatever became of their connections: it never drifts.
CountIsHandlers == numHandlers = Cardinality({h \in Handlers : Counted(h)})

\* The unbuffered channels never lock a handler out: its first and its last
\* message reach main, or the process is over.
HandlersAreHeard ==
  \A h \in Handlers :
    /\ handler[h] = "starting" ~> (handler[h] # "starting" \/ main = "exited")
    /\ handler[h] = "finishing" ~> (handler[h] = "done" \/ main = "exited")

\* After a SIGINT, the process goes once the connections are gone, if there
\* were any when the listeners closed.
ExitsAfterLastHandler ==
  (main = "waitNone" /\ \E h \in Handlers : Counted(h))
    ~> (main = "exited" \/ \E h \in Handlers : handler[h] = "relay" /\ open[h] # {})

\* A process that watches its stdin goes when tor dies, whatever main was
\* doing when it happened.  (With PR_SET_PDEATHSIG it need not: a SIGTERM
\* that finds main outside the select of wait is lost.)
ExitsAfterParent == monitor = "stdin" /\ ~parent ~> main = "exited"

\* "wait till [...] all the current connections are closed [...] and exit".
ExitsWhenIdle ==
  (main = "waitNone" /\ \A h \in Handlers : handler[h] \in {"none", "done"}) ~> main = "exited"

\* "one side terminating closes the other".
OneSideClosesOther ==
  \A h \in Handlers :
    (handler[h] = "relay" /\ open[h] # Ends) ~> (copying[h] = {} \/ main = "exited")
=============================================================================
