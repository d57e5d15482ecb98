------------------------------- MODULE Daemon -------------------------------
(***************************************************************************)
(* The life of the daemon: StartDaemon and startServer (the main           *)
(* goroutine), listenForSignals, one accept loop per listener behind a     *)
(* limitedListener, one goroutine per socketmap connection, the metrics    *)
(* HTTP server's connections and the prefetcher.  internal/server.go.      *)
(*                                                                         *)
(* What a connection does between its beginning and its end, and what      *)
(* SIGHUP saves, are the business of PolicyServer and Cache.               *)
(***************************************************************************)
EXTENDS Integers, FiniteSets

CONSTANTS
  Listeners,                    \* all listeners
  Metrics,                      \* those of the metrics HTTP server
  MAX_CONNECTIONS,              \* SOCKETMAP_ or METRICS_MAX_CONNECTIONS, by listener
  Clients,                      \* the connections that may be made
  From,                         \* the listener each of them is made to
  MaxHups                       \* bound on the number of SIGHUPs

ASSUME DaemonAssumption ==
  /\ Metrics \subseteq Listeners
  /\ MAX_CONNECTIONS \in [Listeners -> Nat \ {0}]
  /\ IsFiniteSet(Clients) /\ From \in [Clients -> Listeners]
  /\ MaxHups \in Nat

VARIABLES
  main,                         \* where StartDaemon is
  mainTodo,                     \* connections its closeActiveConnections has yet to close
  cancelled,                    \* bgCtx.Err() # nil
  signals,                      \* the channel of capacity one: "none", "hup" or "term"
  hups,                         \* SIGHUPs put into it
  handler,                      \* where the goroutine of listenForSignals is
  handlerTodo,                  \* listeners or connections it has yet to close
  listeners,                    \* the registered listeners (listenersMu)
  open,                         \* listeners whose socket is open
  acceptor,                     \* the accept loop of each listener
  sem,                          \* tokens in the semaphore of each limitedListener
  conn,                         \* where each connection is
  closed,                       \* connections on which Close has been called
  activeConnections,
  connectionWg,                 \* connections added to the wait group and not yet done
  prefetching                   \* startPrefetching has not returned

signalVars == <<signals, hups, handler, handlerTodo>>
acceptVars == <<listeners, open, acceptor>>
connVars == <<sem, conn, closed, activeConnections, connectionWg>>
vars == <<main, mainTodo, cancelled, signalVars, acceptVars, connVars, prefetching>>

Init ==
  /\ main = "start" /\ mainTodo = {} /\ cancelled = FALSE
  /\ signals = "none" /\ hups = 0 /\ handler = "wait" /\ handlerTodo = {}
  /\ listeners = {} /\ open = {} /\ acceptor = [l \in Listeners |-> "off"]
  /\ sem = [l \in Listeners |-> 0]
  /\ conn = [c \in Clients |-> "none"]
  /\ closed = {} /\ activeConnections = {} /\ connectionWg = {}
  /\ prefetching \in BOOLEAN

---------------------------------------------------------------------------
(* limitedConn.Close: the token is given back once.                        *)
CloseTwice(c) ==                \* mutant: each Close gives a token back
  /\ closed' = closed \cup {c}
  /\ sem' = [sem EXCEPT ![From[c]] = @ - 1]

Close(c) ==
  /\ closed' = closed \cup {c}
  /\ sem' = IF c \in closed THEN sem ELSE [sem EXCEPT ![From[c]] = @ - 1]

---------------------------------------------------------------------------
(* StartDaemon and startServer.  If a listener cannot be opened, those     *)
(* opened before it are closed again and startServer returns.              *)
StartFails ==
  /\ main = "start"
  /\ main' = "returned"
  /\ UNCHANGED <<mainTodo, cancelled, signalVars, acceptVars, connVars, prefetching>>

Listen ==
  /\ main = "start"
  /\ main' = "listening" /\ open' = Listeners
  /\ UNCHANGED <<mainTodo, cancelled, signalVars, listeners, acceptor, connVars, prefetching>>

SetActiveListeners ==
  /\ main = "listening"
  /\ main' = "check" /\ listeners' = Listeners
  /\ UNCHANGED <<mainTodo, cancelled, signalVars, open, acceptor, connVars, prefetching>>

ServeUnchecked ==               \* mutant: startServer serves without looking at bgCtx
  /\ main = "check"
  /\ main' = "serving" /\ acceptor' = [l \in Listeners |-> "sem"]
  /\ UNCHANGED <<mainTodo, cancelled, signalVars, listeners, open, connVars, prefetching>>

Serve ==
  /\ main = "check" /\ ~cancelled
  /\ main' = "serving" /\ acceptor' = [l \in Listeners |-> "sem"]
  /\ UNCHANGED <<mainTodo, cancelled, signalVars, listeners, open, connVars, prefetching>>

ServeCancelled ==
  /\ main = "check" /\ cancelled
  /\ main' = "returned" /\ open' = {} /\ listeners' = {}
  /\ UNCHANGED <<mainTodo, cancelled, signalVars, acceptor, connVars, prefetching>>

(* serverWg.Wait, then the deferred clearActiveListeners.                  *)
ServersTerminated ==
  /\ main = "serving" /\ \A l \in Listeners : acceptor[l] = "exited"
  /\ main' = "returned" /\ listeners' = {}
  /\ UNCHANGED <<mainTodo, cancelled, signalVars, open, acceptor, connVars, prefetching>>

CancelDaemon ==
  /\ main = "returned"
  /\ main' = "closing" /\ cancelled' = TRUE /\ mainTodo' = activeConnections
  /\ UNCHANGED <<signalVars, acceptVars, connVars, prefetching>>

MainCloses(c) ==
  /\ main = "closing" /\ c \in mainTodo
  /\ Close(c) /\ mainTodo' = mainTodo \ {c}
  /\ UNCHANGED <<main, cancelled, signalVars, acceptVars, conn, activeConnections,
                 connectionWg, prefetching>>

ConnectionsEnded ==
  /\ main = "closing" /\ mainTodo = {} /\ connectionWg = {}
  /\ main' = "waiting"
  /\ UNCHANGED <<mainTodo, cancelled, signalVars, acceptVars, connVars, prefetching>>

PrefetchEnded ==
  /\ main = "waiting" /\ ~prefetching
  /\ main' = "saving"
  /\ UNCHANGED <<mainTodo, cancelled, signalVars, acceptVars, connVars, prefetching>>

(* tidyCache, CloseWithError and the end of the process.                   *)
CloseCache ==
  /\ main = "saving"
  /\ main' = "done"
  /\ UNCHANGED <<mainTodo, cancelled, signalVars, acceptVars, connVars, prefetching>>

---------------------------------------------------------------------------
(* Signals.  signal.Notify drops what does not fit into the channel.       *)
Signal(s) ==
  /\ signals = "none" /\ signals' = s
  /\ hups' = IF s = "hup" THEN hups + 1 ELSE hups
  /\ hups' <= MaxHups
  /\ UNCHANGED <<main, mainTodo, cancelled, handler, handlerTodo, acceptVars, connVars, prefetching>>

HandleHup ==
  /\ handler = "wait" /\ signals = "hup"
  /\ handler' = "hup" /\ signals' = "none"
  /\ UNCHANGED <<main, mainTodo, cancelled, hups, handlerTodo, acceptVars, connVars, prefetching>>

(* tidyCache and ForceSave have returned.                                  *)
HupSaved ==
  /\ handler = "hup" /\ handler' = "wait"
  /\ UNCHANGED <<main, mainTodo, cancelled, signals, hups, handlerTodo, acceptVars, connVars,
                 prefetching>>

HandleTerm ==
  /\ handler = "wait" /\ signals = "term"
  /\ handler' = "cancelled" /\ signals' = "none" /\ cancelled' = TRUE
  /\ UNCHANGED <<main, mainTodo, hups, handlerTodo, acceptVars, connVars, prefetching>>

HandlerStops ==                 \* case <-ctx.Done()
  /\ handler = "wait" /\ cancelled
  /\ handler' = "exited"
  /\ UNCHANGED <<main, mainTodo, cancelled, signals, hups, handlerTodo, acceptVars, connVars,
                 prefetching>>

(* closeActiveListeners and closeActiveConnections: what there is to close *)
(* is read first, then closed one by one.                                  *)
CloseActiveListeners ==
  /\ handler = "cancelled"
  /\ handler' = "listeners" /\ handlerTodo' = listeners
  /\ UNCHANGED <<main, mainTodo, cancelled, signals, hups, acceptVars, connVars, prefetching>>

HandlerClosesListener(l) ==
  /\ handler = "listeners" /\ l \in handlerTodo
  /\ open' = open \ {l} /\ handlerTodo' = handlerTodo \ {l}
  /\ UNCHANGED <<main, mainTodo, cancelled, signals, hups, handler, listeners, acceptor, connVars,
                 prefetching>>

CloseActiveConnections ==
  /\ handler = "listeners" /\ handlerTodo = {}
  /\ handler' = "conns" /\ handlerTodo' = activeConnections
  /\ UNCHANGED <<main, mainTodo, cancelled, signals, hups, acceptVars, connVars, prefetching>>

HandlerCloses(c) ==
  /\ handler = "conns" /\ c \in handlerTodo
  /\ Close(c) /\ handlerTodo' = handlerTodo \ {c}
  /\ UNCHANGED <<main, mainTodo, cancelled, signals, hups, handler, acceptVars, conn,
                 activeConnections, connectionWg, prefetching>>

HandlerEnds ==
  /\ handler = "conns" /\ handlerTodo = {}
  /\ handler' = "exited"
  /\ UNCHANGED <<main, mainTodo, cancelled, signals, hups, handlerTodo, acceptVars, connVars,
                 prefetching>>

---------------------------------------------------------------------------
(* limitedListener.Accept takes a token first.  Its done channel is never  *)
(* closed while the loop runs: closeListeners closes the socket itself.    *)
TakeTokenAnyway(l) ==           \* mutant: the semaphore never blocks
  /\ acceptor[l] = "sem"
  /\ acceptor' = [acceptor EXCEPT ![l] = "accept"] /\ sem' = [sem EXCEPT ![l] = @ + 1]
  /\ UNCHANGED <<main, mainTodo, cancelled, signalVars, listeners, open, conn, closed,
                 activeConnections, connectionWg, prefetching>>

TakeToken(l) ==
  /\ acceptor[l] = "sem" /\ sem[l] < MAX_CONNECTIONS[l]
  /\ acceptor' = [acceptor EXCEPT ![l] = "accept"] /\ sem' = [sem EXCEPT ![l] = @ + 1]
  /\ UNCHANGED <<main, mainTodo, cancelled, signalVars, listeners, open, conn, closed,
                 activeConnections, connectionWg, prefetching>>

Accept(c) ==
  /\ conn[c] = "none" /\ acceptor[From[c]] = "accept" /\ From[c] \in open
  /\ acceptor' = [acceptor EXCEPT ![From[c]] = "got"]
  /\ conn' = [conn EXCEPT ![c] = "accepted"]
  /\ UNCHANGED <<main, mainTodo, cancelled, signalVars, listeners, open, sem, closed,
                 activeConnections, connectionWg, prefetching>>

(* The token goes back with every error.  After an error that is not the   *)
(* listener's end the loop sleeps and tries again; an error that is        *)
(* permanent ends http.Server.Serve, which closes its listener.            *)
AcceptFails(l) ==
  /\ acceptor[l] = "accept"
  /\ sem' = [sem EXCEPT ![l] = @ - 1]
  /\ \/ l \in open /\ acceptor' = [acceptor EXCEPT ![l] = "sem"] /\ UNCHANGED open
     \/ l \notin open /\ acceptor' = [acceptor EXCEPT ![l] = "exited"] /\ UNCHANGED open
     \/ /\ l \in Metrics \cap open
        /\ acceptor' = [acceptor EXCEPT ![l] = "exited"] /\ open' = open \ {l}
  /\ UNCHANGED <<main, mainTodo, cancelled, signalVars, listeners, conn, closed,
                 activeConnections, connectionWg, prefetching>>

(* A socketmap connection is counted and registered, then its goroutine    *)
(* starts; net/http keeps those of the metrics server to itself.           *)
RegisterUncounted(c) ==         \* mutant: no connectionWg.Add
  /\ conn[c] = "accepted"
  /\ conn' = [conn EXCEPT ![c] = "serving"]
  /\ acceptor' = [acceptor EXCEPT ![From[c]] = "sem"]
  /\ activeConnections' = IF From[c] \in Metrics THEN activeConnections
                                                 ELSE activeConnections \cup {c}
  /\ UNCHANGED <<main, mainTodo, cancelled, signalVars, listeners, open, sem, closed,
                 connectionWg, prefetching>>

Register(c) ==
  /\ conn[c] = "accepted"
  /\ conn' = [conn EXCEPT ![c] = "serving"]
  /\ acceptor' = [acceptor EXCEPT ![From[c]] = "sem"]
  /\ LET counted == IF From[c] \in Metrics THEN {} ELSE {c}
     IN  /\ activeConnections' = activeConnections \cup counted
         /\ connectionWg' = connectionWg \cup counted
  /\ UNCHANGED <<main, mainTodo, cancelled, signalVars, listeners, open, sem, closed, prefetching>>

---------------------------------------------------------------------------
(* A connection ends: handleConnection's deferred Close, then the          *)
(* goroutine's own deferred function.                                      *)
ConnectionReturns(c) ==
  /\ conn[c] = "serving"
  /\ conn' = [conn EXCEPT ![c] = "closing"] /\ Close(c)
  /\ UNCHANGED <<main, mainTodo, cancelled, signalVars, acceptVars, activeConnections,
                 connectionWg, prefetching>>

ConnectionDone(c) ==
  /\ conn[c] = "closing"
  /\ conn' = [conn EXCEPT ![c] = "gone"]
  /\ activeConnections' = activeConnections \ {c} /\ connectionWg' = connectionWg \ {c}
  /\ UNCHANGED <<main, mainTodo, cancelled, signalVars, acceptVars, sem, closed, prefetching>>

PrefetchExits ==
  /\ prefetching /\ cancelled
  /\ prefetching' = FALSE
  /\ UNCHANGED <<main, mainTodo, cancelled, signalVars, acceptVars, connVars>>

---------------------------------------------------------------------------
MainStep ==
  \/ StartFails \/ Listen \/ SetActiveListeners \/ Serve \/ ServeCancelled
  \/ ServersTerminated \/ CancelDaemon \/ (\E c \in Clients : MainCloses(c))
  \/ ConnectionsEnded \/ PrefetchEnded \/ CloseCache

HandlerStep ==
  \/ HandleHup \/ HupSaved \/ HandleTerm \/ HandlerStops \/ CloseActiveListeners
  \/ (\E l \in Listeners : HandlerClosesListener(l)) \/ CloseActiveConnections
  \/ (\E c \in Clients : HandlerCloses(c)) \/ HandlerEnds

AcceptorStep(l) ==
  \/ TakeToken(l) \/ AcceptFails(l)
  \/ \E c \in Clients : From[c] = l /\ (Accept(c) \/ Register(c))

ConnectionStep(c) == ConnectionReturns(c) \/ ConnectionDone(c)

Next ==
  /\ main # "done"
  /\ \/ MainStep \/ HandlerStep \/ PrefetchExits
     \/ \E s \in {"hup", "term"} : Signal(s)
     \/ \E l \in Listeners : AcceptorStep(l)
     \/ \E c \in Clients : ConnectionStep(c)

(* The process has ended.                                                  *)
Ended == main = "done" /\ UNCHANGED vars

Spec == Init /\ [][Next \/ Ended]_vars

(* Every goroutine that can go on does.  An accept loop waits for a client *)
(* as long as its listener is open, and a socketmap connection for its     *)
(* next query (readSocketmapQuery takes the deadline off) as long as it is *)
(* not closed: neither owes a step before.  A connection of the metrics    *)
(* server may be kept alive by its client for ever.                        *)
Fairness ==
  /\ WF_vars(main # "done" /\ MainStep)
  /\ WF_vars(main # "done" /\ HandlerStep)
  /\ WF_vars(main # "done" /\ PrefetchExits)
  /\ \A l \in Listeners :
       /\ WF_vars(main # "done" /\ TakeToken(l))
       /\ WF_vars(main # "done" /\ l \notin open /\ AcceptFails(l))
  /\ \A c \in Clients :
       /\ WF_vars(main # "done" /\ Register(c))
       /\ WF_vars(main # "done" /\ c \in closed /\ ConnectionReturns(c))
       /\ WF_vars(main # "done" /\ ConnectionDone(c))

FairSpec == Spec /\ Fairness

---------------------------------------------------------------------------
(* Connections of a listener that hold one of its tokens.                  *)
Held(l) == {c \in Clients : From[c] = l /\ conn[c] # "none" /\ c \notin closed}

(* Every variable has its type; a semaphore holds at least no and at most  *)
(* MAX_CONNECTIONS tokens.                                                 *)
TypeOK ==
  /\ main \in {"start", "listening", "check", "serving", "returned", "closing", "waiting",
               "saving", "done"}
  /\ mainTodo \subseteq Clients /\ cancelled \in BOOLEAN
  /\ signals \in {"none", "hup", "term"} /\ hups \in 0..MaxHups
  /\ handler \in {"wait", "hup", "cancelled", "listeners", "conns", "exited"}
  /\ handlerTodo \subseteq (IF handler = "conns" THEN Clients
                            ELSE IF handler = "listeners" THEN Listeners ELSE {})
  /\ listeners \subseteq Listeners /\ open \subseteq Listeners
  /\ acceptor \in [Listeners -> {"off", "sem", "accept", "got", "exited"}]
  /\ sem \in [Listeners -> Nat] /\ \A l \in Listeners : sem[l] <= MAX_CONNECTIONS[l]
  /\ conn \in [Clients -> {"none", "accepted", "serving", "closing", "gone"}]
  /\ closed \subseteq Clients /\ activeConnections \subseteq Clients
  /\ connectionWg \subseteq Clients /\ prefetching \in BOOLEAN

(* limitedListener and limitedConn: however often and by whomever a        *)
(* connection is closed, a listener never has more than MAX_CONNECTIONS    *)
(* connections that are not closed.                                        *)
ServedWithinLimit == \A l \in Listeners : Cardinality(Held(l)) <= MAX_CONNECTIONS[l]

(* StartDaemon's order of waits ("drain workers before final cache save"): *)
(* once the last tidyCache and CloseWithError begin, no listener is open,  *)
(* no socketmap connection is being served and the prefetcher has stopped, *)
(* so that nothing is put into the cache behind the last save.             *)
NothingServedAtClose ==
  main \in {"saving", "done"} =>
    /\ open = {} /\ ~prefetching
    /\ \A c \in Clients : From[c] \notin Metrics => conn[c] \in {"none", "gone"}

(* A metrics listener whose loop waits for a token that its clients hold.  *)
MetricsFull == \E l \in Metrics : acceptor[l] = "sem" /\ sem[l] = MAX_CONNECTIONS[l]

(* SIGTERM, SIGINT and SIGQUIT: once the signal is in the channel, the     *)
(* daemon ends, wherever startServer, the accept loops, the connections    *)
(* and a SIGHUP in progress are, unless the metrics server stays full.     *)
StopsOnSignal == (<>[]~MetricsFull) => (signals = "term" ~> main = "done")
=============================================================================
