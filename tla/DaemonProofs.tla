---------------------------- MODULE DaemonProofs ----------------------------
(***************************************************************************)
(* Proofs about Daemon for any listeners, limits, clients and number of    *)
(* SIGHUPs: the type invariant, the limit on connections and that nothing  *)
(* is served once the cache is closed.                                     *)
(***************************************************************************)
EXTENDS Daemon, FiniteSetTheorems, TLAPS

(* Types, without the bounds of the semaphores.                            *)
Types ==
  /\ main \in {"start", "listening", "check", "serving", "returned", "closing", "waiting",
               "saving", "done"}
  /\ mainTodo \subseteq Clients /\ cancelled \in BOOLEAN
  /\ signals \in {"none", "hup", "term"} /\ hups \in 0..MaxHups
  /\ handler \in {"wait", "hup", "cancelled", "listeners", "conns", "exited"}
  /\ handlerTodo \subseteq (IF handler = "conns" THEN Clients
                            ELSE IF handler = "listeners" THEN Listeners ELSE {})
  /\ listeners \subseteq Listeners /\ open \subseteq Listeners
  /\ acceptor \in [Listeners -> {"off", "sem", "accept", "got", "exited"}]
  /\ sem \in [Listeners -> Int]
  /\ conn \in [Clients -> {"none", "accepted", "serving", "closing", "gone"}]
  /\ closed \subseteq Clients /\ activeConnections \subseteq Clients
  /\ connectionWg \subseteq Clients /\ prefetching \in BOOLEAN

(* The accept loops run while startServer serves, and end only when their  *)
(* listener is closed.                                                     *)
LoopInv ==
  /\ main = "start" => open = {}
  /\ main \in {"start", "listening", "check"} => \A l \in Listeners : acceptor[l] = "off"
  /\ \A l \in Listeners : acceptor[l] = "exited" => l \notin open
  /\ main \in {"returned", "closing", "waiting", "saving", "done"} =>
       open = {} /\ \A l \in Listeners : acceptor[l] \in {"off", "exited"}
  /\ \A c \in Clients : conn[c] = "accepted" => acceptor[From[c]] = "got"
  /\ \A c, d \in Clients :
       conn[c] = "accepted" /\ conn[d] = "accepted" /\ From[c] = From[d] => c = d

(* What the waits of StartDaemon rest on: a socketmap connection with a    *)
(* goroutine is in the wait group.                                         *)
WaitInv ==
  /\ \A c \in Clients :
       From[c] \notin Metrics /\ conn[c] \in {"serving", "closing"} => c \in connectionWg
  /\ main \in {"waiting", "saving", "done"} => connectionWg = {}
  /\ main \in {"saving", "done"} => ~prefetching

(* Only connections that were made are closed, listed or to be closed.     *)
MadeInv ==
  \A c \in closed \cup activeConnections \cup mainTodo \cup (IF handler = "conns" THEN handlerTodo ELSE {}) :
    conn[c] # "none"

(* A token in a semaphore is held by a connection that is not closed or by *)
(* the accept loop that waits for one.                                     *)
TokenInv ==
  \A l \in Listeners :
    /\ sem[l] = Cardinality(Held(l)) + (IF acceptor[l] = "accept" THEN 1 ELSE 0)
    /\ sem[l] <= MAX_CONNECTIONS[l]

IInv == Types /\ LoopInv /\ WaitInv /\ MadeInv /\ TokenInv

---------------------------------------------------------------------------
(* The connections of a listener that hold tokens are finitely many.       *)
LEMMA HeldFinite ==
  ASSUME NEW l
  PROVE  IsFiniteSet(Held(l)) /\ Cardinality(Held(l)) \in Nat
<1>1. IsFiniteSet(Clients) BY DaemonAssumption, Zenon
<1>2. Held(l) \subseteq Clients BY DEF Held
<1> QED BY <1>1, <1>2, FS_Subset, FS_CardinalityType, Zenon

(* limitedConn.Close keeps the semaphores exact: the token goes back with  *)
(* the first Close only.                                                   *)
LEMMA CloseKeepsTokens ==
  ASSUME Types, TokenInv, NEW c \in Clients, conn[c] # "none", Close(c),
         acceptor' = acceptor,
         \A d \in Clients : conn'[d] # "none" <=> conn[d] # "none"
  PROVE  TokenInv'
<1> USE DaemonAssumption
<1>1. CASE c \in closed
  <2>1. closed' = closed /\ sem' = sem BY <1>1, Zenon DEF Close
  <2>2. \A l \in Listeners : Held(l)' = Held(l) BY <2>1, Zenon DEF Held
  <2> QED BY <2>1, <2>2, Zenon DEF TokenInv
<1>2. CASE c \notin closed
  <2> DEFINE k == From[c]
  <2>1. k \in Listeners OBVIOUS
  <2>2. sem' = [sem EXCEPT ![k] = @ - 1] /\ closed' = closed \cup {c} BY <1>2, Zenon DEF Close
  <2>3. c \in Held(k) BY <1>2, Zenon DEF Held
  <2>4. Held(k)' = Held(k) \ {c} BY <2>2, Zenon DEF Held
  <2>5. \A l \in Listeners \ {k} : Held(l)' = Held(l) BY <2>2, ZenonT(60) DEF Held
  <2>6. Cardinality(Held(k)') = Cardinality(Held(k)) - 1
    BY <2>3, <2>4, HeldFinite, FS_RemoveElement, ZenonT(60)
  <2>7. sem'[k] = sem[k] - 1 /\ sem[k] \in Int BY <2>1, <2>2 DEF Types
  <2>8. ASSUME NEW l \in Listeners
        PROVE  /\ sem'[l] = Cardinality(Held(l)') + (IF acceptor'[l] = "accept" THEN 1 ELSE 0)
               /\ sem'[l] <= MAX_CONNECTIONS[l]
    <3>1. Cardinality(Held(l)) \in Nat /\ MAX_CONNECTIONS[l] \in Nat BY HeldFinite
    <3>2. CASE l = k BY <3>1, <3>2, <2>6, <2>7 DEF TokenInv
    <3>3. CASE l # k
      <4>1. sem'[l] = sem[l] BY <2>2, <3>3 DEF Types
      <4> QED BY <4>1, <3>3, <2>5 DEF TokenInv
    <3> QED BY <3>2, <3>3
  <2> QED BY <2>8, Zenon DEF TokenInv
<1> QED BY <1>1, <1>2, Zenon

(* A step that touches neither tokens nor connections keeps TokenInv.      *)
LEMMA TokensUntouched ==
  ASSUME TokenInv, UNCHANGED <<sem, closed>>,
         \A l \in Listeners : acceptor'[l] = "accept" <=> acceptor[l] = "accept",
         \A d \in Clients : conn'[d] # "none" <=> conn[d] # "none"
  PROVE  TokenInv'
<1>1. \A l \in Listeners : Held(l)' = Held(l) BY DEF Held
<1> QED BY <1>1 DEF TokenInv

(* Init satisfies the invariant.                                           *)
LEMMA InitInv == Init => IInv
<1> SUFFICES ASSUME Init PROVE IInv OBVIOUS
<1> USE DaemonAssumption
<1>1. Types
  <2>1. hups \in 0..MaxHups /\ sem \in [Listeners -> Int] BY DEF Init
  <2>2. prefetching \in BOOLEAN BY Zenon DEF Init
  <2>3. handlerTodo = {} /\ mainTodo = {} /\ cancelled \in BOOLEAN BY Zenon DEF Init
  <2> QED BY <2>1, <2>2, <2>3 DEF Init, Types
<1>5. LoopInv BY DEF Init, LoopInv
<1>6. WaitInv BY DEF Init, WaitInv
<1>7. MadeInv BY Zenon DEF Init, MadeInv
<1>2. \A l \in Listeners : Held(l) = {} BY DEF Held, Init
<1>3. Cardinality({}) = 0 BY FS_EmptySet, Zenon
<1>4. TokenInv BY <1>2, <1>3 DEF TokenInv, Init
<1> QED BY <1>1, <1>4, <1>5, <1>6, <1>7 DEF IInv
---------------------------------------------------------------------------
(* Every step of the main goroutine keeps the invariant.                   *)
LEMMA MainKeeps == IInv /\ MainStep => IInv'
<1> SUFFICES ASSUME IInv, MainStep PROVE IInv' OBVIOUS
<1> USE DaemonAssumption DEF signalVars, acceptVars, connVars
<1>0. Types /\ LoopInv /\ WaitInv /\ MadeInv /\ TokenInv BY Zenon DEF IInv
<1>1. CASE \/ StartFails \/ Listen \/ SetActiveListeners \/ ServersTerminated \/ CancelDaemon
           \/ ConnectionsEnded \/ PrefetchEnded \/ CloseCache \/ ServeCancelled
  <2> USE <1>0, <1>1 DEF StartFails, Listen, SetActiveListeners, ServersTerminated, CancelDaemon,
                         ConnectionsEnded, PrefetchEnded, CloseCache, ServeCancelled
  <2>1. Types' BY ZenonT(60) DEF Types
  <2>2. LoopInv'
    <3>1. CASE ServersTerminated BY <3>1 DEF Types, LoopInv
    <3>2. CASE ~ServersTerminated BY <3>2 DEF LoopInv
    <3> QED BY <3>1, <3>2
  <2>3. WaitInv' BY DEF WaitInv
  <2>4. MadeInv' BY Zenon DEF MadeInv
  <2>5. TokenInv' BY TokensUntouched, Zenon
  <2> QED BY <2>1, <2>2, <2>3, <2>4, <2>5, Zenon DEF IInv
<1>2. CASE Serve
  <2> USE <1>0, <1>2 DEF Serve
  <2>1. Types' BY Zenon DEF Types
  <2>2. LoopInv' BY Zenon DEF LoopInv
  <2>3. WaitInv' BY Zenon DEF WaitInv
  <2>4. MadeInv' BY Zenon DEF MadeInv
  <2>5. \A l \in Listeners : acceptor'[l] # "accept" /\ acceptor[l] # "accept" BY Zenon DEF LoopInv
  <2>6. TokenInv' BY <2>5, TokensUntouched, Zenon
  <2> QED BY <2>1, <2>2, <2>3, <2>4, <2>6, Zenon DEF IInv
<1>3. ASSUME NEW c \in Clients, MainCloses(c) PROVE IInv'
  <2> USE <1>0, <1>3 DEF MainCloses
  <2>1. Types' BY DEF Types, Close
  <2>2. LoopInv' BY Zenon DEF LoopInv
  <2>3. WaitInv' BY Zenon DEF WaitInv
  <2>4. MadeInv' BY ZenonT(60) DEF MadeInv, Close
  <2>5. conn[c] # "none" BY Zenon DEF MadeInv
  <2>6. TokenInv' BY <2>5, CloseKeepsTokens, Zenon
  <2> QED BY <2>1, <2>2, <2>3, <2>4, <2>6, Zenon DEF IInv
<1> QED BY <1>1, <1>2, <1>3 DEF MainStep

(* Every step of the signal handler keeps the invariant.                   *)
LEMMA HandlerKeeps == IInv /\ HandlerStep => IInv'
<1> SUFFICES ASSUME IInv, HandlerStep PROVE IInv' OBVIOUS
<1> USE DaemonAssumption DEF acceptVars, connVars
<1>0. Types /\ LoopInv /\ WaitInv /\ MadeInv /\ TokenInv BY DEF IInv
<1>1. CASE \/ HandleHup \/ HupSaved \/ HandleTerm \/ HandlerStops \/ CloseActiveListeners
           \/ CloseActiveConnections \/ HandlerEnds
  <2> USE <1>0, <1>1 DEF HandleHup, HupSaved, HandleTerm, HandlerStops, CloseActiveListeners,
                         CloseActiveConnections, HandlerEnds
  <2>1. Types' BY ZenonT(60) DEF Types
  <2>2. LoopInv' BY DEF LoopInv
  <2>3. WaitInv' BY DEF WaitInv
  <2>4. MadeInv' BY DEF MadeInv
  <2>5. TokenInv' BY TokensUntouched
  <2> QED BY <2>1, <2>2, <2>3, <2>4, <2>5, Zenon DEF IInv
<1>2. ASSUME NEW l \in Listeners, HandlerClosesListener(l) PROVE IInv'
  <2> USE <1>0, <1>2 DEF HandlerClosesListener
  <2>1. Types' BY DEF Types
  <2>2. LoopInv' BY Zenon DEF LoopInv
  <2>3. WaitInv' BY Zenon DEF WaitInv
  <2>4. MadeInv' BY Zenon DEF MadeInv
  <2>5. TokenInv' BY TokensUntouched, Zenon
  <2> QED BY <2>1, <2>2, <2>3, <2>4, <2>5 DEF IInv
<1>3. ASSUME NEW c \in Clients, HandlerCloses(c) PROVE IInv'
  <2> USE <1>0, <1>3 DEF HandlerCloses
  <2>1. Types' BY DEF Types, Close
  <2>2. LoopInv' BY Zenon DEF LoopInv
  <2>3. WaitInv' BY Zenon DEF WaitInv
  <2>4. MadeInv' BY ZenonT(60) DEF MadeInv, Close
  <2>5. conn[c] # "none" BY Zenon DEF MadeInv
  <2>6. TokenInv' BY <2>5, CloseKeepsTokens, Zenon
  <2> QED BY <2>1, <2>2, <2>3, <2>4, <2>6, Zenon DEF IInv
<1> QED BY <1>1, <1>2, <1>3, Zenon DEF HandlerStep
---------------------------------------------------------------------------
(* A token is taken for a listener's loop only below its limit, and given  *)
(* back with an error.                                                     *)
LEMMA LoopKeeps ==
  ASSUME NEW l \in Listeners, IInv, TakeToken(l) \/ AcceptFails(l)
  PROVE  IInv'
<1> USE DaemonAssumption DEF signalVars
<1>0. Types /\ LoopInv /\ WaitInv /\ MadeInv /\ TokenInv BY Zenon DEF IInv
<1>1. Types' BY <1>0 DEF Types, TakeToken, AcceptFails
<1>2. LoopInv'
  <2>1. CASE TakeToken(l) BY <1>0, <2>1, ZenonT(60) DEF Types, LoopInv, TakeToken
  <2>2. CASE AcceptFails(l) BY <1>0, <2>2 DEF Types, LoopInv, AcceptFails
  <2> QED BY <2>1, <2>2, Zenon
<1>3. WaitInv' BY <1>0 DEF WaitInv, TakeToken, AcceptFails
<1>4. MadeInv' BY <1>0, Zenon DEF MadeInv, TakeToken, AcceptFails
<1>5. TokenInv'
  <2>1. \A k \in Listeners : Held(k)' = Held(k) BY Zenon DEF Held, TakeToken, AcceptFails
  <2>2. \A k \in Listeners \ {l} : sem'[k] = sem[k] /\ acceptor'[k] = acceptor[k]
    BY <1>0, Zenon DEF Types, TakeToken, AcceptFails
  <2>3. Cardinality(Held(l)) \in Nat /\ MAX_CONNECTIONS[l] \in Nat /\ sem[l] \in Int
    BY <1>0, HeldFinite, Zenon DEF Types
  <2>4. sem'[l] = Cardinality(Held(l)) + (IF acceptor'[l] = "accept" THEN 1 ELSE 0)
        /\ sem'[l] <= MAX_CONNECTIONS[l]
    <3>1. sem[l] = Cardinality(Held(l)) + (IF acceptor[l] = "accept" THEN 1 ELSE 0)
          /\ sem[l] <= MAX_CONNECTIONS[l]
      BY <1>0, Zenon DEF TokenInv
    <3>2. CASE TakeToken(l)
      <4>1. acceptor[l] = "sem" /\ acceptor'[l] = "accept" /\ sem'[l] = sem[l] + 1
            /\ sem[l] < MAX_CONNECTIONS[l]
        BY <1>0, <3>2, Zenon DEF Types, TakeToken
      <4> QED BY <2>3, <3>1, <4>1
    <3>3. CASE AcceptFails(l)
      <4>1. acceptor[l] = "accept" /\ acceptor'[l] # "accept" /\ sem'[l] = sem[l] - 1
        BY <1>0, <3>3, Zenon DEF Types, AcceptFails
      <4> QED BY <2>3, <3>1, <4>1
    <3> QED BY <3>2, <3>3, Zenon
  <2> QED BY <1>0, <2>1, <2>2, <2>4, Zenon DEF TokenInv
<1> QED BY <1>1, <1>2, <1>3, <1>4, <1>5, Zenon DEF IInv

(* Accept hands the loop's token to the connection.                        *)
LEMMA AcceptKeeps ==
  ASSUME NEW c \in Clients, IInv, Accept(c)
  PROVE  IInv'
<1> USE DaemonAssumption DEF signalVars
<1>0. Types /\ LoopInv /\ WaitInv /\ MadeInv /\ TokenInv BY DEF IInv
<1> DEFINE k == From[c]
<1>a. k \in Listeners BY Zenon
<1>1. Types' BY <1>0, ZenonT(60) DEF Types, Accept
<1>2. LoopInv' BY <1>0 DEF Types, LoopInv, Accept
<1>3. WaitInv' BY <1>0, Zenon DEF Types, WaitInv, Accept
<1>4. MadeInv' BY <1>0, ZenonT(60) DEF Types, MadeInv, Accept
<1>5. TokenInv'
  <2>1. c \notin closed /\ c \notin Held(k) BY <1>0, Zenon DEF MadeInv, Held, Accept
  <2>2. Held(k)' = Held(k) \cup {c} BY <1>0, <2>1, ZenonT(60) DEF Types, Held, Accept
  <2>3. Cardinality(Held(k)') = Cardinality(Held(k)) + 1
    BY <2>1, <2>2, HeldFinite, FS_AddElement, Zenon
  <2>4. \A l \in Listeners \ {k} : Held(l)' = Held(l) BY <1>0 DEF Types, Held, Accept
  <2>5. acceptor[k] = "accept" /\ acceptor'[k] = "got" /\ sem' = sem
    BY <1>0, <1>a DEF Types, Accept
  <2>6. \A l \in Listeners \ {k} : acceptor'[l] = acceptor[l] BY <1>0 DEF Types, Accept
  <2>7. Cardinality(Held(k)) \in Nat BY HeldFinite, Zenon
  <2>8. sem[k] = Cardinality(Held(k)) + 1 /\ sem[k] <= MAX_CONNECTIONS[k]
    BY <1>0, <1>a, <2>5, Zenon DEF TokenInv
  <2>9. sem'[k] = Cardinality(Held(k)') + 0 BY <2>3, <2>5, <2>7, <2>8
  <2> HIDE DEF k
  <2> QED BY <1>0, <1>a, <2>4, <2>5, <2>6, <2>8, <2>9, ZenonT(60) DEF TokenInv
<1> QED BY <1>1, <1>2, <1>3, <1>4, <1>5, Zenon DEF IInv

(* Register counts the connection before its goroutine starts.             *)
LEMMA RegisterKeeps ==
  ASSUME NEW c \in Clients, IInv, Register(c)
  PROVE  IInv'
<1> USE DaemonAssumption DEF signalVars
<1>0. Types /\ LoopInv /\ WaitInv /\ MadeInv /\ TokenInv BY DEF IInv
<1>1. Types' BY <1>0, ZenonT(60) DEF Types, Register
<1>2. LoopInv' BY <1>0, ZenonT(60) DEF Types, LoopInv, Register
<1>3. WaitInv'
  <2>1. acceptor[From[c]] = "got" /\ From[c] \in Listeners BY <1>0, Zenon DEF LoopInv, Register
  <2>2. main \notin {"waiting", "saving", "done"} BY <1>0, <2>1, Zenon DEF LoopInv
  <2> QED BY <1>0, <2>2, Zenon DEF Types, WaitInv, Register
<1>4. MadeInv' BY <1>0 DEF Types, MadeInv, Register
<1>5. acceptor[From[c]] = "got" BY <1>0, Zenon DEF LoopInv, Register
<1>6. TokenInv' BY <1>0, <1>5, TokensUntouched, Zenon DEF Types, Register
<1> QED BY <1>1, <1>2, <1>3, <1>4, <1>6 DEF IInv

(* The end of a connection.                                                *)
LEMMA ConnectionKeeps ==
  ASSUME NEW c \in Clients, IInv, ConnectionStep(c)
  PROVE  IInv'
<1> USE DaemonAssumption DEF signalVars, acceptVars
<1>0. Types /\ LoopInv /\ WaitInv /\ MadeInv /\ TokenInv BY DEF IInv
<1>1. CASE ConnectionReturns(c)
  <2> USE <1>0, <1>1 DEF ConnectionReturns
  <2>1. Types' BY DEF Types, Close
  <2>2. LoopInv' BY DEF Types, LoopInv
  <2>3. WaitInv' BY Zenon DEF Types, WaitInv
  <2>4. MadeInv' BY DEF Types, MadeInv, Close
  <2>5. TokenInv' BY CloseKeepsTokens, Zenon DEF Types
  <2> QED BY <2>1, <2>2, <2>3, <2>4, <2>5, Zenon DEF IInv
<1>2. CASE ConnectionDone(c)
  <2> USE <1>0, <1>2 DEF ConnectionDone
  <2>1. Types' BY DEF Types
  <2>2. LoopInv' BY DEF Types, LoopInv
  <2>3. WaitInv' BY Zenon DEF Types, WaitInv
  <2>4. MadeInv' BY DEF Types, MadeInv
  <2>5. TokenInv' BY TokensUntouched, Zenon DEF Types
  <2> QED BY <2>1, <2>2, <2>3, <2>4, <2>5, Zenon DEF IInv
<1> QED BY <1>1, <1>2, Zenon DEF ConnectionStep
---------------------------------------------------------------------------
(* Every step keeps the invariant.                                         *)
LEMMA NextKeeps == IInv /\ [Next \/ Ended]_vars => IInv'
<1> SUFFICES ASSUME IInv, [Next \/ Ended]_vars PROVE IInv' BY Zenon
<1> USE DaemonAssumption
<1>0. Types /\ LoopInv /\ WaitInv /\ MadeInv /\ TokenInv BY Zenon DEF IInv
<1>1. CASE MainStep BY <1>1, MainKeeps, Zenon
<1>2. CASE HandlerStep BY <1>2, HandlerKeeps, ZenonT(60)
<1>3. ASSUME \/ PrefetchExits
             \/ \E s \in {"hup", "term"} : Signal(s)
             \/ UNCHANGED vars
      PROVE  IInv'
  <2> USE <1>0, <1>3 DEF PrefetchExits, Signal, vars, signalVars, acceptVars, connVars
  <2>1. Types'
    <3>1. CASE PrefetchExits BY <3>1, ZenonT(60) DEF Types
    <3>2. ASSUME NEW s \in {"hup", "term"}, Signal(s) PROVE Types'
      <4>1. hups' \in 0..MaxHups BY <3>2 DEF Types
      <4> QED BY <3>2, <4>1 DEF Types
    <3>3. CASE UNCHANGED vars BY <3>3 DEF Types
    <3> QED BY <3>1, <3>2, <3>3, Zenon
  <2>2. LoopInv' BY ZenonT(60) DEF LoopInv
  <2>3. WaitInv' BY DEF WaitInv
  <2>4. MadeInv' BY Zenon DEF MadeInv
  <2>5. TokenInv' BY TokensUntouched, Zenon
  <2> QED BY <2>1, <2>2, <2>3, <2>4, <2>5, ZenonT(60) DEF IInv
<1>4. ASSUME NEW l \in Listeners, AcceptorStep(l) PROVE IInv'
  BY <1>4, LoopKeeps, AcceptKeeps, RegisterKeeps, Zenon DEF AcceptorStep
<1>5. ASSUME NEW c \in Clients, ConnectionStep(c) PROVE IInv'
  BY <1>5, ConnectionKeeps, Zenon
<1> QED BY <1>1, <1>2, <1>3, <1>4, <1>5, Zenon DEF Next, Ended

(* The invariant holds in every reachable state.                           *)
LEMMA Invariance == Spec => []IInv
BY InitInv, NextKeeps, PTL DEF Spec

(* Every variable of the daemon always has its type, and a semaphore holds *)
(* between none and MAX_CONNECTIONS tokens, so the release of limitedConn  *)
(* never waits for a token that is not there.                              *)
THEOREM TypeCorrect == Spec => []TypeOK
<1>1. IInv => TypeOK
  <2> SUFFICES ASSUME IInv PROVE TypeOK BY Zenon
  <2>1. \A l \in Listeners : sem[l] \in Nat /\ sem[l] <= MAX_CONNECTIONS[l]
    BY HeldFinite DEF IInv, TokenInv
  <2>2. sem \in [Listeners -> Nat] BY <2>1, Zenon DEF IInv, Types
  <2> QED BY <2>1, <2>2, Zenon DEF IInv, Types, TypeOK
<1> QED BY <1>1, Invariance, PTL

(* limitedListener keeps its promise whatever the limit: a listener never  *)
(* has more than MAX_CONNECTIONS connections that are not closed.          *)
THEOREM ServedWithinLimitAlways == Spec => []ServedWithinLimit
<1>1. IInv => ServedWithinLimit
  <2> SUFFICES ASSUME IInv, NEW l \in Listeners
               PROVE  Cardinality(Held(l)) <= MAX_CONNECTIONS[l]
    BY Zenon DEF ServedWithinLimit
  <2>1. Cardinality(Held(l)) \in Nat /\ MAX_CONNECTIONS[l] \in Nat
    BY HeldFinite, DaemonAssumption, ZenonT(60)
  <2> QED BY <2>1 DEF IInv, TokenInv
<1> QED BY <1>1, Invariance, PTL

(* StartDaemon closes the cache only after every listener is closed, every *)
(* socketmap connection has ended and the prefetcher has stopped, for any  *)
(* number of listeners, connections and signals.                           *)
THEOREM NothingServedAtCloseAlways == Spec => []NothingServedAtClose
<1>1. IInv => NothingServedAtClose
  <2> SUFFICES ASSUME IInv, main \in {"saving", "done"}
               PROVE  /\ open = {} /\ ~prefetching
                      /\ \A c \in Clients : From[c] \notin Metrics => conn[c] \in {"none", "gone"}
    BY Zenon DEF NothingServedAtClose
  <2>1. open = {} /\ ~prefetching /\ connectionWg = {} BY Zenon DEF IInv, LoopInv, WaitInv
  <2>2. ASSUME NEW c \in Clients, From[c] \notin Metrics PROVE conn[c] \in {"none", "gone"}
    <3>1. From[c] \in Listeners BY DaemonAssumption, Zenon
    <3>2. conn[c] # "accepted" BY <3>1, Zenon DEF IInv, LoopInv
    <3>3. conn[c] \notin {"serving", "closing"} BY <2>1, <2>2 DEF IInv, WaitInv
    <3> QED BY <3>2, <3>3, Zenon DEF IInv, Types
  <2> QED BY <2>1, <2>2, Zenon
<1> QED BY <1>1, Invariance, PTL
=============================================================================
