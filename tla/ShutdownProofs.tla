--------------------------- MODULE ShutdownProofs ---------------------------
(***************************************************************************)
(* Proofs about Shutdown for any clients, signals, messages and builds:    *)
(* types, what is left when the process ends, the life of the router while *)
(* the broker serves, and the silence after a stop().                      *)
(***************************************************************************)
EXTENDS Shutdown, PriorityRouterProofs

USE DEF MainState, StopCall, CallState, ServerState, HandlerState, Build

-----------------------------------------------------------------------------
(* Type correctness.                                                       *)

(* Every step of the process but the end of asyncio.run() is, for the      *)
(* router and the registry, one of their own steps or none.                *)
LEMMA LifeStepIsRouterStep ==
  ASSUME [LifeNext]_allVars
  PROVE  [Next]_vars \/ CancelAll \/ Interrupted
<1> USE DEF RouterUnchanged
<1>1. CASE RunBegins
  BY <1>1 DEF RunBegins, Next
<1>2. CASE SocketOpens \/ MainCancelled \/ StartServerReturns \/ ShutdownSeen \/ Exit
  BY <1>2 DEF SocketOpens, MainCancelled, StartServerReturns, ShutdownSeen, Exit
<1>3. ASSUME NEW x, BeginStop(x)
      PROVE  [Next]_vars
  BY <1>3 DEF BeginStop, RouterStop, Next
<1>4. CASE Finally
  BY <1>3, <1>4 DEF Finally
<1>5. ASSUME NEW x \in StopCall, SignalArrives(x) \/ ServerCloses(x) \/ CallReturns(x)
      PROVE  [Next]_vars
  BY <1>3, <1>5 DEF SignalArrives, ServerCloses, CallReturns, RouterStop, Next
<1>6. ASSUME NEW c \in Client, Accept(c) \/ (\E t \in Topic : HandlerSubscribes(c, t))
      PROVE  [Next]_vars
  BY <1>6 DEF Accept, HandlerSubscribes, Handlers, Next
<1>7. ASSUME NEW c \in Client, \E p \in Priority, t \in Topic : HandlerPublishes(c, p, t)
      PROVE  [Next]_vars
  BY <1>7 DEF HandlerPublishes, Next
<1>8. ASSUME NEW c \in Client, HandlerLeaves(c)
      PROVE  [Next]_vars
  <2>1. CASE c \in clients
    BY <1>8, <2>1 DEF HandlerLeaves, Handlers, Next
  <2>2. CASE c \notin clients
    <3>1. clients \ {c} = clients
      BY <2>2
    <3> QED BY <1>8, <2>2, <3>1
            DEF HandlerLeaves, Unregister, MustClose, vars, registryVars, transportVars
  <2> QED BY <2>1, <2>2
<1>9. ASSUME NEW c \in Client, HandlerEnds(c)
      PROVE  [Next]_vars
  BY <1>9 DEF HandlerEnds
<1>10. CASE PublishMetrics
  BY <1>10, MetricsAssumption DEF PublishMetrics, Next
<1>11. CASE Router \/ (Network /\ UNCHANGED lifeVars)
  BY <1>11 DEF Router, Next
<1>12. CASE UNCHANGED allVars
  BY <1>12 DEF allVars
<1> QED BY <1>1, <1>2, <1>4, <1>5, <1>6, <1>7, <1>8, <1>9, <1>10, <1>11, <1>12
        DEF LifeNext, MainStep

(* The cancellation of all tasks keeps the types.                          *)
LEMMA EndTasksTypeOK ==
  ASSUME TypeOK, CancelAll \/ Interrupted
  PROVE  TypeOK'
<1>1. EndTasks /\ stop' \in {stop, "returned"}
  BY DEF CancelAll, Interrupted
<1>2. RegistryTypeOK'
  <2>1. conn' \in [Client -> ConnState]
    BY <1>1 DEF EndTasks, TypeOK, RegistryTypeOK, ConnState
  <2> QED BY <1>1, <2>1 DEF EndTasks, TypeOK, RegistryTypeOK
<1>3. worker' \in WorkerState /\ aborted' \subseteq Nat
  <2>1. Len(served) \in Nat
    BY DEF TypeOK
  <2> QED BY <1>1, <2>1 DEF EndTasks, TypeOK, WorkerState
<1> QED BY <1>1, <1>2, <1>3 DEF EndTasks, TypeOK

(* One step of the process's life keeps the types.                         *)
LEMMA NextLifeTypeOK ==
  ASSUME LifeTypeOK, [LifeNext]_allVars
  PROVE  LifeTypeOK'
<1>1. TypeOK'
  BY LifeStepIsRouterStep, NextTypeOK, EndTasksTypeOK DEF LifeTypeOK
<1> USE <1>1 DEF LifeTypeOK
<1>2. CASE RunBegins \/ SocketOpens \/ MainCancelled
  BY <1>2 DEF RunBegins, SocketOpens, MainCancelled
<1>3. CASE MainStep \/ Interrupted
  <2>1. CASE StartServerReturns \/ ShutdownSeen \/ Finally \/ Exit
    BY <2>1 DEF StartServerReturns, ShutdownSeen, Finally, BeginStop, Exit
  <2>2. CASE CancelAll \/ Interrupted
    <3>1. /\ EndTasks /\ main' = "unwinding" /\ shutdown' \in {shutdown, TRUE}
          /\ \E last \in {"closing", "returned"} : EndCalls(last)
      BY <2>2 DEF CancelAll, Interrupted
    <3>2. calls' \in [StopCall -> CallState]
      BY <3>1 DEF EndCalls
    <3>3. handler' \in [Client -> HandlerState] /\ UNCHANGED <<server, build>>
      BY <3>1 DEF EndTasks
    <3> QED BY <3>1, <3>2, <3>3
  <2> QED BY <1>3, <2>1, <2>2 DEF MainStep
<1>4. ASSUME NEW x \in StopCall, SignalArrives(x) \/ ServerCloses(x) \/ CallReturns(x)
      PROVE  LifeTypeOK'
  <2>1. ASSUME BeginStop(x)
        PROVE  /\ server' \in ServerState /\ shutdown' \in BOOLEAN
               /\ calls' \in [StopCall -> CallState]
    BY <1>4, <2>1 DEF BeginStop
  <2>2. CASE SignalArrives(x)
    BY <2>1, <2>2 DEF SignalArrives
  <2>3. CASE ServerCloses(x) \/ CallReturns(x)
    BY <1>4, <2>3 DEF ServerCloses, CallReturns
  <2> QED BY <1>4, <2>2, <2>3
<1>5. ASSUME NEW c \in Client, Accept(c) \/ HandlerLeaves(c) \/ HandlerEnds(c)
      PROVE  LifeTypeOK'
  BY <1>5 DEF Accept, HandlerLeaves, HandlerEnds
<1>6. CASE UNCHANGED lifeVars
  BY <1>6 DEF lifeVars
<1>7. ASSUME NEW c \in Client,
             \/ \E t \in Topic : HandlerSubscribes(c, t)
             \/ \E p \in Priority, t \in Topic : HandlerPublishes(c, p, t)
      PROVE  LifeTypeOK'
  BY <1>6, <1>7 DEF HandlerSubscribes, HandlerPublishes
<1>8. CASE PublishMetrics \/ Router \/ (Network /\ UNCHANGED lifeVars)
  BY <1>6, <1>8 DEF PublishMetrics, Router
<1>9. CASE UNCHANGED allVars
  BY <1>6, <1>9 DEF allVars
<1> QED BY <1>2, <1>3, <1>4, <1>5, <1>7, <1>8, <1>9 DEF LifeNext

(* Every variable of the process keeps its type (main.py:40-74).           *)
THEOREM ProcessTypeOK == LifeSpec => []LifeTypeOK
<1>1. LifeInit => LifeTypeOK
  BY InitTypeOK DEF LifeInit, LifeTypeOK
<1> QED BY <1>1, NextLifeTypeOK, PTL DEF LifeSpec

-----------------------------------------------------------------------------
(* The end of the process.                                                 *)

(* The socket is only open while main starts or serves, so no connection   *)
(* is accepted afterwards.                                                 *)
SocketOpenOnlyEarly ==
  /\ server = "opening" => main = "starting"
  /\ server = "listening" => main = "serving"
  /\ main = "leaving" => server = "closed"

(* Before run() nothing has happened.                                      *)
NothingBefore ==
  main = "new" => /\ server = "none" /\ worker = "none"
                  /\ \A x \in StopCall : calls[x] = "none"

(* A call of stop() has set the event; until one comes to the router       *)
(* nobody has told the worker to end, so it lives.                         *)
RequestSeen == \A x \in StopCall : calls[x] # "none" => shutdown
RouterLives == RouterWanted => stop = "idle" /\ running /\ WorkerAlive

(* The finally is ahead of main until it stops.                            *)
FinallyAhead ==
  main \in {"new", "starting", "serving", "leaving"} => calls["finally"] = "none"

(* stop() returns after the worker, which nobody starts again.             *)
ReturnedOver == \A x \in StopCall : calls[x] = "returned" => ~WorkerAlive

(* Only a handler in its loop has an entry in the registry, and only a     *)
(* connection with an entry is open.                                       *)
EntriesBelong ==
  /\ clients \subseteq ReadingClients
  /\ \A c \in Client : conn[c] = "open" => c \in clients

(* The end of asyncio.run() leaves no worker and no loop behind, and waits *)
(* for the handlers and the call of run() if that is still under way.      *)
UnwindingQuiet ==
  main \in {"unwinding", "exited"} =>
    /\ shutdown /\ ~WorkerAlive /\ ReadingClients = {}
    /\ \A x \in Signal : calls[x] \in {"none", "returned"}
ExitedQuiet ==
  main = "exited" => /\ calls["finally"] = "returned"
                     /\ \A c \in Client : handler[c] \in {"none", "over"}

LifeInv ==
  /\ SocketOpenOnlyEarly /\ NothingBefore /\ RequestSeen /\ RouterLives
  /\ FinallyAhead /\ ReturnedOver /\ EntriesBelong /\ UnwindingQuiet /\ ExitedQuiet

(* It ends the worker and every loop of a handler.                         *)
LEMMA EndTasksEnds ==
  ASSUME LifeTypeOK, EntriesBelong, CancelAll \/ Interrupted
  PROVE  /\ ~WorkerAlive' /\ EntriesBelong' /\ (ReadingClients = {})'
         /\ main \in {"leaving", "stopping"} /\ main' = "unwinding"
         /\ calls' \in [StopCall -> CallState]
         /\ calls'["finally"] \in {"closing", "returned"}
         /\ \A x \in Signal : calls'[x] \in {"none", "returned"}
         /\ UNCHANGED server /\ handler' \in [Client -> HandlerState]
         /\ UNCHANGED build /\ shutdown' \in {shutdown, TRUE}
<1>1. /\ EndTasks /\ main \in {"leaving", "stopping"} /\ main' = "unwinding"
      /\ \E last \in {"closing", "returned"} : EndCalls(last)
      /\ shutdown' \in {shutdown, TRUE}
  BY DEF CancelAll, Interrupted
<1>2. /\ calls \in [StopCall -> CallState] /\ handler \in [Client -> HandlerState]
      /\ conn \in [Client -> ConnState]
  BY DEF LifeTypeOK, TypeOK, RegistryTypeOK
<1>3. EntriesBelong' /\ (ReadingClients = {})' /\ handler' \in [Client -> HandlerState]
  BY <1>1, <1>2 DEF EndTasks, EntriesBelong, ReadingClients, MustClose
<1>4. ~WorkerAlive' /\ UNCHANGED <<server, build>>
  BY <1>1 DEF EndTasks, WorkerAlive
<1>5. /\ calls' \in [StopCall -> CallState]
      /\ calls'["finally"] \in {"closing", "returned"}
      /\ \A x \in Signal : calls'[x] \in {"none", "returned"}
  BY <1>1, <1>2, SignalAssumption DEF EndCalls
<1> QED BY <1>1, <1>3, <1>4, <1>5

(* A step of the worker or of the network registers nobody and opens no    *)
(* connection; what it drops from the registry is no longer open.          *)
LEMMA RouterClosesOnly ==
  ASSUME TypeOK, WorkerStep \/ FanoutCrashes \/ Network
  PROVE  /\ clients' \subseteq clients
         /\ \A c \in Client : conn'[c] = "open" =>
              conn[c] = "open" /\ (c \in clients => c \in clients')
<1> USE DEF registryVars, transportVars
<1>1. conn \in [Client -> ConnState] /\ clients \subseteq Client
      /\ dead \subseteq Client /\ target \in Client
  BY DEF TypeOK, RegistryTypeOK
<1>2. ASSUME NEW doomed \in SUBSET Client, Reap(doomed)
      PROVE  /\ clients' \subseteq clients
             /\ \A c \in Client : conn'[c] = "open" =>
                  conn[c] = "open" /\ (c \in clients => c \in clients')
  BY <1>1, <1>2 DEF Reap, Unregister, MustClose
<1>3. CASE UNCHANGED <<clients, conn>>
  BY <1>3
<1>4. CASE GoIdle \/ Recover \/ CancelWorker \/ FanoutCrashes
  BY <1>3, <1>4 DEF GoIdle, Recover, CancelWorker, FanoutCrashes
<1>5. ASSUME NEW e \in heap, Serve(e)
      PROVE  UNCHANGED <<clients, conn>>
  BY <1>5 DEF Serve
<1>6. CASE DrainReturns \/ DrainRaises \/ DrainTimesOut \/ WaitClosedReturns
  <2>1. PICK doomed \in SUBSET Client : Reap(doomed) \/ UNCHANGED <<clients, conn>>
    BY <1>1, <1>6 DEF DrainReturns, DrainRaises, DrainTimesOut, WaitClosedReturns, Proceed
  <2> QED BY <1>2, <1>3, <2>1
<1>7. CASE Network
  BY <1>1, <1>7 DEF Network, PeerReads, Lose, CloseCompletes
<1> QED BY <1>3, <1>4, <1>5, <1>6, <1>7 DEF WorkerStep

(* The worker only takes a step while it is alive, and only a cancellation *)
(* or an end of running makes it the last.                                 *)
LEMMA WorkerOutlives ==
  ASSUME WorkerStep \/ FanoutCrashes
  PROVE  /\ WorkerAlive
         /\ UNCHANGED <<running, stop>>
         /\ running /\ stop # "awaiting" => WorkerAlive'
<1> USE DEF WorkerAlive, Cancelled
<1>1. CASE GoIdle \/ Recover \/ CancelWorker \/ FanoutCrashes
  BY <1>1 DEF GoIdle, Awake, WaitAgain, Recover, CancelWorker, FanoutCrashes
<1>2. ASSUME NEW e \in heap, Serve(e)
      PROVE  WorkerAlive /\ WorkerAlive' /\ UNCHANGED <<running, stop>>
  BY <1>2 DEF Serve, Awake
<1>3. ASSUME NEW doomed, Proceed(doomed) \/ Reap(doomed), worker \in {"draining", "closing"}
      PROVE  WorkerAlive'
  BY <1>3 DEF Proceed, Reap
<1>4. CASE DrainReturns \/ DrainRaises \/ DrainTimesOut \/ WaitClosedReturns
  BY <1>3, <1>4 DEF DrainReturns, DrainRaises, DrainTimesOut, WaitClosedReturns, RestUnchanged
<1> QED BY <1>1, <1>2, <1>4 DEF WorkerStep

(* The part of LifeInv that the router and the registry disturb.           *)
LEMMA RouterKeepsLife ==
  ASSUME LifeTypeOK, LifeInv, UNCHANGED lifeVars,
         WorkerStep \/ FanoutCrashes \/ Network
  PROVE  LifeInv'
<1> USE DEF lifeVars
<1>1. EntriesBelong'
  BY RouterClosesOnly DEF LifeTypeOK, LifeInv, EntriesBelong, ReadingClients
<1>2. UNCHANGED <<running, stop, worker>> \/ WorkerAlive
  BY WorkerOutlives DEF Network, routerVars
<1>3. NothingBefore' /\ RouterLives' /\ ReturnedOver'
  <2>1. CASE UNCHANGED <<running, stop, worker>>
    BY <2>1 DEF LifeInv, NothingBefore, RouterLives, RouterWanted, ReturnedOver, WorkerAlive
  <2>2. CASE WorkerStep \/ FanoutCrashes
    BY <2>2, WorkerOutlives
       DEF LifeInv, NothingBefore, RouterLives, RouterWanted, ReturnedOver, WorkerAlive
  <2> QED BY <2>1, <2>2 DEF Network, routerVars
<1>4. SocketOpenOnlyEarly' /\ RequestSeen' /\ FinallyAhead' /\ ExitedQuiet'
  BY DEF LifeInv, SocketOpenOnlyEarly, RequestSeen, FinallyAhead, ExitedQuiet
<1>5. UnwindingQuiet'
  BY <1>2 DEF LifeInv, UnwindingQuiet, ReadingClients, WorkerAlive
<1> QED BY <1>1, <1>3, <1>4, <1>5 DEF LifeInv

(* A step of the handlers that leaves the router's life alone.             *)
LEMMA HandlerKeepsLife ==
  ASSUME LifeTypeOK, LifeInv, UNCHANGED <<main, calls, server, shutdown, running, stop, worker>>,
         EntriesBelong', UnwindingQuiet', ExitedQuiet'
  PROVE  LifeInv'
BY DEF LifeInv, SocketOpenOnlyEarly, NothingBefore, RequestSeen, RouterLives, RouterWanted,
       FinallyAhead, ReturnedOver, WorkerAlive

(* One step of the process's life keeps the inductive invariant.           *)
LEMMA NextLifeInv ==
  ASSUME LifeTypeOK, LifeInv, [LifeNext]_allVars
  PROVE  LifeInv'
<1> USE DEF RouterUnchanged, vars, registryVars, transportVars, routerVars, historyVars,
            WorkerAlive, ReadingClients
<1> DEFINE Parts == /\ SocketOpenOnlyEarly /\ NothingBefore /\ RequestSeen
                    /\ RouterLives /\ FinallyAhead /\ ReturnedOver /\ UnwindingQuiet
                    /\ ExitedQuiet
<1>0. /\ calls \in [StopCall -> CallState] /\ handler \in [Client -> HandlerState]
      /\ conn \in [Client -> ConnState] /\ "finally" \in StopCall
  BY DEF LifeTypeOK, TypeOK, RegistryTypeOK
<1>1. CASE RunBegins \/ SocketOpens \/ MainCancelled \/ StartServerReturns \/ ShutdownSeen
  <2>1. EntriesBelong'
    BY <1>1 DEF LifeInv, EntriesBelong, RunBegins, Start, SocketOpens, MainCancelled,
                StartServerReturns, ShutdownSeen
  <2>2. Parts'
    BY <1>1 DEF LifeInv, SocketOpenOnlyEarly, NothingBefore, RequestSeen, RouterLives,
                RouterWanted, FinallyAhead, ReturnedOver, UnwindingQuiet, ExitedQuiet,
                RunBegins, Start, SocketOpens, MainCancelled, StartServerReturns,
                ShutdownSeen
  <2> QED BY <2>1, <2>2 DEF LifeInv
<1>2. ASSUME NEW x \in StopCall, BeginStop(x), UNCHANGED <<handler, build>>,
             calls[x] = "none",
             \/ /\ UNCHANGED main /\ main \notin {"new", "unwinding", "exited"}
                /\ x # "finally"
             \/ /\ (main = "starting" /\ server = "none") \/ main = "leaving"
                /\ main' = "stopping"
      PROVE  LifeInv'
  <2>1. EntriesBelong'
    BY <1>2 DEF LifeInv, EntriesBelong, BeginStop, RouterStop, Stop
  <2>2. UNCHANGED worker
    BY <1>2 DEF BeginStop, RouterStop, Stop
  <2>3. /\ shutdown'
        /\ \A y \in StopCall : calls'[y] = "returned" => calls[y] = "returned"
    BY <1>0, <1>2 DEF BeginStop
  <2>4. SocketOpenOnlyEarly'
    BY <1>2 DEF LifeInv, SocketOpenOnlyEarly, BeginStop
  <2>5. RouterLives'
    <3>1. RouterWanted' => RouterWanted /\ UNCHANGED <<running, stop>>
      BY <1>0, <1>2 DEF BeginStop, RouterWanted
    <3> QED BY <2>2, <3>1 DEF LifeInv, RouterLives
  <2>6. main' \notin {"new", "unwinding", "exited"}
    BY <1>2
  <2>7. NothingBefore' /\ RequestSeen' /\ ReturnedOver' /\ UnwindingQuiet' /\ ExitedQuiet'
    BY <2>2, <2>3, <2>6 DEF LifeInv, NothingBefore, RequestSeen, ReturnedOver,
       UnwindingQuiet, ExitedQuiet
  <2>8. FinallyAhead'
    BY <1>0, <1>2 DEF LifeInv, FinallyAhead, BeginStop
  <2> QED BY <2>1, <2>4, <2>5, <2>7, <2>8 DEF LifeInv
<1>3. CASE Finally
  <2>1. calls["finally"] = "none"
    BY <1>3 DEF Finally, LifeInv, FinallyAhead
  <2> QED BY <1>0, <1>2, <1>3, <2>1 DEF Finally
<1>4. ASSUME NEW x \in StopCall, SignalArrives(x)
      PROVE  LifeInv'
  BY <1>2, <1>4, SignalAssumption DEF SignalArrives
<1>5. ASSUME NEW x \in StopCall, ServerCloses(x) \/ CallReturns(x)
      PROVE  LifeInv'
  <2>1. calls[x] \in {"closing", "cancelling"}
    BY <1>5 DEF ServerCloses, CallReturns
  <2>2. shutdown /\ main # "new"
    BY <2>1 DEF LifeInv, RequestSeen, NothingBefore
  <2>3. main # "exited"
    BY <2>1 DEF LifeInv, UnwindingQuiet, ExitedQuiet
  <2>4. /\ UNCHANGED <<main, server, shutdown, handler, build, worker, clients, conn>>
        /\ \A y \in StopCall : calls'[y] = "returned" =>
             calls[y] = "returned" \/ ~WorkerAlive
        /\ calls'[x] \in {"cancelling", "returned"}
        /\ \A y \in StopCall : y # x => calls'[y] = calls[y]
    BY <1>0, <1>5 DEF ServerCloses, CallReturns, RouterStop, Stop, StopReturns
  <2>5. RouterLives'
    BY <2>4 DEF RouterLives, RouterWanted
  <2>6. UnwindingQuiet'
    BY <2>1, <2>4 DEF LifeInv, UnwindingQuiet
  <2>7. FinallyAhead'
    BY <2>1, <2>4 DEF LifeInv, FinallyAhead
  <2> QED BY <2>2, <2>3, <2>4, <2>5, <2>6, <2>7
          DEF LifeInv, SocketOpenOnlyEarly, NothingBefore, RequestSeen, ReturnedOver,
              EntriesBelong, ExitedQuiet
<1>6. CASE CancelAll \/ Interrupted
  <2>1. /\ ~WorkerAlive' /\ EntriesBelong' /\ (ReadingClients = {})'
        /\ main' = "unwinding" /\ UNCHANGED server
        /\ \A x \in Signal : calls'[x] \in {"none", "returned"}
    BY <1>6, EndTasksEnds DEF LifeInv
  <2>2. shutdown'
    BY <1>0, <1>6 DEF CancelAll, Interrupted, LifeInv, RequestSeen
  <2>3. server \notin {"opening", "listening"}
    BY <1>6, EndTasksEnds DEF LifeInv, SocketOpenOnlyEarly
  <2>4. SocketOpenOnlyEarly' /\ UnwindingQuiet' /\ ReturnedOver' /\ RequestSeen'
    BY <2>1, <2>2, <2>3 DEF SocketOpenOnlyEarly, UnwindingQuiet, ReturnedOver, RequestSeen
  <2>5. NothingBefore' /\ RouterLives' /\ FinallyAhead' /\ ExitedQuiet'
    BY <2>1 DEF NothingBefore, RouterLives, RouterWanted, FinallyAhead, ExitedQuiet
  <2> QED BY <2>1, <2>4, <2>5 DEF LifeInv
<1>7. CASE Exit
  BY <1>7 DEF Exit, LifeInv, SocketOpenOnlyEarly, NothingBefore, RequestSeen, RouterLives,
              RouterWanted, FinallyAhead, ReturnedOver, EntriesBelong, UnwindingQuiet,
              ExitedQuiet
<1>8. ASSUME NEW c \in Client, Accept(c)
      PROVE  LifeInv'
  <2>1. EntriesBelong'
    BY <1>0, <1>8 DEF Accept, Register, LifeInv, EntriesBelong
  <2>2. main \notin {"unwinding", "exited"}
    BY <1>8 DEF Accept, LifeInv, SocketOpenOnlyEarly
  <2>3. UnwindingQuiet' /\ ExitedQuiet'
    BY <1>8, <2>2 DEF Accept, UnwindingQuiet, ExitedQuiet
  <2> QED BY <1>8, <2>1, <2>3, HandlerKeepsLife DEF Accept
<1>9. ASSUME NEW c \in Client, HandlerLeaves(c)
      PROVE  LifeInv'
  <2>1. EntriesBelong'
    BY <1>0, <1>9 DEF HandlerLeaves, Unregister, MustClose, LifeInv, EntriesBelong
  <2>2. UnwindingQuiet' /\ ExitedQuiet'
    BY <1>0, <1>9 DEF HandlerLeaves, LifeInv, UnwindingQuiet, ExitedQuiet
  <2> QED BY <1>9, <2>1, <2>2, HandlerKeepsLife DEF HandlerLeaves
<1>10. ASSUME NEW c \in Client, HandlerEnds(c)
       PROVE  LifeInv'
  <2>1. EntriesBelong' /\ UnwindingQuiet' /\ ExitedQuiet'
    BY <1>0, <1>10 DEF HandlerEnds, LifeInv, EntriesBelong, UnwindingQuiet, ExitedQuiet
  <2> QED BY <1>10, <2>1, HandlerKeepsLife DEF HandlerEnds
<1>11. CASE UNCHANGED <<lifeVars, clients, conn, running, stop, worker>>
  <2>1. EntriesBelong' /\ UnwindingQuiet' /\ ExitedQuiet'
    BY <1>11 DEF lifeVars, LifeInv, EntriesBelong, UnwindingQuiet, ExitedQuiet
  <2> QED BY <1>11, <2>1, HandlerKeepsLife DEF lifeVars
<1>12. ASSUME NEW c \in Client, NEW t \in Topic, HandlerSubscribes(c, t)
       PROVE  LifeInv'
  BY <1>11, <1>12 DEF HandlerSubscribes, Subscribe
<1>13. ASSUME NEW p \in Priority, NEW t \in Topic, Enqueue(p, t), UNCHANGED lifeVars
       PROVE  LifeInv'
  BY <1>11, <1>13 DEF Enqueue
<1>14. CASE PublishMetrics
  BY <1>13, <1>14, MetricsAssumption DEF PublishMetrics
<1>15. CASE Router \/ (Network /\ UNCHANGED lifeVars)
  BY <1>15, RouterKeepsLife DEF Router
<1>16. CASE UNCHANGED allVars
  BY <1>11, <1>16 DEF allVars
<1>17. ASSUME NEW c \in Client, \E p \in Priority, t \in Topic : HandlerPublishes(c, p, t)
       PROVE  LifeInv'
  BY <1>13, <1>17 DEF HandlerPublishes
<1> QED BY <1>1, <1>3, <1>4, <1>5, <1>6, <1>7, <1>8, <1>9, <1>10, <1>12, <1>14, <1>15,
           <1>16, <1>17 DEF LifeNext, MainStep

(* The invariant of the life of the process, behind the next theorems.     *)
LEMMA LifeInvariant == LifeSpec => [](LifeTypeOK /\ LifeInv)
<1>1. LifeInit => LifeInv
  BY DEF LifeInit, Init, RegistryInit, LifeInv, SocketOpenOnlyEarly, NothingBefore,
         RequestSeen, RouterLives, RouterWanted, FinallyAhead, ReturnedOver, EntriesBelong,
         UnwindingQuiet, ExitedQuiet, ReadingClients, WorkerAlive
<1> QED BY <1>1, ProcessTypeOK, NextLifeInv, PTL DEF LifeSpec

(* When the process ends nothing is left half-done, in whatever order the  *)
(* signals, failures, handlers and calls of stop() came (main.py:40-74,    *)
(* broker/server.py stop()).                                               *)
THEOREM ExitLeavesNothing == LifeSpec => []NothingSurvivesExit
<1>1. LifeTypeOK /\ LifeInv => NothingSurvivesExit
  BY DEF LifeTypeOK, LifeInv, SocketOpenOnlyEarly, ReturnedOver, EntriesBelong,
         UnwindingQuiet, ExitedQuiet, NothingSurvivesExit, ReadingClients
<1> QED BY <1>1, LifeInvariant, PTL

(* From start() until some call of stop() has come as far as router.stop() *)
(* the router lives: through every exception of a fan-out, through the     *)
(* signals that come, and while wait_closed() keeps the calls of stop()    *)
(* waiting (broker/server.py:107-132, broker/router.py:82-102).  It says   *)
(* nothing of a handler that publishes after that point.                   *)
THEOREM RouterServes == LifeSpec => []RoutesWhileServing
<1>1. LifeTypeOK /\ LifeInv => RoutesWhileServing
  BY DEF LifeInv, RouterLives, RoutesWhileServing
<1> QED BY <1>1, LifeInvariant, PTL

(* Once any call of stop() has returned the router is silent for ever:     *)
(* nobody starts a second worker, and the cancelled one was waited for.    *)
THEOREM SilenceAfterStop == LifeSpec => NoServiceAfterStop
<1>1. ASSUME LifeTypeOK, LifeInv, [LifeNext]_allVars,
             NEW x \in StopCall, calls[x] = "returned"
      PROVE  UNCHANGED <<served, delivered>>
  <2>1. ~WorkerAlive
    BY <1>1 DEF LifeInv, ReturnedOver
  <2>2. ~(WorkerStep \/ FanoutCrashes)
    BY <2>1, WorkerOutlives
  <2>3. [Next]_vars \/ CancelAll \/ Interrupted
    BY <1>1, LifeStepIsRouterStep
  <2>4. CASE Network \/ Handlers \/ CancelAll \/ Interrupted \/ UNCHANGED vars
    BY <2>4 DEF Network, Handlers, CancelAll, Interrupted, EndTasks, historyVars, vars
  <2>5. CASE Start \/ Stop \/ StopReturns \/ \E p \in Priority, t \in Topic : Enqueue(p, t)
    BY <2>5 DEF Start, Stop, StopReturns, Enqueue, historyVars
  <2> QED BY <2>2, <2>3, <2>4, <2>5 DEF Next
<1>2. LifeTypeOK /\ LifeInv /\ [LifeNext]_allVars =>
        [(\E x \in StopCall : calls[x] = "returned") => UNCHANGED <<served, delivered>>]_allVars
  BY <1>1
<1> QED BY <1>2, LifeInvariant, PTL DEF LifeSpec, NoServiceAfterStop
=============================================================================
