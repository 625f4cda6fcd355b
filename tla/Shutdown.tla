------------------------------ MODULE Shutdown ------------------------------
(***************************************************************************)
(* The life of the broker process: run() of main.py, start() and stop() of *)
(* broker/server.py and the end of asyncio.run(), over the router of       *)
(* PriorityRouter and with the connection handlers as tasks of their own.  *)
(*                                                                         *)
(* stop() is called by main's "finally" and by a task for every signal, so *)
(* several calls overlap, and a signal may come before start_server() has  *)
(* returned.                                                               *)
(***************************************************************************)
EXTENDS PriorityRouter

CONSTANTS
  Signal,         \* the SIGINT and SIGTERM that may arrive
  MetricsTopic    \* topic_hash("broker/metrics")

MetricsPriority == 255

ASSUME SignalAssumption == "finally" \notin Signal    \* the other call of stop()
ASSUME MetricsAssumption == MetricsPriority \in Priority /\ MetricsTopic \in Topic

VARIABLES
  main,       \* where run() is suspended
  calls,      \* where each call of stop() is suspended
  server,     \* _server and its listening socket
  shutdown,   \* _shutdown_event.is_set()
  handler,    \* where each _handle_client task is
  build       \* the Python and the platform the broker runs on

lifeVars == <<main, calls, server, shutdown, handler, build>>
allVars  == <<vars, lifeVars>>

-----------------------------------------------------------------------------
MainState == {"new",
              "starting",     \* await asyncio.start_server()
              "serving",      \* await self._shutdown_event.wait()
              "leaving",      \* wait_closed() of "async with self._server"
              "stopping",     \* await server.stop()
              "unwinding",    \* asyncio.run() awaits the tasks it cancelled
              "exited"}

(* The calls of stop(): that of run() and those of the signal handler.     *)
StopCall  == Signal \cup {"finally"}
CallState == {"none",
              "closing",      \* await self._server.wait_closed()
              "cancelling",   \* await self.router.stop()
              "returned"}

(* "opening": the socket listens but _server is not assigned yet.          *)
ServerState  == {"none", "opening", "listening", "closed"}

HandlerState == {"none",
                 "reading",     \* in the loop
                 "leaving",     \* wait_closed() in unregister()
                 "unwinding",   \* the same, after asyncio.run()'s cancel
                 "over"}

(* waits: Server.wait_closed() waits for the accepted connections (Python  *)
(* 3.12.1 and later).  signals: the loop takes signal handlers (not on     *)
(* Windows, where asyncio.run() cancels the main task at the first Ctrl+C, *)
(* and ends with a KeyboardInterrupt at the second).                       *)
Build == [waits : BOOLEAN, signals : BOOLEAN]

LifeInit ==
  /\ Init
  /\ main = "new" /\ server = "none" /\ shutdown = FALSE
  /\ calls   = [x \in StopCall |-> "none"]
  /\ handler = [c \in Client |-> "none"]
  /\ build \in Build

RouterUnchanged == UNCHANGED vars

-----------------------------------------------------------------------------
(* start().                                                                *)

RunBegins ==
  /\ main = "new"
  /\ Start
  /\ main' = "starting"
  /\ UNCHANGED <<calls, server, shutdown, handler, build>>

SocketOpens ==
  /\ main = "starting" /\ server = "none"
  /\ server' = "opening"
  /\ RouterUnchanged
  /\ UNCHANGED <<main, calls, shutdown, handler, build>>

(* _server is assigned; if a signal came before, the wait is over already, *)
(* and "async with" closes the server.                                     *)
StartServerReturns ==
  /\ main = "starting" /\ server = "opening"
  /\ main'   = IF shutdown THEN "leaving" ELSE "serving"
  /\ server' = IF shutdown THEN "closed" ELSE "listening"
  /\ RouterUnchanged
  /\ UNCHANGED <<calls, shutdown, handler, build>>

ShutdownSeen ==
  /\ main = "serving" /\ shutdown
  /\ main'   = "leaving"
  /\ server' = "closed"
  /\ RouterUnchanged
  /\ UNCHANGED <<calls, shutdown, handler, build>>

(* The first Ctrl+C without signal handlers: CancelledError from the wait, *)
(* through the same "async with".  Before the socket listens it is one of  *)
(* the errors of start_server() in Finally.                                *)
MainCancelled ==
  /\ main = "serving" /\ ~build.signals
  /\ main'   = "leaving"
  /\ server' = "closed"
  /\ RouterUnchanged
  /\ UNCHANGED <<calls, shutdown, handler, build>>

-----------------------------------------------------------------------------
(* stop().                                                                 *)

(* router.stop() up to its await; a second call finds the first one's      *)
(* assignments in place, and cancels a task that is cancelled already.     *)
RouterStop == Stop \/ (stop = "awaiting" /\ RouterUnchanged)

WaitClosedOver ==
  build.waits => \A c \in Client : conn[c] \in {"new", "lost"}

(* Fault: the shutdown event is not set.                                   *)
BeginStopQuietly(x) ==
  /\ \/ /\ server \in {"listening", "closed"}
        /\ server' = "closed"
        /\ calls'  = [calls EXCEPT ![x] = "closing"]
        /\ RouterUnchanged
     \/ /\ server \in {"none", "opening"}
        /\ calls'  = [calls EXCEPT ![x] = "cancelling"]
        /\ RouterStop
        /\ UNCHANGED server
  /\ UNCHANGED shutdown

(* stop() up to its first await.  Setting the event and cancelling the     *)
(* metrics task both end it, so shutdown stands for the two.               *)
BeginStop(x) ==
  /\ shutdown' = TRUE
  /\ \/ /\ server \in {"listening", "closed"}
        /\ server' = "closed"
        /\ calls'  = [calls EXCEPT ![x] = "closing"]
        /\ RouterUnchanged
     \/ /\ server \in {"none", "opening"}
        /\ calls'  = [calls EXCEPT ![x] = "cancelling"]
        /\ RouterStop
        /\ UNCHANGED server

SignalArrives(x) ==
  /\ x \in Signal /\ calls[x] = "none"
  /\ build.signals /\ main \notin {"new", "unwinding", "exited"}
  /\ BeginStop(x)
  /\ UNCHANGED <<main, handler, build>>

(* start_server() failed (the port is taken) or was cancelled, or "async   *)
(* with" is left.                                                          *)
Finally ==
  /\ \/ main = "starting" /\ server = "none"
     \/ main = "leaving" /\ WaitClosedOver
  /\ main' = "stopping"
  /\ BeginStop("finally")
  /\ UNCHANGED <<handler, build>>

ServerCloses(x) ==
  /\ calls[x] = "closing" /\ WaitClosedOver
  /\ calls' = [calls EXCEPT ![x] = "cancelling"]
  /\ RouterStop
  /\ UNCHANGED <<main, server, shutdown, handler, build>>

(* Fault: stop() clears the flag and returns; nobody cancels the worker.   *)
CallReturnsEarly(x) ==
  /\ calls[x] = "cancelling"
  /\ calls' = [calls EXCEPT ![x] = "returned"]
  /\ stop'  = "returned"
  /\ UNCHANGED <<registryVars, transportVars, historyVars,
                 heap, seq, event, running, worker, target, todo, dead>>
  /\ UNCHANGED <<main, server, shutdown, handler, build>>

(* The worker is over, and router.stop() returns to every caller.          *)
CallReturns(x) ==
  /\ calls[x] = "cancelling" /\ ~WorkerAlive
  /\ calls' = [calls EXCEPT ![x] = "returned"]
  /\ StopReturns \/ (stop = "returned" /\ RouterUnchanged)
  /\ UNCHANGED <<main, server, shutdown, handler, build>>

-----------------------------------------------------------------------------
(* The end of asyncio.run(): every task left is cancelled and awaited.  A  *)
(* handler in its loop goes through its "finally", one that awaits         *)
(* wait_closed() there is over, and so are the worker and what the stop()  *)
(* of a signal still awaits.                                               *)
ReadingClients == {c \in Client : handler[c] = "reading"}

EndTasks ==
  /\ handler' = [c \in Client |->
       IF handler[c] = "none" THEN "none"
       ELSE IF c \in ReadingClients /\ MustClose(c) THEN "unwinding" ELSE "over"]
  /\ conn'    = [c \in Client |->
       IF c \in ReadingClients /\ MustClose(c) THEN "closing" ELSE conn[c]]
  /\ clients' = clients \ ReadingClients
  /\ worker'  = IF WorkerAlive THEN "finished" ELSE worker
  /\ aborted' = aborted \cup (IF worker = "draining" THEN {Len(served)} ELSE {})
  /\ todo' = {} /\ dead' = {}
  /\ UNCHANGED <<topics, buffered, heap, seq, event, running, target, served,
                 audience, delivered, crashMark, server, build>>

EndCalls(last) ==
  calls' = [x \in StopCall |-> IF x = "finally" THEN last
                               ELSE IF calls[x] = "none" THEN "none" ELSE "returned"]

(* run() has returned.                                                     *)
CancelAll ==
  /\ main = "stopping" /\ calls["finally"] = "returned"
  /\ main' = "unwinding"
  /\ EndTasks /\ EndCalls("returned")
  /\ stop' = "returned"
  /\ UNCHANGED shutdown

(* The second Ctrl+C, main cancelled once more with all the others: in its *)
(* "async with" it goes on to the finally and a stop() that is awaited     *)
(* too, in that stop() it is over.  (The stop() of run() finds nobody left *)
(* to wait for, so it is at router.stop() within a turn of the loop.)      *)
Interrupted ==
  /\ ~build.signals
  /\ \/ /\ main = "leaving"
        /\ EndCalls("closing")
        /\ shutdown' = TRUE
        /\ UNCHANGED stop
     \/ /\ main = "stopping" /\ calls["finally"] = "cancelling"
        /\ EndCalls("returned")
        /\ stop' = "returned"
        /\ UNCHANGED shutdown
  /\ main' = "unwinding"
  /\ EndTasks

(* Fault: asyncio.run() does not wait for the handlers it cancelled.       *)
ExitAtOnce ==
  /\ main = "unwinding"
  /\ main' = "exited"
  /\ RouterUnchanged
  /\ UNCHANGED <<calls, server, shutdown, handler, build>>

Exit ==
  /\ main = "unwinding" /\ calls["finally"] = "returned"
  /\ \A c \in Client : handler[c] \in {"none", "over"}
  /\ main' = "exited"
  /\ RouterUnchanged
  /\ UNCHANGED <<calls, server, shutdown, handler, build>>

-----------------------------------------------------------------------------
(* _handle_client, and the metrics task.                                   *)

Accept(c) ==
  /\ server \in {"opening", "listening"} /\ main # "exited"
  /\ Register(c)
  /\ handler' = [handler EXCEPT ![c] = "reading"]
  /\ UNCHANGED <<routerVars, historyVars, main, calls, server, shutdown, build>>

HandlerSubscribes(c, t) ==
  /\ handler[c] = "reading"
  /\ Subscribe(c, t)
  /\ UNCHANGED <<routerVars, historyVars, lifeVars>>

(* What is published while stop() waits is still queued.                   *)
HandlerPublishes(c, p, t) ==
  /\ handler[c] = "reading"
  /\ Enqueue(p, t)
  /\ UNCHANGED lifeVars

PublishMetrics ==
  /\ main # "new" /\ ~shutdown
  /\ Enqueue(MetricsPriority, MetricsTopic)
  /\ UNCHANGED lifeVars

(* The end of the loop; "finally" unregisters and waits for the writer it  *)
(* had to close.                                                           *)
HandlerLeaves(c) ==
  /\ handler[c] = "reading"
  /\ Unregister(c)
  /\ handler' = [handler EXCEPT ![c] = IF MustClose(c) THEN "leaving" ELSE "over"]
  /\ UNCHANGED <<routerVars, historyVars, main, calls, server, shutdown, build>>

HandlerEnds(c) ==
  /\ handler[c] \in {"leaving", "unwinding"} /\ conn[c] = "lost"
  /\ handler' = [handler EXCEPT ![c] = "over"]
  /\ RouterUnchanged
  /\ UNCHANGED <<main, calls, server, shutdown, build>>

Router == (WorkerStep \/ FanoutCrashes) /\ UNCHANGED lifeVars

MainStep ==
  \/ StartServerReturns
  \/ ShutdownSeen
  \/ Finally
  \/ CancelAll
  \/ Exit

LifeNext ==
  \/ RunBegins
  \/ SocketOpens
  \/ MainCancelled
  \/ Interrupted
  \/ MainStep
  \/ \E x \in StopCall : SignalArrives(x) \/ ServerCloses(x) \/ CallReturns(x)
  \/ \E c \in Client :
       \/ Accept(c)
       \/ \E t \in Topic : HandlerSubscribes(c, t)
       \/ \E p \in Priority, t \in Topic : HandlerPublishes(c, p, t)
       \/ HandlerLeaves(c)
       \/ HandlerEnds(c)
  \/ PublishMetrics
  \/ Router
  \/ Network /\ UNCHANGED lifeVars

LifeSpec == LifeInit /\ [][LifeNext]_allVars

(* The event loop runs the worker, every call of stop(), main and the      *)
(* handlers on, and start_server() succeeds or fails.                      *)
LifeFairness ==
  /\ WF_allVars(WorkerStep /\ UNCHANGED lifeVars)
  /\ WF_allVars(MainStep)
  /\ \A x \in StopCall : WF_allVars(ServerCloses(x) \/ CallReturns(x))
  /\ \A c \in Client :
       /\ WF_allVars(HandlerEnds(c))
       /\ WF_allVars(CloseCompletes(c) /\ UNCHANGED <<routerVars, historyVars, lifeVars>>)

FairLifeSpec == LifeSpec /\ LifeFairness

-----------------------------------------------------------------------------
LifeTypeOK ==
  /\ TypeOK
  /\ main \in MainState /\ calls \in [StopCall -> CallState]
  /\ server \in ServerState /\ shutdown \in BOOLEAN
  /\ handler \in [Client -> HandlerState] /\ build \in Build

(* When the process ends nothing of it is left half-done, in whatever order*)
(* signals, failures and calls came: the worker and every handler are over,*)
(* the registry is empty, the socket closed, and no stop() is in flight.   *)
NothingSurvivesExit ==
  main = "exited" =>
    /\ ~WorkerAlive /\ clients = {} /\ server # "listening"
    /\ \A c \in Client : handler[c] \in {"none", "over"} /\ conn[c] # "open"
    /\ \A x \in StopCall : calls[x] \in {"none", "returned"}

(* From start() until some call of stop() has come as far as router.stop() *)
(* the worker lives: while the socket opens and serves, through every      *)
(* exception of a fan-out, and still while main and the calls of stop()    *)
(* wait for the clients to go.  From then on, and that may be before the   *)
(* socket listens, a handler publishes into a heap that nobody empties.    *)
RouterWanted ==
  /\ main \notin {"new", "unwinding", "exited"}
  /\ \A x \in StopCall : calls[x] \in {"none", "closing"}

RoutesWhileServing == RouterWanted => WorkerAlive

(* Once any call of stop() has returned, nothing is popped or delivered    *)
(* any more, although other calls, handlers and peers go on.               *)
NoServiceAfterStop ==
  [][(\E x \in StopCall : calls[x] = "returned") =>
       UNCHANGED <<served, delivered>>]_allVars

(* A client that hangs up at last.                                         *)
ClientsHangUp ==
  \A c \in Client : WF_allVars(Lose(c) /\ UNCHANGED <<routerVars, historyVars, lifeVars>>)

Requested == main = "leaving" \/ \E x \in StopCall : calls[x] # "none"

(* A shutdown asked for in any way, at any time, ends the process, provided*)
(* that peers read or are lost and, if wait_closed() waits for the clients,*)
(* that these hang up of their own accord: stop() does not close them.     *)
ShutdownCompletes ==
  PeerFairness /\ (build.waits => ClientsHangUp) => (Requested ~> main = "exited")
=============================================================================
