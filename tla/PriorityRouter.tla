--------------------------- MODULE PriorityRouter ---------------------------
(***************************************************************************)
(* broker/router.py: the priority heap, the event that wakes the worker,   *)
(* the worker task with its fan-out, and start()/stop(); on top of the     *)
(* registry and the transports it writes to.                               *)
(*                                                                         *)
(* asyncio runs one task at a time and switches only where a task awaits,  *)
(* so one action is the code between two awaits.  Connections come, go and *)
(* subscribe as the handlers of broker/server.py let them.                 *)
(***************************************************************************)
EXTENDS ConnectionRegistry, Integers

CONSTANTS
  Priority,      \* the priority byte of a frame
  MaxArrivals    \* bound on the number of messages ever enqueued

ASSUME PriorityAssumption == Priority \subseteq Nat
ASSUME ArrivalsAssumption == MaxArrivals \in Nat

VARIABLES
  heap,      \* _heap, as a set: heappop is the least tuple (-priority, seq)
  seq,       \* _seq
  event,     \* _event.is_set()
  running,   \* _running
  worker,    \* where the worker task is suspended
  target,    \* the client the worker awaits (drain or wait_closed)
  todo,      \* subscribers of the current fan-out not written to yet
  dead,      \* the fan-out's list of unreachable clients
  stop       \* the latest stop() call

(* History, read by no action: what was popped and for whom, what reached  *)
(* each transport, which fan-outs an exception or a cancellation cut short *)
(* and how many messages had been enqueued at the latest exception.        *)
VARIABLES served, audience, delivered, aborted, crashMark

routerVars  == <<heap, seq, event, running, worker, target, todo, dead, stop>>
historyVars == <<served, audience, delivered, aborted, crashMark>>
vars        == <<registryVars, transportVars, routerVars, historyVars>>

-----------------------------------------------------------------------------
Entry   == [pri : Priority, seq : Nat, topic : Topic]
Service == [entry : Entry, at : Nat]

WorkerState == {"none",        \* start() has not been called
                "waiting",     \* await self._event.wait()
                "draining",    \* await wait_for(writer.drain(), 5.0)
                "closing",     \* await writer.wait_closed(), in unregister
                "napping",     \* await asyncio.sleep(0.05)
                "recovering",  \* await asyncio.sleep(1) after an exception
                "finished"}    \* the task is over

WorkerAlive == worker \notin {"none", "finished"}

(* Fault: stop() does not cancel the task.                                 *)
NeverCancelled == FALSE

(* A cancelled task does nothing more than see its CancelledError.         *)
Cancelled == stop = "awaiting" /\ WorkerAlive

(* heapq compares (-priority, seq, message); seq is unique.                *)
Precedes(e, f) == e.pri > f.pri \/ (e.pri = f.pri /\ e.seq < f.seq)
(* Fault: the priority is not negated for the min-heap.                    *)
IsLeastUrgent(e) ==
  /\ e \in heap
  /\ \A f \in heap \ {e} : e.pri < f.pri \/ (e.pri = f.pri /\ e.seq < f.seq)

IsTop(e) == e \in heap /\ \A f \in heap \ {e} : Precedes(e, f)

Init ==
  /\ RegistryInit
  /\ heap = {} /\ seq = 0 /\ event = FALSE /\ running = FALSE
  /\ worker = "none" /\ stop = "idle"
  /\ target \in Client /\ todo = {} /\ dead = {}
  /\ served = << >> /\ audience = << >>
  /\ delivered = [c \in Client |-> << >>]
  /\ aborted = {} /\ crashMark = 0

-----------------------------------------------------------------------------
(* The public calls.                                                       *)

(* Fault: the negated priority stays in the message.                       *)
EnqueueNegated(p, t) ==
  /\ seq < MaxArrivals
  /\ heap'  = heap \cup {[pri |-> -p, seq |-> seq, topic |-> t]}
  /\ seq'   = seq + 1
  /\ event' = TRUE
  /\ UNCHANGED <<registryVars, transportVars, historyVars,
                 running, worker, target, todo, dead, stop>>

Enqueue(p, t) ==
  /\ seq < MaxArrivals
  /\ heap'  = heap \cup {[pri |-> p, seq |-> seq, topic |-> t]}
  /\ seq'   = seq + 1
  /\ event' = TRUE
  /\ UNCHANGED <<registryVars, transportVars, historyVars,
                 running, worker, target, todo, dead, stop>>

(* start() returns at once when already running; its callers never call it *)
(* while a stop() is still awaiting the previous worker.                   *)
Start ==
  /\ ~running
  /\ ~WorkerAlive /\ stop # "awaiting"
  /\ running' = TRUE
  /\ worker'  = "waiting"
  /\ stop'    = "idle"
  /\ UNCHANGED <<registryVars, transportVars, historyVars,
                 heap, seq, event, target, todo, dead>>

(* stop() up to its await: unblock the worker, then cancel it.             *)
Stop ==
  /\ stop # "awaiting"
  /\ running' = FALSE
  /\ event'   = TRUE
  /\ stop'    = "awaiting"
  /\ UNCHANGED <<registryVars, transportVars, historyVars,
                 heap, seq, worker, target, todo, dead>>

StopReturns ==
  /\ stop = "awaiting"
  /\ ~WorkerAlive
  /\ stop' = "returned"
  /\ UNCHANGED <<registryVars, transportVars, historyVars,
                 heap, seq, event, running, worker, target, todo, dead>>

-----------------------------------------------------------------------------
(* The fan-out.                                                            *)

(* writer.write(frame), noted in delivered when the transport takes it;    *)
(* k is the number of the service being fanned out.                        *)
Send(c, k) ==
  /\ Write(c)
  /\ delivered' = IF Accepts(c)
                    THEN [delivered EXCEPT ![c] = Append(@, k)]
                    ELSE delivered

(* "for client_id in dead: await unregister": clients that are gone or     *)
(* closing already cost no await, the next one that is still open does,    *)
(* and the worker then waits for its connection to be lost.                *)
Reap(doomed) ==
  \/ /\ \A c \in doomed : ~MustClose(c)
     /\ clients' = clients \ doomed
     /\ dead'    = {}
     /\ worker'  = "napping"
     /\ UNCHANGED <<topics, transportVars, target>>
  \/ \E c \in doomed :
       /\ MustClose(c)
       /\ Unregister(c)
       /\ dead'   = doomed \ {c}
       /\ target' = c
       /\ worker' = "closing"

(* Fault: a subscriber is written to and not crossed off.                  *)
ProceedRepeats(failures) ==
  \/ \E c \in todo :
       /\ Len(delivered[c]) <= MaxArrivals
       /\ Send(c, Len(served))
       /\ target' = c
       /\ dead'   = failures
       /\ UNCHANGED <<registryVars, conn, worker, todo>>
  \/ /\ todo = {}
     /\ Reap(failures)
     /\ UNCHANGED <<todo, delivered>>

(* After the drain of target, with failures the clients that failed so     *)
(* far: on to the next subscriber, or to the dead ones.                    *)
Proceed(failures) ==
  \/ \E c \in todo :
       /\ Send(c, Len(served))
       /\ todo'   = todo \ {c}
       /\ target' = c
       /\ dead'   = failures
       /\ UNCHANGED <<registryVars, conn, worker>>
  \/ /\ todo = {}
     /\ Reap(failures)
     /\ UNCHANGED <<todo, delivered>>

RestUnchanged ==
  UNCHANGED <<heap, seq, event, running, stop, served, audience, aborted, crashMark>>

DrainReturns ==
  /\ worker = "draining" /\ ~Cancelled
  /\ conn[target] # "lost" /\ buffered[target] # Full
  /\ Proceed(dead)
  /\ RestUnchanged

(* drain() raises ConnectionResetError on a lost connection.               *)
DrainRaises ==
  /\ worker = "draining" /\ ~Cancelled
  /\ conn[target] = "lost"
  /\ Proceed(dead \cup {target})
  /\ RestUnchanged

(* Fault: the first timeout ends the fan-out.                              *)
TimeoutEndsFanout ==
  /\ worker = "draining" /\ ~Cancelled
  /\ buffered[target] = Full
  /\ Reap(dead \cup {target})
  /\ todo' = {}
  /\ UNCHANGED delivered
  /\ RestUnchanged

(* Five seconds above the high-water mark.                                 *)
DrainTimesOut ==
  /\ worker = "draining" /\ ~Cancelled
  /\ buffered[target] = Full
  /\ Proceed(dead \cup {target})
  /\ RestUnchanged

(* wait_closed() returns once the connection is lost; it has no timeout.   *)
WaitClosedReturns ==
  /\ worker = "closing" /\ ~Cancelled
  /\ conn[target] = "lost"
  /\ Reap(dead)
  /\ UNCHANGED <<todo, delivered>>
  /\ RestUnchanged

(* Any other exception ends the fan-out where it stands; the message that  *)
(* was popped is gone, and the worker sleeps for a second.                 *)
FanoutCrashes ==
  /\ worker = "draining" /\ ~Cancelled
  /\ worker' = "recovering"
  /\ todo' = {} /\ dead' = {}
  /\ aborted'   = aborted \cup {Len(served)}
  /\ crashMark' = seq
  /\ UNCHANGED <<registryVars, transportVars, heap, seq, event, running,
                 target, stop, served, audience, delivered>>

-----------------------------------------------------------------------------
(* The worker loop.                                                        *)

(* The worker is about to test "while self._heap": it was woken, and then  *)
(* clears the event first, or its nap after a message is over.             *)
Awake == ~Cancelled /\ (worker = "napping" \/ (worker = "waiting" /\ event))

ClearEvent == event' = (event /\ worker # "waiting")

WaitAgain == worker' = IF running THEN "waiting" ELSE "finished"

GoIdle ==
  /\ Awake /\ heap = {}
  /\ ClearEvent
  /\ WaitAgain
  /\ UNCHANGED <<registryVars, transportVars, historyVars,
                 heap, seq, running, target, todo, dead, stop>>

(* heappop, the snapshot of the subscribers and the write to the first of  *)
(* them happen without an await in between.                                *)
Serve(e) ==
  /\ Awake /\ IsTop(e)
  /\ ClearEvent
  /\ heap'     = heap \ {e}
  /\ served'   = Append(served, [entry |-> e, at |-> seq])
  /\ audience' = Append(audience, Subscribers(e.topic))
  /\ \/ /\ Subscribers(e.topic) = {}
        /\ worker' = "napping"
        /\ UNCHANGED <<buffered, delivered, target, todo, dead>>
     \/ \E c \in Subscribers(e.topic) :
          /\ Send(c, Len(served) + 1)
          /\ todo'   = Subscribers(e.topic) \ {c}
          /\ target' = c
          /\ dead'   = {}
          /\ worker' = "draining"
  /\ UNCHANGED <<registryVars, conn, seq, running, stop, aborted, crashMark>>

(* Faults: the event is cleared after the sleep; an exception ends the     *)
(* worker.                                                                 *)
RecoverClearsEvent ==
  /\ worker = "recovering" /\ ~Cancelled
  /\ WaitAgain
  /\ event' = FALSE
  /\ UNCHANGED <<registryVars, transportVars, historyVars,
                 heap, seq, running, target, todo, dead, stop>>

ExceptionEndsWorker ==
  /\ worker = "recovering" /\ ~Cancelled
  /\ worker' = "finished"
  /\ UNCHANGED <<registryVars, transportVars, historyVars,
                 heap, seq, event, running, target, todo, dead, stop>>

(* Back from the sleep after an exception, to the wait: the event may have *)
(* been cleared with messages still in the heap.                           *)
Recover ==
  /\ worker = "recovering" /\ ~Cancelled
  /\ WaitAgain
  /\ UNCHANGED <<registryVars, transportVars, historyVars,
                 heap, seq, event, running, target, todo, dead, stop>>

(* CancelledError is no Exception: it leaves the loop from any await.      *)
CancelWorker ==
  /\ Cancelled
  /\ worker' = "finished"
  /\ todo' = {} /\ dead' = {}
  /\ aborted' = aborted \cup (IF worker = "draining" THEN {Len(served)} ELSE {})
  /\ UNCHANGED <<registryVars, transportVars, heap, seq, event, running,
                 target, stop, served, audience, delivered, crashMark>>

-----------------------------------------------------------------------------
WorkerStep ==
  \/ GoIdle
  \/ \E e \in heap : Serve(e)
  \/ DrainReturns
  \/ DrainRaises
  \/ DrainTimesOut
  \/ WaitClosedReturns
  \/ Recover
  \/ CancelWorker

Handlers ==
  /\ \E c \in Client :
       \/ Register(c)
       \/ \E t \in Topic : Subscribe(c, t)
       \/ c \in clients /\ Unregister(c)
  /\ UNCHANGED <<routerVars, historyVars>>

Network ==
  /\ \E c \in Client : PeerReads(c) \/ Lose(c) \/ CloseCompletes(c)
  /\ UNCHANGED <<routerVars, historyVars>>

Next ==
  \/ \E p \in Priority, t \in Topic : Enqueue(p, t)
  \/ Start
  \/ Stop
  \/ StopReturns
  \/ WorkerStep
  \/ FanoutCrashes
  \/ Handlers
  \/ Network

Spec == Init /\ [][Next]_vars

(* The event loop: a task that can run does, timers fire, a transport with *)
(* an empty buffer finishes closing.                                       *)
LoopFairness ==
  /\ WF_vars(WorkerStep)
  /\ WF_vars(StopReturns)
  /\ \A c \in Client :
       WF_vars(CloseCompletes(c) /\ UNCHANGED <<routerVars, historyVars>>)

(* Every peer with bytes waiting for it reads some or is lost.             *)
PeerFairness ==
  \A c \in Client :
    WF_vars(/\ buffered[c] # Drained
            /\ PeerReads(c) \/ Lose(c)
            /\ UNCHANGED <<routerVars, historyVars>>)

FairSpec == Spec /\ LoopFairness

-----------------------------------------------------------------------------
TypeOK ==
  /\ RegistryTypeOK
  /\ heap \subseteq Entry /\ seq \in Nat
  /\ event \in BOOLEAN /\ running \in BOOLEAN
  /\ worker \in WorkerState /\ stop \in {"idle", "awaiting", "returned"}
  /\ target \in Client /\ todo \subseteq Client /\ dead \subseteq Client
  /\ served \in Seq(Service) /\ audience \in Seq(SUBSET Client)
  /\ delivered \in [Client -> Seq(Nat)]
  /\ aborted \subseteq Nat /\ crashMark \in Nat

(* The router implements the promise of QoSQueue.                          *)
Q == INSTANCE QoSQueue WITH pending <- heap, arrivals <- seq
ImplementsQoSQueue == Q!Spec

(* A worker that sleeps on a cleared event leaves no message behind, save  *)
(* those already enqueued when an exception cut a fan-out short.  Holds    *)
(* across stop() and start(), and whatever arrives during a fan-out.       *)
NoLostWakeup ==
  worker = "waiting" /\ ~event => \A e \in heap : e.seq < crashMark

(* A subscriber sees the messages in the order they were popped, each at   *)
(* most once, whatever failed in between.                                  *)
DeliveredInOrder ==
  \A c \in Client : \A i, j \in DOMAIN delivered[c] :
    i < j => delivered[c][i] < delivered[c][j]

Received(c, k) == \E i \in DOMAIN delivered[c] : delivered[c][i] = k

(* One unreachable subscriber costs the others nothing: every client that  *)
(* was subscribed when a message was popped, and is still connected, has   *)
(* been sent it, unless the fan-out is on its way to it or was aborted.    *)
FanoutReachesEveryone ==
  \A k \in DOMAIN served \ aborted : \A c \in audience[k] :
    conn[c] = "open" =>
      Received(c, k) \/ (k = Len(served) /\ worker = "draining" /\ c \in todo)

(* A connection that left the registry stays out, whatever its handler     *)
(* still reads from it, and is written to only by a fan-out that had       *)
(* listed it before it left.                                               *)
NoResurrection ==
  [][\A c \in Client : c \notin clients /\ conn[c] # "new" =>
       /\ c \notin clients'
       /\ delivered'[c] # delivered[c] => audience' = audience]_vars

(* While the worker runs, every message is popped at last, if it was not   *)
(* stranded by an exception, provided that every peer reads or is lost.    *)
Waiting(k) == \E e \in heap : e.seq = k
WaitingEnds ==
  \A k \in 0..MaxArrivals - 1 :
    Waiting(k) ~> (~Waiting(k) \/ ~running \/ k < crashMark)

EventuallyServed == PeerFairness => WaitingEnds

(* stop() returns, even when the worker is stuck with an unresponsive      *)
(* client.                                                                 *)
StopCompletes == stop = "awaiting" ~> stop = "returned"

(* "No, Subscriber B will not block Subscriber A"                          *)
(* (Viva_Reports/Anticipated_Professor_QA.md:47) and "Dead connections are *)
(* silently unregistered" (broker/router.py:107), whether or not the slow  *)
(* peer ever reads again.                                                  *)
SlowSubscriberDoesNotBlock == WaitingEnds
=============================================================================
