------------------------ MODULE PriorityRouterProofs ------------------------
(***************************************************************************)
(* Proofs about PriorityRouter for any clients, topics, priorities and     *)
(* number of messages: types, wakeups, delivery order, the reach of a      *)
(* fan-out, and that it implements QoSQueue, whose theorems it inherits.   *)
(***************************************************************************)
EXTENDS PriorityRouter, TLAPS

QP == INSTANCE QoSQueueProofs WITH pending <- heap, arrivals <- seq

-----------------------------------------------------------------------------
(* Type correctness.                                                       *)

USE DEF WorkerState, ConnState, Drained, Backlog, Full

(* A write to a client keeps the types of the transport and of delivered.  *)
LEMMA SendTypeOK ==
  ASSUME TypeOK, NEW c \in Client, NEW k \in Nat, Send(c, k)
  PROVE  /\ buffered' \in [Client -> Drained..Full]
         /\ delivered' \in [Client -> Seq(Nat)]
<1>1. buffered \in [Client -> Drained..Full] /\ delivered \in [Client -> Seq(Nat)]
  BY DEF TypeOK, RegistryTypeOK
<1>2. buffered' \in [Client -> Drained..Full]
  <2>1. CASE Accepts(c)
    <3>1. PICK level \in buffered[c]..Full :
            buffered' = [buffered EXCEPT ![c] = level]
      BY <2>1 DEF Send, Write
    <3>2. level \in Drained..Full
      BY <1>1
    <3> QED BY <1>1, <3>1, <3>2
  <2>2. CASE ~Accepts(c)
    BY <2>2, <1>1 DEF Send, Write
  <2> QED BY <2>1, <2>2
<1>3. delivered' \in [Client -> Seq(Nat)]
  BY <1>1 DEF Send
<1> QED BY <1>2, <1>3

(* So does unregistering the dead clients.                                 *)
LEMMA ReapTypeOK ==
  ASSUME TypeOK, NEW doomed \in SUBSET Client, Reap(doomed)
  PROVE  /\ RegistryTypeOK'
         /\ worker' \in WorkerState /\ target' \in Client /\ dead' \subseteq Client
<1>1. CASE \E c \in doomed :
             /\ MustClose(c) /\ Unregister(c)
             /\ dead' = doomed \ {c} /\ target' = c /\ worker' = "closing"
  BY <1>1 DEF TypeOK, RegistryTypeOK, Unregister
<1>2. CASE /\ clients' = clients \ doomed /\ dead' = {} /\ worker' = "napping"
           /\ UNCHANGED <<topics, transportVars, target>>
  BY <1>2 DEF TypeOK, RegistryTypeOK, transportVars
<1> QED BY <1>1, <1>2 DEF Reap

(* So does a step of the fan-out, to the next subscriber or the dead ones. *)
LEMMA ProceedTypeOK ==
  ASSUME TypeOK, NEW failures \in SUBSET Client, Proceed(failures), RestUnchanged
  PROVE  TypeOK'
<1>1. ASSUME NEW c \in todo,
             Send(c, Len(served)), todo' = todo \ {c}, target' = c,
             dead' = failures, UNCHANGED <<registryVars, conn, worker>>
      PROVE  TypeOK'
  <2>1. c \in Client /\ Len(served) \in Nat
    BY DEF TypeOK
  <2>2. /\ buffered' \in [Client -> Drained..Full]
        /\ delivered' \in [Client -> Seq(Nat)]
    BY <1>1, <2>1, SendTypeOK
  <2> QED BY <1>1, <2>1, <2>2
          DEF TypeOK, RegistryTypeOK, RestUnchanged, registryVars
<1>2. ASSUME Reap(failures), UNCHANGED <<todo, delivered>>
      PROVE  TypeOK'
  BY <1>2, ReapTypeOK DEF TypeOK, RestUnchanged
<1> QED BY <1>1, <1>2 DEF Proceed

(* So does a pop with its snapshot and first write.                        *)
LEMMA ServeTypeOK ==
  ASSUME TypeOK, NEW e \in heap, Serve(e)
  PROVE  TypeOK'
<1>1. /\ e \in Entry /\ seq \in Nat /\ Len(served) + 1 \in Nat
      /\ [entry |-> e, at |-> seq] \in Service
  BY DEF TypeOK, Service
<1>2. Subscribers(e.topic) \subseteq Client
  BY DEF TypeOK, RegistryTypeOK, Subscribers
<1>3. /\ served' \in Seq(Service)
      /\ audience' \in Seq(SUBSET Client)
      /\ heap' \subseteq Entry
      /\ event' \in BOOLEAN
  BY <1>1, <1>2 DEF Serve, ClearEvent, TypeOK
<1>4. /\ buffered' \in [Client -> Drained..Full]
      /\ delivered' \in [Client -> Seq(Nat)]
      /\ todo' \subseteq Client /\ dead' \subseteq Client
      /\ target' \in Client /\ worker' \in WorkerState
  <2>1. CASE UNCHANGED <<buffered, delivered, target, todo, dead>> /\ worker' = "napping"
    BY <2>1 DEF TypeOK, RegistryTypeOK
  <2>2. ASSUME NEW c \in Subscribers(e.topic),
               Send(c, Len(served) + 1), todo' = Subscribers(e.topic) \ {c},
               target' = c, dead' = {}, worker' = "draining"
        PROVE  <1>4!1 /\ <1>4!2 /\ <1>4!3 /\ <1>4!4
    <3>1. /\ buffered' \in [Client -> Drained..Full]
          /\ delivered' \in [Client -> Seq(Nat)]
      BY <2>2, <1>1, <1>2, SendTypeOK
    <3> QED BY <2>2, <3>1, <1>2
  <2> QED BY <2>1, <2>2 DEF Serve
<1> QED BY <1>3, <1>4 DEF Serve, TypeOK, RegistryTypeOK, registryVars

(* Types survive every action of the router, its handlers and the network. *)
LEMMA NextTypeOK ==
  ASSUME TypeOK, [Next]_vars
  PROVE  TypeOK'
<1>1. ASSUME NEW p \in Priority, NEW t \in Topic, Enqueue(p, t)
      PROVE  TypeOK'
  <2>1. [pri |-> p, seq |-> seq, topic |-> t] \in Entry
    BY DEF TypeOK, Entry
  <2> QED BY <1>1, <2>1
          DEF Enqueue, TypeOK, RegistryTypeOK, registryVars, transportVars, historyVars
<1>2. CASE Start
  BY <1>2 DEF Start, TypeOK, RegistryTypeOK, registryVars, transportVars, historyVars
<1>3. CASE Stop
  BY <1>3 DEF Stop, TypeOK, RegistryTypeOK, registryVars, transportVars, historyVars
<1>4. CASE StopReturns
  BY <1>4 DEF StopReturns, TypeOK, RegistryTypeOK, registryVars, transportVars, historyVars
<1>5. CASE GoIdle
  BY <1>5 DEF GoIdle, WaitAgain, ClearEvent, TypeOK, RegistryTypeOK,
              registryVars, transportVars, historyVars
<1>6. ASSUME NEW e \in heap, Serve(e)
      PROVE  TypeOK'
  BY <1>6, ServeTypeOK
<1>7. dead \in SUBSET Client /\ dead \cup {target} \in SUBSET Client
  BY DEF TypeOK
<1>8. CASE DrainReturns
  BY <1>7, <1>8, ProceedTypeOK DEF DrainReturns
<1>9. CASE DrainRaises
  BY <1>7, <1>9, ProceedTypeOK DEF DrainRaises
<1>10. CASE DrainTimesOut
  BY <1>7, <1>10, ProceedTypeOK DEF DrainTimesOut
<1>11. CASE WaitClosedReturns
  BY <1>7, <1>11, ReapTypeOK DEF WaitClosedReturns, RestUnchanged, TypeOK
<1>12. CASE Recover
  BY <1>12 DEF Recover, WaitAgain, TypeOK, RegistryTypeOK,
               registryVars, transportVars, historyVars
<1>13. CASE CancelWorker
  <2>1. Len(served) \in Nat
    BY DEF TypeOK
  <2> QED BY <1>13, <2>1
          DEF CancelWorker, TypeOK, RegistryTypeOK, registryVars, transportVars
<1>14. CASE FanoutCrashes
  <2>1. Len(served) \in Nat
    BY DEF TypeOK
  <2> QED BY <1>14, <2>1
          DEF FanoutCrashes, TypeOK, RegistryTypeOK, registryVars, transportVars
<1>15. CASE Handlers
  <2>1. PICK c \in Client :
          Register(c) \/ (\E t \in Topic : Subscribe(c, t)) \/ Unregister(c)
    BY <1>15 DEF Handlers
  <2>2. RegistryTypeOK'
    BY <2>1 DEF TypeOK, RegistryTypeOK, Register, Subscribe, Unregister, transportVars
  <2> QED BY <1>15, <2>2 DEF Handlers, TypeOK, routerVars, historyVars
<1>16. CASE Network
  <2>1. PICK c \in Client : PeerReads(c) \/ Lose(c) \/ CloseCompletes(c)
    BY <1>16 DEF Network
  <2>2. RegistryTypeOK'
    <3>1. CASE PeerReads(c)
      BY <3>1 DEF TypeOK, RegistryTypeOK, PeerReads, registryVars
    <3>2. CASE Lose(c)
      BY <3>2 DEF TypeOK, RegistryTypeOK, Lose, registryVars
    <3>3. CASE CloseCompletes(c)
      BY <3>3 DEF TypeOK, RegistryTypeOK, CloseCompletes, registryVars
    <3> QED BY <2>1, <3>1, <3>2, <3>3
  <2> QED BY <1>16, <2>2 DEF Network, TypeOK, routerVars, historyVars
<1>17. CASE UNCHANGED vars
  BY <1>17 DEF vars, TypeOK, RegistryTypeOK, registryVars, transportVars,
               routerVars, historyVars
<1> QED BY <1>1, <1>2, <1>3, <1>4, <1>5, <1>6, <1>8, <1>9, <1>10, <1>11, <1>12,
           <1>13, <1>14, <1>15, <1>16, <1>17 DEF Next, WorkerStep

(* The router and the registry start well typed.                           *)
LEMMA InitTypeOK ==
  ASSUME Init
  PROVE  TypeOK
<1>1. RegistryTypeOK
  BY DEF Init, RegistryInit, RegistryTypeOK
<1>2. << >> \in Seq(Service) /\ << >> \in Seq(SUBSET Client) /\ << >> \in Seq(Nat)
  OBVIOUS
<1>3. delivered \in [Client -> Seq(Nat)]
  BY <1>2 DEF Init
<1> QED BY <1>1, <1>2, <1>3 DEF Init, TypeOK

(* Every variable keeps its type, whatever the clients and the network do  *)
(* (broker/router.py:40-44, broker/server.py:44-46).                       *)
THEOREM RouterTypeOK == Spec => []TypeOK
  BY InitTypeOK, NextTypeOK, PTL DEF Spec
-----------------------------------------------------------------------------
(* Wakeups.                                                                *)

(* Messages older than the next number; a worker that is alive and not     *)
(* being cancelled implies running, so the loop is only ever left by a     *)
(* cancellation; stop() sets the event, which stays set until a worker     *)
(* started later has seen it; and a worker that sleeps, or has not been    *)
(* started, on a cleared event leaves nothing behind but stranded entries. *)
OlderThanNext    == \A e \in heap : e.seq < seq
AliveRuns        == WorkerAlive /\ stop # "awaiting" => running
StopSetsEvent    == stop = "awaiting" \/ worker = "finished" => event
NothingForgotten ==
  worker \in {"none", "waiting", "recovering"} /\ ~event =>
    \A e \in heap : e.seq < crashMark

WakeupInv == OlderThanNext /\ AliveRuns /\ StopSetsEvent /\ NothingForgotten

(* The steps of a fan-out touch none of it, and never end asleep.          *)
LEMMA FanoutKeepsWakeup ==
  ASSUME WakeupInv, worker \in {"draining", "closing"},
         NEW failures, Proceed(failures) \/ Reap(failures), RestUnchanged
  PROVE  WakeupInv'
<1>1. worker' \in {"draining", "closing", "napping"}
  BY DEF Proceed, Reap
<1> QED BY <1>1 DEF WakeupInv, OlderThanNext, AliveRuns, StopSetsEvent,
                    NothingForgotten, WorkerAlive, RestUnchanged

(* Nor does any other action: each one sets the event, stays awake, finds  *)
(* the heap empty, or (an exception) moves crashMark.                      *)
LEMMA NextWakeup ==
  ASSUME TypeOK, WakeupInv, [Next]_vars
  PROVE  WakeupInv'
<1> USE DEF WakeupInv, OlderThanNext, AliveRuns, StopSetsEvent, NothingForgotten,
            WorkerAlive
<1>0. seq \in Nat /\ \A e \in heap : e.seq \in Nat
  BY DEF TypeOK, Entry
<1>1. ASSUME NEW p \in Priority, NEW t \in Topic, Enqueue(p, t)
      PROVE  WakeupInv'
  BY <1>0, <1>1 DEF Enqueue
<1>2. CASE Start
  BY <1>2 DEF Start, historyVars
<1>3. CASE Stop
  BY <1>3 DEF Stop, historyVars
<1>4. CASE StopReturns
  BY <1>4 DEF StopReturns, historyVars
<1>5. CASE GoIdle
  BY <1>5 DEF GoIdle, WaitAgain, ClearEvent, Awake, Cancelled, historyVars
<1>6. ASSUME NEW e \in heap, Serve(e)
      PROVE  WakeupInv'
  <2>1. worker' \in {"napping", "draining"}
    BY <1>6 DEF Serve
  <2> QED BY <1>6, <2>1 DEF Serve, ClearEvent, Awake, Cancelled
<1>7. CASE DrainReturns \/ DrainRaises \/ DrainTimesOut \/ WaitClosedReturns
  BY <1>7, FanoutKeepsWakeup
     DEF DrainReturns, DrainRaises, DrainTimesOut, WaitClosedReturns
<1>8. CASE Recover
  BY <1>8 DEF Recover, WaitAgain, Cancelled, historyVars
<1>9. CASE CancelWorker
  BY <1>9 DEF CancelWorker, Cancelled
<1>10. CASE FanoutCrashes
  BY <1>10 DEF FanoutCrashes
<1>11. CASE Handlers
  BY <1>11 DEF Handlers, routerVars, historyVars
<1>12. CASE Network
  BY <1>12 DEF Network, routerVars, historyVars
<1>13. CASE UNCHANGED vars
  BY <1>13 DEF vars, routerVars, historyVars
<1> QED BY <1>1, <1>2, <1>3, <1>4, <1>5, <1>6, <1>7, <1>8, <1>9, <1>10, <1>11,
           <1>12, <1>13 DEF Next, WorkerStep

(* The wakeup cannot be lost, for any number of messages, clients and      *)
(* calls of stop() and start() (broker/router.py:48-66, 88-102).           *)
THEOREM WakeupNeverLost == Spec => []NoLostWakeup
<1>1. Init => WakeupInv
  BY DEF Init, WakeupInv, OlderThanNext, AliveRuns, StopSetsEvent,
         NothingForgotten, WorkerAlive
<1>2. TypeOK /\ WakeupInv /\ [Next]_vars => WakeupInv'
  BY NextWakeup
<1>3. WakeupInv => NoLostWakeup
  BY DEF WakeupInv, NothingForgotten, NoLostWakeup
<1> QED BY <1>1, <1>2, <1>3, RouterTypeOK, PTL DEF Spec
-----------------------------------------------------------------------------
(* Delivery order.                                                         *)

(* What reached a client carries the number of a service that took place,  *)
(* an earlier one if the client still waits in the current fan-out.        *)
NumbersServed == \A c \in Client : \A i \in DOMAIN delivered[c] :
                   delivered[c][i] <= Len(served)
TodoNotSent   == \A c \in todo : \A i \in DOMAIN delivered[c] :
                   delivered[c][i] < Len(served)

DeliveryInv == NumbersServed /\ TodoNotSent /\ DeliveredInOrder

(* Sending k keeps a client's deliveries in order if all were less than k, *)
(* and leaves the other clients' as they are.                              *)
LEMMA SendInOrder ==
  ASSUME TypeOK, DeliveredInOrder, NEW c \in Client, NEW k \in Nat, Send(c, k),
         \A i \in DOMAIN delivered[c] : delivered[c][i] < k
  PROVE  /\ DeliveredInOrder'
         /\ \A d \in Client \ {c} : delivered'[d] = delivered[d]
         /\ \A d \in Client : \A i \in DOMAIN delivered'[d] :
              \/ i \in DOMAIN delivered[d] /\ delivered'[d][i] = delivered[d][i]
              \/ d = c /\ delivered'[d][i] = k
<1>1. delivered \in [Client -> Seq(Nat)]
  BY DEF TypeOK
<1>2. CASE delivered' = delivered
  BY <1>2 DEF DeliveredInOrder
<1>3. CASE delivered' = [delivered EXCEPT ![c] = Append(@, k)]
  <2> DEFINE n == Len(delivered[c])
  <2>1. /\ delivered[c] \in Seq(Nat)
        /\ delivered'[c] = Append(delivered[c], k)
        /\ \A d \in Client \ {c} : delivered'[d] = delivered[d]
    BY <1>1, <1>3
  <2>2. /\ n \in Nat /\ DOMAIN delivered[c] = 1..n
        /\ DOMAIN delivered'[c] = 1..n + 1
        /\ \A i \in 1..n : delivered'[c][i] = delivered[c][i]
        /\ delivered'[c][n + 1] = k
    BY <2>1
  <2>3. ASSUME NEW d \in Client, NEW i \in DOMAIN delivered'[d],
               NEW j \in DOMAIN delivered'[d], i < j
        PROVE  delivered'[d][i] < delivered'[d][j]
    <3>1. CASE d # c
      BY <3>1, <2>1, <2>3 DEF DeliveredInOrder
    <3>2. CASE d = c
      <4>1. i \in 1..n
        BY <3>2, <2>2, <2>3
      <4>2. CASE j = n + 1
        BY <3>2, <4>1, <4>2, <2>2
      <4>3. CASE j \in 1..n
        BY <3>2, <4>1, <4>3, <2>2, <2>3 DEF DeliveredInOrder
      <4> QED BY <3>2, <4>2, <4>3, <2>2
    <3> QED BY <3>1, <3>2
  <2>4. DeliveredInOrder'
    BY <2>3 DEF DeliveredInOrder
  <2>5. ASSUME NEW d \in Client, NEW i \in DOMAIN delivered'[d]
        PROVE  \/ i \in DOMAIN delivered[d] /\ delivered'[d][i] = delivered[d][i]
               \/ d = c /\ delivered'[d][i] = k
    <3>1. CASE d # c
      BY <3>1, <2>1
    <3>2. CASE d = c
      BY <3>2, <2>2
    <3> QED BY <3>1, <3>2
  <2> QED BY <2>1, <2>4, <2>5
<1> QED BY <1>2, <1>3 DEF Send
(* A step of the fan-out sends the current service to a client that has    *)
(* not been sent it, and crosses the client off.                           *)
LEMMA ProceedDelivery ==
  ASSUME TypeOK, DeliveryInv, NEW failures, Proceed(failures), UNCHANGED served
  PROVE  DeliveryInv'
<1>1. ASSUME NEW c \in todo, Send(c, Len(served)), todo' = todo \ {c}
      PROVE  DeliveryInv'
  <2>1. c \in Client /\ todo \subseteq Client /\ Len(served) \in Nat
    BY DEF TypeOK
  <2>2. \A i \in DOMAIN delivered[c] : delivered[c][i] < Len(served)
    BY DEF DeliveryInv, TodoNotSent
  <2>3. /\ DeliveredInOrder'
        /\ \A d \in Client \ {c} : delivered'[d] = delivered[d]
        /\ \A d \in Client : \A i \in DOMAIN delivered'[d] :
             \/ i \in DOMAIN delivered[d] /\ delivered'[d][i] = delivered[d][i]
             \/ d = c /\ delivered'[d][i] = Len(served)
    BY <1>1, <2>1, <2>2, SendInOrder DEF DeliveryInv
  <2>4. NumbersServed'
    BY <2>1, <2>3 DEF DeliveryInv, NumbersServed
  <2>5. TodoNotSent'
    BY <1>1, <2>1, <2>3 DEF DeliveryInv, TodoNotSent
  <2> QED BY <2>3, <2>4, <2>5 DEF DeliveryInv
<1>2. CASE UNCHANGED <<todo, delivered>>
  BY <1>2 DEF DeliveryInv, NumbersServed, TodoNotSent, DeliveredInOrder
<1> QED BY <1>1, <1>2 DEF Proceed

(* A new service has the greatest number so far.                           *)
LEMMA ServeDelivery ==
  ASSUME TypeOK, DeliveryInv, NEW e \in heap, Serve(e)
  PROVE  DeliveryInv'
<1> DEFINE n == Len(served)
<1>1. n \in Nat /\ n + 1 \in Nat /\ Len(served') = n + 1
  BY DEF TypeOK, Serve
<1>2. /\ todo \subseteq Client
      /\ Subscribers(e.topic) \subseteq Client
      /\ \A d \in Client : \A i \in DOMAIN delivered[d] :
           delivered[d][i] \in Nat /\ delivered[d][i] <= n /\ delivered[d][i] < n + 1
  <2>1. \A d \in Client : delivered[d] \in Seq(Nat)
    BY DEF TypeOK
  <2>2. \A d \in Client : \A i \in DOMAIN delivered[d] : delivered[d][i] \in Nat
    BY <2>1
  <2> QED BY <1>1, <2>2
          DEF TypeOK, RegistryTypeOK, Subscribers, DeliveryInv, NumbersServed
<1>3. CASE UNCHANGED <<delivered, todo>>
  BY <1>1, <1>2, <1>3 DEF DeliveryInv, NumbersServed, TodoNotSent, DeliveredInOrder
<1>4. ASSUME NEW c \in Subscribers(e.topic), Send(c, n + 1),
             todo' = Subscribers(e.topic) \ {c}
      PROVE  DeliveryInv'
  <2>1. /\ DeliveredInOrder'
        /\ \A d \in Client \ {c} : delivered'[d] = delivered[d]
        /\ \A d \in Client : \A i \in DOMAIN delivered'[d] :
             \/ i \in DOMAIN delivered[d] /\ delivered'[d][i] = delivered[d][i]
             \/ d = c /\ delivered'[d][i] = n + 1
    BY <1>1, <1>2, <1>4, SendInOrder DEF DeliveryInv
  <2>2. NumbersServed'
    BY <1>1, <1>2, <2>1 DEF NumbersServed
  <2>3. TodoNotSent'
    BY <1>1, <1>2, <1>4, <2>1 DEF TodoNotSent
  <2> QED BY <2>1, <2>2, <2>3 DEF DeliveryInv
<1> QED BY <1>3, <1>4 DEF Serve

(* All other actions leave the deliveries alone.                           *)
LEMMA NextDelivery ==
  ASSUME TypeOK, DeliveryInv, [Next]_vars
  PROVE  DeliveryInv'
<1> USE DEF DeliveryInv, NumbersServed, TodoNotSent, DeliveredInOrder
<1>1. ASSUME NEW p \in Priority, NEW t \in Topic, Enqueue(p, t)
      PROVE  DeliveryInv'
  BY <1>1 DEF Enqueue, historyVars
<1>2. CASE Start \/ Stop \/ StopReturns \/ GoIdle \/ Recover
  BY <1>2 DEF Start, Stop, StopReturns, GoIdle, Recover, historyVars
<1>3. ASSUME NEW e \in heap, Serve(e)
      PROVE  DeliveryInv'
  BY <1>3, ServeDelivery
<1>4. CASE DrainReturns \/ DrainRaises \/ DrainTimesOut
  BY <1>4, ProceedDelivery
     DEF DrainReturns, DrainRaises, DrainTimesOut, RestUnchanged
<1>5. CASE WaitClosedReturns
  BY <1>5 DEF WaitClosedReturns, RestUnchanged
<1>6. CASE CancelWorker \/ FanoutCrashes
  BY <1>6 DEF CancelWorker, FanoutCrashes
<1>7. CASE Handlers \/ Network
  BY <1>7 DEF Handlers, Network, routerVars, historyVars
<1>8. CASE UNCHANGED vars
  BY <1>8 DEF vars, routerVars, historyVars
<1> QED BY <1>1, <1>2, <1>3, <1>4, <1>5, <1>6, <1>7, <1>8 DEF Next, WorkerStep

(* Each subscriber receives its messages in the order they were popped,    *)
(* each at most once (broker/router.py:109-120).                           *)
THEOREM DeliveryOrder == Spec => []DeliveredInOrder
<1>1. Init => DeliveryInv
  BY DEF Init, DeliveryInv, NumbersServed, TodoNotSent, DeliveredInOrder
<1>2. TypeOK /\ DeliveryInv /\ [Next]_vars => DeliveryInv'
  BY NextDelivery
<1>3. DeliveryInv => DeliveredInOrder
  BY DEF DeliveryInv
<1> QED BY <1>1, <1>2, <1>3, RouterTypeOK, PTL DEF Spec

-----------------------------------------------------------------------------
(* Reach of a fan-out.                                                     *)

(* What a fan-out relies on: the histories keep step, and a connection     *)
(* that is registered or was listed once is never new again.               *)
AudienceKept     == Len(audience) = Len(served)
ListedConnected  == \A k \in DOMAIN audience : \A c \in audience[k] : conn[c] # "new"
ClientsConnected == \A c \in clients : conn[c] # "new"

ReachInv ==
  AudienceKept /\ ListedConnected /\ ClientsConnected /\ FanoutReachesEveryone

SentTo(log, c, k) == \E i \in DOMAIN log[c] : log[c][i] = k

(* A write loses no earlier delivery, and reaches an open transport.       *)
LEMMA SendReaches ==
  ASSUME TypeOK, NEW c \in Client, NEW k \in Nat, Send(c, k)
  PROVE  /\ \A d \in Client : \A m : SentTo(delivered, d, m) => SentTo(delivered', d, m)
         /\ conn[c] = "open" => SentTo(delivered', c, k)
<1>1. delivered \in [Client -> Seq(Nat)]
  BY DEF TypeOK
<1>2. CASE Accepts(c)
  <2> DEFINE n == Len(delivered[c])
  <2>1. /\ delivered[c] \in Seq(Nat)
        /\ delivered'[c] = Append(delivered[c], k)
        /\ \A d \in Client \ {c} : delivered'[d] = delivered[d]
    BY <1>1, <1>2 DEF Send
  <2>2. /\ n \in Nat /\ DOMAIN delivered[c] = 1..n
        /\ DOMAIN delivered'[c] = 1..n + 1
        /\ \A i \in 1..n : delivered'[c][i] = delivered[c][i]
        /\ delivered'[c][n + 1] = k
    BY <2>1
  <2>3. ASSUME NEW m, SentTo(delivered, c, m)
        PROVE  SentTo(delivered', c, m)
    BY <2>2, <2>3 DEF SentTo
  <2>4. ASSUME NEW d \in Client \ {c}, NEW m, SentTo(delivered, d, m)
        PROVE  SentTo(delivered', d, m)
    BY <2>1, <2>4 DEF SentTo
  <2>5. SentTo(delivered', c, k)
    BY <2>2 DEF SentTo
  <2> QED BY <2>3, <2>4, <2>5
<1>3. CASE ~Accepts(c)
  BY <1>3 DEF Send, Accepts, SentTo
<1> QED BY <1>2, <1>3

(* No connection comes back or is renewed, and no client is registered     *)
(* without one.                                                            *)
ConnectionsAge ==
  /\ \A c \in Client : /\ conn[c] # "new" => conn'[c] # "new"
                       /\ conn'[c] = "open" => conn[c] \in {"open", "new"}
  /\ \A c \in clients' : conn'[c] # "new"

(* A step that sends nothing and leaves the fan-out alone, ends it with    *)
(* nothing left to send, or notes that it was aborted.                     *)
LEMMA QuietKeepsReach ==
  ASSUME TypeOK, ReachInv, UNCHANGED <<served, audience, delivered>>,
         aborted \subseteq aborted',
         ConnectionsAge,
         \/ UNCHANGED <<worker, todo>>
         \/ worker # "draining"
         \/ todo = {}
         \/ Len(served) \in aborted'
  PROVE  ReachInv'
<1>1. /\ \A k \in DOMAIN audience : audience[k] \subseteq Client
      /\ DOMAIN audience = DOMAIN served
      /\ audience \in Seq(SUBSET Client) /\ served \in Seq(Service)
  BY DEF TypeOK, ReachInv, AudienceKept
<1>2. AudienceKept' /\ ListedConnected' /\ ClientsConnected'
  BY <1>1 DEF ReachInv, AudienceKept, ListedConnected, ClientsConnected, ConnectionsAge
<1>3. ASSUME NEW k \in DOMAIN served \ aborted', NEW c \in audience[k], conn'[c] = "open"
      PROVE  \/ Received(c, k)'
             \/ k = Len(served) /\ worker' = "draining" /\ c \in todo'
  <2>1. c \in Client /\ conn[c] = "open" /\ k \notin aborted
    BY <1>1, <1>3 DEF ReachInv, ListedConnected, ConnectionsAge
  <2>2. Received(c, k) \/ (k = Len(served) /\ worker = "draining" /\ c \in todo)
    BY <1>3, <2>1 DEF ReachInv, FanoutReachesEveryone
  <2> QED BY <1>3, <2>2 DEF Received
<1>4. FanoutReachesEveryone'
  BY <1>3 DEF FanoutReachesEveryone
<1> QED BY <1>2, <1>4 DEF ReachInv

(* Reaping only closes connections.                                        *)
LEMMA ReapConnections ==
  ASSUME TypeOK, ReachInv, NEW doomed \in SUBSET Client, Reap(doomed)
  PROVE  ConnectionsAge
<1> USE DEF ConnectionsAge
<1>1. conn \in [Client -> ConnState] /\ clients \subseteq Client
      /\ \A c \in clients : conn[c] # "new"
  BY DEF TypeOK, RegistryTypeOK, ReachInv, ClientsConnected
<1>2. CASE clients' = clients \ doomed /\ UNCHANGED conn
  BY <1>1, <1>2
<1>3. ASSUME NEW c \in doomed, Unregister(c)
      PROVE  /\ clients' = clients \ {c}
             /\ conn' = conn \/ conn' = [conn EXCEPT ![c] = "closing"]
  BY <1>3 DEF Unregister
<1>4. CASE \E c \in doomed : Unregister(c)
  BY <1>1, <1>3, <1>4
<1> QED BY <1>2, <1>4 DEF Reap, transportVars

(* The next subscriber is sent the message, if its connection is open.     *)
LEMMA ProceedReach ==
  ASSUME TypeOK, ReachInv, worker = "draining",
         NEW failures \in SUBSET Client, Proceed(failures), RestUnchanged
  PROVE  ReachInv'
<1>1. ASSUME NEW c \in todo, Send(c, Len(served)), todo' = todo \ {c},
             UNCHANGED <<registryVars, conn, worker>>
      PROVE  ReachInv'
  <2>1. c \in Client /\ Len(served) \in Nat
        /\ audience \in Seq(SUBSET Client) /\ served \in Seq(Service)
    BY DEF TypeOK
  <2>2. /\ \A d \in Client : \A m : SentTo(delivered, d, m) => SentTo(delivered', d, m)
        /\ conn[c] = "open" => SentTo(delivered', c, Len(served))
    BY <1>1, <2>1, SendReaches
  <2>3. AudienceKept' /\ ListedConnected' /\ ClientsConnected'
    BY <1>1 DEF ReachInv, AudienceKept, ListedConnected, ClientsConnected,
                RestUnchanged, registryVars
  <2>4. ASSUME NEW k \in DOMAIN served \ aborted, NEW d \in audience[k], conn[d] = "open"
        PROVE  SentTo(delivered', d, k) \/ (k = Len(served) /\ d \in todo \ {c})
    <3>1. d \in Client
      BY <2>1 DEF ReachInv, AudienceKept
    <3>2. SentTo(delivered, d, k) \/ (k = Len(served) /\ d \in todo)
      BY <2>4 DEF ReachInv, FanoutReachesEveryone, Received, SentTo
    <3> QED BY <2>2, <2>4, <3>1, <3>2
  <2>5. FanoutReachesEveryone'
    BY <1>1, <2>4 DEF FanoutReachesEveryone, Received, SentTo, RestUnchanged
  <2> QED BY <2>3, <2>5 DEF ReachInv
<1>2. ASSUME todo = {}, Reap(failures), UNCHANGED <<todo, delivered>>
      PROVE  ReachInv'
  <2>1. ConnectionsAge
    BY <1>2, ReapConnections
  <2>2. UNCHANGED <<served, audience, delivered, aborted>>
    BY <1>2 DEF RestUnchanged
  <2> QED BY <1>2, <2>1, <2>2, QuietKeepsReach
<1> QED BY <1>1, <1>2 DEF Proceed

(* The subscribers of the moment are the audience of the new service: the  *)
(* first is sent it and the others are on the list.                        *)
LEMMA ServeReach ==
  ASSUME TypeOK, ReachInv, NEW e \in heap, Serve(e)
  PROVE  ReachInv'
<1> DEFINE n == Len(served)
           subs == Subscribers(e.topic)
<1>1. /\ n \in Nat /\ n + 1 \in Nat
      /\ served \in Seq(Service) /\ audience \in Seq(SUBSET Client)
      /\ subs \subseteq Client /\ \A c \in subs : conn[c] # "new"
  BY DEF TypeOK, RegistryTypeOK, Subscribers, ReachInv, ClientsConnected
<1>2. /\ Len(audience) = n /\ Len(audience') = n + 1
      /\ DOMAIN served = 1..n /\ DOMAIN served' = 1..n + 1
      /\ Len(served') = n + 1
      /\ DOMAIN audience = 1..n /\ DOMAIN audience' = 1..n + 1
      /\ \A k \in 1..n : audience'[k] = audience[k]
      /\ audience'[n + 1] = subs
  <2>1. Len(audience) = n
    BY DEF ReachInv, AudienceKept
  <2>2. audience' = Append(audience, subs)
        /\ served' = Append(served, [entry |-> e, at |-> seq])
    BY DEF Serve
  <2> QED BY <1>1, <2>1, <2>2
<1>3. worker # "draining" /\ UNCHANGED <<conn, clients, aborted>>
  BY DEF Serve, Awake, registryVars
<1>4. AudienceKept' /\ ListedConnected' /\ ClientsConnected'
  BY <1>1, <1>2, <1>3 DEF ReachInv, AudienceKept, ListedConnected, ClientsConnected
<1>5. \A d \in Client : \A m : SentTo(delivered, d, m) => SentTo(delivered', d, m)
  BY <1>1, SendReaches DEF Serve, SentTo
<1>6. ASSUME NEW d \in subs, conn[d] = "open"
      PROVE  SentTo(delivered', d, n + 1) \/ (worker' = "draining" /\ d \in todo')
  <2>1. PICK c \in subs : /\ Send(c, n + 1) /\ todo' = subs \ {c}
                          /\ worker' = "draining"
    BY <1>6 DEF Serve
  <2> QED BY <1>1, <1>6, <2>1, SendReaches
<1>7. ASSUME NEW k \in 1..n + 1, k \notin aborted,
             NEW d \in audience'[k], conn[d] = "open"
      PROVE  SentTo(delivered', d, k) \/ (k = n + 1 /\ worker' = "draining" /\ d \in todo')
  <2>1. CASE k = n + 1
    BY <1>2, <1>6, <1>7, <2>1
  <2>2. CASE k \in 1..n
    <3>1. d \in Client /\ d \in audience[k]
      BY <1>1, <1>2, <1>7, <2>2
    <3>2. SentTo(delivered, d, k)
      BY <1>2, <1>3, <1>7, <2>2, <3>1 DEF ReachInv, FanoutReachesEveryone, Received, SentTo
    <3> QED BY <1>5, <3>1, <3>2
  <2> QED BY <1>1, <2>1, <2>2
<1>8. FanoutReachesEveryone'
  BY <1>2, <1>3, <1>7 DEF FanoutReachesEveryone, Received, SentTo
<1> QED BY <1>4, <1>8 DEF ReachInv

(* All other actions send nothing and only let connections age.            *)
LEMMA NextReach ==
  ASSUME TypeOK, ReachInv, [Next]_vars
  PROVE  ReachInv'
<1>1. /\ conn \in [Client -> ConnState] /\ clients \subseteq Client
      /\ dead \in SUBSET Client /\ dead \cup {target} \in SUBSET Client
      /\ \A c \in clients : conn[c] # "new"
  BY DEF TypeOK, RegistryTypeOK, ReachInv, ClientsConnected
<1>2. ASSUME UNCHANGED <<clients, conn>>,
             UNCHANGED <<served, audience, delivered>>, aborted \subseteq aborted',
             \/ UNCHANGED <<worker, todo>>
             \/ worker # "draining"
             \/ Len(served) \in aborted'
      PROVE  ReachInv'
  <2>1. ConnectionsAge
    BY <1>1, <1>2 DEF ConnectionsAge
  <2> QED BY <1>2, <2>1, QuietKeepsReach
<1>3. ASSUME NEW p \in Priority, NEW t \in Topic, Enqueue(p, t)
      PROVE  ReachInv'
  BY <1>2, <1>3 DEF Enqueue, registryVars, transportVars, historyVars
<1>4. CASE Start \/ Stop \/ StopReturns \/ GoIdle \/ Recover
  BY <1>2, <1>4 DEF Start, Stop, StopReturns, GoIdle, Recover, Awake, WorkerAlive,
                    registryVars, transportVars, historyVars
<1>5. ASSUME NEW e \in heap, Serve(e)
      PROVE  ReachInv'
  BY <1>5, ServeReach
<1>6. CASE DrainReturns \/ DrainRaises \/ DrainTimesOut
  BY <1>1, <1>6, ProceedReach DEF DrainReturns, DrainRaises, DrainTimesOut
<1>7. CASE WaitClosedReturns
  <2>1. ConnectionsAge
    BY <1>1, <1>7, ReapConnections DEF WaitClosedReturns
  <2> QED BY <1>7, <2>1, QuietKeepsReach DEF WaitClosedReturns, RestUnchanged
<1>8. CASE CancelWorker
  BY <1>2, <1>8 DEF CancelWorker, registryVars, transportVars
<1>9. CASE FanoutCrashes
  BY <1>2, <1>9 DEF FanoutCrashes, registryVars, transportVars
<1>10. CASE Handlers
  <2>1. PICK c \in Client :
          Register(c) \/ (\E t \in Topic : Subscribe(c, t)) \/ Unregister(c)
    BY <1>10 DEF Handlers
  <2>2. ConnectionsAge
    BY <1>1, <2>1 DEF ConnectionsAge, Register, Subscribe, Unregister, transportVars
  <2> QED BY <1>10, <2>2, QuietKeepsReach DEF Handlers, routerVars, historyVars
<1>11. CASE Network
  <2>1. PICK c \in Client : PeerReads(c) \/ Lose(c) \/ CloseCompletes(c)
    BY <1>11 DEF Network
  <2>2. ConnectionsAge
    BY <1>1, <2>1 DEF ConnectionsAge, PeerReads, Lose, CloseCompletes, registryVars
  <2> QED BY <1>11, <2>2, QuietKeepsReach DEF Network, routerVars, historyVars
<1>12. CASE UNCHANGED vars
  BY <1>2, <1>12 DEF vars, registryVars, transportVars, routerVars, historyVars
<1> QED BY <1>3, <1>4, <1>5, <1>6, <1>7, <1>8, <1>9, <1>10, <1>11, <1>12
        DEF Next, WorkerStep

(* Every subscriber still connected is sent every message whose fan-out    *)
(* was not aborted, whatever befell the others                             *)
(* (broker/router.py:109-127).                                             *)
THEOREM FanoutReach == Spec => []FanoutReachesEveryone
<1>1. Init => ReachInv
  BY DEF Init, RegistryInit, ReachInv, AudienceKept, ListedConnected,
         ClientsConnected, FanoutReachesEveryone
<1>2. TypeOK /\ ReachInv /\ [Next]_vars => ReachInv'
  BY NextReach
<1>3. ReachInv => FanoutReachesEveryone
  BY DEF ReachInv
<1> QED BY <1>1, <1>2, <1>3, RouterTypeOK, PTL DEF Spec

(* Only Register admits a client, once; and only a new service, which      *)
(* writes to a registered client, changes audience.                        *)
LEMMA StepKeepsOut ==
  ASSUME TypeOK, [Next]_vars, NEW c \in Client, c \notin clients, conn[c] # "new"
  PROVE  c \notin clients' /\ (delivered'[c] # delivered[c] => audience' = audience)
<1>1. ASSUME NEW p \in Priority, NEW t \in Topic, Enqueue(p, t)
      PROVE  UNCHANGED <<clients, delivered>>
  BY <1>1 DEF Enqueue, registryVars, historyVars
<1>2. CASE Start \/ Stop \/ StopReturns \/ GoIdle \/ Recover
  BY <1>2 DEF Start, Stop, StopReturns, GoIdle, Recover, registryVars, historyVars
<1>3. ASSUME NEW e \in heap, Serve(e)
      PROVE  clients' = clients /\ delivered'[c] = delivered[c]
  <2>1. delivered \in [Client -> Seq(Nat)] /\ c \notin Subscribers(e.topic)
    BY DEF TypeOK, Subscribers
  <2> QED BY <1>3, <2>1 DEF Serve, Send, registryVars
<1>4. CASE DrainReturns \/ DrainRaises \/ DrainTimesOut \/ WaitClosedReturns
  BY <1>4 DEF DrainReturns, DrainRaises, DrainTimesOut, WaitClosedReturns,
              RestUnchanged, Proceed, Reap, Unregister, registryVars
<1>5. CASE CancelWorker \/ FanoutCrashes
  BY <1>5 DEF CancelWorker, FanoutCrashes, registryVars
<1>6. CASE Handlers
  BY <1>6 DEF Handlers, Register, Subscribe, Unregister, historyVars
<1>7. CASE Network
  BY <1>7 DEF Network, PeerReads, Lose, CloseCompletes, registryVars, historyVars
<1>8. CASE UNCHANGED vars
  BY <1>8 DEF vars, registryVars, historyVars
<1> QED BY <1>1, <1>2, <1>3, <1>4, <1>5, <1>6, <1>7, <1>8 DEF Next, WorkerStep

(* A connection that left the registry stays out, and is written to only   *)
(* by a fan-out that had listed it before (broker/server.py:59-75,         *)
(* broker/router.py:109).                                                  *)
THEOREM UnregisteredStaysOut == Spec => NoResurrection
<1>1. TypeOK /\ [Next]_vars =>
        [\A c \in Client : c \notin clients /\ conn[c] # "new" =>
           /\ c \notin clients'
           /\ delivered'[c] # delivered[c] => audience' = audience]_vars
  BY StepKeepsOut
<1> QED BY <1>1, RouterTypeOK, PTL DEF Spec, NoResurrection

-----------------------------------------------------------------------------
(* Refinement of QoSQueue.                                                 *)

(* An enqueue is an arrival, a pop is a service of the most urgent pending *)
(* message, and nothing else the router does touches the queue.            *)
LEMMA StepRefines ==
  ASSUME [Next]_vars
  PROVE  [Q!Next]_(Q!vars)
<1>1. ASSUME NEW p \in Priority, NEW t \in Topic, Enqueue(p, t)
      PROVE  Q!Next
  <2>1. Q!Arrive(p, t)
    BY <1>1 DEF Enqueue, Q!Arrive, historyVars
  <2> QED BY <2>1 DEF Q!Next
<1>2. ASSUME NEW e \in heap, Serve(e)
      PROVE  Q!Next
  <2>1. Q!Serve(e)
    BY <1>2 DEF Serve, IsTop, Precedes, Q!Serve, Q!IsMostUrgent, Q!Precedes
  <2> QED BY <2>1 DEF Q!Next
<1>3. CASE UNCHANGED <<heap, seq, served>>
  BY <1>3 DEF Q!vars
<1>4. CASE Start \/ Stop \/ StopReturns \/ GoIdle \/ Recover
  BY <1>3, <1>4 DEF Start, Stop, StopReturns, GoIdle, Recover, historyVars
<1>5. CASE DrainReturns \/ DrainRaises \/ DrainTimesOut \/ WaitClosedReturns
  BY <1>3, <1>5
     DEF DrainReturns, DrainRaises, DrainTimesOut, WaitClosedReturns, RestUnchanged
<1>6. CASE CancelWorker \/ FanoutCrashes
  BY <1>3, <1>6 DEF CancelWorker, FanoutCrashes
<1>7. CASE Handlers \/ Network
  BY <1>3, <1>7 DEF Handlers, Network, routerVars, historyVars
<1>8. CASE UNCHANGED vars
  BY <1>3, <1>8 DEF vars, routerVars, historyVars
<1> QED BY <1>1, <1>2, <1>4, <1>5, <1>6, <1>7, <1>8 DEF Next, WorkerStep

(* The router implements the priority queue it promises                    *)
(* (broker/router.py:4-8).                                                 *)
THEOREM RouterImplementsQueue == Spec => ImplementsQoSQueue
<1>1. Init => Q!Init
  BY DEF Init, Q!Init
<1> QED BY <1>1, StepRefines, PTL DEF Spec, ImplementsQoSQueue, Q!Spec

(* So its pops are in priority order and lose or repeat no message: the    *)
(* queue's theorems, carried over (broker/router.py:75-77, 94).            *)
THEOREM RouterServesInOrder == Spec => [](Q!ServedByPriority /\ Q!ServedOnce)
<1>1. Q!Init => QP!Init
  BY DEF Q!Init, QP!Init
<1>2. [Q!Next]_(Q!vars) => [QP!Next]_(QP!vars)
  BY DEF Q!Next, QP!Next, Q!vars, QP!vars, Q!Arrive, QP!Arrive, Q!Serve, QP!Serve,
         Q!IsMostUrgent, QP!IsMostUrgent, Q!Precedes, QP!Precedes
<1>3. QP!ServedByPriority /\ QP!ServedOnce => Q!ServedByPriority /\ Q!ServedOnce
  BY DEF Q!ServedByPriority, QP!ServedByPriority, Q!Precedes, QP!Precedes,
         Q!ServedOnce, QP!ServedOnce
<1>4. QP!Spec => []QP!ServedByPriority
  BY QP!PriorityOrder, PriorityAssumption, ArrivalsAssumption
<1>5. QP!Spec => []QP!ServedOnce
  BY QP!EachServedOnce, PriorityAssumption, ArrivalsAssumption
<1> QED BY <1>1, <1>2, <1>3, <1>4, <1>5, RouterImplementsQueue, PTL
        DEF ImplementsQoSQueue, Q!Spec, QP!Spec
=============================================================================
