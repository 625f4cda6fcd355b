------------------------- MODULE BrokerServerProofs -------------------------
(***************************************************************************)
(* Proofs about BrokerServer for any connections, topics, priorities and   *)
(* frame lengths, and any number of publishes, kills and power failures.   *)
(***************************************************************************)
EXTENDS BrokerServer, EventLogProofs

-----------------------------------------------------------------------------
(* The kinds of steps.                                                     *)

(* A step of a handler that runs a part of append() or of a replay.        *)
LogAction(c) ==
  \/ c \in Watcher /\ \E o \in StartOffset : HandleTimeTravel(c, o)
  \/ c \in Publisher /\ \E p \in Priority, t \in Topic, len \in FrameLen :
                          HandlePublish(c, p, t, len)
  \/ PublishFails(c)
  \/ PublishReturns(c)
  \/ ReplayStep(c)
  \/ ReplayRaises(c)
  \/ AppendStep(c)

(* A step that leaves the log alone.                                       *)
QuietAction ==
  \/ Start
  \/ Stop
  \/ RouterStops
  \/ \E c \in Caller :
       \/ Connect(c) \/ HandlerEnds(c) \/ RouterDrops(c) \/ Proceed(c)
       \/ c \in Watcher /\ \E t \in Topic : HandleSubscribe(c, t)
  \/ PublishMetrics
  \/ \E e \in pending : Route(e)
  \/ FanoutCrashes
  \/ Network

(* A step is one handler's step at the log, or leaves the log alone, or    *)
(* is a crash.                                                             *)
LEMMA NextKinds ==
  ASSUME [Next]_vars
  PROVE  \/ \E c \in Caller : LogAction(c)
         \/ QuietAction \/ Kill \/ PowerFails \/ UNCHANGED vars
BY DEF Next, Handler, LogAction, QuietAction

(* A step at the log is a step of the caller in EventLog, and neither the  *)
(* router nor the metrics move.                                            *)
LEMMA LogActionSteps ==
  ASSUME NEW c \in Caller, LogAction(c)
  PROVE  /\ CallerStep(c)
         /\ UNCHANGED <<mode, kills, powerMark, ticks, reported, received, current, audience>>
BY DEF LogAction, HandleTimeTravel, HandlePublish, PublishFails, PublishReturns,
       ReplayStep, ReplayRaises, AppendStep, CallerStep, LogStep, Enqueue, queueVars,
       metricVars, fanoutVars, serverHist

(* A step that is not the log's leaves the file and the bookkeeping of     *)
(* appends and replays alone.                                              *)
LEMMA QuietActionKeeps ==
  ASSUME QuietAction
  PROVE  UNCHANGED <<logVars, message, kills, powerMark, subscribed, completed, latest>>
BY DEF QuietAction, Start, Stop, RouterStops, Connect, HandlerEnds, RouterDrops, Proceed,
       HandleSubscribe, PublishMetrics, Route, FanoutCrashes, Network, metricVars, serverHist

-----------------------------------------------------------------------------
(* The registry.                                                           *)

(* The finally block of a handler and the router both unregister, and a    *)
(* SUBSCRIBE that is still being handled for a dropped connection changes  *)
(* nothing: no entry of the registry outlives its handler                  *)
(* (broker/server.py:59-75, 160-189).                                      *)
THEOREM RegistryHasNoGhosts == Spec => []NoGhostClients
<1>1. Init => NoGhostClients
  BY DEF Init, Registry!RegistryInit, NoGhostClients
<1>2. ASSUME NoGhostClients, [Next]_vars
      PROVE  NoGhostClients'
  <2> USE DEF NoGhostClients
  <2>1. ASSUME NEW c \in Caller, LogAction(c)
        PROVE  NoGhostClients'
    BY <1>2, <2>1 DEF LogAction, HandleTimeTravel, HandlePublish, PublishFails,
       PublishReturns, ReplayStep, ReplayRaises, AppendStep, Leave, Registry!Unregister,
       registryVars
  <2>2. CASE QuietAction
    BY <1>2, <2>2 DEF QuietAction, Start, Stop, RouterStops, Connect, HandlerEnds,
       RouterDrops, Proceed, HandleSubscribe, PublishMetrics, Route, FanoutCrashes, Network,
       Leave, Registry!Unregister, Registry!Register, Registry!Subscribe, Registry!Lose,
       Registry!CloseCompletes, Registry!registryVars, registryVars
  <2>3. CASE Kill \/ PowerFails
    BY <1>2, <2>3 DEF Kill, PowerFails, ProcessEnds
  <2>4. CASE UNCHANGED vars
    BY <1>2, <2>4 DEF vars, registryVars
  <2> QED BY <1>2, <2>1, <2>2, <2>3, <2>4, NextKinds
<1> QED BY <1>1, <1>2, PTL DEF Spec

-----------------------------------------------------------------------------
(* Type correctness.                                                       *)

(* Every frame number below the counter names a publish; a publish that is *)
(* under way is its own handler's; an entry of the queue has a number that *)
(* was given out, and the publish that it, the fan-out or a client has, has*)
(* begun.                                                                  *)
MessageInv ==
  /\ Len(message) = frames
  /\ \A c \in Caller : phase[c] \in {"opened", "written"} =>
       frame[c].n \in 1..frames /\ message[frame[c].n].from = c

CarriedInv ==
  /\ Len(carried) = arrivals
  /\ \A e \in pending : e.seq < arrivals
  /\ \A i \in DOMAIN carried : carried[i] \in 0..frames
  /\ \A c \in Caller : \A i \in DOMAIN received[c] : received[c][i] \in 0..frames
  /\ current \in 0..frames

ServerTypeInv == TypeOK /\ LogTypeInv /\ MessageInv /\ CarriedInv

(* Publishing: the log keeps its types, and the router its numbers.        *)
LEMMA PublishTypeOK ==
  ASSUME ServerTypeInv, NEW c \in Caller, NEW p \in Priority, NEW t \in Topic,
         NEW len \in FrameLen, HandlePublish(c, p, t, len)
  PROVE  ServerTypeInv'
<1>1. LogTypeInv'
  BY AppendTypeOK DEF HandlePublish, ServerTypeInv
<1>2. /\ frames' = frames + 1 /\ frames \in Nat /\ Len(message) = frames
      /\ message \in Seq(Message) /\ phase \in [Caller -> Phase]
      /\ frame \in [Caller -> [n : Nat, len : Nat]]
  BY DEF ServerTypeInv, TypeOK, LogTypeOK, MessageInv, HandlePublish, OpenForAppend
<1> DEFINE m == [from |-> c, pri |-> p, topic |-> t]
<1>3. m \in Message /\ message' = Append(message, m) /\ m.from = c
  BY DEF Message, HandlePublish
<1> HIDE DEF m
<1>4. /\ message' \in Seq(Message) /\ Len(message') = frames'
      /\ \A i \in 1..frames : message'[i] = message[i]
      /\ message'[frames'] = m
  BY <1>2, <1>3
<1>5. MessageInv'
  <2>1. ASSUME NEW d \in Caller, phase'[d] \in {"opened", "written"}
        PROVE  frame'[d].n \in 1..frames' /\ message'[frame'[d].n].from = d
    <3>1. CASE d = c
      <4>1. frame'[d].n = frames'
        BY <1>2, <3>1 DEF HandlePublish, OpenForAppend
      <4> QED BY <1>2, <1>3, <1>4, <3>1, <4>1
    <3>2. CASE d # c
      <4>1. phase'[d] = phase[d] /\ frame'[d] = frame[d]
        BY <1>2, <3>2 DEF HandlePublish, OpenForAppend, Goto
      <4>2. frame[d].n \in 1..frames /\ message[frame[d].n].from = d
        BY <2>1, <4>1 DEF ServerTypeInv, MessageInv
      <4> QED BY <1>2, <1>4, <4>1, <4>2
    <3> QED BY <3>1, <3>2
  <2> QED BY <1>4, <2>1 DEF MessageInv
<1>6. CarriedInv'
  <2>1. \A x \in 0..frames : x \in 0..frames'
    BY <1>2
  <2> QED BY <2>1 DEF CarriedInv, ServerTypeInv, HandlePublish, queueVars, fanoutVars
<1>7. TypeOK'
  BY <1>1, <1>4 DEF TypeOK, ServerTypeInv, LogTypeInv, HandlePublish, registryVars, queueVars,
     metricVars, fanoutVars, Registry!RegistryTypeOK, Router!TypeOK
<1> QED BY <1>1, <1>5, <1>6, <1>7 DEF ServerTypeInv

(* A message joins the queue.                                              *)
LEMMA EnqueueTypeOK ==
  ASSUME Router!TypeOK, carried \in Seq(Nat), CarriedInv, frames \in Nat,
         NEW p \in Priority, NEW t \in Topic, NEW n \in 0..frames, Enqueue(p, t, n),
         UNCHANGED <<frames, received, current>>
  PROVE  /\ Router!TypeOK' /\ carried' \in Seq(Nat) /\ CarriedInv'
         /\ \A i \in DOMAIN carried : carried'[i] = carried[i]
         /\ Len(carried') = arrivals + 1 /\ carried'[arrivals + 1] = n
<1> DEFINE new == [pri |-> p, seq |-> arrivals, topic |-> t]
<1>1. /\ pending' = pending \cup {new} /\ arrivals' = arrivals + 1 /\ served' = served
      /\ carried' = Append(carried, n) /\ arrivals \in Nat /\ n \in Nat
      /\ Len(carried) = arrivals /\ pending \subseteq Router!Entry
  BY DEF Enqueue, Router!Arrive, Router!TypeOK, CarriedInv
<1>2. new \in Router!Entry /\ new.seq = arrivals
  BY <1>1 DEF Router!Entry
<1> HIDE DEF new
<1>3. Router!TypeOK'
  BY <1>1, <1>2 DEF Router!TypeOK
<1>4. /\ carried' \in Seq(Nat) /\ Len(carried') = arrivals'
      /\ \A i \in DOMAIN carried : carried'[i] = carried[i]
      /\ carried'[arrivals'] = n
  BY <1>1
<1>5. \A e \in pending : e.seq \in Nat
  BY <1>1 DEF Router!Entry
<1>6. \A e \in pending' : e.seq < arrivals'
  BY <1>1, <1>2, <1>5 DEF CarriedInv
<1>7. \A i \in DOMAIN carried' : carried'[i] \in 0..frames
  <2>1. DOMAIN carried = 1..arrivals /\ DOMAIN carried' = 1..arrivals + 1
    BY <1>1, <1>4
  <2> QED BY <1>1, <1>4, <2>1 DEF CarriedInv
<1> QED BY <1>1, <1>3, <1>4, <1>6, <1>7 DEF CarriedInv

(* A publish whose append returned and that is queued keeps the types,     *)
LEMMA ReturnTypeOK ==
  ASSUME ServerTypeInv, NEW c \in Caller, PublishReturns(c)
  PROVE  ServerTypeInv'
<1>1. LogTypeInv'
  BY AppendTypeOK DEF PublishReturns, ServerTypeInv
<1>2. /\ frame[c].n \in 1..frames /\ frames \in Nat /\ Len(message) = frames
      /\ message \in Seq(Message) /\ carried \in Seq(Nat) /\ Router!TypeOK
      /\ CarriedInv /\ phase \in [Caller -> Phase]
      /\ offset[c] \in Nat /\ frame[c].len \in Nat
  BY DEF ServerTypeInv, TypeOK, LogTypeOK, MessageInv, PublishReturns, AppendReturns
<1>3. PICK n \in 1..frames : n = frame[c].n
  BY <1>2
<1>4. message[n] \in Message
  BY <1>2
<1>5. PICK p \in Priority, t \in Topic : p = message[n].pri /\ t = message[n].topic
  BY <1>4 DEF Message
<1>6. Enqueue(p, t, n) /\ UNCHANGED <<frames, received, current>> /\ n \in 0..frames
  BY <1>2, <1>3, <1>5 DEF PublishReturns, AppendReturns, fanoutVars, serverHist
<1>7. Router!TypeOK' /\ carried' \in Seq(Nat) /\ CarriedInv'
  BY <1>2, <1>6, EnqueueTypeOK
<1>8. MessageInv'
  BY <1>2 DEF ServerTypeInv, MessageInv, PublishReturns, AppendReturns, serverHist, Goto
<1>9. latest' \in Nat /\ processed' \in Nat /\ completed' \in Nat
  <2>1. processed \in Nat /\ completed \in Nat
    BY DEF ServerTypeInv, TypeOK
  <2>2. /\ latest' = offset[c] + frame[c].len
        /\ processed' = processed + 1 /\ completed' = completed + 1
    BY DEF PublishReturns
  <2> QED BY <1>2, <2>1, <2>2
<1>10. TypeOK'
  BY <1>1, <1>7, <1>9 DEF TypeOK, ServerTypeInv, LogTypeInv, PublishReturns, registryVars,
     metricVars, fanoutVars, serverHist, Registry!RegistryTypeOK
<1> QED BY <1>1, <1>7, <1>8, <1>10 DEF ServerTypeInv

(* The other steps of append() and those of a replay.                      *)
LEMMA LeaveTypeOK ==
  ASSUME Registry!RegistryTypeOK, handling \subseteq Caller, NEW c \in Caller, Leave(c)
  PROVE  Registry!RegistryTypeOK' /\ handling' \subseteq Caller
BY DEF Leave, Registry!Unregister, Registry!RegistryTypeOK, Registry!ConnState

(* and so does every step at the log,                                      *)
LEMMA LogActionTypeOK ==
  ASSUME ServerTypeInv, NEW c \in Caller, LogAction(c)
  PROVE  ServerTypeInv'
<1>1. ASSUME NEW p \in Priority, NEW t \in Topic, NEW len \in FrameLen,
             HandlePublish(c, p, t, len)
      PROVE  ServerTypeInv'
  BY <1>1, PublishTypeOK
<1>2. CASE PublishReturns(c)
  BY <1>2, ReturnTypeOK
<1>3. ASSUME \/ \E o \in StartOffset : HandleTimeTravel(c, o)
             \/ PublishFails(c) \/ ReplayStep(c) \/ ReplayRaises(c) \/ AppendStep(c)
      PROVE  ServerTypeInv'
  <2>1. LogTypeInv'
    BY <1>3, AppendTypeOK, ReplayTypeOK
       DEF HandleTimeTravel, PublishFails, ReplayStep, ReplayRaises, AppendStep, ServerTypeInv
  <2>2. UNCHANGED <<frames, frame, message, received, pending, arrivals, served, carried,
                    current, audience>>
    BY <1>3 DEF HandleTimeTravel, PublishFails, ReplayStep, ReplayRaises, AppendStep,
       queueVars, fanoutVars, serverHist, StartReplay, TearFrame, ReadBatch, SeekFails,
       YieldFrame, AbandonReplay, WriteFrame
  <2>3. MessageInv'
    BY <1>3, <2>2 DEF MessageInv, ServerTypeInv, TypeOK, LogTypeOK, Goto, Phase,
       HandleTimeTravel, PublishFails, ReplayStep, ReplayRaises, AppendStep,
       StartReplay, TearFrame, ReadBatch, SeekFails, YieldFrame, AbandonReplay, WriteFrame
  <2>4. CarriedInv'
    BY <2>2 DEF CarriedInv, ServerTypeInv
  <2>5. Registry!RegistryTypeOK' /\ handling' \subseteq Caller
    <3>1. CASE UNCHANGED <<registryVars, handling>>
      BY <3>1 DEF ServerTypeInv, TypeOK, registryVars, Registry!RegistryTypeOK
    <3> QED BY <1>3, <3>1, LeaveTypeOK DEF ServerTypeInv, TypeOK, HandleTimeTravel,
               PublishFails, ReplayStep, ReplayRaises, AppendStep
  <2>6. subscribed' \in [Caller -> SUBSET Topic] /\ lost' \in [Caller -> SUBSET Nat]
    BY <1>3 DEF ServerTypeInv, TypeOK, HandleTimeTravel, PublishFails, ReplayStep,
       ReplayRaises, AppendStep, fanoutVars, serverHist, Registry!RegistryTypeOK
  <2>7. UNCHANGED <<mode, metricVars, kills, powerMark>>
    BY <1>3 DEF HandleTimeTravel, PublishFails, ReplayStep, ReplayRaises, AppendStep,
       serverHist
  <2>8. TypeOK'
    BY <2>1, <2>2, <2>5, <2>6, <2>7
       DEF TypeOK, ServerTypeInv, LogTypeInv, metricVars, Router!TypeOK
  <2> QED BY <2>1, <2>3, <2>4, <2>8 DEF ServerTypeInv
<1> QED BY <1>1, <1>2, <1>3 DEF LogAction

-----------------------------------------------------------------------------
ReceivedType ==
  /\ received \in [Caller -> Seq(Nat)]
  /\ \A c \in Caller : \A i \in DOMAIN received[c] : received[c][i] \in 0..frames

(* a message written to a subscriber,                                      *)
LEMMA SendTypeOK ==
  ASSUME ServerTypeInv, NEW c \in Caller, NEW n \in 0..frames, Send(c, n), UNCHANGED frames
  PROVE  ReceivedType'
<1>1. /\ received \in [Caller -> Seq(Nat)] /\ frames \in Nat /\ n \in Nat
      /\ \A d \in Caller : \A i \in DOMAIN received[d] : received[d][i] \in 0..frames
  <2>1. frames \in Nat
    BY DEF ServerTypeInv, TypeOK, LogTypeOK
  <2> QED BY <2>1 DEF ServerTypeInv, TypeOK, CarriedInv
<1>2. /\ Append(received[c], n) \in Seq(Nat)
      /\ \A i \in DOMAIN Append(received[c], n) : Append(received[c], n)[i] \in 0..frames
  <2>1. received[c] \in Seq(Nat) /\ \A i \in DOMAIN received[c] : received[c][i] \in 0..frames
    BY <1>1
  <2> QED BY <1>1, <2>1
<1> QED BY <1>1, <1>2 DEF Send, ReceivedType

(* the routing of a message to the first,                                  *)
LEMMA RouteTypeOK ==
  ASSUME ServerTypeInv, NEW e \in pending, Route(e)
  PROVE  ServerTypeInv'
<1>1. /\ carried \in Seq(Nat) /\ Len(carried) = arrivals /\ e.seq \in Nat /\ e.seq < arrivals
      /\ arrivals \in Nat /\ pending \subseteq Router!Entry
      /\ \A i \in DOMAIN carried : carried[i] \in 0..frames
  <2>1. e \in Router!Entry
    BY DEF ServerTypeInv, TypeOK, Router!TypeOK
  <2> QED BY <2>1 DEF ServerTypeInv, TypeOK, Router!TypeOK, CarriedInv, Router!Entry
<1>2. PICK n \in 0..frames : n = carried[e.seq + 1] /\ n \in Nat /\ current' = n
  BY <1>1 DEF Route
<1>3. ReceivedType' /\ audience' \subseteq Caller
  <2>1. Registry!Subscribers(e.topic) \subseteq Caller /\ audience \subseteq Caller
    BY DEF Registry!Subscribers, ServerTypeInv, TypeOK, Registry!RegistryTypeOK
  <2>2. CASE UNCHANGED <<audience, received>>
    BY <2>1, <2>2 DEF ServerTypeInv, TypeOK, CarriedInv, ReceivedType, Route, logVars
  <2>3. ASSUME NEW c \in Caller, Send(c, n),
               audience' = Registry!Subscribers(e.topic) \ {c}
        PROVE  ReceivedType' /\ audience' \subseteq Caller
    BY <2>1, <2>3, SendTypeOK DEF Route, logVars
  <2> QED BY <1>2, <2>1, <2>2, <2>3 DEF Route
<1>4. /\ pending' = pending \ {e} /\ arrivals' = arrivals
      /\ served' = Append(served, [entry |-> e, at |-> arrivals])
  BY DEF Route, Router!Serve
<1>5. Router!TypeOK'
  <2>1. [entry |-> e, at |-> arrivals] \in Router!Service /\ served \in Seq(Router!Service)
    BY <1>1 DEF Router!Service, Router!TypeOK, ServerTypeInv, TypeOK
  <2> QED BY <1>1, <1>4, <2>1 DEF Router!TypeOK
<1>6. UNCHANGED <<logVars, registryVars, carried, mode, handling, metricVars, lost, kills,
                  message, subscribed, powerMark>>
  BY DEF Route
<1>7. LogTypeInv' /\ MessageInv'
  BY <1>6 DEF ServerTypeInv, LogTypeInv, LogTypeOK, BatchReady, FrameReady, MessageInv,
     logVars, callVars, logHist
<1>8. CarriedInv'
  BY <1>1, <1>2, <1>3, <1>4, <1>6 DEF CarriedInv, ServerTypeInv, ReceivedType, logVars
<1>9. TypeOK'
  BY <1>2, <1>3, <1>5, <1>6, <1>7 DEF ServerTypeInv, TypeOK, LogTypeInv, ReceivedType,
     registryVars, metricVars, Registry!RegistryTypeOK
<1> QED BY <1>7, <1>8, <1>9 DEF ServerTypeInv

(* to the others, or to no more of them,                                   *)
LEMMA FanoutTypeOK ==
  ASSUME ServerTypeInv, (\E c \in Caller : Proceed(c)) \/ FanoutCrashes \/ RouterStops
  PROVE  ServerTypeInv'
<1>1. UNCHANGED <<logVars, registryVars, queueVars, handling, metricVars, current, kills,
                  message, subscribed, powerMark>>
  BY DEF Proceed, FanoutCrashes, RouterStops, CutShort, serverHist
<1>2. /\ ReceivedType' /\ audience' \subseteq Caller /\ lost' \in [Caller -> SUBSET Nat]
      /\ mode' \in {"down", "up", "closing", "stopped"}
  <2>1. /\ ReceivedType /\ audience \subseteq Caller /\ lost \in [Caller -> SUBSET Nat]
        /\ mode \in {"down", "up", "closing", "stopped"}
        /\ current \in 0..frames /\ current \in Nat /\ UNCHANGED frames
    BY <1>1 DEF ServerTypeInv, TypeOK, CarriedInv, ReceivedType, logVars
  <2>2. ASSUME NEW c \in Caller, Proceed(c)
        PROVE  /\ ReceivedType' /\ audience' \subseteq audience
               /\ UNCHANGED <<lost, mode>>
    BY <2>1, <2>2, SendTypeOK DEF Proceed
  <2>3. ASSUME FanoutCrashes \/ RouterStops
        PROVE  /\ ReceivedType' /\ audience' = {} /\ lost' \in [Caller -> SUBSET Nat]
               /\ mode' \in {mode, "stopped"}
    BY <2>1, <2>3 DEF FanoutCrashes, RouterStops, CutShort, ReceivedType, serverHist
  <2> QED BY <2>1, <2>2, <2>3
<1>3. LogTypeInv' /\ MessageInv'
  BY <1>1 DEF ServerTypeInv, LogTypeInv, LogTypeOK, BatchReady, FrameReady, MessageInv,
     logVars, callVars, logHist
<1>4. CarriedInv'
  BY <1>1, <1>2 DEF CarriedInv, ServerTypeInv, ReceivedType, logVars, queueVars
<1>5. TypeOK'
  BY <1>1, <1>2, <1>3 DEF ServerTypeInv, TypeOK, LogTypeInv, ReceivedType, registryVars,
     queueVars, metricVars, Registry!RegistryTypeOK, Router!TypeOK
<1> QED BY <1>3, <1>4, <1>5 DEF ServerTypeInv

(* every step that does not touch the log,                                 *)
LEMMA QuietTypeOK ==
  ASSUME ServerTypeInv, QuietAction
  PROVE  ServerTypeInv'
<1>1. UNCHANGED <<logVars, message, kills, powerMark, subscribed, completed, latest>>
  BY QuietActionKeeps
<1>2. LogTypeInv' /\ MessageInv'
  BY <1>1 DEF ServerTypeInv, LogTypeInv, LogTypeOK, BatchReady, FrameReady, MessageInv,
     logVars, callVars, logHist
<1>3. ASSUME NEW e \in pending, Route(e)
      PROVE  ServerTypeInv'
  BY <1>3, RouteTypeOK
<1>4. CASE PublishMetrics
  <2>1. Router!TypeOK' /\ carried' \in Seq(Nat) /\ CarriedInv'
    <3>1. Enqueue(TopPriority, MetricsTopic, 0) /\ UNCHANGED <<frames, received, current>>
      BY <1>4 DEF PublishMetrics, logVars, fanoutVars, serverHist
    <3>2. frames \in Nat /\ 0 \in 0..frames
      BY DEF ServerTypeInv, TypeOK, LogTypeOK
    <3> QED BY <3>1, <3>2, EnqueueTypeOK, MetricsAssumption DEF ServerTypeInv, TypeOK
  <2>2. ticks' \in 0..MaxTicks /\ reported' \in Nat /\ processed' \in Nat
    BY <1>4, ServerBounds DEF PublishMetrics, ServerTypeInv, TypeOK
  <2>3. TypeOK'
    BY <1>1, <1>2, <1>4, <2>1, <2>2 DEF PublishMetrics, ServerTypeInv, LogTypeInv, TypeOK,
       registryVars, fanoutVars, serverHist, Registry!RegistryTypeOK
  <2> QED BY <1>2, <2>1, <2>3 DEF ServerTypeInv
<1>5. ASSUME \/ Start \/ Stop \/ Network
             \/ \E c \in Caller :
                  \/ Connect(c) \/ HandlerEnds(c) \/ RouterDrops(c)
                  \/ c \in Watcher /\ \E t \in Topic : HandleSubscribe(c, t)
      PROVE  ServerTypeInv'
  <2>1. /\ UNCHANGED <<queueVars, metricVars, fanoutVars, received>>
        /\ mode' \in {"down", "up", "closing", "stopped"}
    BY <1>5 DEF Start, Stop, Network, Connect, HandlerEnds, RouterDrops, HandleSubscribe,
       serverHist, ServerTypeInv, TypeOK
  <2>2. Registry!RegistryTypeOK' /\ handling' \subseteq Caller
    <3>1. Registry!RegistryTypeOK /\ handling \subseteq Caller
      BY DEF ServerTypeInv, TypeOK
    <3>2. CASE \E c \in Caller : HandlerEnds(c)
      BY <3>1, <3>2, LeaveTypeOK DEF HandlerEnds
    <3>3. CASE \E c \in Caller : RouterDrops(c)
      BY <3>1, <3>3 DEF RouterDrops, Registry!Unregister, Registry!RegistryTypeOK,
         Registry!ConnState
    <3>4. CASE \E c \in Caller : Connect(c)
      BY <3>1, <3>4 DEF Connect, Registry!Register, Registry!RegistryTypeOK,
         Registry!ConnState
    <3>5. CASE \E c \in Caller, t \in Topic : HandleSubscribe(c, t)
      BY <3>1, <3>5 DEF HandleSubscribe, Registry!Subscribe, Registry!RegistryTypeOK,
         Registry!transportVars
    <3>6. CASE Network
      BY <3>1, <3>6 DEF Network, Registry!Lose, Registry!CloseCompletes,
         Registry!RegistryTypeOK, Registry!ConnState, Registry!registryVars,
         Registry!Drained, Registry!Full
    <3>7. CASE Start \/ Stop
      BY <3>1, <3>7 DEF Start, Stop, Registry!RegistryTypeOK, registryVars
    <3> QED BY <1>5, <3>2, <3>3, <3>4, <3>5, <3>6, <3>7
  <2>3. CarriedInv'
    BY <1>1, <2>1 DEF ServerTypeInv, CarriedInv, queueVars, fanoutVars, logVars
  <2>4. TypeOK'
    BY <1>1, <1>2, <2>1, <2>2 DEF ServerTypeInv, LogTypeInv, TypeOK, queueVars, metricVars,
       fanoutVars, Router!TypeOK
  <2> QED BY <1>2, <2>3, <2>4 DEF ServerTypeInv
<1> QED BY <1>3, <1>4, <1>5, FanoutTypeOK DEF QuietAction

(* The end of the process leaves a prefix of the file, or the file and a   *)
(* part of one frame.                                                      *)
LEMMA CrashFile ==
  ASSUME ServerTypeInv, Kill \/ PowerFails
  PROVE  /\ file' \in Seq(Cell) /\ torn' \in Nat /\ powerMark' \in Nat
         /\ ProcessEnds /\ UNCHANGED message
<1>1. file \in Seq(Cell) /\ torn \in Nat /\ frame \in [Caller -> [n : Nat, len : Nat]]
      /\ frames \in Nat /\ powerMark \in Nat
  BY DEF ServerTypeInv, TypeOK, LogTypeOK
<1>2. CASE Kill
  <2>1. CASE UNCHANGED <<file, torn>>
    BY <1>1, <1>2, <2>1 DEF Kill, ProcessEnds
  <2>2. ASSUME NEW c \in Caller, NEW k \in 1..frame[c].len - 1, torn' = torn + 1,
               file' = file \o SubSeq(Frame(frame[c].n, frame[c].len), 1, k)
        PROVE  file' \in Seq(Cell) /\ torn' \in Nat
    <3>1. frame[c].n \in Nat /\ frame[c].len \in Nat /\ k \in 0..frame[c].len
      BY <1>1
    <3>2. file' \in Seq(Cell)
      BY <1>1, <2>2, <3>1, PartGrows
    <3> QED BY <1>1, <2>2, <3>2
  <2> QED BY <1>1, <1>2, <2>1, <2>2 DEF Kill, ProcessEnds
<1>3. CASE PowerFails
  <2>1. PICK k \in 0..Len(file) : file' = SubSeq(file, 1, k) /\ torn' \in {torn, torn + 1}
    BY <1>3 DEF PowerFails
  <2>2. file' \in Seq(Cell)
    BY <1>1, <2>1
  <2> QED BY <1>1, <1>3, <2>1, <2>2 DEF PowerFails, ProcessEnds
<1> QED BY <1>2, <1>3

(* and a crash with the restart that follows it.                           *)
LEMMA CrashTypeOK ==
  ASSUME ServerTypeInv, Kill \/ PowerFails
  PROVE  ServerTypeInv'
<1>1. /\ file' \in Seq(Cell) /\ torn' \in Nat /\ powerMark' \in Nat
      /\ ProcessEnds /\ UNCHANGED message
  BY CrashFile
<1> USE DEF ServerTypeInv
<1>2. << >> \in Seq([from : Nat, to : Nat]) /\ << >> \in Seq(Nat)
      /\ << >> \in Seq(Router!Service) /\ Len(<< >>) = 0 /\ DOMAIN << >> = {}
  OBVIOUS
<1>3. phase' = [c \in Caller |-> "idle"] /\ batch' = [c \in Caller |-> << >>]
      /\ ended' = [c \in Caller |-> FALSE]
      /\ UNCHANGED <<frames, frame, offset, acked, start, yielded, received>>
  BY <1>1 DEF ProcessEnds
<1>4. LogTypeInv'
  BY <1>1, <1>2, <1>3 DEF LogTypeInv, LogTypeOK, BatchReady, FrameReady, Phase
<1>5. MessageInv'
  BY <1>1, <1>3 DEF MessageInv
<1>6. CarriedInv'
  <2>1. frames \in Nat /\ current' = 0
    BY <1>1 DEF ProcessEnds, TypeOK, LogTypeOK
  <2> QED BY <1>1, <1>2, <1>3, <2>1 DEF CarriedInv, ProcessEnds
<1>7. Registry!RegistryTypeOK'
  <2>1. conn' \in [Caller -> Registry!ConnState]
    BY <1>1 DEF ProcessEnds, Registry!ConnState
  <2> QED BY <1>1, <2>1 DEF ProcessEnds, TypeOK, Registry!RegistryTypeOK
<1>8. Router!TypeOK' /\ carried' \in Seq(Nat)
  BY <1>1, <1>2 DEF ProcessEnds, Router!TypeOK
<1>9. TypeOK'
  BY <1>1, <1>3, <1>4, <1>7, <1>8, ServerBounds DEF ProcessEnds, TypeOK, LogTypeInv
<1> QED BY <1>4, <1>5, <1>6, <1>9

(* The initial state is well typed.                                        *)
LEMMA InitServerType ==
  ASSUME Init
  PROVE  ServerTypeInv
<1>1. LogTypeInv
  BY InitLogTypeOK DEF Init
<1>2. << >> \in Seq(Message) /\ << >> \in Seq(Nat) /\ << >> \in Seq(Router!Service)
      /\ Len(<< >>) = 0 /\ DOMAIN << >> = {}
  OBVIOUS
<1>3. Registry!RegistryTypeOK /\ Router!TypeOK
  BY <1>2 DEF Init, Registry!RegistryInit, Registry!RegistryTypeOK, Registry!ConnState,
     Registry!Drained, Registry!Full, Router!Init, Router!TypeOK
<1>4. TypeOK
  BY <1>1, <1>2, <1>3, ServerBounds DEF Init, TypeOK, LogTypeInv
<1>5. MessageInv /\ CarriedInv
  BY <1>2 DEF Init, LogInit, Router!Init, MessageInv, CarriedInv
<1> QED BY <1>1, <1>4, <1>5 DEF ServerTypeInv

(* One step of the composition keeps the types.                            *)
LEMMA NextServerType ==
  ASSUME ServerTypeInv, [Next]_vars
  PROVE  ServerTypeInv'
<1>1. CASE UNCHANGED vars
  BY <1>1 DEF vars, logVars, callVars, logHist, registryVars, queueVars, fanoutVars,
     metricVars, serverHist, ServerTypeInv, TypeOK, LogTypeInv, LogTypeOK, BatchReady, FrameReady,
     MessageInv, CarriedInv, Registry!RegistryTypeOK, Router!TypeOK
<1> QED BY <1>1, NextKinds, LogActionTypeOK, QuietTypeOK, CrashTypeOK

(* The types of the server and of its parts hold together.                 *)
LEMMA ServerTypeInvariant == Spec => []ServerTypeInv
  BY InitServerType, NextServerType, PTL DEF Spec

(* Every variable of the broker keeps its type; what a queue entry carries *)
(* and what a client received are the numbers of publishes that were made, *)
(* through kills, power failures and restarts (broker/server.py:89-245).   *)
THEOREM BrokerTypeOK == Spec => []TypeOK
<1>1. ServerTypeInv => TypeOK
  BY DEF ServerTypeInv
<1> QED BY <1>1, ServerTypeInvariant, PTL

-----------------------------------------------------------------------------
(* What the log keeps.                                                     *)

(* A crash of the process adds at most a part of a frame to the file.      *)
LEMMA KillGrows ==
  ASSUME ServerTypeInv, Kill
  PROVE  Grows
<1>1. file \in Seq(Cell) /\ frame \in [Caller -> [n : Nat, len : Nat]]
  BY DEF ServerTypeInv, TypeOK, LogTypeOK
<1>2. CASE UNCHANGED file
  BY <1>1, <1>2, UnchangedGrows
<1>3. ASSUME NEW c \in Caller, NEW k \in 1..frame[c].len - 1,
             file' = file \o SubSeq(Frame(frame[c].n, frame[c].len), 1, k)
      PROVE  Grows
  <2>1. frame[c].n \in Nat /\ frame[c].len \in Nat /\ k \in 0..frame[c].len
    BY <1>1
  <2> QED BY <1>1, <1>3, <2>1, PartGrows
<1> QED BY <1>2, <1>3 DEF Kill

(* Only a power failure takes anything from the file.                      *)
LEMMA StepGrows ==
  ASSUME ServerTypeInv, [Next]_vars, ~PowerFails
  PROVE  Grows
<1>1. file \in Seq(Cell)
  BY DEF ServerTypeInv, TypeOK, LogTypeOK
<1>2. ASSUME NEW c \in Caller, LogAction(c)
      PROVE  Grows
  BY <1>2, LogActionSteps, CallerStepGrows DEF ServerTypeInv
<1>3. CASE QuietAction \/ UNCHANGED vars
  <2>1. UNCHANGED file
    BY <1>3, QuietActionKeeps DEF vars, logVars
  <2> QED BY <1>1, <2>1, UnchangedGrows
<1> QED BY <1>2, <1>3, KillGrows, NextKinds

(* A frame that is in the file stays there while the file only grows.      *)
LEMMA StoredKept ==
  ASSUME file \in Seq(Cell), file' \in Seq(Cell), Grows, NEW n \in Nat, Stored(n)
  PROVE  Stored(n)'
<1>1. PICK o \in 0..Len(file) - 1 : file[o + 1].frame = n /\ StoredAt(n, file[o + 1].len, o)
  BY DEF Stored
<1>2. o \in Nat /\ o + 1 \in 1..Len(file) /\ o \in 0..Len(file') - 1
  BY <1>1 DEF Grows
<1>3. PICK len \in Nat : len = file[o + 1].len
  <2>1. file[o + 1] \in Cell
    BY <1>2
  <2> QED BY <2>1 DEF Cell
<1>4. file'[o + 1] = file[o + 1]
  BY <1>2 DEF Grows
<1>5. StoredAt(n, len, o)'
  BY <1>1, <1>2, <1>3, GrowthKeeps
<1> QED BY <1>1, <1>2, <1>3, <1>4, <1>5 DEF Stored

(* write() stores the frame of the publish that called append().           *)
LEMMA WriteStored ==
  ASSUME LogTypeInv, LogTypeInv', NEW c \in Caller, WriteFrame(c)
  PROVE  Stored(frame[c].n)'
<1>1. PICK n \in Nat, len \in Nat, p \in Nat :
        n = frame[c].n /\ len = frame[c].len /\ p = Len(file)
  <2>1. Len(file) \in Nat /\ frame[c].n \in Nat /\ frame[c].len \in Nat
    BY DEF LogTypeInv, LogTypeOK
  <2> QED BY <2>1
<1>2. len >= 1
  BY <1>1, FrameLenType DEF LogTypeInv, FrameReady, WriteFrame
<1>3. StoredAt(n, len, p)' /\ Len(file') = p + len
  BY <1>1, WriteStores
<1>4. SubSeq(file', p + 1, p + len) = Frame(n, len) /\ file' \in Seq(Cell)
  BY <1>3 DEF StoredAt, LogTypeInv, LogTypeOK
<1>5. file'[p + 1] = [frame |-> n, at |-> 1, len |-> len]
  <2>1. SubSeq(file', p + 1, p + len)[1] = file'[p + 1]
    BY <1>2, <1>3, <1>4
  <2>2. Frame(n, len)[1] = [frame |-> n, at |-> 1, len |-> len]
    BY <1>2 DEF Frame
  <2> QED BY <1>4, <2>1, <2>2
<1>6. p \in 0..Len(file') - 1 /\ n = frame'[c].n
  BY <1>1, <1>2, <1>3 DEF WriteFrame
<1> QED BY <1>3, <1>5, <1>6 DEF Stored

(* The offsets of the appends under way stay right through every step.     *)
LEMMA AppendsAtServer ==
  ASSUME ServerTypeInv, ServerTypeInv', AppendsAt, [Next]_vars
  PROVE  AppendsAt'
<1>1. ASSUME NEW c \in Caller, LogAction(c)
      PROVE  AppendsAt'
  BY <1>1, LogActionSteps, AppendsAtKept DEF ServerTypeInv
<1>2. CASE QuietAction \/ UNCHANGED vars
  <2>1. UNCHANGED logVars
    BY <1>2, QuietActionKeeps DEF vars
  <2> QED BY <2>1 DEF logVars, callVars, AppendsAt, AtBoundary, StoredFrom, IsBoundary, StoredAt
<1>3. CASE Kill \/ PowerFails
  BY <1>3, CrashFile DEF ProcessEnds, AppendsAt
<1> QED BY <1>1, <1>2, <1>3, NextKinds

-----------------------------------------------------------------------------
(* The metrics.                                                            *)

MetricsInv == MetricsAccurate /\ AppendsAt

(* The counters stay in agreement with what the log holds.                 *)
LEMMA NextMetrics ==
  ASSUME ServerTypeInv, ServerTypeInv', MetricsInv, [Next]_vars
  PROVE  MetricsInv'
<1>1. AppendsAt'
  BY AppendsAtServer DEF MetricsInv
<1>2. /\ reported \in Nat /\ processed \in Nat /\ completed \in Nat /\ latest \in Nat
      /\ Len(file) \in Nat /\ Len(file') \in Nat /\ file' \in Seq(Cell)
      /\ reported + processed = completed /\ latest <= Len(file)
  <2>1. /\ reported \in Nat /\ processed \in Nat /\ completed \in Nat /\ latest \in Nat
        /\ file \in Seq(Cell) /\ file' \in Seq(Cell)
    BY DEF ServerTypeInv, TypeOK, LogTypeOK
  <2>2. reported + processed = completed /\ latest <= Len(file)
    BY DEF MetricsInv, MetricsAccurate
  <2> QED BY <2>1, <2>2
<1>3. (reported + processed = completed)'
  <2>1. ASSUME NEW c \in Caller, PublishReturns(c)
        PROVE  (reported + processed = completed)'
    BY <1>2, <2>1 DEF PublishReturns
  <2>2. CASE PublishMetrics
    BY <1>2, <2>2 DEF PublishMetrics
  <2>3. CASE Kill \/ PowerFails
    BY <2>3, CrashFile DEF ProcessEnds
  <2>4. CASE UNCHANGED <<reported, processed, completed>>
    BY <1>2, <2>4
  <2>5. ASSUME NEW c \in Caller, LogAction(c), ~PublishReturns(c)
        PROVE  UNCHANGED <<reported, processed, completed>>
    BY <2>5 DEF LogAction, HandleTimeTravel, HandlePublish, PublishFails, ReplayStep,
       ReplayRaises, AppendStep, metricVars
  <2>6. ASSUME QuietAction, ~PublishMetrics
        PROVE  UNCHANGED <<reported, processed, completed>>
    BY <2>6 DEF QuietAction, Start, Stop, RouterStops, Connect, HandlerEnds, RouterDrops,
       Proceed, HandleSubscribe, Route, FanoutCrashes, Network, metricVars
  <2> QED BY <2>1, <2>2, <2>3, <2>4, <2>5, <2>6, NextKinds DEF vars, metricVars
<1>4. latest' <= Len(file')
  <2>1. ASSUME NEW c \in Caller, PublishReturns(c)
        PROVE  latest' <= Len(file')
    <3>1. StoredFrom(offset[c], frame[c].n, frame[c].len)
      BY <2>1 DEF PublishReturns, AppendReturns, MetricsInv, AppendsAt
    <3>2. PICK q \in offset[c]..Len(file) : StoredAt(frame[c].n, frame[c].len, q)
      BY <3>1 DEF StoredFrom
    <3>3. q + frame[c].len <= Len(file) /\ offset[c] \in Nat /\ frame[c].len \in Nat
      BY <3>2 DEF StoredAt, ServerTypeInv, TypeOK, LogTypeOK
    <3>4. latest' = offset[c] + frame[c].len /\ UNCHANGED file
      BY <2>1 DEF PublishReturns, AppendReturns
    <3> QED BY <1>2, <3>2, <3>3, <3>4
  <2>2. CASE Kill \/ PowerFails
    BY <1>2, <2>2, CrashFile DEF ProcessEnds
  <2>3. CASE UNCHANGED latest /\ ~PowerFails
    BY <1>2, <2>3, StepGrows DEF Grows
  <2>4. ASSUME NEW c \in Caller, LogAction(c), ~PublishReturns(c)
        PROVE  UNCHANGED latest
    BY <2>4 DEF LogAction, HandleTimeTravel, HandlePublish, PublishFails, ReplayStep,
       ReplayRaises, AppendStep, metricVars
  <2> QED BY <2>1, <2>2, <2>3, <2>4, NextKinds, QuietActionKeeps DEF vars, metricVars
<1> QED BY <1>1, <1>3, <1>4 DEF MetricsInv, MetricsAccurate

(* Every completed publish is counted once, in a report or for the next    *)
(* one, although the counter is reset while publishes go on; and the       *)
(* offset reported never points past the end of the log, whatever other    *)
(* threads append and whatever a crash leaves (broker/server.py:134-158,   *)
(* 209-220).                                                               *)
THEOREM MetricsAreAccurate == Spec => []MetricsAccurate
<1>1. Init => MetricsInv
  <2>1. Len(<< >>) = 0
    OBVIOUS
  <2> QED BY <2>1 DEF Init, LogInit, MetricsInv, MetricsAccurate, AppendsAt
<1>2. MetricsInv => MetricsAccurate
  BY DEF MetricsInv
<1> QED BY <1>1, <1>2, ServerTypeInvariant, NextMetrics, PTL DEF Spec

-----------------------------------------------------------------------------
(* Log before delivery.                                                    *)

WrittenStored == \A c \in Caller : phase[c] = "written" => Stored(frame[c].n)

CurrentStored == current > powerMark => Stored(current)

WriteAheadInv == WriteAhead /\ WrittenStored /\ CurrentStored

(* A frame whose append has written it is in the file, after every step.   *)
LEMMA WrittenStoredKept ==
  ASSUME ServerTypeInv, ServerTypeInv', WrittenStored, [Next]_vars
  PROVE  WrittenStored'
<1>1. ASSUME NEW c \in Caller, phase'[c] = "written"
      PROVE  Stored(frame[c].n)'
  <2>1. CASE WriteFrame(c)
    BY <2>1, WriteStored DEF ServerTypeInv
  <2>2. CASE phase[c] = "written" /\ UNCHANGED frame[c] /\ ~PowerFails
    <3>1. PICK n \in Nat : n = frame[c].n
      BY DEF ServerTypeInv, TypeOK, LogTypeOK
    <3>2. Stored(n)
      BY <2>2, <3>1 DEF WrittenStored
    <3>3. Stored(n)'
      BY <2>2, <3>2, StepGrows, StoredKept DEF ServerTypeInv, TypeOK, LogTypeOK
    <3> QED BY <2>2, <3>1, <3>3
  <2>3. ~Kill /\ ~PowerFails
    BY <1>1, CrashFile DEF ProcessEnds
  <2>4. ASSUME NEW d \in Caller, LogAction(d)
        PROVE  WriteFrame(c) \/ (phase[c] = "written" /\ UNCHANGED frame[c])
    <3>1. CallerStep(d) /\ phase \in [Caller -> Phase]
          /\ frame \in [Caller -> [n : Nat, len : Nat]]
      BY <2>4, LogActionSteps DEF ServerTypeInv, TypeOK, LogTypeOK
    <3> QED BY <1>1, <3>1 DEF CallerStep, LogStep, OpenForAppend, StartReplay, WriteFrame,
            TearFrame, AppendReturns, ReadBatch, SeekFails, YieldFrame, AbandonReplay, Goto
  <2>5. CASE QuietAction \/ UNCHANGED vars
    <3>1. UNCHANGED <<phase, frame>>
      BY <2>5, QuietActionKeeps DEF vars, logVars, callVars
    <3> QED BY <1>1, <2>2, <2>3, <3>1
  <2> QED BY <2>1, <2>2, <2>3, <2>4, <2>5, NextKinds
<1> QED BY <1>1 DEF WrittenStored

(* No step queues, fans out or delivers a message that is not in the file. *)
LEMMA WriteAheadKept ==
  ASSUME ServerTypeInv, ServerTypeInv', WriteAheadInv, [Next]_vars
  PROVE  WriteAhead' /\ CurrentStored'
<1>1. /\ file \in Seq(Cell) /\ file' \in Seq(Cell) /\ frames \in Nat
      /\ carried \in Seq(Nat) /\ received \in [Caller -> Seq(Nat)]
      /\ pending \subseteq Router!Entry /\ powerMark \in Nat /\ Len(carried) = arrivals
      /\ arrivals \in Nat
      /\ \A e \in pending : e.seq \in Nat /\ e.seq < arrivals
  <2>1. /\ file \in Seq(Cell) /\ file' \in Seq(Cell) /\ frames \in Nat
        /\ carried \in Seq(Nat) /\ received \in [Caller -> Seq(Nat)]
        /\ pending \subseteq Router!Entry /\ powerMark \in Nat /\ arrivals \in Nat
        /\ Len(carried) = arrivals
    BY DEF ServerTypeInv, TypeOK, LogTypeOK, Router!TypeOK, CarriedInv
  <2>2. \A e \in pending : e.seq \in Nat /\ e.seq < arrivals
    BY <2>1 DEF ServerTypeInv, CarriedInv, Router!Entry
  <2> QED BY <2>1, <2>2
<1>2. CASE PowerFails
  <2>1. /\ pending' = {} /\ powerMark' = frames' /\ CarriedInv' /\ frames' \in Nat
        /\ current' = 0
    BY <1>2 DEF PowerFails, ProcessEnds, ServerTypeInv, TypeOK, LogTypeOK
  <2>2. \A c \in Caller : \A i \in DOMAIN received'[c] : received'[c][i] \in 0..frames'
    BY <2>1 DEF CarriedInv
  <2> QED BY <2>1, <2>2 DEF WriteAhead, CurrentStored
<1>3. ASSUME ~PowerFails
      PROVE  WriteAhead' /\ CurrentStored'
  <2>1. Grows
    BY <1>3, StepGrows
  <2>2. \A n \in Nat : Stored(n) => Stored(n)'
    BY <1>1, <2>1, StoredKept
  <2>3. \A e \in pending : \E n \in Nat : n = carried[e.seq + 1] /\ (n # 0 => Stored(n)')
    <3> TAKE e \in pending
    <3>1. PICK n \in Nat : n = carried[e.seq + 1]
      <4>1. e.seq + 1 \in 1..Len(carried)
        BY <1>1
      <4>2. carried[e.seq + 1] \in Nat
        BY <1>1, <4>1, ElementOfSeq
      <4> QED BY <4>2
    <3>2. n # 0 => Stored(n)
      BY <3>1 DEF WriteAheadInv, WriteAhead
    <3>3. n # 0 => Stored(n)'
      BY <2>2, <3>2
    <3> QED BY <3>1, <3>3
  <2>4. \A c \in Caller : \A i \in DOMAIN received[c] :
          \E n \in Nat : n = received[c][i] /\ (n > powerMark => Stored(n)')
    <3> TAKE c \in Caller
    <3> TAKE i \in DOMAIN received[c]
    <3>1. PICK n \in Nat : n = received[c][i]
      <4>1. received[c] \in Seq(Nat)
        BY <1>1
      <4>2. received[c][i] \in Nat
        BY <4>1, ElementOfSeq
      <4> QED BY <4>2
    <3>2. n > powerMark => Stored(n)
      BY <3>1 DEF WriteAheadInv, WriteAhead
    <3>3. n > powerMark => Stored(n)'
      BY <2>2, <3>2
    <3> QED BY <3>1, <3>3
  <2>a. PICK x \in Nat : x = current /\ (x > powerMark => Stored(x)')
    <3>1. current \in Nat
      BY DEF ServerTypeInv, TypeOK
    <3> QED BY <2>2, <3>1 DEF WriteAheadInv, CurrentStored
  <2>5. ASSUME NEW c \in Caller, PublishReturns(c)
        PROVE  WriteAhead' /\ CurrentStored'
    <3>1. PICK n \in Nat : n = frame[c].n /\ Stored(n)
      BY <2>5 DEF PublishReturns, AppendReturns, WriteAheadInv, WrittenStored,
                  ServerTypeInv, TypeOK, LogTypeOK
    <3>2. carried' = Append(carried, n) /\ UNCHANGED <<received, powerMark, current>>
      BY <2>5, <3>1 DEF PublishReturns, Enqueue, fanoutVars, serverHist
    <3>3. ASSUME NEW e \in pending', carried'[e.seq + 1] # 0
          PROVE  Stored(carried[e.seq + 1])'
      <4>1. CASE e \in pending
        <5>1. carried'[e.seq + 1] = carried[e.seq + 1]
          BY <1>1, <3>2, <4>1
        <5> QED BY <2>3, <3>3, <4>1, <5>1
      <4>2. CASE e \notin pending
        <5>1. e.seq = arrivals
          BY <2>5, <3>3, <4>2 DEF PublishReturns, Enqueue, Router!Arrive
        <5>2. carried'[e.seq + 1] = n
          BY <1>1, <3>1, <3>2, <5>1
        <5> QED BY <2>2, <3>1, <5>2
      <4> QED BY <4>1, <4>2
    <3> QED BY <2>4, <2>a, <3>2, <3>3 DEF WriteAhead, CurrentStored
  <2>6. CASE PublishMetrics
    <3>1. carried' = Append(carried, 0) /\ UNCHANGED <<received, powerMark, current>>
      BY <2>6 DEF PublishMetrics, Enqueue, fanoutVars, serverHist
    <3>2. ASSUME NEW e \in pending', carried'[e.seq + 1] # 0
          PROVE  Stored(carried[e.seq + 1])'
      <4>1. CASE e \in pending
        <5>1. carried'[e.seq + 1] = carried[e.seq + 1]
          BY <1>1, <3>1, <4>1
        <5> QED BY <2>3, <3>2, <4>1, <5>1
      <4>2. CASE e \notin pending
        <5>1. e.seq = arrivals
          BY <2>6, <3>2, <4>2 DEF PublishMetrics, Enqueue, Router!Arrive
        <5>2. carried'[e.seq + 1] = 0
          BY <1>1, <3>1, <5>1
        <5> QED BY <3>2, <5>2
      <4> QED BY <4>1, <4>2
    <3> QED BY <2>4, <2>a, <3>1, <3>2 DEF WriteAhead, CurrentStored
  <2>b. ASSUME NEW n \in Nat, n > powerMark => Stored(n)', NEW d \in Caller, Send(d, n),
               NEW c \in Caller, NEW i \in DOMAIN received'[c], received'[c][i] > powerMark
        PROVE  Stored(received[c][i])'
    <3>1. received[c] \in Seq(Nat) /\ received'[c] \in {received[c], Append(received[c], n)}
      BY <1>1, <2>b DEF Send
    <3>2. (i \in DOMAIN received[c] /\ received'[c][i] = received[c][i]) \/ received'[c][i] = n
      <4>1. CASE received'[c] = received[c]
        BY <2>b, <4>1
      <4>2. CASE received'[c] = Append(received[c], n)
        <5>1. i \in 1..(Len(received[c]) + 1)
          BY <2>b, <3>1, <4>2
        <5>2. CASE i \in 1..Len(received[c])
          <6>1. Append(received[c], n)[i] = received[c][i] /\ i \in DOMAIN received[c]
            BY <3>1, <5>2
          <6> QED BY <4>2, <6>1
        <5>3. CASE i = Len(received[c]) + 1
          <6>1. Append(received[c], n)[i] = n
            BY <3>1, <5>3
          <6> QED BY <4>2, <6>1
        <5>4. Len(received[c]) \in Nat
          BY <3>1
        <5> QED BY <5>1, <5>2, <5>3, <5>4
      <4> QED BY <3>1, <4>1, <4>2
    <3> QED BY <2>4, <2>b, <3>2
  <2>7. ASSUME NEW e \in pending, Route(e)
        PROVE  WriteAhead' /\ CurrentStored'
    <3>1. /\ pending' = pending \ {e} /\ UNCHANGED <<carried, powerMark>>
          /\ current' = carried[e.seq + 1]
          /\ UNCHANGED received \/ \E d \in Caller : Send(d, current')
      <4>1. Registry!Subscribers(e.topic) \subseteq Caller
        BY DEF Registry!Subscribers, ServerTypeInv, TypeOK, Registry!RegistryTypeOK
      <4> QED BY <2>7, <4>1 DEF Route, Router!Serve
    <3>2. PICK n \in Nat : n = carried[e.seq + 1] /\ (n # 0 => Stored(n)')
      BY <2>3
    <3>3. n > powerMark => Stored(n)'
      BY <1>1, <3>2
    <3>4. ASSUME NEW c \in Caller, NEW i \in DOMAIN received'[c],
                 received'[c][i] > powerMark
          PROVE  Stored(received[c][i])'
      BY <2>4, <2>b, <3>1, <3>2, <3>3, <3>4
    <3> QED BY <2>3, <3>1, <3>2, <3>3, <3>4 DEF WriteAhead, CurrentStored
  <2>8. ASSUME NEW d \in Caller, Proceed(d)
        PROVE  WriteAhead' /\ CurrentStored'
    <3>1. Send(d, x) /\ UNCHANGED <<pending, carried, powerMark, current>>
      BY <2>a, <2>8 DEF Proceed, queueVars
    <3>2. ASSUME NEW c \in Caller, NEW i \in DOMAIN received'[c],
                 received'[c][i] > powerMark
          PROVE  Stored(received[c][i])'
      BY <2>a, <2>b, <3>1, <3>2
    <3> QED BY <2>3, <2>a, <3>1, <3>2 DEF WriteAhead, CurrentStored
  <2>9. ASSUME UNCHANGED <<carried, received, powerMark, current>>, pending' \subseteq pending
        PROVE  WriteAhead' /\ CurrentStored'
    BY <2>3, <2>4, <2>a, <2>9 DEF WriteAhead, CurrentStored
  <2>10. ASSUME NEW c \in Caller, LogAction(c), ~PublishReturns(c)
         PROVE  UNCHANGED <<pending, carried, received, powerMark, current>>
    <3>1. UNCHANGED <<pending, carried>>
      BY <2>10 DEF LogAction, HandleTimeTravel, HandlePublish, PublishFails, ReplayStep,
         ReplayRaises, AppendStep, queueVars
    <3> QED BY <2>10, <3>1, LogActionSteps
  <2>11. ASSUME QuietAction, ~PublishMetrics, ~\E e \in pending : Route(e),
                ~\E c \in Caller : Proceed(c)
         PROVE  UNCHANGED <<pending, carried, received, powerMark, current>>
    BY <2>11 DEF QuietAction, Start, Stop, RouterStops, Connect, HandlerEnds, RouterDrops,
       HandleSubscribe, FanoutCrashes, CutShort, Network, queueVars, fanoutVars, serverHist
  <2>12. CASE Kill
    <3>1. pending' = {} /\ UNCHANGED <<received, powerMark>> /\ current' = 0
      BY <2>12 DEF Kill, ProcessEnds
    <3> QED BY <1>1, <2>4, <3>1 DEF WriteAhead, CurrentStored
  <2> QED BY <1>3, <2>5, <2>6, <2>7, <2>8, <2>9, <2>10, <2>11, <2>12, NextKinds
          DEF vars, queueVars, fanoutVars, serverHist
<1> QED BY <1>2, <1>3

(* A message that is queued or that any client received from the router is *)
(* in the log, whole, through failed writes, kills and restarts; only what *)
(* was published before a power failure may be missing from it             *)
(* (broker/server.py:209-220).                                             *)
THEOREM LogBeforeDelivery == Spec => []WriteAhead
<1>1. Init => WriteAheadInv
  <2>1. DOMAIN << >> = {}
    OBVIOUS
  <2> QED BY <2>1 DEF Init, LogInit, Router!Init, WriteAheadInv, WriteAhead, WrittenStored,
             CurrentStored
<1>2. WriteAheadInv => WriteAhead
  BY DEF WriteAheadInv
<1>3. ServerTypeInv /\ ServerTypeInv' /\ WriteAheadInv /\ [Next]_vars => WriteAheadInv'
  BY WriteAheadKept, WrittenStoredKept DEF WriteAheadInv
<1> QED BY <1>1, <1>2, <1>3, ServerTypeInvariant, PTL DEF Spec

-----------------------------------------------------------------------------
(* Order in the log.                                                       *)

(* A cell belongs to a publish that was made; the cells of one publisher   *)
(* are in the order of its publishes; and the frame it is about to write   *)
(* is later than all it has written.                                       *)
CellsNumbered == \A i \in DOMAIN file : file[i].frame \in 1..frames

LogInOrder ==
  \A i, j \in DOMAIN file :
    i < j /\ message[file[i].frame].from = message[file[j].frame].from =>
      file[i].frame <= file[j].frame

OpenedIsLatest ==
  \A c \in Caller : phase[c] = "opened" =>
    \A i \in DOMAIN file : message[file[i].frame].from = c => file[i].frame < frame[c].n

LogOrderInv == CellsNumbered /\ LogInOrder /\ OpenedIsLatest

(* A publish that was made stays what it was.                              *)
LEMMA MessagesKept ==
  ASSUME ServerTypeInv, [Next]_vars
  PROVE  /\ frames \in Nat /\ frames' \in Nat /\ frames <= frames'
         /\ \A m \in 1..frames : message'[m] = message[m]
<1>1. frames \in Nat /\ Len(message) = frames /\ message \in Seq(Message)
  BY DEF ServerTypeInv, TypeOK, LogTypeOK, MessageInv
<1>2. CASE UNCHANGED <<frames, message>>
  BY <1>1, <1>2
<1>3. ASSUME NEW c \in Caller, NEW p \in Priority, NEW t \in Topic, NEW len \in FrameLen,
             HandlePublish(c, p, t, len)
      PROVE  frames' = frames + 1 /\ \A m \in 1..frames : message'[m] = message[m]
  BY <1>1, <1>3 DEF HandlePublish, OpenForAppend
<1>4. ASSUME NEW c \in Caller, LogAction(c),
             ~\E p \in Priority, t \in Topic, len \in FrameLen : HandlePublish(c, p, t, len)
      PROVE  UNCHANGED <<frames, message>>
  BY <1>4 DEF LogAction, HandleTimeTravel, PublishFails, PublishReturns, ReplayStep,
     ReplayRaises, AppendStep, serverHist, StartReplay, TearFrame, AppendReturns, ReadBatch,
     SeekFails, YieldFrame, AbandonReplay, WriteFrame
<1>5. CASE QuietAction \/ Kill \/ PowerFails \/ UNCHANGED vars
  <2>1. UNCHANGED <<frames, message>>
    BY <1>5, QuietActionKeeps, CrashFile DEF ProcessEnds, logVars, vars, serverHist
  <2> QED BY <1>2, <2>1
<1> QED BY <1>1, <1>2, <1>3, <1>4, <1>5, NextKinds

(* The file grows by cells of one frame whose append was under way and is  *)
(* not any more.                                                           *)
Writes(c) ==
  /\ phase[c] = "opened" /\ phase'[c] # "opened"
  /\ \A d \in Caller : phase'[d] = "opened" => phase[d] = "opened"
  /\ UNCHANGED <<frames, frame, message>>
  /\ \A i \in DOMAIN file' \ DOMAIN file : file'[i].frame = frame[c].n

(* The cells that a part of a frame adds are all that frame's.             *)
LEMMA PartFrames ==
  ASSUME file \in Seq(Cell), NEW n \in Nat, NEW len \in Nat, NEW k \in 0..len,
         file' = file \o SubSeq(Frame(n, len), 1, k)
  PROVE  \A i \in DOMAIN file' \ DOMAIN file : file'[i].frame = n
<1>1. /\ Grows /\ file' \in Seq(Cell) /\ Len(file') = Len(file) + k
      /\ \A i \in 1..k : file'[Len(file) + i] = [frame |-> n, at |-> i, len |-> len]
  BY PartGrows
<1>2. ASSUME NEW i \in DOMAIN file' \ DOMAIN file
      PROVE  file'[i].frame = n
  <2>1. i - Len(file) \in 1..k /\ Len(file) + (i - Len(file)) = i
    BY <1>1
  <2>2. file'[i] = [frame |-> n, at |-> i - Len(file), len |-> len]
    BY <1>1, <2>1
  <2> QED BY <2>2
<1> QED BY <1>2

(* A whole frame is the part of it that leaves nothing out.                *)
LEMMA WriteFrameAsPart ==
  ASSUME LogTypeInv, NEW c \in Caller, WriteFrame(c)
  PROVE  file' = file \o SubSeq(Frame(frame[c].n, frame[c].len), 1, frame[c].len)
<1> DEFINE whole == Frame(frame[c].n, frame[c].len)
<1>1. frame[c].n \in Nat /\ frame[c].len \in Nat
  BY DEF LogTypeInv, LogTypeOK
<1>2. whole \in Seq(Cell) /\ Len(whole) = frame[c].len
  BY <1>1, FrameCells
<1> HIDE DEF whole
<1>3. SubSeq(whole, 1, frame[c].len) = whole
  BY <1>2, SubSeqFull
<1> QED BY <1>3 DEF WriteFrame, whole

(* Without a power failure the file is left alone or written to by one     *)
(* handler.                                                                *)
LEMMA FileSteps ==
  ASSUME ServerTypeInv, [Next]_vars, ~PowerFails
  PROVE  UNCHANGED file \/ \E c \in Caller : Writes(c)
<1>1. /\ file \in Seq(Cell) /\ frame \in [Caller -> [n : Nat, len : Nat]] /\ LogTypeInv
      /\ phase \in [Caller -> Phase]
  BY DEF ServerTypeInv, TypeOK, LogTypeOK
<1>2. ASSUME NEW c \in Caller, AppendStep(c)
      PROVE  Writes(c)
  <2>1. file' = file \o SubSeq(Frame(frame[c].n, frame[c].len), 1, frame[c].len)
    BY <1>1, <1>2, WriteFrameAsPart DEF AppendStep
  <2>2. \A i \in DOMAIN file' \ DOMAIN file : file'[i].frame = frame[c].n
    <3>1. frame[c].n \in Nat /\ frame[c].len \in Nat /\ frame[c].len \in 0..frame[c].len
      BY <1>1
    <3> QED BY <1>1, <2>1, <3>1, PartFrames
  <2> QED BY <1>1, <1>2, <2>2 DEF AppendStep, WriteFrame, Writes, Goto, serverHist
<1>3. ASSUME NEW c \in Caller, PublishFails(c)
      PROVE  Writes(c)
  <2>1. PICK k \in 0..frame[c].len - 1 :
          file' = file \o SubSeq(Frame(frame[c].n, frame[c].len), 1, k)
    BY <1>3 DEF PublishFails, TearFrame
  <2>2. \A i \in DOMAIN file' \ DOMAIN file : file'[i].frame = frame[c].n
    <3>1. frame[c].n \in Nat /\ frame[c].len \in Nat /\ k \in 0..frame[c].len
      BY <1>1
    <3> QED BY <1>1, <2>1, <3>1, PartFrames
  <2> QED BY <1>1, <1>3, <2>2 DEF PublishFails, TearFrame, Writes, Goto, serverHist
<1>4. ASSUME NEW c \in Caller, LogAction(c), ~AppendStep(c), ~PublishFails(c)
      PROVE  UNCHANGED file
  BY <1>4 DEF LogAction, HandlePublish, HandleTimeTravel, PublishReturns, ReplayStep,
     ReplayRaises, OpenForAppend, StartReplay, AppendReturns, ReadBatch, SeekFails,
     YieldFrame, AbandonReplay
<1>5. CASE Kill
  <2>1. phase' = [c \in Caller |-> "idle"] /\ UNCHANGED <<frames, frame, message>>
    BY <1>5 DEF Kill, ProcessEnds
  <2>2. CASE UNCHANGED file
    BY <2>2
  <2>3. ASSUME NEW c \in Caller, NEW k \in 1..frame[c].len - 1, phase[c] = "opened",
               file' = file \o SubSeq(Frame(frame[c].n, frame[c].len), 1, k)
        PROVE  Writes(c)
    <3>1. frame[c].n \in Nat /\ frame[c].len \in Nat /\ k \in 0..frame[c].len
      BY <1>1
    <3>2. \A i \in DOMAIN file' \ DOMAIN file : file'[i].frame = frame[c].n
      BY <1>1, <2>3, <3>1, PartFrames
    <3> QED BY <2>1, <2>3, <3>2 DEF Writes
  <2> QED BY <1>5, <2>2, <2>3 DEF Kill
<1>6. CASE QuietAction \/ UNCHANGED vars
  BY <1>6, QuietActionKeeps DEF vars, logVars
<1> QED BY <1>2, <1>3, <1>4, <1>5, <1>6, NextKinds

(* The frames of one publisher stand in the file in the order it sent      *)
(* them.                                                                   *)
LEMMA NextLogOrder ==
  ASSUME ServerTypeInv, ServerTypeInv', LogOrderInv, [Next]_vars
  PROVE  LogOrderInv'
<1>1. /\ file \in Seq(Cell) /\ file' \in Seq(Cell) /\ frame \in [Caller -> [n : Nat, len : Nat]]
      /\ phase \in [Caller -> Phase]
  BY DEF ServerTypeInv, TypeOK, LogTypeOK
<1>2. /\ frames \in Nat /\ frames' \in Nat /\ frames <= frames'
      /\ \A m \in 1..frames : message'[m] = message[m]
  BY MessagesKept
<1>3. \A i \in DOMAIN file : file[i].frame \in 1..frames
  BY DEF LogOrderInv, CellsNumbered
<1>4. CASE PowerFails
  <2>1. PICK k \in 0..Len(file) : file' = SubSeq(file, 1, k)
    BY <1>4 DEF PowerFails
  <2>2. DOMAIN file' \subseteq DOMAIN file /\ \A i \in DOMAIN file' : file'[i] = file[i]
    BY <1>1, <2>1
  <2>3. \A c \in Caller : phase'[c] # "opened"
    BY <1>4 DEF PowerFails, ProcessEnds
  <2>4. CellsNumbered'
    BY <1>2, <1>3, <2>2 DEF CellsNumbered
  <2>5. LogInOrder'
    BY <1>2, <1>3, <2>2 DEF LogOrderInv, LogInOrder
  <2> QED BY <2>3, <2>4, <2>5 DEF LogOrderInv, OpenedIsLatest
<1>5. CASE UNCHANGED file
  <2>1. CellsNumbered'
    BY <1>2, <1>3, <1>5 DEF CellsNumbered
  <2>2. LogInOrder'
    BY <1>2, <1>3, <1>5 DEF LogOrderInv, LogInOrder
  <2>3. ASSUME NEW c \in Caller, phase'[c] = "opened", NEW i \in DOMAIN file,
               message[file[i].frame].from = c
        PROVE  file[i].frame < frame'[c].n
    <3>1. CASE phase[c] = "opened" /\ UNCHANGED frame[c]
      BY <2>3, <3>1 DEF LogOrderInv, OpenedIsLatest
    <3>2. CASE \E len \in FrameLen : OpenForAppend(c, len)
      <4>1. frame'[c].n = frames + 1
        BY <1>1, <3>2 DEF OpenForAppend
      <4> QED BY <1>2, <1>3, <4>1
    <3>3. ASSUME NEW d \in Caller, LogAction(d)
          PROVE  \/ phase[c] = "opened" /\ UNCHANGED frame[c]
                 \/ \E len \in FrameLen : OpenForAppend(c, len)
      BY <1>1, <2>3, <3>3, LogActionSteps DEF CallerStep, LogStep, OpenForAppend, StartReplay,
         WriteFrame, TearFrame, AppendReturns, ReadBatch, SeekFails, YieldFrame,
         AbandonReplay, Goto
    <3>4. ~Kill /\ ~PowerFails
      BY <2>3, CrashFile DEF ProcessEnds
    <3>5. CASE QuietAction \/ UNCHANGED vars
      <4>1. UNCHANGED <<phase, frame>>
        BY <3>5, QuietActionKeeps DEF vars, logVars, callVars
      <4> QED BY <2>3, <3>1, <4>1
    <3> QED BY <3>1, <3>2, <3>3, <3>4, <3>5, NextKinds
  <2>4. OpenedIsLatest'
    BY <1>2, <1>3, <1>5, <2>3 DEF OpenedIsLatest
  <2> QED BY <2>1, <2>2, <2>4 DEF LogOrderInv
<1>6. ASSUME NEW c \in Caller, Writes(c), Grows
      PROVE  LogOrderInv'
  <2>1. PICK n \in 1..frames : n = frame[c].n /\ message[n].from = c
    BY <1>6 DEF Writes, ServerTypeInv, MessageInv
  <2>2. /\ DOMAIN file \subseteq DOMAIN file' /\ \A i \in DOMAIN file : file'[i] = file[i]
        /\ \A i \in DOMAIN file, j \in DOMAIN file' \ DOMAIN file : i < j
    <3>1. /\ DOMAIN file = 1..Len(file) /\ DOMAIN file' = 1..Len(file')
          /\ Len(file) \in Nat /\ Len(file') \in Nat
      BY <1>1
    <3>2. Len(file) <= Len(file') /\ \A i \in 1..Len(file) : file'[i] = file[i]
      BY <1>6 DEF Grows
    <3>3. DOMAIN file \subseteq DOMAIN file'
      BY <3>1, <3>2
    <3>4. ASSUME NEW i \in DOMAIN file, NEW j \in DOMAIN file' \ DOMAIN file
          PROVE  i < j
      <4>1. i \in 1..Len(file) /\ j \in 1..Len(file') /\ ~(j \in 1..Len(file))
        BY <3>1
      <4> QED BY <3>1, <4>1
    <3> QED BY <3>1, <3>2, <3>3, <3>4
  <2>3. \A i \in DOMAIN file' \ DOMAIN file : file'[i].frame = n
    BY <1>6, <2>1 DEF Writes
  <2>4. UNCHANGED <<frames, frame, message>>
    BY <1>6 DEF Writes
  <2>5. CellsNumbered'
    BY <1>3, <2>1, <2>2, <2>3, <2>4 DEF CellsNumbered
  <2>6. \A i \in DOMAIN file : message[file[i].frame].from = c => file[i].frame < n
    BY <1>6, <2>1 DEF Writes, LogOrderInv, OpenedIsLatest
  <2>7. ASSUME NEW i \in DOMAIN file', NEW j \in DOMAIN file', i < j,
               message[file'[i].frame].from = message[file'[j].frame].from
        PROVE  file'[i].frame <= file'[j].frame
    <3>0. i \in Nat /\ j \in Nat /\ n \in Nat
      BY <1>1, <1>2
    <3>1. CASE j \in DOMAIN file
      <4>1. i \in DOMAIN file
        BY <1>1, <2>7, <3>1
      <4> QED BY <2>2, <2>7, <3>1, <4>1 DEF LogOrderInv, LogInOrder
    <3>2. CASE j \notin DOMAIN file
      <4>1. CASE i \in DOMAIN file
        BY <1>2, <1>3, <2>1, <2>2, <2>3, <2>6, <2>7, <3>2, <4>1
      <4>2. CASE i \notin DOMAIN file
        BY <2>3, <3>0, <3>2, <4>2
      <4> QED BY <4>1, <4>2
    <3> QED BY <3>1, <3>2
  <2>8. LogInOrder'
    BY <2>4, <2>7 DEF LogInOrder
  <2>9. OpenedIsLatest'
    <3>1. ASSUME NEW d \in Caller, phase'[d] = "opened", NEW i \in DOMAIN file',
                 message[file'[i].frame].from = d
          PROVE  file'[i].frame < frame[d].n
      <4>1. d # c /\ phase[d] = "opened"
        BY <1>6, <3>1 DEF Writes
      <4>2. i \in DOMAIN file
        BY <2>1, <2>3, <3>1, <4>1
      <4> QED BY <2>2, <3>1, <4>1, <4>2 DEF LogOrderInv, OpenedIsLatest
    <3> QED BY <2>4, <3>1 DEF OpenedIsLatest
  <2> QED BY <2>5, <2>8, <2>9 DEF LogOrderInv
<1> QED BY <1>4, <1>5, <1>6, FileSteps, StepGrows

-----------------------------------------------------------------------------
(* Order of delivery.                                                      *)

(* The queue takes the publishes of one stream in order, and its entries   *)
(* have the priority of what they carry; what a client has received of a   *)
(* stream is in order and earlier than what is pending of it; what is      *)
(* fanned out stands between the two; and a publish under way is later     *)
(* than all of its publisher that went into the queue or left it.          *)
CarriedInOrder ==
  \A i, j \in DOMAIN carried :
    i < j /\ SameStream(carried[i], carried[j]) => carried[i] < carried[j]

CarriedMatches ==
  \A e \in pending : carried[e.seq + 1] # 0 => message[carried[e.seq + 1]].pri = e.pri

ReceivedInOrder ==
  \A c \in Caller : \A i, j \in DOMAIN received[c] :
    i < j /\ SameStream(received[c][i], received[c][j]) => received[c][i] < received[c][j]

PendingAfterReceived ==
  \A c \in Caller : \A i \in DOMAIN received[c] : \A e \in pending :
    SameStream(received[c][i], carried[e.seq + 1]) => received[c][i] < carried[e.seq + 1]

CurrentBetween ==
  /\ \A e \in pending :
       SameStream(current, carried[e.seq + 1]) => current < carried[e.seq + 1]
  /\ \A c \in audience : \A i \in DOMAIN received[c] :
       SameStream(received[c][i], current) => received[c][i] < current

Busy(c) == phase[c] \in {"opened", "written"}
OfPublisher(c, m) == m # 0 /\ message[m].from = c

BusyIsLatest ==
  \A c \in Caller : Busy(c) =>
    /\ \A i \in DOMAIN carried : OfPublisher(c, carried[i]) => carried[i] < frame[c].n
    /\ \A d \in Caller : \A i \in DOMAIN received[d] :
         OfPublisher(c, received[d][i]) => received[d][i] < frame[c].n
    /\ OfPublisher(c, current) => current < frame[c].n

QueueOrderInv ==
  /\ CarriedInOrder /\ CarriedMatches /\ ReceivedInOrder /\ PendingAfterReceived
  /\ CurrentBetween /\ BusyIsLatest

(* A handler in the middle of an append goes on with its frame or has      *)
(* just taken a new number.                                                *)
LEMMA BusySteps ==
  ASSUME ServerTypeInv, [Next]_vars, NEW c \in Caller, Busy(c)'
  PROVE  \/ Busy(c) /\ UNCHANGED frame[c]
         \/ frame'[c].n = frames + 1
<1>1. /\ frame \in [Caller -> [n : Nat, len : Nat]] /\ phase \in [Caller -> Phase]
  BY DEF ServerTypeInv, TypeOK, LogTypeOK
<1>2. ASSUME NEW d \in Caller, LogAction(d)
      PROVE  \/ Busy(c) /\ UNCHANGED frame[c]
             \/ frame'[c].n = frames + 1
  BY <1>1, <1>2, LogActionSteps DEF CallerStep, LogStep, OpenForAppend, StartReplay,
     WriteFrame, TearFrame, AppendReturns, ReadBatch, SeekFails, YieldFrame, AbandonReplay,
     Goto, Busy
<1>3. ~Kill /\ ~PowerFails
  BY CrashFile DEF ProcessEnds, Busy
<1>4. CASE QuietAction \/ UNCHANGED vars
  <2>1. UNCHANGED <<phase, frame>>
    BY <1>4, QuietActionKeeps DEF vars, logVars, callVars
  <2> QED BY <2>1 DEF Busy
<1> QED BY <1>2, <1>3, <1>4, NextKinds

(* The publishes seen so far keep their publisher and priority.            *)
LEMMA StreamsKept ==
  ASSUME ServerTypeInv, [Next]_vars
  PROVE  /\ frames \in Nat
         /\ \A m, n \in 0..frames : SameStream(m, n)' <=> SameStream(m, n)
         /\ \A m \in 0..frames : \A c \in Caller : OfPublisher(c, m)' <=> OfPublisher(c, m)
         /\ \A m \in 0..frames : m # 0 => message'[m] = message[m]
<1>1. frames \in Nat /\ \A m \in 1..frames : message'[m] = message[m]
  BY MessagesKept
<1>2. \A m \in 0..frames : m # 0 => message'[m] = message[m]
  BY <1>1
<1> QED BY <1>1, <1>2 DEF SameStream, OfPublisher

(* The types of the router's queue that the order of messages needs.       *)
LEMMA QueueTypes ==
  ASSUME ServerTypeInv
  PROVE  /\ carried \in Seq(Nat) /\ Len(carried) = arrivals /\ arrivals \in Nat
         /\ \A i \in DOMAIN carried : carried[i] \in 0..frames
         /\ \A c \in Caller : received[c] \in Seq(Nat)
         /\ \A c \in Caller : \A i \in DOMAIN received[c] : received[c][i] \in 0..frames
         /\ \A e \in pending : /\ e \in Router!Entry /\ e.seq \in Nat /\ e.seq < arrivals
                                /\ e.seq + 1 \in DOMAIN carried
                                /\ carried[e.seq + 1] \in 0..frames
         /\ current \in 0..frames /\ audience \subseteq Caller
<1>1. /\ carried \in Seq(Nat) /\ Len(carried) = arrivals /\ arrivals \in Nat
      /\ \A i \in DOMAIN carried : carried[i] \in 0..frames
      /\ \A c \in Caller : received[c] \in Seq(Nat)
      /\ \A c \in Caller : \A i \in DOMAIN received[c] : received[c][i] \in 0..frames
      /\ pending \subseteq Router!Entry /\ \A e \in pending : e.seq < arrivals
      /\ current \in 0..frames /\ audience \subseteq Caller
  BY DEF ServerTypeInv, TypeOK, CarriedInv, Router!TypeOK
<1>2. \A e \in pending : e.seq \in Nat /\ e.seq < arrivals
  BY <1>1 DEF Router!Entry
<1>3. \A e \in pending : e.seq + 1 \in DOMAIN carried
  BY <1>1, <1>2
<1> QED BY <1>1, <1>2, <1>3

(* A handler's message is newer than all that were queued or delivered of  *)
(* its publisher, after every step that queues and delivers nothing.       *)
LEMMA BusyIsLatestKept ==
  ASSUME ServerTypeInv, BusyIsLatest, [Next]_vars, UNCHANGED received,
         UNCHANGED carried \/ carried' = << >>, current' \in {0, current}
  PROVE  BusyIsLatest'
<1>1. /\ frames \in Nat
      /\ \A m \in 0..frames : \A c \in Caller : OfPublisher(c, m)' <=> OfPublisher(c, m)
  BY StreamsKept
<1>2. /\ \A i \in DOMAIN carried : carried[i] \in 0..frames
      /\ \A c \in Caller : \A i \in DOMAIN received[c] : received[c][i] \in 0..frames
      /\ current \in 0..frames
  BY QueueTypes
<1>3. \A i \in DOMAIN carried' : i \in DOMAIN carried /\ carried'[i] = carried[i]
  OBVIOUS
<1>4. ASSUME NEW c \in Caller, Busy(c)'
      PROVE  /\ \A i \in DOMAIN carried' : OfPublisher(c, carried[i])' => carried'[i] < frame'[c].n
             /\ \A d \in Caller : \A i \in DOMAIN received'[d] :
                  OfPublisher(c, received[d][i])' => received'[d][i] < frame'[c].n
             /\ OfPublisher(c, current)' => current' < frame'[c].n
  <2>1. CASE Busy(c) /\ UNCHANGED frame[c]
    BY <1>1, <1>2, <1>3, <2>1 DEF BusyIsLatest, OfPublisher
  <2>2. CASE frame'[c].n = frames + 1
    BY <1>1, <1>2, <1>3, <2>2
  <2> QED BY <1>4, <2>1, <2>2, BusySteps
<1> QED BY <1>4 DEF BusyIsLatest

(* The queue and what was received stay, or the queue is gone; and so for  *)
(* the fan-out.                                                            *)
LEMMA OrderQuiet ==
  ASSUME ServerTypeInv, QueueOrderInv, [Next]_vars, UNCHANGED received,
         UNCHANGED <<pending, carried>> \/ (pending' = {} /\ carried' = << >>),
         current' \in {0, current}, audience' \subseteq audience
  PROVE  QueueOrderInv'
<1>1. /\ frames \in Nat
      /\ \A m, n \in 0..frames : SameStream(m, n)' <=> SameStream(m, n)
      /\ \A m \in 0..frames : m # 0 => message'[m] = message[m]
  BY StreamsKept
<1>2. /\ \A i \in DOMAIN carried : carried[i] \in 0..frames
      /\ \A c \in Caller : \A i \in DOMAIN received[c] : received[c][i] \in 0..frames
      /\ \A e \in pending : carried[e.seq + 1] \in 0..frames
      /\ current \in 0..frames /\ audience \subseteq Caller
  BY QueueTypes
<1>3. /\ \A i \in DOMAIN carried' : i \in DOMAIN carried /\ carried'[i] = carried[i]
      /\ \A e \in pending' : e \in pending /\ carried'[e.seq + 1] = carried[e.seq + 1]
  OBVIOUS
<1>4. CarriedInOrder'
  BY <1>1, <1>2, <1>3 DEF QueueOrderInv, CarriedInOrder, SameStream
<1>5. CarriedMatches'
  BY <1>1, <1>2, <1>3 DEF QueueOrderInv, CarriedMatches
<1>6. ReceivedInOrder'
  BY <1>1, <1>2 DEF QueueOrderInv, ReceivedInOrder, SameStream
<1>7. PendingAfterReceived'
  BY <1>1, <1>2, <1>3 DEF QueueOrderInv, PendingAfterReceived, SameStream
<1>8. BusyIsLatest'
  BY BusyIsLatestKept DEF QueueOrderInv
<1>9. CurrentBetween'
  BY <1>1, <1>2, <1>3 DEF QueueOrderInv, CurrentBetween, SameStream
<1> QED BY <1>4, <1>5, <1>6, <1>7, <1>8, <1>9 DEF QueueOrderInv

(* A message joins the queue: a metrics message, or a publish that is no   *)
(* longer under way.                                                       *)
LEMMA OrderEnqueue ==
  ASSUME ServerTypeInv, ServerTypeInv', QueueOrderInv, [Next]_vars,
         NEW p \in Priority, NEW t \in Topic, NEW n \in 0..frames, Enqueue(p, t, n),
         UNCHANGED <<received, message, frame, frames, current, audience>>,
         n = 0 \/ \E c \in Caller : /\ Busy(c) /\ ~Busy(c)' /\ n = frame[c].n
                                    /\ message[n].from = c /\ message[n].pri = p
                                    /\ \A d \in Caller \ {c} : phase'[d] = phase[d],
         n = 0 => UNCHANGED phase
  PROVE  QueueOrderInv'
<1>1. /\ carried \in Seq(Nat) /\ Len(carried) = arrivals /\ arrivals \in Nat
      /\ \A i \in DOMAIN carried : carried[i] \in 0..frames
      /\ \A c \in Caller : received[c] \in Seq(Nat)
      /\ \A c \in Caller : \A i \in DOMAIN received[c] : received[c][i] \in 0..frames
      /\ \A e \in pending : /\ e \in Router!Entry /\ e.seq \in Nat /\ e.seq < arrivals
                             /\ e.seq + 1 \in DOMAIN carried
                             /\ carried[e.seq + 1] \in 0..frames
      /\ current \in 0..frames
  BY QueueTypes
<1> DEFINE new == [pri |-> p, seq |-> arrivals, topic |-> t]
<1>2. /\ pending' = pending \cup {new} /\ new.seq = arrivals /\ new.pri = p
      /\ carried' = Append(carried, n)
  BY DEF Enqueue, Router!Arrive
<1> HIDE DEF new
<1>3. /\ DOMAIN carried = 1..arrivals /\ DOMAIN carried' = 1..arrivals + 1
      /\ \A i \in DOMAIN carried : carried'[i] = carried[i]
      /\ carried'[arrivals + 1] = n
  BY <1>1, <1>2
<1>4. \A m, k \in 0..frames : SameStream(m, k)' <=> SameStream(m, k)
  BY DEF SameStream
<1>5. n # 0 => /\ \A i \in DOMAIN carried : SameStream(carried[i], n) => carried[i] < n
               /\ \A c \in Caller : \A i \in DOMAIN received[c] :
                    SameStream(received[c][i], n) => received[c][i] < n
               /\ SameStream(current, n) => current < n
  BY DEF QueueOrderInv, BusyIsLatest, OfPublisher, SameStream
<1>6. ASSUME NEW i \in DOMAIN carried', NEW j \in DOMAIN carried', i < j,
             SameStream(carried'[i], carried'[j])
      PROVE  carried'[i] < carried'[j]
  <2>1. i \in DOMAIN carried /\ carried'[i] = carried[i]
    BY <1>1, <1>3, <1>6
  <2>2. CASE j \in DOMAIN carried
    BY <1>3, <1>6, <2>1, <2>2 DEF QueueOrderInv, CarriedInOrder
  <2>3. CASE j \notin DOMAIN carried
    <3>1. j = arrivals + 1
      BY <1>1, <1>3, <2>3
    <3> QED BY <1>3, <1>5, <1>6, <2>1, <3>1 DEF SameStream
  <2> QED BY <2>2, <2>3
<1>7. CarriedInOrder'
  BY <1>6 DEF CarriedInOrder, SameStream
<1>8. CarriedMatches'
  BY <1>1, <1>2, <1>3 DEF QueueOrderInv, CarriedMatches
<1>9. ReceivedInOrder'
  BY DEF QueueOrderInv, ReceivedInOrder, SameStream
<1>10. PendingAfterReceived'
  <2>1. ASSUME NEW c \in Caller, NEW i \in DOMAIN received[c], NEW e \in pending',
               SameStream(received[c][i], carried'[e.seq + 1])
        PROVE  received[c][i] < carried'[e.seq + 1]
    <3>1. CASE e \in pending
      BY <1>1, <1>3, <2>1, <3>1 DEF QueueOrderInv, PendingAfterReceived
    <3>2. CASE e \notin pending
      <4>1. carried'[e.seq + 1] = n
        BY <1>2, <1>3, <3>2
      <4> QED BY <1>5, <2>1, <4>1 DEF SameStream
    <3> QED BY <3>1, <3>2
  <2> QED BY <2>1 DEF PendingAfterReceived, SameStream
<1>11. BusyIsLatest'
  <2>1. ASSUME NEW c \in Caller, Busy(c)'
        PROVE  Busy(c) /\ (n # 0 => message[n].from # c)
    BY <2>1 DEF Busy
  <2>2. ASSUME NEW c \in Caller, Busy(c)', NEW i \in DOMAIN carried', OfPublisher(c, carried'[i])
        PROVE  carried'[i] < frame[c].n
    <3>1. CASE i \in DOMAIN carried
      BY <1>3, <2>1, <2>2, <3>1 DEF QueueOrderInv, BusyIsLatest
    <3>2. CASE i \notin DOMAIN carried
      <4>1. carried'[i] = n
        BY <1>1, <1>3, <3>2
      <4> QED BY <2>1, <2>2, <4>1 DEF OfPublisher
    <3> QED BY <3>1, <3>2
  <2> QED BY <2>1, <2>2 DEF QueueOrderInv, BusyIsLatest, OfPublisher
<1>12. CurrentBetween'
  <2>1. ASSUME NEW e \in pending', SameStream(current, carried'[e.seq + 1])
        PROVE  current < carried'[e.seq + 1]
    <3>1. CASE e \in pending
      BY <1>1, <1>3, <2>1, <3>1 DEF QueueOrderInv, CurrentBetween
    <3>2. CASE e \notin pending
      <4>1. carried'[e.seq + 1] = n
        BY <1>2, <1>3, <3>2
      <4> QED BY <1>5, <2>1, <4>1 DEF SameStream
    <3> QED BY <3>1, <3>2
  <2> QED BY <2>1 DEF QueueOrderInv, CurrentBetween, SameStream
<1> QED BY <1>7, <1>8, <1>9, <1>10, <1>11, <1>12 DEF QueueOrderInv

(* A message comes to clients that have nothing later of its stream, and   *)
(* goes on to clients of whom that is true; it is earlier than what is     *)
(* pending of its stream, and than what its publisher has under way.       *)
LEMMA OrderSend ==
  ASSUME ServerTypeInv, ServerTypeInv', QueueOrderInv, NEW x \in 0..frames,
         UNCHANGED <<phase, frame, message, carried>>, pending' \subseteq pending,
         current' = x,
         \A c \in Caller :
           \/ received'[c] = received[c]
           \/ /\ received'[c] = Append(received[c], x) /\ c \notin audience'
              /\ \A i \in DOMAIN received[c] :
                   SameStream(received[c][i], x) => received[c][i] < x,
         \A c \in audience' : \A i \in DOMAIN received[c] :
           SameStream(received[c][i], x) => received[c][i] < x,
         \A f \in pending' : SameStream(x, carried[f.seq + 1]) => x < carried[f.seq + 1],
         \A c \in Caller : Busy(c) /\ OfPublisher(c, x) => x < frame[c].n
  PROVE  QueueOrderInv'
<1>1. /\ \A c \in Caller : received[c] \in Seq(Nat)
      /\ x \in Nat /\ audience' \subseteq Caller
  <2>1. frames \in Nat /\ audience' \subseteq Caller
    BY DEF ServerTypeInv, TypeOK, LogTypeOK
  <2> QED BY <2>1, QueueTypes
<1>2. \A c \in Caller : received'[c] \in {received[c], Append(received[c], x)}
  OBVIOUS
<1>3. ASSUME NEW c \in Caller, NEW i \in DOMAIN received'[c]
      PROVE  (i \in DOMAIN received[c] /\ received'[c][i] = received[c][i])
               \/ (received'[c][i] = x /\ \A j \in DOMAIN received[c] : j < i)
  <2>1. received[c] \in Seq(Nat) /\ received'[c] \in {received[c], Append(received[c], x)}
    BY <1>1, <1>2
  <2>2. CASE received'[c] = received[c]
    BY <2>2
  <2>3. CASE received'[c] = Append(received[c], x)
    <3> DEFINE s == received[c]
    <3>1. s \in Seq(Nat) /\ i \in DOMAIN Append(s, x)
      BY <2>1, <2>3
    <3> HIDE DEF s
    <3>2. (i \in DOMAIN s /\ Append(s, x)[i] = s[i])
            \/ (Append(s, x)[i] = x /\ \A j \in DOMAIN s : j < i)
      BY <3>1
    <3> QED BY <2>3, <3>2 DEF s
  <2> QED BY <2>1, <2>2, <2>3
<1>4. ReceivedInOrder'
  <2>1. ASSUME NEW c \in Caller, NEW i \in DOMAIN received'[c], NEW j \in DOMAIN received'[c],
               i < j, SameStream(received'[c][i], received'[c][j])
        PROVE  received'[c][i] < received'[c][j]
    <3>1. i \in Nat /\ j \in Nat
      <4>1. received'[c] \in Seq(Nat)
        BY QueueTypes DEF ServerTypeInv, TypeOK
      <4> QED BY <4>1
    <3>2. CASE j \in DOMAIN received[c] /\ received'[c][j] = received[c][j]
      <4>1. i \in DOMAIN received[c] /\ received'[c][i] = received[c][i]
        <5>1. received[c] \in Seq(Nat)
          BY <1>1
        <5>2. i \in 1..Len(received[c])
          BY <2>1, <3>1, <3>2, <5>1, <1>3
        <5> QED BY <1>3, <2>1, <3>1, <3>2, <5>1, <5>2
      <4> QED BY <2>1, <3>2, <4>1 DEF QueueOrderInv, ReceivedInOrder
    <3>3. CASE received'[c][j] = x /\ \A k \in DOMAIN received[c] : k < j
      <4>1. CASE i \in DOMAIN received[c] /\ received'[c][i] = received[c][i]
        <5>1. j \in DOMAIN received'[c] /\ j \notin DOMAIN received[c]
          BY <2>1, <3>1, <3>3
        <5>2. received'[c] # received[c]
          BY <5>1
        <5> QED BY <2>1, <3>3, <4>1, <5>2
      <4>2. CASE received'[c][i] = x /\ \A k \in DOMAIN received[c] : k < i
        <5>1. received[c] \in Seq(Nat) /\ received'[c] \in {received[c], Append(received[c], x)}
          BY <1>1, <1>2
        <5>2. i \in DOMAIN received'[c] /\ i \notin DOMAIN received[c]
          BY <2>1, <3>1, <4>2
        <5>3. j \in DOMAIN received'[c] /\ j \notin DOMAIN received[c]
          BY <2>1, <3>1, <3>3
        <5>4. i = j
          <6> DEFINE s == received[c]
          <6>1. s \in Seq(Nat) /\ i \in DOMAIN Append(s, x) /\ j \in DOMAIN Append(s, x)
                /\ i \notin DOMAIN s /\ j \notin DOMAIN s
            BY <5>1, <5>2, <5>3
          <6> HIDE DEF s
          <6> QED BY <6>1
        <5> QED BY <2>1, <3>1, <5>4
      <4> QED BY <1>3, <4>1, <4>2
    <3> QED BY <1>3, <3>2, <3>3
  <2> QED BY <2>1 DEF ReceivedInOrder, SameStream
<1>5. CarriedInOrder' /\ CarriedMatches'
  BY DEF QueueOrderInv, CarriedInOrder, CarriedMatches, SameStream
<1>6. PendingAfterReceived'
  <2>1. ASSUME NEW c \in Caller, NEW i \in DOMAIN received'[c], NEW f \in pending',
               SameStream(received'[c][i], carried[f.seq + 1])
        PROVE  received'[c][i] < carried[f.seq + 1]
    BY <1>3, <2>1 DEF QueueOrderInv, PendingAfterReceived
  <2> QED BY <2>1 DEF PendingAfterReceived, SameStream
<1>7. CurrentBetween'
  <2>1. \A c \in audience' : received'[c] = received[c]
    BY <1>1
  <2> QED BY <2>1 DEF CurrentBetween, SameStream
<1>8. BusyIsLatest'
  <2>1. ASSUME NEW c \in Caller, Busy(c), NEW d \in Caller, NEW i \in DOMAIN received'[d],
               OfPublisher(c, received'[d][i])
        PROVE  received'[d][i] < frame[c].n
    BY <1>3, <2>1 DEF QueueOrderInv, BusyIsLatest
  <2> QED BY <2>1 DEF QueueOrderInv, BusyIsLatest, Busy, OfPublisher
<1> QED BY <1>4, <1>5, <1>6, <1>7, <1>8 DEF QueueOrderInv

(* The most urgent message goes to the first of its subscribers.           *)
LEMMA OrderRoute ==
  ASSUME ServerTypeInv, ServerTypeInv', QueueOrderInv, NEW e \in pending, Route(e)
  PROVE  QueueOrderInv'
<1>1. /\ carried \in Seq(Nat) /\ Len(carried) = arrivals /\ arrivals \in Nat
      /\ \A i \in DOMAIN carried : carried[i] \in 0..frames
      /\ \A f \in pending : /\ f \in Router!Entry /\ f.seq \in Nat /\ f.seq < arrivals
                             /\ f.seq + 1 \in DOMAIN carried
                             /\ carried[f.seq + 1] \in 0..frames
  BY QueueTypes
<1>2. PICK x \in 0..frames : x = carried[e.seq + 1]
  BY <1>1
<1>3. /\ pending' = pending \ {e} /\ Router!IsMostUrgent(e) /\ current' = x
      /\ UNCHANGED <<phase, frame, message, carried>>
  BY <1>2 DEF Route, Router!Serve, logVars, callVars
<1>4. ASSUME NEW f \in pending', SameStream(x, carried[f.seq + 1])
      PROVE  x < carried[f.seq + 1]
  <2>1. f \in pending /\ f # e /\ Router!Precedes(e, f)
    BY <1>3 DEF Router!IsMostUrgent
  <2>2. e.pri = f.pri
    BY <1>2, <1>4, <2>1 DEF QueueOrderInv, CarriedMatches, SameStream
  <2>3. e.pri \in 0..255 /\ f.pri \in 0..255
    BY <1>1, <2>1, PriorityIsByte DEF Router!Entry
  <2>4. e.seq < f.seq
    BY <2>1, <2>2, <2>3 DEF Router!Precedes
  <2> QED BY <1>1, <1>2, <1>4, <2>1, <2>4 DEF QueueOrderInv, CarriedInOrder
<1>5. \A c \in Caller : \A i \in DOMAIN received[c] :
        SameStream(received[c][i], x) => received[c][i] < x
  BY <1>2 DEF QueueOrderInv, PendingAfterReceived
<1>6. \A c \in Caller : Busy(c) /\ OfPublisher(c, x) => x < frame[c].n
  BY <1>1, <1>2 DEF QueueOrderInv, BusyIsLatest
<1>7. /\ audience' \subseteq Caller
      /\ \A c \in Caller : \/ received'[c] = received[c]
                           \/ received'[c] = Append(received[c], x) /\ c \notin audience'
  <2>1. received \in [Caller -> Seq(Nat)] /\ audience' \subseteq Caller
    BY DEF ServerTypeInv, TypeOK
  <2> QED BY <1>3, <2>1 DEF Route, Send
<1> QED BY <1>3, <1>4, <1>5, <1>6, <1>7, OrderSend

(* It goes on to the next one.                                             *)
LEMMA OrderProceed ==
  ASSUME ServerTypeInv, ServerTypeInv', QueueOrderInv, NEW d \in Caller, Proceed(d)
  PROVE  QueueOrderInv'
<1>1. PICK x \in 0..frames : x = current
  BY QueueTypes
<1>2. /\ UNCHANGED <<phase, frame, message, carried, pending, current>>
      /\ d \in audience /\ audience' = audience \ {d}
  BY DEF Proceed, logVars, callVars, queueVars
<1>3. \A c \in audience : \A i \in DOMAIN received[c] :
        SameStream(received[c][i], x) => received[c][i] < x
  BY <1>1 DEF QueueOrderInv, CurrentBetween
<1>4. \A f \in pending' : SameStream(x, carried[f.seq + 1]) => x < carried[f.seq + 1]
  BY <1>1, <1>2 DEF QueueOrderInv, CurrentBetween
<1>5. \A c \in Caller : Busy(c) /\ OfPublisher(c, x) => x < frame[c].n
  BY <1>1 DEF QueueOrderInv, BusyIsLatest
<1>6. \A c \in Caller : \/ received'[c] = received[c]
                        \/ received'[c] = Append(received[c], x) /\ c = d
  <2>1. received \in [Caller -> Seq(Nat)]
    BY DEF ServerTypeInv, TypeOK
  <2> QED BY <1>1, <2>1 DEF Proceed, Send
<1> QED BY <1>1, <1>2, <1>3, <1>4, <1>5, <1>6, OrderSend

(* The queue and the deliveries keep the order of each publisher.          *)
LEMMA NextQueueOrder ==
  ASSUME ServerTypeInv, ServerTypeInv', QueueOrderInv, [Next]_vars
  PROVE  QueueOrderInv'
<1>1. ASSUME NEW c \in Caller, PublishReturns(c)
      PROVE  QueueOrderInv'
  <2>1. /\ phase[c] = "written" /\ phase'[c] = "idle"
        /\ \A d \in Caller \ {c} : phase'[d] = phase[d]
        /\ UNCHANGED <<frames, frame, message, received, current, audience>>
    BY <1>1 DEF PublishReturns, AppendReturns, Goto, fanoutVars, serverHist, ServerTypeInv,
       TypeOK, LogTypeOK
  <2>2. PICK n \in 1..frames : n = frame[c].n /\ message[n].from = c
    BY <2>1 DEF ServerTypeInv, MessageInv
  <2>3. message[n] \in Message /\ n \in 0..frames /\ n # 0
    <3>1. message \in Seq(Message) /\ Len(message) = frames /\ frames \in Nat
      BY DEF ServerTypeInv, TypeOK, LogTypeOK, MessageInv
    <3> QED BY <2>2, <3>1, ElementOfSeq
  <2>4. PICK p \in Priority, t \in Topic : p = message[n].pri /\ t = message[n].topic
    BY <2>3 DEF Message
  <2>5. Enqueue(p, t, n)
    BY <1>1, <2>2, <2>4 DEF PublishReturns
  <2>6. Busy(c) /\ ~Busy(c)'
    BY <2>1 DEF Busy
  <2> QED BY <2>1, <2>2, <2>3, <2>4, <2>5, <2>6, OrderEnqueue
<1>2. CASE PublishMetrics
  <2>1. /\ Enqueue(TopPriority, MetricsTopic, 0)
        /\ UNCHANGED <<received, message, frame, frames, phase, current, audience>>
    BY <1>2 DEF PublishMetrics, logVars, callVars, fanoutVars, serverHist
  <2>2. 0 \in 0..frames
    BY DEF ServerTypeInv, TypeOK, LogTypeOK
  <2> QED BY <2>1, <2>2, OrderEnqueue, MetricsAssumption
<1>3. ASSUME NEW e \in pending, Route(e)
      PROVE  QueueOrderInv'
  BY <1>3, OrderRoute
<1>4. ASSUME NEW c \in Caller, Proceed(c)
      PROVE  QueueOrderInv'
  BY <1>4, OrderProceed
<1>5. ASSUME NEW c \in Caller, LogAction(c), ~PublishReturns(c)
      PROVE  UNCHANGED <<pending, carried, received, current, audience>>
  <2>1. UNCHANGED <<pending, carried>>
    BY <1>5 DEF LogAction, HandleTimeTravel, HandlePublish, PublishFails, ReplayStep,
       ReplayRaises, AppendStep, queueVars
  <2> QED BY <1>5, <2>1, LogActionSteps
<1>6. ASSUME QuietAction, ~PublishMetrics, ~\E e \in pending : Route(e),
             ~\E c \in Caller : Proceed(c)
      PROVE  UNCHANGED <<pending, carried, received, current>> /\ audience' \subseteq audience
  BY <1>6 DEF QuietAction, Start, Stop, RouterStops, Connect, HandlerEnds, RouterDrops,
     HandleSubscribe, FanoutCrashes, CutShort, Network, queueVars, fanoutVars, serverHist
<1>7. CASE Kill \/ PowerFails
  <2>1. /\ pending' = {} /\ carried' = << >> /\ UNCHANGED received
        /\ current' = 0 /\ audience' = {}
    BY <1>7, CrashFile DEF ProcessEnds
  <2> QED BY <2>1, OrderQuiet
<1>8. CASE UNCHANGED <<pending, carried, received, current>> /\ audience' \subseteq audience
  BY <1>8, OrderQuiet
<1> QED BY <1>1, <1>2, <1>3, <1>4, <1>5, <1>6, <1>7, <1>8, NextKinds
        DEF vars, queueVars, fanoutVars, serverHist

(* Two publishes of one client and one priority reach every subscriber in  *)
(* the order they were made, over any number of restarts, and all its      *)
(* publishes lie in the log in that order: a handler starts no append      *)
(* while one is under way, although the pool's threads reorder those of    *)
(* different handlers (broker/server.py:160-220).                          *)
THEOREM PublishersInOrder == Spec => []PublisherOrder
<1>1. Init => LogOrderInv /\ QueueOrderInv
  <2>1. DOMAIN << >> = {}
    OBVIOUS
  <2> QED BY <2>1 DEF Init, LogInit, Router!Init, LogOrderInv, CellsNumbered, LogInOrder,
             OpenedIsLatest, QueueOrderInv, CarriedInOrder, CarriedMatches,
             ReceivedInOrder, PendingAfterReceived, CurrentBetween, SameStream,
             BusyIsLatest, Busy
<1>2. LogOrderInv /\ QueueOrderInv => PublisherOrder
  BY DEF LogOrderInv, LogInOrder, QueueOrderInv, ReceivedInOrder, PublisherOrder
<1> QED BY <1>1, <1>2, NextLogOrder, NextQueueOrder, ServerTypeInvariant, PTL DEF Spec

-----------------------------------------------------------------------------
(* The replays of the handlers.                                            *)

(* The stretch that each replay yielded stays joined through every step.   *)
LEMMA ReplayServer ==
  ASSUME ServerTypeInv, ReplayInv, [Next]_vars
  PROVE  ReplayInv'
<1>1. ASSUME NEW c \in Caller, LogAction(c)
      PROVE  ReplayInv'
  BY <1>1, LogActionSteps, ReplayKept DEF ServerTypeInv
<1>2. CASE QuietAction \/ UNCHANGED vars
  <2>1. UNCHANGED logVars
    BY <1>2, QuietActionKeeps DEF vars
  <2> QED BY <2>1 DEF logVars, callVars, logHist, ReplayInv, ReplayAt, Joined, NextFrom
<1>3. CASE Kill \/ PowerFails
  <2>1. /\ \A c \in Caller : phase'[c] = "idle"
        /\ UNCHANGED <<yielded, start>>
    BY <1>3, CrashFile DEF ProcessEnds
  <2> QED BY <2>1 DEF ReplayInv, ReplayAt, Joined
<1> QED BY <1>1, <1>2, <1>3, NextKinds

(* A power failure that cuts the file where a frame begins leaves whole    *)
(* frames only.                                                            *)
LEMMA TiledPrefix ==
  ASSUME file \in Seq(Cell), Tiled, NEW k \in 0..Len(file), IsBoundary(k),
         file' = SubSeq(file, 1, k)
  PROVE  Tiled'
<1>1. /\ file' \in Seq(Cell) /\ Len(file') = k /\ \A i \in 1..k : file'[i] = file[i]
      /\ Len(file) \in Nat
  OBVIOUS
<1>2. ASSUME NEW i \in 1..k
      PROVE  /\ file'[i].at \in 1..file'[i].len /\ file'[i].at <= i
             /\ file'[i].len >= HeaderSize
             /\ StoredAt(file[i].frame, file[i].len, i - file[i].at)'
  <2>1. PICK m \in Nat, n \in Nat, at \in Nat : file[i] = [frame |-> m, at |-> at, len |-> n]
    <3>1. file[i] \in Cell
      BY <1>1
    <3> QED BY <3>1 DEF Cell
  <2>2. /\ at \in 1..n /\ at <= i /\ n >= HeaderSize /\ i \in 1..Len(file)
        /\ StoredAt(m, n, i - at) /\ i - at \in Nat
    BY <1>1, <2>1 DEF Tiled
  <2>3. PICK q \in Nat : q = i - at
    BY <2>2
  <2>4. /\ q + n <= Len(file)
        /\ \A j \in 1..n : file[q + j] = [frame |-> m, at |-> j, len |-> n]
    BY <2>2, <2>3, StoredCells
  <2>5. q + n <= k
    <3>1. SUFFICES ASSUME q + n > k PROVE FALSE
      BY <1>1, <2>3
    <3>2. PICK j \in 1..n : q + j = k + 1 /\ j # 1
      <4>1. k + 1 - q \in 1..n /\ q + (k + 1 - q) = k + 1 /\ k + 1 - q # 1
        BY <1>1, <2>2, <2>3, <3>1
      <4> QED BY <4>1
    <3>3. file[k + 1].at = j
      <4>1. file[q + j] = [frame |-> m, at |-> j, len |-> n]
        BY <2>4, <3>2
      <4> QED BY <3>2, <4>1
    <3>4. file[k + 1].at = 1
      BY <1>1, <2>4, <3>1 DEF IsBoundary
    <3> QED BY <3>2, <3>3, <3>4
  <2>6. \A j \in 1..n : q + j \in 1..k /\ file'[q + j] = [frame |-> m, at |-> j, len |-> n]
    BY <1>1, <2>3, <2>4, <2>5
  <2>7. SubSeq(file', q + 1, q + n) = [j \in 1..n |-> file'[q + j]]
    BY <1>1, <2>5
  <2>8. StoredAt(m, n, q)'
    BY <1>1, <2>5, <2>6, <2>7 DEF StoredAt, Frame
  <2> QED BY <1>1, <2>1, <2>2, <2>3, <2>8
<1> QED BY <1>1, <1>2 DEF Tiled

(* And complete, as long as no write is cut short.                         *)
LEMMA CompleteServer ==
  ASSUME ServerTypeInv, ServerTypeInv', ReplayInv, CompleteInv, [Next]_vars
  PROVE  CompleteInv'
<1>1. ASSUME NEW c \in Caller, LogAction(c)
      PROVE  CompleteInv'
  BY <1>1, LogActionSteps, CompleteKept DEF ServerTypeInv
<1>2. CASE QuietAction \/ UNCHANGED vars
  <2>1. UNCHANGED logVars
    BY <1>2, QuietActionKeeps DEF vars
  <2> QED BY <2>1 DEF logVars, callVars, logHist, CompleteInv, Tiled, Live, CompleteAt, Whole,
             WholeFrame, AtBoundary, IsBoundary, StoredAt, NextFrom
<1>3. CASE Kill \/ PowerFails
  <2>1. /\ \A c \in Caller : ~Live(c)'
        /\ torn \in Nat /\ file \in Seq(Cell) /\ ProcessEnds
    BY <1>3, CrashFile DEF ProcessEnds, Live, ServerTypeInv, TypeOK, LogTypeOK
  <2>2. ASSUME torn' = 0
        PROVE  Tiled'
    <3>1. CASE Kill
      <4>1. UNCHANGED <<file, torn>>
        BY <2>1, <2>2, <3>1 DEF Kill
      <4> QED BY <2>2, <4>1 DEF CompleteInv, Tiled, StoredAt
    <3>2. CASE PowerFails
      <4>1. PICK k \in 0..Len(file) :
              /\ file' = SubSeq(file, 1, k)
              /\ torn' = IF IsBoundary(k) THEN torn ELSE torn + 1
        BY <3>2 DEF PowerFails
      <4>2. IsBoundary(k) /\ torn = 0
        BY <2>1, <2>2, <4>1
      <4> QED BY <2>1, <4>1, <4>2, TiledPrefix DEF CompleteInv
    <3> QED BY <1>3, <3>1, <3>2
  <2> QED BY <2>1, <2>2 DEF CompleteInv
<1> QED BY <1>1, <1>2, <1>3, NextKinds

(* Whole frames that follow each other from the start of the file cover    *)
(* every cell before their end.                                            *)
LEMMA Coverage ==
  ASSUME file \in Seq(Cell), NEW y \in Pieces, Joined(y, 0),
         \A i \in DOMAIN y : Whole(y[i]),
         NEW o \in Nat, o < NextFrom(y, 0)
  PROVE  \E i \in DOMAIN y : y[i].from <= o /\ o < y[i].to
<1> DEFINE EndAt(k) == IF k = 0 THEN 0 ELSE y[k].to
           T == {k \in Nat : k <= Len(y) /\ o < EndAt(k) =>
                               \E i \in DOMAIN y : y[i].from <= o /\ o < y[i].to}
<1>1. /\ Len(y) \in Nat /\ DOMAIN y = 1..Len(y)
      /\ \A i \in DOMAIN y : y[i].from \in Nat /\ y[i].to \in Nat
  <2>1. Len(y) \in Nat /\ DOMAIN y = 1..Len(y)
    BY DEF Pieces
  <2>2. \A i \in DOMAIN y : y[i] \in [from : Nat, to : Nat]
    BY PieceType
  <2> QED BY <2>1, <2>2
<1>2. 0 \in T
  OBVIOUS
<1>3. ASSUME NEW k \in T
      PROVE  k + 1 \in T
  <2>1. SUFFICES ASSUME k + 1 <= Len(y), o < EndAt(k + 1)
                 PROVE  \E i \in DOMAIN y : y[i].from <= o /\ o < y[i].to
    OBVIOUS
  <2>2. k \in Nat /\ k + 1 \in DOMAIN y /\ EndAt(k + 1) = y[k + 1].to
    BY <1>1, <1>3, <2>1
  <2>3. y[k + 1].from = EndAt(k)
    BY <2>2 DEF Joined
  <2>4. CASE o < EndAt(k)
    <3>1. k <= Len(y)
      BY <1>1, <2>1, <2>2
    <3> QED BY <1>3, <2>4, <3>1
  <2>5. CASE ~(o < EndAt(k))
    <3>1. y[k + 1].from <= o /\ o < y[k + 1].to
      BY <1>1, <2>1, <2>2, <2>3, <2>5
    <3> QED BY <2>2, <3>1
  <2> QED BY <2>4, <2>5
<1>4. \A k \in Nat : k \in T
  <2>1. T \in SUBSET Nat
    OBVIOUS
  <2> HIDE DEF T
  <2> QED BY <1>2, <1>3, <2>1, SetInduction
<1>5. NextFrom(y, 0) = EndAt(Len(y))
  <2>1. y = << >> <=> Len(y) = 0
    BY EmptySeq DEF Pieces
  <2> QED BY <2>1 DEF NextFrom
<1> QED BY <1>1, <1>4, <1>5

-----------------------------------------------------------------------------
(* No gap between history and live messages.                               *)

(* A connection that does not exist yet has no handler and no replay.      *)
NewIsFresh ==
  \A c \in Caller : conn[c] = "new" => c \notin handling /\ ~Live(c) /\ ~Busy(c)

(* What append() acknowledged is in the log, save what a power failure     *)
(* took.                                                                   *)
AckedLogged ==
  \A a \in acked : a.n \in 1..frames /\ (a.n > powerMark => Stored(a.n))

CarriedTopics ==
  \A e \in pending : carried[e.seq + 1] # 0 => message[carried[e.seq + 1]].topic = e.topic

(* The client is connected, and its latest replay goes on or has ended;    *)
(* then each publish acknowledged is in the log before the point where the *)
(* file ended when the replay began, or came to the client, or is queued,  *)
(* or awaits the client's turn, or was cut short before it.                *)
InTouch(c) == c \in clients /\ conn[c] = "open" /\ Live(c)

Early(c, n) == \E o \in 1..start[c].size : o <= Len(file) /\ file[o].frame = n

(* Its turn in the fan-out of message n is still to come.                  *)
Awaits(c, n) == c \in audience /\ current = n

Reaches(c, n) ==
  Early(c, n) \/ Got(c, n) \/ Queued(n) \/ Awaits(c, n) \/ n \in lost[c]

NoneMissed(c) ==
  /\ subscribed[c] \subseteq topics[c]
  /\ \A a \in acked : a.n > powerMark /\ message[a.n].topic \in subscribed[c] => Reaches(c, a.n)

ReachInv == \A c \in Caller : InTouch(c) => NoneMissed(c)

GapInv == NewIsFresh /\ AckedLogged /\ CarriedTopics /\ ReachInv

(* A connection that is new has no handler and no replay, after every      *)
(* step.                                                                   *)
LEMMA FreshKept ==
  ASSUME ServerTypeInv, NewIsFresh, [Next]_vars
  PROVE  NewIsFresh'
<1>1. /\ conn \in [Caller -> Registry!ConnState] /\ phase \in [Caller -> Phase]
      /\ ended \in [Caller -> BOOLEAN]
  BY DEF ServerTypeInv, TypeOK, LogTypeOK, Registry!RegistryTypeOK
<1>2. ASSUME NEW c \in Caller, LogAction(c)
      PROVE  NewIsFresh'
  <2>1. CallerStep(c) /\ (Ready(c) \/ Live(c) \/ Busy(c))
    BY <1>2, LogActionSteps DEF LogAction, HandleTimeTravel, HandlePublish, PublishFails,
       PublishReturns, ReplayStep, ReplayRaises, AppendStep, TearFrame, AppendReturns,
       ReadBatch, SeekFails, YieldFrame, AbandonReplay, WriteFrame, Live, Busy
  <2>2. conn[c] # "new"
    BY <2>1 DEF NewIsFresh, Ready
  <2>3. /\ handling' \subseteq handling
        /\ \A d \in Caller : conn'[d] = "new" => conn[d] = "new"
    BY <1>1, <1>2 DEF LogAction, HandleTimeTravel, HandlePublish, PublishFails,
       PublishReturns, ReplayStep, ReplayRaises, AppendStep, Leave, Registry!Unregister,
       registryVars
  <2>4. \A d \in Caller \ {c} : UNCHANGED <<phase[d], ended[d]>>
    BY <1>1, <2>1 DEF CallerStep, LogStep, OpenForAppend, StartReplay, WriteFrame, TearFrame,
       AppendReturns, ReadBatch, SeekFails, YieldFrame, AbandonReplay, Goto, logHist
  <2> QED BY <2>2, <2>3, <2>4 DEF NewIsFresh, Live, Busy
<1>3. CASE QuietAction
  <2>1. UNCHANGED <<phase, ended>>
    BY <1>3, QuietActionKeeps DEF logVars, callVars, logHist
  <2>2. \A d \in Caller :
          conn'[d] = "new" => conn[d] = "new" /\ (d \in handling' => d \in handling)
    BY <1>1, <1>3 DEF QuietAction, Start, Stop, RouterStops, Connect, HandlerEnds,
       RouterDrops, Proceed, FanoutCrashes, HandleSubscribe, PublishMetrics, Route, Network,
       Leave, Registry!Unregister, Registry!Register, Registry!Subscribe, Registry!Lose,
       Registry!CloseCompletes, Registry!registryVars, Registry!transportVars, registryVars
  <2> QED BY <2>1, <2>2 DEF NewIsFresh, Live, Busy
<1>4. CASE Kill \/ PowerFails
  BY <1>4, CrashFile DEF ProcessEnds, NewIsFresh, Live, Busy
<1>5. CASE UNCHANGED vars
  BY <1>5 DEF vars, logVars, callVars, logHist, registryVars, NewIsFresh, Live, Busy
<1> QED BY <1>2, <1>3, <1>4, <1>5, NextKinds

(* A publish is acknowledged when its frame is in the log, and the router  *)
(* has it by then.                                                         *)
LEMMA AckedSteps ==
  ASSUME ServerTypeInv, [Next]_vars, NEW a \in acked', a \notin acked
  PROVE  \E c \in Caller : PublishReturns(c) /\ a.n = frame[c].n
<1>1. ASSUME NEW c \in Caller, LogAction(c)
      PROVE  PublishReturns(c) /\ a.n = frame[c].n
  <2>1. AppendReturns(c) /\ a.n = frame[c].n
    BY <1>1, LogActionSteps DEF CallerStep, LogStep, OpenForAppend, StartReplay, WriteFrame,
       TearFrame, AppendReturns, ReadBatch, SeekFails, YieldFrame, AbandonReplay, logHist
  <2>2. phase[c] = "written"
    BY <2>1 DEF AppendReturns
  <2>3. PublishReturns(c)
    BY <1>1, <2>2 DEF LogAction, HandlePublish, HandleTimeTravel, Ready, PublishFails,
       ReplayStep, ReplayRaises, AppendStep, TearFrame, ReadBatch, SeekFails, YieldFrame,
       AbandonReplay, WriteFrame
  <2> QED BY <2>1, <2>3
<1>2. ~(QuietAction \/ Kill \/ PowerFails \/ UNCHANGED vars)
  BY QuietActionKeeps, CrashFile DEF ProcessEnds, vars, logVars, logHist
<1> QED BY <1>1, <1>2, NextKinds

(* What append() acknowledged stays in the log, but for a power failure.   *)
LEMMA AckedKept ==
  ASSUME ServerTypeInv, ServerTypeInv', WrittenStored, AckedLogged, [Next]_vars
  PROVE  AckedLogged'
<1>1. frames \in Nat /\ frames' \in Nat /\ frames <= frames'
  BY MessagesKept
<1>2. ASSUME NEW a \in acked'
      PROVE  a.n \in 1..frames' /\ (a.n > powerMark' => Stored(a.n)')
  <2>1. PICK n : n = a.n
    OBVIOUS
  <2>2. n \in 1..frames /\ (n > powerMark => Stored(n))
    <3>1. CASE a \in acked
      BY <2>1, <3>1 DEF AckedLogged
    <3>2. CASE a \notin acked
      <4>1. PICK c \in Caller : PublishReturns(c) /\ a.n = frame[c].n
        BY <3>2, AckedSteps
      <4> QED BY <2>1, <4>1 DEF PublishReturns, AppendReturns, ServerTypeInv, MessageInv,
                 WrittenStored
    <3> QED BY <3>1, <3>2
  <2>3. CASE PowerFails
    <3>1. powerMark' = frames /\ frames' = frames
      BY <2>3 DEF PowerFails, ProcessEnds
    <3> QED BY <1>1, <2>1, <2>2, <3>1
  <2>4. CASE ~PowerFails
    <3>1. Grows /\ file \in Seq(Cell) /\ file' \in Seq(Cell)
      BY <2>4, StepGrows DEF ServerTypeInv, TypeOK, LogTypeOK
    <3>2. Stored(n) => Stored(n)'
      BY <1>1, <2>2, <3>1, StoredKept
    <3>3. UNCHANGED powerMark
      BY <2>4, NextKinds, LogActionSteps, QuietActionKeeps DEF Kill, vars, serverHist
    <3> QED BY <1>1, <2>1, <2>2, <3>2, <3>3
  <2> QED BY <2>3, <2>4
<1> QED BY <1>2 DEF AckedLogged

(* An entry of the queue has the topic of the message it carries.          *)
LEMMA CarriedTopicsKept ==
  ASSUME ServerTypeInv, CarriedTopics, [Next]_vars
  PROVE  CarriedTopics'
<1>1. /\ carried \in Seq(Nat) /\ Len(carried) = arrivals /\ arrivals \in Nat
      /\ \A e \in pending : e.seq + 1 \in DOMAIN carried /\ carried[e.seq + 1] \in 0..frames
  BY QueueTypes
<1>2. /\ frames \in Nat /\ \A m \in 0..frames : m # 0 => message'[m] = message[m]
  BY StreamsKept
<1>3. ASSUME NEW p, NEW t, NEW n, Enqueue(p, t, n), n = 0 \/ message'[n].topic = t
      PROVE  CarriedTopics'
  <2> DEFINE new == [pri |-> p, seq |-> arrivals, topic |-> t]
  <2>1. /\ pending' = pending \cup {new} /\ new.seq = arrivals /\ new.topic = t
        /\ carried' = Append(carried, n)
    BY <1>3 DEF Enqueue, Router!Arrive
  <2> HIDE DEF new
  <2>2. /\ \A i \in DOMAIN carried : carried'[i] = carried[i]
        /\ carried'[arrivals + 1] = n
    BY <1>1, <2>1
  <2> QED BY <1>1, <1>2, <1>3, <2>1, <2>2 DEF CarriedTopics
<1>4. ASSUME NEW c \in Caller, PublishReturns(c)
      PROVE  CarriedTopics'
  <2>1. LET m == message[frame[c].n] IN Enqueue(m.pri, m.topic, frame[c].n)
    BY <1>4 DEF PublishReturns
  <2>2. UNCHANGED message
    BY <1>4 DEF PublishReturns, serverHist
  <2> QED BY <1>3, <2>1, <2>2
<1>5. CASE PublishMetrics
  BY <1>3, <1>5 DEF PublishMetrics
<1>6. CASE pending' \subseteq pending /\ (UNCHANGED carried \/ pending' = {})
  BY <1>1, <1>2, <1>6 DEF CarriedTopics
<1>7. ASSUME NEW c \in Caller, LogAction(c), ~PublishReturns(c)
      PROVE  UNCHANGED <<pending, carried>>
  BY <1>7 DEF LogAction, HandleTimeTravel, HandlePublish, PublishFails, ReplayStep,
     ReplayRaises, AppendStep, queueVars
<1>8. ASSUME QuietAction, ~PublishMetrics
      PROVE  pending' \subseteq pending /\ UNCHANGED carried
  BY <1>8 DEF QuietAction, Start, Stop, RouterStops, Connect, HandlerEnds, RouterDrops,
     Proceed, FanoutCrashes, HandleSubscribe, Route, Router!Serve, Network, queueVars
<1>9. Kill \/ PowerFails => pending' = {}
  BY CrashFile DEF ProcessEnds
<1> QED BY <1>4, <1>5, <1>6, <1>7, <1>8, <1>9, NextKinds DEF vars, queueVars

-----------------------------------------------------------------------------
(* A client that was in touch keeps its subscriptions, and its replay keeps*)
(* its beginning.                                                          *)
LEMMA TouchSteps ==
  ASSUME ServerTypeInv, NewIsFresh, [Next]_vars, NEW c \in Caller, InTouch(c)',
         ~\E o \in StartOffset : HandleTimeTravel(c, o)
  PROVE  /\ InTouch(c) /\ UNCHANGED <<start[c], subscribed[c], powerMark>>
         /\ topics[c] \subseteq topics'[c] /\ ~Kill /\ ~PowerFails
<1>1. /\ conn \in [Caller -> Registry!ConnState] /\ phase \in [Caller -> Phase]
      /\ ended \in [Caller -> BOOLEAN] /\ start \in [Caller -> [at : Nat, size : Nat]]
      /\ subscribed \in [Caller -> SUBSET Topic] /\ topics \in [Caller -> SUBSET Topic]
  BY DEF ServerTypeInv, TypeOK, LogTypeOK, Registry!RegistryTypeOK
<1>2. ~Kill /\ ~PowerFails
  BY CrashFile DEF ProcessEnds, InTouch, Live
<1>3. ASSUME NEW d \in Caller, LogAction(d)
      PROVE  /\ Live(c) /\ UNCHANGED <<start[c], subscribed[c], powerMark>>
             /\ c \in clients /\ conn[c] = "open" /\ UNCHANGED topics
  <2>1. c \in clients /\ conn[c] = "open" /\ UNCHANGED topics
    BY <1>1, <1>3 DEF InTouch, LogAction, HandleTimeTravel, HandlePublish, PublishFails,
       PublishReturns, ReplayStep, ReplayRaises, AppendStep, Leave, Registry!Unregister,
       registryVars
  <2>2. UNCHANGED <<subscribed[c], powerMark>>
    BY <1>1, <1>3 DEF LogAction, HandleTimeTravel, HandlePublish, PublishFails,
       PublishReturns, ReplayStep, ReplayRaises, AppendStep, serverHist
  <2>3. CallerStep(d) /\ ~\E o \in StartOffset : StartReplay(c, o)
    <3>1. CallerStep(d)
      BY <1>3, LogActionSteps
    <3>2. ASSUME NEW o \in StartOffset, StartReplay(c, o)
          PROVE  FALSE
      <4>1. phase[c] = "idle" /\ phase'[c] = "reading"
        BY <1>1, <3>2 DEF StartReplay, Goto
      <4>2. ASSUME NEW k \in StartOffset, HandleTimeTravel(d, k)
            PROVE  FALSE
        <5>1. d # c
          BY <4>2
        <5> QED BY <1>1, <4>1, <4>2, <5>1 DEF HandleTimeTravel, StartReplay, Goto
      <4>3. ASSUME \/ \E p \in Priority, t \in Topic, len \in FrameLen : HandlePublish(d, p, t, len)
                   \/ PublishFails(d) \/ PublishReturns(d) \/ AppendStep(d)
            PROVE  FALSE
        BY <1>1, <4>1, <4>3 DEF HandlePublish, PublishFails, PublishReturns, AppendStep,
           OpenForAppend, WriteFrame, TearFrame, AppendReturns, Goto
      <4>4. ASSUME ReplayStep(d) \/ ReplayRaises(d)
            PROVE  FALSE
        BY <1>1, <4>1, <4>4 DEF ReplayStep, ReplayRaises, ReadBatch, SeekFails, YieldFrame,
           AbandonReplay, Goto
      <4> QED BY <1>3, <4>2, <4>3, <4>4 DEF LogAction
    <3> QED BY <3>1, <3>2
  <2>4. Live(c) /\ UNCHANGED start[c]
    BY <1>1, <2>3 DEF InTouch, Live, CallerStep, LogStep, OpenForAppend, StartReplay,
       WriteFrame, TearFrame, AppendReturns, ReadBatch, SeekFails, YieldFrame,
       AbandonReplay, Goto, logHist
  <2> QED BY <2>1, <2>2, <2>4
<1>4. CASE QuietAction
  <2>1. UNCHANGED <<phase, ended, start, subscribed, powerMark>>
    BY <1>4, QuietActionKeeps DEF logVars, callVars, logHist
  <2>2. Live(c)
    BY <2>1 DEF InTouch, Live
  <2>3. conn[c] # "new"
    BY <2>2 DEF NewIsFresh
  <2>4. c \in clients /\ conn[c] = "open" /\ topics[c] \subseteq topics'[c]
    BY <1>1, <1>4, <2>3 DEF InTouch, QuietAction, Start, Stop, RouterStops, Connect,
       HandlerEnds, RouterDrops, Proceed, FanoutCrashes, HandleSubscribe, PublishMetrics,
       Route, Network, Leave, Registry!Unregister, Registry!Register, Registry!Subscribe, Registry!Lose,
       Registry!CloseCompletes, Registry!registryVars, Registry!transportVars, registryVars
  <2> QED BY <1>2, <2>1, <2>2, <2>4 DEF InTouch
<1>5. CASE UNCHANGED vars
  BY <1>2, <1>5 DEF vars, logVars, callVars, logHist, registryVars, serverHist, InTouch, Live
<1> QED BY <1>2, <1>3, <1>4, <1>5, NextKinds DEF InTouch

(* A queued message stays queued until the router serves it.               *)
LEMMA QueuedSteps ==
  ASSUME ServerTypeInv, [Next]_vars, ~Kill, ~PowerFails, NEW n, Queued(n)
  PROVE  Queued(n)' \/ \E e \in pending : Route(e) /\ carried[e.seq + 1] = n
<1>1. /\ carried \in Seq(Nat) /\ Len(carried) = arrivals /\ arrivals \in Nat
      /\ \A e \in pending : e.seq + 1 \in DOMAIN carried
  BY QueueTypes
<1>2. PICK e \in pending : carried[e.seq + 1] = n
  BY DEF Queued
<1>3. ASSUME NEW p, NEW t, NEW m \in Nat, Enqueue(p, t, m)
      PROVE  Queued(n)'
  <2>1. /\ pending \subseteq pending' /\ carried' = Append(carried, m)
    BY <1>3 DEF Enqueue, Router!Arrive
  <2>2. carried'[e.seq + 1] = carried[e.seq + 1]
    BY <1>1, <2>1
  <2> QED BY <1>2, <2>1, <2>2 DEF Queued
<1>4. ASSUME NEW c \in Caller, PublishReturns(c)
      PROVE  Queued(n)'
  <2>1. LET m == message[frame[c].n] IN Enqueue(m.pri, m.topic, frame[c].n)
    BY <1>4 DEF PublishReturns
  <2>2. frame[c].n \in Nat
    BY DEF ServerTypeInv, TypeOK, LogTypeOK
  <2> QED BY <1>3, <2>1, <2>2
<1>5. CASE PublishMetrics
  BY <1>3, <1>5 DEF PublishMetrics
<1>6. ASSUME NEW f \in pending, Route(f)
      PROVE  Queued(n)' \/ \E g \in pending : Route(g) /\ carried[g.seq + 1] = n
  <2>1. pending' = pending \ {f} /\ UNCHANGED carried
    BY <1>6 DEF Route, Router!Serve
  <2> QED BY <1>2, <1>6, <2>1 DEF Queued
<1>7. CASE UNCHANGED <<pending, carried>>
  BY <1>2, <1>7 DEF Queued
<1>8. ASSUME NEW c \in Caller, LogAction(c), ~PublishReturns(c)
      PROVE  UNCHANGED <<pending, carried>>
  BY <1>8 DEF LogAction, HandleTimeTravel, HandlePublish, PublishFails, ReplayStep,
     ReplayRaises, AppendStep, queueVars
<1>9. ASSUME QuietAction, ~PublishMetrics, ~\E f \in pending : Route(f)
      PROVE  UNCHANGED <<pending, carried>>
  BY <1>9 DEF QuietAction, Start, Stop, RouterStops, Connect, HandlerEnds, RouterDrops,
     Proceed, FanoutCrashes, HandleSubscribe, Network, queueVars
<1> QED BY <1>4, <1>5, <1>6, <1>7, <1>8, <1>9, NextKinds DEF vars, queueVars

(* What a subscriber received stays received,                              *)
LEMMA SentKept ==
  ASSUME received \in [Caller -> Seq(Nat)], NEW d \in Caller, NEW m \in Nat, Send(d, m),
         NEW c \in Caller, NEW n, Got(c, n)
  PROVE  Got(c, n)'
<1>1. PICK i \in DOMAIN received[c] : received[c][i] = n
  BY DEF Got
<1>2. received'[c] \in {received[c], Append(received[c], m)}
  BY DEF Send
<1> DEFINE s == received[c]
<1>3. s \in Seq(Nat) /\ i \in DOMAIN s /\ s[i] = n
  BY <1>1
<1> HIDE DEF s
<1>4. i \in DOMAIN Append(s, m) /\ Append(s, m)[i] = n
  BY <1>3
<1>5. i \in DOMAIN received'[c] /\ received'[c][i] = n
  BY <1>2, <1>3, <1>4 DEF s
<1> QED BY <1>5 DEF Got

(* through every step.                                                     *)
LEMMA GotKept ==
  ASSUME ServerTypeInv, [Next]_vars, NEW c \in Caller, NEW n, Got(c, n)
  PROVE  Got(c, n)'
<1>1. /\ received \in [Caller -> Seq(Nat)] /\ current \in Nat
      /\ \A e \in pending : carried[e.seq + 1] \in Nat
  <2>1. frames \in Nat
    BY StreamsKept
  <2> QED BY <2>1, QueueTypes DEF ServerTypeInv, TypeOK
<1>2. ASSUME NEW e \in pending, Route(e)
      PROVE  Got(c, n)'
  <2>1. PICK m \in Nat : m = carried[e.seq + 1]
    BY <1>1
  <2>2. \/ UNCHANGED received
        \/ \E d \in Caller : Send(d, m)
    BY <1>2, <2>1 DEF Route, Registry!Subscribers, ServerTypeInv, TypeOK,
       Registry!RegistryTypeOK
  <2> QED BY <1>1, <2>2, SentKept DEF Got
<1>3. ASSUME NEW d \in Caller, Proceed(d)
      PROVE  Got(c, n)'
  <2>1. Send(d, current)
    BY <1>3 DEF Proceed
  <2> QED BY <1>1, <2>1, SentKept
<1>4. CASE UNCHANGED received
  BY <1>4 DEF Got
<1>5. ASSUME NEW d \in Caller, LogAction(d)
      PROVE  UNCHANGED received
  BY <1>5, LogActionSteps
<1>6. ASSUME QuietAction, ~\E e \in pending : Route(e), ~\E d \in Caller : Proceed(d)
      PROVE  UNCHANGED received
  BY <1>6 DEF QuietAction, Start, Stop, RouterStops, Connect, HandlerEnds, RouterDrops,
     FanoutCrashes, HandleSubscribe, PublishMetrics, Network, serverHist
<1>7. Kill \/ PowerFails => UNCHANGED received
  BY CrashFile DEF ProcessEnds
<1> QED BY <1>2, <1>3, <1>4, <1>5, <1>6, <1>7, NextKinds DEF vars, serverHist

(* A message written to an open transport comes to its client.             *)
LEMMA SentIsGot ==
  ASSUME received \in [Caller -> Seq(Nat)], NEW c \in Caller, conn[c] = "open",
         NEW n \in Nat, Send(c, n)
  PROVE  Got(c, n)'
<1>1. received'[c] = Append(received[c], n)
  BY DEF Send
<1> DEFINE s == received[c]
<1>2. s \in Seq(Nat)
  OBVIOUS
<1> HIDE DEF s
<1>3. Len(s) + 1 \in DOMAIN Append(s, n) /\ Append(s, n)[Len(s) + 1] = n
  BY <1>2
<1> QED BY <1>1, <1>3 DEF Got, s

(* A message the router pops while the client is subscribed is written to  *)
(* it, or is to be.                                                        *)
LEMMA RouteReaches ==
  ASSUME ServerTypeInv, CarriedTopics, NEW e \in pending, Route(e), NEW c \in Caller,
         c \in clients, conn[c] = "open", NEW n \in 1..frames, carried[e.seq + 1] = n,
         message[n].topic \in topics[c]
  PROVE  Got(c, n)' \/ Awaits(c, n)'
<1>1. received \in [Caller -> Seq(Nat)] /\ n \in Nat
  BY DEF ServerTypeInv, TypeOK, LogTypeOK
<1>2. e.topic = message[n].topic /\ n # 0 /\ current' = n
  BY DEF CarriedTopics, Route
<1>3. c \in Registry!Subscribers(e.topic)
  BY <1>2 DEF Registry!Subscribers
<1>4. PICK d \in Registry!Subscribers(e.topic) :
        Send(d, n) /\ audience' = Registry!Subscribers(e.topic) \ {d}
  BY <1>2, <1>3 DEF Route
<1>5. CASE d = c
  BY <1>1, <1>4, <1>5, SentIsGot
<1>6. CASE d # c
  BY <1>2, <1>3, <1>4, <1>6 DEF Awaits
<1> QED BY <1>5, <1>6

(* A client's turn comes, or the fan-out is cut short before it.           *)
LEMMA AwaitsSteps ==
  ASSUME ServerTypeInv, [Next]_vars, ~Kill, ~PowerFails, NEW c \in Caller, conn[c] = "open",
         NEW n, Awaits(c, n)
  PROVE  Awaits(c, n)' \/ Got(c, n)' \/ n \in lost'[c]
<1>1. /\ received \in [Caller -> Seq(Nat)] /\ current \in Nat
      /\ lost \in [Caller -> SUBSET Nat] /\ c \in audience /\ n = current
  BY DEF ServerTypeInv, TypeOK, Awaits
<1>2. CASE UNCHANGED <<current, audience>>
  BY <1>2 DEF Awaits
<1>3. ASSUME NEW d \in Caller, Proceed(d)
      PROVE  Awaits(c, n)' \/ Got(c, n)'
  <2>1. Send(d, current) /\ audience' = audience \ {d} /\ UNCHANGED current
    BY <1>3 DEF Proceed
  <2>2. CASE d = c
    BY <1>1, <2>1, <2>2, SentIsGot
  <2>3. CASE d # c
    BY <1>1, <2>1, <2>3 DEF Awaits
  <2> QED BY <2>2, <2>3
<1>4. CASE FanoutCrashes \/ RouterStops
  BY <1>1, <1>4 DEF FanoutCrashes, RouterStops, CutShort
<1>5. ~\E e \in pending : Route(e)
  BY <1>1 DEF Route
<1>6. ASSUME NEW d \in Caller, LogAction(d)
      PROVE  UNCHANGED <<current, audience>>
  BY <1>6, LogActionSteps
<1>7. ASSUME QuietAction, ~\E d \in Caller : Proceed(d), ~FanoutCrashes, ~RouterStops
      PROVE  UNCHANGED <<current, audience>>
  BY <1>5, <1>7 DEF QuietAction, Start, Stop, Connect, HandlerEnds, RouterDrops,
     HandleSubscribe, PublishMetrics, Network, fanoutVars
<1> QED BY <1>2, <1>3, <1>4, <1>6, <1>7, NextKinds DEF vars, fanoutVars

(* What was cut short is on record until the client replays again.         *)
LEMMA LostKept ==
  ASSUME ServerTypeInv, [Next]_vars, ~Kill, ~PowerFails, NEW c \in Caller,
         ~\E o \in StartOffset : HandleTimeTravel(c, o)
  PROVE  lost[c] \subseteq lost'[c]
<1>1. lost \in [Caller -> SUBSET Nat]
  BY DEF ServerTypeInv, TypeOK
<1>2. ASSUME NEW d \in Caller, LogAction(d)
      PROVE  lost[c] \subseteq lost'[c]
  BY <1>1, <1>2 DEF LogAction, HandleTimeTravel, HandlePublish, PublishFails, PublishReturns,
     ReplayStep, ReplayRaises, AppendStep, fanoutVars
<1>3. CASE QuietAction
  BY <1>1, <1>3 DEF QuietAction, Start, Stop, RouterStops, CutShort, Connect, HandlerEnds,
     RouterDrops, Proceed, Route, FanoutCrashes, HandleSubscribe, PublishMetrics, Network,
     fanoutVars
<1> QED BY <1>2, <1>3, NextKinds DEF vars, fanoutVars

(* A message before the point where the file ended at the start of a       *)
(* replay stays before it.                                                 *)
LEMMA EarlyKept ==
  ASSUME file \in Seq(Cell), Grows, NEW c \in Caller, UNCHANGED start[c],
         start[c].size \in Nat, file' \in Seq(Cell), NEW n, Early(c, n)
  PROVE  Early(c, n)'
<1>1. PICK o \in 1..start[c].size : o <= Len(file) /\ file[o].frame = n
  BY DEF Early
<1>2. o \in 1..Len(file) /\ o <= Len(file')
  BY <1>1 DEF Grows
<1>3. file'[o] = file[o]
  BY <1>2 DEF Grows
<1> QED BY <1>1, <1>2, <1>3 DEF Early

(* An acknowledged publish is queued at once.                              *)
LEMMA AckedQueued ==
  ASSUME ServerTypeInv, [Next]_vars, NEW a \in acked', a \notin acked
  PROVE  Queued(a.n)'
<1>1. PICK c \in Caller : PublishReturns(c) /\ a.n = frame[c].n
  BY AckedSteps
<1>2. PICK n \in Nat : n = a.n /\ n = frame[c].n
  BY <1>1 DEF ServerTypeInv, TypeOK, LogTypeOK
<1>3. /\ carried \in Seq(Nat) /\ Len(carried) = arrivals /\ arrivals \in Nat
  BY QueueTypes
<1>4. carried' = Append(carried, n) /\ \E e \in pending' : e.seq = arrivals
  <2> DEFINE new == [pri |-> message[n].pri, seq |-> arrivals, topic |-> message[n].topic]
  <2>1. new \in pending' /\ carried' = Append(carried, n)
    BY <1>1, <1>2 DEF PublishReturns, Enqueue, Router!Arrive
  <2>2. new.seq = arrivals
    OBVIOUS
  <2> QED BY <2>1, <2>2
<1>5. carried'[arrivals + 1] = n
  BY <1>3, <1>4
<1> QED BY <1>2, <1>4, <1>5 DEF Queued

(* A client in touch misses nothing that was acknowledged, after every     *)
(* step.                                                                   *)
LEMMA ReachKept ==
  ASSUME ServerTypeInv, ServerTypeInv', GapInv, [Next]_vars
  PROVE  ReachInv'
<1>1. /\ file \in Seq(Cell) /\ file' \in Seq(Cell) /\ frames \in Nat
      /\ \A c \in Caller : start[c].size \in Nat
  BY DEF ServerTypeInv, TypeOK, LogTypeOK
<1>2. \A m \in 1..frames : message'[m] = message[m]
  BY MessagesKept
<1>3. ASSUME NEW c \in Caller, InTouch(c)', ~\E o \in StartOffset : HandleTimeTravel(c, o)
      PROVE  NoneMissed(c)'
  <2>1. /\ InTouch(c) /\ UNCHANGED <<start[c], subscribed[c], powerMark>>
        /\ topics[c] \subseteq topics'[c] /\ ~Kill /\ ~PowerFails
    BY <1>3, TouchSteps DEF GapInv
  <2>2. Grows
    BY <2>1, StepGrows
  <2>3. NoneMissed(c)
    BY <2>1 DEF GapInv, ReachInv
  <2>4. ASSUME NEW a \in acked', a.n > powerMark', message'[a.n].topic \in subscribed'[c]
        PROVE  Reaches(c, a.n)'
    <3>1. CASE a \notin acked
      BY <3>1, AckedQueued DEF Reaches
    <3>2. CASE a \in acked
      <4>1. PICK n \in 1..frames : n = a.n
        BY <3>2 DEF GapInv, AckedLogged
      <4>2. message[n].topic \in subscribed[c] /\ n > powerMark
        BY <1>2, <2>1, <2>4, <4>1
      <4>3. Reaches(c, n)
        BY <2>3, <3>2, <4>1, <4>2 DEF NoneMissed
      <4>4. CASE Early(c, n)
        <5>1. Early(c, n)'
          BY <1>1, <2>1, <2>2, <4>4, EarlyKept
        <5> QED BY <4>1, <5>1 DEF Reaches
      <4>5. CASE Got(c, n)
        <5>1. Got(c, n)'
          BY <4>5, GotKept
        <5> QED BY <4>1, <5>1 DEF Reaches
      <4>6. CASE Queued(n)
        <5>1. CASE Queued(n)'
          BY <4>1, <5>1 DEF Reaches
        <5>2. ASSUME NEW e \in pending, Route(e), carried[e.seq + 1] = n
              PROVE  Got(c, n)' \/ Awaits(c, n)'
          <6>1. c \in clients /\ conn[c] = "open" /\ message[n].topic \in topics[c]
            BY <2>1, <2>3, <4>2 DEF InTouch, NoneMissed
          <6> QED BY <5>2, <6>1, RouteReaches DEF GapInv
        <5> QED BY <2>1, <4>1, <4>6, <5>1, <5>2, QueuedSteps DEF Reaches
      <4>7. CASE Awaits(c, n)
        <5>1. Awaits(c, n)' \/ Got(c, n)' \/ n \in lost'[c]
          BY <2>1, <4>7, AwaitsSteps DEF InTouch
        <5> QED BY <4>1, <5>1 DEF Reaches
      <4>8. CASE n \in lost[c]
        <5>1. n \in lost'[c]
          BY <1>3, <2>1, <4>8, LostKept
        <5> QED BY <4>1, <5>1 DEF Reaches
      <4> QED BY <4>3, <4>4, <4>5, <4>6, <4>7, <4>8 DEF Reaches
    <3> QED BY <3>1, <3>2
  <2>5. subscribed'[c] \subseteq topics'[c]
    BY <2>1, <2>3 DEF NoneMissed
  <2> QED BY <2>4, <2>5 DEF NoneMissed
<1>4. ASSUME NEW c \in Caller, InTouch(c)', NEW o \in StartOffset, HandleTimeTravel(c, o)
      PROVE  NoneMissed(c)'
  <2>1. /\ start'[c].size = Len(file)
        /\ UNCHANGED <<file, topics, clients, acked, message, powerMark>>
        /\ subscribed'[c] = IF c \in clients THEN topics[c] ELSE {}
    BY <1>4 DEF HandleTimeTravel, StartReplay, ServerTypeInv, TypeOK, LogTypeOK, registryVars
  <2>2. ASSUME NEW a \in acked, a.n > powerMark
        PROVE  Early(c, a.n)'
    <3>1. PICK n \in Nat : n = a.n /\ Stored(n)
      BY <1>1, <2>2 DEF GapInv, AckedLogged
    <3>2. PICK q \in 0..Len(file) - 1 : file[q + 1].frame = n
      BY <3>1 DEF Stored
    <3>3. q + 1 \in 1..start'[c].size /\ q + 1 <= Len(file')
      BY <1>1, <2>1, <3>2
    <3>4. file'[q + 1].frame = n
      BY <2>1, <3>2
    <3> QED BY <3>1, <3>3, <3>4 DEF Early
  <2> QED BY <2>1, <2>2 DEF NoneMissed, Reaches
<1> QED BY <1>3, <1>4 DEF ReachInv

(* One step keeps everything the gap property rests on.                    *)
LEMMA NextGap ==
  ASSUME ServerTypeInv, ServerTypeInv', WrittenStored, GapInv, [Next]_vars
  PROVE  GapInv'
BY FreshKept, AckedKept, CarriedTopicsKept, ReachKept DEF GapInv

(* A replay that ended covers what was in the log when it began.           *)
LEMMA ReplayedEarly ==
  ASSUME ServerTypeInv, ReplayInv, CompleteInv, torn = 0, NEW c \in Caller, HasReplayedAll(c),
         NEW n, Early(c, n)
  PROVE  Replayed(c, n)
<1>1. /\ file \in Seq(Cell) /\ yielded[c] \in Pieces /\ Len(file) \in Nat
      /\ start[c].size \in Nat
  BY DEF ServerTypeInv, TypeOK, LogTypeOK, Pieces
<1>2. Tiled /\ CompleteAt(c) /\ ended[c] /\ start[c].at = 0
  BY DEF CompleteInv, Live, HasReplayedAll
<1>3. IsBoundary(0)
  <2>1. CASE Len(file) = 0
    BY <2>1 DEF IsBoundary
  <2>2. CASE Len(file) # 0
    <3>1. 1 \in 1..Len(file)
      BY <1>1, <2>2
    <3>2. file[1] \in Cell /\ file[1].at \in 1..file[1].len /\ file[1].at <= 1
      BY <1>1, <1>2, <3>1 DEF Tiled
    <3>3. file[0 + 1].at = 1
      BY <3>2 DEF Cell
    <3> QED BY <1>1, <2>2, <3>3 DEF IsBoundary
  <2> QED BY <2>1, <2>2
<1> DEFINE y == yielded[c]
<1>4. /\ \A i \in DOMAIN y : Whole(y[i])
      /\ NextFrom(y, 0) >= start[c].size /\ Joined(y, 0) /\ y \in Pieces
  BY <1>1, <1>2, <1>3 DEF CompleteAt, ReplayInv, ReplayAt
<1>5. PICK o \in Nat : o < start[c].size /\ file[o + 1].frame = n
  <2>1. PICK p \in 1..start[c].size : file[p].frame = n
    BY DEF Early
  <2>2. p - 1 \in Nat /\ p - 1 < start[c].size /\ (p - 1) + 1 = p
    BY <1>1, <2>1
  <2> QED BY <2>1, <2>2
<1>6. o < NextFrom(y, 0)
  <2>1. NextFrom(y, 0) \in Nat
    BY <1>4, NextFromType
  <2> QED BY <1>1, <1>4, <1>5, <2>1
<1>7. PICK i \in DOMAIN y : y[i].from <= o /\ o < y[i].to
  <2> HIDE DEF y
  <2> QED BY <1>1, <1>4, <1>5, <1>6, Coverage
<1>8. y[i] \in [from : Nat, to : Nat] /\ Whole(y[i])
  BY <1>4, PieceType
<1>9. PICK from \in Nat, to \in Nat : from = y[i].from /\ to = y[i].to
  BY <1>8
<1>10. /\ from <= o /\ o < to /\ to <= Len(file)
       /\ StoredAt(file[from + 1].frame, to - from, from)
  BY <1>7, <1>8, <1>9 DEF Whole, WholeFrame
<1>11. PICK m \in Nat, len \in Nat : m = file[from + 1].frame /\ len = to - from
  <2>1. from + 1 \in 1..Len(file) /\ to - from \in Nat
    BY <1>1, <1>10
  <2>2. file[from + 1] \in Cell
    BY <1>1, <2>1
  <2> QED BY <2>1, <2>2 DEF Cell
<1>12. \A j \in 1..len : file[from + j] = [frame |-> m, at |-> j, len |-> len]
  BY <1>1, <1>10, <1>11, StoredCells
<1>13. o + 1 - from \in 1..len /\ from + (o + 1 - from) = o + 1
  BY <1>10, <1>11
<1>14. PICK j \in 1..len : from + j = o + 1
  BY <1>13
<1>15. file[o + 1].frame = m
  <2>1. file[from + j] = [frame |-> m, at |-> j, len |-> len]
    BY <1>12, <1>14
  <2> QED BY <1>14, <2>1
<1> QED BY <1>5, <1>7, <1>9, <1>11, <1>15 DEF Replayed

(* A client that subscribes and then replays the log from its start is     *)
(* dealt with for every publish of its topics that completes: one that     *)
(* ended before the replay began is in the part of the file it reads; one  *)
(* that ends later is written to it, or is in the heap, or awaits the      *)
(* client's turn in the fan-out (broker/server.py:206-245,                 *)
(* broker/router.py:94-127).  Publishes in flight, kills and restarts fall *)
(* nowhere between.  The theorem does not say that the message arrives:    *)
(* what is in the heap stays there when stop() ends the worker, and        *)
(* "lost" are the messages popped since the replay began whose fan-out an  *)
(* exception or stop() cut short before the client's turn                  *)
(* (broker/router.py:59-64, 100-102).  Nor does it speak of what a power   *)
(* failure took from the log.                                              *)
THEOREM NoGapAfterSubscribing == Spec => []SubscribeThenReplayHasNoGap
<1>1. Init => WrittenStored /\ GapInv /\ ReplayInv /\ CompleteInv
  <2>1. ASSUME Init
        PROVE  WrittenStored /\ GapInv
    BY <2>1 DEF Init, LogInit, Router!Init, Registry!RegistryInit, WrittenStored, GapInv,
       NewIsFresh, AckedLogged, CarriedTopics, ReachInv, InTouch, Live, Busy
  <2> QED BY <2>1, InitReplay, InitComplete DEF Init
<1>2. ASSUME ServerTypeInv, GapInv, ReplayInv, CompleteInv
      PROVE  SubscribeThenReplayHasNoGap
  <2>1. ASSUME torn = 0, NEW c \in Caller, HasReplayedAll(c), NEW t \in subscribed[c],
               NEW a \in acked, a.n > powerMark, message[a.n].topic = t
        PROVE  Replayed(c, a.n) \/ Got(c, a.n) \/ Coming(c, a.n) \/ a.n \in lost[c]
    <3>1. InTouch(c)
      BY <2>1 DEF HasReplayedAll, InTouch, Live
    <3>2. Early(c, a.n) \/ Got(c, a.n) \/ Coming(c, a.n) \/ a.n \in lost[c]
      BY <1>2, <2>1, <3>1 DEF GapInv, ReachInv, NoneMissed, Reaches, Awaits, Coming
    <3> QED BY <1>2, <2>1, <3>2, ReplayedEarly
  <2> QED BY <2>1 DEF SubscribeThenReplayHasNoGap, MissesNothing
<1> QED BY <1>1, <1>2, ServerTypeInvariant, WrittenStoredKept, NextGap, ReplayServer,
           CompleteServer, PTL DEF Spec
=============================================================================
