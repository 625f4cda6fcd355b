---------------------------- MODULE BrokerServer ----------------------------
(***************************************************************************)
(* broker/server.py: the connection handlers that dispatch SUBSCRIBE,      *)
(* PUBLISH and TIME_TRAVEL frames, the metrics task, start() and stop(),   *)
(* and a kill of the process, over the log of EventLog, the registry of    *)
(* ConnectionRegistry and the router as QoSQueue promises it.  Its fan-out *)
(* goes from subscriber to subscriber here too, and may be cut short; how  *)
(* the worker waits, times out and recovers is in PriorityRouter.          *)
(*                                                                         *)
(* The state is lifted to one variable per attribute; an action is what a  *)
(* task or a pool thread does between two awaits.                          *)
(***************************************************************************)
EXTENDS EventLog, FiniteSets

CONSTANTS
  Topic,          \* topic identifiers
  MetricsTopic,   \* topic_hash("broker/metrics")
  Priority,       \* the priority byte of a frame
  Publisher,      \* the connections whose client publishes
  Watcher,        \* the connections whose client subscribes and replays
  MaxTicks,       \* bound on the metrics messages
  MaxKills        \* bound on the kills and power failures

TopPriority == 255

ASSUME MetricsAssumption == MetricsTopic \in Topic /\ TopPriority \in Priority
ASSUME PriorityIsByte    == Priority \subseteq 0..255
ASSUME ClientAssumption  == Publisher \cup Watcher \subseteq Caller
ASSUME ServerBounds == MaxTicks \in Nat /\ MaxKills \in Nat

VARIABLES
  clients, topics,              \* ConnectionRegistry._clients
  conn, buffered,               \* the transports
  pending, arrivals, served,    \* the router
  current,     \* the number of the message that is being fanned out
  audience,    \* its subscribers that are not written to yet
  mode,        \* "down", "up", in stop() "closing", then "stopped"
  handling,    \* the connections with a _handle_client task in its loop
  processed,   \* messages_processed
  latest,      \* latest_offset
  ticks, kills,
  powerMark    \* History: the frames begun by the latest power failure

(* History: every PUBLISH received, by frame number; what each queue entry *)
(* carries (0 for metrics); the messages that reached each client from the *)
(* router; the messages whose fan-out was cut short before the client's    *)
(* turn, since its latest replay began; the topics it had subscribed then; *)
(* the sum of the throughputs reported and the publishes completed.        *)
VARIABLES message, carried, received, lost, subscribed, reported, completed

registryVars == <<clients, topics, conn, buffered>>
queueVars    == <<pending, arrivals, served, carried>>
fanoutVars   == <<current, audience, lost>>
metricVars   == <<processed, latest, ticks, reported, completed>>
serverHist   == <<message, received, subscribed, powerMark>>
vars == <<logVars, registryVars, queueVars, fanoutVars, mode, handling,
          metricVars, kills, serverHist>>

Registry == INSTANCE ConnectionRegistry WITH Client <- Caller
Router   == INSTANCE QoSQueue WITH MaxArrivals <- MaxFrames + MaxTicks

Message == [from : Caller, pri : Priority, topic : Topic]

Init ==
  /\ LogInit /\ Registry!RegistryInit /\ Router!Init
  /\ mode = "down" /\ handling = {}
  /\ current = 0 /\ audience = {} /\ lost = [c \in Caller |-> {}]
  /\ processed = 0 /\ latest = 0 /\ ticks = 0 /\ kills = 0
  /\ message = << >> /\ carried = << >>
  /\ received   = [c \in Caller |-> << >>]
  /\ subscribed = [c \in Caller |-> {}]
  /\ reported = 0 /\ completed = 0 /\ powerMark = 0

Enqueue(p, t, n) ==
  /\ Router!Arrive(p, t)
  /\ carried' = Append(carried, n)

-----------------------------------------------------------------------------
(* start() and stop().                                                     *)

Start ==
  /\ mode = "down"
  /\ mode' = "up"
  /\ UNCHANGED <<logVars, registryVars, queueVars, handling, metricVars,
                 fanoutVars, kills, serverHist>>

(* stop() up to wait_closed(): no more metrics and no more connections.    *)
Stop ==
  /\ mode = "up"
  /\ mode' = "closing"
  /\ UNCHANGED <<logVars, registryVars, queueVars, handling, metricVars,
                 fanoutVars, kills, serverHist>>

(* The rest of the list is not written to.                                 *)
CutShort ==
  /\ lost' = [c \in Caller |-> IF c \in audience THEN lost[c] \cup {current}
                                                 ELSE lost[c]]
  /\ audience' = {}
  /\ UNCHANGED current

(* stop() goes on to router.stop(), which cancels the worker wherever it   *)
(* is; what is in the heap stays there.  The handlers still go on.         *)
RouterStops ==
  /\ mode = "closing"
  /\ mode' = "stopped"
  /\ CutShort
  /\ UNCHANGED <<logVars, registryVars, queueVars, handling, metricVars, kills,
                 serverHist>>

(* The process ends: what was in memory is gone, every connection is lost. *)
(* The next start() finds the file as it is.                               *)
ProcessEnds ==
  /\ kills < MaxKills
  /\ kills' = kills + 1
  /\ mode'  = "down"
  /\ phase' = [c \in Caller |-> "idle"]
  /\ batch' = [c \in Caller |-> << >>]
  /\ ended' = [c \in Caller |-> FALSE]
  /\ handling' = {} /\ clients' = {}
  /\ conn' = [c \in Caller |-> IF conn[c] = "new" THEN "new" ELSE "lost"]
  /\ pending' = {} /\ arrivals' = 0 /\ served' = << >> /\ carried' = << >>
  /\ current' = 0 /\ audience' = {} /\ lost' = [c \in Caller |-> {}]
  /\ processed' = 0 /\ latest' = 0 /\ reported' = 0 /\ completed' = 0
  /\ UNCHANGED <<frames, frame, offset, acked, start, yielded, topics,
                 buffered, ticks, message, received, subscribed>>

(* After stop(), or by a kill at any moment; a write in flight may leave a *)
(* part of its frame.                                                      *)
Kill ==
  /\ mode # "down"
  /\ ProcessEnds
  /\ \/ UNCHANGED <<file, torn>>
     \/ \E c \in Caller : \E k \in 1..frame[c].len - 1 :
          /\ phase[c] = "opened" /\ torn < MaxTorn
          /\ torn' = torn + 1
          /\ file' = file \o SubSeq(Frame(frame[c].n, frame[c].len), 1, k)
  /\ UNCHANGED powerMark

(* Bytes that were flushed and not synced are gone, from any point on.     *)
PowerFails ==
  /\ ProcessEnds
  /\ \E k \in 0..Len(file) :
       /\ file' = SubSeq(file, 1, k)
       /\ torn' = IF IsBoundary(k) THEN torn ELSE torn + 1
  /\ powerMark' = frames

-----------------------------------------------------------------------------
(* _handle_client.                                                         *)

Connect(c) ==
  /\ mode = "up"
  /\ Registry!Register(c)
  /\ handling' = handling \cup {c}
  /\ UNCHANGED <<logVars, queueVars, mode, metricVars, fanoutVars, kills,
                 serverHist>>

(* The handler awaits the next frame of its connection; the reader may     *)
(* still hold frames of a connection the router has closed.                *)
Ready(c) == c \in handling /\ phase[c] = "idle"

(* End of stream, a payload above MAX_PAYLOAD_BYTES, a connection error or *)
(* an error that leaves the loop; "finally" unregisters.  In the fault, it *)
(* does not.                                                               *)
LeaveRegistered(c) ==
  /\ handling' = handling \ {c}
  /\ UNCHANGED registryVars

Leave(c) ==
  /\ handling' = handling \ {c}
  /\ Registry!Unregister(c)

HandlerEnds(c) ==
  /\ Ready(c)
  /\ Leave(c)
  /\ UNCHANGED <<logVars, queueVars, mode, metricVars, fanoutVars, kills,
                 serverHist>>

HandleSubscribe(c, t) ==
  /\ Ready(c)
  /\ Registry!Subscribe(c, t)
  /\ UNCHANGED <<logVars, queueVars, mode, handling, metricVars, fanoutVars,
                 kills, serverHist>>

(* Fault: the message is queued before it is logged.                       *)
PublishQueuesFirst(c, p, t, len) ==
  /\ Ready(c)
  /\ OpenForAppend(c, len)
  /\ message' = Append(message, [from |-> c, pri |-> p, topic |-> t])
  /\ Enqueue(p, t, frames + 1)
  /\ UNCHANGED <<registryVars, mode, handling, metricVars, fanoutVars, kills,
                 received, subscribed, powerMark>>

HandlePublish(c, p, t, len) ==
  /\ Ready(c)
  /\ OpenForAppend(c, len)
  /\ message' = Append(message, [from |-> c, pri |-> p, topic |-> t])
  /\ UNCHANGED <<registryVars, queueVars, mode, handling, metricVars,
                 fanoutVars, kills, received, subscribed, powerMark>>

(* The OSError of a failed write leaves _handle_publish and the loop.      *)
PublishFails(c) ==
  /\ TearFrame(c)
  /\ Leave(c)
  /\ UNCHANGED <<queueVars, mode, metricVars, fanoutVars, kills, serverHist>>

(* Fault: the length is subtracted.                                        *)
PublishReturnsBefore(c) ==
  /\ AppendReturns(c)
  /\ latest'    = offset[c] - frame[c].len
  /\ processed' = processed + 1
  /\ completed' = completed + 1
  /\ LET m == message[frame[c].n] IN Enqueue(m.pri, m.topic, frame[c].n)
  /\ UNCHANGED <<registryVars, mode, handling, ticks, reported, fanoutVars,
                 kills, serverHist>>

(* Back from append(): the counters, then the router, without an await.    *)
PublishReturns(c) ==
  /\ AppendReturns(c)
  /\ latest'    = offset[c] + frame[c].len
  /\ processed' = processed + 1
  /\ completed' = completed + 1
  /\ LET m == message[frame[c].n] IN Enqueue(m.pri, m.topic, frame[c].n)
  /\ UNCHANGED <<registryVars, mode, handling, ticks, reported, fanoutVars,
                 kills, serverHist>>

(* Fault: a client that replays loses its subscriptions.                   *)
TimeTravelUnsubscribes(c, o) ==
  /\ Ready(c)
  /\ StartReplay(c, o)
  /\ subscribed' = [subscribed EXCEPT ![c] = IF c \in clients THEN topics[c] ELSE {}]
  /\ topics'     = [topics EXCEPT ![c] = {}]
  /\ lost'       = [lost EXCEPT ![c] = {}]
  /\ UNCHANGED <<clients, conn, buffered, queueVars, mode, handling,
                 metricVars, current, audience, kills, message, received,
                 powerMark>>

(* The topic of the frame is not used, and nothing is subscribed.          *)
HandleTimeTravel(c, o) ==
  /\ Ready(c)
  /\ StartReplay(c, o)
  /\ subscribed' = [subscribed EXCEPT ![c] = IF c \in clients THEN topics[c] ELSE {}]
  /\ lost'       = [lost EXCEPT ![c] = {}]
  /\ UNCHANGED <<registryVars, queueVars, mode, handling, metricVars,
                 current, audience, kills, message, received, powerMark>>

(* writer.write() and drain() in the replay loop, or an OSError of theirs  *)
(* or of the log; after the error the handler reads on.                    *)
ReplayStep(c) ==
  /\ \/ ReadBatch(c)
     \/ SeekFails(c)
     \/ conn[c] # "lost" /\ YieldFrame(c)
     \/ conn[c] # "open" /\ AbandonReplay(c)
  /\ UNCHANGED <<registryVars, queueVars, mode, handling, metricVars,
                 fanoutVars, kills, serverHist>>

(* The ValueError of seek() is caught nowhere; "finally" unregisters.      *)
ReplayRaises(c) ==
  /\ SeekFails(c)
  /\ Leave(c)
  /\ UNCHANGED <<queueVars, mode, metricVars, fanoutVars, kills, serverHist>>

AppendStep(c) ==
  /\ WriteFrame(c)
  /\ UNCHANGED <<registryVars, queueVars, mode, handling, metricVars,
                 fanoutVars, kills, serverHist>>

-----------------------------------------------------------------------------
(* The other tasks.                                                        *)

(* Fault: the counter is not reset.                                        *)
MetricsKeepCounting ==
  /\ mode = "up" /\ ticks < MaxTicks
  /\ ticks'     = ticks + 1
  /\ reported'  = reported + processed
  /\ Enqueue(TopPriority, MetricsTopic, 0)
  /\ UNCHANGED <<logVars, registryVars, mode, handling, processed, latest,
                 completed, fanoutVars, kills, serverHist>>

(* One round of _publish_metrics, after its sleep.  Metrics are routed and *)
(* not logged.                                                             *)
PublishMetrics ==
  /\ mode = "up" /\ ticks < MaxTicks
  /\ ticks'     = ticks + 1
  /\ reported'  = reported + processed
  /\ processed' = 0
  /\ Enqueue(TopPriority, MetricsTopic, 0)
  /\ UNCHANGED <<logVars, registryVars, mode, handling, latest, completed,
                 fanoutVars, kills, serverHist>>

(* writer.write(frame), for a transport that takes it.                     *)
Send(c, n) ==
  received' = IF conn[c] = "open" THEN [received EXCEPT ![c] = Append(@, n)]
                                  ELSE received

Routing == mode \in {"up", "closing"}

(* The worker pops a message, lists its subscribers and writes to the      *)
(* first of them.                                                          *)
Route(e) ==
  /\ Routing /\ audience = {}
  /\ Router!Serve(e)
  /\ current' = carried[e.seq + 1]
  /\ \/ Registry!Subscribers(e.topic) = {} /\ UNCHANGED <<audience, received>>
     \/ \E c \in Registry!Subscribers(e.topic) :
          /\ Send(c, current')
          /\ audience' = Registry!Subscribers(e.topic) \ {c}
  /\ UNCHANGED <<logVars, registryVars, carried, mode, handling, metricVars,
                 lost, kills, message, subscribed, powerMark>>

(* drain() is over, in whatever way: on to the next subscriber.            *)
Proceed(c) ==
  /\ c \in audience
  /\ Send(c, current)
  /\ audience' = audience \ {c}
  /\ UNCHANGED <<logVars, registryVars, queueVars, mode, handling, metricVars,
                 current, lost, kills, message, subscribed, powerMark>>

(* drain() raises what _fanout() does not catch: the message is gone for   *)
(* the rest of the list.                                                   *)
FanoutCrashes ==
  /\ audience # {}
  /\ CutShort
  /\ UNCHANGED <<logVars, registryVars, queueVars, mode, handling, metricVars,
                 kills, serverHist>>

(* The fan-out is over, and the router found c unreachable.                *)
RouterDrops(c) ==
  /\ Routing /\ audience = {} /\ c \in clients
  /\ Registry!Unregister(c)
  /\ UNCHANGED <<logVars, queueVars, mode, handling, metricVars, fanoutVars,
                 kills, serverHist>>

Network ==
  /\ \E c \in Caller : Registry!Lose(c) \/ Registry!CloseCompletes(c)
  /\ UNCHANGED <<logVars, queueVars, mode, handling, metricVars, fanoutVars,
                 kills, serverHist>>

Handler(c) ==
  \/ Connect(c)
  \/ HandlerEnds(c)
  \/ c \in Watcher /\ \E t \in Topic : HandleSubscribe(c, t)
  \/ c \in Watcher /\ \E o \in StartOffset : HandleTimeTravel(c, o)
  \/ c \in Publisher /\ \E p \in Priority, t \in Topic, len \in FrameLen :
                          HandlePublish(c, p, t, len)
  \/ PublishFails(c)
  \/ PublishReturns(c)
  \/ ReplayStep(c)
  \/ ReplayRaises(c)
  \/ AppendStep(c)

Next ==
  \/ Start
  \/ Stop
  \/ RouterStops
  \/ Kill
  \/ PowerFails
  \/ \E c \in Caller : Handler(c)
  \/ PublishMetrics
  \/ \E e \in pending : Route(e)
  \/ \E c \in Caller : Proceed(c) \/ RouterDrops(c)
  \/ FanoutCrashes
  \/ Network

Spec == Init /\ [][Next]_vars

-----------------------------------------------------------------------------
TypeOK ==
  /\ LogTypeOK /\ Registry!RegistryTypeOK /\ Router!TypeOK
  /\ mode \in {"down", "up", "closing", "stopped"} /\ handling \subseteq Caller
  /\ current \in Nat /\ audience \subseteq Caller
  /\ lost \in [Caller -> SUBSET Nat]
  /\ processed \in Nat /\ latest \in Nat /\ reported \in Nat /\ completed \in Nat
  /\ message \in Seq(Message) /\ carried \in Seq(Nat)
  /\ received \in [Caller -> Seq(Nat)]
  /\ subscribed \in [Caller -> SUBSET Topic]
  /\ ticks \in 0..MaxTicks /\ kills \in 0..MaxKills /\ powerMark \in Nat

Stored(n) == \E o \in 0..Len(file) - 1 :
               file[o + 1].frame = n /\ StoredAt(n, file[o + 1].len, o)

(* "Event saved before routing (crash-safe)" (README.md:489): a published  *)
(* message that is queued or that a client has received is in the log,     *)
(* whole, through failed writes, kills and restarts.  A power failure      *)
(* takes nothing that is published after it, although the log it leaves    *)
(* may end in the middle of a frame.                                       *)
WriteAhead ==
  /\ \A e \in pending : carried[e.seq + 1] # 0 => Stored(carried[e.seq + 1])
  /\ \A c \in Caller : \A i \in DOMAIN received[c] :
       received[c][i] > powerMark => Stored(received[c][i])

(* Two messages of one publisher and one priority reach a subscriber in    *)
(* the order they were published, and lie in the log in that order,        *)
(* whatever the pool's threads do with the appends of other publishers.    *)
SameStream(m, n) ==
  /\ m # 0 /\ n # 0
  /\ message[m].from = message[n].from /\ message[m].pri = message[n].pri

PublisherOrder ==
  /\ \A c \in Caller : \A i, j \in DOMAIN received[c] :
       i < j /\ SameStream(received[c][i], received[c][j]) =>
         received[c][i] < received[c][j]
  /\ \A i, j \in DOMAIN file :
       i < j /\ message[file[i].frame].from = message[file[j].frame].from =>
         file[i].frame <= file[j].frame

Replayed(c, n) ==
  \E i \in DOMAIN yielded[c] : file[yielded[c][i].from + 1].frame = n
Queued(n) == \E e \in pending : carried[e.seq + 1] = n
Got(c, n) == \E i \in DOMAIN received[c] : received[c][i] = n

Coming(c, n) == Queued(n) \/ (c \in audience /\ current = n)

(* Every completed publish on topic t is replayed to c, was sent to it, or *)
(* waits: in the heap, where the worker pops it unless it is stopped, or   *)
(* in the fan-out for its turn.  Two losses are not promised against: what *)
(* a power failure took from the log, and a message whose fan-out an       *)
(* exception or stop() cut short, after c's replay began and before its    *)
(* turn.                                                                   *)
MissesNothing(c, t) ==
  \A a \in acked : a.n > powerMark /\ message[a.n].topic = t =>
    Replayed(c, a.n) \/ Got(c, a.n) \/ Coming(c, a.n) \/ a.n \in lost[c]

HasReplayedAll(c) == c \in clients /\ conn[c] = "open" /\ ended[c] /\ start[c].at = 0

(* A client that subscribes first and then replays the log from its start  *)
(* has no gap between history and live messages, whatever was being        *)
(* appended or fanned out at the time, and whether or not the broker was   *)
(* killed or restarted before; save the two losses MissesNothing names, of *)
(* which another replay makes the second good.                             *)
SubscribeThenReplayHasNoGap ==
  torn = 0 =>
    \A c \in Caller : HasReplayedAll(c) =>
      \A t \in subscribed[c] : MissesNothing(c, t)

(* The registry holds no connection whose handler is gone, although both   *)
(* the handler and the router unregister, and frames of a dropped client   *)
(* may still be handled.                                                   *)
NoGhostClients == clients \subseteq handling

(* Every completed publish is counted in one throughput report or waits    *)
(* for the next one; the offset reported is inside the log.                *)
MetricsAccurate ==
  /\ reported + processed = completed
  /\ latest <= Len(file)

(* "streams every historical message to the client, then seamlessly        *)
(* transitions the client to real-time delivery"                           *)
(* (broker/storage.py:11-12).                                              *)
SeamlessTransition ==
  \A c \in Caller : HasReplayedAll(c) => \A t \in Topic : MissesNothing(c, t)
=============================================================================
