--------------------------- MODULE DashboardServer ---------------------------
(***************************************************************************)
(* dashboard_server.py: the proxy task with its connection to the broker,  *)
(* broadcast_sse() and the bounded queue of each event stream, the handler *)
(* of /stream, and the tasks behind /api/time-travel.                      *)
(*                                                                         *)
(* broadcast_sse() has no await in it, so a broadcast and the assignments  *)
(* before it are one step.  The broker is the environment: connecting and  *)
(* reading succeed, fail or time out at any moment.                        *)
(***************************************************************************)
EXTENDS Integers, Sequences, FiniteSets

CONSTANTS
  Stream,       \* GET /stream requests
  Replay,       \* POST /api/time-travel requests with an offset
  QueueSize,    \* maxsize of a stream's queue
  MaxReplay,    \* max_replay
  MaxBackoff,   \* max_backoff
  MaxEvents     \* bound on the events ever broadcast

ASSUME QueueAssumption == QueueSize \in Nat \ {0}
ASSUME BackoffAssumption == MaxBackoff \in Nat \ {0}
ASSUME DashboardBounds == MaxReplay \in Nat /\ MaxEvents \in Nat

VARIABLES
  proxy,            \* where proxy_broker_connection is suspended
  broker_connected,
  backoff,
  sse_clients,      \* the streams whose queue is in the list
  queue,            \* queue[s]: event numbers waiting for s
  stream,           \* where the handler of s is suspended
  peer,             \* peer[s]: the browser behind s is still connected
  replay,           \* where each time-travel task is suspended
  replayed          \* its counter

(* History: all events broadcast; which were written to each stream, how   *)
(* many its queue dropped, how many had been broadcast when it joined, and *)
(* the status that the handler wrote first.                                *)
VARIABLES events, seen, dropped, joined, initial

brokerVars == <<proxy, broker_connected, backoff>>
streamVars == <<stream, peer>>
replayVars == <<replay, replayed>>
streamHist == <<seen, joined, initial>>
vars == <<brokerVars, sse_clients, queue, streamVars, replayVars, events, dropped,
          streamHist>>

-----------------------------------------------------------------------------
ProxyState  == {"connecting", "subscribing", "reading", "sleeping"}
StreamState == {"new",
                "headers",   \* drain() of the response headers
                "initial",   \* listed; drain() of the initial status
                "waiting",   \* await q.get()
                "sending",   \* drain() of an event
                "closed"}
ReplayState == {"new", "connecting", "reading", "finished", "failed"}

Event == [kind : {"status"}, connected : BOOLEAN]
           \cup [kind : {"live"}]
           \cup [kind : {"replay"}, task : Replay]
           \cup [kind : {"done"}, task : Replay, count : Nat]

Init ==
  /\ proxy = "connecting" /\ broker_connected = FALSE /\ backoff = 1
  /\ sse_clients = {}
  /\ queue  = [s \in Stream |-> << >>]
  /\ stream = [s \in Stream |-> "new"]
  /\ peer   = [s \in Stream |-> TRUE]
  /\ replay   = [r \in Replay |-> "new"]
  /\ replayed = [r \in Replay |-> 0]
  /\ events = << >>
  /\ seen    = [s \in Stream |-> << >>]
  /\ dropped = [s \in Stream |-> 0]
  /\ joined  = [s \in Stream |-> 0]
  /\ initial = [s \in Stream |-> FALSE]

(* A full queue loses its oldest event to the new one.                     *)
IsFull(s) == Len(queue[s]) = QueueSize

(* Fault: a full queue loses the new event.                                *)
broadcast_drops_newest(event) ==
  /\ Len(events) < MaxEvents
  /\ events' = Append(events, event)
  /\ queue' = [s \in Stream |->
       IF s \in sse_clients /\ ~IsFull(s) THEN Append(queue[s], Len(events) + 1)
       ELSE queue[s]]
  /\ dropped' = [s \in Stream |->
       dropped[s] + IF s \in sse_clients /\ IsFull(s) THEN 1 ELSE 0]

broadcast_sse(event) ==
  /\ Len(events) < MaxEvents
  /\ events' = Append(events, event)
  /\ queue' = [s \in Stream |->
       IF s \notin sse_clients THEN queue[s]
       ELSE Append(IF IsFull(s) THEN Tail(queue[s]) ELSE queue[s], Len(events) + 1)]
  /\ dropped' = [s \in Stream |->
       dropped[s] + IF s \in sse_clients /\ IsFull(s) THEN 1 ELSE 0]

-----------------------------------------------------------------------------
(* proxy_broker_connection.                                                *)

ProxyConnects ==
  /\ proxy = "connecting"
  /\ proxy' = "subscribing"
  /\ broker_connected' = TRUE
  /\ backoff' = 1
  /\ broadcast_sse([kind |-> "status", connected |-> TRUE])
  /\ UNCHANGED <<sse_clients, streamVars, replayVars, streamHist>>

ProxySubscribes ==
  /\ proxy = "subscribing"
  /\ proxy' = "reading"
  /\ UNCHANGED <<broker_connected, backoff, sse_clients, queue, streamVars,
                 replayVars, events, dropped, streamHist>>

(* A frame on a known topic, metrics included; others are skipped.         *)
ProxyReceives ==
  /\ proxy = "reading"
  /\ broadcast_sse([kind |-> "live"])
  /\ UNCHANGED <<brokerVars, sse_clients, streamVars, replayVars, streamHist>>

(* End of stream, or an exception anywhere in the try.                     *)
ProxyDisconnects ==
  /\ proxy # "sleeping"
  /\ proxy' = "sleeping"
  /\ broker_connected' = FALSE
  /\ broadcast_sse([kind |-> "status", connected |-> FALSE])
  /\ UNCHANGED <<backoff, sse_clients, streamVars, replayVars, streamHist>>

(* Fault: the backoff has no maximum.                                      *)
ProxyRetriesUncapped ==
  /\ proxy = "sleeping"
  /\ proxy' = "connecting"
  /\ backoff' = 2 * backoff
  /\ UNCHANGED <<broker_connected, sse_clients, queue, streamVars, replayVars,
                 events, dropped, streamHist>>

ProxyRetries ==
  /\ proxy = "sleeping"
  /\ proxy' = "connecting"
  /\ backoff' = IF 2 * backoff < MaxBackoff THEN 2 * backoff ELSE MaxBackoff
  /\ UNCHANGED <<broker_connected, sse_clients, queue, streamVars, replayVars,
                 events, dropped, streamHist>>

-----------------------------------------------------------------------------
(* handle_http_request for GET /stream.                                    *)

StreamOpens(s) ==
  /\ stream[s] = "new"
  /\ stream' = [stream EXCEPT ![s] = "headers"]
  /\ UNCHANGED <<brokerVars, sse_clients, queue, peer, replayVars, events, dropped,
                 streamHist>>

(* Fault: a new stream is not told the current status.                     *)
StreamJoinsSilently(s) ==
  /\ stream[s] = "headers"
  /\ stream' = [stream EXCEPT ![s] = "initial"]
  /\ sse_clients' = sse_clients \cup {s}
  /\ joined'  = [joined EXCEPT ![s] = Len(events)]
  /\ UNCHANGED <<brokerVars, queue, peer, replayVars, events, dropped, seen, initial>>

(* The first drain() returned, as the next ones may, whether or not the    *)
(* browser has left: the queue is listed and the current status written.   *)
StreamJoins(s) ==
  /\ stream[s] = "headers"
  /\ stream' = [stream EXCEPT ![s] = "initial"]
  /\ sse_clients' = sse_clients \cup {s}
  /\ joined'  = [joined EXCEPT ![s] = Len(events)]
  /\ initial' = [initial EXCEPT ![s] = broker_connected]
  /\ UNCHANGED <<brokerVars, queue, peer, replayVars, events, dropped, seen>>

(* drain() returns, also to a browser that has left unnoticed.             *)
StreamDrains(s) ==
  /\ stream[s] \in {"initial", "sending"}
  /\ stream' = [stream EXCEPT ![s] = "waiting"]
  /\ UNCHANGED <<brokerVars, sse_clients, queue, peer, replayVars, events, dropped,
                 streamHist>>

StreamSends(s) ==
  /\ stream[s] = "waiting" /\ queue[s] # << >>
  /\ stream' = [stream EXCEPT ![s] = "sending"]
  /\ queue'  = [queue EXCEPT ![s] = Tail(@)]
  /\ seen'   = [seen EXCEPT ![s] = Append(@, Head(queue[s]))]
  /\ UNCHANGED <<brokerVars, sse_clients, peer, replayVars, events, dropped, joined,
                 initial>>

(* drain() raises.  Only the drain inside the try reaches the "finally"    *)
(* that takes the queue off the list.                                      *)
StreamFails(s) ==
  /\ stream[s] \in {"headers", "initial", "sending"} /\ ~peer[s]
  /\ stream' = [stream EXCEPT ![s] = "closed"]
  /\ sse_clients' = IF stream[s] = "sending" THEN sse_clients \ {s} ELSE sse_clients
  /\ UNCHANGED <<brokerVars, queue, peer, replayVars, events, dropped, streamHist>>

(* The browser closes the page or its connection breaks.                   *)
BrowserLeaves(s) ==
  /\ peer[s] /\ stream[s] # "new"
  /\ peer' = [peer EXCEPT ![s] = FALSE]
  /\ UNCHANGED <<brokerVars, sse_clients, queue, stream, replayVars, events, dropped,
                 streamHist>>

-----------------------------------------------------------------------------
(* trigger_time_travel.                                                    *)

RequestReplay(r) ==
  /\ replay[r] = "new"
  /\ \/ /\ replay' = [replay EXCEPT ![r] = "connecting"]
        /\ UNCHANGED <<queue, events, dropped>>
     \/ /\ replay' = [replay EXCEPT ![r] = "finished"]      \* a negative offset
        /\ broadcast_sse([kind |-> "done", task |-> r, count |-> 0])
  /\ UNCHANGED <<brokerVars, sse_clients, streamVars, replayed, streamHist>>

ReplayConnects(r) ==
  /\ replay[r] = "connecting"
  /\ replay' = [replay EXCEPT ![r] = "reading"]
  /\ UNCHANGED <<brokerVars, sse_clients, queue, streamVars, replayed, events,
                 dropped, streamHist>>

(* No connection to the broker: the exception is logged, nothing is sent.  *)
ReplayFails(r) ==
  /\ replay[r] = "connecting"
  /\ replay' = [replay EXCEPT ![r] = "failed"]
  /\ UNCHANGED <<brokerVars, sse_clients, queue, streamVars, replayed, events,
                 dropped, streamHist>>

(* Fault: the frame is sent on and not counted.                            *)
ReplayReceivesUncounted(r) ==
  /\ replay[r] = "reading" /\ replayed[r] < MaxReplay
  /\ broadcast_sse([kind |-> "replay", task |-> r])
  /\ UNCHANGED <<brokerVars, sse_clients, streamVars, replayVars, streamHist>>

ReplayReceives(r) ==
  /\ replay[r] = "reading" /\ replayed[r] < MaxReplay
  /\ broadcast_sse([kind |-> "replay", task |-> r])
  /\ replayed' = [replayed EXCEPT ![r] = @ + 1]
  /\ UNCHANGED <<brokerVars, sse_clients, streamVars, replay, streamHist>>

(* The limit, two idle seconds, the end of the stream or an error.         *)
ReplayEnds(r) ==
  /\ replay[r] = "reading"
  /\ replay' = [replay EXCEPT ![r] = "finished"]
  /\ broadcast_sse([kind |-> "done", task |-> r, count |-> replayed[r]])
  /\ UNCHANGED <<brokerVars, sse_clients, streamVars, replayed, streamHist>>

Next ==
  \/ ProxyConnects
  \/ ProxySubscribes
  \/ ProxyReceives
  \/ ProxyDisconnects
  \/ ProxyRetries
  \/ \E s \in Stream :
       \/ StreamOpens(s)
       \/ StreamJoins(s)
       \/ StreamDrains(s)
       \/ StreamSends(s)
       \/ StreamFails(s)
       \/ BrowserLeaves(s)
  \/ \E r \in Replay :
       \/ RequestReplay(r)
       \/ ReplayConnects(r)
       \/ ReplayFails(r)
       \/ ReplayReceives(r)
       \/ ReplayEnds(r)

Spec == Init /\ [][Next]_vars

-----------------------------------------------------------------------------
TypeOK ==
  /\ proxy \in ProxyState /\ broker_connected \in BOOLEAN
  /\ backoff \in 1..MaxBackoff
  /\ sse_clients \subseteq Stream
  /\ queue \in [Stream -> Seq(Nat)] /\ seen \in [Stream -> Seq(Nat)]
  /\ stream \in [Stream -> StreamState] /\ peer \in [Stream -> BOOLEAN]
  /\ replay \in [Replay -> ReplayState] /\ replayed \in [Replay -> 0..MaxReplay]
  /\ events \in Seq(Event)
  /\ dropped \in [Stream -> Nat] /\ joined \in [Stream -> Nat]
  /\ initial \in [Stream -> BOOLEAN]

(* What a listed stream was sent and still has queued are events in the    *)
(* order they were broadcast, the latest one always among them, and those  *)
(* missing since it joined are exactly those its full queue dropped: a     *)
(* slow browser loses old events and never the newest.                     *)
Timeline(s) == seen[s] \o queue[s]

StreamFollowsBroadcasts ==
  \A s \in sse_clients :
    LET line == Timeline(s) IN
    /\ \A i \in DOMAIN line :
         line[i] > IF i = 1 THEN joined[s] ELSE line[i - 1]
    /\ Len(line) + dropped[s] = Len(events) - joined[s]
    /\ Len(events) > joined[s] => line[Len(line)] = Len(events)
    /\ Len(queue[s]) <= QueueSize

(* A time-travel task reports at most once, after the last frame it sent   *)
(* on, and the count in its report is the number of frames it sent on.     *)
Sent(r) == {n \in DOMAIN events : events[n].kind = "replay" /\ events[n].task = r}

DoneCountsReplayed ==
  \A n \in DOMAIN events : events[n].kind = "done" =>
    LET r == events[n].task IN
    /\ events[n].count = Cardinality(Sent(r))
    /\ \A m \in DOMAIN events \ {n} :
         events[m].kind \in {"replay", "done"} /\ events[m].task = r =>
           m < n /\ events[m].kind = "replay"

(* "Connected SSE clients (each client has a queue)"                       *)
(* (dashboard_server.py:46): a queue in the list belongs to a handler that *)
(* is still running.                                                       *)
ListedStreamsAreConnected ==
  \A s \in sse_clients : stream[s] # "closed"
=============================================================================
