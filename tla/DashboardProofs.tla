--------------------------- MODULE DashboardProofs ---------------------------
(***************************************************************************)
(* Proofs about DashboardServer and BrowserPage: the types, what a stream  *)
(* is sent, what a time-travel task reports, and, for a page in front of   *)
(* the server, its one connection and the status it shows.                 *)
(*                                                                         *)
(* The server is proved against any browsers; that the page is one of them *)
(* is theorem PageIsABrowser, which carries those results over.            *)
(***************************************************************************)
EXTENDS BrowserPage, FiniteSetTheorems, SequenceTheorems, TLAPS

(* One step of a queue under a broadcast.                                  *)
LEMMA TailOfFull ==
  ASSUME TypeOK, NEW s \in Stream, IsFull(s)
  PROVE  /\ queue[s] # << >> /\ Len(queue[s]) \in Nat \ {0}
         /\ Tail(queue[s]) \in Seq(Nat)
         /\ Len(Tail(queue[s])) = Len(queue[s]) - 1
         /\ \A i \in 1..(Len(queue[s]) - 1) : Tail(queue[s])[i] = queue[s][i + 1]
<1>1. queue[s] \in Seq(Nat) /\ QueueSize \in Nat \ {0}
  BY QueueAssumption DEF TypeOK
<1>2. Len(queue[s]) = QueueSize
  BY DEF IsFull
<1>3. queue[s] # << >>
  BY <1>1, <1>2, EmptySeq
<1> QED
  BY <1>1, <1>2, <1>3, HeadTailProperties

(* A broadcast keeps the types of what it changes.                         *)
LEMMA BroadcastTypes ==
  ASSUME TypeOK, NEW e \in Event, broadcast_sse(e)
  PROVE  /\ events' \in Seq(Event) /\ queue' \in [Stream -> Seq(Nat)]
         /\ dropped' \in [Stream -> Nat]
<1>1. events' \in Seq(Event)
  <2>1. events \in Seq(Event)
    BY DEF TypeOK
  <2> QED
    BY <2>1, AppendProperties DEF broadcast_sse
<1>2. queue' \in [Stream -> Seq(Nat)]
  <2>1. Len(events) + 1 \in Nat
    BY LenProperties DEF TypeOK
  <2> SUFFICES ASSUME NEW s \in Stream
               PROVE  (IF s \notin sse_clients THEN queue[s]
                       ELSE Append(IF IsFull(s) THEN Tail(queue[s]) ELSE queue[s],
                                   Len(events) + 1)) \in Seq(Nat)
    BY DEF broadcast_sse
  <2>2. queue[s] \in Seq(Nat)
    BY DEF TypeOK
  <2>3. IsFull(s) => Tail(queue[s]) \in Seq(Nat)
    BY TailOfFull
  <2> DEFINE kept == IF IsFull(s) THEN Tail(queue[s]) ELSE queue[s]
  <2>4. kept \in Seq(Nat)
    BY <2>2, <2>3
  <2>5. Append(kept, Len(events) + 1) \in Seq(Nat)
    <3> HIDE DEF kept
    <3> QED BY <2>4, <2>1, AppendProperties
  <2> QED
    BY <2>2, <2>5
<1>3. dropped' \in [Stream -> Nat]
  BY DEF broadcast_sse, TypeOK
<1> QED
  BY <1>1, <1>2, <1>3

(* The events that the tasks of the server broadcast.                      *)
LEMMA Broadcasts ==
  /\ \A b \in BOOLEAN : [kind |-> "status", connected |-> b] \in Event
  /\ [kind |-> "live"] \in Event
  /\ \A r \in Replay : [kind |-> "replay", task |-> r] \in Event
  /\ \A r \in Replay, n \in Nat : [kind |-> "done", task |-> r, count |-> n] \in Event
BY DEF Event

(* The dashboard starts well typed.                                        *)
LEMMA InitServerTypes == Init => TypeOK
<1> SUFFICES ASSUME Init PROVE TypeOK
  OBVIOUS
<1>1. << >> \in Seq(Nat) /\ events \in Seq(Event)
  BY EmptySeq DEF Init
<1>2. backoff \in 1..MaxBackoff /\ replayed \in [Replay -> 0..MaxReplay]
  BY BackoffAssumption, DashboardBounds DEF Init
<1> QED
  BY <1>1, <1>2 DEF Init, TypeOK, ProxyState, StreamState, ReplayState

(* Every step of the server keeps the types.                               *)
LEMMA NextServerTypes ==
  ASSUME TypeOK, [Next]_vars
  PROVE  TypeOK'
<1> USE DEF brokerVars, streamVars, replayVars, streamHist
<1>1. CASE UNCHANGED vars
  BY <1>1 DEF vars, TypeOK
<1>2. CASE ProxyConnects
  <2>1. broadcast_sse([kind |-> "status", connected |-> TRUE])
    BY <1>2 DEF ProxyConnects
  <2>2. 1 \in 1..MaxBackoff
    BY BackoffAssumption
  <2> QED
    BY <1>2, <2>1, <2>2, Broadcasts, BroadcastTypes DEF ProxyConnects, TypeOK, ProxyState
<1>3. CASE ProxySubscribes
  BY <1>3 DEF ProxySubscribes, TypeOK, ProxyState
<1>4. CASE ProxyReceives
  <2>1. broadcast_sse([kind |-> "live"])
    BY <1>4 DEF ProxyReceives
  <2> QED
    BY <1>4, <2>1, Broadcasts, BroadcastTypes DEF ProxyReceives, TypeOK
<1>5. CASE ProxyDisconnects
  <2>1. broadcast_sse([kind |-> "status", connected |-> FALSE])
    BY <1>5 DEF ProxyDisconnects
  <2> QED
    BY <1>5, <2>1, Broadcasts, BroadcastTypes DEF ProxyDisconnects, TypeOK, ProxyState
<1>6. CASE ProxyRetries
  <2>1. backoff' \in 1..MaxBackoff
    BY <1>6, BackoffAssumption DEF ProxyRetries, TypeOK
  <2> QED
    BY <1>6, <2>1 DEF ProxyRetries, TypeOK, ProxyState
<1>7. ASSUME NEW s \in Stream, StreamOpens(s) PROVE TypeOK'
  BY <1>7 DEF StreamOpens, TypeOK, StreamState
<1>8. ASSUME NEW s \in Stream, StreamJoins(s) PROVE TypeOK'
  <2>1. Len(events) \in Nat
    BY LenProperties DEF TypeOK
  <2> QED
    BY <1>8, <2>1 DEF StreamJoins, TypeOK, StreamState
<1>9. ASSUME NEW s \in Stream, StreamDrains(s) PROVE TypeOK'
  BY <1>9 DEF StreamDrains, TypeOK, StreamState
<1>10. ASSUME NEW s \in Stream, StreamSends(s) PROVE TypeOK'
  <2>1. queue[s] \in Seq(Nat) /\ queue[s] # << >> /\ seen[s] \in Seq(Nat)
    BY <1>10 DEF StreamSends, TypeOK
  <2>2. Head(queue[s]) \in Nat /\ Tail(queue[s]) \in Seq(Nat)
    BY <2>1, HeadTailProperties
  <2>3. Append(seen[s], Head(queue[s])) \in Seq(Nat)
    BY <2>1, <2>2, AppendProperties
  <2> QED
    BY <1>10, <2>2, <2>3 DEF StreamSends, TypeOK, StreamState
<1>11. ASSUME NEW s \in Stream, StreamFails(s) PROVE TypeOK'
  BY <1>11 DEF StreamFails, TypeOK, StreamState
<1>12. ASSUME NEW s \in Stream, BrowserLeaves(s) PROVE TypeOK'
  BY <1>12 DEF BrowserLeaves, TypeOK
<1>13. ASSUME NEW r \in Replay, RequestReplay(r) PROVE TypeOK'
  <2>1. replay' \in [Replay -> ReplayState]
    BY <1>13 DEF RequestReplay, TypeOK, ReplayState
  <2>2. CASE UNCHANGED <<queue, events, dropped>>
    BY <1>13, <2>1, <2>2 DEF RequestReplay, TypeOK
  <2>3. CASE broadcast_sse([kind |-> "done", task |-> r, count |-> 0])
    BY <1>13, <2>1, <2>3, Broadcasts, BroadcastTypes DEF RequestReplay, TypeOK
  <2> QED
    BY <1>13, <2>2, <2>3 DEF RequestReplay
<1>14. ASSUME NEW r \in Replay, ReplayConnects(r) PROVE TypeOK'
  BY <1>14 DEF ReplayConnects, TypeOK, ReplayState
<1>15. ASSUME NEW r \in Replay, ReplayFails(r) PROVE TypeOK'
  BY <1>15 DEF ReplayFails, TypeOK, ReplayState
<1>16. ASSUME NEW r \in Replay, ReplayReceives(r) PROVE TypeOK'
  <2>1. broadcast_sse([kind |-> "replay", task |-> r])
    BY <1>16 DEF ReplayReceives
  <2>2. replayed' \in [Replay -> 0..MaxReplay]
    BY <1>16, DashboardBounds DEF ReplayReceives, TypeOK
  <2> QED
    BY <1>16, <2>1, <2>2, Broadcasts, BroadcastTypes DEF ReplayReceives, TypeOK
<1>17. ASSUME NEW r \in Replay, ReplayEnds(r) PROVE TypeOK'
  <2>1. broadcast_sse([kind |-> "done", task |-> r, count |-> replayed[r]])
    BY <1>17 DEF ReplayEnds
  <2>2. replayed[r] \in Nat
    BY DashboardBounds DEF TypeOK
  <2>3. replay' \in [Replay -> ReplayState]
    BY <1>17 DEF ReplayEnds, TypeOK, ReplayState
  <2> QED
    BY <1>17, <2>1, <2>2, <2>3, Broadcasts, BroadcastTypes DEF ReplayEnds, TypeOK
<1> QED
  BY <1>1, <1>2, <1>3, <1>4, <1>5, <1>6, <1>7, <1>8, <1>9, <1>10, <1>11, <1>12,
     <1>13, <1>14, <1>15, <1>16, <1>17 DEF Next

(* Types and bounds of the dashboard server: the backoff stays within its  *)
(* maximum, a task within its limit of frames.                             *)
THEOREM DashboardTypeOK == Spec => []TypeOK
BY InitServerTypes, NextServerTypes, PTL DEF Spec

-----------------------------------------------------------------------------
(* What a step of the server does to stream s: nothing that concerns its   *)
(* line of events, a join, a send, or a broadcast.                         *)
NotJoined(s) == stream[s] \in {"new", "headers"}

Quiet(s) ==
  /\ UNCHANGED <<events, broker_connected>>
  /\ queue'[s] = queue[s] /\ seen'[s] = seen[s] /\ dropped'[s] = dropped[s]
  /\ joined'[s] = joined[s] /\ initial'[s] = initial[s]
  /\ s \in sse_clients' => s \in sse_clients
  /\ NotJoined(s)' => NotJoined(s)
  /\ NotJoined(s) /\ ~NotJoined(s)' => ~peer[s]

Broadcasting ==
  /\ \E e \in Event :
       /\ broadcast_sse(e)
       /\ broker_connected' = IF e.kind = "status" THEN e.connected ELSE broker_connected
  /\ UNCHANGED <<sse_clients, stream, streamHist>>

(* A step does one of four things to a browser's stream: nothing, its      *)
(* joining, an event written to it, or a broadcast to all.                 *)
LEMMA StepsOfAStream ==
  ASSUME TypeOK, [Next]_vars, NEW s \in Stream
  PROVE  Quiet(s) \/ StreamJoins(s) \/ StreamSends(s) \/ Broadcasting
<1> USE DEF brokerVars, streamVars, replayVars, streamHist
<1>1. CASE UNCHANGED vars
  BY <1>1 DEF vars, Quiet, NotJoined
<1>2. CASE ProxyConnects
  <2> DEFINE e == [kind |-> "status", connected |-> TRUE]
  <2>1. e \in Event /\ broadcast_sse(e) /\ e.kind = "status" /\ e.connected = TRUE
    BY <1>2, Broadcasts DEF ProxyConnects
  <2> HIDE DEF e
  <2> QED
    BY <1>2, <2>1 DEF ProxyConnects, Broadcasting
<1>3. CASE ProxySubscribes
  BY <1>3 DEF ProxySubscribes, Quiet, NotJoined
<1>4. CASE ProxyReceives
  <2> DEFINE e == [kind |-> "live"]
  <2>1. e \in Event /\ broadcast_sse(e) /\ e.kind # "status"
    BY <1>4, Broadcasts DEF ProxyReceives
  <2> HIDE DEF e
  <2> QED
    BY <1>4, <2>1 DEF ProxyReceives, Broadcasting
<1>5. CASE ProxyDisconnects
  <2> DEFINE e == [kind |-> "status", connected |-> FALSE]
  <2>1. e \in Event /\ broadcast_sse(e) /\ e.kind = "status" /\ e.connected = FALSE
    BY <1>5, Broadcasts DEF ProxyDisconnects
  <2> HIDE DEF e
  <2> QED
    BY <1>5, <2>1 DEF ProxyDisconnects, Broadcasting
<1>6. CASE ProxyRetries
  BY <1>6 DEF ProxyRetries, Quiet, NotJoined
<1>7. ASSUME NEW t \in Stream, StreamOpens(t) PROVE Quiet(s)
  BY <1>7 DEF StreamOpens, Quiet, NotJoined, TypeOK
<1>8. ASSUME NEW t \in Stream, StreamJoins(t) PROVE Quiet(s) \/ StreamJoins(s)
  <2>1. CASE t = s
    BY <1>8, <2>1
  <2>2. CASE t # s
    BY <1>8, <2>2 DEF StreamJoins, Quiet, NotJoined, TypeOK
  <2> QED
    BY <2>1, <2>2
<1>9. ASSUME NEW t \in Stream, StreamDrains(t) PROVE Quiet(s)
  BY <1>9 DEF StreamDrains, Quiet, NotJoined, TypeOK
<1>10. ASSUME NEW t \in Stream, StreamSends(t) PROVE Quiet(s) \/ StreamSends(s)
  <2>1. CASE t = s
    BY <1>10, <2>1
  <2>2. CASE t # s
    BY <1>10, <2>2 DEF StreamSends, Quiet, NotJoined, TypeOK
  <2> QED
    BY <2>1, <2>2
<1>11. ASSUME NEW t \in Stream, StreamFails(t) PROVE Quiet(s)
  BY <1>11 DEF StreamFails, Quiet, NotJoined, TypeOK
<1>12. ASSUME NEW t \in Stream, BrowserLeaves(t) PROVE Quiet(s)
  BY <1>12 DEF BrowserLeaves, Quiet, NotJoined
<1>13. ASSUME NEW r \in Replay, RequestReplay(r) PROVE Quiet(s) \/ Broadcasting
  <2>1. CASE UNCHANGED <<queue, events, dropped>>
    BY <1>13, <2>1 DEF RequestReplay, Quiet, NotJoined
  <2> DEFINE e == [kind |-> "done", task |-> r, count |-> 0]
  <2>2. e \in Event /\ e.kind # "status"
    BY Broadcasts
  <2>3. UNCHANGED <<queue, events, dropped>> \/ broadcast_sse(e)
    BY <1>13 DEF RequestReplay
  <2> HIDE DEF e
  <2> QED
    BY <1>13, <2>1, <2>2, <2>3 DEF RequestReplay, Broadcasting
<1>14. ASSUME NEW r \in Replay, ReplayConnects(r) PROVE Quiet(s)
  BY <1>14 DEF ReplayConnects, Quiet, NotJoined
<1>15. ASSUME NEW r \in Replay, ReplayFails(r) PROVE Quiet(s)
  BY <1>15 DEF ReplayFails, Quiet, NotJoined
<1>16. ASSUME NEW r \in Replay, ReplayReceives(r) PROVE Broadcasting
  <2> DEFINE e == [kind |-> "replay", task |-> r]
  <2>1. e \in Event /\ broadcast_sse(e) /\ e.kind # "status"
    BY <1>16, Broadcasts DEF ReplayReceives
  <2> HIDE DEF e
  <2> QED
    BY <1>16, <2>1 DEF ReplayReceives, Broadcasting
<1>17. ASSUME NEW r \in Replay, ReplayEnds(r) PROVE Broadcasting
  <2> DEFINE e == [kind |-> "done", task |-> r, count |-> replayed[r]]
  <2>1. replayed[r] \in Nat
    BY DashboardBounds DEF TypeOK
  <2>2. e \in Event /\ broadcast_sse(e) /\ e.kind # "status"
    BY <1>17, <2>1, Broadcasts DEF ReplayEnds
  <2> HIDE DEF e
  <2> QED
    BY <1>17, <2>2 DEF ReplayEnds, Broadcasting
<1> QED
  BY <1>1, <1>2, <1>3, <1>4, <1>5, <1>6, <1>7, <1>8, <1>9, <1>10, <1>11, <1>12,
     <1>13, <1>14, <1>15, <1>16, <1>17 DEF Next

-----------------------------------------------------------------------------
(* A stream that has not joined has no queue in the list, and nothing was  *)
(* sent, queued or dropped for it.                                         *)
ListInv ==
  \A s \in Stream : NotJoined(s) =>
    /\ s \notin sse_clients
    /\ seen[s] = << >> /\ queue[s] = << >> /\ dropped[s] = 0

(* The line of events of a stream: later than its joining and in order, no *)
(* gap in it as long as its queue has dropped none; and while it is listed *)
(* nothing else is missing and the newest event is last.                   *)
LineInOrder(s) ==
  LET line == Timeline(s) IN
  /\ joined[s] <= Len(events)
  /\ \A i \in 1..Len(line) : joined[s] < line[i] /\ line[i] <= Len(events)
  /\ \A i, j \in 1..Len(line) : i < j => line[i] < line[j]
  /\ dropped[s] = 0 => \A i \in 1..Len(line) : line[i] = joined[s] + i

LineComplete(s) ==
  LET line == Timeline(s) IN
  /\ Len(line) + dropped[s] = Len(events) - joined[s]
  /\ Len(events) > joined[s] => Len(line) > 0 /\ line[Len(line)] = Len(events)
  /\ Len(queue[s]) <= QueueSize

LineInv ==
  /\ \A s \in Stream : LineInOrder(s)
  /\ \A s \in sse_clients : LineComplete(s)

(* The elements of a line.                                                 *)
LEMMA LineParts ==
  ASSUME TypeOK, NEW s \in Stream
  PROVE  /\ Timeline(s) \in Seq(Nat)
         /\ Len(seen[s]) \in Nat /\ Len(queue[s]) \in Nat
         /\ Len(Timeline(s)) = Len(seen[s]) + Len(queue[s])
         /\ \A i \in 1..(Len(seen[s]) + Len(queue[s])) :
              /\ Timeline(s)[i] \in Nat
              /\ Timeline(s)[i] = IF i <= Len(seen[s]) THEN seen[s][i]
                                  ELSE queue[s][i - Len(seen[s])]
<1>1. seen[s] \in Seq(Nat) /\ queue[s] \in Seq(Nat)
  BY DEF TypeOK
<1>2. /\ Timeline(s) \in Seq(Nat)
      /\ Len(Timeline(s)) = Len(seen[s]) + Len(queue[s])
      /\ \A i \in 1..(Len(seen[s]) + Len(queue[s])) :
           Timeline(s)[i] = IF i <= Len(seen[s]) THEN seen[s][i]
                            ELSE queue[s][i - Len(seen[s])]
  BY <1>1, ConcatProperties DEF Timeline
<1>3. Len(seen[s]) \in Nat /\ Len(queue[s]) \in Nat
  BY <1>1, LenProperties
<1>4. \A i \in 1..(Len(seen[s]) + Len(queue[s])) : Timeline(s)[i] \in Nat
  BY <1>2, ElementOfSeq
<1> QED
  BY <1>2, <1>3, <1>4

(* A send moves the head of the queue behind what was sent before.         *)
LEMMA SendKeepsLine ==
  ASSUME TypeOK, TypeOK', NEW s \in Stream, StreamSends(s)
  PROVE  Timeline(s)' = Timeline(s) /\ Len(queue[s])' <= Len(queue[s])
<1> DEFINE q == queue[s]
           n == Len(seen[s])
<1>1. q \in Seq(Nat) /\ q # << >> /\ seen[s] \in Seq(Nat)
  BY DEF StreamSends, TypeOK
<1>2. seen'[s] = Append(seen[s], Head(q)) /\ queue'[s] = Tail(q)
  BY DEF StreamSends, TypeOK
<1>3. /\ Head(q) \in Nat /\ Head(q) = q[1] /\ Tail(q) \in Seq(Nat)
      /\ Len(Tail(q)) = Len(q) - 1
      /\ \A i \in 1..(Len(q) - 1) : Tail(q)[i] = q[i + 1]
  BY <1>1, HeadTailProperties
<1>4. /\ Append(seen[s], Head(q)) \in Seq(Nat)
      /\ Len(Append(seen[s], Head(q))) = n + 1
      /\ \A i \in 1..(n + 1) : Append(seen[s], Head(q))[i] =
                                 IF i <= n THEN seen[s][i] ELSE Head(q)
  <2> HIDE DEF q
  <2> QED
    BY <1>1, <1>3, AppendProperties, LenProperties
<1>5. /\ Timeline(s)' \in Seq(Nat)
      /\ Len(Timeline(s)') = (n + 1) + (Len(q) - 1)
      /\ \A i \in 1..((n + 1) + (Len(q) - 1)) :
           Timeline(s)'[i] = IF i <= n + 1 THEN seen'[s][i]
                             ELSE queue'[s][i - (n + 1)]
  <2> DEFINE a == seen'[s]
             b == queue'[s]
  <2>1. a \in Seq(Nat) /\ b \in Seq(Nat) /\ Len(a) = n + 1 /\ Len(b) = Len(q) - 1
    BY <1>2, <1>3, <1>4
  <2>2. Timeline(s)' = a \o b
    BY DEF Timeline
  <2> HIDE DEF a, b
  <2>3. /\ a \o b \in Seq(Nat) /\ Len(a \o b) = Len(a) + Len(b)
        /\ \A i \in 1..(Len(a) + Len(b)) :
             (a \o b)[i] = IF i <= Len(a) THEN a[i] ELSE b[i - Len(a)]
    BY <2>1, ConcatProperties
  <2>4. /\ a \o b \in Seq(Nat) /\ Len(a \o b) = (n + 1) + (Len(q) - 1)
        /\ \A i \in 1..((n + 1) + (Len(q) - 1)) :
             (a \o b)[i] = IF i <= n + 1 THEN a[i] ELSE b[i - (n + 1)]
    BY <2>1, <2>3
  <2> QED
    BY <2>2, <2>4 DEF a, b
<1>6. n \in Nat /\ Len(q) \in Nat /\ (n + 1) + (Len(q) - 1) = n + Len(q)
  <2>1. n \in Nat /\ Len(q) \in Nat
    BY <1>1, LenProperties
  <2> HIDE DEF n, q
  <2> QED
    BY <2>1
<1>7. Len(Timeline(s)') = Len(Timeline(s))
  BY <1>5, <1>6, LineParts
<1>8. \A i \in 1..Len(Timeline(s)) : Timeline(s)'[i] = Timeline(s)[i]
  <2> SUFFICES ASSUME NEW i \in 1..(n + Len(q)) PROVE Timeline(s)'[i] = Timeline(s)[i]
    BY LineParts
  <2>2. Timeline(s)'[i] = IF i <= n + 1 THEN seen'[s][i] ELSE queue'[s][i - (n + 1)]
    BY <1>5, <1>6
  <2>3. Timeline(s)[i] = IF i <= n THEN seen[s][i] ELSE q[i - n]
    BY LineParts
  <2>4. CASE i <= n + 1
    BY <1>2, <1>3, <1>4, <1>6, <2>2, <2>3, <2>4
  <2>5. CASE i > n + 1
    <3>1. i - (n + 1) \in 1..(Len(q) - 1) /\ (i - (n + 1)) + 1 = i - n
      <4> HIDE DEF n, q
      <4> QED BY <1>6, <2>5
    <3>2. queue'[s][i - (n + 1)] = q[i - n]
      BY <1>2, <1>3, <3>1
    <3> QED
      BY <1>6, <2>2, <2>3, <2>5, <3>2
  <2> QED
    BY <1>6, <2>4, <2>5
<1>9. Timeline(s)' = Timeline(s)
  <2> DEFINE old == Timeline(s)
             new == Timeline(s)'
  <2>1. old \in Seq(Nat) /\ new \in Seq(Nat) /\ Len(new) = Len(old)
        /\ \A i \in 1..Len(new) : new[i] = old[i]
    BY <1>5, <1>7, <1>8, LineParts
  <2> HIDE DEF old, new
  <2>2. new = old
    BY <2>1, SeqEqual
  <2> QED
    BY <2>2 DEF old, new
<1> QED
  BY <1>2, <1>3, <1>6, <1>9

(* A broadcast puts its number last on the line of a listed stream, and    *)
(* takes one event out of a line whose queue is full.                      *)
LEMMA BroadcastLine ==
  ASSUME TypeOK, TypeOK', NEW s \in Stream, Broadcasting
  PROVE  /\ Len(events') = Len(events) + 1 /\ Len(events) \in Nat
         /\ seen'[s] = seen[s] /\ joined'[s] = joined[s] /\ initial'[s] = initial[s]
         /\ s \notin sse_clients =>
              /\ Timeline(s)' = Timeline(s) /\ queue'[s] = queue[s]
              /\ dropped'[s] = dropped[s]
         /\ s \in sse_clients =>
              \E d \in 0..1 :
                /\ d = 1 <=> IsFull(s)
                /\ dropped'[s] = dropped[s] + d
                /\ Len(queue[s])' = Len(queue[s]) + 1 - d
                /\ Len(Timeline(s)') = Len(Timeline(s)) + 1 - d
                /\ Len(Timeline(s)') > 0
                /\ Timeline(s)'[Len(Timeline(s)')] = Len(events) + 1
                /\ \A i \in 1..(Len(Timeline(s)) - d) :
                     Timeline(s)'[i] = Timeline(s)[IF i <= Len(seen[s]) THEN i ELSE i + d]
<1>1. PICK e \in Event : broadcast_sse(e)
  BY DEF Broadcasting
<1>2. events \in Seq(Event) /\ Len(events) \in Nat
  BY LenProperties DEF TypeOK
<1>3. Len(events') = Len(events) + 1
  BY <1>1, <1>2, AppendProperties DEF broadcast_sse
<1>4. seen'[s] = seen[s] /\ joined'[s] = joined[s] /\ initial'[s] = initial[s]
  BY DEF Broadcasting, streamHist
<1>5. s \notin sse_clients =>
        queue'[s] = queue[s] /\ dropped'[s] = dropped[s] /\ Timeline(s)' = Timeline(s)
  BY <1>1, <1>4 DEF broadcast_sse, TypeOK, Timeline
<1>6. ASSUME s \in sse_clients
      PROVE  \E d \in 0..1 :
                /\ d = 1 <=> IsFull(s)
                /\ dropped'[s] = dropped[s] + d
                /\ Len(queue[s])' = Len(queue[s]) + 1 - d
                /\ Len(Timeline(s)') = Len(Timeline(s)) + 1 - d
                /\ Len(Timeline(s)') > 0
                /\ Timeline(s)'[Len(Timeline(s)')] = Len(events) + 1
                /\ \A i \in 1..(Len(Timeline(s)) - d) :
                     Timeline(s)'[i] = Timeline(s)[IF i <= Len(seen[s]) THEN i ELSE i + d]
  <2> DEFINE d    == IF IsFull(s) THEN 1 ELSE 0
             kept == IF IsFull(s) THEN Tail(queue[s]) ELSE queue[s]
             new  == queue'[s]
             old  == queue[s]
             sn   == seen[s]
             n    == Len(seen[s])
             k    == Len(queue[s])
             x    == Len(events) + 1
  <2>1. d \in 0..1 /\ (d = 1 <=> IsFull(s)) /\ dropped'[s] = dropped[s] + d
    BY <1>1, <1>6 DEF broadcast_sse, TypeOK
  <2>2. new = Append(kept, x)
    BY <1>1, <1>6 DEF broadcast_sse
  <2>3. sn \in Seq(Nat) /\ old \in Seq(Nat) /\ n \in Nat /\ k \in Nat /\ k >= d /\ x \in Nat
    <3>1. sn \in Seq(Nat) /\ old \in Seq(Nat) /\ x \in Nat
      BY <1>2 DEF TypeOK
    <3>2. n \in Nat /\ k \in Nat
      BY <3>1, LenProperties
    <3>3. IsFull(s) => k \in Nat \ {0}
      BY TailOfFull
    <3> QED
      BY <3>1, <3>2, <3>3
  <2>4. /\ kept \in Seq(Nat) /\ Len(kept) = k - d
        /\ \A i \in 1..(k - d) : kept[i] = old[i + d]
    <3>1. CASE IsFull(s)
      BY <2>3, <3>1, TailOfFull
    <3>2. CASE ~IsFull(s)
      BY <2>3, <3>2
    <3> QED
      BY <3>1, <3>2
  <2>5. Timeline(s)' = sn \o new
    BY <1>4 DEF Timeline
  <2>6. /\ Len(Timeline(s)) = n + k
        /\ \A i \in 1..(n + k) : Timeline(s)[i] = IF i <= n THEN sn[i] ELSE old[i - n]
    BY LineParts
  <2>7. dropped[s] \in Nat
    BY DEF TypeOK
  <2>8. n = Len(sn)
    OBVIOUS
  <2> HIDE DEF d, kept, new, old, sn, n, k, x
  <2>9. /\ new \in Seq(Nat) /\ Len(new) = k - d + 1
        /\ \A i \in 1..(k - d + 1) : new[i] = IF i <= k - d THEN kept[i] ELSE x
    <3>1. /\ Append(kept, x) \in Seq(Nat) /\ Len(Append(kept, x)) = Len(kept) + 1
          /\ \A i \in 1..(Len(kept) + 1) :
               Append(kept, x)[i] = IF i <= Len(kept) THEN kept[i] ELSE x
      BY <2>3, <2>4, AppendProperties, LenProperties
    <3> QED
      BY <3>1, <2>2, <2>4
  <2>10. /\ Len(sn \o new) = n + k - d + 1
         /\ \A i \in 1..(n + k - d + 1) :
              (sn \o new)[i] = IF i <= n THEN sn[i] ELSE new[i - n]
    <3>1. /\ Len(sn \o new) = Len(sn) + Len(new)
          /\ \A i \in 1..(Len(sn) + Len(new)) :
               (sn \o new)[i] = IF i <= Len(sn) THEN sn[i] ELSE new[i - Len(sn)]
      BY <2>3, <2>9, ConcatProperties
    <3> QED
      BY <3>1, <2>1, <2>3, <2>8, <2>9
  <2>11. (sn \o new)[n + k - d + 1] = x
    <3>1. n + k - d + 1 \in 1..(n + k - d + 1) /\ ~(n + k - d + 1 <= n)
          /\ (n + k - d + 1) - n = k - d + 1 /\ k - d + 1 \in 1..(k - d + 1)
          /\ ~(k - d + 1 <= k - d)
      BY <2>1, <2>3
    <3>2. (sn \o new)[n + k - d + 1] = new[k - d + 1]
      BY <2>10, <3>1
    <3> QED
      BY <2>9, <3>1, <3>2
  <2>12. \A i \in 1..(n + k - d) :
           (sn \o new)[i] = Timeline(s)[IF i <= n THEN i ELSE i + d]
    <3> SUFFICES ASSUME NEW i \in 1..(n + k - d)
                 PROVE  (sn \o new)[i] = Timeline(s)[IF i <= n THEN i ELSE i + d]
      OBVIOUS
    <3>1. i \in 1..(n + k - d + 1)
      BY <2>1, <2>3
    <3>2. CASE i <= n
      <4>1. i \in 1..(n + k)
        BY <2>3, <3>2
      <4> QED
        BY <2>6, <2>10, <3>1, <3>2, <4>1
    <3>3. CASE i > n
      <4>1. i - n \in 1..(k - d) /\ i - n \in 1..(k - d + 1) /\ i + d \in 1..(n + k)
            /\ ~(i + d <= n) /\ (i + d) - n = (i - n) + d /\ ~(i <= n)
        BY <2>1, <2>3, <3>3
      <4>2. (sn \o new)[i] = kept[i - n]
        BY <2>9, <2>10, <3>1, <4>1
      <4>3. kept[i - n] = old[(i - n) + d]
        BY <2>4, <4>1
      <4>4. Timeline(s)[i + d] = old[(i - n) + d]
        BY <2>6, <4>1
      <4> QED
        BY <4>1, <4>2, <4>3, <4>4
    <3>4. i <= n \/ i > n
      BY <2>1, <2>3
    <3> QED
      BY <3>2, <3>3, <3>4, Zenon
  <2>13. /\ Len(Timeline(s)') = Len(Timeline(s)) + 1 - d
         /\ Len(Timeline(s)') > 0
         /\ Len(Timeline(s)') = n + k - d + 1
         /\ Len(new) = k + 1 - d
    BY <2>1, <2>3, <2>5, <2>6, <2>9, <2>10
  <2>14. Timeline(s)'[Len(Timeline(s)')] = x
    BY <2>5, <2>11, <2>13
  <2>15. \A i \in 1..(Len(Timeline(s)) - d) :
           Timeline(s)'[i] = Timeline(s)[IF i <= n THEN i ELSE i + d]
    <3>1. Len(Timeline(s)) - d = n + k - d
      BY <2>1, <2>3, <2>6
    <3> QED
      BY <2>5, <2>12, <3>1, Zenon
  <2> QED
    BY <2>1, <2>13, <2>14, <2>15 DEF new, k, n, x
<1> QED
  BY <1>2, <1>3, <1>4, <1>5, <1>6

(* A stream that has not joined has no line.                               *)
LEMMA NoLineYet ==
  ASSUME TypeOK, ListInv, NEW s \in Stream, NotJoined(s)
  PROVE  Len(Timeline(s)) = 0 /\ Len(queue[s]) = 0 /\ dropped[s] = 0
<1>1. seen[s] = << >> /\ queue[s] = << >> /\ dropped[s] = 0
  BY DEF ListInv
<1>2. Len(seen[s]) = 0 /\ Len(queue[s]) = 0
  BY <1>1, EmptySeq
<1>3. Len(Timeline(s)) = Len(seen[s]) + Len(queue[s])
  BY LineParts
<1> QED
  BY <1>1, <1>2, <1>3

(* The lists and the line hold initially.                                  *)
LEMMA InitLines == Init => ListInv /\ LineInv
<1> SUFFICES ASSUME Init PROVE ListInv /\ LineInv
  OBVIOUS
<1>1. TypeOK /\ Len(events) = 0
  BY InitServerTypes, EmptySeq DEF Init
<1>2. \A s \in Stream : Len(Timeline(s)) = 0
  BY <1>1, LineParts, EmptySeq DEF Init
<1> QED
  BY <1>1, <1>2 DEF Init, ListInv, LineInv, LineInOrder

(* Every step keeps unjoined streams off the list.                         *)
LEMMA NextListInv ==
  ASSUME TypeOK, ListInv, [Next]_vars
  PROVE  ListInv'
<1> SUFFICES ASSUME NEW s \in Stream, NotJoined(s)'
             PROVE  /\ s \notin sse_clients'
                    /\ seen'[s] = << >> /\ queue'[s] = << >> /\ dropped'[s] = 0
  BY DEF ListInv
<1>1. CASE Quiet(s)
  BY <1>1 DEF Quiet, ListInv
<1>2. CASE StreamJoins(s)
  BY <1>2 DEF StreamJoins, NotJoined, TypeOK
<1>3. CASE StreamSends(s)
  BY <1>3 DEF StreamSends, NotJoined, TypeOK
<1>4. CASE Broadcasting
  BY <1>4 DEF Broadcasting, broadcast_sse, ListInv, NotJoined, streamHist
<1> QED
  BY <1>1, <1>2, <1>3, <1>4, StepsOfAStream

(* Every step keeps the order of a stream's line.                          *)
LEMMA NextLineInOrder ==
  ASSUME TypeOK, TypeOK', ListInv, LineInv, [Next]_vars, NEW s \in Stream
  PROVE  LineInOrder(s)'
<1>0. LineInOrder(s)
  BY DEF LineInv
<1>1. CASE Quiet(s)
  <2>1. Timeline(s)' = Timeline(s)
    BY <1>1 DEF Quiet, Timeline
  <2> QED
    BY <1>0, <1>1, <2>1 DEF Quiet, LineInOrder
<1>2. CASE StreamJoins(s)
  <2>1. NotJoined(s)
    BY <1>2 DEF StreamJoins, NotJoined
  <2>2. Len(Timeline(s)) = 0
    BY <2>1, NoLineYet
  <2>3. Timeline(s)' = Timeline(s)
    BY <1>2 DEF StreamJoins, Timeline
  <2>4. joined'[s] = Len(events) /\ events' = events
    BY <1>2 DEF StreamJoins, TypeOK
  <2>5. Len(events) \in Nat
    BY LenProperties DEF TypeOK
  <2> QED
    BY <2>2, <2>3, <2>4, <2>5 DEF LineInOrder
<1>3. CASE StreamSends(s)
  <2>1. Timeline(s)' = Timeline(s)
    BY <1>3, SendKeepsLine
  <2> QED
    BY <1>0, <1>3, <2>1 DEF StreamSends, LineInOrder
<1>4. CASE Broadcasting /\ s \notin sse_clients
  <2>1. /\ Timeline(s)' = Timeline(s) /\ dropped'[s] = dropped[s]
        /\ joined'[s] = joined[s] /\ Len(events') = Len(events) + 1
        /\ Len(events) \in Nat
    BY <1>4, BroadcastLine
  <2>2. joined[s] \in Nat /\ \A i \in 1..Len(Timeline(s)) : Timeline(s)[i] \in Nat
    BY LineParts DEF TypeOK
  <2> QED
    BY <1>0, <2>1, <2>2 DEF LineInOrder
<1>5. CASE Broadcasting /\ s \in sse_clients
  <2>1. /\ joined'[s] = joined[s] /\ Len(events') = Len(events) + 1
        /\ Len(events) \in Nat /\ joined[s] \in Nat /\ dropped[s] \in Nat
    BY <1>5, BroadcastLine DEF TypeOK
  <2>2. PICK d \in 0..1 :
          /\ dropped'[s] = dropped[s] + d
          /\ Len(Timeline(s)') = Len(Timeline(s)) + 1 - d
          /\ Timeline(s)'[Len(Timeline(s)')] = Len(events) + 1
          /\ \A i \in 1..(Len(Timeline(s)) - d) :
               Timeline(s)'[i] = Timeline(s)[IF i <= Len(seen[s]) THEN i ELSE i + d]
    BY <1>5, BroadcastLine
  <2>3. LineComplete(s)
    BY <1>5 DEF LineInv
  <2> DEFINE old == Timeline(s)
             new == Timeline(s)'
             k   == Len(Timeline(s))
             n   == Len(events)
             m   == Len(seen[s])
             at(i) == IF i <= m THEN i ELSE i + d
  <2>4. k \in Nat /\ m \in Nat /\ \A i \in 1..k : old[i] \in Nat
    BY LineParts, LenProperties, ElementOfSeq
  <2>5. /\ joined[s] <= n
        /\ \A i \in 1..k : joined[s] < old[i] /\ old[i] <= n
        /\ \A i, j \in 1..k : i < j => old[i] < old[j]
        /\ dropped[s] = 0 => \A i \in 1..k : old[i] = joined[s] + i
        /\ k + dropped[s] = n - joined[s]
    BY <1>0, <2>3 DEF LineInOrder, LineComplete
  <2>6. /\ Len(new) = k + 1 - d /\ new[k + 1 - d] = n + 1
        /\ \A i \in 1..(k - d) : new[i] = old[at(i)]
    BY <2>2
  <2>7. \A i \in 1..(k - d) : at(i) \in 1..k /\ at(i) \in Int
    <3> HIDE DEF k, m
    <3> QED BY <2>4
  <2>8. \A i, j \in 1..(k - d) : i < j => at(i) < at(j)
    <3> HIDE DEF k, m
    <3> QED BY <2>4
  <2>9. d = 0 => \A i \in 1..(k - d) : at(i) = i
    <3> HIDE DEF k, m
    <3> QED BY <2>4
  <2> HIDE DEF old, new, k, n, m, at
  <2>10. n \in Nat
    BY <2>1 DEF n
  <2>11. \A i \in 1..(k + 1 - d) : joined[s] < new[i] /\ new[i] <= n + 1
    <3> SUFFICES ASSUME NEW i \in 1..(k + 1 - d)
                 PROVE  joined[s] < new[i] /\ new[i] <= n + 1
      OBVIOUS
    <3>1. CASE i = k + 1 - d
      BY <2>1, <2>5, <2>6, <2>10, <3>1
    <3>2. CASE i \in 1..(k - d)
      <4>1. new[i] = old[at(i)] /\ at(i) \in 1..k
        BY <2>6, <2>7, <3>2
      <4>2. joined[s] < old[at(i)] /\ old[at(i)] <= n /\ old[at(i)] \in Nat
        BY <2>4, <2>5, <4>1
      <4> QED
        BY <2>10, <4>1, <4>2
    <3> QED
      BY <2>4, <3>1, <3>2
  <2>12. \A i, j \in 1..(k + 1 - d) : i < j => new[i] < new[j]
    <3> SUFFICES ASSUME NEW i \in 1..(k + 1 - d), NEW j \in 1..(k + 1 - d), i < j
                 PROVE  new[i] < new[j]
      OBVIOUS
    <3>1. i \in 1..(k - d)
      BY <2>4
    <3>2. new[i] = old[at(i)] /\ at(i) \in 1..k
      BY <2>6, <2>7, <3>1
    <3>3. CASE j = k + 1 - d
      <4>1. old[at(i)] <= n /\ old[at(i)] \in Nat
        BY <2>4, <2>5, <3>2
      <4> QED
        BY <2>6, <2>10, <3>2, <3>3, <4>1
    <3>4. CASE j \in 1..(k - d)
      <4>1. new[j] = old[at(j)] /\ at(j) \in 1..k
        BY <2>6, <2>7, <3>4
      <4>2. at(i) < at(j)
        BY <2>8, <3>1, <3>4
      <4> QED
        BY <2>5, <3>2, <4>1, <4>2
    <3> QED
      BY <2>4, <3>3, <3>4
  <2>13. dropped'[s] = 0 => \A i \in 1..(k + 1 - d) : new[i] = joined[s] + i
    <3> SUFFICES ASSUME dropped'[s] = 0, NEW i \in 1..(k + 1 - d)
                 PROVE  new[i] = joined[s] + i
      OBVIOUS
    <3>1. d = 0 /\ dropped[s] = 0
      BY <2>1, <2>2
    <3>2. k = n - joined[s]
      BY <2>1, <2>4, <2>5, <2>10, <3>1
    <3>3. CASE i = k + 1 - d
      BY <2>1, <2>4, <2>6, <2>10, <3>1, <3>2, <3>3
    <3>4. CASE i \in 1..(k - d)
      <4>1. new[i] = old[i] /\ i \in 1..k
        BY <2>4, <2>6, <2>9, <3>1, <3>4
      <4> QED
        BY <2>5, <3>1, <4>1
    <3> QED
      BY <2>4, <3>3, <3>4
  <2>14. joined'[s] <= Len(events')
    BY <2>1, <2>5, <2>10 DEF n
  <2>15. Len(Timeline(s)') = k + 1 - d /\ Timeline(s)' = new /\ Len(events') = n + 1
    BY <2>1, <2>6 DEF new, n
  <2> QED
    BY <2>1, <2>11, <2>12, <2>13, <2>14, <2>15 DEF LineInOrder
<1> QED
  BY <1>1, <1>2, <1>3, <1>4, <1>5, StepsOfAStream

(* Every step keeps the line of a listed stream complete.                  *)
LEMMA NextLineComplete ==
  ASSUME TypeOK, TypeOK', ListInv, LineInv, [Next]_vars,
         NEW s \in Stream, s \in sse_clients'
  PROVE  LineComplete(s)'
<1>1. CASE Quiet(s)
  <2>1. Timeline(s)' = Timeline(s) /\ LineComplete(s)
    BY <1>1 DEF Quiet, Timeline, LineInv
  <2> QED
    BY <1>1, <2>1 DEF Quiet, LineComplete
<1>2. CASE StreamJoins(s)
  <2>1. NotJoined(s)
    BY <1>2 DEF StreamJoins, NotJoined
  <2>2. Len(Timeline(s)) = 0 /\ dropped[s] = 0 /\ Len(queue[s]) = 0
    BY <2>1, NoLineYet
  <2>3. Timeline(s)' = Timeline(s) /\ dropped' = dropped /\ queue' = queue
    BY <1>2 DEF StreamJoins, Timeline
  <2>4. joined'[s] = Len(events) /\ events' = events
    BY <1>2 DEF StreamJoins, TypeOK
  <2>5. Len(events) \in Nat
    BY LenProperties DEF TypeOK
  <2> QED
    BY <2>2, <2>3, <2>4, <2>5, QueueAssumption DEF LineComplete
<1>3. CASE StreamSends(s)
  <2>1. Timeline(s)' = Timeline(s) /\ Len(queue[s])' <= Len(queue[s]) /\ LineComplete(s)
    BY <1>3, SendKeepsLine DEF StreamSends, LineInv
  <2>2. Len(queue[s])' \in Nat /\ Len(queue[s]) \in Nat
    BY LineParts, LenProperties DEF TypeOK
  <2> QED
    BY <1>3, <2>1, <2>2, QueueAssumption DEF StreamSends, LineComplete
<1>4. CASE Broadcasting
  <2>1. s \in sse_clients
    BY <1>4 DEF Broadcasting
  <2>2. LineComplete(s)
    BY <2>1 DEF LineInv
  <2>3. PICK d \in 0..1 :
          /\ d = 1 <=> IsFull(s)
          /\ dropped'[s] = dropped[s] + d
          /\ Len(queue[s])' = Len(queue[s]) + 1 - d
          /\ Len(Timeline(s)') = Len(Timeline(s)) + 1 - d
          /\ Len(Timeline(s)') > 0
          /\ Timeline(s)'[Len(Timeline(s)')] = Len(events) + 1
    BY <1>4, <2>1, BroadcastLine
  <2>4. Len(events') = Len(events) + 1 /\ Len(events) \in Nat /\ joined'[s] = joined[s]
    BY <1>4, BroadcastLine
  <2>5. /\ Len(Timeline(s)) \in Nat /\ Len(queue[s]) \in Nat /\ joined[s] \in Nat
        /\ dropped[s] \in Nat
    BY LineParts DEF TypeOK
  <2>6. Len(queue[s])' <= QueueSize
    BY <2>2, <2>3, <2>5, QueueAssumption DEF LineComplete, IsFull
  <2>7. Len(Timeline(s)') + dropped'[s] = Len(events') - joined'[s]
    <3>1. Len(Timeline(s)) + dropped[s] = Len(events) - joined[s]
      BY <2>2 DEF LineComplete
    <3>2. /\ Len(Timeline(s)') = Len(Timeline(s)) + 1 - d /\ dropped'[s] = dropped[s] + d
          /\ Len(events') = Len(events) + 1 /\ joined'[s] = joined[s]
      BY <2>3, <2>4
    <3>3. PICK k \in Nat, n \in Nat, r \in Nat, j \in Nat :
            k = Len(Timeline(s)) /\ n = Len(events) /\ r = dropped[s] /\ j = joined[s]
      BY <2>4, <2>5
    <3>4. k + r = n - j
      BY <3>1, <3>3
    <3>5. (k + 1 - d) + (r + d) = (n + 1) - j
      BY <3>4
    <3> QED
      BY <3>2, <3>3, <3>5
  <2> QED
    BY <2>3, <2>4, <2>6, <2>7 DEF LineComplete
<1> QED
  BY <1>1, <1>2, <1>3, <1>4, StepsOfAStream

(* One step of the server keeps the order of the line.                     *)
LEMMA NextLineInv ==
  ASSUME TypeOK, TypeOK', ListInv, LineInv, [Next]_vars
  PROVE  LineInv'
<1>1. sse_clients' \subseteq Stream
  BY DEF TypeOK
<1> QED
  BY <1>1, NextLineInOrder, NextLineComplete DEF LineInv

(* What the lines' invariant says about a listed stream.                   *)
LEMMA LinesFollow == TypeOK /\ LineInv => StreamFollowsBroadcasts
<1> SUFFICES ASSUME TypeOK, LineInv, NEW s \in sse_clients
             PROVE  LET line == Timeline(s) IN
                    /\ \A i \in DOMAIN line :
                         line[i] > IF i = 1 THEN joined[s] ELSE line[i - 1]
                    /\ Len(line) + dropped[s] = Len(events) - joined[s]
                    /\ Len(events) > joined[s] => line[Len(line)] = Len(events)
                    /\ Len(queue[s]) <= QueueSize
  BY DEF StreamFollowsBroadcasts
<1>1. s \in Stream
  BY DEF TypeOK
<1>2. LineInOrder(s) /\ LineComplete(s)
  BY <1>1 DEF LineInv
<1>3. DOMAIN Timeline(s) = 1..Len(Timeline(s)) /\ Len(Timeline(s)) \in Nat
  BY <1>1, LineParts, LenProperties
<1>4. joined[s] \in Nat /\ \A i \in 1..Len(Timeline(s)) : Timeline(s)[i] \in Nat
  BY <1>1, LineParts DEF TypeOK
<1>5. ASSUME NEW i \in DOMAIN Timeline(s)
      PROVE  Timeline(s)[i] > IF i = 1 THEN joined[s] ELSE Timeline(s)[i - 1]
  <2>1. CASE i = 1
    BY <1>2, <1>3, <1>4, <2>1 DEF LineInOrder
  <2>2. CASE i # 1
    <3>1. i - 1 \in 1..Len(Timeline(s)) /\ i - 1 < i /\ i \in 1..Len(Timeline(s))
      BY <1>3, <2>2
    <3>2. Timeline(s)[i - 1] < Timeline(s)[i]
      BY <1>2, <3>1 DEF LineInOrder
    <3> QED
      BY <1>4, <2>2, <3>1, <3>2
  <2> QED
    BY <2>1, <2>2
<1> QED
  BY <1>2, <1>5 DEF LineComplete

(* A listed stream gets the broadcasts since it joined, in order and       *)
(* without a gap but for those its full queue dropped, never the newest.   *)
THEOREM StreamsFollow == Spec => []StreamFollowsBroadcasts
<1> DEFINE Inv == TypeOK /\ ListInv /\ LineInv
<1>1. Init => Inv
  BY InitServerTypes, InitLines
<1>2. ASSUME Inv, [Next]_vars PROVE Inv'
  BY <1>2, NextServerTypes, NextListInv, NextLineInv
<1>3. Inv => StreamFollowsBroadcasts
  BY LinesFollow
<1> QED
  BY <1>1, <1>2, <1>3, PTL DEF Spec

-----------------------------------------------------------------------------
(* A task's counter is the number of its frames among the events, none     *)
(* before it reads, and one that has reported is finished.                 *)
ReportInv ==
  /\ \A r \in Replay : replayed[r] = Cardinality(Sent(r))
  /\ \A r \in Replay : replay[r] \in {"new", "connecting"} => Sent(r) = {}
  /\ \A n \in DOMAIN events : events[n].kind = "done" => replay[events[n].task] = "finished"

(* The reports, task by task.                                              *)
TrueReport(n, r) ==
  /\ events[n].count = Cardinality(Sent(r))
  /\ \A m \in DOMAIN events \ {n} :
       events[m].kind \in {"replay", "done"} /\ events[m].task = r =>
         m < n /\ events[m].kind = "replay"

ReportsTrue ==
  \A r \in Replay, n \in DOMAIN events :
    events[n].kind = "done" /\ events[n].task = r => TrueReport(n, r)

(* What the run checks follows from the invariant.                         *)
LEMMA TrueReports == TypeOK /\ ReportsTrue => DoneCountsReplayed
<1> SUFFICES ASSUME TypeOK, ReportsTrue, NEW n \in DOMAIN events, events[n].kind = "done"
             PROVE  TrueReport(n, events[n].task)
  BY DEF DoneCountsReplayed, TrueReport
<1>1. events[n] \in Event
  BY LenProperties, ElementOfSeq DEF TypeOK
<1>2. events[n].task \in Replay
  BY <1>1 DEF Event
<1> QED
  BY <1>2 DEF ReportsTrue

(* What a broadcast adds to the events, and to the frames of a task.       *)
LEMMA EventAppended ==
  ASSUME TypeOK, NEW e \in Event, broadcast_sse(e)
  PROVE  /\ Len(events) \in Nat /\ Len(events') = Len(events) + 1
         /\ DOMAIN events = 1..Len(events) /\ DOMAIN events' = 1..(Len(events) + 1)
         /\ \A n \in 1..Len(events) : events'[n] = events[n] /\ events[n] \in Event
         /\ events'[Len(events) + 1] = e
<1>1. events \in Seq(Event) /\ events' = Append(events, e)
  BY DEF TypeOK, broadcast_sse
<1>2. /\ Append(events, e) \in Seq(Event) /\ Len(Append(events, e)) = Len(events) + 1
      /\ \A n \in 1..Len(events) : Append(events, e)[n] = events[n]
      /\ Append(events, e)[Len(events) + 1] = e
  BY <1>1, AppendProperties
<1>3. /\ Len(events) \in Nat /\ DOMAIN events = 1..Len(events)
      /\ DOMAIN Append(events, e) = 1..Len(Append(events, e))
  BY <1>1, <1>2, LenProperties
<1>4. \A n \in 1..Len(events) : events[n] \in Event
  BY <1>1, ElementOfSeq
<1> QED
  BY <1>1, <1>2, <1>3, <1>4

(* A broadcast adds one to the frames that its replay sent, if it carries  *)
(* one.                                                                    *)
LEMMA SentAppended ==
  ASSUME TypeOK, NEW e \in Event, broadcast_sse(e), NEW r \in Replay
  PROVE  /\ IsFiniteSet(Sent(r))
         /\ Len(events) + 1 \notin Sent(r)
         /\ Sent(r)' = IF e.kind = "replay" /\ e.task = r
                       THEN Sent(r) \cup {Len(events) + 1} ELSE Sent(r)
<1> DEFINE N == Len(events)
<1>1. /\ N \in Nat /\ DOMAIN events = 1..N /\ DOMAIN events' = 1..(N + 1)
      /\ \A n \in 1..N : events'[n] = events[n]
      /\ events'[N + 1] = e
  BY EventAppended
<1> HIDE DEF N
<1>2. IsFiniteSet(1..N) /\ Sent(r) \subseteq 1..N
  BY <1>1, FS_Interval DEF Sent
<1>3. IsFiniteSet(Sent(r))
  BY <1>2, FS_Subset
<1>4. N + 1 \notin Sent(r)
  BY <1>1, <1>2
<1>5. 1..(N + 1) = (1..N) \cup {N + 1}
  BY <1>1
<1>6. ASSUME NEW n
      PROVE  n \in Sent(r)' <=>
               n \in Sent(r) \/ (n = N + 1 /\ e.kind = "replay" /\ e.task = r)
  <2>1. n \in Sent(r)' <=>
          n \in (1..N) \cup {N + 1} /\ events'[n].kind = "replay" /\ events'[n].task = r
    BY <1>1, <1>5 DEF Sent
  <2>2. n \in Sent(r) <=> n \in 1..N /\ events[n].kind = "replay" /\ events[n].task = r
    BY <1>1 DEF Sent
  <2>3. CASE n \in 1..N
    <3>1. n # N + 1 /\ events'[n] = events[n]
      BY <1>1, <2>3
    <3> QED
      BY <2>1, <2>2, <2>3, <3>1
  <2>4. CASE n = N + 1
    BY <1>1, <1>4, <2>1, <2>4
  <2> QED
    BY <2>1, <2>2, <2>3, <2>4
<1>7. Sent(r)' = IF e.kind = "replay" /\ e.task = r THEN Sent(r) \cup {N + 1} ELSE Sent(r)
  BY <1>6
<1> QED
  BY <1>3, <1>4, <1>7 DEF N

(* An event that is no task's.                                             *)
LEMMA NoReport ==
  ASSUME TypeOK, ReportInv, ReportsTrue, NEW e \in Event, broadcast_sse(e),
         e.kind \in {"status", "live"}, UNCHANGED replayVars
  PROVE  ReportInv' /\ ReportsTrue'
<1> DEFINE N == Len(events)
<1>1. /\ N \in Nat /\ DOMAIN events = 1..N /\ DOMAIN events' = 1..(N + 1)
      /\ \A n \in 1..N : events'[n] = events[n] /\ events[n] \in Event
      /\ events'[N + 1] = e
  BY EventAppended
<1>2. \A r \in Replay : Sent(r)' = Sent(r)
  BY SentAppended
<1>3. UNCHANGED <<replay, replayed>>
  BY DEF replayVars
<1> HIDE DEF N
<1>4. \A n \in 1..(N + 1) : n \in 1..N \/ n = N + 1
  BY <1>1
<1>5. \A n \in DOMAIN events' : events'[n].kind \in {"replay", "done"} =>
         n \in DOMAIN events /\ events'[n] = events[n]
  BY <1>1, <1>4
<1>6. ReportInv'
  <2>1. \A r \in Replay : replayed'[r] = Cardinality(Sent(r)')
    BY <1>2, <1>3 DEF ReportInv
  <2>2. \A r \in Replay : replay'[r] \in {"new", "connecting"} => Sent(r)' = {}
    BY <1>2, <1>3 DEF ReportInv
  <2>3. \A n \in DOMAIN events' : events'[n].kind = "done" =>
           replay'[events'[n].task] = "finished"
    BY <1>3, <1>5 DEF ReportInv
  <2> QED
    BY <2>1, <2>2, <2>3 DEF ReportInv
<1>7. ReportsTrue'
  <2> SUFFICES ASSUME NEW t \in Replay, NEW n \in DOMAIN events',
                      events'[n].kind = "done", events'[n].task = t
               PROVE  TrueReport(n, t)'
    BY DEF ReportsTrue
  <2>1. n \in DOMAIN events /\ events'[n] = events[n]
    BY <1>5
  <2>2. TrueReport(n, t)
    BY <2>1 DEF ReportsTrue
  <2>3. Sent(t)' = Sent(t)
    BY <1>2
  <2>4. \A m \in DOMAIN events' : events'[m].kind \in {"replay", "done"} =>
           m \in DOMAIN events /\ events'[m] = events[m]
    BY <1>5
  <2> QED
    BY <2>1, <2>2, <2>3, <2>4 DEF TrueReport
<1> QED
  BY <1>6, <1>7

(* A frame sent on by a task that reads, and counted.                      *)
LEMMA FrameCounted ==
  ASSUME TypeOK, ReportInv, ReportsTrue, NEW r \in Replay, ReplayReceives(r)
  PROVE  ReportInv' /\ ReportsTrue'
<1> DEFINE N == Len(events)
           e == [kind |-> "replay", task |-> r]
<1>0. e \in Event /\ broadcast_sse(e) /\ e.kind = "replay" /\ e.task = r
  BY Broadcasts DEF ReplayReceives
<1> HIDE DEF e
<1>1. /\ N \in Nat /\ DOMAIN events = 1..N /\ DOMAIN events' = 1..(N + 1)
      /\ \A n \in 1..N : events'[n] = events[n] /\ events[n] \in Event
      /\ events'[N + 1] = e
  BY <1>0, EventAppended
<1>2. /\ IsFiniteSet(Sent(r)) /\ N + 1 \notin Sent(r) /\ Sent(r)' = Sent(r) \cup {N + 1}
      /\ \A t \in Replay : t # r => Sent(t)' = Sent(t)
  BY <1>0, SentAppended
<1>3. /\ replay[r] = "reading" /\ replay' = replay
      /\ replayed' = [replayed EXCEPT ![r] = @ + 1]
  BY DEF ReplayReceives
<1> HIDE DEF N
<1>4. \A n \in 1..(N + 1) : n \in 1..N \/ n = N + 1
  BY <1>1
<1>5. \A n \in DOMAIN events' : events'[n].kind = "done" =>
         /\ n \in DOMAIN events /\ events'[n] = events[n]
         /\ events[n].task \in Replay /\ events[n].task # r
  <2> SUFFICES ASSUME NEW n \in DOMAIN events', events'[n].kind = "done"
               PROVE  /\ n \in DOMAIN events /\ events'[n] = events[n]
                      /\ events[n].task \in Replay /\ events[n].task # r
    OBVIOUS
  <2>1. n \in DOMAIN events /\ events'[n] = events[n] /\ events[n] \in Event
    BY <1>0, <1>1, <1>4
  <2>2. events[n].task \in Replay
    BY <2>1 DEF Event
  <2>3. replay[events[n].task] = "finished"
    BY <2>1 DEF ReportInv
  <2> QED
    BY <1>3, <2>1, <2>2, <2>3
<1>6. ReportInv'
  <2>1. \A t \in Replay : replayed'[t] = Cardinality(Sent(t)')
    <3> SUFFICES ASSUME NEW t \in Replay PROVE replayed'[t] = Cardinality(Sent(t)')
      OBVIOUS
    <3>1. replayed[t] = Cardinality(Sent(t)) /\ t \in DOMAIN replayed
      BY DEF ReportInv, TypeOK
    <3>2. CASE t = r
      <4>1. Cardinality(Sent(r) \cup {N + 1}) = Cardinality(Sent(r)) + 1
        BY <1>2, FS_AddElement
      <4> QED
        BY <1>2, <1>3, <3>1, <3>2, <4>1
    <3>3. CASE t # r
      BY <1>2, <1>3, <3>1, <3>3
    <3> QED
      BY <3>2, <3>3
  <2>2. \A t \in Replay : replay'[t] \in {"new", "connecting"} => Sent(t)' = {}
    BY <1>2, <1>3 DEF ReportInv
  <2>3. \A n \in DOMAIN events' : events'[n].kind = "done" =>
           replay'[events'[n].task] = "finished"
    BY <1>3, <1>5 DEF ReportInv
  <2> QED
    BY <2>1, <2>2, <2>3 DEF ReportInv
<1>7. ReportsTrue'
  <2> SUFFICES ASSUME NEW t \in Replay, NEW n \in DOMAIN events',
                      events'[n].kind = "done", events'[n].task = t
               PROVE  TrueReport(n, t)'
    BY DEF ReportsTrue
  <2>1. /\ n \in DOMAIN events /\ events'[n] = events[n] /\ t # r
    BY <1>5
  <2>2. TrueReport(n, t) /\ Sent(t)' = Sent(t)
    BY <1>2, <2>1 DEF ReportsTrue
  <2>3. \A m \in DOMAIN events' : events'[m].task = t =>
           m \in DOMAIN events /\ events'[m] = events[m]
    BY <1>0, <1>1, <1>4, <2>1
  <2> QED
    BY <2>1, <2>2, <2>3 DEF TrueReport
<1> QED
  BY <1>6, <1>7

(* A task's report: it reads, or has not begun and sent nothing on.        *)
LEMMA ReportMade ==
  ASSUME TypeOK, ReportInv, ReportsTrue, NEW r \in Replay, NEW e \in Event,
         e.kind = "done", e.task = r, e.count = replayed[r], broadcast_sse(e),
         replay[r] # "finished", replay' = [replay EXCEPT ![r] = "finished"],
         replayed' = replayed
  PROVE  ReportInv' /\ ReportsTrue'
<1> DEFINE N == Len(events)
<1>1. /\ N \in Nat /\ DOMAIN events = 1..N /\ DOMAIN events' = 1..(N + 1)
      /\ \A n \in 1..N : events'[n] = events[n] /\ events[n] \in Event
      /\ events'[N + 1] = e
  BY EventAppended
<1>2. \A t \in Replay : Sent(t)' = Sent(t)
  BY SentAppended
<1>3. replay'[r] = "finished" /\ \A t \in Replay : t # r => replay'[t] = replay[t]
  BY DEF TypeOK
<1> HIDE DEF N
<1>4. \A n \in 1..(N + 1) : n \in 1..N \/ n = N + 1
  BY <1>1
<1>5. \A n \in DOMAIN events : events[n].kind = "done" =>
         events[n].task \in Replay /\ events[n].task # r
  BY <1>1 DEF ReportInv, Event
<1>6. ReportInv'
  <2>1. \A t \in Replay : replayed'[t] = Cardinality(Sent(t)')
    BY <1>2 DEF ReportInv
  <2>2. \A t \in Replay : replay'[t] \in {"new", "connecting"} => Sent(t)' = {}
    BY <1>2, <1>3 DEF ReportInv
  <2>3. \A n \in DOMAIN events' : events'[n].kind = "done" =>
           replay'[events'[n].task] = "finished"
    BY <1>1, <1>3, <1>4, <1>5 DEF ReportInv
  <2> QED
    BY <2>1, <2>2, <2>3 DEF ReportInv
<1>7. ReportsTrue'
  <2> SUFFICES ASSUME NEW t \in Replay, NEW n \in DOMAIN events',
                      events'[n].kind = "done", events'[n].task = t
               PROVE  TrueReport(n, t)'
    BY DEF ReportsTrue
  <2>1. CASE n = N + 1
    <3>1. t = r /\ events'[n] = e /\ e.count = Cardinality(Sent(t)')
      BY <1>1, <1>2, <2>1 DEF ReportInv
    <3>2. ASSUME NEW m \in DOMAIN events' \ {n}, events'[m].task = r,
                 events'[m].kind \in {"replay", "done"}
          PROVE  m < n /\ events'[m].kind = "replay"
      <4>1. m \in 1..N /\ events'[m] = events[m]
        BY <1>1, <1>4, <2>1
      <4> QED
        BY <1>1, <1>5, <2>1, <3>2, <4>1
    <3> QED
      BY <3>1, <3>2 DEF TrueReport
  <2>2. CASE n \in 1..N
    <3>1. n \in DOMAIN events /\ events'[n] = events[n] /\ t # r
      BY <1>1, <1>5, <2>2
    <3>2. TrueReport(n, t) /\ Sent(t)' = Sent(t)
      BY <1>2, <3>1 DEF ReportsTrue
    <3>3. \A m \in DOMAIN events' : events'[m].task = t =>
             m \in DOMAIN events /\ events'[m] = events[m]
      BY <1>1, <1>4, <3>1
    <3> QED
      BY <3>1, <3>2, <3>3 DEF TrueReport
  <2> QED
    BY <1>1, <1>4, <2>1, <2>2
<1> QED
  BY <1>6, <1>7

(* Steps that neither broadcast nor touch a task.                          *)
LEMMA NoEvent ==
  ASSUME ReportInv, ReportsTrue, UNCHANGED <<events, replayed>>,
         \A r \in Replay : replay'[r] \in {"new", "connecting"} =>
                              replay[r] \in {"new", "connecting"},
         \A r \in Replay : replay[r] = "finished" => replay'[r] = "finished",
         TypeOK
  PROVE  ReportInv' /\ ReportsTrue'
<1>1. \A r : Sent(r)' = Sent(r)
  BY DEF Sent
<1>2. \A n \in DOMAIN events : events[n] \in Event
  BY LenProperties, ElementOfSeq DEF TypeOK
<1>3. \A n \in DOMAIN events : events[n].kind = "done" => events[n].task \in Replay
  BY <1>2 DEF Event
<1>4. \A r, n : TrueReport(n, r) => TrueReport(n, r)'
  BY <1>1 DEF TrueReport
<1>5. ReportsTrue'
  BY <1>4 DEF ReportsTrue
<1>6. \A r \in Replay : replayed'[r] = Cardinality(Sent(r)')
  BY <1>1 DEF ReportInv
<1>7. \A r \in Replay : replay'[r] \in {"new", "connecting"} => Sent(r)' = {}
  BY <1>1 DEF ReportInv
<1>8. \A n \in DOMAIN events' : events'[n].kind = "done" =>
         replay'[events'[n].task] = "finished"
  BY <1>3 DEF ReportInv
<1> QED
  BY <1>5, <1>6, <1>7, <1>8 DEF ReportInv

(* Every step of the server keeps the reports right.                       *)
LEMMA NextReport ==
  ASSUME TypeOK, ReportInv, ReportsTrue, [Next]_vars
  PROVE  ReportInv' /\ ReportsTrue'
<1>1. ASSUME UNCHANGED <<events, replay, replayed>> PROVE ReportInv' /\ ReportsTrue'
  BY <1>1, NoEvent
<1>2. CASE ProxyConnects
  <2>1. broadcast_sse([kind |-> "status", connected |-> TRUE]) /\ UNCHANGED replayVars
    BY <1>2 DEF ProxyConnects
  <2> QED
    BY <2>1, Broadcasts, NoReport
<1>3. CASE ProxyReceives
  <2>1. broadcast_sse([kind |-> "live"]) /\ UNCHANGED replayVars
    BY <1>3 DEF ProxyReceives
  <2> QED
    BY <2>1, Broadcasts, NoReport
<1>4. CASE ProxyDisconnects
  <2>1. broadcast_sse([kind |-> "status", connected |-> FALSE]) /\ UNCHANGED replayVars
    BY <1>4 DEF ProxyDisconnects
  <2> QED
    BY <2>1, Broadcasts, NoReport
<1>5. ASSUME NEW r \in Replay, RequestReplay(r) PROVE ReportInv' /\ ReportsTrue'
  <2>1. replay[r] = "new" /\ replayed' = replayed
    BY <1>5 DEF RequestReplay
  <2>2. CASE UNCHANGED <<queue, events, dropped>> /\ replay' = [replay EXCEPT ![r] = "connecting"]
    BY <2>1, <2>2, NoEvent DEF TypeOK
  <2> DEFINE e == [kind |-> "done", task |-> r, count |-> 0]
  <2>3. CASE broadcast_sse(e) /\ replay' = [replay EXCEPT ![r] = "finished"]
    <3>1. replayed[r] = 0
      BY <2>1, FS_EmptySet DEF ReportInv
    <3>2. e \in Event /\ e.kind = "done" /\ e.task = r /\ e.count = replayed[r]
      BY <3>1, Broadcasts
    <3> HIDE DEF e
    <3> QED
      BY <2>1, <2>3, <3>2, ReportMade
  <2> QED
    BY <1>5, <2>2, <2>3 DEF RequestReplay
<1>6. ASSUME NEW r \in Replay, ReplayConnects(r) \/ ReplayFails(r)
      PROVE  ReportInv' /\ ReportsTrue'
  BY <1>6, NoEvent DEF ReplayConnects, ReplayFails, TypeOK
<1>7. ASSUME NEW r \in Replay, ReplayReceives(r) PROVE ReportInv' /\ ReportsTrue'
  BY <1>7, FrameCounted
<1>8. ASSUME NEW r \in Replay, ReplayEnds(r) PROVE ReportInv' /\ ReportsTrue'
  <2> DEFINE e == [kind |-> "done", task |-> r, count |-> replayed[r]]
  <2>1. replayed[r] \in Nat
    BY DashboardBounds DEF TypeOK
  <2>2. e \in Event /\ e.kind = "done" /\ e.task = r /\ e.count = replayed[r]
        /\ broadcast_sse(e)
    BY <1>8, <2>1, Broadcasts DEF ReplayEnds
  <2>3. replay[r] # "finished" /\ replay' = [replay EXCEPT ![r] = "finished"]
        /\ replayed' = replayed
    BY <1>8 DEF ReplayEnds
  <2> HIDE DEF e
  <2> QED
    BY <2>2, <2>3, ReportMade
<1>9. CASE ProxySubscribes \/ ProxyRetries \/ UNCHANGED vars
  BY <1>1, <1>9 DEF ProxySubscribes, ProxyRetries, vars, replayVars
<1>10. ASSUME NEW s \in Stream,
              \/ StreamOpens(s) \/ StreamJoins(s) \/ StreamDrains(s) \/ StreamSends(s)
              \/ StreamFails(s) \/ BrowserLeaves(s)
       PROVE  ReportInv' /\ ReportsTrue'
  BY <1>1, <1>10 DEF StreamOpens, StreamJoins, StreamDrains, StreamSends, StreamFails,
                     BrowserLeaves, replayVars
<1> QED
  BY <1>2, <1>3, <1>4, <1>5, <1>6, <1>7, <1>8, <1>9, <1>10 DEF Next

(* A time-travel task reports at most once, after its last frame, and with *)
(* the number of frames it sent on.                                        *)
THEOREM ReportsCount == Spec => []DoneCountsReplayed
<1> DEFINE Inv == TypeOK /\ ReportInv /\ ReportsTrue
<1>1. Init => Inv
  <2> SUFFICES ASSUME Init PROVE Inv
    OBVIOUS
  <2>1. DOMAIN events = {}
    BY DEF Init
  <2>2. \A r : Sent(r) = {}
    BY <2>1 DEF Sent
  <2> QED
    BY <2>1, <2>2, InitServerTypes, FS_EmptySet DEF Init, ReportInv, ReportsTrue
<1>2. ASSUME Inv, [Next]_vars PROVE Inv'
  BY <1>2, NextServerTypes, NextReport
<1>3. Inv => DoneCountsReplayed
  BY TrueReports
<1> QED
  BY <1>1, <1>2, <1>3, PTL DEF Spec

-----------------------------------------------------------------------------
(* After the first k events the broker status is b: the last status event  *)
(* among them says so, or there is none and the proxy has not connected.   *)
IsStatus(n) == events[n].kind = "status"

StatusIs(k, b) ==
  \/ b = FALSE /\ \A n \in 1..k : ~IsStatus(n)
  \/ \E n \in 1..k : /\ IsStatus(n) /\ events[n].connected = b
                     /\ \A m \in (n + 1)..k : ~IsStatus(m)

(* The events tell the status of the broker connection, and the status     *)
(* written first on a stream is that of the events before it joined.       *)
StatusInv ==
  \A s \in Stream, k \in Nat, b \in BOOLEAN :
    (k = Len(events) /\ b = broker_connected) \/ (k = joined[s] /\ b = initial[s]) =>
      StatusIs(k, b)

(* There is one status after k events.                                     *)
LEMMA StatusUnique ==
  ASSUME NEW k \in Nat, NEW b, NEW c, StatusIs(k, b), StatusIs(k, c)
  PROVE  b = c
<1>1. CASE b = FALSE /\ \A n \in 1..k : ~IsStatus(n)
  BY <1>1 DEF StatusIs
<1>2. CASE \E n \in 1..k : /\ IsStatus(n) /\ events[n].connected = b
                           /\ \A m \in (n + 1)..k : ~IsStatus(m)
  <2>1. PICK n \in 1..k : /\ IsStatus(n) /\ events[n].connected = b
                          /\ \A m \in (n + 1)..k : ~IsStatus(m)
    BY <1>2
  <2>2. PICK j \in 1..k : /\ IsStatus(j) /\ events[j].connected = c
                          /\ \A m \in (j + 1)..k : ~IsStatus(m)
    BY <2>1 DEF StatusIs
  <2>3. ~(n < j) /\ ~(j < n)
    BY <2>1, <2>2
  <2> QED
    BY <2>1, <2>2, <2>3
<1> QED
  BY <1>1, <1>2 DEF StatusIs

(* An event that is no status keeps it, a status event sets it.            *)
LEMMA StatusAfterEvent ==
  ASSUME NEW k \in Nat, NEW b
  PROVE  /\ StatusIs(k, b)' /\ ~IsStatus(k + 1)' => StatusIs(k + 1, b)'
         /\ IsStatus(k + 1)' /\ events'[k + 1].connected = b => StatusIs(k + 1, b)'
<1>1. ASSUME StatusIs(k, b)', ~IsStatus(k + 1)' PROVE StatusIs(k + 1, b)'
  <2>1. CASE b = FALSE /\ \A n \in 1..k : ~IsStatus(n)'
    BY <1>1, <2>1 DEF StatusIs
  <2>2. CASE \E n \in 1..k : /\ IsStatus(n)' /\ events'[n].connected = b
                             /\ \A m \in (n + 1)..k : ~IsStatus(m)'
    <3>1. PICK n \in 1..k : /\ IsStatus(n)' /\ events'[n].connected = b
                            /\ \A m \in (n + 1)..k : ~IsStatus(m)'
      BY <2>2
    <3>2. n \in 1..(k + 1) /\ \A m \in (n + 1)..(k + 1) : m \in (n + 1)..k \/ m = k + 1
      OBVIOUS
    <3> QED
      BY <1>1, <3>1, <3>2 DEF StatusIs
  <2> QED
    BY <1>1, <2>1, <2>2 DEF StatusIs
<1>2. ASSUME IsStatus(k + 1)', events'[k + 1].connected = b PROVE StatusIs(k + 1, b)'
  <2>1. k + 1 \in 1..(k + 1) /\ ((k + 1) + 1)..(k + 1) = {}
    OBVIOUS
  <2> QED
    BY <1>2, <2>1 DEF StatusIs
<1> QED
  BY <1>1, <1>2

(* Later events do not change what the first k said.                       *)
LEMMA StatusStays ==
  ASSUME NEW k \in Nat, NEW b, StatusIs(k, b), \A n \in 1..k : events'[n] = events[n]
  PROVE  StatusIs(k, b)'
<1>1. \A n \in 1..k : IsStatus(n)' <=> IsStatus(n)
  BY DEF IsStatus
<1>2. CASE b = FALSE /\ \A n \in 1..k : ~IsStatus(n)
  BY <1>1, <1>2 DEF StatusIs
<1>3. CASE \E n \in 1..k : /\ IsStatus(n) /\ events[n].connected = b
                           /\ \A m \in (n + 1)..k : ~IsStatus(m)
  <2>1. PICK n \in 1..k : /\ IsStatus(n) /\ events[n].connected = b
                          /\ \A m \in (n + 1)..k : ~IsStatus(m)
    BY <1>3
  <2>2. \A m \in (n + 1)..k : m \in 1..k
    OBVIOUS
  <2> QED
    BY <1>1, <2>1, <2>2 DEF StatusIs
<1> QED
  BY <1>2, <1>3 DEF StatusIs

(* Every step of the server keeps the first events.                        *)
LEMMA EventsStay ==
  ASSUME TypeOK, [Next]_vars, NEW s \in Stream
  PROVE  \A n \in 1..Len(events) : events'[n] = events[n]
<1>1. CASE Quiet(s) \/ StreamJoins(s) \/ StreamSends(s)
  BY <1>1 DEF Quiet, StreamJoins, StreamSends
<1>2. CASE Broadcasting
  <2>1. PICK e \in Event : broadcast_sse(e)
    BY <1>2 DEF Broadcasting
  <2> QED
    BY <2>1, EventAppended
<1> QED
  BY <1>1, <1>2, StepsOfAStream

(* The status flags are right initially.                                   *)
LEMMA InitStatus == Init => StatusInv
<1> SUFFICES ASSUME Init PROVE StatusInv
  OBVIOUS
<1>1. StatusIs(0, FALSE)
  BY DEF StatusIs
<1>2. Len(events) = 0 /\ broker_connected = FALSE
  BY EmptySeq DEF Init
<1>3. \A s \in Stream : joined[s] = 0 /\ initial[s] = FALSE
  BY DEF Init
<1> QED
  BY <1>1, <1>2, <1>3 DEF StatusInv

(* Every step keeps the events true to the broker connection.              *)
LEMMA NextEventsTell ==
  ASSUME TypeOK, StatusInv, [Next]_vars, NEW s \in Stream,
         NEW k \in Nat, NEW b \in BOOLEAN, k = Len(events'), b = broker_connected'
  PROVE  StatusIs(k, b)'
<1>1. CASE Quiet(s) \/ StreamJoins(s) \/ StreamSends(s)
  <2>1. events' = events /\ broker_connected' = broker_connected
    BY <1>1 DEF Quiet, StreamJoins, StreamSends, brokerVars
  <2>2. StatusIs(k, b)
    BY <2>1 DEF StatusInv
  <2> QED
    BY <2>1, <2>2 DEF StatusIs, IsStatus
<1>2. CASE Broadcasting
  <2>1. PICK e \in Event :
          /\ broadcast_sse(e)
          /\ broker_connected' = IF e.kind = "status" THEN e.connected ELSE broker_connected
    BY <1>2 DEF Broadcasting
  <2>2. PICK n \in Nat : n = Len(events)
    BY LenProperties DEF TypeOK
  <2>3. /\ k = n + 1 /\ events'[n + 1] = e
        /\ \A m \in 1..n : events'[m] = events[m]
    BY <2>1, <2>2, EventAppended
  <2>5. CASE e.kind = "status"
    <3>1. IsStatus(n + 1)' /\ events'[n + 1].connected = b
      BY <2>1, <2>3, <2>5 DEF IsStatus
    <3>2. StatusIs(n + 1, b)'
      BY <3>1, StatusAfterEvent
    <3> QED
      BY <2>3, <3>2
  <2>6. CASE e.kind # "status"
    <3>1. ~IsStatus(n + 1)' /\ b = broker_connected
      BY <2>1, <2>3, <2>6 DEF IsStatus
    <3>2. StatusIs(n, b)
      BY <2>2, <3>1 DEF StatusInv
    <3>3. StatusIs(n, b)'
      BY <2>3, <3>2, StatusStays
    <3> QED
      BY <2>3, <3>1, <3>3, StatusAfterEvent
  <2> QED
    BY <2>5, <2>6
<1> QED
  BY <1>1, <1>2, StepsOfAStream

(* Every step keeps the status that a stream was told first.               *)
LEMMA NextInitialTold ==
  ASSUME TypeOK, LineInv, StatusInv, [Next]_vars, NEW s \in Stream,
         NEW k \in Nat, NEW b \in BOOLEAN, k = joined'[s], b = initial'[s]
  PROVE  StatusIs(k, b)'
<1>1. CASE StreamJoins(s)
  <2>1. joined'[s] = Len(events) /\ initial'[s] = broker_connected /\ events' = events
    BY <1>1 DEF StreamJoins, TypeOK
  <2>2. StatusIs(k, b)
    BY <2>1 DEF StatusInv
  <2> QED
    BY <2>1, <2>2, StatusStays
<1>2. CASE Quiet(s) \/ StreamSends(s) \/ Broadcasting
  <2>1. joined'[s] = joined[s] /\ initial'[s] = initial[s]
    BY <1>2 DEF Quiet, StreamSends, Broadcasting, streamHist
  <2>2. StatusIs(k, b)
    BY <2>1 DEF StatusInv
  <2>3. k <= Len(events) /\ Len(events) \in Nat
    BY <2>1, LenProperties DEF LineInv, LineInOrder, TypeOK
  <2>4. \A n \in 1..k : events'[n] = events[n]
    BY <2>3, EventsStay
  <2> QED
    BY <2>2, <2>4, StatusStays
<1> QED
  BY <1>1, <1>2, StepsOfAStream

(* One step of the server keeps the status flags right.                    *)
LEMMA NextStatusInv ==
  ASSUME TypeOK, LineInv, StatusInv, [Next]_vars
  PROVE  StatusInv'
BY NextEventsTell, NextInitialTold DEF StatusInv

(* What the server keeps, for any browsers.                                *)
ServerInv == TypeOK /\ ListInv /\ LineInv /\ StatusInv

(* All invariants of the dashboard's server together.                      *)
LEMMA ServerInvariant == Spec => []ServerInv
<1>1. Init => ServerInv
  BY InitServerTypes, InitLines, InitStatus DEF ServerInv
<1>2. ASSUME ServerInv, [Next]_vars PROVE ServerInv'
  <2>1. TypeOK /\ ListInv /\ LineInv /\ StatusInv /\ TypeOK'
    BY <1>2, NextServerTypes DEF ServerInv
  <2> QED
    BY <1>2, <2>1, NextListInv, NextLineInv, NextStatusInv DEF ServerInv
<1> QED
  BY <1>1, <1>2, PTL DEF Spec

-----------------------------------------------------------------------------
(* The page in front of the server.                                        *)

SourceOK == source \in Stream \cup {NoStream}

(* Closing the page's stream is what a browser may do.                     *)
LEMMA HangupLeaves ==
  ASSUME TypeOK, SourceOK, Hangup,
         UNCHANGED <<brokerVars, sse_clients, queue, stream, replayVars, events, dropped,
                     streamHist>>
  PROVE  [Next]_vars
<1>1. CASE source # NoStream /\ stream[source] # "new" /\ peer[source]
  <2>1. source \in Stream
    BY <1>1 DEF SourceOK
  <2>2. BrowserLeaves(source)
    BY <1>1 DEF BrowserLeaves, Hangup
  <2> QED
    BY <2>1, <2>2 DEF Next
<1>2. CASE ~(source # NoStream /\ stream[source] # "new" /\ peer[source])
  <2>1. peer' = peer
    BY <1>2 DEF Hangup, TypeOK, SourceOK
  <2> QED
    BY <2>1 DEF vars, streamVars
<1> QED
  BY <1>1, <1>2

(* Every step of the page and the server is one of the server's.           *)
LEMMA PageStep ==
  ASSUME TypeOK, SourceOK, [PageNext]_allVars
  PROVE  [Next]_vars /\ SourceOK'
<1>1. CASE Server /\ UNCHANGED pageVars
  BY <1>1 DEF Server, Next, SourceOK, pageVars, connVars
<1>2. CASE source # NoStream /\ StreamOpens(source) /\ UNCHANGED pageVars
  <2>1. source \in Stream
    BY <1>2 DEF SourceOK
  <2> QED
    BY <1>2, <2>1 DEF Next, SourceOK, pageVars, connVars
<1>3. CASE connectSSE
  <2>1. source' \in Stream
    BY <1>3 DEF connectSSE
  <2> QED
    BY <1>3, <2>1, HangupLeaves DEF connectSSE, SourceOK
<1>4. CASE onerror
  BY <1>4, HangupLeaves DEF onerror, SourceOK
<1>5. CASE onopen \/ onmessage \/ Click \/ FallbackFires \/ ResetFires
  BY <1>5 DEF onopen, onmessage, Click, FallbackFires, ResetFires, SourceOK, connVars
<1>6. ASSUME NEW r \in Replay, ServeReplay(r) PROVE [Next]_vars /\ SourceOK'
  BY <1>6 DEF ServeReplay, Next, SourceOK, pageVars, connVars
<1>7. ASSUME NEW r \in Replay, FetchSettles(r) \/ FetchRejects(r)
      PROVE  [Next]_vars /\ SourceOK'
  BY <1>7 DEF FetchSettles, FetchRejects, SourceOK, connVars
<1>8. CASE UNCHANGED allVars
  BY <1>8 DEF allVars, SourceOK, pageVars, connVars
<1> QED
  BY <1>1, <1>2, <1>3, <1>4, <1>5, <1>6, <1>7, <1>8 DEF PageNext

(* The page is one of the environments of the server: whatever holds of    *)
(* dashboard_server.py with any browsers holds in front of this page.      *)
THEOREM PageIsABrowser == PageSpec => Spec
<1>1. PageInit => Init /\ TypeOK /\ SourceOK
  BY InitServerTypes DEF PageInit, SourceOK
<1>2. ASSUME TypeOK, SourceOK, [PageNext]_allVars
      PROVE  [Next]_vars /\ TypeOK' /\ SourceOK'
  BY <1>2, PageStep, NextServerTypes
<1> QED
  BY <1>1, <1>2, PTL DEF PageSpec, Spec

(* In front of this page, too, streams follow the broadcasts and reports   *)
(* count what was sent on.                                                 *)
COROLLARY ServerBehindThePage == PageSpec => []StreamFollowsBroadcasts /\ []DoneCountsReplayed
BY PageIsABrowser, StreamsFollow, ReportsCount, PTL

-----------------------------------------------------------------------------
(* The page has one stream or one timer; a stream nobody has opened yet    *)
(* and the one the page has are those with a browser; and the page handles *)
(* nothing that was not written to an opened source.                       *)
PageInv ==
  /\ SourceOK /\ opened \in BOOLEAN /\ taken \in Nat /\ shown \in Shown
  /\ source = NoStream => ~opened
  /\ ~opened => taken = 0
  /\ source # NoStream => taken <= Written(source)
  /\ OneConnectionLoop
  /\ \A s \in Stream : stream[s] = "new" \/ s = source => peer[s]

(* What the handler of a stream has written only grows.                    *)
LEMMA WrittenGrows ==
  ASSUME TypeOK, [Next]_vars, NEW s \in Stream
  PROVE  /\ Written(s) \in Nat /\ Written(s)' \in Nat /\ Written(s) <= Written(s)'
         /\ Len(seen[s]) \in Nat
<1>0. TypeOK'
  BY NextServerTypes
<1>1. seen[s] \in Seq(Nat) /\ seen'[s] \in Seq(Nat)
  BY <1>0 DEF TypeOK
<1>2. Len(seen[s]) \in Nat /\ Len(seen'[s]) \in Nat
  BY <1>1, LenProperties
<1>3. Written(s) = (IF NotJoined(s) THEN 0 ELSE 1) + Len(seen[s])
      /\ Written(s)' = (IF NotJoined(s)' THEN 0 ELSE 1) + Len(seen'[s])
  BY DEF Written, NotJoined
<1>4. NotJoined(s)' => NotJoined(s)
  <2>1. StreamJoins(s) \/ StreamSends(s) => ~NotJoined(s)'
    BY DEF StreamJoins, StreamSends, NotJoined, TypeOK
  <2>2. Broadcasting => NotJoined(s)' = NotJoined(s)
    BY DEF Broadcasting, NotJoined
  <2> QED
    BY <2>1, <2>2, StepsOfAStream DEF Quiet
<1>5. Len(seen[s]) <= Len(seen'[s])
  <2>1. CASE StreamSends(s)
    <3>1. queue[s] \in Seq(Nat) /\ queue[s] # << >>
      BY <2>1 DEF StreamSends, TypeOK
    <3>2. Head(queue[s]) \in Nat
      BY <3>1, HeadTailProperties
    <3>3. seen'[s] = Append(seen[s], Head(queue[s]))
      BY <2>1 DEF StreamSends, TypeOK
    <3>4. Len(seen'[s]) = Len(seen[s]) + 1
      BY <1>1, <3>2, <3>3, AppendProperties
    <3> QED
      BY <1>2, <3>4
  <2>2. CASE ~StreamSends(s)
    <3>1. seen'[s] = seen[s]
      BY <2>2, StepsOfAStream DEF Quiet, StreamJoins, Broadcasting, streamHist
    <3> QED
      BY <1>2, <3>1
  <2> QED
    BY <2>1, <2>2
<1>6. ASSUME NEW a \in Nat, NEW b \in Nat, a <= b, NEW p \in 0..1, NEW q \in 0..1, p <= q
      PROVE  p + a \in Nat /\ q + b \in Nat /\ p + a <= q + b
  BY <1>6
<1> DEFINE p == IF NotJoined(s) THEN 0 ELSE 1
           q == IF NotJoined(s)' THEN 0 ELSE 1
<1>7. p \in 0..1 /\ q \in 0..1 /\ p <= q
  BY <1>4
<1> HIDE DEF p, q
<1>8. p + Len(seen[s]) \in Nat /\ q + Len(seen'[s]) \in Nat
      /\ p + Len(seen[s]) <= q + Len(seen'[s])
  BY <1>2, <1>5, <1>6, <1>7
<1> QED
  BY <1>2, <1>3, <1>8 DEF p, q

(* A step of the server takes no browser away, and opens the page's        *)
(* stream only.                                                            *)
ServerMoves ==
  /\ UNCHANGED <<pageVars, peer>>
  /\ \A s \in Stream : (stream[s] = "new" <=> stream'[s] = "new") \/ s = source
  /\ \A s \in Stream : stream'[s] = "new" => stream[s] = "new"

PageOnly ==
  /\ UNCHANGED vars
  /\ \/ onopen \/ onmessage \/ Click \/ FallbackFires \/ ResetFires
     \/ \E r \in Replay : FetchSettles(r) \/ FetchRejects(r)
     \/ UNCHANGED pageVars

(* A step of the composition is the server's, the page's alone, or opens   *)
(* or loses the page's stream.                                             *)
LEMMA PageKinds ==
  ASSUME TypeOK, SourceOK, [PageNext]_allVars
  PROVE  ServerMoves \/ PageOnly \/ connectSSE \/ onerror
<1> USE DEF brokerVars, streamVars, replayVars, streamHist
<1>1. ASSUME UNCHANGED <<pageVars, peer, stream>> PROVE ServerMoves
  BY <1>1 DEF ServerMoves
<1>2. CASE Server /\ UNCHANGED pageVars
  <2>1. CASE \/ ProxyConnects \/ ProxySubscribes \/ ProxyReceives \/ ProxyDisconnects
             \/ ProxyRetries
    BY <1>1, <1>2, <2>1 DEF ProxyConnects, ProxySubscribes, ProxyReceives, ProxyDisconnects,
                            ProxyRetries
  <2>2. ASSUME NEW s \in Stream,
               StreamJoins(s) \/ StreamDrains(s) \/ StreamSends(s) \/ StreamFails(s)
        PROVE  ServerMoves
    BY <1>2, <2>2 DEF ServerMoves, StreamJoins, StreamDrains, StreamSends, StreamFails, TypeOK
  <2>3. ASSUME NEW r \in Replay,
               ReplayConnects(r) \/ ReplayFails(r) \/ ReplayReceives(r) \/ ReplayEnds(r)
        PROVE  ServerMoves
    BY <1>1, <1>2, <2>3 DEF ReplayConnects, ReplayFails, ReplayReceives, ReplayEnds
  <2> QED
    BY <1>2, <2>1, <2>2, <2>3 DEF Server
<1>3. CASE source # NoStream /\ StreamOpens(source) /\ UNCHANGED pageVars
  BY <1>3 DEF ServerMoves, StreamOpens, TypeOK, SourceOK
<1>4. ASSUME NEW r \in Replay, ServeReplay(r) PROVE ServerMoves
  BY <1>1, <1>4 DEF ServeReplay, RequestReplay
<1>5. CASE onopen \/ onmessage \/ Click \/ FallbackFires \/ ResetFires
  BY <1>5 DEF PageOnly, onopen, onmessage, Click, FallbackFires, ResetFires
<1>6. ASSUME NEW r \in Replay, FetchSettles(r) \/ FetchRejects(r) PROVE PageOnly
  BY <1>6 DEF PageOnly, FetchSettles, FetchRejects
<1>7. CASE UNCHANGED allVars
  BY <1>7 DEF allVars, PageOnly
<1> QED
  BY <1>2, <1>3, <1>4, <1>5, <1>6, <1>7 DEF PageNext

(* The page starts in its invariant.                                       *)
LEMMA InitPage == PageInit => PageInv
<1> SUFFICES ASSUME PageInit PROVE PageInv
  OBVIOUS
<1>1. source = NoStream /\ opened = FALSE /\ taken = 0 /\ retries = 1 /\ shown = "blank"
  BY DEF PageInit
<1>2. \A s \in Stream : stream[s] = "new" /\ peer[s] = TRUE
  BY DEF PageInit, Init
<1> QED
  BY <1>1, <1>2 DEF PageInv, SourceOK, OneConnectionLoop, Shown

(* Every step keeps the page's one connection.                             *)
LEMMA NextPageInv ==
  ASSUME TypeOK, PageInv, [PageNext]_allVars
  PROVE  PageInv'
<1>0. SourceOK /\ [Next]_vars /\ SourceOK'
  BY PageStep DEF PageInv
<1>1. CASE ServerMoves
  <2>1. UNCHANGED <<source, opened, taken, retries, shown, peer>>
    BY <1>1 DEF ServerMoves, pageVars, connVars
  <2>2. source # NoStream => taken <= Written(source)'
    <3> SUFFICES ASSUME source # NoStream PROVE taken <= Written(source)'
      OBVIOUS
    <3>1. PICK s \in Stream : s = source
      BY <1>0 DEF SourceOK
    <3>2. Written(s) \in Nat /\ Written(s)' \in Nat /\ Written(s) <= Written(s)'
      BY <1>0, WrittenGrows
    <3>3. taken <= Written(s) /\ taken \in Nat
      BY <3>1 DEF PageInv
    <3>4. taken <= Written(s)'
      BY <3>2, <3>3
    <3> QED
      BY <2>1, <3>1, <3>4 DEF Written
  <2>3. OneConnectionLoop'
    BY <1>1, <2>1 DEF ServerMoves, PageInv, OneConnectionLoop
  <2>4. \A s \in Stream : stream'[s] = "new" \/ s = source => peer[s]
    BY <1>1 DEF ServerMoves, PageInv
  <2> QED
    BY <1>0, <2>1, <2>2, <2>3, <2>4 DEF PageInv
<1>2. CASE PageOnly
  <2>1. UNCHANGED <<stream, peer, seen>>
    BY <1>2 DEF PageOnly, vars, streamVars, streamHist
  <2>2. CASE onopen
    BY <1>0, <2>1, <2>2 DEF onopen, PageInv, OneConnectionLoop, Written, Shown
  <2>3. CASE onmessage
    <3>1. PICK s \in Stream : s = source
      BY <2>3 DEF onmessage, PageInv, SourceOK
    <3>2. Written(s) \in Nat
      BY <1>0, WrittenGrows
    <3>3. taken \in Nat /\ taken' = taken + 1 /\ taken + 1 <= Written(s) /\ opened
      BY <2>3, <3>1, <3>2 DEF onmessage, PageInv
    <3>4. UNCHANGED <<source, opened, retries>>
      BY <2>3 DEF onmessage
    <3>5. shown' \in Shown
      BY <2>3 DEF onmessage, PageInv, Shown, StatusText
    <3>6. taken' <= Written(source)'
      BY <2>1, <3>1, <3>3, <3>4 DEF Written
    <3> QED
      <4>1. OneConnectionLoop' /\ \A t \in Stream : stream'[t] = "new" \/ t = source' => peer'[t]
        BY <2>1, <3>4 DEF PageInv, OneConnectionLoop
      <4>2. opened' /\ taken' \in Nat /\ opened' \in BOOLEAN
        BY <3>3, <3>4 DEF PageInv
      <4>3. source' # NoStream
        BY <3>1, <3>4, NoStreamAssumption
      <4> QED
        BY <1>0, <3>5, <3>6, <4>1, <4>2, <4>3 DEF PageInv
  <2>4. CASE \/ Click \/ FallbackFires \/ ResetFires \/ UNCHANGED pageVars
             \/ \E r \in Replay : FetchSettles(r) \/ FetchRejects(r)
    <3>1. UNCHANGED <<source, opened, taken, retries, shown>>
      BY <2>4 DEF Click, FallbackFires, ResetFires, FetchSettles, FetchRejects, connVars,
                  pageVars
    <3> QED
      BY <1>0, <2>1, <3>1 DEF PageInv, OneConnectionLoop, Written
  <2> QED
    BY <1>2, <2>2, <2>3, <2>4 DEF PageOnly
<1>3. CASE connectSSE
  <2>1. source = NoStream /\ retries = 1
    BY <1>3 DEF connectSSE, PageInv, OneConnectionLoop
  <2>2. /\ source' \in Stream /\ stream[source'] = "new"
        /\ UNCHANGED <<stream, seen, shown>> /\ retries' = 0
        /\ opened' = FALSE /\ taken' = 0
    BY <1>3, <2>1 DEF connectSSE, streamHist
  <2>3. peer' = peer
    BY <1>3, <2>1 DEF connectSSE, Hangup
  <2>4. PICK s \in Stream : s = source'
    BY <2>2
  <2>5. Written(s)' \in Nat
    BY <1>0, WrittenGrows
  <2>6. taken' <= Written(source)'
    <3>1. Written(source)' = Written(s)'
      BY <2>4 DEF Written
    <3> QED
      BY <2>2, <2>5, <3>1
  <2>7. OneConnectionLoop'
    BY <2>1, <2>2, <2>3, NoStreamAssumption DEF PageInv, OneConnectionLoop
  <2>8. \A t \in Stream : stream'[t] = "new" \/ t = source' => peer'[t]
    BY <2>2, <2>3 DEF PageInv
  <2> QED
    BY <1>0, <2>2, <2>6, <2>7, <2>8, NoStreamAssumption DEF PageInv, Written
<1>4. CASE onerror
  <2>1. PICK s \in Stream : s = source
    BY <1>0, <1>4 DEF onerror, SourceOK
  <2>2. /\ source' = NoStream /\ opened' = FALSE /\ taken' = 0 /\ shown' = "retrying"
        /\ UNCHANGED <<stream, seen>> /\ retries' = retries + 1
    BY <1>4 DEF onerror, streamHist
  <2>3. retries = 0
    BY <1>4 DEF onerror, PageInv, OneConnectionLoop
  <2>4. /\ stream[s] # "new" => ~peer'[s]
        /\ stream[s] = "new" => peer' = peer
        /\ \A t \in Stream : t # s => peer'[t] = peer[t]
    BY <1>4, <2>1 DEF onerror, Hangup, TypeOK
  <2>5. OneConnectionLoop'
    BY <2>1, <2>2, <2>3, <2>4, NoStreamAssumption DEF PageInv, OneConnectionLoop
  <2>6. \A t \in Stream : stream'[t] = "new" \/ t = source' => peer'[t]
    BY <2>1, <2>2, <2>4, NoStreamAssumption DEF PageInv
  <2> QED
    BY <1>0, <2>2, <2>5, <2>6 DEF PageInv, Shown
<1> QED
  BY <1>0, <1>1, <1>2, <1>3, <1>4, PageKinds

(* However streams and timers fail and fire, the page has one EventSource  *)
(* or one timer, and no other open stream has a browser.                   *)
THEOREM OneLoop == PageSpec => []OneConnectionLoop
<1>1. PageInit => TypeOK /\ PageInv
  BY InitServerTypes, InitPage DEF PageInit
<1>2. ASSUME TypeOK, PageInv, [PageNext]_allVars PROVE TypeOK' /\ PageInv'
  BY <1>2, NextPageInv, PageStep, NextServerTypes DEF PageInv
<1>3. PageInv => OneConnectionLoop
  BY DEF PageInv
<1> QED
  BY <1>1, <1>2, <1>3, PTL DEF PageSpec

-----------------------------------------------------------------------------
(* The number of the last event that the page may have handled when it has *)
(* handled k messages of stream s; each message it handles has a later     *)
(* one, also across its streams, so no event starts two timers.            *)
Handled(s, k) == IF NotJoined(s) THEN Len(events)
                 ELSE IF k <= 1 THEN joined[s] ELSE seen[s][k - 1]

ResetInv ==
  /\ button \in [disabled : BOOLEAN, text : Text] /\ fetching \subseteq Replay
  /\ fallback \in BOOLEAN /\ resets \in Nat
  /\ IF Stream = {} THEN resets = 0
     ELSE resets <= Len(events) /\ Len(events) <= MaxEvents
  /\ \A s \in Stream, k \in Nat : s = source /\ k = taken => resets <= Handled(s, k)

(* The events sent on a stream, as parts of its line.                      *)
LEMMA SeenInOrder ==
  ASSUME TypeOK, LineInv, NEW s \in Stream
  PROVE  /\ Len(seen[s]) \in Nat /\ Len(events) \in Nat /\ joined[s] \in Nat
         /\ joined[s] <= Len(events)
         /\ \A i \in 1..Len(seen[s]) :
              /\ seen[s][i] \in Nat /\ joined[s] < seen[s][i] /\ seen[s][i] <= Len(events)
              /\ dropped[s] = 0 => seen[s][i] = joined[s] + i
         /\ \A i, j \in 1..Len(seen[s]) : i < j => seen[s][i] < seen[s][j]
<1>1. LineInOrder(s)
  BY DEF LineInv
<1>2. /\ Len(seen[s]) \in Nat /\ Len(queue[s]) \in Nat
      /\ Len(Timeline(s)) = Len(seen[s]) + Len(queue[s])
      /\ \A i \in 1..(Len(seen[s]) + Len(queue[s])) :
           Timeline(s)[i] \in Nat /\ (i <= Len(seen[s]) => Timeline(s)[i] = seen[s][i])
  BY LineParts
<1>3. \A i \in 1..Len(seen[s]) : i \in 1..Len(Timeline(s)) /\ seen[s][i] = Timeline(s)[i]
                                  /\ seen[s][i] \in Nat
  <2> SUFFICES ASSUME NEW i \in 1..Len(seen[s])
               PROVE  i \in 1..Len(Timeline(s)) /\ seen[s][i] = Timeline(s)[i]
                      /\ seen[s][i] \in Nat
    OBVIOUS
  <2>1. i \in 1..(Len(seen[s]) + Len(queue[s])) /\ i <= Len(seen[s])
    <3> DEFINE n == Len(seen[s])
               m == Len(queue[s])
    <3>1. n \in Nat /\ m \in Nat /\ i \in 1..n
      BY <1>2
    <3> HIDE DEF n, m
    <3>2. i \in 1..(n + m) /\ i <= n
      BY <3>1
    <3> QED
      BY <3>2 DEF n, m
  <2> QED
    BY <1>2, <2>1
<1>4. Len(events) \in Nat /\ joined[s] \in Nat
  BY LenProperties DEF TypeOK
<1> QED
  BY <1>1, <1>2, <1>3, <1>4 DEF LineInOrder

(* The events only grow.                                                   *)
LEMMA EventsGrow ==
  ASSUME TypeOK, [Next]_vars, NEW s \in Stream
  PROVE  Len(events) \in Nat /\ Len(events') \in Nat /\ Len(events) <= Len(events')
<1>0. TypeOK' /\ Len(events) \in Nat
  BY NextServerTypes, LenProperties DEF TypeOK
<1>1. CASE Broadcasting
  <2>1. Len(events') = Len(events) + 1
    BY <1>0, <1>1, BroadcastLine
  <2> QED
    BY <1>0, <2>1
<1>2. CASE ~Broadcasting
  <2>1. events' = events
    BY <1>2, StepsOfAStream DEF Quiet, StreamJoins, StreamSends
  <2> QED
    BY <1>0, <2>1
<1> QED
  BY <1>1, <1>2

(* What may have been handled does not shrink while there is a browser.    *)
LEMMA HandledGrows ==
  ASSUME TypeOK, ListInv, LineInv, [Next]_vars, NEW s \in Stream, peer[s],
         NEW k \in Nat, k <= Written(s)
  PROVE  /\ Handled(s, k) \in Nat /\ Handled(s, k) <= Len(events)
         /\ Handled(s, k)' \in Nat /\ Handled(s, k) <= Handled(s, k)'
         /\ Len(events') \in Nat /\ Len(events) <= Len(events')
<1>0. TypeOK' /\ LineInv'
  BY NextServerTypes, NextLineInv
<1>1. /\ Len(seen[s]) \in Nat /\ Len(events) \in Nat /\ joined[s] \in Nat
      /\ joined[s] <= Len(events)
      /\ \A i \in 1..Len(seen[s]) : seen[s][i] \in Nat /\ seen[s][i] <= Len(events)
  BY SeenInOrder
<1>2. Len(events') \in Nat /\ Len(events) <= Len(events')
  BY EventsGrow
<1>3. k <= 1 \/ k - 1 \in 1..Len(seen[s])
  <2>1. Written(s) <= 1 + Len(seen[s])
    BY <1>1 DEF Written
  <2>2. Written(s) \in Nat
    BY WrittenGrows
  <2> QED
    BY <1>1, <2>1, <2>2
<1>4. Handled(s, k) \in Nat /\ Handled(s, k) <= Len(events)
  BY <1>1, <1>3 DEF Handled
<1>5. Handled(s, k)' = Handled(s, k)
      \/ (Handled(s, k)' \in {Len(events), Len(events')})
  <2>1. CASE Quiet(s)
    <3>1. NotJoined(s)' <=> NotJoined(s)
      BY <2>1 DEF Quiet
    <3> QED
      BY <2>1, <3>1 DEF Quiet, Handled
  <2>2. CASE StreamJoins(s)
    <3>1. k <= 1 /\ ~NotJoined(s)' /\ joined'[s] = Len(events)
      <4>1. NotJoined(s) /\ stream[s] = "headers"
        BY <2>2 DEF StreamJoins, NotJoined
      <4>2. seen[s] = << >>
        BY <4>1 DEF ListInv
      <4>3. Written(s) = 0
        BY <4>1, <4>2, EmptySeq DEF Written
      <4> QED
        BY <2>2, <4>3 DEF StreamJoins, NotJoined, TypeOK
    <3> QED
      BY <3>1 DEF Handled
  <2>3. CASE StreamSends(s)
    <3>1. ~NotJoined(s) /\ ~NotJoined(s)' /\ joined'[s] = joined[s]
      BY <2>3 DEF StreamSends, NotJoined, TypeOK
    <3>2. k - 1 \in 1..Len(seen[s]) => seen'[s][k - 1] = seen[s][k - 1]
      <4>1. queue[s] \in Seq(Nat) /\ queue[s] # << >> /\ seen[s] \in Seq(Nat)
            /\ seen'[s] = Append(seen[s], Head(queue[s]))
        BY <2>3 DEF StreamSends, TypeOK
      <4>2. Head(queue[s]) \in Nat
        BY <4>1, HeadTailProperties
      <4>3. \A i \in 1..Len(seen[s]) : Append(seen[s], Head(queue[s]))[i] = seen[s][i]
        BY <4>1, <4>2, AppendProperties
      <4> QED
        BY <4>1, <4>3
    <3> QED
      BY <1>3, <3>1, <3>2 DEF Handled
  <2>4. CASE Broadcasting
    BY <2>4 DEF Broadcasting, streamHist, Handled, NotJoined
  <2> QED
    BY <2>1, <2>2, <2>3, <2>4, StepsOfAStream
<1> QED
  BY <1>1, <1>2, <1>4, <1>5

(* The bound on the events is one of every broadcast.                      *)
LEMMA NextEventsBounded ==
  ASSUME TypeOK, [Next]_vars, NEW s \in Stream, Len(events) <= MaxEvents
  PROVE  Len(events') <= MaxEvents
<1>1. CASE Broadcasting
  <2>1. PICK e \in Event : broadcast_sse(e)
    BY <1>1 DEF Broadcasting
  <2>2. Len(events) < MaxEvents /\ Len(events) \in Nat /\ Len(events') = Len(events) + 1
    BY <2>1, EventAppended DEF broadcast_sse
  <2> QED
    BY <2>2, DashboardBounds
<1>2. CASE ~Broadcasting
  <2>1. events' = events
    BY <1>2, StepsOfAStream DEF Quiet, StreamJoins, StreamSends
  <2> QED
    BY <2>1
<1> QED
  BY <1>1, <1>2

(* The page starts with no reset done.                                     *)
LEMMA InitReset == PageInit => ResetInv
<1> SUFFICES ASSUME PageInit PROVE ResetInv
  OBVIOUS
<1>1. resets = 0 /\ source = NoStream /\ fetching = {} /\ fallback = FALSE
      /\ button = [disabled |-> FALSE, text |-> "replay"] /\ Len(events) = 0
  BY EmptySeq DEF PageInit, Init
<1>2. button \in [disabled : BOOLEAN, text : Text]
  BY <1>1 DEF Text
<1>3. resets <= Len(events) /\ Len(events) <= MaxEvents
  BY <1>1, DashboardBounds
<1>4. \A s \in Stream : s # source
  BY <1>1, NoStreamAssumption
<1> QED
  BY <1>1, <1>2, <1>3, <1>4 DEF ResetInv

(* A handled event is a later one than those handled before.               *)
LEMMA MessageIsLater ==
  ASSUME TypeOK, ListInv, LineInv, PageInv, ResetInv, onmessage,
         NEW s \in Stream, NEW k \in Nat, s = source, k = taken
  PROVE  /\ resets' \in Nat /\ resets' <= Len(events) /\ resets' <= Handled(s, k + 1)
         /\ button' \in [disabled : BOOLEAN, text : Text]
<1>1. /\ Len(seen[s]) \in Nat /\ Len(events) \in Nat /\ joined[s] \in Nat
      /\ joined[s] <= Len(events)
      /\ \A i \in 1..Len(seen[s]) :
           seen[s][i] \in Nat /\ joined[s] < seen[s][i] /\ seen[s][i] <= Len(events)
      /\ \A i, j \in 1..Len(seen[s]) : i < j => seen[s][i] < seen[s][j]
  BY SeenInOrder
<1>2. ~NotJoined(s) /\ k <= Len(seen[s])
  <2>1. k < Written(s)
    BY DEF onmessage
  <2>2. NotJoined(s) => Written(s) = 0
    BY EmptySeq DEF Written, NotJoined, ListInv
  <2>3. ~NotJoined(s) => Written(s) = 1 + Len(seen[s])
    BY DEF Written, NotJoined
  <2> QED
    BY <1>1, <2>1, <2>2, <2>3
<1>3. resets \in Nat /\ resets <= Handled(s, k)
  BY DEF ResetInv
<1> DEFINE event == IF taken = 0 THEN [kind |-> "status", connected |-> initial[source]]
                    ELSE events[seen[source][taken]]
<1>4. IF event.kind = "done" THEN resets' = resets + 1 ELSE resets' = resets
  BY DEF onmessage
<1>5. button' \in [disabled : BOOLEAN, text : Text]
  BY DEF onmessage, ResetInv, Text
<1>6. CASE k = 0
  <2>1. event.kind = "status"
    BY <1>6
  <2>2. resets' = resets
    BY <1>4, <2>1
  <2>3. Handled(s, k) = joined[s] /\ Handled(s, k + 1) = joined[s]
    BY <1>2, <1>6 DEF Handled
  <2> QED
    BY <1>1, <1>3, <1>5, <2>2, <2>3
<1>7. CASE k > 0
  <2>1. k \in 1..Len(seen[s]) /\ Handled(s, k + 1) = seen[s][k]
    BY <1>1, <1>2, <1>7 DEF Handled
  <2>2. Handled(s, k) \in Nat /\ Handled(s, k) < seen[s][k]
    <3>1. CASE k = 1
      BY <1>1, <1>2, <2>1, <3>1 DEF Handled
    <3>2. CASE k # 1
      <4>1. k - 1 \in 1..Len(seen[s]) /\ k - 1 < k /\ ~(k <= 1)
        BY <1>7, <2>1, <3>2
      <4>2. Handled(s, k) = seen[s][k - 1]
        BY <1>2, <4>1 DEF Handled
      <4> QED
        BY <1>1, <2>1, <4>1, <4>2
    <3> QED
      BY <3>1, <3>2
  <2>3. resets' \in {resets, resets + 1}
    BY <1>4
  <2>4. seen[s][k] \in Nat /\ seen[s][k] <= Len(events)
    BY <1>1, <2>1
  <2> QED
    BY <1>1, <1>3, <1>5, <2>1, <2>2, <2>3, <2>4
<1> QED
  BY <1>6, <1>7

(* Every step keeps the button's timers within the events.                 *)
LEMMA NextReset ==
  ASSUME TypeOK, ListInv, LineInv, PageInv, ResetInv, [PageNext]_allVars
  PROVE  ResetInv'
<1>0. SourceOK /\ [Next]_vars
  BY PageStep DEF PageInv
<1>1. CASE ServerMoves
  <2>1. UNCHANGED <<source, taken, button, fetching, fallback, resets>>
    BY <1>1 DEF ServerMoves, pageVars, connVars, buttonVars
  <2>2. ASSUME NEW s \in Stream, NEW k \in Nat, s = source', k = taken'
        PROVE  resets' <= Handled(s, k)'
    <3>1. resets \in Nat /\ resets <= Handled(s, k)
      BY <2>1, <2>2 DEF ResetInv
    <3>2. k <= Written(s) /\ peer[s]
      BY <2>1, <2>2, NoStreamAssumption DEF PageInv
    <3>3. /\ Handled(s, k) \in Nat /\ Handled(s, k)' \in Nat
          /\ Handled(s, k) <= Handled(s, k)'
      BY <1>0, <3>2, HandledGrows
    <3>4. resets <= Handled(s, k)'
      BY <3>1, <3>3
    <3> QED
      BY <2>1, <3>4
  <2>3. IF Stream = {} THEN resets' = 0
        ELSE resets' <= Len(events') /\ Len(events') <= MaxEvents
    <3>1. CASE Stream = {}
      BY <2>1, <3>1 DEF ResetInv
    <3>2. CASE Stream # {}
      <4>1. PICK s \in Stream : TRUE
        BY <3>2
      <4>2. resets \in Nat /\ resets <= Len(events) /\ Len(events) <= MaxEvents
        BY <3>2 DEF ResetInv
      <4>3. Len(events') <= MaxEvents
        BY <1>0, <4>2, NextEventsBounded
      <4>4. Len(events) \in Nat /\ Len(events') \in Nat /\ Len(events) <= Len(events')
        BY <1>0, EventsGrow
      <4>5. resets <= Len(events')
        BY <4>2, <4>4
      <4> QED
        BY <2>1, <3>2, <4>3, <4>5
    <3> QED
      BY <3>1, <3>2
  <2> QED
    BY <2>1, <2>2, <2>3 DEF ResetInv
<1>2. ASSUME UNCHANGED <<stream, events, joined, seen>>,
             button' \in [disabled : BOOLEAN, text : Text], fetching' \subseteq Replay,
             fallback' \in BOOLEAN, resets' \in Nat, resets' <= resets,
             \/ source' = source /\ taken' = taken
             \/ source' = NoStream
             \/ source' \in Stream /\ stream[source'] = "new"
      PROVE  ResetInv'
  <2>1. Len(events) \in Nat /\ resets \in Nat
    BY LenProperties DEF TypeOK, ResetInv
  <2>2. IF Stream = {} THEN resets' = 0
        ELSE resets' <= Len(events') /\ Len(events') <= MaxEvents
    <3>1. CASE Stream = {}
      BY <1>2, <2>1, <3>1 DEF ResetInv
    <3>2. CASE Stream # {}
      <4>1. resets <= Len(events) /\ Len(events) <= MaxEvents
        BY <3>2 DEF ResetInv
      <4>2. resets' <= Len(events)
        BY <1>2, <2>1, <4>1
      <4> QED
        BY <1>2, <3>2, <4>1, <4>2
    <3> QED
      BY <3>1, <3>2
  <2>3. ASSUME NEW s \in Stream, NEW k \in Nat, s = source', k = taken'
        PROVE  resets' <= Handled(s, k)'
    <3>1. Handled(s, k)' = Handled(s, k)
      BY <1>2 DEF Handled, NotJoined
    <3>2. CASE s = source /\ k = taken
      <4>1. resets <= Handled(s, k)
        BY <3>2 DEF ResetInv
      <4>2. Handled(s, k) \in Nat
        BY <1>0, <3>2, HandledGrows, NoStreamAssumption DEF PageInv
      <4>3. resets' <= Handled(s, k)
        BY <1>2, <2>1, <4>1, <4>2
      <4> QED
        BY <3>1, <4>3
    <3>3. CASE stream[s] = "new"
      <4>1. Handled(s, k) = Len(events) /\ Stream # {}
        BY <3>3 DEF Handled, NotJoined
      <4>2. Handled(s, k)' = Len(events')
        BY <1>2, <3>1, <4>1
      <4> QED
        BY <2>2, <4>1, <4>2
    <3> QED
      BY <1>2, <2>3, <3>2, <3>3, NoStreamAssumption
  <2> QED
    BY <1>2, <2>2, <2>3 DEF ResetInv
<1>3. CASE PageOnly
  <2>1. UNCHANGED <<stream, events, joined, seen>>
    BY <1>3 DEF PageOnly, vars, streamVars, streamHist
  <2>2. CASE onmessage
    <3>1. PICK s \in Stream : s = source
      BY <2>2 DEF onmessage, PageInv, SourceOK
    <3>2. PICK k \in Nat : k = taken
      BY DEF PageInv
    <3>3. /\ resets' \in Nat /\ resets' <= Len(events) /\ resets' <= Handled(s, k + 1)
          /\ button' \in [disabled : BOOLEAN, text : Text]
      BY <2>2, <3>1, <3>2, MessageIsLater
    <3>4. /\ source' = s /\ taken' = k + 1 /\ fetching' = fetching /\ fallback' = fallback
      BY <2>2, <3>1, <3>2 DEF onmessage
    <3>5. Stream # {} /\ Len(events) <= MaxEvents
      BY <3>1 DEF ResetInv
    <3>6. Handled(s, k + 1)' = Handled(s, k + 1)
      BY <2>1 DEF Handled, NotJoined
    <3>7. \A t \in Stream, m \in Nat : t = source' /\ m = taken' => resets' <= Handled(t, m)'
      BY <3>3, <3>4, <3>6
    <3> QED
      BY <2>1, <3>3, <3>4, <3>5, <3>7 DEF ResetInv
  <2>3. CASE ResetFires
    <3>1. button' \in [disabled : BOOLEAN, text : Text]
      BY <2>3 DEF ResetFires, ResetInv, Text
    <3>2. resets' \in Nat /\ resets' <= resets
      BY <2>3 DEF ResetFires, ResetInv
    <3> QED
      BY <1>2, <2>1, <2>3, <3>1, <3>2 DEF ResetFires, ResetInv, connVars
  <2>4. CASE onopen \/ UNCHANGED pageVars
    BY <1>2, <2>1, <2>4 DEF onopen, ResetInv, pageVars, connVars, buttonVars
  <2>5. CASE Click
    <3>1. button' \in [disabled : BOOLEAN, text : Text]
      BY <2>5 DEF Click, Text
    <3>2. fetching' \subseteq Replay
      BY <2>5 DEF Click, ResetInv
    <3> QED
      BY <1>2, <2>1, <2>5, <3>1, <3>2 DEF Click, ResetInv, connVars
  <2>6. CASE FallbackFires
    <3>1. button' \in [disabled : BOOLEAN, text : Text]
      BY <2>6 DEF FallbackFires, ResetInv, Text
    <3>2. /\ fetching' \subseteq Replay /\ fallback' \in BOOLEAN
          /\ resets' \in Nat /\ resets' <= resets
      <4>1. fetching' = fetching /\ resets' = resets /\ fallback' = FALSE
        BY <2>6 DEF FallbackFires
      <4>2. fetching \subseteq Replay /\ resets \in Nat
        BY DEF ResetInv
      <4>3. resets' \in Nat /\ resets' <= resets
        BY <4>1, <4>2
      <4>4. fetching' \subseteq Replay /\ fallback' \in BOOLEAN
        BY <4>1, <4>2
      <4> QED
        BY <4>3, <4>4
    <3>3. source' = source /\ taken' = taken
      BY <2>6 DEF FallbackFires, connVars
    <3> QED
      BY <1>2, <2>1, <3>1, <3>2, <3>3
  <2>7. ASSUME NEW r \in Replay, FetchSettles(r) \/ FetchRejects(r) PROVE ResetInv'
    <3>1. /\ button' \in [disabled : BOOLEAN, text : Text]
          /\ fetching' \subseteq Replay /\ fallback' \in BOOLEAN
          /\ resets' \in Nat /\ resets' <= resets
      <4>1. /\ button' = button /\ fetching' = fetching \ {r} /\ resets' = resets
            /\ fallback' = TRUE
        BY <2>7 DEF FetchSettles, FetchRejects
      <4>2. /\ button \in [disabled : BOOLEAN, text : Text]
            /\ fetching \subseteq Replay /\ resets \in Nat
        BY DEF ResetInv
      <4> QED
        BY <4>1, <4>2
    <3>2. source' = source /\ taken' = taken
      BY <2>7 DEF FetchSettles, FetchRejects, connVars
    <3> QED
      BY <1>2, <2>1, <3>1, <3>2
  <2> QED
    BY <1>3, <2>2, <2>3, <2>4, <2>5, <2>6, <2>7 DEF PageOnly
<1>4. CASE connectSSE
  <2>1. source' \in Stream /\ stream[source'] = "new"
    BY <1>4 DEF connectSSE
  <2> QED
    BY <1>2, <1>4, <2>1 DEF connectSSE, ResetInv, buttonVars, streamHist
<1>5. CASE onerror
  BY <1>2, <1>5 DEF onerror, ResetInv, buttonVars, streamHist
<1> QED
  BY <1>0, <1>1, <1>3, <1>4, <1>5, PageKinds

(* Types and bounds of the server's and the page's variables: there is at  *)
(* most one timer for a new EventSource, the page never handles more than  *)
(* the server wrote, and no event sets the button twice.                   *)
THEOREM PageTypes == PageSpec => []PageTypeOK
<1> DEFINE Inv == TypeOK /\ ListInv /\ LineInv /\ PageInv /\ ResetInv
<1>1. PageInit => Inv
  BY InitServerTypes, InitLines, InitPage, InitReset DEF PageInit
<1>2. ASSUME Inv, [PageNext]_allVars PROVE Inv'
  <2>1. [Next]_vars
    BY <1>2, PageStep DEF PageInv
  <2>2. TypeOK' /\ ListInv' /\ LineInv'
    BY <1>2, <2>1, NextServerTypes, NextListInv, NextLineInv
  <2> QED
    BY <1>2, <2>2, NextPageInv, NextReset
<1>3. Inv => PageTypeOK
  <2> SUFFICES ASSUME Inv PROVE PageTypeOK
    OBVIOUS
  <2>1. resets \in 0..MaxEvents
    <3>1. Len(events) \in Nat /\ resets \in Nat
      BY LenProperties DEF TypeOK, ResetInv
    <3>2. resets = 0 \/ (resets <= Len(events) /\ Len(events) <= MaxEvents)
      BY DEF ResetInv
    <3> QED
      BY <3>1, <3>2, DashboardBounds
  <2>2. retries \in 0..1
    BY DEF PageInv, OneConnectionLoop
  <2> QED
    BY <2>1, <2>2 DEF PageTypeOK, PageInv, ResetInv, SourceOK
<1> QED
  BY <1>1, <1>2, <1>3, PTL DEF PageSpec

-----------------------------------------------------------------------------
(* The text the page shows is what the messages handled so far make true,  *)
(* and without a stream it claims no connection.                           *)
ShownInv ==
  /\ source = NoStream => shown \in {"blank", "retrying"}
  /\ \A s \in Stream, j \in Nat, k \in Nat :
       s = source /\ taken = k + 1 /\ joined[s] = j /\ dropped[s] = 0 =>
         \E b \in BOOLEAN : StatusIs(j + k, b) /\ shown = StatusText(b)

(* Of k + 1 handled messages the last k are the first events of the line.  *)
LEMMA HandledEvents ==
  ASSUME TypeOK, ListInv, LineInv, NEW s \in Stream, NEW k \in Nat, k + 1 <= Written(s)
  PROVE  /\ ~NotJoined(s) /\ k <= Len(seen[s])
         /\ dropped[s] = 0 => joined[s] + k <= Len(events)
         /\ dropped[s] = 0 /\ k > 0 => k \in 1..Len(seen[s]) /\ seen[s][k] = joined[s] + k
<1>1. /\ Len(seen[s]) \in Nat /\ Len(events) \in Nat /\ joined[s] \in Nat
      /\ joined[s] <= Len(events)
      /\ \A i \in 1..Len(seen[s]) :
           /\ seen[s][i] <= Len(events)
           /\ dropped[s] = 0 => seen[s][i] = joined[s] + i
  BY SeenInOrder
<1>2. NotJoined(s) => Written(s) = 0
  BY EmptySeq DEF Written, NotJoined, ListInv
<1>3. ~NotJoined(s) => Written(s) = 1 + Len(seen[s])
  BY DEF Written, NotJoined
<1>4. ~NotJoined(s) /\ k <= Len(seen[s])
  BY <1>1, <1>2, <1>3
<1>5. k > 0 => k \in 1..Len(seen[s])
  BY <1>1, <1>4
<1>6. dropped[s] = 0 => joined[s] + k <= Len(events)
  <2>1. CASE k = 0
    BY <1>1, <2>1
  <2>2. CASE k > 0
    BY <1>1, <1>5, <2>2
  <2> QED
    BY <2>1, <2>2
<1> QED
  BY <1>1, <1>4, <1>5, <1>6

(* A step under which the page handles nothing.                            *)
LEMMA ShownKept ==
  ASSUME TypeOK, ListInv, LineInv, PageInv, ShownInv, [Next]_vars,
         UNCHANGED <<source, taken, shown>>
  PROVE  ShownInv'
<1>0. TypeOK'
  BY NextServerTypes
<1>1. ASSUME NEW s \in Stream, NEW j \in Nat, NEW k \in Nat,
             s = source', taken' = k + 1, joined'[s] = j, dropped'[s] = 0
      PROVE  \E b \in BOOLEAN : StatusIs(j + k, b)' /\ shown' = StatusText(b)
  <2>1. s = source /\ taken = k + 1 /\ k + 1 <= Written(s)
    BY <1>1, NoStreamAssumption DEF PageInv
  <2>2. ~NotJoined(s)
    BY <2>1, HandledEvents
  <2>3. joined[s] = j
    BY <1>1, <2>2, StepsOfAStream
       DEF Quiet, StreamJoins, StreamSends, Broadcasting, streamHist, NotJoined
  <2>4. dropped[s] = 0
    <3>1. CASE Broadcasting
      <4>1. \E d \in 0..1 : dropped'[s] = dropped[s] + d
        <5>1. s \notin sse_clients => dropped'[s] = dropped[s]
          BY <1>0, <3>1, BroadcastLine
        <5>2. s \in sse_clients => \E d \in 0..1 : dropped'[s] = dropped[s] + d
          BY <1>0, <3>1, BroadcastLine
        <5>3. dropped[s] + 0 = dropped[s]
          BY DEF TypeOK
        <5> QED
          BY <5>1, <5>2, <5>3
      <4> QED
        BY <1>1, <4>1 DEF TypeOK
    <3>2. CASE ~Broadcasting
      BY <1>1, <3>2, StepsOfAStream DEF Quiet, StreamJoins, StreamSends
    <3> QED
      BY <3>1, <3>2
  <2>5. PICK b \in BOOLEAN : StatusIs(j + k, b) /\ shown = StatusText(b)
    BY <2>1, <2>3, <2>4 DEF ShownInv
  <2>6. j + k <= Len(events) /\ j + k \in Nat /\ Len(events) \in Nat
    <3>1. joined[s] + k <= Len(events)
      BY <2>1, <2>4, HandledEvents
    <3>2. Len(events) \in Nat
      BY EventsGrow
    <3> QED
      BY <2>3, <3>1, <3>2
  <2>7. \A n \in 1..(j + k) : events'[n] = events[n]
    BY <2>6, EventsStay
  <2>8. StatusIs(j + k, b)'
    BY <2>5, <2>6, <2>7, StatusStays
  <2> QED
    BY <2>5, <2>8
<1> QED
  BY <1>1 DEF ShownInv

(* The page handles a message: the initial status, or the next event.      *)
LEMMA ShownByMessage ==
  ASSUME TypeOK, ListInv, LineInv, StatusInv, PageInv, ShownInv, onmessage
  PROVE  ShownInv'
<1>0. /\ UNCHANGED vars /\ source' = source /\ taken' = taken + 1 /\ taken \in Nat
      /\ taken < Written(source) /\ opened
  BY DEF onmessage, PageInv
<1>1. /\ events' = events /\ joined' = joined /\ dropped' = dropped
  BY <1>0 DEF vars, streamHist
<1>2. ASSUME NEW s \in Stream, NEW j \in Nat, NEW k \in Nat,
             s = source', taken' = k + 1, joined'[s] = j, dropped'[s] = 0
      PROVE  \E b \in BOOLEAN : StatusIs(j + k, b)' /\ shown' = StatusText(b)
  <2>1. s = source /\ taken = k /\ joined[s] = j /\ dropped[s] = 0
    BY <1>0, <1>1, <1>2
  <2>2. CASE k = 0
    <3>1. initial[s] \in BOOLEAN
      BY DEF TypeOK
    <3>2. StatusIs(j, initial[s])
      BY <2>1, <3>1 DEF StatusInv
    <3>3. PICK b \in BOOLEAN : b = initial[s]
      BY <3>1
    <3>4. shown' = StatusText(b)
      BY <2>1, <2>2, <3>3 DEF onmessage
    <3>5. StatusIs(j, b)'
      BY <1>1, <3>2, <3>3, StatusStays
    <3>6. j + k = j
      BY <2>2
    <3> QED
      BY <3>4, <3>5, <3>6
  <2>3. CASE k > 0
    <3>1. Written(s) \in Nat
      BY <1>0, WrittenGrows
    <3>2. k + 1 <= Written(s)
      BY <1>0, <2>1, <3>1
    <3>3. /\ seen[s][k] = j + k /\ j + k <= Len(events)
      BY <2>1, <2>3, <3>2, HandledEvents
    <3>4. PICK n \in Nat : n = k - 1
      BY <2>3
    <3>5. taken = n + 1 /\ j + n \in Nat /\ (j + n) + 1 = j + k
      BY <2>1, <3>4
    <3>6. PICK b \in BOOLEAN : StatusIs(j + n, b) /\ shown = StatusText(b)
      BY <2>1, <3>5 DEF ShownInv
    <3>7. StatusIs(j + n, b)'
      BY <1>1, <3>5, <3>6, StatusStays
    <3>8. PICK e \in Event : e = events[j + k]
      <4>1. j + k \in 1..Len(events)
        BY <2>3, <3>3, LenProperties DEF TypeOK
      <4> QED
        BY <4>1, ElementOfSeq DEF TypeOK
    <3>9. shown' = IF e.kind = "status" THEN StatusText(e.connected) ELSE shown
      BY <2>1, <2>3, <3>3, <3>8 DEF onmessage
    <3>10. CASE e.kind = "status"
      <4>1. e.connected \in BOOLEAN
        BY <3>10 DEF Event
      <4>2. PICK c \in BOOLEAN : c = e.connected
        BY <4>1
      <4>3. IsStatus((j + n) + 1)' /\ events'[(j + n) + 1].connected = c
        BY <1>1, <3>5, <3>8, <3>10, <4>2 DEF IsStatus
      <4>4. StatusIs((j + n) + 1, c)'
        BY <3>5, <4>3, StatusAfterEvent
      <4> QED
        BY <3>5, <3>9, <3>10, <4>2, <4>4
    <3>11. CASE e.kind # "status"
      <4>1. ~IsStatus((j + n) + 1)'
        BY <1>1, <3>5, <3>8, <3>11 DEF IsStatus
      <4>2. StatusIs((j + n) + 1, b)'
        BY <3>5, <3>7, <4>1, StatusAfterEvent
      <4> QED
        BY <3>5, <3>6, <3>9, <3>11, <4>2
    <3> QED
      BY <3>10, <3>11
  <2> QED
    BY <2>2, <2>3
<1>3. source # NoStream
  BY <1>0 DEF PageInv
<1> QED
  BY <1>0, <1>2, <1>3 DEF ShownInv

(* Every step keeps the shown text right.                                  *)
LEMMA NextShown ==
  ASSUME TypeOK, ListInv, LineInv, StatusInv, PageInv, ShownInv, [PageNext]_allVars
  PROVE  ShownInv'
<1>0. SourceOK /\ [Next]_vars
  BY PageStep DEF PageInv
<1>1. CASE ServerMoves
  BY <1>0, <1>1, ShownKept DEF ServerMoves, pageVars, connVars
<1>2. CASE PageOnly
  <2>1. CASE onmessage
    BY <2>1, ShownByMessage
  <2>2. CASE onopen
    <3>1. source' # NoStream /\ taken' = 0
      BY <2>2 DEF onopen, PageInv
    <3> QED
      BY <3>1 DEF ShownInv
  <2>3. CASE \/ Click \/ FallbackFires \/ ResetFires \/ UNCHANGED pageVars
             \/ \E r \in Replay : FetchSettles(r) \/ FetchRejects(r)
    <3>1. UNCHANGED <<source, taken, shown>>
      BY <2>3 DEF Click, FallbackFires, ResetFires, FetchSettles, FetchRejects, connVars,
                  pageVars
    <3> QED
      BY <1>0, <3>1, ShownKept
  <2> QED
    BY <1>2, <2>1, <2>2, <2>3 DEF PageOnly
<1>3. CASE connectSSE
  <2>1. source' # NoStream /\ taken' = 0
    BY <1>3, NoStreamAssumption DEF connectSSE
  <2> QED
    BY <2>1 DEF ShownInv
<1>4. CASE onerror
  BY <1>4 DEF onerror, ShownInv
<1> QED
  BY <1>0, <1>1, <1>2, <1>3, <1>4, PageKinds

(* Without a status event among those after h, the status stays.           *)
LEMMA StatusExtends ==
  ASSUME NEW h \in Nat, NEW n \in Nat, h <= n, NEW b, StatusIs(h, b),
         \A m \in (h + 1)..n : ~IsStatus(m)
  PROVE  StatusIs(n, b)
<1>1. CASE b = FALSE /\ \A m \in 1..h : ~IsStatus(m)
  <2>1. \A m \in 1..n : m \in 1..h \/ m \in (h + 1)..n
    OBVIOUS
  <2> QED
    BY <1>1, <2>1 DEF StatusIs
<1>2. CASE \E i \in 1..h : /\ IsStatus(i) /\ events[i].connected = b
                           /\ \A m \in (i + 1)..h : ~IsStatus(m)
  <2>1. PICK i \in 1..h : /\ IsStatus(i) /\ events[i].connected = b
                          /\ \A m \in (i + 1)..h : ~IsStatus(m)
    BY <1>2
  <2>2. i \in 1..n /\ \A m \in (i + 1)..n : m \in (i + 1)..h \/ m \in (h + 1)..n
    OBVIOUS
  <2> QED
    BY <2>1, <2>2 DEF StatusIs
<1> QED
  BY <1>1, <1>2 DEF StatusIs

Numbers(line) == {line[i] : i \in DOMAIN line}

(* The numbers on the line of a stream that lost nothing, from the a-th    *)
(* on, are those of all later events.                                      *)
LEMMA LineIsTheRest ==
  ASSUME TypeOK, LineInv, NEW s \in sse_clients, dropped[s] = 0, NEW a \in Nat, a >= 1,
         NEW way, way = SubSeq(Timeline(s), a, Len(seen[s]) + Len(queue[s]))
  PROVE  Numbers(way) = (joined[s] + a)..Len(events)
<1>1. s \in Stream
  BY DEF TypeOK
<1>2. LineInOrder(s) /\ LineComplete(s)
  BY <1>1 DEF LineInv
<1> DEFINE line == Timeline(s)
<1>3. /\ Len(seen[s]) \in Nat /\ Len(queue[s]) \in Nat
      /\ Len(line) = Len(seen[s]) + Len(queue[s])
      /\ \A i \in 1..(Len(seen[s]) + Len(queue[s])) : line[i] \in Nat
  BY <1>1, LineParts
<1>4. PICK L \in Nat : L = Len(seen[s]) + Len(queue[s])
  <2>1. \A x, y \in Nat : x + y \in Nat
    OBVIOUS
  <2> QED
    BY <1>3, <2>1, Zenon
<1>5. PICK j \in Nat : j = joined[s]
  BY <1>1 DEF TypeOK
<1>6. PICK N \in Nat : N = Len(events)
  BY LenProperties DEF TypeOK
<1>7. Len(line) = L /\ \A i \in 1..L : line[i] \in Nat
  BY <1>3, <1>4
<1>8. \A i \in 1..L : line[i] = j + i
  BY <1>2, <1>5, <1>7 DEF LineInOrder
<1>9. L = N - j
  <2>1. L + 0 = N - j
    BY <1>2, <1>5, <1>6, <1>7 DEF LineComplete
  <2> QED
    BY <2>1
<1>10. way = SubSeq(line, a, L)
  BY <1>4
<1> HIDE DEF line
<1>11. /\ way \in Seq(Nat)
       /\ Len(way) = IF a <= L THEN L - a + 1 ELSE 0
       /\ \A i \in 1..(L - a + 1) : way[i] = line[a + i - 1]
  <2>1. a \in Int /\ L \in Int /\ \A i \in a..L : line[i] \in Nat
    BY <1>7
  <2>2. /\ SubSeq(line, a, L) \in Seq(Nat)
        /\ Len(SubSeq(line, a, L)) = IF a <= L THEN L - a + 1 ELSE 0
        /\ \A i \in 1..(L - a + 1) : SubSeq(line, a, L)[i] = line[a + i - 1]
    BY <2>1, SubSeqProperties
  <2> QED
    BY <1>10, <2>2
<1>12. DOMAIN way = 1..(L - a + 1)
  <2>1. DOMAIN way = 1..Len(way)
    BY <1>11, LenProperties
  <2>2. CASE a <= L
    BY <1>11, <2>1, <2>2
  <2>3. CASE ~(a <= L)
    <3>1. 1..(L - a + 1) = {} /\ 1..0 = {}
      BY <2>3
    <3> QED
      BY <1>11, <2>1, <2>3, <3>1
  <2> QED
    BY <2>2, <2>3
<1>13. \A i \in 1..(L - a + 1) : way[i] = j + a + i - 1
  <2> SUFFICES ASSUME NEW i \in 1..(L - a + 1) PROVE way[i] = j + a + i - 1
    OBVIOUS
  <2>1. a + i - 1 \in 1..L
    OBVIOUS
  <2>2. way[i] = line[a + i - 1] /\ line[a + i - 1] = j + (a + i - 1)
    BY <1>11, <1>8, <2>1
  <2>3. j + (a + i - 1) = j + a + i - 1
    OBVIOUS
  <2> QED
    BY <2>2, <2>3
<1>14. \A n \in (j + a)..N : n - (j + a) + 1 \in 1..(L - a + 1)
                               /\ n = j + a + (n - (j + a) + 1) - 1
  BY <1>9
<1>15. \A i \in 1..(L - a + 1) : j + a + i - 1 \in (j + a)..N
  BY <1>9
<1>16. {way[i] : i \in 1..(L - a + 1)} = (j + a)..N
  <2>1. ASSUME NEW n \in (j + a)..N PROVE \E i \in 1..(L - a + 1) : n = way[i]
    <3>1. PICK i \in 1..(L - a + 1) : n = j + a + i - 1
      BY <1>14
    <3> QED
      BY <1>13, <3>1
  <2>2. \A i \in 1..(L - a + 1) : way[i] \in (j + a)..N
    BY <1>13, <1>15
  <2>3. {way[i] : i \in 1..(L - a + 1)} \subseteq (j + a)..N
    BY <2>2
  <2>4. (j + a)..N \subseteq {way[i] : i \in 1..(L - a + 1)}
    BY <2>1
  <2> QED
    BY <2>3, <2>4
<1> QED
  BY <1>5, <1>6, <1>12, <1>16 DEF Numbers

(* The text to come is the status after all events.                        *)
LEMMA ShownIsTrue ==
  ASSUME ServerInv, PageInv, ShownInv
  PROVE  ShownStatusTrue
<1> USE DEF ServerInv
<1>1. ASSUME source \in sse_clients, dropped[source] = 0
      PROVE  WillShow = StatusText(broker_connected)
  <2>1. PICK s \in Stream : s = source
    BY <1>1 DEF TypeOK
  <2>2. PICK N \in Nat : N = Len(events)
    BY LenProperties DEF TypeOK
  <2>3. PICK j \in Nat : j = joined[s]
    BY DEF TypeOK
  <2>4. PICK now \in BOOLEAN : now = broker_connected
    BY DEF TypeOK
  <2>5. PICK a \in Nat : a = IF taken = 0 THEN 1 ELSE taken
    BY DEF PageInv
  <2>6. PICK k \in Nat : a = k + 1
    BY <2>5 DEF PageInv
  <2> DEFINE statuses == {n \in {OnItsWay[i] : i \in DOMAIN OnItsWay} : events[n].kind = "status"}
  <2>7. statuses = {n \in (j + a)..N : IsStatus(n)}
    <3>1. OnItsWay = SubSeq(Timeline(s), a, Len(seen[s]) + Len(queue[s]))
      BY <2>1, <2>5 DEF OnItsWay, Timeline
    <3>2. a >= 1
      BY <2>6
    <3>3. Numbers(OnItsWay) = (joined[s] + a)..Len(events)
      <4>1. s \in sse_clients /\ dropped[s] = 0
        BY <1>1, <2>1
      <4> HIDE DEF ServerInv
      <4>2. TypeOK /\ LineInv
        BY DEF ServerInv
      <4> QED
        BY <3>1, <3>2, <4>1, <4>2, LineIsTheRest
    <3> QED
      BY <2>2, <2>3, <3>3 DEF IsStatus, Numbers
  <2>8. WillShow = IF statuses # {}
                   THEN StatusText(events[CHOOSE n \in statuses :
                                            \A m \in statuses : m <= n].connected)
                   ELSE IF taken = 0 THEN StatusText(initial[source]) ELSE shown
    BY DEF WillShow
  <2>9. StatusIs(N, now)
    BY <2>1, <2>2, <2>4 DEF StatusInv
  <2> HIDE DEF statuses
  <2>10. CASE statuses # {}
    <3>1. PICK m \in (j + a)..N : IsStatus(m)
      BY <2>7, <2>10
    <3>2. m \in 1..N
      BY <2>3, <2>6
    <3>3. PICK n \in 1..N : /\ IsStatus(n) /\ events[n].connected = now
                            /\ \A i \in (n + 1)..N : ~IsStatus(i)
      BY <2>9, <3>1, <3>2 DEF StatusIs
    <3>4. \A i \in (j + a)..N : IsStatus(i) => i <= n
      <4> SUFFICES ASSUME NEW i \in (j + a)..N, IsStatus(i), i > n PROVE FALSE
        BY <2>3, <2>5
      <4>1. i \in (n + 1)..N
        BY <2>3, <2>5
      <4> QED
        BY <3>3, <4>1
    <3>5. n \in (j + a)..N
      BY <3>1, <3>4
    <3>6. n \in statuses /\ \A i \in statuses : i <= n
      BY <2>7, <3>3, <3>4, <3>5
    <3>7. \A i \in statuses : (\A h \in statuses : h <= i) => i = n
      BY <2>7, <3>5, <3>6
    <3>8. (CHOOSE i \in statuses : \A h \in statuses : h <= i) = n
      BY <3>6, <3>7
    <3> QED
      BY <2>4, <2>8, <2>10, <3>3, <3>8
  <2>11. CASE statuses = {}
    <3>1. PICK b \in BOOLEAN : StatusIs(j + k, b)
                               /\ WillShow = StatusText(b)
      <4>1. CASE taken = 0
        <5>1. k = 0 /\ j + k = j
          BY <2>5, <2>6, <4>1
        <5>2. initial[s] \in BOOLEAN
          BY DEF TypeOK
        <5>3. StatusIs(j, initial[s])
          BY <2>3, <5>2 DEF StatusInv
        <5> QED
          BY <2>1, <2>8, <2>11, <4>1, <5>1, <5>2, <5>3
      <4>2. CASE taken # 0
        <5>1. taken = k + 1
          BY <2>5, <2>6, <4>2
        <5>2. \E b \in BOOLEAN : StatusIs(j + k, b) /\ shown = StatusText(b)
          BY <1>1, <2>1, <2>3, <5>1 DEF ShownInv
        <5> QED
          BY <2>8, <2>11, <4>2, <5>2
      <4> QED
        BY <4>1, <4>2
    <3>2. j + k \in Nat /\ j + k <= N
      <4>1. CASE taken = 0
        <5>1. j <= N
          BY <2>2, <2>3 DEF LineInv, LineInOrder
        <5> QED
          BY <2>5, <2>6, <4>1, <5>1
      <4>2. CASE taken # 0
        <5>1. taken = k + 1 /\ k + 1 <= Written(s)
          BY <2>1, <2>5, <2>6, <4>2, NoStreamAssumption DEF PageInv
        <5>2. joined[s] + k <= Len(events)
          BY <1>1, <2>1, <5>1, HandledEvents
        <5> QED
          BY <2>2, <2>3, <5>2
      <4> QED
        BY <4>1, <4>2
    <3>3. \A m \in ((j + k) + 1)..N : ~IsStatus(m)
      <4>1. (j + k) + 1 = j + a
        BY <2>6
      <4> QED
        BY <2>7, <2>11, <4>1
    <3>4. StatusIs(N, b)
      BY <3>1, <3>2, <3>3, StatusExtends
    <3>5. b = now
      BY <2>9, <3>4, StatusUnique
    <3> QED
      BY <2>4, <3>1, <3>5
  <2> QED
    BY <2>10, <2>11
<1> QED
  BY <1>1 DEF ShownStatusTrue, ShownInv

(* A page whose stream lost nothing shows the true state of the broker     *)
(* connection once it has handled what is on its way, whenever it joined;  *)
(* a page without a stream claims no connection.                           *)
THEOREM ShownStatus == PageSpec => []ShownStatusTrue
<1> DEFINE Inv == ServerInv /\ PageInv /\ ShownInv
<1>1. PageInit => Inv
  <2> SUFFICES ASSUME PageInit PROVE Inv
    OBVIOUS
  <2>1. ServerInv
    BY InitServerTypes, InitLines, InitStatus DEF PageInit, ServerInv
  <2>2. ShownInv
    BY DEF PageInit, ShownInv
  <2> QED
    BY <2>1, <2>2, InitPage
<1>2. ASSUME Inv, [PageNext]_allVars PROVE Inv'
  <2>1. TypeOK /\ ListInv /\ LineInv /\ StatusInv /\ [Next]_vars
    BY <1>2, PageStep DEF PageInv, ServerInv
  <2>2. ServerInv'
    BY <2>1, NextServerTypes, NextListInv, NextLineInv, NextStatusInv DEF ServerInv
  <2> QED
    BY <1>2, <2>1, <2>2, NextPageInv, NextShown
<1>3. Inv => ShownStatusTrue
  BY ShownIsTrue
<1> QED
  BY <1>1, <1>2, <1>3, PTL DEF PageSpec
===============================================================================
