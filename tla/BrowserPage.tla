----------------------------- MODULE BrowserPage ------------------------------
(***************************************************************************)
(* One page of visualization/app.js in front of dashboard_server.py: its   *)
(* EventSource and the retry timer behind it, the broker status it shows,  *)
(* and the replay button with its two timers.                              *)
(*                                                                         *)
(* The page takes the place of the browsers of DashboardServer: it opens   *)
(* and closes the streams, and asks for replays; other pages ask for       *)
(* replays too, whose events reach this one.                               *)
(***************************************************************************)
EXTENDS DashboardServer

CONSTANT NoStream

ASSUME NoStreamAssumption == NoStream \notin Stream

VARIABLES
  source,     \* the stream of sseSource, or NoStream after it was closed
  opened,     \* its onopen has fired
  taken,      \* the messages of it that onmessage has handled
  retries,    \* pending setTimeout(connectSSE)
  shown,      \* the status text
  button,     \* btnReplay: disabled, text
  fetching,   \* the time-travel requests whose fetch() is awaited
  resets,     \* pending 2 s timers of time_travel_done
  fallback    \* the 15 s timer of the click is pending

connVars   == <<source, opened, taken, retries, shown>>
buttonVars == <<button, fetching, resets, fallback>>
pageVars   == <<connVars, buttonVars>>
allVars    == <<vars, pageVars>>

-----------------------------------------------------------------------------
Shown == {"blank", "server", "broker", "nobroker", "retrying"}
Text  == {"replay", "replaying", "replayed"}

StatusText(connected) == IF connected THEN "broker" ELSE "nobroker"

(* init() runs connectSSE(), as a timer that is due.                       *)
PageInit ==
  /\ Init
  /\ source = NoStream /\ opened = FALSE /\ taken = 0 /\ retries = 1
  /\ shown = "blank"
  /\ button = [disabled |-> FALSE, text |-> "replay"]
  /\ fetching = {} /\ resets = 0 /\ fallback = FALSE

(* src.close(): the server's side of the stream loses its peer.            *)
Hangup == IF source # NoStream /\ stream[source] # "new"
          THEN peer' = [peer EXCEPT ![source] = FALSE]
          ELSE UNCHANGED peer

connectSSE ==
  /\ retries > 0 /\ \E s \in Stream : stream[s] = "new" /\ s # source
  /\ retries' = retries - 1
  /\ source' = CHOOSE s \in Stream : stream[s] = "new" /\ s # source
  /\ opened' = FALSE /\ taken' = 0
  /\ Hangup
  /\ UNCHANGED <<brokerVars, sse_clients, queue, stream, replayVars, events,
                 dropped, streamHist, shown, buttonVars>>

onopen ==
  /\ source # NoStream /\ ~opened /\ stream[source] # "new"
  /\ opened' = TRUE /\ shown' = "server"
  /\ UNCHANGED <<vars, source, taken, retries, buttonVars>>

(* What the handler of stream s has written so far: the initial status,    *)
(* then events.                                                            *)
Written(s) == (IF stream[s] \in {"new", "headers"} THEN 0 ELSE 1) + Len(seen[s])

onmessage ==
  /\ opened /\ taken < Written(source)
  /\ taken' = taken + 1
  /\ LET event == IF taken = 0
                  THEN [kind |-> "status", connected |-> initial[source]]
                  ELSE events[seen[source][taken]]
     IN  /\ shown' = IF event.kind = "status" THEN StatusText(event.connected)
                     ELSE shown
         /\ IF event.kind = "done"
            THEN /\ button' = [button EXCEPT !.text = "replayed"]
                 /\ resets' = resets + 1
            ELSE UNCHANGED <<button, resets>>
  /\ UNCHANGED <<vars, source, opened, retries, fetching, fallback>>

(* Fault: the EventSource is not closed and goes on reconnecting itself.   *)
onerror_keeps_source ==
  /\ source # NoStream
  /\ opened' = FALSE /\ shown' = "retrying" /\ retries' = retries + 1
  /\ UNCHANGED <<vars, source, taken, buttonVars>>

(* The request fails or the stream breaks; what was on its way is lost.    *)
(* As often as there are streams left: the bound of connectSSE.            *)
onerror ==
  /\ source # NoStream
  /\ \E s \in Stream : stream[s] = "new"
  /\ source' = NoStream /\ opened' = FALSE /\ taken' = 0
  /\ shown' = "retrying" /\ retries' = retries + 1
  /\ Hangup
  /\ UNCHANGED <<brokerVars, sse_clients, queue, stream, replayVars, events,
                 dropped, streamHist, buttonVars>>

-----------------------------------------------------------------------------
(* The replay button.                                                      *)

Click ==
  /\ ~button.disabled
  /\ \E r \in Replay \ fetching : replay[r] = "new"
  /\ button' = [disabled |-> TRUE, text |-> "replaying"]
  /\ fetching' = fetching \cup {CHOOSE r \in Replay \ fetching : replay[r] = "new"}
  /\ UNCHANGED <<vars, connVars, resets, fallback>>

(* The server starts the task and answers; requests of other pages too.    *)
ServeReplay(r) == RequestReplay(r) /\ UNCHANGED pageVars

(* Fault: no timer, the button waits for time_travel_done.                 *)
FetchSettlesQuietly(r) ==
  /\ r \in fetching /\ replay[r] # "new"
  /\ fetching' = fetching \ {r}
  /\ UNCHANGED <<vars, connVars, button, resets, fallback>>

FetchSettles(r) ==
  /\ r \in fetching /\ replay[r] # "new"
  /\ fetching' = fetching \ {r} /\ fallback' = TRUE
  /\ UNCHANGED <<vars, connVars, button, resets>>

(* The request got through or not; the answer did not.                     *)
FetchRejects(r) ==
  /\ r \in fetching
  /\ fetching' = fetching \ {r} /\ fallback' = TRUE
  /\ UNCHANGED <<vars, connVars, button, resets>>

FallbackFires ==
  /\ fallback
  /\ fallback' = FALSE
  /\ button' = [disabled |-> FALSE,
                text |-> IF button.text = "replaying" THEN "replay" ELSE button.text]
  /\ UNCHANGED <<vars, connVars, fetching, resets>>

ResetFires ==
  /\ resets > 0
  /\ resets' = resets - 1 /\ button' = [button EXCEPT !.text = "replay"]
  /\ UNCHANGED <<vars, connVars, fetching, fallback>>

-----------------------------------------------------------------------------
Server ==
  \/ ProxyConnects \/ ProxySubscribes \/ ProxyReceives \/ ProxyDisconnects
  \/ ProxyRetries
  \/ \E s \in Stream : StreamJoins(s) \/ StreamDrains(s) \/ StreamSends(s)
                       \/ StreamFails(s)
  \/ \E r \in Replay : ReplayConnects(r) \/ ReplayFails(r) \/ ReplayReceives(r)
                       \/ ReplayEnds(r)

PageNext ==
  \/ Server /\ UNCHANGED pageVars
  \/ source # NoStream /\ StreamOpens(source) /\ UNCHANGED pageVars
  \/ connectSSE \/ onopen \/ onmessage \/ onerror
  \/ Click \/ FallbackFires \/ ResetFires
  \/ \E r \in Replay : ServeReplay(r) \/ FetchSettles(r) \/ FetchRejects(r)

PageSpec == PageInit /\ [][PageNext]_allVars

(* The server answers a POST that reached it, fetch() settles then, and    *)
(* the timer of the click fires.                                           *)
FetchAdvances(r) == r \in fetching /\ (ServeReplay(r) \/ FetchSettles(r))

FairPageSpec ==
  /\ PageSpec
  /\ WF_buttonVars(FallbackFires)
  /\ \A r \in Replay : WF_allVars(FetchAdvances(r))

-----------------------------------------------------------------------------
(* Types and bounds of the server's and the page's variables.              *)
PageTypeOK ==
  /\ TypeOK
  /\ source \in Stream \cup {NoStream} /\ opened \in BOOLEAN
  /\ taken \in Nat /\ (source # NoStream => taken <= Written(source))
  /\ retries \in 0..1 /\ shown \in Shown
  /\ button \in [disabled : BOOLEAN, text : Text]
  /\ fetching \subseteq Replay /\ resets \in 0..MaxEvents /\ fallback \in BOOLEAN

(* However streams and timers fail and fire, the page has one EventSource  *)
(* or one timer that will make one, never both and never neither, and all  *)
(* streams but that one have lost their browser.                           *)
OneConnectionLoop ==
  /\ retries = IF source = NoStream THEN 1 ELSE 0
  /\ \A s \in Stream \ {source} : stream[s] # "new" => ~peer[s]

(* A page whose stream lost nothing shows the true state of the broker     *)
(* connection once it has handled what is on its way, whenever it joined:  *)
(* the text of onopen, the initial status and the status events cannot     *)
(* cross.  A page without a stream does not claim a connection.            *)
OnItsWay == SubSeq(seen[source] \o queue[source], IF taken = 0 THEN 1 ELSE taken,
                   Len(seen[source]) + Len(queue[source]))

WillShow ==
  LET statuses == {n \in {OnItsWay[i] : i \in DOMAIN OnItsWay} : events[n].kind = "status"}
  IN  IF statuses # {}
      THEN StatusText(events[CHOOSE n \in statuses : \A m \in statuses : m <= n].connected)
      ELSE IF taken = 0 THEN StatusText(initial[source]) ELSE shown

ShownStatusTrue ==
  /\ source \in sse_clients /\ dropped[source] = 0 =>
       WillShow = StatusText(broker_connected)
  /\ source = NoStream => shown \in {"blank", "retrying"}

(* The replay button is enabled again after every click, also when the     *)
(* broker is unreachable and no time_travel_done comes, or comes to a page *)
(* that has lost its stream.                                               *)
ButtonReenabled == button.disabled ~> ~button.disabled
=============================================================================
