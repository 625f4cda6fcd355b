------------------------------ MODULE Session -------------------------------
(***************************************************************************)
(* One connection between a program and the broker, in pieces of a frame:  *)
(* the publishers (publish_one() of smart_home_simulator.py, the simulate  *)
(* tasks of dashboard_server.py, simulate_load.py, the publish modes of    *)
(* client/client.py), the listeners (its subscribe and time-travel modes,  *)
(* the dashboard's proxy and replay) and the handler of broker/server.py   *)
(* that reads with read_message() of broker/protocol.py.                   *)
(*                                                                         *)
(* TCP keeps the order of the bytes and nothing else: frames arrive cut    *)
(* and joined anywhere, and either end may be gone at any of them.         *)
(***************************************************************************)
EXTENDS Naturals, Sequences, SequencesExt

CONSTANTS
  HeaderSize,   \* cells of a header
  MaxPayload,   \* MAX_PAYLOAD_BYTES
  Bursts,       \* Bursts[m]: what a program of mode m writes in one go:
                \*   sequences of payload lengths
  FanoutLen,    \* payload lengths of the frames the broker sends
  MaxFrames,    \* bound on the frames written to each direction
  WireSize,     \* cells the kernels and the network hold in one direction
  ReadLimit,    \* cells above which a StreamReader pauses its transport
  WriteLimit    \* cells above which drain() waits

ASSUME HeaderAssumption == HeaderSize \in Nat \ {0}
ASSUME FlowAssumption ==
  WireSize \in Nat \ {0} /\ ReadLimit \in Nat /\ WriteLimit \in Nat
ASSUME SessionBounds == MaxFrames \in Nat /\ MaxPayload \in Nat

Up   == "up"      \* from the program to the broker
Down == "down"    \* from the broker to the program
Direction == {Up, Down}

VARIABLES
  mode,     \* which program it is
  prog,     \* where it is suspended, and how it ended
  reader,   \* reader[d]: what the reader of direction d awaits
  need,     \* need[d]: the payload length it has decoded
  trans,    \* trans[d]: the transport of the end that writes direction d
  sent,     \* sent[d]: the cells that left the writer's process
  got,      \* got[d]: the cells that reached the reader's process
  used      \* used[d]: the cells the reader has taken

(* History: the frames written and the frames decoded in each direction.   *)
VARIABLES frames, decoded

flowVars == <<sent, got, used>>
vars == <<mode, prog, reader, need, trans, flowVars, frames, decoded>>

-----------------------------------------------------------------------------
Publisher == {"publish",       \* one burst and no more
              "interactive"}   \* a frame for every line of stdin
Listener  == {"cli",           \* client.py subscribe, time-travel
              "proxy",         \* proxy_broker_connection()
              "replay"}        \* trigger_time_travel()

ASSUME LengthAssumption ==
  /\ FanoutLen \subseteq Nat
  /\ \A m \in Publisher \cup Listener : Bursts[m] \subseteq Seq(Nat)

ProgState == {"start",
              "draining",    \* await writer.drain()
              "typing",      \* await readline()
              "listening",   \* await a frame
              "closing",     \* await writer.wait_closed()
              "ok",          \* returned, or returned True
              "failed"}      \* returned False, raised, or was stopped

ReaderState == {"none",
                "header",    \* await readexactly(HEADER_SIZE)
                "payload",   \* await readexactly(payload_len)
                "busy",      \* the handler awaits _dispatch()
                "over",      \* told that the stream has ended
                "cut",       \* told in the middle of a frame, or by a reset
                "dropped",   \* the handler left for another reason
                "dead"}      \* the broker's process has ended

Transport == {"none", "open",
              "closing",     \* close() called, its buffer not yet flushed
              "closed",      \* its socket is closed: a FIN follows the cells
              "lost"}        \* connection_lost() with an exception

(* encode(): a header that carries the payload's length, then the payload. *)
Frame(n, len) ==
  [i \in 1..(HeaderSize + len) |-> [frame |-> n, at |-> i, len |-> len]]

Other(d)     == IF d = Up THEN Down ELSE Up
Bytes(d)     == FlattenSeq(frames[d])
Unsent(d)    == Len(Bytes(d)) - sent[d]
Available(d) == got[d] - used[d]

Init ==
  /\ mode \in Publisher \cup Listener
  /\ prog = "start"
  /\ reader  = [d \in Direction |-> "none"]
  /\ trans   = [d \in Direction |-> "none"]
  /\ need    = [d \in Direction |-> 0]
  /\ sent    = [d \in Direction |-> 0]
  /\ got     = [d \in Direction |-> 0]
  /\ used    = [d \in Direction |-> 0]
  /\ frames  = [d \in Direction |-> << >>]
  /\ decoded = [d \in Direction |-> << >>]

-----------------------------------------------------------------------------
(* Parts of actions.                                                       *)

Goto(d, r) == reader' = [reader EXCEPT ![d] = r]

(* writer.write() of frames with payloads of these lengths.                *)
WriteFrames(d, lens) ==
  /\ Len(frames[d]) + Len(lens) <= MaxFrames
  /\ frames' = [frames EXCEPT ![d] =
                  @ \o [i \in 1..Len(lens) |-> Frame(Len(@) + i, lens[i])]]

(* writer.close(): what is buffered is still flushed.                      *)
Close(d) == trans' = [trans EXCEPT ![d] = IF @ = "open" THEN "closing" ELSE @]

(* The process ends: its kernel sends what it holds and a FIN, and what    *)
(* the transport has buffered is gone.                                     *)
CloseSocket(d) ==
  trans' = [trans EXCEPT ![d] = IF @ \in {"open", "closing"} THEN "closed" ELSE @]

(* Fault: the handler ends without closing its writer.                     *)
HandlerLeavesOpen(why) == Goto(Up, why) /\ UNCHANGED trans

(* The finally of the handler: unregister() closes the writer.             *)
HandlerLeaves(why) == Goto(Up, why) /\ Close(Down)

(* The whole frame is there: Message(...), and what its reader does next.  *)
Message(d, first, len) ==
  IF d = Up /\ len > MaxPayload
  THEN HandlerLeaves("dropped") /\ UNCHANGED decoded
  ELSE /\ decoded' = [decoded EXCEPT
            ![d] = Append(@, SubSeq(Bytes(d), first, first + HeaderSize + len - 1))]
       /\ Goto(d, IF d = Up THEN "busy" ELSE "header")
       /\ UNCHANGED trans

-----------------------------------------------------------------------------
(* TCP and the transports of asyncio, in one direction.                    *)

Wanted(d) == CASE reader[d] = "header"  -> HeaderSize
               [] reader[d] = "payload" -> need[d]
               [] OTHER -> 0

Short(d) == Available(d) < Wanted(d)

Flush(d) ==
  /\ trans[d] \in {"open", "closing"}
  /\ Unsent(d) > 0 /\ sent[d] - got[d] < WireSize
  /\ sent' = [sent EXCEPT ![d] = @ + 1]
  /\ UNCHANGED <<mode, prog, reader, need, trans, got, used, frames, decoded>>

(* Any number of the cells under way, unless the transport is paused; a    *)
(* readexactly() that waits for more resumes it.                           *)
Arrive(d) ==
  /\ trans[Other(d)] = "open"
  /\ Available(d) <= ReadLimit \/ Short(d)
  /\ \E n \in (got[d] + 1)..sent[d] : got' = [got EXCEPT ![d] = n]
  /\ UNCHANGED <<mode, prog, reader, need, trans, sent, used, frames, decoded>>

CloseCompletes(d) ==
  /\ trans[d] = "closing" /\ Unsent(d) = 0
  /\ trans' = [trans EXCEPT ![d] = "closed"]
  /\ UNCHANGED <<mode, prog, reader, need, flowVars, frames, decoded>>

(* A network failure, or a reset: nothing is told to the other end.        *)
Lose(d) ==
  /\ trans[d] \in {"open", "closing"}
  /\ trans' = [trans EXCEPT ![d] = "lost"]
  /\ UNCHANGED <<mode, prog, reader, need, flowVars, frames, decoded>>

(* Cells sent to a socket that is gone are answered with a reset, or run   *)
(* into TCP's timeout. Who has no cells under way is told nothing: no end  *)
(* sends keep-alives or limits its wait (broker/server.py:171).            *)
PeerGone(d) == trans[Other(d)] \in {"lost", "closed"} /\ got[d] < sent[d]

(* The stream has no more for this reader: a FIN came behind the cells, or *)
(* connection_lost(None) of its own transport.                             *)
EndOfStream(d) ==
  /\ Short(d)
  /\ \/ trans[d] = "closed" /\ got[d] = sent[d]
     \/ trans[Other(d)] = "closed"

Reset(d) == trans[Other(d)] = "lost"

Reading(d) == reader[d] \in {"header", "payload"}

(* Fault: read(HEADER_SIZE), which returns what there is.                  *)
TakeHeaderShort(d) ==
  /\ reader[d] = "header" /\ Available(d) > 0 /\ ~Reset(d)
  /\ used' = [used EXCEPT ![d] = @ + HeaderSize]
  /\ need' = [need EXCEPT ![d] = Bytes(d)[used[d] + 1].len]
  /\ Goto(d, "payload")
  /\ UNCHANGED <<mode, prog, trans, sent, got, frames, decoded>>

(* Fault: a frame too large is left where its header ends.                 *)
TakeHeaderSkips(d) ==
  /\ reader[d] = "header" /\ ~Short(d) /\ ~Reset(d)
  /\ used' = [used EXCEPT ![d] = @ + HeaderSize]
  /\ LET len == Bytes(d)[used[d] + 1].len
     IN  /\ need' = [need EXCEPT ![d] = len]
         /\ IF len = 0 THEN Message(d, used[d] + 1, 0)
            ELSE /\ Goto(d, IF len > MaxPayload THEN "header" ELSE "payload")
                 /\ UNCHANGED <<trans, decoded>>
  /\ UNCHANGED <<mode, prog, sent, got, frames>>

(* What readexactly() returns from: read_message() and _read_one().        *)
TakeHeader(d) ==
  /\ reader[d] = "header" /\ ~Short(d) /\ ~Reset(d)
  /\ used' = [used EXCEPT ![d] = @ + HeaderSize]
  /\ LET len == Bytes(d)[used[d] + 1].len
     IN  /\ need' = [need EXCEPT ![d] = len]
         /\ IF len = 0 THEN Message(d, used[d] + 1, 0)
            ELSE Goto(d, "payload") /\ UNCHANGED <<trans, decoded>>
  /\ UNCHANGED <<mode, prog, sent, got, frames>>

TakePayload(d) ==
  /\ reader[d] = "payload" /\ ~Short(d) /\ ~Reset(d)
  /\ used' = [used EXCEPT ![d] = @ + need[d]]
  /\ Message(d, used[d] - HeaderSize + 1, need[d])
  /\ UNCHANGED <<mode, prog, need, sent, got, frames>>

-----------------------------------------------------------------------------
(* The broker.                                                             *)

Accept ==
  /\ reader[Up] = "none" /\ trans[Down] # "none"
  /\ Goto(Up, "header")
  /\ UNCHANGED <<mode, prog, need, trans, flowVars, frames, decoded>>

(* The dispatch returns; that of a TIME_TRAVEL, the one listener's frame   *)
(* with a payload, drains what it writes.                                  *)
HandlerContinues ==
  /\ reader[Up] = "busy"
  /\ mode \in Listener /\ need[Up] > 0 =>
        Unsent(Down) <= WriteLimit \/ trans[Down] \in {"closed", "lost"}
  /\ Goto(Up, "header")
  /\ UNCHANGED <<mode, prog, need, trans, flowVars, frames, decoded>>

(* The append of a PUBLISH fails, or the seek of a TIME_TRAVEL.            *)
HandlerFails ==
  /\ reader[Up] = "busy" /\ (mode \in Publisher \/ need[Up] > 0)
  /\ HandlerLeaves("dropped")
  /\ UNCHANGED <<mode, prog, need, flowVars, frames, decoded>>

(* Fault: the handler goes on reading after an IncompleteReadError.        *)
HandlerReadsOn ==
  /\ Reading(Up) /\ (EndOfStream(Up) \/ Reset(Up))
  /\ Goto(Up, "header")
  /\ UNCHANGED <<mode, prog, need, trans, flowVars, frames, decoded>>

(* IncompleteReadError, or ConnectionResetError of the read.               *)
HandlerSeesEnd ==
  /\ Reading(Up) /\ (EndOfStream(Up) \/ Reset(Up))
  /\ HandlerLeaves("over")
  /\ UNCHANGED <<mode, prog, need, flowVars, frames, decoded>>

(* A replay or the fan-out writes to a client that asked for it.           *)
BrokerWrites ==
  /\ mode \in Listener /\ decoded[Up] # << >> /\ trans[Down] = "open"
  /\ \E len \in FanoutLen : WriteFrames(Down, <<len>>)
  /\ UNCHANGED <<mode, prog, reader, need, trans, flowVars, decoded>>

(* Fault: the router aborts the transport of a client it gives up.         *)
RouterAborts ==
  /\ mode \in Listener /\ decoded[Up] # << >> /\ trans[Down] = "open"
  /\ CloseSocket(Down)
  /\ UNCHANGED <<mode, prog, reader, need, flowVars, frames, decoded>>

(* The fan-out gives up a client that does not read.                       *)
RouterDrops ==
  /\ mode \in Listener /\ decoded[Up] # << >> /\ trans[Down] = "open"
  /\ Close(Down)
  /\ UNCHANGED <<mode, prog, reader, need, flowVars, frames, decoded>>

BrokerEnds ==
  /\ reader[Up] # "dead" /\ trans[Down] # "none"
  /\ Goto(Up, "dead") /\ CloseSocket(Down)
  /\ UNCHANGED <<mode, prog, need, flowVars, frames, decoded>>

-----------------------------------------------------------------------------
(* The program.                                                            *)

Refused ==
  /\ prog = "start" /\ prog' = "failed"
  /\ UNCHANGED <<mode, reader, need, trans, flowVars, frames, decoded>>

(* open_connection() returns, and the first frames are written at once.    *)
Connect ==
  /\ prog = "start"
  /\ trans' = [d \in Direction |-> "open"]
  /\ IF mode = "interactive"
     THEN prog' = "typing" /\ UNCHANGED frames
     ELSE /\ prog' = "draining"
          /\ \E lens \in Bursts[mode] : WriteFrames(Up, lens)
  /\ UNCHANGED <<mode, reader, need, flowVars, decoded>>

TypeLine ==
  /\ prog = "typing" /\ prog' = "draining"
  /\ \E lens \in Bursts[mode] :
       IF trans[Up] = "open" THEN WriteFrames(Up, lens) ELSE UNCHANGED frames
  /\ UNCHANGED <<mode, reader, need, trans, flowVars, decoded>>

(* End of file, or Ctrl+C: the finally of the interactive mode.            *)
EndOfInput ==
  /\ mode = "interactive" /\ prog \in {"typing", "draining"}
  /\ prog' = "closing"
  /\ Close(Up)
  /\ UNCHANGED <<mode, reader, need, flowVars, frames, decoded>>

(* Fault: a publisher ends after its drain, without wait_closed().         *)
PublishEndsAtOnce ==
  /\ prog = "draining" /\ trans[Up] = "open" /\ Unsent(Up) <= WriteLimit
  /\ CASE mode = "publish"     -> prog' = "ok" /\ CloseSocket(Up) /\ UNCHANGED reader
       [] mode = "interactive" -> prog' = "typing" /\ UNCHANGED <<trans, reader>>
       [] mode \in Listener    -> /\ prog' = "listening" /\ Goto(Down, "header")
                                  /\ UNCHANGED trans
  /\ UNCHANGED <<mode, need, flowVars, frames, decoded>>

(* writer.drain() returns; publishers then close.                          *)
DrainReturns ==
  /\ prog = "draining" /\ trans[Up] = "open" /\ Unsent(Up) <= WriteLimit
  /\ CASE mode = "publish"     -> prog' = "closing" /\ Close(Up) /\ UNCHANGED reader
       [] mode = "interactive" -> prog' = "typing" /\ UNCHANGED <<trans, reader>>
       [] mode \in Listener    -> /\ prog' = "listening" /\ Goto(Down, "header")
                                  /\ UNCHANGED trans
  /\ UNCHANGED <<mode, need, flowVars, frames, decoded>>

(* drain() or wait_closed() raises what connection_lost() was given; the   *)
(* proxy and trigger_time_travel() log it and go on without a connection.  *)
SendingRaises ==
  /\ prog \in {"draining", "closing"} /\ trans[Up] = "lost"
  /\ prog' = "failed"
  /\ UNCHANGED <<mode, reader, need, trans, flowVars, frames, decoded>>

WaitClosedReturns ==
  /\ prog = "closing" /\ trans[Up] = "closed"
  /\ prog' = "ok"
  /\ UNCHANGED <<mode, reader, need, trans, flowVars, frames, decoded>>

(* Fault: a listener skips the None and waits for another frame.           *)
ListenerWaitsOn ==
  /\ prog = "listening" /\ (EndOfStream(Down) \/ Reset(Down))
  /\ mode = "cli" => reader[Down] = "header" /\ ~Reset(Down)
  /\ Goto(Down, "header")
  /\ UNCHANGED <<mode, prog, need, trans, flowVars, frames, decoded>>

(* _read_one() returns None. client.py and trigger_time_travel() close;    *)
(* the proxy lets go of the connection and opens another.                  *)
ListenerReturns ==
  /\ prog = "listening" /\ (EndOfStream(Down) \/ Reset(Down))
  /\ mode = "cli" => reader[Down] = "header" /\ ~Reset(Down)
  /\ Goto(Down, IF reader[Down] = "header" /\ ~Reset(Down) THEN "over" ELSE "cut")
  /\ IF mode = "proxy" THEN prog' = "ok" /\ CloseSocket(Up)
     ELSE prog' = "closing" /\ Close(Up)
  /\ UNCHANGED <<mode, need, flowVars, frames, decoded>>

(* client.py catches neither an end inside a payload nor a reset.          *)
ListenerRaises ==
  /\ prog = "listening" /\ mode = "cli"
  /\ Reset(Down) \/ (EndOfStream(Down) /\ reader[Down] = "payload")
  /\ Goto(Down, "cut")
  /\ prog' = "failed" /\ CloseSocket(Up)
  /\ UNCHANGED <<mode, need, flowVars, frames, decoded>>

(* The limit or the timeout of trigger_time_travel().                      *)
ReplayStops ==
  /\ prog = "listening" /\ mode = "replay"
  /\ Goto(Down, "none") /\ prog' = "closing" /\ Close(Up)
  /\ UNCHANGED <<mode, need, flowVars, frames, decoded>>

(* The process ends, by Ctrl+C or otherwise, wherever the program is.      *)
ProgramStops ==
  /\ prog \in {"draining", "typing", "listening", "closing"}
  /\ prog' = "failed" /\ Goto(Down, "none") /\ CloseSocket(Up)
  /\ UNCHANGED <<mode, need, flowVars, frames, decoded>>

-----------------------------------------------------------------------------
Wire(d)   == Flush(d) \/ Arrive(d) \/ CloseCompletes(d)
Reads(d)  == TakeHeader(d) \/ TakePayload(d)
Handler   == Accept \/ Reads(Up) \/ HandlerContinues \/ HandlerSeesEnd
Program   == \/ DrainReturns \/ SendingRaises \/ WaitClosedReturns
             \/ Reads(Down) \/ ListenerReturns \/ ListenerRaises
Broker    == Handler \/ HandlerFails \/ BrokerWrites \/ RouterDrops \/ BrokerEnds
User      == Refused \/ Connect \/ TypeLine \/ EndOfInput \/ ReplayStops \/ ProgramStops

(* Both ends are gone.                                                     *)
Over == /\ prog \in {"ok", "failed"}
        /\ reader[Up] \in {"none", "over", "dropped", "dead"}
        /\ UNCHANGED vars

Next == (\E d \in Direction : Wire(d) \/ Lose(d)) \/ Broker \/ Program \/ User \/ Over

Spec == Init /\ [][Next]_vars

(* The event loops run what is ready, the kernels deliver what they hold,  *)
(* and who has sent to a socket that is gone is told. Nobody has to type,  *)
(* to stop, or to notice a failure of the network without sending into it. *)
Fairness ==
  /\ WF_vars(Handler) /\ WF_vars(Program)
  /\ \A d \in Direction : WF_vars(Wire(d)) /\ WF_vars(PeerGone(d) /\ Lose(d))

FairSpec == Spec /\ Fairness

-----------------------------------------------------------------------------
(* Properties.                                                             *)

(* Types and bounds of all variables: no reader is ahead of the network,   *)
(* no network ahead of its writer.                                         *)
TypeOK ==
  /\ mode \in Publisher \cup Listener /\ prog \in ProgState
  /\ reader \in [Direction -> ReaderState] /\ trans \in [Direction -> Transport]
  /\ \A d \in Direction :
       /\ need[d] \in Nat /\ {sent[d], got[d], used[d]} \subseteq Nat
       /\ used[d] <= got[d] /\ got[d] <= sent[d] /\ sent[d] <= Len(Bytes(d))
       /\ sent[d] - got[d] <= WireSize
       /\ Len(frames[d]) <= MaxFrames

(* However the bytes are cut and joined on the way and wherever an end is  *)
(* lost, what read_message() and _read_one() return in each direction are  *)
(* the frames that were written, unchanged, in order, without a gap.       *)
UpChannel   == INSTANCE FrameChannel WITH written <- frames[Up], delivered <- decoded[Up]
DownChannel == INSTANCE FrameChannel WITH written <- frames[Down], delivered <- decoded[Down]

ImplementsFrameChannel == UpChannel!Spec /\ DownChannel!Spec

(* A listener that is told of the end between two frames has got all that  *)
(* the broker wrote to it, also when the router dropped it with frames in  *)
(* the buffer, unless the broker's process died.                           *)
EndMeansAll ==
  reader[Down] = "over" /\ reader[Up] # "dead" => decoded[Down] = frames[Down]

(* A publish that is reported as done is decoded by the broker, unless the *)
(* broker gives up the connection or dies.                                 *)
OkArrives ==
  (prog = "ok" /\ mode \in Publisher) ~>
     (decoded[Up] = frames[Up] \/ reader[Up] \in {"dropped", "dead"} \/ trans[Down] = "lost")

(* A program is never stuck in drain() or wait_closed(), whatever becomes  *)
(* of the broker and however much it writes at once.                       *)
SendingEnds == prog \in {"draining", "closing"} ~> prog \notin {"draining", "closing"}

(* When a program has ended and its socket with it, so that a FIN is on    *)
(* its way, the handler leaves: whatever it was doing, wherever in a frame *)
(* it was, and also when a transport of the broker has failed since. A     *)
(* connection that is lost without a FIN is not covered: the handler of an *)
(* idle one waits for ever, whatever Viva_Reports/Server_QA_Report.md:17   *)
(* says of a cable that is pulled out.                                     *)
HandlerEnds ==
  (prog \in {"ok", "failed"} /\ trans[Up] = "closed" /\ reader[Up] # "none") ~>
     (reader[Up] \in {"over", "dropped", "dead"})

(* A listener whose connection the broker has ended comes to know it.      *)
ListenerNotices ==
  (prog = "listening" /\ trans[Down] = "closed") ~> (prog # "listening")
=============================================================================
