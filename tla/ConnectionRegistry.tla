------------------------- MODULE ConnectionRegistry -------------------------
(***************************************************************************)
(* The subscription registry of broker/server.py (ConnectionRegistry) and  *)
(* the asyncio transport behind each StreamWriter it holds.                *)
(*                                                                         *)
(* A member of Client is one connection (the code draws a fresh uuid for   *)
(* each), so a client that reconnects is another member.                   *)
(***************************************************************************)
EXTENDS Naturals, Sequences, FiniteSets

CONSTANTS
  Client,   \* connections, each used at most once
  Topic     \* topic identifiers

VARIABLES
  clients,   \* keys of _clients: the registered connections
  topics,    \* topics[c]: the set of topic ids kept for c
  conn,      \* conn[c]: state of c's transport
  buffered   \* buffered[c]: how full c's write buffer is

registryVars  == <<clients, topics>>
transportVars == <<conn, buffered>>

-----------------------------------------------------------------------------
(* A transport is "new" before the connection exists, "closing" between    *)
(* writer.close() and connection_lost(), "lost" afterwards.  Its buffer is *)
(* Drained (empty), Backlog (bytes waiting, below the high-water mark) or  *)
(* Full (above it: drain() waits).                                         *)
ConnState == {"new", "open", "closing", "lost"}
Drained   == 0
Backlog   == 1
Full      == 2

RegistryTypeOK ==
  /\ clients \subseteq Client
  /\ topics \in [Client -> SUBSET Topic]
  /\ conn \in [Client -> ConnState]
  /\ buffered \in [Client -> Drained..Full]

RegistryInit ==
  /\ clients  = {}
  /\ topics   = [c \in Client |-> {}]
  /\ conn     = [c \in Client |-> "new"]
  /\ buffered = [c \in Client |-> Drained]

-----------------------------------------------------------------------------
(* The calls of ConnectionRegistry.                                        *)

Register(c) ==
  /\ conn[c] = "new"
  /\ conn'    = [conn EXCEPT ![c] = "open"]
  /\ clients' = clients \cup {c}
  /\ topics'  = [topics EXCEPT ![c] = {}]
  /\ UNCHANGED buffered

(* Fault: subscribing creates a missing entry.                             *)
SubscribeAnyone(c, t) ==
  /\ conn[c] # "new"
  /\ clients' = clients \cup {c}
  /\ topics'  = [topics EXCEPT ![c] = @ \cup {t}]
  /\ UNCHANGED transportVars

(* A connection the registry no longer knows is ignored: its handler may   *)
(* still be working through frames it had already received.                *)
Subscribe(c, t) ==
  /\ c \in clients
  /\ topics' = [topics EXCEPT ![c] = @ \cup {t}]
  /\ UNCHANGED <<clients, transportVars>>

Subscribers(t) == {c \in clients : t \in topics[c]}

(* unregister(c) up to its await: the entry is popped, and the writer is   *)
(* closed if nobody closed it before.                                      *)
MustClose(c) == c \in clients /\ conn[c] = "open"

Unregister(c) ==
  /\ clients' = clients \ {c}
  /\ conn' = IF MustClose(c) THEN [conn EXCEPT ![c] = "closing"] ELSE conn
  /\ UNCHANGED <<topics, buffered>>

-----------------------------------------------------------------------------
(* The transport, as asyncio runs it.                                      *)

(* A transport that is closing drops what is written once its buffer is    *)
(* empty; a lost one drops everything.                                     *)
Accepts(c) == conn[c] = "open" \/ (conn[c] = "closing" /\ buffered[c] # Drained)

(* writer.write(frame): the frame goes out at once or joins the buffer.    *)
Write(c) ==
  IF Accepts(c)
    THEN \E level \in buffered[c]..Full :
           buffered' = [buffered EXCEPT ![c] = level]
    ELSE UNCHANGED buffered

(* The peer reads, so buffered bytes leave.                                *)
PeerReads(c) ==
  /\ conn[c] \in {"open", "closing"}
  /\ \E level \in Drained..Full :
       /\ level < buffered[c]
       /\ buffered' = [buffered EXCEPT ![c] = level]
  /\ UNCHANGED <<registryVars, conn>>

(* A reset, a dead host, a network that gives up.                          *)
Lose(c) ==
  /\ conn[c] \in {"open", "closing"}
  /\ conn'     = [conn EXCEPT ![c] = "lost"]
  /\ buffered' = [buffered EXCEPT ![c] = Drained]
  /\ UNCHANGED registryVars

(* A closing transport calls connection_lost() once its buffer is empty,   *)
(* and not before.                                                         *)
CloseCompletes(c) ==
  /\ conn[c] = "closing"
  /\ buffered[c] = Drained
  /\ conn' = [conn EXCEPT ![c] = "lost"]
  /\ UNCHANGED <<registryVars, buffered>>
=============================================================================
