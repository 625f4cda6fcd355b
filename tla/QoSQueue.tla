------------------------------ MODULE QoSQueue ------------------------------
(***************************************************************************)
(* What the priority router promises, without its worker, its event flag,  *)
(* its sockets or its failures: messages arrive one at a time, each takes  *)
(* the next arrival number, and whatever is served is the most urgent      *)
(* message pending at that moment (broker/router.py, lines 4 to 8).        *)
(*                                                                         *)
(* PriorityRouter implements this module; the order theorems are proved    *)
(* here once and hold of the router through that refinement.               *)
(***************************************************************************)
EXTENDS Integers, Sequences

CONSTANTS
  Topic,        \* topic identifiers (32-bit hashes in the code)
  Priority,     \* the priority byte of a frame
  MaxArrivals   \* bound on the number of messages ever enqueued

ASSUME PriorityAssumption == Priority \subseteq Nat
ASSUME ArrivalsAssumption == MaxArrivals \in Nat

VARIABLES
  pending,      \* entries that have arrived and were not served
  arrivals,     \* how many messages have arrived
  served        \* history: services in order, each with the arrivals it saw

vars == <<pending, arrivals, served>>

-----------------------------------------------------------------------------
Entry   == [pri : Priority, seq : Nat, topic : Topic]
Service == [entry : Entry, at : Nat]

(* The order of the tuples (-priority, seq): larger priority first, then   *)
(* first come first served.                                                *)
Precedes(e, f) == e.pri > f.pri \/ (e.pri = f.pri /\ e.seq < f.seq)

(* Faults: the priority is not negated for the min-heap; ties go to the    *)
(* newest message.                                                         *)
LeastUrgentFirst(e) ==
  /\ e \in pending
  /\ \A f \in pending \ {e} : e.pri < f.pri \/ (e.pri = f.pri /\ e.seq < f.seq)

NewestFirst(e) ==
  /\ e \in pending
  /\ \A f \in pending \ {e} : e.pri > f.pri \/ (e.pri = f.pri /\ e.seq > f.seq)

IsMostUrgent(e) == e \in pending /\ \A f \in pending \ {e} : Precedes(e, f)

Init ==
  /\ pending  = {}
  /\ arrivals = 0
  /\ served   = << >>

(* Fault: the negated priority stays in the message.                       *)
ArriveNegated(p, t) ==
  /\ arrivals < MaxArrivals
  /\ pending'  = pending \cup {[pri |-> -p, seq |-> arrivals, topic |-> t]}
  /\ arrivals' = arrivals + 1
  /\ UNCHANGED served

Arrive(p, t) ==
  /\ arrivals < MaxArrivals
  /\ pending'  = pending \cup {[pri |-> p, seq |-> arrivals, topic |-> t]}
  /\ arrivals' = arrivals + 1
  /\ UNCHANGED served

(* Fault: the top of the heap is read and not popped.                      *)
ServePeeks(e) ==
  /\ IsMostUrgent(e)
  /\ Len(served) < MaxArrivals
  /\ served' = Append(served, [entry |-> e, at |-> arrivals])
  /\ UNCHANGED <<pending, arrivals>>

Serve(e) ==
  /\ IsMostUrgent(e)
  /\ pending' = pending \ {e}
  /\ served'  = Append(served, [entry |-> e, at |-> arrivals])
  /\ UNCHANGED arrivals

Next ==
  \/ \E p \in Priority, t \in Topic : Arrive(p, t)
  \/ \E e \in pending : Serve(e)

Spec == Init /\ [][Next]_vars

-----------------------------------------------------------------------------
TypeOK ==
  /\ pending \subseteq Entry
  /\ arrivals \in Nat
  /\ served \in Seq(Service)

(* A message overtakes an earlier service only by arriving after it: if i  *)
(* was served before j, either i is more urgent (or as urgent and older),  *)
(* or j had not arrived when i was served.  This is the whole of the       *)
(* "fire before battery" claim for a stream that never pauses, and FIFO    *)
(* within one priority.                                                    *)
ServedByPriority ==
  \A i, j \in DOMAIN served :
    i < j => \/ Precedes(served[i].entry, served[j].entry)
             \/ served[j].entry.seq >= served[i].at

(* Every message that arrived is pending or has been served, never both,   *)
(* and none is served twice: the queue neither loses nor repeats one.      *)
ServedOnce ==
  /\ \A k \in 0..arrivals - 1 :
       \/ \E e \in pending : e.seq = k
       \/ \E i \in DOMAIN served : served[i].entry.seq = k
  /\ \A i \in DOMAIN served : \A e \in pending : served[i].entry.seq # e.seq
  /\ \A i, j \in DOMAIN served :
       served[i].entry.seq = served[j].entry.seq => i = j
=============================================================================
