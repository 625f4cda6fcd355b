--------------------------- MODULE QoSQueueProofs ---------------------------
(***************************************************************************)
(* Proofs about QoSQueue for every set of topics and priorities and every  *)
(* number of arrivals.                                                     *)
(***************************************************************************)
EXTENDS QoSQueue, TLAPS

(* What the queue maintains.  A pending entry is older than the arrival    *)
(* counter and alone with its number; a service saw its own entry arrive;  *)
(* and whatever is pending comes after every earlier service, or arrived   *)
(* after it.                                                               *)
PendingNumbered ==
  /\ \A e \in pending : e.seq < arrivals
  /\ \A e, f \in pending : e.seq = f.seq => e = f

ServedNumbered ==
  \A i \in DOMAIN served :
    served[i].entry.seq < served[i].at /\ served[i].at <= arrivals

PendingAfterServed ==
  \A i \in DOMAIN served : \A e \in pending :
    Precedes(served[i].entry, e) \/ e.seq >= served[i].at

QueueInv ==
  /\ TypeOK
  /\ PendingNumbered
  /\ ServedNumbered
  /\ PendingAfterServed
  /\ ServedByPriority
  /\ ServedOnce

(* An arriving message keeps the invariant: it is the youngest of all.     *)
LEMMA ArriveKeepsInv ==
  ASSUME QueueInv, NEW p \in Priority, NEW t \in Topic, Arrive(p, t)
  PROVE  QueueInv'
<1> DEFINE new == [pri |-> p, seq |-> arrivals, topic |-> t]
<1>1. /\ pending' = pending \cup {new}
      /\ arrivals' = arrivals + 1
      /\ served' = served
  BY DEF Arrive
<1>2. /\ new \in Entry
      /\ new.seq = arrivals
      /\ arrivals \in Nat
      /\ pending \subseteq Entry
      /\ served \in Seq(Service)
  BY DEF QueueInv, TypeOK, Entry
<1>3. TypeOK'
  BY <1>1, <1>2 DEF TypeOK
<1>4. \A e \in pending : e.seq \in Nat /\ e.seq < arrivals
  BY <1>2 DEF QueueInv, PendingNumbered, Entry
<1>5. PendingNumbered'
  BY <1>1, <1>2, <1>4 DEF QueueInv, PendingNumbered
<1>6. \A i \in DOMAIN served :
        /\ served[i].at \in Nat
        /\ served[i].entry.seq \in Nat
        /\ served[i].entry.seq < served[i].at
        /\ served[i].at <= arrivals
  <2>1. \A i \in DOMAIN served : served[i] \in Service
    BY <1>2
  <2> QED BY <2>1 DEF QueueInv, ServedNumbered, Service, Entry
<1>7. ServedNumbered'
  BY <1>1, <1>2, <1>6 DEF ServedNumbered
<1>8. PendingAfterServed'
  <2> SUFFICES ASSUME NEW i \in DOMAIN served, NEW e \in pending \cup {new}
               PROVE  Precedes(served[i].entry, e) \/ e.seq >= served[i].at
    BY <1>1 DEF PendingAfterServed, Precedes
  <2>1. CASE e = new
    BY <2>1, <1>2, <1>6
  <2>2. CASE e \in pending
    BY <2>2 DEF QueueInv, PendingAfterServed
  <2> QED BY <2>1, <2>2
<1>9. ServedByPriority'
  BY <1>1 DEF QueueInv, ServedByPriority, Precedes
<1>10. ServedOnce'
  <2>1. ASSUME NEW k \in 0..arrivals
        PROVE  \/ \E e \in pending \cup {new} : e.seq = k
               \/ \E i \in DOMAIN served : served[i].entry.seq = k
    <3>1. CASE k = arrivals
      BY <3>1, <1>2
    <3>2. CASE k \in 0..arrivals - 1
      BY <3>2 DEF QueueInv, ServedOnce
    <3> QED BY <3>1, <3>2, <1>2
  <2>2. ASSUME NEW i \in DOMAIN served, NEW e \in pending \cup {new}
        PROVE  served[i].entry.seq # e.seq
    <3>1. CASE e = new
      BY <3>1, <1>2, <1>6
    <3>2. CASE e \in pending
      BY <3>2 DEF QueueInv, ServedOnce
    <3> QED BY <3>1, <3>2
  <2>3. \A i, j \in DOMAIN served :
          served[i].entry.seq = served[j].entry.seq => i = j
    BY DEF QueueInv, ServedOnce
  <2>4. arrivals' - 1 = arrivals
    BY <1>1, <1>2
  <2> QED BY <1>1, <2>1, <2>2, <2>3, <2>4 DEF ServedOnce
<1> QED BY <1>3, <1>5, <1>7, <1>8, <1>9, <1>10 DEF QueueInv

(* So does a service: it takes the entry that precedes all others.         *)
LEMMA ServeKeepsInv ==
  ASSUME QueueInv, NEW e \in pending, Serve(e)
  PROVE  QueueInv'
<1> DEFINE n == Len(served)
           s == [entry |-> e, at |-> arrivals]
<1>1. /\ pending' = pending \ {e}
      /\ arrivals' = arrivals
      /\ served' = Append(served, s)
      /\ \A f \in pending \ {e} : Precedes(e, f)
  BY DEF Serve, IsMostUrgent
<1>2. /\ arrivals \in Nat
      /\ pending \subseteq Entry
      /\ served \in Seq(Service)
      /\ s \in Service
      /\ e.seq \in Nat /\ e.seq < arrivals
  BY DEF QueueInv, TypeOK, PendingNumbered, Service, Entry
<1>3. TypeOK'
  BY <1>1, <1>2 DEF TypeOK
<1>4. PendingNumbered'
  BY <1>1 DEF QueueInv, PendingNumbered
<1>5. /\ n \in Nat
      /\ DOMAIN served = 1..n
      /\ DOMAIN served' = 1..n + 1
      /\ \A i \in 1..n : served'[i] = served[i]
      /\ served'[n + 1] = s
  BY <1>1, <1>2
<1>6. ServedNumbered'
  <2> SUFFICES ASSUME NEW i \in 1..n + 1
               PROVE  /\ served'[i].entry.seq < served'[i].at
                      /\ served'[i].at <= arrivals
    BY <1>1, <1>5 DEF ServedNumbered
  <2>1. CASE i = n + 1
    BY <2>1, <1>2, <1>5
  <2>2. CASE i \in 1..n
    BY <2>2, <1>5 DEF QueueInv, ServedNumbered
  <2> QED BY <2>1, <2>2, <1>5
<1>7. PendingAfterServed'
  <2> SUFFICES ASSUME NEW i \in 1..n + 1, NEW f \in pending \ {e}
               PROVE  \/ Precedes(served'[i].entry, f)
                      \/ f.seq >= served'[i].at
    BY <1>1, <1>5 DEF PendingAfterServed, Precedes
  <2>1. CASE i = n + 1
    BY <2>1, <1>1, <1>5
  <2>2. CASE i \in 1..n
    BY <2>2, <1>5 DEF QueueInv, PendingAfterServed
  <2> QED BY <2>1, <2>2, <1>5
<1>8. ServedByPriority'
  <2> SUFFICES ASSUME NEW i \in 1..n + 1, NEW j \in 1..n + 1, i < j
               PROVE  \/ Precedes(served'[i].entry, served'[j].entry)
                      \/ served'[j].entry.seq >= served'[i].at
    BY <1>5 DEF ServedByPriority, Precedes
  <2>1. i \in 1..n
    BY <1>5
  <2>2. CASE j = n + 1
    BY <2>1, <2>2, <1>5 DEF QueueInv, PendingAfterServed
  <2>3. CASE j \in 1..n
    BY <2>1, <2>3, <1>5 DEF QueueInv, ServedByPriority
  <2> QED BY <2>2, <2>3, <1>5
<1>9. ServedOnce'
  <2>1. ASSUME NEW k \in 0..arrivals - 1
        PROVE  \/ \E f \in pending \ {e} : f.seq = k
               \/ \E i \in 1..n + 1 : served'[i].entry.seq = k
    <3>1. CASE e.seq = k
      BY <3>1, <1>5
    <3>2. CASE \E f \in pending : f.seq = k /\ f # e
      BY <3>2
    <3>3. CASE \E i \in 1..n : served[i].entry.seq = k
      BY <3>3, <1>5
    <3> QED BY <3>1, <3>2, <3>3, <1>5 DEF QueueInv, ServedOnce
  <2>2. ASSUME NEW i \in 1..n + 1, NEW f \in pending \ {e}
        PROVE  served'[i].entry.seq # f.seq
    <3>1. CASE i = n + 1
      BY <3>1, <1>5 DEF QueueInv, PendingNumbered
    <3>2. CASE i \in 1..n
      BY <3>2, <1>5 DEF QueueInv, ServedOnce
    <3> QED BY <3>1, <3>2, <1>5
  <2>3. ASSUME NEW i \in 1..n + 1, NEW j \in 1..n + 1,
               served'[i].entry.seq = served'[j].entry.seq
        PROVE  i = j
    <3>1. \A k \in 1..n : served'[k].entry.seq # e.seq
      BY <1>5 DEF QueueInv, ServedOnce
    <3>2. CASE i \in 1..n /\ j \in 1..n
      BY <3>2, <2>3, <1>5 DEF QueueInv, ServedOnce
    <3> QED BY <3>1, <3>2, <2>3, <1>5
  <2> QED BY <1>1, <1>5, <2>1, <2>2, <2>3 DEF ServedOnce
<1> QED BY <1>3, <1>4, <1>6, <1>7, <1>8, <1>9 DEF QueueInv

(* QueueInv is an inductive invariant of the queue.                        *)
THEOREM QueueInvariant == Spec => []QueueInv
<1>1. Init => QueueInv
  BY DEF Init, QueueInv, TypeOK, PendingNumbered, ServedNumbered,
         PendingAfterServed, ServedByPriority, ServedOnce
<1>2. QueueInv /\ [Next]_vars => QueueInv'
  <2> SUFFICES ASSUME QueueInv, [Next]_vars
               PROVE  QueueInv'
    OBVIOUS
  <2>1. ASSUME NEW p \in Priority, NEW t \in Topic, Arrive(p, t)
        PROVE  QueueInv'
    BY <2>1, ArriveKeepsInv
  <2>2. ASSUME NEW e \in pending, Serve(e)
        PROVE  QueueInv'
    BY <2>2, ServeKeepsInv
  <2>3. CASE UNCHANGED vars
    BY <2>3 DEF vars, QueueInv, TypeOK, PendingNumbered, ServedNumbered,
                PendingAfterServed, ServedByPriority, ServedOnce, Precedes
  <2> QED BY <2>1, <2>2, <2>3 DEF Next
<1> QED BY <1>1, <1>2, PTL DEF Spec

(* The heap and the history keep their types (broker/router.py:75).        *)
THEOREM QueueTypeOK == Spec => []TypeOK
BY QueueInvariant, PTL DEF QueueInv

(* A message is served before another only by priority, by age within its  *)
(* priority, or because the other had not arrived (broker/router.py:4-8).  *)
THEOREM PriorityOrder == Spec => []ServedByPriority
BY QueueInvariant, PTL DEF QueueInv

(* No message that was enqueued is lost or served twice.                   *)
THEOREM EachServedOnce == Spec => []ServedOnce
BY QueueInvariant, PTL DEF QueueInv
=============================================================================
