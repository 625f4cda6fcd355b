--------------------------- MODULE InductionLemmas ---------------------------
(***************************************************************************)
(* Induction over the naturals in a form the provers can use: about sets   *)
(* and functions instead of operators.  It gives what the recursive        *)
(* functions of the models need, that they exist and that what each step   *)
(* keeps holds at the end.                                                 *)
(***************************************************************************)
EXTENDS Integers, TLAPS, WellFoundedInduction

(* A nonempty set of naturals has a least element.                         *)
LEMMA LeastNatural ==
  ASSUME NEW T \in SUBSET Nat, T # {}
  PROVE  \E x \in T : \A y \in T : x <= y
<1> DEFINE Less == {ss \in Nat \X Nat : ss[1] < ss[2]}
<1>1. IsWellFoundedOn(Less, Nat)
  BY NatLessThanWellFounded DEF OpToRel
<1>2. \E x \in T : \A y \in T : <<y, x>> \notin Less
  <2> HIDE DEF Less
  <2> QED BY <1>1, WFMin
<1>3. \A x, y \in Nat : <<y, x>> \in Less <=> y < x
  OBVIOUS
<1>4. \A x \in T : x \in Nat
  OBVIOUS
<1>5. PICK x \in T : \A y \in T : <<y, x>> \notin Less
  BY <1>2
<1>6. \A y \in T : x <= y
  <2> TAKE y \in T
  <2>1. <<y, x>> \notin Less
    BY <1>5
  <2> QED BY <1>3, <1>4, <2>1
<1> QED BY <1>6

(* A set that holds 0, and with a number the next one, holds every natural.*)
LEMMA SetInduction ==
  ASSUME NEW T \in SUBSET Nat, 0 \in T, \A n \in T : n + 1 \in T
  PROVE  \A n \in Nat : n \in T
<1> DEFINE Missing == Nat \ T
<1>1. SUFFICES ASSUME Missing # {} PROVE FALSE
  OBVIOUS
<1>2. PICK n \in Missing : \A m \in Missing : n <= m
  <2> HIDE DEF Missing
  <2>1. Missing \in SUBSET Nat
    BY DEF Missing
  <2> QED BY <1>1, <2>1, LeastNatural
<1>3. n - 1 \in Nat /\ n - 1 \notin Missing
  BY <1>2
<1> QED BY <1>2, <1>3

(* f lists the results of up to n repetitions of a step that starts at x.  *)
Iterates(f, n, S, x, step) ==
  f \in [0..n -> S] /\ f[0] = x /\ \A k \in 1..n : f[k] = step[f[k - 1]]

(* A step can be repeated any number of times.                             *)
LEMMA Iteration ==
  ASSUME NEW S, NEW x \in S, NEW step \in [S -> S], NEW n \in Nat
  PROVE  \E f : Iterates(f, n, S, x, step)
<1> DEFINE Good(m) == \E f \in [0..m -> S] :
                        f[0] = x /\ \A k \in 1..m : f[k] = step[f[k - 1]]
           T == {m \in Nat : Good(m)}
<1>1. 0 \in T
  <2> DEFINE f == [k \in 0..0 |-> x]
  <2>1. f \in [0..0 -> S] /\ f[0] = x
    OBVIOUS
  <2>2. \A k \in 1..0 : f[k] = step[f[k - 1]]
    OBVIOUS
  <2> HIDE DEF f
  <2> QED BY <2>1, <2>2
<1>2. ASSUME NEW m \in T
      PROVE  m + 1 \in T
  <2>1. PICK f \in [0..m -> S] : f[0] = x /\ \A k \in 1..m : f[k] = step[f[k - 1]]
    BY <1>2
  <2> DEFINE g == [k \in 0..m + 1 |-> IF k <= m THEN f[k] ELSE step[f[m]]]
  <2>2. m \in Nat /\ f[m] \in S /\ step[f[m]] \in S
    BY <1>2, <2>1
  <2>3. g \in [0..m + 1 -> S]
    BY <2>1, <2>2
  <2>4. g[0] = x
    BY <2>1, <2>2
  <2>5. \A k \in 1..m + 1 : g[k] = step[g[k - 1]]
    BY <2>1, <2>2
  <2> HIDE DEF g
  <2>6. Good(m + 1)
    BY <2>3, <2>4, <2>5
  <2> QED BY <2>2, <2>6
<1>3. \A m \in Nat : m \in T
  <2> HIDE DEF T
  <2>1. T \in SUBSET Nat
    BY DEF T
  <2> QED BY <1>1, <1>2, <2>1, SetInduction
<1> QED BY <1>3 DEF Iterates
=============================================================================
