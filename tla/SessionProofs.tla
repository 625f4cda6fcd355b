---------------------------- MODULE SessionProofs ----------------------------
(***************************************************************************)
(* Proofs about Session for any bursts, sizes of buffers and limits: its   *)
(* types, that each direction is a FrameChannel, and that a listener that  *)
(* is told of the end has got everything.                                  *)
(*                                                                         *)
(* What travels are cells, and what is promised are frames; the invariant  *)
(* that connects them says at which cell of which frame a reader stands.   *)
(* It needs to know where the cells of a frame lie among all that were     *)
(* written, which the first lemmas say of FlattenSeq.                      *)
(***************************************************************************)
EXTENDS Session, InductionLemmas, SequenceTheorems

(* The parts of two sequences put together.                                *)
LEMMA ConcatParts ==
  ASSUME NEW S, NEW s \in Seq(S), NEW t \in Seq(S)
  PROVE  /\ Len(s \o t) = Len(s) + Len(t)
         /\ \A i \in 1..Len(s) : (s \o t)[i] = s[i]
         /\ \A i \in 1..Len(t) : (s \o t)[Len(s) + i] = t[i]
OBVIOUS

(* f lists the concatenations of the first one, two, ... m sequences.      *)
Concatenates(f, m, seqs) ==
  f[1] = seqs[1] /\ \A i \in 2..m : f[i] = f[i - 1] \o seqs[i]

(* The recursive function of FlattenSeq exists.                            *)
LEMMA ConcatenationExists ==
  ASSUME NEW S, NEW seqs \in Seq(Seq(S)), Len(seqs) # 0
  PROVE  \E f \in [1..Len(seqs) -> Seq(S)] : Concatenates(f, Len(seqs), seqs)
<1> DEFINE n == Len(seqs)
           Good(m) == \E f \in [1..m -> Seq(S)] : Concatenates(f, m, seqs)
           T == {k \in Nat : k + 1 <= n => Good(k + 1)}
<1>1. n \in Nat /\ n >= 1 /\ \A i \in 1..n : seqs[i] \in Seq(S)
  BY LenProperties, ElementOfSeq
<1> HIDE DEF n
<1>2. 0 \in T
  <2> DEFINE f == [i \in 1..1 |-> seqs[1]]
  <2>1. f \in [1..1 -> Seq(S)] /\ f[1] = seqs[1]
    BY <1>1
  <2> HIDE DEF f
  <2>2. Concatenates(f, 1, seqs)
    BY <2>1 DEF Concatenates
  <2> QED BY <2>1, <2>2
<1>3. ASSUME NEW k \in Nat, k \in T PROVE k + 1 \in T
  <2>1. k + 1 <= n => Good(k + 1)
    BY <1>3
  <2>2. ASSUME k + 2 <= n PROVE Good(k + 2)
    <3>1. PICK f \in [1..k + 1 -> Seq(S)] : Concatenates(f, k + 1, seqs)
      BY <1>1, <2>1, <2>2
    <3> DEFINE g == [i \in 1..k + 2 |-> IF i = k + 2 THEN f[k + 1] \o seqs[k + 2] ELSE f[i]]
    <3> HIDE DEF T, Good
    <3>2. f[k + 1] \o seqs[k + 2] \in Seq(S)
      BY <1>1, <2>2, <3>1
    <3>3. g \in [1..k + 2 -> Seq(S)]
      BY <3>1, <3>2
    <3>4. g[k + 2] = f[k + 1] \o seqs[k + 2] /\ \A i \in 1..k + 1 : g[i] = f[i]
      <4>1. k + 2 \in 1..k + 2
        OBVIOUS
      <4>2. \A i \in 1..k + 1 : i \in 1..k + 2 /\ i # k + 2
        OBVIOUS
      <4> QED BY <4>1, <4>2
    <3> HIDE DEF g
    <3>5. ASSUME NEW i \in 2..k + 2 PROVE g[i] = g[i - 1] \o seqs[i]
      <4>1. i - 1 \in 1..k + 1 /\ (i # k + 2 => i \in 2..k + 1)
        OBVIOUS
      <4>2. CASE i = k + 2
        <5>1. i - 1 = k + 1
          BY <4>2
        <5> QED BY <3>4, <4>1, <4>2, <5>1
      <4>3. CASE i # k + 2
        <5>1. i \in 2..k + 1 /\ i \in 1..k + 1
          BY <4>1, <4>3
        <5> QED BY <3>1, <3>4, <4>1, <5>1 DEF Concatenates
      <4> QED BY <4>2, <4>3
    <3>6. Concatenates(g, k + 2, seqs)
      <4>1. 1 \in 1..k + 1
        OBVIOUS
      <4> QED BY <3>1, <3>4, <3>5, <4>1 DEF Concatenates
    <3> QED BY <3>3, <3>6 DEF Good
  <2> QED BY <2>2
<1>4. \A k \in Nat : k \in T
  <2> HIDE DEF T
  <2>1. T \in SUBSET Nat
    BY DEF T
  <2> QED BY <1>2, <1>3, <2>1, SetInduction
<1>5. n - 1 \in T /\ (n - 1) + 1 = n
  <2> HIDE DEF T
  <2> QED BY <1>1, <1>4
<1>6. Good(n)
  <2> HIDE DEF Good
  <2> QED BY <1>1, <1>5
<1> QED BY <1>6 DEF n

(* And the last of its values is what FlattenSeq returns.                  *)
LEMMA FlattenConcatenates ==
  ASSUME NEW S, NEW seqs \in Seq(Seq(S)), Len(seqs) # 0
  PROVE  \E f \in [1..Len(seqs) -> Seq(S)] :
           Concatenates(f, Len(seqs), seqs) /\ FlattenSeq(seqs) = f[Len(seqs)]
<1> DEFINE n == Len(seqs)
           Eq(f) == f = [i \in 1..n |-> IF i = 1 THEN seqs[i] ELSE f[i - 1] \o seqs[i]]
<1>1. n \in Nat /\ n >= 1 /\ \A i \in 1..n : seqs[i] \in Seq(S)
  BY LenProperties, ElementOfSeq
<1>2. \E f : Eq(f)
  <2>1. PICK f \in [1..n -> Seq(S)] : Concatenates(f, n, seqs)
    BY ConcatenationExists
  <2>2. ASSUME NEW i \in 1..n
        PROVE  f[i] = IF i = 1 THEN seqs[i] ELSE f[i - 1] \o seqs[i]
    <3> HIDE DEF n
    <3>1. i = 1 \/ i \in 2..n
      BY <1>1
    <3> QED BY <2>1, <3>1 DEF Concatenates
  <2> QED BY <2>1, <2>2
<1>3. \E f : Eq(f) /\ FlattenSeq(seqs) = f[n]
  BY <1>2 DEF FlattenSeq
<1>4. PICK f : Eq(f) /\ FlattenSeq(seqs) = f[n]
  BY <1>3
<1>5. f[1] = seqs[1] /\ \A i \in 2..n : f[i] = f[i - 1] \o seqs[i]
  <2> HIDE DEF n
  <2>1. 1 \in 1..n /\ \A i \in 2..n : i \in 1..n /\ i # 1
    BY <1>1
  <2> QED BY <1>4, <2>1
<1>6. Concatenates(f, n, seqs)
  BY <1>5 DEF Concatenates
<1>7. DOMAIN f = 1..n /\ f = [i \in 1..n |-> f[i]]
  BY <1>4
<1> HIDE DEF Eq, n
<1> DEFINE T == {k \in Nat : k + 1 <= n => f[k + 1] \in Seq(S)}
<1>8. 0 \in T
  BY <1>1, <1>5
<1>9. ASSUME NEW k \in Nat, k \in T PROVE k + 1 \in T
  <2>2. ASSUME (k + 1) + 1 <= n PROVE f[(k + 1) + 1] \in Seq(S)
    <3>1. f[k + 1] \in Seq(S) /\ k + 2 \in 2..n /\ (k + 2) - 1 = k + 1 /\ (k + 1) + 1 = k + 2
      BY <1>1, <1>9, <2>2
    <3> HIDE DEF T
    <3>2. seqs[k + 2] \in Seq(S)
      BY <1>1, <3>1
    <3>3. f[k + 2] = f[k + 1] \o seqs[k + 2]
      BY <1>5, <3>1
    <3>4. f[k + 1] \o seqs[k + 2] \in Seq(S)
      BY <3>1, <3>2
    <3> QED BY <3>1, <3>3, <3>4
  <2> QED BY <2>2
<1>10. \A k \in Nat : k \in T
  <2> HIDE DEF T
  <2>1. T \in SUBSET Nat
    BY DEF T
  <2> QED BY <1>8, <1>9, <2>1, SetInduction
<1>11. \A i \in 1..n : f[i] \in Seq(S)
  <2> TAKE i \in 1..n
  <2>1. i - 1 \in T /\ (i - 1) + 1 = i
    <3> HIDE DEF T
    <3> QED BY <1>1, <1>10
  <2>2. (i - 1) + 1 <= n
    BY <1>1, <2>1
  <2> QED BY <2>1, <2>2
<1>12. f \in [1..n -> Seq(S)]
  BY <1>7, <1>11
<1> QED BY <1>4, <1>6, <1>12 DEF n

(* What FlattenSeq returns is a sequence of the cells, and of none if there*)
(* is no sequence.                                                         *)
LEMMA FlattenType ==
  ASSUME NEW S, NEW seqs \in Seq(Seq(S))
  PROVE  /\ FlattenSeq(seqs) \in Seq(S)
         /\ seqs = << >> => FlattenSeq(seqs) = seqs
<1>1. CASE Len(seqs) = 0
  <2>1. FlattenSeq(seqs) = seqs
    BY <1>1 DEF FlattenSeq
  <2>2. seqs = << >>
    BY <1>1, EmptySeq
  <2>3. seqs \in Seq(S)
    BY <2>2, EmptySeq
  <2> QED BY <2>1, <2>3
<1>2. CASE Len(seqs) # 0
  <2>1. Len(seqs) \in Nat \ {0} /\ seqs # << >>
    BY <1>2, EmptySeq
  <2>2. PICK f \in [1..Len(seqs) -> Seq(S)] : FlattenSeq(seqs) = f[Len(seqs)]
    BY <1>2, FlattenConcatenates
  <2>3. f[Len(seqs)] \in Seq(S)
    <3> DEFINE n == Len(seqs)
    <3>1. n \in 1..n /\ f \in [1..n -> Seq(S)]
      BY <2>1
    <3> HIDE DEF n
    <3>2. f[n] \in Seq(S)
      BY <3>1
    <3> QED BY <3>2 DEF n
  <2> QED BY <2>1, <2>2, <2>3, Zenon
<1> QED BY <1>1, <1>2

(* The cells of one sequence more are put behind the others.               *)
LEMMA FlattenAppend ==
  ASSUME NEW S, NEW seqs \in Seq(Seq(S)), NEW s \in Seq(S)
  PROVE  FlattenSeq(Append(seqs, s)) = FlattenSeq(seqs) \o s
<1> DEFINE n == Len(seqs)
           more == Append(seqs, s)
<1>1. /\ n \in Nat /\ more \in Seq(Seq(S)) /\ Len(more) = n + 1 /\ more[n + 1] = s
      /\ \A i \in 1..n : more[i] = seqs[i]
  BY AppendProperties, LenProperties
<1> HIDE DEF more
<1>2. PICK g \in [1..n + 1 -> Seq(S)] :
        Concatenates(g, n + 1, more) /\ FlattenSeq(more) = g[n + 1]
  <2> HIDE DEF n
  <2>1. Len(more) # 0
    BY <1>1
  <2> QED BY <1>1, <2>1, FlattenConcatenates
<1>3. CASE n = 0
  <2>1. seqs = << >>
    BY <1>3, EmptySeq
  <2>2. FlattenSeq(more) = s
    BY <1>1, <1>2, <1>3 DEF Concatenates
  <2>3. seqs \o s = s
    BY <2>1, ConcatEmptySeq
  <2> QED BY <2>1, <2>2, <2>3, FlattenType DEF more
<1>4. CASE n # 0
  <2>1. PICK f \in [1..n -> Seq(S)] : Concatenates(f, n, seqs) /\ FlattenSeq(seqs) = f[n]
    BY <1>4, FlattenConcatenates
  <2> HIDE DEF n
  <2> DEFINE T == {k \in Nat : k + 1 <= n => f[k + 1] = g[k + 1]}
  <2>2. 0 \in T
    <3>1. n >= 1 => 1 \in 1..n
      BY <1>1
    <3> QED BY <1>1, <1>2, <2>1, <3>1 DEF Concatenates
  <2>3. ASSUME NEW k \in Nat, k \in T PROVE k + 1 \in T
    <3>1. ASSUME (k + 1) + 1 <= n PROVE f[(k + 1) + 1] = g[(k + 1) + 1]
      <4>1. /\ k + 1 <= n /\ (k + 1) + 1 = k + 2 /\ (k + 2) - 1 = k + 1
            /\ k + 2 \in 2..n /\ k + 2 \in 2..n + 1 /\ k + 2 \in 1..n
        BY <1>1, <3>1
      <4>2. f[k + 1] = g[k + 1]
        BY <2>3, <4>1
      <4> HIDE DEF T
      <4>3. f[k + 2] = f[k + 1] \o seqs[k + 2] /\ g[k + 2] = g[k + 1] \o more[k + 2]
        BY <1>2, <2>1, <4>1 DEF Concatenates
      <4> QED BY <1>1, <4>1, <4>2, <4>3
    <3> QED BY <3>1
  <2>4. \A k \in Nat : k \in T
    <3> HIDE DEF T
    <3>1. T \in SUBSET Nat
      BY DEF T
    <3> QED BY <2>2, <2>3, <3>1, SetInduction
  <2>5. f[n] = g[n]
    <3>1. n - 1 \in T /\ (n - 1) + 1 = n
      <4> HIDE DEF T
      <4> QED BY <1>1, <1>4, <2>4
    <3>2. n - 1 + 1 <= n
      BY <1>1
    <3> QED BY <3>1, <3>2
  <2>6. g[n + 1] = g[n] \o more[n + 1]
    <3>1. n + 1 \in 2..n + 1 /\ (n + 1) - 1 = n
      BY <1>1, <1>4
    <3> QED BY <1>2, <3>1 DEF Concatenates
  <2> QED BY <1>1, <1>2, <2>1, <2>5, <2>6 DEF more
<1> QED BY <1>3, <1>4

(* Appending to the second of two sequences appends to both together.      *)
LEMMA ConcatOfAppend ==
  ASSUME NEW S, NEW a \in Seq(S), NEW b \in Seq(S), NEW e \in S
  PROVE  a \o Append(b, e) = Append(a \o b, e)
<1>1. Append(b, e) = b \o <<e>> /\ <<e>> \in Seq(S) /\ a \o b \in Seq(S)
  BY AppendIsConcat, ConcatProperties
<1>2. Append(a \o b, e) = (a \o b) \o <<e>>
  BY <1>1, AppendIsConcat
<1>3. (a \o b) \o <<e>> = a \o (b \o <<e>>)
  BY <1>1, ConcatAssociative
<1> QED BY <1>1, <1>2, <1>3

(* So the cells of one list of sequences precede those of the next.        *)
LEMMA FlattenConcat ==
  ASSUME NEW S, NEW a \in Seq(Seq(S)), NEW b \in Seq(Seq(S))
  PROVE  FlattenSeq(a \o b) = FlattenSeq(a) \o FlattenSeq(b)
<1> DEFINE first(k) == SubSeq(b, 1, k)
           Good(k) == FlattenSeq(a \o first(k)) = FlattenSeq(a) \o FlattenSeq(first(k))
           T == {k \in Nat : k <= Len(b) => Good(k)}
<1>1. Len(b) \in Nat /\ FlattenSeq(a) \in Seq(S)
  BY LenProperties, FlattenType
<1>2. 0 \in T
  <2>1. first(0) = << >>
    BY SubSeqEmpty
  <2>2. PICK e : e = << >>
    OBVIOUS
  <2>3. e \in Seq(Seq(S)) /\ FlattenSeq(e) = e
    BY <2>2, EmptySeq, FlattenType
  <2>4. a \o e = a /\ FlattenSeq(a) \o e = FlattenSeq(a)
    BY <1>1, <2>2, ConcatEmptySeq
  <2>5. Good(0)
    <3> HIDE DEF first
    <3> QED BY <2>1, <2>2, <2>3, <2>4
  <2> QED BY <2>5
<1>3. ASSUME NEW k \in Nat, k \in T PROVE k + 1 \in T
  <2>1. ASSUME k + 1 <= Len(b) PROVE Good(k + 1)
    <3>1. k + 1 \in 1..Len(b) /\ k <= Len(b)
      BY <1>1, <2>1
    <3>2. Good(k)
      BY <1>3, <3>1
    <3> HIDE DEF T
    <3>3. first(k) \in Seq(Seq(S)) /\ b[k + 1] \in Seq(S)
      BY <1>1, <3>1
    <3>4. first(k + 1) = Append(first(k), b[k + 1])
      BY <1>1, <3>1
    <3> HIDE DEF first
    <3>5. a \o first(k) \in Seq(Seq(S)) /\ FlattenSeq(first(k)) \in Seq(S)
      BY <3>3, FlattenType
    <3>6. a \o Append(first(k), b[k + 1]) = Append(a \o first(k), b[k + 1])
      BY <3>3, ConcatOfAppend
    <3>7. FlattenSeq(a \o first(k + 1)) = FlattenSeq(a \o first(k)) \o b[k + 1]
      BY <3>3, <3>4, <3>5, <3>6, FlattenAppend
    <3>8. FlattenSeq(first(k + 1)) = FlattenSeq(first(k)) \o b[k + 1]
      BY <3>3, <3>4, FlattenAppend
    <3> DEFINE x == FlattenSeq(a)
               y == FlattenSeq(first(k))
               z == b[k + 1]
    <3>9. x \in Seq(S) /\ y \in Seq(S) /\ z \in Seq(S)
      BY <1>1, <3>3, <3>5
    <3>10. FlattenSeq(a \o first(k)) = x \o y
      BY <3>2
    <3>11. FlattenSeq(a \o first(k + 1)) = (x \o y) \o z
      BY <3>7, <3>10
    <3>12. FlattenSeq(first(k + 1)) = y \o z
      BY <3>8
    <3> HIDE DEF x, y, z
    <3>13. (x \o y) \o z = x \o (y \o z)
      BY <3>9, ConcatAssociative
    <3>14. FlattenSeq(a \o first(k + 1)) = x \o FlattenSeq(first(k + 1))
      BY <3>11, <3>12, <3>13
    <3> QED BY <3>14 DEF x
  <2> QED BY <2>1
<1>4. Len(b) \in T
  <2> HIDE DEF T
  <2>1. T \in SUBSET Nat
    BY DEF T
  <2> QED BY <1>1, <1>2, <1>3, <2>1, SetInduction
<1>5. first(Len(b)) = b
  BY SubSeqFull
<1>6. Good(Len(b))
  BY <1>1, <1>4
<1> QED BY <1>5, <1>6

(* Where the cells of the sequence behind the first k lie.                 *)
LEMMA CellsOfFrame ==
  ASSUME NEW S, NEW fs \in Seq(Seq(S)), NEW k \in Nat, k < Len(fs)
  PROVE  LET place == Len(FlattenSeq(SubSeq(fs, 1, k)))
         IN  /\ place \in Nat /\ place + Len(fs[k + 1]) <= Len(FlattenSeq(fs))
             /\ \A i \in 1..Len(fs[k + 1]) : FlattenSeq(fs)[place + i] = fs[k + 1][i]
<1> DEFINE before == SubSeq(fs, 1, k)
           after  == SubSeq(fs, k + 2, Len(fs))
           this   == fs[k + 1]
           cells  == FlattenSeq(before) \o this
<1>1. Len(fs) \in Nat /\ k + 1 \in 1..Len(fs)
  BY LenProperties
<1>2. before \in Seq(Seq(S)) /\ after \in Seq(Seq(S)) /\ this \in Seq(S)
  BY <1>1
<1>3. fs = Append(before, this) \o after
  <2>1. Append(before, this) = SubSeq(fs, 1, k + 1)
    BY <1>1
  <2>2. SubSeq(fs, 1, k + 1) \o SubSeq(fs, (k + 1) + 1, Len(fs)) = SubSeq(fs, 1, Len(fs))
    <3> DEFINE n == Len(fs)
               j == k + 1
    <3>1. 1 \in 1..n + 1 /\ j \in 1 - 1..n /\ n \in j..n
      BY <1>1
    <3> HIDE DEF n, j
    <3>2. SubSeq(fs, 1, j) \o SubSeq(fs, j + 1, n) = SubSeq(fs, 1, n)
      BY <3>1, ConcatAdjacentSubSeq, Zenon DEF n
    <3> QED BY <3>2 DEF n, j
  <2>3. SubSeq(fs, 1, Len(fs)) = fs /\ (k + 1) + 1 = k + 2
    BY SubSeqFull
  <2> QED BY <2>1, <2>2, <2>3
<1> HIDE DEF before, after, this
<1>4. /\ FlattenSeq(before) \in Seq(S) /\ FlattenSeq(after) \in Seq(S)
      /\ Append(before, this) \in Seq(Seq(S))
  BY <1>2, FlattenType
<1>5. FlattenSeq(fs) = cells \o FlattenSeq(after)
  <2> DEFINE upto == Append(before, this)
  <2>1. FlattenSeq(upto) = cells
    BY <1>2, FlattenAppend
  <2>2. upto \in Seq(Seq(S)) /\ fs = upto \o after
    BY <1>3, <1>4
  <2> HIDE DEF upto, cells
  <2>3. FlattenSeq(upto \o after) = FlattenSeq(upto) \o FlattenSeq(after)
    BY <1>2, <2>2, FlattenConcat
  <2> QED BY <2>1, <2>2, <2>3
<1>6. /\ cells \in Seq(S) /\ Len(cells) = Len(FlattenSeq(before)) + Len(this)
      /\ \A i \in 1..Len(this) : cells[Len(FlattenSeq(before)) + i] = this[i]
  BY <1>2, <1>4
<1>7. Len(FlattenSeq(before)) \in Nat /\ Len(this) \in Nat /\ Len(FlattenSeq(after)) \in Nat
  BY <1>2, <1>4, LenProperties
<1> HIDE DEF cells
<1>8. /\ Len(FlattenSeq(fs)) = Len(cells) + Len(FlattenSeq(after))
      /\ \A j \in 1..Len(cells) : FlattenSeq(fs)[j] = cells[j]
  <2> DEFINE all == FlattenSeq(fs)
             rest == FlattenSeq(after)
  <2>1. all = cells \o rest /\ cells \in Seq(S) /\ rest \in Seq(S)
    BY <1>4, <1>5, <1>6
  <2> HIDE DEF all, rest
  <2>2. Len(all) = Len(cells) + Len(rest) /\ \A j \in 1..Len(cells) : all[j] = cells[j]
    BY <2>1
  <2> QED BY <2>2 DEF all, rest
<1>9. \A i \in 1..Len(this) : Len(FlattenSeq(before)) + i \in 1..Len(cells)
  BY <1>6, <1>7
<1> DEFINE place == Len(FlattenSeq(before))
<1>10. place \in Nat /\ place + Len(this) <= Len(FlattenSeq(fs))
  BY <1>6, <1>7, <1>8
<1>11. \A i \in 1..Len(this) : FlattenSeq(fs)[place + i] = this[i]
  BY <1>6, <1>8, <1>9
<1> QED BY <1>10, <1>11 DEF before, this

-----------------------------------------------------------------------------
(* The invariant.                                                          *)

Cell == [frame : Nat, at : Nat, len : Nat]

ControlTypes ==
  /\ mode \in Publisher \cup Listener /\ prog \in ProgState
  /\ reader \in [Direction -> ReaderState] /\ trans \in [Direction -> Transport]

FlowTypes ==
  /\ need \in [Direction -> Nat] /\ sent \in [Direction -> Nat]
  /\ got \in [Direction -> Nat] /\ used \in [Direction -> Nat]
  /\ frames \in [Direction -> Seq(Seq(Cell))] /\ decoded \in [Direction -> Seq(Seq(Cell))]

FlowBounds == \A d \in Direction :
  /\ used[d] <= got[d] /\ got[d] <= sent[d] /\ sent[d] <= Len(Bytes(d))
  /\ sent[d] - got[d] <= WireSize
  /\ Len(frames[d]) <= MaxFrames

(* What was written are frames, numbered in the order of the writes.       *)
FramesWritten == \A d \in Direction : \A i \in 1..Len(frames[d]) :
  \E len \in Nat : frames[d][i] = Frame(i, len)

Types == ControlTypes /\ FlowTypes /\ FlowBounds /\ FramesWritten

(* Where a program and its handler can be: a reader that was not started   *)
(* has read nothing.                                                       *)
Unread(d) == used[d] = 0 /\ decoded[d] = << >>

ControlInv ==
  /\ prog = "typing" => mode = "interactive"
  /\ prog = "start" => \A d \in Direction : reader[d] = "none" /\ trans[d] = "none"
  /\ prog = "listening" => Reading(Down)
  /\ prog \in {"start", "draining"} /\ mode \in Listener => reader[Down] = "none" /\ Unread(Down)
  /\ reader[Up] = "none" => Unread(Up)
  /\ trans[Up] \in {"closing", "closed"} => prog \in {"closing", "ok", "failed"}

(* A reader has decoded the first of the frames that were written, and it  *)
(* stands where the last of them ends, or at the payload of the next.      *)
Place(d)     == Len(FlattenSeq(decoded[d]))
NextFrame(d) == frames[d][Len(decoded[d]) + 1]

ReadsAt(d) ==
  /\ Len(decoded[d]) <= Len(frames[d])
  /\ decoded[d] = SubSeq(frames[d], 1, Len(decoded[d]))
  /\ reader[d] \in {"header", "busy"} => used[d] = Place(d)
  /\ reader[d] = "payload" =>
       /\ Len(decoded[d]) < Len(frames[d])
       /\ NextFrame(d) = Frame(Len(decoded[d]) + 1, need[d])
       /\ used[d] = Place(d) + HeaderSize

ReadInv == \A d \in Direction : ReadsAt(d)

SessionInv == Types /\ ControlInv /\ ReadInv

-----------------------------------------------------------------------------
(* Frames and their cells.                                                 *)

(* A frame is a header and a payload, and its first cell knows its length. *)
LEMMA FrameFacts ==
  ASSUME NEW n \in Nat, NEW len \in Nat
  PROVE  /\ Frame(n, len) \in Seq(Cell) /\ Len(Frame(n, len)) = HeaderSize + len
         /\ Frame(n, len)[1].len = len /\ HeaderSize + len \in Nat \ {0}
<1>1. HeaderSize + len \in Nat \ {0} /\ 1 \in 1..HeaderSize + len
  BY HeaderAssumption
<1>2. \A i \in 1..HeaderSize + len : [frame |-> n, at |-> i, len |-> len] \in Cell
  BY <1>1 DEF Cell
<1> QED BY <1>1, <1>2 DEF Frame

(* The cells behind those decoded are those of the next frame.             *)
LEMMA CellsOfNext ==
  ASSUME FlowTypes, NEW d \in Direction, ReadsAt(d), Len(decoded[d]) < Len(frames[d]),
         NEW len \in Nat, NextFrame(d) = Frame(Len(decoded[d]) + 1, len)
  PROVE  /\ Place(d) \in Nat /\ Place(d) + HeaderSize + len <= Len(Bytes(d))
         /\ Bytes(d)[Place(d) + 1].len = len
         /\ SubSeq(Bytes(d), Place(d) + 1, Place(d) + HeaderSize + len) = NextFrame(d)
<1> DEFINE k == Len(decoded[d])
           place == Place(d)
           this == NextFrame(d)
           bytes == Bytes(d)
           size == HeaderSize + len
<1>1. k \in Nat /\ frames[d] \in Seq(Seq(Cell)) /\ bytes \in Seq(Cell)
  BY FlattenType DEF FlowTypes, Bytes
<1>2. this \in Seq(Cell) /\ Len(this) = size /\ this[1].len = len /\ size \in Nat \ {0}
  <2>1. this = Frame(k + 1, len) /\ k + 1 \in Nat
    BY <1>1
  <2> HIDE DEF this, k
  <2> QED BY <2>1, FrameFacts
<1>3. /\ place \in Nat /\ place + Len(this) <= Len(bytes)
      /\ \A i \in 1..Len(this) : bytes[place + i] = this[i]
  <2>1. decoded[d] = SubSeq(frames[d], 1, k)
    BY DEF ReadsAt
  <2>2. k < Len(frames[d])
    OBVIOUS
  <2> HIDE DEF k
  <2>3. LET p == Len(FlattenSeq(SubSeq(frames[d], 1, k)))
        IN  /\ p \in Nat /\ p + Len(frames[d][k + 1]) <= Len(FlattenSeq(frames[d]))
            /\ \A i \in 1..Len(frames[d][k + 1]) :
                 FlattenSeq(frames[d])[p + i] = frames[d][k + 1][i]
    BY <1>1, <2>2, CellsOfFrame
  <2> QED BY <2>1, <2>3 DEF k, Place, NextFrame, Bytes
<1>4. Place(d) + HeaderSize + len = place + size
  BY <1>3, HeaderAssumption
<1> HIDE DEF k, place, this, bytes, size
<1>5. bytes[place + 1].len = len
  BY <1>2, <1>3
<1>6. SubSeq(bytes, place + 1, place + size) = this
  <2> DEFINE part == SubSeq(bytes, place + 1, place + size)
  <2>1. Len(bytes) \in Nat /\ place + size \in 0..Len(bytes) /\ place + 1 \in 1..Len(bytes) + 1
    BY <1>1, <1>2, <1>3
  <2>2. part \in Seq(Cell) /\ Len(part) = size /\ \A i \in 1..size : part[i] = bytes[place + i]
    BY <1>1, <1>2, <1>3, <2>1
  <2> HIDE DEF part
  <2>3. part = this
    BY <1>2, <1>3, <2>2, SeqEqual
  <2> QED BY <2>3 DEF part
<1> QED BY <1>2, <1>3, <1>4, <1>5, <1>6 DEF place, this, bytes

-----------------------------------------------------------------------------
(* The steps.                                                              *)

(* Somebody writes, ...                                                    *)
Writes == \E d \in Direction, lens \in Seq(Nat) :
  WriteFrames(d, lens) /\ UNCHANGED <<reader, need, flowVars, decoded>>

(* ... or no cell moves, and a reader that starts has something to start   *)
(* at.                                                                     *)
Turns(d) ==
  \/ reader'[d] = reader[d]
  \/ reader'[d] \in {"none", "over", "cut", "dropped", "dead"}
  \/ reader'[d] = "header" /\ (reader[d] = "busy" \/ Unread(d))

Controls == UNCHANGED <<need, flowVars, frames, decoded>> /\ \A d \in Direction : Turns(d)

Moves == \E d \in Direction : Flush(d) \/ Arrive(d) \/ Reads(d)

(* Every step is one of these.                                             *)
LEMMA NextKinds ==
  ASSUME ControlTypes, ControlInv, [Next]_vars
  PROVE  Moves \/ Writes \/ Controls
<1> USE DEF flowVars
<1>1. Up \in Direction /\ Down \in Direction /\ Up # Down /\ Direction = {Up, Down}
  BY DEF Up, Down, Direction
<1>2. /\ reader \in [Direction -> ReaderState] /\ mode \in Publisher \cup Listener
      /\ Publisher \cap Listener = {} /\ "interactive" \notin Listener
  BY DEF ControlTypes, Publisher, Listener
<1>3. ASSUME UNCHANGED <<reader, need, flowVars, frames, decoded>> PROVE Controls
  BY <1>3 DEF Controls, Turns
<1>4. ASSUME NEW d \in Direction, NEW r, Goto(d, r), UNCHANGED <<need, flowVars, frames, decoded>>,
             \/ r \in {"none", "over", "cut", "dropped", "dead"}
             \/ r = "header" /\ (reader[d] = "busy" \/ Unread(d))
      PROVE  Controls
  BY <1>2, <1>4 DEF Controls, Turns, Goto
<1>5. ASSUME NEW d \in Direction, Wire(d) \/ Lose(d) PROVE Moves \/ Controls
  BY <1>3, <1>5 DEF Wire, Moves, CloseCompletes, Lose
<1>6. ASSUME Accept \/ HandlerContinues PROVE Controls
  <2>1. reader[Up] = "none" => Unread(Up)
    BY DEF ControlInv
  <2> QED BY <1>1, <1>4, <1>6, <2>1 DEF Accept, HandlerContinues
<1>7. ASSUME HandlerSeesEnd \/ HandlerFails \/ BrokerEnds PROVE Controls
  BY <1>1, <1>4, <1>7 DEF HandlerSeesEnd, HandlerFails, BrokerEnds, HandlerLeaves
<1>8. ASSUME BrokerWrites PROVE Writes
  <2>1. PICK len \in FanoutLen : WriteFrames(Down, <<len>>)
    BY <1>8 DEF BrokerWrites
  <2>2. <<len>> \in Seq(Nat)
    BY LengthAssumption
  <2> QED BY <1>1, <1>8, <2>1, <2>2 DEF BrokerWrites, Writes
<1>9. ASSUME RouterDrops \/ Refused \/ EndOfInput \/ SendingRaises \/ WaitClosedReturns
      PROVE  Controls
  BY <1>3, <1>9 DEF RouterDrops, Refused, EndOfInput, SendingRaises, WaitClosedReturns
<1>10. ASSUME Connect \/ TypeLine PROVE Writes \/ Controls
  <2>1. CASE UNCHANGED frames
    BY <1>3, <1>10, <2>1 DEF Connect, TypeLine
  <2>2. CASE \E lens \in Bursts[mode] : WriteFrames(Up, lens)
    <3>1. Bursts[mode] \subseteq Seq(Nat)
      BY <1>2, LengthAssumption
    <3> QED BY <1>1, <1>10, <2>2, <3>1 DEF Connect, TypeLine, Writes
  <2> QED BY <1>10, <2>1, <2>2 DEF Connect, TypeLine
<1>11. ASSUME DrainReturns PROVE Controls
  <2>1. CASE mode \in Listener
    <3>1. Unread(Down) /\ Goto(Down, "header")
      BY <1>11, <2>1 DEF DrainReturns, ControlInv, Listener
    <3> QED BY <1>1, <1>4, <1>11, <3>1 DEF DrainReturns
  <2>2. CASE mode \notin Listener
    <3>1. UNCHANGED reader
      BY <1>2, <1>11, <2>2 DEF DrainReturns, Publisher
    <3> QED BY <1>3, <1>11, <3>1 DEF DrainReturns
  <2> QED BY <2>1, <2>2
<1>12. ASSUME ListenerReturns \/ ListenerRaises \/ ReplayStops \/ ProgramStops PROVE Controls
  BY <1>1, <1>4, <1>12 DEF ListenerReturns, ListenerRaises, ReplayStops, ProgramStops
<1>13. CASE UNCHANGED vars
  BY <1>3, <1>13 DEF vars
<1> QED
  BY <1>1, <1>5, <1>6, <1>7, <1>8, <1>9, <1>10, <1>11, <1>12, <1>13
  DEF Next, Broker, Handler, Program, User, Over, Moves

(* A write puts frames behind those written before.                        *)
LEMMA WritesAppend ==
  ASSUME FlowTypes, FramesWritten, NEW d \in Direction, NEW lens \in Seq(Nat),
         WriteFrames(d, lens)
  PROVE  /\ \E b \in Seq(Seq(Cell)) : frames' = [frames EXCEPT ![d] = frames[d] \o b]
         /\ FramesWritten' /\ Len(frames'[d]) <= MaxFrames
<1> DEFINE n == Len(frames[d])
           b == [i \in 1..Len(lens) |-> Frame(n + i, lens[i])]
<1>1. /\ n \in Nat /\ Len(lens) \in Nat /\ frames \in [Direction -> Seq(Seq(Cell))]
      /\ frames[d] \in Seq(Seq(Cell)) /\ \A i \in 1..Len(lens) : lens[i] \in Nat
  BY LenProperties, ElementOfSeq DEF FlowTypes
<1>2. frames' = [frames EXCEPT ![d] = frames[d] \o b] /\ n + Len(lens) <= MaxFrames
  BY <1>1 DEF WriteFrames
<1> HIDE DEF n
<1>3. ASSUME NEW i \in 1..Len(lens) PROVE Frame(n + i, lens[i]) \in Seq(Cell)
  <2>1. n + i \in Nat /\ lens[i] \in Nat
    BY <1>1
  <2> QED BY <2>1, FrameFacts
<1>4. /\ b \in Seq(Seq(Cell)) /\ Len(b) = Len(lens)
      /\ \A i \in 1..Len(lens) : b[i] = Frame(n + i, lens[i])
  <2> DEFINE m == Len(lens)
  <2>1. b \in [1..m -> Seq(Cell)] /\ \A i \in 1..m : b[i] = Frame(n + i, lens[i])
    BY <1>3
  <2> HIDE DEF b
  <2>2. b \in [1..m -> Seq(Cell)] /\ m \in Nat
    BY <1>1, <2>1
  <2> HIDE DEF m
  <2>3. b \in Seq(Seq(Cell)) /\ Len(b) = m
    BY <2>2
  <2> QED BY <2>1, <2>3 DEF m
<1> HIDE DEF b
<1>5. /\ frames'[d] = frames[d] \o b /\ \A e \in Direction \ {d} : frames'[e] = frames[e]
      /\ Len(frames'[d]) = n + Len(lens)
      /\ \A i \in 1..n : frames'[d][i] = frames[d][i]
      /\ \A i \in 1..Len(lens) : frames'[d][n + i] = b[i]
  <2> DEFINE all == frames[d] \o b
             m == Len(lens)
  <2>1. frames'[d] = all /\ \A e \in Direction \ {d} : frames'[e] = frames[e]
    BY <1>1, <1>2
  <2>2. /\ Len(all) = Len(frames[d]) + m
        /\ \A i \in 1..Len(frames[d]) : all[i] = frames[d][i]
        /\ \A i \in 1..m : all[Len(frames[d]) + i] = b[i]
    <3>1. frames[d] \in Seq(Seq(Cell)) /\ b \in Seq(Seq(Cell)) /\ Len(b) = m
      BY <1>1, <1>4
    <3> HIDE DEF m
    <3>2. PICK a : a = frames[d]
      OBVIOUS
    <3> HIDE DEF all
    <3>3. Len(a \o b) = Len(a) + Len(b)
      BY <3>1, <3>2, ConcatParts
    <3>4. \A i \in 1..Len(a) : (a \o b)[i] = a[i]
      BY <3>1, <3>2, ConcatParts
    <3>5. \A i \in 1..Len(b) : (a \o b)[Len(a) + i] = b[i]
      BY <3>1, <3>2, ConcatParts
    <3>6. all = a \o b
      BY <3>2 DEF all
    <3> QED BY <3>1, <3>2, <3>3, <3>4, <3>5, <3>6
  <2>3. Len(all) = n + m
    BY <2>2 DEF n
  <2>4. \A i \in 1..n : all[i] = frames[d][i]
    BY <2>2 DEF n
  <2>5. \A i \in 1..m : all[n + i] = b[i]
    BY <2>2 DEF n
  <2>6. frames'[d] = frames[d] \o b
    BY <2>1
  <2> HIDE DEF all
  <2>7. /\ Len(frames'[d]) = n + m
        /\ \A i \in 1..n : frames'[d][i] = frames[d][i]
        /\ \A i \in 1..m : frames'[d][n + i] = b[i]
    BY <2>1, <2>3, <2>4, <2>5
  <2> QED BY <2>1, <2>6, <2>7
<1>6. ASSUME NEW e \in Direction, NEW i \in 1..Len(frames'[e])
      PROVE  \E len \in Nat : frames'[e][i] = Frame(i, len)
  <2>1. CASE e # d
    BY <1>5, <1>6, <2>1 DEF FramesWritten
  <2>2. CASE e = d /\ i \in 1..n
    BY <1>5, <2>2 DEF FramesWritten, n
  <2>3. CASE e = d /\ i \notin 1..n
    <3>1. PICK j \in 1..Len(lens) : i = n + j
      <4>1. i - n \in 1..Len(lens) /\ i = n + (i - n)
        BY <1>1, <1>5, <1>6, <2>3
      <4> QED BY <4>1
    <3> QED BY <1>1, <1>4, <1>5, <2>3, <3>1
  <2> QED BY <2>1, <2>2, <2>3
<1>7. FramesWritten'
  BY <1>6 DEF FramesWritten
<1> QED BY <1>1, <1>2, <1>4, <1>5, <1>7

(* What a reader does with the cells it waited for: it decodes the next    *)
(* frame, or the header of it, or gives up.                                *)
Stays(d) == \A e \in Direction \ {d} :
  UNCHANGED <<reader[e], need[e], used[e], decoded[e]>>

Decodes(d) ==
  /\ Len(decoded[d]) < Len(frames[d])
  /\ decoded'[d] = Append(decoded[d], NextFrame(d))
  /\ used'[d] = Place(d) + Len(NextFrame(d))
  /\ reader'[d] \in {"busy", "header"}

ReadsHeader(d) ==
  /\ Len(decoded[d]) < Len(frames[d])
  /\ NextFrame(d) = Frame(Len(decoded[d]) + 1, need'[d])
  /\ used'[d] = Place(d) + HeaderSize
  /\ reader'[d] = "payload" /\ decoded'[d] = decoded[d]

GivesUp(d) == reader'[d] = "dropped" /\ decoded'[d] = decoded[d]

(* A reader that can take a header finds a frame there.                    *)
LEMMA NextThere ==
  ASSUME Types, NEW d \in Direction, ReadsAt(d), reader[d] = "header", ~Short(d)
  PROVE  /\ Len(decoded[d]) < Len(frames[d]) /\ used[d] = Place(d)
         /\ \E len \in Nat : NextFrame(d) = Frame(Len(decoded[d]) + 1, len)
<1>1. /\ frames[d] \in Seq(Seq(Cell)) /\ decoded[d] \in Seq(Seq(Cell))
      /\ used[d] \in Nat /\ got[d] \in Nat /\ sent[d] \in Nat
      /\ Len(frames[d]) \in Nat /\ Len(decoded[d]) \in Nat
  BY LenProperties DEF Types, FlowTypes
<1>2. /\ Len(decoded[d]) <= Len(frames[d]) /\ used[d] = Place(d)
      /\ decoded[d] = SubSeq(frames[d], 1, Len(decoded[d]))
  BY DEF ReadsAt
<1>3. used[d] + HeaderSize <= got[d] /\ got[d] <= sent[d] /\ sent[d] <= Len(Bytes(d))
  <2>1. Wanted(d) = HeaderSize
    BY DEF Wanted
  <2>2. ~(got[d] - used[d] < HeaderSize)
    BY <2>1 DEF Short, Available
  <2>3. got[d] <= sent[d] /\ sent[d] <= Len(Bytes(d))
    BY DEF Types, FlowBounds
  <2> QED BY <1>1, <2>2, <2>3, HeaderAssumption
<1>4. Len(decoded[d]) < Len(frames[d])
  <2>1. SUFFICES ASSUME Len(decoded[d]) = Len(frames[d]) PROVE FALSE
    BY <1>1, <1>2
  <2>2. decoded[d] = frames[d]
    BY <1>1, <1>2, <2>1, SubSeqFull
  <2>3. Place(d) = Len(Bytes(d)) /\ Len(Bytes(d)) \in Nat
    BY <1>1, <2>2, FlattenType, LenProperties DEF Place, Bytes
  <2> QED BY <1>1, <1>2, <1>3, <2>3, HeaderAssumption
<1>5. Len(decoded[d]) + 1 \in 1..Len(frames[d])
  BY <1>1, <1>4
<1> QED BY <1>2, <1>4, <1>5 DEF Types, FramesWritten, NextFrame

(* What Message() makes of the cells of the next frame.                    *)
LEMMA MessageDecodes ==
  ASSUME Types, NEW d \in Direction, ReadsAt(d), Len(decoded[d]) < Len(frames[d]),
         NEW len \in Nat, NextFrame(d) = Frame(Len(decoded[d]) + 1, len),
         Message(d, Place(d) + 1, len), used'[d] = Place(d) + HeaderSize + len
  PROVE  /\ Decodes(d) \/ GivesUp(d)
         /\ reader' = [reader EXCEPT ![d] = reader'[d]]
         /\ decoded' = [decoded EXCEPT ![d] = decoded'[d]]
         /\ d = Down \/ len = 0 => Decodes(d)
<1>1. /\ reader \in [Direction -> ReaderState] /\ decoded \in [Direction -> Seq(Seq(Cell))]
      /\ Up \in Direction /\ Up # Down
  BY DEF Types, ControlTypes, FlowTypes, Up, Down, Direction
<1>2. Len(decoded[d]) + 1 \in Nat
  <2>1. decoded[d] \in Seq(Seq(Cell))
    BY <1>1
  <2> QED BY <2>1, LenProperties
<1>3. /\ Place(d) \in Nat /\ Len(NextFrame(d)) = HeaderSize + len
      /\ SubSeq(Bytes(d), Place(d) + 1, Place(d) + HeaderSize + len) = NextFrame(d)
  <2>1. FlowTypes
    BY DEF Types
  <2>2. /\ Place(d) \in Nat
        /\ SubSeq(Bytes(d), Place(d) + 1, Place(d) + HeaderSize + len) = NextFrame(d)
    BY <2>1, CellsOfNext
  <2>3. Len(Frame(Len(decoded[d]) + 1, len)) = HeaderSize + len
    BY <1>2, FrameFacts
  <2>4. Len(NextFrame(d)) = HeaderSize + len
    BY <2>3
  <2> QED BY <2>2, <2>4
<1>4. CASE d = Up /\ len > MaxPayload
  <2>1. len # 0
    BY <1>4, SessionBounds
  <2>2. reader' = [reader EXCEPT ![d] = "dropped"] /\ decoded' = decoded
    BY <1>4 DEF Message, HandlerLeaves, Goto
  <2>3. reader'[d] = "dropped"
    BY <1>1, <2>2
  <2> QED BY <1>1, <1>4, <2>1, <2>2, <2>3 DEF GivesUp
<1>5. CASE ~(d = Up /\ len > MaxPayload)
  <2> DEFINE r == IF d = Up THEN "busy" ELSE "header"
  <2>1. /\ decoded' = [decoded EXCEPT ![d] =
                 Append(@, SubSeq(Bytes(d), Place(d) + 1, Place(d) + 1 + HeaderSize + len - 1))]
        /\ reader' = [reader EXCEPT ![d] = r]
    BY <1>5 DEF Message, Goto
  <2>2. Place(d) + 1 + HeaderSize + len - 1 = Place(d) + HeaderSize + len
    <3> DEFINE place == Place(d)
    <3>1. place \in Nat
      BY <1>3
    <3> HIDE DEF place
    <3>2. place + 1 + HeaderSize + len - 1 = place + HeaderSize + len
      BY <3>1, HeaderAssumption
    <3> QED BY <3>2 DEF place
  <2>3. decoded' = [decoded EXCEPT ![d] = Append(decoded[d], NextFrame(d))]
    BY <1>1, <1>3, <2>1, <2>2
  <2>4. decoded'[d] = Append(decoded[d], NextFrame(d)) /\ reader'[d] = r
    BY <1>1, <2>1, <2>3
  <2>5. used'[d] = Place(d) + Len(NextFrame(d))
    <3> DEFINE place == Place(d)
               size == Len(NextFrame(d))
    <3>1. place \in Nat /\ size = HeaderSize + len /\ used'[d] = place + HeaderSize + len
      BY <1>3
    <3> HIDE DEF place, size
    <3>2. used'[d] = place + size
      BY <3>1, HeaderAssumption
    <3> QED BY <3>2 DEF place, size
  <2> QED BY <1>1, <2>1, <2>3, <2>4, <2>5 DEF Decodes
<1> QED BY <1>4, <1>5

(* What a step of a reader does to its direction.                          *)
ReadStep(d) ==
  /\ UNCHANGED <<mode, prog, sent, got, frames>> /\ Stays(d)
  /\ Decodes(d) \/ ReadsHeader(d) \/ GivesUp(d)
  /\ need'[d] \in Nat /\ used'[d] \in Nat /\ used'[d] <= got[d]
  /\ need' = [need EXCEPT ![d] = need'[d]] /\ used' = [used EXCEPT ![d] = used'[d]]
  /\ reader' = [reader EXCEPT ![d] = reader'[d]]
  /\ decoded' = [decoded EXCEPT ![d] = decoded'[d]]

(* Taking a header is such a step,                                         *)
LEMMA HeaderStep ==
  ASSUME Types, NEW d \in Direction, ReadsAt(d), TakeHeader(d)
  PROVE  ReadStep(d)
<1>1. /\ Len(decoded[d]) < Len(frames[d]) /\ used[d] = Place(d)
      /\ \E len \in Nat : NextFrame(d) = Frame(Len(decoded[d]) + 1, len)
  BY NextThere DEF TakeHeader
<1>2. PICK len \in Nat : NextFrame(d) = Frame(Len(decoded[d]) + 1, len)
  BY <1>1
<1>3. Bytes(d)[used[d] + 1].len = len
  BY <1>1, <1>2, CellsOfNext DEF Types
<1>4. /\ used \in [Direction -> Nat] /\ need \in [Direction -> Nat] /\ got[d] \in Nat
      /\ reader \in [Direction -> ReaderState] /\ decoded \in [Direction -> Seq(Seq(Cell))]
  BY DEF Types, FlowTypes, ControlTypes
<1>5. /\ used' = [used EXCEPT ![d] = used[d] + HeaderSize]
      /\ need' = [need EXCEPT ![d] = len]
      /\ IF len = 0 THEN Message(d, used[d] + 1, 0)
         ELSE Goto(d, "payload") /\ UNCHANGED <<trans, decoded>>
      /\ UNCHANGED <<mode, prog, sent, got, frames>>
  BY <1>3 DEF TakeHeader
<1>6. /\ used'[d] = used[d] + HeaderSize /\ need'[d] = len
      /\ \A e \in Direction \ {d} : used'[e] = used[e] /\ need'[e] = need[e]
      /\ used' = [used EXCEPT ![d] = used'[d]] /\ need' = [need EXCEPT ![d] = need'[d]]
  BY <1>4, <1>5
<1>7. used'[d] \in Nat /\ used'[d] <= got[d]
  <2>1. Wanted(d) = HeaderSize /\ ~(got[d] - used[d] < Wanted(d))
    BY DEF TakeHeader, Wanted, Short, Available
  <2>2. used[d] \in Nat
    BY <1>4
  <2> QED BY <1>4, <1>6, <2>1, <2>2, HeaderAssumption
<1>8. CASE len = 0
  <2>1. Message(d, Place(d) + 1, len)
    BY <1>1, <1>5, <1>8
  <2>2. used'[d] = Place(d) + HeaderSize + len
    BY <1>1, <1>4, <1>6, <1>8, HeaderAssumption
  <2>3. /\ Decodes(d) /\ reader' = [reader EXCEPT ![d] = reader'[d]]
        /\ decoded' = [decoded EXCEPT ![d] = decoded'[d]]
    BY <1>1, <1>2, <1>8, <2>1, <2>2, MessageDecodes
  <2>4. Stays(d)
    BY <1>4, <1>6, <2>3 DEF Stays
  <2> QED BY <1>5, <1>6, <1>7, <2>3, <2>4 DEF ReadStep
<1>9. CASE len # 0
  <2>1. reader' = [reader EXCEPT ![d] = "payload"] /\ decoded' = decoded
    BY <1>5, <1>9 DEF Goto
  <2>2. reader'[d] = "payload" /\ \A e \in Direction \ {d} : reader'[e] = reader[e]
    BY <1>4, <2>1
  <2>3. decoded' = [decoded EXCEPT ![d] = decoded'[d]]
    BY <1>4, <2>1
  <2>4. Stays(d)
    BY <1>6, <2>1, <2>2 DEF Stays
  <2>5. ReadsHeader(d)
    BY <1>1, <1>2, <1>6, <2>1, <2>2 DEF ReadsHeader
  <2> QED BY <1>5, <1>6, <1>7, <2>1, <2>2, <2>3, <2>4, <2>5 DEF ReadStep
<1> QED BY <1>8, <1>9

(* and taking a payload.                                                   *)
LEMMA PayloadStep ==
  ASSUME Types, NEW d \in Direction, ReadsAt(d), TakePayload(d)
  PROVE  ReadStep(d)
<1>1. /\ Len(decoded[d]) < Len(frames[d]) /\ used[d] = Place(d) + HeaderSize
      /\ NextFrame(d) = Frame(Len(decoded[d]) + 1, need[d])
  BY DEF TakePayload, ReadsAt
<1>2. /\ used \in [Direction -> Nat] /\ need \in [Direction -> Nat] /\ got[d] \in Nat
      /\ reader \in [Direction -> ReaderState] /\ decoded \in [Direction -> Seq(Seq(Cell))]
      /\ need[d] \in Nat /\ used[d] \in Nat
  BY DEF Types, FlowTypes, ControlTypes
<1>3. Place(d) \in Nat
  BY <1>1, <1>2, CellsOfNext DEF Types
<1>4. used[d] - HeaderSize + 1 = Place(d) + 1 /\ used[d] + need[d] = Place(d) + HeaderSize + need[d]
  BY <1>1, <1>2, <1>3, HeaderAssumption
<1>5. /\ used' = [used EXCEPT ![d] = used[d] + need[d]] /\ need' = need
      /\ Message(d, Place(d) + 1, need[d])
      /\ UNCHANGED <<mode, prog, sent, got, frames>>
  BY <1>4 DEF TakePayload
<1>6. /\ used'[d] = used[d] + need[d] /\ need'[d] = need[d]
      /\ \A e \in Direction \ {d} : used'[e] = used[e] /\ need'[e] = need[e]
      /\ used' = [used EXCEPT ![d] = used'[d]] /\ need' = [need EXCEPT ![d] = need'[d]]
  BY <1>2, <1>5
<1>7. used'[d] \in Nat /\ used'[d] <= got[d]
  <2>1. Wanted(d) = need[d] /\ ~(got[d] - used[d] < Wanted(d))
    BY DEF TakePayload, Wanted, Short, Available
  <2> QED BY <1>2, <1>6, <2>1
<1>8. /\ Decodes(d) \/ GivesUp(d)
      /\ reader' = [reader EXCEPT ![d] = reader'[d]]
      /\ decoded' = [decoded EXCEPT ![d] = decoded'[d]]
  <2>1. used'[d] = Place(d) + HeaderSize + need[d]
    BY <1>4, <1>6
  <2> QED BY <1>1, <1>2, <1>5, <2>1, MessageDecodes
<1>9. Stays(d)
  BY <1>2, <1>6, <1>8 DEF Stays
<1> QED BY <1>2, <1>5, <1>6, <1>7, <1>8, <1>9 DEF ReadStep

(* What is decoded of a direction is a step of the abstract channel.       *)
LEMMA DecodesPrefix ==
  ASSUME Types, NEW d \in Direction, ReadsAt(d), Decodes(d), UNCHANGED frames
  PROVE  /\ Len(decoded'[d]) = Len(decoded[d]) + 1
         /\ Len(decoded'[d]) <= Len(frames'[d])
         /\ decoded'[d] = SubSeq(frames'[d], 1, Len(decoded'[d]))
         /\ decoded'[d] \in Seq(Seq(Cell))
         /\ used'[d] = Place(d)'
<1> DEFINE k == Len(decoded[d])
<1>1. /\ frames[d] \in Seq(Seq(Cell)) /\ decoded[d] \in Seq(Seq(Cell)) /\ k \in Nat
      /\ Len(frames[d]) \in Nat /\ k < Len(frames[d]) /\ frames'[d] = frames[d]
      /\ decoded[d] = SubSeq(frames[d], 1, k)
      /\ decoded'[d] = Append(decoded[d], NextFrame(d))
      /\ NextFrame(d) = frames[d][k + 1]
  BY LenProperties DEF Types, FlowTypes, Decodes, ReadsAt, NextFrame
<1>2. NextFrame(d) \in Seq(Cell) /\ Len(decoded'[d]) = k + 1 /\ decoded'[d] \in Seq(Seq(Cell))
  <2>1. k + 1 \in 1..Len(frames[d])
    BY <1>1
  <2>2. NextFrame(d) \in Seq(Cell)
    BY <1>1, <2>1
  <2> QED BY <1>1, <2>2
<1>3. used'[d] = Place(d)'
  <2>1. FlattenSeq(decoded[d]) \in Seq(Cell)
    BY <1>1, FlattenType
  <2>2. FlattenSeq(decoded'[d]) = FlattenSeq(decoded[d]) \o NextFrame(d)
    BY <1>1, <1>2, FlattenAppend
  <2>3. Len(FlattenSeq(decoded[d]) \o NextFrame(d)) = Place(d) + Len(NextFrame(d))
    BY <1>2, <2>1, ConcatProperties DEF Place
  <2> QED BY <2>2, <2>3 DEF Decodes, Place
<1> DEFINE fs == frames[d]
<1>4. decoded'[d] = SubSeq(fs, 1, k + 1)
  <2>1. fs \in Seq(Seq(Cell)) /\ k \in Nat /\ k < Len(fs)
        /\ decoded'[d] = Append(SubSeq(fs, 1, k), fs[k + 1])
    BY <1>1
  <2> HIDE DEF fs, k
  <2>2. Append(SubSeq(fs, 1, k), fs[k + 1]) = SubSeq(fs, 1, k + 1)
    BY <2>1
  <2> QED BY <2>1, <2>2
<1> QED BY <1>1, <1>2, <1>3, <1>4

(* A write changes nothing of where a reader stands.                       *)
LEMMA WritesKeepPlace ==
  ASSUME Types, NEW d \in Direction, ReadsAt(d), UNCHANGED <<reader, need, used, decoded>>,
         NEW b \in Seq(Seq(Cell)), frames'[d] = frames[d] \o b
  PROVE  ReadsAt(d)' /\ Len(Bytes(d)) \in Nat /\ Len(Bytes(d)) <= Len(Bytes(d)')
<1> DEFINE k == Len(decoded[d])
<1>1. /\ frames[d] \in Seq(Seq(Cell)) /\ k \in Nat /\ Len(frames[d]) \in Nat
      /\ k <= Len(frames[d]) /\ decoded[d] = SubSeq(frames[d], 1, k)
  BY LenProperties DEF Types, FlowTypes, ReadsAt
<1>2. PICK fs : fs = frames[d]
  OBVIOUS
<1>3. PICK all : all = fs \o b
  OBVIOUS
<1>4. fs \in Seq(Seq(Cell)) /\ all = frames'[d] /\ all \in Seq(Seq(Cell))
  BY <1>1, <1>2, <1>3
<1>5. Len(all) = Len(fs) + Len(b) /\ Len(fs) \in Nat /\ Len(b) \in Nat
  <2>1. Len(fs \o b) = Len(fs) + Len(b)
    BY <1>4, ConcatParts
  <2> QED BY <1>3, <1>4, <2>1, LenProperties
<1>6. \A i \in 1..Len(fs) : all[i] = fs[i]
  <2>1. \A i \in 1..Len(fs) : (fs \o b)[i] = fs[i]
    BY <1>4, ConcatParts
  <2> QED BY <1>3, <2>1
<1>7. k <= Len(all) /\ SubSeq(all, 1, k) = SubSeq(fs, 1, k)
  <2>1. k \in Nat /\ k <= Len(fs)
    BY <1>1, <1>2
  <2> HIDE DEF k
  <2>2. \A i \in 1..k : i \in 1..Len(fs) /\ i \in 1..Len(all)
    BY <1>5, <2>1
  <2>3. \A i \in 1..k : all[i] = fs[i]
    BY <1>6, <2>2
  <2> QED BY <1>4, <1>5, <2>1, <2>3
<1>8. ASSUME k < Len(frames[d]) PROVE NextFrame(d)' = NextFrame(d) /\ k < Len(all)
  <2>1. k + 1 \in 1..Len(fs) /\ k < Len(all)
    BY <1>1, <1>2, <1>5, <1>8
  <2> HIDE DEF k
  <2>2. all[k + 1] = fs[k + 1]
    BY <1>6, <2>1
  <2> QED BY <1>2, <1>4, <2>1, <2>2 DEF NextFrame, k
<1>9. ReadsAt(d)'
  <2>1. Place(d)' = Place(d)
    BY DEF Place
  <2>2. Len(decoded'[d]) <= Len(frames'[d]) /\ decoded'[d] = SubSeq(frames'[d], 1, k)
    BY <1>1, <1>2, <1>4, <1>7
  <2> QED BY <1>4, <1>8, <2>1, <2>2 DEF ReadsAt
<1>10. Len(Bytes(d)) \in Nat /\ Len(Bytes(d)) <= Len(Bytes(d)')
  <2>1. FlattenSeq(fs) \in Seq(Cell) /\ FlattenSeq(b) \in Seq(Cell)
    BY <1>4, FlattenType
  <2>2. FlattenSeq(all) = FlattenSeq(fs) \o FlattenSeq(b)
    BY <1>3, <1>4, FlattenConcat
  <2>3. Len(FlattenSeq(all)) = Len(FlattenSeq(fs)) + Len(FlattenSeq(b))
    BY <2>1, <2>2, ConcatProperties
  <2>4. Len(FlattenSeq(fs)) \in Nat /\ Len(FlattenSeq(b)) \in Nat
    BY <2>1, LenProperties
  <2>5. Bytes(d) = FlattenSeq(fs) /\ Bytes(d)' = FlattenSeq(all)
    BY <1>2, <1>4 DEF Bytes
  <2> QED BY <2>3, <2>4, <2>5
<1> QED BY <1>9, <1>10

FlowInv == FlowTypes /\ FlowBounds /\ FramesWritten /\ ReadInv

(* What a reader takes has arrived, and it stands at a frame again.        *)
LEMMA ReadStepKeeps ==
  ASSUME Types, ReadInv, NEW d \in Direction, ReadStep(d)
  PROVE  FlowInv'
<1>1. /\ need \in [Direction -> Nat] /\ sent \in [Direction -> Nat]
      /\ got \in [Direction -> Nat] /\ used \in [Direction -> Nat]
      /\ frames \in [Direction -> Seq(Seq(Cell))] /\ decoded \in [Direction -> Seq(Seq(Cell))]
  BY DEF Types, FlowTypes
<1>2. decoded'[d] \in Seq(Seq(Cell))
  <2>1. CASE Decodes(d)
    BY <2>1, DecodesPrefix DEF ReadInv, ReadStep
  <2>2. CASE ReadsHeader(d) \/ GivesUp(d)
    BY <1>1, <2>2 DEF ReadsHeader, GivesUp
  <2> QED BY <2>1, <2>2 DEF ReadStep
<1>3. /\ need' = [need EXCEPT ![d] = need'[d]] /\ need'[d] \in Nat
      /\ used' = [used EXCEPT ![d] = used'[d]] /\ used'[d] \in Nat
      /\ decoded' = [decoded EXCEPT ![d] = decoded'[d]]
      /\ UNCHANGED <<sent, got, frames>>
  BY DEF ReadStep
<1>4. FlowTypes'
  <2>1. need' \in [Direction -> Nat] /\ used' \in [Direction -> Nat]
    BY <1>1, <1>3
  <2>2. decoded' \in [Direction -> Seq(Seq(Cell))]
    BY <1>1, <1>2, <1>3
  <2> QED BY <1>1, <1>3, <2>1, <2>2 DEF FlowTypes
<1>5. FlowBounds'
  <2>1. \A e \in Direction : used'[e] <= got[e]
    BY DEF Types, FlowBounds, ReadStep, Stays
  <2> QED BY <1>3, <2>1 DEF Types, FlowBounds, Bytes
<1>6. FramesWritten'
  BY <1>3 DEF Types, FramesWritten
<1>7. ASSUME NEW e \in Direction \ {d} PROVE ReadsAt(e)'
  <2>1. reader'[e] = reader[e] /\ need'[e] = need[e] /\ used'[e] = used[e] /\ decoded'[e] = decoded[e]
    BY DEF ReadStep, Stays
  <2>2. ReadsAt(e)
    BY DEF ReadInv
  <2> QED BY <1>3, <2>1, <2>2 DEF ReadsAt, Place, NextFrame
<1>8. ReadsAt(d)'
  <2>1. ReadsAt(d)
    BY DEF ReadInv
  <2>2. CASE Decodes(d)
    <3>1. reader'[d] # "payload"
      BY <2>2 DEF Decodes
    <3> QED BY <1>3, <2>1, <2>2, <3>1, DecodesPrefix DEF ReadsAt
  <2>3. CASE ReadsHeader(d)
    BY <1>3, <2>1, <2>3 DEF ReadsAt, ReadsHeader, Place, NextFrame
  <2>4. CASE GivesUp(d)
    BY <1>3, <2>1, <2>4 DEF ReadsAt, GivesUp
  <2> QED BY <2>2, <2>3, <2>4 DEF ReadStep
<1>9. ReadInv'
  BY <1>7, <1>8 DEF ReadInv
<1> QED BY <1>4, <1>5, <1>6, <1>9 DEF FlowInv

(* The wire delivers no more than was sent, and sends no more than was     *)
(* written.                                                                *)
LEMMA WireKeeps ==
  ASSUME Types, ReadInv, NEW d \in Direction, Flush(d) \/ Arrive(d)
  PROVE  FlowInv'
<1>1. /\ sent \in [Direction -> Nat] /\ got \in [Direction -> Nat] /\ used \in [Direction -> Nat]
      /\ FlowTypes /\ FlowBounds /\ FramesWritten /\ WireSize \in Nat
  BY FlowAssumption DEF Types, FlowTypes
<1>2. UNCHANGED <<reader, need, used, frames, decoded>>
  BY DEF Flush, Arrive
<1>3. ReadInv' /\ FramesWritten'
  BY <1>1, <1>2 DEF ReadInv, ReadsAt, Place, NextFrame, FramesWritten
<1>4. \A e \in Direction : Len(Bytes(e)) \in Nat
  BY FlattenType, LenProperties DEF Types, FlowTypes, Bytes
<1>5. Bytes(d)' = Bytes(d) /\ \A e \in Direction : Bytes(e)' = Bytes(e)
  BY <1>2 DEF Bytes
<1>6. CASE Flush(d)
  <2>1. /\ sent' = [sent EXCEPT ![d] = sent[d] + 1] /\ got' = got
        /\ Len(Bytes(d)) - sent[d] > 0 /\ sent[d] - got[d] < WireSize
    BY <1>1, <1>6 DEF Flush, Unsent
  <2>2. sent'[d] = sent[d] + 1 /\ \A e \in Direction \ {d} : sent'[e] = sent[e]
    BY <1>1, <2>1
  <2>3. /\ sent'[d] \in Nat /\ got[d] <= sent'[d] /\ sent'[d] <= Len(Bytes(d))
        /\ sent'[d] - got[d] <= WireSize
    <3>1. sent[d] \in Nat /\ got[d] \in Nat /\ got[d] <= sent[d]
      BY <1>1 DEF FlowBounds
    <3> QED BY <1>1, <1>4, <2>1, <2>2, <3>1
  <2>4. FlowBounds'
    BY <1>1, <1>2, <1>5, <2>1, <2>2, <2>3 DEF FlowBounds
  <2>5. FlowTypes'
    BY <1>1, <1>2, <2>1, <2>3 DEF FlowTypes
  <2> QED BY <1>3, <2>4, <2>5 DEF FlowInv
<1>7. CASE Arrive(d)
  <2>1. PICK n \in (got[d] + 1)..sent[d] : got' = [got EXCEPT ![d] = n]
    BY <1>7 DEF Arrive
  <2>2. sent' = sent /\ got'[d] = n /\ \A e \in Direction \ {d} : got'[e] = got[e]
    BY <1>1, <1>7, <2>1 DEF Arrive
  <2>3. n \in Nat /\ used[d] <= n /\ n <= sent[d] /\ sent[d] - n <= WireSize
    <3>1. /\ sent[d] \in Nat /\ got[d] \in Nat /\ used[d] \in Nat
          /\ used[d] <= got[d] /\ sent[d] - got[d] <= WireSize
      BY <1>1 DEF FlowBounds
    <3> QED BY <1>1, <2>1, <3>1
  <2>4. FlowBounds'
    BY <1>1, <1>2, <1>5, <2>2, <2>3 DEF FlowBounds
  <2>5. FlowTypes'
    BY <1>1, <1>2, <2>1, <2>2, <2>3 DEF FlowTypes
  <2> QED BY <1>3, <2>4, <2>5 DEF FlowInv
<1> QED BY <1>6, <1>7

(* A write keeps all of it.                                                *)
LEMMA WritesKeep ==
  ASSUME Types, ReadInv, Writes
  PROVE  FlowInv'
<1>1. PICK d \in Direction, lens \in Seq(Nat) :
        WriteFrames(d, lens) /\ UNCHANGED <<reader, need, flowVars, decoded>>
  BY DEF Writes
<1>2. UNCHANGED <<reader, need, sent, got, used, decoded>>
  BY <1>1 DEF flowVars
<1>3. FlowTypes /\ FlowBounds /\ FramesWritten
  BY DEF Types
<1>4. FramesWritten' /\ Len(frames'[d]) <= MaxFrames
  BY <1>1, <1>3, WritesAppend
<1>5. PICK b \in Seq(Seq(Cell)) : frames' = [frames EXCEPT ![d] = frames[d] \o b]
  BY <1>1, <1>3, WritesAppend
<1>6. /\ frames'[d] = frames[d] \o b /\ frames'[d] \in Seq(Seq(Cell))
      /\ \A e \in Direction \ {d} : frames'[e] = frames[e]
      /\ frames' \in [Direction -> Seq(Seq(Cell))]
  <2>1. frames \in [Direction -> Seq(Seq(Cell))] /\ frames[d] \in Seq(Seq(Cell))
    BY <1>3 DEF FlowTypes
  <2>2. PICK all : all = frames[d] \o b
    OBVIOUS
  <2>3. all \in Seq(Seq(Cell))
    BY <2>1, <2>2
  <2>4. frames' = [frames EXCEPT ![d] = all]
    BY <1>5, <2>2
  <2>5. frames'[d] = all /\ frames' \in [Direction -> Seq(Seq(Cell))]
    BY <2>1, <2>3, <2>4
  <2>6. \A e \in Direction \ {d} : frames'[e] = frames[e]
    BY <2>1, <2>4
  <2> QED BY <2>2, <2>3, <2>5, <2>6
<1>7. FlowTypes'
  BY <1>2, <1>3, <1>6 DEF FlowTypes
<1>8. ASSUME NEW e \in Direction \ {d}
      PROVE  ReadsAt(e)' /\ Bytes(e)' = Bytes(e)
  <2>1. ReadsAt(e) /\ frames'[e] = frames[e]
    BY <1>6 DEF ReadInv
  <2> QED BY <1>2, <2>1 DEF ReadsAt, Place, NextFrame, Bytes
<1>9. ReadsAt(d)' /\ Len(Bytes(d)) \in Nat /\ Len(Bytes(d)) <= Len(Bytes(d)')
  <2>1. ReadsAt(d)
    BY DEF ReadInv
  <2>2. UNCHANGED <<reader, need, used, decoded>>
    BY <1>2
  <2> QED BY <1>6, <2>1, <2>2, WritesKeepPlace
<1>10. ReadInv'
  BY <1>8, <1>9 DEF ReadInv
<1>11. FlowBounds'
  <2>1. sent[d] <= Len(Bytes(d)')
    <3>1. sent[d] <= Len(Bytes(d)) /\ sent[d] \in Nat
      BY <1>3 DEF FlowBounds, FlowTypes
    <3>2. Len(Bytes(d)') \in Nat
      BY <1>6, FlattenType, LenProperties DEF Bytes
    <3> QED BY <1>9, <3>1, <3>2
  <2>2. \A e \in Direction : sent[e] <= Len(Bytes(e)') /\ Len(frames'[e]) <= MaxFrames
    BY <1>3, <1>4, <1>6, <1>8, <2>1 DEF FlowBounds
  <2> QED BY <1>2, <1>3, <2>2 DEF FlowBounds
<1> QED BY <1>4, <1>7, <1>10, <1>11 DEF FlowInv

(* So does a step in which no cell moves.                                  *)
LEMMA ControlsKeep ==
  ASSUME Types, ReadInv, Controls
  PROVE  FlowInv'
<1>1. UNCHANGED <<need, sent, got, used, frames, decoded>>
  BY DEF Controls, flowVars
<1>2. FlowTypes' /\ FlowBounds' /\ FramesWritten'
  BY <1>1 DEF Types, FlowTypes, FlowBounds, FramesWritten, Bytes
<1>3. ASSUME NEW d \in Direction PROVE ReadsAt(d)'
  <2>1. ReadsAt(d) /\ Turns(d)
    BY DEF ReadInv, Controls
  <2>2. Place(d)' = Place(d) /\ NextFrame(d)' = NextFrame(d)
    BY <1>1 DEF Place, NextFrame
  <2>3. Unread(d) => used[d] = Place(d)
    <3>1. PICK s : s = decoded[d]
      OBVIOUS
    <3>2. s \in Seq(Seq(Cell))
      BY <3>1 DEF Types, FlowTypes
    <3>3. s = << >> => FlattenSeq(s) = s /\ Len(s) = 0
      BY <3>2, FlattenType, EmptySeq
    <3> QED BY <3>1, <3>3 DEF Unread, Place
  <2> QED BY <1>1, <2>1, <2>2, <2>3 DEF ReadsAt, Turns
<1> QED BY <1>2, <1>3 DEF FlowInv, ReadInv

(* And every step of the session.                                          *)
LEMMA NextFlow ==
  ASSUME SessionInv, [Next]_vars
  PROVE  FlowInv'
<1>1. ControlTypes /\ ControlInv /\ Types /\ ReadInv
  BY DEF SessionInv, Types
<1>2. ASSUME NEW d \in Direction, Reads(d) PROVE FlowInv'
  <2>1. ReadsAt(d)
    BY <1>1 DEF ReadInv
  <2>2. ReadStep(d)
    BY <1>1, <1>2, <2>1, HeaderStep, PayloadStep DEF Reads
  <2> QED BY <1>1, <2>2, ReadStepKeeps
<1>3. CASE Moves
  BY <1>1, <1>2, <1>3, WireKeeps DEF Moves
<1> QED BY <1>1, <1>3, NextKinds, WritesKeep, ControlsKeep

-----------------------------------------------------------------------------
(* Where programs and handlers are.                                        *)

(* A read goes on reading, or hands the frame on; only the broker's end of *)
(* the connection is closed by one.                                        *)
LEMMA ReadsControl ==
  ASSUME ControlTypes, NEW d \in Direction, Reads(d)
  PROVE  /\ ControlTypes' /\ Reading(d) /\ UNCHANGED <<mode, prog, sent, frames>>
         /\ d = Down => reader'[Down] \in {"header", "payload"} /\ reader'[Up] = reader[Up]
         /\ d = Up => reader'[Up] \in {"payload", "busy", "dropped"} /\ reader'[Down] = reader[Down]
         /\ trans'[Up] = trans[Up]
         /\ \/ trans'[Down] = trans[Down]
            \/ trans[Down] = "open" /\ trans'[Down] = "closing"
<1>1. /\ reader \in [Direction -> ReaderState] /\ trans \in [Direction -> Transport]
      /\ Up \in Direction /\ Down \in Direction /\ Up # Down
  BY DEF ControlTypes, Up, Down, Direction
<1>2. PICK r \in ReaderState :
        /\ reader' = [reader EXCEPT ![d] = r]
        /\ d = Down => r \in {"header", "payload"}
        /\ d = Up => r \in {"payload", "busy", "dropped"}
        /\ UNCHANGED trans \/ Close(Down)
  <2>1. ASSUME NEW first, NEW len, Message(d, first, len)
        PROVE  \E r \in ReaderState :
                 /\ reader' = [reader EXCEPT ![d] = r]
                 /\ d = Down => r \in {"header", "payload"}
                 /\ d = Up => r \in {"payload", "busy", "dropped"}
                 /\ UNCHANGED trans \/ Close(Down)
    <3>1. CASE d = Up /\ len > MaxPayload
      <4>1. Goto(Up, "dropped") /\ Close(Down)
        BY <2>1, <3>1 DEF Message, HandlerLeaves
      <4> QED BY <1>1, <3>1, <4>1 DEF Goto, ReaderState
    <3>2. CASE ~(d = Up /\ len > MaxPayload)
      <4>1. Goto(d, IF d = Up THEN "busy" ELSE "header") /\ UNCHANGED trans
        BY <2>1, <3>2 DEF Message
      <4> QED BY <1>1, <4>1 DEF Goto, ReaderState
    <3> QED BY <3>1, <3>2
  <2>2. CASE \E first, len : Message(d, first, len)
    BY <2>1, <2>2
  <2>3. CASE Goto(d, "payload") /\ UNCHANGED trans
    BY <1>1, <2>3 DEF Goto, ReaderState
  <2>4. (\E first, len : Message(d, first, len)) \/ (Goto(d, "payload") /\ UNCHANGED trans)
    BY DEF Reads, TakeHeader, TakePayload
  <2> QED BY <2>2, <2>3, <2>4
<1>3. reader' \in [Direction -> ReaderState] /\ reader'[d] = r
      /\ \A e \in Direction \ {d} : reader'[e] = reader[e]
  BY <1>1, <1>2
<1>4. /\ trans' \in [Direction -> Transport] /\ trans'[Up] = trans[Up]
      /\ \/ trans'[Down] = trans[Down]
         \/ trans[Down] = "open" /\ trans'[Down] = "closing"
  <2>1. CASE UNCHANGED trans
    BY <1>1, <2>1
  <2>2. CASE Close(Down)
    <3>1. trans' = [trans EXCEPT ![Down] = IF trans[Down] = "open" THEN "closing" ELSE trans[Down]]
      BY <1>1, <2>2 DEF Close
    <3>2. "closing" \in Transport /\ trans[Down] \in Transport
      BY <1>1 DEF Transport
    <3> QED BY <1>1, <3>1, <3>2
  <2> QED BY <1>2, <2>1, <2>2
<1>5. UNCHANGED <<mode, prog, sent, frames>> /\ Reading(d)
  BY DEF Reads, TakeHeader, TakePayload, Reading
<1>6. ControlTypes'
  BY <1>3, <1>4, <1>5 DEF ControlTypes
<1>7. d = Down => reader'[Down] \in {"header", "payload"} /\ reader'[Up] = reader[Up]
  BY <1>1, <1>2, <1>3
<1>8. d = Up => reader'[Up] \in {"payload", "busy", "dropped"} /\ reader'[Down] = reader[Down]
  BY <1>1, <1>2, <1>3
<1> QED BY <1>4, <1>5, <1>6, <1>7, <1>8

(* Every step keeps the types of the control.                              *)
LEMMA NextControlTypes ==
  ASSUME ControlTypes, [Next]_vars
  PROVE  ControlTypes'
<1> USE DEF ControlTypes
<1>1. Up \in Direction /\ Down \in Direction
  BY DEF Up, Down, Direction
<1>2. ASSUME NEW d \in Direction, NEW r \in ReaderState, Goto(d, r)
      PROVE  reader' \in [Direction -> ReaderState]
  BY <1>2 DEF Goto
<1>3. ASSUME NEW d \in Direction, Close(d) \/ CloseSocket(d)
      PROVE  trans' \in [Direction -> Transport]
  BY <1>3 DEF Close, CloseSocket, Transport
<1>4. /\ {"none", "header", "over", "cut", "dropped", "dead"} \subseteq ReaderState
      /\ {"draining", "typing", "listening", "closing", "ok", "failed"} \subseteq ProgState
      /\ {"open", "closed", "lost"} \subseteq Transport
  BY DEF ReaderState, ProgState, Transport
<1>5. ASSUME NEW d \in Direction, Wire(d) \/ Lose(d) PROVE ControlTypes'
  BY <1>4, <1>5 DEF Wire, Flush, Arrive, CloseCompletes, Lose
<1>6. CASE Accept \/ HandlerContinues \/ HandlerSeesEnd \/ HandlerFails \/ BrokerWrites
           \/ RouterDrops \/ BrokerEnds
  BY <1>1, <1>2, <1>3, <1>4, <1>6
  DEF Accept, HandlerContinues, HandlerSeesEnd, HandlerFails, BrokerWrites, RouterDrops,
      BrokerEnds, HandlerLeaves
<1>7. CASE Refused \/ Connect \/ TypeLine \/ EndOfInput \/ SendingRaises \/ WaitClosedReturns
  BY <1>1, <1>3, <1>4, <1>7
  DEF Refused, Connect, TypeLine, EndOfInput, SendingRaises, WaitClosedReturns
<1>8. CASE DrainReturns
  <2>1. /\ prog' \in {"closing", "typing", "listening"} /\ UNCHANGED mode
        /\ UNCHANGED reader \/ Goto(Down, "header")
        /\ UNCHANGED trans \/ Close(Up)
    BY <1>8 DEF DrainReturns, Publisher, Listener
  <2> QED BY <1>1, <1>2, <1>3, <1>4, <2>1
<1>9. CASE ListenerReturns
  <2>1. /\ prog' \in {"ok", "closing"} /\ UNCHANGED mode
        /\ Goto(Down, "over") \/ Goto(Down, "cut")
        /\ Close(Up) \/ CloseSocket(Up)
    BY <1>9 DEF ListenerReturns
  <2> QED BY <1>1, <1>2, <1>3, <1>4, <2>1
<1>10. CASE ListenerRaises \/ ReplayStops \/ ProgramStops
  BY <1>1, <1>2, <1>3, <1>4, <1>10 DEF ListenerRaises, ReplayStops, ProgramStops
<1>11. CASE UNCHANGED vars
  BY <1>11 DEF vars
<1> QED
  BY <1>1, <1>5, <1>6, <1>7, <1>8, <1>9, <1>10, <1>11, ReadsControl
  DEF Next, Broker, Handler, Program, User, Over

(* A step that reads nothing and moves neither program nor reader keeps    *)
(* their invariant unless it closes the program's transport.               *)
LEMMA QuietControl ==
  ASSUME ControlTypes, ControlInv, UNCHANGED <<mode, prog, reader, used, decoded>>,
         prog # "start" \/ UNCHANGED trans,
         trans'[Up] \in {"closing", "closed"} => trans[Up] \in {"closing", "closed"}
  PROVE  ControlInv'
BY DEF ControlInv, Unread, Reading

(* Every step keeps where they are.                                        *)
LEMMA NextControlInv ==
  ASSUME SessionInv, [Next]_vars
  PROVE  ControlInv'
<1> USE DEF flowVars
<1>1. /\ ControlTypes /\ ControlInv /\ Types /\ ReadInv
      /\ reader \in [Direction -> ReaderState] /\ trans \in [Direction -> Transport]
      /\ Up \in Direction /\ Down \in Direction /\ Up # Down /\ Direction = {Up, Down}
      /\ mode \in Publisher \cup Listener
      /\ Publisher \cap Listener = {} /\ "interactive" \notin Listener
  BY DEF SessionInv, Types, ControlTypes, Publisher, Listener, Up, Down, Direction
<1>2. ASSUME NEW d \in Direction, Reads(d) PROVE ControlInv'
  <2>1. ReadStep(d)
    BY <1>1, <1>2, HeaderStep, PayloadStep DEF Reads, ReadInv
  <2>2. \A e \in Direction \ {d} : used'[e] = used[e] /\ decoded'[e] = decoded[e]
    BY <2>1 DEF ReadStep, Stays
  <2>3. /\ Reading(d) /\ UNCHANGED <<mode, prog>> /\ trans'[Up] = trans[Up]
        /\ d = Down => reader'[Down] \in {"header", "payload"} /\ reader'[Up] = reader[Up]
        /\ d = Up => reader'[Up] \in {"payload", "busy", "dropped"} /\ reader'[Down] = reader[Down]
    BY <1>1, <1>2, ReadsControl
  <2>4. prog # "start"
    BY <1>1, <2>3 DEF ControlInv, Reading
  <2>5. CASE d = Down
    <3>1. ~(prog \in {"start", "draining"} /\ mode \in Listener)
      BY <1>1, <2>3, <2>5 DEF ControlInv, Reading
    <3> QED BY <1>1, <2>2, <2>3, <2>4, <2>5, <3>1 DEF ControlInv, Reading, Unread
  <2>6. CASE d = Up
    BY <1>1, <2>2, <2>3, <2>4, <2>6 DEF ControlInv, Reading, Unread
  <2> QED BY <1>1, <2>5, <2>6
<1>3. ASSUME NEW d \in Direction, Wire(d) \/ Lose(d) PROVE ControlInv'
  <2>1. UNCHANGED <<mode, prog, reader, used, decoded>>
    BY <1>3 DEF Wire, Flush, Arrive, CloseCompletes, Lose
  <2>2. CASE UNCHANGED trans
    BY <1>1, <2>1, <2>2, QuietControl
  <2>3. CASE CloseCompletes(d) \/ Lose(d)
    <3>1. trans[d] \in {"open", "closing"}
      BY <2>3 DEF CloseCompletes, Lose
    <3>2. prog # "start"
      BY <1>1, <3>1 DEF ControlInv
    <3>3. trans'[Up] \in {"closing", "closed"} => trans[Up] \in {"closing", "closed"}
      BY <1>1, <2>3 DEF CloseCompletes, Lose
    <3> QED BY <1>1, <2>1, <3>2, <3>3, QuietControl
  <2> QED BY <1>3, <2>2, <2>3 DEF Wire, Flush, Arrive
<1>4. CASE Accept \/ HandlerContinues \/ HandlerSeesEnd \/ HandlerFails \/ BrokerEnds
  <2>1. /\ reader'[Up] # "none" /\ reader'[Down] = reader[Down]
        /\ trans'[Up] = trans[Up]
        /\ UNCHANGED <<mode, prog, used, decoded>>
    BY <1>1, <1>4 DEF Accept, HandlerContinues, HandlerSeesEnd, HandlerFails, BrokerEnds,
                      HandlerLeaves, Goto, Close, CloseSocket
  <2>2. prog # "start"
    <3>1. reader[Up] # "none" \/ trans[Down] # "none"
      BY <1>4 DEF Accept, HandlerContinues, HandlerSeesEnd, HandlerFails, BrokerEnds, Reading
    <3> QED BY <1>1, <3>1 DEF ControlInv
  <2> QED BY <1>1, <2>1, <2>2 DEF ControlInv, Reading, Unread
<1>5. CASE BrokerWrites \/ RouterDrops
  <2>1. /\ UNCHANGED <<mode, prog, reader, used, decoded>> /\ trans[Down] = "open"
        /\ trans'[Up] = trans[Up]
    BY <1>1, <1>5 DEF BrokerWrites, RouterDrops, Close
  <2>2. prog # "start"
    BY <1>1, <2>1 DEF ControlInv
  <2> QED BY <1>1, <2>1, <2>2, QuietControl
<1>6. CASE Refused \/ SendingRaises \/ WaitClosedReturns
  <2>1. prog' \in {"failed", "ok"} /\ UNCHANGED <<mode, reader, trans, used, decoded>>
    BY <1>6 DEF Refused, SendingRaises, WaitClosedReturns
  <2> QED BY <1>1, <2>1 DEF ControlInv, Reading, Unread
<1>7. CASE Connect
  <2>1. /\ prog = "start" /\ trans'[Up] = "open" /\ UNCHANGED <<mode, reader, used, decoded>>
        /\ IF mode = "interactive" THEN prog' = "typing" ELSE prog' = "draining"
    BY <1>1, <1>7 DEF Connect
  <2> QED BY <1>1, <2>1 DEF ControlInv, Reading, Unread
<1>8. CASE TypeLine
  <2>1. prog = "typing" /\ prog' = "draining" /\ UNCHANGED <<mode, reader, trans, used, decoded>>
    BY <1>8 DEF TypeLine
  <2> QED BY <1>1, <2>1 DEF ControlInv, Reading, Unread
<1>9. CASE EndOfInput
  <2>1. prog' = "closing" /\ UNCHANGED <<mode, reader, used, decoded>>
    BY <1>9 DEF EndOfInput
  <2> QED BY <1>1, <2>1 DEF ControlInv, Reading, Unread
<1>10. CASE DrainReturns
  <2>1. trans[Up] = "open" /\ prog = "draining" /\ UNCHANGED <<mode, used, decoded>>
    BY <1>10 DEF DrainReturns
  <2>2. CASE mode = "publish"
    <3>1. prog' = "closing" /\ UNCHANGED reader
      BY <1>10, <2>2 DEF DrainReturns, Listener
    <3> QED BY <1>1, <2>1, <3>1 DEF ControlInv, Reading, Unread
  <2>3. CASE mode = "interactive"
    <3>1. prog' = "typing" /\ UNCHANGED <<trans, reader>>
      BY <1>10, <2>3 DEF DrainReturns, Listener
    <3> QED BY <1>1, <2>1, <2>3, <3>1 DEF ControlInv, Reading, Unread
  <2>4. CASE mode \in Listener
    <3>1. prog' = "listening" /\ Goto(Down, "header") /\ UNCHANGED trans
      BY <1>10, <2>4 DEF DrainReturns, Listener
    <3>2. reader'[Down] = "header" /\ reader'[Up] = reader[Up]
      BY <1>1, <3>1 DEF Goto
    <3> QED BY <1>1, <2>1, <3>1, <3>2 DEF ControlInv, Reading, Unread
  <2> QED BY <1>1, <2>2, <2>3, <2>4 DEF Publisher
<1>11. CASE ListenerReturns \/ ListenerRaises \/ ReplayStops \/ ProgramStops
  <2>1. /\ prog' \in {"ok", "closing", "failed"} /\ UNCHANGED <<mode, used, decoded>>
        /\ reader'[Up] = reader[Up]
    BY <1>1, <1>11 DEF ListenerReturns, ListenerRaises, ReplayStops, ProgramStops, Goto
  <2> QED BY <1>1, <2>1 DEF ControlInv, Reading, Unread
<1>12. CASE UNCHANGED vars
  BY <1>1, <1>12, QuietControl DEF vars
<1> QED
  BY <1>1, <1>2, <1>3, <1>4, <1>5, <1>6, <1>7, <1>8, <1>9, <1>10, <1>11, <1>12
  DEF Next, Broker, Handler, Program, User, Over

(* The session starts in its invariant,                                    *)
LEMMA InitSession == Init => SessionInv
<1> SUFFICES ASSUME Init PROVE SessionInv
  OBVIOUS
<1>1. /\ prog = "start" /\ mode \in Publisher \cup Listener
      /\ \A d \in Direction : /\ reader[d] = "none" /\ trans[d] = "none" /\ need[d] = 0
                              /\ sent[d] = 0 /\ got[d] = 0 /\ used[d] = 0
                              /\ frames[d] = << >> /\ decoded[d] = << >>
      /\ Up \in Direction /\ Down \in Direction
  BY DEF Init, Up, Down, Direction
<1>2. ControlTypes
  BY DEF Init, ControlTypes, ProgState, ReaderState, Transport
<1>3. /\ << >> \in Seq(Seq(Cell)) /\ Len(<< >>) = 0
      /\ \A s \in Seq(Seq(Cell)) : s = << >> => FlattenSeq(s) = s
  BY EmptySeq, FlattenType
<1>4. FlowTypes
  BY <1>3 DEF Init, FlowTypes
<1>5. ASSUME NEW d \in Direction
      PROVE  Len(frames[d]) = 0 /\ Len(Bytes(d)) = 0 /\ Place(d) = 0
  <2>1. PICK s : s = << >>
    OBVIOUS
  <2>2. frames[d] = s /\ decoded[d] = s /\ s \in Seq(Seq(Cell)) /\ Len(s) = 0
    BY <1>1, <1>3, <2>1
  <2>3. FlattenSeq(s) = s
    BY <2>1, <2>2, FlattenType
  <2> QED BY <2>2, <2>3 DEF Bytes, Place
<1>6. FlowBounds /\ FramesWritten
  BY <1>1, <1>5, FlowAssumption, SessionBounds DEF FlowBounds, FramesWritten
<1>7. ControlInv
  BY <1>1 DEF ControlInv, Unread
<1>8. ASSUME NEW d \in Direction PROVE ReadsAt(d)
  <2>1. Len(decoded[d]) = 0
    BY <1>1, <1>3
  <2>2. SubSeq(frames[d], 1, 0) = << >>
    BY SubSeqEmpty
  <2>3. decoded[d] = SubSeq(frames[d], 1, Len(decoded[d]))
    BY <1>1, <2>1, <2>2, Zenon
  <2>4. reader[d] = "none" /\ Len(decoded[d]) <= Len(frames[d])
    BY <1>1, <1>5, <2>1
  <2> QED BY <2>3, <2>4 DEF ReadsAt
<1> QED BY <1>2, <1>4, <1>6, <1>7, <1>8 DEF SessionInv, Types, ReadInv

(* and stays in it.                                                        *)
LEMMA SessionInvariant == Spec => []SessionInv
<1>1. ASSUME SessionInv, [Next]_vars PROVE SessionInv'
  <2>1. ControlTypes /\ ControlInv
    BY <1>1 DEF SessionInv, Types
  <2> QED BY <1>1, <2>1, NextControlTypes, NextControlInv, NextFlow
          DEF SessionInv, Types, FlowInv
<1> QED BY InitSession, <1>1, PTL DEF Spec

-----------------------------------------------------------------------------
(* The theorems.                                                           *)

(* TypeOK, for any bursts and buffers: no reader takes a cell that has not *)
(* arrived, none arrives that was not sent, and none is sent that was not  *)
(* written.                                                                *)
THEOREM SessionTypeOK == Spec => []TypeOK
<1>1. SessionInv => TypeOK
  BY DEF SessionInv, Types, ControlTypes, FlowTypes, FlowBounds, TypeOK
<1> QED BY <1>1, SessionInvariant, PTL

(* A step of the session is one of the channel in each direction, or       *)
(* leaves it alone.                                                        *)
Channel(d) ==
  \/ /\ Len(frames'[d]) > Len(frames[d])
     /\ SubSeq(frames'[d], 1, Len(frames[d])) = frames[d]
     /\ decoded'[d] = decoded[d]
  \/ /\ Len(decoded[d]) < Len(frames[d])
     /\ decoded'[d] = Append(decoded[d], frames[d][Len(decoded[d]) + 1])
     /\ frames'[d] = frames[d]
  \/ frames'[d] = frames[d] /\ decoded'[d] = decoded[d]

(* Which each step is.                                                     *)
LEMMA NextChannel ==
  ASSUME SessionInv, [Next]_vars, NEW d \in Direction
  PROVE  Channel(d)
<1>1. /\ ControlTypes /\ ControlInv /\ Types /\ ReadInv /\ FlowTypes /\ FramesWritten
  BY DEF SessionInv, Types
<1>2. ASSUME NEW e \in Direction, Reads(e) PROVE Channel(d)
  <2>1. ReadStep(e)
    BY <1>1, <1>2, HeaderStep, PayloadStep DEF Reads, ReadInv
  <2> QED BY <2>1 DEF ReadStep, Stays, Decodes, ReadsHeader, GivesUp, NextFrame, Channel
<1>3. CASE Moves
  BY <1>2, <1>3 DEF Moves, Flush, Arrive, Channel
<1>4. CASE Controls
  BY <1>4 DEF Controls, flowVars, Channel
<1>5. CASE Writes
  <2>1. PICK e \in Direction, lens \in Seq(Nat) :
          WriteFrames(e, lens) /\ UNCHANGED <<reader, need, flowVars, decoded>>
    BY <1>5 DEF Writes
  <2>2. PICK b \in Seq(Seq(Cell)) : frames' = [frames EXCEPT ![e] = frames[e] \o b]
    BY <1>1, <2>1, WritesAppend
  <2>3. frames \in [Direction -> Seq(Seq(Cell))] /\ decoded' = decoded
    BY <1>1, <2>1 DEF FlowTypes
  <2>4. CASE d # e
    BY <2>2, <2>3, <2>4 DEF Channel
  <2>5. CASE d = e
    <3>1. PICK fs : fs = frames[d]
      OBVIOUS
    <3>2. PICK all : all = fs \o b
      OBVIOUS
    <3>3. fs \in Seq(Seq(Cell)) /\ frames'[d] = all
      BY <2>2, <2>3, <2>5, <3>1, <3>2
    <3>4. CASE b = << >>
      BY <2>3, <3>1, <3>2, <3>3, <3>4, ConcatEmptySeq DEF Channel
    <3>5. CASE b # << >>
      <4>1. Len(b) \in Nat \ {0} /\ Len(fs) \in Nat
        BY <3>3, <3>5, EmptySeq, LenProperties
      <4>2. Len(all) = Len(fs) + Len(b)
        BY <3>2, <3>3, ConcatParts
      <4>3. SubSeq(all, 1, Len(fs)) = fs
        <5>1. \A i \in 1..Len(fs) : (fs \o b)[i] = fs[i]
          BY <3>3, ConcatParts
        <5>2. all \in Seq(Seq(Cell)) /\ \A i \in 1..Len(fs) : all[i] = fs[i]
          BY <3>2, <3>3, <5>1
        <5>3. Len(fs) \in 0..Len(all)
          BY <4>1, <4>2
        <5> QED BY <3>3, <4>1, <5>2, <5>3
      <4>4. Len(all) > Len(fs)
        BY <4>1, <4>2
      <4> QED BY <2>3, <3>1, <3>3, <4>3, <4>4 DEF Channel
    <3> QED BY <3>4, <3>5
  <2> QED BY <2>4, <2>5
<1> QED BY <1>1, <1>3, <1>4, <1>5, NextKinds

(* Each direction of the session implements the abstract channel: what     *)
(* read_message() and _read_one() return is what was written, unchanged,   *)
(* in order and without a gap, however the bytes are cut and joined, and   *)
(* wherever an end is lost.                                                *)
THEOREM SessionImplementsChannels == Spec => ImplementsFrameChannel
<1>1. Up \in Direction /\ Down \in Direction
  BY DEF Up, Down, Direction
<1>2. Init => UpChannel!Init /\ DownChannel!Init
  BY <1>1 DEF Init, UpChannel!Init, DownChannel!Init
<1>3. ASSUME SessionInv, [Next]_vars
      PROVE  /\ [UpChannel!Next]_<<frames[Up], decoded[Up]>>
             /\ [DownChannel!Next]_<<frames[Down], decoded[Down]>>
  <2>1. Channel(Up) /\ Channel(Down)
    BY <1>1, <1>3, NextChannel
  <2> QED BY <2>1 DEF Channel, UpChannel!Next, UpChannel!Write, UpChannel!Deliver,
                      DownChannel!Next, DownChannel!Write, DownChannel!Deliver
<1> QED BY <1>2, <1>3, SessionInvariant, PTL
        DEF Spec, ImplementsFrameChannel, UpChannel!Spec, DownChannel!Spec

-----------------------------------------------------------------------------
(* The end of a connection.                                                *)

(* The broker's transport closes with everything sent, unless its process  *)
(* died; and a listener was told of the end behind the last frame.         *)
AllSent == trans[Down] = "closed" /\ reader[Up] # "dead" => sent[Down] = Len(Bytes(Down))

ToldOfEnd ==
  reader[Down] = "over" =>
    /\ prog \in {"closing", "ok", "failed"}
    /\ reader[Up] # "dead" => trans[Down] = "closed" /\ decoded[Down] = frames[Down]

EndInv == AllSent /\ ToldOfEnd

(* A listener that is told of the end between two frames has no frame left *)
(* to read.                                                                *)
LEMMA EndBehindLast ==
  ASSUME SessionInv, AllSent, reader[Up] # "dead", ListenerReturns, reader'[Down] = "over"
  PROVE  trans[Down] = "closed" /\ decoded[Down] = frames[Down]
<1>1. /\ Types /\ ControlInv /\ ReadsAt(Down)
      /\ reader \in [Direction -> ReaderState] /\ Up \in Direction /\ Down \in Direction
  BY DEF SessionInv, Types, ControlTypes, ReadInv, Up, Down, Direction
<1>2. reader[Down] = "header" /\ ~Reset(Down) /\ EndOfStream(Down) /\ prog = "listening"
  <2>1. reader'[Down] = IF reader[Down] = "header" /\ ~Reset(Down) THEN "over" ELSE "cut"
    BY <1>1 DEF ListenerReturns, Goto
  <2> QED BY <2>1 DEF ListenerReturns
<1>3. trans[Up] # "closed"
  BY <1>1, <1>2 DEF ControlInv
<1>4. trans[Down] = "closed" /\ got[Down] = sent[Down]
  BY <1>2, <1>3 DEF EndOfStream, Other, Up, Down
<1>5. /\ frames[Down] \in Seq(Seq(Cell)) /\ decoded[Down] \in Seq(Seq(Cell))
      /\ got[Down] \in Nat /\ used[Down] \in Nat
      /\ Len(frames[Down]) \in Nat /\ Len(decoded[Down]) \in Nat
  BY <1>1, LenProperties DEF Types, FlowTypes
<1>6. /\ Len(decoded[Down]) <= Len(frames[Down]) /\ used[Down] = Place(Down)
      /\ decoded[Down] = SubSeq(frames[Down], 1, Len(decoded[Down]))
  BY <1>1, <1>2 DEF ReadsAt
<1>7. got[Down] = Len(Bytes(Down))
  BY <1>4 DEF AllSent
<1>8. got[Down] - used[Down] < HeaderSize
  BY <1>2 DEF EndOfStream, Short, Available, Wanted
<1>9. Len(decoded[Down]) = Len(frames[Down])
  <2>1. SUFFICES ASSUME Len(decoded[Down]) < Len(frames[Down]) PROVE FALSE
    BY <1>5, <1>6
  <2>2. Len(decoded[Down]) + 1 \in 1..Len(frames[Down])
    BY <1>5, <2>1
  <2>3. PICK len \in Nat : NextFrame(Down) = Frame(Len(decoded[Down]) + 1, len)
    BY <1>1, <2>2 DEF Types, FramesWritten, NextFrame
  <2>4. Place(Down) \in Nat /\ Place(Down) + HeaderSize + len <= Len(Bytes(Down))
    BY <1>1, <2>1, <2>3, CellsOfNext DEF Types
  <2> QED BY <1>5, <1>6, <1>7, <1>8, <2>4, HeaderAssumption
<1>10. decoded[Down] = frames[Down]
  BY <1>5, <1>6, <1>9, SubSeqFull
<1> QED BY <1>4, <1>10

(* No step tells a listener of an end too early, or adds to what it was    *)
(* told was all.                                                           *)
LEMMA NextEnd ==
  ASSUME SessionInv, EndInv, [Next]_vars
  PROVE  EndInv'
<1> USE DEF flowVars
<1>1. /\ ControlTypes /\ ControlInv /\ Types /\ ReadInv
      /\ reader \in [Direction -> ReaderState] /\ trans \in [Direction -> Transport]
      /\ frames \in [Direction -> Seq(Seq(Cell))] /\ sent \in [Direction -> Nat]
      /\ Up \in Direction /\ Down \in Direction /\ Up # Down /\ Direction = {Up, Down}
      /\ sent[Down] \in Nat /\ Len(Bytes(Down)) \in Nat
  <2>1. frames[Down] \in Seq(Seq(Cell)) => Len(Bytes(Down)) \in Nat
    BY FlattenType, LenProperties DEF Bytes
  <2> QED BY <2>1 DEF SessionInv, Types, ControlTypes, FlowTypes, Up, Down, Direction
<1>2. ASSUME UNCHANGED <<frames[Down], decoded[Down], sent[Down]>>,
             reader'[Up] # "dead" => reader[Up] # "dead",
             \/ trans'[Down] = trans[Down]
             \/ trans'[Down] # "closed" /\ trans[Down] # "closed"
             \/ reader'[Up] = "dead",
             \/ reader'[Down] # "over"
             \/ reader'[Down] = reader[Down] /\ prog' \in {prog, "closing", "ok", "failed"}
      PROVE  EndInv'
  <2>1. AllSent'
    BY <1>2 DEF EndInv, AllSent, Bytes
  <2>2. ToldOfEnd'
    BY <1>2 DEF EndInv, ToldOfEnd
  <2> QED BY <2>1, <2>2 DEF EndInv
<1>3. ASSUME NEW d \in Direction, Reads(d) PROVE EndInv'
  <2>1. /\ Reading(d) /\ UNCHANGED <<mode, prog, sent, frames>>
        /\ d = Down => reader'[Down] \in {"header", "payload"} /\ reader'[Up] = reader[Up]
        /\ d = Up => reader'[Up] \in {"payload", "busy", "dropped"} /\ reader'[Down] = reader[Down]
        /\ \/ trans'[Down] = trans[Down]
           \/ trans[Down] = "open" /\ trans'[Down] = "closing"
    BY <1>1, <1>3, ReadsControl
  <2>2. ReadStep(d)
    BY <1>1, <1>3, HeaderStep, PayloadStep DEF Reads, ReadInv
  <2>3. CASE d = Down
    <3>1. AllSent'
      BY <2>1, <2>3 DEF EndInv, AllSent, Bytes
    <3> QED BY <2>1, <2>3, <3>1 DEF EndInv, ToldOfEnd
  <2>4. CASE d = Up
    <3>1. decoded'[Down] = decoded[Down]
      BY <1>1, <2>2, <2>4 DEF ReadStep, Stays
    <3>2. reader[Up] # "dead"
      BY <2>1, <2>4 DEF Reading
    <3> QED BY <1>2, <2>1, <2>4, <3>1, <3>2
  <2> QED BY <1>1, <2>3, <2>4
<1>4. ASSUME NEW d \in Direction, Flush(d) PROVE EndInv'
  <2>1. /\ UNCHANGED <<prog, reader, trans, frames, decoded>>
        /\ trans[d] \in {"open", "closing"} /\ \A e \in Direction \ {d} : sent'[e] = sent[e]
    BY <1>1, <1>4 DEF Flush
  <2>2. AllSent'
    BY <1>1, <2>1 DEF EndInv, AllSent, Bytes
  <2>3. ToldOfEnd'
    BY <2>1 DEF EndInv, ToldOfEnd
  <2> QED BY <2>2, <2>3 DEF EndInv
<1>5. ASSUME NEW d \in Direction, CloseCompletes(d) PROVE EndInv'
  <2>1. /\ UNCHANGED <<prog, reader, sent, frames, decoded>> /\ trans[d] = "closing"
        /\ \A e \in Direction \ {d} : trans'[e] = trans[e]
        /\ d = Down => Len(Bytes(Down)) - sent[Down] = 0
    BY <1>1, <1>5 DEF CloseCompletes, Unsent
  <2>2. AllSent'
    BY <1>1, <2>1 DEF EndInv, AllSent, Bytes
  <2>3. ToldOfEnd'
    BY <1>1, <2>1 DEF EndInv, ToldOfEnd
  <2> QED BY <2>2, <2>3 DEF EndInv
<1>6. ASSUME NEW d \in Direction, Arrive(d) \/ Lose(d) PROVE EndInv'
  <2>1. /\ UNCHANGED <<prog, reader, sent, frames, decoded>>
        /\ \/ trans'[Down] = trans[Down]
           \/ trans'[Down] # "closed" /\ trans[Down] # "closed"
    BY <1>1, <1>6 DEF Arrive, Lose
  <2> QED BY <1>2, <2>1
<1>7. CASE Accept \/ HandlerContinues \/ HandlerSeesEnd \/ HandlerFails
  <2>1. /\ UNCHANGED <<prog, sent, frames, decoded>> /\ reader[Up] # "dead"
        /\ reader'[Down] = reader[Down]
        /\ \/ trans'[Down] = trans[Down]
           \/ trans'[Down] # "closed" /\ trans[Down] # "closed"
    BY <1>1, <1>7 DEF Accept, HandlerContinues, HandlerSeesEnd, HandlerFails, HandlerLeaves,
                      Goto, Close, Reading
  <2> QED BY <1>2, <2>1
<1>8. CASE BrokerWrites
  <2>1. UNCHANGED <<prog, reader, trans, sent, decoded>> /\ trans[Down] = "open"
    BY <1>8 DEF BrokerWrites
  <2> QED BY <2>1 DEF EndInv, AllSent, ToldOfEnd
<1>9. CASE RouterDrops
  <2>1. /\ UNCHANGED <<prog, reader, sent, frames, decoded>>
        /\ trans'[Down] # "closed" /\ trans[Down] # "closed"
    BY <1>1, <1>9 DEF RouterDrops, Close
  <2> QED BY <1>2, <2>1
<1>10. CASE BrokerEnds
  <2>1. /\ UNCHANGED <<prog, sent, frames, decoded>> /\ reader[Up] # "dead"
        /\ reader'[Up] = "dead" /\ reader'[Down] = reader[Down]
    BY <1>1, <1>10 DEF BrokerEnds, Goto
  <2> QED BY <1>2, <2>1
<1>11. CASE Connect
  <2>1. /\ prog = "start" /\ UNCHANGED <<reader, sent, decoded>> /\ trans'[Down] = "open"
    BY <1>1, <1>11 DEF Connect
  <2>2. reader[Down] = "none"
    BY <1>1, <2>1 DEF ControlInv
  <2> QED BY <2>1, <2>2 DEF EndInv, AllSent, ToldOfEnd
<1>12. CASE TypeLine
  <2>1. /\ prog = "typing" /\ UNCHANGED <<reader, trans, sent, decoded>>
        /\ frames'[Down] = frames[Down]
    BY <1>1, <1>12 DEF TypeLine, WriteFrames
  <2>2. reader[Down] # "over"
    BY <2>1 DEF EndInv, ToldOfEnd
  <2>3. AllSent'
    BY <2>1 DEF EndInv, AllSent, Bytes
  <2> QED BY <2>1, <2>2, <2>3 DEF EndInv, ToldOfEnd
<1>13. CASE Refused \/ EndOfInput \/ SendingRaises \/ WaitClosedReturns
  <2>1. /\ prog' \in {"closing", "ok", "failed"} /\ trans'[Down] = trans[Down]
        /\ UNCHANGED <<reader, sent, frames, decoded>>
    BY <1>1, <1>13 DEF Refused, EndOfInput, SendingRaises, WaitClosedReturns, Close
  <2> QED BY <1>2, <2>1
<1>14. CASE DrainReturns
  <2>1. /\ prog = "draining" /\ UNCHANGED <<sent, frames, decoded>>
        /\ UNCHANGED reader \/ Goto(Down, "header")
        /\ UNCHANGED trans \/ Close(Up)
    BY <1>1, <1>14 DEF DrainReturns, ControlTypes, Publisher, Listener
  <2>2. /\ reader'[Down] \in {reader[Down], "header"} /\ reader'[Up] = reader[Up]
        /\ trans'[Down] = trans[Down]
    BY <1>1, <2>1 DEF Goto, Close
  <2>3. reader[Down] # "over"
    BY <2>1 DEF EndInv, ToldOfEnd
  <2> QED BY <1>2, <2>1, <2>2, <2>3
<1>15. CASE ListenerRaises \/ ReplayStops \/ ProgramStops
  <2>1. /\ UNCHANGED <<sent, frames, decoded>> /\ reader'[Down] \in {"cut", "none"}
        /\ reader'[Up] = reader[Up] /\ trans'[Down] = trans[Down]
    BY <1>1, <1>15 DEF ListenerRaises, ReplayStops, ProgramStops, Goto, Close, CloseSocket
  <2> QED BY <1>2, <2>1
<1>16. CASE ListenerReturns
  <2>1. /\ prog' \in {"ok", "closing"} /\ UNCHANGED <<sent, frames, decoded>>
        /\ reader'[Up] = reader[Up] /\ trans'[Down] = trans[Down]
    BY <1>1, <1>16 DEF ListenerReturns, Goto, Close, CloseSocket
  <2>2. AllSent'
    BY <2>1 DEF EndInv, AllSent, Bytes
  <2>3. ToldOfEnd'
    <3>1. ASSUME reader'[Down] = "over", reader[Up] # "dead"
          PROVE  trans[Down] = "closed" /\ decoded[Down] = frames[Down]
      BY <1>16, <3>1, EndBehindLast DEF EndInv
    <3> QED BY <2>1, <3>1 DEF ToldOfEnd
  <2> QED BY <2>2, <2>3 DEF EndInv
<1>17. CASE UNCHANGED vars
  BY <1>2, <1>17 DEF vars
<1> QED
  BY <1>1, <1>3, <1>4, <1>5, <1>6, <1>7, <1>8, <1>9, <1>10, <1>11, <1>12, <1>13, <1>14, <1>15,
     <1>16, <1>17
  DEF Next, Broker, Handler, Program, User, Over, Wire

(* EndMeansAll, for any bursts and buffers: whoever is told of the end     *)
(* between two frames has all that the broker wrote, also when the router  *)
(* dropped it with frames in the buffer, unless the broker's process died. *)
THEOREM EndIsComplete == Spec => []EndMeansAll
<1>1. Init => EndInv
  BY DEF Init, EndInv, AllSent, ToldOfEnd, Up, Down, Direction
<1>2. EndInv => EndMeansAll
  BY DEF EndInv, ToldOfEnd, EndMeansAll
<1> QED BY <1>1, <1>2, NextEnd, SessionInvariant, PTL DEF Spec
===============================================================================
