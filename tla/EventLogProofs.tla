--------------------------- MODULE EventLogProofs ---------------------------
(***************************************************************************)
(* Proofs about EventLog for any callers, frame lengths, batch size and    *)
(* offsets: types, what append() returned, and what a replay yields.       *)
(***************************************************************************)
EXTENDS EventLog, InductionLemmas, SequenceTheorems

Pieces == Seq([from : Nat, to : Nat])

(* A piece is where a frame was read from and where its end was taken to   *)
(* be.                                                                     *)
LEMMA PieceType ==
  ASSUME NEW s \in Pieces, NEW i \in DOMAIN s
  PROVE  s[i] \in [from : Nat, to : Nat]
<1>1. s \in Seq([from : Nat, to : Nat]) /\ i \in 1..Len(s)
  BY DEF Pieces
<1> QED BY <1>1, ElementOfSeq

-----------------------------------------------------------------------------
(* The file.                                                               *)

(* The cells of a stored frame, one by one.                                *)
LEMMA StoredCells ==
  ASSUME file \in Seq(Cell), NEW n \in Nat, NEW len \in Nat, NEW o \in Nat
  PROVE  StoredAt(n, len, o) <=>
           /\ o + len <= Len(file)
           /\ \A i \in 1..len : file[o + i] = [frame |-> n, at |-> i, len |-> len]
<1>1. SUFFICES ASSUME o + len <= Len(file)
               PROVE  (SubSeq(file, o + 1, o + len) = Frame(n, len)) <=>
                      \A i \in 1..len : file[o + i] = [frame |-> n, at |-> i, len |-> len]
  BY DEF StoredAt
<1> DEFINE part == SubSeq(file, o + 1, o + len)
<1>2. part = [i \in 1..len |-> file[o + i]]
  BY <1>1
<1> HIDE DEF part
<1>3. CASE part = Frame(n, len)
  BY <1>2, <1>3 DEF Frame
<1>4. CASE \A i \in 1..len : file[o + i] = [frame |-> n, at |-> i, len |-> len]
  BY <1>2, <1>4 DEF Frame
<1> QED BY <1>2, <1>3, <1>4 DEF part

(* A frame is as many cells as its length, each knowing its place.         *)
LEMMA FrameCells ==
  ASSUME NEW n \in Nat, NEW len \in Nat
  PROVE  /\ Frame(n, len) \in Seq(Cell) /\ Len(Frame(n, len)) = len
         /\ \A i \in 1..len : Frame(n, len)[i] = [frame |-> n, at |-> i, len |-> len]
<1>1. \A i \in 1..len : [frame |-> n, at |-> i, len |-> len] \in Cell
  BY DEF Cell
<1> QED BY <1>1 DEF Frame

(* What is written, a frame or a first part of one, goes to the end of the *)
(* file, and a frame begins there if anything does.                        *)
Grows ==
  /\ Len(file) <= Len(file')
  /\ \A i \in 1..Len(file) : file'[i] = file[i]
  /\ Len(file') = Len(file) \/ file'[Len(file) + 1].at = 1

(* A part of a frame at the end of the file only makes it longer.          *)
LEMMA PartGrows ==
  ASSUME file \in Seq(Cell), NEW n \in Nat, NEW len \in Nat, NEW k \in 0..len,
         file' = file \o SubSeq(Frame(n, len), 1, k)
  PROVE  /\ Grows /\ file' \in Seq(Cell) /\ Len(file') = Len(file) + k
         /\ \A i \in 1..k :
              file'[Len(file) + i] = [frame |-> n, at |-> i, len |-> len]
<1> DEFINE part == SubSeq(Frame(n, len), 1, k)
<1>1. /\ part \in Seq(Cell) /\ Len(part) = k
      /\ \A i \in 1..k : part[i] = [frame |-> n, at |-> i, len |-> len]
  <2> DEFINE whole == Frame(n, len)
  <2>1. /\ whole \in Seq(Cell) /\ Len(whole) = len
        /\ \A i \in 1..len : whole[i] = [frame |-> n, at |-> i, len |-> len]
    BY FrameCells
  <2> HIDE DEF whole
  <2>2. SubSeq(whole, 1, k) \in Seq(Cell) /\ Len(SubSeq(whole, 1, k)) = k
        /\ \A i \in 1..k : SubSeq(whole, 1, k)[i] = whole[i]
    BY <2>1
  <2> QED BY <2>1, <2>2 DEF whole
<1> HIDE DEF part
<1>2. /\ file' \in Seq(Cell) /\ Len(file') = Len(file) + k
      /\ \A i \in 1..Len(file) : file'[i] = file[i]
      /\ \A i \in 1..k : file'[Len(file) + i] = part[i]
  BY <1>1 DEF part
<1> QED BY <1>1, <1>2 DEF Grows

(* A file left alone has grown by nothing.                                 *)
LEMMA UnchangedGrows ==
  ASSUME file \in Seq(Cell), UNCHANGED file
  PROVE  Grows
BY DEF Grows

(* What was stored stays where it is, and a frame boundary stays one.      *)
LEMMA GrowthKeeps ==
  ASSUME file \in Seq(Cell), file' \in Seq(Cell), Grows
  PROVE  /\ \A n, len, o \in Nat : StoredAt(n, len, o) => StoredAt(n, len, o)'
         /\ \A o \in 0..Len(file) : IsBoundary(o) => IsBoundary(o)'
<1>1. ASSUME NEW n \in Nat, NEW len \in Nat, NEW o \in Nat, StoredAt(n, len, o)
      PROVE  StoredAt(n, len, o)'
  <2>1. /\ o + len <= Len(file)
        /\ \A i \in 1..len : file[o + i] = [frame |-> n, at |-> i, len |-> len]
    BY <1>1, StoredCells
  <2>2. /\ o + len <= Len(file')
        /\ \A i \in 1..len : file'[o + i] = [frame |-> n, at |-> i, len |-> len]
    BY <2>1 DEF Grows
  <2>3. SubSeq(file', o + 1, o + len) = [i \in 1..len |-> file'[o + i]]
    BY <2>2
  <2> QED BY <2>2, <2>3 DEF StoredAt, Frame
<1>2. ASSUME NEW o \in 0..Len(file), IsBoundary(o)
      PROVE  IsBoundary(o)'
  <2>1. CASE o = Len(file)
    BY <2>1 DEF Grows, IsBoundary
  <2>2. CASE o # Len(file)
    <3>1. o + 1 \in 1..Len(file) /\ o < Len(file') /\ file[o + 1].at = 1
      BY <1>2, <2>2 DEF Grows, IsBoundary
    <3>2. file'[o + 1].at = 1
      BY <3>1 DEF Grows
    <3> QED BY <3>1, <3>2 DEF IsBoundary
  <2> QED BY <2>1, <2>2
<1> QED BY <1>1, <1>2

-----------------------------------------------------------------------------
(* One batch of a replay.                                                  *)

Joined(y, first) ==
  \A i \in DOMAIN y : y[i].from = IF i = 1 THEN first ELSE y[i - 1].to

(* A frame that can be read ends at a natural number.                      *)
LEMMA FrameEndType ==
  ASSUME file \in Seq(Cell), NEW o \in Nat, NEW garbage \in Nat, Readable(o, garbage)
  PROVE  FrameEnd(o, garbage) \in Nat
<1>1. o + 1 \in 1..Len(file) /\ HeaderSize \in Nat
  BY HeaderAssumption DEF Readable
<1>2. file[o + 1] \in Cell
  BY <1>1
<1>3. file[o + 1].len \in Nat
  BY <1>2 DEF Cell
<1> QED BY <1>1, <1>3 DEF FrameEnd

(* Pieces that follow each other from o on, each of which can be read.     *)
Reads(s, o) ==
  /\ s \in Pieces /\ Joined(s, o)
  /\ \A i \in DOMAIN s : \E garbage \in GarbageLen :
       Readable(s[i].from, garbage) /\ s[i].to = FrameEnd(s[i].from, garbage)

(* A nonempty sequence begins and ends with elements of its set.           *)
LEMMA LastElement ==
  ASSUME NEW S, NEW s \in Seq(S), s # << >>
  PROVE  Len(s) \in Nat \ {0} /\ s[Len(s)] \in S /\ Head(s) = s[1] /\ s[1] \in S
<1>1. Len(s) \in Nat \ {0}
  BY EmptySeq
<1> QED BY <1>1, ElementOfSeq

(* The place where a replay goes on is a natural number.                   *)
LEMMA NextFromType ==
  ASSUME NEW s \in Pieces, NEW o \in Nat
  PROVE  NextFrom(s, o) \in Nat
<1>1. CASE s = << >>
  BY <1>1 DEF NextFrom
<1>2. CASE s # << >>
  <2>1. s[Len(s)] \in [from : Nat, to : Nat]
    BY <1>2, LastElement DEF Pieces
  <2> QED BY <1>2, <2>1 DEF NextFrom
<1> QED BY <1>1, <1>2

(* Pieces stay joined when one is added that begins where they end.        *)
LEMMA JoinedAppend ==
  ASSUME NEW s \in Pieces, NEW o \in Nat, Joined(s, o), NEW to \in Nat
  PROVE  LET p == [from |-> NextFrom(s, o), to |-> to]
         IN  Append(s, p) \in Pieces /\ Joined(Append(s, p), o)
<1> DEFINE p == [from |-> NextFrom(s, o), to |-> to]
<1>1. p \in [from : Nat, to : Nat]
  BY NextFromType
<1>2. Append(s, p) \in Pieces
  BY <1>1 DEF Pieces
<1>3. Joined(Append(s, p), o)
  BY <1>1 DEF Joined, NextFrom, Pieces
<1> QED BY <1>2, <1>3

(* Reading one more frame keeps a batch joined and read from the file.     *)
LEMMA ReadMoreKeeps ==
  ASSUME file \in Seq(Cell), NEW o \in Nat, NEW s \in Pieces, NEW r \in ReadMore(s, o)
  PROVE  /\ r \in Pieces /\ r # << >>
         /\ Reads(s, o) => Reads(r, o)
<1> DEFINE next == NextFrom(s, o)
<1>1. next \in Nat
  BY NextFromType
<1>2. PICK garbage \in GarbageLen :
        /\ Readable(next, garbage)
        /\ r = Append(s, [from |-> next, to |-> FrameEnd(next, garbage)])
  BY DEF ReadMore
<1> DEFINE p == [from |-> next, to |-> FrameEnd(next, garbage)]
<1>3. p \in [from : Nat, to : Nat]
  BY <1>1, <1>2, OffsetAssumption, FrameEndType
<1>4. /\ r = Append(s, p) /\ r \in Pieces /\ s \in Seq([from : Nat, to : Nat])
      /\ Len(r) = Len(s) + 1 /\ Len(s) \in Nat
  BY <1>2, <1>3 DEF Pieces
<1>5. r # << >>
  BY <1>4
<1>6. ASSUME Reads(s, o)
      PROVE  Reads(r, o)
  <2>1. Joined(r, o)
    BY <1>2, <1>3, <1>6, JoinedAppend DEF Reads
  <2>2. ASSUME NEW i \in DOMAIN r
        PROVE  \E g \in GarbageLen :
                 Readable(r[i].from, g) /\ r[i].to = FrameEnd(r[i].from, g)
    <3>1. CASE i \in DOMAIN s
      <4>1. r[i] = s[i]
        BY <1>3, <1>4, <3>1
      <4> QED BY <1>6, <3>1, <4>1 DEF Reads
    <3>2. CASE i \notin DOMAIN s
      <4>1. r[i] = p
        BY <1>3, <1>4, <2>2, <3>2
      <4> QED BY <1>2, <4>1
    <3> QED BY <3>1, <3>2
  <2> QED BY <1>4, <2>1, <2>2 DEF Reads
<1> QED BY <1>4, <1>5, <1>6

Longer(R, o) == UNION {ReadMore(s, o) : s \in R}

(* A batch: frames that follow each other from the offset on; it is empty  *)
(* only where no frame can be read.                                        *)
LEMMA BatchFacts ==
  ASSUME file \in Seq(Cell), NEW o \in Nat, NEW r \in BatchesFrom(o)
  PROVE  /\ Reads(r, o)
         /\ r = << >> => \E garbage \in GarbageLen : ~Readable(o, garbage)
<1> DEFINE Eq(f) == f = [k \in 0..BatchSize |->
                          IF k = 0 THEN {<< >>} ELSE Longer(f[k - 1], o)]
           Batches(f) ==
             f[BatchSize] \cup
               {s \in UNION {f[k] : k \in 0..BatchSize - 1} :
                  \E garbage \in GarbageLen : ~Readable(NextFrom(s, o), garbage)}
<1>1. \E f : Eq(f)
  <2> DEFINE step == [R \in SUBSET Pieces |-> Longer(R, o)]
  <2>1. step \in [SUBSET Pieces -> SUBSET Pieces]
    BY ReadMoreKeeps DEF Longer
  <2>2. {<< >>} \in SUBSET Pieces /\ BatchSize \in Nat
    BY BatchAssumption DEF Pieces
  <2>3. PICK f : Iterates(f, BatchSize, SUBSET Pieces, {<< >>}, step)
    <3> HIDE DEF step
    <3> QED BY <2>1, <2>2, Iteration
  <2>4. f[0] = {<< >>} /\ \A k \in 1..BatchSize : f[k] = Longer(f[k - 1], o)
    <3>1. SUFFICES ASSUME NEW k \in 1..BatchSize
                   PROVE  f[k] = Longer(f[k - 1], o)
      BY <2>3 DEF Iterates
    <3>2. k - 1 \in 0..BatchSize
      BY <2>2
    <3>3. f[k - 1] \in SUBSET Pieces
      BY <2>3, <3>2 DEF Iterates
    <3>4. f[k] = step[f[k - 1]]
      BY <2>3 DEF Iterates
    <3> QED BY <3>3, <3>4
  <2> HIDE DEF step
  <2>5. f = [k \in 0..BatchSize |-> f[k]]
    BY <2>3 DEF Iterates
  <2>6. \A k \in 0..BatchSize : f[k] = IF k = 0 THEN {<< >>} ELSE Longer(f[k - 1], o)
    <3> TAKE k \in 0..BatchSize
    <3>1. k = 0 \/ k \in 1..BatchSize
      BY <2>2
    <3> QED BY <2>2, <2>4, <3>1
  <2>7. f = [k \in 0..BatchSize |-> IF k = 0 THEN {<< >>} ELSE Longer(f[k - 1], o)]
    BY <2>5, <2>6
  <2> QED BY <2>7
<1>2. \E f : Eq(f) /\ BatchesFrom(o) = Batches(f)
  BY <1>1 DEF BatchesFrom, Longer
<1>3. PICK f : Eq(f) /\ BatchesFrom(o) = Batches(f)
  BY <1>2
<1>4. /\ f[0] = {<< >>} /\ BatchSize \in Nat \ {0}
      /\ \A k \in 1..BatchSize : f[k] = Longer(f[k - 1], o)
  <2>1. BatchSize \in Nat \ {0}
    BY BatchAssumption
  <2>2. \A k \in 0..BatchSize : f[k] = IF k = 0 THEN {<< >>} ELSE Longer(f[k - 1], o)
    <3>1. f = [k \in 0..BatchSize |-> IF k = 0 THEN {<< >>} ELSE Longer(f[k - 1], o)]
      BY <1>3
    <3> HIDE DEF Batches, Eq
    <3> QED BY ONLY <3>1
  <2> HIDE DEF Batches, Eq
  <2>3. f[0] = {<< >>}
    <3>1. 0 \in 0..BatchSize
      BY <2>1
    <3> QED BY <2>2, <3>1
  <2>4. ASSUME NEW k \in 1..BatchSize
        PROVE  f[k] = Longer(f[k - 1], o)
    <3>1. k \in 0..BatchSize /\ k # 0
      BY <2>1
    <3> QED BY <2>2, <3>1
  <2> QED BY <2>1, <2>3, <2>4
<1> HIDE DEF Eq
<1> DEFINE Good(k) == \A s \in f[k] : Reads(s, o) /\ (k # 0 => s # << >>)
           T == {k \in Nat : k <= BatchSize => Good(k)}
<1>5. 0 \in T
  <2>1. << >> \in Pieces /\ DOMAIN << >> = {}
    BY DEF Pieces
  <2>2. Reads(<< >>, o)
    BY <2>1 DEF Reads, Joined
  <2> QED BY <1>4, <2>2
<1>6. ASSUME NEW k \in T
      PROVE  k + 1 \in T
  <2>1. SUFFICES ASSUME k + 1 <= BatchSize, NEW s \in f[k + 1]
                 PROVE  Reads(s, o) /\ s # << >>
    BY <1>6
  <2>2. k \in Nat /\ Good(k) /\ k + 1 \in 1..BatchSize /\ (k + 1) - 1 = k
    BY <1>4, <1>6, <2>1
  <2>3. PICK q \in f[k] : s \in ReadMore(q, o)
    BY <1>4, <2>1, <2>2 DEF Longer
  <2>4. q \in Pieces /\ Reads(q, o)
    BY <2>2, <2>3 DEF Reads
  <2> QED BY <2>3, <2>4, ReadMoreKeeps
<1>7. \A k \in Nat : k \in T
  <2> HIDE DEF T
  <2>1. T \in SUBSET Nat
    BY DEF T
  <2> QED BY <1>5, <1>6, <2>1, SetInduction
<1>8. ASSUME NEW k \in 0..BatchSize, NEW s \in f[k]
      PROVE  Reads(s, o) /\ (k # 0 => s # << >>)
  BY <1>4, <1>7, <1>8
<1>9. CASE r \in f[BatchSize]
  BY <1>4, <1>8, <1>9
<1>10. CASE r \notin f[BatchSize]
  <2>1. PICK k \in 0..BatchSize - 1 : r \in f[k]
    BY <1>3, <1>10
  <2>2. \E garbage \in GarbageLen : ~Readable(NextFrom(r, o), garbage)
    BY <1>3, <1>10
  <2>3. k \in 0..BatchSize
    BY <1>4, <2>1
  <2>4. Reads(r, o)
    BY <1>8, <2>1, <2>3
  <2> QED BY <2>2, <2>4 DEF NextFrom
<1> QED BY <1>9, <1>10

-----------------------------------------------------------------------------
(* Type correctness.                                                       *)

(* A step of one caller.                                                   *)
CallerStep(c) ==
  \/ \E len \in FrameLen : OpenForAppend(c, len)
  \/ \E o \in StartOffset : StartReplay(c, o)
  \/ LogStep(c)
  \/ TearFrame(c)
  \/ AbandonReplay(c)

(* A generator that yields has something to yield, and a frame that is     *)
(* about to be written has the length of one.                              *)
BatchReady == \A c \in Caller : phase[c] = "yielding" => batch[c] # << >>
FrameReady == \A c \in Caller : phase[c] = "opened" => frame[c].len \in FrameLen

LogTypeInv == LogTypeOK /\ BatchReady /\ FrameReady

(* The lengths of frames are natural numbers, no shorter than a header.    *)
LEMMA FrameLenType == FrameLen \subseteq Nat /\ \A len \in FrameLen : len >= HeaderSize /\ len >= 1
BY FrameAssumption, HeaderAssumption

(* The steps of an append keep the types,                                  *)
LEMMA AppendTypeOK ==
  ASSUME LogTypeInv, NEW c \in Caller,
         (\E len \in FrameLen : OpenForAppend(c, len)) \/ WriteFrame(c) \/ TearFrame(c)
           \/ AppendReturns(c)
  PROVE  LogTypeInv'
<1> USE DEF LogTypeInv, BatchReady, FrameReady, Goto, callVars, logHist, Phase
<1>1. ASSUME NEW len \in FrameLen, OpenForAppend(c, len)
      PROVE  LogTypeInv'
  <2>1. len \in Nat /\ Len(file) \in Nat
    BY FrameLenType DEF LogTypeOK
  <2>2. /\ phase' = [phase EXCEPT ![c] = "opened"] /\ frames' = frames + 1
        /\ frame' = [frame EXCEPT ![c] = [n |-> frames + 1, len |-> len]]
        /\ offset' = [offset EXCEPT ![c] = Len(file)]
        /\ UNCHANGED <<file, torn, batch, acked, start, yielded, ended>>
    BY <1>1 DEF OpenForAppend
  <2>3. LogTypeOK'
    BY <2>1, <2>2 DEF LogTypeOK
  <2>4. BatchReady' /\ FrameReady'
    BY <2>2 DEF LogTypeOK
  <2> QED BY <2>3, <2>4
<1>2. CASE WriteFrame(c)
  <2>1. frame[c].n \in Nat /\ frame[c].len \in Nat
    BY DEF LogTypeOK
  <2>2. file' \in Seq(Cell)
    BY <1>2, <2>1, FrameCells DEF WriteFrame, LogTypeOK
  <2> QED BY <1>2, <2>2 DEF WriteFrame, LogTypeOK
<1>3. CASE TearFrame(c)
  <2>1. frame[c].n \in Nat /\ frame[c].len \in Nat
    BY DEF LogTypeOK
  <2>2. PICK k \in 0..frame[c].len - 1 :
          file' = file \o SubSeq(Frame(frame[c].n, frame[c].len), 1, k)
    BY <1>3 DEF TearFrame
  <2>3. k \in 0..frame[c].len
    BY <2>1
  <2>4. file' \in Seq(Cell)
    BY <2>1, <2>2, <2>3, PartGrows DEF LogTypeOK
  <2> QED BY <1>3, <2>4 DEF TearFrame, LogTypeOK
<1>4. CASE AppendReturns(c)
  <2>1. [n |-> frame[c].n, len |-> frame[c].len, offset |-> offset[c]]
          \in [n : Nat, len : Nat, offset : Nat]
    BY DEF LogTypeOK
  <2> QED BY <1>4, <2>1 DEF AppendReturns, LogTypeOK
<1> QED BY <1>1, <1>2, <1>3, <1>4

(* and so do those of a replay.                                            *)
LEMMA ReplayTypeOK ==
  ASSUME LogTypeInv, NEW c \in Caller,
         (\E o \in StartOffset : StartReplay(c, o)) \/ ReadBatch(c) \/ SeekFails(c)
           \/ YieldFrame(c) \/ AbandonReplay(c)
  PROVE  LogTypeInv'
<1> USE DEF LogTypeInv, BatchReady, FrameReady, Goto, logHist, Phase
<1>1. ASSUME NEW o \in StartOffset, StartReplay(c, o)
      PROVE  LogTypeInv'
  <2>1. o \in Nat /\ Len(file) \in Nat
    BY OffsetAssumption DEF LogTypeOK
  <2> QED BY <1>1, <2>1 DEF StartReplay, LogTypeOK
<1>2. CASE ReadBatch(c)
  <2>1. PICK results \in BatchesFrom(offset[c]) :
          /\ batch' = [batch EXCEPT ![c] = results]
          /\ ended' = [ended EXCEPT ![c] = (results = << >>)]
          /\ phase' = [phase EXCEPT ![c] = IF results = << >> THEN "idle" ELSE "yielding"]
    BY <1>2 DEF ReadBatch
  <2>2. results \in Pieces
    BY BatchFacts DEF LogTypeOK, Reads
  <2> QED BY <1>2, <2>1, <2>2 DEF ReadBatch, LogTypeOK, Pieces
<1>3. CASE YieldFrame(c)
  <2>1. /\ batch[c] \in Pieces /\ batch[c] # << >>
        /\ yielded[c] \in Pieces
    BY <1>3 DEF YieldFrame, LogTypeOK, Pieces
  <2>2. /\ Head(batch[c]) \in [from : Nat, to : Nat]
        /\ Tail(batch[c]) \in Pieces /\ Len(Tail(batch[c])) = Len(batch[c]) - 1
    BY <2>1, HeadTailProperties DEF Pieces
  <2>3. Append(yielded[c], Head(batch[c])) \in Pieces
    BY <2>1, <2>2 DEF Pieces
  <2>4. Len(batch[c]) # 1 => Tail(batch[c]) # << >>
    <3>1. Len(batch[c]) \in Nat
      BY <2>1 DEF Pieces
    <3> DEFINE rest == Tail(batch[c])
    <3>2. Len(rest) = Len(batch[c]) - 1
      BY <2>2
    <3> HIDE DEF rest
    <3>3. rest = << >> => Len(rest) = 0
      OBVIOUS
    <3>4. Len(batch[c]) # 1 => rest # << >>
      BY <3>1, <3>2, <3>3
    <3> QED BY <3>4 DEF rest
  <2> QED BY <1>3, <2>2, <2>3, <2>4 DEF YieldFrame, LogTypeOK, Pieces
<1>4. CASE SeekFails(c) \/ AbandonReplay(c)
  <2>1. << >> \in Seq([from : Nat, to : Nat])
    OBVIOUS
  <2> QED BY <1>4, <2>1 DEF SeekFails, AbandonReplay, LogTypeOK
<1> QED BY <1>1, <1>2, <1>3, <1>4

(* One step of the log keeps the types.                                    *)
LEMMA NextLogTypeOK ==
  ASSUME LogTypeInv, [LogNext]_logVars
  PROVE  LogTypeInv'
<1>1. ASSUME NEW c \in Caller, CallerStep(c)
      PROVE  LogTypeInv'
  BY <1>1, AppendTypeOK, ReplayTypeOK DEF CallerStep, LogStep
<1>2. CASE UNCHANGED logVars
  BY <1>2 DEF LogTypeInv, LogTypeOK, BatchReady, FrameReady, logVars, callVars, logHist
<1> QED BY <1>1, <1>2 DEF LogNext, CallerStep

(* The log starts well typed.                                              *)
LEMMA InitLogTypeOK ==
  ASSUME LogInit
  PROVE  LogTypeInv
<1>1. << >> \in Seq(Cell) /\ << >> \in Seq([from : Nat, to : Nat])
  OBVIOUS
<1> QED BY <1>1 DEF LogInit, LogTypeInv, LogTypeOK, BatchReady, FrameReady, Phase

(* The types of the log hold in every state.                               *)
LEMMA LogTypeInvariant == LogSpec => []LogTypeInv
  BY InitLogTypeOK, NextLogTypeOK, PTL DEF LogSpec

(* Every variable of the log keeps its type; in particular a replay never  *)
(* takes a frame from an empty batch (broker/storage.py:79-133).           *)
THEOREM EventLogTypeOK == LogSpec => []LogTypeOK
<1>1. LogTypeInv => LogTypeOK
  BY DEF LogTypeInv
<1> QED BY <1>1, LogTypeInvariant, PTL

-----------------------------------------------------------------------------
(* What append() returns.                                                  *)

(* An append that is under way took an offset at which a frame begins or   *)
(* the file ends; once it has written, its frame lies there or after it.   *)
AtBoundary(o) == o <= Len(file) /\ IsBoundary(o)
StoredFrom(o, n, len) == \E p \in o..Len(file) : StoredAt(n, len, p)

AppendsAt ==
  \A c \in Caller :
    /\ phase[c] \in {"opened", "written"} => AtBoundary(offset[c])
    /\ phase[c] = "written" => StoredFrom(offset[c], frame[c].n, frame[c].len)

(* A file that only grows keeps every frame that a bookmark reaches.       *)
LEMMA GrowthKeepsBookmarks ==
  ASSUME file \in Seq(Cell), file' \in Seq(Cell), Grows, NEW o \in Nat
  PROVE  /\ AtBoundary(o) => AtBoundary(o)'
         /\ \A n, len \in Nat : StoredFrom(o, n, len) => StoredFrom(o, n, len)'
<1>1. AtBoundary(o) => AtBoundary(o)'
  BY GrowthKeeps DEF AtBoundary, Grows
<1>2. ASSUME NEW n \in Nat, NEW len \in Nat, StoredFrom(o, n, len)
      PROVE  StoredFrom(o, n, len)'
  <2>1. PICK p \in o..Len(file) : StoredAt(n, len, p)
    BY <1>2 DEF StoredFrom
  <2>2. p \in Nat /\ p \in o..Len(file')
    BY <2>1 DEF Grows
  <2>3. StoredAt(n, len, p)'
    BY <2>1, <2>2, GrowthKeeps
  <2> QED BY <2>2, <2>3 DEF StoredFrom
<1> QED BY <1>1, <1>2

(* No step of a caller takes anything from the file.                       *)
LEMMA CallerStepGrows ==
  ASSUME LogTypeInv, NEW c \in Caller, CallerStep(c)
  PROVE  Grows
<1>1. file \in Seq(Cell) /\ frame[c].n \in Nat /\ frame[c].len \in Nat
  BY DEF LogTypeInv, LogTypeOK
<1>2. CASE UNCHANGED file
  BY <1>1, <1>2, UnchangedGrows
<1>3. CASE WriteFrame(c)
  <2> DEFINE n == frame[c].n
             len == frame[c].len
  <2>1. SubSeq(Frame(n, len), 1, len) = Frame(n, len)
    <3> DEFINE whole == Frame(n, len)
    <3>1. whole \in Seq(Cell) /\ Len(whole) = len
      BY <1>1, FrameCells
    <3> HIDE DEF whole
    <3>2. SubSeq(whole, 1, len) = whole
      BY <3>1, SubSeqFull
    <3> QED BY <3>2 DEF whole
  <2>2. file' = file \o SubSeq(Frame(n, len), 1, len)
    BY <1>3, <2>1 DEF WriteFrame
  <2>3. len \in 0..len
    BY <1>1
  <2> QED BY <1>1, <2>2, <2>3, PartGrows
<1>4. CASE TearFrame(c)
  <2>1. PICK k \in 0..frame[c].len - 1 :
          file' = file \o SubSeq(Frame(frame[c].n, frame[c].len), 1, k)
    BY <1>4 DEF TearFrame
  <2>2. k \in 0..frame[c].len
    BY <1>1
  <2> QED BY <1>1, <2>1, <2>2, PartGrows
<1> QED BY <1>2, <1>3, <1>4
        DEF CallerStep, LogStep, OpenForAppend, StartReplay, AppendReturns, ReadBatch,
            SeekFails, YieldFrame, AbandonReplay

(* write() puts the whole frame at the end of the file.                    *)
LEMMA WriteStores ==
  ASSUME LogTypeInv, NEW c \in Caller, WriteFrame(c),
         NEW n \in Nat, NEW len \in Nat, NEW p \in Nat,
         n = frame[c].n, len = frame[c].len, p = Len(file)
  PROVE  /\ StoredAt(n, len, p)' /\ Len(file') = p + len
         /\ \A i \in 1..len : file'[p + i] = [frame |-> n, at |-> i, len |-> len]
<1> DEFINE whole == Frame(n, len)
<1>1. file \in Seq(Cell) /\ file' = file \o whole
  BY DEF LogTypeInv, LogTypeOK, WriteFrame
<1>2. /\ whole \in Seq(Cell) /\ Len(whole) = len
      /\ \A i \in 1..len : whole[i] = [frame |-> n, at |-> i, len |-> len]
  BY FrameCells
<1> HIDE DEF whole
<1>3. /\ Len(file') = p + len
      /\ \A i \in 1..len : file'[p + i] = whole[i]
      /\ file' \in Seq(Cell)
  <2>1. /\ file' \in Seq(Cell) /\ Len(file') = Len(file) + Len(whole)
        /\ \A i \in 1..Len(whole) : file'[Len(file) + i] = whole[i]
    BY <1>1, <1>2
  <2> QED BY <1>2, <2>1
<1>4. SubSeq(file', p + 1, p + len) = [i \in 1..len |-> file'[p + i]]
  BY <1>3
<1>5. SubSeq(file', p + 1, p + len) = Frame(n, len)
  BY <1>2, <1>3, <1>4 DEF Frame
<1>6. \A i \in 1..len : file'[p + i] = [frame |-> n, at |-> i, len |-> len]
  BY <1>2, <1>3
<1>7. p + len <= Len(file')
  BY <1>3
<1>8. StoredAt(n, len, p)'
  BY <1>5, <1>7 DEF StoredAt
<1> QED BY <1>3, <1>6, <1>8

(* The offsets of the appends under way stay right through a step.         *)
LEMMA AppendsAtKept ==
  ASSUME LogTypeInv, LogTypeInv', AppendsAt, NEW c \in Caller, CallerStep(c)
  PROVE  AppendsAt'
<1>1. Grows
  BY CallerStepGrows
<1>2. /\ file \in Seq(Cell) /\ file' \in Seq(Cell)
      /\ phase \in [Caller -> Phase] /\ frame \in [Caller -> [n : Nat, len : Nat]]
      /\ offset \in [Caller -> Nat]
  BY DEF LogTypeInv, LogTypeOK
<1>3. ASSUME NEW d \in Caller, phase'[d] \in {"opened", "written"}
      PROVE  /\ AtBoundary(offset[d])'
             /\ phase'[d] = "written" => StoredFrom(offset[d], frame[d].n, frame[d].len)'
  <2> DEFINE o == offset[d]
             n == frame[d].n
             len == frame[d].len
  <2>1. o \in Nat /\ n \in Nat /\ len \in Nat
    BY <1>2
  <2>2. CASE UNCHANGED <<phase[d], offset[d], frame[d]>>
    <3>1. PICK q \in Nat, m \in Nat, k \in Nat : q = offset[d] /\ m = frame[d].n /\ k = frame[d].len
      BY <2>1
    <3>2. q = offset'[d] /\ m = frame'[d].n /\ k = frame'[d].len
      BY <2>2, <3>1
    <3>3. AtBoundary(q) /\ (phase[d] = "written" => StoredFrom(q, m, k))
      BY <1>3, <2>2, <3>1 DEF AppendsAt
    <3>4. AtBoundary(q)' /\ (phase'[d] = "written" => StoredFrom(q, m, k)')
      BY <1>1, <1>2, <2>2, <3>3, GrowthKeepsBookmarks
    <3> QED BY <3>2, <3>4
  <2>3. CASE d = c /\ \E k \in FrameLen : OpenForAppend(c, k)
    <3>1. /\ UNCHANGED file /\ offset'[d] = Len(file')
          /\ phase'[d] = "opened" /\ Len(file') \in Nat
      BY <1>2, <2>3 DEF OpenForAppend, Goto
    <3> QED BY <3>1 DEF AtBoundary, IsBoundary
  <2>4. CASE d = c /\ WriteFrame(c)
    <3>1. PICK q \in Nat, m \in Nat, k \in Nat, p \in Nat :
            q = offset[d] /\ m = frame[d].n /\ k = frame[d].len /\ p = Len(file)
      <4>1. Len(file) \in Nat
        BY <1>2
      <4> QED BY <2>1, <4>1
    <3>2. q = offset'[d] /\ m = frame'[d].n /\ k = frame'[d].len
      BY <2>4, <3>1 DEF WriteFrame
    <3>3. phase[d] = "opened" /\ AtBoundary(q)
      BY <2>4, <3>1 DEF WriteFrame, AppendsAt
    <3>4. AtBoundary(q)'
      BY <1>1, <1>2, <3>3, GrowthKeepsBookmarks
    <3>5. StoredAt(m, k, p)' /\ Len(file') = p + k
      BY <2>4, <3>1, WriteStores
    <3>6. StoredFrom(q, m, k)'
      BY <3>1, <3>3, <3>5, <1>2 DEF StoredFrom, AtBoundary
    <3> QED BY <3>2, <3>4, <3>6
  <2>5. \/ UNCHANGED <<phase[d], offset[d], frame[d]>>
        \/ d = c /\ ((\E k \in FrameLen : OpenForAppend(c, k)) \/ WriteFrame(c))
    BY <1>2, <1>3 DEF CallerStep, LogStep, OpenForAppend, WriteFrame, TearFrame,
       AppendReturns, StartReplay, ReadBatch, SeekFails, YieldFrame, AbandonReplay, Goto
  <2> QED BY <2>2, <2>3, <2>4, <2>5
<1> QED BY <1>3 DEF AppendsAt

BookmarkInv ==
  /\ AppendsAt
  /\ \A a \in acked : AtBoundary(a.offset) /\ StoredFrom(a.offset, a.n, a.len)

(* One step keeps every bookmark reaching its frame.                       *)
LEMMA NextBookmark ==
  ASSUME LogTypeInv, LogTypeInv', BookmarkInv, [LogNext]_logVars
  PROVE  BookmarkInv'
<1>1. ASSUME NEW c \in Caller, CallerStep(c)
      PROVE  BookmarkInv'
  <2>1. AppendsAt'
    BY <1>1, AppendsAtKept DEF BookmarkInv
  <2>2. ASSUME NEW a \in acked'
        PROVE  AtBoundary(a.offset)' /\ StoredFrom(a.offset, a.n, a.len)'
    <3>1. a.offset \in Nat /\ a.n \in Nat /\ a.len \in Nat
      BY <2>2 DEF LogTypeInv, LogTypeOK
    <3>2. AtBoundary(a.offset) /\ StoredFrom(a.offset, a.n, a.len)
      <4>1. CASE a \in acked
        BY <4>1 DEF BookmarkInv
      <4>2. CASE a \notin acked
        <5>1. /\ phase[c] = "written"
              /\ a = [n |-> frame[c].n, len |-> frame[c].len, offset |-> offset[c]]
          BY <1>1, <2>2, <4>2
             DEF CallerStep, LogStep, OpenForAppend, WriteFrame, TearFrame, AppendReturns,
                 StartReplay, ReadBatch, SeekFails, YieldFrame, AbandonReplay, logHist
        <5> QED BY <5>1 DEF BookmarkInv, AppendsAt
      <4> QED BY <4>1, <4>2
    <3>3. Grows
      BY <1>1, CallerStepGrows
    <3> QED BY <3>1, <3>2, <3>3, GrowthKeepsBookmarks DEF LogTypeInv, LogTypeOK
  <2> QED BY <2>1, <2>2 DEF BookmarkInv
<1>2. CASE UNCHANGED logVars
  BY <1>2 DEF BookmarkInv, AppendsAt, AtBoundary, StoredFrom, IsBoundary, StoredAt,
              logVars, callVars, logHist
<1> QED BY <1>1, <1>2 DEF LogNext, CallerStep

(* What append() returned is good to replay from for ever after, whatever  *)
(* other threads appended between tell() and write(), and whatever writes  *)
(* were cut short (broker/storage.py:50-77).                               *)
THEOREM BookmarksReach == LogSpec => []BookmarkReachesFrame
<1>1. LogInit => BookmarkInv
  BY DEF LogInit, BookmarkInv, AppendsAt
<1>2. BookmarkInv => BookmarkReachesFrame
  BY DEF BookmarkInv, BookmarkReachesFrame, AtBoundary, StoredFrom
<1> QED BY <1>1, <1>2, LogTypeInvariant, NextBookmark, PTL DEF LogSpec

-----------------------------------------------------------------------------
(* Where a replay stands.                                                  *)

(* What a replay has yielded is one stretch of the file; the generator     *)
(* goes on where it ends, and so does the batch it holds.                  *)
ReplayAt(c) ==
  /\ Joined(yielded[c], start[c].at)
  /\ phase[c] \in {"reading", "yielding"} =>
       offset[c] = NextFrom(yielded[c], start[c].at) /\ ~ended[c]
  /\ phase[c] = "yielding" => Joined(batch[c], offset[c])

ReplayInv == \A c \in Caller : ReplayAt(c)

(* The last element of a sequence to which one was appended.               *)
LEMMA AppendedLast ==
  ASSUME NEW S, NEW y \in Seq(S), NEW h \in S
  PROVE  Append(y, h)[Len(Append(y, h))] = h /\ Append(y, h) # << >>
<1>1. /\ Len(y) \in Nat /\ Len(Append(y, h)) = Len(y) + 1
      /\ Append(y, h)[Len(y) + 1] = h
  BY AppendProperties, LenProperties
<1>2. Len(<< >>) = 0
  OBVIOUS
<1> QED BY <1>1, <1>2

(* The elements of a sequence behind its first.                            *)
LEMMA TailElements ==
  ASSUME NEW S, NEW b \in Seq(S), b # << >>
  PROVE  /\ Len(Tail(b)) = Len(b) - 1 /\ DOMAIN Tail(b) = 1..Len(Tail(b))
         /\ \A i \in 1..Len(Tail(b)) : Tail(b)[i] = b[i + 1]
BY HeadTailProperties, LenProperties

(* Moving the head of a batch to what was yielded keeps both joined.       *)
LEMMA YieldJoined ==
  ASSUME NEW y \in Pieces, NEW b \in Pieces, b # << >>, NEW first \in Nat,
         Joined(y, first), Joined(b, NextFrom(y, first))
  PROVE  /\ Joined(Append(y, Head(b)), first)
         /\ NextFrom(Append(y, Head(b)), first) = Head(b).to
         /\ Joined(Tail(b), Head(b).to)
<1>1. /\ Head(b) = b[1] /\ 1 \in DOMAIN b /\ b[1] \in [from : Nat, to : Nat]
      /\ Len(b) \in Nat \ {0}
  <2>1. b \in Seq([from : Nat, to : Nat])
    BY DEF Pieces
  <2>2. /\ Len(b) \in Nat \ {0} /\ Head(b) = b[1]
        /\ b[1] \in [from : Nat, to : Nat]
    BY <2>1, LastElement
  <2> QED BY <2>1, <2>2
<1>2. b[1].from = NextFrom(y, first) /\ b[1].to \in Nat
  BY <1>1 DEF Joined
<1>3. Head(b) = [from |-> NextFrom(y, first), to |-> b[1].to]
  BY <1>1, <1>2
<1>4. Joined(Append(y, Head(b)), first)
  BY <1>2, <1>3, JoinedAppend
<1>5. NextFrom(Append(y, Head(b)), first) = Head(b).to
  <2> DEFINE z == Append(y, Head(b))
  <2>1. Head(b) \in [from : Nat, to : Nat]
    BY <1>1
  <2>2. z[Len(z)] = Head(b) /\ z # << >>
    BY <2>1, AppendedLast DEF Pieces
  <2> HIDE DEF z
  <2>3. NextFrom(z, first) = Head(b).to
    BY <2>2 DEF NextFrom
  <2> QED BY <2>3 DEF z
<1>6. Joined(Tail(b), Head(b).to)
  <2>1. /\ Len(Tail(b)) = Len(b) - 1 /\ DOMAIN Tail(b) = 1..Len(Tail(b))
        /\ \A i \in 1..Len(Tail(b)) : Tail(b)[i] = b[i + 1]
    BY TailElements DEF Pieces
  <2>2. ASSUME NEW i \in DOMAIN Tail(b)
        PROVE  Tail(b)[i].from = IF i = 1 THEN Head(b).to ELSE Tail(b)[i - 1].to
    <3>1. i + 1 \in DOMAIN b /\ i + 1 # 1 /\ (i + 1) - 1 = i /\ i \in Nat
      BY <1>1, <2>1 DEF Pieces
    <3>2. b[i + 1].from = b[i].to
      BY <3>1 DEF Joined
    <3>3. ASSUME i # 1
          PROVE  Tail(b)[i - 1] = b[i]
      <4>1. i - 1 \in 1..Len(Tail(b)) /\ (i - 1) + 1 = i
        BY <2>1, <3>1, <3>3
      <4> QED BY <2>1, <4>1
    <3> QED BY <1>1, <2>1, <3>2, <3>3
  <2> QED BY <2>2 DEF Joined
<1> QED BY <1>4, <1>5, <1>6

(* Two lists of pieces that meet make one.                                 *)
LEMMA ConcatJoined ==
  ASSUME NEW y \in Pieces, NEW b \in Pieces, NEW first \in Nat,
         Joined(y, first), Joined(b, NextFrom(y, first))
  PROVE  Joined(y \o b, first)
<1> DEFINE z == y \o b
<1>1. /\ Len(y) \in Nat /\ Len(b) \in Nat /\ DOMAIN y = 1..Len(y) /\ DOMAIN b = 1..Len(b)
      /\ DOMAIN z = 1..Len(y) + Len(b)
      /\ \A i \in 1..Len(y) : z[i] = y[i]
      /\ \A i \in 1..Len(b) : z[Len(y) + i] = b[i]
  BY DEF Pieces
<1>2. Len(y) = 0 => NextFrom(y, first) = first
  BY EmptySeq DEF NextFrom, Pieces
<1>3. Len(y) # 0 => NextFrom(y, first) = y[Len(y)].to
  BY DEF NextFrom
<1>4. ASSUME NEW i \in DOMAIN z
      PROVE  z[i].from = IF i = 1 THEN first ELSE z[i - 1].to
  <2>1. CASE i \in 1..Len(y)
    BY <1>1, <2>1 DEF Joined
  <2>2. CASE i \notin 1..Len(y)
    <3>1. PICK j \in 1..Len(b) : i = Len(y) + j
      <4>1. i - Len(y) \in 1..Len(b) /\ i = Len(y) + (i - Len(y))
        BY <1>1, <2>2
      <4> QED BY <4>1
    <3>2. z[i] = b[j] /\ b[j].from = IF j = 1 THEN NextFrom(y, first) ELSE b[j - 1].to
      BY <1>1, <3>1 DEF Joined
    <3>3. CASE j = 1
      BY <1>1, <1>2, <1>3, <3>1, <3>2, <3>3
    <3>4. CASE j # 1
      <4>1. j - 1 \in 1..Len(b) /\ i - 1 = Len(y) + (j - 1) /\ i # 1
        BY <1>1, <3>1, <3>4
      <4>2. z[i - 1] = b[j - 1]
        BY <1>1, <4>1
      <4> QED BY <3>2, <3>4, <4>1, <4>2
    <3> QED BY <3>3, <3>4
  <2> QED BY <2>1, <2>2
<1> HIDE DEF z
<1>5. Joined(z, first)
  BY <1>4 DEF Joined
<1> QED BY <1>5 DEF z

(* A step of any caller keeps what every replay yielded joined.            *)
LEMMA ReplayKept ==
  ASSUME LogTypeInv, ReplayInv, NEW c \in Caller, CallerStep(c)
  PROVE  ReplayInv'
<1>1. /\ phase \in [Caller -> Phase] /\ offset \in [Caller -> Nat]
      /\ batch \in [Caller -> Pieces] /\ yielded \in [Caller -> Pieces]
      /\ start \in [Caller -> [at : Nat, size : Nat]]
      /\ file \in Seq(Cell) /\ ended \in [Caller -> BOOLEAN]
  BY DEF LogTypeInv, LogTypeOK, Pieces
<1>2. \A d \in Caller \ {c} :
        UNCHANGED <<phase[d], offset[d], batch[d], yielded[d], start[d], ended[d]>>
  BY <1>1 DEF CallerStep, LogStep, OpenForAppend, WriteFrame, TearFrame, AppendReturns,
     StartReplay, ReadBatch, SeekFails, YieldFrame, AbandonReplay, logHist, Goto
<1>3. \A d \in Caller \ {c} : ReplayAt(d)'
  BY <1>2 DEF ReplayInv, ReplayAt
<1>4. ReplayAt(c)'
  <2>1. CASE phase'[c] \notin {"reading", "yielding"} /\ UNCHANGED <<yielded, start>>
    BY <2>1 DEF ReplayInv, ReplayAt
  <2>2. CASE \E o \in StartOffset : StartReplay(c, o)
    <3>1. PICK o \in StartOffset : StartReplay(c, o)
      BY <2>2
    <3>2. /\ yielded'[c] = << >> /\ start'[c].at = o /\ offset'[c] = o
          /\ phase'[c] = "reading" /\ ~ended'[c]
      BY <1>1, <3>1 DEF StartReplay, Goto
    <3>3. DOMAIN << >> = {}
      OBVIOUS
    <3> QED BY <3>2, <3>3 DEF ReplayAt, Joined, NextFrom
  <2>3. CASE ReadBatch(c)
    <3>1. PICK results \in BatchesFrom(offset[c]) :
            /\ batch' = [batch EXCEPT ![c] = results]
            /\ ended' = [ended EXCEPT ![c] = (results = << >>)]
            /\ Goto(c, IF results = << >> THEN "idle" ELSE "yielding")
      BY <2>3 DEF ReadBatch
    <3>2. Joined(results, offset[c])
      BY <1>1, BatchFacts DEF Reads
    <3>3. /\ batch'[c] = results
          /\ UNCHANGED <<yielded, start, offset>> /\ phase[c] = "reading"
          /\ phase'[c] \in {"reading", "yielding"} => ~ended'[c]
      BY <1>1, <2>3, <3>1 DEF ReadBatch, Goto
    <3> QED BY <3>2, <3>3 DEF ReplayInv, ReplayAt
  <2>4. CASE YieldFrame(c)
    <3> DEFINE y == yielded[c]
               b == batch[c]
               first == start[c].at
    <3>1. /\ y \in Pieces /\ b \in Pieces /\ first \in Nat
          /\ phase[c] = "yielding" /\ b # << >>
      BY <1>1, <2>4 DEF YieldFrame, LogTypeInv, BatchReady
    <3>2. Joined(y, first) /\ Joined(b, NextFrom(y, first))
      BY <3>1 DEF ReplayInv, ReplayAt
    <3>3. /\ yielded'[c] = Append(y, Head(b)) /\ batch'[c] = Tail(b)
          /\ offset'[c] = Head(b).to /\ start'[c].at = first /\ ~ended'[c]
      BY <1>1, <2>4 DEF YieldFrame, ReplayInv, ReplayAt
    <3> HIDE DEF y, b, first
    <3>4. /\ Joined(Append(y, Head(b)), first)
          /\ NextFrom(Append(y, Head(b)), first) = Head(b).to
          /\ Joined(Tail(b), Head(b).to)
      BY <3>1, <3>2, YieldJoined
    <3> QED BY <3>3, <3>4 DEF ReplayAt
  <2> QED BY <1>1, <2>1, <2>2, <2>3, <2>4
          DEF CallerStep, LogStep, OpenForAppend, WriteFrame, TearFrame, AppendReturns,
              SeekFails, AbandonReplay, logHist, Goto
<1> QED BY <1>3, <1>4 DEF ReplayInv

(* One step keeps what every replay yielded contiguous.                    *)
LEMMA NextReplay ==
  ASSUME LogTypeInv, ReplayInv, [LogNext]_logVars
  PROVE  ReplayInv'
<1>1. CASE UNCHANGED logVars
  BY <1>1 DEF ReplayInv, ReplayAt, logVars, callVars, logHist
<1> QED BY <1>1, ReplayKept DEF LogNext, CallerStep

(* No replay has yielded anything initially.                               *)
LEMMA InitReplay ==
  ASSUME LogInit
  PROVE  ReplayInv
<1>1. DOMAIN << >> = {}
  OBVIOUS
<1> QED BY <1>1 DEF LogInit, ReplayInv, ReplayAt, Joined

(* A replay never skips or repeats a byte, between two frames or between   *)
(* two batches, and whatever is appended or cut short in the meantime      *)
(* (broker/storage.py:79-133).                                             *)
THEOREM NoByteSkipped == LogSpec => []ReplayContiguous
<1>1. ASSUME LogTypeInv, ReplayInv
      PROVE  ReplayContiguous
  <2>1. ASSUME NEW c \in Caller
        PROVE  Joined(IF phase[c] = "yielding" THEN yielded[c] \o batch[c] ELSE yielded[c],
                      start[c].at)
    <3>1. /\ yielded[c] \in Pieces /\ batch[c] \in Pieces /\ start[c].at \in Nat
      BY <1>1 DEF LogTypeInv, LogTypeOK, Pieces
    <3>2. CASE phase[c] = "yielding"
      BY <1>1, <3>1, <3>2, ConcatJoined DEF ReplayInv, ReplayAt
    <3>3. CASE phase[c] # "yielding"
      BY <1>1, <3>3 DEF ReplayInv, ReplayAt
    <3> QED BY <3>2, <3>3
  <2> QED BY <2>1 DEF ReplayContiguous, Joined
<1> QED BY <1>1, InitReplay, NextReplay, LogTypeInvariant, PTL DEF LogSpec

-----------------------------------------------------------------------------
(* Complete replays.                                                       *)

(* A file to which only whole frames were written: every cell lies in a    *)
(* stored frame.                                                           *)
Tiled ==
  \A i \in 1..Len(file) :
    /\ file[i].at \in 1..file[i].len /\ file[i].at <= i
    /\ file[i].len >= HeaderSize
    /\ StoredAt(file[i].frame, file[i].len, i - file[i].at)

(* In such a file the frame that begins at a boundary is read whole, and   *)
(* ends at another.                                                        *)
LEMMA TiledFrame ==
  ASSUME file \in Seq(Cell), Tiled, NEW o \in Nat, o < Len(file), IsBoundary(o)
  PROVE  LET n   == file[o + 1].frame
             len == file[o + 1].len
         IN  /\ n \in Nat /\ len \in Nat \ {0} /\ StoredAt(n, len, o)
             /\ o + len <= Len(file) /\ IsBoundary(o + len)
             /\ \A garbage \in Nat :
                  Readable(o, garbage) /\ FrameEnd(o, garbage) = o + len
<1> DEFINE n   == file[o + 1].frame
           len == file[o + 1].len
<1>0. HeaderSize \in Nat \ {0} /\ Len(file) \in Nat
  BY HeaderAssumption
<1>1. o + 1 \in 1..Len(file) /\ file[o + 1] \in Cell /\ file[o + 1].at = 1
  BY DEF IsBoundary
<1>2. n \in Nat /\ len \in Nat \ {0} /\ len >= HeaderSize /\ StoredAt(n, len, o)
  <2>1. n \in Nat /\ len \in Nat
    BY <1>1 DEF Cell
  <2>2. (o + 1) - file[o + 1].at = o
    BY <1>1
  <2> QED BY <1>0, <1>1, <2>1, <2>2 DEF Tiled
<1>3. /\ o + len <= Len(file)
      /\ \A i \in 1..len : file[o + i] = [frame |-> n, at |-> i, len |-> len]
  BY <1>2, StoredCells
<1> HIDE DEF n, len
<1>4. IsBoundary(o + len)
  <2>1. SUFFICES ASSUME o + len < Len(file) PROVE file[o + len + 1].at = 1
    BY <1>2, <1>3 DEF IsBoundary
  <2> DEFINE e == o + len
             m == file[e + 1].frame
             k == file[e + 1].len
             at == file[e + 1].at
  <2>2. e \in Nat /\ e + 1 \in 1..Len(file) /\ file[e + 1] \in Cell
    BY <1>2, <2>1
  <2>3. m \in Nat /\ k \in Nat /\ at \in 1..k /\ at <= e + 1 /\ StoredAt(m, k, (e + 1) - at)
    BY <2>2 DEF Tiled, Cell
  <2>4. (e + 1) - at \in Nat
    BY <2>2, <2>3
  <2>5. \A i \in 1..k : file[((e + 1) - at) + i] = [frame |-> m, at |-> i, len |-> k]
    BY <2>3, <2>4, StoredCells
  <2>6. file[e] = [frame |-> n, at |-> len, len |-> len]
    BY <1>2, <1>3
  <2> HIDE DEF m, k, at, e
  <2>7. ASSUME at # 1
        PROVE  FALSE
    <3>1. at - 1 \in 1..k /\ ((e + 1) - at) + (at - 1) = e
      BY <2>2, <2>3, <2>7
    <3>2. file[e] = [frame |-> m, at |-> at - 1, len |-> k]
      BY <2>5, <3>1
    <3>3. k = len /\ at - 1 = len
      BY <2>6, <3>2
    <3> QED BY <1>2, <2>3, <3>3
  <2> QED BY <2>7 DEF at, e
<1>5. IsHeader(o)
  <2>1. \A i \in 1..HeaderSize : i \in 1..len
    BY <1>0, <1>2
  <2>2. 1 \in 1..len
    BY <1>2
  <2>3. ASSUME NEW i \in 1..HeaderSize
        PROVE  file[o + i].at = i /\ file[o + i].frame = file[o + 1].frame
    <3>1. file[o + i] = [frame |-> n, at |-> i, len |-> len]
      BY <1>3, <2>1
    <3>2. file[o + 1] = [frame |-> n, at |-> 1, len |-> len]
      BY <1>3, <2>2
    <3> QED BY <3>1, <3>2
  <2> QED BY <2>3 DEF IsHeader
<1>6. ASSUME NEW garbage \in Nat
      PROVE  Readable(o, garbage) /\ FrameEnd(o, garbage) = o + len
  BY <1>0, <1>2, <1>3, <1>5 DEF Readable, FrameEnd, len
<1> QED BY <1>2, <1>3, <1>4, <1>6 DEF n, len

(* A piece of a replay that is a whole stored frame.                       *)
Whole(y) ==
  /\ y.from < y.to /\ y.to <= Len(file)
  /\ IsBoundary(y.from) /\ IsBoundary(y.to)
  /\ WholeFrame(y)

(* In a file of whole frames a batch that starts at a boundary holds       *)
(* whole frames.                                                           *)
LEMMA BatchWhole ==
  ASSUME file \in Seq(Cell), Tiled, NEW o \in Nat, AtBoundary(o),
         NEW s, Reads(s, o)
  PROVE  \A i \in DOMAIN s : Whole(s[i])
<1>1. s \in Pieces /\ Len(s) \in Nat /\ DOMAIN s = 1..Len(s) /\ Len(file) \in Nat
  BY DEF Reads, Pieces
<1>2. ASSUME NEW i \in DOMAIN s, AtBoundary(s[i].from)
      PROVE  Whole(s[i])
  <2> DEFINE p == s[i].from
  <2>1. s[i] \in [from : Nat, to : Nat]
    BY <1>1, ElementOfSeq DEF Pieces
  <2>2. PICK garbage \in Nat :
          /\ p \in Nat /\ p <= Len(file) /\ IsBoundary(p) /\ Readable(p, garbage)
          /\ s[i].to = FrameEnd(p, garbage)
    BY <1>2, <2>1, OffsetAssumption DEF Reads, AtBoundary
  <2>3. p < Len(file)
    BY <2>2, <1>1, HeaderAssumption DEF Readable
  <2>4. LET n   == file[p + 1].frame
            len == file[p + 1].len
        IN  /\ n \in Nat /\ len \in Nat \ {0} /\ StoredAt(n, len, p)
            /\ p + len <= Len(file) /\ IsBoundary(p + len)
            /\ FrameEnd(p, garbage) = p + len
    <3> HIDE DEF p
    <3> QED BY <2>2, <2>3, TiledFrame
  <2>5. s[i].to - p = file[p + 1].len
    BY <2>2, <2>4
  <2> QED BY <2>1, <2>2, <2>4, <2>5 DEF Whole, WholeFrame
<1> DEFINE T == {k \in Nat : k + 1 \in DOMAIN s => Whole(s[k + 1])}
<1>3. 0 \in T
  <2>1. SUFFICES ASSUME 1 \in DOMAIN s PROVE Whole(s[1])
    OBVIOUS
  <2>2. s[1].from = o
    BY <2>1 DEF Reads, Joined
  <2> QED BY <1>2, <2>1, <2>2
<1>4. ASSUME NEW k \in T
      PROVE  k + 1 \in T
  <2>1. SUFFICES ASSUME k + 2 \in DOMAIN s PROVE Whole(s[k + 2])
    BY <1>4
  <2>2. k + 1 \in DOMAIN s /\ k + 2 # 1 /\ (k + 2) - 1 = k + 1
    BY <1>1, <1>4, <2>1
  <2>3. s[k + 2].from = s[k + 1].to
    BY <2>1, <2>2 DEF Reads, Joined
  <2>4. AtBoundary(s[k + 1].to)
    BY <1>4, <2>2 DEF Whole, AtBoundary
  <2> QED BY <1>2, <2>1, <2>3, <2>4
<1>5. \A k \in Nat : k \in T
  <2> HIDE DEF T
  <2>1. T \in SUBSET Nat
    BY DEF T
  <2> QED BY <1>3, <1>4, <2>1, SetInduction
<1>6. ASSUME NEW i \in DOMAIN s
      PROVE  Whole(s[i])
  <2>1. i - 1 \in Nat /\ (i - 1) + 1 = i
    BY <1>1
  <2>2. i - 1 \in T
    BY <1>5, <2>1
  <2> QED BY <2>1, <2>2
<1> QED BY <1>6

(* What is stored, tiled or replayed whole stays so as the file grows.     *)
LEMMA TiledWritten ==
  ASSUME LogTypeInv, LogTypeInv', Tiled, NEW c \in Caller, WriteFrame(c)
  PROVE  Tiled'
<1>1. /\ file \in Seq(Cell) /\ file' \in Seq(Cell) /\ Grows
      /\ phase[c] = "opened" /\ frame \in [Caller -> [n : Nat, len : Nat]]
  BY CallerStepGrows DEF LogTypeInv, LogTypeOK, WriteFrame, CallerStep, LogStep
<1>2. PICK n \in Nat, len \in Nat, p \in Nat :
        n = frame[c].n /\ len = frame[c].len /\ p = Len(file)
  BY <1>1
<1>3. len >= HeaderSize /\ len >= 1 /\ HeaderSize \in Nat
  BY <1>1, <1>2, FrameLenType, HeaderAssumption DEF LogTypeInv, FrameReady
<1>4. StoredAt(n, len, p)' /\ Len(file') = p + len
  BY <1>2, WriteStores
<1>5. \A i \in 1..len : file'[p + i] = [frame |-> n, at |-> i, len |-> len]
  BY <1>2, WriteStores
<1>6. ASSUME NEW i \in 1..Len(file')
      PROVE  /\ file'[i].at \in 1..file'[i].len /\ file'[i].at <= i
             /\ file'[i].len >= HeaderSize
             /\ StoredAt(file[i].frame, file[i].len, i - file[i].at)'
  <2>1. CASE i \in 1..Len(file)
    <3>1. PICK m \in Nat, k \in Nat, at \in Nat : file[i] = [frame |-> m, at |-> at, len |-> k]
      <4>1. file[i] \in Cell
        BY <1>1, <2>1
      <4> QED BY <4>1 DEF Cell
    <3>2. PICK q \in Nat : q = i - at /\ StoredAt(m, k, q)
      <4>1. i - at \in Nat /\ StoredAt(m, k, i - at)
        BY <2>1, <3>1 DEF Tiled
      <4> QED BY <4>1
    <3>3. StoredAt(m, k, q)'
      BY <1>1, <3>2, GrowthKeeps
    <3>4. file'[i] = file[i]
      BY <1>1, <2>1 DEF Grows
    <3>5. at \in 1..k /\ at <= i /\ k >= HeaderSize
      BY <2>1, <3>1 DEF Tiled
    <3> QED BY <3>1, <3>2, <3>3, <3>4, <3>5
  <2>2. CASE i \notin 1..Len(file)
    <3>1. i - p \in 1..len /\ p + (i - p) = i /\ i \in Nat
      BY <1>2, <1>4, <2>2
    <3>2. file'[i] = [frame |-> n, at |-> i - p, len |-> len]
      BY <1>5, <3>1
    <3>3. i - (i - p) = p
      BY <3>1
    <3> QED BY <1>3, <1>4, <3>1, <3>2, <3>3
  <2> QED BY <2>1, <2>2
<1> QED BY <1>6 DEF Tiled

(* A frame read whole stays whole when the file grows.                     *)
LEMMA WholeKept ==
  ASSUME file \in Seq(Cell), file' \in Seq(Cell), Grows,
         NEW y \in [from : Nat, to : Nat], Whole(y)
  PROVE  Whole(y)'
<1>1. y.from \in Nat /\ y.to \in Nat /\ y.from + 1 \in 1..Len(file)
      /\ y.to - y.from \in Nat
  BY DEF Whole
<1>2. PICK n \in Nat, len \in Nat : n = file[y.from + 1].frame /\ len = y.to - y.from
  <2>1. file[y.from + 1] \in Cell
    BY <1>1
  <2> QED BY <1>1, <2>1 DEF Cell
<1>3. StoredAt(n, len, y.from)
  BY <1>2 DEF Whole, WholeFrame
<1>4. StoredAt(n, len, y.from)'
  BY <1>1, <1>3, GrowthKeeps
<1>5. n = file'[y.from + 1].frame
  BY <1>1, <1>2 DEF Grows
<1>6. IsBoundary(y.from)' /\ IsBoundary(y.to)'
  BY <1>1, GrowthKeeps DEF Whole
<1>7. y.to <= Len(file')
  BY <1>1 DEF Whole, Grows
<1> QED BY <1>2, <1>4, <1>5, <1>6, <1>7 DEF Whole, WholeFrame

(* A replay that goes on or has come to its end is about a part of the     *)
(* file that is there; if it began at a frame, everything it has read is   *)
(* whole frames, it stands at a frame, and it ends at the end of the file. *)
Live(c) == phase[c] \in {"reading", "yielding"} \/ ended[c]

CompleteAt(c) ==
  /\ start[c].size <= Len(file)
  /\ start[c].at <= start[c].size /\ IsBoundary(start[c].at) =>
       /\ \A i \in DOMAIN yielded[c] : Whole(yielded[c][i])
       /\ phase[c] = "yielding" => \A i \in DOMAIN batch[c] : Whole(batch[c][i])
       /\ phase[c] \in {"reading", "yielding"} => AtBoundary(offset[c])
       /\ ended[c] => NextFrom(yielded[c], start[c].at) >= start[c].size

CompleteInv == torn = 0 => Tiled /\ \A c \in Caller : Live(c) => CompleteAt(c)

(* What a caller does not touch stays complete while the file grows.       *)
LEMMA CompleteGrows ==
  ASSUME LogTypeInv, LogTypeInv', Grows, NEW c \in Caller, CompleteAt(c),
         phase'[c] \in {"reading", "yielding"} => phase'[c] = phase[c],
         UNCHANGED <<yielded[c], start[c], ended[c]>>,
         phase'[c] \in {"reading", "yielding"} => UNCHANGED <<offset[c], batch[c]>>
  PROVE  CompleteAt(c)'
<1>1. /\ file \in Seq(Cell) /\ file' \in Seq(Cell)
      /\ start[c].at \in Nat /\ start[c].size \in Nat /\ offset[c] \in Nat
      /\ yielded[c] \in Pieces /\ batch[c] \in Pieces
  BY DEF LogTypeInv, LogTypeOK, Pieces
<1>2. start'[c].size <= Len(file')
  BY <1>1 DEF CompleteAt, Grows
<1>3. SUFFICES ASSUME start'[c].at <= start'[c].size, IsBoundary(start[c].at)'
               PROVE  /\ \A i \in DOMAIN yielded'[c] : Whole(yielded[c][i])'
                      /\ phase'[c] = "yielding" =>
                           \A i \in DOMAIN batch'[c] : Whole(batch[c][i])'
                      /\ phase'[c] \in {"reading", "yielding"} => AtBoundary(offset[c])'
                      /\ ended'[c] => NextFrom(yielded[c], start[c].at)' >= start'[c].size
  BY <1>2 DEF CompleteAt
<1>4. PICK a \in Nat : a = start[c].at
  BY <1>1
<1>5. a <= Len(file) /\ IsBoundary(a)'
  BY <1>1, <1>3, <1>4 DEF CompleteAt
<1>6. IsBoundary(a)
  <2>1. CASE a = Len(file)
    BY <2>1 DEF IsBoundary
  <2>2. CASE a # Len(file)
    <3>1. a + 1 \in 1..Len(file) /\ a < Len(file')
      BY <1>1, <1>5, <2>2 DEF Grows
    <3>2. file'[a + 1] = file[a + 1]
      BY <3>1 DEF Grows
    <3> QED BY <1>1, <1>5, <2>2, <3>1, <3>2 DEF IsBoundary
  <2> QED BY <2>1, <2>2
<1>7. /\ \A i \in DOMAIN yielded[c] : Whole(yielded[c][i])
      /\ phase[c] = "yielding" => \A i \in DOMAIN batch[c] : Whole(batch[c][i])
      /\ phase[c] \in {"reading", "yielding"} => AtBoundary(offset[c])
      /\ ended[c] => NextFrom(yielded[c], start[c].at) >= start[c].size
  BY <1>3, <1>4, <1>6 DEF CompleteAt
<1>8. ASSUME NEW s \in Pieces, \A i \in DOMAIN s : Whole(s[i])
      PROVE  \A i \in DOMAIN s : Whole(s[i])'
  <2>1. \A i \in DOMAIN s : s[i] \in [from : Nat, to : Nat]
    BY PieceType
  <2> QED BY <1>1, <1>8, <2>1, WholeKept
<1>9. \A i \in DOMAIN yielded'[c] : Whole(yielded[c][i])'
  <2>1. PICK s \in Pieces : s = yielded[c]
    BY <1>1
  <2>2. \A i \in DOMAIN s : Whole(s[i])'
    BY <1>7, <1>8, <2>1
  <2>3. s = yielded'[c]
    BY <2>1
  <2> QED BY <2>2, <2>3
<1>10. ASSUME phase'[c] = "yielding"
       PROVE  \A i \in DOMAIN batch'[c] : Whole(batch[c][i])'
  <2>1. PICK s \in Pieces : s = batch[c]
    BY <1>1
  <2>2. \A i \in DOMAIN s : Whole(s[i])'
    BY <1>7, <1>8, <1>10, <2>1
  <2>3. s = batch'[c]
    BY <1>10, <2>1
  <2> QED BY <2>2, <2>3
<1>11. ASSUME phase'[c] \in {"reading", "yielding"}
       PROVE  AtBoundary(offset[c])'
  <2>1. PICK o \in Nat : o = offset[c]
    BY <1>1
  <2>2. AtBoundary(o)'
    BY <1>1, <1>7, <1>11, <2>1, GrowthKeepsBookmarks
  <2> QED BY <1>11, <2>1, <2>2
<1>12. ended'[c] => NextFrom(yielded[c], start[c].at)' >= start'[c].size
  BY <1>7 DEF NextFrom
<1> QED BY <1>9, <1>10, <1>11, <1>12

(* A replay starts with nothing behind it and at a boundary,               *)
LEMMA StartComplete ==
  ASSUME LogTypeInv, LogTypeInv', NEW c \in Caller, NEW o \in StartOffset, StartReplay(c, o)
  PROVE  CompleteAt(c)'
<1>1. /\ start'[c].at = o /\ start'[c].size = Len(file') /\ offset'[c] = o
      /\ yielded'[c] = << >> /\ ~ended'[c] /\ phase'[c] = "reading"
      /\ Len(file') \in Nat /\ UNCHANGED file
  BY DEF LogTypeInv, LogTypeOK, StartReplay, Goto
<1>2. DOMAIN << >> = {}
  OBVIOUS
<1> QED BY <1>1, <1>2 DEF CompleteAt, AtBoundary

(* reads without leaving a frame out,                                      *)
LEMMA ReadComplete ==
  ASSUME LogTypeInv, LogTypeInv', ReplayInv, Tiled, NEW c \in Caller, CompleteAt(c),
         ReadBatch(c)
  PROVE  CompleteAt(c)'
<1>1. /\ file \in Seq(Cell) /\ offset[c] \in Nat /\ Len(file) \in Nat
      /\ start[c].size \in Nat /\ phase[c] = "reading"
  BY DEF LogTypeInv, LogTypeOK, ReadBatch
<1>2. PICK results \in BatchesFrom(offset[c]) :
        /\ batch' = [batch EXCEPT ![c] = results]
        /\ ended' = [ended EXCEPT ![c] = (results = << >>)]
        /\ Goto(c, IF results = << >> THEN "idle" ELSE "yielding")
  BY DEF ReadBatch
<1>3. /\ Reads(results, offset[c])
      /\ results = << >> => \E garbage \in Nat : ~Readable(offset[c], garbage)
  BY <1>1, OffsetAssumption, BatchFacts
<1>4. /\ batch'[c] = results /\ ended'[c] = (results = << >>)
      /\ phase'[c] \in {"reading", "yielding"} => phase'[c] = "yielding"
      /\ UNCHANGED <<file, start, yielded, offset>>
  BY <1>2 DEF ReadBatch, LogTypeInv, LogTypeOK, Goto
<1>5. SUFFICES ASSUME start[c].at <= start[c].size, IsBoundary(start[c].at)
               PROVE  /\ \A i \in DOMAIN results : Whole(results[i])
                      /\ AtBoundary(offset[c])
                      /\ results = << >> => NextFrom(yielded[c], start[c].at) >= start[c].size
  BY <1>4 DEF CompleteAt, Whole, WholeFrame, AtBoundary, IsBoundary, StoredAt, NextFrom
<1>6. AtBoundary(offset[c])
  BY <1>1, <1>5 DEF CompleteAt
<1>7. \A i \in DOMAIN results : Whole(results[i])
  BY <1>1, <1>3, <1>6, BatchWhole
<1>8. ASSUME results = << >>
      PROVE  NextFrom(yielded[c], start[c].at) >= start[c].size
  <2>1. ~(offset[c] < Len(file))
    BY <1>1, <1>3, <1>6, <1>8, TiledFrame DEF AtBoundary
  <2>2. offset[c] = NextFrom(yielded[c], start[c].at)
    BY <1>1 DEF ReplayInv, ReplayAt
  <2> QED BY <1>1, <2>1, <2>2 DEF CompleteAt
<1> QED BY <1>6, <1>7, <1>8

(* and yields all of the batch it read,                                    *)
LEMMA YieldComplete ==
  ASSUME LogTypeInv, LogTypeInv', ReplayInv, NEW c \in Caller, CompleteAt(c), YieldFrame(c)
  PROVE  CompleteAt(c)'
<1> DEFINE y == yielded[c]
           b == batch[c]
<1>1. /\ y \in Pieces /\ b \in Pieces /\ b # << >> /\ phase[c] = "yielding" /\ ~ended[c]
  BY DEF LogTypeInv, LogTypeOK, BatchReady, YieldFrame, ReplayInv, ReplayAt, Pieces
<1>2. /\ yielded'[c] = Append(y, Head(b)) /\ batch'[c] = Tail(b)
      /\ offset'[c] = Head(b).to /\ UNCHANGED <<file, start, ended>>
  BY DEF LogTypeInv, LogTypeOK, YieldFrame
<1> HIDE DEF y, b
<1>3. SUFFICES ASSUME start[c].at <= start[c].size, IsBoundary(start[c].at)
               PROVE  /\ \A i \in DOMAIN Append(y, Head(b)) : Whole(Append(y, Head(b))[i])
                      /\ \A i \in DOMAIN Tail(b) : Whole(Tail(b)[i])
                      /\ AtBoundary(Head(b).to)
  BY <1>1, <1>2 DEF CompleteAt, Whole, WholeFrame, AtBoundary, IsBoundary, StoredAt
<1>4. (\A i \in DOMAIN y : Whole(y[i])) /\ (\A i \in DOMAIN b : Whole(b[i]))
  BY <1>1, <1>3 DEF CompleteAt, y, b
<1>5. /\ Head(b) = b[1] /\ 1 \in DOMAIN b /\ b[1] \in [from : Nat, to : Nat]
  <2>1. b \in Seq([from : Nat, to : Nat]) /\ DOMAIN b = 1..Len(b)
    BY <1>1 DEF Pieces
  <2>2. Len(b) \in Nat \ {0} /\ Head(b) = b[1] /\ b[1] \in [from : Nat, to : Nat]
    BY <1>1, <2>1, LastElement
  <2> QED BY <2>1, <2>2
<1>6. Whole(Head(b))
  BY <1>4, <1>5
<1>7. \A i \in DOMAIN Append(y, Head(b)) : Whole(Append(y, Head(b))[i])
  <2> TAKE i \in DOMAIN Append(y, Head(b))
  <2> DEFINE h == Head(b)
  <2>1. y \in Seq([from : Nat, to : Nat]) /\ h \in [from : Nat, to : Nat]
    BY <1>1, <1>5 DEF Pieces
  <2> HIDE DEF h
  <2>2. (i \in DOMAIN y /\ Append(y, h)[i] = y[i]) \/ Append(y, h)[i] = h
    BY <2>1 DEF h
  <2> QED BY <1>4, <1>6, <2>2 DEF h
<1>8. \A i \in DOMAIN Tail(b) : Whole(Tail(b)[i])
  <2>1. b \in Seq([from : Nat, to : Nat])
    BY <1>1 DEF Pieces
  <2>2. /\ Len(Tail(b)) = Len(b) - 1 /\ DOMAIN Tail(b) = 1..Len(Tail(b))
        /\ \A i \in 1..Len(Tail(b)) : Tail(b)[i] = b[i + 1]
    BY <1>1, <2>1, HeadTailProperties, LenProperties
  <2>3. \A i \in DOMAIN Tail(b) : i + 1 \in DOMAIN b
    BY <2>1, <2>2
  <2> QED BY <1>4, <2>2, <2>3
<1> QED BY <1>6, <1>7, <1>8 DEF Whole, AtBoundary

(* so that every step of any caller keeps all replays complete.            *)
LEMMA CompleteKept ==
  ASSUME LogTypeInv, LogTypeInv', ReplayInv, CompleteInv, NEW c \in Caller, CallerStep(c)
  PROVE  CompleteInv'
<1>1. SUFFICES ASSUME torn' = 0
               PROVE  Tiled' /\ \A d \in Caller : Live(d)' => CompleteAt(d)'
  BY DEF CompleteInv
<1>2. torn = 0 /\ ~TearFrame(c) /\ Grows
  <2>1. torn \in Nat /\ (TearFrame(c) => torn' = torn + 1)
    BY DEF LogTypeInv, LogTypeOK, TearFrame
  <2>2. ~TearFrame(c)
    BY <1>1, <2>1
  <2>3. UNCHANGED torn
    BY <2>2 DEF CallerStep, LogStep, OpenForAppend, WriteFrame, AppendReturns,
                StartReplay, ReadBatch, SeekFails, YieldFrame, AbandonReplay
  <2> QED BY <1>1, <2>2, <2>3, CallerStepGrows
<1>3. Tiled /\ \A d \in Caller : Live(d) => CompleteAt(d)
  BY <1>2 DEF CompleteInv
<1>4. Tiled'
  <2>1. CASE UNCHANGED file
    BY <1>3, <2>1 DEF Tiled, StoredAt
  <2>2. CASE WriteFrame(c)
    BY <1>3, <2>2, TiledWritten
  <2> QED BY <1>2, <2>1, <2>2
          DEF CallerStep, LogStep, OpenForAppend, AppendReturns, StartReplay, ReadBatch,
              SeekFails, YieldFrame, AbandonReplay
<1>5. ASSUME NEW d \in Caller \ {c}, Live(d)'
      PROVE  CompleteAt(d)'
  <2>1. UNCHANGED <<phase[d], offset[d], batch[d], yielded[d], start[d], ended[d]>>
    <3> USE DEF LogTypeInv, LogTypeOK, logHist, Goto
    <3>1. CASE (\E len \in FrameLen : OpenForAppend(c, len)) \/ WriteFrame(c) \/ TearFrame(c)
                 \/ AppendReturns(c)
      BY <3>1 DEF OpenForAppend, WriteFrame, TearFrame, AppendReturns
    <3>2. CASE \E o \in StartOffset : StartReplay(c, o)
      BY <3>2 DEF StartReplay
    <3>3. CASE ReadBatch(c)
      BY <3>3 DEF ReadBatch
    <3>4. CASE SeekFails(c) \/ YieldFrame(c) \/ AbandonReplay(c)
      BY <3>4 DEF SeekFails, YieldFrame, AbandonReplay
    <3> QED BY <3>1, <3>2, <3>3, <3>4 DEF CallerStep, LogStep
  <2>2. Live(d)
    BY <1>5, <2>1 DEF Live
  <2> QED BY <1>2, <1>3, <2>1, <2>2, CompleteGrows
<1>6. ASSUME Live(c)'
      PROVE  CompleteAt(c)'
  <2>1. CASE \E o \in StartOffset : StartReplay(c, o)
    BY <2>1, StartComplete
  <2>2. CASE ReadBatch(c)
    BY <1>3, <2>2, ReadComplete DEF Live, ReadBatch
  <2>3. CASE YieldFrame(c)
    BY <1>3, <2>3, YieldComplete DEF Live, YieldFrame
  <2>4. CASE \/ \E len \in FrameLen : OpenForAppend(c, len)
             \/ WriteFrame(c) \/ AppendReturns(c) \/ SeekFails(c) \/ AbandonReplay(c)
    <3>1. /\ phase'[c] \notin {"reading", "yielding"}
          /\ UNCHANGED <<yielded[c], start[c], ended[c]>>
      BY <2>4 DEF LogTypeInv, LogTypeOK, OpenForAppend, WriteFrame, AppendReturns,
                  SeekFails, AbandonReplay, logHist, Goto
    <3>2. Live(c)
      BY <1>6, <3>1 DEF Live
    <3> QED BY <1>2, <1>3, <3>1, <3>2, CompleteGrows
  <2> QED BY <1>2, <2>1, <2>2, <2>3, <2>4 DEF CallerStep, LogStep
<1> QED BY <1>4, <1>5, <1>6

(* One step keeps every replay complete.                                   *)
LEMMA NextComplete ==
  ASSUME LogTypeInv, LogTypeInv', ReplayInv, CompleteInv, [LogNext]_logVars
  PROVE  CompleteInv'
<1>1. CASE UNCHANGED logVars
  BY <1>1 DEF CompleteInv, Tiled, Live, CompleteAt, Whole, WholeFrame, AtBoundary,
              IsBoundary, StoredAt, NextFrom, logVars, callVars, logHist
<1> QED BY <1>1, CompleteKept DEF LogNext, CallerStep

(* The replays are complete initially.                                     *)
LEMMA InitComplete ==
  ASSUME LogInit
  PROVE  CompleteInv
<1>1. DOMAIN << >> = {} /\ Len(<< >>) = 0
  OBVIOUS
<1> QED BY <1>1 DEF LogInit, CompleteInv, Tiled, Live

(* As long as no write was cut short, a replay that began at a frame and   *)
(* ran to its end has yielded whole frames up to the end the file had when *)
(* it began, whatever was appended since and however the batches fell      *)
(* (broker/storage.py:79-133).                                             *)
THEOREM ReplaysComplete == LogSpec => []ReplayComplete
<1>1. CompleteInv => ReplayComplete
  BY DEF CompleteInv, ReplayComplete, Live, CompleteAt, Whole
<1>2. LogSpec => []ReplayInv
  BY InitReplay, NextReplay, LogTypeInvariant, PTL DEF LogSpec
<1> QED BY <1>1, <1>2, InitComplete, NextComplete, LogTypeInvariant, PTL DEF LogSpec
=============================================================================
