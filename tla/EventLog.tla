------------------------------ MODULE EventLog ------------------------------
(***************************************************************************)
(* broker/storage.py: the append-only log file, the thread-pool calls that *)
(* append to it and the generators that replay it.                         *)
(*                                                                         *)
(* The file is a sequence of cells.  A cell names the frame it belongs to, *)
(* its place in that frame and the frame's length, which a reader can only *)
(* learn from the HeaderSize first cells.  Each caller is a connection     *)
(* handler: it awaits one call at a time, while the pool's threads and the *)
(* event loop run the calls of different handlers concurrently.            *)
(***************************************************************************)
EXTENDS Integers, Sequences

CONSTANTS
  Caller,        \* the connection handlers
  HeaderSize,    \* cells of a header
  FrameLen,      \* possible lengths of a frame, header included
  BatchSize,     \* REPLAY_BATCH_SIZE
  StartOffset,   \* offsets a TIME_TRAVEL may ask for
  SeekLimit,     \* the offsets from here on are refused by seek()
  GarbageLen,    \* payload lengths read from bytes that are no header
  MaxFrames,     \* bound on the number of appends
  MaxTorn        \* bound on the number of writes that are cut short

ASSUME HeaderAssumption == HeaderSize \in Nat \ {0}
ASSUME FrameAssumption  == FrameLen \subseteq {n \in Nat : n >= HeaderSize}
ASSUME BatchAssumption  == BatchSize \in Nat \ {0}
ASSUME OffsetAssumption == StartOffset \subseteq Nat /\ GarbageLen \subseteq Nat
ASSUME SeekAssumption   == SeekLimit \in Nat
ASSUME LogBounds        == MaxFrames \in Nat /\ MaxTorn \in Nat

VARIABLES
  file,      \* the file's content
  frames,    \* how many appends were begun; numbers the frames
  torn,      \* how many writes were cut short
  phase,     \* what each caller awaits
  frame,     \* append: the number and length of the caller's frame
  offset,    \* append: what tell() returned; replay: the next offset
  batch      \* replay: the frames read and not yet yielded

(* History: what append() returned, where each replay began and how long   *)
(* the file was then, what it yielded, and whether it ran to its end.      *)
VARIABLES acked, start, yielded, ended

callVars == <<phase, frame, offset, batch>>
logHist  == <<acked, start, yielded, ended>>
logVars  == <<file, frames, torn, callVars, logHist>>

-----------------------------------------------------------------------------
Cell  == [frame : Nat, at : Nat, len : Nat]
Phase == {"idle",
          "opened",    \* append: open(path, "ab") done, tell() taken
          "written",   \* append: write and flush done
          "reading",   \* replay: a batch is being read
          "yielding"}  \* replay: the consumer is sent a frame

Frame(n, len) == [i \in 1..len |-> [frame |-> n, at |-> i, len |-> len]]

(* The bytes at o are the header of a frame, and not a part of a payload   *)
(* or of a header that was cut short.                                      *)
IsHeader(o) ==
  \A i \in 1..HeaderSize :
    file[o + i].at = i /\ file[o + i].frame = file[o + 1].frame

FrameEnd(o, garbage) ==
  IF IsHeader(o) THEN o + file[o + 1].len ELSE o + HeaderSize + garbage

(* Fault: a frame that ends with the file counts as truncated.             *)
ReadableStrict(o, garbage) ==
  o + HeaderSize < Len(file) /\ FrameEnd(o, garbage) < Len(file)

(* Neither the header nor the payload runs into the end of the file.       *)
Readable(o, garbage) ==
  o + HeaderSize <= Len(file) /\ FrameEnd(o, garbage) <= Len(file)

(* One more frame of a batch s read from o on, given by where it begins    *)
(* and ends.  What is no header has any length, another one each time.     *)
NextFrom(s, o) == IF s = << >> THEN o ELSE s[Len(s)].to

ReadMore(s, o) ==
  {Append(s, [from |-> NextFrom(s, o), to |-> FrameEnd(NextFrom(s, o), garbage)]) :
     garbage \in {g \in GarbageLen : Readable(NextFrom(s, o), g)}}

(* _sync_read_batch: BatchSize frames from o on, or those before the first *)
(* that cannot be read.                                                    *)
BatchesFrom(o) ==
  LET read[k \in 0..BatchSize] ==
        IF k = 0 THEN {<< >>} ELSE UNION {ReadMore(s, o) : s \in read[k - 1]}
  IN  read[BatchSize] \cup
        {s \in UNION {read[k] : k \in 0..BatchSize - 1} :
           \E garbage \in GarbageLen : ~Readable(NextFrom(s, o), garbage)}

LogInit ==
  /\ file = << >> /\ frames = 0 /\ torn = 0
  /\ phase  = [c \in Caller |-> "idle"]
  /\ frame  = [c \in Caller |-> [n |-> 0, len |-> 0]]
  /\ offset = [c \in Caller |-> 0]
  /\ batch  = [c \in Caller |-> << >>]
  /\ acked  = {}
  /\ start  = [c \in Caller |-> [at |-> 0, size |-> 0]]
  /\ yielded = [c \in Caller |-> << >>]
  /\ ended   = [c \in Caller |-> FALSE]

Goto(c, p) == phase' = [phase EXCEPT ![c] = p]

-----------------------------------------------------------------------------
(* append(): the thread opens the file at its end and takes that position, *)
(* then writes; O_APPEND puts the bytes at the end the file has by then.   *)

OpenForAppend(c, len) ==
  /\ phase[c] = "idle" /\ frames < MaxFrames
  /\ frames' = frames + 1
  /\ frame'  = [frame EXCEPT ![c] = [n |-> frames + 1, len |-> len]]
  /\ offset' = [offset EXCEPT ![c] = Len(file)]
  /\ Goto(c, "opened")
  /\ UNCHANGED <<file, torn, batch, logHist>>

WriteFrame(c) ==
  /\ phase[c] = "opened"
  /\ file' = file \o Frame(frame[c].n, frame[c].len)
  /\ Goto(c, "written")
  /\ UNCHANGED <<frames, torn, frame, offset, batch, logHist>>

(* A full disk takes a part of the frame and then raises OSError; nothing  *)
(* removes that part.                                                      *)
TearFrame(c) ==
  /\ phase[c] = "opened" /\ torn < MaxTorn
  /\ \E k \in 0..frame[c].len - 1 :
       file' = file \o SubSeq(Frame(frame[c].n, frame[c].len), 1, k)
  /\ torn' = torn + 1
  /\ Goto(c, "idle")
  /\ UNCHANGED <<frames, frame, offset, batch, logHist>>

(* Faults: the offset returned is the position after the write, or that    *)
(* of tell() less the length.                                              *)
AppendReturnsEnd(c) ==
  /\ phase[c] = "written"
  /\ acked' = acked \cup {[n |-> frame[c].n, len |-> frame[c].len,
                          offset |-> offset[c] + frame[c].len]}
  /\ Goto(c, "idle")
  /\ UNCHANGED <<file, frames, torn, frame, offset, batch, start, yielded, ended>>

AppendReturnsBefore(c) ==
  /\ phase[c] = "written"
  /\ acked' = acked \cup {[n |-> frame[c].n, len |-> frame[c].len,
                          offset |-> offset[c] - frame[c].len]}
  /\ Goto(c, "idle")
  /\ UNCHANGED <<file, frames, torn, frame, offset, batch, start, yielded, ended>>

AppendReturns(c) ==
  /\ phase[c] = "written"
  /\ acked' = acked \cup
       {[n |-> frame[c].n, len |-> frame[c].len, offset |-> offset[c]]}
  /\ Goto(c, "idle")
  /\ UNCHANGED <<file, frames, torn, frame, offset, batch, start, yielded, ended>>

-----------------------------------------------------------------------------
(* replay_from(): the generator reads a batch, yields its frames one by    *)
(* one, and reads again until a batch is empty.                            *)

StartReplay(c, o) ==
  /\ phase[c] = "idle"
  /\ offset'  = [offset EXCEPT ![c] = o]
  /\ start'   = [start EXCEPT ![c] = [at |-> o, size |-> Len(file)]]
  /\ yielded' = [yielded EXCEPT ![c] = << >>]
  /\ ended'   = [ended EXCEPT ![c] = FALSE]
  /\ Goto(c, "reading")
  /\ UNCHANGED <<file, frames, torn, frame, batch, acked>>

(* Fault: at the end of the file the reader reads again.                   *)
ReadBatchForever(c) ==
  /\ phase[c] = "reading" /\ offset[c] < SeekLimit
  /\ \E results \in BatchesFrom(offset[c]) :
       /\ batch' = [batch EXCEPT ![c] = results]
       /\ Goto(c, IF results = << >> THEN "reading" ELSE "yielding")
  /\ UNCHANGED <<file, frames, torn, frame, offset, logHist>>

ReadBatch(c) ==
  /\ phase[c] = "reading" /\ offset[c] < SeekLimit
  /\ \E results \in BatchesFrom(offset[c]) :
       /\ batch' = [batch EXCEPT ![c] = results]
       /\ ended' = [ended EXCEPT ![c] = (results = << >>)]
       /\ Goto(c, IF results = << >> THEN "idle" ELSE "yielding")
  /\ UNCHANGED <<file, frames, torn, frame, offset, acked, start, yielded>>

(* seek() raises, and with it the generator: ValueError from 2^63 on,      *)
(* OSError where the file system has its own limit below.                  *)
SeekFails(c) ==
  /\ phase[c] = "reading" /\ offset[c] >= SeekLimit
  /\ Goto(c, "idle")
  /\ UNCHANGED <<file, frames, torn, frame, offset, batch, logHist>>

(* Fault: the offset does not follow the frames.                           *)
YieldStays(c) ==
  /\ phase[c] = "yielding"
  /\ yielded' = [yielded EXCEPT ![c] = Append(@, Head(batch[c]))]
  /\ batch'   = [batch EXCEPT ![c] = Tail(@)]
  /\ Goto(c, IF Len(batch[c]) = 1 THEN "reading" ELSE "yielding")
  /\ UNCHANGED <<file, frames, torn, frame, offset, acked, start, ended>>

YieldFrame(c) ==
  /\ phase[c] = "yielding"
  /\ yielded' = [yielded EXCEPT ![c] = Append(@, Head(batch[c]))]
  /\ offset'  = [offset EXCEPT ![c] = Head(batch[c]).to]
  /\ batch'   = [batch EXCEPT ![c] = Tail(@)]
  /\ Goto(c, IF Len(batch[c]) = 1 THEN "reading" ELSE "yielding")
  /\ UNCHANGED <<file, frames, torn, frame, acked, start, ended>>

(* The consumer gives up: its client is gone.                              *)
AbandonReplay(c) ==
  /\ phase[c] = "yielding"
  /\ batch' = [batch EXCEPT ![c] = << >>]
  /\ Goto(c, "idle")
  /\ UNCHANGED <<file, frames, torn, frame, offset, logHist>>

LogStep(c) ==
  \/ WriteFrame(c)
  \/ AppendReturns(c)
  \/ ReadBatch(c)
  \/ SeekFails(c)
  \/ YieldFrame(c)

LogNext ==
  \E c \in Caller :
    \/ \E len \in FrameLen : OpenForAppend(c, len)
    \/ \E o \in StartOffset : StartReplay(c, o)
    \/ LogStep(c)
    \/ TearFrame(c)
    \/ AbandonReplay(c)

LogSpec     == LogInit /\ [][LogNext]_logVars
FairLogSpec == LogSpec /\ \A c \in Caller : WF_logVars(LogStep(c))

-----------------------------------------------------------------------------
LogTypeOK ==
  /\ file \in Seq(Cell) /\ frames \in Nat /\ torn \in Nat
  /\ phase \in [Caller -> Phase]
  /\ frame \in [Caller -> [n : Nat, len : Nat]]
  /\ offset \in [Caller -> Nat]
  /\ batch \in [Caller -> Seq([from : Nat, to : Nat])]
  /\ acked \subseteq [n : Nat, len : Nat, offset : Nat]
  /\ start \in [Caller -> [at : Nat, size : Nat]]
  /\ yielded \in [Caller -> Seq([from : Nat, to : Nat])]
  /\ ended \in [Caller -> BOOLEAN]

(* A whole frame n begins at offset o.                                     *)
StoredAt(n, len, o) ==
  o + len <= Len(file) /\ SubSeq(file, o + 1, o + len) = Frame(n, len)

(* The offset is one at which a frame begins, or the end of the file.      *)
IsBoundary(o) == o = Len(file) \/ (o < Len(file) /\ file[o + 1].at = 1)

(* What append() returned is good to replay from: the frame is in the      *)
(* file, whole, at that offset or after it, and a frame begins at that     *)
(* offset, whatever other threads appended between tell() and write().     *)
BookmarkReachesFrame ==
  \A a \in acked :
    /\ \E o \in a.offset..Len(file) : StoredAt(a.n, a.len, o)
    /\ IsBoundary(a.offset)

(* A replay never skips or repeats a byte between two batches, or between  *)
(* two frames of one, whatever is appended meanwhile.                      *)
ReplayContiguous ==
  \A c \in Caller :
    LET all == IF phase[c] = "yielding" THEN yielded[c] \o batch[c] ELSE yielded[c]
    IN  \A i \in DOMAIN all :
          all[i].from = IF i = 1 THEN start[c].at ELSE all[i - 1].to

(* As long as no write was cut short, a replay from a frame boundary that  *)
(* ran to its end has yielded the file from there to at least the end it   *)
(* had when the replay began, frame by frame.                              *)
WholeFrame(y) == StoredAt(file[y.from + 1].frame, y.to - y.from, y.from)

ReplayComplete ==
  torn = 0 =>
    \A c \in Caller :
      ended[c] /\ start[c].at <= start[c].size /\ IsBoundary(start[c].at) =>
        /\ \A i \in DOMAIN yielded[c] : WholeFrame(yielded[c][i])
        /\ NextFrom(yielded[c], start[c].at) >= start[c].size

(* Every replay ends: the log stops growing, so a batch comes back empty.  *)
ReplayTerminates ==
  \A c \in Caller : phase[c] \in {"reading", "yielding"} ~> phase[c] = "idle"

(* "Yield every stored frame starting from *offset*"                       *)
(* (broker/storage.py:79), for a replay of the whole file.                 *)
ReplayYieldsEveryFrame ==
  \A c \in Caller : ended[c] /\ start[c].at = 0 =>
    \A o \in 0..start[c].size - 1 :
      StoredAt(file[o + 1].frame, file[o + 1].len, o) =>
        \E i \in DOMAIN yielded[c] :
          yielded[c][i] = [from |-> o, to |-> o + file[o + 1].len]
=============================================================================
