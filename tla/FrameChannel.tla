---------------------------- MODULE FrameChannel ----------------------------
(***************************************************************************)
(* What one direction of a connection promises to those who write and read *)
(* whole frames of broker/protocol.py: the reader gets the frames that     *)
(* were written, unchanged and in order, up to some point.                 *)
(***************************************************************************)
EXTENDS Naturals, Sequences

VARIABLES
  written,    \* the frames written so far
  delivered   \* the frames the reader has decoded

Init == written = << >> /\ delivered = << >>

(* One frame or a burst of them, behind those written before.              *)
Write ==
  /\ Len(written') > Len(written)
  /\ SubSeq(written', 1, Len(written)) = written
  /\ UNCHANGED delivered

Deliver ==
  /\ Len(delivered) < Len(written)
  /\ delivered' = Append(delivered, written[Len(delivered) + 1])
  /\ UNCHANGED written

Next == Write \/ Deliver

Spec == Init /\ [][Next]_<<written, delivered>>
=============================================================================
