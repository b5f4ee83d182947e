----------------------------- MODULE StaleFifo -----------------------------
(***************************************************************************)
(* What the dual-clock FIFO of the video path (src/RTL/simple_dcfifo.v)    *)
(* promises to the two circuits that use it.  It is a bounded queue whose  *)
(* two sides live in different clock domains: each side learns of the      *)
(* other side's moves late, after an unspecified number of its own clock   *)
(* edges.  The ignorance is always on the safe side:                       *)
(*   - the write side counts words that have already been read as still    *)
(*     stored (unseenReads of them), so it sees the FIFO fuller than it is;*)
(*   - the read side does not count the last unseenWrites words written,   *)
(*     so it sees the FIFO emptier than it is.                             *)
(* DcFifo.tla, the gray-pointer implementation, implements this            *)
(* specification (FifoProofs.tla); VideoPath.tla and VideoPipeline.tla     *)
(* build on it.                                                            *)
(***************************************************************************)
EXTENDS Integers, Sequences

CONSTANTS
  Depth,    \* number of words the memory holds, 2^ADDR_WIDTH in the code
  Word      \* the words that can be stored

VARIABLES
  fifo,          \* the words stored, oldest first
  unseenReads,   \* reads the write side has not learnt of
  unseenWrites,  \* writes the read side has not learnt of
  q              \* the registered read output

vars == <<fifo, unseenReads, unseenWrites, q>>

(* The occupancy as the write side counts it, and its port wrusedw: one    *)
(* bit short of the count, it saturates instead of wrapping to zero when   *)
(* the count is Depth (the bug of TRYERROR.md, section 1, was that wrap).  *)
UsedSeen == Len(fifo) + unseenReads
wrusedw  == IF UsedSeen >= Depth THEN Depth - 1 ELSE UsedSeen
wrfull   == UsedSeen = Depth
rdempty  == Len(fifo) = unseenWrites

Init ==
  /\ fifo = <<>>
  /\ unseenReads = 0
  /\ unseenWrites = 0
  /\ q \in Word

(* A rising edge of wrclk with word d offered iff wrreq.  Whatever the     *)
(* synchronizer delivers at this edge, the write side may only come to     *)
(* know of more reads.                                                     *)
WriteEdge(wrreq, d) ==
  /\ \/ /\ wrreq /\ ~wrfull
        /\ fifo' = Append(fifo, d)
        /\ unseenWrites' = unseenWrites + 1
     \/ /\ ~(wrreq /\ ~wrfull)
        /\ UNCHANGED <<fifo, unseenWrites>>
  /\ unseenReads' \in 0..unseenReads
  /\ UNCHANGED q

(* A rising edge of rdclk.  q changes only when a word is taken.           *)
ReadEdge(rdreq) ==
  /\ \/ /\ rdreq /\ ~rdempty
        /\ q' = Head(fifo)
        /\ fifo' = Tail(fifo)
        /\ unseenReads' = unseenReads + 1
     \/ /\ ~(rdreq /\ ~rdempty)
        /\ UNCHANGED <<q, fifo, unseenReads>>
  /\ unseenWrites' \in 0..unseenWrites

(* Rising edges of both clocks at once: each side acts on what it saw      *)
(* before the edge, and learns nothing of the other side's simultaneous    *)
(* move.  The effect is that of a read edge followed by a write edge.      *)
BothEdges(wrreq, d, rdreq) ==
  LET wr   == wrreq /\ ~wrfull
      rd   == rdreq /\ ~rdempty
      rest == IF rd THEN Tail(fifo) ELSE fifo
  IN  /\ fifo' = IF wr THEN Append(rest, d) ELSE rest
      /\ q' = IF rd THEN Head(fifo) ELSE q
      /\ unseenReads' \in 0..(unseenReads + (IF rd THEN 1 ELSE 0))
      /\ unseenWrites' \in 0..(unseenWrites + (IF wr THEN 1 ELSE 0))

Next ==
  \/ \E wrreq \in BOOLEAN, d \in Word : WriteEdge(wrreq, d)
  \/ \E rdreq \in BOOLEAN : ReadEdge(rdreq)
  \/ \E wrreq, rdreq \in BOOLEAN, d \in Word : BothEdges(wrreq, d, rdreq)

Spec == Init /\ [][Next]_vars
=============================================================================
