----------------------------- MODULE SimpleFifo -----------------------------
(***************************************************************************)
(* The single-clock FIFO of the copy engines (src/RTL/simple_fifo.v): a    *)
(* ring of FIFO_DEPTH words, first word falling through.  BurstMaster and  *)
(* BurstMaster4 instantiate it, once and twice.                            *)
(***************************************************************************)
EXTENDS Integers, Sequences

CONSTANTS
  FIFO_DEPTH,   \* words in the ring
  Unknown       \* what a slot holds before its first write

VARIABLES mem, wr_ptr, rd_ptr, used_w

fifoVars == <<mem, wr_ptr, rd_ptr, used_w>>

full    == used_w = FIFO_DEPTH
empty   == used_w = 0
rd_data == mem[rd_ptr]

FifoInit ==
  /\ mem = [i \in 0..(FIFO_DEPTH - 1) |-> Unknown]
  /\ wr_ptr = 0 /\ rd_ptr = 0
  /\ used_w = 0

Successor(p) == IF p = FIFO_DEPTH - 1 THEN 0 ELSE p + 1

(* A write to a full ring and a read of an empty one are ignored, each     *)
(* judged by the count before the edge.                                    *)
FifoEdge(wr_en, wr_data, rd_en) ==
  LET wr == wr_en /\ ~full
      rd == rd_en /\ ~empty
  IN  /\ mem' = IF wr THEN [mem EXCEPT ![wr_ptr] = wr_data] ELSE mem
      /\ wr_ptr' = IF wr THEN Successor(wr_ptr) ELSE wr_ptr
      /\ rd_ptr' = IF rd THEN Successor(rd_ptr) ELSE rd_ptr
      /\ used_w' = used_w + (IF wr THEN 1 ELSE 0) - (IF rd THEN 1 ELSE 0)

(* Reset leaves the words where they are.                                  *)
FifoReset ==
  /\ wr_ptr' = 0 /\ rd_ptr' = 0
  /\ used_w' = 0
  /\ UNCHANGED mem
=============================================================================
