---------------------------- MODULE BurstMaster ----------------------------
(***************************************************************************)
(* The copy engine src/RTL/burst_master.v: one SimpleFifo between the read *)
(* master and the write master of BurstEngine, driven by CopyTest.  One    *)
(* step is one rising edge of clk.  A word is the address it is read from. *)
(***************************************************************************)
EXTENDS CopyTest

VARIABLES mem, wr_ptr, rd_ptr, used_w

Fifo == INSTANCE SimpleFifo WITH Unknown <- -1

copyVars == <<engineVars, testVars, mem, wr_ptr, rd_ptr, used_w>>

CopyInit == EngineInit /\ TestInit /\ Fifo!FifoInit

(* Every word that arrives is offered to the FIFO at the same edge, and    *)
(* every beat taken by the memory takes one out.                           *)
CopyEdge(w, in) ==
  /\ Software(w)
  /\ CsrBlock(w)
  /\ ReadMaster(used_w, in)
  /\ WriteMaster(used_w, in)
  /\ MemoryPorts(in, Fifo!rd_data)
  /\ Fifo!FifoEdge(in.rm_readdatavalid,
                   IF in.rm_readdatavalid THEN Head(owed) ELSE -1, fifo_rd_en(in))

CopyReset == EngineReset /\ TestReset /\ Fifo!FifoReset

CopyNext == CopyReset \/ \E w \in Writes, in \in EngineInputs : CopyEdge(w, in)

CopySpec == CopyInit /\ [][CopyNext]_copyVars

(* What a transfer needs of its surroundings to end: that clk runs, that   *)
(* the memory takes the command and the beats held out to it, delivers     *)
(* what it owes, and that software gets round to its next access.          *)
EdgeWith(P(_, _)) == \E w \in Writes, in \in EngineInputs : P(w, in) /\ CopyEdge(w, in)

CopyFairness ==
  /\ WF_copyVars(EdgeWith(LAMBDA w, in : TRUE))
  /\ WF_copyVars(EdgeWith(LAMBDA w, in : ReadAccepted(in)))
  /\ WF_copyVars(EdgeWith(LAMBDA w, in : in.rm_readdatavalid))
  /\ WF_copyVars(EdgeWith(LAMBDA w, in : wm_write /\ ~in.wm_waitrequest))
  /\ WF_copyVars(EdgeWith(LAMBDA w, in : phase = "polling" /\ ctrl_done_reg /\ Poll(w)))

CopyFairSpec == CopySpec /\ CopyFairness
-----------------------------------------------------------------------------
(* Properties                                                              *)

(* The credit of burst_master.v line 277: words stored, words owed and the *)
(* burst being commanded always fit the FIFO, which drops what does not    *)
(* fit; and the count of words owed is exact while a transfer runs.        *)
CreditHolds ==
  /\ used_w + Len(owed) + (IF rm_state = "READ" THEN rm_burstcount ELSE 0) <= FIFO_DEPTH
  /\ pending_reads = Len(owed)

(* The beats stored so far are the first words of the source, one each, in *)
(* order, from the first address of the destination on; when the done bit  *)
(* is up they are the whole transfer, padding included, and no beat comes  *)
(* after that.                                                             *)
CopyExact ==
  /\ UnderWay => \A i \in DOMAIN written :
       written[i] = <<job.dst + 4 * (i - 1), job.src + 4 * (i - 1)>>
  /\ UnderWay /\ ctrl_done_reg => Len(written) = WordsOfJob
  /\ wm_write => UnderWay /\ ~ctrl_done_reg

(* A start finds both masters at rest, nothing on its way and an empty     *)
(* FIFO: no start of the test program is lost or honoured by one side      *)
(* only, though the two masters return to rest at different edges.         *)
StartTaken ==
  ctrl_start =>
    /\ rm_state = "IDLE" /\ wm_fsm = "W_IDLE" /\ ~internal_done_pulse
    /\ used_w = 0 /\ owed = <<>>

(* A transfer that was started ends: the masters never wait for each other *)
(* for ever, whatever the two burst lengths.                               *)
TransferEnds == phase = "polling" ~> phase = "idle" \/ phase = "acking"
=============================================================================
