---------------------------- MODULE BurstMaster4 ----------------------------
(***************************************************************************)
(* The copy engine src/RTL/burst_master_4.v: two SimpleFifos around the    *)
(* arithmetic pipeline, between the read master and the write master of    *)
(* BurstEngine, driven by CopyTest.  One step is one rising edge of clk.   *)
(*                                                                         *)
(* A word is <<address, coefficient, divided>>: the address it was read    *)
(* from, the coefficient it has been multiplied by (0: none yet) and       *)
(* whether it has been divided.                                            *)
(***************************************************************************)
EXTENDS CopyTest

CONSTANT PIPE_LATENCY     \* the number of the last stage (4)

ASSUME PipeAssumption == PIPE_LATENCY \in Nat /\ PIPE_LATENCY >= 2

(* The one test of this engine sets the coefficient before the start.      *)
ASSUME ScaleAssumption == \A j \in Job : j.order = DdrOrder /\ j.coeff \in Nat

VARIABLES
  ctrl_coeff,
  pipeline_valid, pipeline_data,                        \* stages 0..PIPE_LATENCY
  in_mem, in_wr_ptr, in_rd_ptr, fifo_in_used,           \* u_fifo_in
  out_mem, out_wr_ptr, out_rd_ptr, fifo_out_used        \* u_fifo_out

Stage == 0..PIPE_LATENCY
Raw(a) == <<a, 0, FALSE>>
Nothing == Raw(-1)

FifoIn  == INSTANCE SimpleFifo WITH Unknown <- Nothing,
             mem <- in_mem, wr_ptr <- in_wr_ptr, rd_ptr <- in_rd_ptr, used_w <- fifo_in_used
FifoOut == INSTANCE SimpleFifo WITH Unknown <- Nothing,
             mem <- out_mem, wr_ptr <- out_wr_ptr, rd_ptr <- out_rd_ptr, used_w <- fifo_out_used

pipeVars  == <<pipeline_valid, pipeline_data>>
scaleVars == <<engineVars, testVars, ctrl_coeff, pipeVars,
               in_mem, in_wr_ptr, in_rd_ptr, fifo_in_used,
               out_mem, out_wr_ptr, out_rd_ptr, fifo_out_used>>
-----------------------------------------------------------------------------
(* Seeded fault: every stage always takes a word.                          *)
pipeline_readyAlways(i) == TRUE

(* The handshake.  A stage is ready when it is empty or the next one is    *)
(* ready, the last one when the output FIFO has room: the chain of         *)
(* ready[i] = !valid[i] || ready[i+1], unrolled.                           *)
pipeline_ready(i) ==
  \/ ~FifoOut!full
  \/ \E k \in i..(PIPE_LATENCY - 1) : ~pipeline_valid[k]

fifo_in_rd_en  == ~FifoIn!empty /\ pipeline_ready(0)
fifo_out_wr_en == pipeline_valid[PIPE_LATENCY] /\ pipeline_ready(PIPE_LATENCY)

(* What entering stage i does to a word: stage 1 multiplies, stage 2       *)
(* divides.                                                                *)
Operation(i, d) ==
  CASE i = 1 -> <<d[1], ctrl_coeff, d[3]>>
    [] i = 2 -> <<d[1], d[2], TRUE>>
    [] OTHER -> d

Pipeline ==
  /\ pipeline_valid' =
       [i \in Stage |->
          IF ~pipeline_ready(i) THEN pipeline_valid[i]
          ELSE IF i = 0 THEN ~FifoIn!empty ELSE pipeline_valid[i - 1]]
  /\ pipeline_data' =
       [i \in Stage |->
          IF ~pipeline_ready(i) THEN pipeline_data[i]
          ELSE IF i = 0 THEN FifoIn!rd_data
          ELSE IF pipeline_valid[i - 1] THEN Operation(i, pipeline_data[i - 1])
          ELSE Nothing]
-----------------------------------------------------------------------------
ScaleInit ==
  /\ EngineInit /\ TestInit
  /\ FifoIn!FifoInit /\ FifoOut!FifoInit
  /\ ctrl_coeff = 1
  /\ pipeline_valid = [i \in Stage |-> FALSE]
  /\ pipeline_data = [i \in Stage |-> Nothing]

(* The control registers of burst_master.v and the coefficient.            *)
ScaleCsr(w) ==
  /\ CsrBlock(w)
  /\ ctrl_coeff' = IF w.reg = 7 THEN w.data ELSE ctrl_coeff

ScaleEdge(w, in) ==
  /\ Software(w)
  /\ ScaleCsr(w)
  /\ ReadMaster(fifo_in_used, in)
  /\ WriteMaster(fifo_out_used, in)
  /\ MemoryPorts(in, FifoOut!rd_data)
  /\ FifoIn!FifoEdge(in.rm_readdatavalid,
                     IF in.rm_readdatavalid THEN Raw(Head(owed)) ELSE Nothing, fifo_in_rd_en)
  /\ Pipeline
  /\ FifoOut!FifoEdge(fifo_out_wr_en, pipeline_data[PIPE_LATENCY], fifo_rd_en(in))

ScaleReset ==
  /\ EngineReset /\ TestReset
  /\ FifoIn!FifoReset /\ FifoOut!FifoReset
  /\ ctrl_coeff' = 1
  /\ pipeline_valid' = [i \in Stage |-> FALSE]
  /\ pipeline_data' = [i \in Stage |-> Nothing]

ScaleNext == ScaleReset \/ \E w \in Writes, in \in EngineInputs : ScaleEdge(w, in)

ScaleSpec == ScaleInit /\ [][ScaleNext]_scaleVars

(* As for BurstMaster: clk runs, the memory takes commands and beats and   *)
(* delivers what it owes, and software gets round to its next access.      *)
ScaleEdgeWith(P(_, _)) == \E w \in Writes, in \in EngineInputs : P(w, in) /\ ScaleEdge(w, in)

ScaleFairness ==
  /\ WF_scaleVars(ScaleEdgeWith(LAMBDA w, in : TRUE))
  /\ WF_scaleVars(ScaleEdgeWith(LAMBDA w, in : ReadAccepted(in)))
  /\ WF_scaleVars(ScaleEdgeWith(LAMBDA w, in : in.rm_readdatavalid))
  /\ WF_scaleVars(ScaleEdgeWith(LAMBDA w, in : wm_write /\ ~in.wm_waitrequest))
  /\ WF_scaleVars(ScaleEdgeWith(LAMBDA w, in : phase = "polling" /\ ctrl_done_reg /\ Poll(w)))

ScaleFairSpec == ScaleSpec /\ ScaleFairness
-----------------------------------------------------------------------------
(* Properties                                                              *)

(* Every word of the source is stored once, in order, multiplied by the    *)
(* coefficient of this transfer and then divided, whatever the bubbles and *)
(* the back-pressure in the pipeline; when the done bit is up the whole    *)
(* transfer has been, and no beat comes after that.                        *)
ScaledExact ==
  /\ UnderWay => \A i \in DOMAIN written :
       written[i] = <<job.dst + 4 * (i - 1), <<job.src + 4 * (i - 1), job.coeff, TRUE>>>>
  /\ UnderWay /\ ctrl_done_reg => Len(written) = WordsOfJob
  /\ wm_write => UnderWay /\ ~ctrl_done_reg

(* A start finds both masters at rest and no word anywhere: no word of one *)
(* transfer is multiplied by the coefficient of the next.                  *)
PipelineAtRest ==
  ctrl_start =>
    /\ rm_state = "IDLE" /\ wm_fsm = "W_IDLE" /\ ~internal_done_pulse
    /\ owed = <<>> /\ FifoIn!empty /\ FifoOut!empty
    /\ \A i \in Stage : ~pipeline_valid[i]

(* A transfer that was started ends, though words wait in five stages and  *)
(* two FIFOs for a write burst to fill.                                    *)
ScalingEnds == phase = "polling" ~> phase = "idle" \/ phase = "acking"
=============================================================================
