----------------------------- MODULE CopyTest ------------------------------
(***************************************************************************)
(* The software of the copy engines: the transfers of run_ocm_to_ddr_test  *)
(* and run_ddr_to_ddr_test in                                              *)
(* src/nios_software/video_app2/burst_master_test.c.  A transfer writes    *)
(* the parameters, starts the engine, polls the status until it is done    *)
(* and acknowledges; any number of edges pass between two accesses.        *)
(***************************************************************************)
EXTENDS BurstEngine

CONSTANT
  Job       \* the transfers: src, dst, len (in bytes), rd and wr (burst
            \* lengths in words), coeff (used by burst_master_4 only), and
            \* order, the registers written before the start, in order

(* The order of the parameters in the two tests, by register number.       *)
OcmOrder == <<2, 3, 4, 5, 6>>
DdrOrder == <<5, 6, 7, 2, 3, 4>>

(* What a transfer needs to make sense: bursts that are powers of two and  *)
(* fit a FIFO, a padded length in whole write bursts, and, where the       *)
(* length is written before the bursts, one that needs no padding whatever *)
(* the read burst of the transfer before was.                              *)
PowersOfTwo == {2 ^ n : n \in 0..8}

ASSUME JobAssumption ==
  /\ BURST_COUNT \in PowersOfTwo
  /\ \A j \in Job :
       /\ {j.src, j.dst, j.len} \subseteq Nat
       /\ {j.rd, j.wr} \subseteq PowersOfTwo \cap 1..FIFO_DEPTH
       /\ Padded(j.len, j.rd) % (4 * j.wr) = 0
       /\ {j.src + Padded(j.len, j.rd), j.dst + Padded(j.len, j.rd)} \subseteq 0..(AddrSpan - 1)
       /\ j.order \in {OcmOrder, DdrOrder}
       /\ j.order = OcmOrder =>
            /\ j.len % (4 * BURST_COUNT) = 0
            /\ \A k \in Job : j.len % (4 * k.rd) = 0

VARIABLES
  job,      \* the transfer under way, or the last one
  phase,    \* "idle", "setting", "starting", "polling" or "acking"
  todo      \* the registers still to be set, in order

testVars == <<job, phase, todo>>

ValueOf(r) ==
  CASE r = 2 -> job.src [] r = 3 -> job.dst [] r = 4 -> job.len
    [] r = 5 -> job.rd  [] r = 6 -> job.wr  [] r = 7 -> job.coeff

Choose(w) ==
  /\ phase = "idle" /\ w = NoWrite
  /\ job' \in Job /\ todo' = job'.order
  /\ phase' = "setting"

Set(w) ==
  /\ phase = "setting" /\ w = WriteReg(Head(todo), ValueOf(Head(todo)))
  /\ todo' = Tail(todo)
  /\ phase' = IF todo' = <<>> THEN "starting" ELSE "setting"
  /\ UNCHANGED job

Start(w) ==
  /\ phase = "starting" /\ w = WriteReg(0, 1)
  /\ phase' = "polling"
  /\ UNCHANGED <<job, todo>>

(* The status register is read without wait states.                        *)
Poll(w) ==
  /\ phase = "polling" /\ w = NoWrite
  /\ phase' = IF ctrl_done_reg THEN "acking" ELSE "polling"
  /\ UNCHANGED <<job, todo>>

Acknowledge(w) ==
  /\ phase = "acking" /\ w = WriteReg(1, 1)
  /\ phase' = "idle"
  /\ UNCHANGED <<job, todo>>

Compute(w) == w = NoWrite /\ UNCHANGED testVars

Software(w) ==
  \/ Choose(w) \/ Set(w) \/ Start(w) \/ Poll(w) \/ Acknowledge(w) \/ Compute(w)

(* The write, if any, that the software can make at this edge.             *)
Writes ==
  {NoWrite} \cup CASE phase = "setting"  -> {WriteReg(Head(todo), ValueOf(Head(todo)))}
                   [] phase = "starting" -> {WriteReg(0, 1)}
                   [] phase = "acking"   -> {WriteReg(1, 1)}
                   [] OTHER              -> {}

TestInit == job \in Job /\ phase = "idle" /\ todo = <<>>

(* The processor is reset with the engine.                                 *)
TestReset == phase' = "idle" /\ todo' = <<>> /\ UNCHANGED job
-----------------------------------------------------------------------------
(* What the properties of both engines are stated with.                    *)

WordsOfJob == Padded(job.len, job.rd) \div 4

(* The transfer has been started and software has not seen its end.        *)
UnderWay == phase = "polling" /\ ~ctrl_start
=============================================================================
