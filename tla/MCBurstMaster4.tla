--------------------------- MODULE MCBurstMaster4 ---------------------------
(***************************************************************************)
(* Small transfers: FIFOs of four words, a pipeline of four stages, source *)
(* at 0, destination at 100.                                               *)
(***************************************************************************)
EXTENDS BurstMaster4

Transfer(len, rd, wr, coeff) ==
  [src |-> 0, dst |-> 100, len |-> len, rd |-> rd, wr |-> wr, coeff |-> coeff,
   order |-> DdrOrder]

(* Equal bursts, long writes, long reads, and two coefficients.            *)
SmallJobs ==
  {Transfer(32, 2, 2, 5), Transfer(32, 1, 4, 3), Transfer(20, 4, 2, 5)}
=============================================================================
