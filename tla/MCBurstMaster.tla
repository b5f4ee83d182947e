--------------------------- MODULE MCBurstMaster ---------------------------
(***************************************************************************)
(* Small transfers: FIFOs of four words, source at 0, destination at 100.  *)
(***************************************************************************)
EXTENDS BurstMaster

Transfer(len, rd, wr, order) ==
  [src |-> 0, dst |-> 100, len |-> len, rd |-> rd, wr |-> wr,
   coeff |-> 1, order |-> order]

(* Equal bursts, short reads gathered into long writes and the reverse, a  *)
(* padded length, an empty transfer, and the order of either test.         *)
SmallJobs ==
  {Transfer(48, 2, 2, OcmOrder), Transfer(32, 2, 4, DdrOrder), Transfer(24, 4, 1, DdrOrder),
   Transfer(64, 1, 4, OcmOrder), Transfer(0, 2, 2, DdrOrder)}
=============================================================================
