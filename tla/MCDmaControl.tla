---------------------------- MODULE MCDmaControl ----------------------------
(***************************************************************************)
(* DmaControl on frames of two bursts of one word.                         *)
(***************************************************************************)
EXTENDS DmaControl

Everything == CallsAllowed
=============================================================================
