-------------------------- MODULE MCVideoPipeline --------------------------
(***************************************************************************)
(* Small instances of VideoPipeline: a picture of two lines of two pixels, *)
(* bursts of one word and a FIFO of four.                                  *)
(***************************************************************************)
EXTENDS VideoPipeline

(* Software switches between stream and pattern, starts frames with the    *)
(* continuous mode on, and moves to the other frame, at any time and in    *)
(* any order.                                                              *)
Player ==
  {NoAccess, WriteOf(0, 8), WriteOf(0, 0), WriteOf(1, {"cont", "start"}), WriteOf(6, 100)}

(* How far behind a side of the FIFO may be.                               *)
MaxUnseen == 1
SidesKeepUp == unseenReads <= MaxUnseen /\ unseenWrites <= MaxUnseen
=============================================================================
