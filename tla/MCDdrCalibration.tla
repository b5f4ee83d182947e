-------------------------- MODULE MCDdrCalibration --------------------------
(* Eyes of three and four taps against delays of zero to three: so early   *)
(* or so late that the delays hardly reach their middle, and in between.   *)
EXTENDS DdrCalibration

Eyes == {[lo |-> -3, hi |-> -1], [lo |-> -1, hi |-> 2],
         [lo |->  0, hi |->  2], [lo |->  2, hi |->  4]}
=============================================================================
