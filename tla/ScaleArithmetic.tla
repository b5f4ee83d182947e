-------------------------- MODULE ScaleArithmetic ---------------------------
(***************************************************************************)
(* The arithmetic of the scaling pipeline of burst_master_4, which         *)
(* BurstMaster4 only follows from stage to stage: a word times a           *)
(* coefficient, times 5243, shifted right by 21.  The software that tests  *)
(* it divides by 400 and allows a difference of one.                       *)
(***************************************************************************)
EXTENDS Integers

(* Stage 1 keeps 32 bits of the product; stage 2 multiplies by a constant  *)
(* of 64 bits, so that its product is whole when it is shifted.            *)
Multiplied(x, coeff) == (x * coeff) % 4294967296
Divided(x) == (x * 5243) \div 2097152

Hardware(x, coeff) == Divided(Multiplied(x, coeff))

(* What the software expects, computed in 64 bits.                         *)
SoftwareCopy(x, coeff) == (x * coeff) \div 400

(* Word i of the source of the test, and its coefficient.                  *)
src(i) == i + 1023
test_coeff == 800
=============================================================================
