---------------------------- MODULE MCDqsEnable ----------------------------
(* Windows from nothing to a cycle and a half.                             *)
EXTENDS DqsEnable

Lengths == 0..((3 * Cycle) \div 2)
=============================================================================
