----------------------------- MODULE EyeCentre -----------------------------
(***************************************************************************)
(* The deskew of the DDR3 calibration (sequencer.c): the data lines of a   *)
(* group and its strobe go through adjustable delays, and a line can be    *)
(* read, or written, iff its delay less the strobe's lies in the line's    *)
(* eye.  A sweep of the lines' delay, and one of the strobe's, find the    *)
(* edges of every eye; the centring then moves each line to its middle.    *)
(* Reads (rw_mgr_mem_calibrate_vfifo_center) and writes (.._writes_center) *)
(* share this algorithm and differ in the strobe, which reads move to the  *)
(* middle of the narrowest eye and writes leave where it is.               *)
(***************************************************************************)
EXTENDS Integers, FiniteSets

CONSTANTS
  BITS,     \* data lines of a group: 8
  MAX       \* delay taps: IO_IO_IN_DELAY_MAX, .._OUT1_.., IO_DQS_IN_..: 31

ASSUME EyeAssumption == BITS \in Nat \ {0} /\ MAX \in Nat \ {0}

Bit  == 0..(BITS - 1)
None == MAX + 1             \* an edge not found

NoEdges == [left |-> [b \in Bit |-> None], right |-> [b \in Bit |-> None]]

(* One tap of the first sweep: pass is the set of lines that read well.    *)
LeftMarked(e, pass, d) ==
  [left  |-> [b \in Bit |-> IF b \in pass THEN d ELSE e.left[b]],
   right |-> [b \in Bit |-> IF b \notin pass /\ e.left[b] = None
                            THEN -(d + 1) ELSE e.right[b]]]

(* Between the sweeps: a line that never read well has no right edge yet.  *)
Cleared(e) ==
  [e EXCEPT !.right = [b \in Bit |-> IF e.left[b] = None THEN None ELSE e.right[b]]]

(* One tap of the second sweep.                                            *)
RightMarked(e, pass, d) ==
  [left  |-> [b \in Bit |-> IF /\ b \notin pass /\ e.right[b] = None
                               /\ d # 0 \/ e.left[b] = None
                            THEN -(d + 1) ELSE e.left[b]],
   right |-> [b \in Bit |-> IF b \in pass THEN d
                            ELSE IF d = 0 /\ e.right[b] = None /\ e.left[b] # None
                            THEN -1 ELSE e.right[b]]]

Missed(e) == {b \in Bit : e.left[b] = None \/ e.right[b] = None}
-----------------------------------------------------------------------------
(* The centring.  Division in C rounds towards zero.                       *)
Halved(n) == IF n >= 0 THEN n \div 2 ELSE -((-n) \div 2)

Width(e, b) == e.left[b] - e.right[b]
Narrowest(e) == CHOOSE w \in {Width(e, b) : b \in Bit} : \A b \in Bit : w <= Width(e, b)

(* Seeded fault: an odd width is rounded the other way.                    *)
mid_minLow(e) == Halved(Narrowest(e))

mid_min(e) == LET w == Narrowest(e) IN Halved(IF w > 0 THEN w + 1 ELSE w)

Clamped(n) == IF n > MAX THEN MAX ELSE IF n < 0 THEN 0 ELSE n

(* Line b, now at delay dq, with the strobe moved back by moved taps.      *)
CentredDq(e, b, dq, moved) ==
  Clamped(dq + Halved(Width(e, b) - Narrowest(e)) + (mid_min(e) - moved))

(* How far it then is from each edge.                                      *)
LeftMargin(e, b, shift, moved)  == e.left[b] - shift - moved

(* Seeded fault: the strobe's move counts for the wrong side.              *)
RightMarginWrongSide(e, b, shift, moved) == e.right[b] + shift - moved

RightMargin(e, b, shift, moved) == e.right[b] + shift + moved

InMargins(e, shift, moved) ==
  \A b \in Bit : /\ LeftMargin(e, b, shift[b], moved) >= 0
                 /\ RightMargin(e, b, shift[b], moved) >= 0
=============================================================================
