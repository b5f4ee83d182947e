--------------------------- MODULE MCHdmiPattern ---------------------------
(***************************************************************************)
(* HdmiPattern on a picture of 16 by 8 with eight levels per component.    *)
(***************************************************************************)
EXTENDS HdmiPattern

AllModes   == 0..7 \cup {9}
InverseLut == [i \in 0..(LEVELS - 1) |-> LEVELS - 1 - i]
Glyph      == [r \in 0..15 |-> IF r % 2 = 0 THEN {0, 2, 3} ELSE {1, 15}]
=============================================================================
