---------------------------- MODULE HdmiPattern ----------------------------
(***************************************************************************)
(* HdmiRaster showing one of its built-in patterns: software has chosen    *)
(* the mode, the gamma enable and the two tables, and leaves them alone.   *)
(***************************************************************************)
EXTENDS HdmiRaster

CONSTANTS Mode, Lut, Bitmap     \* the modes to show, and the two tables

VARIABLES mode, gamma

patternVars == <<rasterVars, mode, gamma>>

PatternInit == RasterInit /\ mode \in Mode /\ gamma \in BOOLEAN

PatternEdge ==
  /\ RasterEdge(mode, gamma, Lut, Bitmap, 0)
  /\ UNCHANGED <<mode, gamma>>

PatternReset == RasterReset /\ UNCHANGED <<mode, gamma>>

PatternSpec == PatternInit /\ [][PatternEdge \/ PatternReset]_patternVars
-----------------------------------------------------------------------------
(* Properties                                                              *)

Shown(h, v) ==
  LET p == pre_gamma_d(mode, h, v, Bitmap, 0)
  IN  IF gamma THEN gamma_of(Lut, p) ELSE p

(* What the comments say (hdmi_sync_gen.v:208 and 213, "Internal Wires for *)
(* Alignment", "Pipeline Registers for DE and Data synchronization", and   *)
(* TRYERROR.md section 6): pixel and data enable belong to one position.   *)
PatternAligned ==
  LET at == Ago(2) IN hdmi_de => hdmi_d = Shown(at.h, at.v)
=============================================================================
