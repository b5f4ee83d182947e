----------------------------- MODULE HdmiRaster -----------------------------
(***************************************************************************)
(* The pixel-clock half of src/RTL/hdmi_sync_gen.v: the raster counters,   *)
(* the sync, data-enable and pixel pipelines, the pattern generator and    *)
(* the read request to the stream FIFO.  One step is one rising edge of    *)
(* clk_pixel.                                                              *)
(*                                                                         *)
(* A colour component has LEVELS values (256), and a pixel packs three of  *)
(* them.  The mode, the gamma enable and the two tables belong to the clk  *)
(* half (HdmiCsr.tla) and are read across the clock domains as they are;   *)
(* here they are inputs.                                                   *)
(***************************************************************************)
EXTENDS Integers

CONSTANTS
  H_VISIBLE, H_FRONT, H_SYNC, H_TOTAL,    \* 960, 48, 32, 1120 pixels
  V_VISIBLE, V_FRONT, V_SYNC, V_TOTAL,    \* 540, 3, 5, 563 lines
  GRID,                                   \* pitch of the grid pattern (60)
  LEVELS                                  \* values of a colour component

ASSUME RasterAssumption ==
  /\ {H_FRONT, V_FRONT} \subseteq Nat
  /\ {H_SYNC, V_SYNC, V_VISIBLE, GRID} \subseteq Nat \ {0}
  /\ H_VISIBLE \in Nat \ {0, 1}
  /\ H_TOTAL \in Nat /\ H_VISIBLE + H_FRONT + H_SYNC <= H_TOTAL
  /\ V_TOTAL \in Nat /\ V_VISIBLE + V_FRONT + V_SYNC <= V_TOTAL
  /\ LEVELS \in Nat \ 0..7

VARIABLES
  h_cnt, v_cnt,                 \* column and line
  visible_d1, hs_d1, vs_d1,     \* one edge behind the counters
  vs_toggle,                    \* flips at the start of every vertical sync
  hdmi_d, hdmi_de, hdmi_hs, hdmi_vs   \* the outputs, syncs active low

rasterVars == <<h_cnt, v_cnt, visible_d1, hs_d1, vs_d1, vs_toggle,
                hdmi_d, hdmi_de, hdmi_hs, hdmi_vs>>
-----------------------------------------------------------------------------
VisibleAt(h, v) == h < H_VISIBLE /\ v < V_VISIBLE
HSyncAt(h) == H_VISIBLE + H_FRONT <= h /\ h < H_VISIBLE + H_FRONT + H_SYNC
VSyncAt(v) == V_VISIBLE + V_FRONT <= v /\ v < V_VISIBLE + V_FRONT + V_SYNC

visible == VisibleAt(h_cnt, v_cnt)
vs_wire == VSyncAt(v_cnt)

(* Seeded fault: words are requested on every line, blanked or not.        *)
StreamReadEveryLine(mode) == h_cnt < H_VISIBLE /\ mode = 8

stream_rd_en(mode) == visible /\ mode = 8
-----------------------------------------------------------------------------
(* Pixels: what each mode shows when the counters stand at (h, v).         *)

Pixel(r, g, b) == (r * LEVELS + g) * LEVELS + b
Grey(x) == Pixel(x, x, x)
Full == LEVELS - 1

ramp(h) == IF h < H_VISIBLE THEN (h * Full) \div (H_VISIBLE - 1) ELSE 0

grid_line(h, v) == VisibleAt(h, v) /\ (h % GRID = 0 \/ v % GRID = 0)

(* Eight bars; right of the last boundary, blanking included, is bar 7.    *)
bar_idx(h) ==
  LET left == {i \in 1..7 : h >= (i * H_VISIBLE) \div 8}
  IN  IF left = {} THEN 0 ELSE CHOOSE i \in left : \A j \in left : j <= i

(* A 16x16 bitmap scaled by four: bits 5..2 of the counters index it.  Row *)
(* r is the set of its lit columns.                                        *)
char_pixel(h, v, bitmap) == (h \div 4) % 16 \in bitmap[(v \div 4) % 16]
char_color(h, v) ==
  Pixel((h + v) % LEVELS, (h \div 4) % LEVELS, (v \div 4) % LEVELS)

pre_gamma_d(mode, h, v, bitmap, stream_data) ==
  CASE mode = 0 -> Pixel(Full, 0, 0)
    [] mode = 1 -> Pixel(0, Full, 0)
    [] mode = 2 -> Pixel(0, 0, Full)
    [] mode = 3 -> Grey(ramp(h))
    [] mode = 4 -> IF grid_line(h, v) THEN Grey(Full) ELSE 0
    [] mode = 6 -> Grey(bar_idx(h) * (LEVELS \div 8))
    [] mode = 7 -> IF char_pixel(h, v, bitmap) THEN char_color(h, v) ELSE 0
    [] mode = 8 -> stream_data
    [] OTHER    -> Grey(Full)

(* The gamma table is looked up for each component.                        *)
gamma_of(lut, p) ==
  Pixel(lut[p \div (LEVELS * LEVELS)], lut[(p \div LEVELS) % LEVELS],
        lut[p % LEVELS])
-----------------------------------------------------------------------------
RasterInit ==
  /\ h_cnt = 0 /\ v_cnt = 0
  /\ visible_d1 = FALSE /\ hs_d1 = FALSE /\ vs_d1 = FALSE
  /\ vs_toggle = FALSE
  /\ hdmi_d = 0 /\ hdmi_de = FALSE /\ hdmi_hs = TRUE /\ hdmi_vs = TRUE

Count ==
  /\ h_cnt' = (h_cnt + 1) % H_TOTAL
  /\ v_cnt' = IF h_cnt = H_TOTAL - 1 THEN (v_cnt + 1) % V_TOTAL ELSE v_cnt

(* Seeded fault: TRYERROR.md section 6 the other way round, data enable is *)
(* a stage short of the pixel.                                             *)
ShiftShortDe ==
  /\ visible_d1' = visible
  /\ hs_d1' = HSyncAt(h_cnt)
  /\ vs_d1' = vs_wire
  /\ hdmi_de' = visible
  /\ hdmi_hs' = ~hs_d1
  /\ hdmi_vs' = ~vs_d1

(* Two stages between the counters and the outputs.                        *)
Shift ==
  /\ visible_d1' = visible
  /\ hs_d1' = HSyncAt(h_cnt)
  /\ vs_d1' = vs_wire
  /\ hdmi_de' = visible_d1
  /\ hdmi_hs' = ~hs_d1
  /\ hdmi_vs' = ~vs_d1

(* Seeded fault: the toggle flips at the edge at which the sync begins.    *)
ToggleEarly ==
  vs_toggle' = IF VSyncAt(v_cnt') /\ ~vs_wire THEN ~vs_toggle ELSE vs_toggle

Toggle == vs_toggle' = IF vs_wire /\ ~vs_d1 THEN ~vs_toggle ELSE vs_toggle

(* The pixel stage: the second stage of the pipeline, which looks at the   *)
(* counters of its own edge.                                               *)
Output(mode, gamma, lut, bitmap, stream_data) ==
  hdmi_d' = LET p == pre_gamma_d(mode, h_cnt, v_cnt, bitmap, stream_data)
            IN  IF ~visible_d1 THEN 0
                ELSE IF gamma THEN gamma_of(lut, p) ELSE p

RasterEdge(mode, gamma, lut, bitmap, stream_data) ==
  /\ Count
  /\ Shift
  /\ Toggle
  /\ Output(mode, gamma, lut, bitmap, stream_data)

(* reset_n is asynchronous and clears what power-up clears.                *)
RasterReset ==
  /\ h_cnt' = 0 /\ v_cnt' = 0
  /\ visible_d1' = FALSE /\ hs_d1' = FALSE /\ vs_d1' = FALSE
  /\ vs_toggle' = FALSE
  /\ hdmi_d' = 0 /\ hdmi_de' = FALSE /\ hdmi_hs' = TRUE /\ hdmi_vs' = TRUE
-----------------------------------------------------------------------------
(* Properties                                                              *)

(* Where the counters stood n edges ago.                                   *)
Ago(n) ==
  LET at == (v_cnt * H_TOTAL + h_cnt - n) % (H_TOTAL * V_TOTAL)
  IN  [h |-> at % H_TOTAL, v |-> at \div H_TOTAL]

(* Data enable, horizontal and vertical sync describe one and the same     *)
(* position, that of two edges ago, and what is not enabled is black.      *)
OutputsTogether ==
  LET at == Ago(2)
  IN  /\ hdmi_de => VisibleAt(at.h, at.v) /\ hdmi_hs /\ hdmi_vs
      /\ ~hdmi_hs => HSyncAt(at.h)
      /\ ~hdmi_vs => VSyncAt(at.v)
      /\ ~hdmi_de => hdmi_d = 0
=============================================================================
