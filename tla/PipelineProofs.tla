--------------------------- MODULE PipelineProofs ---------------------------
(***************************************************************************)
(* What is built on the frame reader, for any sizes.                       *)
(*                                                                         *)
(* The picture on the connector (VideoPipeline): what is shown between two *)
(* vertical syncs is one frame of memory or nothing that the observer      *)
(* counts as in step.                                                      *)
(*                                                                         *)
(* The control software (DmaControl): what it may rely on between the read *)
(* of the control word and the write that follows.  The word read stays    *)
(* fresh: its bits are those of the register until the function writes, and*)
(* if it showed the frame reader neither busy nor in continuous mode,      *)
(* nothing can start it but that write.  The bit busy is an edge late, but *)
(* the only trigger it could miss is the function's own.                   *)
(***************************************************************************)
EXTENDS VideoPipeline, DmaControl, VideoPathProofs

-----------------------------------------------------------------------------
(* The raster.                                                             *)

LEMMA RasterConstants ==
  /\ H_VISIBLE \in Nat /\ H_VISIBLE >= 2 /\ H_FRONT \in Nat
  /\ H_SYNC \in Nat /\ H_SYNC >= 1 /\ H_TOTAL \in Nat
  /\ H_VISIBLE + H_FRONT + H_SYNC <= H_TOTAL
  /\ H_TOTAL >= 3
  /\ V_VISIBLE \in Nat /\ V_VISIBLE >= 1 /\ V_FRONT \in Nat
  /\ V_SYNC \in Nat /\ V_SYNC >= 1 /\ V_TOTAL \in Nat
  /\ V_VISIBLE + V_FRONT + V_SYNC <= V_TOTAL
  /\ V_TOTAL >= 2
BY RasterAssumption

(* The position before (h, v) in the order of the raster.                  *)
BackH(h) == IF h > 0 THEN h - 1 ELSE H_TOTAL - 1
BackV(h, v) == IF h > 0 THEN v ELSE IF v > 0 THEN v - 1 ELSE V_TOTAL - 1

OnRaster(h, v) == h \in 0..(H_TOTAL - 1) /\ v \in 0..(V_TOTAL - 1)

LEMMA BackOnRaster ==
  ASSUME NEW h, NEW v, OnRaster(h, v)
  PROVE  OnRaster(BackH(h), BackV(h, v))
BY RasterConstants DEF OnRaster, BackH, BackV

(* Counting modulo n.                                                      *)
LEMMA Successor ==
  ASSUME NEW n \in Nat, NEW x \in 0..(n - 1)
  PROVE  (x + 1) % n = IF x = n - 1 THEN 0 ELSE x + 1
<1>1. n > 0 /\ x \in Nat
  OBVIOUS
<1>2. CASE x = n - 1
  <2>1. n % n = 0
    BY <1>1, SMTT(30)
  <2>2. x + 1 = n
    BY <1>1, <1>2
  <2>3. QED
    BY <1>2, <2>1, <2>2
<1>3. CASE x # n - 1
  <2>1. PICK y \in Nat : y = x + 1
    BY <1>1
  <2>2. 0 <= y /\ y < n
    BY <1>1, <1>3, <2>1
  <2>3. y % n = y
    BY <1>1, <2>1, <2>2, SMTT(30)
  <2>4. QED
    BY <1>3, <2>1, <2>3
<1>4. QED
  BY <1>2, <1>3

(* The counters go from each position of the raster to the next.           *)
LEMMA CountForward ==
  ASSUME OnRaster(h_cnt, v_cnt), Count
  PROVE  /\ h_cnt' = IF h_cnt = H_TOTAL - 1 THEN 0 ELSE h_cnt + 1
         /\ v_cnt' = IF h_cnt # H_TOTAL - 1 THEN v_cnt
                     ELSE IF v_cnt = V_TOTAL - 1 THEN 0 ELSE v_cnt + 1
<1>1. h_cnt \in 0..(H_TOTAL - 1) /\ v_cnt \in 0..(V_TOTAL - 1)
  BY DEF OnRaster
<1>2. H_TOTAL \in Nat /\ V_TOTAL \in Nat
  BY RasterConstants
<1>3. (h_cnt + 1) % H_TOTAL = IF h_cnt = H_TOTAL - 1 THEN 0 ELSE h_cnt + 1
  BY <1>1, <1>2, Successor, Zenon
<1>4. (v_cnt + 1) % V_TOTAL = IF v_cnt = V_TOTAL - 1 THEN 0 ELSE v_cnt + 1
  BY <1>1, <1>2, Successor, Zenon
<1>5. QED
  BY <1>3, <1>4 DEF Count

LEMMA CountBack ==
  ASSUME OnRaster(h_cnt, v_cnt), Count
  PROVE  /\ OnRaster(h_cnt', v_cnt')
         /\ BackH(h_cnt') = h_cnt /\ BackV(h_cnt', v_cnt') = v_cnt
<1>1. PICK h \in 0..(H_TOTAL - 1), v \in 0..(V_TOTAL - 1) : h = h_cnt /\ v = v_cnt
  BY DEF OnRaster
<1>2. PICK i, j : /\ i = h_cnt' /\ j = v_cnt'
                  /\ i = IF h = H_TOTAL - 1 THEN 0 ELSE h + 1
                  /\ j = IF h # H_TOTAL - 1 THEN v
                         ELSE IF v = V_TOTAL - 1 THEN 0 ELSE v + 1
  BY <1>1, CountForward
<1>3. OnRaster(i, j) /\ BackH(i) = h /\ BackV(i, j) = v
  BY <1>1, <1>2, RasterConstants DEF OnRaster, BackH, BackV
<1>4. QED
  BY <1>1, <1>2, <1>3

(* Quotient and remainder.                                                 *)
LEMMA Division ==
  ASSUME NEW x \in Nat, NEW b \in Nat, b > 0
  PROVE  /\ x \div b \in Nat /\ x % b \in 0..(b - 1)
         /\ x = b * (x \div b) + (x % b)
BY SMTT(30)

(* A position is recovered from its number in the raster.                  *)
LEMMA Decode ==
  ASSUME NEW b \in Nat, NEW c \in Nat, NEW m \in 0..(b - 1)
  PROVE  (c * b + m) % b = m /\ (c * b + m) \div b = c
<1> DEFINE x == c * b + m
<1>1. b > 0 /\ m \in Nat /\ x \in Nat /\ x = c * b + m
  BY SMTT(30)
<1> HIDE DEF x
<1>2. PICK r \in Nat, n \in 0..(b - 1) :
        r = x \div b /\ n = x % b /\ x = b * r + n
  <2>1. /\ x \div b \in Nat /\ x % b \in 0..(b - 1)
        /\ x = b * (x \div b) + (x % b)
    BY <1>1, Division, Zenon
  <2>2. QED
    BY <2>1
<1>3. ASSUME NEW s \in Nat, NEW t \in Nat, s > t
      PROVE  b * s >= b * t + b
  <2>1. s - t - 1 \in Nat /\ s = t + 1 + (s - t - 1)
    BY <1>3
  <2>2. PICK u \in Nat : s = t + 1 + u
    BY <2>1
  <2>3. b * s = b * t + b + b * u /\ b * u \in Nat
    BY <2>2, SMTT(30)
  <2>4. PICK d \in Nat, e \in Nat, f \in Nat : d = b * s /\ e = b * t /\ f = b * u
    BY <2>3, SMTT(30)
  <2>5. QED
    BY <2>3, <2>4
<1>4. PICK y \in Nat, z \in Nat : y = b * r /\ z = b * c
  BY SMTT(30)
<1>5. z + m = y + n
  <2>1. c * b = b * c
    BY SMTT(30)
  <2>2. QED
    BY <1>1, <1>2, <1>4, <2>1
<1>6. ~(r > c)
  <2>1. r > c => y >= z + b
    BY <1>3, <1>4
  <2>2. QED
    BY <1>2, <1>4, <1>5, <2>1
<1>7. ~(c > r)
  <2>1. c > r => z >= y + b
    BY <1>3, <1>4
  <2>2. QED
    BY <1>2, <1>4, <1>5, <2>1
<1>8. r = c
  BY <1>2, <1>6, <1>7
<1>9. n = m
  BY <1>2, <1>4, <1>5, <1>8
<1>10. QED
  BY <1>2, <1>8, <1>9 DEF x

(* Ago looks back along the raster: two edges ago, the counters stood two  *)
(* positions before.                                                       *)
LEMMA AgoTwo ==
  ASSUME OnRaster(h_cnt, v_cnt)
  PROVE  /\ Ago(2).h = BackH(BackH(h_cnt))
         /\ Ago(2).v = BackV(BackH(h_cnt), BackV(h_cnt, v_cnt))
<1>1. PICK h \in 0..(H_TOTAL - 1), v \in 0..(V_TOTAL - 1) : h = h_cnt /\ v = v_cnt
  BY DEF OnRaster
<1>2. /\ H_TOTAL \in Nat /\ H_TOTAL >= 3 /\ V_TOTAL \in Nat /\ V_TOTAL >= 2
      /\ h \in Nat /\ v \in Nat
  BY RasterConstants
<1>3. PICK m, n : /\ m = BackH(BackH(h)) /\ n = BackV(BackH(h), BackV(h, v))
                  /\ m \in 0..(H_TOTAL - 1) /\ n \in 0..(V_TOTAL - 1)
  BY <1>2, BackOnRaster DEF OnRaster
<1> DEFINE N == H_TOTAL * V_TOTAL
<1>N. N = H_TOTAL * V_TOTAL
  OBVIOUS
<1> HIDE DEF N
<1>4. \/ v * H_TOTAL + h - 2 = (n * H_TOTAL + m)
      \/ v * H_TOTAL + h - 2 = (n * H_TOTAL + m) - N
  <2>1. CASE h >= 2
    BY <1>2, <1>3, <2>1 DEF BackH, BackV
  <2>2. CASE h < 2 /\ v > 0
    <3>1. m = H_TOTAL + h - 2 /\ n = v - 1
      BY <1>2, <1>3, <2>2 DEF BackH, BackV
    <3>2. (v - 1) * H_TOTAL = v * H_TOTAL - H_TOTAL
      BY <1>2, SMTT(30)
    <3>3. v * H_TOTAL \in Nat
      BY <1>2, SMTT(30)
    <3>4. PICK e \in Nat, g \in Int :
            e = v * H_TOTAL /\ g = n * H_TOTAL /\ g = e - H_TOTAL
      BY <1>2, <3>1, <3>2, <3>3
    <3>5. e + h - 2 = g + m
      BY <1>2, <3>1, <3>4
    <3>6. v * H_TOTAL + h - 2 = n * H_TOTAL + m
      BY <3>4, <3>5
    <3>7. QED
      BY <3>6
  <2>3. CASE h < 2 /\ v = 0
    <3>1. m = H_TOTAL + h - 2 /\ n = V_TOTAL - 1
      BY <1>2, <1>3, <2>3 DEF BackH, BackV
    <3>2. (V_TOTAL - 1) * H_TOTAL = N - H_TOTAL /\ N \in Nat /\ 0 * H_TOTAL = 0
      BY <1>2, <1>N, SMTT(30)
    <3>3. PICK e \in Nat, g \in Int : e = N /\ g = n * H_TOTAL /\ g = e - H_TOTAL
      BY <1>2, <3>1, <3>2
    <3>4. 0 + h - 2 = (g + m) - e
      BY <1>2, <3>1, <3>3
    <3>5. v * H_TOTAL = 0
      BY <2>3, <3>2
    <3>6. v * H_TOTAL + h - 2 = (n * H_TOTAL + m) - N
      BY <3>3, <3>4, <3>5
    <3>7. QED
      BY <3>6
  <2>4. QED
    BY <1>2, <2>1, <2>2, <2>3
<1>5. PICK k \in Nat : k = n * H_TOTAL + m /\ k < N /\ N \in Nat
  <2>1. PICK w \in Nat : V_TOTAL = n + 1 + w
    <3>1. V_TOTAL - n - 1 \in Nat /\ V_TOTAL = n + 1 + (V_TOTAL - n - 1)
      BY <1>2, <1>3
    <3>2. QED
      BY <3>1
  <2>2. n \in Nat /\ m \in Nat
    BY <1>3
  <2>3. /\ N = n * H_TOTAL + H_TOTAL + H_TOTAL * w
        /\ H_TOTAL * w \in Nat /\ n * H_TOTAL \in Nat
    BY <1>2, <1>N, <2>1, <2>2, SMTT(30)
  <2>4. PICK d \in Nat, e \in Nat : d = n * H_TOTAL /\ e = H_TOTAL * w
    BY <2>3
  <2>5. d + m \in Nat /\ d + m < d + H_TOTAL + e /\ d + H_TOTAL + e \in Nat
    BY <1>2, <1>3, <2>2, <2>4
  <2>6. QED
    BY <2>3, <2>4, <2>5
<1>6. k % N = k /\ (k - N) % N = k
  <2>1. PICK e \in Nat : e = N
    BY <1>5
  <2>2. k < e
    BY <1>5, <2>1
  <2>3. k % e = k /\ (k - e) % e = k
    BY <2>2, SMTT(30)
  <2>4. QED
    BY <2>1, <2>3
<1>7. (v * H_TOTAL + h - 2) % N = k
  <2>1. v * H_TOTAL + h - 2 = k \/ v * H_TOTAL + h - 2 = k - N
    <3> DEFINE x == n * H_TOTAL + m
    <3>1. x = k
      BY <1>5
    <3>2. \/ v * H_TOTAL + h - 2 = x
          \/ v * H_TOTAL + h - 2 = x - N
      BY <1>4
    <3> HIDE DEF x
    <3>3. QED
      BY <3>1, <3>2
  <2>2. QED
    BY <1>6, <2>1, Zenon
<1>8. k % H_TOTAL = m /\ k \div H_TOTAL = n
  <2>1. n \in Nat
    BY <1>3
  <2>2. (n * H_TOTAL + m) % H_TOTAL = m /\ (n * H_TOTAL + m) \div H_TOTAL = n
    BY <1>2, <1>3, <2>1, Decode, Zenon
  <2>3. QED
    BY <1>5, <2>2
<1>9. QED
  BY <1>1, <1>3, <1>7, <1>8 DEF Ago, N

(* The stages of the pipeline lag the counters by one and by two places.   *)
(* A stage that is clear says nothing right after a reset, when the        *)
(* counters stand at the origin.                                           *)
Lagging ==
  LET h1 == BackH(h_cnt)   v1 == BackV(h_cnt, v_cnt)
      h2 == BackH(h1)      v2 == BackV(h1, v1)
  IN  /\ visible_d1 => VisibleAt(h1, v1)
      /\ hs_d1 => HSyncAt(h1)
      /\ vs_d1 => VSyncAt(v1)
      /\ hdmi_de => VisibleAt(h2, v2)
      /\ ~hdmi_hs => HSyncAt(h2)
      /\ ~hdmi_vs => VSyncAt(v2)
      /\ h_cnt # 0 \/ v_cnt # 0 =>
           /\ VisibleAt(h1, v1) => visible_d1
           /\ VSyncAt(v1) => vs_d1

RasterIInv ==
  /\ OnRaster(h_cnt, v_cnt)
  /\ {visible_d1, hs_d1, vs_d1, vs_toggle, hdmi_de, hdmi_hs, hdmi_vs} \subseteq BOOLEAN
  /\ Lagging
  /\ ~hdmi_de => hdmi_d = 0

LEMMA RasterAtOrigin ==
  ASSUME h_cnt = 0, v_cnt = 0, ~visible_d1, ~hs_d1, ~vs_d1, vs_toggle \in BOOLEAN,
         {visible_d1, hs_d1, vs_d1} \subseteq BOOLEAN,
         hdmi_d = 0, hdmi_de = FALSE, hdmi_hs = TRUE, hdmi_vs = TRUE
  PROVE  RasterIInv
<1>1. OnRaster(h_cnt, v_cnt)
  BY RasterConstants DEF OnRaster
<1>2. Lagging
  BY DEF Lagging
<1>3. QED
  BY <1>1, <1>2 DEF RasterIInv

LEMMA RasterEdgeKeeps ==
  ASSUME RasterIInv, NEW md, NEW gm, NEW lut, NEW bm, NEW sd,
         RasterEdge(md, gm, lut, bm, sd)
  PROVE  RasterIInv'
<1>1. /\ OnRaster(h_cnt, v_cnt) /\ Lagging
      /\ {visible_d1, hs_d1, vs_d1, vs_toggle} \subseteq BOOLEAN
      /\ Count /\ Shift /\ Toggle /\ Output(md, gm, lut, bm, sd)
  BY DEF RasterIInv, RasterEdge
<1>2. /\ OnRaster(h_cnt', v_cnt')
      /\ BackH(h_cnt') = h_cnt /\ BackV(h_cnt', v_cnt') = v_cnt
  BY <1>1, CountBack
<1>3. /\ visible_d1' = VisibleAt(h_cnt, v_cnt) /\ hs_d1' = HSyncAt(h_cnt)
      /\ vs_d1' = VSyncAt(v_cnt)
      /\ hdmi_de' = visible_d1 /\ hdmi_hs' = ~hs_d1 /\ hdmi_vs' = ~vs_d1
  BY <1>1 DEF Shift, visible, vs_wire
<1>4. /\ visible_d1 => VisibleAt(BackH(h_cnt), BackV(h_cnt, v_cnt))
      /\ hs_d1 => HSyncAt(BackH(h_cnt))
      /\ vs_d1 => VSyncAt(BackV(h_cnt, v_cnt))
  BY <1>1 DEF Lagging
<1>5. Lagging'
  BY <1>2, <1>3, <1>4, Zenon DEF Lagging
<1>6. ~hdmi_de' => hdmi_d' = 0
  BY <1>1, <1>3 DEF Output
<1>7. vs_toggle' \in BOOLEAN
  BY <1>1 DEF Toggle
<1>8. {visible_d1, hs_d1, vs_d1, vs_toggle, hdmi_de, hdmi_hs, hdmi_vs}' \subseteq BOOLEAN
  <2>1. VisibleAt(h_cnt, v_cnt) \in BOOLEAN /\ HSyncAt(h_cnt) \in BOOLEAN
        /\ VSyncAt(v_cnt) \in BOOLEAN
    BY DEF VisibleAt, HSyncAt, VSyncAt
  <2>2. QED
    BY <1>1, <1>3, <1>7, <2>1
<1>9. QED
  BY <1>2, <1>5, <1>6, <1>8 DEF RasterIInv

LEMMA LaggingIsTogether == RasterIInv => OutputsTogether
<1> SUFFICES ASSUME RasterIInv PROVE OutputsTogether
  OBVIOUS
<1>1. OnRaster(h_cnt, v_cnt) /\ Lagging /\ (~hdmi_de => hdmi_d = 0)
  BY DEF RasterIInv
<1>2. PICK h, v : /\ h = Ago(2).h /\ v = Ago(2).v
                  /\ h = BackH(BackH(h_cnt))
                  /\ v = BackV(BackH(h_cnt), BackV(h_cnt, v_cnt))
                  /\ OnRaster(h, v)
  <2>1. OnRaster(BackH(BackH(h_cnt)), BackV(BackH(h_cnt), BackV(h_cnt, v_cnt)))
    BY <1>1, BackOnRaster, Zenon
  <2>2. QED
    BY <1>1, <2>1, AgoTwo
<1>3. /\ hdmi_de => VisibleAt(h, v)
      /\ ~hdmi_hs => HSyncAt(h)
      /\ ~hdmi_vs => VSyncAt(v)
  BY <1>1, <1>2 DEF Lagging
<1>4. /\ VisibleAt(h, v) => ~HSyncAt(h) /\ ~VSyncAt(v)
  BY <1>2, RasterConstants DEF OnRaster, VisibleAt, HSyncAt, VSyncAt
<1>5. QED
  BY <1>1, <1>2, <1>3, <1>4, Zenon DEF OutputsTogether
-----------------------------------------------------------------------------
(* The registers of the clk half, and the crossing of the vertical sync.   *)

CsrFits ==
  /\ shadow_ptr \in Ptr /\ reg_frame_ptr \in Ptr
  /\ dma_start_pulse \in BOOLEAN

(* The toggle follows the vertical sync by a pixel edge, and there is an   *)
(* edge of clk between two pixel edges: in each flip-flop of the chains    *)
(* the sync is there before the toggle is.                                 *)
SyncLeadsToggle ==
  /\ clkSeen => /\ vs_sync_sh[1] = vs_wire
                /\ vsync_toggle_sync_50[1] = vs_toggle
  /\ vs_toggle # vsync_toggle_sync_50[1] => vs_sync_sh[1]
  /\ vsync_toggle_sync_50[1] # vsync_toggle_sync_50[2] => vs_sync_sh[2]
  /\ vsync_toggle_sync_50[2] # vsync_toggle_sync_50[3] => vs_sync_sh[3]

CrossIInv ==
  /\ PathIInv
  /\ RasterIInv
  /\ CsrFits
  /\ SyncLeadsToggle

LEMMA PortsAreInputs ==
  ASSUME PathIInv, CsrFits, NEW w \in {m_read, FALSE}, NEW r \in {inflight # <<>>, FALSE}
  PROVE  DmaPorts(w, r) \in DmaInputs({Fifo!wrusedw})
<1>1. shadow_ptr \in Base /\ dma_start_pulse \in BOOLEAN
  BY PipelineAssumption DEF CsrFits
<1>2. w \in BOOLEAN /\ r \in BOOLEAN
  BY DEF PathIInv, PathTypeOK, DmaTypeOK
<1>3. vsync_edge_sync \in BOOLEAN /\ ("cont" \in reg_global_ctrl) \in BOOLEAN
  BY DEF vsync_edge_sync
<1>4. QED
  BY <1>1, <1>2, <1>3 DEF DmaPorts, DmaInputs

(* A step of the pipeline is a step of the memory side: VideoPipeline      *)
(* implements VideoPath.                                                   *)
LEMMA PipelineStepsPath ==
  ASSUME PathIInv, CsrFits, [PipelineNext]_pipeVars
  PROVE  [PathNext]_pathVars
<1>1. ASSUME NEW acc \in Access, NEW w \in {m_read, FALSE},
             NEW r \in {inflight # <<>>, FALSE}, Clk50(acc, w, r)
      PROVE  PathNext
  BY <1>1, PortsAreInputs DEF Clk50, PathNext
<1>2. CASE ClkHdmi
  <2>1. rdreq \in BOOLEAN
    BY DEF rdreq, stream_rd_en, visible, VisibleAt
  <2>2. QED
    BY <1>2, <2>1 DEF ClkHdmi, PathNext
<1>3. CASE PipelineReset
  BY <1>3 DEF PipelineReset, PathNext
<1>4. CASE UNCHANGED pipeVars
  BY <1>4 DEF pipeVars
<1>5. QED
  BY <1>1, <1>2, <1>3, <1>4 DEF PipelineNext

LEMMA CsrStays ==
  ASSUME CsrFits, [PipelineNext]_pipeVars
  PROVE  CsrFits'
<1>1. ASSUME NEW acc \in Access, NEW w, NEW r, Clk50(acc, w, r)
      PROVE  CsrFits'
  <2>1. CsrEdge(acc, frame_active, dma_done, vs_wire)
    BY <1>1 DEF Clk50
  <2>2. reg_frame_ptr' \in Ptr
    BY <1>1, <2>1, PipelineAssumption DEF CsrEdge, CsrFits, PointsToFrame
  <2>3. shadow_ptr' \in Ptr
    BY <2>1 DEF CsrEdge, Shadow, CsrFits
  <2>4. dma_start_pulse' \in BOOLEAN
    BY <2>1 DEF CsrEdge, WriteControl
  <2>5. QED
    BY <2>2, <2>3, <2>4 DEF CsrFits
<1>2. CASE ClkHdmi
  BY <1>2 DEF ClkHdmi, csrVars, CsrFits
<1>3. CASE PipelineReset
  BY <1>3, CsrAssumption DEF PipelineReset, CsrReset, CsrFits
<1>4. CASE UNCHANGED pipeVars
  BY <1>4 DEF pipeVars, csrVars, CsrFits
<1>5. QED
  BY <1>1, <1>2, <1>3, <1>4 DEF PipelineNext

LEMMA RasterStays ==
  ASSUME RasterIInv, [PipelineNext]_pipeVars
  PROVE  RasterIInv'
<1>1. CASE UNCHANGED rasterVars
  BY <1>1 DEF rasterVars, RasterIInv, OnRaster, Lagging
<1>2. CASE ClkHdmi
  BY <1>2, RasterEdgeKeeps DEF ClkHdmi
<1>3. CASE PipelineReset
  <2>1. RasterReset
    BY <1>3 DEF PipelineReset
  <2>2. OnRaster(0, 0)
    BY RasterConstants DEF OnRaster
  <2>3. OnRaster(h_cnt', v_cnt') /\ Lagging'
    BY <2>1, <2>2 DEF RasterReset, Lagging
  <2>4. QED
    BY <2>1, <2>3 DEF RasterReset, RasterIInv
<1>4. QED
  BY <1>1, <1>2, <1>3 DEF PipelineNext, Clk50, pipeVars

LEMMA ChainsStay ==
  ASSUME RasterIInv, SyncLeadsToggle, [PipelineNext]_pipeVars
  PROVE  SyncLeadsToggle'
<1>1. ASSUME NEW acc \in Access, NEW w, NEW r, Clk50(acc, w, r)
      PROVE  SyncLeadsToggle'
  <2>1. /\ vs_sync_sh' = <<vs_wire, vs_sync_sh[1], vs_sync_sh[2]>>
        /\ vsync_toggle_sync_50' =
             <<vs_toggle, vsync_toggle_sync_50[1], vsync_toggle_sync_50[2]>>
        /\ vs_wire' = vs_wire /\ vs_toggle' = vs_toggle
    BY <1>1 DEF Clk50, CsrEdge, Shadow, rasterVars, vs_wire
  <2>2. QED
    BY <2>1 DEF SyncLeadsToggle
<1>2. CASE ClkHdmi
  <2>1. /\ UNCHANGED <<vs_sync_sh, vsync_toggle_sync_50>>
        /\ clkSeen' = FALSE /\ clkSeen
        /\ vs_toggle' = vs_toggle \/ vs_wire
    BY <1>2 DEF ClkHdmi, csrVars, RasterEdge, Toggle
  <2>2. QED
    BY <2>1 DEF SyncLeadsToggle
<1>3. CASE PipelineReset
  <2>1. /\ vs_sync_sh' = <<FALSE, FALSE, FALSE>>
        /\ vsync_toggle_sync_50' = <<FALSE, FALSE, FALSE>>
        /\ vs_toggle' = FALSE /\ v_cnt' = 0
    BY <1>3 DEF PipelineReset, CsrReset, RasterReset
  <2>2. ~VSyncAt(0)
    BY RasterConstants DEF VSyncAt
  <2>3. vs_wire' = FALSE
    BY <2>1, <2>2 DEF vs_wire, VSyncAt
  <2>4. QED
    BY <2>1, <2>3 DEF SyncLeadsToggle
<1>4. CASE UNCHANGED pipeVars
  BY <1>4 DEF pipeVars, csrVars, rasterVars, SyncLeadsToggle, vs_wire
<1>5. QED
  BY <1>1, <1>2, <1>3, <1>4 DEF PipelineNext

LEMMA CrossInit == PipelineInit => CrossIInv
<1> SUFFICES ASSUME PipelineInit PROVE CrossIInv
  OBVIOUS
<1>1. PathIInv
  BY PathInitIInv DEF PipelineInit
<1>2. RasterIInv
  BY RasterAtOrigin DEF PipelineInit, RasterInit
<1>3. CsrFits
  BY CsrAssumption DEF PipelineInit, CsrInit, CsrFits
<1>4. SyncLeadsToggle
  BY DEF PipelineInit, CsrInit, RasterInit, SyncLeadsToggle
<1>5. QED
  BY <1>1, <1>2, <1>3, <1>4 DEF CrossIInv

LEMMA CrossNext == CrossIInv /\ [PipelineNext]_pipeVars => CrossIInv'
<1> SUFFICES ASSUME CrossIInv, [PipelineNext]_pipeVars PROVE CrossIInv'
  OBVIOUS
<1>1. PathIInv'
  BY PipelineStepsPath, PathNextKeeps DEF CrossIInv
<1>2. QED
  BY <1>1, RasterStays, CsrStays, ChainsStay DEF CrossIInv

(* Data enable and the two syncs describe one position, and what is not    *)
(* enabled is black.                                                       *)
THEOREM PipelineOutputsTogether == PipelineSpec => []OutputsTogether
<1>1. CrossIInv => OutputsTogether
  BY LaggingIsTogether DEF CrossIInv
<1>2. QED
  BY CrossInit, CrossNext, <1>1, PTL DEF PipelineSpec

(* The frame pointer of a vertical sync is taken before the frame reader   *)
(* acts on that vertical sync.                                             *)
THEOREM PipelineShadowBeforeEdge == PipelineSpec => []ShadowBeforeEdge
<1>1. CrossIInv => ShadowBeforeEdge
  BY DEF CrossIInv, SyncLeadsToggle, ShadowBeforeEdge, vsync_edge_sync
<1>2. QED
  BY CrossInit, CrossNext, <1>1, PTL DEF PipelineSpec

(* The pipeline implements its memory side: what is proved of VideoPath    *)
(* holds of the stream that reaches this raster.                           *)
THEOREM PipelineImplementsPath == PipelineSpec => PathSpec
<1>1. PipelineInit => PathInit
  BY DEF PipelineInit
<1>2. CrossIInv /\ [PipelineNext]_pipeVars => [PathNext]_pathVars
  BY PipelineStepsPath DEF CrossIInv
<1>3. QED
  BY CrossInit, CrossNext, <1>1, <1>2, PTL DEF PipelineSpec, PathSpec
-----------------------------------------------------------------------------
(* The picture.                                                            *)

(* The words of the last frame started that the display has taken.         *)
Taken == words_received - Len(fifo)

(* The visible positions before (h, v) on the raster.                      *)
PassedAt(h, v) == v * H_VISIBLE + (IF h < H_VISIBLE THEN h ELSE H_VISIBLE)

StoredFrom(b) ==
  /\ state # "IDLE" => b = FrameBase
  /\ \A i \in 1..Len(fifo) : fifo[i] = b + 4 * (Taken + i - 1)

PictureFrom(b) == \A i \in 1..Len(picture) : picture[i] = b + 4 * (i - 1)

(* On the visible lines of a picture in step, as many words have been      *)
(* taken as visible positions are past, and all but the one on its way     *)
(* through the pixel stage are in the picture.                             *)
Showing(b) ==
  /\ Taken = PassedAt(h_cnt, v_cnt)
  /\ Len(picture) + (IF visible_d1 THEN 1 ELSE 0) = Taken
  /\ PictureFrom(b)
  /\ visible_d1 => q = b + 4 * (Taken - 1)

(* At the origin with the last frame shown and no other started: the first *)
(* read will find the FIFO empty.                                          *)
NothingStarted ==
  /\ h_cnt = 0 /\ v_cnt = 0
  /\ Taken = FRAME_SIZE_WORDS /\ picture = <<>>

(* In the vertical blanking the picture is complete until the sync clears  *)
(* it, and of the next frame, if it has been started, nothing is taken.    *)
SyncShown ==
  \/ v_cnt > V_VISIBLE + V_FRONT
  \/ v_cnt = V_VISIBLE + V_FRONT /\ h_cnt >= 2

CompletePicture ==
  /\ Len(picture) = FRAME_SIZE_WORDS
  /\ \E b \in Base : PictureFrom(b)

Blanked ==
  /\ Taken \in {0, FRAME_SIZE_WORDS}
  /\ picture = <<>> \/ CompletePicture
  /\ SyncShown => picture = <<>>

InStep ==
  /\ Taken \in 0..FRAME_SIZE_WORDS
  /\ state = "IDLE" => words_received = FRAME_SIZE_WORDS
  /\ \E b \in Base : /\ StoredFrom(b)
                     /\ v_cnt < V_VISIBLE => Showing(b) \/ NothingStarted
  /\ v_cnt >= V_VISIBLE => Blanked

(* The frame reader rests before the last word of a frame can be read.     *)
LastWordUnread ==
  state # "IDLE" /\ words_received = FRAME_SIZE_WORDS =>
    /\ dma_done
    /\ unseenWrites > 0 \/ (~clkSeen /\ fifo # <<>>)

PictureIInv ==
  /\ CrossIInv
  /\ LastWordUnread
  /\ picture \in Seq(Nat) /\ synced \in BOOLEAN
  /\ ~synced => picture = <<>>
  /\ synced => InStep

(* A frame has at least two words.                                         *)
LEMMA FrameConstants ==
  /\ FRAME_SIZE_WORDS \in Nat /\ FRAME_SIZE_WORDS >= 2
  /\ FRAME_SIZE_WORDS = V_VISIBLE * H_VISIBLE
<1>1. /\ H_VISIBLE \in Nat /\ H_VISIBLE >= 2 /\ V_VISIBLE \in Nat /\ V_VISIBLE >= 1
  BY RasterConstants
<1>2. H_VISIBLE * V_VISIBLE = V_VISIBLE * H_VISIBLE
  BY <1>1, SMTT(30)
<1>3. PICK u \in Nat : V_VISIBLE = 1 + u
  <2>1. V_VISIBLE - 1 \in Nat /\ V_VISIBLE = 1 + (V_VISIBLE - 1)
    BY <1>1
  <2>2. QED
    BY <2>1
<1>4. V_VISIBLE * H_VISIBLE = H_VISIBLE + u * H_VISIBLE /\ u * H_VISIBLE \in Nat
  BY <1>1, <1>3, SMTT(30)
<1>5. PICK e \in Nat : e = u * H_VISIBLE
  BY <1>4
<1>6. V_VISIBLE * H_VISIBLE \in Nat /\ V_VISIBLE * H_VISIBLE >= 2
  BY <1>1, <1>4, <1>5
<1>7. QED
  BY <1>2, <1>6, PipelineAssumption

-----------------------------------------------------------------------------
(* An edge of clk: the count of the words taken follows the frame reader.  *)
LEMMA ClkTaken ==
  ASSUME PathIInv, NEW in \in DmaInputs({Fifo!wrusedw}), ClkEdge(in)
  PROVE  /\ q' = q /\ Len(fifo') \in Nat /\ words_received' \in Nat
         /\ state = "IDLE" => /\ fifo' = fifo
                              /\ state' = "IDLE" => words_received' = words_received
                              /\ state' # "IDLE" => words_received' = 0
         /\ state # "IDLE" /\ state' # "IDLE" => FrameBase' = FrameBase
         /\ state # "IDLE" /\ state' = "IDLE" => words_received' = FRAME_SIZE_WORDS
         /\ state # "IDLE" =>
              \/ /\ ~in.readdatavalid
                 /\ fifo' = fifo /\ words_received' = words_received
              \/ /\ in.readdatavalid
                 /\ words_received' = words_received + 1
                 /\ Len(fifo') = Len(fifo) + 1
                 /\ \A i \in 1..Len(fifo) : fifo'[i] = fifo[i]
                 /\ fifo'[Len(fifo) + 1] = FrameBase + 4 * words_received
<1>1. /\ DmaIInv /\ PathTypeOK /\ DmaTick(in) /\ Receive(in)
      /\ fifo \in Seq(Nat) /\ Len(fifo) \in Nat /\ inflight \in Seq(Nat)
  BY LenProperties DEF PathIInv, PathTypeOK, DmaIInv, DmaTypeOK, ClkEdge, DmaTick
<1>2. DmaIInv' /\ words_received' \in Nat
  <2>1. DmaIInv'
    BY <1>1, TickKeeps
  <2>2. QED
    BY <2>1, DmaAssumption DEF DmaIInv, DmaTypeOK
<1>3. q' = q /\ fifo' \in Seq(Nat) /\ Len(fifo') \in Nat
  BY WriteEdgeStores, LenProperties DEF ClkEdge, Fifo!WriteEdge
<1>4. ASSUME state = "IDLE"
      PROVE  /\ fifo' = fifo
             /\ state' = "IDLE" => words_received' = words_received
             /\ state' # "IDLE" => words_received' = 0
  <2>1. ~in.readdatavalid /\ (Trigger(in) => words_received' = 0)
    BY <1>1, <1>4, QuietEdge
  <2>2. fifo' = fifo
    BY <2>1, WriteEdgeStores
  <2>3. Trigger(in) <=> state' # "IDLE"
    BY <1>1, <1>4 DEF DmaTick, StartFrame, Rest, LastCommanded, Command, Throttle,
                      Accepted, Stalled, Finish, Drain
  <2>4. ~Trigger(in) => words_received' = words_received
    BY <1>1, <2>1 DEF Receive
  <2>5. QED
    BY <2>1, <2>2, <2>3, <2>4
<1>5. ASSUME state # "IDLE", state' # "IDLE"
      PROVE  FrameBase' = FrameBase
  BY <1>1, <1>5, FrameBaseKept
<1>6. ASSUME state # "IDLE", state' = "IDLE"
      PROVE  words_received' = FRAME_SIZE_WORDS
  <2>1. state = "WAIT_END" /\ AllReceived
    BY <1>1, <1>6 DEF DmaTick, StartFrame, Rest, LastCommanded, Command, Throttle,
                      Accepted, Stalled, Finish, Drain
  <2>2. /\ words_received \in 0..FRAME_SIZE_WORDS /\ FRAME_SIZE_WORDS \in Nat
        /\ words_received' \in 0..FRAME_SIZE_WORDS
    BY <1>1, <1>2, DmaAssumption DEF DmaIInv, DmaTypeOK
  <2>3. words_received = FRAME_SIZE_WORDS
    BY <2>1, <2>2 DEF AllReceived
  <2>4. words_received' = words_received \/ words_received' = words_received + 1
    BY <1>1, <1>6 DEF Receive
  <2>5. QED
    BY <2>2, <2>3, <2>4
<1>7. ASSUME state # "IDLE", ~in.readdatavalid
      PROVE  fifo' = fifo /\ words_received' = words_received
  BY <1>1, <1>7, WriteEdgeStores DEF Receive
<1>8. ASSUME state # "IDLE", in.readdatavalid
      PROVE  /\ words_received' = words_received + 1
             /\ Len(fifo') = Len(fifo) + 1
             /\ \A i \in 1..Len(fifo) : fifo'[i] = fifo[i]
             /\ fifo'[Len(fifo) + 1] = FrameBase + 4 * words_received
  <2>1. inflight # <<>> /\ words_received' = words_received + 1
    BY <1>1, <1>8 DEF Receive
  <2>2. /\ Head(inflight) \in Nat /\ Head(inflight) = inflight[1]
        /\ 1 \in DOMAIN inflight
    <3>1. Len(inflight) \in Nat \ {0} /\ DOMAIN inflight = 1..Len(inflight)
      BY <1>1, <2>1, EmptySeq, LenProperties
    <3>2. QED
      BY <1>1, <2>1, <3>1, HeadTailProperties
  <2>3. inflight[1] = FrameBase + 4 * (words_received + 1 - 1)
    BY <1>1, <2>2 DEF DmaIInv, FrameInOrder
  <2>4. fifo' = Append(fifo, Head(inflight))
    BY <1>8, WriteEdgeStores
  <2>5. words_received + 1 - 1 = words_received
    BY <1>1, DmaAssumption DEF DmaIInv, DmaTypeOK
  <2>6. /\ Len(Append(fifo, Head(inflight))) = Len(fifo) + 1
        /\ \A i \in 1..Len(fifo) : Append(fifo, Head(inflight))[i] = fifo[i]
        /\ Append(fifo, Head(inflight))[Len(fifo) + 1] = Head(inflight)
    BY <1>1, <2>2, AppendProperties
  <2>7. QED
    BY <2>1, <2>2, <2>3, <2>4, <2>5, <2>6
<1>9. QED
  BY <1>2, <1>3, <1>4, <1>5, <1>6, <1>7, <1>8

(* The last word of a frame is in the FIFO, unread and still unseen by the *)
(* read side, at the edge before the frame reader rests.                   *)
LEMMA ClkLastWord ==
  ASSUME PathIInv, LastWordUnread,
         NEW in \in DmaInputs({Fifo!wrusedw}), ClkEdge(in)
  PROVE  LastWordUnread'
<1>1. /\ DmaIInv /\ PathTypeOK /\ DmaTick(in) /\ Receive(in)
      /\ FRAME_SIZE_WORDS \in Nat /\ FRAME_SIZE_WORDS >= 2
      /\ words_received \in Nat
  BY FrameConstants DEF PathIInv, PathTypeOK, DmaIInv, DmaTypeOK, ClkEdge, DmaTick
<1>2. SUFFICES ASSUME state' # "IDLE", words_received' = FRAME_SIZE_WORDS
               PROVE  dma_done' /\ unseenWrites' > 0
  BY DEF LastWordUnread
<1>3. state # "IDLE"
  <2>1. state = "IDLE" => words_received' = 0
    BY <1>2, ClkTaken, Zenon
  <2>2. QED
    BY <1>1, <1>2, <2>1
<1>4. CASE in.readdatavalid
  <2>1. words_received' = words_received + 1
    BY <1>1, <1>4 DEF Receive
  <2>2. words_received = FRAME_SIZE_WORDS - 1
    BY <1>1, <1>2, <2>1
  <2>3. dma_done'
    BY <1>1, <1>4, <2>2 DEF Receive
  <2>4. ~Fifo!wrfull /\ unseenWrites \in Nat
    <3>1. Len(fifo) \in Nat
      BY <1>1, LenProperties DEF PathTypeOK
    <3>2. QED
      BY <1>1, <3>1, CreditLeavesRoom DEF PathTypeOK
  <2>5. unseenWrites' = unseenWrites + 1
    BY <1>4, <2>4 DEF ClkEdge, Fifo!WriteEdge
  <2>6. QED
    BY <2>3, <2>4, <2>5
<1>5. CASE ~in.readdatavalid
  <2>1. words_received = FRAME_SIZE_WORDS
    BY <1>2, <1>3, <1>5, ClkTaken
  <2>2. dma_done
    BY <1>3, <2>1 DEF LastWordUnread
  <2>3. state = "WAIT_END" /\ AllReceived
    BY <1>1, <2>1, <2>2 DEF DmaIInv, DoneIsComplete, AllReceived
  <2>4. state' = "IDLE"
    BY <1>1, <2>3 DEF DmaTick, StartFrame, Rest, LastCommanded, Command, Throttle,
                      Accepted, Stalled, Finish, Drain
  <2>5. QED
    BY <1>2, <2>4
<1>6. QED
  BY <1>4, <1>5

(* While neither the raster nor the words taken move, the picture stays in *)
(* step.                                                                   *)
LEMMA UntakenInStep ==
  ASSUME InStep, UNCHANGED <<h_cnt, v_cnt, visible_d1, q, picture>>, Taken' = Taken,
         state' = "IDLE" => words_received' = FRAME_SIZE_WORDS,
         NEW b \in Base, StoredFrom(b)',
         v_cnt < V_VISIBLE => Showing(b) \/ NothingStarted
  PROVE  InStep'
<1>1. v_cnt' < V_VISIBLE => Showing(b)' \/ NothingStarted'
  BY DEF Showing, NothingStarted, PictureFrom
<1>2. v_cnt' >= V_VISIBLE => Blanked'
  BY DEF InStep, Blanked, CompletePicture, PictureFrom, SyncShown
<1>3. Taken' \in 0..FRAME_SIZE_WORDS
  BY DEF InStep
<1>4. QED
  BY <1>1, <1>2, <1>3 DEF InStep

(* An edge of clk moves no word the display has taken, and a frame started *)
(* in step starts from nothing.                                            *)
LEMMA ClkInStep ==
  ASSUME PictureIInv, NEW acc \in Access, NEW w \in {m_read, FALSE},
         NEW r \in {inflight # <<>>, FALSE}, Clk50(acc, w, r), CrossIInv', synced'
  PROVE  InStep' /\ picture' = picture
<1>1. PICK in \in DmaInputs({Fifo!wrusedw}) : ClkEdge(in)
  BY PortsAreInputs DEF PictureIInv, CrossIInv, Clk50
<1>2. PathIInv /\ PathIInv' /\ picture' = picture
  BY DEF PictureIInv, CrossIInv, Clk50, ObserveClk
<1>3. UNCHANGED <<h_cnt, v_cnt, visible_d1, hdmi_vs>>
  BY DEF Clk50, rasterVars
<1>4. /\ q' = q /\ Len(fifo) \in Nat /\ Len(fifo') \in Nat
      /\ words_received \in 0..FRAME_SIZE_WORDS
      /\ words_received' \in 0..FRAME_SIZE_WORDS
      /\ FRAME_SIZE_WORDS \in Nat /\ FRAME_SIZE_WORDS >= 2
  <2>1. fifo \in Seq(Nat) /\ fifo' \in Seq(Nat)
    BY <1>2 DEF PathIInv, PathTypeOK
  <2>2. Len(fifo) \in Nat /\ Len(fifo') \in Nat
    BY <2>1, LenProperties
  <2>3. /\ words_received \in 0..FRAME_SIZE_WORDS
        /\ words_received' \in 0..FRAME_SIZE_WORDS
    BY <1>2 DEF PathIInv, DmaIInv, DmaTypeOK
  <2>4. q' = q
    BY <1>1, <1>2, ClkTaken
  <2>5. QED
    BY <2>2, <2>3, <2>4, FrameConstants
<1>5. CASE state = "IDLE" /\ state' # "IDLE"
  <2>1. v_cnt >= V_VISIBLE /\ fifo = <<>>
    BY <1>5 DEF Clk50, ObserveClk
  <2>2. fifo' = fifo /\ words_received' = 0
    BY <1>1, <1>2, <1>5, ClkTaken, Zenon
  <2>3. Len(fifo') = 0
    BY <2>1, <2>2, EmptySeq
  <2>4. Taken' = 0
    BY <2>2, <2>3 DEF Taken
  <2>5. PICK b \in Base : b = FrameBase'
    BY <1>2, <1>5 DEF PathIInv, DmaIInv, FrameInOrder
  <2>6. StoredFrom(b)'
    BY <2>3, <2>5 DEF StoredFrom
  <2>7. (picture = <<>> \/ CompletePicture) /\ (SyncShown => picture = <<>>)
    BY <2>1 DEF PictureIInv, InStep, Blanked
  <2>8. Blanked'
    BY <1>2, <1>3, <2>4, <2>7
    DEF Blanked, CompletePicture, PictureFrom, SyncShown
  <2>9. v_cnt' \in Nat /\ ~(v_cnt' < V_VISIBLE)
    <3>1. v_cnt \in Nat
      BY DEF PictureIInv, CrossIInv, RasterIInv, OnRaster
    <3>2. QED
      BY <1>3, <2>1, <3>1, RasterConstants
  <2>10. Taken' \in 0..FRAME_SIZE_WORDS
    BY <1>4, <2>4
  <2>11. QED
    BY <1>2, <1>5, <2>6, <2>8, <2>9, <2>10 DEF InStep
<1>6. CASE ~(state = "IDLE" /\ state' # "IDLE")
  <2>1. synced /\ InStep
    BY <1>6 DEF Clk50, ObserveClk, PictureIInv
  <2>2. PICK b \in Base : /\ StoredFrom(b)
                          /\ v_cnt < V_VISIBLE => Showing(b) \/ NothingStarted
    BY <2>1 DEF InStep
  <2>3. state' = "IDLE" => words_received' = FRAME_SIZE_WORDS
    <3>1. CASE state = "IDLE"
      BY <1>1, <1>2, <2>1, <3>1, ClkTaken DEF InStep
    <3>2. CASE state # "IDLE"
      BY <1>1, <1>2, <3>2, ClkTaken
    <3>3. QED
      BY <3>1, <3>2
  <2>4. UNCHANGED <<h_cnt, v_cnt, visible_d1, q, picture>>
    BY <1>2, <1>3, <1>4
  <2>5. CASE fifo' = fifo /\ words_received' = words_received
    <3>1. Taken' = Taken
      BY <2>5 DEF Taken
    <3>2. state' # "IDLE" => state # "IDLE" /\ FrameBase' = FrameBase
      BY <1>1, <1>2, <1>6, ClkTaken
    <3>3. StoredFrom(b)'
      BY <2>2, <2>5, <3>1, <3>2 DEF StoredFrom
    <3>4. QED
      BY <1>2, <2>1, <2>2, <2>3, <2>4, <3>1, <3>3, UntakenInStep
  <2>6. CASE /\ state # "IDLE" /\ words_received' = words_received + 1
             /\ Len(fifo') = Len(fifo) + 1
             /\ \A i \in 1..Len(fifo) : fifo'[i] = fifo[i]
             /\ fifo'[Len(fifo) + 1] = FrameBase + 4 * words_received
    <3>1. PICK n \in Nat, k \in Nat : n = Len(fifo) /\ k = words_received
      BY <1>4
    <3>2. Taken = k - n /\ Taken' = k - n
      BY <2>6, <3>1 DEF Taken
    <3>3. state' # "IDLE" => FrameBase' = FrameBase
      BY <1>1, <1>2, <2>6, ClkTaken
    <3>4. b = FrameBase /\ b \in Nat
      BY <2>2, <2>6, DmaAssumption DEF StoredFrom
    <3>5. ASSUME NEW i \in 1..Len(fifo')
          PROVE  fifo'[i] = b + 4 * (Taken' + i - 1)
      <4>1. i \in 1..n \/ i = n + 1
        BY <2>6, <3>1, <3>5
      <4>2. CASE i \in 1..n
        BY <2>2, <2>6, <3>1, <3>2, <4>2 DEF StoredFrom
      <4>3. CASE i = n + 1
        <5>1. k = (k - n) + (n + 1) - 1
          BY <3>1
        <5>2. QED
          BY <2>6, <3>1, <3>2, <3>4, <4>3, <5>1
      <4>4. QED
        BY <4>1, <4>2, <4>3
    <3>6. StoredFrom(b)'
      BY <2>6, <3>3, <3>4, <3>5 DEF StoredFrom
    <3>7. QED
      BY <1>2, <2>1, <2>2, <2>3, <2>4, <3>2, <3>6, UntakenInStep
  <2>7. QED
    BY <1>1, <1>2, <1>6, <2>5, <2>6, ClkTaken
<1>7. QED
  BY <1>2, <1>5, <1>6
-----------------------------------------------------------------------------
(* An edge of the pixel clock.                                             *)

(* Where the counters go, and what that means for the words passed.        *)
LEMMA RasterMoves ==
  ASSUME RasterIInv, Count
  PROVE  /\ visible => /\ v_cnt' < V_VISIBLE
                       /\ PassedAt(h_cnt', v_cnt') = PassedAt(h_cnt, v_cnt) + 1
         /\ v_cnt < V_VISIBLE /\ ~visible =>
              IF v_cnt' < V_VISIBLE
              THEN PassedAt(h_cnt', v_cnt') = PassedAt(h_cnt, v_cnt)
              ELSE PassedAt(h_cnt, v_cnt) = FRAME_SIZE_WORDS
         /\ v_cnt < V_VISIBLE /\ v_cnt' >= V_VISIBLE => ~SyncShown'
         /\ v_cnt < V_VISIBLE => PassedAt(h_cnt, v_cnt) \in Nat
         /\ v_cnt >= V_VISIBLE /\ v_cnt' < V_VISIBLE =>
              /\ h_cnt' = 0 /\ v_cnt' = 0
              /\ PassedAt(h_cnt', v_cnt') = 0
              /\ SyncShown
<1>1. PICK h \in 0..(H_TOTAL - 1), v \in 0..(V_TOTAL - 1) : h = h_cnt /\ v = v_cnt
  BY DEF RasterIInv, OnRaster
<1>2. PICK i, j : /\ i = h_cnt' /\ j = v_cnt'
                  /\ i = IF h = H_TOTAL - 1 THEN 0 ELSE h + 1
                  /\ j = IF h # H_TOTAL - 1 THEN v
                         ELSE IF v = V_TOTAL - 1 THEN 0 ELSE v + 1
  BY <1>1, CountForward DEF RasterIInv
<1>3. /\ h \in Nat /\ v \in Nat /\ i \in Nat /\ j \in Nat
      /\ H_VISIBLE \in Nat /\ H_VISIBLE >= 2 /\ H_VISIBLE < H_TOTAL /\ H_TOTAL \in Nat
      /\ H_TOTAL >= 3
      /\ V_VISIBLE \in Nat /\ V_VISIBLE >= 1 /\ V_FRONT \in Nat /\ V_TOTAL \in Nat
      /\ V_VISIBLE + V_FRONT < V_TOTAL
  BY <1>1, <1>2, RasterConstants
<1>4. PICK a \in Nat : a = v * H_VISIBLE
  BY <1>3, SMTT(30)
<1>5. /\ (v + 1) * H_VISIBLE = a + H_VISIBLE
      /\ 0 * H_VISIBLE = 0
  BY <1>3, <1>4, SMTT(30)
<1>6. visible <=> h < H_VISIBLE /\ v < V_VISIBLE
  BY <1>1 DEF visible, VisibleAt
<1>7. ASSUME h < H_VISIBLE, v < V_VISIBLE
      PROVE  j < V_VISIBLE /\ PassedAt(i, j) = PassedAt(h, v) + 1
  <2>1. i = h + 1 /\ j = v
    BY <1>2, <1>3, <1>7
  <2>2. PassedAt(h, v) = a + h /\ PassedAt(i, j) = a + (h + 1)
    BY <1>3, <1>4, <1>7, <2>1 DEF PassedAt
  <2>3. QED
    BY <1>3, <1>4, <1>7, <2>1, <2>2
<1>8. ASSUME v < V_VISIBLE, ~(h < H_VISIBLE)
      PROVE  IF j < V_VISIBLE THEN PassedAt(i, j) = PassedAt(h, v)
                              ELSE PassedAt(h, v) = FRAME_SIZE_WORDS
  <2>1. PassedAt(h, v) = a + H_VISIBLE
    BY <1>4, <1>8 DEF PassedAt
  <2>2. CASE h # H_TOTAL - 1
    <3>1. j = v /\ i = h + 1 /\ ~(i < H_VISIBLE)
      BY <1>2, <1>3, <1>8, <2>2
    <3>2. PassedAt(i, j) = a + H_VISIBLE
      BY <1>4, <3>1 DEF PassedAt
    <3>3. QED
      BY <1>8, <2>1, <3>1, <3>2
  <2>3. CASE h = H_TOTAL - 1
    <3>1. j = v + 1 /\ i = 0 /\ i < H_VISIBLE
      BY <1>2, <1>3, <1>8, <2>3
    <3>2. PassedAt(i, j) = a + H_VISIBLE + 0
      BY <1>5, <3>1 DEF PassedAt
    <3>3. a + H_VISIBLE + 0 = a + H_VISIBLE
      BY <1>3, <1>4
    <3>4. ~(j < V_VISIBLE) => j = V_VISIBLE
      BY <1>3, <1>8, <3>1
    <3>5. j = V_VISIBLE => a + H_VISIBLE = FRAME_SIZE_WORDS
      BY <1>5, <3>1, FrameConstants
    <3>6. QED
      BY <2>1, <3>2, <3>3, <3>4, <3>5
  <2>4. QED
    BY <2>2, <2>3
<1>9. ASSUME v < V_VISIBLE, j >= V_VISIBLE
      PROVE  j <= V_VISIBLE + V_FRONT /\ i < 2
  BY <1>2, <1>3, <1>9
<1>10. PassedAt(h, v) \in Nat
  BY <1>3, <1>4 DEF PassedAt
<1>11. ASSUME v >= V_VISIBLE, j < V_VISIBLE
       PROVE  /\ i = 0 /\ j = 0 /\ PassedAt(i, j) = 0
              /\ v > V_VISIBLE + V_FRONT \/ (v = V_VISIBLE + V_FRONT /\ h >= 2)
  <2>1. i = 0 /\ j = 0 /\ h = H_TOTAL - 1 /\ v = V_TOTAL - 1
    BY <1>2, <1>3, <1>11
  <2>2. PassedAt(i, j) = 0 + 0
    BY <1>3, <1>5, <2>1 DEF PassedAt
  <2>3. QED
    BY <1>3, <2>1, <2>2
<1>12. (v < V_VISIBLE /\ j >= V_VISIBLE) => ~SyncShown'
  <2>1. SUFFICES ASSUME v < V_VISIBLE, j >= V_VISIBLE
                 PROVE  ~(j > V_VISIBLE + V_FRONT) /\ ~(i >= 2)
    BY <1>2 DEF SyncShown
  <2>2. QED
    BY <1>3, <1>9, <2>1
<1>13. (v >= V_VISIBLE /\ j < V_VISIBLE) => SyncShown
  BY <1>1, <1>11 DEF SyncShown
<1>14. QED
  BY <1>1, <1>2, <1>6, <1>7, <1>8, <1>10, <1>11, <1>12, <1>13

(* What the stages of the raster say on the visible lines and below them.  *)
LEMMA StagesOnLines ==
  ASSUME RasterIInv, Count
  PROVE  /\ v_cnt >= V_VISIBLE => ~visible_d1
         /\ v_cnt < V_VISIBLE /\ vs_d1 => ~visible_d1 /\ h_cnt = 0 /\ v_cnt = 0
         /\ v_cnt' >= V_VISIBLE /\ v_cnt >= V_VISIBLE /\ SyncShown' => SyncShown \/ vs_d1
<1>1. PICK h \in 0..(H_TOTAL - 1), v \in 0..(V_TOTAL - 1) : h = h_cnt /\ v = v_cnt
  BY DEF RasterIInv, OnRaster
<1>2. PICK i, j : /\ i = h_cnt' /\ j = v_cnt'
                  /\ i = IF h = H_TOTAL - 1 THEN 0 ELSE h + 1
                  /\ j = IF h # H_TOTAL - 1 THEN v
                         ELSE IF v = V_TOTAL - 1 THEN 0 ELSE v + 1
  BY <1>1, CountForward DEF RasterIInv
<1>3. PICK m, n : /\ m = BackH(h) /\ n = BackV(h, v)
                  /\ m = IF h > 0 THEN h - 1 ELSE H_TOTAL - 1
                  /\ n = IF h > 0 THEN v ELSE IF v > 0 THEN v - 1 ELSE V_TOTAL - 1
  BY DEF BackH, BackV
<1>4. /\ visible_d1 => VisibleAt(m, n)
      /\ vs_d1 => VSyncAt(n)
      /\ h # 0 \/ v # 0 => (VSyncAt(n) => vs_d1)
  BY <1>1, <1>3 DEF RasterIInv, Lagging
<1>5. /\ h \in Nat /\ v \in Nat
      /\ H_VISIBLE \in Nat /\ H_VISIBLE < H_TOTAL /\ H_TOTAL \in Nat /\ H_TOTAL >= 3
      /\ V_VISIBLE \in Nat /\ V_VISIBLE >= 1 /\ V_FRONT \in Nat /\ V_TOTAL \in Nat
      /\ V_SYNC \in Nat /\ V_SYNC >= 1
      /\ V_VISIBLE + V_FRONT < V_TOTAL
  BY <1>1, RasterConstants
<1>6. v >= V_VISIBLE => ~visible_d1
  BY <1>3, <1>4, <1>5 DEF VisibleAt
<1>7. v < V_VISIBLE /\ vs_d1 => ~visible_d1 /\ h = 0 /\ v = 0
  <2>1. SUFFICES ASSUME v < V_VISIBLE, vs_d1
                 PROVE  ~visible_d1 /\ h = 0 /\ v = 0
    OBVIOUS
  <2>2. n >= V_VISIBLE + V_FRONT
    BY <1>4, <2>1 DEF VSyncAt
  <2>3. h = 0 /\ v = 0
    BY <1>3, <1>5, <2>1, <2>2
  <2>4. n = V_TOTAL - 1
    BY <1>3, <2>3
  <2>5. ~VisibleAt(m, n)
    BY <1>5, <2>4 DEF VisibleAt
  <2>6. QED
    BY <1>4, <2>3, <2>5
<1>8. ASSUME v >= V_VISIBLE, j >= V_VISIBLE,
             j > V_VISIBLE + V_FRONT \/ (j = V_VISIBLE + V_FRONT /\ i >= 2),
             ~(v > V_VISIBLE + V_FRONT \/ (v = V_VISIBLE + V_FRONT /\ h >= 2))
      PROVE  vs_d1
  <2>1. h = 1 /\ v = V_VISIBLE + V_FRONT
    BY <1>2, <1>5, <1>8
  <2>2. n = V_VISIBLE + V_FRONT
    BY <1>3, <2>1
  <2>3. VSyncAt(n)
    BY <1>5, <2>2 DEF VSyncAt
  <2>4. QED
    BY <1>4, <2>1, <2>3
<1>9. v_cnt' >= V_VISIBLE /\ v_cnt >= V_VISIBLE /\ SyncShown' => SyncShown \/ vs_d1
  BY <1>1, <1>2, <1>8 DEF SyncShown
<1>10. QED
  BY <1>1, <1>6, <1>7, <1>9

(* The read side: a visible position takes the next word, another none.    *)
LEMMA PixelTaken ==
  ASSUME PictureIInv, ClkHdmi, synced'
  PROVE  /\ visible => /\ fifo # <<>> /\ q' = fifo[1]
                       /\ Taken' = Taken + 1
                       /\ Taken < words_received
         /\ ~visible => fifo' = fifo /\ q' = q /\ Taken' = Taken
         /\ \A b : StoredFrom(b) => StoredFrom(b)'
<1>1. /\ synced /\ (visible => rdreq /\ ~Fifo!rdempty)
      /\ PixelEdge(rdreq)
      /\ PathIInv /\ InStep
  BY DEF ClkHdmi, ObservePixel, PictureIInv, CrossIInv
<1>2. /\ fifo \in Seq(Nat) /\ Len(fifo) \in Nat /\ words_received \in Nat
      /\ unseenWrites \in 0..Len(fifo)
  BY <1>1, LenProperties, DmaAssumption DEF PathIInv, PathTypeOK, DmaTypeOK
<1>3. UNCHANGED <<state, words_received, words_commanded, current_read_addr>>
  BY <1>1 DEF PixelEdge, dmaVars, dmaRegs
<1>4. FrameBase' = FrameBase
  BY <1>3 DEF FrameBase
<1>5. CASE visible
  <2>1. fifo # <<>>
    BY <1>1, <1>2, <1>5, EmptySeq DEF Fifo!rdempty
  <2>2. q' = Head(fifo) /\ fifo' = Tail(fifo)
    BY <1>1, <1>5 DEF PixelEdge, Fifo!ReadEdge
  <2>3. /\ Len(Tail(fifo)) = Len(fifo) - 1 /\ Head(fifo) = fifo[1]
        /\ \A i \in 1..Len(Tail(fifo)) : Tail(fifo)[i] = fifo[i + 1]
    BY <1>2, <2>1, HeadTailProperties
  <2>4. PICK n \in Nat, k \in Nat : n = Len(fifo) /\ k = words_received
    BY <1>2
  <2>5. n > 0
    BY <1>2, <2>1, <2>4, EmptySeq
  <2>6. Taken = k - n /\ Taken' = k - (n - 1)
    BY <1>3, <2>2, <2>3, <2>4 DEF Taken
  <2>7. Taken' = Taken + 1 /\ Taken < k
    BY <2>4, <2>5, <2>6
  <2>8. ASSUME NEW b, StoredFrom(b)
        PROVE  StoredFrom(b)'
    <3>1. ASSUME NEW i \in 1..Len(fifo')
          PROVE  fifo'[i] = b + 4 * (Taken' + i - 1)
      <4>1. i \in 1..Len(Tail(fifo)) /\ i + 1 \in 1..Len(fifo)
        BY <1>2, <2>2, <2>3, <3>1
      <4>2. fifo'[i] = b + 4 * (Taken + (i + 1) - 1)
        BY <2>2, <2>3, <2>8, <4>1 DEF StoredFrom
      <4>3. Taken + (i + 1) - 1 = Taken' + i - 1
        BY <2>4, <2>6, <4>1
      <4>4. QED
        BY <4>2, <4>3
    <3>2. QED
      BY <1>3, <1>4, <2>8, <3>1 DEF StoredFrom
  <2>9. QED
    BY <1>5, <2>1, <2>2, <2>3, <2>4, <2>7, <2>8
<1>6. CASE ~visible
  <2>1. rdreq = FALSE
    BY <1>6 DEF rdreq, stream_rd_en
  <2>2. fifo' = fifo /\ q' = q
    BY <1>1, <2>1 DEF PixelEdge, Fifo!ReadEdge
  <2>3. Taken' = Taken
    BY <1>3, <2>2 DEF Taken
  <2>4. QED
    BY <1>3, <1>4, <1>6, <2>2, <2>3 DEF StoredFrom
<1>7. QED
  BY <1>5, <1>6

(* The pixel stage: the word on its way is shown, unless the sync clears   *)
(* the picture.                                                            *)
LEMMA PixelShown ==
  ASSUME PictureIInv, ClkHdmi, synced'
  PROVE  picture' = IF vs_d1 THEN <<>>
                    ELSE IF visible_d1 THEN Append(picture, q) ELSE picture
<1>1. /\ hdmi_de' = visible_d1 /\ hdmi_vs' = ~vs_d1
      /\ visible_d1 => mode = 8 /\ ~gammaOn
      /\ picture' = IF ~hdmi_vs' THEN <<>>
                    ELSE IF hdmi_de' THEN Append(picture, hdmi_d') ELSE picture
  BY DEF ClkHdmi, ObservePixel, RasterEdge, Shift
<1>2. visible_d1 => hdmi_d' = q
  <2>1. SUFFICES ASSUME visible_d1 PROVE hdmi_d' = q
    OBVIOUS
  <2>2. mode = 8 /\ ~gammaOn
    BY <1>1, <2>1
  <2>3. pre_gamma_d(mode, h_cnt, v_cnt, char_bitmap, q) = q
    BY <2>2 DEF pre_gamma_d
  <2>4. QED
    BY <2>1, <2>2, <2>3 DEF ClkHdmi, RasterEdge, Output
<1>3. QED
  BY <1>1, <1>2

LEMMA PixelInStep ==
  ASSUME PictureIInv, ClkHdmi, synced'
  PROVE  InStep' /\ picture' \in Seq(Nat)
<1>1. /\ synced /\ InStep /\ PathIInv /\ RasterIInv /\ Count
      /\ visible_d1' = visible
      /\ picture \in Seq(Nat) /\ Len(picture) \in Nat /\ q \in Nat
  BY LenProperties
  DEF ClkHdmi, ObservePixel, PictureIInv, CrossIInv, RasterEdge, Shift,
      PathIInv, PathTypeOK
<1>2. UNCHANGED <<state, words_received, words_commanded, current_read_addr>>
  BY DEF ClkHdmi, PixelEdge, dmaVars, dmaRegs
<1>3. PICK b \in Base : /\ StoredFrom(b)
                        /\ v_cnt < V_VISIBLE => Showing(b) \/ NothingStarted
  BY <1>1 DEF InStep
<1>4. StoredFrom(b)' /\ b \in Nat
  BY <1>3, PixelTaken, DmaAssumption
<1>5. /\ FRAME_SIZE_WORDS \in Nat /\ FRAME_SIZE_WORDS >= 2
      /\ words_received \in 0..FRAME_SIZE_WORDS
      /\ Taken \in 0..FRAME_SIZE_WORDS
      /\ V_VISIBLE \in Nat /\ v_cnt \in Nat /\ v_cnt' \in Nat
  <2>1. v_cnt \in Nat /\ v_cnt' \in Nat
    BY <1>1, CountBack, RasterConstants DEF RasterIInv, OnRaster
  <2>2. words_received \in 0..FRAME_SIZE_WORDS
    BY <1>1 DEF PathIInv, DmaIInv, DmaTypeOK
  <2>3. QED
    BY <1>1, <2>1, <2>2, FrameConstants, RasterConstants DEF InStep
<1>6. /\ Taken' \in 0..FRAME_SIZE_WORDS
      /\ visible => Taken' = Taken + 1
      /\ ~visible => Taken' = Taken
  BY <1>5, PixelTaken
<1>7. state' = "IDLE" => words_received' = FRAME_SIZE_WORDS
  BY <1>1, <1>2 DEF InStep
<1>8. CASE v_cnt < V_VISIBLE
  <2>1. Showing(b)
    <3>1. SUFFICES ASSUME NothingStarted PROVE FALSE
      BY <1>3, <1>8
    <3>2. visible
      BY <3>1, RasterConstants DEF NothingStarted, visible, VisibleAt
    <3>3. Taken < words_received
      BY <3>2, PixelTaken
    <3>4. QED
      BY <1>5, <3>1, <3>3 DEF NothingStarted
  <2>2. picture' = IF visible_d1 THEN Append(picture, q) ELSE picture
    <3>1. CASE vs_d1
      <4>1. ~visible_d1 /\ h_cnt = 0 /\ v_cnt = 0
        BY <1>1, <1>8, <3>1, StagesOnLines
      <4>2. PassedAt(0, 0) = 0
        <5>1. 0 * H_VISIBLE = 0 /\ 0 < H_VISIBLE
          BY RasterConstants, SMTT(30)
        <5>2. QED
          BY <5>1 DEF PassedAt
      <4>3. Len(picture) = 0
        BY <1>1, <2>1, <4>1, <4>2 DEF Showing
      <4>4. picture = <<>>
        BY <1>1, <4>3, EmptySeq
      <4>5. QED
        BY <3>1, <4>1, <4>4, PixelShown
    <3>2. CASE ~vs_d1
      BY <3>2, PixelShown
    <3>3. QED
      BY <3>1, <3>2
  <2>3. /\ picture' \in Seq(Nat) /\ Len(picture') = Taken
        /\ PictureFrom(b)'
    <3>1. CASE visible_d1
      <4>1. /\ Append(picture, q) \in Seq(Nat)
            /\ Len(Append(picture, q)) = Len(picture) + 1
            /\ \A i \in 1..Len(picture) : Append(picture, q)[i] = picture[i]
            /\ Append(picture, q)[Len(picture) + 1] = q
        BY <1>1, AppendProperties
      <4>2. Len(picture) + 1 = Taken /\ q = b + 4 * (Taken - 1) /\ PictureFrom(b)
        BY <2>1, <3>1 DEF Showing
      <4>3. picture' = Append(picture, q)
        BY <2>2, <3>1
      <4>4. ASSUME NEW i \in 1..Len(picture')
            PROVE  picture'[i] = b + 4 * (i - 1)
        <5>1. PICK n \in Nat : n = Len(picture)
          BY <1>1
        <5>2. i \in 1..n \/ i = n + 1
          BY <4>1, <4>3, <4>4, <5>1
        <5>3. CASE i \in 1..n
          BY <4>1, <4>2, <4>3, <5>1, <5>3 DEF PictureFrom
        <5>4. CASE i = n + 1
          BY <4>1, <4>2, <4>3, <5>1, <5>4
        <5>5. QED
          BY <5>2, <5>3, <5>4
      <4>5. QED
        BY <4>1, <4>2, <4>3, <4>4 DEF PictureFrom
    <3>2. CASE ~visible_d1
      <4>1. picture' = picture /\ Len(picture) + 0 = Taken
        BY <2>1, <2>2, <3>2 DEF Showing
      <4>2. QED
        BY <1>1, <2>1, <4>1 DEF Showing, PictureFrom
    <3>3. QED
      BY <3>1, <3>2
  <2>4. CASE v_cnt' < V_VISIBLE
    <3>1. Taken' = PassedAt(h_cnt', v_cnt')
      <4>1. Taken = PassedAt(h_cnt, v_cnt)
        BY <2>1 DEF Showing
      <4>2. CASE visible
        BY <1>1, <1>6, <4>1, <4>2, RasterMoves
      <4>3. CASE ~visible
        BY <1>1, <1>6, <1>8, <2>4, <4>1, <4>3, RasterMoves
      <4>4. QED
        BY <4>2, <4>3
    <3>2. Len(picture') + (IF visible_d1' THEN 1 ELSE 0) = Taken'
      BY <1>1, <1>5, <1>6, <2>3
    <3>3. visible_d1' => q' = b + 4 * (Taken' - 1)
      <4>1. SUFFICES ASSUME visible PROVE q' = b + 4 * (Taken' - 1)
        BY <1>1
      <4>2. q' = fifo[1] /\ fifo # <<>>
        BY <4>1, PixelTaken
      <4>3. 1 \in 1..Len(fifo)
        BY <1>1, <4>2, EmptySeq DEF PathIInv, PathTypeOK
      <4>4. fifo[1] = b + 4 * (Taken + 1 - 1)
        BY <1>3, <4>3 DEF StoredFrom
      <4>5. Taken + 1 - 1 = Taken' - 1
        BY <1>5, <1>6, <4>1
      <4>6. QED
        BY <4>2, <4>4, <4>5
    <3>4. Showing(b)'
      BY <2>3, <3>1, <3>2, <3>3 DEF Showing
    <3>5. ~(v_cnt' >= V_VISIBLE)
      BY <1>5, <2>4
    <3>6. QED
      BY <1>4, <1>6, <1>7, <2>3, <3>4, <3>5 DEF InStep
  <2>5. CASE v_cnt' >= V_VISIBLE
    <3>1. ~(v_cnt' < V_VISIBLE)
      BY <1>5, <2>5
    <3>2. ~visible
      BY <1>1, <3>1, RasterMoves
    <3>3. Taken = FRAME_SIZE_WORDS
      BY <1>1, <1>8, <2>1, <3>1, <3>2, RasterMoves DEF Showing
    <3>4. Taken' = FRAME_SIZE_WORDS
      BY <1>6, <3>2, <3>3
    <3>5. CompletePicture'
      BY <2>3, <3>3 DEF CompletePicture
    <3>6. ~SyncShown'
      BY <1>1, <1>8, <2>5, RasterMoves
    <3>7. Blanked'
      BY <3>4, <3>5, <3>6 DEF Blanked
    <3>8. QED
      BY <1>4, <1>6, <1>7, <2>3, <3>1, <3>7 DEF InStep
  <2>6. QED
    BY <1>5, <2>4, <2>5
<1>9. CASE v_cnt >= V_VISIBLE
  <2>1. ~visible_d1 /\ ~visible /\ Blanked
    BY <1>1, <1>5, <1>9, StagesOnLines DEF visible, VisibleAt, InStep
  <2>2. picture' = IF vs_d1 THEN <<>> ELSE picture
    BY <2>1, PixelShown
  <2>3. picture' \in Seq(Nat)
    BY <1>1, <2>2, EmptySeq
  <2>4. Taken' = Taken
    BY <1>6, <2>1
  <2>5. CASE v_cnt' >= V_VISIBLE
    <3>1. SyncShown' => picture' = <<>>
      BY <1>1, <1>9, <2>1, <2>2, <2>5, StagesOnLines DEF Blanked
    <3>2. picture' = <<>> \/ CompletePicture'
      BY <2>1, <2>2 DEF Blanked, CompletePicture, PictureFrom
    <3>3. Blanked'
      BY <2>1, <2>4, <3>1, <3>2 DEF Blanked
    <3>4. ~(v_cnt' < V_VISIBLE)
      BY <1>5, <2>5
    <3>5. QED
      BY <1>4, <1>6, <1>7, <2>3, <3>3, <3>4 DEF InStep
  <2>6. CASE v_cnt' < V_VISIBLE
    <3>1. /\ h_cnt' = 0 /\ v_cnt' = 0 /\ SyncShown
          /\ PassedAt(h_cnt', v_cnt') = 0
      BY <1>1, <1>9, <2>6, RasterMoves
    <3>2. picture' = <<>> /\ ~visible_d1'
      BY <1>1, <2>1, <2>2, <3>1 DEF Blanked
    <3>3. Len(picture') = 0 /\ PictureFrom(b)'
      BY <3>2, EmptySeq DEF PictureFrom
    <3>4. Taken' = 0 => Showing(b)'
      BY <3>1, <3>2, <3>3 DEF Showing
    <3>5. Taken' = FRAME_SIZE_WORDS => NothingStarted'
      BY <3>1, <3>2 DEF NothingStarted
    <3>6. Showing(b)' \/ NothingStarted'
      BY <2>1, <2>4, <3>4, <3>5 DEF Blanked
    <3>7. ~(v_cnt' >= V_VISIBLE)
      BY <1>5, <2>6
    <3>8. QED
      BY <1>4, <1>6, <1>7, <2>3, <3>6, <3>7 DEF InStep
  <2>7. QED
    BY <1>5, <2>5, <2>6
<1>10. QED
  BY <1>5, <1>8, <1>9

LEMMA PixelLastWord ==
  ASSUME PathIInv, LastWordUnread, ClkHdmi
  PROVE  LastWordUnread'
<1>1. /\ clkSeen /\ clkSeen' = FALSE /\ PixelEdge(rdreq)
      /\ UNCHANGED <<state, words_received, dma_done>>
  BY DEF ClkHdmi, PixelEdge, dmaVars, dmaRegs
<1>2. /\ fifo \in Seq(Nat) /\ Len(fifo) \in Nat /\ unseenWrites \in 0..Len(fifo)
  BY LenProperties DEF PathIInv, PathTypeOK
<1>3. SUFFICES ASSUME state # "IDLE", words_received = FRAME_SIZE_WORDS
               PROVE  dma_done /\ fifo' # <<>>
  BY <1>1 DEF LastWordUnread
<1>4. dma_done /\ unseenWrites > 0
  BY <1>1, <1>3 DEF LastWordUnread
<1>5. CASE fifo' = fifo
  <2>1. Len(fifo) # 0
    BY <1>2, <1>4
  <2>2. QED
    BY <1>4, <1>5, <2>1, EmptySeq
<1>6. CASE ~Fifo!rdempty /\ fifo' = Tail(fifo)
  <2>1. Len(fifo) >= 2
    BY <1>2, <1>4, <1>6 DEF Fifo!rdempty
  <2>2. Len(Tail(fifo)) # 0
    <3>1. fifo # <<>>
      BY <1>2, <2>1, EmptySeq
    <3>2. Len(Tail(fifo)) = Len(fifo) - 1
      BY <1>2, <3>1, HeadTailProperties
    <3>3. PICK n \in Nat, m \in Int : n = Len(fifo) /\ m = Len(Tail(fifo))
                                   /\ m = n - 1 /\ n >= 2
      <4>1. Len(fifo) - 1 \in Int
        BY <1>2
      <4>2. QED
        BY <1>2, <2>1, <3>2, <4>1
    <3>4. m # 0
      BY <3>3
    <3>5. QED
      BY <3>3, <3>4
  <2>3. QED
    BY <1>4, <1>6, <2>2, EmptySeq
<1>7. QED
  BY <1>1, <1>5, <1>6 DEF PixelEdge, Fifo!ReadEdge

-----------------------------------------------------------------------------
LEMMA PictureInit == PipelineInit => PictureIInv
<1> SUFFICES ASSUME PipelineInit PROVE PictureIInv
  OBVIOUS
<1>1. state = "IDLE" /\ synced = FALSE /\ picture = <<>>
  BY DEF PipelineInit, PathInit, DmaInit
<1>2. QED
  BY <1>1, CrossInit, EmptySeq DEF PictureIInv, LastWordUnread

LEMMA PictureNext == PictureIInv /\ [PipelineNext]_pipeVars => PictureIInv'
<1> SUFFICES ASSUME PictureIInv, [PipelineNext]_pipeVars PROVE PictureIInv'
  OBVIOUS
<1>1. CrossIInv' /\ CrossIInv /\ PathIInv /\ LastWordUnread
  BY CrossNext DEF PictureIInv, CrossIInv
<1>2. ASSUME NEW acc \in Access, NEW w \in {m_read, FALSE},
             NEW r \in {inflight # <<>>, FALSE}, Clk50(acc, w, r)
      PROVE  PictureIInv'
  <2>1. PICK in \in DmaInputs({Fifo!wrusedw}) : ClkEdge(in)
    BY <1>1, <1>2, PortsAreInputs DEF CrossIInv, Clk50
  <2>2. LastWordUnread'
    BY <1>1, <2>1, ClkLastWord
  <2>3. synced' \in BOOLEAN /\ (~synced' => picture' = <<>>)
    BY <1>2 DEF Clk50, ObserveClk, PictureIInv
  <2>4. synced' => InStep' /\ picture' = picture
    BY <1>1, <1>2, ClkInStep
  <2>5. picture' \in Seq(Nat)
    BY <2>3, <2>4, EmptySeq DEF PictureIInv
  <2>6. QED
    BY <1>1, <2>2, <2>3, <2>4, <2>5 DEF PictureIInv
<1>3. CASE ClkHdmi
  <2>1. LastWordUnread'
    BY <1>1, <1>3, PixelLastWord
  <2>2. synced' \in BOOLEAN /\ (~synced' => picture' = <<>>)
    BY <1>3 DEF ClkHdmi, ObservePixel
  <2>3. synced' => InStep' /\ picture' \in Seq(Nat)
    BY <1>3, PixelInStep
  <2>4. picture' \in Seq(Nat)
    BY <2>2, <2>3, EmptySeq
  <2>5. QED
    BY <1>1, <2>1, <2>2, <2>3, <2>4 DEF PictureIInv
<1>4. CASE PipelineReset
  <2>1. state' = "IDLE" /\ synced' = FALSE /\ picture' = <<>>
    BY <1>4 DEF PipelineReset, PathReset, DmaReset
  <2>2. QED
    BY <1>1, <2>1, EmptySeq DEF PictureIInv, LastWordUnread
<1>5. CASE UNCHANGED pipeVars
  <2>1. /\ UNCHANGED <<state, words_received, words_commanded, current_read_addr,
                       dma_done, fifo, unseenWrites, q, clkSeen, synced, picture,
                       h_cnt, v_cnt, visible_d1>>
    BY <1>5 DEF pipeVars, pathVars, dmaVars, dmaRegs, rasterVars, observer
  <2>2. LastWordUnread'
    BY <1>1, <2>1 DEF LastWordUnread
  <2>3. InStep => InStep'
    BY <2>1 DEF InStep, StoredFrom, Showing, NothingStarted, Blanked,
                CompletePicture, PictureFrom, SyncShown, Taken, FrameBase
  <2>4. QED
    BY <1>1, <2>1, <2>2, <2>3 DEF PictureIInv
<1>6. QED
  BY <1>2, <1>3, <1>4, <1>5 DEF PipelineNext

(* Between two vertical syncs the connector shows one frame of memory,     *)
(* word for word from its first, when the observer counts it as in step.   *)
THEOREM PipelinePictureIsOneFrame == PipelineSpec => []PictureIsOneFrame
<1>1. PictureIInv => PictureIsOneFrame
  <2> SUFFICES ASSUME PictureIInv PROVE PictureIsOneFrame
    OBVIOUS
  <2>1. DOMAIN picture = 1..Len(picture)
    BY LenProperties DEF PictureIInv
  <2>2. picture = <<>> \/ \E b \in Base : PictureFrom(b)
    <3>1. CASE synced /\ v_cnt < V_VISIBLE
      BY <3>1 DEF PictureIInv, InStep, Showing, NothingStarted
    <3>2. CASE synced /\ v_cnt >= V_VISIBLE
      BY <3>2 DEF PictureIInv, InStep, Blanked, CompletePicture
    <3>3. v_cnt < V_VISIBLE \/ v_cnt >= V_VISIBLE
      BY RasterConstants DEF PictureIInv, CrossIInv, RasterIInv, OnRaster
    <3>4. CASE ~synced
      BY <3>4 DEF PictureIInv
    <3>5. QED
      BY <3>1, <3>2, <3>3, <3>4 DEF PictureIInv
  <2>3. CASE picture = <<>>
    <3>1. \A b : \A i \in DOMAIN picture : picture[i] = b + 4 * (i - 1)
      BY <2>1, <2>3, EmptySeq
    <3>2. DefaultPtr \in Base
      BY CsrAssumption, PipelineAssumption
    <3>3. QED
      BY <3>1, <3>2 DEF PictureIsOneFrame
  <2>4. QED
    BY <2>1, <2>2, <2>3 DEF PictureIsOneFrame, PictureFrom
<1>2. QED
  BY PictureInit, PictureNext, <1>1, PTL DEF PipelineSpec

(* A picture in step is complete at the vertical sync, and the frame       *)
(* reader and the FIFO are ready for the next one or already in it.        *)
THEOREM PipelineInStepAtVsync == PipelineSpec => []InStepAtVsync
<1>1. PictureIInv => InStepAtVsync
  <2> SUFFICES ASSUME PictureIInv, synced, vs_wire
               PROVE  /\ Len(picture) \in {0, FRAME_SIZE_WORDS}
                      /\ \/ state = "IDLE" /\ fifo = <<>>
                         \/ state # "IDLE" /\ words_received = Len(fifo)
    BY DEF InStepAtVsync
  <2>1. v_cnt >= V_VISIBLE
    BY RasterConstants DEF PictureIInv, CrossIInv, RasterIInv, OnRaster, vs_wire, VSyncAt
  <2>2. Blanked /\ InStep /\ LastWordUnread /\ PathIInv
    BY <2>1 DEF PictureIInv, CrossIInv, InStep
  <2>3. Len(picture) \in {0, FRAME_SIZE_WORDS}
    BY <2>2, EmptySeq DEF Blanked, CompletePicture
  <2>4. PICK n \in Nat, k \in 0..FRAME_SIZE_WORDS, u \in Nat, d \in Nat :
          /\ n = Len(fifo) /\ k = words_received /\ u = unseenReads
          /\ d = FRAME_SIZE_WORDS /\ d >= 2 /\ fifo \in Seq(Nat)
          /\ unseenWrites \in 0..n
    <3>1. /\ fifo \in Seq(Nat) /\ unseenReads \in Nat /\ unseenWrites \in 0..Len(fifo)
          /\ words_received \in 0..FRAME_SIZE_WORDS
      BY <2>2 DEF PathIInv, PathTypeOK, DmaIInv, DmaTypeOK
    <3>2. Len(fifo) \in Nat
      BY <3>1, LenProperties
    <3>3. QED
      BY <3>1, <3>2, FrameConstants
  <2>5. CASE Taken = FRAME_SIZE_WORDS
    <3>1. k = d /\ n = 0
      BY <2>4, <2>5 DEF Taken
    <3>2. fifo = <<>>
      <4>1. Len(fifo) = 0 /\ fifo \in Seq(Nat)
        BY <2>4, <3>1
      <4>2. QED
        BY <4>1, EmptySeq
    <3>3. ~(unseenWrites > 0)
      <4>1. unseenWrites \in 0..0
        BY <2>4, <3>1
      <4>2. QED
        BY <4>1
    <3>4. state = "IDLE"
      <4>1. words_received = FRAME_SIZE_WORDS
        BY <2>4, <3>1
      <4>2. QED
        BY <2>2, <3>2, <3>3, <4>1 DEF LastWordUnread
    <3>5. QED
      BY <2>3, <3>2, <3>4
  <2>6. CASE Taken = 0
    <3>1. k = n
      BY <2>4, <2>6 DEF Taken
    <3>2. ASSUME state = "IDLE" PROVE FALSE
      <4>1. k = d
        BY <2>2, <2>4, <3>2 DEF InStep
      <4>2. n + u <= FIFO_DEPTH - 2
        <5>1. /\ Fifo!UsedSeen + Len(inflight) + Commanding <= FIFO_DEPTH - 2
              /\ Len(inflight) \in Nat /\ Commanding \in Nat
          BY <2>2, CreditLeavesRoom
        <5>2. Fifo!UsedSeen = n + u
          BY <2>4 DEF Fifo!UsedSeen
        <5>3. QED
          BY <2>4, <5>1, <5>2, DmaAssumption
      <4>3. FIFO_DEPTH <= d /\ FIFO_DEPTH \in Nat
        BY <2>4, FrameExceedsFifo, DmaAssumption
      <4>4. QED
        BY <2>4, <3>1, <4>1, <4>2, <4>3
    <3>3. QED
      BY <2>3, <2>4, <3>1, <3>2
  <2>7. QED
    BY <2>2, <2>5, <2>6 DEF Blanked
<1>2. QED
  BY PictureInit, PictureNext, <1>1, PTL DEF PipelineSpec

-----------------------------------------------------------------------------
(* The control software.                                                   *)

Fresh(word) ==
  /\ word \cap {"gamma", "cont"} = reg_global_ctrl
  /\ "start" \notin word
  /\ word \cap {"busy", "cont"} = {} => state = "IDLE" /\ ~dma_start_pulse

ControlInv ==
  /\ reg_global_ctrl \subseteq {"gamma", "cont"}
  /\ state # "IDLE" => frame_active
  /\ pc \in {"menu", "reading", "writing", "printing"} /\ call \in Call
  /\ pc = "reading" => avs_readdatavalid /\ Fresh(avs_readdata)
  /\ pc = "writing" => call # "print status" /\ Fresh(ctrl)
  /\ dma_start_pulse =>
       pc = "printing" /\ (ctrl \cap {"busy", "cont"} = {} => state = "IDLE")

LEMMA CallFacts == Call \subseteq CallsAllowed
BY ControlAssumption

(* One edge of the frame reader.                                           *)
LEMMA ReaderEdge ==
  ASSUME NEW in, DmaTick(in), state # "IDLE" => frame_active
  PROVE  /\ state' # "IDLE" => frame_active'
         /\ state = "IDLE" /\ ~Trigger(in) => state' = "IDLE"
<1>1. CASE StartFrame(in)
  BY <1>1 DEF StartFrame
<1>2. CASE Rest(in)
  BY <1>2 DEF Rest
<1>3. CASE LastCommanded(in) \/ Command(in) \/ Throttle(in) \/ Accepted(in) \/ Stalled(in)
           \/ Drain(in)
  BY <1>3 DEF LastCommanded, Command, Throttle, Accepted, Stalled, Drain
<1>4. CASE Finish(in)
  BY <1>4 DEF Finish
<1> QED
  BY <1>1, <1>2, <1>3, <1>4 DEF DmaTick

(* What the functions write adds no bit but the one they are for.          *)
LEMMA WhatIsWritten ==
  ASSUME ControlInv, pc = "writing"
  PROVE  /\ "done" \in changed => "done" \in ctrl
         /\ "start" \in changed => call = "start single"
<1>1. call \in CallsAllowed /\ call # "print status" /\ "start" \notin ctrl
  BY CallFacts DEF ControlInv, Fresh
<1> QED
  BY <1>1 DEF changed, CallsAllowed

LEMMA EdgeKeeps ==
  ASSUME ControlInv, NEW acc, NEW in, ControlEdge(acc, in)
  PROVE  ControlInv'
<1>1. /\ state' # "IDLE" => frame_active'
      /\ state = "IDLE" /\ ~dma_start_pulse /\ "cont" \notin reg_global_ctrl => state' = "IDLE"
  BY ReaderEdge DEF ControlEdge, ControlInv, Trigger
<1>2. CsrEdge(acc, frame_active, dma_done, FALSE)
  BY DEF ControlEdge
<1>3. /\ ~Writes(acc, 1) => reg_global_ctrl' = reg_global_ctrl /\ ~dma_start_pulse'
      /\ Writes(acc, 1) => /\ reg_global_ctrl' = acc.data \cap {"gamma", "cont"}
                           /\ dma_start_pulse' <=> "start" \in acc.data
  BY <1>2 DEF CsrEdge, WriteControl
<1>4. CASE Think(acc)
  <2>1. ~Writes(acc, 1) /\ UNCHANGED swVars /\ pc # "reading"
    BY <1>4 DEF Think, NoAccess, Writes, ControlInv
  <2>2. pc = "writing" => Fresh(ctrl)'
    BY <1>1, <1>3, <2>1 DEF ControlInv, Fresh, swVars
  <2> QED
    BY <1>1, <1>3, <2>1, <2>2 DEF ControlInv, swVars
<1>5. CASE Ask(acc)
  <2>1. acc.op = "read" /\ acc.address = 1 /\ ~Writes(acc, 1) /\ pc = "menu" /\ pc' = "reading"
    BY <1>5 DEF Ask, ReadOf, Writes
  <2>2. avs_readdatavalid' /\ avs_readdata' = control_word(frame_active)
    <3>1. avs_readdatavalid' = (acc.op = "read") /\ (acc.op = "read") = TRUE
      BY <1>2, <2>1 DEF CsrEdge, Answer
    <3>2. avs_readdata' = read_data_mux(1, frame_active)
      BY <1>2, <2>1 DEF CsrEdge, Answer
    <3>3. read_data_mux(1, frame_active) = control_word(frame_active)
      BY DEF read_data_mux
    <3> QED
      BY <3>1, <3>2, <3>3
  <2>3. ~dma_start_pulse
    BY <2>1 DEF ControlInv
  <2>4. /\ avs_readdata' \cap {"gamma", "cont"} = reg_global_ctrl
        /\ "start" \notin avs_readdata'
    BY <2>2 DEF ControlInv, control_word
  <2>5. avs_readdata' \cap {"busy", "cont"} = {} => ~frame_active /\ "cont" \notin reg_global_ctrl
    BY <2>2 DEF control_word
  <2>6. Fresh(avs_readdata)'
    BY <1>1, <1>3, <2>1, <2>3, <2>4, <2>5 DEF Fresh, ControlInv
  <2> QED
    BY <1>1, <1>3, <1>5, <2>1, <2>2, <2>6 DEF ControlInv, Ask
<1>6. CASE Learn(acc)
  <2>1. ~Writes(acc, 1) /\ pc = "reading" /\ ctrl' = avs_readdata /\ call' = call
    BY <1>6 DEF Learn, NoAccess, Writes
  <2>2. Fresh(ctrl)'
    BY <1>1, <1>3, <2>1 DEF ControlInv, Fresh
  <2> QED
    BY <1>1, <1>3, <1>6, <2>1, <2>2 DEF ControlInv, Learn
<1>7. CASE Store(acc)
  <2>1. pc = "writing" /\ pc' = "printing" /\ UNCHANGED <<call, ctrl>>
    BY <1>7 DEF Store
  <2>2. Writes(acc, 1) /\ acc.data = changed
    BY <1>7 DEF Store, WriteOf, Writes
  <2>3. ctrl \cap {"busy", "cont"} = {} => state' = "IDLE"
    BY <1>1, <2>1 DEF ControlInv, Fresh
  <2>4. reg_global_ctrl' \subseteq {"gamma", "cont"}
    BY <1>3, <2>2
  <2> QED
    BY <1>1, <2>1, <2>3, <2>4 DEF ControlInv
<1>8. CASE Tell(acc)
  BY <1>1, <1>3, <1>8 DEF Tell, NoAccess, Writes, ControlInv
<1> QED
  BY <1>4, <1>5, <1>6, <1>7, <1>8 DEF ControlEdge, Software

LEMMA ControlStep == ControlInv /\ [ControlNext]_controlVars => ControlInv'
<1> SUFFICES ASSUME ControlInv, [ControlNext]_controlVars PROVE ControlInv'
  OBVIOUS
<1>1. CASE ControlNext
  BY <1>1, EdgeKeeps DEF ControlNext
<1>2. CASE UNCHANGED controlVars
  BY <1>2 DEF controlVars, dmaVars, dmaRegs, csrVars, swVars, ControlInv, Fresh
<1> QED
  BY <1>1, <1>2

LEMMA ControlStart == ControlInit => ControlInv
BY DEF ControlInit, DmaInit, CsrInit, ControlInv

(* Between a read and the write that follows no bit that software keeps    *)
(* has changed under it.                                                   *)
THEOREM ControlNoLostUpdate == ControlSpec => []NoLostUpdate
<1>1. ControlInv => NoLostUpdate
  BY DEF ControlInv, Fresh, NoLostUpdate
<1> QED
  BY <1>1, ControlStart, ControlStep, PTL DEF ControlSpec

(* A start that read the reader idle and out of continuous mode finds it   *)
(* idle when it lands.                                                     *)
THEOREM ControlStartHonoured == ControlSpec => []StartHonoured
<1>1. ControlInv => StartHonoured
  BY DEF ControlInv, Fresh, StartHonoured
<1> QED
  BY <1>1, ControlStart, ControlStep, PTL DEF ControlSpec

(* The sticky done bit is cleared only by a function that has read it.     *)
THEOREM ControlClearedOnlyIfSeen == ControlSpec => ClearedOnlyIfSeen
<1>1. ASSUME ControlInv, NEW acc, NEW in, ControlEdge(acc, in),
             dma_done_sticky, ~dma_done_sticky'
      PROVE  pc = "writing" /\ "done" \in ctrl
  <2>1. Writes(acc, 1) /\ "done" \in acc.data
    BY <1>1 DEF ControlEdge, CsrEdge, WriteControl
  <2>2. Store(acc)
    <3>1. acc # NoAccess /\ acc # ReadOf(1)
      BY <2>1 DEF NoAccess, ReadOf, Writes
    <3> QED
      BY <1>1, <3>1 DEF ControlEdge, Software, Think, Ask, Learn, Tell
  <2>3. pc = "writing" /\ acc.data = changed
    BY <2>2 DEF Store, WriteOf
  <2> QED
    BY <1>1, <2>1, <2>3, WhatIsWritten
<1>2. ControlInv /\ [ControlNext]_controlVars
        => [dma_done_sticky /\ ~dma_done_sticky' => pc = "writing" /\ "done" \in ctrl]_controlVars
  BY <1>1 DEF ControlNext
<1> QED
  BY <1>2, ControlStart, ControlStep, PTL DEF ControlSpec, ClearedOnlyIfSeen
=============================================================================
