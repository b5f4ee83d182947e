--------------------------- MODULE VideoPipeline ---------------------------
(***************************************************************************)
(* src/RTL/video_pipeline.v as a whole: VideoPath (frame reader, memory,   *)
(* FIFO), HdmiCsr and HdmiRaster (the two halves of hdmi_sync_gen.v), and  *)
(* the synchronizer that carries the vertical sync to the frame reader.    *)
(* Software presents any of the accesses of Access at any edge of clk.     *)
(*                                                                         *)
(* clk runs at 50 MHz and the pixel clock at 37.8336 MHz, so that between  *)
(* two edges of the pixel clock there is always one of clk.  Edges at the  *)
(* same instant behave as one of their two orders: at most one bit that    *)
(* crosses the domains changes at an edge, and the flip-flop that samples  *)
(* it captures its old or its new value.                                   *)
(*                                                                         *)
(* The last two variables belong to the observer at the connector, not to  *)
(* the circuit: whether the words are known to arrive in step with the     *)
(* raster, and what has been shown since the last vertical sync.           *)
(***************************************************************************)
EXTENDS VideoPath, HdmiCsr, HdmiRaster

CONSTANT Access       \* what software may present on the bus at an edge

ASSUME PipelineAssumption ==
  /\ FRAME_SIZE_WORDS = H_VISIBLE * V_VISIBLE
  /\ LUT_SIZE = LEVELS
  /\ Base = Ptr
  /\ \A acc \in Access : PointsToFrame(acc)

(* The FIFO cannot hold a frame: 512 words of the 518400.                  *)
ASSUME FrameExceedsFifo == FIFO_DEPTH <= FRAME_SIZE_WORDS

VARIABLES
  vsync_toggle_sync_50,   \* vs_toggle in three flip-flops, youngest first
  clkSeen,                \* clk had an edge since the last pixel edge
  synced, picture

observer == <<synced, picture>>
pipeVars == <<pathVars, csrVars, rasterVars, vsync_toggle_sync_50, clkSeen,
              observer>>

vsync_edge_sync == vsync_toggle_sync_50[3] # vsync_toggle_sync_50[2]

mode == reg_mode % 16
rdreq == stream_rd_en(mode)
gammaOn == "gamma" \in reg_global_ctrl

(* The inputs of the frame reader, those of the memory being w and r.      *)
DmaPorts(w, r) ==
  [dma_start |-> dma_start_pulse, dma_cont_en |-> "cont" \in reg_global_ctrl,
   vsync_edge |-> vsync_edge_sync, start_addr |-> shadow_ptr,
   waitrequest |-> w, readdatavalid |-> r, fifo_used |-> Fifo!wrusedw]
-----------------------------------------------------------------------------
(* The observer is in step from a frame start in the vertical blanking     *)
(* with nothing left in the FIFO, for as long as every visible position    *)
(* takes a word and every pixel shown is a stream pixel.                   *)
ObserveClk ==
  /\ synced' = IF state = "IDLE" /\ state' # "IDLE"
               THEN v_cnt >= V_VISIBLE /\ fifo = <<>>
               ELSE synced
  /\ picture' = IF synced' THEN picture ELSE <<>>

ObservePixel ==
  /\ synced' = (/\ synced
                /\ visible => rdreq /\ ~Fifo!rdempty
                /\ visible_d1 => mode = 8 /\ ~gammaOn)
  /\ picture' = IF ~synced' \/ ~hdmi_vs' THEN <<>>
                ELSE IF hdmi_de' THEN Append(picture, hdmi_d') ELSE picture

PipelineInit ==
  /\ PathInit /\ CsrInit /\ RasterInit
  /\ vsync_toggle_sync_50 = <<FALSE, FALSE, FALSE>>
  /\ clkSeen = FALSE
  /\ synced = FALSE /\ picture = <<>>

Clk50(acc, w, r) ==
  /\ ClkEdge(DmaPorts(w, r))
  /\ CsrEdge(acc, frame_active, dma_done, vs_wire)
  /\ vsync_toggle_sync_50' =
       <<vs_toggle, vsync_toggle_sync_50[1], vsync_toggle_sync_50[2]>>
  /\ clkSeen' = TRUE
  /\ ObserveClk
  /\ UNCHANGED rasterVars

ClkHdmi ==
  /\ clkSeen
  /\ PixelEdge(rdreq)
  /\ RasterEdge(mode, gammaOn, lut_mem, char_bitmap, q)
  /\ clkSeen' = FALSE
  /\ ObservePixel
  /\ UNCHANGED <<csrVars, vsync_toggle_sync_50>>

PipelineReset ==
  /\ PathReset /\ CsrReset /\ RasterReset
  /\ vsync_toggle_sync_50' = <<FALSE, FALSE, FALSE>>
  /\ synced' = FALSE /\ picture' = <<>>
  /\ UNCHANGED clkSeen

(* waitrequest matters only while a command is on the bus.                 *)
PipelineNext ==
  \/ \E acc \in Access, w \in {m_read, FALSE}, r \in {inflight # <<>>, FALSE} :
       Clk50(acc, w, r)
  \/ ClkHdmi
  \/ PipelineReset

PipelineSpec == PipelineInit /\ [][PipelineNext]_pipeVars
-----------------------------------------------------------------------------
(* Properties                                                              *)

(* What is shown under data enable between two vertical syncs is one frame *)
(* of memory, word for word from its first, provided the frame was started *)
(* in the blanking with an empty FIFO and no read found the FIFO empty:    *)
(* no tearing however the frame pointer moves, and no shift between the    *)
(* data and the data enable (TRYERROR.md sections 6 and 7).                *)
PictureIsOneFrame ==
  \E b \in Base : \A i \in DOMAIN picture : picture[i] = b + 4 * (i - 1)

(* Such a picture is complete by the vertical sync, and by then the frame  *)
(* reader is idle and the FIFO empty - the conditions under which the next *)
(* frame is in step again - unless software has already started that next  *)
(* frame in this blanking, and no word of it has been shown.               *)
InStepAtVsync ==
  synced /\ vs_wire =>
    /\ Len(picture) \in {0, FRAME_SIZE_WORDS}
    /\ \/ state = "IDLE" /\ fifo = <<>>
       \/ state # "IDLE" /\ words_received = Len(fifo)

(* At the edge at which the frame reader takes the vertical sync the       *)
(* shadow pointer has been taken for that same vertical sync, though the   *)
(* two cross the clock domains by chains of their own.                     *)
ShadowBeforeEdge == vsync_edge_sync => vs_sync_sh[3]
=============================================================================
