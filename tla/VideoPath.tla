----------------------------- MODULE VideoPath -----------------------------
(***************************************************************************)
(* The memory side of src/RTL/video_pipeline.v: the frame reader VideoDma, *)
(* the memory, and the stream FIFO it fills, joined as the wires of        *)
(* video_pipeline.v join them (fifo_used <- wrusedw, wrreq <-              *)
(* m_readdatavalid).  The FIFO is the abstract StaleFifo, which promises   *)
(* no bound on how late a side learns of the other; the display is         *)
(* whatever sequence of read requests the pixel clock brings.  A frame     *)
(* address may change at every edge and the triggers come at any time.     *)
(*                                                                         *)
(* Coincident edges of the two clocks need no action here: on StaleFifo    *)
(* they have the effect of a read edge followed by a write edge, and the   *)
(* count wrusedw the DMA samples is not changed by a read edge.            *)
(***************************************************************************)
EXTENDS VideoDma

VARIABLES fifo, unseenReads, unseenWrites, q

Fifo == INSTANCE StaleFifo WITH Depth <- FIFO_DEPTH, Word <- Nat

pathVars == <<dmaVars, fifo, unseenReads, unseenWrites, q>>

PathInit ==
  /\ DmaInit
  /\ fifo = <<>> /\ unseenReads = 0 /\ unseenWrites = 0 /\ q = 0

(* An edge of clk: the DMA and the FIFO's write side.  Every word that     *)
(* arrives is offered to the FIFO at the same edge, full or not.           *)
ClkEdge(in) ==
  /\ DmaTick(in)
  /\ Fifo!WriteEdge(in.readdatavalid, IF in.readdatavalid THEN Head(inflight) ELSE 0)

(* An edge of the pixel clock: the FIFO's read side.                       *)
PixelEdge(rdreq) ==
  /\ Fifo!ReadEdge(rdreq)
  /\ UNCHANGED dmaVars

(* reset_n does not reach the FIFO: its words survive.                     *)
PathReset ==
  /\ DmaReset
  /\ UNCHANGED <<fifo, unseenReads, unseenWrites, q>>

PathNext ==
  \/ \E in \in DmaInputs({Fifo!wrusedw}) : ClkEdge(in)
  \/ \E rdreq \in BOOLEAN : PixelEdge(rdreq)
  \/ PathReset

PathSpec == PathInit /\ [][PathNext]_pathVars

(* What a frame under way needs of its surroundings: that both clocks run, *)
(* that the memory takes the command held out to it and delivers what it   *)
(* owes, that the display reads, and that each side of the FIFO learns of  *)
(* the other in the end (WordsSurface and FullSubsides of DcFifo).         *)
ClkEdgeWith(P(_)) == \E in \in DmaInputs({Fifo!wrusedw}) : P(in) /\ ClkEdge(in)

PathFairness ==
  /\ WF_pathVars(ClkEdgeWith(LAMBDA in : unseenReads' = 0))
  /\ WF_pathVars(ClkEdgeWith(LAMBDA in : state = "ISSUE_READ" /\ ~in.waitrequest))
  /\ WF_pathVars(ClkEdgeWith(LAMBDA in : in.readdatavalid))
  /\ WF_pathVars(PixelEdge(TRUE) /\ unseenWrites' = 0)

PathFairSpec == PathSpec /\ PathFairness
-----------------------------------------------------------------------------
(* Properties                                                              *)

PathTypeOK ==
  /\ DmaTypeOK
  /\ fifo \in Seq(Nat)
  /\ unseenReads \in Nat
  /\ unseenWrites \in 0..Len(fifo)
  /\ q \in Nat

(* The credit the flow control of video_dma_master.v line 110 keeps: words *)
(* stored as the write side counts them, words owed and the burst being    *)
(* commanded fit the FIFO together with two words to spare.                *)
CreditBound ==
  LET commanding == IF state = "ISSUE_READ" THEN BURST_LEN ELSE 0
  IN  Fifo!UsedSeen + Len(inflight) + commanding <= FIFO_DEPTH - 2

(* No word is lost: the FIFO, which drops a word offered when it is full,  *)
(* stores every word the memory delivers (readdatavalid is wired straight  *)
(* to wrreq, and nothing looks at wrfull).                                 *)
NoWordLost ==
  [][words_received' = words_received + 1 => fifo' = Append(fifo, Head(inflight))]_pathVars

(* The saturating occupancy port never saturates, so that the DMA always   *)
(* compares against the count itself.                                      *)
CountIsExact == Fifo!wrusedw = Fifo!UsedSeen

(* What the display will read, then what the memory owes: each word is     *)
(* the successor of the one before it or the first word of a frame.  This  *)
(* holds across resets too, when the rest of a frame is never delivered.   *)
StreamInOrder ==
  LET stream == fifo \o inflight
  IN  \A i \in 1..(Len(stream) - 1) :
        stream[i + 1] = stream[i] + 4 \/ stream[i + 1] \in Base
=============================================================================
