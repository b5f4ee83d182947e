----------------------------- MODULE DmaControl -----------------------------
(***************************************************************************)
(* The control path of the DMA: the Nios II menu functions of              *)
(* src/nios_software/video_app2/hdmi_control.c, the control register of    *)
(* HdmiCsr and the frame reader VideoDma, all on clk.                      *)
(*                                                                         *)
(* Every function is a read of the control register, most followed by a    *)
(* write of what was read with a bit changed; any number of edges of clk   *)
(* pass between the two, and at least one (the printf) before the next     *)
(* call.  The rest of the system is free: vertical syncs, the memory, and  *)
(* the occupancy of the FIFO.                                              *)
(***************************************************************************)
EXTENDS VideoDma, HdmiCsr

CONSTANT Call       \* the functions the user may choose

CallsAllowed == {"gamma on", "gamma off", "start single",
                 "continuous on", "continuous off", "print status"}

ASSUME ControlAssumption ==
  /\ Base = Ptr /\ Call \subseteq CallsAllowed

VARIABLES
  pc,           \* "menu", "reading", "writing" or "printing"
  call,         \* the function that runs, or ran last
  ctrl          \* its local copy of the control word

swVars      == <<pc, call, ctrl>>
controlVars == <<dmaVars, csrVars, swVars>>
-----------------------------------------------------------------------------
(* Software, with the access it presents at the edge.                      *)

(* Seeded fault: a start also acknowledges the last frame, read or not.    *)
changedAcknowledges ==
  CASE call = "gamma on"       -> ctrl \cup {"gamma"}
    [] call = "gamma off"      -> ctrl \ {"gamma"}
    [] call = "start single"   -> ctrl \cup {"start", "done"}
    [] call = "continuous on"  -> ctrl \cup {"cont"}
    [] call = "continuous off" -> ctrl \ {"cont"}

(* What a function writes back: every bit it read, "done" included.        *)
changed ==
  CASE call = "gamma on"       -> ctrl \cup {"gamma"}
    [] call = "gamma off"      -> ctrl \ {"gamma"}
    [] call = "start single"   -> ctrl \cup {"start"}
    [] call = "continuous on"  -> ctrl \cup {"cont"}
    [] call = "continuous off" -> ctrl \ {"cont"}

Think(acc) ==
  /\ pc # "reading" \/ ~avs_readdatavalid
  /\ acc = NoAccess
  /\ UNCHANGED swVars

Ask(acc) ==
  /\ pc = "menu"
  /\ acc = ReadOf(1)
  /\ call' \in Call
  /\ pc' = "reading"
  /\ UNCHANGED ctrl

Learn(acc) ==
  /\ pc = "reading" /\ avs_readdatavalid
  /\ acc = NoAccess
  /\ ctrl' = avs_readdata
  /\ pc' = IF call = "print status" THEN "printing" ELSE "writing"
  /\ UNCHANGED call

Store(acc) ==
  /\ pc = "writing"
  /\ acc = WriteOf(1, changed)
  /\ pc' = "printing"
  /\ UNCHANGED <<call, ctrl>>

Tell(acc) ==
  /\ pc = "printing"
  /\ acc = NoAccess
  /\ pc' = "menu"
  /\ UNCHANGED <<call, ctrl>>

Software(acc) == Think(acc) \/ Ask(acc) \/ Learn(acc) \/ Store(acc) \/ Tell(acc)
-----------------------------------------------------------------------------
ControlInit ==
  /\ DmaInit /\ CsrInit
  /\ pc = "menu" /\ call \in Call /\ ctrl = {}

(* The accesses software can present at this edge.                         *)
Accesses == {NoAccess, ReadOf(1)} \cup (IF pc = "writing" THEN {WriteOf(1, changed)} ELSE {})

ControlEdge(acc, in) ==
  /\ in.dma_start = dma_start_pulse
  /\ in.dma_cont_en = ("cont" \in reg_global_ctrl)
  /\ in.start_addr = shadow_ptr
  /\ Software(acc)
  /\ DmaTick(in)
  /\ CsrEdge(acc, frame_active, dma_done, FALSE)

(* The room in the FIFO is either plenty or none.                          *)
ControlNext ==
  \E acc \in Accesses, in \in DmaInputs({0, FIFO_DEPTH - 1}) : ControlEdge(acc, in)

ControlSpec == ControlInit /\ [][ControlNext]_controlVars
-----------------------------------------------------------------------------
(* Properties                                                              *)

(* The sticky done bit goes down only by a function that has itself read   *)
(* it up: the read-modify-writes of hdmi_control.c never clear a done they *)
(* did not see, however late their write lands.                            *)
ClearedOnlyIfSeen ==
  [][dma_done_sticky /\ ~dma_done_sticky' => pc = "writing" /\ "done" \in ctrl]_controlVars

(* A single start that read the DMA neither busy nor in continuous mode is *)
(* honoured: the frame reader is still idle when the write lands, and at   *)
(* the next edge, when the pulse reaches it.                               *)
StartHonoured ==
  /\ (pc = "writing" /\ call = "start single" /\ ctrl \cap {"busy", "cont"} = {})
       => state = "IDLE" /\ ~dma_start_pulse
  /\ (dma_start_pulse /\ ctrl \cap {"busy", "cont"} = {}) => state = "IDLE"

(* The bits software does not mean to change survive its write: between a  *)
(* read and the write that follows nobody else changes them.               *)
NoLostUpdate ==
  pc = "writing" => ctrl \cap {"gamma", "cont"} = reg_global_ctrl
=============================================================================
