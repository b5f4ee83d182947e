------------------------------ MODULE HdmiCsr ------------------------------
(***************************************************************************)
(* The clk half of src/RTL/hdmi_sync_gen.v: the registers software reads   *)
(* and writes over Avalon-MM, the start pulse and sticky done bit of the   *)
(* DMA, and the shadow of the frame pointer taken at the vertical sync.    *)
(* One step is one rising edge of clk.                                     *)
(*                                                                         *)
(* The control word is the set of its bits; every other word is a number.  *)
(* At most one access is presented at an edge, and the slave never makes   *)
(* the master wait.                                                        *)
(***************************************************************************)
EXTENDS Integers, Sequences

CONSTANTS
  LUT_SIZE,       \* entries of the gamma table (256)
  BITMAP_ROWS,    \* rows of the character bitmap (16)
  DefaultPtr,     \* the frame pointer after reset (0x30000000)
  Ptr             \* the frame pointers software may write

ASSUME CsrAssumption ==
  /\ LUT_SIZE \in Nat \ {0} /\ BITMAP_ROWS \in Nat \ {0}
  /\ Ptr \subseteq Nat /\ DefaultPtr \in Ptr

CtrlBit == {"gamma", "cont", "start", "done", "busy"}

VARIABLES
  reg_mode, reg_global_ctrl,
  reg_lut_addr, reg_lut_data, lut_mem,
  reg_bitmap_addr, reg_bitmap_data, char_bitmap,
  reg_frame_ptr, shadow_ptr,
  dma_start_pulse,      \* one edge for every 1 written to "start"
  dma_done_sticky,      \* set by the DMA, cleared by a 1 written to "done"
  vs_sync_sh,           \* vs_wire in three flip-flops, youngest first
  avs_readdatavalid, avs_readdata    \* answer of a read, one edge later

tables  == <<reg_lut_addr, reg_lut_data, lut_mem,
             reg_bitmap_addr, reg_bitmap_data, char_bitmap>>
csrVars == <<reg_mode, reg_global_ctrl, tables, reg_frame_ptr, shadow_ptr,
             dma_start_pulse, dma_done_sticky, vs_sync_sh,
             avs_readdatavalid, avs_readdata>>

(* What the bus may present at an edge.                                    *)
NoAccess == [op |-> "none"]
ReadOf(a) == [op |-> "read", address |-> a]
WriteOf(a, d) == [op |-> "write", address |-> a, data |-> d]

Writes(acc, a) == acc.op = "write" /\ acc.address = a

(* What is written to the frame pointer, if anything, is a frame.          *)
PointsToFrame(acc) == Writes(acc, 6) => acc.data \in Ptr
-----------------------------------------------------------------------------
(* Seeded fault: the continuous bit cannot be read back.                   *)
control_wordNoCont(busy) ==
  (reg_global_ctrl \ {"cont"}) \cup (IF dma_done_sticky THEN {"done"} ELSE {})
                               \cup (IF busy THEN {"busy"} ELSE {})

(* The word a read of an address captures; all but the control word are    *)
(* what was last written.                                                  *)
control_word(busy) ==
  reg_global_ctrl \cup (IF dma_done_sticky THEN {"done"} ELSE {})
                  \cup (IF busy THEN {"busy"} ELSE {})

read_data_mux(a, busy) ==
  CASE a = 0 -> reg_mode
    [] a = 1 -> control_word(busy)
    [] a = 2 -> reg_lut_addr
    [] a = 3 -> reg_lut_data
    [] a = 4 -> reg_bitmap_addr
    [] a = 5 -> reg_bitmap_data
    [] a = 6 -> reg_frame_ptr
    [] OTHER -> 0

CsrInit ==
  /\ reg_mode = 0 /\ reg_global_ctrl = {}
  /\ reg_lut_addr = 0 /\ reg_lut_data = 0 /\ lut_mem = [i \in 0..(LUT_SIZE - 1) |-> 0]
  /\ reg_bitmap_addr = 0 /\ reg_bitmap_data = {}
  /\ char_bitmap = [r \in 0..(BITMAP_ROWS - 1) |-> {}]
  /\ reg_frame_ptr = DefaultPtr /\ shadow_ptr = DefaultPtr
  /\ dma_start_pulse = FALSE /\ dma_done_sticky = FALSE
  /\ vs_sync_sh = <<FALSE, FALSE, FALSE>>
  /\ avs_readdatavalid = FALSE /\ avs_readdata = 0

(* Writes of plain registers and of the two tables they address.           *)
WriteTables(acc) ==
  /\ reg_lut_addr' = IF Writes(acc, 2) THEN acc.data ELSE reg_lut_addr
  /\ reg_bitmap_addr' = IF Writes(acc, 4) THEN acc.data ELSE reg_bitmap_addr
  /\ IF Writes(acc, 3)
     THEN /\ reg_lut_data' = acc.data
          /\ lut_mem' = [lut_mem EXCEPT ![reg_lut_addr % LUT_SIZE] =
                                             acc.data % LUT_SIZE]
     ELSE UNCHANGED <<reg_lut_data, lut_mem>>
  /\ IF Writes(acc, 5)
     THEN /\ reg_bitmap_data' = acc.data
          /\ char_bitmap' = [char_bitmap EXCEPT ![reg_bitmap_addr % BITMAP_ROWS] =
                                                     acc.data]
     ELSE UNCHANGED <<reg_bitmap_data, char_bitmap>>

(* The control word: a 1 written to "done" clears the bit even at the edge *)
(* at which the DMA sets it.                                               *)
WriteControl(acc, done) ==
  LET writing == Writes(acc, 1)
  IN  /\ reg_global_ctrl' = IF writing THEN acc.data \cap {"gamma", "cont"}
                            ELSE reg_global_ctrl
      /\ dma_start_pulse' = (writing /\ "start" \in acc.data)
      /\ dma_done_sticky' = IF writing /\ "done" \in acc.data THEN FALSE
                            ELSE dma_done_sticky \/ done

Answer(acc, busy) ==
  /\ avs_readdatavalid' = (acc.op = "read")
  /\ avs_readdata' = IF acc.op = "read" THEN read_data_mux(acc.address, busy)
                     ELSE avs_readdata

(* The frame pointer is taken at the rising edge of the synchronized       *)
(* vertical sync.                                                          *)
Shadow(vs) ==
  /\ vs_sync_sh' = <<vs, vs_sync_sh[1], vs_sync_sh[2]>>
  /\ shadow_ptr' = IF vs_sync_sh[2] /\ ~vs_sync_sh[3] THEN reg_frame_ptr
                   ELSE shadow_ptr

CsrEdge(acc, busy, done, vs) ==
  /\ reg_mode' = IF Writes(acc, 0) THEN acc.data ELSE reg_mode
  /\ reg_frame_ptr' = IF Writes(acc, 6) THEN acc.data ELSE reg_frame_ptr
  /\ WriteControl(acc, done)
  /\ WriteTables(acc)
  /\ Answer(acc, busy)
  /\ Shadow(vs)

(* The gamma table, the bitmap address and data registers and the read     *)
(* data are not reset.                                                     *)
CsrReset ==
  /\ reg_mode' = 0 /\ reg_global_ctrl' = {}
  /\ reg_lut_addr' = 0 /\ reg_lut_data' = 0
  /\ char_bitmap' = [r \in 0..(BITMAP_ROWS - 1) |-> {}]
  /\ reg_frame_ptr' = DefaultPtr /\ shadow_ptr' = DefaultPtr
  /\ dma_start_pulse' = FALSE /\ dma_done_sticky' = FALSE
  /\ vs_sync_sh' = <<FALSE, FALSE, FALSE>>
  /\ avs_readdatavalid' = FALSE
  /\ UNCHANGED <<lut_mem, reg_bitmap_addr, reg_bitmap_data, avs_readdata>>
=============================================================================
