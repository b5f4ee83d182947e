---------------------------- MODULE BurstEngine ----------------------------
(***************************************************************************)
(* What the copy engines src/RTL/burst_master.v and burst_master_4.v have  *)
(* in common: the control registers, the read master and the write master, *)
(* and the two Avalon-MM memory ports they drive.  The FIFOs between the   *)
(* two masters differ; BurstMaster and BurstMaster4 supply them.           *)
(*                                                                         *)
(* The three clocked blocks are three actions that a composition conjoins  *)
(* into one rising edge of clk.  in holds the inputs of the memory ports:  *)
(*   rm_waitrequest, rm_readdatavalid, wm_waitrequest.                     *)
(* The memory (external) answers accepted reads in order, at most one word *)
(* per edge; owed holds the addresses it has still to answer.              *)
(***************************************************************************)
EXTENDS Integers, Sequences

CONSTANTS
  BURST_COUNT,     \* burst length after reset (256)
  FIFO_DEPTH,      \* words a FIFO holds (512)
  AddrSpan         \* 2^ADDR_WIDTH; lengths and addresses wrap there

ASSUME EngineAssumption ==
  /\ BURST_COUNT \in Nat \ {0} /\ FIFO_DEPTH \in Nat \ {0}
  /\ AddrSpan \in Nat /\ AddrSpan > 4 * FIFO_DEPTH

VARIABLES
  ctrl_start, ctrl_done_reg, ctrl_src_addr, ctrl_dst_addr, ctrl_len,
  ctrl_rd_burst, ctrl_wr_burst,                        \* registers
  rm_state, rm_address, rm_read, rm_burstcount,
  current_src_addr, read_remaining_len, pending_reads, \* read master
  wm_fsm, wm_address, wm_write, wm_burstcount, wm_word_cnt,
  current_dst_addr, remaining_len, internal_done_pulse,\* write master
  owed,          \* (external) addresses still to be answered, in order
  written        \* (external) the beats stored since the last start

csrRegs   == <<ctrl_start, ctrl_done_reg, ctrl_src_addr, ctrl_dst_addr,
               ctrl_len, ctrl_rd_burst, ctrl_wr_burst>>
readRegs  == <<rm_state, rm_address, rm_read, rm_burstcount,
               current_src_addr, read_remaining_len, pending_reads>>
writeRegs == <<wm_fsm, wm_address, wm_write, wm_burstcount, wm_word_cnt,
               current_dst_addr, remaining_len, internal_done_pulse>>
engineVars == <<csrRegs, readRegs, writeRegs, owed, written>>

Plus(a, b)  == IF a + b >= AddrSpan THEN a + b - AddrSpan ELSE a + b
Minus(a, b) == IF a >= b THEN a - b ELSE a - b + AddrSpan
-----------------------------------------------------------------------------
(* The control registers: at most one write at an edge.                    *)

WriteReg(r, d) == [reg |-> r, data |-> d]
NoWrite == WriteReg(-1, 0)

(* The length rounded up to whole read bursts of b words; the mask of the  *)
(* code rounds so when b is a power of two.                                *)
Padded(len, b) == LET up == len + 4 * b - 1 IN up - (up % (4 * b))

CsrBlock(w) ==
  LET stored(r, old) == IF w.reg = r THEN w.data ELSE old
      bit(r)         == w.reg = r /\ w.data % 2 = 1
  IN  /\ ctrl_start' = bit(0)
      /\ ctrl_done_reg' = ((ctrl_done_reg \/ internal_done_pulse) /\ ~bit(1))
      /\ ctrl_src_addr' = stored(2, ctrl_src_addr)
      /\ ctrl_dst_addr' = stored(3, ctrl_dst_addr)
      /\ ctrl_len' = IF w.reg = 4 THEN Padded(w.data, ctrl_rd_burst) ELSE ctrl_len
      /\ ctrl_rd_burst' = stored(5, ctrl_rd_burst)
      /\ ctrl_wr_burst' = stored(6, ctrl_wr_burst)
-----------------------------------------------------------------------------
(* The read master.  used is the occupancy of the FIFO it fills.           *)

ReadAccepted(in) == rm_state = "READ" /\ ~in.rm_waitrequest

(* Seeded fault: the done pulse does not bring the read master to rest.    *)
NextStateNoRest(s) == s

(* The done pulse overrides whatever the FSM decides at the same edge.     *)
NextState(s) == IF internal_done_pulse THEN "IDLE" ELSE s

CountPending(in) ==
  LET got == IF in.rm_readdatavalid THEN 1 ELSE 0
  IN  pending_reads' =
        IF internal_done_pulse THEN 0
        ELSE IF ReadAccepted(in) THEN pending_reads + rm_burstcount - got
        ELSE IF pending_reads > 0 THEN pending_reads - got ELSE pending_reads

ReadIdle ==
  /\ rm_state = "IDLE" /\ ~ctrl_start
  /\ rm_state' = "IDLE"
  /\ UNCHANGED <<rm_address, rm_read, rm_burstcount, current_src_addr,
                 read_remaining_len>>

ReadStart ==
  /\ rm_state = "IDLE" /\ ctrl_start
  /\ rm_state' = NextState("WAIT_FIFO")
  /\ current_src_addr' = ctrl_src_addr
  /\ read_remaining_len' = ctrl_len
  /\ UNCHANGED <<rm_address, rm_read, rm_burstcount>>

(* Seeded fault: words commanded and not yet received are not counted.     *)
RoomIgnoringPending(used) == used + ctrl_rd_burst <= FIFO_DEPTH

RoomForRead(used) == used + pending_reads + ctrl_rd_burst <= FIFO_DEPTH

ReadCommand(used) ==
  /\ rm_state = "WAIT_FIFO" /\ read_remaining_len > 0 /\ RoomForRead(used)
  /\ rm_state' = NextState("READ")
  /\ rm_address' = current_src_addr
  /\ rm_read' = TRUE
  /\ rm_burstcount' = ctrl_rd_burst
  /\ UNCHANGED <<current_src_addr, read_remaining_len>>

ReadWait(used) ==
  /\ rm_state = "WAIT_FIFO" /\ ~(read_remaining_len > 0 /\ RoomForRead(used))
  /\ rm_state' = NextState("WAIT_FIFO")
  /\ UNCHANGED <<rm_address, rm_read, rm_burstcount, current_src_addr,
                 read_remaining_len>>

(* Seeded fault: the address advances by the reset burst length.           *)
ReadTakenFixed ==
  /\ rm_state' = NextState("WAIT_FIFO")
  /\ rm_read' = FALSE
  /\ current_src_addr' = Plus(current_src_addr, 4 * BURST_COUNT)
  /\ read_remaining_len' = Minus(read_remaining_len, 4 * ctrl_rd_burst)
  /\ UNCHANGED <<rm_address, rm_burstcount>>

ReadTaken ==
  /\ rm_state' = NextState("WAIT_FIFO")
  /\ rm_read' = FALSE
  /\ current_src_addr' = Plus(current_src_addr, 4 * ctrl_rd_burst)
  /\ read_remaining_len' = Minus(read_remaining_len, 4 * ctrl_rd_burst)
  /\ UNCHANGED <<rm_address, rm_burstcount>>

ReadHeld(in) ==
  /\ rm_state = "READ" /\ in.rm_waitrequest
  /\ rm_state' = NextState("READ")
  /\ UNCHANGED <<rm_address, rm_read, rm_burstcount, current_src_addr,
                 read_remaining_len>>

ReadMaster(used, in) ==
  /\ CountPending(in)
  /\ \/ ReadIdle \/ ReadStart
     \/ ReadCommand(used) \/ ReadWait(used)
     \/ ReadAccepted(in) /\ ReadTaken
     \/ ReadHeld(in)
-----------------------------------------------------------------------------
(* The write master.  used is the occupancy of the FIFO it empties.        *)

fifo_rd_en(in) == wm_fsm = "W_BURST" /\ ~in.wm_waitrequest /\ wm_word_cnt < wm_burstcount

WriteIdle ==
  /\ wm_fsm = "W_IDLE" /\ ~ctrl_start
  /\ wm_write' = FALSE /\ internal_done_pulse' = FALSE
  /\ UNCHANGED <<wm_fsm, wm_address, wm_burstcount, wm_word_cnt,
                 current_dst_addr, remaining_len>>

WriteStart ==
  /\ wm_fsm = "W_IDLE" /\ ctrl_start
  /\ wm_fsm' = "W_WAIT_DATA"
  /\ wm_write' = FALSE /\ internal_done_pulse' = FALSE
  /\ current_dst_addr' = ctrl_dst_addr
  /\ remaining_len' = ctrl_len
  /\ UNCHANGED <<wm_address, wm_burstcount, wm_word_cnt>>

WriteDone ==
  /\ wm_fsm = "W_WAIT_DATA" /\ remaining_len = 0
  /\ wm_fsm' = "W_IDLE"
  /\ wm_write' = FALSE /\ internal_done_pulse' = TRUE
  /\ UNCHANGED <<wm_address, wm_burstcount, wm_word_cnt, current_dst_addr,
                 remaining_len>>

(* Seeded fault: a burst waits for one word more than it needs.            *)
BurstReadyLate(used) == used > ctrl_wr_burst

BurstReady(used) == used >= ctrl_wr_burst

WriteCommand(used) ==
  /\ wm_fsm = "W_WAIT_DATA" /\ remaining_len # 0 /\ BurstReady(used)
  /\ wm_fsm' = "W_BURST"
  /\ wm_write' = TRUE /\ internal_done_pulse' = FALSE
  /\ wm_address' = current_dst_addr
  /\ wm_burstcount' = ctrl_wr_burst
  /\ wm_word_cnt' = 0
  /\ UNCHANGED <<current_dst_addr, remaining_len>>

WriteWait(used) ==
  /\ wm_fsm = "W_WAIT_DATA" /\ remaining_len # 0 /\ ~BurstReady(used)
  /\ wm_write' = FALSE /\ internal_done_pulse' = FALSE
  /\ UNCHANGED <<wm_fsm, wm_address, wm_burstcount, wm_word_cnt,
                 current_dst_addr, remaining_len>>

(* Seeded fault: the burst ends a word early.                              *)
LastBeatEarly == wm_word_cnt + 2 >= wm_burstcount

LastBeat == wm_word_cnt = wm_burstcount - 1

WriteLast(in) ==
  /\ wm_fsm = "W_BURST" /\ ~in.wm_waitrequest /\ LastBeat
  /\ wm_fsm' = "W_WAIT_DATA"
  /\ wm_write' = FALSE /\ internal_done_pulse' = FALSE
  /\ current_dst_addr' = Plus(current_dst_addr, 4 * wm_burstcount)
  /\ remaining_len' = Minus(remaining_len, 4 * wm_burstcount)
  /\ UNCHANGED <<wm_address, wm_burstcount, wm_word_cnt>>

WriteBeat(in) ==
  /\ wm_fsm = "W_BURST" /\ ~in.wm_waitrequest /\ ~LastBeat
  /\ wm_word_cnt' = wm_word_cnt + 1
  /\ internal_done_pulse' = FALSE
  /\ UNCHANGED <<wm_fsm, wm_write, wm_address, wm_burstcount,
                 current_dst_addr, remaining_len>>

WriteHeld(in) ==
  /\ wm_fsm = "W_BURST" /\ in.wm_waitrequest
  /\ internal_done_pulse' = FALSE
  /\ UNCHANGED <<wm_fsm, wm_write, wm_address, wm_burstcount, wm_word_cnt,
                 current_dst_addr, remaining_len>>

WriteMaster(used, in) ==
  \/ WriteIdle \/ WriteStart
  \/ WriteDone \/ WriteCommand(used) \/ WriteWait(used)
  \/ WriteLast(in) \/ WriteBeat(in) \/ WriteHeld(in)
-----------------------------------------------------------------------------
(* The memory: it owes the words of the bursts it accepts, and stores what *)
(* is on wm_writedata with every beat it takes.                            *)

BurstOf(a, n) == [i \in 1..n |-> a + 4 * (i - 1)]

MemoryPorts(in, wm_writedata) ==
  /\ in.rm_readdatavalid => owed # <<>>
  /\ owed' = (IF in.rm_readdatavalid THEN Tail(owed) ELSE owed)
               \o (IF rm_read /\ ~in.rm_waitrequest
                   THEN BurstOf(rm_address, rm_burstcount) ELSE <<>>)
  /\ written' = IF ctrl_start THEN <<>>
                ELSE IF wm_write /\ ~in.wm_waitrequest
                THEN Append(written, <<wm_address + 4 * wm_word_cnt, wm_writedata>>)
                ELSE written

EngineInputs == [rm_waitrequest : BOOLEAN, rm_readdatavalid : BOOLEAN,
                 wm_waitrequest : BOOLEAN]

EngineInit ==
  /\ ctrl_start = FALSE /\ ctrl_done_reg = FALSE
  /\ ctrl_src_addr = 0 /\ ctrl_dst_addr = 0 /\ ctrl_len = 0
  /\ ctrl_rd_burst = BURST_COUNT /\ ctrl_wr_burst = BURST_COUNT
  /\ rm_state = "IDLE" /\ rm_address = 0 /\ rm_read = FALSE
  /\ rm_burstcount = BURST_COUNT
  /\ current_src_addr = 0 /\ read_remaining_len = 0 /\ pending_reads = 0
  /\ wm_fsm = "W_IDLE" /\ wm_address = 0 /\ wm_write = FALSE
  /\ wm_burstcount = BURST_COUNT /\ wm_word_cnt = 0
  /\ current_dst_addr = 0 /\ remaining_len = 0 /\ internal_done_pulse = FALSE
  /\ owed = <<>> /\ written = <<>>

(* reset_n resets the interconnect too: what is owed is never delivered.   *)
EngineReset ==
  /\ ctrl_start' = FALSE /\ ctrl_done_reg' = FALSE
  /\ ctrl_src_addr' = 0 /\ ctrl_dst_addr' = 0 /\ ctrl_len' = 0
  /\ ctrl_rd_burst' = BURST_COUNT /\ ctrl_wr_burst' = BURST_COUNT
  /\ rm_state' = "IDLE" /\ rm_address' = 0 /\ rm_read' = FALSE
  /\ rm_burstcount' = BURST_COUNT
  /\ current_src_addr' = 0 /\ read_remaining_len' = 0 /\ pending_reads' = 0
  /\ wm_fsm' = "W_IDLE" /\ wm_address' = 0 /\ wm_write' = FALSE
  /\ wm_burstcount' = BURST_COUNT /\ wm_word_cnt' = 0
  /\ current_dst_addr' = 0 /\ remaining_len' = 0 /\ internal_done_pulse' = FALSE
  /\ owed' = <<>> /\ written' = <<>>
=============================================================================
