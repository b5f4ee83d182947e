------------------------------ MODULE VideoDma ------------------------------
(***************************************************************************)
(* The frame reader src/RTL/video_dma_master.v and the Avalon-MM memory    *)
(* port it drives.  One step is one rising edge of clk (50 MHz): the       *)
(* command FSM, the receive counter and the done pulse all move together   *)
(* on the inputs sampled at that edge.                                     *)
(*                                                                         *)
(* The memory (external) answers accepted bursts in order, one word per    *)
(* edge at most, never earlier than the edge after the acceptance and      *)
(* otherwise when it likes; inflight holds the addresses still owed.  A    *)
(* word is identified with the byte address it was read from.  The         *)
(* occupancy fifo_used is an input here; VideoPath.tla connects the FIFO.  *)
(***************************************************************************)
EXTENDS Integers, Sequences

CONSTANTS
  BURST_LEN,          \* words per read command (64)
  FIFO_DEPTH,         \* words the stream FIFO holds (512)
  FRAME_SIZE_WORDS,   \* H_RES * V_RES (960 * 540)
  Base                \* the frame addresses software may install

ASSUME DmaAssumption ==
  /\ BURST_LEN \in Nat \ {0}
  /\ FIFO_DEPTH \in Nat /\ BURST_LEN + 2 <= FIFO_DEPTH
  /\ FRAME_SIZE_WORDS \in Nat
  /\ Base \subseteq Nat

(* Frames are whole numbers of bursts, as 960 * 540 = 8100 * 64 is.        *)
ASSUME WholeBursts ==
  \E n \in 1..FRAME_SIZE_WORDS : FRAME_SIZE_WORDS = n * BURST_LEN

VARIABLES
  state,              \* the command FSM
  m_address, m_read,  \* the Avalon command outputs
  current_read_addr,  \* address of the next burst
  words_commanded,    \* words requested of this frame
  words_received,     \* words of this frame that have arrived
  is_cont_mode,       \* this frame was started by a vertical sync
  frame_active,       \* the output busy
  dma_done,           \* one-edge pulse: the last word has arrived
  inflight            \* (external) addresses the memory still owes, in order

dmaRegs == <<state, m_address, m_read, current_read_addr, words_commanded,
             words_received, is_cont_mode, frame_active, dma_done>>
dmaVars == <<dmaRegs, inflight>>

(* What the block samples at an edge, the occupancy being one of used.     *)
DmaInputs(used) ==
  [dma_start : BOOLEAN, dma_cont_en : BOOLEAN, vsync_edge : BOOLEAN,
   start_addr : Base, waitrequest : BOOLEAN, readdatavalid : BOOLEAN,
   fifo_used : used]
-----------------------------------------------------------------------------
DmaInit ==
  /\ state = "IDLE"
  /\ m_address = 0 /\ m_read = FALSE
  /\ current_read_addr = 0
  /\ words_commanded = 0 /\ words_received = 0
  /\ is_cont_mode = FALSE /\ frame_active = FALSE
  /\ dma_done = FALSE
  /\ inflight = <<>>

Trigger(in) == in.dma_start \/ (in.dma_cont_en /\ in.vsync_edge)

(* Seeded fault: the done pulse is raised by the last word but one.        *)
ReceiveDoneEarly(in) ==
  /\ in.readdatavalid => inflight # <<>>
  /\ words_received' =
       IF in.readdatavalid THEN words_received + 1
       ELSE IF state = "IDLE" /\ Trigger(in) THEN 0
       ELSE words_received
  /\ dma_done' = (in.readdatavalid /\ words_received = FRAME_SIZE_WORDS - 2)

(* The receive counter and the done pulse.  The counter's increment comes  *)
(* after, and so overrides, its reset at the start of a frame.             *)
Receive(in) ==
  /\ in.readdatavalid => inflight # <<>>
  /\ words_received' =
       IF in.readdatavalid THEN words_received + 1
       ELSE IF state = "IDLE" /\ Trigger(in) THEN 0
       ELSE words_received
  /\ dma_done' = (in.readdatavalid /\ words_received = FRAME_SIZE_WORDS - 1)

(* What the memory owes after the word, if any, of this edge is delivered, *)
(* and what it comes to owe when it accepts a command.                     *)
Owed(in) == IF in.readdatavalid THEN Tail(inflight) ELSE inflight
BurstOf(a) == [i \in 1..BURST_LEN |-> a + 4 * (i - 1)]

(* IDLE: a start pulse wins over a vertical sync in continuous mode.  The  *)
(* frame address is latched here and nowhere else.                         *)
StartFrame(in) ==
  /\ state = "IDLE" /\ Trigger(in)
  /\ state' = "CHECK_FIFO"
  /\ m_read' = FALSE
  /\ words_commanded' = 0
  /\ current_read_addr' = in.start_addr
  /\ is_cont_mode' = ~in.dma_start
  /\ frame_active' = TRUE
  /\ inflight' = Owed(in)
  /\ UNCHANGED m_address

Rest(in) ==
  /\ state = "IDLE" /\ ~Trigger(in)
  /\ m_read' = FALSE
  /\ words_commanded' = 0
  /\ is_cont_mode' = (is_cont_mode /\ in.dma_cont_en)
  /\ frame_active' = FALSE
  /\ inflight' = Owed(in)
  /\ UNCHANGED <<state, m_address, current_read_addr>>

(* CHECK_FIFO: stop after the last command, command a burst if it is sure  *)
(* to fit, or wait.                                                        *)

AllCommanded == words_commanded >= FRAME_SIZE_WORDS

(* Seeded fault: a burst is commanded whenever there is any room.          *)
RoomUnlessFull(in) == in.fifo_used + (words_commanded - words_received) < FIFO_DEPTH

(* Seeded fault: words commanded and not yet received are not counted.     *)
RoomIgnoringPending(in) == in.fifo_used <= FIFO_DEPTH - BURST_LEN - 2

RoomForBurst(in) ==
  in.fifo_used + (words_commanded - words_received) <= FIFO_DEPTH - BURST_LEN - 2

(* Seeded fault: busy goes down with the last command.                     *)
LastCommandedNotBusy(in) ==
  /\ state = "CHECK_FIFO" /\ AllCommanded
  /\ state' = "WAIT_END"
  /\ m_read' = FALSE
  /\ frame_active' = FALSE
  /\ inflight' = Owed(in)
  /\ UNCHANGED <<m_address, current_read_addr, words_commanded, is_cont_mode>>

LastCommanded(in) ==
  /\ state = "CHECK_FIFO" /\ AllCommanded
  /\ state' = "WAIT_END"
  /\ m_read' = FALSE
  /\ inflight' = Owed(in)
  /\ UNCHANGED <<m_address, current_read_addr, words_commanded,
                 is_cont_mode, frame_active>>

Command(in) ==
  /\ state = "CHECK_FIFO" /\ ~AllCommanded /\ RoomForBurst(in)
  /\ state' = "ISSUE_READ"
  /\ m_read' = TRUE
  /\ m_address' = current_read_addr
  /\ inflight' = Owed(in)
  /\ UNCHANGED <<current_read_addr, words_commanded, is_cont_mode, frame_active>>

(* Seeded fault: a start pulse is honoured while a frame is under way.     *)
ThrottleRestart(in) ==
  /\ state = "CHECK_FIFO" /\ ~AllCommanded /\ ~RoomForBurst(in)
  /\ m_read' = FALSE
  /\ current_read_addr' = IF in.dma_start THEN in.start_addr ELSE current_read_addr
  /\ inflight' = Owed(in)
  /\ UNCHANGED <<state, m_address, words_commanded, is_cont_mode, frame_active>>

Throttle(in) ==
  /\ state = "CHECK_FIFO" /\ ~AllCommanded /\ ~RoomForBurst(in)
  /\ m_read' = FALSE
  /\ inflight' = Owed(in)
  /\ UNCHANGED <<state, m_address, current_read_addr, words_commanded,
                 is_cont_mode, frame_active>>

(* Seeded fault: the address advances by words where it is in bytes.       *)
AcceptedInWords(in) ==
  /\ state = "ISSUE_READ" /\ ~in.waitrequest
  /\ state' = "CHECK_FIFO"
  /\ m_read' = FALSE
  /\ current_read_addr' = current_read_addr + BURST_LEN
  /\ words_commanded' = words_commanded + BURST_LEN
  /\ inflight' = Owed(in) \o BurstOf(m_address)
  /\ UNCHANGED <<m_address, is_cont_mode, frame_active>>

(* ISSUE_READ: the command is held until the memory takes it.              *)
Accepted(in) ==
  /\ state = "ISSUE_READ" /\ ~in.waitrequest
  /\ state' = "CHECK_FIFO"
  /\ m_read' = FALSE
  /\ current_read_addr' = current_read_addr + 4 * BURST_LEN
  /\ words_commanded' = words_commanded + BURST_LEN
  /\ inflight' = Owed(in) \o BurstOf(m_address)
  /\ UNCHANGED <<m_address, is_cont_mode, frame_active>>

Stalled(in) ==
  /\ state = "ISSUE_READ" /\ in.waitrequest
  /\ inflight' = Owed(in)
  /\ UNCHANGED <<state, m_address, m_read, current_read_addr, words_commanded,
                 is_cont_mode, frame_active>>

(* Seeded fault: TRYERROR.md section 7, an end of frame never reached.     *)
AllReceivedLate == words_received > FRAME_SIZE_WORDS

(* WAIT_END: leave for IDLE once every word has been received.             *)
AllReceived == words_received >= FRAME_SIZE_WORDS

(* Seeded fault: the frame ends one word early.                            *)
FinishEarly(in) ==
  /\ state = "WAIT_END" /\ words_received >= FRAME_SIZE_WORDS - 1
  /\ state' = "IDLE"
  /\ m_read' = FALSE
  /\ frame_active' = FALSE
  /\ inflight' = Owed(in)
  /\ UNCHANGED <<m_address, current_read_addr, words_commanded, is_cont_mode>>

Finish(in) ==
  /\ state = "WAIT_END" /\ AllReceived
  /\ state' = "IDLE"
  /\ m_read' = FALSE
  /\ frame_active' = FALSE
  /\ inflight' = Owed(in)
  /\ UNCHANGED <<m_address, current_read_addr, words_commanded, is_cont_mode>>

Drain(in) ==
  /\ state = "WAIT_END" /\ ~AllReceived
  /\ m_read' = FALSE
  /\ inflight' = Owed(in)
  /\ UNCHANGED <<state, m_address, current_read_addr, words_commanded,
                 is_cont_mode, frame_active>>

DmaTick(in) ==
  /\ Receive(in)
  /\ \/ StartFrame(in) \/ Rest(in)
     \/ LastCommanded(in) \/ Command(in) \/ Throttle(in)
     \/ Accepted(in) \/ Stalled(in)
     \/ Finish(in) \/ Drain(in)

(* reset_n comes from the HPS and resets the memory interconnect as well:  *)
(* the words still owed are never delivered.                               *)
DmaReset ==
  /\ state' = "IDLE"
  /\ m_address' = 0 /\ m_read' = FALSE
  /\ current_read_addr' = 0
  /\ words_commanded' = 0 /\ words_received' = 0
  /\ is_cont_mode' = FALSE /\ frame_active' = FALSE
  /\ dma_done' = FALSE
  /\ inflight' = <<>>

DmaNext == DmaReset \/ \E in \in DmaInputs(0..(FIFO_DEPTH - 1)) : DmaTick(in)

DmaSpec == DmaInit /\ [][DmaNext]_dmaVars

(* What a frame under way needs of its surroundings: that clk runs, that   *)
(* the memory takes the command held out to it and delivers what it owes,  *)
(* and that the FIFO is read, so that there is room once nothing is owed.  *)
EdgeWith(P(_)) == \E in \in DmaInputs(0..(FIFO_DEPTH - 1)) : P(in) /\ DmaTick(in)

DmaFairness ==
  /\ WF_dmaVars(EdgeWith(LAMBDA in : TRUE))
  /\ WF_dmaVars(EdgeWith(LAMBDA in : state = "ISSUE_READ" /\ ~in.waitrequest))
  /\ WF_dmaVars(EdgeWith(LAMBDA in : in.readdatavalid))
  /\ WF_dmaVars(EdgeWith(LAMBDA in : state = "CHECK_FIFO" /\ in.fifo_used = 0))

DmaFairSpec == DmaSpec /\ DmaFairness
-----------------------------------------------------------------------------
(* Properties                                                              *)

Pending == words_commanded - words_received
FrameBase == current_read_addr - 4 * words_commanded

DmaTypeOK ==
  /\ state \in {"IDLE", "CHECK_FIFO", "ISSUE_READ", "WAIT_END"}
  /\ m_address \in Nat /\ m_read \in BOOLEAN
  /\ current_read_addr \in Nat
  /\ words_commanded \in 0..FRAME_SIZE_WORDS
  /\ words_received \in 0..FRAME_SIZE_WORDS
  /\ is_cont_mode \in BOOLEAN /\ frame_active \in BOOLEAN /\ dma_done \in BOOLEAN
  /\ inflight \in Seq(Nat)

(* The flow-control subtraction words_commanded - words_received of line   *)
(* 110 is exactly what the memory still owes during a frame, so it never   *)
(* wraps below zero; and nothing is owed between frames, so a late word    *)
(* can never be counted into the next frame.                               *)
PendingExact ==
  Len(inflight) = IF state = "IDLE" THEN 0 ELSE Pending

(* The memory owes the words of one frame, in order and without a gap:     *)
(* the n-th word to arrive is the n-th word of the frame latched at its    *)
(* start, and a command on the bus continues that run.                     *)
FrameInOrder ==
  /\ state # "IDLE" => FrameBase \in Base
  /\ \A i \in DOMAIN inflight :
       inflight[i] = FrameBase + 4 * (words_received + i - 1)
  /\ m_read => m_address = current_read_addr

(* The done pulse is raised once every word of the frame has arrived, with *)
(* the FSM one edge away from IDLE: software that sees the sticky bit it   *)
(* sets can start the next frame without the start pulse being missed.     *)
DoneIsComplete ==
  dma_done => /\ state = "WAIT_END"
              /\ words_received = FRAME_SIZE_WORDS
              /\ inflight = <<>>

(* However often software moves the frame pointer and whatever vertical    *)
(* syncs and start pulses come, a frame under way keeps its base address.  *)
OneBasePerFrame ==
  [][(state # "IDLE" /\ state' # "IDLE") => FrameBase' = FrameBase]_dmaVars

(* A frame under way ends, however long the FIFO stays full and the memory *)
(* slow: the FSM never waits for a count that cannot come.                 *)
FrameEnds == state # "IDLE" ~> state = "IDLE"
=============================================================================
