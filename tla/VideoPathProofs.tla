-------------------------- MODULE VideoPathProofs ---------------------------
(***************************************************************************)
(* The frame reader keeps its invariants for every burst length, FIFO      *)
(* depth, frame size made of whole bursts and set of frame addresses, and  *)
(* whatever occupancy the FIFO reports.  With the FIFO behind it, its flow *)
(* control never lets the FIFO overflow, however late the write side       *)
(* learns of reads (the credit argument), and the words leave the FIFO in  *)
(* the order of their addresses.                                           *)
(***************************************************************************)
EXTENDS VideoPath, SequenceTheorems, TLAPS

-----------------------------------------------------------------------------
(* The frame reader.                                                       *)

(* The strengthening that is inductive: the FSM state fixes where the      *)
(* command counter may stand, and that counter moves by whole bursts.      *)
WholeBurstsCommanded ==
  \E k \in 0..FRAME_SIZE_WORDS : words_commanded = k * BURST_LEN

StateFitsCounters ==
  /\ m_read <=> state = "ISSUE_READ"
  /\ state = "ISSUE_READ" => words_commanded < FRAME_SIZE_WORDS
  /\ state = "WAIT_END" => words_commanded = FRAME_SIZE_WORDS
  /\ state # "IDLE" => words_received <= words_commanded

DmaIInv ==
  /\ DmaTypeOK
  /\ WholeBurstsCommanded
  /\ StateFitsCounters
  /\ PendingExact
  /\ FrameInOrder
  /\ DoneIsComplete
-----------------------------------------------------------------------------
LEMMA BurstOfWords ==
  ASSUME NEW a \in Nat
  PROVE  /\ BurstOf(a) \in Seq(Nat)
         /\ Len(BurstOf(a)) = BURST_LEN
         /\ \A i \in 1..BURST_LEN : BurstOf(a)[i] = a + 4 * (i - 1)
<1>1. BURST_LEN \in Nat
  BY DmaAssumption
<1>2. \A i \in 1..BURST_LEN : a + 4 * (i - 1) \in Nat
  BY <1>1
<1>3. QED
  BY <1>1, <1>2 DEF BurstOf

(* Commanding one more burst never goes past the frame.                    *)
LEMMA NextBurstFits ==
  ASSUME NEW k \in Nat, k * BURST_LEN < FRAME_SIZE_WORDS
  PROVE  (k + 1) * BURST_LEN <= FRAME_SIZE_WORDS
<1>1. PICK n \in 1..FRAME_SIZE_WORDS : FRAME_SIZE_WORDS = n * BURST_LEN
  BY WholeBursts
<1>2. BURST_LEN \in Nat \ {0} /\ FRAME_SIZE_WORDS \in Nat /\ n \in Nat
  BY <1>1, DmaAssumption
<1>3. k < n
  <2>1. SUFFICES ASSUME n <= k PROVE FALSE
    BY <1>2
  <2>2. n * BURST_LEN <= k * BURST_LEN
    BY <2>1, <1>2
  <2>3. QED
    BY <2>2, <1>1, <1>2
<1>4. (k + 1) * BURST_LEN <= n * BURST_LEN
  BY <1>3, <1>2
<1>5. QED
  BY <1>4, <1>1

LEMMA InitIInv == DmaInit => DmaIInv
<1> SUFFICES ASSUME DmaInit PROVE DmaIInv
  OBVIOUS
<1> USE DmaAssumption DEF DmaInit
<1>1. DmaTypeOK
  <2>1. <<>> \in Seq(Nat)
    BY EmptySeq
  <2>2. /\ 0 \in Nat /\ 0 \in 0..FRAME_SIZE_WORDS
        /\ TRUE \in BOOLEAN /\ FALSE \in BOOLEAN
    OBVIOUS
  <2>3. QED
    BY <2>1, <2>2, Zenon DEF DmaTypeOK
<1>2. WholeBurstsCommanded
  BY 0 \in 0..FRAME_SIZE_WORDS, 0 = 0 * BURST_LEN DEF WholeBurstsCommanded
<1>3. StateFitsCounters
  BY DEF StateFitsCounters
<1>4. PendingExact
  BY DEF PendingExact
<1>5. FrameInOrder
  BY DEF FrameInOrder
<1>6. DoneIsComplete
  BY DEF DoneIsComplete
<1>7. QED
  BY <1>1, <1>2, <1>3, <1>4, <1>5, <1>6 DEF DmaIInv

(* Between frames nothing is owed, so no word arrives.                     *)
LEMMA QuietEdge ==
  ASSUME DmaIInv, NEW used, NEW in \in DmaInputs(used), Receive(in), state = "IDLE"
  PROVE  /\ inflight = <<>> /\ Owed(in) = <<>>
         /\ ~in.readdatavalid /\ dma_done' = FALSE
         /\ words_received' \in 0..FRAME_SIZE_WORDS
         /\ Trigger(in) => words_received' = 0
<1>1. inflight \in Seq(Nat) /\ Len(inflight) = 0
  BY DEF DmaIInv, PendingExact, DmaTypeOK
<1>2. inflight = <<>>
  BY <1>1, EmptySeq
<1>3. in.readdatavalid = FALSE
  BY <1>2 DEF Receive, DmaInputs
<1>4. words_received' = IF Trigger(in) THEN 0 ELSE words_received
  BY <1>3 DEF Receive
<1>5. Owed(in) = <<>> /\ dma_done' = FALSE
  BY <1>2, <1>3 DEF Receive, Owed
<1>6. words_received \in 0..FRAME_SIZE_WORDS /\ FRAME_SIZE_WORDS \in Nat
  BY DmaAssumption DEF DmaIInv, DmaTypeOK
<1>7. QED
  BY <1>2, <1>3, <1>4, <1>5, <1>6

(* During a frame the word of this edge is the next one of the frame, and  *)
(* the done pulse marks the last one.                                      *)
LEMMA BusyEdge ==
  ASSUME DmaIInv, NEW used, NEW in \in DmaInputs(used), Receive(in), state # "IDLE"
  PROVE  /\ Owed(in) \in Seq(Nat)
         /\ words_received' \in 0..FRAME_SIZE_WORDS
         /\ words_received' <= words_commanded
         /\ Len(Owed(in)) = words_commanded - words_received'
         /\ \A i \in 1..Len(Owed(in)) :
               Owed(in)[i] = FrameBase + 4 * (words_received' + i - 1)
         /\ dma_done' \in BOOLEAN
         /\ dma_done' => /\ state \in {"CHECK_FIFO", "WAIT_END"}
                         /\ words_commanded = FRAME_SIZE_WORDS
                         /\ words_received = FRAME_SIZE_WORDS - 1
                         /\ words_received' = FRAME_SIZE_WORDS
                         /\ Owed(in) = <<>>
<1>1. /\ inflight \in Seq(Nat) /\ in.readdatavalid \in BOOLEAN
      /\ in.readdatavalid => inflight # <<>>
      /\ words_received \in 0..FRAME_SIZE_WORDS
      /\ words_commanded \in 0..FRAME_SIZE_WORDS
      /\ current_read_addr \in Nat
      /\ FRAME_SIZE_WORDS \in Nat
  BY DmaAssumption DEF DmaIInv, DmaTypeOK, Receive, DmaInputs
<1>2. Len(inflight) = words_commanded - words_received
  BY DEF DmaIInv, PendingExact, Pending
<1>3. \A i \in 1..Len(inflight) :
        inflight[i] = FrameBase + 4 * (words_received + i - 1)
  BY <1>1, LenProperties DEF DmaIInv, FrameInOrder
<1>4. FrameBase \in Int
  BY <1>1 DEF FrameBase
<1>5. CASE in.readdatavalid
  <2>1. /\ Owed(in) \in Seq(Nat) /\ Len(inflight) >= 1
        /\ Len(Owed(in)) = Len(inflight) - 1
        /\ \A i \in 1..Len(Owed(in)) : Owed(in)[i] = inflight[i + 1]
    BY <1>1, <1>5, HeadTailProperties, LenProperties, EmptySeq DEF Owed
  <2>2. words_received' = words_received + 1
    BY <1>5 DEF Receive
  <2>3. dma_done' <=> words_received = FRAME_SIZE_WORDS - 1
    BY <1>5 DEF Receive
  <2>4. dma_done' \in BOOLEAN
    BY <1>5 DEF Receive
  <2>5. Len(inflight) \in Nat /\ Len(Owed(in)) \in Nat
    BY <1>1, <2>1, LenProperties
  <2>6. \A i \in 1..Len(Owed(in)) :
          Owed(in)[i] = FrameBase + 4 * (words_received' + i - 1)
    <3>1. SUFFICES ASSUME NEW i \in 1..Len(Owed(in))
                   PROVE  Owed(in)[i] = FrameBase + 4 * (words_received' + i - 1)
      OBVIOUS
    <3>2. i + 1 \in 1..Len(inflight)
      BY <2>1, <2>5
    <3>3. inflight[i + 1] = FrameBase + 4 * (words_received + (i + 1) - 1)
      BY <3>2, <1>3
    <3>4. QED
      BY <3>3, <2>1, <2>2, <1>1, <1>4
  <2>7. words_received' \in 0..FRAME_SIZE_WORDS /\ words_received' <= words_commanded
    BY <1>1, <1>2, <2>1, <2>2, <2>5
  <2>8. Len(Owed(in)) = words_commanded - words_received'
    BY <1>1, <1>2, <2>1, <2>2, <2>5
  <2>9. ASSUME dma_done'
        PROVE  /\ state \in {"CHECK_FIFO", "WAIT_END"}
               /\ words_commanded = FRAME_SIZE_WORDS
               /\ words_received = FRAME_SIZE_WORDS - 1
               /\ words_received' = FRAME_SIZE_WORDS
               /\ Owed(in) = <<>>
    <3>1. words_received = FRAME_SIZE_WORDS - 1
      BY <2>9, <2>3
    <3>2. /\ words_commanded = FRAME_SIZE_WORDS
          /\ words_received' = FRAME_SIZE_WORDS
          /\ Len(Owed(in)) = 0
      BY <3>1, <1>1, <1>2, <2>1, <2>2, <2>5
    <3>3. state # "ISSUE_READ"
      BY <3>2, <1>1 DEF DmaIInv, StateFitsCounters
    <3>4. state \in {"CHECK_FIFO", "WAIT_END"}
      BY <3>3 DEF DmaIInv, DmaTypeOK
    <3>5. Owed(in) = <<>>
      BY <3>2, <2>1, EmptySeq
    <3>6. QED
      BY <3>1, <3>2, <3>4, <3>5
  <2>10. QED
    BY <2>1, <2>4, <2>6, <2>7, <2>8, <2>9
<1>6. CASE ~in.readdatavalid
  <2>1. Owed(in) = inflight
    BY <1>6 DEF Owed
  <2>2. words_received' = words_received /\ dma_done' = FALSE
    BY <1>6 DEF Receive
  <2>3. words_received <= words_commanded
    BY DEF DmaIInv, StateFitsCounters
  <2>4. QED
    BY <2>1, <2>2, <2>3, <1>1, <1>2, <1>3
<1>7. QED
  BY <1>5, <1>6, <1>1
(* Every edge keeps the invariant, whatever is sampled at it.              *)
LEMMA StartFrameKeeps ==
  ASSUME DmaIInv, NEW used, NEW in \in DmaInputs(used), Receive(in), StartFrame(in)
  PROVE  DmaIInv'
<1>1. /\ inflight' = <<>> /\ ~in.readdatavalid /\ dma_done' = FALSE
      /\ words_received' = 0 /\ words_commanded' = 0
      /\ state' = "CHECK_FIFO" /\ m_read' = FALSE /\ frame_active' = TRUE
      /\ current_read_addr' = in.start_addr /\ m_address' = m_address
      /\ is_cont_mode' = ~in.dma_start
  BY QuietEdge DEF StartFrame
<1>2. in.start_addr \in Base /\ in.start_addr \in Nat /\ m_address \in Nat
  BY DmaAssumption DEF DmaInputs, DmaIInv, DmaTypeOK
<1>3. <<>> \in Seq(Nat) /\ Len(<<>>) = 0
  BY EmptySeq
<1>4. 0 \in 0..FRAME_SIZE_WORDS /\ 0 = 0 * BURST_LEN
  BY DmaAssumption
<1>5. DmaTypeOK'
  <2>1. is_cont_mode' \in BOOLEAN
    BY <1>1, Zenon
  <2>2. m_read' \in BOOLEAN /\ frame_active' \in BOOLEAN /\ dma_done' \in BOOLEAN
    BY <1>1, Zenon
  <2>3. QED
    BY <1>1, <1>2, <1>3, <1>4, <2>1, <2>2, Zenon DEF DmaTypeOK
<1>6. WholeBurstsCommanded'
  BY <1>1, <1>4 DEF WholeBurstsCommanded
<1>7. StateFitsCounters'
  BY <1>1 DEF StateFitsCounters
<1>8. PendingExact'
  BY <1>1, <1>3 DEF PendingExact, Pending
<1>9. FrameInOrder'
  <2>1. FrameBase' = in.start_addr
    BY <1>1, <1>2 DEF FrameBase
  <2>2. QED
    BY <1>1, <1>2, <2>1 DEF FrameInOrder
<1>10. DoneIsComplete'
  BY <1>1 DEF DoneIsComplete
<1>11. QED
  BY <1>5, <1>6, <1>7, <1>8, <1>9, <1>10 DEF DmaIInv

LEMMA RestKeeps ==
  ASSUME DmaIInv, NEW used, NEW in \in DmaInputs(used), Receive(in), Rest(in)
  PROVE  DmaIInv'
<1>1. /\ inflight' = <<>> /\ ~in.readdatavalid /\ dma_done' = FALSE
      /\ words_received' \in 0..FRAME_SIZE_WORDS /\ words_commanded' = 0
      /\ state' = "IDLE" /\ m_read' = FALSE /\ frame_active' = FALSE
      /\ current_read_addr' = current_read_addr /\ m_address' = m_address
      /\ is_cont_mode' = (is_cont_mode /\ in.dma_cont_en)
  BY QuietEdge DEF Rest
<1>2. current_read_addr \in Nat /\ m_address \in Nat
  BY DEF DmaIInv, DmaTypeOK
<1>3. <<>> \in Seq(Nat) /\ Len(<<>>) = 0
  BY EmptySeq
<1>4. 0 \in 0..FRAME_SIZE_WORDS /\ 0 = 0 * BURST_LEN
  BY DmaAssumption
<1>5. DmaTypeOK'
  <2>1. is_cont_mode' \in BOOLEAN
    BY <1>1, Zenon
  <2>2. m_read' \in BOOLEAN /\ frame_active' \in BOOLEAN /\ dma_done' \in BOOLEAN
    BY <1>1, Zenon
  <2>3. QED
    BY <1>1, <1>2, <1>3, <1>4, <2>1, <2>2, Zenon DEF DmaTypeOK
<1>6. WholeBurstsCommanded'
  BY <1>1, <1>4 DEF WholeBurstsCommanded
<1>7. StateFitsCounters'
  BY <1>1 DEF StateFitsCounters
<1>8. PendingExact'
  BY <1>1, <1>3 DEF PendingExact
<1>9. FrameInOrder'
  BY <1>1 DEF FrameInOrder
<1>10. DoneIsComplete'
  BY <1>1 DEF DoneIsComplete
<1>11. QED
  BY <1>5, <1>6, <1>7, <1>8, <1>9, <1>10 DEF DmaIInv

(* The edges of a frame at which no command is accepted: what is owed only *)
(* shrinks, and the frame's base and the command counter stay.             *)
NoAcceptance(in) ==
  \/ LastCommanded(in) \/ Command(in) \/ Throttle(in)
  \/ Stalled(in) \/ Finish(in) \/ Drain(in)

LEMMA NoAcceptanceKeeps ==
  ASSUME DmaIInv, NEW used, NEW in \in DmaInputs(used), Receive(in), NoAcceptance(in)
  PROVE  DmaIInv'
<1>1. /\ state # "IDLE" /\ inflight' = Owed(in)
      /\ words_commanded' = words_commanded
      /\ current_read_addr' = current_read_addr
  BY DEF NoAcceptance, LastCommanded, Command, Throttle, Stalled, Finish, Drain
<1>2. /\ inflight' \in Seq(Nat)
      /\ words_received' \in 0..FRAME_SIZE_WORDS
      /\ words_received' <= words_commanded
      /\ Len(inflight') = words_commanded - words_received'
      /\ \A i \in 1..Len(inflight') :
            inflight'[i] = FrameBase + 4 * (words_received' + i - 1)
      /\ dma_done' \in BOOLEAN
      /\ dma_done' => /\ state \in {"CHECK_FIFO", "WAIT_END"}
                      /\ words_commanded = FRAME_SIZE_WORDS
                      /\ words_received = FRAME_SIZE_WORDS - 1
                      /\ words_received' = FRAME_SIZE_WORDS
                      /\ inflight' = <<>>
  BY <1>1, BusyEdge
<1>3. /\ words_commanded \in 0..FRAME_SIZE_WORDS /\ FRAME_SIZE_WORDS \in Nat
      /\ words_received \in 0..FRAME_SIZE_WORDS
      /\ current_read_addr \in Nat /\ m_address \in Nat
  BY DmaAssumption DEF DmaIInv, DmaTypeOK
<1>4. /\ m_address' \in Nat /\ m_read' \in BOOLEAN
      /\ is_cont_mode' \in BOOLEAN /\ frame_active' \in BOOLEAN
  <2>1. CASE Command(in)
    BY <2>1, <1>3, Zenon DEF Command, DmaIInv, DmaTypeOK
  <2>2. CASE LastCommanded(in) \/ Throttle(in) \/ Stalled(in) \/ Finish(in) \/ Drain(in)
    BY <2>2, Zenon DEF LastCommanded, Throttle, Stalled, Finish, Drain, DmaIInv, DmaTypeOK
  <2>3. QED
    BY <2>1, <2>2, Zenon DEF NoAcceptance
<1>5. /\ state' \in {"IDLE", "CHECK_FIFO", "ISSUE_READ", "WAIT_END"}
      /\ m_read' <=> state' = "ISSUE_READ"
      /\ state' = "ISSUE_READ" => words_commanded < FRAME_SIZE_WORDS
      /\ state' = "WAIT_END" => words_commanded = FRAME_SIZE_WORDS
      /\ m_read' => m_address' = current_read_addr
      /\ state' = "IDLE" => state = "WAIT_END" /\ words_received = FRAME_SIZE_WORDS
      /\ (state = "CHECK_FIFO" /\ words_commanded = FRAME_SIZE_WORDS)
           => state' = "WAIT_END"
      /\ (state = "WAIT_END" /\ words_received < FRAME_SIZE_WORDS)
           => state' = "WAIT_END"
  BY <1>3
  DEF NoAcceptance, LastCommanded, Command, Throttle, Stalled, Finish, Drain,
      AllCommanded, AllReceived, DmaIInv, StateFitsCounters, FrameInOrder, DmaTypeOK
<1>6. DmaTypeOK'
  BY <1>1, <1>2, <1>3, <1>4, <1>5, Zenon DEF DmaTypeOK
<1>7. WholeBurstsCommanded'
  BY <1>1 DEF DmaIInv, WholeBurstsCommanded
<1>8. StateFitsCounters'
  BY <1>1, <1>2, <1>5 DEF StateFitsCounters
<1>9. PendingExact'
  <2>1. CASE state' = "IDLE"
    <3>1. words_commanded = FRAME_SIZE_WORDS /\ words_received = FRAME_SIZE_WORDS
      BY <2>1, <1>5 DEF DmaIInv, StateFitsCounters
    <3>2. Len(inflight) = 0 /\ inflight \in Seq(Nat)
      BY <3>1, <1>3, <1>1 DEF DmaIInv, PendingExact, Pending, DmaTypeOK
    <3>3. inflight = <<>>
      BY <3>2, EmptySeq
    <3>4. inflight' = <<>>
      BY <3>3, <1>1 DEF Receive, Owed
    <3>5. QED
      BY <3>4, <2>1 DEF PendingExact
  <2>2. CASE state' # "IDLE"
    BY <2>2, <1>1, <1>2 DEF PendingExact, Pending
  <2>3. QED
    BY <2>1, <2>2
<1>10. FrameInOrder'
  <2>1. FrameBase' = FrameBase
    BY <1>1 DEF FrameBase
  <2>2. FrameBase \in Base
    BY <1>1 DEF DmaIInv, FrameInOrder
  <2>3. DOMAIN inflight' = 1..Len(inflight')
    BY <1>2, LenProperties
  <2>4. QED
    BY <1>1, <1>2, <1>5, <2>1, <2>2, <2>3 DEF FrameInOrder
<1>11. DoneIsComplete'
  <2>1. SUFFICES ASSUME dma_done'
                 PROVE  /\ state' = "WAIT_END"
                        /\ words_received' = FRAME_SIZE_WORDS
                        /\ inflight' = <<>>
    BY DEF DoneIsComplete
  <2>2. words_received < FRAME_SIZE_WORDS
    BY <2>1, <1>2, <1>3
  <2>3. QED
    BY <2>1, <2>2, <1>2, <1>5
<1>12. QED
  BY <1>6, <1>7, <1>8, <1>9, <1>10, <1>11 DEF DmaIInv
(* An accepted command adds one burst to what is owed: the words that      *)
(* follow those already owed.                                              *)
LEMMA AcceptedKeeps ==
  ASSUME DmaIInv, NEW used, NEW in \in DmaInputs(used), Receive(in), Accepted(in)
  PROVE  DmaIInv'
<1> DEFINE owed == Owed(in)
           burst == BurstOf(m_address)
<1>1. /\ state = "ISSUE_READ" /\ state' = "CHECK_FIFO" /\ m_read' = FALSE
      /\ current_read_addr' = current_read_addr + 4 * BURST_LEN
      /\ words_commanded' = words_commanded + BURST_LEN
      /\ inflight' = owed \o burst
      /\ m_address' = m_address /\ is_cont_mode' = is_cont_mode
      /\ frame_active' = frame_active
  BY DEF Accepted
<1>2. /\ owed \in Seq(Nat)
      /\ words_received' \in 0..FRAME_SIZE_WORDS
      /\ words_received' <= words_commanded
      /\ Len(owed) = words_commanded - words_received'
      /\ \A i \in 1..Len(owed) : owed[i] = FrameBase + 4 * (words_received' + i - 1)
      /\ dma_done' \in BOOLEAN
      /\ dma_done' => state \in {"CHECK_FIFO", "WAIT_END"}
  BY <1>1, BusyEdge
<1>3. /\ words_commanded \in 0..FRAME_SIZE_WORDS /\ words_commanded < FRAME_SIZE_WORDS
      /\ FRAME_SIZE_WORDS \in Nat /\ BURST_LEN \in Nat \ {0}
      /\ current_read_addr \in Nat /\ m_address \in Nat
      /\ m_address = current_read_addr
      /\ FrameBase \in Base
  BY <1>1, DmaAssumption DEF DmaIInv, DmaTypeOK, StateFitsCounters, FrameInOrder
<1>4. /\ burst \in Seq(Nat) /\ Len(burst) = BURST_LEN
      /\ \A i \in 1..BURST_LEN : burst[i] = m_address + 4 * (i - 1)
  BY <1>3, BurstOfWords
<1>5. PICK k \in 0..FRAME_SIZE_WORDS : words_commanded = k * BURST_LEN
  BY DEF DmaIInv, WholeBurstsCommanded
<1>6. /\ words_commanded' = (k + 1) * BURST_LEN
      /\ words_commanded' <= FRAME_SIZE_WORDS
      /\ k + 1 \in 0..FRAME_SIZE_WORDS
  <2>1. k \in Nat /\ k * BURST_LEN < FRAME_SIZE_WORDS
    BY <1>3, <1>5
  <2>2. (k + 1) * BURST_LEN <= FRAME_SIZE_WORDS
    BY <2>1, NextBurstFits
  <2>3. (k + 1) * BURST_LEN = k * BURST_LEN + BURST_LEN
    BY <2>1, <1>3
  <2>4. k + 1 <= (k + 1) * BURST_LEN
    BY <2>1, <1>3
  <2>5. QED
    BY <1>1, <1>3, <1>5, <2>1, <2>2, <2>3, <2>4
<1>7. /\ inflight' \in Seq(Nat)
      /\ Len(inflight') = words_commanded' - words_received'
      /\ \A i \in 1..Len(inflight') :
            inflight'[i] = IF i <= Len(owed) THEN owed[i] ELSE burst[i - Len(owed)]
  <2>1. /\ owed \o burst \in Seq(Nat)
        /\ Len(owed \o burst) = Len(owed) + Len(burst)
        /\ \A i \in 1..(Len(owed) + Len(burst)) :
              (owed \o burst)[i] = IF i <= Len(owed) THEN owed[i] ELSE burst[i - Len(owed)]
    BY <1>2, <1>4, ConcatProperties
  <2>2. Len(owed) + Len(burst) = words_commanded' - words_received'
    BY <1>1, <1>2, <1>3, <1>4
  <2>3. QED
    BY <2>1, <2>2, <1>1
<1>8. DmaTypeOK'
  <2>1. /\ current_read_addr' \in Nat /\ m_address' \in Nat
        /\ words_commanded' \in 0..FRAME_SIZE_WORDS
    BY <1>1, <1>3, <1>6
  <2>2. is_cont_mode' \in BOOLEAN /\ frame_active' \in BOOLEAN /\ m_read' \in BOOLEAN
    BY <1>1, Zenon DEF DmaIInv, DmaTypeOK
  <2>3. QED
    BY <1>1, <1>2, <1>7, <2>1, <2>2, Zenon DEF DmaTypeOK
<1>9. WholeBurstsCommanded'
  BY <1>6 DEF WholeBurstsCommanded
<1>10. StateFitsCounters'
  BY <1>1, <1>2, <1>3 DEF StateFitsCounters
<1>11. PendingExact'
  BY <1>1, <1>7 DEF PendingExact, Pending
<1>12. FrameInOrder'
  <2>1. FrameBase' = FrameBase /\ FrameBase \in Int
    BY <1>1, <1>3 DEF FrameBase
  <2>2. m_address = FrameBase + 4 * words_commanded
    BY <1>3 DEF FrameBase
  <2>3. ASSUME NEW i \in 1..Len(inflight')
        PROVE  inflight'[i] = FrameBase + 4 * (words_received' + i - 1)
    <3>1. Len(owed) \in Nat /\ i \in Nat /\ i <= Len(owed) + BURST_LEN
      <4>1. Len(owed) \in Nat /\ Len(inflight') \in Nat
        BY <1>2, <1>7, LenProperties
      <4>2. Len(inflight') = Len(owed) + BURST_LEN
        BY <1>1, <1>2, <1>3, <1>7
      <4>3. QED
        BY <4>1, <4>2
    <3>2. CASE i <= Len(owed)
      BY <3>1, <3>2, <1>7, <1>2
    <3>3. CASE i > Len(owed)
      <4>1. i - Len(owed) \in 1..BURST_LEN
        BY <3>1, <3>3, <1>3
      <4>2. inflight'[i] = m_address + 4 * (i - Len(owed) - 1)
        BY <4>1, <3>1, <3>3, <1>4, <1>7
      <4>3. /\ Len(owed) = words_commanded - words_received'
            /\ words_received' \in Int /\ words_commanded \in Int
        BY <1>2, <1>3
      <4>4. 4 * words_commanded + 4 * (i - Len(owed) - 1) = 4 * (words_received' + i - 1)
        <5>1. PICK b \in Int : b = words_received'
          BY <4>3
        <5>2. PICK c \in Int : c = words_commanded
          BY <4>3
        <5>3. Len(owed) = c - b /\ i \in Int
          BY <3>1, <4>3, <5>1, <5>2
        <5>4. 4 * c + 4 * (i - (c - b) - 1) = 4 * (b + i - 1)
          BY <5>3
        <5>5. QED
          BY <5>1, <5>2, <5>3, <5>4
      <4>5. m_address + 4 * (i - Len(owed) - 1)
              = FrameBase + (4 * words_commanded + 4 * (i - Len(owed) - 1))
        BY <4>3, <3>1, <2>1, <2>2, SMTT(30)
      <4>6. QED
        BY <4>2, <4>4, <4>5
    <3>4. QED
      BY <3>1, <3>2, <3>3
  <2>4. DOMAIN inflight' = 1..Len(inflight')
    BY <1>7, LenProperties
  <2>5. QED
    BY <1>1, <1>3, <2>1, <2>3, <2>4 DEF FrameInOrder
<1>13. DoneIsComplete'
  BY <1>1, <1>2 DEF DoneIsComplete
<1>14. QED
  BY <1>8, <1>9, <1>10, <1>11, <1>12, <1>13 DEF DmaIInv

LEMMA TickKeeps ==
  ASSUME DmaIInv, NEW used, NEW in \in DmaInputs(used), DmaTick(in)
  PROVE  DmaIInv'
<1>1. Receive(in)
  BY DEF DmaTick
<1>2. CASE StartFrame(in)
  BY <1>1, <1>2, StartFrameKeeps
<1>3. CASE Rest(in)
  BY <1>1, <1>3, RestKeeps
<1>4. CASE Accepted(in)
  BY <1>1, <1>4, AcceptedKeeps
<1>5. CASE NoAcceptance(in)
  BY <1>1, <1>5, NoAcceptanceKeeps
<1>6. QED
  BY <1>2, <1>3, <1>4, <1>5 DEF DmaTick, NoAcceptance

LEMMA ResetKeeps == DmaReset => DmaIInv'
<1> SUFFICES ASSUME DmaReset PROVE DmaIInv'
  OBVIOUS
<1> USE DEF DmaReset
<1>1. <<>> \in Seq(Nat) /\ Len(<<>>) = 0
  BY EmptySeq
<1>2. 0 \in Nat /\ 0 \in 0..FRAME_SIZE_WORDS /\ 0 = 0 * BURST_LEN
  BY DmaAssumption
<1>3. DmaTypeOK'
  BY <1>1, <1>2, Zenon DEF DmaTypeOK
<1>4. WholeBurstsCommanded'
  BY <1>2 DEF WholeBurstsCommanded
<1>5. StateFitsCounters' /\ DoneIsComplete'
  BY DEF StateFitsCounters, DoneIsComplete
<1>6. PendingExact' /\ FrameInOrder'
  BY <1>1 DEF PendingExact, FrameInOrder
<1>7. QED
  BY <1>3, <1>4, <1>5, <1>6 DEF DmaIInv

LEMMA NextKeeps == DmaIInv /\ [DmaNext]_dmaVars => DmaIInv'
<1> SUFFICES ASSUME DmaIInv, [DmaNext]_dmaVars PROVE DmaIInv'
  OBVIOUS
<1>1. CASE DmaReset
  BY <1>1, ResetKeeps
<1>2. CASE \E in \in DmaInputs(0..(FIFO_DEPTH - 1)) : DmaTick(in)
  BY <1>2, TickKeeps
<1>3. CASE UNCHANGED dmaVars
  BY <1>3 DEF dmaVars, dmaRegs, DmaIInv, DmaTypeOK, WholeBurstsCommanded,
              StateFitsCounters, PendingExact, FrameInOrder, DoneIsComplete,
              Pending, FrameBase
<1>4. QED
  BY <1>1, <1>2, <1>3 DEF DmaNext
-----------------------------------------------------------------------------
(* The registers and the memory's debt keep their types: in particular the *)
(* two word counters never leave 0..FRAME_SIZE_WORDS, so their difference  *)
(* in the flow control of video_dma_master.v never wraps.                  *)
THEOREM DmaTypeCorrect == DmaSpec => []DmaTypeOK
<1>1. DmaIInv => DmaTypeOK
  BY DEF DmaIInv
<1>2. QED
  BY InitIInv, NextKeeps, <1>1, PTL DEF DmaSpec

(* During a frame the difference of the counters is what the memory still  *)
(* owes; between frames it owes nothing.                                   *)
THEOREM DmaPendingExact == DmaSpec => []PendingExact
<1>1. DmaIInv => PendingExact
  BY DEF DmaIInv
<1>2. QED
  BY InitIInv, NextKeeps, <1>1, PTL DEF DmaSpec

(* The words owed are always the next words of the frame latched at its    *)
(* start, without a gap.                                                   *)
THEOREM DmaFrameInOrder == DmaSpec => []FrameInOrder
<1>1. DmaIInv => FrameInOrder
  BY DEF DmaIInv
<1>2. QED
  BY InitIInv, NextKeeps, <1>1, PTL DEF DmaSpec

(* The done pulse comes only when the whole frame has arrived and the FSM  *)
(* is about to return to IDLE.                                             *)
THEOREM DmaDoneIsComplete == DmaSpec => []DoneIsComplete
<1>1. DmaIInv => DoneIsComplete
  BY DEF DmaIInv
<1>2. QED
  BY InitIInv, NextKeeps, <1>1, PTL DEF DmaSpec

(* An edge within a frame keeps the base address of the frame.             *)
LEMMA FrameBaseKept ==
  ASSUME DmaIInv, NEW used, NEW in \in DmaInputs(used), DmaTick(in),
         state # "IDLE", state' # "IDLE"
  PROVE  FrameBase' = FrameBase
<1>1. /\ current_read_addr \in Nat /\ words_commanded \in 0..FRAME_SIZE_WORDS
      /\ BURST_LEN \in Nat /\ FRAME_SIZE_WORDS \in Nat
  BY DmaAssumption DEF DmaIInv, DmaTypeOK
<1>2. CASE Accepted(in)
  BY <1>1, <1>2 DEF Accepted, FrameBase
<1>3. CASE NoAcceptance(in)
  BY <1>3 DEF NoAcceptance, LastCommanded, Command, Throttle, Stalled, Finish,
              Drain, FrameBase
<1>4. QED
  BY <1>2, <1>3 DEF DmaTick, NoAcceptance, StartFrame, Rest

(* A frame under way never changes its base address.                       *)
THEOREM DmaOneBasePerFrame == DmaSpec => OneBasePerFrame
<1>1. ASSUME DmaIInv, [DmaNext]_dmaVars
      PROVE  [(state # "IDLE" /\ state' # "IDLE") => FrameBase' = FrameBase]_dmaVars
  <2>1. SUFFICES ASSUME state # "IDLE", state' # "IDLE", DmaNext
                 PROVE  FrameBase' = FrameBase
    BY <1>1
  <2>2. PICK in \in DmaInputs(0..(FIFO_DEPTH - 1)) : DmaTick(in)
    BY <2>1 DEF DmaNext, DmaReset
  <2>3. QED
    BY <1>1, <2>1, <2>2, FrameBaseKept
<1>2. QED
  BY InitIInv, NextKeeps, <1>1, PTL DEF DmaSpec, OneBasePerFrame

-----------------------------------------------------------------------------
(* The frame reader and the FIFO.                                          *)

PathIInv ==
  /\ DmaIInv
  /\ PathTypeOK
  /\ CreditBound

Commanding == IF state = "ISSUE_READ" THEN BURST_LEN ELSE 0
-----------------------------------------------------------------------------
LEMMA PathInitIInv == PathInit => PathIInv
<1> SUFFICES ASSUME PathInit PROVE PathIInv
  OBVIOUS
<1>1. DmaIInv
  BY InitIInv DEF PathInit
<1>2. <<>> \in Seq(Nat) /\ Len(<<>>) = 0
  BY EmptySeq
<1>3. PathTypeOK
  BY <1>1, <1>2 DEF PathInit, PathTypeOK, DmaIInv
<1>4. CreditBound
  BY <1>2, DmaAssumption DEF PathInit, DmaInit, CreditBound, Fifo!UsedSeen
<1>5. QED
  BY <1>1, <1>3, <1>4 DEF PathIInv

(* While the credit holds, the port wrusedw is the count itself and the    *)
(* full flag is down.                                                      *)
LEMMA CreditLeavesRoom ==
  ASSUME PathIInv
  PROVE  /\ Fifo!UsedSeen \in Nat /\ Len(inflight) \in Nat /\ Commanding \in Nat
         /\ Fifo!UsedSeen + Len(inflight) + Commanding <= FIFO_DEPTH - 2
         /\ Fifo!wrusedw = Fifo!UsedSeen
         /\ ~Fifo!wrfull
<1>1. Len(fifo) \in Nat /\ Len(inflight) \in Nat
  BY LenProperties DEF PathIInv, PathTypeOK, DmaTypeOK
<1>2. unseenReads \in Nat /\ FIFO_DEPTH \in Nat /\ BURST_LEN \in Nat
  BY DmaAssumption DEF PathIInv, PathTypeOK
<1>3. Fifo!UsedSeen \in Nat /\ Commanding \in Nat
  BY <1>1, <1>2 DEF Fifo!UsedSeen, Commanding
<1>4. Fifo!UsedSeen + Len(inflight) + Commanding <= FIFO_DEPTH - 2
  BY DEF PathIInv, CreditBound, Commanding
<1>5. Fifo!UsedSeen < FIFO_DEPTH
  BY <1>1, <1>2, <1>3, <1>4
<1>6. QED
  BY <1>1, <1>2, <1>3, <1>4, <1>5 DEF Fifo!wrusedw, Fifo!wrfull

(* A word is stored when it arrives, and the write side's count grows by   *)
(* no more than that.                                                      *)
LEMMA WriteEdgeStores ==
  ASSUME PathIInv, NEW used, NEW in \in DmaInputs(used), ClkEdge(in)
  PROVE  /\ fifo' \in Seq(Nat) /\ unseenReads' \in Nat
         /\ unseenWrites' \in 0..Len(fifo') /\ q' \in Nat
         /\ in.readdatavalid =>
              /\ fifo' = Append(fifo, Head(inflight))
              /\ Fifo!UsedSeen' <= Fifo!UsedSeen + 1
         /\ ~in.readdatavalid =>
              /\ fifo' = fifo
              /\ Fifo!UsedSeen' <= Fifo!UsedSeen
<1>1. /\ ~Fifo!wrfull
      /\ fifo \in Seq(Nat) /\ Len(fifo) \in Nat
      /\ unseenReads \in Nat /\ unseenWrites \in 0..Len(fifo) /\ q \in Nat
  BY CreditLeavesRoom, LenProperties DEF PathIInv, PathTypeOK
<1>2. unseenReads' \in 0..unseenReads /\ q' = q
  BY DEF ClkEdge, Fifo!WriteEdge
<1>3. CASE in.readdatavalid
  <2>1. inflight # <<>> /\ inflight \in Seq(Nat)
    BY <1>3 DEF ClkEdge, DmaTick, Receive, PathIInv, DmaIInv, DmaTypeOK
  <2>2. Head(inflight) \in Nat
    BY <2>1, HeadTailProperties
  <2>3. fifo' = Append(fifo, Head(inflight)) /\ unseenWrites' = unseenWrites + 1
    BY <1>1, <1>3 DEF ClkEdge, Fifo!WriteEdge
  <2>4. fifo' \in Seq(Nat) /\ Len(fifo') = Len(fifo) + 1
    BY <1>1, <2>2, <2>3, AppendProperties
  <2>5. Fifo!UsedSeen' <= Fifo!UsedSeen + 1
    BY <1>1, <1>2, <2>4 DEF Fifo!UsedSeen
  <2>6. QED
    BY <1>1, <1>2, <1>3, <2>3, <2>4, <2>5
<1>4. CASE ~in.readdatavalid
  <2>1. fifo' = fifo /\ unseenWrites' = unseenWrites
    BY <1>4 DEF ClkEdge, Fifo!WriteEdge
  <2>2. Fifo!UsedSeen' <= Fifo!UsedSeen
    BY <1>1, <1>2, <2>1 DEF Fifo!UsedSeen
  <2>3. QED
    BY <1>1, <1>2, <1>4, <2>1, <2>2
<1>5. QED
  BY <1>3, <1>4

LEMMA ClkEdgeKeeps ==
  ASSUME PathIInv, NEW in \in DmaInputs({Fifo!wrusedw}), ClkEdge(in)
  PROVE  PathIInv'
<1>1. DmaTick(in) /\ Receive(in)
  BY DEF ClkEdge, DmaTick
<1>2. DmaIInv'
  BY <1>1, TickKeeps DEF PathIInv
<1>3. PathTypeOK'
  BY <1>2, WriteEdgeStores DEF PathTypeOK, DmaIInv
<1>4. CreditBound'
  <2>1. /\ Fifo!UsedSeen \in Nat /\ Len(inflight) \in Nat
        /\ FIFO_DEPTH \in Nat /\ BURST_LEN \in Nat
        /\ Fifo!UsedSeen + Len(inflight) + Commanding <= FIFO_DEPTH - 2
        /\ in.fifo_used = Fifo!UsedSeen
    BY CreditLeavesRoom, DmaAssumption DEF DmaInputs
  <2>2. Fifo!UsedSeen' \in Nat
    BY <1>3, LenProperties DEF PathTypeOK, Fifo!UsedSeen
  <2>3. /\ Owed(in) \in Seq(Nat) /\ Len(Owed(in)) \in Nat
        /\ Fifo!UsedSeen' + Len(Owed(in)) <= Fifo!UsedSeen + Len(inflight)
    <3>1. CASE in.readdatavalid
      <4>1. inflight # <<>> /\ inflight \in Seq(Nat)
        BY <1>1, <3>1 DEF Receive, PathIInv, DmaIInv, DmaTypeOK
      <4>2. Tail(inflight) \in Seq(Nat) /\ Len(Tail(inflight)) = Len(inflight) - 1
        BY <4>1, HeadTailProperties
      <4>3. Len(Tail(inflight)) \in Nat
        BY <4>2, LenProperties
      <4>4. Fifo!UsedSeen' <= Fifo!UsedSeen + 1
        BY <3>1, WriteEdgeStores
      <4>5. QED
        BY <2>1, <2>2, <3>1, <4>2, <4>3, <4>4 DEF Owed
    <3>2. CASE ~in.readdatavalid
      <4>1. Fifo!UsedSeen' <= Fifo!UsedSeen
        BY <3>2, WriteEdgeStores
      <4>2. QED
        BY <2>1, <2>2, <3>2, <4>1 DEF Owed, PathIInv, DmaIInv, DmaTypeOK
    <3>3. QED
      BY <3>1, <3>2
  <2>4. Fifo!UsedSeen' + Len(inflight') + Commanding' <= FIFO_DEPTH - 2
    <3>1. CASE StartFrame(in) \/ Rest(in) \/ LastCommanded(in) \/ Throttle(in)
               \/ Finish(in) \/ Drain(in)
      <4>1. inflight' = Owed(in) /\ Commanding' = 0 /\ Commanding \in Nat
        BY <3>1, <2>1, DmaAssumption
        DEF StartFrame, Rest, LastCommanded, Throttle, Finish, Drain, Commanding
      <4>2. QED
        BY <2>1, <2>2, <2>3, <4>1
    <3>2. CASE Stalled(in)
      <4>1. inflight' = Owed(in) /\ Commanding' = Commanding /\ Commanding \in Nat
        BY <3>2, <2>1 DEF Stalled, Commanding
      <4>2. QED
        BY <2>1, <2>2, <2>3, <4>1
    <3>3. CASE Command(in)
      <4>1. /\ inflight' = Owed(in) /\ Commanding' = BURST_LEN
            /\ in.fifo_used + (words_commanded - words_received)
                 <= FIFO_DEPTH - BURST_LEN - 2
        BY <3>3 DEF Command, Commanding, RoomForBurst
      <4>2. Len(inflight) = words_commanded - words_received
        BY <3>3 DEF PathIInv, DmaIInv, PendingExact, Pending, Command
      <4>3. Fifo!UsedSeen + Len(inflight) <= FIFO_DEPTH - BURST_LEN - 2
        BY <2>1, <4>1, <4>2
      <4>4. QED
        BY <2>1, <2>2, <2>3, <4>1, <4>3
    <3>4. CASE Accepted(in)
      <4>1. /\ inflight' = Owed(in) \o BurstOf(m_address)
            /\ Commanding' = 0 /\ Commanding = BURST_LEN
        BY <3>4 DEF Accepted, Commanding
      <4>2. BurstOf(m_address) \in Seq(Nat) /\ Len(BurstOf(m_address)) = BURST_LEN
        BY BurstOfWords DEF PathIInv, DmaIInv, DmaTypeOK
      <4>3. Len(Owed(in) \o BurstOf(m_address)) = Len(Owed(in)) + BURST_LEN
        BY <2>3, <4>2, ConcatProperties
      <4>4. QED
        BY <2>1, <2>2, <2>3, <4>1, <4>3
    <3>5. QED
      BY <1>1, <3>1, <3>2, <3>3, <3>4 DEF DmaTick
  <2>5. QED
    BY <2>4 DEF CreditBound, Commanding
<1>5. QED
  BY <1>2, <1>3, <1>4 DEF PathIInv

(* A read moves a word from the stored ones to the unseen reads: the write *)
(* side's count is unchanged.                                              *)
LEMMA PixelEdgeKeeps ==
  ASSUME PathIInv, NEW rdreq \in BOOLEAN, PixelEdge(rdreq)
  PROVE  PathIInv'
<1>1. UNCHANGED dmaVars
  BY DEF PixelEdge
<1>2. DmaIInv'
  BY <1>1 DEF PathIInv, dmaVars, dmaRegs, DmaIInv, DmaTypeOK, WholeBurstsCommanded,
              StateFitsCounters, PendingExact, FrameInOrder, DoneIsComplete,
              Pending, FrameBase
<1>3. /\ fifo \in Seq(Nat) /\ Len(fifo) \in Nat
      /\ unseenReads \in Nat /\ unseenWrites \in 0..Len(fifo) /\ q \in Nat
  BY LenProperties DEF PathIInv, PathTypeOK
<1>4. /\ fifo' \in Seq(Nat) /\ unseenReads' \in Nat
      /\ unseenWrites' \in 0..Len(fifo') /\ q' \in Nat
      /\ Len(fifo') + unseenReads' = Len(fifo) + unseenReads
  <2>1. CASE rdreq /\ ~Fifo!rdempty
    <3>1. fifo # <<>>
      BY <1>3, <2>1, EmptySeq DEF Fifo!rdempty
    <3>2. /\ q' = Head(fifo) /\ fifo' = Tail(fifo)
          /\ unseenReads' = unseenReads + 1 /\ unseenWrites' \in 0..unseenWrites
      BY <2>1 DEF PixelEdge, Fifo!ReadEdge
    <3>3. /\ Head(fifo) \in Nat /\ Tail(fifo) \in Seq(Nat)
          /\ Len(Tail(fifo)) = Len(fifo) - 1
      BY <1>3, <3>1, HeadTailProperties
    <3>4. unseenWrites < Len(fifo)
      BY <1>3, <2>1 DEF Fifo!rdempty
    <3>5. QED
      BY <1>3, <3>2, <3>3, <3>4
  <2>2. CASE ~(rdreq /\ ~Fifo!rdempty)
    <3>1. /\ fifo' = fifo /\ q' = q /\ unseenReads' = unseenReads
          /\ unseenWrites' \in 0..unseenWrites
      BY <2>2 DEF PixelEdge, Fifo!ReadEdge
    <3>2. QED
      BY <1>3, <3>1
  <2>3. QED
    BY <2>1, <2>2
<1>5. PathTypeOK'
  BY <1>2, <1>4 DEF PathTypeOK, DmaIInv
<1>6. CreditBound'
  BY <1>1, <1>4 DEF dmaVars, dmaRegs, PathIInv, CreditBound, Fifo!UsedSeen
<1>7. QED
  BY <1>2, <1>5, <1>6 DEF PathIInv

LEMMA PathResetKeeps ==
  ASSUME PathIInv, PathReset
  PROVE  PathIInv'
<1>1. DmaIInv'
  BY ResetKeeps DEF PathReset
<1>2. PathTypeOK'
  BY <1>1 DEF PathReset, PathIInv, PathTypeOK, DmaIInv
<1>3. CreditBound'
  <2>1. /\ Fifo!UsedSeen' = Fifo!UsedSeen /\ state' = "IDLE" /\ inflight' = <<>>
    BY DEF PathReset, DmaReset, Fifo!UsedSeen
  <2>2. Len(<<>>) = 0 /\ FIFO_DEPTH \in Nat
    BY EmptySeq, DmaAssumption
  <2>3. QED
    BY <2>1, <2>2, CreditLeavesRoom DEF CreditBound
<1>4. QED
  BY <1>1, <1>2, <1>3 DEF PathIInv

LEMMA PathNextKeeps == PathIInv /\ [PathNext]_pathVars => PathIInv'
<1> SUFFICES ASSUME PathIInv, [PathNext]_pathVars PROVE PathIInv'
  OBVIOUS
<1>1. CASE \E in \in DmaInputs({Fifo!wrusedw}) : ClkEdge(in)
  BY <1>1, ClkEdgeKeeps
<1>2. CASE \E rdreq \in BOOLEAN : PixelEdge(rdreq)
  BY <1>2, PixelEdgeKeeps
<1>3. CASE PathReset
  BY <1>3, PathResetKeeps
<1>4. CASE UNCHANGED pathVars
  BY <1>4 DEF pathVars, dmaVars, dmaRegs, PathIInv, PathTypeOK, CreditBound,
              Fifo!UsedSeen, DmaIInv, DmaTypeOK, WholeBurstsCommanded,
              StateFitsCounters, PendingExact, FrameInOrder, DoneIsComplete,
              Pending, FrameBase
<1>5. QED
  BY <1>1, <1>2, <1>3, <1>4 DEF PathNext
-----------------------------------------------------------------------------
(* The types of the joined system; every stored word is an address read.   *)
THEOREM PathTypeCorrect == PathSpec => []PathTypeOK
<1>1. PathIInv => PathTypeOK
  BY DEF PathIInv
<1>2. QED
  BY PathInitIInv, PathNextKeeps, <1>1, PTL DEF PathSpec

(* The credit of the flow control is never exceeded.                       *)
THEOREM PathCreditBound == PathSpec => []CreditBound
<1>1. PathIInv => CreditBound
  BY DEF PathIInv
<1>2. QED
  BY PathInitIInv, PathNextKeeps, <1>1, PTL DEF PathSpec

(* The occupancy port never saturates.                                     *)
THEOREM PathCountIsExact == PathSpec => []CountIsExact
<1>1. PathIInv => CountIsExact
  BY CreditLeavesRoom DEF CountIsExact
<1>2. QED
  BY PathInitIInv, PathNextKeeps, <1>1, PTL DEF PathSpec

(* No word the memory delivers is ever dropped by a full FIFO.             *)
THEOREM PathNoWordLost == PathSpec => NoWordLost
<1>1. ASSUME PathIInv, [PathNext]_pathVars
      PROVE  [words_received' = words_received + 1
                => fifo' = Append(fifo, Head(inflight))]_pathVars
  <2>1. SUFFICES ASSUME PathNext, words_received' = words_received + 1
                 PROVE  fifo' = Append(fifo, Head(inflight))
    BY <1>1
  <2>2. words_received \in Nat
    BY <1>1, DmaAssumption DEF PathIInv, DmaIInv, DmaTypeOK
  <2>3. ~PathReset
    BY <2>1, <2>2 DEF PathReset, DmaReset
  <2>4. ASSUME NEW rdreq \in BOOLEAN, PixelEdge(rdreq)
        PROVE  FALSE
    BY <2>1, <2>2, <2>4 DEF PixelEdge, dmaVars, dmaRegs
  <2>5. PICK in \in DmaInputs({Fifo!wrusedw}) : ClkEdge(in)
    BY <2>1, <2>3, <2>4 DEF PathNext
  <2>6. in.readdatavalid
    BY <2>1, <2>2, <2>5 DEF ClkEdge, DmaTick, Receive
  <2>7. QED
    BY <1>1, <2>5, <2>6, WriteEdgeStores
<1>2. QED
  BY PathInitIInv, PathNextKeeps, <1>1, PTL DEF PathSpec, NoWordLost
-----------------------------------------------------------------------------
(* The order of the words, from the memory to the display.                 *)

Stream == fifo \o inflight
Follows(a, b) == b = a + 4 \/ b \in Base
InOrder(s) == \A i \in 1..(Len(s) - 1) : Follows(s[i], s[i + 1])

(* What makes the order inductive: during a frame the newest word of the   *)
(* stream, if there is one, is the last word of the frame commanded so     *)
(* far, and a frame of which none is commanded starts at a base address.   *)
StreamTail ==
  state # "IDLE" /\ words_commanded > 0 /\ Stream # <<>>
    => Stream[Len(Stream)] = current_read_addr - 4

StreamIInv ==
  /\ PathIInv
  /\ InOrder(Stream)
  /\ StreamTail

(* Removing the oldest word keeps the order and the newest word.           *)
LEMMA TailInOrder ==
  ASSUME NEW s \in Seq(Nat), s # <<>>, InOrder(s)
  PROVE  /\ InOrder(Tail(s))
         /\ Tail(s) # <<>> => Tail(s)[Len(Tail(s))] = s[Len(s)]
<1>1. /\ Len(s) \in Nat /\ Tail(s) \in Seq(Nat) /\ Len(Tail(s)) = Len(s) - 1
      /\ \A i \in 1..Len(Tail(s)) : Tail(s)[i] = s[i + 1]
  BY HeadTailProperties, LenProperties
<1>2. ASSUME NEW i \in 1..(Len(Tail(s)) - 1)
      PROVE  Follows(Tail(s)[i], Tail(s)[i + 1])
  <2>1. /\ i \in 1..Len(Tail(s)) /\ i + 1 \in 1..Len(Tail(s))
        /\ i + 1 \in 1..(Len(s) - 1)
    BY <1>1, <1>2
  <2>2. Tail(s)[i] = s[i + 1] /\ Tail(s)[i + 1] = s[(i + 1) + 1]
    BY <1>1, <2>1
  <2>3. QED
    BY <2>1, <2>2 DEF InOrder
<1>3. ASSUME Tail(s) # <<>>
      PROVE  Tail(s)[Len(Tail(s))] = s[Len(s)]
  <2>1. Len(Tail(s)) # 0
    BY <1>1, <1>3, EmptySeq
  <2>2. Len(Tail(s)) \in 1..Len(Tail(s)) /\ Len(Tail(s)) + 1 = Len(s)
    BY <1>1, <2>1
  <2>3. QED
    BY <1>1, <2>2
<1>4. QED
  BY <1>2, <1>3 DEF InOrder

(* Two ordered runs that fit end to end are one.                           *)
LEMMA ConcatInOrder ==
  ASSUME NEW s \in Seq(Nat), NEW t \in Seq(Nat), InOrder(s), InOrder(t),
         s # <<>> /\ t # <<>> => Follows(s[Len(s)], t[1])
  PROVE  InOrder(s \o t)
<1>1. /\ Len(s) \in Nat /\ Len(t) \in Nat /\ Len(s \o t) = Len(s) + Len(t)
      /\ \A i \in 1..(Len(s) + Len(t)) :
           (s \o t)[i] = IF i <= Len(s) THEN s[i] ELSE t[i - Len(s)]
  BY ConcatProperties, LenProperties
<1>2. ASSUME NEW i \in 1..(Len(s \o t) - 1)
      PROVE  Follows((s \o t)[i], (s \o t)[i + 1])
  <2>1. /\ i \in 1..(Len(s) + Len(t)) /\ i + 1 \in 1..(Len(s) + Len(t))
        /\ i \in Nat
    BY <1>1, <1>2
  <2>2. CASE i < Len(s)
    <3>1. /\ i \in 1..(Len(s) - 1)
          /\ (s \o t)[i] = s[i] /\ (s \o t)[i + 1] = s[i + 1]
      BY <1>1, <2>1, <2>2
    <3>2. QED
      BY <3>1 DEF InOrder
  <2>3. CASE i = Len(s)
    <3>1. /\ (s \o t)[i] = s[Len(s)] /\ (s \o t)[i + 1] = t[1]
          /\ Len(s) # 0 /\ Len(t) # 0
      BY <1>1, <2>1, <2>3
    <3>2. s # <<>> /\ t # <<>>
      BY <3>1, EmptySeq
    <3>3. QED
      BY <3>1, <3>2
  <2>4. CASE i > Len(s)
    <3> DEFINE j == i - Len(s)
    <3>1. j \in Nat /\ j = i - Len(s)
      BY <1>1, <2>1, <2>4
    <3> HIDE DEF j
    <3>2. /\ j \in 1..(Len(t) - 1)
          /\ (s \o t)[i] = t[j] /\ (s \o t)[i + 1] = t[j + 1]
      <4>1. i + 1 - Len(s) = j + 1 /\ ~(i <= Len(s)) /\ ~(i + 1 <= Len(s))
        BY <1>1, <2>1, <2>4, <3>1
      <4>2. (s \o t)[i] = t[i - Len(s)] /\ (s \o t)[i + 1] = t[i + 1 - Len(s)]
        BY <1>1, <2>1, <4>1
      <4>3. j \in 1..(Len(t) - 1)
        BY <1>1, <2>1, <2>4, <3>1
      <4>4. QED
        BY <3>1, <4>1, <4>2, <4>3
    <3>3. QED
      BY <3>2 DEF InOrder
  <2>5. QED
    BY <1>1, <2>1, <2>2, <2>3, <2>4
<1>3. QED
  BY <1>2 DEF InOrder

(* Reading the oldest word of a non-empty run removes it from the stream.  *)
LEMMA TailOfConcat ==
  ASSUME NEW s \in Seq(Nat), NEW t \in Seq(Nat), s # <<>>
  PROVE  s \o t # <<>> /\ Tail(s) \o t = Tail(s \o t)
<1>1. /\ Tail(s) \in Seq(Nat) /\ Len(Tail(s)) = Len(s) - 1
      /\ \A i \in 1..Len(Tail(s)) : Tail(s)[i] = s[i + 1]
      /\ Len(s) \in Nat \ {0} /\ Len(t) \in Nat
  BY HeadTailProperties, LenProperties, EmptySeq
<1>2. /\ s \o t \in Seq(Nat) /\ Len(s \o t) = Len(s) + Len(t)
      /\ \A i \in 1..(Len(s) + Len(t)) :
           (s \o t)[i] = IF i <= Len(s) THEN s[i] ELSE t[i - Len(s)]
  BY ConcatProperties
<1>3. s \o t # <<>>
  BY <1>1, <1>2, EmptySeq
<1>4. /\ Tail(s \o t) \in Seq(Nat) /\ Len(Tail(s \o t)) = Len(s \o t) - 1
      /\ \A i \in 1..Len(Tail(s \o t)) : Tail(s \o t)[i] = (s \o t)[i + 1]
  BY <1>2, <1>3, HeadTailProperties
<1>5. /\ Tail(s) \o t \in Seq(Nat) /\ Len(Tail(s) \o t) = Len(Tail(s)) + Len(t)
      /\ \A i \in 1..(Len(Tail(s)) + Len(t)) :
           (Tail(s) \o t)[i] = IF i <= Len(Tail(s)) THEN Tail(s)[i]
                               ELSE t[i - Len(Tail(s))]
  BY <1>1, ConcatProperties
<1>6. Len(Tail(s) \o t) = Len(Tail(s \o t))
  BY <1>1, <1>2, <1>4, <1>5
<1>7. ASSUME NEW i \in 1..Len(Tail(s) \o t)
      PROVE  (Tail(s) \o t)[i] = Tail(s \o t)[i]
  <2>1. /\ i \in Nat /\ i \in 1..(Len(Tail(s)) + Len(t))
        /\ i \in 1..Len(Tail(s \o t)) /\ i + 1 \in 1..(Len(s) + Len(t))
    BY <1>1, <1>2, <1>5, <1>6, <1>7
  <2>2. Tail(s \o t)[i] = (s \o t)[i + 1]
    BY <1>4, <2>1
  <2>3. CASE i <= Len(Tail(s))
    <3>1. i \in 1..Len(Tail(s)) /\ i + 1 <= Len(s)
      BY <1>1, <2>1, <2>3
    <3>2. QED
      BY <1>1, <1>2, <1>5, <2>1, <2>2, <2>3, <3>1
  <2>4. CASE ~(i <= Len(Tail(s)))
    <3>1. ~(i + 1 <= Len(s)) /\ i + 1 - Len(s) = i - Len(Tail(s))
      BY <1>1, <2>1, <2>4
    <3>2. QED
      BY <1>2, <1>5, <2>1, <2>2, <2>4, <3>1
  <2>5. QED
    BY <2>3, <2>4
<1>8. QED
  BY <1>3, <1>4, <1>5, <1>6, <1>7, SeqEqual

(* What is stored stays in order when what is owed is never delivered.     *)
LEMMA PrefixInOrder ==
  ASSUME NEW s \in Seq(Nat), NEW t \in Seq(Nat), InOrder(s \o t)
  PROVE  InOrder(s)
<1>1. /\ Len(s) \in Nat /\ Len(t) \in Nat /\ Len(s \o t) = Len(s) + Len(t)
      /\ \A i \in 1..(Len(s) + Len(t)) :
           (s \o t)[i] = IF i <= Len(s) THEN s[i] ELSE t[i - Len(s)]
  BY ConcatProperties, LenProperties
<1>2. ASSUME NEW i \in 1..(Len(s) - 1)
      PROVE  Follows(s[i], s[i + 1])
  <2>1. /\ i \in 1..(Len(s \o t) - 1)
        /\ (s \o t)[i] = s[i] /\ (s \o t)[i + 1] = s[i + 1]
    BY <1>1, <1>2
  <2>2. QED
    BY <2>1 DEF InOrder
<1>3. QED
  BY <1>2 DEF InOrder

(* A word moves from the memory to the FIFO: the stream is the same.       *)
LEMMA DeliveryKeepsStream ==
  ASSUME NEW s \in Seq(Nat), NEW t \in Seq(Nat), t # <<>>
  PROVE  Append(s, Head(t)) \o Tail(t) = s \o t
<1>1. /\ Head(t) \in Nat /\ Tail(t) \in Seq(Nat) /\ Len(Tail(t)) = Len(t) - 1
      /\ \A i \in 1..Len(Tail(t)) : Tail(t)[i] = t[i + 1]
      /\ Len(s) \in Nat /\ Len(t) \in Nat /\ Head(t) = t[1]
  BY HeadTailProperties, LenProperties
<1> DEFINE a == Append(s, Head(t))
<1>2. /\ a \in Seq(Nat) /\ Len(a) = Len(s) + 1
      /\ \A i \in 1..Len(s) : a[i] = s[i]
      /\ a[Len(s) + 1] = t[1]
  BY <1>1, AppendProperties
<1> HIDE DEF a
<1>3. /\ a \o Tail(t) \in Seq(Nat) /\ Len(a \o Tail(t)) = Len(a) + Len(Tail(t))
      /\ \A i \in 1..(Len(a) + Len(Tail(t))) :
           (a \o Tail(t))[i] = IF i <= Len(a) THEN a[i] ELSE Tail(t)[i - Len(a)]
  BY <1>1, <1>2, ConcatProperties
<1>4. /\ s \o t \in Seq(Nat) /\ Len(s \o t) = Len(s) + Len(t)
      /\ \A i \in 1..(Len(s) + Len(t)) :
           (s \o t)[i] = IF i <= Len(s) THEN s[i] ELSE t[i - Len(s)]
  BY ConcatProperties
<1>5. Len(a \o Tail(t)) = Len(s \o t)
  BY <1>1, <1>2, <1>3, <1>4
<1>6. ASSUME NEW i \in 1..Len(a \o Tail(t))
      PROVE  (a \o Tail(t))[i] = (s \o t)[i]
  <2>1. /\ i \in Nat /\ i \in 1..(Len(a) + Len(Tail(t))) /\ i \in 1..(Len(s) + Len(t))
    BY <1>1, <1>2, <1>3, <1>4, <1>5, <1>6
  <2>2. CASE i <= Len(s)
    <3>1. i <= Len(a) /\ i \in 1..Len(s)
      BY <1>1, <1>2, <2>1, <2>2
    <3>2. QED
      BY <1>2, <1>3, <1>4, <2>1, <2>2, <3>1
  <2>3. CASE i = Len(s) + 1
    <3>1. i <= Len(a) /\ ~(i <= Len(s)) /\ i - Len(s) = 1
      BY <1>1, <1>2, <2>3
    <3>2. (a \o Tail(t))[i] = a[Len(s) + 1] /\ (s \o t)[i] = t[1]
      BY <1>3, <1>4, <2>1, <2>3, <3>1
    <3>3. QED
      BY <1>2, <3>2
  <2>4. CASE i > Len(s) + 1
    <3> DEFINE j == i - Len(a)
    <3>1. j \in Nat /\ j = i - Len(a)
      BY <1>1, <1>2, <2>1, <2>4
    <3> HIDE DEF j
    <3>2. j \in 1..Len(Tail(t)) /\ i - Len(s) = j + 1 /\ ~(i <= Len(a)) /\ ~(i <= Len(s))
      BY <1>1, <1>2, <2>1, <2>4, <3>1
    <3>3. (a \o Tail(t))[i] = Tail(t)[j]
      BY <1>3, <2>1, <3>1, <3>2
    <3>4. (s \o t)[i] = t[j + 1]
      BY <1>4, <2>1, <3>2
    <3>5. QED
      BY <1>1, <3>2, <3>3, <3>4
  <2>5. i <= Len(s) \/ i = Len(s) + 1 \/ i > Len(s) + 1
    BY <1>1, <2>1
  <2>6. QED
    BY <2>2, <2>3, <2>4, <2>5, Zenon
<1>7. a \o Tail(t) = s \o t
  BY <1>3, <1>4, <1>5, <1>6, SeqEqual
<1>8. QED
  BY <1>7 DEF a

(* Between the memory and the display the order is inductive.              *)
LEMMA StreamType ==
  ASSUME PathIInv
  PROVE  fifo \in Seq(Nat) /\ inflight \in Seq(Nat) /\ Stream \in Seq(Nat)
BY ConcatProperties DEF PathIInv, PathTypeOK, DmaTypeOK, Stream

LEMMA StreamInit == PathInit => StreamIInv
<1> SUFFICES ASSUME PathInit PROVE StreamIInv
  OBVIOUS
<1>1. PathIInv
  BY PathInitIInv
<1>2. Stream = <<>>
  BY <1>1, StreamType, ConcatEmptySeq DEF PathInit, DmaInit, Stream
<1>3. Len(<<>>) = 0 /\ 1..(0 - 1) = {}
  BY EmptySeq
<1>4. InOrder(Stream)
  BY <1>2, <1>3 DEF InOrder
<1>5. QED
  BY <1>1, <1>2, <1>4 DEF StreamIInv, StreamTail

(* A word that arrives is stored: only an accepted command lengthens the   *)
(* stream, by the next burst of the frame.                                 *)
LEMMA ArrivalKeepsStream ==
  ASSUME PathIInv, NEW in \in DmaInputs({Fifo!wrusedw}), ClkEdge(in)
  PROVE  /\ fifo' \in Seq(Nat) /\ Owed(in) \in Seq(Nat)
         /\ fifo' \o Owed(in) = Stream
<1>1. Receive(in) /\ fifo' \in Seq(Nat) /\ fifo \in Seq(Nat) /\ inflight \in Seq(Nat)
  BY WriteEdgeStores, StreamType DEF ClkEdge, DmaTick
<1>2. CASE in.readdatavalid
  <2>1. /\ inflight # <<>>
        /\ fifo' = Append(fifo, Head(inflight)) /\ Owed(in) = Tail(inflight)
    BY <1>1, <1>2, WriteEdgeStores DEF Receive, Owed
  <2>2. Tail(inflight) \in Seq(Nat)
    BY <1>1, <2>1, HeadTailProperties
  <2>3. Append(fifo, Head(inflight)) \o Tail(inflight) = fifo \o inflight
    BY <1>1, <2>1, DeliveryKeepsStream
  <2>4. QED
    BY <1>1, <2>1, <2>2, <2>3 DEF Stream
<1>3. CASE ~in.readdatavalid
  BY <1>1, <1>3, WriteEdgeStores DEF Owed, Stream
<1>4. QED
  BY <1>2, <1>3

LEMMA AcceptedKeepsStream ==
  ASSUME StreamIInv, NEW in \in DmaInputs({Fifo!wrusedw}), ClkEdge(in), Accepted(in)
  PROVE  InOrder(Stream') /\ StreamTail'
<1>1. /\ PathIInv /\ InOrder(Stream) /\ StreamTail /\ DmaIInv
      /\ state = "ISSUE_READ"
  BY DEF StreamIInv, PathIInv, Accepted
<1>2. /\ m_address = current_read_addr /\ current_read_addr \in Nat
      /\ words_commanded \in Nat /\ BURST_LEN \in Nat \ {0}
      /\ FrameBase \in Base
  BY <1>1, DmaAssumption DEF DmaIInv, DmaTypeOK, FrameInOrder, StateFitsCounters
<1>3. PICK b \in Seq(Nat) :
      /\ b = BurstOf(m_address) /\ Len(b) = BURST_LEN
      /\ \A i \in 1..BURST_LEN : b[i] = m_address + 4 * (i - 1)
  BY <1>2, BurstOfWords
<1>4. /\ fifo' \in Seq(Nat) /\ Owed(in) \in Seq(Nat) /\ Stream \in Seq(Nat)
      /\ fifo' \o Owed(in) = Stream
  BY <1>1, ArrivalKeepsStream, StreamType
<1>5. inflight' = Owed(in) \o b
  BY <1>3 DEF Accepted
<1>6. Stream' = Stream \o b
  <2>1. (fifo' \o Owed(in)) \o b = fifo' \o (Owed(in) \o b)
    <3>1. /\ fifo' \in Seq(Nat) /\ Owed(in) \in Seq(Nat) /\ b \in Seq(Nat)
      BY <1>3, <1>4, Zenon
    <3>2. QED
      BY <3>1, ConcatAssociative
  <2>2. Stream' = fifo' \o (Owed(in) \o b)
    BY <1>5 DEF Stream
  <2>3. QED
    BY <1>4, <2>1, <2>2, Zenon
<1>7. /\ Len(Stream) \in Nat /\ Len(Stream \o b) = Len(Stream) + Len(b)
      /\ \A i \in 1..(Len(Stream) + Len(b)) :
           (Stream \o b)[i] = IF i <= Len(Stream) THEN Stream[i] ELSE b[i - Len(Stream)]
  <2>1. Stream \in Seq(Nat) /\ b \in Seq(Nat)
    BY <1>3, <1>4, Zenon
  <2>2. QED
    BY <2>1, ConcatProperties, LenProperties
<1>8. InOrder(b)
  <2>1. ASSUME NEW i \in 1..(Len(b) - 1) PROVE Follows(b[i], b[i + 1])
    <3>1. i \in 1..BURST_LEN /\ i + 1 \in 1..BURST_LEN
      BY <1>2, <1>3, <2>1
    <3>2. b[i] = m_address + 4 * (i - 1) /\ b[i + 1] = m_address + 4 * (i + 1 - 1)
      BY <1>3, <3>1
    <3>3. m_address + 4 * (i + 1 - 1) = m_address + 4 * (i - 1) + 4
      BY <1>2, <3>1
    <3>4. QED
      BY <3>2, <3>3 DEF Follows
  <2>2. QED
    BY <2>1 DEF InOrder
<1>9. Stream # <<>> => Follows(Stream[Len(Stream)], b[1])
  <2>1. b[1] = current_read_addr
    <3>1. 1 \in 1..BURST_LEN /\ m_address + 4 * (1 - 1) = current_read_addr
      BY <1>2
    <3>2. QED
      BY <1>3, <3>1
  <2>2. CASE words_commanded > 0
    <3>1. Stream # <<>> => Stream[Len(Stream)] = current_read_addr - 4
      BY <1>1, <2>2 DEF StreamTail
    <3>2. QED
      BY <1>2, <2>1, <3>1 DEF Follows
  <2>3. CASE words_commanded = 0
    <3>1. FrameBase = current_read_addr
      BY <1>2, <2>3 DEF FrameBase
    <3>2. QED
      BY <1>2, <2>1, <3>1 DEF Follows
  <2>4. QED
    BY <1>2, <2>2, <2>3
<1>10. InOrder(Stream \o b)
  BY <1>1, <1>3, <1>4, <1>8, <1>9, ConcatInOrder
<1>11. StreamTail'
  <2>1. BURST_LEN \in 1..BURST_LEN
    BY <1>2
  <2>2. b[BURST_LEN] = m_address + 4 * (BURST_LEN - 1)
    BY <1>3, <2>1
  <2>3. (Stream \o b)[Len(Stream) + BURST_LEN] = b[BURST_LEN]
    <3>1. PICK n \in Nat, m \in Nat \ {0} : n = Len(Stream) /\ m = BURST_LEN
      BY <1>2, <1>7
    <3>2. n + m \in 1..(n + m) /\ ~(n + m <= n) /\ n + m - n = m
      BY <3>1
    <3>3. QED
      BY <1>3, <1>7, <3>1, <3>2
  <2>4. current_read_addr' = current_read_addr + 4 * BURST_LEN
    BY DEF Accepted
  <2>5. m_address + 4 * (BURST_LEN - 1) = current_read_addr' - 4
    BY <1>2, <2>4
  <2>6. Stream'[Len(Stream')] = current_read_addr' - 4
    <3>1. Len(Stream') = Len(Stream) + BURST_LEN
      BY <1>3, <1>6, <1>7, Zenon
    <3>2. Stream'[Len(Stream')] = (Stream \o b)[Len(Stream) + BURST_LEN]
      BY <1>6, <3>1, Zenon
    <3>3. Stream'[Len(Stream')] = m_address + 4 * (BURST_LEN - 1)
      BY <2>2, <2>3, <3>2, Zenon
    <3>4. QED
      BY <2>5, <3>3, Zenon
  <2>7. QED
    BY <2>6 DEF StreamTail
<1>12. QED
  BY <1>6, <1>10, <1>11

LEMMA ClkEdgeKeepsStream ==
  ASSUME StreamIInv, NEW in \in DmaInputs({Fifo!wrusedw}), ClkEdge(in)
  PROVE  StreamIInv'
<1>1. PathIInv /\ InOrder(Stream) /\ StreamTail /\ DmaTick(in)
  BY DEF StreamIInv, ClkEdge
<1>2. PathIInv'
  BY <1>1, ClkEdgeKeeps
<1>3. CASE Accepted(in)
  BY <1>2, <1>3, AcceptedKeepsStream DEF StreamIInv
<1>4. CASE StartFrame(in) \/ Rest(in) \/ LastCommanded(in) \/ Command(in)
           \/ Throttle(in) \/ Stalled(in) \/ Finish(in) \/ Drain(in)
  <2>1. inflight' = Owed(in)
    BY <1>4 DEF StartFrame, Rest, LastCommanded, Command, Throttle, Stalled,
                Finish, Drain
  <2>2. Stream' = Stream
    BY <1>1, <2>1, ArrivalKeepsStream DEF Stream
  <2>3. \/ state' = "IDLE" \/ words_commanded' = 0
        \/ /\ state # "IDLE"
           /\ UNCHANGED <<words_commanded, current_read_addr>>
    BY <1>4 DEF StartFrame, Rest, LastCommanded, Command, Throttle, Stalled,
                Finish, Drain
  <2>4. StreamTail'
    BY <1>1, <2>2, <2>3 DEF StreamTail
  <2>5. QED
    BY <1>1, <1>2, <2>2, <2>4 DEF StreamIInv
<1>5. QED
  BY <1>1, <1>3, <1>4 DEF DmaTick

LEMMA PixelEdgeKeepsStream ==
  ASSUME StreamIInv, NEW rdreq \in BOOLEAN, PixelEdge(rdreq)
  PROVE  StreamIInv'
<1>1. PathIInv /\ InOrder(Stream) /\ StreamTail /\ UNCHANGED dmaVars
  BY DEF StreamIInv, PixelEdge
<1>2. PathIInv'
  BY <1>1, PixelEdgeKeeps
<1>3. fifo \in Seq(Nat) /\ inflight \in Seq(Nat) /\ Stream \in Seq(Nat)
  BY <1>1, StreamType
<1>4. UNCHANGED <<state, words_commanded, current_read_addr, inflight>>
  BY <1>1 DEF dmaVars, dmaRegs
<1>5. CASE fifo' = fifo
  <2>1. Stream' = Stream
    BY <1>4, <1>5 DEF Stream
  <2>2. QED
    BY <1>1, <1>2, <1>4, <2>1 DEF StreamIInv, StreamTail
<1>6. CASE fifo # <<>> /\ fifo' = Tail(fifo)
  <2>1. Stream # <<>> /\ Stream' = Tail(Stream)
    BY <1>3, <1>4, <1>6, TailOfConcat DEF Stream
  <2>2. /\ InOrder(Tail(Stream))
        /\ Tail(Stream) # <<>>
             => Tail(Stream)[Len(Tail(Stream))] = Stream[Len(Stream)]
    BY <1>1, <1>3, <2>1, TailInOrder
  <2>3. StreamTail'
    BY <1>1, <1>4, <2>1, <2>2 DEF StreamTail
  <2>4. QED
    BY <1>2, <2>1, <2>2, <2>3 DEF StreamIInv
<1>7. fifo = <<>> => Fifo!rdempty
  BY <1>1, <1>3, EmptySeq DEF PathIInv, PathTypeOK, Fifo!rdempty
<1>8. QED
  BY <1>5, <1>6, <1>7 DEF PixelEdge, Fifo!ReadEdge

LEMMA StreamNextKeeps == StreamIInv /\ [PathNext]_pathVars => StreamIInv'
<1> SUFFICES ASSUME StreamIInv, [PathNext]_pathVars PROVE StreamIInv'
  OBVIOUS
<1>1. CASE \E in \in DmaInputs({Fifo!wrusedw}) : ClkEdge(in)
  BY <1>1, ClkEdgeKeepsStream
<1>2. CASE \E rdreq \in BOOLEAN : PixelEdge(rdreq)
  BY <1>2, PixelEdgeKeepsStream
<1>3. PathIInv /\ PathIInv'
  BY PathNextKeeps DEF StreamIInv
<1>4. CASE PathReset
  <2>1. fifo' = fifo /\ inflight' = <<>> /\ state' = "IDLE"
    BY <1>4 DEF PathReset, DmaReset
  <2>2. Stream' = fifo
    BY <1>3, <2>1, StreamType, ConcatEmptySeq DEF Stream
  <2>3. InOrder(fifo)
    BY <1>3, StreamType, PrefixInOrder DEF StreamIInv, Stream
  <2>4. QED
    BY <1>3, <2>1, <2>2, <2>3 DEF StreamIInv, StreamTail
<1>5. CASE UNCHANGED pathVars
  <2>1. UNCHANGED <<fifo, inflight, state, words_commanded, current_read_addr>>
    BY <1>5 DEF pathVars, dmaVars, dmaRegs
  <2>2. Stream' = Stream
    BY <2>1 DEF Stream
  <2>3. QED
    BY <1>3, <2>1, <2>2 DEF StreamIInv, StreamTail
<1>6. QED
  BY <1>1, <1>2, <1>4, <1>5 DEF PathNext

(* What the display reads and the memory still owes is one run of words,   *)
(* frame after frame, whatever the resets and the frame addresses.         *)
THEOREM PathStreamInOrder == PathSpec => []StreamInOrder
<1>1. StreamIInv => StreamInOrder
  BY DEF StreamIInv, StreamInOrder, Stream, InOrder, Follows
<1>2. QED
  BY StreamInit, StreamNextKeeps, <1>1, PTL DEF PathSpec
=============================================================================
