------------------------------- MODULE DcFifo -------------------------------
(***************************************************************************)
(* The dual-clock FIFO src/RTL/simple_dcfifo.v, register by register.      *)
(*                                                                         *)
(* Both sides keep a binary pointer of ADDR_WIDTH+1 bits and its gray code.*)
(* The gray pointer of each side is sampled by the other side's clock      *)
(* through two flip-flops.  An edge that coincides with a change of the    *)
(* sampled register captures each changing bit as its old or its new value *)
(* (metastability): Sampled is the set of words it can capture.  The code  *)
(* is safe only because consecutive gray codes differ in one bit.          *)
(*                                                                         *)
(* A word of bits is the set of the positions of its ones.  The module has *)
(* no reset input; only power-up (the initial block) clears the pointers.  *)
(***************************************************************************)
EXTENDS Integers, Sequences, FiniteSets, FiniteSetsExt

CONSTANTS
  ADDR_WIDTH,   \* address bits; the top-level parameter is 9
  Word          \* the data words

ASSUME AddrWidthAssumption == ADDR_WIDTH \in Nat /\ ADDR_WIDTH >= 2
ASSUME WordAssumption == Word # {}

VARIABLES
  wr_ptr_bin, rd_ptr_bin,       \* pointers, modulo 2^(ADDR_WIDTH+1)
  wr_ptr_gray, rd_ptr_gray,     \* their gray codes
  wr_sync,                      \* wr_ptr_gray_sync1, _sync2 (rdclk)
  rd_sync,                      \* rd_ptr_gray_sync1, _sync2 (wrclk)
  mem,                          \* the block RAM
  q                             \* registered read data

vars == <<wr_ptr_bin, rd_ptr_bin, wr_ptr_gray, rd_ptr_gray,
          wr_sync, rd_sync, mem, q>>

Depth  == 2^ADDR_WIDTH
Bit    == 0..ADDR_WIDTH
Ptr    == 0..(2 * Depth - 1)
-----------------------------------------------------------------------------
(* Words of bits                                                           *)

Bits(n) == {i \in Bit : (n \div 2^i) % 2 = 1}
Num(w)  == CHOOSE n \in Ptr : Bits(n) = w

bin2gray(n) == SymDiff(Bits(n), {i - 1 : i \in Bits(n) \ {0}})

gray2bin(g) == Num({i \in Bit : Cardinality({j \in g : j >= i}) % 2 = 1})

(* The words a flip-flop bank may capture while its input changes.         *)
Sampled(old, new) ==
  {(old \cap new) \cup s : s \in SUBSET SymDiff(old, new)}
-----------------------------------------------------------------------------
(* Status outputs                                                          *)

rd_ptr_bin_sync == gray2bin(rd_sync[2])

(* Seeded fault: only the top bit of the gray code is inverted.            *)
FullTopBitOnly == wr_ptr_gray = SymDiff(rd_sync[2], {ADDR_WIDTH})

wrfull  == wr_ptr_gray = SymDiff(rd_sync[2], {ADDR_WIDTH, ADDR_WIDTH - 1})
used_diff == (wr_ptr_bin - rd_ptr_bin_sync) % (2 * Depth)

(* Seeded fault: TRYERROR.md section 1, the count of a full FIFO wraps.    *)
UsedWraps == used_diff % Depth

wrusedw == IF used_diff >= Depth THEN Depth - 1 ELSE used_diff

(* Seeded fault: emptiness judged by the first synchronizer stage.         *)
EmptyOneStage == rd_ptr_gray = wr_sync[1]

rdempty == rd_ptr_gray = wr_sync[2]
-----------------------------------------------------------------------------
Init ==
  /\ wr_ptr_bin = 0 /\ rd_ptr_bin = 0
  /\ wr_ptr_gray = {} /\ rd_ptr_gray = {}
  /\ wr_sync = <<{}, {}>> /\ rd_sync = <<{}, {}>>
  /\ mem \in [0..(Depth - 1) -> {CHOOSE w \in Word : TRUE}]
  /\ q \in {CHOOSE w \in Word : TRUE}

(* The write logic at a wrclk edge.                                        *)
Write(wrreq, data) ==
  IF wrreq /\ ~wrfull
  THEN LET next == (wr_ptr_bin + 1) % (2 * Depth)
       IN  /\ mem' = [mem EXCEPT ![wr_ptr_bin % Depth] = data]
           /\ wr_ptr_bin' = next
           /\ wr_ptr_gray' = bin2gray(next)
  ELSE UNCHANGED <<mem, wr_ptr_bin, wr_ptr_gray>>

(* The read logic at a rdclk edge.                                         *)
Read(rdreq) ==
  IF rdreq /\ ~rdempty
  THEN LET next == (rd_ptr_bin + 1) % (2 * Depth)
       IN  /\ q' = mem[rd_ptr_bin % Depth]
           /\ rd_ptr_bin' = next
           /\ rd_ptr_gray' = bin2gray(next)
  ELSE UNCHANGED <<q, rd_ptr_bin, rd_ptr_gray>>

(* Seeded fault: the read pointer is never passed to the second stage.     *)
SyncReadStuck(captured) == \E g \in captured : rd_sync' = <<g, rd_sync[2]>>

(* The two-flop synchronizers; the first stage captures one of the given   *)
(* words.                                                                  *)
SyncRead(captured)  == \E g \in captured : rd_sync' = <<g, rd_sync[1]>>

(* Seeded fault: the write pointer is never passed to the second stage.    *)
SyncStuck(captured) == \E g \in captured : wr_sync' = <<g, wr_sync[2]>>

SyncWrite(captured) == \E g \in captured : wr_sync' = <<g, wr_sync[1]>>

(* A rising edge of wrclk alone, of rdclk alone, and of both at once.      *)
WriteEdge(wrreq, data) ==
  /\ Write(wrreq, data)
  /\ SyncRead({rd_ptr_gray})
  /\ UNCHANGED <<rd_ptr_bin, rd_ptr_gray, wr_sync, q>>

ReadEdge(rdreq) ==
  /\ Read(rdreq)
  /\ SyncWrite({wr_ptr_gray})
  /\ UNCHANGED <<wr_ptr_bin, wr_ptr_gray, rd_sync, mem>>

BothEdges(wrreq, data, rdreq) ==
  /\ Write(wrreq, data)
  /\ Read(rdreq)
  /\ SyncRead(Sampled(rd_ptr_gray, rd_ptr_gray'))
  /\ SyncWrite(Sampled(wr_ptr_gray, wr_ptr_gray'))

Next ==
  \/ \E wrreq \in BOOLEAN, d \in Word : WriteEdge(wrreq, d)
  \/ \E rdreq \in BOOLEAN : ReadEdge(rdreq)
  \/ \E wrreq, rdreq \in BOOLEAN, d \in Word : BothEdges(wrreq, d, rdreq)

(* Both clocks run for ever: an edge of each comes as long as its          *)
(* synchronizer has something to pass on.  Nothing is assumed of requests. *)
WriteClock == \E wrreq, rdreq \in BOOLEAN, d \in Word :
                WriteEdge(wrreq, d) \/ BothEdges(wrreq, d, rdreq)
ReadClock  == \E wrreq, rdreq \in BOOLEAN, d \in Word :
                ReadEdge(rdreq) \/ BothEdges(wrreq, d, rdreq)

Fairness == WF_rd_sync(WriteClock) /\ WF_wr_sync(ReadClock)

Spec == Init /\ [][Next]_vars /\ Fairness
-----------------------------------------------------------------------------
(* Properties                                                              *)

Dist(a, b) == (b - a) % (2 * Depth)
Used == Dist(rd_ptr_bin, wr_ptr_bin)

(* A slot of the block RAM is never written at the edge at which it is     *)
(* read: the RAM's read-during-write behaviour is never relied on.         *)
NoSlotRace ==
  [][(wr_ptr_bin' # wr_ptr_bin /\ rd_ptr_bin' # rd_ptr_bin)
       => wr_ptr_bin % Depth # rd_ptr_bin % Depth]_vars

(* The FIFO keeps the abstract promise: a bounded queue in which nothing   *)
(* is lost, duplicated or reordered, with conservative views on each side. *)
Abstract == INSTANCE StaleFifo WITH
  Depth        <- Depth,
  fifo         <- [i \in 1..Used |-> mem[(rd_ptr_bin + i - 1) % Depth]],
  unseenReads  <- Dist(gray2bin(rd_sync[2]), rd_ptr_bin),
  unseenWrites <- Dist(gray2bin(wr_sync[2]), wr_ptr_bin)

KeepsPromise == Abstract!Spec

(* The port wrusedw and the two flags are the abstract ones: in particular *)
(* the occupancy the DMA throttles on saturates and never wraps to zero.   *)
PortsAgree ==
  /\ wrusedw = Abstract!wrusedw
  /\ wrfull  = Abstract!wrfull
  /\ rdempty = Abstract!rdempty

(* A stored word eventually shows at the read side, and a full flag that   *)
(* outlived its cause eventually drops, whatever the other side does.      *)
WordsSurface == (Used > 0) ~> ~rdempty
FullSubsides == (wrfull /\ Used < Depth) ~> ~wrfull
=============================================================================
