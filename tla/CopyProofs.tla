----------------------------- MODULE CopyProofs -----------------------------
(***************************************************************************)
(* Proofs about BurstMaster, for any transfers that meet JobAssumption,    *)
(* any FIFO and any memory latency and back-pressure.                      *)
(*                                                                         *)
(* All bytes of a transfer are accounted for: still to be commanded, owed  *)
(* by the memory, in the FIFO, or written (Accounted), and these four lie  *)
(* in the order of the addresses (InOrder).  The two masters only take     *)
(* whole bursts from their remainders, which so never pass zero.           *)
(***************************************************************************)
EXTENDS BurstMaster, SequenceTheorems, TLAPS

Bytes == Padded(job.len, job.rd)

Whole(x, b) == x % b = 0

Slot(p) == IF p < FIFO_DEPTH THEN p ELSE p - FIFO_DEPTH

SoftType ==
  /\ job \in Job
  /\ phase \in {"idle", "setting", "starting", "polling", "acking"}
  /\ ctrl_start \in BOOLEAN /\ ctrl_done_reg \in BOOLEAN
  /\ ctrl_rd_burst \in {BURST_COUNT} \union {k.rd : k \in Job}

(* A ring of FIFO_DEPTH words of S: u of them stored, the oldest at p.     *)
Ring(m, q, p, u, S) ==
  /\ u \in 0..FIFO_DEPTH /\ p \in 0..(FIFO_DEPTH - 1) /\ q = Slot(p + u)
  /\ m \in [0..(FIFO_DEPTH - 1) -> S]

(* It holds, oldest first, the words of E from number n on.                *)
Holds(m, p, u, E, n) == \A k \in 0..(u - 1) : m[Slot(p + k)] = E[n + k]

FlowType ==
  /\ Ring(mem, wr_ptr, rd_ptr, used_w, Int)
  /\ owed \in Seq(Int) /\ written \in Seq(Int \X Int)

CopyType == SoftType /\ FlowType

(* The registers of a transfer, as the software sets them one by one.      *)
Has(r) ==
  /\ r = 2 => ctrl_src_addr = job.src
  /\ r = 3 => ctrl_dst_addr = job.dst
  /\ r = 4 => ctrl_len = Bytes
  /\ r = 5 => ctrl_rd_burst = job.rd
  /\ r = 6 => ctrl_wr_burst = job.wr

SetUpTo(n) ==
  \A r \in 2..6 : (\E m \in 1..(n - 1) : job.order[m] = r) => Has(r)

Params == Has(2) /\ Has(3) /\ Has(4) /\ Has(5) /\ Has(6)

Setting ==
  /\ phase = "setting" =>
       \E n \in 1..Len(job.order) :
         todo = SubSeq(job.order, n, Len(job.order)) /\ SetUpTo(n)
  /\ phase \in {"starting", "polling"} => Params

MastersRest ==
  /\ rm_state = "IDLE" /\ ~rm_read
  /\ wm_fsm = "W_IDLE" /\ ~wm_write /\ internal_done_pulse = FALSE
  /\ owed = <<>> /\ pending_reads = 0

AtRest == MastersRest /\ used_w = 0

(* The words of the source, and those that were delivered, the first n of  *)
(* them, with those still owed and those still to be commanded.            *)
Source == [i \in Nat |-> job.src + 4 * i]

Accounted(n) == read_remaining_len + 4 * (Len(owed) + n) = Bytes

OwedFrom(n) == \A k \in 1..Len(owed) : owed[k] = job.src + 4 * (n + k - 1)

(* The words of E lie at the destination, from the first on.               *)
Stored(E) ==
  \A i \in 1..Len(written) : written[i] = <<job.dst + 4 * (i - 1), E[i - 1]>>

InOrder ==
  /\ Stored(Source)
  /\ Holds(mem, rd_ptr, used_w, Source, Len(written))
  /\ OwedFrom(Len(written) + used_w)

Reading(used) ==
  /\ read_remaining_len \in Nat /\ Whole(read_remaining_len, 4 * job.rd)
  /\ current_src_addr = job.src + Bytes - read_remaining_len
  /\ pending_reads = Len(owed) /\ used + Len(owed) <= FIFO_DEPTH
  /\ \/ rm_state = "WAIT_FIFO" /\ ~rm_read
     \/ /\ rm_state = "READ" /\ rm_read
        /\ rm_burstcount = job.rd /\ rm_address = current_src_addr
        /\ read_remaining_len > 0
        /\ used + Len(owed) + job.rd <= FIFO_DEPTH

Writing(used) ==
  /\ remaining_len \in Nat /\ Whole(remaining_len, 4 * job.wr)
  /\ current_dst_addr = job.dst + Bytes - remaining_len
  /\ \/ /\ wm_fsm = "W_WAIT_DATA" /\ ~wm_write
        /\ remaining_len = Bytes - 4 * Len(written)
     \/ /\ wm_fsm = "W_BURST" /\ wm_write
        /\ wm_burstcount = job.wr /\ wm_word_cnt \in 0..(job.wr - 1)
        /\ wm_address = current_dst_addr
        /\ remaining_len > 0
        /\ remaining_len = Bytes - 4 * (Len(written) - wm_word_cnt)
        /\ job.wr - wm_word_cnt <= used

AllWritten == 4 * Len(written) = Bytes

(* The edge at which the done pulse is up.                                 *)
MastersFinish ==
  /\ internal_done_pulse = TRUE /\ AllWritten
  /\ wm_fsm = "W_IDLE" /\ ~wm_write
  /\ rm_state = "WAIT_FIFO" /\ ~rm_read /\ read_remaining_len = 0
  /\ owed = <<>> /\ pending_reads = 0

Finishing == MastersFinish /\ used_w = 0

Working ==
  /\ internal_done_pulse = FALSE
  /\ Reading(used_w) /\ Writing(used_w) /\ Accounted(Len(written) + used_w)

Transfer ==
  /\ UnderWay =>
       /\ InOrder
       /\ IF ctrl_done_reg THEN AtRest /\ AllWritten ELSE Working \/ Finishing
  /\ ~UnderWay =>
       /\ AtRest
       /\ ctrl_start => phase = "polling"
       /\ phase = "acking" <=> ctrl_done_reg

CopyIInv == CopyType /\ Setting /\ Transfer
-----------------------------------------------------------------------------
(* Constants and arithmetic.                                               *)
(* What the assumptions say of the constants.                              *)
LEMMA Constants ==
  /\ BURST_COUNT \in Nat /\ BURST_COUNT > 0
  /\ FIFO_DEPTH \in Nat /\ FIFO_DEPTH > 0
  /\ AddrSpan \in Nat /\ AddrSpan > 4 * FIFO_DEPTH
BY EngineAssumption

(* Quotient and remainder.                                                 *)
LEMMA Split ==
  ASSUME NEW x \in Nat, NEW b \in Nat, b > 0
  PROVE  /\ x \div b \in Nat /\ x % b \in 0..(b - 1)
         /\ x = b * (x \div b) + (x % b)
BY SMTT(20)

(* Remainders are unique.                                                  *)
LEMMA Unique ==
  ASSUME NEW b \in Nat, b > 0, NEW q \in Int, NEW r \in Int,
         NEW m \in 0..(b - 1), NEW n \in 0..(b - 1), b * q + m = b * r + n
  PROVE  m = n
<1>1. ASSUME NEW s \in Int, NEW t \in Int, s > t
      PROVE  b * s >= b * t + b
  <2>1. PICK u \in Nat : s = t + 1 + u
    <3>1. s - t - 1 \in Nat /\ s = t + 1 + (s - t - 1)
      BY <1>1
    <3> QED
      BY <3>1
  <2>2. b * s = b * t + b + b * u /\ b * u >= 0
    BY <2>1, SMTT(20)
  <2> QED
    BY <2>2, SMTT(20)
<1>2. CASE q > r
  BY <1>1, <1>2
<1>3. CASE r > q
  BY <1>1, <1>3
<1> QED
  BY <1>2, <1>3

(* The remainder of a sum that has the form of a division.                 *)
LEMMA Remainder ==
  ASSUME NEW b \in Nat, b > 0, NEW q \in Nat, NEW m \in 0..(b - 1)
  PROVE  (b * q + m) % b = m
<1> DEFINE x == b * q + m
<1>1. x \in Nat
  BY SMTT(20)
<1>2. x = b * q + m
  OBVIOUS
<1> HIDE DEF x
<1>3. x % b \in 0..(b - 1) /\ x \div b \in Nat /\ x = b * (x \div b) + (x % b)
  BY <1>1, Split
<1>4. x % b = m
  BY <1>2, <1>3, Unique
<1> QED
  BY <1>4 DEF x

(* One block can be taken from what is left, and whole blocks remain.      *)
LEMMA WholeLess ==
  ASSUME NEW x \in Nat, NEW b \in Nat, b > 0, Whole(x, b), x # 0
  PROVE  x >= b /\ x - b \in Nat /\ Whole(x - b, b)
<1> DEFINE q == x \div b
<1>1. q \in Nat /\ x = b * q
  BY Split DEF Whole
<1> HIDE DEF q
<1>2. q # 0
  BY <1>1, SMTT(20)
<1>3. PICK u \in Nat : q = u + 1
  <2>1. q - 1 \in Nat /\ q = (q - 1) + 1
    BY <1>1, <1>2
  <2> QED
    BY <2>1
<1>4. x = b * u + b
  BY <1>1, <1>3, SMTT(20)
<1>5. b * u \in Nat
  BY SMTT(20)
<1>6. x >= b /\ x - b \in Nat /\ x - b = b * u + 0
  BY <1>4, <1>5
<1> QED
  BY <1>6, Remainder DEF Whole

(* Cutting off the remainder leaves whole blocks.                          *)
LEMMA RoundedWhole ==
  ASSUME NEW x \in Nat, NEW b \in Nat, b > 0
  PROVE  x - (x % b) \in Nat /\ Whole(x - (x % b), b)
<1> DEFINE q == x \div b
           m == x % b
<1>1. q \in Nat /\ m \in 0..(b - 1) /\ x = b * q + m
  BY Split
<1> HIDE DEF q, m
<1>2. b * q \in Nat
  BY <1>1, SMTT(20)
<1>3. x - m \in Nat /\ x - m = b * q + 0
  BY <1>1, <1>2
<1>4. (x - m) % b = 0
  BY <1>1, <1>3, Remainder
<1> QED
  BY <1>3, <1>4 DEF Whole, m

(* Padding leaves a whole length alone.                                    *)
LEMMA RoundedUp ==
  ASSUME NEW x \in Nat, NEW b \in Nat, b > 0, Whole(x, b)
  PROVE  (x + b - 1) - ((x + b - 1) % b) = x
<1> DEFINE q == x \div b
<1>1. q \in Nat /\ x = b * q
  BY Split DEF Whole
<1> HIDE DEF q
<1>2. b - 1 \in 0..(b - 1) /\ x + b - 1 = b * q + (b - 1)
  BY <1>1
<1>3. (x + b - 1) % b = b - 1
  BY <1>1, <1>2, Remainder
<1> QED
  BY <1>3

(* The lengths of a transfer are whole bursts and its ranges do not wrap.  *)
LEMMA JobFacts ==
  ASSUME NEW j \in Job
  PROVE  /\ j.src \in Nat /\ j.dst \in Nat /\ j.len \in Nat
         /\ j.rd \in 1..FIFO_DEPTH /\ j.wr \in 1..FIFO_DEPTH
         /\ j.order \in {OcmOrder, DdrOrder}
         /\ Padded(j.len, j.rd) \in Nat
         /\ Whole(Padded(j.len, j.rd), 4 * j.rd)
         /\ Whole(Padded(j.len, j.rd), 4 * j.wr)
         /\ j.src + Padded(j.len, j.rd) < AddrSpan
         /\ j.dst + Padded(j.len, j.rd) < AddrSpan
<1>1. /\ j.src \in Nat /\ j.dst \in Nat /\ j.len \in Nat
      /\ j.rd \in 1..FIFO_DEPTH /\ j.wr \in 1..FIFO_DEPTH
      /\ j.order \in {OcmOrder, DdrOrder}
      /\ Whole(Padded(j.len, j.rd), 4 * j.wr)
      /\ {j.src + Padded(j.len, j.rd), j.dst + Padded(j.len, j.rd)} \subseteq 0..(AddrSpan - 1)
  BY JobAssumption DEF Whole
<1> DEFINE up == j.len + 4 * j.rd - 1
           b  == 4 * j.rd
<1>2. up \in Nat /\ b \in Nat /\ b > 0
  BY <1>1, Constants
<1>3. Padded(j.len, j.rd) = up - (up % b)
  BY DEF Padded
<1> HIDE DEF up
<1>4. Padded(j.len, j.rd) \in Nat /\ Whole(Padded(j.len, j.rd), b)
  BY <1>2, <1>3, RoundedWhole
<1> QED
  BY <1>1, <1>4, Constants

(* The order of the OCM test writes the length before the burst: the       *)
(* burst of the transfer before pads it just the same.                     *)
LEMMA SamePadding ==
  ASSUME NEW j \in Job, j.order = OcmOrder,
         NEW b \in {BURST_COUNT} \union {k.rd : k \in Job}
  PROVE  Padded(j.len, b) = Padded(j.len, j.rd)
<1>1. j.len \in Nat
  BY JobAssumption
<1>2. b \in Nat /\ b > 0 /\ Whole(j.len, 4 * b)
  <2>1. CASE b = BURST_COUNT
    BY <2>1, JobAssumption, Constants DEF Whole
  <2>2. CASE \E k \in Job : b = k.rd
    BY <2>2, JobAssumption, JobFacts, Constants DEF Whole
  <2> QED
    BY <2>1, <2>2
<1>3. j.rd \in Nat /\ j.rd > 0 /\ Whole(j.len, 4 * j.rd)
  BY JobAssumption, JobFacts, Constants DEF Whole
<1>4. ASSUME NEW c \in Nat, c > 0, Whole(j.len, 4 * c)
      PROVE  Padded(j.len, c) = j.len
  <2>1. 4 * c \in Nat /\ 4 * c > 0
    BY <1>4
  <2>2. (j.len + 4 * c - 1) - ((j.len + 4 * c - 1) % (4 * c)) = j.len
    BY <1>1, <1>4, <2>1, RoundedUp
  <2> QED
    BY <2>2 DEF Padded
<1> QED
  BY <1>2, <1>3, <1>4

(* The two orders in which the tests set the registers.                    *)
LEMMA Orders ==
  /\ OcmOrder \in Seq(Nat) /\ DdrOrder \in Seq(Nat)
  /\ Len(OcmOrder) = 5 /\ Len(DdrOrder) = 6
  /\ OcmOrder[1] = 2 /\ OcmOrder[2] = 3 /\ OcmOrder[3] = 4 /\ OcmOrder[4] = 5 /\ OcmOrder[5] = 6
  /\ DdrOrder[1] = 5 /\ DdrOrder[2] = 6 /\ DdrOrder[3] = 7 /\ DdrOrder[4] = 2
  /\ DdrOrder[5] = 3 /\ DdrOrder[6] = 4
BY DEF OcmOrder, DdrOrder

(* An order is a sequence, and not empty.                                  *)
LEMMA OrderOf ==
  ASSUME NEW j \in Job
  PROVE  /\ j.order \in Seq(Nat) /\ Len(j.order) \in Nat /\ 1 \in 1..Len(j.order)
<1>1. CASE j.order = OcmOrder
  <2>1. OcmOrder \in Seq(Nat) /\ Len(OcmOrder) = 5
    BY Orders
  <2>2. 5 \in Nat /\ 1 \in 1..5
    OBVIOUS
  <2> QED
    BY <1>1, <2>1, <2>2, Zenon
<1>2. CASE j.order = DdrOrder
  <2>1. DdrOrder \in Seq(Nat) /\ Len(DdrOrder) = 6
    BY Orders
  <2>2. 6 \in Nat /\ 1 \in 1..6
    OBVIOUS
  <2> QED
    BY <1>2, <2>1, <2>2, Zenon
<1> QED
  BY <1>1, <1>2, JobFacts

(* Both set all five parameters, and the length of the second comes last.  *)
LEMMA OrdersComplete ==
  /\ \A r \in 2..6 : \E m \in 1..Len(OcmOrder) : OcmOrder[m] = r
  /\ \A r \in 2..6 : \E m \in 1..Len(DdrOrder) : DdrOrder[m] = r
  /\ \A m \in 1..Len(DdrOrder) : DdrOrder[m] = 4 => m = 6
<1>1. ASSUME NEW r \in 2..6
      PROVE  /\ \E m \in 1..5 : OcmOrder[m] = r
             /\ \E m \in 1..6 : DdrOrder[m] = r
  <2>1. r = 2 \/ r = 3 \/ r = 4 \/ r = 5 \/ r = 6
    OBVIOUS
  <2>2. 1 \in 1..5 /\ 2 \in 1..5 /\ 3 \in 1..5 /\ 4 \in 1..5 /\ 5 \in 1..5
    OBVIOUS
  <2>3. 1 \in 1..6 /\ 2 \in 1..6 /\ 4 \in 1..6 /\ 5 \in 1..6 /\ 6 \in 1..6
    OBVIOUS
  <2> QED
    BY <2>1, <2>2, <2>3, Orders, Zenon
<1>2. ASSUME NEW m \in 1..6, m # 6 PROVE DdrOrder[m] # 4
  <2>1. m = 1 \/ m = 2 \/ m = 3 \/ m = 4 \/ m = 5
    BY <1>2
  <2>2. CASE m = 1
    BY <2>2, Orders
  <2>3. CASE m = 2
    BY <2>3, Orders
  <2>4. CASE m = 3
    BY <2>4, Orders
  <2>5. CASE m = 4
    BY <2>5, Orders
  <2>6. CASE m = 5
    BY <2>6, Orders
  <2> QED
    BY <2>1, <2>2, <2>3, <2>4, <2>5, <2>6
<1>3. Len(OcmOrder) = 5 /\ Len(DdrOrder) = 6
  BY Orders
<1> QED
  BY <1>1, <1>2, <1>3
-----------------------------------------------------------------------------
(* The software and the registers.                                         *)

(* What a write does to the parameters.                                    *)
LEMMA Registers ==
  ASSUME NEW w, CsrBlock(w)
  PROVE  /\ ctrl_src_addr' = IF w.reg = 2 THEN w.data ELSE ctrl_src_addr
         /\ ctrl_dst_addr' = IF w.reg = 3 THEN w.data ELSE ctrl_dst_addr
         /\ ctrl_len' = IF w.reg = 4 THEN Padded(w.data, ctrl_rd_burst) ELSE ctrl_len
         /\ ctrl_rd_burst' = IF w.reg = 5 THEN w.data ELSE ctrl_rd_burst
         /\ ctrl_wr_burst' = IF w.reg = 6 THEN w.data ELSE ctrl_wr_burst
BY DEF CsrBlock

(* What is written to each.                                                *)
LEMMA Values ==
  /\ ValueOf(2) = job.src /\ ValueOf(3) = job.dst /\ ValueOf(4) = job.len
  /\ ValueOf(5) = job.rd /\ ValueOf(6) = job.wr
BY DEF ValueOf

(* A write elsewhere leaves the parameters alone.                          *)
LEMMA RegsKept ==
  ASSUME NEW w, CsrBlock(w), w.reg \notin 2..6, job' = job
  PROVE  /\ \A n : SetUpTo(n) => SetUpTo(n)'
         /\ Params => Params'
<1>1. /\ w.reg # 2 /\ w.reg # 3 /\ w.reg # 4 /\ w.reg # 5 /\ w.reg # 6
  OBVIOUS
<1>2. /\ ctrl_src_addr' = ctrl_src_addr /\ ctrl_dst_addr' = ctrl_dst_addr
      /\ ctrl_len' = ctrl_len /\ ctrl_rd_burst' = ctrl_rd_burst
      /\ ctrl_wr_burst' = ctrl_wr_burst
  BY <1>1, Registers
<1> QED
  BY <1>2 DEF SetUpTo, Params, Has, Bytes

(* A register has its value once it is written, and keeps it.              *)
LEMMA RegisterSet ==
  ASSUME NEW w, CsrBlock(w), UNCHANGED job, NEW r \in {2, 3, 5, 6},
         IF w.reg = r THEN w.data = ValueOf(r) ELSE Has(r)
  PROVE  Has(r)'
<1>1. CASE r = 2
  <2>1. ctrl_src_addr' = IF w.reg = 2 THEN w.data ELSE ctrl_src_addr
    BY Registers
  <2>2. ctrl_src_addr' = job.src
    BY <1>1, <2>1, Values DEF Has
  <2> QED
    BY <1>1, <2>2 DEF Has
<1>2. CASE r = 3
  <2>1. ctrl_dst_addr' = IF w.reg = 3 THEN w.data ELSE ctrl_dst_addr
    BY Registers
  <2>2. ctrl_dst_addr' = job.dst
    BY <1>2, <2>1, Values DEF Has
  <2> QED
    BY <1>2, <2>2 DEF Has
<1>3. CASE r = 5
  <2>1. ctrl_rd_burst' = IF w.reg = 5 THEN w.data ELSE ctrl_rd_burst
    BY Registers
  <2>2. ctrl_rd_burst' = job.rd
    BY <1>3, <2>1, Values DEF Has
  <2> QED
    BY <1>3, <2>2 DEF Has
<1>4. CASE r = 6
  <2>1. ctrl_wr_burst' = IF w.reg = 6 THEN w.data ELSE ctrl_wr_burst
    BY Registers
  <2>2. ctrl_wr_burst' = job.wr
    BY <1>4, <2>1, Values DEF Has
  <2> QED
    BY <1>4, <2>2 DEF Has
<1> QED
  BY <1>1, <1>2, <1>3, <1>4

(* The next register of the order gets its value, and the length is padded *)
(* to the burst of this transfer, or needs no padding.                     *)
LEMMA SetKeeps ==
  ASSUME SoftType, Setting, NEW w, Set(w), CsrBlock(w)
  PROVE  Setting'
<1> DEFINE o == job.order
<1>1. PICK n \in 1..Len(o) : todo = SubSeq(o, n, Len(o)) /\ SetUpTo(n)
  BY DEF Setting, Set
<1>2. /\ job \in Job /\ o \in {OcmOrder, DdrOrder} /\ o \in Seq(Nat) /\ Len(o) \in Nat
  BY JobFacts, Orders, LenProperties DEF SoftType
<1>a. /\ phase = "setting" /\ w = WriteReg(Head(todo), ValueOf(Head(todo)))
      /\ todo' = Tail(todo) /\ UNCHANGED job
      /\ phase' = IF todo' = <<>> THEN "starting" ELSE "setting"
  BY DEF Set
<1>b. o' = o
  BY <1>a
<1> HIDE DEF o
<1>3. Head(todo) = o[n] /\ Tail(todo) = SubSeq(o, n + 1, Len(o))
  <2>1. n \in 1..Len(o) /\ Len(o) \in n..Len(o)
    BY <1>2
  <2> QED
    BY <1>1, <1>2, <2>1, HeadTailOfSubSeq
<1>4. Tail(todo) = <<>> <=> n = Len(o)
  <2>1. CASE n = Len(o)
    BY <1>2, <1>3, <2>1, SubSeqEmpty
  <2>2. CASE n # Len(o)
    <3>1. n + 1 \in Int /\ Len(o) \in Int /\ n + 1 <= Len(o)
          /\ \A i \in (n + 1)..Len(o) : o[i] \in Nat
      BY <1>2, <2>2, ElementOfSeq
    <3>2. Len(SubSeq(o, n + 1, Len(o))) = Len(o) - (n + 1) + 1
      BY <3>1, SubSeqProperties
    <3>3. Len(<<>>) = 0
      BY EmptySeq
    <3> HIDE DEF o
    <3>4. Len(SubSeq(o, n + 1, Len(o))) # 0
      BY <1>2, <2>2, <3>2
    <3> QED
      BY <1>3, <2>2, <3>3, <3>4
  <2> QED
    BY <2>1, <2>2
<1>5. SetUpTo(n + 1)'
  <2> SUFFICES ASSUME NEW r \in 2..6, NEW m \in 1..n, o[m] = r
               PROVE  Has(r)'
    BY <1>2, <1>b DEF SetUpTo, o
  <2>1. r = o[n] \/ Has(r)
    <3>1. m # n => m \in 1..(n - 1)
      BY <1>2
    <3> QED
      BY <1>1, <3>1 DEF SetUpTo, o
  <2>2. w.reg = o[n] /\ w.data = ValueOf(o[n])
    BY <1>3, <1>a DEF WriteReg
  <2>3. CASE r # 4
    <3>1. r \in {2, 3, 5, 6}
      BY <2>3
    <3>2. IF w.reg = r THEN w.data = ValueOf(r) ELSE Has(r)
      BY <2>1, <2>2
    <3> QED
      BY <1>a, <3>1, <3>2, RegisterSet
  <2>4. CASE r = 4 /\ r # o[n]
    BY <1>a, <2>1, <2>2, <2>4 DEF CsrBlock, Has, Bytes
  <2>5. CASE r = 4 /\ r = o[n]
    <3>1. ctrl_len' = Padded(job.len, ctrl_rd_burst)
      BY <2>2, <2>5 DEF CsrBlock, ValueOf
    <3>2. o = DdrOrder => ctrl_rd_burst = job.rd
      <4>1. o = DdrOrder => n = 6
        BY <1>2, <2>5, OrdersComplete
      <4>2. o = DdrOrder => Has(5)
        BY <1>1, <4>1, Orders DEF SetUpTo, o
      <4> QED
        BY <4>2 DEF Has
    <3>3. o = OcmOrder => Padded(job.len, ctrl_rd_burst) = Padded(job.len, job.rd)
      BY SamePadding DEF SoftType, o
    <3> QED
      BY <1>2, <1>a, <2>5, <3>1, <3>2, <3>3 DEF Has, Bytes
  <2> QED
    BY <2>3, <2>4, <2>5
<1>6. CASE n = Len(o)
  <2>1. phase' = "starting"
    BY <1>4, <1>a, <1>6
  <2>2. \A r \in 2..6 : (\E m \in 1..Len(o) : o[m] = r) => Has(r)'
    BY <1>2, <1>5, <1>6, <1>b DEF SetUpTo, o
  <2>3. \A r \in 2..6 : \E m \in 1..Len(o) : o[m] = r
    BY <1>2, OrdersComplete
  <2>4. Params'
    BY <2>2, <2>3 DEF Params
  <2> QED
    BY <2>1, <2>4 DEF Setting
<1>7. CASE n # Len(o)
  <2>1. phase' = "setting" /\ todo' = SubSeq(o, n + 1, Len(o))
    BY <1>3, <1>4, <1>a, <1>7
  <2>2. n + 1 \in 1..Len(o)
    BY <1>2, <1>7
  <2> QED
    BY <1>5, <1>b, <2>1, <2>2 DEF Setting, o
<1> QED
  BY <1>6, <1>7

(* What the software does to phase, start and done bit at an edge.         *)
LEMMA SoftwareMoves ==
  ASSUME SoftType, Setting, NEW w, Software(w), CsrBlock(w)
  PROVE  /\ job' \in Job /\ Setting'
         /\ phase' \in {"idle", "setting", "starting", "polling", "acking"}
         /\ ctrl_start' \in BOOLEAN /\ ctrl_done_reg' \in BOOLEAN
         /\ ctrl_rd_burst' \in {BURST_COUNT} \union {k.rd : k \in Job}
         /\ ctrl_start' <=> (phase = "starting" /\ phase' = "polling")
         /\ phase # "acking" => (ctrl_done_reg' <=> (ctrl_done_reg \/ internal_done_pulse))
         /\ phase \in {"idle", "setting"} => phase' \in {"idle", "setting", "starting"}
         /\ phase = "starting" => phase' \in {"starting", "polling"}
         /\ phase = "polling" =>
              /\ UNCHANGED job
              /\ phase' = "polling" \/ (phase' = "acking" /\ ctrl_done_reg)
         /\ phase = "acking" =>
              \/ phase' = "acking" /\ (ctrl_done_reg' <=> (ctrl_done_reg \/ internal_done_pulse))
              \/ phase' = "idle" /\ ~ctrl_done_reg'
<1> USE DEF SoftType
<1>0. /\ w.reg = 1 /\ w.data = 1 => ~ctrl_done_reg'
      /\ w.reg # 1 => (ctrl_done_reg' <=> (ctrl_done_reg \/ internal_done_pulse))
      /\ w.reg # 0 => ~ctrl_start'
      /\ w.reg = 0 /\ w.data = 1 => ctrl_start'
      /\ ctrl_start' \in BOOLEAN /\ ctrl_done_reg' \in BOOLEAN
  <2>1. /\ ctrl_start' = (w.reg = 0 /\ w.data % 2 = 1)
        /\ ctrl_done_reg' = ((ctrl_done_reg \/ internal_done_pulse)
                              /\ ~(w.reg = 1 /\ w.data % 2 = 1))
    BY Zenon DEF CsrBlock
  <2>2. 1 % 2 = 1
    OBVIOUS
  <2> QED
    BY <2>1, <2>2, Zenon
<1>1. CASE Choose(w)
  <2>1. phase = "idle" /\ phase' = "setting" /\ job' \in Job /\ todo' = job'.order /\ w.reg = -1
    BY <1>1 DEF Choose, NoWrite, WriteReg
  <2>2. PICK j \in Job : job' = j
    BY <2>1
  <2>3. j.order \in Seq(Nat) /\ Len(j.order) \in Nat /\ 1 \in 1..Len(j.order)
    BY OrderOf
  <2>4. SubSeq(j.order, 1, Len(j.order)) = j.order
    BY <2>3, SubSeqFull
  <2>5. SetUpTo(1)'
    BY DEF SetUpTo
  <2>6. job'.order = j.order /\ todo' = SubSeq(j.order, 1, Len(j.order))
    BY <2>1, <2>2, <2>4
  <2>7. Setting'
    BY <2>1, <2>3, <2>5, <2>6 DEF Setting
  <2> QED
    BY <1>0, <2>1, <2>7, Registers
<1>2. CASE Set(w)
  <2>1. phase = "setting" /\ phase' \in {"setting", "starting"} /\ UNCHANGED job
    BY <1>2 DEF Set
  <2>2. Setting'
    BY <1>2, SetKeeps
  <2>3. PICK n \in 1..Len(job.order) : todo = SubSeq(job.order, n, Len(job.order))
    BY <2>1 DEF Setting
  <2>4. job.order = OcmOrder \/ job.order = DdrOrder
    BY JobFacts
  <2>5. job.order \in Seq(Nat) /\ Len(job.order) \in Nat
    BY OrderOf
  <2>6. w.reg = job.order[n] /\ w.data = ValueOf(job.order[n])
    <3>1. Len(job.order) \in n..Len(job.order)
      BY <2>5
    <3>2. Head(todo) = job.order[n]
      BY <2>3, <2>5, <3>1, HeadTailOfSubSeq
    <3> QED
      BY <1>2, <3>2 DEF Set, WriteReg
  <2>7. w.reg \in 2..7
    <3>1. CASE job.order = OcmOrder
      <4>1. n = 1 \/ n = 2 \/ n = 3 \/ n = 4 \/ n = 5
        BY <3>1, Orders
      <4> QED
        BY <2>6, <3>1, <4>1, Orders
    <3>2. CASE job.order = DdrOrder
      <4>1. n = 1 \/ n = 2 \/ n = 3 \/ n = 4 \/ n = 5 \/ n = 6
        BY <3>2, Orders
      <4> QED
        BY <2>6, <3>2, <4>1, Orders
    <3> QED
      BY <2>4, <3>1, <3>2
  <2>8. w.reg = 5 => w.data = job.rd
    BY <2>6, Values
  <2> QED
    BY <1>0, <2>1, <2>2, <2>7, <2>8, Registers, SMTT(30)
<1>3. CASE Start(w)
  <2>1. phase = "starting" /\ phase' = "polling" /\ UNCHANGED job /\ w.reg = 0 /\ w.data = 1
    BY <1>3 DEF Start, WriteReg
  <2>2. Setting'
    <3>1. w.reg \notin 2..6
      BY <2>1
    <3>2. Params'
      BY <2>1, <3>1, RegsKept DEF Setting
    <3>3. phase' # "setting"
      BY <2>1
    <3> QED
      BY <3>2, <3>3 DEF Setting
  <2> QED
    BY <1>0, <2>1, <2>2, Registers
<1>4. CASE Poll(w)
  <2>1. /\ phase = "polling" /\ UNCHANGED job /\ w.reg = -1
        /\ phase' = "polling" \/ (phase' = "acking" /\ ctrl_done_reg)
    BY <1>4 DEF Poll, NoWrite, WriteReg
  <2>2. Setting'
    <3>1. w.reg \notin 2..6
      BY <2>1
    <3>2. Params'
      BY <2>1, <3>1, RegsKept DEF Setting
    <3>3. phase' # "setting"
      BY <2>1
    <3> QED
      BY <3>2, <3>3 DEF Setting
  <2> QED
    BY <1>0, <2>1, <2>2, Registers
<1>5. CASE Acknowledge(w)
  <2>1. phase = "acking" /\ phase' = "idle" /\ UNCHANGED job /\ w.reg = 1 /\ w.data = 1
    BY <1>5 DEF Acknowledge, WriteReg
  <2> QED
    BY <1>0, <2>1, Registers DEF Setting
<1>6. CASE Compute(w)
  <2>1. UNCHANGED <<job, phase, todo>> /\ w.reg = -1
    BY <1>6 DEF Compute, NoWrite, WriteReg, testVars
  <2>2. w.reg \notin 2..6 /\ job' = job
    BY <2>1
  <2>4. (\A n : SetUpTo(n) => SetUpTo(n)') /\ (Params => Params')
    BY <2>2, RegsKept, Zenon
  <2>3. Setting'
    BY <2>1, <2>4 DEF Setting
  <2> QED
    BY <1>0, <2>1, <2>3, Registers
<1> QED
  BY <1>1, <1>2, <1>3, <1>4, <1>5, <1>6 DEF Software
-----------------------------------------------------------------------------
(* The FIFO and the memory.                                                *)

One(b) == IF b THEN 1 ELSE 0

Next(p) == IF p = FIFO_DEPTH - 1 THEN 0 ELSE p + 1

(* Word x is written if wr, and one read if rd.                            *)
RingStep(m, q, p, u, wr, x, rd, m2, q2, p2, u2) ==
  /\ m2 = IF wr THEN [m EXCEPT ![q] = x] ELSE m
  /\ q2 = IF wr THEN Next(q) ELSE q
  /\ p2 = IF rd THEN Next(p) ELSE p
  /\ u2 = u + One(wr) - One(rd)

(* A word is written only with room, and is then the next of E, and read   *)
(* only when there is one.                                                 *)
Orderly(E, n, u, wr, x, rd) ==
  /\ wr => u < FIFO_DEPTH /\ x = E[n + u]
  /\ rd => u > 0

(* A ring that is written and read so goes on holding E in order.          *)
LEMMA RingMoves ==
  ASSUME NEW S, NEW E, NEW n \in Nat, NEW m, NEW q, NEW p, NEW u,
         Ring(m, q, p, u, S), Holds(m, p, u, E, n),
         NEW wr, NEW rd, NEW x \in S,
         NEW m2, NEW q2, NEW p2, NEW u2, RingStep(m, q, p, u, wr, x, rd, m2, q2, p2, u2),
         Orderly(E, n, u, wr, x, rd)
  PROVE  /\ Ring(m2, q2, p2, u2, S)
         /\ Holds(m2, p2, u2, E, n + One(rd))
         /\ rd => m[p] = E[n]
<1>1. /\ FIFO_DEPTH \in Nat /\ FIFO_DEPTH > 0
      /\ u \in 0..FIFO_DEPTH /\ p \in 0..(FIFO_DEPTH - 1)
      /\ q = Slot(p + u) /\ m \in [0..(FIFO_DEPTH - 1) -> S]
  BY Constants DEF Ring
<1>0. /\ m2 = IF wr THEN [m EXCEPT ![q] = x] ELSE m
      /\ q2 = IF wr THEN Next(q) ELSE q
      /\ p2 = IF rd THEN Next(p) ELSE p
      /\ u2 = u + One(wr) - One(rd)
  BY DEF RingStep
<1>a. (wr => u < FIFO_DEPTH /\ x = E[n + u]) /\ (rd => u > 0)
  BY DEF Orderly
<1>2. PICK a \in 0..1, b \in 0..1 :
        a = One(wr) /\ b = One(rd) /\ (wr <=> a = 1) /\ (rd <=> b = 1)
  BY DEF One
<1>3. PICK v, o : v = u + a - b /\ o = Slot(p + b)
  OBVIOUS
<1>4. a \in 0..1 /\ b \in 0..1 /\ (a = 1 => u < FIFO_DEPTH) /\ (b = 1 => u > 0)
  BY <1>2, <1>a
<1>5. /\ v \in 0..FIFO_DEPTH /\ o \in 0..(FIFO_DEPTH - 1)
      /\ a = 1 => q \in 0..(FIFO_DEPTH - 1)
      /\ Slot(o + v) = IF a = 1 THEN Next(q) ELSE q
      /\ o = IF b = 1 THEN Next(p) ELSE p
      /\ \A k \in 0..(v - 1) :
           /\ Slot(o + k) = Slot(p + (k + b))
           /\ Slot(p + (k + b)) \in 0..(FIFO_DEPTH - 1)
           /\ k + b < u => (a = 1 => Slot(p + (k + b)) # q)
           /\ ~(k + b < u) => a = 1 /\ k + b = u
  <2>1. /\ FIFO_DEPTH \in Nat /\ FIFO_DEPTH > 0
        /\ u \in 0..FIFO_DEPTH /\ p \in 0..(FIFO_DEPTH - 1) /\ q = Slot(p + u)
    BY <1>1
  <2>2. CASE a = 0 /\ b = 0
    BY <1>3, <1>4, <2>1, <2>2 DEF Slot, Next
  <2>3. CASE a = 0 /\ b = 1
    BY <1>3, <1>4, <2>1, <2>3 DEF Slot, Next
  <2>4. CASE a = 1 /\ b = 0
    BY <1>3, <1>4, <2>1, <2>4 DEF Slot, Next
  <2>5. CASE a = 1 /\ b = 1
    BY <1>3, <1>4, <2>1, <2>5 DEF Slot, Next
  <2> QED
    BY <1>4, <2>2, <2>3, <2>4, <2>5
<1>6. u2 = v /\ p2 = o /\ q2 = Slot(o + v)
  <2>1. u2 = v
    BY <1>0, <1>2, <1>3, Zenon
  <2>2. p2 = o /\ q2 = Slot(o + v)
    BY <1>0, <1>2, <1>5, Zenon
  <2> QED
    BY <2>1, <2>2
<1>7. m2 \in [0..(FIFO_DEPTH - 1) -> S] /\ m2 = IF a = 1 THEN [m EXCEPT ![q] = x] ELSE m
  <2>1. m2 = IF a = 1 THEN [m EXCEPT ![q] = x] ELSE m
    BY <1>0, <1>2, Zenon
  <2>2. m \in [0..(FIFO_DEPTH - 1) -> S] /\ x \in S
    BY <1>1
  <2>3. [m EXCEPT ![q] = x] \in [0..(FIFO_DEPTH - 1) -> S]
    BY <2>2
  <2> QED
    BY <2>1, <2>2, <2>3
<1>8. ASSUME NEW k \in 0..(v - 1)
      PROVE  m2[Slot(o + k)] = E[n + b + k]
  <2>1. k \in Nat /\ b \in Nat /\ n \in Nat /\ u \in Nat
    <3>1. b \in Nat /\ u \in Nat /\ k \in Nat
      BY <1>1, <1>4, <1>5, <1>8
    <3> QED
      BY <3>1
  <2>2. CASE k + b < u
    <3>1. k + b \in 0..(u - 1) /\ n + (k + b) = n + b + k
      BY <2>1, <2>2
    <3>2. m[Slot(p + (k + b))] = E[n + (k + b)]
      BY <3>1 DEF Holds
    <3>3. m2[Slot(o + k)] = m[Slot(p + (k + b))]
      BY <1>1, <1>5, <1>7, <1>8, <2>2
    <3> QED
      BY <3>1, <3>2, <3>3
  <2>3. CASE ~(k + b < u)
    <3>1. a = 1 /\ k + b = u
      BY <1>5, <1>8, <2>3
    <3>2. Slot(o + k) = q
      BY <1>1, <1>5, <1>8, <3>1
    <3>3. m2[q] = x
      BY <1>1, <1>5, <1>7, <3>1
    <3>4. n + u = n + b + k
      BY <2>1, <3>1
    <3>5. x = E[n + u]
      BY <1>2, <1>a, <3>1, Zenon
    <3> QED
      BY <3>2, <3>3, <3>4, <3>5
  <2> QED
    BY <2>2, <2>3
<1>9. rd => m[p] = E[n]
  <2> SUFFICES ASSUME rd PROVE m[p] = E[n]
    OBVIOUS
  <2>1. 0 \in 0..(u - 1) /\ Slot(p + 0) = p /\ n + 0 = n
    BY <1>1, <1>a DEF Slot
  <2>2. m[Slot(p + 0)] = E[n + 0]
    BY <2>1 DEF Holds
  <2> QED
    BY <2>1, <2>2
<1>10. Holds(m2, p2, u2, E, n + One(rd))
  BY <1>2, <1>6, <1>8 DEF Holds
<1> QED
  BY <1>5, <1>6, <1>7, <1>9, <1>10 DEF Ring

OwedNext(s, g, a, n) == (IF g = 1 THEN Tail(s) ELSE s) \o BurstOf(a, n)

(* A word answered leaves the front, and a burst accepted joins the end.   *)
LEMMA OwedMoves ==
  ASSUME NEW s \in Seq(Int), NEW g \in 0..1, g = 1 => s # <<>>,
         NEW a \in Int, NEW n \in Nat
  PROVE  /\ OwedNext(s, g, a, n) \in Seq(Int)
         /\ Len(OwedNext(s, g, a, n)) = Len(s) - g + n
         /\ \A k \in 1..(Len(s) - g + n) :
              OwedNext(s, g, a, n)[k] =
                IF k + g <= Len(s) THEN s[k + g] ELSE a + 4 * (k + g - Len(s) - 1)
<1> DEFINE t == OwedNext(s, g, a, n)
           u == IF g = 1 THEN Tail(s) ELSE s
           v == BurstOf(a, n)
<1>1. /\ u \in Seq(Int) /\ Len(u) = Len(s) - g /\ Len(u) \in Nat /\ Len(s) \in Nat
      /\ \A k \in 1..Len(u) : u[k] = s[k + g]
  <2>1. Len(s) \in Nat
    BY LenProperties
  <2>2. CASE g = 1
    BY <2>1, <2>2, HeadTailProperties, LenProperties
  <2>3. CASE g = 0
    BY <2>1, <2>3
  <2> QED
    BY <2>2, <2>3
<1>2. v \in Seq(Int) /\ Len(v) = n /\ \A k \in 1..Len(v) : v[k] = a + 4 * (k - 1)
  <2>1. BurstOf(a, n) \in Seq(Int) /\ Len(BurstOf(a, n)) = n
    <3>1. \A i \in 1..n : a + 4 * (i - 1) \in Int
      OBVIOUS
    <3>2. [i \in 1..n |-> a + 4 * (i - 1)] \in Seq(Int)
          /\ Len([i \in 1..n |-> a + 4 * (i - 1)]) = n
      BY <3>1, IsASeq
    <3> QED
      BY <3>2 DEF BurstOf
  <2>2. \A k \in 1..n : BurstOf(a, n)[k] = a + 4 * (k - 1)
    BY DEF BurstOf
  <2> QED
    BY <2>1, <2>2
<1>3. t = u \o v
  BY DEF OwedNext
<1> HIDE DEF t, u, v
<1>4. /\ t \in Seq(Int) /\ Len(t) = Len(u) + Len(v)
      /\ \A k \in 1..(Len(u) + Len(v)) :
           t[k] = IF k <= Len(u) THEN u[k] ELSE v[k - Len(u)]
  <2>1. u \in Seq(Int) /\ v \in Seq(Int)
    BY <1>1, <1>2
  <2>2. u \o v \in Seq(Int) /\ Len(u \o v) = Len(u) + Len(v)
    BY <2>1, ConcatProperties
  <2>3. \A k \in 1..(Len(u) + Len(v)) :
          (u \o v)[k] = IF k <= Len(u) THEN u[k] ELSE v[k - Len(u)]
    BY <2>1, ConcatProperties, Zenon
  <2> QED
    BY <1>3, <2>2, <2>3
<1>5. Len(t) = Len(s) - g + n
  BY <1>1, <1>2, <1>4
<1>6. ASSUME NEW k \in 1..Len(t)
      PROVE  t[k] = IF k + g <= Len(s) THEN s[k + g] ELSE a + 4 * (k + g - Len(s) - 1)
  <2>1. /\ Len(u) \in Nat /\ Len(s) \in Nat /\ Len(u) = Len(s) - g
        /\ k \in 1..(Len(u) + n)
    BY <1>1, <1>2, <1>4, <1>6
  <2>2. t[k] = IF k <= Len(u) THEN u[k] ELSE v[k - Len(u)]
    BY <1>2, <1>4, <2>1
  <2>3. CASE k <= Len(u)
    <3>1. k \in 1..Len(u) /\ k + g <= Len(s)
      BY <2>1, <2>3
    <3> QED
      BY <1>1, <2>2, <2>3, <3>1
  <2>4. CASE ~(k <= Len(u))
    <3>1. k - Len(u) \in 1..n /\ ~(k + g <= Len(s)) /\ k - Len(u) - 1 = k + g - Len(s) - 1
      BY <2>1, <2>4
    <3>2. t[k] = a + 4 * (k - Len(u) - 1)
      BY <1>2, <2>2, <2>4, <3>1
    <3> QED
      BY <3>1, <3>2
  <2> QED
    BY <2>3, <2>4
<1> QED
  BY <1>4, <1>5, <1>6 DEF t
-----------------------------------------------------------------------------
(* The two masters while a transfer runs.                                  *)

Gets(in) == One(in.rm_readdatavalid)

Beat(in) == One(fifo_rd_en(in))

Taken(in) == IF rm_read /\ ~in.rm_waitrequest THEN job.rd ELSE 0

(* The numbers that the steps below use.                                   *)
LEMMA Sizes ==
  ASSUME SoftType
  PROVE  /\ FIFO_DEPTH \in Nat /\ AddrSpan \in Nat /\ Bytes \in Nat
         /\ job.src \in Nat /\ job.dst \in Nat
         /\ job.rd \in Nat /\ job.rd > 0 /\ job.wr \in Nat /\ job.wr > 0
         /\ Whole(Bytes, 4 * job.rd) /\ Whole(Bytes, 4 * job.wr)
         /\ job.src + Bytes < AddrSpan /\ job.dst + Bytes < AddrSpan
<1>1. job \in Job
  BY DEF SoftType
<1>2. /\ job.src \in Nat /\ job.dst \in Nat /\ Bytes \in Nat
      /\ job.rd \in 1..FIFO_DEPTH /\ job.wr \in 1..FIFO_DEPTH
      /\ Whole(Bytes, 4 * job.rd) /\ Whole(Bytes, 4 * job.wr)
      /\ job.src + Bytes < AddrSpan /\ job.dst + Bytes < AddrSpan
  BY <1>1, JobFacts DEF Bytes
<1> QED
  BY <1>2, Constants

(* The read master commands whole bursts, and only those that fit the FIFO. *)
LEMMA ReadStep ==
  ASSUME SoftType, owed \in Seq(Int), Params,
         NEW used \in Nat, Reading(used), internal_done_pulse = FALSE,
         NEW in \in EngineInputs, ReadMaster(used, in),
         in.rm_readdatavalid => Len(owed) > 0
  PROVE  \E r \in Nat :
           /\ read_remaining_len' = r /\ r = read_remaining_len - 4 * Taken(in)
           /\ Whole(r, 4 * job.rd)
           /\ current_src_addr' = job.src + Bytes - r
           /\ pending_reads' = Len(owed) - Gets(in) + Taken(in)
           /\ used + Len(owed) + Taken(in) <= FIFO_DEPTH
           /\ Taken(in) > 0 => rm_burstcount = job.rd /\ rm_address = current_src_addr
           /\ \/ rm_state' = "WAIT_FIFO" /\ rm_read' = FALSE
              \/ /\ rm_state' = "READ" /\ rm_read' = TRUE /\ Taken(in) = 0
                 /\ rm_burstcount' = job.rd /\ rm_address' = job.src + Bytes - r
                 /\ r > 0 /\ used + Len(owed) + job.rd <= FIFO_DEPTH
<1>1. /\ used \in Nat /\ Len(owed) \in Nat /\ FIFO_DEPTH \in Nat /\ Bytes \in Nat
      /\ job.src \in Nat /\ job.rd \in Nat /\ job.rd > 0 /\ AddrSpan \in Nat
      /\ job.src + Bytes < AddrSpan
  BY Sizes, LenProperties
<1>2. /\ read_remaining_len \in Nat /\ Whole(read_remaining_len, 4 * job.rd)
      /\ current_src_addr = job.src + Bytes - read_remaining_len
      /\ pending_reads = Len(owed) /\ used + Len(owed) <= FIFO_DEPTH
      /\ ctrl_rd_burst = job.rd
  BY DEF Reading, Params, Has
<1>3. in.rm_readdatavalid \in BOOLEAN /\ in.rm_waitrequest \in BOOLEAN
  BY DEF EngineInputs
<1>4. /\ \A s : NextState(s) = s
      /\ rm_state = "WAIT_FIFO" \/ rm_state = "READ"
  BY DEF NextState, Reading
<1>p. /\ Gets(in) \in 0..1 /\ (Gets(in) = 1 => Len(owed) > 0)
      /\ pending_reads' = IF ReadAccepted(in) THEN pending_reads + rm_burstcount - Gets(in)
                          ELSE IF pending_reads > 0 THEN pending_reads - Gets(in)
                          ELSE pending_reads
  BY DEF ReadMaster, CountPending, Gets, One
<1>5. CASE rm_state = "WAIT_FIFO"
  <2>1. Taken(in) = 0
    BY <1>5 DEF Reading, Taken
  <2>2. pending_reads' = Len(owed) - Gets(in)
    BY <1>1, <1>2, <1>3, <1>5, <1>p DEF ReadAccepted
  <2>3. read_remaining_len' = read_remaining_len /\ current_src_addr' = current_src_addr
    BY <1>5 DEF ReadMaster, ReadIdle, ReadStart, ReadCommand, ReadWait, ReadAccepted, ReadHeld
  <2>4. \/ rm_state' = "WAIT_FIFO" /\ rm_read' = FALSE
        \/ /\ rm_state' = "READ" /\ rm_read' = TRUE
           /\ rm_burstcount' = job.rd /\ rm_address' = current_src_addr
           /\ read_remaining_len > 0 /\ used + Len(owed) + job.rd <= FIFO_DEPTH
    <3>1. CASE ReadCommand(used)
      BY <1>2, <1>4, <3>1 DEF ReadCommand, RoomForRead
    <3>2. CASE ReadWait(used)
      BY <1>4, <1>5, <3>2 DEF ReadWait, Reading
    <3> QED
      BY <1>5, <3>1, <3>2 DEF ReadMaster, ReadIdle, ReadStart, ReadAccepted, ReadHeld
  <2> QED
    BY <1>1, <1>2, <2>1, <2>2, <2>3, <2>4
<1>6. CASE rm_state = "READ" /\ in.rm_waitrequest
  <2>1. Taken(in) = 0
    BY <1>6 DEF Taken
  <2>2. pending_reads' = Len(owed) - Gets(in)
    BY <1>1, <1>2, <1>3, <1>6, <1>p DEF ReadAccepted
  <2>3. ReadHeld(in)
    BY <1>6 DEF ReadMaster, ReadIdle, ReadStart, ReadCommand, ReadWait, ReadAccepted
  <2>4. /\ rm_state' = "READ" /\ rm_read' = TRUE
        /\ rm_burstcount' = job.rd /\ rm_address' = current_src_addr
        /\ read_remaining_len' = read_remaining_len /\ current_src_addr' = current_src_addr
        /\ read_remaining_len > 0 /\ used + Len(owed) + job.rd <= FIFO_DEPTH
    BY <1>4, <1>6, <2>3 DEF ReadHeld, Reading
  <2> QED
    BY <1>1, <1>2, <2>1, <2>2, <2>4
<1>7. CASE rm_state = "READ" /\ ~in.rm_waitrequest
  <2>1. /\ rm_read /\ rm_burstcount = job.rd /\ rm_address = current_src_addr
        /\ read_remaining_len > 0 /\ used + Len(owed) + job.rd <= FIFO_DEPTH
    BY <1>7 DEF Reading
  <2>2. Taken(in) = job.rd
    BY <1>7, <2>1 DEF Taken
  <2>3. pending_reads' = Len(owed) - Gets(in) + job.rd
    BY <1>1, <1>2, <1>3, <1>7, <1>p, <2>1 DEF ReadAccepted
  <2>4. ReadTaken
    BY <1>7 DEF ReadMaster, ReadIdle, ReadStart, ReadCommand, ReadWait, ReadHeld
  <2>5. /\ rm_state' = "WAIT_FIFO" /\ rm_read' = FALSE
        /\ current_src_addr' = Plus(current_src_addr, 4 * job.rd)
        /\ read_remaining_len' = Minus(read_remaining_len, 4 * job.rd)
    BY <1>2, <1>4, <2>4 DEF ReadTaken
  <2>6. /\ read_remaining_len >= 4 * job.rd /\ read_remaining_len - 4 * job.rd \in Nat
        /\ Whole(read_remaining_len - 4 * job.rd, 4 * job.rd)
    <3>1. job.rd \in Nat /\ job.rd > 0 /\ read_remaining_len \in Nat /\ read_remaining_len > 0
      BY <1>1, <1>2, <2>1
    <3>2. 4 * job.rd \in Nat /\ 4 * job.rd > 0 /\ read_remaining_len # 0
      BY <3>1
    <3> QED
      BY <1>2, <3>2, WholeLess, Zenon
  <2>7. Minus(read_remaining_len, 4 * job.rd) = read_remaining_len - 4 * job.rd
    BY <1>1, <1>2, <2>6 DEF Minus
  <2>8. Plus(current_src_addr, 4 * job.rd) = job.src + Bytes - (read_remaining_len - 4 * job.rd)
    <3>1. PICK d \in Nat : d = 4 * job.rd
      BY <1>1
    <3>2. /\ job.src \in Nat /\ Bytes \in Nat /\ read_remaining_len \in Nat
          /\ read_remaining_len >= d /\ job.src + Bytes < AddrSpan
          /\ AddrSpan \in Nat /\ d \in Nat /\ current_src_addr = job.src + Bytes - read_remaining_len
      BY <1>1, <1>2, <2>6, <3>1
    <3>3. Plus(current_src_addr, d) = job.src + Bytes - (read_remaining_len - d)
      <4>1. PICK a \in Nat, b \in Nat, r \in Nat :
              a = job.src /\ b = Bytes /\ r = read_remaining_len
        BY <3>2
      <4>2. Plus(a + b - r, d) = a + b - (r - d)
        <5>1. d <= r /\ a + b < AddrSpan /\ AddrSpan \in Nat /\ d \in Nat
          BY <3>2, <4>1
        <5> QED
          BY <5>1 DEF Plus
      <4> QED
        BY <3>2, <4>1, <4>2
    <3> QED
      BY <3>1, <3>3
  <2> QED
    BY <1>1, <1>2, <2>1, <2>2, <2>3, <2>5, <2>6, <2>7, <2>8
<1> QED
  BY <1>3, <1>4, <1>5, <1>6, <1>7

(* The write master takes a word for every beat, at its address, and is done *)
(* when all are written.                                                   *)
LEMMA WriteStep ==
  ASSUME SoftType, NEW S, written \in Seq(S), Params,
         NEW used \in Nat, Writing(used),
         NEW in \in EngineInputs, WriteMaster(used, in), ~ctrl_start
  PROVE  /\ Beat(in) \in 0..1 /\ (fifo_rd_en(in) <=> Beat(in) = 1)
         /\ fifo_rd_en(in) <=> (wm_write /\ ~in.wm_waitrequest)
         /\ fifo_rd_en(in) =>
              used > 0 /\ wm_address + 4 * wm_word_cnt = job.dst + 4 * Len(written)
         /\ \/ /\ wm_fsm' = "W_IDLE" /\ wm_write' = FALSE /\ internal_done_pulse' = TRUE
               /\ Beat(in) = 0 /\ 4 * Len(written) = Bytes
            \/ \E r \in Nat :
                 /\ internal_done_pulse' = FALSE
                 /\ remaining_len' = r /\ Whole(r, 4 * job.wr)
                 /\ current_dst_addr' = job.dst + Bytes - r
                 /\ \/ /\ wm_fsm' = "W_WAIT_DATA" /\ wm_write' = FALSE
                       /\ r = Bytes - 4 * (Len(written) + Beat(in))
                    \/ \E c \in 0..(job.wr - 1) :
                         /\ wm_fsm' = "W_BURST" /\ wm_write' = TRUE
                         /\ wm_burstcount' = job.wr /\ wm_word_cnt' = c
                         /\ wm_address' = job.dst + Bytes - r /\ r > 0
                         /\ r = Bytes - 4 * (Len(written) + Beat(in) - c)
                         /\ job.wr - c <= used - Beat(in)
<1>1. /\ used \in Nat /\ Len(written) \in Nat /\ Bytes \in Nat
      /\ job.dst \in Nat /\ job.wr \in Nat /\ job.wr > 0 /\ AddrSpan \in Nat
      /\ job.dst + Bytes < AddrSpan
  BY Sizes, LenProperties
<1>2. /\ remaining_len \in Nat /\ Whole(remaining_len, 4 * job.wr)
      /\ current_dst_addr = job.dst + Bytes - remaining_len
      /\ ctrl_wr_burst = job.wr
      /\ wm_fsm = "W_WAIT_DATA" \/ wm_fsm = "W_BURST"
  BY DEF Writing, Params, Has
<1>3. in.wm_waitrequest \in BOOLEAN
  BY DEF EngineInputs
<1>5. CASE wm_fsm = "W_WAIT_DATA"
  <2>1. ~wm_write /\ remaining_len = Bytes - 4 * Len(written)
    BY <1>5 DEF Writing
  <2>2. ~fifo_rd_en(in) /\ Beat(in) = 0
    BY <1>5 DEF fifo_rd_en, Beat, One
  <2>3. CASE WriteDone
    <3>1. /\ wm_fsm' = "W_IDLE" /\ wm_write' = FALSE /\ internal_done_pulse' = TRUE
          /\ 4 * Len(written) = Bytes
      BY <1>1, <2>1, <2>3 DEF WriteDone
    <3> QED
      BY <2>1, <2>2, <3>1
  <2>4. CASE WriteCommand(used)
    <3>1. /\ internal_done_pulse' = FALSE /\ remaining_len' = remaining_len
          /\ current_dst_addr' = current_dst_addr
          /\ wm_fsm' = "W_BURST" /\ wm_write' = TRUE
          /\ wm_burstcount' = job.wr /\ wm_word_cnt' = 0
          /\ wm_address' = current_dst_addr /\ remaining_len # 0
          /\ used >= job.wr
      BY <1>2, <2>4 DEF WriteCommand, BurstReady
    <3>2. 0 \in 0..(job.wr - 1) /\ remaining_len > 0
      BY <1>1, <1>2, <3>1
    <3>3. remaining_len = Bytes - 4 * (Len(written) + Beat(in) - 0) /\ job.wr - 0 <= used - Beat(in)
      BY <1>1, <2>1, <2>2, <3>1
    <3> QED
      BY <1>2, <2>1, <2>2, <3>1, <3>2, <3>3
  <2>5. CASE WriteWait(used)
    <3>1. /\ internal_done_pulse' = FALSE /\ remaining_len' = remaining_len
          /\ current_dst_addr' = current_dst_addr
          /\ wm_fsm' = "W_WAIT_DATA" /\ wm_write' = FALSE
      BY <2>5 DEF WriteWait
    <3>2. remaining_len = Bytes - 4 * (Len(written) + Beat(in))
      BY <1>1, <2>1, <2>2
    <3> QED
      BY <1>2, <2>1, <2>2, <3>1, <3>2
  <2> QED
    BY <1>5, <2>3, <2>4, <2>5 DEF WriteMaster, WriteIdle, WriteStart, WriteLast, WriteBeat, WriteHeld
<1>6. CASE wm_fsm = "W_BURST"
  <2>1. /\ wm_write /\ wm_burstcount = job.wr /\ wm_word_cnt \in 0..(job.wr - 1)
        /\ wm_address = current_dst_addr /\ remaining_len > 0
        /\ remaining_len = Bytes - 4 * (Len(written) - wm_word_cnt)
        /\ job.wr - wm_word_cnt <= used
    BY <1>6 DEF Writing
  <2>2. fifo_rd_en(in) <=> ~in.wm_waitrequest
    BY <1>1, <1>6, <2>1 DEF fifo_rd_en
  <2>3. Beat(in) = IF in.wm_waitrequest THEN 0 ELSE 1
    BY <1>3, <2>2 DEF Beat, One
  <2>4. used > 0 /\ wm_address + 4 * wm_word_cnt = job.dst + 4 * Len(written)
    BY <1>1, <1>2, <2>1, SMTT(30)
  <2>5. CASE WriteLast(in)
    <3>1. /\ ~in.wm_waitrequest /\ wm_word_cnt = job.wr - 1
          /\ wm_fsm' = "W_WAIT_DATA" /\ wm_write' = FALSE /\ internal_done_pulse' = FALSE
          /\ current_dst_addr' = Plus(current_dst_addr, 4 * job.wr)
          /\ remaining_len' = Minus(remaining_len, 4 * job.wr)
      BY <2>1, <2>5 DEF WriteLast, LastBeat
    <3>2. /\ remaining_len >= 4 * job.wr /\ remaining_len - 4 * job.wr \in Nat
          /\ Whole(remaining_len - 4 * job.wr, 4 * job.wr)
      <4>1. job.wr \in Nat /\ job.wr > 0 /\ remaining_len \in Nat /\ remaining_len > 0
        BY <1>1, <1>2, <2>1
      <4>2. 4 * job.wr \in Nat /\ 4 * job.wr > 0 /\ remaining_len # 0
        BY <4>1
      <4> QED
        BY <1>2, <4>2, WholeLess, Zenon
    <3>3. Minus(remaining_len, 4 * job.wr) = remaining_len - 4 * job.wr
      BY <1>1, <1>2, <3>2 DEF Minus
    <3>4. Plus(current_dst_addr, 4 * job.wr) = job.dst + Bytes - (remaining_len - 4 * job.wr)
      <4>1. PICK d \in Nat : d = 4 * job.wr
        BY <1>1
      <4>2. /\ job.dst \in Nat /\ Bytes \in Nat /\ remaining_len \in Nat
            /\ remaining_len >= d /\ job.dst + Bytes < AddrSpan
            /\ AddrSpan \in Nat /\ d \in Nat /\ current_dst_addr = job.dst + Bytes - remaining_len
        BY <1>1, <1>2, <3>2, <4>1
      <4>3. Plus(current_dst_addr, d) = job.dst + Bytes - (remaining_len - d)
        <5>1. PICK a \in Nat, b \in Nat, r \in Nat :
                a = job.dst /\ b = Bytes /\ r = remaining_len
          BY <4>2
        <5>2. Plus(a + b - r, d) = a + b - (r - d)
          <6>1. d <= r /\ a + b < AddrSpan /\ AddrSpan \in Nat /\ d \in Nat
            BY <4>2, <5>1
          <6> QED
            BY <6>1 DEF Plus
        <5> QED
          BY <4>2, <5>1, <5>2
      <4> QED
        BY <4>1, <4>3
    <3>6. Beat(in) = 1
      BY <2>3, <3>1
    <3>5. Beat(in) = 1 /\ remaining_len - 4 * job.wr = Bytes - 4 * (Len(written) + Beat(in))
      <4>1. /\ Bytes \in Nat /\ Len(written) \in Nat /\ job.wr \in Nat
            /\ remaining_len = Bytes - 4 * (Len(written) - (job.wr - 1))
        BY <1>1, <2>1, <3>1
      <4> QED
        BY <3>6, <4>1
    <3> QED
      BY <2>1, <2>2, <2>4, <3>1, <3>2, <3>3, <3>4, <3>5
  <2>6. CASE WriteBeat(in)
    <3>1. /\ ~in.wm_waitrequest /\ wm_word_cnt # job.wr - 1
          /\ wm_fsm' = "W_BURST" /\ wm_write' = wm_write /\ internal_done_pulse' = FALSE
          /\ wm_word_cnt' = wm_word_cnt + 1 /\ wm_burstcount' = wm_burstcount
          /\ wm_address' = wm_address /\ current_dst_addr' = current_dst_addr
          /\ remaining_len' = remaining_len
      BY <1>6, <2>1, <2>6 DEF WriteBeat, LastBeat
    <3>2. Beat(in) = 1 /\ wm_word_cnt + 1 \in 0..(job.wr - 1)
      BY <1>1, <2>1, <2>3, <3>1
    <3>3. /\ remaining_len = Bytes - 4 * (Len(written) + Beat(in) - (wm_word_cnt + 1))
          /\ job.wr - (wm_word_cnt + 1) <= used - Beat(in)
      BY <1>1, <2>1, <3>2
    <3>4. wm_write' = TRUE
      BY <2>1, <3>1 
    <3> QED
      BY <1>2, <2>1, <2>2, <2>4, <3>1, <3>2, <3>3, <3>4
  <2>7. CASE WriteHeld(in)
    <3>1. /\ in.wm_waitrequest
          /\ wm_fsm' = "W_BURST" /\ wm_write' = wm_write /\ internal_done_pulse' = FALSE
          /\ wm_word_cnt' = wm_word_cnt /\ wm_burstcount' = wm_burstcount
          /\ wm_address' = wm_address /\ current_dst_addr' = current_dst_addr
          /\ remaining_len' = remaining_len
      BY <1>6, <2>7 DEF WriteHeld
    <3>2. Beat(in) = 0
      BY <2>3, <3>1
    <3>3. /\ remaining_len = Bytes - 4 * (Len(written) + Beat(in) - wm_word_cnt)
          /\ job.wr - wm_word_cnt <= used - Beat(in)
      BY <1>1, <2>1, <3>2
    <3> QED
      BY <1>2, <2>1, <2>2, <2>4, <3>1, <3>2, <3>3
  <2> QED
    BY <1>6, <2>5, <2>6, <2>7 DEF WriteMaster, WriteIdle, WriteStart, WriteDone, WriteCommand, WriteWait
<1> QED
  BY <1>2, <1>5, <1>6

(* The head of a sequence that is not empty.                               *)
LEMMA NotEmpty ==
  ASSUME NEW S, NEW s \in Seq(S), s # <<>>
  PROVE  Len(s) > 0 /\ Head(s) \in S /\ Head(s) = s[1]
<1>1. Len(s) \in Nat /\ Len(s) # 0
  BY EmptySeq, LenProperties
<1>2. Head(s) \in S
  BY HeadTailProperties
<1>3. Head(s) = s[1]
  BY <1>1
<1> QED
  BY <1>1, <1>2, <1>3

(* Every word delivered is the next of the source and has room, and what   *)
(* is owed and commanded goes on from there.                               *)
LEMMA Delivery ==
  ASSUME SoftType, owed \in Seq(Int), Params, UNCHANGED job, internal_done_pulse = FALSE,
         NEW used \in Nat, Reading(used), NEW n \in Nat, Accounted(n), OwedFrom(n),
         NEW in \in EngineInputs, ReadMaster(used, in), NEW x, MemoryPorts(in, x)
  PROVE  /\ Gets(in) \in 0..1 /\ (in.rm_readdatavalid <=> Gets(in) = 1)
         /\ in.rm_readdatavalid =>
              owed # <<>> /\ Head(owed) = job.src + 4 * n /\ used < FIFO_DEPTH
         /\ owed' \in Seq(Int)
         /\ \A m \in Nat : m = n + Gets(in) => Accounted(m)' /\ OwedFrom(m)'
         /\ \A v \in Nat : v <= used + Gets(in) => Reading(v)'
<1>1. /\ Len(owed) \in Nat /\ FIFO_DEPTH \in Nat /\ Bytes \in Nat /\ job.src \in Nat
      /\ job.rd \in Nat /\ job.rd > 0
  BY Sizes, LenProperties
<1>2. /\ Gets(in) \in 0..1 /\ (in.rm_readdatavalid <=> Gets(in) = 1)
  BY DEF EngineInputs, Gets, One
<1>3. in.rm_readdatavalid => owed # <<>> /\ Len(owed) > 0 /\ Head(owed) = owed[1]
  BY NotEmpty DEF MemoryPorts
<1>4. /\ read_remaining_len \in Nat /\ used + Len(owed) <= FIFO_DEPTH
      /\ read_remaining_len + 4 * (Len(owed) + n) = Bytes
      /\ current_src_addr = job.src + Bytes - read_remaining_len
      /\ \A k \in 1..Len(owed) : owed[k] = job.src + 4 * (n + k - 1)
  BY DEF Reading, Accounted, OwedFrom
<1>5. in.rm_readdatavalid => Head(owed) = job.src + 4 * n /\ used < FIFO_DEPTH
  <2> SUFFICES ASSUME in.rm_readdatavalid
               PROVE  Head(owed) = job.src + 4 * n /\ used < FIFO_DEPTH
    OBVIOUS
  <2>1. 1 \in 1..Len(owed) /\ n + 1 - 1 = n /\ used < FIFO_DEPTH
    BY <1>1, <1>3, <1>4
  <2>2. owed[1] = job.src + 4 * (n + 1 - 1)
    BY <1>4, <2>1
  <2> QED
    BY <1>3, <2>1, <2>2
<1>6. PICK r \in Nat :
        /\ read_remaining_len' = r /\ r = read_remaining_len - 4 * Taken(in)
        /\ Whole(r, 4 * job.rd)
        /\ current_src_addr' = job.src + Bytes - r
        /\ pending_reads' = Len(owed) - Gets(in) + Taken(in)
        /\ used + Len(owed) + Taken(in) <= FIFO_DEPTH
        /\ Taken(in) > 0 => rm_burstcount = job.rd /\ rm_address = current_src_addr
        /\ \/ rm_state' = "WAIT_FIFO" /\ rm_read' = FALSE
           \/ /\ rm_state' = "READ" /\ rm_read' = TRUE /\ Taken(in) = 0
              /\ rm_burstcount' = job.rd /\ rm_address' = job.src + Bytes - r
              /\ r > 0 /\ used + Len(owed) + job.rd <= FIFO_DEPTH
  BY <1>3, ReadStep
<1> DEFINE acc == rm_read /\ ~in.rm_waitrequest
<1>7. Taken(in) = (IF acc THEN job.rd ELSE 0) /\ Taken(in) \in Nat
  BY <1>1 DEF Taken
<1>8. PICK a \in Int : a = job.src + 4 * (Len(owed) + n)
  BY <1>1
<1>9. acc => rm_burstcount = job.rd /\ rm_address = a
  <2>1. current_src_addr = a
    BY <1>1, <1>4, <1>8
  <2> QED
    BY <1>1, <1>6, <1>7, <2>1
<1>10. owed' = OwedNext(owed, Gets(in), a, Taken(in))
  <2>1. CASE acc
    BY <1>2, <1>7, <1>9, <2>1 DEF MemoryPorts, OwedNext
  <2>2. CASE ~acc
    <3>1. BurstOf(a, 0) = <<>>
      BY DEF BurstOf
    <3> QED
      BY <1>2, <1>7, <2>2, <3>1 DEF MemoryPorts, OwedNext
  <2> QED
    BY <2>1, <2>2
<1> HIDE DEF acc
<1>11. /\ owed' \in Seq(Int) /\ Len(owed') = Len(owed) - Gets(in) + Taken(in)
       /\ \A k \in 1..(Len(owed) - Gets(in) + Taken(in)) :
            owed'[k] = IF k + Gets(in) <= Len(owed) THEN owed[k + Gets(in)]
                       ELSE a + 4 * (k + Gets(in) - Len(owed) - 1)
  <2>1. owed \in Seq(Int) /\ a \in Int /\ (Gets(in) = 1 => owed # <<>>)
    BY <1>2, <1>3, <1>8
  <2>2. Gets(in) \in 0..1 /\ Taken(in) \in Nat
    BY <1>2, <1>7
  <2>3. /\ OwedNext(owed, Gets(in), a, Taken(in)) \in Seq(Int)
        /\ Len(OwedNext(owed, Gets(in), a, Taken(in))) = Len(owed) - Gets(in) + Taken(in)
        /\ \A k \in 1..(Len(owed) - Gets(in) + Taken(in)) :
             OwedNext(owed, Gets(in), a, Taken(in))[k] =
               IF k + Gets(in) <= Len(owed) THEN owed[k + Gets(in)]
               ELSE a + 4 * (k + Gets(in) - Len(owed) - 1)
    BY <2>1, <2>2, OwedMoves, Zenon
  <2> QED
    BY <1>10, <2>3
<1>12. PICK o \in Nat, g \in 0..1, t \in Nat, b \in Nat, l \in Nat, z \in Nat, c \in Nat :
         /\ o = Len(owed) /\ g = Gets(in) /\ t = Taken(in) /\ b = Bytes
         /\ l = read_remaining_len /\ z = FIFO_DEPTH /\ c = job.src
  BY <1>1, <1>2, <1>4, <1>7
<1>13. /\ r = l - 4 * t /\ l + 4 * (o + n) = b /\ Len(owed') = o - g + t
       /\ used + o <= z /\ used + o + t <= z /\ (g = 1 => o > 0)
       /\ a = c + 4 * (o + n)
  BY <1>2, <1>3, <1>4, <1>6, <1>8, <1>11, <1>12
<1>14. job' = job /\ Bytes' = Bytes
  BY DEF Bytes
<1>15. ASSUME NEW m \in Nat, m = n + g
       PROVE  Accounted(m)' /\ OwedFrom(m)'
  <2>1. r + 4 * (o - g + t + m) = b
    <3>1. r = l - 4 * t /\ l + 4 * (o + n) = b /\ m = n + g
      BY <1>13, <1>15
    <3> QED
      BY <3>1
  <2>2. Accounted(m)'
    BY <1>6, <1>12, <1>13, <1>14, <2>1 DEF Accounted
  <2>3. ASSUME NEW k \in 1..(o - g + t)
        PROVE  owed'[k] = c + 4 * (m + k - 1)
    <3>1. k \in Nat /\ k >= 1
      BY <1>13, <2>3
    <3>2. owed'[k] = IF k + g <= o THEN owed[k + g] ELSE a + 4 * (k + g - o - 1)
      BY <1>11, <1>12, <2>3
    <3>3. CASE k + g <= o
      <4>1. k + g \in 1..o /\ n + (k + g) - 1 = m + k - 1
        BY <1>15, <3>1, <3>3
      <4>2. owed[k + g] = c + 4 * (n + (k + g) - 1)
        BY <1>4, <1>12, <4>1
      <4> QED
        BY <3>2, <3>3, <4>1, <4>2
    <3>4. CASE ~(k + g <= o)
      <4>1. a = c + 4 * (o + n) /\ m = n + g
        BY <1>13, <1>15
      <4>2. a + 4 * (k + g - o - 1) = c + 4 * (m + k - 1)
        BY <3>1, <4>1
      <4> QED
        BY <3>2, <3>4, <4>2
    <3> QED
      BY <3>3, <3>4
  <2>4. OwedFrom(m)'
    BY <1>12, <1>13, <1>14, <2>3 DEF OwedFrom
  <2> QED
    BY <2>2, <2>4
<1>16. ASSUME NEW v \in Nat, v <= used + g
       PROVE  Reading(v)'
  <2>1. v + (o - g + t) <= z /\ (used + o + job.rd <= z /\ t = 0 => v + (o - g + t) + job.rd <= z)
    <3>1. used + o + t <= z
      BY <1>13
    <3> QED
      BY <1>1, <1>16, <3>1
  <2>2. CASE rm_state' = "WAIT_FIFO" /\ rm_read' = FALSE
    BY <1>6, <1>12, <1>13, <1>14, <2>1, <2>2 DEF Reading
  <2>3. CASE /\ rm_state' = "READ" /\ rm_read' = TRUE /\ Taken(in) = 0
             /\ rm_burstcount' = job.rd /\ rm_address' = job.src + Bytes - r
             /\ r > 0 /\ used + Len(owed) + job.rd <= FIFO_DEPTH
    <3>1. v + Len(owed') + job.rd <= FIFO_DEPTH /\ v + Len(owed') <= FIFO_DEPTH
      BY <1>12, <1>13, <2>1, <2>3
    <3> QED
      BY <1>6, <1>11, <1>14, <2>3, <3>1 DEF Reading
  <2> QED
    BY <1>6, <2>2, <2>3
<1> QED
  BY <1>2, <1>3, <1>5, <1>11, <1>12, <1>15, <1>16

(* Every beat stores the next word at its place, and the write master goes *)
(* on or is done.                                                          *)
LEMMA Storing ==
  ASSUME SoftType, NEW S, written \in Seq(Int \X S), Params, UNCHANGED job, ~ctrl_start,
         NEW used \in Nat, Writing(used), NEW E, Stored(E),
         NEW in \in EngineInputs, WriteMaster(used, in), NEW x \in S, MemoryPorts(in, x),
         fifo_rd_en(in) => x = E[Len(written)]
  PROVE  /\ Beat(in) \in 0..1 /\ (fifo_rd_en(in) <=> Beat(in) = 1)
         /\ written' \in Seq(Int \X S) /\ Len(written') = Len(written) + Beat(in)
         /\ Stored(E)'
         /\ \/ /\ wm_fsm' = "W_IDLE" /\ wm_write' = FALSE /\ internal_done_pulse' = TRUE
               /\ AllWritten'
            \/ /\ internal_done_pulse' = FALSE
               /\ \A v \in Nat : v >= used - Beat(in) => Writing(v)'
<1>1. /\ Len(written) \in Nat /\ Bytes \in Nat /\ job.dst \in Nat
      /\ job.wr \in Nat /\ job.wr > 0
  BY Sizes, LenProperties
<1>2. /\ Beat(in) \in 0..1 /\ (fifo_rd_en(in) <=> Beat(in) = 1)
      /\ fifo_rd_en(in) <=> (wm_write /\ ~in.wm_waitrequest)
      /\ fifo_rd_en(in) => wm_address + 4 * wm_word_cnt = job.dst + 4 * Len(written)
  BY WriteStep
<1>3. \/ /\ wm_fsm' = "W_IDLE" /\ wm_write' = FALSE /\ internal_done_pulse' = TRUE
         /\ Beat(in) = 0 /\ 4 * Len(written) = Bytes
      \/ \E r \in Nat :
           /\ internal_done_pulse' = FALSE
           /\ remaining_len' = r /\ Whole(r, 4 * job.wr)
           /\ current_dst_addr' = job.dst + Bytes - r
           /\ \/ /\ wm_fsm' = "W_WAIT_DATA" /\ wm_write' = FALSE
                 /\ r = Bytes - 4 * (Len(written) + Beat(in))
              \/ \E c \in 0..(job.wr - 1) :
                   /\ wm_fsm' = "W_BURST" /\ wm_write' = TRUE
                   /\ wm_burstcount' = job.wr /\ wm_word_cnt' = c
                   /\ wm_address' = job.dst + Bytes - r /\ r > 0
                   /\ r = Bytes - 4 * (Len(written) + Beat(in) - c)
                   /\ job.wr - c <= used - Beat(in)
  BY WriteStep
<1>4. PICK L \in Nat : L = Len(written)
  BY <1>1
<1>5. /\ written' \in Seq(Int \X S) /\ Len(written') = L + Beat(in)
      /\ \A i \in 1..(L + Beat(in)) :
           written'[i] = IF i <= L THEN written[i] ELSE <<job.dst + 4 * L, x>>
  <2>1. CASE fifo_rd_en(in)
    <3>1. PICK v \in Int \X S : v = <<job.dst + 4 * L, x>>
      <4>1. job.dst + 4 * L \in Int
        BY <1>1
      <4> QED
        BY <4>1
    <3>2. written' = Append(written, v)
      BY <1>2, <1>4, <2>1, <3>1 DEF MemoryPorts
    <3>3. /\ Append(written, v) \in Seq(Int \X S)
          /\ Len(Append(written, v)) = L + 1
          /\ \A i \in 1..L : Append(written, v)[i] = written[i]
          /\ Append(written, v)[L + 1] = v
      BY <1>4, <3>1, AppendProperties
    <3>4. Beat(in) = 1
      BY <1>2, <2>1
    <3>5. ASSUME NEW i \in 1..(L + 1)
          PROVE  Append(written, v)[i] = IF i <= L THEN written[i] ELSE v
      <4>1. i \in 1..L \/ (i = L + 1 /\ ~(i <= L))
        BY <3>5
      <4>2. i \in 1..L => i <= L
        OBVIOUS
      <4> QED
        BY <3>3, <4>1, <4>2, Zenon
    <3> QED
      BY <3>1, <3>2, <3>3, <3>4, <3>5
  <2>2. CASE ~fifo_rd_en(in)
    <3>1. written' = written
      BY <1>2, <2>2 DEF MemoryPorts
    <3>2. Beat(in) = 0
      BY <1>2, <2>2
    <3> QED
      BY <1>4, <3>1, <3>2
  <2> QED
    BY <2>1, <2>2
<1>6. ASSUME NEW i \in 1..(L + Beat(in))
      PROVE  written'[i] = <<job.dst + 4 * (i - 1), E[i - 1]>>
  <2>1. CASE i <= L
    <3>1. i \in 1..L
      BY <1>2, <1>6, <2>1
    <3>2. written[i] = <<job.dst + 4 * (i - 1), E[i - 1]>>
      BY <1>4, <3>1 DEF Stored
    <3> QED
      BY <1>5, <1>6, <2>1, <3>2
  <2>2. CASE ~(i <= L)
    <3>1. i - 1 = L /\ Beat(in) = 1
      BY <1>2, <1>6, <2>2
    <3>2. x = E[L]
      BY <1>2, <1>4, <3>1
    <3>3. written'[i] = <<job.dst + 4 * L, x>>
      BY <1>5, <1>6, <2>2
    <3> QED
      BY <3>1, <3>2, <3>3
  <2> QED
    BY <2>1, <2>2
<1>7. job' = job /\ Bytes' = Bytes
  BY DEF Bytes
<1>8. Stored(E)'
  BY <1>5, <1>6, <1>7 DEF Stored
<1>9. CASE /\ wm_fsm' = "W_IDLE" /\ wm_write' = FALSE /\ internal_done_pulse' = TRUE
           /\ Beat(in) = 0 /\ 4 * Len(written) = Bytes
  <2>1. Len(written') = L
    BY <1>5, <1>9
  <2>2. AllWritten'
    BY <1>4, <1>7, <1>9, <2>1 DEF AllWritten
  <2> QED
    BY <1>2, <1>4, <1>5, <1>8, <1>9, <2>2
<1>10. ASSUME NEW r \in Nat,
              /\ internal_done_pulse' = FALSE
              /\ remaining_len' = r /\ Whole(r, 4 * job.wr)
              /\ current_dst_addr' = job.dst + Bytes - r
              /\ \/ /\ wm_fsm' = "W_WAIT_DATA" /\ wm_write' = FALSE
                    /\ r = Bytes - 4 * (Len(written) + Beat(in))
                 \/ \E c \in 0..(job.wr - 1) :
                      /\ wm_fsm' = "W_BURST" /\ wm_write' = TRUE
                      /\ wm_burstcount' = job.wr /\ wm_word_cnt' = c
                      /\ wm_address' = job.dst + Bytes - r /\ r > 0
                      /\ r = Bytes - 4 * (Len(written) + Beat(in) - c)
                      /\ job.wr - c <= used - Beat(in),
              NEW v \in Nat, v >= used - Beat(in)
       PROVE  Writing(v)'
  <2>1. CASE /\ wm_fsm' = "W_WAIT_DATA" /\ wm_write' = FALSE
             /\ r = Bytes - 4 * (Len(written) + Beat(in))
    BY <1>4, <1>5, <1>7, <1>10, <2>1 DEF Writing
  <2>2. ASSUME NEW c \in 0..(job.wr - 1),
               /\ wm_fsm' = "W_BURST" /\ wm_write' = TRUE
               /\ wm_burstcount' = job.wr /\ wm_word_cnt' = c
               /\ wm_address' = job.dst + Bytes - r /\ r > 0
               /\ r = Bytes - 4 * (Len(written) + Beat(in) - c)
               /\ job.wr - c <= used - Beat(in)
        PROVE  Writing(v)'
    <3>1. job.wr - c <= v
      <4>1. PICK n \in Nat, b \in 0..1 : n = job.wr /\ b = Beat(in)
        BY <1>1, <1>2
      <4>2. n - c <= used - b /\ used - b <= v /\ c \in Nat
        <5>1. job.wr - c <= used - Beat(in) /\ v >= used - Beat(in) /\ c \in 0..(n - 1)
          BY <1>10, <2>2, <4>1
        <5>2. n - c <= used - b /\ v >= used - b
          BY <4>1, <5>1
        <5> QED
          BY <1>10, <4>1, <5>1, <5>2
      <4>3. PICK d \in Int, q \in Int : d = n - c /\ q = used - b
        BY <4>1, <4>2
      <4>4. d <= q /\ q <= v
        BY <4>2, <4>3
      <4>5. d <= v
        BY <1>10, <4>3, <4>4
      <4> QED
        BY <4>1, <4>3, <4>5
    <3>2. remaining_len' = Bytes' - 4 * (Len(written') - wm_word_cnt')
      <4>1. PICK b \in Nat : b = Beat(in)
        BY <1>2
      <4>2. c \in Nat
        BY <1>1, <2>2
      <4>3. Len(written') = L + b /\ wm_word_cnt' = c
        BY <1>5, <2>2, <4>1
      <4>4. r = Bytes - 4 * (L + b - c)
        BY <1>4, <2>2, <4>1, Zenon
      <4>5. Bytes' - 4 * (Len(written') - wm_word_cnt') = Bytes - 4 * (L + b - c)
        BY <1>7, <4>2, <4>3
      <4> QED
        BY <1>10, <4>4, <4>5, Zenon
    <3> QED
      BY <1>7, <1>10, <2>2, <3>1, <3>2 DEF Writing
  <2> QED
    BY <1>10, <2>1, <2>2
<1> QED
  BY <1>2, <1>3, <1>4, <1>5, <1>8, <1>9, <1>10

(* When all is written, nothing of the transfer is left anywhere.          *)
LEMMA NothingLeft ==
  ASSUME owed' \in Seq(Int), Len(written') \in Nat,
         NEW v \in Nat, Reading(v)', NEW m \in Nat, m >= Len(written'),
         Accounted(m)', AllWritten'
  PROVE  /\ m = Len(written')
         /\ rm_state' = "WAIT_FIFO" /\ ~rm_read' /\ read_remaining_len' = 0
         /\ owed' = <<>> /\ pending_reads' = 0
<1>1. /\ Len(owed') \in Nat /\ read_remaining_len' \in Nat
      /\ pending_reads' = Len(owed')
      /\ read_remaining_len' + 4 * (Len(owed') + m) = Bytes'
      /\ 4 * Len(written') = Bytes'
  BY LenProperties DEF Reading, Accounted, AllWritten
<1>2. PICK o \in Nat, r \in Nat, n \in Nat :
        o = Len(owed') /\ r = read_remaining_len' /\ n = Len(written')
  BY <1>1
<1>3. r + 4 * (o + m) = 4 * n /\ m >= n
  BY <1>1, <1>2
<1>4. r = 0 /\ o = 0 /\ m = n
  BY <1>3
<1>5. owed' = <<>>
  BY <1>2, <1>4, EmptySeq
<1> QED
  BY <1>1, <1>2, <1>4, <1>5 DEF Reading

(* An engine at rest that is not started stays at rest.                    *)
LEMMA RestMoves ==
  ASSUME MastersRest, ~ctrl_start, NEW in \in EngineInputs,
         NEW u, ReadMaster(u, in), NEW v, WriteMaster(v, in), NEW x, MemoryPorts(in, x)
  PROVE  /\ ~in.rm_readdatavalid /\ ~fifo_rd_en(in)
         /\ MastersRest' /\ UNCHANGED <<owed, written>>
<1>1. /\ rm_state = "IDLE" /\ ~rm_read
      /\ wm_fsm = "W_IDLE" /\ ~wm_write /\ internal_done_pulse = FALSE
      /\ owed = <<>> /\ pending_reads = 0
  BY DEF MastersRest
<1>2. ~in.rm_readdatavalid
  BY <1>1 DEF MemoryPorts
<1>3. rm_state' = "IDLE" /\ rm_read' = rm_read
  BY <1>1 DEF ReadMaster, ReadIdle, ReadStart, ReadCommand, ReadWait, ReadAccepted, ReadHeld
<1>4. pending_reads' = 0
  BY <1>1, <1>2 DEF ReadMaster, CountPending, ReadAccepted
<1>5. wm_fsm' = "W_IDLE" /\ wm_write' = FALSE /\ internal_done_pulse' = FALSE
  BY <1>1 DEF WriteMaster, WriteIdle, WriteStart, WriteDone, WriteCommand, WriteWait,
              WriteLast, WriteBeat, WriteHeld
<1>6. ~fifo_rd_en(in)
  BY <1>1 DEF fifo_rd_en
<1>7. owed' = <<>> /\ written' = written
  <2>1. owed' = <<>> \o <<>>
    BY <1>1, <1>2 DEF MemoryPorts
  <2>2. <<>> \o <<>> = <<>>
    BY EmptySeq, ConcatEmptySeq
  <2>3. written' = written
    BY <1>1 DEF MemoryPorts
  <2> QED
    BY <2>1, <2>2, <2>3
<1> QED
  BY <1>1, <1>2, <1>3, <1>4, <1>5, <1>6, <1>7 DEF MastersRest

(* A start at rest begins with all bytes still to be commanded.            *)
LEMMA StartMoves ==
  ASSUME SoftType, MastersRest, ctrl_start, Params, UNCHANGED job, NEW in \in EngineInputs,
         NEW u, ReadMaster(u, in), NEW v, WriteMaster(v, in), NEW x, MemoryPorts(in, x)
  PROVE  /\ ~in.rm_readdatavalid /\ ~fifo_rd_en(in)
         /\ internal_done_pulse' = FALSE /\ owed' = <<>> /\ written' = <<>>
         /\ Reading(0)' /\ Writing(0)' /\ Accounted(0)' /\ OwedFrom(0)'
         /\ \A E : Stored(E)'
<1>1. /\ rm_state = "IDLE" /\ ~rm_read
      /\ wm_fsm = "W_IDLE" /\ ~wm_write /\ internal_done_pulse = FALSE
      /\ owed = <<>> /\ pending_reads = 0
  BY DEF MastersRest
<1>2. /\ Bytes \in Nat /\ FIFO_DEPTH \in Nat
      /\ Whole(Bytes, 4 * job.rd) /\ Whole(Bytes, 4 * job.wr)
      /\ job.src \in Nat /\ job.dst \in Nat
  BY Sizes
<1>3. ctrl_src_addr = job.src /\ ctrl_dst_addr = job.dst /\ ctrl_len = Bytes
  BY DEF Params, Has
<1>4. ~in.rm_readdatavalid
  BY <1>1 DEF MemoryPorts
<1>5. /\ rm_state' = "WAIT_FIFO" /\ rm_read' = rm_read
      /\ current_src_addr' = job.src /\ read_remaining_len' = Bytes
  BY <1>1, <1>3 DEF ReadMaster, ReadIdle, ReadStart, ReadCommand, ReadWait,
                    ReadAccepted, ReadHeld, NextState
<1>6. pending_reads' = 0
  BY <1>1, <1>4 DEF ReadMaster, CountPending, ReadAccepted
<1>7. /\ wm_fsm' = "W_WAIT_DATA" /\ wm_write' = FALSE /\ internal_done_pulse' = FALSE
      /\ current_dst_addr' = job.dst /\ remaining_len' = Bytes
  BY <1>1, <1>3 DEF WriteMaster, WriteIdle, WriteStart, WriteDone, WriteCommand,
                    WriteWait, WriteLast, WriteBeat, WriteHeld
<1>8. ~fifo_rd_en(in)
  BY <1>1 DEF fifo_rd_en
<1>9. owed' = <<>> /\ written' = <<>> /\ Len(owed') = 0 /\ Len(written') = 0
  <2>1. owed' = <<>> \o <<>>
    BY <1>1, <1>4 DEF MemoryPorts
  <2>2. <<>> \o <<>> = <<>> /\ Len(<<>>) = 0
    BY EmptySeq, ConcatEmptySeq
  <2>3. written' = <<>>
    BY DEF MemoryPorts
  <2> QED
    BY <2>1, <2>2, <2>3
<1>10. job' = job /\ Bytes' = Bytes
  BY DEF Bytes
<1>11. Reading(0)'
  BY <1>1, <1>2, <1>5, <1>6, <1>9, <1>10 DEF Reading
<1>12. Writing(0)'
  BY <1>2, <1>7, <1>9, <1>10 DEF Writing
<1>13. Accounted(0)' /\ OwedFrom(0)'
  BY <1>2, <1>5, <1>9, <1>10 DEF Accounted, OwedFrom
<1>14. \A E : Stored(E)'
  BY <1>9 DEF Stored
<1> QED
  BY <1>4, <1>7, <1>8, <1>9, <1>11, <1>12, <1>13, <1>14

(* At the edge of the done pulse both masters go to rest.                  *)
LEMMA FinishMoves ==
  ASSUME MastersFinish, ~ctrl_start, NEW in \in EngineInputs,
         NEW u, ReadMaster(u, in), NEW v, WriteMaster(v, in), NEW x, MemoryPorts(in, x)
  PROVE  /\ ~in.rm_readdatavalid /\ ~fifo_rd_en(in)
         /\ MastersRest' /\ UNCHANGED <<owed, written>>
<1>1. /\ internal_done_pulse = TRUE
      /\ wm_fsm = "W_IDLE" /\ ~wm_write
      /\ rm_state = "WAIT_FIFO" /\ ~rm_read /\ read_remaining_len = 0
      /\ owed = <<>> /\ pending_reads = 0
  BY DEF MastersFinish
<1>2. ~in.rm_readdatavalid
  BY <1>1 DEF MemoryPorts
<1>3. rm_state' = "IDLE" /\ rm_read' = rm_read
  BY <1>1 DEF ReadMaster, ReadIdle, ReadStart, ReadCommand, ReadWait,
              ReadAccepted, ReadHeld, NextState
<1>4. pending_reads' = 0
  BY <1>1, <1>2 DEF ReadMaster, CountPending
<1>5. wm_fsm' = "W_IDLE" /\ wm_write' = FALSE /\ internal_done_pulse' = FALSE
  BY <1>1 DEF WriteMaster, WriteIdle, WriteStart, WriteDone, WriteCommand, WriteWait,
              WriteLast, WriteBeat, WriteHeld
<1>6. ~fifo_rd_en(in)
  BY <1>1 DEF fifo_rd_en
<1>7. owed' = <<>> /\ written' = written
  <2>1. owed' = <<>> \o <<>>
    BY <1>1, <1>2 DEF MemoryPorts
  <2>2. <<>> \o <<>> = <<>>
    BY EmptySeq, ConcatEmptySeq
  <2>3. written' = written
    BY <1>1 DEF MemoryPorts
  <2> QED
    BY <2>1, <2>2, <2>3
<1> QED
  BY <1>1, <1>2, <1>3, <1>4, <1>5, <1>6, <1>7 DEF MastersRest
(* The edges of a transfer: at rest, at the start, at work, at the end.    *)

(* An engine at rest that is not started stays at rest, and nothing moves. *)
LEMMA RestEdge ==
  ASSUME AtRest, ~ctrl_start, NEW w, NEW in \in EngineInputs, CopyEdge(w, in)
  PROVE  AtRest' /\ UNCHANGED <<mem, wr_ptr, rd_ptr, used_w, owed, written>>
<1>1. MastersRest /\ used_w = 0
  BY DEF AtRest
<1>2. /\ ReadMaster(used_w, in) /\ WriteMaster(used_w, in) /\ MemoryPorts(in, Fifo!rd_data)
      /\ Fifo!FifoEdge(in.rm_readdatavalid,
                       IF in.rm_readdatavalid THEN Head(owed) ELSE -1, fifo_rd_en(in))
  BY DEF CopyEdge
<1>3. PICK u, x : u = used_w /\ x = Fifo!rd_data
  OBVIOUS
<1>4. ReadMaster(u, in) /\ WriteMaster(u, in) /\ MemoryPorts(in, x)
  BY <1>2, <1>3
<1>5. /\ ~in.rm_readdatavalid /\ ~fifo_rd_en(in)
      /\ MastersRest' /\ UNCHANGED <<owed, written>>
  BY <1>1, <1>4, RestMoves
<1>6. UNCHANGED <<mem, wr_ptr, rd_ptr, used_w>>
  BY <1>1, <1>2, <1>5 DEF Fifo!FifoEdge
<1> QED
  BY <1>1, <1>5, <1>6 DEF AtRest

(* A start at rest begins with all bytes still to be commanded.            *)
LEMMA StartEdge ==
  ASSUME CopyType, AtRest, ctrl_start, Params, UNCHANGED job,
         NEW w, NEW in \in EngineInputs, CopyEdge(w, in)
  PROVE  InOrder' /\ Working' /\ FlowType'
<1>1. SoftType /\ FlowType /\ MastersRest /\ used_w = 0
  BY DEF CopyType, AtRest
<1>2. /\ ReadMaster(used_w, in) /\ WriteMaster(used_w, in) /\ MemoryPorts(in, Fifo!rd_data)
      /\ Fifo!FifoEdge(in.rm_readdatavalid,
                       IF in.rm_readdatavalid THEN Head(owed) ELSE -1, fifo_rd_en(in))
  BY DEF CopyEdge
<1>3. PICK u, x : u = used_w /\ x = Fifo!rd_data
  OBVIOUS
<1>4. ReadMaster(u, in) /\ WriteMaster(u, in) /\ MemoryPorts(in, x)
  BY <1>2, <1>3
<1>5. /\ ~in.rm_readdatavalid /\ ~fifo_rd_en(in)
      /\ internal_done_pulse' = FALSE /\ owed' = <<>> /\ written' = <<>>
      /\ Reading(0)' /\ Writing(0)' /\ Accounted(0)' /\ OwedFrom(0)'
      /\ \A E : Stored(E)'
  BY <1>1, <1>4, StartMoves
<1>6. mem' = mem /\ wr_ptr' = wr_ptr /\ rd_ptr' = rd_ptr /\ used_w' = 0
  BY <1>1, <1>2, <1>5 DEF Fifo!FifoEdge
<1>7. Len(written') = 0 /\ owed' \in Seq(Int) /\ written' \in Seq(Int \X Int)
  BY <1>5, EmptySeq
<1>8. FlowType'
  BY <1>1, <1>6, <1>7 DEF FlowType, Ring
<1>9. InOrder'
  <2>1. Stored(Source)'
    BY <1>5, <1>7 DEF Stored
  <2>2. Holds(mem, rd_ptr, used_w, Source, Len(written))'
    BY <1>6 DEF Holds
  <2>3. OwedFrom(Len(written) + used_w)'
    BY <1>5, <1>6, <1>7
  <2> QED
    BY <2>1, <2>2, <2>3 DEF InOrder
<1>10. Working'
  BY <1>5, <1>6, <1>7 DEF Working
<1> QED
  BY <1>8, <1>9, <1>10

(* An edge at work goes on, or raises the done pulse when all is written.  *)
LEMMA WorkEdge ==
  ASSUME CopyType, InOrder, Working, ~ctrl_start, Params, UNCHANGED job,
         NEW w, NEW in \in EngineInputs, CopyEdge(w, in)
  PROVE  InOrder' /\ (Working' \/ Finishing') /\ FlowType'
<1>1. /\ internal_done_pulse = FALSE /\ Reading(used_w) /\ Writing(used_w)
      /\ ReadMaster(used_w, in) /\ WriteMaster(used_w, in) /\ MemoryPorts(in, Fifo!rd_data)
      /\ Fifo!FifoEdge(in.rm_readdatavalid,
                       IF in.rm_readdatavalid THEN Head(owed) ELSE -1, fifo_rd_en(in))
  BY DEF Working, CopyEdge
<1>2. /\ SoftType /\ owed \in Seq(Int) /\ written \in Seq(Int \X Int)
      /\ Ring(mem, wr_ptr, rd_ptr, used_w, Int)
  BY DEF CopyType, FlowType
<1>3. job.src \in Nat /\ FIFO_DEPTH \in Nat
  BY <1>2, Sizes
<1>4. PICK u \in Nat, L \in Nat : u = used_w /\ L = Len(written) /\ u <= FIFO_DEPTH
  <2>1. used_w \in 0..FIFO_DEPTH
    BY <1>2 DEF Ring
  <2>2. Len(written) \in Nat
    BY <1>2, LenProperties
  <2> QED
    BY <1>3, <2>1, <2>2
<1>5. PICK n \in Nat : n = L + u
  BY <1>4
<1>6. Reading(u) /\ Writing(u) /\ Accounted(n) /\ OwedFrom(n)
  <2>1. Accounted(Len(written) + used_w) /\ OwedFrom(Len(written) + used_w)
    BY DEF Working, InOrder
  <2> QED
    BY <1>1, <1>4, <1>5, <2>1, Zenon
<1>7. PICK E : E = Source
  OBVIOUS
<1>8. PICK d : d = Fifo!rd_data
  OBVIOUS
<1>9. ReadMaster(u, in) /\ WriteMaster(u, in) /\ MemoryPorts(in, d)
  BY <1>1, <1>4, <1>8
<1>10. /\ Gets(in) \in 0..1 /\ (in.rm_readdatavalid <=> Gets(in) = 1)
       /\ in.rm_readdatavalid =>
            owed # <<>> /\ Head(owed) = job.src + 4 * n /\ u < FIFO_DEPTH
       /\ owed' \in Seq(Int)
       /\ \A m \in Nat : m = n + Gets(in) => Accounted(m)' /\ OwedFrom(m)'
       /\ \A v \in Nat : v <= u + Gets(in) => Reading(v)'
  BY <1>1, <1>2, <1>6, <1>9, Delivery
<1>11. (fifo_rd_en(in) => u > 0) /\ fifo_rd_en(in) \in BOOLEAN
  BY <1>2, <1>6, <1>9, WriteStep DEF fifo_rd_en
<1>12. PICK x \in Int : x = IF in.rm_readdatavalid THEN Head(owed) ELSE -1
  <2>1. CASE in.rm_readdatavalid
    <3>1. job.src + 4 * n \in Int
      BY <1>3, <1>5
    <3>2. Head(owed) \in Int
      BY <1>10, <2>1, <3>1
    <3> QED
      BY <2>1, <3>2
  <2>2. CASE ~in.rm_readdatavalid
    BY <2>2
  <2> QED
    BY <2>1, <2>2
<1>13. in.rm_readdatavalid => u < FIFO_DEPTH /\ x = E[L + u]
  BY <1>3, <1>5, <1>7, <1>10, <1>12 DEF Source
<1>14. PICK m2, q2, p2, u2 : m2 = mem' /\ q2 = wr_ptr' /\ p2 = rd_ptr' /\ u2 = used_w'
  OBVIOUS
<1>15. PICK wr \in BOOLEAN, rd \in BOOLEAN : wr = in.rm_readdatavalid /\ rd = fifo_rd_en(in)
  BY <1>11 DEF EngineInputs
<1>16. RingStep(mem, wr_ptr, rd_ptr, u, wr, x, rd, m2, q2, p2, u2)
  <2>1. Fifo!FifoEdge(wr, x, rd)
    BY <1>1, <1>12, <1>15
  <2>2. (wr /\ ~Fifo!full <=> wr) /\ (rd /\ ~Fifo!empty <=> rd)
    BY <1>4, <1>11, <1>13, <1>15 DEF Fifo!full, Fifo!empty
  <2> QED
    BY <1>4, <1>14, <2>1, <2>2 DEF RingStep, Fifo!FifoEdge, Fifo!Successor, Next, One
<1>17. /\ Ring(m2, q2, p2, u2, Int)
       /\ Holds(m2, p2, u2, E, L + One(rd))
       /\ rd => mem[rd_ptr] = E[L]
  <2>1. Ring(mem, wr_ptr, rd_ptr, u, Int) /\ Holds(mem, rd_ptr, u, E, L)
    BY <1>2, <1>4, <1>7 DEF InOrder
  <2>2. Orderly(E, L, u, wr, x, rd)
    BY <1>11, <1>13, <1>15 DEF Orderly
  <2>3. L \in Nat /\ x \in Int
    BY <1>4, <1>12
  <2> QED
    BY <1>16, <2>1, <2>2, <2>3, RingMoves
<1>18. /\ Beat(in) \in 0..1 /\ (fifo_rd_en(in) <=> Beat(in) = 1)
       /\ written' \in Seq(Int \X Int) /\ Len(written') = Len(written) + Beat(in)
       /\ Stored(E)'
       /\ \/ /\ wm_fsm' = "W_IDLE" /\ wm_write' = FALSE /\ internal_done_pulse' = TRUE
             /\ AllWritten'
          \/ /\ internal_done_pulse' = FALSE
             /\ \A v \in Nat : v >= u - Beat(in) => Writing(v)'
  <2>1. d \in Int
    BY <1>2, <1>8 DEF Ring, Fifo!rd_data
  <2>2. fifo_rd_en(in) => d = E[Len(written)]
    BY <1>4, <1>8, <1>15, <1>17 DEF Fifo!rd_data
  <2>3. Stored(E)
    BY <1>7 DEF InOrder
  <2> QED
    BY <1>2, <1>6, <1>9, <2>1, <2>2, <2>3, Storing
<1>19. PICK g \in 0..1, b \in 0..1 : g = Gets(in) /\ b = Beat(in)
  BY <1>10, <1>18
<1>20. /\ u2 = u + g - b /\ Len(written') = L + b /\ One(rd) = b
       /\ u2 \in Nat /\ L + b + u2 = n + g /\ u2 <= u + g /\ u2 >= u - b
  <2>1. One(wr) = g /\ One(rd) = b
    BY <1>15, <1>19 DEF Gets, Beat
  <2>2. u2 = u + g - b
    BY <1>16, <2>1 DEF RingStep
  <2>3. u2 \in Nat
    BY <1>3, <1>17 DEF Ring
  <2>4. Len(written') = L + b
    BY <1>4, <1>18, <1>19
  <2>5. u \in Nat /\ L \in Nat /\ n = L + u
    BY <1>4, <1>5
  <2>6. L + b + u2 = n + g /\ u2 <= u + g /\ u2 >= u - b
    <3>1. g \in 0..1 /\ b \in 0..1
      BY <1>19
    <3> QED
      BY <2>2, <2>5, <3>1
  <2> QED
    BY <2>1, <2>2, <2>3, <2>4, <2>6
<1>21. PICK k \in Nat : k = n + g /\ k = Len(written') + u2 /\ k >= Len(written')
  BY <1>4, <1>20
<1>22. FlowType'
  BY <1>10, <1>14, <1>17, <1>18 DEF FlowType
<1>23. Accounted(k)' /\ OwedFrom(k)' /\ Reading(u2)'
  <2>1. Accounted(k)' /\ OwedFrom(k)'
    BY <1>10, <1>19, <1>21
  <2> QED
    BY <1>10, <1>19, <1>20, <2>1, Zenon
<1>24. InOrder'
  <2>1. Source' = E
    BY <1>7 DEF Source
  <2>2. Holds(mem', rd_ptr', used_w', E, Len(written'))
    BY <1>14, <1>17, <1>20
  <2>3. OwedFrom(Len(written) + used_w)'
    BY <1>14, <1>21, <1>23
  <2>4. Stored(Source)'
    BY <1>18, <2>1 DEF Stored
  <2> QED
    BY <2>1, <2>2, <2>3, <2>4 DEF InOrder, Holds
<1>25. CASE internal_done_pulse' = FALSE /\ \A v \in Nat : v >= u - Beat(in) => Writing(v)'
  <2>1. Writing(u2)'
    BY <1>19, <1>20, <1>25, Zenon
  <2>2. Working'
    BY <1>14, <1>21, <1>23, <1>25, <2>1 DEF Working
  <2> QED
    BY <1>22, <1>24, <2>2
<1>26. CASE /\ wm_fsm' = "W_IDLE" /\ wm_write' = FALSE /\ internal_done_pulse' = TRUE
            /\ AllWritten'
  <2>1. Len(written') \in Nat
    BY <1>20
  <2>2. /\ k = Len(written')
        /\ rm_state' = "WAIT_FIFO" /\ ~rm_read' /\ read_remaining_len' = 0
        /\ owed' = <<>> /\ pending_reads' = 0
    BY <1>10, <1>20, <1>21, <1>23, <1>26, <2>1, NothingLeft
  <2>3. used_w' = 0
    BY <1>14, <1>20, <1>21, <2>1, <2>2
  <2> QED
    BY <1>22, <1>24, <1>26, <2>2, <2>3 DEF Finishing, MastersFinish
<1> QED
  BY <1>18, <1>25, <1>26

(* At the edge of the done pulse both masters go to rest.                  *)
LEMMA FinishEdge ==
  ASSUME Finishing, ~ctrl_start, NEW w, NEW in \in EngineInputs, CopyEdge(w, in)
  PROVE  AtRest' /\ UNCHANGED <<mem, wr_ptr, rd_ptr, used_w, owed, written>>
<1>1. MastersFinish /\ used_w = 0
  BY DEF Finishing
<1>2. /\ ReadMaster(used_w, in) /\ WriteMaster(used_w, in) /\ MemoryPorts(in, Fifo!rd_data)
      /\ Fifo!FifoEdge(in.rm_readdatavalid,
                       IF in.rm_readdatavalid THEN Head(owed) ELSE -1, fifo_rd_en(in))
  BY DEF CopyEdge
<1>3. PICK u, x : u = used_w /\ x = Fifo!rd_data
  OBVIOUS
<1>4. ReadMaster(u, in) /\ WriteMaster(u, in) /\ MemoryPorts(in, x)
  BY <1>2, <1>3
<1>5. /\ ~in.rm_readdatavalid /\ ~fifo_rd_en(in)
      /\ MastersRest' /\ UNCHANGED <<owed, written>>
  BY <1>1, <1>4, FinishMoves
<1>6. UNCHANGED <<mem, wr_ptr, rd_ptr, used_w>>
  BY <1>1, <1>2, <1>5 DEF Fifo!FifoEdge
<1> QED
  BY <1>1, <1>5, <1>6 DEF AtRest
-----------------------------------------------------------------------------
(* The invariant.                                                          *)

(* It holds initially, and after a reset.                                 *)
LEMMA CopyInitially == CopyInit => CopyIInv
<1> SUFFICES ASSUME CopyInit PROVE CopyIInv
  OBVIOUS
<1>1. SoftType
  BY DEF CopyInit, EngineInit, TestInit, SoftType
<1>2. FlowType
  <2>1. FIFO_DEPTH \in Nat /\ FIFO_DEPTH > 0
    BY Constants
  <2>2. used_w = 0 /\ rd_ptr = 0 /\ wr_ptr = 0 /\ mem = [i \in 0..(FIFO_DEPTH - 1) |-> -1]
    BY DEF CopyInit, Fifo!FifoInit
  <2>3. owed = <<>> /\ written = <<>>
    BY DEF CopyInit, EngineInit
  <2>4. owed \in Seq(Int) /\ written \in Seq(Int \X Int)
    BY <2>3, EmptySeq
  <2>5. wr_ptr = Slot(rd_ptr + used_w)
    BY <2>1, <2>2 DEF Slot
  <2> QED
    BY <2>1, <2>2, <2>4, <2>5 DEF FlowType, Ring
<1>3. AtRest
  BY DEF CopyInit, EngineInit, Fifo!FifoInit, AtRest, MastersRest
<1>4. phase = "idle" /\ ~ctrl_start /\ ~ctrl_done_reg
  BY DEF CopyInit, EngineInit, TestInit
<1> QED
  BY <1>1, <1>2, <1>3, <1>4 DEF CopyIInv, CopyType, Setting, Transfer, UnderWay

(* The software never writes a register while a transfer is under way, so  *)
(* the edge of the engine alone decides what becomes of it.                *)
LEMMA CopyEdgeKeeps ==
  ASSUME CopyIInv, NEW w, NEW in \in EngineInputs, CopyEdge(w, in)
  PROVE  CopyIInv'
<1>1. CopyType /\ SoftType /\ FlowType /\ Setting /\ Transfer
  BY DEF CopyIInv, CopyType
<1>2. Software(w) /\ CsrBlock(w)
  BY DEF CopyEdge
<1>3. /\ job' \in Job /\ Setting'
      /\ phase' \in {"idle", "setting", "starting", "polling", "acking"}
      /\ ctrl_start' \in BOOLEAN /\ ctrl_done_reg' \in BOOLEAN
      /\ ctrl_rd_burst' \in {BURST_COUNT} \union {k.rd : k \in Job}
  BY <1>1, <1>2, SoftwareMoves
<1>4. /\ ctrl_start' <=> (phase = "starting" /\ phase' = "polling")
      /\ phase # "acking" => (ctrl_done_reg' <=> (ctrl_done_reg \/ internal_done_pulse))
      /\ phase \in {"idle", "setting"} => phase' \in {"idle", "setting", "starting"}
      /\ phase = "starting" => phase' \in {"starting", "polling"}
      /\ phase = "polling" =>
           /\ UNCHANGED job
           /\ phase' = "polling" \/ (phase' = "acking" /\ ctrl_done_reg)
      /\ phase = "acking" =>
           \/ phase' = "acking" /\ (ctrl_done_reg' <=> (ctrl_done_reg \/ internal_done_pulse))
           \/ phase' = "idle" /\ ~ctrl_done_reg'
  BY <1>1, <1>2, SoftwareMoves
<1>5. SoftType'
  BY <1>3 DEF SoftType
<1>6. SUFFICES FlowType' /\ Transfer'
  BY <1>3, <1>5 DEF CopyIInv, CopyType
<1>7. CASE ctrl_start
  <2>1. /\ AtRest /\ phase = "polling" /\ ~ctrl_done_reg /\ Params
        /\ internal_done_pulse = FALSE
    BY <1>1, <1>7 DEF Transfer, UnderWay, Setting, AtRest, MastersRest
  <2>2. UNCHANGED job /\ phase' = "polling" /\ ~ctrl_start' /\ ~ctrl_done_reg'
    BY <1>4, <2>1
  <2>3. InOrder' /\ Working' /\ FlowType'
    BY <1>1, <1>7, <2>1, <2>2, StartEdge
  <2> QED
    BY <2>2, <2>3 DEF Transfer, UnderWay
<1>8. CASE ~ctrl_start /\ phase = "polling"
  <2>1. /\ UnderWay /\ InOrder /\ Params
        /\ IF ctrl_done_reg THEN AtRest /\ AllWritten ELSE Working \/ Finishing
    BY <1>1, <1>8 DEF Transfer, UnderWay, Setting
  <2>2. /\ UNCHANGED job /\ ~ctrl_start'
        /\ phase' = "polling" \/ (phase' = "acking" /\ ctrl_done_reg)
        /\ ctrl_done_reg' <=> (ctrl_done_reg \/ internal_done_pulse)
    BY <1>4, <1>8
  <2>3. CASE ctrl_done_reg
    <3>1. AtRest' /\ UNCHANGED <<mem, wr_ptr, rd_ptr, used_w, owed, written>>
      BY <1>8, <2>1, <2>3, RestEdge
    <3>2. FlowType' /\ InOrder' /\ AllWritten'
      BY <1>1, <2>1, <2>2, <2>3, <3>1 DEF FlowType, InOrder, Stored, Source, Holds, OwedFrom, AllWritten, Bytes
    <3>3. ctrl_done_reg'
      BY <2>2, <2>3
    <3> QED
      BY <2>2, <3>1, <3>2, <3>3 DEF Transfer, UnderWay
  <2>4. CASE ~ctrl_done_reg /\ Working
    <3>1. InOrder' /\ (Working' \/ Finishing') /\ FlowType'
      BY <1>1, <1>8, <2>1, <2>2, <2>4, WorkEdge
    <3>2. phase' = "polling" /\ ~ctrl_done_reg'
      BY <2>2, <2>4 DEF Working
    <3> QED
      BY <2>2, <3>1, <3>2 DEF Transfer, UnderWay
  <2>5. CASE ~ctrl_done_reg /\ Finishing
    <3>1. AtRest' /\ UNCHANGED <<mem, wr_ptr, rd_ptr, used_w, owed, written>>
      BY <1>8, <2>5, FinishEdge
    <3>2. AllWritten
      BY <2>5 DEF Finishing, MastersFinish
    <3>3. FlowType' /\ InOrder' /\ AllWritten'
      BY <1>1, <2>1, <2>2, <3>1, <3>2 DEF FlowType, InOrder, Stored, Source, Holds, OwedFrom, AllWritten, Bytes
    <3>4. phase' = "polling" /\ ctrl_done_reg'
      BY <2>2, <2>5 DEF Finishing, MastersFinish
    <3> QED
      BY <2>2, <3>1, <3>3, <3>4 DEF Transfer, UnderWay
  <2> QED
    BY <2>1, <2>3, <2>4, <2>5
<1>9. CASE ~ctrl_start /\ phase # "polling"
  <2>1. AtRest /\ internal_done_pulse = FALSE /\ (phase = "acking" <=> ctrl_done_reg)
    BY <1>1, <1>9 DEF Transfer, UnderWay, AtRest, MastersRest
  <2>2. AtRest' /\ UNCHANGED <<mem, wr_ptr, rd_ptr, used_w, owed, written>>
    BY <1>9, <2>1, RestEdge
  <2>3. FlowType'
    BY <1>1, <2>2 DEF FlowType
  <2>4. /\ phase' = "polling" => ctrl_start'
        /\ ctrl_start' => phase' = "polling"
        /\ phase' = "acking" <=> ctrl_done_reg'
    BY <1>1, <1>4, <1>9, <2>1 DEF SoftType
  <2> QED
    BY <2>2, <2>3, <2>4 DEF Transfer, UnderWay
<1> QED
  BY <1>7, <1>8, <1>9

(* A reset leaves everything at rest.                                      *)
LEMMA CopyResetKeeps ==
  ASSUME CopyIInv, CopyReset
  PROVE  CopyIInv'
<1>1. SoftType'
  BY DEF CopyIInv, CopyType, SoftType, CopyReset, EngineReset, TestReset
<1>2. FlowType'
  <2>1. FIFO_DEPTH \in Nat /\ FIFO_DEPTH > 0
    BY Constants
  <2>2. used_w' = 0 /\ rd_ptr' = 0 /\ wr_ptr' = 0 /\ mem' = mem
    BY DEF CopyReset, Fifo!FifoReset
  <2>3. owed' = <<>> /\ written' = <<>>
    BY DEF CopyReset, EngineReset
  <2>4. owed' \in Seq(Int) /\ written' \in Seq(Int \X Int)
    BY <2>3, EmptySeq
  <2>5. wr_ptr' = Slot(rd_ptr' + used_w')
    BY <2>1, <2>2 DEF Slot
  <2> QED
    BY <2>1, <2>2, <2>4, <2>5 DEF CopyIInv, CopyType, FlowType, Ring
<1>3. AtRest'
  BY DEF CopyReset, EngineReset, Fifo!FifoReset, AtRest, MastersRest
<1>4. phase' = "idle" /\ ~ctrl_start' /\ ~ctrl_done_reg'
  BY DEF CopyReset, EngineReset, TestReset
<1> QED
  BY <1>1, <1>2, <1>3, <1>4 DEF CopyIInv, CopyType, Setting, Transfer, UnderWay

(* The state of a transfer, at every edge: all its bytes are accounted for *)
(* and in order while it runs, and the engine is at rest when it does not. *)
THEOREM CopyInvariant == CopySpec => []CopyIInv
<1>1. CopyInit => CopyIInv
  BY CopyInitially
<1>2. CopyIInv /\ [CopyNext]_copyVars => CopyIInv'
  <2> SUFFICES ASSUME CopyIInv, [CopyNext]_copyVars PROVE CopyIInv'
    OBVIOUS
  <2>1. CASE CopyReset
    BY <2>1, CopyResetKeeps
  <2>2. ASSUME NEW w \in Writes, NEW in \in EngineInputs, CopyEdge(w, in)
        PROVE  CopyIInv'
    BY <2>2, CopyEdgeKeeps
  <2>3. CASE UNCHANGED copyVars
    <3> USE <2>3 DEF copyVars, engineVars, csrRegs, readRegs, writeRegs, testVars
    <3>1. CopyType' /\ Setting'
      BY DEF CopyIInv, CopyType, SoftType, FlowType, Setting, SetUpTo, Params, Has, Bytes
    <3>2. AtRest' = AtRest /\ InOrder' = InOrder /\ AllWritten' = AllWritten
      BY DEF AtRest, MastersRest, InOrder, Stored, Source, Holds, OwedFrom, AllWritten, Bytes
    <3>3. Working' = Working /\ Finishing' = Finishing /\ UnderWay' = UnderWay
      BY DEF Working, Finishing, MastersFinish, AllWritten, Reading, Writing, Accounted, Bytes, UnderWay
    <3> QED
      BY <3>1, <3>2, <3>3 DEF CopyIInv, Transfer
  <2> QED
    BY <2>1, <2>2, <2>3 DEF CopyNext
<1> QED
  BY <1>1, <1>2, PTL DEF CopySpec

(* burst_master.v line 277 keeps its promise: the words stored, owed and   *)
(* being commanded fit the FIFO, for every depth and every burst length.   *)
THEOREM CopyCreditHolds == CopySpec => []CreditHolds
<1>1. CopyIInv => CreditHolds
  <2> SUFFICES ASSUME CopyIInv PROVE CreditHolds
    OBVIOUS
  <2>1. CopyType /\ Transfer
    BY DEF CopyIInv
  <2>2. used_w \in Nat /\ Len(owed) \in Nat /\ FIFO_DEPTH \in Nat
    BY <2>1, Sizes, LenProperties DEF CopyType, FlowType, Ring
  <2>3. CASE Working
    BY <2>2, <2>3 DEF Working, Reading, CreditHolds
  <2>4. CASE AtRest \/ Finishing
    <3>1. used_w = 0 /\ owed = <<>> /\ pending_reads = 0 /\ rm_state # "READ"
      BY <2>4 DEF AtRest, Finishing, MastersRest, MastersFinish
    <3>2. Len(owed) = 0
      BY <3>1, EmptySeq
    <3> QED
      BY <2>2, <3>1, <3>2 DEF CreditHolds
  <2> QED
    BY <2>1, <2>3, <2>4 DEF Transfer
<1> QED
  BY <1>1, CopyInvariant, PTL

(* A transfer copies its source to its destination, each word once and in  *)
(* order, and its done bit comes up after the last of them, whatever the   *)
(* lengths of the two bursts, the latencies and the back-pressure.         *)
THEOREM CopyCopyExact == CopySpec => []CopyExact
<1>1. CopyIInv => CopyExact
  <2> SUFFICES ASSUME CopyIInv PROVE CopyExact
    OBVIOUS
  <2>1. CopyType /\ Transfer
    BY DEF CopyIInv
  <2>2. Len(written) \in Nat /\ Bytes \in Nat /\ DOMAIN written = 1..Len(written)
    <3>1. written \in Seq(Int \X Int)
      BY <2>1 DEF CopyType, FlowType
    <3> QED
      BY <2>1, <3>1, Sizes, LenProperties DEF CopyType
  <2>3. UnderWay => \A i \in DOMAIN written :
          written[i] = <<job.dst + 4 * (i - 1), job.src + 4 * (i - 1)>>
    <3> SUFFICES ASSUME UnderWay, NEW i \in 1..Len(written)
                 PROVE  written[i] = <<job.dst + 4 * (i - 1), job.src + 4 * (i - 1)>>
      BY <2>2
    <3>1. Stored(Source)
      BY <2>1 DEF Transfer, InOrder
    <3>2. i - 1 \in Nat
      BY <2>2
    <3>3. Source[i - 1] = job.src + 4 * (i - 1)
      BY <3>2 DEF Source
    <3> QED
      BY <3>1, <3>3 DEF Stored
  <2>4. ASSUME UnderWay, ctrl_done_reg
        PROVE  Len(written) = WordsOfJob
    <3>1. 4 * Len(written) = Bytes
      BY <2>1, <2>4 DEF Transfer, AllWritten
    <3>2. Bytes \div 4 = Len(written)
      <4>1. PICK W \in Nat : W = Len(written)
        BY <2>2
      <4>2. PICK B \in Nat : B = Bytes
        BY <2>2
      <4>3. B = 4 * W
        BY <3>1, <4>1, <4>2
      <4>4. B \div 4 = W
        BY <4>1, <4>2, <4>3, SMTT(20)
      <4> QED
        BY <4>1, <4>2, <4>4
    <3> QED
      BY <3>2 DEF WordsOfJob, Bytes
  <2>5. wm_write => UnderWay /\ ~ctrl_done_reg
    BY <2>1 DEF Transfer, AtRest, MastersRest
  <2> QED
    BY <2>3, <2>4, <2>5 DEF CopyExact
<1> QED
  BY <1>1, CopyInvariant, PTL

(* A start finds both masters at rest and nothing on its way.              *)
THEOREM CopyStartTaken == CopySpec => []StartTaken
<1>1. CopyIInv => StartTaken
  BY DEF CopyIInv, Transfer, UnderWay, AtRest, MastersRest, StartTaken
<1> QED
  BY <1>1, CopyInvariant, PTL
=============================================================================
