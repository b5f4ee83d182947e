----------------------------- MODULE FifoProofs -----------------------------
(***************************************************************************)
(* Proofs about DcFifo, for every address width from 2 up and any words:   *)
(* the gray-pointer FIFO is a bounded queue whose two sides err on the     *)
(* safe side only (it implements StaleFifo), its ports are those of the    *)
(* queue, and no slot of the RAM is written while it is read.              *)
(*                                                                         *)
(* First come the facts about the codes: a pointer is determined by its    *)
(* bits, gray2bin undoes bin2gray, the codes of neighbours differ in one   *)
(* bit (so that a capture of a changing pointer is its old or its new      *)
(* value), and inverting the two top bits of a code is going half way      *)
(* round the ring.  Then the invariant: every gray register holds the code *)
(* of a pointer (Coded), and going round the ring the pointers come in the *)
(* order of the news (InTurn), with no more than one memory between the    *)
(* oldest news of the reads and the writes.  Last, the refinement.         *)
(***************************************************************************)
EXTENDS DcFifo, FiniteSetTheorems, FunctionTheorems, SequenceTheorems, WellFoundedInduction, TLAPS

SeenRead(k)  == gray2bin(rd_sync[k])
SeenWrite(k) == gray2bin(wr_sync[k])

FifoType ==
  /\ wr_ptr_bin \in Ptr /\ rd_ptr_bin \in Ptr
  /\ mem \in [0..(Depth - 1) -> Word] /\ q \in Word

(* Every gray register holds the code of a pointer.                        *)
Coded ==
  /\ wr_ptr_gray = bin2gray(wr_ptr_bin) /\ rd_ptr_gray = bin2gray(rd_ptr_bin)
  /\ rd_sync = <<bin2gray(SeenRead(1)), bin2gray(SeenRead(2))>>
  /\ wr_sync = <<bin2gray(SeenWrite(1)), bin2gray(SeenWrite(2))>>
  /\ \A k \in {1, 2} : SeenRead(k) \in Ptr /\ SeenWrite(k) \in Ptr

(* Going round the ring: what the write side knows of the reads, the reads,*)
(* what the read side knows of the writes, the writes; never more than one *)
(* round.                                                                  *)
Turn(r2, r1, rd, w2, w1, wr) ==
  /\ Dist(r2, r1) + Dist(r1, rd) + Dist(rd, wr) <= Depth
  /\ Dist(rd, w2) + Dist(w2, w1) + Dist(w1, wr) = Dist(rd, wr)

InTurn == Turn(SeenRead(2), SeenRead(1), rd_ptr_bin, SeenWrite(2), SeenWrite(1), wr_ptr_bin)

FifoInv == FifoType /\ Coded /\ InTurn
-----------------------------------------------------------------------------
(* Powers of two, from the number of subsets of a finite set.              *)
LEMMA SubsetsDouble ==
  ASSUME NEW S, IsFiniteSet(S), NEW x, x \notin S
  PROVE  Cardinality(SUBSET (S \cup {x})) = 2 * Cardinality(SUBSET S)
<1> DEFINE with == {s \cup {x} : s \in SUBSET S}
           f == [s \in (SUBSET S) |-> s \cup {x}]
<1>1. IsFiniteSet(SUBSET S) /\ Cardinality(SUBSET S) \in Nat
  BY FS_SUBSET, FS_CardinalityType
<1>2. f \in Bijection(SUBSET S, with)
  <2>1. f \in [(SUBSET S) -> with]
    OBVIOUS
  <2>2. \A s, t \in SUBSET S : f[s] = f[t] => s = t
    <3> SUFFICES ASSUME NEW s \in SUBSET S, NEW t \in SUBSET S, s \cup {x} = t \cup {x}
                 PROVE  s = t
      OBVIOUS
    <3> QED
      OBVIOUS
  <2>3. \A u \in with : \E s \in SUBSET S : f[s] = u
    OBVIOUS
  <2> QED
    BY <2>1, <2>2, <2>3, Fun_IsBij
<1>3. IsFiniteSet(with) /\ Cardinality(with) = Cardinality(SUBSET S)
  BY <1>1, <1>2, FS_Bijection DEF ExistsBijection
<1>4. SUBSET (S \cup {x}) = (SUBSET S) \cup with
  <2>1. ASSUME NEW u \in SUBSET (S \cup {x}), x \in u PROVE u \in with
    <3>1. u \ {x} \in SUBSET S /\ u = (u \ {x}) \cup {x}
      BY <2>1
    <3> QED
      BY <3>1
  <2>2. \A u \in SUBSET (S \cup {x}) : x \notin u => u \in SUBSET S
    OBVIOUS
  <2>3. SUBSET S \subseteq SUBSET (S \cup {x}) /\ with \subseteq SUBSET (S \cup {x})
    OBVIOUS
  <2> HIDE DEF with
  <2> QED
    BY <2>1, <2>2, <2>3
<1>5. (SUBSET S) \cap with = {}
  OBVIOUS
<1>6. Cardinality({}) = 0
  BY FS_EmptySet
<1> HIDE DEF with
<1>7. Cardinality((SUBSET S) \cup with)
        = Cardinality(SUBSET S) + Cardinality(with) - Cardinality((SUBSET S) \cap with)
  BY <1>1, <1>3, FS_Union
<1>8. Cardinality(SUBSET (S \cup {x})) = Cardinality((SUBSET S) \cup with)
  BY <1>4, Zenon
<1>9. Cardinality((SUBSET S) \cap with) = 0
  BY <1>5, <1>6, Zenon
<1> QED
  BY <1>1, <1>3, <1>7, <1>8, <1>9

LEMMA Powers ==
  ASSUME NEW n \in Nat
  PROVE  2^n \in Nat /\ 2^n > 0 /\ 2^(n + 1) = 2 * 2^n
<1>1. IsFiniteSet(1..n) /\ Cardinality(1..n) = n
  BY FS_Interval
<1>2. IsFiniteSet(1..(n + 1)) /\ Cardinality(1..(n + 1)) = n + 1
  BY FS_Interval
<1>3. 2^n = Cardinality(SUBSET (1..n)) /\ 2^(n + 1) = Cardinality(SUBSET (1..(n + 1)))
  BY <1>1, <1>2, FS_SUBSET
<1>4. 1..(n + 1) = (1..n) \cup {n + 1} /\ n + 1 \notin 1..n
  OBVIOUS
<1>5. Cardinality(SUBSET (1..n)) \in Nat /\ Cardinality(SUBSET (1..n)) # 0
  <2>1. IsFiniteSet(SUBSET (1..n)) /\ {} \in SUBSET (1..n)
    BY <1>1, FS_SUBSET
  <2> QED
    BY <2>1, FS_CardinalityType, FS_EmptySet
<1>6. Cardinality(SUBSET ((1..n) \cup {n + 1})) = 2 * Cardinality(SUBSET (1..n))
  BY <1>1, <1>4, SubsetsDouble
<1>7. \A c \in Nat : c # 0 => c > 0
  OBVIOUS
<1> QED
  BY <1>3, <1>4, <1>5, <1>6, <1>7

LEMMA Sizes ==
  /\ ADDR_WIDTH \in Nat /\ ADDR_WIDTH >= 2
  /\ Depth \in Nat /\ Depth >= 2 /\ Depth > 0 /\ Depth = 2^ADDR_WIDTH
  /\ 2^(ADDR_WIDTH + 1) = 2 * Depth
<1>1. ADDR_WIDTH \in Nat /\ ADDR_WIDTH >= 2
  BY AddrWidthAssumption
<1>2. /\ Depth \in Nat /\ Depth > 0 /\ Depth = 2^ADDR_WIDTH
      /\ 2^(ADDR_WIDTH + 1) = 2 * Depth
  BY <1>1, Powers DEF Depth
<1>3. Depth >= 2
  <2>1. ADDR_WIDTH - 1 \in Nat /\ (ADDR_WIDTH - 1) + 1 = ADDR_WIDTH
    BY <1>1
  <2>2. /\ 2^(ADDR_WIDTH - 1) \in Nat /\ 2^(ADDR_WIDTH - 1) > 0
        /\ 2^((ADDR_WIDTH - 1) + 1) = 2 * 2^(ADDR_WIDTH - 1)
    BY <2>1, Powers
  <2>3. Depth = 2 * 2^(ADDR_WIDTH - 1)
    BY <1>2, <2>1, <2>2
  <2> QED
    BY <1>2, <2>2, <2>3
<1> QED
  BY <1>1, <1>2, <1>3
-----------------------------------------------------------------------------
(* The bits of a number, halving by halving.                               *)
LEMMA LeastElement ==
  ASSUME NEW S \in SUBSET Nat, S # {}
  PROVE  \E m \in S : \A n \in S : m <= n
<1>1. PICK m \in S : \A n \in S : <<n, m>> \notin OpToRel(<, Nat)
  BY NatLessThanWellFounded, WFMin
<1>2. ASSUME NEW n \in S PROVE m <= n
  <2>1. ~(n < m)
    BY <1>1 DEF OpToRel
  <2> QED
    BY <2>1
<1> QED
  BY <1>2

LEMMA Quotient ==
  ASSUME NEW a \in Nat, NEW b \in Nat, b > 0
  PROVE  /\ a \div b \in Nat
         /\ (a \div b) * b <= a
         /\ a < (a \div b) * b + b
BY SMT

LEMMA QuotientIs ==
  ASSUME NEW a \in Nat, NEW b \in Nat, b > 0, NEW h \in Nat, h * b <= a, a < h * b + b
  PROVE  a \div b = h
<1> DEFINE k == a \div b
<1>1. k \in Nat /\ k * b <= a /\ a < k * b + b
  BY Quotient
<1> HIDE DEF k
<1>2. CASE k < h
  <2>1. (k + 1) * b <= h * b
    BY <1>1, <1>2, SMT
  <2> QED
    BY <1>1, <2>1, SMT
<1>3. CASE k > h
  <2>1. (h + 1) * b <= k * b
    BY <1>1, <1>3, SMT
  <2> QED
    BY <1>1, <2>1, SMT
<1> QED
  BY <1>1, <1>2, <1>3 DEF k

Part(n, i) == n \div 2^i

LEMMA Halving ==
  ASSUME NEW n \in Nat, NEW i \in Nat
  PROVE  /\ Part(n, i) \in Nat
         /\ Part(n, i + 1) = Part(n, i) \div 2
         /\ Part(n, 0) = n
         /\ n < 2^i => Part(n, i) = 0
<1> DEFINE b == 2^i
           k == n \div b
           h == k \div 2
<1>1. b \in Nat /\ b > 0 /\ 2^(i + 1) = 2 * b
  BY Powers
<1>2. Part(n, i) = k /\ Part(n, i + 1) = n \div (2 * b)
  BY <1>1 DEF Part
<1>3. Part(n, 0) = n
  BY SMT DEF Part
<1>4. n < b => k = 0
  BY <1>1, QuotientIs, SMT
<1> HIDE DEF b
<1>5. k \in Nat /\ k * b <= n /\ n < k * b + b
  BY <1>1, Quotient
<1> HIDE DEF k
<1>6. h \in Nat /\ (k = 2 * h \/ k = 2 * h + 1)
  BY <1>5
<1> HIDE DEF h
<1>7. h * (2 * b) <= n /\ n < h * (2 * b) + 2 * b
  BY <1>1, <1>5, <1>6, SMT
<1>8. n \div (2 * b) = h
  BY <1>1, <1>6, <1>7, QuotientIs
<1> QED
  BY <1>2, <1>3, <1>4, <1>5, <1>8 DEF h, k, b

LEMMA BitsAre ==
  ASSUME NEW n \in Nat
  PROVE  /\ Bits(n) \subseteq Bit
         /\ \A i \in Bit : i \in Bits(n) <=> Part(n, i) % 2 = 1
BY DEF Bits, Part

LEMMA CodeIs ==
  ASSUME NEW n \in Nat
  PROVE  /\ bin2gray(n) \subseteq Bit
         /\ \A i \in Bit : i \in bin2gray(n) <=> ((i \in Bits(n)) # (i + 1 \in Bits(n)))
<1>1. Bits(n) \subseteq Int /\ Bits(n) \subseteq Bit /\ Bit \subseteq Nat
  BY BitsAre, Sizes DEF Bit
<1>2. ASSUME NEW i \in Bit
      PROVE  i \in {k - 1 : k \in Bits(n) \ {0}} <=> i + 1 \in Bits(n)
  BY <1>1
<1>3. {k - 1 : k \in Bits(n) \ {0}} \subseteq Bit
  BY <1>1, Sizes DEF Bit
<1> QED
  BY <1>1, <1>2, <1>3 DEF bin2gray, SymDiff

LEMMA PtrIs ==
  /\ Ptr \subseteq Nat
  /\ \A n \in Ptr : n < 2 * Depth /\ Part(n, ADDR_WIDTH + 1) = 0
  /\ \A n \in Nat : n < 2 * Depth => n \in Ptr
<1>1. \A n \in Nat : n < 2 * Depth => n \in Ptr
  BY Sizes DEF Ptr
<1>2. ASSUME NEW n \in Ptr PROVE n \in Nat /\ n < 2 * Depth
  BY Sizes DEF Ptr
<1>3. ASSUME NEW n \in Ptr PROVE Part(n, ADDR_WIDTH + 1) = 0
  BY <1>2, Sizes, Halving
<1> QED
  BY <1>1, <1>2, <1>3

(* Two pointers with the same bits are the same.                           *)
LEMMA BitsDiffer ==
  ASSUME NEW m \in Ptr, NEW n \in Ptr, Bits(m) = Bits(n)
  PROVE  m = n
<1> DEFINE Same == {i \in 0..(ADDR_WIDTH + 1) : Part(m, i) = Part(n, i)}
<1>1. m \in Nat /\ n \in Nat
  BY PtrIs
<1>2. Same \in SUBSET Nat /\ ADDR_WIDTH + 1 \in Same
  BY PtrIs, Sizes
<1>3. PICK i \in Same : \A j \in Same : i <= j
  BY <1>2, LeastElement
<1>4. i \in Nat /\ i <= ADDR_WIDTH + 1 /\ Part(m, i) = Part(n, i)
  BY <1>3, Sizes
<1>5. CASE i > 0
  <2>1. i - 1 \in Nat /\ i - 1 \in Bit /\ (i - 1) + 1 = i
    BY <1>4, <1>5, Sizes DEF Bit
  <2>2. Part(m, i - 1) % 2 = 1 <=> Part(n, i - 1) % 2 = 1
    BY <1>1, <2>1, BitsAre
  <2>3. /\ Part(m, i - 1) \in Nat /\ Part(m, i) = Part(m, i - 1) \div 2
        /\ Part(n, i - 1) \in Nat /\ Part(n, i) = Part(n, i - 1) \div 2
    BY <1>1, <2>1, Halving
  <2>4. ASSUME NEW x \in Nat, NEW y \in Nat, x \div 2 = y \div 2, x % 2 = 1 <=> y % 2 = 1
        PROVE  x = y
    BY <2>4
  <2>5. Part(m, i - 1) = Part(n, i - 1)
    BY <1>4, <2>2, <2>3, <2>4
  <2> QED
    BY <1>3, <1>4, <2>1, <2>5, Sizes
<1>6. CASE i = 0
  BY <1>1, <1>4, <1>6, Halving
<1> QED
  BY <1>4, <1>5, <1>6

(* The parity of the ones from a position up is the bit at that position.  *)
LEMMA Parity ==
  ASSUME NEW n \in Ptr, NEW i \in Bit
  PROVE  Cardinality({j \in bin2gray(n) : j >= i}) % 2 = 1 <=> i \in Bits(n)
<1> DEFINE g == bin2gray(n)
           Above(k) == {j \in g : j >= k}
           Odd(k) == Cardinality(Above(k)) % 2 = 1
           Right == {k \in 0..(ADDR_WIDTH + 1) :
                       \A l \in k..(ADDR_WIDTH + 1) : Odd(l) <=> l \in Bits(n)}
<1>1. n \in Nat /\ g \subseteq Bit /\ Bits(n) \subseteq Bit
  BY PtrIs, CodeIs, BitsAre
<1>2. \A k \in 0..ADDR_WIDTH : k \in g <=> ((k \in Bits(n)) # (k + 1 \in Bits(n)))
  BY <1>1, CodeIs DEF Bit
<1>0. \A j \in g : j \in Int /\ j <= ADDR_WIDTH
  BY <1>1, Sizes DEF Bit
<1> HIDE DEF g
<1>3. ASSUME NEW k \in 0..(ADDR_WIDTH + 1)
      PROVE  IsFiniteSet(Above(k)) /\ Cardinality(Above(k)) \in Nat
  <2>1. IsFiniteSet(Bit)
    BY FS_Interval, Sizes DEF Bit
  <2>2. Above(k) \in SUBSET Bit
    BY <1>1
  <2> QED
    BY <2>1, <2>2, FS_Subset, FS_CardinalityType
<1>4. ADDR_WIDTH + 1 \in Right
  <2>1. Above(ADDR_WIDTH + 1) = {}
    BY <1>0, Sizes
  <2>2. Cardinality(Above(ADDR_WIDTH + 1)) = 0
    BY <2>1, FS_EmptySet
  <2>3. ADDR_WIDTH + 1 \notin Bits(n)
    BY <1>1, Sizes DEF Bit
  <2> HIDE DEF Above
  <2> QED
    BY <2>2, <2>3, Sizes
<1>5. ASSUME NEW k \in Right, k > 0 PROVE k - 1 \in Right
  <2>1. k - 1 \in 0..ADDR_WIDTH /\ (k - 1) + 1 = k /\ k \in 0..(ADDR_WIDTH + 1)
    BY <1>5, Sizes
  <2>2. Above(k - 1) = IF k - 1 \in g THEN Above(k) \cup {k - 1} ELSE Above(k)
    <3>1. \A j \in g : j >= k - 1 <=> j >= k \/ j = k - 1
      BY <1>0, <2>1, Sizes
    <3>2. CASE k - 1 \in g
      BY <3>1, <3>2
    <3>3. CASE k - 1 \notin g
      BY <3>1, <3>3
    <3> QED
      BY <3>2, <3>3
  <2>3. k - 1 \notin Above(k)
    BY <2>1
  <2>4. IsFiniteSet(Above(k)) /\ Cardinality(Above(k)) \in Nat
    BY <1>3, <2>1
  <2>5. Odd(k) <=> k \in Bits(n)
    BY <2>1, Sizes
  <2>6. Cardinality(Above(k - 1))
          = IF k - 1 \in g THEN Cardinality(Above(k)) + 1 ELSE Cardinality(Above(k))
    <3> HIDE DEF Above
    <3> QED
      BY <2>2, <2>3, <2>4, FS_AddElement
  <2>7. k - 1 \in g <=> ((k - 1 \in Bits(n)) # (k \in Bits(n)))
    BY <1>2, <2>1
  <2>8. Odd(k - 1) <=> k - 1 \in Bits(n)
    <3>1. ASSUME NEW c \in Nat PROVE (c + 1) % 2 = 1 <=> ~(c % 2 = 1)
      OBVIOUS
    <3>2. Odd(k - 1) <=> (IF k - 1 \in g THEN ~Odd(k) ELSE Odd(k))
      BY <2>4, <2>6, <3>1
    <3> HIDE DEF Odd
    <3> QED
      BY <2>5, <2>7, <3>2
  <2> HIDE DEF Odd
  <2> QED
    BY <2>1, <2>8, Sizes
<1> HIDE DEF Odd
<1>6. Right \in SUBSET Nat
  BY Sizes
<1>7. PICK k \in Right : \A l \in Right : k <= l
  BY <1>4, <1>6, LeastElement
<1>8. k = 0
  BY <1>5, <1>6, <1>7
<1>9. Odd(i) <=> i \in Bits(n)
  BY <1>7, <1>8, Sizes DEF Bit
<1> QED
  BY <1>9 DEF Odd, g

LEMMA GrayDecodes ==
  ASSUME NEW n \in Ptr
  PROVE  gray2bin(bin2gray(n)) = n
<1>1. {i \in Bit : Cardinality({j \in bin2gray(n) : j >= i}) % 2 = 1} = Bits(n)
  BY Parity, PtrIs, BitsAre
<1>2. gray2bin(bin2gray(n)) = Num(Bits(n))
  BY <1>1 DEF gray2bin
<1>3. Num(Bits(n)) \in Ptr /\ Bits(Num(Bits(n))) = Bits(n)
  BY DEF Num
<1> QED
  BY <1>2, <1>3, BitsDiffer
-----------------------------------------------------------------------------
(* The carry of an increment: it reaches position i + 1 exactly if it      *)
(* reaches an i whose bit is 1.                                            *)
Carry(n, i) == Part(n + 1, i) # Part(n, i)

LEMMA CarryMoves ==
  ASSUME NEW n \in Nat, NEW i \in Nat
  PROVE  /\ Part(n + 1, i) = Part(n, i) \/ Part(n + 1, i) = Part(n, i) + 1
         /\ Carry(n, i + 1) <=> Carry(n, i) /\ Part(n, i) % 2 = 1
<1> DEFINE Rest(k) == Part(n + 1, k) = Part(n, k) \/ Part(n + 1, k) = Part(n, k) + 1
           Bad == {k \in Nat : ~Rest(k)}
<1>1. ASSUME NEW k \in Nat, Rest(k)
      PROVE  Rest(k + 1) /\ (Carry(n, k + 1) <=> Carry(n, k) /\ Part(n, k) % 2 = 1)
  <2>1. /\ Part(n, k) \in Nat /\ Part(n + 1, k) \in Nat
        /\ Part(n, k + 1) = Part(n, k) \div 2 /\ Part(n + 1, k + 1) = Part(n + 1, k) \div 2
    <3>1. n + 1 \in Nat
      OBVIOUS
    <3> QED
      BY <3>1, Halving
  <2>2. ASSUME NEW x \in Nat
        PROVE  (x + 1) \div 2 = IF x % 2 = 1 THEN (x \div 2) + 1 ELSE x \div 2
    OBVIOUS
  <2>3. \A x \in Nat : x \div 2 \in Nat
    OBVIOUS
  <2>4. CASE Part(n + 1, k) = Part(n, k)
    BY <2>1, <2>4 DEF Carry
  <2>5. CASE Part(n + 1, k) = Part(n, k) + 1
    BY <2>1, <2>2, <2>3, <2>5 DEF Carry
  <2> QED
    BY <1>1, <2>4, <2>5
<1>2. Rest(0)
  BY Halving
<1>3. \A k \in Nat : Rest(k)
  <2> SUFFICES ASSUME Bad # {} PROVE FALSE
    OBVIOUS
  <2>1. PICK k \in Bad : \A l \in Bad : k <= l
    BY LeastElement
  <2>2. k > 0
    BY <1>2
  <2>3. k - 1 \in Nat /\ (k - 1) + 1 = k
    BY <2>2
  <2> HIDE DEF Rest
  <2>4. Rest(k - 1)
    BY <2>1, <2>3
  <2> QED
    BY <1>1, <2>3, <2>4
<1> QED
  BY <1>1, <1>3

(* Once the carry has stopped it does not come back.                       *)
LEMMA CarryStops ==
  ASSUME NEW n \in Nat, NEW i \in Nat, NEW j \in Nat, i < j, ~Carry(n, i)
  PROVE  ~Carry(n, j)
<1> DEFINE On == {k \in Nat : i < k /\ Carry(n, k)}
<1> SUFFICES ASSUME On # {} PROVE FALSE
  OBVIOUS
<1>1. PICK k \in On : \A l \in On : k <= l
  BY LeastElement
<1>2. k - 1 \in Nat /\ (k - 1) + 1 = k /\ i <= k - 1
  OBVIOUS
<1>3. Carry(n, k - 1)
  BY <1>2, CarryMoves
<1>4. k - 1 # i
  BY <1>3
<1> QED
  BY <1>1, <1>2, <1>3, <1>4

(* The remainder, for the sums and differences that occur.                 *)
LEMMA Wrapped ==
  ASSUME NEW a \in Int, NEW c \in Nat, c > 0, -c <= a, a < 2 * c
  PROVE  a % c = IF a < 0 THEN a + c ELSE IF a < c THEN a ELSE a - c
BY SMT

Next1(n) == (n + 1) % (2 * Depth)

LEMMA NextIs ==
  ASSUME NEW n \in Ptr
  PROVE  /\ Next1(n) \in Ptr
         /\ n + 1 = 2 * Depth => Next1(n) = 0
         /\ n + 1 < 2 * Depth => Next1(n) = n + 1
         /\ n + 1 <= 2 * Depth
<1>1. n \in Nat /\ n < 2 * Depth /\ 2 * Depth \in Nat
  BY PtrIs, Sizes
<1> DEFINE b == 2 * Depth
<1>2. ASSUME NEW c \in Nat, n < c
      PROVE  (n + 1 = c => (n + 1) % c = 0) /\ (n + 1 < c => (n + 1) % c = n + 1)
  BY <1>1, <1>2, SMT
<1>3. n + 1 <= 2 * Depth
  BY <1>1
<1> QED
  BY <1>1, <1>2, <1>3, PtrIs, Sizes DEF Next1

(* Which bits an increment flips.                                          *)
LEMMA FlipIs ==
  ASSUME NEW n \in Ptr, n + 1 < 2 * Depth, NEW i \in Bit
  PROVE  (i \in Bits(n)) # (i \in Bits(n + 1)) <=> Carry(n, i)
<1>1. n \in Nat /\ n + 1 \in Nat /\ i \in Nat
  BY PtrIs, Sizes DEF Bit
<1>2. Part(n, i) \in Nat
  BY <1>1, Halving
<1>3. Part(n + 1, i) = Part(n, i) \/ Part(n + 1, i) = Part(n, i) + 1
  BY <1>1, CarryMoves
<1>4. \A x \in Nat : (x + 1) % 2 = 1 <=> x % 2 # 1
  OBVIOUS
<1> QED
  BY <1>1, <1>2, <1>3, <1>4, BitsAre DEF Carry

(* The codes of successive pointers differ in one bit at most.             *)
LEMMA OneBitAtATime ==
  ASSUME NEW n \in Ptr,
         NEW i \in SymDiff(bin2gray(n), bin2gray(Next1(n))),
         NEW j \in SymDiff(bin2gray(n), bin2gray(Next1(n)))
  PROVE  i = j
<1>1. n \in Nat /\ Next1(n) \in Nat
  BY PtrIs, NextIs
<1>2. i \in Bit /\ j \in Bit
  BY <1>1, CodeIs DEF SymDiff
<1>3. CASE n + 1 < 2 * Depth
  <2>1. Next1(n) = n + 1
    BY <1>3, NextIs
  <2>2. ASSUME NEW k \in Bit, k \in SymDiff(bin2gray(n), bin2gray(n + 1))
        PROVE  Carry(n, k) /\ ~Carry(n, k + 1)
    <3>1. k \in Nat /\ k <= ADDR_WIDTH
      BY Sizes DEF Bit
    <3>2. (k \in Bits(n)) # (k \in Bits(n + 1)) <=> Carry(n, k)
      BY <1>3, FlipIs
    <3>3. (k + 1 \in Bits(n)) # (k + 1 \in Bits(n + 1)) <=> Carry(n, k + 1)
      <4>1. CASE k < ADDR_WIDTH
        <5>1. k + 1 \in Bit
          BY <3>1, <4>1, Sizes DEF Bit
        <5> QED
          BY <1>3, <5>1, FlipIs
      <4>2. CASE k = ADDR_WIDTH
        <5>1. n + 1 \in Ptr
          BY <1>1, <1>3, PtrIs
        <5>2. ~Carry(n, k + 1)
          BY <4>2, <5>1, PtrIs DEF Carry
        <5>3. k + 1 \notin Bits(n) /\ k + 1 \notin Bits(n + 1)
          BY <1>1, <4>2, BitsAre, Sizes DEF Bit
        <5> QED
          BY <5>2, <5>3
      <4> QED
        BY <3>1, <4>1, <4>2, Sizes
    <3>4. (k \in bin2gray(n)) # (k \in bin2gray(n + 1))
      BY <2>2 DEF SymDiff
    <3>5. (k \in bin2gray(n) <=> ((k \in Bits(n)) # (k + 1 \in Bits(n))))
          /\ (k \in bin2gray(n + 1) <=> ((k \in Bits(n + 1)) # (k + 1 \in Bits(n + 1))))
      BY <1>1, CodeIs
    <3>6. ~(Carry(n, k) <=> Carry(n, k + 1))
      BY <3>2, <3>3, <3>4, <3>5
    <3> QED
      BY <1>1, <3>1, <3>6, CarryMoves
  <2>3. i \in Nat /\ j \in Nat
    BY <1>2, Sizes DEF Bit
  <2>4. Carry(n, i) /\ ~Carry(n, i + 1) /\ Carry(n, j) /\ ~Carry(n, j + 1)
    BY <1>2, <2>1, <2>2
  <2>5. ASSUME NEW a \in Nat, NEW b \in Nat, a < b, ~Carry(n, a + 1) PROVE ~Carry(n, b)
    <3>1. CASE b = a + 1
      BY <2>5, <3>1
    <3>2. CASE a + 1 < b
      BY <1>1, <2>5, <3>2, CarryStops
    <3> QED
      BY <2>5, <3>1, <3>2
  <2>6. ~(i < j) /\ ~(j < i)
    BY <2>3, <2>4, <2>5
  <2> QED
    BY <2>3, <2>6
<1>4. CASE n + 1 = 2 * Depth
  <2>1. Next1(n) = 0
    BY <1>4, NextIs
  <2>2. Carry(n, ADDR_WIDTH + 1)
    <3>1. Part(2 * Depth, ADDR_WIDTH + 1) = 1
      <4>1. 2 * Depth \in Nat /\ 2 * Depth > 0
        BY Sizes
      <4>2. \A c \in Nat : c > 0 => c \div c = 1
        BY QuotientIs, SMT
      <4> QED
        BY <4>1, <4>2, Sizes DEF Part
    <3> QED
      BY <1>4, <3>1, PtrIs DEF Carry
  <2>3. ASSUME NEW k \in Bit PROVE k \in Bits(n)
    <3>1. k \in Nat /\ k <= ADDR_WIDTH
      BY Sizes DEF Bit
    <3>2. Carry(n, k + 1)
      <4>1. CASE k = ADDR_WIDTH
        BY <2>2, <4>1
      <4>2. CASE k < ADDR_WIDTH
        BY <1>1, <2>2, <3>1, <4>2, CarryStops, Sizes
      <4> QED
        BY <3>1, <4>1, <4>2, Sizes
    <3>3. Part(n, k) % 2 = 1
      BY <1>1, <3>1, <3>2, CarryMoves
    <3> QED
      BY <1>1, <3>3, BitsAre
  <2>4. Bits(0) = {}
    <3>1. ASSUME NEW k \in Bit PROVE Part(0, k) = 0
      <4>1. k \in Nat
        BY Sizes DEF Bit
      <4> QED
        BY <4>1, Powers, Halving
    <3> QED
      BY <3>1, BitsAre
  <2>5. ASSUME NEW k \in Bit, k \in SymDiff(bin2gray(n), bin2gray(0)) PROVE k = ADDR_WIDTH
    <3>1. k \notin bin2gray(0)
      BY <2>4, CodeIs
    <3>2. k + 1 \notin Bit
      BY <1>1, <2>3, <2>5, <3>1, CodeIs DEF SymDiff
    <3> QED
      BY <3>2, Sizes DEF Bit
  <2> QED
    BY <1>2, <2>1, <2>5
<1> QED
  BY <1>1, <1>3, <1>4, NextIs, Sizes

(* Half the ring further, the top bit differs and no other.                *)
LEMMA TopBit ==
  ASSUME NEW x \in Nat, x < Depth
  PROVE  /\ ADDR_WIDTH \notin Bits(x) /\ ADDR_WIDTH \in Bits(x + Depth)
         /\ \A i \in Bit : i # ADDR_WIDTH => (i \in Bits(x) <=> i \in Bits(x + Depth))
<1> DEFINE Moved(i) == Part(x + Depth, i) = Part(x, i) + 2^(ADDR_WIDTH - i)
           Bad == {i \in 0..ADDR_WIDTH : ~Moved(i)}
<1>1. x + Depth \in Nat /\ ADDR_WIDTH \in Nat
  BY Sizes
<1>2. Moved(0)
  <2>1. ADDR_WIDTH - 0 = ADDR_WIDTH
    BY <1>1
  <2> QED
    BY <1>1, <2>1, Halving, Sizes
<1>3. ASSUME NEW i \in 0..ADDR_WIDTH, i < ADDR_WIDTH
      PROVE  /\ 2^(ADDR_WIDTH - i) % 2 = 0
             /\ 2^(ADDR_WIDTH - i) \in Nat
             /\ Moved(i) => Moved(i + 1)
  <2>1. /\ ADDR_WIDTH - (i + 1) \in Nat /\ i \in Nat
        /\ (ADDR_WIDTH - (i + 1)) + 1 = ADDR_WIDTH - i
    BY <1>1, <1>3
  <2> DEFINE a == 2^(ADDR_WIDTH - (i + 1))
             b == 2^(ADDR_WIDTH - i)
  <2>2. a \in Nat /\ b = 2 * a
    BY <2>1, Powers
  <2>3. /\ Part(x, i) \in Nat /\ Part(x, i + 1) = Part(x, i) \div 2
        /\ Part(x + Depth, i + 1) = Part(x + Depth, i) \div 2
    BY <1>1, <2>1, Halving
  <2> HIDE DEF a, b
  <2>4. b % 2 = 0 /\ \A c \in Nat : (c + b) \div 2 = (c \div 2) + a
    BY <2>2
  <2>5. Part(x + Depth, i) = Part(x, i) + b => Part(x + Depth, i + 1) = Part(x, i + 1) + a
    BY <2>3, <2>4
  <2>6. b % 2 = 0 /\ b \in Nat
    BY <2>2, <2>4
  <2>7. Moved(i) => Moved(i + 1)
    BY <2>5 DEF a, b
  <2> QED
    BY <2>6, <2>7 DEF b
<1>4. \A i \in 0..ADDR_WIDTH : Moved(i)
  <2> SUFFICES ASSUME Bad # {} PROVE FALSE
    OBVIOUS
  <2>0. Bad \in SUBSET Nat
    BY <1>1
  <2>1. PICK k \in Bad : \A l \in Bad : k <= l
    BY <2>0, LeastElement
  <2>2. k > 0 /\ k \in 0..ADDR_WIDTH
    BY <1>2, <2>1
  <2>3. k - 1 \in 0..ADDR_WIDTH /\ k - 1 < ADDR_WIDTH /\ (k - 1) + 1 = k
    BY <1>1, <2>2
  <2> HIDE DEF Moved
  <2>4. Moved(k - 1)
    BY <2>1, <2>3
  <2> QED
    BY <1>3, <2>1, <2>3, <2>4
<1>5. ADDR_WIDTH \in Bit
  BY Sizes DEF Bit
<1>6. Part(x, ADDR_WIDTH) = 0 /\ Part(x + Depth, ADDR_WIDTH) = 1
  <2>1. ADDR_WIDTH - ADDR_WIDTH = 0 /\ ADDR_WIDTH \in 0..ADDR_WIDTH
    BY <1>1
  <2>2. 2^0 = 1
    BY SMT
  <2>3. Part(x, ADDR_WIDTH) = 0
    BY <1>1, Sizes, Halving
  <2>4. Part(x + Depth, ADDR_WIDTH) = Part(x, ADDR_WIDTH) + 1
    BY <1>4, <2>1, <2>2
  <2> QED
    BY <2>3, <2>4
<1>7. ASSUME NEW i \in Bit, i # ADDR_WIDTH
      PROVE  Part(x, i) % 2 = 1 <=> Part(x + Depth, i) % 2 = 1
  <2>1. i \in 0..ADDR_WIDTH /\ i < ADDR_WIDTH /\ i \in Nat
    BY <1>7, Sizes DEF Bit
  <2>2. Moved(i) /\ 2^(ADDR_WIDTH - i) % 2 = 0 /\ 2^(ADDR_WIDTH - i) \in Nat
    BY <1>3, <1>4, <2>1
  <2>3. \A c, e \in Nat : e % 2 = 0 => (c % 2 = 1 <=> (c + e) % 2 = 1)
    OBVIOUS
  <2>4. Part(x, i) \in Nat
    BY <2>1, Halving
  <2> QED
    BY <2>2, <2>3, <2>4
<1> QED
  BY <1>1, <1>5, <1>6, <1>7, BitsAre

Opposite(n) == (n + Depth) % (2 * Depth)

LEMMA OppositeIs ==
  ASSUME NEW n \in Ptr
  PROVE  /\ Opposite(n) \in Ptr
         /\ Opposite(n) = IF n < Depth THEN n + Depth ELSE n - Depth
<1>1. n \in Nat /\ n < 2 * Depth /\ Depth \in Nat
  BY PtrIs, Sizes
<1> DEFINE a == n + Depth
           c == 2 * Depth
<1>2. /\ a \in Int /\ c \in Nat /\ c > 0 /\ -c <= a /\ a < 2 * c /\ ~(a < 0)
      /\ a < c <=> n < Depth
      /\ a - c = n - Depth
  BY <1>1, Sizes
<1> HIDE DEF a, c
<1>3. a % c = IF n < Depth THEN a ELSE n - Depth
  BY <1>2, Wrapped
<1>4. Opposite(n) = IF n < Depth THEN n + Depth ELSE n - Depth
  BY <1>3 DEF Opposite, a, c
<1> QED
  BY <1>1, <1>4, PtrIs

(* The test of wrfull: inverting the top two bits of a code is half the    *)
(* ring.                                                                   *)
LEMMA FullCode ==
  ASSUME NEW n \in Ptr
  PROVE  SymDiff(bin2gray(n), {ADDR_WIDTH, ADDR_WIDTH - 1}) = bin2gray(Opposite(n))
<1> DEFINE o == Opposite(n)
           B(k, i) == i \in Bits(k)
<1>1. n \in Nat /\ o \in Nat /\ n < 2 * Depth /\ ADDR_WIDTH \in Nat /\ ADDR_WIDTH >= 2
      /\ Depth \in Nat
  BY PtrIs, OppositeIs, Sizes
<1>2. /\ ADDR_WIDTH \in Bits(n) <=> ADDR_WIDTH \notin Bits(o)
      /\ \A i \in Bit : i # ADDR_WIDTH => (i \in Bits(n) <=> i \in Bits(o))
  <2>1. CASE n < Depth
    BY <1>1, <2>1, TopBit, OppositeIs
  <2>2. CASE ~(n < Depth)
    <3>1. o \in Nat /\ o < Depth /\ o + Depth = n
      BY <1>1, <2>2, OppositeIs
    <3> QED
      BY <3>1, TopBit
  <2> QED
    BY <2>1, <2>2
<1> HIDE DEF o
<1>3. Bits(n) \subseteq Bit /\ Bits(o) \subseteq Bit
  BY <1>1, BitsAre
<1>4. ASSUME NEW i \in Bit
      PROVE  i \in bin2gray(o)
               <=> IF i \in {ADDR_WIDTH, ADDR_WIDTH - 1} THEN i \notin bin2gray(n)
                                                         ELSE i \in bin2gray(n)
  <2>1. i \in Nat /\ i <= ADDR_WIDTH
    BY <1>1 DEF Bit
  <2>2. /\ i \in bin2gray(n) <=> ((i \in Bits(n)) # (i + 1 \in Bits(n)))
        /\ i \in bin2gray(o) <=> ((i \in Bits(o)) # (i + 1 \in Bits(o)))
    BY <1>1, CodeIs
  <2>3. CASE i = ADDR_WIDTH
    <3>1. i + 1 \notin Bits(n) /\ i + 1 \notin Bits(o)
      BY <1>1, <1>3, <2>3 DEF Bit
    <3> QED
      BY <1>2, <2>2, <2>3, <3>1
  <2>4. CASE i = ADDR_WIDTH - 1
    <3>1. i # ADDR_WIDTH /\ i + 1 = ADDR_WIDTH
      BY <1>1, <2>4
    <3> QED
      BY <1>2, <2>2, <2>4, <3>1
  <2>5. CASE i # ADDR_WIDTH /\ i # ADDR_WIDTH - 1
    <3>1. i + 1 \in Bit /\ i + 1 # ADDR_WIDTH
      BY <1>1, <2>1, <2>5 DEF Bit
    <3> QED
      BY <1>2, <2>2, <2>5, <3>1
  <2> QED
    BY <2>3, <2>4, <2>5
<1>5. bin2gray(n) \subseteq Bit /\ bin2gray(o) \subseteq Bit /\ {ADDR_WIDTH, ADDR_WIDTH - 1} \subseteq Bit
  BY <1>1, CodeIs DEF Bit
<1>6. SymDiff(bin2gray(n), {ADDR_WIDTH, ADDR_WIDTH - 1}) = bin2gray(o)
  BY <1>4, <1>5 DEF SymDiff
<1> QED
  BY <1>6 DEF o

LEMMA SameCode ==
  ASSUME NEW m \in Ptr, NEW n \in Ptr
  PROVE  bin2gray(m) = bin2gray(n) <=> m = n
BY GrayDecodes

(* Whatever a synchronizer captures while a pointer moves is the code of   *)
(* the old or of the new pointer.                                          *)
LEMMA SampledIs ==
  ASSUME NEW n \in Ptr, NEW m \in {n, Next1(n)},
         NEW g \in Sampled(bin2gray(n), bin2gray(m))
  PROVE  g = bin2gray(n) \/ g = bin2gray(m)
<1> DEFINE old == bin2gray(n)
           new == bin2gray(m)
<1>1. PICK s \in SUBSET SymDiff(old, new) : g = (old \cap new) \cup s
  BY DEF Sampled
<1>2. \A i, j \in SymDiff(old, new) : i = j
  <2>1. CASE m = n
    BY <2>1 DEF SymDiff
  <2>2. CASE m = Next1(n)
    BY <2>2, OneBitAtATime
  <2> QED
    BY <2>1, <2>2
<1> HIDE DEF old, new
<1>3. s = {} \/ s = SymDiff(old, new)
  BY <1>2
<1>4. old \ new = {} \/ new \ old = {}
  BY <1>2 DEF SymDiff
<1>5. g = old \/ g = new
  <2>1. CASE old \ new = {}
    BY <1>1, <1>3, <2>1 DEF SymDiff
  <2>2. CASE new \ old = {}
    BY <1>1, <1>3, <2>2 DEF SymDiff
  <2> QED
    BY <1>4, <2>1, <2>2
<1> QED
  BY <1>5 DEF old, new
-----------------------------------------------------------------------------
(* Distances round the ring.                                               *)
LEMMA DistIs ==
  ASSUME NEW a \in Ptr, NEW b \in Ptr
  PROVE  /\ Dist(a, b) = IF a <= b THEN b - a ELSE b - a + 2 * Depth
         /\ Dist(a, b) \in Nat /\ Dist(a, b) < 2 * Depth
         /\ Dist(a, b) = 0 <=> a = b
         /\ Dist(a, b) = Depth <=> b = Opposite(a)
         /\ a \in Nat /\ b \in Nat
<1>1. a \in Nat /\ b \in Nat /\ a < 2 * Depth /\ b < 2 * Depth /\ Depth \in Nat /\ Depth > 0
  BY PtrIs, Sizes
<1>2. Dist(a, b) = IF a <= b THEN b - a ELSE b - a + 2 * Depth
  <2> DEFINE c == 2 * Depth
             e == b - a
  <2>1. e \in Int /\ c \in Nat /\ c > 0 /\ -c <= e /\ e < 2 * c /\ e < c
    BY <1>1
  <2> HIDE DEF c, e
  <2>2. e % c = IF e < 0 THEN e + c ELSE e
    BY <2>1, Wrapped
  <2> QED
    BY <1>1, <2>2 DEF Dist, e, c
<1> QED
  BY <1>1, <1>2, OppositeIs

LEMMA DistMoves ==
  ASSUME NEW a \in Ptr, NEW b \in Ptr
  PROVE  /\ Dist(a, b) + 1 < 2 * Depth => Dist(a, Next1(b)) = Dist(a, b) + 1
         /\ Dist(a, b) > 0 => Dist(Next1(a), b) = Dist(a, b) - 1
         /\ Next1(a) \in Ptr /\ Next1(a) # a
<1>1. /\ a \in Nat /\ b \in Nat /\ a < 2 * Depth /\ b < 2 * Depth /\ Depth \in Nat /\ Depth > 0
      /\ Next1(a) \in Nat /\ Next1(b) \in Nat
      /\ Next1(a) \in Ptr /\ Next1(b) \in Ptr
  BY PtrIs, Sizes, NextIs
<1>2. /\ Next1(a) = IF a + 1 = 2 * Depth THEN 0 ELSE a + 1
      /\ Next1(b) = IF b + 1 = 2 * Depth THEN 0 ELSE b + 1
  BY <1>1, NextIs
<1>3. /\ Dist(a, b) = IF a <= b THEN b - a ELSE b - a + 2 * Depth
      /\ Dist(a, Next1(b)) = IF a <= Next1(b) THEN Next1(b) - a ELSE Next1(b) - a + 2 * Depth
      /\ Dist(Next1(a), b) = IF Next1(a) <= b THEN b - Next1(a) ELSE b - Next1(a) + 2 * Depth
  BY <1>1, DistIs
<1> QED
  BY <1>1, <1>2, <1>3

(* A way round the ring that is no longer than the ring is the sum of its  *)
(* parts.                                                                  *)
LEMMA DistAdds ==
  ASSUME NEW a \in Ptr, NEW b \in Ptr, NEW c \in Ptr, Dist(a, b) + Dist(b, c) < 2 * Depth
  PROVE  Dist(a, c) = Dist(a, b) + Dist(b, c)
<1>1. /\ a \in Nat /\ b \in Nat /\ c \in Nat /\ Depth \in Nat
      /\ a < 2 * Depth /\ b < 2 * Depth /\ c < 2 * Depth
  BY PtrIs, Sizes
<1>2. /\ Dist(a, b) = IF a <= b THEN b - a ELSE b - a + 2 * Depth
      /\ Dist(b, c) = IF b <= c THEN c - b ELSE c - b + 2 * Depth
      /\ Dist(a, c) = IF a <= c THEN c - a ELSE c - a + 2 * Depth
  BY DistIs
<1> QED
  BY <1>1, <1>2

(* The flags and the count in terms of what each side knows.               *)
LEMMA FlagsAre ==
  ASSUME FifoInv
  PROVE  /\ wrfull <=> Dist(SeenRead(2), wr_ptr_bin) = Depth
         /\ rdempty <=> SeenWrite(2) = rd_ptr_bin
         /\ used_diff = Dist(SeenRead(2), wr_ptr_bin)
         /\ Dist(SeenRead(2), wr_ptr_bin) = Dist(SeenRead(2), rd_ptr_bin) + Used
         /\ Dist(SeenRead(2), rd_ptr_bin) + Used <= Depth
         /\ Dist(SeenWrite(2), wr_ptr_bin) <= Used
         /\ Dist(rd_ptr_bin, SeenWrite(2)) + Dist(SeenWrite(2), wr_ptr_bin) = Used
<1> DEFINE r2 == SeenRead(2)
           r1 == SeenRead(1)
           w2 == SeenWrite(2)
           w1 == SeenWrite(1)
<1>1. /\ r2 \in Ptr /\ r1 \in Ptr /\ w2 \in Ptr /\ w1 \in Ptr
      /\ wr_ptr_bin \in Ptr /\ rd_ptr_bin \in Ptr
  BY DEF FifoInv, FifoType, Coded
<1>2. rd_sync[2] = bin2gray(r2) /\ wr_sync[2] = bin2gray(w2)
  BY DEF FifoInv, Coded
<1>3. wrfull <=> wr_ptr_bin = Opposite(r2)
  BY <1>1, <1>2, FullCode, SameCode, OppositeIs DEF FifoInv, Coded, wrfull
<1>4. rdempty <=> w2 = rd_ptr_bin
  BY <1>1, <1>2, SameCode DEF FifoInv, Coded, rdempty
<1>5. used_diff = Dist(r2, wr_ptr_bin)
  BY DEF used_diff, rd_ptr_bin_sync, Dist, SeenRead
<1>6. /\ Dist(r2, r1) + Dist(r1, rd_ptr_bin) + Used <= Depth
      /\ Dist(rd_ptr_bin, w2) + Dist(w2, w1) + Dist(w1, wr_ptr_bin) = Used
  BY DEF FifoInv, InTurn, Turn, Used
<1> HIDE DEF r2, r1, w2, w1
<1>7. /\ Dist(r2, r1) \in Nat /\ Dist(r1, rd_ptr_bin) \in Nat /\ Used \in Nat
      /\ Dist(rd_ptr_bin, w2) \in Nat /\ Dist(w2, w1) \in Nat /\ Dist(w1, wr_ptr_bin) \in Nat
      /\ Depth \in Nat /\ Depth > 0
  BY <1>1, DistIs, Sizes DEF Used
<1>8. Dist(r2, rd_ptr_bin) = Dist(r2, r1) + Dist(r1, rd_ptr_bin)
  BY <1>1, <1>6, <1>7, DistAdds
<1>9. Dist(w2, wr_ptr_bin) = Dist(w2, w1) + Dist(w1, wr_ptr_bin)
  BY <1>1, <1>6, <1>7, DistAdds
<1>10. Dist(r2, wr_ptr_bin) = Dist(r2, rd_ptr_bin) + Used
  BY <1>1, <1>6, <1>7, <1>8, DistAdds DEF Used
<1> QED
  BY <1>1, <1>3, <1>4, <1>5, <1>6, <1>7, <1>8, <1>9, <1>10, DistIs DEF r2, r1, w2, w1
-----------------------------------------------------------------------------
(* What the two halves of the logic do, in terms of pointers.              *)
LEMMA WriteMoves ==
  ASSUME FifoInv, NEW wrreq \in BOOLEAN, NEW d \in Word, Write(wrreq, d)
  PROVE  /\ wr_ptr_bin' = (IF wrreq /\ ~wrfull THEN Next1(wr_ptr_bin) ELSE wr_ptr_bin)
         /\ wr_ptr_bin' \in Ptr
         /\ wr_ptr_gray' = bin2gray(wr_ptr_bin')
         /\ mem' = IF wrreq /\ ~wrfull THEN [mem EXCEPT ![wr_ptr_bin % Depth] = d] ELSE mem
         /\ mem' \in [0..(Depth - 1) -> Word]
<1>1. wr_ptr_bin \in Ptr /\ Next1(wr_ptr_bin) \in Ptr /\ wr_ptr_gray = bin2gray(wr_ptr_bin)
      /\ mem \in [0..(Depth - 1) -> Word]
  BY NextIs DEF FifoInv, FifoType, Coded
<1> QED
  BY <1>1 DEF Write, Next1

LEMMA ReadMoves ==
  ASSUME FifoInv, NEW rdreq \in BOOLEAN, Read(rdreq)
  PROVE  /\ rd_ptr_bin' = (IF rdreq /\ ~rdempty THEN Next1(rd_ptr_bin) ELSE rd_ptr_bin)
         /\ rd_ptr_bin' \in Ptr
         /\ rd_ptr_gray' = bin2gray(rd_ptr_bin')
         /\ q' = IF rdreq /\ ~rdempty THEN mem[rd_ptr_bin % Depth] ELSE q
         /\ q' \in Word
<1>1. rd_ptr_bin \in Ptr /\ Next1(rd_ptr_bin) \in Ptr /\ rd_ptr_gray = bin2gray(rd_ptr_bin)
      /\ mem \in [0..(Depth - 1) -> Word] /\ q \in Word
  BY NextIs DEF FifoInv, FifoType, Coded
<1>2. rd_ptr_bin % Depth \in 0..(Depth - 1)
  <2>1. rd_ptr_bin \in Nat /\ Depth \in Nat /\ Depth > 0
    BY <1>1, PtrIs, Sizes
  <2> QED
    BY <2>1, SMT
<1> QED
  BY <1>1, <1>2 DEF Read, Next1

(* A synchronizer passes on what it has and captures the other pointer, as *)
(* it was or as it becomes.                                                *)
LEMMA SyncReadMoves ==
  ASSUME FifoInv, rd_ptr_bin' \in {rd_ptr_bin, Next1(rd_ptr_bin)},
         rd_ptr_gray' = bin2gray(rd_ptr_bin'),
         SyncRead(Sampled(rd_ptr_gray, rd_ptr_gray'))
  PROVE  /\ SeenRead(2)' = SeenRead(1) /\ SeenRead(1)' \in {rd_ptr_bin, rd_ptr_bin'}
         /\ SeenRead(1)' \in Ptr /\ SeenRead(2)' \in Ptr
         /\ rd_sync' = <<bin2gray(SeenRead(1)'), bin2gray(SeenRead(2)')>>
<1>1. /\ rd_ptr_bin \in Ptr /\ rd_ptr_bin' \in Ptr /\ SeenRead(1) \in Ptr
      /\ rd_ptr_gray = bin2gray(rd_ptr_bin) /\ rd_sync[1] = bin2gray(SeenRead(1))
  BY NextIs DEF FifoInv, FifoType, Coded
<1>2. PICK g \in Sampled(rd_ptr_gray, rd_ptr_gray') : rd_sync' = <<g, rd_sync[1]>>
  BY DEF SyncRead
<1>3. g = bin2gray(rd_ptr_bin) \/ g = bin2gray(rd_ptr_bin')
  BY <1>1, SampledIs
<1>4. rd_sync'[1] = g /\ rd_sync'[2] = rd_sync[1]
  BY <1>2
<1>5. SeenRead(2)' = SeenRead(1)
  BY <1>4 DEF SeenRead
<1>6. SeenRead(1)' = gray2bin(g)
  BY <1>4 DEF SeenRead
<1>7. SeenRead(1)' \in {rd_ptr_bin, rd_ptr_bin'} /\ g = bin2gray(SeenRead(1)')
  BY <1>1, <1>3, <1>6, GrayDecodes
<1> QED
  BY <1>1, <1>2, <1>5, <1>7

LEMMA SyncWriteMoves ==
  ASSUME FifoInv, wr_ptr_bin' \in {wr_ptr_bin, Next1(wr_ptr_bin)},
         wr_ptr_gray' = bin2gray(wr_ptr_bin'),
         SyncWrite(Sampled(wr_ptr_gray, wr_ptr_gray'))
  PROVE  /\ SeenWrite(2)' = SeenWrite(1) /\ SeenWrite(1)' \in {wr_ptr_bin, wr_ptr_bin'}
         /\ SeenWrite(1)' \in Ptr /\ SeenWrite(2)' \in Ptr
         /\ wr_sync' = <<bin2gray(SeenWrite(1)'), bin2gray(SeenWrite(2)')>>
<1>1. /\ wr_ptr_bin \in Ptr /\ wr_ptr_bin' \in Ptr /\ SeenWrite(1) \in Ptr
      /\ wr_ptr_gray = bin2gray(wr_ptr_bin) /\ wr_sync[1] = bin2gray(SeenWrite(1))
  BY NextIs DEF FifoInv, FifoType, Coded
<1>2. PICK g \in Sampled(wr_ptr_gray, wr_ptr_gray') : wr_sync' = <<g, wr_sync[1]>>
  BY DEF SyncWrite
<1>3. g = bin2gray(wr_ptr_bin) \/ g = bin2gray(wr_ptr_bin')
  BY <1>1, SampledIs
<1>4. wr_sync'[1] = g /\ wr_sync'[2] = wr_sync[1]
  BY <1>2
<1>5. SeenWrite(2)' = SeenWrite(1)
  BY <1>4 DEF SeenWrite
<1>6. SeenWrite(1)' = gray2bin(g)
  BY <1>4 DEF SeenWrite
<1>7. SeenWrite(1)' \in {wr_ptr_bin, wr_ptr_bin'} /\ g = bin2gray(SeenWrite(1)')
  BY <1>1, <1>3, <1>6, GrayDecodes
<1> QED
  BY <1>1, <1>2, <1>5, <1>7

(* A capture while nothing moves.                                          *)
LEMMA SampledStill ==
  ASSUME NEW g
  PROVE  Sampled(g, g) = {g}
<1>1. SymDiff(g, g) = {}
  BY DEF SymDiff
<1>2. \A s \in SUBSET SymDiff(g, g) : (g \cap g) \cup s = g
  BY <1>1
<1>3. {} \in SUBSET SymDiff(g, g)
  OBVIOUS
<1> QED
  BY <1>2, <1>3 DEF Sampled

(* Each pointer stays or takes a step that its flag allows; each side knows*)
(* what it knew, or what it captured before and a pointer just captured.   *)
Moved(r2, r1, rd, w2, w1, wr, r2n, r1n, rdn, w2n, w1n, wrn) ==
  /\ {r2, r1, rd, w2, w1, wr, r2n, r1n, rdn, w2n, w1n, wrn} \subseteq Ptr
  /\ wrn = wr \/ (wrn = Next1(wr) /\ Dist(r2, wr) # Depth)
  /\ rdn = rd \/ (rdn = Next1(rd) /\ w2 # rd)
  /\ (r1n = r1 /\ r2n = r2) \/ (r2n = r1 /\ r1n \in {rd, rdn})
  /\ (w1n = w1 /\ w2n = w2) \/ (w2n = w1 /\ w1n \in {wr, wrn})

(* The order round the ring is kept by any combination of moves.           *)
LEMMA TurnKept ==
  ASSUME NEW r1, NEW r2, NEW w1, NEW w2, NEW rd, NEW wr,
         NEW r1n, NEW r2n, NEW w1n, NEW w2n, NEW rdn, NEW wrn,
         Turn(r2, r1, rd, w2, w1, wr),
         Moved(r2, r1, rd, w2, w1, wr, r2n, r1n, rdn, w2n, w1n, wrn)
  PROVE  Turn(r2n, r1n, rdn, w2n, w1n, wrn)
<1>0. /\ r2 \in Ptr /\ r1 \in Ptr /\ rd \in Ptr /\ w2 \in Ptr /\ w1 \in Ptr /\ wr \in Ptr
      /\ r2n \in Ptr /\ r1n \in Ptr /\ rdn \in Ptr /\ w2n \in Ptr /\ w1n \in Ptr /\ wrn \in Ptr
  BY DEF Moved
<1>a. /\ wrn = wr \/ (wrn = Next1(wr) /\ Dist(r2, wr) # Depth)
      /\ rdn = rd \/ (rdn = Next1(rd) /\ w2 # rd)
  BY DEF Moved
<1>b. /\ (r1n = r1 /\ r2n = r2) \/ (r2n = r1 /\ r1n \in {rd, rdn})
      /\ (w1n = w1 /\ w2n = w2) \/ (w2n = w1 /\ w1n \in {wr, wrn})
  BY DEF Moved
<1>c. /\ Dist(r2, r1) + Dist(r1, rd) + Dist(rd, wr) <= Depth
      /\ Dist(rd, w2) + Dist(w2, w1) + Dist(w1, wr) = Dist(rd, wr)
  BY DEF Turn
<1>1. /\ Dist(r2, r1) \in Nat /\ Dist(r1, rd) \in Nat /\ Dist(rd, wr) \in Nat
      /\ Dist(rd, w2) \in Nat /\ Dist(w2, w1) \in Nat /\ Dist(w1, wr) \in Nat
      /\ Depth \in Nat /\ Depth > 0
  BY <1>0, DistIs, Sizes
<1>2. Dist(r2, wr) = Dist(r2, r1) + Dist(r1, rd) + Dist(rd, wr)
  BY <1>0, <1>1, <1>c, DistAdds
<1>3. wrn # wr => Dist(r2, r1) + Dist(r1, rd) + Dist(rd, wr) < Depth
  BY <1>1, <1>2, <1>a, <1>c
<1>4. rdn # rd => Dist(rd, w2) > 0
  BY <1>0, <1>1, <1>a, DistIs
<1> DEFINE a == IF wrn = wr THEN 0 ELSE 1
           b == IF rdn = rd THEN 0 ELSE 1
<1>5. /\ a \in {0, 1} /\ b \in {0, 1}
      /\ Dist(r2, r1) + Dist(r1, rd) + Dist(rd, wr) + a <= Depth
      /\ b <= Dist(rd, w2)
  BY <1>1, <1>3, <1>4, <1>c
(* The reads: r2n to rdn.                                                  *)
<1>6. Dist(r1, rdn) = Dist(r1, rd) + b /\ Dist(rd, rdn) = b /\ Dist(rdn, rdn) = 0
  BY <1>0, <1>1, <1>a, <1>c, <1>5, DistMoves, DistIs
<1>7. Dist(r2n, r1n) + Dist(r1n, rdn) <= Dist(r2, r1) + Dist(r1, rd) + b
  <2>1. CASE r1n = r1 /\ r2n = r2
    BY <1>1, <1>5, <1>6, <2>1
  <2>2. CASE r2n = r1 /\ r1n = rd
    BY <1>1, <1>5, <1>6, <2>2
  <2>3. CASE r2n = r1 /\ r1n = rdn
    BY <1>1, <1>5, <1>6, <2>3
  <2> QED
    BY <1>b, <2>1, <2>2, <2>3
(* The writes: rdn to wrn.                                                 *)
<1>8. Dist(w1, wrn) = Dist(w1, wr) + a /\ Dist(wr, wrn) = a /\ Dist(wrn, wrn) = 0
  <2>1. Dist(wr, wr) = 0 /\ Dist(wrn, wrn) = 0
    BY <1>0, DistIs
  <2>2. CASE wrn = wr
    BY <1>1, <2>1, <2>2
  <2>3. CASE wrn = Next1(wr)
    <3>1. wrn # wr
      BY <1>0, <2>3, DistMoves
    <3>0. Dist(w1, wr) + 1 < 2 * Depth
      BY <1>1, <1>c, <1>5, <3>1
    <3>2. Dist(w1, wrn) = Dist(w1, wr) + 1
      BY <1>0, <2>3, <3>0, DistMoves
    <3>3. Dist(wr, wrn) = Dist(wr, wr) + 1
      BY <1>0, <1>1, <2>1, <2>3, DistMoves
    <3> QED
      BY <2>1, <3>1, <3>2, <3>3
  <2> QED
    BY <1>a, <2>2, <2>3
<1>9. Dist(rdn, w2) = Dist(rd, w2) - b
  BY <1>0, <1>1, <1>a, <1>c, <1>5, DistMoves
<1>10. Dist(rdn, w1) = Dist(rd, w2) + Dist(w2, w1) - b
  BY <1>0, <1>1, <1>c, <1>5, <1>9, DistAdds
<1>11. Dist(rdn, wrn) = Dist(rd, wr) - b + a
  <2>1. Dist(rdn, w1) \in Nat
    BY <1>1, <1>5, <1>10
  <2> QED
    BY <1>0, <1>1, <1>c, <1>5, <1>8, <1>10, <2>1, DistAdds
<1>12. Dist(rdn, w2n) + Dist(w2n, w1n) + Dist(w1n, wrn) = Dist(rdn, wrn)
  <2>1. CASE w1n = w1 /\ w2n = w2
    BY <1>1, <1>5, <1>8, <1>9, <1>11, <1>c, <2>1
  <2>2. CASE w2n = w1 /\ w1n = wr
    BY <1>1, <1>5, <1>8, <1>10, <1>11, <1>c, <2>2
  <2>3. CASE w2n = w1 /\ w1n = wrn
    BY <1>1, <1>5, <1>8, <1>10, <1>11, <1>c, <2>3
  <2> QED
    BY <1>b, <2>1, <2>2, <2>3
<1>13. Dist(r2n, r1n) \in Nat /\ Dist(r1n, rdn) \in Nat
  BY <1>0, DistIs
<1> QED
  BY <1>1, <1>5, <1>7, <1>11, <1>12, <1>13 DEF Turn

(* What an edge of either clock, or of both, does to the pointers.         *)
WriteHalf ==
  \/ UNCHANGED <<wr_ptr_bin, wr_ptr_gray, mem, rd_sync>>
  \/ /\ \E wrreq \in BOOLEAN, d \in Word : Write(wrreq, d)
     /\ SyncRead(Sampled(rd_ptr_gray, rd_ptr_gray'))

ReadHalf ==
  \/ UNCHANGED <<rd_ptr_bin, rd_ptr_gray, q, wr_sync>>
  \/ /\ \E rdreq \in BOOLEAN : Read(rdreq)
     /\ SyncWrite(Sampled(wr_ptr_gray, wr_ptr_gray'))

LEMMA TwoHalves ==
  ASSUME [Next]_vars
  PROVE  WriteHalf /\ ReadHalf
<1>1. ASSUME NEW wrreq \in BOOLEAN, NEW d \in Word, WriteEdge(wrreq, d)
      PROVE  WriteHalf /\ ReadHalf
  BY <1>1, SampledStill DEF WriteEdge, WriteHalf, ReadHalf
<1>2. ASSUME NEW rdreq \in BOOLEAN, ReadEdge(rdreq)
      PROVE  WriteHalf /\ ReadHalf
  BY <1>2, SampledStill DEF ReadEdge, WriteHalf, ReadHalf
<1>3. ASSUME NEW wrreq \in BOOLEAN, NEW rdreq \in BOOLEAN, NEW d \in Word,
             BothEdges(wrreq, d, rdreq)
      PROVE  WriteHalf /\ ReadHalf
  BY <1>3 DEF BothEdges, WriteHalf, ReadHalf
<1>4. CASE UNCHANGED vars
  BY <1>4 DEF vars, WriteHalf, ReadHalf
<1> QED
  BY <1>1, <1>2, <1>3, <1>4 DEF Next

LEMMA HalvesMove ==
  ASSUME FifoInv, WriteHalf, ReadHalf
  PROVE  /\ FifoType' /\ Coded'
         /\ \/ wr_ptr_bin' = wr_ptr_bin
            \/ wr_ptr_bin' = Next1(wr_ptr_bin) /\ ~wrfull
         /\ \/ rd_ptr_bin' = rd_ptr_bin
            \/ rd_ptr_bin' = Next1(rd_ptr_bin) /\ ~rdempty
         /\ \/ SeenRead(1)' = SeenRead(1) /\ SeenRead(2)' = SeenRead(2)
            \/ SeenRead(2)' = SeenRead(1) /\ SeenRead(1)' \in {rd_ptr_bin, rd_ptr_bin'}
         /\ \/ SeenWrite(1)' = SeenWrite(1) /\ SeenWrite(2)' = SeenWrite(2)
            \/ SeenWrite(2)' = SeenWrite(1) /\ SeenWrite(1)' \in {wr_ptr_bin, wr_ptr_bin'}
<1>1. FifoType /\ Coded
  BY DEF FifoInv
<1>2. /\ wr_ptr_bin' \in Ptr /\ wr_ptr_gray' = bin2gray(wr_ptr_bin')
      /\ mem' \in [0..(Depth - 1) -> Word]
      /\ \/ wr_ptr_bin' = wr_ptr_bin
         \/ wr_ptr_bin' = Next1(wr_ptr_bin) /\ ~wrfull
  <2>1. ASSUME NEW wrreq \in BOOLEAN, NEW d \in Word, Write(wrreq, d)
        PROVE  <1>2!:
    BY <2>1, WriteMoves
  <2>2. CASE UNCHANGED <<wr_ptr_bin, wr_ptr_gray, mem>>
    BY <1>1, <2>2 DEF FifoType, Coded
  <2> QED
    BY <2>1, <2>2 DEF WriteHalf
<1>3. /\ rd_ptr_bin' \in Ptr /\ rd_ptr_gray' = bin2gray(rd_ptr_bin')
      /\ q' \in Word
      /\ \/ rd_ptr_bin' = rd_ptr_bin
         \/ rd_ptr_bin' = Next1(rd_ptr_bin) /\ ~rdempty
  <2>1. ASSUME NEW rdreq \in BOOLEAN, Read(rdreq)
        PROVE  <1>3!:
    BY <2>1, ReadMoves
  <2>2. CASE UNCHANGED <<rd_ptr_bin, rd_ptr_gray, q>>
    BY <1>1, <2>2 DEF FifoType, Coded
  <2> QED
    BY <2>1, <2>2 DEF ReadHalf
<1>4. /\ \/ SeenRead(1)' = SeenRead(1) /\ SeenRead(2)' = SeenRead(2)
         \/ SeenRead(2)' = SeenRead(1) /\ SeenRead(1)' \in {rd_ptr_bin, rd_ptr_bin'}
      /\ SeenRead(1)' \in Ptr /\ SeenRead(2)' \in Ptr
      /\ rd_sync' = <<bin2gray(SeenRead(1)'), bin2gray(SeenRead(2)')>>
  <2>1. CASE UNCHANGED rd_sync
    BY <1>1, <2>1 DEF Coded, SeenRead
  <2>2. CASE SyncRead(Sampled(rd_ptr_gray, rd_ptr_gray'))
    BY <1>3, <2>2, SyncReadMoves
  <2> QED
    BY <2>1, <2>2 DEF WriteHalf
<1>5. /\ \/ SeenWrite(1)' = SeenWrite(1) /\ SeenWrite(2)' = SeenWrite(2)
         \/ SeenWrite(2)' = SeenWrite(1) /\ SeenWrite(1)' \in {wr_ptr_bin, wr_ptr_bin'}
      /\ SeenWrite(1)' \in Ptr /\ SeenWrite(2)' \in Ptr
      /\ wr_sync' = <<bin2gray(SeenWrite(1)'), bin2gray(SeenWrite(2)')>>
  <2>1. CASE UNCHANGED wr_sync
    BY <1>1, <2>1 DEF Coded, SeenWrite
  <2>2. CASE SyncWrite(Sampled(wr_ptr_gray, wr_ptr_gray'))
    BY <1>2, <2>2, SyncWriteMoves
  <2> QED
    BY <2>1, <2>2 DEF ReadHalf
<1>6. FifoType'
  BY <1>2, <1>3 DEF FifoType
<1>7. Coded'
  BY <1>2, <1>3, <1>4, <1>5 DEF Coded
<1> QED
  BY <1>2, <1>3, <1>4, <1>5, <1>6, <1>7

LEMMA FifoStep == FifoInv /\ [Next]_vars => FifoInv'
<1> SUFFICES ASSUME FifoInv, [Next]_vars PROVE FifoInv'
  OBVIOUS
<1>1. WriteHalf /\ ReadHalf
  BY TwoHalves
<1>2. FifoType' /\ Coded'
  BY <1>1, HalvesMove
<1>3. /\ SeenRead(1) \in Ptr /\ SeenRead(2) \in Ptr
      /\ SeenWrite(1) \in Ptr /\ SeenWrite(2) \in Ptr
      /\ rd_ptr_bin \in Ptr /\ wr_ptr_bin \in Ptr
  BY DEF FifoInv, FifoType, Coded
<1>4. /\ SeenRead(1)' \in Ptr /\ SeenRead(2)' \in Ptr
      /\ SeenWrite(1)' \in Ptr /\ SeenWrite(2)' \in Ptr
      /\ rd_ptr_bin' \in Ptr /\ wr_ptr_bin' \in Ptr
  BY <1>2 DEF FifoType, Coded
<1>5. wrfull <=> Dist(SeenRead(2), wr_ptr_bin) = Depth
  BY FlagsAre
<1>6. rdempty <=> SeenWrite(2) = rd_ptr_bin
  BY FlagsAre
<1>8. /\ \/ wr_ptr_bin' = wr_ptr_bin
         \/ wr_ptr_bin' = Next1(wr_ptr_bin) /\ Dist(SeenRead(2), wr_ptr_bin) # Depth
      /\ \/ rd_ptr_bin' = rd_ptr_bin
         \/ rd_ptr_bin' = Next1(rd_ptr_bin) /\ SeenWrite(2) # rd_ptr_bin
      /\ \/ SeenRead(1)' = SeenRead(1) /\ SeenRead(2)' = SeenRead(2)
         \/ SeenRead(2)' = SeenRead(1) /\ SeenRead(1)' \in {rd_ptr_bin, rd_ptr_bin'}
      /\ \/ SeenWrite(1)' = SeenWrite(1) /\ SeenWrite(2)' = SeenWrite(2)
         \/ SeenWrite(2)' = SeenWrite(1) /\ SeenWrite(1)' \in {wr_ptr_bin, wr_ptr_bin'}
  BY <1>1, <1>5, <1>6, HalvesMove
<1>9. Moved(SeenRead(2), SeenRead(1), rd_ptr_bin, SeenWrite(2), SeenWrite(1), wr_ptr_bin,
            SeenRead(2)', SeenRead(1)', rd_ptr_bin', SeenWrite(2)', SeenWrite(1)', wr_ptr_bin')
  BY <1>3, <1>4, <1>8 DEF Moved
<1>10. Turn(SeenRead(2)', SeenRead(1)', rd_ptr_bin', SeenWrite(2)', SeenWrite(1)', wr_ptr_bin')
  BY <1>9, TurnKept DEF FifoInv, InTurn
<1>11. InTurn'
  BY <1>10 DEF InTurn, Turn, Dist
<1> QED
  BY <1>2, <1>11 DEF FifoInv

LEMMA FifoStart == Init => FifoInv
<1> SUFFICES ASSUME Init PROVE FifoInv
  OBVIOUS
<1>1. 0 \in Ptr
  BY PtrIs, Sizes
<1>2. bin2gray(0) = {}
  <2>1. ASSUME NEW k \in Bit PROVE Part(0, k) = 0
    <3>1. k \in Nat
      BY Sizes DEF Bit
    <3> QED
      BY <3>1, Powers, Halving
  <2>2. Bits(0) = {}
    BY <2>1, BitsAre
  <2> QED
    BY <2>2, CodeIs
<1>3. gray2bin({}) = 0
  BY <1>1, <1>2, GrayDecodes
<1>4. SeenRead(1) = 0 /\ SeenRead(2) = 0 /\ SeenWrite(1) = 0 /\ SeenWrite(2) = 0
  BY <1>3 DEF Init, SeenRead, SeenWrite
<1>5. (CHOOSE w \in Word : TRUE) \in Word
  BY WordAssumption
<1>6. FifoType
  BY <1>1, <1>5 DEF Init, FifoType
<1>7. Coded
  BY <1>1, <1>2, <1>4 DEF Init, Coded
<1>8. Dist(0, 0) = 0 /\ Depth \in Nat
  BY <1>1, DistIs, Sizes
<1>9. InTurn
  BY <1>4, <1>8 DEF Init, InTurn, Turn
<1> QED
  BY <1>6, <1>7, <1>9 DEF FifoInv
-----------------------------------------------------------------------------
(* Slots of the block RAM.                                                 *)
LEMMA Remainder ==
  ASSUME NEW x \in Nat, NEW c \in Nat, c > 0
  PROVE  /\ x % c \in 0..(c - 1) /\ x = (x \div c) * c + (x % c)
         /\ (x + c) % c = x % c
<1>1. x % c \in 0..(c - 1) /\ x = (x \div c) * c + (x % c)
  BY SMT
<1> DEFINE k == x \div c
           r == x % c
           y == x + c
<1>2. y = (y \div c) * c + (y % c) /\ y \div c \in Nat /\ k \in Nat /\ y \in Nat
  BY SMT
<1> HIDE DEF k, r
<1>3. (k + 1) * c = k * c + c /\ k * c \in Nat
  BY <1>2, SMT
<1>4. (k + 1) * c <= y /\ y < (k + 1) * c + c
  BY <1>1, <1>3 DEF k, r
<1> HIDE DEF y
<1>5. y \div c = k + 1
  BY <1>2, <1>4, QuotientIs
<1>6. y % c = x % c
  BY <1>1, <1>2, <1>3, <1>5 DEF k, r, y
<1> QED
  BY <1>1, <1>6 DEF y

LEMMA SlotsDiffer ==
  ASSUME NEW x \in Nat, NEW y \in Nat, NEW c \in Nat, x < y, y < x + c
  PROVE  x % c # y % c
<1>1. c > 0
  OBVIOUS
<1> DEFINE k == x \div c
           l == y \div c
           r == x % c
<1> SUFFICES ASSUME y % c = r PROVE FALSE
  OBVIOUS
<1>2. x = k * c + r /\ y = l * c + r /\ k \in Nat /\ l \in Nat /\ r \in Nat
  BY <1>1, Remainder, SMT
<1> HIDE DEF k, l, r
<1>3. k * c \in Nat /\ l * c \in Nat /\ k * c < l * c /\ l * c < k * c + c
  BY <1>2, SMT
<1>4. CASE l <= k
  <2>1. l * c <= k * c
    BY <1>2, <1>4, SMT
  <2> QED
    BY <1>3, <2>1
<1>5. CASE k + 1 <= l
  <2>1. (k + 1) * c <= l * c /\ (k + 1) * c = k * c + c
    BY <1>2, <1>5, SMT
  <2> QED
    BY <1>3, <2>1
<1> QED
  BY <1>2, <1>4, <1>5

LEMMA SlotIs ==
  ASSUME NEW p \in Ptr, NEW k \in Nat
  PROVE  /\ (p + k) % Depth \in 0..(Depth - 1)
         /\ (Next1(p) + k) % Depth = (p + k + 1) % Depth
         /\ \A w \in Ptr : Dist(p, w) = k => (p + k) % Depth = w % Depth
         /\ \A l \in Nat : k < l /\ l < k + Depth => (p + k) % Depth # (p + l) % Depth
<1>1. p \in Nat /\ Depth \in Nat /\ Depth > 0
  BY PtrIs, Sizes
<1>2. ASSUME NEW x \in Nat PROVE (x + 2 * Depth) % Depth = x % Depth
  <2>1. x + Depth \in Nat /\ (x + Depth) + Depth = x + 2 * Depth
    BY <1>1
  <2>2. ((x + Depth) + Depth) % Depth = (x + Depth) % Depth
    BY <1>1, <2>1, Remainder
  <2>3. (x + Depth) % Depth = x % Depth
    BY <1>1, Remainder
  <2> QED
    BY <2>1, <2>2, <2>3
<1>3. (p + k) % Depth \in 0..(Depth - 1)
  <2>1. p + k \in Nat
    BY <1>1
  <2> QED
    BY <1>1, <2>1, Remainder
<1>4. (Next1(p) + k) % Depth = (p + k + 1) % Depth
  <2>1. CASE p + 1 = 2 * Depth
    <3>1. Next1(p) + k = k /\ p + k + 1 = k + 2 * Depth
      BY <1>1, <2>1, NextIs
    <3> QED
      BY <1>2, <3>1
  <2>2. CASE p + 1 < 2 * Depth
    <3>1. Next1(p) + k = p + k + 1
      BY <1>1, <2>2, NextIs
    <3> QED
      BY <3>1
  <2> QED
    BY <1>1, <2>1, <2>2, NextIs
<1>5. ASSUME NEW w \in Ptr, Dist(p, w) = k PROVE (p + k) % Depth = w % Depth
  <2>1. w \in Nat /\ (p + k = w \/ p + k = w + 2 * Depth)
    BY <1>1, <1>5, DistIs
  <2> QED
    BY <1>2, <2>1
<1>6. ASSUME NEW l \in Nat, k < l, l < k + Depth PROVE (p + k) % Depth # (p + l) % Depth
  <2>1. p + k \in Nat /\ p + l \in Nat /\ p + k < p + l /\ p + l < p + k + Depth
    BY <1>1, <1>6
  <2> QED
    BY <1>1, <2>1, SlotsDiffer
<1> QED
  BY <1>3, <1>4, <1>5, <1>6
-----------------------------------------------------------------------------
(* The refinement.                                                         *)
Stored == [i \in 1..Used |-> mem[(rd_ptr_bin + i - 1) % Depth]]

LEMMA AbstractIs ==
  ASSUME FifoInv
  PROVE  /\ Used \in Nat /\ Used <= Depth
         /\ Stored \in Seq(Word) /\ Len(Stored) = Used
         /\ Abstract!wrfull = wrfull
         /\ Abstract!rdempty = rdempty
         /\ Abstract!wrusedw = wrusedw
<1>1. /\ Used \in Nat /\ Depth \in Nat /\ Depth > 0
      /\ Dist(gray2bin(rd_sync[2]), rd_ptr_bin) \in Nat
      /\ Dist(gray2bin(wr_sync[2]), wr_ptr_bin) \in Nat
      /\ rd_ptr_bin \in Ptr /\ rd_ptr_bin \in Nat
  BY DistIs, PtrIs, Sizes DEF FifoInv, FifoType, Coded, SeenRead, SeenWrite, Used
<1>2. /\ wrfull <=> Dist(gray2bin(rd_sync[2]), rd_ptr_bin) + Used = Depth
      /\ used_diff = Dist(gray2bin(rd_sync[2]), rd_ptr_bin) + Used
      /\ rdempty <=> SeenWrite(2) = rd_ptr_bin
      /\ Dist(rd_ptr_bin, SeenWrite(2)) + Dist(gray2bin(wr_sync[2]), wr_ptr_bin) = Used
      /\ Dist(gray2bin(rd_sync[2]), rd_ptr_bin) + Used <= Depth
  BY FlagsAre DEF SeenRead, SeenWrite
<1>3. rdempty <=> Used = Dist(gray2bin(wr_sync[2]), wr_ptr_bin)
  <2>1. Dist(rd_ptr_bin, SeenWrite(2)) \in Nat
        /\ (Dist(rd_ptr_bin, SeenWrite(2)) = 0 <=> SeenWrite(2) = rd_ptr_bin)
    BY <1>1, DistIs DEF FifoInv, Coded
  <2> QED
    BY <1>1, <1>2, <2>1
<1>4. Stored \in Seq(Word) /\ Len(Stored) = Used
  <2>1. ASSUME NEW i \in 1..Used PROVE mem[(rd_ptr_bin + i - 1) % Depth] \in Word
    <3>1. i - 1 \in Nat /\ rd_ptr_bin + (i - 1) = rd_ptr_bin + i - 1
      BY <1>1
    <3>2. (rd_ptr_bin + i - 1) % Depth \in 0..(Depth - 1)
      BY <1>1, <3>1, SlotIs
    <3> QED
      BY <3>2 DEF FifoInv, FifoType
  <2> QED
    BY <1>1, <2>1 DEF Stored
<1>5. Abstract!UsedSeen = Used + Dist(gray2bin(rd_sync[2]), rd_ptr_bin)
  BY <1>4 DEF Abstract!UsedSeen, Stored
<1>6. Abstract!wrfull = wrfull
  <2>1. Abstract!wrfull <=> wrfull
    BY <1>1, <1>2, <1>5 DEF Abstract!wrfull
  <2> QED
    BY <2>1, Zenon DEF wrfull, Abstract!wrfull
<1>7. Abstract!rdempty = rdempty
  <2>1. Abstract!rdempty <=> rdempty
    BY <1>3, <1>4 DEF Abstract!rdempty, Stored
  <2> QED
    BY <2>1, Zenon DEF rdempty, Abstract!rdempty
<1>8. Abstract!wrusedw = wrusedw
  BY <1>1, <1>2, <1>5 DEF Abstract!wrusedw, wrusedw
<1> QED
  BY <1>1, <1>2, <1>4, <1>6, <1>7, <1>8

(* What the queue becomes when a word is taken, a word is added, or both.  *)
LEMMA StoredMoves ==
  ASSUME FifoInv, FifoInv', NEW wrote \in BOOLEAN, NEW took \in BOOLEAN, NEW d \in Word,
         wrote => ~wrfull, took => ~rdempty,
         wr_ptr_bin' = (IF wrote THEN Next1(wr_ptr_bin) ELSE wr_ptr_bin),
         rd_ptr_bin' = (IF took THEN Next1(rd_ptr_bin) ELSE rd_ptr_bin),
         mem' = IF wrote THEN [mem EXCEPT ![wr_ptr_bin % Depth] = d] ELSE mem
  PROVE  LET rest == IF took THEN Tail(Stored) ELSE Stored
         IN  /\ Stored' = IF wrote THEN Append(rest, d) ELSE rest
             /\ took => mem[rd_ptr_bin % Depth] = Head(Stored)
<1> DEFINE rest == IF took THEN Tail(Stored) ELSE Stored
           o == IF took THEN 1 ELSE 0
           a == IF wrote THEN 1 ELSE 0
           slot(k) == (rd_ptr_bin + k) % Depth
<1>1. /\ rd_ptr_bin \in Ptr /\ wr_ptr_bin \in Ptr /\ rd_ptr_bin' \in Ptr /\ wr_ptr_bin' \in Ptr
      /\ rd_ptr_bin \in Nat /\ wr_ptr_bin \in Nat
      /\ mem \in [0..(Depth - 1) -> Word] /\ mem' \in [0..(Depth - 1) -> Word]
      /\ Depth \in Nat /\ Depth > 0 /\ o \in {0, 1} /\ a \in {0, 1}
      /\ SeenRead(2) \in Ptr /\ SeenWrite(2) \in Ptr
  BY PtrIs, Sizes DEF FifoInv, FifoType, Coded
<1>a. (o = IF took THEN 1 ELSE 0) /\ (a = IF wrote THEN 1 ELSE 0)
  OBVIOUS
<1> HIDE DEF a, o
<1>2. /\ Used \in Nat /\ Used <= Depth /\ Stored \in Seq(Word) /\ Len(Stored) = Used
      /\ \A k \in 1..Used : Stored[k] = mem[(rd_ptr_bin + k - 1) % Depth]
  BY AbstractIs DEF Stored
<1>3. o <= Used /\ Used + a <= Depth
  <2>1. /\ Dist(rd_ptr_bin, SeenWrite(2)) \in Nat /\ Dist(SeenWrite(2), wr_ptr_bin) \in Nat
        /\ Dist(SeenRead(2), rd_ptr_bin) \in Nat
        /\ Dist(rd_ptr_bin, SeenWrite(2)) = 0 <=> SeenWrite(2) = rd_ptr_bin
    BY <1>1, DistIs
  <2> QED
    BY <1>1, <1>a, <1>2, <2>1, FlagsAre
<1>4. Used' = Used + a - o /\ Used' \in Nat
  <2>1. Dist(rd_ptr_bin, wr_ptr_bin') = Used + a
    <3>1. Used + a < 2 * Depth
      BY <1>1, <1>2, <1>3
    <3> QED
      BY <1>1, <1>a, <1>2, <3>1, DistMoves DEF Used
  <2>2. Dist(rd_ptr_bin', wr_ptr_bin') = Used + a - o
    <3>1. CASE took
      <4>1. Dist(rd_ptr_bin, wr_ptr_bin') > 0 /\ o = 1
        BY <1>1, <1>a, <1>2, <1>3, <2>1, <3>1
      <4>2. Dist(Next1(rd_ptr_bin), wr_ptr_bin') = Dist(rd_ptr_bin, wr_ptr_bin') - 1
        BY <1>1, <4>1, DistMoves
      <4> QED
        BY <1>1, <1>2, <2>1, <3>1, <4>1, <4>2
    <3>2. CASE ~took
      <4>1. rd_ptr_bin' = rd_ptr_bin /\ o = 0
        BY <1>a, <3>2
      <4> QED
        BY <1>1, <1>2, <2>1, <4>1
    <3> QED
      BY <3>1, <3>2
  <2>3. Used' = Dist(rd_ptr_bin', wr_ptr_bin')
    BY DEF Used, Dist
  <2> QED
    BY <1>1, <1>2, <1>3, <2>2, <2>3
<1>5. /\ Stored' \in Seq(Word) /\ Len(Stored') = Used'
      /\ \A k \in 1..Used' : Stored'[k] = mem'[(rd_ptr_bin' + k - 1) % Depth]
  <2>1. \A k \in 1..Used' : mem'[(rd_ptr_bin' + k - 1) % Depth] \in Word
    <3>1. ASSUME NEW k \in 1..Used' PROVE (rd_ptr_bin' + k - 1) % Depth \in 0..(Depth - 1)
      <4>1. k - 1 \in Nat /\ rd_ptr_bin' + (k - 1) = rd_ptr_bin' + k - 1
        BY <1>1, <1>4, PtrIs
      <4> QED
        BY <1>1, <4>1, SlotIs
    <3> QED
      BY <1>1, <3>1
  <2>2. Stored' = [k \in 1..Used' |-> mem'[(rd_ptr_bin' + k - 1) % Depth]]
    BY DEF Stored
  <2> QED
    BY <1>4, <2>1, <2>2
<1>6. /\ rest \in Seq(Word) /\ Len(rest) = Used - o
      /\ \A k \in 1..(Used - o) : rest[k] = mem[slot(k + o - 1)]
  <2>1. CASE took
    <3>1. Stored # <<>>
      BY <1>2, <1>3, <1>a, <2>1
    <3>2. /\ Tail(Stored) \in Seq(Word) /\ Len(Tail(Stored)) = Used - 1
          /\ \A k \in 1..(Used - 1) : Tail(Stored)[k] = Stored[k + 1]
      BY <1>2, <3>1, HeadTailProperties
    <3>3. \A k \in 1..(Used - 1) : k + 1 \in 1..Used /\ k + 1 - 1 = k /\ k + o - 1 = k
                                   /\ rd_ptr_bin + (k + 1) - 1 = rd_ptr_bin + k
      BY <1>1, <1>a, <1>2, <2>1
    <3> QED
      BY <1>2, <1>a, <2>1, <3>2, <3>3
  <2>2. CASE ~took
    <3>1. \A k \in 1..Used : rd_ptr_bin + k - 1 = rd_ptr_bin + (k + 0 - 1)
      BY <1>1, <1>2
    <3> QED
      BY <1>2, <1>a, <2>2, <3>1
  <2> QED
    BY <2>1, <2>2
<1>7. ASSUME NEW k \in 1..Used'
      PROVE  (rd_ptr_bin' + k - 1) % Depth = slot(k + o - 1)
  <2>1. k - 1 \in Nat
    BY <1>4
  <2>2. CASE took
    <3>1. (Next1(rd_ptr_bin) + (k - 1)) % Depth = (rd_ptr_bin + (k - 1) + 1) % Depth
      BY <1>1, <2>1, SlotIs
    <3>2. rd_ptr_bin' + k - 1 = Next1(rd_ptr_bin) + (k - 1)
      BY <1>1, <2>1, <2>2, PtrIs
    <3>3. rd_ptr_bin + (k - 1) + 1 = rd_ptr_bin + (k + o - 1)
      BY <1>1, <1>a, <2>1, <2>2
    <3> QED
      BY <3>1, <3>2, <3>3
  <2>3. CASE ~took
    <3>1. rd_ptr_bin' + k - 1 = rd_ptr_bin + (k + o - 1)
      BY <1>1, <1>a, <2>1, <2>3
    <3> QED
      BY <3>1
  <2> QED
    BY <2>2, <2>3
<1>8. slot(Used) = wr_ptr_bin % Depth
  <2>1. Dist(rd_ptr_bin, wr_ptr_bin) = Used
    BY DEF Used
  <2>2. (rd_ptr_bin + Used) % Depth = wr_ptr_bin % Depth
    BY <1>1, <1>2, <2>1, SlotIs
  <2> QED
    BY <2>2 DEF slot
<1>9. ASSUME NEW k \in 1..(Used - o)
      PROVE  k \in 1..Used' /\ Stored'[k] = rest[k]
  <2>1. k \in 1..Used' /\ k + o - 1 \in Nat /\ k + o - 1 < Used
    BY <1>1, <1>2, <1>3, <1>4
  <2>2. Stored'[k] = mem'[slot(k + o - 1)]
    BY <1>5, <1>7, <2>1
  <2>3. mem'[slot(k + o - 1)] = mem[slot(k + o - 1)]
    <3>1. CASE wrote
      <4>1. slot(k + o - 1) # slot(Used)
        <5>1. Used < (k + o - 1) + Depth
          BY <1>1, <1>2, <1>3, <1>a, <2>1, <3>1
        <5>2. ASSUME NEW j \in Nat, j < Used, Used < j + Depth
              PROVE  (rd_ptr_bin + j) % Depth # (rd_ptr_bin + Used) % Depth
          <6>1. /\ rd_ptr_bin + j \in Nat /\ rd_ptr_bin + Used \in Nat
                /\ rd_ptr_bin + j < rd_ptr_bin + Used
                /\ rd_ptr_bin + Used < (rd_ptr_bin + j) + Depth
            BY <1>1, <1>2, <5>2
          <6> QED
            BY <1>1, <6>1, SlotsDiffer
        <5>3. (rd_ptr_bin + (k + o - 1)) % Depth # (rd_ptr_bin + Used) % Depth
          BY <2>1, <5>1, <5>2
        <5> QED
          BY <5>3 DEF slot
      <4>2. slot(k + o - 1) \in 0..(Depth - 1)
        BY <1>1, <2>1, SlotIs
      <4> HIDE DEF slot
      <4> QED
        BY <1>1, <1>8, <3>1, <4>1, <4>2
    <3>2. CASE ~wrote
      BY <3>2
    <3> QED
      BY <3>1, <3>2
  <2> QED
    BY <1>6, <2>1, <2>2, <2>3
<1>10. took => mem[rd_ptr_bin % Depth] = Head(Stored)
  <2> SUFFICES ASSUME took PROVE mem[rd_ptr_bin % Depth] = Head(Stored)
    OBVIOUS
  <2>1. 1 \in 1..Used /\ Stored # <<>> /\ rd_ptr_bin + 1 - 1 = rd_ptr_bin
    BY <1>1, <1>2, <1>3, <1>a
  <2>2. Head(Stored) = Stored[1]
    BY <1>2, <2>1
  <2> QED
    BY <1>2, <2>1, <2>2
<1>11. Stored' = IF wrote THEN Append(rest, d) ELSE rest
  <2> HIDE DEF rest
  <2>1. CASE ~wrote
    <3>1. Used' = Used - o
      BY <1>1, <1>a, <1>2, <1>4, <2>1
    <3> QED
      BY <1>5, <1>6, <1>9, <2>1, <3>1, SeqEqual
  <2>2. CASE wrote
    <3>1. Used' = (Used - o) + 1 /\ Used - o \in Nat
      BY <1>1, <1>a, <1>2, <1>3, <1>4, <2>2
    <3>2. /\ Append(rest, d) \in Seq(Word) /\ Len(Append(rest, d)) = Used'
          /\ \A k \in 1..(Used - o) : Append(rest, d)[k] = rest[k]
          /\ Append(rest, d)[Used'] = d
      BY <1>6, <3>1, AppendProperties
    <3>3. Stored'[Used'] = d
      <4>1. Used' \in 1..Used' /\ Used' + o - 1 = Used
        BY <1>1, <1>2, <1>4, <3>1
      <4>2. Stored'[Used'] = mem'[slot(Used)]
        BY <1>5, <1>7, <4>1
      <4>3. wr_ptr_bin % Depth \in 0..(Depth - 1)
        BY <1>1, <1>2, <1>8, SlotIs
      <4> QED
        BY <1>1, <1>8, <2>2, <4>2, <4>3
    <3>4. \A k \in 1..Used' : Stored'[k] = Append(rest, d)[k]
      <4>1. \A k \in 1..Used' : k \in 1..(Used - o) \/ k = Used'
        BY <3>1
      <4> QED
        BY <1>9, <3>2, <3>3, <4>1
    <3> QED
      BY <1>5, <2>2, <3>2, <3>4, SeqEqual
  <2> QED
    BY <2>1, <2>2
<1> QED
  BY <1>10, <1>11

(* The lags of the two sides under the refinement: a side never knows less *)
(* than before of the moves the other side made before this edge.          *)
LagReads  == Dist(SeenRead(2), rd_ptr_bin)
LagWrites == Dist(SeenWrite(2), wr_ptr_bin)

LEMMA LagsMove ==
  ASSUME FifoInv, WriteHalf, ReadHalf
  PROVE  /\ LagReads \in Nat /\ LagWrites \in Nat
         /\ LagReads' \in 0..(LagReads + (IF rd_ptr_bin' = rd_ptr_bin THEN 0 ELSE 1))
         /\ LagWrites' \in 0..(LagWrites + (IF wr_ptr_bin' = wr_ptr_bin THEN 0 ELSE 1))
         /\ wr_sync' = wr_sync => LagWrites' = LagWrites + (IF wr_ptr_bin' = wr_ptr_bin THEN 0 ELSE 1)
         /\ rd_sync' = rd_sync => LagReads' = LagReads + (IF rd_ptr_bin' = rd_ptr_bin THEN 0 ELSE 1)
<1>1. /\ SeenRead(1) \in Ptr /\ SeenRead(2) \in Ptr
      /\ SeenWrite(1) \in Ptr /\ SeenWrite(2) \in Ptr
      /\ rd_ptr_bin \in Ptr /\ wr_ptr_bin \in Ptr
      /\ Dist(SeenRead(2), SeenRead(1)) + Dist(SeenRead(1), rd_ptr_bin) + Used <= Depth
      /\ Dist(rd_ptr_bin, SeenWrite(2)) + Dist(SeenWrite(2), SeenWrite(1))
           + Dist(SeenWrite(1), wr_ptr_bin) = Used
  BY DEF FifoInv, FifoType, Coded, InTurn, Turn, Used
<1>2. /\ \/ wr_ptr_bin' = wr_ptr_bin
         \/ wr_ptr_bin' = Next1(wr_ptr_bin) /\ ~wrfull
      /\ \/ rd_ptr_bin' = rd_ptr_bin
         \/ rd_ptr_bin' = Next1(rd_ptr_bin) /\ ~rdempty
      /\ \/ SeenRead(1)' = SeenRead(1) /\ SeenRead(2)' = SeenRead(2)
         \/ SeenRead(2)' = SeenRead(1) /\ SeenRead(1)' \in {rd_ptr_bin, rd_ptr_bin'}
      /\ \/ SeenWrite(1)' = SeenWrite(1) /\ SeenWrite(2)' = SeenWrite(2)
         \/ SeenWrite(2)' = SeenWrite(1) /\ SeenWrite(1)' \in {wr_ptr_bin, wr_ptr_bin'}
      /\ rd_ptr_bin' \in Ptr /\ wr_ptr_bin' \in Ptr
  BY HalvesMove DEF FifoType
<1>3. /\ Dist(SeenRead(2), SeenRead(1)) \in Nat /\ Dist(SeenRead(1), rd_ptr_bin) \in Nat
      /\ Dist(rd_ptr_bin, SeenWrite(2)) \in Nat /\ Dist(SeenWrite(2), SeenWrite(1)) \in Nat
      /\ Dist(SeenWrite(1), wr_ptr_bin) \in Nat
      /\ Used \in Nat /\ Depth \in Nat /\ Depth > 0
  BY <1>1, DistIs, Sizes DEF Used
<1>4. /\ LagReads = Dist(SeenRead(2), SeenRead(1)) + Dist(SeenRead(1), rd_ptr_bin)
      /\ LagWrites = Dist(SeenWrite(2), SeenWrite(1)) + Dist(SeenWrite(1), wr_ptr_bin)
  BY <1>1, <1>3, DistAdds DEF LagReads, LagWrites
<1>5. /\ LagReads' = Dist(SeenRead(2)', rd_ptr_bin')
      /\ LagWrites' = Dist(SeenWrite(2)', wr_ptr_bin')
  BY DEF LagReads, LagWrites, Dist
<1>6. /\ rd_sync' = rd_sync => SeenRead(2)' = SeenRead(2)
      /\ wr_sync' = wr_sync => SeenWrite(2)' = SeenWrite(2)
  BY DEF SeenRead, SeenWrite
(* A pointer that moves adds one to the way from wherever it was seen.     *)
<1>7. ASSUME NEW s \in Ptr, NEW p \in Ptr, NEW n \in Ptr, n = p \/ n = Next1(p),
             Dist(s, p) <= Depth
      PROVE  /\ Dist(s, n) = Dist(s, p) + (IF n = p THEN 0 ELSE 1)
             /\ Dist(s, p) \in Nat
  <2>1. Dist(s, p) \in Nat
    BY DistIs
  <2>2. CASE n = p
    BY <2>1, <2>2
  <2>3. CASE n = Next1(p)
    <3>1. n # p
      BY <2>3, DistMoves
    <3>2. Depth \in Nat /\ 2 <= Depth
      BY Sizes
    <3>3. Dist(s, p) + 1 < 2 * Depth
      BY <1>7, <2>1, <3>2
    <3> QED
      BY <2>1, <2>3, <3>1, <3>3, DistMoves
  <2> QED
    BY <1>7, <2>1, <2>2, <2>3
<1>8. /\ LagReads \in Nat /\ LagReads <= Depth /\ LagWrites \in Nat /\ LagWrites <= Depth
      /\ Dist(SeenRead(1), rd_ptr_bin) <= LagReads
      /\ Dist(SeenWrite(1), wr_ptr_bin) <= LagWrites
  BY <1>1, <1>3, <1>4
<1> DEFINE b == IF rd_ptr_bin' = rd_ptr_bin THEN 0 ELSE 1
           a == IF wr_ptr_bin' = wr_ptr_bin THEN 0 ELSE 1
<1>9. /\ Dist(SeenRead(2), rd_ptr_bin') = LagReads + b
      /\ Dist(SeenWrite(2), wr_ptr_bin') = LagWrites + a
  <2>1. Dist(SeenRead(2), rd_ptr_bin) <= Depth /\ Dist(SeenWrite(2), wr_ptr_bin) <= Depth
    BY <1>8 DEF LagReads, LagWrites
  <2> QED
    BY <1>1, <1>2, <1>7, <2>1 DEF LagReads, LagWrites
<1>10. /\ Dist(SeenRead(1), rd_ptr_bin') = Dist(SeenRead(1), rd_ptr_bin) + b
       /\ Dist(SeenWrite(1), wr_ptr_bin') = Dist(SeenWrite(1), wr_ptr_bin) + a
  <2>1. Dist(SeenRead(1), rd_ptr_bin) <= Depth /\ Dist(SeenWrite(1), wr_ptr_bin) <= Depth
    BY <1>3, <1>8
  <2> QED
    BY <1>1, <1>2, <1>7, <2>1
<1>11. a \in {0, 1} /\ b \in {0, 1}
  OBVIOUS
<1> HIDE DEF a, b
<1>12. LagReads' \in 0..(LagReads + b)
  <2>1. CASE SeenRead(2)' = SeenRead(2)
    BY <1>5, <1>8, <1>9, <1>11, <2>1
  <2>2. CASE SeenRead(2)' = SeenRead(1)
    BY <1>3, <1>5, <1>8, <1>10, <1>11, <2>2
  <2> QED
    BY <1>2, <2>1, <2>2
<1>13. LagWrites' \in 0..(LagWrites + a)
  <2>1. CASE SeenWrite(2)' = SeenWrite(2)
    BY <1>5, <1>8, <1>9, <1>11, <2>1
  <2>2. CASE SeenWrite(2)' = SeenWrite(1)
    BY <1>3, <1>5, <1>8, <1>10, <1>11, <2>2
  <2> QED
    BY <1>2, <2>1, <2>2
<1>14. /\ wr_sync' = wr_sync => LagWrites' = LagWrites + a
       /\ rd_sync' = rd_sync => LagReads' = LagReads + b
  BY <1>5, <1>6, <1>9
<1> QED
  BY <1>8, <1>12, <1>13, <1>14 DEF a, b

(* The port wrusedw, on which the frame reader throttles, and the two      *)
(* flags are those of the abstract queue at every moment: in particular    *)
(* the occupancy saturates when the memory is full and never wraps to zero *)
(* (simple_dcfifo.v: wrusedw, wrfull, rdempty).                            *)
THEOREM FifoPortsAgree == Spec => []PortsAgree
<1>1. FifoInv => PortsAgree
  BY AbstractIs DEF PortsAgree
<1> QED
  BY <1>1, FifoStart, FifoStep, PTL DEF Spec

(* When one edge moves both pointers, the word is read from another slot   *)
(* than the one written: what the block RAM of simple_dcfifo.v returns for *)
(* a read during a write to the same address never matters.                *)
THEOREM FifoNoSlotRace == Spec => NoSlotRace
<1>1. ASSUME FifoInv, [Next]_vars
      PROVE  [(wr_ptr_bin' # wr_ptr_bin /\ rd_ptr_bin' # rd_ptr_bin)
                => wr_ptr_bin % Depth # rd_ptr_bin % Depth]_vars
  <2> SUFFICES ASSUME wr_ptr_bin' # wr_ptr_bin, rd_ptr_bin' # rd_ptr_bin
               PROVE  wr_ptr_bin % Depth # rd_ptr_bin % Depth
    OBVIOUS
  <2>1. ~wrfull /\ ~rdempty
    BY <1>1, TwoHalves, HalvesMove
  <2>2. /\ Used \in Nat /\ Depth \in Nat /\ Used = Dist(rd_ptr_bin, wr_ptr_bin)
        /\ rd_ptr_bin \in Ptr /\ wr_ptr_bin \in Ptr
    BY <1>1, AbstractIs, Sizes DEF Used, FifoInv, FifoType
  <2>3. /\ Dist(SeenRead(2), rd_ptr_bin) \in Nat /\ Dist(rd_ptr_bin, SeenWrite(2)) \in Nat
        /\ Dist(SeenWrite(2), wr_ptr_bin) \in Nat
        /\ Dist(rd_ptr_bin, SeenWrite(2)) = 0 <=> SeenWrite(2) = rd_ptr_bin
    BY <1>1, DistIs DEF FifoInv, FifoType, Coded
  <2>4. 0 < Used /\ Used < Depth
    BY <1>1, <2>1, <2>2, <2>3, FlagsAre
  <2>5. (rd_ptr_bin + Used) % Depth = wr_ptr_bin % Depth
    BY <2>2, SlotIs
  <2>6. (rd_ptr_bin + 0) % Depth # (rd_ptr_bin + Used) % Depth
    BY <2>2, <2>4, SlotIs
  <2>7. rd_ptr_bin + 0 = rd_ptr_bin
    BY <2>2, PtrIs
  <2> QED
    BY <2>5, <2>6, <2>7
<1> QED
  BY <1>1, FifoStart, FifoStep, PTL DEF Spec, NoSlotRace

(* The refinement mapping takes initial states to initial states, and      *)
(* every step to a step of the abstract queue or a stutter.                *)
LEMMA PromiseAtStart == Init => Abstract!Init
<1> SUFFICES ASSUME Init PROVE Abstract!Init
  OBVIOUS
<1>1. FifoInv
  BY FifoStart
<1>2. wr_ptr_bin = 0 /\ rd_ptr_bin = 0
  BY DEF Init
<1>3. q \in Word
  BY <1>1 DEF FifoInv, FifoType
<1>4. /\ Used \in Nat /\ LagReads \in Nat /\ LagWrites \in Nat
      /\ LagReads + Used = Dist(SeenRead(2), wr_ptr_bin) /\ LagWrites <= Used
      /\ Used = 0 /\ rd_ptr_bin \in Ptr /\ wr_ptr_bin \in Ptr
  <2>1. /\ rd_ptr_bin \in Ptr /\ wr_ptr_bin \in Ptr
        /\ SeenRead(2) \in Ptr /\ SeenWrite(2) \in Ptr
    BY <1>1 DEF FifoInv, FifoType, Coded
  <2>2. /\ Dist(SeenRead(2), wr_ptr_bin) = LagReads + Used /\ LagWrites <= Used
    BY <1>1, FlagsAre DEF LagReads, LagWrites
  <2>3. Used \in Nat /\ Used = 0 /\ LagReads \in Nat /\ LagWrites \in Nat
    BY <1>2, <2>1, DistIs DEF Used, LagReads, LagWrites
  <2> QED
    BY <2>1, <2>2, <2>3
<1>5. SeenRead(2) = 0
  <2>1. rd_sync[2] = bin2gray(0)
    BY <1>1, <1>2 DEF Init, FifoInv, Coded
  <2> QED
    BY <1>2, <1>4, <2>1, GrayDecodes DEF SeenRead
<1>6. LagReads = 0 /\ LagWrites = 0
  BY <1>2, <1>4, <1>5, DistIs DEF LagReads
<1>7. Stored = <<>>
  BY <1>4 DEF Stored
<1> QED
  BY <1>3, <1>6, <1>7 DEF Abstract!Init, Stored, LagReads, LagWrites, SeenRead, SeenWrite

LEMMA PromiseKept ==
  ASSUME FifoInv, [Next]_vars
  PROVE  [Abstract!Next]_(Abstract!vars)
<1>0. FifoInv' /\ WriteHalf /\ ReadHalf
  BY FifoStep, TwoHalves
<1>1. /\ Used \in Nat /\ Stored \in Seq(Word) /\ Len(Stored) = Used
      /\ Abstract!wrfull = wrfull /\ Abstract!rdempty = rdempty
  BY AbstractIs
<1>2. /\ LagReads \in Nat /\ LagWrites \in Nat
      /\ LagReads' \in 0..(LagReads + (IF rd_ptr_bin' = rd_ptr_bin THEN 0 ELSE 1))
      /\ LagWrites' \in 0..(LagWrites + (IF wr_ptr_bin' = wr_ptr_bin THEN 0 ELSE 1))
      /\ wr_sync' = wr_sync => LagWrites' = LagWrites + (IF wr_ptr_bin' = wr_ptr_bin THEN 0 ELSE 1)
      /\ rd_sync' = rd_sync => LagReads' = LagReads + (IF rd_ptr_bin' = rd_ptr_bin THEN 0 ELSE 1)
  BY <1>0, LagsMove
<1>3. /\ wr_ptr_bin \in Ptr /\ Next1(wr_ptr_bin) # wr_ptr_bin
      /\ rd_ptr_bin \in Ptr /\ Next1(rd_ptr_bin) # rd_ptr_bin
  BY DistMoves DEF FifoInv, FifoType
(* What the two halves do, in the words of the abstract FIFO.              *)
<1>4. ASSUME NEW wrreq \in BOOLEAN, NEW rdreq \in BOOLEAN, NEW d \in Word,
             Write(wrreq, d) \/ (wrreq = FALSE /\ UNCHANGED <<mem, wr_ptr_bin>>),
             Read(rdreq) \/ (rdreq = FALSE /\ UNCHANGED <<rd_ptr_bin, q>>)
      PROVE  LET wrote == wrreq /\ ~wrfull
                 took  == rdreq /\ ~rdempty
                 rest  == IF took THEN Tail(Stored) ELSE Stored
             IN  /\ Stored' = IF wrote THEN Append(rest, d) ELSE rest
                 /\ q' = IF took THEN Head(Stored) ELSE q
                 /\ wr_ptr_bin' = wr_ptr_bin <=> ~wrote
                 /\ rd_ptr_bin' = rd_ptr_bin <=> ~took
  <2> DEFINE wrote == wrreq /\ ~wrfull
             took  == rdreq /\ ~rdempty
  <2>0. wrote \in BOOLEAN /\ took \in BOOLEAN
    BY DEF wrfull, rdempty
  <2>1. /\ wr_ptr_bin' = (IF wrote THEN Next1(wr_ptr_bin) ELSE wr_ptr_bin)
        /\ mem' = IF wrote THEN [mem EXCEPT ![wr_ptr_bin % Depth] = d] ELSE mem
    BY <1>4, WriteMoves
  <2>2. /\ rd_ptr_bin' = (IF took THEN Next1(rd_ptr_bin) ELSE rd_ptr_bin)
        /\ q' = IF took THEN mem[rd_ptr_bin % Depth] ELSE q
    BY <1>4, ReadMoves
  <2>3. (wrote => ~wrfull) /\ (took => ~rdempty)
    OBVIOUS
  <2> HIDE DEF wrote, took
  <2>4. LET rest == IF took THEN Tail(Stored) ELSE Stored
        IN  /\ Stored' = IF wrote THEN Append(rest, d) ELSE rest
            /\ took => mem[rd_ptr_bin % Depth] = Head(Stored)
    BY <1>0, <2>0, <2>1, <2>2, <2>3, StoredMoves
  <2>5. q' = IF took THEN Head(Stored) ELSE q
    BY <2>0, <2>2, <2>4
  <2>6. (wr_ptr_bin' = wr_ptr_bin <=> ~wrote) /\ (rd_ptr_bin' = rd_ptr_bin <=> ~took)
    BY <1>3, <2>0, <2>1, <2>2
  <2> QED
    BY <2>4, <2>5, <2>6 DEF wrote, took
<1>5. ASSUME NEW wrreq \in BOOLEAN, NEW d \in Word, WriteEdge(wrreq, d)
      PROVE  Abstract!WriteEdge(wrreq, d)
  <2>1. /\ Write(wrreq, d) /\ UNCHANGED <<rd_ptr_bin, q>> /\ wr_sync' = wr_sync
        /\ rd_ptr_bin' = rd_ptr_bin
    BY <1>5 DEF WriteEdge
  <2>2. /\ Stored' = IF wrreq /\ ~wrfull THEN Append(Stored, d) ELSE Stored
        /\ q' = q
        /\ wr_ptr_bin' = wr_ptr_bin <=> ~(wrreq /\ ~wrfull)
    BY <1>4, <2>1
  <2>3. /\ LagReads' \in 0..LagReads
        /\ LagWrites' = LagWrites + (IF wr_ptr_bin' = wr_ptr_bin THEN 0 ELSE 1)
    BY <1>2, <2>1
  <2>4. \/ /\ wrreq /\ ~wrfull
           /\ Stored' = Append(Stored, d)
           /\ LagWrites' = LagWrites + 1
        \/ /\ ~(wrreq /\ ~wrfull)
           /\ Stored' = Stored /\ LagWrites' = LagWrites
    BY <1>2, <2>2, <2>3
  <2> QED
    BY <1>1, <2>2, <2>3, <2>4
       DEF Abstract!WriteEdge, Stored, LagReads, LagWrites, SeenRead, SeenWrite
<1>6. ASSUME NEW rdreq \in BOOLEAN, ReadEdge(rdreq)
      PROVE  Abstract!ReadEdge(rdreq)
  <2>0. PICK d \in Word : TRUE
    BY WordAssumption
  <2>1. /\ Read(rdreq) /\ UNCHANGED <<mem, wr_ptr_bin>> /\ rd_sync' = rd_sync
        /\ wr_ptr_bin' = wr_ptr_bin
    BY <1>6 DEF ReadEdge
  <2>2. /\ Stored' = IF rdreq /\ ~rdempty THEN Tail(Stored) ELSE Stored
        /\ q' = IF rdreq /\ ~rdempty THEN Head(Stored) ELSE q
        /\ rd_ptr_bin' = rd_ptr_bin <=> ~(rdreq /\ ~rdempty)
    BY <1>4, <2>0, <2>1
  <2>3. /\ LagWrites' \in 0..LagWrites
        /\ LagReads' = LagReads + (IF rd_ptr_bin' = rd_ptr_bin THEN 0 ELSE 1)
    BY <1>2, <2>1
  <2>4. \/ /\ rdreq /\ ~rdempty
           /\ q' = Head(Stored) /\ Stored' = Tail(Stored)
           /\ LagReads' = LagReads + 1
        \/ /\ ~(rdreq /\ ~rdempty)
           /\ q' = q /\ Stored' = Stored /\ LagReads' = LagReads
    BY <1>2, <2>2, <2>3
  <2> QED
    BY <1>1, <2>3, <2>4
       DEF Abstract!ReadEdge, Stored, LagReads, LagWrites, SeenRead, SeenWrite
<1>7. ASSUME NEW wrreq \in BOOLEAN, NEW rdreq \in BOOLEAN, NEW d \in Word,
             BothEdges(wrreq, d, rdreq)
      PROVE  Abstract!BothEdges(wrreq, d, rdreq)
  <2>1. Write(wrreq, d) /\ Read(rdreq)
    BY <1>7 DEF BothEdges
  <2>2. /\ Stored' = IF wrreq /\ ~wrfull
                     THEN Append(IF rdreq /\ ~rdempty THEN Tail(Stored) ELSE Stored, d)
                     ELSE IF rdreq /\ ~rdempty THEN Tail(Stored) ELSE Stored
        /\ q' = IF rdreq /\ ~rdempty THEN Head(Stored) ELSE q
        /\ wr_ptr_bin' = wr_ptr_bin <=> ~(wrreq /\ ~wrfull)
        /\ rd_ptr_bin' = rd_ptr_bin <=> ~(rdreq /\ ~rdempty)
    BY <1>4, <2>1
  <2>3. /\ LagReads' \in 0..(LagReads + (IF rdreq /\ ~rdempty THEN 1 ELSE 0))
        /\ LagWrites' \in 0..(LagWrites + (IF wrreq /\ ~wrfull THEN 1 ELSE 0))
    BY <1>2, <2>2
  <2> QED
    BY <1>1, <2>2, <2>3
       DEF Abstract!BothEdges, Stored, LagReads, LagWrites, SeenRead, SeenWrite
<1>8. CASE UNCHANGED vars
  <2>1. /\ wr_ptr_bin' = wr_ptr_bin /\ rd_ptr_bin' = rd_ptr_bin /\ mem' = mem /\ q' = q
        /\ wr_sync' = wr_sync /\ rd_sync' = rd_sync
    BY <1>8 DEF vars
  <2>2. Stored' = Stored
    BY <2>1 DEF Stored, Used, Dist
  <2>3. LagReads' = LagReads /\ LagWrites' = LagWrites
    BY <2>1 DEF LagReads, LagWrites, SeenRead, SeenWrite, Dist
  <2> QED
    BY <2>1, <2>2, <2>3 DEF Abstract!vars, Stored, LagReads, LagWrites, SeenRead, SeenWrite
<1> QED
  BY <1>5, <1>6, <1>7, <1>8 DEF Next, Abstract!Next

(* simple_dcfifo.v implements StaleFifo, for every address width: whatever *)
(* the synchronizers capture while a pointer changes, no word is lost,     *)
(* duplicated or reordered, the write side never sees the FIFO emptier     *)
(* than it is and the read side never sees it fuller.                      *)
THEOREM FifoKeepsPromise == Spec => KeepsPromise
<1> QED
  BY PromiseAtStart, PromiseKept, FifoStart, FifoStep, PTL
     DEF Spec, KeepsPromise, Abstract!Spec
=============================================================================
