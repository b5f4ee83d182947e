---------------------------- MODULE EnableProofs ----------------------------
(***************************************************************************)
(* Proofs about DqsEnable, for any ring, phases, taps and windows.         *)
(*                                                                         *)
(* The search never sets a register to what it does not have: the middle   *)
(* stays legal since a phase is less than the delay line                   *)
(* (DelayAssumption).                                                      *)
(*                                                                         *)
(* It misses no window of three phases and a tap, and ends near the middle *)
(* of one of four phases to a cycle.  Both follow from SearchInv, which    *)
(* says of every step where its next test is in time, counted without      *)
(* wrapping round the ring (At), and how far the edges found so far are    *)
(* from those of the window.                                               *)
(***************************************************************************)
EXTENDS DqsEnable, TLAPS

(* What each step of the search knows of the phase and the tap to come.    *)
LoopsFit ==
  /\ i \in Nat /\ p \in 0..PHASE_MAX /\ d \in Nat
  /\ step \in {"begin", "overlap", "refine", "forward", "ended", "taps", "range"} => p > 0
  /\ step = "lost" => d = 0
  /\ step = "begin" => d <= dtaps_per_ptap
  /\ step = "refine" => d <= DELAY_MAX

EnableInv ==
  /\ RegistersLegal
  /\ LoopsFit
  /\ work_bgn \in Int /\ work_end \in Int

LEMMA Sizes ==
  /\ VFIFO_SIZE \in Nat /\ PHASE_MAX \in Nat /\ DELAY_MAX \in Nat
  /\ OPA_TAP \in Nat /\ DCHAIN_TAP \in Nat
  /\ VFIFO_SIZE > 0 /\ PHASE_MAX > 1 /\ OPA_TAP > 0 /\ DCHAIN_TAP > 0 /\ DCHAIN_TAP <= OPA_TAP
BY EnableAssumption

LEMMA Quotient ==
  ASSUME NEW a \in Int, NEW b \in Nat, b > 0
  PROVE  /\ a \div b \in Int
         /\ (a \div b) * b <= a
         /\ a < (a \div b) * b + b
BY SMT

(* A quotient lies between two bounds as the dividend does.                *)
LEMMA QuotientBounds ==
  ASSUME NEW a \in Int, NEW b \in Nat, b > 0, NEW lo \in Int, NEW hi \in Int,
         lo * b <= a, a < (hi + 1) * b
  PROVE  lo <= a \div b /\ a \div b <= hi
<1> DEFINE q == a \div b
<1>1. q \in Int /\ q * b <= a /\ a < q * b + b
  BY Quotient
<1> HIDE DEF q
<1>2. CASE q < lo
  <2>1. (q + 1) * b <= lo * b
    BY <1>1, <1>2, SMT
  <2> QED
    BY <1>1, <2>1, SMT
<1>3. CASE q > hi
  <2>1. (hi + 1) * b <= q * b
    BY <1>1, <1>3, SMT
  <2> QED
    BY <1>1, <2>1, SMT
<1> QED
  BY <1>1, <1>2, <1>3 DEF q

(* The middle is somewhere in phases 0 to PHASE_MAX, and what is left of a *)
(* phase is a delay that exists.                                           *)
LEMMA ChosenFits ==
  ASSUME NEW mid \in 1..Cycle,
         NEW phases, phases = Upward(mid, OPA_TAP),
         NEW taps, taps = Upward(mid - (phases - 1) * OPA_TAP, DCHAIN_TAP)
  PROVE  phases \in 1..(PHASE_MAX + 1) /\ taps \in 0..DELAY_MAX
<1>1. mid \in Int /\ 1 <= mid /\ mid <= (PHASE_MAX + 1) * OPA_TAP
  <2>1. Cycle \in Int
    BY Sizes, SMT DEF Cycle
  <2> QED
    BY <2>1 DEF Cycle
<1>2. phases \in Int /\ 1 <= phases /\ phases <= PHASE_MAX + 1
  <2> DEFINE a == mid + OPA_TAP - 1
  <2>1. a \in Int /\ 1 * OPA_TAP <= a
    BY <1>1, Sizes, SMT
  <2>2. a < (PHASE_MAX + 1 + 1) * OPA_TAP
    BY <1>1, Sizes, SMT
  <2>3. phases = a \div OPA_TAP
    BY DEF Upward
  <2> HIDE DEF a
  <2>4. phases \in Int
    BY <2>1, <2>3, Sizes, Quotient
  <2> QED
    BY <2>1, <2>2, <2>3, <2>4, Sizes, QuotientBounds
<1>3. /\ mid - (phases - 1) * OPA_TAP \in Int
      /\ 1 <= mid - (phases - 1) * OPA_TAP
      /\ mid - (phases - 1) * OPA_TAP <= OPA_TAP
  <2>1. /\ phases * OPA_TAP <= mid + OPA_TAP - 1
        /\ mid + OPA_TAP - 1 < phases * OPA_TAP + OPA_TAP
    BY <1>1, Sizes, Quotient DEF Upward
  <2>2. (phases - 1) * OPA_TAP = phases * OPA_TAP - OPA_TAP /\ phases * OPA_TAP \in Int
    BY <1>2, Sizes, SMT
  <2> QED
    BY <1>1, <2>1, <2>2, Sizes, SMT
<1>4. taps \in Int /\ 0 <= taps /\ taps <= DELAY_MAX
  <2> DEFINE rest == mid - (phases - 1) * OPA_TAP
             a == rest + DCHAIN_TAP - 1
             b == OPA_TAP + DCHAIN_TAP - 1
  <2>1. rest \in Int /\ 1 <= rest /\ rest <= OPA_TAP
    BY <1>3
  <2>2. taps = a \div DCHAIN_TAP
    BY DEF Upward
  <2> HIDE DEF rest
  <2>3. a \in Int /\ b \in Int /\ a <= b /\ 0 * DCHAIN_TAP <= a
    BY <2>1, Sizes, SMT
  <2>4. b \div DCHAIN_TAP \in Int /\ b < ((b \div DCHAIN_TAP) + 1) * DCHAIN_TAP
    <3>1. b \div DCHAIN_TAP \in Int /\ b < (b \div DCHAIN_TAP) * DCHAIN_TAP + DCHAIN_TAP
      BY <2>3, Sizes, Quotient
    <3> HIDE DEF b
    <3> QED
      BY <2>3, <3>1, Sizes, SMT
  <2>5. b \div DCHAIN_TAP <= DELAY_MAX
    BY <2>4, Sizes, DelayAssumption DEF dtaps_per_ptap
  <2> HIDE DEF a, b
  <2>6. a < ((b \div DCHAIN_TAP) + 1) * DCHAIN_TAP
    <3> DEFINE x == ((b \div DCHAIN_TAP) + 1) * DCHAIN_TAP
    <3>1. x \in Int
      BY <2>4, Sizes, SMT
    <3> HIDE DEF x
    <3>2. b < x
      BY <2>4 DEF x
    <3>3. a < x
      BY <2>3, <3>1, <3>2
    <3> QED
      BY <3>3 DEF x
  <2>7. taps \in Int
    BY <2>2, <2>3, Sizes, Quotient
  <2>8. 0 <= taps /\ taps <= b \div DCHAIN_TAP
    BY <2>2, <2>3, <2>4, <2>6, Sizes, QuotientBounds
  <2> QED
    BY <2>4, <2>5, <2>7, <2>8, Sizes
<1> QED
  BY <1>2, <1>4

LEMMA ChooseFits ==
  ASSUME EnableInv, Choose
  PROVE  RegistersLegal'
<1> DEFINE mid == (((work_bgn + work_end) \div 2 - 1) % Cycle) + 1
           phases == Upward(mid, OPA_TAP)
           taps == Upward(mid - (phases - 1) * OPA_TAP, DCHAIN_TAP)
<1>1. mid \in 1..Cycle
  <2>1. Cycle \in Nat /\ Cycle > 0
    BY Sizes, SMT DEF Cycle
  <2>2. (work_bgn + work_end) \div 2 - 1 \in Int
    BY DEF EnableInv
  <2> QED
    BY <2>1, <2>2, SMT
<1>2. /\ step = "choose"
      /\ IF phases = 1 THEN phase' = 1 /\ delay' = 0
         ELSE /\ phase' = phases - 1
              /\ delay' = IF taps > DELAY_MAX + 1 THEN DELAY_MAX + 1 ELSE taps
  BY DEF Choose
<1> HIDE DEF mid
<1>3. phases \in 1..(PHASE_MAX + 1) /\ taps \in 0..DELAY_MAX
  BY <1>1, ChosenFits
<1> HIDE DEF phases, taps
<1> QED
  BY <1>2, <1>3, Sizes DEF RegistersLegal

LEMMA EnableStep ==
  EnableInv /\ [find_dqs_en_phase]_enableVars => EnableInv'
<1> SUFFICES ASSUME EnableInv, [find_dqs_en_phase]_enableVars PROVE EnableInv'
  OBVIOUS
<1>a. /\ Cycle \in Int /\ dtaps_per_ptap \in Nat /\ dtaps_per_ptap < DELAY_MAX
      /\ \A n \in Int : n * Cycle \in Int /\ n * OPA_TAP \in Int /\ n * DCHAIN_TAP \in Int
  <2>1. /\ (OPA_TAP + DCHAIN_TAP - 1) \div DCHAIN_TAP \in Int
        /\ (OPA_TAP + DCHAIN_TAP - 1) \div DCHAIN_TAP >= 1
    BY Sizes, SMT
  <2>2. Cycle \in Int
    BY Sizes, SMT DEF Cycle
  <2> QED
    BY <2>1, <2>2, Sizes, DelayAssumption, SMT DEF dtaps_per_ptap
<1> USE Sizes DEF EnableInv, LoopsFit, RegistersLegal
<1>1. CASE SeekFailure
  BY <1>a, <1>1 DEF SeekFailure, edges
<1>2. CASE SeekBegin
  <2>1. p \in 1..PHASE_MAX /\ d \in 0..dtaps_per_ptap /\ phase' = p /\ delay' = d /\ step = "begin"
    BY <1>2 DEF SeekBegin
  <2>2. RegistersLegal'
    BY <1>a, <2>1
  <2>3. work_bgn' \in Int /\ work_end' \in Int
    <3>1. i * Cycle + p * OPA_TAP + d * DCHAIN_TAP \in Int
      <4>1. i * Cycle \in Int /\ p * OPA_TAP \in Int /\ d * DCHAIN_TAP \in Int
        BY <1>a, <2>1
      <4> QED
        BY <4>1
    <3> QED
      BY <1>2, <3>1 DEF SeekBegin, edges
  <2>4. LoopsFit'
    BY <1>a, <1>2, <2>1 DEF SeekBegin, loops
  <2> QED
    BY <2>2, <2>3, <2>4
<1>3. CASE BackUp
  BY <1>3 DEF BackUp, edges
<1>4. CASE RefineBegin
  BY <1>a, <1>4 DEF RefineBegin
<1>5. CASE Forward
  BY <1>5 DEF Forward
<1>6. CASE SeekEnd
  BY <1>6 DEF SeekEnd, edges
<1>7. CASE EndFound
  BY <1>7 DEF EndFound
<1>8. CASE EndTap
  BY <1>8 DEF EndTap
<1>9. CASE Rewind
  BY <1>9 DEF Rewind
<1>10. CASE Track
  BY <1>10 DEF Track, edges
<1>11. CASE Choose
  BY <1>11, ChooseFits DEF Choose, edges
<1>12. CASE Verify
  BY <1>12 DEF Verify, edges
<1>13. CASE UNCHANGED enableVars
  BY <1>13 DEF enableVars, registers, loops, edges
<1> QED
  BY <1>1, <1>2, <1>3, <1>4, <1>5, <1>6, <1>7, <1>8, <1>9, <1>10, <1>11, <1>12, <1>13
     DEF find_dqs_en_phase

(* The search never sets phase 0, nor a phase or delay that does not exist.*)
THEOREM EnableRegistersLegal == EnableSpec => []RegistersLegal
<1>1. EnableInit => EnableInv
  BY Sizes DEF EnableInit, EnableInv, LoopsFit, RegistersLegal
<1>2. EnableInv /\ [find_dqs_en_phase]_enableVars => EnableInv'
  BY EnableStep
<1>3. EnableInv => RegistersLegal
  BY DEF EnableInv
<1> QED
  BY <1>1, <1>2, <1>3, PTL DEF EnableSpec
-----------------------------------------------------------------------------
(* The remainder, from the quotient.                                       *)
LEMMA Residue ==
  ASSUME NEW y \in Int, NEW c \in Nat, c > 0, NEW k \in Int, NEW r \in Int,
         0 <= r, r < c, y = k * c + r
  PROVE  y % c = r
<1> DEFINE q == y \div c
<1>1. q \in Int /\ q * c <= y /\ y < q * c + c /\ y % c = y - q * c
  BY SMT
<1>2. k * c \in Int /\ (k + 1) * c = k * c + c
  BY SMT
<1>3. k * c <= y /\ y < (k + 1) * c
  BY <1>2
<1>4. k <= q /\ q <= k
  BY <1>3, QuotientBounds
<1> HIDE DEF q
<1>5. q = k
  BY <1>1, <1>4
<1> QED
  BY <1>1, <1>2, <1>5

LEMMA Congruence ==
  ASSUME NEW y \in Int, NEW c \in Nat, c > 0
  PROVE  /\ y % c \in 0..(c - 1)
         /\ (y + c) % c = y % c /\ (y - c) % c = y % c
         /\ \A r \in 0..(c - 1) : y % c = 0 => (y + r) % c = r
         /\ \A n \in Int : (y + n * c) % c = y % c
<1> DEFINE q == y \div c
           m == y % c
<1>1. q \in Int /\ m \in Int /\ 0 <= m /\ m < c /\ y = q * c + m
  BY SMT
<1> HIDE DEF q, m
<1>2. ASSUME NEW n \in Int PROVE (y + n * c) % c = m
  <2>1. q * c \in Int /\ n * c \in Int /\ (q + n) * c = q * c + n * c
    BY <1>1, SMT
  <2>2. y + n * c \in Int /\ q + n \in Int /\ y + n * c = (q + n) * c + m
    BY <1>1, <2>1
  <2> QED
    BY <1>1, <2>2, Residue
<1>3. (y + c) % c = m /\ (y - c) % c = m
  <2>1. (y + 1 * c) % c = m /\ (y + (-1) * c) % c = m
    BY <1>2
  <2>2. y + 1 * c = y + c /\ y + (-1) * c = y - c
    OBVIOUS
  <2> QED
    BY <2>1, <2>2
<1>4. ASSUME NEW r \in 0..(c - 1), m = 0 PROVE (y + r) % c = r
  <2>1. q * c \in Int
    BY <1>1, SMT
  <2>2. y + r \in Int /\ y + r = q * c + r
    BY <1>1, <1>4, <2>1
  <2> QED
    BY <1>1, <2>2, Residue
<1> QED
  BY <1>1, <1>2, <1>3, <1>4 DEF m

(* The multiples that times are made of.                                   *)
Phases(n) == n * OPA_TAP
Taps(n)   == n * DCHAIN_TAP
Cycles(n) == n * Cycle

LEMMA Multiples ==
  /\ \A n \in Int : Phases(n) \in Int /\ Taps(n) \in Int /\ Cycles(n) \in Int
  /\ \A m, n \in Int : n = m + 1 => /\ Phases(n) = Phases(m) + OPA_TAP
                                    /\ Taps(n) = Taps(m) + DCHAIN_TAP
                                    /\ Cycles(n) = Cycles(m) + Cycle
  /\ \A n \in Nat : Phases(n) >= 0 /\ Taps(n) >= 0 /\ Cycles(n) >= 0
  /\ Phases(0) = 0 /\ Phases(1) = OPA_TAP /\ Taps(0) = 0 /\ Cycles(0) = 0
  /\ Cycle \in Nat /\ Cycle = Phases(PHASE_MAX) + OPA_TAP /\ Cycle >= 3 * OPA_TAP
  /\ Ring \in Nat /\ Ring = Cycles(VFIFO_SIZE) /\ Ring >= Cycle
<1>1. Cycle \in Nat /\ Cycle >= 3 * OPA_TAP /\ Cycle > 0
  <2>1. PHASE_MAX + 1 \in Nat /\ PHASE_MAX + 1 >= 3
    BY Sizes
  <2>2. \A m \in Nat : m >= 3 => m * OPA_TAP >= 3 * OPA_TAP
    BY Sizes, SMT
  <2>3. (PHASE_MAX + 1) * OPA_TAP >= 3 * OPA_TAP /\ (PHASE_MAX + 1) * OPA_TAP \in Nat
    BY <2>1, <2>2, Sizes, SMT
  <2> QED
    BY <2>3, Sizes DEF Cycle
<1>2. \A n \in Int : \A u \in Nat : n * u \in Int /\ (n + 1) * u = n * u + u
                                    /\ (n >= 0 => n * u >= 0)
  BY SMT
<1>3. /\ \A n \in Int : Phases(n) \in Int /\ Taps(n) \in Int /\ Cycles(n) \in Int
      /\ \A m, n \in Int : n = m + 1 => /\ Phases(n) = Phases(m) + OPA_TAP
                                        /\ Taps(n) = Taps(m) + DCHAIN_TAP
                                        /\ Cycles(n) = Cycles(m) + Cycle
      /\ \A n \in Nat : Phases(n) >= 0 /\ Taps(n) >= 0 /\ Cycles(n) >= 0
  BY <1>1, <1>2, Sizes DEF Phases, Taps, Cycles
<1>4. Phases(0) = 0 /\ Phases(1) = OPA_TAP /\ Taps(0) = 0 /\ Cycles(0) = 0
  BY <1>1, Sizes DEF Phases, Taps, Cycles
<1>5. Cycle = Phases(PHASE_MAX) + OPA_TAP
  BY <1>3, Sizes DEF Phases, Cycle
<1>6. Ring \in Nat /\ Ring = Cycles(VFIFO_SIZE) /\ Ring >= Cycle
  <2>1. \A m \in Nat : m >= 1 => m * Cycle >= Cycle /\ m * Cycle \in Nat
    BY <1>1, SMT
  <2> QED
    BY <2>1, Sizes DEF Ring, Cycles
<1> QED
  BY <1>1, <1>3, <1>4, <1>5, <1>6

LEMMA MultiplesBelow ==
  ASSUME NEW n \in Int
  PROVE  /\ Phases(n - 1) \in Int /\ Phases(n) = Phases(n - 1) + OPA_TAP
         /\ Cycles(n - 1) \in Int /\ Cycles(n) = Cycles(n - 1) + Cycle
<1> DEFINE m == n - 1
<1>1. m \in Int /\ n = m + 1
  OBVIOUS
<1> HIDE DEF m
<1>2. Phases(n) = Phases(m) + OPA_TAP /\ Cycles(n) = Cycles(m) + Cycle
  BY <1>1, Multiples
<1>3. Phases(m) \in Int /\ Cycles(m) \in Int
  BY <1>1, Multiples
<1> QED
  BY <1>2, <1>3 DEF m
-----------------------------------------------------------------------------
(* Times round the ring.  The search counts its times from the cycle in    *)
(* which it starts, at or after OPA_TAP; o is the difference to the count  *)
(* of the registers, and At says that a setting opens the gate at time x.  *)
Wide == window.len >= 3 * OPA_TAP + DCHAIN_TAP

Time(cycle, ph) == Cycles(cycle) + Phases(ph)
At(o, v, ph, dl, x) == (Opening(v, ph, dl) + o - x) % Ring = 0

(* B: where the window that the search finds begins, in its own count.     *)
Placed(B, o) ==
  /\ B > OPA_TAP /\ B + window.len <= OPA_TAP + Ring
  /\ B = window.bgn + o /\ o % Cycle = 0

(* A test of the search is one phase after the last, two across phase 0.   *)
Back(ph) == IF ph = 1 THEN 2 * OPA_TAP ELSE OPA_TAP

(* Two cycles that fail are still to come, or one when one was found.      *)
Lost ==
  /\ vfifo = i /\ i < VFIFO_SIZE /\ j \in {0, 1} /\ phase = 1 /\ delay = 0
  /\ \E g, h \in 0..(VFIFO_SIZE - 1) :
       /\ g # h /\ ~Reads(g, 1, 0) /\ ~Reads(h, 1, 0)
       /\ i <= g /\ (j = 0 => i <= h)

(* No test before this one was at B or later, so delay 0 is enough.        *)
Beginning(B, o) ==
  /\ d = 0 /\ p \in 1..PHASE_MAX /\ i < VFIFO_SIZE
  /\ At(o, vfifo, p, 0, Time(i, p)) /\ Time(i, p) < B + Back(p)

(* This one was the first.                                                 *)
Overlapping(B, o) ==
  /\ work_bgn = work_end /\ work_end = Time(i, p)
  /\ At(o, vfifo, p, 0, work_end)
  /\ B <= work_end /\ work_end < B + Back(p)

(* The begin found is less than a tap late.  Or, lag being a phase, the    *)
(* search could not back up from phase 1: it is up to two phases late, and *)
(* work_end stays a phase behind the registers.                            *)
BeginFound(B, lag) ==
  \/ lag = 0 /\ B <= work_bgn /\ work_bgn < B + DCHAIN_TAP
  \/ /\ lag = OPA_TAP /\ B <= work_bgn /\ work_bgn < B + 2 * OPA_TAP
     /\ (work_bgn - OPA_TAP) % Cycle = 0

Refining(B, o) ==
  /\ p < PHASE_MAX /\ phase = p
  /\ work_bgn = work_end /\ work_end = Time(i, p) + OPA_TAP
  /\ At(o, vfifo, p, 0, work_end - OPA_TAP)
  /\ B <= work_end /\ work_end < B + OPA_TAP
  /\ work_end - OPA_TAP + Taps(d) < B + DCHAIN_TAP /\ Taps(d) < OPA_TAP

Forwarding(B, o, lag) ==
  /\ BeginFound(B, lag)
  /\ At(o, vfifo, p, 0, work_end - OPA_TAP + lag)
  /\ work_end = Time(i, p) + OPA_TAP - lag
  /\ work_bgn <= work_end /\ B <= work_end /\ work_end < B + OPA_TAP + lag
  /\ IF lag = 0 THEN p < PHASE_MAX ELSE p = 1 /\ work_bgn = work_end

(* q, the last phase taken to read well, does.                             *)
Inside(B, lag, q) ==
  BeginFound(B, lag) /\ B <= q /\ q < B + window.len /\ work_bgn <= q - lag

(* q, the first phase tested after the begin, fails: the begin has moved.  *)
Moved(B, lag, q) ==
  /\ lag = OPA_TAP /\ work_bgn = q - OPA_TAP
  /\ B + window.len <= q /\ q < B + 4 * OPA_TAP
  /\ (work_bgn - 2 * OPA_TAP) % Cycle = 0

Ending(B, o, lag) ==
  \E x, q \in Int :
    /\ x = work_end + lag /\ q = x - Back(p)
    /\ At(o, vfifo, p, 0, x) /\ Time(i, p) <= x
    /\ j \in {0, 1}
    /\ Inside(B, lag, q) \/ (Moved(B, lag, q) /\ j = 1)
    /\ j = 0 => /\ p # 1 /\ q < B + OPA_TAP + 2 * lag
                /\ lag = OPA_TAP => work_bgn = q - OPA_TAP

Ended(B, o, lag) ==
  \E x, q \in Int :
    /\ x = work_end + lag /\ q = x - Back(p)
    /\ At(o, vfifo, p, 0, x) /\ B + window.len <= x
    /\ Inside(B, lag, q) \/ Moved(B, lag, q)

(* The taps walk from q to the end of the window.                          *)
Tapping(B, o, lag) ==
  \E q \in Int :
    /\ q + Taps(d) = work_end + lag
    /\ At(o, vfifo, phase, 0, q) /\ d <= DELAY_MAX + 1
    /\ \/ /\ Inside(B, lag, q) /\ B + window.len <= q + 2 * OPA_TAP
          /\ d > 0 => q + Taps(d) < B + window.len + DCHAIN_TAP
          /\ step = "range" => /\ d > 0
                               /\ \/ d = DELAY_MAX + 1
                                  \/ B + window.len <= q + Taps(d)
       \/ Moved(B, lag, q) /\ d = 0

EdgesFound(B, lag) ==
  \/ /\ BeginFound(B, lag) /\ work_bgn <= work_end
     /\ work_end + lag < B + window.len /\ B + window.len <= work_end + lag + OPA_TAP
  \/ Moved(B, lag, work_bgn + OPA_TAP) /\ work_end = work_bgn

(* y, the time chosen, reads well and is in the middle.                    *)
Middle(B, y) ==
  /\ B <= y /\ y < B + window.len
  /\ window.len \in (4 * OPA_TAP)..Cycle =>
       /\ 2 * (y - B) - window.len <= 2 * OPA_TAP + DCHAIN_TAP
       /\ window.len - 2 * (y - B) <= 2 * OPA_TAP + DCHAIN_TAP

(* The steps that the ring takes from v to g.                              *)
Around(v, g) == IF v <= g THEN g - v ELSE g - v + VFIFO_SIZE

Verifying(B, o) ==
  \E y \in B..(B + window.len - 1) :
    /\ Middle(B, y) /\ (Opening(0, phase, delay) + o - y) % Cycle = 0
    /\ step = "verify" => \E g \in 0..(VFIFO_SIZE - 1) :
                             Reads(g, phase, delay) /\ Around(vfifo, g) + i < VFIFO_SIZE
    /\ step = "found" => Reads(vfifo, phase, delay)

Search(B, o, lag) ==
  /\ Placed(B, o)
  /\ step = "begin" => Beginning(B, o)
  /\ step = "overlap" => Overlapping(B, o)
  /\ step = "refine" => Refining(B, o)
  /\ step = "forward" => Forwarding(B, o, lag)
  /\ step = "end" => Ending(B, o, lag)
  /\ step = "ended" => Ended(B, o, lag)
  /\ step \in {"taps", "range"} => Tapping(B, o, lag)
  /\ step \in {"passing", "failing", "choose"} => EdgesFound(B, lag)
  /\ step \in {"verify", "found"} => Verifying(B, o)

WindowType == window \in [bgn : 0..(Ring - 1), len : Length]

(* The numbers of a window that is looked for.                             *)
LEMMA Room ==
  ASSUME WindowType, Wide, NEW B \in Int, NEW o \in Int, Placed(B, o)
  PROVE  /\ window.bgn \in Nat /\ window.bgn < Ring /\ window.len \in Nat
         /\ window.len >= 3 * OPA_TAP + DCHAIN_TAP /\ window.len + 2 * Cycle <= Ring
         /\ B > OPA_TAP /\ B + window.len <= OPA_TAP + Ring
         /\ B = window.bgn + o /\ o % Cycle = 0
         /\ Cycle \in Nat /\ Cycle >= 3 * OPA_TAP /\ Ring \in Nat
         /\ OPA_TAP \in Nat /\ DCHAIN_TAP \in Nat
         /\ 0 < DCHAIN_TAP /\ DCHAIN_TAP <= OPA_TAP
<1>1. window.bgn \in 0..(Ring - 1) /\ window.len \in Length /\ Ring \in Nat /\ Cycle \in Nat
      /\ Cycle >= 3 * OPA_TAP
  BY Multiples DEF WindowType
<1>2. window.len \in Nat /\ window.len <= (VFIFO_SIZE - 2) * Cycle
  BY <1>1, EnableAssumption, WindowAssumption
<1>3. (VFIFO_SIZE - 2) * Cycle = Ring - 2 * Cycle
  BY <1>1, Sizes, SMT DEF Ring
<1> QED
  BY <1>1, <1>2, <1>3, Sizes DEF Wide, Placed

LEMMA OpeningIs ==
  ASSUME NEW v \in Int, NEW ph \in Int, NEW dl \in Int
  PROVE  Opening(v, ph, dl) = Cycles(v) + Phases(ph) + Taps(dl) /\ Opening(v, ph, dl) \in Int
BY Multiples DEF Opening, Cycles, Phases, Taps

(* From the search's first test on, and less than a turn of the ring after *)
(* the window's begin, a setting reads well iff its time is in the window. *)
LEMMA AtReads ==
  ASSUME WindowType, Wide, NEW B \in Int, NEW o \in Int, Placed(B, o),
         NEW v \in Int, NEW ph \in Int, NEW dl \in Int, NEW x \in Int,
         At(o, v, ph, dl, x), OPA_TAP <= x, x < B + Ring
  PROVE  Reads(v, ph, dl) <=> (B <= x /\ x < B + window.len)
<1> DEFINE a == Opening(v, ph, dl)
           z == a + o - x
<1>1. /\ window.bgn \in Nat /\ window.len \in Nat /\ Ring \in Nat /\ Ring > 0 /\ OPA_TAP \in Nat
      /\ B = window.bgn + o /\ B + window.len <= OPA_TAP + Ring
  BY Room
<1>2. a \in Int
  BY OpeningIs
<1>3. z % Ring = 0 /\ (Reads(v, ph, dl) <=> (a - window.bgn) % Ring < window.len)
  BY DEF At, Reads
<1> HIDE DEF a
<1>4. z \in Int /\ a - window.bgn = z + (x - B)
  BY <1>1, <1>2
<1> HIDE DEF z
<1>5. CASE B <= x
  <2>1. x - B \in 0..(Ring - 1)
    BY <1>1, <1>5
  <2>2. (z + (x - B)) % Ring = x - B
    BY <1>1, <1>3, <1>4, <2>1, Congruence
  <2> QED
    BY <1>1, <1>3, <1>4, <1>5, <2>2
<1>6. CASE x < B
  <2> DEFINE r == x - B + Ring
  <2>1. r \in 0..(Ring - 1) /\ r >= window.len /\ z + (x - B) = (z + r) - Ring /\ z + r \in Int
    BY <1>1, <1>4, <1>6
  <2> HIDE DEF r
  <2>2. (z + r) % Ring = r
    BY <1>1, <1>3, <1>4, <2>1, Congruence
  <2>3. ((z + r) - Ring) % Ring = r
    BY <1>1, <1>4, <2>1, <2>2, Congruence
  <2> QED
    BY <1>1, <1>3, <1>4, <1>6, <2>1, <2>3
<1> QED
  BY <1>5, <1>6

(* Time goes with the registers: by phases, by taps, by cycles, and all    *)
(* the way round.                                                          *)
LEMMA AtSame ==
  ASSUME NEW o \in Int, NEW x \in Int, NEW y \in Int,
         NEW v \in Int, NEW ph \in Int, NEW dl \in Int,
         NEW w \in Int, NEW qh \in Int, NEW el \in Int,
         At(o, v, ph, dl, x),
         \/ Opening(w, qh, el) - y = Opening(v, ph, dl) - x
         \/ Opening(w, qh, el) - y = Opening(v, ph, dl) - x - Ring
         \/ Opening(w, qh, el) - y = Opening(v, ph, dl) - x + Ring
  PROVE  At(o, w, qh, el, y)
<1> DEFINE a == Opening(v, ph, dl)
           b == Opening(w, qh, el)
           z == a + o - x
<1>1. Ring \in Nat /\ Ring > 0
  BY Sizes, Multiples
<1>2. a \in Int /\ b \in Int
  BY OpeningIs
<1>3. z % Ring = 0
  BY DEF At
<1> HIDE DEF a, b
<1>4. /\ z \in Int
      /\ \/ b + o - y = z
         \/ b + o - y = z - Ring
         \/ b + o - y = z + Ring
  BY <1>1, <1>2 DEF a, b
<1> HIDE DEF z
<1>5. (z + Ring) % Ring = 0 /\ (z - Ring) % Ring = 0
  BY <1>1, <1>3, <1>4, Congruence
<1> QED
  BY <1>3, <1>4, <1>5 DEF At, b

LEMMA AtPhase ==
  ASSUME NEW o \in Int, NEW x \in Int, NEW v \in Int, NEW ph \in Int, NEW dl \in Int,
         At(o, v, ph, dl, x)
  PROVE  At(o, v, ph + 1, dl, x + OPA_TAP) /\ At(o, v, ph - 1, dl, x - OPA_TAP)
<1> DEFINE a == Cycles(v)
           b == Taps(dl)
           c == Phases(ph)
           h == Phases(ph - 1)
           k == Phases(ph + 1)
<1>1. a \in Int
  BY Multiples
<1>2. b \in Int
  BY Multiples
<1>3. c \in Int
  BY Multiples
<1>4. k = c + OPA_TAP
  BY Multiples
<1>5. h \in Int /\ c = h + OPA_TAP
  BY MultiplesBelow
<1>6. /\ Opening(v, ph, dl) = a + c + b
      /\ Opening(v, ph + 1, dl) = a + k + b
      /\ Opening(v, ph - 1, dl) = a + h + b
  <2>1. Opening(v, ph, dl) = a + c + b
    BY OpeningIs
  <2>2. Opening(v, ph + 1, dl) = a + k + b
    BY OpeningIs
  <2>3. ph - 1 \in Int
    OBVIOUS
  <2>4. Opening(v, ph - 1, dl) = a + h + b
    BY <2>3, OpeningIs
  <2> QED
    BY <2>1, <2>2, <2>4
<1> HIDE DEF a, b, c, h, k
<1>7. /\ Opening(v, ph + 1, dl) - (x + OPA_TAP) = Opening(v, ph, dl) - x
      /\ Opening(v, ph - 1, dl) - (x - OPA_TAP) = Opening(v, ph, dl) - x
  BY <1>1, <1>2, <1>3, <1>4, <1>5, <1>6, Sizes
<1>8. x + OPA_TAP \in Int /\ x - OPA_TAP \in Int
  BY Sizes
<1> QED
  BY <1>7, <1>8, AtSame

LEMMA AtUp ==
  ASSUME NEW o \in Int, NEW x \in Int, NEW v \in Int, NEW ph \in Int, NEW dl \in Int,
         NEW qh, NEW y, At(o, v, ph, dl, x), qh = ph + 1, y = x + OPA_TAP
  PROVE  At(o, v, qh, dl, y)
BY AtPhase

LEMMA AtDown ==
  ASSUME NEW o \in Int, NEW x \in Int, NEW v \in Int, NEW ph \in Int, NEW dl \in Int,
         NEW qh, NEW y, At(o, v, ph, dl, x), qh = ph - 1, y = x - OPA_TAP
  PROVE  At(o, v, qh, dl, y)
BY AtPhase

LEMMA AtTap ==
  ASSUME NEW o \in Int, NEW x \in Int, NEW v \in Int, NEW ph \in Int,
         NEW e \in Int, At(o, v, ph, 0, x)
  PROVE  At(o, v, ph, e, x + Taps(e))
<1> DEFINE a == Cycles(v)
           b == Taps(e)
           c == Phases(ph)
<1>1. a \in Int
  BY Multiples
<1>2. b \in Int
  BY Multiples
<1>3. c \in Int
  BY Multiples
<1>4. Taps(0) = 0
  BY Multiples
<1>6. Opening(v, ph, 0) = a + c + Taps(0) /\ Opening(v, ph, e) = a + c + b
  BY OpeningIs
<1> HIDE DEF a, b, c
<1>7. Opening(v, ph, e) - (x + b) = Opening(v, ph, 0) - x /\ x + b \in Int
  BY <1>1, <1>2, <1>3, <1>4, <1>6
<1> QED
  BY <1>7, AtSame DEF b

LEMMA NextFits ==
  ASSUME NEW v \in 0..(VFIFO_SIZE - 1)
  PROVE  /\ incr(v) = IF v + 1 = VFIFO_SIZE THEN 0 ELSE v + 1
         /\ decr(v) = IF v = 0 THEN VFIFO_SIZE - 1 ELSE v - 1
         /\ incr(v) \in 0..(VFIFO_SIZE - 1) /\ decr(v) \in 0..(VFIFO_SIZE - 1)
         /\ incr(v) \in Int /\ decr(v) \in Int
<1>1. /\ incr(v) = IF v + 1 = VFIFO_SIZE THEN 0 ELSE v + 1
      /\ decr(v) = IF v = 0 THEN VFIFO_SIZE - 1 ELSE v - 1
  BY Sizes, SMT DEF incr, decr
<1> QED
  BY <1>1, Sizes

LEMMA AtCycle ==
  ASSUME NEW o \in Int, NEW x \in Int, NEW v \in 0..(VFIFO_SIZE - 1),
         NEW ph \in Int, NEW dl \in Int, At(o, v, ph, dl, x)
  PROVE  /\ At(o, incr(v), ph, dl, x + Cycle) /\ At(o, decr(v), ph, dl, x - Cycle)
         /\ incr(v) \in 0..(VFIFO_SIZE - 1) /\ decr(v) \in 0..(VFIFO_SIZE - 1)
<1> DEFINE a == Cycles(v)
           up == Cycles(incr(v))
           dn == Cycles(decr(v))
           b == Taps(dl)
           c == Phases(ph)
<1>1. /\ incr(v) = IF v + 1 = VFIFO_SIZE THEN 0 ELSE v + 1
      /\ decr(v) = IF v = 0 THEN VFIFO_SIZE - 1 ELSE v - 1
  BY NextFits
<1>2. incr(v) \in 0..(VFIFO_SIZE - 1) /\ decr(v) \in 0..(VFIFO_SIZE - 1)
  BY NextFits
<1>3. a \in Int
  BY Multiples
<1>4. b \in Int
  BY Multiples
<1>5. c \in Int
  BY Multiples
<1>6. Ring \in Nat /\ Cycle \in Nat
  BY Multiples
<1>7. up = a + Cycle \/ up = a + Cycle - Ring
  <2>1. Cycles(v + 1) = Cycles(v) + Cycle
    BY Multiples
  <2>2. Cycles(VFIFO_SIZE) = Ring /\ Cycles(0) = 0
    BY Multiples
  <2> QED
    BY <1>1, <1>3, <1>6, <2>1, <2>2
<1>8. dn = a - Cycle \/ dn = a - Cycle + Ring
  <2>1. Cycles(v - 1) \in Int /\ Cycles(v) = Cycles(v - 1) + Cycle
    BY MultiplesBelow
  <2>2. Cycles(VFIFO_SIZE) = Ring /\ Cycles(0) = 0
    BY Multiples
  <2>3. Cycles(VFIFO_SIZE - 1) \in Int /\ Cycles(VFIFO_SIZE) = Cycles(VFIFO_SIZE - 1) + Cycle
    BY Sizes, MultiplesBelow
  <2> QED
    BY <1>1, <1>3, <1>6, <2>1, <2>2, <2>3
<1>9. /\ Opening(v, ph, dl) = a + c + b
      /\ Opening(incr(v), ph, dl) = up + c + b
      /\ Opening(decr(v), ph, dl) = dn + c + b
  BY <1>2, OpeningIs
<1> HIDE DEF a, b, c, up, dn
<1>10. /\ \/ Opening(incr(v), ph, dl) - (x + Cycle) = Opening(v, ph, dl) - x
          \/ Opening(incr(v), ph, dl) - (x + Cycle) = Opening(v, ph, dl) - x - Ring
       /\ \/ Opening(decr(v), ph, dl) - (x - Cycle) = Opening(v, ph, dl) - x
          \/ Opening(decr(v), ph, dl) - (x - Cycle) = Opening(v, ph, dl) - x + Ring
  BY <1>3, <1>4, <1>5, <1>6, <1>7, <1>8, <1>9
<1>11. x + Cycle \in Int /\ x - Cycle \in Int /\ incr(v) \in Int /\ decr(v) \in Int
  BY <1>2, <1>6
<1> QED
  BY <1>2, <1>10, <1>11, AtSame

(* Over the end of a cycle, phase 0 follows the last one.                  *)
LEMMA AtWrap ==
  ASSUME NEW o \in Int, NEW x \in Int, NEW v \in 0..(VFIFO_SIZE - 1), NEW dl \in Int
  PROVE  /\ At(o, v, PHASE_MAX, dl, x) => At(o, incr(v), 0, dl, x + OPA_TAP)
         /\ At(o, v, 0, dl, x) => At(o, decr(v), PHASE_MAX, dl, x - OPA_TAP)
<1>1. Phases(0) = 0 /\ Cycle = Phases(PHASE_MAX) + OPA_TAP /\ Cycle \in Int
  BY Multiples
<1>2. PHASE_MAX \in Int /\ OPA_TAP \in Int /\ 0 \in Int /\ v \in Int
  BY Sizes
<1>3. ASSUME NEW h \in Int
      PROVE  Opening(h, PHASE_MAX, dl) = Opening(h, 0, dl) + Cycle - OPA_TAP
  <2>1. Cycles(h) \in Int
    BY Multiples
  <2>2. Taps(dl) \in Int
    BY Multiples
  <2>3. Opening(h, PHASE_MAX, dl) = Cycles(h) + Phases(PHASE_MAX) + Taps(dl)
    BY <1>2, OpeningIs
  <2>4. Opening(h, 0, dl) = Cycles(h) + Phases(0) + Taps(dl)
    BY <1>2, OpeningIs
  <2>5. Phases(PHASE_MAX) \in Int
    BY <1>2, Multiples
  <2> QED
    BY <1>1, <1>2, <2>1, <2>2, <2>3, <2>4, <2>5
<1>4. ASSUME At(o, v, PHASE_MAX, dl, x) PROVE At(o, incr(v), 0, dl, x + OPA_TAP)
  <2> DEFINE w == incr(v)
  <2>1. At(o, w, PHASE_MAX, dl, x + Cycle) /\ w \in Int
    BY <1>2, <1>4, AtCycle
  <2> HIDE DEF w
  <2>2. Opening(w, PHASE_MAX, dl) \in Int /\ Opening(w, 0, dl) \in Int
    BY <1>2, <2>1, OpeningIs
  <2>3. Opening(w, PHASE_MAX, dl) = Opening(w, 0, dl) + Cycle - OPA_TAP
    BY <1>3, <2>1
  <2>4. Opening(w, 0, dl) - (x + OPA_TAP) = Opening(w, PHASE_MAX, dl) - (x + Cycle)
    BY <1>1, <1>2, <2>2, <2>3
  <2>5. x + OPA_TAP \in Int /\ x + Cycle \in Int
    BY <1>1, <1>2
  <2>6. At(o, w, 0, dl, x + OPA_TAP)
    BY <1>2, <2>1, <2>4, <2>5, AtSame
  <2> QED
    BY <2>6 DEF w
<1>5. ASSUME At(o, v, 0, dl, x) PROVE At(o, decr(v), PHASE_MAX, dl, x - OPA_TAP)
  <2> DEFINE w == decr(v)
  <2>1. At(o, w, 0, dl, x - Cycle) /\ w \in Int
    BY <1>2, <1>5, AtCycle
  <2> HIDE DEF w
  <2>2. Opening(w, PHASE_MAX, dl) \in Int /\ Opening(w, 0, dl) \in Int
    BY <1>2, <2>1, OpeningIs
  <2>3. Opening(w, PHASE_MAX, dl) = Opening(w, 0, dl) + Cycle - OPA_TAP
    BY <1>3, <2>1
  <2>4. Opening(w, PHASE_MAX, dl) - (x - OPA_TAP) = Opening(w, 0, dl) - (x - Cycle)
    BY <1>1, <1>2, <2>2, <2>3
  <2>5. x - OPA_TAP \in Int /\ x - Cycle \in Int
    BY <1>1, <1>2
  <2>6. At(o, w, PHASE_MAX, dl, x - OPA_TAP)
    BY <1>2, <2>1, <2>4, <2>5, AtSame
  <2> QED
    BY <2>6 DEF w
<1> QED
  BY <1>4, <1>5

(* The time of a test that the search counts.                              *)
LEMMA TimeIs ==
  ASSUME NEW cycle \in Nat, NEW ph \in Nat
  PROVE  /\ Time(cycle, ph) \in Nat /\ (ph > 0 => Time(cycle, ph) >= OPA_TAP)
         /\ Time(cycle, ph + 1) = Time(cycle, ph) + OPA_TAP
         /\ ph > 0 => Time(cycle, ph - 1) = Time(cycle, ph) - OPA_TAP
         /\ Time(cycle + 1, 0) = Time(cycle, PHASE_MAX) + OPA_TAP
         /\ Time(0, 1) = OPA_TAP /\ Time(cycle, 0) = Cycles(cycle)
         /\ Time(cycle, 1) = Cycles(cycle) + OPA_TAP
<1>1. Cycles(cycle) \in Nat
  <2>1. Cycles(cycle) \in Int
    BY Multiples
  <2>2. Cycles(cycle) >= 0
    BY Multiples
  <2> QED
    BY <2>1, <2>2
<1>2. Phases(ph) \in Nat
  <2>1. Phases(ph) \in Int
    BY Multiples
  <2>2. Phases(ph) >= 0
    BY Multiples
  <2> QED
    BY <2>1, <2>2
<1>3. Phases(ph + 1) = Phases(ph) + OPA_TAP
  BY Multiples
<1>4. Phases(ph - 1) \in Int /\ Phases(ph) = Phases(ph - 1) + OPA_TAP
  BY MultiplesBelow
<1>5. ph > 0 => Phases(ph - 1) >= 0
  <2>1. ph > 0 => ph - 1 \in Nat
    OBVIOUS
  <2> QED
    BY <2>1, Multiples
<1>6. Cycles(cycle + 1) = Cycles(cycle) + Cycle
  BY Multiples
<1>7. /\ Phases(0) = 0 /\ Phases(1) = OPA_TAP /\ Cycles(0) = 0
      /\ Cycle = Phases(PHASE_MAX) + OPA_TAP /\ Phases(PHASE_MAX) \in Int
  BY Sizes, Multiples
<1>8. /\ Time(cycle, ph) = Cycles(cycle) + Phases(ph)
      /\ Time(cycle, ph + 1) = Cycles(cycle) + Phases(ph + 1)
      /\ Time(cycle, ph - 1) = Cycles(cycle) + Phases(ph - 1)
      /\ Time(cycle + 1, 0) = Cycles(cycle + 1) + Phases(0)
      /\ Time(cycle, PHASE_MAX) = Cycles(cycle) + Phases(PHASE_MAX)
      /\ Time(0, 1) = Cycles(0) + Phases(1)
      /\ Time(cycle, 0) = Cycles(cycle) + Phases(0)
      /\ Time(cycle, 1) = Cycles(cycle) + Phases(1)
  BY DEF Time
<1> DEFINE below == Phases(ph - 1)
           above == Phases(ph + 1)
<1>9. /\ Time(cycle, ph - 1) = Cycles(cycle) + below
      /\ below \in Int /\ Phases(ph) = below + OPA_TAP /\ (ph > 0 => below >= 0)
      /\ Time(cycle, ph + 1) = Cycles(cycle) + above /\ above = Phases(ph) + OPA_TAP
  BY <1>3, <1>4, <1>5, <1>8
<1> HIDE DEF below, above
<1> QED
  BY <1>1, <1>2, <1>6, <1>7, <1>8, <1>9, Sizes

-----------------------------------------------------------------------------
(* One lemma per step: from the situation it starts in, the next one.      *)
Situation(B, o) ==
  /\ WindowType /\ Wide /\ EnableInv
  /\ vfifo \in 0..(VFIFO_SIZE - 1)
  /\ B \in Int /\ o \in Int /\ Placed(B, o)

(* What the steps know of the numbers.                                     *)
Numbers(B, o) ==
  /\ window.len \in Nat
  /\ window.len >= 3 * OPA_TAP + DCHAIN_TAP /\ window.len + 2 * Cycle <= Ring
  /\ B \in Int /\ o \in Int /\ B > OPA_TAP /\ B + window.len <= OPA_TAP + Ring
  /\ Cycle \in Nat /\ Cycle >= 3 * OPA_TAP /\ Ring \in Nat
  /\ OPA_TAP \in Nat /\ DCHAIN_TAP \in Nat
  /\ 0 < DCHAIN_TAP /\ DCHAIN_TAP <= OPA_TAP
  /\ PHASE_MAX \in Nat /\ PHASE_MAX > 1 /\ VFIFO_SIZE \in Nat
  /\ i \in Nat /\ p \in Nat /\ p <= PHASE_MAX /\ d \in Nat
  /\ work_bgn \in Int /\ work_end \in Int
  /\ vfifo \in 0..(VFIFO_SIZE - 1) /\ vfifo \in Int

LEMMA SituationIs ==
  ASSUME NEW B, NEW o, Situation(B, o)
  PROVE  Numbers(B, o)
<1>1. /\ window.len \in Nat
      /\ window.len >= 3 * OPA_TAP + DCHAIN_TAP /\ window.len + 2 * Cycle <= Ring
      /\ B \in Int /\ o \in Int /\ B > OPA_TAP /\ B + window.len <= OPA_TAP + Ring
      /\ Cycle \in Nat /\ Cycle >= 3 * OPA_TAP /\ Ring \in Nat
      /\ OPA_TAP \in Nat /\ DCHAIN_TAP \in Nat
      /\ 0 < DCHAIN_TAP /\ DCHAIN_TAP <= OPA_TAP
  BY Room DEF Situation
<1>2. /\ i \in Nat /\ p \in 0..PHASE_MAX /\ d \in Nat /\ work_bgn \in Int /\ work_end \in Int
      /\ vfifo \in 0..(VFIFO_SIZE - 1) /\ vfifo \in Int
  BY Sizes DEF Situation, EnableInv, LoopsFit
<1> QED
  BY <1>1, <1>2, Sizes DEF Numbers

(* A test at time x: what it says, and that it says so of the next state.  *)
LEMMA Tested ==
  ASSUME NEW B, NEW o, Situation(B, o), NEW ph \in Int, NEW dl \in Int, NEW x \in Int,
         At(o, vfifo, ph, dl, x), OPA_TAP <= x, x < B + Ring
  PROVE  Reads(vfifo, ph, dl) <=> (B <= x /\ x < B + window.len)
BY SituationIs, AtReads DEF Situation, Numbers

LEMMA PlacedStays ==
  ASSUME NEW B, NEW o, Situation(B, o), UNCHANGED window
  PROVE  Placed(B, o)' /\ Wide' /\ WindowType'
BY DEF Situation, Placed, Wide, WindowType

LEMMA BeginStep ==
  ASSUME NEW B, NEW o, NEW lag, Situation(B, o), SeekBegin, Beginning(B, o)
  PROVE  vfifo' \in 0..(VFIFO_SIZE - 1) /\ step' \notin {"lost", "failed"} /\ Search(B, o, lag)'
<1> DEFINE x == Time(i, p)
<1>0. Numbers(B, o)
  BY SituationIs
<1> USE DEF Numbers
<1>1. /\ UNCHANGED window /\ step = "begin" /\ d = 0 /\ p > 0 /\ p <= PHASE_MAX /\ i < VFIFO_SIZE
      /\ At(o, vfifo, p, 0, x) /\ x < B + Back(p)
      /\ OPA_TAP <= x /\ x \in Nat /\ Time(i, p + 1) = x + OPA_TAP
  <2>1. /\ UNCHANGED window /\ step = "begin" /\ d = 0 /\ p > 0 /\ p <= PHASE_MAX /\ i < VFIFO_SIZE
        /\ At(o, vfifo, p, 0, x) /\ x < B + Back(p)
    BY <1>0 DEF SeekBegin, Beginning
  <2>2. i \in Nat /\ p \in Nat
    BY <1>0
  <2> QED
    BY <1>0, <2>1, <2>2, TimeIs
<1>2. Placed(B, o)'
  BY <1>0, <1>1, PlacedStays
<1>3. x < B + 2 * OPA_TAP
  BY <1>0, <1>1 DEF Back
<1>4. Reads(vfifo, p, 0) <=> B <= x
  <2>1. x < B + Ring /\ x < B + window.len
    BY <1>0, <1>1, <1>3
  <2> QED
    BY <1>0, <1>1, <2>1, Tested
<1>5. CASE Reads(vfifo, p, 0)
  <2>1. /\ work_bgn' = i * Cycle + p * OPA_TAP + d * DCHAIN_TAP /\ work_end' = work_bgn'
        /\ step' = "overlap" /\ UNCHANGED <<vfifo, i, p>>
    BY <1>0, <1>1, <1>5 DEF SeekBegin, loops
  <2>2. i * Cycle + p * OPA_TAP + d * DCHAIN_TAP = x
    <3>1. d * DCHAIN_TAP = 0
      BY <1>0, <1>1
    <3>2. x = i * Cycle + p * OPA_TAP
      BY <1>0 DEF Time, Cycles, Phases
    <3> QED
      BY <1>0, <1>1, <3>1, <3>2
  <2> HIDE DEF x
  <2>3. work_bgn' = x /\ work_end' = x
    BY <1>0, <2>1, <2>2
  <2>4. Time(i, p)' = x
    BY <1>0, <2>1 DEF Time, x, Cycles, Phases
  <2>5. Overlapping(B, o)'
    BY <1>0, <1>1, <1>4, <1>5, <2>1, <2>3, <2>4 DEF Overlapping, Back
  <2> QED
    BY <1>0, <1>2, <2>1, <2>5 DEF Search
<1>6. CASE ~Reads(vfifo, p, 0)
  <2>1. x < B
    BY <1>0, <1>1, <1>4, <1>6
  <2>2. CASE p < PHASE_MAX
    <3>1. p' = p + 1 /\ UNCHANGED <<vfifo, i, d, step>>
      BY <1>0, <1>6, <2>2, <1>1 DEF SeekBegin
    <3>2. At(o, vfifo, p + 1, 0, x + OPA_TAP)
      <4>1. At(o, vfifo, p, 0, x) /\ x \in Int /\ o \in Int /\ vfifo \in Int /\ p \in Int
        BY <1>0, <1>1
      <4> HIDE DEF x
      <4> QED
        BY <4>1, AtUp
    <3>3. Time(i, p)' = x + OPA_TAP
      <4>1. Time(i, p)' = Time(i, p + 1)
        BY <1>0, <3>1 DEF Time, Cycles, Phases
      <4> QED
        BY <1>0, <1>1, <4>1
    <3> HIDE DEF x
    <3>4. Beginning(B, o)'
      BY <1>0, <1>1, <2>1, <2>2, <3>1, <3>2, <3>3 DEF Beginning, Back
    <3> QED
      BY <1>0, <1>1, <1>2, <3>1, <3>4 DEF Search
  <2>3. CASE p = PHASE_MAX
    <3>1. At(o, incr(vfifo), 1, 0, x + 2 * OPA_TAP) /\ incr(vfifo) \in 0..(VFIFO_SIZE - 1)
      <4>1. At(o, incr(vfifo), 0, 0, x + OPA_TAP)
        BY <1>0, <1>1, <2>3, AtWrap
      <4>2. incr(vfifo) \in 0..(VFIFO_SIZE - 1) /\ incr(vfifo) \in Int
        BY <1>0, NextFits
      <4>3. x + OPA_TAP \in Int
        BY <1>0, <1>1
      <4> HIDE DEF x
      <4>4. 1 = 0 + 1 /\ x + 2 * OPA_TAP = (x + OPA_TAP) + OPA_TAP
        BY <1>0, <1>1
      <4>6. o \in Int
        BY <1>0
      <4>5. At(o, incr(vfifo), 1, 0, x + 2 * OPA_TAP)
        BY <4>1, <4>2, <4>3, <4>4, <4>6, AtUp
      <4> QED
        BY <1>0, <4>2, <4>5
    <3>2. Time(i + 1, 1) = x + 2 * OPA_TAP
      <4>1. i \in Nat /\ i + 1 \in Nat
        BY <1>0
      <4>2. Time(i + 1, 0) = x + OPA_TAP
        BY <1>0, <2>3, <4>1, TimeIs
      <4>3. Time(i + 1, 1) = Cycles(i + 1) + OPA_TAP /\ Time(i + 1, 0) = Cycles(i + 1)
        BY <1>0, <4>1, TimeIs
      <4> QED
        BY <1>0, <1>1, <4>2, <4>3
    <3>3. i + 1 < VFIFO_SIZE
      <4>1. CASE i + 1 = VFIFO_SIZE
        <5>1. Cycles(i + 1) = Ring
          BY <1>0, <4>1, Multiples
        <5>2. Time(i + 1, 1) = Cycles(i + 1) + OPA_TAP
          <6>1. i + 1 \in Nat
            BY <1>0
          <6> QED
            BY <1>0, <6>1, TimeIs
        <5> QED
          BY <1>0, <1>1, <2>1, <3>2, <5>1, <5>2
      <4> QED
        BY <1>0, <1>1, <4>1, Sizes
    <3>4. vfifo' = incr(vfifo) /\ p' = 1 /\ i' = i + 1 /\ UNCHANGED <<d, step>>
      BY <1>0, <1>1, <1>6, <2>3, <3>3 DEF SeekBegin
    <3>5. Time(i, p)' = x + 2 * OPA_TAP
      <4>1. Time(i, p)' = Time(i + 1, 1)
        BY <1>0, <3>4 DEF Time, Cycles, Phases
      <4> QED
        BY <1>0, <3>2, <4>1
    <3> HIDE DEF x
    <3>6. Beginning(B, o)'
      BY <1>0, <1>1, <2>1, <2>3, <3>1, <3>3, <3>4, <3>5 DEF Beginning, Back
    <3> QED
      BY <1>0, <1>1, <1>2, <3>1, <3>4, <3>6 DEF Search
  <2> QED
    BY <1>0, <1>1, <2>2, <2>3
<1> QED
  BY <1>0, <1>5, <1>6

LEMMA BackUpStep ==
  ASSUME NEW B, NEW o, Situation(B, o), BackUp, Overlapping(B, o)
  PROVE  /\ vfifo' \in 0..(VFIFO_SIZE - 1) /\ step' \notin {"lost", "failed"}
         /\ \E lag \in {0, OPA_TAP} : Search(B, o, lag)'
<1>0. Numbers(B, o)
  BY SituationIs
<1> USE DEF Numbers
<1>1. /\ UNCHANGED <<window, vfifo, i, work_bgn, work_end>> /\ step = "overlap" /\ p > 0
      /\ p' = (IF p = 1 THEN 1 ELSE p - 1) /\ phase' = p' /\ d' = 0
      /\ step' = (IF p = 1 THEN "forward" ELSE "refine")
      /\ work_bgn = work_end /\ work_end = Time(i, p) /\ At(o, vfifo, p, 0, work_end)
      /\ B <= work_end /\ work_end < B + Back(p)
  BY <1>0 DEF BackUp, Overlapping, edges, Situation, EnableInv, LoopsFit
<1>2. Placed(B, o)'
  BY <1>1, PlacedStays
<1>3. Time(i, p)' = Time(i, p')
  BY <1>1 DEF Time, Cycles, Phases
<1>4. CASE p = 1
  <2>1. (work_end - OPA_TAP) % Cycle = 0
    <3>1. work_end = Cycles(i) + OPA_TAP
      BY <1>0, <1>1, <1>4, TimeIs
    <3>2. Cycles(i) \in Int
      BY <1>0, Multiples
    <3>3. work_end - OPA_TAP = 0 + Cycles(i)
      BY <1>0, <3>1, <3>2
    <3>4. (0 + i * Cycle) % Cycle = 0 % Cycle /\ 0 % Cycle = 0
      <4>1. Cycle > 0 /\ i \in Int /\ 0 \in 0..(Cycle - 1) /\ 0 = 0 * Cycle + 0
        BY <1>0, Sizes
      <4>2. 0 % Cycle = 0
        BY <1>0, <4>1, Residue
      <4> QED
        BY <1>0, <4>1, <4>2, Congruence
    <3> QED
      BY <3>3, <3>4 DEF Cycles
  <2>2. BeginFound(B, OPA_TAP)'
    BY <1>0, <1>1, <1>4, <2>1 DEF BeginFound, Back
  <2>3. Forwarding(B, o, OPA_TAP)'
    <3>1. At(o, vfifo, p, 0, work_end - OPA_TAP + OPA_TAP)'
      <4>1. work_end' - OPA_TAP + OPA_TAP = work_end
        BY <1>0, <1>1
      <4>2. vfifo' = vfifo /\ p' = p
        BY <1>1, <1>4
      <4> QED
        BY <1>1, <4>1, <4>2
    <3>2. (work_end = Time(i, p) + OPA_TAP - OPA_TAP)'
      BY <1>0, <1>1, <1>3, <1>4
    <3>3. 0 # OPA_TAP
      BY <1>0
    <3> QED
      BY <1>0, <1>1, <1>4, <2>2, <3>1, <3>2, <3>3 DEF Forwarding, Back
  <2> QED
    BY <1>0, <1>1, <1>2, <1>4, <2>3 DEF Search
<1>5. CASE p # 1
  <2>1. p' = p - 1 /\ p' \in Nat /\ p' < PHASE_MAX
    BY <1>0, <1>1, <1>5
  <2>2. Time(i, p)' = work_end - OPA_TAP
    BY <1>0, <1>1, <1>3, <2>1, TimeIs
  <2>3. At(o, vfifo, p, 0, work_end - OPA_TAP)'
    <3>1. At(o, vfifo, p', 0, work_end - OPA_TAP)
      <4>1. o \in Int /\ vfifo \in Int /\ p \in Int /\ work_end \in Int
        BY <1>0
      <4> QED
        BY <1>1, <2>1, <4>1, AtDown
    <3> QED
      BY <1>1, <3>1
  <2>4. Taps(0) = 0
    BY Multiples
  <2>5. Refining(B, o)'
    BY <1>0, <1>1, <1>5, <2>1, <2>2, <2>3, <2>4 DEF Refining, Back
  <2> QED
    BY <1>0, <1>1, <1>2, <1>5, <2>5 DEF Search
<1> QED
  BY <1>4, <1>5

(* The delay line is long enough for a phase.                              *)
LEMMA LongDelay ==
  ASSUME NEW n \in Nat, n >= DELAY_MAX
  PROVE  Taps(n) >= OPA_TAP
<1> DEFINE a == OPA_TAP + DCHAIN_TAP - 1
           b == a \div DCHAIN_TAP
<1>1. a \in Int /\ DCHAIN_TAP \in Nat /\ DCHAIN_TAP > 0 /\ OPA_TAP \in Nat /\ DELAY_MAX \in Nat
      /\ a = OPA_TAP + DCHAIN_TAP - 1
  BY Sizes
<1>2. b - 1 < DELAY_MAX
  BY DelayAssumption DEF dtaps_per_ptap
<1> HIDE DEF a
<1>3. b \in Int /\ b * DCHAIN_TAP <= a /\ a < b * DCHAIN_TAP + DCHAIN_TAP
  BY <1>1, Quotient
<1> HIDE DEF b
<1>4. b <= n
  BY <1>1, <1>2, <1>3
<1>5. b * DCHAIN_TAP <= n * DCHAIN_TAP
  BY <1>1, <1>3, <1>4, SMT
<1>6. b * DCHAIN_TAP \in Int /\ n * DCHAIN_TAP \in Int
  BY <1>1, <1>3, SMT
<1> QED
  BY <1>1, <1>3, <1>5, <1>6 DEF Taps

LEMMA RefineStep ==
  ASSUME NEW B, NEW o, Situation(B, o), RefineBegin, Refining(B, o)
  PROVE  /\ vfifo' \in 0..(VFIFO_SIZE - 1) /\ step' \notin {"lost", "failed"}
         /\ \E lag \in {0, OPA_TAP} : Search(B, o, lag)'
<1> DEFINE x == work_end - OPA_TAP + Taps(d)
<1>0. Numbers(B, o)
  BY SituationIs
<1> USE DEF Numbers
<1>1. /\ UNCHANGED <<window, vfifo, phase, i, p, work_end>> /\ step = "refine" /\ p > 0
      /\ p < PHASE_MAX /\ phase = p
      /\ work_bgn = work_end /\ work_end = Time(i, p) + OPA_TAP
      /\ At(o, vfifo, p, 0, work_end - OPA_TAP)
      /\ B <= work_end /\ work_end < B + OPA_TAP /\ x < B + DCHAIN_TAP /\ Taps(d) < OPA_TAP
  BY <1>0 DEF RefineBegin, Refining, Situation, EnableInv, LoopsFit
<1>2. /\ Taps(d) \in Int
      /\ Taps(d + 1) = Taps(d) + DCHAIN_TAP
      /\ Taps(d) >= 0
  <2>1. d \in Int /\ d \in Nat
    BY <1>0
  <2>2. Taps(d) \in Int
    BY <2>1, Multiples
  <2>3. Taps(d + 1) = Taps(d) + DCHAIN_TAP
    BY <2>1, Multiples
  <2>4. Taps(d) >= 0
    BY <2>1, Multiples
  <2> QED
    BY <2>2, <2>3, <2>4
<1>3. At(o, vfifo, phase, d, x)
  <2>1. o \in Int /\ vfifo \in Int /\ p \in Int /\ work_end - OPA_TAP \in Int /\ d \in Int
    BY <1>0
  <2>2. At(o, vfifo, p, d, x)
    BY <1>1, <2>1, AtTap
  <2> QED
    BY <1>1, <2>2
<1>4. x \in Int /\ OPA_TAP <= x /\ x < B + Ring /\ x < B + window.len
  <2>1. Time(i, p) >= OPA_TAP /\ Time(i, p) \in Nat
    BY <1>0, <1>1, TimeIs
  <2> QED
    BY <1>0, <1>1, <1>2, <2>1
<1>5. Reads(vfifo, phase, d) <=> B <= x
  <2>1. phase \in Int /\ d \in Int
    BY <1>0, <1>1
  <2> HIDE DEF x
  <2>2. Reads(vfifo, phase, d) <=> (B <= x /\ x < B + window.len)
    BY <1>3, <1>4, <2>1, Tested
  <2> QED
    BY <1>4, <2>2
<1>6. Placed(B, o)' /\ Time(i, p)' = Time(i, p)
  BY <1>1, PlacedStays DEF Time, Cycles, Phases
<1>7. At(o, vfifo, p, 0, work_end - OPA_TAP)'
  BY <1>1
<1>8. x = work_end - OPA_TAP + d * DCHAIN_TAP
  BY DEF Taps
<1>9. ASSUME step' = "forward", BeginFound(B, 0)', work_bgn' <= work_end
      PROVE  Search(B, o, 0)'
  <2>1. At(o, vfifo, p, 0, work_end - OPA_TAP + 0)'
    <3>1. work_end' - OPA_TAP + 0 = work_end' - OPA_TAP
      BY <1>0, <1>1
    <3> QED
      BY <1>7, <3>1
  <2>2. (work_end = Time(i, p) + OPA_TAP - 0)'
    <3>1. Time(i, p) \in Nat
      BY <1>0, TimeIs
    <3> QED
      BY <1>0, <1>1, <1>6, <3>1
  <2>3. Forwarding(B, o, 0)'
    BY <1>0, <1>1, <1>9, <2>1, <2>2 DEF Forwarding
  <2> QED
    BY <1>6, <1>9, <2>3 DEF Search
<1>10. CASE Reads(vfifo, phase, d)
  <2>1. work_bgn' = x /\ step' = "forward"
    BY <1>8, <1>10 DEF RefineBegin
  <2> HIDE DEF x
  <2>2. BeginFound(B, 0)'
    BY <1>0, <1>1, <1>4, <1>5, <1>10, <2>1 DEF BeginFound
  <2>3. work_bgn' <= work_end
    BY <1>0, <1>1, <1>2, <2>1 DEF x
  <2>4. Search(B, o, 0)'
    BY <1>9, <2>1, <2>2, <2>3
  <2> QED
    BY <1>0, <1>1, <2>1, <2>4
<1>11. CASE ~Reads(vfifo, phase, d)
  <2>1. /\ d' = d + 1 /\ UNCHANGED work_bgn
        /\ step' = IF d + 1 <= DELAY_MAX /\ x + DCHAIN_TAP < work_bgn THEN step ELSE "forward"
    BY <1>8, <1>11 DEF RefineBegin
  <2>2. x < B
    BY <1>0, <1>4, <1>5, <1>11
  <2>3. CASE d + 1 <= DELAY_MAX /\ x + DCHAIN_TAP < work_bgn
    <3>1. (Taps(d))' = Taps(d) + DCHAIN_TAP
      BY <1>2, <2>1 DEF Taps
    <3>2. Refining(B, o)'
      BY <1>0, <1>1, <1>2, <1>6, <1>7, <2>1, <2>2, <2>3, <3>1 DEF Refining
    <3> QED
      BY <1>0, <1>1, <1>6, <2>1, <2>3, <3>2 DEF Search
  <2>4. CASE ~(d + 1 <= DELAY_MAX /\ x + DCHAIN_TAP < work_bgn)
    <3>1. work_end <= x + DCHAIN_TAP
      <4>1. CASE d + 1 > DELAY_MAX
        <5>1. d \in Nat /\ d >= DELAY_MAX
          BY <1>0, <4>1, Sizes
        <5> QED
          BY <1>1, <1>2, <5>1, LongDelay, Sizes
      <4> QED
        BY <1>0, <1>1, <1>2, <2>4, <4>1, Sizes
    <3> HIDE DEF x
    <3>2. BeginFound(B, 0)' /\ work_bgn' <= work_end /\ step' = "forward"
      BY <1>0, <1>1, <1>4, <2>1, <2>2, <2>4, <3>1 DEF BeginFound
    <3>3. Search(B, o, 0)'
      BY <1>9, <3>2
    <3> QED
      BY <1>0, <1>1, <3>2, <3>3
  <2> QED
    BY <2>3, <2>4
<1> QED
  BY <1>10, <1>11

LEMMA BackIs ==
  ASSUME NEW ph
  PROVE  Back(ph) \in Int /\ Back(ph) = IF ph = 1 THEN 2 * OPA_TAP ELSE OPA_TAP
BY Sizes DEF Back

LEMMA ForwardStep ==
  ASSUME NEW B, NEW o, NEW lag \in {0, OPA_TAP}, Situation(B, o), Forward, Forwarding(B, o, lag)
  PROVE  /\ vfifo' \in 0..(VFIFO_SIZE - 1) /\ step' \notin {"lost", "failed"}
         /\ Search(B, o, lag)'
<1> DEFINE x == work_end + OPA_TAP + lag
<1>0. Numbers(B, o) /\ lag \in Int /\ lag >= 0 /\ lag <= OPA_TAP /\ (lag # 0 => lag = OPA_TAP)
  BY SituationIs DEF Numbers
<1> USE DEF Numbers
<1>1. /\ UNCHANGED <<window, i, work_bgn>> /\ step = "forward" /\ p > 0 /\ p < PHASE_MAX
      /\ work_end' = work_end + OPA_TAP /\ j' = 0 /\ step' = "end"
      /\ BeginFound(B, lag) /\ At(o, vfifo, p, 0, work_end - OPA_TAP + lag)
      /\ work_end = Time(i, p) + OPA_TAP - lag
      /\ work_bgn <= work_end /\ B <= work_end /\ work_end < B + OPA_TAP + lag
      /\ (lag = OPA_TAP => work_bgn = work_end)
  BY <1>0 DEF Forward, Forwarding, Situation, EnableInv, LoopsFit
<1>2. IF p + 2 > PHASE_MAX THEN p' = 0 /\ p = PHASE_MAX - 1 /\ vfifo' = incr(vfifo)
                           ELSE p' = p + 2 /\ vfifo' = vfifo
  BY <1>0, <1>1 DEF Forward
<1>3. Placed(B, o)' /\ Time(i, p)' = Time(i, p')
  BY <1>1, PlacedStays DEF Time, Cycles, Phases
<1>4. BeginFound(B, lag)'
  BY <1>1 DEF BeginFound
<1>5. At(o, vfifo, p + 1, 0, work_end + lag) /\ work_end + lag \in Int
  <2>1. /\ o \in Int /\ vfifo \in Int /\ p \in Int /\ work_end - OPA_TAP + lag \in Int
        /\ work_end + lag = work_end - OPA_TAP + lag + OPA_TAP /\ work_end + lag \in Int
    BY <1>0
  <2> QED
    BY <1>1, <2>1, AtUp
<1>6. Time(i, p + 1) = work_end + lag
  <2>1. Time(i, p + 1) = Time(i, p) + OPA_TAP /\ Time(i, p) \in Nat
    BY <1>0, TimeIs
  <2>2. Time(i, p) = work_end + lag - OPA_TAP
    BY <1>0, <1>1, <2>1
  <2> QED
    BY <1>0, <2>1, <2>2
<1>7. At(o, vfifo', p', 0, x) /\ Time(i, p') <= x
      /\ vfifo' \in 0..(VFIFO_SIZE - 1) /\ p' # 1 /\ p' \in Nat
  <2>1. x \in Int /\ o \in Int /\ vfifo \in Int /\ p + 1 \in Int
        /\ x = work_end + lag + OPA_TAP /\ p + 2 = (p + 1) + 1
    BY <1>0
  <2> HIDE DEF x
  <2>2. CASE p + 2 > PHASE_MAX
    <3>1. p + 1 = PHASE_MAX /\ vfifo \in 0..(VFIFO_SIZE - 1)
      BY <1>0, <1>1, <1>2, <2>2
    <3>2. At(o, incr(vfifo), 0, 0, x)
      BY <1>5, <2>1, <3>1, AtWrap
    <3>3. incr(vfifo) \in 0..(VFIFO_SIZE - 1)
      BY <3>1, NextFits
    <3>4. Time(i, 0) <= x
      <4>1. Time(i, 0) = Cycles(i) /\ Time(i, 1) = Cycles(i) + OPA_TAP /\ Time(i, 0) \in Nat
        BY <1>0, TimeIs
      <4>2. Phases(p + 1) >= 0 /\ Cycles(i) \in Int /\ Phases(p + 1) \in Int
        <5>1. p + 1 \in Nat /\ i \in Int
          BY <1>0
        <5> QED
          BY <5>1, Multiples
      <4>3. Time(i, p + 1) = Cycles(i) + Phases(p + 1)
        BY DEF Time
      <4> QED
        BY <1>0, <1>5, <1>6, <2>1, <4>1, <4>2, <4>3
    <3> QED
      BY <1>2, <2>2, <3>2, <3>3, <3>4
  <2>3. CASE p + 2 <= PHASE_MAX
    <3>1. At(o, vfifo, p + 2, 0, x)
      BY <1>5, <2>1, AtUp
    <3>2. Time(i, p + 2) = x
      <4>1. Time(i, (p + 1) + 1) = Time(i, p + 1) + OPA_TAP
        <5>1. p + 1 \in Nat /\ i \in Nat
          BY <1>0
        <5> QED
          BY <5>1, TimeIs
      <4> QED
        BY <1>6, <2>1, <4>1
    <3> QED
      BY <1>0, <1>1, <1>2, <2>1, <2>3, <3>1, <3>2
  <2> QED
    BY <1>0, <2>2, <2>3
<1>8. x - OPA_TAP = work_end + lag /\ x \in Int /\ work_end' + lag = x
  BY <1>0, <1>1
<1> HIDE DEF x
<1>9. /\ B <= x - OPA_TAP /\ x - OPA_TAP < B + window.len
      /\ work_bgn <= x - OPA_TAP - lag /\ x - OPA_TAP < B + OPA_TAP + 2 * lag
      /\ (lag = OPA_TAP => work_bgn = x - OPA_TAP - OPA_TAP)
  BY <1>0, <1>1, <1>8
<1>10. Ending(B, o, lag)'
  <2>1. PICK y, q \in Int : y = x /\ q = x - OPA_TAP
    BY <1>0, <1>8
  <2>2. Back(p') = OPA_TAP
    BY <1>7 DEF Back
  <2>3. /\ y = work_end' + lag /\ q = y - Back(p')
        /\ At(o, vfifo, p, 0, y)' /\ Time(i, p)' <= y
    BY <1>0, <1>3, <1>7, <1>8, <2>1, <2>2
  <2>4. Inside(B, lag, q)' /\ q < B + OPA_TAP + 2 * lag
        /\ (lag = OPA_TAP => work_bgn' = q - OPA_TAP)
    BY <1>0, <1>1, <1>4, <1>9, <2>1 DEF Inside
  <2> QED
    BY <1>1, <1>7, <2>3, <2>4 DEF Ending
<1> QED
  BY <1>1, <1>3, <1>7, <1>10 DEF Search

LEMMA SeekEndStep ==
  ASSUME NEW B, NEW o, NEW lag \in {0, OPA_TAP}, Situation(B, o), SeekEnd, Ending(B, o, lag)
  PROVE  /\ vfifo' \in 0..(VFIFO_SIZE - 1) /\ step' \notin {"lost", "failed"}
         /\ Search(B, o, lag)'
<1>0. Numbers(B, o) /\ lag \in Int /\ lag >= 0 /\ lag <= OPA_TAP /\ (lag # 0 => lag = OPA_TAP)
  BY SituationIs DEF Numbers
<1> USE DEF Numbers
<1>1. PICK x, q \in Int :
        /\ x = work_end + lag /\ q = x - Back(p)
        /\ At(o, vfifo, p, 0, x) /\ Time(i, p) <= x
        /\ j \in {0, 1}
        /\ Inside(B, lag, q) \/ (Moved(B, lag, q) /\ j = 1)
        /\ j = 0 => /\ p # 1 /\ q < B + OPA_TAP + 2 * lag
                    /\ lag = OPA_TAP => work_bgn = q - OPA_TAP
  BY DEF Ending
<1>2. q \in Int
  OBVIOUS
<1>3. UNCHANGED <<window, d>> /\ step = "end"
  BY DEF SeekEnd
<1>4. Placed(B, o)'
  BY <1>1, <1>3, PlacedStays
<1>5. /\ B <= q /\ q < B + window.len + 3 * OPA_TAP
      /\ p # 1 => x = q + OPA_TAP
      /\ p = 1 => x = q + 2 * OPA_TAP
      /\ OPA_TAP <= x /\ x < B + Ring
  BY <1>0, <1>1 DEF Back, Inside, Moved
<1>6. Reads(vfifo, p, 0) <=> x < B + window.len
  <2>1. p \in Int /\ 0 \in Int
    BY <1>0
  <2>2. Reads(vfifo, p, 0) <=> (B <= x /\ x < B + window.len)
    BY <1>1, <1>3, <1>5, <2>1, Tested
  <2> QED
    BY <1>0, <1>5, <2>2
<1>7. CASE p # 0 /\ ~Reads(vfifo, p, 0) /\ j > 0
  <2>1. step' = "ended" /\ UNCHANGED <<vfifo, i, p, work_bgn, work_end>>
    BY <1>7 DEF SeekEnd, edges
  <2>2. Inside(B, lag, q)' \/ Moved(B, lag, q)'
    BY <1>1, <1>3, <2>1 DEF Inside, Moved, BeginFound
  <2>5. x = work_end' + lag /\ q = x - Back(p')
    <3>1. work_end' = work_end /\ p' = p /\ work_end \in Int /\ Back(p) \in Int
      BY <1>0, <2>1, BackIs
    <3> QED
      BY <1>0, <1>1, <1>2, <3>1
  <2>3. At(o, vfifo, p, 0, x)' /\ (B + window.len <= x)'
    BY <1>0, <1>1, <1>3, <1>6, <1>7, <2>1
  <2>4. Ended(B, o, lag)'
    BY <2>2, <2>3, <2>5 DEF Ended
  <2> QED
    BY <1>0, <1>4, <2>1, <2>4 DEF Search
<1>8. CASE ~(p # 0 /\ ~Reads(vfifo, p, 0) /\ j > 0)
  <2>1. /\ work_bgn' = IF p # 0 /\ ~Reads(vfifo, p, 0) THEN work_end ELSE work_bgn
        /\ work_end' = work_end + OPA_TAP /\ j' = 1
        /\ IF p < PHASE_MAX THEN p' = p + 1 /\ UNCHANGED <<vfifo, i, step>>
           ELSE /\ vfifo' = incr(vfifo) /\ p' = 0 /\ i' = i + 1
                /\ step' = IF i = VFIFO_SIZE THEN "failed" ELSE step
    BY <1>8 DEF SeekEnd
  <2>2. PICK r \in Int : r = IF p = 0 THEN q ELSE x
    BY <1>1, <1>2
  <2>3. Inside(B, lag, r)' \/ Moved(B, lag, r)'
    <3>1. CASE p = 0
      BY <1>1, <1>3, <2>1, <2>2, <3>1 DEF Inside, Moved, BeginFound
    <3>2. CASE p # 0 /\ Reads(vfifo, p, 0)
      <4>1. Inside(B, lag, q)
        BY <1>0, <1>1, <1>3, <1>5, <1>6, <3>2 DEF Moved
      <4>2. work_bgn' = work_bgn /\ r = x /\ q <= x
        BY <1>0, <1>5, <2>1, <2>2, <3>2
      <4> QED
        BY <1>0, <1>1, <1>3, <1>5, <1>6, <3>2, <4>1, <4>2 DEF Inside, BeginFound
    <3>3. CASE p # 0 /\ ~Reads(vfifo, p, 0)
      <4>1. j = 0 /\ r = x /\ work_bgn' = work_end
        BY <1>1, <1>3, <1>8, <2>1, <2>2, <3>3
      <4>2. Inside(B, lag, q) /\ x = q + OPA_TAP /\ B + window.len <= x
        BY <1>0, <1>1, <1>3, <1>5, <1>6, <3>3, <4>1
      <4>3. lag = OPA_TAP
        BY <1>0, <1>1, <1>3, <4>1, <4>2
      <4>4. work_bgn' = x - OPA_TAP /\ work_bgn = q - OPA_TAP
        BY <1>0, <1>1, <1>3, <4>1, <4>3
      <4>5. (work_bgn - OPA_TAP) % Cycle = 0
        BY <1>0, <4>2, <4>3 DEF Inside, BeginFound
      <4>6. (work_bgn' - 2 * OPA_TAP) % Cycle = 0
        <5>1. work_bgn' - 2 * OPA_TAP = work_bgn - OPA_TAP
          BY <1>0, <4>2, <4>4
        <5> QED
          BY <4>5, <5>1
      <4>7. x < B + 4 * OPA_TAP
        BY <1>0, <1>1, <1>3, <4>1, <4>2, <4>3
      <4> QED
        BY <1>0, <1>1, <1>3, <4>1, <4>2, <4>3, <4>4, <4>6, <4>7 DEF Moved
    <3> QED
      BY <3>1, <3>2, <3>3
  <2>4. work_end' + lag = x + OPA_TAP /\ x + OPA_TAP \in Int
    BY <1>0, <1>1, <2>1
  <2>5. ASSUME vfifo' \in 0..(VFIFO_SIZE - 1), step' = "end", At(o, vfifo', p', 0, x + OPA_TAP),
               Time(i', p') <= x + OPA_TAP, x + OPA_TAP - Back(p') = r
        PROVE  Search(B, o, lag)'
    <3>1. Ending(B, o, lag)'
      <4>1. work_end' + lag - Back(p') = r /\ j' = 1
        <5>1. work_end' \in Int /\ Back(p') \in Int
          BY <1>0, <2>1, BackIs
        <5> QED
          BY <1>0, <2>1, <2>4, <2>5, <5>1
      <4>2. 1 # 0 /\ j' # 0 /\ j' \in {0, 1}
        BY <4>1
      <4> QED
        <5>1. PICK y \in Int : y = x + OPA_TAP
          BY <2>4
        <5>2. /\ y = work_end' + lag /\ r = y - Back(p')
              /\ At(o, vfifo, p, 0, y)' /\ (Time(i, p) <= y)'
          <6>1. Time(i, p)' = Time(i', p')
            BY DEF Time, Cycles, Phases
          <6>2. y = work_end' + lag
            BY <2>4, <5>1
          <6>3. r = y - Back(p')
            <7>1. Back(p') \in Int
              BY BackIs
            <7> QED
              BY <1>0, <2>5, <5>1, <7>1
          <6>4. At(o, vfifo, p, 0, y)'
            BY <2>5, <5>1
          <6> QED
            BY <2>5, <5>1, <6>1, <6>2, <6>3, <6>4
        <5> QED
          BY <2>3, <4>1, <4>2, <5>2 DEF Ending
    <3> QED
      BY <1>4, <2>5, <3>1 DEF Search
  <2>6. CASE p < PHASE_MAX
    <3>1. p' = p + 1 /\ UNCHANGED <<vfifo, i, step>>
      BY <2>1, <2>6
    <3>2. At(o, vfifo, p + 1, 0, x + OPA_TAP)
      <4>1. o \in Int /\ vfifo \in Int /\ p \in Int
        BY <1>0
      <4> QED
        BY <1>1, <1>3, <4>1, AtUp
    <3>3. Time(i, p + 1) <= x + OPA_TAP
      <4>1. Time(i, p + 1) = Time(i, p) + OPA_TAP /\ Time(i, p) \in Nat
        BY <1>0, TimeIs
      <4> QED
        BY <1>0, <1>1, <1>3, <4>1
    <3>4. x + OPA_TAP - Back(p + 1) = r
      BY <1>0, <1>5, <2>2, <2>6 DEF Back
    <3> QED
      BY <1>0, <1>1, <1>3, <2>5, <3>1, <3>2, <3>3, <3>4
  <2>7. CASE p = PHASE_MAX
    <3>1. /\ vfifo' = incr(vfifo) /\ p' = 0 /\ i' = i + 1
          /\ step' = IF i = VFIFO_SIZE THEN "failed" ELSE step
      BY <1>0, <2>1, <2>7
    <3>2. At(o, incr(vfifo), 0, 0, x + OPA_TAP) /\ incr(vfifo) \in 0..(VFIFO_SIZE - 1)
      <4>1. o \in Int /\ vfifo \in 0..(VFIFO_SIZE - 1)
        BY <1>0
      <4>2. At(o, incr(vfifo), 0, 0, x + OPA_TAP)
        BY <1>1, <1>3, <2>7, <4>1, AtWrap
      <4> QED
        BY <4>1, <4>2, NextFits
    <3>3. Time(i + 1, 0) = Time(i, PHASE_MAX) + OPA_TAP /\ Time(i, PHASE_MAX) \in Nat
      BY <1>0, TimeIs
    <3>4. x + OPA_TAP - Back(0) = r
      BY <1>0, <1>5, <2>2, <2>7 DEF Back
    <3>5. i # VFIFO_SIZE
      <4>1. SUFFICES ASSUME i = VFIFO_SIZE PROVE FALSE
        OBVIOUS
      <4>2. Time(i + 1, 0) = Ring + Cycle
        <5>1. i \in Int /\ i + 1 \in Nat
          BY <1>0
        <5>2. Time(i + 1, 0) = Cycles(i + 1)
          BY <5>1, TimeIs
        <5>3. Cycles(i + 1) = Cycles(i) + Cycle /\ Cycles(i) = Ring
          BY <4>1, <5>1, Multiples
        <5> QED
          BY <5>2, <5>3
      <4>3. Ring + Cycle <= x + OPA_TAP
        BY <1>0, <1>1, <1>3, <2>7, <3>3, <4>2
      <4>4. x < B + window.len \/ x < B + 4 * OPA_TAP
        <5>1. CASE Reads(vfifo, p, 0)
          BY <1>6, <5>1
        <5>2. CASE ~Reads(vfifo, p, 0)
          <6>1. j = 0 /\ x = q + OPA_TAP
            BY <1>0, <1>1, <1>3, <1>5, <1>8, <2>7, <5>2
          <6> QED
            BY <1>0, <1>1, <1>3, <6>1
        <5> QED
          BY <5>1, <5>2
      <4> QED
        BY <1>0, <4>3, <4>4
    <3> QED
      BY <1>0, <1>1, <1>3, <2>5, <2>7, <3>1, <3>2, <3>3, <3>4, <3>5
  <2>8. vfifo' \in 0..(VFIFO_SIZE - 1) /\ step' \notin {"lost", "failed"} /\ Search(B, o, lag)'
    BY <1>0, <2>6, <2>7
  <2> QED
    BY <2>8
<1> QED
  BY <1>7, <1>8

LEMMA EndFoundStep ==
  ASSUME NEW B, NEW o, NEW lag \in {0, OPA_TAP}, Situation(B, o), EndFound, Ended(B, o, lag)
  PROVE  /\ vfifo' \in 0..(VFIFO_SIZE - 1) /\ step' \notin {"lost", "failed"}
         /\ Search(B, o, lag)'
<1>0. Numbers(B, o) /\ lag \in Int /\ lag >= 0 /\ lag <= OPA_TAP
  BY SituationIs DEF Numbers
<1> USE DEF Numbers
<1>1. PICK x, q \in Int :
        /\ x = work_end + lag /\ q = x - Back(p)
        /\ At(o, vfifo, p, 0, x) /\ B + window.len <= x
        /\ Inside(B, lag, q) \/ Moved(B, lag, q)
  BY DEF Ended
<1>2. /\ UNCHANGED <<window, work_bgn>> /\ step = "ended" /\ p > 0
      /\ IF p = 1 THEN p' = PHASE_MAX /\ vfifo' = decr(vfifo) /\ work_end' = work_end - 2 * OPA_TAP
                  ELSE p' = p - 1 /\ work_end' = work_end - OPA_TAP /\ UNCHANGED vfifo
      /\ phase' = p' /\ d' = 0 /\ step' = "taps"
  BY <1>0 DEF EndFound, Situation, EnableInv, LoopsFit
<1>3. Placed(B, o)'
  BY <1>2, PlacedStays
<1>4. q = work_end' + lag
  <2>1. Back(p) = IF p = 1 THEN 2 * OPA_TAP ELSE OPA_TAP
    BY BackIs
  <2> QED
    BY <1>0, <1>1, <1>2, <2>1
<1>5. At(o, vfifo', p', 0, q) /\ vfifo' \in 0..(VFIFO_SIZE - 1)
  <2>1. o \in Int /\ vfifo \in Int /\ p \in Int /\ vfifo \in 0..(VFIFO_SIZE - 1)
    BY <1>0
  <2>2. CASE p = 1
    <3>1. PICK y \in Int : y = x - OPA_TAP
      BY <1>0
    <3>2. q = y - OPA_TAP /\ 0 = p - 1
      BY <1>0, <1>1, <2>2, <3>1, BackIs
    <3>3. At(o, vfifo, 0, 0, y)
      BY <1>1, <2>1, <3>1, <3>2, AtDown
    <3>4. At(o, decr(vfifo), PHASE_MAX, 0, q)
      BY <2>1, <3>2, <3>3, AtWrap
    <3> QED
      BY <1>2, <2>1, <2>2, <3>4, NextFits
  <2>3. CASE p # 1
    <3>1. q = x - OPA_TAP
      BY <1>1, <2>3, BackIs
    <3>2. At(o, vfifo, p - 1, 0, q)
      BY <1>1, <2>1, <3>1, AtDown
    <3> QED
      BY <1>2, <2>1, <2>3, <3>2
  <2> QED
    BY <2>2, <2>3
<1>6. q + Taps(0) = work_end' + lag
  <2>1. Taps(0) = 0
    BY Multiples
  <2> QED
    BY <1>1, <1>4, <2>1
<1>7. B + window.len <= q + 2 * OPA_TAP
  BY <1>0, <1>1, BackIs
<1>8. Inside(B, lag, q)' \/ Moved(B, lag, q)'
  BY <1>1, <1>2 DEF Inside, Moved, BeginFound
<1>9. Tapping(B, o, lag)'
  <2>1. (q + Taps(d) = work_end + lag)' /\ At(o, vfifo, phase, 0, q)'
    BY <1>2, <1>5, <1>6 DEF Taps
  <2>2. (d <= DELAY_MAX + 1)' /\ ~(d > 0)' /\ step' # "range" /\ d' = 0
    BY <1>2, Sizes
  <2>3. (B + window.len <= q + 2 * OPA_TAP)'
    BY <1>2, <1>7
  <2> QED
    BY <1>8, <2>1, <2>2, <2>3 DEF Tapping
<1> QED
  BY <1>2, <1>3, <1>5, <1>9 DEF Search

LEMMA EndTapStep ==
  ASSUME NEW B, NEW o, NEW lag \in {0, OPA_TAP}, Situation(B, o), EndTap, Tapping(B, o, lag)
  PROVE  /\ vfifo' \in 0..(VFIFO_SIZE - 1) /\ step' \notin {"lost", "failed"}
         /\ Search(B, o, lag)'
<1>0. Numbers(B, o) /\ lag \in Int /\ lag >= 0 /\ lag <= OPA_TAP
  BY SituationIs DEF Numbers
<1> USE DEF Numbers
<1>1. PICK q \in Int :
        /\ q + Taps(d) = work_end + lag
        /\ At(o, vfifo, phase, 0, q) /\ d <= DELAY_MAX + 1
        /\ \/ /\ Inside(B, lag, q) /\ B + window.len <= q + 2 * OPA_TAP
              /\ d > 0 => q + Taps(d) < B + window.len + DCHAIN_TAP
           \/ Moved(B, lag, q) /\ d = 0
  BY DEF Tapping
<1>2. UNCHANGED <<window, vfifo, phase, work_bgn>> /\ step = "taps" /\ phase \in Int
  BY <1>0 DEF EndTap, Situation, EnableInv, RegistersLegal
<1>3. /\ Taps(d) \in Int /\ Taps(d) >= 0 /\ Taps(d + 1) = Taps(d) + DCHAIN_TAP /\ (d = 0 => Taps(d) = 0)
  <2>1. d \in Int /\ d \in Nat
    BY <1>0
  <2>2. Taps(d) \in Int
    BY <2>1, Multiples
  <2>3. Taps(d + 1) = Taps(d) + DCHAIN_TAP
    BY <2>1, Multiples
  <2>4. Taps(d) >= 0
    BY <2>1, Multiples
  <2>5. Taps(0) = 0
    BY Multiples
  <2> QED
    BY <2>2, <2>3, <2>4, <2>5
<1>4. PICK x \in Int : x = q + Taps(d)
  BY <1>3
<1>5. Reads(vfifo, phase, d) <=> x < B + window.len
  <2>1. o \in Int /\ vfifo \in Int /\ d \in Int
    BY <1>0
  <2>2. At(o, vfifo, phase, d, x)
    BY <1>1, <1>2, <1>4, <2>1, AtTap
  <2>3. B <= x /\ OPA_TAP <= x /\ x < B + Ring
    BY <1>0, <1>1, <1>3, <1>4 DEF Inside, Moved
  <2>4. Reads(vfifo, phase, d) <=> (B <= x /\ x < B + window.len)
    BY <1>2, <2>1, <2>2, <2>3, Tested
  <2> QED
    BY <2>3, <2>4
<1>6. Placed(B, o)'
  BY <1>2, PlacedStays
<1>7. At(o, vfifo, phase, 0, q)'
  BY <1>1, <1>2
<1>8. (Inside(B, lag, q) => Inside(B, lag, q)') /\ (Moved(B, lag, q) => Moved(B, lag, q)')
      /\ (B + window.len <= q + 2 * OPA_TAP => (B + window.len <= q + 2 * OPA_TAP)')
  BY <1>2 DEF Inside, Moved, BeginFound
<1>9. CASE d <= DELAY_MAX /\ Reads(vfifo, phase, d)
  <2>1. d' = d + 1 /\ work_end' = work_end + DCHAIN_TAP /\ step' = "taps"
    BY <1>2, <1>9 DEF EndTap
  <2>2. Inside(B, lag, q) /\ B + window.len <= q + 2 * OPA_TAP
    BY <1>0, <1>1, <1>3, <1>4, <1>5, <1>9 DEF Moved
  <2>3. Taps(d)' = Taps(d) + DCHAIN_TAP
    BY <1>3, <2>1 DEF Taps
  <2>4. (q + Taps(d) = work_end + lag)'
    BY <1>0, <1>1, <1>3, <2>1, <2>3
  <2>5. (d <= DELAY_MAX + 1)' /\ (q + Taps(d) < B + window.len + DCHAIN_TAP)' /\ step' # "range"
    BY <1>0, <1>2, <1>3, <1>4, <1>5, <1>9, <2>1, <2>3, Sizes
  <2>6. Tapping(B, o, lag)'
    BY <1>1, <1>7, <1>8, <2>2, <2>4, <2>5 DEF Tapping
  <2> QED
    BY <1>0, <1>2, <1>6, <2>1, <2>6 DEF Search
<1>10. CASE ~(d <= DELAY_MAX /\ Reads(vfifo, phase, d))
  <2>1. UNCHANGED <<d, work_end>> /\ step' = "range"
    BY <1>10 DEF EndTap
  <2>2. Taps(d)' = Taps(d)
    BY <2>1 DEF Taps
  <2>3. (q + Taps(d) = work_end + lag)' /\ (d <= DELAY_MAX + 1)'
    BY <1>1, <2>1, <2>2
  <2>4. CASE Inside(B, lag, q) /\ B + window.len <= q + 2 * OPA_TAP
             /\ (d > 0 => q + Taps(d) < B + window.len + DCHAIN_TAP)
    <3>1. d > 0
      <4>1. CASE d = 0
        BY <1>0, <1>3, <1>4, <1>5, <1>10, <2>4, <4>1, Sizes DEF Inside
      <4> QED
        BY <1>0, <4>1
    <3>2. d = DELAY_MAX + 1 \/ B + window.len <= q + Taps(d)
      BY <1>0, <1>1, <1>3, <1>4, <1>5, <1>10, Sizes
    <3>3. /\ (d > 0)' /\ (q + Taps(d) < B + window.len + DCHAIN_TAP)'
          /\ (d = DELAY_MAX + 1 \/ B + window.len <= q + Taps(d))'
      BY <1>2, <2>1, <2>2, <2>4, <3>1, <3>2
    <3>4. Tapping(B, o, lag)'
      BY <1>1, <1>7, <1>8, <2>3, <2>4, <3>3 DEF Tapping
    <3> QED
      BY <1>0, <1>2, <1>6, <2>1, <3>4 DEF Search
  <2>5. CASE Moved(B, lag, q) /\ d = 0
    <3>2. Moved(B, lag, q)' /\ d' = 0
      BY <1>8, <2>1, <2>5
    <3>1. Tapping(B, o, lag)'
      BY <1>7, <2>3, <3>2 DEF Tapping
    <3> QED
      BY <1>0, <1>2, <1>6, <2>1, <3>1 DEF Search
  <2> QED
    BY <1>1, <2>4, <2>5
<1> QED
  BY <1>9, <1>10

LEMMA RewindStep ==
  ASSUME NEW B, NEW o, NEW lag \in {0, OPA_TAP}, Situation(B, o), Rewind, Tapping(B, o, lag)
  PROVE  /\ vfifo' \in 0..(VFIFO_SIZE - 1) /\ step' \notin {"lost", "failed"}
         /\ Search(B, o, lag)'
<1>0. Numbers(B, o) /\ lag \in Int /\ lag >= 0 /\ lag <= OPA_TAP
  BY SituationIs DEF Numbers
<1> USE DEF Numbers
<1>1. UNCHANGED <<window, work_bgn>> /\ step = "range"
  BY DEF Rewind
<1>2. PICK q \in Int :
        /\ q + Taps(d) = work_end + lag
        /\ \/ /\ Inside(B, lag, q) /\ B + window.len <= q + 2 * OPA_TAP
              /\ q + Taps(d) < B + window.len + DCHAIN_TAP
              /\ d > 0 /\ (d = DELAY_MAX + 1 \/ B + window.len <= q + Taps(d))
           \/ Moved(B, lag, q) /\ d = 0
  BY <1>1 DEF Tapping
<1>3. PICK end \in Int : end = IF d = 0 THEN work_end ELSE work_end - DCHAIN_TAP
  <2>1. (IF d = 0 THEN work_end ELSE work_end - DCHAIN_TAP) \in Int
    BY <1>0
  <2> QED
    BY <2>1
<1>4. Placed(B, o)'
  BY <1>1, PlacedStays
<1>5. work_bgn <= end /\ (work_end' = end => EdgesFound(B, lag)')
  <2>1. CASE /\ Inside(B, lag, q) /\ B + window.len <= q + 2 * OPA_TAP
             /\ q + Taps(d) < B + window.len + DCHAIN_TAP
             /\ d > 0 /\ (d = DELAY_MAX + 1 \/ B + window.len <= q + Taps(d))
    <3>1. PICK e \in Nat : d = e + 1
      BY <1>0, <2>1
    <3>2. Taps(e) \in Int
      BY Multiples
    <3>3. Taps(d) = Taps(e) + DCHAIN_TAP
      BY <3>1, Multiples
    <3>4. Taps(e) >= 0
      BY Multiples
    <3>5. d = DELAY_MAX + 1 => Taps(e) >= OPA_TAP
      BY <3>1, LongDelay, Sizes
    <3>6. end = work_end - DCHAIN_TAP /\ end + lag = q + Taps(e)
      BY <1>0, <1>2, <1>3, <2>1, <3>2, <3>3
    <3>7. /\ work_bgn <= end /\ end + lag < B + window.len
          /\ B + window.len <= end + lag + OPA_TAP
      BY <1>0, <2>1, <3>2, <3>3, <3>4, <3>5, <3>6 DEF Inside
    <3>8. BeginFound(B, lag)'
      BY <1>1, <2>1 DEF Inside, BeginFound
    <3> QED
      BY <1>1, <3>7, <3>8 DEF EdgesFound
  <2>2. CASE Moved(B, lag, q) /\ d = 0
    <3>1. Taps(d) = 0
      BY <2>2, Multiples
    <3>2. end = work_end /\ work_end = work_bgn /\ q = work_bgn + OPA_TAP
      BY <1>0, <1>2, <1>3, <2>2, <3>1 DEF Moved
    <3>3. Moved(B, lag, work_bgn + OPA_TAP)
      BY <2>2, <3>2
    <3>4. Moved(B, lag, work_bgn + OPA_TAP)'
      BY <1>1, <3>3 DEF Moved
    <3> QED
      BY <1>0, <1>1, <3>2, <3>4 DEF EdgesFound
  <2> QED
    BY <1>2, <2>1, <2>2
<1>6. work_end' = end
  BY <1>3 DEF Rewind
<1>7. step' = "passing" /\ vfifo' \in {vfifo, decr(vfifo)}
  BY <1>0, <1>3, <1>5 DEF Rewind
<1>8. vfifo' \in 0..(VFIFO_SIZE - 1)
  BY <1>0, <1>7, NextFits
<1> QED
  BY <1>4, <1>5, <1>6, <1>7, <1>8 DEF Search

LEMMA TrackStep ==
  ASSUME NEW B, NEW o, NEW lag \in {0, OPA_TAP}, Situation(B, o), Track, EdgesFound(B, lag)
  PROVE  /\ vfifo' \in 0..(VFIFO_SIZE - 1) /\ step' \notin {"lost", "failed"}
         /\ Search(B, o, lag)'
<1>1. UNCHANGED <<window, vfifo, work_bgn, work_end>> /\ step' \in {"passing", "failing", "choose"}
  BY DEF Track, edges
<1>2. Placed(B, o)' /\ vfifo \in 0..(VFIFO_SIZE - 1)
  BY <1>1, PlacedStays DEF Situation
<1>3. EdgesFound(B, lag)'
  BY <1>1 DEF EdgesFound, BeginFound, Moved
<1> QED
  BY <1>1, <1>2, <1>3 DEF Search

(* What a multiple of the cycle is, and how far apart two are.             *)
LEMMA WholeCycles ==
  ASSUME NEW x \in Int, x % Cycle = 0
  PROVE  \E n \in Int : x = Cycles(n)
<1>1. Cycle \in Nat /\ Cycle > 0
  BY Multiples, Sizes
<1>2. x \div Cycle \in Int /\ x = (x \div Cycle) * Cycle + (x % Cycle)
  BY <1>1, SMT
<1> DEFINE n == x \div Cycle
<1>3. n \in Int /\ n * Cycle \in Int /\ x = n * Cycle + 0
  BY <1>1, <1>2, SMT
<1> HIDE DEF n
<1>4. x = n * Cycle
  BY <1>3
<1> QED
  BY <1>3, <1>4 DEF Cycles

LEMMA CyclesApart ==
  ASSUME NEW a \in Int, NEW b \in Int, NEW x \in Int, Cycles(a) = Cycles(b) + x
  PROVE  (x > 0 => x >= Cycle) /\ (x < 0 => x <= -Cycle)
<1>1. Cycle \in Nat /\ Cycle > 0
  BY Multiples, Sizes
<1>2. \A m, n \in Int : m < n => (m + 1) * Cycle <= n * Cycle /\ (m + 1) * Cycle = m * Cycle + Cycle
                                 /\ m * Cycle \in Int /\ n * Cycle \in Int
  BY <1>1, SMT
<1>3. Cycles(a) \in Int /\ Cycles(b) \in Int
  BY Multiples
<1>4. a < b => Cycles(a) + Cycle <= Cycles(b)
  BY <1>2 DEF Cycles
<1>5. b < a => Cycles(b) + Cycle <= Cycles(a)
  BY <1>2 DEF Cycles
<1> QED
  BY <1>1, <1>3, <1>4, <1>5

LEMMA UpwardIs ==
  ASSUME NEW n \in Int, NEW u \in Nat, u > 0
  PROVE  /\ Upward(n, u) \in Int /\ Upward(n, u) * u \in Int
         /\ n <= Upward(n, u) * u /\ Upward(n, u) * u < n + u
<1> DEFINE q == (n + u - 1) \div u
<1>1. q \in Int /\ q * u <= n + u - 1 /\ n + u - 1 < q * u + u
  <2>1. n + u - 1 \in Int
    OBVIOUS
  <2> QED
    BY <2>1, Quotient
<1> HIDE DEF q
<1>2. q * u \in Int
  BY <1>1, SMT
<1>3. n <= q * u /\ q * u < n + u
  BY <1>1, <1>2
<1> QED
  BY <1>1, <1>2, <1>3 DEF Upward, q

(* The setting chosen for the middle of a cycle is less than a tap above.  *)
LEMMA ChosenTime ==
  ASSUME NEW mid \in Int, 1 <= mid,
         NEW phases, phases = Upward(mid, OPA_TAP),
         NEW taps, taps = Upward(mid - (phases - 1) * OPA_TAP, DCHAIN_TAP)
  PROVE  /\ phases = 1 <=> mid <= OPA_TAP
         /\ mid <= Phases(phases - 1) + Taps(taps)
         /\ Phases(phases - 1) + Taps(taps) < mid + DCHAIN_TAP
         /\ phases \in Int /\ taps \in Int
<1>0. OPA_TAP \in Nat /\ OPA_TAP > 0 /\ DCHAIN_TAP \in Nat /\ DCHAIN_TAP > 0
  BY Sizes
<1>1. /\ phases \in Int /\ phases * OPA_TAP \in Int
      /\ mid <= phases * OPA_TAP /\ phases * OPA_TAP < mid + OPA_TAP
  BY <1>0, UpwardIs
<1>2. Phases(phases) = phases * OPA_TAP
  BY DEF Phases
<1>3. Phases(phases - 1) \in Int /\ Phases(phases) = Phases(phases - 1) + OPA_TAP
  BY <1>1, MultiplesBelow
<1>4. PICK rest \in Int : rest = mid - (phases - 1) * OPA_TAP
  <2>1. (phases - 1) * OPA_TAP = Phases(phases - 1)
    BY DEF Phases
  <2>2. mid - (phases - 1) * OPA_TAP \in Int
    BY <1>3, <2>1
  <2> QED
    BY <2>2
<1>5. rest = mid - Phases(phases - 1)
  BY <1>4 DEF Phases
<1>6. /\ taps \in Int /\ taps * DCHAIN_TAP \in Int
      /\ rest <= taps * DCHAIN_TAP /\ taps * DCHAIN_TAP < rest + DCHAIN_TAP
  BY <1>0, <1>4, UpwardIs
<1>7. Taps(taps) = taps * DCHAIN_TAP
  BY DEF Taps
<1>8. phases = 1 <=> mid <= OPA_TAP
  <2>1. ASSUME phases = 1 PROVE mid <= OPA_TAP
    BY <1>0, <1>1, <2>1
  <2>2. ASSUME phases > 1 PROVE mid > OPA_TAP
    <3>1. phases * OPA_TAP >= 2 * OPA_TAP
      BY <1>0, <1>1, <2>2, SMT
    <3> QED
      BY <1>0, <1>1, <3>1
  <2>3. ASSUME phases < 1 PROVE FALSE
    <3>1. phases * OPA_TAP <= 0
      BY <1>0, <1>1, <2>3, SMT
    <3> QED
      BY <1>0, <1>1, <3>1
  <2> QED
    BY <1>0, <1>1, <2>1, <2>2, <2>3
<1> DEFINE below == Phases(phases - 1)
<1>9. below \in Int /\ rest = mid - below
  BY <1>3, <1>5
<1> HIDE DEF below
<1>10. mid <= below + Taps(taps) /\ below + Taps(taps) < mid + DCHAIN_TAP
  BY <1>0, <1>6, <1>7, <1>9
<1> QED
  BY <1>1, <1>6, <1>8, <1>10 DEF below

(* What is chosen for the middle m of the edges is in the window, and not  *)
(* far from its middle.                                                    *)
LEMMA ChosenMiddle ==
  ASSUME NEW B, NEW o, NEW lag \in {0, OPA_TAP}, Situation(B, o), EdgesFound(B, lag),
         NEW m \in Int, 2 * m <= work_bgn + work_end, work_bgn + work_end <= 2 * m + 1,
         NEW mid \in Int, 1 <= mid, mid <= Cycle, NEW k \in Int, m = Cycles(k) + mid,
         NEW y \in Int, IF mid <= OPA_TAP THEN y = Cycles(k) + OPA_TAP
                                          ELSE m <= y /\ y < m + DCHAIN_TAP
  PROVE  Middle(B, y)
<1>0. Numbers(B, o) /\ Cycles(k) \in Int
  BY SituationIs, Multiples DEF Numbers
<1> USE DEF Numbers
<1>1. m <= y /\ y < m + OPA_TAP
  BY <1>0
<1>2. CASE /\ lag = 0 /\ B <= work_bgn /\ work_bgn < B + DCHAIN_TAP /\ work_bgn <= work_end
           /\ work_end + lag < B + window.len /\ B + window.len <= work_end + lag + OPA_TAP
  BY <1>0, <1>1, <1>2 DEF Middle
<1>3. CASE /\ lag = OPA_TAP /\ B <= work_bgn /\ work_bgn < B + 2 * OPA_TAP
           /\ (work_bgn - OPA_TAP) % Cycle = 0 /\ work_bgn <= work_end
           /\ work_end + lag < B + window.len /\ B + window.len <= work_end + lag + OPA_TAP
  <2>1. B <= y /\ y < B + window.len
    BY <1>0, <1>1, <1>3
  <2>2. CASE mid > OPA_TAP
    BY <1>0, <1>3, <2>1, <2>2 DEF Middle
  <2>3. CASE mid <= OPA_TAP /\ window.len <= Cycle
    <3>1. work_bgn - OPA_TAP \in Int
      BY <1>0
    <3>2. PICK c \in Int : work_bgn - OPA_TAP = Cycles(c)
      BY <1>3, <3>1, WholeCycles
    <3>3. PICK z \in Int : z = Cycles(k) - (work_bgn - OPA_TAP)
      BY <1>0, <3>1
    <3>4. Cycles(k) = Cycles(c) + z
      BY <1>0, <3>1, <3>2, <3>3
    <3>5. (z > 0 => z >= Cycle) /\ (z < 0 => z <= -Cycle)
      BY <3>4, CyclesApart
    <3>6. z <= 0
      BY <1>0, <1>3, <2>3, <3>3, <3>5
    <3>7. y <= m
      BY <1>0, <1>3, <2>3, <3>3, <3>6
    <3> QED
      BY <1>0, <1>1, <1>3, <2>1, <3>7 DEF Middle
  <2>4. CASE window.len > Cycle
    BY <1>0, <2>1, <2>4 DEF Middle
  <2> QED
    BY <1>0, <2>2, <2>3, <2>4
<1>4. CASE Moved(B, lag, work_bgn + OPA_TAP) /\ work_end = work_bgn
  <2>1. /\ B + window.len <= work_bgn + OPA_TAP /\ work_bgn < B + 3 * OPA_TAP
        /\ (work_bgn - 2 * OPA_TAP) % Cycle = 0 /\ m = work_bgn
    BY <1>0, <1>4 DEF Moved
  <2>2. mid > OPA_TAP
    <3>1. work_bgn - 2 * OPA_TAP \in Int
      BY <1>0
    <3>2. PICK c \in Int : work_bgn - 2 * OPA_TAP = Cycles(c)
      BY <2>1, <3>1, WholeCycles
    <3>3. PICK z \in Int : z = 2 * OPA_TAP - mid
      <4>1. 2 * OPA_TAP - mid \in Int
        BY <1>0
      <4> QED
        BY <4>1
    <3>4. Cycles(k) = Cycles(c) + z
      BY <1>0, <2>1, <3>2, <3>3
    <3>5. (z > 0 => z >= Cycle) /\ (z < 0 => z <= -Cycle)
      BY <3>4, CyclesApart
    <3> QED
      BY <1>0, <3>3, <3>5
  <2> QED
    BY <1>0, <2>1, <2>2 DEF Middle
<1> QED
  BY <1>2, <1>3, <1>4 DEF EdgesFound, BeginFound

(* Some cycle of the ring reaches a time that is right within the cycle.   *)
LEMMA CycleReaches ==
  ASSUME NEW o \in Int, NEW ph \in Int, NEW dl \in Int, NEW y \in Int,
         (Opening(0, ph, dl) + o - y) % Cycle = 0
  PROVE  \E g \in 0..(VFIFO_SIZE - 1) : At(o, g, ph, dl, y)
<1>1. Opening(0, ph, dl) \in Int /\ Opening(0, ph, dl) = Cycles(0) + Phases(ph) + Taps(dl)
  BY OpeningIs
<1>2. PICK x \in Int : x = Opening(0, ph, dl) + o - y
  BY <1>1
<1>3. PICK n \in Int : x = Cycles(n)
  BY <1>2, WholeCycles
<1>4. PICK g \in 0..(VFIFO_SIZE - 1), t \in Int : g + n = t * VFIFO_SIZE
  <2>1. (-n) % VFIFO_SIZE \in 0..(VFIFO_SIZE - 1) /\ (-n) \div VFIFO_SIZE \in Int
        /\ -n = ((-n) \div VFIFO_SIZE) * VFIFO_SIZE + ((-n) % VFIFO_SIZE)
    BY Sizes, SMT
  <2>2. PICK h \in 0..(VFIFO_SIZE - 1), s \in Int : -n = s * VFIFO_SIZE + h
    BY <2>1
  <2>3. h + n = (-s) * VFIFO_SIZE /\ -s \in Int
    BY <2>2, Sizes, SMT
  <2> QED
    BY <2>3
<1>5. Cycles(g) + x = t * Ring /\ t * Ring \in Int
  <2>1. Cycle \in Nat /\ Ring = VFIFO_SIZE * Cycle /\ VFIFO_SIZE \in Nat /\ Ring \in Nat
    BY Multiples, Sizes DEF Ring
  <2>2. (g + n) * Cycle = g * Cycle + n * Cycle
    BY <1>4, <2>1, SMT
  <2>3. (t * VFIFO_SIZE) * Cycle = t * (VFIFO_SIZE * Cycle)
    BY <1>4, <2>1, SMT
  <2>4. t * Ring \in Int
    BY <2>1, SMT
  <2> QED
    BY <1>3, <1>4, <2>1, <2>2, <2>3, <2>4 DEF Cycles
<1>6. Opening(g, ph, dl) + o - y = t * Ring + 0
  <2>1. Opening(g, ph, dl) = Cycles(g) + Phases(ph) + Taps(dl)
    BY OpeningIs
  <2>2. Cycles(0) = 0
    BY Multiples
  <2>3. Cycles(g) \in Int
    BY Multiples
  <2>4. Phases(ph) \in Int
    BY Multiples
  <2>5. Taps(dl) \in Int
    BY Multiples
  <2> QED
    BY <1>1, <1>2, <1>5, <2>1, <2>2, <2>3, <2>4, <2>5
<1>7. (t * Ring + 0) % Ring = 0
  <2>1. Ring \in Nat /\ Ring > 0
    BY Multiples, Sizes
  <2>2. t * Ring + 0 \in Int
    BY <1>5
  <2> QED
    BY <2>1, <2>2, Residue
<1> QED
  BY <1>6, <1>7 DEF At

LEMMA ChooseStep ==
  ASSUME NEW B, NEW o, NEW lag \in {0, OPA_TAP}, Situation(B, o), Choose, EdgesFound(B, lag)
  PROVE  /\ vfifo' \in 0..(VFIFO_SIZE - 1) /\ step' \notin {"lost", "failed"}
         /\ Search(B, o, lag)'
<1>0. Numbers(B, o)
  BY SituationIs DEF Numbers
<1> USE DEF Numbers
<1>1. PICK m \in Int : m = (work_bgn + work_end) \div 2
  BY <1>0, SMT
<1>2. 2 * m <= work_bgn + work_end /\ work_bgn + work_end <= 2 * m + 1
  BY <1>0, <1>1, SMT
<1>3. PICK k \in Int, mid \in 1..Cycle :
        m = k * Cycle + mid /\ mid = ((m - 1) % Cycle) + 1 /\ k * Cycle \in Int
  <2>1. Cycle \in Nat /\ Cycle > 0 /\ m - 1 \in Int
    BY <1>0
  <2>2. /\ (m - 1) \div Cycle \in Int /\ (m - 1) % Cycle \in 0..(Cycle - 1)
        /\ m - 1 = ((m - 1) \div Cycle) * Cycle + ((m - 1) % Cycle)
        /\ ((m - 1) \div Cycle) * Cycle \in Int
    BY <2>1, SMT
  <2>3. PICK k \in Int, r \in 0..(Cycle - 1) :
          m - 1 = k * Cycle + r /\ r = (m - 1) % Cycle /\ k * Cycle \in Int
    BY <2>2
  <2>4. m = k * Cycle + (r + 1) /\ r + 1 \in 1..Cycle
    BY <2>1, <2>3
  <2> QED
    BY <2>3, <2>4
<1>4. PICK phases, taps :
        /\ phases = Upward(mid, OPA_TAP)
        /\ taps = Upward(mid - (phases - 1) * OPA_TAP, DCHAIN_TAP)
  OBVIOUS
<1>5. /\ UNCHANGED <<window, vfifo>> /\ i' = 0 /\ step' = "verify"
      /\ IF phases = 1 THEN phase' = 1 /\ delay' = 0
         ELSE /\ phase' = phases - 1
              /\ delay' = IF taps > DELAY_MAX + 1 THEN DELAY_MAX + 1 ELSE taps
  BY <1>1, <1>3, <1>4 DEF Choose
<1>6. phases \in 1..(PHASE_MAX + 1) /\ taps \in 0..DELAY_MAX
  BY <1>4, ChosenFits
<1>7. /\ phases = 1 <=> mid <= OPA_TAP
      /\ mid <= Phases(phases - 1) + Taps(taps)
      /\ Phases(phases - 1) + Taps(taps) < mid + DCHAIN_TAP
  <2>1. mid \in Int /\ 1 <= mid
    BY <1>0, <1>3
  <2> QED
    BY <1>4, <2>1, ChosenTime
<1>8. PICK ph \in Int, dl \in Int :
        /\ ph = phase' /\ dl = delay'
        /\ IF mid <= OPA_TAP THEN Phases(ph) + Taps(dl) = OPA_TAP
                             ELSE mid <= Phases(ph) + Taps(dl) /\ Phases(ph) + Taps(dl) < mid + DCHAIN_TAP
  <2>1. CASE phases = 1
    <3>1. Phases(1) = OPA_TAP /\ Taps(0) = 0
      BY Multiples
    <3>2. 1 \in Int /\ 0 \in Int /\ phase' = 1 /\ delay' = 0 /\ mid <= OPA_TAP
          /\ Phases(1) + Taps(0) = OPA_TAP
      BY <1>0, <1>5, <1>7, <2>1, <3>1
    <3> QED
      BY <3>2
  <2>2. CASE phases # 1
    <3>1. phase' = phases - 1 /\ delay' = taps /\ phases - 1 \in Int /\ taps \in Int
      BY <1>0, <1>5, <1>6, <2>2, Sizes
    <3> QED
      BY <1>7, <2>2, <3>1
  <2> QED
    BY <2>1, <2>2
<1>9. Phases(ph) \in Int /\ Taps(dl) \in Int
  <2>1. Phases(ph) \in Int
    BY Multiples
  <2>2. Taps(dl) \in Int
    BY Multiples
  <2> QED
    BY <2>1, <2>2
<1>10. PICK y \in Int : y = Cycles(k) + (Phases(ph) + Taps(dl))
  <2>1. Cycles(k) + (Phases(ph) + Taps(dl)) \in Int
    BY <1>3, <1>9 DEF Cycles
  <2> QED
    BY <2>1
<1>11. Middle(B, y)
  <2>1. /\ mid \in Int /\ 1 <= mid /\ mid <= Cycle /\ m = Cycles(k) + mid /\ Cycles(k) \in Int
    BY <1>0, <1>3 DEF Cycles
  <2>2. IF mid <= OPA_TAP THEN y = Cycles(k) + OPA_TAP ELSE m <= y /\ y < m + DCHAIN_TAP
    BY <1>0, <1>8, <1>9, <1>10, <2>1
  <2> QED
    BY <1>2, <2>1, <2>2, ChosenMiddle
<1>12. (Opening(0, ph, dl) + o - y) % Cycle = 0
  <2>1. Opening(0, ph, dl) = Cycles(0) + Phases(ph) + Taps(dl) /\ Cycles(0) = 0
    BY OpeningIs, Multiples
  <2>2. Cycles(k) \in Int
    BY Multiples
  <2>3. Opening(0, ph, dl) + o - y = o - Cycles(k)
    BY <1>0, <1>9, <1>10, <2>1, <2>2
  <2>4. (-k) * Cycle = -Cycles(k) /\ -k \in Int
    BY <1>0, SMT DEF Cycles
  <2>5. o + (-k) * Cycle = o - Cycles(k)
    BY <1>0, <2>2, <2>4
  <2>6. o % Cycle = 0 /\ Cycle > 0
    BY <1>0, Sizes DEF Situation, Placed
  <2>7. (o + (-k) * Cycle) % Cycle = o % Cycle
    BY <1>0, <2>4, <2>6, Congruence
  <2> QED
    BY <2>3, <2>5, <2>6, <2>7
<1>13. PICK g \in 0..(VFIFO_SIZE - 1) : At(o, g, ph, dl, y)
  BY <1>0, <1>12, CycleReaches
<1>14. Reads(g, ph, dl)
  <2>1. OPA_TAP <= y /\ y < B + Ring /\ B <= y /\ y < B + window.len
    BY <1>0, <1>11 DEF Middle
  <2>2. g \in Int
    BY <1>0
  <2> QED
    BY <1>0, <1>13, <2>1, <2>2, AtReads DEF Situation
<1>15. Placed(B, o)'
  BY <1>5, PlacedStays
<1>16. Verifying(B, o)'
  <2>1. Middle(B, y)' /\ Reads(g, ph, dl)'
    BY <1>5, <1>11, <1>14 DEF Middle, Reads
  <2>2. (Opening(0, phase, delay) + o - y)' % Cycle = 0
    BY <1>8, <1>12
  <2>3. y \in B..(B + window'.len - 1)
    BY <1>0, <1>5, <1>11 DEF Middle
  <2>4. Around(vfifo', g) + 0 < VFIFO_SIZE
    BY <1>0, <1>5 DEF Around
  <2>5. Reads(g, phase, delay)'
    BY <1>8, <2>1 DEF Reads
  <2>6. step' # "found" /\ i' = 0
    BY <1>5
  <2> QED
    BY <2>1, <2>2, <2>3, <2>4, <2>5, <2>6 DEF Verifying
<1> QED
  BY <1>0, <1>5, <1>15, <1>16 DEF Search

LEMMA VerifyStep ==
  ASSUME NEW B, NEW o, NEW lag \in {0, OPA_TAP}, Situation(B, o), Verify, Verifying(B, o)
  PROVE  /\ vfifo' \in 0..(VFIFO_SIZE - 1) /\ step' \notin {"lost", "failed"}
         /\ Search(B, o, lag)'
<1>0. Numbers(B, o)
  BY SituationIs DEF Numbers
<1> USE DEF Numbers
<1>1. UNCHANGED <<window, phase, delay>> /\ step = "verify"
  BY DEF Verify
<1>2. PICK y \in B..(B + window.len - 1), g \in 0..(VFIFO_SIZE - 1) :
        /\ Middle(B, y) /\ (Opening(0, phase, delay) + o - y) % Cycle = 0
        /\ Reads(g, phase, delay) /\ Around(vfifo, g) + i < VFIFO_SIZE
  BY <1>1 DEF Verifying
<1>3. /\ Placed(B, o)' /\ Middle(B, y)' /\ (Opening(0, phase, delay) + o - y)' % Cycle = 0
      /\ Reads(g, phase, delay)' /\ y \in B..(B + window'.len - 1)
  <2>1. Placed(B, o)'
    BY <1>1, PlacedStays
  <2> QED
    BY <1>1, <1>2, <2>1 DEF Middle, Reads
<1>4. CASE Reads(vfifo, phase, delay)
  <2>1. step' = "found" /\ UNCHANGED <<vfifo, i>>
    BY <1>4 DEF Verify
  <2>2. Reads(vfifo, phase, delay)'
    BY <1>1, <1>4, <2>1 DEF Reads
  <2>3. Verifying(B, o)'
    BY <1>3, <2>1, <2>2 DEF Verifying
  <2> QED
    BY <1>0, <1>3, <2>1, <2>3 DEF Search
<1>5. CASE ~Reads(vfifo, phase, delay)
  <2>1. vfifo' = incr(vfifo) /\ i' = i + 1 /\ step' = IF i + 1 = VFIFO_SIZE THEN "failed" ELSE step
    BY <1>5 DEF Verify
  <2>2. /\ incr(vfifo) = IF vfifo + 1 = VFIFO_SIZE THEN 0 ELSE vfifo + 1
        /\ incr(vfifo) \in 0..(VFIFO_SIZE - 1)
    BY <1>0, NextFits
  <2>3. vfifo # g
    BY <1>2, <1>5
  <2>4. Around(vfifo', g) + i' < VFIFO_SIZE /\ i + 1 < VFIFO_SIZE
    BY <1>0, <1>2, <2>1, <2>2, <2>3 DEF Around
  <2>5. step' = "verify"
    BY <1>0, <1>1, <2>1, <2>4
  <2>6. Verifying(B, o)'
    BY <1>3, <2>4, <2>5 DEF Verifying
  <2> QED
    BY <1>0, <1>3, <2>1, <2>2, <2>5, <2>6 DEF Search
<1> QED
  BY <1>4, <1>5

(* A window that leaves out two cycles leaves out two settings of phase 1. *)
LEMMA TwoFail ==
  ASSUME WindowType, Wide
  PROVE  \E g, h \in 0..(VFIFO_SIZE - 1) : g # h /\ ~Reads(g, 1, 0) /\ ~Reads(h, 1, 0)
<1>1. /\ window.bgn \in Int /\ window.len \in Int /\ window.len + 2 * Cycle <= Ring
      /\ OPA_TAP \in Int /\ Cycle \in Nat /\ Cycle > 0 /\ Ring \in Nat /\ window.len >= 0
  <2>1. window.bgn \in 0..(Ring - 1) /\ window.len \in Length /\ Ring \in Nat /\ Cycle \in Nat
        /\ Cycle >= 3 * OPA_TAP
    BY Multiples DEF WindowType
  <2>2. window.len \in Nat /\ window.len <= (VFIFO_SIZE - 2) * Cycle
    BY <2>1, EnableAssumption, WindowAssumption
  <2>3. (VFIFO_SIZE - 2) * Cycle = Ring - 2 * Cycle
    BY <2>1, Sizes, SMT DEF Ring
  <2> QED
    BY <2>1, <2>2, <2>3, Sizes
<1>2. PICK o \in Int : o = -window.bgn
  BY <1>1
<1>3. Opening(0, 1, 0) = OPA_TAP
  <2>1. Opening(0, 1, 0) = Cycles(0) + Phases(1) + Taps(0)
    BY OpeningIs
  <2> QED
    BY <1>1, <2>1, Multiples
<1>4. PICK k \in Int, r \in 0..(Cycle - 1) : OPA_TAP + o = Cycles(k) + r
  <2>1. PICK u \in Int : u = OPA_TAP + o
    BY <1>1
  <2>2. u \div Cycle \in Int /\ u % Cycle \in 0..(Cycle - 1)
        /\ u = (u \div Cycle) * Cycle + (u % Cycle)
    BY <1>1, SMT
  <2>3. PICK k \in Int, r \in 0..(Cycle - 1) : u = k * Cycle + r
    BY <2>2
  <2> QED
    BY <2>1, <2>3 DEF Cycles
<1>5. ASSUME NEW n \in 1..2
      PROVE  \E g \in 0..(VFIFO_SIZE - 1) : /\ (Opening(g, 1, 0) - window.bgn) % Ring = Ring - n * Cycle + r
                                            /\ ~Reads(g, 1, 0)
  <2>1. PICK y \in Int : y = Ring - n * Cycle + r
    <3>1. n * Cycle \in Int
      BY <1>1, SMT
    <3> QED
      BY <1>1, <3>1
  <2>2. y \in 0..(Ring - 1) /\ y >= window.len
    <3>1. n * Cycle = IF n = 1 THEN Cycle ELSE 2 * Cycle
      BY <1>1
    <3> QED
      BY <1>1, <2>1, <3>1
  <2>3. (Opening(0, 1, 0) + o - y) % Cycle = 0
    <3>1. PICK s \in Int : s = k - VFIFO_SIZE + n
      BY Sizes
    <3>2. Ring = VFIFO_SIZE * Cycle /\ VFIFO_SIZE \in Int
      BY Sizes DEF Ring
    <3>3. s * Cycle = k * Cycle - VFIFO_SIZE * Cycle + n * Cycle
      BY <1>1, <3>1, <3>2, SMT
    <3>4. k * Cycle \in Int /\ n * Cycle \in Int /\ s * Cycle \in Int
      BY <1>1, <3>1, SMT
    <3>5. Opening(0, 1, 0) + o - y = s * Cycle + 0
      BY <1>1, <1>3, <1>4, <2>1, <3>2, <3>3, <3>4 DEF Cycles
    <3>6. (s * Cycle + 0) % Cycle = 0
      <4>1. s * Cycle + 0 \in Int
        BY <3>4
      <4> QED
        BY <1>1, <3>1, <4>1, Residue
    <3> QED
      BY <3>5, <3>6
  <2>4. PICK g \in 0..(VFIFO_SIZE - 1) : At(o, g, 1, 0, y)
    BY <2>3, CycleReaches
  <2>5. PICK x \in Int : x = Opening(g, 1, 0) - window.bgn
    <3>1. Opening(g, 1, 0) \in Int
      BY OpeningIs
    <3> QED
      BY <1>1, <3>1
  <2>6. (x - y) % Ring = 0
    <3>1. Opening(g, 1, 0) + o - y = x - y
      <4>1. Opening(g, 1, 0) \in Int
        BY OpeningIs
      <4> QED
        BY <1>1, <1>2, <2>5, <4>1
    <3> QED
      BY <2>4, <3>1 DEF At
  <2>7. ((x - y) + y) % Ring = y
    <3>1. PICK z \in Int : z = x - y
      BY <2>1, <2>5
    <3>2. Ring > 0 /\ z % Ring = 0
      BY <1>1, <2>6, <3>1
    <3>3. (z + y) % Ring = y
      BY <1>1, <2>2, <3>2, Congruence
    <3> QED
      BY <3>1, <3>3
  <2>8. x % Ring = y
    <3>1. (x - y) + y = x
      OBVIOUS
    <3> QED
      BY <2>7, <3>1
  <2> QED
    BY <1>1, <2>1, <2>2, <2>4, <2>5, <2>8 DEF Reads
<1>6. PICK g \in 0..(VFIFO_SIZE - 1) :
        (Opening(g, 1, 0) - window.bgn) % Ring = Ring - 1 * Cycle + r /\ ~Reads(g, 1, 0)
  BY <1>5
<1>7. PICK h \in 0..(VFIFO_SIZE - 1) :
        (Opening(h, 1, 0) - window.bgn) % Ring = Ring - 2 * Cycle + r /\ ~Reads(h, 1, 0)
  BY <1>5
<1>8. Ring - 1 * Cycle + r # Ring - 2 * Cycle + r
  BY <1>1
<1> QED
  BY <1>6, <1>7, <1>8

(* The count of the search begins when it has found both.                  *)
LEMMA LostStep ==
  ASSUME WindowType, Wide, EnableInv, vfifo \in 0..(VFIFO_SIZE - 1), Lost, SeekFailure
  PROVE  /\ vfifo' \in 0..(VFIFO_SIZE - 1) /\ step' # "failed"
         /\ IF step' = "lost" THEN Lost'
            ELSE step' = "begin" /\ \E B \in Int, o \in Int : Search(B, o, 0)'
<1>1. PICK g \in 0..(VFIFO_SIZE - 1), h \in 0..(VFIFO_SIZE - 1) :
        g # h /\ ~Reads(g, 1, 0) /\ ~Reads(h, 1, 0) /\ i <= g /\ (j = 0 => i <= h)
  BY DEF Lost
<1>2. /\ vfifo = i /\ i < VFIFO_SIZE /\ j \in {0, 1} /\ phase = 1 /\ delay = 0
      /\ UNCHANGED <<window, phase, delay>> /\ step = "lost" /\ d' = d /\ i \in Nat /\ d = 0
      /\ VFIFO_SIZE \in Nat
  BY Sizes DEF Lost, SeekFailure, EnableInv, LoopsFit
<1>3. ~Reads(g, 1, 0)' /\ ~Reads(h, 1, 0)'
  BY <1>1, <1>2 DEF Reads
<1>4. CASE j = 1 /\ ~Reads(vfifo, phase, delay)
  <2>1. step' = "begin" /\ i' = 0 /\ p' = 1 /\ UNCHANGED vfifo
    BY <1>2, <1>4 DEF SeekFailure
  <2>2. /\ window.bgn \in Int /\ window.len \in Int /\ window.len >= 3 * OPA_TAP + DCHAIN_TAP
        /\ OPA_TAP \in Nat /\ OPA_TAP > 0 /\ DCHAIN_TAP \in Nat /\ Cycle \in Nat /\ Cycle > 0
        /\ Ring \in Nat /\ Ring > 0
    <3>1. Cycle \in Nat /\ Cycle >= 3 * OPA_TAP /\ Ring \in Nat /\ Ring >= Cycle
      BY Multiples
    <3>2. window.bgn \in 0..(Ring - 1) /\ window.len \in Nat
      BY EnableAssumption DEF WindowType
    <3> QED
      BY <3>1, <3>2, Sizes DEF Wide
  <2>3. PICK a \in Int : a = Opening(vfifo, 1, 0)
    <3>1. vfifo \in Int /\ 1 \in Int /\ 0 \in Int
      BY <1>2
    <3>2. Opening(vfifo, 1, 0) \in Int
      BY <3>1, OpeningIs
    <3> QED
      BY <3>2
  <2>4. PICK s \in 0..(Ring - 1) : s = (a - window.bgn) % Ring
    BY <2>2, <2>3, SMT
  <2>5. s >= window.len
    BY <1>2, <1>4, <2>2, <2>3, <2>4 DEF Reads
  <2>6. PICK B \in Int, o \in Int : B = OPA_TAP + Ring - s /\ o = B - window.bgn
    BY <2>2, <2>4
  <2>7. PICK n \in Int : a - window.bgn - s = n * Ring /\ n * Ring \in Int
    <3>1. PICK u \in Int : u = a - window.bgn
      BY <2>2
    <3>2. u \div Ring \in Int /\ u = (u \div Ring) * Ring + (u % Ring) /\ (u \div Ring) * Ring \in Int
      BY <2>2, SMT
    <3> QED
      BY <2>4, <3>1, <3>2
  <2>8. At(o, vfifo, 1, 0, OPA_TAP)
    <3>1. a + o - OPA_TAP = n * Ring + Ring
      BY <2>2, <2>6, <2>7
    <3>2. (n + 1) * Ring = n * Ring + Ring /\ n + 1 \in Int /\ n * Ring + Ring \in Int
      BY <2>2, <2>7, SMT
    <3>3. n * Ring + Ring = (n + 1) * Ring + 0
      BY <2>7, <2>2, <3>2
    <3>4. (n * Ring + Ring) % Ring = 0
      BY <2>2, <3>2, <3>3, Residue
    <3> QED
      BY <2>3, <3>1, <3>4 DEF At
  <2>9. o % Cycle = 0
    <3>1. a = vfifo * Cycle + OPA_TAP
      <4>1. a = Cycles(vfifo) + Phases(1) + Taps(0)
        BY <1>2, <2>3, OpeningIs
      <4>2. Phases(1) = OPA_TAP /\ Taps(0) = 0 /\ Cycles(vfifo) \in Int
        BY <1>2, Multiples
      <4> QED
        BY <2>2, <4>1, <4>2 DEF Cycles
    <3>2. o = n * Ring + Ring - vfifo * Cycle /\ vfifo * Cycle \in Int
      <4>1. PICK e \in Int : e = n * Ring
        BY <2>7
      <4>2. PICK f \in Int : f = vfifo * Cycle
        <5>1. vfifo * Cycle \in Int
          BY <1>2, <2>2, SMT
        <5> QED
          BY <5>1
      <4>3. a - window.bgn - s = e /\ a = f + OPA_TAP
        BY <2>7, <3>1, <4>1, <4>2
      <4>4. o = e + Ring - f
        BY <2>2, <2>4, <2>6, <4>3
      <4> QED
        BY <4>1, <4>2, <4>4
    <3>3. PICK t \in Int : t = n * VFIFO_SIZE + VFIFO_SIZE - vfifo
      <4>1. n * VFIFO_SIZE \in Int
        BY <1>2, SMT
      <4> QED
        BY <1>2, <4>1
    <3>4. Ring = VFIFO_SIZE * Cycle
      BY DEF Ring
    <3>5. t * Cycle = n * (VFIFO_SIZE * Cycle) + VFIFO_SIZE * Cycle - vfifo * Cycle
      BY <1>2, <2>2, <3>3, SMT
    <3>6. o = t * Cycle + 0
      BY <3>2, <3>4, <3>5
    <3> QED
      BY <2>2, <3>3, <3>6, Residue
  <2>10. Placed(B, o)'
    BY <1>2, <2>2, <2>4, <2>5, <2>6, <2>9 DEF Placed
  <2>11. Beginning(B, o)'
    <3>1. Time(i, p)' = OPA_TAP
      <4>1. Time(i, p)' = Time(0, 1)
        BY <2>1 DEF Time, Cycles, Phases
      <4> QED
        BY <4>1, TimeIs
    <3>2. OPA_TAP < B + 2 * OPA_TAP
      BY <2>2, <2>4, <2>6
    <3>3. At(o, vfifo, p, 0, OPA_TAP)'
      BY <2>1, <2>8
    <3>4. Back(1) = 2 * OPA_TAP
      BY BackIs
    <3> QED
      BY <1>2, <2>1, <3>1, <3>2, <3>3, <3>4, Sizes DEF Beginning
  <2> QED
    BY <2>1, <2>10, <2>11 DEF Search
<1>5. CASE ~(j = 1 /\ ~Reads(vfifo, phase, delay))
  <2>1. PICK fails \in {0, 1} : fails = IF Reads(vfifo, phase, delay) THEN j ELSE j + 1
    BY <1>2, <1>5
  <2>2. /\ vfifo' = incr(vfifo) /\ i' = i + 1 /\ j' = fails
        /\ step' = IF i + 1 = VFIFO_SIZE THEN "failed" ELSE step
    BY <2>1 DEF SeekFailure
  <2>3. \E a, b \in 0..(VFIFO_SIZE - 1) :
          /\ a # b /\ ~Reads(a, 1, 0) /\ ~Reads(b, 1, 0)
          /\ i + 1 <= a /\ (fails = 0 => i + 1 <= b)
    <3>1. CASE Reads(vfifo, phase, delay)
      <4>1. vfifo # g /\ vfifo # h /\ fails = j
        BY <1>1, <1>2, <2>1, <3>1
      <4>2. i + 1 <= g /\ (fails = 0 => i + 1 <= h)
        BY <1>1, <1>2, <4>1
      <4> QED
        BY <1>1, <4>2
    <3>2. CASE ~Reads(vfifo, phase, delay)
      <4>1. j = 0 /\ fails = 1
        BY <1>2, <1>5, <2>1, <3>2
      <4>2. i + 1 <= g \/ i + 1 <= h
        BY <1>1, <1>2, <4>1
      <4> QED
        BY <1>1, <4>1, <4>2
    <3> QED
      BY <3>1, <3>2
  <2>4. PICK a \in 0..(VFIFO_SIZE - 1), b \in 0..(VFIFO_SIZE - 1) :
          /\ a # b /\ ~Reads(a, 1, 0) /\ ~Reads(b, 1, 0)
          /\ i + 1 <= a /\ (fails = 0 => i + 1 <= b)
    BY <2>3
  <2>5. i + 1 < VFIFO_SIZE /\ step' = "lost" /\ vfifo' = i + 1 /\ vfifo' \in 0..(VFIFO_SIZE - 1)
    BY <1>2, <2>2, <2>4, NextFits
  <2>6. ~Reads(a, 1, 0)' /\ ~Reads(b, 1, 0)'
    BY <1>2, <2>4 DEF Reads
  <2>7. Lost'
    BY <1>2, <2>1, <2>2, <2>4, <2>5, <2>6 DEF Lost
  <2> QED
    BY <2>5, <2>7
<1> QED
  BY <1>4, <1>5

-----------------------------------------------------------------------------
(* The invariant: a window long enough is never lost on the way.           *)
SearchInv ==
  Wide => /\ step # "failed"
          /\ vfifo \in 0..(VFIFO_SIZE - 1)
          /\ IF step = "lost" THEN Lost
             ELSE \E B \in Int, o \in Int, lag \in {0, OPA_TAP} : Search(B, o, lag)

LEMMA SearchStart == EnableInit => WindowType /\ EnableInv /\ SearchInv
<1> SUFFICES ASSUME EnableInit PROVE WindowType /\ EnableInv /\ SearchInv
  OBVIOUS
<1>1. WindowType /\ EnableInv
  BY Sizes DEF EnableInit, WindowType, EnableInv, LoopsFit, RegistersLegal
<1>2. ASSUME Wide PROVE Lost
  <2>1. PICK g \in 0..(VFIFO_SIZE - 1), h \in 0..(VFIFO_SIZE - 1) :
          g # h /\ ~Reads(g, 1, 0) /\ ~Reads(h, 1, 0)
    BY <1>1, <1>2, TwoFail
  <2> QED
    BY <2>1, Sizes DEF EnableInit, Lost
<1>3. vfifo \in 0..(VFIFO_SIZE - 1) /\ step = "lost"
  BY Sizes DEF EnableInit
<1> QED
  BY <1>1, <1>2, <1>3 DEF SearchInv

LEMMA SearchStep ==
  ASSUME WindowType, EnableInv, SearchInv, [find_dqs_en_phase]_enableVars
  PROVE  WindowType' /\ SearchInv'
<1>1. UNCHANGED window
  BY DEF find_dqs_en_phase, enableVars, SeekFailure, SeekBegin, BackUp, RefineBegin, Forward, SeekEnd,
         EndFound, EndTap, Rewind, Track, Choose, Verify
<1>2. WindowType'
  BY <1>1 DEF WindowType
<1>3. SUFFICES ASSUME Wide PROVE SearchInv'
  BY <1>1, <1>2 DEF SearchInv, Wide
<1>4. CASE UNCHANGED enableVars
  BY <1>4 DEF SearchInv, enableVars, registers, loops, edges, Wide, Lost, Reads, Search, Placed, Beginning,
              Overlapping, Refining, Forwarding, Ending, Ended, Tapping, EdgesFound, Verifying,
              BeginFound, Inside, Moved, Middle, Time, Cycles, Phases, Taps
<1>5. CASE step = "lost" /\ find_dqs_en_phase
  <2>1. SeekFailure /\ Lost /\ vfifo \in 0..(VFIFO_SIZE - 1)
    BY <1>3, <1>5 DEF find_dqs_en_phase, SearchInv, SeekFailure, SeekBegin, BackUp, RefineBegin, Forward,
                      SeekEnd, EndFound, EndTap, Rewind, Track, Choose, Verify
  <2>2. /\ vfifo' \in 0..(VFIFO_SIZE - 1) /\ step' # "failed"
        /\ IF step' = "lost" THEN Lost'
           ELSE step' = "begin" /\ \E B \in Int, o \in Int : Search(B, o, 0)'
    BY <1>3, <2>1, LostStep
  <2> QED
    BY <2>2 DEF SearchInv
<1>6. CASE step # "lost" /\ find_dqs_en_phase
  <2>1. PICK B \in Int, o \in Int, lag \in {0, OPA_TAP} : Search(B, o, lag)
    BY <1>3, <1>6 DEF SearchInv
  <2>2. Situation(B, o)
    BY <1>3, <2>1 DEF SearchInv, Situation, Search
  <2>3. ASSUME vfifo' \in 0..(VFIFO_SIZE - 1), step' \notin {"lost", "failed"},
               \E l \in {0, OPA_TAP} : Search(B, o, l)'
        PROVE  SearchInv'
    BY <2>3 DEF SearchInv
  <2>4. CASE SeekBegin
    BY <2>1, <2>2, <2>3, <2>4, BeginStep DEF Search, SeekBegin
  <2>5. CASE BackUp
    BY <2>1, <2>2, <2>3, <2>5, BackUpStep DEF Search, BackUp
  <2>6. CASE RefineBegin
    BY <2>1, <2>2, <2>3, <2>6, RefineStep DEF Search, RefineBegin
  <2>7. CASE Forward
    BY <2>1, <2>2, <2>3, <2>7, ForwardStep DEF Search, Forward
  <2>8. CASE SeekEnd
    BY <2>1, <2>2, <2>3, <2>8, SeekEndStep DEF Search, SeekEnd
  <2>9. CASE EndFound
    BY <2>1, <2>2, <2>3, <2>9, EndFoundStep DEF Search, EndFound
  <2>10. CASE EndTap
    BY <2>1, <2>2, <2>3, <2>10, EndTapStep DEF Search, EndTap
  <2>11. CASE Rewind
    BY <2>1, <2>2, <2>3, <2>11, RewindStep DEF Search, Rewind
  <2>12. CASE Track
    BY <2>1, <2>2, <2>3, <2>12, TrackStep DEF Search, Track
  <2>13. CASE Choose
    BY <2>1, <2>2, <2>3, <2>13, ChooseStep DEF Search, Choose
  <2>14. CASE Verify
    BY <2>1, <2>2, <2>3, <2>14, VerifyStep DEF Search, Verify
  <2> QED
    BY <1>6, <2>4, <2>5, <2>6, <2>7, <2>8, <2>9, <2>10, <2>11, <2>12, <2>13, <2>14
       DEF find_dqs_en_phase, SeekFailure
<1> QED
  BY <1>4, <1>5, <1>6

LEMMA SearchAlways == EnableSpec => [](WindowType /\ EnableInv /\ SearchInv)
<1>1. EnableInit => WindowType /\ EnableInv /\ SearchInv
  BY SearchStart
<1>2. WindowType /\ EnableInv /\ SearchInv /\ [find_dqs_en_phase]_enableVars
        => (WindowType /\ EnableInv /\ SearchInv)'
  BY SearchStep, EnableStep
<1> QED
  BY <1>1, <1>2, PTL DEF EnableSpec

(* rw_mgr_mem_calibrate_vfifo_find_dqs_en_phase never gives up on a window *)
(* of three phases and a tap, however it lies to the phases, the cycles    *)
(* and the ring.                                                           *)
THEOREM EnableNoWindowMissed == EnableSpec => []NoWindowMissed
<1>1. WindowType /\ EnableInv /\ SearchInv => NoWindowMissed
  <2> SUFFICES ASSUME WindowType, SearchInv, step = "failed"
               PROVE  window.len < 3 * OPA_TAP + DCHAIN_TAP
    BY DEF NoWindowMissed
  <2>1. window.len \in Nat /\ ~Wide
    BY EnableAssumption DEF WindowType, SearchInv
  <2> QED
    BY <2>1, Sizes DEF Wide
<1> QED
  BY <1>1, SearchAlways, PTL

(* Where the setting found lies in the window: as the time chosen did.     *)
LEMMA FoundIs ==
  ASSUME NEW B, NEW o, Situation(B, o), NEW y \in B..(B + window.len - 1),
         phase \in Int, delay \in Int, window.len <= Cycle,
         (Opening(0, phase, delay) + o - y) % Cycle = 0, Reads(vfifo, phase, delay)
  PROVE  (Opening(vfifo, phase, delay) - window.bgn) % Ring = y - B
<1>0. Numbers(B, o) /\ B = window.bgn + o /\ window.bgn \in Int /\ y \in Int
  <2>1. Numbers(B, o)
    BY SituationIs
  <2>2. B = window.bgn + o /\ window.bgn \in 0..(Ring - 1)
    BY DEF Situation, Placed, WindowType
  <2> QED
    BY <2>1, <2>2 DEF Numbers
<1> USE DEF Numbers
<1>1. PICK a \in Int : a = Opening(vfifo, phase, delay) - window.bgn
  <2>1. Opening(vfifo, phase, delay) \in Int
    BY <1>0, OpeningIs
  <2> QED
    BY <1>0, <2>1
<1>2. PICK s \in Int, n \in Int : s = a % Ring /\ 0 <= s /\ a = n * Ring + s /\ n * Ring \in Int
  <2>1. Ring \in Nat /\ Ring > 0
    BY Multiples, Sizes
  <2>2. a \div Ring \in Int /\ a % Ring \in Int /\ 0 <= a % Ring /\ (a \div Ring) * Ring \in Int
        /\ a = (a \div Ring) * Ring + (a % Ring)
    BY <2>1, SMT
  <2> QED
    BY <2>2
<1>3. s < window.len
  BY <1>1, <1>2 DEF Reads
<1>4. PICK x \in Int : x = Opening(0, phase, delay) + o - y
  <2>1. Opening(0, phase, delay) \in Int
    BY OpeningIs
  <2> QED
    BY <1>0, <2>1
<1>5. PICK c \in Int : x = Cycles(c)
  BY <1>4, WholeCycles
<1>6. Opening(vfifo, phase, delay) = Opening(0, phase, delay) + Cycles(vfifo)
  <2>1. Opening(vfifo, phase, delay) = Cycles(vfifo) + Phases(phase) + Taps(delay)
    BY <1>0, OpeningIs
  <2>2. Opening(0, phase, delay) = Cycles(0) + Phases(phase) + Taps(delay)
    BY OpeningIs
  <2>3. Cycles(vfifo) \in Int
    BY <1>0, Multiples
  <2>4. Phases(phase) \in Int
    BY Multiples
  <2>5. Taps(delay) \in Int
    BY Multiples
  <2>6. Cycles(0) = 0
    BY Multiples
  <2> QED
    BY <2>1, <2>2, <2>3, <2>4, <2>5, <2>6
<1>7. a = Cycles(vfifo) + x + (y - B)
  <2>1. Opening(0, phase, delay) \in Int
    BY OpeningIs
  <2>2. Cycles(vfifo) \in Int
    BY <1>0, Multiples
  <2> QED
    BY <1>0, <1>1, <1>4, <1>6, <2>1, <2>2
<1>8. PICK z \in Int : z = s - (y - B)
  BY <1>0
<1>9. PICK t \in Int, u \in Int : Cycles(t) = Cycles(u) + z
  <2>1. PICK t \in Int : t = vfifo + c
    BY <1>0
  <2>2. PICK u \in Int : u = n * VFIFO_SIZE
    BY <1>0, SMT
  <2>3. Cycles(t) = Cycles(vfifo) + Cycles(c)
    <3>1. t * Cycle = vfifo * Cycle + c * Cycle
      BY <1>0, <2>1, SMT
    <3> QED
      BY <3>1 DEF Cycles
  <2>4. Cycles(u) = n * Ring
    <3>1. (n * VFIFO_SIZE) * Cycle = n * (VFIFO_SIZE * Cycle)
      BY <1>0, SMT
    <3> QED
      BY <2>2, <3>1 DEF Cycles, Ring
  <2>5. Cycles(vfifo) \in Int
    BY <1>0, Multiples
  <2>6. Cycles(t) = Cycles(u) + z
    <3>1. PICK e \in Int : e = n * Ring
      BY <1>2
    <3>2. a = e + s /\ Cycles(u) = e
      BY <1>2, <2>4, <3>1
    <3>3. Cycles(t) = Cycles(vfifo) + x
      BY <1>5, <2>3
    <3> QED
      BY <1>0, <1>7, <1>8, <2>5, <3>2, <3>3
  <2> QED
    BY <2>6
<1>10. (z > 0 => z >= Cycle) /\ (z < 0 => z <= -Cycle)
  BY <1>9, CyclesApart
<1>11. z = 0
  BY <1>0, <1>2, <1>3, <1>8, <1>10
<1>12. s = y - B
  BY <1>0, <1>8, <1>11
<1> QED
  BY <1>1, <1>2, <1>12

(* In a window of four phases to a cycle,                                  *)
(* rw_mgr_mem_calibrate_vfifo_find_dqs_en_phase ends with the opening at   *)
(* most a phase and half a tap from the middle.                            *)
THEOREM EnableIsCentred == EnableSpec => []EnableCentred
<1>1. WindowType /\ EnableInv /\ SearchInv => EnableCentred
  <2> SUFFICES ASSUME WindowType, EnableInv, SearchInv,
                      step = "found", window.len \in (4 * OPA_TAP)..Cycle
               PROVE  Distance(2 * ((Opening(vfifo, phase, delay) - window.bgn) % Ring), window.len)
                        <= 2 * OPA_TAP + DCHAIN_TAP
    BY DEF EnableCentred
  <2>1. window.len \in Int /\ window.len <= Cycle /\ Wide
    <3>1. Cycle \in Int
      BY Multiples
    <3> QED
      BY <3>1, Sizes DEF Wide
  <2>2. PICK B \in Int, o \in Int, lag \in {0, OPA_TAP} : Search(B, o, lag)
    BY <2>1 DEF SearchInv
  <2>3. Situation(B, o)
    BY <2>1, <2>2 DEF SearchInv, Situation, Search
  <2>4. PICK y \in B..(B + window.len - 1) :
          /\ Middle(B, y) /\ (Opening(0, phase, delay) + o - y) % Cycle = 0
          /\ Reads(vfifo, phase, delay)
    BY <2>2 DEF Search, Verifying
  <2>5. phase \in Int /\ delay \in Int
    BY Sizes DEF EnableInv, RegistersLegal
  <2>6. (Opening(vfifo, phase, delay) - window.bgn) % Ring = y - B
    BY <2>1, <2>3, <2>4, <2>5, FoundIs
  <2>7. /\ 2 * (y - B) - window.len <= 2 * OPA_TAP + DCHAIN_TAP
        /\ window.len - 2 * (y - B) <= 2 * OPA_TAP + DCHAIN_TAP
    BY <2>4 DEF Middle
  <2>8. Distance(2 * (y - B), window.len) <= 2 * OPA_TAP + DCHAIN_TAP
    BY <2>1, <2>4, <2>7 DEF Distance
  <2> QED
    BY <2>6, <2>8
<1> QED
  BY <1>1, SearchAlways, PTL
=============================================================================
