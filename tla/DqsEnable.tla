----------------------------- MODULE DqsEnable -----------------------------
(***************************************************************************)
(* rw_mgr_mem_calibrate_vfifo_find_dqs_en_phase of the DDR3 calibration    *)
(* (sequencer.c): where in time to open the gate through which a read's    *)
(* strobe passes.  The opening is set in cycles (the VFIFO, a ring that    *)
(* only steps forward), phases of a cycle and delay taps; phase 0 must not *)
(* be used.  The search finds the first and the last setting that reads    *)
(* well and then goes to the middle.  One action is one read test and the  *)
(* moves up to the next.                                                   *)
(*                                                                         *)
(* The memory, outside the sources, reads well iff the gate opens in one   *)
(* window of time, which the search has to find.                           *)
(***************************************************************************)
EXTENDS Integers

CONSTANTS
  VFIFO_SIZE,          \* cycles of the ring: 16
  PHASE_MAX,           \* IO_DQS_EN_PHASE_MAX: 7
  DELAY_MAX,           \* IO_DQS_EN_DELAY_MAX: 31
  OPA_TAP, DCHAIN_TAP, \* time of a phase and of a delay tap: 312 ps, 25 ps
  Length               \* the lengths of window looked at

ASSUME EnableAssumption ==
  /\ VFIFO_SIZE \in Nat \ {0} /\ PHASE_MAX \in Nat \ {0, 1} /\ DELAY_MAX \in Nat
  /\ OPA_TAP \in Nat \ {0} /\ DCHAIN_TAP \in 1..OPA_TAP
  /\ Length \subseteq Nat

Cycle == (PHASE_MAX + 1) * OPA_TAP
Ring  == VFIFO_SIZE * Cycle

(* The first while loop: the taps that fit in a phase.                     *)
dtaps_per_ptap == (OPA_TAP + DCHAIN_TAP - 1) \div DCHAIN_TAP - 1

(* The delay line is longer than a phase: 31 taps to 12.                   *)
ASSUME DelayAssumption == dtaps_per_ptap < DELAY_MAX

(* The search looks for two failing cycles first, so it needs a window     *)
(* that leaves two cycles of the ring out: 16 cycles, and a strobe as long *)
(* as a burst.                                                             *)
ASSUME WindowAssumption == \A len \in Length : len <= (VFIFO_SIZE - 2) * Cycle

VARIABLES
  window,                \* [bgn, len]: when the memory reads well
  vfifo, phase, delay,   \* the registers: where the gate opens
  step,                  \* where the search is
  i, p, d, j,            \* its loop counters
  initial,               \* initial_failing_dtap
  work_bgn, work_end,    \* the edges found
  tracked                \* the taps per phase reported for tracking

registers  == <<vfifo, phase, delay>>
loops      == <<i, p, d, j, initial>>
edges      == <<work_bgn, work_end>>
enableVars == <<window, registers, step, loops, edges, tracked>>

(* rw_mgr_mem_calibrate_read_test_all_ranks, one bit enough.               *)
Opening(v, ph, dl) == v * Cycle + ph * OPA_TAP + dl * DCHAIN_TAP
Reads(v, ph, dl) == (Opening(v, ph, dl) - window.bgn) % Ring < window.len

incr(v) == (v + 1) % VFIFO_SIZE
decr(v) == (v + VFIFO_SIZE - 1) % VFIFO_SIZE

EnableInit ==
  /\ window \in [bgn : 0..(Ring - 1), len : Length]
  /\ vfifo = 0 /\ phase = 1 /\ delay = 0
  /\ step = "lost"
  /\ i = 0 /\ p = 0 /\ d = 0 /\ j = 0 /\ initial = 0
  /\ work_bgn = 0 /\ work_end = 0
  /\ tracked = dtaps_per_ptap

-----------------------------------------------------------------------------
(* Two failing cycles, so that the search starts outside the window; j     *)
(* counts them.                                                            *)
SeekFailure ==
  LET fails == IF Reads(vfifo, phase, delay) THEN j ELSE j + 1
  IN  /\ step = "lost"
      /\ IF fails = 2
         THEN step' = "begin" /\ i' = 0 /\ p' = 1 /\ j' = 0 /\ UNCHANGED vfifo
         ELSE /\ vfifo' = incr(vfifo) /\ i' = i + 1 /\ j' = fails
              /\ step' = IF i' = VFIFO_SIZE THEN "failed" ELSE step
              /\ UNCHANGED p
      /\ UNCHANGED <<window, phase, delay, d, initial, edges, tracked>>

(* The first phase that reads well, at delay 0 and then at each tap.       *)
SeekBegin ==
  /\ step = "begin"
  /\ phase' = p /\ delay' = d
  /\ IF Reads(vfifo, p, d)
     THEN /\ work_bgn' = i * Cycle + p * OPA_TAP + d * DCHAIN_TAP
          /\ work_end' = work_bgn'
          /\ step' = IF d = 0 THEN "overlap" ELSE "taps"
          /\ UNCHANGED <<vfifo, loops>>
     ELSE /\ UNCHANGED <<edges, j, initial>>
          /\ IF p < PHASE_MAX THEN p' = p + 1 /\ UNCHANGED <<vfifo, i, d, step>>
             ELSE /\ vfifo' = incr(vfifo) /\ p' = 1
                  /\ IF i + 1 < VFIFO_SIZE THEN i' = i + 1 /\ UNCHANGED <<d, step>>
                     ELSE /\ i' = 0 /\ d' = d + 1
                          /\ step' = IF d = dtaps_per_ptap THEN "failed" ELSE step
  /\ UNCHANGED <<window, tracked>>

(* With phases closer than the window is long: back up a phase, unless it  *)
(* is phase 0, and look for the edge tap by tap.                           *)
BackUp ==
  /\ step = "overlap"
  /\ p' = IF p = 1 THEN 1 ELSE p - 1
  /\ phase' = p'
  /\ d' = 0
  /\ step' = IF p = 1 THEN "forward" ELSE "refine"
  /\ UNCHANGED <<window, vfifo, delay, i, j, initial, edges, tracked>>

RefineBegin ==
  /\ step = "refine"
  /\ delay' = d
  /\ LET time == work_end - OPA_TAP + d * DCHAIN_TAP
         next == d + 1
     IN  IF Reads(vfifo, phase, d)
         THEN work_bgn' = time /\ step' = "forward" /\ UNCHANGED d
         ELSE /\ d' = next
              /\ step' = IF next <= DELAY_MAX /\ time + DCHAIN_TAP < work_bgn
                         THEN step ELSE "forward"
              /\ UNCHANGED work_bgn
  /\ UNCHANGED <<window, vfifo, phase, i, p, j, initial, work_end, tracked>>

(* Seeded fault: the time moves with the register, by two phases.          *)
ForwardTwoPhases ==
  /\ step = "forward"
  /\ delay' = 0
  /\ IF p + 2 > PHASE_MAX
     THEN p' = p + 2 - (PHASE_MAX + 1) /\ vfifo' = incr(vfifo)
     ELSE p' = p + 2 /\ UNCHANGED vfifo
  /\ work_end' = work_end + 2 * OPA_TAP
  /\ j' = 0 /\ step' = "end"
  /\ UNCHANGED <<window, phase, i, d, initial, work_bgn, tracked>>

(* Two phases on, to the one after the first that read well.               *)
Forward ==
  /\ step = "forward"
  /\ delay' = 0
  /\ IF p + 2 > PHASE_MAX
     THEN p' = p + 2 - (PHASE_MAX + 1) /\ vfifo' = incr(vfifo)
     ELSE p' = p + 2 /\ UNCHANGED vfifo
  /\ work_end' = work_end + OPA_TAP
  /\ j' = 0 /\ step' = "end"
  /\ UNCHANGED <<window, phase, i, d, initial, work_bgn, tracked>>

(* The first phase that fails again: phase 0 counts as one that reads      *)
(* well, and a failure at the very first step moves the begin instead.     *)
SeekEnd ==
  /\ step = "end"
  /\ phase' = IF p = 0 THEN phase ELSE p
  /\ IF p # 0 /\ ~Reads(vfifo, p, 0) /\ j > 0
     THEN step' = "ended" /\ UNCHANGED <<vfifo, i, p, j, edges>>
     ELSE /\ work_bgn' = IF p # 0 /\ ~Reads(vfifo, p, 0) THEN work_end ELSE work_bgn
          /\ work_end' = work_end + OPA_TAP
          /\ j' = 1
          /\ IF p < PHASE_MAX THEN p' = p + 1 /\ UNCHANGED <<vfifo, i, step>>
             ELSE /\ vfifo' = incr(vfifo) /\ p' = 0 /\ i' = i + 1
                  /\ step' = IF i = VFIFO_SIZE THEN "failed" ELSE step
  /\ UNCHANGED <<window, delay, d, initial, tracked>>

(* Back to the last phase that read well, over phase 0 if need be.         *)
EndFound ==
  /\ step = "ended"
  /\ IF p = 1 THEN p' = PHASE_MAX /\ vfifo' = decr(vfifo) /\ work_end' = work_end - 2 * OPA_TAP
              ELSE p' = p - 1 /\ work_end' = work_end - OPA_TAP /\ UNCHANGED vfifo
  /\ phase' = p' /\ d' = 0
  /\ step' = "taps"
  /\ UNCHANGED <<window, delay, i, j, initial, work_bgn, tracked>>

(* The last tap that reads well.                                           *)
EndTap ==
  /\ step = "taps"
  /\ IF d <= DELAY_MAX
     THEN /\ delay' = d
          /\ IF Reads(vfifo, phase, d)
             THEN d' = d + 1 /\ work_end' = work_end + DCHAIN_TAP /\ UNCHANGED step
             ELSE step' = "range" /\ UNCHANGED <<d, work_end>>
     ELSE step' = "range" /\ UNCHANGED <<delay, d, work_end>>
  /\ UNCHANGED <<window, vfifo, phase, i, p, j, initial, work_bgn, tracked>>

(* Back up a phase, so that the edge can be found again by taps alone.     *)
Rewind ==
  LET end == IF d = 0 THEN work_end ELSE work_end - DCHAIN_TAP
  IN  /\ step = "range"
      /\ work_end' = end
      /\ IF end < work_bgn
         THEN step' = "failed" /\ UNCHANGED <<vfifo, phase, p, initial>>
         ELSE /\ IF p \in {0, 1} THEN p' = PHASE_MAX /\ vfifo' = decr(vfifo)
                                 ELSE p' = p - 1 /\ UNCHANGED vfifo
              /\ phase' = p'
              /\ initial' = d
              /\ step' = "passing"
      /\ UNCHANGED <<window, delay, i, d, j, work_bgn, tracked>>

(* A tap that reads well, then one that fails: the taps in between are a   *)
(* phase.  If the taps run out, the computed value stays.                  *)
Track ==
  /\ step \in {"passing", "failing"}
  /\ IF d > DELAY_MAX
     THEN step' = "choose" /\ UNCHANGED <<delay, d, tracked>>
     ELSE /\ delay' = d
          /\ IF step = "failing" /\ ~Reads(vfifo, phase, d)
             THEN step' = "choose" /\ tracked' = d - initial /\ UNCHANGED d
             ELSE /\ d' = d + 1
                  /\ step' = IF Reads(vfifo, phase, d) THEN "failing" ELSE step
                  /\ UNCHANGED tracked
  /\ UNCHANGED <<window, vfifo, phase, i, p, j, initial, edges>>

(* The middle within a cycle, as the phase below it and taps on top; the   *)
(* middle of phase 0 becomes phase 1.                                      *)
Upward(n, unit) == (n + unit - 1) \div unit

(* Seeded fault: the middle of phase 0 is taken as it comes.               *)
ChooseAnyPhase ==
  LET mid    == (((work_bgn + work_end) \div 2 - 1) % Cycle) + 1
      phases == Upward(mid, OPA_TAP)
      taps   == Upward(mid - (phases - 1) * OPA_TAP, DCHAIN_TAP)
  IN  /\ step = "choose"
      /\ phase' = phases - 1
      /\ delay' = IF taps > DELAY_MAX + 1 THEN DELAY_MAX + 1 ELSE taps
      /\ i' = 0 /\ step' = "verify"
      /\ UNCHANGED <<window, vfifo, p, d, j, initial, edges, tracked>>

Choose ==
  LET mid    == (((work_bgn + work_end) \div 2 - 1) % Cycle) + 1
      phases == Upward(mid, OPA_TAP)
      taps   == Upward(mid - (phases - 1) * OPA_TAP, DCHAIN_TAP)
  IN  /\ step = "choose"
      /\ IF phases = 1 THEN phase' = 1 /\ delay' = 0
         ELSE /\ phase' = phases - 1
              /\ delay' = IF taps > DELAY_MAX + 1 THEN DELAY_MAX + 1 ELSE taps
      /\ i' = 0 /\ step' = "verify"
      /\ UNCHANGED <<window, vfifo, p, d, j, initial, edges, tracked>>

(* Seeded fault: the last cycle of the ring is not tried.                  *)
VerifyOneShort ==
  /\ step = "verify"
  /\ IF Reads(vfifo, phase, delay)
     THEN step' = "found" /\ UNCHANGED <<vfifo, i>>
     ELSE /\ vfifo' = incr(vfifo) /\ i' = i + 1
          /\ step' = IF i' = VFIFO_SIZE - 1 THEN "failed" ELSE step
  /\ UNCHANGED <<window, phase, delay, p, d, j, initial, edges, tracked>>

(* The cycle was lost with the remainder: step on until it reads well.     *)
Verify ==
  /\ step = "verify"
  /\ IF Reads(vfifo, phase, delay)
     THEN step' = "found" /\ UNCHANGED <<vfifo, i>>
     ELSE /\ vfifo' = incr(vfifo) /\ i' = i + 1
          /\ step' = IF i' = VFIFO_SIZE THEN "failed" ELSE step
  /\ UNCHANGED <<window, phase, delay, p, d, j, initial, edges, tracked>>

find_dqs_en_phase ==
  \/ SeekFailure \/ SeekBegin \/ BackUp \/ RefineBegin \/ Forward
  \/ SeekEnd \/ EndFound \/ EndTap \/ Rewind \/ Track \/ Choose \/ Verify

EnableSpec == EnableInit /\ [][find_dqs_en_phase]_enableVars
-----------------------------------------------------------------------------
(* Properties                                                              *)

(* However the window lies to the phases and to the cycle, three phases    *)
(* and a tap of it are enough to be found, skipped phase 0 and wrapped     *)
(* cycles included.                                                        *)
NoWindowMissed == step = "failed" => window.len < 3 * OPA_TAP + DCHAIN_TAP

(* Phase 0 is never used, nor a phase or a delay the registers do not have.*)
RegistersLegal == phase \in 1..PHASE_MAX /\ delay \in 0..DELAY_MAX

(* In a window of at least four phases the opening ends at most a phase    *)
(* and half a tap from the middle, though the edges found are a phase or a *)
(* tap off and the middle was folded into one cycle.  A phase alone is not *)
(* always enough: with 312 ps and 25 ps, a middle just above phase 0 goes  *)
(* to phase 1, and the edges add their taps.                               *)
Distance(a, b) == IF a < b THEN b - a ELSE a - b

EnableCentred ==
  step = "found" /\ window.len \in (4 * OPA_TAP)..Cycle
    => Distance(2 * ((Opening(vfifo, phase, delay) - window.bgn) % Ring), window.len)
         <= 2 * OPA_TAP + DCHAIN_TAP

(* The source says of the tracking value that it is the number of taps     *)
(* that equal a phase.  It is twice that when the last good phase is 1:    *)
(* the step back skips phase 0.                                            *)
TrackingIsOnePhase ==
  step = "found" /\ window.len \in (3 * OPA_TAP)..Cycle
    => tracked * DCHAIN_TAP < OPA_TAP + 2 * DCHAIN_TAP
=============================================================================
