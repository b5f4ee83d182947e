--------------------------- MODULE DdrCalibration ---------------------------
(***************************************************************************)
(* The calibration of the DDR3 memory that the boot loader runs before     *)
(* anything else (run_mem_calibrate and mem_calibrate of sequencer.c), for *)
(* the build of this board: one rank, full rate, no write levelling, no    *)
(* debug modes.  Group by group the strobe gate is found and reads are     *)
(* deskewed, then writes and the data mask, then reads again with written  *)
(* data; at last the read latency is cut.  The first failure ends it all.  *)
(*                                                                         *)
(* The memory and its wiring are outside the sources: the eyes are any     *)
(* members of Eye, and within FUZZ taps of an edge a test may go either    *)
(* way.  An eye may have moved by the next call of a centring, which       *)
(* starts from nothing but the delays left behind.                         *)
(***************************************************************************)
EXTENDS EyeCentre

CONSTANTS
  GROUPS,                 \* RW_MGR_MEM_IF_READ_DQS_WIDTH: 4
  RESERVE,                \* IO_DQS_IN_RESERVE, IO_DQS_OUT_RESERVE: 4
  PTAP,                   \* dtaps_per_ptap: 12
  START_LAT,              \* curr_read_lat as mem_config leaves it: 27 at most
  Eye,                    \* the eyes looked at: [lo, hi], in taps
  FUZZ                    \* taps at the edge of an eye that may fail

ASSUME CalibrationAssumption ==
  /\ GROUPS \in Nat \ {0} /\ RESERVE \in 0..MAX /\ PTAP \in 0..MAX
  /\ START_LAT \in Nat \ {0} /\ FUZZ \in Nat
  /\ Eye \subseteq [lo : Int, hi : Int]

VARIABLES
  step,                   \* where the calibration is
  stage,                  \* CUR_STAGE: what a centring is done for
  g,                      \* the group
  add, dtaps, orig,       \* locals of calibrate_vfifo: d, dqs_in_dtaps, orig_start_dqs
  reg, dmdelay,           \* the delays of g: [dq, dqs] by side, and that of the data mask
  eye, e, seen, d, start, \* a centring: its eyes, edges, sticky bits, tap, start_dqs
  dm,                     \* the search for the mask's window
  error,                  \* the first failure, or NoError
  done,                   \* done[g]: the stages that g has passed
  lat, need,              \* the read latency, and the least that the memory takes
  status                  \* PHY_MGR_CAL_STATUS

vfifoVars  == <<add, dtaps, orig>>
regVars    == <<reg, dmdelay>>
centreVars == <<eye, e, seen, d, start, dm>>
latVars    == <<lat, need>>
calVars    == <<step, stage, g, vfifoVars, regVars, centreVars, error, done, latVars, status>>

Group   == 0..(GROUPS - 1)
Side    == {"read", "write"}
NoError == [stage |-> "NIL", group |-> 255]
AllDone == {"VFIFO", "WRITES", "VFIFO_AFTER_WRITES"}
NoEye   == [b \in Bit |-> [lo |-> 0, hi |-> -1]]
NoDm    == [eye |-> [lo |-> 0, hi |-> -1], fits |-> FALSE, bgn |-> None,
            best |-> [bgn |-> None, end |-> None]]

(* scc_mgr_zero_all and scc_mgr_zero_group of the next group.              *)
ZeroOut  == [dq |-> [b \in Bit |-> 0], dqs |-> RESERVE]
ZeroRegs == [s \in Side |-> ZeroOut]

NoCentring ==
  eye = NoEye /\ e = NoEdges /\ seen = {} /\ d = 0 /\ start = 0 /\ dm = NoDm

CalInit ==
  /\ step = "boot" /\ stage = "NIL" /\ g = 0
  /\ add = 0 /\ dtaps = 0 /\ orig = 0
  /\ reg = ZeroRegs /\ dmdelay = 0
  /\ NoCentring
  /\ error = NoError
  /\ done = [x \in Group |-> {}]
  /\ lat = START_LAT /\ need = 0
  /\ status = "RESET"

(* set_failing_group_stage keeps the first failure.                        *)
Failing(where, group) ==
  error' = IF error = NoError THEN [stage |-> where, group |-> group] ELSE error

side == IF stage = "WRITES" THEN "write" ELSE "read"

(* A test at the delays r of side s.                                       *)
Offset(r, b) == r.dq[b] - r.dqs
Inside(y, n, fuzz) == y.lo + fuzz <= n /\ n <= y.hi - fuzz
Outcomes(r) ==
  LET may  == {b \in Bit : Inside(eye[b], Offset(r, b), 0)}
      must == {b \in Bit : Inside(eye[b], Offset(r, b), FUZZ)}
  IN  {must \union some : some \in SUBSET (may \ must)}
-----------------------------------------------------------------------------
(* A centring, of stage's side: rw_mgr_mem_calibrate_vfifo_center and      *)
(* rw_mgr_mem_calibrate_writes_center.                                     *)

Begin(where, r) ==
  /\ stage' = where /\ step' = "left"
  /\ eye' \in [Bit -> Eye]
  /\ e' = NoEdges /\ seen' = {} /\ d' = 0 /\ dm' = NoDm
  /\ start' = r.dqs

End ==
  eye' = NoEye /\ e' = NoEdges /\ seen' = {} /\ d' = 0 /\ start' = 0 /\ dm' = NoDm

(* The lines' delay goes up until none reads well and all have.            *)
LeftTap ==
  LET r == [reg[side] EXCEPT !.dq = [b \in Bit |-> d]]
  IN  /\ step = "left"
      /\ reg' = [reg EXCEPT ![side] = r]
      /\ \E pass \in Outcomes(r) :
           LET stop == pass = {} /\ seen = Bit
           IN  /\ seen' = seen \union pass
               /\ e' = IF stop THEN e ELSE LeftMarked(e, pass, d)
               /\ IF stop \/ d = MAX THEN step' = "turn" /\ UNCHANGED d
                                     ELSE d' = d + 1 /\ UNCHANGED step
      /\ UNCHANGED <<dmdelay, stage, g, vfifoVars, eye, start, dm, error, done, latVars, status>>

Turn ==
  /\ step = "turn"
  /\ reg' = [reg EXCEPT ![side].dq = [b \in Bit |-> 0]]
  /\ e' = Cleared(e)
  /\ seen' = IF side = "read" THEN Bit \ Missed(e') ELSE {b \in Bit : e'.left[b] # None}
  /\ d' = 0 /\ step' = "right"
  /\ UNCHANGED <<dmdelay, stage, g, vfifoVars, eye, start, dm, error, done, latVars, status>>

(* The strobe's delay goes up from where it was.                           *)
RightTap ==
  LET r == [reg[side] EXCEPT !.dqs = start + d]
  IN  /\ step = "right"
      /\ reg' = [reg EXCEPT ![side] = r]
      /\ \E pass \in Outcomes(r) :
           LET stop == pass = {} /\ seen = Bit
           IN  /\ seen' = seen \union pass
               /\ e' = IF ~stop \/ (side = "write" /\ d = 0)
                       THEN RightMarked(e, pass, d) ELSE e
               /\ IF stop \/ d = MAX - start THEN step' = "centre" /\ UNCHANGED d
                                             ELSE d' = d + 1 /\ UNCHANGED step
      /\ UNCHANGED <<dmdelay, stage, g, vfifoVars, eye, start, dm, error, done, latVars, status>>

(* An edge that was not found: the line's number goes down as the group's. *)
EdgeMissed ==
  /\ step = "centre" /\ Missed(e) # {}
  /\ step' = "bad"
  /\ reg' = IF side = "read" THEN [reg EXCEPT !["read"].dqs = start] ELSE reg
  /\ Failing(stage, g * BITS + CHOOSE b \in Missed(e) : \A x \in Missed(e) : b <= x)
  /\ UNCHANGED <<dmdelay, stage, g, vfifoVars, centreVars, done, latVars, status>>

Centre ==
  LET r     == reg[side]
      moved == IF side = "read" THEN start - Clamped(start - mid_min(e)) ELSE 0
      dq    == [b \in Bit |-> CentredDq(e, b, r.dq[b], moved)]
      fits  == InMargins(e, [b \in Bit |-> dq[b] - r.dq[b]], moved)
  IN  /\ step = "centre" /\ Missed(e) = {}
      /\ reg' = [reg EXCEPT ![side] = [dq |-> dq, dqs |-> start - moved]]
      /\ IF side = "read"
         THEN step' = (IF fits THEN "ok" ELSE "bad") /\ UNCHANGED <<d, dm>>
         ELSE /\ step' = "mask" /\ d' = MAX
              /\ \E y \in Eye : dm' = [NoDm EXCEPT !.eye = y, !.fits = fits]
      /\ UNCHANGED <<dmdelay, stage, g, vfifoVars, eye, e, seen, start, error, done, latVars, status>>

(* The data mask, which can be tested with all lines only: the longest run *)
(* of settings that work, with the mask's delay going down and then the    *)
(* strobe's going up.  Setting q is delay -q of the mask, or q of the      *)
(* strobe.                                                                 *)
Masked(q, ok) ==
  LET bgn == IF dm.bgn = None THEN q ELSE dm.bgn
      win == IF dm.best.bgn = None THEN 0 ELSE dm.best.end - dm.best.bgn + 1
  IN  IF ok THEN [dm EXCEPT !.bgn = bgn,
                            !.best = IF q - bgn + 1 > win THEN [bgn |-> bgn, end |-> q] ELSE @]
            ELSE [dm EXCEPT !.bgn = None]

MaskMay(q)  == Inside(dm.eye, q, 0)
MaskMust(q) == Inside(dm.eye, q, FUZZ)
MaskTest(q, ok) == (ok => MaskMay(q)) /\ (MaskMust(q) => ok)

MaskTap ==
  /\ step = "mask"
  /\ \E ok \in BOOLEAN : MaskTest(-d, ok) /\ dm' = Masked(-d, ok)
  /\ IF d = 0
     THEN dmdelay' = 0 /\ step' = "strobemask" /\ UNCHANGED d
     ELSE dmdelay' = d /\ d' = d - 1 /\ UNCHANGED step
  /\ UNCHANGED <<reg, stage, g, vfifoVars, eye, e, seen, start, error, done, latVars, status>>

StrobeMaskTap ==
  /\ step = "strobemask"
  /\ reg' = [reg EXCEPT !["write"].dqs = start + d]
  /\ \E ok \in BOOLEAN :
       /\ MaskTest(d, ok)
       /\ dm' = Masked(d, ok)
       /\ LET hopeless == /\ ~ok /\ dm.best.bgn # None
                          /\ dm.best.end - dm.best.bgn > MAX - start - d
          IN  IF hopeless \/ d = MAX - start THEN step' = "maskcentre" /\ UNCHANGED d
                                             ELSE d' = d + 1 /\ UNCHANGED step
  /\ UNCHANGED <<dmdelay, stage, g, vfifoVars, eye, e, seen, start, error, done, latVars, status>>

MaskCentre ==
  LET mid == Clamped(Halved(-dm.best.bgn - dm.best.end))
  IN  /\ step = "maskcentre"
      /\ reg' = [reg EXCEPT !["write"].dqs = start] /\ dmdelay' = mid
      /\ step' = IF dm.fits /\ dm.best.bgn # None /\ -dm.best.bgn >= mid
                 THEN "ok" ELSE "bad"
      /\ UNCHANGED <<stage, g, vfifoVars, centreVars, error, done, latVars, status>>
-----------------------------------------------------------------------------
(* calibrate_vfifo: the reads, with the pattern the memory was loaded with.*)

(* mem_calibrate begins.                                                   *)
Calibrate ==
  /\ step = "boot"
  /\ step' = "guarantee" /\ stage' = "VFIFO"
  /\ UNCHANGED <<g, vfifoVars, regVars, centreVars, error, done, latVars, status>>

(* The next output delay, or the end of them.                              *)
NextAdd ==
  IF add + 2 <= PTAP
  THEN /\ step' = "guarantee" /\ add' = add + 2
       /\ reg' = [reg EXCEPT !["write"].dqs = add + 2]
       /\ UNCHANGED error
  ELSE step' = "failed" /\ Failing("VFIFO", g) /\ UNCHANGED <<add, reg>>

GuaranteedRead(ok) ==
  /\ step = "guarantee"
  /\ IF ok
     THEN /\ step' = "strobe"
          /\ orig' = reg["read"].dqs /\ dtaps' = orig'
          /\ UNCHANGED <<add, reg, error>>
     ELSE NextAdd /\ UNCHANGED <<dtaps, orig>>
  /\ UNCHANGED <<dmdelay, stage, g, centreVars, done, latVars, status>>

(* Strobe delay after strobe delay, a search for the gate; where one is    *)
(* found, a centring from the strobe delay that this search began with.    *)
FindGate(found) ==
  LET r == [dq |-> [b \in Bit |-> 0], dqs |-> IF found THEN orig ELSE dtaps]
  IN  /\ step = "strobe"
      /\ reg' = [reg EXCEPT !["read"] = r]
      /\ IF found THEN Begin("VFIFO", r)
                  ELSE step' = "bad" /\ UNCHANGED <<stage, centreVars>>
      /\ UNCHANGED <<dmdelay, g, vfifoVars, error, done, latVars, status>>

VfifoRetry ==
  /\ step = "bad" /\ stage = "VFIFO"
  /\ IF dtaps < MAX
     THEN dtaps' = dtaps + 1 /\ step' = "strobe" /\ UNCHANGED <<add, reg, error>>
     ELSE NextAdd /\ UNCHANGED dtaps
  /\ End
  /\ UNCHANGED <<dmdelay, stage, g, orig, done, latVars, status>>

Done(where) == done' = [done EXCEPT ![g] = @ \union {where}]

(* Seeded fault: all delays of the group go back, not the writes' alone.   *)
VfifoPassedZeroAll ==
  /\ step = "ok" /\ stage = "VFIFO"
  /\ Done("VFIFO")
  /\ reg' = ZeroRegs /\ dmdelay' = 0
  /\ add' = 0 /\ dtaps' = 0 /\ orig' = 0
  /\ Begin("WRITES", ZeroOut)
  /\ UNCHANGED <<g, error, latVars, status>>

(* The output delays that helped to begin with go back to zero.            *)
VfifoPassed ==
  LET r == IF add > 0 THEN ZeroOut ELSE reg["write"]
  IN  /\ step = "ok" /\ stage = "VFIFO"
      /\ Done("VFIFO")
      /\ reg' = [reg EXCEPT !["write"] = r] /\ dmdelay' = 0
      /\ add' = 0 /\ dtaps' = 0 /\ orig' = 0
      /\ Begin("WRITES", r)
      /\ UNCHANGED <<g, error, latVars, status>>

(* calibrate_writes, and calibrate_vfifo_end after it.                     *)
WritesPassed ==
  /\ step = "ok" /\ stage = "WRITES"
  /\ Done("WRITES")
  /\ Begin("VFIFO_AFTER_WRITES", reg["read"])
  /\ UNCHANGED <<g, vfifoVars, regVars, error, latVars, status>>

(* Seeded fault: a failure that is not recorded.                           *)
StageFailedUnrecorded ==
  /\ step = "bad" /\ stage # "VFIFO"
  /\ step' = "failed"
  /\ End
  /\ UNCHANGED <<stage, g, vfifoVars, regVars, error, done, latVars, status>>

StageFailed ==
  /\ step = "bad" /\ stage # "VFIFO"
  /\ Failing(stage, g) /\ step' = "failed"
  /\ End
  /\ UNCHANGED <<stage, g, vfifoVars, regVars, done, latVars, status>>

(* A group is done: the next one, or the latency.                          *)
GroupPassed ==
  /\ step = "ok" /\ stage = "VFIFO_AFTER_WRITES"
  /\ Done("VFIFO_AFTER_WRITES")
  /\ reg' = ZeroRegs /\ dmdelay' = 0
  /\ IF g + 1 < GROUPS
     THEN g' = g + 1 /\ step' = "guarantee" /\ stage' = "VFIFO" /\ UNCHANGED need
     ELSE step' = "lfifo" /\ stage' = "LFIFO" /\ need' \in 0..(START_LAT + 1) /\ UNCHANGED g
  /\ End
  /\ UNCHANGED <<vfifoVars, error, lat, status>>

(* Seeded fault: back to the last latency that read well, and no further.  *)
LatencyTestNoMargin ==
  /\ step = "lfifo"
  /\ IF lat >= need /\ lat > 0
     THEN lat' = lat - 1 /\ UNCHANGED <<step, error>>
     ELSE IF lat < START_LAT
     THEN lat' = lat + 1 /\ step' = "passed" /\ UNCHANGED error
     ELSE Failing("LFIFO", 255) /\ step' = "failed" /\ UNCHANGED lat
  /\ UNCHANGED <<stage, g, vfifoVars, regVars, centreVars, done, need, status>>

(* calibrate_lfifo, one read test of all groups.                           *)
LatencyTest ==
  /\ step = "lfifo"
  /\ IF lat >= need /\ lat > 0
     THEN lat' = lat - 1 /\ UNCHANGED <<step, error>>
     ELSE IF lat < START_LAT
     THEN lat' = lat + 2 /\ step' = "passed" /\ UNCHANGED error
     ELSE Failing("LFIFO", 255) /\ step' = "failed" /\ UNCHANGED lat
  /\ UNCHANGED <<stage, g, vfifoVars, regVars, centreVars, done, need, status>>

(* The end of run_mem_calibrate, and a new start of the board.             *)
Report ==
  /\ step \in {"passed", "failed"}
  /\ status' = IF step = "passed" THEN "SUCCESS" ELSE "FAIL"
  /\ step' = "off"
  /\ UNCHANGED <<stage, g, vfifoVars, regVars, centreVars, error, done, latVars>>

PowerCycle ==
  /\ step = "off"
  /\ step' = "boot" /\ stage' = "NIL" /\ g' = 0
  /\ add' = 0 /\ dtaps' = 0 /\ orig' = 0
  /\ reg' = ZeroRegs /\ dmdelay' = 0
  /\ error' = NoError /\ done' = [x \in Group |-> {}]
  /\ lat' = START_LAT /\ need' = 0 /\ status' = "RESET"
  /\ UNCHANGED centreVars

Centring ==
  \/ LeftTap \/ Turn \/ RightTap \/ EdgeMissed \/ Centre
  \/ MaskTap \/ StrobeMaskTap \/ MaskCentre

CalNext ==
  \/ Calibrate
  \/ \E ok \in BOOLEAN : GuaranteedRead(ok) \/ FindGate(ok)
  \/ Centring
  \/ VfifoRetry \/ VfifoPassed \/ WritesPassed \/ StageFailed \/ GroupPassed
  \/ LatencyTest \/ Report \/ PowerCycle

CalSpec == CalInit /\ [][CalNext]_calVars
-----------------------------------------------------------------------------
(* Properties                                                              *)

(* When a centring succeeds, every line lies in its eye at the delays left *)
(* in the registers, and so does the data mask.                            *)
CentredWorks ==
  step = "ok" =>
    /\ \A b \in Bit : Inside(eye[b], Offset(reg[side], b), 0)
    /\ side = "write" => MaskMay(-dmdelay)

(* It leaves no line nearer to one of the edges it found than to the other *)
(* (but for a tap), unless the line's delay is at its limit.               *)
CentredFairly ==
  step = "ok" =>
    \A b \in Bit :
      LET x == Offset(reg[side], b) + start
      IN  \/ e.left[b] - x - (e.right[b] + x) \in -1..1
          \/ reg[side].dq[b] \in {0, MAX}

(* The calibration is reported good only if every group went through all   *)
(* its stages, and bad only with a first failure to show.                  *)
ReportTrue ==
  /\ status = "SUCCESS" => \A x \in Group : done[x] = AllDone
  /\ status = "FAIL" => error # NoError

(* The read latency in use is one that was tested good, and one more.      *)
LatencySafe ==
  status = "SUCCESS" => lat > need /\ lat <= START_LAT + 1 /\ (need > 0 => lat = need + 1)

(* From the moment reads are calibrated until they are centred again, no   *)
(* step for the writes touches their delays.                               *)
ReadsKept ==
  [][\/ stage' = "WRITES"
     \/ stage = "WRITES" /\ stage' = "VFIFO_AFTER_WRITES"
     => reg'["read"] = reg["read"]]_calVars
=============================================================================
