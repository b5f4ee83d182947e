----------------------------- MODULE DdrProofs -----------------------------
(***************************************************************************)
(* Proofs about DdrCalibration, for any number of lines, taps and groups,  *)
(* any eyes and any tests that go wrong at their edges.                    *)
(*                                                                         *)
(* That a successful centring leaves every line in its eye rests on what   *)
(* the marks of the sweeps mean: an edge found is a setting that has been  *)
(* seen to work, or lies between such settings (SweepSound), and the same  *)
(* for the window of the data mask (MaskSound).  How the middle is chosen  *)
(* does not matter: the margins are checked against the marks.  That the   *)
(* rest of the distance is shared fairly does depend on it (FairSound).    *)
(* The order of the stages carries the report, the latency and the delays  *)
(* that a stage has to leave alone (OrderInv).                             *)
(***************************************************************************)
EXTENDS DdrCalibration, WellFoundedInduction, TLAPS

(* Setting n of the sweeps, the lines' delay less the strobe's move.       *)
Good(b, n) == Inside(eye[b], n - start, 0)

Tap    == (-MAX - 1)..(MAX + 1)
Edges  == [left : [Bit -> Tap], right : [Bit -> Tap]]
Delays == [dq : [Bit -> 0..MAX], dqs : 0..MAX]
AnyEye == [lo : Int, hi : Int]
Runs   == [bgn : Int, end : Int]

(* The delays are always ones that the hardware has.                       *)
CalType ==
  /\ d \in 0..MAX /\ start \in 0..MAX
  /\ step \in {"right", "strobemask"} => d <= MAX - start
  /\ add \in 0..PTAP /\ dtaps \in 0..MAX /\ orig \in 0..MAX
  /\ e \in Edges
  /\ eye \in [Bit -> AnyEye]
  /\ reg \in [Side -> Delays] /\ dmdelay \in 0..MAX
  /\ dm \in [eye : AnyEye, fits : BOOLEAN, bgn : Int, best : Runs]

(* A line both of whose edges are known works from one to the other.       *)
Bracketed(b) ==
  /\ Good(b, e.left[b])
  /\ Good(b, -e.right[b]) \/ (e.right[b] = -1 /\ Good(b, 0))

LeftSound(b) ==
  e.left[b] # None =>
    /\ e.left[b] >= 0 /\ Good(b, e.left[b])
    /\ Good(b, IF e.right[b] = None THEN 0 ELSE -e.right[b])

Unmarked(b) ==
  e.left[b] = None => e.right[b] = IF d = 0 THEN None ELSE -d

RightSound(b) ==
  /\ e.left[b] = None /\ e.right[b] = None => d = 0
  /\ e.left[b] = None /\ d = 0 => e.right[b] = None
  /\ e.left[b] # None /\ e.right[b] # None => Bracketed(b)
  /\ e.left[b] # None /\ e.right[b] = None =>
       \/ d = 0 /\ e.left[b] >= 0 /\ Good(b, e.left[b]) /\ Good(b, 0)
       \/ d > 0 /\ e.left[b] = -d

SweepSound ==
  /\ step = "left" => \A b \in Bit : Unmarked(b)
  /\ step \in {"left", "turn"} => \A b \in Bit : LeftSound(b)
  /\ step = "right" => \A b \in Bit : RightSound(b)
  /\ step = "centre" => \A b \in Bit : b \notin Missed(e) => Bracketed(b)
  /\ step \in {"left", "turn"} => reg[side].dqs = start
  /\ step \in {"right", "centre"} => \A b \in Bit : reg[side].dq[b] = 0

(* The data mask, and the lines while it is looked for.                    *)
MaskSteps == {"mask", "strobemask", "maskcentre"}

Found(n) == MaskMay(n) /\ -MAX <= n

MaskSound ==
  step \in MaskSteps =>
    /\ side = "write"
    /\ dm.fits => \A b \in Bit : Inside(eye[b], reg["write"].dq[b] - start, 0)
    /\ dm.bgn # None => /\ Found(dm.bgn)
                         /\ (step = "mask" => dm.bgn <= -d)
                         /\ (step = "strobemask" => dm.bgn <= d)
    /\ dm.best.bgn # None => /\ Found(dm.best.bgn) /\ MaskMay(dm.best.end)
                             /\ dm.best.bgn <= dm.best.end

SoundInv  == SweepSound /\ MaskSound /\ CentredWorks
CentreInv == CalType /\ SoundInv

Busy == {"left", "turn", "right", "centre", "ok"} \union MaskSteps
-----------------------------------------------------------------------------
LEMMA BitFacts == MAX \in Nat /\ MAX > 0 /\ None \in Int /\ None = MAX + 1
BY EyeAssumption DEF None

LEMMA SideFacts == side \in Side /\ (side # "write" => side = "read")
BY DEF side, Side

LEMMA HalvedFacts ==
  ASSUME NEW a \in Int, NEW c \in Int, a >= c
  PROVE  Halved(a + c) \in Int /\ c <= Halved(a + c) /\ Halved(a + c) <= a
<1>1. CASE a + c >= 0
  BY <1>1 DEF Halved
<1>2. CASE ~(a + c >= 0)
  BY <1>2 DEF Halved
<1> QED BY <1>1, <1>2

LEMMA HalvedType == ASSUME NEW n \in Int PROVE Halved(n) \in Int
BY DEF Halved

LEMMA ClampedType ==
  ASSUME NEW n \in Int
  PROVE  Clamped(n) \in 0..MAX
BY BitFacts DEF Clamped

(* A test passes only lines that are in their eyes.                        *)
LEMMA OutcomesSound ==
  ASSUME eye \in [Bit -> AnyEye], NEW r \in Delays, NEW pass \in Outcomes(r)
  PROVE  /\ pass \subseteq Bit
         /\ \A b \in pass : Inside(eye[b], Offset(r, b), 0)
<1> DEFINE may == {b \in Bit : Inside(eye[b], Offset(r, b), 0)}
           must == {b \in Bit : Inside(eye[b], Offset(r, b), FUZZ)}
<1>1. PICK some \in SUBSET (may \ must) : pass = must \union some
  BY DEF Outcomes
<1>2. \A b \in must : b \in may
  <2>1. \A b \in Bit : Offset(r, b) \in Int
    BY BitFacts DEF Delays, Offset
  <2>2. FUZZ \in Nat
    BY CalibrationAssumption
  <2>3. \A b \in Bit : eye[b].lo \in Int /\ eye[b].hi \in Int
    BY DEF AnyEye
  <2> QED BY <2>1, <2>2, <2>3 DEF Inside
<1> QED BY <1>1, <1>2

LEMMA EyeFacts == Eye \subseteq AnyEye /\ NoEye \in [Bit -> AnyEye]
BY CalibrationAssumption DEF AnyEye, NoEye

(* What a centring begins with.                                            *)
LEMMA BeginSound ==
  ASSUME NEW where, NEW r, Begin(where, r),
         reg'[IF where = "WRITES" THEN "write" ELSE "read"].dqs = r.dqs
  PROVE  SoundInv'
<1>1. step' = "left" /\ d' = 0 /\ e' = NoEdges
  BY DEF Begin
<1>2. \A b \in Bit : e'.left[b] = None /\ e'.right[b] = None
  BY <1>1 DEF NoEdges
<1>3. SweepSound'
  <2>1. reg'[side'].dqs = start'
    BY DEF Begin, side
  <2> QED BY <1>1, <1>2, <2>1 DEF SweepSound, Unmarked, LeftSound
<1>4. MaskSound' /\ CentredWorks'
  BY <1>1 DEF MaskSound, MaskSteps, CentredWorks
<1> QED BY <1>3, <1>4 DEF SoundInv

(* Outside a centring there is nothing to be sound.                        *)
LEMMA IdleSound ==
  ASSUME step' \notin Busy
  PROVE  SoundInv'
BY DEF SoundInv, SweepSound, MaskSound, CentredWorks, Busy, MaskSteps

LEMMA BeginType ==
  ASSUME NEW where, NEW r \in Delays, Begin(where, r)
  PROVE  /\ d' \in 0..MAX /\ start' \in 0..MAX /\ step' = "left"
         /\ e' \in Edges
         /\ eye' \in [Bit -> AnyEye]
         /\ dm' \in [eye : AnyEye, fits : BOOLEAN, bgn : Int, best : Runs]
BY BitFacts, EyeFacts DEF Begin, NoEdges, Edges, Tap, NoDm, AnyEye, Runs, Delays
-----------------------------------------------------------------------------
(* The first sweep.                                                        *)
LEMMA LeftTapSound == ASSUME CentreInv, LeftTap PROVE CentreInv'
<1> DEFINE r == [reg[side] EXCEPT !.dq = [b \in Bit |-> d]]
<1>1. /\ step = "left" /\ reg' = [reg EXCEPT ![side] = r]
      /\ UNCHANGED <<dmdelay, stage, vfifoVars, eye, start, dm>>
  BY DEF LeftTap
<1> DEFINE stop(pass) == pass = {} /\ seen = Bit
<1>2. PICK pass \in Outcomes(r) :
        /\ e' = IF stop(pass) THEN e ELSE LeftMarked(e, pass, d)
        /\ IF stop(pass) \/ d = MAX THEN step' = "turn" /\ UNCHANGED d
                                    ELSE d' = d + 1 /\ UNCHANGED step
  BY DEF LeftTap
<1>3. reg[side] \in Delays /\ r \in Delays
  BY SideFacts DEF CentreInv, CalType, Delays
<1>4. /\ pass \subseteq Bit
      /\ \A b \in pass : Inside(eye[b], d - reg[side].dqs, 0)
  <2>1. \A b \in Bit : Offset(r, b) = d - reg[side].dqs
    BY <1>3 DEF Offset, Delays
  <2> QED BY <1>3, <2>1, OutcomesSound DEF CentreInv, CalType
<1>5. CalType'
  <2>1. reg' \in [Side -> Delays]
    BY <1>1, <1>3, SideFacts DEF CentreInv, CalType
  <2>2. e' \in Edges
    BY <1>2, BitFacts DEF CentreInv, CalType, Edges, Tap, LeftMarked
  <2>3. d' \in 0..MAX /\ step' \notin {"right", "strobemask"}
    BY <1>1, <1>2, BitFacts DEF CentreInv, CalType
  <2> QED BY <1>1, <2>1, <2>2, <2>3 DEF CentreInv, CalType, vfifoVars
<1>6. step' \notin {"right", "centre", "ok"} \union MaskSteps
  BY <1>1, <1>2 DEF MaskSteps
<1>7. ASSUME NEW b \in Bit
      PROVE  LeftSound(b)' /\ (step' = "left" => Unmarked(b)')
  <2>1. /\ e.left[b] \in Int /\ e.right[b] \in Int /\ d \in 0..MAX
        /\ None \in Int /\ d # None
    BY BitFacts DEF CentreInv, CalType, Edges, Tap
  <2>2. LeftSound(b) /\ Unmarked(b)
    BY <1>1 DEF CentreInv, SoundInv, SweepSound
  <2>3. b \in pass => Good(b, d)
    BY <1>1, <1>4 DEF CentreInv, SoundInv, SweepSound, Good
  <2>4. \A n : Good(b, n)' <=> Good(b, n)
    BY <1>1 DEF Good, Inside
  <2>5. CASE stop(pass)
    <3>1. e' = e /\ step' = "turn"
      BY <1>2, <2>5
    <3> QED BY <2>2, <2>4, <3>1 DEF LeftSound
  <2>6. CASE ~stop(pass)
    <3>1. e' = LeftMarked(e, pass, d) /\ (step' = "left" => d' = d + 1)
      BY <1>1, <1>2, <2>6
    <3>2. CASE b \in pass
      <4>1. e'.left[b] = d /\ e'.right[b] = e.right[b]
        BY <3>1, <3>2 DEF LeftMarked
      <4>2. Good(b, IF e.right[b] = None THEN 0 ELSE -e.right[b])
        <5>1. CASE e.left[b] # None
          BY <2>2, <5>1 DEF LeftSound
        <5>2. CASE e.left[b] = None /\ d = 0
          BY <2>2, <2>3, <3>2, <5>2 DEF Unmarked
        <5>3. CASE e.left[b] = None /\ d # 0
          <6>1. e.right[b] = -d /\ -d # None /\ -(-d) = d
            BY <2>1, <2>2, <5>3, BitFacts DEF Unmarked
          <6> QED BY <2>3, <3>2, <6>1
        <5> QED BY <5>1, <5>2, <5>3
      <4> QED BY <2>1, <2>3, <2>4, <3>2, <4>1, <4>2 DEF LeftSound, Unmarked
    <3>3. CASE b \notin pass
      <4>1. /\ e'.left[b] = e.left[b]
            /\ e'.right[b] = IF e.left[b] = None THEN -(d + 1) ELSE e.right[b]
        BY <3>1, <3>3 DEF LeftMarked
      <4> QED BY <2>1, <2>2, <2>4, <3>1, <4>1 DEF LeftSound, Unmarked
    <3> QED BY <3>2, <3>3
  <2> QED BY <2>5, <2>6
<1>8. SweepSound'
  <2>1. reg'[side'].dqs = start'
    BY <1>1, <1>3, SideFacts DEF CentreInv, CalType, Delays, SoundInv, SweepSound, side
  <2> QED BY <1>6, <1>7, <2>1 DEF SweepSound
<1> QED BY <1>5, <1>6, <1>8 DEF CentreInv, SoundInv, MaskSound, CentredWorks

LEMMA TurnSound == ASSUME CentreInv, Turn PROVE CentreInv'
<1>1. /\ step = "turn" /\ step' = "right" /\ d' = 0 /\ e' = Cleared(e)
      /\ reg' = [reg EXCEPT ![side].dq = [b \in Bit |-> 0]]
      /\ UNCHANGED <<dmdelay, stage, vfifoVars, eye, start, dm>>
  BY DEF Turn
<1>2. side' = side /\ side \in Side /\ reg[side] \in Delays
  BY <1>1, SideFacts DEF CentreInv, CalType, side
<1>3. /\ reg' \in [Side -> Delays]
      /\ \A b \in Bit : reg'[side].dq[b] = 0
  <2>1. 0 \in 0..MAX
    BY BitFacts
  <2>2. [b \in Bit |-> 0] \in [Bit -> 0..MAX]
    BY <2>1
  <2> QED BY <1>1, <1>2, <2>2 DEF CentreInv, CalType, Delays
<1>4. CalType'
  <2>1. e' \in Edges
    BY <1>1, BitFacts DEF CentreInv, CalType, Edges, Tap, Cleared
  <2>2. d' \in 0..MAX /\ d' <= MAX - start
    BY <1>1, BitFacts DEF CentreInv, CalType
  <2> QED BY <1>1, <1>3, <2>1, <2>2 DEF CentreInv, CalType, vfifoVars
<1>5. ASSUME NEW b \in Bit PROVE RightSound(b)'
  <2>1. LeftSound(b)
    BY <1>1 DEF CentreInv, SoundInv, SweepSound
  <2>2. \A n : Good(b, n)' <=> Good(b, n)
    BY <1>1 DEF Good, Inside
  <2>3. /\ e'.left[b] = e.left[b]
        /\ e'.right[b] = IF e.left[b] = None THEN None ELSE e.right[b]
    BY <1>1 DEF Cleared, CentreInv, CalType, Edges
  <2> QED BY <1>1, <2>1, <2>2, <2>3 DEF LeftSound, RightSound, Bracketed
<1>6. SweepSound'
  BY <1>1, <1>2, <1>3, <1>5 DEF SweepSound
<1> QED BY <1>1, <1>4, <1>6 DEF CentreInv, SoundInv, MaskSound, MaskSteps, CentredWorks

(* The second sweep.                                                       *)
LEMMA RightTapSound == ASSUME CentreInv, RightTap PROVE CentreInv'
<1> DEFINE r == [reg[side] EXCEPT !.dqs = start + d]
           stop(pass) == pass = {} /\ seen = Bit
<1>1. /\ step = "right" /\ reg' = [reg EXCEPT ![side] = r]
      /\ UNCHANGED <<dmdelay, stage, vfifoVars, eye, start, dm>>
  BY DEF RightTap
<1>2. PICK pass \in Outcomes(r) :
        /\ e' = IF ~stop(pass) \/ (side = "write" /\ d = 0)
                THEN RightMarked(e, pass, d) ELSE e
        /\ IF stop(pass) \/ d = MAX - start THEN step' = "centre" /\ UNCHANGED d
                                            ELSE d' = d + 1 /\ UNCHANGED step
  BY DEF RightTap
<1>3. /\ side' = side /\ side \in Side /\ reg[side] \in Delays /\ r \in Delays
      /\ d \in 0..MAX /\ start \in 0..MAX /\ d <= MAX - start
  <2>1. /\ d \in 0..MAX /\ start \in 0..MAX /\ d <= MAX - start
        /\ side' = side /\ side \in Side /\ reg[side] \in Delays
    BY <1>1, SideFacts DEF CentreInv, CalType, side
  <2>2. start + d \in 0..MAX
    BY <2>1, BitFacts
  <2> QED BY <2>1, <2>2 DEF Delays
<1>4. \A b \in pass : b \in Bit /\ Good(b, -d)
  <2>1. \A b \in Bit : Offset(r, b) = (-d) - start
    <3>1. \A b \in Bit : reg[side].dq[b] = 0
      BY <1>1 DEF CentreInv, SoundInv, SweepSound
    <3>2. \A b \in Bit : Offset(r, b) = 0 - (start + d)
      BY <1>3, <3>1 DEF Offset, Delays
    <3> QED BY <1>3, <3>2
  <2> QED BY <1>3, <2>1, OutcomesSound DEF CentreInv, CalType, Good
<1>5. CalType'
  <2>1. reg' \in [Side -> Delays]
    BY <1>1, <1>3 DEF CentreInv, CalType
  <2>2. e' \in Edges
    BY <1>2, <1>3, BitFacts DEF CentreInv, CalType, Edges, Tap, RightMarked
  <2>3. d' \in 0..MAX /\ (step' = "right" => d' <= MAX - start) /\ step' # "strobemask"
    BY <1>1, <1>2, <1>3, BitFacts
  <2> QED BY <1>1, <2>1, <2>2, <2>3 DEF CentreInv, CalType, vfifoVars
<1>6. step' \in {"right", "centre"}
  BY <1>1, <1>2
<1>7. ASSUME NEW b \in Bit
      PROVE  /\ step' = "right" => RightSound(b)'
             /\ e'.left[b] # None /\ e'.right[b] # None => Bracketed(b)'
  <2>1. /\ e.left[b] \in Int /\ e.right[b] \in Int
        /\ None \in Int /\ MAX \in Nat /\ None > MAX /\ d \in 0..MAX
    BY BitFacts DEF CentreInv, CalType, Edges, Tap
  <2>2. RightSound(b)
    BY <1>1 DEF CentreInv, SoundInv, SweepSound
  <2>3. b \in pass => Good(b, -d)
    BY <1>4
  <2>4. \A n : Good(b, n)' <=> Good(b, n)
    BY <1>1 DEF Good, Inside
  <2>5. step' = "right" => ~stop(pass) /\ d' = d + 1
    BY <1>1, <1>2
  <2>6. CASE stop(pass) /\ e' = e
    BY <2>2, <2>4, <2>5, <2>6 DEF RightSound, Bracketed
  <2>7. CASE e' = RightMarked(e, pass, d)
    <3>1. CASE b \in pass
      <4>1. e'.left[b] = e.left[b] /\ e'.right[b] = d
        BY <2>7, <3>1 DEF RightMarked
      <4>2. e.left[b] # None => Good(b, e.left[b])
        BY <2>1, <2>2, <2>3, <3>1 DEF RightSound, Bracketed
      <4> QED BY <2>1, <2>3, <2>4, <2>5, <3>1, <4>1, <4>2 DEF RightSound, Bracketed
    <3>2. CASE b \notin pass /\ e.right[b] # None
      <4>1. e'.left[b] = e.left[b] /\ e'.right[b] = e.right[b]
        BY <2>7, <3>2 DEF RightMarked
      <4> QED BY <2>1, <2>2, <2>4, <2>5, <3>2, <4>1 DEF RightSound, Bracketed
    <3>3. CASE b \notin pass /\ e.right[b] = None /\ d = 0 /\ e.left[b] # None
      <4>1. e'.left[b] = e.left[b] /\ e'.right[b] = -1
        BY <2>7, <3>3 DEF RightMarked
      <4> QED BY <2>1, <2>2, <2>4, <2>5, <3>3, <4>1 DEF RightSound, Bracketed
    <3>4. CASE b \notin pass /\ e.right[b] = None /\ (d # 0 \/ e.left[b] = None)
      <4>1. e'.left[b] = -(d + 1) /\ e'.right[b] = None
        BY <2>2, <2>7, <3>4 DEF RightMarked, RightSound
      <4> QED BY <2>1, <2>5, <3>4, <4>1 DEF RightSound
    <3> QED BY <3>1, <3>2, <3>3, <3>4
  <2> QED BY <1>2, <2>6, <2>7
<1>8. SweepSound'
  <2>1. \A b \in Bit : reg'[side'].dq[b] = 0
    BY <1>1, <1>3 DEF CentreInv, CalType, Delays, SoundInv, SweepSound
  <2> QED BY <1>6, <1>7, <2>1 DEF SweepSound, Missed
<1> QED BY <1>5, <1>6, <1>8 DEF CentreInv, SoundInv, MaskSound, MaskSteps, CentredWorks

LEMMA EdgeMissedSound == ASSUME CentreInv, EdgeMissed PROVE CentreInv'
<1>1. /\ step = "centre" /\ step' = "bad"
      /\ reg' = IF side = "read" THEN [reg EXCEPT !["read"].dqs = start] ELSE reg
      /\ UNCHANGED <<dmdelay, vfifoVars, centreVars>>
  BY DEF EdgeMissed
<1>2. reg' \in [Side -> Delays]
  BY <1>1 DEF CentreInv, CalType, Delays, Side
<1>3. CalType'
  BY <1>1, <1>2 DEF CentreInv, CalType, vfifoVars, centreVars
<1> QED BY <1>1, <1>3, IdleSound DEF CentreInv, Busy, MaskSteps

(* The widths of the eyes of a group have a smallest one.                  *)
LEMMA NarrowestFacts ==
  ASSUME NEW f \in Edges
  PROVE  Narrowest(f) \in Int /\ \A b \in Bit : Narrowest(f) <= Width(f, b)
<1> DEFINE K    == 2 * MAX + 2
           lift == {Width(f, b) + K : b \in Bit}
           less == OpToRel(<, Nat)
<1>1. \A b \in Bit : Width(f, b) \in Int /\ Width(f, b) + K \in Nat
  BY BitFacts DEF Edges, Tap, Width
<1>2. lift \subseteq Nat /\ lift # {}
  <2>1. 0 \in Bit
    BY EyeAssumption DEF Bit
  <2> QED BY <1>1, <2>1
<1>3. PICK m \in lift : \A n \in lift : ~ (<<n, m>> \in less)
  BY <1>2, NatLessThanWellFounded, WFMin
<1>4. PICK c \in Bit : m = Width(f, c) + K
  BY <1>3
<1>5. ASSUME NEW b \in Bit PROVE Width(f, c) <= Width(f, b)
  <2>1. Width(f, b) + K \in lift /\ Width(f, b) + K \in Nat /\ m \in Nat
    BY <1>1, <1>2
  <2>2. ~ (Width(f, b) + K < m)
    BY <1>3, <2>1 DEF OpToRel
  <2> QED BY <1>1, <1>4, <2>2, BitFacts
<1>6. /\ Narrowest(f) \in {Width(f, b) : b \in Bit}
      /\ \A b \in Bit : Narrowest(f) <= Width(f, b)
  BY <1>5 DEF Narrowest
<1> QED BY <1>1, <1>6

LEMMA MidType == ASSUME NEW f \in Edges PROVE mid_min(f) \in Int
BY NarrowestFacts, HalvedType DEF mid_min

(* A line moved between its edges is where it works.                       *)
LEMMA BracketWorks ==
  ASSUME CentreInv, NEW b \in Bit, Bracketed(b), NEW n \in Int,
         e.left[b] - n >= 0, e.right[b] + n >= 0
  PROVE  Good(b, n)
<1>1. /\ e.left[b] \in Int /\ e.right[b] \in Int /\ start \in Int
      /\ eye[b].lo \in Int /\ eye[b].hi \in Int
  BY BitFacts DEF CentreInv, CalType, Edges, Tap, AnyEye
<1> QED BY <1>1 DEF Bracketed, Good, Inside

LEMMA CentreSound == ASSUME CentreInv, Centre PROVE CentreInv'
<1> DEFINE moved == IF side = "read" THEN start - Clamped(start - mid_min(e)) ELSE 0
           dq    == [b \in Bit |-> CentredDq(e, b, reg[side].dq[b], moved)]
           fits  == InMargins(e, [b \in Bit |-> dq[b] - reg[side].dq[b]], moved)
           new   == [dq |-> dq, dqs |-> start - moved]
<1>1. /\ step = "centre" /\ Missed(e) = {}
      /\ reg' = [reg EXCEPT ![side] = new]
      /\ UNCHANGED <<dmdelay, stage, vfifoVars, eye, e, start>>
  BY DEF Centre
<1>2. /\ side = "read" => step' = (IF fits THEN "ok" ELSE "bad") /\ UNCHANGED <<d, dm>>
      /\ side # "read" => /\ step' = "mask" /\ d' = MAX
                          /\ \E y \in Eye : dm' = [NoDm EXCEPT !.eye = y, !.fits = fits]
  BY DEF Centre
<1>3. /\ side' = side /\ side \in Side /\ reg[side] \in Delays /\ e \in Edges
      /\ d \in 0..MAX /\ start \in 0..MAX /\ start \in Int
      /\ \A b \in Bit : reg[side].dq[b] = 0
  BY <1>1, SideFacts, BitFacts DEF CentreInv, CalType, side, SoundInv, SweepSound
<1>4. moved \in Int /\ start - moved \in 0..MAX
  <2>1. Clamped(start - mid_min(e)) \in 0..MAX
    BY <1>3, MidType, ClampedType
  <2> QED BY <1>3, <2>1, BitFacts
<1>5. \A b \in Bit : dq[b] \in 0..MAX
  <2> SUFFICES ASSUME NEW b \in Bit PROVE dq[b] \in 0..MAX
    OBVIOUS
  <2>1. Width(e, b) - Narrowest(e) \in Int
    BY <1>3, NarrowestFacts, BitFacts DEF Width, Edges, Tap
  <2>2. Halved(Width(e, b) - Narrowest(e)) + (mid_min(e) - moved) \in Int
    BY <1>3, <1>4, <2>1, HalvedType, MidType
  <2>3. 0 + Halved(Width(e, b) - Narrowest(e)) + (mid_min(e) - moved) \in Int
    BY <1>3, <1>4, <2>1, HalvedType, MidType
  <2> QED BY <1>3, <2>3, ClampedType DEF CentredDq
<1>6. new \in Delays
  BY <1>4, <1>5 DEF Delays
<1>7. fits => \A b \in Bit : Inside(eye[b], dq[b] - (start - moved), 0)
  <2> SUFFICES ASSUME fits, NEW b \in Bit
               PROVE  Inside(eye[b], dq[b] - (start - moved), 0)
    OBVIOUS
  <2>1. dq[b] \in Int /\ reg[side].dq[b] = 0 /\ Bracketed(b)
    BY <1>1, <1>3, <1>5, BitFacts DEF CentreInv, SoundInv, SweepSound
  <2>2. /\ LeftMargin(e, b, dq[b] - 0, moved) >= 0
        /\ RightMargin(e, b, dq[b] - 0, moved) >= 0
    BY <2>1 DEF InMargins
  <2>3. /\ e.left[b] - (dq[b] + moved) >= 0 /\ e.right[b] + (dq[b] + moved) >= 0
        /\ dq[b] + moved \in Int
    BY <1>3, <1>4, <2>1, <2>2, BitFacts DEF Edges, Tap, LeftMargin, RightMargin
  <2>4. Good(b, dq[b] + moved)
    BY <2>1, <2>3, BracketWorks
  <2>5. (dq[b] + moved) - start = dq[b] - (start - moved)
    BY <1>3, <1>4, <2>1
  <2> QED BY <2>4, <2>5 DEF Good
<1>8. reg' \in [Side -> Delays] /\ reg'[side] = new
  BY <1>1, <1>3, <1>6 DEF CentreInv, CalType
<1>9. CASE side = "read"
  <2>1. CalType'
    BY <1>1, <1>2, <1>8, <1>9 DEF CentreInv, CalType, vfifoVars
  <2>2. step' = "ok" => \A b \in Bit : Inside(eye'[b], Offset(reg'[side'], b), 0)
    BY <1>1, <1>2, <1>3, <1>7, <1>8, <1>9 DEF Offset
  <2>3. step' \in {"ok", "bad"} /\ side' # "write"
    BY <1>2, <1>3, <1>9
  <2> QED BY <2>1, <2>2, <2>3
          DEF CentreInv, SoundInv, SweepSound, MaskSound, MaskSteps, CentredWorks
<1>10. CASE side # "read"
  <2>1. side = "write" /\ side' = "write" /\ step' = "mask" /\ d' = MAX
    BY <1>2, <1>3, <1>10, SideFacts
  <2>2. PICK y \in Eye : dm' = [NoDm EXCEPT !.eye = y, !.fits = fits]
    BY <1>2, <1>10
  <2>3. /\ dm'.bgn = None /\ dm'.best.bgn = None /\ dm'.fits = fits
        /\ dm' \in [eye : AnyEye, fits : BOOLEAN, bgn : Int, best : Runs]
    BY <2>2, EyeFacts, BitFacts DEF NoDm, Runs, InMargins
  <2>4. CalType'
    BY <1>1, <1>8, <2>1, <2>3, BitFacts DEF CentreInv, CalType, vfifoVars
  <2>5. fits => \A b \in Bit : Inside(eye'[b], reg'["write"].dq[b] - start', 0)
    <3>1. moved = 0 /\ start - moved = start
      BY <1>3, <1>10
    <3> QED BY <1>1, <1>7, <1>8, <2>1, <3>1
  <2>6. MaskSound'
    BY <2>1, <2>3, <2>5 DEF MaskSound
  <2> QED BY <2>1, <2>4, <2>6 DEF CentreInv, SoundInv, SweepSound, CentredWorks
<1> QED BY <1>9, <1>10
-----------------------------------------------------------------------------
(* The data mask.                                                          *)

(* A test of a setting at or above the window's keeps what it stands for.  *)
LEMMA MaskedSound ==
  ASSUME CentreInv, step \in MaskSteps,
         NEW q \in Int, -MAX <= q, q <= MAX, NEW ok \in BOOLEAN, MaskTest(q, ok),
         dm.bgn # None => dm.bgn <= q, dm' = Masked(q, ok)
  PROVE  /\ dm' \in [eye : AnyEye, fits : BOOLEAN, bgn : Int, best : Runs]
         /\ dm'.eye = dm.eye /\ dm'.fits = dm.fits
         /\ dm'.bgn # None => Found(dm'.bgn) /\ dm'.bgn <= q
         /\ dm'.best.bgn # None =>
              Found(dm'.best.bgn) /\ MaskMay(dm'.best.end) /\ dm'.best.bgn <= dm'.best.end
<1> DEFINE bgn == IF dm.bgn = None THEN q ELSE dm.bgn
<1>1. /\ dm \in [eye : AnyEye, fits : BOOLEAN, bgn : Int, best : Runs]
      /\ None \in Int
  BY BitFacts DEF CentreInv, CalType
<1>2. /\ dm.bgn # None => Found(dm.bgn)
      /\ dm.best.bgn # None => /\ Found(dm.best.bgn) /\ MaskMay(dm.best.end)
                               /\ dm.best.bgn <= dm.best.end
  BY DEF CentreInv, SoundInv, MaskSound
<1>3. CASE ok
  <2>1. Found(bgn) /\ bgn <= q /\ bgn \in Int /\ MaskMay(q)
    BY <1>1, <1>2, <1>3 DEF MaskTest, Found
  <2>2. \/ dm' = [dm EXCEPT !.bgn = bgn, !.best = [bgn |-> bgn, end |-> q]]
        \/ dm' = [dm EXCEPT !.bgn = bgn, !.best = dm.best]
    BY <1>1, <1>3 DEF Masked
  <2>3. CASE dm' = [dm EXCEPT !.bgn = bgn, !.best = [bgn |-> bgn, end |-> q]]
    <3> HIDE DEF bgn
    <3>1. [bgn |-> bgn, end |-> q] \in Runs
      BY <2>1 DEF Runs
    <3>2. /\ dm'.eye = dm.eye /\ dm'.fits = dm.fits /\ dm'.bgn = bgn
          /\ dm'.best = [bgn |-> bgn, end |-> q]
      BY <1>1, <2>3
    <3>3. dm' \in [eye : AnyEye, fits : BOOLEAN, bgn : Int, best : Runs]
      BY <1>1, <2>1, <2>3, <3>1
    <3> QED BY <2>1, <3>2, <3>3
  <2>4. CASE dm' = [dm EXCEPT !.bgn = bgn, !.best = dm.best]
    <3>1. /\ dm'.eye = dm.eye /\ dm'.fits = dm.fits /\ dm'.bgn = bgn
          /\ dm'.best = dm.best
          /\ dm' \in [eye : AnyEye, fits : BOOLEAN, bgn : Int, best : Runs]
      BY <1>1, <2>1, <2>4
    <3> QED BY <1>2, <2>1, <3>1
  <2> QED BY <2>2, <2>3, <2>4
<1>4. CASE ~ok
  <2>1. dm' = [dm EXCEPT !.bgn = None]
    BY <1>4 DEF Masked
  <2> QED BY <1>1, <1>2, <2>1
<1> QED BY <1>3, <1>4

LEMMA MaskTapSound == ASSUME CentreInv, MaskTap PROVE CentreInv'
<1>1. /\ step = "mask" /\ UNCHANGED <<reg, stage, vfifoVars, eye, e, start>>
      /\ \/ d = 0 /\ dmdelay' = 0 /\ step' = "strobemask" /\ d' = d
         \/ d # 0 /\ dmdelay' = d /\ d' = d - 1 /\ step' = step
  BY DEF MaskTap
<1>2. PICK ok \in BOOLEAN : MaskTest(-d, ok) /\ dm' = Masked(-d, ok)
  BY DEF MaskTap
<1>3. /\ d \in 0..MAX /\ d \in Int /\ start \in 0..MAX /\ MAX \in Nat
      /\ -MAX <= -d /\ -d <= MAX
  BY BitFacts DEF CentreInv, CalType
<1>4. dm.bgn # None => dm.bgn <= -d
  BY <1>1 DEF CentreInv, SoundInv, MaskSound, MaskSteps
<1>5. /\ dm' \in [eye : AnyEye, fits : BOOLEAN, bgn : Int, best : Runs]
      /\ dm'.eye = dm.eye /\ dm'.fits = dm.fits
      /\ dm'.bgn # None => Found(dm'.bgn) /\ dm'.bgn <= -d
      /\ dm'.best.bgn # None =>
           Found(dm'.best.bgn) /\ MaskMay(dm'.best.end) /\ dm'.best.bgn <= dm'.best.end
  BY <1>1, <1>2, <1>3, <1>4, MaskedSound DEF MaskSteps
<1>6. CalType'
  <2>1. d' \in 0..MAX /\ dmdelay' \in 0..MAX /\ (step' = "strobemask" => d' <= MAX - start)
    BY <1>1, <1>3
  <2> QED BY <1>1, <1>5, <2>1 DEF CentreInv, CalType, vfifoVars
<1>7. MaskSound'
  <2>1. side' = "write"
        /\ (dm'.fits => \A b \in Bit : Inside(eye[b], reg["write"].dq[b] - start, 0))
    BY <1>1, <1>5 DEF CentreInv, SoundInv, MaskSound, MaskSteps, side
  <2>2. \A n : (Found(n)' <=> Found(n)) /\ (MaskMay(n)' <=> MaskMay(n))
    BY <1>5 DEF Found, MaskMay, Inside
  <2>3. dm'.bgn # None => /\ (step' = "mask" => dm'.bgn <= -d')
                          /\ (step' = "strobemask" => dm'.bgn <= d')
    BY <1>1, <1>3, <1>5
  <2>4. step' # "maskcentre"
    BY <1>1
  <2> QED BY <1>1, <1>5, <2>1, <2>2, <2>3, <2>4 DEF MaskSound, Inside
<1> QED BY <1>1, <1>6, <1>7 DEF CentreInv, SoundInv, SweepSound, CentredWorks

LEMMA StrobeMaskTapSound == ASSUME CentreInv, StrobeMaskTap PROVE CentreInv'
<1>1. /\ step = "strobemask" /\ UNCHANGED <<dmdelay, stage, vfifoVars, eye, e, start>>
      /\ reg' = [reg EXCEPT !["write"].dqs = start + d]
      /\ \/ step' = "maskcentre" /\ d' = d
         \/ d # MAX - start /\ d' = d + 1 /\ step' = step
  BY DEF StrobeMaskTap
<1>2. PICK ok \in BOOLEAN : MaskTest(d, ok) /\ dm' = Masked(d, ok)
  BY DEF StrobeMaskTap
<1>3. /\ d \in 0..MAX /\ d \in Int /\ start \in 0..MAX /\ MAX \in Nat
      /\ -MAX <= d /\ d <= MAX /\ d <= MAX - start
  BY <1>1, BitFacts DEF CentreInv, CalType
<1>4. dm.bgn # None => dm.bgn <= d
  BY <1>1 DEF CentreInv, SoundInv, MaskSound, MaskSteps
<1>5. /\ dm' \in [eye : AnyEye, fits : BOOLEAN, bgn : Int, best : Runs]
      /\ dm'.eye = dm.eye /\ dm'.fits = dm.fits
      /\ dm'.bgn # None => Found(dm'.bgn) /\ dm'.bgn <= d
      /\ dm'.best.bgn # None =>
           Found(dm'.best.bgn) /\ MaskMay(dm'.best.end) /\ dm'.best.bgn <= dm'.best.end
  BY <1>1, <1>2, <1>3, <1>4, MaskedSound DEF MaskSteps
<1>6. /\ reg' \in [Side -> Delays]
      /\ reg'["write"].dq = reg["write"].dq
  <2>1. start + d \in 0..MAX
    BY <1>3
  <2> QED BY <1>1, <2>1 DEF CentreInv, CalType, Delays, Side
<1>7. CalType'
  <2>1. d' \in 0..MAX /\ (step' = "strobemask" => d' <= MAX - start) /\ step' # "right"
    BY <1>1, <1>3
  <2> QED BY <1>1, <1>5, <1>6, <2>1 DEF CentreInv, CalType, vfifoVars
<1>8. MaskSound'
  <2>1. side' = "write"
        /\ (dm'.fits => \A b \in Bit : Inside(eye'[b], reg'["write"].dq[b] - start', 0))
    BY <1>1, <1>5, <1>6 DEF CentreInv, SoundInv, MaskSound, MaskSteps, side
  <2>2. \A n : (Found(n)' <=> Found(n)) /\ (MaskMay(n)' <=> MaskMay(n))
    BY <1>5 DEF Found, MaskMay, Inside
  <2>3. dm'.bgn # None /\ step' = "strobemask" => dm'.bgn <= d'
    BY <1>1, <1>3, <1>5
  <2>4. step' # "mask"
    BY <1>1
  <2> QED BY <1>5, <2>1, <2>2, <2>3, <2>4 DEF MaskSound
<1> QED BY <1>1, <1>7, <1>8 DEF CentreInv, SoundInv, SweepSound, CentredWorks

LEMMA MaskCentreSound == ASSUME CentreInv, MaskCentre PROVE CentreInv'
<1> DEFINE top == -dm.best.bgn
           bot == -dm.best.end
           mid == Clamped(Halved(top - dm.best.end))
<1>1. /\ step = "maskcentre" /\ dmdelay' = mid
      /\ reg' = [reg EXCEPT !["write"].dqs = start]
      /\ step' = IF dm.fits /\ dm.best.bgn # None /\ -dm.best.bgn >= mid
                 THEN "ok" ELSE "bad"
      /\ UNCHANGED <<stage, vfifoVars, centreVars>>
  BY DEF MaskCentre
<1>2. top \in Int /\ bot \in Int /\ top - dm.best.end = top + bot
      /\ dm.eye.lo \in Int /\ dm.eye.hi \in Int
  BY DEF CentreInv, CalType, Runs, AnyEye
<1>3. mid \in 0..MAX
  BY <1>2, HalvedType, ClampedType
<1>4. CalType'
  BY <1>1, <1>3 DEF CentreInv, CalType, Delays, Side, vfifoVars, centreVars
<1>5. side = "write" /\ side' = "write"
  BY <1>1 DEF CentreInv, SoundInv, MaskSound, MaskSteps, side
<1>6. ASSUME step' = "ok" PROVE CentredWorks'
  <2>1. dm.fits /\ dm.best.bgn # None /\ top >= mid
    BY <1>1, <1>6
  <2>2. /\ \A b \in Bit : Inside(eye[b], reg["write"].dq[b] - start, 0)
        /\ MaskMay(dm.best.bgn) /\ -MAX <= dm.best.bgn /\ MaskMay(dm.best.end)
        /\ dm.best.bgn <= dm.best.end
    BY <1>1, <2>1 DEF CentreInv, SoundInv, MaskSound, MaskSteps, Found
  <2>3. bot <= top /\ top <= MAX /\ dm.best.end \in Int /\ dm.best.bgn \in Int
    BY <2>2, BitFacts DEF CentreInv, CalType, Runs
  <2>4. bot <= mid
    <3>1. Halved(top + bot) \in Int /\ bot <= Halved(top + bot)
      BY <1>2, <2>3, HalvedFacts
    <3>2. mid = Clamped(Halved(top + bot)) /\ bot <= MAX /\ MAX \in Nat
      BY <1>2, <2>3, BitFacts
    <3> QED BY <1>2, <3>1, <3>2 DEF Clamped
  <2>5. MaskMay(-mid)
    BY <1>2, <1>3, <2>1, <2>2, <2>3, <2>4, BitFacts DEF MaskMay, Inside
  <2>6. \A b \in Bit : Offset(reg'["write"], b) = reg["write"].dq[b] - start
    BY <1>1 DEF CentreInv, CalType, Side, Delays, Offset
  <2> QED BY <1>1, <1>5, <2>2, <2>5, <2>6 DEF CentredWorks, centreVars, MaskMay
<1>7. step' \in {"ok", "bad"}
  BY <1>1
<1> QED BY <1>4, <1>6, <1>7, IdleSound
        DEF CentreInv, SoundInv, SweepSound, MaskSound, MaskSteps, CentredWorks
-----------------------------------------------------------------------------
(* The steps around the centrings.                                         *)

LEMMA ZeroType == ZeroOut \in Delays /\ ZeroRegs \in [Side -> Delays] /\ 0 \in 0..MAX
BY CalibrationAssumption, BitFacts DEF ZeroOut, ZeroRegs, Delays

LEMMA EndType ==
  ASSUME End
  PROVE  /\ d' \in 0..MAX /\ start' \in 0..MAX /\ d' <= MAX - start' /\ e' \in Edges
         /\ eye' \in [Bit -> AnyEye]
         /\ dm' \in [eye : AnyEye, fits : BOOLEAN, bgn : Int, best : Runs]
BY BitFacts, EyeFacts DEF End, NoEdges, Edges, Tap, NoDm, AnyEye, Runs

LEMMA NextAddType ==
  ASSUME CentreInv, NextAdd
  PROVE  /\ add' \in 0..PTAP /\ reg' \in [Side -> Delays]
         /\ step' \in {"guarantee", "failed"}
<1>1. CASE add + 2 <= PTAP
  <2>1. add + 2 \in 0..PTAP /\ add + 2 \in 0..MAX
    BY <1>1, CalibrationAssumption, BitFacts DEF CentreInv, CalType
  <2>2. reg' = [reg EXCEPT !["write"].dqs = add + 2]
    BY <1>1 DEF NextAdd
  <2>3. reg' \in [Side -> Delays]
    BY <2>1, <2>2 DEF CentreInv, CalType, Delays, Side
  <2> QED BY <1>1, <2>1, <2>3 DEF NextAdd
<1>2. CASE ~(add + 2 <= PTAP)
  BY <1>2 DEF NextAdd, CentreInv, CalType
<1> QED BY <1>1, <1>2

LEMMA OtherSound ==
  ASSUME CentreInv,
         \/ Calibrate
         \/ \E ok \in BOOLEAN : GuaranteedRead(ok) \/ FindGate(ok)
         \/ VfifoRetry \/ VfifoPassed \/ WritesPassed \/ StageFailed \/ GroupPassed
         \/ LatencyTest \/ Report \/ PowerCycle
  PROVE  CentreInv'
<1> USE DEF CentreInv
<1>1. CASE Calibrate
  BY <1>1, IdleSound DEF Calibrate, CalType, vfifoVars, regVars, centreVars, Busy, MaskSteps
<1>2. ASSUME NEW ok \in BOOLEAN, GuaranteedRead(ok) PROVE CentreInv'
  <2>1. /\ dtaps' \in 0..MAX /\ orig' \in 0..MAX /\ add' \in 0..PTAP
        /\ reg' \in [Side -> Delays] /\ step' \in {"strobe", "guarantee", "failed"}
    BY <1>2, NextAddType DEF GuaranteedRead, CalType, Delays, Side
  <2>2. UNCHANGED <<dmdelay, centreVars>>
    BY <1>2 DEF GuaranteedRead
  <2> QED BY <2>1, <2>2, IdleSound DEF CalType, centreVars, Busy, MaskSteps
<1>3. ASSUME NEW found \in BOOLEAN, FindGate(found) PROVE CentreInv'
  <2> DEFINE r == [dq |-> [b \in Bit |-> 0], dqs |-> IF found THEN orig ELSE dtaps]
  <2>1. /\ reg' = [reg EXCEPT !["read"] = r] /\ UNCHANGED <<vfifoVars, dmdelay>>
        /\ IF found THEN Begin("VFIFO", r)
                    ELSE step' = "bad" /\ UNCHANGED <<stage, centreVars>>
    BY <1>3 DEF FindGate
  <2>2. r \in Delays
    BY ZeroType DEF CalType, Delays
  <2>3. reg' \in [Side -> Delays] /\ reg'["read"] = r
    BY <2>1, <2>2 DEF CalType, Side
  <2> HIDE DEF r
  <2>4. CASE found
    <3>1. Begin("VFIFO", r)
      BY <2>1, <2>4
    <3>2. SoundInv'
      BY <2>3, <3>1, BeginSound
    <3> QED BY <2>1, <2>2, <2>3, <3>1, <3>2, BeginType DEF CalType, vfifoVars
  <2>5. CASE ~found
    BY <2>1, <2>3, <2>5, IdleSound DEF CalType, vfifoVars, centreVars, Busy, MaskSteps
  <2> QED BY <2>4, <2>5
<1>4. CASE VfifoRetry
  <2>1. /\ dtaps' \in 0..MAX /\ orig' \in 0..MAX /\ add' \in 0..PTAP
        /\ reg' \in [Side -> Delays] /\ step' \in {"strobe", "guarantee", "failed"}
    BY <1>4, NextAddType, BitFacts DEF VfifoRetry, CalType
  <2>2. UNCHANGED dmdelay /\ End
    BY <1>4 DEF VfifoRetry
  <2> QED BY <2>1, <2>2, EndType, IdleSound DEF CalType, Busy, MaskSteps
<1>5. CASE VfifoPassed
  <2> DEFINE r == IF add > 0 THEN ZeroOut ELSE reg["write"]
  <2>1. /\ reg' = [reg EXCEPT !["write"] = r] /\ dmdelay' = 0
        /\ add' = 0 /\ dtaps' = 0 /\ orig' = 0 /\ Begin("WRITES", r)
    BY <1>5 DEF VfifoPassed
  <2>2. r \in Delays
    BY ZeroType DEF CalType, Side
  <2>3. reg' \in [Side -> Delays] /\ reg'["write"] = r
    BY <2>1, <2>2 DEF CalType, Side
  <2> HIDE DEF r
  <2>4. SoundInv'
    BY <2>1, <2>3, BeginSound
  <2>5. 0 \in 0..PTAP
    BY CalibrationAssumption, BitFacts
  <2> QED BY <2>1, <2>2, <2>3, <2>4, <2>5, BeginType, ZeroType DEF CalType
<1>6. CASE WritesPassed
  <2>1. /\ UNCHANGED <<regVars, vfifoVars>> /\ Begin("VFIFO_AFTER_WRITES", reg["read"])
        /\ reg["read"] \in Delays
    BY <1>6 DEF WritesPassed, CalType, Side
  <2>2. SoundInv'
    BY <2>1, BeginSound DEF regVars
  <2> QED BY <2>1, <2>2, BeginType DEF CalType, regVars, vfifoVars
<1>7. CASE StageFailed
  <2>1. UNCHANGED <<regVars, vfifoVars>> /\ End /\ step' = "failed"
    BY <1>7 DEF StageFailed
  <2> QED BY <2>1, EndType, IdleSound DEF CalType, vfifoVars, regVars, Busy, MaskSteps
<1>8. CASE GroupPassed
  <2>1. /\ reg' = ZeroRegs /\ dmdelay' = 0 /\ End /\ UNCHANGED vfifoVars
        /\ step' \in {"guarantee", "lfifo"}
    BY <1>8 DEF GroupPassed
  <2> QED BY <2>1, EndType, ZeroType, IdleSound DEF CalType, vfifoVars, Busy, MaskSteps
<1>9. CASE LatencyTest
  <2>1. /\ UNCHANGED <<regVars, vfifoVars, centreVars>>
        /\ step' \in {"lfifo", "passed", "failed"}
    BY <1>9 DEF LatencyTest
  <2> QED BY <2>1, IdleSound DEF CalType, vfifoVars, regVars, centreVars, Busy, MaskSteps
<1>10. CASE Report
  <2>1. UNCHANGED <<regVars, vfifoVars, centreVars>> /\ step' = "off"
    BY <1>10 DEF Report
  <2> QED BY <2>1, IdleSound DEF CalType, vfifoVars, regVars, centreVars, Busy, MaskSteps
<1>11. CASE PowerCycle
  <2>1. /\ reg' = ZeroRegs /\ dmdelay' = 0 /\ UNCHANGED centreVars /\ step' = "boot"
        /\ add' = 0 /\ dtaps' = 0 /\ orig' = 0
    BY <1>11 DEF PowerCycle
  <2>2. 0 \in 0..PTAP
    BY CalibrationAssumption, BitFacts
  <2> QED BY <2>1, <2>2, ZeroType, IdleSound DEF CalType, centreVars, Busy, MaskSteps
<1> QED BY <1>1, <1>2, <1>3, <1>4, <1>5, <1>6, <1>7, <1>8, <1>9, <1>10, <1>11

LEMMA CentreInvInit == CalInit => CentreInv
<1> SUFFICES ASSUME CalInit PROVE CentreInv
  OBVIOUS
<1>1. step = "boot" /\ NoCentring /\ reg = ZeroRegs /\ dmdelay = 0
      /\ add = 0 /\ dtaps = 0 /\ orig = 0
  BY DEF CalInit
<1>2. CalType
  <2>1. 0 \in 0..PTAP
    BY CalibrationAssumption, BitFacts
  <2> QED BY <1>1, <2>1, ZeroType, EyeFacts, BitFacts
          DEF CalType, NoCentring, NoEdges, Edges, Tap, NoDm, AnyEye, Runs
<1> QED BY <1>1, <1>2
        DEF CentreInv, SoundInv, SweepSound, MaskSound, MaskSteps, CentredWorks

LEMMA CentreInvStep == CentreInv /\ [CalNext]_calVars => CentreInv'
<1> SUFFICES ASSUME CentreInv, [CalNext]_calVars PROVE CentreInv'
  OBVIOUS
<1>1. CASE Centring
  BY <1>1, LeftTapSound, TurnSound, RightTapSound, EdgeMissedSound, CentreSound,
     MaskTapSound, StrobeMaskTapSound, MaskCentreSound DEF Centring
<1>2. CASE UNCHANGED calVars
  <2>1. UNCHANGED <<step, stage, vfifoVars, regVars, centreVars>>
    BY <1>2 DEF calVars
  <2>2. UNCHANGED side
    BY <2>1 DEF side
  <2>3. CalType' /\ SweepSound'
    BY <2>1, <2>2 DEF CentreInv, CalType, SoundInv, SweepSound, Unmarked, LeftSound,
       RightSound, Bracketed, Good, Missed, vfifoVars, regVars, centreVars
  <2>4. MaskSound' /\ CentredWorks'
    BY <2>1, <2>2 DEF CentreInv, SoundInv, MaskSound, CentredWorks, Found, MaskMay,
       Inside, Offset, vfifoVars, regVars, centreVars
  <2> QED BY <2>3, <2>4 DEF CentreInv, SoundInv
<1> QED BY <1>1, <1>2, OtherSound DEF CalNext

(* When a centring of the deskew succeeds, every line and the data mask    *)
(* lie in their eyes at the delays it leaves, for any number of lines and  *)
(* taps and whatever the tests answer at the edges.                        *)
THEOREM CalCentredWorks == CalSpec => []CentredWorks
<1>1. CentreInv => CentredWorks
  BY DEF CentreInv, SoundInv
<1> QED BY <1>1, CentreInvInit, CentreInvStep, PTL DEF CalSpec

(* Every delay that the calibration sets is one the hardware has.          *)
THEOREM CalTypeCorrect == CalSpec => []CalType
<1>1. CentreInv => CalType
  BY DEF CentreInv
<1> QED BY <1>1, CentreInvInit, CentreInvStep, PTL DEF CalSpec
-----------------------------------------------------------------------------
(* The middle of the eyes.  A line at setting x is left - x taps from one  *)
(* edge and right + x from the other.                                      *)

Level(b, x) == e.left[b] - x - (e.right[b] + x) \in -1..1

Settled(b) ==
  Level(b, reg["write"].dq[b]) \/ reg["write"].dq[b] \in {0, MAX}

FairSound ==
  /\ step \in MaskSteps => \A b \in Bit : Settled(b)
  /\ CentredFairly

LEMMA HalvedEven ==
  ASSUME NEW n \in Int
  PROVE  /\ Halved(n) \in Int
         /\ n >= 0 => n - 2 * Halved(n) \in 0..1
         /\ n <= 0 => n - 2 * Halved(n) \in -1..0
<1>1. CASE n >= 0
  BY <1>1 DEF Halved
<1>2. CASE n < 0
  BY <1>2 DEF Halved
<1> QED BY <1>1, <1>2

(* However the widths are rounded, the middle is met but for a tap.        *)
LEMMA MiddleMet ==
  ASSUME NEW f \in Edges, NEW b \in Bit,
         NEW x, x = Halved(Width(f, b) - Narrowest(f)) + mid_min(f)
  PROVE  x \in Int /\ f.left[b] - x - (f.right[b] + x) \in -1..1
<1> DEFINE w == Width(f, b)
           m == Narrowest(f)
           h == Halved(w - m)
<1>1. /\ w \in Int /\ m \in Int /\ w - m >= 0 /\ w - m \in Int
      /\ f.left[b] \in Int /\ f.right[b] \in Int /\ w = f.left[b] - f.right[b]
  BY NarrowestFacts, BitFacts DEF Width, Edges, Tap
<1>2. h \in Int /\ (w - m) - 2 * h \in 0..1
  BY <1>1, HalvedEven
<1>3. mid_min(f) \in Int /\ m - 2 * mid_min(f) \in -1..0
  <2>1. CASE m > 0
    <3>1. mid_min(f) = Halved(m + 1) /\ m + 1 \in Int /\ m + 1 >= 0
      BY <1>1, <2>1 DEF mid_min
    <3>2. (m + 1) - 2 * Halved(m + 1) \in 0..1 /\ Halved(m + 1) \in Int
      BY <3>1, HalvedEven
    <3> QED BY <1>1, <3>1, <3>2
  <2>2. CASE m <= 0
    <3>1. mid_min(f) = Halved(m)
      BY <1>1, <2>2 DEF mid_min
    <3> QED BY <1>1, <2>2, <3>1, HalvedEven
  <2> QED BY <1>1, <2>1, <2>2
<1> HIDE DEF w, m, h
<1>4. x = h + mid_min(f)
  BY DEF w, m, h
<1> QED BY <1>1, <1>2, <1>3, <1>4

LEMMA CentreFair == ASSUME CentreInv, Centre PROVE FairSound'
<1> DEFINE moved == IF side = "read" THEN start - Clamped(start - mid_min(e)) ELSE 0
           dq    == [b \in Bit |-> CentredDq(e, b, reg[side].dq[b], moved)]
           new   == [dq |-> dq, dqs |-> start - moved]
<1>1. /\ step = "centre" /\ reg' = [reg EXCEPT ![side] = new]
      /\ UNCHANGED <<stage, e, start>>
      /\ side = "read" => step' \in {"ok", "bad"}
      /\ side # "read" => step' = "mask"
  BY DEF Centre
<1>2. /\ side' = side /\ side \in Side /\ e \in Edges /\ start \in Int
      /\ \A b \in Bit : reg[side].dq[b] = 0
      /\ reg'[side] = new
  BY <1>1, SideFacts, BitFacts DEF CentreInv, CalType, side, SoundInv, SweepSound
<1>3. moved \in Int
  <2>1. Clamped(start - mid_min(e)) \in 0..MAX
    BY <1>2, MidType, ClampedType
  <2> QED BY <1>2, <2>1, BitFacts
<1> HIDE DEF moved
<1>4. ASSUME NEW b \in Bit
      PROVE  dq[b] \in {0, MAX} \/ Level(b, dq[b] + moved)
  <2> DEFINE raw == 0 + Halved(Width(e, b) - Narrowest(e)) + (mid_min(e) - moved)
  <2>1. dq[b] = Clamped(raw)
    BY <1>2 DEF CentredDq
  <2>2. Halved(Width(e, b) - Narrowest(e)) \in Int /\ mid_min(e) \in Int
    <3>1. Width(e, b) - Narrowest(e) \in Int
      BY <1>2, NarrowestFacts, BitFacts DEF Width, Edges, Tap
    <3> QED BY <1>2, <3>1, HalvedType, MidType
  <2>3. raw + moved = Halved(Width(e, b) - Narrowest(e)) + mid_min(e)
    BY <1>3, <2>2
  <2>4. Level(b, raw + moved)
    BY <1>2, <2>3, MiddleMet DEF Level
  <2> QED BY <2>1, <2>4 DEF Clamped
<1>5. CASE side = "read"
  <2>1. \A b \in Bit : Offset(reg'[side'], b) + start' = dq[b] + moved
    <3>1. ASSUME NEW b \in Bit PROVE dq[b] \in Int
      <4>1. reg'[side].dq[b] \in 0..MAX
        BY CentreSound, <1>2 DEF CentreInv, CalType, Delays
      <4> QED BY <1>2, <4>1, BitFacts
    <3> QED BY <1>1, <1>2, <1>3, <3>1 DEF Offset
  <2>2. CentredFairly'
    BY <1>1, <1>2, <1>4, <2>1 DEF CentredFairly, Level
  <2> QED BY <1>1, <1>5, <2>2 DEF FairSound, MaskSteps
<1>6. CASE side # "read"
  <2>1. side = "write" /\ moved = 0 /\ step' = "mask"
    BY <1>1, <1>6, SideFacts DEF moved
  <2>2. ASSUME NEW b \in Bit PROVE Settled(b)'
    <3>1. reg'["write"].dq[b] = dq[b]
      BY <1>2, <2>1
    <3>2. dq[b] \in 0..MAX
      BY CentreSound, <1>2, <2>1 DEF CentreInv, CalType, Delays
    <3>3. dq[b] + moved = dq[b]
      BY <2>1, <3>2, BitFacts
    <3> QED BY <1>1, <1>4, <3>1, <3>3 DEF Settled, Level
  <2> QED BY <2>1, <2>2 DEF FairSound, CentredFairly
<1> QED BY <1>5, <1>6

LEMMA FairStep == ASSUME CentreInv, FairSound, [CalNext]_calVars PROVE FairSound'
<1>1. CASE Centre
  BY <1>1, CentreFair
<1>2. CASE MaskTap \/ StrobeMaskTap
  <2>1. /\ step \in MaskSteps /\ step' \in MaskSteps
        /\ reg'["write"].dq = reg["write"].dq /\ e' = e
    BY <1>2 DEF MaskTap, StrobeMaskTap, MaskSteps, CentreInv, CalType, Side, Delays
  <2>2. step' # "ok"
    BY <2>1 DEF MaskSteps
  <2> QED BY <2>1, <2>2 DEF FairSound, Settled, Level, CentredFairly
<1>3. CASE MaskCentre
  <2>1. /\ step \in MaskSteps /\ step' \in {"ok", "bad"}
        /\ reg'["write"].dq = reg["write"].dq /\ reg'["write"].dqs = start
        /\ UNCHANGED <<e, start, stage>>
    BY <1>3 DEF MaskCentre, MaskSteps, CentreInv, CalType, Side, Delays, centreVars
  <2>2. side' = "write"
    BY <2>1 DEF CentreInv, SoundInv, MaskSound, side
  <2>3. \A b \in Bit : Settled(b) /\ reg["write"].dq[b] \in Int /\ start \in Int
    BY <2>1, BitFacts DEF FairSound, CentreInv, CalType, Side, Delays
  <2>4. \A b \in Bit : Offset(reg'["write"], b) + start' = reg["write"].dq[b]
    BY <2>1, <2>3 DEF Offset
  <2>5. CentredFairly'
    BY <2>1, <2>2, <2>3, <2>4 DEF CentredFairly, Settled, Level
  <2> QED BY <2>1, <2>5 DEF FairSound, MaskSteps
<1>4. CASE UNCHANGED calVars
  <2>1. UNCHANGED <<step, stage, reg, e, start>>
    BY <1>4 DEF calVars, regVars, centreVars
  <2> QED BY <2>1 DEF FairSound, CentredFairly, Settled, Level, Offset, side
<1>5. CASE /\ step' \notin MaskSteps /\ step' # "ok"
  BY <1>5 DEF FairSound, CentredFairly
<1>6. CASE LeftTap \/ Turn \/ RightTap \/ EdgeMissed
  BY <1>5, <1>6 DEF LeftTap, Turn, RightTap, EdgeMissed, MaskSteps
<1>7. CASE \/ Calibrate
           \/ \E ok \in BOOLEAN : GuaranteedRead(ok) \/ FindGate(ok)
           \/ VfifoRetry \/ VfifoPassed \/ WritesPassed \/ StageFailed \/ GroupPassed
           \/ LatencyTest \/ Report \/ PowerCycle
  BY <1>5, <1>7 DEF Calibrate, GuaranteedRead, FindGate, VfifoRetry, VfifoPassed,
     WritesPassed, StageFailed, GroupPassed, LatencyTest, Report, PowerCycle, NextAdd,
     Begin, MaskSteps
<1> QED BY <1>1, <1>2, <1>3, <1>4, <1>6, <1>7 DEF CalNext, Centring

(* A successful centring leaves no line off the middle of the edges found, *)
(* but for a tap or for the limits of its delay.                           *)
THEOREM CalCentredFairly == CalSpec => []CentredFairly
<1>1. CalInit => FairSound
  BY DEF CalInit, FairSound, CentredFairly, MaskSteps
<1>2. CentreInv /\ FairSound /\ [CalNext]_calVars => FairSound'
  BY FairStep
<1>3. FairSound => CentredFairly
  BY DEF FairSound
<1> QED BY <1>1, <1>2, <1>3, CentreInvInit, CentreInvStep, PTL DEF CalSpec
-----------------------------------------------------------------------------
(* The order of the stages: what each step of the calibration may rely on. *)

Centrings == {"left", "turn", "right", "centre", "ok", "bad"} \union MaskSteps

Passed(s) == CASE s = "WRITES"             -> {"VFIFO"}
               [] s = "VFIFO_AFTER_WRITES" -> {"VFIFO", "WRITES"}
               [] s = "LFIFO"              -> AllDone
               [] OTHER                    -> {}

StageSound ==
  /\ step = "boot" <=> stage = "NIL"
  /\ step \in {"guarantee", "strobe"} => stage = "VFIFO"
  /\ step \in Centrings => stage \in AllDone
  /\ step \in {"lfifo", "passed"} => stage = "LFIFO"
  /\ stage \in AllDone \union {"NIL", "LFIFO"}

DoneSound ==
  /\ g \in Group /\ done \in [Group -> SUBSET AllDone]
  /\ \A x \in Group : x < g => done[x] = AllDone
  /\ \A x \in Group : x > g => done[x] = {}
  /\ done[g] = Passed(stage)
  /\ stage = "LFIFO" => g = GROUPS - 1

ErrorSound ==
  /\ step = "failed" => error # NoError
  /\ status = "FAIL" => step = "off" /\ error # NoError
  /\ status = "SUCCESS" => step = "off" /\ stage = "LFIFO"

LatencyGood == lat > need /\ lat <= START_LAT + 1 /\ (need > 0 => lat = need + 1)

LatencySound ==
  /\ lat \in Int /\ need \in Int
  /\ stage # "LFIFO" => lat = START_LAT
  /\ step = "lfifo" => /\ lat \in 0..START_LAT /\ need >= 0
                       /\ lat < START_LAT => lat + 1 >= need
  /\ step = "passed" => LatencyGood
  /\ status = "SUCCESS" => LatencyGood

OrderInv == StageSound /\ DoneSound /\ ErrorSound /\ LatencySound

(* What every step of a centring leaves alone.                             *)
LEMMA CentringFrame ==
  ASSUME Centring
  PROVE  /\ step \in Centrings /\ step' \in Centrings
         /\ UNCHANGED <<stage, g, done, lat, need, status>>
<1>1. CASE LeftTap
  BY <1>1 DEF LeftTap, Centrings, latVars
<1>2. CASE Turn
  BY <1>2 DEF Turn, Centrings, latVars
<1>3. CASE RightTap
  BY <1>3 DEF RightTap, Centrings, latVars
<1>4. CASE EdgeMissed
  BY <1>4 DEF EdgeMissed, Centrings, latVars
<1>5. CASE Centre
  BY <1>5 DEF Centre, Centrings, MaskSteps, latVars
<1>6. CASE MaskTap
  BY <1>6 DEF MaskTap, Centrings, MaskSteps, latVars
<1>7. CASE StrobeMaskTap
  BY <1>7 DEF StrobeMaskTap, Centrings, MaskSteps, latVars
<1>8. CASE MaskCentre
  BY <1>8 DEF MaskCentre, Centrings, MaskSteps, latVars
<1> QED BY <1>1, <1>2, <1>3, <1>4, <1>5, <1>6, <1>7, <1>8 DEF Centring

LEMMA GroupFacts == 0 \in Group /\ Group \subseteq Int /\ GROUPS \in Nat
BY CalibrationAssumption DEF Group

(* A first failure is one, whatever came before.                           *)
LEMMA FailingSound ==
  ASSUME NEW where, where # "NIL", NEW group, Failing(where, group)
  PROVE  error' # NoError
<1>1. [stage |-> where, group |-> group].stage # NoError.stage
  BY DEF NoError
<1>2. [stage |-> where, group |-> group] # NoError
  BY <1>1
<1> QED BY <1>2 DEF Failing

(* The steps that stay in a stage and in a group.                          *)
LEMMA SameStage ==
  ASSUME OrderInv, UNCHANGED <<stage, g, done, lat, need, status>>,
         step # "boot", step' # "boot", step # "off",
         step' \in {"guarantee", "strobe"} => stage = "VFIFO",
         step' \in Centrings => stage \in AllDone,
         step' \notin {"lfifo", "passed"},
         step' = "failed" => error' # NoError
  PROVE  OrderInv'
<1>1. StageSound' /\ DoneSound'
  BY DEF OrderInv, StageSound, DoneSound
<1>2. ErrorSound'
  BY DEF OrderInv, ErrorSound
<1>3. LatencySound'
  BY DEF OrderInv, LatencySound, LatencyGood, ErrorSound
<1> QED BY <1>1, <1>2, <1>3 DEF OrderInv

LEMMA OrderStep == ASSUME OrderInv, [CalNext]_calVars PROVE OrderInv'
<1>1. CASE Centring
  <2>1. stage \in AllDone
    BY <1>1, CentringFrame DEF OrderInv, StageSound
  <2> QED BY <1>1, <2>1, CentringFrame, SameStage DEF Centrings, MaskSteps
<1>2. CASE Calibrate
  <2>1. /\ step = "boot" /\ step' = "guarantee" /\ stage = "NIL" /\ stage' = "VFIFO"
        /\ UNCHANGED <<g, done, lat, need, status, error>>
    BY <1>2 DEF Calibrate, latVars, OrderInv, StageSound
  <2>2. StageSound' /\ DoneSound'
    BY <2>1 DEF OrderInv, StageSound, DoneSound, Centrings, MaskSteps, AllDone, Passed
  <2>3. ErrorSound' /\ LatencySound'
    BY <2>1 DEF OrderInv, ErrorSound, LatencySound, LatencyGood
  <2> QED BY <2>2, <2>3 DEF OrderInv
<1>3. ASSUME NEW ok \in BOOLEAN, GuaranteedRead(ok) PROVE OrderInv'
  <2>1. /\ step = "guarantee" /\ step' \in {"strobe", "guarantee", "failed"}
        /\ UNCHANGED <<stage, g, done, lat, need, status>>
        /\ step' = "failed" => Failing("VFIFO", g)
    BY <1>3 DEF GuaranteedRead, NextAdd, latVars
  <2> QED BY <2>1, FailingSound, SameStage DEF OrderInv, StageSound, Centrings, MaskSteps
<1>4. ASSUME NEW ok \in BOOLEAN, FindGate(ok) PROVE OrderInv'
  <2>1. /\ step = "strobe" /\ step' \in {"left", "bad"} /\ stage = "VFIFO" /\ stage' = stage
        /\ UNCHANGED <<g, done, lat, need, status>>
    BY <1>4 DEF FindGate, Begin, latVars, OrderInv, StageSound
  <2> QED BY <2>1, SameStage DEF AllDone
<1>5. CASE VfifoRetry
  <2>1. /\ step = "bad" /\ stage = "VFIFO"
        /\ step' \in {"strobe", "guarantee", "failed"}
        /\ UNCHANGED <<stage, g, done, lat, need, status>>
        /\ step' = "failed" => Failing("VFIFO", g)
    BY <1>5 DEF VfifoRetry, NextAdd, latVars
  <2> QED BY <2>1, FailingSound, SameStage DEF Centrings, MaskSteps
<1>6. CASE VfifoPassed \/ WritesPassed
  <2>1. /\ step = "ok" /\ step' = "left"
        /\ \/ stage = "VFIFO" /\ stage' = "WRITES"
           \/ stage = "WRITES" /\ stage' = "VFIFO_AFTER_WRITES"
        /\ done' = [done EXCEPT ![g] = @ \union {stage}]
        /\ UNCHANGED <<g, lat, need, status, error>>
    BY <1>6 DEF VfifoPassed, WritesPassed, Done, Begin, latVars
  <2>2. done[g] \union {stage} = Passed(stage') /\ done[g] \union {stage} \subseteq AllDone
    BY <2>1 DEF OrderInv, DoneSound, Passed, AllDone
  <2>3. StageSound' /\ DoneSound'
    BY <2>1, <2>2, GroupFacts
       DEF OrderInv, StageSound, DoneSound, Centrings, MaskSteps, AllDone
  <2>4. ErrorSound' /\ LatencySound'
    BY <2>1 DEF OrderInv, ErrorSound, LatencySound, LatencyGood
  <2> QED BY <2>3, <2>4 DEF OrderInv
<1>7. CASE StageFailed
  <2>1. /\ step = "bad" /\ step' = "failed" /\ Failing(stage, g)
        /\ UNCHANGED <<stage, g, done, lat, need, status>>
    BY <1>7 DEF StageFailed, latVars
  <2>2. stage # "NIL"
    BY <2>1 DEF OrderInv, StageSound
  <2> QED BY <2>1, <2>2, FailingSound, SameStage DEF Centrings, MaskSteps
<1>8. CASE GroupPassed
  <2>1. /\ step = "ok" /\ stage = "VFIFO_AFTER_WRITES"
        /\ done' = [done EXCEPT ![g] = @ \union {stage}]
        /\ UNCHANGED <<lat, status, error>>
        /\ \/ /\ g + 1 < GROUPS /\ g' = g + 1 /\ step' = "guarantee" /\ stage' = "VFIFO"
              /\ UNCHANGED need
           \/ /\ ~(g + 1 < GROUPS) /\ g' = g /\ step' = "lfifo" /\ stage' = "LFIFO"
              /\ need' \in 0..(START_LAT + 1)
    BY <1>8 DEF GroupPassed, Done
  <2>2. done[g] \union {stage} = AllDone /\ g \in Int /\ g \in 0..(GROUPS - 1)
    BY <2>1, GroupFacts DEF OrderInv, DoneSound, Passed, AllDone, Group
  <2>3. DoneSound'
    <3>1. done' \in [Group -> SUBSET AllDone]
          /\ \A x \in Group : done'[x] = IF x = g THEN AllDone ELSE done[x]
      BY <2>1, <2>2 DEF OrderInv, DoneSound
    <3>2. CASE g + 1 < GROUPS
      <4>1. g' = g + 1 /\ stage' = "VFIFO" /\ g' \in Group
        BY <2>1, <2>2, <3>2, GroupFacts DEF Group
      <4>2. \A x \in Group : /\ x < g' => done'[x] = AllDone
                             /\ x >= g' => done'[x] = {}
        <5> SUFFICES ASSUME NEW x \in Group
                     PROVE  /\ x < g' => done'[x] = AllDone
                            /\ x >= g' => done'[x] = {}
          OBVIOUS
        <5>1. x \in Int /\ g \in Int /\ (x < g' <=> x < g \/ x = g) /\ (x >= g' <=> x > g)
          BY <2>2, <4>1, GroupFacts
        <5> QED BY <3>1, <5>1 DEF OrderInv, DoneSound
      <4>3. Passed(stage') = {}
        BY <4>1 DEF Passed
      <4> QED BY <3>1, <4>1, <4>2, <4>3, GroupFacts DEF DoneSound
    <3>3. CASE ~(g + 1 < GROUPS)
      <4>1. g' = g /\ stage' = "LFIFO" /\ g = GROUPS - 1 /\ Passed(stage') = AllDone
        BY <2>1, <2>2, <3>3, GroupFacts DEF Passed
      <4>2. \A x \in Group : x <= g
        BY <4>1, GroupFacts DEF Group
      <4> QED BY <2>2, <3>1, <4>1, <4>2, GroupFacts DEF OrderInv, DoneSound
    <3> QED BY <3>2, <3>3
  <2>4. StageSound'
    BY <2>1 DEF StageSound, Centrings, MaskSteps, AllDone
  <2>5. ErrorSound'
    BY <2>1 DEF OrderInv, ErrorSound
  <2>6. LatencySound'
    BY <2>1, CalibrationAssumption DEF OrderInv, LatencySound, ErrorSound
  <2> QED BY <2>3, <2>4, <2>5, <2>6 DEF OrderInv
<1>9. CASE LatencyTest
  <2>1. /\ step = "lfifo" /\ stage = "LFIFO" /\ UNCHANGED <<stage, g, done, need, status>>
        /\ \/ lat >= need /\ lat > 0 /\ lat' = lat - 1 /\ step' = step /\ error' = error
           \/ /\ ~(lat >= need /\ lat > 0) /\ lat < START_LAT
              /\ lat' = lat + 2 /\ step' = "passed" /\ error' = error
           \/ /\ Failing("LFIFO", 255) /\ step' = "failed" /\ lat' = lat
    BY <1>9 DEF LatencyTest, OrderInv, StageSound
  <2>2. StageSound' /\ DoneSound'
    BY <2>1 DEF OrderInv, StageSound, DoneSound, Centrings, MaskSteps
  <2>3. ErrorSound'
    BY <2>1, FailingSound DEF OrderInv, ErrorSound
  <2>4. LatencySound'
    BY <2>1, CalibrationAssumption DEF OrderInv, LatencySound, LatencyGood, ErrorSound
  <2> QED BY <2>2, <2>3, <2>4 DEF OrderInv
<1>10. CASE Report
  <2>1. /\ step \in {"passed", "failed"} /\ step' = "off"
        /\ status' = IF step = "passed" THEN "SUCCESS" ELSE "FAIL"
        /\ UNCHANGED <<stage, g, done, lat, need, error>>
    BY <1>10 DEF Report, latVars
  <2>2. StageSound' /\ DoneSound'
    BY <2>1 DEF OrderInv, StageSound, DoneSound, Centrings, MaskSteps
  <2>3. ErrorSound' /\ LatencySound'
    BY <2>1 DEF OrderInv, StageSound, ErrorSound, LatencySound, LatencyGood
  <2> QED BY <2>2, <2>3 DEF OrderInv
<1>11. CASE PowerCycle
  <2>1. /\ step' = "boot" /\ stage' = "NIL" /\ g' = 0 /\ lat' = START_LAT /\ need' = 0
        /\ done' = [x \in Group |-> {}] /\ status' = "RESET"
    BY <1>11 DEF PowerCycle
  <2>2. StageSound' /\ ErrorSound'
    BY <2>1 DEF StageSound, ErrorSound, Centrings, MaskSteps
  <2>3. DoneSound'
    BY <2>1, GroupFacts DEF DoneSound, Passed, Group
  <2>4. LatencySound'
    BY <2>1, CalibrationAssumption DEF LatencySound
  <2> QED BY <2>2, <2>3, <2>4 DEF OrderInv
<1>12. CASE UNCHANGED calVars
  <2>1. UNCHANGED <<step, stage, g, done, error, lat, need, status>>
    BY <1>12 DEF calVars, latVars
  <2> QED BY <2>1 DEF OrderInv, StageSound, DoneSound, ErrorSound, LatencySound, LatencyGood
<1> QED BY <1>1, <1>2, <1>3, <1>4, <1>5, <1>6, <1>7, <1>8, <1>9, <1>10, <1>11, <1>12
        DEF CalNext

LEMMA OrderInit == CalInit => OrderInv
<1> SUFFICES ASSUME CalInit PROVE OrderInv
  OBVIOUS
<1>1. /\ step = "boot" /\ stage = "NIL" /\ g = 0 /\ lat = START_LAT /\ need = 0
      /\ done = [x \in Group |-> {}] /\ status = "RESET"
  BY DEF CalInit
<1>2. StageSound /\ ErrorSound
  BY <1>1 DEF StageSound, ErrorSound, Centrings, MaskSteps
<1>3. DoneSound
  BY <1>1, GroupFacts DEF DoneSound, Passed, Group
<1>4. LatencySound
  BY <1>1, CalibrationAssumption DEF LatencySound
<1> QED BY <1>2, <1>3, <1>4 DEF OrderInv

(* A report of success means that every group has passed every stage, one  *)
(* of failure that there is a first failure to show.                       *)
THEOREM CalReportTrue == CalSpec => []ReportTrue
<1>1. OrderInv => ReportTrue
  <2> SUFFICES ASSUME OrderInv PROVE ReportTrue
    OBVIOUS
  <2>1. status = "SUCCESS" => \A x \in Group : x < g \/ x = g
    BY GroupFacts DEF OrderInv, ErrorSound, DoneSound, Group
  <2>2. status = "SUCCESS" => \A x \in Group : done[x] = AllDone
    BY <2>1 DEF OrderInv, ErrorSound, DoneSound, Passed
  <2> QED BY <2>2 DEF ReportTrue, OrderInv, ErrorSound
<1> QED BY <1>1, OrderInit, OrderStep, PTL DEF CalSpec

(* The read latency of a good calibration has been tested, and one more.   *)
THEOREM CalLatencySafe == CalSpec => []LatencySafe
<1>1. OrderInv => LatencySafe
  BY DEF OrderInv, LatencySound, LatencyGood, LatencySafe
<1> QED BY <1>1, OrderInit, OrderStep, PTL DEF CalSpec

(* From the moment the writes of a group are begun until its reads are     *)
(* centred again no step touches the delays of the reads.                  *)
THEOREM CalReadsKept == CalSpec => ReadsKept
<1> DEFINE kept == stage' = "WRITES" \/ (stage = "WRITES" /\ stage' = "VFIFO_AFTER_WRITES")
                     => reg'["read"] = reg["read"]
<1>1. ASSUME OrderInv, CentreInv, CalNext PROVE kept
  <2>1. ASSUME side = "write", side' = side PROVE Centring => reg'["read"] = reg["read"]
    BY <1>1, <2>1 DEF Centring, LeftTap, Turn, RightTap, EdgeMissed, Centre, MaskTap,
       StrobeMaskTap, MaskCentre, CentreInv, CalType, Side
  <2>2. CASE Centring
    BY <2>1, <2>2, CentringFrame DEF side
  <2>3. CASE Calibrate \/ StageFailed \/ LatencyTest \/ Report
    BY <2>3 DEF Calibrate, StageFailed, LatencyTest, Report, regVars
  <2>4. CASE \E ok \in BOOLEAN : GuaranteedRead(ok) \/ FindGate(ok)
    BY <2>4, <1>1 DEF OrderInv, StageSound, GuaranteedRead, FindGate, Begin
  <2>5. CASE VfifoRetry
    BY <2>5 DEF VfifoRetry
  <2>6. CASE VfifoPassed \/ WritesPassed
    BY <1>1, <2>6 DEF VfifoPassed, WritesPassed, regVars, CentreInv, CalType, Side
  <2>7. CASE GroupPassed \/ PowerCycle
    BY <2>7 DEF GroupPassed, PowerCycle
  <2> QED BY <1>1, <2>2, <2>3, <2>4, <2>5, <2>6, <2>7 DEF CalNext
<1>2. OrderInv /\ CentreInv /\ [CalNext]_calVars =>
        [\/ stage' = "WRITES"
         \/ stage = "WRITES" /\ stage' = "VFIFO_AFTER_WRITES"
         => reg'["read"] = reg["read"]]_calVars
  BY <1>1
<1> QED BY <1>2, OrderInit, OrderStep, CentreInvInit, CentreInvStep, PTL DEF CalSpec, ReadsKept
=============================================================================
