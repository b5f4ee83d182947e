---------------------------- MODULE ScaleProofs -----------------------------
(***************************************************************************)
(* Proofs about BurstMaster4 and its arithmetic.                           *)
(*                                                                         *)
(* The masters and the software are those of BurstMaster, so the lemmas of *)
(* CopyProofs about them serve here too.  What is new is what lies between *)
(* the masters: two rings and the stages of the pipeline.  Each place      *)
(* counts the words that have entered it (Counted), a stage holds the word *)
(* that has entered it and not the next (Carried), and so every word is    *)
(* where its number says, whatever the bubbles and the back-pressure.      *)
(***************************************************************************)
EXTENDS CopyProofs, BurstMaster4, ScaleArithmetic

(* The words that stage i holds, by number: multiplied by the coefficient  *)
(* from stage 1 on, divided from stage 2 on.                               *)
Word == Int \X Int \X BOOLEAN

Scaled(i) ==
  [n \in Nat |-> <<job.src + 4 * n, IF i >= 1 THEN job.coeff ELSE 0, i >= 2>>]

PipeType == pipeline_valid \in [Stage -> BOOLEAN] /\ pipeline_data \in [Stage -> Word]

PathType ==
  /\ Ring(in_mem, in_wr_ptr, in_rd_ptr, fifo_in_used, Word)
  /\ Ring(out_mem, out_wr_ptr, out_rd_ptr, fifo_out_used, Word)
  /\ PipeType
  /\ owed \in Seq(Int) /\ written \in Seq(Int \X Word)

ScaleType == SoftType /\ PathType /\ ctrl_coeff \in Int

(* The coefficient is the third register to be set.                        *)
Coefficient ==
  /\ phase = "setting" =>
       \E n \in 1..6 :
         todo = SubSeq(DdrOrder, n, 6) /\ (n > 3 => ctrl_coeff = job.coeff)
  /\ phase \in {"starting", "polling"} => ctrl_coeff = job.coeff

PipeEmpty == fifo_in_used = 0 /\ fifo_out_used = 0 /\ \A i \in Stage : ~pipeline_valid[i]

(* pos[i] words have entered stage i, the output FIFO being the last: each *)
(* stage counts the one that has entered it and not the next (Linked), and *)
(* holds the word of that number (Staged).                                 *)
Linked(pos) == \A i \in Stage : pos[i] = pos[i + 1] + One(pipeline_valid[i])

Staged(pos) == \A i \in Stage : pipeline_valid[i] => pipeline_data[i] = Scaled(i)[pos[i + 1]]

Counted(pos) ==
  /\ Linked(pos)
  /\ \A i, k \in 0..(PIPE_LATENCY + 1) : i <= k => pos[k] <= pos[i]
  /\ pos[PIPE_LATENCY + 1] = Len(written) + fifo_out_used

Carried(pos) ==
  /\ Holds(in_mem, in_rd_ptr, fifo_in_used, Scaled(0), pos[0])
  /\ Staged(pos)
  /\ Holds(out_mem, out_rd_ptr, fifo_out_used, Scaled(PIPE_LATENCY), Len(written))
  /\ Accounted(pos[0] + fifo_in_used) /\ OwedFrom(pos[0] + fifo_in_used)

Flowing == \E pos \in [0..(PIPE_LATENCY + 1) -> Nat] : Counted(pos) /\ Carried(pos)

ScaleWorking ==
  /\ internal_done_pulse = FALSE
  /\ Reading(fifo_in_used) /\ Writing(fifo_out_used) /\ Flowing

Scaling ==
  /\ UnderWay =>
       /\ Stored(Scaled(PIPE_LATENCY))
       /\ IF ctrl_done_reg THEN MastersRest /\ PipeEmpty /\ AllWritten
          ELSE ScaleWorking \/ (MastersFinish /\ PipeEmpty)
  /\ ~UnderWay =>
       /\ MastersRest /\ PipeEmpty
       /\ ctrl_start => phase = "polling"
       /\ phase = "acking" <=> ctrl_done_reg

ScaleIInv == ScaleType /\ Setting /\ Coefficient /\ Scaling
-----------------------------------------------------------------------------
(* The coefficient.                                                        *)

(* It is written by the third write of a transfer and by no other.         *)
LEMMA CoefficientMoves ==
  ASSUME SoftType, Coefficient, ctrl_coeff \in Int, NEW w, Software(w), ScaleCsr(w)
  PROVE  /\ Coefficient' /\ ctrl_coeff' \in Int
         /\ phase = "polling" => ctrl_coeff' = ctrl_coeff
<1>1. ctrl_coeff' = IF w.reg = 7 THEN w.data ELSE ctrl_coeff
  BY DEF ScaleCsr
<1>2. /\ DdrOrder \in Seq(Nat) /\ Len(DdrOrder) = 6
      /\ DdrOrder[1] = 5 /\ DdrOrder[2] = 6 /\ DdrOrder[3] = 7 /\ DdrOrder[4] = 2
      /\ DdrOrder[5] = 3 /\ DdrOrder[6] = 4
  BY Orders
<1>3. CASE Choose(w)
  <2>1. phase = "idle" /\ phase' = "setting" /\ job' \in Job /\ todo' = job'.order /\ w.reg = -1
    BY <1>3 DEF Choose, NoWrite, WriteReg
  <2>2. todo' = DdrOrder
    BY <2>1, ScaleAssumption
  <2>3. SubSeq(DdrOrder, 1, 6) = DdrOrder
    BY <1>2, SubSeqFull
  <2>4. 1 \in 1..6 /\ ~(1 > 3)
    OBVIOUS
  <2> QED
    BY <1>1, <2>1, <2>2, <2>3, <2>4 DEF Coefficient
<1>4. CASE Set(w)
  <2>1. /\ phase = "setting" /\ w = WriteReg(Head(todo), ValueOf(Head(todo)))
        /\ todo' = Tail(todo) /\ job' = job
        /\ phase' = IF todo' = <<>> THEN "starting" ELSE "setting"
    BY <1>4 DEF Set
  <2>2. PICK n \in 1..6 :
          todo = SubSeq(DdrOrder, n, 6) /\ (n > 3 => ctrl_coeff = job.coeff)
    BY <2>1 DEF Coefficient
  <2>3. Head(todo) = DdrOrder[n] /\ Tail(todo) = SubSeq(DdrOrder, n + 1, 6)
    <3>1. 6 \in n..Len(DdrOrder) /\ n \in 1..Len(DdrOrder)
      BY <1>2
    <3> QED
      BY <1>2, <2>2, <3>1, HeadTailOfSubSeq
  <2>4. w.reg = DdrOrder[n] /\ w.data = ValueOf(DdrOrder[n])
    BY <2>1, <2>3 DEF WriteReg
  <2>5. ctrl_coeff' = IF n = 3 THEN job.coeff ELSE ctrl_coeff
    <3>1. DdrOrder[n] = 7 <=> n = 3
      <4>1. n = 1 \/ n = 2 \/ n = 3 \/ n = 4 \/ n = 5 \/ n = 6
        OBVIOUS
      <4> QED
        BY <1>2, <4>1
    <3>2. ValueOf(7) = job.coeff
      BY DEF ValueOf
    <3> QED
      BY <1>1, <2>4, <3>1, <3>2
  <2>6. job.coeff \in Int
    BY ScaleAssumption DEF SoftType
  <2>7. n >= 3 => ctrl_coeff' = job.coeff
    BY <2>2, <2>5
  <2>8. CASE n = 6
    <3>1. todo' = <<>>
      <4>1. SubSeq(DdrOrder, 6 + 1, 6) = <<>>
        BY <1>2, SubSeqEmpty
      <4> QED
        BY <2>1, <2>3, <2>8, <4>1
    <3> QED
      BY <2>1, <2>5, <2>6, <2>7, <2>8, <3>1 DEF Coefficient
  <2>9. CASE n # 6
    <3>1. n + 1 \in 1..6 /\ (n + 1 > 3 => n >= 3)
      <4>1. n \in 1..6
        BY <2>2
      <4> QED
        BY <2>9, <4>1
    <3>2. phase' = "setting"
      <4>1. /\ n + 1 \in Int /\ n + 1 <= 6
            /\ \A i \in (n + 1)..6 : DdrOrder[i] \in Nat
        BY <1>2, <3>1, ElementOfSeq
      <4>2. Len(SubSeq(DdrOrder, n + 1, 6)) = 6 - (n + 1) + 1
        BY <4>1, SubSeqProperties
      <4>3. Len(SubSeq(DdrOrder, n + 1, 6)) # 0
        BY <3>1, <4>2
      <4> QED
        BY <2>1, <2>3, <4>3, EmptySeq
    <3>3. Coefficient'
      BY <2>1, <2>3, <2>7, <3>1, <3>2 DEF Coefficient
    <3> QED
      BY <2>1, <2>5, <2>6, <3>3
  <2> QED
    BY <2>8, <2>9
<1>5. CASE Start(w)
  <2>1. phase = "starting" /\ phase' = "polling" /\ job' = job /\ w.reg = 0
    BY <1>5 DEF Start, WriteReg
  <2> QED
    BY <1>1, <2>1 DEF Coefficient
<1>6. CASE Poll(w)
  <2>1. /\ phase = "polling" /\ job' = job /\ w.reg = -1
        /\ phase' = "polling" \/ phase' = "acking"
    BY <1>6 DEF Poll, NoWrite, WriteReg
  <2> QED
    BY <1>1, <2>1 DEF Coefficient
<1>7. CASE Acknowledge(w)
  <2>1. phase = "acking" /\ phase' = "idle" /\ w.reg = 1
    BY <1>7 DEF Acknowledge, WriteReg
  <2> QED
    BY <1>1, <2>1 DEF Coefficient
<1>8. CASE Compute(w)
  <2>1. phase' = phase /\ job' = job /\ todo' = todo /\ w.reg = -1
    BY <1>8 DEF Compute, NoWrite, WriteReg, testVars
  <2> QED
    BY <1>1, <2>1 DEF Coefficient
<1> QED
  BY <1>3, <1>4, <1>5, <1>6, <1>7, <1>8 DEF Software
-----------------------------------------------------------------------------
(* The pipeline.                                                           *)

(* A word enters stage i: from the input FIFO, or from the stage before;   *)
(* the one after the last is the output FIFO.                              *)
Entering(i) ==
  IF i = 0 THEN fifo_in_rd_en ELSE pipeline_ready(i - 1) /\ pipeline_valid[i - 1]

(* What the assumptions say of the stages.                                 *)
LEMMA Stages ==
  /\ PIPE_LATENCY \in Nat /\ PIPE_LATENCY >= 2 /\ Stage = 0..PIPE_LATENCY
  /\ 0 \in Stage /\ PIPE_LATENCY \in Stage
BY PipeAssumption DEF Stage

(* A stage gives its word to the next exactly when the next takes it.      *)
LEMMA Handshake ==
  ASSUME NEW i \in 1..PIPE_LATENCY
  PROVE  Entering(i) <=> pipeline_ready(i) /\ pipeline_valid[i - 1]
<1>1. PIPE_LATENCY \in Nat /\ i \in Nat /\ i # 0
  BY Stages
<1>2. ASSUME pipeline_valid[i - 1]
      PROVE  pipeline_ready(i - 1) <=> pipeline_ready(i)
  <2>1. \A k \in (i - 1)..(PIPE_LATENCY - 1) : k = i - 1 \/ k \in i..(PIPE_LATENCY - 1)
    BY <1>1
  <2>2. \A k \in i..(PIPE_LATENCY - 1) : k \in (i - 1)..(PIPE_LATENCY - 1)
    BY <1>1
  <2> QED
    BY <1>2, <2>1, <2>2 DEF pipeline_ready
<1> QED
  BY <1>1, <1>2 DEF Entering

(* A stage that is not ready keeps its word, and takes none.               *)
LEMMA StageHolds ==
  ASSUME NEW i \in Stage, ~pipeline_ready(i), Pipeline
  PROVE  /\ ~Entering(i) /\ ~Entering(i + 1)
         /\ pipeline_valid'[i] = pipeline_valid[i] /\ pipeline_data'[i] = pipeline_data[i]
<1>1. PIPE_LATENCY \in Nat /\ i \in Nat /\ i + 1 # 0 /\ (i + 1) - 1 = i
  BY Stages
<1>2. ~Entering(i)
  <2>1. CASE i = 0
    BY <2>1 DEF Entering, fifo_in_rd_en
  <2>2. CASE i # 0
    <3>1. i \in 1..PIPE_LATENCY
      BY <2>2, Stages
    <3> QED
      BY <3>1, Handshake
  <2> QED
    BY <2>1, <2>2
<1>3. ~Entering(i + 1)
  BY <1>1 DEF Entering
<1> QED
  BY <1>2, <1>3 DEF Pipeline

(* A ready stage gives the word it has, and holds the one that enters.     *)
LEMMA StageMoves ==
  ASSUME NEW i \in Stage, pipeline_ready(i), Pipeline
  PROVE  /\ Entering(i + 1) <=> pipeline_valid[i]
         /\ pipeline_valid'[i] <=> Entering(i)
         /\ Entering(i) =>
              pipeline_data'[i] = IF i = 0 THEN FifoIn!rd_data
                                  ELSE Operation(i, pipeline_data[i - 1])
<1>1. PIPE_LATENCY \in Nat /\ i \in Nat /\ i + 1 # 0 /\ (i + 1) - 1 = i
  BY Stages
<1>2. Entering(i + 1) <=> pipeline_valid[i]
  BY <1>1 DEF Entering
<1>3. CASE i = 0
  BY <1>2, <1>3 DEF Pipeline, Entering, fifo_in_rd_en
<1>4. CASE i # 0
  <2>1. i \in 1..PIPE_LATENCY
    BY <1>4, Stages
  <2>2. Entering(i) <=> pipeline_valid[i - 1]
    BY <2>1, Handshake
  <2> QED
    BY <1>2, <1>4, <2>2 DEF Pipeline
<1> QED
  BY <1>3, <1>4

(* Where the words are after an edge.                                      *)
Moved(pos) == [i \in 0..(PIPE_LATENCY + 1) |-> pos[i] + One(Entering(i))]

(* A stage still holds the word that has entered it and not the next.      *)
LEMMA StageCounts ==
  ASSUME Pipeline, PipeType, NEW pos \in [0..(PIPE_LATENCY + 1) -> Nat],
         NEW new, new = Moved(pos),
         NEW i \in Stage, pos[i] = pos[i + 1] + One(pipeline_valid[i])
  PROVE  new[i] = new[i + 1] + One(pipeline_valid'[i])
<1>1. i \in 0..(PIPE_LATENCY + 1) /\ i + 1 \in 0..(PIPE_LATENCY + 1)
  BY Stages
<1>2. PICK p \in Nat, q \in Nat : p = pos[i] /\ q = pos[i + 1]
  BY <1>1
<1>3. PICK a \in 0..1, b \in 0..1, c \in 0..1, d \in 0..1 :
        /\ a = One(Entering(i)) /\ b = One(Entering(i + 1))
        /\ c = One(pipeline_valid[i]) /\ d = One(pipeline_valid'[i])
  BY DEF One
<1>4. new[i] = p + a /\ new[i + 1] = q + b /\ p = q + c
  BY <1>1, <1>2, <1>3 DEF Moved
<1>5. CASE pipeline_ready(i)
  <2>1. b = c /\ d = a
    BY <1>3, <1>5, StageMoves DEF One
  <2> QED
    BY <1>3, <1>4, <2>1
<1>6. CASE ~pipeline_ready(i)
  <2>1. a = 0 /\ b = 0 /\ d = c
    BY <1>3, <1>6, StageHolds DEF One
  <2> QED
    BY <1>3, <1>4, <2>1
<1> QED
  BY <1>5, <1>6

(* No word is passed by the next.                                          *)
LEMMA StagesOrdered ==
  ASSUME PipeType, NEW pos \in [0..(PIPE_LATENCY + 1) -> Nat],
         NEW new, new = Moved(pos),
         \A i \in Stage : pos[i] = pos[i + 1] + One(pipeline_valid[i]),
         \A i, k \in 0..(PIPE_LATENCY + 1) : i <= k => pos[k] <= pos[i]
  PROVE  /\ new \in [0..(PIPE_LATENCY + 1) -> Nat]
         /\ \A i, k \in 0..(PIPE_LATENCY + 1) : i <= k => new[k] <= new[i]
<1>1. \A i \in 0..(PIPE_LATENCY + 1) :
        /\ pos[i] \in Nat /\ One(Entering(i)) \in 0..1
        /\ new[i] = pos[i] + One(Entering(i))
  BY DEF Moved, One
<1>2. new \in [0..(PIPE_LATENCY + 1) -> Nat]
  <2>1. \A i \in 0..(PIPE_LATENCY + 1) : pos[i] + One(Entering(i)) \in Nat
    BY <1>1
  <2> QED
    BY <2>1 DEF Moved
<1>3. ASSUME NEW i \in 0..(PIPE_LATENCY + 1), NEW k \in 0..(PIPE_LATENCY + 1), i < k
      PROVE  new[k] <= new[i]
  <2>1. /\ PIPE_LATENCY \in Nat /\ i \in Nat /\ k \in Nat /\ k # 0 /\ (k - 1) + 1 = k
        /\ k - 1 \in Stage /\ k - 1 \in 0..(PIPE_LATENCY + 1) /\ i <= k - 1 /\ k - 1 <= k
    BY <1>3, Stages
  <2>2. pos[k - 1] <= pos[i] /\ pos[k - 1] = pos[k] + One(pipeline_valid[k - 1])
    BY <2>1
  <2>3. PICK p \in Nat, q \in Nat, a \in 0..1, b \in 0..1, c \in 0..1 :
          /\ p = pos[i] /\ q = pos[k]
          /\ a = One(Entering(i)) /\ b = One(Entering(k)) /\ c = One(pipeline_valid[k - 1])
    <3>1. One(pipeline_valid[k - 1]) \in 0..1
      BY DEF One
    <3> QED
      BY <1>1, <3>1
  <2>4. b = 1 => c = 1
    BY <2>1, <2>3 DEF Entering, One
  <2>5. q + c <= p
    BY <2>2, <2>3
  <2>6. new[k] = q + b /\ new[i] = p + a
    BY <1>1, <2>3
  <2> QED
    BY <2>3, <2>4, <2>5, <2>6
<1>4. ASSUME NEW i \in 0..(PIPE_LATENCY + 1)
      PROVE  new[i] <= new[i]
  <2>1. new[i] \in Nat
    BY <1>2
  <2> QED
    BY <2>1
<1>5. ASSUME NEW i \in 0..(PIPE_LATENCY + 1), NEW k \in 0..(PIPE_LATENCY + 1), i <= k
      PROVE  new[k] <= new[i]
  <2>1. i = k \/ i < k
    BY <1>5, Stages
  <2> QED
    BY <1>3, <1>4, <2>1
<1> QED
  BY <1>2, <1>5

(* What a stage does to its word is what makes it the word of that stage.  *)
LEMMA OperationScales ==
  ASSUME NEW i \in 1..PIPE_LATENCY, NEW n \in Nat, ctrl_coeff = job.coeff
  PROVE  Operation(i, Scaled(i - 1)[n]) = Scaled(i)[n]
<1>1. PIPE_LATENCY \in Nat /\ i \in Nat /\ i >= 1
  BY Stages
<1>2. CASE i = 1
  <2>1. (i - 1 >= 1) = FALSE /\ (i - 1 >= 2) = FALSE /\ (i >= 1) = TRUE /\ (i >= 2) = FALSE
    BY <1>2
  <2>2. Scaled(i - 1)[n] = <<job.src + 4 * n, 0, FALSE>>
    BY <2>1, Zenon DEF Scaled
  <2>3. Scaled(i)[n] = <<job.src + 4 * n, job.coeff, FALSE>>
    BY <2>1, Zenon DEF Scaled
  <2>4. Operation(1, Scaled(i - 1)[n]) = <<job.src + 4 * n, job.coeff, FALSE>>
    <3>1. PICK a, d : a = job.src + 4 * n /\ d = Scaled(i - 1)[n]
      OBVIOUS
    <3>2. d = <<a, 0, FALSE>>
      BY <2>2, <3>1, Zenon
    <3>3. d[1] = a /\ d[3] = FALSE
      BY <3>2
    <3>4. Operation(1, d) = <<d[1], ctrl_coeff, d[3]>>
      BY DEF Operation
    <3> QED
      BY <3>1, <3>3, <3>4, Zenon
  <2> QED
    BY <1>2, <2>3, <2>4, Zenon
<1>3. CASE i = 2
  <2>1. (i - 1 >= 1) = TRUE /\ (i - 1 >= 2) = FALSE /\ (i >= 1) = TRUE /\ (i >= 2) = TRUE
    BY <1>3
  <2>2. Scaled(i - 1)[n] = <<job.src + 4 * n, job.coeff, FALSE>>
    BY <2>1, Zenon DEF Scaled
  <2>3. Scaled(i)[n] = <<job.src + 4 * n, job.coeff, TRUE>>
    BY <2>1, Zenon DEF Scaled
  <2>4. Operation(2, Scaled(i - 1)[n]) = <<job.src + 4 * n, job.coeff, TRUE>>
    <3>1. PICK a, c, d : a = job.src + 4 * n /\ c = job.coeff /\ d = Scaled(i - 1)[n]
      OBVIOUS
    <3>2. d = <<a, c, FALSE>>
      BY <2>2, <3>1, Zenon
    <3>3. d[1] = a /\ d[2] = c
      BY <3>2
    <3>4. Operation(2, d) = <<d[1], d[2], TRUE>>
      <4>1. 2 # 1
        OBVIOUS
      <4> QED
        BY <4>1, Zenon DEF Operation
    <3> QED
      BY <3>1, <3>3, <3>4, Zenon
  <2> QED
    BY <1>3, <2>3, <2>4, Zenon
<1>4. CASE i # 1 /\ i # 2
  <2>1. i - 1 >= 1 /\ i - 1 >= 2 /\ i >= 2
    BY <1>1, <1>4
  <2>2. Scaled(i - 1)[n] = Scaled(i)[n]
    BY <1>1, <2>1 DEF Scaled
  <2> QED
    BY <1>4, <2>2 DEF Operation
<1> QED
  BY <1>2, <1>3, <1>4

(* A stage holds the word of its number, kept or taken from before.        *)
LEMMA StageCarries ==
  ASSUME Pipeline, PipeType, ctrl_coeff = job.coeff, UNCHANGED job,
         NEW pos \in [0..(PIPE_LATENCY + 1) -> Nat], NEW new, new = Moved(pos),
         Linked(pos), Staged(pos),
         fifo_in_rd_en => FifoIn!rd_data = Scaled(0)[pos[0]]
  PROVE  Staged(new)'
<1> SUFFICES ASSUME NEW i \in Stage, pipeline_valid'[i]
             PROVE  pipeline_data'[i] = Scaled(i)[new[i + 1]]
  BY DEF Staged, Scaled
<1>1. /\ i \in 0..(PIPE_LATENCY + 1) /\ i + 1 \in 0..(PIPE_LATENCY + 1)
      /\ pos[i] \in Nat /\ pos[i + 1] \in Nat
      /\ new[i + 1] = pos[i + 1] + One(Entering(i + 1))
  <2>1. i \in 0..(PIPE_LATENCY + 1) /\ i + 1 \in 0..(PIPE_LATENCY + 1)
    BY Stages
  <2> QED
    BY <2>1 DEF Moved
<1>2. CASE ~pipeline_ready(i)
  <2>1. /\ ~Entering(i + 1)
        /\ pipeline_valid'[i] = pipeline_valid[i] /\ pipeline_data'[i] = pipeline_data[i]
    BY <1>2, StageHolds
  <2>2. new[i + 1] = pos[i + 1]
    BY <1>1, <2>1 DEF One
  <2> QED
    BY <2>1, <2>2 DEF Staged
<1>3. CASE pipeline_ready(i)
  <2>1. /\ Entering(i + 1) <=> pipeline_valid[i]
        /\ Entering(i)
        /\ pipeline_data'[i] = IF i = 0 THEN FifoIn!rd_data
                               ELSE Operation(i, pipeline_data[i - 1])
    BY <1>3, StageMoves
  <2>2. new[i + 1] = pos[i]
    <3>1. One(Entering(i + 1)) = One(pipeline_valid[i])
      BY <2>1 DEF One
    <3>2. pos[i] = pos[i + 1] + One(pipeline_valid[i])
      BY DEF Linked
    <3> QED
      BY <1>1, <3>1, <3>2
  <2>3. CASE i = 0
    BY <2>1, <2>2, <2>3 DEF Entering
  <2>4. CASE i # 0
    <3>1. i \in 1..PIPE_LATENCY /\ i - 1 \in Stage /\ (i - 1) + 1 = i
      BY <2>4, Stages
    <3>2. pipeline_valid[i - 1]
      BY <2>1, <2>4 DEF Entering
    <3>3. pipeline_data[i - 1] = Scaled(i - 1)[pos[i]]
      BY <3>1, <3>2 DEF Staged
    <3>4. Operation(i, Scaled(i - 1)[pos[i]]) = Scaled(i)[pos[i]]
      BY <1>1, <3>1, OperationScales
    <3> QED
      BY <2>1, <2>2, <2>4, <3>3, <3>4
  <2> QED
    BY <2>3, <2>4
<1> QED
  BY <1>2, <1>3

(* The registers of the stages keep their types.                           *)
LEMMA StagesTyped ==
  ASSUME Pipeline, PipeType, ctrl_coeff \in Int, FifoIn!rd_data \in Word
  PROVE  PipeType'
<1>1. Nothing \in Word
  <2>1. -1 \in Int /\ 0 \in Int /\ FALSE \in BOOLEAN
    OBVIOUS
  <2>2. <<-1, 0, FALSE>> \in Int \X Int \X BOOLEAN
    BY <2>1
  <2> QED
    BY <2>2 DEF Nothing, Raw, Word
<1>2. ASSUME NEW i \in Stage
      PROVE  /\ pipeline_valid'[i] \in BOOLEAN
             /\ pipeline_data'[i] \in Word
  <2>1. i # 0 => i - 1 \in Stage
    BY Stages
  <2>2. ASSUME NEW d \in Word PROVE Operation(i, d) \in Word
    <3>1. PICK x \in Int, y \in Int, z \in BOOLEAN : d = <<x, y, z>>
      BY <2>2 DEF Word
    <3> QED
      BY <3>1 DEF Operation, Word
  <2>3. pipeline_valid'[i] \in BOOLEAN
    BY <2>1 DEF Pipeline, PipeType, FifoIn!empty
  <2>4. pipeline_data'[i] \in Word
    <3>1. pipeline_data'[i] =
            IF ~pipeline_ready(i) THEN pipeline_data[i]
            ELSE IF i = 0 THEN FifoIn!rd_data
            ELSE IF pipeline_valid[i - 1] THEN Operation(i, pipeline_data[i - 1])
            ELSE Nothing
      BY DEF Pipeline
    <3>2. pipeline_data[i] \in Word
      BY DEF PipeType
    <3>3. i # 0 => Operation(i, pipeline_data[i - 1]) \in Word
      BY <2>1, <2>2 DEF PipeType
    <3> QED
      BY <1>1, <3>1, <3>2, <3>3
  <2> QED
    BY <2>3, <2>4
<1>3. \A i \in Stage : pipeline_valid'[i] \in BOOLEAN /\ pipeline_data'[i] \in Word
  BY <1>2
<1>4. /\ pipeline_valid' = [i \in Stage |-> pipeline_valid'[i]]
      /\ pipeline_data' = [i \in Stage |-> pipeline_data'[i]]
  BY DEF Pipeline
<1> QED
  BY <1>3, <1>4 DEF PipeType, Stage
-----------------------------------------------------------------------------
(* The two rings at an edge.                                               *)

(* A word and its place in Word.                                           *)
LEMMA WordOf ==
  ASSUME NEW a \in Int
  PROVE  Raw(a) \in Word
<1>1. 0 \in Int /\ FALSE \in BOOLEAN
  OBVIOUS
<1>2. <<a, 0, FALSE>> \in Int \X Int \X BOOLEAN
  BY <1>1
<1> QED
  BY <1>2 DEF Raw, Word

(* The read data are those of the next address: the input FIFO goes on     *)
(* holding the words of the source in order.                               *)
LEMMA FirstRing ==
  ASSUME SoftType, Ring(in_mem, in_wr_ptr, in_rd_ptr, fifo_in_used, Word),
         NEW n \in Nat, Holds(in_mem, in_rd_ptr, fifo_in_used, Scaled(0), n),
         NEW in \in EngineInputs,
         FifoIn!FifoEdge(in.rm_readdatavalid,
                         IF in.rm_readdatavalid THEN Raw(Head(owed)) ELSE Nothing, fifo_in_rd_en),
         in.rm_readdatavalid =>
           Head(owed) = job.src + 4 * (n + fifo_in_used) /\ fifo_in_used < FIFO_DEPTH
  PROVE  /\ Ring(in_mem', in_wr_ptr', in_rd_ptr', fifo_in_used', Word)
         /\ Holds(in_mem', in_rd_ptr', fifo_in_used', Scaled(0), n + One(fifo_in_rd_en))
         /\ fifo_in_rd_en => FifoIn!rd_data = Scaled(0)[n]
         /\ fifo_in_used' = fifo_in_used + Gets(in) - One(fifo_in_rd_en)
<1>1. job.src \in Nat /\ FIFO_DEPTH \in Nat
  BY Sizes
<1>2. PICK u \in Nat : u = fifo_in_used /\ u <= FIFO_DEPTH
  <2>1. fifo_in_used \in 0..FIFO_DEPTH
    BY DEF Ring
  <2> QED
    BY <1>1, <2>1
<1>3. PICK E : E = Scaled(0)
  OBVIOUS
<1>4. PICK wr \in BOOLEAN, rd \in BOOLEAN : wr = in.rm_readdatavalid /\ rd = fifo_in_rd_en
  BY DEF EngineInputs, fifo_in_rd_en
<1>5. PICK x : x = IF in.rm_readdatavalid THEN Raw(Head(owed)) ELSE Nothing
  OBVIOUS
<1>6. wr => u < FIFO_DEPTH /\ x = E[n + u]
  <2> SUFFICES ASSUME wr PROVE u < FIFO_DEPTH /\ x = E[n + u]
    OBVIOUS
  <2>1. x = Raw(Head(owed)) /\ Head(owed) = job.src + 4 * (n + u) /\ u < FIFO_DEPTH
    BY <1>2, <1>4, <1>5
  <2>2. n + u \in Nat /\ (0 >= 1) = FALSE /\ (0 >= 2) = FALSE
    BY <1>2
  <2>3. E[n + u] = <<job.src + 4 * (n + u), 0, FALSE>>
    BY <1>3, <2>2, Zenon DEF Scaled
  <2> QED
    BY <2>1, <2>3 DEF Raw
<1>7. x \in Word
  <2>1. CASE wr
    <3>1. job.src + 4 * (n + u) \in Int
      BY <1>1, <1>2
    <3>2. Head(owed) \in Int
      BY <1>2, <1>4, <2>1, <3>1
    <3> QED
      BY <1>4, <1>5, <2>1, <3>2, WordOf
  <2>2. CASE ~wr
    <3>1. -1 \in Int
      OBVIOUS
    <3> QED
      BY <1>4, <1>5, <2>2, <3>1, WordOf DEF Nothing
  <2> QED
    BY <2>1, <2>2
<1>8. rd => u > 0
  <2>1. rd => u # 0
    BY <1>2, <1>4, Zenon DEF fifo_in_rd_en, FifoIn!empty
  <2> QED
    BY <1>2, <2>1
<1>9. PICK m2, q2, p2, u2 :
        m2 = in_mem' /\ q2 = in_wr_ptr' /\ p2 = in_rd_ptr' /\ u2 = fifo_in_used'
  OBVIOUS
<1>10. RingStep(in_mem, in_wr_ptr, in_rd_ptr, u, wr, x, rd, m2, q2, p2, u2)
  <2>1. FifoIn!FifoEdge(wr, x, rd)
    BY <1>4, <1>5
  <2>2. (wr /\ ~FifoIn!full <=> wr) /\ (rd /\ ~FifoIn!empty <=> rd)
    BY <1>2, <1>6, <1>8 DEF FifoIn!full, FifoIn!empty
  <2> QED
    BY <1>2, <1>9, <2>1, <2>2 DEF RingStep, FifoIn!FifoEdge, FifoIn!Successor, Next, One
<1>11. /\ Ring(m2, q2, p2, u2, Word)
       /\ Holds(m2, p2, u2, E, n + One(rd))
       /\ rd => in_mem[in_rd_ptr] = E[n]
  <2>1. Ring(in_mem, in_wr_ptr, in_rd_ptr, u, Word) /\ Holds(in_mem, in_rd_ptr, u, E, n)
    BY <1>2, <1>3
  <2>2. Orderly(E, n, u, wr, x, rd)
    BY <1>6, <1>8 DEF Orderly
  <2>3. n \in Nat /\ x \in Word
    BY <1>7
  <2> QED
    BY <1>10, <2>1, <2>2, <2>3, RingMoves
<1>12. u2 = u + Gets(in) - One(fifo_in_rd_en)
  BY <1>4, <1>10, Zenon DEF RingStep, Gets
<1> QED
  BY <1>2, <1>3, <1>4, <1>9, <1>11, <1>12 DEF FifoIn!rd_data

(* The last stage gives the next word: the output FIFO goes on holding the *)
(* finished words in order.                                                *)
LEMMA LastRing ==
  ASSUME SoftType, Ring(out_mem, out_wr_ptr, out_rd_ptr, fifo_out_used, Word), PipeType,
         NEW n \in Nat, Holds(out_mem, out_rd_ptr, fifo_out_used, Scaled(PIPE_LATENCY), n),
         NEW in \in EngineInputs,
         FifoOut!FifoEdge(fifo_out_wr_en, pipeline_data[PIPE_LATENCY], fifo_rd_en(in)),
         pipeline_valid[PIPE_LATENCY] =>
           pipeline_data[PIPE_LATENCY] = Scaled(PIPE_LATENCY)[n + fifo_out_used],
         fifo_rd_en(in) => fifo_out_used > 0
  PROVE  /\ Ring(out_mem', out_wr_ptr', out_rd_ptr', fifo_out_used', Word)
         /\ Holds(out_mem', out_rd_ptr', fifo_out_used', Scaled(PIPE_LATENCY), n + Beat(in))
         /\ fifo_rd_en(in) => FifoOut!rd_data = Scaled(PIPE_LATENCY)[n]
         /\ fifo_out_used' = fifo_out_used + One(fifo_out_wr_en) - Beat(in)
<1>1. FIFO_DEPTH \in Nat
  BY Sizes
<1>2. PICK u \in Nat : u = fifo_out_used /\ u <= FIFO_DEPTH
  <2>1. fifo_out_used \in 0..FIFO_DEPTH
    BY DEF Ring
  <2> QED
    BY <1>1, <2>1
<1>3. PICK E : E = Scaled(PIPE_LATENCY)
  OBVIOUS
<1>4. PICK wr, rd : wr = fifo_out_wr_en /\ rd = fifo_rd_en(in)
  OBVIOUS
<1>5. PICK x \in Word : x = pipeline_data[PIPE_LATENCY]
  BY Stages DEF PipeType
<1>6. wr => u < FIFO_DEPTH /\ x = E[n + u]
  <2> SUFFICES ASSUME wr PROVE u < FIFO_DEPTH /\ x = E[n + u]
    OBVIOUS
  <2>1. pipeline_valid[PIPE_LATENCY] /\ pipeline_ready(PIPE_LATENCY)
    BY <1>4 DEF fifo_out_wr_en
  <2>2. u # FIFO_DEPTH
    <3>1. \A k \in PIPE_LATENCY..(PIPE_LATENCY - 1) : FALSE
      BY Stages
    <3> QED
      BY <1>2, <2>1, <3>1 DEF pipeline_ready, FifoOut!full
  <2> QED
    BY <1>1, <1>2, <1>3, <1>5, <2>1, <2>2
<1>8. rd => u > 0
  BY <1>2, <1>4
<1>9. PICK m2, q2, p2, u2 :
        m2 = out_mem' /\ q2 = out_wr_ptr' /\ p2 = out_rd_ptr' /\ u2 = fifo_out_used'
  OBVIOUS
<1>10. RingStep(out_mem, out_wr_ptr, out_rd_ptr, u, wr, x, rd, m2, q2, p2, u2)
  <2>1. FifoOut!FifoEdge(wr, x, rd)
    BY <1>4, <1>5
  <2>2. (wr /\ ~FifoOut!full <=> wr) /\ (rd /\ ~FifoOut!empty <=> rd)
    BY <1>2, <1>6, <1>8 DEF FifoOut!full, FifoOut!empty
  <2> QED
    BY <1>2, <1>9, <2>1, <2>2 DEF RingStep, FifoOut!FifoEdge, FifoOut!Successor, Next, One
<1>11. /\ Ring(m2, q2, p2, u2, Word)
       /\ Holds(m2, p2, u2, E, n + One(rd))
       /\ rd => out_mem[out_rd_ptr] = E[n]
  <2>1. Ring(out_mem, out_wr_ptr, out_rd_ptr, u, Word) /\ Holds(out_mem, out_rd_ptr, u, E, n)
    BY <1>2, <1>3
  <2>2. Orderly(E, n, u, wr, x, rd)
    BY <1>6, <1>8 DEF Orderly
  <2>3. n \in Nat /\ x \in Word
    BY <1>5
  <2> QED
    BY <1>10, <2>1, <2>2, <2>3, RingMoves
<1>12. u2 = u + One(fifo_out_wr_en) - Beat(in) /\ One(rd) = Beat(in)
  BY <1>4, <1>10, Zenon DEF RingStep, Beat
<1> QED
  BY <1>2, <1>3, <1>4, <1>9, <1>11, <1>12 DEF FifoOut!rd_data
-----------------------------------------------------------------------------
(* The edges of a transfer, as in CopyProofs.                              *)

(* Between two memory ports that are at rest an empty path stays empty.    *)
LEMMA EmptyStays ==
  ASSUME PathType, ctrl_coeff \in Int, PipeEmpty,
         NEW w, NEW in \in EngineInputs, ScaleEdge(w, in),
         ~in.rm_readdatavalid, ~fifo_rd_en(in)
  PROVE  /\ UNCHANGED <<in_mem, in_wr_ptr, in_rd_ptr, fifo_in_used,
                        out_mem, out_wr_ptr, out_rd_ptr, fifo_out_used>>
         /\ PipeType' /\ PipeEmpty'
<1>1. /\ fifo_in_used = 0 /\ fifo_out_used = 0 /\ PipeType
      /\ \A i \in Stage : ~pipeline_valid[i]
  BY DEF PipeEmpty, PathType
<1>2. ~fifo_in_rd_en
  BY <1>1 DEF fifo_in_rd_en, FifoIn!empty
<1>3. ~fifo_out_wr_en
  BY <1>1, Stages DEF fifo_out_wr_en
<1>4. UNCHANGED <<in_mem, in_wr_ptr, in_rd_ptr, fifo_in_used>>
  <2>1. PICK x : FifoIn!FifoEdge(in.rm_readdatavalid, x, fifo_in_rd_en)
    BY DEF ScaleEdge
  <2> QED
    BY <1>1, <1>2, <2>1 DEF FifoIn!FifoEdge
<1>5. UNCHANGED <<out_mem, out_wr_ptr, out_rd_ptr, fifo_out_used>>
  <2>1. PICK x : FifoOut!FifoEdge(fifo_out_wr_en, x, fifo_rd_en(in))
    BY DEF ScaleEdge
  <2> QED
    BY <1>1, <1>3, <2>1 DEF FifoOut!FifoEdge
<1>6. ASSUME NEW i \in Stage PROVE ~pipeline_valid'[i]
  <2>1. i # 0 => i - 1 \in Stage
    BY Stages
  <2> QED
    BY <1>1, <2>1 DEF ScaleEdge, Pipeline, FifoIn!empty
<1>7. PipeType'
  <2>1. FifoIn!rd_data \in Word
    BY DEF PathType, Ring, FifoIn!rd_data
  <2> QED
    BY <1>1, <2>1, StagesTyped DEF ScaleEdge
<1> QED
  BY <1>1, <1>4, <1>5, <1>6, <1>7 DEF PipeEmpty

(* An engine at rest that is not started stays at rest, and nothing moves; *)
(* at the edge of the done pulse both masters go to rest.                  *)
LEMMA ScaleRestEdge ==
  ASSUME PathType, ctrl_coeff \in Int, MastersRest \/ MastersFinish, PipeEmpty, ~ctrl_start,
         NEW w, NEW in \in EngineInputs, ScaleEdge(w, in)
  PROVE  MastersRest' /\ PipeEmpty' /\ PathType' /\ UNCHANGED <<owed, written>>
<1>1. PICK u, v, x : ReadMaster(u, in) /\ WriteMaster(v, in) /\ MemoryPorts(in, x)
  BY DEF ScaleEdge
<1>2. /\ ~in.rm_readdatavalid /\ ~fifo_rd_en(in)
      /\ MastersRest' /\ UNCHANGED <<owed, written>>
  BY <1>1, RestMoves, FinishMoves
<1>3. /\ UNCHANGED <<in_mem, in_wr_ptr, in_rd_ptr, fifo_in_used,
                     out_mem, out_wr_ptr, out_rd_ptr, fifo_out_used>>
      /\ PipeType' /\ PipeEmpty'
  BY <1>2, EmptyStays
<1> QED
  BY <1>2, <1>3 DEF PathType

(* A start at rest begins with all bytes still to be commanded.            *)
LEMMA ScaleStartEdge ==
  ASSUME ScaleType, MastersRest, PipeEmpty, ctrl_start, Params, UNCHANGED job,
         NEW w, NEW in \in EngineInputs, ScaleEdge(w, in)
  PROVE  Stored(Scaled(PIPE_LATENCY))' /\ ScaleWorking' /\ PathType'
<1>1. SoftType /\ PathType /\ ctrl_coeff \in Int
  BY DEF ScaleType
<1>2. PICK u, v, x : ReadMaster(u, in) /\ WriteMaster(v, in) /\ MemoryPorts(in, x)
  BY DEF ScaleEdge
<1>3. /\ ~in.rm_readdatavalid /\ ~fifo_rd_en(in)
      /\ internal_done_pulse' = FALSE /\ owed' = <<>> /\ written' = <<>>
      /\ Reading(0)' /\ Writing(0)' /\ Accounted(0)' /\ OwedFrom(0)'
      /\ \A E : Stored(E)'
  BY <1>1, <1>2, StartMoves
<1>4. /\ UNCHANGED <<in_mem, in_wr_ptr, in_rd_ptr, fifo_in_used,
                     out_mem, out_wr_ptr, out_rd_ptr, fifo_out_used>>
      /\ PipeType' /\ PipeEmpty'
  BY <1>1, <1>3, EmptyStays
<1>5. Len(written') = 0 /\ owed' \in Seq(Int) /\ written' \in Seq(Int \X Word)
  BY <1>3, EmptySeq
<1>6. PathType'
  BY <1>1, <1>4, <1>5 DEF PathType
<1>7. /\ fifo_in_used' = 0 /\ fifo_out_used' = 0
      /\ \A i \in Stage : ~pipeline_valid'[i]
  BY <1>4 DEF PipeEmpty
<1>8. Stored(Scaled(PIPE_LATENCY))'
  BY <1>3, <1>5 DEF Stored
<1>9. Flowing'
  <2>1. PICK pos : pos = [i \in 0..(PIPE_LATENCY + 1) |-> 0]
    OBVIOUS
  <2>2. /\ pos \in [0..(PIPE_LATENCY + 1) -> Nat]
        /\ \A i \in 0..(PIPE_LATENCY + 1) : pos[i] = 0
    BY <2>1
  <2>3. /\ 0 \in 0..(PIPE_LATENCY + 1) /\ PIPE_LATENCY + 1 \in 0..(PIPE_LATENCY + 1)
        /\ \A i \in Stage : i \in 0..(PIPE_LATENCY + 1) /\ i + 1 \in 0..(PIPE_LATENCY + 1)
    BY Stages
  <2>4. Counted(pos)'
    <3>1. \A i \in Stage : One(pipeline_valid'[i]) = 0
      BY <1>7 DEF One
    <3>2. \A i \in Stage : pos[i] = pos[i + 1] + One(pipeline_valid'[i])
      BY <2>2, <2>3, <3>1
    <3>3. \A i, k \in 0..(PIPE_LATENCY + 1) : i <= k => pos[k] <= pos[i]
      BY <2>2
    <3>4. pos[PIPE_LATENCY + 1] = Len(written') + fifo_out_used'
      BY <1>5, <1>7, <2>2, <2>3
    <3> QED
      BY <3>2, <3>3, <3>4 DEF Counted, Linked
  <2>5. Carried(pos)'
    <3>1. pos[0] + fifo_in_used' = 0
      BY <1>7, <2>2, <2>3
    <3>2. Accounted(pos[0] + fifo_in_used)' /\ OwedFrom(pos[0] + fifo_in_used)'
      BY <1>3, <3>1
    <3>3. /\ Holds(in_mem, in_rd_ptr, fifo_in_used, Scaled(0), pos[0])'
          /\ Holds(out_mem, out_rd_ptr, fifo_out_used, Scaled(PIPE_LATENCY), Len(written))'
      BY <1>7 DEF Holds
    <3> QED
      BY <1>7, <3>2, <3>3 DEF Carried, Staged
  <2> QED
    BY <2>2, <2>4, <2>5 DEF Flowing
<1>10. ScaleWorking'
  BY <1>3, <1>7, <1>9 DEF ScaleWorking
<1> QED
  BY <1>6, <1>8, <1>10

(* An edge at work goes on, or raises the done pulse when all is written.  *)
LEMMA ScaleWorkEdge ==
  ASSUME ScaleType, Stored(Scaled(PIPE_LATENCY)), ScaleWorking, ctrl_coeff = job.coeff,
         ~ctrl_start, Params, UNCHANGED job,
         NEW w, NEW in \in EngineInputs, ScaleEdge(w, in)
  PROVE  /\ Stored(Scaled(PIPE_LATENCY))' /\ PathType'
         /\ ScaleWorking' \/ (MastersFinish' /\ PipeEmpty')
<1>1. /\ internal_done_pulse = FALSE /\ Reading(fifo_in_used) /\ Writing(fifo_out_used)
      /\ ReadMaster(fifo_in_used, in) /\ WriteMaster(fifo_out_used, in)
      /\ MemoryPorts(in, FifoOut!rd_data) /\ Pipeline
      /\ FifoIn!FifoEdge(in.rm_readdatavalid,
                     IF in.rm_readdatavalid THEN Raw(Head(owed)) ELSE Nothing, fifo_in_rd_en)
      /\ FifoOut!FifoEdge(fifo_out_wr_en, pipeline_data[PIPE_LATENCY], fifo_rd_en(in))
  BY DEF ScaleWorking, ScaleEdge
<1>2. /\ SoftType /\ ctrl_coeff \in Int /\ PipeType
      /\ owed \in Seq(Int) /\ written \in Seq(Int \X Word)
      /\ Ring(in_mem, in_wr_ptr, in_rd_ptr, fifo_in_used, Word)
      /\ Ring(out_mem, out_wr_ptr, out_rd_ptr, fifo_out_used, Word)
  BY DEF ScaleType, PathType
<1>3. PICK pos \in [0..(PIPE_LATENCY + 1) -> Nat] : Counted(pos) /\ Carried(pos)
  BY DEF ScaleWorking, Flowing
<1>4. /\ \A i \in Stage : pos[i] = pos[i + 1] + One(pipeline_valid[i])
      /\ \A i, k \in 0..(PIPE_LATENCY + 1) : i <= k => pos[k] <= pos[i]
      /\ Linked(pos) /\ Staged(pos)
  BY <1>3 DEF Counted, Carried, Linked
<1>5. PICK new : new = Moved(pos)
  OBVIOUS
<1>6. /\ new \in [0..(PIPE_LATENCY + 1) -> Nat]
      /\ \A i \in Stage : new[i] = new[i + 1] + One(pipeline_valid'[i])
      /\ \A i, k \in 0..(PIPE_LATENCY + 1) : i <= k => new[k] <= new[i]
  <2>1. pos \in [0..(PIPE_LATENCY + 1) -> Nat]
    BY <1>3
  <2>2. ASSUME NEW i \in Stage PROVE new[i] = new[i + 1] + One(pipeline_valid'[i])
    <3>1. pos[i] = pos[i + 1] + One(pipeline_valid[i])
      BY <1>4
    <3> QED
      BY <1>1, <1>2, <1>5, <2>1, <3>1, StageCounts
  <2> QED
    BY <1>2, <1>4, <1>5, <2>1, <2>2, StagesOrdered
<1>7. /\ 0 \in 0..(PIPE_LATENCY + 1) /\ PIPE_LATENCY + 1 \in 0..(PIPE_LATENCY + 1)
      /\ 0 <= PIPE_LATENCY + 1 /\ PIPE_LATENCY + 1 # 0 /\ (PIPE_LATENCY + 1) - 1 = PIPE_LATENCY
      /\ PIPE_LATENCY \in Stage
  BY Stages
<1>8. PICK u \in Nat, v \in Nat, L \in Nat, p \in Nat, q \in Nat :
        /\ u = fifo_in_used /\ v = fifo_out_used /\ L = Len(written)
        /\ p = pos[0] /\ q = pos[PIPE_LATENCY + 1] /\ q = L + v
  <2>1. fifo_in_used \in Nat /\ fifo_out_used \in Nat /\ Len(written) \in Nat
    <3>1. fifo_in_used \in 0..FIFO_DEPTH /\ fifo_out_used \in 0..FIFO_DEPTH
      BY <1>2 DEF Ring
    <3>2. FIFO_DEPTH \in Nat
      BY <1>2, Sizes
    <3>3. Len(written) \in Nat
      BY <1>2, LenProperties
    <3> QED
      BY <3>1, <3>2, <3>3
  <2>2. pos[0] \in Nat /\ pos[PIPE_LATENCY + 1] \in Nat
    BY <1>3, <1>7
  <2>3. pos[PIPE_LATENCY + 1] = Len(written) + fifo_out_used
    BY <1>3 DEF Counted
  <2> QED
    BY <2>1, <2>2, <2>3
<1>9. PICK n \in Nat : n = p + u
  BY <1>8
<1>10. Reading(u) /\ Writing(v) /\ Accounted(n) /\ OwedFrom(n)
  <2>1. Accounted(pos[0] + fifo_in_used) /\ OwedFrom(pos[0] + fifo_in_used)
    BY <1>3 DEF Carried
  <2> QED
    BY <1>1, <1>8, <1>9, <2>1, Zenon
<1>11. PICK d : d = FifoOut!rd_data
  OBVIOUS
<1>12. ReadMaster(u, in) /\ WriteMaster(v, in) /\ MemoryPorts(in, d)
  BY <1>1, <1>8, <1>11
<1>13. /\ Gets(in) \in 0..1 /\ (in.rm_readdatavalid <=> Gets(in) = 1)
       /\ in.rm_readdatavalid =>
            owed # <<>> /\ Head(owed) = job.src + 4 * n /\ u < FIFO_DEPTH
       /\ owed' \in Seq(Int)
       /\ \A m \in Nat : m = n + Gets(in) => Accounted(m)' /\ OwedFrom(m)'
       /\ \A k \in Nat : k <= u + Gets(in) => Reading(k)'
  BY <1>1, <1>2, <1>10, <1>12, Delivery
<1>14. fifo_rd_en(in) => v > 0
  BY <1>2, <1>10, <1>12, WriteStep
<1>15. /\ Ring(in_mem', in_wr_ptr', in_rd_ptr', fifo_in_used', Word)
       /\ Holds(in_mem', in_rd_ptr', fifo_in_used', Scaled(0), p + One(fifo_in_rd_en))
       /\ fifo_in_rd_en => FifoIn!rd_data = Scaled(0)[p]
       /\ fifo_in_used' = fifo_in_used + Gets(in) - One(fifo_in_rd_en)
  <2>1. Holds(in_mem, in_rd_ptr, fifo_in_used, Scaled(0), p)
    BY <1>3, <1>8 DEF Carried
  <2>2. in.rm_readdatavalid =>
          Head(owed) = job.src + 4 * (p + fifo_in_used) /\ fifo_in_used < FIFO_DEPTH
    BY <1>8, <1>9, <1>13
  <2>3. p \in Nat
    BY <1>8
  <2> QED
    BY <1>1, <1>2, <2>1, <2>2, <2>3, FirstRing
<1>16. /\ Ring(out_mem', out_wr_ptr', out_rd_ptr', fifo_out_used', Word)
       /\ Holds(out_mem', out_rd_ptr', fifo_out_used', Scaled(PIPE_LATENCY), L + Beat(in))
       /\ fifo_rd_en(in) => FifoOut!rd_data = Scaled(PIPE_LATENCY)[L]
       /\ fifo_out_used' = fifo_out_used + One(fifo_out_wr_en) - Beat(in)
  <2>1. Holds(out_mem, out_rd_ptr, fifo_out_used, Scaled(PIPE_LATENCY), L)
    BY <1>3, <1>8 DEF Carried
  <2>2. pipeline_valid[PIPE_LATENCY] =>
          pipeline_data[PIPE_LATENCY] = Scaled(PIPE_LATENCY)[L + fifo_out_used]
    BY <1>4, <1>7, <1>8 DEF Staged
  <2>3. L \in Nat /\ (fifo_rd_en(in) => fifo_out_used > 0)
    BY <1>8, <1>14
  <2> QED
    BY <1>1, <1>2, <2>1, <2>2, <2>3, LastRing
<1>17. PICK E : E = Scaled(PIPE_LATENCY) /\ E = Scaled(PIPE_LATENCY)'
  BY DEF Scaled
<1>18. /\ Beat(in) \in 0..1 /\ (fifo_rd_en(in) <=> Beat(in) = 1)
       /\ written' \in Seq(Int \X Word) /\ Len(written') = Len(written) + Beat(in)
       /\ Stored(E)'
       /\ \/ /\ wm_fsm' = "W_IDLE" /\ wm_write' = FALSE /\ internal_done_pulse' = TRUE
             /\ AllWritten'
          \/ /\ internal_done_pulse' = FALSE
             /\ \A k \in Nat : k >= v - Beat(in) => Writing(k)'
  <2>1. d \in Word
    BY <1>2, <1>11 DEF Ring, FifoOut!rd_data
  <2>2. fifo_rd_en(in) => d = E[Len(written)]
    BY <1>8, <1>11, <1>16, <1>17
  <2>3. Stored(E)
    BY <1>17
  <2> QED
    BY <1>2, <1>10, <1>12, <2>1, <2>2, <2>3, Storing
<1>19. PICK g \in 0..1, b \in 0..1, r \in 0..1, e \in 0..1 :
         /\ g = Gets(in) /\ b = Beat(in)
         /\ r = One(fifo_in_rd_en) /\ e = One(fifo_out_wr_en)
  BY <1>13, <1>18 DEF One
<1>20. PICK u2 \in Nat, v2 \in Nat : u2 = fifo_in_used' /\ v2 = fifo_out_used'
  <2>1. FIFO_DEPTH \in Nat
    BY <1>2, Sizes
  <2> QED
    BY <1>15, <1>16, <2>1 DEF Ring
<1>21. PICK p2 \in Nat, q2 \in Nat : p2 = new[0] /\ q2 = new[PIPE_LATENCY + 1]
  BY <1>6, <1>7
<1>22. p2 = p + r /\ q2 = q + e
  <2>1. new[0] = pos[0] + One(Entering(0))
    BY <1>5, <1>7 DEF Moved
  <2>2. new[PIPE_LATENCY + 1] = pos[PIPE_LATENCY + 1] + One(Entering(PIPE_LATENCY + 1))
    BY <1>5, <1>7 DEF Moved
  <2>3. One(Entering(0)) = r
    BY <1>19 DEF Entering
  <2>4. One(Entering(PIPE_LATENCY + 1)) = e
    BY <1>7, <1>19 DEF Entering, fifo_out_wr_en, One
  <2> QED
    BY <1>8, <1>21, <2>1, <2>2, <2>3, <2>4
<1>23. u2 = u + g - r /\ v2 = v + e - b /\ Len(written') = L + b
  BY <1>8, <1>15, <1>16, <1>18, <1>19, <1>20
<1>24. PICK L2 \in Nat : L2 = Len(written')
  BY <1>8, <1>19, <1>23
<1>25. p2 + u2 = n + g /\ q2 = L2 + v2 /\ u2 <= u + g /\ v2 >= v - b /\ q2 <= p2
  <2>1. q2 <= p2
    BY <1>6, <1>7, <1>21
  <2>2. /\ u \in Nat /\ v \in Nat /\ L \in Nat /\ p \in Nat /\ q \in Nat /\ n \in Nat
        /\ u2 \in Nat /\ v2 \in Nat /\ p2 \in Nat /\ q2 \in Nat /\ L2 \in Nat
        /\ g \in 0..1 /\ b \in 0..1 /\ r \in 0..1 /\ e \in 0..1
    BY <1>8, <1>9, <1>19, <1>20, <1>21, <1>24
  <2>3. /\ n = p + u /\ q = L + v /\ p2 = p + r /\ q2 = q + e
        /\ u2 = u + g - r /\ v2 = v + e - b /\ L2 = L + b
    BY <1>8, <1>9, <1>22, <1>23, <1>24
  <2>4. p2 + u2 = n + g /\ q2 = L2 + v2
    BY <2>2, <2>3
  <2>5. u2 <= u + g /\ v2 >= v - b
    BY <2>2, <2>3
  <2> QED
    BY <2>1, <2>4, <2>5
<1>26. PathType'
  BY <1>2, <1>13, <1>15, <1>16, <1>18, StagesTyped, <1>1 DEF PathType, FifoIn!rd_data, Ring
<1>27. Accounted(p2 + u2)' /\ OwedFrom(p2 + u2)' /\ Reading(u2)'
  <2>1. p2 + u2 \in Nat /\ p2 + u2 = n + Gets(in) /\ u2 \in Nat /\ u2 <= u + Gets(in)
    <3>1. p2 \in Nat /\ u2 \in Nat /\ g = Gets(in)
      BY <1>19, <1>20, <1>21
    <3>2. p2 + u2 = n + Gets(in) /\ u2 <= u + Gets(in)
      BY <1>25, <3>1, Zenon
    <3> QED
      BY <3>1, <3>2
  <2> QED
    BY <1>13, <2>1, Zenon
<1>28. Stored(Scaled(PIPE_LATENCY))'
  BY <1>17, <1>18 DEF Stored
<1>29. CASE internal_done_pulse' = FALSE /\ \A k \in Nat : k >= v - Beat(in) => Writing(k)'
  <2>1. Writing(v2)'
    BY <1>19, <1>20, <1>25, <1>29, Zenon
  <2>2. Counted(new)'
    BY <1>6, <1>20, <1>21, <1>24, <1>25 DEF Counted, Linked
  <2>3. Carried(new)'
    <3>1. Scaled(0)' = Scaled(0) /\ \A i \in Stage : Scaled(i)' = Scaled(i)
      BY DEF Scaled
    <3>2. Staged(new)'
      <4>1. pos \in [0..(PIPE_LATENCY + 1) -> Nat]
        BY <1>3
      <4>2. fifo_in_rd_en => FifoIn!rd_data = Scaled(0)[pos[0]]
        BY <1>8, <1>15
      <4> QED
        BY <1>1, <1>2, <1>4, <1>5, <4>1, <4>2, StageCarries
    <3>3. Holds(in_mem', in_rd_ptr', fifo_in_used', Scaled(0), new[0])
      BY <1>15, <1>19, <1>21, <1>22
    <3>4. Holds(out_mem', out_rd_ptr', fifo_out_used', Scaled(PIPE_LATENCY), Len(written'))
      BY <1>16, <1>19, <1>23
    <3>5. Accounted(new[0] + fifo_in_used)' /\ OwedFrom(new[0] + fifo_in_used)'
      BY <1>20, <1>21, <1>27
    <3>6. /\ Holds(in_mem, in_rd_ptr, fifo_in_used, Scaled(0), new[0])'
          /\ Holds(out_mem, out_rd_ptr, fifo_out_used, Scaled(PIPE_LATENCY), Len(written))'
      BY <1>7, <3>1, <3>3, <3>4 DEF Holds
    <3> QED
      BY <3>1, <3>2, <3>5, <3>6 DEF Carried
  <2>4. Flowing'
    BY <1>6, <2>2, <2>3 DEF Flowing
  <2>5. ScaleWorking'
    BY <1>20, <1>27, <1>29, <2>1, <2>4 DEF ScaleWorking
  <2> QED
    BY <1>26, <1>28, <2>5
<1>30. CASE /\ wm_fsm' = "W_IDLE" /\ wm_write' = FALSE /\ internal_done_pulse' = TRUE
            /\ AllWritten'
  <2>1. Len(written') \in Nat /\ p2 + u2 \in Nat /\ p2 + u2 >= Len(written')
    BY <1>20, <1>21, <1>24, <1>25
  <2>2. /\ p2 + u2 = Len(written')
        /\ rm_state' = "WAIT_FIFO" /\ ~rm_read' /\ read_remaining_len' = 0
        /\ owed' = <<>> /\ pending_reads' = 0
    BY <1>13, <1>20, <1>27, <1>30, <2>1, NothingLeft
  <2>3. u2 = 0 /\ v2 = 0 /\ p2 = q2
    BY <1>20, <1>21, <1>24, <1>25, <2>2
  <2>4. ASSUME NEW i \in Stage PROVE ~pipeline_valid'[i]
    <3>1. /\ i \in 0..(PIPE_LATENCY + 1) /\ i + 1 \in 0..(PIPE_LATENCY + 1)
          /\ 0 <= i /\ i + 1 <= PIPE_LATENCY + 1
      BY Stages
    <3>2. PICK x \in Nat, y \in Nat : x = new[i] /\ y = new[i + 1]
      BY <1>6, <3>1
    <3>3. x <= p2 /\ q2 <= y /\ x = y + One(pipeline_valid'[i])
      BY <1>6, <1>7, <1>21, <3>1, <3>2
    <3>4. pipeline_valid'[i] => x = y + 1
      BY <3>3 DEF One
    <3> QED
      BY <1>21, <2>3, <3>2, <3>3, <3>4
  <2>5. PipeEmpty'
    BY <1>20, <2>3, <2>4 DEF PipeEmpty
  <2> QED
    BY <1>26, <1>28, <1>30, <2>2, <2>5 DEF MastersFinish
<1> QED
  BY <1>18, <1>29, <1>30
-----------------------------------------------------------------------------
(* The invariant.                                                          *)

(* It holds initially.                                                     *)
LEMMA ScaleInitially == ScaleInit => ScaleIInv
<1> SUFFICES ASSUME ScaleInit PROVE ScaleIInv
  OBVIOUS
<1>1. SoftType
  BY DEF ScaleInit, EngineInit, TestInit, SoftType
<1>2. Nothing \in Word
  <2>1. -1 \in Int
    OBVIOUS
  <2> QED
    BY <2>1, WordOf DEF Nothing
<1>3. FIFO_DEPTH \in Nat /\ FIFO_DEPTH > 0
  BY Constants
<1>4. ASSUME NEW m, m = [i \in 0..(FIFO_DEPTH - 1) |-> Nothing]
      PROVE  Ring(m, 0, 0, 0, Word)
  BY <1>2, <1>3, <1>4 DEF Ring, Slot
<1>5. /\ Ring(in_mem, in_wr_ptr, in_rd_ptr, fifo_in_used, Word)
      /\ Ring(out_mem, out_wr_ptr, out_rd_ptr, fifo_out_used, Word)
  BY <1>4 DEF ScaleInit, FifoIn!FifoInit, FifoOut!FifoInit
<1>6. PathType
  <2>1. PipeType
    BY <1>2 DEF ScaleInit, PipeType
  <2>2. owed \in Seq(Int) /\ written \in Seq(Int \X Word)
    BY EmptySeq DEF ScaleInit, EngineInit
  <2> QED
    BY <1>5, <2>1, <2>2 DEF PathType
<1>7. ScaleType
  BY <1>1, <1>6 DEF ScaleType, ScaleInit
<1>8. MastersRest /\ PipeEmpty
  BY DEF ScaleInit, EngineInit, FifoIn!FifoInit, FifoOut!FifoInit, MastersRest, PipeEmpty
<1>9. phase = "idle" /\ ~ctrl_start /\ ~ctrl_done_reg
  BY DEF ScaleInit, EngineInit, TestInit
<1> QED
  BY <1>7, <1>8, <1>9 DEF ScaleIInv, Setting, Coefficient, Scaling, UnderWay

(* As for BurstMaster: no register is written while a transfer is under    *)
(* way, so the edge of the engine alone decides what becomes of it.        *)
LEMMA ScaleEdgeKeeps ==
  ASSUME ScaleIInv, NEW w, NEW in \in EngineInputs, ScaleEdge(w, in)
  PROVE  ScaleIInv'
<1>1. /\ ScaleType /\ SoftType /\ PathType /\ ctrl_coeff \in Int
      /\ Setting /\ Coefficient /\ Scaling
  BY DEF ScaleIInv, ScaleType
<1>2. Software(w) /\ ScaleCsr(w) /\ CsrBlock(w)
  BY DEF ScaleEdge, ScaleCsr
<1>3. /\ job' \in Job /\ Setting'
      /\ phase' \in {"idle", "setting", "starting", "polling", "acking"}
      /\ ctrl_start' \in BOOLEAN /\ ctrl_done_reg' \in BOOLEAN
      /\ ctrl_rd_burst' \in {BURST_COUNT} \union {k.rd : k \in Job}
  BY <1>1, <1>2, SoftwareMoves
<1>4. /\ ctrl_start' <=> (phase = "starting" /\ phase' = "polling")
      /\ phase # "acking" => (ctrl_done_reg' <=> (ctrl_done_reg \/ internal_done_pulse))
      /\ phase \in {"idle", "setting"} => phase' \in {"idle", "setting", "starting"}
      /\ phase = "starting" => phase' \in {"starting", "polling"}
      /\ phase = "polling" =>
           /\ UNCHANGED job
           /\ phase' = "polling" \/ (phase' = "acking" /\ ctrl_done_reg)
      /\ phase = "acking" =>
           \/ phase' = "acking" /\ (ctrl_done_reg' <=> (ctrl_done_reg \/ internal_done_pulse))
           \/ phase' = "idle" /\ ~ctrl_done_reg'
  BY <1>1, <1>2, SoftwareMoves
<1>5. Coefficient' /\ ctrl_coeff' \in Int
  BY <1>1, <1>2, CoefficientMoves
<1>6. SoftType'
  BY <1>3 DEF SoftType
<1>7. SUFFICES PathType' /\ Scaling'
  BY <1>3, <1>5, <1>6 DEF ScaleIInv, ScaleType
<1>8. CASE ctrl_start
  <2>1. /\ MastersRest /\ PipeEmpty /\ phase = "polling" /\ ~ctrl_done_reg /\ Params
        /\ internal_done_pulse = FALSE
    BY <1>1, <1>8 DEF Scaling, UnderWay, Setting, MastersRest
  <2>2. UNCHANGED job /\ phase' = "polling" /\ ~ctrl_start' /\ ~ctrl_done_reg'
    BY <1>4, <2>1
  <2>3. Stored(Scaled(PIPE_LATENCY))' /\ ScaleWorking' /\ PathType'
    BY <1>1, <1>8, <2>1, <2>2, ScaleStartEdge
  <2> QED
    BY <2>2, <2>3 DEF Scaling, UnderWay
<1>9. CASE ~ctrl_start /\ phase = "polling"
  <2>1. /\ UnderWay /\ Stored(Scaled(PIPE_LATENCY)) /\ Params /\ ctrl_coeff = job.coeff
        /\ IF ctrl_done_reg THEN MastersRest /\ PipeEmpty /\ AllWritten
           ELSE ScaleWorking \/ (MastersFinish /\ PipeEmpty)
    BY <1>1, <1>9 DEF Scaling, UnderWay, Setting, Coefficient
  <2>2. /\ UNCHANGED job /\ ~ctrl_start'
        /\ phase' = "polling" \/ (phase' = "acking" /\ ctrl_done_reg)
        /\ ctrl_done_reg' <=> (ctrl_done_reg \/ internal_done_pulse)
    BY <1>4, <1>9
  <2>3. CASE MastersRest \/ MastersFinish
    <3>1. PipeEmpty /\ AllWritten
      <4>1. MastersRest \/ MastersFinish => ~ScaleWorking
        BY DEF MastersRest, MastersFinish, ScaleWorking, Reading
      <4> QED
        BY <2>1, <2>3, <4>1 DEF MastersFinish
    <3>2. MastersRest' /\ PipeEmpty' /\ PathType' /\ UNCHANGED <<owed, written>>
      BY <1>1, <1>9, <2>3, <3>1, ScaleRestEdge
    <3>3. Stored(Scaled(PIPE_LATENCY))' /\ AllWritten'
      BY <2>1, <2>2, <3>1, <3>2 DEF Stored, Scaled, AllWritten, Bytes
    <3>4. ctrl_done_reg'
      <4>1. ctrl_done_reg \/ MastersFinish
        <5>1. MastersRest => ~MastersFinish
          BY DEF MastersRest, MastersFinish
        <5>2. MastersRest => ~ScaleWorking
          BY DEF MastersRest, ScaleWorking, Reading
        <5> QED
          BY <2>1, <2>3, <5>1, <5>2
      <4> QED
        BY <2>2, <4>1 DEF MastersFinish
    <3> QED
      BY <2>2, <3>2, <3>3, <3>4 DEF Scaling, UnderWay
  <2>4. CASE ~ctrl_done_reg /\ ScaleWorking
    <3>1. /\ Stored(Scaled(PIPE_LATENCY))' /\ PathType'
          /\ ScaleWorking' \/ (MastersFinish' /\ PipeEmpty')
      BY <1>1, <1>9, <2>1, <2>2, <2>4, ScaleWorkEdge
    <3>2. phase' = "polling" /\ ~ctrl_done_reg'
      BY <2>2, <2>4 DEF ScaleWorking
    <3> QED
      BY <2>2, <3>1, <3>2 DEF Scaling, UnderWay
  <2> QED
    BY <2>1, <2>3, <2>4
<1>10. CASE ~ctrl_start /\ phase # "polling"
  <2>1. /\ MastersRest /\ PipeEmpty /\ internal_done_pulse = FALSE
        /\ phase = "acking" <=> ctrl_done_reg
    BY <1>1, <1>10 DEF Scaling, UnderWay, MastersRest
  <2>2. MastersRest' /\ PipeEmpty' /\ PathType'
    BY <1>1, <1>10, <2>1, ScaleRestEdge
  <2>3. /\ phase' = "polling" => ctrl_start'
        /\ ctrl_start' => phase' = "polling"
        /\ phase' = "acking" <=> ctrl_done_reg'
    BY <1>1, <1>4, <1>10, <2>1 DEF SoftType
  <2> QED
    BY <2>2, <2>3 DEF Scaling, UnderWay
<1> QED
  BY <1>8, <1>9, <1>10

(* A reset leaves everything at rest.                                      *)
LEMMA ScaleResetKeeps ==
  ASSUME ScaleIInv, ScaleReset
  PROVE  ScaleIInv'
<1>1. SoftType /\ PathType
  BY DEF ScaleIInv, ScaleType
<1>2. SoftType'
  BY <1>1 DEF SoftType, ScaleReset, EngineReset, TestReset
<1>3. Nothing \in Word
  <2>1. -1 \in Int
    OBVIOUS
  <2> QED
    BY <2>1, WordOf DEF Nothing
<1>4. FIFO_DEPTH \in Nat /\ FIFO_DEPTH > 0
  BY Constants
<1>5. ASSUME NEW m \in [0..(FIFO_DEPTH - 1) -> Word]
      PROVE  Ring(m, 0, 0, 0, Word)
  BY <1>4 DEF Ring, Slot
<1>6. /\ Ring(in_mem', in_wr_ptr', in_rd_ptr', fifo_in_used', Word)
      /\ Ring(out_mem', out_wr_ptr', out_rd_ptr', fifo_out_used', Word)
  <2>1. /\ in_mem \in [0..(FIFO_DEPTH - 1) -> Word]
        /\ out_mem \in [0..(FIFO_DEPTH - 1) -> Word]
    BY <1>1 DEF PathType, Ring
  <2> QED
    BY <1>5, <2>1 DEF ScaleReset, FifoIn!FifoReset, FifoOut!FifoReset
<1>7. PathType'
  <2>1. PipeType'
    BY <1>3 DEF ScaleReset, PipeType, Stage
  <2>2. owed' \in Seq(Int) /\ written' \in Seq(Int \X Word)
    BY EmptySeq DEF ScaleReset, EngineReset
  <2> QED
    BY <1>6, <2>1, <2>2 DEF PathType
<1>8. ScaleType'
  BY <1>2, <1>7 DEF ScaleType, ScaleReset
<1>9. MastersRest' /\ PipeEmpty'
  BY DEF ScaleReset, EngineReset, FifoIn!FifoReset, FifoOut!FifoReset, MastersRest, PipeEmpty, Stage
<1>10. phase' = "idle" /\ ~ctrl_start' /\ ~ctrl_done_reg'
  BY DEF ScaleReset, EngineReset, TestReset
<1> QED
  BY <1>8, <1>9, <1>10 DEF ScaleIInv, Setting, Coefficient, Scaling, UnderWay

(* The state of a scaled transfer, at every edge: every word that was read *)
(* is in the place its number says, and the engine is at rest when no      *)
(* transfer runs.                                                          *)
THEOREM ScaleInvariant == ScaleSpec => []ScaleIInv
<1>1. ScaleInit => ScaleIInv
  BY ScaleInitially
<1>2. ScaleIInv /\ [ScaleNext]_scaleVars => ScaleIInv'
  <2> SUFFICES ASSUME ScaleIInv, [ScaleNext]_scaleVars PROVE ScaleIInv'
    OBVIOUS
  <2>1. CASE ScaleReset
    BY <2>1, ScaleResetKeeps
  <2>2. ASSUME NEW w \in Writes, NEW in \in EngineInputs, ScaleEdge(w, in)
        PROVE  ScaleIInv'
    BY <2>2, ScaleEdgeKeeps
  <2>3. CASE UNCHANGED scaleVars
    <3> USE <2>3 DEF scaleVars, engineVars, csrRegs, readRegs, writeRegs, testVars, pipeVars
    <3>1. ScaleType' /\ Setting' /\ Coefficient'
      BY DEF ScaleIInv, ScaleType, SoftType, PathType, PipeType, Setting, SetUpTo, Params,
             Has, Bytes, Coefficient
    <3>2. \A i : Scaled(i)' = Scaled(i)
      BY DEF Scaled
    <3>3. \A n : Accounted(n)' = Accounted(n) /\ OwedFrom(n)' = OwedFrom(n)
      BY DEF Accounted, OwedFrom, Bytes
    <3>4. \A pos : Counted(pos)' = Counted(pos) /\ Carried(pos)' = Carried(pos)
      BY <3>2, <3>3 DEF Counted, Carried, Linked, Staged, Holds
    <3>5. ScaleWorking' = ScaleWorking
      BY <3>4 DEF ScaleWorking, Flowing, Reading, Writing, Bytes
    <3>6. /\ MastersRest' = MastersRest /\ MastersFinish' = MastersFinish
          /\ AllWritten' = AllWritten /\ PipeEmpty' = PipeEmpty /\ UnderWay' = UnderWay
          /\ Stored(Scaled(PIPE_LATENCY))' = Stored(Scaled(PIPE_LATENCY))
      BY <3>2 DEF MastersRest, MastersFinish, AllWritten, PipeEmpty, UnderWay, Stored, Bytes
    <3> QED
      BY <3>1, <3>5, <3>6 DEF ScaleIInv, Scaling
  <2> QED
    BY <2>1, <2>2, <2>3 DEF ScaleNext
<1> QED
  BY <1>1, <1>2, PTL DEF ScaleSpec

(* A scaling transfer stores every word of its source once, in order,      *)
(* multiplied by the coefficient set for this transfer and then divided,   *)
(* and its done bit comes up after the last, whatever the bubbles and the  *)
(* back-pressure, for any number of stages and any depth of the FIFOs.     *)
THEOREM ScaleScaledExact == ScaleSpec => []ScaledExact
<1>1. ScaleIInv => ScaledExact
  <2> SUFFICES ASSUME ScaleIInv PROVE ScaledExact
    OBVIOUS
  <2>1. SoftType /\ PathType /\ Scaling
    BY DEF ScaleIInv, ScaleType
  <2>2. Len(written) \in Nat /\ Bytes \in Nat /\ DOMAIN written = 1..Len(written)
    <3>1. written \in Seq(Int \X Word)
      BY <2>1 DEF PathType
    <3> QED
      BY <2>1, <3>1, Sizes, LenProperties
  <2>3. UnderWay => \A i \in DOMAIN written :
          written[i] = <<job.dst + 4 * (i - 1), <<job.src + 4 * (i - 1), job.coeff, TRUE>>>>
    <3> SUFFICES ASSUME UnderWay, NEW i \in 1..Len(written)
                 PROVE  written[i] = <<job.dst + 4 * (i - 1),
                                       <<job.src + 4 * (i - 1), job.coeff, TRUE>>>>
      BY <2>2
    <3>1. Stored(Scaled(PIPE_LATENCY))
      BY <2>1 DEF Scaling
    <3>2. i - 1 \in Nat /\ (PIPE_LATENCY >= 1) = TRUE /\ (PIPE_LATENCY >= 2) = TRUE
      BY <2>2, Stages
    <3>3. Scaled(PIPE_LATENCY)[i - 1] = <<job.src + 4 * (i - 1), job.coeff, TRUE>>
      BY <3>2, Zenon DEF Scaled
    <3> QED
      BY <3>1, <3>3 DEF Stored
  <2>4. ASSUME UnderWay, ctrl_done_reg
        PROVE  Len(written) = WordsOfJob
    <3>1. 4 * Len(written) = Bytes
      BY <2>1, <2>4 DEF Scaling, AllWritten
    <3>2. Bytes \div 4 = Len(written)
      <4>1. PICK W \in Nat, B \in Nat : W = Len(written) /\ B = Bytes
        BY <2>2
      <4>2. B = 4 * W
        BY <3>1, <4>1
      <4>3. B \div 4 = W
        BY <4>1, <4>2, SMTT(20)
      <4> QED
        BY <4>1, <4>3
    <3> QED
      BY <3>2 DEF WordsOfJob, Bytes
  <2>5. wm_write => UnderWay /\ ~ctrl_done_reg
    BY <2>1 DEF Scaling, MastersRest
  <2> QED
    BY <2>3, <2>4, <2>5 DEF ScaledExact
<1> QED
  BY <1>1, ScaleInvariant, PTL

(* A start finds both masters at rest and no word anywhere, so that no     *)
(* word of one transfer is multiplied by the coefficient of the next.      *)
THEOREM ScalePipelineAtRest == ScaleSpec => []PipelineAtRest
<1>1. ScaleIInv => PipelineAtRest
  BY DEF ScaleIInv, Scaling, UnderWay, MastersRest, PipeEmpty, PipelineAtRest,
         FifoIn!empty, FifoOut!empty
<1> QED
  BY <1>1, ScaleInvariant, PTL
-----------------------------------------------------------------------------
(* The arithmetic: what the division by 400 leaves.                        *)
LEMMA QuotientBounds ==
  ASSUME NEW x \in Nat
  PROVE  /\ x \div 400 \in Int
         /\ 400 * (x \div 400) <= x
         /\ x <= 400 * (x \div 400) + 399
BY SMTT(20)

(* What the multiplication and the shift leave instead.                    *)
LEMMA ShiftBounds ==
  ASSUME NEW x \in Nat
  PROVE  /\ Divided(x) \in Int
         /\ 2097152 * Divided(x) <= 5243 * x
         /\ 5243 * x < 2097152 * Divided(x) + 2097152
BY SMTT(20) DEF Divided

(* 5243 * 400 = 2^21 + 48: the shift divides by a little less than 400.    *)
LEMMA ShiftDivides ==
  ASSUME NEW x \in Nat, x < 17519600,
         NEW q \in Int, 400 * q <= x, x <= 400 * q + 399,
         NEW h \in Int, 2097152 * h <= 5243 * x, 5243 * x < 2097152 * h + 2097152
  PROVE  h - q \in 0..1
BY SMTT(20)

(* As long as a scaled word is below 17519600 the engine gives the exact   *)
(* quotient or one more, the difference that the software allows.          *)
THEOREM ScaledWithinOne ==
  ASSUME NEW x \in Nat, NEW coeff \in Nat, x * coeff < 17519600
  PROVE  Hardware(x, coeff) - SoftwareCopy(x, coeff) \in 0..1
<1> DEFINE p == x * coeff
<1>1. p \in Nat
  BY SMTT(20)
<1>2. p < 17519600
  BY SMTT(20)
<1> HIDE DEF p
<1>3. p % 4294967296 = p
  BY <1>1, <1>2, SMTT(20)
<1>4. Divided(p) - (p \div 400) \in 0..1
  <2>1. /\ p \div 400 \in Int
        /\ 400 * (p \div 400) <= p
        /\ p <= 400 * (p \div 400) + 399
    BY <1>1, QuotientBounds, SMTT(20)
  <2>2. /\ Divided(p) \in Int
        /\ 2097152 * Divided(p) <= 5243 * p
        /\ 5243 * p < 2097152 * Divided(p) + 2097152
    BY <1>1, ShiftBounds, SMTT(20)
  <2> DEFINE q == p \div 400
             h == Divided(p)
  <2> HIDE DEF q, h
  <2>3. q \in Int /\ 400 * q <= p /\ p <= 400 * q + 399
    BY <2>1, SMTT(20) DEF q
  <2>4. h \in Int /\ 2097152 * h <= 5243 * p /\ 5243 * p < 2097152 * h + 2097152
    BY <2>2, SMTT(20) DEF h
  <2>5. h - q \in 0..1
    BY <1>1, <1>2, <2>3, <2>4, ShiftDivides, SMTT(20)
  <2> QED
    BY <2>5, SMTT(20) DEF h, q
<1>5. Hardware(x, coeff) = Divided(p) /\ SoftwareCopy(x, coeff) = p \div 400
  BY <1>3, SMTT(20) DEF Hardware, Multiplied, SoftwareCopy, p
<1> QED
  BY <1>4, <1>5, SMTT(20)

(* The 1024 words of its result that the software compares are all below   *)
(* that bound, ...                                                         *)
THEOREM TestComparesEqual ==
  ASSUME NEW i \in 0..1023
  PROVE  Hardware(src(i), test_coeff) - SoftwareCopy(src(i), test_coeff) \in 0..1
<1>1. src(i) \in Nat /\ test_coeff \in Nat /\ src(i) * test_coeff < 17519600
  BY SMTT(20) DEF src, test_coeff
<1> QED
  BY <1>1, ScaledWithinOne, SMTT(20)

(* ... but the last of the 262144 words that it copies is not: there the   *)
(* engine is 12 above the quotient, and no comparison sees it.             *)
THEOREM TestBeyondTolerance ==
  Hardware(src(262143), test_coeff) - SoftwareCopy(src(262143), test_coeff) = 12
<1>1. Multiplied(src(262143), test_coeff) = 210532800
  BY SMTT(20) DEF Multiplied, src, test_coeff
<1>2. Divided(210532800) = 526344
  BY SMTT(20) DEF Divided
<1>3. SoftwareCopy(src(262143), test_coeff) = 526332
  BY SMTT(20) DEF SoftwareCopy, src, test_coeff
<1> QED
  BY <1>1, <1>2, <1>3, SMTT(20) DEF Hardware
=============================================================================
