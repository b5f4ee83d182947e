----------------------------- MODULE DriverProofs ----------------------------
(***************************************************************************)
(* Proofs about the two drivers the program stands on.                     *)
(*                                                                         *)
(* About SystemClock, for any timer, word width and set of alarms.  Both   *)
(* theorems rest on the width of the tick count: an alarm is at most       *)
(* SPAN - 1 ticks away, so that one roll-over flag tells its laps apart,   *)
(* and a pass of get_total_cycles sees at most two ticks counted, so that  *)
(* an equal count is the same tick.                                        *)
(*                                                                         *)
(* About HdmiSetup, for any queue, number of polls, retries and writes:    *)
(* what master_tx calls a success has reached the transmitter, and no      *)
(* retry makes it take a register twice or out of order.                   *)
(*                                                                         *)
(* In an attempt that has issued q of its three commands, the queue holds  *)
(* the last of them.  Without a fault the device has heard the ones before *)
(* those; after a fault no address is left in the queue, so that nothing   *)
(* more of it can be taken.  An attempt is tried again only after a fault, *)
(* and a fault only happens to a write that has not been taken.            *)
(***************************************************************************)
EXTENDS SystemClock, HdmiSetup, Integers, SequenceTheorems, TLAPS

-----------------------------------------------------------------------------
(* The system clock.                                                       *)

Tick   == 0..(SPAN - 1)
Times  == [on : BOOLEAN, time : Tick, rollover : BOOLEAN]
InPass == {"snapshot", "low", "high", "compare"}

ClockType ==
  /\ count \in 0..LOAD /\ timed_out \in BOOLEAN
  /\ nticks \in Tick /\ alarm \in [Alarm -> Times]
  /\ pc \in InPass \union {"idle", "again", "returned"}
  /\ t1 \in Tick /\ snap \in Nat /\ low \in Nat /\ high \in Nat
  /\ waited \in Nat /\ passed \in Nat

After(n) == IF n + 1 = SPAN THEN 0 ELSE n + 1

LEMMA SpanFacts == SPAN \in Nat /\ SPAN > 2 /\ LOAD \in Nat /\ LATENCY \in 0..3
                   /\ PASS_CYCLES \in 0..LOAD /\ HALF \in Nat /\ HALF > 0
BY ClockAssumption

(* What the remainder is, for the sums that occur.                         *)
LEMMA Wrapped ==
  ASSUME NEW n \in Tick, NEW m \in Tick
  PROVE  (n + m) % SPAN = IF n + m < SPAN THEN n + m ELSE n + m - SPAN
<1>1. SPAN \in Nat /\ SPAN > 2
  BY SpanFacts
<1>2. CASE n + m < SPAN
  BY <1>1, <1>2, SMT DEF Tick
<1>3. CASE ~(n + m < SPAN)
  BY <1>1, <1>3, SMT DEF Tick
<1> QED
  BY <1>2, <1>3

LEMMA Halves ==
  ASSUME NEW n \in Nat
  PROVE  /\ n % HALF \in Nat /\ n \div HALF \in Nat
         /\ (n \div HALF) * HALF + (n % HALF) = n
BY SpanFacts, SMT
-----------------------------------------------------------------------------
(* Types.                                                                  *)

LEMMA NextTick ==
  ASSUME nticks \in Tick
  PROVE  /\ (nticks + 1) % SPAN = After(nticks)
         /\ (nticks + 0) % SPAN = nticks
         /\ After(nticks) \in Tick
<1>1. 0 \in Tick /\ 1 \in Tick
  BY SpanFacts DEF Tick
<1>2. /\ (nticks + 1) % SPAN = IF nticks + 1 < SPAN THEN nticks + 1 ELSE nticks + 1 - SPAN
      /\ (nticks + 0) % SPAN = IF nticks + 0 < SPAN THEN nticks + 0 ELSE nticks + 0 - SPAN
  BY <1>1, Wrapped
<1> QED
  BY <1>2, SpanFacts DEF Tick, After

LEMMA RemainderType == ASSUME NEW n \in Nat PROVE n % SPAN \in Tick
BY SpanFacts, SMT DEF Tick

LEMMA TypeInit == ClockInit => ClockType
<1> SUFFICES ASSUME ClockInit PROVE ClockType
  OBVIOUS
<1>1. 0 \in Tick /\ Off \in Times
  BY SpanFacts DEF Tick, Off, Times
<1>2. alarm \in [Alarm -> Times]
  BY <1>1 DEF ClockInit
<1>3. timed_out \in BOOLEAN
  BY DEF ClockInit
<1>4. count \in 0..LOAD
  BY SpanFacts DEF ClockInit
<1> QED
  BY <1>1, <1>2, <1>3, <1>4 DEF ClockInit, ClockType, InPass

LEMMA TypeStep == ClockType /\ [ClockNext]_clockVars => ClockType'
<1> SUFFICES ASSUME ClockType, [ClockNext]_clockVars PROVE ClockType'
  OBVIOUS
<1> USE DEF ClockType
<1>t. 0 \in Tick /\ Off \in Times
  BY SpanFacts DEF Tick, Off, Times
<1>1. CASE TimerCycle
  <2>1. count' \in 0..LOAD
    BY <1>1, SpanFacts DEF TimerCycle
  <2>2. timed_out' \in BOOLEAN
    BY <1>1 DEF TimerCycle
  <2>3. passed' \in Nat /\ waited' \in Nat
    BY <1>1 DEF TimerCycle
  <2> QED
    BY <1>1, <2>1, <2>2, <2>3 DEF TimerCycle
<1>2. ASSUME NEW answer \in [Alarm -> 0..(SPAN - 1)], Interrupt(answer) PROVE ClockType'
  <2>1. nticks' \in Tick
    BY <1>2, NextTick DEF Interrupt
  <2>2. ASSUME NEW a \in Alarm PROVE alarm'[a] \in Times
    <3> DEFINE al == Ticked(alarm[a], nticks')
    <3>1. alarm[a] \in Times
      OBVIOUS
    <3>2. al \in Times
      BY <3>1 DEF Ticked, Times
    <3>3. (al.time + answer[a]) % SPAN \in Tick
      <4>1. al.time \in Nat /\ answer[a] \in Nat
        BY <3>2 DEF Times, Tick
      <4> QED
        BY <4>1, RemainderType
    <3>4. Rearmed(al, answer[a], nticks') \in Times
      BY <3>3, <1>t DEF Rearmed, Times
    <3> QED
      BY <1>2, <3>2, <3>4 DEF Interrupt
  <2>3. alarm' \in [Alarm -> Times]
    BY <1>2, <2>2 DEF Interrupt
  <2> QED
    BY <1>2, <2>1, <2>3 DEF Interrupt, readVars
<1>3. ASSUME NEW a \in Alarm, NEW n \in 0..(SPAN - 2), alt_alarm_start(a, n) PROVE ClockType'
  <2>1. (n + nticks + 1) % SPAN \in Tick
    <3>1. n + nticks + 1 \in Nat
      BY SpanFacts DEF Tick
    <3> QED
      BY <3>1, RemainderType
  <2>2. alarm' \in [Alarm -> Times]
    BY <1>3, <2>1 DEF alt_alarm_start, Times
  <2> QED
    BY <1>3, <2>2 DEF alt_alarm_start, ProgramStep, readVars, timerVars
<1>4. ASSUME NEW a \in Alarm, alt_alarm_stop(a) PROVE ClockType'
  BY <1>4, <1>t DEF alt_alarm_stop, ProgramStep, readVars, timerVars
<1>5. CASE ReadTicks
  BY <1>5 DEF ReadTicks, ProgramStep, timerVars, InPass
<1>6. CASE WriteSnapshot
  BY <1>6, SpanFacts DEF WriteSnapshot, ProgramStep, timerVars, InPass
<1>7. CASE ReadLow
  BY <1>7, Halves DEF ReadLow, ProgramStep, timerVars, InPass
<1>8. CASE ReadHigh
  BY <1>8, Halves DEF ReadHigh, ProgramStep, timerVars, InPass
<1>9. CASE Compare
  BY <1>9 DEF Compare, ProgramStep, timerVars, InPass
<1>10. CASE UseResult
  BY <1>10, <1>t DEF UseResult, ProgramStep, timerVars, InPass
<1>11. CASE UNCHANGED clockVars
  BY <1>11 DEF clockVars, timerVars, readVars
<1> QED
  BY <1>1, <1>2, <1>3, <1>4, <1>5, <1>6, <1>7, <1>8, <1>9, <1>10, <1>11
     DEF ClockNext, get_total_cycles
-----------------------------------------------------------------------------
(* get_total_cycles.                                                       *)

(* During a pass the timer may turn over once, and a tick may have been    *)
(* pending before; so the tick count is at most two ahead of t1.           *)
Turned == count + passed > LOAD

Followed ==
  pc \in InPass =>
    \/ nticks = t1
    \/ nticks = After(t1) /\ (timed_out => Turned)
    \/ nticks = After(After(t1)) /\ ~timed_out /\ Turned

(* A snapshot taken with a tick pending gives that away: the interrupt     *)
(* comes before the tick count is compared.                                *)
Since == [low |-> 1, high |-> 2, compare |-> 3]

SnapshotKnown ==
  pc \in {"low", "high", "compare"} /\ nticks = t1 =>
    \/ taken = Cycles(t1, snap)
    \/ timed_out /\ waited >= Since[pc]

HalvesRead ==
  /\ pc \in {"high", "compare"} => low = snap % HALF
  /\ pc = "compare" => high = snap \div HALF

ReadInv == ClockType /\ Followed /\ SnapshotKnown /\ HalvesRead /\ ReadingExact

LEMMA AfterFacts ==
  ASSUME NEW n \in Tick
  PROVE  After(n) # n /\ After(After(n)) # n
BY SpanFacts DEF Tick, After

LEMMA ReadStep == ReadInv /\ [ClockNext]_clockVars => ReadInv'
<1> SUFFICES ASSUME ReadInv, [ClockNext]_clockVars
             PROVE  Followed' /\ SnapshotKnown' /\ HalvesRead' /\ ReadingExact'
  BY TypeStep DEF ReadInv
<1>t. ClockType /\ ClockType'
  BY TypeStep DEF ReadInv
<1>a. t1 \in Tick /\ nticks \in Tick /\ After(t1) # t1 /\ After(After(t1)) # t1
  BY <1>t, AfterFacts DEF ClockType
<1>1. CASE TimerCycle
  <2>1. Followed'
    <3> SUFFICES ASSUME pc \in InPass PROVE Followed'
      BY <1>1 DEF TimerCycle, Followed
    <3>1. passed < LOAD /\ passed' = passed + 1 /\ passed \in Nat /\ count \in 0..LOAD
      BY <1>1, <1>t, SpanFacts DEF TimerCycle, ClockType, InPass
    <3>2. UNCHANGED <<pc, nticks, t1>> /\ (After(t1) = After(t1)')
      BY <1>1 DEF TimerCycle, After
    <3>3. CASE count = 0
      <4>1. ~timed_out /\ Turned' /\ ~Turned
        BY <1>1, <3>1, <3>3, SpanFacts DEF TimerCycle, Turned
      <4> QED
        BY <3>2, <4>1 DEF ReadInv, Followed
    <3>4. CASE count # 0
      <4>1. (Turned => Turned') /\ timed_out' = timed_out
        BY <1>1, <3>1, <3>4, SpanFacts DEF TimerCycle, Turned
      <4> QED
        BY <3>2, <4>1 DEF ReadInv, Followed, After
    <3> QED
      BY <3>3, <3>4
  <2>2. SnapshotKnown'
    BY <1>1, <1>t DEF TimerCycle, ReadInv, SnapshotKnown, ClockType, Since, Cycles
  <2> QED
    BY <1>1, <2>1, <2>2 DEF TimerCycle, ReadInv, HalvesRead, ReadingExact
<1>2. ASSUME NEW answer \in [Alarm -> 0..(SPAN - 1)], Interrupt(answer)
      PROVE  Followed' /\ SnapshotKnown' /\ HalvesRead' /\ ReadingExact'
  <2>1. nticks' = After(nticks) /\ timed_out /\ ~timed_out' /\ UNCHANGED <<count, readVars>>
    BY <1>2, <1>a, NextTick DEF Interrupt
  <2>2. Followed'
    BY <2>1, <1>a DEF ReadInv, Followed, Turned, readVars, After
  <2>3. pc \in InPass => nticks' # t1
    BY <2>1, <1>a DEF ReadInv, Followed
  <2>4. SnapshotKnown'
    BY <2>1, <2>3 DEF SnapshotKnown, readVars, InPass
  <2> QED
    BY <2>1, <2>2, <2>4 DEF ReadInv, HalvesRead, ReadingExact, readVars
<1>3. ASSUME ProgramStep, UNCHANGED <<nticks, readVars>>
      PROVE  Followed' /\ SnapshotKnown' /\ HalvesRead' /\ ReadingExact'
  BY <1>3, <1>t DEF ProgramStep, readVars, timerVars, ReadInv, Followed, Turned, SnapshotKnown,
     HalvesRead, ReadingExact, ClockType, Since, Cycles, After
<1>4. CASE \E a \in Alarm, n \in 0..(SPAN - 2) : alt_alarm_start(a, n)
  BY <1>3, <1>4 DEF alt_alarm_start
<1>5. CASE \E a \in Alarm : alt_alarm_stop(a)
  BY <1>3, <1>5 DEF alt_alarm_stop
<1>6. CASE ReadTicks
  BY <1>6 DEF ReadTicks, ProgramStep, timerVars, Followed, SnapshotKnown, HalvesRead, ReadingExact
<1>7. CASE WriteSnapshot
  <2>1. ~timed_out => TrueTicks = nticks
    BY <1>a, NextTick DEF TrueTicks
  <2>2. Followed'
    BY <1>7 DEF WriteSnapshot, ProgramStep, timerVars, ReadInv, Followed, Turned, InPass, After
  <2>3. SnapshotKnown'
    BY <1>7, <1>t, <2>1 DEF WriteSnapshot, ProgramStep, timerVars, SnapshotKnown, Since, ClockType, Cycles
  <2> QED
    BY <1>7, <2>2, <2>3 DEF WriteSnapshot, HalvesRead, ReadingExact
<1>8. CASE ReadLow
  BY <1>8, <1>t DEF ReadLow, ProgramStep, timerVars, ReadInv, Followed, Turned, InPass, After,
     SnapshotKnown, Since, ClockType, Cycles, HalvesRead, ReadingExact
<1>9. CASE ReadHigh
  BY <1>9, <1>t DEF ReadHigh, ProgramStep, timerVars, ReadInv, Followed, Turned, InPass, After,
     SnapshotKnown, Since, ClockType, Cycles, HalvesRead, ReadingExact
<1>10. CASE Compare
  <2>1. nticks = t1 => taken = Cycles(t1, snap)
    BY <1>10, <1>t, SpanFacts DEF Compare, ProgramStep, ReadInv, SnapshotKnown, Since, ClockType
  <2>2. high * HALF + low = snap
    BY <1>10, <1>t, Halves DEF Compare, ReadInv, HalvesRead, ClockType
  <2>3. ReadingExact'
    BY <1>10, <2>1, <2>2 DEF Compare, ReadingExact
  <2> QED
    BY <1>10, <2>3 DEF Compare, Followed, SnapshotKnown, HalvesRead, InPass
<1>11. CASE UseResult
  BY <1>11 DEF UseResult, Followed, SnapshotKnown, HalvesRead, ReadingExact, InPass
<1>12. CASE UNCHANGED clockVars
  BY <1>12 DEF clockVars, timerVars, readVars, ReadInv, Followed, Turned, SnapshotKnown,
     HalvesRead, ReadingExact, Cycles, After
<1> QED
  BY <1>1, <1>2, <1>4, <1>5, <1>6, <1>7, <1>8, <1>9, <1>10, <1>11, <1>12
     DEF ClockNext, get_total_cycles

(* The result of get_total_cycles is the time at its snapshot.             *)
THEOREM ClockReadingExact == ClockSpec => []ReadingExact
<1>1. ClockInit => ReadInv
  BY TypeInit DEF ClockInit, ReadInv, Followed, SnapshotKnown, HalvesRead, ReadingExact, InPass
<1>2. ReadInv => ReadingExact
  BY DEF ReadInv
<1> QED
  BY <1>1, <1>2, ReadStep, PTL DEF ClockSpec
-----------------------------------------------------------------------------
(* The alarms.                                                             *)

(* The roll-over flag tells on which lap of the tick count an alarm is due:*)
(* its time is never the tick that is now.                                 *)
AlarmsAhead ==
  \A a \in Alarm : alarm[a].on =>
    IF alarm[a].rollover THEN alarm[a].time < nticks ELSE nticks < alarm[a].time

AlarmInv == ClockType /\ AlarmsAhead

left == [a \in Alarm |-> TicksLeft(alarm[a])]

(* An alarm n ticks ahead, n > 0: where it lands, and what is left to it.  *)
LEMMA AheadByN ==
  ASSUME NEW now \in Tick, NEW n \in 1..(SPAN - 1), NEW time, time = (now + n) % SPAN
  PROVE  /\ time \in Tick /\ time # now
         /\ time < now => time + SPAN - now = n
         /\ ~(time < now) => now < time /\ time - now = n
<1>1. n \in Tick
  BY SpanFacts DEF Tick
<1>2. (now + n) % SPAN = IF now + n < SPAN THEN now + n ELSE now + n - SPAN
  BY <1>1, Wrapped
<1> QED
  BY <1>2, SpanFacts DEF Tick

(* One alarm at a tick.                                                    *)
LEMMA TickOfAlarm ==
  ASSUME ClockType, AlarmsAhead, NEW a \in Alarm, NEW answer \in 0..(SPAN - 1),
         NEW now, now = After(nticks), now = nticks',
         NEW next, next = LET al == Ticked(alarm[a], now)
                          IN  IF Expired(al, now) THEN Rearmed(al, answer, now) ELSE al
  PROVE  /\ next.on => IF next.rollover THEN next.time < now ELSE now < next.time
         /\ (IF ~next.on THEN 0
             ELSE IF next.rollover THEN next.time + SPAN - now
             ELSE next.time - now)
            = IF TicksLeft(alarm[a]) = 0 THEN 0
              ELSE IF TicksLeft(alarm[a]) = 1 THEN answer
              ELSE TicksLeft(alarm[a]) - 1
<1> DEFINE al == Ticked(alarm[a], now)
<1>1. alarm[a] \in Times /\ nticks \in Tick /\ now \in Tick
  BY NextTick DEF ClockType
<1>2. /\ al.on = alarm[a].on /\ al.time = alarm[a].time
      /\ alarm[a].rollover /\ now # 0 => al.rollover
      /\ now = 0 \/ ~alarm[a].rollover => ~al.rollover
  BY <1>1 DEF Ticked, Times
<1>3. CASE ~alarm[a].on
  BY <1>2, <1>3 DEF Expired, TicksLeft
<1>4. alarm[a].on => /\ TicksLeft(alarm[a]) = IF alarm[a].rollover THEN alarm[a].time + SPAN - nticks
                                             ELSE alarm[a].time - nticks
                     /\ IF alarm[a].rollover THEN alarm[a].time < nticks
                                             ELSE nticks < alarm[a].time
  BY DEF AlarmsAhead, TicksLeft
<1>5. /\ SPAN \in Nat /\ nticks \in 0..(SPAN - 1) /\ alarm[a].time \in 0..(SPAN - 1)
      /\ now = IF nticks + 1 = SPAN THEN 0 ELSE nticks + 1
  BY <1>1, SpanFacts DEF Times, Tick, After
<1>6. next = IF Expired(al, now) THEN Rearmed(al, answer, now) ELSE al
  OBVIOUS
<1>7. Expired(al, now) <=> al.on /\ al.time <= now /\ ~al.rollover
  BY DEF Expired
<1> HIDE DEF al
<1>8. CASE alarm[a].on /\ TicksLeft(alarm[a]) = 1
  <2>1. alarm[a].time = now
    <3>1. CASE alarm[a].rollover
      BY <1>4, <1>5, <1>8, <3>1
    <3>2. CASE ~alarm[a].rollover
      BY <1>4, <1>5, <1>8, <3>2
    <3> QED
      BY <3>1, <3>2
  <2>2. alarm[a].rollover => now = 0
    BY <1>4, <1>5, <1>8
  <2>3. al.time = now /\ ~al.rollover /\ al.on
    BY <1>2, <1>8, <2>1, <2>2
  <2>4. next = Rearmed(al, answer, now)
    BY <1>1, <1>6, <1>7, <2>3 DEF Tick
  <2>5. CASE answer = 0
    <3>1. next = Off
      BY <2>4, <2>5 DEF Rearmed
    <3> QED
      BY <1>8, <2>5, <3>1 DEF Off
  <2>6. CASE answer # 0
    <3> DEFINE time == (now + answer) % SPAN
    <3>1. next = [on |-> TRUE, time |-> time, rollover |-> time < now]
      BY <2>3, <2>4, <2>6 DEF Rearmed
    <3>2. answer \in 1..(SPAN - 1)
      BY <2>6, SpanFacts
    <3>3. /\ time \in 0..(SPAN - 1) /\ time # now
          /\ time < now => time + SPAN - now = answer
          /\ ~(time < now) => now < time /\ time - now = answer
      BY <1>1, <3>2, AheadByN DEF Tick
    <3> HIDE DEF time
    <3>4. CASE time < now
      <4>1. next = [on |-> TRUE, time |-> time, rollover |-> TRUE]
        BY <3>1, <3>4, Zenon
      <4> QED
        BY <1>5, <1>8, <3>3, <3>4, <4>1
    <3>5. CASE ~(time < now)
      <4>1. next = [on |-> TRUE, time |-> time, rollover |-> FALSE]
        <5>1. (time < now) = FALSE
          BY <3>5
        <5> QED
          BY <3>1, <5>1
      <4> QED
        BY <1>5, <1>8, <3>3, <3>5, <4>1
    <3> QED
      BY <3>4, <3>5
  <2> QED
    BY <2>5, <2>6
<1>9. CASE alarm[a].on /\ TicksLeft(alarm[a]) # 1
  <2>1. CASE alarm[a].rollover
    <3>1. TicksLeft(alarm[a]) = alarm[a].time + SPAN - nticks /\ alarm[a].time < nticks
      BY <1>4, <1>9, <2>1
    <3>2. CASE now = 0
      <4>1. ~al.rollover /\ nticks = SPAN - 1 /\ 0 < alarm[a].time
        BY <1>2, <1>5, <1>9, <3>1, <3>2
      <4>2. next = al
        BY <1>2, <1>5, <1>6, <1>7, <3>2, <4>1
      <4>3. alarm[a].time + SPAN - nticks = alarm[a].time + 1
        BY <1>5, <4>1
      <4>4. TicksLeft(alarm[a]) = alarm[a].time + 1
        BY <3>1, <4>3
      <4>5. next.on /\ ~next.rollover /\ next.time = alarm[a].time
        BY <1>2, <1>9, <4>1, <4>2
      <4>6. next.time - now = alarm[a].time /\ now < next.time
        BY <1>5, <3>2, <4>1, <4>5
      <4>7. /\ TicksLeft(alarm[a]) # 0 /\ TicksLeft(alarm[a]) # 1
            /\ TicksLeft(alarm[a]) - 1 = alarm[a].time
        BY <1>5, <4>1, <4>4
      <4> QED
        BY <4>5, <4>6, <4>7
    <3>3. CASE now # 0
      <4>1. al.rollover /\ al.on /\ al.time < now
        BY <1>2, <1>5, <1>9, <2>1, <3>1, <3>3
      <4>2. next = al
        BY <1>6, <1>7, <4>1
      <4> QED
        BY <1>2, <1>5, <1>9, <3>1, <3>3, <4>1, <4>2
    <3> QED
      BY <3>2, <3>3
  <2>2. CASE ~alarm[a].rollover
    <3>1. TicksLeft(alarm[a]) = alarm[a].time - nticks /\ nticks < alarm[a].time
      BY <1>4, <1>9, <2>2
    <3>2. ~al.rollover /\ al.on /\ now < al.time /\ now = nticks + 1
      BY <1>2, <1>5, <1>9, <2>2, <3>1
    <3>3. next = al
      BY <1>2, <1>5, <1>6, <1>7, <3>2
    <3> QED
      BY <1>2, <1>5, <1>9, <3>1, <3>2, <3>3
  <2> QED
    BY <2>1, <2>2
<1> QED
  BY <1>3, <1>8, <1>9

LEMMA AlarmStep ==
  AlarmInv /\ [ClockNext]_clockVars => AlarmInv' /\ [Promised!AbstractNext]_left
<1> SUFFICES ASSUME AlarmInv, [ClockNext]_clockVars
             PROVE  AlarmsAhead' /\ [Promised!AbstractNext]_left
  BY TypeStep DEF AlarmInv
<1>t. /\ ClockType /\ ClockType' /\ AlarmsAhead
      /\ alarm \in [Alarm -> Times] /\ alarm' \in [Alarm -> Times]
      /\ nticks \in Tick /\ nticks' \in Tick
  BY TypeStep DEF AlarmInv, ClockType
<1>1. ASSUME UNCHANGED <<nticks, alarm>>
      PROVE  AlarmsAhead' /\ [Promised!AbstractNext]_left
  BY <1>1, <1>t DEF AlarmsAhead, left, TicksLeft
<1>2. ASSUME NEW answer \in [Alarm -> 0..(SPAN - 1)], Interrupt(answer)
      PROVE  AlarmsAhead' /\ [Promised!AbstractNext]_left
  <2> DEFINE now == nticks'
             next(a) == LET al == Ticked(alarm[a], now)
                        IN  IF Expired(al, now) THEN Rearmed(al, answer[a], now) ELSE al
  <2>1. now = After(nticks) /\ alarm' = [a \in Alarm |-> next(a)]
    BY <1>2, <1>t, NextTick DEF Interrupt
  <2>2. ASSUME NEW a \in Alarm
        PROVE  /\ alarm'[a].on => IF alarm'[a].rollover THEN alarm'[a].time < now
                                                        ELSE now < alarm'[a].time
               /\ TicksLeft(alarm[a])' = IF TicksLeft(alarm[a]) = 0 THEN 0
                                         ELSE IF TicksLeft(alarm[a]) = 1 THEN answer[a]
                                         ELSE TicksLeft(alarm[a]) - 1
    <3>1. answer[a] \in 0..(SPAN - 1) /\ alarm'[a] = next(a)
      BY <2>1
    <3>2. /\ next(a).on => IF next(a).rollover THEN next(a).time < now ELSE now < next(a).time
          /\ (IF ~next(a).on THEN 0
              ELSE IF next(a).rollover THEN next(a).time + SPAN - now
              ELSE next(a).time - now)
             = IF TicksLeft(alarm[a]) = 0 THEN 0
               ELSE IF TicksLeft(alarm[a]) = 1 THEN answer[a]
               ELSE TicksLeft(alarm[a]) - 1
      BY <1>t, <2>1, <3>1, TickOfAlarm
    <3>3. TicksLeft(alarm[a])' = IF ~alarm'[a].on THEN 0
                                ELSE IF alarm'[a].rollover THEN alarm'[a].time + SPAN - now
                                ELSE alarm'[a].time - now
      BY DEF TicksLeft
    <3> HIDE DEF next
    <3> QED
      BY <3>1, <3>2, <3>3
  <2>3. AlarmsAhead'
    BY <2>2 DEF AlarmsAhead
  <2>4. Promised!CountDown(answer)
    BY <2>2 DEF Promised!CountDown
  <2> QED
    BY <2>3, <2>4 DEF Promised!AbstractNext
<1>3. ASSUME NEW a \in Alarm, NEW n \in 0..(SPAN - 2), alt_alarm_start(a, n)
      PROVE  AlarmsAhead' /\ [Promised!AbstractNext]_left
  <2> DEFINE time == (nticks + (n + 1)) % SPAN
  <2>1. n + 1 \in 1..(SPAN - 1) /\ n + nticks + 1 = nticks + (n + 1)
    BY <1>t, SpanFacts DEF Tick
  <2>2. /\ time \in Tick /\ time # nticks
        /\ time < nticks => time + SPAN - nticks = n + 1
        /\ ~(time < nticks) => nticks < time /\ time - nticks = n + 1
    BY <1>t, <2>1, AheadByN
  <2>3. /\ alarm' = [alarm EXCEPT ![a] = [on |-> TRUE, time |-> time, rollover |-> time < nticks]]
        /\ nticks' = nticks
    BY <1>3, <2>1 DEF alt_alarm_start
  <2> HIDE DEF time
  <2>4. alarm'[a].on /\ alarm'[a].time = time /\ (alarm'[a].rollover <=> time < nticks)
    BY <1>t, <2>3
  <2>5. \A x \in Alarm : x # a => alarm'[x] = alarm[x]
    BY <1>t, <2>3
  <2>6. AlarmsAhead'
    BY <1>t, <2>2, <2>3, <2>4, <2>5 DEF AlarmsAhead, Tick
  <2>7. TicksLeft(alarm[a])' = n + 1
    BY <2>2, <2>3, <2>4 DEF TicksLeft
  <2>8. \A x \in Alarm : x # a => TicksLeft(alarm[x])' = TicksLeft(alarm[x])
    BY <2>3, <2>5 DEF TicksLeft
  <2>9. Promised!SetAlarm(a, n)
    BY <2>7, <2>8 DEF Promised!SetAlarm
  <2> QED
    BY <2>6, <2>9 DEF Promised!AbstractNext
<1>4. ASSUME NEW a \in Alarm, alt_alarm_stop(a)
      PROVE  AlarmsAhead' /\ [Promised!AbstractNext]_left
  <2>1. alarm' = [alarm EXCEPT ![a] = Off] /\ nticks' = nticks
    BY <1>4 DEF alt_alarm_stop
  <2>2. ~alarm'[a].on /\ \A x \in Alarm : x # a => alarm'[x] = alarm[x]
    BY <1>t, <2>1 DEF Off
  <2>3. TicksLeft(alarm[a])' = 0 /\ \A x \in Alarm : x # a => TicksLeft(alarm[x])' = TicksLeft(alarm[x])
    BY <2>1, <2>2 DEF TicksLeft
  <2>4. Promised!StopAlarm(a)
    BY <2>3 DEF Promised!StopAlarm
  <2>5. AlarmsAhead'
    BY <1>t, <2>1, <2>2 DEF AlarmsAhead
  <2> QED
    BY <2>4, <2>5 DEF Promised!AbstractNext
<1>5. CASE TimerCycle \/ get_total_cycles \/ UseResult
  BY <1>1, <1>5 DEF TimerCycle, get_total_cycles, ReadTicks, WriteSnapshot, ReadLow, ReadHigh,
     Compare, UseResult
<1>6. CASE UNCHANGED clockVars
  BY <1>1, <1>6 DEF clockVars
<1> QED
  BY <1>2, <1>3, <1>4, <1>5, <1>6 DEF ClockNext

(* Every variable keeps its type, the wrapping tick count included.        *)
THEOREM ClockTypeCorrect == ClockSpec => []ClockType
BY TypeInit, TypeStep, PTL DEF ClockSpec

(* The alarm list with its wrapping tick count implements AlarmClock.      *)
THEOREM ClockAlarmsPunctual == ClockSpec => AlarmsPunctual
<1>1. ClockInit => AlarmInv /\ Promised!AbstractInit
  BY TypeInit DEF ClockInit, AlarmInv, AlarmsAhead, Promised!AbstractInit, TicksLeft, Off
<1>2. AlarmInv /\ [ClockNext]_clockVars
        => AlarmInv' /\ [Promised!AbstractNext]_[a \in Alarm |-> TicksLeft(alarm[a])]
  BY AlarmStep DEF left
<1> QED
  BY <1>1, <1>2, PTL DEF ClockSpec, AlarmsPunctual, Promised!AbstractSpec
-----------------------------------------------------------------------------
(* The set-up of the HDMI transmitter.                                     *)

Fault == nack \/ arblost

(* The device has taken the write being sent.                              *)
Reached == written # <<>> /\ written[Len(written)] = item

Queued(q) ==
  /\ Len(fifo) <= q
  /\ \A n \in 1..Len(fifo) : fifo[n] = Command(q - Len(fifo) + n)

Heard(q) ==
  IF Fault THEN heard = <<>> /\ Len(fifo) < q /\ ~Reached
  ELSE \/ /\ Len(heard) = q - Len(fifo)
          /\ \A n \in 1..Len(heard) : heard[n] = Kind[n]
          /\ Reached <=> Len(heard) = 3
       \/ heard = <<>> /\ fifo = <<>> /\ q = 3 /\ Reached

(* What the driver knows of its attempt at each step.                      *)
Knows(q) ==
  /\ step = "command" => q = k - 1
  /\ step = "check" => q = k
  /\ step \in {"wait", "finish"} =>
       /\ status \in {"SUCCESS", "ARB_LOST_ERR", "NACK_ERR", "TIMEOUT"}
       /\ status = "SUCCESS" => q = 3
       /\ status \in {"ARB_LOST_ERR", "NACK_ERR"} => Fault
  /\ step = "finish" /\ status = "SUCCESS" => fifo = <<>>

Attempt == \E q \in 0..3 : Queued(q) /\ Heard(q) /\ Knows(q)

Quiet == ~enabled /\ fifo = <<>> /\ heard = <<>>

Kinds == {"address", "register", "value"}
Commands == [kind : Kinds, of : Nat, stop : BOOLEAN]

I2cTypeOK ==
  /\ enabled \in BOOLEAN /\ nack \in BOOLEAN /\ arblost \in BOOLEAN
  /\ fifo \in Seq(Commands) /\ heard \in Seq(Kinds)
  /\ written \in Seq(Nat) /\ item \in Nat /\ k \in 1..3
  /\ step \in {"done", "enable", "command", "check", "wait", "finish"}

WrittenUpToItem == \A n \in 1..Len(written) : written[n] <= item

SetupInv ==
  /\ I2cTypeOK
  /\ WrittenUpToItem
  /\ WrittenOnceInOrder
  /\ SuccessMeansWritten
  /\ phase # "writing" => step = "done"
  /\ step \in {"done", "enable"} => Quiet
  /\ step = "enable" => ~Reached
  /\ step \notin {"done", "enable"} => Attempt
-----------------------------------------------------------------------------
(* The three kinds of byte are a sequence without repetition.              *)
LEMMA KindFacts ==
  /\ Kind \in Seq(Kinds) /\ Len(Kind) = 3
  /\ Kind[1] = "address" /\ Kind[2] = "register" /\ Kind[3] = "value"
BY DEF Kind, Kinds

(* A command carries the kind of its place and the write being sent.       *)
LEMMA CommandFacts ==
  ASSUME NEW n \in 1..3, item \in Nat
  PROVE  /\ Command(n) \in Commands
         /\ Command(n).kind = Kind[n]
         /\ Command(n).of = item
<1>1. Kind[n] \in Kinds
  BY KindFacts DEF Kinds
<1>2. QED
  BY <1>1 DEF Command, Commands

(* What the device has heard is a whole write only after the third byte.   *)
LEMMA WholeHeard ==
  ASSUME NEW s \in Seq(Kinds), \A n \in 1..Len(s) : s[n] = Kind[n]
  PROVE  s = Kind <=> Len(s) = 3
<1>1. ASSUME Len(s) = 3 PROVE s = Kind
  <2>1. Len(s) = Len(Kind)
    BY <1>1, KindFacts
  <2>2. QED
    BY <2>1, KindFacts, SeqEqual
<1>2. QED
  BY <1>1, KindFacts

(* The last of a growing list is its greatest.                             *)
LEMMA NotYetReached ==
  ASSUME written \in Seq(Nat), NEW i \in Nat, \A n \in 1..Len(written) : written[n] < i,
         written # <<>>
  PROVE  written[Len(written)] # i
<1>1. Len(written) \in 1..Len(written)
  BY EmptySeq
<1>2. PICK m \in Nat : m = written[Len(written)]
  BY <1>1, ElementOfSeq
<1>3. m < i
  BY <1>1, <1>2
<1>4. QED
  BY <1>2, <1>3

(* A byte taken as the third of its write is the write's, and later than   *)
(* every write before it.                                                  *)
LEMMA WriteAppended ==
  ASSUME SetupInv, ~Reached, written' = Append(written, item), item' = item
  PROVE  /\ written' \in Seq(Nat) /\ WrittenUpToItem' /\ WrittenOnceInOrder' /\ Reached'
<1>1. /\ written \in Seq(Nat) /\ item \in Nat
      /\ \A n \in 1..Len(written) : written[n] <= item
      /\ \A n \in 1..(Len(written) - 1) : written[n] < written[n + 1]
  BY DEF SetupInv, I2cTypeOK, WrittenUpToItem, WrittenOnceInOrder
<1>2. PICK c \in Nat : c = Len(written)
  BY <1>1, LenProperties
<1>3. PICK w \in Seq(Nat) : w = written'
  BY <1>1, AppendProperties
<1>4. /\ Len(w) = c + 1 /\ w # <<>> /\ w[c + 1] = item
      /\ \A n \in 1..c : w[n] = written[n]
  BY <1>1, <1>2, <1>3, AppendProperties
<1>5. Reached'
  BY <1>3, <1>4 DEF Reached
<1>6. ASSUME NEW n \in 1..(c + 1) PROVE w[n] <= item
  <2>1. CASE n = c + 1
    BY <1>1, <1>4, <2>1
  <2>2. CASE n \in 1..c
    BY <1>1, <1>2, <1>4, <2>2
  <2>3. QED
    BY <1>2, <1>6, <2>1, <2>2
<1>7. ASSUME NEW n \in 1..c PROVE w[n] < w[n + 1]
  <2>1. CASE n = c
    <3>1. written # <<>> /\ written[c] # item
      BY <1>2, <1>7, <2>1, EmptySeq DEF Reached
    <3>2. PICK m \in Nat : m = written[c]
      BY <1>1, <1>2, <1>7, <2>1, ElementOfSeq
    <3>3. m <= item /\ m # item
      BY <1>1, <1>2, <1>7, <2>1, <3>1, <3>2
    <3>4. m < item
      BY <1>1, <3>3
    <3>5. QED
      BY <1>4, <1>7, <2>1, <3>2, <3>4
  <2>2. CASE n \in 1..(c - 1)
    <3>1. n \in 1..c /\ n + 1 \in 1..c
      BY <1>2, <2>2
    <3>2. written[n] < written[n + 1]
      BY <1>1, <1>2, <2>2
    <3>3. QED
      BY <1>4, <3>1, <3>2
  <2>3. QED
    BY <1>2, <1>7, <2>1, <2>2
<1>8. WrittenUpToItem'
  BY <1>3, <1>4, <1>6 DEF WrittenUpToItem
<1>9. WrittenOnceInOrder'
  <2>1. Len(w) - 1 = c
    BY <1>2, <1>4
  <2>2. QED
    BY <1>3, <1>7, <2>1 DEF WrittenOnceInOrder
<1>10. QED
  BY <1>3, <1>5, <1>8, <1>9
-----------------------------------------------------------------------------
LEMMA SetupInitial == SetupInit => SetupInv
<1> SUFFICES ASSUME SetupInit PROVE SetupInv
  OBVIOUS
<1>1. I2cTypeOK
  <2>1. <<>> \in Seq(Commands) /\ <<>> \in Seq(Kinds) /\ <<>> \in Seq(Nat)
    BY EmptySeq
  <2>2. enabled \in BOOLEAN /\ nack \in BOOLEAN /\ arblost \in BOOLEAN
    BY DEF SetupInit, I2cInit
  <2>3. item \in Nat /\ k \in 1..3 /\ step = "done"
    BY DEF SetupInit, I2cInit
  <2>4. fifo = <<>> /\ heard = <<>> /\ written = <<>>
    BY DEF SetupInit, I2cInit
  <2>5. QED
    BY <2>1, <2>2, <2>3, <2>4 DEF I2cTypeOK
<1>2. Len(written) = 0 /\ item = 0 /\ step = "done" /\ Quiet
  BY EmptySeq DEF SetupInit, I2cInit, Quiet
<1>3. WrittenUpToItem /\ WrittenOnceInOrder /\ SuccessMeansWritten
  BY <1>2 DEF WrittenUpToItem, WrittenOnceInOrder, SuccessMeansWritten
<1>4. QED
  BY <1>1, <1>2, <1>3 DEF SetupInv

-----------------------------------------------------------------------------
(* The core and the device.                                                *)

(* A byte is only taken, lost or freed during an attempt.                  *)
LEMMA CoreInAttempt ==
  ASSUME SetupInv, Core
  PROVE  step \notin {"done", "enable"} /\ Attempt
<1>1. ~Quiet
  BY DEF Core, ByteTaken, BusFreed, ByteFault, Quiet
<1>2. QED
  BY <1>1 DEF SetupInv

(* The command at the head of the queue.                                   *)
LEMMA HeadOfQueue ==
  ASSUME I2cTypeOK, NEW q \in 0..3, Queued(q), fifo # <<>>
  PROVE  /\ Len(fifo) \in 1..q
         /\ Head(fifo) = Command(q - Len(fifo) + 1)
         /\ Tail(fifo) \in Seq(Commands) /\ Len(Tail(fifo)) = Len(fifo) - 1
         /\ \A n \in 1..Len(Tail(fifo)) : Tail(fifo)[n] = Command(q - Len(Tail(fifo)) + n)
<1>1. fifo \in Seq(Commands)
  BY DEF I2cTypeOK
<1>2. PICK l \in Nat : l = Len(fifo) /\ l >= 1 /\ l <= q
  BY <1>1, EmptySeq DEF Queued
<1>3. \A n \in 1..l : fifo[n] = Command(q - l + n)
  BY <1>2 DEF Queued
<1>4. Head(fifo) = Command(q - l + 1)
  <2>1. 1 \in 1..l
    BY <1>2
  <2>2. QED
    BY <1>3, <2>1
<1>5. /\ Tail(fifo) \in Seq(Commands) /\ Len(Tail(fifo)) = l - 1
      /\ \A n \in 1..(l - 1) : Tail(fifo)[n] = fifo[n + 1]
  BY <1>1, <1>2, HeadTailProperties
<1>6. ASSUME NEW n \in 1..(l - 1) PROVE Tail(fifo)[n] = Command(q - (l - 1) + n)
  <2>1. n + 1 \in 1..l /\ q - l + (n + 1) = q - (l - 1) + n
    BY <1>2, <1>6
  <2>2. QED
    BY <1>3, <1>5, <1>6, <2>1
<1>7. l \in 1..q
  BY <1>2
<1>8. QED
  BY <1>2, <1>4, <1>5, <1>6, <1>7

LEMMA ByteTakenKeeps ==
  ASSUME SetupInv, ByteTaken, UNCHANGED <<phase, polls, result>>
  PROVE  SetupInv'
<1> DEFINE c == Head(fifo)
<1>1. /\ enabled /\ fifo # <<>>
      /\ heard = <<>> => c.kind = "address"
      /\ fifo' = Tail(fifo)
      /\ heard' = Append(heard, c.kind)
      /\ written' = IF heard' = Kind THEN Append(written, c.of) ELSE written
      /\ UNCHANGED <<enabled, nack, arblost, item, step, k, status, phase>>
  BY DEF ByteTaken, driverVars
<1>2. /\ I2cTypeOK /\ WrittenUpToItem /\ WrittenOnceInOrder
      /\ phase # "writing" => step = "done"
  BY DEF SetupInv
<1>3. step \notin {"done", "enable"} /\ Attempt
  BY CoreInAttempt DEF Core
<1>4. PICK q \in 0..3 : Queued(q) /\ Heard(q) /\ Knows(q)
  BY <1>3 DEF Attempt
<1>5. /\ Len(fifo) \in 1..q
      /\ c = Command(q - Len(fifo) + 1)
      /\ fifo' \in Seq(Commands) /\ Len(fifo') = Len(fifo) - 1
      /\ \A n \in 1..Len(fifo') : fifo'[n] = Command(q - Len(fifo') + n)
  BY <1>1, <1>2, <1>4, HeadOfQueue
<1> HIDE DEF c
<1>6. PICK l \in Nat : l = Len(fifo) /\ l >= 1 /\ l <= q
  BY <1>5
<1>7. q - l + 1 \in 1..3 /\ q - l \in 0..2
  BY <1>6
<1>8. /\ c.kind = Kind[q - l + 1] /\ c.of = item /\ c.kind \in Kinds
      /\ item \in Nat /\ heard \in Seq(Kinds)
  BY <1>2, <1>5, <1>6, <1>7, CommandFacts DEF Commands, I2cTypeOK
<1>9. q - l = 0 \/ heard # <<>>
  <2>1. CASE heard = <<>>
    <3>1. Kind[q - l + 1] = "address"
      BY <1>1, <1>8, <2>1
    <3>2. QED
      BY <1>7, <3>1, KindFacts
  <2>2. QED
    BY <2>1
<1>10. ~Fault
  <2>1. CASE Fault
    BY <1>4, <1>6, <1>9, <2>1 DEF Heard
  <2>2. QED
    BY <2>1
<1>11. /\ Len(heard) = q - l
       /\ \A n \in 1..(q - l) : heard[n] = Kind[n]
       /\ ~Reached
  <2>1. \/ /\ Len(heard) = q - l
           /\ \A n \in 1..Len(heard) : heard[n] = Kind[n]
           /\ Reached <=> Len(heard) = 3
        \/ fifo = <<>>
    BY <1>4, <1>6, <1>10 DEF Heard
  <2>2. /\ Len(heard) = q - l
        /\ \A n \in 1..Len(heard) : heard[n] = Kind[n]
        /\ Reached <=> Len(heard) = 3
    BY <1>1, <2>1
  <2>3. Len(heard) # 3
    BY <1>7, <2>2
  <2>4. QED
    BY <2>2, <2>3
<1>12. PICK h \in Seq(Kinds) : h = heard'
  BY <1>1, <1>8, AppendProperties
<1>13. /\ Len(h) = q - l + 1 /\ h[q - l + 1] = Kind[q - l + 1]
       /\ \A n \in 1..(q - l) : h[n] = Kind[n]
  BY <1>1, <1>8, <1>11, <1>12, AppendProperties
<1>14. \A n \in 1..Len(h) : h[n] = Kind[n]
  BY <1>7, <1>13
<1>15. h = Kind <=> Len(h) = 3
  BY <1>14, WholeHeard
<1>16. /\ written' \in Seq(Nat) /\ WrittenUpToItem' /\ WrittenOnceInOrder'
       /\ Reached' <=> Len(h) = 3
  <2>1. CASE Len(h) = 3
    <3>1. written' = Append(written, item)
      BY <1>1, <1>8, <1>12, <1>15, <2>1
    <3>2. QED
      BY <1>1, <1>11, <2>1, <3>1, WriteAppended
  <2>2. CASE Len(h) # 3
    <3>1. UNCHANGED <<written, item>>
      BY <1>1, <1>12, <1>15, <2>2
    <3>2. QED
      BY <1>2, <1>11, <2>2, <3>1 DEF I2cTypeOK, WrittenUpToItem, WrittenOnceInOrder, Reached
  <2>3. QED
    BY <2>1, <2>2
<1>17. I2cTypeOK'
  BY <1>1, <1>2, <1>5, <1>12, <1>16 DEF I2cTypeOK
<1>18. Queued(q)'
  <2>1. Len(fifo') <= q
    BY <1>5, <1>6
  <2>2. \A n : Command(n)' = Command(n)
    BY <1>1 DEF Command
  <2>3. QED
    BY <1>5, <2>1, <2>2 DEF Queued
<1>19. Heard(q)'
  <2>1. ~Fault'
    BY <1>1, <1>10 DEF Fault
  <2>2. Len(h) = q - Len(fifo')
    BY <1>5, <1>6, <1>13
  <2>3. QED
    BY <1>12, <1>14, <1>16, <2>1, <2>2 DEF Heard
<1>20. Knows(q)'
  BY <1>1, <1>4, <1>10 DEF Knows, Fault
<1>21. QED
  BY <1>1, <1>2, <1>3, <1>16, <1>17, <1>18, <1>19, <1>20
     DEF SetupInv, Attempt, SuccessMeansWritten

LEMMA BusFreedKeeps ==
  ASSUME SetupInv, BusFreed, UNCHANGED <<phase, polls, result>>
  PROVE  SetupInv'
<1>1. /\ enabled /\ heard = Kind /\ heard' = <<>>
      /\ UNCHANGED <<enabled, fifo, nack, arblost, written, item, step, k, status, phase>>
  BY DEF BusFreed, driverVars
<1>2. /\ I2cTypeOK /\ WrittenUpToItem /\ WrittenOnceInOrder
      /\ phase # "writing" => step = "done"
  BY DEF SetupInv
<1>3. step \notin {"done", "enable"} /\ Attempt
  BY CoreInAttempt DEF Core
<1>4. PICK q \in 0..3 : Queued(q) /\ Heard(q) /\ Knows(q)
  BY <1>3 DEF Attempt
<1>5. Len(heard) = 3 /\ heard # <<>>
  BY <1>1, KindFacts, EmptySeq
<1>6. ~Fault /\ Reached /\ Len(heard) = q - Len(fifo)
  BY <1>4, <1>5 DEF Heard
<1>7. q = 3 /\ fifo = <<>>
  <2>1. PICK l \in Nat : l = Len(fifo)
    BY <1>2, LenProperties DEF I2cTypeOK
  <2>2. q \in 0..3 /\ 3 = q - l
    BY <1>4, <1>5, <1>6, <2>1
  <2>3. q = 3 /\ l = 0
    BY <2>1, <2>2
  <2>4. QED
    BY <1>2, <2>1, <2>3, EmptySeq DEF I2cTypeOK
<1>8. I2cTypeOK'
  <2>1. <<>> \in Seq(Kinds)
    BY EmptySeq
  <2>2. QED
    BY <1>1, <1>2, <2>1 DEF I2cTypeOK
<1>9. Queued(q)'
  BY <1>1, <1>4 DEF Queued, Command
<1>10. Heard(q)'
  BY <1>1, <1>6, <1>7 DEF Heard, Fault, Reached
<1>11. Knows(q)'
  BY <1>1, <1>4 DEF Knows, Fault
<1>12. WrittenUpToItem' /\ WrittenOnceInOrder'
  BY <1>1, <1>2 DEF WrittenUpToItem, WrittenOnceInOrder
<1>13. QED
  BY <1>1, <1>2, <1>3, <1>8, <1>9, <1>10, <1>11, <1>12
     DEF SetupInv, Attempt, SuccessMeansWritten

LEMMA ByteFaultKeeps ==
  ASSUME SetupInv, ByteFault, UNCHANGED <<phase, polls, result>>
  PROVE  SetupInv'
<1>1. /\ enabled /\ fifo # <<>> /\ heard' = <<>>
      /\ fifo' \in {<<>>, Tail(fifo)}
      /\ UNCHANGED <<enabled, written, item, step, k, status, phase>>
  BY DEF ByteFault, driverVars
<1>2. /\ I2cTypeOK /\ WrittenUpToItem /\ WrittenOnceInOrder
      /\ phase # "writing" => step = "done"
  BY DEF SetupInv
<1>3. step \notin {"done", "enable"} /\ Attempt
  BY CoreInAttempt DEF Core
<1>4. PICK q \in 0..3 : Queued(q) /\ Heard(q) /\ Knows(q)
  BY <1>3 DEF Attempt
<1>5. /\ Len(fifo) \in 1..q
      /\ Tail(fifo) \in Seq(Commands) /\ Len(Tail(fifo)) = Len(fifo) - 1
      /\ \A n \in 1..Len(Tail(fifo)) : Tail(fifo)[n] = Command(q - Len(Tail(fifo)) + n)
  BY <1>1, <1>2, <1>4, HeadOfQueue
<1>6. Fault' /\ nack' \in BOOLEAN /\ arblost' \in BOOLEAN
  BY <1>2 DEF ByteFault, Fault, I2cTypeOK
<1>7. PICK l \in Nat : l = Len(fifo) /\ l >= 1 /\ l <= q
  <2>1. Len(fifo) \in 1..q /\ q \in 0..3
    BY <1>4, <1>5
  <2>2. Len(fifo) \in Nat /\ Len(fifo) >= 1 /\ Len(fifo) <= q
    BY <2>1
  <2>3. QED
    BY <2>2
<1>8. ~Reached
  <2>1. CASE Fault
    BY <1>4, <2>1 DEF Heard
  <2>2. CASE ~Fault
    <3>1. Len(heard) = q - l /\ (Reached <=> Len(heard) = 3)
      BY <1>1, <1>4, <1>7, <2>2 DEF Heard
    <3>2. q - l # 3
      BY <1>7
    <3>3. QED
      BY <3>1, <3>2
  <2>3. QED
    BY <2>1, <2>2
<1>9. /\ fifo' \in Seq(Commands) /\ Len(fifo') < q
      /\ \A n \in 1..Len(fifo') : fifo'[n] = Command(q - Len(fifo') + n)
  <2>1. CASE fifo' = <<>>
    <3>1. fifo' \in Seq(Commands) /\ Len(fifo') = 0
      BY <2>1, EmptySeq
    <3>2. 0 < q
      BY <1>7
    <3>3. QED
      BY <3>1, <3>2
  <2>2. CASE fifo' = Tail(fifo)
    <3>1. l - 1 < q
      BY <1>7
    <3>2. QED
      BY <1>5, <1>7, <2>2, <3>1
  <2>3. QED
    BY <1>1, <2>1, <2>2
<1>10. I2cTypeOK'
  <2>1. <<>> \in Seq(Kinds)
    BY EmptySeq
  <2>2. QED
    BY <1>1, <1>2, <1>6, <1>9, <2>1 DEF I2cTypeOK
<1>11. Queued(q)'
  <2>1. \A n : Command(n)' = Command(n)
    BY <1>1 DEF Command
  <2>2. Len(fifo') <= q
    <3>1. PICK m \in Nat : m = Len(fifo')
      BY <1>9, LenProperties
    <3>2. QED
      BY <1>9, <3>1
  <2>3. QED
    BY <1>9, <2>1, <2>2 DEF Queued
<1>12. Heard(q)'
  BY <1>1, <1>6, <1>8, <1>9 DEF Heard, Reached
<1>13. Knows(q)'
  <2>1. fifo' = fifo \/ ~(step = "finish" /\ status = "SUCCESS")
    BY <1>1, <1>4 DEF Knows
  <2>2. QED
    BY <1>1, <1>4, <1>6, <2>1 DEF Knows
<1>14. WrittenUpToItem' /\ WrittenOnceInOrder'
  BY <1>1, <1>2 DEF WrittenUpToItem, WrittenOnceInOrder
<1>15. QED
  BY <1>1, <1>2, <1>3, <1>10, <1>11, <1>12, <1>13, <1>14
     DEF SetupInv, Attempt, SuccessMeansWritten

-----------------------------------------------------------------------------
(* The driver.                                                             *)

(* What a step of the driver that leaves the list of writes alone has to   *)
(* show of the rest.                                                       *)
LEMMA DriverKeeps ==
  ASSUME SetupInv, step # "done",
         UNCHANGED <<written, item, phase>>,
         I2cTypeOK', SuccessMeansWritten',
         step' \in {"done", "enable"} => Quiet',
         step' = "enable" => ~Reached,
         step' \notin {"done", "enable"} => Attempt'
  PROVE  SetupInv'
<1>1. WrittenUpToItem' /\ WrittenOnceInOrder'
  BY DEF SetupInv, WrittenUpToItem, WrittenOnceInOrder
<1>2. (phase # "writing" => step = "done")'
  BY DEF SetupInv
<1>3. (step = "enable" => ~Reached)'
  BY DEF Reached
<1>4. QED
  BY <1>1, <1>2, <1>3 DEF SetupInv

LEMMA EnableKeeps ==
  ASSUME SetupInv, Enable, UNCHANGED <<phase, polls, result>>
  PROVE  SetupInv'
<1>1. /\ step = "enable" /\ Quiet /\ ~Reached /\ I2cTypeOK
  BY DEF SetupInv, Enable
<1>2. /\ enabled' = TRUE /\ nack' = FALSE /\ arblost' = FALSE
      /\ step' = "command" /\ k' = 1
      /\ UNCHANGED <<fifo, heard, written, item, phase>>
  BY <1>1 DEF Enable, Quiet
<1>3. fifo' = <<>> /\ heard' = <<>> /\ Len(<<>>) = 0 /\ ~Fault' /\ ~Reached'
  BY <1>1, <1>2, EmptySeq DEF Quiet, Fault, Reached
<1>4. Queued(0)' /\ Heard(0)' /\ Knows(0)'
  <2>1. Len(fifo') = 0 /\ Len(heard') = 0 /\ 1..0 = {}
    BY <1>3
  <2>2. Queued(0)'
    BY <2>1 DEF Queued
  <2>3. Heard(0)'
    <3>1. Len(heard') # 3 /\ Len(heard') = 0 - Len(fifo')
      BY <2>1
    <3>2. \A n \in 1..Len(heard') : heard'[n] = Kind[n]
      BY <2>1
    <3>3. QED
      BY <1>3, <3>1, <3>2 DEF Heard
  <2>4. Knows(0)'
    BY <1>2 DEF Knows
  <2>5. QED
    BY <2>2, <2>3, <2>4
<1>5. Attempt'
  <2>1. 0 \in 0..3
    OBVIOUS
  <2>2. QED
    BY <1>4, <2>1, Zenon DEF Attempt
<1>6. I2cTypeOK'
  <2>1. enabled' \in BOOLEAN /\ nack' \in BOOLEAN /\ arblost' \in BOOLEAN
    BY <1>2
  <2>2. QED
    BY <1>1, <1>2, <2>1 DEF I2cTypeOK
<1>7. SuccessMeansWritten'
  BY <1>2 DEF SuccessMeansWritten
<1>8. QED
  BY <1>1, <1>2, <1>5, <1>6, <1>7, DriverKeeps

(* A step that only counts, waits or moves on: the queue, the device and   *)
(* the flags stay as they are.                                             *)
LEMMA AttemptGoesOn ==
  ASSUME SetupInv, step \in {"command", "check", "wait", "finish"},
         step' \in {"command", "check", "wait", "finish"}, k' \in 1..3,
         UNCHANGED <<coreVars, written, item, phase>>,
         \A q \in 0..3 : Queued(q) /\ Heard(q) /\ Knows(q) => Knows(q)'
  PROVE  SetupInv'
<1>1. UNCHANGED <<enabled, fifo, nack, arblost, heard>>
  BY DEF coreVars
<1>2. I2cTypeOK /\ Attempt
  BY DEF SetupInv
<1>3. PICK q \in 0..3 : Queued(q) /\ Heard(q) /\ Knows(q)
  BY <1>2 DEF Attempt
<1>4. Queued(q)' /\ Heard(q)' /\ Knows(q)'
  BY <1>1, <1>3 DEF Queued, Heard, Command, Fault, Reached
<1>5. Attempt'
  BY <1>4 DEF Attempt
<1>6. I2cTypeOK'
  BY <1>1, <1>2 DEF I2cTypeOK
<1>7. SuccessMeansWritten'
  BY DEF SuccessMeansWritten
<1>8. QED
  BY <1>5, <1>6, <1>7, DriverKeeps

LEMMA RoomPollKeeps ==
  ASSUME SetupInv, RoomPoll, UNCHANGED <<phase, polls, result>>
  PROVE  SetupInv'
<1>1. /\ step = "command" /\ k' = k
      /\ \/ step' = step /\ status' = status
         \/ step' = "wait" /\ status' = "TIMEOUT"
      /\ UNCHANGED <<coreVars, written, item, phase>>
  BY DEF RoomPoll
<1>2. k' \in 1..3
  BY <1>1 DEF SetupInv, I2cTypeOK
<1>3. ASSUME NEW q \in 0..3, Knows(q) PROVE Knows(q)'
  BY <1>1, <1>3 DEF Knows
<1>4. QED
  BY <1>1, <1>2, <1>3, AttemptGoesOn

LEMMA CmdWriteKeeps ==
  ASSUME SetupInv, cmd_write, UNCHANGED <<phase, polls, result>>
  PROVE  SetupInv'
<1>1. /\ step = "command" /\ step' = "check"
      /\ fifo' = Append(fifo, Command(k))
      /\ UNCHANGED <<enabled, nack, arblost, heard, written, item, k, status, phase>>
  BY DEF cmd_write
<1>2. I2cTypeOK /\ Attempt
  BY <1>1 DEF SetupInv
<1>3. /\ k \in 1..3 /\ Command(k) \in Commands /\ fifo \in Seq(Commands)
  BY <1>2, CommandFacts DEF I2cTypeOK
<1>4. PICK q \in 0..3 : Queued(q) /\ Heard(q) /\ Knows(q)
  BY <1>2 DEF Attempt
<1>5. q = k - 1
  BY <1>1, <1>4 DEF Knows
<1>6. PICK l \in Nat : l = Len(fifo) /\ l <= q
  BY <1>3, <1>4, LenProperties DEF Queued
<1>7. PICK f \in Seq(Commands) : f = fifo'
  BY <1>1, <1>3, AppendProperties
<1>8. /\ Len(f) = l + 1 /\ f[l + 1] = Command(k)
      /\ \A n \in 1..l : f[n] = Command(q - l + n)
  BY <1>1, <1>3, <1>4, <1>6, <1>7, AppendProperties DEF Queued
<1>9. Queued(k)'
  <2>1. l + 1 <= k
    BY <1>3, <1>5, <1>6
  <2>2. ASSUME NEW n \in 1..(l + 1) PROVE f[n] = Command(k - (l + 1) + n)
    <3>1. CASE n = l + 1
      <4>1. k - (l + 1) + n = k
        BY <1>3, <1>6, <3>1
      <4>2. QED
        BY <1>8, <3>1, <4>1
    <3>2. CASE n \in 1..l
      <4>1. k - (l + 1) + n = q - l + n
        BY <1>3, <1>5, <1>6, <3>2
      <4>2. QED
        BY <1>8, <3>2, <4>1
    <3>3. QED
      BY <1>6, <2>2, <3>1, <3>2
  <2>3. \A n : Command(n)' = Command(n)
    BY <1>1 DEF Command
  <2>4. k' = k
    BY <1>1
  <2>5. QED
    BY <1>7, <1>8, <2>1, <2>2, <2>3, <2>4 DEF Queued
<1>10. Heard(k)'
  <2>1. q # 3 /\ q - l = k - (l + 1) /\ (l < q => l + 1 < k)
    BY <1>3, <1>5, <1>6
  <2>2. /\ Fault' <=> Fault
        /\ Reached' <=> Reached
        /\ heard' = heard /\ Len(fifo') = l + 1 /\ k' = k
    BY <1>1, <1>7, <1>8 DEF Fault, Reached
  <2>3. QED
    BY <1>4, <1>6, <2>1, <2>2 DEF Heard
<1>11. Knows(k)'
  BY <1>1 DEF Knows
<1>12. Attempt'
  <2>1. k' = k /\ k \in 0..3
    BY <1>1, <1>3
  <2>2. QED
    BY <1>9, <1>10, <1>11, <2>1 DEF Attempt
<1>13. I2cTypeOK'
  BY <1>1, <1>2, <1>7 DEF I2cTypeOK
<1>14. QED
  BY <1>1, <1>12, <1>13, DriverKeeps DEF SuccessMeansWritten

LEMMA CheckKeeps ==
  ASSUME SetupInv, Check, UNCHANGED <<phase, polls, result>>
  PROVE  SetupInv'
<1>1. /\ step = "check" /\ status' = CommandStatus
      /\ \/ status' = "SUCCESS" /\ k < 3 /\ step' = "command" /\ k' = k + 1
         \/ ~(status' = "SUCCESS" /\ k < 3) /\ step' = "wait" /\ k' = k
      /\ UNCHANGED <<coreVars, written, item, phase>>
  BY DEF Check
<1>2. k \in 1..3
  BY DEF SetupInv, I2cTypeOK
<1>3. k' \in 1..3
  BY <1>1, <1>2
<1>4. UNCHANGED <<nack, arblost>>
  BY <1>1 DEF coreVars
<1>5. /\ status' \in {"SUCCESS", "ARB_LOST_ERR", "NACK_ERR"}
      /\ status' # "SUCCESS" => Fault'
  BY <1>1, <1>4 DEF CommandStatus, Fault
<1>6. ASSUME NEW q \in 0..3, Knows(q) PROVE Knows(q)'
  <2>1. q = k
    BY <1>1, <1>6 DEF Knows
  <2>2. CASE status' = "SUCCESS" /\ k < 3
    BY <1>1, <1>2, <2>1, <2>2 DEF Knows
  <2>3. CASE ~(status' = "SUCCESS" /\ k < 3)
    <3>1. status' = "SUCCESS" => q = 3
      BY <1>2, <2>1, <2>3
    <3>2. step' = "wait"
      BY <1>1, <2>3
    <3>3. QED
      BY <1>5, <3>1, <3>2 DEF Knows
  <2>4. QED
    BY <2>2, <2>3
<1>7. QED
  BY <1>1, <1>3, <1>6, AttemptGoesOn

LEMMA WaitKeeps ==
  ASSUME SetupInv, BusyPoll \/ IdleSeen, UNCHANGED <<phase, polls, result>>
  PROVE  SetupInv'
<1>1. /\ step = "wait" /\ step' \in {"wait", "finish"} /\ k' = k
      /\ UNCHANGED <<coreVars, written, item, phase>>
  BY DEF BusyPoll, IdleSeen
<1>2. UNCHANGED <<fifo, nack, arblost>>
  BY <1>1 DEF coreVars
<1>3. \/ status' = status /\ (step' = "finish" => fifo = <<>>)
      \/ status' = "TIMEOUT"
  BY <1>1 DEF BusyPoll, IdleSeen, is_busy
<1>4. k' \in 1..3
  BY <1>1 DEF SetupInv, I2cTypeOK
<1>5. ASSUME NEW q \in 0..3, Knows(q) PROVE Knows(q)'
  BY <1>1, <1>2, <1>3, <1>5 DEF Knows, Fault
<1>6. QED
  BY <1>1, <1>4, <1>5, AttemptGoesOn

(* An attempt is tried again only if the device has not taken the write,   *)
(* and a success is only reported if it has.                               *)
LEMMA FinishKeeps ==
  ASSUME SetupInv, Finish, UNCHANGED <<phase, polls, result>>
  PROVE  SetupInv'
<1> DEFINE s == IF nack THEN "NACK_ERR" ELSE status
<1>1. /\ step = "finish" /\ Return(s)
      /\ enabled' = FALSE /\ fifo' = <<>> /\ heard' = <<>>
      /\ UNCHANGED <<nack, arblost, written, item, k, phase>>
  BY DEF Finish
<1>2. I2cTypeOK /\ Attempt
  BY <1>1 DEF SetupInv
<1>3. PICK q \in 0..3 : Queued(q) /\ Heard(q) /\ Knows(q)
  BY <1>2 DEF Attempt
<1>4. /\ status \in {"SUCCESS", "ARB_LOST_ERR", "NACK_ERR", "TIMEOUT"}
      /\ status = "SUCCESS" => q = 3 /\ fifo = <<>>
      /\ status \in {"ARB_LOST_ERR", "NACK_ERR"} => Fault
  BY <1>1, <1>3 DEF Knows
<1>5. s \in Retryable => Fault
  BY <1>4 DEF Retryable, Fault
<1>6. s = "SUCCESS" => ~nack /\ status = "SUCCESS"
  OBVIOUS
<1> HIDE DEF s
<1>7. step' \in {"enable", "done"} /\ status' = s /\ (step' = "enable" => Fault)
  BY <1>1, <1>5 DEF Return
<1>8. step' = "enable" => ~Reached
  BY <1>3, <1>7 DEF Heard
<1>9. ASSUME s = "SUCCESS", ~arblost PROVE Reached
  <2>1. ~Fault /\ q = 3 /\ fifo = <<>>
    BY <1>4, <1>6, <1>9 DEF Fault
  <2>2. Len(fifo) = 0
    BY <2>1, EmptySeq
  <2>3. QED
    BY <1>3, <2>1, <2>2 DEF Heard
<1>10. SuccessMeansWritten'
  BY <1>1, <1>7, <1>9 DEF SuccessMeansWritten, Reached
<1>11. I2cTypeOK'
  <2>1. <<>> \in Seq(Commands) /\ <<>> \in Seq(Kinds)
    BY EmptySeq
  <2>2. QED
    BY <1>1, <1>2, <1>7, <2>1 DEF I2cTypeOK
<1>12. Quiet'
  BY <1>1 DEF Quiet
<1>13. QED
  BY <1>1, <1>7, <1>8, <1>10, <1>11, <1>12, DriverKeeps

-----------------------------------------------------------------------------
(* hdmi_init.                                                              *)

LEMMA CallKeeps ==
  ASSUME SetupInv, Call
  PROVE  SetupInv'
<1>1. /\ phase = "menu" /\ phase' = "pll" /\ item' = 0 /\ written' = <<>>
      /\ UNCHANGED <<enabled, fifo, nack, arblost, heard, step, k, status>>
  BY DEF Call, coreVars, driverVars
<1>2. step = "done" /\ I2cTypeOK /\ Quiet
  BY <1>1 DEF SetupInv
<1>3. <<>> \in Seq(Nat) /\ Len(<<>>) = 0
  BY EmptySeq
<1>4. I2cTypeOK'
  BY <1>1, <1>2, <1>3 DEF I2cTypeOK
<1>5. WrittenUpToItem' /\ WrittenOnceInOrder' /\ SuccessMeansWritten'
  BY <1>1, <1>3 DEF WrittenUpToItem, WrittenOnceInOrder, SuccessMeansWritten
<1>6. Quiet'
  BY <1>1, <1>2 DEF Quiet
<1>7. QED
  BY <1>1, <1>2, <1>4, <1>5, <1>6 DEF SetupInv

LEMMA NextWriteKeeps ==
  ASSUME SetupInv, hdmi_i2c_write
  PROVE  SetupInv'
<1>1. /\ step = "done" /\ step' = "enable" /\ phase = "writing" /\ item' = item + 1
      /\ UNCHANGED <<enabled, fifo, nack, arblost, heard, written, k, status, phase>>
  BY DEF hdmi_i2c_write, master_tx, coreVars
<1>2. I2cTypeOK /\ Quiet /\ WrittenUpToItem /\ WrittenOnceInOrder
  BY <1>1 DEF SetupInv
<1>3. /\ written \in Seq(Nat) /\ item \in Nat /\ item + 1 \in Nat
      /\ \A n \in 1..Len(written) : written[n] <= item
  BY <1>2 DEF I2cTypeOK, WrittenUpToItem
<1>4. ASSUME NEW n \in 1..Len(written) PROVE written[n] < item + 1
  <2>1. PICK m \in Nat : m = written[n]
    BY <1>3, <1>4, ElementOfSeq
  <2>2. m <= item
    BY <1>3, <1>4, <2>1
  <2>3. QED
    BY <1>3, <2>1, <2>2
<1>5. I2cTypeOK'
  BY <1>1, <1>2, <1>3 DEF I2cTypeOK
<1>6. WrittenUpToItem'
  <2>1. ASSUME NEW n \in 1..Len(written) PROVE written[n] <= item + 1
    <3>1. PICK m \in Nat : m = written[n]
      BY <1>3, <2>1, ElementOfSeq
    <3>2. QED
      BY <1>3, <1>4, <2>1, <3>1
  <2>2. QED
    BY <1>1, <2>1 DEF WrittenUpToItem
<1>7. ~Reached'
  <2>1. written # <<>> => written[Len(written)] # item + 1
    BY <1>3, <1>4, NotYetReached
  <2>2. QED
    BY <1>1, <2>1 DEF Reached
<1>8. WrittenOnceInOrder' /\ SuccessMeansWritten' /\ Quiet'
  BY <1>1, <1>2 DEF WrittenOnceInOrder, SuccessMeansWritten, Quiet
<1>9. QED
  BY <1>1, <1>5, <1>6, <1>7, <1>8 DEF SetupInv

(* What hdmi_init does between its calls of the driver.                    *)
LEMMA PhaseKeeps ==
  ASSUME SetupInv, (\E locked \in BOOLEAN : PllPoll(locked)) \/ Configured
  PROVE  SetupInv'
<1>1. UNCHANGED i2cVars /\ step = "done"
  BY DEF SetupInv, PllPoll, Configured
<1>2. UNCHANGED <<enabled, fifo, nack, arblost, heard, written, item, step, k, status>>
  BY <1>1 DEF i2cVars, coreVars, driverVars
<1>3. QED
  BY <1>1, <1>2 DEF SetupInv, I2cTypeOK, WrittenUpToItem, WrittenOnceInOrder,
                    SuccessMeansWritten, Quiet

LEMMA SetupStep == SetupInv /\ [SetupNext]_setupVars => SetupInv'
<1> SUFFICES ASSUME SetupInv, [SetupNext]_setupVars PROVE SetupInv'
  OBVIOUS
<1>1. CASE Call
  BY <1>1, CallKeeps
<1>2. CASE (\E locked \in BOOLEAN : PllPoll(locked)) \/ Configured
  BY <1>2, PhaseKeeps
<1>3. CASE hdmi_i2c_write
  BY <1>3, NextWriteKeeps
<1>4. CASE Driver /\ UNCHANGED <<phase, polls, result>>
  BY <1>4, EnableKeeps, RoomPollKeeps, CmdWriteKeeps, CheckKeeps, WaitKeeps, FinishKeeps
     DEF Driver
<1>5. CASE Core /\ UNCHANGED <<phase, polls, result>>
  BY <1>5, ByteTakenKeeps, BusFreedKeeps, ByteFaultKeeps DEF Core
<1>6. CASE UNCHANGED setupVars
  <2>1. UNCHANGED <<enabled, fifo, nack, arblost, heard, written, item, step, k, status, phase>>
    BY <1>6 DEF setupVars, i2cVars, coreVars, driverVars
  <2>2. (Attempt' <=> Attempt) /\ (Reached' <=> Reached)
    BY <2>1 DEF Attempt, Queued, Heard, Knows, Command, Fault, Reached
  <2>3. QED
    BY <2>1, <2>2 DEF SetupInv, I2cTypeOK, WrittenUpToItem, WrittenOnceInOrder,
                      SuccessMeansWritten, Quiet
<1>7. QED
  BY <1>1, <1>2, <1>3, <1>4, <1>5, <1>6 DEF SetupNext, Software

(* A write reported as SUCCESS has reached the transmitter, unless         *)
(* arbitration was lost after the last look at it: a NACK is never         *)
(* overlooked.                                                             *)
THEOREM SetupSuccessMeansWritten == SetupSpec => []SuccessMeansWritten
<1>1. SetupInv => SuccessMeansWritten
  BY DEF SetupInv
<1>2. QED
  BY <1>1, SetupInitial, SetupStep, PTL DEF SetupSpec

(* Whatever is retried or times out, the transmitter takes each register   *)
(* of the list at most once and in the order of the list.                  *)
THEOREM SetupWrittenOnceInOrder == SetupSpec => []WrittenOnceInOrder
<1>1. SetupInv => WrittenOnceInOrder
  BY DEF SetupInv
<1>2. QED
  BY <1>1, SetupInitial, SetupStep, PTL DEF SetupSpec
=============================================================================
