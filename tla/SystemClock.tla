---------------------------- MODULE SystemClock ----------------------------
(***************************************************************************)
(* Time on the Nios II: the interval timer TIMER_0, its interrupt handler  *)
(* (altera_avalon_timer_sc.c), the tick count and alarm list of the HAL    *)
(* (alt_tick.c, alt_alarm_start.c), and get_total_cycles of                *)
(* video_app2/common.c, which joins the tick count and a snapshot of the   *)
(* timer into one 64-bit cycle count while both go on moving.              *)
(*                                                                         *)
(* The timer, external hardware, counts LOAD .. 0 and starts again, and    *)
(* raises its timeout flag at each start; main() and alt_sys_init leave it *)
(* in that mode.  The processor takes the interrupt when it can: at most   *)
(* LATENCY more reads or writes of the program come first.                 *)
(***************************************************************************)
EXTENDS Naturals

CONSTANTS
  LOAD,          \* load value of the timer: 49999
  SPAN,          \* 2^32: alt_nticks and alarm times are alt_u32
  HALF,          \* 2^16: the snapshot is read in two halves
  LATENCY,       \* steps of the program a pending interrupt may wait for
  PASS_CYCLES,   \* bound: clock cycles one pass of the reading loop may take
  Alarm          \* the alarm structures of the program

ASSUME ClockAssumption ==
  /\ LOAD \in Nat /\ SPAN \in Nat /\ HALF \in Nat
  /\ LOAD > 0 /\ SPAN > 2 /\ HALF > 0
  /\ LATENCY \in 0..3
  /\ PASS_CYCLES \in 0..LOAD

VARIABLES
  count, timed_out,        \* the timer: its counter and its interrupt flag
  nticks,                  \* _alt_nticks
  alarm,                   \* the alarm list: [on, time, rollover] of each
  pc, t1, snap, low, high, \* get_total_cycles
  waited,                  \* steps of the program since timed_out was set
  passed,                  \* cycles since t1 was read
  taken,                   \* the true time at the snapshot, for ReadingExact
  cycles                   \* the last result

timerVars == <<count, timed_out>>
readVars  == <<pc, t1, snap, low, high, passed, taken, cycles>>
clockVars == <<timerVars, nticks, alarm, readVars, waited>>

Off == [on |-> FALSE, time |-> 0, rollover |-> FALSE]

ClockInit ==
  /\ count = LOAD /\ timed_out = FALSE
  /\ nticks = 0
  /\ alarm = [a \in Alarm |-> Off]
  /\ pc = "idle" /\ t1 = 0 /\ snap = 0 /\ low = 0 /\ high = 0
  /\ waited = 0 /\ passed = 0 /\ taken = 0 /\ cycles = 0

(* Cycles since start, as far as SPAN ticks can tell them apart: a timeout *)
(* not yet served is a tick that nticks still lacks.                       *)
TrueTicks == (nticks + (IF timed_out THEN 1 ELSE 0)) % SPAN
Cycles(ticks, value) == ticks * (LOAD + 1) + (LOAD - value)
-----------------------------------------------------------------------------
(* The timer.  The handler is quick: a timeout is served before the next.  *)
TimerCycle ==
  /\ pc \in {"snapshot", "low", "high", "compare"} => passed < PASS_CYCLES
  /\ passed' = IF pc \in {"snapshot", "low", "high", "compare"} THEN passed + 1 ELSE passed
  /\ IF count = 0
     THEN /\ ~timed_out
          /\ count' = LOAD /\ timed_out' = TRUE /\ waited' = 0
     ELSE count' = count - 1 /\ UNCHANGED <<timed_out, waited>>
  /\ UNCHANGED <<nticks, alarm, pc, t1, snap, low, high, taken, cycles>>

(* An alarm at the tick that makes the count now: whether it is called,    *)
(* and what becomes of it when its callback answers with an interval.      *)
Ticked(al, now) ==
  IF al.rollover /\ now = 0 THEN [al EXCEPT !.rollover = FALSE] ELSE al

Expired(al, now) == al.on /\ al.time <= now /\ ~al.rollover

(* Seeded fault: the next time of an alarm is taken not to wrap.           *)
RearmedNoRollover(al, interval, now) ==
  IF interval = 0 THEN Off
  ELSE [on |-> TRUE, time |-> (al.time + interval) % SPAN, rollover |-> FALSE]

Rearmed(al, interval, now) ==
  LET time == (al.time + interval) % SPAN
  IN  IF interval = 0 THEN Off
      ELSE [on |-> TRUE, time |-> time, rollover |-> time < now]

(* alt_avalon_timer_sc_irq: the flag is cleared, the tick counted and the  *)
(* list of alarms walked with interrupts off; answer[a] is what the        *)
(* callback of a would return.                                             *)
Interrupt(answer) ==
  LET now == (nticks + 1) % SPAN
  IN  /\ timed_out
      /\ timed_out' = FALSE
      /\ nticks' = now
      /\ alarm' = [a \in Alarm |->
                     LET al == Ticked(alarm[a], now)
                     IN  IF Expired(al, now) THEN Rearmed(al, answer[a], now) ELSE al]
      /\ UNCHANGED <<count, readVars, waited>>

(* A step of the program, which a pending interrupt cuts off in the end.   *)
ProgramStep ==
  /\ timed_out => waited < LATENCY
  /\ waited' = IF timed_out THEN waited + 1 ELSE 0
  /\ UNCHANGED timerVars

(* alt_alarm_start reads the tick count and enters the alarm with          *)
(* interrupts off.  A delay of 2^32 - 1 ticks would wrap to the present    *)
(* tick unnoticed: callers ask for less.                                   *)
alt_alarm_start(a, n) ==
  LET time == (n + nticks + 1) % SPAN
  IN  /\ ProgramStep
      /\ ~alarm[a].on
      /\ alarm' = [alarm EXCEPT ![a] =
                     [on |-> TRUE, time |-> time, rollover |-> time < nticks]]
      /\ UNCHANGED <<nticks, readVars>>

alt_alarm_stop(a) ==
  /\ ProgramStep
  /\ alarm' = [alarm EXCEPT ![a] = Off]
  /\ UNCHANGED <<nticks, readVars>>
-----------------------------------------------------------------------------
(* get_total_cycles                                                        *)

ReadTicks ==
  /\ pc \in {"idle", "again"}
  /\ ProgramStep
  /\ t1' = nticks /\ passed' = 0 /\ pc' = "snapshot"
  /\ UNCHANGED <<nticks, alarm, snap, low, high, taken, cycles>>

WriteSnapshot ==
  /\ pc = "snapshot"
  /\ ProgramStep
  /\ snap' = count /\ pc' = "low"
  /\ taken' = Cycles(TrueTicks, count)
  /\ UNCHANGED <<nticks, alarm, t1, low, high, passed, cycles>>

ReadLow ==
  /\ pc = "low"
  /\ ProgramStep
  /\ low' = snap % HALF /\ pc' = "high"
  /\ UNCHANGED <<nticks, alarm, t1, snap, high, passed, taken, cycles>>

ReadHigh ==
  /\ pc = "high"
  /\ ProgramStep
  /\ high' = snap \div HALF /\ pc' = "compare"
  /\ UNCHANGED <<nticks, alarm, t1, snap, low, passed, taken, cycles>>

(* Seeded fault: the tick count is not looked at again.                    *)
CompareOnce ==
  /\ pc = "compare"
  /\ ProgramStep
  /\ pc' = "returned" /\ cycles' = Cycles(t1, high * HALF + low)
  /\ UNCHANGED <<nticks, alarm, t1, snap, low, high, passed, taken>>

Compare ==
  /\ pc = "compare"
  /\ ProgramStep
  /\ IF nticks = t1
     THEN pc' = "returned" /\ cycles' = Cycles(t1, high * HALF + low)
     ELSE pc' = "again" /\ UNCHANGED cycles
  /\ UNCHANGED <<nticks, alarm, t1, snap, low, high, passed, taken>>

UseResult ==
  /\ pc = "returned"
  /\ ProgramStep
  /\ pc' = "idle" /\ t1' = 0 /\ snap' = 0 /\ low' = 0 /\ high' = 0
  /\ passed' = 0 /\ taken' = 0 /\ cycles' = 0
  /\ UNCHANGED <<nticks, alarm>>

get_total_cycles == ReadTicks \/ WriteSnapshot \/ ReadLow \/ ReadHigh \/ Compare

ClockNext ==
  \/ TimerCycle
  \/ \E answer \in [Alarm -> 0..(SPAN - 1)] : Interrupt(answer)
  \/ \E a \in Alarm, n \in 0..(SPAN - 2) : alt_alarm_start(a, n)
  \/ \E a \in Alarm : alt_alarm_stop(a)
  \/ get_total_cycles
  \/ UseResult

ClockSpec == ClockInit /\ [][ClockNext]_clockVars
-----------------------------------------------------------------------------
(* Properties                                                              *)

(* The result of get_total_cycles is the exact time at one instant of the  *)
(* call, the snapshot, wherever the tick and its interrupt fall between    *)
(* the four reads: so later calls never return less (until the tick count  *)
(* wraps, after 49 days).                                                  *)
ReadingExact == pc = "returned" => cycles = taken

(* The alarm list, with its wrapping tick count and its roll-over flags,   *)
(* calls each alarm on exactly the tick AlarmClock promises.               *)
TicksLeft(al) ==
  IF ~al.on THEN 0
  ELSE IF al.rollover THEN al.time + SPAN - nticks
  ELSE al.time - nticks

Promised == INSTANCE AlarmClock WITH
              Span <- SPAN, left <- [a \in Alarm |-> TicksLeft(alarm[a])]

AlarmsPunctual == Promised!AbstractSpec
=============================================================================
