----------------------------- MODULE AlarmClock -----------------------------
(***************************************************************************)
(* What HAL/src/alt_tick.c and alt_alarm_start.c promise: an alarm started *)
(* for n ticks is called on the (n+1)-th tick from now, and again after as *)
(* many ticks as its callback asks for.  There is no clock here that could *)
(* wrap: each alarm only knows how many ticks are left to it.              *)
(***************************************************************************)
EXTENDS Naturals

CONSTANTS Alarm,    \* the alarm structures of the program
          Span      \* 2^32: intervals and tick counts are alt_u32

VARIABLE left       \* left[a]: ticks until alarm a is called, 0 if it is off

AbstractInit == left = [a \in Alarm |-> 0]

(* alt_alarm_start and alt_alarm_stop.                                     *)
SetAlarm(a, n) == left' = [left EXCEPT ![a] = n + 1]
StopAlarm(a)   == left' = [left EXCEPT ![a] = 0]

(* One system tick: every alarm whose time has come is called, and the     *)
(* answer of its callback is its next interval, or 0 to end it.            *)
CountDown(answer) ==
  left' = [a \in Alarm |-> IF left[a] = 0 THEN 0
                           ELSE IF left[a] = 1 THEN answer[a]
                           ELSE left[a] - 1]

AbstractNext ==
  \/ \E a \in Alarm, n \in 0..(Span - 2) : SetAlarm(a, n)
  \/ \E a \in Alarm : StopAlarm(a)
  \/ \E answer \in [Alarm -> 0..(Span - 1)] : CountDown(answer)

AbstractSpec == AbstractInit /\ [][AbstractNext]_left
=============================================================================
