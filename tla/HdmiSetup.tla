----------------------------- MODULE HdmiSetup -----------------------------
(***************************************************************************)
(* hdmi_init of video_app2/hdmi_config.c: wait for the PLL, then write the *)
(* registers of the HDMI transmitter one after the other over I2C, without *)
(* a look at the result of any write.  The menu may call it again and      *)
(* again.  (alt_avalon_i2c_open finds the device that alt_sys_init has     *)
(* registered: the return of -2 cannot happen in this build.)              *)
(***************************************************************************)
EXTENDS AvalonI2c, Integers

CONSTANT PLL_POLLS      \* bound: 1000 polls of the PLL, a millisecond apart

VARIABLES phase,        \* where hdmi_init is
          polls,        \* its timeout
          result        \* what it last returned

setupVars == <<i2cVars, phase, polls, result>>

SetupInit ==
  /\ I2cInit
  /\ phase = "menu" /\ polls = PLL_POLLS /\ result = 0

Call ==
  /\ phase = "menu"
  /\ phase' = "pll" /\ polls' = PLL_POLLS
  /\ item' = 0 /\ written' = <<>>
  /\ UNCHANGED <<coreVars, driverVars, result>>

PllPoll(locked) ==
  /\ phase = "pll"
  /\ IF locked THEN phase' = "writing" /\ UNCHANGED <<polls, result>>
     ELSE /\ polls' = polls - 1
          /\ IF polls = 1 THEN phase' = "menu" /\ result' = -1
                          ELSE UNCHANGED <<phase, result>>
  /\ UNCHANGED i2cVars

(* hdmi_i2c_write: the next register, when the last call has returned.     *)
hdmi_i2c_write ==
  /\ phase = "writing" /\ item < WRITES
  /\ master_tx(item + 1)
  /\ UNCHANGED <<phase, polls, result>>

Configured ==
  /\ phase = "writing" /\ item = WRITES /\ step = "done"
  /\ phase' = "menu" /\ result' = 0
  /\ UNCHANGED <<i2cVars, polls>>

Software ==
  \/ \E locked \in BOOLEAN : PllPoll(locked)
  \/ hdmi_i2c_write
  \/ Configured
  \/ (Driver /\ UNCHANGED <<phase, polls, result>>)

SetupNext ==
  \/ Call
  \/ Software
  \/ (Core /\ UNCHANGED <<phase, polls, result>>)

SetupSpec == SetupInit /\ [][SetupNext]_setupVars

(* The processor runs on; the core, the device and the user need not.      *)
SetupFairSpec == SetupSpec /\ WF_setupVars(Software)
-----------------------------------------------------------------------------
(* Properties                                                              *)

(* hdmi_init comes back to the menu even if the bus hangs for ever: every  *)
(* wait of the driver and every retry is bounded.                          *)
SetupEnds == phase # "menu" ~> phase = "menu"

(* A write that master_tx reports as SUCCESS has reached the device, if    *)
(* arbitration was not lost: a NACK is never overlooked, however late it   *)
(* comes, nor one of an earlier attempt held against this one.             *)
SuccessMeansWritten ==
  step = "done" /\ item > 0 /\ status = "SUCCESS" /\ ~arblost
    => written # <<>> /\ written[Len(written)] = item

(* Retries and timeouts never make the device take a register twice or out *)
(* of its order.                                                           *)
WrittenOnceInOrder == \A i \in 1..(Len(written) - 1) : written[i] < written[i + 1]
=============================================================================
