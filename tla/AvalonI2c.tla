----------------------------- MODULE AvalonI2c -----------------------------
(***************************************************************************)
(* Sending over I2C with drivers/src/altera_avalon_i2c.c, polled: the      *)
(* retries of alt_avalon_i2c_master_tx, one attempt of                     *)
(* alt_avalon_i2c_master_transmit and the command queue it fills, against  *)
(* the I2C core and the one device on its bus.  A message is three         *)
(* commands: the device's address, a register and its value, the last with *)
(* a stop.                                                                 *)
(*                                                                         *)
(* The core and the device are outside the sources.  A byte may be         *)
(* acknowledged, refused (NACK) or lost to another driver of the bus       *)
(* (arbitration), or never end.  Whether the core drops the rest of its    *)
(* queue after a fault is left open; disabling it drops everything.        *)
(***************************************************************************)
EXTENDS Naturals, Sequences

CONSTANTS
  FIFO_DEPTH,   \* places in the command queue: 4
  POLLS,        \* bound: 10000 polls before TIMEOUT, per byte
  RETRIES,      \* bound: 10000 attempts of master_tx
  WRITES        \* register writes of the caller: 12

ASSUME I2cAssumption ==
  /\ FIFO_DEPTH \in Nat \ {0} /\ POLLS \in Nat \ {0}
  /\ RETRIES \in Nat \ {0} /\ WRITES \in Nat \ {0}

VARIABLES
  enabled, fifo, busy,    \* the core: its enable bit, queue and bus state
  nack, arblost,          \* its sticky status flags
  heard,                  \* bytes the device has acknowledged since the start
  written,                \* register writes the device has taken, in order
  item,                   \* the write being sent
  step,                   \* where the driver is
  k, timeout, retry,      \* its locals: next command, polls and tries left
  status

coreVars   == <<enabled, fifo, busy, nack, arblost, heard>>
driverVars == <<step, k, timeout, retry, status>>
i2cVars    == <<coreVars, written, item, driverVars>>

Kind == <<"address", "register", "value">>
Command(n) == [kind |-> Kind[n], of |-> item, stop |-> n = 3]

I2cInit ==
  /\ enabled = FALSE /\ fifo = <<>> /\ busy = FALSE
  /\ nack = FALSE /\ arblost = FALSE
  /\ heard = <<>> /\ written = <<>>
  /\ item = 0
  /\ step = "done" /\ k = 1 /\ timeout = POLLS /\ retry = 0 /\ status = "SUCCESS"
-----------------------------------------------------------------------------
(* The core and the device.                                                *)

(* A byte the device acknowledges.  After a start it answers to its        *)
(* address alone: no register or value of the set-up list looks like it.   *)
ByteTaken ==
  LET c == Head(fifo)
  IN  /\ enabled /\ fifo # <<>>
      /\ heard = <<>> => c.kind = "address"
      /\ fifo' = Tail(fifo)
      /\ heard' = Append(heard, c.kind)
      /\ written' = IF heard' = Kind THEN Append(written, c.of) ELSE written
      /\ busy' = TRUE
      /\ UNCHANGED <<enabled, nack, arblost, item, driverVars>>

(* The stop after the last byte frees the bus.                             *)
BusFreed ==
  /\ enabled /\ busy /\ heard = Kind
  /\ busy' = FALSE /\ heard' = <<>>
  /\ UNCHANGED <<enabled, fifo, nack, arblost, written, item, driverVars>>

ByteFault ==
  /\ enabled /\ fifo # <<>>
  /\ \/ nack' = TRUE /\ UNCHANGED arblost
     \/ arblost' = TRUE /\ UNCHANGED nack
  /\ fifo' \in {<<>>, Tail(fifo)}
  /\ busy' = FALSE /\ heard' = <<>>
  /\ UNCHANGED <<enabled, written, item, driverVars>>

Core == ByteTaken \/ BusFreed \/ ByteFault

(* alt_avalon_i2c_is_busy: the core leaves its idle state within a few     *)
(* cycles of a command, before the processor's next access.                *)
is_busy == busy \/ fifo # <<>>
-----------------------------------------------------------------------------
(* The driver.                                                             *)

(* alt_avalon_i2c_master_target_set and the call of master_tx.             *)
master_tx(i) ==
  /\ step = "done"
  /\ item' = i
  /\ retry' = RETRIES - 1 /\ step' = "enable"
  /\ UNCHANGED <<coreVars, written, k, timeout, status>>

(* Seeded fault: what timed out is tried again too.                        *)
RetryableTimeout == {"ARB_LOST_ERR", "NACK_ERR", "BUSY", "TIMEOUT"}

Retryable == {"ARB_LOST_ERR", "NACK_ERR", "BUSY"}

(* An attempt returns s, and the loop of master_tx tries again or ends.    *)
Return(s) ==
  /\ status' = s
  /\ IF s \in Retryable /\ retry > 0
     THEN retry' = retry - 1 /\ step' = "enable"
     ELSE step' = "done" /\ UNCHANGED retry

(* alt_avalon_i2c_enable, and the clearing of the status flags.            *)
Enable ==
  /\ step = "enable"
  /\ IF enabled
     THEN Return("BUSY") /\ UNCHANGED <<enabled, nack, arblost, k, timeout>>
     ELSE /\ enabled' = TRUE
          /\ nack' = FALSE /\ arblost' = FALSE
          /\ step' = "command" /\ k' = 1 /\ timeout' = POLLS
          /\ UNCHANGED <<retry, status>>
  /\ UNCHANGED <<fifo, busy, heard, written, item>>

(* alt_avalon_i2c_cmd_write: wait for room in the queue, write, check.     *)
RoomPoll ==
  /\ step = "command" /\ Len(fifo) >= FIFO_DEPTH
  /\ IF timeout > 1
     THEN timeout' = timeout - 1 /\ UNCHANGED <<step, status>>
     ELSE status' = "TIMEOUT" /\ step' = "wait" /\ timeout' = 2 * POLLS
  /\ UNCHANGED <<coreVars, written, item, k, retry>>

cmd_write ==
  /\ step = "command" /\ Len(fifo) < FIFO_DEPTH
  /\ fifo' = Append(fifo, Command(k))
  /\ step' = "check"
  /\ UNCHANGED <<enabled, busy, nack, arblost, heard, written, item, k, timeout, retry, status>>

CommandStatus ==
  IF arblost THEN "ARB_LOST_ERR" ELSE IF nack THEN "NACK_ERR" ELSE "SUCCESS"

Check ==
  /\ step = "check"
  /\ status' = CommandStatus
  /\ IF status' = "SUCCESS" /\ k < 3
     THEN step' = "command" /\ k' = k + 1 /\ timeout' = POLLS
     ELSE step' = "wait" /\ timeout' = 2 * POLLS /\ UNCHANGED k
  /\ UNCHANGED <<coreVars, written, item, retry>>

(* Seeded fault: the last wait has no end.                                 *)
BusyPollForever ==
  /\ step = "wait" /\ is_busy
  /\ UNCHANGED <<coreVars, written, item, driverVars>>

(* The end of alt_avalon_i2c_master_transmit: wait until the core is idle, *)
(* look for a NACK, and disable the core whatever came of it.              *)
BusyPoll ==
  /\ step = "wait" /\ is_busy
  /\ IF timeout > 1
     THEN timeout' = timeout - 1 /\ UNCHANGED <<step, status>>
     ELSE status' = "TIMEOUT" /\ step' = "finish" /\ timeout' = POLLS
  /\ UNCHANGED <<coreVars, written, item, k, retry>>

IdleSeen ==
  /\ step = "wait" /\ ~is_busy
  /\ step' = "finish"
  /\ UNCHANGED <<coreVars, written, item, k, timeout, retry, status>>

(* Seeded fault: no look for a NACK of the last bytes.                     *)
FinishUnchecked ==
  /\ step = "finish"
  /\ Return(status)
  /\ enabled' = FALSE /\ fifo' = <<>> /\ busy' = FALSE /\ heard' = <<>>
  /\ UNCHANGED <<nack, arblost, written, item, k, timeout>>

Finish ==
  /\ step = "finish"
  /\ Return(IF nack THEN "NACK_ERR" ELSE status)
  /\ enabled' = FALSE /\ fifo' = <<>> /\ busy' = FALSE /\ heard' = <<>>
  /\ UNCHANGED <<nack, arblost, written, item, k, timeout>>

Driver == Enable \/ RoomPoll \/ cmd_write \/ Check \/ BusyPoll \/ IdleSeen \/ Finish
=============================================================================
