-------------------------------- MODULE MC_I2C --------------------------------
(***************************************************************************)
(* Model checking of the I2C master: the writes and reads that reach the   *)
(* sensor, on a device that may refuse any byte.                           *)
(***************************************************************************)
EXTENDS I2C_system

MCCalls ==
  {[op |-> "write", index |-> 11, values |-> <<1, 148>>],
   [op |-> "read",  index |-> 11, values |-> <<0, 0>>],
   [op |-> "configure", irq |-> TRUE],
   [op |-> "configure", irq |-> FALSE]}

(* Every variable of the master, the driver and the device stays in its type. *)
TypeOK ==
  /\ ClkgenTypeOK /\ CoreTypeOK /\ InterfaceTypeOK /\ DriverTypeOK
  /\ scl_in \in Bit /\ sda_in \in Bit
  /\ device \in [mode : {"off", "receive", "send"}, first : BOOLEAN, count : 0..9,
                 byte : Byte, ack : Bit, sda : Bit]
  /\ Len(seen) <= Size + 6

(* What a call that succeeds has put on the bus. *)
Transaction ==
  IF call.op = "write"
  THEN <<START, Device, call.index>> \o call.values \o <<STOP>>
  ELSE <<START, Device, call.index, START, Device + 1>> \o value \o <<STOP>>

(* A call that returns SUCCESS (i2c.c:247, 298) has put exactly its        *)
(* transaction on the bus, START and STOP included; the bytes a read       *)
(* returns are those the device sent, and the bus is free again.           *)
Delivered ==
  at = "ready" /\ result = "SUCCESS" =>
    /\ seen = Transaction
    /\ scl = 1 /\ sda = 1

(* SDA changes while SCL is high only in the START and the STOP of a       *)
(* command that asks for them: whatever the core, the idle repeating of    *)
(* the lines and the device do, no data bit is ever seen as a condition.   *)
BusConditions ==
  [][scl = 1 /\ scl' = 1 /\ sda # sda' /\ ~Reset =>
       IF sda' = 0 THEN p_state = "Start_C" /\ cmd.start
       ELSE p_state = "Stop_C" /\ cmd.stop]_vars

(* While the core works on a byte the command that started it stands and   *)
(* the byte to send does not change (i2c_interface.vhd:50-52): the program *)
(* never gets a command in that is taken back with the one before.         *)
CommandStands ==
  /\ p_state \notin {"Reset", "Idle", "DoneAck"} => TIP
  /\ at \in {"control", "clear", "configure"} => ~TIP /\ p_state = "Idle" /\ ~cmd_done

(* What the program reads as the last acknowledgement (i2c.c:241) is that  *)
(* of the byte it has just sent.                                           *)
AckIsFresh == at = "status2" => readdata % 2 = device.ack

(* The interrupt of an earlier transfer, which i2c_configure(true) lets    *)
(* out when it is still pending (i2c.c:116), is gone before the call that  *)
(* follows starts a command of its own: polling is never interrupted, and  *)
(* neither does any transfer of the driver end in an interrupt.            *)
PollingIsQuiet == at \in {"after", "after2", "status", "status2", "get", "get2"} => ~irq

(* Every call returns, unless the board is reset: no wait for the end of a *)
(* transfer lasts forever.                                                 *)
CallReturns == at = "before" ~> at \in {"ready", "init"}

(* i2c_interface.vhd:44: STP generates a STOP sequence; the driver asks    *)
(* for it when a byte is refused (i2c.c:242).                              *)
StopIsSent == at = "abort" ~> at = "init" \/ (seen # <<>> /\ seen[Len(seen)] = STOP)

(* i2c.c:102-103: i2c_configure(true) enables interrupt generation at the  *)
(* end of a read/write transfer; i2c_interface.vhd:53: at the end of a     *)
(* transfer IRQ goes high if the interrupt is enabled.                     *)
InterruptComes == at = "before" /\ i_int_en_reg ~> irq \/ at = "init"

FairSpec == Spec /\ Fairness
=============================================================================
