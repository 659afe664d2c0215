------------------------------ MODULE I2C_system ------------------------------
(***************************************************************************)
(* The I2C master (i2c_interface.vhd with its core and its base clock),    *)
(* the driver that polls it and, external, the device on the bus.          *)
(*                                                                         *)
(* The device is a slave that sees the lines only: START and STOP are      *)
(* changes of SDA while SCL is high, a bit is taken when SCL rises and     *)
(* changed after SCL has fallen.  It may refuse any byte.  seen is what    *)
(* went over the bus since the call began.                                 *)
(***************************************************************************)
EXTENDS i2c_clkgen, i2c_core, i2c

CONSTANT DeviceBytes   (* what the device may answer to a read             *)

ASSUME DeviceAssumption == DeviceBytes \subseteq 0..255 /\ DeviceBytes # {}

VARIABLES
  scl_in, sda_in,    (* the lines, registered: those of the last cycle     *)
  device,
  seen

vars == <<clkgenVars, coreVars, interfaceVars, driverVars, scl_in, sda_in, device, seen>>

(* SCL is driven both ways, SDA is pulled down or let go. *)
scl == scl_out
sda == IF sda_out = 1 /\ device.sda = 1 THEN 1 ELSE 0

-----------------------------------------------------------------------------
(* The device.  mode: "off" until a START, "receive" or "send"; first: the *)
(* byte is the address; count: bits so far, 9 during the acknowledgement;  *)
(* byte: the bits received or the byte it sends; ack: the acknowledgement  *)
(* of the last byte; sda: what it does to the line.                        *)
Silent == [mode |-> "off", first |-> FALSE, count |-> 0, byte |-> 0, ack |-> 0, sda |-> 1]

START == 256
STOP  == 257

(* SDA moves while SCL is high. *)
SeesCondition(log) ==
  IF sda = 0
  THEN /\ device' = [device EXCEPT !.mode = "receive", !.first = TRUE, !.count = 0, !.byte = 0]
       /\ seen' = Append(log, START)
  ELSE /\ device' = [device EXCEPT !.mode = "off"]
       /\ seen' = Append(log, STOP)

(* SCL rises: the device takes a bit, or the master's acknowledgement. *)
TakesBit(log) ==
  \/ /\ device.mode = "receive" /\ device.count < 8
     /\ device' = [device EXCEPT !.byte = 2 * @ + sda, !.count = @ + 1]
     /\ seen' = log
  \/ /\ device.mode = "send" /\ device.count = 9
     /\ device' = [device EXCEPT !.ack = sda]
     /\ seen' = Append(log, device.byte)

(* It puts bit i of a byte on the line. *)
Drives(b, i) ==
  device' = [device EXCEPT !.mode = "send", !.first = FALSE, !.byte = b,
                           !.count = i + 1, !.sda = BitOf(b, i)]

(* SCL falls after the acknowledgement: the device goes on to the next     *)
(* byte, or leaves the bus until the next START.                           *)
NextByte ==
  \/ device.ack = 1 /\ device' = [device EXCEPT !.mode = "off"]
  \/ /\ device.ack = 0
     /\ device.mode = "send" \/ (device.first /\ device.byte % 2 = 1)
     /\ \E b \in DeviceBytes : Drives(b, 0)
  \/ /\ device.ack = 0
     /\ device.mode = "receive" /\ ~(device.first /\ device.byte % 2 = 1)
     /\ device' = [device EXCEPT !.first = FALSE, !.count = 0, !.byte = 0, !.sda = 1]

(* SCL falls: it acknowledges a byte or not, puts a bit on the line or     *)
(* lets it go.                                                             *)
ChangesLine(log) ==
  \/ /\ device.mode = "receive" /\ device.count = 8
     /\ \E ack \in Bit : device' = [device EXCEPT !.ack = ack, !.sda = ack, !.count = 9]
     /\ seen' = Append(log, device.byte)
  \/ /\ device.count = 9
     /\ NextByte
     /\ seen' = log
  \/ /\ device.mode = "send" /\ device.count \in 1..8
     /\ IF device.count < 8 THEN Drives(device.byte, device.count)
        ELSE device' = [device EXCEPT !.sda = 1, !.count = 9]
     /\ seen' = log

Ignores(active, log) == ~active /\ UNCHANGED device /\ seen' = log

DeviceTick(log) ==
  CASE scl_in = 1 /\ scl = 1 /\ sda_in # sda -> SeesCondition(log)
    [] scl_in = 0 /\ scl = 1 ->
         \/ TakesBit(log)
         \/ Ignores(\/ device.mode = "receive" /\ device.count < 8
                    \/ device.mode = "send" /\ device.count = 9, log)
    [] scl_in = 1 /\ scl = 0 ->
         \/ device.mode # "off" /\ ChangesLine(log)
         \/ Ignores(\/ device.mode = "receive" /\ device.count >= 8
                    \/ device.mode = "send", log)
    [] OTHER -> UNCHANGED device /\ seen' = log

-----------------------------------------------------------------------------
Init ==
  /\ ClkgenInit /\ CoreInit /\ InterfaceInit /\ DriverInit
  /\ scl_in = 1 /\ sda_in = 1
  /\ device = Silent
  /\ seen = <<>>

(* One clock cycle of everything, in which the program makes access acc.   *)
(* What is seen is counted from the beginning of the call.                 *)
CycleWith(acc) ==
  /\ DriverTick(acc)
  /\ ClkgenTick(i_clkdiv_reg)
  /\ CoreTick(scl_in, sda_in, sclk, cmd, i_data_in, i_ack_reg, i_cmd_done_ack)
  /\ InterfaceTick(acc, data_out, ack_out, busy, cmd_done)
  /\ scl_in' = scl /\ sda_in' = sda
  /\ DeviceTick(IF at = "ready" /\ calls' # calls THEN <<>> ELSE seen)

Cycle == \E acc \in {NoAccess, Access} : CycleWith(acc)

(* The reset of the board, at any time.  It reaches the sensor too         *)
(* (D5M_CONTROLLER_LINKER.vhd, GPIO_1_D5M_RESET_N), and lasts long enough  *)
(* for the lines to come up.                                               *)
Reset ==
  /\ ClkgenReset /\ CoreReset /\ InterfaceReset /\ DriverReset
  /\ scl_in' = 1 /\ sda_in' = 1
  /\ device' = Silent
  /\ seen' = <<>>

Next == Cycle \/ Reset
Spec == Init /\ [][Next]_vars

(* The clock runs and the program gets to its next access. *)
Fairness ==
  /\ WF_vars(Cycle)
  /\ WF_vars(CycleWith(Access) /\ Access # NoAccess)
=============================================================================
