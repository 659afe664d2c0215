---------------------------- MODULE i2c_interface ----------------------------
(***************************************************************************)
(* The registers of the I2C master (i2c_interface.vhd).  The command bits  *)
(* WR and RD are at the same time what starts the core and what the status *)
(* bit TIP shows: a command is in progress until the core has done it and  *)
(* the interface has taken the bits back.  Every write of the control      *)
(* register writes all of it, the interrupt enable included.               *)
(***************************************************************************)
EXTENDS Integers, Avalon

CONSTANT ResetDivisor  (* reset value of the clock divisor (131)           *)

ASSUME DivisorAssumption == ResetDivisor \in 0..255

VARIABLES
  i_data_in, i_clkdiv_reg, i_ack_reg,
  cmd,             (* the command bits: write, read, start, stop           *)
  i_cmd_done_ack,
  i_int_en_reg, i_int_pe_reg,  (* interrupt enabled, pending               *)
  readdata, irq

interfaceVars == <<i_data_in, i_clkdiv_reg, i_ack_reg, cmd, i_cmd_done_ack,
                   i_int_en_reg, i_int_pe_reg, readdata, irq>>

NoCommand == [write |-> FALSE, read |-> FALSE, start |-> FALSE, stop |-> FALSE]

InterfaceTypeOK ==
  /\ i_data_in \in 0..255 /\ i_clkdiv_reg \in 0..255 /\ i_ack_reg \in {0, 1}
  /\ cmd \in [write : BOOLEAN, read : BOOLEAN, start : BOOLEAN, stop : BOOLEAN]
  /\ i_cmd_done_ack \in BOOLEAN
  /\ i_int_en_reg \in BOOLEAN /\ i_int_pe_reg \in BOOLEAN
  /\ readdata \in 0..255 /\ irq \in BOOLEAN

InterfaceInit ==
  /\ i_data_in = 0 /\ i_clkdiv_reg = ResetDivisor /\ i_ack_reg = 0
  /\ cmd = NoCommand
  /\ i_cmd_done_ack = FALSE
  /\ i_int_en_reg = FALSE /\ i_int_pe_reg = FALSE
  /\ readdata = 0 /\ irq = FALSE

InterfaceReset ==
  /\ i_data_in' = 0 /\ i_clkdiv_reg' = ResetDivisor /\ i_ack_reg' = 0
  /\ cmd' = NoCommand
  /\ i_cmd_done_ack' = FALSE
  /\ i_int_en_reg' = FALSE /\ i_int_pe_reg' = FALSE
  /\ readdata' = 0 /\ irq' = FALSE

TIP == cmd.read \/ cmd.write

(* The bits of the status register. *)
LAR_BIT == 1
BSY_BIT == 2
IPE_BIT == 4
TIP_BIT == 8

(* The bits of the control register. *)
ACK == 1
STP == 2
STA == 4
RD  == 8
WR  == 16
IEN == 32

HasBit(value, bit) == (value \div bit) % 2 = 1

Flag(set, bit) == IF set THEN bit ELSE 0

Command(value) ==
  [write |-> HasBit(value, WR), read |-> HasBit(value, RD),
   start |-> HasBit(value, STA), stop |-> HasBit(value, STP)]

-----------------------------------------------------------------------------
(* Mutant of WriteRegister: a command does not clear the interrupt enable. *)
EnableStays(acc) ==
  /\ i_data_in' = IF Writes(acc, "DR") THEN acc.data ELSE i_data_in
  /\ i_clkdiv_reg' = IF Writes(acc, "CD") THEN acc.data ELSE i_clkdiv_reg
  /\ i_ack_reg' = IF Writes(acc, "CR") THEN acc.data % 2 ELSE i_ack_reg
  /\ cmd' = IF Writes(acc, "CR") THEN Command(acc.data) ELSE cmd
  /\ i_int_en_reg' = (i_int_en_reg \/ (Writes(acc, "CR") /\ HasBit(acc.data, IEN)))
  /\ i_int_pe_reg' = (i_int_pe_reg /\ acc.name # "DR")
  /\ i_cmd_done_ack' = FALSE

(* A register is written when no transfer is in progress.  Any access to   *)
(* DR clears the pending interrupt.                                        *)
WriteRegister(acc) ==
  /\ i_data_in' = IF Writes(acc, "DR") THEN acc.data ELSE i_data_in
  /\ i_clkdiv_reg' = IF Writes(acc, "CD") THEN acc.data ELSE i_clkdiv_reg
  /\ i_ack_reg' = IF Writes(acc, "CR") THEN acc.data % 2 ELSE i_ack_reg
  /\ cmd' = IF Writes(acc, "CR") THEN Command(acc.data) ELSE cmd
  /\ i_int_en_reg' = IF Writes(acc, "CR") THEN HasBit(acc.data, IEN) ELSE i_int_en_reg
  /\ i_int_pe_reg' = (i_int_pe_reg /\ acc.name # "DR")
  /\ i_cmd_done_ack' = FALSE

(* The command bits are taken back when the core is done. *)
EndCommand(cmd_done) ==
  /\ cmd' = IF cmd_done THEN NoCommand ELSE cmd
  /\ i_int_pe_reg' = (i_int_pe_reg \/ cmd_done)
  /\ i_cmd_done_ack' = cmd_done
  /\ UNCHANGED <<i_data_in, i_clkdiv_reg, i_ack_reg, i_int_en_reg>>

ControlRegister ==
  ACK * i_ack_reg + Flag(cmd.stop, STP) + Flag(cmd.start, STA)
  + Flag(cmd.read, RD) + Flag(cmd.write, WR) + Flag(i_int_en_reg, IEN)

StatusRegister(ack_out, busy) ==
  LAR_BIT * ack_out + Flag(busy, BSY_BIT) + Flag(i_int_pe_reg, IPE_BIT) + Flag(TIP, TIP_BIT)

ReadRegister(acc, data_out, ack_out, busy) ==
  readdata' = CASE acc = Read("DR") -> data_out
                [] acc = Read("CR") -> ControlRegister
                [] acc = Read("SR") -> StatusRegister(ack_out, busy)
                [] acc = Read("CD") -> i_clkdiv_reg
                [] OTHER -> readdata

(* One clock edge. *)
InterfaceTick(acc, data_out, ack_out, busy, cmd_done) ==
  /\ IF TIP THEN EndCommand(cmd_done) ELSE WriteRegister(acc)
  /\ ReadRegister(acc, data_out, ack_out, busy)
  /\ irq' = (i_int_pe_reg /\ i_int_en_reg)
=============================================================================
