--------------------------- MODULE Slave_Interface ---------------------------
(***************************************************************************)
(* The register bank of the LCD controller (Slave_Interface.vhd): the      *)
(* Avalon slave the processor writes, and the registered copies of the     *)
(* registers that the DMA master and the LT24 interface see one cycle      *)
(* later.  A register is named by its VHDL name without the prefix Reg;    *)
(* RegCmdDataReady is never written or read after reset and is left out.   *)
(***************************************************************************)
EXTENDS Integers, Avalon

VARIABLES
  reg,         (* the registers                                            *)
  out,         (* their registered copies on the output ports              *)
  as_readdata  (* the answer to the read of the cycle before               *)

slaveVars == <<reg, out, as_readdata>>

Registers == {"StartAddress", "CmdOrData", "CmdData", "BurstTot", "LCDON"}

SlaveTypeOK ==
  /\ reg \in [Registers -> Nat]
  /\ out \in [Registers -> Nat]
  /\ as_readdata \in Nat

(* Values of CmdOrData. *)
TYPE_NO_OP == 0
TYPE_CMD   == 1
TYPE_DATA  == 2

Cleared == [r \in Registers |-> 0]

SlaveInit ==
  /\ reg = Cleared
  /\ out = Cleared
  /\ as_readdata = 0

(* The read data has no reset: the clock, which runs on, clears it, since  *)
(* nothing is read during a reset.                                         *)
SlaveReset ==
  /\ reg' = Cleared
  /\ out' = Cleared
  /\ as_readdata' = 0

(* Mutant of NoCommand: the command is not cleared, only its word. *)
WordCleared(bank) == [bank EXCEPT !["CmdData"] = 0]

(* A register bank with no command in it. *)
NoCommand(bank) == [bank EXCEPT !["CmdOrData"] = TYPE_NO_OP, !["CmdData"] = 0]

(* The send_signals process: no command is passed on while the LCD is off. *)
send_signals ==
  out' = IF reg["LCDON"] = 0 THEN NoCommand(reg) ELSE reg

(***************************************************************************)
(* The slave_write process.  The clear by cmd_data_ready comes last in the *)
(* process, so it wins over a processor write of the same cycle.           *)
(***************************************************************************)
slave_write(acc, ready) ==
  LET written == IF acc.op = "write"
                 THEN [reg EXCEPT ![acc.name] = acc.data] ELSE reg
  IN  reg' = IF ready THEN NoCommand(written) ELSE written

(* The slave_read process. *)
slave_read(acc) ==
  as_readdata' = IF acc.op = "read" THEN reg[acc.name] ELSE 0

(* One clock edge with the access and the cmd_data_ready sampled at it. *)
SlaveTick(acc, ready) ==
  /\ send_signals
  /\ slave_write(acc, ready)
  /\ slave_read(acc)
=============================================================================
