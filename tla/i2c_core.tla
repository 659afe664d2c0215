------------------------------- MODULE i2c_core -------------------------------
(***************************************************************************)
(* The I2C core (i2c_core.vhd): a state machine that sends or receives a   *)
(* byte and its acknowledgement, with a START before it and a STOP after   *)
(* it if the command asks for them.  Most states last one period of the    *)
(* base clock, the others one cycle.                                       *)
(*                                                                         *)
(* All outputs are registers, one cycle behind the state.  Lines and bits  *)
(* are 0 or 1; a byte is a number.                                         *)
(***************************************************************************)
EXTENDS Integers

VARIABLES
  p_state,
  i_ctr,              (* bit counter                                       *)
  i_dout, i_ack_out,  (* the byte and the acknowledgement received         *)
  scl_out, sda_out, data_out, ack_out, busy, cmd_done  (* outputs          *)

coreVars == <<p_state, i_ctr, i_dout, i_ack_out,
              scl_out, sda_out, data_out, ack_out, busy, cmd_done>>

Bit == {0, 1}
Byte == 0..255

(* The states that wait for the base clock (i_sclk_en) and the others. *)
Paced ==
  {"Start_A", "Start_B", "Start_C", "Start_D", "Stop_A", "Stop_B", "Stop_C",
   "Rd_A", "Rd_B", "Rd_D", "Rd_E", "RdAck_A", "RdAck_B", "RdAck_D", "RdAck_E",
   "Wr_A", "Wr_B", "Wr_C", "Wr_D", "WrAck_A", "WrAck_B", "WrAck_C", "WrAck_D"}
Unpaced ==
  {"Reset", "Idle", "Done", "DoneAck", "Rd_C", "Rd_F", "RdAck_C", "Wr_E"}

CoreTypeOK ==
  /\ p_state \in Paced \union Unpaced
  /\ i_ctr \in 0..7
  /\ i_dout \in Byte /\ i_ack_out \in Bit
  /\ scl_out \in Bit /\ sda_out \in Bit
  /\ data_out \in Byte /\ ack_out \in Bit
  /\ busy \in BOOLEAN /\ cmd_done \in BOOLEAN

CoreInit ==
  /\ p_state = "Reset"
  /\ i_ctr = 0
  /\ i_dout = 0 /\ i_ack_out = 0
  /\ scl_out = 1 /\ sda_out = 1
  /\ data_out = 0 /\ ack_out = 0 /\ busy = FALSE /\ cmd_done = FALSE

(* Every register is reset. *)
CoreReset ==
  /\ p_state' = "Reset"
  /\ i_ctr' = 0
  /\ i_dout' = 0 /\ i_ack_out' = 0
  /\ scl_out' = 1 /\ sda_out' = 1
  /\ data_out' = 0 /\ ack_out' = 0 /\ busy' = FALSE /\ cmd_done' = FALSE

-----------------------------------------------------------------------------
(* Bit i of a byte, the most significant first. *)
BitOf(byte, i) == (byte \div 2^(7 - i)) % 2
WithBit(byte, i, b) == byte + (b - BitOf(byte, i)) * 2^(7 - i)

(* The lines a state asks for; in some the core repeats what it sees.      *)
ClockLow ==
  {"Start_D", "Stop_A", "Rd_A", "Rd_E", "Rd_F", "RdAck_A", "RdAck_E",
   "Wr_A", "Wr_D", "Wr_E", "WrAck_A", "WrAck_D"}

i_scl_out(scl_in) ==
  CASE p_state \in {"Idle", "Done", "DoneAck", "Start_A"} -> scl_in
    [] p_state \in ClockLow -> 0
    [] OTHER -> 1

i_sda_out(sda_in, data_in, ack_in) ==
  CASE p_state \in {"Idle", "Done", "DoneAck"} -> sda_in
    [] p_state \in {"Start_C", "Start_D", "Stop_A", "Stop_B"} -> 0
    [] p_state \in {"Wr_A", "Wr_B", "Wr_C", "Wr_D", "Wr_E"} -> BitOf(data_in, i_ctr)
    [] p_state \in {"WrAck_A", "WrAck_B", "WrAck_C", "WrAck_D"} -> ack_in
    [] OTHER -> 1

(* Mutant of AfterTheLast: the core does not wait in DoneAck. *)
Hasty == "Idle"

AfterTheLast == "DoneAck"

(* What follows a state whatever the inputs. *)
Successor ==
  [Reset   |-> "Idle",
   Start_A |-> "Start_B", Start_B |-> "Start_C", Start_C |-> "Start_D",
   Rd_A    |-> "Rd_B",    Rd_B    |-> "Rd_C",    Rd_C    |-> "Rd_D",
   Rd_D    |-> "Rd_E",    Rd_F    |-> "Rd_A",
   WrAck_A |-> "WrAck_B", WrAck_B |-> "WrAck_C", WrAck_C |-> "WrAck_D",
   Wr_A    |-> "Wr_B",    Wr_B    |-> "Wr_C",    Wr_C    |-> "Wr_D",
   Wr_E    |-> "Wr_A",
   RdAck_A |-> "RdAck_B", RdAck_B |-> "RdAck_C", RdAck_C |-> "RdAck_D",
   RdAck_D |-> "RdAck_E",
   Stop_A  |-> "Stop_B",  Stop_B  |-> "Stop_C",  Stop_C  |-> "Done",
   Done    |-> AfterTheLast]

(* The transfer of the byte itself. *)
Body(cmd, otherwise) ==
  IF cmd.write THEN "Wr_A" ELSE IF cmd.read THEN "Rd_A" ELSE otherwise

(* Mutant of AfterByte: the core is done without a STOP. *)
NoStop(cmd) == "Done"

AfterByte(cmd) == IF cmd.stop THEN "Stop_A" ELSE "Done"

n_state(cmd, cmd_done_ack) ==
  CASE p_state = "Idle" ->
         IF (cmd.read \/ cmd.write) /\ cmd.start THEN "Start_A" ELSE Body(cmd, "Idle")
    [] p_state = "Start_D" -> Body(cmd, "Start_D")
    [] p_state = "Rd_E" -> IF i_ctr = 7 THEN "WrAck_A" ELSE "Rd_F"
    [] p_state = "Wr_D" -> IF i_ctr = 7 THEN "RdAck_A" ELSE "Wr_E"
    [] p_state \in {"WrAck_D", "RdAck_E"} -> AfterByte(cmd)
    [] p_state = "DoneAck" -> IF cmd_done_ack THEN "Idle" ELSE "DoneAck"
    [] OTHER -> Successor[p_state]

i_busy == p_state \notin {"Reset", "Idle"}

i_cmd_done == p_state \in {"Done", "DoneAck"}

(* Mutants of NextBit: it advances while SCL is high, or only in a write. *)
NextBitEarly == p_state \in {"Rd_F", "Wr_C"}
NextBitOfWrite == p_state = "Wr_E"

(* The bit counter advances while SCL is low (i_ctr_incr). *)
NextBit == p_state \in {"Rd_F", "Wr_E"}

(* Mutant of LoadsAck: it is taken after SCL has fallen again. *)
LoadsAckLate == p_state = "RdAck_E"

(* The acknowledgement is taken while SCL is high. *)
LoadsAck == p_state = "RdAck_C"

(* One clock edge.  cmd: the command bits of the interface. *)
CoreTick(scl_in, sda_in, sclk, cmd, data_in, ack_in, cmd_done_ack) ==
  /\ p_state' = IF sclk \/ p_state \in Unpaced THEN n_state(cmd, cmd_done_ack)
                ELSE p_state
  /\ i_ctr' = CASE p_state = "Idle" -> 0
                [] NextBit -> (i_ctr + 1) % 8
                [] OTHER -> i_ctr
  /\ i_dout' = IF p_state = "Rd_C" THEN WithBit(i_dout, i_ctr, sda_in) ELSE i_dout
  /\ i_ack_out' = IF LoadsAck THEN sda_in ELSE i_ack_out
  /\ scl_out' = i_scl_out(scl_in)
  /\ sda_out' = i_sda_out(sda_in, data_in, ack_in)
  /\ data_out' = i_dout
  /\ ack_out' = i_ack_out
  /\ busy' = i_busy
  /\ cmd_done' = i_cmd_done
=============================================================================
