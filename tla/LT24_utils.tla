----------------------------- MODULE LT24_utils -----------------------------
(***************************************************************************)
(* The program on the Nios II as the LCD controller sees it: the functions *)
(* of LT24_utils.c, cut at their register accesses, one access at most in  *)
(* a clock cycle and any number of cycles between two of them.             *)
(*                                                                         *)
(* main calls LCD_init and then LCD_display once.  The model lets the      *)
(* program go on: it may send further commands and parameters, display     *)
(* again, and write the registers anew with the address of another buffer. *)
(* The program never polls the controller.  What keeps a call from         *)
(* overtaking the one before is only the time the processor spends between *)
(* them, which the constant Gap states in cycles; that it waits for a      *)
(* display to end is assumed (main makes no call after LCD_display).       *)
(***************************************************************************)
EXTENDS Slave_Interface, Frame

CONSTANTS
  REG_BURST_TOT,  (* words in a burst (8 in LT24_utils.h)                  *)
  StartAddresses, (* addresses the program displays frames from            *)
  Commands,       (* command words LCD_configure sends                     *)
  DataWords,      (* parameter words LCD_configure sends                   *)
  Gap             (* cycles between a write of RegCmdOrData, or the end of *)
                  (* a display, and the next write of RegCmdData           *)

ASSUME ProgramAssumption ==
  /\ REG_BURST_TOT \in Nat \ {0}
  /\ StartAddresses \subseteq Nat
  /\ Commands \subseteq 1..255 \ {CMD_DISPLAY}
  /\ DataWords \subseteq Nat
  /\ Gap \in Nat

VARIABLES
  pc,       (* the register access the program makes next, or "ready"      *)
  word,     (* the word a call of LCD_write_command or _data is sending    *)
  command,  (* the last command word sent                                  *)
  gap       (* cycles left before the next call may start                  *)

ProgramPoints ==
  {"LCD_turn_on", "RegStartAddress", "readStartAddress", "holdStartAddress",
   "RegBurstTot", "readBurstTot", "holdBurstTot", "ready", "command", "data"}

progVars == <<pc, word, command, gap>>

Words == Commands \union DataWords \union {CMD_DISPLAY}

ProgramTypeOK ==
  /\ pc \in ProgramPoints
  /\ word \in Words \union {0}
  /\ command \in Words \union {0}
  /\ gap \in 0..Gap

ProgramInit ==
  /\ pc = "LCD_turn_on"
  /\ word = 0
  /\ command = 0
  /\ gap = 0

ProgramReset ==
  /\ pc' = "LCD_turn_on"
  /\ word' = 0
  /\ command' = 0
  /\ gap' = 0

(* The next register access of a function: from one point to another. *)
Access(from, acc, a, to) ==
  /\ pc = from
  /\ acc = a
  /\ pc' = to
  /\ UNCHANGED <<word, command>>

(* Mutant of LCD_turn_on: the LCD is left off. *)
LeaveOff(acc) ==
  Access("LCD_turn_on", acc, NoAccess, "RegStartAddress")

LCD_turn_on(acc) ==
  Access("LCD_turn_on", acc, Write("LCDON", 1), "RegStartAddress")

(* Both registers are written and read back.  A read takes two cycles, the *)
(* wait time the slave is declared with in LCD_controller_hw.tcl.          *)
LCD_write_registers(acc) ==
  \/ \E a \in StartAddresses :
       Access("RegStartAddress", acc, Write("StartAddress", a), "readStartAddress")
  \/ Access("readStartAddress", acc, Read("StartAddress"), "holdStartAddress")
  \/ Access("holdStartAddress", acc, Read("StartAddress"), "RegBurstTot")
  \/ Access("RegBurstTot", acc, Write("BurstTot", REG_BURST_TOT), "readBurstTot")
  \/ Access("readBurstTot", acc, Read("BurstTot"), "holdBurstTot")
  \/ Access("holdBurstTot", acc, Read("BurstTot"), "ready")

(* A later call of LCD_write_registers, for the next frame, even while the *)
(* frame before is being transferred.                                      *)
Reconfigure(acc, transferring) ==
  /\ gap = 0 \/ transferring
  /\ Access("ready", acc, NoAccess, "RegStartAddress")

(* The first access of LCD_write_command and LCD_write_data. *)
WriteCmdData(acc, w, to) ==
  /\ pc = "ready" /\ gap = 0
  /\ acc = Write("CmdData", w)
  /\ pc' = to
  /\ word' = w
  /\ command' = IF to = "command" THEN w ELSE command

LCD_write_command(acc, w) == WriteCmdData(acc, w, "command")

(* Parameters follow a command that takes some. *)
LCD_write_data(acc, w) ==
  /\ command \notin {0, CMD_DISPLAY}
  /\ WriteCmdData(acc, w, "data")

LCD_configure(acc) ==
  \/ \E w \in Commands : LCD_write_command(acc, w)
  \/ \E w \in DataWords : LCD_write_data(acc, w)

LCD_display(acc) == LCD_write_command(acc, CMD_DISPLAY)

(* The second access of LCD_write_command and LCD_write_data. *)
WriteCmdOrData(acc) ==
  \/ Access("command", acc, Write("CmdOrData", TYPE_CMD), "ready")
  \/ Access("data", acc, Write("CmdOrData", TYPE_DATA), "ready")

Compute(acc) ==
  /\ pc \notin {"holdStartAddress", "holdBurstTot"}
  /\ acc = NoAccess
  /\ UNCHANGED <<pc, word, command>>

(* One clock cycle of the program. *)
ProgramTick(acc, displaying, transferring) ==
  /\ \/ LCD_turn_on(acc)
     \/ LCD_write_registers(acc)
     \/ Reconfigure(acc, transferring)
     \/ LCD_configure(acc)
     \/ LCD_display(acc)
     \/ WriteCmdOrData(acc)
     \/ Compute(acc)
  /\ gap' = IF acc.name = "CmdOrData" \/ displaying
            THEN Gap
            ELSE IF gap > 0 THEN gap - 1 ELSE 0

(* The accesses a program cycle can make. *)
Accesses ==
  {NoAccess, Write("LCDON", 1), Write("BurstTot", REG_BURST_TOT),
   Read("StartAddress"), Read("BurstTot"),
   Write("CmdOrData", TYPE_CMD), Write("CmdOrData", TYPE_DATA)}
  \union {Write("StartAddress", a) : a \in StartAddresses}
  \union {Write("CmdData", w) : w \in Words}
=============================================================================
