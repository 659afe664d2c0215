--------------------- MODULE cmos_sensor_output_generator ---------------------
(***************************************************************************)
(* The sensor emulator (cmos_sensor_output_generator.vhd): six registers   *)
(* with the geometry of the image, a command and a status register, and a  *)
(* state machine that sends frames until it is stopped.  Each state lasts  *)
(* as many clocks as its counter takes from 1 to the configured value.     *)
(*                                                                         *)
(* Every counter is set to 1 when its state is entered and not looked at   *)
(* in any other: count stands for the one of the present state.  Only the  *)
(* height counter outlasts a state; it is height.                          *)
(***************************************************************************)
EXTENDS Integers, Avalon

CONSTANTS
  PIX_DEPTH,              (* bits of a pixel                               *)
  MAX_WIDTH, MAX_HEIGHT   (* the largest frame                             *)

ASSUME GeneratorAssumption ==
  PIX_DEPTH \in Nat \ {0} /\ MAX_WIDTH \in Nat \ {0} /\ MAX_HEIGHT \in Nat \ {0}

VARIABLES
  config,               (* the registers reg_..._config                    *)
  reg_start, reg_stop,  (* pulses: the command of the cycle before         *)
  rddata,
  reg_state, count, height

generatorVars == <<config, reg_start, reg_stop, rddata, reg_state, count, height>>

ConfigRegisters ==
  {"frame_width", "frame_height", "frame_frame_blank", "frame_line_blank",
   "line_line_blank", "line_frame_blank"}

Minimum ==
  [frame_width       |-> 1, frame_height     |-> 1,
   frame_frame_blank |-> 1, frame_line_blank |-> 0,
   line_line_blank   |-> 1, line_frame_blank |-> 0]

Largest == IF MAX_WIDTH > MAX_HEIGHT THEN MAX_WIDTH ELSE MAX_HEIGHT

(* The values of a register: the bits of Largest. *)
REG_VALUES ==
  2^(CHOOSE n \in 1..Largest : 2^n > Largest /\ \A k \in 1..(n - 1) : 2^k <= Largest)

ASSUME RegisterAssumption == REG_VALUES \in Nat /\ Largest < REG_VALUES

STATE_TYPE ==
  {"IDLE", "FRAME_FRAME_BLANK", "FRAME_LINE_BLANK", "VALID", "LINE_LINE_BLANK",
   "LINE_FRAME_BLANK"}

GeneratorTypeOK ==
  /\ config \in [ConfigRegisters -> 0..(REG_VALUES - 1)]
  /\ reg_start \in BOOLEAN /\ reg_stop \in BOOLEAN
  /\ rddata \in 0..(REG_VALUES - 1)
  /\ reg_state \in STATE_TYPE
  /\ count \in 0..(REG_VALUES - 1) /\ height \in 0..(REG_VALUES - 1)

GeneratorInit ==
  /\ config = Minimum
  /\ reg_start = FALSE /\ reg_stop = FALSE
  /\ rddata = 0
  /\ reg_state = "IDLE" /\ count = 0 /\ height = 0

GeneratorReset ==
  /\ config' = Minimum
  /\ reg_start' = FALSE /\ reg_stop' = FALSE
  /\ rddata' = 0
  /\ reg_state' = "IDLE" /\ count' = 0 /\ height' = 0

-----------------------------------------------------------------------------
(* The outputs. *)
line_valid  == reg_state = "VALID"
frame_valid == reg_state \notin {"IDLE", "FRAME_FRAME_BLANK"}
data == IF line_valid
        THEN ((height - 1) * config["frame_width"] + (count - 1)) % 2^PIX_DEPTH
        ELSE 0

COMMAND_STOP  == 0
COMMAND_START == 1
STATUS_BUSY == 0
STATUS_IDLE == 1

(* The registers change between frames only. *)
Configurable == reg_state = "IDLE"

MM_WRITE(acc) ==
  /\ config' = IF acc.op = "write" /\ acc.name \in ConfigRegisters /\ Configurable
               THEN [config EXCEPT ![acc.name] = acc.data % REG_VALUES] ELSE config
  /\ reg_start' = (Writes(acc, "command") /\ acc.data % 2 = COMMAND_START
                   /\ reg_state = "IDLE")
  /\ reg_stop' = (Writes(acc, "command") /\ acc.data % 2 = COMMAND_STOP
                  /\ reg_state # "IDLE")

MM_READ(acc) ==
  rddata' = IF acc.op # "read" THEN 0
            ELSE IF acc.name \in ConfigRegisters THEN config[acc.name]
            ELSE IF acc.name = "status" /\ reg_state = "IDLE" THEN STATUS_IDLE
            ELSE STATUS_BUSY

-----------------------------------------------------------------------------
Enter(state) == reg_state' = state /\ count' = 1

FirstLine == Enter("VALID") /\ height' = 1

(* A frame begins with its blank, if it has one. *)
OpenFrame ==
  IF config["frame_line_blank"] > 0 THEN Enter("FRAME_LINE_BLANK") /\ UNCHANGED height
  ELSE FirstLine

CloseFrame == Enter("FRAME_FRAME_BLANK") /\ UNCHANGED height

(* Mutants of NextLine: the height counter stands still or skips a line. *)
SameLine == Enter("VALID") /\ UNCHANGED height
SkipLine == Enter("VALID") /\ height' = IF height + 1 < config["frame_height"] THEN height + 2 ELSE height + 1

NextLine == Enter("VALID") /\ height' = (height + 1) % REG_VALUES

(* The end of a line.  Neither branch is taken if the height is 0. *)
EndLine ==
  IF height < config["frame_height"]
  THEN Enter("LINE_LINE_BLANK") /\ UNCHANGED height
  ELSE IF height = config["frame_height"]
  THEN IF config["line_frame_blank"] > 0
       THEN Enter("LINE_FRAME_BLANK") /\ UNCHANGED height
       ELSE CloseFrame
  ELSE count' = (count + 1) % REG_VALUES /\ UNCHANGED <<reg_state, height>>

(* Mutant of Lasts: a stop that meets the end of a state is lost. *)
LastsThenStops(register, Next) ==
  IF count = config[register] THEN Next
  ELSE IF reg_stop THEN reg_state' = "IDLE" /\ count' = 0 /\ UNCHANGED height
  ELSE count' = (count + 1) % REG_VALUES /\ UNCHANGED <<reg_state, height>>

(* A state lasts as long as configured, unless a stop ends it. *)
Lasts(register, Next) ==
  IF reg_stop THEN reg_state' = "IDLE" /\ count' = 0 /\ UNCHANGED height
  ELSE IF count = config[register] THEN Next
  ELSE count' = (count + 1) % REG_VALUES /\ UNCHANGED <<reg_state, height>>

Idle == IF reg_start THEN OpenFrame ELSE UNCHANGED <<reg_state, count, height>>

STATE_LOGIC ==
  CASE reg_state = "IDLE"              -> Idle
    [] reg_state = "FRAME_FRAME_BLANK" -> Lasts("frame_frame_blank", OpenFrame)
    [] reg_state = "FRAME_LINE_BLANK"  -> Lasts("frame_line_blank", FirstLine)
    [] reg_state = "VALID"             -> Lasts("frame_width", EndLine)
    [] reg_state = "LINE_LINE_BLANK"   -> Lasts("line_line_blank", NextLine)
    [] reg_state = "LINE_FRAME_BLANK"  -> Lasts("line_frame_blank", CloseFrame)

(* One clock edge. *)
GeneratorTick(acc) == MM_WRITE(acc) /\ MM_READ(acc) /\ STATE_LOGIC
=============================================================================
