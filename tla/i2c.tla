--------------------------------- MODULE i2c ---------------------------------
(***************************************************************************)
(* The I2C driver (i2c.c): i2c_init, i2c_configure, i2c_write_array and    *)
(* i2c_read_array, cut at their register accesses.  A transfer works       *)
(* through the commands of its script, one byte each.  i2c_write and       *)
(* i2c_read make the accesses of the array functions with Size = 1.        *)
(*                                                                         *)
(* Any number of cycles may pass between two accesses.  A read takes two   *)
(* cycles (i2c_hw.tcl) and returns the value of the first.                 *)
(***************************************************************************)
EXTENDS i2c_interface, Sequences

CONSTANTS
  Device,    (* the address of the device, with R/W = 0 (0xba)             *)
  Divisor,   (* what i2c_init writes to the clock divisor (125)            *)
  Size,      (* the bytes a call transfers (sizeof(byte_data))             *)
  Calls,     (* the calls the program may make                             *)
  MaxCalls   (* bound on the calls of a behaviour                          *)

ASSUME DriverAssumption ==
  /\ Device \in {d \in 0..255 : d % 2 = 0}
  /\ Divisor \in 0..255
  /\ Size \in Nat \ {0}
  /\ \A c \in Calls :
       \/ c \in [op : {"write", "read"}, index : 0..255, values : [1..Size -> 0..255]]
       \/ c \in [op : {"configure"}, irq : BOOLEAN]
  /\ MaxCalls \in Nat

VARIABLES
  at,      (* the next access of the program                               *)
  call,    (* the call it is in or has returned from                       *)
  step,    (* the command of its script                                    *)
  value,   (* the bytes read                                               *)
  result,  (* what the call returned                                       *)
  calls    (* calls so far                                                 *)

driverVars == <<at, call, step, value, result, calls>>

NoCall == [op |-> "none"]

Points ==
  {"init", "ready", "before", "before2", "data", "control", "after", "after2",
   "status", "status2", "get", "get2", "abort", "clear", "configure"}

DriverTypeOK ==
  /\ at \in Points
  /\ call \in Calls \union {NoCall}
  /\ step \in 1..3 + Size
  /\ Len(value) <= Size /\ \A i \in DOMAIN value : value[i] \in 0..255
  /\ result \in {"none", "SUCCESS", "ENODEV", "EBADACK"}
  /\ calls \in 0..MaxCalls

DriverInit ==
  at = "init" /\ call = NoCall /\ step = 1 /\ value = <<>> /\ result = "none" /\ calls = 0

DriverReset ==
  at' = "init" /\ call' = NoCall /\ step' = 1 /\ value' = <<>> /\ result' = "none" /\ calls' = 0

-----------------------------------------------------------------------------
(* What the call of a function sends: a byte and a control word each. *)
Order(data, control) == [data |-> data, control |-> control]

Header(c) == <<Order(Device, STA + WR), Order(c.index, WR)>>

WriteLoop(c) ==
  [i \in 1..Size |-> Order(c.values[i], IF i < Size THEN WR ELSE STP + WR)]

(* Mutant of ReadLoop: one byte too many. *)
ReadLoopLong == [i \in 1..Size + 1 |-> Order(0, IF i <= Size THEN RD ELSE STP + RD + ACK)]

(* The last byte read is not acknowledged: ACK sends a 1. *)
ReadLoop == [i \in 1..Size |-> Order(0, IF i < Size THEN RD ELSE STP + RD + ACK)]

Script(c) ==
  IF c.op = "write" THEN Header(c) \o WriteLoop(c)
  ELSE Header(c) \o <<Order(Device + 1, STA + WR)>> \o ReadLoop

Current == Script(call)[step]
Sends == HasBit(Current.control, WR)
IsLast == step = Len(Script(call))

-----------------------------------------------------------------------------
(* The access the program makes at a point. *)
Access ==
  CASE at = "init" -> Write("CD", Divisor)
    [] at = "ready" -> NoAccess
    [] at = "data" -> Write("DR", Current.data)
    [] at = "control" -> Write("CR", Current.control)
    [] at \in {"get", "get2"} -> Read("DR")
    [] at \in {"abort", "clear"} -> Write("CR", STP)
    [] at = "configure" -> Write("CR", Flag(call.irq, IEN))
    [] OTHER -> Read("SR")

(* The second cycle of a read. *)
Reading == at \in {"before2", "after2", "status2", "get2"}

(* The program goes from one point to another and changes nothing else. *)
Goes(from, to) ==
  /\ at = from /\ at' = to
  /\ UNCHANGED <<call, step, value, result, calls>>

i2c_init == Goes("init", "ready")

Begin ==
  /\ at = "ready" /\ calls < MaxCalls
  /\ call' \in Calls
  /\ at' = IF call'.op = "configure" THEN "clear" ELSE "before"
  /\ step' = 1 /\ value' = <<>> /\ result' = "none"
  /\ calls' = calls + 1

i2c_configure == Goes("clear", "configure") \/ Goes("configure", "ready")

(* Polls TIP, the value of which is known in the second cycle. *)
wait_end_of_transfer(first, second, next) ==
  \/ Goes(first, second)
  \/ Goes(second, IF HasBit(readdata, TIP_BIT) THEN first ELSE next)

(* set_data_control and get_data_set_control. *)
Commands ==
  \/ wait_end_of_transfer("before", "before2", IF Sends THEN "data" ELSE "control")
  \/ Goes("data", "control")
  \/ Goes("control", "after")
  \/ wait_end_of_transfer("after", "after2", IF Sends THEN "status" ELSE "get")

(* The next command of the script, or the return. *)
Advance ==
  /\ IF IsLast THEN at' = "ready" /\ result' = "SUCCESS" /\ UNCHANGED step
     ELSE at' = "before" /\ step' = step + 1 /\ UNCHANGED result
  /\ UNCHANGED <<call, calls>>

(* The acknowledgement of a byte sent. *)
CheckStatus ==
  \/ Goes("status", "status2")
  \/ at = "status2" /\ ~HasBit(readdata, LAR_BIT) /\ Advance /\ UNCHANGED value
  \/ HasBit(readdata, LAR_BIT) /\ Goes("status2", "abort")

(* A byte received. *)
GetData ==
  \/ Goes("get", "get2")
  \/ at = "get2" /\ value' = Append(value, readdata) /\ Advance

(* The error path: a STOP is asked for and the call returns. *)
Abort ==
  /\ at = "abort" /\ at' = "ready"
  /\ result' = IF HasBit(Current.control, STA) THEN "ENODEV" ELSE "EBADACK"
  /\ UNCHANGED <<call, step, value, calls>>

(* One clock cycle of the program: it makes the access that is due, or     *)
(* other code runs; a read that has begun is finished first.               *)
DriverTick(acc) ==
  \/ /\ acc = Access
     /\ i2c_init \/ Begin \/ i2c_configure \/ Commands \/ CheckStatus \/ GetData \/ Abort
  \/ ~Reading /\ acc = NoAccess /\ UNCHANGED driverVars
=============================================================================
