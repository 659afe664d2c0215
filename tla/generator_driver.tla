--------------------------- MODULE generator_driver ---------------------------
(***************************************************************************)
(* The driver of the sensor emulator (cmos_sensor_output_generator.c), cut *)
(* at its register accesses.  A program may make its calls in any order.   *)
(* init and configure stop the generator and write the six registers one   *)
(* after the other, each only if its value is within bounds and the        *)
(* generator says that it is idle; the value is checked first.             *)
(*                                                                         *)
(* Gap cycles at least lie between two accesses, any number may.  A read   *)
(* takes two cycles and returns the value of the first.                    *)
(***************************************************************************)
EXTENDS cmos_sensor_output_generator, Sequences

CONSTANTS
  Arguments,  (* what the program may pass to configure                    *)
  Gap

ASSUME DriverAssumption ==
  Arguments \subseteq [ConfigRegisters -> Nat] /\ Gap \in Nat

VARIABLES
  at,      (* the next access of the program                               *)
  call,    (* the call it is in or has returned from                       *)
  values,  (* the values a call writes                                     *)
  step,    (* the register it writes                                       *)
  success,
  gap      (* cycles left before the next access                           *)

driverVars == <<at, call, values, step, success, gap>>

Order ==
  <<"frame_width", "frame_height", "frame_frame_blank", "frame_line_blank",
    "line_line_blank", "line_frame_blank">>

DriverTypeOK ==
  /\ at \in {"ready", "stop", "bounds", "status", "status2", "write"}
  /\ call \in {"none", "init", "configure", "start", "stop"}
  /\ values \in Arguments \union {Minimum}
  /\ step \in 1..Len(Order)
  /\ success \in BOOLEAN
  /\ gap \in 0..Gap

DriverInit ==
  /\ at = "ready" /\ call = "none" /\ values = Minimum /\ step = 1
  /\ success = FALSE /\ gap = 0

DriverReset ==
  /\ at' = "ready" /\ call' = "none" /\ values' = Minimum /\ step' = 1
  /\ success' = FALSE /\ gap' = 0

-----------------------------------------------------------------------------
(* The commands start and stop are a write each. *)
Command(name, value, acc) ==
  /\ at = "ready"
  /\ acc = Write("command", value)
  /\ call' = name
  /\ UNCHANGED <<at, values, step, success>>

generator_start(acc) == Command("start", COMMAND_START, acc)
generator_stop(acc)  == Command("stop", COMMAND_STOP, acc)

(* Mutant of Call: the generator is not stopped. *)
CallRunning(name, v, acc) ==
  /\ at = "ready"
  /\ acc = NoAccess
  /\ at' = "bounds" /\ call' = name /\ values' = v /\ step' = 1
  /\ success' = (name = "configure")

(* init and configure begin with a stop; init ignores what the six writes  *)
(* return.                                                                 *)
Call(name, v, acc) ==
  /\ at = "ready"
  /\ acc = Write("command", COMMAND_STOP)
  /\ at' = "bounds" /\ call' = name /\ values' = v /\ step' = 1
  /\ success' = (name = "configure")

generator_init(acc) == Call("init", Minimum, acc)
generator_configure(acc) == \E v \in Arguments : Call("configure", v, acc)

Register == Order[step]

(* Mutant of Advance: one register too many. *)
AdvancePast(ok) ==
  /\ success' = (success /\ ok)
  /\ IF step > Len(Order) THEN at' = "ready" /\ UNCHANGED step
     ELSE at' = "bounds" /\ step' = step + 1
  /\ UNCHANGED <<call, values>>

(* The next register, or the return. *)
Advance(ok) ==
  /\ success' = (success /\ ok)
  /\ IF step = Len(Order) THEN at' = "ready" /\ UNCHANGED step
     ELSE at' = "bounds" /\ step' = step + 1
  /\ UNCHANGED <<call, values>>

Valid(register, v) == Minimum[register] <= v /\ v <= Largest

(* A value out of bounds is refused without an access. *)
CheckBounds(acc) ==
  /\ at = "bounds"
  /\ acc = NoAccess
  /\ IF Valid(Register, values[Register])
     THEN at' = "status" /\ UNCHANGED <<call, values, step, success>>
     ELSE Advance(FALSE)

is_idle(acc) ==
  \/ /\ at = "status" /\ acc = Read("status")
     /\ at' = "status2" /\ UNCHANGED <<call, values, step, success>>
  \/ /\ at = "status2" /\ acc = Read("status")
     /\ IF rddata = STATUS_IDLE
        THEN at' = "write" /\ UNCHANGED <<call, values, step, success>>
        ELSE Advance(FALSE)

WriteRegister(acc) ==
  /\ at = "write"
  /\ acc = Write(Register, values[Register])
  /\ Advance(TRUE)

(* Other code runs. *)
Elsewhere(acc) ==
  /\ at # "status2" /\ acc = NoAccess
  /\ UNCHANGED <<at, call, values, step, success>>

(* One clock cycle of the program. *)
DriverTick(acc) ==
  /\ acc # NoAccess => gap = 0
  /\ \/ generator_start(acc) \/ generator_stop(acc)
     \/ generator_init(acc) \/ generator_configure(acc)
     \/ CheckBounds(acc) \/ is_idle(acc) \/ WriteRegister(acc)
     \/ Elsewhere(acc)
  /\ gap' = IF acc # NoAccess /\ at' # "status2" THEN Gap
            ELSE IF gap > 0 THEN gap - 1 ELSE 0
=============================================================================
