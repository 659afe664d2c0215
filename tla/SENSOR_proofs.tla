---------------------------- MODULE SENSOR_proofs ----------------------------
(***************************************************************************)
(* Proofs about the sensor emulator and its driver, for every size of the  *)
(* frame, every set of arguments and every Gap.                            *)
(***************************************************************************)
EXTENDS SENSOR_system, TLAPS

-----------------------------------------------------------------------------
(* Types.                                                                  *)

RegisterValues == 0..(REG_VALUES - 1)

LEMMA Values ==
  /\ REG_VALUES \in Nat /\ REG_VALUES > 1 /\ Largest \in Nat /\ Largest < REG_VALUES
  /\ {0, 1} \subseteq RegisterValues
  /\ Minimum \in [ConfigRegisters -> {0, 1}]
  /\ \A v \in Nat : v % REG_VALUES \in RegisterValues
  /\ \A v \in Nat : v < REG_VALUES => v % REG_VALUES = v
  <1>1. Largest \in Nat \ {0} /\ REG_VALUES \in Nat /\ Largest < REG_VALUES
    BY GeneratorAssumption, RegisterAssumption DEF Largest
  <1>2. Minimum \in [ConfigRegisters -> {0, 1}]
    BY DEF Minimum, ConfigRegisters
  <1>3. REG_VALUES > 1
    BY <1>1
  <1>4. \A v \in Nat : v % REG_VALUES \in RegisterValues
    BY <1>1, <1>3 DEF RegisterValues
  <1>5. QED
    BY <1>1, <1>2, <1>3, <1>4 DEF RegisterValues

LEMMA OrderTyped ==
  /\ Len(Order) = 6 /\ Order \in [1..6 -> ConfigRegisters]
  /\ \A r \in ConfigRegisters : \E i \in 1..6 : Order[i] = r
  /\ \A i, j \in 1..6 : Order[i] = Order[j] => i = j
  /\ "command" \notin ConfigRegisters
  BY DEF Order, ConfigRegisters

(* What the program writes is a number. *)
LEMMA ValuesTyped ==
  ASSUME DriverTypeOK
  PROVE  values \in [ConfigRegisters -> Nat] /\ step \in 1..6 /\ Register \in ConfigRegisters
  <1>1. values \in [ConfigRegisters -> Nat]
    <2>1. CASE values \in Arguments
      BY <2>1, DriverAssumption
    <2>2. CASE values = Minimum
      BY <2>2, Values
    <2>3. QED
      BY <2>1, <2>2 DEF DriverTypeOK
  <1>2. step \in 1..6
    BY OrderTyped DEF DriverTypeOK
  <1>3. QED
    BY <1>1, <1>2, OrderTyped DEF Register

LEMMA AccessData ==
  ASSUME DriverTypeOK, NEW acc \in Accesses
  PROVE  acc.data \in Nat
  BY ValuesTyped DEF Accesses, NoAccess, Read, Write, COMMAND_START, COMMAND_STOP

LEMMA DriverTyped ==
  ASSUME DriverTypeOK, NEW acc \in Accesses, DriverTick(acc)
  PROVE  DriverTypeOK'
  <1>1. gap \in Nat /\ Gap \in Nat /\ gap' \in 0..Gap
    BY DriverAssumption DEF DriverTypeOK, DriverTick
  <1>2. step \in 1..6 /\ Len(Order) = 6
    BY ValuesTyped, OrderTyped
  <1>3. \A ok \in BOOLEAN : Advance(ok) =>
          /\ at' \in {"ready", "bounds"} /\ step' \in 1..6 /\ success' \in BOOLEAN
          /\ call' = call /\ values' = values
    BY <1>2 DEF Advance, DriverTypeOK
  <1>4. CASE generator_start(acc) \/ generator_stop(acc) \/ Elsewhere(acc)
    BY <1>1, <1>4 DEF generator_start, generator_stop, Command, Elsewhere, DriverTypeOK
  <1>5. CASE generator_init(acc) \/ generator_configure(acc)
    <2>1. /\ at' = "bounds" /\ step' = 1 /\ success' \in BOOLEAN
          /\ call' \in {"init", "configure"} /\ values' \in Arguments \union {Minimum}
      BY <1>5 DEF generator_init, generator_configure, Call
    <2>2. QED
      BY <1>1, <1>2, <2>1 DEF DriverTypeOK
  <1>6. CASE CheckBounds(acc) \/ is_idle(acc) \/ WriteRegister(acc)
    <2>1. \/ at' \in {"status", "status2", "write"} /\ UNCHANGED <<call, values, step, success>>
          \/ \E ok \in BOOLEAN : Advance(ok)
      BY <1>6 DEF CheckBounds, is_idle, WriteRegister
    <2>2. QED
      BY <1>1, <1>2, <1>3, <2>1 DEF DriverTypeOK
  <1>7. QED
    BY <1>4, <1>5, <1>6 DEF DriverTick

(* The state the generator goes to, and its counters. *)
LEMMA StateTyped ==
  ASSUME GeneratorTypeOK, STATE_LOGIC
  PROVE  /\ reg_state' \in STATE_TYPE
         /\ count' \in RegisterValues /\ height' \in RegisterValues
  <1>1. /\ count \in RegisterValues /\ height \in RegisterValues
        /\ reg_state \in STATE_TYPE /\ {0, 1} \subseteq RegisterValues
        /\ (count + 1) % REG_VALUES \in RegisterValues
        /\ (height + 1) % REG_VALUES \in RegisterValues
    BY Values DEF GeneratorTypeOK, RegisterValues
  <1> DEFINE Typed == /\ reg_state' \in STATE_TYPE
                      /\ count' \in RegisterValues /\ height' \in RegisterValues
  <1>2. \A state \in STATE_TYPE : Enter(state) /\ UNCHANGED height => Typed
    BY <1>1 DEF Enter
  <1>3. FirstLine \/ NextLine => Typed
    BY <1>1 DEF FirstLine, NextLine, Enter, STATE_TYPE
  <1>4. OpenFrame \/ CloseFrame => Typed
    BY <1>2, <1>3 DEF OpenFrame, CloseFrame, STATE_TYPE
  <1>5. EndLine => Typed
    BY <1>1, <1>2, <1>4 DEF EndLine, STATE_TYPE
  <1>6. reg_state' = "IDLE" /\ count' = 0 /\ UNCHANGED height => Typed
    BY <1>1 DEF STATE_TYPE
  <1>7. count' = (count + 1) % REG_VALUES /\ UNCHANGED <<reg_state, height>> => Typed
    BY <1>1
  <1>8. CASE reg_state = "IDLE"
    BY <1>1, <1>4, <1>8 DEF STATE_LOGIC, Idle
  <1>9. CASE reg_state = "FRAME_FRAME_BLANK"
    BY <1>4, <1>6, <1>7, <1>9 DEF STATE_LOGIC, Lasts
  <1>10. CASE reg_state = "FRAME_LINE_BLANK"
    BY <1>3, <1>6, <1>7, <1>10 DEF STATE_LOGIC, Lasts
  <1>11. CASE reg_state = "VALID"
    BY <1>5, <1>6, <1>7, <1>11 DEF STATE_LOGIC, Lasts
  <1>12. CASE reg_state = "LINE_LINE_BLANK"
    BY <1>3, <1>6, <1>7, <1>12 DEF STATE_LOGIC, Lasts
  <1>13. CASE reg_state = "LINE_FRAME_BLANK"
    BY <1>4, <1>6, <1>7, <1>13 DEF STATE_LOGIC, Lasts
  <1>14. QED
    BY <1>1, <1>8, <1>9, <1>10, <1>11, <1>12, <1>13 DEF STATE_TYPE

LEMMA GeneratorTyped ==
  ASSUME GeneratorTypeOK, DriverTypeOK, NEW acc \in Accesses, GeneratorTick(acc)
  PROVE  GeneratorTypeOK'
  <1>1. acc.data \in Nat
    BY AccessData
  <1>2. config' \in [ConfigRegisters -> RegisterValues]
    <2>1. config \in [ConfigRegisters -> RegisterValues]
      BY DEF GeneratorTypeOK, RegisterValues
    <2>2. acc.data % REG_VALUES \in RegisterValues
      BY <1>1, Values
    <2>3. QED
      BY <2>1, <2>2 DEF GeneratorTick, MM_WRITE
  <1>3. reg_start' \in BOOLEAN /\ reg_stop' \in BOOLEAN
    BY DEF GeneratorTick, MM_WRITE
  <1>4. rddata' \in RegisterValues
    BY Values
    DEF GeneratorTick, MM_READ, GeneratorTypeOK, STATUS_IDLE, STATUS_BUSY, RegisterValues
  <1>5. /\ reg_state' \in STATE_TYPE
        /\ count' \in RegisterValues /\ height' \in RegisterValues
    BY StateTyped DEF GeneratorTick
  <1>6. QED
    BY <1>2, <1>3, <1>4, <1>5 DEF GeneratorTypeOK, RegisterValues

LEMMA TypeInit == Init => TypeOK
  <1> SUFFICES ASSUME Init PROVE TypeOK
    OBVIOUS
  <1>1. GeneratorTypeOK
    <2>1. config \in [ConfigRegisters -> RegisterValues]
      BY Values DEF Init, GeneratorInit
    <2>2. QED
      BY <2>1, Values DEF Init, GeneratorInit, GeneratorTypeOK, RegisterValues, STATE_TYPE
  <1>2. DriverTypeOK
    <2>1. Gap \in Nat /\ 0 \in 0..Gap /\ 1 \in 1..Len(Order)
      BY DriverAssumption, OrderTyped
    <2>2. QED
      BY <2>1 DEF Init, DriverInit, DriverTypeOK
  <1>3. QED
    BY <1>1, <1>2 DEF TypeOK

LEMMA TypeReset == Reset => TypeOK'
  <1> SUFFICES ASSUME Reset PROVE TypeOK'
    OBVIOUS
  <1>1. GeneratorTypeOK'
    <2>1. config' \in [ConfigRegisters -> RegisterValues]
      BY Values DEF Reset, GeneratorReset
    <2>2. QED
      BY <2>1, Values DEF Reset, GeneratorReset, GeneratorTypeOK, RegisterValues, STATE_TYPE
  <1>2. DriverTypeOK'
    <2>1. Gap \in Nat /\ 0 \in 0..Gap /\ 1 \in 1..Len(Order)
      BY DriverAssumption, OrderTyped
    <2>2. QED
      BY <2>1 DEF Reset, DriverReset, DriverTypeOK
  <1>3. QED
    BY <1>1, <1>2 DEF TypeOK

LEMMA TypeStep == TypeOK /\ [Next]_vars => TypeOK'
  <1> SUFFICES ASSUME TypeOK, [Next]_vars PROVE TypeOK'
    OBVIOUS
  <1>1. CASE Tick
    BY <1>1, DriverTyped, GeneratorTyped DEF Tick, Cycle, TypeOK
  <1>2. CASE Reset
    BY <1>2, TypeReset
  <1>3. CASE UNCHANGED vars
    BY <1>3
    DEF vars, generatorVars, driverVars, TypeOK, GeneratorTypeOK, DriverTypeOK
  <1>4. QED
    BY <1>1, <1>2, <1>3 DEF Next

(* The variables keep their types: no counter and no register outgrows the *)
(* bits it is declared with, whatever is written to it.                    *)
THEOREM Typing == Spec => []TypeOK
  BY TypeInit, TypeStep, PTL DEF Spec

-----------------------------------------------------------------------------
(* Commands.  A command is written when the program has been away from the *)
(* generator for Gap cycles: the one before has been obeyed by then.       *)

CommandInv ==
  /\ reg_start \/ reg_stop => gap = Gap
  /\ reg_start => reg_state = "IDLE" /\ ~reg_stop
  /\ reg_stop => reg_state # "IDLE"
  /\ at # "ready" => call \in {"init", "configure"}
  /\ CommandsObeyed

(* The generator runs from the cycle after a start to that after a stop.   *)
LEMMA StateMoves ==
  ASSUME GeneratorTypeOK, STATE_LOGIC
  PROVE  reg_state' = "IDLE" <=>
           IF reg_state = "IDLE" THEN ~reg_start ELSE reg_stop
  <1>1. OpenFrame \/ CloseFrame \/ FirstLine \/ NextLine => reg_state' # "IDLE"
    BY DEF OpenFrame, CloseFrame, FirstLine, NextLine, Enter
  <1>2. reg_state # "IDLE" /\ EndLine => reg_state' # "IDLE"
    BY <1>1 DEF EndLine, Enter
  <1>3. CASE reg_state = "IDLE"
    BY <1>1, <1>3 DEF STATE_LOGIC, Idle
  <1>4. CASE reg_state = "FRAME_FRAME_BLANK"
    BY <1>1, <1>4 DEF STATE_LOGIC, Lasts
  <1>5. CASE reg_state = "FRAME_LINE_BLANK"
    BY <1>1, <1>5 DEF STATE_LOGIC, Lasts
  <1>6. CASE reg_state = "VALID"
    BY <1>2, <1>6 DEF STATE_LOGIC, Lasts
  <1>7. CASE reg_state = "LINE_LINE_BLANK"
    BY <1>1, <1>7 DEF STATE_LOGIC, Lasts
  <1>8. CASE reg_state = "LINE_FRAME_BLANK"
    BY <1>1, <1>8 DEF STATE_LOGIC, Lasts
  <1>9. QED
    BY <1>3, <1>4, <1>5, <1>6, <1>7, <1>8 DEF GeneratorTypeOK, STATE_TYPE

(* Between two accesses no command is under way. *)
LEMMA NoPulse ==
  ASSUME Gap >= 1, DriverTypeOK, CommandInv, gap = 0
  PROVE  ~reg_start /\ ~reg_stop
  BY DriverAssumption DEF CommandInv

(* What the cycles of the program do to the generator's commands. *)
LEMMA CommandCycles ==
  ASSUME DriverTypeOK, NEW acc \in Accesses, Cycle(acc)
  PROVE
    \/ /\ at = "ready" /\ at' = "ready" /\ call' = "start"
       /\ gap = 0 /\ gap' = Gap
       /\ reg_start' <=> reg_state = "IDLE"
       /\ ~reg_stop'
    \/ /\ at = "ready" /\ call' \in {"stop", "init", "configure"}
       /\ \/ at' = "ready" /\ call' = "stop"
          \/ at' # "ready" /\ call' \in {"init", "configure"}
       /\ gap = 0 /\ gap' = Gap
       /\ reg_stop' <=> reg_state # "IDLE"
       /\ ~reg_start'
    \/ /\ call' = call /\ (at = "ready" <=> at' = "ready")
       /\ ~reg_start' /\ ~reg_stop'
    \/ /\ call' = call /\ at # "ready" /\ at' = "ready"
       /\ ~reg_start' /\ ~reg_stop'
  <1>1. /\ (acc # NoAccess => gap = 0)
        /\ reg_start' = (Writes(acc, "command") /\ acc.data % 2 = COMMAND_START
                         /\ reg_state = "IDLE")
        /\ reg_stop' = (Writes(acc, "command") /\ acc.data % 2 = COMMAND_STOP
                        /\ reg_state # "IDLE")
    BY DEF Cycle, DriverTick, GeneratorTick, MM_WRITE
  <1>2. /\ (acc # NoAccess => gap = 0)
        /\ reg_start' <=> (Writes(acc, "command") /\ acc.data % 2 = COMMAND_START
                           /\ reg_state = "IDLE")
        /\ reg_stop' <=> (Writes(acc, "command") /\ acc.data % 2 = COMMAND_STOP
                          /\ reg_state # "IDLE")
    BY <1>1
  <1>3. CASE generator_start(acc)
    <2>1. /\ Writes(acc, "command") /\ acc.data = 1 /\ acc # NoAccess
          /\ at = "ready" /\ at' = "ready" /\ call' = "start"
      BY <1>3 DEF generator_start, Command, Write, Writes, COMMAND_START, NoAccess
    <2>2. gap' = Gap
      BY <2>1 DEF Cycle, DriverTick
    <2>3. QED
      BY <1>2, <2>1, <2>2 DEF COMMAND_START, COMMAND_STOP
  <1>4. CASE generator_stop(acc) \/ generator_init(acc) \/ generator_configure(acc)
    <2>1. /\ Writes(acc, "command") /\ acc.data = 0 /\ acc # NoAccess
          /\ at = "ready" /\ at' # "status2"
          /\ \/ at' = "ready" /\ call' = "stop"
             \/ at' # "ready" /\ call' \in {"init", "configure"}
      BY <1>4
      DEF generator_stop, Command, generator_init, generator_configure, Call,
          Write, Writes, COMMAND_STOP, NoAccess
    <2>2. gap' = Gap
      BY <2>1 DEF Cycle, DriverTick
    <2>3. QED
      BY <1>2, <2>1, <2>2 DEF COMMAND_START, COMMAND_STOP
  <1>5. CASE CheckBounds(acc) \/ is_idle(acc) \/ WriteRegister(acc) \/ Elsewhere(acc)
    <2>1. ~Writes(acc, "command")
      <3>1. acc.op # "write" \/ acc.name \in ConfigRegisters
        <4>1. CASE CheckBounds(acc) \/ is_idle(acc) \/ Elsewhere(acc)
          <5>1. acc = NoAccess \/ acc = Read("status")
            BY <4>1 DEF CheckBounds, is_idle, Elsewhere
          <5>2. QED
            BY <5>1 DEF Read, NoAccess
        <4>2. CASE WriteRegister(acc)
          BY <4>2, ValuesTyped DEF WriteRegister, Write
        <4>3. QED
          BY <1>5, <4>1, <4>2
      <3>2. QED
        BY <3>1, OrderTyped DEF Writes
    <2>2. /\ call' = call
          /\ (at = "ready" <=> at' = "ready") \/ (at # "ready" /\ at' = "ready")
      BY <1>5 DEF CheckBounds, is_idle, WriteRegister, Elsewhere, Advance
    <2>3. QED
      BY <1>2, <2>1, <2>2
  <1>6. QED
    BY <1>3, <1>4, <1>5 DEF Cycle, DriverTick

LEMMA CommandCycle ==
  ASSUME Gap >= 1, TypeOK, CommandInv, NEW acc \in Accesses, Cycle(acc)
  PROVE  CommandInv'
  <1>1. GeneratorTypeOK /\ DriverTypeOK
    BY DEF TypeOK
  <1>2. reg_state' = "IDLE" <=>
          IF reg_state = "IDLE" THEN ~reg_start ELSE reg_stop
    BY <1>1, StateMoves DEF Cycle, GeneratorTick
  <1>3. gap = 0 => ~reg_start /\ ~reg_stop
    BY <1>1, NoPulse
  <1>4. /\ reg_start => reg_state = "IDLE" /\ ~reg_stop
        /\ reg_stop => reg_state # "IDLE"
        /\ at # "ready" => call \in {"init", "configure"}
        /\ (call = "start" /\ at = "ready") <=>
             (reg_start \/ (reg_state # "IDLE" /\ ~reg_stop))
    BY DEF CommandInv, CommandsObeyed
  <1> DEFINE Goal ==
        /\ reg_start' \/ reg_stop' => gap' = Gap
        /\ reg_start' => reg_state' = "IDLE" /\ ~reg_stop'
        /\ reg_stop' => reg_state' # "IDLE"
        /\ at' # "ready" => call' \in {"init", "configure"}
        /\ (call' = "start" /\ at' = "ready") <=>
             (reg_start' \/ (reg_state' # "IDLE" /\ ~reg_stop'))
  <1>5. Goal
    BY <1>1, <1>2, <1>3, <1>4, CommandCycles
  <1>6. QED
    BY <1>5 DEF CommandInv, CommandsObeyed

LEMMA CommandStep == Gap >= 1 /\ TypeOK /\ CommandInv /\ [Next]_vars => CommandInv'
  <1> SUFFICES ASSUME Gap >= 1, TypeOK, CommandInv, [Next]_vars PROVE CommandInv'
    OBVIOUS
  <1>1. CASE Tick
    BY <1>1, CommandCycle DEF Tick
  <1>2. CASE Reset
    BY <1>2 DEF Reset, GeneratorReset, DriverReset, CommandInv, CommandsObeyed
  <1>3. CASE UNCHANGED vars
    BY <1>3 DEF vars, generatorVars, driverVars, CommandInv, CommandsObeyed
  <1>4. QED
    BY <1>1, <1>2, <1>3 DEF Next

(* Every start and stop is obeyed if the program leaves a cycle at least   *)
(* between two accesses: MM_WRITE drops a start outside IDLE and a stop in *)
(* it, and none is written while the command before is not yet executed.   *)
THEOREM CommandsAreObeyed ==
  ASSUME Gap >= 1
  PROVE  Spec => []CommandsObeyed
  <1>1. Init => CommandInv
    BY DEF Init, GeneratorInit, DriverInit, CommandInv, CommandsObeyed
  <1>2. TypeOK /\ CommandInv /\ [Next]_vars => CommandInv'
    BY CommandStep
  <1>3. CommandInv => CommandsObeyed
    BY DEF CommandInv
  <1>4. QED
    BY <1>1, <1>2, <1>3, Typing, PTL DEF Spec

-----------------------------------------------------------------------------
(* What configure returns.  The driver asks for the status before every    *)
(* write and gives the register up if the generator is busy; it never is,  *)
(* because the stop at the start of the call has been obeyed.              *)

Written(i)  == config[Order[i]] = values[Order[i]]
InBounds(i) == Valid(Order[i], values[Order[i]])

ConfigureInv ==
  /\ at = "status2" => gap = 0 /\ rddata = STATUS_IDLE
  /\ at \in {"status", "status2", "write"} => InBounds(step)
  /\ at # "ready" =>
       /\ success <=> (call = "configure" /\ \A i \in 1..(step - 1) : InBounds(i))
       /\ success => \A i \in 1..(step - 1) : Written(i)
  /\ at = "ready" =>
       /\ call = "configure" => (success <=> \A i \in 1..6 : InBounds(i))
       /\ success => \A i \in 1..6 : Written(i)

(* An access during a call finds the generator idle. *)
LEMMA AtRest ==
  ASSUME Gap >= 1, TypeOK, CommandInv, gap = 0, at # "ready"
  PROVE  reg_state = "IDLE"
  BY NoPulse DEF TypeOK, CommandInv, CommandsObeyed

(* No access but the write of a register changes the registers. *)
LEMMA OnlyWrites ==
  ASSUME NEW acc, GeneratorTick(acc), acc.op # "write" \/ acc.name \notin ConfigRegisters
  PROVE  config' = config
  BY DEF GeneratorTick, MM_WRITE

(* The write of a register puts its value there and leaves the others. *)
LEMMA RegisterWritten ==
  ASSUME TypeOK, reg_state = "IDLE", InBounds(step),
         GeneratorTick(Write(Register, values[Register]))
  PROVE  config' = [config EXCEPT ![Order[step]] = values[Order[step]]]
  <1>1. DriverTypeOK
    BY DEF TypeOK
  <1>2. values[Register] \in Nat /\ Register \in ConfigRegisters
    BY <1>1, ValuesTyped
  <1>3. values[Register] <= Largest
    BY DEF InBounds, Valid, Register
  <1>4. values[Register] % REG_VALUES = values[Register]
    <2>1. values[Register] < REG_VALUES
      BY <1>2, <1>3, Values
    <2>2. QED
      BY <1>2, <2>1, Values
  <1>5. config' = [config EXCEPT ![Register] = values[Register] % REG_VALUES]
    BY <1>2 DEF GeneratorTick, MM_WRITE, Write, Configurable
  <1>6. QED
    BY <1>4, <1>5 DEF Register

(* The register under way is done: its value is written or was refused. *)
LEMMA AdvanceKeeps ==
  ASSUME TypeOK, ConfigureInv, at # "ready", NEW ok \in BOOLEAN, Advance(ok),
         ok <=> InBounds(step),
         ok => config' = [config EXCEPT ![Order[step]] = values[Order[step]]],
         ~ok => config' = config
  PROVE  ConfigureInv'
  <1>1. /\ step \in 1..6 /\ Len(Order) = 6 /\ values' = values /\ call' = call
        /\ success \in BOOLEAN
    BY ValuesTyped, OrderTyped DEF TypeOK, DriverTypeOK, Advance
  <1>2. success' = (success /\ ok)
    BY DEF Advance
  <1>3. success' <=> success /\ ok
    BY <1>2
  <1>4. \A i \in 1..6 : InBounds(i)' <=> InBounds(i)
    BY <1>1 DEF InBounds, Valid
  <1>5. success <=> (call = "configure" /\ \A i \in 1..(step - 1) : InBounds(i))
    BY DEF ConfigureInv
  <1>6. success' <=> (call' = "configure" /\ \A i \in 1..step : InBounds(i)')
    <2>1. \A i \in 1..step : i \in 1..(step - 1) \/ i = step
      BY <1>1
    <2>2. \A i \in 1..(step - 1) : i \in 1..step
      BY <1>1
    <2>3. step \in 1..step /\ \A i \in 1..step : i \in 1..6
      BY <1>1
    <2>4. QED
      BY <1>1, <1>3, <1>4, <1>5, <2>1, <2>2, <2>3
  <1>7. success' => \A i \in 1..step : Written(i)'
    <2> SUFFICES ASSUME success', NEW i \in 1..step PROVE config'[Order[i]] = values[Order[i]]
      BY <1>1 DEF Written
    <2>1. config' = [config EXCEPT ![Order[step]] = values[Order[step]]]
      BY <1>3
    <2>2. config \in [ConfigRegisters -> RegisterValues]
      BY DEF TypeOK, GeneratorTypeOK, RegisterValues
    <2>3. i \in 1..6 /\ Order[i] \in ConfigRegisters /\ Order[step] \in ConfigRegisters
      BY <1>1, OrderTyped
    <2>4. CASE i = step
      BY <2>1, <2>2, <2>3, <2>4
    <2>5. CASE i # step
      <3>1. Order[i] # Order[step]
        BY <1>1, <2>3, <2>5, OrderTyped
      <3>2. config[Order[i]] = values[Order[i]]
        <4>1. i \in 1..(step - 1)
          BY <1>1, <2>5
        <4>2. QED
          BY <1>3, <4>1 DEF ConfigureInv, Written
      <3>3. QED
        BY <2>1, <2>2, <2>3, <3>1, <3>2
    <2>6. QED
      BY <2>4, <2>5
  <1>8. CASE step = 6
    <2>1. at' = "ready"
      BY <1>1, <1>8 DEF Advance
    <2>2. QED
      BY <1>6, <1>7, <1>8, <2>1 DEF ConfigureInv
  <1>9. CASE step # 6
    <2>1. at' = "bounds" /\ step' = step + 1 /\ step' - 1 = step
      BY <1>1, <1>9 DEF Advance
    <2>2. QED
      BY <1>6, <1>7, <2>1 DEF ConfigureInv
  <1>10. QED
    BY <1>8, <1>9

LEMMA ConfigureCycle ==
  ASSUME Gap >= 1, TypeOK, CommandInv, ConfigureInv, NEW acc \in Accesses, Cycle(acc)
  PROVE  ConfigureInv'
  <1>1. /\ DriverTick(acc) /\ GeneratorTick(acc)
        /\ DriverTypeOK /\ (acc # NoAccess => gap = 0)
    BY DEF Cycle, TypeOK, DriverTick
  <1>2. acc = NoAccess => config' = config
    BY <1>1, OnlyWrites DEF NoAccess
  <1>3. \A value : acc = Write("command", value) => config' = config
    BY <1>1, OnlyWrites, OrderTyped DEF Write
  <1>4. UNCHANGED <<config, values, step>> =>
          \A i : (Written(i)' <=> Written(i)) /\ (InBounds(i)' <=> InBounds(i))
    BY DEF Written, InBounds, Valid
  <1>5. CASE generator_start(acc) \/ generator_stop(acc)
    <2>1. /\ at = "ready" /\ at' = "ready" /\ call' # "configure"
          /\ UNCHANGED <<config, values, step, success>>
      BY <1>3, <1>5 DEF generator_start, generator_stop, Command
    <2>2. QED
      BY <1>4, <2>1 DEF ConfigureInv
  <1>6. CASE generator_init(acc) \/ generator_configure(acc)
    <2>1. \E name : at' = "bounds" /\ call' = name /\ step' = 1
                    /\ success' = (name = "configure")
      BY <1>6 DEF generator_init, generator_configure, Call
    <2>2. at' = "bounds" /\ step' = 1 /\ (success' <=> call' = "configure")
      BY <2>1
    <2>3. 1..(step' - 1) = {}
      BY <2>2
    <2>4. QED
      BY <2>2, <2>3 DEF ConfigureInv
  <1>7. CASE CheckBounds(acc)
    <2>1. config' = config /\ at = "bounds"
      BY <1>2, <1>7 DEF CheckBounds
    <2>2. CASE InBounds(step)
      <3>1. at' = "status" /\ UNCHANGED <<config, call, values, step, success>>
        BY <1>7, <2>1, <2>2 DEF CheckBounds, InBounds, Register
      <3>2. QED
        BY <1>4, <2>1, <2>2, <3>1 DEF ConfigureInv
    <2>3. CASE ~InBounds(step)
      <3>1. Advance(FALSE)
        BY <1>7, <2>3 DEF CheckBounds, InBounds, Register
      <3>2. QED
        BY <2>1, <2>3, <3>1, AdvanceKeeps
    <2>4. QED
      BY <2>2, <2>3
  <1>8. CASE is_idle(acc)
    <2>1. acc = Read("status") /\ at \in {"status", "status2"}
      BY <1>8 DEF is_idle
    <2>2. gap = 0 /\ config' = config
      BY <1>1, <2>1, OnlyWrites DEF Read, NoAccess
    <2>3. reg_state = "IDLE"
      BY <2>1, <2>2, AtRest
    <2>4. rddata' = STATUS_IDLE
      BY <1>1, <2>1, <2>3 DEF GeneratorTick, MM_READ, Read, ConfigRegisters
    <2>5. UNCHANGED <<call, values, step, success>> /\ at' \in {"status2", "write"}
      BY <1>8 DEF is_idle, ConfigureInv
    <2>6. at' = "status2" => gap' = 0
      BY <1>1, <2>2 DEF DriverTick
    <2>7. QED
      BY <1>4, <2>1, <2>2, <2>4, <2>5, <2>6 DEF ConfigureInv
  <1>9. CASE WriteRegister(acc)
    <2>1. /\ acc = Write(Register, values[Register]) /\ Advance(TRUE)
          /\ at = "write" /\ InBounds(step)
      BY <1>9 DEF WriteRegister, ConfigureInv
    <2>2. reg_state = "IDLE"
      BY <1>1, <2>1, AtRest DEF Write, NoAccess
    <2>3. config' = [config EXCEPT ![Order[step]] = values[Order[step]]]
      BY <1>1, <2>1, <2>2, RegisterWritten
    <2>4. QED
      BY <2>1, <2>3, AdvanceKeeps
  <1>10. CASE Elsewhere(acc)
    <2>1. at # "status2" /\ UNCHANGED <<config, at, call, values, step, success>>
      BY <1>2, <1>10 DEF Elsewhere
    <2>2. QED
      BY <1>4, <2>1 DEF ConfigureInv
  <1>11. QED
    BY <1>1, <1>5, <1>6, <1>7, <1>8, <1>9, <1>10 DEF DriverTick

LEMMA ConfigureStep ==
  Gap >= 1 /\ TypeOK /\ CommandInv /\ ConfigureInv /\ [Next]_vars => ConfigureInv'
  <1> SUFFICES ASSUME Gap >= 1, TypeOK, CommandInv, ConfigureInv, [Next]_vars
               PROVE  ConfigureInv'
    OBVIOUS
  <1>1. CASE Tick
    BY <1>1, ConfigureCycle DEF Tick
  <1>2. CASE Reset
    BY <1>2 DEF Reset, DriverReset, ConfigureInv
  <1>3. CASE UNCHANGED vars
    BY <1>3
    DEF vars, generatorVars, driverVars, ConfigureInv, Written, InBounds, Valid
  <1>4. QED
    BY <1>1, <1>2, <1>3 DEF Next

LEMMA ConfigureImplies == TypeOK /\ ConfigureInv => ConfigureResult
  <1> SUFFICES ASSUME TypeOK, ConfigureInv, at = "ready" PROVE
        /\ call = "configure" =>
             (success <=> \A r \in ConfigRegisters : Valid(r, values[r]))
        /\ success => config = values
    BY DEF ConfigureResult
  <1>1. (\A i \in 1..6 : InBounds(i)) <=> \A r \in ConfigRegisters : Valid(r, values[r])
    BY OrderTyped DEF InBounds
  <1>2. (\A i \in 1..6 : Written(i)) => \A r \in ConfigRegisters : config[r] = values[r]
    BY OrderTyped DEF Written
  <1>3. /\ config \in [ConfigRegisters -> RegisterValues]
        /\ values \in [ConfigRegisters -> Nat]
    BY ValuesTyped DEF TypeOK, GeneratorTypeOK, RegisterValues
  <1>4. (\A r \in ConfigRegisters : config[r] = values[r]) => config = values
    BY <1>3
  <1>5. QED
    BY <1>1, <1>2, <1>4 DEF ConfigureInv

(* configure returns true just if all its values are within bounds, and    *)
(* the registers then hold all of them: none of the six writes meets a     *)
(* generator that has not stopped, and no valid value loses a bit to the   *)
(* width of its register.                                                  *)
THEOREM ConfigureDoes ==
  ASSUME Gap >= 1
  PROVE  Spec => []ConfigureResult
  <1>1. Init => CommandInv /\ ConfigureInv
    BY DEF Init, GeneratorInit, DriverInit, CommandInv, CommandsObeyed, ConfigureInv
  <1>2. TypeOK /\ CommandInv /\ [Next]_vars => CommandInv'
    BY CommandStep
  <1>3. TypeOK /\ CommandInv /\ ConfigureInv /\ [Next]_vars => ConfigureInv'
    BY ConfigureStep
  <1>4. TypeOK /\ ConfigureInv => ConfigureResult
    BY ConfigureImplies
  <1>5. QED
    BY <1>1, <1>2, <1>3, <1>4, Typing, PTL DEF Spec

-----------------------------------------------------------------------------
(* The emulator and its driver implement VideoTiming: whatever the         *)
(* geometry, the signals are those of its frames, clock by clock.          *)

-----------------------------------------------------------------------------
(* Arithmetic: H rows of pitch P, of which the h-th is under way.          *)

LEMMA Product ==
  ASSUME NEW H \in Nat, NEW P \in Nat, NEW h \in 1..H
  PROVE  /\ (h - 1) * P \in Nat /\ H * P \in Nat
         /\ (h - 1) * P + P <= H * P
         /\ h < H => (h - 1) * P + 2 * P <= H * P
         /\ h = H => (h - 1) * P + P = H * P
         /\ (h + 1 - 1) * P = (h - 1) * P + P
  <1>1. (h - 1) * P \in Nat /\ H * P \in Nat
    OBVIOUS
  <1>2. (h - 1) * P + P = h * P
    OBVIOUS
  <1>3. \A a, b \in Nat : a <= b => a * P <= b * P
    OBVIOUS
  <1>4. h < H => (h + 1) * P <= H * P
    BY <1>3
  <1>5. (h + 1) * P = (h - 1) * P + 2 * P
    OBVIOUS
  <1>6. QED
    BY <1>1, <1>2, <1>3, <1>4, <1>5

LEMMA Division ==
  ASSUME NEW q \in Nat, NEW P \in Nat \ {0}, NEW r \in 0..(P - 1)
  PROVE  (q * P + r) \div P = q /\ (q * P + r) % P = r
  <1> DEFINE d == (q * P + r) \div P
             m == (q * P + r) % P
  <1>1. q * P + r \in Nat
    OBVIOUS
  <1>2. d \in Int /\ m \in 0..(P - 1) /\ q * P + r = P * d + m
    BY <1>1
  <1> HIDE DEF d, m
  <1>3. ~(d < q)
    <2> SUFFICES ASSUME d < q PROVE FALSE
      OBVIOUS
    <2>1. P * (q - d) >= P
      BY <1>2
    <2>2. P * (q - d) = q * P - P * d
      BY <1>2
    <2>3. QED
      BY <1>2, <2>1, <2>2
  <1>4. ~(q < d)
    <2> SUFFICES ASSUME q < d PROVE FALSE
      OBVIOUS
    <2>1. P * (d - q) >= P
      BY <1>2
    <2>2. P * (d - q) = P * d - q * P
      BY <1>2
    <2>3. QED
      BY <1>2, <2>1, <2>2
  <1>5. d = q
    BY <1>2, <1>3, <1>4
  <1>6. m = r
    <2>1. P * d = q * P
      BY <1>5
    <2>2. QED
      BY <1>2, <2>1
  <1>7. QED
    BY <1>5, <1>6 DEF d, m

-----------------------------------------------------------------------------
(* Where the state machine may be in a frame. *)

W  == config["frame_width"]
H  == config["frame_height"]
FF == config["frame_frame_blank"]
FL == config["frame_line_blank"]
LL == config["line_line_blank"]
LF == config["line_frame_blank"]
P  == W + LL

FrameInv ==
  /\ config \in LegalGeometries
  /\ reg_state = "FRAME_LINE_BLANK"  => count \in 1..FL
  /\ reg_state = "VALID"             => count \in 1..W /\ height \in 1..H
  /\ reg_state = "LINE_LINE_BLANK"   => count \in 1..LL /\ height \in 1..(H - 1)
  /\ reg_state = "LINE_FRAME_BLANK"  => count \in 1..LF
  /\ reg_state = "FRAME_FRAME_BLANK" => count \in 1..FF

LEMMA LegalSizes ==
  ASSUME config \in LegalGeometries
  PROVE  /\ W \in 1..Largest /\ H \in 1..Largest /\ FF \in 1..Largest
         /\ LL \in 1..Largest /\ FL \in 0..Largest /\ LF \in 0..Largest
         /\ P \in Nat \ {0}
  <1>1. Largest \in Nat
    BY Values
  <1>2. /\ config \in [ConfigRegisters -> 0..Largest]
        /\ \A r \in ConfigRegisters : Minimum[r] <= config[r]
    BY DEF LegalGeometries, Valid
  <1>3. /\ W \in 0..Largest /\ H \in 0..Largest /\ FF \in 0..Largest
        /\ LL \in 0..Largest /\ FL \in 0..Largest /\ LF \in 0..Largest
    BY <1>2 DEF ConfigRegisters, W, H, FF, FL, LL, LF
  <1>4. W >= 1 /\ H >= 1 /\ FF >= 1 /\ LL >= 1
    BY <1>1, <1>2, <1>3 DEF ConfigRegisters, Minimum, W, H, FF, LL
  <1>5. QED
    BY <1>1, <1>3, <1>4 DEF P

(* Time as FrameInv knows it. *)
Rows  == (height - 1) * P
Whole == H * P

LEMMA Times ==
  /\ reg_state = "IDLE" => TimeOf = 0
  /\ reg_state = "FRAME_LINE_BLANK" => TimeOf = count
  /\ reg_state = "VALID" => TimeOf = FL + Rows + count
  /\ reg_state = "LINE_LINE_BLANK" => TimeOf = FL + Rows + W + count
  /\ reg_state = "LINE_FRAME_BLANK" => TimeOf = FL + Whole - LL + count
  /\ reg_state = "FRAME_FRAME_BLANK" => TimeOf = FL + Whole - LL + LF + count
  BY DEF TimeOf, Rows, Whole, P, W, H, FF, FL, LL, LF

LEMMA TimesAfter ==
  (/\ reg_state = "IDLE" => TimeOf = 0
   /\ reg_state = "FRAME_LINE_BLANK" => TimeOf = count
   /\ reg_state = "VALID" => TimeOf = FL + Rows + count
   /\ reg_state = "LINE_LINE_BLANK" => TimeOf = FL + Rows + W + count
   /\ reg_state = "LINE_FRAME_BLANK" => TimeOf = FL + Whole - LL + count
   /\ reg_state = "FRAME_FRAME_BLANK" => TimeOf = FL + Whole - LL + LF + count)'
  BY Times, PTL

LEMMA Lengths ==
  /\ Video!Pitch(config) = P
  /\ Video!Lines(config) = Whole - LL
  /\ Video!ValidClocks(config) = FL + (Whole - LL) + LF
  /\ Video!Period(config) = FL + (Whole - LL) + LF + FF
  BY DEF Video!Pitch, Video!Lines, Video!ValidClocks, Video!Period,
         Whole, P, W, H, FF, FL, LL, LF

-----------------------------------------------------------------------------
(* The clock goes on by one, through all states of a frame and round. *)

PeriodNow == FL + (Whole - LL) + LF + FF

LEMMA RowSums ==
  ASSUME config \in LegalGeometries, height \in 1..H
  PROVE  /\ Rows \in Nat /\ Whole \in Nat
         /\ Rows + P <= Whole
         /\ height < H => Rows + 2 * P <= Whole
         /\ height = H => Rows + P = Whole
         /\ (height + 1 - 1) * P = Rows + P
  <1>1. H \in Nat /\ P \in Nat
    BY LegalSizes, Values
  <1>2. QED
    BY <1>1, Product DEF Rows, Whole

LEMMA FirstClock ==
  ASSUME config' = config, config \in LegalGeometries, OpenFrame
  PROVE  FrameInv' /\ TimeOf' = 1 /\ reg_state' # "IDLE"
  <1>1. /\ W \in 1..Largest /\ H \in 1..Largest /\ FL \in 0..Largest /\ Largest \in Nat
        /\ P \in Nat \ {0}
    BY LegalSizes, Values
  <1>2. W' = W /\ H' = H /\ FL' = FL /\ P' = P
    BY DEF W, H, FL, P, LL
  <1>3. CASE FL > 0
    <2>1. reg_state' = "FRAME_LINE_BLANK" /\ count' = 1
      BY <1>3 DEF OpenFrame, Enter, FL
    <2>2. QED
      BY <1>1, <1>2, <1>3, <2>1, TimesAfter DEF FrameInv
  <1>4. CASE FL = 0
    <2>1. reg_state' = "VALID" /\ count' = 1 /\ height' = 1
      BY <1>4 DEF OpenFrame, FirstLine, Enter, FL
    <2>2. Rows' = 0
      BY <1>1, <1>2, <2>1 DEF Rows
    <2>3. QED
      BY <1>1, <1>2, <1>4, <2>1, <2>2, TimesAfter DEF FrameInv
  <1>5. QED
    BY <1>1, <1>3, <1>4

LEMMA NextClock ==
  ASSUME TypeOK, FrameInv, config' = config, STATE_LOGIC, reg_state # "IDLE", ~reg_stop
  PROVE  /\ FrameInv'
         /\ TimeOf \in Nat \ {0}
         /\ TimeOf' = IF TimeOf = PeriodNow THEN 1 ELSE TimeOf + 1
  <1> DEFINE Goal == /\ FrameInv'
                     /\ TimeOf \in Nat \ {0}
                     /\ TimeOf' = IF TimeOf = PeriodNow THEN 1 ELSE TimeOf + 1
  <1>1. /\ W \in 1..Largest /\ H \in 1..Largest /\ FF \in 1..Largest
        /\ LL \in 1..Largest /\ FL \in 0..Largest /\ LF \in 0..Largest
        /\ P \in Nat \ {0} /\ P = W + LL /\ Largest \in Nat
    BY LegalSizes, Values DEF FrameInv, P
  <1>2. /\ W' = W /\ H' = H /\ FF' = FF /\ LL' = LL /\ FL' = FL /\ LF' = LF
        /\ P' = P /\ Whole' = Whole /\ config' \in LegalGeometries
    BY DEF W, H, FF, LL, FL, LF, P, Whole, FrameInv
  <1>3. height \in 1..H =>
          /\ Rows \in Nat /\ Whole \in Nat
          /\ Rows + P <= Whole
          /\ height < H => Rows + 2 * P <= Whole
          /\ height = H => Rows + P = Whole
    BY RowSums DEF FrameInv
  <1>4. height' = height => Rows' = Rows
    BY <1>2 DEF Rows
  <1>5. height \in 1..H /\ height' = height + 1 => Rows' = Rows + P
    <2> SUFFICES ASSUME height \in 1..H, height' = height + 1 PROVE Rows' = Rows + P
      OBVIOUS
    <2>1. Rows' = (height + 1 - 1) * P
      BY <1>2 DEF Rows
    <2>2. QED
      BY <2>1, RowSums DEF FrameInv
  <1>6. height' = 1 => Rows' = 0
    BY <1>1, <1>2 DEF Rows
  <1>7. H \in Nat /\ P \in Nat /\ H >= 1
    BY <1>1
  <1>8. Whole \in Nat /\ Whole >= P
    <2>1. H \in 1..H
      BY <1>7
    <2>2. H * P \in Nat /\ (H - 1) * P \in Nat /\ (H - 1) * P + P <= H * P
      BY <1>7, <2>1, Product
    <2>3. QED
      BY <1>7, <2>2 DEF Whole
  <1>9. \A n \in Nat : n <= Largest => n % REG_VALUES = n
    <2>1. \A n \in Nat : n <= Largest => n < REG_VALUES
      BY Values
    <2>2. QED
      BY <2>1, Values
  <1>10. CASE reg_state = "FRAME_LINE_BLANK"
    <2>1. TimeOf = count /\ count \in 1..FL
      BY <1>10, Times DEF FrameInv
    <2>2. CASE count = FL
      <3>1. reg_state' = "VALID" /\ count' = 1 /\ height' = 1
        BY <1>10, <2>2 DEF STATE_LOGIC, Lasts, FirstLine, Enter, FL
      <3>2. FrameInv' /\ TimeOf' = FL + 1
        BY <1>1, <1>2, <1>6, <3>1, TimesAfter DEF FrameInv
      <3>3. TimeOf # PeriodNow
        BY <1>1, <1>8, <2>1 DEF PeriodNow
      <3>4. QED
        BY <1>1, <2>1, <2>2, <3>2, <3>3
    <2>3. CASE count # FL
      <3>1. /\ reg_state' = reg_state /\ count' = count + 1
        BY <1>1, <1>9, <1>10, <2>1, <2>3 DEF STATE_LOGIC, Lasts, FL
      <3>2. FrameInv' /\ TimeOf' = count + 1
        BY <1>1, <1>2, <1>10, <2>1, <2>3, <3>1, TimesAfter DEF FrameInv
      <3>3. TimeOf # PeriodNow
        BY <1>1, <1>8, <2>1 DEF PeriodNow
      <3>4. QED
        BY <1>1, <2>1, <3>2, <3>3
    <2>4. QED
      BY <2>2, <2>3
  <1>11. CASE reg_state = "VALID"
    <2>1. TimeOf = FL + Rows + count /\ count \in 1..W /\ height \in 1..H
      BY <1>11, Times DEF FrameInv
    <2>2. TimeOf \in Nat \ {0} /\ TimeOf # PeriodNow
      BY <1>1, <1>3, <1>8, <2>1 DEF PeriodNow
    <2>3. CASE count # W
      <3>1. reg_state' = reg_state /\ count' = count + 1 /\ height' = height
        BY <1>1, <1>9, <1>11, <2>1, <2>3 DEF STATE_LOGIC, Lasts, W
      <3>2. FrameInv' /\ TimeOf' = FL + Rows + (count + 1)
        BY <1>1, <1>2, <1>4, <1>11, <2>1, <2>3, <3>1, TimesAfter DEF FrameInv
      <3>3. QED
        BY <1>1, <1>3, <2>1, <2>2, <3>2
    <2>4. CASE count = W /\ height < H
      <3>1. reg_state' = "LINE_LINE_BLANK" /\ count' = 1 /\ height' = height
        BY <1>11, <2>4 DEF STATE_LOGIC, Lasts, EndLine, Enter, W, H
      <3>2. FrameInv' /\ TimeOf' = FL + Rows + W + 1
        BY <1>1, <1>2, <1>4, <2>1, <2>4, <3>1, TimesAfter DEF FrameInv
      <3>3. QED
        BY <1>1, <1>3, <2>1, <2>2, <2>4, <3>2
    <2>5. CASE count = W /\ height = H /\ LF > 0
      <3>1. reg_state' = "LINE_FRAME_BLANK" /\ count' = 1
        BY <1>1, <1>11, <2>5 DEF STATE_LOGIC, Lasts, EndLine, Enter, W, H, LF
      <3>2. FrameInv' /\ TimeOf' = FL + Whole - LL + 1
        BY <1>1, <1>2, <2>5, <3>1, TimesAfter DEF FrameInv
      <3>3. QED
        BY <1>1, <1>3, <2>1, <2>2, <2>5, <3>2
    <2>6. CASE count = W /\ height = H /\ LF = 0
      <3>1. reg_state' = "FRAME_FRAME_BLANK" /\ count' = 1
        BY <1>1, <1>11, <2>6 DEF STATE_LOGIC, Lasts, EndLine, CloseFrame, Enter, W, H, LF
      <3>2. FrameInv' /\ TimeOf' = FL + Whole - LL + LF + 1
        BY <1>1, <1>2, <2>6, <3>1, TimesAfter DEF FrameInv
      <3>3. QED
        BY <1>1, <1>3, <2>1, <2>2, <2>6, <3>2
    <2>7. QED
      BY <1>1, <2>1, <2>3, <2>4, <2>5, <2>6
  <1>12. CASE reg_state = "LINE_LINE_BLANK"
    <2>1. /\ TimeOf = FL + Rows + W + count /\ count \in 1..LL
          /\ height \in 1..H /\ height < H
      BY <1>1, <1>12, Times DEF FrameInv
    <2>2. TimeOf \in Nat \ {0} /\ TimeOf # PeriodNow
      BY <1>1, <1>3, <1>8, <2>1 DEF PeriodNow
    <2>3. CASE count # LL
      <3>1. reg_state' = reg_state /\ count' = count + 1 /\ height' = height
        BY <1>1, <1>9, <1>12, <2>1, <2>3 DEF STATE_LOGIC, Lasts, LL
      <3>2. FrameInv' /\ TimeOf' = FL + Rows + W + (count + 1)
        BY <1>1, <1>2, <1>4, <1>12, <2>1, <2>3, <3>1, TimesAfter DEF FrameInv
      <3>3. QED
        BY <1>1, <1>3, <2>1, <2>2, <3>2
    <2>4. CASE count = LL
      <3>1. reg_state' = "VALID" /\ count' = 1 /\ height' = height + 1
        BY <1>1, <1>9, <1>12, <2>1, <2>4 DEF STATE_LOGIC, Lasts, NextLine, Enter, LL
      <3>2. FrameInv' /\ TimeOf' = FL + (Rows + P) + 1
        BY <1>1, <1>2, <1>5, <2>1, <3>1, TimesAfter DEF FrameInv
      <3>3. QED
        BY <1>1, <1>3, <2>1, <2>2, <2>4, <3>2
    <2>5. QED
      BY <2>3, <2>4
  <1>13. CASE reg_state = "LINE_FRAME_BLANK"
    <2>1. TimeOf = FL + Whole - LL + count /\ count \in 1..LF
      BY <1>13, Times DEF FrameInv
    <2>2. TimeOf \in Nat \ {0} /\ TimeOf # PeriodNow
      BY <1>1, <1>8, <2>1 DEF PeriodNow
    <2>3. CASE count # LF
      <3>1. reg_state' = reg_state /\ count' = count + 1
        BY <1>1, <1>9, <1>13, <2>1, <2>3 DEF STATE_LOGIC, Lasts, LF
      <3>2. FrameInv' /\ TimeOf' = FL + Whole - LL + (count + 1)
        BY <1>1, <1>2, <1>13, <2>1, <2>3, <3>1, TimesAfter DEF FrameInv
      <3>3. QED
        BY <1>1, <1>8, <2>1, <2>2, <3>2
    <2>4. CASE count = LF
      <3>1. reg_state' = "FRAME_FRAME_BLANK" /\ count' = 1
        BY <1>13, <2>4 DEF STATE_LOGIC, Lasts, CloseFrame, Enter, LF
      <3>2. FrameInv' /\ TimeOf' = FL + Whole - LL + LF + 1
        BY <1>1, <1>2, <3>1, TimesAfter DEF FrameInv
      <3>3. QED
        BY <1>1, <1>8, <2>1, <2>2, <2>4, <3>2
    <2>5. QED
      BY <2>3, <2>4
  <1>14. CASE reg_state = "FRAME_FRAME_BLANK"
    <2>1. TimeOf = FL + Whole - LL + LF + count /\ count \in 1..FF
      BY <1>14, Times DEF FrameInv
    <2>2. TimeOf \in Nat \ {0} /\ (TimeOf = PeriodNow <=> count = FF)
      BY <1>1, <1>8, <2>1 DEF PeriodNow
    <2>3. CASE count # FF
      <3>1. reg_state' = reg_state /\ count' = count + 1
        BY <1>1, <1>9, <1>14, <2>1, <2>3 DEF STATE_LOGIC, Lasts, FF
      <3>2. FrameInv' /\ TimeOf' = FL + Whole - LL + LF + (count + 1)
        BY <1>1, <1>2, <1>14, <2>1, <2>3, <3>1, TimesAfter DEF FrameInv
      <3>3. QED
        BY <1>1, <1>8, <2>1, <2>2, <2>3, <3>2
    <2>4. CASE count = FF
      <3>1. OpenFrame
        BY <1>14, <2>4 DEF STATE_LOGIC, Lasts, FF
      <3>2. FrameInv' /\ TimeOf' = 1
        BY <3>1, FirstClock DEF FrameInv
      <3>3. QED
        BY <2>2, <2>4, <3>2
    <2>5. QED
      BY <2>3, <2>4
  <1>15. QED
    BY <1>10, <1>11, <1>12, <1>13, <1>14 DEF TypeOK, GeneratorTypeOK, STATE_TYPE

-----------------------------------------------------------------------------
(* The signals are those of the clock. *)

OnLineNow(t) ==
  t - 1 - FL \in 0..(Whole - LL - 1) /\ (t - 1 - FL) % P < W

LEMMA LineSignals ==
  ASSUME TypeOK, FrameInv
  PROVE  /\ line_valid <=> OnLineNow(TimeOf)
         /\ line_valid => /\ (TimeOf - 1 - FL) \div P = height - 1
                          /\ (TimeOf - 1 - FL) % P = count - 1
  <1> DEFINE offset == TimeOf - 1 - FL
  <1>1. /\ W \in 1..Largest /\ H \in 1..Largest /\ FF \in 1..Largest
        /\ LL \in 1..Largest /\ FL \in 0..Largest /\ LF \in 0..Largest
        /\ P \in Nat \ {0} /\ P = W + LL /\ Largest \in Nat
    BY LegalSizes, Values DEF FrameInv, P
  <1>2. height \in 1..H =>
          /\ Rows \in Nat /\ Whole \in Nat
          /\ Rows + P <= Whole
          /\ height < H => Rows + 2 * P <= Whole
    BY RowSums DEF FrameInv
  <1>3. Whole \in Nat
    BY <1>1 DEF Whole
  <1>4. CASE reg_state = "VALID"
    <2>1. offset = Rows + (count - 1) /\ count \in 1..W /\ height \in 1..H
      <3>1. TimeOf = FL + Rows + count /\ count \in 1..W /\ height \in 1..H
        BY <1>4, Times DEF FrameInv
      <3>2. QED
        BY <1>1, <1>2, <3>1
    <2>2. count - 1 \in 0..(P - 1) /\ height - 1 \in Nat
      BY <1>1, <2>1
    <2>3. /\ ((height - 1) * P + (count - 1)) \div P = height - 1
          /\ ((height - 1) * P + (count - 1)) % P = count - 1
      BY <1>1, <2>2, Division
    <2>4. offset \div P = height - 1 /\ offset % P = count - 1
      BY <2>1, <2>3 DEF Rows
    <2>5. offset \in 0..(Whole - LL - 1) /\ count - 1 < W
      BY <1>1, <1>2, <2>1
    <2>6. QED
      BY <1>4, <2>4, <2>5 DEF OnLineNow, line_valid
  <1>5. CASE reg_state = "LINE_LINE_BLANK"
    <2>1. offset = Rows + (W + count - 1) /\ count \in 1..LL /\ height \in 1..H
      <3>1. TimeOf = FL + Rows + W + count /\ count \in 1..LL /\ height \in 1..H
        BY <1>1, <1>5, Times DEF FrameInv
      <3>2. QED
        BY <1>1, <1>2, <3>1
    <2>2. W + count - 1 \in 0..(P - 1) /\ height - 1 \in Nat
      BY <1>1, <2>1
    <2>3. ((height - 1) * P + (W + count - 1)) % P = W + count - 1
      BY <1>1, <2>2, Division
    <2>4. offset % P = W + count - 1
      BY <2>1, <2>3 DEF Rows
    <2>5. ~(W + count - 1 < W)
      BY <1>1, <2>1
    <2>6. QED
      BY <1>5, <2>4, <2>5 DEF OnLineNow, line_valid
  <1>6. CASE reg_state \in {"IDLE", "FRAME_LINE_BLANK"}
    <2>1. TimeOf \in 0..FL
      BY <1>1, <1>6, Times DEF FrameInv
    <2>2. offset < 0
      BY <1>1, <2>1
    <2>3. offset \notin 0..(Whole - LL - 1)
      BY <1>1, <1>3, <2>2
    <2>4. QED
      BY <1>6, <2>3 DEF OnLineNow, line_valid
  <1>7. CASE reg_state \in {"LINE_FRAME_BLANK", "FRAME_FRAME_BLANK"}
    <2>1. TimeOf \in Int /\ TimeOf >= FL + Whole - LL + 1
      BY <1>1, <1>3, <1>7, Times DEF FrameInv
    <2>2. offset >= Whole - LL /\ offset \in Int
      BY <1>1, <1>3, <2>1
    <2>3. offset \notin 0..(Whole - LL - 1)
      BY <1>1, <1>3, <2>2
    <2>4. QED
      BY <1>7, <2>3 DEF OnLineNow, line_valid
  <1>8. QED
    BY <1>4, <1>5, <1>6, <1>7 DEF TypeOK, GeneratorTypeOK, STATE_TYPE

LEMMA FrameSignal ==
  ASSUME TypeOK, FrameInv
  PROVE  frame_valid <=> TimeOf \in 1..(FL + (Whole - LL) + LF)
  <1>1. /\ W \in 1..Largest /\ H \in 1..Largest /\ FF \in 1..Largest
        /\ LL \in 1..Largest /\ FL \in 0..Largest /\ LF \in 0..Largest
        /\ P \in Nat \ {0} /\ P = W + LL /\ Largest \in Nat
    BY LegalSizes, Values DEF FrameInv, P
  <1>2. height \in 1..H => Rows \in Nat /\ Rows + P <= Whole
    BY RowSums DEF FrameInv
  <1>3. Whole \in Nat /\ Whole >= P
    <2>1. H \in Nat /\ H \in 1..H /\ P \in Nat
      BY <1>1
    <2>2. H * P \in Nat /\ (H - 1) * P \in Nat /\ (H - 1) * P + P <= H * P
      BY <2>1, Product
    <2>3. QED
      BY <2>1, <2>2 DEF Whole
  <1>4. reg_state \in {"VALID", "LINE_LINE_BLANK"} => height \in 1..H
    BY <1>1 DEF FrameInv
  <1>5. CASE reg_state = "IDLE"
    BY <1>5, Times DEF frame_valid
  <1>6. CASE reg_state = "FRAME_LINE_BLANK"
    BY <1>1, <1>3, <1>6, Times DEF frame_valid, FrameInv
  <1>7. CASE reg_state = "VALID"
    BY <1>1, <1>2, <1>3, <1>4, <1>7, Times DEF frame_valid, FrameInv
  <1>8. CASE reg_state = "LINE_LINE_BLANK"
    <2>1. /\ TimeOf = FL + Rows + W + count /\ count \in 1..LL /\ height < H
      BY <1>1, <1>8, Times DEF FrameInv
    <2>2. Rows \in Nat /\ Rows + 2 * P <= Whole
      BY <1>4, <1>8, <2>1, RowSums DEF FrameInv
    <2>3. QED
      BY <1>1, <1>3, <1>8, <2>1, <2>2 DEF frame_valid
  <1>9. CASE reg_state = "LINE_FRAME_BLANK"
    BY <1>1, <1>3, <1>9, Times DEF frame_valid, FrameInv
  <1>10. CASE reg_state = "FRAME_FRAME_BLANK"
    BY <1>1, <1>3, <1>10, Times DEF frame_valid, FrameInv
  <1>11. QED
    BY <1>5, <1>6, <1>7, <1>8, <1>9, <1>10 DEF TypeOK, GeneratorTypeOK, STATE_TYPE

LEMMA SignalsShown ==
  TypeOK /\ FrameInv => Video!Signals(config, TimeOf, frame_valid, line_valid, data)
  <1> SUFFICES ASSUME TypeOK, FrameInv
               PROVE  Video!Signals(config, TimeOf, frame_valid, line_valid, data)
    OBVIOUS
  <1>1. Video!Offset(config, TimeOf) = TimeOf - 1 - FL
    BY DEF Video!Offset, FL
  <1>2. Video!OnLine(config, TimeOf) <=> OnLineNow(TimeOf)
    BY <1>1, Lengths DEF Video!OnLine, OnLineNow, W
  <1>3. line_valid <=> Video!OnLine(config, TimeOf)
    BY <1>2, LineSignals
  <1>4. frame_valid <=> TimeOf \in 1..Video!ValidClocks(config)
    BY FrameSignal, Lengths
  <1>5. data = IF Video!OnLine(config, TimeOf)
               THEN ((Video!Offset(config, TimeOf) \div Video!Pitch(config))
                       * config.frame_width
                      + (Video!Offset(config, TimeOf) % Video!Pitch(config)))
                      % 2^PIX_DEPTH
               ELSE 0
    BY <1>1, <1>3, LineSignals, Lengths DEF data
  <1>6. frame_valid = (TimeOf \in 1..Video!ValidClocks(config))
    BY <1>4 DEF frame_valid
  <1>7. line_valid = Video!OnLine(config, TimeOf)
    BY <1>3 DEF line_valid, Video!OnLine
  <1>8. QED
    BY <1>5, <1>6, <1>7 DEF Video!Signals

LEMMA SignalsAfter ==
  (TypeOK /\ FrameInv => Video!Signals(config, TimeOf, frame_valid, line_valid, data))'
  BY SignalsShown, PTL

-----------------------------------------------------------------------------
(* Every step is one of VideoTiming or leaves its signals alone. *)

LEMMA MinimumIsLegal == Minimum \in LegalGeometries
  <1>1. Largest \in Nat /\ Largest >= 1
    BY GeneratorAssumption DEF Largest
  <1>2. Minimum \in [ConfigRegisters -> 0..Largest]
    BY <1>1, Values
  <1>3. \A r \in ConfigRegisters : Minimum[r] <= Minimum[r] /\ Minimum[r] <= Largest
    BY <1>1, Values
  <1>4. QED
    BY <1>2, <1>3 DEF LegalGeometries, Valid

(* The registers change while the generator is idle and to legal values. *)
LEMMA ConfigCycle ==
  ASSUME Gap >= 1, TypeOK, CommandInv, ConfigureInv, FrameInv,
         NEW acc \in Accesses, Cycle(acc)
  PROVE  /\ config' \in LegalGeometries
         /\ config' # config => reg_state = "IDLE" /\ ~reg_start
  <1>1. /\ DriverTick(acc) /\ GeneratorTick(acc)
        /\ DriverTypeOK /\ (acc # NoAccess => gap = 0)
    BY DEF Cycle, TypeOK, DriverTick
  <1>2. CASE ~WriteRegister(acc)
    <2>1. acc = NoAccess \/ acc = Read("status") \/ \E v : acc = Write("command", v)
      BY <1>1, <1>2
      DEF DriverTick, generator_start, generator_stop, Command, generator_init,
          generator_configure, Call, CheckBounds, is_idle, Elsewhere
    <2>2. acc.op # "write" \/ acc.name = "command"
      BY <2>1 DEF NoAccess, Read, Write
    <2>3. config' = config
      BY <1>1, <2>2, OnlyWrites, OrderTyped
    <2>4. QED
      BY <2>3 DEF FrameInv
  <1>3. CASE WriteRegister(acc)
    <2>1. /\ acc = Write(Register, values[Register]) /\ at = "write" /\ InBounds(step)
      BY <1>3 DEF WriteRegister, ConfigureInv
    <2>2. gap = 0
      BY <1>1, <2>1 DEF Write, NoAccess
    <2>3. reg_state = "IDLE" /\ ~reg_start
      BY <1>1, <2>1, <2>2, AtRest, NoPulse
    <2>4. config' = [config EXCEPT ![Order[step]] = values[Order[step]]]
      BY <1>1, <2>1, <2>3, RegisterWritten
    <2>5. values[Order[step]] \in 0..Largest /\ Order[step] \in ConfigRegisters
      <3>1. values[Order[step]] \in Nat /\ Order[step] \in ConfigRegisters
        BY <1>1, ValuesTyped DEF Register
      <3>2. QED
        BY <2>1, <3>1, Values DEF InBounds, Valid
    <2>6. config' \in [ConfigRegisters -> 0..Largest]
      BY <2>4, <2>5 DEF FrameInv, LegalGeometries
    <2>7. \A r \in ConfigRegisters : Valid(r, config'[r])
      BY <2>1, <2>4, <2>5 DEF FrameInv, LegalGeometries, InBounds
    <2>8. QED
      BY <2>3, <2>6, <2>7 DEF LegalGeometries
  <1>4. QED
    BY <1>2, <1>3

LEMMA VideoCycle ==
  ASSUME Gap >= 1, TypeOK, TypeOK', CommandInv, ConfigureInv, FrameInv,
         NEW acc \in Accesses, Cycle(acc)
  PROVE  FrameInv' /\ Video!VideoNext
  <1>1. /\ GeneratorTypeOK /\ STATE_LOGIC
        /\ config' \in LegalGeometries
        /\ config' # config => reg_state = "IDLE" /\ ~reg_start
    BY ConfigCycle DEF Cycle, GeneratorTick, TypeOK
  <1>2. CASE reg_state = "IDLE" /\ ~reg_start
    <2>1. reg_state' = "IDLE"
      BY <1>1, <1>2 DEF STATE_LOGIC, Idle
    <2>2. FrameInv' /\ TimeOf = 0 /\ TimeOf' = 0
      BY <1>1, <1>2, <2>1, Times, TimesAfter DEF FrameInv
    <2>3. Video!Configure
      BY <1>1, <2>2 DEF Video!Configure
    <2>4. QED
      BY <2>2, <2>3, SignalsAfter DEF Video!VideoNext
  <1>3. CASE reg_state = "IDLE" /\ reg_start
    <2>1. OpenFrame /\ config' = config
      BY <1>1, <1>3 DEF STATE_LOGIC, Idle
    <2>2. FrameInv' /\ TimeOf = 0 /\ TimeOf' = 1
      BY <1>3, <2>1, FirstClock, Times DEF FrameInv
    <2>3. Video!Start
      BY <2>1, <2>2 DEF Video!Start
    <2>4. QED
      BY <2>2, <2>3, SignalsAfter DEF Video!VideoNext
  <1>4. CASE reg_state # "IDLE" /\ ~reg_stop
    <2>1. config' = config
      BY <1>1, <1>4
    <2>2. /\ FrameInv' /\ TimeOf \in Nat \ {0}
          /\ TimeOf' = IF TimeOf = PeriodNow THEN 1 ELSE TimeOf + 1
      BY <1>1, <1>4, <2>1, NextClock
    <2>3. Video!Advance
      BY <2>1, <2>2, Lengths DEF Video!Advance, PeriodNow
    <2>4. QED
      BY <2>2, <2>3, SignalsAfter DEF Video!VideoNext
  <1>5. CASE reg_state # "IDLE" /\ reg_stop
    <2>1. config' = config
      BY <1>1, <1>5
    <2>2. reg_state' = "IDLE"
      BY <1>1, <1>5, StateMoves
    <2>3. FrameInv' /\ TimeOf' = 0
      BY <1>1, <2>2, TimesAfter DEF FrameInv
    <2>4. TimeOf > 0
      <3>1. /\ W \in 1..Largest /\ H \in 1..Largest /\ LL \in 1..Largest
            /\ FL \in 0..Largest /\ LF \in 0..Largest
            /\ P \in Nat \ {0} /\ P = W + LL /\ Largest \in Nat
        BY LegalSizes, Values DEF FrameInv, P
      <3>2. height \in 1..H => Rows \in Nat
        BY RowSums DEF FrameInv
      <3>3. Whole \in Nat /\ Whole >= P
        <4>1. H \in Nat /\ H \in 1..H /\ P \in Nat
          BY <3>1
        <4>2. H * P \in Nat /\ (H - 1) * P \in Nat /\ (H - 1) * P + P <= H * P
          BY <4>1, Product
        <4>3. QED
          BY <4>1, <4>2 DEF Whole
      <3>4. QED
        BY <1>5, <3>1, <3>2, <3>3, Times DEF FrameInv, TypeOK, GeneratorTypeOK, STATE_TYPE
    <2>5. Video!Stop
      BY <2>1, <2>3, <2>4 DEF Video!Stop
    <2>6. QED
      BY <2>3, <2>5, SignalsAfter DEF Video!VideoNext
  <1>6. QED
    BY <1>2, <1>3, <1>4, <1>5

LEMMA VideoReset ==
  ASSUME TypeOK', Reset
  PROVE  FrameInv' /\ Video!VideoNext
  <1>1. reg_state' = "IDLE" /\ config' = Minimum
    BY DEF Reset, GeneratorReset
  <1>2. FrameInv' /\ TimeOf' = 0
    BY <1>1, MinimumIsLegal, TimesAfter DEF FrameInv
  <1>3. Video!Restart
    BY <1>1, <1>2 DEF Video!Restart
  <1>4. QED
    BY <1>2, <1>3, SignalsAfter DEF Video!VideoNext

LEMMA VideoStarts == Init => FrameInv /\ Video!VideoInit
  <1> SUFFICES ASSUME Init PROVE FrameInv /\ Video!VideoInit
    OBVIOUS
  <1>1. reg_state = "IDLE" /\ config = Minimum
    BY DEF Init, GeneratorInit
  <1>2. FrameInv /\ TimeOf = 0
    BY <1>1, MinimumIsLegal, Times DEF FrameInv
  <1>3. QED
    BY <1>1, <1>2, TypeInit, SignalsShown DEF Video!VideoInit

LEMMA VideoStep ==
  /\ Gap >= 1
  /\ TypeOK /\ CommandInv /\ ConfigureInv /\ FrameInv
  /\ [Next]_vars
  => FrameInv' /\ [Video!VideoNext]_(Video!videoVars)
  <1> SUFFICES ASSUME Gap >= 1, TypeOK, CommandInv, ConfigureInv, FrameInv, [Next]_vars
               PROVE  FrameInv' /\ [Video!VideoNext]_(Video!videoVars)
    OBVIOUS
  <1>1. TypeOK'
    BY TypeStep
  <1>2. CASE Tick
    BY <1>1, <1>2, VideoCycle DEF Tick
  <1>3. CASE Reset
    BY <1>1, <1>3, VideoReset
  <1>4. CASE UNCHANGED vars
    <2>1. UNCHANGED <<config, reg_state, count, height>>
      BY <1>4 DEF vars, generatorVars
    <2>2. FrameInv'
      BY <2>1 DEF FrameInv, W, H, FF, FL, LL, LF
    <2>3. UNCHANGED <<TimeOf, frame_valid, line_valid, data>>
      BY <2>1 DEF TimeOf, frame_valid, line_valid, data
    <2>4. QED
      BY <2>1, <2>2, <2>3 DEF Video!videoVars
  <1>5. QED
    BY <1>2, <1>3, <1>4 DEF Next

(* The sensor emulator implements VideoTiming: from the start to the stop  *)
(* the frame and line signals and the pixels are those of the configured   *)
(* geometry, for every legal geometry, and the geometry of a frame does    *)
(* not change under way.                                                   *)
THEOREM ImplementsVideo ==
  ASSUME Gap >= 1
  PROVE  Spec => VideoSpec
  <1>1. Init => CommandInv /\ ConfigureInv
    BY DEF Init, GeneratorInit, DriverInit, CommandInv, CommandsObeyed, ConfigureInv
  <1>2. TypeOK /\ CommandInv /\ [Next]_vars => CommandInv'
    BY CommandStep
  <1>3. TypeOK /\ CommandInv /\ ConfigureInv /\ [Next]_vars => ConfigureInv'
    BY ConfigureStep
  <1>4. Init => FrameInv /\ Video!VideoInit
    BY VideoStarts
  <1>5. TypeOK /\ CommandInv /\ ConfigureInv /\ FrameInv /\ [Next]_vars
          => FrameInv' /\ [Video!VideoNext]_(Video!videoVars)
    BY VideoStep
  <1>6. QED
    BY <1>1, <1>2, <1>3, <1>4, <1>5, Typing, PTL DEF Spec, VideoSpec, Video!VideoSpec
=============================================================================
