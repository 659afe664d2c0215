----------------------------- MODULE LCD_proofs -----------------------------
(***************************************************************************)
(* Proofs about LCD_controller, for every frame size, burst length, FIFO   *)
(* depth and set of words the assumptions allow.                           *)
(*                                                                         *)
(* First what holds whatever the program does.  Then, for the board as it  *)
(* is configured, what the refinement of PanelStream rests on: the two     *)
(* FSMs hear each other, and a word passes through the phases Idle, Sent,  *)
(* Passed and Writing, and Showing after the display command; what the     *)
(* other variables may be is said phase by phase.                          *)
(***************************************************************************)
EXTENDS LCD_controller, TLAPS

-----------------------------------------------------------------------------
(* The invariant behind TypeOK: the two counters of the LT24 interface are *)
(* bounded because of the state they are in.                               *)
CounterInv ==
  /\ lt_state # "INIT" => cnt < IMG_WORD_LEN
  /\ lt_state \in {"WRITE_CMD", "WRITE_DATA"} => cnt_cycles <= 3
  /\ lt_state = "DISPLAY" => cnt_cycles <= 4
  /\ lt_state \in {"WAIT_TRANSFER", "CHECK_FIFO", "CHECK_TRANSFER"} =>
       cnt_cycles = 0

(* An access of the program names a register and carries a number. *)
AccessType ==
  {NoAccess} \union [op : {"read", "write"}, name : Registers, data : Nat]

LEMMA AccessesTyped == Accesses \subseteq AccessType
  BY ProgramAssumption
  DEF Accesses, AccessType, NoAccess, Read, Write, Registers, TYPE_CMD,
      TYPE_DATA, CMD_DISPLAY, Words

LEMMA SlaveTyped ==
  ASSUME SlaveTypeOK, NEW acc \in AccessType, SlaveTick(acc, cmd_data_ready)
  PROVE  SlaveTypeOK'
  <1>1. /\ acc.op \in {"read", "write"} => acc.name \in Registers
        /\ acc.op = "write" => acc.data \in Nat
    BY DEF AccessType, NoAccess
  <1>2. reg' \in [Registers -> Nat]
    BY <1>1 DEF SlaveTypeOK, SlaveTick, slave_write, NoCommand, TYPE_NO_OP
  <1>3. out' \in [Registers -> Nat]
    BY DEF SlaveTypeOK, SlaveTick, send_signals, NoCommand, TYPE_NO_OP
  <1>4. as_readdata' \in Nat
    BY <1>1 DEF SlaveTypeOK, SlaveTick, slave_read
  <1>5. QED
    BY <1>2, <1>3, <1>4 DEF SlaveTypeOK

LEMMA FifoTyped ==
  ASSUME FifoTypeOK, NEW rdreq, NEW wrreq, NEW data \in Nat,
         FifoClear \/ FifoClock(rdreq, wrreq, data)
  PROVE  FifoTypeOK'
  <1>1. CASE FifoClear
    BY <1>1, FIFOAssumption DEF FifoTypeOK, FifoClear
  <1>2. CASE FifoClock(rdreq, wrreq, data)
    <2> DEFINE popped == IF rdreq /\ fifo # <<>> THEN Tail(fifo) ELSE fifo
    <2>1. fifo \in Seq(Nat) /\ FIFO_q \in Nat
      BY DEF FifoTypeOK
    <2>2. popped \in Seq(Nat)
      BY <2>1
    <2>3. fifo # <<>> => Head(fifo) \in Nat
      BY <2>1
    <2>4. FIFO_q' \in Nat
      BY <1>2, <2>1, <2>3 DEF FifoClock
    <2>5. FIFO_empty' \in BOOLEAN
      BY <1>2 DEF FifoClock
    <2>6. fifo' = IF wrreq /\ Len(fifo) < lpm_numwords
                  THEN Append(popped, data) ELSE popped
      BY <1>2 DEF FifoClock
    <2>7. fifo' \in Seq(Nat)
      <3> HIDE DEF popped
      <3> QED BY <2>2, <2>6
    <2>8. QED
      BY <2>4, <2>5, <2>7 DEF FifoTypeOK
  <1>3. QED
    BY <1>1, <1>2

LEMMA DmaTyped ==
  ASSUME DmaTypeOK, NEW start_in, NEW address \in Nat, NEW burst \in Nat,
         NEW waitrequest, NEW valid, NEW full, NEW finished,
         DmaTick(start_in, address, burst, waitrequest, valid, full, finished)
  PROVE  DmaTypeOK'
  <1> USE DEF DmaTypeOK, MASTER_DMA_STATES
  <1>1. burst_tot' \in Nat /\ transfer_latch' \in BOOLEAN
    BY DEF DmaTick, transfer_start
  <1>2. CASE DmaINIT
    BY <1>1, <1>2 DEF DmaINIT
  <1>3. CASE DmaIDLE(start_in, address)
    BY <1>1, <1>3, FrameAssumption, WordAssumption DEF DmaIDLE, BUFFER_LENGTH
  <1>4. CASE DmaREAD_REQUEST(waitrequest, full)
    BY <1>1, <1>4 DEF DmaREAD_REQUEST
  <1>5. CASE DmaREAD_DATA(valid)
    BY <1>1, <1>5 DEF DmaREAD_DATA
  <1>6. CASE DmaVERIFY_ADDRESS
    BY <1>1, <1>6 DEF DmaVERIFY_ADDRESS
  <1>7. CASE DmaWAIT_DISPLAY(finished)
    BY <1>1, <1>7 DEF DmaWAIT_DISPLAY
  <1>8. QED
    BY <1>2, <1>3, <1>4, <1>5, <1>6, <1>7 DEF DmaTick

(* The pins of a write cycle have the type of the pins. *)
LEMMA PinsTyped ==
  ASSUME pins \in PinType, NEW dcx \in 0..1, NEW d \in Bus
  PROVE  /\ Drive(dcx, d) \in PinType
         /\ Strobe \in PinType
         /\ Release \in PinType
         /\ BusIdle \in PinType
         /\ BusReset \in PinType
  <1>1. Drive(dcx, d) \in PinType
    BY DEF PinType, Drive, Pins
  <1>2. HiZ \in Bus
    BY DEF Bus
  <1>3. Strobe \in PinType /\ Release \in PinType
    BY <1>2 DEF PinType, Strobe, Release, Pins
  <1>4. BusIdle \in PinType /\ BusReset \in PinType
    BY <1>2 DEF PinType, BusIdle, BusReset, Pins
  <1>5. QED
    BY <1>1, <1>3, <1>4

LEMMA LT24Typed ==
  ASSUME LT24TypeOK, CounterInv, NEW cod, NEW cd \in Nat, NEW on \in Nat,
         NEW empty, NEW q \in Nat, NEW started,
         LT24Tick(cod, cd, on, empty, q, started)
  PROVE  LT24TypeOK' /\ CounterInv'
  <1> DEFINE Flags == /\ cmd_data_ready \in BOOLEAN
                      /\ display_finished \in BOOLEAN
                      /\ start_out \in BOOLEAN
                      /\ FIFO_rdreq \in BOOLEAN
             Counters == /\ lt_state \in LT24_STATES
                         /\ cnt_cycles \in 0..5
                         /\ cnt \in 0..IMG_WORD_LEN
                         /\ CounterInv
  <1>1. LT24_LCD_ON' \in Nat
    BY DEF LT24Tick
  <1>2. cd \in Bus /\ q \in Bus
    BY DEF Bus
  <1>3. pins \in PinType /\ Flags /\ Counters
    BY DEF LT24TypeOK
  <1>4. ASSUME LtINIT(cod)
        PROVE  pins' \in PinType /\ Flags' /\ Counters'
    <2>1. pins' \in PinType
      BY <1>3, <1>4, PinsTyped, <1>2 DEF LtINIT
    <2>2. Flags'
      BY <1>3, <1>4 DEF LtINIT
    <2>3. Counters'
      BY <1>3, <1>4, FrameAssumption DEF LtINIT, CounterInv, LT24_STATES
    <2>4. QED
      BY <2>1, <2>2, <2>3
  <1>5. ASSUME LtWRITE_CMD(cd)
        PROVE  pins' \in PinType /\ Flags' /\ Counters'
    <2>1. pins' \in PinType
      BY <1>3, <1>5, PinsTyped, <1>2 DEF LtWRITE_CMD
    <2>2. Flags'
      BY <1>3, <1>5 DEF LtWRITE_CMD
    <2>3. Counters'
      BY <1>3, <1>5, FrameAssumption DEF LtWRITE_CMD, CounterInv, LT24_STATES
    <2>4. QED
      BY <2>1, <2>2, <2>3
  <1>6. ASSUME LtWRITE_DATA(cd)
        PROVE  pins' \in PinType /\ Flags' /\ Counters'
    <2>1. pins' \in PinType
      BY <1>3, <1>6, PinsTyped, <1>2 DEF LtWRITE_DATA
    <2>2. Flags'
      BY <1>3, <1>6 DEF LtWRITE_DATA
    <2>3. Counters'
      BY <1>3, <1>6, FrameAssumption DEF LtWRITE_DATA, CounterInv, LT24_STATES
    <2>4. QED
      BY <2>1, <2>2, <2>3
  <1>7. ASSUME LtWAIT_TRANSFER(started)
        PROVE  pins' \in PinType /\ Flags' /\ Counters'
    <2>1. pins' \in PinType
      BY <1>3, <1>7 DEF LtWAIT_TRANSFER
    <2>2. Flags'
      BY <1>3, <1>7 DEF LtWAIT_TRANSFER
    <2>3. Counters'
      BY <1>3, <1>7, FrameAssumption DEF LtWAIT_TRANSFER, CounterInv, LT24_STATES
    <2>4. QED
      BY <2>1, <2>2, <2>3
  <1>8. ASSUME LtCHECK_FIFO(empty)
        PROVE  pins' \in PinType /\ Flags' /\ Counters'
    <2>1. pins' \in PinType
      BY <1>3, <1>8 DEF LtCHECK_FIFO
    <2>2. Flags'
      BY <1>3, <1>8 DEF LtCHECK_FIFO
    <2>3. Counters'
      BY <1>3, <1>8, FrameAssumption DEF LtCHECK_FIFO, CounterInv, LT24_STATES
    <2>4. QED
      BY <2>1, <2>2, <2>3
  <1>9. ASSUME LtDISPLAY(q)
        PROVE  pins' \in PinType /\ Flags' /\ Counters'
    <2>1. pins' \in PinType
      BY <1>3, <1>9, PinsTyped, <1>2 DEF LtDISPLAY
    <2>2. Flags'
      BY <1>3, <1>9 DEF LtDISPLAY
    <2>3. Counters'
      BY <1>3, <1>9, FrameAssumption DEF LtDISPLAY, CounterInv, LT24_STATES
    <2>4. QED
      BY <2>1, <2>2, <2>3
  <1>10. ASSUME LtCHECK_TRANSFER(empty)
        PROVE  pins' \in PinType /\ Flags' /\ Counters'
    <2>1. pins' \in PinType
      BY <1>3, <1>10 DEF LtCHECK_TRANSFER
    <2>2. Flags'
      BY <1>3, <1>10 DEF LtCHECK_TRANSFER
    <2>3. Counters'
      BY <1>3, <1>10, FrameAssumption DEF LtCHECK_TRANSFER, CounterInv, LT24_STATES
    <2>4. QED
      BY <2>1, <2>2, <2>3
  <1>11. pins' \in PinType /\ Flags' /\ Counters'
    BY <1>4, <1>5, <1>6, <1>7, <1>8, <1>9, <1>10 DEF LT24Tick
  <1>12. QED
    BY <1>1, <1>11 DEF LT24TypeOK

LEMMA ProgramTyped ==
  ASSUME ProgramTypeOK, NEW acc \in Accesses, NEW displaying, NEW transferring,
         ProgramTick(acc, displaying, transferring)
  PROVE  ProgramTypeOK'
  <1> USE DEF ProgramTypeOK, ProgramPoints, Words
  <1>1. gap' \in 0..Gap
    BY ProgramAssumption DEF ProgramTick
  <1>2. /\ pc' \in ProgramPoints
        /\ word' \in Words \union {0}
        /\ command' \in Words \union {0}
    BY DEF ProgramTick, LCD_turn_on, LCD_write_registers, Reconfigure,
           LCD_configure, LCD_display, LCD_write_command, LCD_write_data,
           WriteCmdData, WriteCmdOrData, Compute, Access
  <1>3. QED
    BY <1>1, <1>2

(* What TypeOK says of the SDRAM and of the stream. *)
MemTypeOK == mem_left \in Nat /\ mem_addr \in Nat

StreamTypeOK ==
  /\ pending \in Seq(Issued) /\ shown \in Seq(Bus)
  /\ panel \in Panel /\ frame \in Nat

LEMMA MemTyped ==
  ASSUME MemTypeOK, DmaTypeOK, NEW waitrequest, NEW valid,
         valid => mem_left > 0, MemoryTick(waitrequest, valid)
  PROVE  MemTypeOK'
  BY DEF MemTypeOK, DmaTypeOK, MemoryTick

LEMMA StreamTyped ==
  ASSUME StreamTypeOK, LT24TypeOK, SlaveTypeOK, ProgramTypeOK,
         NEW acc, StreamTick(acc)
  PROVE  StreamTypeOK'
  <1> USE DEF StreamTypeOK
  <1> DEFINE left == IF LatchesWord THEN Received(pending) ELSE pending
             new == [kind |-> Kind(acc), word |-> word]
  <1>1. pins.D \in Bus
    BY DEF LT24TypeOK, PinType
  <1>2. Received(pending) \in Seq(Issued)
    BY DEF Received
  <1>3. left \in Seq(Issued)
    BY <1>2
  <1>4. new \in Issued
    BY DEF Issued, Kind, ProgramTypeOK
  <1>5. pending' = IF Issues(acc) THEN Append(left, new) ELSE left
    BY DEF StreamTick
  <1>6. pending' \in Seq(Issued)
    <2> HIDE DEF left, new
    <2> QED BY <1>3, <1>4, <1>5
  <1>7. shown' \in Seq(Bus)
    BY <1>1 DEF StreamTick
  <1>8. frame' \in Nat
    BY DEF StreamTick, SlaveTypeOK, Registers
  <1>9. panel' \in Panel
    BY <1>1 DEF StreamTick, Panel
  <1>10. QED
    BY <1>6, <1>7, <1>8, <1>9

TypeInv == TypeOK /\ CounterInv

LEMMA TypeInit == Init => TypeInv
  <1> SUFFICES ASSUME Init PROVE TypeInv
    OBVIOUS
  <1>0. /\ FifoInit /\ DmaInit /\ LT24Init /\ SlaveInit /\ ProgramInit
        /\ mem_left = 0 /\ mem_addr = 0 /\ resets = 0
        /\ pending = <<>> /\ panel = PanelOff /\ frame = 0 /\ shown = <<>>
    BY DEF Init
  <1>1. FifoTypeOK
    BY <1>0, FIFOAssumption DEF FifoInit, FifoTypeOK
  <1>2. DmaTypeOK
    <2>1. transfer_latch \in BOOLEAN
      BY <1>0 DEF DmaInit
    <2>2. QED
      BY <1>0, <2>1 DEF DmaInit, DmaTypeOK, MASTER_DMA_STATES
  <1>3. LT24TypeOK /\ CounterInv
    <2>1. pins \in PinType
      BY <1>0 DEF LT24Init, BusReset, Pins, PinType, Bus
    <2>2. /\ cmd_data_ready \in BOOLEAN /\ display_finished \in BOOLEAN
          /\ start_out \in BOOLEAN /\ FIFO_rdreq \in BOOLEAN
      BY <1>0 DEF LT24Init
    <2>3. QED
      BY <1>0, <2>1, <2>2, FrameAssumption
      DEF LT24Init, LT24TypeOK, LT24_STATES, CounterInv
  <1>4. SlaveTypeOK
    BY <1>0 DEF SlaveInit, SlaveTypeOK, Cleared
  <1>5. ProgramTypeOK
    BY <1>0, ProgramAssumption DEF ProgramInit, ProgramTypeOK, ProgramPoints
  <1>6. StreamTypeOK
    BY <1>0 DEF StreamTypeOK, Panel, PanelOff, Bus
  <1>7. mem_left \in Nat /\ mem_addr \in Nat /\ resets \in 0..MaxResets
    BY <1>0, BoundAssumption
  <1>8. QED
    BY <1>1, <1>2, <1>3, <1>4, <1>5, <1>6, <1>7
    DEF TypeInv, TypeOK, StreamTypeOK

LEMMA TypeCycle ==
  ASSUME TypeInv, NEW acc \in Accesses, NEW waitrequest, NEW valid,
         Cycle(acc, waitrequest, valid)
  PROVE  TypeInv'
  <1> USE DEF TypeInv, TypeOK, Cycle
  <1>1. /\ out["StartAddress"] \in Nat /\ out["BurstTot"] \in Nat
        /\ out["CmdData"] \in Nat /\ out["LCDON"] \in Nat
    BY DEF SlaveTypeOK, Registers
  <1>2. FifoTypeOK'
    BY FifoTyped
  <1>3. DmaTypeOK'
    BY <1>1, DmaTyped
  <1>4. LT24TypeOK' /\ CounterInv'
    BY <1>1, LT24Typed DEF FifoTypeOK
  <1>5. SlaveTypeOK'
    BY AccessesTyped, SlaveTyped
  <1>6. ProgramTypeOK'
    BY ProgramTyped
  <1>7. MemTypeOK'
    BY MemTyped DEF MemTypeOK
  <1>8. StreamTypeOK'
    BY StreamTyped DEF StreamTypeOK
  <1>9. resets' \in 0..MaxResets
    OBVIOUS
  <1>10. QED
    BY <1>2, <1>3, <1>4, <1>5, <1>6, <1>7, <1>8, <1>9
    DEF MemTypeOK, StreamTypeOK

LEMMA TypeReset ==
  ASSUME TypeInv, Reset
  PROVE  TypeInv'
  <1> USE DEF TypeInv, TypeOK, Reset
  <1>1. FifoTypeOK'
    BY FIFOAssumption DEF FifoClear, FifoTypeOK
  <1>2. DmaTypeOK'
    BY DEF DmaReset, DmaTypeOK, transfer_start
  <1>3. LT24TypeOK' /\ CounterInv'
    <2>1. pins' \in PinType
      BY DEF LT24Reset, BusReset, Pins, PinType, Bus
    <2>2. /\ cmd_data_ready' \in BOOLEAN /\ display_finished' \in BOOLEAN
          /\ start_out' \in BOOLEAN /\ FIFO_rdreq' \in BOOLEAN
      BY DEF LT24Reset, LT24TypeOK
    <2>3. QED
      BY <2>1, <2>2, FrameAssumption
      DEF LT24Reset, LT24TypeOK, LT24_STATES, CounterInv
  <1>4. SlaveTypeOK'
    BY DEF SlaveReset, SlaveTypeOK, Cleared
  <1>5. ProgramTypeOK'
    BY ProgramAssumption DEF ProgramReset, ProgramTypeOK, ProgramPoints
  <1>6. StreamTypeOK'
    BY DEF StreamTypeOK, Panel, PanelOff, Bus
  <1>7. mem_left' \in Nat /\ mem_addr' \in Nat /\ resets' \in 0..MaxResets
    BY BoundAssumption
  <1>8. QED
    BY <1>1, <1>2, <1>3, <1>4, <1>5, <1>6, <1>7 DEF StreamTypeOK

LEMMA TypeStep == TypeInv /\ [Next]_vars => TypeInv'
  <1> SUFFICES ASSUME TypeInv, [Next]_vars PROVE TypeInv'
    OBVIOUS
  <1>1. CASE Tick
    BY <1>1, TypeCycle DEF Tick
  <1>2. CASE Reset
    BY <1>2, TypeReset
  <1>3. CASE UNCHANGED vars
    BY <1>3
    DEF vars, fifoVars, dmaVars, lt24Vars, slaveVars, progVars, memVars,
        streamVars, TypeInv, TypeOK, CounterInv, FifoTypeOK, DmaTypeOK,
        LT24TypeOK, SlaveTypeOK, ProgramTypeOK
  <1>4. QED
    BY <1>1, <1>2, <1>3 DEF Next

LEMMA TypeInvariance == Spec => []TypeInv
  BY TypeInit, TypeStep, PTL DEF Spec

(* The variables keep their types: the counters of the LT24 interface stay *)
(* in the ranges of their VHDL declarations and only words the program     *)
(* writes are ever pending.                                                *)
THEOREM Typing == Spec => []TypeOK
  BY TypeInvariance, PTL DEF TypeInv

-----------------------------------------------------------------------------
(***************************************************************************)
(* The reservation of FIFO space.  It rests on the sizes of the board: a   *)
(* burst fits above the level that raises almost_full (256, 224 and 8),    *)
(* and no reset hits a transfer.                                           *)
(***************************************************************************)
Setup ==
  /\ AnyReset = FALSE
  /\ almost_full_value - 1 + REG_BURST_TOT <= lpm_numwords

(* A command has been issued and not yet been worked off completely. *)
Started ==
  \/ pc \in {"command", "data"}
  \/ reg["CmdOrData"] # TYPE_NO_OP \/ out["CmdOrData"] # TYPE_NO_OP
  \/ lt_state # "INIT" \/ start_out
  \/ dma_state \notin {"INIT", "IDLE"}

(* The burst length has travelled from the program to the DMA before any   *)
(* command does, and writing the registers anew writes the same length.    *)
BurstSettled ==
  /\ pc \in {"readBurstTot", "holdBurstTot", "ready"} => reg["BurstTot"] = REG_BURST_TOT
  /\ pc = "ready" => out["BurstTot"] = REG_BURST_TOT
  /\ Started => /\ reg["BurstTot"] = REG_BURST_TOT
                /\ out["BurstTot"] = REG_BURST_TOT
                /\ burst_tot = REG_BURST_TOT

(* burst_cnt counts the words of the burst that have arrived. *)
BurstCounted ==
  mem_left = IF dma_state = "READ_DATA" THEN burst_tot - burst_cnt ELSE 0

SpaceInv == BurstSettled /\ BurstCounted /\ ReservedSpace

(* What a cycle does to the burst length in the registers, and to pc. *)
LEMMA RegisterCycle ==
  ASSUME TypeInv, NEW acc \in Accesses, NEW waitrequest, NEW valid,
         Cycle(acc, waitrequest, valid)
  PROVE  /\ reg'["BurstTot"] \in {reg["BurstTot"], REG_BURST_TOT}
         /\ pc = "RegBurstTot" /\ pc' # pc => reg'["BurstTot"] = REG_BURST_TOT
         /\ out'["BurstTot"] = reg["BurstTot"]
         /\ burst_tot' = out["BurstTot"]
         /\ reg'["CmdOrData"] # TYPE_NO_OP =>
              reg["CmdOrData"] # TYPE_NO_OP \/ pc \in {"command", "data"}
         /\ out'["CmdOrData"] # TYPE_NO_OP => reg["CmdOrData"] # TYPE_NO_OP
         /\ pc' = "readBurstTot" => pc \in {"RegBurstTot", "readBurstTot"}
         /\ pc' = "holdBurstTot" => pc = "readBurstTot"
         /\ pc' = "ready" => pc \in {"holdBurstTot", "ready", "command", "data"}
         /\ pc' \in {"command", "data"} => pc \in {"ready", "command", "data"}
  <1>1. /\ reg \in [Registers -> Nat] /\ out \in [Registers -> Nat]
        /\ pc \in ProgramPoints
    BY DEF TypeInv, TypeOK, SlaveTypeOK, ProgramTypeOK
  <1>2. SlaveTick(acc, cmd_data_ready) /\ burst_tot' = out["BurstTot"]
    BY DEF Cycle, DmaTick
  <1>3. acc.op = "write" /\ acc.name = "BurstTot" => acc.data = REG_BURST_TOT
    BY DEF Accesses, Write, Read, NoAccess
  <1>4. acc \in AccessType
    BY AccessesTyped
  <1>5. reg'["BurstTot"] = IF acc.op = "write" /\ acc.name = "BurstTot"
                           THEN acc.data ELSE reg["BurstTot"]
    BY <1>1, <1>2, <1>4 DEF SlaveTick, slave_write, NoCommand, Registers, AccessType,
           NoAccess
  <1>6. reg'["CmdOrData"] # TYPE_NO_OP =>
          \/ reg["CmdOrData"] # TYPE_NO_OP
          \/ acc.op = "write" /\ acc.name = "CmdOrData"
    BY <1>1, <1>2, <1>4 DEF SlaveTick, slave_write, NoCommand, Registers, AccessType,
           NoAccess
  <1>7. /\ out'["BurstTot"] = reg["BurstTot"]
        /\ out'["CmdOrData"] # TYPE_NO_OP => reg["CmdOrData"] # TYPE_NO_OP
    BY <1>1, <1>2 DEF SlaveTick, send_signals, NoCommand, Registers
  <1>8. /\ acc.op = "write" /\ acc.name = "CmdOrData" => pc \in {"command", "data"}
        /\ pc = "RegBurstTot" /\ pc' # pc => acc = Write("BurstTot", REG_BURST_TOT)
        /\ pc' = "readBurstTot" => pc \in {"RegBurstTot", "readBurstTot"}
        /\ pc' = "holdBurstTot" => pc = "readBurstTot"
        /\ pc' = "ready" => pc \in {"holdBurstTot", "ready", "command", "data"}
        /\ pc' \in {"command", "data"} => pc \in {"ready", "command", "data"}
    BY DEF Cycle, ProgramTick, LCD_turn_on, LCD_write_registers, Reconfigure,
           LCD_configure, LCD_display, LCD_write_command, LCD_write_data,
           WriteCmdData, WriteCmdOrData, Compute, Access, Write, Read, NoAccess
  <1>9. pc = "RegBurstTot" /\ pc' # pc => reg'["BurstTot"] = REG_BURST_TOT
    BY <1>5, <1>8 DEF Write
  <1>10. QED
    BY <1>2, <1>3, <1>5, <1>6, <1>7, <1>8, <1>9

(* A command starts nowhere but in the program's write of RegCmdData. *)
LEMMA StartedCycle ==
  ASSUME TypeInv, NEW acc \in Accesses, NEW waitrequest, NEW valid,
         Cycle(acc, waitrequest, valid), Started'
  PROVE  Started \/ pc = "ready"
  <1>1. lt_state' # "INIT" \/ start_out' =>
          lt_state # "INIT" \/ out["CmdOrData"] # TYPE_NO_OP
    BY DEF Cycle, LT24Tick, LtINIT, LtWRITE_CMD, LtWRITE_DATA,
           LtWAIT_TRANSFER, LtCHECK_FIFO, LtDISPLAY, LtCHECK_TRANSFER, TYPE_NO_OP
  <1>2. dma_state' \notin {"INIT", "IDLE"} =>
          start_out \/ dma_state \notin {"INIT", "IDLE"}
    BY DEF Cycle, DmaTick, DmaINIT, DmaIDLE, DmaREAD_REQUEST, DmaREAD_DATA,
           DmaVERIFY_ADDRESS, DmaWAIT_DISPLAY
  <1>3. QED
    BY <1>1, <1>2, RegisterCycle DEF Started

LEMMA SettledCycle ==
  ASSUME TypeInv, BurstSettled, NEW acc \in Accesses, NEW waitrequest, NEW valid,
         Cycle(acc, waitrequest, valid)
  PROVE  BurstSettled'
  <1>1. pc' \in {"readBurstTot", "holdBurstTot"} => reg'["BurstTot"] = REG_BURST_TOT
    BY RegisterCycle DEF BurstSettled
  <1>2. pc' = "ready" =>
          reg'["BurstTot"] = REG_BURST_TOT /\ out'["BurstTot"] = REG_BURST_TOT
    BY RegisterCycle DEF BurstSettled, Started
  <1>3. Started' => /\ reg'["BurstTot"] = REG_BURST_TOT
                    /\ out'["BurstTot"] = REG_BURST_TOT
                    /\ burst_tot' = REG_BURST_TOT
    BY RegisterCycle, StartedCycle DEF BurstSettled
  <1>4. QED
    BY <1>1, <1>2, <1>3 DEF BurstSettled

(* What a cycle does to the fill of the FIFO. *)
LEMMA FillCycle ==
  ASSUME TypeInv, NEW acc \in Accesses, NEW waitrequest, NEW valid,
         Cycle(acc, waitrequest, valid)
  PROVE  Len(fifo') <= Len(fifo) + (IF FIFO_wrreq(valid) THEN 1 ELSE 0)
  <1>1. fifo \in Seq(Nat) /\ mem_addr \in Nat
    BY DEF TypeInv, TypeOK, FifoTypeOK
  <1>2. CASE FifoClear
    BY <1>1, <1>2 DEF FifoClear
  <1>3. CASE FifoClock(FIFO_rdreq, FIFO_wrreq(valid), mem_addr)
    <2> DEFINE popped == IF FIFO_rdreq /\ fifo # <<>> THEN Tail(fifo) ELSE fifo
    <2>1. popped \in Seq(Nat) /\ Len(popped) <= Len(fifo)
      BY <1>1
    <2>2. fifo' = IF FIFO_wrreq(valid) /\ Len(fifo) < lpm_numwords
                  THEN Append(popped, mem_addr) ELSE popped
      BY <1>3 DEF FifoClock
    <2>3. Len(fifo) \in Nat
      BY <1>1
    <2>4. QED
      <3> HIDE DEF popped
      <3> QED BY <1>1, <2>1, <2>2, <2>3
  <1>4. QED
    BY <1>2, <1>3 DEF Cycle

LEMMA SpaceCycle ==
  ASSUME Setup, TypeInv, SpaceInv, NEW acc \in Accesses, NEW waitrequest,
         NEW valid \in BOOLEAN, Cycle(acc, waitrequest, valid)
  PROVE  BurstCounted' /\ ReservedSpace'
  <1>1. /\ mem_left \in Nat /\ burst_cnt \in Nat /\ burst_tot \in Nat
        /\ Len(fifo) \in Nat /\ Len(fifo') \in Nat
        /\ lpm_numwords \in Nat /\ almost_full_value \in Nat
        /\ REG_BURST_TOT \in Nat
    <2>1. TypeInv'
      BY TypeCycle
    <2>2. fifo \in Seq(Nat) /\ fifo' \in Seq(Nat)
      BY <2>1 DEF TypeInv, TypeOK, FifoTypeOK
    <2>3. Len(fifo) \in Nat /\ Len(fifo') \in Nat
      BY <2>2
    <2>4. mem_left \in Nat /\ burst_cnt \in Nat /\ burst_tot \in Nat
      BY DEF TypeInv, TypeOK, DmaTypeOK
    <2>5. QED
      BY <2>3, <2>4, FIFOAssumption, ProgramAssumption
  <1>2. dma_state \notin {"INIT", "IDLE"} =>
          burst_tot = REG_BURST_TOT /\ burst_tot' = burst_tot
    BY RegisterCycle DEF SpaceInv, BurstSettled, Started
  <1>3. valid => mem_left > 0
    BY DEF Cycle
  <1>4. mem_left = IF dma_state = "READ_DATA" THEN burst_tot - burst_cnt ELSE 0
    BY DEF SpaceInv, BurstCounted
  <1>5. Len(fifo) + mem_left <= lpm_numwords
    BY DEF SpaceInv, ReservedSpace
  <1>6. Len(fifo') <= Len(fifo) + (IF FIFO_wrreq(valid) THEN 1 ELSE 0)
    BY FillCycle
  <1>7. MemoryTick(waitrequest, valid)
    BY DEF Cycle
  <1>8. CASE dma_state = "READ_REQUEST"
    <2>1. /\ ~valid /\ mem_left = 0 /\ burst_tot' = REG_BURST_TOT
          /\ Len(fifo') <= Len(fifo)
      BY <1>1, <1>2, <1>3, <1>4, <1>6, <1>8 DEF FIFO_wrreq
    <2>2. DmaREAD_REQUEST(waitrequest, FIFO_almost_full)
      BY <1>8 DEF Cycle, DmaTick, DmaINIT, DmaIDLE, DmaREAD_DATA,
                  DmaVERIFY_ADDRESS, DmaWAIT_DISPLAY
    <2>3. CASE waitrequest \/ FIFO_almost_full
      BY <1>1, <1>5, <1>7, <2>1, <2>2, <2>3
      DEF MemoryTick, am_read, DmaREAD_REQUEST, BurstCounted, ReservedSpace
    <2>4. CASE ~waitrequest /\ ~FIFO_almost_full
      <3>1. mem_left' = REG_BURST_TOT /\ dma_state' = "READ_DATA" /\ burst_cnt' = 0
        BY <1>1, <1>2, <1>7, <1>8, <2>1, <2>2, <2>4
        DEF MemoryTick, am_read, DmaREAD_REQUEST
      <3>2. Len(fifo) <= almost_full_value - 1
        BY <1>1, <2>4 DEF FIFO_almost_full
      <3>3. QED
        BY <1>1, <2>1, <3>1, <3>2 DEF Setup, BurstCounted, ReservedSpace
    <2>5. QED
      BY <2>3, <2>4
  <1>9. CASE dma_state = "READ_DATA"
    <2>1. DmaREAD_DATA(valid)
      BY <1>9 DEF Cycle, DmaTick, DmaINIT, DmaIDLE, DmaREAD_REQUEST,
                  DmaVERIFY_ADDRESS, DmaWAIT_DISPLAY
    <2>2. mem_left' = IF valid THEN mem_left - 1 ELSE mem_left
      BY <1>7, <1>9 DEF MemoryTick, am_read
    <2>3. BurstCounted'
      BY <1>1, <1>2, <1>3, <1>4, <1>9, <2>1, <2>2 DEF DmaREAD_DATA, BurstCounted
    <2>4. ReservedSpace'
      BY <1>1, <1>3, <1>5, <1>6, <1>9, <2>2 DEF FIFO_wrreq, ReservedSpace
    <2>5. QED
      BY <2>3, <2>4
  <1>10. CASE dma_state \notin {"READ_REQUEST", "READ_DATA"}
    <2>1. ~valid /\ mem_left = 0 /\ Len(fifo') <= Len(fifo)
      BY <1>1, <1>3, <1>4, <1>6, <1>10 DEF FIFO_wrreq
    <2>2. mem_left' = 0
      BY <1>7, <1>10, <2>1 DEF MemoryTick, am_read
    <2>3. dma_state' # "READ_DATA"
      BY <1>10 DEF Cycle, DmaTick, DmaINIT, DmaIDLE, DmaREAD_REQUEST,
                   DmaREAD_DATA, DmaVERIFY_ADDRESS, DmaWAIT_DISPLAY
    <2>4. QED
      BY <1>1, <1>5, <2>1, <2>2, <2>3 DEF BurstCounted, ReservedSpace
  <1>11. QED
    BY <1>8, <1>9, <1>10

LEMMA SpaceInit == Init => SpaceInv
  <1> SUFFICES ASSUME Init PROVE SpaceInv
    OBVIOUS
  <1>1. /\ pc = "LCD_turn_on" /\ lt_state = "INIT" /\ start_out = FALSE
        /\ dma_state = "INIT" /\ fifo = <<>> /\ mem_left = 0
        /\ reg["CmdOrData"] = TYPE_NO_OP /\ out["CmdOrData"] = TYPE_NO_OP
    BY DEF Init, ProgramInit, LT24Init, DmaInit, FifoInit, SlaveInit, Cleared,
           Registers, TYPE_NO_OP
  <1>2. BurstSettled
    BY <1>1 DEF BurstSettled, Started
  <1>3. BurstCounted /\ ReservedSpace
    BY <1>1, FIFOAssumption DEF BurstCounted, ReservedSpace
  <1>4. QED
    BY <1>2, <1>3 DEF SpaceInv

LEMMA SpaceReset ==
  ASSUME Setup, Reset
  PROVE  SpaceInv'
  <1>1. /\ pc' = "LCD_turn_on" /\ lt_state' = "INIT" /\ start_out' = FALSE
        /\ dma_state' \in {"INIT", "IDLE"} /\ fifo' = <<>> /\ mem_left' = 0
        /\ reg'["CmdOrData"] = TYPE_NO_OP /\ out'["CmdOrData"] = TYPE_NO_OP
    BY DEF Setup, Reset, DmaQuiet, ProgramReset, LT24Reset, DmaReset, FifoClear,
           SlaveReset, Cleared, Registers, TYPE_NO_OP
  <1>2. BurstSettled'
    BY <1>1 DEF BurstSettled, Started
  <1>3. BurstCounted' /\ ReservedSpace'
    BY <1>1, FIFOAssumption DEF BurstCounted, ReservedSpace
  <1>4. QED
    BY <1>2, <1>3 DEF SpaceInv

LEMMA SpaceStep ==
  ASSUME Setup
  PROVE  TypeInv /\ SpaceInv /\ [Next]_vars => SpaceInv'
  <1> SUFFICES ASSUME TypeInv, SpaceInv, [Next]_vars PROVE SpaceInv'
    OBVIOUS
  <1>1. CASE Tick
    BY <1>1, SettledCycle, SpaceCycle DEF Tick, SpaceInv
  <1>2. CASE Reset
    BY <1>2, SpaceReset
  <1>3. CASE UNCHANGED vars
    BY <1>3
    DEF vars, fifoVars, dmaVars, lt24Vars, slaveVars, progVars, memVars,
        SpaceInv, BurstSettled, Started, BurstCounted, ReservedSpace
  <1>4. QED
    BY <1>1, <1>2, <1>3 DEF Next

LEMMA SpaceInvariance ==
  ASSUME Setup
  PROVE  Spec => []SpaceInv
  BY SpaceInit, SpaceStep, TypeInvariance, PTL DEF Spec

(* No word of a burst is ever lost for want of space in the FIFO, although *)
(* the DMA looks at almost_full only before it asks for the burst.         *)
THEOREM SpaceIsReserved ==
  ASSUME Setup
  PROVE  Spec => []ReservedSpace
  BY SpaceInvariance, PTL DEF SpaceInv

(* A read request the SDRAM keeps waiting is neither withdrawn nor         *)
(* changed, although almost_full gates it and the burst length comes from  *)
(* a register the program may write meanwhile.                             *)
THEOREM RequestsAreHeld ==
  ASSUME Setup
  PROVE  Spec => RequestHeld
  <1> DEFINE Held == am_read(FIFO_almost_full) /\ dma_state' = "READ_REQUEST" =>
                       /\ ~(FIFO_almost_full)'
                       /\ UNCHANGED <<current_address, burst_tot>>
  <1>1. TypeInv /\ TypeInv' /\ SpaceInv /\ [Next]_vars => [Held]_vars
    <2> SUFFICES ASSUME TypeInv, TypeInv', SpaceInv, Next,
                        am_read(FIFO_almost_full), dma_state' = "READ_REQUEST"
                 PROVE  /\ ~(FIFO_almost_full)'
                        /\ UNCHANGED <<current_address, burst_tot>>
      OBVIOUS
    <2>1. dma_state = "READ_REQUEST" /\ ~FIFO_almost_full
      BY DEF am_read
    <2>2. ~Reset
      BY <2>1 DEF Setup, Reset, DmaQuiet
    <2>3. PICK acc \in Accesses, waitrequest \in BOOLEAN, valid \in BOOLEAN :
            Cycle(acc, waitrequest, valid)
      BY <2>2 DEF Next, Tick
    <2>4. DmaREAD_REQUEST(waitrequest, FIFO_almost_full)
      BY <2>1, <2>3 DEF Cycle, DmaTick, DmaINIT, DmaIDLE, DmaREAD_DATA,
                        DmaVERIFY_ADDRESS, DmaWAIT_DISPLAY
    <2>5. UNCHANGED <<current_address, burst_tot>>
      BY <2>1, <2>3, <2>4, RegisterCycle
      DEF DmaREAD_REQUEST, SpaceInv, BurstSettled, Started
    <2>6. Len(fifo') <= Len(fifo)
      BY <2>1, <2>3, FillCycle DEF FIFO_wrreq, TypeInv, TypeOK, FifoTypeOK
    <2>7. ~(FIFO_almost_full)'
      BY <2>1, <2>6, FIFOAssumption
      DEF FIFO_almost_full, TypeInv, TypeOK, FifoTypeOK
    <2>8. QED
      BY <2>5, <2>7
  <1>2. QED
    BY <1>1, TypeInvariance, SpaceInvariance, PTL DEF Spec, RequestHeld

-----------------------------------------------------------------------------
(***************************************************************************)
(* The constants of the board and of the program.  A command is worked off *)
(* in six cycles (two registers and four cycles on the bus), and the       *)
(* program waits for a display to end.  A burst is as long as end_address  *)
(* is short of the frame's end (8 words, 32 bytes), and a frame is a whole *)
(* number of bursts (320*240 = 9600*8).                                    *)
(***************************************************************************)
Board ==
  /\ Setup
  /\ Gap >= 6
  /\ WORD_LENGTH = 4 * REG_BURST_TOT
  /\ \E n \in Nat : IMG_WORD_LEN = n * REG_BURST_TOT

-----------------------------------------------------------------------------
(* The phases of a word.                                                   *)

CommandWords == Commands \union {CMD_DISPLAY}

Sending == pc \in {"command", "data"}

(* The bits the LT24 interface raises for a cycle or two. *)
NoFlags == ~cmd_data_ready /\ ~display_finished /\ ~start_out /\ ~FIFO_rdreq

(* Nothing is on its way, or the program has written RegCmdData only.      *)
(* cmd_data_ready and display_finished are up for a cycle after a display. *)
Idle ==
  /\ lt_state = "INIT"
  /\ reg["CmdOrData"] = TYPE_NO_OP /\ out["CmdOrData"] = TYPE_NO_OP
  /\ ~start_out /\ ~FIFO_rdreq
  /\ cmd_data_ready \/ display_finished => gap = Gap /\ ~Sending
  /\ Sending => reg["CmdData"] = word
  /\ pc = "command" => word \in CommandWords
  /\ pc = "data" => word \in DataWords

(* The word and its type are in the registers. *)
InRegisters ==
  /\ reg["CmdOrData"] \in {TYPE_CMD, TYPE_DATA}
  /\ reg["CmdData"] = word
  /\ reg["CmdOrData"] = TYPE_CMD => word \in CommandWords

Sent ==
  /\ lt_state = "INIT" /\ pc = "ready" /\ gap = Gap /\ NoFlags
  /\ InRegisters
  /\ out["CmdOrData"] = TYPE_NO_OP

(* The LT24 interface sees them. *)
Passed ==
  /\ lt_state = "INIT" /\ pc = "ready" /\ gap >= Gap - 1 /\ NoFlags
  /\ InRegisters
  /\ out["CmdOrData"] = reg["CmdOrData"] /\ out["CmdData"] = word

(* The LT24 interface writes the word to the panel. *)
OpensDisplay == lt_state = "WRITE_CMD" /\ word = CMD_DISPLAY

Writing ==
  /\ lt_state \in {"WRITE_CMD", "WRITE_DATA"} /\ pc = "ready"
  /\ gap >= Gap - 2 - cnt_cycles
  /\ cnt = 0
  /\ ~display_finished /\ ~FIFO_rdreq
  /\ cmd_data_ready <=> (cnt_cycles > 1 /\ ~OpensDisplay)
  /\ start_out <=> (cnt_cycles = 3 /\ OpensDisplay)
  /\ out["CmdData"] = word /\ (cnt_cycles < 3 => reg["CmdData"] = word)
  /\ lt_state = "WRITE_CMD" => word \in CommandWords
  /\ cnt_cycles = 3 /\ ~OpensDisplay => reg["CmdOrData"] = TYPE_NO_OP

(* A frame is transferred and shown. *)
Showing ==
  /\ Transferring
  /\ pc # "LCD_turn_on" /\ ~Sending /\ gap = Gap
  /\ ~start_out /\ ~display_finished
  /\ FIFO_rdreq <=> (lt_state = "DISPLAY" /\ cnt_cycles = 0)
  /\ lt_state = "WAIT_TRANSFER" => cmd_data_ready /\ cnt = 0
  /\ lt_state # "WAIT_TRANSFER" => reg["CmdOrData"] = TYPE_NO_OP
  /\ lt_state \in {"DISPLAY", "CHECK_TRANSFER"} => out["CmdOrData"] = TYPE_NO_OP

PhaseInv == Idle \/ Sent \/ Passed \/ Writing \/ Showing

(* The LCD is on before the first command and stays on. *)
PowerInv ==
  /\ pc # "LCD_turn_on" => reg["LCDON"] = 1
  /\ pc \notin {"LCD_turn_on", "RegStartAddress"} \/ lt_state # "INIT" =>
       out["LCDON"] = 1
  /\ pc \notin {"LCD_turn_on", "RegStartAddress", "readStartAddress"}
     \/ lt_state # "INIT" =>
       LT24_LCD_ON = 1

(* WRX is low in one state of a write cycle, with the panel selected. *)
Strobing ==
  \/ lt_state \in {"WRITE_CMD", "WRITE_DATA"} /\ cnt_cycles = 1
  \/ lt_state = "DISPLAY" /\ cnt_cycles = 2

PinsInv ==
  /\ lt_state # "INIT" => pins.Res_n = 1
  /\ pins.WRX = (IF Strobing THEN 0 ELSE 1)
  /\ Strobing => /\ pins.CSX = 0
                 /\ pins.DCX = (IF lt_state = "WRITE_CMD" THEN 0 ELSE 1)
                 /\ lt_state # "DISPLAY" => pins.D = word

-----------------------------------------------------------------------------
(* The two FSMs.                                                           *)

(* From the state after start_out to the one that has display_finished. *)
Serving == Transferring \/ display_finished

HandshakeInv ==
  /\ dma_state \notin {"INIT", "IDLE"} <=> Serving
  /\ dma_state = "INIT" => Idle /\ ~Sending
  /\ display_finished => dma_state = "WAIT_DISPLAY" /\ cnt = IMG_WORD_LEN

(* The address of the frame is the configured one until the DMA has it. *)
FrameInv ==
  /\ pc \notin {"LCD_turn_on", "RegStartAddress"} =>
       reg["StartAddress"] \in StartAddresses
  /\ (Sent \/ Passed) /\ reg["CmdOrData"] = TYPE_CMD /\ word = CMD_DISPLAY =>
       reg["StartAddress"] = frame
  /\ Passed /\ reg["CmdOrData"] = TYPE_CMD /\ word = CMD_DISPLAY =>
       out["StartAddress"] = frame
  /\ Writing /\ OpensDisplay =>
       reg["StartAddress"] = frame /\ out["StartAddress"] = frame

(* The frame is a whole number of bursts away from its end. *)
WholeBursts ==
  \E n \in Nat : end_address - current_address = n * (4 * REG_BURST_TOT)

AddressInv ==
  /\ Serving => end_address = frame + BUFFER_LENGTH - WORD_LENGTH
  /\ dma_state \in {"READ_REQUEST", "READ_DATA", "VERIFY_ADDRESS"} =>
       frame <= current_address /\ WholeBursts
  /\ dma_state = "WAIT_DISPLAY" => current_address = frame + BUFFER_LENGTH

(* Words of the frame taken out of the FIFO. *)
Taken ==
  CASE lt_state = "DISPLAY" /\ cnt_cycles > 0 -> cnt + 1
    [] lt_state = "CHECK_TRANSFER"            -> cnt + 1
    [] OTHER                                  -> cnt

(* Words of the current burst that have arrived. *)
Arrived ==
  CASE dma_state = "READ_DATA"      -> burst_cnt
    [] dma_state = "VERIFY_ADDRESS" -> REG_BURST_TOT
    [] OTHER                        -> 0

CountInv ==
  /\ ~FIFO_empty => Len(fifo) > 0
  /\ FIFO_rdreq => Len(fifo) > 0
  /\ ~Serving => Len(fifo) = 0
  /\ Serving => 4 * (Taken + Len(fifo)) = current_address - frame + 4 * Arrived
  /\ dma_state = "READ_DATA" /\ burst_cnt = REG_BURST_TOT => Len(fifo) > 0
  /\ dma_state = "VERIFY_ADDRESS" =>
       Len(fifo) > 0 \/ (lt_state = "DISPLAY" /\ cnt_cycles = 1)

(* The words are the pixels of the frame, in order. *)
OrderInv ==
  /\ dma_state = "READ_DATA" => mem_addr = current_address + 4 * burst_cnt
  /\ Serving => \A i \in 1..Len(fifo) : fifo[i] = frame + 4 * (Taken + i - 1)
  /\ lt_state = "DISPLAY" /\ cnt_cycles > 0 => FIFO_q = frame + 4 * cnt
  /\ lt_state = "DISPLAY" /\ cnt_cycles = 2 => pins.D = frame + 4 * cnt

-----------------------------------------------------------------------------
(* The stream.                                                             *)

(* The word the program has handed over and the panel not yet latched. *)
Unlatched ==
  CASE Sent \/ Passed ->
         <<[kind |-> IF reg["CmdOrData"] = TYPE_CMD THEN "command" ELSE "parameter",
            word |-> word]>>
    [] Writing /\ cnt_cycles < 2 ->
         <<[kind |-> IF lt_state = "WRITE_CMD" THEN "command" ELSE "parameter",
            word |-> word]>>
    [] OTHER -> <<>>

CommandPending ==
  \/ pc = "command"
  \/ pending # <<>> /\ pending[1].kind = "command"

DeliveryInv ==
  /\ pending = Unlatched
  /\ CommandPending => command = word
  /\ ~CommandPending => panel.command = command
  /\ pc = "data" \/ (pending # <<>> /\ ~CommandPending) =>
       command \notin {0, CMD_DISPLAY}

ShownInv ==
  /\ Showing \/ (Writing /\ OpensDisplay /\ cnt_cycles > 1) =>
       /\ panel.command = CMD_DISPLAY
       /\ Len(shown) = IF \/ lt_state = "DISPLAY" /\ cnt_cycles > 2
                          \/ lt_state = "CHECK_TRANSFER"
                       THEN cnt + 1 ELSE cnt

DisplayInv ==
  /\ PhaseInv /\ PowerInv /\ PinsInv
  /\ HandshakeInv /\ FrameInv /\ AddressInv
  /\ CountInv /\ OrderInv
  /\ DeliveryInv /\ ShownInv

-----------------------------------------------------------------------------
(* What a cycle does, component by component.                              *)

(* The four things the program may do in a cycle: nothing, an access that  *)
(* concerns the other registers, and the two accesses that send a word.    *)
Rests(acc) == acc = NoAccess /\ UNCHANGED <<pc, word, command>>

Configures(acc) ==
  /\ ~Sending /\ ~Sending' /\ pc' # "LCD_turn_on"
  /\ pc = "ready" => gap = 0 \/ Transferring
  /\ acc.name \notin {"CmdOrData", "CmdData"}
  /\ UNCHANGED <<word, command>>

Loads(acc) ==
  /\ pc = "ready" /\ gap = 0 /\ acc = Write("CmdData", word')
  /\ \/ pc' = "command" /\ word' \in CommandWords /\ command' = word'
     \/ /\ pc' = "data" /\ word' \in DataWords
        /\ command \notin {0, CMD_DISPLAY} /\ command' = command

Hands(acc) ==
  /\ \/ pc = "command" /\ acc = Write("CmdOrData", TYPE_CMD)
     \/ pc = "data" /\ acc = Write("CmdOrData", TYPE_DATA)
  /\ pc' = "ready" /\ UNCHANGED <<word, command>>

LEMMA ProgramCases ==
  ASSUME NEW acc \in Accesses, NEW waitrequest, NEW valid,
         Cycle(acc, waitrequest, valid)
  PROVE  Rests(acc) \/ Configures(acc) \/ Loads(acc) \/ Hands(acc)
  <1>1. ProgramTick(acc, Displaying, Transferring)
    BY DEF Cycle
  <1>2. CASE Compute(acc)
    BY <1>2 DEF Compute, Rests
  <1>3. CASE WriteCmdOrData(acc)
    BY <1>3 DEF WriteCmdOrData, Access, Hands
  <1>4. CASE LCD_configure(acc) \/ LCD_display(acc)
    BY <1>4
    DEF LCD_configure, LCD_display, LCD_write_command, LCD_write_data,
        WriteCmdData, Loads, CommandWords
  <1>5. CASE LCD_turn_on(acc) \/ LCD_write_registers(acc) \/ Reconfigure(acc, Transferring)
    BY <1>5
    DEF LCD_turn_on, LCD_write_registers, Reconfigure, Access, Configures,
        Sending, Write, Read, NoAccess
  <1>6. QED
    BY <1>1, <1>2, <1>3, <1>4, <1>5 DEF ProgramTick

LEMMA GapCycle ==
  ASSUME NEW acc, NEW waitrequest, NEW valid, Cycle(acc, waitrequest, valid)
  PROVE  gap' = IF acc.name = "CmdOrData" \/ Displaying
                THEN Gap
                ELSE IF gap > 0 THEN gap - 1 ELSE 0
  BY DEF Cycle, ProgramTick

(* The registers and the copies the LT24 interface and the DMA see. *)
LEMMA RegisterUpdate ==
  ASSUME TypeInv, NEW acc \in Accesses, NEW waitrequest, NEW valid,
         Cycle(acc, waitrequest, valid), NEW r \in Registers
  PROVE  /\ reg'[r] = IF cmd_data_ready /\ r \in {"CmdOrData", "CmdData"} THEN 0
                      ELSE IF Writes(acc, r) THEN acc.data ELSE reg[r]
         /\ out'[r] = IF reg["LCDON"] = 0 /\ r \in {"CmdOrData", "CmdData"} THEN 0
                      ELSE reg[r]
  <1>1. reg \in [Registers -> Nat] /\ SlaveTick(acc, cmd_data_ready)
    BY DEF TypeInv, TypeOK, SlaveTypeOK, Cycle
  <1>2. acc \in AccessType
    BY AccessesTyped
  <1>3. reg'[r] = IF cmd_data_ready /\ r \in {"CmdOrData", "CmdData"} THEN 0
                  ELSE IF Writes(acc, r) THEN acc.data ELSE reg[r]
    BY <1>1, <1>2
    DEF SlaveTick, slave_write, NoCommand, Registers, TYPE_NO_OP, Writes,
        AccessType, NoAccess
  <1>4. out'[r] = IF reg["LCDON"] = 0 /\ r \in {"CmdOrData", "CmdData"} THEN 0
                  ELSE reg[r]
    BY <1>1 DEF SlaveTick, send_signals, NoCommand, Registers, TYPE_NO_OP
  <1>5. QED
    BY <1>3, <1>4

LEMMA LtCases ==
  ASSUME NEW acc, NEW waitrequest, NEW valid, Cycle(acc, waitrequest, valid)
  PROVE  /\ lt_state = "INIT" => LtINIT(out["CmdOrData"])
         /\ lt_state = "WRITE_CMD" => LtWRITE_CMD(out["CmdData"])
         /\ lt_state = "WRITE_DATA" => LtWRITE_DATA(out["CmdData"])
         /\ lt_state = "WAIT_TRANSFER" => LtWAIT_TRANSFER(transfer_start)
         /\ lt_state = "CHECK_FIFO" => LtCHECK_FIFO(FIFO_empty)
         /\ lt_state = "DISPLAY" => LtDISPLAY(FIFO_q)
         /\ lt_state = "CHECK_TRANSFER" => LtCHECK_TRANSFER(FIFO_empty)
  BY DEF Cycle, LT24Tick, LtINIT, LtWRITE_CMD, LtWRITE_DATA, LtWAIT_TRANSFER,
         LtCHECK_FIFO, LtDISPLAY, LtCHECK_TRANSFER

(* In INIT every flag is lowered and every counter cleared. *)
LEMMA LtFirst ==
  ASSUME NEW acc, NEW waitrequest, NEW valid, Cycle(acc, waitrequest, valid),
         lt_state = "INIT"
  PROVE  /\ lt_state' = (IF out["CmdOrData"] = TYPE_CMD THEN "WRITE_CMD"
                         ELSE IF out["CmdOrData"] = TYPE_DATA THEN "WRITE_DATA"
                         ELSE "INIT")
         /\ NoFlags' /\ cnt' = 0 /\ cnt_cycles' = 0 /\ pins' = BusIdle
  <1>1. LtINIT(out["CmdOrData"])
    BY LtCases
  <1>2. NoFlags'
    BY <1>1 DEF LtINIT, NoFlags
  <1>3. QED
    BY <1>1, <1>2 DEF LtINIT, TYPE_CMD, TYPE_DATA

LEMMA DmaCases ==
  ASSUME NEW acc, NEW waitrequest, NEW valid, Cycle(acc, waitrequest, valid)
  PROVE  /\ dma_state = "INIT" => DmaINIT
         /\ dma_state = "IDLE" => DmaIDLE(start_out, out["StartAddress"])
         /\ dma_state = "READ_REQUEST" => DmaREAD_REQUEST(waitrequest, FIFO_almost_full)
         /\ dma_state = "READ_DATA" => DmaREAD_DATA(valid)
         /\ dma_state = "VERIFY_ADDRESS" => DmaVERIFY_ADDRESS
         /\ dma_state = "WAIT_DISPLAY" => DmaWAIT_DISPLAY(display_finished)
  BY DEF Cycle, DmaTick, DmaINIT, DmaIDLE, DmaREAD_REQUEST, DmaREAD_DATA,
         DmaVERIFY_ADDRESS, DmaWAIT_DISPLAY

-----------------------------------------------------------------------------
(* The phases, one step each.                                              *)

LEMMA IdleCycle ==
  ASSUME Board, TypeInv, Idle, NEW acc \in Accesses, NEW waitrequest, NEW valid,
         Cycle(acc, waitrequest, valid)
  PROVE  /\ ~Hands(acc) => Idle'
         /\ Hands(acc) => Sent'
         /\ ~cmd_data_ready' /\ ~display_finished'
  <1>1. /\ lt_state' = "INIT" /\ ~cmd_data_ready' /\ ~display_finished'
        /\ ~start_out' /\ ~FIFO_rdreq'
    BY LtFirst DEF Idle, NoFlags, TYPE_NO_OP, TYPE_CMD, TYPE_DATA
  <1>2. out'["CmdOrData"] = TYPE_NO_OP
    BY RegisterUpdate DEF Idle, Registers, TYPE_NO_OP
  <1>3. ASSUME ~Hands(acc)
        PROVE  Idle'
    <2>1. reg'["CmdOrData"] = TYPE_NO_OP
      BY <1>3, RegisterUpdate, ProgramCases
      DEF Idle, Registers, TYPE_NO_OP, Rests, Configures, Loads, Writes, Write,
          NoAccess
    <2>2. Sending' => reg'["CmdData"] = word'
      BY <1>3, RegisterUpdate, ProgramCases, ProgramAssumption
      DEF Idle, Registers, Rests, Configures, Loads, Writes, Write, NoAccess,
          Sending, Board
    <2>3. /\ pc' = "command" => word' \in CommandWords
          /\ pc' = "data" => word' \in DataWords
      BY <1>3, ProgramCases DEF Idle, Rests, Configures, Loads, Sending
    <2>4. QED
      BY <1>1, <1>2, <2>1, <2>2, <2>3 DEF Idle
  <1>4. ASSUME Hands(acc)
        PROVE  Sent'
    <2>1. ~cmd_data_ready /\ Sending
      BY <1>4 DEF Idle, Hands, Sending
    <2>2. gap' = Gap
      BY <1>4, GapCycle DEF Hands, Write
    <2>3. InRegisters'
      BY <1>4, <2>1, RegisterUpdate
      DEF InRegisters, Hands, Registers, Writes, Write, TYPE_CMD, TYPE_DATA, Idle
    <2>4. pc' = "ready"
      BY <1>4 DEF Hands
    <2>5. QED
      BY <1>1, <1>2, <2>2, <2>3, <2>4 DEF Sent, NoFlags
  <1>5. QED
    BY <1>1, <1>3, <1>4

(* Between the write of RegCmdOrData and the display the program rests. *)
LEMMA RestsMeanwhile ==
  ASSUME NEW acc \in Accesses, NEW waitrequest, NEW valid,
         Cycle(acc, waitrequest, valid), pc = "ready", gap > 0, ~Transferring
  PROVE  Rests(acc)
  BY ProgramCases DEF Configures, Loads, Hands

LEMMA SentCycle ==
  ASSUME Board, TypeInv, PowerInv, Sent, NEW acc \in Accesses, NEW waitrequest,
         NEW valid, Cycle(acc, waitrequest, valid)
  PROVE  Passed' /\ Rests(acc)
  <1>1. Gap \in Nat /\ gap \in Nat
    BY ProgramAssumption DEF TypeInv, TypeOK, ProgramTypeOK
  <1>2. Rests(acc)
    BY <1>1, RestsMeanwhile DEF Sent, Board, Transferring
  <1>3. /\ lt_state' = "INIT" /\ NoFlags'
    BY LtFirst DEF Sent, TYPE_NO_OP, TYPE_CMD, TYPE_DATA
  <1>4. gap' >= Gap - 1
    BY <1>1, <1>2, GapCycle DEF Sent, Board
  <1>5. /\ reg'["CmdOrData"] = reg["CmdOrData"] /\ reg'["CmdData"] = reg["CmdData"]
        /\ out'["CmdOrData"] = reg["CmdOrData"] /\ out'["CmdData"] = reg["CmdData"]
    BY <1>2, RegisterUpdate
    DEF Sent, PowerInv, NoFlags, Rests, NoAccess, Writes, Registers
  <1>6. QED
    BY <1>2, <1>3, <1>4, <1>5 DEF Sent, Passed, InRegisters, Rests

LEMMA PassedCycle ==
  ASSUME Board, TypeInv, PowerInv, Passed, NEW acc \in Accesses, NEW waitrequest,
         NEW valid, Cycle(acc, waitrequest, valid)
  PROVE  /\ Writing' /\ Rests(acc) /\ cnt_cycles' = 0
         /\ lt_state' = IF reg["CmdOrData"] = TYPE_CMD THEN "WRITE_CMD" ELSE "WRITE_DATA"
  <1>1. Gap \in Nat /\ gap \in Nat
    BY ProgramAssumption DEF TypeInv, TypeOK, ProgramTypeOK
  <1>2. Rests(acc)
    BY <1>1, RestsMeanwhile DEF Passed, Board, Transferring
  <1>3. /\ lt_state' = IF reg["CmdOrData"] = TYPE_CMD THEN "WRITE_CMD" ELSE "WRITE_DATA"
        /\ NoFlags' /\ cnt' = 0 /\ cnt_cycles' = 0
    BY LtFirst DEF Passed, InRegisters, TYPE_CMD, TYPE_DATA
  <1>4. gap' >= Gap - 2
    BY <1>1, <1>2, GapCycle DEF Passed, Board
  <1>5. out'["CmdData"] = word /\ reg'["CmdData"] = word
    BY <1>2, RegisterUpdate
    DEF Passed, PowerInv, InRegisters, Registers, Rests, NoFlags, NoAccess, Writes
  <1>6. Writing'
    BY <1>1, <1>2, <1>3, <1>4, <1>5
    DEF Passed, Writing, InRegisters, Rests, NoFlags, OpensDisplay, TYPE_CMD,
        TYPE_DATA
  <1>7. QED
    BY <1>2, <1>3, <1>6

(* The write cycles of a command and of a parameter.  The display command  *)
(* is told by its low byte: no other command word has it.                  *)
LEMMA LtCommand ==
  ASSUME TypeInv, Writing, NEW acc, NEW waitrequest, NEW valid,
         Cycle(acc, waitrequest, valid), lt_state = "WRITE_CMD"
  PROVE  /\ cnt_cycles < 3 =>
              /\ lt_state' = lt_state /\ cnt_cycles' = cnt_cycles + 1
              /\ cmd_data_ready' <=> cmd_data_ready \/ (cnt_cycles = 1 /\ ~OpensDisplay)
              /\ start_out' <=> OpensDisplay /\ cnt_cycles = 2
         /\ cnt_cycles = 3 =>
              /\ lt_state' = IF OpensDisplay THEN "WAIT_TRANSFER" ELSE "INIT"
              /\ cnt_cycles' = 0 /\ ~start_out' /\ (cmd_data_ready' <=> OpensDisplay)
         /\ cnt' = 0 /\ ~display_finished' /\ ~FIFO_rdreq'
  <1>1. LtWRITE_CMD(word)
    BY LtCases DEF Writing
  <1>2. cnt_cycles \in 0..3
    BY DEF TypeInv, TypeOK, LT24TypeOK, CounterInv
  <1>3. word % 256 = CMD_DISPLAY <=> OpensDisplay
    <2>1. word \in 1..255
      <3>1. word \in CommandWords
        BY DEF Writing
      <3>2. Commands \subseteq 1..255
        BY ProgramAssumption
      <3>3. QED
        BY <3>1, <3>2 DEF CommandWords, CMD_DISPLAY
    <2>2. word % 256 = word
      BY <2>1
    <2>3. QED
      BY <2>2 DEF OpensDisplay
  <1>4. cnt' = 0 /\ ~display_finished' /\ ~FIFO_rdreq'
    BY <1>1 DEF LtWRITE_CMD, Writing
  <1>5. CASE cnt_cycles = 0
    BY <1>1, <1>4, <1>5 DEF LtWRITE_CMD
  <1>6. CASE cnt_cycles = 1
    <2> DEFINE display == word % 256 = CMD_DISPLAY
    <2>1. cnt_cycles' = 2 /\ lt_state' = lt_state
      BY <1>1, <1>6 DEF LtWRITE_CMD
    <2>2. start_out' = FALSE /\ cmd_data_ready' = (cmd_data_ready \/ ~display)
      BY <1>1, <1>6 DEF LtWRITE_CMD
    <2> HIDE DEF display
    <2>3. ~start_out' /\ (cmd_data_ready' <=> cmd_data_ready \/ ~display)
      BY <2>2
    <2>4. display <=> OpensDisplay
      BY <1>3 DEF display
    <2>5. QED
      BY <1>4, <1>6, <2>1, <2>3, <2>4
  <1>7. CASE cnt_cycles = 2
    <2> DEFINE display == word % 256 = CMD_DISPLAY
    <2>1. cnt_cycles' = 3 /\ lt_state' = lt_state
      BY <1>1, <1>7 DEF LtWRITE_CMD
    <2>2. start_out' = display /\ cmd_data_ready' = cmd_data_ready
      BY <1>1, <1>7 DEF LtWRITE_CMD
    <2> HIDE DEF display
    <2>3. (start_out' <=> display) /\ (cmd_data_ready' <=> cmd_data_ready)
      BY <2>2
    <2>4. display <=> OpensDisplay
      BY <1>3 DEF display
    <2>5. QED
      BY <1>4, <1>7, <2>1, <2>3, <2>4
  <1>8. CASE cnt_cycles = 3
    <2> DEFINE display == word % 256 = CMD_DISPLAY
    <2>1. cnt_cycles' = 0 /\ lt_state' = (IF display THEN "WAIT_TRANSFER" ELSE "INIT")
      BY <1>1, <1>8 DEF LtWRITE_CMD
    <2>2. start_out' = FALSE /\ cmd_data_ready' = display
      BY <1>1, <1>8 DEF LtWRITE_CMD
    <2> HIDE DEF display
    <2>3. ~start_out' /\ (cmd_data_ready' <=> display)
      BY <2>2
    <2>4. display <=> OpensDisplay
      BY <1>3 DEF display
    <2>5. QED
      BY <1>4, <1>8, <2>1, <2>3, <2>4
  <1>9. QED
    BY <1>2, <1>5, <1>6, <1>7, <1>8

LEMMA LtData ==
  ASSUME TypeInv, Writing, NEW acc, NEW waitrequest, NEW valid,
         Cycle(acc, waitrequest, valid), lt_state = "WRITE_DATA"
  PROVE  /\ cnt_cycles < 3 =>
              /\ lt_state' = lt_state /\ cnt_cycles' = cnt_cycles + 1
              /\ cmd_data_ready' <=> cmd_data_ready \/ cnt_cycles = 1
         /\ cnt_cycles = 3 =>
              lt_state' = "INIT" /\ cnt_cycles' = 0 /\ ~cmd_data_ready'
         /\ cnt' = 0 /\ ~start_out' /\ ~display_finished' /\ ~FIFO_rdreq'
  <1>1. LtWRITE_DATA(word)
    BY LtCases DEF Writing
  <1>2. cnt_cycles \in 0..3
    BY DEF TypeInv, TypeOK, LT24TypeOK, CounterInv
  <1>3. cnt' = 0 /\ ~start_out' /\ ~display_finished' /\ ~FIFO_rdreq'
    BY <1>1 DEF LtWRITE_DATA, Writing
  <1>4. /\ cnt_cycles' = (IF cnt_cycles < 3 THEN cnt_cycles + 1 ELSE 0)
        /\ lt_state' = (IF cnt_cycles < 3 THEN "WRITE_DATA" ELSE "INIT")
    BY <1>1 DEF LtWRITE_DATA
  <1>5. cmd_data_ready' <=> cnt_cycles = 1 \/ (cnt_cycles < 3 /\ cmd_data_ready)
    BY <1>1 DEF LtWRITE_DATA
  <1>6. QED
    BY <1>2, <1>3, <1>4, <1>5

LEMMA WritingCycle ==
  ASSUME Board, TypeInv, PowerInv, Writing, NEW acc \in Accesses,
         NEW waitrequest, NEW valid, Cycle(acc, waitrequest, valid)
  PROVE  /\ Rests(acc)
         /\ cnt_cycles < 3 =>
              Writing' /\ lt_state' = lt_state /\ cnt_cycles' = cnt_cycles + 1
         /\ cnt_cycles = 3 /\ OpensDisplay =>
              Showing' /\ lt_state' = "WAIT_TRANSFER"
         /\ cnt_cycles = 3 /\ ~OpensDisplay =>
              Idle' /\ ~cmd_data_ready' /\ ~display_finished'
  <1>1. Gap \in Nat /\ gap \in 0..Gap /\ gap' \in Nat /\ cnt_cycles \in 0..3
    <2>1. Gap \in Nat /\ gap \in 0..Gap
      BY ProgramAssumption DEF TypeInv, TypeOK, ProgramTypeOK
    <2>2. cnt_cycles \in 0..3
      BY DEF TypeInv, TypeOK, LT24TypeOK, CounterInv, Writing
    <2>3. gap' \in Nat
      BY TypeCycle, ProgramAssumption DEF TypeInv, TypeOK, ProgramTypeOK
    <2>4. QED
      BY <2>1, <2>2, <2>3
  <1>2. Rests(acc)
    BY <1>1, RestsMeanwhile DEF Writing, Board, Transferring
  <1>3. /\ pc' = "ready" /\ word' = word
        /\ reg["LCDON"] = 1
    BY <1>2 DEF Rests, Writing, PowerInv
  <1>4. gap' >= gap - 1 /\ (OpensDisplay => gap' = Gap)
    BY <1>1, <1>2, GapCycle
    DEF Writing, Board, Displaying, OpensDisplay
  <1>5. /\ reg'["CmdOrData"] = IF cmd_data_ready THEN 0 ELSE reg["CmdOrData"]
        /\ out'["CmdOrData"] = reg["CmdOrData"]
    BY <1>2, <1>3, RegisterUpdate DEF Rests, NoAccess, Writes, Registers
  <1>6. cnt_cycles < 3 =>
          /\ out'["CmdData"] = word
          /\ cnt_cycles < 2 => reg'["CmdData"] = word
    BY <1>2, <1>3, RegisterUpdate DEF Rests, NoAccess, Writes, Registers, Writing
  <1>7. CASE lt_state = "WRITE_CMD" /\ cnt_cycles < 3
    <2>1. /\ lt_state' = lt_state /\ cnt_cycles' = cnt_cycles + 1 /\ cnt' = 0
          /\ cmd_data_ready' <=> cnt_cycles' > 1 /\ ~OpensDisplay
          /\ start_out' <=> OpensDisplay /\ cnt_cycles' = 3
          /\ ~display_finished' /\ ~FIFO_rdreq'
      BY <1>1, <1>7, LtCommand DEF Writing
    <2>2. OpensDisplay' <=> OpensDisplay
      BY <1>3, <2>1 DEF OpensDisplay
    <2>3. cnt_cycles' = 3 /\ ~OpensDisplay => reg'["CmdOrData"] = TYPE_NO_OP
      BY <1>1, <1>5, <1>7, <2>1 DEF Writing, TYPE_NO_OP
    <2>4. gap' >= Gap - 2 - cnt_cycles' /\ cnt_cycles' \in 1..3
      BY <1>1, <1>4, <1>7, <2>1 DEF Writing
    <2>5. out'["CmdData"] = word' /\ (cnt_cycles' < 3 => reg'["CmdData"] = word')
      BY <1>1, <1>3, <1>6, <1>7, <2>1
    <2>6. Writing'
      BY <1>3, <1>7, <2>1, <2>2, <2>3, <2>4, <2>5 DEF Writing
    <2>7. QED
      BY <1>2, <1>7, <2>1, <2>6
  <1>8. CASE lt_state = "WRITE_DATA" /\ cnt_cycles < 3
    <2>1. /\ lt_state' = lt_state /\ cnt_cycles' = cnt_cycles + 1 /\ cnt' = 0
          /\ cmd_data_ready' <=> cnt_cycles' > 1
          /\ ~start_out' /\ ~display_finished' /\ ~FIFO_rdreq'
      BY <1>1, <1>8, LtData DEF Writing, OpensDisplay
    <2>2. ~OpensDisplay' /\ ~OpensDisplay
      BY <1>8, <2>1 DEF OpensDisplay
    <2>3. cnt_cycles' = 3 => reg'["CmdOrData"] = TYPE_NO_OP
      BY <1>1, <1>5, <1>8, <2>1, <2>2 DEF Writing, TYPE_NO_OP
    <2>4. gap' >= Gap - 2 - cnt_cycles' /\ cnt_cycles' \in 1..3
      BY <1>1, <1>4, <1>8, <2>1 DEF Writing
    <2>5. out'["CmdData"] = word' /\ (cnt_cycles' < 3 => reg'["CmdData"] = word')
      BY <1>1, <1>3, <1>6, <1>8, <2>1
    <2>6. Writing'
      BY <1>3, <1>8, <2>1, <2>2, <2>3, <2>4, <2>5 DEF Writing
    <2>7. QED
      BY <1>2, <1>8, <2>1, <2>6
  <1>9. CASE cnt_cycles = 3 /\ OpensDisplay
    <2>1. /\ lt_state' = "WAIT_TRANSFER" /\ cnt' = 0 /\ cnt_cycles' = 0
          /\ cmd_data_ready' /\ ~start_out' /\ ~display_finished' /\ ~FIFO_rdreq'
      BY <1>9, LtCommand DEF OpensDisplay
    <2>2. Showing'
      BY <1>3, <1>4, <1>9, <2>1 DEF Showing, Transferring, Sending
    <2>3. QED
      BY <1>2, <1>9, <2>1, <2>2
  <1>10. CASE cnt_cycles = 3 /\ ~OpensDisplay
    <2>1. /\ lt_state' = "INIT" /\ ~cmd_data_ready' /\ ~start_out'
          /\ ~display_finished' /\ ~FIFO_rdreq'
      BY <1>10, LtCommand, LtData DEF Writing
    <2>2. reg'["CmdOrData"] = TYPE_NO_OP /\ out'["CmdOrData"] = TYPE_NO_OP
      BY <1>5, <1>10 DEF Writing, TYPE_NO_OP
    <2>3. Idle'
      BY <1>3, <2>1, <2>2 DEF Idle, Sending
    <2>4. QED
      BY <1>2, <1>10, <2>1, <2>3
  <1>11. QED
    BY <1>1, <1>7, <1>8, <1>9, <1>10 DEF Writing

(* The states of a display.  The last pixel is the only way out of them.   *)
LastPixel == lt_state = "CHECK_TRANSFER" /\ cnt = IMG_WORD_LEN - 1

LEMMA LtDisplay ==
  ASSUME TypeInv, Showing, NEW acc, NEW waitrequest, NEW valid,
         Cycle(acc, waitrequest, valid)
  PROVE  /\ lt_state = "WAIT_TRANSFER" =>
              /\ lt_state' \in {"WAIT_TRANSFER", "CHECK_FIFO"}
              /\ cnt' = cnt /\ cnt_cycles' = 0 /\ cmd_data_ready' /\ ~FIFO_rdreq'
         /\ lt_state = "CHECK_FIFO" =>
              /\ lt_state' = IF FIFO_empty THEN "CHECK_FIFO" ELSE "DISPLAY"
              /\ cnt' = cnt /\ cnt_cycles' = 0 /\ (FIFO_rdreq' <=> ~FIFO_empty)
         /\ lt_state = "DISPLAY" =>
              /\ lt_state' = IF cnt_cycles < 4 THEN "DISPLAY" ELSE "CHECK_TRANSFER"
              /\ cnt_cycles' = IF cnt_cycles < 4 THEN cnt_cycles + 1 ELSE 0
              /\ cnt' = cnt /\ ~FIFO_rdreq'
         /\ lt_state = "CHECK_TRANSFER" /\ ~LastPixel =>
              /\ lt_state' = IF FIFO_empty THEN "CHECK_FIFO" ELSE "DISPLAY"
              /\ cnt' = cnt + 1 /\ cnt_cycles' = 0 /\ (FIFO_rdreq' <=> ~FIFO_empty)
         /\ LastPixel =>
              /\ lt_state' = "INIT" /\ cnt' = IMG_WORD_LEN
              /\ cmd_data_ready' /\ display_finished' /\ ~FIFO_rdreq'
         /\ ~LastPixel => ~display_finished'
         /\ ~start_out'
  <1>1. /\ lt_state \in {"WAIT_TRANSFER", "CHECK_FIFO", "DISPLAY", "CHECK_TRANSFER"}
        /\ ~display_finished
        /\ lt_state = "WAIT_TRANSFER" => cmd_data_ready
        /\ lt_state # "DISPLAY" => ~FIFO_rdreq
        /\ lt_state = "DISPLAY" /\ cnt_cycles # 0 => ~FIFO_rdreq
    BY DEF Showing, Transferring
  <1>2. /\ lt_state # "DISPLAY" => cnt_cycles = 0
        /\ cnt_cycles \in 0..5
        /\ IMG_WORD_LEN \in Nat /\ cnt \in Nat
    BY <1>1, FrameAssumption DEF TypeInv, TypeOK, LT24TypeOK, CounterInv
  <1>3. CASE lt_state = "WAIT_TRANSFER"
    <2>1. LtWAIT_TRANSFER(transfer_start)
      BY <1>3, LtCases
    <2>2. ~start_out'
      BY <2>1 DEF LtWAIT_TRANSFER
    <2>3. cmd_data_ready' /\ ~FIFO_rdreq' /\ ~display_finished'
      BY <1>1, <1>3, <2>1 DEF LtWAIT_TRANSFER
    <2>4. QED
      BY <1>2, <1>3, <2>1, <2>2, <2>3 DEF LtWAIT_TRANSFER, LastPixel
  <1>4. CASE lt_state = "CHECK_FIFO"
    <2>1. LtCHECK_FIFO(FIFO_empty)
      BY <1>4, LtCases
    <2>2. ~start_out' /\ ~display_finished'
      BY <1>1, <2>1 DEF LtCHECK_FIFO
    <2>3. FIFO_rdreq' <=> ~FIFO_empty
      BY <1>1, <1>4, <2>1 DEF LtCHECK_FIFO
    <2>4. QED
      BY <1>2, <1>4, <2>1, <2>2, <2>3 DEF LtCHECK_FIFO, LastPixel
  <1>5. CASE lt_state = "DISPLAY"
    <2>1. LtDISPLAY(FIFO_q)
      BY <1>5, LtCases
    <2>2. ~start_out' /\ ~display_finished'
      BY <1>1, <2>1 DEF LtDISPLAY
    <2>3. ~FIFO_rdreq'
      BY <1>1, <1>5, <2>1 DEF LtDISPLAY
    <2>4. QED
      BY <1>2, <1>5, <2>1, <2>2, <2>3 DEF LtDISPLAY, LastPixel
  <1>6. CASE lt_state = "CHECK_TRANSFER" /\ ~LastPixel
    <2>1. LtCHECK_TRANSFER(FIFO_empty) /\ cnt # IMG_WORD_LEN - 1
      BY <1>6, LtCases DEF LastPixel
    <2>2. ~start_out' /\ ~display_finished'
      BY <1>1, <2>1 DEF LtCHECK_TRANSFER
    <2>3. FIFO_rdreq' = (FIFO_rdreq \/ ~FIFO_empty)
      BY <2>1 DEF LtCHECK_TRANSFER
    <2>4. FIFO_rdreq' <=> ~FIFO_empty
      BY <1>1, <1>6, <2>3
    <2>5. QED
      BY <1>2, <1>6, <2>1, <2>2, <2>4 DEF LtCHECK_TRANSFER
  <1>7. CASE LastPixel
    <2>1. LtCHECK_TRANSFER(FIFO_empty) /\ cnt = IMG_WORD_LEN - 1
      BY <1>7, LtCases DEF LastPixel
    <2>2. ~start_out' /\ display_finished' /\ cmd_data_ready'
      BY <2>1 DEF LtCHECK_TRANSFER
    <2>3. ~FIFO_rdreq'
      BY <1>1, <1>7, <2>1 DEF LtCHECK_TRANSFER, LastPixel
    <2>4. QED
      BY <1>2, <1>7, <2>1, <2>2, <2>3 DEF LtCHECK_TRANSFER, LastPixel
  <1>8. QED
    BY <1>1, <1>3, <1>4, <1>5, <1>6, <1>7

LEMMA ShowingCycle ==
  ASSUME Board, TypeInv, Showing, NEW acc \in Accesses, NEW waitrequest,
         NEW valid, Cycle(acc, waitrequest, valid)
  PROVE  /\ Rests(acc) \/ Configures(acc)
         /\ ~LastPixel => Showing'
         /\ LastPixel => Idle' /\ cmd_data_ready' /\ display_finished' /\ ~Sending'
  <1>1. Gap \in Nat /\ Gap >= 6 /\ gap = Gap
    BY ProgramAssumption DEF Board, Showing
  <1>2. Rests(acc) \/ Configures(acc)
    BY <1>1, ProgramCases DEF Loads, Hands, Showing, Sending
  <1>3. pc' # "LCD_turn_on" /\ ~Sending'
    BY <1>2 DEF Rests, Configures, Showing, Sending
  <1>4. gap' = Gap
    BY GapCycle DEF Board, Displaying, Showing
  <1>5. /\ lt_state = "WAIT_TRANSFER" => reg'["CmdOrData"] = TYPE_NO_OP
        /\ reg["CmdOrData"] = TYPE_NO_OP =>
             reg'["CmdOrData"] = TYPE_NO_OP /\ out'["CmdOrData"] = TYPE_NO_OP
    <2>1. ~Writes(acc, "CmdOrData")
      BY <1>2 DEF Rests, Configures, NoAccess, Writes
    <2>2. lt_state = "WAIT_TRANSFER" => cmd_data_ready
      BY DEF Showing
    <2>3. "CmdOrData" \in Registers
      BY DEF Registers
    <2>4. QED
      BY <2>1, <2>2, <2>3, RegisterUpdate DEF TYPE_NO_OP
  <1>6. /\ lt_state \in {"WAIT_TRANSFER", "CHECK_FIFO", "DISPLAY", "CHECK_TRANSFER"}
        /\ lt_state # "WAIT_TRANSFER" => reg["CmdOrData"] = TYPE_NO_OP
        /\ lt_state = "WAIT_TRANSFER" => cnt = 0
    BY DEF Showing, Transferring
  <1>7. cnt_cycles \in 0..4 /\ (lt_state # "DISPLAY" => cnt_cycles = 0)
    BY <1>6 DEF TypeInv, TypeOK, LT24TypeOK, CounterInv
  <1>8. CASE ~LastPixel
    <2>1. /\ lt_state' \in {"WAIT_TRANSFER", "CHECK_FIFO", "DISPLAY", "CHECK_TRANSFER"}
          /\ lt_state' = "WAIT_TRANSFER" => lt_state = "WAIT_TRANSFER" /\ cnt' = 0 /\ cmd_data_ready'
          /\ lt_state' \in {"DISPLAY", "CHECK_TRANSFER"} => lt_state # "WAIT_TRANSFER"
          /\ ~display_finished' /\ ~start_out'
      BY <1>6, <1>8, LtDisplay
    <2>2. FIFO_rdreq' <=> lt_state' = "DISPLAY" /\ cnt_cycles' = 0
      BY <1>6, <1>7, <1>8, LtDisplay
    <2>3. QED
      BY <1>2, <1>3, <1>4, <1>5, <1>6, <1>8, <2>1, <2>2 DEF Showing, Transferring
  <1>9. CASE LastPixel
    <2>1. /\ lt_state' = "INIT" /\ cmd_data_ready' /\ display_finished'
          /\ ~FIFO_rdreq' /\ ~start_out'
      BY <1>9, LtDisplay
    <2>2. reg'["CmdOrData"] = TYPE_NO_OP /\ out'["CmdOrData"] = TYPE_NO_OP
      BY <1>5, <1>6, <1>9 DEF LastPixel
    <2>3. Idle'
      BY <1>3, <1>4, <2>1, <2>2 DEF Idle, Sending
    <2>4. QED
      BY <1>2, <1>3, <1>9, <2>1, <2>3
  <1>10. QED
    BY <1>8, <1>9

LEMMA PhaseCycle ==
  ASSUME Board, TypeInv, PowerInv, PhaseInv, NEW acc \in Accesses,
         NEW waitrequest, NEW valid, Cycle(acc, waitrequest, valid)
  PROVE  PhaseInv'
  <1>1. CASE Idle
    BY <1>1, IdleCycle DEF PhaseInv
  <1>2. CASE Sent
    BY <1>2, SentCycle DEF PhaseInv
  <1>3. CASE Passed
    BY <1>3, PassedCycle DEF PhaseInv
  <1>4. CASE Writing
    <2>1. cnt_cycles \in 0..3
      BY <1>4 DEF TypeInv, TypeOK, LT24TypeOK, CounterInv, Writing
    <2>2. QED
      BY <1>4, <2>1, WritingCycle DEF PhaseInv
  <1>5. CASE Showing
    BY <1>5, ShowingCycle DEF PhaseInv
  <1>6. QED
    BY <1>1, <1>2, <1>3, <1>4, <1>5 DEF PhaseInv

-----------------------------------------------------------------------------
(* Power and pins.                                                         *)

LEMMA PowerCycle ==
  ASSUME TypeInv, PowerInv, PhaseInv, NEW acc \in Accesses, NEW waitrequest,
         NEW valid, Cycle(acc, waitrequest, valid)
  PROVE  PowerInv'
  <1>1. /\ pc = "LCD_turn_on" /\ pc' # pc =>
             acc = Write("LCDON", 1) /\ pc' = "RegStartAddress"
        /\ pc' \notin {"LCD_turn_on", "RegStartAddress"} => pc # "LCD_turn_on"
        /\ pc' \notin {"LCD_turn_on", "RegStartAddress", "readStartAddress"} =>
             pc \notin {"LCD_turn_on", "RegStartAddress"}
    BY DEF Cycle, ProgramTick, LCD_turn_on, LCD_write_registers, Reconfigure,
           LCD_configure, LCD_display, LCD_write_command, LCD_write_data,
           WriteCmdData, WriteCmdOrData, Compute, Access
  <1>2. Writes(acc, "LCDON") => acc.data = 1
    BY DEF Accesses, Writes, Write, Read, NoAccess
  <1>3. /\ reg'["LCDON"] = IF Writes(acc, "LCDON") THEN acc.data ELSE reg["LCDON"]
        /\ out'["LCDON"] = reg["LCDON"]
    BY RegisterUpdate DEF Registers
  <1>4. LT24_LCD_ON' = out["LCDON"]
    BY DEF Cycle, LT24Tick
  <1>5. pc' # "LCD_turn_on" => reg'["LCDON"] = 1
    BY <1>1, <1>2, <1>3 DEF PowerInv, Write, Writes
  <1>6. lt_state' # "INIT" =>
          \/ lt_state # "INIT" /\ pc # "LCD_turn_on"
          \/ pc = "ready"
    <2>1. Idle => lt_state' = "INIT"
      BY LtFirst DEF Idle, TYPE_NO_OP, TYPE_CMD, TYPE_DATA
    <2>2. Sent \/ Passed \/ Writing => pc = "ready"
      BY DEF Sent, Passed, Writing
    <2>3. Showing => lt_state # "INIT" /\ pc # "LCD_turn_on"
      BY DEF Showing, Transferring
    <2>4. QED
      BY <2>1, <2>2, <2>3 DEF PhaseInv
  <1>7. /\ pc' \notin {"LCD_turn_on", "RegStartAddress"} \/ lt_state' # "INIT" =>
             out'["LCDON"] = 1
        /\ pc' \notin {"LCD_turn_on", "RegStartAddress", "readStartAddress"}
           \/ lt_state' # "INIT" =>
             LT24_LCD_ON' = 1
    BY <1>1, <1>3, <1>4, <1>6 DEF PowerInv
  <1>8. QED
    BY <1>5, <1>7 DEF PowerInv

(* What the three steps of a write cycle do to the pins. *)
LEMMA PinFields ==
  ASSUME pins \in PinType, NEW dcx, NEW d
  PROVE  /\ /\ Drive(dcx, d).CSX = 0 /\ Drive(dcx, d).WRX = 0
            /\ Drive(dcx, d).DCX = dcx /\ Drive(dcx, d).D = d
            /\ Drive(dcx, d).Res_n = pins.Res_n
         /\ /\ Strobe.WRX = 1 /\ Strobe.CSX = pins.CSX /\ Strobe.DCX = pins.DCX
            /\ Strobe.D = pins.D /\ Strobe.Res_n = pins.Res_n
         /\ Release.WRX = pins.WRX /\ Release.Res_n = pins.Res_n
         /\ BusIdle.WRX = 1 /\ BusIdle.Res_n = 1
  <1>1. /\ Drive(dcx, d).CSX = 0 /\ Drive(dcx, d).WRX = 0
        /\ Drive(dcx, d).DCX = dcx /\ Drive(dcx, d).D = d
        /\ Drive(dcx, d).Res_n = pins.Res_n
    BY DEF Drive, Pins
  <1>2. /\ Strobe.WRX = 1 /\ Strobe.CSX = pins.CSX /\ Strobe.DCX = pins.DCX
        /\ Strobe.D = pins.D /\ Strobe.Res_n = pins.Res_n
    BY DEF Strobe, PinType
  <1>3. Release.WRX = pins.WRX /\ Release.Res_n = pins.Res_n
    BY DEF Release, Pins
  <1>4. BusIdle.WRX = 1 /\ BusIdle.Res_n = 1
    BY DEF BusIdle, Pins
  <1>5. QED
    BY <1>1, <1>2, <1>3, <1>4

LEMMA PinSteps ==
  ASSUME NEW acc, NEW waitrequest, NEW valid, Cycle(acc, waitrequest, valid)
  PROVE  /\ lt_state = "INIT" => pins' = BusIdle
         /\ lt_state \in {"WRITE_CMD", "WRITE_DATA"} =>
              /\ cnt_cycles = 0 =>
                   pins' = Drive(IF lt_state = "WRITE_CMD" THEN 0 ELSE 1, out["CmdData"])
              /\ cnt_cycles = 1 => pins' = Strobe
              /\ cnt_cycles = 2 => pins' = Release
              /\ cnt_cycles = 3 => pins' = pins
         /\ lt_state = "DISPLAY" =>
              /\ cnt_cycles \in {0, 4} => pins' = pins
              /\ cnt_cycles = 1 => pins' = Drive(1, FIFO_q)
              /\ cnt_cycles = 2 => pins' = Strobe
              /\ cnt_cycles = 3 => pins' = Release
         /\ lt_state \in {"WAIT_TRANSFER", "CHECK_FIFO", "CHECK_TRANSFER"} => pins' = pins
  <1>1. lt_state = "WRITE_CMD" =>
          /\ cnt_cycles = 0 => pins' = Drive(0, out["CmdData"])
          /\ cnt_cycles = 1 => pins' = Strobe
          /\ cnt_cycles = 2 => pins' = Release
          /\ cnt_cycles = 3 => pins' = pins
    <2> SUFFICES ASSUME LtWRITE_CMD(out["CmdData"])
                 PROVE  /\ cnt_cycles = 0 => pins' = Drive(0, out["CmdData"])
                        /\ cnt_cycles = 1 => pins' = Strobe
                        /\ cnt_cycles = 2 => pins' = Release
                        /\ cnt_cycles = 3 => pins' = pins
      BY LtCases
    <2>1. cnt_cycles = 0 => pins' = Drive(0, out["CmdData"])
      BY DEF LtWRITE_CMD
    <2>2. cnt_cycles = 1 => pins' = Strobe
      BY DEF LtWRITE_CMD
    <2>3. cnt_cycles = 2 => pins' = Release
      BY DEF LtWRITE_CMD
    <2>4. cnt_cycles = 3 => pins' = pins
      BY DEF LtWRITE_CMD
    <2>5. QED
      BY <2>1, <2>2, <2>3, <2>4
  <1>2. lt_state = "WRITE_DATA" =>
          /\ cnt_cycles = 0 => pins' = Drive(1, out["CmdData"])
          /\ cnt_cycles = 1 => pins' = Strobe
          /\ cnt_cycles = 2 => pins' = Release
          /\ cnt_cycles = 3 => pins' = pins
    <2>1. lt_state = "WRITE_DATA" =>
            pins' = CASE cnt_cycles = 0 -> Drive(1, out["CmdData"])
                      [] cnt_cycles = 1 -> Strobe
                      [] cnt_cycles = 2 -> Release
                      [] OTHER          -> pins
      BY LtCases DEF LtWRITE_DATA
    <2>2. QED
      BY <2>1
  <1>3. lt_state = "DISPLAY" =>
          /\ cnt_cycles \in {0, 4} => pins' = pins
          /\ cnt_cycles = 1 => pins' = Drive(1, FIFO_q)
          /\ cnt_cycles = 2 => pins' = Strobe
          /\ cnt_cycles = 3 => pins' = Release
    <2>1. lt_state = "DISPLAY" =>
            pins' = CASE cnt_cycles = 1 -> Drive(1, FIFO_q)
                      [] cnt_cycles = 2 -> Strobe
                      [] cnt_cycles = 3 -> Release
                      [] OTHER          -> pins
      BY LtCases DEF LtDISPLAY
    <2>2. QED
      BY <2>1
  <1>4. lt_state \in {"WAIT_TRANSFER", "CHECK_FIFO", "CHECK_TRANSFER"} => pins' = pins
    BY LtCases DEF LtWAIT_TRANSFER, LtCHECK_FIFO, LtCHECK_TRANSFER
  <1>5. lt_state = "INIT" => pins' = BusIdle
    BY LtFirst
  <1>6. QED
    BY <1>1, <1>2, <1>3, <1>4, <1>5

LEMMA PinsCycle ==
  ASSUME Board, TypeInv, PowerInv, PhaseInv, PinsInv, NEW acc \in Accesses,
         NEW waitrequest, NEW valid, Cycle(acc, waitrequest, valid)
  PROVE  PinsInv'
  <1>1. pins \in PinType
    BY DEF TypeInv, TypeOK, LT24TypeOK
  <1>2. CASE Idle \/ Sent \/ Passed
    <2>1. pins' = BusIdle /\ lt_state' # "DISPLAY" /\ cnt_cycles' = 0
      BY <1>2, LtFirst DEF Idle, Sent, Passed
    <2>2. QED
      BY <1>1, <2>1, PinFields DEF PinsInv, Strobing
  <1>3. CASE Writing
    <2>1. /\ cnt_cycles \in 0..3 /\ lt_state \in {"WRITE_CMD", "WRITE_DATA"}
          /\ out["CmdData"] = word
      BY <1>3 DEF TypeInv, TypeOK, LT24TypeOK, CounterInv, Writing
    <2>2. /\ word' = word
          /\ cnt_cycles < 3 => lt_state' = lt_state /\ cnt_cycles' = cnt_cycles + 1
          /\ cnt_cycles = 3 => lt_state' \in {"INIT", "WAIT_TRANSFER"}
      BY <1>3, WritingCycle DEF Rests, Idle
    <2>3. CASE cnt_cycles = 0
      <3> DEFINE dcx == IF lt_state = "WRITE_CMD" THEN 0 ELSE 1
      <3>1. pins' = Drive(dcx, word)
        BY <2>1, <2>3, PinSteps
      <3>2. /\ pins'.CSX = 0 /\ pins'.WRX = 0 /\ pins'.DCX = dcx /\ pins'.D = word
            /\ pins'.Res_n = pins.Res_n
        BY <1>1, <3>1, PinFields
      <3>3. QED
        BY <2>1, <2>2, <2>3, <3>2 DEF PinsInv, Strobing
    <2>4. CASE cnt_cycles = 1
      BY <1>1, <2>1, <2>2, <2>4, PinSteps, PinFields DEF PinsInv, Strobing
    <2>5. CASE cnt_cycles = 2
      BY <1>1, <2>1, <2>2, <2>5, PinSteps, PinFields DEF PinsInv, Strobing
    <2>6. CASE cnt_cycles = 3
      BY <1>1, <2>1, <2>2, <2>6, PinSteps DEF PinsInv, Strobing
    <2>7. QED
      BY <2>1, <2>3, <2>4, <2>5, <2>6
  <1>4. CASE Showing /\ lt_state = "DISPLAY"
    <2>1. cnt_cycles \in 0..4
      BY <1>4 DEF TypeInv, TypeOK, LT24TypeOK, CounterInv
    <2>2. /\ lt_state' = IF cnt_cycles < 4 THEN "DISPLAY" ELSE "CHECK_TRANSFER"
          /\ cnt_cycles' = IF cnt_cycles < 4 THEN cnt_cycles + 1 ELSE 0
      BY <1>4, LtDisplay
    <2>3. CASE cnt_cycles = 1
      <3>1. pins' = Drive(1, FIFO_q)
        BY <1>4, <2>3, PinSteps
      <3>2. /\ pins'.CSX = 0 /\ pins'.WRX = 0 /\ pins'.DCX = 1
            /\ pins'.Res_n = pins.Res_n
        BY <1>1, <3>1, PinFields
      <3>3. QED
        BY <1>4, <2>2, <2>3, <3>2 DEF PinsInv, Strobing
    <2>4. CASE cnt_cycles = 2
      BY <1>1, <1>4, <2>2, <2>4, PinSteps, PinFields DEF PinsInv, Strobing
    <2>5. CASE cnt_cycles = 3
      BY <1>1, <1>4, <2>2, <2>5, PinSteps, PinFields DEF PinsInv, Strobing
    <2>6. CASE cnt_cycles \in {0, 4}
      BY <1>4, <2>2, <2>6, PinSteps DEF PinsInv, Strobing
    <2>7. QED
      BY <2>1, <2>3, <2>4, <2>5, <2>6
  <1>5. CASE Showing /\ lt_state # "DISPLAY"
    <2>1. /\ lt_state \in {"WAIT_TRANSFER", "CHECK_FIFO", "CHECK_TRANSFER"}
          /\ pins' = pins
      BY <1>5, PinSteps DEF Showing, Transferring
    <2>2. lt_state' # "DISPLAY" \/ cnt_cycles' = 0
      BY <1>5, <2>1, LtDisplay
    <2>3. lt_state' \notin {"WRITE_CMD", "WRITE_DATA"}
      BY <1>5, <2>1, LtDisplay
    <2>4. QED
      BY <2>1, <2>2, <2>3 DEF PinsInv, Strobing
  <1>6. QED
    BY <1>2, <1>3, <1>4, <1>5 DEF PhaseInv

-----------------------------------------------------------------------------
(* The two FSMs hear each other, and every word is counted.                *)

LEMMA PhasesExclude ==
  /\ Idle => ~Sent /\ ~Passed /\ ~Writing /\ ~Showing
  /\ Sent => ~Passed /\ ~Writing /\ ~Showing
  /\ Passed => ~Writing /\ ~Showing
  /\ Writing => ~Showing
  BY DEF Idle, Sent, Passed, Writing, Showing, InRegisters, Transferring,
         TYPE_NO_OP, TYPE_CMD, TYPE_DATA

LEMMA DmaStates ==
  ASSUME NEW acc, NEW waitrequest, NEW valid, Cycle(acc, waitrequest, valid)
  PROVE  /\ dma_state = "INIT" => dma_state' = "IDLE"
         /\ dma_state = "IDLE" =>
              dma_state' = IF start_out THEN "READ_REQUEST" ELSE "IDLE"
         /\ dma_state = "READ_REQUEST" => dma_state' \in {"READ_REQUEST", "READ_DATA"}
         /\ dma_state = "READ_DATA" => dma_state' \in {"READ_DATA", "VERIFY_ADDRESS"}
         /\ dma_state = "VERIFY_ADDRESS" => dma_state' \in {"WAIT_DISPLAY", "READ_REQUEST"}
         /\ dma_state = "WAIT_DISPLAY" =>
              dma_state' = IF display_finished THEN "INIT" ELSE "WAIT_DISPLAY"
  BY DmaCases
  DEF DmaINIT, DmaIDLE, DmaREAD_REQUEST, DmaREAD_DATA, DmaVERIFY_ADDRESS,
      DmaWAIT_DISPLAY

(* The numbers the counting is about. *)
LEMMA Numbers ==
  ASSUME TypeInv, SpaceInv
  PROVE  /\ IMG_WORD_LEN \in Nat /\ IMG_WORD_LEN > 0
         /\ REG_BURST_TOT \in Nat /\ REG_BURST_TOT > 0
         /\ WORD_LENGTH \in Nat /\ lpm_numwords \in Nat
         /\ burst_cnt \in Nat /\ burst_tot \in Nat /\ mem_left \in Nat
         /\ mem_addr \in Nat /\ current_address \in Nat /\ end_address \in Int
         /\ frame \in Nat /\ cnt \in Nat /\ cnt_cycles \in 0..5 /\ Len(fifo) \in Nat
         /\ dma_state \notin {"INIT", "IDLE"} => burst_tot = REG_BURST_TOT
         /\ dma_state = "READ_DATA" => mem_left = REG_BURST_TOT - burst_cnt
         /\ dma_state # "READ_DATA" => mem_left = 0
         /\ Len(fifo) + mem_left <= lpm_numwords
  <1>1. /\ IMG_WORD_LEN \in Nat /\ IMG_WORD_LEN > 0
        /\ REG_BURST_TOT \in Nat /\ REG_BURST_TOT > 0
        /\ WORD_LENGTH \in Nat /\ lpm_numwords \in Nat
    BY FrameAssumption, ProgramAssumption, WordAssumption, FIFOAssumption
  <1>2. /\ burst_cnt \in Nat /\ burst_tot \in Nat
        /\ current_address \in Nat /\ end_address \in Int
    BY DEF TypeInv, TypeOK, DmaTypeOK
  <1>3. cnt \in Nat /\ cnt_cycles \in 0..5
    BY DEF TypeInv, TypeOK, LT24TypeOK
  <1>4. mem_left \in Nat /\ mem_addr \in Nat /\ frame \in Nat
    BY DEF TypeInv, TypeOK
  <1>5. Len(fifo) \in Nat
    <2>1. fifo \in Seq(Nat)
      BY DEF TypeInv, TypeOK, FifoTypeOK
    <2>2. QED
      BY <2>1
  <1>6. dma_state \notin {"INIT", "IDLE"} => burst_tot = REG_BURST_TOT
    BY DEF SpaceInv, BurstSettled, Started
  <1>7. /\ dma_state = "READ_DATA" => mem_left = REG_BURST_TOT - burst_cnt
        /\ dma_state # "READ_DATA" => mem_left = 0
    BY <1>6 DEF SpaceInv, BurstCounted
  <1>8. Len(fifo) + mem_left <= lpm_numwords
    BY DEF SpaceInv, ReservedSpace
  <1>9. QED
    BY <1>1, <1>2, <1>3, <1>4, <1>5, <1>6, <1>7, <1>8

LEMMA MultipleIsNatural ==
  ASSUME NEW n \in Nat, NEW m \in Nat
  PROVE  n * m \in Nat
  OBVIOUS

LEMMA OneBurstLess ==
  ASSUME NEW n \in Nat, NEW m \in Nat, n # 0
  PROVE  n - 1 \in Nat /\ (n - 1) * m = n * m - m
  OBVIOUS

(* A word of the frame is left until the DMA has reached WAIT_DISPLAY.     *)
LEMMA LastPixelServed ==
  ASSUME Board, TypeInv, SpaceInv, HandshakeInv, AddressInv, CountInv,
         Showing, LastPixel
  PROVE  dma_state = "WAIT_DISPLAY" /\ Len(fifo) = 0
  <1>1. Serving /\ dma_state \notin {"INIT", "IDLE"}
    BY DEF HandshakeInv, Serving, Showing
  <1>2. Taken = IMG_WORD_LEN
    BY Numbers DEF LastPixel, Taken
  <1>3. /\ 4 * (IMG_WORD_LEN + Len(fifo)) = current_address - frame + 4 * Arrived
        /\ end_address = frame + 4 * IMG_WORD_LEN - 4 * REG_BURST_TOT
    BY <1>1, <1>2 DEF CountInv, AddressInv, Board, BUFFER_LENGTH
  <1>4. dma_state \in {"READ_REQUEST", "READ_DATA", "VERIFY_ADDRESS"} =>
          current_address <= end_address
    <2> SUFFICES ASSUME WholeBursts PROVE current_address <= end_address
      BY DEF AddressInv
    <2>1. PICK n \in Nat : end_address - current_address = n * (4 * REG_BURST_TOT)
      BY DEF WholeBursts
    <2>2. 4 * REG_BURST_TOT \in Nat
      BY Numbers
    <2>3. n * (4 * REG_BURST_TOT) \in Nat
      BY <2>2, MultipleIsNatural
    <2>4. QED
      BY <2>1, <2>3, Numbers
  <1>10. /\ IMG_WORD_LEN \in Nat /\ REG_BURST_TOT \in Nat /\ REG_BURST_TOT > 0
         /\ burst_cnt \in Nat /\ current_address \in Nat /\ end_address \in Int
         /\ frame \in Nat /\ Len(fifo) \in Nat
         /\ dma_state = "READ_DATA" => burst_cnt <= REG_BURST_TOT
    BY Numbers
  <1>5. ASSUME dma_state = "READ_REQUEST" PROVE FALSE
    <2>1. Arrived = 0
      BY <1>5 DEF Arrived
    <2>2. current_address <= end_address
      BY <1>4, <1>5
    <2>3. QED
      BY <1>3, <1>10, <2>1, <2>2
  <1>6. ASSUME dma_state = "READ_DATA" PROVE FALSE
    <2>1. Arrived = burst_cnt
      BY <1>6 DEF Arrived
    <2>2. burst_cnt = REG_BURST_TOT => Len(fifo) > 0
      BY <1>6 DEF CountInv
    <2>3. current_address <= end_address
      BY <1>4, <1>6
    <2>4. QED
      BY <1>3, <1>6, <1>10, <2>1, <2>2, <2>3
  <1>7. ASSUME dma_state = "VERIFY_ADDRESS" PROVE FALSE
    <2>1. Arrived = REG_BURST_TOT
      BY <1>7 DEF Arrived
    <2>2. Len(fifo) > 0
      BY <1>7 DEF CountInv, LastPixel
    <2>3. current_address <= end_address
      BY <1>4, <1>7
    <2>4. QED
      BY <1>3, <1>10, <2>1, <2>2, <2>3
  <1>8. dma_state = "WAIT_DISPLAY"
    BY <1>1, <1>5, <1>6, <1>7 DEF TypeInv, TypeOK, DmaTypeOK, MASTER_DMA_STATES
  <1>9. QED
    BY <1>3, <1>8, Numbers DEF Arrived, AddressInv, BUFFER_LENGTH

LEMMA HandshakeCycle ==
  ASSUME Board, TypeInv, SpaceInv, PowerInv, PhaseInv, HandshakeInv, AddressInv,
         CountInv, NEW acc \in Accesses, NEW waitrequest, NEW valid,
         Cycle(acc, waitrequest, valid)
  PROVE  HandshakeInv'
  <1>0. dma_state \in MASTER_DMA_STATES
    BY DEF TypeInv, TypeOK, DmaTypeOK
  <1>1. CASE Idle
    <2>1. lt_state = "INIT" /\ lt_state' = "INIT" /\ ~start_out /\ ~display_finished'
      BY <1>1, LtFirst, IdleCycle DEF Idle, TYPE_NO_OP, TYPE_CMD, TYPE_DATA
    <2>2. ~Serving' /\ ~Transferring
      BY <2>1 DEF Serving, Transferring
    <2>3. CASE display_finished
      <3>1. dma_state' = "INIT"
        BY <2>3, DmaStates DEF HandshakeInv
      <3>2. gap > 0 /\ ~Sending
        BY <1>1, <2>3, ProgramAssumption DEF Idle, Board
      <3>3. ~Sending' /\ ~Hands(acc)
        BY <3>2, ProgramCases DEF Rests, Configures, Loads, Hands, Sending
      <3>4. Idle'
        BY <1>1, <3>3, IdleCycle
      <3>5. QED
        BY <2>1, <2>2, <3>1, <3>3, <3>4 DEF HandshakeInv
    <2>4. CASE ~display_finished
      <3>1. dma_state' = "IDLE"
        BY <2>1, <2>2, <2>4, DmaStates DEF HandshakeInv, Serving
      <3>2. QED
        BY <2>1, <2>2, <3>1 DEF HandshakeInv
    <2>5. QED
      BY <2>3, <2>4
  <1>2. CASE Sent \/ Passed \/ Writing
    <2>1. dma_state = "IDLE" /\ ~Transferring
      BY <1>2, PhasesExclude
      DEF HandshakeInv, Serving, Sent, Passed, Writing, NoFlags, Transferring
    <2>2. CASE Writing /\ cnt_cycles = 3 /\ OpensDisplay
      <3>1. start_out /\ Showing'
        BY <1>2, <2>2, WritingCycle DEF Writing
      <3>2. dma_state' = "READ_REQUEST" /\ Transferring' /\ ~display_finished'
        BY <2>1, <3>1, DmaStates DEF Showing
      <3>3. QED
        BY <3>2 DEF HandshakeInv, Serving
    <2>3. CASE ~(Writing /\ cnt_cycles = 3 /\ OpensDisplay)
      <3>1. ~start_out
        BY <1>2, <2>3 DEF Sent, Passed, Writing, NoFlags
      <3>2. lt_state' \in {"INIT", "WRITE_CMD", "WRITE_DATA"} /\ ~display_finished'
        <4>1. CASE Sent
          BY <4>1, SentCycle DEF Passed, NoFlags
        <4>2. CASE Passed
          BY <4>2, PassedCycle DEF Writing
        <4>3. CASE Writing
          <5>1. cnt_cycles \in 0..3
            BY <4>3 DEF TypeInv, TypeOK, LT24TypeOK, CounterInv, Writing
          <5>2. QED
            BY <2>3, <4>3, <5>1, WritingCycle DEF Writing, Idle
        <4>4. QED
          BY <1>2, <4>1, <4>2, <4>3
      <3>3. dma_state' = "IDLE" /\ ~Transferring'
        BY <2>1, <3>1, <3>2, DmaStates DEF Transferring
      <3>4. QED
        BY <3>2, <3>3 DEF HandshakeInv, Serving
    <2>4. QED
      BY <2>2, <2>3
  <1>3. CASE Showing
    <2>1. ~display_finished /\ dma_state \notin {"INIT", "IDLE"}
      BY <1>3 DEF Showing, HandshakeInv, Serving
    <2>2. dma_state' \notin {"INIT", "IDLE"}
      BY <1>0, <2>1, DmaStates DEF MASTER_DMA_STATES
    <2>3. CASE ~LastPixel
      <3>1. Showing'
        BY <1>3, <2>3, ShowingCycle
      <3>2. QED
        BY <2>2, <3>1 DEF HandshakeInv, Serving, Showing
    <2>4. CASE LastPixel
      <3>1. dma_state' = "WAIT_DISPLAY"
        BY <1>3, <2>1, <2>4, LastPixelServed, DmaStates
      <3>2. display_finished' /\ cnt' = IMG_WORD_LEN
        BY <1>3, <2>4, LtDisplay
      <3>3. QED
        BY <3>1, <3>2 DEF HandshakeInv, Serving
    <2>5. QED
      BY <2>3, <2>4
  <1>4. QED
    BY <1>1, <1>2, <1>3 DEF PhaseInv

-----------------------------------------------------------------------------
(* The address of the frame, and the bursts up to its end.                 *)

(* The frame changes only when the program hands over a word. *)
LEMMA FrameUpdate ==
  ASSUME NEW acc \in Accesses, NEW waitrequest, NEW valid,
         Cycle(acc, waitrequest, valid)
  PROVE  /\ ~Hands(acc) => frame' = frame
         /\ Hands(acc) =>
              frame' = IF pc = "command" /\ word = CMD_DISPLAY
                       THEN reg["StartAddress"] ELSE frame
  <1>1. StreamTick(acc)
    BY DEF Cycle
  <1>2. ~Hands(acc) => ~Issues(acc)
    BY ProgramCases
    DEF Issues, Writes, Rests, Configures, Loads, NoAccess, Write
  <1>3. Hands(acc) => Issues(acc) /\ (Kind(acc) = "command" <=> pc = "command")
    BY DEF Hands, Issues, Writes, Write, Kind, TYPE_CMD, TYPE_DATA
  <1>4. QED
    BY <1>1, <1>2, <1>3 DEF StreamTick

LEMMA FrameCycle ==
  ASSUME Board, TypeInv, PowerInv, PhaseInv, FrameInv, NEW acc \in Accesses,
         NEW waitrequest, NEW valid, Cycle(acc, waitrequest, valid)
  PROVE  FrameInv'
  <1>1. /\ pc = "RegStartAddress" /\ pc' # pc =>
             \E a \in StartAddresses : acc = Write("StartAddress", a)
        /\ pc' \notin {"LCD_turn_on", "RegStartAddress"} => pc # "LCD_turn_on"
    BY DEF Cycle, ProgramTick, LCD_turn_on, LCD_write_registers, Reconfigure,
           LCD_configure, LCD_display, LCD_write_command, LCD_write_data,
           WriteCmdData, WriteCmdOrData, Compute, Access
  <1>2. Writes(acc, "StartAddress") => acc.data \in StartAddresses
    BY DEF Accesses, Writes, Write, Read, NoAccess
  <1>3. /\ reg'["StartAddress"] = IF Writes(acc, "StartAddress") THEN acc.data
                                  ELSE reg["StartAddress"]
        /\ out'["StartAddress"] = reg["StartAddress"]
    BY RegisterUpdate DEF Registers
  <1>4. pc' \notin {"LCD_turn_on", "RegStartAddress"} =>
          reg'["StartAddress"] \in StartAddresses
    <2>1. \A a : Writes(Write("StartAddress", a), "StartAddress")
      BY DEF Writes, Write
    <2>2. QED
      BY <1>1, <1>2, <1>3, <2>1 DEF FrameInv
  <1>5. Rests(acc) => /\ reg'["StartAddress"] = reg["StartAddress"] /\ word' = word
                      /\ frame' = frame
    BY <1>3, FrameUpdate DEF Rests, NoAccess, Writes, Hands, Write
  <1>6. CASE Idle
    <2>1. ~Passed' /\ ~Writing'
      <3>1. Idle' \/ Sent'
        BY <1>6, IdleCycle
      <3>2. QED
        BY <3>1
        DEF Idle, Sent, Passed, Writing, TYPE_NO_OP, TYPE_CMD, TYPE_DATA, InRegisters
    <2>2. ASSUME Sent', reg'["CmdOrData"] = TYPE_CMD, word' = CMD_DISPLAY
          PROVE  reg'["StartAddress"] = frame'
      <3>1. Hands(acc)
        BY <1>6, <2>2, IdleCycle DEF Idle, Sent, InRegisters, TYPE_NO_OP, TYPE_CMD, TYPE_DATA
      <3>2. ~cmd_data_ready
        BY <1>6, <3>1 DEF Idle, Hands, Sending
      <3>3. reg'["CmdOrData"] = acc.data /\ word' = word
        BY <3>1, <3>2, RegisterUpdate DEF Hands, Writes, Write, Registers
      <3>4. pc = "command"
        BY <2>2, <3>1, <3>3 DEF Hands, Write, TYPE_CMD, TYPE_DATA
      <3>5. frame' = reg["StartAddress"]
        BY <2>2, <3>1, <3>3, <3>4, FrameUpdate
      <3>6. QED
        BY <1>3, <3>1, <3>5 DEF Hands, Writes, Write
    <2>3. QED
      BY <1>4, <2>1, <2>2 DEF FrameInv
  <1>7. CASE Sent
    <2>1. Passed' /\ Rests(acc) /\ ~Sent' /\ ~Writing'
      BY <1>7, SentCycle DEF Passed, Sent, Writing, InRegisters, TYPE_NO_OP,
         TYPE_CMD, TYPE_DATA
    <2>2. reg'["CmdOrData"] = reg["CmdOrData"]
      BY <1>7, <2>1, RegisterUpdate
      DEF Sent, NoFlags, Rests, NoAccess, Writes, Registers
    <2>3. QED
      BY <1>3, <1>4, <1>5, <1>7, <2>1, <2>2 DEF FrameInv
  <1>8. CASE Passed
    <2>1. /\ Writing' /\ Rests(acc) /\ ~Sent' /\ ~Passed'
          /\ OpensDisplay' => reg["CmdOrData"] = TYPE_CMD
      BY <1>8, PassedCycle DEF Passed, Sent, Writing, OpensDisplay
    <2>2. QED
      BY <1>3, <1>4, <1>5, <1>8, <2>1 DEF FrameInv, OpensDisplay
  <1>9. CASE Writing
    <2>1. Rests(acc) /\ (OpensDisplay' /\ Writing' => OpensDisplay)
      <3>1. cnt_cycles \in 0..3
        BY <1>9 DEF TypeInv, TypeOK, LT24TypeOK, CounterInv, Writing
      <3>2. QED
        BY <1>9, <3>1, WritingCycle DEF OpensDisplay, Rests, Idle, Showing, Writing
    <2>2. ~Sent' /\ ~Passed'
      <3>1. cnt_cycles \in 0..3
        BY <1>9 DEF TypeInv, TypeOK, LT24TypeOK, CounterInv, Writing
      <3>2. Writing' \/ Idle' \/ Showing'
        BY <1>9, <3>1, WritingCycle
      <3>3. QED
        BY <3>2 DEF Idle, Sent, Passed, Writing, Showing, InRegisters,
           Transferring, TYPE_NO_OP, TYPE_CMD, TYPE_DATA
    <2>3. QED
      BY <1>3, <1>4, <1>5, <1>9, <2>1, <2>2 DEF FrameInv
  <1>10. CASE Showing
    <2>1. Showing' \/ Idle'
      BY <1>10, ShowingCycle
    <2>2. ~Sent' /\ ~Passed' /\ ~Writing'
      BY <2>1 DEF Idle, Sent, Passed, Writing, Showing, InRegisters,
         Transferring, TYPE_NO_OP, TYPE_CMD, TYPE_DATA
    <2>3. QED
      BY <1>4, <2>2 DEF FrameInv
  <1>11. QED
    BY <1>6, <1>7, <1>8, <1>9, <1>10 DEF PhaseInv

(* The DMA starts with the frame ahead of it and goes through it burst by  *)
(* burst.                                                                  *)
LEMMA AddressCycle ==
  ASSUME Board, TypeInv, SpaceInv, PowerInv, PhaseInv, HandshakeInv, FrameInv,
         AddressInv, NEW acc \in Accesses, NEW waitrequest, NEW valid,
         Cycle(acc, waitrequest, valid), HandshakeInv'
  PROVE  AddressInv'
  <1>1. /\ IMG_WORD_LEN \in Nat /\ IMG_WORD_LEN > 0
        /\ REG_BURST_TOT \in Nat /\ REG_BURST_TOT > 0
        /\ current_address \in Nat /\ end_address \in Int /\ frame \in Nat
        /\ WORD_LENGTH = 4 * REG_BURST_TOT
    BY Numbers DEF Board
  <1>2. CASE ~Serving'
    BY <1>2 DEF AddressInv, HandshakeInv
  <1>3. CASE ~Serving /\ Serving'
    <2>1. dma_state' = "READ_REQUEST" /\ dma_state = "IDLE" /\ start_out
      BY <1>3, DmaStates DEF HandshakeInv, TypeInv, TypeOK, DmaTypeOK, MASTER_DMA_STATES
    <2>2. Writing /\ OpensDisplay /\ Rests(acc)
      <3>1. Writing /\ OpensDisplay
        BY <1>3, <2>1
        DEF PhaseInv, Idle, Sent, Passed, Writing, Showing, NoFlags, Serving
      <3>2. QED
        BY <3>1, WritingCycle
    <2>3. frame' = frame /\ out["StartAddress"] = frame
      BY <2>2, FrameUpdate DEF FrameInv, Rests, Hands, Write, NoAccess
    <2>4. current_address' = frame /\ end_address' = frame + BUFFER_LENGTH - WORD_LENGTH
      BY <2>1, <2>3, DmaCases DEF DmaIDLE
    <2>5. WholeBursts'
      <3>1. PICK n \in Nat : IMG_WORD_LEN = n * REG_BURST_TOT
        BY DEF Board
      <3>2. n # 0
        BY <1>1, <3>1
      <3>3. n - 1 \in Nat /\ (n - 1) * (4 * REG_BURST_TOT) = n * (4 * REG_BURST_TOT) - 4 * REG_BURST_TOT
        <4>1. 4 * REG_BURST_TOT \in Nat
          BY <1>1
        <4>2. QED
          BY <3>2, <4>1, OneBurstLess
      <3>4. n * (4 * REG_BURST_TOT) = 4 * IMG_WORD_LEN
        BY <1>1, <3>1
      <3>5. end_address' - current_address' = (n - 1) * (4 * REG_BURST_TOT)
        BY <1>1, <2>4, <3>3, <3>4 DEF BUFFER_LENGTH
      <3>6. QED
        BY <3>3, <3>5 DEF WholeBursts
    <2>6. QED
      BY <1>1, <2>1, <2>3, <2>4, <2>5 DEF AddressInv
  <1>4. CASE Serving /\ Serving'
    <2>1. dma_state \notin {"INIT", "IDLE"} /\ dma_state' \notin {"INIT", "IDLE"}
      BY <1>4 DEF HandshakeInv
    <2>2. Showing
      <3>1. ~display_finished
        BY <2>1, DmaStates DEF HandshakeInv
      <3>2. QED
        BY <1>4, <3>1, PhasesExclude
        DEF PhaseInv, Serving, Idle, Sent, Passed, Writing, Transferring
    <2>3. frame' = frame
      BY <2>2, ShowingCycle, FrameUpdate
      DEF Rests, Configures, Hands, Write, NoAccess
    <2>4. end_address' = end_address
      BY <2>1, DmaCases
      DEF DmaREAD_REQUEST, DmaREAD_DATA, DmaVERIFY_ADDRESS, DmaWAIT_DISPLAY,
          TypeInv, TypeOK, DmaTypeOK, MASTER_DMA_STATES
    <2>5. CASE dma_state \in {"READ_REQUEST", "READ_DATA"}
      <3>1. current_address' = current_address /\ dma_state' # "WAIT_DISPLAY"
        BY <2>5, DmaCases, DmaStates DEF DmaREAD_REQUEST, DmaREAD_DATA
      <3>2. QED
        BY <1>4, <2>3, <2>4, <2>5, <3>1 DEF AddressInv, WholeBursts
    <2>6. CASE dma_state = "VERIFY_ADDRESS"
      <3>1. /\ current_address' = current_address + 4 * REG_BURST_TOT
            /\ dma_state' = IF current_address = end_address THEN "WAIT_DISPLAY"
                            ELSE "READ_REQUEST"
        BY <2>6, DmaCases, Numbers DEF DmaVERIFY_ADDRESS
      <3>2. CASE current_address = end_address
        BY <1>1, <1>4, <2>3, <2>4, <3>1, <3>2 DEF AddressInv, BUFFER_LENGTH
      <3>3. CASE current_address # end_address
        <4>1. PICK n \in Nat : end_address - current_address = n * (4 * REG_BURST_TOT)
          BY <2>6 DEF AddressInv, WholeBursts
        <4>2. n # 0
          BY <1>1, <3>3, <4>1
        <4>3. n - 1 \in Nat /\ (n - 1) * (4 * REG_BURST_TOT) = n * (4 * REG_BURST_TOT) - 4 * REG_BURST_TOT
          <5>1. 4 * REG_BURST_TOT \in Nat
            BY <1>1
          <5>2. QED
            BY <4>2, <5>1, OneBurstLess
        <4>4. end_address' - current_address' = (n - 1) * (4 * REG_BURST_TOT)
          BY <1>1, <2>4, <3>1, <4>1, <4>3
        <4>5. WholeBursts'
          BY <4>3, <4>4 DEF WholeBursts
        <4>6. frame' <= current_address'
          BY <1>1, <2>3, <2>6, <3>1 DEF AddressInv
        <4>7. QED
          BY <1>4, <2>3, <2>4, <3>1, <3>3, <4>5, <4>6 DEF AddressInv
      <3>4. QED
        BY <3>2, <3>3
    <2>7. CASE dma_state = "WAIT_DISPLAY"
      <3>1. dma_state' = "WAIT_DISPLAY" /\ current_address' = current_address
        BY <2>1, <2>7, DmaCases DEF DmaWAIT_DISPLAY
      <3>2. QED
        BY <1>4, <2>3, <2>4, <2>7, <3>1 DEF AddressInv
    <2>8. QED
      BY <2>1, <2>5, <2>6, <2>7 DEF TypeInv, TypeOK, DmaTypeOK, MASTER_DMA_STATES
  <1>5. QED
    BY <1>2, <1>3, <1>4

-----------------------------------------------------------------------------
(* The words in the FIFO.                                                  *)

Popped == IF FIFO_rdreq THEN 1 ELSE 0
Pushed(valid) == IF FIFO_wrreq(valid) THEN 1 ELSE 0

(* What a cycle does to the FIFO unless the DMA clears it. *)
LEMMA FifoStep ==
  ASSUME TypeInv, SpaceInv, NEW acc, NEW waitrequest, NEW valid,
         Cycle(acc, waitrequest, valid), dma_state' # "IDLE",
         FIFO_rdreq => Len(fifo) > 0
  PROVE  /\ Len(fifo') = Len(fifo) - Popped + Pushed(valid)
         /\ \A i \in 1..Len(fifo') :
              fifo'[i] = IF i <= Len(fifo) - Popped THEN fifo[i + Popped] ELSE mem_addr
         /\ FIFO_q' = IF FIFO_rdreq THEN fifo[1] ELSE FIFO_q
         /\ ~FIFO_empty' => Len(fifo) - Popped > 0
  <1> DEFINE popped == IF FIFO_rdreq /\ fifo # <<>> THEN Tail(fifo) ELSE fifo
  <1>1. fifo \in Seq(Nat) /\ mem_addr \in Nat
    BY DEF TypeInv, TypeOK, FifoTypeOK
  <1>2. FifoClock(FIFO_rdreq, FIFO_wrreq(valid), mem_addr)
    BY DEF Cycle
  <1>3. /\ popped \in Seq(Nat) /\ Len(popped) = Len(fifo) - Popped
        /\ \A i \in 1..Len(popped) : popped[i] = fifo[i + Popped]
    <2>1. CASE FIFO_rdreq
      <3>1. popped = Tail(fifo) /\ Popped = 1 /\ fifo # <<>>
        BY <1>1, <2>1 DEF Popped
      <3>2. /\ Tail(fifo) \in Seq(Nat) /\ Len(Tail(fifo)) = Len(fifo) - 1
            /\ \A i \in 1..Len(fifo) - 1 : Tail(fifo)[i] = fifo[i + 1]
        BY <1>1, <3>1
      <3> HIDE DEF popped
      <3>3. QED
        BY <3>1, <3>2
    <2>2. CASE ~FIFO_rdreq
      <3>1. popped = fifo /\ Popped = 0
        BY <2>2 DEF Popped
      <3> HIDE DEF popped
      <3>2. QED
        BY <1>1, <3>1
    <2>3. QED
      BY <2>1, <2>2
  <1>4. FIFO_wrreq(valid) => Len(fifo) < lpm_numwords
    BY Numbers DEF FIFO_wrreq, Cycle
  <1>5. fifo' = IF FIFO_wrreq(valid) THEN Append(popped, mem_addr) ELSE popped
    BY <1>2, <1>4 DEF FifoClock
  <1>6. FIFO_q' = IF FIFO_rdreq THEN fifo[1] ELSE FIFO_q
    BY <1>1, <1>2 DEF FifoClock
  <1>7. FIFO_empty' = (popped = <<>>)
    BY <1>2 DEF FifoClock
  <1> HIDE DEF popped
  <1>8. ~FIFO_empty' => Len(popped) > 0
    <2>1. ~FIFO_empty' => popped # <<>>
      BY <1>7
    <2>2. popped # <<>> => Len(popped) > 0
      BY <1>3
    <2>3. QED
      BY <2>1, <2>2
  <1>9. /\ Len(fifo') = Len(popped) + Pushed(valid)
        /\ \A i \in 1..Len(fifo') :
             fifo'[i] = IF i <= Len(popped) THEN popped[i] ELSE mem_addr
    <2>1. CASE FIFO_wrreq(valid)
      <3>1. fifo' = Append(popped, mem_addr) /\ Pushed(valid) = 1
        BY <1>5, <2>1 DEF Pushed
      <3>2. /\ Len(Append(popped, mem_addr)) = Len(popped) + 1
            /\ \A i \in 1..Len(popped) : Append(popped, mem_addr)[i] = popped[i]
            /\ Append(popped, mem_addr)[Len(popped) + 1] = mem_addr
        BY <1>1, <1>3
      <3>3. Len(popped) \in Nat
        BY <1>3
      <3>4. QED
        BY <3>1, <3>2, <3>3
    <2>2. CASE ~FIFO_wrreq(valid)
      <3>1. fifo' = popped /\ Pushed(valid) = 0 /\ Len(popped) \in Nat
        BY <1>3, <1>5, <2>2 DEF Pushed
      <3>2. QED
        BY <3>1
    <2>3. QED
      BY <2>1, <2>2
  <1>10. /\ Popped \in 0..1 /\ Pushed(valid) \in 0..1 /\ Len(popped) \in Nat
         /\ Len(fifo) \in Nat
    BY <1>1, <1>3 DEF Popped, Pushed
  <1>11. \A i \in 1..Len(fifo') :
           fifo'[i] = IF i <= Len(fifo) - Popped THEN fifo[i + Popped] ELSE mem_addr
    BY <1>3, <1>9, <1>10
  <1>12. QED
    BY <1>3, <1>6, <1>8, <1>9, <1>11

(* A word is taken in the first cycle of DISPLAY and in no other. *)
LEMMA TakenCycle ==
  ASSUME Board, TypeInv, Showing, NEW acc \in Accesses, NEW waitrequest,
         NEW valid, Cycle(acc, waitrequest, valid)
  PROVE  /\ Taken' = Taken + Popped /\ Taken \in Nat
         /\ FIFO_rdreq <=> lt_state = "DISPLAY" /\ cnt_cycles = 0
  <1>1. /\ lt_state \in {"WAIT_TRANSFER", "CHECK_FIFO", "DISPLAY", "CHECK_TRANSFER"}
        /\ FIFO_rdreq <=> lt_state = "DISPLAY" /\ cnt_cycles = 0
    BY DEF Showing, Transferring
  <1>2. cnt \in Nat /\ cnt_cycles \in 0..5 /\ IMG_WORD_LEN \in Nat
    BY FrameAssumption DEF TypeInv, TypeOK, LT24TypeOK
  <1>3. CASE lt_state \in {"WAIT_TRANSFER", "CHECK_FIFO"}
    <2>1. Taken = cnt /\ Popped = 0
      BY <1>1, <1>3 DEF Taken, Popped
    <2>2. /\ cnt' = cnt /\ cnt_cycles' = 0
          /\ lt_state' \in {"WAIT_TRANSFER", "CHECK_FIFO", "DISPLAY"}
      BY <1>3, LtDisplay
    <2>3. Taken' = cnt'
      BY <2>2 DEF Taken
    <2>4. QED
      BY <1>1, <1>2, <2>1, <2>2, <2>3
  <1>4. CASE lt_state = "DISPLAY"
    <2>1. Taken + Popped = cnt + 1 /\ Taken \in Nat
      BY <1>1, <1>2, <1>4 DEF Taken, Popped
    <2>2. /\ lt_state' = IF cnt_cycles < 4 THEN "DISPLAY" ELSE "CHECK_TRANSFER"
          /\ cnt_cycles' = IF cnt_cycles < 4 THEN cnt_cycles + 1 ELSE 0
          /\ cnt' = cnt
      BY <1>4, LtDisplay
    <2>3. Taken' = cnt + 1
      BY <1>2, <2>2 DEF Taken
    <2>4. QED
      BY <1>1, <2>1, <2>3
  <1>5. CASE lt_state = "CHECK_TRANSFER"
    <2>1. Taken = cnt + 1 /\ Popped = 0
      BY <1>1, <1>5 DEF Taken, Popped
    <2>2. CASE ~LastPixel
      <3>1. lt_state' \in {"CHECK_FIFO", "DISPLAY"} /\ cnt' = cnt + 1 /\ cnt_cycles' = 0
        BY <1>5, <2>2, LtDisplay
      <3>2. Taken' = cnt + 1
        BY <3>1 DEF Taken
      <3>3. QED
        BY <1>1, <1>2, <2>1, <3>2
    <2>3. CASE LastPixel
      <3>1. lt_state' = "INIT" /\ cnt' = IMG_WORD_LEN /\ cnt = IMG_WORD_LEN - 1
        BY <2>3, LtDisplay DEF LastPixel
      <3>2. Taken' = IMG_WORD_LEN
        BY <3>1 DEF Taken
      <3>3. QED
        BY <1>1, <1>2, <2>1, <3>1, <3>2
    <2>4. QED
      BY <2>2, <2>3
  <1>6. QED
    BY <1>1, <1>3, <1>4, <1>5

(* Outside of a frame the FIFO is empty and stays so. *)
LEMMA EmptyCycle ==
  ASSUME Board, TypeInv, SpaceInv, PhaseInv, HandshakeInv, AddressInv, CountInv,
         ~Showing, NEW acc \in Accesses, NEW waitrequest, NEW valid,
         Cycle(acc, waitrequest, valid)
  PROVE  /\ ~FIFO_rdreq /\ ~Transferring
         /\ dma_state \notin {"READ_REQUEST", "READ_DATA", "VERIFY_ADDRESS"}
         /\ Len(fifo) = 0 /\ Len(fifo') = 0 /\ FIFO_empty'
  <1>0. /\ Len(fifo) \in Nat /\ IMG_WORD_LEN \in Nat /\ frame \in Nat
        /\ current_address \in Nat
    BY Numbers
  <1>1. ~FIFO_rdreq /\ ~Transferring
    BY PhasesExclude
    DEF PhaseInv, Idle, Sent, Passed, Writing, NoFlags, Transferring
  <1>2. dma_state \notin {"READ_REQUEST", "READ_DATA", "VERIFY_ADDRESS"}
    BY <1>1 DEF HandshakeInv, Serving
  <1>3. Len(fifo) = 0
    <2>1. CASE ~Serving
      BY <2>1 DEF CountInv
    <2>2. CASE Serving
      <3>1. display_finished /\ dma_state = "WAIT_DISPLAY" /\ cnt = IMG_WORD_LEN
        BY <1>1, <2>2 DEF Serving, HandshakeInv
      <3>2. lt_state = "INIT"
        BY <3>1 DEF PhaseInv, Idle, Sent, Passed, Writing, NoFlags
      <3>3. Taken = IMG_WORD_LEN /\ Arrived = 0
        BY <3>1, <3>2 DEF Taken, Arrived
      <3>4. current_address = frame + 4 * IMG_WORD_LEN
        BY <3>1 DEF AddressInv, BUFFER_LENGTH
      <3>5. QED
        BY <1>0, <2>2, <3>3, <3>4 DEF CountInv
    <2>3. QED
      BY <2>1, <2>2
  <1>4. Len(fifo') = 0 /\ FIFO_empty'
    <2>1. CASE dma_state' = "IDLE"
      BY <2>1 DEF Cycle, FifoClear
    <2>2. CASE dma_state' # "IDLE"
      <3>1. Popped = 0 /\ Pushed(valid) = 0
        BY <1>1, <1>2 DEF Popped, Pushed, FIFO_wrreq
      <3>2. QED
        BY <1>0, <1>1, <1>3, <2>2, <3>1, FifoStep
    <2>3. QED
      BY <2>1, <2>2
  <1>5. QED
    BY <1>1, <1>2, <1>3, <1>4

LEMMA CountCycle ==
  ASSUME Board, TypeInv, SpaceInv, PowerInv, PhaseInv, HandshakeInv, FrameInv,
         AddressInv, CountInv, NEW acc \in Accesses, NEW waitrequest,
         NEW valid, Cycle(acc, waitrequest, valid), HandshakeInv'
  PROVE  CountInv'
  <1>1. /\ Len(fifo) \in Nat /\ REG_BURST_TOT \in Nat /\ REG_BURST_TOT > 0
        /\ IMG_WORD_LEN \in Nat /\ frame \in Nat /\ current_address \in Nat
        /\ burst_cnt \in Nat
    BY Numbers
  <1>2. CASE Showing
    <2>1. dma_state \notin {"INIT", "IDLE"} /\ Serving
      BY <1>2 DEF Showing, HandshakeInv, Serving
    <2>2. dma_state' \notin {"INIT", "IDLE"}
      BY <1>2, <2>1, DmaStates
      DEF Showing, TypeInv, TypeOK, DmaTypeOK, MASTER_DMA_STATES
    <2>3. Serving'
      BY <2>2 DEF HandshakeInv
    <2>4. /\ Len(fifo') = Len(fifo) - Popped + Pushed(valid)
          /\ ~FIFO_empty' => Len(fifo) - Popped > 0
      BY <2>2, FifoStep DEF CountInv
    <2>5. /\ Taken' = Taken + Popped /\ Taken \in Nat
          /\ FIFO_rdreq <=> lt_state = "DISPLAY" /\ cnt_cycles = 0
      BY <1>2, TakenCycle
    <2>6. Popped \in 0..1 /\ Pushed(valid) \in 0..1
      BY DEF Popped, Pushed
    <2>7. ~FIFO_empty' => Len(fifo') > 0
      BY <1>1, <2>4, <2>6
    <2>8. FIFO_rdreq' => Len(fifo') > 0
      <3>1. FIFO_rdreq' => ~FIFO_empty /\ ~FIFO_rdreq
        BY <1>2, <2>5, LtDisplay DEF Showing, Transferring
      <3>2. QED
        BY <1>1, <2>4, <2>6, <3>1 DEF CountInv, Popped
    <2>9. frame' = frame
      BY <1>2, ShowingCycle, FrameUpdate
      DEF Rests, Configures, Hands, Write, NoAccess
    <2>10. /\ current_address' + 4 * Arrived' = current_address + 4 * Arrived + 4 * Pushed(valid)
           /\ dma_state' = "READ_DATA" /\ burst_cnt' = REG_BURST_TOT => Pushed(valid) = 1
           /\ dma_state' = "VERIFY_ADDRESS" => dma_state = "READ_DATA" /\ burst_cnt = REG_BURST_TOT
           /\ Arrived' \in Nat /\ Arrived \in Nat /\ current_address' \in Nat
      <3>1. CASE dma_state = "READ_REQUEST"
        <4>1. /\ current_address' = current_address /\ Arrived = 0 /\ Pushed(valid) = 0
              /\ dma_state' = "READ_DATA" => burst_cnt' = 0
              /\ dma_state' \in {"READ_REQUEST", "READ_DATA"}
          BY <3>1, DmaCases DEF DmaREAD_REQUEST, Arrived, Pushed, FIFO_wrreq
        <4>2. Arrived' = 0
          BY <4>1 DEF Arrived
        <4>3. QED
          BY <1>1, <4>1, <4>2
      <3>2. CASE dma_state = "READ_DATA"
        <4>1. DmaREAD_DATA(valid) /\ burst_tot = REG_BURST_TOT
          BY <3>2, DmaCases, Numbers
        <4>2. /\ current_address' = current_address
              /\ burst_cnt' = burst_cnt + Pushed(valid)
              /\ dma_state' = IF burst_cnt = REG_BURST_TOT THEN "VERIFY_ADDRESS" ELSE "READ_DATA"
          BY <1>1, <3>2, <4>1 DEF DmaREAD_DATA, Pushed, FIFO_wrreq
        <4>3. burst_cnt = REG_BURST_TOT => Pushed(valid) = 0
          BY <3>2, Numbers DEF Cycle, Pushed, FIFO_wrreq
        <4>4. Arrived = burst_cnt
          BY <3>2 DEF Arrived
        <4>5. Arrived' = burst_cnt + Pushed(valid)
          BY <1>1, <4>2, <4>3 DEF Arrived
        <4>6. QED
          BY <1>1, <2>6, <3>2, <4>2, <4>3, <4>4, <4>5
      <3>3. CASE dma_state = "VERIFY_ADDRESS"
        <4>1. /\ current_address' = current_address + 4 * REG_BURST_TOT
              /\ Arrived = REG_BURST_TOT /\ Pushed(valid) = 0
              /\ dma_state' \in {"WAIT_DISPLAY", "READ_REQUEST"}
          BY <3>3, DmaCases, DmaStates, Numbers DEF DmaVERIFY_ADDRESS, Arrived, Pushed, FIFO_wrreq
        <4>2. Arrived' = 0
          BY <4>1 DEF Arrived
        <4>3. QED
          BY <1>1, <4>1, <4>2
      <3>4. CASE dma_state = "WAIT_DISPLAY"
        <4>1. /\ current_address' = current_address /\ Arrived = 0 /\ Pushed(valid) = 0
              /\ dma_state' = "WAIT_DISPLAY"
          BY <1>2, <3>4, DmaCases, DmaStates
          DEF DmaWAIT_DISPLAY, Arrived, Pushed, FIFO_wrreq, Showing
        <4>2. Arrived' = 0
          BY <4>1 DEF Arrived
        <4>3. QED
          BY <1>1, <4>1, <4>2
      <3>5. QED
        BY <2>1, <3>1, <3>2, <3>3, <3>4 DEF TypeInv, TypeOK, DmaTypeOK, MASTER_DMA_STATES
    <2>11. 4 * (Taken' + Len(fifo')) = current_address' - frame' + 4 * Arrived'
      <3>1. 4 * (Taken + Len(fifo)) = current_address - frame + 4 * Arrived
        BY <2>1 DEF CountInv
      <3>2. /\ Taken' = Taken + Popped /\ Taken \in Nat
            /\ Len(fifo') = Len(fifo) - Popped + Pushed(valid)
            /\ current_address' + 4 * Arrived' = current_address + 4 * Arrived + 4 * Pushed(valid)
            /\ Arrived' \in Nat /\ Arrived \in Nat /\ current_address' \in Nat
        BY <2>4, <2>5, <2>10
      <3>3. /\ Taken \in Nat /\ Len(fifo) \in Nat /\ current_address \in Nat
            /\ frame \in Nat /\ Arrived \in Nat /\ Popped \in 0..1
            /\ Pushed(valid) \in 0..1 /\ current_address' \in Nat /\ Arrived' \in Nat
        BY <1>1, <2>6, <3>2
      <3>4. 4 * ((Taken + Popped) + (Len(fifo) - Popped + Pushed(valid)))
              = current_address' - frame + 4 * Arrived'
        <4> DEFINE p == Popped
                   q == Pushed(valid)
                   l == Len(fifo)
                   a == Arrived
                   b == Arrived'
                   c == current_address'
        <4>1. /\ Taken \in Nat /\ l \in Nat /\ current_address \in Nat
              /\ frame \in Nat /\ a \in Nat /\ p \in 0..1 /\ q \in 0..1
              /\ c \in Nat /\ b \in Nat
          BY <3>3
        <4>2. 4 * (Taken + l) = current_address - frame + 4 * a
          BY <3>1
        <4>3. c + 4 * b = current_address + 4 * a + 4 * q
          BY <3>2
        <4> HIDE DEF p, q, l, a, b, c
        <4>4. 4 * ((Taken + p) + (l - p + q)) = c - frame + 4 * b
          BY <4>1, <4>2, <4>3
        <4> QED BY <4>4 DEF p, q, l, a, b, c
      <3>5. QED
        BY <2>9, <3>2, <3>4
    <2>12. dma_state' = "READ_DATA" /\ burst_cnt' = REG_BURST_TOT => Len(fifo') > 0
      <3>1. Len(fifo) - Popped >= 0
        BY <1>1 DEF CountInv, Popped
      <3>2. QED
        BY <1>1, <2>4, <2>6, <2>10, <3>1
    <2>13. dma_state' = "VERIFY_ADDRESS" =>
             Len(fifo') > 0 \/ (lt_state' = "DISPLAY" /\ cnt_cycles' = 1)
      <3>1. dma_state' = "VERIFY_ADDRESS" => Len(fifo) > 0
        BY <2>10 DEF CountInv
      <3>2. FIFO_rdreq => lt_state' = "DISPLAY" /\ cnt_cycles' = 1
        BY <1>2, <2>5, LtDisplay
      <3>3. ~FIFO_rdreq => Popped = 0
        BY DEF Popped
      <3>4. QED
        BY <1>1, <2>4, <2>6, <3>1, <3>2, <3>3
    <2>14. QED
      BY <2>3, <2>7, <2>8, <2>11, <2>12, <2>13 DEF CountInv
  <1>3. CASE ~Showing
    <2>1. /\ ~FIFO_rdreq /\ ~Transferring
          /\ dma_state \notin {"READ_REQUEST", "READ_DATA", "VERIFY_ADDRESS"}
      BY <1>3, EmptyCycle
    <2>4. Len(fifo') = 0 /\ FIFO_empty'
      BY <1>3, EmptyCycle
    <2>5. ~FIFO_rdreq'
      <3>1. CASE Idle \/ Sent \/ Passed
        <4>1. lt_state = "INIT"
          BY <3>1 DEF Idle, Sent, Passed
        <4>2. NoFlags'
          BY <4>1, LtFirst
        <4>3. QED
          BY <4>2 DEF NoFlags
      <3>2. CASE Writing
        <4>1. lt_state = "WRITE_CMD" \/ lt_state = "WRITE_DATA"
          BY <3>2 DEF Writing
        <4>2. lt_state = "WRITE_CMD" => ~FIFO_rdreq'
          BY <3>2, LtCommand
        <4>3. lt_state = "WRITE_DATA" => ~FIFO_rdreq'
          BY <3>2, LtData
        <4>4. QED
          BY <4>1, <4>2, <4>3
      <3>3. QED
        BY <1>3, <3>1, <3>2 DEF PhaseInv
    <2>6. dma_state' \in {"INIT", "IDLE", "READ_REQUEST", "WAIT_DISPLAY"}
      BY <2>1, DmaStates DEF TypeInv, TypeOK, DmaTypeOK, MASTER_DMA_STATES
    <2>7. Serving' => 4 * (Taken' + Len(fifo')) = current_address' - frame' + 4 * Arrived'
      <3> SUFFICES ASSUME Serving'
                   PROVE  4 * (Taken' + Len(fifo')) = current_address' - frame' + 4 * Arrived'
        OBVIOUS
      <3>1. Writing /\ OpensDisplay /\ cnt_cycles = 3 /\ start_out
        <4>1. ~Idle
          <5>1. Idle => lt_state' = "INIT" /\ ~display_finished'
            BY LtFirst, IdleCycle DEF Idle, TYPE_NO_OP, TYPE_CMD, TYPE_DATA
          <5>2. QED
            BY <5>1 DEF Serving, Transferring
        <4>2. ~Sent /\ ~Passed
          BY SentCycle, PassedCycle DEF Serving, Transferring, Passed, Writing, NoFlags
        <4>3. Writing
          BY <1>3, <4>1, <4>2 DEF PhaseInv
        <4>4. cnt_cycles \in 0..3
          BY <4>3 DEF TypeInv, TypeOK, LT24TypeOK, CounterInv, Writing
        <4>5. cnt_cycles = 3 /\ OpensDisplay
          BY <4>3, <4>4, WritingCycle DEF Serving, Transferring, Writing, Idle
        <4>6. QED
          BY <4>3, <4>5 DEF Writing
      <3>2. dma_state = "IDLE"
        BY <2>1, <3>1 DEF HandshakeInv, Serving, Writing, Idle
      <3>3. /\ current_address' = out["StartAddress"] /\ out["StartAddress"] = frame
            /\ dma_state' = "READ_REQUEST"
        BY <3>1, <3>2, DmaCases DEF DmaIDLE, FrameInv
      <3>4. frame' = frame
        BY <3>1, WritingCycle, FrameUpdate DEF Rests, Hands, Write, NoAccess
      <3>5. lt_state' = "WAIT_TRANSFER" /\ cnt' = 0
        BY <3>1, WritingCycle DEF Showing
      <3>6. Taken' = 0 /\ Arrived' = 0
        BY <3>3, <3>5 DEF Taken, Arrived
      <3>7. QED
        BY <1>1, <2>4, <3>3, <3>4, <3>6
    <2>8. QED
      BY <2>4, <2>5, <2>6, <2>7 DEF CountInv
  <1>4. QED
    BY <1>2, <1>3
=============================================================================
