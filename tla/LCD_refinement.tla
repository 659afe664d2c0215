--------------------------- MODULE LCD_refinement ---------------------------
(***************************************************************************)
(* The LCD controller implements PanelStream, and what it rests on, from   *)
(* the lemmas of LCD_proofs: the order of the pixels, the delivery of the  *)
(* words, the inductive invariant DisplayInv, and the theorems that follow *)
(* from it.                                                                *)
(***************************************************************************)
EXTENDS LCD_proofs

-----------------------------------------------------------------------------
(* The words in the FIFO are the next pixels of the frame.                 *)

LEMMA FrameKept ==
  ASSUME Board, TypeInv, Showing, NEW acc \in Accesses, NEW waitrequest,
         NEW valid, Cycle(acc, waitrequest, valid)
  PROVE  frame' = frame
  BY ShowingCycle, FrameUpdate DEF Rests, Configures, Hands, Write, NoAccess

(* The SDRAM answers a burst word by word. *)
LEMMA MemoryCycle ==
  ASSUME Board, TypeInv, SpaceInv, OrderInv, NEW acc \in Accesses,
         NEW waitrequest, NEW valid, Cycle(acc, waitrequest, valid),
         dma_state' = "READ_DATA"
  PROVE  mem_addr' = current_address' + 4 * burst_cnt'
  <1>1. /\ mem_addr \in Nat /\ current_address \in Nat /\ burst_cnt \in Nat
        /\ MemoryTick(waitrequest, valid)
    BY Numbers DEF Cycle
  <1>2. dma_state \in {"READ_REQUEST", "READ_DATA"}
    BY DmaStates DEF TypeInv, TypeOK, DmaTypeOK, MASTER_DMA_STATES
  <1>3. CASE dma_state = "READ_REQUEST"
    <2>1. DmaREAD_REQUEST(waitrequest, FIFO_almost_full)
      BY <1>3, DmaCases
    <2>2. /\ current_address' = current_address /\ burst_cnt' = 0
          /\ am_read(FIFO_almost_full) /\ ~waitrequest
      BY <1>3, <2>1 DEF DmaREAD_REQUEST, am_read
    <2>3. mem_addr' = current_address
      BY <1>1, <2>2 DEF MemoryTick
    <2>4. QED
      BY <1>1, <2>2, <2>3
  <1>4. CASE dma_state = "READ_DATA"
    <2>1. DmaREAD_DATA(valid) /\ ~am_read(FIFO_almost_full)
      BY <1>4, DmaCases DEF am_read
    <2>2. /\ current_address' = current_address
          /\ burst_cnt' = IF valid THEN burst_cnt + 1 ELSE burst_cnt
      BY <2>1 DEF DmaREAD_DATA
    <2>3. mem_addr' = IF valid THEN mem_addr + 4 ELSE mem_addr
      BY <1>1, <2>1 DEF MemoryTick
    <2>4. mem_addr = current_address + 4 * burst_cnt
      BY <1>4 DEF OrderInv
    <2>5. QED
      BY <1>1, <2>2, <2>3, <2>4
  <1>5. QED
    BY <1>2, <1>3, <1>4

LEMMA OrderCycle ==
  ASSUME Board, TypeInv, SpaceInv, PhaseInv, HandshakeInv, AddressInv, CountInv,
         PinsInv, OrderInv, NEW acc \in Accesses, NEW waitrequest,
         NEW valid, Cycle(acc, waitrequest, valid), PhaseInv', HandshakeInv'
  PROVE  OrderInv'
  <1>1. dma_state' = "READ_DATA" => mem_addr' = current_address' + 4 * burst_cnt'
    BY MemoryCycle
  <1>2. CASE ~Showing
    <2>1. Len(fifo') = 0
      BY <1>2, EmptyCycle
    <2>2. lt_state' # "DISPLAY"
      <3>1. lt_state \in {"INIT", "WRITE_CMD", "WRITE_DATA"}
        BY <1>2 DEF PhaseInv, Idle, Sent, Passed, Writing
      <3>2. QED
        BY <3>1, LtCases DEF LtINIT, LtWRITE_CMD, LtWRITE_DATA
    <2>3. QED
      BY <1>1, <2>1, <2>2 DEF OrderInv
  <1>3. CASE Showing
    <2>1. /\ Len(fifo) \in Nat /\ frame \in Nat /\ current_address \in Nat
          /\ burst_cnt \in Nat /\ cnt \in Nat /\ cnt_cycles \in 0..5
      BY Numbers
    <2>2. dma_state' # "IDLE" /\ Serving
      BY <1>3, DmaStates
      DEF HandshakeInv, Showing, Serving, TypeInv, TypeOK, DmaTypeOK,
          MASTER_DMA_STATES
    <2>3. /\ Len(fifo') = Len(fifo) - Popped + Pushed(valid)
          /\ \A i \in 1..Len(fifo') :
               fifo'[i] = IF i <= Len(fifo) - Popped THEN fifo[i + Popped] ELSE mem_addr
          /\ FIFO_q' = IF FIFO_rdreq THEN fifo[1] ELSE FIFO_q
      BY <2>2, FifoStep DEF CountInv
    <2>4. /\ Taken' = Taken + Popped /\ Taken \in Nat
          /\ FIFO_rdreq <=> lt_state = "DISPLAY" /\ cnt_cycles = 0
      BY <1>3, TakenCycle
    <2>5. frame' = frame
      BY <1>3, FrameKept
    <2>6. Popped \in 0..1 /\ Pushed(valid) \in 0..1 /\ (FIFO_rdreq => Len(fifo) > 0)
      BY DEF Popped, Pushed, CountInv
    <2>7. \A i \in 1..Len(fifo) : fifo[i] = frame + 4 * (Taken + i - 1)
      BY <2>2 DEF OrderInv
    <2>8. Pushed(valid) = 1 => mem_addr = frame + 4 * (Taken + Len(fifo))
      <3> SUFFICES ASSUME Pushed(valid) = 1
                   PROVE  mem_addr = frame + 4 * (Taken + Len(fifo))
        OBVIOUS
      <3>1. dma_state = "READ_DATA"
        BY DEF Pushed, FIFO_wrreq
      <3>2. mem_addr = current_address + 4 * burst_cnt /\ Arrived = burst_cnt
        BY <3>1 DEF OrderInv, Arrived
      <3>3. 4 * (Taken + Len(fifo)) = current_address - frame + 4 * burst_cnt
        BY <2>2, <3>2 DEF CountInv
      <3>4. QED
        BY <2>1, <2>4, <3>2, <3>3
    <2>9. \A i \in 1..Len(fifo') : fifo'[i] = frame' + 4 * (Taken' + i - 1)
      <3> SUFFICES ASSUME NEW i \in 1..Len(fifo')
                   PROVE  fifo'[i] = frame + 4 * ((Taken + Popped) + i - 1)
        BY <2>4, <2>5
      <3>1. i \in Nat /\ i >= 1 /\ i <= Len(fifo) - Popped + Pushed(valid)
        BY <2>1, <2>3, <2>6
      <3>2. fifo'[i] = IF i <= Len(fifo) - Popped THEN fifo[i + Popped] ELSE mem_addr
        BY <2>3
      <3>3. CASE i <= Len(fifo) - Popped
        <4>1. i + Popped \in 1..Len(fifo)
          BY <2>1, <2>6, <3>1, <3>3
        <4>2. fifo'[i] = frame + 4 * (Taken + (i + Popped) - 1)
          BY <2>7, <3>2, <3>3, <4>1
        <4>3. Taken + (i + Popped) - 1 = (Taken + Popped) + i - 1
          BY <2>4, <2>6, <3>1
        <4>4. QED
          BY <4>2, <4>3
      <3>4. CASE ~(i <= Len(fifo) - Popped)
        <4>1. Pushed(valid) = 1 /\ i = Len(fifo) - Popped + 1
          BY <2>1, <2>6, <3>1, <3>4
        <4>2. (Taken + Popped) + i - 1 = Taken + Len(fifo)
          BY <2>1, <2>4, <2>6, <4>1
        <4>3. QED
          BY <2>8, <3>2, <3>4, <4>1, <4>2
      <3>5. QED
        BY <3>3, <3>4
    <2>10. ASSUME lt_state' = "DISPLAY", cnt_cycles' > 0
           PROVE  /\ lt_state = "DISPLAY" /\ cnt_cycles' = cnt_cycles + 1
                  /\ FIFO_q' = frame' + 4 * cnt'
      <3>1. lt_state = "DISPLAY" /\ cnt_cycles' = cnt_cycles + 1 /\ cnt' = cnt
        BY <1>3, <2>1, <2>10, LtDisplay DEF Showing, Transferring, LastPixel
      <3>2. CASE cnt_cycles = 0
        <4>1. FIFO_q' = fifo[1] /\ 1 \in 1..Len(fifo)
          BY <2>1, <2>3, <2>4, <2>6, <3>1, <3>2
        <4>2. Taken = cnt
          BY <2>1, <3>1, <3>2 DEF Taken
        <4>3. fifo[1] = frame + 4 * (cnt + 1 - 1)
          BY <2>7, <4>1, <4>2
        <4>4. QED
          BY <2>1, <2>5, <3>1, <4>1, <4>3
      <3>3. CASE cnt_cycles # 0
        <4>1. FIFO_q' = FIFO_q
          BY <2>3, <2>4, <3>3
        <4>2. FIFO_q = frame + 4 * cnt
          BY <2>1, <3>1, <3>3 DEF OrderInv
        <4>3. QED
          BY <2>5, <3>1, <4>1, <4>2
      <3>4. QED
        BY <3>2, <3>3
    <2>11. ASSUME lt_state' = "DISPLAY", cnt_cycles' = 2
           PROVE  pins'.D = frame' + 4 * cnt'
      <3>1. lt_state = "DISPLAY" /\ cnt_cycles = 1 /\ cnt' = cnt
        BY <1>3, <2>1, <2>10, <2>11, LtDisplay
      <3>2. pins' = Drive(1, FIFO_q)
        BY <3>1, PinSteps
      <3>3. pins'.D = FIFO_q
        BY <3>2, PinFields DEF TypeInv, TypeOK, LT24TypeOK
      <3>4. FIFO_q = frame + 4 * cnt
        BY <3>1 DEF OrderInv
      <3>5. QED
        BY <2>5, <3>1, <3>3, <3>4
    <2>12. QED
      BY <1>1, <2>9, <2>10, <2>11 DEF OrderInv
  <1>4. QED
    BY <1>2, <1>3

-----------------------------------------------------------------------------
(* What the panel latches and when.                                        *)

LEMMA Latching ==
  ASSUME TypeInv, PhaseInv, PinsInv, DeliveryInv, ShownInv, NEW acc \in Accesses,
         NEW waitrequest, NEW valid, Cycle(acc, waitrequest, valid)
  PROVE  /\ LatchesWord <=> Writing /\ cnt_cycles = 1
         /\ LatchesPixel <=> lt_state = "DISPLAY" /\ cnt_cycles = 2
         /\ Writing /\ cnt_cycles = 1 =>
              /\ pins.DCX = (IF lt_state = "WRITE_CMD" THEN 0 ELSE 1)
              /\ pins.D = word
  <1>1. ASSUME ~Strobing
        PROVE  ~Latches
    BY <1>1 DEF PinsInv, Latches
  <1>2. ASSUME Strobing
        PROVE  Latches
    <2>1. pins' = Strobe
      BY <1>2, PinSteps DEF Strobing
    <2>2. pins'.WRX = 1
      BY <2>1, PinFields DEF TypeInv, TypeOK, LT24TypeOK
    <2>3. QED
      BY <1>2, <2>2 DEF PinsInv, Latches
  <1>3. Writing => lt_state \in {"WRITE_CMD", "WRITE_DATA"}
    BY DEF Writing
  <1>4. Showing => lt_state \notin {"WRITE_CMD", "WRITE_DATA"}
    BY DEF Showing, Transferring
  <1>5. Idle \/ Sent \/ Passed => lt_state = "INIT"
    BY DEF Idle, Sent, Passed
  <1>6. Strobing <=> \/ Writing /\ cnt_cycles = 1
                     \/ lt_state = "DISPLAY" /\ cnt_cycles = 2
    BY <1>3, <1>4, <1>5 DEF PhaseInv, Strobing
  <1>7. Writing /\ cnt_cycles = 1 =>
          /\ pins.DCX = (IF lt_state = "WRITE_CMD" THEN 0 ELSE 1)
          /\ pins.D = word
    BY <1>3, <1>6 DEF PinsInv
  <1>8. ASSUME Writing, cnt_cycles = 1, lt_state = "WRITE_DATA"
        PROVE  panel.command # CMD_DISPLAY
    <2>1. ~Sent /\ ~Passed
      BY <1>8, PhasesExclude
    <2>2. pending = <<[kind |-> "parameter", word |-> word]>>
      BY <1>8, <2>1 DEF DeliveryInv, Unlatched
    <2>3. pending # <<>> /\ pending[1].kind = "parameter" /\ pc # "command"
      BY <1>8, <2>2 DEF Writing
    <2>4. QED
      BY <2>3 DEF DeliveryInv, CommandPending
  <1>9. lt_state = "DISPLAY" => Showing
    BY <1>3, <1>5 DEF PhaseInv
  <1>10. lt_state = "DISPLAY" /\ cnt_cycles = 2 =>
           pins.DCX = 1 /\ panel.command = CMD_DISPLAY
    BY <1>6, <1>9 DEF PinsInv, ShownInv
  <1>11. QED
    BY <1>1, <1>2, <1>3, <1>6, <1>7, <1>8, <1>10 DEF LatchesWord, LatchesPixel

(* What a cycle does to the stream, phase by phase. *)
Parcel(kind, w) == <<[kind |-> kind, word |-> w]>>

SameStream == UNCHANGED <<pending, panel, shown>>

LEMMA StreamCycle ==
  ASSUME Board, TypeInv, PowerInv, PhaseInv, PinsInv, DeliveryInv, ShownInv,
         NEW acc \in Accesses, NEW waitrequest, NEW valid,
         Cycle(acc, waitrequest, valid)
  PROVE  /\ Idle => /\ pending = <<>> /\ UNCHANGED <<panel, shown>>
                    /\ ~Hands(acc) => pending' = <<>>
                    /\ Hands(acc) =>
                         pending' = Parcel(IF pc = "command" THEN "command"
                                           ELSE "parameter", word)
         /\ Sent \/ Passed \/ (Writing /\ cnt_cycles # 1) => SameStream
         /\ Writing /\ cnt_cycles = 1 =>
              /\ pending = Parcel(IF lt_state = "WRITE_CMD" THEN "command"
                                  ELSE "parameter", word)
              /\ pending' = <<>>
              /\ panel' = [command   |-> IF lt_state = "WRITE_CMD" THEN word
                                         ELSE panel.command,
                           parameter |-> IF lt_state = "WRITE_CMD" THEN panel.parameter
                                         ELSE word,
                           flip      |-> ~panel.flip]
              /\ shown' = IF lt_state = "WRITE_CMD" THEN <<>> ELSE shown
         /\ Showing => /\ UNCHANGED <<pending, panel>>
                       /\ shown' = IF lt_state = "DISPLAY" /\ cnt_cycles = 2
                                   THEN Append(shown, pins.D) ELSE shown
  <1>1. StreamTick(acc)
    BY DEF Cycle
  <1>2. ~Hands(acc) => ~Issues(acc)
    BY ProgramCases DEF Issues, Writes, Rests, Configures, Loads, NoAccess, Write
  <1>3. Hands(acc) => Issues(acc) /\ Kind(acc) = IF pc = "command" THEN "command"
                                                 ELSE "parameter"
    BY DEF Hands, Issues, Writes, Write, Kind, TYPE_CMD, TYPE_DATA
  <1>4. /\ LatchesWord <=> Writing /\ cnt_cycles = 1
        /\ LatchesPixel <=> lt_state = "DISPLAY" /\ cnt_cycles = 2
    BY Latching
  <1>5. CASE Idle
    <2>1. ~LatchesWord /\ ~LatchesPixel
      BY <1>4, <1>5, PhasesExclude DEF Idle
    <2>2. pending = <<>>
      BY <1>5, PhasesExclude DEF DeliveryInv, Unlatched
    <2>3. UNCHANGED <<panel, shown>>
      BY <1>1, <2>1 DEF StreamTick
    <2>4. pending' = IF Issues(acc) THEN Append(pending, [kind |-> Kind(acc), word |-> word])
                     ELSE pending
      BY <1>1, <2>1 DEF StreamTick
    <2>5. \A x : Append(<<>>, x) = <<x>>
      OBVIOUS
    <2>6. Hands(acc) => pending' = Parcel(IF pc = "command" THEN "command"
                                          ELSE "parameter", word)
      BY <1>3, <2>2, <2>4, <2>5 DEF Parcel
    <2>7. ~Hands(acc) => pending' = <<>>
      BY <1>2, <2>2, <2>4
    <2>8. QED
      BY <1>5, <2>2, <2>3, <2>6, <2>7, PhasesExclude
  <1>6. CASE Sent \/ Passed \/ (Writing /\ cnt_cycles # 1)
    <2>1. ~Hands(acc)
      BY <1>6, SentCycle, PassedCycle, WritingCycle DEF Rests, Hands, Write, NoAccess
    <2>2. ~LatchesWord /\ ~LatchesPixel
      BY <1>4, <1>6, PhasesExclude DEF Sent, Passed, Writing
    <2>3. SameStream
      BY <1>1, <1>2, <2>1, <2>2 DEF StreamTick, SameStream
    <2>4. QED
      BY <1>6, <2>3, PhasesExclude
  <1>7. CASE Writing /\ cnt_cycles = 1
    <2>1. ~Issues(acc)
      BY <1>2, <1>7, WritingCycle DEF Rests, Hands, Write, NoAccess
    <2>2. LatchesWord /\ ~LatchesPixel
      BY <1>4, <1>7
    <2>3. pins.DCX = (IF lt_state = "WRITE_CMD" THEN 0 ELSE 1) /\ pins.D = word
      BY <1>7, Latching
    <2>4. ~Sent /\ ~Passed
      BY <1>7, PhasesExclude
    <2>5. pending = Parcel(IF lt_state = "WRITE_CMD" THEN "command" ELSE "parameter", word)
      BY <1>7, <2>4 DEF DeliveryInv, Unlatched, Parcel
    <2>6. pending' = Received(pending)
      BY <1>1, <2>1, <2>2 DEF StreamTick
    <2>7. \A x : <<x>> # <<>> /\ Tail(<<x>>) = <<>>
      OBVIOUS
    <2>8. pending' = <<>>
      BY <2>5, <2>6, <2>7 DEF Received, Parcel
    <2>9. panel' = [command   |-> IF lt_state = "WRITE_CMD" THEN word ELSE panel.command,
                    parameter |-> IF lt_state = "WRITE_CMD" THEN panel.parameter ELSE word,
                    flip      |-> ~panel.flip]
      <3>1. panel' = [command   |-> IF pins.DCX = 0 THEN pins.D ELSE panel.command,
                      parameter |-> IF pins.DCX = 0 THEN panel.parameter ELSE pins.D,
                      flip      |-> ~panel.flip]
        BY <1>1, <2>2 DEF StreamTick
      <3>2. pins.DCX = 0 <=> lt_state = "WRITE_CMD"
        BY <2>3
      <3>3. QED
        BY <2>3, <3>1, <3>2
    <2>10. shown' = IF lt_state = "WRITE_CMD" THEN <<>> ELSE shown
      BY <1>1, <2>2, <2>3 DEF StreamTick
    <2>11. QED
      BY <1>7, <2>5, <2>8, <2>9, <2>10, PhasesExclude
  <1>8. CASE Showing
    <2>1. ~Issues(acc)
      BY <1>2, <1>8, ShowingCycle DEF Rests, Configures, Hands, Write, NoAccess
    <2>2. ~LatchesWord
      BY <1>4, <1>8, PhasesExclude
    <2>3. UNCHANGED <<pending, panel>>
      BY <1>1, <2>1, <2>2 DEF StreamTick
    <2>4. shown' = IF lt_state = "DISPLAY" /\ cnt_cycles = 2
                   THEN Append(shown, pins.D) ELSE shown
      BY <1>1, <1>4, <2>2 DEF StreamTick
    <2>5. QED
      BY <1>8, <2>3, <2>4, PhasesExclude
  <1>9. QED
    BY <1>5, <1>6, <1>7, <1>8 DEF PhaseInv

-----------------------------------------------------------------------------
(* Every word is delivered once.                                           *)

LEMMA ParcelFields ==
  ASSUME NEW kind, NEW w
  PROVE  Parcel(kind, w) # <<>> /\ Parcel(kind, w)[1].kind = kind
  BY DEF Parcel

UnlatchedByPhase ==
  /\ Sent \/ Passed =>
       Unlatched = Parcel(IF reg["CmdOrData"] = TYPE_CMD THEN "command"
                          ELSE "parameter", word)
  /\ Writing =>
       Unlatched = IF cnt_cycles < 2
                   THEN Parcel(IF lt_state = "WRITE_CMD" THEN "command"
                               ELSE "parameter", word)
                   ELSE <<>>
  /\ Idle \/ Showing => Unlatched = <<>>

LEMMA PhasesExcludeAfter ==
  /\ Idle' => ~Sent' /\ ~Passed' /\ ~Writing' /\ ~Showing'
  /\ Sent' => ~Passed' /\ ~Writing' /\ ~Showing'
  /\ Passed' => ~Writing' /\ ~Showing'
  /\ Writing' => ~Showing'
  BY DEF Idle, Sent, Passed, Writing, Showing, InRegisters, Transferring,
         TYPE_NO_OP, TYPE_CMD, TYPE_DATA

LEMMA UnlatchedCases == UnlatchedByPhase /\ UnlatchedByPhase'
  <1>1. UnlatchedByPhase
    <2>1. Writing => ~Sent /\ ~Passed
      BY PhasesExclude
    <2>2. Idle \/ Showing => ~Sent /\ ~Passed /\ ~Writing
      BY PhasesExclude
    <2>3. QED
      BY <2>1, <2>2 DEF Unlatched, Parcel, UnlatchedByPhase
  <1>2. UnlatchedByPhase'
    <2>1. Writing' => ~Sent' /\ ~Passed'
      BY PhasesExcludeAfter
    <2>2. Idle' \/ Showing' => ~Sent' /\ ~Passed' /\ ~Writing'
      BY PhasesExcludeAfter
    <2>3. QED
      BY <2>1, <2>2 DEF Unlatched, Parcel, UnlatchedByPhase
  <1>3. QED
    BY <1>1, <1>2

(* The program hands over a word, or writes RegCmdData, or rests. *)
LEMMA DeliveryIdle ==
  ASSUME Board, TypeInv, PowerInv, PhaseInv, PinsInv, DeliveryInv, ShownInv,
         Idle, NEW acc \in Accesses, NEW waitrequest, NEW valid,
         Cycle(acc, waitrequest, valid)
  PROVE  DeliveryInv'
  <1>1. pending = <<>> /\ panel' = panel
    BY StreamCycle
  <1>2. /\ CommandPending <=> pc = "command"
        /\ pc = "command" => command = word
        /\ pc # "command" => panel.command = command
        /\ pc = "data" => command \notin {0, CMD_DISPLAY}
    BY <1>1 DEF DeliveryInv, CommandPending
  <1>3. CASE ~Hands(acc)
    <2>1. pending' = <<>> /\ Unlatched' = <<>>
      <3>1. Idle'
        BY <1>3, IdleCycle
      <3>2. QED
        BY <1>3, <3>1, StreamCycle, UnlatchedCases DEF UnlatchedByPhase
    <2>2. CommandPending' <=> pc' = "command"
      BY <2>1 DEF CommandPending
    <2>3. Rests(acc) \/ Configures(acc) \/ Loads(acc)
      BY <1>3, ProgramCases
    <2>4. /\ pc' = "command" => command' = word'
          /\ pc' # "command" => panel.command = command'
          /\ pc' = "data" => command' \notin {0, CMD_DISPLAY}
      BY <1>2, <2>3 DEF Rests, Configures, Loads, Sending
    <2>5. QED
      BY <1>1, <2>1, <2>2, <2>4 DEF DeliveryInv
  <1>4. CASE Hands(acc)
    <2>1. /\ Sent' /\ pending' = Parcel(IF pc = "command" THEN "command"
                                        ELSE "parameter", word)
          /\ pc' = "ready" /\ word' = word /\ command' = command
          /\ pc \in {"command", "data"}
      BY <1>4, IdleCycle, StreamCycle DEF Hands
    <2>2. reg'["CmdOrData"] = TYPE_CMD <=> pc = "command"
      <3>1. ~cmd_data_ready
        BY <1>4 DEF Idle, Hands, Sending
      <3>2. reg'["CmdOrData"] = acc.data
        BY <1>4, <3>1, RegisterUpdate DEF Hands, Writes, Write, Registers
      <3>3. QED
        BY <1>4, <3>2 DEF Hands, Write, TYPE_CMD, TYPE_DATA
    <2>3. pending' = Unlatched'
      BY <2>1, <2>2, UnlatchedCases DEF UnlatchedByPhase
    <2>4. CommandPending' <=> pc = "command"
      BY <2>1, ParcelFields DEF CommandPending
    <2>5. QED
      BY <1>1, <1>2, <2>1, <2>3, <2>4 DEF DeliveryInv
  <1>5. QED
    BY <1>3, <1>4

(* A word on its way stays the pending one until the panel latches it. *)
LEMMA DeliverySame ==
  ASSUME DeliveryInv, SameStream, UNCHANGED <<pc, word, command>>,
         Unlatched' = Unlatched
  PROVE  DeliveryInv'
  BY DEF DeliveryInv, CommandPending, SameStream

LEMMA DeliveryWriting ==
  ASSUME Board, TypeInv, PowerInv, PhaseInv, PinsInv, DeliveryInv, ShownInv,
         Writing, NEW acc \in Accesses, NEW waitrequest, NEW valid,
         Cycle(acc, waitrequest, valid)
  PROVE  DeliveryInv'
  <1>1. /\ cnt_cycles \in 0..3 /\ pc = "ready"
        /\ UNCHANGED <<pc, word, command>>
    BY WritingCycle DEF TypeInv, TypeOK, LT24TypeOK, CounterInv, Writing, Rests
  <1>2. CASE cnt_cycles # 1
    <2>1. SameStream
      BY <1>2, StreamCycle
    <2>2. CASE cnt_cycles < 3
      <3>1. Writing' /\ lt_state' = lt_state /\ cnt_cycles' = cnt_cycles + 1
        BY <2>2, WritingCycle
      <3>2. cnt_cycles < 2 <=> cnt_cycles' < 2
        BY <1>1, <1>2, <3>1
      <3>3. Unlatched' = Unlatched
        BY <1>1, <3>1, <3>2, UnlatchedCases DEF UnlatchedByPhase
      <3>4. QED
        BY <1>1, <2>1, <3>3, DeliverySame
    <2>3. CASE cnt_cycles = 3
      <3>1. Idle' \/ Showing'
        BY <2>3, WritingCycle
      <3>2. Unlatched' = <<>> /\ Unlatched = <<>>
        BY <2>3, <3>1, UnlatchedCases DEF UnlatchedByPhase
      <3>3. QED
        BY <1>1, <2>1, <3>2, DeliverySame
    <2>4. QED
      BY <1>1, <2>2, <2>3
  <1>3. CASE cnt_cycles = 1
    <2>1. Writing' /\ cnt_cycles' = 2
      BY <1>3, WritingCycle
    <2>2. pending' = <<>> /\ Unlatched' = <<>>
      BY <1>3, <2>1, StreamCycle, UnlatchedCases DEF UnlatchedByPhase
    <2>3. ~CommandPending' /\ pc' # "data"
      BY <1>1, <2>2 DEF CommandPending
    <2>4. pending = Parcel(IF lt_state = "WRITE_CMD" THEN "command" ELSE "parameter", word)
      BY <1>3, StreamCycle
    <2>5. CommandPending <=> lt_state = "WRITE_CMD"
      BY <1>1, <2>4, ParcelFields DEF CommandPending
    <2>6. panel'.command = IF lt_state = "WRITE_CMD" THEN word ELSE panel.command
      BY <1>3, StreamCycle
    <2>7. panel'.command = command
      BY <2>5, <2>6 DEF DeliveryInv
    <2>8. QED
      BY <1>1, <2>2, <2>3, <2>7 DEF DeliveryInv
  <1>4. QED
    BY <1>2, <1>3

LEMMA DeliveryCycle ==
  ASSUME Board, TypeInv, PowerInv, PhaseInv, PinsInv, DeliveryInv, ShownInv,
         NEW acc \in Accesses, NEW waitrequest, NEW valid,
         Cycle(acc, waitrequest, valid)
  PROVE  DeliveryInv'
  <1>1. CASE Sent
    <2>1. Passed' /\ SameStream /\ UNCHANGED <<pc, word, command>>
      BY <1>1, SentCycle, StreamCycle DEF Rests
    <2>2. reg'["CmdOrData"] = reg["CmdOrData"]
      BY <1>1, SentCycle, RegisterUpdate
      DEF Sent, NoFlags, Rests, NoAccess, Writes, Registers
    <2>3. Unlatched' = Unlatched
      BY <1>1, <2>1, <2>2, UnlatchedCases DEF UnlatchedByPhase
    <2>4. QED
      BY <2>1, <2>3, DeliverySame
  <1>2. CASE Passed
    <2>1. /\ Writing' /\ cnt_cycles' = 0 /\ SameStream /\ UNCHANGED <<pc, word, command>>
          /\ lt_state' = "WRITE_CMD" <=> reg["CmdOrData"] = TYPE_CMD
      BY <1>2, PassedCycle, StreamCycle DEF Rests
    <2>2. Unlatched' = Unlatched
      BY <1>2, <2>1, UnlatchedCases DEF UnlatchedByPhase
    <2>3. QED
      BY <2>1, <2>2, DeliverySame
  <1>3. CASE Showing
    <2>1. /\ UNCHANGED <<pending, panel>> /\ Unlatched' = <<>> /\ Unlatched = <<>>
      BY <1>3, ShowingCycle, StreamCycle, UnlatchedCases DEF UnlatchedByPhase
    <2>2. /\ UNCHANGED <<word, command>> /\ ~Sending /\ ~Sending'
      BY <1>3, ShowingCycle DEF Rests, Configures, Showing, Sending
    <2>3. QED
      BY <2>1, <2>2 DEF DeliveryInv, CommandPending, Sending
  <1>4. QED
    BY <1>1, <1>2, <1>3, DeliveryIdle, DeliveryWriting DEF PhaseInv

-----------------------------------------------------------------------------
(* Every pixel is shown once.                                              *)

(* The pixels shown, once the display command has been latched. *)
Opened == Showing \/ (Writing /\ OpensDisplay /\ cnt_cycles > 1)

ShownPixels ==
  IF \/ lt_state = "DISPLAY" /\ cnt_cycles > 2
     \/ lt_state = "CHECK_TRANSFER"
  THEN cnt + 1 ELSE cnt

LEMMA ShownCycle ==
  ASSUME Board, TypeInv, PowerInv, PhaseInv, PinsInv, DeliveryInv, ShownInv,
         NEW acc \in Accesses, NEW waitrequest, NEW valid,
         Cycle(acc, waitrequest, valid)
  PROVE  ShownInv'
  <1>1. ShownInv <=> (Opened => panel.command = CMD_DISPLAY /\ Len(shown) = ShownPixels)
    BY DEF ShownInv, Opened, ShownPixels
  <1>2. ShownInv' <=> (Opened' => panel'.command = CMD_DISPLAY /\ Len(shown') = ShownPixels')
    BY DEF ShownInv, Opened, ShownPixels
  <1> SUFFICES ASSUME Opened'
               PROVE  panel'.command = CMD_DISPLAY /\ Len(shown') = ShownPixels'
    BY <1>2
  <1>3. cnt \in Nat /\ cnt_cycles \in 0..5 /\ shown \in Seq(Bus)
    BY DEF TypeInv, TypeOK, LT24TypeOK
  <1>4. ~Idle
    <2>1. Idle => Idle' \/ Sent'
      BY IdleCycle
    <2>2. Idle' \/ Sent' => ~Opened'
      BY PhasesExcludeAfter DEF Opened, Idle, Sent, Writing, Showing, Transferring
    <2>3. QED
      BY <2>1, <2>2
  <1>5. ~Sent
    <2>1. Sent => lt_state' = "INIT"
      BY SentCycle DEF Passed
    <2>2. QED
      BY <2>1 DEF Opened, Writing, Showing, Transferring
  <1>6. ~Passed
    <2>1. Passed => cnt_cycles' = 0 /\ lt_state' \in {"WRITE_CMD", "WRITE_DATA"}
      BY PassedCycle
    <2>2. QED
      BY <2>1 DEF Opened, Showing, Transferring
  <1>7. CASE Writing
    <2>1. cnt_cycles \in 0..3 /\ word' = word
      BY <1>7, WritingCycle
      DEF TypeInv, TypeOK, LT24TypeOK, CounterInv, Writing, Rests
    <2>2. CASE cnt_cycles < 3
      <3>1. Writing' /\ lt_state' = lt_state /\ cnt_cycles' = cnt_cycles + 1
        BY <1>7, <2>2, WritingCycle
      <3>2. ~Showing'
        BY <3>1, PhasesExcludeAfter
      <3>3. OpensDisplay /\ lt_state = "WRITE_CMD" /\ word = CMD_DISPLAY /\ cnt_cycles > 0
        BY <2>1, <3>1, <3>2 DEF Opened, OpensDisplay
      <3>4. cnt' = 0
        BY <3>1 DEF Writing
      <3>5. ShownPixels' = 0
        BY <3>1, <3>3, <3>4 DEF ShownPixels
      <3>6. CASE cnt_cycles = 1
        <4>1. panel'.command = word /\ shown' = <<>>
          BY <1>7, <3>3, <3>6, StreamCycle
        <4>2. Len(<<>>) = 0
          OBVIOUS
        <4>3. QED
          BY <3>3, <3>5, <4>1, <4>2
      <3>7. CASE cnt_cycles = 2
        <4>1. Opened /\ panel' = panel /\ shown' = shown
          BY <1>7, <3>3, <3>7, StreamCycle DEF Opened, SameStream
        <4>2. ShownPixels = 0
          BY <1>7, <3>3 DEF ShownPixels, Writing
        <4>3. QED
          BY <1>1, <3>5, <4>1, <4>2
      <3>8. QED
        BY <2>1, <2>2, <3>3, <3>6, <3>7
    <2>3. CASE cnt_cycles = 3
      <3>1. OpensDisplay
        <4>1. ~OpensDisplay => Idle'
          BY <1>7, <2>3, WritingCycle
        <4>2. Idle' => ~Opened'
          BY PhasesExcludeAfter DEF Opened
        <4>3. QED
          BY <4>1, <4>2
      <3>2. Showing' /\ lt_state' = "WAIT_TRANSFER"
        BY <1>7, <2>3, <3>1, WritingCycle
      <3>3. ShownPixels' = 0
        BY <3>2 DEF ShownPixels, Showing
      <3>4. Opened /\ panel' = panel /\ shown' = shown
        BY <1>7, <2>3, <3>1, StreamCycle DEF Opened, SameStream
      <3>5. ShownPixels = 0
        BY <1>7, <3>1 DEF ShownPixels, Writing, OpensDisplay
      <3>6. QED
        BY <1>1, <3>3, <3>4, <3>5
    <2>4. QED
      BY <2>1, <2>2, <2>3
  <1>8. CASE Showing
    <2>1. Opened /\ panel' = panel
      BY <1>8, StreamCycle DEF Opened
    <2>2. panel.command = CMD_DISPLAY /\ Len(shown) = ShownPixels
      BY <1>1, <2>1
    <2>3. lt_state \in {"WAIT_TRANSFER", "CHECK_FIFO", "DISPLAY", "CHECK_TRANSFER"}
      BY <1>8 DEF Showing, Transferring
    <2>4. CASE lt_state = "DISPLAY" /\ cnt_cycles = 2
      <3>1. shown' = Append(shown, pins.D)
        BY <1>8, <2>4, StreamCycle
      <3>2. Len(shown') = Len(shown) + 1
        BY <1>3, <3>1 DEF TypeInv, TypeOK, LT24TypeOK, PinType
      <3>3. lt_state' = "DISPLAY" /\ cnt_cycles' = 3 /\ cnt' = cnt
        BY <1>8, <2>4, LtDisplay
      <3>4. ShownPixels = cnt /\ ShownPixels' = cnt + 1
        BY <2>4, <3>3 DEF ShownPixels
      <3>5. QED
        BY <2>1, <2>2, <3>2, <3>4
    <2>5. CASE ~(lt_state = "DISPLAY" /\ cnt_cycles = 2)
      <3>1. shown' = shown
        BY <1>8, <2>5, StreamCycle
      <3>2. ShownPixels' = ShownPixels
        <4>1. CASE lt_state \in {"WAIT_TRANSFER", "CHECK_FIFO"}
          <5>1. /\ cnt' = cnt /\ cnt_cycles' = 0
                /\ lt_state' \in {"WAIT_TRANSFER", "CHECK_FIFO", "DISPLAY"}
            BY <1>8, <4>1, LtDisplay
          <5>2. QED
            BY <4>1, <5>1 DEF ShownPixels
        <4>2. CASE lt_state = "DISPLAY"
          <5>1. /\ lt_state' = IF cnt_cycles < 4 THEN "DISPLAY" ELSE "CHECK_TRANSFER"
                /\ cnt_cycles' = IF cnt_cycles < 4 THEN cnt_cycles + 1 ELSE 0
                /\ cnt' = cnt
            BY <1>8, <4>2, LtDisplay
          <5>2. CASE cnt_cycles < 2
            BY <1>3, <4>2, <5>1, <5>2 DEF ShownPixels
          <5>3. CASE cnt_cycles > 2
            BY <1>3, <4>2, <5>1, <5>3 DEF ShownPixels
          <5>4. QED
            BY <1>3, <2>5, <4>2, <5>2, <5>3
        <4>3. CASE lt_state = "CHECK_TRANSFER" /\ ~LastPixel
          <5>1. /\ lt_state' \in {"CHECK_FIFO", "DISPLAY"} /\ cnt' = cnt + 1
                /\ cnt_cycles' = 0
            BY <1>8, <4>3, LtDisplay
          <5>2. QED
            BY <4>3, <5>1 DEF ShownPixels
        <4>4. CASE LastPixel
          <5>1. Idle'
            BY <1>8, <4>4, ShowingCycle
          <5>2. FALSE
            BY <5>1, PhasesExcludeAfter DEF Opened
          <5>3. QED
            BY <5>2
        <4>5. QED
          BY <2>3, <4>1, <4>2, <4>3, <4>4
      <3>3. QED
        BY <2>1, <2>2, <3>1, <3>2
    <2>6. QED
      BY <2>4, <2>5
  <1>9. QED
    BY <1>4, <1>5, <1>6, <1>7, <1>8 DEF PhaseInv

-----------------------------------------------------------------------------
(* The inductive invariant.                                                *)

(* The state the board is in after power-up and after a reset. *)
Fresh ==
  /\ lt_state = "INIT" /\ cnt = 0 /\ cnt_cycles = 0 /\ pins = BusReset
  /\ ~cmd_data_ready /\ ~display_finished /\ ~start_out /\ ~FIFO_rdreq
  /\ reg = Cleared /\ out = Cleared
  /\ pc = "LCD_turn_on" /\ command = 0
  /\ dma_state \in {"INIT", "IDLE"}
  /\ fifo = <<>> /\ FIFO_empty
  /\ pending = <<>> /\ panel = PanelOff

LEMMA FreshDisplay == Fresh => DisplayInv
  <1> SUFFICES ASSUME Fresh PROVE DisplayInv
    OBVIOUS
  <1>1. /\ lt_state = "INIT" /\ cnt = 0 /\ cnt_cycles = 0
        /\ ~cmd_data_ready /\ ~display_finished /\ ~start_out /\ ~FIFO_rdreq
        /\ pc = "LCD_turn_on" /\ dma_state \in {"INIT", "IDLE"}
    BY DEF Fresh
  <1>2. reg["CmdOrData"] = TYPE_NO_OP /\ out["CmdOrData"] = TYPE_NO_OP
    BY DEF Fresh, Cleared, Registers, TYPE_NO_OP
  <1>3. Idle /\ ~Sending
    BY <1>1, <1>2 DEF Idle, Sending
  <1>4. ~Sent /\ ~Passed /\ ~Writing /\ ~Showing
    BY <1>3, PhasesExclude
  <1>5. ~Serving /\ ~Strobing
    BY <1>1 DEF Serving, Transferring, Strobing
  <1>6. PhaseInv /\ PowerInv
    BY <1>1, <1>3 DEF PhaseInv, PowerInv
  <1>7. PinsInv
    BY <1>1, <1>5 DEF PinsInv, Fresh, BusReset, Pins
  <1>8. HandshakeInv /\ FrameInv /\ AddressInv
    BY <1>1, <1>3, <1>4, <1>5 DEF HandshakeInv, FrameInv, AddressInv
  <1>9. CountInv /\ OrderInv
    BY <1>1, <1>5 DEF CountInv, OrderInv, Fresh
  <1>10. DeliveryInv
    BY <1>1, <1>4 DEF DeliveryInv, Unlatched, CommandPending, Fresh, PanelOff
  <1>11. ShownInv
    BY <1>4 DEF ShownInv
  <1>12. QED
    BY <1>6, <1>7, <1>8, <1>9, <1>10, <1>11 DEF DisplayInv

LEMMA FreshDisplayAfter == Fresh' => DisplayInv'
  BY FreshDisplay, PTL

LEMMA DisplayInit == Init => DisplayInv
  <1>1. Init => Fresh
    BY DEF Init, LT24Init, SlaveInit, ProgramInit, DmaInit, FifoInit, Fresh
  <1>2. QED
    BY <1>1, FreshDisplay

(* Only when the DMA is quiet does a reset hit the board: the LT24         *)
(* interface then asks the FIFO for nothing, which is a state its reset    *)
(* leaves as it is.                                                        *)
LEMMA DisplayReset ==
  ASSUME Board, TypeInv, DisplayInv, Reset
  PROVE  DisplayInv'
  <1>1. DmaQuiet
    BY DEF Board, Setup, Reset
  <1>2. ~Transferring /\ ~start_out
    BY <1>1 DEF DmaQuiet, DisplayInv, HandshakeInv, Serving
  <1>3. ~FIFO_rdreq
    BY <1>2 DEF DisplayInv, PhaseInv, Idle, Sent, Passed, Writing, Showing, NoFlags
  <1>4. ~cmd_data_ready' /\ ~display_finished' /\ ~start_out' /\ ~FIFO_rdreq'
    BY <1>2, <1>3 DEF Reset, LT24Reset
  <1>5. FIFO_empty'
    BY DEF Reset, FifoClear
  <1>6. Fresh'
    BY <1>1, <1>4, <1>5
    DEF Reset, LT24Reset, SlaveReset, ProgramReset, DmaReset, FifoClear, Fresh,
        DmaQuiet
  <1>7. QED
    BY <1>6, FreshDisplayAfter

LEMMA DisplayCycle ==
  ASSUME Board, TypeInv, SpaceInv, DisplayInv, NEW acc \in Accesses,
         NEW waitrequest, NEW valid, Cycle(acc, waitrequest, valid)
  PROVE  DisplayInv'
  <1> USE DEF DisplayInv
  <1>1. PhaseInv' /\ PowerInv'
    BY PhaseCycle, PowerCycle
  <1>2. PinsInv'
    BY PinsCycle
  <1>3. HandshakeInv'
    BY HandshakeCycle
  <1>4. FrameInv'
    BY FrameCycle
  <1>5. AddressInv'
    BY <1>3, AddressCycle
  <1>6. CountInv'
    BY <1>3, CountCycle
  <1>7. OrderInv'
    BY <1>1, <1>3, OrderCycle
  <1>8. DeliveryInv'
    BY DeliveryCycle
  <1>9. ShownInv'
    BY ShownCycle
  <1>10. QED
    BY <1>1, <1>2, <1>3, <1>4, <1>5, <1>6, <1>7, <1>8, <1>9

LEMMA DisplayStep ==
  ASSUME Board
  PROVE  TypeInv /\ SpaceInv /\ DisplayInv /\ [Next]_vars => DisplayInv'
  <1> SUFFICES ASSUME TypeInv, SpaceInv, DisplayInv, [Next]_vars PROVE DisplayInv'
    OBVIOUS
  <1>1. CASE Tick
    BY <1>1, DisplayCycle DEF Tick
  <1>2. CASE Reset
    BY <1>2, DisplayReset
  <1>3. CASE UNCHANGED vars
    <2>1. /\ UNCHANGED <<fifo, FIFO_q, FIFO_empty>>
          /\ UNCHANGED <<dma_state, burst_cnt, current_address, end_address, mem_addr>>
          /\ UNCHANGED <<lt_state, cnt_cycles, cnt, pins, LT24_LCD_ON>>
          /\ UNCHANGED <<cmd_data_ready, display_finished, start_out, FIFO_rdreq>>
          /\ UNCHANGED <<reg, out, pc, word, command, gap>>
          /\ UNCHANGED <<pending, panel, frame, shown>>
      BY <1>3
      DEF vars, fifoVars, dmaVars, lt24Vars, slaveVars, progVars, memVars, streamVars
    <2>2. /\ Idle' <=> Idle
          /\ Sent' <=> Sent
          /\ Passed' <=> Passed
          /\ Writing' <=> Writing
          /\ Showing' <=> Showing
      BY <2>1
      DEF Idle, Sent, Passed, Writing, Showing, InRegisters, NoFlags, Sending,
          OpensDisplay, Transferring
    <2>3. PhaseInv' /\ PowerInv' /\ PinsInv'
      BY <2>1, <2>2 DEF DisplayInv, PhaseInv, PowerInv, PinsInv, Strobing
    <2>4. HandshakeInv' /\ FrameInv' /\ AddressInv'
      BY <2>1, <2>2
      DEF DisplayInv, HandshakeInv, FrameInv, AddressInv, Serving, Transferring,
          Sending, OpensDisplay, WholeBursts
    <2>5. CountInv' /\ OrderInv'
      BY <2>1
      DEF DisplayInv, CountInv, OrderInv, Serving, Transferring, Taken, Arrived
    <2>6. Unlatched' = Unlatched
      BY <2>1, <2>2 DEF Unlatched
    <2>7. DeliveryInv' /\ ShownInv'
      BY <2>1, <2>2, <2>6 DEF DisplayInv, DeliveryInv, ShownInv, CommandPending, OpensDisplay
    <2>8. QED
      BY <2>3, <2>4, <2>5, <2>7 DEF DisplayInv
  <1>4. QED
    BY <1>1, <1>2, <1>3 DEF Next

LEMMA DisplayInvariance ==
  ASSUME Board
  PROVE  Spec => []DisplayInv
  <1>1. Setup
    BY DEF Board
  <1>2. Spec => []SpaceInv
    BY <1>1, SpaceInvariance
  <1>3. QED
    BY <1>2, DisplayInit, DisplayStep, TypeInvariance, PTL DEF Spec

-----------------------------------------------------------------------------
(* What follows from the invariant.                                        *)

(* A read request reaches the FIFO one cycle after the LT24 interface has  *)
(* looked at its empty flag (CHECK_FIFO, CHECK_TRANSFER), and the FIFO     *)
(* lowers that flag one cycle late; still it never reads an empty FIFO.    *)
THEOREM NeverUnderflows ==
  ASSUME Board
  PROVE  Spec => []NoUnderflow
  <1>1. DisplayInv => NoUnderflow
    <2> SUFFICES ASSUME DisplayInv, FIFO_rdreq PROVE fifo # <<>>
      BY DEF NoUnderflow
    <2>1. Len(fifo) > 0
      BY DEF DisplayInv, CountInv
    <2>2. Len(<<>>) = 0
      OBVIOUS
    <2>3. QED
      BY <2>1, <2>2
  <1>2. QED
    BY <1>1, DisplayInvariance, PTL

(* The two FSMs hear each other: the one-cycle pulse that starts a         *)
(* transfer finds the DMA in IDLE, and the one that ends a display finds   *)
(* it in WAIT_DISPLAY, however slow the SDRAM is.                          *)
THEOREM PulsesAreHeard ==
  ASSUME Board
  PROVE  Spec => []PulsesHeard
  <1>1. TypeInv /\ DisplayInv => PulsesHeard
    <2> SUFFICES ASSUME TypeInv, DisplayInv
                 PROVE  PulsesHeard
      OBVIOUS
    <2>1. ASSUME start_out
          PROVE  dma_state = "IDLE"
      <3>1. Writing
        BY <2>1 DEF DisplayInv, PhaseInv, Idle, Sent, Passed, Showing, NoFlags
      <3>2. ~Idle /\ ~Serving
        BY <3>1, PhasesExclude DEF Serving, Writing, Transferring
      <3>3. QED
        BY <3>2 DEF DisplayInv, HandshakeInv
    <2>2. ASSUME display_finished
          PROVE  dma_state = "WAIT_DISPLAY"
      BY <2>2 DEF DisplayInv, HandshakeInv
    <2>3. QED
      BY <2>1, <2>2 DEF PulsesHeard
  <1>2. QED
    BY <1>1, TypeInvariance, DisplayInvariance, PTL

(* The DMA stops at the end of the frame, although it compares the address *)
(* with the end for equality only: every burst lies in the frame that was  *)
(* configured when the display command was issued, whatever the program    *)
(* has written to RegStartAddress since.                                   *)
THEOREM ReadsStay ==
  ASSUME Board
  PROVE  Spec => []ReadsStayInFrame
  <1>1. TypeInv /\ SpaceInv /\ DisplayInv => ReadsStayInFrame
    <2> SUFFICES ASSUME TypeInv, SpaceInv, DisplayInv, am_read(FIFO_almost_full)
                 PROVE  /\ frame <= current_address
                        /\ current_address + 4 * burst_tot <= frame + BUFFER_LENGTH
      BY DEF ReadsStayInFrame
    <2>1. dma_state = "READ_REQUEST"
      BY DEF am_read
    <2>2. /\ frame <= current_address /\ WholeBursts
          /\ end_address = frame + BUFFER_LENGTH - WORD_LENGTH
      BY <2>1 DEF DisplayInv, AddressInv, HandshakeInv
    <2>3. /\ REG_BURST_TOT \in Nat /\ current_address \in Nat /\ frame \in Nat
          /\ end_address \in Int /\ burst_tot = REG_BURST_TOT
          /\ IMG_WORD_LEN \in Nat
      BY <2>1, Numbers
    <2>4. PICK n \in Nat : end_address - current_address = n * (4 * REG_BURST_TOT)
      BY <2>2 DEF WholeBursts
    <2>5. n * (4 * REG_BURST_TOT) \in Nat
      <3>1. 4 * REG_BURST_TOT \in Nat
        BY <2>3
      <3>2. QED
        BY <3>1, MultipleIsNatural
    <2>6. current_address <= end_address
      BY <2>3, <2>4, <2>5
    <2>7. QED
      BY <2>2, <2>3, <2>6 DEF Board, BUFFER_LENGTH
  <1>2. Spec => []SpaceInv
    BY SpaceInvariance DEF Board
  <1>3. QED
    BY <1>1, <1>2, TypeInvariance, DisplayInvariance, PTL

(* A step of the specification is a cycle of the clock, a reset while the  *)
(* DMA is quiet, or none.                                                  *)
LEMMA StepCases ==
  ASSUME Board, Next
  PROVE  \/ \E acc \in Accesses, waitrequest \in BOOLEAN, valid \in BOOLEAN :
              Cycle(acc, waitrequest, valid)
         \/ Reset /\ DmaQuiet
  BY DEF Next, Tick, Reset, Board, Setup

(* The panel latches on the rising edge of WRX: across it neither the data *)
(* nor DCX move, and the panel is selected, powered and out of reset.      *)
THEOREM WriteCycles ==
  ASSUME Board
  PROVE  Spec => WriteCycle
  <1> DEFINE Held == pins.WRX = 0 /\ resets' = resets =>
                       /\ pins'.D = pins.D /\ pins'.DCX = pins.DCX
                       /\ pins.CSX = 0 /\ pins'.CSX = 0
                       /\ pins.Res_n = 1 /\ LT24_LCD_ON = 1
  <1>1. TypeInv /\ DisplayInv /\ [Next]_vars => [Held]_vars
    <2> SUFFICES ASSUME TypeInv, DisplayInv, Next, pins.WRX = 0, resets' = resets
                 PROVE  /\ pins'.D = pins.D /\ pins'.DCX = pins.DCX
                        /\ pins.CSX = 0 /\ pins'.CSX = 0
                        /\ pins.Res_n = 1 /\ LT24_LCD_ON = 1
      OBVIOUS
    <2>1. ~Reset
      BY DEF Reset, TypeInv, TypeOK
    <2>2. PICK acc \in Accesses, waitrequest \in BOOLEAN, valid \in BOOLEAN :
            Cycle(acc, waitrequest, valid)
      BY <2>1, StepCases
    <2>3. Strobing
      BY DEF DisplayInv, PinsInv
    <2>4. lt_state # "INIT" /\ pins.CSX = 0
      BY <2>3 DEF Strobing, DisplayInv, PinsInv
    <2>5. pins.Res_n = 1 /\ LT24_LCD_ON = 1
      BY <2>4 DEF DisplayInv, PinsInv, PowerInv
    <2>6. pins' = Strobe
      BY <2>2, <2>3, PinSteps DEF Strobing
    <2>7. pins'.CSX = pins.CSX /\ pins'.DCX = pins.DCX /\ pins'.D = pins.D
      BY <2>6, PinFields DEF TypeInv, TypeOK, LT24TypeOK
    <2>8. QED
      BY <2>4, <2>5, <2>7
  <1>2. QED
    BY <1>1, TypeInvariance, DisplayInvariance, PTL DEF Spec, WriteCycle

(* The DMA clears the FIFO asynchronously whenever it is IDLE.  It gets    *)
(* there only when every word of the frame has been sent to the panel.     *)
THEOREM NothingIsDiscarded ==
  ASSUME Board
  PROVE  Spec => NothingDiscarded
  <1> DEFINE Empty == dma_state' = "IDLE" => fifo = <<>> /\ mem_left = 0
  <1>1. TypeInv /\ SpaceInv /\ DisplayInv /\ [Next]_vars => [Empty]_vars
    <2> SUFFICES ASSUME TypeInv, SpaceInv, DisplayInv, Next, dma_state' = "IDLE"
                 PROVE  fifo = <<>> /\ mem_left = 0
      OBVIOUS
    <2>1. dma_state \in {"INIT", "IDLE"}
      <3>1. CASE Reset /\ DmaQuiet
        BY <3>1 DEF DmaQuiet
      <3>2. ASSUME NEW acc \in Accesses, NEW waitrequest, NEW valid,
                   Cycle(acc, waitrequest, valid)
            PROVE  dma_state \in {"INIT", "IDLE"}
        BY <3>2, DmaStates DEF TypeInv, TypeOK, DmaTypeOK, MASTER_DMA_STATES
      <3>3. QED
        BY <3>1, <3>2, StepCases
    <2>2. Len(fifo) = 0
      BY <2>1 DEF DisplayInv, HandshakeInv, CountInv
    <2>3. fifo \in Seq(Nat)
      BY DEF TypeInv, TypeOK, FifoTypeOK
    <2>4. fifo = <<>>
      BY <2>2, <2>3
    <2>5. mem_left = 0
      BY <2>1, Numbers
    <2>6. QED
      BY <2>4, <2>5
  <1>2. Spec => []SpaceInv
    BY SpaceInvariance DEF Board
  <1>3. QED
    BY <1>1, <1>2, TypeInvariance, DisplayInvariance, PTL DEF Spec, NothingDiscarded

-----------------------------------------------------------------------------
(* The refinement.                                                         *)

LEMMA StreamStarts == Init => Stream!StreamInit
  BY DEF Init, Stream!StreamInit, PanelOff, Stream!PanelOff

(* A cycle hands a word over, delivers it, shows a pixel, or is a stutter  *)
(* of the stream.                                                          *)
LEMMA CycleIsStreamStep ==
  ASSUME Board, TypeInv, SpaceInv, DisplayInv, NEW acc \in Accesses,
         NEW waitrequest, NEW valid, Cycle(acc, waitrequest, valid)
  PROVE  [Stream!StreamNext]_(Stream!streamVars)
  <1> USE DEF DisplayInv
  <1>1. ~Hands(acc) => frame' = frame
    BY FrameUpdate
  <1>2. SameStream /\ frame' = frame => UNCHANGED Stream!streamVars
    BY DEF SameStream, Stream!streamVars
  <1>3. CASE Idle /\ ~Hands(acc)
    <2>1. SameStream
      BY <1>3, StreamCycle DEF SameStream
    <2>2. QED
      BY <1>1, <1>2, <1>3, <2>1
  <1>4. CASE Idle /\ Hands(acc)
    <2> DEFINE kind == IF pc = "command" THEN "command" ELSE "parameter"
               a == reg["StartAddress"]
    <2>1. pending = <<>> /\ pending' = <<[kind |-> kind, word |-> word]>>
      BY <1>4, StreamCycle DEF Parcel
    <2>2. frame' = IF kind = "command" /\ word = CMD_DISPLAY THEN a ELSE frame
      BY <1>4, FrameUpdate
    <2>3. UNCHANGED <<panel, shown>>
      BY <1>4, StreamCycle
    <2>4. kind \in Stream!Kinds /\ a \in StartAddresses /\ word \in Words
      BY <1>4
      DEF Hands, Idle, FrameInv, Stream!Kinds, CommandWords, Words
    <2>5. Stream!Issue(kind, word, a)
      BY <2>1, <2>2, <2>3 DEF Stream!Issue, CMD_DISPLAY, Stream!CMD_DISPLAY
    <2>6. QED
      BY <2>4, <2>5 DEF Stream!StreamNext
  <1>5. CASE Sent \/ Passed \/ (Writing /\ cnt_cycles # 1)
    <2>1. SameStream
      BY <1>5, StreamCycle
    <2>2. ~Hands(acc)
      BY <1>5, SentCycle, PassedCycle, WritingCycle DEF Rests, Hands, Write, NoAccess
    <2>3. QED
      BY <1>1, <1>2, <2>1, <2>2
  <1>6. CASE Writing /\ cnt_cycles = 1
    <2> DEFINE kind == IF lt_state = "WRITE_CMD" THEN "command" ELSE "parameter"
    <2>1. pending = <<[kind |-> kind, word |-> word]>> /\ pending' = <<>>
      BY <1>6, StreamCycle DEF Parcel
    <2>2. panel' = [command   |-> IF lt_state = "WRITE_CMD" THEN word ELSE panel.command,
                    parameter |-> IF lt_state = "WRITE_CMD" THEN panel.parameter ELSE word,
                    flip      |-> ~panel.flip]
      BY <1>6, StreamCycle
    <2>3. shown' = IF lt_state = "WRITE_CMD" THEN <<>> ELSE shown
      BY <1>6, StreamCycle
    <2>4. frame' = frame
      BY <1>1, <1>6, WritingCycle DEF Rests, Hands, Write, NoAccess
    <2>5. /\ pending # <<>> /\ Head(pending) = [kind |-> kind, word |-> word]
          /\ Head(pending).kind = "command" <=> lt_state = "WRITE_CMD"
          /\ Head(pending).word = word
      BY <2>1
    <2>6. Stream!Deliver
      BY <2>1, <2>2, <2>3, <2>4, <2>5 DEF Stream!Deliver
    <2>7. QED
      BY <2>6 DEF Stream!StreamNext
  <1>7. CASE Showing /\ ~(lt_state = "DISPLAY" /\ cnt_cycles = 2)
    <2>1. SameStream /\ frame' = frame
      BY <1>7, StreamCycle, FrameKept DEF SameStream
    <2>2. QED
      BY <1>2, <2>1
  <1>8. CASE Showing /\ lt_state = "DISPLAY" /\ cnt_cycles = 2
    <2>1. UNCHANGED <<pending, panel, frame>> /\ shown' = Append(shown, pins.D)
      BY <1>8, StreamCycle, FrameKept
    <2>2. panel.command = CMD_DISPLAY /\ Len(shown) = cnt
      BY <1>8 DEF ShownInv
    <2>3. cnt < IMG_WORD_LEN
      BY <1>8 DEF TypeInv, CounterInv
    <2>4. pins.D = frame + 4 * Len(shown)
      BY <1>8, <2>2 DEF OrderInv
    <2>5. Stream!Pixel
      BY <2>1, <2>2, <2>3, <2>4 DEF Stream!Pixel, CMD_DISPLAY, Stream!CMD_DISPLAY
    <2>6. QED
      BY <2>5 DEF Stream!StreamNext
  <1>9. QED
    BY <1>3, <1>4, <1>5, <1>6, <1>7, <1>8 DEF PhaseInv

LEMMA ResetIsRestart == Reset => Stream!StreamNext
  BY DEF Reset, Stream!StreamNext, Stream!Restart, PanelOff, Stream!PanelOff

(* The controller implements PanelStream: every command and parameter word *)
(* reaches the panel exactly once and before the next one, and after the   *)
(* display command the panel receives the pixels of the frame that was     *)
(* configured when it was issued, each once and in order.                  *)
THEOREM ImplementsStream ==
  ASSUME Board
  PROVE  Spec => StreamSpec
  <1>1. TypeInv /\ SpaceInv /\ DisplayInv /\ [Next]_vars =>
          [Stream!StreamNext]_(Stream!streamVars)
    <2> SUFFICES ASSUME TypeInv, SpaceInv, DisplayInv, [Next]_vars
                 PROVE  [Stream!StreamNext]_(Stream!streamVars)
      OBVIOUS
    <2>1. CASE Tick
      BY <2>1, CycleIsStreamStep DEF Tick
    <2>2. CASE Reset
      BY <2>2, ResetIsRestart
    <2>3. CASE UNCHANGED vars
      BY <2>3 DEF vars, streamVars, Stream!streamVars
    <2>4. QED
      BY <2>1, <2>2, <2>3 DEF Next
  <1>2. Spec => []SpaceInv
    BY SpaceInvariance DEF Board
  <1>3. QED
    BY <1>1, <1>2, StreamStarts, TypeInvariance, DisplayInvariance, PTL
    DEF Spec, StreamSpec, Stream!StreamSpec
=============================================================================
