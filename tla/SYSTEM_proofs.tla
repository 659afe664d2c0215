---------------------------- MODULE SYSTEM_proofs ----------------------------
(***************************************************************************)
(* Proofs about the whole program, by composition: a behaviour of System   *)
(* is a behaviour of the camera controller and one of the LCD controller,  *)
(* so that all that was proved of either holds here; what is left is how   *)
(* main keeps the two apart.                                               *)
(***************************************************************************)
EXTENDS System, TLAPS

(* The two controllers with the proofs about them.  Their constants and    *)
(* variables are those of Camera and Lcd in System.                        *)
CAM == INSTANCE CAM_refinement WITH
  pc <- cam_pc, MaxCaptures <- 1, PollRace <- FALSE

LCD == INSTANCE LCD_refinement WITH
  pc <- lcd_pc, IMG_WORD_LEN <- FRAME_COLORS, StartAddresses <- {CAM_BASE},
  AnyReset <- FALSE

(* The numbers of the board, as in the proofs about the controllers: the   *)
(* image camera_init configures is among those of CAM!Image.               *)
Board == CAM!Image /\ CAM!Memory /\ LCD!Board

-----------------------------------------------------------------------------
(* CAM and Camera are two instances of the same definitions, and so are    *)
(* LCD and Lcd.                                                            *)

LEMMA CameraInitSame == Camera!Init <=> CAM!Init
  BY DEF Camera!Init, CAM!Init, Camera!BufferInit, CAM!BufferInit,
         Camera!CtrlInit, CAM!CtrlInit, Camera!Blank, CAM!Blank,
         Camera!MasterInit, CAM!MasterInit, Camera!CamSlaveInit,
         CAM!CamSlaveInit, Camera!CamDefaults, CAM!CamDefaults,
         Camera!CamRegisters, CAM!CamRegisters, Camera!DATA_LENGTH,
         CAM!DATA_LENGTH, Camera!ProgramInit, CAM!ProgramInit,
         Camera!Addresses, CAM!Addresses

LEMMA MasterSame ==
  \A a, l, e, d, w :
    Camera!MasterTick(a, l, e, d, w)
      <=> CAM!MasterTick(a, l, e, d, w)
  BY DEF Camera!MasterTick, CAM!MasterTick, Camera!MasterIDLE,
         CAM!MasterIDLE, Camera!MasterWAITING_DATA, CAM!MasterWAITING_DATA,
         Camera!MasterWAITING_WRITE, CAM!MasterWAITING_WRITE,
         Camera!MasterFrameEnd, CAM!MasterFrameEnd, Camera!FrameEnd,
         CAM!FrameEnd, Camera!Transfer, CAM!Transfer, Camera!Present,
         CAM!Present, Camera!Withdraw, CAM!Withdraw

LEMMA CaptureSame ==
  \A acc, p :
    Camera!CaptureTick(acc, p)
      <=> CAM!CaptureTick(acc, p)
  BY DEF Camera!CaptureTick, CAM!CaptureTick, Camera!camera_init,
         CAM!camera_init, Camera!camera_capture, CAM!camera_capture,
         Camera!Trigger, CAM!Trigger, Camera!Poll, CAM!Poll,
         Camera!CamAccess, CAM!CamAccess, Camera!Elsewhere, CAM!Elsewhere,
         Camera!progVars, CAM!progVars, Camera!NoAccess, CAM!NoAccess,
         Camera!Read, CAM!Read, Camera!Write, CAM!Write, Camera!DATA_LENGTH,
         CAM!DATA_LENGTH

LEMMA CameraSlaveSame ==
  \A acc, p :
    Camera!CamSlaveTick(acc, p)
      <=> CAM!CamSlaveTick(acc, p)
  BY DEF Camera!CamSlaveTick, CAM!CamSlaveTick, Camera!FrameSentReceiver,
         CAM!FrameSentReceiver, Camera!CamWrite, CAM!CamWrite,
         Camera!ReadData, CAM!ReadData, Camera!Acknowledge, CAM!Acknowledge,
         Camera!Read, CAM!Read, Camera!Write, CAM!Write

LEMMA BufferSame == \A r, n : Camera!RdClock(r, n) <=> CAM!RdClock(r, n)
  BY DEF Camera!RdClock, CAM!RdClock, Camera!rdempty, CAM!rdempty

LEMMA CameraMemorySame ==
  \A w :
    Camera!MemoryTick(w)
      <=> CAM!MemoryTick(w)
  BY DEF Camera!MemoryTick, CAM!MemoryTick

LEMMA CameraCycleSame ==
  \A acc, w, n, d :
    Camera!SysCycle(acc, w, n, d)
      <=> CAM!SysCycle(acc, w, n, d)
  BY MasterSame, CaptureSame, CameraSlaveSame, BufferSame, CameraMemorySame
  DEF Camera!SysCycle, CAM!SysCycle, Camera!Reports, CAM!Reports,
      Camera!rdempty, CAM!rdempty, Camera!Blank, CAM!Blank, Camera!buffer_q,
      CAM!buffer_q, Camera!ctrlVars, CAM!ctrlVars, Camera!Paced, CAM!Paced

LEMMA CameraPixSame == Camera!PixTick <=> CAM!PixTick
  BY DEF Camera!PixTick, CAM!PixTick, Camera!BufferFull, CAM!BufferFull,
         Camera!CtrlTick, CAM!CtrlTick, Camera!Control, CAM!Control,
         Camera!DownSampling, CAM!DownSampling, Camera!BayerFIFO,
         CAM!BayerFIFO, Camera!Debayering, CAM!Debayering, Camera!CtrlClear,
         CAM!CtrlClear, Camera!Blank, CAM!Blank, Camera!usedw, CAM!usedw,
         Camera!bayer_fifo_push, CAM!bayer_fifo_push, Camera!bayer_fifo_pop,
         CAM!bayer_fifo_pop, Camera!fval, CAM!fval, Camera!lval, CAM!lval,
         Camera!pixel, CAM!pixel, Camera!PixelAt, CAM!PixelAt,
         Camera!start_o, CAM!start_o, Camera!stop_o, CAM!stop_o,
         Camera!BufferClear, CAM!BufferClear, Camera!WrClock, CAM!WrClock,
         Camera!SensorTick, CAM!SensorTick, Camera!Expose, CAM!Expose,
         Camera!Scan, CAM!Scan, Camera!sensorVars, CAM!sensorVars,
         Camera!masterVars, CAM!masterVars, Camera!camSlaveVars,
         CAM!camSlaveVars, Camera!progVars, CAM!progVars

LEMMA CameraResetSame == Camera!Reset <=> CAM!Reset
  BY DEF Camera!Reset, CAM!Reset, Camera!BufferClear, CAM!BufferClear,
         Camera!CtrlReset, CAM!CtrlReset, Camera!CtrlClear, CAM!CtrlClear,
         Camera!Blank, CAM!Blank, Camera!MasterReset, CAM!MasterReset,
         Camera!CamSlaveReset, CAM!CamSlaveReset, Camera!CamDefaults,
         CAM!CamDefaults, Camera!CamRegisters, CAM!CamRegisters,
         Camera!DATA_LENGTH, CAM!DATA_LENGTH, Camera!ProgramReset,
         CAM!ProgramReset, Camera!Addresses, CAM!Addresses

LEMMA CameraAccessesSame == Camera!CamAccesses = CAM!CamAccesses
  BY DEF Camera!CamAccesses, CAM!CamAccesses, Camera!NoAccess, CAM!NoAccess,
         Camera!Read, CAM!Read, Camera!Write, CAM!Write, Camera!DATA_LENGTH,
         CAM!DATA_LENGTH

LEMMA LcdInitSame == Lcd!Init <=> LCD!Init
  BY DEF Lcd!Init, LCD!Init, Lcd!FifoInit, LCD!FifoInit, Lcd!DmaInit,
         LCD!DmaInit, Lcd!LT24Init, LCD!LT24Init, Lcd!SlaveInit,
         LCD!SlaveInit, Lcd!ProgramInit, LCD!ProgramInit, Lcd!PanelOff,
         LCD!PanelOff, Lcd!Cleared, LCD!Cleared, Lcd!Registers,
         LCD!Registers, Lcd!BusReset, LCD!BusReset, Lcd!Pins, LCD!Pins

LEMMA LcdProgramSame ==
  \A acc, x, y :
    Lcd!ProgramTick(acc, x, y)
      <=> LCD!ProgramTick(acc, x, y)
  BY DEF Lcd!ProgramTick, LCD!ProgramTick, Lcd!LCD_turn_on, LCD!LCD_turn_on,
         Lcd!LCD_write_registers, LCD!LCD_write_registers, Lcd!Reconfigure,
         LCD!Reconfigure, Lcd!LCD_configure, LCD!LCD_configure,
         Lcd!LCD_display, LCD!LCD_display, Lcd!LCD_write_command,
         LCD!LCD_write_command, Lcd!LCD_write_data, LCD!LCD_write_data,
         Lcd!WriteCmdData, LCD!WriteCmdData, Lcd!WriteCmdOrData,
         LCD!WriteCmdOrData, Lcd!Compute, LCD!Compute, Lcd!Access,
         LCD!Access, Lcd!NoAccess, LCD!NoAccess, Lcd!Read, LCD!Read,
         Lcd!Write, LCD!Write, Lcd!TYPE_CMD, LCD!TYPE_CMD, Lcd!TYPE_DATA,
         LCD!TYPE_DATA, Lcd!CMD_DISPLAY, LCD!CMD_DISPLAY

LEMMA LcdSlaveSame ==
  \A acc, x :
    Lcd!SlaveTick(acc, x)
      <=> LCD!SlaveTick(acc, x)
  BY DEF Lcd!SlaveTick, LCD!SlaveTick, Lcd!send_signals, LCD!send_signals,
         Lcd!slave_write, LCD!slave_write, Lcd!slave_read, LCD!slave_read,
         Lcd!NoCommand, LCD!NoCommand, Lcd!TYPE_NO_OP, LCD!TYPE_NO_OP

LEMMA LcdDmaSame ==
  \A a, b, c, d, e, f, g :
    Lcd!DmaTick(a, b, c, d, e, f, g)
      <=> LCD!DmaTick(a, b, c, d, e, f, g)
  BY DEF Lcd!DmaTick, LCD!DmaTick, Lcd!transfer_start, LCD!transfer_start,
         Lcd!DmaINIT, LCD!DmaINIT, Lcd!DmaIDLE, LCD!DmaIDLE,
         Lcd!DmaREAD_REQUEST, LCD!DmaREAD_REQUEST, Lcd!DmaREAD_DATA,
         LCD!DmaREAD_DATA, Lcd!DmaVERIFY_ADDRESS, LCD!DmaVERIFY_ADDRESS,
         Lcd!DmaWAIT_DISPLAY, LCD!DmaWAIT_DISPLAY, Lcd!BUFFER_LENGTH,
         LCD!BUFFER_LENGTH

LEMMA LcdPinsSame ==
  \A a, b, c, d, e, f :
    Lcd!LT24Tick(a, b, c, d, e, f)
      <=> LCD!LT24Tick(a, b, c, d, e, f)
  BY DEF Lcd!LT24Tick, LCD!LT24Tick, Lcd!LtINIT, LCD!LtINIT, Lcd!LtWRITE_CMD,
         LCD!LtWRITE_CMD, Lcd!LtWRITE_DATA, LCD!LtWRITE_DATA,
         Lcd!LtWAIT_TRANSFER, LCD!LtWAIT_TRANSFER, Lcd!LtCHECK_FIFO,
         LCD!LtCHECK_FIFO, Lcd!LtDISPLAY, LCD!LtDISPLAY,
         Lcd!LtCHECK_TRANSFER, LCD!LtCHECK_TRANSFER, Lcd!BusIdle,
         LCD!BusIdle, Lcd!Drive, LCD!Drive, Lcd!Strobe, LCD!Strobe,
         Lcd!Release, LCD!Release, Lcd!Pins, LCD!Pins, Lcd!CMD_DISPLAY,
         LCD!CMD_DISPLAY

LEMMA LcdFifoSame ==
  \A r, w, d :
    Lcd!FifoClock(r, w, d)
      <=> LCD!FifoClock(r, w, d)
  BY DEF Lcd!FifoClock, LCD!FifoClock

LEMMA LcdMemorySame ==
  \A w, r :
    Lcd!MemoryTick(w, r)
      <=> LCD!MemoryTick(w, r)
  BY DEF Lcd!MemoryTick, LCD!MemoryTick, Lcd!am_read, LCD!am_read,
         Lcd!FIFO_almost_full, LCD!FIFO_almost_full

LEMMA LcdStreamSame ==
  \A acc :
    Lcd!StreamTick(acc)
      <=> LCD!StreamTick(acc)
  BY DEF Lcd!StreamTick, LCD!StreamTick, Lcd!LatchesWord, LCD!LatchesWord,
         Lcd!LatchesPixel, LCD!LatchesPixel, Lcd!Latches, LCD!Latches,
         Lcd!Received, LCD!Received, Lcd!Issues, LCD!Issues, Lcd!Writes,
         LCD!Writes, Lcd!Kind, LCD!Kind, Lcd!TYPE_CMD, LCD!TYPE_CMD,
         Lcd!CMD_DISPLAY, LCD!CMD_DISPLAY

LEMMA LcdCycleSame ==
  \A acc, w, r :
    Lcd!Cycle(acc, w, r)
      <=> LCD!Cycle(acc, w, r)
  BY LcdProgramSame, LcdSlaveSame, LcdDmaSame, LcdPinsSame, LcdFifoSame,
     LcdMemorySame, LcdStreamSame
  DEF Lcd!Cycle, LCD!Cycle, Lcd!Displaying, LCD!Displaying, Lcd!Transferring,
      LCD!Transferring, Lcd!CMD_DISPLAY, LCD!CMD_DISPLAY,
      Lcd!FIFO_almost_full, LCD!FIFO_almost_full, Lcd!FIFO_wrreq,
      LCD!FIFO_wrreq, Lcd!transfer_start, LCD!transfer_start, Lcd!FifoClear,
      LCD!FifoClear

LEMMA LcdResetSame == Lcd!Reset <=> LCD!Reset
  BY DEF Lcd!Reset, LCD!Reset, Lcd!DmaQuiet, LCD!DmaQuiet, Lcd!FifoClear,
         LCD!FifoClear, Lcd!DmaReset, LCD!DmaReset, Lcd!LT24Reset,
         LCD!LT24Reset, Lcd!SlaveReset, LCD!SlaveReset, Lcd!ProgramReset,
         LCD!ProgramReset, Lcd!PanelOff, LCD!PanelOff, Lcd!Cleared,
         LCD!Cleared, Lcd!Registers, LCD!Registers, Lcd!BusReset,
         LCD!BusReset, Lcd!Pins, LCD!Pins, Lcd!transfer_start,
         LCD!transfer_start

LEMMA LcdAccessesSame == Lcd!Accesses = LCD!Accesses
  BY DEF Lcd!Accesses, LCD!Accesses, Lcd!NoAccess, LCD!NoAccess, Lcd!Read,
         LCD!Read, Lcd!Write, LCD!Write, Lcd!TYPE_CMD, LCD!TYPE_CMD,
         Lcd!TYPE_DATA, LCD!TYPE_DATA, Lcd!Words, LCD!Words, Lcd!CMD_DISPLAY,
         LCD!CMD_DISPLAY

-----------------------------------------------------------------------------
(* Every step of the system is a step of both controllers. *)

LEMMA MainAccess ==
  ASSUME NEW acc \in main
  PROVE  /\ acc[1] \in Camera!CamAccesses /\ acc[2] \in Lcd!Accesses
         /\ ~Captured => acc[2] = NoAccess
  <1>1. /\ NoAccess \in Camera!CamAccesses /\ NoAccess \in Lcd!Accesses
    BY DEF NoAccess, Camera!NoAccess, Camera!CamAccesses, Lcd!NoAccess,
           Lcd!Accesses
  <1>2. CASE \E a \in Camera!CamAccesses : acc = <<a, NoAccess>>
    BY <1>1, <1>2
  <1>3. CASE \E a \in IF Captured /\ ~Returned THEN Lcd!Accesses
                      ELSE {NoAccess} :
               acc = <<NoAccess, a>>
    BY <1>1, <1>3
  <1>4. QED
    BY <1>2, <1>3 DEF main

LEMMA SystemCycle ==
  ASSUME SysTick
  PROVE  \E acc \in main, n \in 0..Len(arriving), cam_wait \in BOOLEAN,
            delivered \in BOOLEAN, lcd_wait \in BOOLEAN, valid \in BOOLEAN :
           /\ SysCycle(acc, cam_wait, n, delivered, lcd_wait, valid)
           /\ acc[1] \in CAM!CamAccesses /\ acc[2] \in LCD!Accesses
           /\ CAM!SysCycle(acc[1], cam_wait, n, delivered)
           /\ LCD!Cycle(acc[2], lcd_wait, valid)
  <1>1. PICK acc \in main, n \in 0..Len(arriving),
             cam_wait \in Free(avm_write, TRUE),
             delivered \in Free(cam_pc = "ready" /\ shot = 0, FALSE),
             lcd_wait \in Free(Lcd!am_read(Lcd!FIFO_almost_full), TRUE),
             valid \in Free(mem_left > 0, FALSE) :
               SysCycle(acc, cam_wait, n, delivered, lcd_wait, valid)
    BY DEF SysTick
  <1>2. /\ cam_wait \in BOOLEAN /\ delivered \in BOOLEAN
        /\ lcd_wait \in BOOLEAN /\ valid \in BOOLEAN
    BY DEF Free
  <1>3. /\ acc[1] \in CAM!CamAccesses /\ acc[2] \in LCD!Accesses
        /\ CAM!SysCycle(acc[1], cam_wait, n, delivered)
        /\ LCD!Cycle(acc[2], lcd_wait, valid)
    BY <1>1, MainAccess, CameraAccessesSame, LcdAccessesSame, CameraCycleSame,
       LcdCycleSame DEF SysCycle
  <1>4. QED
    BY <1>1, <1>2, <1>3

LEMMA CameraVariables == UNCHANGED vars => UNCHANGED CAM!vars
  BY DEF vars, cameraVars, CAM!vars, CAM!bufferVars, CAM!ctrlVars,
         CAM!masterVars, CAM!camSlaveVars, CAM!progVars, CAM!sensorVars

LEMMA LcdVariables == UNCHANGED <<lcdVars, resets>> => UNCHANGED LCD!vars
  BY DEF lcdVars, LCD!vars, LCD!fifoVars, LCD!dmaVars, LCD!lt24Vars,
         LCD!slaveVars, LCD!progVars, LCD!memVars, LCD!streamVars

LEMMA IsCameraStep == [Next]_vars => [CAM!Next]_(CAM!vars)
  <1>1. SysTick => CAM!SysTick
    BY SystemCycle DEF CAM!SysTick
  <1>2. PixTick => CAM!PixTick
    BY CameraPixSame DEF PixTick
  <1>3. Reset => CAM!Reset
    BY CameraResetSame DEF Reset
  <1>4. QED
    BY <1>1, <1>2, <1>3, CameraVariables DEF Next, CAM!Next

LEMMA IsLcdStep == [Next]_vars => [LCD!Next]_(LCD!vars)
  <1>1. SysTick => LCD!Tick
    BY SystemCycle DEF LCD!Tick
  <1>2. PixTick => UNCHANGED LCD!vars
    <2>1. PixTick => UNCHANGED <<lcdVars, resets>>
      BY DEF PixTick, Camera!PixTick
    <2>2. QED
      BY <2>1, LcdVariables
  <1>3. Reset => LCD!Reset
    BY LcdResetSame DEF Reset
  <1>4. UNCHANGED vars => UNCHANGED LCD!vars
    BY LcdVariables DEF vars
  <1>5. QED
    BY <1>1, <1>2, <1>3, <1>4 DEF Next, LCD!Next

(* What the camera controller does in the whole program is what its own    *)
(* specification allows: one capture, and no poll races with the pulse.    *)
THEOREM RunsTheCamera == Spec => CAM!Spec
  <1>1. Init => CAM!Init
    BY CameraInitSame DEF Init
  <1>2. QED
    BY <1>1, IsCameraStep, PTL DEF Spec, CAM!Spec

(* The same of the LCD controller: frames from one address, no display     *)
(* overtaken by the program, no reset that hits a transfer.                *)
THEOREM RunsTheLcd == Spec => LCD!Spec
  <1>1. Init => LCD!Init
    BY LcdInitSame DEF Init
  <1>2. QED
    BY <1>1, IsLcdStep, PTL DEF Spec, LCD!Spec

(* What was proved of the two controllers holds in the whole program. *)
PartsInv ==
  /\ CAM!TypeInv /\ CAM!FrameInv
  /\ LCD!TypeInv /\ LCD!DisplayInv

LEMMA PartsInvariance ==
  ASSUME Board
  PROVE  Spec => []PartsInv
  <1>1. CAM!Image /\ CAM!Memory /\ LCD!Board
    BY DEF Board
  <1>2. CAM!Spec => [](CAM!TypeInv /\ CAM!FrameInv)
    BY <1>1, CAM!FrameInvariance, CameraAssumption
  <1>3. LCD!Spec => []LCD!TypeInv
    BY LCD!TypeInvariance, CameraAssumption, LcdAssumption DEF LCD!CMD_DISPLAY
  <1>4. LCD!Spec => []LCD!DisplayInv
    BY <1>1, LCD!DisplayInvariance, CameraAssumption, LcdAssumption
    DEF LCD!CMD_DISPLAY
  <1>5. QED
    BY <1>2, <1>3, <1>4, RunsTheCamera, RunsTheLcd, PTL DEF PartsInv

-----------------------------------------------------------------------------
(* The order of the calls in main: until camera_capture has returned, the  *)
(* LCD controller has nothing to do and the panel shows nothing.           *)
OrderedInv == ~Captured => lcd_pc = "LCD_turn_on" /\ shown = <<>>

(* main captures once. *)
LEMMA CapturedStays ==
  ASSUME SysTick, Captured
  PROVE  Captured'
  <1>1. PICK acc, n, cam_wait, delivered :
               CAM!SysCycle(acc, cam_wait, n, delivered)
    BY SystemCycle
  <1>2. CAM!CaptureTick(acc, CAM!Reports)
    BY <1>1 DEF CAM!SysCycle
  <1>3. CAM!CamStep(acc)
    BY <1>2, CAM!ProgramMoves, CameraAssumption
  <1>4. QED
    BY <1>3 DEF CAM!CamStep, Captured

LEMMA IdleBefore ==
  ASSUME LCD!DisplayInv, lcd_pc = "LCD_turn_on"
  PROVE  LCD!Idle /\ ~Lcd!Displaying
  <1>1. LCD!Idle
    BY DEF LCD!DisplayInv, LCD!PhaseInv, LCD!Sent, LCD!Passed, LCD!Writing,
           LCD!Showing
  <1>2. QED
    BY <1>1 DEF LCD!Idle, Lcd!Displaying, Lcd!Transferring

LEMMA OrderedCycle ==
  ASSUME Board, PartsInv, OrderedInv, SysTick
  PROVE  OrderedInv'
  <1> SUFFICES ASSUME ~Captured' PROVE lcd_pc' = "LCD_turn_on" /\ shown' = <<>>
    BY DEF OrderedInv
  <1>1. ~Captured
    BY CapturedStays
  <1>2. lcd_pc = "LCD_turn_on" /\ shown = <<>>
    BY <1>1 DEF OrderedInv
  <1>3. PICK acc \in main, n \in 0..Len(arriving), cam_wait \in BOOLEAN,
             delivered \in BOOLEAN, lcd_wait \in BOOLEAN, valid \in BOOLEAN :
               /\ SysCycle(acc, cam_wait, n, delivered, lcd_wait, valid)
               /\ acc[2] \in LCD!Accesses
               /\ LCD!Cycle(acc[2], lcd_wait, valid)
    BY SystemCycle
  <1>4. lcd_pc' = lcd_pc
    BY <1>1, <1>3, MainAccess DEF SysCycle
  <1>5. shown' = shown
    <2>1. /\ LCD!Board /\ LCD!TypeInv
          /\ LCD!PowerInv /\ LCD!PhaseInv /\ LCD!PinsInv
          /\ LCD!DeliveryInv /\ LCD!ShownInv
      BY DEF Board, PartsInv, LCD!DisplayInv
    <2>2. LCD!Idle
      BY <1>2, IdleBefore DEF PartsInv
    <2>3. QED
      BY <1>3, <2>1, <2>2, LCD!StreamCycle, CameraAssumption, LcdAssumption
      DEF LCD!CMD_DISPLAY
  <1>6. QED
    BY <1>2, <1>4, <1>5

LEMMA OrderedStep ==
  ASSUME Board
  PROVE  PartsInv /\ OrderedInv /\ [Next]_vars => OrderedInv'
  <1> SUFFICES ASSUME PartsInv, OrderedInv, [Next]_vars PROVE OrderedInv'
    OBVIOUS
  <1>1. CASE SysTick
    BY <1>1, OrderedCycle
  <1>2. CASE PixTick
    <2>1. UNCHANGED <<cam_pc, shot, lcd_pc, shown>>
      BY <1>2 DEF PixTick, lcdVars, Camera!PixTick, Camera!progVars
    <2>2. QED
      BY <2>1 DEF OrderedInv, Captured
  <1>3. CASE Reset
    BY <1>3 DEF Reset, Lcd!Reset, Lcd!ProgramReset, OrderedInv
  <1>4. CASE UNCHANGED vars
    <2>1. UNCHANGED <<cam_pc, shot, lcd_pc, shown>>
      BY <1>4 DEF vars, cameraVars, lcdVars
    <2>2. QED
      BY <2>1 DEF OrderedInv, Captured
  <1>5. QED
    BY <1>1, <1>2, <1>3, <1>4 DEF Next

LEMMA OrderedInvariance ==
  ASSUME Board
  PROVE  Spec => []OrderedInv
  <1>1. Init => OrderedInv
    BY DEF Init, Lcd!Init, Lcd!ProgramInit, OrderedInv
  <1>2. QED
    BY <1>1, OrderedStep, PartsInvariance, PTL DEF Spec

-----------------------------------------------------------------------------
(* Where what is shown comes from.  This follows from what the LCD         *)
(* controller promises, PanelStream, with frames from one address only.    *)
InOrder ==
  /\ frame = 0
  /\ shown \in Seq(Nat) /\ Len(shown) <= FRAME_COLORS
  /\ \A i \in 1..Len(shown) : shown[i] = 4 * (i - 1)

LEMMA InOrderStep ==
  ASSUME CAM_BASE = 0, InOrder, [LCD!Stream!StreamNext]_(LCD!Stream!streamVars)
  PROVE  InOrder'
  <1>1. CASE \E kind \in LCD!Stream!Kinds, w \in LCD!Words, a \in {CAM_BASE} :
               LCD!Stream!Issue(kind, w, a)
    <2>1. frame' = 0 /\ shown' = shown
      BY <1>1 DEF LCD!Stream!Issue, InOrder
    <2>2. QED
      BY <2>1 DEF InOrder
  <1>2. CASE LCD!Stream!Deliver
    <2>1. frame' = frame /\ shown' \in {shown, <<>>}
      BY <1>2 DEF LCD!Stream!Deliver
    <2>2. CASE shown' = <<>>
      BY <2>1, <2>2, CameraAssumption DEF InOrder
    <2>3. CASE shown' = shown
      BY <2>1, <2>3 DEF InOrder
    <2>4. QED
      BY <2>1, <2>2, <2>3
  <1>3. CASE LCD!Stream!Pixel
    BY <1>3, CameraAssumption DEF LCD!Stream!Pixel, InOrder
  <1>4. CASE LCD!Stream!Restart
    BY <1>4, CameraAssumption DEF LCD!Stream!Restart, InOrder
  <1>5. CASE UNCHANGED LCD!Stream!streamVars
    BY <1>5 DEF LCD!Stream!streamVars, InOrder
  <1>6. QED
    BY <1>1, <1>2, <1>3, <1>4, <1>5 DEF LCD!Stream!StreamNext

LEMMA InOrderInvariance ==
  ASSUME Board
  PROVE  Spec => []InOrder
  <1>1. CAM_BASE = 0 /\ LCD!Board
    BY DEF Board, CAM!Memory
  <1>2. LCD!Spec => LCD!StreamSpec
    BY <1>1, LCD!ImplementsStream, CameraAssumption, LcdAssumption
    DEF LCD!CMD_DISPLAY
  <1>3. LCD!Stream!StreamInit => InOrder
    BY CameraAssumption DEF LCD!Stream!StreamInit, InOrder
  <1>4. InOrder /\ [LCD!Stream!StreamNext]_(LCD!Stream!streamVars) => InOrder'
    BY <1>1, InOrderStep
  <1>5. QED
    BY <1>2, <1>3, <1>4, RunsTheLcd, PTL
    DEF LCD!StreamSpec, LCD!Stream!StreamSpec

-----------------------------------------------------------------------------
(* The properties.                                                         *)

(* While the LCD controller has anything to do, camera_capture has         *)
(* returned, the camera controller is at rest and its frame is stored.     *)
LEMMA AtRest ==
  ASSUME PartsInv, Captured
  PROVE  /\ CAM!Still /\ CAM!AddressInv /\ CAM!BusInv
         /\ \A k \in 0..(FRAME_COLORS - 1) : mem[4 * k] = CAM!Word(shot, k)
  <1>1. CAM!Complete
    BY DEF PartsInv, Captured, CAM!FrameInv, CAM!Phase
  <1>2. \A k \in 0..(FRAME_COLORS - 1) : mem[4 * k] = CAM!Word(shot, k)
    BY <1>1, CameraAssumption DEF CAM!Complete, CAM!Stored
  <1>3. QED
    BY <1>1, <1>2 DEF CAM!Complete, PartsInv, CAM!FrameInv

LEMMA WordSame == \A n, k : CAM!Word(n, k) = Camera!Word(n, k)
  BY DEF CAM!Word, Camera!Word, CAM!Color, Camera!Color, CAM!Copies,
         Camera!Copies, CAM!LineLength, Camera!LineLength, CAM!ColorsOfLine,
         Camera!ColorsOfLine, CAM!PixelAt, Camera!PixelAt

(* The i-th pixel on the panel is the color that belongs in the i-th word  *)
(* of the frame, of the image that was captured: camera_init and           *)
(* LCD_write_registers name the same frame, one controller writes it in    *)
(* the order in which the other reads it, and nothing is read before all   *)
(* of it is written.  This holds with either memory; with the image of     *)
(* camera_init and one that makes the master wait, nothing is ever shown.  *)
THEOREM CapturedIsShown ==
  ASSUME Board
  PROVE  Spec => []ShownIsCaptured
  <1>1. PartsInv /\ OrderedInv /\ InOrder => ShownIsCaptured
    <2> SUFFICES ASSUME PartsInv, OrderedInv, InOrder, NEW i \in 1..Len(shown)
                 PROVE  /\ shown[i] \in DOMAIN mem
                        /\ mem[shown[i]] = Camera!Word(shot, i - 1)
      BY DEF InOrder, ShownIsCaptured
    <2>1. /\ shown[i] = 4 * (i - 1) /\ i - 1 \in 0..(FRAME_COLORS - 1)
          /\ shown # <<>>
      BY CameraAssumption DEF InOrder
    <2>2. Captured
      BY <2>1 DEF OrderedInv
    <2>3. mem[4 * (i - 1)] = CAM!Word(shot, i - 1)
      BY <2>1, <2>2, AtRest
    <2>4. 4 * (i - 1) \in DOMAIN mem
      <3>1. DOMAIN mem = CAM!Addresses /\ CAM_BASE = 0
        BY DEF PartsInv, CAM!TypeInv, CAM!TypeOK, Board, CAM!Memory
      <3>2. QED
        BY <2>1, <3>1, CameraAssumption DEF CAM!Addresses
    <2>5. QED
      BY <2>1, <2>3, <2>4, WordSame
  <1>2. QED
    BY <1>1, PartsInvariance, OrderedInvariance, InOrderInvariance, PTL

(* The one capture of main fills the frame in order and returns only when  *)
(* it is complete, with either memory and either image, whatever the LCD   *)
(* controller does besides.                                                *)
THEOREM FrameStored ==
  ASSUME Board, NoColor \notin Nat
  PROVE  Spec => FrameIsStored
  <1>1. CAM!Spec => CAM!StoreSpec
    BY CAM!ImplementsStore, CameraAssumption DEF Board
  <1>2. \A n, k : CAM!Store!Words = Camera!Store!Words
                  /\ CAM!Word(n, k) = Camera!Word(n, k)
    BY WordSame DEF CAM!Store!Words, Camera!Store!Words
  <1>3. CAM!Store!StoreInit => Camera!Store!StoreInit
    BY <1>2 DEF CAM!Store!StoreInit, Camera!Store!StoreInit, CAM!Blank,
                Camera!Blank
  <1>4. CAM!Store!Filled = Camera!Store!Filled
    BY <1>2 DEF CAM!Store!Filled, Camera!Store!Filled
  <1>5. [CAM!Store!StoreNext]_(CAM!Store!storeVars) =>
          [Camera!Store!StoreNext]_(Camera!Store!storeVars)
    <2>1. CAM!Store!Begin => Camera!Store!Begin
      BY DEF CAM!Store!Begin, Camera!Store!Begin
    <2>2. CAM!Store!Store => Camera!Store!Store
      BY <1>2, <1>4 DEF CAM!Store!Store, Camera!Store!Store
    <2>3. CAM!Store!Return => Camera!Store!Return
      BY <1>2, <1>4 DEF CAM!Store!Return, Camera!Store!Return
    <2>4. CAM!Store!Restart => Camera!Store!Restart
      BY <1>2 DEF CAM!Store!Restart, Camera!Store!Restart, CAM!Blank,
                  Camera!Blank
    <2>5. UNCHANGED CAM!Store!storeVars => UNCHANGED Camera!Store!storeVars
      BY DEF CAM!Store!storeVars, Camera!Store!storeVars
    <2>6. QED
      BY <2>1, <2>2, <2>3, <2>4, <2>5
      DEF CAM!Store!StoreNext, Camera!Store!StoreNext
  <1>6. QED
    BY <1>1, <1>3, <1>5, RunsTheCamera, PTL
    DEF CAM!StoreSpec, CAM!Store!StoreSpec, FrameIsStored, Camera!StoreSpec,
        Camera!Store!StoreSpec

(* The memory is still while a frame is displayed, although nothing locks  *)
(* it: the LCD controller only gets a command after camera_capture has     *)
(* returned, and by then the last word is written and the master waits     *)
(* for an image that no trigger asks for.                                  *)
THEOREM MemoryIsStill ==
  ASSUME Board
  PROVE  Spec => MemoryStill
  <1>1. PartsInv /\ OrderedInv /\ PartsInv' /\ OrderedInv' /\ [Next]_vars =>
          [Lcd!Displaying /\ resets' = resets
             => UNCHANGED mem /\ ~avm_write']_vars
    <2> SUFFICES ASSUME PartsInv, OrderedInv, PartsInv', Next,
                        Lcd!Displaying, resets' = resets
                 PROVE  mem' = mem /\ ~avm_write'
      OBVIOUS
    <2>1. Captured
      BY IdleBefore DEF OrderedInv, PartsInv
    <2>2. CAM!Still /\ CAM!AddressInv /\ CAM!BusInv
      BY <2>1, AtRest
    <2>3. CASE SysTick
      <3>1. PICK acc \in main, n \in 0..Len(arriving), cam_wait \in BOOLEAN,
                 delivered \in BOOLEAN, lcd_wait \in BOOLEAN,
                 valid \in BOOLEAN :
                   /\ SysCycle(acc, cam_wait, n, delivered, lcd_wait, valid)
                   /\ acc[1] \in CAM!CamAccesses /\ acc[2] \in LCD!Accesses
                   /\ CAM!SysCycle(acc[1], cam_wait, n, delivered)
                   /\ LCD!Cycle(acc[2], lcd_wait, valid)
        BY <2>3, SystemCycle
      <3>2. CAM!Still' /\ CAM!Held
        BY <2>2, <3>1, CAM!StillCycle, CameraAssumption DEF Board, PartsInv
      <3>3. CAM!AddressInv'
        BY DEF PartsInv, CAM!FrameInv
      <3>4. QED
        BY <3>2, <3>3 DEF CAM!Still, CAM!Held, CAM!AddressInv
    <2>4. CASE PixTick
      BY <2>2, <2>4 DEF PixTick, Camera!PixTick, Camera!masterVars, CAM!Still,
         CAM!AddressInv
    <2>5. CASE Reset
      <3>1. resets \in Nat /\ resets' = resets + 1
        BY <2>5, CameraAssumption
        DEF Reset, Camera!Reset, PartsInv, CAM!TypeInv, CAM!TypeOK
      <3>2. QED
        BY <3>1
    <2>6. QED
      BY <2>3, <2>4, <2>5 DEF Next
  <1>2. QED
    BY <1>1, PartsInvariance, OrderedInvariance, PTL DEF Spec, MemoryStill
=============================================================================
