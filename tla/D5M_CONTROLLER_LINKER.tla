------------------------ MODULE D5M_CONTROLLER_LINKER ------------------------
(***************************************************************************)
(* The camera controller (D5M_CONTROLLER_LINKER.vhd): slave, master and    *)
(* camera interface wired together, with the program and the memory on     *)
(* one side and the sensor on the other.                                   *)
(*                                                                         *)
(* There are two clocks and so two kinds of steps: PixTick, an edge of the *)
(* sensor's pixel clock, and SysTick, an edge of the system clock.  They   *)
(* interleave freely.  Start and stop cross from one to the other as they  *)
(* are, the colors through the Buffer FIFO.                                *)
(*                                                                         *)
(* A pixel is its number, counted over the rows of all captures, so that   *)
(* every color tells which pixels it was made of.                          *)
(***************************************************************************)
EXTENDS Buffer_FIFO, D5M_CTRL, D5M_MASTER, camera_utils, FiniteSets

CONSTANTS
  SENSOR_COLUMNS, SENSOR_ROWS,  (* the image the sensor sends              *)
  HBLANK,                       (* pixel clocks between two rows           *)
  MinWait,                      (* cycles the memory makes the master wait *)
                                (* after every write it accepts            *)
  Prompt,                       (* or it never makes it wait               *)
  MaxResets                     (* bound on the resets of a behaviour      *)

ASSUME SensorAssumption ==
  /\ SENSOR_COLUMNS \in Nat \ {0} /\ SENSOR_ROWS \in Nat \ {0}
  /\ HBLANK \in Nat \ {0}
  /\ MinWait \in Nat /\ Prompt \in BOOLEAN /\ (Prompt => MinWait = 0)
  /\ MaxResets \in Nat

VARIABLES
  exposing,   (* the sensor was triggered and has not sent the image       *)
  row, col,   (* the pixel it sends; row SENSOR_ROWS between two images    *)
  mem,        (* the memory, word by word                                  *)
  mem_busy,   (* cycles left in which it makes the master wait             *)
  resets      (* resets so far                                             *)

sensorVars == <<exposing, row, col>>
vars == <<bufferVars, ctrlVars, masterVars, camSlaveVars, progVars, sensorVars,
          mem, mem_busy, resets>>

Addresses == {4 * i : i \in 0..(CAM_BASE \div 4 + FRAME_COLORS - 1)}

Init ==
  /\ BufferInit
  /\ CtrlInit
  /\ MasterInit(DATA_LENGTH, Blank)
  /\ CamSlaveInit
  /\ ProgramInit
  /\ exposing = FALSE /\ row = SENSOR_ROWS /\ col = 0
  /\ mem = [a \in Addresses |-> Blank]
  /\ mem_busy = 0
  /\ resets = 0

-----------------------------------------------------------------------------
(* The sensor sends an image row by row, with HBLANK clocks between two,   *)
(* after an exposure that outlasts the two register writes with which      *)
(* camera_capture starts the controller.                                   *)

fval == row < SENSOR_ROWS
lval == fval /\ col < SENSOR_COLUMNS

PixelAt(n, y, x) == (n * SENSOR_ROWS + y) * SENSOR_COLUMNS + x

pixel == IF lval THEN PixelAt(shot, row, col) ELSE NoColor

Expose ==
  /\ ~fval /\ exposing
  /\ start_o /\ ctrl_state = "BUSY"
  /\ exposing' = FALSE
  /\ row' = 0 /\ col' = 0

Scan ==
  /\ fval
  /\ IF col < SENSOR_COLUMNS + HBLANK - 1
     THEN col' = col + 1 /\ UNCHANGED row
     ELSE col' = 0 /\ row' = row + 1
  /\ UNCHANGED exposing

SensorTick ==
  \/ Expose
  \/ Scan
  \/ ~fval /\ UNCHANGED sensorVars

(* An edge of the pixel clock.  The memory keeps up with the sensor: the   *)
(* Buffer FIFO is not full when a color is written to it.  It is cleared   *)
(* asynchronously outside the state BUSY.                                  *)
PixTick ==
  /\ buffer_write => ~BufferFull
  /\ CtrlTick(fval, lval, pixel, start_o, stop_o)
  /\ IF ctrl_state' = "IDLE" THEN BufferClear
     ELSE WrClock(buffer_write, output_color) /\ UNCHANGED waiting
  /\ SensorTick
  /\ UNCHANGED <<masterVars, camSlaveVars, progVars, mem, mem_busy, resets>>

-----------------------------------------------------------------------------
(* The memory accepts a write in a cycle without waitrequest.  A prompt    *)
(* one accepts it in the first.                                            *)
MemoryTick(waitrequest) ==
  LET accepted == avm_write /\ ~waitrequest
  IN  /\ ~waitrequest => mem_busy = 0
      /\ Prompt => ~(avm_write /\ waitrequest)
      /\ mem' = IF accepted THEN [mem EXCEPT ![avm_address] = avm_writedata] ELSE mem
      /\ mem_busy' = IF accepted THEN MinWait
                     ELSE IF mem_busy > 0 THEN mem_busy - 1 ELSE 0

(* There is a color every four pixel clocks of half the system clock's     *)
(* rate at most (camera_init divides it by two); a master that need not    *)
(* wait is done with one in four cycles, so it always finds the next alone.*)
Paced(n) == Prompt => n = 0 \/ (n = 1 /\ rdempty /\ mas_state = "WAITING_DATA")

(* The master reports a frame in this cycle or in the next. *)
Reports == frame_sent_o \/ (mas_state = "WAITING_WRITE" /\ datalength_bridge = 0)

(* An edge of the system clock with the access of the program, the         *)
(* waitrequest of the memory, and n colors that become visible; delivered: *)
(* the sensor gets the trigger.  If it refuses it, trdb_d5m_write returns  *)
(* false, which camera_capture does not look at.                           *)
SysCycle(acc, waitrequest, n, delivered) ==
  /\ CaptureTick(acc, Reports)
  /\ CamSlaveTick(acc, frame_sent_o)
  /\ MasterTick(cam["CamAddr"], cam["CamLength"], rdempty,
                IF rdempty THEN Blank ELSE buffer_q, waitrequest)
  /\ RdClock(RREQ, n) /\ Paced(n)
  /\ MemoryTick(waitrequest)
  /\ exposing' = (exposing \/ (shot' # shot /\ delivered))
  /\ UNCHANGED <<ctrlVars, row, col, resets>>

SysTick ==
  \E acc \in CamAccesses, waitrequest, delivered \in BOOLEAN, n \in 0..Len(arriving) :
    SysCycle(acc, waitrequest, n, delivered)

(* The reset of the board: processor, controller and sensor.  What the     *)
(* memory holds is not to be relied on afterwards.                         *)
Reset ==
  /\ resets < MaxResets
  /\ BufferClear
  /\ CtrlReset
  /\ MasterReset(DATA_LENGTH)
  /\ CamSlaveReset
  /\ ProgramReset
  /\ exposing' = FALSE /\ row' = SENSOR_ROWS /\ col' = 0
  /\ mem' = [a \in Addresses |-> Blank]
  /\ mem_busy' = 0
  /\ resets' = resets + 1

Next == PixTick \/ SysTick \/ Reset

Spec == Init /\ [][Next]_vars

(* Fairness: both clocks run, an exposure ends, colors cross the Buffer    *)
(* FIFO, the memory accepts a write that waits, the program gets on.       *)
Exposes  == PixTick /\ exposing /\ ~exposing'
Crosses  == SysTick /\ Len(arriving') < Len(arriving)
Accepts  == SysTick /\ avm_write /\ mem' # mem
Proceeds == SysTick /\ pc' # pc /\ pc # "ready"
Fairness ==
  /\ WF_vars(PixTick) /\ WF_vars(SysTick)
  /\ WF_vars(Exposes) /\ WF_vars(Crosses) /\ WF_vars(Accepts) /\ WF_vars(Proceeds)

FairSpec == Spec /\ Fairness

-----------------------------------------------------------------------------
(* Properties.                                                             *)

(* The Bayer FIFO knows no rows: a line is what fills it, twice its level  *)
(* in pixels, and the k-th color of capture n is made of the k-th group of *)
(* four pixels of a line and of those below it in the next line.  Pixels   *)
(* are numbered along the rows.                                            *)
LineLength == 2 * BAYER_LINE
ColorsOfLine == BAYER_LINE \div 2

Color(n, k) ==
  LET first == PixelAt(n, 0, 2 * LineLength * (k \div ColorsOfLine) + 4 * (k % ColorsOfLine))
  IN  [g1 |-> first,             r  |-> first + 1,
       b  |-> first + LineLength, g2 |-> first + LineLength + 1]

(* What the k-th word of the frame holds after capture n.  A master that   *)
(* need not wait writes every color to two words: in the cycle after the   *)
(* first was accepted its read request is only on its way to the FIFO, and *)
(* it presents the color again.                                            *)
Copies == IF Prompt THEN 2 ELSE 1
Word(n, k) == Color(n, k \div Copies)

(* The k-th color of an image with rows of LineLength pixels: the cell of  *)
(* two by two pixels that starts the k-th group of four columns of two     *)
(* rows.                                                                   *)
CellsOfRow == SENSOR_COLUMNS \div 4

Cell(n, k) ==
  LET y == 2 * (k \div CellsOfRow)
      x == 4 * (k % CellsOfRow)
  IN  [g1 |-> PixelAt(n, y, x),     r  |-> PixelAt(n, y, x + 1),
       b  |-> PixelAt(n, y + 1, x), g2 |-> PixelAt(n, y + 1, x + 1)]

(* The types of the variables. *)
TypeOK ==
  /\ arriving \in Seq([b : Int, g1 : Int, g2 : Int, r : Int])
  /\ waiting \in Seq([b : Int, g1 : Int, g2 : Int, r : Int])
  /\ CtrlTypeOK
  /\ MasterTypeOK([b : Int, g1 : Int, g2 : Int, r : Int])
  /\ CamSlaveTypeOK
  /\ ProgramTypeOK
  /\ exposing \in BOOLEAN
  /\ row \in 0..SENSOR_ROWS /\ col \in 0..(SENSOR_COLUMNS + HBLANK - 1)
  /\ mem \in [Addresses -> [b : Int, g1 : Int, g2 : Int, r : Int]]
  /\ mem_busy \in 0..MinWait
  /\ resets \in 0..MaxResets

(* A color is written to the Buffer FIFO two edges after its last pixel    *)
(* came; by then it is still the color of a whole cell of this capture:    *)
(* its four pixels are adjacent and nothing newer has been mixed in.       *)
(* (Debayering Process, BUFFER FIFO Process.)                              *)
WholeCells ==
  buffer_write => \E k \in 0..(FRAME_COLORS - 1) : output_color = Cell(shot, k)

(* The switch between filling and emptying the Bayer FIFO comes an edge    *)
(* after the level it depends on; no pixel is pushed or popped in between, *)
(* so that the FIFO never holds more than a row and is never read empty.   *)
BayerInStep ==
  /\ usedw <= BAYER_LINE
  /\ bayer_fifo_push => usedw < BAYER_LINE
  /\ bayer_fifo_pop => usedw > 0

(* The read request to the Buffer FIFO, decided a cycle earlier, finds the *)
(* color it takes.  (WAITING_WRITE.)                                       *)
NoBufferUnderflow == RREQ => ~rdempty

(* The master writes into the frame camera_init configured and nowhere     *)
(* else.  (startAddr_bridge.)                                              *)
WritesStayInFrame ==
  avm_write => CAM_BASE <= avm_address /\ avm_address < CAM_BASE + DATA_LENGTH

(* When a stop makes the camera interface clear both FIFOs, no pixel and   *)
(* no color of the frame is still on its way, and none is to come (the     *)
(* blank after the last row may still last).                               *)
StopLosesNothing ==
  [][ctrl_state = "BUSY" /\ ctrl_state' = "IDLE" /\ resets' = resets =>
       /\ bayer = <<>> /\ ~pixel_valid /\ ~color_ready /\ ~buffer_write
       /\ arriving = <<>> /\ waiting = <<>>
       /\ fval => row = SENSOR_ROWS - 1 /\ ~lval]_vars

(* The controller implements the frame store: the words of the frame are   *)
(* filled in order with the colors of the capture, camera_capture does not *)
(* return before the last, and none of them changes afterwards.            *)
Store == INSTANCE FrameStore WITH
  memory    <- [k \in 0..(FRAME_COLORS - 1) |-> mem[CAM_BASE + 4 * k]],
  capturing <- pc \in {"stop0", "start1", "poll", "hold"}
StoreSpec == Store!StoreSpec

(* Every capture the sensor was triggered for returns, unless the board is *)
(* reset.                                                                  *)
CaptureReturns == pc = "stop0" /\ exposing ~> pc \in {"ready", "address"}
=============================================================================
