-------------------------------- MODULE System --------------------------------
(***************************************************************************)
(* The whole program, main.c, on both controllers: camera_init and         *)
(* camera_capture, then LCD_init and LCD_display.  The processor, the two  *)
(* controllers and the memory share the system clock, so that one step of  *)
(* it, SysTick, is a step of both compositions; the pixel clock of the     *)
(* sensor ticks on its own.                                                *)
(*                                                                         *)
(* The processor is one: it makes at most one access in a cycle, and it    *)
(* turns to the LCD only after camera_capture has returned.  The camera    *)
(* controller writes the memory the LCD controller reads.  As in           *)
(* LCD_controller, a pixel on the panel is the address it was read from;   *)
(* what the panel shows is what the memory holds there.                    *)
(*                                                                         *)
(* main captures what camera_init configures: a sensor with 640 columns    *)
(* and 480 rows after binning, and a frame of 76800 colors, a quarter of   *)
(* its pixels (camera_utils.c:80-100).  The camera controller makes half   *)
(* as many colors of such an image.  A memory that never makes its master  *)
(* wait gets each of them twice (Prompt), which fills the frame; with one  *)
(* that does, camera_capture does not return, and main ends there.         *)
(***************************************************************************)
EXTENDS Integers, Sequences

CONSTANTS
  (* of the camera controller *)
  buffer_numwords, BAYER_LINE, ROW_END, NoColor, FRAME_COLORS, CAM_BASE,
  SENSOR_COLUMNS, SENSOR_ROWS, HBLANK, MinWait, Prompt,
  (* of the LCD controller *)
  WORD_LENGTH, REG_BURST_TOT, lpm_numwords, almost_full_value, Gap, HiZ,
  NoPixel, Commands, DataWords, MaxPending,
  (* of both *)
  MaxResets

(* What the two controllers assume of these constants. *)
ASSUME CameraAssumption ==
  /\ buffer_numwords \in Nat \ {0}
  /\ BAYER_LINE \in Nat \ {0} /\ ROW_END \in Nat /\ NoColor \in Int
  /\ FRAME_COLORS \in Nat \ {0} /\ CAM_BASE \in Nat
  /\ SENSOR_COLUMNS \in Nat \ {0} /\ SENSOR_ROWS \in Nat \ {0}
  /\ HBLANK \in Nat \ {0}
  /\ MinWait \in Nat /\ Prompt \in BOOLEAN /\ (Prompt => MinWait = 0)
  /\ MaxResets \in Nat

(* 0x2C = 44 is the command of LCD_display; LCD_configure does not send it. *)
ASSUME LcdAssumption ==
  /\ WORD_LENGTH \in Nat /\ REG_BURST_TOT \in Nat \ {0}
  /\ lpm_numwords \in Nat \ {0} /\ almost_full_value \in 1..lpm_numwords
  /\ NoPixel \in Nat
  /\ Commands \subseteq (1..255) \ {44} /\ DataWords \subseteq Nat
  /\ Gap \in Nat /\ MaxPending \in Nat

VARIABLES
  (* of the camera controller *)
  arriving, waiting, ctrl_state, data_bridge, row_counter, col_counter,
  pixel_valid, bayer, push_state, color_ready, output_color, buffer_write,
  mas_state, startAddr_bridge, datalength_bridge, avm_write, avm_address,
  avm_writedata, RREQ, frame_sent_o, cam, iFrameSent, FrameSent_rst,
  readdata, cam_pc, shot, exposing, row, col, mem, mem_busy,
  (* of the LCD controller *)
  fifo, FIFO_q, FIFO_empty, dma_state, burst_cnt, burst_tot,
  current_address, end_address, transfer_latch, lt_state, cnt_cycles, cnt,
  pins, LT24_LCD_ON, cmd_data_ready, display_finished, start_out,
  FIFO_rdreq, reg, out, as_readdata, lcd_pc, word, command, gap, mem_left,
  mem_addr, pending, panel, frame, shown,
  (* of both *)
  resets

Camera == INSTANCE D5M_CONTROLLER_LINKER WITH
  pc <- cam_pc, MaxCaptures <- 1, PollRace <- FALSE

Lcd == INSTANCE LCD_controller WITH
  pc <- lcd_pc, IMG_WORD_LEN <- FRAME_COLORS, StartAddresses <- {CAM_BASE},
  AnyReset <- FALSE

cameraVars ==
  <<arriving, waiting, ctrl_state, data_bridge, row_counter, col_counter,
    pixel_valid, bayer, push_state, color_ready, output_color, buffer_write,
    mas_state, startAddr_bridge, datalength_bridge, avm_write, avm_address,
    avm_writedata, RREQ, frame_sent_o, cam, iFrameSent, FrameSent_rst,
    readdata, cam_pc, shot, exposing, row, col, mem, mem_busy>>

lcdVars ==
  <<fifo, FIFO_q, FIFO_empty, dma_state, burst_cnt, burst_tot,
    current_address, end_address, transfer_latch, lt_state, cnt_cycles, cnt,
    pins, LT24_LCD_ON, cmd_data_ready, display_finished, start_out,
    FIFO_rdreq, reg, out, as_readdata, lcd_pc, word, command, gap, mem_left,
    mem_addr, pending, panel, frame, shown>>

vars == <<cameraVars, lcdVars, resets>>

Init == Camera!Init /\ Lcd!Init

-----------------------------------------------------------------------------
NoAccess == Camera!NoAccess

(* Mutant of Captured: main does not wait for camera_capture to return. *)
CaptureBegun == shot = 1

(* camera_capture has returned. *)
Captured == shot = 1 /\ cam_pc = "ready"

(* main has returned. *)
Returned == command = Lcd!CMD_DISPLAY /\ lcd_pc = "ready"

(* The accesses of a cycle, to the camera and to the LCD controller: the   *)
(* processor makes one at a time, and those of LCD_init and LCD_display    *)
(* come after camera_capture.                                              *)
main ==
  {<<acc, NoAccess>> : acc \in Camera!CamAccesses}
  \union {<<NoAccess, acc>> :
             acc \in IF Captured /\ ~Returned THEN Lcd!Accesses ELSE {NoAccess}}

(* An edge of the system clock: the accesses; for the camera the           *)
(* waitrequest, the colors that cross the Buffer FIFO and the fate of the  *)
(* trigger; for the LCD the waitrequest and the readdatavalid.  LCD_init   *)
(* is called once: the LCD program goes on only with an access.            *)
SysCycle(acc, cam_wait, n, delivered, lcd_wait, readdatavalid) ==
  /\ Lcd!Cycle(acc[2], lcd_wait, readdatavalid)
  /\ acc[2] = NoAccess => lcd_pc' = lcd_pc
  /\ Camera!SysCycle(acc[1], cam_wait, n, delivered)

(* An input is free only where something depends on it. *)
Free(matters, otherwise) == IF matters THEN BOOLEAN ELSE {otherwise}

SysTick ==
  \E acc \in main, n \in 0..Len(arriving),
     cam_wait \in Free(avm_write, TRUE),
     delivered \in Free(cam_pc = "ready" /\ shot = 0, FALSE),
     lcd_wait \in Free(Lcd!am_read(Lcd!FIFO_almost_full), TRUE),
     readdatavalid \in Free(mem_left > 0, FALSE) :
    SysCycle(acc, cam_wait, n, delivered, lcd_wait, readdatavalid)

(* An edge of the pixel clock. *)
PixTick == Camera!PixTick /\ UNCHANGED lcdVars

(* The reset of the board. *)
Reset == Camera!Reset /\ Lcd!Reset

Next == SysTick \/ PixTick \/ Reset

Spec == Init /\ [][Next]_vars

(* Fairness: that of the two controllers, and main gets through the        *)
(* finitely many words of LCD_configure to LCD_display.                    *)
Exposes     == exposing /\ PixTick /\ ~exposing'
Crosses     == arriving # <<>> /\ SysTick /\ Len(arriving') < Len(arriving)
Stores      == avm_write /\ SysTick /\ mem' # mem
CamProceeds == cam_pc # "ready" /\ SysTick /\ cam_pc' # cam_pc
Accepts     == dma_state = "READ_REQUEST" /\ SysTick /\ mem_left' > mem_left
Answers     == mem_left > 0 /\ SysTick /\ mem_left' < mem_left
LcdProceeds == Captured /\ lcd_pc # "ready" /\ SysTick /\ lcd_pc' # lcd_pc
Displays    == Captured /\ lcd_pc = "ready" /\ SysTick /\ lcd_pc' = "command"
                 /\ command' = Lcd!CMD_DISPLAY
Fairness ==
  /\ WF_vars(PixTick) /\ WF_vars(SysTick)
  /\ WF_vars(Exposes) /\ WF_vars(Crosses) /\ WF_vars(Stores) /\ WF_vars(CamProceeds)
  /\ WF_vars(Accepts) /\ WF_vars(Answers) /\ WF_vars(LcdProceeds)
  /\ SF_vars(Displays)

FairSpec == Spec /\ Fairness

-----------------------------------------------------------------------------
(* Properties.                                                             *)

(* The i-th pixel on the panel is the color the i-th word of the frame has *)
(* to hold of the image the sensor sent after this trigger: the two        *)
(* controllers agree on where the frame is, in which order and how long.   *)
(* (camera_init, LCD_write_registers.)                                     *)
ShownIsCaptured ==
  /\ Len(shown) <= FRAME_COLORS
  /\ \A i \in DOMAIN shown :
       shown[i] \in DOMAIN mem /\ mem[shown[i]] = Camera!Word(shot, i - 1)

(* The capture main makes implements the frame store: the words of the     *)
(* frame get their colors one after the other, two words each with this    *)
(* memory, and camera_capture returns only when all of them have.          *)
FrameIsStored == Camera!StoreSpec

(* While the LCD controller reads the frame and shows it, the camera       *)
(* controller does not write: nothing but the order of the calls in main   *)
(* and the end of camera_capture keeps them apart.                         *)
MemoryStill ==
  [][Lcd!Displaying /\ resets' = resets => UNCHANGED mem /\ ~avm_write']_vars

(* An image whose exposure began is on the panel in the end, complete,     *)
(* unless the board is reset before.                                       *)
ImageIsShown ==
  exposing ~> Len(shown) = FRAME_COLORS \/ shot = 0
=============================================================================
