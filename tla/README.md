# Verification of the camera and display system of Lab 4

TLA+ models, TLC configurations and TLAPS proofs for the system in
`src/lab_4_merged`: a Nios II program on a DE0-Nano-SoC that takes a picture
with a TRDB-D5M camera into the SDRAM and shows it on an LT24 display, through
two controllers written in VHDL. The directory
`src/ThanhVinh..._Lab4_Miniproject` holds byte-identical copies of these
sources; `src/lab_4_camera` and `src/lab_4_lcd` are earlier stages of the two
halves. All sources are cited from `src/lab_4_merged`, VHDL from `hw/hdl`, C
from `sw/nios/application`.

## 1. The system

| Part | Source | State | Operations | Model |
|---|---|---|---|---|
| LCD register slave | `Slave_Interface.vhd` | six registers, their registered copies | write, read, clear by `cmd_data_ready` | `Slave_Interface` |
| LCD DMA master | `Master_Interface_DMA.vhd` | FSM of 6 states, addresses, burst counter, `transfer_start` (a latch) | bursts from SDRAM to FIFO | `Master_Interface_DMA` |
| Pixel FIFO | `FIFO_entity.vhd`, `FIFO.vhd` | words, `almost_full` | push, pop, clear by the DMA | `FIFO` |
| LT24 bus interface | `LT24_Interface.vhd` | FSM of 7 states, cycle counter, pins | commands, parameters, pixels, each a write cycle of several clocks | `LT24_Interface` |
| LCD controller | `LCD_controller.vhd` | wiring | | `LCD_controller` |
| LCD driver | `LT24_utils.c` | none (the program counter) | `LCD_init`, `LCD_configure`, `LCD_display` | `LT24_utils` |
| Camera register slave | `AVALON_SLAVE.vhd` | five registers, `iFrameSent`, `FrameSent_rst` | write, read, receive the pulse, acknowledge | `D5M_SLAVE` |
| Camera master | `AVALON_MASTER.vhd` | FSM of 3 states, next address, bytes left, registered bus | writes colors to SDRAM | `D5M_MASTER` |
| Camera interface | `D5M_CTRL.vhd`, `Bayer_FIFO.vhd` | state, column and row counters, a line of pixels, a color | downsampling, debayering | `D5M_CTRL` |
| Buffer FIFO | `Buffer_FIFO.vhd` | colors between two clocks | write, read, clear | `Buffer_FIFO` |
| Camera controller | `D5M_CONTROLLER_LINKER.vhd` | wiring | | `D5M_CONTROLLER_LINKER` |
| Camera driver | `camera_utils.c` | none | `camera_init`, `camera_capture` | `camera_utils` |
| I2C driver | `i2c/i2c.c` | none | `i2c_init`, `i2c_configure`, write and read of registers of the sensor | `i2c` |
| I2C interface | `ip/i2c/hdl/i2c_interface.vhd` | data, divisor, command bits, interrupt enable and pending, two line registers | write, read, take the command bits back, interrupt | `i2c_interface` |
| I2C core | `ip/i2c/hdl/i2c_core.vhd`, `i2c_clkgen.vhd` | FSM of 31 states, bit counter, base clock | START, STOP, byte and acknowledgement, out and in | `i2c_core`, `i2c_clkgen` |
| Test patterns | `SD_utils.c` | the SDRAM | fill a range, rows of colors, import a file | `SD_utils` |
| Program | `main.c` | none | init, capture, configure, display | `System` |
| Sensor emulator | `ip/cmos_sensor_output_generator/hdl/` | six registers, FSM of 6 states, counters | write, read, start, stop, frames | `cmos_sensor_output_generator` |
| Emulator driver | `cmos_sensor_output_generator.c` (in `src/lab_4_camera`) | none | init, configure, start, stop | `generator_driver` |
| Top level | `DE0_Nano_SoC_TRDB_D5M_LT24_top_level.vhd` | wiring | clock, reset, pins | `System` |
| Interconnect, HPS, board support package | generated | | | not modelled |

The program talks to the two controllers and to the I2C master through
registers. It never polls the LCD controller, polls the camera controller for
one bit and the I2C master before and after every byte. Inside the LCD
controller everything runs on one clock and the FSMs signal each other by
one-cycle pulses (`start_out`, `display_finished`, `cmd_data_ready`) and one
level (`transfer_start`); the data goes through the FIFO. The camera controller
has two clocks; start and stop cross as they are, colors through the
dual-clock FIFO, the end of a frame is a one-cycle pulse into a sticky bit.
Both controllers are Avalon masters of the same SDRAM. The sensor emulator is a
stand-in for the sensor during development; the merged system does not contain
it.

What is hard here: pulses that must find their receiver listening; flags looked
at a cycle or more before they matter (`almost_full`, `empty`, the level of the
Bayer FIFO, the acceptance of a write); a reset that reaches some registers and
not others; a driver that relies on its own slowness; acknowledgement by
reading; a status read before the command in front of it has taken effect; two
masters of one memory that only the order of two calls keeps apart.
PROJECT.json lists these hazards with the line where each bites.

## 2. Modules

    Avalon   Frame                        FrameStore   PanelStream
      |        |                             (abstract specifications)
    Slave_Interface --- LT24_utils ---+
    FIFO, Master_Interface_DMA, ------+-- LCD_controller -- MC_LCD
    LT24_Interface                    |        +-- LCD_proofs
                                                     +-- LCD_refinement
    Avalon
      |
    D5M_SLAVE --- camera_utils -------+
    D5M_MASTER, D5M_CTRL, ------------+-- D5M_CONTROLLER_LINKER -- MC_CAM
    Buffer_FIFO                                +-- CAM_proofs
                                                     +-- CAM_refinement
    Avalon
      |
    i2c_interface --- i2c ---+
    i2c_core, i2c_clkgen ----+-- I2C_system -- MC_I2C -- I2C_proofs
                                                           +-- I2C_transfer_proofs

    LCD_controller, D5M_CONTROLLER_LINKER ---- System -- MC_SYSTEM
                    LCD_refinement, CAM_refinement --- SYSTEM_proofs

    Avalon                                          VideoTiming (abstract)
      |                                                  |
    cmos_sensor_output_generator -- generator_driver -- SENSOR_system -- MC_SENSOR
                                                     +-- SENSOR_proofs
    Frame -- SD_utils

Each hardware module has its registers as variables and an operator `...Tick`
that gives their values after a clock edge from the values before it, with the
inputs as arguments; one operator per FSM state. Asynchronous resets are
operators of their own. A register that the code does not assign in some branch
is UNCHANGED there. The drivers have a program counter that names the register
access made next; a cycle makes one access at most.

### LCD controller

A step `Tick` of `LCD_controller` is a clock cycle: slave, DMA, FIFO, LT24
interface and program move together. Free choices are the access of the
program, `waitrequest` and `readdatavalid` of the SDRAM, each within its
protocol. The SDRAM holds at every address that address, so each pixel tells
where it came from. `Reset` is the reset of the board (`nReset` is driven by
the key, the HPS and the debugger through `soc_system.qsys`).

The panel latches a word at the rising edge of WRX. `panel` keeps what it got;
`pending` and `frame` keep what the program asked for; these make up the state
of the abstract specification `PanelStream`: a word handed over reaches the
panel exactly once, and the display command is followed by the pixels of one
frame, in order, each once.

The processor is external and slow. `Gap` says how many cycles lie at least
between the write that issues a word and the write of the next word: 6 (so the
next `CmdData` write is in the seventh cycle). With 5 the next word overtakes
the one before and `StreamSpec` fails. Between the two lie the return of a
function, a call and its prologue on a Nios II at the same clock. The
program issues no word during a display; the code does not enforce it, but `main`
makes no call after `LCD_display`, and `LCD_init` displays nothing.

### Camera controller

`D5M_CONTROLLER_LINKER` has two kinds of steps, `PixTick` and `SysTick`, one
for each clock, interleaved freely: no ratio between the clocks is assumed, except
that a prompt memory sees the colors one at a time (`Paced`, below). A
pixel is its number, counted over the rows of all captures, a color the record
of its four pixels: mixing colors, rows or captures shows.

`FrameStore` is the promise: after a capture has begun the words of the frame
are filled one after the other with the colors of that capture, and
`camera_capture` returns only when all are. `Word` says which color a word gets
(see below).

Assumptions about what surrounds the controller, each where it is used:

* `Expose`: the exposure outlasts the register writes after the trigger. The
  trigger itself may be lost, since `camera_capture` does not look at what
  `trdb_d5m_write` returns: then no exposure begins and the program polls for
  good.
* `PixTick`: the memory keeps up, the Buffer FIFO is not full when written to.
* The memory is of one of two kinds, since the source does not tell which one the
  board has. With `MinWait >= 2` it asserts `waitrequest` for at least two
  cycles after each write it accepts. Address, read request and data of the
  master follow an acceptance one, two and three cycles later
  (`AVALON_MASTER.vhd:66-84`), so that each color is then written once. With
  `Prompt` it never asserts `waitrequest` against a write. The master then has the
  color on the bus once more while its read request is on the way, and writes
  it to two consecutive words (`Copies`), if it finds the next color alone: the
  pixel clock is half of the 50 MHz the sensor gets
  (`D5M_CONTROLLER_LINKER.vhd:133`, `camera_utils.c:98`), a color takes four of
  its clocks, the master four of the system's (`Paced`). A memory that mixes
  the two, a `waitrequest` of one cycle or one now and then, gets some colors
  twice and misses others; it is in neither the runs nor the proofs.
* `CAM_BASE = 0`: the master latches the image address in the first cycle
  after a reset (`AVALON_MASTER.vhd:54`), because the reset value of the length
  is not 0; the address `camera_init` writes counts from the second frame on.
  With another base `WritesStayInFrame` fails; `HPS_0_BRIDGES_BASE` is 0.
* `PollRace = FALSE`: the end of a frame does not fall into a poll
  (`CAM_poll`).

The image. The constants 640 and x"9FF" of `D5M_CTRL.vhd` are made for rows of
1280 pixels: of four columns two are kept (`DownSampling`), and 640 kept
pixels fill the Bayer FIFO. `camera_init` configures another image,
640 columns by 480 rows after binning by 4 (`camera_utils.c:96-100`), and a
frame of 320 * 240 = 76800 colors (`camera_utils.c:80`). Both are covered:

* `SENSOR_COLUMNS = LineLength` (`= 2 * BAYER_LINE`), rows of one line. A color is
  a cell of two by two adjacent pixels. No caller in the repository configures such rows.
* `SENSOR_COLUMNS = BAYER_LINE`, the image of `camera_init`. Two rows make a line,
  a color is made of two pixels of one row and the two two rows below
  (`CAM_binning`), and 480 rows give 120 pairs of lines of 320 colors: 38400, half
  of what the master counts.

What becomes of the image of `camera_init` depends on the memory. If it makes
the master wait, half of the frame stays empty, the master reports nothing and
`camera_capture` polls forever (`CAM_configured`). If it is prompt, 38400 colors
fill 76800 words, the capture returns and the display shows each color twice
(`SYSTEM`). `camera_capture` could return on the board in the second case only.

`valid_row` in `D5M_CTRL.vhd`, which is to skip rows as the columns are skipped
(line 134), is never assigned '0': no row is skipped. It is left out; so is
`iCamSnapshot`, which nothing reads.

### I2C master

A step of `I2C_system` is a clock cycle of core, interface, base clock, driver,
lines and device. Times are kept: a state of the core lasts a period of the
base clock or one cycle, outputs and lines are registered, and the status the
program reads is as late as in the hardware. SCL is driven both ways
(`i2c_interface.vhd:183`), SDA is pulled down or let go. While it is idle the
core drives the lines with what it saw on them two cycles before.

The device is external and sees the lines only. It may refuse any byte it is
sent and answer with any byte of `DeviceBytes`. `seen` is what went over the
bus since the call began: START, bytes, STOP. The driver is one script of
commands for each call, and the accesses of a command with the polls before
and after it; between two accesses any number of cycles may pass. The board is
reset at any time: `RESET_N` of the sensor is the reset of the system
(`D5M_CONTROLLER_LINKER.vhd:132`, `camera_controller_0_conduit_end_reset` at the
top level), so the device begins afresh with the master.

`i2c_configure` writes the control register twice: STP, which does nothing,
then the interrupt enable. Every command of a transfer writes the whole
register and so clears the enable (`i2c_interface.vhd:295-300`); the interrupt
"at the end of a read/write transfer" that `i2c.c:102` announces never comes
(`I2C_interrupt`).
What does come, if an earlier transfer left `i_int_pe_reg` set, is an interrupt
right after `i2c_configure(true)`.

### Whole program

`System` instantiates `D5M_CONTROLLER_LINKER` and `LCD_controller` with their
drivers; a step `SysTick` is a cycle of both, `PixTick` an edge of the pixel
clock, `Reset` the reset of both. `main` makes one access a cycle, and those to
the LCD controller come after `camera_capture` has returned (`Captured`).
`CAM_BASE` is the start address of both. The LCD side reads addresses; the
color on the panel is what `mem` holds there. `CameraAssumption` and
`LcdAssumption` say of the constants what the two controllers' modules assume
of theirs.

### Sensor emulator

A step of `SENSOR_system` is a clock cycle of generator and driver. The program
calls `init`, `configure`, `start` and `stop` in any order with geometries in
and out of bounds. In the code each state has a counter of its own; all but the
height counter are set to 1 on entry and read in that state only, so the model
has one, `count`. `VideoTiming` says of every clock since the start, by its
number alone, what `frame_valid`, `line_valid` and `data` are.

`Gap = 1`: a cycle at least lies between two accesses of the processor. With
`Gap = 0` a `stop` in the cycle after a `start` finds the state still IDLE and
is dropped (`cmos_sensor_output_generator.vhd:109`); a call and a return take
longer. A height of 0, which the hardware would accept and never leave
`STATE_VALID` with, is refused by the driver.

### Test patterns

`SD_utils` has the four functions as actions on a frame of six words; a call is
one step, nothing else accesses the memory meanwhile.

## 3. Runs

### LCD

`LCD` (108192 states): frames of 6 words in bursts of 2 through a FIFO of
4 words that is almost full at 3, two buffers, one command, two parameter
words, one of them equal to the display command, one reset while no transfer is
in progress. The FIFO is small enough to fill and to run empty in every frame, three bursts
make a frame so that there is a first, a middle and a last one, and a second
frame meets what the first left behind. It checks

* `ReservedSpace`: words in the FIFO and words still to come from a burst never
  exceed the FIFO. The DMA looks at `almost_full` once, before it asks.
* `NoUnderflow`: a read request, decided the cycle before, finds a word.
* `PulsesHeard`: both pulses find the other FSM listening.
* `ReadsStayInFrame`: every burst lies in the configured frame.
* `RequestHeld`: a read that waits is neither withdrawn nor changed.
* `WriteCycle`: data, DCX, CSX and RESX are stable around the latching edge.
* `NothingDiscarded`: when the DMA clears the FIFO every word has been sent.
* `StreamSpec`: the controller implements `PanelStream`.
* `EveryWordArrives`: every word the program issues reaches the panel.
* `DisplayCompletes`: every display sends a whole frame and ends.

Fairness: the clock runs (`Tick`), the SDRAM accepts a read and answers it
eventually (`Accepts`, `Answers`). Nothing is assumed about the program.

A run that ends in a violation, because the code disagrees with what it says of
itself:

* `LCD_reset`: `nReset` does not reset the state of the DMA's FSM. A reset
  during a transfer leaves it in `READ_REQUEST` or `READ_DATA`, where it does
  not hear the next `start_out`: the next display never completes. (In
  simulation `next_state` is INIT during the reset but is clocked into `state`
  only outside it.)

`end_address` is computed with `WORD_LENGTH` = 32 (`Master_Interface_DMA.vhd:193`),
which is `4 * RegBurstTot` for the value 8 only; with other lengths
`ReadsStayInFrame` fails. The configurations keep the two in step, as
`LCD_write_registers` does.

### Camera

`CAM` (14062 states): two captures of four colors, two in a row of the image,
rows of one line, a memory that makes the master wait, a trigger that may be lost,
and a reset anywhere; a Buffer FIFO of three, so that it fills up.
Two cells in a row and two pairs of rows are the least in which a color has a
left and a right, an upper and a lower neighbour, the row counter wraps within
a frame, and a second capture shows what the first left behind. Rows are
followed by a blank of two pixels, so that the program may stop the interface
within the last one. It checks

* `WholeCells`: the color written two edges after its last pixel is still that
  color, made of the four pixels of one cell.
* `BayerInStep`: `push_state` follows the level of the Bayer FIFO an edge late,
  but no pixel is pushed or popped in between.
* `NoBufferUnderflow`: a read request finds the color it takes.
* `WritesStayInFrame`: the master writes inside the configured frame.
* `StopLosesNothing`: when a stop clears the FIFOs, nothing is under way, and
  nothing but the blank after the last row is still to come.
* `StoreSpec`: the controller implements `FrameStore`.

Runs that end in a violation:

* `CAM_configured`: the image of `camera_init` in proportion, four by four pixels
  with lines of eight, and a frame of four colors, a quarter of the pixels. With a
  memory that makes the master wait two colors arrive, the master waits for
  the others and the program for the master: `CaptureReturns` fails.
* `CAM_binning`: the same image. The FIFO takes two rows for one, and colors are
  made of pixels two rows apart; `WholeCells` fails.
* `CAM_poll`: the same image with a prompt memory, which fills the frame. A
  poll occupies two cycles. A pulse in one of them sets
  `iFrameSent` for a single cycle; the acknowledgement clears it although the
  program read 0. `camera_capture` never returns. With a poll every
  millisecond it is rare and no test would find it. `PollRace` is TRUE in this run
  only; that a capture returns without the race is part of `ImageIsShown` of the
  run `SYSTEM`.

Fairness in the two runs of `CaptureReturns`: both clocks run, an exposure ends
(`Exposes`), a color becomes visible on the other side of the Buffer FIFO
(`Crosses`), the memory accepts a write (`Accepts`), the program makes its next
access (`Proceeds`).

### I2C

`I2C` (89007 states): three calls, each a write or a read of two bytes as
`trdb_d5m_write` and `trdb_d5m_read` make them or a switch of the interrupt,
a reset at any time, a device that refuses any byte
or none, two bytes it may answer, complementary in every bit. Three calls, so
that one follows a failed one and a transfer may lie on each side of a switch
of the interrupt; the divisor is 4 instead of 125, long enough for
the lines to follow every state (with 1 and 2 the properties hold as well, with
0 `AckIsFresh` fails). It checks

* `Delivered`: a call that returns `I2C_SUCCESS` has put exactly its
  transaction on the wires, and the bytes it returns are those the device sent.
* `CommandStands`: the core never works without a command, and the program never
  writes one while the core still takes back the one before. `cmd_done` is high
  for a cycle after TIP has fallen; that a read takes two cycles saves it.
* `AckIsFresh`: the acknowledgement read is that of the byte just sent.
* `PollingIsQuiet`: no interrupt falls into a transfer, whose end the driver polls
  for, and none comes at its end (against what the code says, `I2C_interrupt`).
* `BusConditions`: SDA moves while SCL is high in START and STOP only.
* `CallReturns`: every call returns, whatever the device refuses, unless the
  board is reset.

Fairness: the clock runs (`Cycle`) and the program makes its next access.

Two runs of two calls end in a violation:

* `I2C_stop`: when a byte is refused, the driver writes STP alone, on which the
  core does nothing. SCL stays low until the next call.
* `I2C_interrupt`: a transfer that begins with the interrupt enabled raises none,
  neither when it succeeds nor when a byte is refused.

### Whole program

`SYSTEM` (11827 states): a capture of the image of `camera_init` in proportion,
four columns by eight rows with lines of eight pixels, into a frame of eight
words, a prompt memory, and the display in bursts of
two through a FIFO of four, one command and one parameter word of the panel's
configuration, a lost trigger, a reset. Two pairs of lines of two colors fill the
eight words twice each. What is new here is how the two controllers meet, with
the image and the one kind of memory for which `main` gets to its end. It checks

* `ShownIsCaptured`: the i-th pixel on the panel is the color the i-th word of the
  frame has to hold of the image taken after this trigger.
* `FrameIsStored`: the capture of `main` implements `FrameStore`: the words are
  filled in order, two with each color, and `camera_capture` returns only when
  all are.
* `MemoryStill`: while the display reads the frame, the camera controller neither
  writes nor asks to.
* `ImageIsShown`: an image whose exposure began is on the panel in the end,
  unless the board is reset. With a memory that makes the master wait it fails,
  as `CAM_configured` shows for the capture alone.

Fairness is that of the two controllers and of the processor. `LCD_configure`
sends a fixed list of words; since the model abstracts it to a choice among
them, `Displays` gets strong fairness: the list ends.

### Sensor emulator

`SENSOR` (6357 states): registers of two bits, frames of up to 3 by 3 pixels of
three bits (the driver bounds width and height alike by the larger of
`MAX_WIDTH` and `MAX_HEIGHT`), so that the pixel number wraps; one geometry with
every blank at its minimum, one with every blank present, two out of bounds.
The board is reset at any time. It checks

* `ConfigureResult`: `configure` returns true just if all values are in bounds, and
  then the registers hold them. The stop it begins with takes two cycles to
  reach the state machine; the status is read in time because the check of the
  first value lies between.
* `CommandsObeyed`: frames are sent just if the last call was `start`. Start and
  stop are ignored in the wrong state, but no sequence of calls gets there.
* `VideoSpec`: the generator implements `VideoTiming`.
* `FrameCompletes`: a frame that has begun ends.

Fairness: the clock runs (`Tick`).

### Test patterns

`SD_fill` ends in a violation: `SD_fill_color` passes the address of the last
pixel as the upper bound of a loop that excludes it; the last pixel keeps its
color, and `SD_fill_range` accepts no bound that would reach it. The same holds
for the last row of `SD_fill_rows_RGB`.

## 4. Proofs

The theorems hold for every value of the constants that their hypotheses admit:
frame sizes, burst lengths, FIFO depths, divisors, geometries. `Next` of each
composition is split into one lemma for each component and, under it, a step
for each state of its FSM.

### LCD controller

The first part of `LCD_proofs`, without what happens during a display:

* `Typing`: `TypeInv` adds `CounterInv` to `TypeOK`: the cycle and pixel counters
  of the LT24 interface stay in range only because of what each of its states
  leaves in them for the next.
* `SpaceIsReserved`, under `Setup`: no reset during a transfer, and
  `almost_full_value - 1 + REG_BURST_TOT <= lpm_numwords`. The system has 256
  words, `almost_full` at 224 and bursts of 8. `ReservedSpace` is not inductive:
  words come back only in `READ_DATA`, `mem_left` must be what the burst counter
  has not seen (`BurstCounted`), and the burst length must be the one configured
  before the display began (`BurstSettled`). `SpaceInv` is the conjunction. The
  theorem shows how far the numbers in `FIFO.vhd` may be changed.
* `RequestsAreHeld`: while a read waits no word arrives, so `almost_full` cannot
  rise.

The rest of `LCD_proofs` and `LCD_refinement`, under `Board`. To `Setup` this adds what
the program and its numbers give: no word during a display, `Gap >= 6`,
`WORD_LENGTH = 4 * REG_BURST_TOT` (32 and 8 in the system; see `end_address` in
section 3), and a frame that is a whole number of bursts (76800 pixels). The
invariant `DisplayInv` follows a word through five phases:
`Idle`, `Sent` (it is in the slave's registers), `Passed` (in their copies),
`Writing` (on the bus) and, after the display command, `Showing`. What gap, flags,
registers and pins may be is said phase by phase; the DMA is awake just while
the display is served (`HandshakeInv`), and a conservation law (`CountInv`,
`OrderInv`) says that the addresses asked for are those taken off the FIFO, those in it
and those still to come, in order. It gives

* `NeverUnderflows`, `PulsesAreHeard`, `ReadsStay`, `WriteCycles`,
  `NothingIsDiscarded`: the properties of the run `LCD`, and
* `ImplementsStream`: `Spec => StreamSpec`. A step of the controller delivers a
  word to the panel, shows a pixel, takes a word from the program or is
  invisible.

### Camera controller

`CAM_proofs`:

* `Typing`, without hypotheses. That `row` stays in range needs the sensor to
  keep to its frame, `RegisterInv`.
* `WritesStay`, with `CAM_BASE = 0`: `AddressInv` relates next address and
  bytes left, which the master resets and reloads separately.
* the lemmas on the bus (`BusInv`: what accepted, removed and held data are in
  each of the cycles after an acceptance) and on the program's accesses
  (`ProgramInv`: which phase of start, poll and stop the registers are in) that
  the next module rests on.

`CAM_refinement` proves the rest of the run's safety properties,
`NeverReadEmpty`, `BayerKeepsStep`, `ColorsAreCells`, `StopsLoseNothing`, and
`ImplementsStore`, that is `Spec => StoreSpec`, under two hypotheses:

* `Memory`: `CAM_BASE = 0`, either kind of memory (`Prompt` or `MinWait >= 2`, see
  section 2), and a frame that is a whole number of colors as often as they are
  written (`Copies`).
* `Image`: either image, `SENSOR_COLUMNS = LineLength`, or `SENSOR_COLUMNS = BAYER_LINE`
  with `Fold = 2` rows to a line; pairs of lines, `ROW_END` one less than a
  multiple of 4, and a frame that holds at least what the image makes. The
  board is among them with the one memory or the other: `BAYER_LINE` = 640,
  640 columns, 480 rows, x"9FF" = 2559, 76800 words. With the waiting memory its
  image makes less than the frame holds; the theorems say what is stored and
  that the capture does not return too early, not that it returns.

Two of them need more. `NeverReadEmpty` takes a memory that makes the master
wait: with a prompt one the second read request of every color finds the FIFO
empty, which does no harm. `ColorsAreCells` takes rows of one line; it is false for
those of `camera_init` (`CAM_binning`).

`ImplementsStore` also takes `NoColor`, what a word of the memory holds before it is
written, to be different from every pixel number.

With a memory that makes the master wait there is no hypothesis on the two clocks; with
a prompt one there is `Paced`, which the pixel clock of `camera_init` gives. `PollRace` is not needed either: the
race makes the program wait for good, which safety allows. The invariant has three parts:

* `PixelInv`: everything in the pixel pipeline (counters, Bayer FIFO, the color
  being made) is determined by the position of the sensor. This is where the
  constants of `D5M_CTRL.vhd` fit together.
* `BusInv`, `AddressInv`, `ProgramInv`, from `CAM_proofs`; `BusInv` is `WaitingBus`
  or `PromptBus`, the cycles after an acceptance with each kind of memory.
* `Phase`: a capture is `Fresh`, `Filling` or `Complete`. While it fills, the
  colors taken by the master, those waiting in the Buffer FIFO and those on
  their way across the clocks are the colors made so far, in order; the words
  written to the memory are the first of them, `Copies` words each, with one
  color in the master's hands for the cycles after each acceptance.

### I2C master

`I2C_proofs`, for every device, divisor, set of calls and number of bytes:

* `CommandsStand`: `HandshakeInv` has the core, the two command bits and the
  point of the driver in step. The end of a command takes three cycles
  (`cmd_done`, the interface takes the bits back, `i_cmd_done_ack`), the poll that
  sees TIP fallen two, and one more passes before the next access counts.
* `PollingStaysQuiet`: `InterruptInv`. A pending interrupt is let out by
  `i2c_configure` only, and what was let out is acknowledged by the first write of
  the next command.
* `BitsAreNoConditions`, if the divisor is 1 at least (the system has 125):
  `LineInv` says, for each state of the core, what it drives and what it has
  left on the lines two cycles before, which is what it repeats while idle.

`I2C_transfer_proofs`, with both divisors (reset value and `i2c_init`) 1 at least, and
again for every device, set of calls and number of bytes:

* `Typing`, with it the bound on what goes over the bus in a call;
* `AckFresh`: the acknowledgement that is read is that of the byte just sent;
* `Delivers`: SUCCESS means the whole transaction on the bus, as the device sees it,
  and the device's own bytes in `value`.

None of them is inductive, and nothing short of the single bits is. `BitInv` says
for each state of the core

* where SCL is on both sides of its register (`ClockStages`): the device sees a level a
  cycle after the core sets it, so that each state has the edge in its first
  cycle, and, by `DataStages`, where SDA may still follow;
* how far the device is (`StartStages`, `WriteStages`, `ReadStages`,
  `StopStages`): `Receiving(k)` has the first k bits of the byte the driver wrote,
  `Offering(k)` has put k bits of its own byte on the line, of which the core
  has the first k - 1 or k (`Agree`);
* what the bus has seen: what came before the command, its START, its byte and
  its STOP.

Between two commands the driver's point takes over (`TransferInv`): the bus has
seen what the script says up to `step` (`Prior`), the device waits for the next
byte or has put the first bit of one on the line, and SCL is low except before
a START and after a STOP. A device that has refused a byte has left the bus (`Off`), so that
the next call finds it as the first did. Scripts and logs are handled through lemmas
about their command number `step` (`CommandOf`, `PriorOf`, `LogOf`, `NextCommand`,
`LastCommand`). TLC has checked `BitInv` for one, two and three bytes, at divisors 1, 2
and 4, on a device that may refuse.

### Sensor emulator

`SENSOR_proofs`, with `Gap >= 1`:

* `Typing`; `CommandsAreObeyed` from `CommandInv` (a command that has been written is
  executed before the program's next access); `ConfigureDoes` from
  `ConfigureInv` (which registers hold the new value at each point of the driver,
  and that the generator has stopped before the first of them is written).
* `ImplementsVideo`: `Spec => VideoSpec`, for every geometry within bounds.
  `FrameInv` gives state, `count` and pixel number from the time since the start.

`RegisterAssumption` (`REG_VALUES` is a number) is stated because `REG_VALUES`
is a power; that a power of two is a natural number needs induction.

### Whole program

`SYSTEM_proofs` composes the proofs about the two controllers. It instantiates
`CAM_refinement` and `LCD_refinement` with the variables of `System`, one capture,
one start address, no word during a display and no reset within a transfer.

* `RunsTheCamera` and `RunsTheLcd`: `Spec => CAM!Spec` and `Spec => LCD!Spec`. `SysTick`
  restricts the choices of both, so every step of the program is a step, or no
  step, of each. What was proved of either thus holds in the whole program:
  `PartsInv` is their two invariants. (`CAM` and `Camera`, `LCD` and `Lcd`, are
  instances of the same definitions; the prover does not know that and is told so
  in the lemmas named `...Same`.)
* `CapturedIsShown`, `FrameStored` and `MemoryIsStill`, the safety properties of
  the run `SYSTEM`, under `Board`: the hypotheses `Image` and `Memory` of the camera
  and `Board` of the LCD. They cover the image `camera_init` configures with either
  kind of memory. With the one that makes the master wait the first and the
  last hold because nothing is ever shown; with the prompt one, which `SYSTEM`
  has, everything is. `FrameStored` is `ImplementsStore` carried over by
  `RunsTheCamera`.

`CapturedIsShown` and `MemoryIsStill` do not follow from the two controllers alone; nothing in the hardware keeps
the display from beginning before the image is there. Two invariants add
what `main` does:

* `OrderedInv`: until `camera_capture` has returned the LCD driver is at its first
  call and the panel shows nothing. It is inductive with `PartsInv` only: that no
  pixel appears takes `StreamCycle` of `LCD_refinement` in the phase `Idle`, that a
  capture that has returned stays so takes `ProgramMoves` of `CAM_proofs`.
* `InOrder`: pixel i on the panel was read from address 4(i-1). It is an
  invariant of the abstract `PanelStream`, not of the controller, and comes over
  by `ImplementsStream`.

Once `camera_capture` has returned, `Phase` of the camera is `Complete`: the memory
holds at 4k the k-th `Word` of the image and the master is `Still`. With `InOrder`
the colors on the panel are these words, and `StillCycle` says that the master
stays still whatever the LCD controller does meanwhile. TLC has checked
`PartsInv` and the two invariants on the instance of `SYSTEM`.

### What stays with TLC

* Liveness: `EveryWordArrives`, `DisplayCompletes`, `CallReturns`, `ImageIsShown`,
  `FrameCompletes`.
* The disagreements with the code's own claims, which are counterexamples.

## 5. Not modelled

* `LCD_turn_off` and the `read_..._reg` functions of the emulator's driver, never
  called. `trdb_d5m_read` is not called either, but the I2C runs read registers
  the way it does. `SD_import_image` without a file exits.
* `valid_row` and `iCamSnapshot` (see above), which have no effect.
* Metastability, propagation delays, and the electrical side of the pins.
* The arithmetic of the colors (sum of the greens, cut to five bits).
* The interconnect generated by Qsys: the compositions state what they need
  of it. The HPS only provides the memory.
* The board support packages, the `db/` directories, the handoff files and the
  preloader's DDR sequencer (`sequencer.c`, 10885 lines in each copy): vendor
  code that tools generate, the same in any design with this board. They are
  almost all of the C in the repository, so that the models, which cover nearly
  every line the authors and the course wrote, cover a small share of it.
  `src/lab_4_camera`, `src/lab_4_lcd` and the other copies repeat the sources
  that are modelled.

## 6. State

Every component is checked. Every safety property of a passing run is proved,
for the whole program too, and so are the three refinements. Open: an abstract
specification of the I2C master in terms of the sensor's registers; a memory that
mixes accepting at once and making the master wait; and liveness, which the prover
does not reach.
