------------------------------ MODULE CAM_proofs ------------------------------
(***************************************************************************)
(* Proofs about the camera controller with its program, its memory and the *)
(* sensor: types, the bus, the pixels of a row and the colors of a frame.  *)
(***************************************************************************)
EXTENDS D5M_CONTROLLER_LINKER, SequenceTheorems, TLAPS

-----------------------------------------------------------------------------
(* Types.                                                                  *)

Colors == [b : Int, g1 : Int, g2 : Int, r : Int]

LEMMA BlankColor == Blank \in Colors
  BY CtrlAssumption DEF Blank, Colors

Names == {"b", "g1", "g2", "r"}

LEMMA ColorShape ==
  /\ \A c \in Colors : c = [f \in Names |-> c[f]] /\ \A f \in Names : c[f] \in Int
  /\ \A c : c = [f \in Names |-> c[f]] /\ (\A f \in Names : c[f] \in Int) => c \in Colors
  BY DEF Colors, Names

(* The two steps in which a color is put together. *)
LEMMA FirstHalf ==
  ASSUME NEW c \in Colors, NEW x \in Int, NEW y \in Int,
         NEW d, d = [c EXCEPT !.b = x, !.g1 = y]
  PROVE  d \in Colors /\ d.b = x /\ d.g1 = y
  <1>1. /\ d = [f \in Names |-> d[f]]
        /\ d.b = x /\ d.g1 = y /\ d.g2 = c.g2 /\ d.r = c.r
    BY ColorShape DEF Names
  <1>2. c.g2 \in Int /\ c.r \in Int
    BY DEF Colors
  <1>3. d \in Colors
    BY <1>1, <1>2, ColorShape DEF Names
  <1>4. QED
    BY <1>1, <1>3

LEMMA SecondHalf ==
  ASSUME NEW c \in Colors, NEW x \in Int, NEW y \in Int,
         NEW d, d = [c EXCEPT !.g2 = x, !.r = y]
  PROVE  d \in Colors /\ d = [b |-> c.b, g1 |-> c.g1, g2 |-> x, r |-> y]
  <1>1. /\ d = [f \in Names |-> d[f]]
        /\ d.b = c.b /\ d.g1 = c.g1 /\ d.g2 = x /\ d.r = y
    BY ColorShape DEF Names
  <1>2. c.b \in Int /\ c.g1 \in Int
    BY DEF Colors
  <1>3. d \in Colors
    BY <1>1, <1>2, ColorShape DEF Names
  <1>4. d = [b |-> d.b, g1 |-> d.g1, g2 |-> d.g2, r |-> d.r]
    BY <1>1 DEF Names
  <1>5. QED
    BY <1>1, <1>3, <1>4

LEMMA Nothing == <<>> \in Seq(Colors) /\ <<>> \in Seq(Int)
  BY EmptySeq

LEMMA Tails ==
  ASSUME NEW S, NEW s \in Seq(S), s # <<>>
  PROVE  /\ Head(s) \in S /\ Head(s) = s[1]
         /\ Tail(s) \in Seq(S) /\ Len(Tail(s)) = Len(s) - 1
         /\ Len(s) \in Nat /\ Len(s) >= 1
         /\ \A i \in 1..(Len(s) - 1) : Tail(s)[i] = s[i + 1]
  BY EmptySeq, HeadTailProperties

LEMMA Appends ==
  ASSUME NEW S, NEW s \in Seq(S), NEW e \in S
  PROVE  /\ Append(s, e) \in Seq(S) /\ Len(Append(s, e)) = Len(s) + 1 /\ Len(s) \in Nat
         /\ \A i \in 1..Len(s) : Append(s, e)[i] = s[i]
         /\ Append(s, e)[Len(s) + 1] = e
  BY AppendProperties, LenProperties

(* What crosses the Buffer FIFO. *)
LEMMA Crossing ==
  ASSUME NEW S, NEW s \in Seq(S), NEW n \in 0..Len(s)
  PROVE  /\ SubSeq(s, 1, n) \in Seq(S) /\ Len(SubSeq(s, 1, n)) = n
         /\ \A i \in 1..n : SubSeq(s, 1, n)[i] = s[i]
         /\ SubSeq(s, n + 1, Len(s)) \in Seq(S) /\ Len(SubSeq(s, n + 1, Len(s))) = Len(s) - n
         /\ \A i \in 1..(Len(s) - n) : SubSeq(s, n + 1, Len(s))[i] = s[i + n]
  <1>1. Len(s) \in Nat
    BY LenProperties
  <1>2. /\ SubSeq(s, 1, n) \in Seq(S) /\ Len(SubSeq(s, 1, n)) = n
        /\ \A i \in 1..n : SubSeq(s, 1, n)[i] = s[i]
    <2>1. \A i \in 1..n : s[i] \in S
      BY <1>1, ElementOfSeq
    <2>2. SubSeq(s, 1, n) = [i \in 1..n |-> s[i]]
      BY <1>1
    <2>3. QED
      BY <1>1, <2>1, <2>2
  <1>3. /\ SubSeq(s, n + 1, Len(s)) \in Seq(S)
        /\ Len(SubSeq(s, n + 1, Len(s))) = Len(s) - n
        /\ \A i \in 1..(Len(s) - n) : SubSeq(s, n + 1, Len(s))[i] = s[i + n]
    <2>1. \A i \in 1..(Len(s) - n) : s[i + n] \in S
      BY <1>1, ElementOfSeq
    <2>2. SubSeq(s, n + 1, Len(s)) = [i \in 1..(Len(s) - n) |-> s[i + n]]
      BY <1>1
    <2>3. QED
      BY <1>1, <2>1, <2>2
  <1>4. QED
    BY <1>2, <1>3

LEMMA Joins ==
  ASSUME NEW S, NEW s \in Seq(S), NEW t \in Seq(S)
  PROVE  /\ s \o t \in Seq(S) /\ Len(s \o t) = Len(s) + Len(t)
         /\ Len(s) \in Nat /\ Len(t) \in Nat
         /\ \A i \in 1..Len(s) : (s \o t)[i] = s[i]
         /\ \A i \in 1..Len(t) : (s \o t)[Len(s) + i] = t[i]
  BY ConcatProperties, LenProperties
-----------------------------------------------------------------------------
(* The program and the registers it writes.                                *)

(* The registers hold what reset and program put there. *)
RegisterInv ==
  /\ cam \in [CamRegisters -> Nat]
  /\ cam["CamAddr"] \in {0, CAM_BASE} /\ cam["CamLength"] = DATA_LENGTH
  /\ cam["CamStart"] \in {0, 1} /\ cam["CamStop"] \in {0, 1}
  /\ iFrameSent \in {0, 1} /\ FrameSent_rst \in BOOLEAN /\ readdata \in {0, 1}

(* The accesses of each point, and where the program is after a cycle. *)
CamStep(acc) ==
  \/ /\ pc = "address" /\ acc = Write("CamAddr", CAM_BASE)
     /\ pc' = "length" /\ shot' = shot
  \/ /\ pc = "length" /\ acc = Write("CamLength", DATA_LENGTH)
     /\ pc' = "ready" /\ shot' = shot
  \/ pc = "ready" /\ acc = NoAccess /\ pc' = "stop0" /\ shot < MaxCaptures /\ shot' = shot + 1
  \/ pc = "stop0" /\ acc = Write("CamStop", 0) /\ pc' = "start1" /\ shot' = shot
  \/ pc = "start1" /\ acc = Write("CamStart", 1) /\ pc' = "poll" /\ shot' = shot
  \/ pc = "poll" /\ acc = Read("FrameSent") /\ pc' = "hold" /\ shot' = shot
  \/ /\ pc = "hold" /\ acc = Read("FrameSent")
     /\ pc' = (IF readdata = 0 THEN "poll" ELSE "start0") /\ shot' = shot
  \/ pc = "start0" /\ acc = Write("CamStart", 0) /\ pc' = "stop1" /\ shot' = shot
  \/ pc = "stop1" /\ acc = Write("CamStop", 1) /\ pc' = "ready" /\ shot' = shot
  \/ pc # "hold" /\ acc = NoAccess /\ pc' = pc /\ shot' = shot

LEMMA ProgramMoves ==
  ASSUME NEW acc, NEW pulse, CaptureTick(acc, pulse)
  PROVE  CamStep(acc)
  BY DEF CaptureTick, camera_init, camera_capture, Trigger, Poll, CamAccess, Elsewhere,
         progVars, CamStep

LEMMA Frames == DATA_LENGTH \in Nat /\ DATA_LENGTH > 0 /\ DATA_LENGTH % 4 = 0
                /\ DATA_LENGTH = 4 * FRAME_COLORS /\ FRAME_COLORS \in Nat /\ FRAME_COLORS > 0
  BY FrameAssumption DEF DATA_LENGTH

LEMMA AccessesDiffer ==
  /\ \A d : Write("CamAddr", d) # Write("CamStart", 1) /\ Write("CamAddr", d) # Write("CamStart", 0)
  /\ \A d : Write("CamAddr", d) # Write("CamStop", 1) /\ Write("CamAddr", d) # Write("CamStop", 0)
  /\ \A d : Write("CamLength", d) # Write("CamStart", 1) /\ Write("CamLength", d) # Write("CamStart", 0)
  /\ \A d : Write("CamLength", d) # Write("CamStop", 1) /\ Write("CamLength", d) # Write("CamStop", 0)
  /\ \A d, e : Write("CamStart", d) # Write("CamStop", e)
  /\ Write("CamStart", 1) # Write("CamStart", 0) /\ Write("CamStop", 1) # Write("CamStop", 0)
  /\ \A n, d : Read("FrameSent") # Write(n, d) /\ NoAccess # Write(n, d)
  /\ NoAccess # Read("FrameSent")
  BY DEF Write, Read, NoAccess

(* What an access does to the registers. *)
LEMMA SlaveMoves ==
  ASSUME RegisterInv, NEW acc, CamStep(acc), NEW pulse \in BOOLEAN, CamSlaveTick(acc, pulse)
  PROVE  /\ RegisterInv'
         /\ cam'["CamStart"] = IF acc = Write("CamStart", 1) THEN 1
                               ELSE IF acc = Write("CamStart", 0) THEN 0 ELSE cam["CamStart"]
         /\ cam'["CamStop"] = IF acc = Write("CamStop", 1) THEN 1
                              ELSE IF acc = Write("CamStop", 0) THEN 0 ELSE cam["CamStop"]
         /\ iFrameSent' = IF pulse THEN 1 ELSE IF FrameSent_rst THEN 0 ELSE iFrameSent
         /\ acc = Read("FrameSent") => readdata' = iFrameSent /\ FrameSent_rst'
  <1>1. /\ iFrameSent' = IF pulse THEN 1 ELSE IF FrameSent_rst THEN 0 ELSE iFrameSent
        /\ readdata' = IF acc.op # "read" THEN 0
                       ELSE IF acc.name = "FrameSent" THEN iFrameSent ELSE cam[acc.name]
        /\ FrameSent_rst' = (acc.op = "read" /\ (acc.name = "FrameSent" \/ FrameSent_rst))
        /\ cam' = IF acc.op # "write" THEN cam
                  ELSE [cam EXCEPT ![acc.name] =
                          IF acc.name \in {"CamStart", "CamStop"}
                          THEN acc.data % 256 ELSE acc.data]
    BY DEF CamSlaveTick, FrameSentReceiver, ReadData, Acknowledge, CamWrite
  <1>2. FrameSent_rst' \in BOOLEAN
    BY <1>1
  <1>3. CASE acc = NoAccess
    BY <1>1, <1>2, <1>3, AccessesDiffer DEF NoAccess, RegisterInv
  <1>4. CASE acc = Read("FrameSent")
    <2>1. acc.op = "read" /\ acc.name = "FrameSent"
      BY <1>4 DEF Read
    <2>2. QED
      BY <1>1, <1>2, <1>4, <2>1, AccessesDiffer DEF RegisterInv
  <1>5. CASE \E n, d : acc = Write(n, d)
    <2>1. PICK n, d : acc = Write(n, d)
      BY <1>5
    <2>2. /\ acc.op = "write" /\ acc.name = n /\ acc.data = d
      BY <2>1 DEF Write
    <2>3. \/ n = "CamAddr" /\ d = CAM_BASE
          \/ n = "CamLength" /\ d = DATA_LENGTH
          \/ n \in {"CamStart", "CamStop"} /\ d \in {0, 1}
      <3>1. /\ \A m, e : Write(m, e).name = m /\ Write(m, e).data = e
            /\ NoAccess.op # "write" /\ \A m : Read(m).op # "write"
        BY DEF Write, Read, NoAccess
      <3>2. \/ acc = Write("CamAddr", CAM_BASE) \/ acc = Write("CamLength", DATA_LENGTH)
            \/ \E e \in {0, 1} : acc = Write("CamStart", e) \/ acc = Write("CamStop", e)
        BY <2>2, <3>1 DEF CamStep
      <3>3. CASE acc = Write("CamAddr", CAM_BASE) \/ acc = Write("CamLength", DATA_LENGTH)
        BY <2>2, <3>1, <3>3
      <3>4. CASE \E e \in {0, 1} : acc = Write("CamStart", e) \/ acc = Write("CamStop", e)
        <4>1. PICK e \in {0, 1} : acc = Write("CamStart", e) \/ acc = Write("CamStop", e)
          BY <3>4
        <4>2. n \in {"CamStart", "CamStop"} /\ d = e
          BY <2>2, <3>1, <4>1
        <4>3. QED
          BY <4>2
      <3>5. QED
        BY <3>2, <3>3, <3>4
    <2>4. readdata' = 0
      BY <1>1, <2>2
    <2>5. cam' = [cam EXCEPT ![n] = IF n \in {"CamStart", "CamStop"} THEN d % 256 ELSE d]
      BY <1>1, <2>2
    <2>6. n \in {"CamStart", "CamStop"} => d % 256 = d
      BY <2>3
    <2>7. cam' = [cam EXCEPT ![n] = d]
      BY <2>5, <2>6
    <2>8. /\ cam' \in [CamRegisters -> Nat]
          /\ \A r \in CamRegisters : cam'[r] = IF r = n THEN d ELSE cam[r]
      BY <2>3, <2>7, Frames, CaptureAssumption DEF RegisterInv, CamRegisters
    <2>9. RegisterInv'
      BY <1>1, <1>2, <2>3, <2>4, <2>8 DEF RegisterInv, CamRegisters
    <2>10. /\ (acc = Write("CamStart", 1) <=> n = "CamStart" /\ d = 1)
           /\ (acc = Write("CamStart", 0) <=> n = "CamStart" /\ d = 0)
           /\ (acc = Write("CamStop", 1) <=> n = "CamStop" /\ d = 1)
           /\ (acc = Write("CamStop", 0) <=> n = "CamStop" /\ d = 0)
      BY <2>1 DEF Write
    <2>11. QED
      BY <1>1, <2>1, <2>3, <2>8, <2>9, <2>10, AccessesDiffer DEF CamRegisters
  <1>6. QED
    BY <1>3, <1>4, <1>5 DEF CamStep

-----------------------------------------------------------------------------
(* Every variable keeps its type: the length counts down in fours.         *)

TypeInv == TypeOK /\ RegisterInv /\ datalength_bridge % 4 = 0

LEMMA Bounds ==
  /\ SENSOR_ROWS \in Nat /\ SENSOR_ROWS > 0 /\ SENSOR_COLUMNS \in Nat /\ SENSOR_COLUMNS > 0
  /\ HBLANK \in Nat /\ HBLANK > 0
  /\ 0 \in 0..SENSOR_ROWS /\ SENSOR_ROWS \in 0..SENSOR_ROWS
  /\ 0 \in 0..(SENSOR_COLUMNS + HBLANK - 1)
  /\ 0 \in 0..MinWait /\ 0 \in 0..MaxResets /\ 0 \in 0..MaxCaptures /\ 0 \in 0..ROW_END
  /\ 0 \in 0..3
  BY SensorAssumption, CaptureAssumption, CtrlAssumption

LEMMA Cleared ==
  ASSUME CtrlClear, ctrl_state' \in {"IDLE", "BUSY"}, data_bridge' \in Int
  PROVE  CtrlTypeOK'
  <1>1. output_color' \in [b : Int, g1 : Int, g2 : Int, r : Int]
    BY BlankColor DEF CtrlClear, Colors
  <1>2. bayer' \in Seq(Int)
    BY Nothing DEF CtrlClear
  <1>3. /\ row_counter' \in 0..ROW_END /\ col_counter' \in 0..3 /\ pixel_valid' \in BOOLEAN
        /\ push_state' \in BOOLEAN /\ color_ready' \in BOOLEAN /\ buffer_write' \in BOOLEAN
    BY Bounds DEF CtrlClear
  <1>4. QED
    BY <1>1, <1>2, <1>3 DEF CtrlTypeOK

LEMMA PixelTyping ==
  ASSUME TypeInv, PixTick
  PROVE  /\ CtrlTypeOK'
         /\ arriving' \in Seq(Colors) /\ waiting' \in Seq(Colors)
         /\ exposing' \in BOOLEAN
         /\ row' \in 0..SENSOR_ROWS /\ col' \in 0..(SENSOR_COLUMNS + HBLANK - 1)
  <1>1. /\ CtrlTick(fval, lval, pixel, start_o, stop_o) /\ SensorTick
        /\ IF ctrl_state' = "IDLE" THEN BufferClear
           ELSE WrClock(buffer_write, output_color) /\ UNCHANGED waiting
    BY DEF PixTick
  <1>2. /\ CtrlTypeOK /\ ROW_END \in Nat /\ NoColor \in Int
        /\ arriving \in Seq(Colors) /\ waiting \in Seq(Colors)
        /\ output_color \in Colors /\ bayer \in Seq(Int) /\ data_bridge \in Int
        /\ exposing \in BOOLEAN
        /\ row \in 0..SENSOR_ROWS /\ col \in 0..(SENSOR_COLUMNS + HBLANK - 1)
        /\ shot \in Nat
    BY CtrlAssumption, CaptureAssumption
    DEF TypeInv, TypeOK, Colors, CtrlTypeOK, ProgramTypeOK
  <1>3. /\ SENSOR_ROWS \in Nat /\ SENSOR_ROWS > 0 /\ SENSOR_COLUMNS \in Nat /\ SENSOR_COLUMNS > 0
        /\ HBLANK \in Nat /\ HBLANK > 0
        /\ 0 \in 0..SENSOR_ROWS /\ 0 \in 0..(SENSOR_COLUMNS + HBLANK - 1)
    BY Bounds
  <1>4. pixel \in Int
    BY <1>2, <1>3 DEF pixel, PixelAt
  <1>5. data_bridge' \in Int /\ ctrl_state' \in {"IDLE", "BUSY"}
    BY <1>1, <1>2, <1>4 DEF CtrlTick, Control, CtrlTypeOK
  <1>6. arriving' \in Seq(Colors) /\ waiting' \in Seq(Colors)
    <2>1. Append(arriving, output_color) \in Seq(Colors)
      BY <1>2, Appends
    <2>2. /\ arriving' \in {arriving, <<>>, Append(arriving, output_color)}
          /\ waiting' \in {waiting, <<>>}
      BY <1>1 DEF BufferClear, WrClock
    <2>3. QED
      BY <1>2, <2>1, <2>2, Nothing
  <1>7. /\ exposing' \in BOOLEAN
        /\ row' \in 0..SENSOR_ROWS /\ col' \in 0..(SENSOR_COLUMNS + HBLANK - 1)
    <2>1. CASE Expose
      BY <1>2, <1>3, <2>1 DEF Expose
    <2>2. CASE Scan
      BY <1>2, <1>3, <2>2 DEF Scan, fval
    <2>3. CASE UNCHANGED sensorVars
      BY <1>2, <2>3 DEF sensorVars
    <2>4. QED
      BY <1>1, <2>1, <2>2, <2>3 DEF SensorTick
  <1>8. CtrlTypeOK'
    <2>1. CASE CtrlClear
      BY <1>5, <2>1, Cleared
    <2>2. CASE DownSampling(fval /\ lval) /\ BayerFIFO /\ Debayering /\ buffer_write' = color_ready
      <3>1. /\ row_counter' \in 0..ROW_END /\ col_counter' \in 0..3 /\ pixel_valid' \in BOOLEAN
        BY <1>2, <2>2 DEF DownSampling, CtrlTypeOK
      <3>2. /\ push_state' \in BOOLEAN /\ color_ready' \in BOOLEAN /\ buffer_write' \in BOOLEAN
        BY <1>2, <2>2 DEF BayerFIFO, Debayering, CtrlTypeOK
      <3>3. bayer' \in Seq(Int)
        <4>1. bayer' \in {Append(bayer, data_bridge), bayer}
                \/ (bayer # <<>> /\ bayer' = Tail(bayer))
          BY <2>2 DEF BayerFIFO
        <4>2. Append(bayer, data_bridge) \in Seq(Int)
          BY <1>2, Appends
        <4>3. bayer # <<>> => Tail(bayer) \in Seq(Int)
          BY <1>2, Tails
        <4>4. QED
          BY <1>2, <4>1, <4>2, <4>3
      <3>4. output_color' \in Colors
        <4> DEFINE q == IF bayer = <<>> THEN NoColor ELSE Head(bayer)
        <4>1. q \in Int
          BY <1>2, Tails
        <4>2. output_color' \in {output_color,
                                 [output_color EXCEPT !.b = data_bridge, !.g1 = q],
                                 [output_color EXCEPT !.g2 = data_bridge, !.r = q]}
          BY <2>2 DEF Debayering
        <4> HIDE DEF q
        <4>3. [output_color EXCEPT !.b = data_bridge, !.g1 = q] \in Colors
          BY <1>2, <4>1, FirstHalf
        <4>4. [output_color EXCEPT !.g2 = data_bridge, !.r = q] \in Colors
          BY <1>2, <4>1, SecondHalf
        <4>5. QED
          BY <1>2, <4>2, <4>3, <4>4
      <3>5. QED
        BY <1>5, <3>1, <3>2, <3>3, <3>4 DEF CtrlTypeOK, Colors
    <2>3. QED
      BY <1>1, <2>1, <2>2 DEF CtrlTick
  <1>9. QED
    BY <1>6, <1>7, <1>8

(* A color the reader sees is one that was written. *)
LEMMA Received ==
  ASSUME arriving \in Seq(Colors), waiting \in Seq(Colors), NEW n \in 0..Len(arriving),
         RdClock(RREQ, n)
  PROVE  /\ arriving' \in Seq(Colors) /\ waiting' \in Seq(Colors)
         /\ ~rdempty => buffer_q \in Colors
  <1> DEFINE rest == IF RREQ /\ ~rdempty THEN Tail(waiting) ELSE waiting
  <1>1. rest \in Seq(Colors)
    BY Tails DEF rdempty
  <1>2. SubSeq(arriving, 1, n) \in Seq(Colors) /\ arriving' \in Seq(Colors)
    BY Crossing DEF RdClock
  <1>3. waiting' = rest \o SubSeq(arriving, 1, n)
    BY DEF RdClock
  <1> HIDE DEF rest
  <1>4. waiting' \in Seq(Colors)
    BY <1>1, <1>2, <1>3, Joins
  <1>5. ~rdempty => buffer_q \in Colors
    BY Tails DEF rdempty, buffer_q
  <1>6. QED
    BY <1>2, <1>4, <1>5

LEMMA SystemTyping ==
  ASSUME TypeInv, NEW acc, NEW waitrequest \in BOOLEAN, NEW n \in 0..Len(arriving),
         NEW delivered \in BOOLEAN, SysCycle(acc, waitrequest, n, delivered)
  PROVE  TypeInv'
  <1>1. /\ CamStep(acc) /\ CamSlaveTick(acc, frame_sent_o) /\ RdClock(RREQ, n)
        /\ MasterTick(cam["CamAddr"], cam["CamLength"], rdempty,
                      IF rdempty THEN Blank ELSE buffer_q, waitrequest)
        /\ MemoryTick(waitrequest)
        /\ exposing' = (exposing \/ (shot' # shot /\ delivered))
        /\ UNCHANGED <<ctrlVars, row, col, resets>>
    BY ProgramMoves DEF SysCycle
  <1>2. /\ RegisterInv /\ CtrlTypeOK /\ MasterTypeOK(Colors) /\ ProgramTypeOK
        /\ arriving \in Seq(Colors) /\ waiting \in Seq(Colors)
        /\ exposing \in BOOLEAN
        /\ row \in 0..SENSOR_ROWS /\ col \in 0..(SENSOR_COLUMNS + HBLANK - 1)
        /\ mem \in [Addresses -> Colors] /\ mem_busy \in 0..MinWait /\ resets \in 0..MaxResets
        /\ datalength_bridge \in Nat /\ datalength_bridge % 4 = 0
    BY DEF TypeInv, TypeOK, Colors, MasterTypeOK
  <1>3. RegisterInv'
    BY <1>1, <1>2, SlaveMoves DEF MasterTypeOK
  <1>4. CtrlTypeOK' /\ row' = row /\ col' = col /\ resets' = resets /\ exposing' \in BOOLEAN
    BY <1>1, <1>2 DEF ctrlVars, CtrlTypeOK
  <1>5. pc' \in CapturePoints /\ shot' \in 0..MaxCaptures
    BY <1>1, <1>2, CaptureAssumption DEF CamStep, ProgramTypeOK, CapturePoints
  <1>6. /\ arriving' \in Seq(Colors) /\ waiting' \in Seq(Colors)
        /\ ~rdempty => buffer_q \in Colors
    BY <1>1, <1>2, Received
  <1>7. mem' \in [Addresses -> Colors]
    BY <1>1, <1>2 DEF MemoryTick, MasterTypeOK
  <1>8. mem_busy' \in 0..MinWait
    BY <1>1, <1>2, SensorAssumption DEF MemoryTick
  <1>9. MasterTypeOK(Colors)' /\ datalength_bridge' % 4 = 0
    <2> DEFINE data == IF rdempty THEN Blank ELSE buffer_q
    <2>1. data \in Colors
      BY <1>6, BlankColor
    <2>2. /\ cam["CamAddr"] \in Nat /\ cam["CamLength"] = DATA_LENGTH
          /\ DATA_LENGTH \in Nat /\ DATA_LENGTH % 4 = 0
      BY <1>2, Frames, CaptureAssumption DEF RegisterInv
    <2>3. MasterTick(cam["CamAddr"], cam["CamLength"], rdempty, data, waitrequest)
      BY <1>1
    <2> HIDE DEF data
    <2>4. CASE MasterIDLE(cam["CamAddr"], cam["CamLength"])
      BY <1>2, <2>2, <2>4 DEF MasterIDLE, MasterTypeOK, Mas_State
    <2>5. CASE MasterWAITING_DATA(cam["CamLength"], rdempty, data)
      BY <1>2, <2>1, <2>5 DEF MasterWAITING_DATA, Present, MasterTypeOK, Mas_State
    <2>6. CASE MasterWAITING_WRITE(rdempty, data, waitrequest)
      <3>1. /\ datalength_bridge - 4 \in Nat /\ (datalength_bridge - 4) % 4 = 0
            /\ startAddr_bridge + 4 \in Nat
        BY <1>2, <2>6 DEF MasterWAITING_WRITE, MasterTypeOK
      <3>2. /\ datalength_bridge' \in {datalength_bridge, datalength_bridge - 4}
            /\ startAddr_bridge' \in {startAddr_bridge, startAddr_bridge + 4}
            /\ RREQ' \in BOOLEAN /\ frame_sent_o' \in BOOLEAN
        BY <2>6 DEF MasterWAITING_WRITE, Transfer
      <3>3. /\ mas_state' \in Mas_State /\ avm_write' \in BOOLEAN
            /\ avm_address' \in {avm_address, startAddr_bridge}
            /\ avm_writedata' \in {avm_writedata, data}
        BY <1>2, <2>6 DEF MasterWAITING_WRITE, Present, Withdraw, MasterTypeOK, Mas_State
      <3>4. QED
        BY <1>2, <2>1, <3>1, <3>2, <3>3 DEF MasterTypeOK
    <2>7. CASE MasterFrameEnd(cam["CamAddr"], cam["CamLength"])
      BY <1>2, <2>2, <2>7 DEF MasterFrameEnd, FrameEnd, Withdraw, MasterTypeOK, Mas_State
    <2>8. QED
      BY <2>3, <2>4, <2>5, <2>6, <2>7 DEF MasterTick
  <1>10. CamSlaveTypeOK'
    BY <1>3 DEF RegisterInv, CamSlaveTypeOK
  <1>11. QED
    BY <1>2, <1>3, <1>4, <1>5, <1>6, <1>7, <1>8, <1>9, <1>10
    DEF TypeInv, TypeOK, Colors, ProgramTypeOK

LEMMA ResetTyping ==
  ASSUME TypeInv, Reset
  PROVE  TypeInv'
  <1>1. /\ cam' = CamDefaults /\ iFrameSent' = 0 /\ FrameSent_rst' = FALSE
        /\ readdata' = readdata
    BY DEF Reset, CamSlaveReset
  <1>2. RegisterInv'
    BY <1>1, Frames DEF TypeInv, RegisterInv, CamDefaults, CamRegisters
  <1>3. CtrlTypeOK'
    BY Cleared DEF Reset, CtrlReset, TypeInv, TypeOK, CtrlTypeOK
  <1>4. MasterTypeOK(Colors)' /\ datalength_bridge' % 4 = 0
    BY Frames DEF Reset, MasterReset, TypeInv, TypeOK, MasterTypeOK, Colors, Mas_State
  <1>5. /\ arriving' \in Seq(Colors) /\ waiting' \in Seq(Colors)
        /\ exposing' \in BOOLEAN
        /\ row' \in 0..SENSOR_ROWS /\ col' \in 0..(SENSOR_COLUMNS + HBLANK - 1)
        /\ mem_busy' \in 0..MinWait /\ resets' \in 0..MaxResets
    <2>1. arriving' \in Seq(Colors) /\ waiting' \in Seq(Colors)
      BY Nothing DEF Reset, BufferClear
    <2>2. /\ exposing' \in BOOLEAN
          /\ row' \in 0..SENSOR_ROWS /\ col' \in 0..(SENSOR_COLUMNS + HBLANK - 1)
          /\ mem_busy' \in 0..MinWait
      BY Bounds DEF Reset
    <2>3. resets' \in 0..MaxResets
      BY SensorAssumption DEF Reset, TypeInv, TypeOK
    <2>4. QED
      BY <2>1, <2>2, <2>3
  <1>6. mem' \in [Addresses -> Colors]
    BY BlankColor DEF Reset
  <1>7. ProgramTypeOK' /\ CamSlaveTypeOK'
    BY <1>2, CaptureAssumption
    DEF Reset, ProgramReset, ProgramTypeOK, CapturePoints, RegisterInv, CamSlaveTypeOK
  <1>8. QED
    BY <1>2, <1>3, <1>4, <1>5, <1>6, <1>7 DEF TypeInv, TypeOK, Colors

LEMMA TypeInit == Init => TypeInv
  <1> SUFFICES ASSUME Init PROVE TypeInv
    OBVIOUS
  <1>1. RegisterInv
    BY Frames DEF Init, CamSlaveInit, RegisterInv, CamDefaults, CamRegisters
  <1>2. CtrlTypeOK
    <2>1. output_color \in [b : Int, g1 : Int, g2 : Int, r : Int]
      BY BlankColor DEF Init, CtrlInit, Colors
    <2>2. bayer \in Seq(Int)
      BY Nothing DEF Init, CtrlInit
    <2>3. /\ row_counter \in 0..ROW_END /\ col_counter \in 0..3 /\ pixel_valid \in BOOLEAN
          /\ push_state \in BOOLEAN /\ color_ready \in BOOLEAN /\ buffer_write \in BOOLEAN
          /\ ctrl_state = "IDLE" /\ data_bridge \in Int
      BY Bounds, CtrlAssumption DEF Init, CtrlInit
    <2>4. QED
      BY <2>1, <2>2, <2>3 DEF CtrlTypeOK
  <1>3. MasterTypeOK(Colors) /\ datalength_bridge % 4 = 0
    BY Frames, BlankColor DEF Init, MasterInit, MasterTypeOK, Mas_State
  <1>4. /\ arriving \in Seq(Colors) /\ waiting \in Seq(Colors)
        /\ exposing \in BOOLEAN
        /\ row \in 0..SENSOR_ROWS /\ col \in 0..(SENSOR_COLUMNS + HBLANK - 1)
        /\ mem_busy \in 0..MinWait /\ resets \in 0..MaxResets
    <2>1. arriving \in Seq(Colors) /\ waiting \in Seq(Colors)
      BY Nothing DEF Init, BufferInit
    <2>2. QED
      BY <2>1, Bounds DEF Init
  <1>5. mem \in [Addresses -> Colors]
    BY BlankColor DEF Init
  <1>6. ProgramTypeOK /\ CamSlaveTypeOK
    BY <1>1, CaptureAssumption
    DEF Init, ProgramInit, ProgramTypeOK, CapturePoints, RegisterInv, CamSlaveTypeOK
  <1>7. QED
    BY <1>1, <1>2, <1>3, <1>4, <1>5, <1>6 DEF TypeInv, TypeOK, Colors

LEMMA TypeStep == TypeInv /\ [Next]_vars => TypeInv'
  <1> SUFFICES ASSUME TypeInv, [Next]_vars PROVE TypeInv'
    OBVIOUS
  <1>1. CASE PixTick
    <2>1. UNCHANGED <<masterVars, camSlaveVars, progVars, mem, mem_busy, resets>>
      BY <1>1 DEF PixTick
    <2>2. /\ RegisterInv' /\ datalength_bridge' % 4 = 0 /\ CamSlaveTypeOK' /\ ProgramTypeOK'
          /\ MasterTypeOK(Colors)' /\ mem' \in [Addresses -> Colors]
          /\ mem_busy' \in 0..MinWait /\ resets' \in 0..MaxResets
      BY <2>1 DEF TypeInv, TypeOK, RegisterInv, CamSlaveTypeOK, ProgramTypeOK, MasterTypeOK,
                  masterVars, camSlaveVars, progVars, Colors
    <2>3. QED
      BY <1>1, <2>2, PixelTyping DEF TypeInv, TypeOK, Colors
  <1>2. CASE SysTick
    BY <1>2, SystemTyping DEF SysTick
  <1>3. CASE Reset
    BY <1>3, ResetTyping
  <1>4. CASE UNCHANGED vars
    <2>1. UNCHANGED <<arriving, waiting, ctrlVars, masterVars, camSlaveVars, progVars,
                      exposing, row, col, mem, mem_busy, resets>>
      BY <1>4 DEF vars, bufferVars, sensorVars
    <2>2. RegisterInv' /\ CamSlaveTypeOK' /\ ProgramTypeOK'
      BY <2>1 DEF TypeInv, TypeOK, RegisterInv, CamSlaveTypeOK, ProgramTypeOK, camSlaveVars,
                  progVars
    <2>3. MasterTypeOK(Colors)' /\ datalength_bridge' % 4 = 0
      BY <2>1 DEF TypeInv, TypeOK, MasterTypeOK, Colors, masterVars
    <2>4. CtrlTypeOK'
      BY <2>1 DEF TypeInv, TypeOK, CtrlTypeOK, ctrlVars
    <2>5. QED
      BY <2>1, <2>2, <2>3, <2>4 DEF TypeInv, TypeOK, Colors
  <1>5. QED
    BY <1>1, <1>2, <1>3, <1>4 DEF Next

(* Every variable of controller, program and sensor keeps its type.        *)
THEOREM Typing == Spec => []TypeOK
  <1>1. TypeInv => TypeOK
    BY DEF TypeInv
  <1>2. QED
    BY <1>1, TypeInit, TypeStep, PTL DEF Spec

-----------------------------------------------------------------------------
(* The bus.  With the image at address 0, where the master takes it to be  *)
(* after a reset, address and bytes left always add up to the frame.       *)

AddressInv ==
  /\ startAddr_bridge \in 0..DATA_LENGTH /\ startAddr_bridge % 4 = 0
  /\ datalength_bridge = DATA_LENGTH - startAddr_bridge
  /\ mas_state # "WAITING_WRITE" => datalength_bridge # 0
  /\ avm_write <=> mas_state = "WAITING_WRITE"
  /\ avm_write => avm_address \in Addresses

LEMMA FrameAddresses ==
  ASSUME CAM_BASE = 0
  PROVE  /\ Addresses = {4 * i : i \in 0..(FRAME_COLORS - 1)}
         /\ \A a \in Addresses : a \in Nat /\ a < DATA_LENGTH
         /\ \A a \in 0..DATA_LENGTH : a % 4 = 0 /\ a # DATA_LENGTH => a \in Addresses
  <1>1. Addresses = {4 * i : i \in 0..(FRAME_COLORS - 1)}
    <2>1. 0 \div 4 = 0
      OBVIOUS
    <2>2. CAM_BASE \div 4 + FRAME_COLORS - 1 = FRAME_COLORS - 1
      BY <2>1, Frames
    <2>3. QED
      BY <2>2 DEF Addresses
  <1>2. \A a \in 0..DATA_LENGTH : a % 4 = 0 /\ a # DATA_LENGTH => a \in Addresses
    <2> SUFFICES ASSUME NEW a \in 0..DATA_LENGTH, a % 4 = 0, a # DATA_LENGTH
                 PROVE  a \in Addresses
      OBVIOUS
    <2>1. a = 4 * (a \div 4) /\ a \div 4 \in 0..(FRAME_COLORS - 1)
      BY Frames
    <2>2. QED
      BY <1>1, <2>1
  <1>3. QED
    BY <1>1, <1>2, Frames

(* What the bus does in a cycle of the system clock. *)
LEMMA MasterMoves ==
  ASSUME TypeInv, NEW acc, NEW waitrequest \in BOOLEAN, NEW n \in 0..Len(arriving),
         NEW delivered \in BOOLEAN, SysCycle(acc, waitrequest, n, delivered)
  PROVE  /\ MasterTick(cam["CamAddr"], DATA_LENGTH, waiting = <<>>,
                       IF waiting = <<>> THEN Blank ELSE waiting[1], waitrequest)
         /\ CAM_BASE = 0 => cam["CamAddr"] = 0
         /\ DATA_LENGTH # 0
  BY Frames DEF SysCycle, TypeInv, RegisterInv, rdempty, buffer_q

LEMMA AddressSystem ==
  ASSUME CAM_BASE = 0, TypeInv, AddressInv,
         NEW acc, NEW waitrequest \in BOOLEAN, NEW n \in 0..Len(arriving),
         NEW delivered \in BOOLEAN, SysCycle(acc, waitrequest, n, delivered)
  PROVE  AddressInv'
  <1> DEFINE data == IF waiting = <<>> THEN Blank ELSE waiting[1]
  <1>1. /\ MasterTick(cam["CamAddr"], DATA_LENGTH, waiting = <<>>, data, waitrequest)
        /\ cam["CamAddr"] = 0 /\ DATA_LENGTH # 0
    BY MasterMoves
  <1> HIDE DEF data
  <1>2. DATA_LENGTH \in Nat /\ DATA_LENGTH % 4 = 0
    BY Frames
  <1>3. datalength_bridge # 0 => startAddr_bridge \in Addresses
    BY <1>2, FrameAddresses DEF AddressInv
  <1>4. CASE MasterIDLE(cam["CamAddr"], DATA_LENGTH)
    BY <1>1, <1>2, <1>4 DEF MasterIDLE, AddressInv
  <1>5. CASE MasterWAITING_DATA(DATA_LENGTH, waiting = <<>>, data)
    BY <1>1, <1>3, <1>5 DEF MasterWAITING_DATA, Present, AddressInv
  <1>6. CASE MasterWAITING_WRITE(waiting = <<>>, data, waitrequest)
    <2>1. /\ startAddr_bridge + 4 \in 0..DATA_LENGTH /\ (startAddr_bridge + 4) % 4 = 0
          /\ datalength_bridge - 4 = DATA_LENGTH - (startAddr_bridge + 4)
      BY <1>2, <1>6 DEF MasterWAITING_WRITE, AddressInv
    <2>2. CASE waiting = <<>>
      BY <1>6, <2>2 DEF MasterWAITING_WRITE, Withdraw, AddressInv
    <2>3. CASE waiting # <<>>
      <3>1. /\ mas_state = "WAITING_WRITE" /\ mas_state' = mas_state
            /\ avm_write' = TRUE /\ avm_address' = startAddr_bridge
            /\ datalength_bridge # 0
        BY <1>6, <2>3 DEF MasterWAITING_WRITE, Present
      <3>2. \/ UNCHANGED <<startAddr_bridge, datalength_bridge>>
            \/ /\ startAddr_bridge' = startAddr_bridge + 4
               /\ datalength_bridge' = datalength_bridge - 4
        BY <1>6, <2>3 DEF MasterWAITING_WRITE, Transfer
      <3>3. QED
        BY <1>3, <2>1, <3>1, <3>2 DEF AddressInv
    <2>4. QED
      BY <2>2, <2>3
  <1>7. CASE MasterFrameEnd(cam["CamAddr"], DATA_LENGTH)
    BY <1>1, <1>2, <1>7 DEF MasterFrameEnd, FrameEnd, Withdraw, AddressInv
  <1>8. QED
    BY <1>1, <1>4, <1>5, <1>6, <1>7 DEF MasterTick

LEMMA AddressStep ==
  ASSUME CAM_BASE = 0
  PROVE  TypeInv /\ AddressInv /\ [Next]_vars => AddressInv'
  <1> SUFFICES ASSUME TypeInv, AddressInv, [Next]_vars PROVE AddressInv'
    OBVIOUS
  <1>1. CASE PixTick
    BY <1>1 DEF PixTick, masterVars, AddressInv
  <1>2. CASE SysTick
    BY <1>2, AddressSystem DEF SysTick
  <1>3. CASE Reset
    BY <1>3, Frames DEF Reset, MasterReset, AddressInv
  <1>4. CASE UNCHANGED vars
    BY <1>4 DEF vars, masterVars, AddressInv
  <1>5. QED
    BY <1>1, <1>2, <1>3, <1>4 DEF Next

LEMMA AddressInit == Init => AddressInv
  BY Frames DEF Init, MasterInit, AddressInv

(* The master writes into the frame the program configured, at whatever    *)
(* rate program and memory work, if that frame is at the reset value of    *)
(* the address (HPS_0_BRIDGES_BASE is 0).                                  *)
THEOREM WritesStay ==
  ASSUME CAM_BASE = 0
  PROVE  Spec => []WritesStayInFrame
  <1>1. AddressInv => WritesStayInFrame
    BY FrameAddresses, Frames DEF AddressInv, WritesStayInFrame
  <1>2. QED
    BY <1>1, TypeInit, TypeStep, AddressInit, AddressStep, PTL DEF Spec

-----------------------------------------------------------------------------
(* Two kinds of memories.  One makes the master wait two cycles or more    *)
(* after a write, and so leaves it the time to take the color it wrote     *)
(* from the Buffer FIFO and to put the next on the bus.  The other never   *)
(* makes it wait; to that one the master writes every color twice, which   *)
(* fills the frame if its words are even.                                  *)
Memory ==
  /\ CAM_BASE = 0
  /\ Prompt \/ MinWait >= 2
  /\ FRAME_COLORS % Copies = 0

(* With a memory that makes it wait: a read request lasts one cycle and    *)
(* the memory is still busy then; a write the memory may accept is of the  *)
(* oldest color, at its address.                                           *)
WaitingBus ==
  /\ RREQ => /\ mas_state = "WAITING_WRITE" /\ mem_busy >= 2
             /\ waiting # <<>> /\ startAddr_bridge >= 4
  /\ ~RREQ => datalength_bridge # 0
  /\ mas_state = "WAITING_WRITE" /\ mem_busy = 0 =>
       waiting # <<>> /\ avm_address = startAddr_bridge /\ avm_writedata = waiting[1]

(* With a memory that does not, the master is done with a color in three   *)
(* cycles on the bus: it writes it to the first of two words, and again    *)
(* while its read request is on the way, and to the second word, when the  *)
(* Buffer FIFO is empty already and the second read request misses.        *)
FirstWrite ==
  /\ ~RREQ /\ waiting # <<>> /\ startAddr_bridge % 8 = 0
  /\ avm_address = startAddr_bridge /\ avm_writedata = waiting[1]

SecondWrite ==
  /\ RREQ /\ waiting # <<>> /\ startAddr_bridge % 8 = 4
  /\ avm_address = startAddr_bridge - 4 /\ avm_writedata = waiting[1]

ThirdWrite ==
  /\ RREQ /\ waiting = <<>> /\ startAddr_bridge % 8 = 0
  /\ startAddr_bridge >= 8 /\ avm_address = startAddr_bridge - 4

PromptBus ==
  /\ Len(waiting) <= 1
  /\ mas_state # "WAITING_WRITE" => ~RREQ /\ startAddr_bridge % 8 = 0
  /\ mas_state = "WAITING_WRITE" => FirstWrite \/ SecondWrite \/ ThirdWrite

BusInv ==
  /\ mas_state = "IDLE" => startAddr_bridge = 0 /\ ~frame_sent_o
  /\ IF Prompt THEN PromptBus ELSE WaitingBus

(* What a cycle can do with the oldest color: the memory takes it, the     *)
(* master removes it from the Buffer FIFO, or does so as the last of the   *)
(* frame, or nothing happens.                                              *)
Accepted ==
  /\ mas_state = "WAITING_WRITE" /\ ~RREQ /\ RREQ'
  /\ waiting # <<>> /\ waiting' # <<>> /\ startAddr_bridge \in Addresses
  /\ mem' = [mem EXCEPT ![startAddr_bridge] = waiting[1]]
  /\ startAddr_bridge' = startAddr_bridge + 4
  /\ ~(frame_sent_o')

Removed ==
  /\ mas_state = "WAITING_WRITE" /\ RREQ /\ ~(RREQ')
  /\ waiting # <<>> /\ datalength_bridge # 0
  /\ mem' = mem /\ startAddr_bridge' = startAddr_bridge
  /\ ~(frame_sent_o')

Ended ==
  /\ mas_state = "WAITING_WRITE" /\ RREQ /\ ~(RREQ')
  /\ waiting # <<>> /\ datalength_bridge = 0
  /\ mem' = mem /\ startAddr_bridge' = 0
  /\ mas_state' = "WAITING_DATA" /\ frame_sent_o'

(* With a memory that does not make it wait, the color goes to the first   *)
(* word once more while it is removed, and then to the second, which may   *)
(* be the last of the frame.                                               *)
Repeated ==
  /\ mas_state = "WAITING_WRITE" /\ RREQ /\ RREQ'
  /\ waiting # <<>> /\ waiting' = <<>> /\ startAddr_bridge % 8 = 4
  /\ startAddr_bridge - 4 \in Addresses
  /\ mem' = [mem EXCEPT ![startAddr_bridge - 4] = waiting[1]]
  /\ avm_writedata' = waiting[1]
  /\ startAddr_bridge' = startAddr_bridge + 4
  /\ ~(frame_sent_o')

Doubled ==
  /\ mas_state = "WAITING_WRITE" /\ RREQ /\ ~(RREQ')
  /\ waiting = <<>> /\ startAddr_bridge >= 8
  /\ startAddr_bridge - 4 \in Addresses
  /\ mem' = [mem EXCEPT ![startAddr_bridge - 4] = avm_writedata]
  /\ mas_state' = "WAITING_DATA"
  /\ IF datalength_bridge # 0
     THEN startAddr_bridge' = startAddr_bridge /\ ~(frame_sent_o')
     ELSE startAddr_bridge' = 0 /\ frame_sent_o'

Held ==
  /\ ~RREQ /\ ~(RREQ')
  /\ mem' = mem /\ startAddr_bridge' = startAddr_bridge
  /\ mas_state' = "WAITING_WRITE" => mas_state = "WAITING_WRITE" \/ waiting # <<>>
  /\ ~(frame_sent_o')

(* The Buffer FIFO meanwhile: n colors arrive. *)
Pops == RREQ /\ waiting # <<>>

Passes(n) ==
  /\ waiting' = (IF Pops THEN Tail(waiting) ELSE waiting) \o SubSeq(arriving, 1, n)
  /\ arriving' = SubSeq(arriving, n + 1, Len(arriving))

LEMMA StillWaiting ==
  ASSUME arriving \in Seq(Colors), waiting \in Seq(Colors), NEW n \in 0..Len(arriving),
         Passes(n), ~RREQ, waiting # <<>>
  PROVE  waiting' # <<>> /\ waiting'[1] = waiting[1]
  <1>1. SubSeq(arriving, 1, n) \in Seq(Colors)
    BY Crossing
  <1>2. /\ Len(waiting') = Len(waiting) + Len(SubSeq(arriving, 1, n))
        /\ Len(waiting) \in Nat /\ Len(SubSeq(arriving, 1, n)) \in Nat
        /\ \A i \in 1..Len(waiting) : waiting'[i] = waiting[i]
    BY <1>1, Joins DEF Passes, Pops
  <1>3. Len(waiting) >= 1
    BY Tails
  <1>4. waiting'[1] = waiting[1] /\ Len(waiting') # 0
    BY <1>2, <1>3
  <1>5. QED
    BY <1>4, EmptySeq

LEMMA WaitingCycle ==
  ASSUME Memory, ~Prompt, TypeInv, AddressInv, BusInv,
         NEW acc, NEW waitrequest \in BOOLEAN, NEW n \in 0..Len(arriving),
         NEW delivered \in BOOLEAN, SysCycle(acc, waitrequest, n, delivered)
  PROVE  /\ BusInv' /\ Passes(n)
         /\ Accepted \/ Removed \/ Ended \/ Held
  <1> DEFINE data == IF waiting = <<>> THEN Blank ELSE waiting[1]
  <1>1. /\ MasterTick(0, DATA_LENGTH, waiting = <<>>, data, waitrequest)
        /\ DATA_LENGTH # 0 /\ DATA_LENGTH \in Nat
    BY MasterMoves, Frames DEF Memory
  <1>2. waiting # <<>> => data = waiting[1]
    OBVIOUS
  <1> HIDE DEF data
  <1>3. Passes(n)
    BY DEF SysCycle, RdClock, rdempty, Passes, Pops
  <1>4. /\ ~waitrequest => mem_busy = 0
        /\ mem' = IF avm_write /\ ~waitrequest
                  THEN [mem EXCEPT ![avm_address] = avm_writedata] ELSE mem
        /\ mem_busy' = IF avm_write /\ ~waitrequest THEN MinWait
                       ELSE IF mem_busy > 0 THEN mem_busy - 1 ELSE 0
        /\ MinWait >= 2
    BY DEF SysCycle, MemoryTick, Memory
  <1>5. /\ arriving \in Seq(Colors) /\ waiting \in Seq(Colors)
        /\ mem_busy \in Nat /\ MinWait \in Nat
        /\ startAddr_bridge \in Nat /\ datalength_bridge \in Nat
        /\ avm_write <=> mas_state = "WAITING_WRITE"
        /\ datalength_bridge = DATA_LENGTH - startAddr_bridge
        /\ RREQ \in BOOLEAN /\ frame_sent_o \in BOOLEAN
    BY SensorAssumption DEF TypeInv, TypeOK, Colors, MasterTypeOK, AddressInv
  <1>6. datalength_bridge # 0 => startAddr_bridge \in Addresses
    BY Frames, FrameAddresses DEF AddressInv, Memory
  <1>7. CASE MasterIDLE(0, DATA_LENGTH)
    <2>1. /\ mas_state = "IDLE" /\ mas_state' = "WAITING_DATA"
          /\ startAddr_bridge' = 0 /\ datalength_bridge' = DATA_LENGTH
          /\ UNCHANGED <<RREQ, frame_sent_o>>
      BY <1>1, <1>7 DEF MasterIDLE
    <2>2. ~RREQ /\ startAddr_bridge = 0 /\ ~frame_sent_o /\ mem' = mem
      BY <1>4, <1>5, <2>1 DEF BusInv, WaitingBus
    <2>3. Held
      BY <2>1, <2>2 DEF Held
    <2>4. BusInv'
      BY <1>1, <2>1, <2>2 DEF BusInv, WaitingBus
    <2>5. QED
      BY <1>3, <2>3, <2>4
  <1>8. CASE MasterWAITING_DATA(DATA_LENGTH, waiting = <<>>, data)
    <2>1. /\ mas_state = "WAITING_DATA" /\ frame_sent_o' = FALSE /\ ~RREQ /\ RREQ' = RREQ
          /\ startAddr_bridge' = startAddr_bridge /\ datalength_bridge' = datalength_bridge
          /\ mem' = mem
      BY <1>4, <1>5, <1>8 DEF MasterWAITING_DATA, BusInv, WaitingBus
    <2>2. CASE waiting = <<>>
      <3>1. mas_state' = mas_state
        BY <1>1, <1>8, <2>2 DEF MasterWAITING_DATA
      <3>2. QED
        BY <1>3, <2>1, <2>2, <3>1 DEF BusInv, WaitingBus, Held
    <2>3. CASE waiting # <<>>
      <3>1. /\ mas_state' = "WAITING_WRITE"
            /\ avm_address' = startAddr_bridge /\ avm_writedata' = waiting[1]
        BY <1>1, <1>2, <1>8, <2>3 DEF MasterWAITING_DATA, Present
      <3>2. waiting' # <<>> /\ waiting'[1] = waiting[1]
        BY <1>3, <1>5, <2>1, <2>3, StillWaiting
      <3>3. QED
        BY <1>3, <2>1, <2>3, <3>1, <3>2 DEF BusInv, WaitingBus, Held
    <2>4. QED
      BY <2>2, <2>3
  <1>9. CASE MasterWAITING_WRITE(waiting = <<>>, data, waitrequest)
    <2>1. /\ mas_state = "WAITING_WRITE" /\ datalength_bridge # 0 /\ frame_sent_o' = FALSE
      BY <1>9 DEF MasterWAITING_WRITE
    <2>2. CASE waiting = <<>>
      <3>1. /\ mas_state' = "WAITING_DATA" /\ RREQ' = FALSE
            /\ startAddr_bridge' = startAddr_bridge /\ datalength_bridge' = datalength_bridge
        BY <1>9, <2>2 DEF MasterWAITING_WRITE
      <3>2. ~RREQ /\ waitrequest /\ mem' = mem
        BY <1>4, <2>1, <2>2 DEF BusInv, WaitingBus
      <3>3. QED
        BY <1>3, <2>1, <3>1, <3>2 DEF BusInv, WaitingBus, Held
    <2>3. CASE waiting # <<>> /\ waitrequest
      <3>1. /\ mas_state' = mas_state /\ RREQ' = FALSE
            /\ startAddr_bridge' = startAddr_bridge /\ datalength_bridge' = datalength_bridge
            /\ avm_address' = startAddr_bridge /\ avm_writedata' = waiting[1]
            /\ mem' = mem
        BY <1>2, <1>4, <1>9, <2>3 DEF MasterWAITING_WRITE, Present, Transfer
      <3>2. CASE RREQ
        <4>1. mem_busy' >= 1 /\ mem_busy' \in Nat
          BY <1>4, <1>5, <2>3, <3>2 DEF BusInv, WaitingBus
        <4>2. BusInv'
          BY <2>1, <3>1, <4>1 DEF BusInv, WaitingBus
        <4>3. QED
          BY <1>3, <2>1, <2>3, <3>1, <3>2, <4>2 DEF Removed
      <3>3. CASE ~RREQ
        <4>1. waiting' # <<>> /\ waiting'[1] = waiting[1]
          BY <1>3, <1>5, <2>3, <3>3, StillWaiting
        <4>2. BusInv'
          BY <2>1, <3>1, <4>1 DEF BusInv, WaitingBus
        <4>3. QED
          BY <1>3, <2>1, <3>1, <3>3, <4>2 DEF Held
      <3>4. QED
        BY <3>2, <3>3
    <2>4. CASE waiting # <<>> /\ ~waitrequest
      <3>1. /\ mas_state' = mas_state /\ RREQ' = TRUE
            /\ startAddr_bridge' = startAddr_bridge + 4
            /\ datalength_bridge' = datalength_bridge - 4
        BY <1>9, <2>4 DEF MasterWAITING_WRITE, Present, Transfer
      <3>2. /\ mem_busy = 0 /\ avm_write /\ ~RREQ
            /\ avm_address = startAddr_bridge /\ avm_writedata = waiting[1]
        BY <1>4, <1>5, <2>1, <2>4 DEF BusInv, WaitingBus
      <3>3. /\ mem' = [mem EXCEPT ![startAddr_bridge] = waiting[1]] /\ mem_busy' = MinWait
        BY <1>4, <2>4, <3>2
      <3>4. waiting' # <<>>
        BY <1>3, <1>5, <2>4, <3>2, StillWaiting
      <3>5. startAddr_bridge' >= 4 /\ mem_busy' >= 2 /\ mem_busy' # 0
        BY <1>4, <1>5, <3>1, <3>3
      <3>6. BusInv'
        BY <2>1, <3>1, <3>4, <3>5 DEF BusInv, WaitingBus
      <3>7. Accepted
        BY <1>6, <2>1, <2>4, <3>1, <3>2, <3>3, <3>4 DEF Accepted
      <3>8. QED
        BY <1>3, <3>6, <3>7
    <2>5. QED
      BY <2>2, <2>3, <2>4
  <1>10. CASE MasterFrameEnd(0, DATA_LENGTH)
    <2>1. /\ mas_state = "WAITING_WRITE" /\ datalength_bridge = 0
          /\ mas_state' = "WAITING_DATA" /\ startAddr_bridge' = 0
          /\ datalength_bridge' = DATA_LENGTH /\ frame_sent_o' = TRUE /\ RREQ' = FALSE
      BY <1>10 DEF MasterFrameEnd, FrameEnd
    <2>2. RREQ /\ waiting # <<>> /\ waitrequest /\ mem' = mem
      BY <1>4, <1>5, <2>1 DEF BusInv, WaitingBus
    <2>3. QED
      BY <1>1, <1>3, <2>1, <2>2 DEF BusInv, WaitingBus, Ended
  <1>11. QED
    BY <1>1, <1>7, <1>8, <1>9, <1>10 DEF MasterTick

LEMMA PromptCycle ==
  ASSUME Memory, Prompt, TypeInv, AddressInv, BusInv,
         NEW acc, NEW waitrequest \in BOOLEAN, NEW n \in 0..Len(arriving),
         NEW delivered \in BOOLEAN, SysCycle(acc, waitrequest, n, delivered)
  PROVE  /\ BusInv' /\ Passes(n)
         /\ Accepted \/ Repeated \/ Doubled \/ Held
  <1> DEFINE data == IF waiting = <<>> THEN Blank ELSE waiting[1]
  <1>1. /\ MasterTick(0, DATA_LENGTH, waiting = <<>>, data, waitrequest)
        /\ DATA_LENGTH # 0 /\ DATA_LENGTH \in Nat
    BY MasterMoves, Frames DEF Memory
  <1>2. waiting # <<>> => data = waiting[1]
    OBVIOUS
  <1> HIDE DEF data
  <1>3. Passes(n)
    BY DEF SysCycle, RdClock, rdempty, Passes, Pops
  <1>4. /\ avm_write => ~waitrequest
        /\ mem' = IF avm_write THEN [mem EXCEPT ![avm_address] = avm_writedata] ELSE mem
        /\ n = 0 \/ (n = 1 /\ waiting = <<>> /\ mas_state = "WAITING_DATA")
    BY DEF SysCycle, MemoryTick, Paced, rdempty
  <1>5. /\ arriving \in Seq(Colors) /\ waiting \in Seq(Colors)
        /\ startAddr_bridge \in Nat /\ datalength_bridge \in Nat /\ avm_address \in Nat
        /\ avm_write <=> mas_state = "WAITING_WRITE"
        /\ avm_write => avm_address \in Addresses
        /\ datalength_bridge = DATA_LENGTH - startAddr_bridge
        /\ mas_state # "WAITING_WRITE" => datalength_bridge # 0
        /\ RREQ \in BOOLEAN /\ frame_sent_o \in BOOLEAN
        /\ PromptBus /\ (mas_state = "IDLE" => startAddr_bridge = 0 /\ ~frame_sent_o)
    BY DEF TypeInv, TypeOK, Colors, MasterTypeOK, AddressInv, BusInv
  <1>6. DATA_LENGTH % 8 = 0
    <2>1. FRAME_COLORS % 2 = 0 /\ FRAME_COLORS \in Nat
      BY Frames DEF Memory, Copies
    <2>2. DATA_LENGTH = 4 * FRAME_COLORS
      BY Frames
    <2>3. QED
      BY <2>1, <2>2
  <1>7. /\ startAddr_bridge - 4 = avm_address => startAddr_bridge - 4 \in Nat
        /\ \A a \in Addresses : a < DATA_LENGTH
    BY <1>5, FrameAddresses DEF Memory
  (* How the Buffer FIFO goes on. *)
  <1>8. /\ n = 0 /\ ~RREQ => waiting' = waiting
        /\ n = 0 /\ RREQ => waiting' = <<>>
        /\ waiting = <<>> => Len(waiting') <= 1
    <2>1. /\ SubSeq(arriving, 1, n) \in Seq(Colors) /\ Len(SubSeq(arriving, 1, n)) = n
      BY <1>5, Crossing
    <2>2. n = 0 => SubSeq(arriving, 1, n) = <<>>
      BY <2>1, EmptySeq, LenProperties
    <2>3. <<>> \in Seq(Colors) /\ Len(<<>>) = 0
      BY EmptySeq
    <2>4. \A s \in Seq(Colors) : s \o <<>> = s
      <3> SUFFICES ASSUME NEW s \in Seq(Colors) PROVE s \o <<>> = s
        OBVIOUS
      <3>1. /\ s \o <<>> \in Seq(Colors) /\ Len(s \o <<>>) = Len(s)
            /\ \A i \in 1..Len(s) : (s \o <<>>)[i] = s[i]
        BY <2>3, Joins, LenProperties
      <3>2. QED
        BY <3>1, SeqEqual
    <2>5. RREQ => (IF Pops THEN Tail(waiting) ELSE waiting) = <<>>
      <3>1. CASE waiting # <<>>
        <4>1. Len(waiting) = 1
          <5> DEFINE l == Len(waiting)
          <5>1. l >= 1 /\ l \in Nat
            BY <1>5, <3>1, Tails
          <5>2. l <= 1
            BY <1>5 DEF PromptBus
          <5> HIDE DEF l
          <5>3. l = 1
            BY <5>1, <5>2
          <5>4. QED
            BY <5>3 DEF l
        <4>2. Tail(waiting) \in Seq(Colors) /\ Len(Tail(waiting)) = 0
          BY <1>5, <3>1, <4>1, Tails
        <4>3. Tail(waiting) = <<>>
          BY <4>2, EmptySeq
        <4>4. QED
          BY <3>1, <4>3 DEF Pops
      <3>2. CASE waiting = <<>>
        BY <3>2 DEF Pops
      <3>3. QED
        BY <3>1, <3>2
    <2>6. n = 0 /\ ~RREQ => waiting' = waiting
      BY <1>3, <1>5, <2>2, <2>4 DEF Passes, Pops
    <2>7. n = 0 /\ RREQ => waiting' = <<>>
      BY <1>3, <2>2, <2>3, <2>4, <2>5 DEF Passes
    <2>8. waiting = <<>> => Len(waiting') <= 1
      <3>1. waiting = <<>> => waiting' = <<>> \o SubSeq(arriving, 1, n)
        BY <1>3 DEF Passes, Pops
      <3>2. Len(<<>> \o SubSeq(arriving, 1, n)) = 0 + n
        BY <2>1, <2>3, Joins
      <3>3. QED
        BY <1>4, <3>1, <3>2
    <2>9. QED
      BY <2>6, <2>7, <2>8
  <1>9. CASE MasterIDLE(0, DATA_LENGTH)
    <2>1. /\ mas_state = "IDLE" /\ mas_state' = "WAITING_DATA"
          /\ startAddr_bridge' = 0 /\ UNCHANGED <<RREQ, frame_sent_o>>
      BY <1>1, <1>9 DEF MasterIDLE
    <2>2. /\ ~RREQ /\ startAddr_bridge = 0 /\ ~frame_sent_o /\ mem' = mem /\ n = 0
          /\ 0 % 8 = 0
      BY <1>4, <1>5, <2>1 DEF PromptBus
    <2>3. Held
      BY <2>1, <2>2 DEF Held
    <2>4. waiting' = waiting
      BY <1>8, <2>2
    <2>5. BusInv'
      BY <1>5, <2>1, <2>2, <2>4 DEF BusInv, PromptBus
    <2>6. QED
      BY <1>3, <2>3, <2>5
  <1>10. CASE MasterWAITING_DATA(DATA_LENGTH, waiting = <<>>, data)
    <2>1. /\ mas_state = "WAITING_DATA" /\ frame_sent_o' = FALSE /\ ~RREQ /\ RREQ' = RREQ
          /\ startAddr_bridge' = startAddr_bridge /\ startAddr_bridge % 8 = 0
          /\ mem' = mem
      BY <1>4, <1>5, <1>10 DEF MasterWAITING_DATA, PromptBus
    <2>2. CASE waiting = <<>>
      <3>1. mas_state' = mas_state
        BY <1>1, <1>10, <2>2 DEF MasterWAITING_DATA
      <3>2. Held
        BY <2>1, <3>1 DEF Held
      <3>3. Len(waiting') <= 1
        BY <1>8, <2>2
      <3>4. BusInv'
        BY <2>1, <3>1, <3>3 DEF BusInv, PromptBus
      <3>5. QED
        BY <1>3, <3>2, <3>4
    <2>3. CASE waiting # <<>>
      <3>1. /\ mas_state' = "WAITING_WRITE"
            /\ avm_address' = startAddr_bridge /\ avm_writedata' = waiting[1]
        BY <1>1, <1>2, <1>10, <2>3 DEF MasterWAITING_DATA, Present
      <3>2. waiting' = waiting
        BY <1>4, <1>8, <2>1, <2>3
      <3>3. Held
        BY <2>1, <2>3 DEF Held
      <3>4. BusInv'
        BY <1>5, <2>1, <2>3, <3>1, <3>2 DEF BusInv, PromptBus, FirstWrite
      <3>5. QED
        BY <1>3, <3>3, <3>4
    <2>4. QED
      BY <2>2, <2>3
  <1>11. CASE MasterWAITING_WRITE(waiting = <<>>, data, waitrequest)
    <2>1. /\ mas_state = "WAITING_WRITE" /\ datalength_bridge # 0 /\ frame_sent_o' = FALSE
          /\ avm_write /\ ~waitrequest /\ n = 0
          /\ mem' = [mem EXCEPT ![avm_address] = avm_writedata] /\ avm_address \in Addresses
          /\ FirstWrite \/ SecondWrite \/ ThirdWrite
      BY <1>4, <1>5, <1>11 DEF MasterWAITING_WRITE, PromptBus
    <2>2. waiting # <<>> =>
            /\ mas_state' = mas_state /\ RREQ' = TRUE
            /\ startAddr_bridge' = startAddr_bridge + 4
            /\ avm_address' = startAddr_bridge /\ avm_writedata' = waiting[1]
      BY <1>2, <1>11, <2>1 DEF MasterWAITING_WRITE, Present, Transfer
    <2>3. CASE FirstWrite
      <3>1. waiting' = waiting /\ waiting # <<>>
        BY <1>8, <2>1, <2>3 DEF FirstWrite
      <3>2. Accepted
        BY <2>1, <2>2, <2>3, <3>1 DEF FirstWrite, Accepted
      <3>3. (startAddr_bridge + 4) % 8 = 4 /\ (startAddr_bridge + 4) - 4 = startAddr_bridge
        BY <1>5, <2>3 DEF FirstWrite
      <3>4. SecondWrite'
        BY <2>2, <3>1, <3>3 DEF SecondWrite
      <3>5. BusInv'
        BY <1>5, <2>1, <2>2, <3>1, <3>4 DEF BusInv, PromptBus
      <3>6. QED
        BY <1>3, <3>2, <3>5
    <2>4. CASE SecondWrite
      <3>1. waiting' = <<>> /\ waiting # <<>>
        BY <1>8, <2>1, <2>4 DEF SecondWrite
      <3>2. Repeated
        BY <2>1, <2>2, <2>4, <3>1 DEF SecondWrite, Repeated
      <3>3. /\ (startAddr_bridge + 4) % 8 = 0 /\ (startAddr_bridge + 4) - 4 = startAddr_bridge
            /\ startAddr_bridge + 4 >= 8
        BY <1>5, <2>4 DEF SecondWrite
      <3>4. ThirdWrite'
        BY <2>2, <3>1, <3>3 DEF ThirdWrite
      <3>5. Len(waiting') <= 1
        BY <3>1, EmptySeq
      <3>6. BusInv'
        BY <2>1, <2>2, <3>1, <3>4, <3>5 DEF BusInv, PromptBus
      <3>7. QED
        BY <1>3, <3>2, <3>6
    <2>5. CASE ThirdWrite
      <3>1. /\ mas_state' = "WAITING_DATA" /\ RREQ' = FALSE
            /\ startAddr_bridge' = startAddr_bridge
        BY <1>11, <2>5 DEF MasterWAITING_WRITE, ThirdWrite
      <3>2. waiting' = <<>>
        BY <1>8, <2>1, <2>5 DEF ThirdWrite
      <3>3. Doubled
        BY <2>1, <2>5, <3>1 DEF ThirdWrite, Doubled
      <3>4. Len(waiting') <= 1
        BY <3>2, EmptySeq
      <3>5. BusInv'
        BY <2>5, <3>1, <3>4 DEF BusInv, PromptBus, ThirdWrite
      <3>6. QED
        BY <1>3, <3>3, <3>5
    <2>6. QED
      BY <2>1, <2>3, <2>4, <2>5
  <1>12. CASE MasterFrameEnd(0, DATA_LENGTH)
    <2>1. /\ mas_state = "WAITING_WRITE" /\ datalength_bridge = 0
          /\ mas_state' = "WAITING_DATA" /\ startAddr_bridge' = 0
          /\ frame_sent_o' = TRUE /\ RREQ' = FALSE
          /\ mem' = [mem EXCEPT ![avm_address] = avm_writedata] /\ avm_address \in Addresses
          /\ n = 0
      BY <1>4, <1>5, <1>12 DEF MasterFrameEnd, FrameEnd
    <2>2. ThirdWrite
      <3>1. startAddr_bridge = DATA_LENGTH
        BY <1>1, <1>5, <2>1
      <3>2. ~FirstWrite
        BY <1>1, <1>7, <2>1, <3>1 DEF FirstWrite
      <3>3. ~SecondWrite
        BY <1>6, <3>1 DEF SecondWrite
      <3>4. QED
        BY <1>5, <2>1, <3>2, <3>3 DEF PromptBus
    <2>3. waiting' = <<>>
      BY <1>8, <2>1, <2>2 DEF ThirdWrite
    <2>4. Len(waiting') <= 1 /\ 0 % 8 = 0
      BY <2>3, EmptySeq
    <2>5. Doubled
      BY <2>1, <2>2 DEF Doubled, ThirdWrite
    <2>6. BusInv'
      BY <2>1, <2>4 DEF BusInv, PromptBus
    <2>7. QED
      BY <1>3, <2>5, <2>6
  <1>13. QED
    BY <1>1, <1>9, <1>10, <1>11, <1>12 DEF MasterTick

(* The pixel clock only adds to the far end of the Buffer FIFO, unless it  *)
(* clears it.                                                              *)
LEMMA BusPixel ==
  ASSUME BusInv, UNCHANGED <<masterVars, mem_busy>>,
         waiting' = waiting \/ (mas_state # "WAITING_WRITE" /\ waiting' = <<>>)
  PROVE  BusInv'
  <1>1. Len(<<>>) = 0
    BY EmptySeq
  <1>2. CASE Prompt
    BY <1>1, <1>2 DEF BusInv, PromptBus, FirstWrite, SecondWrite, ThirdWrite, masterVars
  <1>3. CASE ~Prompt
    BY <1>3 DEF BusInv, WaitingBus, masterVars
  <1>4. QED
    BY <1>2, <1>3

LEMMA BusRests ==
  (mas_state = "IDLE" /\ ~RREQ /\ ~frame_sent_o /\ startAddr_bridge = 0
    /\ datalength_bridge # 0 /\ waiting = <<>> => BusInv)
  <1>1. Len(<<>>) = 0 /\ 0 % 8 = 0
    BY EmptySeq
  <1>2. QED
    BY <1>1 DEF BusInv, PromptBus, WaitingBus

LEMMA BusRestsAfter ==
  (mas_state = "IDLE" /\ ~RREQ /\ ~frame_sent_o /\ startAddr_bridge = 0
    /\ datalength_bridge # 0 /\ waiting = <<>> => BusInv)'
  BY BusRests, PTL

LEMMA BusReset == Reset => BusInv'
  BY Frames, BusRestsAfter DEF Reset, MasterReset, BufferClear

LEMMA BusInit == Init => BusInv
  BY Frames, BusRests DEF Init, MasterInit, BufferInit

-----------------------------------------------------------------------------
(* The program: it starts the controller for as long as it waits for a     *)
(* frame, and stops it between two captures only.                          *)
ProgramInv ==
  /\ start_o <=> pc \in {"poll", "hold", "start0"}
  /\ stop_o => pc \in {"ready", "stop0"}
  /\ pc = "hold" => FrameSent_rst
  /\ pc \in {"address", "length"} => shot = 0
  /\ pc \in {"stop0", "start1", "poll", "hold", "start0", "stop1"} => shot > 0

LEMMA StartStop ==
  (RegisterInv => (start_o <=> cam["CamStart"] = 1) /\ (stop_o <=> cam["CamStop"] = 1))
  BY DEF RegisterInv, start_o, stop_o

LEMMA StartStopAfter ==
  (RegisterInv => (start_o <=> cam["CamStart"] = 1) /\ (stop_o <=> cam["CamStop"] = 1))'
  BY StartStop, PTL

LEMMA ProgramCycle ==
  ASSUME TypeInv, ProgramInv, NEW acc, NEW waitrequest \in BOOLEAN, NEW n \in 0..Len(arriving),
         NEW delivered \in BOOLEAN, SysCycle(acc, waitrequest, n, delivered)
  PROVE  /\ ProgramInv' /\ CamStep(acc)
         /\ iFrameSent' = IF frame_sent_o THEN 1 ELSE IF FrameSent_rst THEN 0 ELSE iFrameSent
         /\ pc' = "hold" => pc = "poll" /\ readdata' = iFrameSent
  <1>1. CamStep(acc) /\ CamSlaveTick(acc, frame_sent_o)
    BY ProgramMoves DEF SysCycle
  <1>2. RegisterInv /\ frame_sent_o \in BOOLEAN /\ shot \in Nat
    BY CaptureAssumption DEF TypeInv, TypeOK, MasterTypeOK, ProgramTypeOK
  <1>3. /\ RegisterInv'
        /\ cam'["CamStart"] = IF acc = Write("CamStart", 1) THEN 1
                              ELSE IF acc = Write("CamStart", 0) THEN 0 ELSE cam["CamStart"]
        /\ cam'["CamStop"] = IF acc = Write("CamStop", 1) THEN 1
                             ELSE IF acc = Write("CamStop", 0) THEN 0 ELSE cam["CamStop"]
        /\ iFrameSent' = IF frame_sent_o THEN 1 ELSE IF FrameSent_rst THEN 0 ELSE iFrameSent
        /\ acc = Read("FrameSent") => readdata' = iFrameSent /\ FrameSent_rst'
    BY <1>1, <1>2, SlaveMoves
  <1>4. /\ start_o <=> cam["CamStart"] = 1
        /\ stop_o <=> cam["CamStop"] = 1
        /\ start_o' <=> cam'["CamStart"] = 1
        /\ stop_o' <=> cam'["CamStop"] = 1
    BY <1>2, <1>3, StartStop, StartStopAfter
  <1>5. start_o' <=> pc' \in {"poll", "hold", "start0"}
    BY <1>1, <1>3, <1>4, AccessesDiffer DEF CamStep, ProgramInv
  <1>6. stop_o' => pc' \in {"ready", "stop0"}
    BY <1>1, <1>3, <1>4, AccessesDiffer DEF CamStep, ProgramInv
  <1>7. /\ pc' = "hold" => FrameSent_rst'
        /\ pc' = "hold" => pc = "poll" /\ readdata' = iFrameSent
    BY <1>1, <1>3 DEF CamStep
  <1>8. /\ pc' \in {"address", "length"} => shot' = 0
        /\ pc' \in {"stop0", "start1", "poll", "hold", "start0", "stop1"} => shot' > 0
    BY <1>1, <1>2 DEF CamStep, ProgramInv
  <1>9. QED
    BY <1>1, <1>3, <1>5, <1>6, <1>7, <1>8 DEF ProgramInv

LEMMA ProgramRestarts == Reset => ProgramInv'
  BY DEF Reset, ProgramReset, CamSlaveReset, CamDefaults, CamRegisters, ProgramInv, start_o, stop_o

LEMMA ProgramStarts == Init => ProgramInv
  BY DEF Init, ProgramInit, CamSlaveInit, CamDefaults, CamRegisters, ProgramInv, start_o, stop_o
=============================================================================
