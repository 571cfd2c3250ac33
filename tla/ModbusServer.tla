--------------------------- MODULE ModbusServer ---------------------------
(***************************************************************************)
(* The Modbus server of modbus.c and the loop of main() that drives it: a  *)
(* master's bytes come in through the UART's FIFO, HandleModbusFrame cuts  *)
(* them into frames by their length alone, the handlers read and write the *)
(* registers, and a write makes main() initialise the peripherals again.   *)
(*                                                                         *)
(* The master, the wire and the UART are external and modelled from how    *)
(* the code uses them.  Resistances are abstracted to the number of rounds *)
(* a row has seen since it was last set to 0.  No code looks at the CRC of *)
(* a frame; that of an answer is the parameter Modbus_CRC16.               *)
(***************************************************************************)
EXTENDS Excitation, Sequences, FiniteSets

CONSTANTS
  MAX_STRIP_COUNT,       \* strips, and input registers (8)
  MODBUS_BUFFER_LENGTH,  \* bytes rxBuffer holds (256)
  FifoDepth,             \* bytes the UART's receive FIFO holds (8)
  Frames,                \* frames the master sends
  Noise,                 \* bytes a disturbed byte may turn into
  Modbus_CRC16(_),       \* checksum of a sequence of bytes, a uint16_t
  Hasty,                 \* may long frames come while main() is busy?
  MaxAsked, MaxRounds, MaxDisturbed   \* bounds of the model

Byte   == 0 .. 255
Uint16 == 65536

ASSUME CountsAssumption ==
  /\ MAX_STRIP_COUNT \in 1 .. 8      \* MaxTotal is what eight strips may have
  /\ FifoDepth \in Nat \ {0}
ASSUME BufferAssumption == MODBUS_BUFFER_LENGTH \in Nat /\ MODBUS_BUFFER_LENGTH >= 8
ASSUME FramesAssumption == Frames \subseteq Seq(Byte) /\ Noise \subseteq Byte
ASSUME BoundsAssumption == Hasty \in BOOLEAN /\ {MaxAsked, MaxRounds, MaxDisturbed} \subseteq Nat

Strips    == 0 .. MAX_STRIP_COUNT - 1
Registers == 0 .. 6              \* HOLDING_REGISTER_COUNT is 7
Default   == <<1, 50, 50, 21000, 1000, 8, 8>>

MODBUS_ADDRESS == 1
ReadHolding    == 3
ReadInput      == 4
WriteSingle    == 6
WriteMultiple  == 16

IllegalFunction == 1
IllegalAddress  == 2

Nothing == <<>>                  \* no frame, no answer

VARIABLES
  asked,               \* master: the frame it waits for an answer to
  answer,              \* master: the answer it has got
  wire,                \* bytes of that frame still to come
  fifo, overrun,       \* UART: received bytes, and its overrun flag
  flagged,             \* its flags of framing, noise and parity
  rxBuffer,            \* bytes of the frame HandleModbusFrame collects
  pc,                  \* what main() is at
  row,                 \* its loop variable
  holdingRegisters,
  inputRegisters,
  params,              \* the globals Modbus_UpdateParameters sets
  ModbusParamChanged,
  configured,          \* the parameters the peripherals were initialised with
  dac0,                \* what the excitation DAC puts out
  resistance_array,
  printing,            \* CTIMER2's handler prints the rows of a round
  fresh,               \* history: resistance_array when the frame was complete
  count                \* requests, rounds and disturbances so far

master_vars == <<asked, answer>>
uart_vars   == <<wire, fifo, overrun, flagged>>
reg_vars    == <<holdingRegisters, params, ModbusParamChanged>>
device_vars == <<configured, dac0, resistance_array, printing>>
vars == <<master_vars, uart_vars, rxBuffer, pc, row, reg_vars, inputRegisters,
          device_vars, fresh, count>>

InitParams ==
  [waveType |-> 0, dutyCycle |-> 50, desiredFrequency |-> 50, desiredAmplitude |-> 21,
   excitation |-> 1000, MUX_freq |-> 8, strips |-> {}]

Zeros == [s \in Strips |-> 0]

Init ==
  /\ asked = Nothing /\ answer = Nothing
  /\ wire = <<>> /\ fifo = <<>> /\ overrun = FALSE /\ flagged = FALSE
  /\ rxBuffer = <<>> /\ pc = "read" /\ row = 0
  /\ holdingRegisters = [r \in Registers |-> Default[r + 1]]
  /\ params = InitParams /\ ModbusParamChanged = FALSE
  /\ inputRegisters = Zeros
  /\ configured = Nothing /\ dac0 = 0 /\ printing = FALSE
  /\ resistance_array = Zeros /\ fresh = Zeros
  /\ count = [asked |-> 0, rounds |-> 0, disturbed |-> 0]

-----------------------------------------------------------------------------
(* The master and the wire.                                                *)

Ask ==
  /\ asked = Nothing /\ count.asked < MaxAsked
  /\ asked' \in Frames
  /\ Hasty \/ Len(asked') <= FifoDepth \/ (pc = "read" /\ ~printing)
  /\ wire' = asked'
  /\ count' = [count EXCEPT !.asked = @ + 1]
  /\ UNCHANGED <<answer, fifo, overrun, flagged, rxBuffer, pc, row, reg_vars,
                 inputRegisters, device_vars, fresh>>

TakeAnswer ==
  /\ answer # Nothing
  /\ asked' = Nothing /\ answer' = Nothing
  /\ UNCHANGED <<uart_vars, rxBuffer, pc, row, reg_vars, inputRegisters, device_vars,
                 fresh, count>>

\* The master's timeout is longer than the server ever needs.
TimeOut ==
  /\ asked # Nothing /\ answer = Nothing
  /\ wire = <<>> /\ fifo = <<>> /\ ~overrun /\ ~flagged /\ pc = "read" /\ ~printing
  /\ asked' = Nothing
  /\ UNCHANGED <<answer, uart_vars, rxBuffer, pc, row, reg_vars, inputRegisters,
                 device_vars, fresh, count>>

\* A byte takes longer than the loop of HandleModbusFrame, when it runs.
ByteDue == wire # <<>> /\ (pc = "read" /\ ~printing => fifo = <<>>)

\* Without room in the FIFO the overrun flag is set, and until it is cleared
\* bytes are lost.
Arrives(byte) ==
  IF Len(fifo) < FifoDepth /\ ~overrun
    THEN fifo' = Append(fifo, byte) /\ UNCHANGED overrun
    ELSE overrun' = TRUE /\ UNCHANGED fifo

Deliver ==
  /\ ByteDue
  /\ wire' = Tail(wire)
  /\ Arrives(Head(wire))
  /\ UNCHANGED <<master_vars, flagged, rxBuffer, pc, row, reg_vars, inputRegisters,
                 device_vars, fresh, count>>

\* The next byte on the wire is lost or becomes another one.  The UART may notice:
\* it sets a flag, though none once overrun is set.
Disturb ==
  /\ ByteDue /\ count.disturbed < MaxDisturbed
  /\ wire' = Tail(wire)
  /\ UNCHANGED <<fifo, overrun>> \/ \E byte \in Noise : Arrives(byte)
  /\ flagged' \in {flagged, flagged \/ ~overrun'}
  /\ count' = [count EXCEPT !.disturbed = @ + 1]
  /\ UNCHANGED <<master_vars, rxBuffer, pc, row, reg_vars, inputRegisters, device_vars,
                 fresh>>

-----------------------------------------------------------------------------
(* HandleModbusFrame.                                                      *)

ExpectedNine(buffer) ==
  IF buffer[2] = WriteMultiple THEN 9 + buffer[7] ELSE 9

ExpectedNoCrc(buffer) ==
  IF buffer[2] = WriteMultiple THEN 7 + buffer[7] ELSE 8

ExpectedLength(buffer) ==
  IF buffer[2] = WriteMultiple THEN 9 + buffer[7] ELSE 8

Complete(buffer) == Len(buffer) >= 8 /\ Len(buffer) = ExpectedLength(buffer)

\* LPUART_ReadBlocking succeeds, the byte is dropped if the buffer is full.
ReadByte ==
  /\ pc = "read" /\ fifo # <<>>
  /\ fifo' = Tail(fifo)
  /\ rxBuffer' = IF Len(rxBuffer) < MODBUS_BUFFER_LENGTH
                   THEN Append(rxBuffer, Head(fifo)) ELSE rxBuffer
  /\ IF Complete(rxBuffer') THEN pc' = "handle" /\ fresh' = resistance_array
                            ELSE UNCHANGED <<pc, fresh>>
  /\ UNCHANGED <<master_vars, wire, overrun, flagged, row, reg_vars, inputRegisters,
                 device_vars, count>>

\* It only looks at the flags while the FIFO is empty, at overrun first.
\* HandleModbusFrame returns, and the bytes it had collected are gone.
ReadError ==
  /\ pc = "read" /\ fifo = <<>> /\ (overrun \/ flagged)
  /\ overrun' = FALSE
  /\ flagged' = (overrun /\ flagged)
  /\ pc' = "checks" /\ rxBuffer' = <<>>
  /\ UNCHANGED <<master_vars, wire, fifo, row, reg_vars, inputRegisters, device_vars,
                 fresh, count>>

-----------------------------------------------------------------------------
(* Modbus_HandleRequest and its handlers.                                  *)

\* The word in bytes i and i + 1 of a frame.
Field(f, i) == 256 * f[i + 1] + f[i + 2]
Word(i)     == Field(rxBuffer, i)

HighFirst(bytes) ==
  bytes \o <<Modbus_CRC16(bytes) \div 256, Modbus_CRC16(bytes) % 256>>

\* The checksum goes last, its low byte first.
Framed(bytes) ==
  bytes \o <<Modbus_CRC16(bytes) % 256, Modbus_CRC16(bytes) \div 256>>

\* LPUART_WriteBlocking.  A master that waits for nothing ignores it.
Send(bytes) == answer' = IF asked = Nothing THEN Nothing ELSE Framed(bytes)

\* The values of registers, their high bytes first.
SendWords(words) ==
  Send(<<rxBuffer[1], rxBuffer[2], 2 * Len(words)>>
         \o [i \in 1 .. 2 * Len(words) |->
               IF i % 2 = 1 THEN words[(i + 1) \div 2] \div 256 ELSE words[i \div 2] % 256])

\* The request without its values, and with a new checksum.
Echo == Send(SubSeq(rxBuffer, 1, 6))

\* Modbus_SendError sets the top bit of the function code.
SendError(error) == Send(<<rxBuffer[1], 128 + (rxBuffer[2] % 128), error>>)

ForUs(code) == pc = "handle" /\ rxBuffer[1] = MODBUS_ADDRESS /\ rxBuffer[2] = code

\* HandleModbusFrame returns to main().
Return == pc' = "checks" /\ rxBuffer' = <<>>

HandleOthersFrame ==
  /\ pc = "handle" /\ rxBuffer[1] # MODBUS_ADDRESS
  /\ UNCHANGED <<answer, reg_vars>>
  /\ Return
  /\ UNCHANGED row

Refuse(error) ==
  /\ SendError(error)
  /\ UNCHANGED <<row, reg_vars>>
  /\ Return

HandleIllegalFunction ==
  /\ pc = "handle" /\ rxBuffer[1] = MODBUS_ADDRESS
  /\ rxBuffer[2] \notin {ReadHolding, ReadInput, WriteSingle, WriteMultiple}
  /\ Refuse(IllegalFunction)

Modbus_HandleReadHoldingRegister ==
  /\ ForUs(ReadHolding)
  /\ IF Word(2) + Word(4) <= 7
       THEN /\ SendWords([i \in 1 .. Word(4) |-> holdingRegisters[Word(2) + i - 1]])
            /\ UNCHANGED <<row, reg_vars>>
            /\ Return
       ELSE Refuse(IllegalAddress)

\* The rows are copied one by one before the answer is put together.
Modbus_HandleReadInputRegister ==
  /\ ForUs(ReadInput)
  /\ IF Word(2) + Word(4) <= MAX_STRIP_COUNT
       THEN pc' = "copy" /\ row' = 0 /\ UNCHANGED <<answer, reg_vars, rxBuffer>>
       ELSE Refuse(IllegalAddress)

EvenZero(old, register, new) == new

Changed(old, register, new) == IF register = 0 THEN old ELSE new

AllBits(word) == {s \in 0 .. 15 : (word \div 2^s) % 2 = 1}

\* active_strips; g_strip_count is counted with them.
StripsOf(word) == {s \in Strips : (word \div 2^s) % 2 = 1}

\* Units stay milli-units, but the amplitude is a uint32_t in volts.
Modbus_UpdateParameters(regs) ==
  [waveType         |-> Changed(params.waveType, regs[0], regs[0] - 1),
   dutyCycle        |-> Changed(params.dutyCycle, regs[1], regs[1]),
   desiredFrequency |-> Changed(params.desiredFrequency, regs[2], regs[2]),
   desiredAmplitude |-> Changed(params.desiredAmplitude, regs[3], regs[3] \div 1000),
   excitation       |-> Changed(params.excitation, regs[4], regs[4]),
   MUX_freq         |-> Changed(params.MUX_freq, regs[5], regs[5]),
   strips           |-> Changed(params.strips, regs[6], StripsOf(regs[6]))]

StoredOneLater(values, start) ==
  [r \in Registers |-> IF r - start \in 1 .. Len(values) THEN values[r - start]
                                                        ELSE holdingRegisters[r]]

Stored(values, start) ==
  [r \in Registers |-> IF r - start + 1 \in 1 .. Len(values) THEN values[r - start + 1]
                                                            ELSE holdingRegisters[r]]

IfSeveral(values) == Len(values) > 1

Announce(values) == TRUE

WriteTooEarly(values, start) ==
  /\ holdingRegisters' = Stored(values, start)
  /\ params' = Modbus_UpdateParameters(holdingRegisters)
  /\ ModbusParamChanged' = TRUE

\* All registers are applied again, not only those that have been written.
Write(values, start) ==
  /\ holdingRegisters' = Stored(values, start)
  /\ params' = Modbus_UpdateParameters(holdingRegisters')
  /\ ModbusParamChanged' = Announce(values)

Modbus_HandleWriteSingleRegister ==
  /\ ForUs(WriteSingle)
  /\ IF Word(2) \in Registers
       THEN /\ Write(<<Word(4)>>, Word(2))
            /\ Echo
            /\ Return /\ UNCHANGED row
       ELSE Refuse(IllegalAddress)

\* Not both 1 .. 123 registers and twice as many bytes, or past the end.
Modbus_HandleWriteMultipleRegisters ==
  /\ ForUs(WriteMultiple)
  /\ IF Word(4) \in 1 .. 123 /\ rxBuffer[7] = 2 * Word(4) /\ Word(2) + Word(4) <= 7
       THEN /\ Write([i \in 1 .. Word(4) |-> Word(5 + 2 * i)], Word(2))
            /\ Echo
            /\ Return /\ UNCHANGED row
       ELSE Refuse(IllegalAddress)

Modbus_HandleRequest ==
  /\ \/ HandleOthersFrame
     \/ HandleIllegalFunction
     \/ Modbus_HandleReadHoldingRegister
     \/ Modbus_HandleReadInputRegister
     \/ Modbus_HandleWriteSingleRegister
     \/ Modbus_HandleWriteMultipleRegisters
  /\ UNCHANGED <<asked, uart_vars, inputRegisters, device_vars, fresh, count>>

CopiedOnce(r) ==
  IF inputRegisters[r] = 0 THEN resistance_array[r] % Uint16 ELSE inputRegisters[r]

\* An int becomes a uint16_t.
Copied(r) == resistance_array[r] % Uint16

CopyRow ==
  /\ pc = "copy" /\ row < MAX_STRIP_COUNT
  /\ inputRegisters' = [inputRegisters EXCEPT ![row] = Copied(row)]
  /\ row' = row + 1
  /\ UNCHANGED <<master_vars, uart_vars, rxBuffer, pc, reg_vars, device_vars, fresh,
                 count>>

AnswerRows ==
  /\ pc = "copy" /\ row = MAX_STRIP_COUNT
  /\ SendWords([i \in 1 .. Word(4) |-> inputRegisters[Word(2) + i - 1]])
  /\ row' = 0
  /\ UNCHANGED reg_vars
  /\ Return
  /\ UNCHANGED <<asked, uart_vars, inputRegisters, device_vars, fresh, count>>

-----------------------------------------------------------------------------
(* main() after HandleModbusFrame, and the rounds the interrupts complete. *)

\* The CHECK lines are out, after some milliseconds in which nobody has emptied the
\* FIFO, and main() looks at ModbusParamChanged.
PrintChecks ==
  /\ pc = "checks"
  /\ pc' = IF ModbusParamChanged THEN "plate" ELSE "read"
  /\ UNCHANGED <<master_vars, uart_vars, rxBuffer, row, reg_vars, inputRegisters,
                 device_vars, fresh, count>>

PlateAccepts == params.waveType \in 0 .. 2 /\ params.desiredFrequency >= 2

\* initialize_dac_hot_plate; main() ignores that InitializeAllPeripherals fails.
InitPlate ==
  /\ pc = "plate"
  /\ IF PlateAccepts THEN pc' = "rest" /\ UNCHANGED ModbusParamChanged
                     ELSE pc' = "read" /\ ModbusParamChanged' = FALSE
  /\ UNCHANGED <<master_vars, uart_vars, rxBuffer, row, holdingRegisters, params,
                 inputRegisters, device_vars, fresh, count>>

InitRest ==
  /\ pc = "rest"
  /\ configured' = params
  /\ dac0' \in SetExcitationVoltage(params.excitation, Cardinality(params.strips))
  /\ resistance_array' = Zeros
  /\ ModbusParamChanged' = FALSE
  /\ pc' = "read"
  /\ UNCHANGED <<master_vars, uart_vars, rxBuffer, row, holdingRegisters, params,
                 inputRegisters, printing, fresh, count>>

\* calculate_resistance_array in CTIMER2's handler, which then prints eight rows;
\* main() gets the processor back when the last of them is out.  A master that
\* is not Hasty sends no long frame at such a time.
Round ==
  /\ configured # Nothing /\ ~printing /\ count.rounds < MaxRounds
  /\ Hasty \/ Len(wire) + Len(fifo) <= FifoDepth
  /\ resistance_array' = [s \in Strips |->
       resistance_array[s] + IF s \in params.strips THEN 1 ELSE 0]
  /\ printing' = TRUE
  /\ count' = [count EXCEPT !.rounds = @ + 1]
  /\ UNCHANGED <<master_vars, uart_vars, rxBuffer, pc, row, reg_vars, inputRegisters,
                 configured, dac0, fresh>>

RowsPrinted ==
  /\ printing
  /\ printing' = FALSE
  /\ UNCHANGED <<master_vars, uart_vars, rxBuffer, pc, row, reg_vars, inputRegisters,
                 configured, dac0, resistance_array, fresh, count>>

Server == /\ ~printing
          /\ \/ ReadByte \/ ReadError \/ Modbus_HandleRequest \/ CopyRow \/ AnswerRows
             \/ PrintChecks \/ InitPlate \/ InitRest

Next == Ask \/ TakeAnswer \/ TimeOut \/ Deliver \/ Disturb \/ Server \/ Round \/ RowsPrinted

\* The wire delivers, a handler ends and main() runs between interrupts; nobody
\* has to ask.
Fairness == WF_vars(Deliver) /\ WF_vars(RowsPrinted) /\ WF_vars(Server)

Spec     == Init /\ [][Next]_vars
FairSpec == Spec /\ Fairness
-----------------------------------------------------------------------------
(* Properties.                                                             *)

\* Types of every variable; the shape modbus.c and global.c declare.
TypeOK ==
  /\ asked \in Frames \cup {Nothing}
  /\ answer \in Seq(Byte)
  /\ wire \in Seq(Byte) /\ fifo \in Seq(Byte)
  /\ overrun \in BOOLEAN /\ flagged \in BOOLEAN
  /\ rxBuffer \in Seq(Byte)
  /\ pc \in {"read", "handle", "copy", "checks", "plate", "rest"}
  /\ row \in 0 .. MAX_STRIP_COUNT
  /\ holdingRegisters \in [Registers -> 0 .. Uint16 - 1]
  /\ inputRegisters \in [Strips -> 0 .. Uint16 - 1]
  /\ params.strips \subseteq Strips
  /\ ModbusParamChanged \in BOOLEAN
  /\ dac0 \in 0 .. FullScale /\ printing \in BOOLEAN
  /\ resistance_array \in [Strips -> Nat] /\ fresh \in [Strips -> Nat]

\* What Modbus_HandleRequest gets is a frame the master sent, from its first
\* byte to its last: the lengths alone keep both in step.
HandledFramesWereSent == pc = "handle" => rxBuffer \in Frames

\* HandleModbusFrame tests whether as many bytes have come as it expects, not
\* whether at least as many have: no byte lost or disturbed makes it miss that
\* moment, however long it goes on waiting for one.
LengthNotPassed ==
  pc = "read" /\ Len(rxBuffer) >= 8 => Len(rxBuffer) < ExpectedLength(rxBuffer)

\* While main() waits, the peripherals run with the parameters of the last
\* write, unless initialize_dac_hot_plate() refuses those.
PeripheralsFollowParameters ==
  pc = "read" /\ params # InitParams /\ PlateAccepts => configured = params

\* While main() waits, the excitation voltage is the one asked for per strip
\* times the strips switched on, or at most two steps of the DAC below it: a write
\* that changes only the strips changes the voltage too.  It is off when the one
\* per strip is out of range, though the write has been answered.
ExcitationAsAsked ==
  pc = "read" /\ configured # Nothing /\ PlateAccepts =>
    LET mV == IF params.excitation \in PerStripRange
                THEN params.excitation * Cardinality(params.strips) ELSE 0
    IN /\ AMPLIFIER_GAIN * Reference * dac0 <= FullScale * mV
       /\ FullScale * mV < AMPLIFIER_GAIN * Reference * (dac0 + 2)

\* Once a register has been written, the parameters are those the registers
\* hold: to apply them again (Modbus_UpdateParameters) would change nothing.
ParametersFollowRegisters ==
  params # InitParams => Modbus_UpdateParameters(holdingRegisters) = params

\* No write makes zero of what the peripherals divide by: MUX_freq by CTIMER2's
\* match value, desiredFrequency by the size of the hot plate's buffer.
DivisorsNotZero == params.MUX_freq # 0 /\ params.desiredFrequency # 0

\* The resistances of an answer are at least as new as its request
\* (Modbus_HandleReadInputRegister refreshes what it answers with).
AnswerIsFresh ==
  answer # Nothing /\ answer[2] = ReadInput =>
    \A i \in 1 .. answer[3] \div 2 :
      Field(answer, 1 + 2 * i) >= fresh[Field(asked, 2) + i - 1]

\* What an answer says and a request asks for, as RegisterServer sees them.

Decoded(b) ==
  LET Words(first, n) == [i \in 1 .. n |-> Field(b, first + 2 * i)]
      Reply(code, error, data) == [function |-> code, error |-> error, data |-> data]
  IN CASE b = Nothing -> Nothing
       [] b # Nothing /\ b[2] >= 128 -> Reply(b[2] - 128, b[3], <<>>)
       [] b # Nothing /\ b[2] \in {ReadHolding, ReadInput} ->
            Reply(b[2], 0, Words(1, b[3] \div 2))
       [] OTHER -> Reply(b[2], 0, Words(0, 2))

Written(f) ==
  CASE f[1] # MODBUS_ADDRESS -> <<>>
    [] f[2] = WriteSingle /\ Field(f, 2) < 7 -> <<Field(f, 4)>>
    [] f[2] = WriteMultiple /\ Field(f, 4) > 0 /\ f[7] = 2 * Field(f, 4)
         /\ Field(f, 2) + Field(f, 4) <= 7 -> [i \in 1 .. Field(f, 4) |-> Field(f, 5 + 2 * i)]
    [] OTHER -> <<>>

After(f, regs) ==
  [r \in Registers |-> LET i == r - Field(f, 2) + 1
                       IN IF i \in DOMAIN Written(f) THEN Written(f)[i] ELSE regs[r]]

Replies(f, regs) ==
  LET start == Field(f, 2)
      n     == Field(f, 4)
      Reply(error, data) == [function |-> f[2], error |-> error, data |-> data]
  IN CASE f[1] # MODBUS_ADDRESS -> {}
       [] f[2] = ReadHolding ->
            {IF start + n > 7 THEN Reply(IllegalAddress, <<>>)
             ELSE Reply(0, [i \in 1 .. n |-> regs[start + i - 1]])}
       [] f[2] = ReadInput ->
            IF start + n > MAX_STRIP_COUNT THEN {Reply(IllegalAddress, <<>>)}
            ELSE {Reply(0, d) : d \in [1 .. n -> 0 .. MaxRounds]}
       [] f[2] \in {WriteSingle, WriteMultiple} ->
            {IF Written(f) = <<>> THEN Reply(IllegalAddress, <<>>)
             ELSE Reply(0, <<start, n>>)}
       [] OTHER -> {Reply(IllegalFunction, <<>>)}

Served == INSTANCE RegisterServer WITH
  Asks <- Frames, Start <- [r \in Registers |-> Default[r + 1]],
  registers <- holdingRegisters, request <- asked, reply <- Decoded(answer)

\* As long as no byte is lost, the server keeps the promise of RegisterServer:
\* an answer belongs to the request the master waits on, and every register
\* has the value the requests answered so far have given it.
ServesRegisters == Served!Spec

\* Whatever is asked of this server is answered.  The master may ask no more, so
\* that the answer is to this request.
EveryRequestAnswered ==
  asked # Nothing /\ asked[1] = MODBUS_ADDRESS /\ answer = Nothing ~> answer # Nothing
=============================================================================
