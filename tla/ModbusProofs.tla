--------------------------- MODULE ModbusProofs ---------------------------
(***************************************************************************)
(* What holds of ModbusServer for every value of its constants: whatever   *)
(* the master sends, and whatever becomes of it on the wire.               *)
(***************************************************************************)
EXTENDS ModbusServer, FiniteSetTheorems, SequenceTheorems, TLAPS

-----------------------------------------------------------------------------
(* Zeros in the registers.                                                 *)

\* Modbus_UpdateParameters keeps what is not zero, whatever the registers hold.
LEMMA UpdateKeepsDivisors ==
  ASSUME DivisorsNotZero, NEW regs
  PROVE  /\ Modbus_UpdateParameters(regs).MUX_freq # 0
         /\ Modbus_UpdateParameters(regs).desiredFrequency # 0
  BY DEF DivisorsNotZero, Modbus_UpdateParameters, Changed

\* Only the two write handlers change registers and parameters, through Write.
LEMMA OnlyWritesChangeParameters ==
  ASSUME [Next]_vars
  PROVE  \/ params' = params /\ holdingRegisters' = holdingRegisters
         \/ /\ params' = Modbus_UpdateParameters(holdingRegisters')
            /\ pc = "handle" /\ pc' = "checks" /\ ModbusParamChanged' = TRUE
<1> USE DEF vars, master_vars, uart_vars, reg_vars, device_vars
<1>1. CASE Modbus_HandleRequest
  <2>1. CASE HandleOthersFrame \/ HandleIllegalFunction \/ Modbus_HandleReadHoldingRegister
             \/ Modbus_HandleReadInputRegister
    BY <2>1 DEF HandleOthersFrame, HandleIllegalFunction, Refuse,
       Modbus_HandleReadHoldingRegister, Modbus_HandleReadInputRegister
  <2>2. ASSUME NEW values, NEW start, Write(values, start), Return, pc = "handle"
        PROVE  /\ params' = Modbus_UpdateParameters(holdingRegisters')
               /\ pc = "handle" /\ pc' = "checks" /\ ModbusParamChanged' = TRUE
    BY <2>2 DEF Write, Announce, Return
  <2>3. CASE Modbus_HandleWriteSingleRegister
    BY <2>2, <2>3 DEF Modbus_HandleWriteSingleRegister, Refuse, ForUs
  <2>4. CASE Modbus_HandleWriteMultipleRegisters
    BY <2>2, <2>4 DEF Modbus_HandleWriteMultipleRegisters, Refuse, ForUs
  <2> QED
    BY <1>1, <2>1, <2>3, <2>4 DEF Modbus_HandleRequest
<1>2. ASSUME ~Modbus_HandleRequest
      PROVE  params' = params /\ holdingRegisters' = holdingRegisters
  BY <1>2 DEF Next, Server, Ask, TakeAnswer, TimeOut, Deliver, Disturb, ReadByte, ReadError,
     CopyRow, AnswerRows, PrintChecks, InitPlate, InitRest, Round, RowsPrinted
<1> QED
  BY <1>1, <1>2

\* Registers may be written with zeros (modbus.c), but neither CTIMER2's match
\* value nor the size of the hot plate's buffer is ever divided by zero.
THEOREM DivisorsStayNonZero == Spec => []DivisorsNotZero
<1>1. Init => DivisorsNotZero
  BY DEF Init, InitParams, DivisorsNotZero
<1>2. DivisorsNotZero /\ [Next]_vars => DivisorsNotZero'
  <2> SUFFICES ASSUME DivisorsNotZero, [Next]_vars PROVE DivisorsNotZero'
    OBVIOUS
  <2>1. CASE params' = params
    BY <2>1 DEF DivisorsNotZero
  <2>2. CASE params' = Modbus_UpdateParameters(holdingRegisters')
    BY <2>2, UpdateKeepsDivisors DEF DivisorsNotZero
  <2> QED
    BY <2>1, <2>2, OnlyWritesChangeParameters
<1> QED
  BY <1>1, <1>2, PTL DEF Spec

\* To apply registers once more changes nothing: what they hold is what the
\* parameters have been set to, a zero keeps what is there already.
LEMMA UpdateIsIdempotent ==
  ASSUME NEW regs, params' = Modbus_UpdateParameters(regs)
  PROVE  (Modbus_UpdateParameters(regs) = params)'
<1> DEFINE mask == StripsOf(regs[6])
<1>0. params' =
        [waveType |-> Changed(params.waveType, regs[0], regs[0] - 1),
         dutyCycle |-> Changed(params.dutyCycle, regs[1], regs[1]),
         desiredFrequency |-> Changed(params.desiredFrequency, regs[2], regs[2]),
         desiredAmplitude |-> Changed(params.desiredAmplitude, regs[3], regs[3] \div 1000),
         excitation |-> Changed(params.excitation, regs[4], regs[4]),
         MUX_freq |-> Changed(params.MUX_freq, regs[5], regs[5]),
         strips |-> Changed(params.strips, regs[6], mask)]
  BY Zenon DEF Modbus_UpdateParameters
<1>1. /\ params'.waveType = Changed(params.waveType, regs[0], regs[0] - 1)
      /\ params'.dutyCycle = Changed(params.dutyCycle, regs[1], regs[1])
      /\ params'.desiredFrequency = Changed(params.desiredFrequency, regs[2], regs[2])
      /\ params'.desiredAmplitude = Changed(params.desiredAmplitude, regs[3], regs[3] \div 1000)
      /\ params'.excitation = Changed(params.excitation, regs[4], regs[4])
      /\ params'.MUX_freq = Changed(params.MUX_freq, regs[5], regs[5])
      /\ params'.strips = Changed(params.strips, regs[6], mask)
  BY ZenonT(30) DEF Modbus_UpdateParameters
<1>2. Modbus_UpdateParameters(regs)' =
        [waveType |-> Changed(params'.waveType, regs[0], regs[0] - 1),
         dutyCycle |-> Changed(params'.dutyCycle, regs[1], regs[1]),
         desiredFrequency |-> Changed(params'.desiredFrequency, regs[2], regs[2]),
         desiredAmplitude |-> Changed(params'.desiredAmplitude, regs[3], regs[3] \div 1000),
         excitation |-> Changed(params'.excitation, regs[4], regs[4]),
         MUX_freq |-> Changed(params'.MUX_freq, regs[5], regs[5]),
         strips |-> Changed(params'.strips, regs[6], mask)]
  BY Zenon DEF Modbus_UpdateParameters
<1> HIDE DEF mask
<1>3. /\ Changed(params'.waveType, regs[0], regs[0] - 1) = params'.waveType
      /\ Changed(params'.dutyCycle, regs[1], regs[1]) = params'.dutyCycle
      /\ Changed(params'.desiredFrequency, regs[2], regs[2]) = params'.desiredFrequency
      /\ Changed(params'.desiredAmplitude, regs[3], regs[3] \div 1000) = params'.desiredAmplitude
      /\ Changed(params'.excitation, regs[4], regs[4]) = params'.excitation
      /\ Changed(params'.MUX_freq, regs[5], regs[5]) = params'.MUX_freq
      /\ Changed(params'.strips, regs[6], mask) = params'.strips
  BY <1>1, SMT DEF Changed
<1>4. Modbus_UpdateParameters(regs)' =
        [waveType |-> params'.waveType, dutyCycle |-> params'.dutyCycle,
         desiredFrequency |-> params'.desiredFrequency,
         desiredAmplitude |-> params'.desiredAmplitude,
         excitation |-> params'.excitation, MUX_freq |-> params'.MUX_freq,
         strips |-> params'.strips]
  BY <1>2, <1>3, SMTT(60)
<1>5. params' =
        [waveType |-> params'.waveType, dutyCycle |-> params'.dutyCycle,
         desiredFrequency |-> params'.desiredFrequency,
         desiredAmplitude |-> params'.desiredAmplitude,
         excitation |-> params'.excitation, MUX_freq |-> params'.MUX_freq,
         strips |-> params'.strips]
  BY <1>0, <1>1, ZenonT(30)
<1> QED
  BY <1>4, <1>5, Zenon

\* The registers a master reads back and the globals the peripherals are
\* initialised with never drift apart (modbus.c applies all registers at every
\* write), whatever is written in whatever pieces.
THEOREM ParametersFollow == Spec => []ParametersFollowRegisters
<1>1. Init => ParametersFollowRegisters
  BY DEF Init, ParametersFollowRegisters
<1>2. ParametersFollowRegisters /\ [Next]_vars => ParametersFollowRegisters'
  <2> SUFFICES ASSUME ParametersFollowRegisters, [Next]_vars
               PROVE  ParametersFollowRegisters'
    OBVIOUS
  <2>1. CASE params' = params /\ holdingRegisters' = holdingRegisters
    BY <2>1 DEF ParametersFollowRegisters, Modbus_UpdateParameters
  <2>2. CASE params' = Modbus_UpdateParameters(holdingRegisters')
    BY <2>2, UpdateIsIdempotent DEF ParametersFollowRegisters
  <2> QED
    BY <2>1, <2>2, OnlyWritesChangeParameters
<1> QED
  BY <1>1, <1>2, PTL DEF Spec

-----------------------------------------------------------------------------
(* The peripherals and the parameters.                                     *)

\* The flag is set only on the way to the initialisation, the second half of
\* which runs only with what the first accepts; while it is not set the peripherals
\* are as the parameters want them, unless the first half refused.
FollowInv ==
  /\ ModbusParamChanged \in BOOLEAN
  /\ ModbusParamChanged => pc \in {"checks", "plate", "rest"}
  /\ pc \in {"plate", "rest"} => ModbusParamChanged
  /\ pc = "rest" => PlateAccepts
  /\ ~ModbusParamChanged /\ params # InitParams /\ PlateAccepts => configured = params

\* A step that leaves parameters, flag and peripherals alone, and stays outside
\* of the initialisation or stays where it is.
LEMMA FollowInvStays ==
  ASSUME FollowInv,
         UNCHANGED <<params, configured, ModbusParamChanged>>,
         pc' = pc \/ (~ModbusParamChanged /\ pc' \notin {"plate", "rest"})
  PROVE  FollowInv'
  BY DEF FollowInv, PlateAccepts

\* Every step of the server, the master and the wire keeps the invariant.
LEMMA FollowInvStep ==
  ASSUME FollowInv, [Next]_vars
  PROVE  FollowInv'
<1> USE DEF vars, master_vars, uart_vars, reg_vars, device_vars
<1>1. ASSUME params' = params, Modbus_HandleRequest
      PROVE  FollowInv'
  <2>1. pc = "handle" /\ configured' = configured
    BY <1>1 DEF Modbus_HandleRequest, HandleOthersFrame, HandleIllegalFunction,
       Modbus_HandleReadHoldingRegister, Modbus_HandleReadInputRegister,
       Modbus_HandleWriteSingleRegister, Modbus_HandleWriteMultipleRegisters, ForUs
  <2>2. ~ModbusParamChanged
    BY <2>1 DEF FollowInv
  <2>3. \/ ModbusParamChanged' = TRUE /\ pc' = "checks"
        \/ ModbusParamChanged' = ModbusParamChanged /\ pc' \in {"checks", "copy"}
    <3>1. ASSUME UNCHANGED reg_vars, Return
          PROVE  ModbusParamChanged' = ModbusParamChanged /\ pc' \in {"checks", "copy"}
      BY <2>2, <3>1 DEF Return
    <3>2. ASSUME NEW values, NEW start, Write(values, start), Return
          PROVE  ModbusParamChanged' = TRUE /\ pc' = "checks"
      BY <3>2 DEF Write, Announce, Return
    <3>3. ASSUME NEW error, Refuse(error)
          PROVE  ModbusParamChanged' = ModbusParamChanged /\ pc' \in {"checks", "copy"}
      BY <3>1, <3>3 DEF Refuse
    <3>4. CASE HandleOthersFrame \/ HandleIllegalFunction
      BY <3>1, <3>3, <3>4 DEF HandleOthersFrame, HandleIllegalFunction
    <3>5. CASE Modbus_HandleReadHoldingRegister \/ Modbus_HandleReadInputRegister
      BY <3>1, <3>3, <3>5
         DEF Modbus_HandleReadHoldingRegister, Modbus_HandleReadInputRegister
    <3>6. CASE Modbus_HandleWriteSingleRegister \/ Modbus_HandleWriteMultipleRegisters
      BY <3>2, <3>3, <3>6
         DEF Modbus_HandleWriteSingleRegister, Modbus_HandleWriteMultipleRegisters
    <3> QED
      BY <1>1, <3>4, <3>5, <3>6 DEF Modbus_HandleRequest
  <2>4. CASE ModbusParamChanged' = TRUE /\ pc' = "checks"
    BY <2>4 DEF FollowInv
  <2>5. CASE ModbusParamChanged' = ModbusParamChanged /\ pc' \in {"checks", "copy"}
    BY <1>1, <2>1, <2>2, <2>5, FollowInvStays
  <2> QED
    BY <2>3, <2>4, <2>5
<1>2. ASSUME params' # params
      PROVE  FollowInv'
  BY <1>2, OnlyWritesChangeParameters DEF FollowInv
<1>3. CASE InitPlate
  BY <1>3 DEF InitPlate, FollowInv, PlateAccepts
<1>4. CASE InitRest
  BY <1>4 DEF InitRest, FollowInv, PlateAccepts
<1>5. CASE ReadByte
  <2>1. pc = "read" /\ pc' \in {"read", "handle"}
    BY <1>5 DEF ReadByte
  <2> QED
    BY <1>5, <2>1, FollowInvStays DEF ReadByte, FollowInv
<1>6. CASE AnswerRows
  <2>1. ~ModbusParamChanged /\ pc = "copy" /\ pc' = "checks"
    BY <1>6 DEF AnswerRows, Return, FollowInv
  <2> QED
    BY <1>6, <2>1, FollowInvStays DEF AnswerRows
<1>7. CASE Ask \/ TakeAnswer \/ TimeOut \/ Deliver \/ Disturb \/ CopyRow \/ Round
           \/ RowsPrinted \/ UNCHANGED vars
  <2>1. UNCHANGED <<params, configured, ModbusParamChanged, pc>>
    BY <1>7 DEF Ask, TakeAnswer, TimeOut, Deliver, Disturb, CopyRow, Round, RowsPrinted
  <2> QED
    BY <2>1, FollowInvStays
<1>8. CASE ReadError
  <2>1. ~ModbusParamChanged /\ pc' = "checks"
    BY <1>8 DEF ReadError, FollowInv
  <2> QED
    BY <1>8, <2>1, FollowInvStays DEF ReadError
<1>9. CASE PrintChecks
  BY <1>9 DEF PrintChecks, FollowInv, PlateAccepts
<1> QED
  BY <1>1, <1>2, <1>3, <1>4, <1>5, <1>6, <1>7, <1>8, <1>9 DEF Next, Server

\* Whenever main() waits for the next frame, the peripherals run with the
\* parameters of the last write, unless the hot plate refuses those; no frame
\* that is lost, disturbed or refused, and no time at which one arrives, makes
\* a write go without its initialisation.
THEOREM PeripheralsFollow == Spec => []PeripheralsFollowParameters
<1>1. Init => FollowInv
  BY DEF Init, FollowInv
<1>2. FollowInv /\ [Next]_vars => FollowInv'
  BY FollowInvStep
<1>3. FollowInv => PeripheralsFollowParameters
  BY DEF FollowInv, PeripheralsFollowParameters
<1> QED
  BY <1>1, <1>2, <1>3, PTL DEF Spec
-----------------------------------------------------------------------------
(* The frame that is being collected.                                      *)

\* Taking the first byte, and adding one at the end.
LEMMA FirstByte ==
  ASSUME NEW bytes \in Seq(Byte), bytes # <<>>
  PROVE  Head(bytes) \in Byte /\ Tail(bytes) \in Seq(Byte)
  OBVIOUS

\* rxBuffer[rxIndex++] = byte leaves the bytes before it alone.
LEMMA OneByteMore ==
  ASSUME NEW bytes \in Seq(Byte), NEW byte \in Byte
  PROVE  /\ Append(bytes, byte) \in Seq(Byte)
         /\ Len(bytes) \in Nat /\ Len(Append(bytes, byte)) = Len(bytes) + 1
         /\ \A i \in 1 .. Len(bytes) : Append(bytes, byte)[i] = bytes[i]
  OBVIOUS

\* What is read at an index of the frame is a byte.
LEMMA ByteAt ==
  ASSUME NEW bytes \in Seq(Byte), NEW i \in 1 .. Len(bytes)
  PROVE  bytes[i] \in Nat
<1>1. bytes[i] \in Byte
  OBVIOUS
<1>2. Byte \subseteq Nat
  BY DEF Byte
<1> QED
  BY <1>1, <1>2

\* Bytes are bytes wherever they are.
BytesInv == wire \in Seq(Byte) /\ fifo \in Seq(Byte) /\ rxBuffer \in Seq(Byte)

\* A handler that returns has emptied the buffer; main() finds it so and leaves it so.
FrameInv ==
  /\ BytesInv
  /\ pc \in {"checks", "plate", "rest"} => rxBuffer = <<>>
  /\ LengthNotPassed

\* The handlers leave the wire alone and the buffer as it is, or empty.
LEMMA HandlersEmptyBuffer ==
  ASSUME Modbus_HandleRequest \/ AnswerRows
  PROVE  /\ UNCHANGED <<wire, fifo>>
         /\ \/ rxBuffer' = <<>>
            \/ rxBuffer' = rxBuffer /\ pc' = "copy"
<1> USE DEF uart_vars
<1>1. UNCHANGED <<wire, fifo>>
  BY DEF Modbus_HandleRequest, AnswerRows
<1>2. ASSUME NEW error, Refuse(error)
      PROVE  rxBuffer' = <<>>
  BY <1>2 DEF Refuse, Return
<1>3. CASE AnswerRows \/ HandleOthersFrame \/ HandleIllegalFunction
  <2>1. rxBuffer' = <<>>
    BY <1>2, <1>3 DEF AnswerRows, HandleOthersFrame, HandleIllegalFunction, Return
  <2> QED
    BY <1>1, <2>1
<1>4. CASE Modbus_HandleReadHoldingRegister
  <2>1. rxBuffer' = <<>>
    BY <1>2, <1>4 DEF Modbus_HandleReadHoldingRegister, Return
  <2> QED
    BY <1>1, <2>1
<1>5. CASE Modbus_HandleReadInputRegister
  BY <1>1, <1>2, <1>5 DEF Modbus_HandleReadInputRegister
<1>6. CASE Modbus_HandleWriteSingleRegister \/ Modbus_HandleWriteMultipleRegisters
  <2>1. rxBuffer' = <<>>
    BY <1>2, <1>6
       DEF Modbus_HandleWriteSingleRegister, Modbus_HandleWriteMultipleRegisters, Return
  <2> QED
    BY <1>1, <2>1
<1> QED
  BY <1>3, <1>4, <1>5, <1>6 DEF Modbus_HandleRequest

\* One more byte: the expected length is known from the eighth byte on, and from
\* then on the length comes nearer to it one by one.
LEMMA ByteKeepsFrameInv ==
  ASSUME FrameInv, ReadByte
  PROVE  FrameInv'
<1>1. fifo' \in Seq(Byte) /\ Head(fifo) \in Byte /\ wire' = wire
  BY FirstByte DEF FrameInv, BytesInv, ReadByte
<1>2. rxBuffer' = rxBuffer \/ rxBuffer' = Append(rxBuffer, Head(fifo))
  BY DEF ReadByte
<1>3. rxBuffer' \in Seq(Byte)
  BY <1>1, <1>2, OneByteMore DEF FrameInv, BytesInv
<1>4. pc' = "read" => ~Complete(rxBuffer')
  BY DEF ReadByte
<1>5. pc = "read" /\ pc' \in {"read", "handle"}
  BY DEF ReadByte
<1>6. ASSUME pc' = "read", Len(rxBuffer') >= 8
      PROVE  Len(rxBuffer') < ExpectedLength(rxBuffer')
  <2>1. Len(rxBuffer') # ExpectedLength(rxBuffer')
    BY <1>4, <1>6 DEF Complete
  <2>5. Len(rxBuffer) \in Nat
    BY DEF FrameInv, BytesInv
  <2>2. CASE rxBuffer' = rxBuffer
    BY <2>2, <1>5, <1>6 DEF FrameInv, LengthNotPassed
  <2>3. CASE rxBuffer' = Append(rxBuffer, Head(fifo)) /\ Len(rxBuffer) >= 8
    <3>1. /\ Len(rxBuffer') = Len(rxBuffer) + 1 /\ Len(rxBuffer) \in Nat
          /\ rxBuffer'[2] = rxBuffer[2] /\ rxBuffer'[7] = rxBuffer[7] /\ rxBuffer[7] \in Nat
      <4>1. rxBuffer \in Seq(Byte) /\ Len(rxBuffer) \in Nat
            /\ 2 \in 1 .. Len(rxBuffer) /\ 7 \in 1 .. Len(rxBuffer)
        BY <2>3, <2>5 DEF FrameInv, BytesInv
      <4> QED
        BY <2>3, <1>1, <4>1, OneByteMore, ByteAt
    <3>2. ExpectedLength(rxBuffer') = ExpectedLength(rxBuffer)
      BY <3>1 DEF ExpectedLength
    <3>3. ExpectedLength(rxBuffer) \in Nat /\ Len(rxBuffer) < ExpectedLength(rxBuffer)
      BY <3>1, <2>3, <1>5 DEF FrameInv, LengthNotPassed, ExpectedLength
    <3> QED
      BY <2>1, <3>1, <3>2, <3>3
  <2>4. CASE rxBuffer' = Append(rxBuffer, Head(fifo)) /\ Len(rxBuffer) < 8
    <3>1. Len(rxBuffer') = 8 /\ rxBuffer'[7] \in Nat
      <4>1. rxBuffer \in Seq(Byte) /\ Len(rxBuffer) \in Nat
        BY <2>5 DEF FrameInv, BytesInv
      <4>2. Len(rxBuffer') = 8
        BY <2>4, <1>1, <1>6, <4>1, OneByteMore
      <4>3. 7 \in 1 .. Len(rxBuffer')
        BY <4>2
      <4> QED
        BY <1>3, <4>2, <4>3, ByteAt
    <3> QED
      BY <2>1, <3>1 DEF ExpectedLength
  <2> QED
    BY <1>2, <2>2, <2>3, <2>4, <2>5
<1> QED
  BY <1>1, <1>3, <1>5, <1>6 DEF FrameInv, BytesInv, LengthNotPassed

\* Every step of the server, the master and the wire keeps the invariant.
LEMMA FrameInvStep ==
  ASSUME FrameInv, [Next]_vars
  PROVE  FrameInv'
<1> USE DEF vars, master_vars, uart_vars, reg_vars, device_vars
<1>1. CASE Modbus_HandleRequest \/ AnswerRows
  <2>1. rxBuffer' = <<>> => FrameInv'
    BY <1>1, HandlersEmptyBuffer DEF FrameInv, BytesInv, LengthNotPassed
  <2>2. rxBuffer' = rxBuffer /\ pc' = "copy" => FrameInv'
    BY <1>1, HandlersEmptyBuffer DEF FrameInv, BytesInv, LengthNotPassed
  <2> QED
    BY <1>1, <2>1, <2>2, HandlersEmptyBuffer
<1>2. CASE ReadByte
  BY <1>2, ByteKeepsFrameInv
<1>3. CASE ReadError
  BY <1>3 DEF ReadError, FrameInv, BytesInv, LengthNotPassed
<1>4. CASE PrintChecks \/ InitPlate \/ InitRest
  <2>1. UNCHANGED <<wire, fifo, rxBuffer>> /\ rxBuffer = <<>>
    BY <1>4 DEF PrintChecks, InitPlate, InitRest, FrameInv
  <2> QED
    BY <2>1 DEF FrameInv, BytesInv, LengthNotPassed
<1>5. ASSUME UNCHANGED <<rxBuffer, pc>>, wire' \in Seq(Byte), fifo' \in Seq(Byte)
      PROVE  FrameInv'
  BY <1>5 DEF FrameInv, BytesInv, LengthNotPassed, ExpectedLength
<1>6. CASE Ask
  BY <1>5, <1>6, FramesAssumption DEF Ask, FrameInv, BytesInv
<1>7. CASE Deliver
  <2>1. wire' \in Seq(Byte) /\ Head(wire) \in Byte /\ UNCHANGED <<rxBuffer, pc>>
    BY <1>7, FirstByte DEF Deliver, ByteDue, FrameInv, BytesInv
  <2>2. fifo' = fifo \/ fifo' = Append(fifo, Head(wire))
    BY <1>7 DEF Deliver, Arrives
  <2> QED
    BY <1>5, <2>1, <2>2, OneByteMore DEF FrameInv, BytesInv
<1>8. CASE Disturb
  <2>1. wire' \in Seq(Byte) /\ UNCHANGED <<rxBuffer, pc>>
    BY <1>8, FirstByte DEF Disturb, ByteDue, FrameInv, BytesInv
  <2>2. fifo' = fifo \/ \E byte \in Noise : fifo' = Append(fifo, byte)
    BY <1>8 DEF Disturb, Arrives
  <2> QED
    BY <1>5, <2>1, <2>2, OneByteMore, FramesAssumption DEF FrameInv, BytesInv
<1>9. CASE TakeAnswer \/ TimeOut \/ CopyRow \/ Round \/ RowsPrinted \/ UNCHANGED vars
  <2>1. UNCHANGED <<rxBuffer, pc, wire, fifo>>
    BY <1>9 DEF TakeAnswer, TimeOut, CopyRow, Round, RowsPrinted
  <2> QED
    BY <1>5, <2>1 DEF FrameInv, BytesInv
<1> QED
  BY <1>1, <1>2, <1>3, <1>4, <1>6, <1>7, <1>8, <1>9 DEF Next, Server

\* HandleModbusFrame tests for equality only, and never misses the moment: no byte
\* that is lost, disturbed or left over from an overrun makes the length pass the one
\* that is expected, for every depth of the FIFO and every set of frames.
THEOREM LengthNeverPassed == Spec => []LengthNotPassed
<1>1. Init => FrameInv
  BY DEF Init, FrameInv, BytesInv, LengthNotPassed
<1>2. FrameInv /\ [Next]_vars => FrameInv'
  BY FrameInvStep
<1>3. FrameInv => LengthNotPassed
  BY DEF FrameInv
<1> QED
  BY <1>1, <1>2, <1>3, PTL DEF Spec

-----------------------------------------------------------------------------
(* The excitation voltage.                                                 *)

\* The quotient of a whole division, from both sides.
LEMMA Quotient ==
  ASSUME NEW n \in Nat, NEW d \in Nat \ {0}
  PROVE  n \div d \in Nat /\ d * (n \div d) <= n /\ n < d * (n \div d + 1)
OBVIOUS

\* DAC_SetData gets what the amplifier turns into the total voltage, or a step
\* less; eight strips at the most get what they may have.
LEMMA VoltageOfDac ==
  ASSUME NEW perStrip, NEW n \in Nat, n <= 8,
         NEW v \in SetExcitationVoltage(perStrip, n)
  PROVE  LET mV == IF perStrip \in PerStripRange THEN perStrip * n ELSE 0
         IN /\ v \in 0 .. FullScale
            /\ AMPLIFIER_GAIN * Reference * v <= FullScale * mV
            /\ FullScale * mV < AMPLIFIER_GAIN * Reference * (v + 2)
<1> DEFINE mV == IF perStrip \in PerStripRange THEN perStrip * n ELSE 0
           scaled == FullScale * TotalVoltage(perStrip, n)
<1>1. mV \in Nat /\ mV <= 8000
  <2>1. CASE perStrip \in PerStripRange
    <3>1. perStrip \in Nat /\ perStrip <= 1000
      BY <2>1 DEF PerStripRange
    <3>2. perStrip * n \in Nat /\ perStrip * n <= 1000 * n
      BY <3>1
    <3> QED
      BY <2>1, <3>2
  <2>2. CASE perStrip \notin PerStripRange
    BY <2>2
  <2> QED
    BY <2>1, <2>2
<1>2. TotalVoltage(perStrip, n) = mV
  BY <1>1 DEF TotalVoltage, MaxTotal
<1> HIDE DEF mV
<1>3. scaled = 4095 * mV /\ scaled \in Nat /\ scaled <= 4095 * 8000
  BY <1>1, <1>2 DEF FullScale
<1>4. PICK e \in {0, 1} : e <= scaled /\ v = (scaled - e) \div (AMPLIFIER_GAIN * Reference)
  BY DEF SetExcitationVoltage
<1> DEFINE x == scaled - e
<1>5. x \in Nat /\ scaled = x + e
  BY <1>3, <1>4
<1>6. v = x \div 9900
  BY <1>4 DEF AMPLIFIER_GAIN, Reference
<1> HIDE DEF scaled, x
<1>7. v \in Nat /\ 9900 * v <= x /\ x < 9900 * (v + 1)
  <2>1. 9900 \in Nat \ {0}
    OBVIOUS
  <2> QED
    BY <1>5, <1>6, <2>1, Quotient
<1>8. v <= 4095 /\ 9900 * v <= scaled /\ scaled < 9900 * (v + 2)
  BY <1>3, <1>4, <1>5, <1>7
<1>9. v \in 0 .. FullScale
  <2>1. FullScale \in Nat /\ v <= FullScale
    BY <1>7, <1>8 DEF FullScale
  <2> QED
    BY <1>7, <2>1
<1>10. AMPLIFIER_GAIN * Reference * v <= FullScale * mV
  BY <1>1, <1>3, <1>7, <1>8 DEF AMPLIFIER_GAIN, Reference, FullScale
<1>11. FullScale * mV < AMPLIFIER_GAIN * Reference * (v + 2)
  BY <1>1, <1>3, <1>7, <1>8 DEF AMPLIFIER_GAIN, Reference, FullScale
<1> QED
  BY <1>9, <1>10, <1>11 DEF mV

\* The strips switched on are counted: eight at most.
LEMMA CountOfStrips ==
  ASSUME NEW strips \in SUBSET Strips
  PROVE  Cardinality(strips) \in Nat /\ Cardinality(strips) <= 8
<1>1. IsFiniteSet(Strips) /\ Cardinality(Strips) = MAX_STRIP_COUNT
  <2>1. 0 \in Int /\ MAX_STRIP_COUNT - 1 \in Int /\ MAX_STRIP_COUNT \in Nat
        /\ MAX_STRIP_COUNT >= 1
    BY CountsAssumption
  <2>2. IsFiniteSet(0 .. MAX_STRIP_COUNT - 1)
        /\ Cardinality(0 .. MAX_STRIP_COUNT - 1) =
             IF 0 > MAX_STRIP_COUNT - 1 THEN 0 ELSE (MAX_STRIP_COUNT - 1) - 0 + 1
    BY <2>1, FS_Interval
  <2> QED
    BY <2>1, <2>2 DEF Strips
<1>2. IsFiniteSet(strips) /\ Cardinality(strips) <= Cardinality(Strips)
  BY <1>1, FS_Subset
<1>3. Cardinality(strips) \in Nat
  BY <1>2, FS_CardinalityType
<1> QED
  BY <1>1, <1>2, <1>3, CountsAssumption

\* While no write waits for its initialisation the DAC has what the parameters ask
\* for, as soon as it has been initialised and unless the hot plate refuses them.
VoltageInv ==
  /\ params.strips \in SUBSET Strips
  /\ ~ModbusParamChanged /\ configured # Nothing /\ PlateAccepts =>
       dac0 \in SetExcitationVoltage(params.excitation, Cardinality(params.strips))

\* The DAC is written once per initialisation, which ends there.
LEMMA OnlyInitRestSetsVoltage ==
  ASSUME [Next]_vars, ~InitRest
  PROVE  /\ UNCHANGED <<configured, dac0>>
         /\ ModbusParamChanged => ModbusParamChanged' \/ ~PlateAccepts
<1> USE DEF vars, master_vars, uart_vars, reg_vars, device_vars
<1>1. CASE Modbus_HandleRequest
  <2>1. UNCHANGED <<configured, dac0>>
    BY <1>1 DEF Modbus_HandleRequest
  <2>2. ModbusParamChanged => ModbusParamChanged'
    BY <1>1 DEF Modbus_HandleRequest, HandleOthersFrame, HandleIllegalFunction, Refuse,
       Modbus_HandleReadHoldingRegister, Modbus_HandleReadInputRegister,
       Modbus_HandleWriteSingleRegister, Modbus_HandleWriteMultipleRegisters, Write, Announce
  <2> QED
    BY <2>1, <2>2
<1>2. CASE InitPlate
  BY <1>2 DEF InitPlate
<1>3. CASE ReadByte \/ AnswerRows \/ PrintChecks
  BY <1>3 DEF ReadByte, AnswerRows, PrintChecks
<1>4. CASE Ask \/ TakeAnswer \/ TimeOut \/ Deliver \/ Disturb \/ ReadError \/ CopyRow \/ Round
           \/ RowsPrinted \/ UNCHANGED vars
  BY <1>4 DEF Ask, TakeAnswer, TimeOut, Deliver, Disturb, ReadError, CopyRow, Round,
     RowsPrinted
<1> QED
  BY <1>1, <1>2, <1>3, <1>4 DEF Next, Server

\* DAC0 keeps the voltage of the last initialisation, which a new one replaces.
LEMMA VoltageInvStep ==
  ASSUME VoltageInv, [Next]_vars
  PROVE  VoltageInv'
<1> USE DEF reg_vars
<1>1. params'.strips \in SUBSET Strips
  <2>1. CASE params' = params
    BY <2>1 DEF VoltageInv
  <2>2. CASE params' = Modbus_UpdateParameters(holdingRegisters')
    <3> DEFINE bits == StripsOf(holdingRegisters'[6])
    <3>1. params'.strips = Changed(params.strips, holdingRegisters'[6], bits)
      BY <2>2, ZenonT(30) DEF Modbus_UpdateParameters
    <3>2. bits \in SUBSET Strips
      BY DEF StripsOf
    <3> HIDE DEF bits
    <3> QED
      BY <3>1, <3>2 DEF Changed, VoltageInv
  <2> QED
    BY <2>1, <2>2, OnlyWritesChangeParameters
<1>2. CASE InitRest
  <2>1. /\ params' = params
        /\ dac0' \in SetExcitationVoltage(params.excitation, Cardinality(params.strips))
    BY <1>2 DEF InitRest
  <2> QED
    BY <1>1, <2>1 DEF VoltageInv
<1>3. CASE ~InitRest /\ params' = params
  BY <1>1, <1>3, OnlyInitRestSetsVoltage DEF VoltageInv, PlateAccepts
<1>4. CASE params' # params
  <2>1. ModbusParamChanged' = TRUE
    BY <1>4, OnlyWritesChangeParameters
  <2> QED
    BY <1>1, <2>1 DEF VoltageInv
<1> QED
  BY <1>2, <1>3, <1>4

\* Whatever is written, in whatever pieces and at whatever moment, main() never
\* waits for a frame with another excitation voltage on the strips than the one
\* asked for: a write that changes only the strips changes the voltage too.
THEOREM ExcitationFollows == Spec => []ExcitationAsAsked
<1>1. Init => VoltageInv
  BY DEF Init, VoltageInv, InitParams
<1>2. VoltageInv /\ [Next]_vars => VoltageInv'
  BY VoltageInvStep
<1>3. Init => FollowInv
  BY DEF Init, FollowInv
<1>4. FollowInv /\ [Next]_vars => FollowInv'
  BY FollowInvStep
<1>5. FollowInv /\ VoltageInv => ExcitationAsAsked
  <2> SUFFICES ASSUME FollowInv, VoltageInv, pc = "read", configured # Nothing, PlateAccepts
               PROVE  LET mV == IF params.excitation \in PerStripRange
                                  THEN params.excitation * Cardinality(params.strips) ELSE 0
                      IN /\ AMPLIFIER_GAIN * Reference * dac0 <= FullScale * mV
                         /\ FullScale * mV < AMPLIFIER_GAIN * Reference * (dac0 + 2)
    BY DEF ExcitationAsAsked
  <2> DEFINE n == Cardinality(params.strips)
  <2>1. n \in Nat /\ n <= 8
    BY CountOfStrips DEF VoltageInv
  <2>2. dac0 \in SetExcitationVoltage(params.excitation, n)
    BY DEF FollowInv, VoltageInv
  <2> QED
    BY <2>1, <2>2, VoltageOfDac
<1> QED
  BY <1>1, <1>2, <1>3, <1>4, <1>5, PTL DEF Spec

-----------------------------------------------------------------------------
(* Types.                                                                  *)

\* What Modbus_CRC16 returns is a uint16_t.
CrcIsWord == \A bytes \in Seq(Byte) : Modbus_CRC16(bytes) \in Nat /\ Modbus_CRC16(bytes) < Uint16

Words16 == 0 .. Uint16 - 1

\* A frame that is complete is so long that no handler reads past its end.
HandleInv ==
  /\ pc \in {"handle", "copy"} => Complete(rxBuffer)
  /\ pc = "copy" => Word(2) + Word(4) <= MAX_STRIP_COUNT

\* Two bytes make a word, and a word is two bytes.
LEMMA InWords16 == \A n : n \in Words16 <=> n \in Nat /\ n < Uint16
<1>1. PICK last \in Nat : last = 65535
  OBVIOUS
<1>2. Words16 = 0 .. last
  BY <1>1 DEF Words16, Uint16
<1>3. \A n : n \in 0 .. last <=> n \in Nat /\ n <= last
  OBVIOUS
<1>4. \A n \in Nat : n <= last <=> n < Uint16
  BY <1>1 DEF Uint16
<1> QED
  BY <1>2, <1>3, <1>4, Zenon

\* A byte is what is less than 256.
LEMMA InByte == \A n : n \in Byte <=> n \in Nat /\ n < 256
<1>1. PICK last \in Nat : last = 255
  OBVIOUS
<1>2. Byte = 0 .. last
  BY <1>1 DEF Byte
<1> QED
  BY <1>1, <1>2

\* (high << 8) | low of two bytes is a word.
LEMMA WordOfBytes ==
  ASSUME NEW f \in Seq(Byte), NEW j \in Nat, j + 2 <= Len(f)
  PROVE  /\ Field(f, j) \in Nat /\ Field(f, j) < Uint16
         /\ f[j + 1] \in Byte /\ f[j + 2] \in Byte
<1>1. j + 1 \in 1 .. Len(f) /\ j + 2 \in 1 .. Len(f)
  OBVIOUS
<1>2. f[j + 1] \in Byte /\ f[j + 2] \in Byte
  BY <1>1
<1> QED
  BY <1>2, InByte DEF Field, Uint16

\* value >> 8 and value & 0xFF of a word are two bytes.
LEMMA BytesOfWord ==
  ASSUME NEW w \in Nat, w < Uint16
  PROVE  \E high \in Byte, low \in Byte :
           high = w \div 256 /\ low = w % 256 /\ w = 256 * high + low
<1>1. PICK q \in Nat : q = w \div 256 /\ 256 * q <= w /\ w < 256 * (q + 1)
  <2>1. 256 \in Nat \ {0}
    OBVIOUS
  <2> QED
    BY <2>1, Quotient
<1>2. PICK m \in Nat : m < 256 /\ w = 256 * q + m
  <2>1. w - 256 * q \in Nat /\ w - 256 * q < 256 /\ w = 256 * q + (w - 256 * q)
    BY <1>1
  <2> QED
    BY <2>1
<1>3. m = w % 256
  BY <1>2
<1>4. q \in Byte /\ m \in Byte
  <2>1. q < 256
    BY <1>1 DEF Uint16
  <2> QED
    BY <1>2, <2>1, InByte
<1> QED
  BY <1>1, <1>2, <1>3, <1>4, ZenonT(60)

\* With its checksum an answer is still made of bytes (Modbus_SendResponse).
LEMMA FramedIsBytes ==
  ASSUME CrcIsWord, NEW bytes \in Seq(Byte)
  PROVE  /\ Framed(bytes) \in Seq(Byte) /\ Framed(bytes) # <<>>
         /\ Len(Framed(bytes)) = Len(bytes) + 2
         /\ \A j \in 1 .. Len(bytes) : Framed(bytes)[j] = bytes[j]
<1> DEFINE c == Modbus_CRC16(bytes)
           tail == <<c % 256, c \div 256>>
<1>1. c \in Nat /\ c < Uint16
  BY DEF CrcIsWord
<1> HIDE DEF c
<1>2. c \div 256 \in Byte /\ c % 256 \in Byte
  BY <1>1, BytesOfWord, ZenonT(60)
<1>3. tail \in Seq(Byte) /\ Len(tail) = 2
  BY <1>2
<1>4. Framed(bytes) = bytes \o tail
  BY DEF Framed, c
<1> HIDE DEF tail
<1>5. /\ bytes \o tail \in Seq(Byte) /\ Len(bytes \o tail) = Len(bytes) + 2
      /\ \A j \in 1 .. Len(bytes) : (bytes \o tail)[j] = bytes[j]
  <2>1. /\ bytes \o tail \in Seq(Byte) /\ Len(bytes \o tail) = Len(bytes) + Len(tail)
        /\ \A j \in 1 .. Len(bytes) + Len(tail) :
             (bytes \o tail)[j] = IF j <= Len(bytes) THEN bytes[j] ELSE tail[j - Len(bytes)]
    BY <1>3, ConcatProperties, Zenon
  <2>2. Len(bytes) \in Nat
    OBVIOUS
  <2> QED
    BY <1>3, <2>1, <2>2
<1>6. bytes \o tail # <<>>
  BY <1>5
<1> QED
  BY <1>4, <1>5, <1>6

\* Modbus_SendResponse sends bytes.
LEMMA SentIsBytes ==
  ASSUME CrcIsWord, NEW bytes \in Seq(Byte), Send(bytes)
  PROVE  answer' \in Seq(Byte)
BY FramedIsBytes DEF Send, Nothing

\* The bytes of the registers' values, as the handlers put them together.
LEMMA SentWordsAreBytes ==
  ASSUME CrcIsWord, rxBuffer \in Seq(Byte), Len(rxBuffer) >= 8,
         NEW n \in Nat, n <= 8, NEW words \in [1 .. n -> Words16], SendWords(words)
  PROVE  answer' \in Seq(Byte)
<1> DEFINE data == [k \in 1 .. 2 * n |->
                     IF k % 2 = 1 THEN words[(k + 1) \div 2] \div 256 ELSE words[k \div 2] % 256]
           head == <<rxBuffer[1], rxBuffer[2], 2 * n>>
<1>1. Len(words) = n
  OBVIOUS
<1>2. head \in Seq(Byte)
  <2>1. rxBuffer[1] \in Byte /\ rxBuffer[2] \in Byte
    OBVIOUS
  <2>2. 2 * n \in Byte
    BY InByte
  <2> QED
    BY <2>1, <2>2
<1>3. data \in Seq(Byte)
  <2>1. ASSUME NEW k \in 1 .. 2 * n PROVE data[k] \in Byte
    <3>1. CASE k % 2 = 1
      <4>1. (k + 1) \div 2 \in 1 .. n
        BY <3>1
      <4>2. words[(k + 1) \div 2] \in Nat /\ words[(k + 1) \div 2] < Uint16
        BY <4>1, InWords16
      <4> QED
        BY <3>1, <4>2, BytesOfWord
    <3>2. CASE k % 2 # 1
      <4>1. k \div 2 \in 1 .. n
        BY <3>2
      <4>2. words[k \div 2] \in Nat /\ words[k \div 2] < Uint16
        BY <4>1, InWords16
      <4> QED
        BY <3>2, <4>2, BytesOfWord
    <3> QED
      BY <3>1, <3>2
  <2>2. 2 * n \in Nat
    OBVIOUS
  <2>3. data \in [1 .. 2 * n -> Byte]
    BY <2>1
  <2> HIDE DEF data
  <2> QED
    BY <2>2, <2>3
<1>4. Send(head \o data)
  BY <1>1 DEF SendWords
<1> HIDE DEF head, data
<1>5. head \o data \in Seq(Byte)
  BY <1>2, <1>3
<1> QED
  BY <1>4, <1>5, SentIsBytes

\* The frame a handler has in its hands.
FrameInHand == rxBuffer \in Seq(Byte) /\ Len(rxBuffer) >= 8
                 /\ Len(rxBuffer) = ExpectedLength(rxBuffer)

\* Modbus_HandleRequest looks at bytes that are there.
LEMMA HeaderOfFrame ==
  ASSUME FrameInHand
  PROVE  /\ Word(2) \in Nat /\ Word(2) < Uint16 /\ Word(4) \in Nat /\ Word(4) < Uint16
         /\ rxBuffer[1] \in Byte /\ rxBuffer[2] \in Byte /\ rxBuffer[7] \in Byte
<1>1. rxBuffer \in Seq(Byte) /\ Len(rxBuffer) \in Nat /\ Len(rxBuffer) >= 8
  BY DEF FrameInHand
<1>2. /\ Field(rxBuffer, 2) \in Nat /\ Field(rxBuffer, 2) < Uint16
      /\ Field(rxBuffer, 4) \in Nat /\ Field(rxBuffer, 4) < Uint16
  BY <1>1, WordOfBytes
<1>3. 1 \in 1 .. Len(rxBuffer) /\ 2 \in 1 .. Len(rxBuffer) /\ 7 \in 1 .. Len(rxBuffer)
  BY <1>1
<1>4. rxBuffer[1] \in Byte /\ rxBuffer[2] \in Byte /\ rxBuffer[7] \in Byte
  BY <1>1, <1>3
<1> QED
  BY <1>2, <1>4 DEF Word

\* Modbus_SendError and the echo of a write send bytes.
LEMMA RefusalIsBytes ==
  ASSUME CrcIsWord, FrameInHand, NEW error \in {IllegalFunction, IllegalAddress},
         SendError(error)
  PROVE  answer' \in Seq(Byte)
<1> DEFINE code == 128 + (rxBuffer[2] % 128)
           bytes == <<rxBuffer[1], code, error>>
<1>1. rxBuffer[1] \in Byte /\ rxBuffer[2] \in Nat
  BY HeaderOfFrame, InByte
<1>2. code \in Byte
  BY <1>1, InByte
<1>3. error \in Byte
  BY InByte DEF IllegalFunction, IllegalAddress
<1>4. Send(bytes)
  BY DEF SendError
<1> HIDE DEF code
<1>5. bytes \in Seq(Byte)
  BY <1>1, <1>2, <1>3
<1> HIDE DEF bytes
<1> QED
  BY <1>4, <1>5, SentIsBytes

\* The answer to a write, a piece of the request, is made of bytes.
LEMMA EchoIsBytes ==
  ASSUME CrcIsWord, FrameInHand, Echo
  PROVE  answer' \in Seq(Byte)
<1>1. SubSeq(rxBuffer, 1, 6) \in Seq(Byte)
  BY DEF FrameInHand
<1> QED
  BY <1>1, SentIsBytes DEF Echo

\* A write stores words where the registers are.
LEMMA StoredAreWords ==
  ASSUME holdingRegisters \in [Registers -> Words16], NEW start \in Nat,
         NEW n \in Nat, NEW values \in [1 .. n -> Words16]
  PROVE  Stored(values, start) \in [Registers -> Words16]
<1>1. Len(values) = n
  OBVIOUS
<1> QED
  BY <1>1 DEF Stored, Registers

\* The values of Modbus_HandleWriteMultipleRegisters end where its frame ends.
LEMMA WrittenAreWords ==
  ASSUME FrameInHand, rxBuffer[2] = WriteMultiple,
         rxBuffer[7] = 2 * Word(4), Word(4) \in 1 .. 123
  PROVE  [k \in 1 .. Word(4) |-> Word(5 + 2 * k)] \in [1 .. Word(4) -> Words16]
<1>1. rxBuffer \in Seq(Byte) /\ Len(rxBuffer) = 9 + rxBuffer[7]
  BY DEF FrameInHand, ExpectedLength
<1>2. rxBuffer \in Seq(Byte) /\ Len(rxBuffer) = 9 + 2 * Word(4)
  BY <1>1
<1>3. ASSUME NEW k \in 1 .. Word(4) PROVE Word(5 + 2 * k) \in Words16
  <2> DEFINE j == 5 + 2 * k
  <2>1. j \in Nat /\ j + 2 <= Len(rxBuffer)
    <3>1. PICK n \in Nat : n = Word(4)
      OBVIOUS
    <3>2. k \in 1 .. n /\ Len(rxBuffer) = 9 + 2 * n
      BY <1>2, <3>1
    <3> QED
      BY <3>2
  <2> HIDE DEF j
  <2>2. Field(rxBuffer, j) \in Nat /\ Field(rxBuffer, j) < Uint16
    BY <1>2, <2>1, WordOfBytes
  <2>3. Word(j) \in Words16
    BY <2>2, InWords16 DEF Word
  <2> QED
    BY <2>3 DEF j
<1> QED
  BY <1>3

\* A read sends the values of registers that exist.
LEMMA SendWordsOfRows ==
  ASSUME CrcIsWord, FrameInHand, NEW n \in Nat, n <= 8, NEW regs \in [0 .. n - 1 -> Words16],
         Word(2) + Word(4) <= n, SendWords([k \in 1 .. Word(4) |-> regs[Word(2) + k - 1]])
  PROVE  answer' \in Seq(Byte)
<1> DEFINE start == Word(2)
           many == Word(4)
           words == [k \in 1 .. many |-> regs[start + k - 1]]
<1>1. start \in Nat /\ many \in Nat /\ start + many <= n
  BY HeaderOfFrame
<1>2. rxBuffer \in Seq(Byte) /\ Len(rxBuffer) >= 8
  BY DEF FrameInHand
<1>3. SendWords(words)
  OBVIOUS
<1> HIDE DEF start, many
<1>4. \A k \in 1 .. many : start + k - 1 \in 0 .. n - 1
  BY <1>1
<1>5. words \in [1 .. many -> Words16]
  BY <1>4
<1>6. many <= 8
  BY <1>1
<1> HIDE DEF words
<1> QED
  BY <1>1, <1>2, <1>3, <1>5, <1>6, SentWordsAreBytes

\* What a handler leaves behind: it returns, or has the rows to copy first.
Returned ==
  /\ answer' \in Seq(Byte) /\ holdingRegisters' \in [Registers -> Words16]
  /\ row' \in 0 .. MAX_STRIP_COUNT /\ ModbusParamChanged' \in BOOLEAN
  /\ \/ pc' = "checks"
     \/ pc' = "copy" /\ rxBuffer' = rxBuffer /\ Word(2) + Word(4) <= MAX_STRIP_COUNT

\* Every handler of Modbus_HandleRequest, with a frame that is complete.
LEMMA HandlersKeepTypes ==
  ASSUME CrcIsWord, FrameInHand, Modbus_HandleRequest,
         answer \in Seq(Byte), holdingRegisters \in [Registers -> Words16],
         row \in 0 .. MAX_STRIP_COUNT, ModbusParamChanged \in BOOLEAN
  PROVE  Returned
<1> USE DEF reg_vars
<1>1. ASSUME Return PROVE pc' = "checks"
  BY <1>1 DEF Return
<1>2. ASSUME NEW error \in {IllegalFunction, IllegalAddress}, Refuse(error) PROVE Returned
  <2>1. answer' \in Seq(Byte)
    BY <1>2, RefusalIsBytes DEF Refuse
  <2> QED
    BY <1>1, <1>2, <2>1 DEF Refuse, Returned
<1>3. CASE HandleOthersFrame
  BY <1>1, <1>3 DEF HandleOthersFrame, Returned
<1>4. CASE HandleIllegalFunction
  BY <1>2, <1>4 DEF HandleIllegalFunction
<1>5. CASE Modbus_HandleReadHoldingRegister
  <2>1. CASE Word(2) + Word(4) <= 7
    <3>1. /\ SendWords([k \in 1 .. Word(4) |-> holdingRegisters[Word(2) + k - 1]])
          /\ UNCHANGED <<row, reg_vars>> /\ Return
      BY <1>5, <2>1 DEF Modbus_HandleReadHoldingRegister
    <3>2. PICK n \in Nat : n = 7
      OBVIOUS
    <3>3. answer' \in Seq(Byte)
      <4>1. Registers = 0 .. n - 1 /\ n <= 8 /\ Word(2) + Word(4) <= n
        BY <2>1, <3>2 DEF Registers
      <4> QED
        BY <3>1, <4>1, SendWordsOfRows
    <3> QED
      BY <1>1, <3>1, <3>3 DEF Returned
  <2>2. CASE ~(Word(2) + Word(4) <= 7)
    BY <1>2, <1>5, <2>2 DEF Modbus_HandleReadHoldingRegister
  <2> QED
    BY <2>1, <2>2
<1>6. CASE Modbus_HandleReadInputRegister
  <2>1. CASE Word(2) + Word(4) <= MAX_STRIP_COUNT
    <3>1. pc' = "copy" /\ row' = 0 /\ UNCHANGED <<answer, reg_vars, rxBuffer>>
      BY <1>6, <2>1 DEF Modbus_HandleReadInputRegister
    <3>2. 0 \in 0 .. MAX_STRIP_COUNT
      BY CountsAssumption
    <3> QED
      BY <2>1, <3>1, <3>2 DEF Returned
  <2>2. CASE ~(Word(2) + Word(4) <= MAX_STRIP_COUNT)
    BY <1>2, <1>6, <2>2 DEF Modbus_HandleReadInputRegister
  <2> QED
    BY <2>1, <2>2
<1>7. ASSUME NEW n \in Nat, NEW values \in [1 .. n -> Words16], NEW start \in Nat,
             Write(values, start), Echo, Return, row' = row
      PROVE  Returned
  <2>1. holdingRegisters' \in [Registers -> Words16]
    BY <1>7, StoredAreWords DEF Write
  <2>2. answer' \in Seq(Byte)
    BY <1>7, EchoIsBytes
  <2>3. ModbusParamChanged' = TRUE
    BY <1>7 DEF Write, Announce
  <2> QED
    BY <1>1, <1>7, <2>1, <2>2, <2>3 DEF Returned
<1>8. CASE Modbus_HandleWriteSingleRegister
  <2>1. CASE Word(2) \in Registers
    <3>1. Write(<<Word(4)>>, Word(2)) /\ Echo /\ Return /\ row' = row
      BY <1>8, <2>1 DEF Modbus_HandleWriteSingleRegister
    <3>2. Word(4) \in Words16 /\ Word(2) \in Nat
      BY HeaderOfFrame, InWords16
    <3>3. <<Word(4)>> \in [1 .. 1 -> Words16]
      BY <3>2
    <3> QED
      BY <1>7, <3>1, <3>2, <3>3
  <2>2. CASE Word(2) \notin Registers
    BY <1>2, <1>8, <2>2 DEF Modbus_HandleWriteSingleRegister
  <2> QED
    BY <2>1, <2>2
<1>9. CASE Modbus_HandleWriteMultipleRegisters
  <2> DEFINE ok == Word(4) \in 1 .. 123 /\ rxBuffer[7] = 2 * Word(4) /\ Word(2) + Word(4) <= 7
             values == [k \in 1 .. Word(4) |-> Word(5 + 2 * k)]
  <2>1. CASE ok
    <3>1. Write(values, Word(2)) /\ Echo /\ Return /\ row' = row
      BY <1>9, <2>1 DEF Modbus_HandleWriteMultipleRegisters
    <3>2. Word(2) \in Nat /\ Word(4) \in Nat
      BY HeaderOfFrame
    <3>5. values \in [1 .. Word(4) -> Words16]
      <4>1. rxBuffer[2] = WriteMultiple
        BY <1>9 DEF Modbus_HandleWriteMultipleRegisters, ForUs
      <4> QED
        BY <2>1, <4>1, WrittenAreWords
    <3> HIDE DEF values
    <3> QED
      BY <1>7, <3>1, <3>2, <3>5
  <2>2. CASE ~ok
    BY <1>2, <1>9, <2>2 DEF Modbus_HandleWriteMultipleRegisters
  <2> QED
    BY <2>1, <2>2
<1> QED
  BY <1>3, <1>4, <1>5, <1>6, <1>8, <1>9 DEF Modbus_HandleRequest

\* TypeOK in parts, with what the handlers rely on.
MasterInv == asked \in Frames \cup {Nothing} /\ answer \in Seq(Byte)

FlagInv ==
  /\ {overrun, flagged, ModbusParamChanged, printing} \subseteq BOOLEAN
  /\ pc \in {"read", "handle", "copy", "checks", "plate", "rest"}
  /\ row \in 0 .. MAX_STRIP_COUNT

WordInv ==
  /\ holdingRegisters \in [Registers -> Words16]
  /\ inputRegisters \in [Strips -> Words16]

DeviceInv ==
  /\ dac0 \in 0 .. FullScale
  /\ resistance_array \in [Strips -> Nat] /\ fresh \in [Strips -> Nat]

TypeInv ==
  FrameInv /\ VoltageInv /\ HandleInv /\ MasterInv /\ FlagInv /\ WordInv /\ DeviceInv

\* The registers of modbus.c start with words.
LEMMA TypeInvInit == Init => TypeInv
<1> SUFFICES ASSUME Init PROVE TypeInv
  OBVIOUS
<1>1. FrameInv /\ VoltageInv
  BY DEF Init, FrameInv, BytesInv, LengthNotPassed, VoltageInv, InitParams
<1>2. HandleInv /\ MasterInv
  BY DEF Init, HandleInv, MasterInv, Nothing
<1>3. FlagInv
  <2>1. 0 \in 0 .. MAX_STRIP_COUNT
    BY CountsAssumption
  <2> QED
    BY <2>1 DEF Init, FlagInv
<1>4. WordInv
  <2>1. \A r \in Registers : Default[r + 1] \in Nat /\ Default[r + 1] < Uint16
    BY DEF Registers, Default, Uint16
  <2>2. 0 \in Words16
    BY InWords16 DEF Uint16
  <2> QED
    BY <2>1, <2>2, InWords16 DEF Init, WordInv, Zeros
<1>5. DeviceInv
  <2>1. 0 \in 0 .. FullScale
    BY DEF FullScale
  <2> QED
    BY <2>1 DEF Init, DeviceInv, Zeros
<1> QED
  BY <1>1, <1>2, <1>3, <1>4, <1>5 DEF TypeInv

\* When Modbus_HandleRequest runs, the whole frame is in rxBuffer.
LEMMA FrameIsInHand ==
  ASSUME TypeInv, pc \in {"handle", "copy"}
  PROVE  FrameInHand
BY DEF TypeInv, FrameInv, BytesInv, HandleInv, Complete, FrameInHand

\* A step that changes neither what main() is at, nor its frame, nor registers.
LEMMA TypeInvStays ==
  ASSUME TypeInv, [Next]_vars,
         UNCHANGED <<rxBuffer, pc, row, reg_vars, inputRegisters, dac0, fresh>>,
         MasterInv', overrun' \in BOOLEAN, flagged' \in BOOLEAN, printing' \in BOOLEAN,
         resistance_array' \in [Strips -> Nat]
  PROVE  TypeInv'
<1> USE DEF reg_vars
<1>1. FrameInv' /\ VoltageInv'
  BY FrameInvStep, VoltageInvStep DEF TypeInv
<1>2. HandleInv'
  BY DEF TypeInv, HandleInv, Complete, ExpectedLength, Word
<1>3. FlagInv'
  BY DEF TypeInv, FlagInv
<1>4. WordInv' /\ DeviceInv'
  BY DEF TypeInv, WordInv, DeviceInv
<1> QED
  BY <1>1, <1>2, <1>3, <1>4 DEF TypeInv

\* Every step of the server, the master and the wire keeps the types.
LEMMA TypeInvStep ==
  ASSUME CrcIsWord, TypeInv, [Next]_vars
  PROVE  TypeInv'
<1> USE DEF vars, master_vars, uart_vars, reg_vars, device_vars
<1>1. FrameInv' /\ VoltageInv'
  BY FrameInvStep, VoltageInvStep DEF TypeInv
<1>2. MasterInv /\ FlagInv /\ WordInv /\ DeviceInv
  BY DEF TypeInv
<1>3. CASE Modbus_HandleRequest
  <2>1. /\ UNCHANGED <<asked, wire, fifo, overrun, flagged, inputRegisters, configured, dac0,
                       resistance_array, printing, fresh>>
        /\ pc = "handle"
    BY <1>3 DEF Modbus_HandleRequest, HandleOthersFrame, HandleIllegalFunction,
       Modbus_HandleReadHoldingRegister, Modbus_HandleReadInputRegister,
       Modbus_HandleWriteSingleRegister, Modbus_HandleWriteMultipleRegisters, ForUs
  <2>2. Complete(rxBuffer) /\ FrameInHand
    BY <2>1, FrameIsInHand DEF TypeInv, HandleInv
  <2>3. Returned
    BY <1>2, <1>3, <2>2, HandlersKeepTypes DEF MasterInv, WordInv, FlagInv
  <2>4. HandleInv'
    <3>1. rxBuffer' = rxBuffer => Complete(rxBuffer')
      BY <2>2
    <3> QED
      BY <2>3, <3>1 DEF Returned, HandleInv, Word
  <2>5. MasterInv' /\ FlagInv'
    BY <1>2, <2>1, <2>3 DEF Returned, MasterInv, FlagInv
  <2>6. WordInv' /\ DeviceInv'
    BY <1>2, <2>1, <2>3 DEF Returned, WordInv, DeviceInv
  <2> QED
    BY <1>1, <2>4, <2>5, <2>6 DEF TypeInv
<1>4. CASE AnswerRows
  <2>1. /\ UNCHANGED <<asked, reg_vars, overrun, flagged, inputRegisters, dac0,
                       resistance_array, printing, fresh>>
        /\ row' = 0 /\ pc = "copy" /\ pc' = "checks"
        /\ SendWords([k \in 1 .. Word(4) |-> inputRegisters[Word(2) + k - 1]])
    BY <1>4 DEF AnswerRows, Return
  <2>2. FrameInHand /\ Word(2) + Word(4) <= MAX_STRIP_COUNT
    BY <2>1, FrameIsInHand DEF TypeInv, HandleInv
  <2>3. answer' \in Seq(Byte)
    <3>1. MAX_STRIP_COUNT \in Nat /\ MAX_STRIP_COUNT <= 8
          /\ inputRegisters \in [0 .. MAX_STRIP_COUNT - 1 -> Words16]
      BY <1>2, CountsAssumption DEF WordInv, Strips
    <3> QED
      BY <2>1, <2>2, <3>1, SendWordsOfRows
  <2>4. row' \in 0 .. MAX_STRIP_COUNT
    BY <2>1, CountsAssumption
  <2>5. MasterInv' /\ FlagInv' /\ HandleInv'
    BY <1>2, <2>1, <2>3, <2>4 DEF MasterInv, FlagInv, HandleInv
  <2>6. WordInv' /\ DeviceInv'
    BY <1>2, <2>1 DEF WordInv, DeviceInv
  <2> QED
    BY <1>1, <2>5, <2>6 DEF TypeInv
<1>5. CASE ReadByte
  <2>1. /\ UNCHANGED <<asked, answer, overrun, flagged, row, reg_vars, inputRegisters, dac0,
                       resistance_array, printing>>
        /\ pc = "read" /\ pc' \in {"read", "handle"} /\ fresh' \in {fresh, resistance_array}
        /\ pc' = "handle" => Complete(rxBuffer')
    BY <1>5 DEF ReadByte
  <2>2. HandleInv'
    BY <2>1 DEF HandleInv
  <2>3. MasterInv' /\ FlagInv'
    BY <1>2, <2>1 DEF MasterInv, FlagInv
  <2>4. WordInv' /\ DeviceInv'
    BY <1>2, <2>1 DEF WordInv, DeviceInv
  <2> QED
    BY <1>1, <2>2, <2>3, <2>4 DEF TypeInv
<1>6. CASE ReadError \/ PrintChecks \/ InitPlate
  <2>1. /\ UNCHANGED <<asked, answer, row, holdingRegisters, inputRegisters, dac0,
                       resistance_array, printing, fresh>>
        /\ pc' \in {"checks", "read", "plate", "rest"}
        /\ ModbusParamChanged' \in {ModbusParamChanged, FALSE}
        /\ overrun' \in {overrun, FALSE} /\ flagged' \in {flagged, TRUE, FALSE}
    BY <1>6 DEF ReadError, PrintChecks, InitPlate
  <2>2. HandleInv'
    BY <2>1 DEF HandleInv
  <2>3. MasterInv' /\ FlagInv'
    BY <1>2, <2>1 DEF MasterInv, FlagInv
  <2>4. WordInv' /\ DeviceInv'
    BY <1>2, <2>1 DEF WordInv, DeviceInv
  <2> QED
    BY <1>1, <2>2, <2>3, <2>4 DEF TypeInv
<1>7. CASE InitRest
  <2>1. /\ UNCHANGED <<asked, answer, overrun, flagged, row, holdingRegisters,
                       inputRegisters, printing, fresh>>
        /\ pc' = "read" /\ ModbusParamChanged' = FALSE /\ resistance_array' = Zeros
    BY <1>7 DEF InitRest
  <2>2. dac0' \in 0 .. FullScale
    <3>1. PICK n : n = Cardinality(params.strips)
      OBVIOUS
    <3>2. n \in Nat /\ n <= 8
      BY <3>1, CountOfStrips DEF TypeInv, VoltageInv
    <3>3. dac0' \in SetExcitationVoltage(params.excitation, n)
      BY <1>7, <3>1 DEF InitRest
    <3> QED
      BY <3>2, <3>3, VoltageOfDac
  <2>3. MasterInv' /\ FlagInv' /\ HandleInv'
    BY <1>2, <2>1 DEF MasterInv, FlagInv, HandleInv
  <2>4. WordInv' /\ DeviceInv'
    BY <1>2, <2>1, <2>2 DEF WordInv, DeviceInv, Zeros
  <2> QED
    BY <1>1, <2>3, <2>4 DEF TypeInv
<1>8. CASE CopyRow
  <2>1. /\ UNCHANGED <<asked, answer, overrun, flagged, rxBuffer, pc, reg_vars, dac0,
                       resistance_array, printing, fresh>>
        /\ row < MAX_STRIP_COUNT /\ row' = row + 1
        /\ inputRegisters' = [inputRegisters EXCEPT ![row] = Copied(row)]
    BY <1>8 DEF CopyRow
  <2>2. row \in Nat /\ row' \in 0 .. MAX_STRIP_COUNT /\ row \in Strips
    BY <1>2, <2>1, CountsAssumption DEF FlagInv, Strips
  <2>3. Copied(row) \in Words16
    <3>1. resistance_array[row] \in Nat /\ Uint16 \in Nat \ {0}
      BY <1>2, <2>2 DEF DeviceInv, Uint16
    <3> QED
      BY <3>1, InWords16 DEF Copied
  <2>4. WordInv' /\ DeviceInv'
    BY <1>2, <2>1, <2>2, <2>3 DEF WordInv, DeviceInv
  <2>5. MasterInv' /\ FlagInv'
    BY <1>2, <2>1, <2>2 DEF MasterInv, FlagInv
  <2>6. HandleInv'
    BY <2>1 DEF TypeInv, HandleInv, Complete, ExpectedLength, Word
  <2> QED
    BY <1>1, <2>4, <2>5, <2>6 DEF TypeInv
<1>9. CASE Ask \/ TakeAnswer \/ TimeOut \/ Deliver \/ Disturb \/ Round \/ RowsPrinted
           \/ UNCHANGED vars
  <2>1. /\ UNCHANGED <<rxBuffer, pc, row, reg_vars, inputRegisters, dac0, fresh>>
        /\ asked' \in Frames \cup {asked, Nothing} /\ answer' \in {answer, Nothing}
        /\ overrun' \in {overrun, TRUE} /\ flagged' \in {flagged, TRUE, FALSE}
        /\ printing' \in {printing, TRUE, FALSE}
    BY <1>9 DEF Ask, TakeAnswer, TimeOut, Deliver, Disturb, Arrives, Round, RowsPrinted
  <2>2. resistance_array' \in [Strips -> Nat]
    <3>1. CASE Round
      BY <1>2, <3>1 DEF Round, DeviceInv
    <3>2. CASE ~Round
      <4>1. UNCHANGED resistance_array
        BY <1>9, <3>2 DEF Ask, TakeAnswer, TimeOut, Deliver, Disturb, RowsPrinted
      <4> QED
        BY <1>2, <4>1 DEF DeviceInv
    <3> QED
      BY <3>1, <3>2
  <2>3. MasterInv'
    <3>1. Nothing \in Seq(Byte)
      BY DEF Nothing
    <3>2. asked' \in Frames \cup {Nothing}
      BY <1>2, <2>1 DEF MasterInv
    <3>3. answer' \in Seq(Byte)
      BY <1>2, <2>1, <3>1 DEF MasterInv
    <3> QED
      BY <3>2, <3>3 DEF MasterInv
  <2>4. overrun' \in BOOLEAN /\ flagged' \in BOOLEAN /\ printing' \in BOOLEAN
    BY <1>2, <2>1 DEF FlagInv
  <2> QED
    BY <2>1, <2>2, <2>3, <2>4, TypeInvStays
<1> QED
  BY <1>3, <1>4, <1>5, <1>6, <1>7, <1>8, <1>9 DEF Next, Server

\* Bytes, words and what main() is at go together at every step of the server.
LEMMA TypeInvAlways == CrcIsWord => (Spec => []TypeInv)
<1> SUFFICES ASSUME CrcIsWord PROVE Spec => []TypeInv
  OBVIOUS
<1>1. TypeInv /\ [Next]_vars => TypeInv'
  BY TypeInvStep
<1> QED
  BY <1>1, TypeInvInit, PTL DEF Spec

\* Whatever comes over the wire, every handler of modbus.c answers with bytes and
\* stores words: it reads no byte past the end of the frame it has and no register
\* that does not exist, and DAC0 never gets more than it can put out.
THEOREM ServerTypeCorrect == CrcIsWord => (Spec => []TypeOK)
<1>1. TypeInv => TypeOK
  BY DEF TypeInv, FrameInv, BytesInv, VoltageInv, MasterInv, FlagInv, WordInv, DeviceInv,
     Words16, TypeOK
<1> QED
  BY <1>1, TypeInvAlways, PTL
=============================================================================
