---------------------------- MODULE ServedProofs ----------------------------
(***************************************************************************)
(* What holds of ModbusServer as long as no byte is lost or disturbed: the *)
(* frames the handlers get are those the master sent, an answer belongs to *)
(* the request the master waits on, and the server does what               *)
(* RegisterServer promises.                                                *)
(***************************************************************************)
EXTENDS ModbusProofs

\* The master sends whole requests, which fit in rxBuffer, with a function code
\* the protocol allows.
WholeRequests ==
  \A f \in Frames : Complete(f) /\ Len(f) <= MODBUS_BUFFER_LENGTH /\ f[2] < 128

\* Nothing happens to a byte, and no long frame comes while main() is busy.
CleanLine == MaxDisturbed = 0 /\ ~Hasty

\* A request has eight bytes at least, and as many as its bytes say.
LEMMA FrameIsWhole ==
  ASSUME WholeRequests, NEW f \in Frames
  PROVE  /\ f \in Seq(Byte) /\ Len(f) \in Nat /\ Len(f) >= 8 /\ Len(f) = ExpectedLength(f)
         /\ Len(f) <= MODBUS_BUFFER_LENGTH /\ f # Nothing
<1>1. f \in Seq(Byte)
  BY FramesAssumption
<1>2. Len(f) \in Nat
  BY <1>1
<1>3. Len(f) >= 8 /\ Len(f) = ExpectedLength(f) /\ Len(f) <= MODBUS_BUFFER_LENGTH
  BY DEF WholeRequests, Complete
<1>4. f # <<>>
  BY <1>3
<1> QED
  BY <1>1, <1>2, <1>3, <1>4 DEF Nothing

-----------------------------------------------------------------------------
(* The bytes on their way.                                                 *)

\* What has come, what the FIFO holds and what is still to come are the request
\* the master waits on, byte by byte.
InTransit ==
  /\ Len(rxBuffer) + Len(fifo) + Len(wire) = Len(asked)
  /\ \A k \in 1 .. Len(rxBuffer) : rxBuffer[k] = asked[k]
  /\ \A k \in 1 .. Len(fifo) : fifo[k] = asked[Len(rxBuffer) + k]
  /\ \A k \in 1 .. Len(wire) : wire[k] = asked[Len(rxBuffer) + Len(fifo) + k]

Quiet == wire = <<>> /\ fifo = <<>> /\ rxBuffer = <<>>

\* The request is either on its way or dealt with; whenever main() is busy, all
\* that may still come has room in the FIFO.
FlowInv ==
  /\ ~overrun /\ ~flagged /\ count.disturbed \in Nat
  /\ Quiet \/ (asked \in Frames /\ InTransit)
  /\ asked = Nothing \/ answer # Nothing => Quiet
  /\ asked = Nothing => answer = Nothing
  /\ pc \in {"handle", "copy"} => asked \in Frames /\ rxBuffer = asked
  /\ pc # "read" \/ printing => Len(wire) + Len(fifo) <= FifoDepth

\* A request is complete when its last byte has come, and not before.
LEMMA OnlyWholeIsComplete ==
  ASSUME WholeRequests, NEW f \in Frames, NEW got \in Seq(Byte), Len(got) <= Len(f),
         \A k \in 1 .. Len(got) : got[k] = f[k]
  PROVE  Complete(got) <=> got = f
<1>1. /\ f \in Seq(Byte) /\ Len(f) \in Nat /\ Len(f) >= 8 /\ Len(f) = ExpectedLength(f)
      /\ Len(got) \in Nat
  BY FrameIsWhole
<1>2. ASSUME Complete(got) PROVE got = f
  <2>1. Len(got) >= 8 /\ Len(got) = ExpectedLength(got)
    BY <1>2 DEF Complete
  <2>2. got[2] = f[2] /\ got[7] = f[7]
    BY <1>1, <2>1
  <2>3. Len(got) = Len(f)
    BY <1>1, <2>1, <2>2 DEF ExpectedLength
  <2> QED
    BY <1>1, <2>3
<1>3. ASSUME got = f PROVE Complete(got)
  BY <1>1, <1>3 DEF Complete
<1> QED
  BY <1>2, <1>3

\* What is left when the first byte has been read.
LEMMA TailByteByByte ==
  ASSUME NEW bytes \in Seq(Byte), bytes # <<>>
  PROVE  /\ Len(bytes) \in Nat \ {0} /\ Len(Tail(bytes)) = Len(bytes) - 1
         /\ Head(bytes) = bytes[1]
         /\ \A k \in 1 .. Len(bytes) - 1 : Tail(bytes)[k] = bytes[k + 1]
OBVIOUS

\* What is there when one more byte has come.
LEMMA AppendByteByByte ==
  ASSUME NEW bytes \in Seq(Byte), NEW byte \in Byte
  PROVE  /\ Len(bytes) \in Nat /\ Len(Append(bytes, byte)) = Len(bytes) + 1
         /\ \A k \in 1 .. Len(bytes) : Append(bytes, byte)[k] = bytes[k]
         /\ Append(bytes, byte)[Len(bytes) + 1] = byte
OBVIOUS

\* A byte in the FIFO is read; it is the next one of the request.
LEMMA ReadByteKeepsFlow ==
  ASSUME WholeRequests, BytesInv, FlowInv, ReadByte
  PROVE  FlowInv'
<1>1. /\ fifo # <<>> /\ fifo' = Tail(fifo) /\ pc = "read"
      /\ UNCHANGED <<asked, answer, wire, overrun, flagged, count, printing>>
  BY DEF ReadByte, master_vars, device_vars
<1>2. asked \in Frames /\ InTransit /\ ~Quiet
  BY <1>1 DEF FlowInv, Quiet
<1>3. /\ asked \in Seq(Byte) /\ Len(asked) \in Nat /\ Len(asked) <= MODBUS_BUFFER_LENGTH
      /\ asked # Nothing
  BY <1>2, FrameIsWhole
<1>4. answer = Nothing
  BY <1>2 DEF FlowInv
<1>5. /\ Len(fifo) \in Nat \ {0} /\ Len(fifo') = Len(fifo) - 1 /\ Head(fifo) = fifo[1]
      /\ \A k \in 1 .. Len(fifo) - 1 : fifo'[k] = fifo[k + 1]
      /\ Head(fifo) \in Byte /\ fifo' \in Seq(Byte)
  BY <1>1, TailByteByByte, FirstByte DEF BytesInv
<1>6. Len(rxBuffer) \in Nat /\ Len(wire) \in Nat /\ rxBuffer \in Seq(Byte)
  BY DEF BytesInv
<1>7. rxBuffer' = Append(rxBuffer, Head(fifo))
  <2>1. Len(rxBuffer) < MODBUS_BUFFER_LENGTH
    BY <1>2, <1>3, <1>5, <1>6, BufferAssumption DEF InTransit
  <2> QED
    BY <2>1 DEF ReadByte
<1>8. /\ Len(rxBuffer') = Len(rxBuffer) + 1 /\ rxBuffer' \in Seq(Byte)
      /\ \A k \in 1 .. Len(rxBuffer) : rxBuffer'[k] = rxBuffer[k]
      /\ rxBuffer'[Len(rxBuffer) + 1] = fifo[1]
  BY <1>5, <1>6, <1>7, AppendByteByByte, OneByteMore
<1>9. InTransit'
  <2> DEFINE got == Len(rxBuffer)
             held == Len(fifo)
  <2>1. got + held + Len(wire) = Len(asked)
    BY <1>2 DEF InTransit
  <2>2. \A k \in 1 .. got + 1 : rxBuffer'[k] = asked[k]
    <3>1. fifo[1] = asked[got + 1]
      BY <1>2, <1>5 DEF InTransit
    <3>2. \A k \in 1 .. got : rxBuffer'[k] = asked[k]
      BY <1>2, <1>8 DEF InTransit
    <3> QED
      BY <1>6, <1>8, <3>1, <3>2
  <2>3. \A k \in 1 .. held - 1 : fifo'[k] = asked[got + 1 + k]
    <3> SUFFICES ASSUME NEW k \in 1 .. held - 1 PROVE fifo'[k] = asked[got + 1 + k]
      OBVIOUS
    <3>1. k + 1 \in 1 .. held /\ got + (k + 1) = got + 1 + k
      BY <1>5, <1>6
    <3>2. fifo[k + 1] = asked[got + (k + 1)]
      BY <1>2, <3>1 DEF InTransit
    <3> QED
      BY <1>5, <3>1, <3>2
  <2>4. \A k \in 1 .. Len(wire) : wire[k] = asked[got + 1 + (held - 1) + k]
    <3> SUFFICES ASSUME NEW k \in 1 .. Len(wire)
                 PROVE  wire[k] = asked[got + 1 + (held - 1) + k]
      OBVIOUS
    <3>1. got + 1 + (held - 1) + k = got + held + k
      BY <1>5, <1>6
    <3> QED
      BY <1>2, <3>1 DEF InTransit
  <2>0. got \in Nat /\ held \in Nat \ {0} /\ Len(wire) \in Nat
    BY <1>5, <1>6
  <2> HIDE DEF got, held
  <2>5. got + 1 + (held - 1) + Len(wire) = Len(asked)
    BY <2>0, <2>1
  <2>6. Len(rxBuffer') = got + 1 /\ Len(fifo') = held - 1
    BY <1>5, <1>8 DEF got, held
  <2> QED
    BY <1>1, <2>2, <2>3, <2>4, <2>5, <2>6 DEF InTransit
<1>10. pc' \in {"read", "handle"} /\ (pc' = "handle" => Complete(rxBuffer'))
  BY <1>1 DEF ReadByte
<1>11. ASSUME pc' = "handle" PROVE rxBuffer' = asked
  <2>1. Len(rxBuffer') <= Len(asked) /\ \A k \in 1 .. Len(rxBuffer') : rxBuffer'[k] = asked[k]
    BY <1>1, <1>3, <1>5, <1>6, <1>8, <1>9 DEF InTransit
  <2> QED
    BY <1>2, <1>8, <1>10, <1>11, <2>1, OnlyWholeIsComplete
<1>12. ASSUME pc' # "read" \/ printing' PROVE Len(wire') + Len(fifo') <= FifoDepth
  <2>1. CASE pc' = "handle"
    <3>1. Len(rxBuffer') = Len(asked)
      BY <1>11, <2>1
    <3> QED
      BY <1>1, <1>3, <1>5, <1>6, <1>8, <1>9, <3>1, CountsAssumption DEF InTransit
  <2>2. CASE pc' = "read"
    <3>1. Len(wire) + Len(fifo) <= FifoDepth
      BY <1>1, <1>12, <2>2 DEF FlowInv
    <3> QED
      BY <1>1, <1>5, <1>6, <3>1, CountsAssumption
  <2> QED
    BY <1>10, <2>1, <2>2
<1> QED
  BY <1>1, <1>2, <1>3, <1>4, <1>9, <1>10, <1>11, <1>12 DEF FlowInv

\* A byte on the wire finds room: main() waits with an empty FIFO, or all that may
\* still come has room in it.
LEMMA DeliverKeepsFlow ==
  ASSUME WholeRequests, BytesInv, FlowInv, Deliver
  PROVE  FlowInv'
<1>1. /\ wire # <<>> /\ wire' = Tail(wire)
      /\ pc = "read" /\ ~printing => fifo = <<>>
      /\ UNCHANGED <<asked, answer, flagged, rxBuffer, pc, count, printing>>
  BY DEF Deliver, ByteDue, master_vars, device_vars
<1>2. asked \in Frames /\ InTransit /\ ~Quiet
  BY <1>1 DEF FlowInv, Quiet
<1>3. asked # Nothing /\ answer = Nothing
  BY <1>2, FrameIsWhole DEF FlowInv
<1>4. /\ Len(wire) \in Nat \ {0} /\ Len(wire') = Len(wire) - 1 /\ Head(wire) = wire[1]
      /\ \A k \in 1 .. Len(wire) - 1 : wire'[k] = wire[k + 1]
      /\ Head(wire) \in Byte
  BY <1>1, TailByteByByte, FirstByte DEF BytesInv
<1>5. Len(rxBuffer) \in Nat /\ Len(fifo) \in Nat /\ fifo \in Seq(Byte)
  BY DEF BytesInv
<1>6. Len(fifo) < FifoDepth /\ ~overrun
  <2>1. CASE pc = "read" /\ ~printing
    <3>1. Len(fifo) = 0
      BY <1>1, <2>1
    <3> QED
      BY <3>1, CountsAssumption DEF FlowInv
  <2>2. CASE ~(pc = "read" /\ ~printing)
    <3>1. Len(wire) + Len(fifo) <= FifoDepth
      BY <2>2 DEF FlowInv
    <3> QED
      BY <1>4, <1>5, <3>1, CountsAssumption DEF FlowInv
  <2> QED
    BY <2>1, <2>2
<1>7. fifo' = Append(fifo, Head(wire)) /\ overrun' = overrun
  BY <1>6 DEF Deliver, Arrives
<1>8. /\ Len(fifo') = Len(fifo) + 1
      /\ \A k \in 1 .. Len(fifo) : fifo'[k] = fifo[k]
      /\ fifo'[Len(fifo) + 1] = wire[1]
  BY <1>4, <1>5, <1>7, AppendByteByByte
<1>9. InTransit'
  <2> DEFINE got == Len(rxBuffer)
             held == Len(fifo)
             left == Len(wire)
  <2>0. got \in Nat /\ held \in Nat /\ left \in Nat \ {0}
    BY <1>4, <1>5
  <2>1. got + held + left = Len(asked)
    BY <1>2 DEF InTransit
  <2>2. \A k \in 1 .. held + 1 : fifo'[k] = asked[got + k]
    <3>1. wire[1] = asked[got + held + 1]
      BY <1>2, <1>4 DEF InTransit
    <3>2. \A k \in 1 .. held : fifo'[k] = asked[got + k]
      BY <1>2, <1>8 DEF InTransit
    <3>3. fifo'[held + 1] = wire[1]
      BY <1>8
    <3> HIDE DEF got, held, left
    <3>4. got + held + 1 = got + (held + 1)
      BY <2>0
    <3> QED
      BY <2>0, <3>1, <3>2, <3>3, <3>4
  <2>3. \A k \in 1 .. left - 1 : wire'[k] = asked[got + (held + 1) + k]
    <3> SUFFICES ASSUME NEW k \in 1 .. left - 1
                 PROVE  wire'[k] = asked[got + (held + 1) + k]
      OBVIOUS
    <3>1. k + 1 \in 1 .. left /\ got + held + (k + 1) = got + (held + 1) + k
      <4> HIDE DEF got, held, left
      <4> QED
        BY <2>0
    <3>2. wire[k + 1] = asked[got + held + (k + 1)]
      BY <1>2, <3>1 DEF InTransit
    <3> QED
      BY <1>4, <3>1, <3>2
  <2>4. \A k \in 1 .. got : rxBuffer[k] = asked[k]
    BY <1>2 DEF InTransit
  <2>5. Len(fifo') = held + 1 /\ Len(wire') = left - 1
    BY <1>4, <1>8
  <2>6. rxBuffer' = rxBuffer /\ Len(rxBuffer') = got /\ asked' = asked
    BY <1>1
  <2> HIDE DEF got, held, left
  <2>7. got + (held + 1) + (left - 1) = Len(asked)
    BY <2>0, <2>1
  <2> QED
    BY <2>2, <2>3, <2>4, <2>5, <2>6, <2>7 DEF InTransit
<1>10. pc' # "read" \/ printing' => Len(wire') + Len(fifo') <= FifoDepth
  <2>1. Len(wire') + Len(fifo') = Len(wire) + Len(fifo)
    BY <1>4, <1>5, <1>8
  <2> QED
    BY <1>1, <2>1 DEF FlowInv
<1>11. pc \notin {"handle", "copy"}
  <2>1. ASSUME pc \in {"handle", "copy"} PROVE FALSE
    <3>1. Len(rxBuffer) = Len(asked)
      BY <2>1 DEF FlowInv
    <3> QED
      BY <1>2, <1>4, <1>5, <3>1 DEF InTransit
  <2> QED
    BY <2>1
<1> QED
  BY <1>1, <1>2, <1>3, <1>6, <1>7, <1>9, <1>10, <1>11 DEF FlowInv

\* The master asks when nothing is on its way.
LEMMA AskKeepsFlow ==
  ASSUME WholeRequests, CleanLine, BytesInv, FlowInv, Ask
  PROVE  FlowInv'
<1>1. /\ asked = Nothing /\ asked' \in Frames /\ wire' = asked'
      /\ Len(asked') <= FifoDepth \/ (pc = "read" /\ ~printing)
      /\ UNCHANGED <<answer, fifo, overrun, flagged, rxBuffer, pc, printing>>
      /\ count' = [count EXCEPT !.asked = @ + 1]
  BY DEF Ask, CleanLine, device_vars
<1>2. Quiet /\ answer = Nothing /\ count'.disturbed = count.disturbed
  BY <1>1 DEF FlowInv
<1>3. asked' \in Seq(Byte) /\ Len(asked') \in Nat /\ asked' # Nothing
  BY <1>1, FrameIsWhole
<1>4. Len(rxBuffer') = 0 /\ Len(fifo') = 0
  BY <1>1, <1>2 DEF Quiet
<1>5. InTransit'
  BY <1>1, <1>3, <1>4 DEF InTransit
<1>6. pc' # "read" \/ printing' => Len(wire') + Len(fifo') <= FifoDepth
  BY <1>1, <1>3, <1>4
<1>7. pc \notin {"handle", "copy"}
  <2>1. rxBuffer = <<>> /\ asked = Nothing
    BY <1>1, <1>2 DEF Quiet
  <2> QED
    BY <2>1, FrameIsWhole DEF FlowInv
<1> QED
  BY <1>1, <1>2, <1>3, <1>5, <1>6, <1>7 DEF FlowInv

\* Somewhere between its last byte and its answer: the handlers have the request
\* itself, and nothing else is on its way.
LEMMA RequestInHand ==
  ASSUME WholeRequests, BytesInv, FlowInv, pc \in {"handle", "copy"}
  PROVE  /\ asked \in Frames /\ asked # Nothing /\ rxBuffer = asked /\ answer = Nothing
         /\ wire = <<>> /\ fifo = <<>>
<1>1. asked \in Frames /\ rxBuffer = asked
  BY DEF FlowInv
<1>2. asked # <<>> /\ Len(asked) \in Nat
  BY <1>1, FrameIsWhole DEF Nothing
<1>3. ~Quiet
  BY <1>1, <1>2 DEF Quiet
<1>4. InTransit /\ answer = Nothing
  BY <1>3 DEF FlowInv
<1>5. Len(fifo) \in Nat /\ Len(wire) \in Nat
  BY DEF BytesInv
<1>6. Len(fifo) = 0 /\ Len(wire) = 0
  BY <1>1, <1>2, <1>4, <1>5 DEF InTransit
<1>7. fifo = <<>> /\ wire = <<>>
  BY <1>6 DEF BytesInv
<1> QED
  BY <1>1, <1>2, <1>4, <1>7 DEF Nothing

\* Every step of the server, the master and the wire keeps the invariant.
LEMMA FlowInvStep ==
  ASSUME WholeRequests, CleanLine, FrameInv, FlowInv, [Next]_vars
  PROVE  FlowInv'
<1> USE DEF vars, master_vars, uart_vars, reg_vars, device_vars
<1>0. BytesInv
  BY DEF FrameInv
<1>1. CASE ReadByte
  BY <1>0, <1>1, ReadByteKeepsFlow
<1>2. CASE Deliver
  BY <1>0, <1>2, DeliverKeepsFlow
<1>3. CASE Ask
  BY <1>0, <1>3, AskKeepsFlow
<1>4. CASE Disturb
  <2>1. count.disturbed < 0 /\ count.disturbed \in Nat
    BY <1>4 DEF Disturb, CleanLine, FlowInv
  <2> QED
    BY <2>1
<1>5. CASE ReadError
  BY <1>5 DEF ReadError, FlowInv
<1>6. CASE Modbus_HandleRequest \/ AnswerRows
  <2>1. pc \in {"handle", "copy"} /\ UNCHANGED <<asked, overrun, flagged, count, printing>>
    BY <1>6 DEF Modbus_HandleRequest, AnswerRows, HandleOthersFrame, HandleIllegalFunction,
       Modbus_HandleReadHoldingRegister, Modbus_HandleReadInputRegister,
       Modbus_HandleWriteSingleRegister, Modbus_HandleWriteMultipleRegisters, ForUs
  <2>2. /\ asked \in Frames /\ asked # Nothing /\ rxBuffer = asked
        /\ wire = <<>> /\ fifo = <<>> /\ answer = Nothing
    BY <1>0, <2>1, RequestInHand
  <2>3. wire' = <<>> /\ fifo' = <<>>
    BY <1>6, <2>2, HandlersEmptyBuffer
  <2>4. Len(wire') + Len(fifo') <= FifoDepth
    BY <2>3, CountsAssumption
  <2>5. CASE rxBuffer' = <<>>
    <3>1. Quiet'
      BY <2>3, <2>5 DEF Quiet
    <3>2. pc' \notin {"handle", "copy"}
      <4>1. ASSUME NEW error, Refuse(error) PROVE pc' = "checks"
        BY <4>1 DEF Refuse, Return
      <4>2. CASE AnswerRows \/ HandleOthersFrame \/ HandleIllegalFunction
        BY <4>1, <4>2 DEF AnswerRows, HandleOthersFrame, HandleIllegalFunction, Return
      <4>3. CASE Modbus_HandleReadHoldingRegister
        BY <4>1, <4>3 DEF Modbus_HandleReadHoldingRegister, Return
      <4>4. CASE Modbus_HandleReadInputRegister
        <5>1. rxBuffer' # rxBuffer
          BY <2>2, <2>5 DEF Nothing
        <5> QED
          BY <4>1, <4>4, <5>1 DEF Modbus_HandleReadInputRegister
      <4>5. CASE Modbus_HandleWriteSingleRegister \/ Modbus_HandleWriteMultipleRegisters
        BY <4>1, <4>5
           DEF Modbus_HandleWriteSingleRegister, Modbus_HandleWriteMultipleRegisters, Return
      <4> QED
        BY <1>6, <4>2, <4>3, <4>4, <4>5 DEF Modbus_HandleRequest
    <3> QED
      BY <2>1, <2>2, <2>4, <3>1, <3>2 DEF FlowInv
  <2>6. CASE rxBuffer' = rxBuffer /\ pc' = "copy"
    <3>1. answer' = answer
      <4>1. rxBuffer' # <<>>
        BY <2>2, <2>6 DEF Nothing
      <4>2. ASSUME NEW error, Refuse(error) PROVE FALSE
        BY <4>1, <4>2 DEF Refuse, Return
      <4>3. ~Return
        BY <4>1 DEF Return
      <4>4. Modbus_HandleReadInputRegister
        BY <1>6, <4>2, <4>3 DEF Modbus_HandleRequest, AnswerRows, HandleOthersFrame,
           HandleIllegalFunction, Modbus_HandleReadHoldingRegister,
           Modbus_HandleWriteSingleRegister, Modbus_HandleWriteMultipleRegisters
      <4> QED
        BY <4>2, <4>4 DEF Modbus_HandleReadInputRegister
    <3>2. InTransit
      BY <2>2 DEF FlowInv, Quiet, Nothing
    <3>3. InTransit'
      BY <2>1, <2>2, <2>3, <2>6, <3>2 DEF InTransit
    <3> QED
      BY <2>1, <2>2, <2>4, <2>6, <3>1, <3>3 DEF FlowInv
  <2> QED
    BY <1>6, <2>5, <2>6, HandlersEmptyBuffer
<1>7. CASE PrintChecks \/ InitPlate \/ InitRest
  <2>1. /\ pc \in {"checks", "plate", "rest"} /\ pc' \in {"read", "plate", "rest"}
        /\ UNCHANGED <<asked, answer, wire, fifo, overrun, flagged, rxBuffer, printing, count>>
    BY <1>7 DEF PrintChecks, InitPlate, InitRest
  <2>2. (Quiet' <=> Quiet) /\ (InTransit' <=> InTransit)
    BY <2>1 DEF Quiet, InTransit
  <2> QED
    BY <2>1, <2>2 DEF FlowInv
<1>8. CASE TakeAnswer
  <2>1. /\ answer # Nothing /\ asked' = Nothing /\ answer' = Nothing
        /\ UNCHANGED <<wire, fifo, overrun, flagged, rxBuffer, pc, printing, count>>
    BY <1>8 DEF TakeAnswer
  <2>2. Quiet /\ Quiet'
    BY <2>1 DEF FlowInv, Quiet
  <2>3. pc \notin {"handle", "copy"}
    BY <1>0, <2>1, RequestInHand
  <2> QED
    BY <2>1, <2>2, <2>3 DEF FlowInv
<1>9. CASE TimeOut
  <2>1. /\ answer = Nothing /\ asked' = Nothing /\ wire = <<>> /\ fifo = <<>> /\ pc = "read"
        /\ UNCHANGED <<answer, wire, fifo, overrun, flagged, rxBuffer, pc, printing, count>>
    BY <1>9 DEF TimeOut
  <2>2. Quiet
    <3> SUFFICES ASSUME asked \in Frames, InTransit PROVE FALSE
      BY DEF FlowInv
    <3>1. rxBuffer \in Seq(Byte) /\ Len(rxBuffer) \in Nat
      BY <1>0 DEF BytesInv
    <3>2. Len(rxBuffer) = Len(asked) /\ \A k \in 1 .. Len(rxBuffer) : rxBuffer[k] = asked[k]
      <4>1. Len(wire) = 0 /\ Len(fifo) = 0
        BY <2>1
      <4> QED
        BY <3>1, <4>1 DEF InTransit
    <3>3. Complete(rxBuffer)
      <4>1. asked \in Seq(Byte)
        BY FrameIsWhole
      <4>2. rxBuffer = asked
        BY <3>1, <3>2, <4>1
      <4> QED
        BY <4>2 DEF WholeRequests
    <3>4. Len(rxBuffer) < ExpectedLength(rxBuffer) /\ Len(rxBuffer) = ExpectedLength(rxBuffer)
      BY <2>1, <3>3 DEF FrameInv, LengthNotPassed, Complete
    <3> QED
      BY <3>1, <3>4
  <2>3. Quiet'
    BY <2>1, <2>2 DEF Quiet
  <2> QED
    BY <2>1, <2>3 DEF FlowInv
<1>10. CASE Round
  <2>1. /\ UNCHANGED <<asked, answer, wire, fifo, overrun, flagged, rxBuffer, pc>>
        /\ Len(wire) + Len(fifo) <= FifoDepth
        /\ count' = [count EXCEPT !.rounds = @ + 1]
    BY <1>10 DEF Round, CleanLine
  <2>2. count'.disturbed = count.disturbed
    BY <2>1 DEF FlowInv
  <2>3. (Quiet' <=> Quiet) /\ (InTransit' <=> InTransit)
    BY <2>1 DEF Quiet, InTransit
  <2> QED
    BY <2>1, <2>2, <2>3 DEF FlowInv
<1>11. CASE CopyRow \/ RowsPrinted \/ UNCHANGED vars
  <2>1. /\ UNCHANGED <<asked, answer, wire, fifo, overrun, flagged, rxBuffer, pc, count>>
        /\ printing' => printing
    BY <1>11 DEF CopyRow, RowsPrinted
  <2>2. (Quiet' <=> Quiet) /\ (InTransit' <=> InTransit)
    BY <2>1 DEF Quiet, InTransit
  <2> QED
    BY <2>1, <2>2 DEF FlowInv
<1> QED
  BY <1>1, <1>2, <1>3, <1>4, <1>5, <1>6, <1>7, <1>8, <1>9, <1>10, <1>11 DEF Next, Server

\* Nothing is on its way before the master has asked.
LEMMA FlowInvInit == Init => FlowInv
<1> SUFFICES ASSUME Init PROVE FlowInv
  OBVIOUS
<1>1. Quiet
  BY DEF Init, Quiet
<1>2. count.disturbed \in Nat
  BY DEF Init
<1>3. asked = Nothing /\ answer = Nothing /\ ~overrun /\ ~flagged /\ pc = "read" /\ ~printing
  BY DEF Init
<1> QED
  BY <1>1, <1>2, <1>3 DEF FlowInv

\* As long as no byte is lost, what Modbus_HandleRequest gets is a request from
\* its first byte to its last: neither a length nor a FIFO of any depth, nor the
\* moments at which main() is busy, ever puts the server out of step.
THEOREM HandlersGetWholeRequests ==
  WholeRequests /\ CleanLine => (Spec => []HandledFramesWereSent)
<1> SUFFICES ASSUME WholeRequests, CleanLine PROVE Spec => []HandledFramesWereSent
  OBVIOUS
<1>1. Init => FrameInv
  BY DEF Init, FrameInv, BytesInv, LengthNotPassed
<1>2. FrameInv /\ FlowInv /\ [Next]_vars => FlowInv'
  BY FlowInvStep
<1>3. FlowInv => HandledFramesWereSent
  BY DEF FlowInv, HandledFramesWereSent
<1> QED
  BY <1>1, <1>2, <1>3, FlowInvInit, FrameInvStep, PTL DEF Spec

-----------------------------------------------------------------------------
(* What an answer says.                                                    *)

\* A master that waits gets every byte that is sent, and the checksum.
LEMMA SentByteByByte ==
  ASSUME CrcIsWord, asked # Nothing, NEW bytes \in Seq(Byte), Send(bytes)
  PROVE  /\ answer' # Nothing /\ Len(answer') = Len(bytes) + 2
         /\ \A j \in 1 .. Len(bytes) : answer'[j] = bytes[j]
<1>1. answer' = Framed(bytes)
  BY DEF Send
<1> QED
  BY <1>1, FramedIsBytes DEF Nothing

\* Modbus_SendError.
LEMMA RefusalSays ==
  ASSUME CrcIsWord, FrameInHand, asked # Nothing,
         NEW error \in {IllegalFunction, IllegalAddress}, SendError(error)
  PROVE  /\ answer' # Nothing
         /\ answer'[2] = 128 + (rxBuffer[2] % 128) /\ answer'[3] = error
<1> DEFINE code == 128 + (rxBuffer[2] % 128)
           bytes == <<rxBuffer[1], code, error>>
<1>1. rxBuffer[1] \in Byte /\ rxBuffer[2] \in Nat
  BY HeaderOfFrame, InByte
<1>2. code \in Byte
  BY <1>1, InByte
<1>3. error \in Byte
  BY InByte DEF IllegalFunction, IllegalAddress
<1>4. Send(bytes)
  BY DEF SendError
<1> HIDE DEF code
<1>5. bytes \in Seq(Byte) /\ Len(bytes) = 3 /\ bytes[2] = code /\ bytes[3] = error
  BY <1>1, <1>2, <1>3
<1> HIDE DEF bytes
<1>6. answer' # Nothing /\ \A j \in 1 .. Len(bytes) : answer'[j] = bytes[j]
  BY <1>4, <1>5, SentByteByByte
<1>7. 2 \in 1 .. Len(bytes) /\ 3 \in 1 .. Len(bytes)
  BY <1>5
<1>8. answer'[2] = code /\ answer'[3] = error
  BY <1>5, <1>6, <1>7
<1> QED
  BY <1>6, <1>8 DEF code

\* The answer to a write.
LEMMA EchoSays ==
  ASSUME CrcIsWord, FrameInHand, asked # Nothing, Echo
  PROVE  /\ answer' # Nothing /\ \A j \in 1 .. 6 : answer'[j] = rxBuffer[j]
<1> DEFINE bytes == SubSeq(rxBuffer, 1, 6)
<1>1. bytes \in Seq(Byte) /\ Len(bytes) = 6 /\ \A j \in 1 .. 6 : bytes[j] = rxBuffer[j]
  BY DEF FrameInHand
<1>2. Send(bytes)
  BY DEF Echo
<1> HIDE DEF bytes
<1> QED
  BY <1>1, <1>2, SentByteByByte

\* The answer to a read: the values of the registers, two bytes each.
LEMMA WordsSay ==
  ASSUME CrcIsWord, FrameInHand, asked # Nothing,
         NEW n \in Nat, n <= 8, NEW words \in [1 .. n -> Words16], SendWords(words)
  PROVE  /\ answer' # Nothing /\ answer'[2] = rxBuffer[2] /\ answer'[3] = 2 * n
         /\ \A k \in 1 .. n : Field(answer', 1 + 2 * k) = words[k]
<1> DEFINE data == [k \in 1 .. 2 * n |->
                     IF k % 2 = 1 THEN words[(k + 1) \div 2] \div 256
                                  ELSE words[k \div 2] % 256]
           head == <<rxBuffer[1], rxBuffer[2], 2 * n>>
<1>1. \A k \in 1 .. n : words[k] \in Nat /\ words[k] < Uint16
  BY InWords16
<1>2. \A k \in 1 .. n : /\ data[2 * k - 1] = words[k] \div 256
                        /\ data[2 * k] = words[k] % 256
  <2> SUFFICES ASSUME NEW k \in 1 .. n
               PROVE  /\ data[2 * k - 1] = words[k] \div 256
                      /\ data[2 * k] = words[k] % 256
    OBVIOUS
  <2>1. 2 * k - 1 \in 1 .. 2 * n /\ 2 * k \in 1 .. 2 * n
    OBVIOUS
  <2>2. (2 * k - 1) % 2 = 1 /\ ((2 * k - 1) + 1) \div 2 = k
    OBVIOUS
  <2>3. (2 * k) % 2 # 1 /\ (2 * k) \div 2 = k
    OBVIOUS
  <2>4. data[2 * k - 1] = words[k] \div 256
    <3>1. PICK j \in 1 .. 2 * n : j = 2 * k - 1
      BY <2>1
    <3>2. data[j] = words[(j + 1) \div 2] \div 256
      BY <2>2, <3>1
    <3>3. (j + 1) \div 2 = k
      BY <2>2, <3>1
    <3> QED
      BY <3>1, <3>2, <3>3
  <2>5. data[2 * k] = words[k] % 256
    <3>1. PICK j \in 1 .. 2 * n : j = 2 * k
      BY <2>1
    <3>2. data[j] = words[j \div 2] % 256
      BY <2>3, <3>1
    <3>3. j \div 2 = k
      BY <2>3, <3>1
    <3> QED
      BY <3>1, <3>2, <3>3
  <2> QED
    BY <2>4, <2>5
<1>3. Len(words) = n /\ rxBuffer[1] \in Byte /\ rxBuffer[2] \in Byte
  BY HeaderOfFrame
<1>4. head \in Seq(Byte) /\ Len(head) = 3 /\ head[2] = rxBuffer[2] /\ head[3] = 2 * n
  <2>1. 2 * n \in Byte
    BY InByte
  <2> QED
    BY <1>3, <2>1
<1>5. data \in Seq(Byte) /\ Len(data) = 2 * n
  <2>1. \A k \in 1 .. n : words[k] \div 256 \in Byte /\ words[k] % 256 \in Byte
    <3> SUFFICES ASSUME NEW w \in Nat, w < Uint16 PROVE w \div 256 \in Byte /\ w % 256 \in Byte
      BY <1>1
    <3> QED
      BY BytesOfWord, ZenonT(60)
  <2>2. \A j \in 1 .. 2 * n : \E k \in 1 .. n : j = 2 * k - 1 \/ j = 2 * k
    <3> SUFFICES ASSUME NEW j \in 1 .. 2 * n
                 PROVE  \E k \in 1 .. n : j = 2 * k - 1 \/ j = 2 * k
      OBVIOUS
    <3>1. PICK k \in Nat : k = (j + 1) \div 2
      OBVIOUS
    <3>2. k \in 1 .. n /\ (j = 2 * k - 1 \/ j = 2 * k)
      BY <3>1
    <3> QED
      BY <3>2
  <2>3. ASSUME NEW j \in 1 .. 2 * n PROVE data[j] \in Byte
    BY <1>2, <2>1, <2>2
  <2>4. 2 * n \in Nat /\ data \in [1 .. 2 * n -> Byte]
    BY <2>3
  <2> HIDE DEF data
  <2> QED
    BY <2>4
<1>6. Send(head \o data)
  BY <1>3 DEF SendWords
<1> HIDE DEF head, data
<1>7. /\ head \o data \in Seq(Byte) /\ Len(head \o data) = 3 + 2 * n
      /\ (head \o data)[2] = rxBuffer[2] /\ (head \o data)[3] = 2 * n
      /\ \A j \in 1 .. 2 * n : (head \o data)[3 + j] = data[j]
  <2>1. /\ head \o data \in Seq(Byte) /\ Len(head \o data) = Len(head) + Len(data)
        /\ \A j \in 1 .. Len(head) + Len(data) :
             (head \o data)[j] = IF j <= Len(head) THEN head[j] ELSE data[j - Len(head)]
    BY <1>4, <1>5, ConcatProperties, Zenon
  <2>2. \A j \in 1 .. 3 + 2 * n :
          (head \o data)[j] = IF j <= 3 THEN head[j] ELSE data[j - 3]
    BY <1>4, <1>5, <2>1
  <2>3. 2 \in 1 .. 3 + 2 * n /\ 3 \in 1 .. 3 + 2 * n
    OBVIOUS
  <2>4. \A j \in 1 .. 2 * n : 3 + j \in 1 .. 3 + 2 * n /\ ~(3 + j <= 3) /\ (3 + j) - 3 = j
    OBVIOUS
  <2>5. \A j \in 1 .. 2 * n : (head \o data)[3 + j] = data[j]
    BY <2>2, <2>4
  <2> QED
    BY <1>4, <1>5, <2>1, <2>2, <2>3, <2>5
<1>8. /\ answer' # Nothing
      /\ \A j \in 1 .. 3 + 2 * n : answer'[j] = (head \o data)[j]
  BY <1>6, <1>7, SentByteByByte
<1>9. ASSUME NEW k \in 1 .. n PROVE Field(answer', 1 + 2 * k) = words[k]
  <2>1. /\ 2 * k - 1 \in 1 .. 2 * n /\ 2 * k \in 1 .. 2 * n
        /\ (1 + 2 * k) + 1 = 3 + (2 * k - 1) /\ (1 + 2 * k) + 2 = 3 + 2 * k
        /\ 3 + (2 * k - 1) \in 1 .. 3 + 2 * n /\ 3 + 2 * k \in 1 .. 3 + 2 * n
    OBVIOUS
  <2>2. answer'[(1 + 2 * k) + 1] = data[2 * k - 1] /\ answer'[(1 + 2 * k) + 2] = data[2 * k]
    BY <1>7, <1>8, <2>1
  <2>3. PICK w \in Nat : w = words[k] /\ w < Uint16
    BY <1>1
  <2>4. PICK high \in Byte, low \in Byte :
          high = w \div 256 /\ low = w % 256 /\ w = 256 * high + low
    BY <2>3, BytesOfWord, ZenonT(60)
  <2>5. answer'[(1 + 2 * k) + 1] = high /\ answer'[(1 + 2 * k) + 2] = low
    <3>1. data[2 * k - 1] = words[k] \div 256 /\ data[2 * k] = words[k] % 256
      BY <1>2, Zenon
    <3>2. data[2 * k - 1] = high /\ data[2 * k] = low
      BY <2>3, <2>4, <3>1, Zenon
    <3> QED
      BY <2>2, <3>2, Zenon
  <2>6. Field(answer', 1 + 2 * k) = 256 * high + low
    BY <2>5 DEF Field
  <2> QED
    BY <2>3, <2>4, <2>6
<1>10. answer'[2] = rxBuffer[2] /\ answer'[3] = 2 * n
  <2>1. 2 \in 1 .. 3 + 2 * n /\ 3 \in 1 .. 3 + 2 * n
    OBVIOUS
  <2> QED
    BY <1>7, <1>8, <2>1
<1> QED
  BY <1>8, <1>9, <1>10

-----------------------------------------------------------------------------
(* The rows an answer is made of.                                          *)

\* No row has seen more rounds than a uint16_t holds.
FewRounds == MaxRounds < Uint16

\* The rows only grow while main() has a request in its hands, and those it has
\* copied by then are no older than the request.
RoundsInv ==
  /\ count \in [asked : Nat, rounds : 0 .. MaxRounds, disturbed : Nat]
  /\ \A s \in Strips : /\ resistance_array[s] <= count.rounds
                       /\ inputRegisters[s] <= MaxRounds
  /\ pc \in {"handle", "copy"} => \A s \in Strips : fresh[s] <= resistance_array[s]
  /\ pc = "copy" => /\ rxBuffer[1] = MODBUS_ADDRESS /\ rxBuffer[2] = ReadInput
                    /\ \A s \in Strips : s < row => fresh[s] <= inputRegisters[s]

\* No round has been measured when the server starts.
LEMMA RoundsInvInit == Init => RoundsInv
<1> SUFFICES ASSUME Init PROVE RoundsInv
  OBVIOUS
<1>1. MaxRounds \in Nat
  BY BoundsAssumption
<1>2. count \in [asked : Nat, rounds : 0 .. MaxRounds, disturbed : Nat] /\ count.rounds = 0
  BY <1>1 DEF Init
<1> QED
  BY <1>1, <1>2 DEF Init, Zeros, RoundsInv

\* A number of rounds that fits a uint16_t is stored as it is.
LEMMA SmallWord ==
  ASSUME NEW n \in Nat, n < Uint16
  PROVE  n % Uint16 = n
BY DEF Uint16

\* A step that leaves the rows and what main() is at alone.
LEMMA RoundsInvStays ==
  ASSUME RoundsInv, UNCHANGED <<resistance_array, inputRegisters, fresh, rxBuffer, row, pc>>,
         count' \in [asked : Nat, rounds : 0 .. MaxRounds, disturbed : Nat],
         count'.rounds = count.rounds
  PROVE  RoundsInv'
BY DEF RoundsInv

\* Every step of the server, the master and the wire keeps the invariant.
LEMMA RoundsInvStep ==
  ASSUME FewRounds, TypeInv, RoundsInv, [Next]_vars
  PROVE  RoundsInv'
<1> USE DEF vars, master_vars, uart_vars, reg_vars, device_vars
<1>0. /\ count \in [asked : Nat, rounds : 0 .. MaxRounds, disturbed : Nat]
      /\ count.rounds \in Nat /\ MaxRounds \in Nat /\ count.rounds <= MaxRounds
      /\ count.asked \in Nat /\ count.disturbed \in Nat
  BY BoundsAssumption DEF RoundsInv
<1>t. /\ resistance_array \in [Strips -> Nat] /\ fresh \in [Strips -> Nat]
      /\ inputRegisters \in [Strips -> Words16] /\ row \in 0 .. MAX_STRIP_COUNT
      /\ Strips \subseteq Nat /\ MAX_STRIP_COUNT \in Nat
  BY CountsAssumption DEF TypeInv, DeviceInv, WordInv, FlagInv, Strips
<1>1. CASE Modbus_HandleRequest
  <2>1. /\ UNCHANGED <<resistance_array, inputRegisters, fresh, count>> /\ pc = "handle"
    BY <1>1 DEF Modbus_HandleRequest, HandleOthersFrame, HandleIllegalFunction,
       Modbus_HandleReadHoldingRegister, Modbus_HandleReadInputRegister,
       Modbus_HandleWriteSingleRegister, Modbus_HandleWriteMultipleRegisters, ForUs
  <2>2. \/ pc' = "checks"
        \/ /\ pc' = "copy" /\ row' = 0 /\ UNCHANGED rxBuffer
           /\ rxBuffer[1] = MODBUS_ADDRESS /\ rxBuffer[2] = ReadInput
    <3>1. ASSUME NEW error, Refuse(error) PROVE pc' = "checks"
      BY <3>1 DEF Refuse, Return
    <3>2. CASE HandleOthersFrame \/ HandleIllegalFunction
      BY <3>1, <3>2 DEF HandleOthersFrame, HandleIllegalFunction, Return
    <3>3. CASE Modbus_HandleReadHoldingRegister
      BY <3>1, <3>3 DEF Modbus_HandleReadHoldingRegister, Return
    <3>4. CASE Modbus_HandleReadInputRegister
      BY <3>1, <3>4 DEF Modbus_HandleReadInputRegister, ForUs
    <3>5. CASE Modbus_HandleWriteSingleRegister \/ Modbus_HandleWriteMultipleRegisters
      BY <3>1, <3>5
         DEF Modbus_HandleWriteSingleRegister, Modbus_HandleWriteMultipleRegisters, Return
    <3> QED
      BY <1>1, <3>2, <3>3, <3>4, <3>5 DEF Modbus_HandleRequest
  <2>3. CASE pc' = "checks"
    BY <2>1, <2>3 DEF RoundsInv
  <2>4. CASE /\ pc' = "copy" /\ row' = 0 /\ UNCHANGED rxBuffer
             /\ rxBuffer[1] = MODBUS_ADDRESS /\ rxBuffer[2] = ReadInput
    <3>1. \A s \in Strips : ~(s < row')
      BY <1>t, <2>4
    <3> QED
      BY <2>1, <2>4, <3>1 DEF RoundsInv
  <2> QED
    BY <2>2, <2>3, <2>4
<1>2. CASE AnswerRows
  <2>1. /\ UNCHANGED <<resistance_array, inputRegisters, fresh, count>>
        /\ pc' = "checks"
    BY <1>2 DEF AnswerRows, Return
  <2> QED
    BY <2>1 DEF RoundsInv
<1>3. CASE ReadByte
  <2>1. /\ UNCHANGED <<resistance_array, inputRegisters, count>> /\ pc = "read"
        /\ pc' \in {"read", "handle"} /\ (pc' = "handle" => fresh' = resistance_array)
    BY <1>3 DEF ReadByte
  <2>2. pc' = "handle" => \A s \in Strips : fresh'[s] <= resistance_array[s]
    BY <1>t, <2>1
  <2> QED
    BY <2>1, <2>2 DEF RoundsInv
<1>4. CASE CopyRow
  <2>1. /\ UNCHANGED <<resistance_array, fresh, count, rxBuffer, pc>> /\ pc = "copy"
        /\ row < MAX_STRIP_COUNT /\ row' = row + 1
        /\ inputRegisters' = [inputRegisters EXCEPT ![row] = Copied(row)]
    BY <1>4 DEF CopyRow
  <2>2. row \in Strips /\ row \in Nat
    BY <1>t, <2>1 DEF Strips
  <2>3. resistance_array[row] \in Nat /\ resistance_array[row] <= count.rounds
    BY <1>t, <2>2 DEF RoundsInv
  <2>4. resistance_array[row] < Uint16 /\ resistance_array[row] <= MaxRounds
    BY <1>0, <2>3 DEF FewRounds, Uint16
  <2>5. Copied(row) = resistance_array[row]
    BY <2>3, <2>4, SmallWord DEF Copied
  <2>6. /\ inputRegisters'[row] = resistance_array[row]
        /\ \A s \in Strips : s # row => inputRegisters'[s] = inputRegisters[s]
    BY <1>t, <2>1, <2>2, <2>5
  <2>7. \A s \in Strips : inputRegisters'[s] <= MaxRounds
    BY <2>4, <2>6 DEF RoundsInv
  <2>8. \A s \in Strips : s < row' => fresh[s] <= inputRegisters'[s]
    <3> SUFFICES ASSUME NEW s \in Strips, s < row' PROVE fresh[s] <= inputRegisters'[s]
      OBVIOUS
    <3>1. s = row \/ s < row
      BY <1>t, <2>1, <2>2
    <3>2. fresh[s] <= resistance_array[s]
      BY <2>1 DEF RoundsInv
    <3>3. s # row /\ s < row => fresh[s] <= inputRegisters[s]
      BY <2>1 DEF RoundsInv
    <3>4. CASE s = row
      BY <2>6, <3>2, <3>4
    <3>5. CASE s # row
      BY <2>6, <3>1, <3>3, <3>5
    <3> QED
      BY <3>4, <3>5
  <2> QED
    BY <2>1, <2>7, <2>8 DEF RoundsInv
<1>5. CASE ReadError \/ PrintChecks \/ InitPlate
  <2>1. /\ UNCHANGED <<resistance_array, inputRegisters, count>>
        /\ pc' \in {"checks", "read", "plate", "rest"}
    BY <1>5 DEF ReadError, PrintChecks, InitPlate
  <2> QED
    BY <2>1 DEF RoundsInv
<1>6. CASE InitRest
  <2>1. UNCHANGED <<inputRegisters, count>> /\ pc' = "read" /\ resistance_array' = Zeros
    BY <1>6 DEF InitRest
  <2>2. \A s \in Strips : resistance_array'[s] <= count.rounds
    BY <1>0, <2>1 DEF Zeros
  <2> QED
    BY <2>1, <2>2 DEF RoundsInv
<1>7. CASE Round
  <2>1. /\ UNCHANGED <<inputRegisters, fresh, rxBuffer, row, pc>>
        /\ count.rounds < MaxRounds /\ count' = [count EXCEPT !.rounds = @ + 1]
        /\ resistance_array' = [s \in Strips |->
             resistance_array[s] + IF s \in params.strips THEN 1 ELSE 0]
    BY <1>7 DEF Round
  <2>2. count' \in [asked : Nat, rounds : 0 .. MaxRounds, disturbed : Nat]
        /\ count'.rounds = count.rounds + 1
    BY <1>0, <2>1
  <2>3. \A s \in Strips : /\ resistance_array'[s] <= resistance_array[s] + 1
                          /\ resistance_array[s] <= resistance_array'[s]
                          /\ resistance_array'[s] \in Nat
    BY <1>t, <2>1
  <2>4. \A s \in Strips : resistance_array'[s] <= count'.rounds
    <3> SUFFICES ASSUME NEW s \in Strips PROVE resistance_array'[s] <= count.rounds + 1
      BY <2>2
    <3>1. resistance_array[s] <= count.rounds /\ resistance_array[s] \in Nat
      BY <1>t DEF RoundsInv
    <3> QED
      BY <1>0, <2>3, <3>1
  <2>5. pc \in {"handle", "copy"} => \A s \in Strips : fresh[s] <= resistance_array'[s]
    <3> SUFFICES ASSUME pc \in {"handle", "copy"}, NEW s \in Strips
                 PROVE  fresh[s] <= resistance_array'[s]
      OBVIOUS
    <3>1. fresh[s] <= resistance_array[s] /\ fresh[s] \in Nat /\ resistance_array[s] \in Nat
      BY <1>t DEF RoundsInv
    <3> QED
      BY <2>3, <3>1
  <2> QED
    BY <2>1, <2>2, <2>4, <2>5 DEF RoundsInv
<1>8. CASE Ask \/ TakeAnswer \/ TimeOut \/ Deliver \/ Disturb \/ RowsPrinted \/ UNCHANGED vars
  <2>1. UNCHANGED <<resistance_array, inputRegisters, fresh, rxBuffer, row, pc>>
    BY <1>8 DEF Ask, TakeAnswer, TimeOut, Deliver, Disturb, RowsPrinted
  <2>2. \/ count' = count
        \/ count' = [count EXCEPT !.asked = @ + 1]
        \/ count' = [count EXCEPT !.disturbed = @ + 1]
    BY <1>8 DEF Ask, TakeAnswer, TimeOut, Deliver, Disturb, RowsPrinted
  <2>3. /\ count' \in [asked : Nat, rounds : 0 .. MaxRounds, disturbed : Nat]
        /\ count'.rounds = count.rounds
    BY <1>0, <2>2
  <2> QED
    BY <2>1, <2>3, RoundsInvStays
<1> QED
  BY <1>1, <1>2, <1>3, <1>4, <1>5, <1>6, <1>7, <1>8 DEF Next, Server

-----------------------------------------------------------------------------
(* What the handlers do with a request, as RegisterServer sees it.         *)

\* A handler has served the request in its hands, and says so.
ServedNow ==
  /\ answer' # Nothing
  /\ Decoded(answer') \in Replies(asked, holdingRegisters)
  /\ holdingRegisters' = After(asked, holdingRegisters)

\* The handler's request is the one the master waits on.
InHand == FrameInHand /\ rxBuffer = asked /\ asked # Nothing /\ asked[2] < 128

\* Modbus_HandleRequest's header is that of the request the master waits on.
LEMMA HeaderInHand ==
  ASSUME InHand
  PROVE  /\ Field(asked, 2) = Word(2) /\ Field(asked, 4) = Word(4)
         /\ Word(2) \in Nat /\ Word(4) \in Nat
         /\ Word(2) < Uint16 /\ Word(4) < Uint16
         /\ asked[1] = rxBuffer[1] /\ asked[2] = rxBuffer[2] /\ asked[7] = rxBuffer[7]
         /\ asked[2] \in Nat /\ asked[2] < 128
<1>1. /\ Word(2) \in Nat /\ Word(4) \in Nat /\ Word(2) < Uint16 /\ Word(4) < Uint16
      /\ rxBuffer[2] \in Nat
  BY HeaderOfFrame, InByte DEF InHand
<1>2. Field(asked, 2) = Word(2) /\ Field(asked, 4) = Word(4)
  BY DEF Word, InHand
<1> QED
  BY <1>1, <1>2 DEF InHand

\* A request that writes nothing leaves the registers as they are.
LEMMA NothingWritten ==
  ASSUME NEW f, Written(f) = <<>>, NEW regs \in [Registers -> Words16]
  PROVE  After(f, regs) = regs
BY DEF After

\* The top bit of the function code, and what Modbus_SendError has put after it.
LEMMA RefusalDecoded ==
  ASSUME NEW b, b # Nothing, NEW code \in Nat, b[2] = 128 + code
  PROVE  Decoded(b) = [function |-> code, error |-> b[3], data |-> <<>>]
<1>1. b[2] >= 128 /\ b[2] - 128 = code /\ b[2] \notin {ReadHolding, ReadInput}
  BY DEF ReadHolding, ReadInput
<1>2. Decoded(b) = [function |-> b[2] - 128, error |-> b[3], data |-> <<>>]
  BY <1>1 DEF Decoded
<1> QED
  BY <1>1, <1>2

\* Modbus_SendError: the reply says which function was refused, and why.
LEMMA RefusalServes ==
  ASSUME CrcIsWord, InHand, holdingRegisters \in [Registers -> Words16],
         NEW error \in {IllegalFunction, IllegalAddress}, Refuse(error),
         Written(asked) = <<>>,
         [function |-> asked[2], error |-> error, data |-> <<>>]
           \in Replies(asked, holdingRegisters)
  PROVE  ServedNow /\ answer'[2] # ReadInput
<1>1. /\ answer' # Nothing
      /\ answer'[2] = 128 + (asked[2] % 128) /\ answer'[3] = error
  BY RefusalSays, HeaderInHand DEF Refuse, InHand
<1>2. asked[2] \in Nat /\ asked[2] < 128
  BY HeaderInHand
<1>3. answer'[2] = 128 + asked[2] /\ answer'[2] # ReadInput
  <2>1. PICK code \in Nat : code = asked[2]
    BY <1>2
  <2>2. code % 128 = code /\ 128 + code # 4
    BY <1>2, <2>1
  <2> QED
    BY <1>1, <2>1, <2>2 DEF ReadInput
<1>4. Decoded(answer') = [function |-> asked[2], error |-> error, data |-> <<>>]
  BY <1>1, <1>2, <1>3, RefusalDecoded
<1>5. holdingRegisters' = holdingRegisters
  BY DEF Refuse, reg_vars
<1>6. After(asked, holdingRegisters) = holdingRegisters
  BY NothingWritten
<1> QED
  BY <1>1, <1>3, <1>4, <1>5, <1>6 DEF ServedNow

\* The values in an answer to a read.
LEMMA WordsDecoded ==
  ASSUME NEW b, NEW n \in Nat, NEW words \in [1 .. n -> Words16],
         b # Nothing, b[2] \in {ReadHolding, ReadInput}, b[3] = 2 * n,
         \A k \in 1 .. n : Field(b, 1 + 2 * k) = words[k]
  PROVE  Decoded(b) = [function |-> b[2], error |-> 0, data |-> words]
<1>1. b[3] \div 2 = n
  OBVIOUS
<1>2. [k \in 1 .. n |-> Field(b, 1 + 2 * k)] = words
  OBVIOUS
<1>3. ~(b[2] >= 128)
  BY DEF ReadHolding, ReadInput
<1> QED
  BY <1>1, <1>2, <1>3 DEF Decoded

\* The answer to a write repeats where it went and what it was.
LEMMA EchoServes ==
  ASSUME CrcIsWord, InHand, Echo, asked[2] \in {WriteSingle, WriteMultiple}
  PROVE  /\ answer' # Nothing /\ answer'[2] # ReadInput
         /\ Decoded(answer') = [function |-> asked[2], error |-> 0,
                                data |-> <<Word(2), Word(4)>>]
<1>1. answer' # Nothing /\ \A j \in 1 .. 6 : answer'[j] = rxBuffer[j]
  BY EchoSays DEF InHand
<1>2. answer'[2] = asked[2]
  BY <1>1 DEF InHand
<1>3. ~(answer'[2] >= 128) /\ answer'[2] \notin {ReadHolding, ReadInput}
  BY <1>2 DEF WriteSingle, WriteMultiple, ReadHolding, ReadInput
<1>4. Field(answer', 2) = Word(2) /\ Field(answer', 4) = Word(4)
  BY <1>1 DEF Field, Word
<1>5. [k \in 1 .. 2 |-> Field(answer', 0 + 2 * k)] = <<Field(answer', 2), Field(answer', 4)>>
  <2>1. \A k \in 1 .. 2 : k = 1 \/ k = 2
    OBVIOUS
  <2>2. 0 + 2 * 1 = 2 /\ 0 + 2 * 2 = 4
    OBVIOUS
  <2> QED
    BY <2>1, <2>2
<1> QED
  BY <1>1, <1>2, <1>3, <1>4, <1>5 DEF Decoded

\* What a write stores is what the request asks to have written.
LEMMA WriteServes ==
  ASSUME CrcIsWord, InHand, asked[1] = MODBUS_ADDRESS,
         asked[2] \in {WriteSingle, WriteMultiple},
         NEW n \in Nat \ {0}, NEW values \in [1 .. n -> Words16],
         Written(asked) = values, Write(values, Word(2)), Echo
  PROVE  ServedNow /\ answer'[2] # ReadInput
<1>1. /\ answer' # Nothing /\ answer'[2] # ReadInput
      /\ Decoded(answer') = [function |-> asked[2], error |-> 0,
                             data |-> <<Word(2), Word(4)>>]
  BY EchoServes
<1>2. Len(values) = n /\ DOMAIN values = 1 .. n /\ values # <<>>
  OBVIOUS
<1>3. holdingRegisters' = After(asked, holdingRegisters)
  BY <1>2, HeaderInHand DEF Write, Stored, After
<1>4. Replies(asked, holdingRegisters)
        = {[function |-> asked[2], error |-> 0, data |-> <<Word(2), Word(4)>>]}
  <2>1. asked[2] \notin {ReadHolding, ReadInput}
    BY DEF WriteSingle, WriteMultiple, ReadHolding, ReadInput
  <2> QED
    BY <1>2, <2>1, HeaderInHand DEF Replies
<1> QED
  BY <1>1, <1>3, <1>4 DEF ServedNow

\* A read answers with the values the registers have when it is put together.
LEMMA ReadServes ==
  ASSUME CrcIsWord, InHand, asked[2] \in {ReadHolding, ReadInput},
         NEW n \in Nat, n <= 8, NEW regs \in [0 .. n - 1 -> Words16],
         Word(2) + Word(4) <= n, SendWords([k \in 1 .. Word(4) |-> regs[Word(2) + k - 1]])
  PROVE  /\ answer' # Nothing /\ answer'[2] = asked[2] /\ answer'[3] \div 2 = Word(4)
         /\ \A k \in 1 .. Word(4) : /\ Word(2) + k - 1 \in 0 .. n - 1
                                    /\ Field(answer', 1 + 2 * k) = regs[Word(2) + k - 1]
         /\ Decoded(answer') = [function |-> asked[2], error |-> 0,
                                data |-> [k \in 1 .. Word(4) |-> regs[Word(2) + k - 1]]]
<1> DEFINE start == Word(2)
           many == Word(4)
           words == [k \in 1 .. many |-> regs[start + k - 1]]
<1>1. start \in Nat /\ many \in Nat /\ start + many <= n
  BY HeaderInHand
<1>2. FrameInHand /\ asked # Nothing /\ rxBuffer[2] = asked[2]
  BY DEF InHand
<1>3. SendWords(words)
  OBVIOUS
<1> HIDE DEF start, many
<1>4. \A k \in 1 .. many : start + k - 1 \in 0 .. n - 1
  BY <1>1
<1>5. words \in [1 .. many -> Words16] /\ \A k \in 1 .. many : words[k] = regs[start + k - 1]
  BY <1>4
<1>6. many <= 8
  BY <1>1
<1> HIDE DEF words
<1>7. /\ answer' # Nothing /\ answer'[2] = asked[2] /\ answer'[3] = 2 * many
      /\ \A k \in 1 .. many : Field(answer', 1 + 2 * k) = words[k]
  BY <1>1, <1>2, <1>3, <1>5, <1>6, WordsSay
<1>8. Decoded(answer') = [function |-> asked[2], error |-> 0, data |-> words]
  BY <1>1, <1>5, <1>7, WordsDecoded
<1>9. answer'[3] \div 2 = many
  BY <1>1, <1>7
<1> QED
  BY <1>4, <1>5, <1>7, <1>8, <1>9 DEF start, many, words

\* Modbus_HandleRequest, whichever handler it calls: the request is served as
\* RegisterServer would, refused, or left alone.
LEMMA HandlersServe ==
  ASSUME CrcIsWord, InHand, holdingRegisters \in [Registers -> Words16],
         Modbus_HandleRequest
  PROVE  \/ UNCHANGED <<answer, holdingRegisters>>
         \/ ServedNow /\ answer'[2] # ReadInput
<1> USE DEF reg_vars
<1>0. /\ Field(asked, 2) = Word(2) /\ Field(asked, 4) = Word(4)
      /\ Word(2) \in Nat /\ Word(4) \in Nat /\ Word(2) < Uint16 /\ Word(4) < Uint16
      /\ asked[1] = rxBuffer[1] /\ asked[2] = rxBuffer[2] /\ asked[7] = rxBuffer[7]
  BY HeaderInHand
<1>1. ReadHolding # ReadInput /\ {ReadHolding, ReadInput} \cap {WriteSingle, WriteMultiple} = {}
      /\ WriteSingle # WriteMultiple
  BY DEF ReadHolding, ReadInput, WriteSingle, WriteMultiple
<1>2. CASE HandleOthersFrame
  BY <1>2 DEF HandleOthersFrame
<1>3. CASE HandleIllegalFunction
  <2>1. /\ asked[1] = MODBUS_ADDRESS /\ Refuse(IllegalFunction)
        /\ asked[2] \notin {ReadHolding, ReadInput, WriteSingle, WriteMultiple}
    BY <1>0, <1>3 DEF HandleIllegalFunction
  <2>2. Written(asked) = <<>>
    BY <2>1 DEF Written
  <2>3. [function |-> asked[2], error |-> IllegalFunction, data |-> <<>>]
          \in Replies(asked, holdingRegisters)
    BY <2>1 DEF Replies
  <2> QED
    BY <2>1, <2>2, <2>3, RefusalServes
<1>4. CASE Modbus_HandleReadHoldingRegister
  <2>1. asked[1] = MODBUS_ADDRESS /\ asked[2] = ReadHolding
    BY <1>0, <1>4 DEF Modbus_HandleReadHoldingRegister, ForUs
  <2>2. Written(asked) = <<>>
    BY <1>1, <2>1 DEF Written
  <2>3. CASE Word(2) + Word(4) <= 7
    <3>1. /\ SendWords([k \in 1 .. Word(4) |-> holdingRegisters[Word(2) + k - 1]])
          /\ UNCHANGED holdingRegisters
      BY <1>4, <2>3 DEF Modbus_HandleReadHoldingRegister
    <3>2. PICK n \in Nat : n = 7
      OBVIOUS
    <3>3. Registers = 0 .. n - 1 /\ n <= 8 /\ Word(2) + Word(4) <= n
      BY <2>3, <3>2 DEF Registers
    <3>4. /\ answer' # Nothing /\ answer'[2] = asked[2]
          /\ Decoded(answer') =
               [function |-> asked[2], error |-> 0,
                data |-> [k \in 1 .. Word(4) |-> holdingRegisters[Word(2) + k - 1]]]
      BY <2>1, <3>1, <3>3, ReadServes
    <3>5. Replies(asked, holdingRegisters) =
            {[function |-> asked[2], error |-> 0,
              data |-> [k \in 1 .. Word(4) |-> holdingRegisters[Word(2) + k - 1]]]}
      <4>1. ~(Word(2) + Word(4) > 7)
        BY <1>0, <2>3
      <4> QED
        BY <1>0, <1>1, <2>1, <4>1 DEF Replies
    <3>6. holdingRegisters' = After(asked, holdingRegisters)
      BY <2>2, <3>1, NothingWritten
    <3> QED
      BY <1>1, <2>1, <3>4, <3>5, <3>6 DEF ServedNow
  <2>4. CASE ~(Word(2) + Word(4) <= 7)
    <3>1. Refuse(IllegalAddress)
      BY <1>4, <2>4 DEF Modbus_HandleReadHoldingRegister
    <3>2. Word(2) + Word(4) > 7
      BY <1>0, <2>4
    <3>3. [function |-> asked[2], error |-> IllegalAddress, data |-> <<>>]
            \in Replies(asked, holdingRegisters)
      BY <1>0, <1>1, <2>1, <3>2 DEF Replies
    <3> QED
      BY <2>2, <3>1, <3>3, RefusalServes
  <2> QED
    BY <2>3, <2>4
<1>5. CASE Modbus_HandleReadInputRegister
  <2>1. asked[1] = MODBUS_ADDRESS /\ asked[2] = ReadInput
    BY <1>0, <1>5 DEF Modbus_HandleReadInputRegister, ForUs
  <2>2. Written(asked) = <<>>
    BY <1>1, <2>1 DEF Written
  <2>3. CASE Word(2) + Word(4) <= MAX_STRIP_COUNT
    BY <1>5, <2>3 DEF Modbus_HandleReadInputRegister
  <2>4. CASE ~(Word(2) + Word(4) <= MAX_STRIP_COUNT)
    <3>1. Refuse(IllegalAddress)
      BY <1>5, <2>4 DEF Modbus_HandleReadInputRegister
    <3>2. Word(2) + Word(4) > MAX_STRIP_COUNT
      BY <1>0, <2>4, CountsAssumption
    <3>3. [function |-> asked[2], error |-> IllegalAddress, data |-> <<>>]
            \in Replies(asked, holdingRegisters)
      BY <1>0, <1>1, <2>1, <3>2 DEF Replies
    <3> QED
      BY <2>2, <3>1, <3>3, RefusalServes
  <2> QED
    BY <2>3, <2>4
<1>6. CASE Modbus_HandleWriteSingleRegister
  <2>1. asked[1] = MODBUS_ADDRESS /\ asked[2] = WriteSingle
    BY <1>0, <1>6 DEF Modbus_HandleWriteSingleRegister, ForUs
  <2>2. CASE Word(2) \in Registers
    <3>1. Write(<<Word(4)>>, Word(2)) /\ Echo
      BY <1>6, <2>2 DEF Modbus_HandleWriteSingleRegister
    <3>2. Written(asked) = <<Word(4)>>
      BY <1>0, <1>1, <2>1, <2>2 DEF Written, Registers
    <3>3. <<Word(4)>> \in [1 .. 1 -> Words16]
      BY <1>0, InWords16
    <3>4. PICK n \in Nat \ {0} : n = 1
      OBVIOUS
    <3>5. <<Word(4)>> \in [1 .. n -> Words16]
      BY <3>3, <3>4
    <3> QED
      BY <2>1, <3>1, <3>2, <3>5, WriteServes
  <2>3. CASE Word(2) \notin Registers
    <3>1. Refuse(IllegalAddress)
      BY <1>6, <2>3 DEF Modbus_HandleWriteSingleRegister
    <3>2. ~(Word(2) < 7)
      BY <1>0, <2>3 DEF Registers
    <3>3. Written(asked) = <<>>
      BY <1>0, <1>1, <2>1, <3>2 DEF Written
    <3>4. [function |-> asked[2], error |-> IllegalAddress, data |-> <<>>]
            \in Replies(asked, holdingRegisters)
      BY <1>1, <2>1, <3>3 DEF Replies
    <3> QED
      BY <3>1, <3>3, <3>4, RefusalServes
  <2> QED
    BY <2>2, <2>3
<1>7. CASE Modbus_HandleWriteMultipleRegisters
  <2> DEFINE ok == Word(4) \in 1 .. 123 /\ rxBuffer[7] = 2 * Word(4) /\ Word(2) + Word(4) <= 7
             values == [k \in 1 .. Word(4) |-> Word(5 + 2 * k)]
  <2>1. asked[1] = MODBUS_ADDRESS /\ asked[2] = WriteMultiple
    BY <1>0, <1>7 DEF Modbus_HandleWriteMultipleRegisters, ForUs
  <2>2. CASE ok
    <3>1. Write(values, Word(2)) /\ Echo
      BY <1>7, <2>2 DEF Modbus_HandleWriteMultipleRegisters
    <3>2. Word(4) \in Nat \ {0} /\ Word(4) > 0
      BY <2>2
    <3>3. values = [k \in 1 .. Word(4) |-> Field(asked, 5 + 2 * k)]
      BY DEF InHand, Word
    <3>4. Written(asked) = values
      BY <1>0, <1>1, <2>1, <2>2, <3>2, <3>3 DEF Written
    <3>5. values \in [1 .. Word(4) -> Words16]
      BY <2>1, <2>2, WrittenAreWords DEF InHand
    <3> HIDE DEF values
    <3> QED
      BY <2>1, <3>1, <3>2, <3>4, <3>5, WriteServes
  <2>3. CASE ~ok
    <3>1. Refuse(IllegalAddress)
      BY <1>7, <2>3 DEF Modbus_HandleWriteMultipleRegisters
    <3>2. ~(Word(4) > 0 /\ rxBuffer[7] = 2 * Word(4) /\ Word(2) + Word(4) <= 7)
      BY <1>0, <2>3
    <3>3. Written(asked) = <<>>
      BY <1>0, <1>1, <2>1, <3>2 DEF Written
    <3>4. [function |-> asked[2], error |-> IllegalAddress, data |-> <<>>]
            \in Replies(asked, holdingRegisters)
      BY <1>1, <2>1, <3>3 DEF Replies
    <3> QED
      BY <3>1, <3>3, <3>4, RefusalServes
  <2> QED
    BY <2>2, <2>3
<1> QED
  BY <1>2, <1>3, <1>4, <1>5, <1>6, <1>7 DEF Modbus_HandleRequest

\* What Modbus_HandleRequest gets is what the master asked.
LEMMA RequestIsWhole ==
  ASSUME WholeRequests, TypeInv, FlowInv, pc \in {"handle", "copy"}
  PROVE  InHand /\ asked \in Frames /\ answer = Nothing
<1>1. BytesInv
  BY DEF TypeInv, FrameInv
<1>2. asked \in Frames /\ asked # Nothing /\ rxBuffer = asked /\ answer = Nothing
  BY <1>1, RequestInHand
<1>3. asked[2] < 128
  BY <1>2 DEF WholeRequests
<1> QED
  BY <1>2, <1>3, FrameIsInHand DEF InHand

\* The second half of Modbus_HandleReadInputRegister: the answer is made of the
\* rows it has copied, none of which is older than the request.
LEMMA RowsServe ==
  ASSUME CrcIsWord, WholeRequests, TypeInv, FlowInv, RoundsInv, AnswerRows
  PROVE  /\ ServedNow /\ UNCHANGED <<asked, fresh>>
         /\ \A k \in 1 .. answer'[3] \div 2 :
              Field(answer', 1 + 2 * k) >= fresh[Field(asked, 2) + k - 1]
<1> USE DEF reg_vars
<1>1. /\ pc = "copy" /\ row = MAX_STRIP_COUNT /\ UNCHANGED <<asked, fresh, holdingRegisters>>
      /\ SendWords([k \in 1 .. Word(4) |-> inputRegisters[Word(2) + k - 1]])
  BY DEF AnswerRows
<1>2. InHand
  BY <1>1, RequestIsWhole
<1>3. /\ asked[1] = MODBUS_ADDRESS /\ asked[2] = ReadInput
      /\ Word(2) + Word(4) <= MAX_STRIP_COUNT
  BY <1>1, <1>2 DEF RoundsInv, InHand, TypeInv, HandleInv
<1>4. /\ Field(asked, 2) = Word(2) /\ Field(asked, 4) = Word(4)
      /\ Word(2) \in Nat /\ Word(4) \in Nat
  BY <1>2, HeaderInHand
<1>5. MAX_STRIP_COUNT \in Nat /\ MAX_STRIP_COUNT <= 8 /\ MaxRounds \in Nat
  BY CountsAssumption, BoundsAssumption
<1>6. inputRegisters \in [0 .. MAX_STRIP_COUNT - 1 -> Words16]
  BY DEF TypeInv, WordInv, Strips
<1>7. /\ answer' # Nothing /\ answer'[2] = asked[2] /\ answer'[3] \div 2 = Word(4)
      /\ \A k \in 1 .. Word(4) :
           /\ Word(2) + k - 1 \in Strips
           /\ Field(answer', 1 + 2 * k) = inputRegisters[Word(2) + k - 1]
      /\ Decoded(answer') = [function |-> asked[2], error |-> 0,
                             data |-> [k \in 1 .. Word(4) |->
                                         inputRegisters[Word(2) + k - 1]]]
  BY <1>1, <1>2, <1>3, <1>5, <1>6, ReadServes DEF Strips
<1>8. ReadInput \notin {ReadHolding, WriteSingle, WriteMultiple}
  BY DEF ReadHolding, ReadInput, WriteSingle, WriteMultiple
<1>9. Decoded(answer') \in Replies(asked, holdingRegisters)
  <2>1. ~(Word(2) + Word(4) > MAX_STRIP_COUNT)
    BY <1>3, <1>4, <1>5
  <2>2. Replies(asked, holdingRegisters) =
          {[function |-> asked[2], error |-> 0, data |-> d] :
             d \in [1 .. Word(4) -> 0 .. MaxRounds]}
    BY <1>3, <1>4, <1>8, <2>1 DEF Replies
  <2>3. \A s \in Strips : inputRegisters[s] \in 0 .. MaxRounds
    <3> SUFFICES ASSUME NEW s \in Strips PROVE inputRegisters[s] \in 0 .. MaxRounds
      OBVIOUS
    <3>1. inputRegisters[s] \in Nat
      BY InWords16 DEF TypeInv, WordInv
    <3>2. inputRegisters[s] <= MaxRounds
      BY DEF RoundsInv
    <3> QED
      BY <1>5, <3>1, <3>2
  <2>4. [k \in 1 .. Word(4) |-> inputRegisters[Word(2) + k - 1]]
          \in [1 .. Word(4) -> 0 .. MaxRounds]
    BY <1>7, <2>3
  <2> QED
    BY <1>7, <2>2, <2>4
<1>10. holdingRegisters' = After(asked, holdingRegisters)
  <2>1. Written(asked) = <<>>
    BY <1>3, <1>8 DEF Written
  <2> QED
    BY <1>1, <2>1, NothingWritten DEF TypeInv, WordInv
<1>11. ASSUME NEW k \in 1 .. Word(4)
       PROVE  Field(answer', 1 + 2 * k) >= fresh[Word(2) + k - 1]
  <2>1. PICK s \in Strips : s = Word(2) + k - 1
    BY <1>7
  <2>2. Field(answer', 1 + 2 * k) = inputRegisters[s]
    BY <1>7, <2>1
  <2>3. s < row
    BY <1>1, <1>5 DEF Strips
  <2>4. fresh[s] <= inputRegisters[s] /\ fresh[s] \in Nat /\ inputRegisters[s] \in Nat
    BY <1>1, <2>3, InWords16 DEF RoundsInv, TypeInv, DeviceInv, WordInv
  <2> QED
    BY <2>1, <2>2, <2>4
<1> QED
  BY <1>1, <1>4, <1>7, <1>9, <1>10, <1>11 DEF ServedNow

\* Hypotheses of what follows: bytes are bytes, and none is lost.
Faultless == CrcIsWord /\ WholeRequests /\ CleanLine /\ FewRounds

ServedInv == TypeInv /\ FlowInv /\ RoundsInv

\* On a clean line the request in rxBuffer is the master's, and its rows are recent.
LEMMA ServedInvAlways == Faultless => (Spec => []ServedInv)
<1> SUFFICES ASSUME Faultless PROVE Spec => []ServedInv
  OBVIOUS
<1>1. Init => ServedInv
  BY TypeInvInit, FlowInvInit, RoundsInvInit DEF ServedInv
<1>2. ServedInv /\ [Next]_vars => ServedInv'
  <2> SUFFICES ASSUME ServedInv, [Next]_vars PROVE ServedInv'
    OBVIOUS
  <2>1. TypeInv'
    BY TypeInvStep DEF ServedInv, Faultless
  <2>2. FlowInv'
    BY FlowInvStep DEF ServedInv, Faultless, TypeInv
  <2>3. RoundsInv'
    BY RoundsInvStep DEF ServedInv, Faultless
  <2> QED
    BY <2>1, <2>2, <2>3 DEF ServedInv
<1> QED
  BY <1>1, <1>2, PTL DEF Spec

\* Only the two moments at which an answer goes out concern its freshness.
LEMMA FreshStep ==
  ASSUME Faultless, ServedInv, AnswerIsFresh, [Next]_vars
  PROVE  AnswerIsFresh'
<1> USE DEF vars, master_vars, uart_vars, reg_vars, device_vars
<1>0. CrcIsWord /\ WholeRequests /\ TypeInv /\ FlowInv /\ RoundsInv
  BY DEF Faultless, ServedInv
<1>1. CASE Modbus_HandleRequest
  <2>1. pc = "handle" /\ UNCHANGED <<asked, fresh>>
    BY <1>1 DEF Modbus_HandleRequest, HandleOthersFrame, HandleIllegalFunction,
       Modbus_HandleReadHoldingRegister, Modbus_HandleReadInputRegister,
       Modbus_HandleWriteSingleRegister, Modbus_HandleWriteMultipleRegisters, ForUs
  <2>2. InHand /\ answer = Nothing
    BY <1>0, <2>1, RequestIsWhole
  <2>3. answer' = answer \/ answer'[2] # ReadInput
    BY <1>0, <1>1, <2>2, HandlersServe DEF TypeInv, WordInv
  <2> QED
    BY <2>1, <2>2, <2>3 DEF AnswerIsFresh
<1>2. CASE AnswerRows
  BY <1>0, <1>2, RowsServe DEF AnswerIsFresh
<1>3. CASE ReadByte
  <2>1. answer' = answer /\ fifo # <<>>
    BY <1>3 DEF ReadByte
  <2>2. answer = Nothing
    BY <1>0, <2>1 DEF FlowInv, Quiet
  <2> QED
    BY <2>1, <2>2 DEF AnswerIsFresh
<1>4. CASE Ask \/ TakeAnswer \/ TimeOut
  <2>1. answer' = Nothing
    BY <1>0, <1>4 DEF Ask, TakeAnswer, TimeOut, FlowInv
  <2> QED
    BY <2>1 DEF AnswerIsFresh
<1>5. CASE Deliver \/ Disturb \/ ReadError \/ CopyRow \/ PrintChecks \/ InitPlate \/ InitRest
           \/ Round \/ RowsPrinted \/ UNCHANGED vars
  <2>1. UNCHANGED <<asked, answer, fresh>>
    BY <1>5 DEF Deliver, Disturb, ReadError, CopyRow, PrintChecks, InitPlate, InitRest,
       Round, RowsPrinted
  <2> QED
    BY <2>1 DEF AnswerIsFresh
<1> QED
  BY <1>1, <1>2, <1>3, <1>4, <1>5 DEF Next, Server

\* A master that reads input registers gets no row that is older than its request,
\* however many rounds CTIMER2's handler completes while main() copies the rows.
THEOREM AnswersAreFresh == Faultless => (Spec => []AnswerIsFresh)
<1> SUFFICES ASSUME Faultless PROVE Spec => []AnswerIsFresh
  OBVIOUS
<1>1. Init => AnswerIsFresh
  BY DEF Init, AnswerIsFresh
<1>2. ServedInv /\ AnswerIsFresh /\ [Next]_vars => AnswerIsFresh'
  BY FreshStep
<1> QED
  BY <1>1, <1>2, ServedInvAlways, PTL DEF Spec

-----------------------------------------------------------------------------
(* modbus.c keeps the promise of RegisterServer.                           *)

\* No request is no request of RegisterServer either.
LEMMA NothingDecoded == Decoded(Nothing) = Nothing
BY DEF Decoded

\* Each step of the server, the master and the wire is one of RegisterServer's, or
\* none that its master could see.
LEMMA ServesStep ==
  ASSUME Faultless, ServedInv, [Next]_vars
  PROVE  \/ Served!Ask \/ Served!Serve \/ Served!Leave
         \/ UNCHANGED <<holdingRegisters, asked, Decoded(answer)>>
<1> USE DEF vars, master_vars, uart_vars, reg_vars, device_vars
<1>0. CrcIsWord /\ WholeRequests /\ TypeInv /\ FlowInv /\ RoundsInv
  BY DEF Faultless, ServedInv
<1>1. ASSUME UNCHANGED <<holdingRegisters, asked, answer>>
      PROVE  UNCHANGED <<holdingRegisters, asked, Decoded(answer)>>
  BY <1>1
<1>2. ASSUME ServedNow, asked' = asked, asked # Nothing, answer = Nothing
      PROVE  Served!Serve
  BY <1>2, NothingDecoded DEF ServedNow, Served!Serve
<1>3. CASE Modbus_HandleRequest
  <2>1. pc = "handle" /\ UNCHANGED asked
    BY <1>3 DEF Modbus_HandleRequest, HandleOthersFrame, HandleIllegalFunction,
       Modbus_HandleReadHoldingRegister, Modbus_HandleReadInputRegister,
       Modbus_HandleWriteSingleRegister, Modbus_HandleWriteMultipleRegisters, ForUs
  <2>2. InHand /\ answer = Nothing /\ asked # Nothing
    BY <1>0, <2>1, RequestIsWhole DEF InHand
  <2>3. UNCHANGED <<answer, holdingRegisters>> \/ ServedNow
    BY <1>0, <1>3, <2>2, HandlersServe DEF TypeInv, WordInv
  <2> QED
    BY <1>1, <1>2, <2>1, <2>2, <2>3
<1>4. CASE AnswerRows
  <2>1. pc = "copy"
    BY <1>4 DEF AnswerRows
  <2>2. answer = Nothing /\ asked # Nothing
    BY <1>0, <2>1, RequestIsWhole DEF InHand
  <2> QED
    BY <1>0, <1>2, <1>4, <2>2, RowsServe
<1>5. CASE Ask
  <2>1. /\ asked = Nothing /\ asked' \in Frames
        /\ UNCHANGED <<holdingRegisters, answer>>
    BY <1>5 DEF Ask
  <2> QED
    BY <2>1 DEF Served!Ask
<1>6. CASE TakeAnswer \/ TimeOut
  <2>1. asked # Nothing /\ asked' = Nothing /\ answer' = Nothing /\ UNCHANGED holdingRegisters
    BY <1>0, <1>6 DEF TakeAnswer, TimeOut, FlowInv
  <2>2. Decoded(answer') = Nothing
    BY <2>1, NothingDecoded
  <2> QED
    BY <2>1, <2>2 DEF Served!Leave
<1>7. CASE ReadByte \/ Deliver \/ Disturb \/ ReadError \/ CopyRow \/ PrintChecks \/ InitPlate
           \/ InitRest \/ Round \/ RowsPrinted \/ UNCHANGED vars
  <2>1. UNCHANGED <<holdingRegisters, asked, answer>>
    BY <1>7 DEF ReadByte, Deliver, Disturb, ReadError, CopyRow, PrintChecks, InitPlate,
       InitRest, Round, RowsPrinted
  <2> QED
    BY <1>1, <2>1
<1> QED
  BY <1>3, <1>4, <1>5, <1>6, <1>7 DEF Next, Server

\* Byte by byte, with every interrupt that comes between, modbus.c serves requests
\* as if each were one step: the registers have the values the requests answered so
\* far have given them, a refused request changes none, and an answer belongs to
\* the request the master waits on.
THEOREM ServesAsPromised == Faultless => (Spec => ServesRegisters)
<1> SUFFICES ASSUME Faultless PROVE Spec => ServesRegisters
  OBVIOUS
<1>1. Init => Served!Init
  BY NothingDecoded DEF Init, Served!Init
<1>2. ServedInv /\ [Next]_vars =>
        [Served!Ask \/ Served!Serve \/ Served!Leave]_(Served!vars)
  BY ServesStep DEF Served!vars
<1> QED
  BY <1>1, <1>2, ServedInvAlways, PTL DEF Spec, ServesRegisters, Served!Spec
=============================================================================
