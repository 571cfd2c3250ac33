--------------------------- MODULE MCModbusServer ---------------------------
(* Instances of ModbusServer: what the master sends, and the checksum.      *)
EXTENDS ModbusServer, ModbusCrc

Crc == 77

\* A frame of eight bytes: a word each for the first register and for the
\* number of registers or the value.
Short(address, code, first, word) ==
  <<address, code, 0, first, word \div 256, word % 256, Crc, Crc>>

Long(first, n, byteCount, values) ==
  <<1, WriteMultiple, 0, first, 0, n, byteCount>> \o values \o <<Crc, Crc>>

\* Both kinds of read, writes of one and of two registers that turn strips on or
\* hold zeros, one the hot plate refuses, and what is answered with an error or,
\* meant for another server, not at all.
MCServed ==
  {Short(1, ReadHolding, 5, 2), Short(1, ReadInput, 1, 1), Short(1, WriteSingle, 6, 258),
   Short(1, WriteSingle, 0, 5), Short(1, WriteSingle, 5, 0), Short(1, WriteSingle, 7, 3),
   Short(1, WriteSingle, 4, 550), Short(1, WriteSingle, 4, 1200), Short(1, 5, 0, 1), Short(2, WriteSingle, 6, 3),
   Long(5, 2, 4, <<0, 4, 0, 3>>), Long(6, 2, 4, <<0, 4, 0, 3>>), Long(0, 1, 4, <<0, 2, 0, 3>>)}

MCOverrun == {Short(1, WriteSingle, 5, 3), Long(5, 2, 4, <<0, 4, 0, 3>>)}

\* A write refused by the hot plate among them.
MCNoisy ==
  {Short(1, WriteSingle, 5, 3), Short(1, WriteSingle, 0, 5),
   Long(5, 2, 4, <<0, 4, 0, 3>>)}

\* A master that computes the checksum over a whole answer, with the protocol's
\* polynomial, gets 0: it accepts what modbus.c computes with its table.
AnswersVerify == [][answer' \notin {answer, Nothing} => Remainder(answer') = 0]_vars
=============================================================================
