# Gas sensor read-out: TLA+ verification project

The repository holds the firmware of a board that measures the resistance of up
to eight gas-sensitive strips (an NXP MCX N947, bare metal, C) and a PC program
that controls the board and records what it measures (Python, PySide6). This
directory holds TLA+ models of both, the TLC configurations that check them, and
proofs, checked by TLAPS, of what must hold for every size of the system.

Paths below are relative to `src/Gas_sensor_read_out/source/` unless they begin
with `src/`. The rest of the repository is the vendor's SDK, generated build files and
style sheets.

## 1. The system

| Component | Source | State | Operations |
|---|---|---|---|
| Strip sampler | `ADC_files/adc_16_strip.c`, `MUX_files/gpio_for_mux.c` | running sums, window and strip counters, the total of the round, values and resistances per strip, the converters and their FIFOs, the select pins | `CTIMER2_IRQHandler`, `ADC0_IRQHandler`, `ADC1_IRQHandler`, `calculate_resistance_array`, `SelectMuxChannel` |
| Measurement control | `main.c`, `global.c` | parameters (`active_strips`, `g_strip_count`, ...), `active_strip_indices`, what `main()` is at | the loop of `main()`, `updateParameters`, `InitializeAllPeripherals` and what it calls |
| Modbus server | `Modbus_files/modbus.c` | receive buffer, holding and input registers, `ModbusParamChanged`, the UART's FIFO and error flags | `HandleModbusFrame`, `Modbus_HandleRequest` and its four handlers, `Modbus_UpdateParameters` |
| Micro hot plate | `DAC_files/DAC_micro_hot_plate.c`, `main.c` | sample buffer, its size, index, the DAC's output | `initialize_dac_hot_plate`, three generators, `scaleDacValues`, `SetupTimer`, `CTIMER4_IRQHandler` |
| PC program | `GUI/test_gui.py` | serial threads, queued signals, CSV file, dialogs, `measurement_started` | `SerialThread.run`, `write_to_csv`, `connect_serial_port`, `start_measurement` |
| Excitation voltage | `DAC_files/DAC_excitation_voltage.c` | DAC0's value | `SetExcitationVoltage` |
| Power source | `PowerMUX_files/powermux.c` | `ModbusFlag` | `readPowerSource` |
| Modbus CRC | `Modbus_files/modbus.c` | none; a table | `Modbus_CRC16` |
| Console | `main.c` | a line buffer of 256 bytes and its index, the UART's FIFO and overrun flag | reading a line, `updateParameters` |
| Timestamp | `main.c` | a counter of ms | `SysTick_Handler`, `TimestampInit` |

How they interact:

- There is no operating system: `main()` runs when no interrupt handler does.
  Priorities are SysTick 1, CTIMER2 2, ADC0 and ADC1 3, CTIMER4 4, so CTIMER2's
  handler preempts the two ADC handlers and these never preempt each other.
  Everything is shared through globals; nothing disables interrupts.
- The power source, read once, decides where requests come from: lines on the
  console, sent by the PC program, or Modbus frames on another UART.
- A request changes the parameters, and `main()` runs
  `InitializeAllPeripherals()`: hot plate, multiplexer, list of active strips,
  both converters, timer CTIMER2, excitation voltage, timestamp. It is written to run on quiet peripherals.
  In fact the measurement that is running goes on all the time: the flag
  `Initializationsuccess`, on which `ResetAllPeripherals()` depends
  (`main.c:363`), becomes true only right before `main()` returns (`main.c:371`).
- CTIMER2 ticks `MUX_freq` x 30 times a second. Each tick triggers both
  converters, 30 ticks make a window, one window is measured per strip, and
  when all active strips have had theirs the resistances of the round are
  computed from it and printed, or read by a Modbus master.
- CTIMER2's handler prints those rows itself, eight lines at 115200 baud: for about
  25 ms `main()` does not run, and neither the console's UART nor the Modbus UART is
  emptied. With no strip active it prints one line at every tick instead. `main()` prints
  too, and empties no UART meanwhile.
- CTIMER4 ticks 25 times a second and plays the hot plate's buffer.
- The PC program gets the rows line by line: the board, the serial port, a reader
  thread, Qt's queue of signals, and last the event loop, which writes the file.

### What is hard

1. **Interrupts in the middle of everything.** A tick can fall between a load and
   a store of an ADC handler, between the statement that zeroes `g_strip_count`
   and those that count it up, between `free()` and the loop that fills the new
   array, between starting the timer and resetting its indices. What it reads then may
   be no strip, and is the row of an unchecked store (`adc_16_strip.c:393`).
2. **Late results.** A window is averaged before the conversion that the
   same tick has triggered ends, and then the multiplexer moves.
3. **Restart of a measurement** without the old one being stopped: half of the
   state is new, half is old, and some (`Total_adc_summation`, the two sums, the
   hot plate's index) is not reset at all.
4. **Frames cut by length alone**, from a FIFO of 8 bytes which nobody empties
   during an initialisation or while anything is printed, with no received CRC being
   looked at. The console has the same FIFO and no frame at all: a newline that is
   lost joins two lines.
5. **A buffer refilled while it is played**, whose size, the divisor of the
   handler's index, changes under the handler.
6. **Rows under way** in five places when the PC program clears its file, or when its
   window is closed.
7. **Zero and the ends of ranges**: a strip count of 0, registers of 0 that mean
   "keep", a buffer of no samples, duty cycles of 0 and above 100.

`PROJECT.json` lists these one by one, at their lines, with the properties that
watch over them.

### What makes each component correct

- *Sampler*: every conversion is counted in one window, on both converters alike;
  a window is stored for the strip it was measured on; a round divides by exactly
  as many strips as windows it has added up; every active strip has its turn.
- *Control*: the index never leaves the list it is used on; after a restart during which
  no variable was overwritten, index, multiplexer and total agree as soon as a
  round has ended, every round after that one is exact, and there always is one.
- *Modbus server*: what is handled is what was sent; each request is served
  entirely and answered with what it asked for, under a checksum the master accepts;
  registers, parameters, peripherals and the excitation voltage do not drift apart; no
  divisor becomes 0; the loop that collects a frame does not miss its end.
- *Console*: a line that comes whole is taken as it was sent, whatever happened to the
  ones before it; a garbled one leaves strips and strip count in agreement; the line
  buffer does not fill up over many lines.
- *Hot plate*: the handler reads inside the buffer; in the end the requested wave
  is played, all of it and nothing but it, and never above its amplitude.
- *PC program*: the file has the board's rows, in the board's order, and as long as no
  read fails without a gap and in the end all of the last measurement; closing it ends,
  and ends the thread of the last connection.

## 2. The modules

| Module | What it is |
|---|---|
| `StripSampler` | interrupt handlers, converters, multiplexer |
| `Measurement` | EXTENDS `StripSampler`: `main()` around them, statement by statement; the composition of control and sampler |
| `StripRounds` | abstract: strips take turns, the results of a round appear together (`Safe`), and do so again and again (`Spec`) |
| `ModbusServer` | the server, the UART, the wire and the master |
| `Excitation` | the excitation voltage; `ModbusServer` EXTENDS it |
| `ModbusCrc` | the checksum, as the code computes it and as the protocol defines it |
| `RegisterServer` | abstract: a request is served at once and entirely, then answered |
| `HotPlate` | waveform generation and playing |
| `Console` | a line of parameters from the PC program to the peripherals |
| `GuiHost` | the PC program, with the board behind the serial port |
| `MCMeasurement`, `MCModbusServer`, `MCHotPlate`, `MCConsole` | instances for TLC |
| `MeasurementProofs` | theorems about `Measurement`, for any schedule and any requests; about the rounds after a restart |
| `SingleMeasurementProofs` | theorems about one measurement whose ticks are on time, and its refinement of `StripRounds` |
| `ModbusProofs` | theorems about `ModbusServer`, whatever happens on the wire |
| `ServedProofs` | theorems about `ModbusServer` on a clean line, and its refinement of `RegisterServer` |
| `HotPlateProofs`, `GuiHostProofs`, `ConsoleProofs` | theorems about the module they are named after |
| `ConsoleTextProofs` | what the operators of `Console` make of a text: lemmas for `ConsoleProofs` |

### StripSampler and Measurement

Variables carry the names of the C variables. A conversion result is reduced to
the position of the select pins when it was taken; a sum to the number of results
in it and, for the voltage, how many were taken on each strip. That is what the
properties tell apart: which results were added, how often, for which strip,
divided by what.

| Code | Action |
|---|---|
| `CTIMER2_IRQHandler`, by its early return and its two branches | `TickNoStrips`, `TickWithinWindow`, `TickClosesWindow` |
| `ADC0_IRQHandler`, `ADC1_IRQHandler` | `AdcHandlerLoad`, `AdcHandlerStore`: `sum += x` is a load and a store |
| a converter that has finished (external) | `Convert` |
| end of a line, or a Modbus write | `Receive` |
| `main.c:359-362`, `updateParameters`, `Modbus_UpdateParameters` | `ClearStrip`, `ParseLine`, `StoreStrip`, `ZeroCount`, `SetStrip` (Modbus only), `CountStrip` |
| `InitializeAllPeripherals`, in its order | `InitPlate`, `InitMuxPin`, `SelectFirstPin`, `AllocateIndices`, `FillIndex`, `ResetAdc`, `ReadyAdc`, `StopTimer`, `StartTimer`, `ResetIndex`, `ResetCount`, `TimestampInit`, `ZeroResistance` |

`g_timestamp_ms` is the number of the request whose `TimestampInit` set it to 0: a
row's time is right if it counts from its own measurement's start. CTIMER2 runs before
that, so the old time may get into a window; `ResultsRecover` says it does not stay.

Each statement of `main()` that a handler can see is a step, loops one iteration
at a time, so a tick may come between any two. A handler of CTIMER2 is one step,
since nothing that shares state with it preempts it.

An `active_strip_indices` entry beyond what has been written reads as any byte. The
handler not only selects a channel with it but also stores the window's value and time
in that row of `V_sens_strip_values` (`adc_16_strip.c:393-394`). For a byte that is no
strip this is memory behind the array, which the linker may have given to
`resistance_array`, `active_strips` or `g_strip_count`, or to nothing the sampler uses:
`StoreHits` leaves open which. If it hits something, `corrupted` becomes true and the
model stops, since nothing is known of any later step. `IndexWithinAllocation` says that
one measurement never gets there; the properties about restarts speak of states that are
`Settled`: the restart is over and nothing has been overwritten on the way.

A remainder by 0 leaves the dividend: the Cortex-M33 does not trap the division
(`SCB->CCR.DIV_0_TRP` is 0 after reset) and its quotient is 0. The index is a
`uint8_t` and wraps at `Uint8`.

*Timing.* Two assumptions come from the times of the code, and `TicksOnTime`
switches them on or off:

- A tick finds the last results handled: the converter averages 1024 samples,
  about 3.3 ms, and a tick period at `MUX_freq` 8 is 4.17 ms. The exception is
  the tick that follows the printing of a round's rows: eight rows at 115200
  baud last about 25 ms, so it is already pending when the handler returns and
  runs before the ADC handlers, of the lower priority (`RowsJustPrinted`).
- Between starting the timer and resetting its two indices `main()` prints one line,
  about 3.6 ms and less than a period; all it prints after that takes less
  than a window, which lasts 125 ms or more (`InitialisedOnTime`).

The PC program limits `MUX_freq` to 8, the firmware does not: a Modbus
master may choose more. The run `late` drops both assumptions.

### ModbusServer

A frame is a sequence of bytes, since where it is cut, and what its length field
says, is what could go wrong. Received bytes travel `wire` → `fifo` →
`rxBuffer`. The FIFO takes no byte when it is full and sets `overrun`, and none as long as
that is set; framing, noise and parity errors of a disturbed byte are `flagged`.
`LPUART_ReadBlocking` looks at the flags only while the FIFO is empty, and returns an
error for either, whereupon the bytes collected are dropped (`ReadError`). However
`HandleModbusFrame` returns, `main()` prints its CHECK lines before it goes on, and no one
empties the FIFO meanwhile (`PrintChecks`). Reading
inputs is several steps (`CopyRow`), as CTIMER2's handler (`Round`) may replace
the rows in between; the other handlers share nothing with an interrupt and are
one step each. `InitPlate` and `InitRest` are `InitializeAllPeripherals()` with
its outcomes; its inside is `Measurement`'s. A received CRC is two bytes nobody looks
at. An answer is the bytes that are sent, with `Modbus_CRC16` as an operator
parameter: the proofs hold for any checksum, the runs take `CRC16` of `ModbusCrc`. A
resistance is the number of rounds its row has seen, and `printing` is CTIMER2's
handler at its rows, while `main()` stands still and bytes go on coming.

`InitRest` writes DAC0 as `SetExcitationVoltage` does. The code computes in single
precision, which may truncate a quotient without a remainder to the step below; the
operator gives both values and `ExcitationAsAsked` admits two steps.

`ModbusCrc` has the 256 entries of the table as they stand in the source, and an
assumption TLC evaluates: each is the remainder of its index. `AnswersVerify` runs whole
answers through the shift register of the protocol. The module uses `Bitwise` and is for
TLC alone.

The external master asks one thing at a time, waits for the answer, and
gives up when the server will not answer any more. It sends frames of up to 8
bytes, which fit the FIFO, whenever it likes. Longer ones it sends when the
server reads and no rows are printed or about to be, or, if `Hasty`, at any time. A real
master cannot know when that is; `overrun` shows what it meets.

### HotPlate

Main's steps are one sample each: a tick of CTIMER4 may come between any two.
Single precision is done in exact integers, rounded down as the conversion to an
integer does. There is one known difference: `25 / 0.002f` is 12499 in
single precision and 12500 here; the buffer has room for either. A sine sample
is any of `SineLevels`. A negative number or an infinite slope converted to
`uint32_t` is undefined in C; the core's conversion instruction gives 0 for
both of the cases that the triangle meets, and so does `Ramp`.

### Console

A character is a number; the line is the one `send_parameters` writes, with natural
numbers. It travels `wire` → `fifo` → `buffer`, as in `ModbusServer`; on the wire and in
the FIFO a character is the place it has in the lines that were sent, and `Char` is what
stands there. `lost` remembers of which lines a character, or the end, was lost in an
overrun. `ReadChar` and `ReadError` are one turn of `main()`'s loop. GETCHAR returns -1 once the overrun flag is found set and
the loop stores that like a character (`Junk`). `updateParameters` is one step, as only
interrupts run beside it and what they see of it is `Measurement`'s business. It works on
the buffer as strtok does: `Begins` and `End` are the tokens, `Cut` is what strtok leaves,
and the strips are read at the strips token's beginning, also behind its end, where older
characters stand. `TickPrints` and `RowsPrinted` are the time nobody empties the FIFO: a round's
rows, or the line about no active strips.

Past the end of `buffer` the code writes other memory: no instance gets there
(`IndexBounded` is what says so), and the model has no such step.

### GuiHost

A row is the measurement it belongs to and its number. Actions are the reader
thread's `readline` and `emit`, the slot `write_to_csv`, the two buttons and
the dialogs they open. Dialogs are modal for the user but run the event loop:
`write_to_csv` may run while one is open and the buttons may not.
`sending` is whose port `self.serial_thread` has: the board's, another one, or none if it
did not open. Connecting again replaces it although the earlier threads go on reading;
those of other ports than the board's are only counted (`others`), since nothing comes from
there. Opening the board's port drops what it has received. With no port entered there is a
message and nothing changes. A `SerialException` ends a thread with the window open and
without anyone being told (`ReaderFails`; `failed` remembers it); a write that raises one
ends `start_measurement` before the file is cleared a second time. Closing the window
(`closeEvent`) clears the thread's `flag`, closes the port and waits for the thread;
the event loop does not run meanwhile, so what is in the queue then is never written. A
closed port ends a read that is under way, as pyserial does.

## 3. The runs

`tlc -config <run>.cfg <module>`. Sizes are distinct states.

| Run | Module | Shows |
|---|---|---|
| `single` (61 k) | MCMeasurement | One measurement of any subset of 4 strips, ticks on time: `SamplesConserved`, `WindowsBelongToStrip`, `RoundsComplete`, `MuxFollowsIndex`, `IndexWithinAllocation`, the refinement `StripRoundsSpec`, and `EveryStripMeasured` |
| `restart` (1.4 M) | MCMeasurement | A second request changes the strips while a measurement runs, from the GUI or over Modbus: `IndexBelowStrips`; unless a store outside `V_sens_strip_values` has hit a variable, `InStepAgain`: one round later index, multiplexer and total agree; `RoundsExactAgain`: every round that ends after that is exact; and `ResultsRecover`: the results, their timestamps included, become so and stay so |
| `late` (344 k) | MCMeasurement | Ticks at any time, also between an ADC handler's load and store: the divisor of the current recovers (`DivisorRecovers`) although samples are miscounted |
| `served` (341 k) | MCModbusServer | All kinds of requests: `HandledFramesWereSent`, `AnswerIsFresh`, `ExcitationAsAsked`, `AnswersVerify`, the refinement `ServesRegisters`, and `EveryRequestAnswered` |
| `noisy` (1.7 M) | MCModbusServer | A byte is lost or changed, noticed by the UART or not, frames are out of step: `PeripheralsFollowParameters`, `ParametersFollowRegisters`, `DivisorsNotZero`, `LengthNotPassed` hold all the same |
| `console` (170 k) | MCConsole | Characters of three lines are lost at any place: `ReadsBack`, `TakenAsSent`, `CountFitsStrips`, `IndexBounded`, `LastLineHandled` |
| `plate` (49 k) | MCHotPlate | Any of ten requests, two of them refused, replaces any other while it is being played: `IndexWithinArray`, `BufferScaled`, `TriangleTurnsOnce`, `WavePlayed` |
| `gui` (331 k) | GuiHost | Starts, refused starts, connecting to the board and to other ports, failing reads and closing the window in any order: `RowsInOrder`, `NoThreadLeft`, `EveryRowWritten`, `WindowCloses` |
| `mixed_round` | MCMeasurement | violated: `DivisorMatchesWindows`, after a restart in mid-round |
| `overrun` | MCModbusServer | violated: `HandledFramesWereSent`, when a long write meets an initialisation or printing |
| `plate_raw` | MCHotPlate | violated: `OutputScaled`, while a new wave is generated |
| `gui_old_rows` | GuiHost | violated: `OldDataDeleted`, rows under way when the file is cleared |

`TypeOK` is checked once per module: in `single`, `served`, `console`, `plate` and `gui`.

### Bounds, and why they are enough

- *Strips*: 4 with two select pins in `single`, so that orders with gaps, more
  than one bit changing, and rounds of 1 to 4 windows happen; 2 in `restart` and
  `late`, the least with which an index can be wrong and a round mixed. With one
  strip a round is a window.
- *`SoftwareAverageCount`*: 4 or 2 in place of 30. The code compares the count
  with the constant minus 1; a first, a middle and a last tick exist at 4, and
  at 2 every tick is a boundary, which makes collisions with `main()` likelier.
- *`Uint8`*: 3 or more: far enough for the index to pass the strips and wrap.
- *Requests*: one, or two in a row. A third finds the state the second found,
  a measurement running, with every value it resets or not already arbitrary.
- *Backlog*: at most one result per converter can wait (`MaxBacklog`). In `late`
  an ADC handler is preempted only with at most `MaxPreempted` results loaded,
  which bounds how far a sum can grow.
- *Modbus*: the real FIFO depth of 8; a buffer of 16 bytes holds every frame of
  the instances (the longest has 13). 3 requests let a write, a read and another
  write follow each other; 2 rounds let a row change while it is copied.
- *Hot plate*: a buffer of 6 samples; 2 requests are an old wave and a new one.
  Periods of 6, 4 and 2 samples fill it, or not, and shrink it under the index.
- *Console*: 3 lines: the first starts a measurement, whose rows disturb the second and
  third, and these may merge. 2 fields and 2 strips make all the cases strtok can
  distinguish: too few tokens, just enough with the wrong contents, a strips token that
  is too short. A FIFO of 2 characters overruns within a line of 8, as the real
  one of 8 does within the lines of 25 and more that the PC program sends. The line buffer
  of 33 characters holds three merged lines of at most 8, and a line more.
- *PC program*: 3 starts, 3 rows each, 2 connects: rows of two older measurements
  can be under way at once.

Deadlock checking is off: requests, rows and starts are bounded, and a server
nobody asks anything, or a board that has not been started, really waits.

### Fairness

- `Measurement`: weak for CTIMER2's ticks and for the converters and ADC handlers,
  which are hardware and never stop. Strong for `Main`: ticks disable it again
  and again while an ADC handler is pending. The handlers take less time than there
  is (a few microseconds per tick, and about 25 ms of printing per round, which
  lasts 125 ms or more), and `main()` gets the rest. No fairness for `Receive`.
- `ModbusServer`: weak for `Deliver` (a sent byte arrives), `RowsPrinted` (a handler
  ends) and `Server` (`main()`, which is not enabled while rows are printed; the rounds
  are bounded, and in the program a round lasts at least five times as long as its
  printing). None for the master, noise and rounds.
- `Console`: the same three, `Deliver`, `RowsPrinted` and `Main`. None for the user and
  for rounds.
- `HotPlate`: weak for CTIMER4's handler and for `main()`. None for requests.
- `GuiHost`: weak for the board, the reader thread, the event loop and the return from
  `join`. The user need not do anything, and no read need fail.

### Seeing that properties bite

Beside an operator there are faulty variants of it, such as `NextIndexOffByOne`,
`TotalReplaced`, `WriteTooEarly` or `KeepsFailed`: each is a slip a
programmer could make at that line (a wrong bound, a sum that is overwritten, an
update before the registers are written, a loop that ends early). No specification
uses them. With one put in place of its operator, the property that
`PROJECT.json` pairs it with ("mutants") must fail; this is how each
property of a passing run was shown to depend on the code.

## 4. What is proved

All theorems hold for every value of the constants that satisfies the named assumptions
of the modules, and the hypotheses in the column of that name.

| Module | Theorem | Hypotheses | Says |
|---|---|---|---|
| `MeasurementProofs` | `TypeCorrect` | | `Spec => []TypeOK`: any number of strips, any schedule of interrupts |
| | `IndexStaysBelowStrips` | | `IndexBelowStrips`: requests and ticks in any order, timely or not |
| | `InStepAfterRestart` | | `InStepAgain`, the same, from the GUI or by Modbus, where `Settled` |
| | `ReadsListAfterRestart` | | `Settled => IndexWithinAllocation`, the same, and no step from a `Settled` state with strips makes `corrupted` true |
| | `ReadsWhatIsAllocated` | `OneRequest` | `IndexWithinAllocation`, timely or not |
| | `ExactAfterRestart` | `TicksOnTime` | `RoundsExactAgain`: any number of requests, from the GUI or by Modbus, where `Settled` |
| `SingleMeasurementProofs` | `NoSampleIsLost` | `OneMeasurement` | `SamplesConserved` |
| | `WindowsAreTheStripsOwn` | and `TrackPins` | `WindowsBelongToStrip` |
| | `EveryRoundIsComplete` | `OneMeasurement` | `RoundsComplete` |
| | `MultiplexerFollows` | `OneMeasurement` | `MuxFollowsIndex` |
| | `MeasuresInRounds` | `OneMeasurement` | `Spec => Rounds!Safe`, the refinement of `StripRounds` without its fairness |
| `ModbusProofs` | `PeripheralsFollow` | | `PeripheralsFollowParameters` for any frames and any noise |
| | `DivisorsStayNonZero` | | `DivisorsNotZero`, the same |
| | `ParametersFollow` | | `ParametersFollowRegisters`, the same |
| | `LengthNeverPassed` | | `LengthNotPassed`, the same |
| | `ExcitationFollows` | | `ExcitationAsAsked`, the same |
| | `ServerTypeCorrect` | `CrcIsWord` | `Spec => []TypeOK`, the same |
| `ServedProofs` | `HandlersGetWholeRequests` | `WholeRequests`, `CleanLine` | `HandledFramesWereSent` |
| | `AnswersAreFresh` | `Faultless` | `AnswerIsFresh` |
| | `ServesAsPromised` | `Faultless` | `ServesRegisters`: the refinement of `RegisterServer` |
| `HotPlateProofs` | `IndexStaysInArray` | `Playable` | `IndexWithinArray` |
| | `PlateTypeCorrect` | | `Spec => []TypeOK` for any requests |
| | `ReadyBufferIsScaled` | | `BufferScaled`, the same |
| | `ReadyTriangleTurnsOnce` | | `TriangleTurnsOnce`, the same |
| `GuiHostProofs` | `RowsStayInOrder` | | `RowsInOrder` for any number of starts, rows and connections |
| | `NoThreadIsLeft` | | `NoThreadLeft`, the same |
| | `GuiTypeCorrect` | | `Spec => []TypeOK`, the same |
| `ConsoleProofs` | `CountStaysFit` | | `CountFitsStrips` whatever the line buffer holds |
| | `BufferFillsLineByLine` | | `IndexBounded` whatever is lost |
| | `BufferHoldsLostLines` | | the same bound at all times, over all lines that have lost their end |
| | `LinesAreReadBack` | `LinesFit` | `ReadsBack`: any numbers, any number of fields and strips |
| | `WholeLinesAreTaken` | `LinesFit` | `TakenAsSent` whatever is lost before |
| | `ConsoleTypeCorrect` | `[](index < BufferSize)` | `TypeOK`: no write past the line buffer |
| | `TypeCorrectWithRoom` | room for lost ends | `TypeOK`, from the size of the line buffer |

The hypotheses, and why the code justifies them:

- `OneMeasurement`: one request, from the PC program, and `TicksOnTime` (section 2). It is
  what the run `single` has. With a second request the statements are false: `mixed_round`
  shows what becomes of `RoundsComplete`, and section 5 tells of the others. `TrackPins`
  says that the sums remember where their results were taken, without which
  `WindowsBelongToStrip` has nothing to speak of.
- `OneRequest`: one request, from the PC program, whatever the ticks do. With a second one
  `IndexWithinAllocation` is false while `main()` lists the new strips;
  `ReadsListAfterRestart` says that it holds again when `main()` is done, if nothing has
  been overwritten until then.
- `TicksOnTime` alone: ADC handlers finish before the next tick, and CTIMER2's period is
  longer than what `main()` does between starting the timer and zeroing the results
  (section 2). Without it samples are miscounted in any round (`late`).
- `CrcIsWord`: `Modbus_CRC16` returns a `uint16_t`.
- `WholeRequests`: the frames a master sends have eight bytes or more and as many as they
  say, fit the receive buffer, and have a function code below 128, where the codes of
  errors begin. `CleanLine`: no byte is lost or changed, and no frame longer than the
  FIFO is sent while the server is busy. `FewRounds`: the rounds that are counted for
  `AnswerIsFresh` fit a register. `Faultless` is all of these with `CrcIsWord`. They
  hold in `served`; without `CleanLine`, `overrun` is the counterexample.
- `Playable`: a frequency of at most the sample rate, so that a period has a sample, and
  at least the lowest possible, so that it fits the buffer.
- `LinesFit`: the line buffer is longer than the longest line. The one of `main.c` has 256
  characters, a line some tens. `MCConsole` assumes it, so TLC evaluates it there.
- `[](index < BufferSize)`: past the end of its buffer `main()` writes other memory, and
  of the parameters nothing can be said any more. The code does not check the index; what
  stands for the check is `BufferHoldsLostLines`. "Room for lost ends" is
  `[](LongestLine * (1 + LostEnds) < BufferSize)`, `LostEnds` being the lines sent that
  have lost their end, which cannot be ruled out for a board that runs for long. In
  `console` it always holds (`RoomAssumption` of `MCConsole`).

Assumptions on constants: that the requests of `Console` are finitely many, and at least
one, so that there is a longest line (`RequestsAssumption`); that the select pins
(`MuxPins`) are the weights 1, 2, 4, ... below some bound (`WeightsAssumption`), which the
multiplexer's proof needs since a channel is put together from its bits; and that there
are at most eight strips (`CountsAssumption` of `ModbusServer`), because the excitation
DAC's greatest total is what eight of them may have: with nine the DAC's value would
leave its range.

**`TypeCorrect`.** `TypeOK` alone is not inductive: `g_strip_count` is counted up
in a loop and could exceed the number of strips. `TypeInv` adds `CountBounded`:
while the loop runs, the count is at most the loop variable, which is below the
number of strips. That `TickClosesWindow` keeps the index a byte needs the
remainder's range, which is a lemma of its own.

**`IndexStaysBelowStrips`.** In the GUI's mode the index only changes to 0 or to a
remainder by `g_strip_count`, and the handler returns before it divides if
that is 0. With the count at most `MAX_STRIP_COUNT`, from `TypeInv`, the index stays
below it, whatever `main()` does to the count in between. No timing is assumed.
In the Modbus mode the guard is absent and the property says nothing.

**After a restart.** What a restart leaves behind is followed by `RestartInv`, for any
sequence of requests and any ticks, up to a store outside `V_sens_strip_values` that hits
a variable: after one there is no step. That such a store only comes while a request is
carried out, and no longer once `main()` waits with strips to measure, is the
second part of `ReadsListAfterRestart`. Where `main()` counts and lists the strips,
count and list are those of the strips met so far (`CountInv`, `FillInv`), whatever was in
them before; the handlers touch neither. From `ResetIndex` on the index is inside the new
list, for the handlers only take it round that list (`IndexInv`). Pins and total
are not reset, and nothing can be said of them until a round ends. That moment writes
all three at once: the index becomes 0, the total becomes that of no window and the pins
go to the first strip in the list; from then on they move together (`StepInv`, with
`RoundOver` for "a result has been published since it was zeroed").
`InStepAfterRestart` is this invariant where `main()` waits.

**`ExactAfterRestart`** adds the timely ticks. No window ends before the last result has
been zeroed (`ClosesWhileWaiting`), so all results are of this measurement (`ZeroInv`) and
have its time (`TimeInv`). The first window after the restart may have too few or
foreign results; but the tick that closes it starts conversions on both
converters, which `main()` has readied by then (`AdcInv`), and from that moment on what is
outstanding is one more than the ticks of this window (`CatchUpInv`). Every later window is
therefore full, and so, once a round has ended, is every window in the total and in
the values stored in the running round (`RoundInv`). At the end of that round these are all
there are. `OnTimeInv` is the conjunction; TLC has checked it on the 4.8 million states of
a somewhat larger instance than that of `restart` before it was proved.

**`ReadsWhatIsAllocated`** has an invariant of its own, `FirstInv`: before the timer is
started for the first time the index is 0, and when it is, the list is complete.

**One measurement.** `SingleInv` is `TypeInv` with two groups of conjuncts. `SetupInv`
follows `main()`: where it is and what it has done by then (`OrderInv`), that count and
list agree with the strips met so far (`ListInv`), and that the pins chosen so far are those
of the first active strip, or, with the timer on, of the strip at the index
(`PinInv`). `DataInv` follows the results: what is outstanding, with what is in a sum,
is the number of ticks in this window or one more (`SampleInv`), the one more being the
result of the tick that has closed the window before; no tick comes between a load and a
store (`HandlerInv`); the total holds one window for each strip before the
running one's (`TotalInv`); and only the oldest result of a window may come from another
strip (`OwnInv`). None of the properties is inductive: `RoundsComplete` needs
`TotalInv`, which needs the strip count to be the length of the list, which needs the loops
of `main()`; `WindowsBelongToStrip` needs to know of every result under way where
it was taken. What a loop of `main()` adds to the strips it has met, to their number and to
the list of them are lemmas of their own (`BelowStep`, `ListedStep`), and so is that a
closing tick moves the pins to the next strip in that list (`WindowCloses`): these facts
are in `MeasurementProofs`, and both invariants use them.

**`MeasuresInRounds`.** The mapping is that of the run `single`. The order appears when the
timer starts, a tick that closes a window is a step of `StripRounds`, with the round's
results if it was the last one of the round, and all else stutters. `SingleInv` says that
the list the index goes through is complete and in ascending order, which is `StripRounds`'
order.

**`PeripheralsFollow`.** `PeripheralsFollowParameters` speaks of the moments `main()`
reads. The invariant `FollowInv` ties the three other places: as long as
`ModbusParamChanged` is clear the peripherals have the parameters (or these are
refused), and where it is set `main()` is on its way to initialise. One lemma,
`OnlyWritesChangeParameters`, tells the few steps that touch parameters from all
others, and the next two theorems rest on it too.

**`ParametersFollow`.** After a write the parameters are
`Modbus_UpdateParameters` of the registers; that the property holds
then is `UpdateIsIdempotent`: applying the same registers once more changes
nothing, for a register of 0 keeps and any other sets the same value again.

**`LengthNeverPassed`.** `main()` compares the length of a frame with the expected
one by `==`, so it must not be skipped. The invariant `FrameInv` adds that bytes are
bytes and that the buffer is empty while `main()` initialises. The expected length is
first looked at with eight bytes, when it is at least eight, and the two bytes it
depends on do not change any more; so the length comes nearer one by one.

**`ExcitationFollows`.** `VoltageInv` says that DAC0 has the value of the parameters
whenever the peripherals are configured and none is being initialised. That the value is
within one step of the voltage asked for is arithmetic of `SetExcitationVoltage`.

**`ServerTypeCorrect`.** `TypeInv` adds to `TypeOK`, beside `FrameInv` and `VoltageInv`,
that in a handler the whole frame is in the buffer and that the rows being copied are
rows there are. Then no byte is read that is not there, words come from two bytes,
and the answers' bytes are quotients and remainders of words.

**The clean line.** `FlowInv`: what has come, what is in the FIFO and what is on the wire
are together the request the master waits on, byte by byte; or nothing is under way. When
`main()` is busy, all that may still come has room in the FIFO, so `overrun` is never
set. A request is then handled when its last byte has come, and not before
(`OnlyWholeIsComplete`), because its length field is part of what has come.
`RoundsInv` says of a copied row that it is as recent as it was when the request was sent.
`ServesAsPromised` uses both: a handler's step changes registers as `RegisterServer`'s
`Serve` does for the decoded request, by a lemma for each kind of answer (`RefusalServes`,
`EchoServes`, `WriteServes`, `ReadServes`, `RowsServe`), and every other step leaves alone
what `RegisterServer` sees.

**`RowsStayInOrder`.** The file alone is not inductive. `Flow` is the file and, behind
it, what the event queue, the thread and the port hold. Reading, emitting and writing
leave the flow as it is; printing appends a row to it; clearing the file takes its
first rows. `FlowInv` says that it is in order and that the board's next row
continues it; `StartsInv` that measurements are asked for in growing order. Opening the
board's port takes the flow's last rows, which leaves a gap. `QuietInv` says that before a
read has failed there are none to take: a port no thread reads has not been used to start
the board. After a failure the flow is still in order, because every row in it has been
printed (`Printed`).

**`NoThreadIsLeft`.** `ThreadInv` says that while the window is open the board's thread has
its flag set, that it and the threads of other ports belong to the last connection or to
an earlier one, and that when the window is closed the last connection's has ended.

**`CountStaysFit`** needs no strengthening: strips and count change together or the
strips are off, which it takes all paths through `updateParameters` to see.

**`IndexStaysInArray`.** `Playable` requests have a frequency of at most the sample
rate (a period has a sample) and at least the lowest possible (it fits). The
invariant `IndexInv` says that the size is between 1 and `MAX_ARRAY_SIZE` as soon as the timer
may run, and the index below `MAX_ARRAY_SIZE`: a remainder by any such size is. Without
`Playable` it is not so (section 5).

**The hot plate's buffer.** `StatementInv` says which results go with which statement, and
with it no sample is ever negative (`PlateInv`). `BufferInv` follows the loops: below the loop
variable samples are generated, and in the second loop scaled; above it they are not yet
scaled (`FillInv`); the variable does not pass the size (`LoopInv`), which fits the buffer
when a wave is ready (`RoomInv`). The rest is that scaling is monotone in a sample, and
that a triangle's ramp rises and its fall falls, for all sizes and duty cycles.
CTIMER4's handler does not write the buffer, whatever its index.

**`BufferFillsLineByLine`.** `PlaceInv` says that characters come in the order of the lines
sent, with gaps where some were lost, and that what has not been read belongs to lines after
the one that ended last. `RoomInv` bounds, from any end of a line in the FIFO (or the
one read last) up to any later place, the characters that are stored by then: those in
the buffer and the FIFO, and the error GETCHAR will return if the overrun flag is set.
They are at most the characters of the last line before that place, and a longest line
for every end that is lost in between. That the error counts is why a lost character
must leave room, and why the flag being one bit helps.

`BufferHoldsLostLines` follows from the same invariant: a character is only stored where
`RoomInv` has room for it (`StoredInRoom`), and everything else leaves the index or zeroes it.

**`LinesAreReadBack`.** Three definitions are recursive: `Decimal`, the community
modules' `FlattenSeq` and the value of atoi's digits in `Number`. That each of these functions
exists and obeys its equation is shown once (`RecursionExists`): approximations that are
right below n agree, exist for every n, and together are the function. The induction over
the natural numbers is one over *sets* of numbers (`NatSetInduction`), which the
least element of a set of naturals gives. From the equations follow the layout of a line
(`TextIsLaidOut`: where each number starts and that a comma follows it, then the
strips, then the newline), that the newline is its only one and that there is a longest line
(`AllTextsAreLines`); then, with that line in the buffer, that the tokens begin where the
numbers do (`BeginIs`), that reading the digits of a number gives the number back
(`DecimalReadsBack`, `NumbersReadBack`), and that the strips token is the strips
(`StripsReadBack`).

**`ConsoleTypeCorrect`** is about all texts, garbled ones too. A token that strtok has
found begins inside the line (`TokenBegins`, by the number of tokens before a place), its digits
end at the Nul at the latest, and so its value is a natural number (`NumberIsNatural`).

**`WholeLinesAreTaken`.** `WholeInv`: as long as a line is whole, its characters in the FIFO
follow one another and continue what is in the buffer; `TakenInv`: when it has
ended the buffer holds it, and when it has been parsed the parameters are its own.

**Only model-checked.** Liveness (`EveryStripMeasured`, `DivisorRecovers`,
`ResultsRecover`, `EveryRequestAnswered`, `LastLineHandled`, `WavePlayed`,
`EveryRowWritten`, `WindowCloses`) rests on fairness and `ENABLED`, which TLAPS 1.4.5 does
not reason about. So does the liveness half of `StripRoundsSpec`. `AnswersVerify` is about
the bits of a checksum, in a module for TLC alone.

## 5. Where the code does not do what it says

Each is a run that ends in a counterexample; `PROJECT.json` quotes the lines.

1. **`mixed_round`.** A restart in mid-round resets the index but not
   `Total_adc_summation`. The first round after it divides the sum of more
   windows than strips: in the run one window of the old measurement and one of the new
   divided by 1, so that the current is too high and the resistance too low.
2. **`overrun`.** A write of two registers has 13 bytes. When it arrives while nobody
   empties the FIFO, the FIFO keeps 8 and the next byte sets the overrun flag. `main()`
   reads the 8, finds the flag, and drops them. Bytes of the same write that arrive after
   that (in the run the last four, while the CHECK lines are printed) become the start of
   a frame that the next request's first bytes complete. The rubbish is handled, as its
   CRC is not compared.
3. **`plate_raw`.** The generators write full-scale samples into the buffer that is
   being played and scale them afterwards.
4. **`gui_old_rows`.** The file is cleared after the new parameters are sent, but rows
   of the old measurement are still under way and end up in the new file.

Further disagreements the models contain, without a run of their own:

- The first window of a measurement averages 29 results (`adc_16_strip.c:381`
  divides before the last has come); `GUI/resistance_data.csv:2` shows it: 8739
  for the first row, 9039 for the others of its round. `WindowsBelongToStrip`
  admits it.
- During a restart a tick may read `active_strip_indices` beyond what has been
  allocated and filled (`adc_16_strip.c:387`); `IndexWithinAllocation` is
  therefore only claimed for a single measurement, and again when `main()` is done.
- With a byte read there that is no strip, lines 393 and 394 store a value and a time
  up to 2 KB behind `V_sens_strip_values`: over `resistance_array`, which `global.c`
  defines next, `g_strip_count`, or whatever else the linker has put there. It takes a
  window that closes between the first strip counted and the reset of the index, or one
  after a plate that was refused has left an old list with a new count, or over Modbus a
  strip count of 0. What follows such a store is not
  modelled: no property or theorem about restarts claims anything of it.
- During a restart the old measurement's tick may move the multiplexer after
  `initialize_mux()` has selected the first strip (`main.c:229`): the first window
  is then taken on another channel.
- A line that does not parse has switched all strips off by then (`main.c:361`);
  their old resistances go on being printed. So does the empty line that a sender
  of CR LF produces.
- The register of active strips is 8 at start-up (`modbus.c:9`), which is strip 4,
  while no strip is active (`global.c:47`). The first write of any other register
  switches strip 4 on.
- `Modbus_DataErrorPresent` is never called and returns the opposite of what its
  comment says. An excitation voltage outside 0.5 V to 1 V is therefore stored, answered
  as if it were applied, and switches the excitation off (`ExcitationAsAsked` says so).
- Nothing refuses a hot plate frequency above 25 Hz, which a Modbus write may set: the
  buffer has no samples, the remainder by 0 (`DAC_micro_hot_plate.c:84`) is the index
  plus one, and the handler walks out of the array.
- A byte count of 248 or more makes the expected length larger than the receive
  buffer: bytes are dropped and nothing is answered until an overrun (`modbus.c:73`).
- A line sent to the console while rows are printed loses characters, and the PC program
  sends every line after the first at such a risk. What is left may parse as something
  else: fields merge, GETCHAR's error is stored as a character, and the strips are read
  behind the end of a short token (`main.c:104`). A wave type or a frequency garbled that
  way makes `main()` return (`main.c:372`), and the board takes no request until it is
  reset, while the interrupts of the old measurement go on. `TakenAsSent` is about lines
  that come whole.
- Connecting again leaves the first thread running; closing the window stops the newest
  only, so the first keeps the program alive (`NoThreadLeft` exempts it).
- A reader thread that ends with a `SerialException` tells nobody (`test_gui.py:36`): a
  start goes out to the board all the same, and its rows are lost until the user connects
  again. `EveryRowWritten` exempts it (`failed`).
- `desiredAmplitude / OPAMP_GAIN` divides integers (`DAC_micro_hot_plate.c:15`): 20 V
  comes out as 14 V, and 28 V as samples of more than 14 bits.
- The size of the hot plate's buffer is set before it is capped and before the
  frequency is refused (`main.c:191-199`). A frequency of 1 mHz, which Modbus register 2
  may hold, makes it 25000 for some instructions; a tick of CTIMER4 in between at the
  end of a full buffer moves the index outside. `plate` therefore has a refused
  frequency whose period still fits, and the theorem asks for `Playable`.
- With a measurement running, the PC program clears the file before it validates
  its inputs (`test_gui.py:470`): a start that is refused has deleted the data. The
  variable `cleared` keeps `EveryRowWritten` from claiming otherwise.

## 6. What is not modelled, and why

- *Formats of numbers*: the console's floats have a point and decimals; `Console` has
  naturals. What a lost point does to a value is what a lost digit does.
- *Milliseconds* of the timestamp: only from which start they count.
- *`ResetAllPeripherals`, `ProcessMuxControl`*: never run.
- *The multiplexer's ENABLE pin*: `InitMuxGpio` drives it low at every restart and
  `EnableMux` high again (`gpio_for_mux.c:30`, `65`), so a conversion of the old measurement
  in between is of no strip. Where results were taken is only asked, by
  `WindowsBelongToStrip`, in a single measurement, whose timer is started afterwards.
- *What a stray store has overwritten* (section 5): the model ends there.
- *A lost update of a sum* by a tick that falls between an ADC handler's load and store is
  in the model and in the run `late`, but no property forbids it.
- *Values of currents and voltages*: arithmetic of one expression; what the models
  keep is which results enter it and what it is divided by. The PC program's pattern
  (`test_gui.py:539`) would not accept a negative one.
- *A receive buffer filled to its end* by a Modbus byte count of 248 or more: described in
  section 5; the instances' frames are shorter.
- *Lines from another port than the board's*: a device there could write into the file.
- *Two threads on one port*, when the PC program connects twice and the system lets it:
  they would share the bytes of each row, and the file would get fewer rows.
- *A row printed in the middle of a line of `main()`*: the PC program does not recognise
  it. It happens to rows of the measurement being replaced.
- *Power-on order*: the power source's pin is read (`main.c:332`) before it is
  configured (`main.c:126`); `ModbusFlag` is either value.
- *Widgets, validation of inputs, plot and download* of the PC program: no state the other
  parts see.
- *Vendor drivers, SDK, build files, style sheets*: external, modelled from their use.
  They are nearly all of the repository's lines (several millions of device headers and
  drivers); the project's own code is some 2400 lines of C and Python, nearly all of
  whose state changes are mapped.

## 7. Plan

Done: sampler with control and timestamps, Modbus server with its checksum and the
excitation voltage, console, hot plate, PC program; abstract specifications of
the sampler and of the server, with the proofs that their safety is implemented; the
theorems of section 4. To come:

1. *Compose* the writes of `ModbusServer`, and the lines of `Console`, with the requests
   of `Measurement`, whose interface today is `Receive` on one side and `InitRest` or
   `InitializeAllPeripherals` on the other.
2. *Prove* that the excitation voltage and the sample buffer never leave the DACs' ranges for requests within their limits.
