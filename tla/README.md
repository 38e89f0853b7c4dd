# A TLA+ model of the ESP32-P4 HAL test binaries

The repository is a set of bare-metal Rust programs (`src/src/bin/*.rs`), each
of which exercises one block of the ESP32-P4 and logs a verdict, a small shared
library (`src/src/lib.rs`), and shell scripts that build, flash and judge them
(`src/run_tests.sh` and helpers). A test program is only worth what its verdict
says, so most properties here have that form: *PASS is earned*, *FAIL is not a
false alarm*, *the program gets to its verdict*. Paths below are relative to
`src/`; `bin/` stands for `src/bin/`.

## 1. The system

| Part | State | Operations | Works with |
| --- | --- | --- | --- |
| Host runner (`run_tests.sh`) | log file, counts of a group | `run_group`, `run_one` (capture under `timeout`, then grep) | the board, over the serial log only |
| Shared library (`src/lib.rs`) | GPIO23's routing, enable and level; a heartbeat counter | `signal_pass`, `signal_fail` (never returns), `park_alive` (nor does it), `delay_ms`, `busy_delay` | every binary; time |
| PSRAM shmoo (`bin/test_psram_shmoo.rs`) | IOMUX phase and delayline, chip mode registers, MSPI0 dummy, LDO trim, grids | five sweeps, restores, selection, final access | PSRAM chip through MSPI1, cache through MSPI0 |
| PRBS fill (`bin/test_psram_prbs_fill.rs`) | chosen window, LFSR state, mismatches | probes, decision, fill, verify | PSRAM through the write-back cache or the bypass window |
| DMA mem2mem (`bin/test_dma_mem2mem.rs`) | one source and one destination buffer, one descriptor pair, three channels | fill, reset, start, bounded poll, verify | the AHB DMA engine, concurrently |
| UART loopback (`bin/test_uart_loopback.rs`) | TX and RX FIFOs, received bytes, spin counter | configure, polled write and read | UART1 and a jumper wire, concurrently |
| I2C bit-bang (`bin/test_i2c_wire_w_logicpro.rs`) | two open-drain lines, samples, `all_ok` | start, restart, stop, write/read bit and byte, five iterations | the ES8311 codec, concurrently |
| Pin mapper (`bin/test_pin_mapper.rs`) | output bits of 22 pins, tick | blink, tick loop, gap | the bench's wires, two pairs of which are shorted |
| Watchdog (`bin/test_wdt.rs`) | LP_WDT enable, write protection and count | check, unlock, enable, lock; five feeds; PASS; then none | the chip's reset, which runs the binary again |
| CAN frame (`bin/test_twai_canframe_w_logicpro.rs`) | two bounded bit vectors, CRC register, run of equal bits, the pin | `build_unstuffed`, `can_crc15`, `apply_stuffing`, `emit_frame`, five iterations | the analyzer, which may start at any bit |
| Bit-banged UART, matrix fan-out, PWM and other `_w_logicpro` generators | pin levels, deadlines | output loops | the analyzer |
| `bin/test_all.rs` | pass and fail counts | 14 sub-tests, one verdict | most blocks of the chip |
| Register and errata tests (the other binaries) | none beyond the chip's registers | read, assert, print | the chip |
| `build_all.sh`, `check_setup.sh`, `monitor.sh` | none | build, check tooling, copy the port | the host |

Nothing in these programs runs under an RTOS and no interrupt is used.
The concurrency is between one polling CPU and the hardware beside it: a DMA
engine that may finish after the CPU gave up, a UART that delivers at its own
pace, a codec that follows the edges of a bus, a cache that evicts when it
likes, and a host that cuts the log at any line.

### What is hard

`PROJECT.json` lists every hazard at its line. The ones that shaped the models:

* **hardware that does not do as told**: a DMA engine that copies wrongly, a
  memory that loses words, a controller that faults or hangs at an access, two
  outputs driven against each other - what the tests exist to find, and what a
  model of them must not leave out;
* **late hardware**: the DMA poll gives up but does not stop the channel
  (`bin/test_dma_mem2mem.rs:116`), and all channels share the buffers;
* **stale state**: mode registers read-modified-written at whatever point the
  last sweep left (`bin/test_psram_shmoo.rs:377`), FIFO contents of an earlier
  run, cache lines that answer for the chip, a log of an earlier test;
* **restores**: five sweeps share six registers, and each relies on what the
  ones before put back;
* **reset in the middle**: the board is re-flashed while the codec drives SDA;
* **partial failure**: an SPI transaction that times out is not an error, so a
  restore may be half done and a register read as zero
  (`bin/test_psram_shmoo.rs:343`);
* **a race with time**: the feeds, behind a write protection, against the
  watchdog's expiry, which goes on counting while the LED blinks
  (`bin/test_wdt.rs:72`, 82);
* **boundaries**: the centre of a passing run, ties between rows, the last tick
  of a pulse train, a stuff bit due after the last bit of the CRC, the capacity
  of the two frame vectors, the heartbeat's wrap.

## 2. Modules

| Module | Models | Composition |
| --- | --- | --- |
| `Eye` | grids; `IsChoice`, what a selection promises | extended by the next two |
| `EyeSelect` | `select_best_phase` and `select_best_delayline`, one loop iteration per step | implements `Eye!IsChoice` |
| `PsramShmoo` | `main()` of the shmoo | uses `Eye!IsChoice` for the selection `EyeSelect` is proved to make; `PsramShmoo_proofs` extends both |
| `DmaCopy` | what the DMA test promises: one independent test per channel, without buffers or polls | abstract specification |
| `DmaMem2Mem` | the CPU and one engine process per channel | implements `DmaCopy` (`RefinesCopy`, through `INSTANCE DmaCopy WITH` the mapped variables) |
| `TestLogs` | the marker lines each binary can print | data of the next |
| `TestRunner` | `run_tests.sh` and the board | extends `TestLogs` |
| `UartLoopback` | the CPU, UART1 and the wire | its verdicts are `TestLogs!UartLoopbackRuns` |
| `I2cBitbang` | the CPU's line changes and the codec | stand-alone |
| `PsramFill` | the CPU, the cache and the chip | stand-alone |
| `PinMapper` | the tick loop and the wires | stand-alone |
| `SharedLib` | the functions of `src/lib.rs` and the time they take | extended by the next |
| `WdtTest` | `test_wdt` and the ends of the other binaries, with the watchdog | calls `SharedLib` |
| `CanFrame` | sender, wire and a CAN receiver | stand-alone |
| `*_proofs` (eight) | theorems about `PsramShmoo` with `EyeSelect`, `DmaMem2Mem`, `TestRunner`, `UartLoopback`, `WdtTest`, `CanFrame`, `PsramFill`; `Gpio_proofs` about `PinMapper` and `I2cBitbang` | extend their modules |
| `MC*` | values of the constants for TLC | extend their module |

An operator whose comment begins *Mutant of* is a plausible bug in the
definition that follows; no action uses it. It records what a property is able
to detect.

### How state and actions correspond to the code

**EyeSelect.** The variables are the locals of the two functions (`best_len`,
`cur`, `longest`, `longest_end`; `cur_end` always equals `i` where it is used).
The doc line of `select_best_phase` speaks of the "longest passing run", the
code counts passes; `Eye!IsBestPhase` follows the code.

**PsramShmoo.** `stage` is the position in `main()`, one step per grid point.
`eye` is the set of points where the chip's answers are sampled correctly; it is
arbitrary and fixed. A mode-register read outside the eye, or at a read latency
the fixed MSPI1 register dummy is not for, returns anything of three values:
what the register holds, zeros, ones. `clean` remembers whether every such read
that matters was right. Grids 2 to 5 are swept in full, registers and all, but
their outcomes are only printed and are not kept. Bring-up of the PHY and the
flash probing before the defaults are saved are not modelled. A transaction that
times out (`bin/test_psram_shmoo.rs:343`) is dropped by the code, not reported:
a read then returns zero, a write may or may not take effect, and
`test_one_point` returns false. Any transaction of any step may time out, up to
`MaxDrops` in all; `lost` and `clean` are histories of it. The latency at boot is
taken to be the one the MSPI1 dummies are for; a chip booted otherwise passes no
point at all.

**DmaMem2Mem.** The CPU's program counter follows `dma_mem2mem_test`, one step
per byte in the fill and verify loops and one per poll. Each engine has a read
side (`EngineRead`), a FIFO of bounded depth, a write side and an end-of-frame
step; any of them may be delayed past the time-out or for ever. `Reset` empties
a channel, as the `out_rst`/`in_rst` pulses do. The engine is an external part:
it may write any byte in place of the one it read, since finding that is what the
test is for. The history `bad` keeps the offsets it got wrong. A byte it never
writes is one it wrote as the zero of line 70, wrong unless the pattern is zero
there. `DmaCopy` says what should come of
it: the channels are judged one by one, an engine that is armed delivers or spoils
its copy, a channel is given up only before its engine has ended and compared only
after, and what the comparison finds is its own engine's copy unless an engine
that was given up has meddled. The refinement maps `engine` from the engines' end-of-frame, `result` from the CPU's
records and `verdict` from its program counter (the operators before
`RefinesCopy`).

**TestRunner, TestLogs.** A run of a binary is the sequence of markers it
prints, whether it was faulty, and how it ends. The runs are read off each
binary's prints, assertions and returns. The capture may be cut at any line.
grep looks at a whole file, so the log is a set of markers. `LogsAssumption`
states what the soundness of PASS rests on in the table of logs - where DONE is
printed, and that no faulty run satisfies the greps; TLC evaluates it.

**UartLoopback.** The FIFOs start with a leftover byte or none. `Transfer`
moves a byte over the wire at any time; `Disturb` loses or corrupts it if the
wire is faulty. The unbounded wait for `reg_update` (line 182) is assumed to
end, which it does once the UART is clocked.

**I2cBitbang.** The place in the program is `call`, `bit` and `step`: which of
the calls of `main()`'s loop the CPU is in, the clock pulse of that call, and what
comes next in the pulse. A START, restart or STOP is one pulse, a byte written or
read is nine. `SdaOut` is the level the CPU gives SDA in a pulse, `Op` the line it
moves next and `Advance` the place after that. The codec follows edges. It moves
SDA between a falling and the next rising edge of SCL, the assumption the 5 us
half-bits make safe. Two histories serve the properties: `log`, what the codec saw
and did in this iteration, and `served`, the iterations in which it was asked for
CHIP_ID1.

**PsramFill.** One cache line is one word. The fault, if any, is chosen at the
start: a chip that stores nothing, a stuck address line, or a controller that
neither refills nor writes back. Such a controller may also stop the CPU at any
access (`Stuck`): a bus fault, which ends in a panic, or an access that is never
answered (`bin/test_psram_prbs_fill.rs:79-84`, 215, 258). The PRBS word is abstracted to its index: what
matters is that all words differ and that writer and reader agree.

**PinMapper.** One step per pin written. `edges` counts the rising edges a
logic analyzer would see on each wire. The pins are push-pull outputs: a wire that
one of them pulls up and another down is `Contended`, and its level is either.
`won` holds the contended wires that read high; it is chosen anew whenever an
output of the wire changes, and keeps until then. A level that wavers during a
fight, and so counts any number of edges, is left out.

**SharedLib, WdtTest.** The library busy-waits, so a call is a *frame* the CPU
stays in (`frame`), and `age` counts the ticks since its last step. Every step
takes at most `Lag` ticks more than it asks for; `Due` says when it must be over.
`pin` is the four registers of GPIO23 with whatever the test made of them
(`Body`); `Lit` is what the pad shows. `WdtTest` gives the board a binary:
`test_wdt`'s `main()` as a program of calls, or one of the six ways the others
end: a PASS printed after the signal, before it, or without one; a signal without a
PASS (a test that is skipped); a FAIL with the LED lit; and a FAIL that parks with
the LED as it was. A body may also end in a panic. One `Tick` moves the delays and the watchdog alike; `Bite` is the reset of
stage 0, after which the same binary starts again. The registers of the watchdog
ignore a write while they are protected, `esp_hal::init()` may leave it on under
any binary, and it may be dead. Printing is part of the time of the call before it.

**CanFrame.** `build_unstuffed`, `can_crc15`, `apply_stuffing` and `emit_frame`
in the source's order, one step per bit where the code loops. The two vectors
have the source's capacities, and a push beyond them ends in `panic`. A bit's
8 us are one step: the code keeps them by absolute deadlines. The receiver (`Ear`, external) follows
ISO 11898: eleven recessive bits, start of frame, destuffing, the ten bits after
it. It may be switched on at any bit. Nobody acknowledges, as on the bench.
Two histories serve the properties: `taken` holds, for each bit pushed, how many
input bits had been taken by then, `quotient` the bits that `can_crc15` feeds back,
which are the quotient of the division.

## 3. What the runs check

All bounds are in the `.cfg` files and the `MC` modules.

| Run | Instance | Shows |
| --- | --- | --- |
| `eye` | every grid of 2 x 6 cells (4096) | `SelectionCorrect`: the scans return the first row with most passes and the right-of-centre cell of its first longest run. `AppliedPointHasMargin`: an applied point has passing neighbours. `IInv`: the loop invariant |
| `dma` | 3 channels, 2 bytes of 3 values, FIFO of 1, 2 polls, engines that write any byte | `RefinesCopy`: wrong copies, late engines and shared buffers notwithstanding, the test is one test per channel. `PassMeansAllDelivered`; `NoFillUnderLiveEngine`: refilled under a live engine only after a time-out; `EventuallyVerdict`; `IInv`: until the first time-out, a channel that is compared is good exactly if its own copy was |
| `shmoo` | every eye of 2 x 4 points, 2 drives, 2 latencies, 2 supplies, a time-out anywhere | `ProbeInsideEye`: the final access runs inside the eye, with its neighbour. `Restored`: supply, latency, dummy and mode registers come back. `LatencyInStep`: chip and controller change latency together. `IInv` |
| `runner` | five binaries, one of each kind of ending | `PassIsSound`: PASS only for a complete, fault-free run. `IInv`: each test counted once, under its verdict. `EventuallySummary` |
| `uart` | 4 bytes, TX room 2, 2 spins, faulty wire | `PassMeansRoundTrip`: the pattern crossed the wire unaltered since the FIFO reset. `ReadsWhatWasWritten`: over a wire that disturbs nothing it reads what it wrote, from the first byte on, and nothing left over. `EventuallyVerdict`. `IInv`: among others, nothing is read twice |
| `i2c` | 3 iterations, 2 resets, 5 kinds of codec, real bytes | `PassMeansRegisterRead`: the codec was asked for CHIP_ID1 in every iteration, also if a reset left it sending. `SoundCodecPasses`, with the transcript of the header. `BusFreeBetweenIterations`: one iteration ends a transfer a reset cut. `DataValid`: SDA is stable while SCL is high. `I2cInv` |
| `fill` | 8 words, cache of 3, 2 probed | `PassMeansStored`: the memory stored every word. `SoundMemoryPasses`. `EventuallyVerdict`: a verdict, unless a broken controller faults or hangs. `IInv`: what a probe left in the cache cannot answer for a word of the fill |
| `pinmap` | the real candidates and shorts | `CountsWithinPins`: at the end of a cycle the edges of the wire of one pin are its number, those of a shorted wire between its two. `FightsOnlyInTail` (see 4). `IInv` |
| `board` | seven kinds of binary, ticks of 50 ms, the source's delays, feeds, blinks and time-out, a heartbeat counter of two bits | `NoEarlyReset`: no reset before PASS. `PassMeansFed`: every feed reached the watchdog. `ResetComes`: after PASS a working watchdog resets the board. `LedShows`: the LED shows the signal that was given. `HeartbeatGoesOn`, across the wrap, unless init left a watchdog counting. `IInv` |
| `can` | 23 frames, among them the source's, 5 iterations, a receiver switched on anywhere | `HeardIsSent`: what is heard decodes to the frame sent and, CRC included, is a multiple of the generator. `EveryFrameHeard`: never a stuff or form error, the middle of a frame is never taken for its start, and only the frame in progress is missed. `IInv`: no six equal bits, no panic |

`runner_healthy` and `uart_sound` are the subject of section 4.

Why the bounds are enough. Two rows give ties, and six cells give two separate
runs of two, and runs of every length at both ends of the row. Three channels
give an engine that is late by one and by two tests; a FIFO of half the transfer
lets an engine stop with bytes read and not written, and three byte values let a
wrong byte be the right one of another channel. Two drive, latency and
supply values make "restored" differ from "left at the last point", and eyes
that miss every register point are included. Four UART bytes are enough for
the stray byte, a lost one and a shifted rest; the TX room of two makes the
writer wait. The cache of three holds neither half of the fill, which is the
source's situation (4 Mi words against a cache of a few hundred kilobytes); the
assumption of `PsramFill` asks for it, since a smaller fill proves nothing (its
mutant `FillCacheSized` shows that). Three iterations follow a disturbed one
with two clean ones. One time-out (`MaxDrops`) is enough to lose any single
step of a restore in every eye; the proof covers any number. A tick of 50 ms
leaves the CPU a `Lag` of one tick over every step, far more than the 200000
spins of half a blink take, and still feeds in time; two bits of the heartbeat wrap as 32 do. The
frames of `can` are chosen for their stuffing: a stuff bit after the last bit of
the CRC, twenty stuff bits, one that begins the next run, all equal bits. A gap of
eleven bit times is the least a receiver can synchronize in; the code's 200 ms
are longer. The `runner` group has one binary of each kind of log; what a PASS
rests on is checked of every log by `LogsAssumption`.

### Fairness

Only the step of the CPU is fair in `DmaMem2Mem` and `TestRunner`: an engine may
stop for ever and a board may fall silent, and the bounded poll and `timeout(1)`
still give a verdict. In `UartLoopback` the transmitter drains as well, since
`uart1_write_byte` waits for room without a bound. In `PsramFill` an access to a
full cache needs an eviction, which is fair. In `WdtTest` the CPU runs
and time passes: neither waits for the other for ever. `I2cBitbang`,
`PsramShmoo`, `CanFrame` and `PinMapper` are loops with fixed bounds (or for
ever), checked for deadlock and safety only.

## 4. Where the code and its documents disagree

Two runs are expected to fail; each checks a statement of the repository.

* `runner_healthy`: a success log holds no fail marker (`TEST_OUTPUTS.md:10-11`,
  `17-18`). `test_psram` prints "0 / 1024 words mismatched"
  (`bin/test_psram.rs:236`) and `run_tests.sh:107` greps `mismatch`.
* `uart_sound`: 16 of 16 bytes match over a sound wire
  (`bin/test_uart_loopback.rs:18-25`). The diagnostic byte of line 295 comes
  back first. `ReadsWhatWasWritten` is what the test really reads: the pattern
  begins with another byte, so that only a wire that loses or garbles one can
  make it pass.

Seen while reading, not the subject of a run of their own:

* "preserving MR1 byte" (`bin/test_psram_shmoo.rs:375`): the byte written back
  was read at a point that may be outside the eye, so MR1 is preserved only
  while every such read was right. `Restored` says it of a clean sweep.
* Shorted outputs "never *fight*" (`bin/test_pin_mapper.rs:37-39`): GPIO20 is
  held low after tick 40 while GPIO22 is still pulsing high. It happens only
  between the two writes of one tick and after the smaller pin's last pulse
  (`FightsOnlyInTail`), which is exactly where the larger pin emits the pulses
  that tell it from the smaller one.
* "The per-channel total is `gpio_a + gpio_b`"
  (`bin/test_pin_mapper.rs:41-45`): the trains start together and rise in the
  same ticks, so that a shorted wire counts no more than its larger number. How
  many of the last pulses are seen depends on who wins each fight: GPIO20/22 may
  count 20, 21 or 22, of which 21 names a pin that is not on the wire, and
  GPIO48/53 anything from 48 to 53 (`CountsWithinPins`).
* The LED does not show every verdict, against "tests that fail hold LED steady
  on" (`src/lib.rs:14-15`) and `TEST_OUTPUTS.md:10-11`. `test_uart_loopback`
  (330-334), `test_psram_prbs_fill` (294-302) and others print FAIL and park with
  the LED as it was; a panic halts the same way; `test_rom_crc_md5` (140-148)
  never signals; `test_errata_mspi750` (54-58) signals a pass when it is skipped.
  Some print PASS before they signal (`bin/test_uart_loopback.rs:328-329`,
  `bin/test_psram.rs:244-248`, `bin/test_dma_mem2mem.rs:179-183`,
  `bin/test_psram_prbs_fill.rs:292-293`), others after. `LedShows` therefore
  speaks of the signal given, not of the verdict printed.
* `bin/test_wdt.rs:83` prints PASS before the reset that is under test, so that
  a watchdog that does not count passes as well; `ResetComes` needs `~dead`.
* `bin/test_psram_shmoo.rs:932` prints "no passing point in shmoo grid" also
  when points pass but no two are adjacent in the chosen row.
* `bin/test_psram_shmoo.rs:737-740` explains failures of Grid 3 by a mismatch
  of chip and controller; the transfers are MSPI1's, with a constant dummy
  (line 246), so every latency but the default fails.
* `bin/test_psram_shmoo.rs:870` sweeps to about 2.12 V, above the 2.0 V of lines
  407-411.
* `README.md:52` lists `CONFIRMED` as a pass marker; `run_tests.sh:104` does not
  look for it. `timeout!` is a fail marker in `TEST_OUTPUTS.md:18`; in
  `run_tests.sh` it prevents PASS without counting as FAIL.
* No binary of the basic group prints `DONE`: each is INCONCLUSIVE at best.
  `test_all` prints the word FAIL in its result line whatever the count.
* `bin/test_systimer_corner.rs` runs for more than 10 s; the default time-out is
  10 s.
* `bin/test_gpio_all_pins.rs:54` and 56 write the registers that, per
  `src/lib.rs:43`, clear output enables.

## 5. What is proved

`tlapm` checks these for every value of the constants that satisfies the
module's assumption.

**EyeSelect, in PsramShmoo_proofs** (`EyeAssumption`: at least one phase and one
delayline). `SelectionInv` is `ScanTypeOK` and `ScanInv`. Correctness at the end is
not inductive: it needs to know after every iteration what the best-so-far is best
*of*. `PhaseScan` says that of the rows before `id`, and `DelayScan` that the
current run is maximal to the left, that `longest_end` ends a run of length
`longest`, and that no run in the scanned part is longer and every earlier one is
shorter. One lemma per action shows that it is kept. `SelectionIsCorrect` and
`AppliedPointMargin` follow at `pc = "done"`.

**DmaMem2Mem_proofs** (any number of channels, transfer size, poll limit and
FIFO depth, whatever bytes the engines write). `JudgedByItsCopy` relates what is
recorded of a channel to the bytes its own engine got wrong, and to the history of
other channels. It needs three parts: `Progress` (where the CPU is and what it has
recorded), `Engines` (an engine is untouched before its turn and has delivered
everything once its EOF was seen, or its channel timed out) and `Data` (as long
as nothing timed out, the source holds the current pattern and the destination
differs from it exactly where the engine was wrong). Each
part is shown to be preserved by a lemma of its own, by cases on the CPU's
actions and the engine's. `ResultsAreJudged`, `BuffersAreOwned`, `PassIsEarned`
and the action property `FillIsSafe` follow. `ImplementsCopy` is the refinement:
under the invariant, the initial states are initial states of `DmaCopy`, and each
action is one of its actions or a stutter.

**PsramShmoo_proofs** (any grid, sweeps, eye and number of time-outs, any boot mode
register of the latency MSPI1 is set for). `IInv` has a part for each thing that must survive five sweeps:
`LoopInv` and `Grid1Inv` (what Grid 1 has measured so far), `BootInv`,
`SupplyInv`, `CleanInv` (if nothing went wrong so far, the MR0 saved is the boot
one) and `LatencyInv` (chip and controller agree unless the last write was lost).
`Grid1Correct`, `ProbeIsInsideEye`, `RestoredCorrect` and `LatencyIsInStep`
follow; the second also uses that `Eye!IsChoice` has margin.

**TestRunner_proofs** (any group of the binaries in `TestLogs`). `LogInv`
describes the log as what the binary flashed last has printed; that a PASS is
earned then follows from `LogsAssumption`, a statement about the finite table
`Runs` that TLC evaluates. `CountsAreVerdicts` needs the cardinality of the tests
that have a verdict, one more per step.

**PinMapper, in Gpio_proofs** (any candidates, any disjoint shorted pairs). `Levels` says
which pins have the level of this tick and which that of the last one; `Counts`
relates the edges of a wire to the tick and to the level it is at: exactly while all
its pins pulse, from both sides once they fight, each fight adding one edge or none.
Nothing is assumed of who wins. `CountsAreWithinPins` and `FightsAreInTail` follow.

**I2cBitbang, in Gpio_proofs** (any number of iterations and of resets, any of
the codecs). A codec that a reset caught sending can acknowledge all three bytes
of the next iteration, each time with a zero of something else; that it never
makes a false PASS is the argument that takes most of `I2cInv`. `LineInv` says how
the CPU left the lines at each place, `CodecInv` what the codec's mode makes of SDA
by itself. `PhaseInv` relates the two: a codec that takes bits takes the CPU's
byte from its first bit; one caught sending may be at any other bit and goes on for
as long as its acknowledge falls on a zero of the CPU's, which ends in `id1`, where
the CPU releases SDA. `FirstInv` follows the register pointer along the transfer:
only a codec that took it in this iteration sends CHIP_ID1 in `id1`. What a caught
one sends there is another byte (`StaleInv`), and no tail of one, followed by the
ones of a released line, reads as CHIP_ID1 (`IdInv`, lemma `StaleTail`).
`LockInv` holds the other direction: on a free bus a sound codec is in lock-step
with the CPU, its log the transcript so far. `VerdictInv` sums up the iterations.
There is one lemma per step of a pulse and, for the falling edge, one per mode of
the codec. `I2cInvariant`, `PassIsARegisterRead`, `SoundCodecIsPassed`, `BusIsFree`
and the action property `SdaIsStable` follow.

**CanFrame_proofs** (any identifiers and data, any capacities that hold the frames,
any number of iterations and any gap of eleven bit times or more). `IInv` has four
parts. `SendInv` holds the loop invariant of `apply_stuffing`: `run` and `last`
describe the end of what was pushed, and every stuff bit took at least four bits of
input since the one before, which is why the capacity of 192 is enough;
`StuffingCorrect` follows. `CrcInv` says that the input read so far, times x^15, is
the quotient times the generator plus the register: one more quotient bit adds
itself at eight shifts (`NextProduct`), and those are the exponents in `0x4599`.
`CopyInv` says that a bit of the output repeats no input bit exactly when it comes
after five alike. `EarInv` ties a receiver to the bit last on the wire: inside a
frame it has read the input up to where that bit was taken from, and it counts the
same run (`RunFive`), so that it drops the stuff bits and no others; one that waits
has counted recessive bits, and eleven of them cannot be part of a stuffed frame.
It knows the end of a frame from the DLC in its header (`WholeFrame`,
`PrefixRead`). `FramesAreHeard` follows, and `FramesAreRead`: the identifier and the
data decode to the source's (`DecodedFrame`), and what was read is a multiple of the
generator.

**PsramFill_proofs** (any fill more than twice the size of the cache, any eviction
order, any fault). A word is *held* when neither a hit nor a miss can return
anything but what was written there, and *doomed* when neither can ever return it
again. Evictions never change what the CPU reads (`EvictInv`). That a PASS through
the cache is about the chip rests on a count (`SomeDoomed`): the cache holds fewer
words than half the fill, so whatever the fault, some word of the fill has neither
its own line nor that of its twin (the word a stuck address line folds onto the same
cell) cached when the fill ends; that word is doomed, and reading it shows a
mismatch. `ProbeInv` says what is cached and counted before the fill, `PathInv` which
window can be chosen under which fault, `StoreInv` which words are held in working
memory and that broken memory leaves a doomed word or has shown a mismatch.
A CPU that is stopped at an access leaves all of it as it was (`StuckInv`).
`PassIsEarned`, `SoundPasses` and `ResidueIsGone` follow.

**WdtTest_proofs** (any number of feeds and blinks, any delays and time-out of
`WdtAssumption`). That a fed board is not reset is an argument about time:
`InTime` bounds, at every place of the program, how far the watchdog's count may
be ahead of the time spent in the current step, and `QuietBeforePass` adds the
time that step may take. What the assumption asks is what comes out as needed:
`FeedDelay + 5 Lag` and `(2 Blinks + 3) Lag` below the time-out, the second for
the blinking between the last feed and PASS. `WdtInv` knows the key, the enable
and the number of feeds from the place alone; `LedInv` is `signal_pass`'s loop
invariant, and holds of any program that calls it. `NoResetBeforePass`, `PassIsFed`
and `LedShowsSignal` follow.

**UartLoopback_proofs** (any pattern that does not begin with the stray byte,
any TX room and spin limit, any wire). `IInv` is `TypeOK` and `Inv`. That the bytes
read are the bytes written is not inductive: `InOrder` follows every byte from the
TX FIFO over an undisturbed wire, `NothingReadTwice` from the wire to `rx_buf`, and
`Counted` bounds what is on the way by what was
written since the FIFO reset, which also bounds the RX FIFO. `DrainsInv` treats
a byte that arrives, is lost or is corrupted at once. `ReadsAreTheWire`,
`PassIsARoundTrip` and `ReadsAreInOrder` follow.

Only model-checked: the liveness properties, since the prover does not do fairness
or ENABLED (`EventuallyVerdict` of three modules, `EventuallySummary`, `ResetComes`,
`HeartbeatGoesOn`). Every invariant and every safety action property of a passing
run is a theorem. What `Eye!PassCount` counts, by `Cardinality`, is its definition;
no induction over data is needed in the proofs.

## 6. What is not modelled

The reasons are with each component in `PROJECT.json`. In short: straight-line
register reads (among them the fourteen sub-tests of `test_all`, which share no
state that a later one reads; their log is in `TestLogs`), host helpers without
state, output generators judged by eye on an analyzer - PWM, the matrix
fan-out and the bit-banged UART, one pin each against deadlines that are
arithmetic on constants -, electrical effects other than contention, and the
PHY bring-up and register dumps of the shmoo. Time is an order of events
everywhere but in `SharedLib` and `WdtTest`.

## 7. Plan

Done: every component that reaches a verdict through more than straight-line
accesses is modelled and checked; two abstract
specifications (`Eye`, `DmaCopy`) with their refinements; theorems about all ten
modules that are checked, and no safety property of theirs left to TLC alone.

What is left: an abstract register read for `I2cBitbang` (one transaction per
iteration, the codec as a register), with the bit-level module shown to implement
it; `LockInv` and `IdInv` are the invariant such a proof needs.
