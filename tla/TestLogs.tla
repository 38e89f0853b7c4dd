------------------------------ MODULE TestLogs ------------------------------
(***************************************************************************)
(* What the test binaries write to the serial port, reduced to the markers *)
(* the host looks for.  A run of a binary is a record: whether something   *)
(* under test was wrong (fault), the markers of each line that has any, in *)
(* order, and how the program ends: "park" (heartbeat for ever), "halt"    *)
(* (signal_fail, a panic or a hang) or "reset" (the watchdog reboots it).  *)
(***************************************************************************)
EXTENDS Naturals, Sequences

\* The strings run_one looks for, and CONFIRMED, which README.md:52 lists as a
\* pass and run_one does not look for.
Markers == {"PASS", "OK", "DONE", "FAIL", "mismatch", "ERROR", "timeout!",
            "could not compile", "CONFIRMED"}

RunType == [fault : BOOLEAN, lines : Seq(SUBSET Markers), end : {"park", "halt", "reset"}]

Good(lines, end) == [fault |-> FALSE, lines |-> lines, end |-> end]
Bad(lines, end)  == [fault |-> TRUE,  lines |-> lines, end |-> end]

\* A panic prints the assertion's message, which has no marker, and halts.
InitRuns == { Good(<<{"OK"}, {"PASS"}>>, "park"), Bad(<<>>, "halt") }

EfuseRuns == { Good(<<{"OK"}, {"OK"}, {"PASS"}>>, "park"),
               Bad(<<>>, "halt"), Bad(<<{"OK"}>>, "halt") }

\* "{} / 1024 words mismatched" is printed whatever the count.
PsramRuns == { Good(<<{"mismatch"}, {"PASS"}>>, "park"),
               Bad(<<{"FAIL"}>>, "park"),
               Bad(<<{"FAIL", "mismatch"}>>, "park"),
               Bad(<<{"mismatch"}, {"FAIL", "mismatch"}>>, "park") }

\* A bad SRAM cell near either end is printed and the test goes on to PASS.
MemoryBoundaryRuns ==
    { Good(<<{"OK"}, {"OK"}, {"OK"}, {"OK"}, {"PASS"}>>, "park"),
      Bad(<<{"OK"}, {"FAIL"}, {"OK"}, {"OK"}, {"PASS"}>>, "park"),
      Bad(<<{"OK"}, {"OK"}, {"FAIL"}, {"OK"}, {"PASS"}>>, "park"),
      Bad(<<>>, "halt"), Bad(<<{"OK"}, {"OK"}, {"OK"}>>, "halt") }

\* Feeding keeps the watchdog quiet, then it is left to reset the board.
WdtRuns == { Good(<<{"OK"}, {"OK"}, {"PASS"}>>, "reset"),
             Bad(<<{"OK"}, {"OK"}, {"PASS"}>>, "park"),
             Bad(<<{"OK"}>>, "reset"), Bad(<<>>, "halt") }

\* Stale reads on a chip that should be fixed are reported without a marker.
Mspi750Runs == { Good(<<{"CONFIRMED"}, {"DONE"}>>, "park"),
                 Good(<<{"DONE"}>>, "park"), Good(<<>>, "park"),
                 Bad(<<{"DONE"}>>, "park"), Bad(<<>>, "halt") }

Mspi751Runs == { Good(<<{"CONFIRMED"}, {"DONE"}>>, "park"),
                 Good(<<{"DONE"}>>, "park"), Good(<<>>, "park"),
                 Bad(<<{"ERROR"}, {"DONE"}>>, "park"), Bad(<<>>, "halt") }

Mspi749Runs == { Good(<<{"DONE"}>>, "park"), Bad(<<{"DONE"}>>, "park") }

\* A stalled bus hangs the CPU at the access.
Apm560Runs == { Good(<<{"OK"}, {"OK"}, {"DONE"}>>, "park"),
                Bad(<<>>, "halt"), Bad(<<{"OK"}>>, "halt") }

Dma767Runs == { Good(<<{"OK"}, {"OK"}, {"DONE"}>>, "park"),
                Bad(<<>>, "halt"), Bad(<<{"OK"}>>, "halt") }

\* Each channel prints OK, a timeout, or its mismatches; main() then prints
\* PASS and DONE, or FAILED and halts in signal_fail().
ChannelLine == {{"OK"}, {"timeout!"}, {"mismatch"}}
DmaMem2MemRuns ==
    LET AllOk == [c \in 1 .. 3 |-> {"OK"}]
    IN  { Good(AllOk \o <<{"PASS"}, {"DONE"}>>, "park") } \cup
        { Bad(lines \o <<{"FAIL"}>>, "halt") :
              lines \in [1 .. 3 -> ChannelLine] \ {AllOk} }

\* The byte sent before the pattern makes a sound wire fail; only a wire that
\* loses or garbles one can pass (UartLoopback!ReadsWhatWasWritten).
UartLoopbackRuns == { Good(<<{"OK"}, {"FAIL"}>>, "park"),
                      Bad(<<{"FAIL"}>>, "park"), Bad(<<{"OK"}, {"FAIL"}>>, "park"),
                      Bad(<<{"OK"}, {"PASS"}>>, "park") }

ChipIdRuns == { Good(<<{"PASS"}>>, "park"), Bad(<<>>, "halt") }

\* An unexpected CPU frequency is printed without a marker.
ClockRuns == { Good(<<{"OK"}, {"OK"}, {"PASS"}>>, "park"),
               Bad(<<{"OK"}, {"PASS"}>>, "park"), Bad(<<>>, "halt") }

GpioRuns == { Good(<<{"OK"}, {"PASS"}>>, "park"), Bad(<<>>, "halt") }

SystimerCornerRuns == { Good(<<{"PASS"}, {"PASS"}, {"PASS"}, {"PASS"}>>, "park"),
                        Bad(<<>>, "halt"), Bad(<<{"PASS"}>>, "halt") }

\* A PHY that does not answer, a controller that is not there and a clock that
\* does not switch all end in PASS.
EmacPhyRuns     == { Good(<<{"PASS"}>>, "park"), Bad(<<{"PASS"}>>, "park") }
UsbDwc2Runs     == { Good(<<{"PASS"}>>, "park"), Bad(<<{"PASS"}>>, "park") }
ClockSwitchRuns == { Good(<<{"OK"}, {"PASS"}>>, "park"), Bad(<<{"PASS"}>>, "park") }

\* These exercise nothing yet.
I2cScanRuns   == { Good(<<{"OK"}, {"PASS"}>>, "park") }
CryptoRuns    == { Good(<<{"OK"}, {"PASS"}>>, "park") }
InterruptRuns == { Good(<<{"OK"}, {"PASS"}>>, "park") }

\* Low entropy is printed without a marker; a dead generator panics.
CryptoRngDmaRuns == { Good(<<{"OK"}, {"OK"}, {"OK"}, {"PASS"}>>, "park"),
                      Bad(<<{"OK"}, {"OK"}, {"PASS"}>>, "park"), Bad(<<>>, "halt") }

\* The PSRAM half is never entered: psram_accessible() is false.
CrossoverRuns == { Good(<<{"OK"}, {"PASS"}>>, "park"),
                   Bad(<<{"FAIL"}, {"PASS"}>>, "park"), Bad(<<>>, "halt") }

\* One line per pin, one for the bank boundary - which does not count - and the
\* verdict.  The register offsets are not those lib.rs takes from the PAC
\* (0x28 there clears the output enables), so a sound chip may fail as well.
GpioAllPinsRuns ==
    { Good(<<{"OK"}, {"OK"}, {"PASS"}>>, "park"),
      Bad(<<{"OK"}, {"FAIL"}, {"PASS"}>>, "park") } \cup
    { [fault |-> f, lines |-> <<{"OK", "FAIL"}, boundary, {"FAIL"}>>, end |-> "halt"] :
          f \in BOOLEAN, boundary \in {{"OK"}, {"FAIL"}} }

\* Three PASS lines on v3.1 and later, none on v3.0; then the last one.
ErrataRuns == { Good(<<{"PASS"}, {"PASS"}, {"PASS"}, {"PASS"}>>, "park"),
                Good(<<{"PASS"}>>, "park") }

\* "RESULT: {} PASS, {} FAIL / {} total" is printed whatever the counts.
TestAllRuns == { Good(<<{"PASS"}, {"PASS", "FAIL"}>>, "park"),
                 Bad(<<{"PASS"}, {"FAIL"}, {"PASS", "FAIL"}>>, "park"),
                 Bad(<<{"PASS"}>>, "halt") }

Runs == [ test_init            |-> InitRuns,
          test_efuse           |-> EfuseRuns,
          test_psram           |-> PsramRuns,
          test_uart_loopback   |-> UartLoopbackRuns,
          test_memory_boundary |-> MemoryBoundaryRuns,
          test_wdt             |-> WdtRuns,
          test_errata_mspi749  |-> Mspi749Runs,
          test_errata_mspi750  |-> Mspi750Runs,
          test_errata_mspi751  |-> Mspi751Runs,
          test_errata_apm560   |-> Apm560Runs,
          test_errata_dma767   |-> Dma767Runs,
          test_dma_mem2mem     |-> DmaMem2MemRuns,
          test_chip_id         |-> ChipIdRuns,
          test_clock           |-> ClockRuns,
          test_gpio            |-> GpioRuns,
          test_systimer_corner |-> SystimerCornerRuns,
          test_emac_phy        |-> EmacPhyRuns,
          test_usb_dwc2        |-> UsbDwc2Runs,
          test_clock_switch    |-> ClockSwitchRuns,
          test_i2c_scan        |-> I2cScanRuns,
          test_crypto          |-> CryptoRuns,
          test_interrupt       |-> InterruptRuns,
          test_crypto_rng_dma  |-> CryptoRngDmaRuns,
          test_sram_psram_crossover |-> CrossoverRuns,
          test_gpio_all_pins   |-> GpioAllPinsRuns,
          test_errata          |-> ErrataRuns,
          test_all             |-> TestAllRuns ]
=============================================================================
