------------------------------ MODULE WdtTest ------------------------------
(***************************************************************************)
(* A board that runs a test binary over the shared library: test_wdt.rs,   *)
(* with the LP watchdog counting beside the CPU and resetting the board,   *)
(* and the ways the other binaries end.  One tick of time moves the        *)
(* watchdog and the library's delays alike.                                *)
(*                                                                         *)
(* The body of main() is a program of calls; printing takes part of the    *)
(* time of the call before it.  PASS is the only line that is kept.        *)
(***************************************************************************)
EXTENDS SharedLib, Sequences

CONSTANTS Feeds,      \* feeds before the test lets go (5)
          FeedDelay,  \* ticks of delay_ms(500)
          Timeout,    \* ticks of the watchdog's stage 0 (2 s)
          StarveDelay,\* ticks of delay_ms(100)
          Images      \* the binaries flashed

\* "well within 2s timeout": the CPU is quick enough to feed after a delay, and
\* to blink and print PASS after the last feed.
ASSUME WdtAssumption == /\ Feeds \in Nat \ {0} /\ FeedDelay \in Nat \ {0}
                        /\ StarveDelay \in Nat \ {0} /\ Timeout \in Nat
                        /\ FeedDelay + 5 * Lag < Timeout
                        /\ (2 * Blinks + 3) * Lag < Timeout
                        /\ Images \subseteq {"test_wdt", "signals", "prints", "quiet",
                                           "skips", "fails", "parks"}

VARIABLES image,     \* the binary the board was flashed with (fixed)
          hal,       \* what esp_hal::init() makes of the watchdog: "off" | "on" (fixed)
          dead,      \* the watchdog does not count (fixed)
          ip,        \* next call of main()
          open,      \* LP_WDT write protection is off
          wdt_en,    \* LP_WDT CONFIG0.wdt_en
          count,     \* ticks since the watchdog was enabled or fed
          fed,       \* history: feeds that reached the watchdog since reset
          passed     \* history: PASS was printed since reset

wdtVars == <<open, wdt_en, count, fed>>
vars    == <<libVars, image, hal, dead, ip, wdtVars, passed>>

-----------------------------------------------------------------------------
(***************************************************************************)
(* The programs.                                                           *)
(***************************************************************************)

\* Mutant of FeedOnce: the protection is back before the feed.
FeedTooLate == <<"delay", "unlock", "lock", "feed">>

FeedOnce == <<"delay", "unlock", "feed", "lock">>

\* Mutant of Configure: written before the key is.
ConfigureNoKey == <<"check", "enable", "unlock", "lock">>

Configure == <<"check", "unlock", "enable", "lock">>

Report == <<"signal_pass", "pass", "starve">>

\* Five feeds, then the verdict, then none.
LastFeed   == 4 + 4 * Feeds
WdtProgram == [i \in 1 .. LastFeed + 3 |->
                  IF i <= 4 THEN Configure[i]
                  ELSE IF i <= LastFeed THEN FeedOnce[1 + ((i - 1) % 4)]
                  ELSE Report[i - LastFeed]]

(* How the other binaries end, after a body of their own.                  *)
SignalsThenPrints == <<"body", "signal_pass", "pass", "park_alive">>   \* test_init and most
PrintsThenSignals == <<"body", "pass", "signal_pass", "park_alive">>   \* test_uart_loopback, ...
PrintsOnly        == <<"body", "pass", "park_alive">>          \* test_rom_crc_md5
SignalsOnly       == <<"body", "signal_pass", "park_alive">>   \* test_errata_mspi750, skipped
FailsLit          == <<"body", "signal_fail">>                 \* test_gpio_all_pins, ...
FailsDark         == <<"body", "park_alive">>                  \* test_uart_loopback, ...

\* The binary the runner flashed.
Program == CASE image = "test_wdt" -> WdtProgram
             [] image = "signals"  -> SignalsThenPrints
             [] image = "prints"   -> PrintsThenSignals
             [] image = "quiet"    -> PrintsOnly
             [] image = "skips"    -> SignalsOnly
             [] image = "fails"    -> FailsLit
             [] image = "parks"    -> FailsDark

TypeOK == /\ LibType
          /\ image \in Images /\ hal \in {"off", "on"} /\ dead \in BOOLEAN
          /\ ip \in DOMAIN Program
          /\ open \in BOOLEAN /\ wdt_en \in BOOLEAN
          /\ count \in 0 .. Timeout - 1
          /\ fed \in 0 .. Feeds
          /\ passed \in BOOLEAN

Init == /\ LibInit
        /\ image \in Images /\ hal \in {"off", "on"} /\ dead \in BOOLEAN
        /\ ip = 1
        /\ open = FALSE /\ wdt_en = (hal = "on") /\ count = 0
        /\ fed = 0 /\ passed = FALSE

-----------------------------------------------------------------------------
(***************************************************************************)
(* The CPU.                                                                *)
(***************************************************************************)
Calls(op) == frame = "main" /\ Program[ip] = op /\ ip' = ip + 1

\* Reads and writes of registers, which return at once.
Access == Enter("main") /\ UNCHANGED <<wait, left, n>>

\* assert!(config0 & (1 << 31) == 0): a panic, if init left it enabled.
Check == /\ frame = "main" /\ Program[ip] = "check"
         /\ IF wdt_en THEN Enter("halted") /\ UNCHANGED ip ELSE Enter("main") /\ ip' = ip + 1
         /\ UNCHANGED <<wait, left, n, ledVars, wdtVars, passed>>

\* wdt_unlock(), wdt_lock()
Unlock == Calls("unlock") /\ Access /\ open' = TRUE
          /\ UNCHANGED <<ledVars, wdt_en, count, fed, passed>>
Lock   == Calls("lock") /\ Access /\ open' = FALSE
          /\ UNCHANGED <<ledVars, wdt_en, count, fed, passed>>

\* CONFIG1 and CONFIG0: stage 0 resets the system.  Ignored without the key.
Enable == /\ Calls("enable") /\ Access
          /\ IF open THEN wdt_en' = TRUE /\ count' = 0 ELSE UNCHANGED <<wdt_en, count>>
          /\ UNCHANGED <<ledVars, open, fed, passed>>

\* wdt_feed().  Ignored without the key.
Feed == /\ Calls("feed") /\ Access
        /\ IF open THEN count' = 0 /\ fed' = fed + 1 ELSE UNCHANGED <<count, fed>>
        /\ UNCHANGED <<ledVars, open, wdt_en, passed>>

PrintPass == /\ Calls("pass") /\ Access
             /\ passed' = TRUE
             /\ UNCHANGED <<ledVars, wdtVars>>

\* A test takes its time, may use GPIO23 as it likes before it signals, and may
\* panic over an assertion.
Body == /\ frame = "main" /\ Program[ip] = "body"
        /\ \/ Enter("main") /\ ip' \in {ip, ip + 1}
           \/ Enter("halted") /\ ip' = ip
        /\ pin' \in PinRegs
        /\ UNCHANGED <<wait, left, n, pulses, wdtVars, passed>>

\* Calls of the library.
FeedWait == Calls("delay") /\ Delay(FeedDelay) /\ UNCHANGED <<wdtVars, passed>>
Pass     == Calls("signal_pass") /\ SignalPass /\ UNCHANGED <<wdtVars, passed>>

\* The last call of a program does not return.
Ends   == ip' = ip /\ UNCHANGED <<wdtVars, passed>>
Fail   == frame = "main" /\ Program[ip] = "signal_fail" /\ SignalFail /\ Ends
Park   == frame = "main" /\ Program[ip] = "park_alive" /\ ParkAlive /\ Ends
Starve == frame = "main" /\ Program[ip] = "starve" /\ Delay(StarveDelay) /\ Ends
Library == LibReturns /\ Ends

Cpu == /\ \/ Check \/ Unlock \/ Lock \/ Enable \/ Feed \/ PrintPass \/ Body
          \/ FeedWait \/ Pass \/ Fail \/ Park \/ Starve \/ Library
       /\ UNCHANGED <<image, hal, dead>>

-----------------------------------------------------------------------------
(***************************************************************************)
(* Time and the watchdog (external).                                       *)
(***************************************************************************)
Bites == wdt_en /\ ~dead /\ count + 1 = Timeout

Tick == /\ ~Bites
        /\ TimePasses
        /\ count' = IF wdt_en /\ ~dead THEN count + 1 ELSE count
        /\ UNCHANGED <<frame, wait, left, n, ledVars, image, hal, dead, ip,
                       open, wdt_en, fed, passed>>

\* Stage 0: the system restarts and the bootloader runs the same binary.
Bite == /\ Bites
        /\ Stopped \/ age < Due
        /\ LibReset
        /\ ip' = 1
        /\ open' = FALSE /\ wdt_en' = (hal = "on") /\ count' = 0
        /\ fed' = 0 /\ passed' = FALSE
        /\ UNCHANGED <<image, hal, dead>>

Next == Cpu \/ Tick \/ Bite

Spec == Init /\ [][Next]_vars

\* The CPU runs and time passes.
FairSpec == Spec /\ WF_vars(Cpu) /\ WF_vars(Tick \/ Bite)

-----------------------------------------------------------------------------
(***************************************************************************)
(* The inductive invariant.                                                *)
(***************************************************************************)
Verdict == LastFeed + 2    \* the place of "pass" in test_wdt

\* The call op has been made.
After(op) == \E i \in 1 .. ip - 1 : Program[i] = op

Blinking == frame \in {"blink_on", "blink_off"}

\* Where the CPU can be while a call of the library runs.
FrameInv ==
    /\ Stopped \/ age <= Due
    /\ Blinking => ip > 1 /\ Program[ip - 1] = "signal_pass" /\ left > 0
    /\ frame = "delay" =>
           /\ image = "test_wdt"
           /\ \/ ip \in 5 .. LastFeed /\ ip % 4 = 2 /\ wait = FeedDelay
              \/ ip = LastFeed + 3
    /\ frame = "alive"  => Program[ip] = "park_alive"
    /\ frame = "failed" => Program[ip] = "signal_fail"
    /\ frame = "halted" => Program[ip] \in {"check", "body"}
    /\ passed <=> After("pass")

\* The LED: routed and driven once signal_pass() was called, a pulse per loop.
Driven == pin.mux = "gpio" /\ pin.sel = "out_reg" /\ pin.enable

LedInv ==
    /\ frame = "failed" => Lit(pin)
    /\ frame = "blink_on"  => Driven /\ pulses = Blinks - left /\ (left < Blinks => ~pin.out)
    /\ frame = "blink_off" => Driven /\ pulses = Blinks - left /\ pin.out
    /\ After("signal_pass") /\ ~Blinking => pulses = Blinks /\ ~Lit(pin)

\* The key is in from an unlock to the next lock; a feed every fourth call.
WdtInv ==
    IF image = "test_wdt"
    THEN /\ open <=> ip \in 3 .. LastFeed /\ ip % 4 \in {3, 0}
         /\ wdt_en <=> ip >= 4 \/ (ip = 1 /\ hal = "on")
         /\ hal = "on" => ip = 1
         /\ fed = IF ip < 4 THEN 0 ELSE (ip - 4) \div 4
    ELSE (wdt_en <=> hal = "on") /\ ~open /\ fed = 0

\* How far the watchdog's count may be ahead of the time spent in the current step,
\* up to the PASS: what the steps since it was last fed can have taken.
InTime ==
    /\ ip <= 4 => count <= age
    /\ ip \in 5 .. LastFeed =>
           /\ ip % 4 = 1 => count <= Lag + age
           /\ ip % 4 = 2 /\ frame = "delay" => count <= 2 * Lag + age
           /\ ip % 4 = 2 /\ frame = "main"  => count <= FeedDelay + 3 * Lag + age
           /\ ip % 4 = 3 => count <= FeedDelay + 4 * Lag + age
           /\ ip % 4 = 0 => count <= age
    /\ ip = LastFeed + 1 => count <= Lag + age
    /\ ip = Verdict =>
           /\ frame = "blink_on"  => count <= (2 * (Blinks - left) + 2) * Lag + age
           /\ frame = "blink_off" => count <= (2 * (Blinks - left) + 3) * Lag + age
           /\ frame = "main"      => count <= (2 * Blinks + 2) * Lag + age

TimeInv ==
    /\ wdt_en \/ count = 0
    /\ (image = "test_wdt" /\ ~passed /\ frame # "halted") => InTime

IInv == TypeOK /\ FrameInv /\ LedInv /\ WdtInv /\ TimeInv

-----------------------------------------------------------------------------
(***************************************************************************)
(* Properties.                                                             *)
(***************************************************************************)

\* The LED shows the signal a test gives, whatever the test made of GPIO23's
\* registers before and whether it prints its PASS before or after: lit for as long
\* as signal_fail() loops, and exactly ten pulses and then dark for good once
\* signal_pass() has returned.
LedShows ==
    /\ frame = "failed" => Lit(pin)
    /\ After("signal_pass") /\ ~Blinking => pulses = Blinks /\ ~Lit(pin)

\* The header's "Early reset" does not happen: while it is fed, and while the LED
\* blinks, the watchdog stays quiet; it resets test_wdt only after PASS, or after
\* the panic over a watchdog that init left enabled - which resets any other test.
NoEarlyReset ==
    [][Bite => passed \/ frame = "halted" \/ (image # "test_wdt" /\ hal = "on")]_vars

\* PASS means that the watchdog was off at first, and that every feed reached it
\* since it was enabled.
PassMeansFed ==
    (image = "test_wdt" /\ passed) => hal = "off" /\ wdt_en /\ fed = Feeds

\* "Stop feeding -> should reset": after PASS a working watchdog resets the board.
ResetComes == (image = "test_wdt" /\ passed /\ ~dead) ~> (ip = 1 /\ ~passed)

\* A host that attaches at any time after a test has ended sees a heartbeat, and
\* the next, in the order of their numbers, unless init left a watchdog counting.
HeartbeatGoesOn ==
    \A m \in 0 .. Numbers - 1 :
        (frame = "alive" /\ n = m /\ (hal = "off" \/ dead)) ~> (frame = "alive" /\ n = (m + 1) % Numbers)
=============================================================================
