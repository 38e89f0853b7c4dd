----------------------------- MODULE SharedLib -----------------------------
(***************************************************************************)
(* src/lib.rs: what the test binaries share - the LED on GPIO23, the       *)
(* delays and the heartbeat.  The functions busy-wait: a call is a frame   *)
(* the CPU stays in while time passes, and age counts the ticks since the  *)
(* CPU's last step.  A client (WdtTest) calls from the frame "main" and    *)
(* decides what else may happen meanwhile.                                 *)
(***************************************************************************)
EXTENDS Integers

CONSTANTS Blinks,     \* pulses of signal_pass (10)
          Second,     \* ticks in delay_ms(1000), the heartbeat's period
          Lag,        \* most ticks the CPU takes over a step, or returns late by
          Numbers     \* values of park_alive's counter (2^32)

ASSUME LibAssumption == /\ Blinks \in Nat \ {0} /\ Second \in Nat \ {0}
                        /\ Lag \in Nat \ {0} /\ Numbers \in Nat \ {0}

VARIABLES frame,   \* "main" | "blink_on" | "blink_off" | "failed" | "delay" | "alive"
                   \* | "halted" (a panic)
          age,     \* ticks spent in the current step
          wait,    \* ticks delay_ms() was called for
          left,    \* blinks signal_pass() has still to make
          n,       \* park_alive()'s counter
          pin,     \* GPIO23: IO MUX function, output select, output enable, GPIO_OUT bit
          pulses   \* history: times the pad went dark in signal_pass()

cpuVars == <<frame, age, wait, left, n>>
ledVars == <<pin, pulses>>
libVars == <<cpuVars, ledVars>>

Frames  == {"main", "blink_on", "blink_off", "failed", "delay", "alive", "halted"}

\* IO_MUX pin 23, FUNC23_OUT_SEL, ENABLE bit 23 and OUT bit 23: as reset leaves
\* them, and anything the body of a test may have made of them.
PinRegs  == [mux : {"gpio", "other"}, sel : {"out_reg", "signal"},
             enable : BOOLEAN, out : BOOLEAN]
ResetPin == [mux |-> "other", sel |-> "signal", enable |-> FALSE, out |-> FALSE]

LibType == /\ frame \in Frames
           /\ age \in Nat /\ wait \in Nat
           /\ left \in 0 .. Blinks
           /\ n \in 0 .. Numbers - 1
           /\ pin \in PinRegs
           /\ pulses \in 0 .. Blinks

\* From reset.
LibInit == /\ frame = "main" /\ age = 0 /\ wait = 0 /\ left = 0 /\ n = 0
           /\ pin = ResetPin /\ pulses = 0

LibReset == /\ frame' = "main" /\ age' = 0 /\ wait' = 0 /\ left' = 0 /\ n' = 0
            /\ pin' = ResetPin /\ pulses' = 0

\* What the LED shows: lit only if the pad is routed to GPIO_OUT and driven.
Lit(p) == p.mux = "gpio" /\ p.sel = "out_reg" /\ p.enable /\ p.out

-----------------------------------------------------------------------------
(***************************************************************************)
(* The LED.                                                                *)
(***************************************************************************)

\* Mutant of InitLed: 0x28 for 0x24 - ENABLE_W1TC for ENABLE_W1TS.
InitLedW1tc == [pin EXCEPT !.mux = "gpio", !.sel = "out_reg", !.enable = FALSE]

\* init_led(): function 1, OUT_SEL = 256 with OEN_SEL, ENABLE_W1TS.  GPIO_OUT
\* keeps its bit.
InitLed == [pin EXCEPT !.mux = "gpio", !.sel = "out_reg", !.enable = TRUE]

\* Set GPIO23's registers, counting the pulses that end.
SetPin(p) == /\ pin' = p
             /\ pulses' = IF Lit(pin) /\ ~Lit(p) THEN pulses + 1 ELSE pulses

\* A step of the CPU: on to another frame, its time starting anew.
Enter(f) == frame' = f /\ age' = 0

\* signal_pass() is called ...
SignalPass == /\ frame = "main"
              /\ pin' = InitLed /\ pulses' = 0
              /\ left' = Blinks
              /\ Enter("blink_on")
              /\ UNCHANGED <<wait, n>>

\* ... writes OUT_W1TS and waits ...
BlinkOn == /\ frame = "blink_on"
           /\ SetPin([pin EXCEPT !.out = TRUE])
           /\ Enter("blink_off")
           /\ UNCHANGED <<wait, left, n>>

\* Mutant of BlinkOff: for _ in 0..=10.
BlinkOffOneMore == /\ frame = "blink_off"
                   /\ SetPin([pin EXCEPT !.out = FALSE])
                   /\ left' = left - 1
                   /\ Enter(IF left = 0 THEN "main" ELSE "blink_on")
                   /\ UNCHANGED <<wait, n>>

\* ... writes OUT_W1TC and waits, ten times in all, and returns.
BlinkOff == /\ frame = "blink_off"
            /\ SetPin([pin EXCEPT !.out = FALSE])
            /\ left' = left - 1
            /\ Enter(IF left = 1 THEN "main" ELSE "blink_on")
            /\ UNCHANGED <<wait, n>>

\* signal_fail(): lit for ever.
SignalFail == /\ frame = "main"
              /\ pin' = [InitLed EXCEPT !.out = TRUE]
              /\ Enter("failed")
              /\ UNCHANGED <<wait, left, n, pulses>>

-----------------------------------------------------------------------------
(***************************************************************************)
(* Delays and the heartbeat.                                               *)
(***************************************************************************)

\* delay_ms(): spins until start.elapsed() reaches the target.
Delay(ticks) == /\ frame = "main"
                /\ wait' = ticks
                /\ Enter("delay")
                /\ UNCHANGED <<left, n, ledVars>>

DelayReturns == /\ frame = "delay" /\ age >= wait
                /\ Enter("main")
                /\ UNCHANGED <<wait, left, n, ledVars>>

ParkAlive == /\ frame = "main"
             /\ n' = 0
             /\ Enter("alive")
             /\ UNCHANGED <<wait, left, ledVars>>

\* Mutant of Heartbeat: n += 1 panics when it overflows.
HeartbeatPanics == /\ frame = "alive" /\ age >= Second
                   /\ IF n + 1 = Numbers THEN Enter("halted") /\ UNCHANGED n
                      ELSE Enter("alive") /\ n' = n + 1
                   /\ UNCHANGED <<wait, left, ledVars>>

\* One line a second, numbered with wrapping_add(1), for ever.
Heartbeat == /\ frame = "alive" /\ age >= Second
             /\ Enter("alive")
             /\ n' = (n + 1) % Numbers
             /\ UNCHANGED <<wait, left, ledVars>>

LibReturns == BlinkOn \/ BlinkOff \/ DelayReturns \/ Heartbeat

\* busy_delay() and every other step take some ticks but no more than Lag; a
\* delay measured on SYSTIMER is left at most that much too late.
Due == Lag + (IF frame = "delay" THEN wait ELSE IF frame = "alive" THEN Second ELSE 0)

\* The CPU spins for ever, so there is no time it must be done by.
Stopped == frame \in {"failed", "halted"}

TimePasses == IF Stopped THEN UNCHANGED age ELSE age < Due /\ age' = age + 1
=============================================================================
