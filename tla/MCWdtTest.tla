----------------------------- MODULE MCWdtTest -----------------------------
(* TLC instance of WdtTest: ticks of 50 ms, the delays, time-out, feeds and  *)
(* blinks of the source, and a heartbeat counter of two bits.                *)
EXTENDS WdtTest

AllImages == {"test_wdt", "signals", "prints", "quiet", "skips", "fails", "parks"}
=============================================================================
