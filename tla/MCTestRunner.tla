---------------------------- MODULE MCTestRunner ----------------------------
(* TLC instances of TestRunner: groups of binaries whose logs differ in kind. *)
EXTENDS TestRunner

\* PASS possible, PASS possible, watchdog reset, marker after DONE, no marker.
MixedGroup == <<"test_errata_apm560", "test_errata_mspi749", "test_dma_mem2mem",
                "test_wdt", "test_memory_boundary">>
PsramOnly  == <<"test_psram">>
=============================================================================
