---------------------------- MODULE MCPsramShmoo ----------------------------
(* TLC instance of PsramShmoo: every eye of two phases and four delaylines,  *)
(* two drive strengths, the boot latency (6) and one other, three supplies.  *)
EXTENDS PsramShmoo

MCRlValues   == <<5, 6>>
MCDrefValues == <<3, 5, 7>>
MCBootMr0    == [drv |-> 0, rl |-> 6, lt |-> 1]
=============================================================================
