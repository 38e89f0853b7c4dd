---------------------------- MODULE MCPsramFill ----------------------------
(* TLC instance of PsramFill: eight words through a cache of three.         *)
EXTENDS PsramFill
=============================================================================
