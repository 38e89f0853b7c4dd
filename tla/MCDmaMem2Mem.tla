---------------------------- MODULE MCDmaMem2Mem ----------------------------
(* TLC instance of DmaMem2Mem.  Sizes scale the source by 128: transfers of  *)
(* two bytes through a FIFO of one, byte values modulo three, pattern offset *)
(* one per channel, so that no two channels send the same.                   *)
EXTENDS DmaMem2Mem
=============================================================================
