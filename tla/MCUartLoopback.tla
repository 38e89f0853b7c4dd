--------------------------- MODULE MCUartLoopback ---------------------------
(* TLC instance of UartLoopback: four bytes through a FIFO with room for two, *)
(* so that writes have to wait as they would for more than 120 bytes.         *)
EXTENDS UartLoopback

MCPattern == <<1, 2, 3, 4>>
=============================================================================
