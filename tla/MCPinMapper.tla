---------------------------- MODULE MCPinMapper ----------------------------
(* TLC instance of PinMapper: the candidates, pairs and LED of the source.   *)
EXTENDS PinMapper

MCCandidates == <<2, 3, 4, 5, 6, 7, 8, 20, 21, 22, 23, 26, 27, 32, 33, 36,
                  45, 46, 47, 48, 53, 54>>
MCShorted    == {{20, 22}, {48, 53}}
=============================================================================
