----------------------------- MODULE MCCanFrame -----------------------------
(* TLC instance of CanFrame: the source's frame, and frames chosen for how    *)
(* they are stuffed - a stuff bit after the last bit of the CRC (identifiers  *)
(* 9 and 23), twenty stuff bits (2032), a stuff bit that begins the next run  *)
(* of five (120) - and one byte of every pair of nibbles.                     *)
EXTENDS CanFrame

SomeFrames ==
    {[id |-> 291, data |-> <<69, 83, 80, 52>>],
     [id |-> 0, data |-> <<>>], [id |-> 9, data |-> <<>>], [id |-> 23, data |-> <<>>],
     [id |-> 120, data |-> <<>>],
     [id |-> 2032, data |-> [i \in 1 .. 8 |-> 60]],
     [id |-> 2047, data |-> [i \in 1 .. 8 |-> 255]]}
    \cup {[id |-> 0, data |-> <<17 * d>>] : d \in 0 .. 15}
=============================================================================
