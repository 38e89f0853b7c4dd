------------------------------ MODULE CanFrame ------------------------------
(***************************************************************************)
(* test_twai_canframe_w_logicpro.rs: a CAN frame is built, its CRC         *)
(* computed, stuffed and shifted out on one pin, Iterations times, and a   *)
(* CAN receiver (external: the analyzer on the wire, ISO 11898) that may   *)
(* be switched on in the middle of a frame reads it back.  The loops of    *)
(* can_crc15(), apply_stuffing() and emit_frame() take one step per bit;   *)
(* a bit of the wire is one step, its 8 us are kept by absolute deadlines. *)
(* TRUE (recessive) is 1.                                                  *)
(***************************************************************************)
EXTENDS Integers, Sequences

CONSTANTS Frames,      \* [id, data] the source may be built with (0x123, "ESP4")
          MaxData,     \* most data bytes of a frame (8)
          CapFrame,    \* capacity of unstuffed (128)
          CapStuffed,  \* capacity of stuffed (192)
          Iterations,  \* frames sent (5)
          GapBits      \* bit times of delay_ms(200), and of the one before the first frame

Bit     == {0, 1}
Byte    == 0 .. 255
Longest == 1 + 11 + 3 + 4 + 8 * MaxData + 15

ASSUME CanAssumption ==
    /\ Frames \subseteq [id : 0 .. 2047, data : Seq(Byte)]
    /\ MaxData \in 0 .. 15
    /\ \A f \in Frames : Len(f.data) <= MaxData
    /\ CapFrame \in Nat /\ Longest <= CapFrame
    /\ CapStuffed \in Nat /\ 5 * Longest + 40 <= 4 * CapStuffed
    /\ Iterations \in Nat \ {0}
    /\ GapBits \in Nat /\ GapBits >= 11

VARIABLES frame,      \* what FRAME_ID and FRAME_DATA were set to (fixed)
          pc,         \* "gap" | "crc" | "stuff" | "emit" | "pass" | "panic"
          k,          \* next index of the loop
          unstuffed, stuffed,   \* the two vectors
          crc,        \* can_crc15(): bit j of the register
          quotient,   \* history: the bits fed back, first one first
          last, run,  \* apply_stuffing()
          taken,      \* history: bits of unstuffed pushed, per bit of stuffed up to the CRC
          sent,       \* frames emitted
          ear         \* the receiver: see Ear

cpuVars == <<pc, k, unstuffed, stuffed, crc, quotient, last, run, taken, sent>>
vars    == <<frame, cpuVars, ear>>

\* The receiver: off, waiting for eleven recessive bits, for a start of frame,
\* inside the stuffed part, or in the ten bits after it.  missed is a history: the
\* frames that had begun, or might have, when it was switched on.
Ear == [state : {"off", "sync", "idle", "frame", "tail", "error"},
        quiet : 0 .. 11, rx : Seq(Bit), last : Bit, run : 0 .. 5,
        heard : 0 .. Iterations, missed : 0 .. Iterations + 1]

SenderType == /\ frame \in Frames
              /\ pc \in {"gap", "crc", "stuff", "emit", "pass", "panic"}
              /\ k \in Nat \ {0}
              /\ unstuffed \in Seq(Bit) /\ stuffed \in Seq(Bit)
              /\ crc \in [0 .. 14 -> Bit]
              /\ last \in Bit /\ run \in 0 .. 4
              /\ sent \in 0 .. Iterations

TypeOK == SenderType /\ ear \in Ear

-----------------------------------------------------------------------------
(***************************************************************************)
(* build_unstuffed() and can_crc15().                                      *)
(***************************************************************************)
Not(b)    == 1 - b
Xor(a, b) == (a + b) % 2

Power == <<1, 2, 4, 8, 16, 32, 64, 128, 256, 512, 1024>>

\* for i in (0..width).rev(): (x >> i) & 1
MsbFirst(x, width) == [i \in 1 .. width |-> (x \div Power[width - i + 1]) % 2]

\* for &b in FRAME_DATA, eight bits each.
DataBits(data) == [i \in 1 .. 8 * Len(data) |->
                      MsbFirst(data[((i - 1) \div 8) + 1], 8)[((i - 1) % 8) + 1]]

\* SOF, ID, RTR, IDE, r0, DLC and DATA.
Body(id, data) == <<0>> \o MsbFirst(id, 11) \o <<0, 0, 0>> \o MsbFirst(Len(data), 4)
                  \o DataBits(data)

\* 0x4599
Poly == {14, 10, 8, 7, 4, 3, 0}

ZeroCrc == [j \in 0 .. 14 |-> 0]

\* Mutant of CrcStep: the feedback is the bit shifted in, not the one shifted out.
CrcStepReflected(c, b) ==
    [j \in 0 .. 14 |-> Xor(IF j = 0 THEN 0 ELSE c[j - 1],
                           IF j \in Poly THEN Xor(c[0], b) ELSE 0)]

CrcStep(c, b) ==
    [j \in 0 .. 14 |-> Xor(IF j = 0 THEN 0 ELSE c[j - 1],
                           IF j \in Poly THEN Xor(c[14], b) ELSE 0)]

\* push(b).unwrap(): a panic if the vector is full.
Panics(n, cap) == n > cap /\ pc' = "panic"

\* emit_frame() is called; SOF to DATA are pushed.
BuildUnstuffed ==
    /\ pc = "gap" /\ k = GapBits + 1 /\ sent < Iterations
    /\ unstuffed' = Body(frame.id, frame.data) /\ stuffed' = <<>> /\ taken' = <<>>
    /\ crc' = ZeroCrc /\ quotient' = <<>> /\ k' = 1
    /\ \/ Panics(Len(unstuffed'), CapFrame)
       \/ Len(unstuffed') <= CapFrame /\ pc' = "crc"
    /\ UNCHANGED <<frame, last, run, sent, ear>>

CanCrc15 == /\ pc = "crc" /\ k <= Len(unstuffed)
            /\ crc' = CrcStep(crc, unstuffed[k])
            /\ quotient' = Append(quotient, Xor(crc[14], unstuffed[k]))
            /\ k' = k + 1
            /\ UNCHANGED <<frame, pc, unstuffed, stuffed, last, run, taken, sent, ear>>

CrcBits == [j \in 1 .. 15 |-> crc[15 - j]]

\* The CRC is pushed; apply_stuffing() is called.
PushCrc == /\ pc = "crc" /\ k > Len(unstuffed)
           /\ unstuffed' = unstuffed \o CrcBits
           /\ \/ Panics(Len(unstuffed) + 15, CapFrame)
              \/ Len(unstuffed) + 15 <= CapFrame /\ pc' = "stuff"
           /\ k' = 1
           /\ last' = Not(unstuffed[1]) /\ run' = 0
           /\ UNCHANGED <<frame, stuffed, crc, quotient, taken, sent, ear>>

-----------------------------------------------------------------------------
(***************************************************************************)
(* apply_stuffing().                                                       *)
(***************************************************************************)

\* The run that ends with the next bit.
RunWith(b) == IF b = last THEN run + 1 ELSE 1

\* Push the bits of s, the input's next one first; run and last are left as r and l.
Push(s, r, l) ==
    /\ \/ Panics(Len(stuffed) + Len(s), CapStuffed)
       \/ Len(stuffed) + Len(s) <= CapStuffed /\ UNCHANGED pc
    /\ stuffed' = stuffed \o s
    /\ taken' = taken \o [i \in 1 .. Len(s) |-> k]
    /\ run' = r /\ last' = l
    /\ k' = k + 1
    /\ UNCHANGED <<frame, unstuffed, crc, quotient, sent, ear>>

Stuffing == pc = "stuff" /\ k <= Len(unstuffed)

\* Mutants of Stuff: the stuff bit is not counted towards the next run, no stuff bit
\* after the last bit of the CRC.
StuffUncounted ==
    /\ Stuffing
    /\ LET b == unstuffed[k]
       IN  IF RunWith(b) = 5 THEN Push(<<b, Not(b)>>, 0, Not(b))
           ELSE Push(<<b>>, RunWith(b), b)

StuffNotLast ==
    /\ Stuffing
    /\ LET b == unstuffed[k]
       IN  IF RunWith(b) = 5 /\ k < Len(unstuffed) THEN Push(<<b, Not(b)>>, 1, Not(b))
           ELSE Push(<<b>>, RunWith(b), b)

Stuff ==
    /\ Stuffing
    /\ LET b == unstuffed[k]
       IN  IF RunWith(b) = 5 THEN Push(<<b, Not(b)>>, 1, Not(b))
           ELSE Push(<<b>>, RunWith(b), b)

Recessive(n) == [i \in 1 .. n |-> 1]

\* CRC delimiter, ACK slot, ACK delimiter and EOF.
PushTrailer ==
    /\ pc = "stuff" /\ k > Len(unstuffed)
    /\ stuffed' = stuffed \o Recessive(10)
    /\ \/ Panics(Len(stuffed) + 10, CapStuffed)
       \/ Len(stuffed) + 10 <= CapStuffed /\ pc' = "emit"
    /\ k' = 1
    /\ UNCHANGED <<frame, unstuffed, crc, quotient, last, run, taken, sent, ear>>

-----------------------------------------------------------------------------
(***************************************************************************)
(* The receiver (external).                                                *)
(***************************************************************************)

Dlc(rx) == 8 * rx[16] + 4 * rx[17] + 2 * rx[18] + rx[19]

\* All of SOF to CRC was read; the length follows from the DLC.
AllRead(rx) == Len(rx) >= 19 /\ Len(rx) = 34 + 8 * Dlc(rx)

\* Inside the stuffed part a bit after five equal ones must differ and is dropped.
ReadBit(e, b) ==
    IF e.run = 5 /\ b = e.last THEN [e EXCEPT !.state = "error"]
    ELSE LET bits  == IF e.run = 5 THEN e.rx ELSE Append(e.rx, b)
             alike == IF b = e.last THEN e.run + 1 ELSE 1
         IN  [e EXCEPT !.rx = bits, !.last = b, !.run = alike, !.quiet = 0,
                       !.state = IF AllRead(bits) /\ alike # 5 THEN "tail" ELSE "frame"]

\* What one bit of the wire makes of receiver e.
Hears(e, b) ==
    IF e.state = "sync" THEN IF b = 0 THEN [e EXCEPT !.quiet = 0]
                             ELSE [e EXCEPT !.quiet = @ + 1,
                                            !.state = IF e.quiet = 10 THEN "idle" ELSE "sync"]
    ELSE IF e.state = "idle" /\ b = 0
         THEN [e EXCEPT !.state = "frame", !.rx = <<0>>, !.last = 0, !.run = 1]
    ELSE IF e.state = "frame" THEN ReadBit(e, b)
    ELSE IF e.state = "tail" THEN IF b = 0 THEN [e EXCEPT !.state = "error"]
                                  ELSE IF e.quiet < 9 THEN [e EXCEPT !.quiet = @ + 1]
                                  ELSE [e EXCEPT !.state = "idle", !.quiet = 0, !.heard = @ + 1]
    ELSE e

SwitchOn == /\ ear.state = "off"
            /\ ear' = [ear EXCEPT !.state = "sync",
                                  !.missed = IF pc = "gap" /\ k = 1 THEN sent ELSE sent + 1]
            /\ UNCHANGED <<frame, cpuVars>>

-----------------------------------------------------------------------------
(***************************************************************************)
(* emit_frame() and main().                                                *)
(***************************************************************************)

Init == /\ frame \in Frames
        /\ pc = "gap" /\ k = 1
        /\ unstuffed = <<>> /\ stuffed = <<>> /\ crc = ZeroCrc /\ quotient = <<>>
        /\ last = 0 /\ run = 0 /\ taken = <<>> /\ sent = 0
        /\ ear = [state |-> "off", quiet |-> 0, rx |-> <<>>, last |-> 0, run |-> 0,
                  heard |-> 0, missed |-> 0]

\* One bit of the frame for 8 us; after the last the line is left recessive.
EmitBit == /\ pc = "emit"
           /\ ear' = Hears(ear, stuffed[k])
           /\ IF k < Len(stuffed) THEN k' = k + 1 /\ UNCHANGED <<pc, sent>>
              ELSE k' = 1 /\ pc' = "gap" /\ sent' = sent + 1
           /\ UNCHANGED <<frame, unstuffed, stuffed, crc, quotient, last, run, taken>>

\* delay_ms(): the line is recessive.
IdleBit == /\ pc = "gap" /\ k <= GapBits
           /\ ear' = Hears(ear, 1)
           /\ k' = k + 1
           /\ UNCHANGED <<frame, pc, unstuffed, stuffed, crc, quotient, last, run, taken, sent>>

Pass == /\ pc = "gap" /\ k = GapBits + 1 /\ sent = Iterations
        /\ pc' = "pass"
        /\ UNCHANGED <<frame, k, unstuffed, stuffed, crc, quotient, last, run, taken, sent, ear>>

\* park_alive(), or a panic.
Park == pc \in {"pass", "panic"} /\ UNCHANGED vars

Sender == \/ BuildUnstuffed \/ CanCrc15 \/ PushCrc \/ Stuff \/ PushTrailer
          \/ EmitBit \/ IdleBit \/ Pass

Next == Sender \/ SwitchOn \/ Park

Spec == Init /\ [][Next]_vars

-----------------------------------------------------------------------------
(***************************************************************************)
(* Properties.                                                             *)
(***************************************************************************)

\* No six of the first m bits of s are alike.
NoSix(s, m) == \A a \in 1 .. m - 5 : \E b \in a .. a + 4 : s[b] # s[b + 1]

\* "A complement bit is inserted after any run of 5": in no part of the frame up to
\* the CRC, stuff bits included, are six bits alike, for any input; and the two
\* vectors have room for every frame, so that no push panics.
StuffingHolds ==
    /\ pc = "stuff" => NoSix(stuffed, Len(stuffed))
    /\ pc = "emit" => NoSix(stuffed, Len(stuffed) - 10)
    /\ pc # "panic"

At(q, i) == IF i \in 1 .. Len(q) THEN q[i] ELSE 0

\* Bit i, highest first, of q times the generator polynomial of ISO 11898, whose
\* exponents are 15, 14, 10, 8, 7, 4, 3 and 0.
ProductBit(q, i) == (At(q, i) + At(q, i - 1) + At(q, i - 5) + At(q, i - 7) + At(q, i - 8)
                     + At(q, i - 11) + At(q, i - 12) + At(q, i - 15)) % 2

\* s is q times the generator: it leaves no remainder.
IsMultiple(s, q) == /\ Len(s) = Len(q) + 15
                    /\ \A i \in 1 .. Len(s) : s[i] = ProductBit(q, i)

\* The value of the eight bits of s from i on.
Octet(s, i) == 128 * s[i] + 64 * s[i + 1] + 32 * s[i + 2] + 16 * s[i + 3]
               + 8 * s[i + 4] + 4 * s[i + 5] + 2 * s[i + 6] + s[i + 7]

\* The identifier and the data a receiver takes from s.
Decoded(s) == [id   |-> 8 * Octet(s, 2) + 4 * s[10] + 2 * s[11] + s[12],
               data |-> [i \in 1 .. Dlc(s) |-> Octet(s, 12 + 8 * i)]]

\* What a receiver reads as a frame is what the source was built with, and, CRC
\* included, a multiple of the generator.
HeardIsSent == ear.state = "tail" => Decoded(ear.rx) = frame /\ IsMultiple(ear.rx, quotient)

\* "At least 5 times (one per iteration)": whenever the receiver is switched on, it
\* never takes the middle of a frame for the start of one nor sees a stuff or form
\* error, and reads back the bits that were stuffed.  One that listens from the start
\* has read as many frames as were sent; one switched on later misses that frame only.
EveryFrameHeard ==
    /\ ear.state # "error"
    /\ ear.state = "frame" => pc = "emit"
    /\ ear.state = "tail" => ear.rx = unstuffed
    /\ (pc \in {"gap", "pass"} /\ ear.state # "off") =>
           ear.heard \in sent - ear.missed .. sent

-----------------------------------------------------------------------------
(***************************************************************************)
(* The inductive invariant behind the properties.                          *)
(***************************************************************************)

\* s ends with a run of exactly r bits l.
EndsWith(s, r, l) ==
    /\ Len(s) >= r
    /\ \A a \in Len(s) - r + 1 .. Len(s) : s[a] = l
    /\ Len(s) > r => s[Len(s) - r] # l

\* run and last describe the end of what was pushed, and every stuff bit took at
\* least four bits of the input since the one before it.
LoopInv ==
    /\ k <= Len(unstuffed) + 1
    /\ 4 * (Len(stuffed) - (k - 1)) + run <= k - 1
    /\ IF k = 1 THEN stuffed = <<>> /\ run = 0 /\ last # unstuffed[1]
       ELSE run >= 1 /\ EndsWith(stuffed, run, last)

StuffInv ==
    /\ pc \in {"crc", "stuff"} => Len(unstuffed) >= 1
    /\ pc = "crc" => stuffed = <<>> /\ Len(unstuffed) <= Longest - 15
    /\ pc = "stuff" => Len(unstuffed) <= Longest /\ LoopInv
    /\ pc = "emit" => k <= Len(stuffed) /\ Len(stuffed) >= 10
    /\ pc = "gap" => k <= GapBits + 1
    /\ pc \in {"crc", "stuff", "emit"} => sent < Iterations
    /\ StuffingHolds

SendInv == SenderType /\ StuffInv

\* The input read so far is the quotient times the generator, with the register over.
CrcInv ==
    /\ pc = "crc" =>
          /\ quotient \in Seq(Bit) /\ Len(quotient) = k - 1 /\ k <= Len(unstuffed) + 1
          /\ \A i \in 1 .. k - 1 : ProductBit(quotient, i) = unstuffed[i]
          /\ \A j \in 0 .. 14 : ProductBit(quotient, k + 14 - j) = crc[j]
    /\ pc \in {"stuff", "emit"} => IsMultiple(unstuffed, quotient)

\* Bit i of s follows five alike.
AfterFive(s, i) == i > 5 /\ \A a \in i - 5 .. i - 2 : s[a] = s[a + 1]

\* Bit i of stuffed repeats no input bit when it follows five alike, and is the next
\* input bit otherwise.
CopyOf(i) ==
    LET before == IF i = 1 THEN 0 ELSE taken[i - 1]
    IN  /\ taken[i] \in 1 .. Len(unstuffed)
        /\ IF AfterFive(stuffed, i) THEN taken[i] = before
           ELSE taken[i] = before + 1 /\ stuffed[i] = unstuffed[taken[i]]

\* The input is the frame with its CRC; the output is the input with the stuff bits,
\* complete and followed by ten recessive bits when it is emitted.
CopyInv ==
    /\ taken \in Seq(Nat)
    /\ pc = "crc" => unstuffed = Body(frame.id, frame.data) /\ taken = <<>>
    /\ pc \in {"stuff", "emit"} => /\ unstuffed = Body(frame.id, frame.data) \o CrcBits
                                   /\ \A i \in 1 .. Len(taken) : CopyOf(i)
    /\ pc = "stuff" => /\ Len(taken) = Len(stuffed)
                       /\ IF k = 1 THEN taken = <<>>
                          ELSE taken # <<>> /\ taken[Len(taken)] = k - 1
    /\ pc = "emit" => /\ Len(stuffed) = Len(taken) + 10
                      /\ taken # <<>> /\ taken[Len(taken)] = Len(unstuffed)
                      /\ ~AfterFive(stuffed, Len(taken) + 1)
                      /\ \A i \in Len(taken) + 1 .. Len(stuffed) : stuffed[i] = 1

\* The run of alike bits that ends with bit j of s is r bits l long.
RunAt(s, j, r, l) == /\ r <= j
                     /\ \A a \in j - r + 1 .. j : s[a] = l
                     /\ j > r => s[j - r] # l

\* A receiver that waits for eleven recessive bits has counted those just sent, and
\* is not late for a frame it was switched on before.
SyncInv ==
    ear.state = "sync" =>
        /\ ear.quiet <= 10 /\ ear.heard = 0
        /\ ear.missed >= sent
        /\ (pc = "gap" /\ ear.missed = sent) => ear.quiet >= k - 1
        /\ pc \in {"crc", "stuff", "emit"} => ear.missed > sent
        /\ pc = "emit" => \A a \in 1 .. k - 1 : a > k - 1 - ear.quiet => stuffed[a] = 1

\* One that reads has what was taken from the input up to there, and the run; one
\* that is idle inside a frame is past its last dominant bit.
ReadInv ==
    /\ (ear.state = "idle" /\ pc = "emit" /\ k > 1) => k > Len(taken) /\ ear.missed > sent
    /\ ear.state = "frame" => /\ pc = "emit" /\ k - 1 \in 1 .. Len(taken) - 1
                              /\ ear.run >= 1 /\ RunAt(stuffed, k - 1, ear.run, ear.last)
                              /\ Len(ear.rx) = taken[k - 1]
                              /\ \A a \in 1 .. Len(ear.rx) : ear.rx[a] = unstuffed[a]
    /\ ear.state = "tail" => /\ pc = "emit" /\ ear.quiet <= 9
                             /\ k - 1 = Len(taken) + ear.quiet
                             /\ ear.rx = unstuffed

EarInv ==
    /\ ear \in Ear /\ ear.state # "error"
    /\ ear.heard <= sent
    /\ ear.state = "off" => ear.heard = 0 /\ ear.quiet = 0
    /\ ear.state # "off" => ear.heard >= sent - ear.missed
    /\ SyncInv /\ ReadInv

IInv == SendInv /\ CrcInv /\ CopyInv /\ EarInv
=============================================================================
