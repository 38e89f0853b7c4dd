----------------------------- MODULE I2cBitbang -----------------------------
(***************************************************************************)
(* test_i2c_wire_w_logicpro.rs: the CPU bit-bangs "read CHIP_ID1" of the   *)
(* ES8311 codec on two open-drain lines, a few iterations in a row.        *)
(*                                                                         *)
(* One step of the CPU is one change of a line or one sample of SDA.  The  *)
(* codec is external: an I2C target that follows the edges it sees and     *)
(* moves SDA some time after SCL has fallen - before or after the CPU's    *)
(* next move of SDA, but before SCL rises again, which the half-bit delays *)
(* of the source leave ample time for.  It may be absent, refuse, identify *)
(* itself wrongly, or lose its wire at any time; and the board may be      *)
(* reset (re-flashed) in the middle of a transfer, which the codec does    *)
(* not notice.                                                             *)
(***************************************************************************)
EXTENDS Integers, Sequences

CONSTANTS Iterations,  \* ITERATIONS (the source: 5)
          MaxResets,   \* resets of the board (bound)
          Kinds        \* the codecs considered

ASSUME I2cAssumption ==
    /\ Iterations \in Nat \ {0} /\ MaxResets \in Nat
    /\ Kinds # {}
    /\ Kinds \subseteq {"healthy", "no_auto_increment", "wrong_id", "refuses_reg", "absent"}

Addr == 24    \* ES8311_ADDR, 0x18
Reg  == 253   \* REG_CHIP_ID1, 0xFD
Id1  == 131   \* EXPECTED_ID1, 0x83
Id2  == 17    \* EXPECTED_ID2, 0x11

\* A byte is its bits in the order of the wire: bit i is b >> (8 - i).
Bit         == {0, 1}
Byte        == [1 .. 8 -> Bit]
Weight      == <<128, 64, 32, 16, 8, 4, 2, 1>>
BitOf(b, i) == (b \div Weight[i]) % 2
Bits(b)     == [i \in 1 .. 8 |-> BitOf(b, i)]
Zero        == [i \in 1 .. 8 |-> 0]

\* The calls main() makes in an iteration, by the clock pulses each gives.
Framing == {"start", "restart", "stop"}   \* one
Writes  == {"addr_w", "reg", "addr_r"}    \* nine: write_byte
Reads   == {"id1", "id2"}                 \* nine: read_byte

VARIABLES iter,     \* iterations finished
          call, bit, step,  \* the call, its clock pulse, and what comes next in that
          ack,      \* level in the acknowledge bit of each byte written
          id,       \* id1 and id2
          all_ok, verdict,  \* verdict: "none" | "PASS" | "FAIL"
          bus,      \* the lines and the codec's view of them
          kind,     \* what the codec is now
          log,      \* history: what the codec saw and did since the iteration began
          served,   \* history: iterations in which it was asked for CHIP_ID1
          resets    \* resets so far

cpuVars == <<iter, call, bit, step, ack, id, all_ok, verdict>>
i2cVars == <<cpuVars, bus, kind, log, served, resets>>

Bus == [ scl : Bit, sda : Bit,      \* released (1) or driven low by the CPU
         dev : Bit, want : Bit,     \* the codec's side of SDA: now, and once it has moved
         mode : {"idle", "addr", "reg", "acks", "sends", "listens"},
         n : 0 .. 8,                \* bits of the byte under way
         byte : Byte,               \* that byte
         read : BOOLEAN,            \* R/W bit of the last address
         ack : BOOLEAN,             \* the master acknowledged the last byte
         first : BOOLEAN ]          \* no byte sent since the pointer was set

Events == {"START", "addr W", "addr R", "reg", "data ACK", "data NACK", "STOP"}

I2cTypeOK ==
    /\ iter \in 0 .. Iterations
    /\ call \in Framing \cup Writes \cup Reads \cup {"over"}
    /\ bit \in 1 .. (IF call \in Writes \cup Reads THEN 9 ELSE 1)
    /\ step \in {"set", "rise", "frame", "sample", "fall"}
    /\ ack \in [Writes -> Bit] /\ id \in [Reads -> Byte]
    /\ all_ok \in BOOLEAN /\ verdict \in {"none", "PASS", "FAIL"}
    /\ bus \in Bus
    /\ kind \in Kinds \cup {"absent"}
    /\ log \in Seq(Events)
    /\ served \in 0 .. iter
    /\ resets \in 0 .. MaxResets

\* What the codec sees of a whole iteration.
Expected == <<"START", "addr W", "reg", "START", "addr R", "data ACK", "data NACK", "STOP">>

-----------------------------------------------------------------------------
(***************************************************************************)
(* The codec (external).                                                   *)
(***************************************************************************)

\* SDA is high when nobody pulls it low.
Level(b) == IF b.sda = 1 THEN b.dev ELSE 0

Idle(b) == [b EXCEPT !.mode = "idle", !.want = 1]

NextByte(b) ==
    IF b.first THEN (IF kind = "wrong_id" THEN Bits(Id1 + 1) ELSE Bits(Id1))
    ELSE IF kind = "no_auto_increment" THEN Bits(255) ELSE Bits(Id2)

Load(b) == [b EXCEPT !.mode = "sends", !.n = 1, !.byte = NextByte(b), !.first = FALSE,
                     !.want = NextByte(b)[1]]

Takes(b, mode) == [b EXCEPT !.mode = mode, !.n = 0, !.byte = Zero, !.want = 1]

SclRises(b) ==
    CASE b.mode \in {"addr", "reg"} -> [b EXCEPT !.n = @ + 1, !.byte[b.n + 1] = Level(b)]
      [] b.mode = "listens"         -> [b EXCEPT !.ack = (Level(b) = 0)]
      [] OTHER                      -> b

Acks(b) == [b EXCEPT !.mode = "acks", !.want = 0]

Addressed(b) == \A i \in 1 .. 7 : b.byte[i] = BitOf(2 * Addr, i)

SclFalls(b) ==
    CASE b.mode = "addr" /\ b.n = 8 ->
           IF Addressed(b) THEN Acks([b EXCEPT !.read = (b.byte[8] = 1)]) ELSE Idle(b)
      [] b.mode = "reg" /\ b.n = 8 ->
           IF kind = "refuses_reg" THEN Idle(b)
           ELSE Acks([b EXCEPT !.first = (b.byte = Bits(Reg))])
      [] b.mode = "acks" -> IF b.read THEN Load(b) ELSE Takes(b, "reg")
      [] b.mode = "sends" ->
           IF b.n = 8 THEN [b EXCEPT !.mode = "listens", !.want = 1]
           ELSE [b EXCEPT !.n = @ + 1, !.want = b.byte[b.n + 1]]
      [] b.mode = "listens" -> IF b.ack THEN Load(b) ELSE Idle(b)
      [] OTHER -> b

Driven(b, op) == CASE op = "scl1" -> [b EXCEPT !.scl = 1]
                   [] op = "scl0" -> [b EXCEPT !.scl = 0]
                   [] op = "sda1" -> [b EXCEPT !.sda = 1]
                   [] op = "sda0" -> [b EXCEPT !.sda = 0]

\* The bus after the CPU moved one line, the codec having seen the edge.
Moved(b, op) ==
    LET c == Driven(b, op)
    IN  IF kind = "absent" THEN c
        ELSE CASE b.scl = 0 /\ c.scl = 1 -> SclRises(c)
               [] b.scl = 1 /\ c.scl = 0 -> SclFalls(c)
               [] b.scl = 1 /\ c.scl = 1 /\ Level(b) = 1 /\ Level(c) = 0 -> Takes(c, "addr") \* START
               [] b.scl = 1 /\ c.scl = 1 /\ Level(b) = 0 /\ Level(c) = 1 -> Idle(c)          \* STOP
               [] OTHER -> c

\* What that edge adds to the codec's log.
Entry(b, op) ==
    LET c == Moved(b, op)
    IN  IF kind = "absent" THEN <<>>
        ELSE CASE op = "sda0" /\ b.scl = 1 /\ Level(b) = 1 -> <<"START">>
               [] op = "sda1" /\ b.scl = 1 /\ Level(b) = 0 /\ Level(c) = 1 -> <<"STOP">>
               [] op = "scl0" /\ b.mode = "addr" /\ c.mode = "acks" ->
                     <<IF c.read THEN "addr R" ELSE "addr W">>
               [] op = "scl0" /\ b.mode = "reg" /\ c.mode = "acks" /\ c.first -> <<"reg">>
               [] op = "scl0" /\ b.mode = "listens" -> <<IF b.ack THEN "data ACK" ELSE "data NACK">>
               [] OTHER -> <<>>

-----------------------------------------------------------------------------
(***************************************************************************)
(* The CPU: one iteration of main()'s loop, pulse by pulse.                *)
(***************************************************************************)

NextCall == CASE call = "start"   -> "addr_w"
              [] call = "addr_w"  -> "reg"
              [] call = "reg"     -> "restart"
              [] call = "restart" -> "addr_r"
              [] call = "addr_r"  -> "id1"
              [] call = "id1"     -> "id2"
              [] call = "id2"     -> "stop"

\* What write_byte is called with.
Sent == CASE call = "addr_w" -> Bits(2 * Addr)
          [] call = "reg"    -> Bits(Reg)
          [] call = "addr_r" -> Bits(2 * Addr + 1)

\* SDA for this pulse: a START needs it high, a STOP low; a byte read is
\* released but for the acknowledge after the first.  (Mutant: after the second
\* as well.)
SdaOutAcks == IF call \in Writes /\ bit <= 8 THEN Sent[bit]
              ELSE IF call = "stop" \/ (call \in Reads /\ bit = 9) THEN 0 ELSE 1
SdaOut == IF call \in Writes /\ bit <= 8 THEN Sent[bit]
          ELSE IF call = "stop" \/ (call = "id1" /\ bit = 9) THEN 0 ELSE 1

\* The pulse is a read_bit().
Sampled == (call \in Writes /\ bit = 9) \/ (call \in Reads /\ bit <= 8)

MoveSda(level) == IF level = 1 THEN "sda1" ELSE "sda0"

\* Mutants: SDA moved after SCL went high; a STOP that releases SDA first.
OpLate     == CASE step = "set"   -> "scl1"
                [] step = "rise"  -> MoveSda(SdaOut)
                [] step = "frame" -> MoveSda(IF call = "stop" THEN 1 ELSE 0)
                [] step = "fall"  -> "scl0"
OpReleased == CASE step = "set"   -> MoveSda(IF call = "stop" THEN 1 ELSE SdaOut)
                [] step = "rise"  -> "scl1"
                [] step = "frame" -> MoveSda(IF call = "stop" THEN 1 ELSE 0)
                [] step = "fall"  -> "scl0"
Op == CASE step = "set"   -> MoveSda(SdaOut)
        [] step = "rise"  -> "scl1"
        [] step = "frame" -> MoveSda(IF call = "stop" THEN 1 ELSE 0)
        [] step = "fall"  -> "scl0"

\* The next step of the pulse, the next pulse, the next call.  (Mutant: bytes of
\* ten pulses.)
GoOn(last) ==
    IF step = "fall" \/ (call = "stop" /\ step = "frame")
    THEN /\ step' = "set"
         /\ IF bit < last THEN bit' = bit + 1 /\ UNCHANGED call
            ELSE bit' = 1 /\ call' = IF call = "stop" THEN "over" ELSE NextCall
    ELSE /\ step' = CASE step = "set"  -> "rise"
                      [] step = "rise" -> (IF call \in Framing THEN "frame"
                                           ELSE IF Sampled THEN "sample" ELSE "fall")
                      [] OTHER         -> "fall"
         /\ UNCHANGED <<call, bit>>
AdvanceLong == GoOn(IF call \in Framing THEN 1 ELSE 10)
Advance     == GoOn(IF call \in Framing THEN 1 ELSE 9)

\* Mutant of IterOk: neither the pointer's acknowledge nor the identity counts.
IterOkAddressed == ack["addr_w"] = 0 /\ ack["addr_r"] = 0

IterOk == /\ \A c \in Writes : ack[c] = 0
          /\ id["id1"] = Bits(Id1)

Served(l) == \E i \in 1 .. Len(l) - 2 : l[i] = "reg" /\ l[i+1] = "START" /\ l[i+2] = "addr R"

NoAck == [c \in Writes |-> 1]
NoId  == [c \in Reads |-> Zero]

\* An iteration begins.
Begin == /\ call' = "start" /\ bit' = 1 /\ step' = "set"
         /\ ack' = NoAck /\ id' = NoId /\ log' = <<>>

\* The CPU side at reset; the pull-ups take both lines high.
Booted == Begin /\ iter' = 0 /\ all_ok' = TRUE /\ verdict' = "none" /\ served' = 0

I2cInit == /\ call = "start" /\ bit = 1 /\ step = "set"
           /\ ack = NoAck /\ id = NoId /\ log = <<>>
           /\ iter = 0 /\ all_ok = TRUE /\ verdict = "none" /\ served = 0
           /\ bus = [ scl |-> 1, sda |-> 1, dev |-> 1, want |-> 1, mode |-> "idle", n |-> 0,
                      byte |-> Zero, read |-> FALSE, ack |-> FALSE, first |-> FALSE ]
           /\ kind \in Kinds
           /\ resets = 0

Running == iter < Iterations /\ call # "over"

MoveLine == /\ Running /\ step # "sample"
            /\ Op = "scl1" => bus.dev = bus.want
            /\ bus' = Moved(bus, Op)
            /\ log' = log \o Entry(bus, Op)
            /\ Advance
            /\ UNCHANGED <<iter, ack, id, all_ok, verdict, kind, served, resets>>

Sample == /\ Running /\ step = "sample"
          /\ IF call \in Writes
             THEN ack' = [ack EXCEPT ![call] = Level(bus)] /\ UNCHANGED id
             ELSE id' = [id EXCEPT ![call][bit] = Level(bus)] /\ UNCHANGED ack
          /\ Advance
          /\ UNCHANGED <<iter, all_ok, verdict, bus, kind, log, served, resets>>

EndIteration == /\ iter < Iterations /\ call = "over"
                /\ iter' = iter + 1
                /\ all_ok' = (all_ok /\ IterOk)
                /\ served' = IF Served(log) THEN served + 1 ELSE served
                /\ Begin
                /\ UNCHANGED <<verdict, bus, kind, resets>>

Verdict == /\ iter = Iterations /\ verdict = "none"
           /\ verdict' = IF all_ok THEN "PASS" ELSE "FAIL"
           /\ UNCHANGED <<iter, call, bit, step, ack, id, all_ok, bus, kind, log, served, resets>>

Cpu == MoveLine \/ Sample \/ EndIteration \/ Verdict

ParkAlive == verdict # "none" /\ UNCHANGED i2cVars

-----------------------------------------------------------------------------
(***************************************************************************)
(* The world: the codec's answer, a lost wire, a reset of the board.       *)
(***************************************************************************)

CodecMoves == /\ bus.dev # bus.want
              /\ bus' = [bus EXCEPT !.dev = bus.want]
              /\ UNCHANGED <<cpuVars, kind, log, served, resets>>

WireLost == /\ kind # "absent"
            /\ kind' = "absent"
            /\ bus' = [Idle(bus) EXCEPT !.dev = 1]
            /\ UNCHANGED <<cpuVars, log, served, resets>>

Reset == /\ resets < MaxResets
         /\ bus.dev = bus.want
         /\ resets' = resets + 1
         /\ \/ bus' = Moved(Moved(bus, "scl1"), "sda1")
            \/ bus' = Moved(Moved(bus, "sda1"), "scl1")
         /\ Booted
         /\ UNCHANGED kind

I2cNext == Cpu \/ CodecMoves \/ WireLost \/ Reset \/ ParkAlive

I2cSpec == I2cInit /\ [][I2cNext]_i2cVars

-----------------------------------------------------------------------------
(***************************************************************************)
(* Properties.                                                             *)
(***************************************************************************)

Sound == kind \in {"healthy", "no_auto_increment"}

\* No reset can still be felt: the lines were free when the iteration began.
Clean == resets = 0 \/ iter > 0

\* PASS only if in every iteration the codec took the register pointer, saw the
\* repeated START and acknowledged its read address - whatever state a reset left
\* it in, and although a codec caught in the middle of a transfer can answer all
\* three of the CPU's bytes with the acknowledge of something else.
PassMeansRegisterRead == verdict = "PASS" => served = Iterations

\* A sound codec passes every iteration with exactly the transcript the header
\* lists for the analyzer (test_i2c_wire_w_logicpro.rs:36-45); after a reset in
\* mid-transfer, with no bus clear in the code, every iteration but the first.  A
\* board that was never reset therefore has no false FAIL.
SoundCodecPasses ==
    Sound => /\ (iter < Iterations /\ call = "over" /\ Clean) => IterOk /\ log = Expected
             /\ verdict = "FAIL" => resets > 0

\* Between iterations nobody drives the bus and the codec expects a START: a
\* transfer cut by a reset is over after one iteration.
BusFreeBetweenIterations ==
    (call = "over" \/ (call = "start" /\ step = "set" /\ Clean)) =>
        bus.scl = 1 /\ Level(bus) = 1 /\ bus.mode = "idle"

\* SDA is stable while SCL is high, whichever side drives it, except for the
\* CPU's START, repeated START and STOP (and a reset or a lost wire).
DataValid ==
    [][(bus.scl = 1 /\ bus'.scl = 1 /\ Level(bus) # Level(bus')) =>
           \/ call \in Framing /\ step = "frame"
           \/ resets' # resets \/ kind' # kind]_i2cVars
-----------------------------------------------------------------------------
(***************************************************************************)
(* The inductive invariant behind them, part by part.                      *)
(***************************************************************************)

\* The lines, as the CPU left them at this place of the program.
LineInv ==
    /\ call \in Framing => step # "sample" /\ (call = "stop" => step # "fall")
    /\ call \notin Framing => step # "frame"
    /\ step = "sample" => Sampled
    /\ call = "over" => step = "set"
    /\ bus.scl = IF call \in {"start", "over"} \/ step \in {"frame", "sample", "fall"} THEN 1 ELSE 0
    /\ step = "set" /\ call \in {"start", "over"} => bus.sda = 1
    /\ step \in {"rise", "frame", "sample"} => bus.sda = SdaOut
    /\ step = "fall" => bus.sda = IF call \in Framing THEN 0 ELSE SdaOut

\* The codec by itself: what its mode makes of SDA, where it has moved to before
\* SCL is high; a byte once sent leaves the pointer behind.
CodecInv ==
    /\ bus.want = IF bus.mode = "acks" THEN 0
                  ELSE IF bus.mode = "sends" THEN bus.byte[bus.n] ELSE 1
    /\ bus.scl = 1 => bus.dev = bus.want
    /\ bus.mode = "sends" => bus.n >= 1
    /\ bus.mode \in {"addr", "reg"} /\ bus.scl = 0 => bus.n <= 7
    /\ bus.mode \in {"sends", "listens"} \/ kind = "refuses_reg" => ~bus.first
    /\ bus.mode = "reg" => ~bus.read
    /\ kind = "absent" => bus.mode = "idle" /\ bus.dev = 1

\* Rising edges of SCL, and samples, in the byte so far.
Taken == IF step \in {"frame", "sample", "fall"} THEN bit ELSE bit - 1
Read  == IF bit = 9 THEN 8 ELSE IF step = "fall" THEN bit ELSE bit - 1

TakesSent == bit <= 8 /\ bus.n = Taken /\ \A i \in 1 .. bus.n : bus.byte[i] = Sent[i]

\* The codec against the CPU, from the START on.  A codec that takes bits takes
\* the CPU's byte from its first bit.  One caught sending may be at any other bit
\* and go on sending for as long as its acknowledge falls on a zero of the CPU's;
\* that ends in id1, for which the CPU releases SDA.
Started == call # "start" \/ step = "fall"

PhaseInv ==
    /\ ~Started /\ Clean => bus.mode = "idle"
    /\ Started => CASE bus.mode = "idle" ->
                         kind = "absent" \/ ~(call \in {"start", "restart"} /\ step = "fall")
                    [] bus.mode = "addr" ->
                         \/ call \in {"start", "restart"} /\ step = "fall" /\ bus.n = 0
                         \/ call \in {"addr_w", "addr_r"} /\ TakesSent
                    [] bus.mode = "reg" ->
                         \/ call \in {"addr_w", "reg"} /\ TakesSent
                         \/ call = "restart" /\ step # "fall" /\ bus.n = Taken
                    [] bus.mode = "acks" ->
                         call = "start" \/ (call \in Writes /\ bit = 9 /\ bus.read = (call = "addr_r"))
                    [] bus.mode = "sends" ->
                         /\ call \notin {"stop", "over"}
                         /\ call = "id1" => bit <= 8 /\ bus.n >= bit
                         /\ call = "id2" => bit <= 8 /\ bus.n = bit
                    [] bus.mode = "listens" ->
                         /\ call \notin {"start", "stop", "over"}
                         /\ call = "restart" => step # "fall"
                         /\ call = "id2" => bit = 9
                         /\ step \in {"sample", "fall"} => bus.ack = (bus.sda = 0)

\* The log ends with the pointer taken, or with that and the repeated START.
EndsReg     == Len(log) >= 1 /\ log[Len(log)] = "reg"
EndsRestart == Len(log) >= 2 /\ log[Len(log) - 1] = "reg" /\ log[Len(log)] = "START"

\* A codec that will send CHIP_ID1 next is on the way of the transfer, and the
\* log shows how far.
FirstInv ==
    (kind # "absent" /\ call # "start" /\ bus.first) =>
        /\ bus.mode # "idle"
        /\ bus.mode = "addr" => call = "addr_w" \/ EndsRestart
        /\ bus.mode = "reg"  => call \in {"addr_w", "reg"} \/ EndsReg
        /\ bus.mode = "acks" => \/ call = "addr_w"
                                \/ call = "reg" /\ EndsReg
                                \/ call = "addr_r" /\ Served(log)

\* What it sends otherwise is not CHIP_ID1, unless that was begun before the
\* iteration and ends with the first byte of it ...
Stale == {Bits(Id2), Bits(255)}

StaleInv == (bus.mode = "sends" /\ call # "start") =>
                \/ bus.byte \in Stale
                \/ call = "addr_w" /\ bus.n >= bit
                \/ call \in Reads /\ Served(log)

\* ... and no tail of it, followed by the ones of a released line, reads as
\* CHIP_ID1 either.
IdInv ==
    ~Served(log) =>
        /\ call = "id1" /\ bus.mode = "sends" =>
              \A j \in 1 .. Read : id["id1"][j] = bus.byte[bus.n - bit + j]
        /\ call = "id1" /\ bus.mode # "sends" =>
              Read <= 5 \/ \E j \in 1 .. Read : id["id1"][j] # BitOf(Id1, j)
        /\ call \in {"id2", "stop", "over"} => id["id1"] # Bits(Id1)

\* The transfer a sound codec takes part in when the bus was free: its mode and
\* what it has logged, at every place of the program.
ModeHere == IF call \in {"stop", "over"} \/ ~Started THEN "idle"
            ELSE IF call \in Writes /\ bit = 9 THEN "acks"
            ELSE IF call \in Reads THEN (IF bit = 9 THEN "listens" ELSE "sends")
            ELSE IF call \in {"addr_w", "addr_r"} \/ (step = "fall" /\ call # "reg") THEN "addr"
            ELSE "reg"

Heard == CASE call = "start"   -> (IF step = "fall" THEN 1 ELSE 0)
           [] call = "addr_w"  -> (IF bit = 9 THEN 2 ELSE 1)
           [] call = "reg"     -> (IF bit = 9 THEN 3 ELSE 2)
           [] call = "restart" -> (IF step = "fall" THEN 4 ELSE 3)
           [] call = "addr_r"  -> (IF bit = 9 THEN 5 ELSE 4)
           [] call = "id1"     -> 5
           [] call = "id2"     -> 6
           [] call = "stop"    -> 7
           [] call = "over"    -> 8

\* The acknowledge of a byte written has been sampled.
After(c) == CASE c = "addr_w" -> {"reg", "restart", "addr_r", "id1", "id2", "stop", "over"}
              [] c = "reg"    -> {"restart", "addr_r", "id1", "id2", "stop", "over"}
              [] c = "addr_r" -> {"id1", "id2", "stop", "over"}

AckSeen(c) == call \in After(c) \/ (call = c /\ bit = 9 /\ step = "fall")

LockInv ==
    Sound /\ Clean =>
        /\ bus.mode = ModeHere
        /\ (call = "reg" /\ bit = 9) \/ call \in {"restart", "addr_r"} => bus.first
        /\ call = "id1" /\ bit <= 8 => bus.n = bit /\ bus.byte = Bits(Id1)
        /\ Len(log) = Heard /\ \A i \in 1 .. Heard : log[i] = Expected[i]
        /\ \A c \in Writes : AckSeen(c) => ack[c] = 0
        /\ call = "id1" => \A j \in 1 .. Read : id["id1"][j] = BitOf(Id1, j)
        /\ call \in {"id2", "stop", "over"} => id["id1"] = Bits(Id1)

\* The flag and the verdict sum up the iterations.
VerdictInv ==
    /\ all_ok => served = iter
    /\ verdict # "none" => iter = Iterations /\ (verdict = "PASS") = all_ok
    /\ Sound /\ resets = 0 => all_ok

I2cInv == /\ I2cTypeOK /\ LineInv /\ CodecInv /\ PhaseInv
          /\ FirstInv /\ StaleInv /\ IdInv /\ LockInv /\ VerdictInv
=============================================================================
