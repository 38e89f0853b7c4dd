---------------------------- MODULE UartLoopback ----------------------------
(***************************************************************************)
(* test_uart_loopback.rs: the CPU pushes a pattern through UART1's TX FIFO,*)
(* a jumper wire and the RX FIFO and reads it back.                        *)
(*                                                                         *)
(* The UART and the wire are external: a byte leaves the TX FIFO at the    *)
(* baud rate, and the wire may lose or corrupt it.  The FIFOs are whatever *)
(* the boot left in them until configure_uart1() resets them, and are deep *)
(* enough (128) for every byte of the test.                                *)
(***************************************************************************)
EXTENDS Integers, Sequences

CONSTANTS Pattern,     \* the bytes sent (the source: 16)
          Stray,       \* the byte written to confirm the FIFO accepts it (0x42)
          Garbled,     \* what a corrupted byte is received as
          TxRoom,      \* txfifo_cnt at which a write waits (120)
          MaxSpins,    \* polls without data before the read gives up (1_000_000)
          FaultyWire,  \* the wire may lose or corrupt bytes
          LongDelay    \* busy_delay outlasts the transmission

ASSUME UartAssumption ==
    /\ Pattern \in Seq(Nat) /\ Pattern # <<>>
    /\ Stray \in Nat /\ Garbled \in Nat
    /\ Pattern[1] # Stray
    /\ TxRoom \in Nat \ {0} /\ MaxSpins \in Nat \ {0}
    /\ FaultyWire \in BOOLEAN /\ LongDelay \in BOOLEAN

N     == Len(Pattern)
\* What the CPU writes once the FIFOs are reset.
Written == <<Stray>> \o Pattern

Bytes == {Pattern[k] : k \in 1 .. N} \cup {Stray, Garbled}

VARIABLES pc,       \* "configure" | "stray" | "send" | "delay" | "read" | "verdict" | "park"
          sent,     \* bytes of the pattern written
          tx, rx,   \* the FIFOs
          rx_buf,   \* rx_buf[..total]
          spins,    \* spin_no_data
          verdict,  \* "none" | "PASS" | "FAIL"
          crossed,  \* history: what came out of the wire since configure_uart1()
          faults    \* history: bytes lost or corrupted since then

cpuVars == <<pc, sent, rx_buf, spins, verdict>>
vars    == <<cpuVars, tx, rx, crossed, faults>>

Leftover == {<<>>} \cup {<<b>> : b \in Bytes}

TypeOK == /\ pc \in {"configure", "stray", "send", "delay", "read", "verdict", "park"}
          /\ sent \in 0 .. N
          /\ tx \in Seq(Bytes) /\ Len(tx) <= TxRoom
          /\ rx \in Seq(Bytes) /\ Len(rx) <= N + 1
          /\ rx_buf \in Seq(Bytes) /\ Len(rx_buf) <= N
          /\ spins \in 0 .. MaxSpins
          /\ verdict \in {"none", "PASS", "FAIL"}
          /\ crossed \in Seq(Bytes) /\ Len(crossed) <= N + 1
          /\ faults \in 0 .. N + 1

Init == /\ pc = "configure" /\ sent = 0
        /\ tx \in Leftover /\ rx \in Leftover
        /\ rx_buf = <<>> /\ spins = 0 /\ verdict = "none"
        /\ crossed = <<>> /\ faults = 0

-----------------------------------------------------------------------------
(***************************************************************************)
(* The CPU.                                                                *)
(***************************************************************************)

\* Mutants of Configure: the TX FIFO, or the RX FIFO, is not reset.
ConfigureRxOnly == /\ pc = "configure"
                   /\ rx' = <<>> /\ pc' = "stray"
                   /\ UNCHANGED <<sent, tx, rx_buf, spins, verdict, crossed, faults>>
ConfigureTxOnly == /\ pc = "configure"
                   /\ tx' = <<>> /\ pc' = "stray"
                   /\ UNCHANGED <<sent, rx, rx_buf, spins, verdict, crossed, faults>>

\* configure_uart1(): rxfifo_rst and txfifo_rst, then 8N1 and the divider.
Configure == /\ pc = "configure"
             /\ tx' = <<>> /\ rx' = <<>>
             /\ pc' = "stray"
             /\ UNCHANGED <<sent, rx_buf, spins, verdict, crossed, faults>>

\* "Write a byte and IMMEDIATELY read STATUS": never taken out again.
WriteStray == /\ pc = "stray"
              /\ tx' = Append(tx, Stray)
              /\ pc' = "send"
              /\ UNCHANGED <<sent, rx, rx_buf, spins, verdict, crossed, faults>>

\* Mutant of WriteByte: the wait for room is dropped.
WriteByteNoWait == /\ pc = "send"
                   /\ tx' = Append(tx, Pattern[sent + 1])
                   /\ sent' = sent + 1
                   /\ pc' = IF sent + 1 = N THEN "delay" ELSE "send"
                   /\ UNCHANGED <<rx, rx_buf, spins, verdict, crossed, faults>>

\* uart1_write_byte(): waits, with no bound, for room in the TX FIFO.
WriteByte == /\ pc = "send"
             /\ Len(tx) < TxRoom
             /\ tx' = Append(tx, Pattern[sent + 1])
             /\ sent' = sent + 1
             /\ pc' = IF sent + 1 = N THEN "delay" ELSE "send"
             /\ UNCHANGED <<rx, rx_buf, spins, verdict, crossed, faults>>

BusyDelay == /\ pc = "delay"
             /\ LongDelay => tx = <<>>
             /\ pc' = "read"
             /\ UNCHANGED <<sent, tx, rx, rx_buf, spins, verdict, crossed, faults>>

Reading == pc = "read" /\ Len(rx_buf) < N /\ spins < MaxSpins

\* Mutant of Spin: spin_no_data is not counted.
SpinUncounted == Reading /\ rx = <<>> /\ UNCHANGED vars

\* uart1_read_byte_nb() = Some(b)
ReadByte == /\ Reading /\ rx # <<>>
            /\ rx_buf' = Append(rx_buf, Head(rx))
            /\ rx' = Tail(rx)
            /\ spins' = 0
            /\ UNCHANGED <<pc, sent, tx, verdict, crossed, faults>>

\* uart1_read_byte_nb() = None
Spin == /\ Reading /\ rx = <<>>
        /\ spins' = spins + 1
        /\ UNCHANGED <<pc, sent, rx_buf, tx, rx, verdict, crossed, faults>>

EndRead == /\ pc = "read" /\ ~Reading
           /\ pc' = "verdict"
           /\ UNCHANGED <<sent, tx, rx, rx_buf, spins, verdict, crossed, faults>>

Verdict == /\ pc = "verdict"
           /\ verdict' = IF rx_buf = Pattern THEN "PASS" ELSE "FAIL"
           /\ pc' = "park"
           /\ UNCHANGED <<sent, tx, rx, rx_buf, spins, crossed, faults>>

Park == pc = "park" /\ UNCHANGED vars

-----------------------------------------------------------------------------
(***************************************************************************)
(* The UART and the wire: external, from how the CPU uses them.  Before    *)
(* configure_uart1() the byte left in the TX FIFO may drain too.           *)
(***************************************************************************)
Drains(received) == /\ tx' = Tail(tx)
                    /\ rx' = rx \o received
                    /\ crossed' = IF pc = "configure" THEN <<>> ELSE crossed \o received
                    /\ UNCHANGED cpuVars

Transfer == /\ tx # <<>>
            /\ Drains(<<Head(tx)>>)
            /\ UNCHANGED faults

Disturb == /\ FaultyWire /\ tx # <<>>
           /\ Drains(<<>>) \/ Drains(<<Garbled>>)
           /\ faults' = IF pc = "configure" THEN 0 ELSE faults + 1

Cpu  == Configure \/ WriteStray \/ WriteByte \/ BusyDelay \/ ReadByte \/ Spin
        \/ EndRead \/ Verdict
Uart == Transfer \/ Disturb
Next == Cpu \/ Uart \/ Park

Spec == Init /\ [][Next]_vars

\* The CPU runs, and UART1's clock, enabled before the FIFOs are used, shifts.
FairSpec == Spec /\ WF_vars(Cpu) /\ WF_vars(Uart)

-----------------------------------------------------------------------------
(***************************************************************************)
(* Properties.                                                             *)
(***************************************************************************)

\* PASS is earned on the wire: the first bytes that came out of it after the
\* FIFO reset were the pattern, in order.  Bytes left in the FIFO by the boot,
\* or a read of an empty FIFO, never stand in for one.
PassMeansRoundTrip ==
    verdict = "PASS" => Len(crossed) >= N /\ SubSeq(crossed, 1, N) = Pattern

\* What the CPU has read and what waits in the RX FIFO are together what came
\* out of the wire: no byte is read twice, skipped or reordered.
NothingReadTwice ==
    pc \notin {"configure"} => crossed = rx_buf \o rx

\* As long as the wire disturbs nothing, what was read is what this run wrote, from
\* its first byte on - the one written only to look at STATUS: no byte the boot left
\* in a FIFO comes before or between, and one that arrives after the spins for it
\* ran out is not taken for another.
ReadsWhatWasWritten ==
    faults = 0 => \A k \in 1 .. Len(rx_buf) : rx_buf[k] = Written[k]

\* The test ends whatever the wire does to the bytes.
EventuallyVerdict == <>(pc = "park")

\* Header of the test (test_uart_loopback.rs:18-25): sixteen of sixteen bytes
\* match, so a wire that carries every byte within the delay makes it pass.
DocSoundWirePasses == ~FaultyWire => verdict # "FAIL"

-----------------------------------------------------------------------------
(***************************************************************************)
(* The inductive invariant behind the safety properties.                   *)
(***************************************************************************)

\* The FIFO reset starts from nothing: what is on the way never exceeds what has
\* been written since, and a byte disturbed is a byte written.
Counted ==
    /\ pc = "configure" => /\ sent = 0 /\ crossed = <<>> /\ rx_buf = <<>> /\ faults = 0
                           /\ Len(tx) + Len(rx) <= 2
    /\ pc = "stray" => /\ sent = 0 /\ tx = <<>> /\ crossed = <<>> /\ faults = 0
    /\ pc = "send" => sent < N
    /\ pc \notin {"configure", "stray"} => /\ Len(crossed) + Len(tx) <= sent + 1
                                           /\ faults + Len(tx) <= sent + 1

\* As long as no byte was disturbed, what has crossed and what waits in the TX FIFO
\* are together the bytes written so far.
InOrder ==
    (faults = 0 /\ pc \notin {"configure", "stray"}) =>
        /\ Len(crossed) + Len(tx) = sent + 1
        /\ \A k \in 1 .. Len(crossed) : crossed[k] = Written[k]
        /\ \A k \in 1 .. Len(tx) : tx[k] = Written[Len(crossed) + k]

Inv == /\ Counted
       /\ InOrder
       /\ NothingReadTwice
       /\ verdict # "none" => pc = "park"
       /\ verdict = "PASS" => rx_buf = Pattern

IInv == TypeOK /\ Inv
=============================================================================
