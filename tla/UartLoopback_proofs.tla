------------------------- MODULE UartLoopback_proofs -------------------------
(***************************************************************************)
(* Proofs about UartLoopback for every pattern, FIFO depth and spin limit: *)
(* type correctness, that the CPU reads what came out of the wire once and *)
(* in order, and that over an undisturbed wire this is what it wrote.      *)
(***************************************************************************)
EXTENDS UartLoopback, SequenceTheorems, TLAPS

\* What is written: the stray byte, then the pattern.
LEMMA WrittenFacts == /\ Written[1] = Stray
                      /\ \A k \in 1 .. N : Written[k + 1] = Pattern[k]
<1>1. /\ Pattern \in Seq(Nat) /\ N \in Nat /\ N = Len(Pattern)
      /\ <<Stray>> \in Seq(Nat) /\ Len(<<Stray>>) = 1 /\ <<Stray>>[1] = Stray
  BY UartAssumption, SMT DEF N
<1>2. /\ Len(Written) = N + 1
      /\ \A k \in 1 .. N + 1 : Written[k] = IF k <= 1 THEN <<Stray>>[k] ELSE Pattern[k - 1]
  BY <1>1, ConcatProperties, SMT DEF Written
<1> QED BY <1>1, <1>2, SMT

LEMMA Constants == /\ N \in Nat \ {0}
                   /\ Stray \in Bytes /\ Garbled \in Bytes
                   /\ \A k \in 1 .. N : Pattern[k] \in Bytes
BY UartAssumption, EmptySeq DEF N, Bytes

\* One byte as a sequence.
LEMMA OneByte == ASSUME NEW S, NEW b \in S
                 PROVE  <<b>> \in Seq(S) /\ Len(<<b>>) = 1 /\ <<b>>[1] = b
BY SMT

\* Taking the head of one queue to the end of another keeps their concatenation.
LEMMA TakeOne == ASSUME NEW S, NEW s \in Seq(S), NEW t \in Seq(S), t # <<>>
                 PROVE  Append(s, Head(t)) \o Tail(t) = s \o t
<1> DEFINE l == Append(s, Head(t)) \o Tail(t)
           r == s \o t
<1>1. Len(s) \in Nat /\ Len(t) \in Nat \ {0}
  BY EmptySeq, LenProperties
<1>2. /\ Head(t) \in S /\ Head(t) = t[1]
      /\ Tail(t) \in Seq(S) /\ Len(Tail(t)) = Len(t) - 1
      /\ \A k \in 1 .. Len(t) - 1 : Tail(t)[k] = t[k + 1]
  BY HeadTailProperties, SMT
<1>3. /\ Append(s, Head(t)) \in Seq(S) /\ Len(Append(s, Head(t))) = Len(s) + 1
      /\ \A k \in 1 .. Len(s) + 1 :
            Append(s, Head(t))[k] = IF k <= Len(s) THEN s[k] ELSE t[1]
  BY <1>2, SMT
<1>4. /\ l \in Seq(S) /\ Len(l) = Len(s) + Len(t)
      /\ \A k \in 1 .. Len(s) + Len(t) :
            l[k] = IF k <= Len(s) + 1 THEN Append(s, Head(t))[k] ELSE Tail(t)[k - (Len(s) + 1)]
  BY <1>1, <1>2, <1>3, ConcatProperties, SMT
<1>5. /\ r \in Seq(S) /\ Len(r) = Len(s) + Len(t)
      /\ \A k \in 1 .. Len(s) + Len(t) : r[k] = IF k <= Len(s) THEN s[k] ELSE t[k - Len(s)]
  BY ConcatProperties
<1> HIDE DEF l, r
<1>6. \A k \in 1 .. Len(l) : l[k] = r[k]
  BY <1>1, <1>2, <1>3, <1>4, <1>5, SMT
<1>7. l = r
  BY <1>4, <1>5, <1>6, SeqEqual
<1> QED BY <1>7 DEF l, r

\* The state variables of TypeOK that are sequences, as the steps below need them.
LEMMA Queues == ASSUME TypeOK
                PROVE  /\ tx \in Seq(Bytes) /\ Len(tx) \in Nat
                       /\ rx \in Seq(Bytes) /\ Len(rx) \in Nat
                       /\ rx_buf \in Seq(Bytes) /\ Len(rx_buf) \in Nat
                       /\ crossed \in Seq(Bytes) /\ Len(crossed) \in Nat
                       /\ tx # <<>> => Len(tx) > 0
BY EmptySeq, LenProperties DEF TypeOK

LEMMA InitInv == Init => IInv
<1> SUFFICES ASSUME Init PROVE IInv
  OBVIOUS
<1>1. ASSUME NEW q \in Leftover PROVE q \in Seq(Bytes) /\ Len(q) \in Nat /\ Len(q) <= 1
  <2>1. CASE q = <<>>
    BY <2>1, EmptySeq
  <2>2. CASE q # <<>>
    <3>1. PICK b \in Bytes : q = <<b>>
      BY <2>2, Zenon DEF Leftover
    <3> QED BY <3>1, OneByte
  <2> QED BY <2>1, <2>2
<1>2. /\ tx \in Seq(Bytes) /\ Len(tx) \in Nat /\ Len(tx) <= 1
      /\ rx \in Seq(Bytes) /\ Len(rx) \in Nat /\ Len(rx) <= 1
  BY <1>1 DEF Init
<1>3. <<>> \in Seq(Bytes) /\ Len(<<>>) = 0
  BY EmptySeq
<1>4. /\ pc = "configure" /\ verdict = "none" /\ sent = 0 /\ spins = 0 /\ faults = 0
      /\ rx_buf \in Seq(Bytes) /\ Len(rx_buf) = 0 /\ crossed \in Seq(Bytes) /\ Len(crossed) = 0
  BY <1>3 DEF Init
<1>5. TypeOK
  BY <1>2, <1>4, Constants, UartAssumption, SMT DEF TypeOK
<1>6. Len(tx) + Len(rx) <= 2
  BY <1>2, SMT
<1>7. Inv
  BY <1>4, <1>6 DEF Init, Inv, Counted, InOrder, NothingReadTwice
<1> QED BY <1>5, <1>7 DEF IInv

\* One step of the CPU keeps the invariant.
LEMMA CpuInv == ASSUME IInv, Cpu PROVE IInv'
<1> USE Constants, UartAssumption, Queues DEF IInv
<1>0. <<>> \in Seq(Bytes) /\ Len(<<>>) = 0
  BY EmptySeq
<1>1. CASE Configure
  BY <1>0, <1>1, SMT DEF Configure, TypeOK, Inv, Counted, InOrder, NothingReadTwice
<1>2. CASE WriteStray
  <2>1. tx = <<>> /\ tx' = Append(tx, Stray)
    BY <1>2 DEF WriteStray, Inv, Counted
  <2>2. tx' \in Seq(Bytes) /\ Len(tx') = 1 /\ tx'[1] = Stray
    BY <1>0, <2>1, SMT
  <2>3. /\ Len(crossed') = 0 /\ sent' = 0 /\ \A j \in 1 .. 1 : tx'[j] = Written[0 + j]
    BY <1>0, <1>2, <2>2, WrittenFacts, SMT DEF WriteStray, Inv, Counted
  <2>4. InOrder'
    BY <2>2, <2>3, SMT DEF InOrder
  <2> QED BY <1>2, <2>2, <2>4, SMT
          DEF WriteStray, TypeOK, Inv, Counted, NothingReadTwice
<1>3. CASE WriteByte
  <2>1. sent + 1 \in 1 .. N /\ Pattern[sent + 1] \in Bytes
    BY <1>3, SMT DEF WriteByte, TypeOK, Inv, Counted
  <2>2. /\ tx' \in Seq(Bytes) /\ Len(tx') = Len(tx) + 1
        /\ \A j \in 1 .. Len(tx) + 1 :
              tx'[j] = IF j <= Len(tx) THEN tx[j] ELSE Pattern[sent + 1]
    BY <1>3, <2>1, SMT DEF WriteByte, TypeOK
  <2>3. TypeOK'
    BY <1>3, <2>1, <2>2, SMT DEF WriteByte, TypeOK
  <2>4. Counted'
    <3>1. /\ pc = "send" /\ sent' = sent + 1 /\ sent \in 0 .. N /\ faults \in Nat
          /\ faults' = faults /\ crossed' = crossed
          /\ pc' = IF sent + 1 = N THEN "delay" ELSE "send"
      BY <1>3, SMT DEF WriteByte, TypeOK
    <3> QED BY <2>1, <2>2, <3>1, SMT DEF Inv, Counted
  <2>5. InOrder'
    <3> SUFFICES ASSUME faults' = 0
                 PROVE  /\ Len(crossed') + Len(tx') = sent' + 1
                        /\ \A j \in 1 .. Len(crossed') : crossed'[j] = Written[j]
                        /\ \A j \in 1 .. Len(tx') : tx'[j] = Written[Len(crossed') + j]
      BY DEF InOrder
    <3>1. /\ crossed' = crossed /\ sent' = sent + 1 /\ sent \in Nat
          /\ Len(crossed) + Len(tx) = sent + 1
          /\ \A j \in 1 .. Len(crossed) : crossed[j] = Written[j]
          /\ \A j \in 1 .. Len(tx) : tx[j] = Written[Len(crossed) + j]
      <4>1. /\ pc = "send" /\ faults = 0 /\ crossed' = crossed /\ sent' = sent + 1
            /\ sent \in Nat
        BY <1>3, SMT DEF WriteByte, TypeOK
      <4> QED BY <4>1 DEF Inv, InOrder
    <3>2. Written[sent + 2] = Pattern[sent + 1]
      BY <2>1, <3>1, WrittenFacts, SMT
    <3>3. ASSUME NEW j \in 1 .. Len(tx) + 1
          PROVE  tx'[j] = Written[Len(crossed) + j]
      <4>1. CASE j <= Len(tx)
        <5>1. j \in 1 .. Len(tx) /\ tx'[j] = tx[j]
          BY <2>2, <4>1, SMT
        <5> QED BY <3>1, <5>1
      <4>2. CASE j = Len(tx) + 1
        <5>1. Len(crossed) + j = sent + 2 /\ tx'[j] = Pattern[sent + 1]
          BY <2>2, <3>1, <4>2, SMT
        <5> QED BY <3>2, <5>1
      <4> QED BY <4>1, <4>2, SMT
    <3>4. Len(crossed) + (Len(tx) + 1) = (sent + 1) + 1
      BY <3>1, SMT
    <3> QED BY <2>2, <3>1, <3>3, <3>4
  <2>6. UNCHANGED <<rx, rx_buf, verdict, crossed>> /\ pc = "send" /\ verdict = "none"
    BY <1>3 DEF WriteByte, Inv
  <2>7. NothingReadTwice'
    BY <2>6 DEF Inv, NothingReadTwice
  <2> QED BY <2>3, <2>4, <2>5, <2>6, <2>7 DEF Inv
<1>4. CASE BusyDelay
  BY <1>4, SMT DEF BusyDelay, TypeOK, Inv, Counted, InOrder, NothingReadTwice
<1>5. CASE ReadByte
  <2>1. /\ Head(rx) \in Bytes /\ Tail(rx) \in Seq(Bytes) /\ Len(Tail(rx)) = Len(rx) - 1
        /\ Append(rx_buf, Head(rx)) \in Seq(Bytes)
        /\ Len(Append(rx_buf, Head(rx))) = Len(rx_buf) + 1
    BY <1>5, HeadTailProperties, SMT DEF ReadByte
  <2>2. Append(rx_buf, Head(rx)) \o Tail(rx) = rx_buf \o rx
    BY <1>5, TakeOne DEF ReadByte
  <2>3. TypeOK'
    BY <1>5, <2>1, SMT DEF ReadByte, Reading, TypeOK
  <2>4. NothingReadTwice'
    BY <1>5, <2>2 DEF ReadByte, Reading, Inv, NothingReadTwice
  <2>5. Inv'
    BY <1>5, <2>4, SMT DEF ReadByte, Reading, TypeOK, Inv, Counted, InOrder
  <2> QED BY <2>3, <2>5
<1>6. CASE Spin
  BY <1>6, SMT DEF Spin, Reading, TypeOK, Inv, Counted, InOrder, NothingReadTwice
<1>7. CASE EndRead
  BY <1>7, SMT DEF EndRead, TypeOK, Inv, Counted, InOrder, NothingReadTwice
<1>8. CASE Verdict
  BY <1>8, SMT DEF Verdict, TypeOK, Inv, Counted, InOrder, NothingReadTwice
<1> QED BY <1>1, <1>2, <1>3, <1>4, <1>5, <1>6, <1>7, <1>8 DEF Cpu

\* What a byte on the wire does to the bookkeeping, whether it arrives as it was
\* or not.
LEMMA DrainsInv ==
    ASSUME IInv, tx # <<>>, NEW received, Drains(received),
           \/ received = <<>>
           \/ \E b \in Bytes : received = <<b>>,
           \/ received = <<Head(tx)>> /\ UNCHANGED faults
           \/ faults' = IF pc = "configure" THEN 0 ELSE faults + 1
    PROVE  IInv'
<1> USE Constants, UartAssumption DEF IInv
<1>1. /\ tx \in Seq(Bytes) /\ rx \in Seq(Bytes) /\ rx_buf \in Seq(Bytes)
      /\ crossed \in Seq(Bytes) /\ received \in Seq(Bytes)
      /\ Len(received) \in Nat /\ Len(received) <= 1 /\ Len(rx_buf) \in Nat /\ Len(rx) \in Nat
      /\ Len(tx) \in Nat /\ Len(tx) >= 1 /\ Len(crossed) \in Nat
  <2>1. CASE received = <<>>
    BY <2>1, EmptySeq, Queues, SMT
  <2>2. CASE received # <<>>
    <3>1. PICK b \in Bytes : received = <<b>>
      BY <2>2, HeadTailProperties, Queues, Zenon
    <3>2. received \in Seq(Bytes) /\ Len(received) = 1
      BY <3>1, OneByte
    <3> QED BY <3>2, Queues, SMT
  <2> QED BY <2>1, <2>2
<1>2. /\ Tail(tx) \in Seq(Bytes) /\ Len(Tail(tx)) = Len(tx) - 1 /\ Head(tx) = tx[1]
  BY <1>1, HeadTailProperties, SMT
<1>3. /\ rx \o received \in Seq(Bytes) /\ Len(rx \o received) = Len(rx) + Len(received)
      /\ crossed \o received \in Seq(Bytes)
      /\ Len(crossed \o received) = Len(crossed) + Len(received)
  BY <1>1, ConcatProperties
<1>4. (rx_buf \o rx) \o received = rx_buf \o (rx \o received)
  BY ONLY <1>1, SMT
<1>5. Len(rx_buf \o rx) = Len(rx_buf) + Len(rx)
  BY <1>1, ConcatProperties
<1>6. /\ tx' \in Seq(Bytes) /\ Len(tx') = Len(tx) - 1
      /\ rx' \in Seq(Bytes) /\ Len(rx') = Len(rx) + Len(received)
      /\ UNCHANGED <<pc, sent, rx_buf, spins, verdict>>
  BY <1>2, <1>3 DEF Drains, cpuVars
<1>7. CASE pc = "configure"
  <2>1. /\ crossed' = <<>> /\ crossed' \in Seq(Bytes) /\ Len(crossed') = 0 /\ faults' = 0
        /\ sent = 0 /\ rx_buf = <<>> /\ Len(tx) + Len(rx) <= 2 /\ faults = 0
    BY <1>7, EmptySeq DEF Drains, Inv, Counted
  <2>2. Len(tx') + Len(rx') <= 2
    BY <1>1, <1>6, <2>1, SMT
  <2>3. TypeOK'
    BY <1>1, <1>6, <2>1, SMT DEF TypeOK
  <2>4. Inv'
    BY <1>6, <1>7, <2>1, <2>2 DEF Inv, Counted, InOrder, NothingReadTwice
  <2> QED BY <2>3, <2>4
<1>8. CASE pc # "configure"
  <2>1. pc # "stray"
    BY SMT DEF Inv, Counted
  <2>2. crossed' = crossed \o received /\ crossed = rx_buf \o rx
    BY <1>8 DEF Drains, Inv, NothingReadTwice
  <2>3. NothingReadTwice'
    BY <1>4, <1>6, <2>2 DEF Drains, NothingReadTwice
  <2>4. crossed' \in Seq(Bytes) /\ Len(crossed') = Len(crossed) + Len(received)
    BY <1>3, <2>2
  <2>5. /\ faults' \in Nat /\ faults' <= faults + 1
        /\ faults \in Nat /\ sent \in 0 .. N
    BY <1>8, SMT DEF TypeOK
  <2>6. /\ Len(crossed) + Len(tx) <= sent + 1
        /\ faults + Len(tx) <= sent + 1
    BY <1>8, <2>1 DEF Inv, Counted
  <2>7. /\ Len(crossed') + Len(tx') <= sent' + 1
        /\ faults' + Len(tx') <= sent' + 1
    <3>1. sent' = sent
      BY <1>6
    <3>2. Len(crossed') + Len(tx') <= sent + 1
      BY ONLY <1>1, <1>6, <2>4, <2>5, <2>6, SMT
    <3>3. faults' + Len(tx') <= sent + 1
      BY ONLY <1>1, <1>6, <2>5, <2>6, SMT
    <3> QED BY <3>1, <3>2, <3>3
  <2>8. Counted'
    BY <1>6, <1>8, <2>1, <2>7 DEF Inv, Counted
  <2>9. TypeOK'
    <3>1. sent' = sent /\ sent <= N /\ Len(rx_buf) <= N /\ Len(tx) <= TxRoom
      BY <1>6, SMT DEF TypeOK
    <3>2. Len(tx') \in Nat /\ Len(rx') \in Nat /\ Len(crossed') \in Nat
      BY ONLY <1>1, <1>6, <2>4, SMT
    <3>3. Len(crossed') <= N + 1 /\ faults' <= N + 1
      BY ONLY Constants, <2>5, <2>7, <3>1, <3>2, SMT
    <3>4. Len(rx') <= Len(crossed')
      <4>1. Len(crossed) = Len(rx_buf) + Len(rx)
        BY <1>5, <2>2
      <4> QED BY ONLY <1>1, <1>6, <2>4, <4>1, SMT
    <3>5. Len(rx') <= N + 1
      BY ONLY Constants, <3>2, <3>3, <3>4, SMT
    <3>6. Len(tx') <= TxRoom
      BY ONLY UartAssumption, <1>1, <1>6, <3>1, SMT
    <3> QED BY <1>6, <2>4, <2>5, <3>3, <3>5, <3>6, SMT DEF TypeOK
  <2>10. InOrder'
    <3> SUFFICES ASSUME faults' = 0
                 PROVE  /\ Len(crossed') + Len(tx') = sent' + 1
                        /\ \A j \in 1 .. Len(crossed') : crossed'[j] = Written[j]
                        /\ \A j \in 1 .. Len(tx') : tx'[j] = Written[Len(crossed') + j]
      BY DEF InOrder
    <3>1. faults = 0 /\ received = <<Head(tx)>>
      BY <1>8, <2>5, SMT
    <3>2. /\ Len(crossed) + Len(tx) = sent + 1
          /\ \A j \in 1 .. Len(crossed) : crossed[j] = Written[j]
          /\ \A j \in 1 .. Len(tx) : tx[j] = Written[Len(crossed) + j]
      BY <1>8, <2>1, <3>1 DEF Inv, InOrder
    <3>3. /\ Len(received) = 1
          /\ \A j \in 1 .. Len(crossed) + 1 :
                crossed'[j] = IF j <= Len(crossed) THEN crossed[j] ELSE tx[1]
      <4>1. crossed' = Append(crossed, tx[1])
        BY <1>1, <1>2, <2>2, <3>1, SMT
      <4>2. Len(received) = 1 /\ tx[1] \in Bytes
        BY <1>1, <1>2, <3>1, SMT
      <4> QED BY ONLY <1>1, <4>1, <4>2, SMT
    <3>4. \A j \in 1 .. Len(tx) - 1 : tx'[j] = tx[j + 1]
      BY <1>1, HeadTailProperties, SMT DEF Drains
    <3>5. Len(crossed') = Len(crossed) + 1 /\ Len(tx') = Len(tx) - 1 /\ sent' = sent
      BY <1>6, <2>4, <3>3
    <3>6. \A j \in 1 .. Len(crossed') : crossed'[j] = Written[j]
      <4>1. tx[1] = Written[Len(crossed) + 1]
        <5>1. 1 \in 1 .. Len(tx)
          BY <1>1, SMT
        <5> QED BY <3>2, <5>1
      <4> SUFFICES ASSUME NEW j \in 1 .. Len(crossed) + 1 PROVE crossed'[j] = Written[j]
        BY <3>5
      <4>2. CASE j <= Len(crossed)
        <5>1. j \in 1 .. Len(crossed) /\ crossed'[j] = crossed[j]
          BY <1>1, <3>3, <4>2, SMT
        <5> QED BY <3>2, <5>1
      <4>3. CASE ~(j <= Len(crossed))
        <5>1. j = Len(crossed) + 1 /\ crossed'[j] = tx[1]
          BY <1>1, <3>3, <4>3, SMT
        <5> QED BY <4>1, <5>1
      <4> QED BY <4>2, <4>3
    <3>7. \A j \in 1 .. Len(tx') : tx'[j] = Written[Len(crossed') + j]
      <4> SUFFICES ASSUME NEW j \in 1 .. Len(tx) - 1
                   PROVE  tx'[j] = Written[(Len(crossed) + 1) + j]
        BY <3>5
      <4>1. j + 1 \in 1 .. Len(tx) /\ Len(crossed) + (j + 1) = (Len(crossed) + 1) + j
        BY <1>1, SMT
      <4> QED BY <3>2, <3>4, <4>1
    <3>8. Len(crossed') + Len(tx') = sent' + 1
      BY ONLY <1>1, <2>5, <3>2, <3>5, SMT
    <3> QED BY <3>6, <3>7, <3>8
  <2> QED BY <1>6, <2>3, <2>8, <2>9, <2>10 DEF Inv
<1> QED BY <1>7, <1>8

LEMMA UartInv == ASSUME IInv, Uart PROVE IInv'
<1>1. CASE Transfer
  <2>1. tx # <<>> /\ Head(tx) \in Bytes
    BY <1>1, HeadTailProperties DEF Transfer, IInv, TypeOK
  <2> QED BY <1>1, <2>1, DrainsInv DEF Transfer
<1>2. CASE Disturb
  BY <1>2, Constants, DrainsInv DEF Disturb
<1> QED BY <1>1, <1>2 DEF Uart

LEMMA StepInv == IInv /\ [Next]_vars => IInv'
<1> SUFFICES ASSUME IInv, [Next]_vars PROVE IInv'
  OBVIOUS
<1>1. CASE UNCHANGED vars
  BY <1>1, SMT DEF vars, cpuVars, IInv, TypeOK, Inv, Counted, InOrder, NothingReadTwice
<1> QED BY <1>1, CpuInv, UartInv DEF Next, Park

\* The FIFO bookkeeping: bytes on the way are bytes written, in the order of writing
\* while none is disturbed, and what was read is what came out of the wire.
THEOREM InvCorrect == Spec => []IInv
<1> QED BY InitInv, StepInv, PTL DEF Spec

\* No FIFO holds more than the program's waits allow.
THEOREM TypeCorrect == Spec => []TypeOK
<1> QED BY InvCorrect, PTL DEF IInv

\* For every pattern and every wire: no byte is read twice, skipped or reordered.
THEOREM ReadsAreTheWire == Spec => []NothingReadTwice
<1>1. Inv => NothingReadTwice
  BY DEF Inv
<1> QED BY <1>1, InvCorrect, PTL DEF IInv

\* PASS means that the pattern itself came out of the wire, in order.
THEOREM PassIsARoundTrip == Spec => []PassMeansRoundTrip
<1>1. TypeOK /\ Inv => PassMeansRoundTrip
  <2> SUFFICES ASSUME TypeOK, Inv, verdict = "PASS"
               PROVE  Len(crossed) >= N /\ SubSeq(crossed, 1, N) = Pattern
    BY DEF PassMeansRoundTrip
  <2>1. /\ rx_buf = Pattern /\ crossed = Pattern \o rx
        /\ Pattern \in Seq(Bytes) /\ rx \in Seq(Bytes) /\ crossed \in Seq(Bytes)
    BY SMT DEF TypeOK, Inv, NothingReadTwice
  <2>2. /\ Len(crossed) = N + Len(rx) /\ Len(rx) \in Nat /\ N \in Nat
        /\ \A k \in 1 .. N : crossed[k] = Pattern[k]
    BY <2>1, ConcatProperties, LenProperties, SMT DEF N
  <2>3. /\ SubSeq(crossed, 1, N) \in Seq(Bytes)
        /\ Len(SubSeq(crossed, 1, N)) = N
        /\ \A k \in 1 .. N : SubSeq(crossed, 1, N)[k] = Pattern[k]
    BY <2>1, <2>2, SMT
  <2> QED BY <2>1, <2>2, <2>3, SeqEqual DEF N
<1> QED BY <1>1, InvCorrect, PTL DEF IInv

\* For every pattern: over a wire that has disturbed nothing the test reads what it
\* wrote, the byte of the STATUS check first.
THEOREM ReadsAreInOrder == Spec => []ReadsWhatWasWritten
<1>1. TypeOK /\ Inv => ReadsWhatWasWritten
  <2> SUFFICES ASSUME TypeOK, Inv, faults = 0, NEW k \in 1 .. Len(rx_buf)
               PROVE  rx_buf[k] = Written[k]
    BY DEF ReadsWhatWasWritten
  <2>1. pc \notin {"configure", "stray"}
    <3>1. pc = "configure" => Len(rx_buf) = 0
      BY EmptySeq DEF Inv, Counted
    <3>2. pc = "stray" => crossed = rx_buf \o rx /\ Len(crossed) = 0
      BY EmptySeq DEF Inv, Counted, NothingReadTwice
    <3>3. Len(rx_buf \o rx) = Len(rx_buf) + Len(rx) /\ Len(rx) \in Nat /\ Len(rx_buf) \in Nat
      BY Queues, ConcatProperties
    <3> QED BY <3>1, <3>2, <3>3, SMT
  <2>2. /\ crossed = rx_buf \o rx
        /\ \A j \in 1 .. Len(crossed) : crossed[j] = Written[j]
    BY <2>1 DEF Inv, NothingReadTwice, InOrder
  <2>3. k \in 1 .. Len(crossed) /\ crossed[k] = rx_buf[k]
    BY <2>2, Queues, ConcatProperties, SMT
  <2> QED BY <2>2, <2>3
<1> QED BY <1>1, InvCorrect, PTL DEF IInv
=============================================================================
