------------------------- MODULE DmaMem2Mem_proofs -------------------------
(***************************************************************************)
(* Proofs about DmaMem2Mem for any number of channels, transfer size, poll *)
(* bound and FIFO depth.  Inv (in DmaMem2Mem) is inductive: it follows the *)
(* CPU through dma_mem2mem_test and says of each engine that it is         *)
(* untouched, delivered, under test, or left running by a timeout.         *)
(***************************************************************************)
EXTENDS DmaMem2Mem, TLAPS

LEMMA PatternType == ASSUME NEW c \in Channels, NEW k \in Index
                     PROVE  Pattern(c, k) \in Byte
<1>1. c \in Nat /\ k \in Nat /\ Step \in Nat
  BY DmaAssumption DEF Channels, Index
<1>2. c * Step \in Nat
  BY <1>1
<1>3. k + c * Step \in Nat
  BY <1>1, <1>2
<1> QED BY <1>3, DmaAssumption DEF Pattern, Byte

LEMMA ChInRange == ASSUME TypeOK, Progress, pc \notin {"pass", "fail"}
                   PROVE  ch \in Channels
BY DmaAssumption DEF TypeOK, Progress, Channels

(***************************************************************************)
(* Types.                                                                  *)
(***************************************************************************)

LEMMA TypeInit == Init => TypeOK
BY DmaAssumption DEF Init, TypeOK, Channels, Index, Byte

LEMMA TypeStep == TypeOK /\ Progress /\ Engines /\ [Next]_vars => TypeOK'
<1> SUFFICES ASSUME TypeOK, Progress, Engines, [Next]_vars PROVE TypeOK'
  OBVIOUS
<1> USE DmaAssumption DEF engVars, cpuVars
<1>1. CASE Fill
  <2>1. ch \in Channels /\ i \in Index
    BY <1>1, ChInRange DEF Fill, Progress, TypeOK, Index
  <2>2. Pattern(ch, i) \in Byte /\ 0 \in Byte
    BY <2>1, PatternType DEF Byte
  <2>3. src' \in [Index -> Byte] /\ dst' \in [Index -> Byte]
    BY <1>1, <2>2 DEF Fill, TypeOK
  <2> QED BY <1>1, <2>1, <2>3 DEF Fill, TypeOK, Index
<1>2. CASE Reset
  <2>1. ch \in Channels
    BY <1>2, ChInRange DEF Reset
  <2>2. [k \in Index |-> 0] \in [Index -> Byte]
    BY DEF Byte
  <2>3. hold' \in [Channels -> [Index -> Byte]]
    BY <1>2, <2>1, <2>2 DEF Reset, TypeOK
  <2> QED BY <1>2, <2>1, <2>3 DEF Reset, TypeOK
<1>3. CASE StartIn
  BY <1>3 DEF StartIn, TypeOK
<1>4. CASE StartOut
  <2>1. ch \in Channels
    BY <1>4, ChInRange DEF StartOut
  <2> QED BY <1>4, <2>1 DEF StartOut, TypeOK
<1>5. CASE Poll
  <2>1. ch \in Channels
    BY <1>5, ChInRange DEF Poll
  <2> QED BY <1>5, <2>1 DEF Poll, Return, TypeOK, Progress
<1>6. CASE Clear
  <2>1. ch \in Channels
    BY <1>6, ChInRange DEF Clear
  <2> QED BY <1>6, <2>1 DEF Clear, TypeOK
<1>7. CASE Verify
  <2>1. ch \in Channels
    BY <1>7, ChInRange DEF Verify
  <2>2. errors' \in 0 .. XferSize
    BY <1>7 DEF Verify, TypeOK, Progress
  <2>3. i' \in 0 .. XferSize
    BY <1>7 DEF Verify, TypeOK, Progress
  <2>4. result' \in [Channels -> {"none", "ok", "mismatch", "timeout"}]
    BY <1>7, <2>1 DEF Verify, Return, TypeOK
  <2> QED BY <1>7, <2>2, <2>3, <2>4 DEF Verify, Return, TypeOK
<1>8. CASE NextChannel
  <2>1. ch \in Channels
    BY <1>8, ChInRange DEF NextChannel
  <2> QED BY <1>8, <2>1 DEF NextChannel, TypeOK, Channels
<1>9. ASSUME NEW c \in Channels, EngineRead(c) PROVE TypeOK'
  <2>1. rd[c] \in Index /\ src[rd[c]] \in Byte
    BY <1>9 DEF EngineRead, TypeOK, Index
  <2> QED BY <1>9, <2>1 DEF EngineRead, TypeOK, Index
<1>10. ASSUME NEW c \in Channels, EngineWrite(c) PROVE TypeOK'
  <2>1. wr[c] \in Index /\ 0 \in Byte
    BY <1>10 DEF EngineWrite, TypeOK, Index, Byte
  <2>2. bad' \in [Channels -> SUBSET Index]
    BY <1>10, <2>1 DEF EngineWrite, TypeOK
  <2>3. dst' \in [Index -> Byte]
    BY <1>10, <2>1 DEF EngineWrite, TypeOK
  <2> QED BY <1>10, <2>1, <2>2, <2>3 DEF EngineWrite, TypeOK, Index
<1>11. ASSUME NEW c \in Channels, EngineEof(c) PROVE TypeOK'
  BY <1>11 DEF EngineEof, TypeOK
<1>12. CASE UNCHANGED vars
  BY <1>12 DEF vars, TypeOK
<1> QED BY <1>1, <1>2, <1>3, <1>4, <1>5, <1>6, <1>7, <1>8, <1>9, <1>10, <1>11, <1>12
        DEF Next, Cpu, Engine, Halted

(***************************************************************************)
(* Where the CPU is and what it has recorded.                              *)
(***************************************************************************)

\* The engines never touch the CPU's variables.
LEMMA EngineFrame == ASSUME NEW c \in Channels, Engine(c) PROVE UNCHANGED cpuVars
BY DEF Engine, EngineRead, EngineWrite, EngineEof

LEMMA ProgressStep == TypeOK /\ Progress /\ [Next]_vars => Progress'
<1> SUFFICES ASSUME TypeOK, Progress, [Next]_vars PROVE Progress'
  OBVIOUS
<1> USE DmaAssumption DEF Progress
<1>1. CASE Fill
  BY <1>1 DEF Fill, TypeOK
<1>2. CASE Reset
  BY <1>2 DEF Reset, TypeOK
<1>3. CASE StartIn
  BY <1>3 DEF StartIn, TypeOK
<1>4. CASE StartOut
  BY <1>4 DEF StartOut, TypeOK
<1>5. CASE Poll
  <2>1. ch \in Channels
    BY <1>5, ChInRange DEF Poll
  <2> QED BY <1>5, <2>1 DEF Poll, Return, TypeOK
<1>6. CASE Clear
  BY <1>6 DEF Clear, TypeOK
<1>7. CASE Verify
  <2>1. ch \in Channels
    BY <1>7, ChInRange DEF Verify
  <2>2. CASE i + 1 = XferSize
    <3> DEFINE r == IF errors' = 0 THEN "ok" ELSE "mismatch"
    <3>1. /\ result' = [result EXCEPT ![ch] = r]
          /\ all_pass' = (all_pass /\ r = "ok")
          /\ pc' = "next" /\ i' = 0 /\ UNCHANGED <<ch, timeout>>
      BY <1>7, <2>2 DEF Verify, Return
    <3>2. r \in {"ok", "mismatch"}
      OBVIOUS
    <3> HIDE DEF r
    <3>3. all_pass' <=> \A c \in Channels : result'[c] \in {"none", "ok"}
      BY <1>7, <2>1, <3>1, <3>2 DEF Verify, TypeOK
    <3> QED BY <1>7, <2>1, <3>1, <3>2, <3>3 DEF Verify, TypeOK
  <2>3. CASE i + 1 # XferSize
    BY <1>7, <2>1, <2>3 DEF Verify, Return, TypeOK
  <2> QED BY <2>2, <2>3
<1>8. CASE NextChannel
  <2>1. ch \in Channels
    BY <1>8, ChInRange DEF NextChannel
  <2> QED BY <1>8, <2>1 DEF NextChannel, TypeOK, Channels
<1>9. ASSUME NEW c \in Channels, Engine(c) PROVE Progress'
  BY <1>9, EngineFrame DEF cpuVars
<1>10. CASE UNCHANGED vars
  BY <1>10 DEF vars, cpuVars
<1> QED BY <1>1, <1>2, <1>3, <1>4, <1>5, <1>6, <1>7, <1>8, <1>9, <1>10
        DEF Next, Cpu, Halted

(***************************************************************************)
(* The engines.                                                            *)
(***************************************************************************)

LEMMA EnginesStep == TypeOK /\ Progress /\ Engines /\ [Next]_vars => Engines'
<1> SUFFICES ASSUME TypeOK, Progress, Engines, [Next]_vars PROVE Engines'
  OBVIOUS
<1> USE DmaAssumption DEF Engines, Busy, Delivered, engVars
<1>1. CASE Fill
  BY <1>1 DEF Fill, TypeOK
<1>2. CASE Reset
  <2>1. ch \in Channels /\ ~suc_eof[ch] /\ result[ch] = "none"
    BY <1>2, ChInRange DEF Reset, Progress
  <2> QED BY <1>2, <2>1 DEF Reset, TypeOK
<1>3. CASE StartIn
  <2>1. ch \in Channels /\ ~suc_eof[ch] /\ result[ch] = "none"
    BY <1>3, ChInRange DEF StartIn, Progress
  <2> QED BY <1>3, <2>1 DEF StartIn, TypeOK
<1>4. CASE StartOut
  <2>1. ch \in Channels /\ result[ch] = "none"
    BY <1>4, ChInRange DEF StartOut, Progress
  <2>2. ~suc_eof[ch]
    BY <1>4, <2>1 DEF StartOut, TypeOK
  <2> QED BY <1>4, <2>1, <2>2 DEF StartOut, TypeOK
<1>5. CASE Poll
  <2>1. ch \in Channels
    BY <1>5, ChInRange DEF Poll
  <2> QED BY <1>5, <2>1 DEF Poll, Return, TypeOK
<1>6. CASE Clear
  <2>1. ch \in Channels
    BY <1>6, ChInRange DEF Clear
  <2> QED BY <1>6, <2>1 DEF Clear, TypeOK
<1>7. CASE Verify
  <2>1. ch \in Channels
    BY <1>7, ChInRange DEF Verify
  <2> QED BY <1>7, <2>1 DEF Verify, Return, TypeOK
<1>8. CASE NextChannel
  BY <1>8 DEF NextChannel, TypeOK, Channels
<1>9. ASSUME NEW c \in Channels, EngineRead(c) PROVE Engines'
  BY <1>9 DEF EngineRead, TypeOK, cpuVars
<1>10. ASSUME NEW c \in Channels, EngineWrite(c) PROVE Engines'
  <2>1. ~suc_eof[c] /\ result[c] \notin {"ok", "mismatch"}
        /\ (c = ch => pc \notin {"clear", "verify"})
    BY <1>10 DEF EngineWrite
  <2>2. wr'[c] = wr[c] + 1 /\ \A k \in bad'[c] : k < wr[c] \/ k = wr[c]
    BY <1>10 DEF EngineWrite, TypeOK
  <2>3. \A b \in Channels : wr'[b] <= rd'[b] /\ \A k \in bad'[b] : k < wr'[b]
    <3>1. ASSUME NEW b \in Channels, b # c
          PROVE  wr'[b] = wr[b] /\ bad'[b] = bad[b] /\ rd' = rd
      BY <1>10, <3>1 DEF EngineWrite, TypeOK
    <3>2. \A k \in bad'[c] : k \in Nat /\ wr[c] \in Nat
      BY <1>10, TypeStep DEF Next, Engine, TypeOK, Index
    <3> QED BY <1>10, <2>2, <3>1, <3>2 DEF EngineWrite, TypeOK
  <2> QED BY <1>10, <2>1, <2>2, <2>3 DEF EngineWrite, TypeOK, cpuVars
<1>11. ASSUME NEW c \in Channels, EngineEof(c) PROVE Engines'
  BY <1>11 DEF EngineEof, TypeOK, cpuVars
<1>12. CASE UNCHANGED vars
  BY <1>12 DEF vars, cpuVars
<1> QED BY <1>1, <1>2, <1>3, <1>4, <1>5, <1>6, <1>7, <1>8, <1>9, <1>10, <1>11, <1>12
        DEF Next, Cpu, Engine, Halted

(***************************************************************************)
(* Without a timeout the engines of the other channels are quiet.          *)
(***************************************************************************)

LEMMA OthersQuiet ==
    ASSUME TypeOK, Progress, Engines, NoTimeout, NEW c \in Channels, Busy(c)
    PROVE  c = ch /\ pc \in {"start_out", "poll"}
<1> USE DmaAssumption DEF Channels
<1>1. result[c] \in {"none", "ok", "mismatch"}
  BY DEF NoTimeout, TimedOut, TypeOK
<1>2. result[c] = "none"
  BY <1>1 DEF Engines, Delivered
<1>3. c > ch \/ (c = ch /\ pc # "next")
  BY <1>2 DEF Progress
<1>4. ~(c > ch) /\ pc \notin {"fill", "reset", "start_in"}
  BY <1>3 DEF Engines, TypeOK
<1>5. pc \notin {"clear", "verify"}
  BY <1>3, <1>4 DEF Engines, Delivered
<1>6. pc \notin {"pass", "fail"}
  BY <1>3, <1>4 DEF Progress, TypeOK
<1> QED BY <1>3, <1>4, <1>5, <1>6 DEF TypeOK

LEMMA TimeoutsStay == TypeOK /\ Progress /\ [Next]_vars /\ ~NoTimeout => ~NoTimeout'
<1> SUFFICES ASSUME TypeOK, Progress, [Next]_vars,
                    NEW c \in Channels, TimedOut(c)
             PROVE  TimedOut(c)'
  BY DEF NoTimeout
<1> USE DEF TimedOut
<1>1. CASE Poll \/ Verify
  <2>1. result[ch] = "none"
    BY <1>1, ChInRange DEF Poll, Verify, Progress
  <2> QED BY <1>1, <2>1 DEF Poll, Verify, Return, TypeOK
<1>2. CASE Fill \/ Reset \/ StartIn \/ StartOut \/ Clear \/ NextChannel
  BY <1>2 DEF Fill, Reset, StartIn, StartOut, Clear, NextChannel
<1>3. ASSUME NEW e \in Channels, Engine(e) PROVE TimedOut(c)'
  BY <1>3, EngineFrame DEF cpuVars
<1>4. CASE UNCHANGED vars
  BY <1>4 DEF vars, cpuVars
<1> QED BY <1>1, <1>2, <1>3, <1>4 DEF Next, Cpu, Halted

\* One comparison counts what the engine got wrong there, and nothing else.
LEMMA VerifyCounts ==
    ASSUME TypeOK, Progress, Engines, Data, NoTimeout, Verify
    PROVE  errors' = 0 <=> \A k \in bad[ch] : k >= i + 1
<1> USE DmaAssumption
<1>1. ch \in Channels /\ i \in Index /\ wr[ch] = XferSize /\ errors \in Nat
  BY ChInRange DEF Verify, Progress, TypeOK, Index, Engines, Delivered
<1>2. dst[i] = src[i] <=> i \notin bad[ch]
  BY <1>1 DEF Verify, Data, Index
<1>3. errors = 0 <=> \A k \in bad[ch] : k >= i
  BY DEF Verify, Data
<1>4. errors' = IF i \in bad[ch] THEN errors + 1 ELSE errors
  BY <1>2 DEF Verify
<1>5. \A k \in bad[ch] : k \in Nat
  BY <1>1 DEF TypeOK, Index
<1>6. i \in Nat
  BY <1>1 DEF Index
<1>7. CASE i \in bad[ch]
  BY <1>1, <1>4, <1>6, <1>7
<1>8. CASE i \notin bad[ch]
  <2>1. \A k \in bad[ch] : k >= i <=> k >= i + 1
    BY <1>5, <1>6, <1>8
  <2> QED BY <1>3, <1>4, <1>8, <2>1
<1> QED BY <1>7, <1>8

LEMMA DataStep == TypeOK /\ Progress /\ Engines /\ Data /\ [Next]_vars => Data'
<1> SUFFICES ASSUME TypeOK, Progress, Engines, Data, [Next]_vars, NoTimeout'
             PROVE  Data'
  BY DEF Data
<1>0. NoTimeout
  BY TimeoutsStay
<1> USE <1>0, DmaAssumption DEF engVars, cpuVars
<1>1. CASE Fill
  <2>1. i \in Index
    BY <1>1 DEF Fill, Progress, TypeOK, Index
  <2> QED BY <1>1, <2>1 DEF Fill, Data, TypeOK, Index, Progress
<1>2. CASE Reset
  BY <1>2 DEF Reset, Data, TypeOK
<1>3. CASE StartIn
  <2>1. rd[ch] = 0 /\ wr[ch] = 0
    BY <1>3, ChInRange DEF StartIn, Engines
  <2> QED BY <1>3, <2>1 DEF StartIn, Data, TypeOK, Index
<1>4. CASE StartOut
  BY <1>4 DEF StartOut, Data, TypeOK
<1>5. CASE Poll
  BY <1>5 DEF Poll, Return, Data, TypeOK
<1>6. CASE Clear
  <2>1. errors' = 0 /\ i' = 0 /\ pc' = "verify" /\ ch' = ch /\ bad' = bad
    BY <1>6 DEF Clear, Progress
  <2>2. \A k \in bad[ch] : k \in Nat
    BY <1>6, ChInRange DEF Clear, TypeOK, Index
  <2>3. errors' = 0 <=> \A k \in bad'[ch'] : k >= i'
    BY <2>1, <2>2
  <2> QED BY <1>6, <2>1, <2>3 DEF Clear, Data
<1>7. CASE Verify
  <2>1. i \in Index /\ wr[ch] = XferSize
    BY <1>7 DEF Verify, Progress, TypeOK, Index, Engines, Delivered
  <2>2. dst[i] = src[i] <=> i \notin bad[ch]
    BY <1>7, <2>1 DEF Verify, Data, Index
  <2>3. errors' = 0 <=> \A k \in bad[ch] : k >= i + 1
    BY <1>7, <2>1, <2>2, VerifyCounts
  <2> QED BY <1>7, <2>3 DEF Verify, Return, Data, TypeOK
<1>8. CASE NextChannel
  BY <1>8 DEF NextChannel, Data, TypeOK, Progress, Index
<1>9. ASSUME NEW c \in Channels, EngineRead(c) PROVE Data'
  <2>1. c = ch /\ pc \in {"start_out", "poll"}
    BY <1>9, OthersQuiet DEF EngineRead, Busy
  <2>2. rd[c] \in Index /\ src[rd[c]] = Pattern(c, rd[c])
    BY <1>9, <2>1 DEF EngineRead, Data, TypeOK, Index
  <2>3. /\ wr' = wr /\ dst' = dst /\ src' = src /\ rd'[c] = rd[c] + 1
        /\ \A k \in Index : hold'[c][k] = IF k = rd[c] THEN Pattern(c, k) ELSE hold[c][k]
    BY <1>9, <2>2 DEF EngineRead, TypeOK
  <2> QED BY <1>9, <2>1, <2>2, <2>3 DEF EngineRead, Data, TypeOK, Index
<1>10. ASSUME NEW c \in Channels, EngineWrite(c) PROVE Data'
  <2>1. c = ch /\ pc \in {"start_out", "poll"}
    BY <1>10, OthersQuiet DEF EngineWrite, Busy
  <2>2. wr[c] \in Index /\ hold[c][wr[c]] = Pattern(c, wr[c])
    BY <1>10, <2>1 DEF EngineWrite, Data, TypeOK, Index
  <2>3. /\ rd' = rd /\ src' = src /\ wr'[c] = wr[c] + 1
        /\ \A k \in Index : k # wr[c] => hold'[c][k] = hold[c][k]
    BY <1>10, <2>2 DEF EngineWrite, TypeOK
  <2>4. wr[c] \notin bad[c]
    BY <1>10, <2>2 DEF Engines, TypeOK, Index
  <2>5. \A k \in Index : k # wr[c] => dst'[k] = dst[k] /\ (k \in bad'[c] <=> k \in bad[c])
    BY <1>10, <2>2 DEF EngineWrite, TypeOK
  <2>6. dst'[wr[c]] = Pattern(c, wr[c]) <=> wr[c] \notin bad'[c]
    BY <1>10, <2>2, <2>4 DEF EngineWrite, TypeOK
  <2> QED BY <1>10, <2>1, <2>2, <2>3, <2>5, <2>6 DEF EngineWrite, Data, TypeOK, Index
<1>11. ASSUME NEW c \in Channels, EngineEof(c) PROVE Data'
  BY <1>11 DEF EngineEof, Data
<1>12. CASE UNCHANGED vars
  BY <1>12 DEF vars, Data
<1> QED BY <1>1, <1>2, <1>3, <1>4, <1>5, <1>6, <1>7, <1>8, <1>9, <1>10, <1>11, <1>12
        DEF Next, Cpu, Engine, Halted

(***************************************************************************)
(* The verdict of one channel.                                             *)
(***************************************************************************)

LEMMA JudgeStep ==
    TypeOK /\ Inv /\ [Next]_vars => JudgedByItsCopy'
<1> SUFFICES ASSUME TypeOK, Inv, [Next]_vars,
                    NEW c \in Channels, result'[c] \in {"ok", "mismatch"}
             PROVE  \/ result'[c] = "ok" <=> bad'[c] = {}
                    \/ \E b \in Channels : b < c /\ TimedOut(b)'
  BY DEF JudgedByItsCopy
<1> USE DmaAssumption DEF Inv, TimedOut, engVars, cpuVars
<1>1. CASE result' = result /\ bad'[c] = bad[c]
  BY <1>1 DEF JudgedByItsCopy
<1>2. CASE Poll
  <2>1. ch \in Channels /\ result[ch] = "none"
    BY <1>2, ChInRange DEF Poll, Progress
  <2>2. c # ch /\ \A b \in Channels : TimedOut(b) => TimedOut(b)'
    BY <1>2, <2>1 DEF Poll, Return, TypeOK
  <2>3. result'[c] = result[c] /\ bad' = bad
    BY <1>2, <2>2 DEF Poll, Return, TypeOK
  <2> QED BY <2>2, <2>3 DEF JudgedByItsCopy
<1>3. CASE Verify
  <2>1. ch \in Channels /\ result[ch] = "none" /\ bad' = bad
    BY <1>3, ChInRange DEF Verify, Progress
  <2>2. ASSUME NEW b \in Channels, TimedOut(b)
        PROVE  TimedOut(b)' /\ b < ch
    <3>1. b # ch /\ b < ch
      BY <2>1, <2>2 DEF Progress, TypeOK, Channels
    <3> QED BY <1>3, <2>1, <2>2, <3>1 DEF Verify, Return, TypeOK
  <2>3. CASE c # ch
    <3>1. result'[c] = result[c]
      BY <1>3, <2>3 DEF Verify, Return, TypeOK
    <3> QED BY <2>1, <2>2, <3>1 DEF JudgedByItsCopy
  <2>4. CASE c = ch
    <3>1. i + 1 = XferSize /\ (result'[c] = "ok" <=> errors' = 0)
      BY <1>3, <2>1, <2>4 DEF Verify, Return, TypeOK
    <3>2. CASE NoTimeout
      <4>1. errors' = 0 <=> \A k \in bad[c] : k >= i + 1
        BY <1>3, <2>4, <3>2, VerifyCounts
      <4>2. \A k \in bad[c] : ~(k >= XferSize)
        BY <2>1, <2>4 DEF TypeOK, Index
      <4> QED BY <2>1, <3>1, <4>1, <4>2
    <3>3. CASE ~NoTimeout
      BY <2>2, <2>4, <3>3 DEF NoTimeout
    <3> QED BY <3>2, <3>3
  <2> QED BY <2>3, <2>4
<1>4. CASE Fill \/ Reset \/ StartIn \/ StartOut \/ Clear \/ NextChannel
  BY <1>1, <1>4 DEF Fill, Reset, StartIn, StartOut, Clear, NextChannel
<1>5. ASSUME NEW e \in Channels, Engine(e)
      PROVE  \/ result'[c] = "ok" <=> bad'[c] = {}
             \/ \E b \in Channels : b < c /\ TimedOut(b)'
  <2>1. result' = result
    BY <1>5, EngineFrame
  <2>2. ~Busy(c)
    BY <2>1 DEF Engines, Delivered
  <2>3. bad'[c] = bad[c]
    BY <1>5, <2>2 DEF Engine, EngineRead, EngineWrite, EngineEof, Busy, TypeOK
  <2> QED BY <1>1, <2>1, <2>3
<1>6. CASE UNCHANGED vars
  BY <1>1, <1>6 DEF vars
<1> QED BY <1>2, <1>3, <1>4, <1>5, <1>6 DEF Next, Cpu, Halted

LEMMA InvInit == Init => Inv
<1> SUFFICES ASSUME Init PROVE Inv
  OBVIOUS
<1> USE DmaAssumption DEF Init, Channels
<1>1. Progress
  BY DEF Progress
<1>2. Engines
  BY DEF Engines, Busy
<1>3. Data
  BY DEF Data, Index
<1>4. JudgedByItsCopy
  BY DEF JudgedByItsCopy
<1> QED BY <1>1, <1>2, <1>3, <1>4 DEF Inv

THEOREM InvHolds == Spec => []IInv
<1>1. TypeOK /\ Inv /\ [Next]_vars => (TypeOK /\ Inv)'
  BY TypeStep, ProgressStep, EnginesStep, DataStep, JudgeStep DEF Inv
<1> QED BY TypeInit, InvInit, <1>1, PTL DEF Spec, IInv

\* Every variable keeps its type.
THEOREM TypeCorrect == Spec => []TypeOK
BY InvHolds, PTL DEF IInv

\* The inductive invariant that TLC checks too.
THEOREM InvCorrect == Spec => []Inv
BY InvHolds, PTL DEF IInv

\* A channel that is compared fails if and only if its own engine wrote a byte it
\* had not read, unless an earlier channel's poll ran out.
THEOREM ResultsAreJudged == Spec => []JudgedByItsCopy
BY InvHolds, PTL DEF IInv, Inv

\* Until a poll runs out no engine but that of the channel under test runs.
THEOREM BuffersAreOwned == Spec => []BuffersOwned
<1>1. TypeOK /\ Inv => BuffersOwned
  BY OthersQuiet DEF Inv, BuffersOwned, NoTimeout
<1> QED BY <1>1, InvHolds, PTL DEF IInv

\* signal_pass() is reached only when every engine has delivered, every byte as it
\* read it, and stopped.
THEOREM PassIsEarned == Spec => []PassMeansAllDelivered
<1>1. TypeOK /\ Inv => PassMeansAllDelivered
  <2> SUFFICES ASSUME TypeOK, Inv, pc = "pass", NEW c \in Channels
               PROVE  result[c] = "ok" /\ ~Busy(c) /\ wr[c] = XferSize /\ bad[c] = {}
    BY DEF PassMeansAllDelivered
  <2>1. ch = NCh /\ all_pass
    BY DEF Inv, Progress
  <2>2. result[c] = "ok"
    BY <2>1, DmaAssumption DEF Inv, Progress, Channels, TypeOK
  <2>3. \A b \in Channels : ~TimedOut(b)
    BY <2>1 DEF Inv, Progress, TimedOut
  <2>4. bad[c] = {}
    BY <2>2, <2>3 DEF Inv, JudgedByItsCopy
  <2> QED BY <2>2, <2>4 DEF Inv, Engines, Delivered
<1> QED BY <1>1, InvHolds, PTL DEF IInv

\* The buffers are refilled under a running engine only after a timeout.
THEOREM FillIsSafe == Spec => NoFillUnderLiveEngine
<1>1. TypeOK /\ Inv /\ [Next]_vars =>
        [Fill => \A c \in Channels : Busy(c) => TimedOut(c)]_vars
  <2> SUFFICES ASSUME TypeOK, Inv, Fill, NEW c \in Channels, Busy(c) PROVE TimedOut(c)
    OBVIOUS
  <2>1. c < ch
    BY DmaAssumption DEF Fill, Inv, Engines, TypeOK, Channels
  <2>2. result[c] # "none"
    BY <2>1, DmaAssumption DEF Inv, Progress, TypeOK, Channels
  <2>3. result[c] \notin {"ok", "mismatch"}
    BY DEF Inv, Engines, Delivered
  <2> QED BY <2>2, <2>3 DEF TypeOK, TimedOut
<1> QED BY <1>1, InvHolds, PTL DEF IInv, Spec, NoFillUnderLiveEngine

(***************************************************************************)
(* Refinement.  The copy, the polls and the comparison stutter; an engine  *)
(* is armed by its link's start, delivers with its end of frame, and the   *)
(* channel's result and the verdict are the abstract ones.                 *)
(***************************************************************************)

LEMMA CopyInit == Init => Copy!Init
<1> SUFFICES ASSUME Init PROVE Copy!Init
  OBVIOUS
<1>1. \A c \in Channels : ~Busy(c) /\ wr[c] < XferSize
  BY DmaAssumption DEF Init, Busy
<1> QED BY <1>1 DEF Init, Copy!Init, Copy!Channels, Channels, engine, verdict

\* The channels before the one under test have their results.
LEMMA ItsTurn == ASSUME TypeOK, Inv, pc \notin {"next", "pass", "fail"}
                 PROVE  ch \in Channels /\ Copy!Turn(ch)
<1>1. ch \in Channels
  BY ChInRange DEF Inv
<1>2. result[ch] = "none"
  BY <1>1 DEF Inv, Progress
<1>3. ASSUME NEW b \in 0 .. ch - 1 PROVE result[b] # "none"
  BY <1>1, <1>3, DmaAssumption DEF Inv, Progress, Channels
<1> QED BY <1>1, <1>2, <1>3 DEF Copy!Turn

\* The channel under test gets its result.
LEMMA FinishStep ==
    ASSUME TypeOK, Inv, [Next]_vars, pc \in {"poll", "verify"}, UNCHANGED engVars,
           NEW r \in {"ok", "mismatch", "timeout"}, Return(r),
           r = "timeout" => Busy(ch), r # "timeout" => Delivered(ch)
    PROVE  Copy!Next
<1>1. ch \in Channels /\ Copy!Turn(ch)
  BY ItsTurn
<1>2. engine[ch] = IF r = "timeout" THEN "armed"
                   ELSE IF bad[ch] = {} THEN "delivered" ELSE "spoilt"
  BY <1>1, DmaAssumption DEF engine, Delivered
<1>3. result' = [result EXCEPT ![ch] = r] /\ engine' = engine /\ verdict' = verdict
  BY DEF Return, engVars, engine, verdict, Busy
<1>4. r # "timeout" => \/ r = "ok" <=> engine[ch] = "delivered"
                       \/ \E b \in 0 .. ch - 1 : result[b] = "timeout"
  <2> SUFFICES ASSUME r # "timeout", ~(r = "ok" <=> engine[ch] = "delivered")
               PROVE  \E b \in 0 .. ch - 1 : result[b] = "timeout"
    OBVIOUS
  <2>1. result'[ch] = r /\ bad' = bad
    BY <1>1, <1>3 DEF TypeOK, engVars
  <2>2. PICK b \in Channels : b < ch /\ TimedOut(b)'
    BY <1>1, <1>2, <2>1, JudgeStep DEF JudgedByItsCopy
  <2>3. result[b] = "timeout" /\ b \in 0 .. ch - 1
    BY <1>1, <1>3, <2>2 DEF TimedOut, TypeOK, Channels
  <2> QED BY <2>3
<1>5. Copy!Finish(ch, r)
  BY <1>1, <1>2, <1>3, <1>4 DEF Copy!Finish
<1> QED BY <1>1, <1>5 DEF Copy!Next, Copy!Channels, Channels

LEMMA CopyStep == TypeOK /\ Inv /\ [Next]_vars => [Copy!Next]_Copy!vars
<1> SUFFICES ASSUME TypeOK, Inv, [Next]_vars PROVE [Copy!Next]_Copy!vars
  OBVIOUS
<1> USE DmaAssumption
<1>1. CASE Fill \/ Clear
  <2>1. engine' = engine /\ verdict' = verdict /\ result' = result
    BY <1>1 DEF Fill, Clear, engVars, engine, verdict, Busy
  <2> QED BY <2>1 DEF Copy!vars
<1>2. CASE Reset
  <2>1. ch \in Channels /\ ~Busy(ch) /\ wr[ch] = 0
    BY <1>2, ChInRange DEF Reset, Inv, Engines
  <2>2. /\ wr' = [wr EXCEPT ![ch] = 0] /\ out_run' = [out_run EXCEPT ![ch] = FALSE]
        /\ in_run' = [in_run EXCEPT ![ch] = FALSE]
    BY <1>2 DEF Reset
  <2>3. ASSUME NEW c \in Channels PROVE Busy(c)' = Busy(c) /\ wr'[c] = wr[c] /\ bad'[c] = bad[c]
    BY <1>2, <2>1, <2>2 DEF Reset, Busy, TypeOK
  <2>4. engine' = engine
    BY <2>3, Zenon DEF engine
  <2> QED BY <1>2, <2>4 DEF Reset, verdict, Copy!vars
<1>3. CASE StartIn
  <2>1. ch \in Channels /\ Copy!Turn(ch)
    BY <1>3, ItsTurn DEF StartIn
  <2>2. engine[ch] = "idle"
    BY <1>3, <2>1 DEF StartIn, Inv, Engines, engine
  <2>3. engine' = [engine EXCEPT ![ch] = "armed"]
    BY <1>3, <2>1 DEF StartIn, engine, Busy, TypeOK
  <2>4. Copy!Arm(ch)
    BY <1>3, <2>1, <2>2, <2>3 DEF StartIn, Copy!Arm, verdict
  <2> QED BY <2>1, <2>4 DEF Copy!Next, Copy!Channels, Channels
<1>4. CASE StartOut
  <2>1. ch \in Channels
    BY <1>4, ChInRange DEF StartOut, Inv
  <2>2. in_run[ch]
    BY <1>4, <2>1 DEF StartOut, Inv, Engines, Delivered
  <2>3. engine' = engine
    BY <1>4, <2>1, <2>2 DEF StartOut, engine, Busy, TypeOK
  <2> QED BY <1>4, <2>3 DEF StartOut, verdict, Copy!vars
<1>5. CASE Poll
  <2>1. CASE ~suc_eof[ch] /\ timeout - 1 = 0
    <3>1. Busy(ch)
      BY <1>5, <2>1 DEF Poll, Inv, Engines, Busy
    <3>2. Return("timeout") /\ UNCHANGED engVars /\ pc = "poll"
      BY <1>5, <2>1 DEF Poll
    <3> QED BY <3>1, <3>2, FinishStep
  <2>2. CASE suc_eof[ch] \/ timeout - 1 # 0
    <3>1. engine' = engine /\ verdict' = verdict /\ result' = result
      BY <1>5, <2>2 DEF Poll, engVars, engine, verdict, Busy
    <3> QED BY <3>1 DEF Copy!vars
  <2> QED BY <2>1, <2>2
<1>6. CASE Verify
  <2>1. CASE i + 1 = XferSize
    <3>1. PICK r \in {"ok", "mismatch"} : Return(r)
      BY <1>6, <2>1 DEF Verify
    <3>2. Delivered(ch) /\ UNCHANGED engVars /\ pc = "verify"
      BY <1>6 DEF Verify, Inv, Engines
    <3> QED BY <3>1, <3>2, FinishStep
  <2>2. CASE i + 1 # XferSize
    <3>1. engine' = engine /\ verdict' = verdict /\ result' = result
      BY <1>6, <2>2 DEF Verify, engVars, engine, verdict, Busy
    <3> QED BY <3>1 DEF Copy!vars
  <2> QED BY <2>1, <2>2
<1>7. CASE NextChannel
  <2>1. ch \in Channels /\ verdict = "none" /\ result' = result
    BY <1>7, ChInRange DEF NextChannel, Inv, verdict
  <2>2. engine' = engine
    BY <1>7 DEF NextChannel, engVars, engine, Busy
  <2>3. CASE ch + 1 < NCh
    BY <1>7, <2>1, <2>2, <2>3 DEF NextChannel, verdict, Copy!vars
  <2>4. CASE ch + 1 >= NCh
    <3>1. \A c \in Channels : result[c] # "none"
      BY <1>7, <2>1, <2>4 DEF NextChannel, Inv, Progress, Channels
    <3>2. all_pass <=> \A c \in Channels : result[c] = "ok"
      BY <3>1 DEF Inv, Progress
    <3>3. verdict' = IF all_pass THEN "pass" ELSE "fail"
      BY <1>7, <2>1, <2>4 DEF NextChannel, verdict, TypeOK
    <3>4. Copy!Judge
      BY <2>1, <2>2, <3>1, <3>2, <3>3 DEF Copy!Judge, Copy!Channels, Channels
    <3> QED BY <3>4 DEF Copy!Next
  <2> QED BY <2>1, <2>3, <2>4 DEF Channels
<1>8. ASSUME NEW c \in Channels, EngineRead(c) \/ EngineWrite(c)
      PROVE  UNCHANGED Copy!vars
  <2>1. /\ \A b \in Channels : Busy(b)' = Busy(b)
        /\ \A b \in Channels : ~Busy(b) => wr'[b] = wr[b] /\ bad'[b] = bad[b]
        /\ result' = result /\ pc' = pc
    BY <1>8 DEF EngineRead, EngineWrite, Busy, TypeOK, cpuVars
  <2>2. engine' = engine
    BY <2>1, Zenon DEF engine
  <2> QED BY <2>1, <2>2 DEF verdict, Copy!vars
<1>9. ASSUME NEW c \in Channels, EngineEof(c)
      PROVE  Copy!Next
  <2>1. engine[c] = "armed" /\ result' = result /\ verdict' = verdict
    BY <1>9 DEF EngineEof, engine, Busy, cpuVars, verdict
  <2>2. PICK e \in {"delivered", "spoilt"} : e = IF bad[c] = {} THEN "delivered" ELSE "spoilt"
    OBVIOUS
  <2>3. engine' = [engine EXCEPT ![c] = e]
    <3>1. ~Busy(c)' /\ ~(wr[c] < XferSize) /\ wr' = wr /\ bad' = bad
      BY <1>9, DmaAssumption DEF EngineEof, Busy, TypeOK
    <3>2. \A b \in Channels : b # c => (Busy(b)' <=> Busy(b))
      BY <1>9 DEF EngineEof, Busy, TypeOK
    <3>3. DOMAIN engine = Channels /\ c \in Channels
      BY <1>9 DEF engine
    <3> QED BY <2>2, <3>1, <3>2, <3>3 DEF engine
  <2>4. Copy!Deliver(c)
    BY <2>1, <2>3 DEF Copy!Deliver
  <2> QED BY <2>4 DEF Copy!Next, Copy!Channels, Channels
<1>10. CASE UNCHANGED vars
  BY <1>10 DEF vars, cpuVars, engVars, engine, verdict, Busy, Copy!vars
<1> QED BY <1>1, <1>2, <1>3, <1>4, <1>5, <1>6, <1>7, <1>8, <1>9, <1>10
        DEF Next, Cpu, Engine, Halted

\* Every behaviour of the program and its engines is one of DmaCopy.
THEOREM ImplementsCopy == Spec => RefinesCopy
BY CopyInit, CopyStep, InvHolds, PTL DEF IInv, Spec, RefinesCopy, Copy!Spec
=============================================================================
