---------------------------- MODULE Gpio_proofs ----------------------------
(***************************************************************************)
(* Proofs about the two tests that drive GPIOs level by level.             *)
(*                                                                         *)
(* PinMapper, for any candidates and any shorted pairs: a wire's count is  *)
(* the number of its pin, or between those of its two, and shorted outputs *)
(* are held against each other only in the tail of the larger one.         *)
(*                                                                         *)
(* I2cBitbang, for any number of iterations and of resets and any of the   *)
(* codecs: PASS means the register was read in every iteration, a sound    *)
(* codec passes with the transcript of the header, the bus is free between *)
(* iterations, and SDA is stable while SCL is high.                        *)
(***************************************************************************)
EXTENDS PinMapper, I2cBitbang, TLAPS

-----------------------------------------------------------------------------
(***************************************************************************)
(* PinMapper.                                                              *)
(***************************************************************************)

N == Len(Candidates)

LEMMA PinFacts ==
    /\ N \in Nat \ {0}
    /\ \A a \in 1 .. N : Candidates[a] \in Pins
    /\ \A p \in Pins : p \in Nat \ {0} /\ \E a \in 1 .. N : p = Candidates[a]
    /\ \A a, b \in 1 .. N : Candidates[a] = Candidates[b] => a = b
    /\ Led \in Pins
BY PinAssumption DEF N, Pins

LEMMA MaxPin ==
    /\ TotalTicks \in Nat /\ \E m \in Pins : TotalTicks = 2 * m
    /\ \A p \in Pins : 2 * p <= TotalTicks
<1>1. PICK m \in Pins : \A p \in Pins : p <= m
  BY PinAssumption
<1>2. m \in Pins /\ \A p \in Pins : m >= p
  BY <1>1, PinFacts
<1>3. Max(Pins) \in Pins /\ \A p \in Pins : Max(Pins) >= p
  BY <1>2 DEF Max
<1> QED BY <1>3, PinFacts DEF TotalTicks

\* A wire is a pin, or two.
LEMMA WireFacts ==
    ASSUME NEW w \in Wires
    PROVE  /\ w \subseteq Pins
           /\ Max(w) \in w /\ Max(w) \in Nat \ {0} /\ \A x \in w : x <= Max(w)
           /\ Min(w) \in w /\ Min(w) \in Nat \ {0} /\ \A x \in w : Min(w) <= x
           /\ \A x, y, z \in w : x = y \/ y = z \/ x = z
<1>1. PICK p, q \in Pins : w = {p, q}
  BY PinAssumption DEF Wires
<1>2. (\E m \in w : \A x \in w : m >= x) /\ (\E m \in w : \A x \in w : m <= x)
  BY <1>1, PinFacts
<1>3. Max(w) \in w /\ \A x \in w : Max(w) >= x
  BY <1>2 DEF Max
<1>4. Min(w) \in w /\ \A x \in w : Min(w) <= x
  BY <1>2 DEF Min
<1>5. \A x, y, z \in w : x = y \/ y = z \/ x = z
  BY <1>1
<1> QED BY <1>1, <1>3, <1>4, <1>5, PinFacts

LEMMA InitInv == Init => IInv
<1> SUFFICES ASSUME Init PROVE IInv
  OBVIOUS
<1> USE PinFacts, MaxPin DEF Init
<1>1. TypeOK
  BY DEF TypeOK, N
<1>2. Levels
  BY DEF Levels
<1>3. Counts
  BY DEF Counts
<1> QED BY <1>1, <1>2, <1>3 DEF IInv

\* A wire none of whose pins changes keeps its level, fights included.
LEMMA SameLevel ==
    ASSUME NEW w \in Wires, NEW h, Drive(h, driven), w \cap h = w \cap high
    PROVE  WireHigh(w, high, driven, won)' <=> WireHigh(w, high, driven, won)
<1>1. high' = h /\ driven' = driven
  BY DEF Drive
<1>2. /\ PulledUp(w, h, driven) <=> PulledUp(w, high, driven)
      /\ PulledDown(w, h, driven) <=> PulledDown(w, high, driven)
  BY DEF PulledUp, PulledDown
<1>3. Contended(w, h, driven) => (w \in won' <=> w \in won)
  BY DEF Drive
<1>4. WireHigh(w, h, driven, won') <=> WireHigh(w, high, driven, won)
  BY <1>2, <1>3 DEF WireHigh, Contended
<1> QED BY <1>1, <1>4 DEF WireHigh, PulledUp, PulledDown

\* A fight is never won by a wire that is not fought over.
LEMMA WonShape ==
    ASSUME NEW h, NEW d, Drive(h, d)
    PROVE  won' \subseteq Wires /\ (won \subseteq {w \in Wires : Contended(w, high, driven)})'
<1>1. high' = h /\ driven' = d /\ won' \subseteq {w \in Wires : Contended(w, h, d)}
  BY DEF Drive
<1> QED BY <1>1 DEF Contended, PulledUp, PulledDown

\* In an even tick a write raises its wire or leaves it, in an odd one it lowers it or
\* leaves it; a wire whose pins are through is left.
LEMMA WriteMoves ==
    ASSUME IInv, WritePin, NEW w \in Wires
    PROVE  LET before == WireHigh(w, high, driven, won)
               after  == WireHigh(w, high, driven, won)'
           IN  /\ tick % 2 = 0 => (before => after)
               /\ tick % 2 = 1 => (after => before)
               /\ tick >= 2 * Max(w) => (after <=> before)
<1> DEFINE p == Candidates[k]
           before == WireHigh(w, high, driven, won)
           after  == WireHigh(w, high, driven, won)'
<1>1. k \in 1 .. N /\ tick \in Nat /\ p \in Pins /\ p \in Nat \ {0} /\ high \subseteq Pins
  BY PinFacts, MaxPin DEF IInv, TypeOK, Counts, WritePin, N
<1>2. PICK h : h = IF LevelAt(p, tick) THEN high \cup {p} ELSE high \ {p}
  OBVIOUS
<1>3. Drive(h, driven) /\ driven = Pins /\ w \subseteq Pins /\ high' = h /\ driven' = Pins
  BY <1>2, WireFacts DEF WritePin, Drive, Pulsing, LevelAt, IInv, Levels
<1>4. p \in high => tick > 0 /\ LevelAt(p, tick - 1)
  <2>1. Candidates[k] \in high <=> IF k < k THEN LevelAt(Candidates[k], tick)
                                   ELSE tick > 0 /\ LevelAt(Candidates[k], tick - 1)
    BY <1>1 DEF IInv, Levels, WritePin, N
  <2> QED BY <1>1, <2>1
<1>5. w \cap h = w \cap high => (after <=> before)
  BY <1>3, SameLevel
<1>6. \A x, y, z \in w : x = y \/ y = z \/ x = z
  BY WireFacts
<1>7. /\ before <=> /\ \E q \in w : q \in high
                    /\ (\E q \in w : q \notin high) => w \in won
      /\ after  <=> /\ \E q \in w : q \in h
                    /\ (\E q \in w : q \notin h) => w \in won'
  BY <1>3 DEF WireHigh, PulledUp, PulledDown
<1> HIDE DEF p, before, after
<1>8. CASE w \cap h = w \cap high
  BY <1>5, <1>8 DEF before, after
<1>9. CASE w \cap h # w \cap high /\ LevelAt(p, tick)
  <2>1. p \in w /\ p \notin high /\ h = high \cup {p} /\ tick % 2 = 0 /\ tick < 2 * Max(w)
    <3>1. p \in w /\ p \notin high /\ h = high \cup {p}
      BY <1>2, <1>9
    <3>2. PICK m : m = Max(w)
      OBVIOUS
    <3>3. m \in Nat /\ p <= m
      BY <3>1, <3>2, WireFacts
    <3> QED BY <1>1, <1>9, <3>1, <3>2, <3>3 DEF LevelAt
  <2>2. before => after
    BY <1>6, <1>7, <2>1
  <2>3. ~(tick >= 2 * Max(w)) /\ ~(tick % 2 = 1)
    <3>1. PICK m : m = Max(w) /\ m \in Nat
      BY WireFacts
    <3> QED BY <1>1, <2>1, <3>1
  <2> QED BY <2>2, <2>3 DEF before, after
<1>10. CASE w \cap h # w \cap high /\ ~LevelAt(p, tick)
  <2>1. p \in w /\ p \in high /\ h = high \ {p} /\ tick > 0 /\ LevelAt(p, tick - 1)
    BY <1>2, <1>4, <1>10
  <2>2. tick % 2 = 1 /\ tick < 2 * Max(w)
    <3>1. PICK m : m = Max(w)
      OBVIOUS
    <3>2. m \in Nat /\ p <= m
      BY <2>1, <3>1, WireFacts
    <3>3. (tick - 1) % 2 = 0 /\ tick - 1 < 2 * p
      BY <2>1 DEF LevelAt
    <3> QED BY <1>1, <2>1, <3>1, <3>2, <3>3
  <2>3. after => before
    BY <1>6, <1>7, <2>1
  <2>4. ~(tick >= 2 * Max(w)) /\ ~(tick % 2 = 0)
    <3>1. PICK m : m = Max(w) /\ m \in Nat
      BY WireFacts
    <3> QED BY <1>1, <2>2, <3>1
  <2> QED BY <2>3, <2>4 DEF before, after
<1> QED BY <1>8, <1>9, <1>10

LEMMA WriteCounts ==
    ASSUME IInv, WritePin, NEW w \in Wires
    PROVE  Counted(w)' /\ edges'[w] \in Nat
<1>1. PICK m, n : m = Min(w) /\ n = Max(w)
  OBVIOUS
<1>2. m \in Nat \ {0} /\ n \in Nat \ {0} /\ m <= n
  BY <1>1, WireFacts
<1>3. PICK b, a \in BOOLEAN : b = WireHigh(w, high, driven, won) /\ a = WireHigh(w, high, driven, won)'
  BY DEF WireHigh, PulledUp, PulledDown
<1>4. tick \in Nat /\ tick' = tick
  BY MaxPin DEF IInv, TypeOK, WritePin
<1>5. /\ tick % 2 = 0 => (b => a)
      /\ tick % 2 = 1 => (a => b)
      /\ tick >= 2 * n => (a <=> b)
  BY <1>1, <1>3, WriteMoves
<1>6. edges'[w] = IF ~b /\ a THEN edges[w] + 1 ELSE edges[w]
  BY <1>3 DEF WritePin, WireHigh, PulledUp, PulledDown
<1>7. edges[w] \in Nat
  BY MaxPin DEF IInv, TypeOK
<1> DEFINE Beg(x, q) == IF tick >= 2 * q THEN 2 * q
                        ELSE IF tick % 2 = 1 THEN tick + 1
                        ELSE IF x THEN tick + 2 ELSE tick
           Cnt(x, e) == IF tick < 2 * m THEN 2 * e = Beg(x, m)
                        ELSE 2 * m <= 2 * e /\ 2 * e <= Beg(x, n)
<1>8. Cnt(b, edges[w])
  <2>1. Counted(w)
    BY DEF IInv, Counts, WritePin
  <2> QED BY <1>1, <1>3, <2>1 DEF Counted, Begun
<1>9. Cnt(a, edges'[w])
  <2>1. CASE a <=> b
    BY <1>6, <1>8, <2>1
  <2>2. CASE a /\ ~b
    <3>1. tick % 2 = 0 /\ tick < 2 * n /\ edges'[w] = edges[w] + 1
      BY <1>2, <1>4, <1>5, <1>6, <2>2
    <3> QED BY <1>2, <1>4, <1>7, <1>8, <2>2, <3>1
  <2>3. CASE ~a /\ b
    <3>1. tick % 2 = 1 /\ tick < 2 * n /\ edges'[w] = edges[w]
      BY <1>2, <1>4, <1>5, <1>6, <2>3
    <3> QED BY <1>2, <1>4, <1>7, <1>8, <2>3, <3>1
  <2> QED BY <2>1, <2>2, <2>3
<1>10. Counted(w)'
  BY <1>1, <1>3, <1>4, <1>9 DEF Counted, Begun
<1> QED BY <1>6, <1>7, <1>10

LEMMA WriteStep ==
    ASSUME IInv, WritePin
    PROVE  IInv'
<1> DEFINE p == Candidates[k]
<1>1. /\ k \in 1 .. N /\ tick \in Nat /\ tick < TotalTicks /\ pc = "write"
      /\ tick' = tick /\ driven = Pins /\ driven' = driven
      /\ IF k < N THEN k' = k + 1 /\ pc' = "write" ELSE k' = 1 /\ pc' = "hold"
  BY PinFacts, MaxPin DEF IInv, TypeOK, Levels, Counts, WritePin, Drive, N
<1>2. p \in Pins /\ p \in Nat \ {0} /\ high \subseteq Pins
  BY <1>1, PinFacts DEF IInv, TypeOK
<1>3. high' = IF LevelAt(p, tick) THEN high \cup {p} ELSE high \ {p}
  BY DEF WritePin, Drive, Pulsing, LevelAt
<1>4. \A a \in 1 .. N : Candidates[a] \in high <=>
          IF a < k THEN LevelAt(Candidates[a], tick)
          ELSE tick > 0 /\ LevelAt(Candidates[a], tick - 1)
  BY <1>1 DEF IInv, Levels, N
<1>5. \A a \in 1 .. N : Candidates[a] \in high' <=>
          IF a < k + 1 THEN LevelAt(Candidates[a], tick)
          ELSE tick > 0 /\ LevelAt(Candidates[a], tick - 1)
  <2> SUFFICES ASSUME NEW a \in 1 .. N
               PROVE  Candidates[a] \in high' <=>
                        IF a < k + 1 THEN LevelAt(Candidates[a], tick)
                        ELSE tick > 0 /\ LevelAt(Candidates[a], tick - 1)
    OBVIOUS
  <2>1. CASE a = k
    BY <1>1, <1>3, <2>1
  <2>2. CASE a # k
    <3>1. Candidates[a] # p
      BY <1>1, <2>2, PinFacts
    <3>2. Candidates[a] \in high' <=> Candidates[a] \in high
      BY <1>3, <3>1
    <3>3. a < k + 1 <=> a < k
      BY <1>1, <2>2
    <3> QED BY <1>4, <3>2, <3>3
  <2> QED BY <2>1, <2>2
<1>6. won' \subseteq Wires /\ (won \subseteq {w \in Wires : Contended(w, high, driven)})'
  BY WonShape DEF WritePin
<1>7. Levels'
  <2>1. CASE k < N
    BY <1>1, <1>5, <1>6, <2>1 DEF Levels, LevelAt, N
  <2>2. CASE ~(k < N)
    <3>1. k = N /\ pc' = "hold" /\ tick' = tick
      BY <1>1, <2>2, PinFacts
    <3>2. \A q \in Pins : q \in high' <=> LevelAt(q, tick)
      BY <1>5, <3>1, PinFacts
    <3> QED BY <1>1, <1>6, <3>1, <3>2 DEF Levels, LevelAt
  <2> QED BY <2>1, <2>2
<1>8. \A w \in Wires : Counted(w)' /\ edges'[w] \in Nat
  BY WriteCounts
<1>9. TypeOK'
  <2>1. high' \subseteq Pins /\ driven' \subseteq Pins
    BY <1>1, <1>2, <1>3
  <2>2. pc' \in {"write", "hold"} /\ k' \in 1 .. N /\ tick' \in 0 .. TotalTicks
    BY <1>1, PinFacts, MaxPin
  <2>3. \A w \in Wires : edges'[w] \in 0 .. TotalTicks
    <3> SUFFICES ASSUME NEW w \in Wires PROVE edges'[w] \in 0 .. TotalTicks
      OBVIOUS
    <3>1. PICK m, n : m = Min(w) /\ n = Max(w)
      OBVIOUS
    <3>2. m \in Nat /\ n \in Nat /\ m <= n /\ 2 * n <= TotalTicks
      BY <3>1, WireFacts, MaxPin
    <3>3. PICK a \in BOOLEAN : a = WireHigh(w, high, driven, won)'
      BY DEF WireHigh, PulledUp, PulledDown
    <3> DEFINE Beg(q) == IF tick >= 2 * q THEN 2 * q
                         ELSE IF tick % 2 = 1 THEN tick + 1
                         ELSE IF a THEN tick + 2 ELSE tick
    <3>4. IF tick < 2 * m THEN 2 * edges'[w] = Beg(m) ELSE 2 * edges'[w] <= Beg(n)
      BY <1>1, <1>8, <3>1, <3>3 DEF Counted, Begun
    <3>5. edges'[w] \in Nat
      BY <1>8
    <3>6. 2 * edges'[w] <= 2 * n
      BY <1>1, <3>2, <3>4, <3>5
    <3> QED BY <3>2, <3>5, <3>6, MaxPin
  <2>4. edges' \in [Wires -> 0 .. TotalTicks]
    BY <2>3 DEF WritePin
  <2> QED BY <1>6, <2>1, <2>2, <2>4 DEF TypeOK, N
<1>10. Counts'
  BY <1>1, <1>8 DEF Counts
<1> QED BY <1>7, <1>9, <1>10 DEF IInv

LEMMA HoldStep ==
    ASSUME IInv, Hold
    PROVE  IInv'
<1>1. /\ tick \in Nat /\ tick < TotalTicks /\ TotalTicks \in Nat /\ k = 1 /\ tick' = tick + 1
      /\ pc = "hold" /\ pc' = IF tick + 1 < TotalTicks THEN "write" ELSE "gap"
      /\ UNCHANGED <<k, high, driven, won, edges>> /\ driven = Pins
  BY MaxPin DEF IInv, TypeOK, Levels, Counts, Hold
<1>2. \A q \in Pins : q \in high <=> LevelAt(q, tick)
  BY <1>1 DEF IInv, Levels
<1>3. high \subseteq Pins
  BY DEF IInv, TypeOK
<1>4. TotalTicks % 2 = 0
  <2>1. PICK m \in Pins : TotalTicks = 2 * m
    BY MaxPin
  <2>2. m \in Nat
    BY PinFacts
  <2> QED BY <2>1, <2>2
<1>5. TypeOK'
  <2>1. tick' \in 0 .. TotalTicks /\ 1 \in 1 .. Len(Candidates)
    BY <1>1, PinFacts DEF N
  <2> QED BY <1>1, <2>1 DEF IInv, TypeOK
<1>6. Levels'
  <2>0. (won \subseteq {w \in Wires : Contended(w, high, driven)})'
    BY <1>1 DEF IInv, Levels, Contended, PulledUp, PulledDown
  <2>1. CASE pc' = "write"
    <3>1. \A a \in 1 .. N : Candidates[a] \in high <=> LevelAt(Candidates[a], tick)
      BY <1>2, PinFacts
    <3> QED BY <1>1, <2>0, <2>1, <3>1, PinFacts DEF Levels, N, LevelAt
  <2>2. CASE pc' = "gap"
    <3>1. tick % 2 = 1
      BY <1>1, <1>4, <2>2
    <3>2. \A q \in Pins : q \notin high
      BY <1>2, <3>1 DEF LevelAt
    <3> QED BY <1>1, <1>3, <2>0, <2>2, <3>2 DEF Levels
  <2> QED BY <1>1, <2>1, <2>2
<1>7. ASSUME NEW w \in Wires PROVE Counted(w)'
  <2>1. PICK m, n : m = Min(w) /\ n = Max(w)
    OBVIOUS
  <2>2. /\ m \in Nat \ {0} /\ n \in Nat \ {0} /\ m <= n /\ w \subseteq Pins /\ m \in w
        /\ \A x \in w : x \in Nat /\ m <= x
    BY <2>1, WireFacts, PinFacts
  <2>3. PICK b \in BOOLEAN : b = WireHigh(w, high, driven, won)
    BY DEF WireHigh, PulledUp, PulledDown
  <2>4. /\ b => \E q \in w : q \in high
        /\ (\A q \in w : q \in high) => b
    BY <1>1, <2>2, <2>3 DEF WireHigh, PulledUp, PulledDown
  <2>5. tick % 2 = 1 => ~b
    BY <1>1, <1>2, <2>2, <2>4 DEF LevelAt
  <2>6. tick % 2 = 0 /\ tick < 2 * m => b
    BY <1>1, <1>2, <2>2, <2>4 DEF LevelAt
  <2>7. edges[w] \in Nat
    BY MaxPin DEF IInv, TypeOK
  <2> DEFINE Beg(t, q) == IF t >= 2 * q THEN 2 * q
                          ELSE IF t % 2 = 1 THEN t + 1
                          ELSE IF b THEN t + 2 ELSE t
             Cnt(t) == IF t < 2 * m THEN 2 * edges[w] = Beg(t, m)
                       ELSE 2 * m <= 2 * edges[w] /\ 2 * edges[w] <= Beg(t, n)
  <2>8. Cnt(tick)
    <3>1. Counted(w)
      BY <1>1 DEF IInv, Counts
    <3> QED BY <2>1, <2>3, <3>1 DEF Counted, Begun
  <2>9. Cnt(tick + 1)
    <3>1. CASE tick % 2 = 1
      BY <1>1, <2>2, <2>5, <2>7, <2>8, <3>1
    <3>2. CASE tick % 2 = 0
      BY <1>1, <2>2, <2>6, <2>7, <2>8, <3>2
    <3> QED BY <1>1, <3>1, <3>2
  <2> QED BY <1>1, <2>1, <2>3, <2>9 DEF Counted, Begun, WireHigh, PulledUp, PulledDown
<1>8. Counts'
  BY <1>1, <1>7 DEF Counts
<1> QED BY <1>5, <1>6, <1>8 DEF IInv

\* At the start of a cycle all wires are low and nothing is counted.
LEMMA CycleStart ==
    ASSUME NEW w \in Wires, tick' = 0, high' = {}, edges'[w] = 0
    PROVE  Counted(w)'
<1>1. PICK m : m = Min(w)
  OBVIOUS
<1>2. m \in Nat \ {0}
  BY <1>1, WireFacts
<1>3. ~WireHigh(w, high, driven, won)'
  BY DEF WireHigh, PulledUp
<1> QED BY <1>1, <1>2, <1>3 DEF Counted, Begun

LEMMA OtherSteps ==
    ASSUME IInv, InitPin \/ Blink \/ Gap \/ UNCHANGED vars
    PROVE  IInv'
<1>1. CASE InitPin
  <2>1. /\ k \in 1 .. N /\ Candidates[k] \in Pins /\ high = {} /\ tick = 0 /\ driven \subseteq Pins
        /\ \A a \in 1 .. N : a < k => Candidates[a] \in driven
        /\ edges \in [Wires -> 0 .. TotalTicks] /\ \A w \in Wires : edges[w] = 0
    BY <1>1, PinFacts DEF IInv, TypeOK, Levels, Counts, InitPin, N
  <2>2. /\ high' = {} /\ edges' = edges /\ driven' = driven \cup {Candidates[k]} /\ tick' = 0
        /\ IF k < N THEN k' = k + 1 /\ pc' = "init" ELSE k' = 1 /\ pc' = "blink"
    BY <1>1, <2>1 DEF InitPin, Drive, N
  <2>3. \A a \in 1 .. N : a < k + 1 => Candidates[a] \in driven'
    BY <2>1, <2>2
  <2>4. won' \subseteq Wires /\ (won \subseteq {w \in Wires : Contended(w, high, driven)})'
    BY <1>1, WonShape DEF InitPin
  <2>5. TypeOK'
    BY <2>1, <2>2, <2>4, PinFacts, MaxPin DEF TypeOK, N, Blinks
  <2>6. pc' # "init" => driven' = Pins
    <3> SUFFICES ASSUME pc' # "init" PROVE driven' = Pins
      OBVIOUS
    <3>1. k = N
      BY <2>1, <2>2, PinFacts
    <3> QED BY <2>1, <2>2, <2>3, <3>1, PinFacts
  <2>7. pc' = "init" => \A a \in 1 .. k' - 1 : Candidates[a] \in driven'
    <3> SUFFICES ASSUME pc' = "init", NEW a \in 1 .. k' - 1 PROVE Candidates[a] \in driven'
      OBVIOUS
    <3>1. k' = k + 1 /\ k < N /\ k \in Nat /\ N \in Nat
      BY <2>1, <2>2, PinFacts
    <3>2. a \in 1 .. N /\ a < k + 1
      BY <3>1
    <3> QED BY <2>3, <3>2
  <2>8. Levels'
    BY <2>2, <2>4, <2>6, <2>7 DEF Levels
  <2>9. Counts'
    BY <2>1, <2>2 DEF Counts
  <2> QED BY <2>5, <2>8, <2>9 DEF IInv
<1>2. CASE Blink
  <2>1. /\ k \in 1 .. Blinks /\ high \subseteq {Led} /\ tick = 0 /\ driven = Pins
        /\ edges \in [Wires -> 0 .. TotalTicks] /\ \A w \in Wires : edges[w] = 0
    BY <1>2 DEF IInv, TypeOK, Levels, Counts, Blink
  <2>2. /\ UNCHANGED <<tick, edges>> /\ high' \subseteq {Led} /\ driven' = driven
        /\ \/ pc' = "blink" /\ k' \in 1 .. Blinks
           \/ pc' = "write" /\ k' = 1 /\ high' = {}
    BY <1>2, <2>1 DEF Blink, Blinks, Drive
  <2>3. won' \subseteq Wires /\ (won \subseteq {w \in Wires : Contended(w, high, driven)})'
    BY <1>2, WonShape DEF Blink
  <2>4. TypeOK'
    BY <2>1, <2>2, <2>3, PinFacts, MaxPin DEF TypeOK, N
  <2>5. Levels'
    BY <2>1, <2>2, <2>3, PinFacts DEF Levels, N, LevelAt
  <2>6. Counts'
    <3>1. CASE pc' = "blink"
      BY <2>1, <2>2, <3>1 DEF Counts
    <3>2. CASE pc' = "write"
      <4>1. high' = {} /\ tick' = 0 /\ edges' = edges
        BY <2>1, <2>2, <3>2
      <4>2. \A w \in Wires : Counted(w)'
        BY <2>1, <4>1, CycleStart
      <4>3. 0 < TotalTicks
        BY MaxPin, PinFacts
      <4> QED BY <3>2, <4>1, <4>2, <4>3 DEF Counts
    <3> QED BY <2>2, <3>1, <3>2
  <2> QED BY <2>4, <2>5, <2>6 DEF IInv
<1>3. CASE Gap
  <2>1. /\ pc' = "write" /\ k = 1 /\ k' = 1 /\ tick' = 0 /\ high' = {} /\ driven' = driven
        /\ edges' = [w \in Wires |-> 0] /\ driven = Pins
    BY <1>3 DEF Gap, Drive, IInv, TypeOK, Levels, Counts
  <2>2. won' \subseteq Wires /\ (won \subseteq {w \in Wires : Contended(w, high, driven)})'
    BY <1>3, WonShape DEF Gap
  <2>3. TypeOK'
    BY <2>1, <2>2, PinFacts, MaxPin DEF TypeOK, N
  <2>4. Levels'
    BY <2>1, <2>2, PinFacts DEF Levels, N, LevelAt
  <2>5. \A w \in Wires : Counted(w)'
    BY <2>1, CycleStart
  <2>6. Counts'
    <3>1. 0 < TotalTicks
      BY MaxPin, PinFacts
    <3> QED BY <2>1, <2>5, <3>1 DEF Counts
  <2> QED BY <2>3, <2>4, <2>6 DEF IInv
<1>4. CASE UNCHANGED vars
  <2>1. TypeOK' /\ Levels'
    BY <1>4 DEF vars, IInv, TypeOK, Levels, LevelAt, Contended, PulledUp, PulledDown
  <2>2. Counts'
    BY <1>4 DEF vars, IInv, Counts, Counted, Begun, WireHigh, PulledUp, PulledDown
  <2> QED BY <2>1, <2>2 DEF IInv
<1> QED BY <1>1, <1>2, <1>3, <1>4

\* Which pins are high and how many pulses each wire has seen, at every write of the
\* tick loop.
THEOREM InvCorrect == Spec => []IInv
<1>1. IInv /\ [Next]_vars => IInv'
  BY WriteStep, HoldStep, OtherSteps DEF Next
<1> QED BY InitInv, <1>1, PTL DEF Spec

\* For any candidates and any shorted pairs, and however the fights between shorted
\* outputs are settled, the edges counted in a cycle are the number of the wire's pin,
\* or between the numbers of its two.
THEOREM CountsAreWithinPins == Spec => []CountsWithinPins
<1>1. IInv => CountsWithinPins
  <2> SUFFICES ASSUME IInv, pc = "gap", NEW w \in Wires
               PROVE  Min(w) <= edges[w] /\ edges[w] <= Max(w) /\ ~WireHigh(w, high, driven, won)
    BY DEF CountsWithinPins
  <2>1. PICK m, n : m = Min(w) /\ n = Max(w)
    OBVIOUS
  <2>2. m \in Nat \ {0} /\ n \in Nat \ {0} /\ m <= n /\ 2 * n <= TotalTicks
    BY <2>1, WireFacts, MaxPin
  <2>3. edges[w] \in Nat /\ tick = TotalTicks /\ TotalTicks \in Nat /\ Counted(w) /\ high = {}
    BY MaxPin DEF IInv, TypeOK, Levels, Counts
  <2>4. 2 * m <= 2 * edges[w] /\ 2 * edges[w] <= 2 * n
    BY <2>1, <2>2, <2>3 DEF Counted, Begun
  <2>5. ~WireHigh(w, high, driven, won)
    BY <2>3 DEF WireHigh, PulledUp
  <2> QED BY <2>1, <2>2, <2>3, <2>4, <2>5
<1> QED BY <1>1, InvCorrect, PTL

\* No wire is held against itself before the smaller pin's last pulse is over, nor
\* after the larger one's.
THEOREM FightsAreInTail == Spec => []FightsOnlyInTail
<1>1. IInv => FightsOnlyInTail
  <2> SUFFICES ASSUME IInv, pc = "hold", NEW w \in Wires, Contended(w, high, driven)
               PROVE  2 * Min(w) <= tick /\ tick < 2 * Max(w)
    BY DEF FightsOnlyInTail
  <2>1. PICK p, q \in w : p \in high /\ q \notin high
    BY DEF Contended, PulledUp, PulledDown
  <2>2. PICK m, n : m = Min(w) /\ n = Max(w)
    OBVIOUS
  <2>3. /\ m \in Nat /\ n \in Nat /\ p \in Pins /\ q \in Pins
        /\ m <= q /\ p <= n /\ p \in Nat /\ q \in Nat
    BY <2>2, WireFacts, PinFacts
  <2>4. tick \in Nat /\ LevelAt(p, tick) /\ ~LevelAt(q, tick)
    BY <2>1, <2>3, MaxPin DEF IInv, TypeOK, Levels
  <2>5. tick < 2 * p /\ 2 * q <= tick
    BY <2>3, <2>4 DEF LevelAt
  <2> QED BY <2>2, <2>3, <2>4, <2>5
<1> QED BY <1>1, InvCorrect, PTL

-----------------------------------------------------------------------------
(***************************************************************************)
(* I2cBitbang: bytes and bits.                                             *)
(***************************************************************************)

LEMMA WeightFacts ==
    /\ Weight[1] = 128 /\ Weight[2] = 64 /\ Weight[3] = 32 /\ Weight[4] = 16
    /\ Weight[5] = 8 /\ Weight[6] = 4 /\ Weight[7] = 2 /\ Weight[8] = 1
BY DEF Weight

\* The bytes on the wire, bit by bit.
LEMMA AddrBits ==
    /\ BitOf(48, 1) = 0 /\ BitOf(48, 2) = 0 /\ BitOf(48, 3) = 1 /\ BitOf(48, 4) = 1
    /\ BitOf(48, 5) = 0 /\ BitOf(48, 6) = 0 /\ BitOf(48, 7) = 0 /\ BitOf(48, 8) = 0
    /\ BitOf(49, 1) = 0 /\ BitOf(49, 2) = 0 /\ BitOf(49, 3) = 1 /\ BitOf(49, 4) = 1
    /\ BitOf(49, 5) = 0 /\ BitOf(49, 6) = 0 /\ BitOf(49, 7) = 0 /\ BitOf(49, 8) = 1
BY WeightFacts DEF BitOf

LEMMA IdBits ==
    /\ BitOf(131, 1) = 1 /\ BitOf(131, 2) = 0 /\ BitOf(131, 3) = 0 /\ BitOf(131, 4) = 0
    /\ BitOf(131, 5) = 0 /\ BitOf(131, 6) = 0 /\ BitOf(131, 7) = 1 /\ BitOf(131, 8) = 1
    /\ BitOf(17, 1) = 0 /\ BitOf(17, 2) = 0 /\ BitOf(17, 3) = 0 /\ BitOf(17, 4) = 1
    /\ BitOf(17, 5) = 0 /\ BitOf(17, 6) = 0 /\ BitOf(17, 7) = 0 /\ BitOf(17, 8) = 1
    /\ BitOf(255, 1) = 1 /\ BitOf(255, 2) = 1 /\ BitOf(255, 3) = 1 /\ BitOf(255, 4) = 1
    /\ BitOf(255, 5) = 1 /\ BitOf(255, 6) = 1 /\ BitOf(255, 7) = 1 /\ BitOf(255, 8) = 1
BY WeightFacts DEF BitOf

LEMMA BitType == ASSUME NEW b \in Nat, NEW i \in 1 .. 8 PROVE BitOf(b, i) \in Bit
<1>1. Weight[i] \in Nat \ {0}
  BY WeightFacts
<1>2. ASSUME NEW w \in Nat \ {0} PROVE (b \div w) % 2 \in {0, 1}
  OBVIOUS
<1> QED BY <1>1, <1>2 DEF BitOf, Bit

LEMMA BitsFacts ==
    ASSUME NEW b \in Nat
    PROVE  /\ Bits(b) \in Byte
           /\ \A i \in 1 .. 8 : Bits(b)[i] = BitOf(b, i)
           /\ \A f \in Byte : (\A i \in 1 .. 8 : f[i] = BitOf(b, i)) => f = Bits(b)
BY BitType DEF Bits, Byte

LEMMA ZeroType == Zero \in Byte
BY DEF Zero, Byte, Bit

LEMMA SentFacts ==
    /\ call \in Writes => Sent \in Byte
    /\ call = "addr_w" => \A i \in 1 .. 8 : Sent[i] = BitOf(48, i)
    /\ call = "reg"    => Sent = Bits(253)
    /\ call = "addr_r" => \A i \in 1 .. 8 : Sent[i] = BitOf(49, i)
<1>1. call = "addr_w" => Sent = Bits(48)
  BY DEF Sent, Addr
<1>2. call = "reg" => Sent = Bits(253)
  BY DEF Sent, Reg
<1>3. call = "addr_r" => Sent = Bits(49)
  BY DEF Sent, Addr
<1> QED BY <1>1, <1>2, <1>3, BitsFacts DEF Writes

LEMMA SdaOutType == I2cTypeOK => SdaOut \in Bit
BY SentFacts DEF I2cTypeOK, SdaOut, Byte, Bit, Writes, Reads, Framing

\* The bus with all but the codec's side of SDA and its acknowledge set anew.
Modes == {"idle", "addr", "reg", "acks", "sends", "listens"}

Edited(scl, sda, mode, n, byte, read, first, want) ==
    [bus EXCEPT !.scl = scl, !.sda = sda, !.mode = mode, !.n = n, !.byte = byte, !.read = read,
                !.first = first, !.want = want]

LEMMA EditType ==
    ASSUME bus \in Bus, NEW s \in Bit, NEW d \in Bit, NEW m \in Modes, NEW n \in 0 .. 8,
           NEW z \in Byte, NEW r \in BOOLEAN, NEW f \in BOOLEAN, NEW w \in Bit
    PROVE  Edited(s, d, m, n, z, r, f, w) \in Bus
BY DEF Bus, Modes, Edited

LEMMA EditFields ==
    ASSUME bus \in Bus, NEW s, NEW d, NEW m, NEW n, NEW z, NEW r, NEW f, NEW w,
           NEW c, c = Edited(s, d, m, n, z, r, f, w)
    PROVE  /\ c.scl = s /\ c.sda = d /\ c.mode = m /\ c.n = n /\ c.byte = z /\ c.read = r
           /\ c.first = f /\ c.want = w /\ c.dev = bus.dev /\ c.ack = bus.ack
BY DEF Bus, Edited

-----------------------------------------------------------------------------
(***************************************************************************)
(* What each step of the CPU does to the bus and to the log.               *)
(***************************************************************************)

LEMMA LogGrows ==
    ASSUME I2cTypeOK
    PROVE  /\ log \o <<>> = log
           /\ \A e \in Events : /\ log \o <<e>> \in Seq(Events)
                                /\ Len(log \o <<e>>) = Len(log) + 1
                                /\ (log \o <<e>>)[Len(log) + 1] = e
                                /\ \A i \in 1 .. Len(log) : (log \o <<e>>)[i] = log[i]
BY DEF I2cTypeOK

LEMMA SetStep ==
    ASSUME I2cInv, MoveLine, step = "set"
    PROVE  /\ bus' = [bus EXCEPT !.sda = SdaOut]
           /\ log' = log
           /\ step' = "rise" /\ UNCHANGED <<call, bit>>
<1>1. bus \in Bus /\ SdaOut \in Bit
  BY SdaOutType DEF I2cInv, I2cTypeOK
<1>2. Op = MoveSda(SdaOut)
  BY DEF MoveLine, Op
<1>3. step' = "rise" /\ UNCHANGED <<call, bit>>
  BY DEF MoveLine, Advance, GoOn
<1>4. CASE call = "start"
  <2>1. SdaOut = 1 /\ bus.sda = 1
    BY <1>4 DEF I2cInv, LineInv, SdaOut, Writes, Reads
  <2>2. Op = "sda1"
    BY <1>2, <2>1 DEF MoveSda
  <2>3. [bus EXCEPT !.sda = 1] = bus
    BY <1>1, <2>1 DEF Bus
  <2>4. Moved(bus, "sda1") = bus /\ Entry(bus, "sda1") = <<>>
    BY <1>1, <2>1, <2>3 DEF Moved, Driven, Entry, Level, Bus, Bit
  <2> QED BY <1>3, <2>1, <2>2, <2>3, <2>4, LogGrows DEF MoveLine, I2cInv
<1>5. CASE call # "start"
  <2>1. bus.scl = 0
    BY <1>5 DEF I2cInv, LineInv, MoveLine, Running
  <2>2. CASE SdaOut = 1
    <3>1. Op = "sda1"
      BY <1>2, <2>2 DEF MoveSda
    <3>2. Moved(bus, "sda1") = [bus EXCEPT !.sda = 1] /\ Entry(bus, "sda1") = <<>>
      BY <1>1, <2>1 DEF Moved, Driven, Entry, Bus, Bit
    <3> QED BY <1>3, <2>2, <3>1, <3>2, LogGrows DEF MoveLine, I2cInv
  <2>3. CASE SdaOut = 0
    <3>1. Op = "sda0"
      BY <1>2, <2>3 DEF MoveSda
    <3>2. Moved(bus, "sda0") = [bus EXCEPT !.sda = 0] /\ Entry(bus, "sda0") = <<>>
      BY <1>1, <2>1 DEF Moved, Driven, Entry, Bus, Bit
    <3> QED BY <1>3, <2>3, <3>1, <3>2, LogGrows DEF MoveLine, I2cInv
  <2> QED BY <1>1, <2>2, <2>3 DEF Bit
<1> QED BY <1>4, <1>5

LEMMA RiseStep ==
    ASSUME I2cInv, MoveLine, step = "rise"
    PROVE  /\ bus.dev = bus.want /\ bus.sda = SdaOut
           /\ log' = log
           /\ step' = IF call \in Framing THEN "frame" ELSE IF Sampled THEN "sample" ELSE "fall"
           /\ UNCHANGED <<call, bit>>
           /\ call = "start" => bus' = [bus EXCEPT !.scl = 1]
           /\ call # "start" =>
                 bus' = CASE bus.mode \in {"addr", "reg"} ->
                               [bus EXCEPT !.scl = 1, !.n = @ + 1, !.byte[bus.n + 1] = SdaOut]
                          [] bus.mode = "listens" -> [bus EXCEPT !.scl = 1, !.ack = (SdaOut = 0)]
                          [] OTHER -> [bus EXCEPT !.scl = 1]
<1>1. bus \in Bus /\ bus.sda = SdaOut
  BY DEF I2cInv, I2cTypeOK, LineInv
<1>2. Op = "scl1"
  BY DEF Op
<1>3. /\ bus.dev = bus.want
      /\ step' = IF call \in Framing THEN "frame" ELSE IF Sampled THEN "sample" ELSE "fall"
      /\ UNCHANGED <<call, bit>>
  BY <1>2 DEF MoveLine, Advance, GoOn
<1>4. Entry(bus, "scl1") = <<>>
  BY DEF Entry
<1>5. log' = log
  BY <1>2, <1>4, LogGrows DEF MoveLine, I2cInv
<1>6. CASE call = "start"
  <2>1. bus.scl = 1
    BY <1>6 DEF I2cInv, LineInv
  <2>2. Moved(bus, "scl1") = [bus EXCEPT !.scl = 1]
    BY <1>1, <2>1 DEF Moved, Driven, Bus, Level
  <2> QED BY <1>1, <1>2, <1>3, <1>5, <1>6, <2>2 DEF MoveLine
<1>7. CASE call # "start"
  <2> DEFINE moved == [bus EXCEPT !.scl = 1]
  <2>1. bus.scl = 0
    BY <1>7 DEF I2cInv, LineInv, MoveLine, Running
  <2>2. moved \in Bus /\ moved.scl = 1 /\ moved.mode = bus.mode /\ moved.n = bus.n /\ moved.dev = bus.dev /\ moved.sda = bus.sda
    BY <1>1 DEF Bus, Bit
  <2>3. bus' = IF kind = "absent" THEN moved ELSE SclRises(moved)
    BY <1>1, <1>2, <2>1, <2>2 DEF Moved, Driven, MoveLine, Bus
  <2>4. CASE kind = "absent"
    <3>1. bus.mode = "idle"
      BY <2>4 DEF I2cInv, CodecInv
    <3> QED BY <1>1, <1>3, <1>5, <1>7, <2>3, <2>4, <3>1
  <2>5. CASE kind # "absent" /\ bus.mode \in {"addr", "reg"}
    <3>1. bus.dev = 1
      BY <1>3, <2>5 DEF I2cInv, CodecInv
    <3>2. Level(moved) = SdaOut
      BY <1>1, <2>2, <3>1 DEF Level, Bus, Bit
    <3>3. SclRises(moved) = [moved EXCEPT !.n = @ + 1, !.byte[moved.n + 1] = SdaOut]
      BY <2>2, <2>5, <3>2 DEF SclRises
    <3>4. SclRises(moved) = [bus EXCEPT !.scl = 1, !.n = @ + 1, !.byte[bus.n + 1] = SdaOut]
      BY <1>1, <2>2, <3>3 DEF Bus
    <3> QED BY <1>1, <1>3, <1>5, <1>7, <2>3, <2>5, <3>4
  <2>6. CASE kind # "absent" /\ bus.mode = "listens"
    <3>1. bus.dev = 1
      BY <1>3, <2>6 DEF I2cInv, CodecInv
    <3>2. Level(moved) = SdaOut
      BY <1>1, <2>2, <3>1 DEF Level, Bus, Bit
    <3>3. SclRises(moved) = [bus EXCEPT !.scl = 1, !.ack = (SdaOut = 0)]
      BY <1>1, <2>2, <2>6, <3>2 DEF SclRises, Bus
    <3> QED BY <1>1, <1>3, <1>5, <1>7, <2>3, <2>6, <3>3
  <2>7. CASE kind # "absent" /\ bus.mode \notin {"addr", "reg", "listens"}
    <3>1. SclRises(moved) = moved
      BY <2>2, <2>7 DEF SclRises
    <3> QED BY <1>1, <1>3, <1>5, <1>7, <2>3, <2>7, <3>1
  <2> QED BY <2>4, <2>5, <2>6, <2>7
<1> QED BY <1>6, <1>7

\* The CPU's START, which a codec holding SDA low does not see, and its STOP.
LEMMA StartStep ==
    ASSUME I2cInv, MoveLine, step = "frame", call # "stop"
    PROVE  /\ call \in {"start", "restart"}
           /\ step' = "fall" /\ UNCHANGED <<call, bit>>
           /\ bus.scl = 1 /\ bus.sda = 1 /\ bus.dev = bus.want
           /\ kind # "absent" /\ bus.want = 1 =>
                 /\ bus' = [bus EXCEPT !.sda = 0, !.mode = "addr", !.n = 0, !.byte = Zero, !.want = 1]
                 /\ log' = log \o <<"START">>
           /\ kind = "absent" \/ bus.want = 0 =>
                 /\ bus' = [bus EXCEPT !.sda = 0]
                 /\ log' = log
<1>1. bus \in Bus
  BY DEF I2cInv, I2cTypeOK
<1>2. call \in {"start", "restart"}
  BY DEF I2cInv, LineInv, Framing
<1>3. bus.scl = 1 /\ bus.sda = 1
  BY <1>2 DEF I2cInv, LineInv, SdaOut, Writes, Reads
<1>4. Op = "sda0"
  BY DEF Op, MoveSda
<1>5. bus.dev = bus.want
  BY <1>3 DEF I2cInv, CodecInv
<1>6. step' = "fall" /\ UNCHANGED <<call, bit>>
  BY DEF MoveLine, Advance, GoOn
<1> DEFINE moved == [bus EXCEPT !.sda = 0]
<1>7. moved \in Bus /\ moved.scl = 1 /\ moved.sda = 0 /\ Level(moved) = 0 /\ Level(bus) = bus.dev
  BY <1>1, <1>3 DEF Bus, Bit, Level
<1>8. Takes(moved, "addr") = [bus EXCEPT !.sda = 0, !.mode = "addr", !.n = 0, !.byte = Zero, !.want = 1]
  BY <1>1 DEF Takes, Bus
<1>12. Driven(bus, "sda0") = moved
  BY DEF Driven
<1> HIDE DEF moved
<1>9. CASE kind = "absent"
  <2>1. Moved(bus, "sda0") = moved /\ Entry(bus, "sda0") = <<>>
    BY <1>9, <1>12 DEF Moved, Entry
  <2> QED BY <1>2, <1>3, <1>4, <1>5, <1>6, <1>9, <2>1, LogGrows DEF MoveLine, I2cInv, moved
<1>10. CASE kind # "absent" /\ bus.want = 1
  <2>1. Moved(bus, "sda0") = Takes(moved, "addr")
    BY <1>3, <1>5, <1>7, <1>10, <1>12 DEF Moved
  <2>2. Entry(bus, "sda0") = <<"START">>
    BY <1>3, <1>5, <1>7, <1>10 DEF Entry
  <2>3. bus' = Takes(moved, "addr") /\ log' = log \o <<"START">>
    BY <1>4, <2>1, <2>2 DEF MoveLine
  <2> QED BY <1>2, <1>3, <1>5, <1>6, <1>8, <1>10, <2>3
<1>11. CASE kind # "absent" /\ bus.want = 0
  <2>1. Moved(bus, "sda0") = moved
    BY <1>3, <1>5, <1>7, <1>11, <1>12 DEF Moved
  <2>2. Entry(bus, "sda0") = <<>>
    BY <1>3, <1>5, <1>7, <1>11 DEF Entry
  <2>3. bus' = moved /\ log' = log
    BY <1>4, <2>1, <2>2, LogGrows DEF MoveLine, I2cInv
  <2> QED BY <1>2, <1>3, <1>5, <1>6, <1>11, <2>3 DEF moved
<1> QED BY <1>1, <1>9, <1>10, <1>11 DEF Bus, Bit

LEMMA StopStep ==
    ASSUME I2cInv, MoveLine, step = "frame", call = "stop"
    PROVE  /\ step' = "set" /\ call' = "over" /\ bit' = 1
           /\ bus.mode = "idle" /\ bus.scl = 1 /\ bus.dev = 1 /\ bus.want = 1
           /\ bus' = [bus EXCEPT !.sda = 1]
           /\ log' = IF kind = "absent" THEN log ELSE log \o <<"STOP">>
<1>1. bus \in Bus /\ bit = 1
  BY DEF I2cInv, I2cTypeOK, Writes, Reads
<1>2. bus.scl = 1 /\ bus.sda = 0
  BY DEF I2cInv, LineInv, SdaOut, Writes, Reads
<1>3. Op = "sda1"
  BY DEF Op, MoveSda
<1>4. bus.mode = "idle"
  BY <1>1 DEF I2cInv, PhaseInv, Started, Bus, Writes, TakesSent
<1>5. bus.dev = 1 /\ bus.want = 1
  BY <1>2, <1>4 DEF I2cInv, CodecInv
<1>6. step' = "set" /\ call' = "over" /\ bit' = 1
  BY <1>1 DEF MoveLine, Advance, GoOn, Framing
<1> DEFINE moved == [bus EXCEPT !.sda = 1]
<1>7. moved \in Bus /\ moved.scl = 1 /\ Level(bus) = 0 /\ Level(moved) = 1 /\ Idle(moved) = moved
  BY <1>1, <1>2, <1>4, <1>5 DEF Bus, Bit, Level, Idle
<1>10. Driven(bus, "sda1") = moved
  BY DEF Driven
<1> HIDE DEF moved
<1>8. Moved(bus, "sda1") = moved
  BY <1>2, <1>7, <1>10 DEF Moved
<1>9. Entry(bus, "sda1") = IF kind = "absent" THEN <<>> ELSE <<"STOP">>
  BY <1>2, <1>7, <1>8 DEF Entry
<1> QED BY <1>2, <1>3, <1>4, <1>5, <1>6, <1>8, <1>9, LogGrows DEF MoveLine, I2cInv, moved

(***************************************************************************)
(* SCL falls: the codec takes its turn.                                    *)
(***************************************************************************)

LEMMA FallStep ==
    ASSUME I2cInv, MoveLine, step = "fall"
    PROVE  /\ bus.scl = 1 /\ bus.dev = bus.want /\ call \notin {"stop", "over"}
           /\ step' = "set"
           /\ IF bit < (IF call \in Framing THEN 1 ELSE 9) THEN bit' = bit + 1 /\ call' = call
              ELSE bit' = 1 /\ call' = NextCall
           /\ bus' = Moved(bus, "scl0") /\ log' = log \o Entry(bus, "scl0")
           /\ Moved(bus, "scl0") = IF kind = "absent" THEN [bus EXCEPT !.scl = 0]
                                   ELSE SclFalls([bus EXCEPT !.scl = 0])
<1>1. bus \in Bus
  BY DEF I2cInv, I2cTypeOK
<1>2. call \notin {"stop", "over"}
  BY DEF I2cInv, LineInv, Framing
<1>3. bus.scl = 1
  BY <1>2 DEF I2cInv, LineInv
<1>4. Op = "scl0"
  BY DEF Op
<1>5. bus.dev = bus.want
  BY <1>3 DEF I2cInv, CodecInv
<1>6. step' = "set" /\ IF bit < (IF call \in Framing THEN 1 ELSE 9)
                       THEN bit' = bit + 1 /\ call' = call ELSE bit' = 1 /\ call' = NextCall
  BY <1>2 DEF MoveLine, Advance, GoOn
<1> DEFINE moved == [bus EXCEPT !.scl = 0]
<1>7. Driven(bus, "scl0") = moved /\ moved.scl = 0
  BY <1>1 DEF Driven, Bus
<1> HIDE DEF moved
<1>8. Moved(bus, "scl0") = IF kind = "absent" THEN moved ELSE SclFalls(moved)
  BY <1>3, <1>7 DEF Moved
<1> QED BY <1>2, <1>3, <1>4, <1>5, <1>6, <1>8 DEF MoveLine, moved

LEMMA FallQuiet ==
    ASSUME I2cInv, MoveLine, step = "fall",
           bus.mode = "idle" \/ (bus.mode \in {"addr", "reg"} /\ bus.n # 8)
    PROVE  bus' = [bus EXCEPT !.scl = 0] /\ log' = log
<1>1. bus \in Bus
  BY DEF I2cInv, I2cTypeOK
<1> DEFINE moved == [bus EXCEPT !.scl = 0]
<1>2. moved.mode = bus.mode /\ moved.n = bus.n
  BY <1>1 DEF Bus
<1> HIDE DEF moved
<1>3. SclFalls(moved) = moved
  BY <1>2 DEF SclFalls
<1>4. Moved(bus, "scl0") = moved
  BY <1>3, FallStep DEF moved
<1>5. Entry(bus, "scl0") = <<>>
  BY <1>2, <1>4 DEF Entry
<1> QED BY <1>4, <1>5, FallStep, LogGrows DEF I2cInv, moved

LEMMA FallAddr ==
    ASSUME I2cInv, MoveLine, step = "fall", bus.mode = "addr", bus.n = 8
    PROVE  /\ call \in {"addr_w", "addr_r"} /\ bit = 8
           /\ bus' = [bus EXCEPT !.scl = 0, !.mode = "acks", !.want = 0, !.read = (call = "addr_r")]
           /\ log' = log \o <<IF call = "addr_r" THEN "addr R" ELSE "addr W">>
<1>1. bus \in Bus /\ kind # "absent"
  BY DEF I2cInv, I2cTypeOK, CodecInv
<1>2. call \in {"addr_w", "addr_r"} /\ bit = 8 /\ \A i \in 1 .. 8 : bus.byte[i] = Sent[i]
  BY DEF I2cInv, PhaseInv, Started, TakesSent, Taken
<1> DEFINE moved == [bus EXCEPT !.scl = 0]
<1>3. moved.mode = "addr" /\ moved.n = 8 /\ moved.byte = bus.byte
  BY <1>1 DEF Bus
<1>4. Addressed(moved) /\ (moved.byte[8] = 1) = (call = "addr_r")
  BY <1>2, <1>3, SentFacts, AddrBits DEF Addressed, Addr
<1>5. Acks([moved EXCEPT !.read = (call = "addr_r")]) =
        [bus EXCEPT !.scl = 0, !.mode = "acks", !.want = 0, !.read = (call = "addr_r")]
  BY <1>1 DEF Acks, Bus
<1> HIDE DEF moved
<1>6. SclFalls(moved) = Acks([moved EXCEPT !.read = (call = "addr_r")])
  BY <1>3, <1>4 DEF SclFalls
<1>7. Moved(bus, "scl0") =
        [bus EXCEPT !.scl = 0, !.mode = "acks", !.want = 0, !.read = (call = "addr_r")]
  BY <1>1, <1>5, <1>6, FallStep DEF moved
<1>8. Moved(bus, "scl0").mode = "acks" /\ Moved(bus, "scl0").read = (call = "addr_r")
  BY <1>1, <1>7 DEF Bus
<1>9. Entry(bus, "scl0") = <<IF call = "addr_r" THEN "addr R" ELSE "addr W">>
  BY <1>1, <1>8 DEF Entry
<1> QED BY <1>2, <1>7, <1>9, FallStep

LEMMA FallReg ==
    ASSUME I2cInv, MoveLine, step = "fall", bus.mode = "reg", bus.n = 8
    PROVE  /\ call \in {"addr_w", "reg"} /\ bit = 8
           /\ kind = "refuses_reg" =>
                 bus' = [bus EXCEPT !.scl = 0, !.mode = "idle", !.want = 1] /\ log' = log
           /\ kind # "refuses_reg" =>
                 /\ bus' = [bus EXCEPT !.scl = 0, !.mode = "acks", !.want = 0,
                                       !.first = (call = "reg")]
                 /\ log' = IF call = "reg" THEN log \o <<"reg">> ELSE log
<1>1. bus \in Bus /\ kind # "absent"
  BY DEF I2cInv, I2cTypeOK, CodecInv
<1>2. call \in {"addr_w", "reg"} /\ bit = 8 /\ \A i \in 1 .. 8 : bus.byte[i] = Sent[i]
  BY DEF I2cInv, PhaseInv, Started, TakesSent, Taken
<1> DEFINE moved == [bus EXCEPT !.scl = 0]
<1>3. moved.mode = "reg" /\ moved.n = 8 /\ moved.byte = bus.byte
  BY <1>1 DEF Bus
<1>4. (moved.byte = Bits(Reg)) = (call = "reg")
  <2>1. bus.byte \in Byte
    BY <1>1 DEF Bus
  <2>2. CASE call = "reg"
    BY <1>2, <1>3, <2>1, <2>2, SentFacts, BitsFacts DEF Reg
  <2>3. CASE call = "addr_w"
    <3>1. bus.byte[1] = 0 /\ Bits(253)[1] = 1
      BY <1>2, <2>3, SentFacts, AddrBits, BitsFacts, WeightFacts DEF BitOf
    <3> QED BY <1>3, <2>3, <3>1 DEF Reg
  <2> QED BY <1>2, <2>2, <2>3
<1>5. Acks([moved EXCEPT !.first = (call = "reg")]) =
        [bus EXCEPT !.scl = 0, !.mode = "acks", !.want = 0, !.first = (call = "reg")]
  BY <1>1 DEF Acks, Bus
<1>6. Idle(moved) = [bus EXCEPT !.scl = 0, !.mode = "idle", !.want = 1]
  BY <1>1 DEF Idle, Bus
<1> HIDE DEF moved
<1>7. CASE kind = "refuses_reg"
  <2>1. Moved(bus, "scl0") = Idle(moved)
    BY <1>1, <1>3, <1>7, FallStep DEF SclFalls, moved
  <2>2. Moved(bus, "scl0").mode = "idle"
    BY <1>1, <1>6, <2>1 DEF Bus
  <2>3. Entry(bus, "scl0") = <<>>
    BY <1>1, <2>2 DEF Entry
  <2> QED BY <1>2, <1>6, <1>7, <2>1, <2>3, FallStep, LogGrows DEF I2cInv
<1>8. CASE kind # "refuses_reg"
  <2>1. SclFalls(moved) = Acks([moved EXCEPT !.first = (call = "reg")])
    BY <1>3, <1>4, <1>8 DEF SclFalls
  <2>2. Moved(bus, "scl0") =
          [bus EXCEPT !.scl = 0, !.mode = "acks", !.want = 0, !.first = (call = "reg")]
    BY <1>1, <1>5, <2>1, FallStep DEF moved
  <2>3. Moved(bus, "scl0").mode = "acks" /\ Moved(bus, "scl0").first = (call = "reg")
    BY <1>1, <2>2 DEF Bus
  <2>4. Entry(bus, "scl0") = IF call = "reg" THEN <<"reg">> ELSE <<>>
    BY <1>1, <2>3 DEF Entry
  <2>5. log' = IF call = "reg" THEN log \o <<"reg">> ELSE log
    BY <2>4, FallStep, LogGrows DEF I2cInv
  <2> QED BY <1>2, <1>8, <2>2, <2>5, FallStep
<1> QED BY <1>7, <1>8

LEMMA FallAcks ==
    ASSUME I2cInv, MoveLine, step = "fall", bus.mode = "acks"
    PROVE  /\ bus.read  => bus' = [bus EXCEPT !.scl = 0, !.mode = "sends", !.n = 1, !.byte = NextByte(bus),
                                              !.first = FALSE, !.want = NextByte(bus)[1]]
           /\ ~bus.read => bus' = [bus EXCEPT !.scl = 0, !.mode = "reg", !.n = 0, !.byte = Zero, !.want = 1]
           /\ log' = log
<1>1. bus \in Bus /\ kind # "absent"
  BY DEF I2cInv, I2cTypeOK, CodecInv
<1> DEFINE moved == [bus EXCEPT !.scl = 0]
<1>2. moved.mode = "acks" /\ moved.read = bus.read /\ moved.first = bus.first
  BY <1>1 DEF Bus
<1>3. NextByte(moved) = NextByte(bus)
  BY <1>2 DEF NextByte
<1>4. Load(moved) = [bus EXCEPT !.scl = 0, !.mode = "sends", !.n = 1, !.byte = NextByte(bus),
                                !.first = FALSE, !.want = NextByte(bus)[1]]
  BY <1>1, <1>3 DEF Load, Bus
<1>5. Takes(moved, "reg") = [bus EXCEPT !.scl = 0, !.mode = "reg", !.n = 0, !.byte = Zero, !.want = 1]
  BY <1>1 DEF Takes, Bus
<1> HIDE DEF moved
<1>6. Moved(bus, "scl0") = IF bus.read THEN Load(moved) ELSE Takes(moved, "reg")
  BY <1>1, <1>2, FallStep DEF SclFalls, moved
<1>7. Entry(bus, "scl0") = <<>>
  BY DEF Entry
<1> QED BY <1>4, <1>5, <1>6, <1>7, FallStep, LogGrows DEF I2cInv

LEMMA FallSends ==
    ASSUME I2cInv, MoveLine, step = "fall", bus.mode = "sends"
    PROVE  /\ bus.n = 8 => bus' = [bus EXCEPT !.scl = 0, !.mode = "listens", !.want = 1]
           /\ bus.n # 8 => bus' = [bus EXCEPT !.scl = 0, !.n = @ + 1, !.want = bus.byte[bus.n + 1]]
           /\ log' = log
<1>1. bus \in Bus /\ kind # "absent"
  BY DEF I2cInv, I2cTypeOK, CodecInv
<1> DEFINE moved == [bus EXCEPT !.scl = 0]
<1>2. moved.mode = "sends" /\ moved.n = bus.n /\ moved.byte = bus.byte
  BY <1>1 DEF Bus
<1>3. [moved EXCEPT !.mode = "listens", !.want = 1] =
        [bus EXCEPT !.scl = 0, !.mode = "listens", !.want = 1]
  BY <1>1 DEF Bus
<1>4. [moved EXCEPT !.n = @ + 1, !.want = bus.byte[bus.n + 1]] =
        [bus EXCEPT !.scl = 0, !.n = @ + 1, !.want = bus.byte[bus.n + 1]]
  BY <1>1 DEF Bus
<1> HIDE DEF moved
<1>5. Moved(bus, "scl0") = IF bus.n = 8 THEN [moved EXCEPT !.mode = "listens", !.want = 1]
                           ELSE [moved EXCEPT !.n = @ + 1, !.want = bus.byte[bus.n + 1]]
  BY <1>1, <1>2, FallStep DEF SclFalls, moved
<1>6. Entry(bus, "scl0") = <<>>
  BY DEF Entry
<1> QED BY <1>3, <1>4, <1>5, <1>6, FallStep, LogGrows DEF I2cInv

LEMMA FallListens ==
    ASSUME I2cInv, MoveLine, step = "fall", bus.mode = "listens"
    PROVE  /\ ~bus.first /\ bus.ack = (SdaOut = 0)
           /\ SdaOut = 0 => /\ bus' = [bus EXCEPT !.scl = 0, !.mode = "sends", !.n = 1, !.byte = NextByte(bus),
                                                  !.first = FALSE, !.want = NextByte(bus)[1]]
                            /\ log' = log \o <<"data ACK">>
           /\ SdaOut # 0 => /\ bus' = [bus EXCEPT !.scl = 0, !.mode = "idle", !.want = 1]
                            /\ log' = log \o <<"data NACK">>
<1>1. bus \in Bus /\ kind # "absent" /\ ~bus.first
  BY DEF I2cInv, I2cTypeOK, CodecInv
<1>2. call \notin Framing /\ bus.ack = (SdaOut = 0)
  BY DEF I2cInv, PhaseInv, LineInv, Started, Framing
<1> DEFINE moved == [bus EXCEPT !.scl = 0]
<1>3. moved.mode = "listens" /\ moved.ack = bus.ack /\ moved.first = bus.first
  BY <1>1 DEF Bus
<1>4. NextByte(moved) = NextByte(bus)
  BY <1>3 DEF NextByte
<1>5. Load(moved) = [bus EXCEPT !.scl = 0, !.mode = "sends", !.n = 1, !.byte = NextByte(bus),
                                !.first = FALSE, !.want = NextByte(bus)[1]]
  BY <1>1, <1>4 DEF Load, Bus
<1>6. Idle(moved) = [bus EXCEPT !.scl = 0, !.mode = "idle", !.want = 1]
  BY <1>1 DEF Idle, Bus
<1> HIDE DEF moved
<1>7. Moved(bus, "scl0") = IF bus.ack THEN Load(moved) ELSE Idle(moved)
  BY <1>1, <1>3, FallStep DEF SclFalls, moved
<1>8. Entry(bus, "scl0") = <<IF bus.ack THEN "data ACK" ELSE "data NACK">>
  BY <1>1 DEF Entry
<1> QED BY <1>1, <1>2, <1>5, <1>6, <1>7, <1>8, FallStep

-----------------------------------------------------------------------------
(***************************************************************************)
(* The invariant, step by step.                                            *)
(***************************************************************************)

LEMMA I2cInitInv == I2cInit => I2cInv
<1> SUFFICES ASSUME I2cInit PROVE I2cInv
  OBVIOUS
<1> USE DEF I2cInit
<1>1. I2cTypeOK
  BY ZeroType, I2cAssumption DEF I2cTypeOK, Framing, Writes, Reads, Bus, Bit, NoAck, NoId
<1>2. LineInv
  BY <1>1 DEF LineInv, Framing
<1>3. CodecInv
  BY <1>1 DEF CodecInv
<1>4. PhaseInv
  BY <1>1 DEF PhaseInv, Started
<1>5. FirstInv /\ StaleInv /\ IdInv
  BY <1>1 DEF FirstInv, StaleInv, IdInv, Served
<1>6. LockInv
  BY <1>1 DEF LockInv, ModeHere, Heard, AckSeen, After, Started, Writes
<1>7. VerdictInv
  BY DEF VerdictInv
<1> QED BY <1>1, <1>2, <1>3, <1>4, <1>5, <1>6, <1>7 DEF I2cInv

LEMMA SetInv ==
    ASSUME I2cInv, MoveLine, step = "set"
    PROVE  I2cInv'
<1>1. bus \in Bus /\ SdaOut \in Bit
  BY SdaOutType DEF I2cInv, I2cTypeOK
<1>2. /\ bus' = [bus EXCEPT !.sda = SdaOut]
      /\ log' = log /\ step' = "rise" /\ call' = call /\ bit' = bit
      /\ UNCHANGED <<iter, ack, id, all_ok, verdict, kind, served, resets>>
      /\ call # "over"
  BY SetStep DEF MoveLine, Running
<1>3. /\ bus'.scl = bus.scl /\ bus'.sda = SdaOut /\ bus'.dev = bus.dev /\ bus'.want = bus.want
      /\ bus'.mode = bus.mode /\ bus'.n = bus.n /\ bus'.byte = bus.byte
      /\ bus'.read = bus.read /\ bus'.ack = bus.ack /\ bus'.first = bus.first
  BY <1>1, <1>2 DEF Bus
<1>12. /\ SdaOut' = SdaOut /\ Sent' = Sent /\ Sampled' = Sampled /\ Taken' = Taken /\ Read' = Read
       /\ Started' = Started /\ Clean' = Clean /\ Sound' = Sound
  BY <1>2 DEF SdaOut, Sent, Sampled, Taken, Read, Started, Clean, Sound
<1>4. TakesSent' = TakesSent
  BY <1>2, <1>3, <1>12 DEF TakesSent
<1>5. I2cTypeOK'
  BY <1>1, <1>2 DEF I2cInv, I2cTypeOK, Bus
<1>6. LineInv'
  BY <1>2, <1>3, <1>4, <1>12 DEF I2cInv, LineInv
<1>7. CodecInv'
  BY <1>2, <1>3 DEF I2cInv, CodecInv
<1>8. PhaseInv'
  BY <1>1, <1>2, <1>3, <1>4, <1>12 DEF I2cInv, PhaseInv
<1>9. FirstInv' /\ StaleInv' /\ IdInv'
  BY <1>2, <1>3, <1>4, <1>12 DEF I2cInv, FirstInv, StaleInv, IdInv, EndsReg, EndsRestart, Served
<1>10. LockInv'
  BY <1>2, <1>3, <1>4, <1>12 DEF I2cInv, LockInv, ModeHere, Heard, AckSeen
<1>11. VerdictInv'
  BY <1>2, <1>4, <1>12 DEF I2cInv, VerdictInv
<1> QED BY <1>5, <1>6, <1>7, <1>8, <1>9, <1>10, <1>11 DEF I2cInv

LEMMA RiseInv ==
    ASSUME I2cInv, MoveLine, step = "rise"
    PROVE  I2cInv'
<1>1. bus \in Bus /\ SdaOut \in Bit
  BY SdaOutType DEF I2cInv, I2cTypeOK
<1>2. /\ step' = IF call \in Framing THEN "frame" ELSE IF Sampled THEN "sample" ELSE "fall"
      /\ log' = log /\ call' = call /\ bit' = bit /\ call # "over"
      /\ bus.dev = bus.want /\ bus.sda = SdaOut
      /\ UNCHANGED <<iter, ack, id, all_ok, verdict, kind, served, resets>>
  BY RiseStep DEF MoveLine, Running
<1>3. CASE call = "start"
  <2>1. bus.scl = 1 /\ step' = "frame" /\ bus' = [bus EXCEPT !.scl = 1]
    BY <1>2, <1>3, RiseStep DEF I2cInv, LineInv, Framing
  <2>2. bus' = bus
    BY <1>1, <2>1 DEF Bus
  <2>3. I2cTypeOK'
    BY <1>2, <2>1, <2>2 DEF I2cInv, I2cTypeOK
  <2>4. LineInv'
    BY <1>2, <1>3, <2>1, <2>2 DEF I2cInv, LineInv, Framing, SdaOut, Sent
  <2>5. CodecInv'
    BY <1>2, <2>2 DEF I2cInv, CodecInv
  <2>6. ~Started /\ ~Started' /\ Clean' = Clean /\ Sound' = Sound
    BY <1>2, <1>3, <2>1 DEF Started, Clean, Sound
  <2>7. PhaseInv'
    BY <2>2, <2>6 DEF I2cInv, PhaseInv
  <2>8. FirstInv' /\ StaleInv' /\ IdInv'
    BY <1>2, <1>3, <2>2 DEF I2cInv, FirstInv, StaleInv, IdInv, Served
  <2>9. LockInv'
    BY <1>2, <1>3, <2>1, <2>2, <2>6 DEF I2cInv, LockInv, ModeHere, Heard, AckSeen
  <2>10. VerdictInv'
    BY <1>2, <2>6 DEF I2cInv, VerdictInv
  <2> QED BY <2>3, <2>4, <2>5, <2>7, <2>8, <2>9, <2>10 DEF I2cInv
<1>4. CASE call # "start"
  <2>1. bus.scl = 0 /\ Started /\ Started'
    BY <1>2, <1>4 DEF I2cInv, LineInv, Started
  <2>2. /\ bus'.scl = 1 /\ bus'.sda = SdaOut /\ bus'.dev = bus.dev /\ bus'.want = bus.want
        /\ bus'.mode = bus.mode /\ bus'.read = bus.read /\ bus'.first = bus.first
        /\ bus.mode \notin {"addr", "reg"} => bus'.n = bus.n /\ bus'.byte = bus.byte
        /\ bus.mode \in {"addr", "reg"} =>
              bus'.n = bus.n + 1 /\ bus'.byte = [bus.byte EXCEPT ![bus.n + 1] = SdaOut]
        /\ bus.mode = "listens" => bus'.ack = (SdaOut = 0)
        /\ bus' \in Bus
    <3>1. CASE bus.mode \in {"addr", "reg"}
      <4>1. bus' = [bus EXCEPT !.scl = 1, !.n = @ + 1, !.byte[bus.n + 1] = SdaOut]
        BY <1>4, <3>1, RiseStep
      <4>2. bus.n \in 0 .. 7
        BY <1>1, <2>1, <3>1 DEF I2cInv, CodecInv, Bus
      <4>3. [bus.byte EXCEPT ![bus.n + 1] = SdaOut] \in Byte
        BY <1>1, <4>2 DEF Bus, Byte
      <4>4. /\ bus'.scl = 1 /\ bus'.sda = SdaOut /\ bus'.dev = bus.dev /\ bus'.want = bus.want
            /\ bus'.mode = bus.mode /\ bus'.read = bus.read /\ bus'.first = bus.first
            /\ bus'.n = bus.n + 1 /\ bus'.byte = [bus.byte EXCEPT ![bus.n + 1] = SdaOut]
        BY <1>1, <1>2, <4>1 DEF Bus
      <4> DEFINE taken == [bus.byte EXCEPT ![bus.n + 1] = SdaOut]
      <4>6. bus' = [bus EXCEPT !.scl = 1, !.n = bus.n + 1, !.byte = taken]
        BY <1>1, <4>1 DEF Bus
      <4>7. taken \in Byte
        BY <4>3
      <4> HIDE DEF taken
      <4>5. bus' \in Bus
        <5>1. bus.n + 1 \in 0 .. 8
          BY <4>2
        <5> QED BY <1>1, <4>6, <4>7, <5>1 DEF Bus, Bit
      <4> QED BY <3>1, <4>4, <4>5
    <3>2. CASE bus.mode = "listens"
      <4>1. bus' = [bus EXCEPT !.scl = 1, !.ack = (SdaOut = 0)]
        BY <1>4, <3>2, RiseStep
      <4> QED BY <1>1, <1>2, <3>2, <4>1 DEF Bus, Bit
    <3>3. CASE bus.mode \notin {"addr", "reg", "listens"}
      <4>1. bus' = [bus EXCEPT !.scl = 1]
        BY <1>4, <3>3, RiseStep
      <4> QED BY <1>1, <1>2, <3>3, <4>1 DEF Bus, Bit
    <3> QED BY <3>1, <3>2, <3>3
  <2>3. /\ SdaOut' = SdaOut /\ Sent' = Sent /\ Sampled' = Sampled
        /\ Taken = bit - 1 /\ Taken' = bit
        /\ Clean' = Clean /\ Sound' = Sound
    BY <1>2 DEF SdaOut, Sent, Sampled, Taken, Clean, Sound
  <2>4. I2cTypeOK'
    BY <1>2, <2>2 DEF I2cInv, I2cTypeOK
  <2>5. LineInv'
    BY <1>2, <1>4, <2>2, <2>3 DEF I2cInv, LineInv, Sampled, Framing, Writes, Reads, SdaOut
  <2>6. CodecInv'
    BY <1>2, <2>1, <2>2 DEF I2cInv, CodecInv
  <2>12. bus.mode \in {"addr", "reg"} /\ TakesSent /\ call \in Writes => TakesSent'
    <3> SUFFICES ASSUME bus.mode \in {"addr", "reg"}, TakesSent, call \in Writes
                 PROVE  TakesSent'
      OBVIOUS
    <3>1. bus'.n = bit /\ bus'.n = bus.n + 1 /\ bit \in 1 .. 8
      BY <1>1, <2>2, <2>3 DEF TakesSent, I2cInv, I2cTypeOK, Bus
    <3>2. SdaOut = Sent[bit]
      BY <3>1 DEF SdaOut
    <3>3. ASSUME NEW i \in 1 .. bit PROVE bus'.byte[i] = Sent[i]
      <4>1. bus.byte \in [1 .. 8 -> Bit] /\ i \in 1 .. 8 /\ bus.n + 1 \in 1 .. 8 /\ bus.n + 1 = bit
        BY <1>1, <3>1 DEF Bus, Byte
      <4>2. bus'.byte[i] = IF i = bus.n + 1 THEN SdaOut ELSE bus.byte[i]
        BY <2>2, <4>1
      <4>3. i # bit => i \in 1 .. bus.n
        BY <1>1, <4>1 DEF Bus
      <4> QED BY <3>2, <4>1, <4>2, <4>3 DEF TakesSent
    <3> QED BY <1>2, <2>3, <3>1, <3>3 DEF TakesSent
  <2>7. PhaseInv'
    <3>1. CASE bus.mode \in {"idle", "acks", "sends"}
      BY <1>2, <1>4, <2>1, <2>2, <2>3, <3>1 DEF I2cInv, PhaseInv, Framing
    <3>2. CASE bus.mode = "addr"
      BY <1>2, <1>4, <2>1, <2>2, <2>3, <2>12, <3>2 DEF I2cInv, PhaseInv, Framing, Writes
    <3>3. CASE bus.mode = "reg"
      <4>1. CASE call = "restart"
        <5>1. bit = 1 /\ bus.n = Taken
          BY <2>1, <3>3, <4>1 DEF I2cInv, PhaseInv, I2cTypeOK, Writes, Reads
        <5>2. bus'.n = Taken' /\ step' = "frame"
          BY <1>2, <2>2, <2>3, <3>3, <4>1, <5>1 DEF Framing
        <5> QED BY <1>2, <2>1, <2>2, <3>3, <4>1, <5>2 DEF PhaseInv
      <4>2. CASE call # "restart"
        BY <1>2, <1>4, <2>1, <2>2, <2>3, <2>12, <3>3, <4>2 DEF I2cInv, PhaseInv, Framing, Writes
      <4> QED BY <4>1, <4>2
    <3>4. CASE bus.mode = "listens"
      BY <1>2, <1>4, <2>1, <2>2, <2>3, <3>4 DEF I2cInv, PhaseInv, Framing
    <3> QED BY <1>1, <3>1, <3>2, <3>3, <3>4 DEF Bus
  <2>8. FirstInv'
    BY <1>2, <2>2 DEF I2cInv, FirstInv, EndsReg, EndsRestart, Served
  <2>13. call \in Reads => Read' = Read
    BY <1>1, <1>2 DEF Read, Sampled, I2cInv, I2cTypeOK, Writes, Reads, Framing
  <2>9. StaleInv' /\ IdInv'
    <3>1. StaleInv'
      BY <1>2, <2>2 DEF I2cInv, StaleInv, Served
    <3>2. IdInv'
      BY <1>2, <2>2, <2>13 DEF I2cInv, IdInv, Served, Reads
    <3> QED BY <3>1, <3>2
  <2>10. LockInv'
    <3>4. call \in {"start", "restart"} => step' = "frame"
      BY <1>2 DEF Framing
    <3>5. ModeHere' = ModeHere
      BY <1>2, <1>4, <2>1, <3>4 DEF ModeHere, I2cInv, I2cTypeOK, Framing, Writes, Reads
    <3>6. Heard' = Heard
      BY <1>2, <1>4, <3>4 DEF Heard, I2cInv, I2cTypeOK, Framing, Writes, Reads
    <3>1. ModeHere' = ModeHere /\ Heard' = Heard
      BY <3>5, <3>6
    <3>2. \A c \in Writes : AckSeen(c)' => AckSeen(c)
      BY <1>2 DEF AckSeen, Sampled, Writes, Framing
    <3>3. call \in Reads => (bus'.n = bus.n /\ bus'.byte = bus.byte) \/ ~(Sound /\ Clean)
      BY <2>2 DEF I2cInv, LockInv, ModeHere, Writes, Reads
    <3> QED BY <1>2, <2>2, <2>3, <2>13, <3>1, <3>2, <3>3 DEF I2cInv, LockInv, Reads
  <2>11. VerdictInv'
    BY <1>2, <2>3 DEF I2cInv, VerdictInv
  <2> QED BY <2>4, <2>5, <2>6, <2>7, <2>8, <2>9, <2>10, <2>11 DEF I2cInv
<1> QED BY <1>3, <1>4

\* A log that shows the register read still does when it grows.
LEMMA ServedGrows ==
    ASSUME I2cTypeOK, NEW e \in Events, log' = log \o <<e>>
    PROVE  /\ log' \in Seq(Events) /\ Len(log') = Len(log) + 1 /\ log'[Len(log')] = e
           /\ \A i \in 1 .. Len(log) : log'[i] = log[i]
           /\ Served(log) => Served(log')
<1>1. log \in Seq(Events) /\ Len(log) \in Nat
  BY DEF I2cTypeOK
<1>2. log' \in Seq(Events) /\ Len(log') = Len(log) + 1 /\ log'[Len(log')] = e
  BY LogGrows
<1>3. \A i \in 1 .. Len(log) : log'[i] = log[i]
  BY LogGrows
<1>4. ASSUME NEW i \in 1 .. Len(log) - 2, log[i] = "reg", log[i+1] = "START", log[i+2] = "addr R"
      PROVE  i \in 1 .. Len(log') - 2 /\ log'[i] = "reg" /\ log'[i+1] = "START" /\ log'[i+2] = "addr R"
  <2>1. i \in 1 .. Len(log) /\ i + 1 \in 1 .. Len(log) /\ i + 2 \in 1 .. Len(log)
    BY <1>1
  <2>2. log'[i] = log[i] /\ log'[i+1] = log[i+1] /\ log'[i+2] = log[i+2]
    BY <1>3, <2>1
  <2>3. i \in 1 .. Len(log') - 2
    BY <1>1, <1>2
  <2> QED BY <1>4, <2>2, <2>3
<1> QED BY <1>2, <1>3, <1>4 DEF Served

\* It follows the transcript for as long as each entry does.
LEMMA Transcript ==
    ASSUME NEW n \in Nat, NEW e,
           Len(log) = n, \A i \in 1 .. n : log[i] = Expected[i],
           Len(log') = Len(log) + 1, log'[Len(log')] = e, \A i \in 1 .. Len(log) : log'[i] = log[i],
           Expected[n + 1] = e
    PROVE  Len(log') = n + 1 /\ \A i \in 1 .. n + 1 : log'[i] = Expected[i]
<1>1. Len(log') = n + 1 /\ log'[n + 1] = e /\ \A i \in 1 .. n : log'[i] = log[i]
  OBVIOUS
<1>2. \A i \in 1 .. n + 1 : i = n + 1 \/ i \in 1 .. n
  OBVIOUS
<1> QED BY <1>1, <1>2

LEMMA StartInv ==
    ASSUME I2cInv, MoveLine, step = "frame", call # "stop"
    PROVE  I2cInv'
<1>1. bus \in Bus /\ log \in Seq(Events) /\ I2cTypeOK /\ bit = 1
  BY StartStep DEF I2cInv, I2cTypeOK, Writes, Reads
<1>2. /\ call \in {"start", "restart"} /\ step' = "fall" /\ call' = call /\ bit' = bit
      /\ bus.scl = 1 /\ bus.sda = 1 /\ bus.dev = bus.want
      /\ UNCHANGED <<iter, ack, id, all_ok, verdict, kind, served, resets>>
  BY StartStep DEF MoveLine
<1>3. Started' /\ (call = "restart" => Started) /\ Clean' = Clean /\ Sound' = Sound
  BY <1>2 DEF Started, Clean, Sound
<1>4. \A c \in Writes : AckSeen(c)' = AckSeen(c)
  BY <1>1, <1>2 DEF AckSeen
<1>5. VerdictInv'
  BY <1>2, <1>3 DEF I2cInv, VerdictInv
<1>6. CASE kind # "absent" /\ bus.want = 1
  <2>1. /\ bus' = [bus EXCEPT !.sda = 0, !.mode = "addr", !.n = 0, !.byte = Zero, !.want = 1]
        /\ log' = log \o <<"START">>
    BY <1>6, StartStep
  <2>2. /\ bus'.scl = 1 /\ bus'.sda = 0 /\ bus'.dev = 1 /\ bus'.want = 1 /\ bus'.mode = "addr"
        /\ bus'.n = 0 /\ bus'.first = bus.first /\ bus' \in Bus
    <3>1. bus' \in Bus
      <4>1. bus' = [bus EXCEPT !.sda = 0, !.mode = "addr", !.n = 0, !.byte = Zero, !.want = 1]
        BY <2>1
      <4>2. bus' = Edited(bus.scl, 0, "addr", 0, Zero, bus.read, bus.first, 1)
        BY <1>1, <4>1 DEF Bus, Edited
      <4>3. bus.scl \in Bit /\ bus.read \in BOOLEAN /\ bus.first \in BOOLEAN
        BY <1>1 DEF Bus
      <4>4. 0 \in Bit /\ 1 \in Bit /\ 0 \in 0 .. 8 /\ "addr" \in Modes
        BY DEF Bit, Modes
      <4> QED BY <1>1, <4>2, <4>3, <4>4, EditType, ZeroType
    <3>2. /\ bus'.scl = bus.scl /\ bus'.sda = 0 /\ bus'.dev = bus.dev /\ bus'.want = 1
          /\ bus'.mode = "addr" /\ bus'.n = 0 /\ bus'.first = bus.first
      BY <1>1, <2>1 DEF Bus
    <3> QED BY <1>2, <1>6, <3>1, <3>2
  <2>3. /\ log' \in Seq(Events) /\ Len(log') = Len(log) + 1 /\ log'[Len(log')] = "START"
        /\ \A i \in 1 .. Len(log) : log'[i] = log[i]
    BY <1>1, <2>1, ServedGrows DEF Events
  <2>4. I2cTypeOK'
    BY <1>1, <1>2, <2>2, <2>3 DEF I2cTypeOK
  <2>5. LineInv'
    BY <1>2, <2>2 DEF LineInv, Framing
  <2>6. CodecInv'
    BY <1>2, <1>6, <2>2 DEF I2cInv, CodecInv
  <2>7. PhaseInv'
    BY <1>2, <1>3, <2>2 DEF PhaseInv
  <2>8. FirstInv'
    <3> SUFFICES ASSUME call = "restart", bus.first
                 PROVE  EndsRestart'
      BY <1>2, <2>2 DEF FirstInv
    <3>1. bus.mode = "reg"
      BY <1>1, <1>2, <1>3, <1>6 DEF I2cInv, PhaseInv, FirstInv, CodecInv, Bus, Writes, TakesSent
    <3>2. EndsReg
      BY <1>6, <3>1 DEF I2cInv, FirstInv
    <3> QED BY <1>1, <2>3, <3>2 DEF EndsReg, EndsRestart
  <2>9. StaleInv' /\ IdInv'
    BY <1>2, <2>2 DEF StaleInv, IdInv
  <2>10. LockInv'
    <3>1. ModeHere' = "addr" /\ Heard' = Heard + 1 /\ Heard \in {0, 3}
      BY <1>1, <1>2, <1>3 DEF ModeHere, Heard, Writes, Reads
    <3>2. Expected[1] = "START" /\ Expected[4] = "START"
      BY DEF Expected
    <3> SUFFICES ASSUME Sound, Clean
                 PROVE  Len(log') = Heard' /\ \A i \in 1 .. Heard' : log'[i] = Expected[i]
      BY <1>2, <1>3, <1>4, <2>2, <3>1 DEF LockInv, I2cInv
    <3>3. Len(log) = Heard /\ \A i \in 1 .. Heard : log[i] = Expected[i]
      BY DEF I2cInv, LockInv
    <3> QED BY <2>3, <3>1, <3>2, <3>3
  <2> QED BY <1>5, <2>4, <2>5, <2>6, <2>7, <2>8, <2>9, <2>10 DEF I2cInv
<1>7. CASE kind = "absent" \/ bus.want = 0
  <2>1. bus' = [bus EXCEPT !.sda = 0] /\ log' = log
    BY <1>7, StartStep
  <2>2. /\ bus'.scl = 1 /\ bus'.sda = 0 /\ bus'.dev = bus.dev /\ bus'.want = bus.want /\ bus'.mode = bus.mode
        /\ bus'.n = bus.n /\ bus'.byte = bus.byte /\ bus'.read = bus.read /\ bus'.ack = bus.ack
        /\ bus'.first = bus.first /\ bus' \in Bus
    BY <1>1, <1>2, <2>1 DEF Bus, Bit
  <2>3. (kind = "absent" /\ bus.mode = "idle") \/ bus.mode \in {"acks", "sends"}
    BY <1>7 DEF I2cInv, CodecInv
  <2>4. I2cTypeOK'
    BY <1>1, <1>2, <2>1, <2>2 DEF I2cTypeOK
  <2>5. LineInv'
    BY <1>2, <2>2 DEF LineInv, Framing
  <2>6. CodecInv'
    BY <1>2, <2>2 DEF I2cInv, CodecInv
  <2>7. PhaseInv'
    BY <1>2, <1>3, <2>2, <2>3 DEF I2cInv, PhaseInv, Writes
  <2>8. FirstInv' /\ StaleInv' /\ IdInv'
    BY <1>2, <1>3, <2>1, <2>2, <2>3 DEF I2cInv, PhaseInv, FirstInv, StaleInv, IdInv, CodecInv, Writes, Reads
  <2>9. LockInv'
    <3>1. ~(Sound /\ Clean)
      BY <1>2, <2>3 DEF I2cInv, LockInv, ModeHere, Sound, Started, Writes, Reads
    <3> QED BY <1>3, <3>1 DEF LockInv
  <2> QED BY <1>5, <2>4, <2>5, <2>6, <2>7, <2>8, <2>9 DEF I2cInv
<1> QED BY <1>1, <1>6, <1>7 DEF Bus, Bit

LEMMA StopInv ==
    ASSUME I2cInv, MoveLine, step = "frame", call = "stop"
    PROVE  I2cInv'
<1>1. bus \in Bus /\ log \in Seq(Events) /\ I2cTypeOK
  BY DEF I2cInv, I2cTypeOK
<1>2. /\ step' = "set" /\ call' = "over" /\ bit' = 1
      /\ bus.mode = "idle" /\ bus.scl = 1 /\ bus.dev = 1 /\ bus.want = 1
      /\ bus' = [bus EXCEPT !.sda = 1]
      /\ log' = IF kind = "absent" THEN log ELSE log \o <<"STOP">>
      /\ UNCHANGED <<iter, ack, id, all_ok, verdict, kind, served, resets>>
  BY StopStep DEF MoveLine
<1>3. /\ bus'.scl = 1 /\ bus'.sda = 1 /\ bus'.dev = 1 /\ bus'.want = 1 /\ bus'.mode = "idle"
      /\ bus'.first = bus.first /\ bus' \in Bus
  BY <1>1, <1>2 DEF Bus, Bit
<1>4. Started' /\ Clean' = Clean /\ Sound' = Sound
  BY <1>2 DEF Started, Clean, Sound
<1>5. /\ log' \in Seq(Events) /\ (Served(log) => Served(log'))
      /\ kind # "absent" => /\ Len(log') = Len(log) + 1 /\ log'[Len(log')] = "STOP"
                            /\ \A i \in 1 .. Len(log) : log'[i] = log[i]
  BY <1>1, <1>2, ServedGrows DEF Events
<1>6. I2cTypeOK'
  BY <1>1, <1>2, <1>3, <1>5 DEF I2cTypeOK, Writes, Reads
<1>7. LineInv' /\ CodecInv'
  BY <1>2, <1>3 DEF I2cInv, LineInv, CodecInv, Framing
<1>8. PhaseInv'
  BY <1>2, <1>3, <1>4 DEF PhaseInv
<1>9. FirstInv' /\ StaleInv' /\ IdInv'
  BY <1>2, <1>3, <1>5 DEF I2cInv, FirstInv, StaleInv, IdInv, Served
<1>10. LockInv'
  <2> SUFFICES ASSUME Sound, Clean
               PROVE  LockInv'
    BY <1>4 DEF LockInv
  <2>1. ModeHere' = "idle" /\ Heard' = 8 /\ Heard = 7 /\ Expected[8] = "STOP" /\ kind # "absent"
    BY <1>2 DEF ModeHere, Heard, Expected, Sound
  <2>2. Len(log) = 7 /\ \A i \in 1 .. 7 : log[i] = Expected[i]
    BY <2>1 DEF I2cInv, LockInv
  <2>3. Len(log') = 8 /\ \A i \in 1 .. 8 : log'[i] = Expected[i]
    <3>1. Len(log') = 8 /\ log'[8] = "STOP" /\ \A i \in 1 .. 7 : log'[i] = log[i]
      <4>1. Len(log') = Len(log) + 1 /\ log'[Len(log')] = "STOP" /\ \A i \in 1 .. Len(log) : log'[i] = log[i]
        BY <1>5, <2>1
      <4>2. Len(log) = 7
        BY <2>2
      <4> QED BY <4>1, <4>2
    <3>2. \A i \in 1 .. 8 : i = 8 \/ i \in 1 .. 7
      OBVIOUS
    <3> QED BY <2>1, <2>2, <3>1, <3>2
  <2>4. \A c \in Writes : AckSeen(c)
    BY DEF AckSeen, After, Writes
  <2> QED BY <1>2, <1>3, <1>4, <2>1, <2>3, <2>4 DEF I2cInv, LockInv
<1>11. VerdictInv'
  BY <1>2, <1>4 DEF I2cInv, VerdictInv
<1> QED BY <1>6, <1>7, <1>8, <1>9, <1>10, <1>11 DEF I2cInv

LEMMA SampleInv ==
    ASSUME I2cInv, Sample
    PROVE  I2cInv'
<1>1. bus \in Bus /\ I2cTypeOK /\ Sampled /\ bus.scl = 1 /\ bus.sda = 1 /\ bus.dev = bus.want
  <2>1. Sampled /\ bus.scl = 1 /\ bus.sda = SdaOut
    BY DEF Sample, I2cInv, LineInv
  <2>2. SdaOut = 1
    BY <2>1 DEF Sampled, SdaOut, Writes, Reads
  <2> QED BY <2>1, <2>2 DEF I2cInv, I2cTypeOK, CodecInv
<1>2. Level(bus) = bus.want /\ bus.want \in Bit
  BY <1>1 DEF Level, Bus
<1>3. /\ step = "sample" /\ step' = "fall" /\ call' = call /\ bit' = bit
      /\ UNCHANGED <<iter, all_ok, verdict, bus, kind, log, served, resets>>
      /\ call \notin {"start", "stop", "restart", "over"}
  BY <1>1 DEF Sample, Advance, GoOn, Sampled, Writes, Reads
<1>4. /\ call \in Writes => bit = 9 /\ ack' = [ack EXCEPT ![call] = bus.want] /\ id' = id
      /\ call \in Reads  => bit \in 1 .. 8 /\ id' = [id EXCEPT ![call][bit] = bus.want] /\ ack' = ack
      /\ call \in Writes \cup Reads
  BY <1>1, <1>2 DEF Sample, Sampled, Writes, Reads, I2cTypeOK
<1>14. /\ SdaOut' = SdaOut /\ Sent' = Sent /\ Taken' = Taken
       /\ Started /\ Started' /\ Clean' = Clean /\ Sound' = Sound
       /\ call \in Reads => Read = bit - 1 /\ Read' = bit
  <2>1. SdaOut' = SdaOut /\ Sent' = Sent /\ Taken' = Taken
    BY <1>3 DEF SdaOut, Sent, Taken
  <2>2. Started /\ Started' /\ Clean' = Clean /\ Sound' = Sound
    BY <1>3 DEF Started, Clean, Sound
  <2>3. call \in Reads => Read = bit - 1 /\ Read' = bit
    BY <1>3, <1>4 DEF Read
  <2> QED BY <2>1, <2>2, <2>3
<1>5. TakesSent' = TakesSent
  BY <1>3, <1>14 DEF TakesSent
<1>6. /\ call \in Writes => /\ ack' \in [Writes -> Bit] /\ ack'[call] = bus.want
                            /\ \A c \in Writes : c # call => ack'[c] = ack[c]
      /\ call = "id1" => /\ id' \in [Reads -> Byte] /\ id'["id1"][bit] = bus.want
                         /\ \A j \in 1 .. 8 : j # bit => id'["id1"][j] = id["id1"][j]
      /\ call = "id2" => id' \in [Reads -> Byte] /\ id'["id1"] = id["id1"]
  <2>1. ack \in [Writes -> Bit] /\ id \in [Reads -> Byte]
    BY <1>1 DEF I2cTypeOK
  <2>2. CASE call \in Writes
    BY <1>2, <1>4, <2>1, <2>2 DEF Writes
  <2>3. CASE call \in Reads
    <3> DEFINE new == [id[call] EXCEPT ![bit] = bus.want]
    <3>1. new \in Byte /\ new[bit] = bus.want /\ \A j \in 1 .. 8 : j # bit => new[j] = id[call][j]
      BY <1>2, <1>4, <2>1, <2>3 DEF Byte
    <3>2. id' = [id EXCEPT ![call] = new]
      BY <1>4, <2>1, <2>3
    <3> HIDE DEF new
    <3>3. id' \in [Reads -> Byte] /\ id'[call] = new /\ \A c \in Reads : c # call => id'[c] = id[c]
      BY <2>1, <2>3, <3>1, <3>2
    <3> QED BY <2>3, <3>1, <3>3 DEF Reads, Writes
  <2> QED BY <1>4, <2>2, <2>3
<1>7. I2cTypeOK'
  BY <1>1, <1>3, <1>4, <1>6 DEF I2cTypeOK, Reads
<1>8. LineInv'
  BY <1>1, <1>3, <1>5, <1>14 DEF I2cInv, LineInv, Framing
<1>9. CodecInv' /\ VerdictInv'
  BY <1>3, <1>5, <1>14 DEF I2cInv, CodecInv, VerdictInv
<1>10. PhaseInv'
  BY <1>3, <1>5, <1>14 DEF I2cInv, PhaseInv
<1>11. FirstInv' /\ StaleInv'
  BY <1>3 DEF I2cInv, FirstInv, StaleInv, EndsReg, EndsRestart, Served
<1>12. IdInv'
  <2> SUFFICES ASSUME ~Served(log)
               PROVE  IdInv'
    BY <1>3 DEF IdInv
  <2>1. CASE call = "id1" /\ bus.mode = "sends"
    <3>1. bus.n \in 1 .. 8 /\ bus.n >= bit /\ bus.want = bus.byte[bus.n]
      BY <1>1, <1>14, <2>1 DEF I2cInv, PhaseInv, CodecInv, Bus
    <3>2. ASSUME NEW j \in 1 .. bit PROVE id'["id1"][j] = bus.byte[bus.n - bit + j]
      <4>1. CASE j = bit
        BY <1>4, <1>6, <2>1, <3>1, <4>1 DEF Reads
      <4>2. CASE j # bit
        <5>1. j \in 1 .. Read /\ j \in 1 .. 8
          BY <1>4, <1>14, <2>1, <4>2 DEF Reads
        <5>2. id["id1"][j] = bus.byte[bus.n - bit + j]
          BY <2>1, <5>1 DEF I2cInv, IdInv
        <5> QED BY <1>6, <2>1, <4>2, <5>1, <5>2
      <4> QED BY <4>1, <4>2
    <3> QED BY <1>3, <1>14, <2>1, <3>2 DEF IdInv, Reads
  <2>2. CASE call = "id1" /\ bus.mode # "sends"
    <3>1. bus.want = 1
      BY <1>1, <1>3, <1>14, <2>2 DEF I2cInv, PhaseInv, CodecInv, Writes
    <3>2. bit <= 5 \/ \E j \in 1 .. bit : id'["id1"][j] # BitOf(Id1, j)
      <4>1. CASE Read <= 5
        <5>1. bit <= 5 \/ bit = 6
          BY <1>4, <1>14, <2>2, <4>1 DEF Reads
        <5>2. bit = 6 => id'["id1"][6] # BitOf(Id1, 6)
          BY <1>6, <2>2, <3>1, IdBits DEF Id1
        <5> QED BY <5>1, <5>2
      <4>2. CASE ~(Read <= 5)
        <5>1. PICK j \in 1 .. Read : id["id1"][j] # BitOf(Id1, j)
          BY <2>2, <4>2 DEF I2cInv, IdInv
        <5>2. j \in 1 .. 8 /\ j # bit /\ j \in 1 .. bit
          BY <1>4, <1>14, <2>2 DEF Reads
        <5> QED BY <1>6, <2>2, <5>1, <5>2
      <4> QED BY <4>1, <4>2
    <3> QED BY <1>3, <1>14, <2>2, <3>2 DEF IdInv, Reads
  <2>3. CASE call # "id1"
    <3>1. call = "id2" => id["id1"] # Bits(Id1)
      BY DEF I2cInv, IdInv
    <3> QED BY <1>3, <1>6, <2>3, <3>1 DEF IdInv
  <2> QED BY <2>1, <2>2, <2>3
<1>13. LockInv'
  <2> SUFFICES ASSUME Sound, Clean
               PROVE  LockInv'
    BY <1>14 DEF LockInv
  <2>1. ModeHere' = ModeHere /\ Heard' = Heard
    <3>1. ModeHere' = ModeHere
      BY <1>3, <1>4, <1>14 DEF ModeHere, Writes, Reads
    <3>2. Heard' = Heard
      BY <1>1, <1>3 DEF Heard, I2cTypeOK, Framing, Writes, Reads
    <3> QED BY <3>1, <3>2
  <2>2. ASSUME NEW c \in Writes, AckSeen(c)' PROVE ack'[c] = 0
    <3>1. CASE c = call
      <4>1. bus.mode = "acks"
        BY <1>4, <3>1 DEF I2cInv, LockInv, ModeHere, Started, Writes, Reads
      <4>2. bus.want = 0
        BY <4>1 DEF I2cInv, CodecInv
      <4> QED BY <1>6, <3>1, <4>2
    <3>2. CASE c # call
      <4>1. AckSeen(c)
        BY <1>3, <2>2, <3>2 DEF AckSeen
      <4>2. ack[c] = 0
        BY <4>1 DEF I2cInv, LockInv
      <4>3. ack'[c] = ack[c]
        BY <1>4, <1>6, <3>2
      <4> QED BY <4>2, <4>3
    <3> QED BY <3>1, <3>2
  <2>3. call = "id1" => \A j \in 1 .. Read' : id'["id1"][j] = BitOf(Id1, j)
    <3> SUFFICES ASSUME call = "id1", NEW j \in 1 .. bit
                 PROVE  id'["id1"][j] = BitOf(Id1, j)
      BY <1>14 DEF Reads
    <3>1. bus.mode = "sends" /\ bus.n = bit /\ bus.byte = Bits(Id1) /\ bit \in 1 .. 8
      BY <1>4, <1>14 DEF I2cInv, LockInv, ModeHere, Writes, Reads
    <3>2. bus.want = BitOf(Id1, bit)
      BY <3>1, BitsFacts DEF I2cInv, CodecInv, Id1
    <3>3. j # bit => j \in 1 .. Read /\ j \in 1 .. 8
      BY <1>14, <3>1 DEF Reads
    <3>4. j # bit => id["id1"][j] = BitOf(Id1, j)
      BY <3>3 DEF I2cInv, LockInv
    <3> QED BY <1>6, <3>2, <3>3, <3>4
  <2>4. call = "id2" => id'["id1"] = Bits(Id1)
    BY <1>6 DEF I2cInv, LockInv
  <2> QED BY <1>3, <2>1, <2>2, <2>3, <2>4 DEF I2cInv, LockInv
<1> QED BY <1>7, <1>8, <1>9, <1>10, <1>11, <1>12, <1>13 DEF I2cInv

(***************************************************************************)
(* SCL falls: where the CPU is next, and what that leaves of the           *)
(* invariant to show.                                                      *)
(***************************************************************************)

LEMMA FallPlace ==
    ASSUME I2cInv, MoveLine, step = "fall"
    PROVE  /\ call \in {"start", "restart"} \cup Writes \cup Reads /\ bit \in 1 .. 9
           /\ step' = "set" /\ Started /\ Started'
           /\ call = "start"   => bit = 1 /\ call' = "addr_w" /\ bit' = 1
           /\ call = "restart" => bit = 1 /\ call' = "addr_r" /\ bit' = 1
           /\ call \in Writes \cup Reads /\ bit <= 8 => call' = call /\ bit' = bit + 1
           /\ call \in Writes \cup Reads /\ bit = 9  =>
                 bit' = 1 /\ call' = CASE call = "addr_w" -> "reg"
                                       [] call = "reg"    -> "restart"
                                       [] call = "addr_r" -> "id1"
                                       [] call = "id1"    -> "id2"
                                       [] call = "id2"    -> "stop"
           /\ Taken = bit /\ Taken' = bit' - 1
           /\ Read' = bit' - 1 /\ (bit <= 8 => Read = bit) /\ (bit = 9 => Read = 8)
<1>1. call \in {"start", "restart"} \cup Writes \cup Reads
  BY FallStep DEF I2cInv, I2cTypeOK, Framing
<1>2. bit \in 1 .. 9 /\ (call \in {"start", "restart"} => bit = 1)
  BY <1>1 DEF I2cInv, I2cTypeOK, Writes, Reads
<1>3. IF bit < (IF call \in Framing THEN 1 ELSE 9) THEN bit' = bit + 1 /\ call' = call
      ELSE bit' = 1 /\ call' = NextCall
  BY FallStep
<1>4. step' = "set" /\ Taken = bit /\ Taken' = bit' - 1
  BY FallStep DEF Taken
<1>5. /\ call = "start"   => call' = "addr_w" /\ bit' = 1
      /\ call = "restart" => call' = "addr_r" /\ bit' = 1
      /\ call \in Writes \cup Reads /\ bit <= 8 => call' = call /\ bit' = bit + 1
  BY <1>2, <1>3 DEF NextCall, Framing, Writes, Reads
<1>6. call \in Writes \cup Reads /\ bit = 9 =>
         bit' = 1 /\ call' = CASE call = "addr_w" -> "reg"
                               [] call = "reg"    -> "restart"
                               [] call = "addr_r" -> "id1"
                               [] call = "id1"    -> "id2"
                               [] call = "id2"    -> "stop"
  BY <1>3 DEF NextCall, Framing, Writes, Reads
<1>7. Started /\ Started'
  BY <1>1, <1>2, <1>5, <1>6 DEF Started, Writes, Reads
<1>8. Read' = bit' - 1 /\ (bit <= 8 => Read = bit) /\ (bit = 9 => Read = 8)
  BY <1>4 DEF Read
<1> QED BY <1>1, <1>2, <1>4, <1>5, <1>6, <1>7, <1>8

LEMMA FallRest ==
    ASSUME I2cInv, MoveLine, step = "fall", bus' \in Bus, bus'.scl = 0, log' \in Seq(Events)
    PROVE  /\ I2cTypeOK' /\ LineInv' /\ VerdictInv'
           /\ UNCHANGED <<ack, id, kind>> /\ Clean' = Clean /\ Sound' = Sound
           /\ \A c \in Writes : AckSeen(c)' = AckSeen(c)
<1>1. UNCHANGED <<iter, ack, id, all_ok, verdict, kind, served, resets>>
  BY DEF MoveLine
<1>2. Clean' = Clean /\ Sound' = Sound
  BY <1>1 DEF Clean, Sound
<1>3. call' \in {"addr_w", "addr_r", "reg", "restart", "id1", "id2", "stop"} /\ bit' \in 1 .. 9
  BY FallPlace DEF Writes, Reads
<1>4. call' \in {"restart", "stop"} => bit' = 1
  BY FallPlace DEF Writes, Reads
<1>5. I2cTypeOK'
  BY <1>1, <1>3, <1>4, FallPlace DEF I2cInv, I2cTypeOK, Framing, Writes, Reads
<1>6. LineInv'
  BY <1>3, FallPlace DEF LineInv
<1>7. VerdictInv'
  BY <1>1, <1>2 DEF I2cInv, VerdictInv
<1>8. ASSUME NEW c \in Writes PROVE AckSeen(c)' = AckSeen(c)
  BY FallPlace DEF AckSeen, After, Writes, Reads
<1> QED BY <1>1, <1>2, <1>5, <1>6, <1>7, <1>8

\* A first byte that did not come of the register read cannot become CHIP_ID1
\* once the codec has stopped sending it.
LEMMA FallId ==
    ASSUME I2cInv, MoveLine, step = "fall", bus.mode # "sends", bus'.mode # "sends" \/ call' # "id1",
           UNCHANGED id, Served(log) => Served(log')
    PROVE  IdInv'
<1> SUFFICES ASSUME ~Served(log) PROVE IdInv'
  BY DEF IdInv
<1>1. CASE call' = "id1"
  <2>1. (call = "id1" /\ bit <= 8 /\ Read' = Read) \/ Read' = 0
    BY <1>1, FallPlace DEF Writes, Reads
  <2>2. Read' <= 5 \/ \E j \in 1 .. Read' : id["id1"][j] # BitOf(Id1, j)
    BY <2>1 DEF I2cInv, IdInv
  <2> QED BY <1>1, <2>2 DEF IdInv
<1>2. CASE call' # "id1"
  <2>1. call' \in {"id2", "stop", "over"} => call \in {"id2", "stop", "over"} \/ (call = "id1" /\ Read = 8)
    BY FallPlace DEF Writes, Reads
  <2>2. call = "id1" /\ Read = 8 => \E j \in 1 .. 8 : id["id1"][j] # BitOf(Id1, j)
    BY DEF I2cInv, IdInv
  <2>3. call = "id1" /\ Read = 8 => id["id1"] # Bits(Id1)
    BY <2>2, BitsFacts DEF Id1
  <2> QED BY <1>2, <2>1, <2>3 DEF I2cInv, IdInv
<1> QED BY <1>1, <1>2

LEMMA FallQuietInv ==
    ASSUME I2cInv, MoveLine, step = "fall",
           bus.mode = "idle" \/ (bus.mode \in {"addr", "reg"} /\ bus.n # 8)
    PROVE  I2cInv'
<1>1. bus \in Bus /\ log \in Seq(Events)
  BY DEF I2cInv, I2cTypeOK
<1>2. bus' = [bus EXCEPT !.scl = 0] /\ log' = log
  BY FallQuiet
<1>3. /\ bus'.scl = 0 /\ bus'.dev = bus.dev /\ bus'.want = bus.want
      /\ bus'.mode = bus.mode /\ bus'.n = bus.n /\ bus'.byte = bus.byte
      /\ bus'.read = bus.read /\ bus'.ack = bus.ack /\ bus'.first = bus.first /\ bus' \in Bus
  BY <1>1, <1>2 DEF Bus, Bit
<1>4. /\ I2cTypeOK' /\ LineInv' /\ VerdictInv'
      /\ UNCHANGED <<ack, id, kind>> /\ Clean' = Clean /\ Sound' = Sound
      /\ \A c \in Writes : AckSeen(c)' = AckSeen(c)
  BY <1>1, <1>2, <1>3, FallRest
<1>5. CodecInv'
  BY <1>1, <1>3, <1>4 DEF I2cInv, CodecInv, Bus
<1>6. /\ bus.mode = "addr" => (call \in {"start", "restart"} /\ bus.n = 0)
                              \/ (call \in {"addr_w", "addr_r"} /\ TakesSent /\ bit <= 7)
      /\ bus.mode = "reg"  => call \in {"addr_w", "reg"} /\ TakesSent /\ bit <= 7
  <2>1. TakesSent /\ bus.n # 8 => bit <= 7
    BY FallPlace DEF TakesSent
  <2> QED BY <2>1, FallPlace DEF I2cInv, PhaseInv
<1>7. TakesSent /\ bit <= 7 /\ call \in Writes => TakesSent'
  <2> SUFFICES ASSUME TakesSent, bit <= 7, call \in Writes PROVE TakesSent'
    OBVIOUS
  <2>1. call' = call /\ bit' = bit + 1 /\ Sent' = Sent /\ bit \in 1 .. 9
    BY FallPlace DEF Sent, Writes, Reads
  <2> QED BY <1>3, <2>1, FallPlace DEF TakesSent
<1>8. bus.n = 0 /\ bit' = 1 => TakesSent'
  BY <1>3, FallPlace DEF TakesSent
<1>9. PhaseInv'
  <2>1. CASE bus.mode = "idle"
    BY <1>3, <2>1, FallPlace DEF PhaseInv
  <2>2. CASE bus.mode = "addr"
    BY <1>3, <1>6, <1>7, <1>8, <2>2, FallPlace DEF PhaseInv, Writes
  <2>3. CASE bus.mode = "reg"
    BY <1>3, <1>6, <1>7, <2>3, FallPlace DEF PhaseInv, Writes
  <2> QED BY <2>1, <2>2, <2>3
<1>10. FirstInv'
  <2> SUFFICES ASSUME kind # "absent", bus.first PROVE FirstInv'
    BY <1>3, <1>4 DEF FirstInv
  <2>1. EndsReg' = EndsReg /\ EndsRestart' = EndsRestart
    BY <1>2 DEF EndsReg, EndsRestart
  <2>2. CASE call = "start"
    <3>1. bus.mode = "addr" /\ call' = "addr_w"
      BY <1>6, <2>2, FallPlace DEF I2cInv, PhaseInv
    <3> QED BY <1>3, <3>1 DEF FirstInv
  <2>3. CASE call # "start"
    <3>1. bus.mode \in {"addr", "reg"}
      BY <2>3 DEF I2cInv, FirstInv
    <3> QED BY <1>3, <1>6, <2>1, <2>3, <3>1, FallPlace DEF I2cInv, FirstInv, Writes
  <2> QED BY <2>2, <2>3
<1>11. StaleInv' /\ IdInv'
  BY <1>2, <1>3, <1>4, FallId DEF StaleInv
<1>12. LockInv'
  <2> SUFFICES ASSUME Sound, Clean PROVE LockInv'
    BY <1>4 DEF LockInv
  <2>1. bus.mode = ModeHere /\ bus.mode # "idle"
    BY FallPlace DEF I2cInv, LockInv, ModeHere, Writes, Reads
  <2>2. call \in {"start", "restart"} \/ (call \in Writes /\ bit <= 7)
    BY <1>6, <2>1 DEF Writes
  <2>3. ModeHere' = ModeHere /\ Heard' = Heard
    <3>1. ModeHere' = ModeHere
      BY <2>2, FallPlace DEF ModeHere, Writes, Reads
    <3>2. Heard' = Heard
      BY <2>2, FallPlace DEF Heard, Writes, Reads
    <3> QED BY <3>1, <3>2
  <2>4. (call' = "reg" /\ bit' = 9) \/ call' \in {"restart", "addr_r"} => call \in {"restart", "addr_r"}
    BY <2>2, FallPlace DEF Writes, Reads
  <2>5. call' \notin {"id1", "id2", "stop", "over"}
    BY <2>2, FallPlace DEF Writes, Reads
  <2> QED BY <1>2, <1>3, <1>4, <2>1, <2>3, <2>4, <2>5 DEF I2cInv, LockInv
<1> QED BY <1>4, <1>5, <1>9, <1>10, <1>11, <1>12 DEF I2cInv

LEMMA FallAddrInv ==
    ASSUME I2cInv, MoveLine, step = "fall", bus.mode = "addr", bus.n = 8
    PROVE  I2cInv'
<1> DEFINE event == IF call = "addr_r" THEN "addr R" ELSE "addr W"
<1>1. bus \in Bus /\ log \in Seq(Events) /\ I2cTypeOK /\ kind # "absent"
  BY DEF I2cInv, I2cTypeOK, CodecInv
<1>2. call \in {"addr_w", "addr_r"} /\ bit = 8
  BY FallAddr
<1>3. call' = call /\ bit' = 9 /\ step' = "set" /\ Started'
  BY <1>2, FallPlace DEF Writes, Reads
<1> DEFINE read == call = "addr_r"
<1>12. bus' = Edited(0, bus.sda, "acks", bus.n, bus.byte, read, bus.first, 0)
  <2>1. bus' = [bus EXCEPT !.scl = 0, !.mode = "acks", !.want = 0, !.read = read]
    BY FallAddr
  <2> QED BY <1>1, <2>1 DEF Bus, Edited
<1>13. read \in BOOLEAN /\ event \in Events /\ log' = log \o <<event>>
  BY FallAddr DEF Events
<1> HIDE DEF read, event
<1>4. /\ bus'.scl = 0 /\ bus'.want = 0 /\ bus'.mode = "acks" /\ bus'.read = read
      /\ bus'.first = bus.first /\ bus' \in Bus
  <2>1. 0 \in Bit /\ bus.sda \in Bit /\ "acks" \in Modes /\ bus.n \in 0 .. 8 /\ bus.byte \in Byte
        /\ bus.first \in BOOLEAN
    BY <1>1 DEF Bus, Bit, Modes
  <2>2. bus' \in Bus
    BY <1>1, <1>12, <1>13, <2>1, EditType
  <2> QED BY <1>1, <1>12, <2>2, EditFields
<1>5. /\ log' \in Seq(Events) /\ Len(log') = Len(log) + 1 /\ log'[Len(log')] = event
      /\ \A i \in 1 .. Len(log) : log'[i] = log[i]
      /\ Served(log) => Served(log')
  BY <1>1, <1>13, ServedGrows
<1>6. /\ I2cTypeOK' /\ LineInv' /\ VerdictInv'
      /\ UNCHANGED <<ack, id, kind>> /\ Clean' = Clean /\ Sound' = Sound
      /\ \A c \in Writes : AckSeen(c)' = AckSeen(c)
  BY <1>4, <1>5, FallRest
<1>7. CodecInv'
  BY <1>1, <1>4, <1>6 DEF I2cInv, CodecInv
<1>8. PhaseInv'
  BY <1>2, <1>3, <1>4 DEF PhaseInv, Writes, read
<1>9. FirstInv'
  <2> SUFFICES ASSUME call = "addr_r", bus.first PROVE Served(log')
    BY <1>2, <1>3, <1>4 DEF FirstInv
  <2>1. Len(log) >= 2 /\ log[Len(log) - 1] = "reg" /\ log[Len(log)] = "START"
    BY <1>1 DEF I2cInv, FirstInv, EndsRestart
  <2>2. Len(log) \in Nat
    BY <1>1
  <2>3. ASSUME NEW l \in Nat, l >= 2
        PROVE  l - 1 \in 1 .. l /\ l \in 1 .. l /\ l - 1 \in 1 .. (l + 1) - 2 /\ l - 1 + 1 = l /\ l - 1 + 2 = l + 1
    BY <2>3
  <2>4. Len(log') = Len(log) + 1 /\ log'[Len(log')] = event
    BY <1>5
  <2>5. log'[Len(log) + 1] = "addr R"
    BY <2>4 DEF event
  <2>6. log'[Len(log) - 1] = "reg" /\ log'[Len(log)] = "START"
    BY <1>5, <2>1, <2>2, <2>3
  <2> DEFINE i == Len(log) - 1
  <2>7. i \in 1 .. Len(log') - 2 /\ i + 1 = Len(log) /\ i + 2 = Len(log) + 1
    BY <2>1, <2>2, <2>3, <2>4
  <2>8. log'[i] = "reg" /\ log'[i + 1] = "START" /\ log'[i + 2] = "addr R"
    BY <2>5, <2>6, <2>7
  <2> QED BY <2>7, <2>8 DEF Served
<1>10. StaleInv' /\ IdInv'
  BY <1>4, <1>5, <1>6, FallId DEF StaleInv
<1>11. LockInv'
  <2> SUFFICES ASSUME Sound, Clean PROVE LockInv'
    BY <1>6 DEF LockInv
  <2>1. ModeHere' = "acks" /\ Heard' = Heard + 1 /\ Heard \in {1, 4} /\ Expected[Heard + 1] = event
    <3>1. ModeHere' = "acks" /\ Heard' = Heard + 1 /\ Heard \in {1, 4}
      BY <1>2, <1>3 DEF ModeHere, Heard, Writes, Reads
    <3>2. Heard = IF call = "addr_r" THEN 4 ELSE 1
      BY <1>2 DEF Heard
    <3>3. Expected[Heard + 1] = event
      <4>1. Expected[2] = "addr W" /\ Expected[5] = "addr R"
        BY DEF Expected
      <4>2. call = "addr_r" => Heard + 1 = 5 /\ event = "addr R"
        BY <3>2 DEF event
      <4>3. call # "addr_r" => Heard + 1 = 2 /\ event = "addr W"
        BY <3>2 DEF event
      <4> QED BY <4>1, <4>2, <4>3
    <3> QED BY <3>1, <3>3
  <2>2. Len(log) = Heard /\ \A i \in 1 .. Heard : log[i] = Expected[i]
    BY DEF I2cInv, LockInv
  <2>3. Len(log') = Heard' /\ \A i \in 1 .. Heard' : log'[i] = Expected[i]
    <3>1. Len(log') = Heard + 1 /\ log'[Heard + 1] = event /\ \A i \in 1 .. Heard : log'[i] = log[i]
      BY <1>5, <2>2
    <3>2. \A i \in 1 .. Heard + 1 : i = Heard + 1 \/ i \in 1 .. Heard
      BY <2>1
    <3> QED BY <2>1, <2>2, <3>1, <3>2
  <2> QED BY <1>2, <1>3, <1>4, <1>6, <2>1, <2>3 DEF I2cInv, LockInv, Reads
<1> QED BY <1>6, <1>7, <1>8, <1>9, <1>10, <1>11 DEF I2cInv

LEMMA FallRegInv ==
    ASSUME I2cInv, MoveLine, step = "fall", bus.mode = "reg", bus.n = 8
    PROVE  I2cInv'
<1>1. bus \in Bus /\ log \in Seq(Events) /\ I2cTypeOK /\ kind # "absent" /\ ~bus.read
  BY DEF I2cInv, I2cTypeOK, CodecInv
<1>2. call \in {"addr_w", "reg"} /\ bit = 8
  BY FallReg
<1>3. call' = call /\ bit' = 9 /\ step' = "set" /\ Started'
  BY <1>2, FallPlace DEF Writes, Reads
<1>4. CASE kind = "refuses_reg"
  <2>1. bus' = [bus EXCEPT !.scl = 0, !.mode = "idle", !.want = 1] /\ log' = log /\ ~bus.first
    BY <1>4, FallReg DEF I2cInv, CodecInv
  <2>2. /\ bus'.scl = 0 /\ bus'.want = 1 /\ bus'.mode = "idle" /\ bus'.first = bus.first /\ bus' \in Bus
    BY <1>1, <2>1 DEF Bus, Bit
  <2>3. /\ I2cTypeOK' /\ LineInv' /\ VerdictInv'
        /\ UNCHANGED <<ack, id, kind>> /\ Clean' = Clean /\ Sound' = Sound
    BY <1>1, <2>1, <2>2, FallRest
  <2>4. CodecInv' /\ PhaseInv' /\ FirstInv' /\ LockInv'
    BY <1>3, <1>4, <2>1, <2>2, <2>3 DEF CodecInv, PhaseInv, FirstInv, LockInv, Sound
  <2>5. StaleInv' /\ IdInv'
    BY <2>1, <2>2, <2>3, FallId DEF StaleInv
  <2> QED BY <2>3, <2>4, <2>5 DEF I2cInv
<1>5. CASE kind # "refuses_reg"
  <2> DEFINE first == call = "reg"
  <2>1. /\ bus' = [bus EXCEPT !.scl = 0, !.mode = "acks", !.want = 0, !.first = first]
        /\ log' = IF call = "reg" THEN log \o <<"reg">> ELSE log
    BY <1>5, FallReg
  <2>10. bus' = Edited(0, bus.sda, "acks", bus.n, bus.byte, bus.read, first, 0) /\ first \in BOOLEAN
    BY <1>1, <2>1 DEF Bus, Edited
  <2> HIDE DEF first
  <2>2. /\ bus'.scl = 0 /\ bus'.want = 0 /\ bus'.mode = "acks" /\ bus'.first = first
        /\ bus'.read = bus.read /\ bus' \in Bus
    <3>1. 0 \in Bit /\ bus.sda \in Bit /\ "acks" \in Modes /\ bus.n \in 0 .. 8 /\ bus.byte \in Byte
          /\ bus.read \in BOOLEAN
      BY <1>1 DEF Bus, Bit, Modes
    <3>2. bus' \in Bus
      BY <1>1, <2>10, <3>1, EditType
    <3> QED BY <1>1, <2>10, <3>2, EditFields
  <2>3. /\ log' \in Seq(Events) /\ (Served(log) => Served(log'))
        /\ call = "reg" => /\ Len(log') = Len(log) + 1 /\ log'[Len(log')] = "reg"
                           /\ \A i \in 1 .. Len(log) : log'[i] = log[i]
    BY <1>1, <2>1, ServedGrows DEF Events
  <2>4. /\ I2cTypeOK' /\ LineInv' /\ VerdictInv'
        /\ UNCHANGED <<ack, id, kind>> /\ Clean' = Clean /\ Sound' = Sound
        /\ \A c \in Writes : AckSeen(c)' = AckSeen(c)
    BY <2>2, <2>3, FallRest
  <2>5. CodecInv'
    BY <1>1, <1>5, <2>2, <2>4 DEF CodecInv
  <2>6. PhaseInv'
    <3>1. bus'.read = (call' = "addr_r")
      BY <1>1, <1>2, <1>3, <2>2 DEF Bus
    <3> QED BY <1>2, <1>3, <2>2, <3>1 DEF PhaseInv, Writes
  <2>7. FirstInv'
    <3>1. call = "reg" => EndsReg'
      BY <1>1, <2>3 DEF EndsReg
    <3> QED BY <1>2, <1>3, <2>2, <3>1 DEF FirstInv, first
  <2>8. StaleInv' /\ IdInv'
    BY <2>2, <2>3, <2>4, FallId DEF StaleInv
  <2>9. LockInv'
    <3> SUFFICES ASSUME Sound, Clean PROVE LockInv'
      BY <2>4 DEF LockInv
    <3>1. call = "reg"
      BY <1>2, FallPlace DEF I2cInv, LockInv, ModeHere, Writes, Reads
    <3>2. ModeHere' = "acks" /\ Heard' = 3 /\ Heard = 2 /\ Expected[3] = "reg"
      BY <1>2, <1>3, <3>1 DEF ModeHere, Heard, Expected, Writes, Reads
    <3>3. Len(log) = 2 /\ \A i \in 1 .. 2 : log[i] = Expected[i]
      BY <3>2 DEF I2cInv, LockInv
    <3>4. Len(log') = 3 /\ \A i \in 1 .. 3 : log'[i] = Expected[i]
      <4>1. Len(log') = 3 /\ log'[3] = "reg" /\ \A i \in 1 .. 2 : log'[i] = log[i]
        <5>1. Len(log') = Len(log) + 1 /\ log'[Len(log')] = "reg" /\ \A i \in 1 .. Len(log) : log'[i] = log[i]
          BY <2>3, <3>1
        <5>2. Len(log) = 2
          BY <3>3
        <5> QED BY <5>1, <5>2
      <4>2. \A i \in 1 .. 3 : i = 3 \/ i \in 1 .. 2
        OBVIOUS
      <4> QED BY <3>2, <3>3, <4>1, <4>2
    <3>5. bus'.first
      BY <2>2, <3>1 DEF first
    <3> QED BY <1>2, <1>3, <2>2, <2>4, <3>1, <3>2, <3>4, <3>5 DEF I2cInv, LockInv, Reads
  <2> QED BY <2>4, <2>5, <2>6, <2>7, <2>8, <2>9 DEF I2cInv
<1> QED BY <1>4, <1>5

LEMMA NextByteFacts ==
    /\ NextByte(bus) \in Byte
    /\ ~bus.first => NextByte(bus) \in Stale
    /\ bus.first /\ Sound => NextByte(bus) = Bits(Id1)
<1>1. Bits(131) \in Byte /\ Bits(132) \in Byte /\ Bits(17) \in Byte /\ Bits(255) \in Byte
  BY BitsFacts
<1> QED BY <1>1 DEF NextByte, Stale, Sound, Id1, Id2

\* The codec begins to send a byte as SCL falls.
LEMMA FallLoad ==
    ASSUME I2cInv, MoveLine, step = "fall", log' \in Seq(Events),
           bus' = [bus EXCEPT !.scl = 0, !.mode = "sends", !.n = 1, !.byte = NextByte(bus),
                              !.first = FALSE, !.want = NextByte(bus)[1]],
           kind # "absent",
           call' \notin {"stop", "over"}, call' \in Reads => bit' = 1
    PROVE  /\ bus'.scl = 0 /\ bus'.mode = "sends" /\ bus'.n = 1 /\ bus'.byte = NextByte(bus) /\ ~bus'.first
           /\ I2cTypeOK' /\ LineInv' /\ VerdictInv' /\ CodecInv' /\ PhaseInv' /\ FirstInv'
           /\ UNCHANGED <<ack, id, kind>> /\ Clean' = Clean /\ Sound' = Sound
           /\ \A c \in Writes : AckSeen(c)' = AckSeen(c)
<1>1. bus \in Bus
  BY DEF I2cInv, I2cTypeOK
<1> DEFINE next == NextByte(bus)
           level == next[1]
           first == FALSE
<1>2. next \in Byte /\ level \in Bit
  BY NextByteFacts DEF Byte
<1>3. bus' = Edited(0, bus.sda, "sends", 1, next, bus.read, first, level)
  BY <1>1 DEF Bus, Edited
<1>9. level = next[1] /\ next = NextByte(bus) /\ first \in BOOLEAN /\ ~first
  OBVIOUS
<1> HIDE DEF next, level, first
<1>4. /\ bus'.scl = 0 /\ bus'.mode = "sends" /\ bus'.n = 1 /\ bus'.byte = next /\ bus'.first = first
      /\ bus'.want = level /\ bus' \in Bus
  <2>1. 0 \in Bit /\ bus.sda \in Bit /\ "sends" \in Modes /\ 1 \in 0 .. 8 /\ bus.read \in BOOLEAN
    BY <1>1 DEF Bus, Bit, Modes
  <2>2. bus' \in Bus
    BY <1>1, <1>2, <1>3, <1>9, <2>1, EditType
  <2>3. bus'.scl = 0 /\ bus'.mode = "sends" /\ bus'.n = 1 /\ bus'.byte = next /\ bus'.first = first
        /\ bus'.want = level
    BY <1>1, <1>3 DEF Edited, Bus
  <2> QED BY <2>2, <2>3
<1>5. /\ I2cTypeOK' /\ LineInv' /\ VerdictInv'
      /\ UNCHANGED <<ack, id, kind>> /\ Clean' = Clean /\ Sound' = Sound
      /\ \A c \in Writes : AckSeen(c)' = AckSeen(c)
  BY <1>4, FallRest
<1>6. CodecInv'
  BY <1>4, <1>5, <1>9 DEF CodecInv
<1>7. PhaseInv'
  <2>1. call' \in Reads => bit' <= 8 /\ 1 >= bit' /\ 1 = bit'
    OBVIOUS
  <2> QED BY <1>4, <2>1, FallPlace DEF PhaseInv, Reads
<1>8. FirstInv'
  BY <1>4, <1>9 DEF FirstInv
<1> QED BY <1>4, <1>5, <1>6, <1>7, <1>8, <1>9

LEMMA FallAcksInv ==
    ASSUME I2cInv, MoveLine, step = "fall", bus.mode = "acks"
    PROVE  I2cInv'
<1>1. bus \in Bus /\ log \in Seq(Events) /\ I2cTypeOK /\ kind # "absent"
  BY DEF I2cInv, I2cTypeOK, CodecInv
<1>2. log' = log
  BY FallAcks
<1>3. call = "start" \/ (call \in Writes /\ bit = 9 /\ bus.read = (call = "addr_r"))
  BY FallPlace DEF I2cInv, PhaseInv
<1>4. CASE bus.read
  <2>1. (call = "start" /\ call' = "addr_w" /\ bit' = 1) \/ (call = "addr_r" /\ call' = "id1" /\ bit' = 1)
    BY <1>3, <1>4, FallPlace DEF Writes, Reads
  <2>2. bus' = [bus EXCEPT !.scl = 0, !.mode = "sends", !.n = 1, !.byte = NextByte(bus),
                           !.first = FALSE, !.want = NextByte(bus)[1]]
    BY <1>4, FallAcks
  <2>3. /\ bus'.scl = 0 /\ bus'.mode = "sends" /\ bus'.n = 1 /\ bus'.byte = NextByte(bus) /\ ~bus'.first
        /\ I2cTypeOK' /\ LineInv' /\ VerdictInv' /\ CodecInv' /\ PhaseInv' /\ FirstInv'
        /\ UNCHANGED <<ack, id, kind>> /\ Clean' = Clean /\ Sound' = Sound
        /\ \A c \in Writes : AckSeen(c)' = AckSeen(c)
    BY <1>1, <1>2, <2>1, <2>2, FallLoad
  <2>4. StaleInv'
    <3>1. call = "addr_r" /\ bus.first => Served(log)
      BY <1>1 DEF I2cInv, FirstInv
    <3> QED BY <1>2, <2>1, <2>3, <3>1, NextByteFacts DEF StaleInv, Reads
  <2>5. IdInv'
    <3>1. Read' = 0
      BY <2>1, FallPlace
    <3> QED BY <2>1, <2>3, <3>1 DEF IdInv
  <2>6. LockInv'
    <3> SUFFICES ASSUME Sound, Clean PROVE LockInv'
      BY <2>3 DEF LockInv
    <3>1. call = "addr_r" /\ bus.first
      BY <1>3, <2>1, FallPlace DEF I2cInv, LockInv, ModeHere, Writes, Reads
    <3>2. ModeHere' = "sends" /\ Heard' = 5 /\ Heard = 5 /\ Read' = 0
      BY <1>3, <2>1, <3>1, FallPlace DEF ModeHere, Heard, Writes, Reads
    <3>3. bus'.byte = Bits(Id1)
      BY <2>3, <3>1, NextByteFacts
    <3>4. Len(log) = 5 /\ \A i \in 1 .. 5 : log[i] = Expected[i]
      BY <3>2 DEF I2cInv, LockInv
    <3> QED BY <1>2, <2>1, <2>3, <3>1, <3>2, <3>3, <3>4 DEF I2cInv, LockInv
  <2> QED BY <2>3, <2>4, <2>5, <2>6 DEF I2cInv
<1>5. CASE ~bus.read
  <2>1. /\ (call = "start" /\ call' = "addr_w") \/ (call = "addr_w" /\ bit = 9 /\ call' = "reg")
           \/ (call = "reg" /\ bit = 9 /\ call' = "restart")
        /\ bit' = 1
    BY <1>3, <1>5, FallPlace DEF Writes, Reads
  <2>2. bus' = Edited(0, bus.sda, "reg", 0, Zero, bus.read, bus.first, 1)
    BY <1>1, <1>5, FallAcks DEF Bus, Edited
  <2>3. /\ bus'.scl = 0 /\ bus'.mode = "reg" /\ bus'.n = 0 /\ bus'.want = 1 /\ bus'.read = bus.read
        /\ bus'.first = bus.first /\ bus' \in Bus
    <3>1. 0 \in Bit /\ 1 \in Bit /\ bus.sda \in Bit /\ "reg" \in Modes /\ 0 \in 0 .. 8
          /\ bus.read \in BOOLEAN /\ bus.first \in BOOLEAN
      BY <1>1 DEF Bus, Bit, Modes
    <3>2. bus' \in Bus
      BY <1>1, <2>2, <3>1, ZeroType, EditType
    <3> QED BY <1>1, <2>2, <3>2, EditFields
  <2>4. /\ I2cTypeOK' /\ LineInv' /\ VerdictInv'
        /\ UNCHANGED <<ack, id, kind>> /\ Clean' = Clean /\ Sound' = Sound
        /\ \A c \in Writes : AckSeen(c)' = AckSeen(c)
    BY <1>1, <1>2, <2>3, FallRest
  <2>5. CodecInv'
    BY <1>1, <1>5, <2>3, <2>4 DEF I2cInv, CodecInv
  <2>6. PhaseInv'
    <3>1. TakesSent' /\ Taken' = 0
      BY <2>1, <2>3, FallPlace DEF TakesSent
    <3> QED BY <2>1, <2>3, <3>1, FallPlace DEF PhaseInv
  <2>7. FirstInv'
    <3>1. call = "reg" /\ bus.first => EndsReg'
      BY <1>1, <1>2 DEF I2cInv, FirstInv, EndsReg
    <3> QED BY <2>1, <2>3, <3>1 DEF FirstInv
  <2>8. StaleInv' /\ IdInv'
    BY <1>2, <2>3, <2>4, FallId DEF StaleInv
  <2>9. LockInv'
    <3> SUFFICES ASSUME Sound, Clean PROVE LockInv'
      BY <2>4 DEF LockInv
    <3>1. (call = "addr_w" /\ bit = 9 /\ call' = "reg") \/ (call = "reg" /\ bit = 9 /\ call' = "restart")
      BY <2>1, FallPlace DEF I2cInv, LockInv, ModeHere, Writes, Reads
    <3>2. ModeHere' = "reg" /\ Heard' = Heard
      BY <2>1, <3>1, FallPlace DEF ModeHere, Heard, Writes, Reads
    <3>3. call' = "restart" => bus.first
      BY <3>1 DEF I2cInv, LockInv
    <3> QED BY <1>2, <2>1, <2>3, <2>4, <3>1, <3>2, <3>3 DEF I2cInv, LockInv
  <2> QED BY <2>4, <2>5, <2>6, <2>7, <2>8, <2>9 DEF I2cInv
<1> QED BY <1>4, <1>5

LEMMA FallListensInv ==
    ASSUME I2cInv, MoveLine, step = "fall", bus.mode = "listens"
    PROVE  I2cInv'
<1>1. bus \in Bus /\ log \in Seq(Events) /\ I2cTypeOK /\ kind # "absent"
  BY DEF I2cInv, I2cTypeOK, CodecInv
<1>2. ~bus.first /\ call \notin {"start", "stop", "restart", "over"} /\ (call = "id2" => bit = 9)
  BY FallListens, FallPlace DEF I2cInv, PhaseInv
<1>3. Sound /\ Clean => call \in Reads /\ bit = 9
  BY FallPlace DEF I2cInv, LockInv, ModeHere, Writes, Reads
<1>4. CASE SdaOut = 0
  <2>1. (call \in Writes /\ bit <= 8 /\ call' = call) \/ (call = "id1" /\ bit = 9 /\ call' = "id2" /\ bit' = 1)
    BY <1>2, <1>4, FallPlace DEF SdaOut, Writes, Reads
  <2>2. /\ bus' = [bus EXCEPT !.scl = 0, !.mode = "sends", !.n = 1, !.byte = NextByte(bus),
                              !.first = FALSE, !.want = NextByte(bus)[1]]
        /\ log' = log \o <<"data ACK">>
    BY <1>4, FallListens
  <2>3. /\ log' \in Seq(Events) /\ Len(log') = Len(log) + 1 /\ log'[Len(log')] = "data ACK"
        /\ \A i \in 1 .. Len(log) : log'[i] = log[i]
        /\ Served(log) => Served(log')
    BY <1>1, <2>2, ServedGrows DEF Events
  <2>4. /\ bus'.scl = 0 /\ bus'.mode = "sends" /\ bus'.n = 1 /\ bus'.byte = NextByte(bus) /\ ~bus'.first
        /\ I2cTypeOK' /\ LineInv' /\ VerdictInv' /\ CodecInv' /\ PhaseInv' /\ FirstInv'
        /\ UNCHANGED <<ack, id, kind>> /\ Clean' = Clean /\ Sound' = Sound
        /\ \A c \in Writes : AckSeen(c)' = AckSeen(c)
    <3>1. call' \notin {"stop", "over"} /\ (call' \in Reads => bit' = 1)
      BY <2>1 DEF Writes, Reads
    <3> QED BY <1>1, <2>2, <2>3, <3>1, FallLoad
  <2>5. StaleInv'
    BY <1>2, <2>4, NextByteFacts DEF StaleInv
  <2>6. IdInv'
    <3>1. call' # "id1"
      BY <2>1 DEF Writes
    <3> QED BY <2>3, <2>4, <3>1, FallId
  <2>7. LockInv'
    <3> SUFFICES ASSUME Sound, Clean PROVE LockInv'
      BY <2>4 DEF LockInv
    <3>1. call = "id1" /\ bit = 9 /\ call' = "id2" /\ bit' = 1
      BY <1>3, <2>1 DEF Writes, Reads
    <3>2. ModeHere' = "sends" /\ Heard' = 6 /\ Heard = 5 /\ Expected[6] = "data ACK" /\ Read = 8
      BY <3>1, FallPlace DEF ModeHere, Heard, Expected, Writes, Reads
    <3>3. Len(log) = 5 /\ \A i \in 1 .. 5 : log[i] = Expected[i]
      BY <3>2 DEF I2cInv, LockInv
    <3>4. Len(log') = 6 /\ \A i \in 1 .. 6 : log'[i] = Expected[i]
      <4>1. 5 \in Nat /\ Expected[5 + 1] = "data ACK"
        BY DEF Expected
      <4>2. Len(log') = 5 + 1 /\ \A i \in 1 .. 5 + 1 : log'[i] = Expected[i]
        BY <2>3, <3>3, <4>1, Transcript
      <4> QED BY <4>2
    <3>5. id["id1"] = Bits(Id1)
      <4>1. id["id1"] \in Byte
        BY <1>1 DEF I2cTypeOK, Reads
      <4>2. \A j \in 1 .. 8 : id["id1"][j] = BitOf(Id1, j)
        BY <3>1, <3>2 DEF I2cInv, LockInv
      <4> QED BY <4>1, <4>2, BitsFacts DEF Id1
    <3> QED BY <2>4, <3>1, <3>2, <3>4, <3>5 DEF I2cInv, LockInv
  <2> QED BY <2>4, <2>5, <2>6, <2>7 DEF I2cInv
<1>5. CASE SdaOut # 0
  <2>1. bus' = [bus EXCEPT !.scl = 0, !.mode = "idle", !.want = 1] /\ log' = log \o <<"data NACK">>
    BY <1>5, FallListens
  <2>2. /\ bus'.scl = 0 /\ bus'.want = 1 /\ bus'.mode = "idle" /\ bus'.dev = bus.dev
        /\ bus'.first = bus.first /\ bus' \in Bus
    BY <1>1, <2>1 DEF Bus, Bit
  <2>3. /\ log' \in Seq(Events) /\ Len(log') = Len(log) + 1 /\ log'[Len(log')] = "data NACK"
        /\ \A i \in 1 .. Len(log) : log'[i] = log[i]
        /\ Served(log) => Served(log')
    BY <1>1, <2>1, ServedGrows DEF Events
  <2>4. /\ I2cTypeOK' /\ LineInv' /\ VerdictInv'
        /\ UNCHANGED <<ack, id, kind>> /\ Clean' = Clean /\ Sound' = Sound
        /\ \A c \in Writes : AckSeen(c)' = AckSeen(c)
    BY <2>2, <2>3, FallRest
  <2>5. CodecInv' /\ PhaseInv' /\ FirstInv' /\ StaleInv'
    BY <1>1, <1>2, <2>2, <2>4, FallPlace DEF CodecInv, PhaseInv, FirstInv, StaleInv
  <2>6. IdInv'
    BY <2>2, <2>3, <2>4, FallId
  <2>7. LockInv'
    <3> SUFFICES ASSUME Sound, Clean PROVE LockInv'
      BY <2>4 DEF LockInv
    <3>1. call = "id2" /\ bit = 9 /\ call' = "stop" /\ bit' = 1
      BY <1>3, <1>5, FallPlace DEF SdaOut, Writes, Reads
    <3>2. ModeHere' = "idle" /\ Heard' = 7 /\ Heard = 6 /\ Expected[7] = "data NACK"
      BY <3>1, FallPlace DEF ModeHere, Heard, Expected, Writes, Reads
    <3>3. Len(log) = 6 /\ \A i \in 1 .. 6 : log[i] = Expected[i]
      BY <3>2 DEF I2cInv, LockInv
    <3>4. Len(log') = 7 /\ \A i \in 1 .. 7 : log'[i] = Expected[i]
      <4>1. 6 \in Nat /\ Expected[6 + 1] = "data NACK"
        BY DEF Expected
      <4>2. Len(log') = 6 + 1 /\ \A i \in 1 .. 6 + 1 : log'[i] = Expected[i]
        BY <2>3, <3>3, <4>1, Transcript
      <4> QED BY <4>2
    <3> QED BY <2>2, <2>4, <3>1, <3>2, <3>4 DEF I2cInv, LockInv
  <2> QED BY <2>4, <2>5, <2>6, <2>7 DEF I2cInv
<1> QED BY <1>4, <1>5

\* No tail of a stale byte reads as CHIP_ID1, with or without ones after it.
LEMMA StaleTail ==
    ASSUME I2cInv, call = "id1", bus.mode = "sends", ~Served(log)
    PROVE  Read <= 5 \/ \E j \in 1 .. Read : id["id1"][j] # BitOf(Id1, j)
<1>1. bus \in Bus /\ bit \in 1 .. 8 /\ bus.n \in bit .. 8 /\ Started
  BY DEF I2cInv, I2cTypeOK, PhaseInv, Started, Bus, Writes, Reads
<1>2. bus.byte = Bits(17) \/ bus.byte = Bits(255)
  BY DEF I2cInv, StaleInv, Stale, Id2, Writes
<1>3. \A j \in 1 .. Read : id["id1"][j] = bus.byte[bus.n - bit + j]
  BY DEF I2cInv, IdInv
<1> SUFFICES ASSUME ~(Read <= 5)
             PROVE  id["id1"][1] # BitOf(131, 1) \/ id["id1"][2] # BitOf(131, 2)
  <2>1. Read \in Int
    BY <1>1 DEF Read
  <2>2. ~(Read <= 5) => 1 \in 1 .. Read /\ 2 \in 1 .. Read
    BY <2>1
  <2> QED BY <2>2 DEF Id1
<1>4. Read \in 6 .. 8 /\ Read <= bit
  BY <1>1 DEF Read
<1>5. bus.n - bit \in {0, 1, 2}
  BY <1>1, <1>4
<1>6. id["id1"][1] = bus.byte[bus.n - bit + 1] /\ id["id1"][2] = bus.byte[bus.n - bit + 2]
  <2>1. 1 \in 1 .. Read /\ 2 \in 1 .. Read
    BY <1>4
  <2> QED BY <1>3, <2>1
<1>7. CASE bus.byte = Bits(17)
  <2>1. bus.byte[1] = 0 /\ bus.byte[2] = 0 /\ bus.byte[3] = 0
    BY <1>7, BitsFacts, IdBits
  <2>2. bus.byte[bus.n - bit + 1] = 0
    BY <1>1, <1>5, <2>1
  <2> QED BY <1>6, <2>2, IdBits
<1>8. CASE bus.byte = Bits(255)
  <2>1. bus.byte[2] = 1 /\ bus.byte[3] = 1 /\ bus.byte[4] = 1
    BY <1>8, BitsFacts, IdBits
  <2>2. bus.byte[bus.n - bit + 2] = 1
    BY <1>1, <1>5, <2>1
  <2> QED BY <1>6, <2>2, IdBits
<1> QED BY <1>2, <1>7, <1>8

LEMMA FallSendsInv ==
    ASSUME I2cInv, MoveLine, step = "fall", bus.mode = "sends"
    PROVE  I2cInv'
<1>1. bus \in Bus /\ log \in Seq(Events) /\ I2cTypeOK /\ kind # "absent" /\ ~bus.first /\ bus.n \in 1 .. 8
  BY DEF I2cInv, I2cTypeOK, CodecInv, Bus
<1>2. log' = log
  BY FallSends
<1>3. /\ call \notin {"stop", "over"}
      /\ call = "id1" => bit <= 8 /\ bus.n >= bit
      /\ call = "id2" => bit <= 8 /\ bus.n = bit
  BY FallPlace DEF I2cInv, PhaseInv
<1>4. /\ bus.byte \in Stale \/ (call = "addr_w" /\ bus.n >= bit) \/ (call \in Reads /\ Served(log))
           \/ call = "start"
  BY DEF I2cInv, StaleInv
<1>5. Sound /\ Clean => call \in Reads /\ bit <= 8 /\ bus.n = bit
  <2>1. Sound /\ Clean => call \in Reads
    BY FallPlace DEF I2cInv, LockInv, ModeHere, Writes, Reads
  <2> QED BY <1>3, <2>1 DEF I2cInv, LockInv, Reads
<1>6. call \in Reads => bit <= 8 /\ call' = call /\ bit' = bit + 1 /\ Read' = bit /\ Read = bit
  BY <1>3, FallPlace DEF Reads
<1>7. CASE bus.n = 8
  <2>1. bus' = [bus EXCEPT !.scl = 0, !.mode = "listens", !.want = 1]
    BY <1>7, FallSends
  <2>2. /\ bus'.scl = 0 /\ bus'.want = 1 /\ bus'.mode = "listens"
        /\ bus'.first = bus.first /\ bus' \in Bus
    BY <1>1, <2>1 DEF Bus, Bit
  <2>3. /\ I2cTypeOK' /\ LineInv' /\ VerdictInv'
        /\ UNCHANGED <<ack, id, kind>> /\ Clean' = Clean /\ Sound' = Sound
        /\ \A c \in Writes : AckSeen(c)' = AckSeen(c)
    BY <1>1, <1>2, <2>2, FallRest
  <2>4. CodecInv' /\ FirstInv' /\ StaleInv'
    BY <1>1, <2>2, <2>3 DEF CodecInv, FirstInv, StaleInv
  <2>5. PhaseInv'
    <3>1. call' \notin {"start", "stop", "over"} /\ (call' = "id2" => bit' = 9)
      BY <1>3, <1>7, FallPlace DEF Writes, Reads
    <3> QED BY <2>2, <3>1, FallPlace DEF PhaseInv
  <2>6. IdInv'
    <3> SUFFICES ASSUME ~Served(log) PROVE IdInv'
      BY <1>2 DEF IdInv
    <3>1. CASE call = "id1"
      <4>1. Read <= 5 \/ \E j \in 1 .. Read : id["id1"][j] # BitOf(Id1, j)
        BY <3>1, StaleTail
      <4>2. call' = "id1" /\ Read' = Read
        BY <1>6, <3>1 DEF Reads
      <4> QED BY <2>2, <2>3, <4>1, <4>2 DEF IdInv
    <3>2. CASE call # "id1"
      <4>1. call' = "id1" => Read' = 0
        BY <3>2, FallPlace DEF Writes, Reads
      <4>2. call' \in {"id2", "stop", "over"} => call = "id2"
        BY <1>3, <3>2, FallPlace DEF Writes, Reads
      <4>3. call = "id2" => id["id1"] # Bits(Id1)
        BY DEF I2cInv, IdInv
      <4> QED BY <2>2, <2>3, <4>1, <4>2, <4>3 DEF IdInv
    <3> QED BY <3>1, <3>2
  <2>7. LockInv'
    <3> SUFFICES ASSUME Sound, Clean PROVE LockInv'
      BY <2>3 DEF LockInv
    <3>1. call \in Reads /\ bit = 8 /\ call' = call /\ bit' = 9 /\ Read' = Read
      BY <1>5, <1>6, <1>7
    <3>2. ModeHere' = "listens" /\ Heard' = Heard
      BY <3>1, FallPlace DEF ModeHere, Heard, Writes, Reads
    <3> QED BY <1>2, <2>2, <2>3, <3>1, <3>2 DEF I2cInv, LockInv, Reads
  <2> QED BY <2>3, <2>4, <2>5, <2>6, <2>7 DEF I2cInv
<1>8. CASE bus.n # 8
  <2> DEFINE next == bus.n + 1
             level == bus.byte[next]
  <2>1. bus' = Edited(0, bus.sda, "sends", next, bus.byte, bus.read, bus.first, level)
    <3>1. bus' = [bus EXCEPT !.scl = 0, !.n = bus.n + 1, !.want = bus.byte[bus.n + 1]]
      BY <1>1, <1>8, FallSends DEF Bus
    <3> QED BY <1>1, <3>1 DEF Bus, Edited
  <2>2. next \in 2 .. 8 /\ next = bus.n + 1 /\ level \in Bit /\ level = bus.byte[next]
    BY <1>1, <1>8 DEF Bus, Byte
  <2> HIDE DEF next, level
  <2>3. /\ bus'.scl = 0 /\ bus'.want = level /\ bus'.mode = "sends" /\ bus'.n = next
        /\ bus'.byte = bus.byte /\ bus'.first = bus.first /\ bus' \in Bus
    <3>1. 0 \in Bit /\ bus.sda \in Bit /\ "sends" \in Modes /\ next \in 0 .. 8 /\ bus.byte \in Byte
          /\ bus.read \in BOOLEAN /\ bus.first \in BOOLEAN
      BY <1>1, <2>2 DEF Bus, Bit, Modes
    <3>2. bus' \in Bus
      BY <1>1, <2>1, <2>2, <3>1, EditType
    <3> QED BY <1>1, <2>1, <3>2, EditFields
  <2>4. /\ I2cTypeOK' /\ LineInv' /\ VerdictInv'
        /\ UNCHANGED <<ack, id, kind>> /\ Clean' = Clean /\ Sound' = Sound
        /\ \A c \in Writes : AckSeen(c)' = AckSeen(c)
    BY <1>1, <1>2, <2>3, FallRest
  <2>5. CodecInv' /\ FirstInv'
    BY <1>1, <2>2, <2>3, <2>4 DEF CodecInv, FirstInv
  <2>6. PhaseInv'
    <3>1. call' \notin {"stop", "over"}
      BY <1>3, FallPlace DEF Writes, Reads
    <3>2. call' = "id1" => bit' <= 8 /\ next >= bit'
      BY <1>1, <1>3, <2>2, FallPlace DEF Writes, Reads
    <3>3. call' = "id2" => bit' <= 8 /\ next = bit'
      BY <1>1, <1>3, <2>2, FallPlace DEF Writes, Reads
    <3> QED BY <2>3, <3>1, <3>2, <3>3, FallPlace DEF PhaseInv
  <2>7. StaleInv'
    <3>1. CASE bus.byte \in Stale
      BY <2>3, <3>1 DEF StaleInv, Stale
    <3>2. CASE call = "start" \/ (call = "addr_w" /\ bus.n >= bit)
      <4>1. call' = "addr_w" /\ next >= bit'
        BY <1>1, <1>8, <2>2, <3>2, FallPlace DEF Writes, Reads
      <4> QED BY <2>3, <4>1 DEF StaleInv
    <3>3. CASE call \in Reads /\ Served(log)
      BY <1>2, <1>6, <2>3, <3>3 DEF StaleInv, Reads
    <3> QED BY <1>4, <3>1, <3>2, <3>3
  <2>8. IdInv'
    <3> SUFFICES ASSUME ~Served(log) PROVE IdInv'
      BY <1>2 DEF IdInv
    <3>1. CASE call = "id1"
      <4>1. \A j \in 1 .. Read : id["id1"][j] = bus.byte[bus.n - bit + j]
        BY <3>1 DEF I2cInv, IdInv
      <4>2. call' = "id1" /\ Read' = Read /\ bus'.n - bit' = bus.n - bit
        BY <1>1, <1>6, <2>2, <2>3, <3>1, FallPlace DEF Reads
      <4> QED BY <2>3, <2>4, <4>1, <4>2 DEF IdInv
    <3>2. CASE call # "id1"
      <4>1. call' = "id1" => Read' = 0
        BY <3>2, FallPlace DEF Writes, Reads
      <4>2. call' \in {"id2", "stop", "over"} => call = "id2"
        BY <1>3, <3>2, FallPlace DEF Writes, Reads
      <4>3. call = "id2" => id["id1"] # Bits(Id1)
        BY DEF I2cInv, IdInv
      <4> QED BY <2>3, <2>4, <4>1, <4>2, <4>3 DEF IdInv
    <3> QED BY <3>1, <3>2
  <2>9. LockInv'
    <3> SUFFICES ASSUME Sound, Clean PROVE LockInv'
      BY <2>4 DEF LockInv
    <3>1. call \in Reads /\ bit <= 7 /\ bus.n = bit /\ call' = call /\ bit' = bit + 1 /\ Read' = Read
      BY <1>5, <1>6, <1>8, FallPlace
    <3>2. ModeHere' = "sends" /\ Heard' = Heard
      BY <3>1, FallPlace DEF ModeHere, Heard, Writes, Reads
    <3>3. bus'.n = bit'
      BY <2>2, <2>3, <3>1
    <3>4. /\ call = "id1" => bus.byte = Bits(Id1) /\ \A j \in 1 .. Read : id["id1"][j] = BitOf(Id1, j)
          /\ call = "id2" => id["id1"] = Bits(Id1)
          /\ Len(log) = Heard /\ \A i \in 1 .. Heard : log[i] = Expected[i]
          /\ \A c \in Writes : AckSeen(c) => ack[c] = 0
      <4>1. bit <= 8
        BY <1>5
      <4> QED BY <4>1 DEF I2cInv, LockInv
    <3>5. call' = "id1" \/ call' = "id2"
      BY <3>1 DEF Reads
    <3> QED BY <1>2, <2>3, <2>4, <3>1, <3>2, <3>3, <3>4, <3>5 DEF LockInv
  <2> QED BY <2>4, <2>5, <2>6, <2>7, <2>8, <2>9 DEF I2cInv
<1> QED BY <1>7, <1>8

LEMMA FallInv ==
    ASSUME I2cInv, MoveLine, step = "fall"
    PROVE  I2cInv'
<1>1. bus.mode \in {"idle", "addr", "reg", "acks", "sends", "listens"}
  BY DEF I2cInv, I2cTypeOK, Bus
<1> QED BY <1>1, FallQuietInv, FallAddrInv, FallRegInv, FallAcksInv, FallSendsInv, FallListensInv

-----------------------------------------------------------------------------
(***************************************************************************)
(* Iterations, the verdict, and the world.                                 *)
(***************************************************************************)

\* After the STOP nobody drives the bus.
LEMMA Released ==
    ASSUME I2cInv, call = "over"
    PROVE  bus.scl = 1 /\ bus.sda = 1 /\ bus.dev = 1 /\ bus.want = 1 /\ bus.mode = "idle" /\ step = "set"
<1>1. bus \in Bus /\ Started
  BY DEF I2cInv, I2cTypeOK, Started
<1>2. bus.mode = "idle"
  BY <1>1 DEF I2cInv, PhaseInv, Bus, Writes
<1>3. bus.scl = 1 /\ bus.sda = 1 /\ step = "set"
  BY DEF I2cInv, LineInv
<1> QED BY <1>2, <1>3 DEF I2cInv, CodecInv

LEMMA EndIterationInv ==
    ASSUME I2cInv, EndIteration
    PROVE  I2cInv'
<1>1. bus \in Bus /\ I2cTypeOK /\ Started
  BY DEF I2cInv, I2cTypeOK, Started, EndIteration
<1>2. /\ iter < Iterations /\ call = "over" /\ iter' = iter + 1
      /\ all_ok' = (all_ok /\ IterOk)
      /\ served' = IF Served(log) THEN served + 1 ELSE served
      /\ call' = "start" /\ bit' = 1 /\ step' = "set" /\ ack' = NoAck /\ id' = NoId /\ log' = <<>>
      /\ verdict' = verdict /\ bus' = bus /\ kind' = kind /\ resets' = resets
  BY DEF EndIteration, Begin
<1>3. bus.scl = 1 /\ bus.sda = 1 /\ bus.mode = "idle"
  BY <1>2, Released
<1>4. I2cTypeOK'
  <2>1. ack' \in [Writes -> Bit] /\ id' \in [Reads -> Byte] /\ log' \in Seq(Events)
    BY <1>2, ZeroType DEF NoAck, NoId, Bit
  <2>2. iter' \in 0 .. Iterations /\ served' \in 0 .. iter' /\ all_ok' \in BOOLEAN
    BY <1>1, <1>2, I2cAssumption DEF I2cTypeOK
  <2> QED BY <1>1, <1>2, <2>1, <2>2 DEF I2cTypeOK, Framing, Writes, Reads
<1>5. LineInv' /\ CodecInv'
  BY <1>2, <1>3 DEF I2cInv, LineInv, CodecInv, Framing
<1>6. ~Started'
  BY <1>2 DEF Started
<1>7. PhaseInv'
  BY <1>2, <1>3, <1>6 DEF PhaseInv
<1>8. FirstInv' /\ StaleInv' /\ IdInv'
  BY <1>2 DEF FirstInv, StaleInv, IdInv
<1>9. LockInv'
  <2>1. ModeHere' = "idle" /\ Heard' = 0 /\ \A c \in Writes : ~AckSeen(c)'
    BY <1>2, <1>6 DEF ModeHere, Heard, AckSeen, After, Writes
  <2> QED BY <1>2, <1>3, <2>1 DEF LockInv
<1>10. VerdictInv'
  <2>1. verdict = "none"
    BY <1>1, <1>2 DEF I2cInv, VerdictInv, I2cTypeOK
  <2>2. IterOk => Served(log)
    BY <1>2 DEF I2cInv, IdInv, IterOk
  <2>3. all_ok' => served' = iter'
    BY <1>2, <2>2 DEF I2cInv, VerdictInv
  <2>4. Sound /\ resets = 0 => all_ok /\ IterOk
    <3> SUFFICES ASSUME Sound, resets = 0 PROVE all_ok /\ IterOk
      OBVIOUS
    <3>1. Clean /\ \A c \in Writes : AckSeen(c)
      BY <1>2 DEF Clean, AckSeen, After, Writes
    <3> QED BY <1>2, <3>1 DEF I2cInv, LockInv, VerdictInv, IterOk
  <2>5. Sound' = Sound
    BY <1>2 DEF Sound
  <2> QED BY <1>2, <2>1, <2>3, <2>4, <2>5 DEF VerdictInv
<1> QED BY <1>4, <1>5, <1>7, <1>8, <1>9, <1>10 DEF I2cInv

\* Steps that leave the CPU's place, what it has read and the codec's state
\* alone: the verdict, an answer of the codec on SDA, stuttering.
LEMMA SamePlace ==
    ASSUME I2cInv, UNCHANGED <<iter, call, bit, step, ack, id, all_ok, kind, log, served, resets>>,
           /\ bus'.scl = bus.scl /\ bus'.sda = bus.sda /\ bus'.want = bus.want /\ bus'.mode = bus.mode
           /\ bus'.n = bus.n /\ bus'.byte = bus.byte /\ bus'.read = bus.read /\ bus'.ack = bus.ack
           /\ bus'.first = bus.first
    PROVE  LineInv' /\ PhaseInv' /\ FirstInv' /\ StaleInv' /\ IdInv' /\ LockInv'
<1>1. /\ SdaOut' = SdaOut /\ Sent' = Sent /\ Sampled' = Sampled /\ Taken' = Taken /\ Read' = Read
      /\ Started' = Started /\ Clean' = Clean /\ Sound' = Sound /\ ModeHere' = ModeHere /\ Heard' = Heard
      /\ (Served(log))' = Served(log)
  BY DEF SdaOut, Sent, Sampled, Taken, Read, Started, Clean, Sound, ModeHere, Heard, Served
<1>2. TakesSent' = TakesSent
  BY <1>1 DEF TakesSent
<1>3. LineInv'
  BY <1>1 DEF I2cInv, LineInv
<1>4. PhaseInv'
  BY <1>1, <1>2 DEF I2cInv, PhaseInv
<1>5. FirstInv' /\ StaleInv' /\ IdInv'
  BY <1>1 DEF I2cInv, FirstInv, StaleInv, IdInv, EndsReg, EndsRestart
<1>6. LockInv'
  BY <1>1 DEF I2cInv, LockInv, AckSeen
<1> QED BY <1>3, <1>4, <1>5, <1>6

LEMMA VerdictStepInv ==
    ASSUME I2cInv, Verdict
    PROVE  I2cInv'
<1>1. /\ iter = Iterations /\ verdict' = IF all_ok THEN "PASS" ELSE "FAIL"
      /\ UNCHANGED <<iter, call, bit, step, ack, id, all_ok, bus, kind, log, served, resets>>
  BY DEF Verdict
<1>2. LineInv' /\ PhaseInv' /\ FirstInv' /\ StaleInv' /\ IdInv' /\ LockInv'
  BY <1>1, SamePlace
<1>3. I2cTypeOK' /\ CodecInv'
  BY <1>1 DEF I2cInv, I2cTypeOK, CodecInv
<1>4. VerdictInv'
  <2>1. all_ok \in BOOLEAN /\ Sound' = Sound
    BY <1>1 DEF I2cInv, I2cTypeOK, Sound
  <2>2. (verdict' = "PASS") = all_ok
    BY <1>1, <2>1
  <2> QED BY <1>1, <2>1, <2>2 DEF I2cInv, VerdictInv
<1> QED BY <1>2, <1>3, <1>4 DEF I2cInv

LEMMA SameInv ==
    ASSUME I2cInv, UNCHANGED i2cVars
    PROVE  I2cInv'
<1>1. UNCHANGED <<iter, call, bit, step, ack, id, all_ok, verdict, bus, kind, log, served, resets>>
  BY DEF i2cVars, cpuVars
<1>2. LineInv' /\ PhaseInv' /\ FirstInv' /\ StaleInv' /\ IdInv' /\ LockInv'
  BY <1>1, SamePlace
<1>3. I2cTypeOK' /\ CodecInv' /\ VerdictInv'
  BY <1>1 DEF I2cInv, I2cTypeOK, CodecInv, VerdictInv, Sound
<1> QED BY <1>2, <1>3 DEF I2cInv

LEMMA CodecMovesInv ==
    ASSUME I2cInv, CodecMoves
    PROVE  I2cInv' /\ bus.scl = 0
<1>1. bus \in Bus /\ bus.scl = 0
  BY DEF I2cInv, I2cTypeOK, CodecInv, CodecMoves, Bus, Bit
<1>2. UNCHANGED <<iter, call, bit, step, ack, id, all_ok, verdict, kind, log, served, resets>>
  BY DEF CodecMoves, cpuVars
<1>3. /\ bus'.scl = bus.scl /\ bus'.sda = bus.sda /\ bus'.want = bus.want /\ bus'.mode = bus.mode
      /\ bus'.n = bus.n /\ bus'.byte = bus.byte /\ bus'.read = bus.read /\ bus'.ack = bus.ack
      /\ bus'.first = bus.first /\ bus'.dev = bus.want /\ bus' \in Bus
  BY <1>1 DEF CodecMoves, Bus
<1>4. LineInv' /\ PhaseInv' /\ FirstInv' /\ StaleInv' /\ IdInv' /\ LockInv'
  BY <1>2, <1>3, SamePlace
<1>5. I2cTypeOK' /\ CodecInv' /\ VerdictInv'
  BY <1>1, <1>2, <1>3 DEF I2cInv, I2cTypeOK, CodecInv, VerdictInv, Sound
<1> QED BY <1>1, <1>4, <1>5 DEF I2cInv

LEMMA WireLostInv ==
    ASSUME I2cInv, WireLost
    PROVE  I2cInv'
<1>1. bus \in Bus
  BY DEF I2cInv, I2cTypeOK
<1>2. kind' = "absent" /\ UNCHANGED <<iter, call, bit, step, ack, id, all_ok, verdict, log, served, resets>>
  BY DEF WireLost, cpuVars
<1>3. /\ bus'.scl = bus.scl /\ bus'.sda = bus.sda /\ bus'.dev = 1 /\ bus'.want = 1 /\ bus'.mode = "idle"
      /\ bus'.first = bus.first /\ bus' \in Bus
  <2>1. bus' = [bus EXCEPT !.mode = "idle", !.want = 1, !.dev = 1]
    BY <1>1 DEF WireLost, Idle, Bus
  <2> QED BY <1>1, <2>1 DEF Bus, Bit
<1>4. /\ SdaOut' = SdaOut /\ Sampled' = Sampled /\ Started' = Started /\ Clean' = Clean /\ Read' = Read
      /\ (Served(log))' = Served(log) /\ ~Sound'
  BY <1>2 DEF SdaOut, Sent, Sampled, Started, Clean, Read, Served, Sound
<1>5. I2cTypeOK'
  BY <1>2, <1>3 DEF I2cInv, I2cTypeOK
<1>6. LineInv'
  BY <1>2, <1>3, <1>4 DEF I2cInv, LineInv
<1>7. CodecInv' /\ PhaseInv' /\ FirstInv' /\ StaleInv' /\ LockInv'
  BY <1>2, <1>3, <1>4 DEF CodecInv, PhaseInv, FirstInv, StaleInv, LockInv
<1>8. IdInv'
  BY <1>2, <1>3, <1>4, StaleTail DEF I2cInv, IdInv
<1>9. VerdictInv'
  BY <1>2, <1>4 DEF I2cInv, VerdictInv
<1> QED BY <1>5, <1>6, <1>7, <1>8, <1>9 DEF I2cInv

(***************************************************************************)
(* A reset: the pull-ups take both lines high, in either order.            *)
(***************************************************************************)

\* A codec by itself, whatever the CPU is doing (CodecInv of the bus as it is).
Codec(b) ==
    /\ b.want = IF b.mode = "acks" THEN 0 ELSE IF b.mode = "sends" THEN b.byte[b.n] ELSE 1
    /\ b.scl = 1 => b.dev = b.want
    /\ b.mode = "sends" => b.n >= 1
    /\ b.mode \in {"addr", "reg"} /\ b.scl = 0 => b.n <= 7
    /\ b.mode \in {"sends", "listens"} \/ kind = "refuses_reg" => ~b.first
    /\ b.mode = "reg" => ~b.read
    /\ kind = "absent" => b.mode = "idle" /\ b.dev = 1

LEMMA SclReleased ==
    ASSUME NEW b \in Bus, Codec(b), b.dev = b.want
    PROVE  /\ Moved(b, "scl1") \in Bus /\ Codec(Moved(b, "scl1"))
           /\ Moved(b, "scl1").dev = Moved(b, "scl1").want
           /\ Moved(b, "scl1").scl = 1 /\ Moved(b, "scl1").sda = b.sda
<1> DEFINE c == [b EXCEPT !.scl = 1]
           d == Moved(b, "scl1")
<1>1. /\ c \in Bus /\ c.scl = 1 /\ c.sda = b.sda /\ c.dev = b.dev /\ c.want = b.want /\ c.mode = b.mode
      /\ c.n = b.n /\ c.byte = b.byte /\ c.read = b.read /\ c.first = b.first
  BY DEF Bus, Bit
<1>2. Codec(c)
  BY <1>1 DEF Codec
<1>3. d = IF kind # "absent" /\ b.scl = 0 THEN SclRises(c) ELSE c
  BY <1>1 DEF Moved, Driven, Bus, Bit, Level
<1> HIDE DEF c, d
<1>4. CASE kind # "absent" /\ b.scl = 0 /\ b.mode \in {"addr", "reg"}
  <2> DEFINE level == Level(c)
             next == b.n + 1
             taken == [b.byte EXCEPT ![next] = level]
  <2>1. level \in Bit
    BY <1>1 DEF Level, Bus, Bit
  <2>2. next \in 1 .. 8
    BY <1>4 DEF Codec, Bus
  <2> HIDE DEF level
  <2>3. taken \in Byte
    BY <2>1, <2>2 DEF Bus, Byte
  <2>4. d = [c EXCEPT !.n = next, !.byte = taken]
    BY <1>1, <1>3, <1>4 DEF SclRises, Bus, level
  <2> HIDE DEF taken, next
  <2>5. next \in 0 .. 8
    BY <2>2
  <2>6. d \in Bus /\ d.scl = 1 /\ d.sda = c.sda /\ d.dev = c.dev /\ d.want = c.want /\ d.mode = c.mode
        /\ d.read = c.read /\ d.first = c.first
    BY <1>1, <2>3, <2>4, <2>5 DEF Bus
  <2> QED BY <1>1, <1>2, <1>4, <2>6 DEF Codec, d
<1>5. CASE kind # "absent" /\ b.scl = 0 /\ b.mode = "listens"
  <2> DEFINE heard == Level(c) = 0
  <2>1. d = [c EXCEPT !.ack = heard] /\ heard \in BOOLEAN
    BY <1>1, <1>3, <1>5 DEF SclRises
  <2> HIDE DEF heard
  <2>2. d \in Bus /\ d.scl = 1 /\ d.sda = c.sda /\ d.dev = c.dev /\ d.want = c.want /\ d.mode = c.mode
        /\ d.n = c.n /\ d.byte = c.byte /\ d.read = c.read /\ d.first = c.first
    BY <1>1, <2>1 DEF Bus
  <2> QED BY <1>1, <1>2, <2>2 DEF Codec, d
<1>6. CASE ~(kind # "absent" /\ b.scl = 0 /\ b.mode \in {"addr", "reg", "listens"})
  <2>1. d = c
    BY <1>1, <1>3, <1>6 DEF SclRises
  <2> QED BY <1>1, <1>2, <2>1 DEF d
<1> QED BY <1>4, <1>5, <1>6

LEMMA SdaReleased ==
    ASSUME NEW b \in Bus, Codec(b), b.dev = b.want
    PROVE  /\ Moved(b, "sda1") \in Bus /\ Codec(Moved(b, "sda1"))
           /\ Moved(b, "sda1").dev = Moved(b, "sda1").want
           /\ Moved(b, "sda1").sda = 1 /\ Moved(b, "sda1").scl = b.scl
<1> DEFINE c == [b EXCEPT !.sda = 1]
           d == Moved(b, "sda1")
<1>1. /\ c \in Bus /\ c.scl = b.scl /\ c.sda = 1 /\ c.dev = b.dev /\ c.want = b.want /\ c.mode = b.mode
      /\ c.n = b.n /\ c.byte = b.byte /\ c.read = b.read /\ c.first = b.first
  BY DEF Bus, Bit
<1>2. Codec(c)
  BY <1>1 DEF Codec
<1>3. Level(c) = b.dev /\ (Level(b) = 1 => Level(c) = 1) /\ b.dev \in Bit /\ b.scl \in Bit
  BY <1>1 DEF Level, Bus, Bit
<1>4. Driven(b, "sda1") = c
  BY DEF Driven
<1> HIDE DEF c
<1>5. d = c \/ (d = Idle(c) /\ Level(c) = 1 /\ kind # "absent")
  BY <1>1, <1>3, <1>4 DEF Moved, Bit
<1> HIDE DEF d
<1>6. CASE d = c
  BY <1>1, <1>2, <1>6 DEF d
<1>7. CASE d = Idle(c) /\ Level(c) = 1 /\ kind # "absent"
  <2>1. d \in Bus /\ d.scl = c.scl /\ d.sda = 1 /\ d.dev = 1 /\ d.want = 1 /\ d.mode = "idle" /\ d.first = c.first
    BY <1>1, <1>3, <1>7 DEF Idle, Bus, Bit
  <2>2. kind = "refuses_reg" => ~d.first
    BY <1>2, <2>1 DEF Codec
  <2>3. Codec(d)
    BY <1>7, <2>1, <2>2 DEF Codec
  <2> QED BY <1>1, <2>1, <2>3 DEF d
<1> QED BY <1>5, <1>6, <1>7

LEMMA ResetInv ==
    ASSUME I2cInv, Reset
    PROVE  I2cInv'
<1>1. bus \in Bus /\ Codec(bus) /\ bus.dev = bus.want /\ I2cTypeOK
  BY DEF I2cInv, I2cTypeOK, CodecInv, Codec, Reset
<1>2. /\ resets < MaxResets /\ resets' = resets + 1 /\ kind' = kind
      /\ call' = "start" /\ bit' = 1 /\ step' = "set" /\ ack' = NoAck /\ id' = NoId /\ log' = <<>>
      /\ iter' = 0 /\ all_ok' = TRUE /\ verdict' = "none" /\ served' = 0
  BY DEF Reset, Booted, Begin
<1>3. bus' \in Bus /\ Codec(bus') /\ bus'.dev = bus'.want /\ bus'.scl = 1 /\ bus'.sda = 1
  <2>1. CASE bus' = Moved(Moved(bus, "scl1"), "sda1")
    <3> DEFINE b == Moved(bus, "scl1")
    <3>1. b \in Bus /\ Codec(b) /\ b.dev = b.want /\ b.scl = 1
      BY <1>1, SclReleased
    <3> HIDE DEF b
    <3>2. bus' = Moved(b, "sda1")
      BY <2>1 DEF b
    <3> QED BY <3>1, <3>2, SdaReleased
  <2>2. CASE bus' = Moved(Moved(bus, "sda1"), "scl1")
    <3> DEFINE b == Moved(bus, "sda1")
    <3>1. b \in Bus /\ Codec(b) /\ b.dev = b.want /\ b.sda = 1
      BY <1>1, SdaReleased
    <3> HIDE DEF b
    <3>2. bus' = Moved(b, "scl1")
      BY <2>2 DEF b
    <3> QED BY <3>1, <3>2, SclReleased
  <2> QED BY <2>1, <2>2 DEF Reset
<1>4. I2cTypeOK'
  <2>1. ack' \in [Writes -> Bit] /\ id' \in [Reads -> Byte] /\ log' \in Seq(Events)
    BY <1>2, ZeroType DEF NoAck, NoId, Bit
  <2>2. iter' \in 0 .. Iterations /\ served' \in 0 .. iter' /\ resets' \in 0 .. MaxResets
    BY <1>1, <1>2, I2cAssumption DEF I2cTypeOK
  <2> QED BY <1>1, <1>2, <1>3, <2>1, <2>2 DEF I2cTypeOK, Framing, Writes, Reads
<1>5. LineInv'
  BY <1>2, <1>3 DEF LineInv, Framing
<1>6. CodecInv'
  BY <1>2, <1>3 DEF Codec, CodecInv
<1>7. ~Started' /\ ~Clean'
  BY <1>1, <1>2 DEF Started, Clean, I2cTypeOK
<1>8. PhaseInv' /\ LockInv'
  BY <1>7 DEF PhaseInv, LockInv
<1>9. FirstInv' /\ StaleInv' /\ IdInv'
  BY <1>2 DEF FirstInv, StaleInv, IdInv
<1>10. VerdictInv'
  BY <1>2 DEF VerdictInv
<1> QED BY <1>4, <1>5, <1>6, <1>8, <1>9, <1>10 DEF I2cInv

-----------------------------------------------------------------------------
(***************************************************************************)
(* The theorems.                                                           *)
(***************************************************************************)

LEMMA MoveLineInv ==
    ASSUME I2cInv, MoveLine
    PROVE  I2cInv'
<1>1. step \in {"set", "rise", "frame", "fall"}
  BY DEF I2cInv, I2cTypeOK, MoveLine
<1> QED BY <1>1, SetInv, RiseInv, StartInv, StopInv, FallInv

LEMMA NextInv ==
    ASSUME I2cInv, [I2cNext]_i2cVars
    PROVE  I2cInv'
<1>1. ParkAlive => UNCHANGED i2cVars
  BY DEF ParkAlive
<1> QED BY <1>1, MoveLineInv, SampleInv, EndIterationInv, VerdictStepInv, CodecMovesInv, WireLostInv, ResetInv,
           SameInv DEF I2cNext, Cpu

\* The inductive invariant: where the lines, the codec and the log are at every
\* place of the program, for a sound codec and for any other.
THEOREM I2cInvariant == I2cSpec => []I2cInv
<1>1. I2cInit => I2cInv
  BY I2cInitInv
<1>2. I2cInv /\ [I2cNext]_i2cVars => I2cInv'
  BY NextInv
<1> QED BY <1>1, <1>2, PTL DEF I2cSpec

\* PASS means that the register was read in every iteration.
THEOREM PassIsARegisterRead == I2cSpec => []PassMeansRegisterRead
<1>1. I2cInv => PassMeansRegisterRead
  BY DEF I2cInv, VerdictInv, PassMeansRegisterRead, I2cTypeOK
<1> QED BY <1>1, I2cInvariant, PTL

\* A sound codec has the transcript of the header and no false FAIL.
THEOREM SoundCodecIsPassed == I2cSpec => []SoundCodecPasses
<1>1. ASSUME I2cInv PROVE SoundCodecPasses
  <2>1. ASSUME Sound, iter < Iterations, call = "over", Clean
        PROVE  IterOk /\ log = Expected
    <3>1. \A c \in Writes : AckSeen(c)
      BY <2>1 DEF AckSeen, After, Writes
    <3>2. IterOk
      BY <1>1, <2>1, <3>1 DEF I2cInv, LockInv, IterOk
    <3>3. Len(log) = 8 /\ \A i \in 1 .. 8 : log[i] = Expected[i]
      <4>1. Heard = 8
        BY <2>1 DEF Heard
      <4> QED BY <1>1, <2>1, <4>1 DEF I2cInv, LockInv
    <3>4. log \in Seq(Events) /\ Expected \in Seq(Events) /\ Len(Expected) = 8
      <4>1. log \in Seq(Events)
        BY <1>1 DEF I2cInv, I2cTypeOK
      <4>2. Expected \in Seq(Events)
        BY DEF Expected, Events
      <4>3. Len(Expected) = 8
        BY DEF Expected
      <4> QED BY <4>1, <4>2, <4>3
    <3>5. log = Expected
      BY <3>3, <3>4
    <3> QED BY <3>2, <3>5
  <2>2. ASSUME Sound, verdict = "FAIL" PROVE resets > 0
    <3>1. resets # 0 /\ resets \in Nat
      BY <1>1, <2>2, I2cAssumption DEF I2cInv, VerdictInv, I2cTypeOK
    <3> QED BY <3>1
  <2> QED BY <2>1, <2>2 DEF SoundCodecPasses
<1> QED BY <1>1, I2cInvariant, PTL

\* Nobody drives the bus between iterations.
THEOREM BusIsFree == I2cSpec => []BusFreeBetweenIterations
<1>1. ASSUME I2cInv PROVE BusFreeBetweenIterations
  <2>1. CASE call = "over"
    BY <1>1, <2>1, Released DEF BusFreeBetweenIterations, Level
  <2>2. CASE call = "start" /\ step = "set" /\ Clean
    <3>1. ~Started
      BY <2>2 DEF Started
    <3>2. bus.mode = "idle"
      BY <1>1, <2>2, <3>1 DEF I2cInv, PhaseInv
    <3>3. bus.scl = 1 /\ bus.sda = 1
      BY <1>1, <2>2 DEF I2cInv, LineInv
    <3>4. bus.dev = 1
      BY <1>1, <3>2, <3>3 DEF I2cInv, CodecInv
    <3> QED BY <3>2, <3>3, <3>4 DEF BusFreeBetweenIterations, Level
  <2> QED BY <2>1, <2>2 DEF BusFreeBetweenIterations
<1> QED BY <1>1, I2cInvariant, PTL

\* SDA moves under a high SCL for START and STOP only.
THEOREM SdaIsStable == I2cSpec => DataValid
<1> DEFINE Stable == (bus.scl = 1 /\ bus'.scl = 1 /\ Level(bus) # Level(bus')) =>
                        \/ call \in Framing /\ step = "frame"
                        \/ resets' # resets \/ kind' # kind
<1>1. ASSUME I2cInv, I2cNext PROVE Stable
  <2>1. CASE MoveLine /\ step = "set"
    <3>1. bus \in Bus /\ bus' = [bus EXCEPT !.sda = SdaOut]
      BY <1>1, <2>1, SetStep DEF I2cInv, I2cTypeOK
    <3>2. bus.scl = 1 => bus.sda = 1 /\ SdaOut = 1
      BY <1>1, <2>1 DEF I2cInv, LineInv, MoveLine, Running, SdaOut, Writes, Reads
    <3>3. bus.scl = 1 => bus' = bus
      BY <3>1, <3>2 DEF Bus
    <3> QED BY <3>3
  <2>2. CASE MoveLine /\ step = "rise"
    <3>1. bus \in Bus /\ (call # "start" => bus.scl = 0)
      BY <1>1, <2>2 DEF I2cInv, I2cTypeOK, LineInv, MoveLine, Running
    <3>2. call = "start" => bus' = [bus EXCEPT !.scl = 1]
      BY <1>1, <2>2, RiseStep
    <3>3. bus.scl = 1 => bus' = bus
      BY <3>1, <3>2 DEF Bus
    <3> QED BY <3>3
  <2>3. CASE MoveLine /\ step = "frame"
    BY <1>1, <2>3 DEF I2cInv, LineInv
  <2>4. CASE MoveLine /\ step = "fall"
    <3>1. step' = "set" /\ call' \notin {"start", "over"}
      BY <1>1, <2>4, FallPlace DEF Writes, Reads
    <3>2. bus'.scl = 0
      BY <1>1, <2>4, <3>1, MoveLineInv DEF I2cInv, LineInv
    <3> QED BY <3>2
  <2>5. CASE Sample \/ EndIteration \/ Verdict \/ ParkAlive
    BY <2>5 DEF Sample, EndIteration, Verdict, ParkAlive, i2cVars
  <2>6. CASE CodecMoves
    BY <1>1, <2>6, CodecMovesInv
  <2>7. CASE WireLost
    BY <2>7 DEF WireLost
  <2>8. CASE Reset
    BY <1>1, <2>8 DEF Reset, I2cInv, I2cTypeOK
  <2>9. MoveLine => step \in {"set", "rise", "frame", "fall"}
    BY <1>1 DEF I2cInv, I2cTypeOK, MoveLine
  <2> QED BY <1>1, <2>1, <2>2, <2>3, <2>4, <2>5, <2>6, <2>7, <2>8, <2>9 DEF I2cNext, Cpu
<1>2. I2cInv /\ [I2cNext]_i2cVars => [Stable]_i2cVars
  BY <1>1
<1>3. I2cSpec => [][Stable]_i2cVars
  BY <1>2, I2cInvariant, PTL DEF I2cSpec
<1> QED BY <1>3 DEF DataValid
=============================================================================
