--------------------------- MODULE WdtTest_proofs ---------------------------
(***************************************************************************)
(* Proofs about WdtTest for any number of feeds and blinks, any time-out   *)
(* and any speed of the CPU that WdtAssumption allows: a board that is fed *)
(* is not reset, PASS means that it was fed, and the LED shows the signal. *)
(***************************************************************************)
EXTENDS WdtTest, TLAPS

-----------------------------------------------------------------------------
(***************************************************************************)
(* Arithmetic.                                                             *)
(***************************************************************************)

LEMMA Times ==
    ASSUME NEW a \in Nat, NEW b \in Nat, NEW l \in Nat, a <= b
    PROVE  /\ a * l \in Nat /\ (a + 1) * l = a * l + l
           /\ a * l <= b * l
<1>1. a * l \in Nat /\ (a + 1) * l = a * l + l
  OBVIOUS
<1>2. PICK d \in Nat : b = a + d
  <2>1. b - a \in Nat /\ b = a + (b - a)
    OBVIOUS
  <2> QED BY <2>1
<1>3. b * l = a * l + d * l
  BY <1>2
<1>4. d * l \in Nat
  BY <1>2
<1> QED BY <1>1, <1>3, <1>4

Others == {"signals", "prints", "quiet", "skips", "fails", "parks"}

LEMMA Constants ==
    /\ Blinks \in Nat \ {0} /\ Second \in Nat \ {0} /\ Lag \in Nat \ {0}
    /\ Numbers \in Nat \ {0} /\ Feeds \in Nat \ {0} /\ FeedDelay \in Nat \ {0}
    /\ StarveDelay \in Nat \ {0} /\ Timeout \in Nat
    /\ FeedDelay + 5 * Lag < Timeout
    /\ LastFeed \in Nat /\ LastFeed = 4 + 4 * Feeds /\ LastFeed % 4 = 0 /\ LastFeed >= 8
    /\ Images \subseteq {"test_wdt"} \cup Others
<1>1. /\ Feeds \in Nat \ {0} /\ FeedDelay \in Nat \ {0} /\ StarveDelay \in Nat \ {0}
      /\ FeedDelay + 5 * Lag < Timeout
      /\ Images \subseteq {"test_wdt"} \cup Others
  BY WdtAssumption DEF Others
<1>2. Timeout \in Nat
  BY WdtAssumption
<1>3. \A f \in Nat \ {0} : (4 + 4 * f) % 4 = 0 /\ 4 + 4 * f >= 8 /\ 4 + 4 * f \in Nat
  OBVIOUS
<1> QED BY <1>1, <1>2, <1>3, LibAssumption DEF LastFeed

-----------------------------------------------------------------------------
(***************************************************************************)
(* The programs, call by call.                                             *)
(***************************************************************************)
LEMMA WdtCalls ==
    ASSUME image = "test_wdt"
    PROVE  /\ DOMAIN Program = 1 .. LastFeed + 3
           /\ \A i \in 1 .. LastFeed + 3 :
                 /\ Program[i] = "check"       <=> i = 1
                 /\ Program[i] = "unlock"      <=> i = 2 \/ (i \in 5 .. LastFeed /\ i % 4 = 2)
                 /\ Program[i] = "enable"      <=> i = 3
                 /\ Program[i] = "lock"        <=> i = 4 \/ (i \in 5 .. LastFeed /\ i % 4 = 0)
                 /\ Program[i] = "delay"       <=> i \in 5 .. LastFeed /\ i % 4 = 1
                 /\ Program[i] = "feed"        <=> i \in 5 .. LastFeed /\ i % 4 = 3
                 /\ Program[i] = "signal_pass" <=> i = LastFeed + 1
                 /\ Program[i] = "pass"        <=> i = LastFeed + 2
                 /\ Program[i] = "starve"      <=> i = LastFeed + 3
                 /\ Program[i] \notin {"body", "signal_fail", "park_alive"}
<1>1. Program = WdtProgram
  BY DEF Program
<1>2. DOMAIN Program = 1 .. LastFeed + 3
  BY <1>1 DEF WdtProgram
<1>3. ASSUME NEW i \in 1 .. LastFeed + 3
      PROVE  /\ i \in 1 .. 4 => Program[i] = Configure[i]
             /\ i \in 5 .. LastFeed => Program[i] = FeedOnce[1 + ((i - 1) % 4)]
             /\ i > LastFeed => Program[i] = Report[i - LastFeed]
  BY <1>1, Constants DEF WdtProgram
<1>4. /\ Configure[1] = "check" /\ Configure[2] = "unlock"
      /\ Configure[3] = "enable" /\ Configure[4] = "lock"
      /\ FeedOnce[1] = "delay" /\ FeedOnce[2] = "unlock"
      /\ FeedOnce[3] = "feed" /\ FeedOnce[4] = "lock"
      /\ Report[1] = "signal_pass" /\ Report[2] = "pass" /\ Report[3] = "starve"
  BY DEF Configure, FeedOnce, Report
<1>5. ASSUME NEW i \in 5 .. LastFeed
      PROVE  /\ i % 4 = 1 => Program[i] = "delay"
             /\ i % 4 = 2 => Program[i] = "unlock"
             /\ i % 4 = 3 => Program[i] = "feed"
             /\ i % 4 = 0 => Program[i] = "lock"
             /\ i % 4 \in 0 .. 3
  <2>1. /\ i % 4 = 1 => 1 + ((i - 1) % 4) = 1
        /\ i % 4 = 2 => 1 + ((i - 1) % 4) = 2
        /\ i % 4 = 3 => 1 + ((i - 1) % 4) = 3
        /\ i % 4 = 0 => 1 + ((i - 1) % 4) = 4
        /\ i % 4 \in 0 .. 3
    BY Constants
  <2>2. Program[i] = FeedOnce[1 + ((i - 1) % 4)]
    BY <1>3, Constants
  <2> QED BY <2>1, <2>2, <1>4
<1>6. ASSUME NEW i \in 1 .. LastFeed + 3
      PROVE  \/ i = 1 /\ Program[i] = "check"
             \/ i = 2 /\ Program[i] = "unlock"
             \/ i = 3 /\ Program[i] = "enable"
             \/ i = 4 /\ Program[i] = "lock"
             \/ i \in 5 .. LastFeed /\ i % 4 = 1 /\ Program[i] = "delay"
             \/ i \in 5 .. LastFeed /\ i % 4 = 2 /\ Program[i] = "unlock"
             \/ i \in 5 .. LastFeed /\ i % 4 = 3 /\ Program[i] = "feed"
             \/ i \in 5 .. LastFeed /\ i % 4 = 0 /\ Program[i] = "lock"
             \/ i = LastFeed + 1 /\ Program[i] = "signal_pass"
             \/ i = LastFeed + 2 /\ Program[i] = "pass"
             \/ i = LastFeed + 3 /\ Program[i] = "starve"
  <2>1. \/ i = 1 \/ i = 2 \/ i = 3 \/ i = 4 \/ i \in 5 .. LastFeed
        \/ i = LastFeed + 1 \/ i = LastFeed + 2 \/ i = LastFeed + 3
    BY Constants
  <2>2. CASE i \in 5 .. LastFeed
    BY <2>2, <1>5
  <2>3. CASE i \in 1 .. 4
    BY <2>3, <1>3, <1>4
  <2>4. CASE i > LastFeed
    <3>1. i - LastFeed \in 1 .. 3 /\ i = LastFeed + (i - LastFeed)
      BY <2>4, Constants
    <3> QED BY <3>1, <2>4, <1>3, <1>4
  <2> QED BY <2>1, <2>2, <2>3, <2>4, Constants
<1> QED BY <1>2, <1>6, Constants

\* The next call of a binary that is not test_wdt.
LEMMA OtherPlaces ==
    ASSUME image \in Others, ip \in DOMAIN Program
    PROVE  /\ 1 \in DOMAIN Program /\ ip \in Nat \ {0}
           /\ Program[ip] \in {"body", "signal_pass", "pass", "signal_fail", "park_alive"}
           /\ Program[ip] = "body" <=> ip = 1
           /\ Program[ip] \in {"body", "signal_pass", "pass"} => ip + 1 \in DOMAIN Program
           /\ Program[ip] = "signal_fail" => ~After("signal_pass")
<1>1. CASE image \in {"signals", "prints"}
  <2>1. PICK x \in {"signal_pass", "pass"}, y \in {"signal_pass", "pass"} :
            Program = <<"body", x, y, "park_alive">>
    BY <1>1 DEF Program, SignalsThenPrints, PrintsThenSignals
  <2>2. ip \in 1 .. 4 /\ DOMAIN Program = 1 .. 4
    BY <2>1
  <2> QED BY <2>1, <2>2
<1>2. CASE image \in {"quiet", "skips"}
  <2>1. PICK x \in {"signal_pass", "pass"} : Program = <<"body", x, "park_alive">>
    BY <1>2 DEF Program, PrintsOnly, SignalsOnly
  <2>2. ip \in 1 .. 3 /\ DOMAIN Program = 1 .. 3
    BY <2>1
  <2> QED BY <2>1, <2>2
<1>3. CASE image \in {"fails", "parks"}
  <2>1. PICK x \in {"signal_fail", "park_alive"} : Program = <<"body", x>>
    BY <1>3 DEF Program, FailsLit, FailsDark
  <2>2. ip \in 1 .. 2 /\ DOMAIN Program = 1 .. 2 /\ Program[1] = "body"
    BY <2>1
  <2>3. ~After("signal_pass")
    BY <2>2 DEF After
  <2> QED BY <2>1, <2>2, <2>3
<1> QED BY <1>1, <1>2, <1>3 DEF Others

\* What test_wdt has called so far.
LEMMA WdtAfter ==
    ASSUME image = "test_wdt", ip \in DOMAIN Program
    PROVE  /\ After("pass") <=> ip = LastFeed + 3
           /\ After("signal_pass") <=> ip >= LastFeed + 2
           /\ ip > 1 => (Program[ip - 1] = "signal_pass" <=> ip = LastFeed + 2)
<1>1. ip \in 1 .. LastFeed + 3
  BY WdtCalls
<1>2. /\ After("pass") <=> \E i \in 1 .. ip - 1 : i = LastFeed + 2
      /\ After("signal_pass") <=> \E i \in 1 .. ip - 1 : i = LastFeed + 1
  BY <1>1, WdtCalls, Constants DEF After
<1>3. ip > 1 => (Program[ip - 1] = "signal_pass" <=> ip - 1 = LastFeed + 1)
  BY <1>1, WdtCalls, Constants
<1> QED BY <1>1, <1>2, <1>3, Constants

LEMMA SameProgram == image' = image => Program' = Program
BY DEF Program

-----------------------------------------------------------------------------
(***************************************************************************)
(* The invariant holds at reset and is kept by every step.                 *)
(***************************************************************************)

\* What reset leaves: Init, and the end of Bite.
Fresh == /\ frame = "main" /\ age = 0 /\ wait = 0 /\ left = 0 /\ n = 0
         /\ pin = ResetPin /\ pulses = 0
         /\ image \in Images /\ hal \in {"off", "on"} /\ dead \in BOOLEAN
         /\ ip = 1
         /\ open = FALSE /\ wdt_en = (hal = "on") /\ count = 0
         /\ fed = 0 /\ passed = FALSE

LEMMA FreshInv == Fresh => IInv
<1> SUFFICES ASSUME Fresh PROVE IInv
  OBVIOUS
<1>1. TypeOK
  <2>1. 1 \in DOMAIN Program
    <3>1. CASE image = "test_wdt"
      BY <3>1, WdtCalls, Constants
    <3>2. CASE image # "test_wdt"
      BY <3>2, Constants DEF Fresh, Program, Others, SignalsThenPrints, PrintsThenSignals,
                             PrintsOnly, SignalsOnly, FailsLit, FailsDark
    <3> QED BY <3>1, <3>2
  <2>2. LibType
    BY Constants DEF Fresh, LibType, Frames, PinRegs, ResetPin
  <2>3. count \in 0 .. Timeout - 1 /\ fed \in 0 .. Feeds
    BY Constants DEF Fresh
  <2> QED BY <2>1, <2>2, <2>3 DEF Fresh, TypeOK
<1>2. \A x : ~After(x)
  BY DEF Fresh, After
<1>3. FrameInv
  <2>1. age <= Due
    BY Constants DEF Fresh, Due
  <2> QED BY <1>2, <2>1 DEF Fresh, FrameInv, Blinking
<1>4. LedInv
  BY <1>2 DEF Fresh, LedInv
<1>5. WdtInv
  <2>1. ip = 1 /\ ~(ip \in 3 .. LastFeed) /\ ~(ip >= 4) /\ fed = (IF ip < 4 THEN 0 ELSE (ip - 4) \div 4)
    BY Constants DEF Fresh
  <2>2. wdt_en <=> hal = "on"
    BY DEF Fresh
  <2> QED BY <2>1, <2>2, Zenon DEF Fresh, WdtInv
<1>6. TimeInv
  BY Constants DEF Fresh, TimeInv, InTime, Verdict
<1> QED BY <1>1, <1>3, <1>4, <1>5, <1>6 DEF IInv

\* The arithmetic of test_wdt's places.
LEMMA Places ==
    ASSUME image = "test_wdt", ip \in DOMAIN Program
    PROVE  /\ ip \in 1 .. LastFeed + 3 /\ ip % 4 \in 0 .. 3 /\ Verdict = LastFeed + 2
           /\ After("pass") <=> ip = LastFeed + 3
           /\ After("signal_pass") <=> ip >= LastFeed + 2
BY WdtCalls, WdtAfter, Constants DEF Verdict

\* What a program may go on to.
LEMMA Onward ==
    ASSUME IInv, NEW op, Calls(op), op \notin {"starve", "park_alive", "signal_fail"},
           UNCHANGED image
    PROVE  /\ ip \in Nat \ {0} /\ ip' = ip + 1 /\ ip' \in DOMAIN Program' /\ frame = "main"
           /\ Program[ip] = op /\ Program' = Program
           /\ \A x : After(x)' <=> After(x) \/ x = op
<1>1. Program' = Program /\ Program[ip] = op /\ ip' = ip + 1 /\ frame = "main"
  BY SameProgram DEF Calls
<1>2. ip \in Nat \ {0} /\ ip + 1 \in DOMAIN Program
  <2>1. CASE image = "test_wdt"
    BY <1>1, <2>1, WdtCalls, Constants DEF IInv, TypeOK
  <2>2. CASE image # "test_wdt"
    BY <1>1, <2>2, OtherPlaces, Constants DEF IInv, TypeOK
  <2> QED BY <2>1, <2>2
<1>3. \A i : i \in 1 .. ip' - 1 <=> i \in 1 .. ip - 1 \/ i = ip
  BY <1>1, <1>2
<1>4. ASSUME NEW x PROVE After(x)' <=> After(x) \/ x = op
  BY <1>1, <1>3 DEF After
<1> QED BY <1>1, <1>2, <1>4

\* A call that is still being made, or has just returned.
LEMMA Still ==
    ASSUME IInv, UNCHANGED <<image, ip>>
    PROVE  /\ ip \in Nat \ {0} /\ ip' \in DOMAIN Program' /\ Program' = Program
           /\ \A x : After(x)' <=> After(x)
<1>1. Program' = Program /\ ip' = ip
  BY SameProgram
<1>2. ip \in Nat \ {0}
  <2>1. CASE image = "test_wdt"
    BY <2>1, WdtCalls, Constants DEF IInv, TypeOK
  <2>2. CASE image # "test_wdt"
    BY <2>2, OtherPlaces, Constants DEF IInv, TypeOK
  <2> QED BY <2>1, <2>2
<1> QED BY <1>1, <1>2 DEF After, IInv, TypeOK

\* Back in main(), or waiting: what is left to show.
LEMMA InMain ==
    ASSUME frame' = "main", age' = 0, passed' <=> After("pass")'
    PROVE  FrameInv'
BY Constants DEF FrameInv, Due, Blinking

LEMMA LedKept ==
    ASSUME IInv, ~Blinking, frame' \in {"main", "delay", "alive", "halted"},
           UNCHANGED <<pin, pulses>>, After("signal_pass")' => After("signal_pass")
    PROVE  LedInv'
BY DEF IInv, LedInv, Blinking

\* The register accesses of test_wdt.
LEMMA AccessStep ==
    ASSUME IInv, UNCHANGED <<image, hal, dead>>,
           Unlock \/ Lock \/ Enable \/ Feed
    PROVE  IInv'
<1> USE DEF IInv
<1>1. PICK op \in {"unlock", "lock", "enable", "feed"} : Calls(op)
  BY DEF Unlock, Lock, Enable, Feed
<1>2. /\ ip \in Nat /\ ip' = ip + 1 /\ ip' \in DOMAIN Program' /\ frame = "main"
      /\ Program[ip] = op /\ Program' = Program
      /\ \A x : After(x)' <=> After(x) \/ x = op
  BY <1>1, Onward
<1>3. image = "test_wdt"
  BY <1>1, <1>2, OtherPlaces, Constants DEF TypeOK
<1>4. ip \in 1 .. LastFeed + 3 /\ ip % 4 \in 0 .. 3 /\ Verdict = LastFeed + 2 /\ Verdict' = Verdict
  BY <1>2, <1>3, Places DEF TypeOK, Verdict
<1>5. /\ ip \in 2 .. LastFeed /\ ip % 4 \in {0, 2, 3} /\ ip' % 4 = (ip + 1) % 4
      /\ op = "unlock" => ip % 4 = 2
      /\ op = "enable" => ip = 3
      /\ op = "feed"   => ip % 4 = 3 /\ ip >= 5
      /\ op = "lock"   => ip % 4 = 0
  BY <1>1, <1>2, <1>3, <1>4, WdtCalls, Constants
<1>6. /\ frame' = "main" /\ age' = 0
      /\ UNCHANGED <<wait, left, n, pin, pulses, passed, image, hal, dead>>
  BY DEF Unlock, Lock, Enable, Feed, Access, Enter, ledVars
<1>7. FrameInv'
  BY <1>2, <1>6, InMain DEF FrameInv
<1>8. LedInv'
  BY <1>2, <1>6, LedKept DEF Blinking
<1>9. /\ open' <=> ip' \in 3 .. LastFeed /\ ip' % 4 \in {3, 0}
      /\ wdt_en' <=> ip' >= 4 \/ (ip' = 1 /\ hal' = "on")
      /\ fed' = IF ip' < 4 THEN 0 ELSE (ip' - 4) \div 4
  <2>1. /\ open <=> ip \in 3 .. LastFeed /\ ip % 4 \in {3, 0}
        /\ wdt_en <=> ip >= 4 \/ (ip = 1 /\ hal = "on")
        /\ fed = IF ip < 4 THEN 0 ELSE (ip - 4) \div 4
    BY <1>3, Zenon DEF WdtInv
  <2>2. CASE op = "unlock"
    <3>1. ip' \in 3 .. LastFeed /\ ip' % 4 = 3 /\ (ip' >= 4 <=> ip >= 4)
      BY <1>2, <1>5, <2>2, Constants
    <3>2. open' = TRUE /\ UNCHANGED <<wdt_en, count, fed>>
      BY <1>1, <1>2, <2>2 DEF Unlock, Lock, Enable, Feed, Calls
    <3>3. fed' = IF ip' < 4 THEN 0 ELSE (ip' - 4) \div 4
      BY <1>2, <1>5, <2>1, <2>2, <3>2, Constants
    <3>4. ip # 1 /\ ip' # 1
      BY <1>2, <1>5, Constants
    <3> QED BY <2>1, <3>1, <3>2, <3>3, <3>4, Zenon
  <2>3. CASE op = "lock"
    <3>1. ip' % 4 = 1 /\ ip >= 4 /\ ip' >= 4
      BY <1>2, <1>5, <2>3, Constants
    <3>2. open' = FALSE /\ UNCHANGED <<wdt_en, count, fed>>
      BY <1>1, <1>2, <2>3 DEF Unlock, Lock, Enable, Feed, Calls
    <3>3. fed' = IF ip' < 4 THEN 0 ELSE (ip' - 4) \div 4
      BY <1>2, <1>5, <2>1, <2>3, <3>2, Constants
    <3>4. ~(ip' % 4 \in {3, 0})
      BY <3>1
    <3> QED BY <2>1, <3>1, <3>2, <3>3, <3>4, Zenon
  <2>4. CASE op = "enable"
    <3>1. ip = 3 /\ ip' = 4 /\ 3 \in 3 .. LastFeed /\ 3 % 4 = 3 /\ 4 \in 3 .. LastFeed /\ 4 % 4 = 0
      BY <1>2, <1>5, <2>4, Constants
    <3>2. open
      BY <2>1, <3>1, Zenon
    <3>3. wdt_en' = TRUE /\ count' = 0 /\ UNCHANGED <<open, fed>>
      BY <1>1, <1>2, <2>4, <3>2 DEF Unlock, Lock, Enable, Feed, Calls
    <3>4. fed' = IF ip' < 4 THEN 0 ELSE (ip' - 4) \div 4
      BY <2>1, <3>1, <3>3
    <3>5. ip' >= 4 /\ ip' \in 3 .. LastFeed /\ ip' % 4 \in {3, 0}
      BY <3>1
    <3> QED BY <3>2, <3>3, <3>4, <3>5, Zenon
  <2>5. CASE op = "feed"
    <3>1. /\ ip \in 3 .. LastFeed /\ ip % 4 \in {3, 0} /\ ip >= 4
          /\ ip' \in 3 .. LastFeed /\ ip' % 4 \in {3, 0} /\ ip' >= 4
      BY <1>2, <1>5, <2>5, Constants
    <3>2. open /\ wdt_en
      BY <2>1, <3>1, Zenon
    <3>3. count' = 0 /\ fed' = fed + 1 /\ UNCHANGED <<open, wdt_en>>
      BY <1>1, <1>2, <2>5, <3>2 DEF Unlock, Lock, Enable, Feed, Calls
    <3>4. fed' = IF ip' < 4 THEN 0 ELSE (ip' - 4) \div 4
      BY <1>2, <1>5, <2>1, <2>5, <3>3, Constants
    <3> QED BY <3>1, <3>2, <3>3, <3>4, Zenon
  <2> QED BY <2>2, <2>3, <2>4, <2>5
<1>13. /\ op \in {"enable", "feed"} => count' = 0
       /\ op \in {"unlock", "lock"} => count' = count
  <2>1. ASSUME op \in {"enable", "feed"} PROVE open
    <3>1. ip \in 3 .. LastFeed /\ ip % 4 \in {3, 0}
      BY <1>2, <1>5, <2>1, Constants
    <3> QED BY <1>3, <3>1, Zenon DEF WdtInv
  <2> QED BY <1>1, <1>2, <2>1 DEF Unlock, Lock, Enable, Feed, Calls
<1>12. WdtInv' /\ count' \in 0 .. Timeout - 1 /\ fed' \in 0 .. Feeds
  <2>1. hal' # "on"
    BY <1>3, <1>5, <1>6, Constants DEF WdtInv
  <2>2. fed' \in 0 .. Feeds
    BY <1>2, <1>5, <1>9, Constants
  <2>3. count' \in 0 .. Timeout - 1
    BY <1>13, Constants DEF TypeOK
  <2> QED BY <1>3, <1>6, <1>9, <2>1, <2>2, <2>3, Zenon DEF WdtInv
<1>10. TypeOK'
  <2>1. open' \in BOOLEAN /\ wdt_en' \in BOOLEAN
    BY Zenon DEF Unlock, Lock, Enable, Feed, TypeOK
  <2> QED BY <1>2, <1>6, <1>12, <2>1 DEF TypeOK, LibType, Frames
<1>11. TimeInv'
  <2>1. wdt_en' \/ count' = 0
    BY <1>1, Zenon DEF TimeInv, Unlock, Lock, Enable, Feed
  <2>2. CASE op \in {"enable", "feed"}
    <3>1. InTime'
      BY <1>2, <1>3, <1>4, <1>5, <1>6, <1>13, <2>2, Constants DEF InTime
    <3> QED BY <2>1, <3>1 DEF TimeInv
  <2>3. CASE op \in {"unlock", "lock"}
    <3>1. count' = count /\ age \in Nat /\ count \in Nat /\ age <= Lag
      BY <1>2, <1>13, <2>3, Constants DEF FrameInv, Due, Stopped, TypeOK, LibType
    <3>2. ip < 4 => count = 0
      <4>1. ip < 4 => ~(ip >= 4) /\ ip # 1
        BY <1>5
      <4> QED BY <1>3, <4>1, Zenon DEF TimeInv, WdtInv
    <3>3. ~passed
      BY <1>3, <1>5, Places, Constants DEF FrameInv, TypeOK
    <3>4. InTime
      BY <1>2, <1>3, <3>3 DEF TimeInv
    <3>5. InTime'
      <4>1. CASE op = "lock"
        BY <1>2, <1>4, <1>5, <1>6, <3>1, <3>4, <4>1, Constants DEF InTime
      <4>2. CASE op = "unlock" /\ ip < 4
        BY <1>2, <1>4, <1>5, <1>6, <3>1, <3>2, <4>2, Constants DEF InTime
      <4>3. CASE op = "unlock" /\ ip >= 4
        BY <1>2, <1>4, <1>5, <1>6, <3>1, <3>4, <4>3, Constants DEF InTime
      <4> QED BY <2>3, <4>1, <4>2, <4>3, <1>4
    <3> QED BY <2>1, <3>5 DEF TimeInv
  <2> QED BY <2>2, <2>3
<1> QED BY <1>7, <1>8, <1>12, <1>10, <1>11

LEMMA CheckStep ==
    ASSUME IInv, UNCHANGED <<image, hal, dead>>, Check
    PROVE  IInv'
<1> USE DEF IInv
<1>1. image = "test_wdt" /\ Program' = Program /\ ip = 1 /\ Verdict' = Verdict /\ Verdict = LastFeed + 2
  <2>1. Program[ip] = "check"
    BY DEF Check
  <2>2. image = "test_wdt"
    BY <2>1, OtherPlaces, Constants DEF TypeOK
  <2> QED BY <2>1, <2>2, SameProgram, WdtCalls DEF TypeOK, Verdict
<1>2. /\ UNCHANGED <<wait, left, n, pin, pulses, open, wdt_en, count, fed, passed, image, hal, dead>>
      /\ age' = 0 /\ frame = "main"
  BY DEF Check, Enter, ledVars, wdtVars
<1>3. \/ wdt_en /\ frame' = "halted" /\ ip' = ip
      \/ ~wdt_en /\ frame' = "main" /\ ip' = 2
  BY <1>1 DEF Check, Enter
<1>4. ip' \in {1, 2} /\ ip' \in DOMAIN Program'
  BY <1>1, <1>3, WdtCalls, Constants
<1>10. \A x : After(x)' <=> After(x) \/ (ip' = 2 /\ x = "check")
  <2>1. Program[1] = "check" /\ \A x : ~After(x)
    BY <1>1, WdtCalls, Constants DEF After
  <2>2. CASE ip' = 1
    BY <1>1, <2>1, <2>2 DEF After
  <2>3. CASE ip' = 2
    BY <1>1, <2>1, <2>3 DEF After
  <2> QED BY <1>4, <2>2, <2>3
<1>5. TypeOK'
  <2>1. frame' \in Frames
    BY <1>3 DEF Frames
  <2> QED BY <1>2, <1>4, <2>1 DEF TypeOK, LibType
<1>6. FrameInv'
  <2>1. /\ frame' \in {"main", "halted"} /\ (frame' = "halted" => Program'[ip'] = "check")
        /\ age' <= Due'
    BY <1>1, <1>2, <1>3, WdtCalls, Constants DEF Due
  <2>2. passed' <=> After("pass")'
    BY <1>2, <1>10 DEF FrameInv
  <2> QED BY <2>1, <2>2 DEF FrameInv, Blinking
<1>7. LedInv'
  BY <1>2, <1>3, <1>10, LedKept DEF Blinking
<1>8. WdtInv'
  <2>1. /\ ~(ip \in 3 .. LastFeed) /\ ~(ip >= 4) /\ ip < 4
        /\ ~(ip' \in 3 .. LastFeed) /\ ~(ip' >= 4) /\ ip' < 4
    BY <1>1, <1>4, Constants
  <2>2. open <=> FALSE
    BY <1>1, <2>1, Zenon DEF WdtInv
  <2>3. wdt_en <=> hal = "on"
    BY <1>1, <2>1, Zenon DEF WdtInv
  <2>4. fed = 0
    BY <1>1, <2>1, Zenon DEF WdtInv
  <2>5. (hal = "on" /\ ip' = 1) \/ (hal # "on" /\ ip' # 1)
    <3>1. CASE wdt_en
      BY <1>1, <1>3, <2>3, <3>1
    <3>2. CASE ~wdt_en
      <4>1. hal # "on"
        BY <2>3, <3>2, Zenon
      <4>2. ip' = 2
        BY <1>3, <3>2, Zenon
      <4> QED BY <4>1, <4>2
    <3> QED BY <3>1, <3>2
  <2>6. open' <=> ip' \in 3 .. LastFeed /\ ip' % 4 \in {3, 0}
    BY <1>2, <2>1, <2>2, Zenon
  <2>7. wdt_en' <=> ip' >= 4 \/ (ip' = 1 /\ hal' = "on")
    BY <1>2, <2>1, <2>3, <2>5, Zenon
  <2>8. fed' = IF ip' < 4 THEN 0 ELSE (ip' - 4) \div 4
    BY <1>2, <2>1, <2>4, Zenon
  <2>9. image' = "test_wdt" /\ (hal' = "on" => ip' = 1)
    BY <1>1, <1>2, <2>5
  <2> QED BY <2>6, <2>7, <2>8, <2>9, Zenon DEF WdtInv
<1>9. TimeInv'
  <2>1. ~wdt_en => count' = 0
    BY <1>2, Zenon DEF TimeInv
  <2>2. frame' # "halted" => count' = 0
    BY <1>3, <2>1
  <2>3. frame' # "halted" => InTime'
    <3>1. ip' <= 4 /\ ~(ip' \in 5 .. LastFeed) /\ ip' # LastFeed + 1 /\ ip' # Verdict'
      BY <1>1, <1>4, Constants
    <3>2. frame' # "halted" => count' <= age'
      BY <1>2, <2>2
    <3> QED BY <3>1, <3>2 DEF InTime
  <2>4. wdt_en' \/ count' = 0
    BY <1>2, <2>1, Zenon
  <2> QED BY <2>3, <2>4 DEF TimeInv
<1> QED BY <1>5, <1>6, <1>7, <1>8, <1>9

LEMMA PrintStep ==
    ASSUME IInv, UNCHANGED <<image, hal, dead>>, PrintPass
    PROVE  IInv'
<1> USE DEF IInv
<1>1. /\ ip \in Nat /\ ip' = ip + 1 /\ ip' \in DOMAIN Program' /\ frame = "main"
      /\ Program[ip] = "pass" /\ \A x : After(x)' <=> After(x) \/ x = "pass"
  BY Onward DEF PrintPass
<1>2. image = "test_wdt" => ip = LastFeed + 2
  BY <1>1, WdtCalls, Constants DEF TypeOK
<1>3. /\ UNCHANGED <<wait, left, n, pin, pulses, open, wdt_en, count, fed, image, hal, dead>>
      /\ age' = 0 /\ frame' = "main" /\ passed' = TRUE
  BY DEF PrintPass, Access, Enter, ledVars, wdtVars
<1>4. TypeOK'
  BY <1>1, <1>3 DEF TypeOK, LibType, Frames
<1>5. FrameInv'
  BY <1>1, <1>3, InMain
<1>6. LedInv'
  BY <1>1, <1>3, LedKept DEF Blinking
<1>7. WdtInv'
  <2>1. CASE image = "test_wdt"
    <3>1. /\ ~(ip \in 3 .. LastFeed) /\ ip >= 4 /\ ~(ip < 4) /\ ip # 1
          /\ ~(ip' \in 3 .. LastFeed) /\ ip' >= 4 /\ ~(ip' < 4) /\ ip' # 1
          /\ (ip' - 4) \div 4 = (ip - 4) \div 4
      BY <1>1, <1>2, <2>1, Constants
    <3> QED BY <1>3, <2>1, <3>1, Zenon DEF WdtInv
  <2>2. CASE image # "test_wdt"
    BY <1>3, <2>2, Zenon DEF WdtInv
  <2> QED BY <2>1, <2>2
<1>8. TimeInv'
  <2>1. wdt_en' \/ count' = 0
    BY <1>3, Zenon DEF TimeInv
  <2> QED BY <1>3, <2>1 DEF TimeInv
<1> QED BY <1>4, <1>5, <1>6, <1>7, <1>8

\* The watchdog of a binary that does not know of it.
LEMMA WdtAlone ==
    ASSUME IInv, image # "test_wdt", UNCHANGED <<image, hal, wdt_en, open, count, fed>>
    PROVE  WdtInv' /\ TimeInv'
<1>1. wdt_en' \/ count' = 0
  BY Zenon DEF IInv, TimeInv
<1>2. (wdt_en <=> hal = "on") /\ ~open /\ fed = 0
  BY Zenon DEF IInv, WdtInv
<1>3. (wdt_en' <=> hal' = "on") /\ ~open' /\ fed' = 0 /\ image' # "test_wdt"
  BY <1>2, Zenon
<1>4. WdtInv'
  BY <1>3, Zenon DEF WdtInv
<1> QED BY <1>1, <1>3, <1>4, Zenon DEF TimeInv

LEMMA BodyStep ==
    ASSUME IInv, UNCHANGED <<image, hal, dead>>, Body
    PROVE  IInv'
<1> USE DEF IInv
<1>1. image \in Others /\ ip = 1 /\ Program[1] = "body" /\ 2 \in DOMAIN Program /\ Program' = Program
  <2>1. Program[ip] = "body"
    BY DEF Body
  <2>2. image # "test_wdt"
    BY <2>1, WdtCalls DEF TypeOK
  <2>3. image \in Others
    BY <2>2, Constants DEF TypeOK
  <2> QED BY <2>1, <2>3, OtherPlaces, SameProgram DEF TypeOK
<1>2. /\ UNCHANGED <<wait, left, n, pulses, open, wdt_en, count, fed, passed, image, hal, dead>>
      /\ age' = 0 /\ pin' \in PinRegs /\ frame = "main"
      /\ \/ frame' = "main" /\ ip' \in {1, 2}
         \/ frame' = "halted" /\ ip' = 1
  BY <1>1 DEF Body, Enter, wdtVars
<1>3. \A x : x # "body" => ~After(x)'
  BY <1>1, <1>2 DEF After
<1>4. TypeOK'
  <2>1. 1 \in DOMAIN Program
    BY <1>1 DEF TypeOK
  <2> QED BY <1>1, <1>2, <2>1 DEF TypeOK, LibType, Frames
<1>5. FrameInv'
  <2>1. ~After("pass")
    BY <1>1 DEF After
  <2>2. ~passed' /\ ~After("pass")'
    BY <1>2, <1>3, <2>1 DEF FrameInv
  <2> QED BY <1>1, <1>2, <2>2, Constants DEF FrameInv, Due, Blinking
<1>6. LedInv'
  BY <1>2, <1>3 DEF LedInv
<1>7. WdtInv' /\ TimeInv'
  <2>1. image # "test_wdt"
    BY <1>1 DEF Others
  <2> QED BY <1>2, <2>1, WdtAlone
<1> QED BY <1>4, <1>5, <1>6, <1>7

\* The watchdog's registers are left alone, and the key is where it was.
LEMMA WdtKept ==
    ASSUME IInv, UNCHANGED <<image, hal, wdt_en, open, count, fed>>,
           ip \in Nat,
           \/ ip' = ip
           \/ image = "test_wdt" /\ ip \in 5 .. LastFeed + 2 /\ ip' = ip + 1
              /\ (ip <= LastFeed => ip % 4 = 1)
           \/ image # "test_wdt"
    PROVE  WdtInv' /\ (wdt_en' \/ count' = 0)
<1> USE DEF IInv
<1>1. wdt_en' \/ count' = 0
  BY Zenon DEF TimeInv
<1>2. CASE ip' = ip \/ image # "test_wdt"
  <2>1. CASE image # "test_wdt"
    BY <1>1, <2>1, WdtAlone
  <2>2. CASE image = "test_wdt" /\ ip' = ip
    <3>1. /\ open <=> ip \in 3 .. LastFeed /\ ip % 4 \in {3, 0}
          /\ wdt_en <=> ip >= 4 \/ (ip = 1 /\ hal = "on")
          /\ hal = "on" => ip = 1
          /\ fed = IF ip < 4 THEN 0 ELSE (ip - 4) \div 4
      BY <2>2, Zenon DEF WdtInv
    <3>2. open' <=> ip' \in 3 .. LastFeed /\ ip' % 4 \in {3, 0}
      BY <2>2, <3>1, Zenon
    <3>3. wdt_en' <=> ip' >= 4 \/ (ip' = 1 /\ hal' = "on")
      BY <2>2, <3>1, Zenon
    <3>4. hal' = "on" => ip' = 1
      BY <2>2, <3>1, Zenon
    <3>5. fed' = IF ip' < 4 THEN 0 ELSE (ip' - 4) \div 4
      BY <2>2, <3>1, Zenon
    <3>6. image' = "test_wdt"
      BY <2>2
    <3> QED BY <1>1, <3>2, <3>3, <3>4, <3>5, <3>6, Zenon DEF WdtInv
  <2> QED BY <1>2, <2>1, <2>2
<1>3. CASE /\ image = "test_wdt" /\ ip \in 5 .. LastFeed + 2 /\ ip' = ip + 1
           /\ (ip <= LastFeed => ip % 4 = 1)
  <2>1. /\ ~(ip \in 3 .. LastFeed /\ ip % 4 \in {3, 0}) /\ ip >= 4 /\ ip # 1 /\ ~(ip < 4)
        /\ ~(ip' \in 3 .. LastFeed /\ ip' % 4 \in {3, 0}) /\ ip' >= 4 /\ ip' # 1 /\ ~(ip' < 4)
        /\ (ip' - 4) \div 4 = (ip - 4) \div 4
    <3>1. CASE ip <= LastFeed
      BY <1>3, <3>1, Constants
    <3>2. CASE ip > LastFeed
      BY <1>3, <3>2, Constants
    <3> QED BY <3>1, <3>2, Constants
  <2>2. ~open /\ (wdt_en <=> TRUE) /\ hal # "on" /\ fed = (ip - 4) \div 4
    BY <1>3, <2>1, Zenon DEF WdtInv
  <2>3. ~open' /\ wdt_en' /\ hal' # "on" /\ fed' = (ip' - 4) \div 4 /\ image' = "test_wdt"
    BY <1>3, <2>1, <2>2, Zenon
  <2> QED BY <2>1, <2>3, Zenon DEF WdtInv
<1> QED BY <1>1, <1>2, <1>3

\* The time of the step before is over.
LEMMA StepTime ==
    ASSUME IInv, ~Stopped
    PROVE  age \in Nat /\ count \in Nat /\ age <= Due
BY DEF IInv, TypeOK, LibType, FrameInv

LEMMA FeedWaitStep ==
    ASSUME IInv, UNCHANGED <<image, hal, dead>>, FeedWait
    PROVE  IInv'
<1> USE DEF IInv
<1>1. /\ ip \in Nat /\ ip' = ip + 1 /\ ip' \in DOMAIN Program' /\ frame = "main"
      /\ Program[ip] = "delay" /\ \A x : After(x)' <=> After(x) \/ x = "delay"
  BY Onward DEF FeedWait
<1>2. /\ image = "test_wdt" /\ ip \in 5 .. LastFeed /\ ip % 4 = 1
      /\ ip' \in 5 .. LastFeed /\ ip' % 4 = 2
      /\ Verdict' = Verdict /\ Verdict = LastFeed + 2
  <2>1. image = "test_wdt"
    BY <1>1, OtherPlaces, Constants DEF TypeOK
  <2> QED BY <1>1, <2>1, WdtCalls, Constants DEF Verdict, TypeOK
<1>3. /\ UNCHANGED <<left, n, pin, pulses, open, wdt_en, count, fed, passed, image, hal, dead>>
      /\ age' = 0 /\ frame' = "delay" /\ wait' = FeedDelay
  BY DEF FeedWait, Delay, Enter, ledVars, wdtVars
<1>4. TypeOK'
  BY <1>1, <1>3, Constants DEF TypeOK, LibType, Frames
<1>5. FrameInv'
  BY <1>1, <1>2, <1>3, Constants DEF FrameInv, Due, Blinking
<1>6. LedInv'
  BY <1>1, <1>3, LedKept DEF Blinking
<1>7. WdtInv' /\ (wdt_en' \/ count' = 0)
  BY <1>1, <1>2, <1>3, WdtKept, Constants
<1>8. InTime'
  <2>1. age \in Nat /\ count \in Nat /\ age <= Lag
    BY <1>1, StepTime, Constants DEF Due, Stopped
  <2>2. ~passed
    BY <1>2, Places, Constants DEF FrameInv, TypeOK
  <2>3. count <= Lag + age
    BY <1>1, <1>2, <2>2 DEF TimeInv, InTime
  <2>4. count' <= 2 * Lag + age'
    BY <1>3, <2>1, <2>3, Constants
  <2>5. ip' > 4 /\ ip' <= LastFeed /\ ip' # LastFeed + 1 /\ ip' # Verdict'
    BY <1>2, Constants
  <2> QED BY <1>1, <1>2, <1>3, <2>1, <2>4, <2>5, Constants DEF InTime
<1> QED BY <1>4, <1>5, <1>6, <1>7, <1>8 DEF TimeInv

LEMMA StarveStep ==
    ASSUME IInv, UNCHANGED <<image, hal, dead>>, Starve
    PROVE  IInv'
<1> USE DEF IInv
<1>1. /\ image = "test_wdt" /\ ip = LastFeed + 3 /\ frame = "main"
      /\ ip' = ip /\ Program' = Program
      /\ Verdict' = Verdict /\ Verdict = LastFeed + 2
  <2>1. frame = "main" /\ Program[ip] = "starve" /\ ip' = ip
    BY DEF Starve, Ends
  <2>2. image = "test_wdt"
    BY <2>1, OtherPlaces, Constants DEF TypeOK
  <2> QED BY <2>1, <2>2, SameProgram, WdtCalls, Constants DEF Verdict, TypeOK
<1>2. /\ UNCHANGED <<left, n, pin, pulses, open, wdt_en, count, fed, passed, image, hal, dead>>
      /\ age' = 0 /\ frame' = "delay" /\ wait' = StarveDelay
  BY DEF Starve, Delay, Enter, Ends, ledVars, wdtVars
<1>3. TypeOK'
  BY <1>1, <1>2, Constants DEF TypeOK, LibType, Frames
<1>8. \A x : After(x)' <=> After(x)
  BY <1>1, Still
<1>4. passed /\ passed'
  BY <1>1, <1>2, Places DEF FrameInv, TypeOK
<1>5. FrameInv'
  BY <1>1, <1>2, <1>4, <1>8, Constants DEF FrameInv, Due, Blinking
<1>6. LedInv'
  BY <1>1, <1>2, <1>8, LedKept DEF Blinking
<1>7. WdtInv' /\ (wdt_en' \/ count' = 0)
  BY <1>1, <1>2, WdtKept, Constants
<1> QED BY <1>3, <1>4, <1>5, <1>6, <1>7 DEF TimeInv

LEMMA DelayReturnsStep ==
    ASSUME IInv, UNCHANGED <<image, hal, dead>>, DelayReturns, Ends
    PROVE  IInv'
<1> USE DEF IInv
<1>1. /\ frame = "delay" /\ image = "test_wdt" /\ ip \in Nat
      /\ \/ ip \in 5 .. LastFeed /\ ip % 4 = 2 /\ wait = FeedDelay
         \/ ip = LastFeed + 3
      /\ ip' = ip /\ Program' = Program
      /\ Verdict' = Verdict /\ Verdict = LastFeed + 2
  BY SameProgram, Constants DEF DelayReturns, Ends, FrameInv, Verdict
<1>2. /\ UNCHANGED <<wait, left, n, pin, pulses, open, wdt_en, count, fed, passed, image, hal, dead>>
      /\ age' = 0 /\ frame' = "main"
  BY DEF DelayReturns, Enter, Ends, ledVars, wdtVars
<1>3. TypeOK'
  BY <1>1, <1>2 DEF TypeOK, LibType, Frames
<1>8. \A x : After(x)' <=> After(x)
  BY <1>1, Still
<1>4. FrameInv'
  BY <1>2, <1>8, InMain DEF FrameInv
<1>5. LedInv'
  BY <1>1, <1>2, <1>8, LedKept DEF Blinking
<1>6. WdtInv' /\ (wdt_en' \/ count' = 0)
  BY <1>1, <1>2, WdtKept
<1>7. ~passed => InTime'
  <2>1. SUFFICES ASSUME ~passed PROVE InTime'
    OBVIOUS
  <2>2. ip \in 5 .. LastFeed /\ ip % 4 = 2 /\ wait = FeedDelay
    BY <1>1, <2>1, Places DEF FrameInv, TypeOK
  <2>3. age \in Nat /\ count \in Nat /\ age <= Lag + FeedDelay
    BY <1>1, <2>2, StepTime, Constants DEF Due, Stopped
  <2>4. count <= 2 * Lag + age
    BY <1>1, <2>1, <2>2 DEF TimeInv, InTime
  <2> QED BY <1>1, <1>2, <2>2, <2>3, <2>4, Constants DEF InTime
<1> QED BY <1>2, <1>3, <1>4, <1>5, <1>6, <1>7 DEF TimeInv

LEMMA SignalPassStep ==
    ASSUME IInv, UNCHANGED <<image, hal, dead>>, Pass
    PROVE  IInv'
<1> USE DEF IInv
<1>1. /\ ip \in Nat \ {0} /\ ip' = ip + 1 /\ ip' \in DOMAIN Program' /\ frame = "main"
      /\ Program[ip] = "signal_pass" /\ Program' = Program
      /\ \A x : After(x)' <=> After(x) \/ x = "signal_pass"
  BY Onward DEF Pass
<1>2. /\ Verdict' = Verdict
      /\ image = "test_wdt" => ip = LastFeed + 1 /\ ip' = Verdict
  BY <1>1, WdtCalls, Constants DEF Verdict, TypeOK
<1>3. /\ UNCHANGED <<wait, n, open, wdt_en, count, fed, passed, image, hal, dead>>
      /\ age' = 0 /\ frame' = "blink_on" /\ left' = Blinks /\ pulses' = 0
      /\ pin' = [pin EXCEPT !.mux = "gpio", !.sel = "out_reg", !.enable = TRUE]
  BY DEF Pass, SignalPass, Enter, InitLed, wdtVars
<1>4. pin' \in PinRegs /\ Driven'
  BY <1>3 DEF TypeOK, LibType, PinRegs, Driven
<1>5. TypeOK'
  BY <1>1, <1>3, <1>4, Constants DEF TypeOK, LibType, Frames
<1>6. FrameInv'
  <2>1. passed' <=> After("pass")'
    BY <1>1, <1>3 DEF FrameInv
  <2>2. age' <= Due'
    BY <1>3, Constants DEF Due
  <2>3. ip' > 1 /\ Program'[ip' - 1] = "signal_pass" /\ left' > 0
    BY <1>1, <1>3, Constants
  <2> QED BY <1>3, <2>1, <2>2, <2>3 DEF FrameInv, Blinking
<1>7. LedInv'
  BY <1>3, <1>4, Constants DEF LedInv, Blinking
<1>8. WdtInv' /\ (wdt_en' \/ count' = 0)
  BY <1>1, <1>2, <1>3, WdtKept, Constants
<1>9. image = "test_wdt" => InTime'
  <2>1. SUFFICES ASSUME image = "test_wdt" PROVE InTime'
    OBVIOUS
  <2>2. age \in Nat /\ count \in Nat /\ age <= Lag
    BY <1>1, StepTime, Constants DEF Due, Stopped
  <2>3. ~passed
    BY <1>2, <2>1, Places, Constants DEF FrameInv, TypeOK
  <2>4. count <= Lag + age
    BY <1>1, <1>2, <2>1, <2>3 DEF TimeInv, InTime
  <2>5. ip' > LastFeed + 1 /\ (2 * (Blinks - left') + 2) * Lag = 2 * Lag
    BY <1>1, <1>2, <1>3, <2>1, Constants
  <2>6. count' <= (2 * (Blinks - left') + 2) * Lag + age'
    BY <1>3, <2>2, <2>4, <2>5, Constants
  <2>7. /\ ~(ip' <= 4) /\ ~(ip' \in 5 .. LastFeed) /\ ip' # LastFeed + 1
        /\ frame' # "main" /\ frame' # "blink_off"
    BY <1>1, <1>2, <1>3, <2>1, Constants
  <2> QED BY <2>6, <2>7, Zenon DEF InTime
<1> QED BY <1>3, <1>5, <1>6, <1>7, <1>8, <1>9 DEF TimeInv

\* What both halves of a blink leave alone.
LEMMA BlinkStep ==
    ASSUME IInv, UNCHANGED <<image, hal, dead, ip, open, wdt_en, count, fed, passed>>,
           Blinking, age' = 0,
           frame' \in {"main", "blink_on", "blink_off"},
           frame' # "main" => left' > 0
    PROVE  /\ ip \in Nat /\ Verdict' = Verdict /\ Verdict \in Nat
           /\ left > 0 /\ ip' \in DOMAIN Program'
           /\ FrameInv' /\ WdtInv' /\ (wdt_en' \/ count' = 0)
           /\ image = "test_wdt" => InTime /\ ip = Verdict /\ ip > LastFeed + 1
           /\ age \in Nat /\ count \in Nat /\ age <= Lag
<1> USE DEF IInv
<1>1. Verdict' = Verdict /\ Verdict \in Nat /\ Verdict = LastFeed + 2
  BY Constants DEF Verdict, LastFeed
<1>2. /\ ip \in Nat \ {0} /\ ip' \in DOMAIN Program' /\ Program' = Program
      /\ \A x : After(x)' <=> After(x)
  BY Still
<1>3. ip > 1 /\ Program[ip - 1] = "signal_pass" /\ left > 0
  BY DEF FrameInv
<1>4. image = "test_wdt" => ip = Verdict /\ ip > LastFeed + 1
  BY <1>1, <1>3, WdtAfter, Constants DEF TypeOK
<1>5. FrameInv'
  <2>1. passed' <=> After("pass")'
    BY <1>2 DEF FrameInv
  <2>2. age' <= Due'
    BY Constants DEF Due
  <2> QED BY <1>2, <1>3, <2>1, <2>2 DEF FrameInv, Blinking
<1>6. WdtInv' /\ (wdt_en' \/ count' = 0)
  BY <1>2, WdtKept
<1>7. image = "test_wdt" => InTime
  BY <1>1, <1>4, Places, Constants DEF TimeInv, FrameInv, TypeOK, Blinking
<1>8. age \in Nat /\ count \in Nat /\ age <= Lag
  BY StepTime, Constants DEF Due, Stopped, Blinking
<1> QED BY <1>1, <1>2, <1>3, <1>4, <1>5, <1>6, <1>7, <1>8

LEMMA BlinkOnStep ==
    ASSUME IInv, UNCHANGED <<image, hal, dead>>, BlinkOn, Ends
    PROVE  IInv'
<1> USE DEF IInv
<1>1. /\ UNCHANGED <<wait, left, n, ip, open, wdt_en, count, fed, passed, image, hal, dead>>
      /\ age' = 0 /\ frame = "blink_on" /\ frame' = "blink_off"
      /\ pin' = [pin EXCEPT !.out = TRUE]
      /\ pulses' = IF Lit(pin) /\ ~Lit(pin') THEN pulses + 1 ELSE pulses
  BY DEF BlinkOn, SetPin, Enter, Ends, wdtVars
<1>2. Driven /\ pulses = Blinks - left /\ left > 0 /\ left \in 0 .. Blinks /\ pin \in PinRegs
  BY <1>1 DEF LedInv, FrameInv, TypeOK, LibType, Blinking
<1>3. pin' \in PinRegs /\ Driven' /\ pin'.out /\ Lit(pin')
  BY <1>1, <1>2 DEF PinRegs, Driven, Lit
<1>4. pulses' = pulses
  BY <1>1, <1>3
<1>5. /\ ip \in Nat /\ Verdict' = Verdict /\ Verdict \in Nat /\ ip' \in DOMAIN Program'
      /\ FrameInv' /\ WdtInv' /\ (wdt_en' \/ count' = 0)
      /\ image = "test_wdt" => InTime /\ ip = Verdict /\ ip > LastFeed + 1
      /\ age \in Nat /\ count \in Nat /\ age <= Lag
  BY <1>1, <1>2, BlinkStep DEF Blinking
<1>6. TypeOK'
  BY <1>1, <1>3, <1>4, <1>5 DEF TypeOK, LibType, Frames
<1>7. LedInv'
  BY <1>1, <1>2, <1>3, <1>4 DEF LedInv, Blinking
<1>8. image = "test_wdt" => InTime'
  <2>1. SUFFICES ASSUME image = "test_wdt" PROVE InTime'
    OBVIOUS
  <2>2. count <= (2 * (Blinks - left) + 2) * Lag + age
    BY <1>1, <1>5, <2>1 DEF InTime
  <2>3. (2 * (Blinks - left) + 3) * Lag = (2 * (Blinks - left) + 2) * Lag + Lag
        /\ (2 * (Blinks - left) + 2) * Lag \in Nat
    <3>1. 2 * (Blinks - left) + 2 \in Nat
          /\ 2 * (Blinks - left) + 3 = (2 * (Blinks - left) + 2) + 1
      BY <1>2, Constants
    <3> QED BY <3>1, Times, Constants
  <2>4. count' <= (2 * (Blinks - left') + 3) * Lag + age'
    BY <1>1, <1>5, <2>2, <2>3, Constants
  <2> QED BY <1>1, <1>5, <2>1, <2>4, Constants DEF InTime
<1> QED BY <1>1, <1>5, <1>6, <1>7, <1>8 DEF TimeInv

LEMMA BlinkOffStep ==
    ASSUME IInv, UNCHANGED <<image, hal, dead>>, BlinkOff, Ends
    PROVE  IInv'
<1> USE DEF IInv
<1>1. /\ UNCHANGED <<wait, n, ip, open, wdt_en, count, fed, passed, image, hal, dead>>
      /\ age' = 0 /\ frame = "blink_off"
      /\ frame' = IF left = 1 THEN "main" ELSE "blink_on"
      /\ left' = left - 1
      /\ pin' = [pin EXCEPT !.out = FALSE]
      /\ pulses' = IF Lit(pin) /\ ~Lit(pin') THEN pulses + 1 ELSE pulses
  BY DEF BlinkOff, SetPin, Enter, Ends, wdtVars
<1>2. /\ Driven /\ pin.out /\ pulses = Blinks - left /\ left > 0
      /\ left \in 0 .. Blinks /\ pin \in PinRegs
  BY <1>1 DEF LedInv, FrameInv, TypeOK, LibType, Blinking
<1>3. pin' \in PinRegs /\ Driven' /\ ~pin'.out /\ ~Lit(pin') /\ Lit(pin)
  BY <1>1, <1>2 DEF PinRegs, Driven, Lit
<1>4. /\ pulses' = pulses + 1 /\ pulses' = Blinks - left' /\ left' \in 0 .. Blinks
      /\ frame' \in {"main", "blink_on"} /\ (frame' = "main" <=> left' = 0)
      /\ pulses' \in 0 .. Blinks
  BY <1>1, <1>2, <1>3, Constants
<1>5. /\ ip \in Nat /\ Verdict' = Verdict /\ Verdict \in Nat /\ ip' \in DOMAIN Program'
      /\ FrameInv' /\ WdtInv' /\ (wdt_en' \/ count' = 0)
      /\ image = "test_wdt" => InTime /\ ip = Verdict /\ ip > LastFeed + 1
      /\ age \in Nat /\ count \in Nat /\ age <= Lag
  <2>1. frame' # "main" => left' > 0
    BY <1>4
  <2> QED BY <1>1, <1>4, <2>1, BlinkStep DEF Blinking
<1>6. TypeOK'
  BY <1>1, <1>3, <1>4, <1>5 DEF TypeOK, LibType, Frames
<1>7. LedInv'
  BY <1>1, <1>3, <1>4, Constants DEF LedInv, Blinking
<1>8. image = "test_wdt" => InTime'
  <2>1. SUFFICES ASSUME image = "test_wdt" PROVE InTime'
    OBVIOUS
  <2>2. count <= (2 * (Blinks - left) + 3) * Lag + age
    BY <1>1, <1>5, <2>1 DEF InTime
  <2>3. (2 * (Blinks - left') + 2) * Lag = (2 * (Blinks - left) + 3) * Lag + Lag
        /\ (2 * (Blinks - left) + 3) * Lag \in Nat
    <3>1. 2 * (Blinks - left) + 3 \in Nat
          /\ 2 * (Blinks - left') + 2 = (2 * (Blinks - left) + 3) + 1
      BY <1>1, <1>2, Constants
    <3> QED BY <3>1, Times, Constants
  <2>4. count' <= (2 * (Blinks - left') + 2) * Lag + age'
    BY <1>1, <1>5, <2>2, <2>3, Constants
  <2>5. frame' = "main" => count' <= (2 * Blinks + 2) * Lag + age'
    <3>1. left' = 0 => Blinks - left' = Blinks
      BY Constants
    <3> QED BY <1>4, <2>4, <3>1
  <2> QED BY <1>1, <1>4, <1>5, <2>1, <2>4, <2>5, Constants DEF InTime
<1> QED BY <1>1, <1>5, <1>6, <1>7, <1>8 DEF TimeInv

\* signal_fail(), park_alive() and the heartbeat of the other binaries.
LEMMA EndStep ==
    ASSUME IInv, UNCHANGED <<image, hal, dead>>, Fail \/ Park \/ (Heartbeat /\ Ends)
    PROVE  IInv'
<1> USE DEF IInv
<1>1. /\ UNCHANGED <<wait, left, ip, open, wdt_en, count, fed, passed, image, hal, dead>>
      /\ age' = 0 /\ Program' = Program
  BY SameProgram DEF Fail, Park, Heartbeat, SignalFail, ParkAlive, Enter, Ends, wdtVars, ledVars
<1>2. \/ frame' = "failed" /\ frame = "main" /\ Program[ip] = "signal_fail"
      \/ frame' = "alive" /\ frame \in {"main", "alive"} /\ Program[ip] = "park_alive"
  BY DEF Fail, Park, Heartbeat, SignalFail, ParkAlive, Enter, FrameInv
<1>3. /\ image \in Others /\ image # "test_wdt" /\ ip \in Nat /\ ip' \in DOMAIN Program'
      /\ Program[ip] = "signal_fail" => ~After("signal_pass")
      /\ \A x : After(x)' <=> After(x)
  <2>1. image # "test_wdt"
    BY <1>2, WdtCalls DEF TypeOK
  <2>2. image \in Others
    BY <2>1, Constants DEF TypeOK
  <2> QED BY <1>1, <2>1, <2>2, OtherPlaces, Still DEF TypeOK
<1>4. /\ n' \in 0 .. Numbers - 1 /\ pulses' = pulses
      /\ frame' = "failed" => pin' = [pin EXCEPT !.mux = "gpio", !.sel = "out_reg",
                                                 !.enable = TRUE, !.out = TRUE]
      /\ frame' = "alive" => pin' = pin
  <2>1. CASE Fail
    BY <2>1 DEF Fail, SignalFail, Enter, InitLed, TypeOK, LibType
  <2>2. CASE Park
    BY <2>2, Constants DEF Park, ParkAlive, Enter, ledVars
  <2>3. CASE Heartbeat
    <3>1. n \in Nat /\ (n + 1) % Numbers \in 0 .. Numbers - 1
      BY Constants DEF TypeOK, LibType
    <3> QED BY <2>3, <3>1 DEF Heartbeat, Enter, ledVars
  <2> QED BY <2>1, <2>2, <2>3
<1>5. pin' \in PinRegs /\ (frame' = "failed" => Lit(pin'))
  BY <1>2, <1>4 DEF TypeOK, LibType, PinRegs, Lit
<1>6. TypeOK'
  BY <1>1, <1>2, <1>4, <1>5 DEF TypeOK, LibType, Frames
<1>7. FrameInv'
  <2>1. Stopped' \/ age' <= Due'
    BY <1>1, <1>2, Constants DEF Stopped, Due
  <2>2. passed' <=> After("pass")'
    BY <1>1, <1>3 DEF FrameInv
  <2> QED BY <1>1, <1>2, <2>1, <2>2 DEF FrameInv, Blinking
<1>8. LedInv'
  <2>1. ~Blinking
    BY <1>2 DEF Blinking
  <2>2. CASE frame' = "alive"
    BY <1>3, <1>4, <2>1, <2>2, LedKept
  <2>3. CASE frame' = "failed"
    BY <1>2, <1>3, <1>5, <2>3 DEF LedInv
  <2> QED BY <1>2, <2>2, <2>3
<1>9. WdtInv' /\ TimeInv'
  BY <1>1, <1>3, WdtAlone
<1> QED BY <1>6, <1>7, <1>8, <1>9

\* Before the PASS, the watchdog is far from its time-out.
LEMMA QuietBeforePass ==
    ASSUME IInv, image = "test_wdt", ~passed, ~Stopped, age < Due
    PROVE  count + 1 < Timeout
<1> USE DEF IInv
<1>1. age \in Nat /\ count \in Nat /\ wait \in Nat
  BY StepTime DEF TypeOK, LibType
<1>2. ip \in 1 .. LastFeed + 2 /\ ip % 4 \in 0 .. 3 /\ Verdict = LastFeed + 2
  <2>1. ip \in 1 .. LastFeed + 3 /\ ip % 4 \in 0 .. 3 /\ Verdict = LastFeed + 2
    BY Places DEF TypeOK
  <2>2. ip # LastFeed + 3
    BY Places DEF FrameInv, TypeOK
  <2> QED BY <2>1, <2>2, Constants
<1>3. InTime
  BY DEF TimeInv, Stopped
<1>4. /\ frame \in {"main", "blink_on", "blink_off", "delay"}
      /\ frame = "delay" => ip \in 5 .. LastFeed /\ ip % 4 = 2 /\ wait = FeedDelay
      /\ frame \in {"blink_on", "blink_off"} => ip = Verdict
  <2>1. frame \in Frames /\ frame \notin {"failed", "halted"}
    BY DEF TypeOK, LibType, Stopped
  <2>2. frame # "alive"
    BY WdtCalls DEF FrameInv, TypeOK
  <2>3. frame = "delay" => ip \in 5 .. LastFeed /\ ip % 4 = 2 /\ wait = FeedDelay
    <3>1. ip # LastFeed + 3
      BY <1>2, Constants
    <3> QED BY <3>1 DEF FrameInv
  <2>4. frame \in {"blink_on", "blink_off"} => ip = Verdict
    BY <1>2, WdtAfter DEF FrameInv, TypeOK, Blinking
  <2> QED BY <2>1, <2>2, <2>3, <2>4 DEF Frames
<1>5. frame = "delay" => age < Lag + FeedDelay
  BY <1>4 DEF Due
<1>6. frame # "delay" => age < Lag
  BY <1>4, Constants DEF Due
<1>7. CASE ip <= LastFeed + 1
  BY <1>1, <1>2, <1>3, <1>4, <1>5, <1>6, <1>7, Constants DEF InTime
<1>8. CASE ip = LastFeed + 2
  <2>1. left \in 0 .. Blinks /\ (frame \in {"blink_on", "blink_off"} => left > 0)
    BY DEF TypeOK, LibType, FrameInv, Blinking
  <2> DEFINE a == 2 * (Blinks - left) + 2
  <2>2. /\ a \in Nat /\ a + 1 \in Nat /\ 2 * Blinks + 2 \in Nat /\ a + 1 = 2 * (Blinks - left) + 3
        /\ a <= 2 * Blinks + 2 /\ (left > 0 => a + 1 <= 2 * Blinks + 2)
    BY <2>1, Constants
  <2>3. count <= (2 * Blinks + 2) * Lag + age
    <3>1. CASE frame = "main"
      BY <1>2, <1>3, <1>8, <3>1 DEF InTime
    <3>2. CASE frame = "blink_on"
      <4>1. a * Lag <= (2 * Blinks + 2) * Lag /\ a * Lag \in Nat
        BY <2>2, Times, Constants
      <4>2. count <= a * Lag + age
        BY <1>2, <1>3, <1>8, <3>2 DEF InTime
      <4>3. (2 * Blinks + 2) * Lag \in Nat
        BY <2>2, Times, Constants
      <4> HIDE DEF a
      <4> QED BY <1>1, <4>1, <4>2, <4>3
    <3>3. CASE frame = "blink_off"
      <4>1. (a + 1) * Lag <= (2 * Blinks + 2) * Lag /\ (a + 1) * Lag \in Nat
        BY <2>1, <2>2, <3>3, Times, Constants
      <4>2. count <= (a + 1) * Lag + age
        BY <1>2, <1>3, <1>8, <2>2, <3>3 DEF InTime
      <4>3. (2 * Blinks + 2) * Lag \in Nat
        BY <2>2, Times, Constants
      <4> HIDE DEF a
      <4> QED BY <1>1, <4>1, <4>2, <4>3
    <3> QED BY <1>4, <1>8, <3>1, <3>2, <3>3, Constants
  <2>4. age < Lag
    BY <1>4, <1>6, <1>8, Constants
  <2>5. (2 * Blinks + 3) * Lag = (2 * Blinks + 2) * Lag + Lag /\ (2 * Blinks + 2) * Lag \in Nat
    <3>1. 2 * Blinks + 2 \in Nat /\ 2 * Blinks + 3 = (2 * Blinks + 2) + 1
      BY Constants
    <3> QED BY <3>1, Times, Constants
  <2>6. (2 * Blinks + 3) * Lag < Timeout
    BY WdtAssumption
  <2> QED BY <1>1, <2>3, <2>4, <2>5, <2>6, Constants
<1> QED BY <1>2, <1>7, <1>8, Constants

LEMMA TickStep ==
    ASSUME IInv, Tick
    PROVE  IInv'
<1> USE DEF IInv
<1>1. /\ UNCHANGED <<frame, wait, left, n, pin, pulses, image, hal, dead, ip, open, wdt_en, fed, passed>>
      /\ ~Bites /\ age' \in {age, age + 1} /\ (~Stopped => age < Due /\ age' = age + 1)
      /\ count' = IF wdt_en /\ ~dead THEN count + 1 ELSE count
  BY DEF Tick, TimePasses, ledVars, Stopped
<1>2. /\ Program' = Program /\ Verdict' = Verdict /\ age \in Nat /\ count \in 0 .. Timeout - 1
      /\ \A x : After(x)' <=> After(x)
  BY <1>1, Still DEF Verdict, LastFeed, TypeOK, LibType
<1>3. count' \in {count, count + 1} /\ count' \in 0 .. Timeout - 1
  BY <1>1, <1>2, Constants DEF Bites
<1>4. TypeOK'
  BY <1>1, <1>2, <1>3 DEF TypeOK, LibType
<1>5. FrameInv'
  <2>1. Stopped' \/ age' <= Due'
    <3>1. wait \in Nat
      BY DEF TypeOK, LibType
    <3> QED BY <1>1, <1>2, <3>1, Constants DEF Stopped, Due
  <2>2. passed' <=> After("pass")'
    BY <1>1, <1>2 DEF FrameInv
  <2> QED BY <1>1, <1>2, <2>1, <2>2 DEF FrameInv, Blinking
<1>6. LedInv'
  BY <1>1, <1>2 DEF LedInv, Driven, Blinking
<1>7. WdtInv'
  BY <1>1, Zenon DEF WdtInv
<1>8. wdt_en' \/ count' = 0
  BY <1>1, Zenon DEF TimeInv
<1>9. (image' = "test_wdt" /\ ~passed' /\ frame' # "halted") => InTime'
  <2>1. SUFFICES ASSUME image = "test_wdt", ~passed, frame # "halted" PROVE InTime'
    BY <1>1
  <2>2. age' = age + 1 /\ InTime
    <3>1. frame # "failed"
      BY <2>1, WdtCalls DEF FrameInv, TypeOK
    <3> QED BY <1>1, <2>1, <3>1 DEF Stopped, TimeInv
  <2>3. ASSUME NEW x \in Int, count <= x + age PROVE count' <= x + age'
    BY <1>2, <1>3, <2>2, <2>3
  <2>4. ASSUME count <= age PROVE count' <= age'
    BY <1>2, <1>3, <2>2, <2>4
  <2>5. left \in Int
    BY DEF TypeOK, LibType
  <2> DEFINE a == (2 * (Blinks - left) + 2) * Lag
             b == (2 * (Blinks - left) + 3) * Lag
             c == (2 * Blinks + 2) * Lag
  <2>6. a \in Int /\ b \in Int /\ c \in Int
    BY <2>5, Constants
  <2>7. /\ Lag \in Int /\ 2 * Lag \in Int
        /\ FeedDelay + 3 * Lag \in Int /\ FeedDelay + 4 * Lag \in Int
    BY Constants
  <2>8. /\ ip' = ip /\ frame' = frame /\ Verdict' = Verdict
        /\ (2 * (Blinks - left') + 2) * Lag = a /\ (2 * (Blinks - left') + 3) * Lag = b
    BY <1>1, <1>2
  <2>9. /\ ip' = Verdict' =>
              /\ frame' = "blink_on"  => count' <= (2 * (Blinks - left') + 2) * Lag + age'
              /\ frame' = "blink_off" => count' <= (2 * (Blinks - left') + 3) * Lag + age'
              /\ frame' = "main"      => count' <= (2 * Blinks + 2) * Lag + age'
    <3>1. ip = Verdict =>
              /\ frame = "blink_on"  => count <= a + age
              /\ frame = "blink_off" => count <= b + age
              /\ frame = "main"      => count <= c + age
      BY <2>2 DEF InTime
    <3>2. /\ count <= a + age => count' <= a + age'
          /\ count <= b + age => count' <= b + age'
          /\ count <= c + age => count' <= c + age'
      <4> HIDE DEF a, b, c
      <4> QED BY <2>3, <2>6
    <3> HIDE DEF a, b
    <3> QED BY <2>8, <3>1, <3>2
  <2> HIDE DEF a, b, c
  <2> QED BY <2>2, <2>3, <2>4, <2>7, <2>8, <2>9 DEF InTime
<1> QED BY <1>4, <1>5, <1>6, <1>7, <1>8, <1>9 DEF TimeInv

LEMMA BiteStep ==
    ASSUME IInv, Bite
    PROVE  IInv'
<1>1. Fresh'
  BY DEF Bite, LibReset, IInv, TypeOK, Fresh
<1> QED BY <1>1, FreshInv, PTL

LEMMA StutterStep ==
    ASSUME IInv, UNCHANGED vars
    PROVE  IInv'
<1>1. /\ UNCHANGED <<frame, age, wait, left, n, pin, pulses, image, hal, dead, ip>>
      /\ UNCHANGED <<open, wdt_en, count, fed, passed>> /\ Program' = Program
  BY SameProgram DEF vars, libVars, cpuVars, ledVars, wdtVars
<1>2. TypeOK'
  BY <1>1 DEF IInv, TypeOK, LibType
<1>3. FrameInv' /\ LedInv'
  <2>1. \A x : After(x)' <=> After(x)
    BY <1>1, Still
  <2> QED BY <1>1, <2>1 DEF IInv, FrameInv, Stopped, Due, LedInv, Driven, Blinking
<1>4. WdtInv'
  BY <1>1, Zenon DEF IInv, WdtInv
<1>5. TimeInv'
  BY <1>1, Zenon DEF IInv, TimeInv, InTime, Verdict
<1> QED BY <1>2, <1>3, <1>4, <1>5 DEF IInv

\* The invariant of a fed watchdog: where each binary is, what the LED shows, and how
\* far the count can have come at every place of the program.
THEOREM InvCorrect == Spec => []IInv
<1>1. Init => IInv
  <2>1. Init => Fresh
    BY DEF Init, LibInit, Fresh
  <2> QED BY <2>1, FreshInv
<1>2. IInv /\ [Next]_vars => IInv'
  <2> SUFFICES ASSUME IInv, [Next]_vars PROVE IInv'
    OBVIOUS
  <2>1. CASE Cpu
    <3>1. UNCHANGED <<image, hal, dead>>
      BY <2>1 DEF Cpu
    <3>2. CASE Check
      BY <3>1, <3>2, CheckStep
    <3>3. CASE Unlock \/ Lock \/ Enable \/ Feed
      BY <3>1, <3>3, AccessStep
    <3>4. CASE PrintPass
      BY <3>1, <3>4, PrintStep
    <3>5. CASE Body
      BY <3>1, <3>5, BodyStep
    <3>6. CASE FeedWait
      BY <3>1, <3>6, FeedWaitStep
    <3>7. CASE Pass
      BY <3>1, <3>7, SignalPassStep
    <3>8. CASE Fail \/ Park
      BY <3>1, <3>8, EndStep
    <3>9. CASE Starve
      BY <3>1, <3>9, StarveStep
    <3>10. CASE Library
      BY <3>1, <3>10, BlinkOnStep, BlinkOffStep, DelayReturnsStep, EndStep DEF Library, LibReturns
    <3> QED BY <2>1, <3>2, <3>3, <3>4, <3>5, <3>6, <3>7, <3>8, <3>9, <3>10 DEF Cpu
  <2>2. CASE Tick
    BY <2>2, TickStep
  <2>3. CASE Bite
    BY <2>3, BiteStep
  <2>4. CASE UNCHANGED vars
    BY <2>4, StutterStep
  <2> QED BY <2>1, <2>2, <2>3, <2>4 DEF Next
<1> QED BY <1>1, <1>2, PTL DEF Spec

-----------------------------------------------------------------------------
(***************************************************************************)
(* What follows.                                                           *)
(***************************************************************************)

\* A test that is fed every FeedDelay on a CPU that WdtAssumption calls quick enough is
\* never reset before its PASS, however many feeds and blinks it makes.
THEOREM NoResetBeforePass == Spec => NoEarlyReset
<1>1. IInv /\ [Next]_vars =>
          [Bite => passed \/ frame = "halted" \/ (image # "test_wdt" /\ hal = "on")]_vars
  <2> SUFFICES ASSUME IInv, Bite
               PROVE  passed \/ frame = "halted" \/ (image # "test_wdt" /\ hal = "on")
    OBVIOUS
  <2>1. wdt_en /\ count + 1 = Timeout /\ (Stopped \/ age < Due)
    BY DEF Bite, Bites
  <2>2. CASE image = "test_wdt"
    <3>1. frame # "failed"
      BY <2>2, WdtCalls DEF IInv, FrameInv, TypeOK
    <3> QED BY <2>1, <2>2, <3>1, QuietBeforePass, Constants DEF Stopped, IInv, TypeOK
  <2>3. CASE image # "test_wdt"
    BY <2>1, <2>3, Zenon DEF IInv, WdtInv
  <2> QED BY <2>2, <2>3
<1> QED BY <1>1, InvCorrect, PTL DEF Spec, NoEarlyReset

\* PASS is only printed after every feed reached an enabled watchdog that was off when
\* main() began.
THEOREM PassIsFed == Spec => []PassMeansFed
<1>1. IInv => PassMeansFed
  <2> SUFFICES ASSUME IInv, image = "test_wdt", passed
               PROVE  hal = "off" /\ wdt_en /\ fed = Feeds
    BY DEF PassMeansFed
  <2>2. ip = LastFeed + 3
    BY Places DEF IInv, FrameInv, TypeOK
  <2>3. ip >= 4 /\ ~(ip < 4) /\ ip # 1 /\ (ip - 4) \div 4 = Feeds
    BY <2>2, Constants
  <2>4. wdt_en /\ hal # "on" /\ fed = (ip - 4) \div 4
    BY <2>3, Zenon DEF IInv, WdtInv
  <2> QED BY <2>3, <2>4 DEF IInv, TypeOK
<1> QED BY <1>1, InvCorrect, PTL

\* The LED shows what a test signals, whatever the body of the test did to its pin and
\* for any number of blinks.
THEOREM LedShowsSignal == Spec => []LedShows
<1>1. IInv => LedShows
  BY DEF IInv, LedInv, LedShows
<1> QED BY <1>1, InvCorrect, PTL
=============================================================================
