--------------------------- MODULE PsramFill_proofs ---------------------------
(***************************************************************************)
(* Proofs about PsramFill for fills, probes and caches of every size that  *)
(* FillAssumption allows, and every order of evictions.                    *)
(***************************************************************************)
EXTENDS PsramFill, FiniteSetTheorems, TLAPS

-----------------------------------------------------------------------------
(***************************************************************************)
(* The memory: what the accesses do to the cache and to the chip.          *)
(***************************************************************************)

LEMMA SizeFacts ==
    /\ Words \in Nat /\ Words > 0 /\ Half \in Nat /\ Words = 2 * Half
    /\ Probed \in Nat /\ Probed > 0 /\ Probed <= CacheLines
    /\ CacheLines \in Nat /\ CacheLines < Half
BY FillAssumption DEF Half

\* Every cell is a word's own, or lies in the lower half, where cells are words.
LEMMA CellFacts ==
    \A a \in Addresses : /\ Cell(a) \in Addresses
                         /\ a < Half => Cell(a) = a
                         /\ fault # "stuck_address" => Cell(a) = a
BY SizeFacts DEF Cell, Addresses

LEMMA CacheFinite == ASSUME MemoryTypeOK PROVE IsFiniteSet(DOMAIN cache)
<1>1. IsFiniteSet(Addresses)
  BY FS_Interval, SizeFacts DEF Addresses
<1> QED BY <1>1, FS_Subset DEF MemoryTypeOK

\* A line brought in or overwritten: one line more at most, and there is room.
LEMMA LineFacts ==
    ASSUME MemoryTypeOK, NEW a \in Addresses, NEW v \in Values, Room(a)
    PROVE  /\ Line(a, v) \in [DOMAIN cache \cup {a} -> Values]
           /\ DOMAIN Line(a, v) = DOMAIN cache \cup {a}
           /\ Line(a, v)[a] = v
           /\ \A b \in DOMAIN cache : b # a => Line(a, v)[b] = cache[b]
           /\ Cardinality(DOMAIN Line(a, v)) <= CacheLines
<1>1. DOMAIN Line(a, v) = DOMAIN cache \cup {a}
  BY DEF Line
<1>2. Cardinality(DOMAIN cache \cup {a}) <= CacheLines
  <2>1. CASE a \in DOMAIN cache
    <3>1. DOMAIN cache \cup {a} = DOMAIN cache
      BY <2>1
    <3> QED BY <3>1 DEF MemoryTypeOK
  <2>2. CASE a \notin DOMAIN cache
    <3>1. Cardinality(DOMAIN cache \cup {a}) = Cardinality(DOMAIN cache) + 1
      BY <2>2, CacheFinite, FS_AddElement
    <3>2. Cardinality(DOMAIN cache) \in Nat /\ Cardinality(DOMAIN cache) < CacheLines
      BY <2>2, CacheFinite, FS_CardinalityType DEF Room
    <3> QED BY <3>1, <3>2, SizeFacts
  <2> QED BY <2>1, <2>2
<1>3. Line(a, v) \in [DOMAIN cache \cup {a} -> Values]
  BY DEF Line, MemoryTypeOK
<1> QED BY <1>1, <1>2, <1>3 DEF Line

LEMMA ValueFacts == /\ \A a \in Addresses : Prbs(a) \in Values /\ Prbs(a) > 0
                    /\ {Unwritten, Scribbled, CafeBabe, DeadBeef} \subseteq Values
                    /\ \A a \in Addresses : Prbs(a) \notin {Unwritten, Scribbled, CafeBabe, DeadBeef}
BY SizeFacts DEF Prbs, Values, Unwritten, Scribbled, CafeBabe, DeadBeef, Addresses

LEMMA ChipWriteType ==
    ASSUME MemoryTypeOK, NEW a \in Addresses, NEW v \in Values, ChipWrite(a, v)
    PROVE  mem' \in [Addresses -> Values]
BY CellFacts DEF ChipWrite, MemoryTypeOK

\* What a miss reads.
Behind(a) == IF fault \in {"dead_controller", "dead_chip"} THEN Unwritten ELSE mem[Cell(a)]

LEMMA CachedReadFacts ==
    ASSUME MemoryTypeOK, NEW a \in Addresses, NEW v \in Values, CachedRead(a, v)
    PROVE  /\ MemoryTypeOK'
           /\ DOMAIN cache' = DOMAIN cache \cup {a}
           /\ cache'[a] = v
           /\ v = IF a \in DOMAIN cache THEN cache[a] ELSE Behind(a)
           /\ \A b \in DOMAIN cache : cache'[b] = cache[b]
           /\ UNCHANGED <<dirty, mem>>
<1>1. Room(a) /\ cache' = Line(a, v) /\ UNCHANGED <<dirty, mem>>
  BY DEF CachedRead
<1>2. v = IF a \in DOMAIN cache THEN cache[a] ELSE Behind(a)
  BY DEF CachedRead, Behind, ChipRead
<1>3. /\ cache' \in [DOMAIN cache \cup {a} -> Values] /\ DOMAIN cache' = DOMAIN cache \cup {a}
      /\ cache'[a] = v /\ \A b \in DOMAIN cache : b # a => cache'[b] = cache[b]
      /\ Cardinality(DOMAIN cache') <= CacheLines
  BY <1>1, LineFacts
<1>4. MemoryTypeOK'
  BY <1>1, <1>3 DEF MemoryTypeOK
<1> QED BY <1>1, <1>2, <1>3, <1>4

LEMMA CachedWriteFacts ==
    ASSUME MemoryTypeOK, NEW a \in Addresses, NEW v \in Values, CachedWrite(a, v)
    PROVE  /\ MemoryTypeOK'
           /\ DOMAIN cache' = DOMAIN cache \cup {a}
           /\ cache'[a] = v
           /\ \A b \in DOMAIN cache : b # a => cache'[b] = cache[b]
           /\ dirty' = dirty \cup {a} /\ UNCHANGED mem
<1>1. Room(a) /\ cache' = Line(a, v) /\ dirty' = dirty \cup {a} /\ UNCHANGED mem
  BY DEF CachedWrite
<1>2. /\ cache' \in [DOMAIN cache \cup {a} -> Values] /\ DOMAIN cache' = DOMAIN cache \cup {a}
      /\ cache'[a] = v /\ \A b \in DOMAIN cache : b # a => cache'[b] = cache[b]
      /\ Cardinality(DOMAIN cache') <= CacheLines
  BY <1>1, LineFacts
<1>3. MemoryTypeOK'
  BY <1>1, <1>2 DEF MemoryTypeOK
<1> QED BY <1>1, <1>2, <1>3

LEMMA WordWriteType ==
    ASSUME MemoryTypeOK, NEW p, NEW a \in Addresses, NEW v \in Values, WordWrite(p, a, v)
    PROVE  MemoryTypeOK'
BY CachedWriteFacts, ChipWriteType DEF WordWrite, MemoryTypeOK

LEMMA WordReadType ==
    ASSUME MemoryTypeOK, NEW p, NEW a \in Addresses, NEW v \in Values, WordRead(p, a, v)
    PROVE  MemoryTypeOK'
BY CachedReadFacts DEF WordRead, MemoryTypeOK

\* An eviction takes one line away, and writes it back when it is dirty and the
\* controller works.
LEMMA EvictFacts ==
    ASSUME MemoryTypeOK, Evict
    PROVE  \E a \in DOMAIN cache :
              /\ MemoryTypeOK'
              /\ DOMAIN cache' = DOMAIN cache \ {a}
              /\ \A b \in DOMAIN cache' : cache'[b] = cache[b]
              /\ dirty' = dirty \ {a}
              /\ mem' = IF a \in dirty /\ fault \notin {"dead_controller", "dead_chip"}
                        THEN [mem EXCEPT ![Cell(a)] = cache[a]] ELSE mem
              /\ UNCHANGED <<cpuVars, fault>>
<1>1. PICK a \in DOMAIN cache :
         /\ cache' = Restrict(cache, DOMAIN cache \ {a})
         /\ dirty' = dirty \ {a}
         /\ IF a \in dirty /\ fault # "dead_controller" THEN ChipWrite(a, cache[a])
            ELSE UNCHANGED mem
         /\ UNCHANGED <<cpuVars, fault>>
  BY DEF Evict
<1>2. cache' = [b \in DOMAIN cache \ {a} |-> cache[b]]
  BY <1>1 DEF Restrict
<1>3. a \in Addresses /\ cache[a] \in Values
  BY DEF MemoryTypeOK
<1>4. mem' \in [Addresses -> Values]
  BY <1>1, <1>3, ChipWriteType DEF MemoryTypeOK
<1>5. Cardinality(DOMAIN cache') <= CacheLines
  <2>1. DOMAIN cache' \subseteq DOMAIN cache
    BY <1>2
  <2>2. /\ Cardinality(DOMAIN cache') <= Cardinality(DOMAIN cache)
        /\ Cardinality(DOMAIN cache') \in Nat /\ Cardinality(DOMAIN cache) \in Nat
    BY <2>1, CacheFinite, FS_Subset, FS_CardinalityType
  <2> QED BY <2>2, SizeFacts DEF MemoryTypeOK
<1>6. MemoryTypeOK'
  BY <1>1, <1>2, <1>4, <1>5 DEF MemoryTypeOK
<1>7. mem' = IF a \in dirty /\ fault \notin {"dead_controller", "dead_chip"}
             THEN [mem EXCEPT ![Cell(a)] = cache[a]] ELSE mem
  BY <1>1 DEF ChipWrite
<1> QED BY <1>1, <1>2, <1>6, <1>7

-----------------------------------------------------------------------------
(***************************************************************************)
(* Held words stay held, doomed words stay doomed.                         *)
(***************************************************************************)

LEMMA HoldsAfterRead ==
    ASSUME MemoryTypeOK, NEW a \in Addresses, NEW v \in Values, CachedRead(a, v),
           NEW b \in Addresses, NEW w, Holds(b, w),
           fault \in {"none", "stuck_address"}, UNCHANGED fault
    PROVE  Holds(b, w)'
<1>1. /\ DOMAIN cache' = DOMAIN cache \cup {a} /\ cache'[a] = v
      /\ v = IF a \in DOMAIN cache THEN cache[a] ELSE Behind(a)
      /\ \A c \in DOMAIN cache : cache'[c] = cache[c]
      /\ UNCHANGED <<dirty, mem>> /\ dirty \subseteq DOMAIN cache
  BY CachedReadFacts DEF MemoryTypeOK
<1>2. b \in DOMAIN cache' => cache'[b] = w
  BY <1>1 DEF Holds, Behind
<1>3. (Cell(b) = Cell(b)') /\ (b \notin dirty' => mem'[Cell(b)] = w)
  BY <1>1 DEF Holds, Cell
<1> QED BY <1>2, <1>3 DEF Holds

LEMMA HoldsAfterWrite ==
    ASSUME MemoryTypeOK, NEW a \in Addresses, NEW v \in Values, CachedWrite(a, v), fault' = fault
    PROVE  /\ Holds(a, v)'
           /\ \A b \in Addresses, w \in Values : (b # a /\ Holds(b, w)) => Holds(b, w)'
<1>1. /\ DOMAIN cache' = DOMAIN cache \cup {a} /\ cache'[a] = v
      /\ \A c \in DOMAIN cache : c # a => cache'[c] = cache[c]
      /\ dirty' = dirty \cup {a} /\ mem' = mem
  BY CachedWriteFacts
<1>2. \A b : Cell(b)' = Cell(b)
  BY DEF Cell
<1>3. Holds(a, v)'
  BY <1>1, <1>2 DEF Holds
<1>4. ASSUME NEW b \in Addresses, NEW w \in Values, b # a, Holds(b, w)
      PROVE  Holds(b, w)'
  BY <1>1, <1>2, <1>4 DEF Holds
<1> QED BY <1>3, <1>4

LEMMA HoldsAfterEvict ==
    ASSUME MemoryTypeOK, Evict, NEW b \in Addresses, NEW w, Holds(b, w),
           fault \in {"none", "stuck_address"},
           \A c \in dirty : c # b => Cell(c) # Cell(b)
    PROVE  Holds(b, w)'
<1>1. PICK a \in DOMAIN cache :
         /\ DOMAIN cache' = DOMAIN cache \ {a}
         /\ \A c \in DOMAIN cache' : cache'[c] = cache[c]
         /\ dirty' = dirty \ {a}
         /\ mem' = IF a \in dirty /\ fault \notin {"dead_controller", "dead_chip"}
                   THEN [mem EXCEPT ![Cell(a)] = cache[a]] ELSE mem
         /\ UNCHANGED fault
  BY EvictFacts
<1>2. Cell(b)' = Cell(b) /\ Cell(b) \in Addresses
  BY <1>1, CellFacts DEF Cell
<1>3. b \in DOMAIN cache' => cache'[b] = w
  BY <1>1 DEF Holds
<1>4. b \notin dirty' => mem'[Cell(b)] = w
  BY <1>1, <1>2 DEF Holds, MemoryTypeOK
<1> QED BY <1>2, <1>3, <1>4 DEF Holds

LEMMA DoomedAfterRead ==
    ASSUME MemoryTypeOK, NEW a \in Addresses, NEW v \in Values, CachedRead(a, v),
           NEW b \in Addresses, Doomed(b), fault \in Faults \ {"none"}, UNCHANGED fault
    PROVE  Doomed(b)' /\ (a = b => v # Prbs(b))
<1>1. /\ DOMAIN cache' = DOMAIN cache \cup {a} /\ cache'[a] = v
      /\ v = IF a \in DOMAIN cache THEN cache[a] ELSE Behind(a)
      /\ \A c \in DOMAIN cache : cache'[c] = cache[c]
      /\ UNCHANGED <<dirty, mem>>
  BY CachedReadFacts
<1>2. Behind(b) # Prbs(b)
  BY ValueFacts DEF Doomed, Behind, Faults
<1>3. a = b => v # Prbs(b)
  BY <1>1, <1>2 DEF Doomed
<1>4. b \in DOMAIN cache' => cache'[b] # Prbs(b)
  BY <1>1, <1>3 DEF Doomed
<1>5. \A c : Cell(c)' = Cell(c)
  BY DEF Cell
<1> QED BY <1>1, <1>3, <1>4, <1>5 DEF Doomed, Prbs

LEMMA DoomedAfterEvict ==
    ASSUME MemoryTypeOK, Evict, NEW b \in Addresses, Doomed(b), fault \in Faults \ {"none"}
    PROVE  Doomed(b)'
<1>1. PICK a \in DOMAIN cache :
         /\ DOMAIN cache' = DOMAIN cache \ {a}
         /\ \A c \in DOMAIN cache' : cache'[c] = cache[c]
         /\ dirty' = dirty \ {a}
         /\ mem' = IF a \in dirty /\ fault \notin {"dead_controller", "dead_chip"}
                   THEN [mem EXCEPT ![Cell(a)] = cache[a]] ELSE mem
         /\ UNCHANGED fault
  BY EvictFacts
<1>2. \A c : Cell(c)' = Cell(c)
  BY <1>1 DEF Cell
<1>3. b \in DOMAIN cache' => cache'[b] # Prbs(b)
  BY <1>1 DEF Doomed
<1>4. fault = "stuck_address" => mem'[Cell(b)] # Prbs(b)
  BY <1>1, CellFacts DEF Doomed, MemoryTypeOK
<1> QED BY <1>1, <1>2, <1>3, <1>4 DEF Doomed, Prbs

\* The pigeonhole: the cache holds fewer words than half the fill, so whatever
\* the fault is, a word is in it with neither its own line nor its twin's.
LEMMA SomeDoomed ==
    (MemoryTypeOK /\ fault \in Faults \ {"none"}) => \E a \in 0 .. Words - 1 : Doomed(a)
<1> SUFFICES ASSUME MemoryTypeOK, fault \in Faults \ {"none"}
             PROVE  \E a \in 0 .. Words - 1 : Doomed(a)
  OBVIOUS
<1> DEFINE Cells == {Cell(a) : a \in DOMAIN cache}
           f     == [a \in DOMAIN cache |-> Cell(a)]
           Lower == 0 .. Half - 1
<1>1. IsFiniteSet(Cells) /\ Cardinality(Cells) <= CacheLines
  <2>1. f \in Surjection(DOMAIN cache, Cells)
    BY DEF Surjection
  <2>2. /\ IsFiniteSet(Cells) /\ Cardinality(Cells) <= Cardinality(DOMAIN cache)
        /\ Cardinality(Cells) \in Nat /\ Cardinality(DOMAIN cache) \in Nat
    BY <2>1, CacheFinite, FS_Surjection, FS_CardinalityType
  <2> QED BY <2>2, SizeFacts DEF MemoryTypeOK
<1>2. Cardinality(Lower) = Half
  BY FS_Interval, SizeFacts
<1>3. PICK c \in Lower : c \notin Cells
  <2> SUFFICES ASSUME Lower \subseteq Cells PROVE FALSE
    OBVIOUS
  <2>1. Cardinality(Lower) <= Cardinality(Cells) /\ Cardinality(Cells) \in Nat
    BY <1>1, FS_Subset, FS_CardinalityType
  <2> QED BY <1>1, <1>2, <2>1, SizeFacts
<1>4. c \in Addresses /\ c + Half \in Addresses /\ c # c + Half /\ Cell(c) = c
  BY SizeFacts DEF Addresses, Cell
<1>5. CASE fault # "stuck_address"
  <2>1. c \notin DOMAIN cache
    BY <1>3, <1>4
  <2> QED BY <1>4, <1>5, <2>1 DEF Doomed, Addresses
<1>6. CASE fault = "stuck_address"
  <2>1. Cell(c + Half) = c
    BY <1>6, SizeFacts DEF Cell
  <2>2. c \notin DOMAIN cache /\ c + Half \notin DOMAIN cache
    BY <1>3, <1>4, <2>1
  <2>3. \A b \in dirty : Cell(b) # c
    BY <1>3 DEF MemoryTypeOK
  <2>4. mem[c] # Prbs(c) \/ mem[c] # Prbs(c + Half)
    BY <1>4, SizeFacts DEF Prbs, Addresses
  <2> QED BY <1>4, <2>1, <2>2, <2>3, <2>4 DEF Doomed, Addresses
<1> QED BY <1>5, <1>6

-----------------------------------------------------------------------------
(***************************************************************************)
(* The inductive invariant, one lemma per action.                          *)
(***************************************************************************)

LEMMA InitInv == Init => IInv
<1> SUFFICES ASSUME Init PROVE IInv
  OBVIOUS
<1>1. DOMAIN cache = {}
  BY DEF Init
<1>2. MemoryTypeOK
  <2>1. cache \in [DOMAIN cache -> Values]
    BY <1>1 DEF Init
  <2>2. Cardinality(DOMAIN cache) <= CacheLines
    BY <1>1, FS_EmptySet, SizeFacts
  <2>3. mem \in [Addresses -> Values]
    BY ValueFacts DEF Init
  <2> QED BY <1>1, <2>1, <2>2, <2>3 DEF MemoryTypeOK, Init
<1>3. TypeOK
  <2>1. i \in Addresses /\ mismatches \in 0 .. Words
    BY SizeFacts DEF Init, Addresses
  <2> QED BY <1>2, <2>1, Zenon DEF Init, TypeOK
<1>4. ProbeInv
  BY <1>1, SizeFacts DEF Init, ProbeInv, Probing
<1>5. PathInv /\ StoreInv
  BY DEF Init, PathInv, StoreInv
<1> QED BY <1>3, <1>4, <1>5 DEF IInv

\* Where the loop index is after one iteration of a loop over n words.
LEMMA AdvanceFacts ==
    ASSUME i \in Addresses, NEW n \in 1 .. Words, i < n, NEW after, Advance(n, after)
    PROVE  /\ i' \in Addresses
           /\ \/ i + 1 < n /\ i' = i + 1 /\ pc' = pc
              \/ i + 1 = n /\ i' = 0 /\ pc' = after
BY SizeFacts DEF Advance, Addresses

\* The reads and writes of the probes leave only probed words in the cache.
LEMMA ProbedLines ==
    ASSUME MemoryTypeOK, DOMAIN cache \subseteq 0 .. Probed - 1, NEW a \in 0 .. Probed - 1,
           NEW v \in Values, CachedWrite(a, v) \/ CachedRead(a, v)
    PROVE  MemoryTypeOK' /\ DOMAIN cache' \subseteq 0 .. Probed - 1
<1>1. a \in Addresses
  BY SizeFacts DEF Addresses
<1> QED BY <1>1, CachedWriteFacts, CachedReadFacts

LEMMA ScribbleInv == ASSUME IInv, Scribble PROVE IInv'
<1>1. /\ MemoryTypeOK /\ i \in Addresses /\ i \in 0 .. Probed - 1
      /\ DOMAIN cache \subseteq 0 .. Probed - 1 /\ path = "none" /\ mismatches = 0
  BY SizeFacts DEF IInv, TypeOK, ProbeInv, Probing, Scribble, Addresses
<1>2. MemoryTypeOK' /\ DOMAIN cache' \subseteq 0 .. Probed - 1
  BY <1>1, ProbedLines, ValueFacts DEF Scribble
<1>3. /\ i' \in Addresses
      /\ \/ i + 1 < Probed /\ i' = i + 1 /\ pc' = "scribble"
         \/ i' = 0 /\ pc' = "look"
  BY <1>1, AdvanceFacts, SizeFacts DEF Scribble
<1>4. UNCHANGED <<bypass_ok, cached_ok, path, mismatches, fault>> /\ pc = "scribble"
  BY DEF Scribble
<1>5. TypeOK'
  BY <1>2, <1>3, <1>4 DEF IInv, TypeOK
<1>6. ProbeInv'
  BY <1>1, <1>2, <1>3, <1>4, SizeFacts DEF ProbeInv, Probing
<1>7. PathInv' /\ StoreInv'
  BY <1>1, <1>3, <1>4 DEF IInv, PathInv, StoreInv
<1> QED BY <1>5, <1>6, <1>7 DEF IInv

LEMMA LookInv == ASSUME IInv, Look PROVE IInv'
<1>1. /\ MemoryTypeOK /\ i \in Addresses /\ i \in 0 .. Probed - 1
      /\ DOMAIN cache \subseteq 0 .. Probed - 1 /\ path = "none" /\ mismatches = 0
  BY SizeFacts DEF IInv, TypeOK, ProbeInv, Probing, Look, Addresses
<1>2. MemoryTypeOK' /\ DOMAIN cache' \subseteq 0 .. Probed - 1
  BY <1>1, ProbedLines DEF Look
<1>3. /\ i' \in Addresses
      /\ \/ i + 1 < Probed /\ i' = i + 1 /\ pc' = "look"
         \/ i' = 0 /\ pc' = "bypass_w"
  BY <1>1, AdvanceFacts, SizeFacts DEF Look
<1>4. UNCHANGED <<bypass_ok, cached_ok, path, mismatches, fault>> /\ pc = "look"
  BY DEF Look
<1>5. TypeOK'
  BY <1>2, <1>3, <1>4 DEF IInv, TypeOK
<1>6. ProbeInv'
  BY <1>1, <1>2, <1>3, <1>4, SizeFacts DEF ProbeInv, Probing
<1>7. PathInv' /\ StoreInv'
  BY <1>1, <1>3, <1>4 DEF IInv, PathInv, StoreInv
<1> QED BY <1>5, <1>6, <1>7 DEF IInv

\* The cached sentinel is held from the moment it is written.
LEMMA ProbeWriteInv == ASSUME IInv, ProbeWrite PROVE IInv'
<1>1. /\ MemoryTypeOK /\ 0 \in Addresses /\ 0 \in 0 .. Probed - 1 /\ i = 0
      /\ DOMAIN cache \subseteq 0 .. Probed - 1 /\ path = "none" /\ mismatches = 0
  BY SizeFacts DEF IInv, TypeOK, ProbeInv, Probing, ProbeWrite, Addresses
<1>2. UNCHANGED <<i, bypass_ok, cached_ok, path, mismatches, fault>>
  BY DEF ProbeWrite
<1>3. CASE /\ pc = "bypass_w" /\ pc' = "bypass_r"
           /\ ChipWrite(0, CafeBabe) /\ UNCHANGED <<cache, dirty>>
  <2>1. MemoryTypeOK'
    BY <1>1, <1>3, ChipWriteType, ValueFacts DEF MemoryTypeOK
  <2>2. TypeOK'
    BY <1>2, <1>3, <2>1 DEF IInv, TypeOK
  <2>3. ProbeInv'
    BY <1>1, <1>2, <1>3 DEF ProbeInv, Probing
  <2>4. PathInv' /\ StoreInv'
    BY <1>1, <1>2, <1>3 DEF IInv, PathInv, StoreInv
  <2> QED BY <2>2, <2>3, <2>4 DEF IInv
<1>4. CASE pc = "cached_w" /\ pc' = "cached_r" /\ CachedWrite(0, DeadBeef)
  <2>1. MemoryTypeOK' /\ DOMAIN cache' \subseteq 0 .. Probed - 1
    BY <1>1, <1>4, ProbedLines, ValueFacts
  <2>2. Holds(0, DeadBeef)'
    <3>1. DeadBeef \in Values /\ fault' = fault
      BY <1>2, ValueFacts
    <3>2. MemoryTypeOK /\ 0 \in Addresses /\ CachedWrite(0, DeadBeef)
      BY <1>1, <1>4
    <3> QED BY <3>1, <3>2, HoldsAfterWrite, Zenon
  <2>3. TypeOK'
    BY <1>2, <1>4, <2>1 DEF IInv, TypeOK
  <2>4. ProbeInv'
    BY <1>1, <1>2, <1>4, <2>1 DEF ProbeInv, Probing
  <2>5. PathInv' /\ StoreInv'
    BY <1>1, <1>2, <1>4, <2>2 DEF IInv, PathInv, StoreInv
  <2> QED BY <2>3, <2>4, <2>5 DEF IInv
<1> QED BY <1>3, <1>4 DEF ProbeWrite, WordWrite

\* A dead chip answers the bypass probe with zero; a working controller returns
\* the cached sentinel, evicted meanwhile or not.
LEMMA ProbeReadInv == ASSUME IInv, ProbeRead PROVE IInv'
<1>1. /\ MemoryTypeOK /\ 0 \in Addresses /\ 0 \in 0 .. Probed - 1 /\ i = 0
      /\ DOMAIN cache \subseteq 0 .. Probed - 1 /\ path = "none" /\ mismatches = 0
  BY SizeFacts DEF IInv, TypeOK, ProbeInv, Probing, ProbeRead, Addresses
<1>2. UNCHANGED <<i, path, mismatches, fault>>
  BY DEF ProbeRead
<1>3. ASSUME NEW v \in Values, pc = "bypass_r", pc' = "cached_w", WordRead("bypass", 0, v),
             bypass_ok' = (v = CafeBabe), UNCHANGED cached_ok
      PROVE  IInv'
  <2>1. v = ChipRead(0) /\ UNCHANGED <<cache, dirty, mem>>
    BY <1>3 DEF WordRead
  <2>2. fault = "dead_chip" => v # CafeBabe
    BY <2>1 DEF ChipRead, CafeBabe, Unwritten
  <2>3. MemoryTypeOK'
    BY <1>1, <2>1 DEF MemoryTypeOK
  <2>4. bypass_ok' \in BOOLEAN /\ cached_ok' \in BOOLEAN
    BY <1>3 DEF IInv, TypeOK
  <2>5. TypeOK'
    BY <1>2, <1>3, <2>3, <2>4 DEF IInv, TypeOK
  <2>6. ProbeInv'
    BY <1>1, <1>2, <1>3, <2>1 DEF ProbeInv, Probing
  <2>7. fault' = "dead_chip" => ~bypass_ok'
    BY <1>2, <1>3, <2>2
  <2>8. PathInv' /\ StoreInv'
    BY <1>1, <1>2, <1>3, <2>7 DEF PathInv, StoreInv
  <2> QED BY <2>5, <2>6, <2>8 DEF IInv
<1>4. ASSUME NEW v \in Values, pc = "cached_r", pc' = "decide", WordRead("cached", 0, v),
             cached_ok' = (v = DeadBeef), UNCHANGED bypass_ok
      PROVE  IInv'
  <2>1. CachedRead(0, v)
    BY <1>4 DEF WordRead
  <2>2. MemoryTypeOK' /\ DOMAIN cache' \subseteq 0 .. Probed - 1
    BY <1>1, <2>1, ProbedLines
  <2>3. fault \in {"none", "stuck_address"} => v = DeadBeef
    <3>1. v = IF 0 \in DOMAIN cache THEN cache[0] ELSE Behind(0)
      BY <1>1, <2>1, CachedReadFacts
    <3>2. fault \in {"none", "stuck_address"} => Holds(0, DeadBeef)
      BY <1>4 DEF IInv, PathInv
    <3> QED BY <1>1, <3>1, <3>2 DEF Holds, Behind, MemoryTypeOK
  <2>4. bypass_ok' \in BOOLEAN /\ cached_ok' \in BOOLEAN
    BY <1>4 DEF IInv, TypeOK
  <2>5. TypeOK'
    BY <1>2, <1>4, <2>2, <2>4 DEF IInv, TypeOK
  <2>6. ProbeInv'
    BY <1>1, <1>2, <1>4, <2>2 DEF ProbeInv, Probing
  <2>7. fault' \in {"none", "stuck_address"} => cached_ok'
    BY <1>2, <1>4, <2>3
  <2>8. PathInv' /\ StoreInv'
    BY <1>1, <1>2, <1>4, <2>7 DEF IInv, PathInv, StoreInv
  <2> QED BY <2>5, <2>6, <2>8 DEF IInv
<1> QED BY <1>3, <1>4 DEF ProbeRead

LEMMA DecideInv == ASSUME IInv, Decide PROVE IInv'
<1>1. /\ MemoryTypeOK /\ i = 0 /\ path = "none" /\ mismatches = 0 /\ pc = "decide"
  BY DEF IInv, TypeOK, ProbeInv, Probing, Decide
<1>2. UNCHANGED <<i, bypass_ok, cached_ok, mismatches, cache, dirty, mem, fault>>
  BY DEF Decide
<1>3. \/ cached_ok /\ path' = "cached" /\ pc' = "fill"
      \/ ~cached_ok /\ bypass_ok /\ path' = "bypass" /\ pc' = "fill"
      \/ ~cached_ok /\ path' = "none" /\ pc' = "FAIL"
  BY DEF Decide
<1>4. MemoryTypeOK'
  BY <1>1, <1>2 DEF MemoryTypeOK
<1>5. fault \in {"none", "stuck_address"} => cached_ok
  BY <1>1 DEF IInv, PathInv
<1>6. TypeOK'
  BY <1>2, <1>3, <1>4 DEF IInv, TypeOK
<1>7. ProbeInv'
  BY <1>1, <1>2, <1>3 DEF ProbeInv, Probing
<1>8. PathInv'
  BY <1>1, <1>2, <1>3, <1>5 DEF IInv, PathInv
<1>9. StoreInv'
  BY <1>1, <1>2, <1>3, <1>5 DEF StoreInv
<1> QED BY <1>6, <1>7, <1>8, <1>9 DEF IInv

\* The window the fill uses, once there is one.
LEMMA WindowFacts ==
    ASSUME IInv, pc \in {"fill", "verify"}
    PROVE  /\ path \in {"cached", "bypass"}
           /\ path = "bypass" => fault = "dead_controller"
           /\ fault = "none" => path = "cached"
BY DEF IInv, TypeOK, PathInv, Faults

\* A fill of working memory holds what it wrote; the last word written to broken
\* memory leaves a doomed one.
LEMMA WriteFillInv == ASSUME IInv, WriteFill PROVE IInv'
<1>1. /\ MemoryTypeOK /\ i \in Addresses /\ mismatches = 0 /\ pc = "fill"
      /\ Prbs(i) \in Values /\ WordWrite(path, i, Prbs(i))
  BY ValueFacts DEF IInv, TypeOK, ProbeInv, Probing, WriteFill
<1>2. UNCHANGED <<bypass_ok, cached_ok, path, mismatches, fault>>
  BY DEF WriteFill
<1>3. MemoryTypeOK'
  BY <1>1, WordWriteType
<1>4. /\ i' \in Addresses
      /\ \/ i + 1 < Words /\ i' = i + 1 /\ pc' = "fill"
         \/ i + 1 = Words /\ i' = 0 /\ pc' = "verify"
  BY <1>1, AdvanceFacts, SizeFacts DEF WriteFill, FillWords, Addresses
<1>5. TypeOK'
  BY <1>1, <1>2, <1>3, <1>4 DEF IInv, TypeOK
<1>6. ProbeInv'
  BY <1>1, <1>2, <1>4 DEF ProbeInv, Probing
<1>7. PathInv'
  BY <1>1, <1>2, <1>4 DEF IInv, PathInv
<1>8. StoreInv'
  <2>1. ASSUME fault = "none"
        PROVE  \A a \in 0 .. i : Holds(a, Prbs(a))'
    <3>1. PICK k \in Addresses : k = i
      BY <1>1
    <3>2. CachedWrite(k, Prbs(k)) /\ Prbs(k) \in Values
      BY <1>1, <2>1, <3>1, WindowFacts DEF WordWrite
    <3>3. \A a \in 0 .. k - 1 : a \in Addresses /\ a # k /\ Holds(a, Prbs(a)) /\ Prbs(a) \in Values
      BY <1>1, <2>1, <3>1, ValueFacts, SizeFacts DEF IInv, StoreInv, Addresses
    <3>4. /\ Holds(k, Prbs(k))'
          /\ \A b \in Addresses, w \in Values : (b # k /\ Holds(b, w)) => Holds(b, w)'
      BY <1>1, <1>2, <3>2, HoldsAfterWrite
    <3>5. \A a \in 0 .. k - 1 : Holds(a, Prbs(a))'
      BY <3>3, <3>4
    <3>6. \A a \in 0 .. k : a = k \/ a \in 0 .. k - 1
      BY DEF Addresses
    <3> QED BY <3>1, <3>4, <3>5, <3>6
  <2>2. ((MemoryTypeOK /\ fault \in Faults \ {"none"}) => \E a \in 0 .. Words - 1 : Doomed(a))'
    BY SomeDoomed, PTL
  <2>3. fault' # "none" => \E a \in 0 .. Words - 1 : Doomed(a)'
    BY <1>3, <1>5, <2>2 DEF TypeOK
  <2>4. fault' = "none" =>
           /\ mismatches' = 0 /\ pc' # "FAIL"
           /\ pc' = "fill" => \A a \in 0 .. i' - 1 : Holds(a, Prbs(a))'
           /\ pc' = "verify" => \A a \in Addresses : Holds(a, Prbs(a))'
    <3>1. (pc' = "fill" => 0 .. i' - 1 = 0 .. i) /\ (pc' = "verify" => Addresses = 0 .. i)
      BY <1>1, <1>4, SizeFacts DEF Addresses
    <3>2. mismatches' = 0 /\ pc' # "FAIL" /\ fault' = fault
      BY <1>1, <1>2, <1>4
    <3> QED BY <2>1, <3>1, <3>2
  <2> QED BY <1>4, <2>3, <2>4 DEF StoreInv
<1> QED BY <1>5, <1>6, <1>7, <1>8 DEF IInv

LEMMA VerifyFillInv == ASSUME IInv, VerifyFill PROVE IInv'
<1>1. /\ MemoryTypeOK /\ i \in Addresses /\ mismatches \in 0 .. Words /\ mismatches <= i
      /\ pc = "verify"
  BY DEF IInv, TypeOK, ProbeInv, VerifyFill
<1>2. PICK v \in Values : /\ WordRead(path, i, v)
                          /\ mismatches' = IF v # Prbs(i) THEN mismatches + 1 ELSE mismatches
  BY DEF VerifyFill, Want
<1>3. UNCHANGED <<bypass_ok, cached_ok, path, fault>>
  BY DEF VerifyFill
<1>4. MemoryTypeOK'
  BY <1>1, <1>2, WordReadType
<1>5. /\ i' \in Addresses
      /\ \/ i + 1 < Words /\ i' = i + 1 /\ pc' = "verify"
         \/ i + 1 = Words /\ i' = 0 /\ pc' = IF mismatches' = 0 THEN "PASS" ELSE "FAIL"
  <2>1. Advance(Words, IF mismatches' = 0 THEN "PASS" ELSE "FAIL")
    BY DEF VerifyFill, FillWords
  <2> QED BY <1>1, <2>1, AdvanceFacts, SizeFacts DEF Addresses
<1>6. mismatches' \in 0 .. Words /\ mismatches' <= i + 1 /\ mismatches' >= mismatches
  BY <1>1, <1>2, SizeFacts DEF Addresses
<1>7. TypeOK'
  BY <1>3, <1>4, <1>5, <1>6 DEF IInv, TypeOK
<1>8. ProbeInv'
  BY <1>1, <1>5, <1>6 DEF ProbeInv, Probing
<1>9. fault = "none" =>
        /\ mismatches' = 0 /\ pc' # "FAIL"
        /\ pc' = "verify" => \A a \in Addresses : Holds(a, Prbs(a))'
  <2> SUFFICES ASSUME fault = "none"
               PROVE  mismatches' = 0 /\ \A a \in Addresses : Holds(a, Prbs(a))'
    BY <1>5
  <2>1. CachedRead(i, v) /\ mismatches = 0 /\ \A a \in Addresses : Holds(a, Prbs(a))
    BY <1>1, <1>2, WindowFacts DEF WordRead, IInv, StoreInv
  <2>2. v = IF i \in DOMAIN cache THEN cache[i] ELSE Behind(i)
    BY <1>1, <2>1, CachedReadFacts
  <2>3. v = Prbs(i)
    BY <1>1, <2>1, <2>2 DEF Holds, Behind, MemoryTypeOK
  <2>4. \A a \in Addresses : Holds(a, Prbs(a))'
    BY <1>1, <1>3, <2>1, HoldsAfterRead
  <2> QED BY <1>2, <2>1, <2>3, <2>4
<1>10. (path = "cached" /\ fault # "none") =>
          mismatches' > 0 \/ \E a \in i + 1 .. Words - 1 : Doomed(a)'
  <2> SUFFICES ASSUME path = "cached", fault # "none", mismatches = 0
               PROVE  mismatches' > 0 \/ \E a \in i + 1 .. Words - 1 : Doomed(a)'
    BY <1>1, <1>6
  <2>1. PICK a \in i .. Words - 1 : Doomed(a)
    BY <1>1 DEF IInv, StoreInv
  <2>2. a \in Addresses
    BY <1>1, SizeFacts DEF Addresses
  <2>3. CachedRead(i, v) /\ fault \in Faults \ {"none"}
    BY <1>2 DEF WordRead, IInv, TypeOK
  <2>4. Doomed(a)' /\ (i = a => v # Prbs(a))
    BY <1>1, <1>3, <2>1, <2>2, <2>3, DoomedAfterRead
  <2>5. CASE a = i
    BY <1>2, <2>4, <2>5
  <2>6. CASE a # i
    <3>1. a \in i + 1 .. Words - 1
      BY <1>1, <2>6 DEF Addresses
    <3> QED BY <2>4, <3>1
  <2> QED BY <2>5, <2>6
<1>11. PathInv'
  BY <1>1, <1>3, <1>5 DEF IInv, PathInv
<1>12. StoreInv'
  <2>1. fault' = "none" =>
           /\ mismatches' = 0 /\ pc' # "FAIL" /\ pc' # "fill"
           /\ pc' = "verify" => \A a \in Addresses : Holds(a, Prbs(a))'
    BY <1>3, <1>5, <1>9
  <2>2. (pc' = "verify" /\ path' = "cached" /\ fault' # "none") =>
           mismatches' > 0 \/ \E a \in i' .. Words - 1 : Doomed(a)'
    BY <1>3, <1>5, <1>10
  <2>3. (pc' = "PASS" /\ path' = "cached") => fault' = "none"
    <3> SUFFICES ASSUME pc' = "PASS", path = "cached", fault # "none" PROVE FALSE
      BY <1>3
    <3>1. i + 1 = Words /\ mismatches' = 0
      BY <1>1, <1>5
    <3>2. i + 1 .. Words - 1 = {} /\ ~(mismatches' > 0)
      BY <1>1, <3>1, SizeFacts
    <3> QED BY <1>10, <3>2
  <2> QED BY <2>1, <2>2, <2>3 DEF StoreInv
<1> QED BY <1>7, <1>8, <1>11, <1>12 DEF IInv

\* An eviction changes where a word is, never what the CPU will read.
LEMMA EvictInv == ASSUME IInv, Evict PROVE IInv'
<1>1. MemoryTypeOK
  BY DEF IInv, TypeOK
<1>2. PICK e \in DOMAIN cache :
         MemoryTypeOK' /\ DOMAIN cache' = DOMAIN cache \ {e} /\ UNCHANGED <<cpuVars, fault>>
  BY <1>1, EvictFacts
<1>3. UNCHANGED <<pc, i, bypass_ok, cached_ok, path, mismatches, fault>>
  BY <1>2 DEF cpuVars
<1>4. TypeOK'
  BY <1>2, <1>3 DEF IInv, TypeOK
<1>5. ProbeInv'
  BY <1>2, <1>3 DEF IInv, ProbeInv, Probing
<1>6. PathInv'
  <2>1. ASSUME fault \in {"none", "stuck_address"}, pc = "cached_r"
        PROVE  Holds(0, DeadBeef)'
    <3>1. 0 \in Addresses /\ 0 < Half /\ Holds(0, DeadBeef)
      BY <2>1, SizeFacts DEF Addresses, IInv, PathInv
    <3>2. \A c \in dirty : c \in Addresses /\ c < Half
      BY <1>1, <2>1, SizeFacts DEF IInv, ProbeInv, Probing, MemoryTypeOK
    <3>3. \A c \in dirty : c # 0 => Cell(c) # Cell(0)
      BY <3>1, <3>2, CellFacts
    <3> QED BY <1>1, <2>1, <3>1, <3>3, HoldsAfterEvict
  <2> QED BY <1>3, <2>1 DEF IInv, PathInv
<1>7. StoreInv'
  <2>1. ASSUME fault = "none", NEW a \in Addresses, Holds(a, Prbs(a))
        PROVE  Holds(a, Prbs(a))'
    <3>1. \A c \in dirty : c # a => Cell(c) # Cell(a)
      BY <1>1, <2>1, CellFacts DEF MemoryTypeOK
    <3> QED BY <1>1, <2>1, <3>1, HoldsAfterEvict
  <2>2. i \in Addresses
    BY DEF IInv, TypeOK
  <2>3. fault' = "none" =>
           /\ mismatches' = 0 /\ pc' # "FAIL"
           /\ pc' = "fill" => \A a \in 0 .. i' - 1 : Holds(a, Prbs(a))'
           /\ pc' = "verify" => \A a \in Addresses : Holds(a, Prbs(a))'
    <3> SUFFICES ASSUME fault = "none"
                 PROVE  /\ mismatches = 0 /\ pc # "FAIL"
                        /\ pc = "fill" => \A a \in 0 .. i - 1 : Holds(a, Prbs(a))'
                        /\ pc = "verify" => \A a \in Addresses : Holds(a, Prbs(a))'
      BY <1>3
    <3>1. \A a \in 0 .. i - 1 : a \in Addresses
      BY <2>2, SizeFacts DEF Addresses
    <3>2. /\ mismatches = 0 /\ pc # "FAIL"
          /\ pc = "fill" => \A a \in 0 .. i - 1 : Holds(a, Prbs(a))
          /\ pc = "verify" => \A a \in Addresses : Holds(a, Prbs(a))
      BY DEF IInv, StoreInv
    <3>3. \A a \in Addresses : Holds(a, Prbs(a)) => Holds(a, Prbs(a))'
      BY <2>1
    <3>4. pc = "fill" => \A a \in 0 .. i - 1 : Holds(a, Prbs(a))'
      BY <3>1, <3>2, <3>3
    <3>5. pc = "verify" => \A a \in Addresses : Holds(a, Prbs(a))'
      BY <3>2, <3>3
    <3> QED BY <3>2, <3>4, <3>5
  <2>4. (pc' = "verify" /\ path' = "cached" /\ fault' # "none") =>
           mismatches' > 0 \/ \E a \in i' .. Words - 1 : Doomed(a)'
    <3> SUFFICES ASSUME pc = "verify", path = "cached", fault # "none", ~(mismatches > 0)
                 PROVE  \E a \in i .. Words - 1 : Doomed(a)'
      BY <1>3
    <3>1. PICK a \in i .. Words - 1 : Doomed(a)
      BY DEF IInv, StoreInv
    <3>2. a \in Addresses /\ fault \in Faults \ {"none"}
      BY <2>2, SizeFacts DEF Addresses, IInv, TypeOK
    <3>3. Doomed(a)'
      BY <1>1, <3>1, <3>2, DoomedAfterEvict
    <3> QED BY <3>3
  <2>5. (pc' = "PASS" /\ path' = "cached") => fault' = "none"
    BY <1>3 DEF IInv, StoreInv
  <2> QED BY <2>3, <2>4, <2>5 DEF StoreInv
<1> QED BY <1>4, <1>5, <1>6, <1>7 DEF IInv

\* A CPU that is stopped at an access has changed nothing.
LEMMA StuckInv == ASSUME IInv, Stuck PROVE IInv'
<1>1. /\ fault = "dead_controller" /\ pc' \in {"panic", "hang"}
      /\ UNCHANGED <<i, bypass_ok, cached_ok, path, mismatches, cache, dirty, mem, fault>>
  BY DEF Stuck, Stops
<1>2. TypeOK' /\ ProbeInv'
  BY <1>1 DEF IInv, TypeOK, MemoryTypeOK, ProbeInv, Probing
<1>3. PathInv' /\ StoreInv'
  BY <1>1 DEF IInv, PathInv, StoreInv
<1> QED BY <1>2, <1>3 DEF IInv

LEMMA StutterInv == ASSUME IInv, UNCHANGED vars PROVE IInv'
<1> USE DEF vars, cpuVars
<1>1. \A a, v : Holds(a, v)' <=> Holds(a, v)
  BY DEF Holds, Cell
<1>2. \A a : Doomed(a)' <=> Doomed(a)
  BY DEF Doomed, Cell
<1>3. TypeOK' /\ ProbeInv'
  BY DEF IInv, TypeOK, MemoryTypeOK, ProbeInv, Probing
<1>4. PathInv' /\ StoreInv'
  BY <1>1, <1>2 DEF IInv, PathInv, StoreInv
<1> QED BY <1>3, <1>4 DEF IInv

-----------------------------------------------------------------------------
(***************************************************************************)
(* Theorems.                                                               *)
(***************************************************************************)

LEMMA NextInv == IInv /\ [Next]_vars => IInv'
<1> SUFFICES ASSUME IInv, [Next]_vars PROVE IInv'
  OBVIOUS
<1>1. CASE Scribble
  BY <1>1, ScribbleInv
<1>2. CASE Look
  BY <1>2, LookInv
<1>3. CASE ProbeWrite
  BY <1>3, ProbeWriteInv
<1>4. CASE ProbeRead
  BY <1>4, ProbeReadInv
<1>5. CASE Decide
  BY <1>5, DecideInv
<1>6. CASE WriteFill
  BY <1>6, WriteFillInv
<1>7. CASE VerifyFill
  BY <1>7, VerifyFillInv
<1>8. CASE Evict
  BY <1>8, EvictInv
<1>9. CASE Stuck
  BY <1>9, StuckInv
<1>10. CASE Park \/ UNCHANGED vars
  BY <1>10, StutterInv DEF Park
<1> QED BY <1>1, <1>2, <1>3, <1>4, <1>5, <1>6, <1>7, <1>8, <1>9, <1>10 DEF Next, Cpu

\* Type correctness and the inductive invariant: at every place of main() and
\* after any evictions, what the windows were found to do, which words are held
\* and which can no longer come back.
THEOREM InvCorrect == Spec => []IInv
BY InitInv, NextInv, PTL DEF Spec

\* PASS is about the chip, for every fill more than twice the size of the cache.
THEOREM PassIsEarned == Spec => []PassMeansStored
<1>1. IInv => PassMeansStored
  BY DEF IInv, TypeOK, PathInv, StoreInv, PassMeansStored, Faults
<1> QED BY <1>1, InvCorrect, PTL

\* Working memory passes, for every number of probed words and every fill.
THEOREM SoundPasses == Spec => []SoundMemoryPasses
<1>1. IInv => SoundMemoryPasses
  BY DEF IInv, StoreInv, SoundMemoryPasses
<1> QED BY <1>1, InvCorrect, PTL

\* What the probes left in cache and chip is gone before the read back begins.
THEOREM ResidueIsGone == Spec => []NoProbeResidue
<1>1. IInv => NoProbeResidue
  BY CellFacts DEF IInv, TypeOK, MemoryTypeOK, StoreInv, NoProbeResidue, Holds
<1> QED BY <1>1, InvCorrect, PTL
=============================================================================
