------------------------------ MODULE PsramFill ------------------------------
(***************************************************************************)
(* test_psram_prbs_fill.rs: probe the cached and the bypass window onto    *)
(* the PSRAM, choose one, fill it with a pattern and read it back.  The    *)
(* CPU talks to the chip through a write-back cache that may hold, and     *)
(* answer with, words the chip never stored: the sentinel probe, and any   *)
(* fill no larger than the cache, say nothing about the chip.              *)
(*                                                                         *)
(* The cache, its controller and the chip are external: lines of one word, *)
(* evicted in any order and at any time, and one fault at most: a chip     *)
(* that stores nothing, a chip with its top address line stuck, or a       *)
(* controller that neither refills nor writes back.  Such a controller may *)
(* also stop the CPU at any access, with a bus fault or for ever.          *)
(***************************************************************************)
EXTENDS Integers, FiniteSets, Functions

CONSTANTS Words,       \* FILL_WORDS: words filled and verified (the source: 4 Mi)
          Probed,      \* words written by the step 1 to 6 probes (256)
          CacheLines   \* words the cache can hold

ASSUME FillAssumption == /\ Words \in Nat \ {0} /\ Words % 2 = 0
                         /\ Probed \in 1 .. CacheLines
                         /\ CacheLines \in Nat \ {0}
                         /\ CacheLines < Words \div 2

\* Values: those of the fill, one per word, and what else a word may hold.
Prbs(k)    == k + 1
Unwritten  == 0
Scribbled  == -1
CafeBabe   == -2
DeadBeef   == -3
Values     == -3 .. Words

Addresses == 0 .. Words - 1
Half      == Words \div 2

VARIABLES pc, i,       \* what the CPU does next, and its loop index
          bypass_ok, cached_ok,
          path,        \* fill_addr: "none" | "cached" | "bypass"
          mismatches,
          cache,       \* the cached words
          dirty,       \* those not written back
          mem,         \* the cells of the chip
          fault        \* "none" | "dead_chip" | "stuck_address" | "dead_controller"

cpuVars == <<pc, i, bypass_ok, cached_ok, path, mismatches>>
vars    == <<cpuVars, cache, dirty, mem, fault>>

Faults == {"none", "dead_chip", "stuck_address", "dead_controller"}

MemoryTypeOK == /\ DOMAIN cache \subseteq Addresses /\ cache \in [DOMAIN cache -> Values]
                /\ Cardinality(DOMAIN cache) <= CacheLines
                /\ dirty \subseteq DOMAIN cache
                /\ mem \in [Addresses -> Values]

TypeOK == /\ pc \in {"scribble", "look", "bypass_w", "bypass_r", "cached_w", "cached_r",
                     "decide", "fill", "verify", "PASS", "FAIL", "panic", "hang"}
          /\ i \in Addresses
          /\ bypass_ok \in BOOLEAN /\ cached_ok \in BOOLEAN
          /\ path \in {"none", "cached", "bypass"}
          /\ mismatches \in 0 .. Words
          /\ MemoryTypeOK
          /\ fault \in Faults

Init == /\ pc = "scribble" /\ i = 0
        /\ bypass_ok = FALSE /\ cached_ok = FALSE /\ path = "none" /\ mismatches = 0
        /\ cache = << >> /\ dirty = {}
        /\ mem = [a \in Addresses |-> Unwritten]
        /\ fault \in Faults

-----------------------------------------------------------------------------
(***************************************************************************)
(* The memory (external).                                                  *)
(***************************************************************************)

\* The top address line, stuck low, folds the upper half onto the lower one.
Cell(a) == IF fault = "stuck_address" /\ a >= Half THEN a - Half ELSE a

ChipRead(a)     == IF fault = "dead_chip" THEN Unwritten ELSE mem[Cell(a)]
ChipWrite(a, v) == mem' = IF fault = "dead_chip" THEN mem ELSE [mem EXCEPT ![Cell(a)] = v]

Room(a) == a \in DOMAIN cache \/ Cardinality(DOMAIN cache) < CacheLines

Line(a, v) == [b \in DOMAIN cache \cup {a} |-> IF b = a THEN v ELSE cache[b]]

CachedWrite(a, v) == /\ Room(a)
                     /\ cache' = Line(a, v) /\ dirty' = dirty \cup {a}
                     /\ UNCHANGED mem

\* No access is answered: the exception handler panics, or the CPU waits on.
Stops == fault = "dead_controller" /\ pc' \in {"panic", "hang"}

\* v is what the CPU reads at a: the cached word, or the refilled one.
CachedRead(a, v) == /\ Room(a)
                    /\ v = IF a \in DOMAIN cache THEN cache[a]
                           ELSE IF fault = "dead_controller" THEN Unwritten ELSE ChipRead(a)
                    /\ cache' = Line(a, v)
                    /\ UNCHANGED <<dirty, mem>>

Evict == \E a \in DOMAIN cache :
            /\ cache' = Restrict(cache, DOMAIN cache \ {a})
            /\ dirty' = dirty \ {a}
            /\ IF a \in dirty /\ fault # "dead_controller" THEN ChipWrite(a, cache[a])
               ELSE UNCHANGED mem
            /\ UNCHANGED <<cpuVars, fault>>

WordWrite(p, a, v) == IF p = "cached" THEN CachedWrite(a, v)
                      ELSE ChipWrite(a, v) /\ UNCHANGED <<cache, dirty>>
WordRead(p, a, v)  == IF p = "cached" THEN CachedRead(a, v)
                      ELSE v = ChipRead(a) /\ UNCHANGED <<cache, dirty, mem>>

-----------------------------------------------------------------------------
(***************************************************************************)
(* The CPU: main().                                                        *)
(***************************************************************************)

(* Mutants: a fill the cache can hold; the reference sequence one step off;*)
(* a bound one too far; a read loop that does not advance.                 *)
FillCacheSized   == CacheLines
WantNext(k)      == k + 2
AdvanceTooFar(n, after) == IF i + 1 <= n THEN i' = i + 1 /\ UNCHANGED pc
                           ELSE i' = 0 /\ pc' = after
AdvanceNever(n, after)  == UNCHANGED <<i, pc>>

\* One iteration of a loop over n words, then the next part of main().
Advance(n, after) == IF i + 1 < n THEN i' = i + 1 /\ UNCHANGED pc
                     ELSE i' = 0 /\ pc' = after

FillWords == Words
Want(k)   == Prbs(k)

\* Steps 5 and 6 of "tiny incremental cached writes/reads" (steps 1 to 4 touch
\* fewer words); what is read is not looked at.
Scribble == /\ pc = "scribble"
            /\ CachedWrite(i, Scribbled)
            /\ Advance(Probed, "look")
            /\ UNCHANGED <<bypass_ok, cached_ok, path, mismatches, fault>>

Look == /\ pc = "look"
        /\ \E v \in Values : CachedRead(i, v)
        /\ Advance(Probed, "bypass_w")
        /\ UNCHANGED <<bypass_ok, cached_ok, path, mismatches, fault>>

\* try_probe(PSRAM_VADDR_BYPASS, 0xCAFE_BABE), then the cached one.
ProbeWrite == /\ \/ pc = "bypass_w" /\ pc' = "bypass_r" /\ WordWrite("bypass", 0, CafeBabe)
                 \/ pc = "cached_w" /\ pc' = "cached_r" /\ WordWrite("cached", 0, DeadBeef)
              /\ UNCHANGED <<i, bypass_ok, cached_ok, path, mismatches, fault>>

ProbeRead ==
    /\ \E v \in Values :
          \/ /\ pc = "bypass_r" /\ pc' = "cached_w" /\ WordRead("bypass", 0, v)
             /\ bypass_ok' = (v = CafeBabe) /\ UNCHANGED cached_ok
          \/ /\ pc = "cached_r" /\ pc' = "decide" /\ WordRead("cached", 0, v)
             /\ cached_ok' = (v = DeadBeef) /\ UNCHANGED bypass_ok
    /\ UNCHANGED <<i, path, mismatches, fault>>

Decide == /\ pc = "decide"
          /\ path' = IF cached_ok THEN "cached" ELSE IF bypass_ok THEN "bypass" ELSE "none"
          /\ pc' = IF path' = "none" THEN "FAIL" ELSE "fill"
          /\ UNCHANGED <<i, bypass_ok, cached_ok, mismatches, cache, dirty, mem, fault>>

WriteFill == /\ pc = "fill"
             /\ WordWrite(path, i, Prbs(i))
             /\ Advance(FillWords, "verify")
             /\ UNCHANGED <<bypass_ok, cached_ok, path, mismatches, fault>>

VerifyFill == /\ pc = "verify"
              /\ \E v \in Values :
                    /\ WordRead(path, i, v)
                    /\ mismatches' = IF v # Want(i) THEN mismatches + 1 ELSE mismatches
              /\ Advance(FillWords, IF mismatches' = 0 THEN "PASS" ELSE "FAIL")
              /\ UNCHANGED <<bypass_ok, cached_ok, path, fault>>

\* "A bus error on access cannot be caught here", nor a write that hangs.
Stuck == /\ pc \in {"scribble", "look", "bypass_w", "bypass_r", "cached_w", "cached_r",
                   "fill", "verify"}
         /\ Stops
         /\ UNCHANGED <<i, bypass_ok, cached_ok, path, mismatches, cache, dirty, mem, fault>>

Park == pc \in {"PASS", "FAIL", "panic", "hang"} /\ UNCHANGED vars

Cpu == Scribble \/ Look \/ ProbeWrite \/ ProbeRead \/ Decide \/ WriteFill \/ VerifyFill
       \/ Stuck

Next == Cpu \/ Evict \/ Park

Spec == Init /\ [][Next]_vars

\* The CPU runs, and a full cache makes room for the access that needs it.
FairSpec == Spec /\ WF_vars(Cpu) /\ WF_vars(Evict)

-----------------------------------------------------------------------------
(***************************************************************************)
(* Properties.                                                             *)
(***************************************************************************)

\* PASS is about the chip: no order of evictions lets the cache stand in for a
\* chip that stores nothing, for one whose halves overlap, or for a controller
\* that does not reach it - unless the other window does.
PassMeansStored ==
    pc = "PASS" => \/ fault = "none"
                   \/ fault = "dead_controller" /\ path = "bypass"

\* Memory that works passes: neither the words the probes left in the cache nor
\* the sentinel written past the cache disturb the fill.
SoundMemoryPasses == fault = "none" => pc # "FAIL"

\* The inductive invariant, part by part.  Word a is held when neither a hit nor
\* a miss can return anything but v, and doomed when neither can return what the
\* fill wrote - for good, as long as nobody writes.
Holds(a, v) == /\ a \in DOMAIN cache => cache[a] = v
               /\ a \notin dirty => mem[Cell(a)] = v

Doomed(a) == /\ a \in DOMAIN cache => cache[a] # Prbs(a)
             /\ fault = "stuck_address" => /\ mem[Cell(a)] # Prbs(a)
                                          /\ \A b \in dirty : Cell(b) # Cell(a)

Probing == pc \in {"scribble", "look", "bypass_w", "bypass_r", "cached_w", "cached_r", "decide"}

\* Before the fill only probed words are cached, the loop index stays among them
\* and is zero between the loops; nothing has been counted or chosen.
ProbeInv == /\ Probing => /\ DOMAIN cache \subseteq 0 .. Probed - 1
                          /\ pc \in {"scribble", "look"} => i < Probed
                          /\ pc \notin {"scribble", "look"} => i = 0
                          /\ path = "none"
            /\ pc \notin {"verify", "FAIL", "panic", "hang"} => mismatches = 0
            /\ pc = "verify" => mismatches <= i

\* A window is chosen only when its probe succeeded, which a chip that stores
\* nothing rules out for the bypass one, and a working controller grants to the
\* cached one.
PathInv == /\ fault = "dead_chip" => ~bypass_ok
           /\ fault \in {"none", "stuck_address"} =>
                 /\ pc = "cached_r" => Holds(0, DeadBeef)
                 /\ pc \in {"decide", "fill", "verify", "PASS", "FAIL"} => cached_ok
           /\ pc \in {"fill", "verify", "PASS"} => path # "none"
           /\ path = "cached" => cached_ok
           /\ path = "bypass" => bypass_ok /\ ~cached_ok
           /\ pc = "FAIL" /\ path = "none" => ~cached_ok

\* Working memory holds every word written; broken memory that is verified
\* through the cache dooms a word still to be read, or has shown a mismatch.
StoreInv == /\ fault = "none" => /\ mismatches = 0
                                 /\ pc # "FAIL"
                                 /\ pc = "fill" => \A a \in 0 .. i - 1 : Holds(a, Prbs(a))
                                 /\ pc = "verify" => \A a \in Addresses : Holds(a, Prbs(a))
            /\ (pc = "verify" /\ path = "cached" /\ fault # "none") =>
                  mismatches > 0 \/ \E a \in i .. Words - 1 : Doomed(a)
            /\ (pc = "PASS" /\ path = "cached") => fault = "none"

IInv == TypeOK /\ ProbeInv /\ PathInv /\ StoreInv

\* Cached and bypass disagree about word 0 after the probes, but the fill never
\* reads back what a probe wrote: each word it reads is its own, or one of the
\* faults shows.
NoProbeResidue ==
    (pc = "verify" /\ fault = "none") =>
        \A a \in Addresses : (IF a \in DOMAIN cache THEN cache[a] ELSE mem[a]) = Prbs(a)

\* The test ends with a verdict whatever the cache evicts and whatever the chip
\* has lost: no access waits for ever for room in a full cache.  Only a broken
\* controller can keep it from one, by a bus fault or an access it never ends.
EventuallyVerdict ==
    <>(\/ pc \in {"PASS", "FAIL"}
       \/ fault = "dead_controller" /\ pc \in {"panic", "hang"})
=============================================================================
