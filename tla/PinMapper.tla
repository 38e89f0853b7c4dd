------------------------------ MODULE PinMapper ------------------------------
(***************************************************************************)
(* test_pin_mapper.rs: every candidate GPIO emits as many pulses per cycle *)
(* as its number says, all in lockstep, so that counting the rising edges  *)
(* on a logic-analyzer channel names the pin it is clipped to.  The pins   *)
(* are push-pull outputs written one after the other; some share a wire    *)
(* and drive it against each other once the smaller of them is through.    *)
(* Interrupts are not used: one step is one pass of a loop body.           *)
(***************************************************************************)
EXTENDS Integers, Sequences, FiniteSetsExt

CONSTANTS Candidates,  \* the pins, in the order they are written
          Shorted,     \* the pairs the bench connects
          Led          \* the heartbeat pin, GPIO23

Pins == {Candidates[a] : a \in 1 .. Len(Candidates)}

ASSUME PinAssumption ==
    /\ Candidates \in Seq(Nat \ {0}) /\ Candidates # <<>>
    /\ \A a, b \in 1 .. Len(Candidates) : Candidates[a] = Candidates[b] => a = b
    /\ Led \in Pins
    /\ \A pair \in Shorted : \E p, q \in Pins : p # q /\ pair = {p, q}
    /\ \A p, q \in Shorted : p # q => p \cap q = {}
    /\ \E m \in Pins : \A p \in Pins : p <= m   \* (as in every finite set)

\* The nets of the bench: a pin of its own, or a shorted pair.
Wires == Shorted \cup {{p} : p \in Pins \ UNION Shorted}

VARIABLES pc,     \* "init" | "blink" | "write" | "hold" | "gap"
          k,      \* index into Candidates, or blinks done
          tick,   \* tick of the cycle
          high,   \* pins whose output bit is set
          driven, \* pins enabled as outputs
          won,    \* (external) contended wires that read high
          edges   \* history: rising edges of each wire in this cycle

vars == <<pc, k, tick, high, driven, won, edges>>

TotalTicks == 2 * Max(Pins)
Blinks     == 3

TypeOK == /\ pc \in {"init", "blink", "write", "hold", "gap"}
          /\ k \in 1 .. (IF pc = "blink" THEN Blinks ELSE Len(Candidates))
          /\ tick \in 0 .. TotalTicks
          /\ high \subseteq Pins /\ driven \subseteq Pins /\ won \subseteq Wires
          /\ edges \in [Wires -> 0 .. TotalTicks]

Init == /\ pc = "init" /\ k = 1 /\ tick = 0
        /\ high = {} /\ driven = {} /\ won = {}
        /\ edges = [w \in Wires |-> 0]

(***************************************************************************)
(* The wires (external).  An enabled pin pulls its wire up or down, and a  *)
(* wire nobody pulls is low.  Two pins that pull against each other are    *)
(* equally strong: which level the analyzer reads is not decided by the    *)
(* code.  It is taken to stay the same until one of the two changes.       *)
(***************************************************************************)
PulledUp(w, h, d)   == w \cap d \cap h # {}
PulledDown(w, h, d) == (w \cap d) \ h # {}
Contended(w, h, d)  == PulledUp(w, h, d) /\ PulledDown(w, h, d)

WireHigh(w, h, d, s) == PulledUp(w, h, d) /\ (PulledDown(w, h, d) => w \in s)

\* Output bits become h and enabled pins d; a fight that begins or changes is
\* settled anew.
Drive(h, d) ==
    /\ high' = h /\ driven' = d
    /\ \E s \in SUBSET {w \in Wires : Contended(w, h, d)} :
          /\ \A w \in Wires : (/\ Contended(w, h, d)
                               /\ w \cap h = w \cap high /\ w \cap d = w \cap driven)
                              => (w \in s <=> w \in won)
          /\ won' = s

\* for &p in CANDIDATES { gpio_init_output(p); gpio_low(p) }
InitPin == /\ pc = "init"
           /\ Drive(high \ {Candidates[k]}, driven \cup {Candidates[k]})
           /\ IF k < Len(Candidates) THEN k' = k + 1 /\ UNCHANGED pc
              ELSE k' = 1 /\ pc' = "blink"
           /\ UNCHANGED <<tick, edges>>

Blink == /\ pc = "blink"
         /\ IF Led \in high
            THEN /\ Drive(high \ {Led}, driven)
                 /\ IF k < Blinks THEN k' = k + 1 /\ UNCHANGED pc ELSE k' = 1 /\ pc' = "write"
            ELSE Drive(high \cup {Led}, driven) /\ UNCHANGED <<pc, k>>
         /\ UNCHANGED <<tick, edges>>

\* Mutants of Pulsing: <= for <, one pulse too many; the trains of odd pins
\* shifted by a tick, so that not all rise at once.
PulsingLonger(p)    == tick <= 2 * p /\ tick % 2 = 0
PulsingStaggered(p) == tick < 2 * p /\ tick % 2 = p % 2

\* if tick < p * 2 { if tick & 1 == 0 { high } else { low } } else { low }
Pulsing(p) == tick < 2 * p /\ tick % 2 = 0

\* One output bit of the tick is written; the analyzer counts the wires that rise.
WritePin == /\ pc = "write"
            /\ Drive(IF Pulsing(Candidates[k]) THEN high \cup {Candidates[k]}
                     ELSE high \ {Candidates[k]}, driven)
            /\ edges' = [w \in Wires |->
                           IF ~WireHigh(w, high, driven, won) /\ WireHigh(w, high', driven', won')
                           THEN edges[w] + 1 ELSE edges[w]]
            /\ IF k < Len(Candidates) THEN k' = k + 1 /\ UNCHANGED pc
               ELSE k' = 1 /\ pc' = "hold"
            /\ UNCHANGED tick

\* delay_ms(5) with the levels just written.
Hold == /\ pc = "hold"
        /\ tick' = tick + 1
        /\ pc' = IF tick + 1 < TotalTicks THEN "write" ELSE "gap"
        /\ UNCHANGED <<k, high, driven, won, edges>>

\* Mutant of Gap: the cycle starts where the last one ended.
GapKeepsTick == /\ pc = "gap"
                /\ Drive({}, driven)
                /\ edges' = [w \in Wires |-> 0]
                /\ pc' = "write"
                /\ UNCHANGED <<k, tick>>

\* All low, delay_ms(500), next cycle.
Gap == /\ pc = "gap"
       /\ Drive({}, driven) /\ tick' = 0
       /\ edges' = [w \in Wires |-> 0]
       /\ pc' = "write"
       /\ UNCHANGED k

Next == InitPin \/ Blink \/ WritePin \/ Hold \/ Gap

Spec == Init /\ [][Next]_vars

-----------------------------------------------------------------------------
(***************************************************************************)
(* Properties.                                                             *)
(***************************************************************************)

\* At the end of a cycle the edges counted on the wire of one pin are its number; a
\* shorted pair has counted no fewer than its smaller number and no more than its
\* larger one, however its fights were settled - not the sum the header tells the
\* reader to expect - and every wire has come back low.
CountsWithinPins ==
    pc = "gap" => \A w \in Wires : /\ Min(w) <= edges[w] /\ edges[w] <= Max(w)
                                   /\ ~WireHigh(w, high, driven, won)

\* During the 5 ms of a tick no wire is driven both ways as long as both pins of a
\* shorted pair pulse, in whatever order they are written; the header's "never
\* *fight*" fails once the smaller one has emitted its number.
FightsOnlyInTail ==
    pc = "hold" => \A w \in Wires :
        Contended(w, high, driven) => 2 * Min(w) <= tick /\ tick < 2 * Max(w)

-----------------------------------------------------------------------------
(***************************************************************************)
(* The inductive invariant behind both.                                    *)
(***************************************************************************)

\* The level pin p holds during tick t.
LevelAt(p, t) == t < 2 * p /\ t % 2 = 0

\* Pins already written in this tick have its level, the others that of the last.
Levels ==
    /\ won \subseteq {w \in Wires : Contended(w, high, driven)}
    /\ IF pc = "init" THEN \A a \in 1 .. k - 1 : Candidates[a] \in driven
       ELSE driven = Pins
    /\ pc \in {"init", "gap"} => high = {}
    /\ pc = "blink" => high \subseteq {Led}
    /\ pc = "write" => \A a \in 1 .. Len(Candidates) :
           Candidates[a] \in high <=> IF a < k THEN LevelAt(Candidates[a], tick)
                                      ELSE tick > 0 /\ LevelAt(Candidates[a], tick - 1)
    /\ pc = "hold" => \A p \in Pins : p \in high <=> LevelAt(p, tick)

\* Twice the pulses begun on a wire that has pulsed in every period up to pin p's last.
Begun(w, p) == IF tick >= 2 * p THEN 2 * p
               ELSE IF tick % 2 = 1 THEN tick + 1
               ELSE IF WireHigh(w, high, driven, won) THEN tick + 2 ELSE tick

\* Exact while all pins of the wire pulse; then each fight may add one.
Counted(w) ==
    IF tick < 2 * Min(w) THEN 2 * edges[w] = Begun(w, Min(w))
    ELSE 2 * Min(w) <= 2 * edges[w] /\ 2 * edges[w] <= Begun(w, Max(w))

Counts ==
    /\ pc \in {"init", "blink"} => tick = 0 /\ \A w \in Wires : edges[w] = 0
    /\ pc \in {"write", "hold"} => tick < TotalTicks
    /\ pc = "gap" => tick = TotalTicks
    /\ pc \in {"hold", "gap"} => k = 1
    /\ pc \in {"write", "hold", "gap"} => \A w \in Wires : Counted(w)

IInv == TypeOK /\ Levels /\ Counts
=============================================================================
