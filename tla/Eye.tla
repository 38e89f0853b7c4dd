-------------------------------- MODULE Eye --------------------------------
(***************************************************************************)
(* The shmoo grid of test_psram_shmoo.rs and what a good operating point   *)
(* of it is, said declaratively.  A grid has one row per DQS phase and one *)
(* cell per delayline; a cell is TRUE when every pattern survived the      *)
(* write / read-back round trip at that point.  EyeSelect scans a grid the *)
(* way the source does and is shown to compute what this module says.      *)
(***************************************************************************)
EXTENDS Integers, FiniteSets

CONSTANTS NPhases,   \* rows of Grid 1 (the source: 4)
          NDelays    \* columns of every grid (the source: 16)

ASSUME SizeAssumption == /\ NPhases \in Nat \ {0}
                         /\ NDelays \in Nat \ {0}

Phases == 0 .. NPhases - 1
Delays == 0 .. NDelays - 1

\* Option::None of the two selection functions.
None == -1

Row  == [Delays -> BOOLEAN]
Grid == [Phases -> Row]

PassCount(row) == Cardinality({d \in Delays : row[d]})

\* The cells b..e of the row all pass.
IsRun(row, b, e) == b <= e /\ \A d \in b .. e : row[d]

\* b..e is the first among the longest runs of the row.
IsFirstLongestRun(row, b, e) ==
    /\ IsRun(row, b, e)
    /\ \A c, f \in Delays : IsRun(row, c, f) =>
          /\ f - c <= e - b
          /\ f < e => f - c < e - b

HasRunOfTwo(row) == \E c, f \in Delays : c < f /\ IsRun(row, c, f)

\* The row with the most passing cells, the first one of equals.
IsBestPhase(grid, ph) ==
    /\ PassCount(grid[ph]) > 0
    /\ \A q \in Phases : /\ PassCount(grid[q]) <= PassCount(grid[ph])
                         /\ q < ph => PassCount(grid[q]) < PassCount(grid[ph])

\* The cell in the middle of the first longest run (of two cells or more).
IsBestDelay(row, dly) ==
    \E b, e \in Delays : /\ IsFirstLongestRun(row, b, e)
                         /\ b < e
                         /\ dly = e - ((e - b + 1) \div 2)

\* The pairs (phase, delayline) the selection may return for a grid.
IsChoice(grid, ph, dly) ==
    \/ /\ ph = None /\ dly = None
       /\ \A q \in Phases : PassCount(grid[q]) = 0
    \/ /\ ph \in Phases
       /\ IsBestPhase(grid, ph)
       /\ \/ dly \in Delays /\ IsBestDelay(grid[ph], dly)
          \/ dly = None /\ ~HasRunOfTwo(grid[ph])
=============================================================================
