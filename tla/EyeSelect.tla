----------------------------- MODULE EyeSelect -----------------------------
(***************************************************************************)
(* How test_psram_shmoo.rs picks an operating point from Grid 1:           *)
(* select_best_phase visits the rows, select_best_delayline the cells of   *)
(* the chosen row, each keeping a running best.  One step is one iteration *)
(* of the loop; the scan ends in the pair main() applies (or does not).    *)
(***************************************************************************)
EXTENDS Eye

VARIABLES grid,         \* grid1, fixed when the selection starts
          pc,           \* "phase" | "delay" | "done"
          id,           \* next row of select_best_phase
          best_len,     \* most passes seen in a row
          best_phase,   \* that row, or None
          i,            \* next cell of select_best_delayline
          cur,          \* length of the run that ends at i - 1
          longest,      \* length of the longest run seen
          longest_end,  \* its last cell
          best_delay    \* the selected delayline, or None

scanVars == <<grid, pc, id, best_len, best_phase, i, cur, longest, longest_end,
          best_delay>>
phaseVars == <<id, best_len, best_phase>>
delayVars == <<i, cur, longest, longest_end>>

ScanTypeOK == /\ grid \in Grid
          /\ pc \in {"phase", "delay", "done"}
          /\ id \in 0 .. NPhases
          /\ best_len \in Nat
          /\ best_phase \in Phases \cup {None}
          /\ i \in 0 .. NDelays
          /\ cur \in 0 .. NDelays
          /\ longest \in 0 .. NDelays
          /\ longest_end \in Delays
          /\ best_delay \in Delays \cup {None}

ScanInit == /\ grid \in Grid
        /\ pc = "phase"
        /\ id = 0 /\ best_len = 0 /\ best_phase = None
        /\ i = 0 /\ cur = 0 /\ longest = 0 /\ longest_end = 0
        /\ best_delay = None

(* Mutants of the scan, each a slip its loops invite.                      *)
CountRowLastOfEquals ==   \* >= for >
    /\ pc = "phase" /\ id < NPhases
    /\ id' = id + 1
    /\ IF PassCount(grid[id]) >= best_len
       THEN best_len' = PassCount(grid[id]) /\ best_phase' = id
       ELSE UNCHANGED <<best_len, best_phase>>
    /\ UNCHANGED <<grid, pc, delayVars, best_delay>>

FailCellKeepsRun ==   \* cur = 0 forgotten
    /\ pc = "delay" /\ i < NDelays /\ ~grid[best_phase][i]
    /\ i' = i + 1
    /\ UNCHANGED <<grid, pc, phaseVars, cur, longest, longest_end, best_delay>>

DelayChosenWith(least, centre) ==
    /\ pc = "delay" /\ i = NDelays
    /\ best_delay' = IF longest < least THEN None ELSE centre
    /\ pc' = "done"
    /\ UNCHANGED <<grid, phaseVars, delayVars>>
DelayOfSingleCell == DelayChosenWith(1, longest_end - (longest \div 2))
DelayBeyondEnd    == DelayChosenWith(2, longest_end + (longest \div 2))

(* if pass_count > best_len { best_len = pass_count; best_phase = id } *)
CountRow == /\ pc = "phase" /\ id < NPhases
            /\ id' = id + 1
            /\ IF PassCount(grid[id]) > best_len
               THEN best_len' = PassCount(grid[id]) /\ best_phase' = id
               ELSE UNCHANGED <<best_len, best_phase>>
            /\ UNCHANGED <<grid, pc, delayVars, best_delay>>

(* best_phase.and_then(...): without a phase no delayline is looked for. *)
PhaseChosen == /\ pc = "phase" /\ id = NPhases
               /\ pc' = IF best_phase = None THEN "done" ELSE "delay"
               /\ UNCHANGED <<grid, phaseVars, delayVars, best_delay>>

PassCell == /\ pc = "delay" /\ i < NDelays
            /\ grid[best_phase][i]
            /\ i' = i + 1
            /\ cur' = cur + 1
            /\ IF cur' > longest
               THEN longest' = cur' /\ longest_end' = i
               ELSE UNCHANGED <<longest, longest_end>>
            /\ UNCHANGED <<grid, pc, phaseVars, best_delay>>

FailCell == /\ pc = "delay" /\ i < NDelays
            /\ ~grid[best_phase][i]
            /\ i' = i + 1
            /\ cur' = 0
            /\ UNCHANGED <<grid, pc, phaseVars, longest, longest_end, best_delay>>

DelayChosen == /\ pc = "delay" /\ i = NDelays
               /\ best_delay' = IF longest <= 1 THEN None
                                ELSE longest_end - (longest \div 2)
               /\ pc' = "done"
               /\ UNCHANGED <<grid, phaseVars, delayVars>>

(* main() goes on to park_alive() whatever was selected. *)
ScanOver == pc = "done" /\ UNCHANGED scanVars

ScanNext == CountRow \/ PhaseChosen \/ PassCell \/ FailCell \/ DelayChosen \/ ScanOver

ScanSpec == ScanInit /\ [][ScanNext]_scanVars

-----------------------------------------------------------------------------
(***************************************************************************)
(* Properties.                                                             *)
(***************************************************************************)

\* What main() applies when the scan is over: the middle of the first longest
\* run of the first row with the most passes.
SelectionCorrect == pc = "done" => IsChoice(grid, best_phase, best_delay)

\* The point applied to the live registers passed, and so did the next cell;
\* in an eye three cells wide or more both its neighbours passed, so that one
\* delay step of drift in either direction stays inside the eye.
AppliedPointHasMargin ==
    (pc = "done" /\ best_delay # None) =>
       /\ grid[best_phase][best_delay]
       /\ best_delay + 1 \in Delays /\ grid[best_phase][best_delay + 1]
       /\ (\E c \in Delays : c + 2 \in Delays /\ IsRun(grid[best_phase], c, c + 2)) =>
             best_delay - 1 \in Delays /\ grid[best_phase][best_delay - 1]

\* Both loops keep their best-so-far exact after every iteration.  The rows
\* before id: none beats best_len, and those before best_phase are worse.  The
\* cells before i: the current run is maximal to the left, longest_end ends a
\* run of length longest, no run is longer and the earlier ones are shorter.
\* Inductive together with ScanTypeOK.
PhaseScan ==
    /\ best_phase = None => best_len = 0
    /\ best_phase # None => /\ best_phase < id
                            /\ best_len > 0
                            /\ best_len = PassCount(grid[best_phase])
    /\ \A q \in Phases : q < id => /\ PassCount(grid[q]) <= best_len
                                   /\ q < best_phase => PassCount(grid[q]) < best_len
    /\ pc # "phase" => id = NPhases
    /\ pc = "phase" => i = 0
    /\ pc = "delay" => best_phase # None

DelayScan ==
    /\ i = 0 => cur = 0 /\ longest = 0
    /\ pc # "done" => best_delay = None
    /\ best_phase # None =>
          LET row == grid[best_phase]
          IN  /\ cur <= i
              /\ cur <= longest
              /\ \A d \in Delays : (i - cur <= d /\ d < i) => row[d]
              /\ cur < i => ~row[i - cur - 1]
              /\ longest > 0 => /\ longest_end < i
                                /\ longest <= longest_end + 1
                                /\ IsRun(row, longest_end - longest + 1, longest_end)
              /\ \A c, f \in Delays : (f < i /\ IsRun(row, c, f)) =>
                    /\ f - c < longest
                    /\ f < longest_end => f - c < longest - 1

Finished ==
    pc = "done" => /\ best_phase = None => best_delay = None
                   /\ best_phase # None =>
                        /\ i = NDelays
                        /\ best_delay = IF longest <= 1 THEN None
                                        ELSE longest_end - (longest \div 2)

ScanInv == PhaseScan /\ DelayScan /\ Finished

SelectionInv == ScanTypeOK /\ ScanInv
=============================================================================
