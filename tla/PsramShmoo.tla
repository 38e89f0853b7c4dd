----------------------------- MODULE PsramShmoo -----------------------------
(***************************************************************************)
(* main() of test_psram_shmoo.rs: five sweeps over the PSRAM's timing      *)
(* registers, each leaving those registers at its last point, the restores *)
(* between them, the selection (Eye!IsChoice, which EyeSelect is proved to *)
(* compute) and the final access at the applied point.                     *)
(*                                                                         *)
(* Environment.  eye says at which (phase, delayline) the chip's answers   *)
(* are sampled correctly.  A mode-register read outside the eye, or at a   *)
(* latency its fixed dummy is not for, may return anything (nothing checks *)
(* it); writes do not depend on the point.  A transaction may time out, at *)
(* most MaxDrops in all: mspi1_mr_read16 then returns zero, a write may or *)
(* may not take effect, and test_one_point returns false.  Drive strength  *)
(* and supply may narrow the eye further, but what Grids 2 to 5 measure is *)
(* only printed, so only Grid 1 keeps its outcomes.                        *)
(***************************************************************************)
EXTENDS Eye, Sequences

CONSTANTS NDrv,        \* drive strengths swept (the source: 4)
          RlValues,    \* read latencies swept (2..7)
          DrefValues,  \* supply trims swept (3..7)
          FixedPhase,  \* the phase of Grids 2, 3 and 5 (2, that is 90 degrees)
          BootMr0,     \* MR0 as the driver leaves it
          BootDref,    \* supply trim at boot (5)
          MaxDrops     \* bound on the transactions that time out

Mr0Type == [drv : 0 .. NDrv - 1, rl : 0 .. 7, lt : 0 .. 1]

ASSUME ShmooAssumption == /\ NDrv \in Nat \ {0}
                          /\ RlValues \in Seq(0 .. 7) /\ RlValues # <<>>
                          /\ DrefValues \in Seq(0 .. 15) /\ DrefValues # <<>>
                          /\ FixedPhase \in Phases
                          /\ BootMr0 \in Mr0Type /\ BootMr0.rl = 6   \* MSPI1's dummies
                          /\ BootDref \in 0 .. 15
                          /\ MaxDrops \in Nat

VARIABLES eye,          \* where reads are sampled correctly (fixed)
          stage, at,    \* the part of main(); "row" | "cell" inside a sweep
          r, d,         \* row and delayline loop indices
          drv4, rl4,    \* outer loops of Grid 4
          phase, dly,   \* live IOMUX timing registers
          mr0, mr1,     \* the chip's mode registers
          ctl_rl,       \* latency MSPI0's read dummy is programmed for
          dref,         \* live supply trim
          default_mr0, saved_dref, grid1, best,
          drops,        \* transactions that timed out
          clean,        \* history: the MR0 saved and every MR1 written back were read right,
                        \* and every write completed
          lost          \* history: the last mode-register write timed out

loopVars == <<stage, at, r, d, drv4, rl4>>
regVars  == <<phase, dly, mr0, mr1, ctl_rl, dref>>
keptVars == <<default_mr0, saved_dref, grid1, best>>
mrVars   == <<mr0, mr1, drops, clean, lost>>
vars     == <<eye, loopVars, regVars, keptVars, drops, clean, lost>>

LastDelay == NDelays - 1

TypeOK == /\ eye \in Grid
          /\ stage \in {"save", "grid1", "enter2", "grid2", "restore2", "grid3",
                        "restore3", "drive4", "latency4", "grid4", "restore4", "enter5",
                        "grid5", "restore5", "select", "apply", "probe", "pass", "fail"}
          /\ at \in {"row", "cell"}
          /\ r \in Nat /\ d \in Delays
          /\ drv4 \in 0 .. NDrv /\ rl4 \in 0 .. Len(RlValues)
          /\ phase \in Phases /\ dly \in Delays
          /\ mr0 \in Mr0Type /\ mr1 \in {"boot", "zero", "ones"}
          /\ ctl_rl \in 0 .. 7 /\ dref \in 0 .. 15
          /\ default_mr0 \in Mr0Type /\ saved_dref \in 0 .. 15
          /\ grid1 \in Grid
          /\ best \in (Phases \cup {None}) \X (Delays \cup {None})
          /\ drops \in 0 .. MaxDrops /\ clean \in BOOLEAN /\ lost \in BOOLEAN

Init == /\ eye \in Grid
        /\ stage = "save" /\ at = "row" /\ r = 0 /\ d = 0 /\ drv4 = 0 /\ rl4 = 0
        /\ phase \in Phases /\ dly \in Delays
        /\ mr0 = BootMr0 /\ mr1 = "boot"
        /\ ctl_rl = BootMr0.rl /\ dref = BootDref
        /\ default_mr0 = BootMr0 /\ saved_dref = BootDref
        /\ grid1 = [p \in Phases |-> [x \in Delays |-> FALSE]]
        /\ best = <<None, None>>
        /\ drops = 0 /\ clean = TRUE /\ lost = FALSE

-----------------------------------------------------------------------------
(***************************************************************************)
(* Mode registers.                                                         *)
(***************************************************************************)

InEye == eye[phase][dly]

\* Dummy bits a chip with latency code rl needs before its data and before a
\* mode register, and those of the constants all of MSPI1's reads are made with.
DummyBits(rl)    == 2 * ((6 + 2 * rl) - 1)
RegDummyBits(rl) == 2 * ((3 + rl) - 1)
Mspi1Dummy       == 34
Mspi1RegDummy    == 16

Zeros == [drv |-> 0, rl |-> 0, lt |-> 0]
Ones  == [drv |-> NDrv - 1, rl |-> 7, lt |-> 1]

\* What mspi1_mr_read16 may return for the low and for the high byte.
Readable == InEye /\ RegDummyBits(mr0.rl) = Mspi1RegDummy
Mr0Read  == IF Readable THEN {mr0} ELSE {mr0, Zeros, Ones}
Mr1Read  == IF Readable THEN {mr1} ELSE {mr1, "zero", "ones"}

\* n of the transactions of a step time out.
TimesOut(n) == drops' = drops + n /\ drops' <= MaxDrops

\* write_mr0, when n transactions of its caller timed out: the high byte written
\* back is the one just read; a write that is given up may have been carried out.
WriteMr0(new, n) ==
    \E read, written \in {0, 1} :
       /\ TimesOut(n + (1 - read) + (1 - written))
       /\ \/ mr0' = new /\ mr1' \in IF read = 1 THEN Mr1Read ELSE {"zero"}
          \/ written = 0 /\ UNCHANGED <<mr0, mr1>>
       /\ lost' = (written = 0)
       /\ clean' = (clean /\ written = 1 /\ mr1' = mr1)

\* read_mr0, when n transactions time out.
Mr0Returned(n) == IF n = 0 THEN Mr0Read ELSE {Zeros}

SetDriveStr(drv) ==
    \E n \in {0, 1} : \E m \in Mr0Returned(n) : WriteMr0([m EXCEPT !.drv = drv], n)
SetReadLatencyMr(rl) ==
    \E n \in {0, 1} : \E m \in Mr0Returned(n) : WriteMr0([m EXCEPT !.rl = rl], n)

\* Mutant of TestOnePoint: the transfer runs before the delayline has moved.
TestOnePointUnsettled == InEye /\ DummyBits(mr0.rl) = Mspi1Dummy

\* test_one_point() at the live registers with default drive and supply.
TestOnePoint == InEye' /\ DummyBits(mr0.rl) = Mspi1Dummy

-----------------------------------------------------------------------------
(***************************************************************************)
(* main(), in program order.                                               *)
(***************************************************************************)

\* Go to the first row (or the single step) of a stage.
Goto(s) == stage' = s /\ at' = "row" /\ r' = 0 /\ d' = 0

SaveDefaults == /\ stage = "save"
                /\ \E n \in {0, 1} : TimesOut(n) /\ default_mr0' \in Mr0Returned(n)
                /\ clean' = (clean /\ default_mr0' = mr0)
                /\ Goto("grid1")
                /\ UNCHANGED <<eye, drv4, rl4, regVars, saved_dref, grid1, best, lost>>

\* Each sweep sets its outer register, then runs along the delaylines.
StartRow == /\ at = "row"
            /\ at' = "cell"
            /\ UNCHANGED <<eye, stage, r, d, drv4, rl4, dly, keptVars>>

PhaseRow == /\ stage \in {"grid1", "grid4"} /\ StartRow
            /\ phase' = r
            /\ UNCHANGED <<mrVars, ctl_rl, dref>>

DriveRow == /\ stage = "grid2" /\ StartRow
            /\ SetDriveStr(r)
            /\ UNCHANGED <<phase, ctl_rl, dref>>

\* Mutant of LatencyRow: the controller's read dummy is left behind.
LatencyRowChipOnly == /\ stage = "grid3" /\ StartRow
                      /\ SetReadLatencyMr(RlValues[r + 1])
                      /\ UNCHANGED <<phase, ctl_rl, dref>>

LatencyRow == /\ stage = "grid3" /\ StartRow
              /\ SetReadLatencyMr(RlValues[r + 1])
              /\ ctl_rl' = RlValues[r + 1]
              /\ UNCHANGED <<phase, dref>>

SupplyRow == /\ stage = "grid5" /\ StartRow
             /\ dref' = DrefValues[r + 1]
             /\ UNCHANGED <<phase, mrVars, ctl_rl>>

Rows == CASE stage \in {"grid1", "grid4"} -> NPhases
          [] stage = "grid2" -> NDrv
          [] stage = "grid3" -> Len(RlValues)
          [] stage = "grid5" -> Len(DrefValues)

AfterSweep == CASE stage = "grid1" -> "enter2"
                [] stage = "grid2" -> "restore2"
                [] stage = "grid3" -> "restore3"
                [] stage = "grid4" -> "latency4"
                [] stage = "grid5" -> "restore5"

\* set_delayline(dly); settle; test_one_point().
Cell == /\ at = "cell"
        /\ dly' = d
        /\ UNCHANGED <<phase, mr0, mr1, ctl_rl, dref, eye>>
        /\ \E n \in IF stage = "grid1" THEN {0, 1} ELSE {0} :
              /\ TimesOut(n)
              /\ grid1' = IF stage = "grid1" THEN [grid1 EXCEPT ![r][d] = n = 0 /\ TestOnePoint]
                         ELSE grid1
        /\ \/ d < LastDelay /\ d' = d + 1 /\ UNCHANGED <<stage, at, r>>
           \/ d = LastDelay /\ r + 1 < Rows /\ d' = 0 /\ at' = "row" /\ r' = r + 1
                            /\ UNCHANGED stage
           \/ d = LastDelay /\ r + 1 = Rows /\ Goto(AfterSweep)
        /\ rl4' = IF stage = "grid4" /\ stage' # "grid4" THEN rl4 + 1 ELSE rl4
        /\ UNCHANGED <<drv4, default_mr0, saved_dref, best, clean, lost>>

\* Grids 2 and 5 fix the phase; Grid 5 saves the supply trim first.
EnterFixedPhase == /\ stage \in {"enter2", "enter5"}
                   /\ phase' = FixedPhase
                   /\ saved_dref' = IF stage = "enter5" THEN dref ELSE saved_dref
                   /\ Goto(IF stage = "enter2" THEN "grid2" ELSE "grid5")
                   /\ UNCHANGED <<eye, drv4, rl4, dly, mrVars, ctl_rl, dref,
                                  default_mr0, grid1, best>>

\* Mutant of Drive4: for drv in 0..=4.
Drive4OneMore ==
    /\ stage = "drive4"
    /\ Goto("latency4") /\ rl4' = 0 /\ SetDriveStr(drv4)
    /\ UNCHANGED <<eye, drv4, phase, dly, ctl_rl, dref, keptVars>>

\* Grid 4: for drv { set_drive_str; for rl { set latency and dummy; 4 * 16 } }.
Drive4 == /\ stage = "drive4"
          /\ IF drv4 = NDrv
             THEN Goto("restore4") /\ UNCHANGED <<rl4, mrVars>>
             ELSE Goto("latency4") /\ rl4' = 0 /\ SetDriveStr(drv4)
          /\ UNCHANGED <<eye, drv4, phase, dly, ctl_rl, dref, keptVars>>

Latency4 == /\ stage = "latency4"
            /\ IF rl4 = Len(RlValues)
               THEN /\ Goto("drive4") /\ drv4' = drv4 + 1
                    /\ UNCHANGED <<mrVars, ctl_rl>>
               ELSE /\ Goto("grid4") /\ UNCHANGED drv4
                    /\ SetReadLatencyMr(RlValues[rl4 + 1])
                    /\ ctl_rl' = RlValues[rl4 + 1]
            /\ UNCHANGED <<eye, rl4, phase, dly, dref, keptVars>>

\* Mutant of RestoreMr0: the controller's dummy is not restored.
RestoreMr0ChipOnly ==
    /\ stage \in {"restore2", "restore3", "restore4"}
    /\ WriteMr0(default_mr0, 0)
    /\ Goto(CASE stage = "restore2" -> "grid3"
              [] stage = "restore3" -> "drive4"
              [] stage = "restore4" -> "enter5")
    /\ UNCHANGED <<eye, drv4, rl4, phase, dly, ctl_rl, dref, keptVars>>

\* write_mr0(default_mr0), and after Grids 3 and 4 the controller's dummy.
RestoreMr0 == /\ stage \in {"restore2", "restore3", "restore4"}
              /\ WriteMr0(default_mr0, 0)
              /\ ctl_rl' = IF stage = "restore2" THEN ctl_rl ELSE default_mr0.rl
              /\ Goto(CASE stage = "restore2" -> "grid3"
                        [] stage = "restore3" -> "drive4"
                        [] stage = "restore4" -> "enter5")
              /\ UNCHANGED <<eye, drv4, rl4, phase, dly, dref, keptVars>>

RestoreSupply == /\ stage = "restore5"
                 /\ dref' = saved_dref
                 /\ Goto("select")
                 /\ UNCHANGED <<eye, drv4, rl4, phase, dly, mrVars, ctl_rl, keptVars>>

Select == /\ stage = "select"
          /\ \E ph \in Phases \cup {None}, x \in Delays \cup {None} :
                /\ IsChoice(grid1, ph, x)
                /\ best' = <<ph, x>>
                /\ Goto(IF x = None THEN "fail" ELSE "apply")
          /\ UNCHANGED <<eye, drv4, rl4, regVars, default_mr0, saved_dref, grid1,
                         drops, clean, lost>>

\* Mutant of Apply: the phase is applied, the delayline is not.
ApplyPhaseOnly ==
    /\ stage = "apply" /\ phase' = best[1] /\ Goto("probe")
    /\ UNCHANGED <<eye, drv4, rl4, dly, mrVars, ctl_rl, dref, keptVars>>

Apply == /\ stage = "apply"
         /\ phase' = best[1] /\ dly' = best[2]
         /\ Goto("probe")
         /\ UNCHANGED <<eye, drv4, rl4, mrVars, ctl_rl, dref, keptVars>>

\* The cache-side write and read-back; the cache path may fail for reasons of
\* its own.
Probe == /\ stage = "probe"
         /\ \E match \in BOOLEAN : Goto(IF match THEN "pass" ELSE "fail")
         /\ UNCHANGED <<eye, drv4, rl4, regVars, keptVars, drops, clean, lost>>

Park == stage \in {"pass", "fail"} /\ UNCHANGED vars

Next == \/ SaveDefaults \/ PhaseRow \/ DriveRow \/ LatencyRow \/ SupplyRow \/ Cell
        \/ EnterFixedPhase \/ Drive4 \/ Latency4 \/ RestoreMr0 \/ RestoreSupply
        \/ Select \/ Apply \/ Probe \/ Park

Spec == Init /\ [][Next]_vars

-----------------------------------------------------------------------------
(***************************************************************************)
(* Properties.                                                             *)
(***************************************************************************)

Over == stage \in {"probe", "pass", "fail"}

\* Grid 1 is measured before any sweep disturbs the chip, each cell at its own
\* registers: when it is complete it holds no point outside the eye, and all of the
\* eye unless a transfer timed out.
Grid1IsTheEye ==
    stage \notin {"save", "grid1"} =>
        /\ \A p \in Phases : \A x \in Delays : grid1[p][x] => eye[p][x]
        /\ drops = 0 => grid1 = eye

\* The cache-side access runs at a point that was measured as passing together
\* with its neighbour, whatever the four later sweeps left in the registers and
\* whichever transfers timed out.
ProbeInsideEye ==
    stage \in {"probe", "pass"} => /\ <<phase, dly>> = best
                                   /\ eye[phase][dly]
                                   /\ eye[phase][dly + 1]

\* A cell of Grids 3 and 4 is never measured with the controller's read dummy
\* set for another latency than the chip's, unless the write of the latency
\* itself timed out: it sets the field whatever the preceding reads returned.
LatencyInStep ==
    [][(Cell /\ stage \in {"grid3", "grid4"} /\ ~lost) => ctl_rl = mr0.rl]_vars

\* The sweeps leave nothing behind: when the final access runs, supply and the
\* controller's dummy are what they were at boot, the mode register is what
\* read_mr0 saved - whatever the reads of the read-modify-writes in between
\* returned and whichever of their writes timed out, the last one excepted -
\* and MR1 is untouched unless something went wrong.  (write_mr0's "preserving MR1
\* byte" does not hold of a byte read outside the eye.)
Restored ==
    Over => /\ dref = BootDref
            /\ ctl_rl = default_mr0.rl
            /\ lost \/ mr0 = default_mr0
            /\ clean => mr0 = BootMr0 /\ mr1 = "boot"

-----------------------------------------------------------------------------
(***************************************************************************)
(* The inductive invariant the proofs use, in named parts.                 *)
(***************************************************************************)

Sweeps == {"grid1", "grid2", "grid3", "grid4", "grid5"}

\* The loop indices stay inside their loops, and a row's phase is its own.
LoopInv == /\ IF stage \in Sweeps THEN r < Rows ELSE at = "row"
           /\ at = "row" => d = 0
           /\ stage \in {"latency4", "grid4"} => drv4 < NDrv
           /\ stage = "grid4" => rl4 < Len(RlValues)
           /\ at = "cell" /\ stage \in {"grid1", "grid4"} => phase = r

\* Nothing but Grid 5 moves the supply.
SupplyInv == /\ saved_dref = BootDref
             /\ stage \notin {"grid5", "restore5"} => dref = BootDref

\* Up to the end of Grid 1 the chip and the controller are as at boot.
BootInv == stage \in {"save", "grid1", "enter2"} =>
              mr0 = BootMr0 /\ mr1 = "boot" /\ ctl_rl = BootMr0.rl

\* While nothing has gone wrong MR1 is untouched and the MR0 saved is the boot one.
CleanInv == clean => /\ ~lost
                     /\ mr1 = "boot"
                     /\ stage # "save" => default_mr0 = BootMr0

\* The chip and the controller change latency together, and go back together.
LatencyInv ==
    /\ stage = "grid4" \/ (stage = "grid3" /\ at = "cell") => lost \/ ctl_rl = mr0.rl
    /\ stage \in {"enter5", "grid5", "restore5", "select", "apply"} \/ Over =>
          ctl_rl = default_mr0.rl /\ (lost \/ mr0 = default_mr0)

\* What Grid 1 has measured so far.
Measured(p, x) == \/ stage \notin {"save", "grid1"}
                  \/ stage = "grid1" /\ p < r
                  \/ stage = "grid1" /\ p = r /\ at = "cell" /\ x < d

Grid1Inv == \A p \in Phases : \A x \in Delays :
               /\ grid1[p][x] => eye[p][x]
               /\ drops = 0 /\ Measured(p, x) => grid1[p][x] = eye[p][x]

\* What is applied is the selection's choice from Grid 1.
ChoiceInv == /\ stage \in {"apply", "probe", "pass"} =>
                   /\ best \in Phases \X Delays
                   /\ IsChoice(grid1, best[1], best[2])
             /\ stage \in {"probe", "pass"} => <<phase, dly>> = best

IInv == /\ TypeOK /\ LoopInv /\ SupplyInv /\ BootInv /\ CleanInv /\ LatencyInv
        /\ Grid1Inv /\ ChoiceInv
=============================================================================
