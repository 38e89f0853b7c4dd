-------------------------- MODULE PsramShmoo_proofs --------------------------
(***************************************************************************)
(* Proofs about test_psram_shmoo.rs.  First PsramShmoo, for grids, sweeps  *)
(* and eyes of every size and any number of transactions that time out:    *)
(* IInv is inductive, and the properties of the module follow from it.     *)
(* Then EyeSelect, for grids of every size: the scans that PsramShmoo's    *)
(* Select abstracts return what Eye!IsChoice says, and an applied point    *)
(* has the margin AppliedPointHasMargin claims.                            *)
(***************************************************************************)
EXTENDS PsramShmoo, EyeSelect, FiniteSetTheorems, TLAPS

\* What every write_mr0 does to the mode registers and the history.
MrStep == /\ mr0' \in Mr0Type /\ mr1' \in {"boot", "zero", "ones"}
          /\ drops' \in 0 .. MaxDrops /\ (drops' = 0 => drops = 0)
          /\ lost' \in BOOLEAN /\ clean' \in BOOLEAN
          /\ clean' => clean /\ ~lost' /\ mr1' = mr1

LEMMA TimesOutCounts ==
    ASSUME TypeOK, NEW n \in Nat, TimesOut(n)
    PROVE  drops' \in 0 .. MaxDrops /\ (drops' = 0 => drops = 0)
BY ShmooAssumption DEF TypeOK, TimesOut

LEMMA WriteMr0Step ==
    ASSUME TypeOK, NEW new \in Mr0Type, NEW n \in {0, 1}, WriteMr0(new, n)
    PROVE  MrStep /\ (~lost' => mr0' = new)
<1>1. PICK read \in {0, 1}, written \in {0, 1} :
         /\ TimesOut(n + (1 - read) + (1 - written))
         /\ \/ mr0' = new /\ mr1' \in IF read = 1 THEN Mr1Read ELSE {"zero"}
            \/ written = 0 /\ UNCHANGED <<mr0, mr1>>
         /\ lost' = (written = 0)
         /\ clean' = (clean /\ written = 1 /\ mr1' = mr1)
  BY DEF WriteMr0
<1>2. n + (1 - read) + (1 - written) \in Nat
  OBVIOUS
<1>3. drops' \in 0 .. MaxDrops /\ (drops' = 0 => drops = 0)
  BY <1>1, <1>2, TimesOutCounts
<1>4. Mr1Read \subseteq {"boot", "zero", "ones"}
  BY DEF Mr1Read, TypeOK
<1>5. mr0' \in Mr0Type /\ mr1' \in {"boot", "zero", "ones"}
  BY <1>1, <1>4 DEF TypeOK
<1>6. lost' \in BOOLEAN /\ clean' \in BOOLEAN
  BY <1>1
<1>7. (lost' <=> written = 0) /\ (clean' <=> clean /\ written = 1 /\ mr1' = mr1)
  BY <1>1, Zenon
<1>8. CASE written = 1
  <2>1. written # 0 /\ mr0' = new
    BY <1>1, <1>8
  <2> QED BY <1>3, <1>5, <1>6, <1>7, <2>1, Zenon DEF MrStep
<1>9. CASE written = 0
  <2>1. written # 1
    BY <1>9
  <2> QED BY <1>3, <1>5, <1>6, <1>7, <1>9, <2>1, Zenon DEF MrStep
<1> QED BY <1>8, <1>9

(* read_mr0 returns some value of the register's type. *)
LEMMA Mr0ReturnedType ==
    ASSUME TypeOK, NEW n \in {0, 1} PROVE Mr0Returned(n) \subseteq Mr0Type
<1>1. Zeros \in Mr0Type /\ Ones \in Mr0Type
  BY ShmooAssumption DEF Zeros, Ones, Mr0Type
<1> QED BY <1>1 DEF Mr0Returned, Mr0Read, TypeOK

LEMMA SetDriveStrStep ==
    ASSUME TypeOK, NEW drv \in 0 .. NDrv - 1, SetDriveStr(drv) PROVE MrStep
<1>1. PICK n \in {0, 1} : \E m \in Mr0Returned(n) : WriteMr0([m EXCEPT !.drv = drv], n)
  BY DEF SetDriveStr
<1>2. PICK m \in Mr0Returned(n) : WriteMr0([m EXCEPT !.drv = drv], n)
  BY <1>1
<1>3. m \in Mr0Type
  BY Mr0ReturnedType
<1>4. [m EXCEPT !.drv = drv] \in Mr0Type
  BY <1>3 DEF Mr0Type
<1> QED BY <1>2, <1>4, WriteMr0Step

(* Unless its write times out the latency field holds what was asked for, *)
(* whatever the read before it returned.                                   *)
LEMMA SetReadLatencyStep ==
    ASSUME TypeOK, NEW rl \in 0 .. 7, SetReadLatencyMr(rl)
    PROVE  MrStep /\ (~lost' => mr0'.rl = rl)
<1>1. PICK n \in {0, 1} : \E m \in Mr0Returned(n) : WriteMr0([m EXCEPT !.rl = rl], n)
  BY DEF SetReadLatencyMr
<1>2. PICK m \in Mr0Returned(n) : WriteMr0([m EXCEPT !.rl = rl], n)
  BY <1>1
<1>3. m \in Mr0Type
  BY Mr0ReturnedType
<1>4. [m EXCEPT !.rl = rl] \in Mr0Type /\ [m EXCEPT !.rl = rl].rl = rl
  BY <1>3 DEF Mr0Type
<1> QED BY <1>2, <1>4, WriteMr0Step

(* A step that leaves the mode registers alone is a harmless MrStep. *)
LEMMA NoMrStep == ASSUME IInv, UNCHANGED mrVars PROVE MrStep
<1>1. UNCHANGED <<mr0, mr1, drops, clean, lost>>
  BY DEF mrVars
<1>2. clean => ~lost
  BY DEF IInv, CleanInv
<1>3. clean' => clean /\ ~lost' /\ mr1' = mr1
  BY <1>1, <1>2, Zenon
<1>4. (drops' = 0 => drops = 0) /\ lost' \in BOOLEAN /\ clean' \in BOOLEAN
  BY <1>1 DEF IInv, TypeOK
<1>5. /\ mr0' \in Mr0Type /\ mr1' \in {"boot", "zero", "ones"}
      /\ drops' \in 0 .. MaxDrops
  BY <1>1 DEF IInv, TypeOK
<1> QED BY <1>3, <1>4, <1>5, Zenon DEF MrStep

-----------------------------------------------------------------------------
(* Once Grid 1 is complete only its copy has to be kept. *)
LEMMA Grid1Kept ==
    ASSUME Grid1Inv, stage \notin {"save", "grid1"}, UNCHANGED <<grid1, eye>>,
           drops' = 0 => drops = 0
    PROVE  Grid1Inv'
<1>1. \A p \in Phases : \A x \in Delays :
         (grid1[p][x] => eye[p][x]) /\ (drops = 0 => grid1[p][x] = eye[p][x])
  BY DEF Grid1Inv, Measured
<1> QED BY <1>1 DEF Grid1Inv

LEMMA InitInv == Init => IInv
<1> SUFFICES ASSUME Init PROVE IInv
  OBVIOUS
<1> USE ShmooAssumption, SizeAssumption
<1>1. 0 \in Delays /\ 0 \in 0 .. NDrv /\ 0 \in 0 .. Len(RlValues) /\ 0 \in 0 .. MaxDrops
  BY DEF Delays
<1>2. grid1 \in Grid
  BY DEF Init, Grid, Row
<1>3. BootMr0.rl \in 0 .. 7
  BY DEF Mr0Type
<1>4. TypeOK
  BY <1>1, <1>2, <1>3 DEF Init, TypeOK
<1>5. LoopInv /\ SupplyInv /\ BootInv /\ CleanInv /\ LatencyInv /\ ChoiceInv
  BY DEF Init, LoopInv, Sweeps, SupplyInv, BootInv, CleanInv, LatencyInv, ChoiceInv, Over
<1>6. Grid1Inv
  BY DEF Init, Grid1Inv, Measured
<1> QED BY <1>4, <1>5, <1>6 DEF IInv

(* The first transaction of all may already time out, and read the chip at *)
(* whatever point the driver left.                                         *)
LEMMA SaveDefaultsInv == ASSUME IInv, SaveDefaults PROVE IInv'
<1> USE ShmooAssumption, SizeAssumption DEF IInv, SaveDefaults, Goto, regVars
<1>1. PICK n \in {0, 1} : TimesOut(n) /\ default_mr0' \in Mr0Returned(n)
  OBVIOUS
<1>2. drops' \in 0 .. MaxDrops /\ (drops' = 0 => drops = 0)
  BY <1>1, TimesOutCounts
<1>3. default_mr0' \in Mr0Type
  BY <1>1, Mr0ReturnedType
<1>4. clean' \in BOOLEAN /\ (clean' => clean /\ default_mr0' = mr0)
  OBVIOUS
<1>5. TypeOK'
  BY <1>2, <1>3, <1>4 DEF TypeOK, Delays
<1>6. LoopInv' /\ SupplyInv' /\ BootInv' /\ LatencyInv' /\ ChoiceInv'
  BY DEF LoopInv, Sweeps, Rows, SupplyInv, BootInv, LatencyInv, ChoiceInv, Over
<1>7. CleanInv'
  BY <1>4 DEF CleanInv, BootInv
<1>8. Grid1Inv'
  BY <1>2 DEF Grid1Inv, Measured, TypeOK, Phases, Delays
<1> QED BY <1>5, <1>6, <1>7, <1>8

(* A row of a sweep begins: every conjunct but those of its own register. *)
LEMMA StartRowInv ==
    ASSUME IInv, StartRow, stage \in Sweeps, phase' \in Phases, dref' \in 0 .. 15,
           ctl_rl' \in 0 .. 7, MrStep,
           stage \in {"grid1", "grid4"} => phase' = r,
           stage # "grid5" => dref' = dref,
           stage \in {"grid1", "grid4", "grid5"} =>
              UNCHANGED <<mr0, mr1, lost, ctl_rl>>,
           stage = "grid3" => (lost' \/ ctl_rl' = mr0'.rl)
    PROVE  IInv'
<1> USE ShmooAssumption DEF IInv, StartRow, keptVars
<1>1. TypeOK'
  BY DEF TypeOK, MrStep
<1>2. LoopInv'
  BY DEF LoopInv, Sweeps, Rows
<1>3. SupplyInv' /\ BootInv'
  BY DEF SupplyInv, BootInv, Sweeps
<1>4. CleanInv'
  BY DEF CleanInv, MrStep, Sweeps
<1>5. LatencyInv' /\ ChoiceInv'
  BY DEF LatencyInv, ChoiceInv, Over, Sweeps
<1>6. Grid1Inv'
  <2>1. CASE stage = "grid1"
    <3>1. d = 0
      BY <2>1 DEF LoopInv, Sweeps
    <3> QED BY <2>1, <3>1 DEF Grid1Inv, Measured, MrStep, TypeOK, Phases, Delays
  <2>2. CASE stage # "grid1"
    BY <2>2, Grid1Kept DEF MrStep, Sweeps
  <2> QED BY <2>1, <2>2
<1> QED BY <1>1, <1>2, <1>3, <1>4, <1>5, <1>6

LEMMA PhaseRowInv == ASSUME IInv, PhaseRow PROVE IInv'
<1> USE DEF PhaseRow, mrVars
<1>1. MrStep
  BY NoMrStep
<1>2. stage \in Sweeps /\ r \in Phases
  BY SizeAssumption DEF IInv, LoopInv, TypeOK, Sweeps, Rows, Phases
<1>3. ctl_rl' \in 0 .. 7 /\ dref' \in 0 .. 15
  BY DEF IInv, TypeOK
<1> QED BY <1>1, <1>2, <1>3, StartRowInv

LEMMA DriveRowInv == ASSUME IInv, DriveRow PROVE IInv'
<1> USE DEF DriveRow
<1>1. r \in 0 .. NDrv - 1
  BY ShmooAssumption DEF IInv, LoopInv, TypeOK, Sweeps, Rows
<1>2. MrStep
  BY <1>1, SetDriveStrStep DEF IInv
<1>3. phase' \in Phases /\ ctl_rl' \in 0 .. 7 /\ dref' \in 0 .. 15
  BY DEF IInv, TypeOK
<1> QED BY <1>2, <1>3, StartRowInv DEF Sweeps

LEMMA LatencyRowInv == ASSUME IInv, LatencyRow PROVE IInv'
<1> USE DEF LatencyRow
<1>1. r + 1 \in 1 .. Len(RlValues)
  BY ShmooAssumption DEF IInv, LoopInv, TypeOK, Sweeps, Rows
<1>2. RlValues[r + 1] \in 0 .. 7
  BY <1>1, ShmooAssumption
<1>3. MrStep /\ (~lost' => mr0'.rl = RlValues[r + 1])
  BY <1>2, SetReadLatencyStep DEF IInv
<1>4. phase' \in Phases /\ ctl_rl' \in 0 .. 7 /\ dref' \in 0 .. 15
  BY <1>2 DEF IInv, TypeOK
<1> QED BY <1>3, <1>4, StartRowInv DEF Sweeps

LEMMA SupplyRowInv == ASSUME IInv, SupplyRow PROVE IInv'
<1> USE DEF SupplyRow, mrVars
<1>1. r + 1 \in 1 .. Len(DrefValues)
  BY ShmooAssumption DEF IInv, LoopInv, TypeOK, Sweeps, Rows
<1>2. DrefValues[r + 1] \in 0 .. 15
  BY <1>1, ShmooAssumption
<1>3. MrStep
  BY NoMrStep
<1>4. phase' \in Phases /\ ctl_rl' \in 0 .. 7 /\ dref' \in 0 .. 15
  BY <1>2 DEF IInv, TypeOK
<1> QED BY <1>3, <1>4, StartRowInv DEF Sweeps

-----------------------------------------------------------------------------
(* One cell of a sweep.  Only those of Grid 1 keep an outcome: a cell that *)
(* passes is in the eye, and one in the eye passes unless it times out.    *)
LEMMA CellInv == ASSUME IInv, Cell PROVE IInv'
<1> USE ShmooAssumption, SizeAssumption
<1>1. PICK n \in IF stage = "grid1" THEN {0, 1} ELSE {0} :
         /\ TimesOut(n)
         /\ grid1' = IF stage = "grid1" THEN [grid1 EXCEPT ![r][d] = n = 0 /\ TestOnePoint]
                    ELSE grid1
  BY DEF Cell
<1>2. n \in {0, 1} /\ drops' \in 0 .. MaxDrops /\ (drops' = 0 => drops = 0 /\ n = 0)
  <2>1. n \in {0, 1}
    BY <1>1
  <2>2. drops \in Nat /\ drops' = drops + n
    BY <1>1 DEF IInv, TypeOK, TimesOut
  <2> QED BY <1>1, <2>1, <2>2, TimesOutCounts DEF IInv
<1>3. /\ at = "cell" /\ dly' = d
      /\ UNCHANGED <<phase, mr0, mr1, ctl_rl, dref, eye, drv4, default_mr0, saved_dref,
                     best, clean, lost>>
  BY DEF Cell
<1>4. stage \in Sweeps /\ r < Rows
  BY <1>3 DEF IInv, LoopInv
<1>5. \/ d < LastDelay /\ d' = d + 1 /\ UNCHANGED <<stage, at, r>>
      \/ d = LastDelay /\ r + 1 < Rows /\ d' = 0 /\ at' = "row" /\ r' = r + 1
                       /\ UNCHANGED stage
      \/ d = LastDelay /\ r + 1 = Rows /\ stage' = AfterSweep /\ at' = "row"
                       /\ r' = 0 /\ d' = 0
  BY DEF Cell, Goto
<1>6. stage' = stage \/ stage' = AfterSweep
  BY <1>5
<1>7. rl4' = IF stage = "grid4" /\ stage' # "grid4" THEN rl4 + 1 ELSE rl4
  BY DEF Cell
<1>8. rl4' \in 0 .. Len(RlValues) /\ (stage' = "grid4" => rl4' < Len(RlValues))
  BY <1>4, <1>6, <1>7 DEF IInv, TypeOK, LoopInv, Sweeps, AfterSweep
<1>9. d' \in Delays /\ r' \in Nat /\ at' \in {"row", "cell"}
  BY <1>5 DEF IInv, TypeOK, Delays, LastDelay
<1>10. grid1' \in Grid
  <2>1. CASE stage = "grid1"
    <3>1. r \in Phases /\ d \in Delays
      BY <1>4, <2>1 DEF IInv, TypeOK, Rows, Phases
    <3>2. (n = 0 /\ TestOnePoint) \in BOOLEAN
      OBVIOUS
    <3> QED BY <1>1, <2>1, <3>1, <3>2 DEF IInv, TypeOK, Grid, Row
  <2>2. CASE stage # "grid1"
    BY <1>1, <2>2 DEF IInv, TypeOK
  <2> QED BY <2>1, <2>2
<1>11. TypeOK'
  <2>1. AfterSweep \in {"enter2", "restore2", "restore3", "latency4", "restore5"}
    BY <1>4 DEF Sweeps, AfterSweep
  <2> QED BY <1>2, <1>3, <1>6, <1>8, <1>9, <1>10, <2>1 DEF IInv, TypeOK
<1>12. LoopInv'
  <2>1. CASE stage' = stage
    BY <1>3, <1>4, <1>5, <1>8, <2>1 DEF IInv, TypeOK, LoopInv, Sweeps, Rows, AfterSweep
  <2>2. CASE stage' = AfterSweep
    BY <1>3, <1>4, <1>5, <1>8, <2>2 DEF IInv, LoopInv, Sweeps, AfterSweep
  <2> QED BY <1>6, <2>1, <2>2
<1>13. SupplyInv' /\ BootInv' /\ CleanInv'
  BY <1>3, <1>4, <1>6 DEF IInv, SupplyInv, BootInv, CleanInv, Sweeps, AfterSweep
<1>14. LatencyInv'
  BY <1>3, <1>4, <1>6 DEF IInv, LatencyInv, Sweeps, AfterSweep, Over
<1>15. Grid1Inv'
  <2>1. CASE stage = "grid1"
    <3>1. r \in Phases /\ d \in Delays /\ phase = r
      BY <1>3, <1>4, <2>1 DEF IInv, TypeOK, LoopInv, Rows, Phases
    <3>2. TestOnePoint <=> eye[r][d]
      <4>1. mr0.rl = 6
        BY <2>1 DEF IInv, BootInv
      <4>2. InEye' = eye[r][d]
        BY <1>3, <3>1 DEF InEye
      <4> QED BY <4>1, <4>2 DEF TestOnePoint, DummyBits, Mspi1Dummy
    <3>3. grid1' = [grid1 EXCEPT ![r][d] = n = 0 /\ TestOnePoint]
      BY <1>1, <2>1
    <3>4. ASSUME NEW p \in Phases, NEW x \in Delays, <<p, x>> # <<r, d>>
          PROVE  grid1'[p][x] = grid1[p][x]
      BY <3>1, <3>3, <3>4 DEF IInv, TypeOK, Grid, Row
    <3>5. grid1'[r][d] = (n = 0 /\ TestOnePoint)
      BY <3>1, <3>3 DEF IInv, TypeOK, Grid, Row
    <3>6. ASSUME NEW p \in Phases, NEW x \in Delays, <<p, x>> # <<r, d>>, Measured(p, x)'
          PROVE  Measured(p, x)
      <4>1. CASE stage' = stage
        BY <1>3, <1>5, <2>1, <3>1, <3>6, <4>1
           DEF Measured, Phases, Delays, LastDelay, AfterSweep
      <4>2. CASE stage' = AfterSweep
        BY <1>3, <1>5, <2>1, <3>1, <3>6, <4>2
           DEF Measured, Phases, Delays, LastDelay, AfterSweep, Rows
      <4> QED BY <1>6, <4>1, <4>2
    <3>7. \A p \in Phases : \A x \in Delays : <<p, x>> # <<r, d>> =>
             /\ grid1'[p][x] => eye'[p][x]
             /\ drops' = 0 /\ Measured(p, x)' => grid1'[p][x] = eye'[p][x]
      BY <1>2, <1>3, <3>4, <3>6 DEF IInv, Grid1Inv
    <3>8. /\ grid1'[r][d] => eye'[r][d]
          /\ drops' = 0 => grid1'[r][d] = eye'[r][d]
      <4>1. eye[r][d] \in BOOLEAN /\ eye' = eye
        BY <1>3, <3>1 DEF IInv, TypeOK, Grid, Row
      <4>2. drops' = 0 => n = 0
        BY <1>2
      <4> QED BY <3>2, <3>5, <4>1, <4>2, Zenon
    <3> QED BY <3>7, <3>8 DEF Grid1Inv
  <2>2. CASE stage # "grid1"
    BY <1>1, <1>2, <1>3, <1>4, <2>2, Grid1Kept DEF IInv, Sweeps
  <2> QED BY <2>1, <2>2
<1>16. ChoiceInv'
  BY <1>3, <1>4, <1>6 DEF IInv, ChoiceInv, Sweeps, AfterSweep
<1> QED BY <1>11, <1>12, <1>13, <1>14, <1>15, <1>16 DEF IInv

-----------------------------------------------------------------------------
(* Between the sweeps. *)
LEMMA EnterFixedPhaseInv == ASSUME IInv, EnterFixedPhase PROVE IInv'
<1> USE ShmooAssumption, SizeAssumption DEF EnterFixedPhase, Goto, mrVars
<1>1. stage' \in {"grid2", "grid5"} /\ saved_dref' = BootDref
  BY DEF IInv, SupplyInv
<1>2. TypeOK'
  BY <1>1 DEF IInv, TypeOK, Delays
<1>3. LoopInv'
  BY <1>1 DEF IInv, LoopInv, Sweeps, Rows
<1>4. SupplyInv' /\ BootInv' /\ CleanInv' /\ LatencyInv' /\ ChoiceInv'
  BY <1>1 DEF IInv, SupplyInv, BootInv, CleanInv, LatencyInv, ChoiceInv, Over
<1>5. Grid1Inv'
  BY Grid1Kept DEF IInv
<1> QED BY <1>2, <1>3, <1>4, <1>5 DEF IInv

LEMMA Drive4Inv == ASSUME IInv, Drive4 PROVE IInv'
<1> USE ShmooAssumption, SizeAssumption DEF Drive4, Goto, keptVars
<1>1. drv4 \in 0 .. NDrv /\ 0 \in Delays
  BY DEF IInv, TypeOK, Delays
<1>2. MrStep
  <2>1. CASE drv4 = NDrv
    BY <2>1, NoMrStep
  <2>2. CASE drv4 # NDrv
    BY <1>1, <2>2, SetDriveStrStep DEF IInv
  <2> QED BY <2>1, <2>2
<1>3. \/ drv4 = NDrv /\ stage' = "restore4" /\ rl4' = rl4
      \/ drv4 < NDrv /\ stage' = "latency4" /\ rl4' = 0
  BY <1>1
<1>4. TypeOK'
  BY <1>1, <1>2, <1>3 DEF IInv, TypeOK, MrStep
<1>5. LoopInv'
  BY <1>3 DEF IInv, LoopInv, Sweeps
<1>6. SupplyInv' /\ BootInv' /\ LatencyInv' /\ ChoiceInv'
  BY <1>3 DEF IInv, SupplyInv, BootInv, LatencyInv, ChoiceInv, Over
<1>7. CleanInv'
  BY <1>2, <1>3 DEF IInv, CleanInv, MrStep
<1>8. Grid1Inv'
  BY <1>2, Grid1Kept DEF IInv, MrStep
<1> QED BY <1>4, <1>5, <1>6, <1>7, <1>8 DEF IInv

LEMMA Latency4Inv == ASSUME IInv, Latency4 PROVE IInv'
<1> USE ShmooAssumption, SizeAssumption DEF Latency4, Goto, keptVars
<1>1. /\ rl4 \in 0 .. Len(RlValues) /\ rl4' = rl4 /\ 0 \in Delays
      /\ drv4 \in 0 .. NDrv - 1
  BY DEF IInv, TypeOK, LoopInv, Delays
<1>2. rl4 # Len(RlValues) => rl4 + 1 \in 1 .. Len(RlValues)
  BY <1>1
<1>3. rl4 # Len(RlValues) => RlValues[rl4 + 1] \in 0 .. 7
  BY <1>2
<1>4. MrStep /\ (rl4 # Len(RlValues) => (~lost' => mr0'.rl = RlValues[rl4 + 1]))
  <2>1. CASE rl4 = Len(RlValues)
    BY <2>1, NoMrStep
  <2>2. CASE rl4 # Len(RlValues)
    BY <1>3, <2>2, SetReadLatencyStep DEF IInv
  <2> QED BY <2>1, <2>2
<1>5. \/ /\ rl4 = Len(RlValues) /\ stage' = "drive4" /\ drv4' = drv4 + 1
         /\ ctl_rl' = ctl_rl
      \/ /\ rl4 < Len(RlValues) /\ stage' = "grid4" /\ drv4' = drv4
         /\ ctl_rl' = RlValues[rl4 + 1]
  BY <1>1
<1>6. ctl_rl' \in 0 .. 7
  BY <1>1, <1>3, <1>5 DEF IInv, TypeOK
<1>7. TypeOK'
  BY <1>1, <1>4, <1>5, <1>6 DEF IInv, TypeOK, MrStep
<1>8. LoopInv'
  BY <1>1, <1>5 DEF IInv, LoopInv, Sweeps, Rows
<1>9. SupplyInv' /\ BootInv' /\ ChoiceInv'
  BY <1>5 DEF IInv, SupplyInv, BootInv, ChoiceInv
<1>10. CleanInv'
  BY <1>4, <1>5 DEF IInv, CleanInv, MrStep
<1>11. LatencyInv'
  BY <1>4, <1>5 DEF LatencyInv, Over
<1>12. Grid1Inv'
  BY <1>4, Grid1Kept DEF IInv, MrStep
<1> QED BY <1>7, <1>8, <1>9, <1>10, <1>11, <1>12 DEF IInv

(* The three restores of the mode register. *)
LEMMA RestoreMr0Inv == ASSUME IInv, RestoreMr0 PROVE IInv'
<1> USE ShmooAssumption, SizeAssumption DEF RestoreMr0, Goto, keptVars
<1>1. default_mr0 \in Mr0Type /\ default_mr0.rl \in 0 .. 7 /\ 0 \in Delays
  BY DEF IInv, TypeOK, Mr0Type, Delays
<1>2. MrStep /\ (~lost' => mr0' = default_mr0)
  BY <1>1, WriteMr0Step DEF IInv
<1>3. /\ stage' \in {"grid3", "drive4", "enter5"}
      /\ stage' = "enter5" => ctl_rl' = default_mr0.rl
  OBVIOUS
<1>4. TypeOK'
  BY <1>1, <1>2, <1>3 DEF IInv, TypeOK, MrStep
<1>5. LoopInv'
  BY <1>3 DEF IInv, LoopInv, Sweeps, Rows
<1>6. SupplyInv' /\ BootInv' /\ ChoiceInv'
  BY <1>3 DEF IInv, SupplyInv, BootInv, ChoiceInv
<1>7. CleanInv'
  BY <1>2, <1>3 DEF IInv, CleanInv, MrStep
<1>8. LatencyInv'
  BY <1>2, <1>3 DEF LatencyInv, Over
<1>9. Grid1Inv'
  BY <1>2, Grid1Kept DEF IInv, MrStep
<1> QED BY <1>4, <1>5, <1>6, <1>7, <1>8, <1>9 DEF IInv

LEMMA RestoreSupplyInv == ASSUME IInv, RestoreSupply PROVE IInv'
<1> USE ShmooAssumption, SizeAssumption DEF RestoreSupply, Goto, mrVars, keptVars
<1>1. TypeOK'
  BY DEF IInv, TypeOK, Delays
<1>2. LoopInv' /\ SupplyInv' /\ BootInv' /\ CleanInv' /\ LatencyInv' /\ ChoiceInv'
  BY DEF IInv, LoopInv, Sweeps, SupplyInv, BootInv, CleanInv, LatencyInv, ChoiceInv, Over
<1>3. Grid1Inv'
  BY Grid1Kept DEF IInv
<1> QED BY <1>1, <1>2, <1>3 DEF IInv

-----------------------------------------------------------------------------
(* The selection, and the access at the point it chose. *)
LEMMA SelectInv == ASSUME IInv, Select PROVE IInv'
<1> USE ShmooAssumption, SizeAssumption DEF Select, Goto, regVars
<1>1. PICK ph \in Phases \cup {None}, x \in Delays \cup {None} :
         /\ IsChoice(grid1, ph, x)
         /\ best' = <<ph, x>>
         /\ stage' = IF x = None THEN "fail" ELSE "apply"
  OBVIOUS
<1>2. stage' = "apply" => ph \in Phases /\ x \in Delays
  BY <1>1 DEF IsChoice
<1>3. TypeOK'
  BY <1>1 DEF IInv, TypeOK, Delays
<1>4. LoopInv' /\ SupplyInv' /\ BootInv' /\ CleanInv' /\ LatencyInv'
  BY <1>1 DEF IInv, LoopInv, Sweeps, SupplyInv, BootInv, CleanInv, LatencyInv, Over
<1>5. ChoiceInv'
  BY <1>1, <1>2 DEF ChoiceInv
<1>6. Grid1Inv'
  BY Grid1Kept DEF IInv
<1> QED BY <1>3, <1>4, <1>5, <1>6 DEF IInv

LEMMA ApplyInv == ASSUME IInv, Apply PROVE IInv'
<1> USE ShmooAssumption, SizeAssumption DEF Apply, Goto, mrVars, keptVars
<1>1. best[1] \in Phases /\ best[2] \in Delays /\ best = <<best[1], best[2]>>
  BY DEF IInv, ChoiceInv
<1>2. TypeOK'
  BY <1>1 DEF IInv, TypeOK, Delays
<1>3. LoopInv' /\ SupplyInv' /\ BootInv' /\ CleanInv' /\ LatencyInv'
  BY DEF IInv, LoopInv, Sweeps, SupplyInv, BootInv, CleanInv, LatencyInv, Over
<1>4. ChoiceInv'
  BY <1>1 DEF IInv, ChoiceInv
<1>5. Grid1Inv'
  BY Grid1Kept DEF IInv
<1> QED BY <1>2, <1>3, <1>4, <1>5 DEF IInv

LEMMA ProbeInv == ASSUME IInv, Probe PROVE IInv'
<1> USE ShmooAssumption, SizeAssumption DEF Probe, Goto, regVars, keptVars
<1>1. stage' \in {"pass", "fail"}
  OBVIOUS
<1>2. TypeOK'
  BY <1>1 DEF IInv, TypeOK, Delays
<1>3. LoopInv' /\ SupplyInv' /\ BootInv' /\ CleanInv' /\ LatencyInv' /\ ChoiceInv'
  BY <1>1 DEF IInv, LoopInv, Sweeps, SupplyInv, BootInv, CleanInv, LatencyInv, ChoiceInv, Over
<1>4. Grid1Inv'
  BY Grid1Kept DEF IInv
<1> QED BY <1>2, <1>3, <1>4 DEF IInv

LEMMA InvPreserved == IInv /\ [Next]_vars => IInv'
<1> SUFFICES ASSUME IInv, [Next]_vars PROVE IInv'
  OBVIOUS
<1>1. CASE UNCHANGED vars
  <2> USE <1>1 DEF IInv, vars, loopVars, regVars, keptVars
  <2>1. TypeOK'
    BY DEF TypeOK
  <2>2. LoopInv'
    BY DEF LoopInv, Rows
  <2>3. SupplyInv' /\ BootInv' /\ CleanInv'
    BY DEF SupplyInv, BootInv, CleanInv
  <2>4. LatencyInv' /\ ChoiceInv'
    BY DEF LatencyInv, ChoiceInv, Over
  <2>5. Grid1Inv'
    BY DEF Grid1Inv, Measured
  <2> QED BY <2>1, <2>2, <2>3, <2>4, <2>5
<1> QED BY <1>1, SaveDefaultsInv, PhaseRowInv, DriveRowInv, LatencyRowInv, SupplyRowInv,
           CellInv, EnterFixedPhaseInv, Drive4Inv, Latency4Inv, RestoreMr0Inv,
           RestoreSupplyInv, SelectInv, ApplyInv, ProbeInv DEF Next, Park

-----------------------------------------------------------------------------
\* IInv: where the loops are, what each sweep has left in the registers, what
\* Grid 1 has measured and what the history may still claim.
THEOREM InvCorrect == Spec => []IInv
BY InitInv, InvPreserved, PTL DEF Spec

\* Grid 1 holds no point outside the eye, and all of the eye when no transfer of
\* test_one_point timed out.
THEOREM Grid1Correct == Spec => []Grid1IsTheEye
<1>1. IInv => Grid1IsTheEye
  <2> SUFFICES ASSUME IInv, stage \notin {"save", "grid1"}
               PROVE  /\ \A p \in Phases : \A x \in Delays : grid1[p][x] => eye[p][x]
                      /\ drops = 0 => grid1 = eye
    BY DEF Grid1IsTheEye
  <2>1. \A p \in Phases : \A x \in Delays :
           /\ grid1[p][x] => eye[p][x]
           /\ drops = 0 => grid1[p][x] = eye[p][x]
    BY DEF IInv, Grid1Inv, Measured
  <2>2. ASSUME drops = 0 PROVE grid1 = eye
    <3>1. \A p \in Phases : grid1[p] \in Row /\ eye[p] \in Row
      BY DEF IInv, TypeOK, Grid
    <3>2. \A p \in Phases : grid1[p] = eye[p]
      BY <2>1, <2>2, <3>1 DEF Row
    <3> QED BY <3>2 DEF IInv, TypeOK, Grid
  <2> QED BY <2>1, <2>2
<1> QED BY <1>1, InvCorrect, PTL

\* The final access runs at a point that passed together with its right neighbour,
\* whatever the later sweeps left behind.
THEOREM ProbeIsInsideEye == Spec => []ProbeInsideEye
<1>1. IInv => ProbeInsideEye
  <2> SUFFICES ASSUME IInv, stage \in {"probe", "pass"}
               PROVE  /\ <<phase, dly>> = best
                      /\ eye[phase][dly]
                      /\ eye[phase][dly + 1]
    BY DEF ProbeInsideEye
  <2>1. /\ <<phase, dly>> = best /\ phase \in Phases /\ dly \in Delays
        /\ IsChoice(grid1, phase, dly)
    BY DEF IInv, ChoiceInv
  <2>2. IsBestDelay(grid1[phase], dly)
    BY <2>1 DEF IsChoice, Phases, Delays, None
  <2>3. PICK b, e \in Delays : /\ IsFirstLongestRun(grid1[phase], b, e)
                              /\ b < e
                              /\ dly = e - ((e - b + 1) \div 2)
    BY <2>2 DEF IsBestDelay
  <2>4. dly \in b .. e /\ dly + 1 \in b .. e /\ dly + 1 \in Delays
    BY <2>3, SizeAssumption DEF Delays
  <2>5. grid1[phase][dly] /\ grid1[phase][dly + 1]
    BY <2>3, <2>4 DEF IsFirstLongestRun, IsRun
  <2> QED BY <2>1, <2>4, <2>5 DEF IInv, Grid1Inv
<1> QED BY <1>1, InvCorrect, PTL

\* The sweeps leave the supply, the latency and the mode registers as Restored
\* says, whichever reads returned garbage and whichever transactions timed out.
THEOREM RestoredCorrect == Spec => []Restored
<1>1. IInv => Restored
  BY DEF IInv, Restored, Over, SupplyInv, LatencyInv, CleanInv
<1> QED BY <1>1, InvCorrect, PTL

\* No cell of Grids 3 and 4 is measured with the chip and the controller set to
\* different latencies, unless the chip's write timed out.
THEOREM LatencyIsInStep == Spec => LatencyInStep
<1>1. IInv /\ [Next]_vars => [(Cell /\ stage \in {"grid3", "grid4"} /\ ~lost) => ctl_rl = mr0.rl]_vars
  BY DEF IInv, LatencyInv, Cell
<1> QED BY <1>1, InvCorrect, PTL DEF Spec, LatencyInStep

-----------------------------------------------------------------------------
(***************************************************************************)
(* The selection: EyeSelect.                                               *)
(***************************************************************************)

(* The number of passes in a row is a natural number. *)
LEMMA PassCountNat == ASSUME NEW row \in Row PROVE PassCount(row) \in Nat
<1>1. IsFiniteSet(Delays)
  BY FS_Interval, SizeAssumption DEF Delays
<1>2. IsFiniteSet({x \in Delays : row[x]})
  BY <1>1, FS_Subset
<1> QED BY <1>2, FS_CardinalityType DEF PassCount

(* The scans keep their running best exact: the types and ScanInv together *)
(* hold initially and every loop iteration preserves them.                 *)
LEMMA ScanInitInv == ScanInit => SelectionInv
<1> SUFFICES ASSUME ScanInit PROVE SelectionInv
  OBVIOUS
<1> USE SizeAssumption DEF ScanInit, Phases, Delays, None
<1>1. ScanTypeOK
  BY DEF ScanTypeOK
<1>2. ScanInv
  BY DEF ScanInv, PhaseScan, DelayScan, Finished
<1> QED BY <1>1, <1>2 DEF SelectionInv

(* One iteration of select_best_phase. *)
LEMMA CountRowInv == ASSUME SelectionInv, CountRow PROVE SelectionInv'
<1> USE SizeAssumption DEF Phases, None
<1>1. grid[id] \in Row /\ id \in Phases
  BY DEF SelectionInv, ScanTypeOK, CountRow, Grid
<1>2. \A q \in Phases : PassCount(grid[q]) \in Nat
  BY PassCountNat DEF SelectionInv, ScanTypeOK, Grid
<1>3. PassCount(grid[id]) \in Nat
  BY <1>1, <1>2
<1>4. ScanTypeOK'
  BY <1>1, <1>3 DEF SelectionInv, ScanTypeOK, CountRow, delayVars
<1>5. PhaseScan'
  BY <1>1, <1>2, <1>3 DEF SelectionInv, ScanTypeOK, ScanInv, PhaseScan, CountRow, delayVars
<1>6. DelayScan'
  BY <1>4 DEF SelectionInv, ScanTypeOK, ScanInv, PhaseScan, DelayScan, CountRow, delayVars, Delays
<1>7. Finished'
  BY DEF Finished, CountRow
<1> QED BY <1>4, <1>5, <1>6, <1>7 DEF SelectionInv, ScanInv

LEMMA PhaseChosenInv == ASSUME SelectionInv, PhaseChosen PROVE SelectionInv'
<1> USE DEF SelectionInv, PhaseChosen, phaseVars, delayVars
<1>1. ScanTypeOK'
  BY DEF ScanTypeOK
<1>2. PhaseScan'
  BY DEF ScanInv, PhaseScan, ScanTypeOK, Phases
<1>3. DelayScan' /\ Finished'
  BY DEF ScanInv, DelayScan, Finished
<1> QED BY <1>1, <1>2, <1>3 DEF ScanInv

(* One iteration of select_best_delayline on a passing cell. *)
LEMMA PassCellInv == ASSUME SelectionInv, PassCell PROVE SelectionInv'
<1> USE SizeAssumption DEF Phases, Delays, None
<1> DEFINE row == grid[best_phase]
<1>1. best_phase # None /\ best_phase \in Phases /\ i \in Delays /\ row[i]
  BY DEF SelectionInv, ScanInv, PhaseScan, ScanTypeOK, PassCell
<1>2. cur <= i /\ cur <= longest /\ longest <= i
  BY <1>1 DEF SelectionInv, ScanInv, DelayScan, ScanTypeOK
<1>3. ScanTypeOK'
  BY <1>1, <1>2 DEF SelectionInv, ScanTypeOK, PassCell, phaseVars
<1>4. PhaseScan'
  BY DEF SelectionInv, ScanInv, PhaseScan, PassCell, phaseVars, ScanTypeOK
<1>5. DelayScan'
  <2>1. (i = 0 => cur = 0 /\ longest = 0)' /\ (pc # "done" => best_delay = None)'
    BY <1>1 DEF SelectionInv, ScanInv, DelayScan, PassCell, ScanTypeOK
  <2>2. (cur <= i)' /\ (cur <= longest)'
    BY <1>1, <1>2 DEF SelectionInv, ScanTypeOK, PassCell
  <2>3. \A x \in Delays : (i - cur <= x /\ x < i)' => row'[x]
    BY <1>1, <1>2 DEF SelectionInv, ScanInv, DelayScan, ScanTypeOK, PassCell, phaseVars
  <2>4. (cur < i => ~row[i - cur - 1])'
    BY <1>1, <1>2 DEF SelectionInv, ScanInv, DelayScan, ScanTypeOK, PassCell, phaseVars
  <2>5. (longest > 0 => /\ longest_end < i
                        /\ longest <= longest_end + 1
                        /\ IsRun(row, longest_end - longest + 1, longest_end))'
    BY <1>1, <1>2, <2>3 DEF SelectionInv, ScanInv, DelayScan, ScanTypeOK, PassCell, phaseVars, IsRun
  <2>6. ASSUME NEW c \in Delays, NEW f \in Delays, f < i', IsRun(row', c, f)
        PROVE  /\ f - c < longest'
               /\ f < longest_end' => f - c < longest' - 1
    <3>1. CASE f < i
      BY <3>1, <1>1, <1>2, <2>6 DEF SelectionInv, ScanInv, DelayScan, ScanTypeOK, PassCell, phaseVars
    <3>2. CASE f = i
      \* A run that ends at i cannot start before the current one does.
      <4>1. \A x \in c .. i : row[x]
        BY <3>2, <2>6 DEF IsRun, PassCell, phaseVars
      <4>2. cur < i => ~row[i - cur - 1]
        BY <1>1 DEF SelectionInv, ScanInv, DelayScan
      <4>3. c >= i - cur
        <5> SUFFICES ASSUME c < i - cur PROVE FALSE
          BY <1>1 DEF SelectionInv, ScanTypeOK
        <5>1. i - cur - 1 \in c .. i
          BY <1>1, <1>2 DEF SelectionInv, ScanTypeOK
        <5> QED BY <4>1, <4>2, <5>1, <1>1 DEF SelectionInv, ScanTypeOK
      <4> QED BY <3>2, <4>3, <1>1, <1>2 DEF SelectionInv, ScanTypeOK, PassCell, ScanInv, DelayScan
    <3> QED BY <3>1, <3>2, <1>1, <2>6 DEF SelectionInv, ScanTypeOK, PassCell
  <2> QED BY <2>1, <2>2, <2>3, <2>4, <2>5, <2>6 DEF DelayScan
<1>6. Finished'
  BY DEF Finished, PassCell
<1> QED BY <1>3, <1>4, <1>5, <1>6 DEF SelectionInv, ScanInv

(* One iteration of select_best_delayline on a failing cell. *)
LEMMA FailCellInv == ASSUME SelectionInv, FailCell PROVE SelectionInv'
<1> USE SizeAssumption DEF Phases, Delays, None
<1> DEFINE row == grid[best_phase]
<1>1. best_phase # None /\ best_phase \in Phases /\ i \in Delays /\ ~row[i]
  BY DEF SelectionInv, ScanInv, PhaseScan, ScanTypeOK, FailCell
<1>2. ScanTypeOK'
  BY <1>1 DEF SelectionInv, ScanTypeOK, FailCell, phaseVars
<1>3. PhaseScan'
  BY DEF SelectionInv, ScanInv, PhaseScan, FailCell, phaseVars, ScanTypeOK
<1>4. DelayScan'
  <2>1. ASSUME NEW c \in Delays, NEW f \in Delays, f < i', IsRun(row', c, f)
        PROVE  /\ f - c < longest'
               /\ f < longest_end' => f - c < longest' - 1
    <3>1. f # i
      BY <1>1, <2>1 DEF FailCell, IsRun, phaseVars
    <3> QED BY <3>1, <1>1, <2>1 DEF SelectionInv, ScanInv, DelayScan, ScanTypeOK, FailCell, phaseVars
  <2> QED BY <1>1, <2>1 DEF SelectionInv, ScanInv, DelayScan, ScanTypeOK, FailCell, phaseVars
<1>5. Finished'
  BY DEF Finished, FailCell
<1> QED BY <1>2, <1>3, <1>4, <1>5 DEF SelectionInv, ScanInv

LEMMA DelayChosenInv == ASSUME SelectionInv, DelayChosen PROVE SelectionInv'
<1> USE SizeAssumption DEF Phases, Delays, None
<1>1. best_phase # None /\ best_phase \in Phases
  BY DEF SelectionInv, ScanInv, PhaseScan, ScanTypeOK, DelayChosen
<1>2. longest > 0 => longest <= longest_end + 1
  BY <1>1 DEF SelectionInv, ScanInv, DelayScan
<1>3. longest > 1 => /\ longest \div 2 \in 1 .. longest - 1
                     /\ longest_end - (longest \div 2) \in Delays
  BY <1>2 DEF SelectionInv, ScanTypeOK
<1>4. ScanTypeOK'
  BY <1>3 DEF SelectionInv, ScanTypeOK, DelayChosen, phaseVars, delayVars
<1>5. PhaseScan' /\ DelayScan'
  BY DEF SelectionInv, ScanInv, PhaseScan, DelayScan, DelayChosen, phaseVars, delayVars
<1>6. Finished'
  BY <1>1 DEF Finished, DelayChosen, phaseVars, delayVars
<1> QED BY <1>4, <1>5, <1>6 DEF SelectionInv, ScanInv

LEMMA ScanInvPreserved == SelectionInv /\ [ScanNext]_scanVars => SelectionInv'
<1> SUFFICES ASSUME SelectionInv, [ScanNext]_scanVars PROVE SelectionInv'
  OBVIOUS
<1>1. CASE UNCHANGED scanVars
  BY <1>1 DEF scanVars, SelectionInv, ScanTypeOK, ScanInv, PhaseScan, DelayScan, Finished
<1> QED BY <1>1, CountRowInv, PhaseChosenInv, PassCellInv, FailCellInv, DelayChosenInv
        DEF ScanNext, ScanOver

THEOREM ScanCorrect == ScanSpec => []SelectionInv
BY ScanInitInv, ScanInvPreserved, PTL DEF ScanSpec

(* Every variable keeps its type. *)
THEOREM ScanTypeCorrect == ScanSpec => []ScanTypeOK
BY ScanCorrect, PTL DEF SelectionInv

(* The running best of both loops is exact (ScanInv). *)
THEOREM ScanExact == ScanSpec => []ScanInv
BY ScanCorrect, PTL DEF SelectionInv

(***************************************************************************)
(* What the exact running best means when the scan is over.                *)
(***************************************************************************)

\* The longest run when the delayline scan is over, and where main() lands in it.
LEMMA AtTheEnd ==
    ASSUME SelectionInv, pc = "done", best_phase # None
    PROVE  LET row == grid[best_phase]
               b   == longest_end - longest + 1
           IN  /\ row \in Row
               /\ longest > 0 => /\ b \in Delays
                                 /\ IsFirstLongestRun(row, b, longest_end)
               /\ \A c, f \in Delays : IsRun(row, c, f) => f - c < longest
               /\ best_delay = IF longest <= 1 THEN None
                               ELSE longest_end - (longest \div 2)
<1> USE SizeAssumption DEF Phases, Delays, None
<1> DEFINE row == grid[best_phase]
<1>1. i = NDelays /\ row \in Row
  BY DEF SelectionInv, ScanTypeOK, ScanInv, Finished, Grid
<1>2. \A c, f \in Delays : IsRun(row, c, f) =>
         /\ f - c < longest
         /\ f < longest_end => f - c < longest - 1
  BY <1>1 DEF SelectionInv, ScanInv, DelayScan, ScanTypeOK
<1>3. longest > 0 => /\ longest <= longest_end + 1
                     /\ IsRun(row, longest_end - longest + 1, longest_end)
  BY DEF SelectionInv, ScanInv, DelayScan
<1>4. longest > 0 => /\ longest_end - longest + 1 \in Delays
                     /\ IsFirstLongestRun(row, longest_end - longest + 1, longest_end)
  BY <1>2, <1>3 DEF SelectionInv, ScanTypeOK, IsFirstLongestRun
<1> QED BY <1>1, <1>2, <1>4 DEF SelectionInv, ScanInv, Finished

\* The selection returns the middle of the first longest run of the first row
\* with the most passes, and None exactly when that row has no run of two: for
\* grids of every size (select_best_phase, select_best_delayline).
THEOREM SelectionIsCorrect == ScanSpec => []SelectionCorrect
<1>1. SelectionInv => SelectionCorrect
  <2> SUFFICES ASSUME SelectionInv, pc = "done" PROVE IsChoice(grid, best_phase, best_delay)
    BY DEF SelectionCorrect
  <2> USE SizeAssumption DEF Phases, Delays, None
  <2>1. \A q \in Phases : PassCount(grid[q]) \in Nat
    BY PassCountNat DEF SelectionInv, ScanTypeOK, Grid
  <2>2. id = NPhases
    BY DEF SelectionInv, ScanInv, PhaseScan
  <2>3. CASE best_phase = None
    BY <2>1, <2>2, <2>3 DEF SelectionInv, ScanTypeOK, ScanInv, PhaseScan, Finished, IsChoice
  <2>4. CASE best_phase # None
    <3> DEFINE row == grid[best_phase]
    <3>1. best_phase \in Phases /\ IsBestPhase(grid, best_phase)
      BY <2>1, <2>2, <2>4 DEF SelectionInv, ScanTypeOK, ScanInv, PhaseScan, IsBestPhase
    <3>2. CASE longest <= 1
      <4>1. best_delay = None
        BY <2>4, <3>2, AtTheEnd
      <4>2. ~HasRunOfTwo(row)
        BY <2>4, <3>2, AtTheEnd DEF SelectionInv, ScanTypeOK, HasRunOfTwo
      <4> QED BY <3>1, <4>1, <4>2 DEF IsChoice
    <3>3. CASE longest > 1
      <4> DEFINE b == longest_end - longest + 1
      <4>1. /\ b \in Delays /\ IsFirstLongestRun(row, b, longest_end)
            /\ best_delay = longest_end - (longest \div 2)
        BY <2>4, <3>3, AtTheEnd DEF SelectionInv, ScanTypeOK
      <4>2. longest_end - b + 1 = longest /\ b < longest_end
        BY <3>3 DEF SelectionInv, ScanTypeOK
      <4>3. IsBestDelay(row, best_delay)
        BY <4>1, <4>2 DEF SelectionInv, ScanTypeOK, IsBestDelay
      <4>4. best_delay \in Delays
        BY <3>3, <4>1 DEF SelectionInv, ScanTypeOK
      <4> QED BY <3>1, <4>3, <4>4 DEF IsChoice
    <3> QED BY <3>2, <3>3 DEF SelectionInv, ScanTypeOK
  <2> QED BY <2>3, <2>4
<1> QED BY <1>1, ScanCorrect, PTL

\* The point that main() applies and its right neighbour passed the sweep, and
\* the left one too in an eye of three cells or more.
THEOREM AppliedPointMargin == ScanSpec => []AppliedPointHasMargin
<1>1. SelectionInv => AppliedPointHasMargin
  <2> SUFFICES ASSUME SelectionInv, pc = "done", best_delay # None
               PROVE  /\ grid[best_phase][best_delay]
                      /\ best_delay + 1 \in Delays /\ grid[best_phase][best_delay + 1]
                      /\ (\E c \in Delays : c + 2 \in Delays /\ IsRun(grid[best_phase], c, c + 2)) =>
                            best_delay - 1 \in Delays /\ grid[best_phase][best_delay - 1]
    BY DEF AppliedPointHasMargin
  <2> USE SizeAssumption DEF Delays
  <2> DEFINE row == grid[best_phase]
             b   == longest_end - longest + 1
  <2>1. best_phase # None
    BY DEF SelectionInv, ScanInv, Finished
  <2>2. longest > 1 /\ best_delay = longest_end - (longest \div 2)
    BY <2>1, AtTheEnd DEF SelectionInv, ScanTypeOK
  <2>3. b \in Delays /\ \A x \in b .. longest_end : row[x]
    BY <2>1, <2>2, AtTheEnd DEF SelectionInv, ScanTypeOK, IsFirstLongestRun, IsRun
  <2>4. best_delay \in b .. longest_end /\ best_delay + 1 \in b .. longest_end
    BY <2>2 DEF SelectionInv, ScanTypeOK
  <2>5. ASSUME NEW c \in Delays, c + 2 \in Delays, IsRun(row, c, c + 2)
        PROVE  best_delay - 1 \in b .. longest_end
    <3>1. longest > 2
      BY <2>1, <2>5, AtTheEnd DEF SelectionInv, ScanTypeOK
    <3> QED BY <3>1, <2>2 DEF SelectionInv, ScanTypeOK
  <2> QED BY <2>3, <2>4, <2>5 DEF SelectionInv, ScanTypeOK
<1> QED BY <1>1, ScanCorrect, PTL
=============================================================================
