-------------------------- MODULE TestRunner_proofs --------------------------
(***************************************************************************)
(* Proofs about TestRunner for every group of binaries: PASS is never      *)
(* given to a run that had a fault or was cut off, and the counts are      *)
(* those of the verdicts.  LogsAssumption is all they need of the logs.    *)
(***************************************************************************)
EXTENDS TestRunner, FiniteSetTheorems, TLAPS

LEMMA LenNat == Len(Tests) \in Nat
BY TestsAssumption

\* The run of a test of the group: its type, and what LogsAssumption says of it.
LEMMA RunFacts ==
    ASSUME NEW a \in Index, NEW x \in Runs[Tests[a]]
    PROVE  /\ x.fault \in BOOLEAN /\ x.lines \in Seq(SUBSET Markers)
           /\ \A j \in DOMAIN x.lines : "DONE" \in x.lines[j] => j = Len(x.lines) /\ x.end # "reset"
           /\ x.fault => ~Passes(UNION {x.lines[j] : j \in DOMAIN x.lines})
<1>1. Tests[a] \in DOMAIN Runs
  BY TestsAssumption DEF Index
<1>2. /\ x \in RunType
      /\ \A j \in DOMAIN x.lines : "DONE" \in x.lines[j] => j = Len(x.lines) /\ x.end # "reset"
      /\ x.fault => ~Passes(UNION {x.lines[j] : j \in DOMAIN x.lines})
  BY <1>1, LogsAssumption
<1>3. x.fault \in BOOLEAN /\ x.lines \in Seq(SUBSET Markers)
  BY <1>2 DEF RunType
<1> QED BY <1>2, <1>3

\* The current run is the flashed binary's, or none at all.
LEMMA CurrentRun ==
    ASSUME IInv, host \in {"capture", "classify"}
    PROVE  /\ k \in Index
           /\ run.fault \in BOOLEAN /\ run.lines \in Seq(SUBSET Markers)
           /\ Len(run.lines) \in Nat /\ DOMAIN run.lines = 1 .. Len(run.lines)
<1>1. k \in Index
  BY LenNat DEF IInv, TypeOK, ProgressInv, Index
<1>2. CASE run = NoRun
  BY <1>1, <1>2 DEF NoRun
<1>3. CASE run # NoRun
  <2>1. run \in Runs[Tests[k]]
    BY <1>3 DEF IInv, LogInv
  <2>2. run.fault \in BOOLEAN /\ run.lines \in Seq(SUBSET Markers)
    BY <1>1, <2>1, RunFacts
  <2> QED BY <1>1, <2>2
<1> QED BY <1>2, <1>3

(* A log that passes is a whole run's, and that run had no fault. *)
LEMMA PassingLog ==
    ASSUME IInv, host = "classify", Classify = "PASS"
    PROVE  Complete /\ ~run.fault
<1>1. Passes(log)
  BY DEF Classify
<1>2. "DONE" \in log
  BY <1>1 DEF Passes
<1>3. run # NoRun
  BY <1>2 DEF IInv, LogInv
<1>4. /\ run \in Runs[Tests[k]]
      /\ IF run.end = "reset" THEN "DONE" \notin log
         ELSE log = UNION {run.lines[j] : j \in 1 .. pos - 1}
  BY <1>3 DEF IInv, LogInv
<1>5. log = UNION {run.lines[j] : j \in 1 .. pos - 1}
  BY <1>2, <1>4
<1>6. /\ k \in Index /\ Len(run.lines) \in Nat
      /\ DOMAIN run.lines = 1 .. Len(run.lines) /\ run.fault \in BOOLEAN
  BY CurrentRun
<1>7. pos \in 1 .. Len(run.lines) + 1
  BY DEF IInv, TypeOK
<1>8. PICK j \in 1 .. pos - 1 : "DONE" \in run.lines[j]
  BY <1>2, <1>5
<1>9. j \in DOMAIN run.lines
  BY <1>6, <1>7
<1>10. j = Len(run.lines)
  BY <1>4, <1>6, <1>8, <1>9, RunFacts
<1>11. pos - 1 = Len(run.lines)
  BY <1>6, <1>7, <1>10
<1>12. log = UNION {run.lines[i] : i \in DOMAIN run.lines}
  BY <1>5, <1>6, <1>11
<1>13. ~run.fault
  BY <1>1, <1>4, <1>6, <1>12, RunFacts
<1> QED BY <1>3, <1>6, <1>11, <1>13, <1>7 DEF Complete

-----------------------------------------------------------------------------
LEMMA IndexFinite == IsFiniteSet(Index) /\ Cardinality(Index) = Len(Tests)
BY LenNat, FS_Interval DEF Index

LEMMA InitInv == Init => IInv
<1> SUFFICES ASSUME Init PROVE IInv
  OBVIOUS
<1> USE DEF Init
<1>1. Len(Tests) \in Nat \ {0}
  BY TestsAssumption
<1>2. TypeOK
  <2>1. run.lines = <<>> /\ Len(run.lines) = 0
    BY DEF NoRun
  <2> QED BY <1>1, <2>1 DEF TypeOK, Verdicts
<1>3. SummaryCounts
  <2>1. ASSUME NEW v \in Verdicts PROVE {a \in Index : verdict[a] = v} = {}
    BY <2>1 DEF Verdicts
  <2>2. \A v \in Verdicts : counts[v] = Cardinality({a \in Index : verdict[a] = v})
    BY <2>1, FS_EmptySet
  <2> QED BY <2>2 DEF SummaryCounts
<1>4. ProgressInv
  BY <1>1 DEF ProgressInv, Index
<1>5. LogInv /\ VerdictInv
  BY DEF LogInv, VerdictInv
<1> QED BY <1>2, <1>3, <1>4, <1>5 DEF IInv

LEMMA StartTestInv == ASSUME IInv, StartTest PROVE IInv'
<1>1. k \in Index
  <2>1. k \in 1 .. Len(Tests) + 1
    BY DEF IInv, TypeOK
  <2>2. k <= Len(Tests)
    BY DEF StartTest
  <2> QED BY <2>1, <2>2, LenNat DEF Index
<1>2. /\ run' \in Runs[Tests[k]] \cup {NoRun}
      /\ log' \subseteq {"could not compile"}
      /\ run' # NoRun => log' = {}
  BY DEF StartTest
<1>3. run'.lines \in Seq(SUBSET Markers)
  <2>1. NoRun.lines \in Seq(SUBSET Markers)
    BY DEF NoRun
  <2>2. ASSUME NEW x \in Runs[Tests[k]] PROVE x.lines \in Seq(SUBSET Markers)
    BY <1>1, RunFacts
  <2> QED BY <1>2, <2>1, <2>2, Zenon
<1>4. TypeOK'
  <2>1. Len(run'.lines) \in Nat
    BY <1>3
  <2>2. pos' \in 1 .. Len(run'.lines) + 1
    <3>1. pos' = 1
      BY DEF StartTest
    <3> QED BY <2>1, <3>1
  <2>3. log' \subseteq Markers
    BY <1>2 DEF Markers
  <2>4. run' \in {NoRun} \cup UNION {Runs[Tests[a]] : a \in Index}
    BY <1>1, <1>2
  <2> QED BY <2>2, <2>3, <2>4 DEF IInv, TypeOK, StartTest
<1>5. SummaryCounts' /\ ProgressInv' /\ VerdictInv'
  BY DEF IInv, SummaryCounts, ProgressInv, VerdictInv, StartTest
<1>6. LogInv'
  <2>1. CASE run' = NoRun
    BY <1>2, <2>1 DEF LogInv
  <2>2. CASE run' # NoRun
    <3>1. run' \in Runs[Tests[k]] /\ log' = {} /\ pos' = 1 /\ k' = k
      BY <1>2, <2>2 DEF StartTest
    <3>2. UNION {run'.lines[j] : j \in 1 .. pos' - 1} = {}
      BY <3>1
    <3> QED BY <2>2, <3>1, <3>2 DEF LogInv
  <2> QED BY <2>1, <2>2
<1> QED BY <1>4, <1>5, <1>6 DEF IInv

LEMMA BoardPrintsInv == ASSUME IInv, BoardPrints PROVE IInv'
<1> USE DEF BoardPrints
<1>1. /\ k \in Index /\ run.lines \in Seq(SUBSET Markers)
      /\ Len(run.lines) \in Nat /\ DOMAIN run.lines = 1 .. Len(run.lines)
  BY CurrentRun
<1>2. pos \in 1 .. Len(run.lines) /\ pos' \in 1 .. Len(run.lines) + 1 /\ pos' - 1 = pos
  BY <1>1 DEF IInv, TypeOK
<1>3. run.lines[pos] \subseteq Markers
  BY <1>1, <1>2
<1>4. TypeOK'
  BY <1>2, <1>3 DEF IInv, TypeOK
<1>5. SummaryCounts' /\ ProgressInv' /\ VerdictInv'
  BY DEF IInv, SummaryCounts, ProgressInv, VerdictInv
<1>6. LogInv'
  <2>1. run # NoRun
    BY <1>2 DEF NoRun
  <2>2. run \in Runs[Tests[k]]
    BY <2>1 DEF IInv, LogInv
  <2>3. CASE run.end = "reset"
    <3>1. "DONE" \notin run.lines[pos]
      BY <1>1, <1>2, <2>2, <2>3, RunFacts
    <3> QED BY <2>1, <2>2, <2>3, <3>1 DEF IInv, LogInv
  <2>4. CASE run.end # "reset"
    <3>1. log = UNION {run.lines[j] : j \in 1 .. pos - 1}
      BY <2>1, <2>4 DEF IInv, LogInv
    <3>2. 1 .. pos = (1 .. pos - 1) \cup {pos}
      BY <1>2
    <3>3. log' = UNION {run.lines[j] : j \in 1 .. pos}
      BY <3>1, <3>2
    <3> QED BY <1>2, <2>1, <2>2, <2>4, <3>3 DEF LogInv
  <2> QED BY <2>3, <2>4
<1> QED BY <1>4, <1>5, <1>6 DEF IInv

LEMMA BoardResetsInv == ASSUME IInv, BoardResets PROVE IInv'
<1> USE DEF BoardResets
<1>1. Len(run.lines) \in Nat
  BY CurrentRun
<1>2. TypeOK'
  BY <1>1 DEF IInv, TypeOK
<1>3. SummaryCounts' /\ ProgressInv' /\ VerdictInv' /\ LogInv'
  BY DEF IInv, SummaryCounts, ProgressInv, VerdictInv, LogInv
<1> QED BY <1>2, <1>3 DEF IInv

LEMMA TimeoutInv == ASSUME IInv, Timeout PROVE IInv'
<1> USE DEF Timeout
<1>1. k \in Index /\ run.fault \in BOOLEAN
  BY CurrentRun
<1>2. TypeOK'
  BY <1>1 DEF IInv, TypeOK
<1>3. SummaryCounts' /\ ProgressInv' /\ LogInv'
  BY DEF IInv, SummaryCounts, ProgressInv, LogInv
<1>4. VerdictInv'
  <2>1. faulty'[k] = run.fault
    BY <1>1 DEF IInv, TypeOK
  <2>2. verdict[k] = "none"
    BY <1>1, LenNat DEF IInv, ProgressInv, Index
  <2>3. ASSUME NEW a \in Index, verdict[a] = "PASS" PROVE ~faulty'[a]
    BY <2>2, <2>3 DEF IInv, TypeOK, VerdictInv
  <2> QED BY <2>1, <2>3 DEF VerdictInv
<1> QED BY <1>2, <1>3, <1>4 DEF IInv

(* The verdict is new: it adds one to its count and nothing to the others. *)
LEMMA RunOneReturnsInv == ASSUME IInv, RunOneReturns PROVE IInv'
<1> USE DEF RunOneReturns
<1> DEFINE of(v) == {a \in Index : verdict[a] = v}
           new(v) == {a \in Index : verdict'[a] = v}
<1>1. k \in Index /\ Len(Tests) \in Nat /\ k \in 1 .. Len(Tests)
  BY CurrentRun, LenNat DEF Index
<1>2. Classify \in Verdicts
  BY DEF Classify, Verdicts
<1>3. verdict \in [Index -> Verdicts \cup {"none"}] /\ verdict[k] = "none"
  BY <1>1 DEF IInv, TypeOK, ProgressInv
<1>4. verdict' \in [Index -> Verdicts \cup {"none"}] /\ verdict'[k] = Classify
  BY <1>1, <1>2, <1>3
<1>5. \A a \in Index : a # k => verdict'[a] = verdict[a]
  BY <1>3
<1>6. ASSUME NEW v \in Verdicts
      PROVE  /\ IsFiniteSet(new(v)) /\ Cardinality(new(v)) \in 0 .. Len(Tests)
             /\ counts'[v] = Cardinality(new(v))
  <2>1. counts[v] = Cardinality(of(v)) /\ counts \in [Verdicts -> 0 .. Len(Tests)]
    BY DEF IInv, SummaryCounts, TypeOK
  <2>2. IsFiniteSet(of(v)) /\ IsFiniteSet(new(v))
    BY IndexFinite, FS_Subset
  <2>3. Cardinality(new(v)) \in Nat /\ Cardinality(new(v)) <= Len(Tests)
    BY <2>2, IndexFinite, FS_Subset, FS_CardinalityType
  <2>4. CASE v = Classify
    <3>1. new(v) = of(v) \cup {k} /\ k \notin of(v)
      BY <1>1, <1>3, <1>4, <1>5, <2>4 DEF Verdicts
    <3>2. Cardinality(new(v)) = Cardinality(of(v)) + 1
      BY <2>2, <3>1, FS_AddElement
    <3>3. counts'[v] = counts[v] + 1
      BY <1>2, <2>1, <2>4
    <3> QED BY <2>1, <2>2, <2>3, <3>2, <3>3
  <2>5. CASE v # Classify
    <3>1. new(v) = of(v)
      BY <1>1, <1>3, <1>4, <1>5, <2>5 DEF Verdicts
    <3>2. counts'[v] = counts[v]
      BY <2>1, <2>5
    <3> QED BY <2>1, <2>2, <2>3, <3>1, <3>2
  <2> QED BY <2>4, <2>5
<1>7. counts' \in [Verdicts -> 0 .. Len(Tests)]
  <2>1. DOMAIN counts' = Verdicts /\ counts' = [v \in Verdicts |-> counts'[v]]
    BY DEF IInv, TypeOK
  <2> QED BY <1>6, <2>1
<1>8. TypeOK'
  <2>1. k' \in 1 .. Len(Tests) + 1 /\ host' \in {"start", "summary"}
    BY <1>1
  <2> QED BY <1>4, <1>7, <2>1 DEF IInv, TypeOK
<1>9. ProgressInv'
  <2>1. k' <= Len(Tests) <=> host' # "summary"
    BY <1>1
  <2>2. ASSUME NEW a \in Index PROVE verdict'[a] = "none" <=> a >= k'
    <3>1. verdict[a] = "none" <=> a >= k
      BY DEF IInv, ProgressInv
    <3> QED BY <1>1, <1>2, <1>4, <1>5, <3>1 DEF Index, Verdicts
  <2> QED BY <2>1, <2>2 DEF ProgressInv
<1>10. SummaryCounts'
  <2>1. ASSUME host' = "summary", NEW a \in Index PROVE verdict'[a] # "none"
    BY <1>1, <1>9, <2>1 DEF ProgressInv, Index
  <2> QED BY <1>6, <2>1 DEF SummaryCounts
<1>11. LogInv'
  BY DEF LogInv
<1>12. VerdictInv'
  <2>1. Classify = "PASS" => ~faulty[k]
    BY PassingLog DEF IInv, VerdictInv
  <2>2. ASSUME NEW a \in Index, verdict'[a] = "PASS" PROVE ~faulty'[a]
    BY <1>4, <1>5, <2>1, <2>2 DEF IInv, VerdictInv
  <2> QED BY <2>2 DEF VerdictInv
<1> QED BY <1>8, <1>9, <1>10, <1>11, <1>12 DEF IInv

LEMMA InvPreserved == IInv /\ [Next]_vars => IInv'
<1> SUFFICES ASSUME IInv, [Next]_vars PROVE IInv'
  OBVIOUS
<1>1. CASE UNCHANGED vars
  <2> USE <1>1 DEF IInv, vars
  <2>1. TypeOK'
    BY DEF TypeOK
  <2>2. SummaryCounts' /\ ProgressInv' /\ VerdictInv'
    BY DEF SummaryCounts, ProgressInv, VerdictInv
  <2>3. LogInv'
    BY DEF LogInv
  <2> QED BY <2>1, <2>2, <2>3
<1> QED BY <1>1, StartTestInv, BoardPrintsInv, BoardResetsInv, TimeoutInv, RunOneReturnsInv
        DEF Next, Host, Board, Summary

-----------------------------------------------------------------------------
\* IInv: the verdicts given so far and their counts, and what the log can hold of
\* the run on the board, rebooting or not.
THEOREM InvCorrect == Spec => []IInv
BY InitInv, InvPreserved, PTL DEF Spec

\* For every group, PASS is only given to a complete run without a fault, wherever
\* the time-out falls.
THEOREM PassIsEarned == Spec => []PassIsSound
<1>1. IInv => PassIsSound
  BY PassingLog DEF PassIsSound, IInv, VerdictInv
<1> QED BY <1>1, InvCorrect, PTL

\* For every group the summary counts each test once.
THEOREM CountsAreVerdicts == Spec => []SummaryCounts
<1>1. IInv => SummaryCounts
  BY DEF IInv
<1> QED BY <1>1, InvCorrect, PTL
=============================================================================
