----------------------------- MODULE TestRunner -----------------------------
(***************************************************************************)
(* run_tests.sh and the board it drives.  For each binary of a group the   *)
(* host builds, flashes and captures the serial log until a timeout kills  *)
(* the capture - at any point of the board's output - then classifies the  *)
(* log by the markers grep finds in it.  grep does not see order or count, *)
(* so a log is the set of the markers in it.                               *)
(***************************************************************************)
EXTENDS TestLogs, FiniteSets

CONSTANT Tests   \* the group, in order

ASSUME TestsAssumption == /\ Tests \in Seq(DOMAIN Runs) /\ Tests # <<>>
                          /\ \A a, b \in 1 .. Len(Tests) : Tests[a] = Tests[b] => a = b

Index == 1 .. Len(Tests)

\* run_one's condition for PASS, on the set of markers in a log.
Passes(markers) == /\ "DONE" \in markers
                   /\ markers \cap {"PASS", "OK"} # {}
                   /\ markers \cap {"FAIL", "mismatch", "ERROR", "timeout!"} = {}

\* What the table of logs says of DONE, the marker a PASS needs: it is on the last
\* line, a binary that ends in a reset never prints it, and with it no faulty run
\* passes.
ASSUME LogsAssumption ==
    \A t \in DOMAIN Runs : \A x \in Runs[t] :
        /\ x \in RunType
        /\ \A j \in DOMAIN x.lines : "DONE" \in x.lines[j] => j = Len(x.lines) /\ x.end # "reset"
        /\ x.fault => ~Passes(UNION {x.lines[j] : j \in DOMAIN x.lines})

NoRun == [fault |-> TRUE, lines |-> <<>>, end |-> "none"]

VARIABLES host,     \* "start" | "capture" | "classify" | "summary"
          k,        \* index of the current test
          log,      \* markers in /tmp/<test>.log
          run,      \* the run the board makes of the flashed binary, or NoRun
          pos,      \* next line it prints
          verdict,  \* what run_one returned, per test
          faulty,   \* history: that test's run had a fault or did not complete
          counts    \* pass, fail and incon of run_group

vars == <<host, k, log, run, pos, verdict, faulty, counts>>

Verdicts == {"PASS", "FAIL", "INCONCLUSIVE"}

TypeOK == /\ host \in {"start", "capture", "classify", "summary"}
          /\ k \in 1 .. Len(Tests) + 1
          /\ log \subseteq Markers
          /\ run \in {NoRun} \cup UNION {Runs[Tests[a]] : a \in Index}
          /\ pos \in 1 .. Len(run.lines) + 1
          /\ verdict \in [Index -> Verdicts \cup {"none"}]
          /\ faulty \in [Index -> BOOLEAN]
          /\ counts \in [Verdicts -> 0 .. Len(Tests)]

Init == /\ host = "start" /\ k = 1
        /\ log = {} /\ run = NoRun /\ pos = 1
        /\ verdict = [a \in Index |-> "none"]
        /\ faulty = [a \in Index |-> FALSE]
        /\ counts = [v \in Verdicts |-> 0]

-----------------------------------------------------------------------------
(* Mutants of StartTest: >> for >, and a board that is not reset by the flash. *)
Starting == host = "start" /\ k <= Len(Tests) /\ host' = "capture"
StartTestAppending ==
    /\ Starting /\ pos' = 1
    /\ \/ log' = log \cup {"could not compile"} /\ run' = NoRun
       \/ log' = log /\ run' \in Runs[Tests[k]] \cup {NoRun}
    /\ UNCHANGED <<k, verdict, faulty, counts>>
StartTestNoReset ==
    /\ Starting /\ log' = {} /\ run' \in Runs[Tests[k]] \cup {NoRun}
    /\ UNCHANGED <<k, pos, verdict, faulty, counts>>

(* cargo run ... > "$logfile" 2>&1: the log starts empty.  The build may   *)
(* fail, the board may not be there, or the binary runs from reset.        *)
StartTest ==
    /\ host = "start" /\ k <= Len(Tests)
    /\ host' = "capture"
    /\ pos' = 1
    /\ \/ log' = {"could not compile"} /\ run' = NoRun
       \/ log' = {} /\ run' \in Runs[Tests[k]] \cup {NoRun}
    /\ UNCHANGED <<k, verdict, faulty, counts>>

BoardPrints ==
    /\ host = "capture" /\ pos <= Len(run.lines)
    /\ log' = log \cup run.lines[pos]
    /\ pos' = pos + 1
    /\ UNCHANGED <<host, k, run, verdict, faulty, counts>>

\* The watchdog reboots the board and the binary starts again.
BoardResets ==
    /\ host = "capture" /\ pos > Len(run.lines) /\ run.end = "reset"
    /\ pos' = 1
    /\ UNCHANGED <<host, k, log, run, verdict, faulty, counts>>

\* Mutant of Timeout: the capture waits for the program to finish.
TimeoutWaits ==
    /\ host = "capture" /\ run.end = "park" /\ pos > Len(run.lines)
    /\ host' = "classify"
    /\ faulty' = [faulty EXCEPT ![k] = run.fault]
    /\ UNCHANGED <<k, log, run, pos, verdict, counts>>

\* timeout ${TIMEOUT_SECS}s: nothing else ends the capture, whatever the board does.
Timeout ==
    /\ host = "capture"
    /\ host' = "classify"
    /\ faulty' = [faulty EXCEPT ![k] = run.fault]
    /\ UNCHANGED <<k, log, run, pos, verdict, counts>>

\* run_one's greps, in order.
Has(markers) == log \cap markers # {}
Classify ==
    IF Has({"could not compile"}) THEN "FAIL"
    ELSE IF Passes(log) THEN "PASS"
    ELSE IF Has({"FAIL", "mismatch", "ERROR"}) THEN "FAIL"
    ELSE "INCONCLUSIVE"

\* Mutant of RunOneReturns: whatever is not a pass is counted as a failure.
RunOneReturnsTwoWay ==
    /\ host = "classify"
    /\ verdict' = [verdict EXCEPT ![k] = Classify]
    /\ counts' = [counts EXCEPT ![IF Classify = "PASS" THEN "PASS" ELSE "FAIL"] = @ + 1]
    /\ k' = k + 1
    /\ host' = IF k + 1 <= Len(Tests) THEN "start" ELSE "summary"
    /\ UNCHANGED <<log, run, pos, faulty>>

\* case $? in 0) pass 1) fail 2) incon.
RunOneReturns ==
    /\ host = "classify"
    /\ verdict' = [verdict EXCEPT ![k] = Classify]
    /\ counts' = [counts EXCEPT ![Classify] = @ + 1]
    /\ k' = k + 1
    /\ host' = IF k + 1 <= Len(Tests) THEN "start" ELSE "summary"
    /\ UNCHANGED <<log, run, pos, faulty>>

Summary == host = "summary" /\ UNCHANGED vars

Host  == StartTest \/ Timeout \/ RunOneReturns
Board == BoardPrints \/ BoardResets
Next  == Host \/ Board \/ Summary

Spec == Init /\ [][Next]_vars

\* The shell goes on and timeout(1) always fires; nothing is asked of the board.
FairSpec == Spec /\ WF_vars(Host)

-----------------------------------------------------------------------------
(***************************************************************************)
(* Properties.                                                             *)
(***************************************************************************)

Complete == run # NoRun /\ pos > Len(run.lines)

\* PASS is never given to a binary that found a fault, hung, panicked, did not
\* build or was cut off: neither by a capture killed mid-run nor by markers of
\* the test before it.
PassIsSound ==
    /\ \A a \in Index : verdict[a] = "PASS" => ~faulty[a]
    /\ (host = "classify" /\ Classify = "PASS") => Complete

\* The counts are at all times those of the verdicts given, and the summary line
\* counts every test of the group.
SummaryCounts ==
    /\ \A v \in Verdicts : counts[v] = Cardinality({a \in Index : verdict[a] = v})
    /\ host = "summary" => \A a \in Index : verdict[a] # "none"

\* run_group gets to its summary whatever the boards do: silent, halted, or
\* rebooting for ever.
EventuallySummary == <>(host = "summary")

\* TEST_OUTPUTS.md:10-11 and 17-18: the log of a success holds PASS or OK and no fail
\* marker, so a healthy run is not reported as a failure.
DocHealthyNotFailed ==
    (host = "classify" /\ run # NoRun /\ ~run.fault) => Classify # "FAIL"

-----------------------------------------------------------------------------
(***************************************************************************)
(* The inductive invariant the proofs use, in named parts.                 *)
(***************************************************************************)

\* The tests before k have their verdicts, the others none.
ProgressInv == /\ k <= Len(Tests) <=> host # "summary"
               /\ \A a \in Index : verdict[a] = "none" <=> a >= k

\* The log holds what the flashed binary has printed since its reset, and a board
\* that reboots never gets to DONE.
LogInv == host \in {"capture", "classify"} =>
             IF run = NoRun THEN log \subseteq {"could not compile"}
             ELSE /\ run \in Runs[Tests[k]]
                  /\ IF run.end = "reset" THEN "DONE" \notin log
                     ELSE log = UNION {run.lines[j] : j \in 1 .. pos - 1}

VerdictInv == /\ host = "classify" => faulty[k] = run.fault
              /\ \A a \in Index : verdict[a] = "PASS" => ~faulty[a]

IInv == TypeOK /\ SummaryCounts /\ ProgressInv /\ LogInv /\ VerdictInv
=============================================================================
