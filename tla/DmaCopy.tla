------------------------------ MODULE DmaCopy ------------------------------
(***************************************************************************)
(* What test_dma_mem2mem.rs promises, without its buffers and polls: the   *)
(* channels are tested one after the other, each on its own engine, and    *)
(* the verdict is the conjunction of the results.  An engine may deliver   *)
(* at any time after it is armed, also after its channel was given up, and *)
(* what it delivers may be spoilt.                                         *)
(***************************************************************************)
EXTENDS Integers

CONSTANT NCh   \* channels tested

Channels == 0 .. NCh - 1

VARIABLES engine,   \* per channel: "idle" | "armed" | "delivered" | "spoilt"
          result,   \* per channel: "none" | "ok" | "mismatch" | "timeout"
          verdict   \* "none" | "pass" | "fail"

vars == <<engine, result, verdict>>

Init == /\ engine = [c \in Channels |-> "idle"]
        /\ result = [c \in Channels |-> "none"]
        /\ verdict = "none"

\* Channel c is the one under test.
Turn(c) == result[c] = "none" /\ \A b \in 0 .. c - 1 : result[b] # "none"

Arm(c) == /\ Turn(c) /\ engine[c] = "idle"
          /\ engine' = [engine EXCEPT ![c] = "armed"]
          /\ UNCHANGED <<result, verdict>>

\* The engine has written its last byte, in its turn or too late; some byte it
\* wrote may not have been what it read.
Deliver(c) == /\ engine[c] = "armed"
              /\ \E e \in {"delivered", "spoilt"} : engine' = [engine EXCEPT ![c] = e]
              /\ UNCHANGED <<result, verdict>>

\* A channel is only given up before its engine has delivered, and only compared
\* after; it fails then exactly when its engine spoilt the data, or else only an
\* engine that was given up can have done so, or hidden it.
Finish(c, r) ==
    /\ Turn(c)
    /\ r = "timeout" => engine[c] = "armed"
    /\ r # "timeout" => engine[c] \in {"delivered", "spoilt"}
    /\ r # "timeout" => \/ r = "ok" <=> engine[c] = "delivered"
                        \/ \E b \in 0 .. c - 1 : result[b] = "timeout"
    /\ result' = [result EXCEPT ![c] = r]
    /\ UNCHANGED <<engine, verdict>>

Judge == /\ verdict = "none"
         /\ \A c \in Channels : result[c] # "none"
         /\ verdict' = IF \A c \in Channels : result[c] = "ok" THEN "pass" ELSE "fail"
         /\ UNCHANGED <<engine, result>>

Next == \/ \E c \in Channels : \/ Arm(c) \/ Deliver(c)
                               \/ \E r \in {"ok", "mismatch", "timeout"} : Finish(c, r)
        \/ Judge

Spec == Init /\ [][Next]_vars
=============================================================================
