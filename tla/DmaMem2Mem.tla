----------------------------- MODULE DmaMem2Mem -----------------------------
(***************************************************************************)
(* test_dma_mem2mem.rs: the CPU tests the AHB DMA channels one after the   *)
(* other, all of them through the same SRC_BUF and DST_BUF, while the      *)
(* channels' engines copy on their own.  A poll that runs out returns      *)
(* false and goes on to the next channel WITHOUT stopping the engine, so a *)
(* slow engine may still be reading SRC_BUF and writing DST_BUF while the  *)
(* next channel is under test.                                             *)
(*                                                                         *)
(* CPU steps are single accesses to memory or registers; the engine steps  *)
(* (external hardware, at any speed, possibly dead) are single bytes.  An  *)
(* engine may write any byte in place of the one it read, which is what    *)
(* the test is there to find; a byte it skips counts as written with what  *)
(* was there.                                                              *)
(* Both descriptors are rewritten with the same contents for every channel *)
(* and the owner bit is not checked by the engine, so they hold no state.  *)
(***************************************************************************)
EXTENDS Integers

CONSTANTS NCh,        \* channels tested (the source: 3)
          XferSize,   \* bytes per transfer (256)
          ByteMod,    \* values of a byte (256)
          Step,       \* pattern offset between channels (0x40)
          MaxPolls,   \* polls before a timeout (1_000_000)
          FifoDepth   \* bytes an engine may hold between read and write

ASSUME DmaAssumption == /\ NCh \in Nat \ {0}
                        /\ XferSize \in Nat \ {0}
                        /\ ByteMod \in Nat \ {0}
                        /\ Step \in Nat
                        /\ MaxPolls \in Nat \ {0}
                        /\ FifoDepth \in Nat \ {0}

Channels == 0 .. NCh - 1
Index    == 0 .. XferSize - 1
Byte     == 0 .. ByteMod - 1

\* (i as u8).wrapping_add(ch as u8 * 0x40)
Pattern(c, k) == (k + c * Step) % ByteMod

VARIABLES pc,        \* what the CPU does next
          ch,        \* the channel under test
          i,         \* loop index of the fill and verify loops
          timeout,   \* polls left
          errors,    \* mismatches of the current channel
          result,    \* per channel: "none" | "ok" | "mismatch" | "timeout"
          all_pass,
          src, dst,  \* SRC_BUF, DST_BUF
          out_run,   \* OUT_LINK.start taken
          in_run,    \* IN_LINK.start taken
          rd, wr,    \* bytes the engine has read from src / written to dst
          hold,      \* bytes read and not yet written, by position
          suc_eof,   \* IN raw suc_eof interrupt bit
          bad        \* history: positions where the engine wrote what it had not read

cpuVars == <<pc, ch, i, timeout, errors, result, all_pass>>
engVars == <<out_run, in_run, rd, wr, hold, suc_eof, bad>>
vars    == <<cpuVars, src, dst, engVars>>

TypeOK == /\ pc \in {"fill", "reset", "start_in", "start_out", "poll", "clear",
                     "verify", "next", "pass", "fail"}
          /\ ch \in 0 .. NCh
          /\ i \in 0 .. XferSize
          /\ timeout \in 0 .. MaxPolls
          /\ errors \in 0 .. XferSize
          /\ result \in [Channels -> {"none", "ok", "mismatch", "timeout"}]
          /\ all_pass \in BOOLEAN
          /\ src \in [Index -> Byte] /\ dst \in [Index -> Byte]
          /\ out_run \in [Channels -> BOOLEAN] /\ in_run \in [Channels -> BOOLEAN]
          /\ rd \in [Channels -> 0 .. XferSize] /\ wr \in [Channels -> 0 .. XferSize]
          /\ hold \in [Channels -> [Index -> Byte]]
          /\ suc_eof \in [Channels -> BOOLEAN]
          /\ bad \in [Channels -> SUBSET Index]

Init == /\ pc = "fill" /\ ch = 0 /\ i = 0
        /\ timeout = MaxPolls /\ errors = 0
        /\ result = [c \in Channels |-> "none"] /\ all_pass = TRUE
        /\ src = [k \in Index |-> 0] /\ dst = [k \in Index |-> 0]
        /\ out_run = [c \in Channels |-> FALSE] /\ in_run = [c \in Channels |-> FALSE]
        /\ rd = [c \in Channels |-> 0] /\ wr = [c \in Channels |-> 0]
        /\ hold = [c \in Channels |-> [k \in Index |-> 0]]
        /\ suc_eof = [c \in Channels |-> FALSE]
        /\ bad = [c \in Channels |-> {}]

-----------------------------------------------------------------------------
(***************************************************************************)
(* The CPU: dma_mem2mem_test(ch), called from the loop of main().          *)
(***************************************************************************)

Fill == /\ pc = "fill"
        /\ src' = [src EXCEPT ![i] = Pattern(ch, i)]
        /\ dst' = [dst EXCEPT ![i] = 0]
        /\ i' = IF i + 1 = XferSize THEN 0 ELSE i + 1
        /\ pc' = IF i + 1 = XferSize THEN "reset" ELSE "fill"
        /\ UNCHANGED <<ch, timeout, errors, result, all_pass, engVars>>

(* out_rst and in_rst pulses; then mem_trans_en, the link addresses and    *)
(* peri_sel, which the engine reads only once it is started.               *)
Reset == /\ pc = "reset"
         /\ out_run' = [out_run EXCEPT ![ch] = FALSE]
         /\ in_run'  = [in_run EXCEPT ![ch] = FALSE]
         /\ rd' = [rd EXCEPT ![ch] = 0]
         /\ wr' = [wr EXCEPT ![ch] = 0]
         /\ hold' = [hold EXCEPT ![ch] = [k \in Index |-> 0]]
         /\ pc' = "start_in"
         /\ UNCHANGED <<ch, i, timeout, errors, result, all_pass, src, dst, suc_eof, bad>>

StartIn == /\ pc = "start_in"
           /\ in_run' = [in_run EXCEPT ![ch] = TRUE]
           /\ pc' = "start_out"
           /\ UNCHANGED <<ch, i, timeout, errors, result, all_pass, src, dst,
                          out_run, rd, wr, hold, suc_eof, bad>>

StartOut == /\ pc = "start_out"
            /\ out_run' = [out_run EXCEPT ![ch] = TRUE]
            /\ timeout' = MaxPolls
            /\ pc' = "poll"
            /\ UNCHANGED <<ch, i, errors, result, all_pass, src, dst,
                           in_run, rd, wr, hold, suc_eof, bad>>

\* Mutant of Return: the last channel's result overwrites the verdict.
ReturnLast(r) == /\ result' = [result EXCEPT ![ch] = r]
                 /\ all_pass' = (r = "ok")
                 /\ pc' = "next"

\* The channel's test returns r; main() folds it into all_pass.
Return(r) == /\ result' = [result EXCEPT ![ch] = r]
             /\ all_pass' = (all_pass /\ r = "ok")
             /\ pc' = "next"

(* Mutants of Poll and of Clear.                                           *)
PollOutSide ==   \* done when the OUT side has read everything
    /\ pc = "poll"
    /\ IF rd[ch] = XferSize
       THEN pc' = "clear" /\ UNCHANGED <<timeout, result, all_pass>>
       ELSE /\ timeout' = timeout - 1
            /\ IF timeout - 1 = 0 THEN Return("timeout")
               ELSE UNCHANGED <<pc, result, all_pass>>
    /\ UNCHANGED <<ch, i, errors, src, dst, engVars>>

PollUnbounded ==   \* timeout never counted down
    /\ pc = "poll" /\ suc_eof[ch]
    /\ pc' = "clear"
    /\ UNCHANGED <<ch, i, timeout, errors, result, all_pass, src, dst, engVars>>

ClearKeepsErrors ==   \* errors = 0 forgotten
    /\ pc = "clear"
    /\ suc_eof' = [suc_eof EXCEPT ![ch] = FALSE]
    /\ pc' = "verify"
    /\ UNCHANGED <<ch, i, timeout, errors, result, all_pass, src, dst,
                   out_run, in_run, rd, wr, hold, bad>>

Poll == /\ pc = "poll"
        /\ IF suc_eof[ch]
           THEN /\ pc' = "clear"
                /\ UNCHANGED <<timeout, result, all_pass>>
           ELSE /\ timeout' = timeout - 1
                /\ IF timeout - 1 = 0
                   THEN Return("timeout")
                   ELSE UNCHANGED <<pc, result, all_pass>>
        /\ UNCHANGED <<ch, i, errors, src, dst, engVars>>

Clear == /\ pc = "clear"
         /\ suc_eof' = [suc_eof EXCEPT ![ch] = FALSE]
         /\ errors' = 0
         /\ pc' = "verify"
         /\ UNCHANGED <<ch, i, timeout, result, all_pass, src, dst,
                        out_run, in_run, rd, wr, hold, bad>>

Verify == /\ pc = "verify"
          /\ errors' = IF dst[i] # src[i] THEN errors + 1 ELSE errors
          /\ IF i + 1 = XferSize
             THEN /\ i' = 0
                  /\ Return(IF errors' = 0 THEN "ok" ELSE "mismatch")
             ELSE i' = i + 1 /\ UNCHANGED <<pc, result, all_pass>>
          /\ UNCHANGED <<ch, timeout, src, dst, engVars>>

(* for ch in 0..3; then signal_pass() and park_alive(), or signal_fail(),  *)
(* which never returns.                                                    *)
NextChannel == /\ pc = "next"
               /\ ch' = ch + 1
               /\ pc' = IF ch + 1 < NCh THEN "fill"
                        ELSE IF all_pass THEN "pass" ELSE "fail"
               /\ UNCHANGED <<i, timeout, errors, result, all_pass, src, dst, engVars>>

Cpu == Fill \/ Reset \/ StartIn \/ StartOut \/ Poll \/ Clear \/ Verify \/ NextChannel

-----------------------------------------------------------------------------
(***************************************************************************)
(* The engine of channel c (external): reads SRC_BUF into its FIFO, writes *)
(* the FIFO to DST_BUF, rightly or wrongly, then raises suc_eof.  It may   *)
(* be slow or dead.                                                        *)
(***************************************************************************)

EngineRead(c) ==
    /\ out_run[c] /\ rd[c] < XferSize /\ rd[c] - wr[c] < FifoDepth
    /\ hold' = [hold EXCEPT ![c][rd[c]] = src[rd[c]]]
    /\ rd' = [rd EXCEPT ![c] = @ + 1]
    /\ UNCHANGED <<cpuVars, src, dst, out_run, in_run, wr, suc_eof, bad>>

EngineWrite(c) ==
    /\ in_run[c] /\ wr[c] < rd[c]
    /\ \E b \in Byte :
          /\ dst' = [dst EXCEPT ![wr[c]] = b]
          /\ bad' = IF b = hold[c][wr[c]] THEN bad ELSE [bad EXCEPT ![c] = @ \cup {wr[c]}]
    /\ hold' = [hold EXCEPT ![c][wr[c]] = 0]
    /\ wr' = [wr EXCEPT ![c] = @ + 1]
    /\ UNCHANGED <<cpuVars, src, out_run, in_run, rd, suc_eof>>

EngineEof(c) ==
    /\ in_run[c] /\ wr[c] = XferSize
    /\ suc_eof' = [suc_eof EXCEPT ![c] = TRUE]
    /\ in_run'  = [in_run EXCEPT ![c] = FALSE]
    /\ out_run' = [out_run EXCEPT ![c] = FALSE]
    /\ UNCHANGED <<cpuVars, src, dst, rd, wr, hold, bad>>

Engine(c) == EngineRead(c) \/ EngineWrite(c) \/ EngineEof(c)

\* signal_pass / park_alive and signal_fail loop for ever.
Halted == pc \in {"pass", "fail"} /\ UNCHANGED vars

Next == Cpu \/ (\E c \in Channels : Engine(c)) \/ Halted

Spec == Init /\ [][Next]_vars

\* Only the CPU is sure to run: an engine may stop anywhere.
FairSpec == Spec /\ WF_vars(Cpu)

-----------------------------------------------------------------------------
(***************************************************************************)
(* Properties.                                                             *)
(***************************************************************************)

TimedOut(c) == result[c] = "timeout"

\* An engine that was started and has not raised suc_eof yet.
Busy(c) == out_run[c] \/ in_run[c]

\* A channel that was compared is judged by its own engine's copy, although all
\* engines share the buffers: a mismatch is reported if and only if that engine
\* wrote a byte it had not read - unless an earlier channel timed out and its
\* engine was left running.
JudgedByItsCopy ==
    \A c \in Channels : result[c] \in {"ok", "mismatch"} =>
        \/ result[c] = "ok" <=> bad[c] = {}
        \/ \E b \in Channels : b < c /\ TimedOut(b)

\* Once a channel timed out nothing may be inferred; until then the buffers
\* belong to the channel under test: every other engine is quiet, and an
\* engine that is running is between StartIn and the eof the CPU waits for.
BuffersOwned ==
    (\A c \in Channels : ~TimedOut(c)) =>
        \A c \in Channels : Busy(c) =>
            c = ch /\ pc \in {"start_out", "poll"}

\* "All 3 channels: PASS" is printed only when every engine has delivered its
\* whole transfer, every byte as it read it, and none can touch memory any more.
PassMeansAllDelivered ==
    pc = "pass" => \A c \in Channels : /\ result[c] = "ok"
                                       /\ ~Busy(c) /\ wr[c] = XferSize
                                       /\ bad[c] = {}

\* The CPU rewrites SRC_BUF and clears DST_BUF under a running engine only if
\* that engine's channel timed out.
NoFillUnderLiveEngine ==
    [][Fill => \A c \in Channels : Busy(c) => TimedOut(c)]_vars

\* The bounded poll: the program reaches its verdict however slow or dead the
\* engines are.
EventuallyVerdict == <>(pc \in {"pass", "fail"})

-----------------------------------------------------------------------------
(***************************************************************************)
(* The inductive invariant behind the safety properties.                   *)
(***************************************************************************)

NoTimeout == \A c \in Channels : ~TimedOut(c)

Delivered(c) == ~Busy(c) /\ wr[c] = XferSize

\* Where the CPU is, and what it has recorded so far.
Progress ==
    /\ ch = NCh <=> pc \in {"pass", "fail"}
    /\ pc \in {"fill", "verify"} => i < XferSize
    /\ pc \notin {"fill", "verify"} => i = 0
    /\ pc = "poll" => timeout > 0
    /\ pc = "verify" => errors <= i
    /\ \A c \in Channels : result[c] = "none" <=> (c > ch \/ (c = ch /\ pc # "next"))
    /\ all_pass <=> \A c \in Channels : result[c] \in {"none", "ok"}
    /\ pc = "pass" => all_pass

\* Each engine: untouched before its turn, delivered once its eof was seen,
\* and possibly still running only in its own turn or after a timeout.
Engines ==
    /\ \A c \in Channels : wr[c] <= rd[c] /\ \A k \in bad[c] : k < wr[c]
    /\ \A c \in Channels : (c > ch \/ (c = ch /\ pc \in {"fill", "reset", "start_in"}))
                              => ~Busy(c) /\ ~suc_eof[c] /\ rd[c] = 0 /\ wr[c] = 0
    /\ pc = "start_out" => rd[ch] = 0 /\ wr[ch] = 0 /\ ~out_run[ch]
    /\ pc \in {"start_out", "poll"} => in_run[ch] \/ suc_eof[ch]
    /\ \A c \in Channels : suc_eof[c] => Delivered(c)
    /\ \A c \in Channels : result[c] \in {"ok", "mismatch"} => Delivered(c)
    /\ pc \in {"clear", "verify"} => Delivered(ch)

\* While nothing timed out the data in flight is the current pattern, but for what
\* the engine under test got wrong, and that has been counted as far as compared.
Data ==
    NoTimeout =>
      /\ pc = "fill" => \A k \in Index : k < i => src[k] = Pattern(ch, k)
      /\ pc \notin {"fill", "next", "pass", "fail"} =>
            \A k \in Index : src[k] = Pattern(ch, k)
      /\ pc \in {"start_out", "poll", "clear", "verify"} =>
            \A k \in Index :
               /\ k < wr[ch] => (dst[k] = Pattern(ch, k) <=> k \notin bad[ch])
               /\ (wr[ch] <= k /\ k < rd[ch]) => hold[ch][k] = Pattern(ch, k)
      /\ pc = "verify" => (errors = 0 <=> \A k \in bad[ch] : k >= i)

Inv == Progress /\ Engines /\ Data /\ JudgedByItsCopy

IInv == TypeOK /\ Inv

-----------------------------------------------------------------------------
(***************************************************************************)
(* Refinement: the shared buffers, the poll and the four steps an engine   *)
(* takes at its own pace amount to one independent test per channel.       *)
(***************************************************************************)

engine == [c \in Channels |-> IF Busy(c) THEN "armed"
                              ELSE IF wr[c] < XferSize THEN "idle"
                              ELSE IF bad[c] = {} THEN "delivered" ELSE "spoilt"]

verdict == IF pc \in {"pass", "fail"} THEN pc ELSE "none"

Copy == INSTANCE DmaCopy WITH NCh <- NCh, engine <- engine, result <- result, verdict <- verdict

\* Whatever the engines do, the test is the sequence of channel tests of DmaCopy:
\* arms each engine once, gives up none that has delivered, compares none that
\* has not, finds every spoilt copy and no other as long as none was given up, and
\* judges when all are through.
RefinesCopy == Copy!Spec
=============================================================================
