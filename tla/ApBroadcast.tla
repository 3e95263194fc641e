---------------------------- MODULE ApBroadcast ----------------------------
(***************************************************************************)
(* run_ap_broadcast_ping (kernel/kernel.c) over several APs: a ping in     *)
(* slot 0 of each AP that can accept it, one bounded wait for all of them, *)
(* a timeout for those that did not answer, and a summary.                 *)
(*                                                                         *)
(* An AP is reduced to what happens to its slot 0 (ApLoop has all of it):  *)
(* it claims the ping, runs the handler, completes the slot by cmpxchg,    *)
(* and may stop for good or fault at any point.                            *)
(***************************************************************************)
EXTENDS Naturals, FiniteSets

CONSTANTS ContextCount, TimeoutLoops, TimerStep

ASSUME BroadcastAssumption ==
    ContextCount \in Nat /\ TimeoutLoops \in Nat \ {0} /\ TimerStep \in Nat \ {0}

Contexts == 0 .. ContextCount - 1

VARIABLES
    bootOk,   \* boot.error = AP_BOOT_OK and boot.online of each context
    health,   \* boot.ap_state: "ONLINE" or "FAULTED"
    word,     \* state word of slot 0
    apPc,     \* where each AP is
    ran,      \* ghost: how often it ran the ping handler
    ipi,      \* a completion IPI is latched in the BSP's local APIC
    pc, i,    \* where the BSP is, and its loop index
    active,   \* the contexts with active[i] set
    loops,    \* wait_loops
    entry,    \* recorded state of each summary entry, or "none"
    sum       \* planned, completed, ok and fail counts of the summary

apVars == <<health, word, apPc, ran, ipi>>
bspVars == <<pc, i, active, loops, entry, sum>>
vars == <<bootOk, apVars, bspVars>>

Init ==
    /\ bootOk \in [Contexts -> BOOLEAN]
    /\ health \in [Contexts -> {"ONLINE", "FAULTED"}]
    /\ word = [c \in Contexts |-> "EMPTY"]
    /\ apPc = [c \in Contexts |-> IF bootOk[c] /\ health[c] = "ONLINE"
                                  THEN "sweep" ELSE "dead"]
    /\ ran = [c \in Contexts |-> 0]
    /\ ipi = FALSE
    /\ pc = "publish" /\ i = 0 /\ active = {} /\ loops = 0
    /\ entry = [c \in Contexts |-> "none"]
    /\ sum = [planned |-> 0, completed |-> 0, ok |-> 0, fail |-> 0]

-----------------------------------------------------------------------------
(* An AP.                                                                  *)

ApStep(c, here, there) ==
    /\ apPc[c] = here /\ apPc' = [apPc EXCEPT ![c] = there]
    /\ UNCHANGED <<bootOk, bspVars>>

Claim(c) ==
    /\ word[c] = "PENDING"
    /\ word' = [word EXCEPT ![c] = "RUNNING"]
    /\ ApStep(c, "sweep", "claimed")
    /\ UNCHANGED <<health, ran, ipi>>

Handle(c) ==
    /\ ran' = [ran EXCEPT ![c] = @ + 1]
    /\ ApStep(c, "claimed", "handled")
    /\ UNCHANGED <<health, word, ipi>>

(* Mutant of Complete: the state word is stored, not exchanged.            *)
CompleteBlind(c) ==
    /\ word' = [word EXCEPT ![c] = "DONE"]
    /\ ipi' \in {ipi, TRUE}
    /\ ApStep(c, "handled", "sweep")
    /\ UNCHANGED <<health, ran>>

Complete(c) ==
    /\ word' = [word EXCEPT ![c] = IF @ = "RUNNING" THEN "DONE" ELSE @]
    /\ ipi' \in {ipi, word[c] = "RUNNING" \/ ipi}
    /\ ApStep(c, "handled", "sweep")
    /\ UNCHANGED <<health, ran>>

(* ap_fault_dispatch: it marks the slot if current_request_slot is set,    *)
(* which it is some time after the claim, and then the context.            *)
FaultSlot(c) ==
    /\ apPc[c] \in {"sweep", "claimed", "handled"}
    /\ word' \in { word, IF apPc[c] # "sweep" /\ word[c] = "RUNNING"
                         THEN [word EXCEPT ![c] = "FAULT"] ELSE word }
    /\ ApStep(c, apPc[c], "faulting")
    /\ UNCHANGED <<health, ran, ipi>>

FaultMark(c) ==
    /\ health' = [health EXCEPT ![c] = "FAULTED"]
    /\ ipi' \in {ipi, TRUE}
    /\ ApStep(c, "faulting", "dead")
    /\ UNCHANGED <<word, ran>>

Ap(c) == Claim(c) \/ Handle(c) \/ Complete(c) \/ FaultSlot(c) \/ FaultMark(c)

-----------------------------------------------------------------------------
(* The BSP.                                                                *)

finished(st) == st \in {"DONE", "BAD_OP", "FAULT", "TIMEOUT", "SKIPPED"}

(* Mutant of CanAccept: the boot result is not looked at.                  *)
CanAcceptAny(c) == health[c] # "FAULTED"

CanAccept(c) == bootOk[c] /\ health[c] # "FAULTED"

Goto(here, there) ==
    /\ pc = here /\ pc' = there
    /\ UNCHANGED <<bootOk, health, apPc, ran>>

(* The publish loop: an AP that cannot accept is passed over.  For the     *)
(* others the slot is prepared ...                                         *)
Offer ==
    /\ i < ContextCount
    /\ IF CanAccept(i) THEN Goto("publish", "store") /\ UNCHANGED i
                       ELSE Goto("publish", "publish") /\ i' = i + 1
    /\ UNCHANGED <<word, ipi, active, loops, entry, sum>>

(* ... and published, or marked if the AP has faulted since.               *)
Store ==
    /\ Goto("store", "publish")
    /\ word' = [word EXCEPT ![i] = IF health[i] = "FAULTED" THEN "FAULT" ELSE "PENDING"]
    /\ active' = active \cup {i}
    /\ sum' = [sum EXCEPT !.planned = @ + 1]
    /\ i' = i + 1
    /\ UNCHANGED <<ipi, loops, entry>>

Published ==
    /\ i = ContextCount /\ i' = 0
    /\ Goto("publish", IF active = {} THEN "done" ELSE "scan")
    /\ UNCHANGED <<word, ipi, active, loops, entry, sum>>

(* record_ap_broadcast_ping_result; the header and reply of a slot that is *)
(* DONE are the ping's.                                                    *)
record(c) ==
    /\ entry' = [entry EXCEPT ![c] = word[c]]
    /\ sum' = [sum EXCEPT !.completed = @ + 1,
                          !.ok = IF word[c] = "DONE" THEN @ + 1 ELSE @,
                          !.fail = IF word[c] = "DONE" THEN @ ELSE @ + 1]
    /\ active' = active \ {c}

(* Mutant of Scan: the context stays active when it is recorded.           *)
ScanAgain ==
    /\ i < ContextCount /\ i' = i + 1
    /\ IF i \in active /\ finished(word[i])
       THEN /\ entry' = [entry EXCEPT ![i] = word[i]] /\ UNCHANGED active
            /\ sum' = [sum EXCEPT !.completed = @ + 1, !.ok = @ + 1]
       ELSE UNCHANGED <<active, entry, sum>>
    /\ Goto("scan", "scan")
    /\ UNCHANGED <<word, ipi, loops>>

Scan ==
    /\ i < ContextCount /\ i' = i + 1
    /\ IF i \in active /\ finished(word[i])
       THEN record(i) ELSE UNCHANGED <<active, entry, sum>>
    /\ Goto("scan", "scan")
    /\ UNCHANGED <<word, ipi, loops>>

ScanEnd ==
    /\ i = ContextCount /\ i' = 0
    /\ Goto("scan", IF active = {} THEN "done" ELSE "asleep")
    /\ UNCHANGED <<word, ipi, active, loops, entry, sum>>

(* Mutant of Advance: the timer does not count.                            *)
AdvanceStuck(step) == loops

Advance(step) == IF step >= TimeoutLoops - loops THEN TimeoutLoops ELSE loops + step

Wake ==
    /\ \/ ipi /\ ipi' = FALSE /\ loops' = Advance(1)
       \/ ipi' \in {ipi, FALSE} /\ loops' = Advance(TimerStep)
    /\ Goto("asleep", IF loops' < TimeoutLoops THEN "scan" ELSE "expire")
    /\ UNCHANGED <<word, i, active, entry, sum>>

(* timeout_ap_broadcast_ping_slot: the look and the first cmpxchg, then    *)
(* the second, then the record.                                            *)
Expire ==
    /\ i < ContextCount
    /\ IF i \in active
       THEN /\ word' = [word EXCEPT ![i] = IF @ = "PENDING" THEN "TIMEOUT" ELSE @]
            /\ Goto("expire", IF word[i] = "RUNNING" THEN "expireRunning" ELSE "record")
            /\ UNCHANGED i
       ELSE Goto("expire", "expire") /\ i' = i + 1 /\ UNCHANGED word
    /\ UNCHANGED <<ipi, active, loops, entry, sum>>

ExpireRunning ==
    /\ Goto("expireRunning", "record")
    /\ word' = [word EXCEPT ![i] = IF @ = "RUNNING" THEN "TIMEOUT" ELSE @]
    /\ UNCHANGED <<ipi, i, active, loops, entry, sum>>

Record ==
    /\ Goto("record", "expire")
    /\ record(i) /\ i' = i + 1
    /\ UNCHANGED <<word, ipi, loops>>

Expired ==
    /\ i = ContextCount
    /\ Goto("expire", "done")
    /\ UNCHANGED <<word, ipi, i, active, loops, entry, sum>>

Done == pc = "done" /\ UNCHANGED vars

BspStep == \/ Offer \/ Store \/ Published \/ Scan \/ ScanEnd \/ Wake
           \/ Expire \/ ExpireRunning \/ Record \/ Expired

Next == BspStep \/ Done \/ \E c \in Contexts : Ap(c)

(* The BSP executes its code; an AP may stop at any point.                 *)
Spec == Init /\ [][Next]_vars /\ WF_vars(BspStep)

-----------------------------------------------------------------------------
(* Properties.                                                             *)

Recorded(S) == Cardinality({ c \in Contexts : entry[c] \in S })

(* The summary accounts for every ping exactly once: what was planned was  *)
(* recorded, as OK if and only if it was answered, whichever of the two    *)
(* recording loops met it.                                                 *)
SummaryAddsUp ==
    /\ sum.completed = Recorded({"DONE", "FAULT", "TIMEOUT"})
    /\ sum.ok = Recorded({"DONE"}) /\ sum.ok + sum.fail = sum.completed
    /\ pc = "done" => sum.completed = sum.planned

(* An AP shown as answering did run the ping, once; TIMEOUT is shown only  *)
(* after the whole wait; and an AP that was down from the start is not     *)
(* shown at all.                                                           *)
EntriesAreTrue ==
    \A c \in Contexts :
        /\ entry[c] = "DONE" => ran[c] = 1
        /\ entry[c] = "TIMEOUT" => loops = TimeoutLoops
        /\ ~bootOk[c] => entry[c] = "none"

(* An answer that arrives after its ping was recorded does not change the  *)
(* slot any more, so that the screen and the slot agree.                   *)
RecordedIsFinal ==
    [][\A c \in Contexts : entry[c] # "none" => word'[c] = word[c]]_vars

(* One AP that hangs or dies does not keep the broadcast from ending.      *)
BroadcastEnds == <>(pc = "done")

-----------------------------------------------------------------------------
(* The inductive invariant behind the theorems of ApBroadcastProofs.       *)

Final == {"DONE", "FAULT", "TIMEOUT"}     \* what a ping can end as
Sent(c) == c \in active \/ entry[c] # "none"

RoundTypeOK ==
    /\ bootOk \in [Contexts -> BOOLEAN] /\ health \in [Contexts -> {"ONLINE", "FAULTED"}]
    /\ word \in [Contexts -> {"EMPTY", "PENDING", "RUNNING"} \cup Final]
    /\ apPc \in [Contexts -> {"sweep", "claimed", "handled", "faulting", "dead"}]
    /\ ran \in [Contexts -> Nat]
    /\ pc \in {"publish", "store", "scan", "asleep", "expire", "expireRunning", "record", "done"}
    /\ i \in 0 .. ContextCount /\ active \subseteq Contexts /\ loops \in 0 .. TimeoutLoops
    /\ entry \in [Contexts -> {"none"} \cup Final]
    /\ sum \in [planned : Nat, completed : Nat, ok : Nat, fail : Nat]

(* Where the BSP is fixes its index and what the index stands for.         *)
ControlInv ==
    /\ pc \in {"store", "expireRunning", "record"} => i \in Contexts
    /\ pc = "store" => bootOk[i]
    /\ pc \in {"publish", "store"} => \A c \in Contexts : Sent(c) => c < i
    /\ pc = "asleep" => i = 0
    /\ pc \in {"expire", "expireRunning", "record"} =>
          loops = TimeoutLoops /\ \A c \in active : c >= i
    /\ pc \in {"expireRunning", "record"} => i \in active
    /\ pc = "expireRunning" => word[i] # "PENDING"
    /\ pc = "record" => word[i] \in Final
    /\ pc = "done" => active = {}

(* A slot holds a ping exactly when the ping was published, and the ping   *)
(* is either waited for or recorded.                                       *)
SlotInv ==
    \A c \in Contexts :
        /\ Sent(c) <=> word[c] # "EMPTY"
        /\ Sent(c) => bootOk[c]
        /\ c \in active => entry[c] = "none"
        /\ entry[c] # "none" => word[c] = entry[c]
        /\ word[c] = "TIMEOUT" => loops = TimeoutLoops

(* An AP serves the ping of its slot once, unless it was taken away.       *)
ServeInv ==
    \A c \in Contexts :
        /\ word[c] \in {"EMPTY", "PENDING"} => ran[c] = 0 /\ apPc[c] \notin {"claimed", "handled"}
        /\ apPc[c] = "claimed" => ran[c] = 0
        /\ apPc[c] = "handled" => ran[c] = 1
        /\ word[c] = "RUNNING" => apPc[c] # "sweep"
        /\ word[c] = "DONE" => ran[c] = 1 /\ apPc[c] \notin {"claimed", "handled"}

CountInv ==
    /\ sum.completed = Recorded(Final)
    /\ sum.ok = Recorded({"DONE"}) /\ sum.ok + sum.fail = sum.completed
    /\ sum.planned = Cardinality({ c \in Contexts : Sent(c) })

IInv == RoundTypeOK /\ ControlInv /\ SlotInv /\ ServeInv /\ CountInv
=============================================================================
