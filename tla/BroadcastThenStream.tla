------------------------ MODULE BroadcastThenStream ------------------------
(***************************************************************************)
(* What efi_main does with the routed AP: run_ap_broadcast_ping sends it a *)
(* ping in slot 0, waits a bounded time, restores the counters the ping    *)
(* changed, and run_ap_request_stream then resets and reuses the slots of  *)
(* the same AP.  The AP runs on through the hand-over.                     *)
(*                                                                         *)
(* The ping is the request after the stream's plan.  Other APs are left    *)
(* out: they have slots of their own (module ApBroadcast).                 *)
(***************************************************************************)
EXTENDS StreamLedger

VARIABLES
    bcPc,      \* where the BSP is in run_ap_broadcast_ping
    bcLoops,   \* its wait_loops
    bcEntry,   \* summary entry of the AP: recorded state, or "none"
    saved      \* target_handled_count and target_counter_value

bcVars == <<bcPc, bcLoops, bcEntry, saved>>
roundVars == <<vars, bcVars>>

BcSlot == 0                  \* AP_BROADCAST_PING_SLOT_INDEX
BcPing == PlanCount + 1

ASSUME BroadcastAssumption ==
    /\ Len(Plan) = BcPing
    /\ Plan[BcPing] = [service |-> SERVICE_PING, interface |-> INTERFACE_PING,
                       opcode |-> "PING"]

RoundInit ==
    /\ Init
    /\ bcPc = "accept"
    /\ bcLoops = 0
    /\ bcEntry = "none"
    /\ saved = [handled |-> handledCount, counter |-> counterValue]

ap_context_can_accept_broadcast_ping == bootOk /\ ~ap_request_stream_should_stop

(* A step of the BSP in the broadcast that leaves the stream and the AP's  *)
(* private state alone.                                                    *)
BcGoto(here, there) ==
    /\ bcPc = here /\ bcPc' = there
    /\ UNCHANGED <<apOwned, kick, bspVars>>

BcAccept ==
    /\ BcGoto("accept", IF ap_context_can_accept_broadcast_ping
                        THEN "publish" ELSE "restore")
    /\ UNCHANGED <<slotVars, queue, ipi, bcLoops, bcEntry, saved>>

(* publish_ap_inbox_request without a kick: reset and preparation ...      *)
BcPublish ==
    /\ BcGoto("publish", "faulted")
    /\ slotState' = [slotState EXCEPT ![BcSlot] = "EMPTY"]
    /\ slotReq' = [slotReq EXCEPT ![BcSlot] = BcPing]
    /\ slotReply' = [slotReply EXCEPT ![BcSlot] = ResetReply]
    /\ UNCHANGED <<queue, ipi, bcLoops, bcEntry, saved>>

(* ... the two looks at the AP's health ...                                *)
BcFaulted ==
    /\ BcGoto("faulted", IF apState = "FAULTED" THEN "scan" ELSE "halted")
    /\ IF apState = "FAULTED"
       THEN /\ slotReply' = [slotReply EXCEPT ![BcSlot].fault = fault.vector]
            /\ slotState' = [slotState EXCEPT ![BcSlot] = "FAULT"]
       ELSE UNCHANGED <<slotReply, slotState>>
    /\ UNCHANGED <<slotReq, queue, ipi, bcLoops, bcEntry, saved>>

BcHalted ==
    /\ BcGoto("halted", IF apState = "HALTED" THEN "scan" ELSE "store")
    /\ slotState' = IF apState = "HALTED"
                    THEN [slotState EXCEPT ![BcSlot] = "SKIPPED"] ELSE slotState
    /\ UNCHANGED <<slotReq, slotReply, queue, ipi, bcLoops, bcEntry, saved>>

(* ... and the store of the state word.                                    *)
BcStore ==
    /\ BcGoto("store", "scan")
    /\ slotState' = [slotState EXCEPT ![BcSlot] = "PENDING"]
    /\ UNCHANGED <<slotReq, slotReply, queue, ipi, bcLoops, bcEntry, saved>>

(* The wait loop: record the slot if it is over, or sleep until an event.  *)
BcLook(over) ==
    /\ BcGoto("scan", IF over THEN "restore" ELSE "asleep")
    /\ bcEntry' = IF over THEN slotState[BcSlot] ELSE bcEntry
    /\ UNCHANGED <<slotVars, queue, ipi, bcLoops, saved>>

(* Mutant of BcScan: a claimed slot counts as finished.                    *)
BcScanEarly == BcLook(slotState[BcSlot] # "PENDING")

BcScan == BcLook(ap_request_state_finished(slotState[BcSlot]))

(* Mutant of BcAdvance: the timer counts for nothing.                      *)
BcStuck(step) == bcLoops

(* advance_ap_request_wait_loops(bcLoops, step).                           *)
BcAdvance(step) ==
    IF step >= TimeoutLoops - bcLoops THEN TimeoutLoops ELSE bcLoops + step

BcWake ==
    /\ \/ ipi /\ ipi' = FALSE /\ bcLoops' = BcAdvance(1)
       \/ ipi' \in {ipi, FALSE} /\ bcLoops' = BcAdvance(TimerStep)
    /\ BcGoto("asleep", IF bcLoops' < TimeoutLoops THEN "scan" ELSE "expire")
    /\ UNCHANGED <<slotVars, queue, bcEntry, saved>>

(* timeout_ap_broadcast_ping_slot: a look, then two cmpxchg.               *)
BcExpire ==
    /\ BcGoto("expire", IF slotState[BcSlot] = "PENDING"
                           \/ ap_request_state_finished(slotState[BcSlot])
                        THEN "record" ELSE "expireRunning")
    /\ slotState' = [slotState EXCEPT ![BcSlot] =
                        IF @ = "PENDING" THEN "TIMEOUT" ELSE @]
    /\ UNCHANGED <<slotReq, slotReply, queue, ipi, bcLoops, bcEntry, saved>>

BcExpireRunning ==
    /\ BcGoto("expireRunning", "record")
    /\ slotState' = [slotState EXCEPT ![BcSlot] =
                        IF @ = "RUNNING" THEN "TIMEOUT" ELSE @]
    /\ UNCHANGED <<slotReq, slotReply, queue, ipi, bcLoops, bcEntry, saved>>

(* record_ap_broadcast_ping_result after a timeout.                        *)
BcRecord ==
    /\ BcGoto("record", "restore")
    /\ bcEntry' = slotState[BcSlot]
    /\ UNCHANGED <<slotVars, queue, ipi, bcLoops, saved>>

(* Pending interrupts are drained and the counters of the target restored. *)
BcRestore ==
    /\ bcPc = "restore" /\ bcPc' = "done"
    /\ ipi' = FALSE
    /\ handledCount' = saved.handled
    /\ counterValue' = saved.counter
    /\ UNCHANGED <<slotVars, bootVars, currentSlot, apTimer, apPc, apI, handledWork,
                   faultTest, execs, queue, kick, bspVars, bcLoops, bcEntry, saved>>

Broadcast ==
    \/ BcAccept \/ BcPublish \/ BcFaulted \/ BcHalted \/ BcStore \/ BcScan
    \/ BcWake \/ BcExpire \/ BcExpireRunning \/ BcRecord \/ BcRestore

StreamStep == bcPc = "done" /\ BspStep /\ UNCHANGED bcVars

RoundNext ==
    \/ ApNext /\ UNCHANGED bcVars
    \/ Broadcast \/ StreamStep
    \/ HaltForever /\ UNCHANGED bcVars

RoundSpec == RoundInit /\ [][RoundNext]_roundVars

(* The BSP executes its code; nothing is assumed of the AP.                *)
RoundFairSpec == RoundSpec /\ WF_roundVars(Broadcast \/ StreamStep)

-----------------------------------------------------------------------------
(* Properties.                                                             *)

(* A broadcast that did not time out hands over an inbox nobody works on:  *)
(* the stream serves each request at most once, reports what happened to   *)
(* it, and counts increments as the AP does.                               *)
CleanHandOver ==
    bcEntry # "TIMEOUT" => AtMostOnce /\ OutcomeIsTrue /\ CountersAgree

(* The AP updates its queue summary after the DONE that ends the           *)
(* broadcast, so that the update may land after the stream's reset: the    *)
(* summary then counts the ping, and nothing else, on top of the plan.     *)
SummaryOffByPing ==
    /\ bcEntry # "TIMEOUT" /\ bspPc = "returned" /\ result
    /\ apPc \in {"notify", "sweep", "hlt"}
    => queue.handled \in PlanCount .. PlanCount + 1 /\ queue.stop = "DRAINED"

(* Broadcast and stream both end, whatever the AP does.                    *)
RoundReturns == <>(bspPc = "returned")

-----------------------------------------------------------------------------
(* The inductive invariant behind the theorems of StreamProofs about       *)
(* RoundSpec.  Unless the ping timed out, the invariants of the stream     *)
(* hold from the start of the broadcast, and the inbox is settled when it  *)
(* ends.                                                                   *)

TimedOut == bcEntry = "TIMEOUT" \/ (bcPc = "record" /\ slotState[BcSlot] = "TIMEOUT")

BeforePcs == {"accept", "publish"}
WritePcs == {"faulted", "halted", "store"}
WaitPcs == {"scan", "asleep", "expire", "expireRunning", "record"}

BcTypeOK ==
    /\ bcPc \in BeforePcs \cup WritePcs \cup WaitPcs \cup {"restore", "done"}
    /\ saved \in [handled : Nat, counter : Nat]
    /\ bcPc # "done" => bspPc = "reset" /\ history = <<>> /\ counterBase = 0
    /\ bcPc \notin {"restore", "done"} => bcEntry = "none"

(* While the broadcast lasts, slot 0 is the only one in use and the ping   *)
(* the only request.                                                       *)
PingInv ==
    /\ counterValue = saved.counter
    /\ \A s \in Slots : s # BcSlot => slotState[s] = "EMPTY" /\ slotReq[s] = NoReq
    /\ bcPc \in BeforePcs => slotState[BcSlot] = "EMPTY" /\ slotReq[BcSlot] = NoReq
    /\ bcPc \in WritePcs => slotState[BcSlot] = "EMPTY" /\ slotReq[BcSlot] = BcPing
    /\ bcPc \in BeforePcs \cup WritePcs =>
          execs[BcPing] = 0 /\ currentSlot = NoSlot /\ apPc \notin SlotPcs
    /\ bcPc \notin {"accept", "restore"} => bootOk
    /\ bcPc \in WaitPcs => slotState[BcSlot] # "EMPTY" /\ slotReq[BcSlot] = BcPing
    /\ bcPc = "expireRunning" => slotState[BcSlot] # "PENDING"
    /\ bcPc = "record" => ap_request_state_finished(slotState[BcSlot])
    /\ bcPc = "restore" => slotState[BcSlot] \notin {"PENDING", "RUNNING"}
    /\ apPc = "hung" => slotState[apI] \in {"RUNNING", "TIMEOUT"}

(* Where the AP is when it has a current slot, and that the fault handler  *)
(* never finds that slot EMPTY.                                            *)
HoldInv ==
    /\ currentSlot \in Slots =>
          /\ slotState[currentSlot] # "EMPTY"
          /\ apPc \in WorkPcs \cup MarkingPcs \cup MarkedPcs
                       \cup {"missNote", "noteDone", "hung", "faultReport"}
    /\ apPc # "faultStore"

RoundInv ==
    /\ BcTypeOK
    /\ bcEntry # "TIMEOUT" => IInv /\ (bcPc # "done" => HoldInv)
    /\ ~TimedOut =>
          /\ LedgerInv /\ FaultInv /\ CounterInv
          /\ \E extra \in 0 .. 1 : SummaryInv(extra)
          /\ IF bcPc = "done" THEN SettledInv ELSE PingInv
=============================================================================
