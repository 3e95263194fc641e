------------------------------ MODULE ApStream ------------------------------
(***************************************************************************)
(* run_ap_request_stream (kernel/kernel.c): the boot processor (BSP) feeds *)
(* a plan of requests through the inbox of one AP, refilling a slot as     *)
(* soon as it has recorded the slot's result, stops the stream when the AP *)
(* dies or a request fails, and gives up after a bounded wait.             *)
(*                                                                         *)
(* The AP of module ApLoop runs concurrently.  The stream starts on an AP  *)
(* that sweeps an inbox without open requests, as after boot; module       *)
(* BroadcastThenStream starts it where the broadcast leaves off.           *)
(***************************************************************************)
EXTENDS ApLoop, FiniteSets

CONSTANTS
    HistoryCount,   \* AP_REQUEST_HISTORY_COUNT
    TimeoutLoops,   \* AP_REQUEST_TIMEOUT_LOOPS
    TimerStep,      \* BSP_WAIT_TIMER_TIMEOUT_STEP
    OrderBase       \* 0x80000000: above every handled_count

ASSUME StreamAssumption ==
    /\ HistoryCount \in Nat
    /\ TimeoutLoops \in Nat /\ TimerStep \in Nat \ {0}
    /\ OrderBase \in Nat

VARIABLES
    bootOk,       \* boot.error = AP_BOOT_OK and boot.online
    bspPc,        \* where the BSP is
    bspI,         \* its loop index slot_index
    active,       \* active[]
    nextPlan,     \* next_plan
    completed,    \* completed_count
    counterBase,  \* counter_base
    stopped,      \* stopped
    waitLoops,    \* wait_loops
    seen,         \* local state of stop_ap_request_stream
    history,      \* the valid prefix of request_history
    backTo,       \* where the publish or stop routine returns to
    result        \* return value

bspVars == <<bootOk, bspPc, bspI, active, nextPlan, completed, counterBase,
             stopped, waitLoops, seen, history, backTo, result>>
vars == <<apVars, bspVars>>

(* The AP's private state and what only the AP writes.                     *)
apOwned == <<bootVars, currentSlot, handledCount, counterValue, apTimer, apPc,
             apI, handledWork, faultTest, execs>>

Init ==
    /\ ApInit
    /\ bootOk \in BOOLEAN
    /\ bspPc = "reset"
    /\ bspI = 0
    /\ active = [s \in Slots |-> FALSE]
    /\ nextPlan = 0
    /\ completed = 0
    /\ counterBase = 0
    /\ stopped = FALSE
    /\ waitLoops = 0
    /\ seen = "EMPTY"
    /\ history = <<>>
    /\ backTo = "first"
    /\ result = FALSE

-----------------------------------------------------------------------------
(* Helpers of the stream.                                                  *)

ap_request_is_counter_increment(r) ==
    /\ r \in Reqs
    /\ Plan[r].service = SERVICE_COUNTER
    /\ Plan[r].interface = INTERFACE_COUNTER
    /\ Plan[r].opcode = "COUNTER"

ap_request_stream_should_stop == apState \in {"FAULTED", "HALTED"}

(* Mutants of advance_ap_request_wait_loops: no saturation, no progress.   *)
AdvanceUnbounded(step) == waitLoops + step

AdvanceStuck(step) == waitLoops

advance_ap_request_wait_loops(step) ==
    IF step >= TimeoutLoops - waitLoops THEN TimeoutLoops ELSE waitLoops + step

ap_stream_finished_slot_order(s) ==
    IF slotState[s] = "DONE" /\ slotReply[s].handled # 0
    THEN slotReply[s].handled
    ELSE OrderBase + s

ap_stream_has_earlier_finished_slot(s) ==
    \E t \in Slots \ {s} :
        /\ active[t]
        /\ ap_request_state_finished(slotState[t])
        /\ ap_stream_finished_slot_order(t) < ap_stream_finished_slot_order(s)

ap_request_stream_has_finished_slot ==
    \E s \in Slots : active[s] /\ ap_request_state_finished(slotState[s])

NoActiveSlot == \A s \in Slots : ~active[s]   \* active_ap_request_slot_count = 0

ap_request_all_done == \A s \in Slots : slotState[s] = "DONE"

(* record_ap_stream_slot: what record_ap_request_history stores.           *)
Entry(s, counter) ==
    [req |-> slotReq[s], state |-> slotState[s], reply |-> slotReply[s],
     counter |-> counter, slot |-> s + 1]

-----------------------------------------------------------------------------
(* Prologue.                                                               *)

(* Reset of the queue summary, the history and every slot.  No request is  *)
(* open, so the AP touches neither slots nor summary meanwhile.            *)
ResetStream ==
    /\ bspPc = "reset"
    /\ counterBase' = counterValue
    /\ queue' = ResetQueue
    /\ history' = <<>>
    /\ active' = [s \in Slots |-> FALSE]
    /\ slotState' = [s \in Slots |-> "EMPTY"]
    /\ slotReq' = [s \in Slots |-> NoReq]
    /\ slotReply' = [s \in Slots |-> ResetReply]
    /\ bspPc' = "early"
    /\ UNCHANGED <<apOwned, kick, ipi, bootOk, bspI, nextPlan, completed,
                   stopped, waitLoops, seen, backTo, result>>

EarlyReturn ==
    /\ bspPc = "early"
    /\ ap_request_stream_should_stop
    /\ queue' = [queue EXCEPT !.stop =
                    IF apState = "FAULTED" THEN "FAULT" ELSE "BAD_OP"]
    /\ result' = FALSE
    /\ bspPc' = "returned"
    /\ UNCHANGED <<slotVars, apOwned, kick, ipi, bootOk, bspI, active, nextPlan,
                   completed, counterBase, stopped, waitLoops, seen, history,
                   backTo>>

BeginPublish ==
    /\ bspPc = "early"
    /\ ~ap_request_stream_should_stop
    /\ bspI' = 0
    /\ backTo' = "first"
    /\ bspPc' = IF nextPlan < PlanCount THEN "pubReset" ELSE "top"
    /\ UNCHANGED <<slotVars, apOwned, queue, kick, ipi, bootOk, active, nextPlan,
                   completed, counterBase, stopped, waitLoops, seen, history,
                   result>>

-----------------------------------------------------------------------------
(* publish_ap_stream_slot(bspI, plan[nextPlan]).  First the state word is  *)
(* EMPTY, then the request is written, then the AP's health is read twice, *)
(* then the state word is stored whatever it holds by then.                *)

PubReset ==
    /\ bspPc = "pubReset"
    /\ slotState' = [slotState EXCEPT ![bspI] = "EMPTY"]
    /\ bspPc' = "pubPrepare"
    /\ UNCHANGED <<slotReq, slotReply, apOwned, queue, kick, ipi, bootOk, bspI,
                   active, nextPlan, completed, counterBase, stopped, waitLoops,
                   seen, history, backTo, result>>

(* reset_ap_inbox_slot and prepare_ap_request_slot_from_plan.              *)
PubPrepare ==
    /\ bspPc = "pubPrepare"
    /\ slotReq' = [slotReq EXCEPT ![bspI] = nextPlan + 1]
    /\ slotReply' = [slotReply EXCEPT ![bspI] = ResetReply]
    /\ bspPc' = "pubFaulted"
    /\ UNCHANGED <<slotState, apOwned, queue, kick, ipi, bootOk, bspI, active,
                   nextPlan, completed, counterBase, stopped, waitLoops, seen,
                   history, backTo, result>>

(* Mutant of Published: next_plan is not advanced.                         *)
PublishedAgain ==
    /\ active' = [active EXCEPT ![bspI] = TRUE]
    /\ IF backTo = "first" /\ ~(bspI + 1 < SlotCount /\ nextPlan < PlanCount)
       THEN bspI' = 0 /\ bspPc' = "top"
       ELSE /\ bspI' = bspI + 1
            /\ bspPc' = IF backTo = "first" THEN "pubReset" ELSE "check"
    /\ UNCHANGED <<bootOk, nextPlan, completed, counterBase, stopped, waitLoops,
                   seen, history, backTo, result>>

(* Return of publish_ap_stream_slot to the first round, which goes on with *)
(* the next slot and the next request, or to the main loop.                *)
Published ==
    /\ active' = [active EXCEPT ![bspI] = TRUE]
    /\ nextPlan' = nextPlan + 1
    /\ IF backTo = "first" /\ ~(bspI + 1 < SlotCount /\ nextPlan + 1 < PlanCount)
       THEN bspI' = 0 /\ bspPc' = "top"
       ELSE /\ bspI' = bspI + 1
            /\ bspPc' = IF backTo = "first" THEN "pubReset" ELSE "check"
    /\ UNCHANGED <<bootOk, completed, counterBase, stopped, waitLoops, seen,
                   history, backTo, result>>

(* Mutant of PubFaulted: the reply does not carry the vector.              *)
PubFaultedNoCode ==
    /\ bspPc = "pubFaulted"
    /\ apState = "FAULTED"
    /\ slotState' = [slotState EXCEPT ![bspI] = "FAULT"]
    /\ Published
    /\ UNCHANGED <<slotReq, slotReply, apOwned, queue, kick, ipi>>

PubFaulted ==
    /\ bspPc = "pubFaulted"
    /\ apState = "FAULTED"
    /\ slotReply' = [slotReply EXCEPT ![bspI].fault = fault.vector]
    /\ slotState' = [slotState EXCEPT ![bspI] = "FAULT"]
    /\ Published
    /\ UNCHANGED <<slotReq, apOwned, queue, kick, ipi>>

PubNotFaulted ==
    /\ bspPc = "pubFaulted"
    /\ apState # "FAULTED"
    /\ bspPc' = "pubHalted"
    /\ UNCHANGED <<slotVars, apOwned, queue, kick, ipi, bootOk, bspI, active,
                   nextPlan, completed, counterBase, stopped, waitLoops, seen,
                   history, backTo, result>>

PubSkipped ==
    /\ bspPc = "pubHalted"
    /\ ~bootOk \/ apState = "HALTED"
    /\ slotState' = [slotState EXCEPT ![bspI] = "SKIPPED"]
    /\ Published
    /\ UNCHANGED <<slotReq, slotReply, apOwned, queue, kick, ipi>>

PubNotHalted ==
    /\ bspPc = "pubHalted"
    /\ bootOk /\ apState # "HALTED"
    /\ bspPc' = "pubStore"
    /\ UNCHANGED <<slotVars, apOwned, queue, kick, ipi, bootOk, bspI, active,
                   nextPlan, completed, counterBase, stopped, waitLoops, seen,
                   history, backTo, result>>

PubStore ==
    /\ bspPc = "pubStore"
    /\ slotState' = [slotState EXCEPT ![bspI] = "PENDING"]
    /\ bspPc' = "pubKick"
    /\ UNCHANGED <<slotReq, slotReply, apOwned, queue, kick, ipi, bootOk, bspI,
                   active, nextPlan, completed, counterBase, stopped, waitLoops,
                   seen, history, backTo, result>>

(* bsp_notify_ap_request_pending.                                          *)
PubKick ==
    /\ bspPc = "pubKick"
    /\ kick' \in IF bootOk /\ ~ap_request_stream_should_stop
                 THEN Latched(kick) ELSE {kick}
    /\ Published
    /\ UNCHANGED <<slotVars, apOwned, queue, ipi>>

(* The first round may run with interrupts enabled: a completion IPI that  *)
(* arrives is taken at once and does not wake anybody later.               *)
TakeIpi ==
    /\ backTo = "first" /\ bspPc \in {"pubReset", "pubPrepare", "pubFaulted",
                                      "pubHalted", "pubStore", "pubKick"}
    /\ ipi
    /\ ipi' = FALSE
    /\ UNCHANGED <<slotVars, apOwned, queue, kick, bspVars>>

-----------------------------------------------------------------------------
(* stop_ap_request_stream, entered with bspI = 0: it reads each active     *)
(* slot's state word and then overwrites it, without cmpxchg.              *)

StopRead ==
    /\ bspPc = "stop" /\ bspI \in Slots
    /\ IF active[bspI] /\ ~ap_request_state_finished(slotState[bspI])
       THEN /\ seen' = slotState[bspI]
            /\ bspPc' = "stopStore"
            /\ UNCHANGED bspI
       ELSE /\ bspI' = bspI + 1
            /\ UNCHANGED <<seen, bspPc>>
    /\ UNCHANGED <<slotVars, apOwned, queue, kick, ipi, bootOk, active, nextPlan,
                   completed, counterBase, stopped, waitLoops, history, backTo,
                   result>>

(* Mutant of StopStore: RUNNING slots are skipped too.                     *)
StopStoreBlind ==
    /\ bspPc = "stopStore"
    /\ IF apState = "FAULTED" /\ seen = "RUNNING"
       THEN /\ slotReply' = [slotReply EXCEPT ![bspI].fault = fault.vector]
            /\ slotState' = [slotState EXCEPT ![bspI] = "FAULT"]
       ELSE /\ slotState' = [slotState EXCEPT ![bspI] = "SKIPPED"]
            /\ UNCHANGED slotReply
    /\ bspI' = bspI + 1
    /\ bspPc' = "stop"
    /\ UNCHANGED <<slotReq, apOwned, queue, kick, ipi, bootOk, active, nextPlan,
                   completed, counterBase, stopped, waitLoops, seen, history,
                   backTo, result>>

StopStore ==
    /\ bspPc = "stopStore"
    /\ IF apState = "FAULTED" /\ seen = "RUNNING"
       THEN /\ slotReply' = [slotReply EXCEPT ![bspI].fault = fault.vector]
            /\ slotState' = [slotState EXCEPT ![bspI] = "FAULT"]
       ELSE /\ slotState' = IF seen = "PENDING"
                            THEN [slotState EXCEPT ![bspI] = "SKIPPED"]
                            ELSE slotState
            /\ UNCHANGED slotReply
    /\ bspI' = bspI + 1
    /\ bspPc' = "stop"
    /\ UNCHANGED <<slotReq, apOwned, queue, kick, ipi, bootOk, active, nextPlan,
                   completed, counterBase, stopped, waitLoops, seen, history,
                   backTo, result>>

StopReturn ==
    /\ bspPc = "stop" /\ bspI = SlotCount
    /\ bspI' = 0
    /\ bspPc' = backTo
    /\ UNCHANGED <<slotVars, apOwned, queue, kick, ipi, bootOk, active, nextPlan,
                   completed, counterBase, stopped, waitLoops, seen, history,
                   backTo, result>>

-----------------------------------------------------------------------------
(* The main loop.                                                          *)

LoopTop ==
    /\ bspPc = "top"
    /\ IF ap_request_stream_should_stop
       THEN stopped' = TRUE /\ bspPc' = "stop"
       ELSE bspPc' = "check" /\ UNCHANGED stopped
    /\ bspI' = 0
    /\ backTo' = "check"
    /\ UNCHANGED <<slotVars, apOwned, queue, kick, ipi, bootOk, active, nextPlan,
                   completed, counterBase, waitLoops, seen, history, result>>

(* The test of lines 2578 - 2581.  It is one step: the verdict on a slot   *)
(* that has finished cannot change, since what finishes later is handled   *)
(* later, and a slot that has not finished is not compared.                *)
Check ==
    /\ bspPc = "check" /\ bspI \in Slots
    /\ IF ~active[bspI] \/ (/\ ap_request_state_finished(slotState[bspI])
                            /\ ap_stream_has_earlier_finished_slot(bspI))
       THEN bspI' = bspI + 1 /\ UNCHANGED bspPc
       ELSE bspPc' = "finish" /\ UNCHANGED bspI
    /\ UNCHANGED <<slotVars, apOwned, queue, kick, ipi, bootOk, active, nextPlan,
                   completed, counterBase, stopped, waitLoops, seen, history,
                   backTo, result>>

(* Mutant of RecordSlot: every increment counts, served or not.            *)
RecordSlotAny(s) ==
    LET base == IF ap_request_is_counter_increment(slotReq[s])
                THEN counterBase + 1 ELSE counterBase
    IN  /\ counterBase' = base
        /\ history' = IF completed < HistoryCount
                      THEN Append(history, Entry(s, base)) ELSE history
        /\ active' = [active EXCEPT ![s] = FALSE]
        /\ completed' = completed + 1

(* The effect of finish_ap_stream_slot on a finished slot.                 *)
RecordSlot(s) ==
    LET base == IF /\ ap_request_is_counter_increment(slotReq[s])
                   /\ slotState[s] = "DONE"
                   /\ slotReply[s].fault = 0
                THEN counterBase + 1 ELSE counterBase
    IN  /\ counterBase' = base
        /\ history' = IF completed < HistoryCount
                      THEN Append(history, Entry(s, base)) ELSE history
        /\ active' = [active EXCEPT ![s] = FALSE]
        /\ completed' = completed + 1

(* Mutant of Finish: a failed request does not stop the stream, and its    *)
(* slot is refilled.                                                       *)
FinishKeepsGoing ==
    /\ bspPc = "finish"
    /\ IF ap_request_state_finished(slotState[bspI])
       THEN /\ RecordSlot(bspI)
            /\ IF ~stopped /\ waitLoops < TimeoutLoops /\ nextPlan < PlanCount
               THEN bspPc' = "refill" /\ UNCHANGED bspI
               ELSE bspPc' = "check" /\ bspI' = bspI + 1
       ELSE /\ bspPc' = "check" /\ bspI' = bspI + 1
            /\ UNCHANGED <<counterBase, history, active, completed>>
    /\ UNCHANGED <<slotVars, apOwned, queue, kick, ipi, bootOk, nextPlan,
                   stopped, waitLoops, seen, backTo, result>>

(* finish_ap_stream_slot reads the state word again: the slot may have     *)
(* finished since Check.                                                   *)
Finish ==
    /\ bspPc = "finish"
    /\ IF ap_request_state_finished(slotState[bspI])
       THEN /\ RecordSlot(bspI)
            /\ stopped' = (stopped \/ slotState[bspI] # "DONE")
            /\ IF /\ slotState[bspI] = "DONE" /\ ~stopped
                  /\ waitLoops < TimeoutLoops /\ nextPlan < PlanCount
               THEN bspPc' = "refill" /\ UNCHANGED bspI
               ELSE bspPc' = "check" /\ bspI' = bspI + 1
       ELSE /\ bspPc' = "check" /\ bspI' = bspI + 1
            /\ UNCHANGED <<counterBase, history, active, completed, stopped>>
    /\ UNCHANGED <<slotVars, apOwned, queue, kick, ipi, bootOk, nextPlan,
                   waitLoops, seen, backTo, result>>

Refill ==
    /\ bspPc = "refill"
    /\ IF ap_request_stream_should_stop
       THEN stopped' = TRUE /\ bspPc' = "check" /\ bspI' = bspI + 1
       ELSE bspPc' = "pubReset" /\ UNCHANGED <<stopped, bspI>>
    /\ UNCHANGED <<slotVars, apOwned, queue, kick, ipi, bootOk, active, nextPlan,
                   completed, counterBase, waitLoops, seen, history, backTo,
                   result>>

ScanEnd ==
    /\ bspPc = "check" /\ bspI = SlotCount
    /\ bspPc' = IF stopped THEN "stop" ELSE "decide"
    /\ bspI' = 0
    /\ backTo' = "decide"
    /\ UNCHANGED <<slotVars, apOwned, queue, kick, ipi, bootOk, active, nextPlan,
                   completed, counterBase, stopped, waitLoops, seen, history,
                   result>>

(* Leave the loop, scan again at once, spin, or wait for an interrupt.     *)
Decide ==
    /\ bspPc = "decide"
    /\ bspPc' = IF NoActiveSlot /\ (nextPlan >= PlanCount \/ stopped) THEN "drain"
                ELSE IF stopped /\ ap_request_stream_has_finished_slot THEN "top"
                ELSE IF waitLoops >= TimeoutLoops THEN "drain"
                ELSE IF stopped THEN "top" ELSE "asleep"
    /\ waitLoops' = IF /\ stopped /\ ~NoActiveSlot
                       /\ ~ap_request_stream_has_finished_slot
                    THEN advance_ap_request_wait_loops(1) ELSE waitLoops
    /\ UNCHANGED <<slotVars, apOwned, queue, kick, ipi, bootOk, bspI, active,
                   nextPlan, completed, counterBase, stopped, seen, history,
                   backTo, result>>

(* bsp_wait_for_ap_request_event: the wait timer is armed, then sti; hlt;  *)
(* cli.  A completion IPI counts one loop; whenever the timer fired too,   *)
(* the wait counts TimerStep loops, and an IPI may then stay latched.      *)
WakeByIpi ==
    /\ bspPc = "asleep"
    /\ ipi
    /\ ipi' = FALSE
    /\ waitLoops' = advance_ap_request_wait_loops(1)
    /\ bspPc' = "top"
    /\ UNCHANGED <<slotVars, apOwned, queue, kick, bootOk, bspI, active, nextPlan,
                   completed, counterBase, stopped, seen, history, backTo, result>>

WakeByTimer ==
    /\ bspPc = "asleep"
    /\ ipi' \in {ipi, FALSE}
    /\ waitLoops' = advance_ap_request_wait_loops(TimerStep)
    /\ bspPc' = "top"
    /\ UNCHANGED <<slotVars, apOwned, queue, kick, bootOk, bspI, active, nextPlan,
                   completed, counterBase, stopped, seen, history, backTo, result>>

-----------------------------------------------------------------------------
(* Epilogue.                                                               *)

(* drain_ap_request_ipis runs with interrupts enabled.                     *)
Drain ==
    /\ bspPc = "drain"
    /\ ipi' = FALSE
    /\ bspI' = 0
    /\ bspPc' = "expire"
    /\ UNCHANGED <<slotVars, apOwned, queue, kick, bootOk, active, nextPlan,
                   completed, counterBase, stopped, waitLoops, seen, history,
                   backTo, result>>

(* finish_timed_out_ap_stream_slots: the first cmpxchg of a slot ...       *)
ExpirePending ==
    /\ bspPc = "expire" /\ bspI \in Slots
    /\ IF active[bspI]
       THEN /\ slotState' = [slotState EXCEPT ![bspI] =
                                IF @ = "PENDING" THEN "TIMEOUT" ELSE @]
            /\ bspPc' = IF slotState[bspI] \in {"EMPTY", "RUNNING"}
                        THEN "expireRunning" ELSE "expireFinish"
            /\ UNCHANGED bspI
       ELSE bspI' = bspI + 1 /\ UNCHANGED <<slotState, bspPc>>
    /\ UNCHANGED <<slotReq, slotReply, apOwned, queue, kick, ipi, bootOk, active,
                   nextPlan, completed, counterBase, stopped, waitLoops, seen,
                   history, backTo, result>>

(* Mutant of ExpireRunning: a RUNNING request is left alone.               *)
ExpireRunningSkipped ==
    /\ bspPc = "expireRunning"
    /\ bspPc' = "expireFinish"
    /\ UNCHANGED <<slotVars, apOwned, queue, kick, ipi, bootOk, bspI,
                   active, nextPlan, completed, counterBase, stopped, waitLoops,
                   seen, history, backTo, result>>

(* ... the second one, when the first failed ...                           *)
ExpireRunning ==
    /\ bspPc = "expireRunning"
    /\ slotState' = [slotState EXCEPT ![bspI] =
                        IF @ = "RUNNING" THEN "TIMEOUT" ELSE @]
    /\ bspPc' = "expireFinish"
    /\ UNCHANGED <<slotReq, slotReply, apOwned, queue, kick, ipi, bootOk, bspI,
                   active, nextPlan, completed, counterBase, stopped, waitLoops,
                   seen, history, backTo, result>>

(* ... and finish_ap_stream_slot.                                          *)
ExpireFinish ==
    /\ bspPc = "expireFinish"
    /\ IF ap_request_state_finished(slotState[bspI])
       THEN RecordSlot(bspI)
       ELSE UNCHANGED <<counterBase, history, active, completed>>
    /\ bspI' = bspI + 1
    /\ bspPc' = "expire"
    /\ UNCHANGED <<slotVars, apOwned, queue, kick, ipi, bootOk, nextPlan, stopped,
                   waitLoops, seen, backTo, result>>

Return ==
    /\ bspPc = "expire" /\ bspI = SlotCount
    /\ result' = (completed = PlanCount /\ ap_request_all_done)
    /\ bspPc' = "returned"
    /\ UNCHANGED <<slotVars, apOwned, queue, kick, ipi, bootOk, bspI, active,
                   nextPlan, completed, counterBase, stopped, waitLoops, seen,
                   history, backTo>>

(* efi_main ends in halt_forever.                                          *)
HaltForever == bspPc = "returned" /\ UNCHANGED vars

-----------------------------------------------------------------------------
BspStep ==
    \/ ResetStream \/ EarlyReturn \/ BeginPublish
    \/ PubReset \/ PubPrepare \/ PubFaulted \/ PubNotFaulted
    \/ PubSkipped \/ PubNotHalted \/ PubStore \/ PubKick \/ TakeIpi
    \/ StopRead \/ StopStore \/ StopReturn
    \/ LoopTop \/ Check \/ Finish \/ Refill \/ ScanEnd \/ Decide
    \/ WakeByIpi \/ WakeByTimer
    \/ Drain \/ ExpirePending \/ ExpireRunning \/ ExpireFinish \/ Return

ApNext == (ApStep \/ ApFault) /\ UNCHANGED <<faultTest, bspVars>>

Next == ApNext \/ BspStep \/ HaltForever

Spec == Init /\ [][Next]_vars

(* The BSP executes its code: its timer fires whether or not the AP does   *)
(* anything.  Nothing is assumed of the AP, which may hang or die.         *)
BspFairSpec == Spec /\ WF_vars(BspStep)

(* The AP executes its code; a fault is never forced.                      *)
ApFairSpec == Spec /\ WF_vars(ApStep /\ UNCHANGED <<faultTest, bspVars>>)

-----------------------------------------------------------------------------
(* Properties.                                                             *)

BspPcs == {"reset", "early", "pubReset", "pubPrepare", "pubFaulted",
           "pubHalted", "pubStore", "pubKick", "top", "stop", "stopStore",
           "check", "finish", "refill", "decide", "asleep", "drain", "expire",
           "expireRunning", "expireFinish", "returned"}

HistoryEntry == [req : Reqs \cup {NoReq}, state : Status, reply : Reply,
                 counter : Nat, slot : 1 .. SlotCount]

BspFlagsOK ==
    {bootOk, stopped, result} \subseteq BOOLEAN /\ active \in [Slots -> BOOLEAN]

(* Every variable keeps the range of the C object it models; in            *)
(* particular the loop index, next_plan and the wait loops stay within     *)
(* their bounds and the history never outgrows its array.                  *)
TypeOK ==
    /\ ApTypeOK
    /\ BspFlagsOK
    /\ bspPc \in BspPcs
    /\ bspI \in 0 .. SlotCount
    /\ nextPlan \in 0 .. PlanCount
    /\ completed \in Nat
    /\ counterBase \in Nat
    /\ waitLoops \in 0 .. TimeoutLoops
    /\ seen \in Status
    /\ history \in Seq(HistoryEntry)
    /\ Len(history) <= HistoryCount
    /\ backTo \in {"first", "check", "decide"}

(* The AP works on one request at a time: a RUNNING slot is the one at the *)
(* AP's loop index, and the AP is on its way to complete it or faulted.    *)
RunningIsOwned ==
    \A s \in Slots : slotState[s] = "RUNNING" =>
        /\ s = apI
        /\ apPc \notin {"sweep", "hlt", "noteDone", "notify", "missNotify",
                        "halted"}

(* A request is never left open on a dead AP without the BSP being able to *)
(* tell: when the AP has parked itself, its boot state says so, so that    *)
(* ap_request_stream_should_stop ends the stream.                          *)
NoSilentDeath ==
    \A s \in Slots :
        slotState[s] \in {"PENDING", "RUNNING"} /\ apPc \in {"dead", "halted"}
            => ap_request_stream_should_stop

(* No request is executed twice, whatever the timing of refills, timeouts  *)
(* and faults: the slot protocol hands each request to the AP once.        *)
AtMostOnce == \A r \in Reqs : execs[r] <= 1

(* What the history reports about a request is what happened to it: DONE   *)
(* means its handler ran and replied to this very request; SKIPPED and     *)
(* BAD_OP mean that no handler ran for it and none ever will.              *)
OutcomeIsTrue ==
    \A i \in DOMAIN history :
        LET h == history[i] IN
        /\ h.state = "DONE" => /\ execs[h.req] = 1
                               /\ h.reply.id = h.req /\ h.reply.fault = 0
        /\ h.state \in {"SKIPPED", "BAD_OP"} => execs[h.req] = 0

(* A request that was published is recorded exactly once by the time       *)
(* run_ap_request_stream returns, in whatever way it ended.                *)
EveryRequestRecorded ==
    bspPc = "returned" =>
        /\ completed = nextPlan
        /\ \A r \in 1 .. nextPlan :
              \E i \in DOMAIN history :
                 /\ history[i].req = r
                 /\ \A j \in DOMAIN history : history[j].req = r => j = i

(* The BSP's count of increments never runs ahead of the AP's counter, and *)
(* at the end the difference is at most the increments it gave up on.      *)
CountersAgree ==
    /\ counterBase <= counterValue
    /\ bspPc = "returned" =>
          counterValue - counterBase <=
             Cardinality({i \in DOMAIN history :
                             /\ history[i].state \in {"TIMEOUT", "FAULT"}
                             /\ Handler(history[i].req) = "counter"})

(* When the whole plan was served and the AP is back in its sweep, the     *)
(* queue summary says so: as many requests as planned, and DRAINED.        *)
SummaryDrained ==
    bspPc = "returned" /\ result /\ apPc \in {"notify", "sweep", "hlt"} =>
        queue.handled = PlanCount /\ queue.stop = "DRAINED"

(* A result the BSP has not recorded yet is not overwritten, although      *)
(* stop_ap_request_stream and publish store to the state word without      *)
(* cmpxchg.                                                                *)
ResultsAreKept ==
    [][\A s \in Slots :
          active[s] /\ slotState[s] \in {"DONE", "BAD_OP", "SKIPPED", "FAULT"} =>
              slotState'[s] = slotState[s]]_vars

(* A request reported as FAULT carries the vector of the exception, also   *)
(* when it was published or withdrawn after the AP had died.  Left out is  *)
(* an exception that hits the AP between completing a slot and forgetting  *)
(* it: the BSP may be refilling that slot while the handler reports on it. *)
FaultCarriesVector ==
    currentSlot = NoSlot \/ fault.state = "RUNNING" =>
        \A i \in DOMAIN history :
            history[i].state = "FAULT" => history[i].reply.fault = fault.vector

(* run_ap_request_stream returns, even when the AP hangs, faults or never  *)
(* runs at all and no IPI arrives.                                         *)
StreamReturns == <>(bspPc = "returned")

(* A pending request is not forgotten by a running AP: it is claimed, or   *)
(* the BSP withdraws it, or the AP hangs or dies.                          *)
PendingIsServed ==
    \A s \in Slots :
        slotState[s] = "PENDING" ~>
            (slotState[s] # "PENDING" \/ apPc \in {"hung", "halted", "dead"})

(* The kernel's own check of a history entry, which the screen shows as OK *)
(* or NOT-OK.                                                              *)
ap_request_result_ok(h) ==
    /\ h.state = "DONE" /\ h.reply.fault = 0 /\ h.req = h.reply.id
    /\ h.req \in Reqs
    /\ CASE Handler(h.req) = "ping" ->
               Plan[h.req].opcode = "PING" /\ h.reply.result = 0
         [] Handler(h.req) = "counter" ->
               /\ Plan[h.req].opcode = "COUNTER"
               /\ h.reply.result = h.counter /\ h.counter > 0
         [] OTHER -> FALSE

(* A request that was served passes the kernel's own check.                *)
DoneIsReportedOk ==
    \A i \in DOMAIN history :
        history[i].state = "DONE" => ap_request_result_ok(history[i])

-----------------------------------------------------------------------------
(* The inductive invariant behind the theorems of StreamProofs.  IInv also *)
(* holds while the broadcast of module BroadcastThenStream uses the inbox; *)
(* SettledInv is what it has to leave behind for the stream.               *)

WorkPcs == {"start", "dispatch", "note", "complete"}
SlotPcs == WorkPcs \cup {"noteDone", "notify", "hung", "missNote",
                        "missComplete", "missNotify"}
PrepPcs == {"pubReset", "pubPrepare", "pubFaulted", "pubHalted", "pubStore"}
PubPcs == PrepPcs \cup {"pubKick"}
PreparedPcs == {"pubFaulted", "pubHalted", "pubStore", "pubKick"}
ServePcs == WorkPcs \cup {"missNote", "missComplete"}
MarkingPcs == {"faultPending", "faultRunning", "faultEmpty", "faultStore"}
MarkedPcs == {"faultMark", "faultNotify", "dead"}

(* The AP has settled the request of its current slot, or an exception hit *)
(* it after it had.                                                        *)
Leaving ==
    \/ apPc \in MarkedPcs \cup {"noteDone"}
    \/ apPc \in MarkingPcs \cup {"faultReport"} /\ fault.state # "RUNNING"

(* Nothing in the inbox is open when the stream resets it.                 *)
SettledInv ==
    bspPc = "reset" =>
        /\ \A s \in Slots : slotState[s] \notin {"PENDING", "RUNNING", "TIMEOUT"}
        /\ apPc \notin ServePcs
        /\ currentSlot \in Slots => Leaving

(* Control: where a program counter fixes an index or a local.             *)
IndexInv ==
    /\ apPc \in SlotPcs => apI \in Slots
    /\ apPc \in {"faultPending", "faultRunning", "faultEmpty", "faultStore"} =>
          currentSlot \in Slots
    /\ bspPc \in PubPcs \cup {"stopStore", "finish", "refill", "expireRunning",
                            "expireFinish"} => bspI \in Slots
    /\ bspPc \in PubPcs \cup {"refill"} => nextPlan < PlanCount
    /\ bspPc \in {"stop", "stopStore"} => backTo # "first"
    /\ bspPc \in {"check", "finish", "refill"} => backTo # "first"
    /\ bspPc \in {"reset", "early"} => nextPlan = 0
    /\ Len(history) <= completed

(* Requests: a slot the AP may claim or is serving carries a request.      *)
RequestInv ==
    /\ \A s \in Slots : slotState[s] = "PENDING" => slotReq[s] \in Reqs
    /\ apPc \in WorkPcs => slotReq[apI] \in Reqs
    /\ currentSlot \in Slots => slotReq[currentSlot] \in Reqs \/ Leaving
    /\ bspPc \in PreparedPcs => slotReq[bspI] = nextPlan + 1

(* The slots the first round has not reached yet are untouched, except by  *)
(* an exception between DONE and NO_SLOT, whose handler stores FAULT into  *)
(* a slot that has been reset meanwhile.                                   *)
Untouched(s) ==
    /\ slotReq[s] = NoReq
    /\ \/ slotState[s] = "EMPTY"
       \/ /\ slotState[s] = "FAULT" /\ apPc \in MarkedPcs
          /\ currentSlot \in Slots /\ fault.state # "RUNNING"

FirstRoundInv ==
    /\ bspPc = "early" => \A s \in Slots : Untouched(s)
    /\ bspPc \in PubPcs /\ backTo = "first" =>
          /\ \A s \in Slots : s > bspI => Untouched(s)
          /\ bspPc = "pubReset" => Untouched(bspI)

(* Hand-over: while the AP serves a slot the BSP does not republish it,    *)
(* and while the BSP prepares a slot the AP does not claim it.             *)
HandOverInv ==
    /\ apPc \in WorkPcs => slotState[apI] \in {"RUNNING", "TIMEOUT", "FAULT", "SKIPPED"}
    /\ apPc = "faultStore" => slotState[currentSlot] # "DONE"
    /\ bspPc \in PrepPcs => /\ slotState[bspI] \in {"DONE", "EMPTY", "FAULT"}
                            /\ ~(apPc \in WorkPcs /\ apI = bspI)
    /\ bspPc = "refill" \/ (bspPc = "pubReset" /\ backTo # "first") =>
          slotState[bspI] = "DONE"

(* Each request is in one slot, and it is unserved until its handler runs. *)
UnservedInv ==
    /\ \A s \in Slots :
          IF bspPc = "reset" THEN slotReq[s] \notin 1 .. PlanCount
          ELSE slotReq[s] <= nextPlan \/ (bspPc \in PreparedPcs /\ s = bspI)
    /\ \A s, t \in Slots : slotReq[s] = slotReq[t] => s = t \/ slotReq[s] = NoReq
    /\ \A r \in 1 .. PlanCount :
          r > nextPlan + (IF bspPc = "pubKick" THEN 1 ELSE 0) => execs[r] = 0
    /\ \A s \in Slots : slotState[s] = "PENDING" => execs[slotReq[s]] = 0
    /\ apPc \in {"start", "dispatch"} => execs[slotReq[apI]] = 0

(* The AP's last words: what it declares before it parks itself.           *)
DeathInv ==
    /\ apPc \in {"faultNotify", "dead"} => apState = "FAULTED"
    /\ apPc \in {"missNote", "missComplete", "missNotify", "halted"} =>
          apState = "HALTED"

IInv == /\ TypeOK /\ IndexInv /\ RequestInv /\ FirstRoundInv /\ HandOverInv
        /\ UnservedInv /\ RunningIsOwned /\ DeathInv /\ AtMostOnce
=============================================================================
