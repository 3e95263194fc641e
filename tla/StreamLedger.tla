---------------------------- MODULE StreamLedger ----------------------------
(***************************************************************************)
(* The request stream of ApStream implements RequestLedger.  A request is  *)
(* open from the store that makes it visible (PENDING, or the FAULT or     *)
(* SKIPPED of a dead AP) and settled when it enters the history.           *)
(***************************************************************************)
EXTENDS ApStream

Opened == nextPlan + (IF bspPc = "pubKick" THEN 1 ELSE 0)

Served == { r \in 1 .. PlanCount : execs[r] > 0 }

Outcome(r) ==
    IF \E i \in DOMAIN history : history[i].req = r
    THEN history[CHOOSE i \in DOMAIN history : history[i].req = r].state
    ELSE "open"

Ledger == INSTANCE RequestLedger WITH
    RequestCount <- PlanCount,
    opened <- Opened,
    served <- Served,
    outcome <- [r \in 1 .. PlanCount |-> Outcome(r)],
    closed <- (bspPc = "returned"),
    success <- result

(* Every behaviour of the two CPUs is a behaviour of the ledger: however   *)
(* claims, completions, refills, withdrawals, timeouts and faults          *)
(* interleave, run_ap_request_stream shows its caller an in-order,         *)
(* at-most-once, truthful account of the plan.                             *)
ImplementsLedger == Ledger!Spec

-----------------------------------------------------------------------------
(* The inductive invariant behind the theorems of StreamProofs; it rests   *)
(* on IInv of ApStream.                                                    *)

RewritePcs == {"pubPrepare", "pubFaulted", "pubHalted", "pubStore"}
ExpirePcs == {"expire", "expireRunning", "expireFinish"}

(* The AP claims nothing and runs no handler from here on.                 *)
Over == ~bootOk \/ apState \in {"FAULTED", "HALTED"} \/ apPc = "faultMark"

(* The AP's boot state tells where it is, and an AP that is not bootOk is  *)
(* never given anything.                                                   *)
LifeInv ==
    /\ apState = "FAULTED" => apPc \in {"faultNotify", "dead"}
    /\ apState = "HALTED" => apPc \in {"missNote", "missComplete", "missNotify", "halted"}
    /\ ~bootOk => /\ currentSlot = NoSlot /\ apPc \notin SlotPcs
                  /\ bspPc \notin {"pubStore", "pubKick"}
                  /\ \A s \in Slots : slotState[s] \in {"EMPTY", "SKIPPED", "FAULT"}

(* The stream is stopped, and requests are withdrawn, only when the AP is  *)
(* over; TIMEOUT belongs to the epilogue.                                  *)
StopInv ==
    /\ stopped => Over
    /\ bspPc \in {"stop", "stopStore"} => stopped
    /\ bspPc \in PubPcs \cup {"reset", "early", "refill"} => ~stopped
    /\ \A s \in Slots :
          /\ slotState[s] \in {"FAULT", "SKIPPED", "BAD_OP"} => Over
          /\ slotState[s] = "BAD_OP" => apState = "HALTED"
          /\ slotState[s] = "TIMEOUT" => bspPc \in ExpirePcs \cup {"returned"}

(* An active slot holds an opened request, and whoever is between reading  *)
(* and writing a state word still knows what it holds.                     *)
ActiveInv ==
    /\ \A s \in Slots : /\ slotState[s] \notin {"EMPTY", "FAULT"} => slotReq[s] \in Reqs
                        /\ active[s] => /\ slotState[s] # "EMPTY"
                                        /\ slotReq[s] \in 1 .. nextPlan
    /\ bspPc \in {"reset", "early", "returned"} => NoActiveSlot
    /\ bspPc \in PubPcs \cup {"refill"} => ~active[bspI]
    /\ bspPc \in PubPcs /\ backTo = "first" => \A s \in Slots : s > bspI => ~active[s]
    /\ bspPc \in {"stopStore", "finish", "expireRunning", "expireFinish"} => active[bspI]
    /\ bspPc \in ExpirePcs => \A s \in Slots : s < bspI => ~active[s]
    /\ bspPc \in RewritePcs => slotState[bspI] \in {"EMPTY", "FAULT"}
    /\ bspPc = "pubKick" => slotState[bspI] # "EMPTY"
    /\ bspPc = "stopStore" =>
          \/ seen = "PENDING" /\ slotState[bspI] = "PENDING"
          \/ seen = "RUNNING" /\ slotState[bspI] \in {"RUNNING", "BAD_OP"}
    /\ bspPc = "expireRunning" =>
          slotState[bspI] = "RUNNING" \/ ap_request_state_finished(slotState[bspI])
    /\ bspPc = "expireFinish" => ap_request_state_finished(slotState[bspI])
    /\ apPc \in ServePcs => slotState[apI] \in {"RUNNING", "TIMEOUT"}

(* A slot's reply and state word tell what happened to its request.        *)
Answered(reply, r) == execs[r] = 1 /\ reply.id = r /\ reply.fault = 0

SlotsAreTrue ==
    /\ apPc \in {"dispatch", "note", "complete"} =>
          slotReply[apI].id = slotReq[apI] /\ slotReply[apI].fault = 0
    /\ apPc \in {"note", "complete"} => execs[slotReq[apI]] = 1
    /\ apPc \in {"missNote", "missComplete"} => execs[slotReq[apI]] = 0
    /\ apPc = "faultReport" /\ HasSlot =>
          (slotState[currentSlot] = "DONE" => fault.state = "DONE")
    /\ \A s \in Slots :
          /\ slotState[s] = "DONE" => Answered(slotReply[s], slotReq[s])
          /\ slotState[s] \in {"SKIPPED", "BAD_OP"} => execs[slotReq[s]] = 0

(* So does a history entry; a failure ends the stream, and its slot keeps  *)
(* a state word other than DONE.                                           *)
EntryInv(h) ==
    /\ h.req \in 1 .. nextPlan
    /\ ap_request_state_finished(h.state)
    /\ h.state = "DONE" => Answered(h.reply, h.req)
    /\ h.state \in {"SKIPPED", "BAD_OP"} => execs[h.req] = 0
    /\ h.state \in {"SKIPPED", "BAD_OP", "FAULT"} => Over
    /\ h.state # "DONE" =>
          /\ stopped \/ bspPc \in ExpirePcs \cup {"returned"}
          /\ ap_request_state_finished(slotState[h.slot - 1])
          /\ slotState[h.slot - 1] # "DONE"

HistoryInv == \A i \in DOMAIN history : EntryInv(history[i])

ActiveSlots == { s \in Slots : active[s] }

Recorded(r) == \E i \in DOMAIN history : history[i].req = r

(* Every opened request is in the history or in an active slot, once.      *)
AccountInv ==
    PlanCount <= HistoryCount =>
        /\ completed = Len(history)
        /\ completed + Cardinality(ActiveSlots) = nextPlan
        /\ \A s \in ActiveSlots : ~Recorded(slotReq[s])
        /\ \A i, j \in DOMAIN history : history[i].req = history[j].req => i = j
        /\ \A r \in 1 .. nextPlan : Recorded(r) \/ \E s \in ActiveSlots : slotReq[s] = r

LedgerInv == /\ LifeInv /\ StopInv /\ ActiveInv /\ SlotsAreTrue
             /\ HistoryInv /\ AccountInv
-----------------------------------------------------------------------------
(* What the counts and the fault codes of the stream rest on besides.      *)

LoopPcs == FaultablePcs \cup {"hlt", "hung"}

(* The exception did not hit between DONE and NO_SLOT.                     *)
PlainFault == currentSlot = NoSlot \/ fault.state = "RUNNING"

(* FAULT is stored after the vector, and a request that was RUNNING when   *)
(* the exception hit keeps its slot and the fault code of its reply.       *)
FaultInv ==
    /\ \A s \in Slots : slotState[s] = "FAULT" => apPc \in MarkedPcs
    /\ \A i \in DOMAIN history : history[i].state = "FAULT" => apPc \in MarkedPcs
    /\ apPc \in MarkingPcs \cup {"faultReport"} /\ HasSlot /\ fault.state = "RUNNING" =>
          /\ slotState[currentSlot] \in {"RUNNING", "TIMEOUT"}
          /\ apPc \in MarkingPcs => slotReply[currentSlot].fault = fault.vector
    /\ PlainFault =>
          /\ bspPc \in PrepPcs => slotState[bspI] # "FAULT"
          /\ \A s \in Slots : slotState[s] = "FAULT" => slotReply[s].fault = fault.vector
          /\ FaultCarriesVector

(* The DONE slots the BSP has not recorded, among them the one it is about *)
(* to mark active.                                                         *)
Unrecorded == { s \in Slots : /\ slotState[s] = "DONE"
                              /\ active[s] \/ (bspPc = "pubKick" /\ s = bspI) }

(* The AP's count of handled requests and the BSP's count of recorded ones *)
(* differ by the results on their way, as long as neither side gave up,    *)
(* and by extra, the requests completed before the reset and noted after.  *)
NotNoted == IF apPc = "noteDone" THEN 1 ELSE 0

SummaryInv(extra) ==
    /\ bspPc \in {"reset", "early"} => completed = 0
    /\ bspPc # "reset" => \A s \in Slots : slotState[s] \in {"PENDING", "RUNNING"} =>
          active[s] \/ (bspPc = "pubKick" /\ s = bspI)
    /\ /\ bspPc # "reset" /\ bootOk /\ apPc \in LoopPcs
       /\ \A s \in Slots : slotState[s] # "TIMEOUT"
       => queue.handled + NotNoted = completed + Cardinality(Unrecorded) + extra
    /\ apPc \in {"notify", "sweep", "hlt"} /\ ap_request_all_done => queue.stop = "DRAINED"
    /\ bspPc = "returned" /\ result => completed = PlanCount /\ ap_request_all_done

(* The request is in the history as an increment that was served.          *)
Credited(r) ==
    /\ ap_request_is_counter_increment(r)
    /\ \E i \in DOMAIN history : history[i].req = r /\ history[i].state = "DONE"

(* The increments the AP has made and the BSP has not counted.             *)
Uncounted == { r \in 1 .. PlanCount : execs[r] = 1 /\ Handler(r) = "counter" /\ ~Credited(r) }

CounterInv == PlanCount <= HistoryCount => counterBase + Cardinality(Uncounted) = counterValue
=============================================================================
