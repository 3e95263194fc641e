------------------------------- MODULE ApLoop -------------------------------
(***************************************************************************)
(* The AP side of the request inbox (kernel/kernel.c): ap_request_loop     *)
(* claims a PENDING slot with cmpxchg, runs the registered handler,        *)
(* completes the slot with a second cmpxchg, notifies the BSP, and sleeps  *)
(* in hlt when a sweep over the slots found no work.  A CPU exception on   *)
(* the AP runs ap_fault_dispatch, which marks the current request and      *)
(* parks the CPU.                                                          *)
(*                                                                         *)
(* The module holds the state shared with the BSP and the AP's actions;    *)
(* the BSP is the environment, added by the modules that extend this one.  *)
(*                                                                         *)
(* Granularity.  Accesses to a slot's state word are atomic steps of their *)
(* own.  Stores that no other CPU reads before the next such step are      *)
(* grouped with it.  Every store the other side reads is followed by an    *)
(* mfence or a locked instruction, so steps interleave sequentially.       *)
(*                                                                         *)
(* Left out because no control depends on them: the send, halt and wake    *)
(* counters, cs/tr of a reply, wait_loops of a slot, and the part of the   *)
(* request header that is copied and never read (source and target cpu,    *)
(* parent, reply-to, payload, flags).  The outboxes are the subject of     *)
(* another module: no registered handler enqueues to one.                  *)
(***************************************************************************)
EXTENDS ApServices

CONSTANTS
    SlotCount,   \* AP_REQUEST_SLOT_COUNT
    Plan,        \* every request the AP may be sent; its number is its index
    PlanCount,   \* ap_request_plan_count: the stream sends the first ones
    Vectors,     \* exception vectors the AP may take by itself
    FaultTests   \* the builds to look at: "none", "ud2" or "hang"

Slots == 0 .. SlotCount - 1
NoSlot == SlotCount                      \* AP_REQUEST_NO_SLOT
Reqs == 1 .. Len(Plan)                   \* request ids (id_low = sequence)
NoReq == 0                               \* the id of a reset slot
UD2Vector == 6

ASSUME SlotCountAssumption == SlotCount \in Nat \ {0}
(* A plan entry; its sequence number is its position.                      *)
PlanEntry == [service : Nat \X Nat, interface : Nat \X Nat,
              opcode : {"NONE", "PING", "COUNTER"}]

ASSUME PlanAssumption == Plan \in Seq(PlanEntry) /\ PlanCount \in 0 .. Len(Plan)
ASSUME VectorsAssumption == Vectors \subseteq Nat \ {0}
ASSUME FaultTestAssumption == FaultTests \subseteq {"none", "ud2", "hang"}

(* The AP_REQUEST_STATUS_ values of a slot's state word.                   *)
Status == {"EMPTY", "PENDING", "RUNNING", "DONE",
           "TIMEOUT", "BAD_OP", "FAULT", "SKIPPED"}

VARIABLES
    slotState,     \* state word of each slot
    slotReq,       \* request header of each slot: a request number
    slotReply,     \* reply header and metrics.handled_count of each slot
    apState,       \* boot.ap_state
    entryState,    \* boot.entry_state
    currentSlot,   \* current_request_slot
    handledCount,  \* request_handled_count
    counterValue,  \* counter_value
    queue,         \* queue_summary
    fault,         \* boot.fault_*: vector, phase, request state and request
    kick,          \* a kick IPI is latched in the AP's local APIC
    ipi,           \* a completion IPI is latched in the BSP's local APIC
    apTimer,       \* the AP's idle timer is armed
    apPc,          \* where the AP is
    apI,           \* its loop index i
    handledWork,   \* its local handled_work
    faultTest,     \* VIBE_AP_REQUEST_FAULT_TEST of the build; never changes
    execs          \* ghost: how often the handler of a request ran

slotVars == <<slotState, slotReq, slotReply>>
bootVars == <<apState, entryState, fault>>
apVars == <<slotVars, bootVars, currentSlot, handledCount, counterValue, queue,
            kick, ipi, apTimer, apPc, apI, handledWork, faultTest, execs>>

(* reset_ap_request_slot on the reply and metrics of a slot.               *)
ResetReply == [id |-> NoReq, result |-> 0, fault |-> 0, handled |-> 0]

(* reset_ap_queue_summary; planned_count is only displayed.  Slots are     *)
(* numbered from 1 here and 0 means none.                                  *)
ResetQueue == [current |-> 0, handled |-> 0, last |-> 0,
               lastState |-> "EMPTY", stop |-> "NONE"]

NoFault == [vector |-> 0, phase |-> "NONE", state |-> "EMPTY", req |-> NoReq]

ap_request_state_terminal(st) == st \in {"DONE", "BAD_OP", "FAULT"}

ap_request_state_finished(st) ==
    ap_request_state_terminal(st) \/ st \in {"TIMEOUT", "SKIPPED"}

(* The context as the boot code leaves it: the AP is in its loop, about to *)
(* sweep an inbox of reset slots (init_ap_context, head of                 *)
(* ap_request_loop).                                                       *)
ApInit ==
    /\ slotState = [s \in Slots |-> "EMPTY"]
    /\ slotReq = [s \in Slots |-> NoReq]
    /\ slotReply = [s \in Slots |-> ResetReply]
    /\ apState = "ONLINE"
    /\ entryState = "LOOP"
    /\ currentSlot = NoSlot
    /\ handledCount = 0
    /\ counterValue = 0
    /\ queue = ResetQueue
    /\ fault = NoFault
    /\ kick = FALSE
    /\ ipi = FALSE
    /\ apTimer = FALSE
    /\ apPc = "sweep"
    /\ apI = 0
    /\ handledWork = FALSE
    /\ faultTest \in FaultTests
    /\ execs = [r \in Reqs |-> 0]

-----------------------------------------------------------------------------
(* The sweep over the slots.                                               *)

(* The slot is PENDING and the cmpxchg to RUNNING succeeds.  Only the AP   *)
(* claims, and the read of line 2284 and the cmpxchg of line 2287 agree    *)
(* with one atomic test: when the BSP takes the slot away in between, the  *)
(* cmpxchg fails and the effect is that of Skip.                           *)
Claim ==
    /\ apPc = "sweep" /\ apI \in Slots
    /\ slotState[apI] = "PENDING"
    /\ slotState' = [slotState EXCEPT ![apI] = "RUNNING"]
    /\ handledWork' = TRUE
    /\ apPc' = "start"
    /\ UNCHANGED <<slotReq, slotReply, bootVars, currentSlot, handledCount,
                   counterValue, queue, kick, ipi, apTimer, apI, execs>>

Skip ==
    /\ apPc = "sweep" /\ apI \in Slots
    /\ slotState[apI] # "PENDING"
    /\ apI' = apI + 1
    /\ UNCHANGED <<slotVars, bootVars, currentSlot, handledCount, counterValue,
                   queue, kick, ipi, apTimer, apPc, handledWork, execs>>

(* End of a sweep that handled work: sweep again at once.                  *)
SweepAgain ==
    /\ apPc = "sweep" /\ apI = SlotCount /\ handledWork
    /\ apI' = 0
    /\ handledWork' = FALSE
    /\ UNCHANGED <<slotVars, bootVars, currentSlot, handledCount, counterValue,
                   queue, kick, ipi, apTimer, apPc, execs>>

(* Mutant of Idle: halts without arming the idle timer.                    *)
IdleNoTimer ==
    /\ apPc = "sweep" /\ apI = SlotCount /\ ~handledWork
    /\ apPc' = "hlt"
    /\ UNCHANGED <<slotVars, bootVars, currentSlot, handledCount, counterValue,
                   queue, kick, ipi, apTimer, apI, handledWork, execs>>

(* End of an idle sweep of the request target: arm the idle timer, then    *)
(* sti; hlt.  Interrupts are off everywhere else in the loop.              *)
Idle ==
    /\ apPc = "sweep" /\ apI = SlotCount /\ ~handledWork
    /\ apTimer' = TRUE
    /\ apPc' = "hlt"
    /\ UNCHANGED <<slotVars, bootVars, currentSlot, handledCount, counterValue,
                   queue, kick, ipi, apI, handledWork, execs>>

(* The kick IPI or the idle timer ends hlt; the timer is disarmed.         *)
Wake ==
    /\ apPc = "hlt"
    /\ kick \/ apTimer
    /\ kick' = FALSE
    /\ apTimer' = FALSE
    /\ apI' = 0
    /\ apPc' = "sweep"
    /\ UNCHANGED <<slotVars, bootVars, currentSlot, handledCount, counterValue,
                   queue, ipi, handledWork, execs>>

-----------------------------------------------------------------------------
(* A claimed request.                                                      *)

ap_queue_note_slot_start(s) ==
    [queue EXCEPT !.current = s + 1, !.stop = "NONE"]

ap_queue_all_other_slots_done(s) ==
    \A t \in Slots \ {s} : slotState[t] = "DONE"

(* Mutant of ap_queue_note_slot_terminal: forgets handled_count.           *)
NoteTerminalUncounted(s, st, stop) ==
    [queue EXCEPT !.current = 0, !.last = s + 1, !.lastState = st,
                  !.stop = IF stop = "NONE" /\ ap_queue_all_other_slots_done(s)
                           THEN "DRAINED" ELSE stop]

(* The scan of the other slots is one step: only the AP makes a slot DONE, *)
(* and it is here, so what it has not yet read can only leave DONE.        *)
ap_queue_note_slot_terminal(s, st, stop) ==
    [queue EXCEPT !.current = 0, !.handled = @ + 1, !.last = s + 1,
                  !.lastState = st,
                  !.stop = IF stop = "NONE" /\ ap_queue_all_other_slots_done(s)
                           THEN "DRAINED" ELSE stop]

(* Mutant of Start: begin_ap_reply is dropped.                             *)
StartNoReply ==
    /\ apPc = "start"
    /\ currentSlot' = apI
    /\ queue' = ap_queue_note_slot_start(apI)
    /\ entryState' = "REQUEST"
    /\ apPc' = "dispatch"
    /\ UNCHANGED <<slotVars, apState, fault, handledCount,
                   counterValue, kick, ipi, apTimer, apI, handledWork, execs>>

(* current_request_slot, queue summary, metrics and begin_ap_reply.        *)
Start ==
    /\ apPc = "start"
    /\ currentSlot' = apI
    /\ queue' = ap_queue_note_slot_start(apI)
    /\ slotReply' = [slotReply EXCEPT ![apI] =
                        [id |-> slotReq[apI], result |-> 0, fault |-> 0,
                         handled |-> handledCount]]
    /\ entryState' = "REQUEST"
    /\ apPc' = "dispatch"
    /\ UNCHANGED <<slotState, slotReq, apState, fault, handledCount,
                   counterValue, kick, ipi, apTimer, apI, handledWork, execs>>

(* What the header of a slot says: the request it was prepared for, zeros  *)
(* once it has been reset.                                                 *)
Header(r) == IF r \in Reqs THEN Plan[r]
             ELSE [service |-> <<0, 0>>, interface |-> <<0, 0>>, opcode |-> "NONE"]

Handler(r) == find_ap_request_handler(Header(r).service, Header(r).interface)

(* run_ap_request_test_hook returns only when the build has no fault test, *)
(* or tests a hang and the handler is not the ping handler.                *)
TestHookReturns(h) ==
    \/ faultTest = "none"
    \/ faultTest = "hang" /\ h # "ping"

(* The body of ap_handle_ping_request or ap_handle_counter_increment up to *)
(* note_ap_request_handled.                                                *)
Handle ==
    /\ apPc = "dispatch"
    /\ LET r == slotReq[apI]
           h == Handler(r)
           n == IF h = "counter" THEN counterValue + 1 ELSE counterValue
       IN  /\ h # "none"
           /\ TestHookReturns(h)
           /\ counterValue' = n
           /\ slotReply' = [slotReply EXCEPT
                  ![apI].result = IF h = "counter" THEN n ELSE 0,
                  ![apI].fault = 0]
           /\ execs' = [execs EXCEPT ![r] = @ + 1]
    /\ apPc' = "note"
    /\ UNCHANGED <<slotState, slotReq, bootVars, currentSlot, handledCount,
                   queue, kick, ipi, apTimer, apI, handledWork>>

(* The hang test: the ping handler never returns.                          *)
Hang ==
    /\ apPc = "dispatch"
    /\ faultTest = "hang" /\ Handler(slotReq[apI]) = "ping"
    /\ apPc' = "hung"
    /\ UNCHANGED <<slotVars, bootVars, currentSlot, handledCount, counterValue,
                   queue, kick, ipi, apTimer, apI, handledWork, execs>>

note_ap_request_handled ==
    /\ apPc = "note"
    /\ handledCount' = handledCount + 1
    /\ slotReply' = [slotReply EXCEPT ![apI].handled = handledCount + 1]
    /\ apPc' = "complete"
    /\ UNCHANGED <<slotState, slotReq, bootVars, currentSlot, counterValue,
                   queue, kick, ipi, apTimer, apI, handledWork, execs>>

(* Mutant of CompleteDone: the cmpxchg expects PENDING.                    *)
CompleteDoneWrong ==
    /\ apPc = "complete"
    /\ apState' = "ONLINE"
    /\ entryState' = "LOOP"
    /\ IF slotState[apI] = "PENDING"
       THEN /\ slotState' = [slotState EXCEPT ![apI] = "DONE"]
            /\ apPc' = "noteDone"
            /\ UNCHANGED <<currentSlot, apI>>
       ELSE /\ currentSlot' = NoSlot
            /\ apPc' = "sweep"
            /\ apI' = apI + 1
            /\ UNCHANGED slotState
    /\ UNCHANGED <<slotReq, slotReply, fault, handledCount, counterValue,
                   queue, kick, ipi, apTimer, handledWork, execs>>

(* complete_ap_request_done_with_outbox: RUNNING becomes DONE unless the   *)
(* BSP took the slot in the meantime.                                      *)
CompleteDone ==
    /\ apPc = "complete"
    /\ apState' = "ONLINE"
    /\ entryState' = "LOOP"
    /\ IF slotState[apI] = "RUNNING"
       THEN /\ slotState' = [slotState EXCEPT ![apI] = "DONE"]
            /\ apPc' = "noteDone"
            /\ UNCHANGED <<currentSlot, apI>>
       ELSE /\ currentSlot' = NoSlot
            /\ apPc' = "sweep"
            /\ apI' = apI + 1
            /\ UNCHANGED slotState
    /\ UNCHANGED <<slotReq, slotReply, fault, handledCount, counterValue,
                   queue, kick, ipi, apTimer, handledWork, execs>>

NoteDone ==
    /\ apPc = "noteDone"
    /\ queue' = ap_queue_note_slot_terminal(apI, "DONE", "NONE")
    /\ currentSlot' = NoSlot
    /\ apPc' = "notify"
    /\ UNCHANGED <<slotVars, bootVars, handledCount, counterValue, kick, ipi,
                   apTimer, apI, handledWork, execs>>

(* lapic_send_ipi: it fails when the ICR stays busy, before the command is *)
(* written (nothing is sent) or after it (the interrupt is sent although   *)
(* the call reports a failure).  Either way it is latched or it is not.    *)
Latched(irq) == {irq, TRUE}

(* ap_notify_bsp_request_complete, then the next slot.                     *)
NotifyDone ==
    /\ apPc = "notify"
    /\ ipi' \in Latched(ipi)
    /\ apPc' = "sweep"
    /\ apI' = apI + 1
    /\ UNCHANGED <<slotVars, bootVars, currentSlot, handledCount, counterValue,
                   queue, kick, apTimer, handledWork, execs>>

-----------------------------------------------------------------------------
(* A request no service handles: the AP reports BAD_OP and halts for good. *)

(* HALTED becomes visible before the slot is BAD_OP.                       *)
Miss ==
    /\ apPc = "dispatch"
    /\ LET p == Header(slotReq[apI])
       IN  /\ Handler(slotReq[apI]) = "none"
           /\ slotReply' = [slotReply EXCEPT
                  ![apI].result = ap_dispatch_miss_result_code(p.service, p.interface),
                  ![apI].fault = 0]
    /\ apState' = "HALTED"
    /\ entryState' = "HALTED"
    /\ apPc' = "missNote"
    /\ UNCHANGED <<slotState, slotReq, fault, currentSlot, handledCount,
                   counterValue, queue, kick, ipi, apTimer, apI, handledWork,
                   execs>>

MissNote ==
    /\ apPc = "missNote"
    /\ queue' = ap_queue_note_slot_terminal(apI, "BAD_OP", "BAD_OP")
    /\ currentSlot' = NoSlot
    /\ apPc' = "missComplete"
    /\ UNCHANGED <<slotVars, bootVars, handledCount, counterValue, kick, ipi,
                   apTimer, apI, handledWork, execs>>

(* complete_ap_request(slot, BAD_OP).                                      *)
MissComplete ==
    /\ apPc = "missComplete"
    /\ slotState' = [slotState EXCEPT ![apI] =
                        IF @ = "RUNNING" THEN "BAD_OP" ELSE @]
    /\ apPc' = "missNotify"
    /\ UNCHANGED <<slotReq, slotReply, bootVars, currentSlot, handledCount,
                   counterValue, queue, kick, ipi, apTimer, apI, handledWork,
                   execs>>

MissNotify ==
    /\ apPc = "missNotify"
    /\ ipi' \in Latched(ipi)
    /\ apTimer' = FALSE
    /\ apPc' = "halted"
    /\ UNCHANGED <<slotVars, bootVars, currentSlot, handledCount, counterValue,
                   queue, kick, apI, handledWork, execs>>

-----------------------------------------------------------------------------
(* ap_fault_dispatch.  A fault can hit any instruction of the loop.  Left  *)
(* out: a fault after the AP declared itself HALTED, and a fault inside    *)
(* the fault handler.                                                      *)

FaultablePcs == {"sweep", "start", "dispatch", "note", "complete", "noteDone",
                 "notify"}

HasSlot == currentSlot \in Slots          \* slot_index < AP_REQUEST_SLOT_COUNT

(* Entry of the handler: it reads the current slot's state word and from   *)
(* it derives the phase.                                                   *)
EnterFault(v) ==
    LET st == IF HasSlot THEN slotState[currentSlot] ELSE "EMPTY"
    IN  /\ fault' = [fault EXCEPT
               !.vector = v, !.state = st,
               !.phase = IF HasSlot /\ (entryState = "REQUEST" \/ st = "RUNNING")
                         THEN "REQUEST"
                         ELSE IF entryState = "LOOP" THEN "LOOP" ELSE "STARTUP"]
        /\ apPc' = "faultReport"
        /\ UNCHANGED <<slotVars, apState, entryState, currentSlot, handledCount,
                       counterValue, queue, kick, ipi, apTimer, apI,
                       handledWork, execs>>

Fault(v) == apPc \in FaultablePcs /\ EnterFault(v)

(* The ud2 test: both handlers fault before they do anything.              *)
FaultInHandler ==
    /\ apPc = "dispatch"
    /\ faultTest = "ud2" /\ Handler(slotReq[apI]) # "none"
    /\ EnterFault(UD2Vector)

(* The fault report, the reply of the current request by the state read    *)
(* above, and the queue summary.                                           *)
FaultReport ==
    /\ apPc = "faultReport"
    /\ IF HasSlot
       THEN /\ fault' = [fault EXCEPT !.req = slotReq[currentSlot]]
            /\ slotReply' = [slotReply EXCEPT ![currentSlot] =
                   IF fault.state \in {"PENDING", "RUNNING"}
                   THEN [@ EXCEPT !.id = slotReq[currentSlot], !.fault = fault.vector]
                   ELSE IF fault.state = "EMPTY"
                   THEN [@ EXCEPT !.fault = fault.vector]
                   ELSE @]
            /\ queue' = [queue EXCEPT !.current = currentSlot + 1,
                                      !.last = currentSlot + 1,
                                      !.lastState = "FAULT", !.stop = "FAULT"]
            /\ apPc' = "faultPending"
       ELSE /\ fault' = [fault EXCEPT !.req = NoReq]
            /\ apPc' = "faultMark"
            /\ UNCHANGED <<slotReply, queue>>
    /\ UNCHANGED <<slotState, slotReq, apState, entryState, currentSlot,
                   handledCount, counterValue, kick, ipi, apTimer, apI,
                   handledWork, execs>>

(* The two cmpxchg, the read and the blind store of lines 1803 - 1806.     *)
FaultCas(here, from, next) ==
    /\ apPc = here
    /\ IF slotState[currentSlot] = from
       THEN /\ slotState' = [slotState EXCEPT ![currentSlot] = "FAULT"]
            /\ apPc' = "faultMark"
       ELSE /\ apPc' = next
            /\ UNCHANGED slotState
    /\ UNCHANGED <<slotReq, slotReply, bootVars, currentSlot, handledCount,
                   counterValue, queue, kick, ipi, apTimer, apI, handledWork,
                   execs>>

FaultPending == FaultCas("faultPending", "PENDING", "faultRunning")

FaultRunning == FaultCas("faultRunning", "RUNNING", "faultEmpty")

FaultEmpty ==
    /\ apPc = "faultEmpty"
    /\ apPc' = IF slotState[currentSlot] = "EMPTY" THEN "faultStore" ELSE "faultMark"
    /\ UNCHANGED <<slotVars, bootVars, currentSlot, handledCount, counterValue,
                   queue, kick, ipi, apTimer, apI, handledWork, execs>>

FaultStore ==
    /\ apPc = "faultStore"
    /\ slotState' = [slotState EXCEPT ![currentSlot] = "FAULT"]
    /\ apPc' = "faultMark"
    /\ UNCHANGED <<slotReq, slotReply, bootVars, currentSlot, handledCount,
                   counterValue, queue, kick, ipi, apTimer, apI, handledWork,
                   execs>>

(* Mutant of FaultMark: ap_state is not set.                               *)
FaultMarkQuiet ==
    /\ apPc = "faultMark"
    /\ entryState' = "FAULT"
    /\ apPc' = "faultNotify"
    /\ UNCHANGED <<slotVars, apState, fault, currentSlot, handledCount,
                   counterValue, queue, kick, ipi, apTimer, apI, handledWork, execs>>

FaultMark ==
    /\ apPc = "faultMark"
    /\ entryState' = "FAULT"
    /\ apState' = "FAULTED"
    /\ apPc' = "faultNotify"
    /\ UNCHANGED <<slotVars, fault, currentSlot, handledCount, counterValue,
                   queue, kick, ipi, apTimer, apI, handledWork, execs>>

FaultNotify ==
    /\ apPc = "faultNotify"
    /\ ipi' \in Latched(ipi)
    /\ apPc' = "dead"
    /\ UNCHANGED <<slotVars, bootVars, currentSlot, handledCount, counterValue,
                   queue, kick, apTimer, apI, handledWork, execs>>

-----------------------------------------------------------------------------
(* What the AP does by itself once it is scheduled, and its exceptions.    *)
ApStep ==
    \/ Claim \/ Skip \/ SweepAgain \/ Idle \/ Wake
    \/ Start \/ Handle \/ Hang \/ note_ap_request_handled
    \/ CompleteDone \/ NoteDone \/ NotifyDone
    \/ Miss \/ MissNote \/ MissComplete \/ MissNotify
    \/ FaultInHandler \/ FaultReport \/ FaultPending \/ FaultRunning
    \/ FaultEmpty \/ FaultStore \/ FaultMark \/ FaultNotify

ApFault == \E v \in Vectors : Fault(v)

ApPcs == FaultablePcs \cup
    {"hlt", "hung", "missNote", "missComplete", "missNotify", "halted",
     "faultReport", "faultPending", "faultRunning", "faultEmpty", "faultStore",
     "faultMark", "faultNotify", "dead"}

Reply == [id : Reqs \cup {NoReq}, result : Nat, fault : Nat, handled : Nat]

QueueSummary == [current : 0 .. SlotCount, handled : Nat, last : 0 .. SlotCount,
                 lastState : Status, stop : {"NONE", "DRAINED", "BAD_OP", "FAULT"}]

FaultInfo == [vector : Nat, phase : {"NONE", "STARTUP", "LOOP", "REQUEST"},
              state : Status, req : Reqs \cup {NoReq}]

ApFlagsOK == {kick, ipi, apTimer, handledWork} \subseteq BOOLEAN

ApTypeOK ==
    /\ slotState \in [Slots -> Status]
    /\ slotReq \in [Slots -> Reqs \cup {NoReq}]
    /\ slotReply \in [Slots -> Reply]
    /\ apState \in {"ONLINE", "HALTED", "FAULTED"}
    /\ entryState \in {"LOOP", "REQUEST", "HALTED", "FAULT"}
    /\ currentSlot \in Slots \cup {NoSlot}
    /\ handledCount \in Nat
    /\ counterValue \in Nat
    /\ queue \in QueueSummary
    /\ fault \in FaultInfo
    /\ apPc \in ApPcs
    /\ apI \in 0 .. SlotCount
    /\ ApFlagsOK
    /\ execs \in [Reqs -> Nat]
=============================================================================
