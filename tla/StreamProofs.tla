---------------------------- MODULE StreamProofs ----------------------------
(***************************************************************************)
(* Proofs about the request stream, for any number of slots, any plan, any *)
(* set of exceptions and any timeout: first the invariant of the protocol, *)
(* then that the stream gives its caller a truthful and complete account   *)
(* of the plan.                                                            *)
(*                                                                         *)
(* The protocol.  IInv of ApStream says where a request can be: in one     *)
(* slot, written by the BSP while the slot is not claimable, then owned by *)
(* the AP from the cmpxchg to RUNNING until a terminal state.  It is       *)
(* proved conjunct by conjunct: first the types, then the AP's steps, then *)
(* the BSP's, and StepHolds puts them together.                            *)
(*                                                                         *)
(* The account.  LedgerInv adds what the state word of a request's slot    *)
(* means: DONE only after the handler has run and replied, SKIPPED and     *)
(* BAD_OP only for a request that the AP, being over, will never run, and  *)
(* every opened request in an active slot or in the history.  The stores   *)
(* without cmpxchg are harmless because the stream stops only when the AP  *)
(* is over, so that what the BSP has read is still there.                  *)
(*                                                                         *)
(* The hand-over.  All of this is shown of every step of the AP, whatever  *)
(* the BSP is doing, and of every step of the stream, if the inbox was     *)
(* settled when the stream reset it (SettledInv).  The last section shows  *)
(* that a broadcast ping that did not time out leaves it settled.  Only    *)
(* that section cites BroadcastAssumption.                                 *)
(***************************************************************************)
EXTENDS BroadcastThenStream, FiniteSetTheorems, TLAPS

(* The result code of a request no service handles is a number.            *)
LEMMA MissCodeType ==
    ASSUME NEW r \in Reqs
    PROVE  ap_dispatch_miss_result_code(Header(r).service, Header(r).interface) \in Nat
<1>1. Header(r) \in PlanEntry
  BY PlanAssumption DEF PlanAssumption, Reqs, Header
<1>2. Low32(Header(r).service) \in Nat /\ Low32(Header(r).interface) \in Nat
  BY <1>1 DEF Low32, PlanEntry
<1> QED
  BY <1>2 DEF ap_dispatch_miss_result_code

(* Storing two numbers in a slot's reply keeps the replies well typed.     *)
LEMMA ReplyUpdate ==
    ASSUME NEW f \in [Slots -> Reply], NEW s \in Slots, NEW a \in Nat, NEW b \in Nat
    PROVE  [f EXCEPT ![s].result = a, ![s].fault = b] \in [Slots -> Reply]
BY DEF Reply

(* Every combination of fields that the queue summary functions store is a *)
(* well typed summary.                                                     *)
LEMMA QueueUpdate ==
    ASSUME NEW q \in QueueSummary, NEW c \in 0 .. SlotCount, NEW h \in Nat,
           NEW l \in 0 .. SlotCount, NEW st \in Status,
           NEW r \in {"NONE", "DRAINED", "BAD_OP", "FAULT"}
    PROVE  /\ q.handled \in Nat
           /\ [q EXCEPT !.current = c, !.handled = h, !.last = l, !.lastState = st,
                        !.stop = r] \in QueueSummary
           /\ [q EXCEPT !.current = c, !.last = l, !.lastState = st,
                        !.stop = r] \in QueueSummary
BY DEF QueueSummary

(* ap_queue_note_slot_terminal leaves a well typed summary.                *)
LEMMA QueueTerminal ==
    ASSUME queue \in QueueSummary, NEW s \in Slots, NEW st \in Status,
           NEW stop \in {"NONE", "BAD_OP"}
    PROVE  ap_queue_note_slot_terminal(s, st, stop) \in QueueSummary
<1>1. 0 \in 0 .. SlotCount /\ s + 1 \in 0 .. SlotCount
  BY SlotCountAssumption DEF SlotCountAssumption, Slots
<1>2. queue.handled + 1 \in Nat
  BY DEF QueueSummary
<1> DEFINE r == IF stop = "NONE" /\ ap_queue_all_other_slots_done(s)
                THEN "DRAINED" ELSE stop
<1>3. r \in {"NONE", "DRAINED", "BAD_OP", "FAULT"}
  OBVIOUS
<1>4. ap_queue_note_slot_terminal(s, st, stop) =
        [queue EXCEPT !.current = 0, !.handled = queue.handled + 1, !.last = s + 1,
                      !.lastState = st, !.stop = r]
  BY DEF ap_queue_note_slot_terminal
<1> HIDE DEF r
<1>5. [queue EXCEPT !.current = 0, !.handled = queue.handled + 1, !.last = s + 1,
                    !.lastState = st, !.stop = r] \in QueueSummary
  BY <1>1, <1>2, <1>3 DEF QueueSummary
<1> QED
  BY <1>4, <1>5

(* A step of the AP keeps its flags and boot state well typed.             *)
LEMMA ApFlagsStep ==
    ASSUME ApFlagsOK, ApStep \/ ApFault
    PROVE  ApFlagsOK'
<1> USE DEF ApFlagsOK, Latched
<1>1. CASE Claim \/ Skip \/ SweepAgain \/ Idle \/ Wake
  BY <1>1 DEF Claim, Skip, SweepAgain, Idle, Wake
<1>2. CASE Start \/ Handle \/ Hang \/ note_ap_request_handled
  BY <1>2 DEF Start, Handle, Hang, note_ap_request_handled
<1>3. CASE CompleteDone \/ NoteDone \/ NotifyDone
  BY <1>3 DEF CompleteDone, NoteDone, NotifyDone
<1>4. CASE Miss \/ MissNote \/ MissComplete \/ MissNotify
  BY <1>4 DEF Miss, MissNote, MissComplete, MissNotify
<1>5. CASE FaultInHandler \/ ApFault
  BY <1>5 DEF FaultInHandler, ApFault, Fault, EnterFault
<1>6. CASE FaultReport \/ FaultPending \/ FaultRunning \/ FaultEmpty
           \/ FaultStore \/ FaultMark \/ FaultNotify
  BY <1>6 DEF FaultReport, FaultPending, FaultRunning, FaultCas, FaultEmpty,
              FaultStore, FaultMark, FaultNotify
<1> QED BY <1>1, <1>2, <1>3, <1>4, <1>5, <1>6 DEF ApStep

(* A step of the AP keeps the slots, replies and summary well typed.       *)
LEMMA ApTypeStep ==
    ASSUME ApTypeOK, IndexInv, RequestInv, ApStep \/ ApFault
    PROVE  ApTypeOK'
<1>0. ApFlagsOK'
  BY ApFlagsStep DEF ApTypeOK
<1>s. /\ 0 \in 0 .. SlotCount
      /\ \A s \in Slots : s \in 0 .. SlotCount /\ s + 1 \in 0 .. SlotCount
  BY SlotCountAssumption DEF SlotCountAssumption, Slots
<1>i. apPc \in SlotPcs => apI \in Slots
  BY DEF IndexInv
<1> USE <1>0, <1>s DEF ApTypeOK, bootVars, slotVars, ApPcs, FaultablePcs
<1>1. CASE Claim \/ Skip \/ SweepAgain \/ Idle \/ Wake
  BY <1>1 DEF Claim, Skip, SweepAgain, Idle, Wake, Status
<1>2. CASE Start
  <2>1. apI \in Slots
    BY <1>2, <1>i DEF Start, SlotPcs, WorkPcs
  <2>2. slotReply' \in [Slots -> Reply]
    BY <1>2, <2>1 DEF Start, Reply
  <2>3. queue' \in QueueSummary
    BY <1>2, <2>1 DEF Start, QueueSummary, ap_queue_note_slot_start
  <2> QED BY <1>2, <2>1, <2>2, <2>3 DEF Start
<1>3. CASE Handle
  <2>1. apI \in Slots /\ slotReq[apI] \in Reqs
    BY <1>3, <1>i DEF Handle, SlotPcs, WorkPcs, RequestInv
  <2>2. counterValue' \in Nat
    BY <1>3 DEF Handle
  <2>3. slotReply' \in [Slots -> Reply]
    <3>1. PICK c \in Nat : slotReply' = [slotReply EXCEPT ![apI].result = c, ![apI].fault = 0]
      <4>1. CASE Handler(slotReq[apI]) = "counter"
        <5>1. slotReply' = [slotReply EXCEPT ![apI].result = counterValue + 1,
                                             ![apI].fault = 0]
          BY <1>3, <4>1 DEF Handle
        <5>2. counterValue + 1 \in Nat
          OBVIOUS
        <5> QED BY <5>1, <5>2, Zenon
      <4>2. CASE Handler(slotReq[apI]) # "counter"
        BY <1>3, <4>2 DEF Handle
      <4> QED BY <4>1, <4>2
    <3> QED BY <2>1, <3>1, ReplyUpdate
  <2>4. execs' \in [Reqs -> Nat]
    BY <1>3, <2>1 DEF Handle
  <2> QED BY <1>3, <2>2, <2>3, <2>4 DEF Handle
<1>4. CASE Hang
  BY <1>4 DEF Hang
<1>5. CASE note_ap_request_handled
  <2>1. apI \in Slots
    BY <1>5, <1>i DEF note_ap_request_handled, SlotPcs, WorkPcs
  <2>2. slotReply' \in [Slots -> Reply] /\ handledCount' \in Nat
    BY <1>5, <2>1 DEF note_ap_request_handled, Reply
  <2> QED BY <1>5, <2>2 DEF note_ap_request_handled
<1>6. CASE CompleteDone
  <2>1. apI \in Slots
    BY <1>6, <1>i DEF CompleteDone, SlotPcs, WorkPcs
  <2> QED BY <1>6, <2>1 DEF CompleteDone, Status
<1>7. CASE NoteDone
  <2>1. apI \in Slots
    BY <1>7, <1>i DEF NoteDone, SlotPcs, WorkPcs
  <2>2. queue' \in QueueSummary
    BY <1>7, <2>1, QueueTerminal DEF NoteDone, Status
  <2> QED BY <1>7, <2>2 DEF NoteDone
<1>8. CASE NotifyDone
  BY <1>8, <1>i DEF NotifyDone, SlotPcs, WorkPcs
<1>9. CASE Miss
  <2>1. apI \in Slots /\ slotReq[apI] \in Reqs
    BY <1>9, <1>i DEF Miss, SlotPcs, WorkPcs, RequestInv
  <2>2. PICK c \in Nat : slotReply' = [slotReply EXCEPT ![apI].result = c, ![apI].fault = 0]
    BY <1>9, <2>1, MissCodeType DEF Miss
  <2>3. slotReply' \in [Slots -> Reply]
    BY <2>1, <2>2, ReplyUpdate
  <2> QED BY <1>9, <2>3 DEF Miss
<1>10. CASE MissNote
  <2>1. apI \in Slots
    BY <1>10, <1>i DEF MissNote, SlotPcs, WorkPcs
  <2>2. queue' \in QueueSummary
    BY <1>10, <2>1, QueueTerminal DEF MissNote, Status
  <2> QED BY <1>10, <2>2 DEF MissNote
<1>11. CASE MissComplete \/ MissNotify
  BY <1>11 DEF MissComplete, MissNotify, Status
<1>12. ASSUME NEW v \in Nat, EnterFault(v) PROVE ApTypeOK'
  <2>1. fault' \in FaultInfo
    BY <1>12 DEF EnterFault, FaultInfo, HasSlot, Status
  <2> QED BY <1>12, <2>1 DEF EnterFault
<1>13. CASE FaultInHandler
  BY <1>13, <1>12 DEF FaultInHandler, UD2Vector
<1>14. CASE ApFault
  BY <1>14, <1>12, VectorsAssumption DEF ApFault, Fault, VectorsAssumption
<1>15. CASE FaultReport
  <2>1. fault' \in FaultInfo
    <3>1. PICK r \in Reqs \cup {NoReq} : fault' = [fault EXCEPT !.req = r]
      BY <1>15 DEF FaultReport, HasSlot
    <3> QED BY <3>1 DEF FaultInfo
  <2>2. slotReply' \in [Slots -> Reply]
    <3>1. fault.vector \in Nat
      BY DEF FaultInfo
    <3>2. ASSUME currentSlot \in Slots
          PROVE  /\ slotReply[currentSlot] \in Reply
                 /\ [slotReply[currentSlot] EXCEPT !.fault = fault.vector] \in Reply
                 /\ [slotReply[currentSlot] EXCEPT !.id = slotReq[currentSlot],
                                                   !.fault = fault.vector] \in Reply
      BY <3>1, <3>2 DEF Reply
    <3> QED BY <1>15, <3>2 DEF FaultReport, HasSlot
  <2>3. queue' \in QueueSummary
    <3>1. CASE HasSlot
      <4>1. queue' = [queue EXCEPT !.current = currentSlot + 1, !.last = currentSlot + 1,
                                   !.lastState = "FAULT", !.stop = "FAULT"]
        BY <1>15, <3>1 DEF FaultReport
      <4>2. currentSlot + 1 \in 0 .. SlotCount /\ "FAULT" \in Status /\ 0 \in Nat
        BY <3>1 DEF HasSlot, Status
      <4> QED BY <4>1, <4>2, QueueUpdate
    <3>2. CASE ~HasSlot
      BY <1>15, <3>2 DEF FaultReport
    <3> QED BY <3>1, <3>2
  <2> QED BY <1>15, <2>1, <2>2, <2>3 DEF FaultReport
<1>16. CASE FaultPending \/ FaultRunning \/ FaultEmpty \/ FaultStore
  BY <1>16 DEF FaultPending, FaultRunning, FaultCas, FaultEmpty, FaultStore, Status
<1>17. CASE FaultMark \/ FaultNotify
  BY <1>17 DEF FaultMark, FaultNotify
<1> QED
  BY <1>1, <1>2, <1>3, <1>4, <1>5, <1>6, <1>7, <1>8, <1>9, <1>10, <1>11, <1>13,
     <1>14, <1>15, <1>16, <1>17 DEF ApStep

(* A step of the BSP keeps the flags and boot state well typed.            *)
LEMMA BspFlagsStep ==
    ASSUME ApFlagsOK, BspFlagsOK, IndexInv, BspStep
    PROVE  ApFlagsOK' /\ BspFlagsOK'
<1> USE DEF ApFlagsOK, BspFlagsOK, Latched, apOwned, bspVars
<1>1. CASE ResetStream \/ EarlyReturn \/ BeginPublish
  BY <1>1 DEF ResetStream, EarlyReturn, BeginPublish
<1>2. CASE PubReset \/ PubPrepare \/ PubNotFaulted \/ PubNotHalted \/ PubStore \/ TakeIpi
  BY <1>2 DEF PubReset, PubPrepare, PubNotFaulted, PubNotHalted, PubStore, TakeIpi
<1>3. CASE PubFaulted \/ PubSkipped \/ PubKick
  BY <1>3 DEF PubFaulted, PubSkipped, PubKick, Published
<1>4. CASE StopRead \/ StopStore \/ StopReturn \/ LoopTop \/ Check \/ Refill \/ ScanEnd
  BY <1>4 DEF StopRead, StopStore, StopReturn, LoopTop, Check, Refill, ScanEnd
<1>5. CASE Finish
  BY <1>5 DEF Finish, RecordSlot
<1>6. CASE Decide \/ WakeByIpi \/ WakeByTimer \/ Drain \/ ExpirePending \/ ExpireRunning
  BY <1>6 DEF Decide, WakeByIpi, WakeByTimer, Drain, ExpirePending, ExpireRunning
<1>7. CASE ExpireFinish
  BY <1>7 DEF ExpireFinish, RecordSlot
<1>8. CASE Return
  BY <1>8 DEF Return
<1> QED BY <1>1, <1>2, <1>3, <1>4, <1>5, <1>6, <1>7, <1>8 DEF BspStep

(* A step of the BSP keeps the slots, replies and summary well typed.      *)
LEMMA BspSlotsStep ==
    ASSUME ApTypeOK, nextPlan \in Nat, IndexInv, BspStep
    PROVE  /\ slotState' \in [Slots -> Status]
           /\ slotReq' \in [Slots -> Reqs \cup {NoReq}]
           /\ slotReply' \in [Slots -> Reply]
           /\ queue' \in QueueSummary
<1>f. fault.vector \in Nat
  BY DEF ApTypeOK, FaultInfo
<1>r. ResetReply \in Reply
  BY DEF ResetReply, Reply, NoReq
<1> USE DEF ApTypeOK, slotVars
<1>1. CASE ResetStream
  <2>1. queue' \in QueueSummary
    BY <1>1, SlotCountAssumption
    DEF ResetStream, QueueSummary, ResetQueue, Status, SlotCountAssumption
  <2> QED BY <1>1, <2>1, <1>r DEF ResetStream, Status
<1>2. CASE EarlyReturn
  BY <1>2 DEF EarlyReturn, QueueSummary
<1>3. CASE PubReset \/ PubStore
  BY <1>3 DEF PubReset, PubStore, Status
<1>4. CASE PubPrepare
  <2>1. nextPlan + 1 \in Reqs
    BY <1>4, PlanAssumption
    DEF PubPrepare, PlanAssumption, IndexInv, PubPcs, PrepPcs, Reqs
  <2> QED BY <1>4, <2>1, <1>r DEF PubPrepare
<1>5. CASE PubFaulted
  BY <1>5, <1>f DEF PubFaulted, Reply, Status
<1>6. CASE PubSkipped
  BY <1>6 DEF PubSkipped, Status
<1>7. CASE StopStore
  BY <1>7, <1>f DEF StopStore, Reply, Status
<1>8. CASE ExpirePending \/ ExpireRunning
  BY <1>8 DEF ExpirePending, ExpireRunning, Status
<1>9. CASE BeginPublish \/ PubNotFaulted \/ PubNotHalted \/ PubKick \/ TakeIpi
  BY <1>9 DEF BeginPublish, PubNotFaulted, PubNotHalted, PubKick, TakeIpi
<1>10. CASE StopRead \/ StopReturn \/ LoopTop \/ Check \/ Finish \/ Refill \/ ScanEnd
  BY <1>10 DEF StopRead, StopReturn, LoopTop, Check, Finish, Refill, ScanEnd
<1>11. CASE Decide \/ WakeByIpi \/ WakeByTimer \/ Drain \/ ExpireFinish \/ Return
  BY <1>11 DEF Decide, WakeByIpi, WakeByTimer, Drain, ExpireFinish, Return
<1> QED BY <1>1, <1>2, <1>3, <1>4, <1>5, <1>6, <1>7, <1>8, <1>9, <1>10, <1>11 DEF BspStep

BspLocalsOK ==
    /\ bspPc \in BspPcs
    /\ bspI \in 0 .. SlotCount
    /\ nextPlan \in 0 .. PlanCount
    /\ completed \in Nat
    /\ counterBase \in Nat
    /\ waitLoops \in 0 .. TimeoutLoops
    /\ seen \in Status
    /\ history \in Seq(HistoryEntry)
    /\ Len(history) <= HistoryCount
    /\ Len(history) <= completed
    /\ backTo \in {"first", "check", "decide"}

(* record_ap_stream_slot keeps the history and the counters within the     *)
(* plan.                                                                   *)
LEMMA RecordStep ==
    ASSUME ApTypeOK, BspLocalsOK, NEW s \in Slots, RecordSlot(s)
    PROVE  /\ counterBase' \in Nat /\ completed' \in Nat
           /\ history' \in Seq(HistoryEntry)
           /\ Len(history') <= HistoryCount /\ Len(history') <= completed'
<1>1. counterBase' \in Nat
  BY DEF RecordSlot, BspLocalsOK
<1>2. s + 1 \in 1 .. SlotCount
  BY SlotCountAssumption DEF SlotCountAssumption, Slots
<1>3. Entry(s, counterBase') \in HistoryEntry
  BY <1>1, <1>2 DEF Entry, HistoryEntry, ApTypeOK
<1>4. history' = IF completed < HistoryCount
                 THEN Append(history, Entry(s, counterBase')) ELSE history
  BY DEF RecordSlot
<1>5. completed' = completed + 1
  BY DEF RecordSlot
<1>6. /\ history' \in Seq(HistoryEntry)
      /\ Len(history') = IF completed < HistoryCount THEN Len(history) + 1 ELSE Len(history)
  BY <1>3, <1>4 DEF BspLocalsOK
<1> QED
  BY <1>1, <1>5, <1>6, StreamAssumption DEF StreamAssumption, BspLocalsOK

(* wait_loops saturates at the timeout.                                    *)
LEMMA AdvanceStep ==
    ASSUME waitLoops \in 0 .. TimeoutLoops, NEW k \in Nat
    PROVE  advance_ap_request_wait_loops(k) \in 0 .. TimeoutLoops
BY StreamAssumption DEF StreamAssumption, advance_ap_request_wait_loops

(* A step of the BSP keeps the locals of run_ap_request_stream well typed. *)
LEMMA BspLocalsStep ==
    ASSUME ApTypeOK, BspLocalsOK, IndexInv, BspStep
    PROVE  BspLocalsOK'
<1>s. /\ 0 \in 0 .. SlotCount
      /\ \A s \in Slots : s + 1 \in 0 .. SlotCount
  BY SlotCountAssumption DEF SlotCountAssumption, Slots
<1> USE <1>s DEF BspPcs
<1>0. CASE ResetStream
  <2>1. history' = <<>> /\ history' \in Seq(HistoryEntry) /\ Len(history') = 0
    BY <1>0 DEF ResetStream
  <2> QED BY <1>0, <2>1, StreamAssumption
          DEF ResetStream, StreamAssumption, BspLocalsOK, ApTypeOK
<1>1. CASE EarlyReturn \/ BeginPublish
  BY <1>1 DEF EarlyReturn, BeginPublish, BspLocalsOK
<1>2. CASE PubReset \/ PubPrepare \/ PubNotFaulted \/ PubNotHalted \/ PubStore \/ TakeIpi
  BY <1>2 DEF PubReset, PubPrepare, PubNotFaulted, PubNotHalted, PubStore, TakeIpi,
              bspVars, BspLocalsOK
<1>3. CASE PubFaulted \/ PubSkipped \/ PubKick
  <2>1. bspI \in Slots /\ nextPlan < PlanCount
    BY <1>3 DEF PubFaulted, PubSkipped, PubKick, IndexInv, PubPcs, PrepPcs
  <2>2. Published
    BY <1>3 DEF PubFaulted, PubSkipped, PubKick
  <2>3. PlanCount \in Nat
    BY PlanAssumption DEF PlanAssumption
  <2> QED BY <2>1, <2>2, <2>3 DEF Published, BspLocalsOK
<1>4. CASE StopRead \/ StopStore \/ StopReturn
  <2>1. bspPc = "stopStore" => bspI \in Slots
    BY DEF IndexInv
  <2>2. bspPc = "stop" => backTo \in BspPcs
    BY DEF IndexInv, BspLocalsOK
  <2> QED BY <1>4, <2>1, <2>2 DEF StopRead, StopStore, StopReturn, BspLocalsOK, ApTypeOK
<1>5. CASE LoopTop \/ Check \/ ScanEnd
  BY <1>5 DEF LoopTop, Check, ScanEnd, BspLocalsOK
<1>6. CASE Finish
  <2>1. bspI \in Slots
    BY <1>6 DEF Finish, IndexInv
  <2>2. CASE RecordSlot(bspI)
    BY <1>6, <2>1, <2>2, RecordStep DEF Finish, BspLocalsOK
  <2>3. CASE ~ap_request_state_finished(slotState[bspI])
    BY <1>6, <2>1, <2>3 DEF Finish, BspLocalsOK
  <2> QED BY <1>6, <2>2, <2>3 DEF Finish
<1>7. CASE Refill
  BY <1>7 DEF Refill, BspLocalsOK, IndexInv
<1>8. CASE Decide \/ WakeByIpi \/ WakeByTimer
  <2>1. waitLoops' \in 0 .. TimeoutLoops
    BY <1>8, AdvanceStep, StreamAssumption
    DEF Decide, WakeByIpi, WakeByTimer, BspLocalsOK, StreamAssumption
  <2> QED BY <1>8, <2>1 DEF Decide, WakeByIpi, WakeByTimer, BspLocalsOK
<1>9. CASE Drain \/ ExpirePending \/ ExpireRunning \/ Return
  BY <1>9 DEF Drain, ExpirePending, ExpireRunning, Return, BspLocalsOK
<1>10. CASE ExpireFinish
  <2>1. bspI \in Slots
    BY <1>10 DEF ExpireFinish, IndexInv
  <2>2. CASE RecordSlot(bspI)
    BY <1>10, <2>1, <2>2, RecordStep DEF ExpireFinish, BspLocalsOK
  <2>3. CASE ~ap_request_state_finished(slotState[bspI])
    BY <1>10, <2>1, <2>3 DEF ExpireFinish, BspLocalsOK
  <2> QED BY <1>10, <2>2, <2>3 DEF ExpireFinish
<1> QED BY <1>0, <1>1, <1>2, <1>3, <1>4, <1>5, <1>6, <1>7, <1>8, <1>9, <1>10 DEF BspStep

(* Type correctness is preserved by every step.                            *)
LEMMA TypeStep ==
    ASSUME TypeOK, IndexInv, RequestInv, [Next]_vars
    PROVE  TypeOK'
<1>1. BspLocalsOK
  BY DEF BspLocalsOK, TypeOK, IndexInv
<1>2. CASE ApNext
  <2>1. ApTypeOK'
    BY <1>2, ApTypeStep DEF ApNext, TypeOK
  <2> QED BY <1>2, <2>1 DEF ApNext, TypeOK, bspVars, BspFlagsOK
<1>3. CASE BspStep
  <2>1. BspLocalsOK'
    BY <1>1, <1>3, BspLocalsStep DEF TypeOK
  <2>2. ApFlagsOK' /\ BspFlagsOK'
    BY <1>3, BspFlagsStep DEF TypeOK, ApTypeOK
  <2>3. /\ slotState' \in [Slots -> Status]
        /\ slotReq' \in [Slots -> Reqs \cup {NoReq}]
        /\ slotReply' \in [Slots -> Reply]
        /\ queue' \in QueueSummary
    BY <1>3, BspSlotsStep, PlanAssumption DEF TypeOK, PlanAssumption
  <2>4. UNCHANGED apOwned
    BY <1>3 DEF BspStep, ResetStream, EarlyReturn, BeginPublish, PubReset, PubPrepare,
       PubFaulted, PubNotFaulted, PubSkipped, PubNotHalted, PubStore, PubKick, TakeIpi,
       StopRead, StopStore, StopReturn, LoopTop, Check, Finish, Refill, ScanEnd, Decide,
       WakeByIpi, WakeByTimer, Drain, ExpirePending, ExpireRunning, ExpireFinish, Return
  <2>5. ApTypeOK'
    BY <2>2, <2>3, <2>4 DEF TypeOK, ApTypeOK, apOwned, bootVars
  <2> QED BY <2>1, <2>2, <2>5 DEF TypeOK, BspLocalsOK
<1>4. CASE UNCHANGED vars
  BY <1>4 DEF vars, apVars, slotVars, bootVars, bspVars, TypeOK, ApTypeOK, ApFlagsOK,
              BspFlagsOK
<1> QED BY <1>2, <1>3, <1>4 DEF Next, HaltForever

(* The AP holds a slot index wherever it is serving a slot.                *)
LEMMA ApIndexStep ==
    ASSUME TypeOK, IndexInv, ApNext
    PROVE  IndexInv'
<1> USE DEF ApNext, IndexInv, TypeOK, ApTypeOK, bspVars, SlotPcs, WorkPcs, FaultablePcs
<1>1. CASE Claim \/ Skip \/ SweepAgain \/ Idle \/ Wake
  BY <1>1 DEF Claim, Skip, SweepAgain, Idle, Wake
<1>2. CASE Start \/ Handle \/ Hang \/ note_ap_request_handled
  BY <1>2 DEF Start, Handle, Hang, note_ap_request_handled
<1>3. CASE CompleteDone \/ NoteDone \/ NotifyDone
  BY <1>3 DEF CompleteDone, NoteDone, NotifyDone
<1>4. CASE Miss \/ MissNote \/ MissComplete \/ MissNotify
  BY <1>4 DEF Miss, MissNote, MissComplete, MissNotify
<1>5. CASE FaultInHandler \/ ApFault
  BY <1>5 DEF FaultInHandler, ApFault, Fault, EnterFault, HasSlot
<1>6. CASE FaultReport \/ FaultPending \/ FaultRunning \/ FaultEmpty
  BY <1>6 DEF FaultReport, FaultPending, FaultRunning, FaultCas, FaultEmpty, HasSlot
<1>7. CASE FaultStore \/ FaultMark \/ FaultNotify
  BY <1>7 DEF FaultStore, FaultMark, FaultNotify
<1> QED
  BY <1>1, <1>2, <1>3, <1>4, <1>5, <1>6, <1>7 DEF ApStep, ApNext

(* An AP parked by ap_fault_dispatch or by BAD_OP has stored its ap_state. *)
LEMMA ApDeathStep ==
    ASSUME DeathInv, ApNext
    PROVE  DeathInv'
<1> USE DEF ApNext, DeathInv, bootVars, FaultablePcs
<1>1. CASE Claim \/ Skip \/ SweepAgain \/ Idle \/ Wake
  BY <1>1 DEF Claim, Skip, SweepAgain, Idle, Wake
<1>2. CASE Start \/ Handle \/ Hang \/ note_ap_request_handled
  BY <1>2 DEF Start, Handle, Hang, note_ap_request_handled
<1>3. CASE CompleteDone \/ NoteDone \/ NotifyDone
  BY <1>3 DEF CompleteDone, NoteDone, NotifyDone
<1>4. CASE Miss \/ MissNote \/ MissComplete \/ MissNotify
  BY <1>4 DEF Miss, MissNote, MissComplete, MissNotify
<1>5. CASE FaultInHandler \/ ApFault
  BY <1>5 DEF FaultInHandler, ApFault, Fault, EnterFault
<1>6. CASE FaultReport \/ FaultPending \/ FaultRunning \/ FaultEmpty
  BY <1>6 DEF FaultReport, FaultPending, FaultRunning, FaultCas, FaultEmpty
<1>7. CASE FaultStore \/ FaultMark \/ FaultNotify
  BY <1>7 DEF FaultStore, FaultMark, FaultNotify
<1> QED
  BY <1>1, <1>2, <1>3, <1>4, <1>5, <1>6, <1>7 DEF ApStep, ApNext

(* The AP makes only the slot it claims RUNNING, and gives it up before it *)
(* looks at another.                                                       *)
LEMMA ApOwnedStep ==
    ASSUME TypeOK, IndexInv, RunningIsOwned, ApNext
    PROVE  RunningIsOwned'
<1> USE DEF ApNext, RunningIsOwned, TypeOK, ApTypeOK, IndexInv, SlotPcs, WorkPcs, FaultablePcs, slotVars
<1>1. CASE Claim \/ Skip \/ SweepAgain \/ Idle \/ Wake
  BY <1>1 DEF Claim, Skip, SweepAgain, Idle, Wake
<1>2. CASE Start \/ Handle \/ Hang \/ note_ap_request_handled
  BY <1>2 DEF Start, Handle, Hang, note_ap_request_handled
<1>3. CASE CompleteDone \/ NoteDone \/ NotifyDone
  BY <1>3 DEF CompleteDone, NoteDone, NotifyDone
<1>4. CASE Miss \/ MissNote \/ MissComplete \/ MissNotify
  BY <1>4 DEF Miss, MissNote, MissComplete, MissNotify
<1>5. CASE FaultInHandler \/ ApFault
  BY <1>5 DEF FaultInHandler, ApFault, Fault, EnterFault
<1>6. CASE FaultReport \/ FaultPending \/ FaultRunning \/ FaultEmpty
  BY <1>6 DEF FaultReport, FaultPending, FaultRunning, FaultCas, FaultEmpty
<1>7. CASE FaultStore \/ FaultMark \/ FaultNotify
  BY <1>7 DEF FaultStore, FaultMark, FaultNotify
<1> QED
  BY <1>1, <1>2, <1>3, <1>4, <1>5, <1>6, <1>7 DEF ApStep, ApNext

(* AP_QUEUE_NO_SLOT is not a slot.                                         *)
LEMMA NoSlotIsNone == NoSlot \notin Slots
BY SlotCountAssumption DEF SlotCountAssumption, NoSlot, Slots

(* The absence of a request is not a request.                              *)
LEMMA NoReqIsNone == NoReq \notin Reqs
BY DEF NoReq, Reqs

(* A step of the AP leaves the BSP's variables and the requests alone.     *)
LEMMA ApFrame ==
    ASSUME ApNext
    PROVE  UNCHANGED <<bspVars, slotReq>>
BY DEF ApNext, ApStep, ApFault, Claim, Skip, SweepAgain, Idle, Wake, Start, Handle,
     Hang, note_ap_request_handled, CompleteDone, NoteDone, NotifyDone, Miss, MissNote,
     MissComplete, MissNotify, FaultInHandler, Fault, EnterFault, FaultReport,
     FaultPending, FaultRunning, FaultCas, FaultEmpty, FaultStore, FaultMark,
     FaultNotify, slotVars

(* The ways in which a step of the AP writes a state word.                 *)
ApWrite(s, old, new) ==
    \/ /\ apPc = "sweep" /\ s = apI /\ apPc' = "start" /\ apI' = apI
       /\ old = "PENDING" /\ new = "RUNNING"
    \/ apPc = "complete" /\ s = apI /\ apPc' = "noteDone" /\ old = "RUNNING" /\ new = "DONE"
    \/ apPc = "missComplete" /\ s = apI /\ apPc' = "missNotify" /\ old = "RUNNING" /\ new = "BAD_OP"
    \/ /\ apPc \in {"faultPending", "faultRunning", "faultStore"} /\ s = currentSlot
       /\ apPc' = "faultMark" /\ new = "FAULT"
       /\ old \in {"PENDING", "RUNNING"} \/ apPc = "faultStore"

(* A step of the AP leaves a state word alone or writes it so.             *)
LEMMA ApWord ==
    ASSUME TypeOK, IndexInv, ApNext, NEW s \in Slots
    PROVE  slotState'[s] = slotState[s] \/ ApWrite(s, slotState[s], slotState'[s])
<1>t. slotState \in [Slots -> Status]
  BY DEF TypeOK, ApTypeOK
<1>i. /\ apPc \in SlotPcs => apI \in Slots
      /\ apPc \in {"faultPending", "faultRunning", "faultEmpty", "faultStore"} =>
            currentSlot \in Slots
  BY DEF IndexInv
<1> USE <1>t, <1>i DEF ApNext, SlotPcs, WorkPcs, slotVars, ApWrite
<1>1. CASE Claim \/ Skip \/ SweepAgain \/ Idle \/ Wake
  BY <1>1 DEF Claim, Skip, SweepAgain, Idle, Wake
<1>2. CASE Start \/ Handle \/ Hang \/ note_ap_request_handled
  BY <1>2 DEF Start, Handle, Hang, note_ap_request_handled
<1>3. CASE CompleteDone \/ NoteDone \/ NotifyDone
  BY <1>3 DEF CompleteDone, NoteDone, NotifyDone
<1>4. CASE Miss \/ MissNote \/ MissComplete \/ MissNotify
  BY <1>4 DEF Miss, MissNote, MissComplete, MissNotify
<1>5. CASE FaultInHandler \/ ApFault
  BY <1>5 DEF FaultInHandler, ApFault, Fault, EnterFault
<1>6. CASE FaultReport \/ FaultPending \/ FaultRunning \/ FaultEmpty
  BY <1>6 DEF FaultReport, FaultPending, FaultRunning, FaultCas, FaultEmpty
<1>7. CASE FaultStore \/ FaultMark \/ FaultNotify
  BY <1>7 DEF FaultStore, FaultMark, FaultNotify
<1> QED
  BY <1>1, <1>2, <1>3, <1>4, <1>5, <1>6, <1>7 DEF ApStep

(* An AP that has marked its slot, or is about to, keeps what it knows of  *)
(* the exception.                                                          *)
LEMMA MarkedStays ==
    ASSUME apPc \in MarkedPcs \cup {"faultStore"}, ApNext
    PROVE  apPc' \in MarkedPcs /\ UNCHANGED <<currentSlot, fault>>
BY DEF MarkedPcs, ApNext, ApStep, ApFault, Claim, Skip, SweepAgain, Idle, Wake, Start,
     Handle, Hang, note_ap_request_handled, CompleteDone, NoteDone, NotifyDone, Miss,
     MissNote, MissComplete, MissNotify, FaultInHandler, Fault, EnterFault, FaultReport,
     FaultPending, FaultRunning, FaultCas, FaultEmpty, FaultStore, FaultMark,
     FaultNotify, bootVars, FaultablePcs

(* The fault handler reads the state word of the current slot.             *)
LEMMA FaultReads ==
    ASSUME TypeOK, NEW v, EnterFault(v)
    PROVE  /\ fault'.state = IF HasSlot THEN slotState[currentSlot] ELSE "EMPTY"
           /\ apPc' = "faultReport" /\ UNCHANGED <<slotVars, currentSlot>>
BY DEF TypeOK, ApTypeOK, FaultInfo, EnterFault

(* While the AP is leaving its current slot it never takes it up again.    *)
LEMMA LeavingStays ==
    ASSUME TypeOK, RunningIsOwned, ApNext, currentSlot \in Slots => Leaving
    PROVE  currentSlot' \in Slots => Leaving' \/ apPc = "start"
<1>t. fault \in FaultInfo /\ currentSlot \in Slots \cup {NoSlot}
  BY DEF TypeOK, ApTypeOK
<1> USE <1>t, NoSlotIsNone DEF ApNext, Leaving, MarkedPcs, MarkingPcs, FaultablePcs, bootVars
<1>1. CASE Claim \/ Skip \/ SweepAgain \/ Idle \/ Wake
  BY <1>1 DEF Claim, Skip, SweepAgain, Idle, Wake
<1>2. CASE Start \/ Handle \/ Hang \/ note_ap_request_handled
  BY <1>2 DEF Start, Handle, Hang, note_ap_request_handled
<1>3. CASE CompleteDone \/ NoteDone \/ NotifyDone
  BY <1>3 DEF CompleteDone, NoteDone, NotifyDone
<1>4. CASE Miss \/ MissNote \/ MissComplete \/ MissNotify
  BY <1>4 DEF Miss, MissNote, MissComplete, MissNotify
<1>5. CASE FaultInHandler \/ ApFault
  <2>1. PICK v : EnterFault(v) /\ apPc \in FaultablePcs
    BY <1>5 DEF FaultInHandler, ApFault, Fault
  <2>2. currentSlot \in Slots => apPc = "noteDone" /\ slotState[currentSlot] # "RUNNING"
    BY <2>1 DEF RunningIsOwned
  <2> QED BY <2>1, <2>2, FaultReads DEF HasSlot
<1>6. CASE FaultReport
  <2>1. fault'.state = fault.state /\ currentSlot' = currentSlot /\ apPc' \in {"faultPending", "faultMark"}
    BY <1>6 DEF FaultReport, FaultInfo
  <2> QED BY <1>6, <2>1 DEF FaultReport
<1>7. CASE FaultPending \/ FaultRunning \/ FaultEmpty
  BY <1>7 DEF FaultPending, FaultRunning, FaultCas, FaultEmpty
<1>8. CASE FaultStore \/ FaultMark \/ FaultNotify
  BY <1>8 DEF FaultStore, FaultMark, FaultNotify
<1> QED
  BY <1>1, <1>2, <1>3, <1>4, <1>5, <1>6, <1>7, <1>8 DEF ApStep, ApNext

(* A slot the AP claims, serves or loses to a fault carries a request.     *)
LEMMA ApRequestStep ==
    ASSUME TypeOK, IndexInv, RequestInv, RunningIsOwned, ApNext
    PROVE  RequestInv'
<1>u. UNCHANGED <<bspPc, bspI, nextPlan, slotReq>>
  BY ApFrame DEF bspVars
<1>i. apPc \in SlotPcs => apI \in Slots
  BY DEF IndexInv
<1>w. \A s \in Slots : slotState'[s] = "PENDING" => slotState[s] = "PENDING"
  BY ApWord DEF ApWrite
<1>1. apPc' \in WorkPcs => slotReq[apI'] \in Reqs
  <2>1. apPc' \in WorkPcs => \/ apPc \in WorkPcs /\ apI' = apI
                             \/ apI' = apI /\ apI \in Slots /\ slotState[apI] = "PENDING"
    BY DEF WorkPcs, ApNext, ApStep, ApFault, Claim, Skip, SweepAgain, Idle, Wake, Start,
     Handle, Hang, note_ap_request_handled, CompleteDone, NoteDone, NotifyDone, Miss,
     MissNote, MissComplete, MissNotify, FaultInHandler, Fault, EnterFault, FaultReport,
     FaultPending, FaultRunning, FaultCas, FaultEmpty, FaultStore, FaultMark, FaultNotify
  <2> QED BY <2>1 DEF RequestInv
<1>2. currentSlot' \in Slots => slotReq[currentSlot'] \in Reqs \/ Leaving'
  <2>1. CASE currentSlot \in Slots => Leaving
    <3>1. CASE apPc = "start"
      <4>1. Start \/ currentSlot' = currentSlot
        BY <3>1 DEF ApNext, ApStep, ApFault, Claim, Skip, SweepAgain, Idle, Wake,
         Handle, Hang, note_ap_request_handled, CompleteDone, NoteDone, NotifyDone, Miss,
         MissNote, MissComplete, MissNotify, FaultInHandler, Fault, EnterFault, FaultReport,
         FaultPending, FaultRunning, FaultCas, FaultEmpty, FaultStore, FaultMark, FaultNotify
      <4>2. currentSlot \notin Slots
        BY <2>1, <3>1 DEF Leaving, MarkedPcs, MarkingPcs
      <4> QED BY <3>1, <4>1, <4>2 DEF Start, RequestInv, WorkPcs
    <3>2. CASE apPc # "start"
      BY <2>1, <3>2, LeavingStays
    <3> QED BY <3>1, <3>2
  <2>2. CASE currentSlot \in Slots /\ slotReq[currentSlot] \in Reqs
    <3>1. currentSlot' \in {currentSlot, NoSlot} \/ (apPc \in WorkPcs /\ currentSlot' = apI)
      BY DEF WorkPcs, ApNext, ApStep, ApFault, Claim, Skip, SweepAgain, Idle, Wake, Start,
       Handle, Hang, note_ap_request_handled, CompleteDone, NoteDone, NotifyDone, Miss,
       MissNote, MissComplete, MissNotify, FaultInHandler, Fault, EnterFault, FaultReport,
       FaultPending, FaultRunning, FaultCas, FaultEmpty, FaultStore, FaultMark, FaultNotify
    <3> QED BY <2>2, <3>1, NoSlotIsNone DEF RequestInv
  <2> QED BY <2>1, <2>2 DEF RequestInv
<1> QED BY <1>u, <1>w, <1>1, <1>2 DEF RequestInv

(* The AP leaves alone the slots the first round has not reached.          *)
LEMMA ApFirstRoundStep ==
    ASSUME TypeOK, IndexInv, RequestInv, FirstRoundInv, ApNext
    PROVE  FirstRoundInv'
<1>u. UNCHANGED <<bspPc, bspI, backTo, slotReq>>
  BY ApFrame DEF bspVars
<1>1. ASSUME NEW s \in Slots, Untouched(s)
      PROVE  Untouched(s)'
  <2>1. CASE slotState[s] = "EMPTY" /\ slotState'[s] = slotState[s]
    BY <1>1, <1>u, <2>1 DEF Untouched
  <2>2. CASE slotState[s] = "EMPTY" /\ ApWrite(s, slotState[s], slotState'[s])
    <3>1. apPc = "faultStore" /\ s = currentSlot /\ slotState'[s] = "FAULT"
      BY <2>2 DEF ApWrite
    <3>2. fault.state # "RUNNING"
      BY <1>1, <3>1, NoReqIsNone DEF Untouched, RequestInv, Leaving, MarkedPcs, MarkingPcs
    <3> QED BY <1>1, <1>u, <3>1, <3>2, MarkedStays DEF Untouched
  <2>3. CASE apPc \in MarkedPcs /\ slotState[s] = "FAULT"
    <3>1. slotState'[s] = slotState[s]
      BY <2>3, ApWord DEF ApWrite, MarkedPcs
    <3> QED BY <1>1, <1>u, <2>3, <3>1, MarkedStays DEF Untouched
  <2> QED BY <1>1, <2>1, <2>2, <2>3, ApWord DEF Untouched
<1>2. bspPc \in PubPcs => bspI \in Slots
  BY DEF IndexInv
<1> QED BY <1>u, <1>1, <1>2 DEF FirstRoundInv, PubPcs, PrepPcs

(* A step of the AP keeps what the BSP relies on while it refills a slot.  *)
LEMMA ApHandOverStep ==
    ASSUME TypeOK, IndexInv, HandOverInv, ApNext
    PROVE  HandOverInv'
<1>t. /\ slotState \in [Slots -> Status]
      /\ currentSlot \in Slots \cup {NoSlot}
  BY DEF TypeOK, ApTypeOK
<1>i. /\ apPc \in SlotPcs => apI \in Slots
      /\ apPc \in {"faultPending", "faultRunning", "faultEmpty", "faultStore"} =>
            currentSlot \in Slots
      /\ bspPc \in PubPcs \cup {"refill"} => bspI \in Slots
  BY DEF IndexInv
<1> USE <1>t, <1>i, NoSlotIsNone, NoReqIsNone DEF ApNext, PubPcs, PrepPcs, HandOverInv, bspVars, SlotPcs, WorkPcs, FaultablePcs, slotVars
<1>1. CASE Claim \/ Skip \/ SweepAgain \/ Idle \/ Wake
  BY <1>1 DEF Claim, Skip, SweepAgain, Idle, Wake
<1>2. CASE Start \/ Handle \/ Hang \/ note_ap_request_handled
  BY <1>2 DEF Start, Handle, Hang, note_ap_request_handled
<1>3. CASE CompleteDone \/ NoteDone \/ NotifyDone
  BY <1>3 DEF CompleteDone, NoteDone, NotifyDone
<1>4. CASE Miss \/ MissNote \/ MissComplete \/ MissNotify
  BY <1>4 DEF Miss, MissNote, MissComplete, MissNotify
<1>5. CASE FaultInHandler \/ ApFault
  BY <1>5 DEF FaultInHandler, ApFault, Fault, EnterFault
<1>6. CASE FaultReport \/ FaultPending \/ FaultRunning \/ FaultEmpty
  BY <1>6 DEF FaultReport, FaultPending, FaultRunning, FaultCas, FaultEmpty
<1>7. CASE FaultStore \/ FaultMark \/ FaultNotify
  BY <1>7 DEF FaultStore, FaultMark, FaultNotify
<1> QED
  BY <1>1, <1>2, <1>3, <1>4, <1>5, <1>6, <1>7 DEF ApStep, ApNext

(* A handler runs for a request that has not been served, and afterwards   *)
(* the slot is no longer claimable for it.                                 *)
LEMMA ApUnservedStep ==
    ASSUME TypeOK, IndexInv, RequestInv, HandOverInv, UnservedInv, AtMostOnce, ApNext
    PROVE  UnservedInv' /\ AtMostOnce'
<1>t. /\ slotState \in [Slots -> Status]
      /\ slotReq \in [Slots -> Reqs \cup {NoReq}]
      /\ execs \in [Reqs -> Nat]
      /\ currentSlot \in Slots \cup {NoSlot}
      /\ nextPlan \in Nat
  BY PlanAssumption DEF TypeOK, ApTypeOK, PlanAssumption
<1>i. /\ apPc \in SlotPcs => apI \in Slots
      /\ apPc \in {"faultPending", "faultRunning", "faultEmpty", "faultStore"} =>
            currentSlot \in Slots
  BY DEF IndexInv
<1>u. UNCHANGED <<slotReq, nextPlan, bspPc, bspI>>
  BY DEF ApNext, ApStep, ApFault, Claim, Skip, SweepAgain, Idle, Wake, Start, Handle,
     Hang, note_ap_request_handled, CompleteDone, NoteDone, NotifyDone, Miss, MissNote,
     MissComplete, MissNotify, FaultInHandler, Fault, EnterFault, FaultReport,
     FaultPending, FaultRunning, FaultCas, FaultEmpty, FaultStore, FaultMark,
     FaultNotify, bspVars, slotVars
<1>h. CASE Handle
  <2>1. /\ apI \in Slots /\ slotReq[apI] \in Reqs /\ execs[slotReq[apI]] = 0
        /\ slotState[apI] # "PENDING" /\ apPc' = "note" /\ slotState' = slotState
        /\ execs' = [execs EXCEPT ![slotReq[apI]] = execs[slotReq[apI]] + 1]
        /\ ~(bspPc \in PrepPcs /\ apI = bspI)
    BY <1>h, <1>i DEF Handle, SlotPcs, WorkPcs, RequestInv, UnservedInv, HandOverInv
  <2>2. execs'[slotReq[apI]] = 1 /\ \A r \in Reqs : r # slotReq[apI] => execs'[r] = execs[r]
    BY <1>t, <2>1
  <2>3. AtMostOnce'
    BY <1>t, <2>2 DEF AtMostOnce
  <2>4. \A s \in Slots : slotState[s] = "PENDING" => execs'[slotReq[s]] = 0
    BY <1>t, <2>1, <2>2, NoReqIsNone DEF UnservedInv, RequestInv
  <2>5. slotReq[apI] \in 1 .. PlanCount =>
           slotReq[apI] <= nextPlan + (IF bspPc = "pubKick" THEN 1 ELSE 0)
    <3>1. slotReq[apI] \in Nat
      BY <2>1, PlanAssumption DEF Reqs, PlanAssumption
    <3>2. CASE slotReq[apI] <= nextPlan
      BY <1>t, <3>1, <3>2
    <3>3. CASE bspPc \in PreparedPcs /\ apI = bspI
      <4>1. bspPc = "pubKick" /\ slotReq[apI] = nextPlan + 1
        BY <2>1, <3>3 DEF RequestInv, PreparedPcs, PrepPcs
      <4> QED BY <1>t, <4>1
    <3> QED BY <2>1, <3>2, <3>3 DEF UnservedInv
  <2>6. \A r \in 1 .. PlanCount :
          r > nextPlan + (IF bspPc = "pubKick" THEN 1 ELSE 0) => execs'[r] = 0
    <3>1. \A r \in 1 .. PlanCount : r \in Reqs
      BY PlanAssumption DEF PlanAssumption, Reqs
    <3> QED BY <1>t, <2>2, <2>5, <3>1 DEF UnservedInv, Reqs
  <2> QED BY <1>u, <2>1, <2>3, <2>4, <2>6 DEF UnservedInv
<1>n. CASE ~Handle
  <2>1. UNCHANGED execs
    BY <1>n DEF ApNext, ApStep, ApFault, Claim, Skip, SweepAgain, Idle, Wake, Start,
     Hang, note_ap_request_handled, CompleteDone, NoteDone, NotifyDone, Miss, MissNote,
     MissComplete, MissNotify, FaultInHandler, Fault, EnterFault, FaultReport,
     FaultPending, FaultRunning, FaultCas, FaultEmpty, FaultStore, FaultMark, FaultNotify
  <2>2. \A s \in Slots : slotState'[s] = "PENDING" => slotState[s] = "PENDING"
    BY <1>n, <1>t, <1>i DEF ApNext, ApStep, ApFault, Claim, Skip, SweepAgain, Idle, Wake,
     Start, Hang, note_ap_request_handled, CompleteDone, NoteDone, NotifyDone, Miss,
     MissNote, MissComplete, MissNotify, FaultInHandler, Fault, EnterFault, FaultReport,
     FaultPending, FaultRunning, FaultCas, FaultEmpty, FaultStore, FaultMark,
     FaultNotify, slotVars, SlotPcs, WorkPcs
  <2>3. ASSUME apPc' \in {"start", "dispatch"}
        PROVE  execs[slotReq[apI']] = 0
    <3>1. CASE Claim
      BY <3>1 DEF Claim, UnservedInv
    <3>2. CASE Start
      BY <3>2 DEF Start, UnservedInv
    <3> QED
      BY <1>n, <2>3, <3>1, <3>2 DEF ApNext, ApStep, ApFault, Skip, SweepAgain, Idle, Wake,
       Hang, note_ap_request_handled, CompleteDone, NoteDone, NotifyDone, Miss, MissNote,
       MissComplete, MissNotify, FaultInHandler, Fault, EnterFault, FaultReport,
       FaultPending, FaultRunning, FaultCas, FaultEmpty, FaultStore, FaultMark,
       FaultNotify
  <2> QED BY <1>u, <2>1, <2>2, <2>3 DEF UnservedInv, AtMostOnce
<1> QED BY <1>h, <1>n

(* The BSP writes none of the variables the AP owns.                       *)
LEMMA BspLeavesAp ==
    ASSUME BspStep
    PROVE  UNCHANGED apOwned
BY DEF BspStep, ResetStream, EarlyReturn, BeginPublish, PubReset, PubPrepare, PubFaulted,
       PubNotFaulted, PubSkipped, PubNotHalted, PubStore, PubKick, TakeIpi, StopRead,
       StopStore, StopReturn, LoopTop, Check, Finish, Refill, ScanEnd, Decide, WakeByIpi,
       WakeByTimer, Drain, ExpirePending, ExpireRunning, ExpireFinish, Return

(* No store of the BSP makes a slot RUNNING.                               *)
LEMMA BspNeverRuns ==
    ASSUME TypeOK, IndexInv, BspStep, NEW s \in Slots, slotState'[s] = "RUNNING"
    PROVE  slotState[s] = "RUNNING"
BY DEF BspStep, ResetStream, EarlyReturn, BeginPublish, PubReset, PubPrepare, PubFaulted,
       PubNotFaulted, PubSkipped, PubNotHalted, PubStore, PubKick, TakeIpi, StopRead,
       StopStore, StopReturn, LoopTop, Check, Finish, Refill, ScanEnd, Decide, WakeByIpi,
       WakeByTimer, Drain, ExpirePending, ExpireRunning, ExpireFinish, Return,
       TypeOK, ApTypeOK, slotVars

(* The BSP does not disturb what a dead AP has announced.                  *)
LEMMA BspDeathStep ==
    ASSUME DeathInv, BspStep
    PROVE  DeathInv'
BY BspLeavesAp DEF DeathInv, apOwned, bootVars

(* The BSP does not disturb the ownership of the RUNNING slot.             *)
LEMMA BspOwnedStep ==
    ASSUME TypeOK, IndexInv, RunningIsOwned, BspStep
    PROVE  RunningIsOwned'
BY BspLeavesAp, BspNeverRuns DEF RunningIsOwned, apOwned

(* Every slot the BSP makes PENDING carries the next request of the plan.  *)
LEMMA BspRequestStep ==
    ASSUME TypeOK, IndexInv, RequestInv, SettledInv, BspStep
    PROVE  RequestInv'
<1>t. /\ slotState \in [Slots -> Status]
      /\ slotReq \in [Slots -> Reqs \cup {NoReq}]
      /\ currentSlot \in Slots \cup {NoSlot}
      /\ backTo \in {"first", "check", "decide"}
  BY DEF TypeOK, ApTypeOK
<1>i. /\ bspPc \in PubPcs \cup {"stopStore", "finish", "refill", "expireRunning",
                               "expireFinish"} => bspI \in Slots
      /\ apPc \in SlotPcs => apI \in Slots
      /\ apPc = "faultStore" => currentSlot \in Slots
      /\ bspPc \in {"stop", "check", "finish", "refill"} => backTo # "first"
  BY DEF IndexInv
<1>p. bspPc \in PubPcs => nextPlan + 1 \in Reqs
  BY PlanAssumption DEF TypeOK, IndexInv, Reqs, PlanAssumption
<1>z. 0 \in Slots
  BY SlotCountAssumption DEF SlotCountAssumption, Slots
<1>n. bspPc \in PubPcs => /\ bspI + 1 > bspI /\ bspI + 1 # bspI
                          /\ bspI + 1 < SlotCount => bspI + 1 \in Slots
                          /\ \A s \in Slots : s > bspI => s # bspI
                          /\ \A s \in Slots : s > bspI + 1 => s > bspI
  BY <1>i, SlotCountAssumption DEF SlotCountAssumption, Slots
<1> USE <1>t, <1>i, NoSlotIsNone, NoReqIsNone
    DEF PubPcs, PrepPcs, PreparedPcs, SlotPcs, WorkPcs, apOwned, bspVars, slotVars,
        bootVars, RequestInv, Leaving, MarkedPcs, MarkingPcs
<1>1. CASE ResetStream
  BY <1>1 DEF ResetStream, SettledInv, ServePcs
<1>2. CASE EarlyReturn \/ BeginPublish
  BY <1>2 DEF EarlyReturn, BeginPublish
<1>3. CASE PubReset \/ PubStore
  BY <1>3, <1>p DEF PubReset, PubStore
<1>4. CASE PubPrepare
  BY <1>4, <1>p DEF PubPrepare
<1>5. CASE PubNotFaulted \/ PubNotHalted \/ TakeIpi
  BY <1>5 DEF PubNotFaulted, PubNotHalted, TakeIpi
<1>6. CASE PubFaulted
  BY <1>6 DEF PubFaulted, Published
<1>7. CASE PubSkipped
  BY <1>7 DEF PubSkipped, Published
<1>8. CASE PubKick
  BY <1>8 DEF PubKick, Published
<1>9. CASE StopRead \/ StopReturn
  BY <1>9 DEF StopRead, StopReturn
<1>10. CASE StopStore
  BY <1>10 DEF StopStore
<1>11. CASE LoopTop \/ Check \/ ScanEnd \/ Decide
  BY <1>11 DEF LoopTop, Check, ScanEnd, Decide
<1>12. CASE Finish \/ Refill
  BY <1>12 DEF Finish, Refill, RecordSlot, ap_request_state_finished
<1>13. CASE WakeByIpi \/ WakeByTimer \/ Drain \/ Return
  BY <1>13 DEF WakeByIpi, WakeByTimer, Drain, Return
<1>14. CASE ExpirePending \/ ExpireRunning \/ ExpireFinish
  BY <1>14 DEF ExpirePending, ExpireRunning, ExpireFinish, RecordSlot
<1> QED
  BY <1>1, <1>2, <1>3, <1>4, <1>5, <1>6, <1>7, <1>8, <1>9, <1>10, <1>11, <1>12,
     <1>13, <1>14 DEF BspStep

(* A slot being refilled stays out of the AP's reach until its PENDING     *)
(* store.                                                                  *)
LEMMA BspHandOverStep ==
    ASSUME TypeOK, IndexInv, RequestInv, FirstRoundInv, HandOverInv, SettledInv, BspStep
    PROVE  HandOverInv'
<1>k. ASSUME NEW s \in Slots, Untouched(s)
      PROVE  slotState[s] \in {"EMPTY", "FAULT"} /\ ~(apPc \in WorkPcs /\ apI = s)
  BY <1>k DEF Untouched, HandOverInv, MarkedPcs, WorkPcs
<1>f. /\ bspPc = "early" => \A s \in Slots :
            slotState[s] \in {"EMPTY", "FAULT"} /\ ~(apPc \in WorkPcs /\ apI = s)
      /\ bspPc \in PubPcs /\ backTo = "first" => \A s \in Slots : s > bspI =>
            slotState[s] \in {"EMPTY", "FAULT"} /\ ~(apPc \in WorkPcs /\ apI = s)
  BY <1>k DEF FirstRoundInv
<1>t. /\ slotState \in [Slots -> Status]
      /\ slotReq \in [Slots -> Reqs \cup {NoReq}]
      /\ currentSlot \in Slots \cup {NoSlot}
      /\ backTo \in {"first", "check", "decide"}
  BY DEF TypeOK, ApTypeOK
<1>i. /\ bspPc \in PubPcs \cup {"stopStore", "finish", "refill", "expireRunning",
                               "expireFinish"} => bspI \in Slots
      /\ apPc \in SlotPcs => apI \in Slots
      /\ apPc = "faultStore" => currentSlot \in Slots
      /\ bspPc \in {"stop", "check", "finish", "refill"} => backTo # "first"
  BY DEF IndexInv
<1>p. bspPc \in PubPcs => nextPlan + 1 \in Reqs
  BY PlanAssumption DEF TypeOK, IndexInv, Reqs, PlanAssumption
<1>z. 0 \in Slots
  BY SlotCountAssumption DEF SlotCountAssumption, Slots
<1>n. bspPc \in PubPcs => /\ bspI + 1 > bspI /\ bspI + 1 # bspI
                          /\ bspI + 1 < SlotCount => bspI + 1 \in Slots
                          /\ \A s \in Slots : s > bspI => s # bspI
                          /\ \A s \in Slots : s > bspI + 1 => s > bspI
  BY <1>i, SlotCountAssumption DEF SlotCountAssumption, Slots
<1> USE <1>f, <1>t, <1>i, NoSlotIsNone, NoReqIsNone
    DEF PubPcs, PrepPcs, PreparedPcs, SlotPcs, WorkPcs, apOwned, bspVars, slotVars,
        bootVars, HandOverInv
<1>1. CASE ResetStream
  BY <1>1 DEF ResetStream, SettledInv, ServePcs
<1>2. CASE EarlyReturn \/ BeginPublish
  BY <1>2, <1>z DEF EarlyReturn, BeginPublish
<1>3. CASE PubReset \/ PubStore
  BY <1>3 DEF PubReset, PubStore
<1>4. CASE PubPrepare
  BY <1>4 DEF PubPrepare
<1>5. CASE PubNotFaulted \/ PubNotHalted \/ TakeIpi
  BY <1>5 DEF PubNotFaulted, PubNotHalted, TakeIpi
<1>6. CASE PubFaulted
  BY <1>6, <1>n DEF PubFaulted, Published
<1>7. CASE PubSkipped
  BY <1>7, <1>n DEF PubSkipped, Published
<1>8. CASE PubKick
  BY <1>8, <1>n DEF PubKick, Published
<1>9. CASE StopRead \/ StopReturn
  BY <1>9 DEF StopRead, StopReturn
<1>10. CASE StopStore
  BY <1>10 DEF StopStore
<1>11. CASE LoopTop \/ Check \/ ScanEnd \/ Decide
  BY <1>11 DEF LoopTop, Check, ScanEnd, Decide
<1>12. CASE Finish \/ Refill
  BY <1>12 DEF Finish, Refill, RecordSlot, ap_request_state_finished
<1>13. CASE WakeByIpi \/ WakeByTimer \/ Drain \/ Return
  BY <1>13 DEF WakeByIpi, WakeByTimer, Drain, Return
<1>14. CASE ExpirePending \/ ExpireRunning \/ ExpireFinish
  BY <1>14 DEF ExpirePending, ExpireRunning, ExpireFinish, RecordSlot
<1> QED
  BY <1>1, <1>2, <1>3, <1>4, <1>5, <1>6, <1>7, <1>8, <1>9, <1>10, <1>11, <1>12,
     <1>13, <1>14 DEF BspStep

(* The first round fills the slots in order and touches no later one.      *)
LEMMA BspFirstRoundStep ==
    ASSUME TypeOK, IndexInv, RequestInv, FirstRoundInv, BspStep
    PROVE  FirstRoundInv'
<1>k. \A s \in Slots : /\ slotState'[s] = slotState[s] /\ slotReq'[s] = slotReq[s]
                       /\ Untouched(s)
                       => Untouched(s)'
  BY BspLeavesAp DEF Untouched, apOwned, bootVars
<1>t. /\ slotState \in [Slots -> Status]
      /\ slotReq \in [Slots -> Reqs \cup {NoReq}]
      /\ currentSlot \in Slots \cup {NoSlot}
      /\ backTo \in {"first", "check", "decide"}
  BY DEF TypeOK, ApTypeOK
<1>i. /\ bspPc \in PubPcs \cup {"stopStore", "finish", "refill", "expireRunning",
                               "expireFinish"} => bspI \in Slots
      /\ apPc \in SlotPcs => apI \in Slots
      /\ apPc = "faultStore" => currentSlot \in Slots
      /\ bspPc \in {"stop", "check", "finish", "refill"} => backTo # "first"
  BY DEF IndexInv
<1>p. bspPc \in PubPcs => nextPlan + 1 \in Reqs
  BY PlanAssumption DEF TypeOK, IndexInv, Reqs, PlanAssumption
<1>z. 0 \in Slots
  BY SlotCountAssumption DEF SlotCountAssumption, Slots
<1>n. bspPc \in PubPcs => /\ bspI + 1 > bspI /\ bspI + 1 # bspI
                          /\ bspI + 1 < SlotCount => bspI + 1 \in Slots
                          /\ \A s \in Slots : s > bspI => s # bspI
                          /\ \A s \in Slots : s > bspI + 1 => s > bspI
  BY <1>i, SlotCountAssumption DEF SlotCountAssumption, Slots
<1> USE <1>k, <1>t, <1>i, NoSlotIsNone, NoReqIsNone
    DEF PubPcs, PrepPcs, PreparedPcs, SlotPcs, WorkPcs, apOwned, bspVars, slotVars,
        FirstRoundInv
<1>1. CASE ResetStream
  BY <1>1 DEF ResetStream, Untouched
<1>2. CASE EarlyReturn \/ BeginPublish
  BY <1>2, <1>z DEF EarlyReturn, BeginPublish
<1>3. CASE PubReset \/ PubStore
  BY <1>3, <1>n DEF PubReset, PubStore
<1>4. CASE PubPrepare
  BY <1>4, <1>n DEF PubPrepare
<1>5. CASE PubNotFaulted \/ PubNotHalted \/ TakeIpi
  BY <1>5 DEF PubNotFaulted, PubNotHalted, TakeIpi
<1>6. CASE PubFaulted
  BY <1>6, <1>n DEF PubFaulted, Published
<1>7. CASE PubSkipped
  BY <1>7, <1>n DEF PubSkipped, Published
<1>8. CASE PubKick
  BY <1>8, <1>n DEF PubKick, Published
<1>9. CASE StopRead \/ StopReturn
  BY <1>9 DEF StopRead, StopReturn
<1>10. CASE StopStore
  BY <1>10 DEF StopStore
<1>11. CASE LoopTop \/ Check \/ ScanEnd \/ Decide
  BY <1>11 DEF LoopTop, Check, ScanEnd, Decide
<1>12. CASE Finish \/ Refill
  BY <1>12 DEF Finish, Refill, RecordSlot, ap_request_state_finished
<1>13. CASE WakeByIpi \/ WakeByTimer \/ Drain \/ Return
  BY <1>13 DEF WakeByIpi, WakeByTimer, Drain, Return
<1>14. CASE ExpirePending \/ ExpireRunning \/ ExpireFinish
  BY <1>14 DEF ExpirePending, ExpireRunning, ExpireFinish, RecordSlot
<1> QED
  BY <1>1, <1>2, <1>3, <1>4, <1>5, <1>6, <1>7, <1>8, <1>9, <1>10, <1>11, <1>12,
     <1>13, <1>14 DEF BspStep

(* The BSP keeps its index within the slots wherever it uses it, and       *)
(* publishes only while requests are left.                                 *)
LEMMA BspIndexStep ==
    ASSUME TypeOK, IndexInv, BspStep
    PROVE  IndexInv'
<1>h. Len(history') <= completed'
  <2>1. BspLocalsOK /\ ApTypeOK
    BY DEF BspLocalsOK, TypeOK, IndexInv
  <2> QED BY <2>1, BspLocalsStep DEF BspLocalsOK
<1>a. UNCHANGED <<apPc, apI, currentSlot>>
  BY BspLeavesAp DEF apOwned
<1>z. 0 \in Slots
  BY SlotCountAssumption DEF SlotCountAssumption, Slots
<1>n. bspPc \in PubPcs => (bspI + 1 < SlotCount => bspI + 1 \in Slots)
  BY SlotCountAssumption DEF SlotCountAssumption, Slots, IndexInv
<1>s. bspPc \in BspPcs /\ backTo \in {"first", "check", "decide"}
  BY DEF TypeOK
<1> USE <1>h, <1>a, <1>s DEF IndexInv, PubPcs, PrepPcs
<1>1. CASE ResetStream \/ EarlyReturn
  BY <1>1 DEF ResetStream, EarlyReturn
<1>2. CASE BeginPublish
  BY <1>2, <1>z DEF BeginPublish
<1>3. CASE PubReset \/ PubPrepare \/ PubNotFaulted \/ PubNotHalted \/ PubStore \/ TakeIpi
  BY <1>3 DEF PubReset, PubPrepare, PubNotFaulted, PubNotHalted, PubStore, TakeIpi, bspVars
<1>4. CASE PubFaulted \/ PubSkipped \/ PubKick
  <2>1. bspPc \in PubPcs /\ Published
    BY <1>4 DEF PubFaulted, PubSkipped, PubKick
  <2> QED BY <1>n, <2>1 DEF Published
<1>5. CASE StopRead \/ StopStore \/ StopReturn
  BY <1>5 DEF StopRead, StopStore, StopReturn
<1>6. CASE LoopTop \/ Check \/ ScanEnd \/ Decide
  BY <1>6 DEF LoopTop, Check, ScanEnd, Decide
<1>7. CASE Finish \/ Refill
  BY <1>7 DEF Finish, Refill
<1>8. CASE WakeByIpi \/ WakeByTimer \/ Drain \/ Return
  BY <1>8 DEF WakeByIpi, WakeByTimer, Drain, Return
<1>9. CASE ExpirePending \/ ExpireRunning \/ ExpireFinish
  BY <1>9 DEF ExpirePending, ExpireRunning, ExpireFinish
<1> QED
  BY <1>1, <1>2, <1>3, <1>4, <1>5, <1>6, <1>7, <1>8, <1>9 DEF BspStep

(* The BSP never gives a request to the AP a second time: it numbers the   *)
(* requests upwards, and stores PENDING only over a request that is new.   *)
LEMMA BspUnservedStep ==
    ASSUME TypeOK, IndexInv, RequestInv, FirstRoundInv, HandOverInv, UnservedInv,
           SettledInv, AtMostOnce, BspStep
    PROVE  UnservedInv' /\ AtMostOnce'
<1>t. /\ slotState \in [Slots -> Status]
      /\ slotReq \in [Slots -> Reqs \cup {NoReq}]
      /\ slotReq \in [Slots -> Nat]
      /\ nextPlan \in Nat /\ Reqs \subseteq Nat
  BY PlanAssumption DEF TypeOK, ApTypeOK, PlanAssumption, Reqs, NoReq
<1>i. bspPc \in PubPcs \cup {"stopStore", "finish", "refill", "expireRunning",
                             "expireFinish"} => bspI \in Slots
  BY DEF IndexInv
<1>a. UNCHANGED <<apPc, apI, currentSlot, execs>>
  BY BspLeavesAp DEF apOwned
<1>o. AtMostOnce'
  BY <1>a DEF AtMostOnce
<1>1. CASE ResetStream
  <2>1. /\ slotReq' = [s \in Slots |-> NoReq] /\ slotState' = [s \in Slots |-> "EMPTY"]
        /\ bspPc = "reset" /\ bspPc' = "early" /\ nextPlan' = nextPlan
        /\ apPc \notin {"start", "dispatch"}
    BY <1>1 DEF ResetStream, SettledInv, ServePcs, WorkPcs
  <2>2. \A s \in Slots : slotReq'[s] = NoReq /\ slotReq'[s] <= nextPlan
    BY <1>t, <2>1 DEF NoReq
  <2> QED BY <1>a, <1>o, <2>1, <2>2 DEF UnservedInv
<1>2. CASE PubPrepare
  <2>1. /\ bspPc = "pubPrepare" /\ bspPc' = "pubFaulted" /\ bspI' = bspI /\ bspI \in Slots
        /\ nextPlan' = nextPlan /\ slotState' = slotState
        /\ slotReq' = [slotReq EXCEPT ![bspI] = nextPlan + 1]
        /\ slotState[bspI] # "PENDING" /\ ~(apPc \in WorkPcs /\ apI = bspI)
    BY <1>2, <1>i DEF PubPrepare, PubPcs, PrepPcs, HandOverInv
  <2>2. /\ slotReq'[bspI] = nextPlan + 1
        /\ \A s \in Slots : s # bspI => slotReq'[s] = slotReq[s] /\ slotReq[s] <= nextPlan
    BY <1>t, <2>1 DEF UnservedInv, PreparedPcs
  <2>3. \A s, t \in Slots : slotReq'[s] = slotReq'[t] => s = t \/ slotReq'[s] = NoReq
    BY <1>t, <2>2 DEF UnservedInv
  <2>4. apPc \in {"start", "dispatch"} => execs[slotReq'[apI]] = 0
    BY <2>1, <2>2 DEF UnservedInv, WorkPcs, IndexInv, SlotPcs
  <2>5. \A s \in Slots : slotState[s] = "PENDING" => execs[slotReq'[s]] = 0
    BY <2>1, <2>2 DEF UnservedInv
  <2>6. \A s \in Slots : slotReq'[s] <= nextPlan \/ s = bspI
    BY <2>2
  <2> QED BY <1>a, <1>o, <2>1, <2>3, <2>4, <2>5, <2>6 DEF UnservedInv, PreparedPcs
<1>3. CASE PubStore
  <2>1. /\ bspPc = "pubStore" /\ bspPc' = "pubKick" /\ bspI' = bspI /\ bspI \in Slots
        /\ nextPlan' = nextPlan /\ slotReq' = slotReq
        /\ slotState' = [slotState EXCEPT ![bspI] = "PENDING"]
        /\ slotReq[bspI] = nextPlan + 1 /\ slotReq[bspI] \in Reqs
    BY <1>3, <1>i, PlanAssumption
    DEF PubStore, PubPcs, PrepPcs, PreparedPcs, RequestInv, IndexInv, PlanAssumption,
        Reqs, TypeOK
  <2>2. \A r \in 1 .. PlanCount : r > nextPlan => execs[r] = 0
    BY <1>t, <2>1 DEF UnservedInv
  <2>3. execs[slotReq[bspI]] = 0
    <3>1. slotReq[bspI] \in 1 .. PlanCount
      BY <1>t, <2>1, PlanAssumption DEF PlanAssumption, IndexInv, PubPcs, PrepPcs
    <3> QED BY <1>t, <2>1, <2>2, <3>1
  <2>4. \A s \in Slots : slotState'[s] = "PENDING" => execs[slotReq[s]] = 0
    BY <1>t, <2>1, <2>3 DEF UnservedInv
  <2>5. \A r \in 1 .. PlanCount : r > nextPlan + 1 => execs[r] = 0
    BY <1>t, <2>2
  <2> QED BY <1>a, <1>o, <2>1, <2>4, <2>5 DEF UnservedInv, PreparedPcs
<1>4. CASE PubFaulted \/ PubSkipped \/ PubKick
  <2>1. /\ bspPc \in PreparedPcs /\ bspI \in Slots /\ Published /\ slotReq' = slotReq
        /\ \A s \in Slots : slotState'[s] = "PENDING" => slotState[s] = "PENDING"
    BY <1>4, <1>i, <1>t DEF PubFaulted, PubSkipped, PubKick, PreparedPcs, PubPcs, PrepPcs,
       slotVars
  <2>2. nextPlan' = nextPlan + 1 /\ bspPc' \in {"top", "pubReset", "check"}
    BY <2>1 DEF Published
  <2>3. \A s \in Slots : slotReq[s] <= nextPlan + 1
    BY <1>t, <2>1 DEF UnservedInv, RequestInv, PreparedPcs
  <2>4. \A r \in 1 .. PlanCount : r > nextPlan + 1 => execs[r] = 0
    BY <1>t DEF UnservedInv
  <2>5. \A r \in 1 .. PlanCount : r > nextPlan' + (IF bspPc' = "pubKick" THEN 1 ELSE 0) => execs[r] = 0
    BY <1>t, <2>2, <2>4
  <2> QED BY <1>a, <1>o, <2>1, <2>2, <2>3, <2>5 DEF UnservedInv
<1>5. CASE ~(ResetStream \/ PubPrepare \/ PubStore \/ PubFaulted \/ PubSkipped \/ PubKick)
  <2>1. /\ slotReq' = slotReq /\ nextPlan' = nextPlan
        /\ bspPc # "reset" /\ bspPc' # "reset"
        /\ bspPc # "pubKick" \/ bspPc' = bspPc
        /\ bspPc \in PreparedPcs => bspI' = bspI /\ bspPc' \in PreparedPcs
        /\ bspPc' = "pubKick" => bspPc = "pubKick"
    BY <1>5 DEF BspStep, EarlyReturn, BeginPublish, PubReset, PubNotFaulted, PubNotHalted,
       TakeIpi, StopRead, StopStore, StopReturn, LoopTop, Check, Finish, Refill, ScanEnd,
       Decide, WakeByIpi, WakeByTimer, Drain, ExpirePending, ExpireRunning, ExpireFinish,
       Return, slotVars, bspVars, PreparedPcs, IndexInv, TypeOK
  <2>2. \A s \in Slots : slotState'[s] = "PENDING" => slotState[s] = "PENDING"
    BY <1>5, <1>t, <1>i DEF BspStep, EarlyReturn, BeginPublish, PubReset, PubNotFaulted,
       PubNotHalted, TakeIpi, StopRead, StopStore, StopReturn, LoopTop, Check, Finish,
       Refill, ScanEnd, Decide, WakeByIpi, WakeByTimer, Drain, ExpirePending,
       ExpireRunning, ExpireFinish, Return, slotVars, bspVars, PubPcs, PrepPcs
  <2> QED BY <1>a, <1>o, <2>1, <2>2 DEF UnservedInv
<1> QED BY <1>1, <1>2, <1>3, <1>4, <1>5

-----------------------------------------------------------------------------
(* The initial state, in which the AP sweeps an inbox of reset slots,      *)
(* satisfies the inductive invariant.                                      *)
LEMMA InitHolds ==
    ASSUME Init
    PROVE  IInv /\ SettledInv
<1>p. PlanCount \in Nat
  BY PlanAssumption DEF PlanAssumption
<1>z. 0 \in Slots /\ 0 \in 0 .. SlotCount
  BY SlotCountAssumption DEF SlotCountAssumption, Slots
<1>1. ApFlagsOK /\ BspFlagsOK
  BY DEF Init, ApInit, ApFlagsOK, BspFlagsOK
<1>2. ResetReply \in Reply /\ ResetQueue \in QueueSummary /\ NoFault \in FaultInfo
  BY <1>z DEF ResetReply, Reply, ResetQueue, QueueSummary, NoFault, FaultInfo, Status, NoReq
<1>3. ApTypeOK
  BY <1>1, <1>2, <1>z
  DEF Init, ApInit, ApTypeOK, ApPcs, FaultablePcs, Status
<1>4. history \in Seq(HistoryEntry) /\ Len(history) = 0
  BY DEF Init
<1>5. TypeOK
  BY <1>1, <1>3, <1>4, <1>p, <1>z, StreamAssumption
  DEF Init, TypeOK, BspPcs, Status, StreamAssumption
<1>6. IndexInv
  BY <1>4 DEF Init, ApInit, IndexInv, SlotPcs, WorkPcs, PubPcs, PrepPcs
<1>7. RequestInv
  BY NoSlotIsNone DEF Init, ApInit, RequestInv, WorkPcs, PreparedPcs
<1>s. SettledInv
  BY NoSlotIsNone DEF Init, ApInit, SettledInv, ServePcs, WorkPcs
<1>8. FirstRoundInv /\ HandOverInv /\ RunningIsOwned /\ DeathInv
  BY DEF Init, ApInit, FirstRoundInv, HandOverInv, RunningIsOwned, DeathInv, PubPcs,
         PrepPcs, WorkPcs
<1>9. UnservedInv /\ AtMostOnce
  <2>1. /\ \A s \in Slots : slotReq[s] = NoReq /\ slotReq[s] \notin 1 .. PlanCount
        /\ \A r \in Reqs : execs[r] = 0
        /\ bspPc = "reset" /\ apPc = "sweep"
        /\ \A s \in Slots : slotState[s] = "EMPTY"
    BY DEF Init, ApInit, NoReq
  <2>2. AtMostOnce
    BY <2>1 DEF AtMostOnce
  <2>3. \A r \in 1 .. PlanCount : execs[r] = 0
    BY <2>1, PlanAssumption DEF PlanAssumption, Reqs
  <2> QED BY <2>1, <2>2, <2>3 DEF UnservedInv
<1> QED BY <1>5, <1>6, <1>7, <1>8, <1>9, <1>s DEF IInv

(* A step that changes nothing keeps the invariant.                        *)
LEMMA StutterHolds ==
    ASSUME IInv, SettledInv, UNCHANGED vars
    PROVE  IInv' /\ SettledInv'
<1>1. TypeOK'
  BY TypeStep DEF IInv
<1>2. /\ IndexInv' /\ RequestInv' /\ FirstRoundInv' /\ HandOverInv' /\ UnservedInv'
      /\ RunningIsOwned' /\ DeathInv' /\ AtMostOnce'
  BY DEF IInv, vars, apVars, slotVars, bootVars, bspVars, IndexInv, RequestInv, Leaving,
         FirstRoundInv, Untouched, HandOverInv, UnservedInv, RunningIsOwned, DeathInv,
         AtMostOnce
<1>3. SettledInv'
  BY DEF SettledInv, Leaving, vars, apVars, slotVars, bootVars, bspVars
<1> QED BY <1>1, <1>2, <1>3 DEF IInv

(* A step of the AP keeps it, wherever the BSP is.                         *)
LEMMA ApHolds ==
    ASSUME IInv, ApNext
    PROVE  IInv'
<1> USE DEF IInv
<1>t. TypeOK'
  BY TypeStep DEF Next
<1>1. IndexInv' /\ DeathInv'
  BY ApIndexStep, ApDeathStep
<1>2. RequestInv' /\ FirstRoundInv'
  BY ApRequestStep, ApFirstRoundStep
<1>3. HandOverInv' /\ RunningIsOwned'
  BY ApHandOverStep, ApOwnedStep
<1>4. UnservedInv' /\ AtMostOnce'
  BY ApUnservedStep
<1> QED BY <1>t, <1>1, <1>2, <1>3, <1>4

(* The AP takes nothing up from a settled inbox.                           *)
LEMMA ApSettledStep ==
    ASSUME IInv, SettledInv, ApNext
    PROVE  SettledInv'
<1>t. TypeOK /\ IndexInv /\ RunningIsOwned
  BY DEF IInv
<1> SUFFICES ASSUME bspPc = "reset"
             PROVE  /\ \A s \in Slots : slotState'[s] \notin {"PENDING", "RUNNING", "TIMEOUT"}
                    /\ apPc' \notin ServePcs
                    /\ currentSlot' \in Slots => Leaving'
  BY ApFrame DEF SettledInv, bspVars
<1>1. /\ \A s \in Slots : slotState[s] \notin {"PENDING", "RUNNING", "TIMEOUT"}
      /\ apPc \notin ServePcs /\ (currentSlot \in Slots => Leaving)
  BY DEF SettledInv
<1>2. \A s \in Slots : slotState'[s] \notin {"PENDING", "RUNNING", "TIMEOUT"}
  BY <1>t, <1>1, ApWord DEF ApWrite, ServePcs, WorkPcs
<1>3. apPc' \notin ServePcs
  BY <1>1 DEF ServePcs, WorkPcs, ApNext, ApStep, ApFault, Claim, Skip, SweepAgain, Idle,
     Wake, Start, Handle, Hang, note_ap_request_handled, CompleteDone, NoteDone, NotifyDone,
     Miss, MissNote, MissComplete, MissNotify, FaultInHandler, Fault, EnterFault,
     FaultReport, FaultPending, FaultRunning, FaultCas, FaultEmpty, FaultStore, FaultMark,
     FaultNotify
<1>4. apPc # "start"
  BY <1>1 DEF ServePcs, WorkPcs
<1> QED BY <1>t, <1>1, <1>2, <1>3, <1>4, LeavingStays

(* The BSP resets the stream once.                                         *)
LEMMA BspLeavesReset ==
    ASSUME TypeOK, BspStep
    PROVE  bspPc' # "reset"
<1>1. backTo \in {"first", "check", "decide"}
  BY DEF TypeOK
<1> QED
  BY <1>1 DEF BspStep, ResetStream, EarlyReturn, BeginPublish, PubReset, PubPrepare,
     PubFaulted, PubNotFaulted, PubSkipped, PubNotHalted, PubStore, PubKick, TakeIpi,
     StopRead, StopStore, StopReturn, LoopTop, Check, Finish, Refill, ScanEnd, Decide,
     WakeByIpi, WakeByTimer, Drain, ExpirePending, ExpireRunning, ExpireFinish, Return,
     Published, bspVars

(* A step of the BSP in the stream keeps it, if the inbox was settled when *)
(* the stream reset it.                                                    *)
LEMMA BspHolds ==
    ASSUME IInv, SettledInv, BspStep
    PROVE  IInv' /\ SettledInv'
<1> USE DEF IInv
<1>t. TypeOK'
  BY TypeStep DEF Next
<1>1. IndexInv' /\ DeathInv'
  BY BspIndexStep, BspDeathStep
<1>2. RequestInv' /\ FirstRoundInv'
  BY BspRequestStep, BspFirstRoundStep
<1>3. HandOverInv' /\ RunningIsOwned'
  BY BspHandOverStep, BspOwnedStep
<1>4. UnservedInv' /\ AtMostOnce'
  BY BspUnservedStep
<1>5. bspPc' # "reset"
  BY BspLeavesReset
<1> QED BY <1>t, <1>1, <1>2, <1>3, <1>4, <1>5 DEF SettledInv

(* Every step of the AP, of the BSP and of an exception keeps both.        *)
LEMMA StepHolds ==
    ASSUME IInv, SettledInv, [Next]_vars
    PROVE  IInv' /\ SettledInv'
BY ApHolds, ApSettledStep, BspHolds, StutterHolds DEF Next, HaltForever

(* The conjunction of the invariants above holds in every reachable state, *)
(* for any number of slots, any plan of requests, any set of exceptions    *)
(* and any timeout.                                                        *)
THEOREM InductiveInvariant == Spec => [](IInv /\ SettledInv)
<1>1. Init => IInv /\ SettledInv
  BY InitHolds
<1>2. (IInv /\ SettledInv) /\ [Next]_vars => (IInv /\ SettledInv)'
  BY StepHolds
<1> QED BY <1>1, <1>2, PTL DEF Spec

(* Type correctness: no index of the inbox, the plan or the history leaves *)
(* its array, and wait_loops never exceeds AP_REQUEST_TIMEOUT_LOOPS.       *)
THEOREM TypeCorrect == Spec => []TypeOK
<1>1. IInv => TypeOK
  BY DEF IInv
<1> QED BY <1>1, InductiveInvariant, PTL

(* At most one slot is RUNNING, and it is the one the AP is serving,       *)
(* although the BSP stores to the state word without cmpxchg.              *)
THEOREM SingleOwner == Spec => []RunningIsOwned
<1>1. IInv => RunningIsOwned
  BY DEF IInv
<1> QED BY <1>1, InductiveInvariant, PTL

(* No handler of ap_services.c runs twice for one request: timeouts,       *)
(* faults, lost interrupts and the refill of slots included.               *)
THEOREM ServedAtMostOnce == Spec => []AtMostOnce
<1>1. IInv => AtMostOnce
  BY DEF IInv
<1> QED BY <1>1, InductiveInvariant, PTL

(* An AP that has parked itself with a request still open has told the BSP *)
(* so through ap_state, so the stream does not wait for it.                *)
THEOREM DeathIsAnnounced == Spec => []NoSilentDeath
<1>1. IInv => NoSilentDeath
  BY DEF IInv, DeathInv, NoSilentDeath, ap_request_stream_should_stop
<1> QED BY <1>1, InductiveInvariant, PTL

-----------------------------------------------------------------------------
(* Steps of the AP.                                                        *)

(* The AP's control: where its boot state says it is, it is.               *)
LEMMA ApLifeStep ==
    ASSUME TypeOK, IndexInv, DeathInv, LifeInv, ApNext
    PROVE  /\ (apState = "FAULTED" => apPc \in {"faultNotify", "dead"})'
           /\ (apState = "HALTED" =>
                  apPc \in {"missNote", "missComplete", "missNotify", "halted"})'
           /\ Over => Over'
           /\ apState = "HALTED" => apState' = "HALTED"
<1>u. UNCHANGED bootOk
  BY ApFrame DEF bspVars
<1> USE <1>u DEF ApNext, LifeInv, DeathInv, Over, bootVars, FaultablePcs
<1>1. CASE Claim \/ Skip \/ SweepAgain \/ Idle \/ Wake
  BY <1>1 DEF Claim, Skip, SweepAgain, Idle, Wake
<1>2. CASE Start \/ Handle \/ Hang \/ note_ap_request_handled
  BY <1>2 DEF Start, Handle, Hang, note_ap_request_handled
<1>3. CASE CompleteDone \/ NoteDone \/ NotifyDone
  BY <1>3 DEF CompleteDone, NoteDone, NotifyDone
<1>4. CASE Miss \/ MissNote \/ MissComplete \/ MissNotify
  BY <1>4 DEF Miss, MissNote, MissComplete, MissNotify
<1>5. CASE FaultInHandler \/ ApFault
  BY <1>5 DEF FaultInHandler, ApFault, Fault, EnterFault
<1>6. CASE FaultReport \/ FaultPending \/ FaultRunning \/ FaultEmpty
  BY <1>6 DEF FaultReport, FaultPending, FaultRunning, FaultCas, FaultEmpty
<1>7. CASE FaultStore \/ FaultMark \/ FaultNotify
  BY <1>7 DEF FaultStore, FaultMark, FaultNotify
<1> QED
  BY <1>1, <1>2, <1>3, <1>4, <1>5, <1>6, <1>7 DEF ApStep

(* Where an AP step can lead to.                                           *)
LEMMA ApMoves ==
    ASSUME ApNext
    PROVE  /\ apPc' \in SlotPcs => 
                 \/ apPc \in SlotPcs
                 \/ apPc = "sweep" /\ apI \in Slots /\ slotState[apI] = "PENDING"
           /\ currentSlot' \in {currentSlot, NoSlot} \/ (apPc = "start" /\ currentSlot' = apI)
           /\ apPc' \in ServePcs =>
                 \/ apPc \in ServePcs /\ apI' = apI
                 \/ /\ apPc = "sweep" /\ apPc' = "start" /\ apI' = apI /\ apI \in Slots
                    /\ slotState[apI] = "PENDING" /\ slotState' = [slotState EXCEPT ![apI] = "RUNNING"]
<1> USE DEF ApNext, SlotPcs, WorkPcs, ServePcs, slotVars, FaultablePcs
<1>1. CASE Claim \/ Skip \/ SweepAgain \/ Idle \/ Wake
  BY <1>1 DEF Claim, Skip, SweepAgain, Idle, Wake
<1>2. CASE Start \/ Handle \/ Hang \/ note_ap_request_handled
  BY <1>2 DEF Start, Handle, Hang, note_ap_request_handled
<1>3. CASE CompleteDone \/ NoteDone \/ NotifyDone
  BY <1>3 DEF CompleteDone, NoteDone, NotifyDone
<1>4. CASE Miss \/ MissNote \/ MissComplete \/ MissNotify
  BY <1>4 DEF Miss, MissNote, MissComplete, MissNotify
<1>5. CASE FaultInHandler \/ ApFault
  BY <1>5 DEF FaultInHandler, ApFault, Fault, EnterFault
<1>6. CASE FaultReport \/ FaultPending \/ FaultRunning \/ FaultEmpty
  BY <1>6 DEF FaultReport, FaultPending, FaultRunning, FaultCas, FaultEmpty
<1>7. CASE FaultStore \/ FaultMark \/ FaultNotify
  BY <1>7 DEF FaultStore, FaultMark, FaultNotify
<1> QED
  BY <1>1, <1>2, <1>3, <1>4, <1>5, <1>6, <1>7 DEF ApStep

(* Once the AP is over, all it may still do to a slot is to report BAD_OP. *)
LEMMA OverWord ==
    ASSUME TypeOK, IndexInv, DeathInv, LifeInv, ApNext, Over, NEW s \in Slots
    PROVE  \/ slotState'[s] = slotState[s]
           \/ slotState[s] = "RUNNING" /\ slotState'[s] = "BAD_OP" /\ apState = "HALTED"
<1>1. slotState'[s] = slotState[s] \/ ApWrite(s, slotState[s], slotState'[s])
  BY ApWord
<1> QED BY <1>1, NoSlotIsNone DEF ApWrite, Over, LifeInv, DeathInv, SlotPcs, WorkPcs

(* A step of the AP keeps the facts about its life ...                     *)
LEMMA ApKeepsLife ==
    ASSUME TypeOK, IndexInv, DeathInv, LifeInv, ApNext
    PROVE  LifeInv'
<1>u. UNCHANGED <<bootOk, bspPc>>
  BY ApFrame DEF bspVars
<1>1. ASSUME ~bootOk
      PROVE  /\ currentSlot' = NoSlot /\ apPc' \notin SlotPcs
             /\ \A s \in Slots : slotState'[s] \in {"EMPTY", "SKIPPED", "FAULT"}
  <2>1. \A s \in Slots : slotState'[s] = slotState[s]
    BY <1>1, OverWord DEF Over, LifeInv
  <2>2. currentSlot = NoSlot /\ apPc \notin SlotPcs
    BY <1>1 DEF LifeInv
  <2>3. currentSlot' = NoSlot
    BY <2>2, ApMoves DEF SlotPcs, WorkPcs
  <2>4. apPc' \notin SlotPcs
    BY <1>1, <2>2, ApMoves DEF LifeInv
  <2> QED BY <1>1, <2>1, <2>3, <2>4 DEF LifeInv
<1> QED BY <1>u, <1>1, ApLifeStep DEF LifeInv

(* ... about the stop of the stream ...                                    *)
LEMMA ApKeepsStop ==
    ASSUME TypeOK, IndexInv, DeathInv, LifeInv, StopInv, ApNext
    PROVE  StopInv'
<1>u. UNCHANGED <<bootOk, bspPc, stopped>>
  BY ApFrame DEF bspVars
<1>1. /\ Over => Over'
      /\ apState = "HALTED" => apState' = "HALTED"
      /\ apPc' = "missNotify" => apState' = "HALTED"
  BY ApLifeStep, ApDeathStep DEF DeathInv
<1>2. ASSUME NEW s \in Slots
      PROVE  /\ slotState'[s] \in {"FAULT", "SKIPPED", "BAD_OP"} => Over'
             /\ slotState'[s] = "BAD_OP" => apState' = "HALTED"
             /\ slotState'[s] = "TIMEOUT" => slotState[s] = "TIMEOUT"
  <2>1. slotState'[s] = slotState[s] \/ ApWrite(s, slotState[s], slotState'[s])
    BY ApWord
  <2> QED BY <1>1, <2>1 DEF ApWrite, Over, StopInv
<1> QED BY <1>u, <1>1, <1>2 DEF StopInv

(* ... about the active slots ...                                          *)
LEMMA ApKeepsActive ==
    ASSUME IInv, LifeInv, StopInv, ActiveInv, ApNext
    PROVE  ActiveInv'
<1>u. UNCHANGED <<bspPc, bspI, active, nextPlan, backTo, seen, slotReq>>
  BY ApFrame DEF bspVars
<1>w. \A s \in Slots : slotState'[s] = slotState[s] \/ ApWrite(s, slotState[s], slotState'[s])
  BY ApWord DEF IInv
<1>1. \A s \in Slots : slotState'[s] \notin {"EMPTY", "FAULT"} => slotReq[s] \in Reqs
  BY <1>w DEF ApWrite, ActiveInv
<1>2. \A s \in Slots : active[s] => slotState'[s] # "EMPTY"
  BY <1>w DEF ApWrite, ActiveInv
<1>3. bspPc \in RewritePcs => slotState'[bspI] \in {"EMPTY", "FAULT"}
  <2>1. bspPc \in RewritePcs => bspI \in Slots
    BY DEF IInv, IndexInv, RewritePcs, PubPcs, PrepPcs
  <2> QED BY <1>w, <2>1 DEF ApWrite, ActiveInv, ServePcs, WorkPcs
<1>k. bspPc = "pubKick" => slotState'[bspI] # "EMPTY"
  <2>1. bspPc = "pubKick" => bspI \in Slots
    BY DEF IInv, IndexInv, PubPcs
  <2> QED BY <1>w, <2>1 DEF ApWrite, ActiveInv
<1>4. bspPc = "stopStore" =>
          \/ seen = "PENDING" /\ slotState'[bspI] = "PENDING"
          \/ seen = "RUNNING" /\ slotState'[bspI] \in {"RUNNING", "BAD_OP"}
  <2> SUFFICES ASSUME bspPc = "stopStore" PROVE <1>4!2
    OBVIOUS
  <2>1. bspI \in Slots /\ Over
    BY DEF IInv, IndexInv, StopInv
  <2>2. \/ slotState'[bspI] = slotState[bspI]
        \/ slotState[bspI] = "RUNNING" /\ slotState'[bspI] = "BAD_OP"
    BY <2>1, OverWord DEF IInv
  <2> QED BY <2>2 DEF ActiveInv
<1>5. \A s \in Slots : ap_request_state_finished(slotState[s])
                           => ap_request_state_finished(slotState'[s])
  BY <1>w DEF ApWrite, ap_request_state_finished, ap_request_state_terminal
<1>6. /\ bspPc = "expireRunning" =>
            slotState'[bspI] = "RUNNING" \/ ap_request_state_finished(slotState'[bspI])
      /\ bspPc = "expireFinish" => ap_request_state_finished(slotState'[bspI])
  <2>1. bspPc \in {"expireRunning", "expireFinish"} => bspI \in Slots
    BY DEF IInv, IndexInv
  <2> QED BY <1>w, <1>5, <2>1 DEF ApWrite, ActiveInv, ap_request_state_finished,
             ap_request_state_terminal
<1>7. apPc' \in ServePcs => slotState'[apI'] \in {"RUNNING", "TIMEOUT"}
  <2> SUFFICES ASSUME apPc' \in ServePcs PROVE slotState'[apI'] \in {"RUNNING", "TIMEOUT"}
    OBVIOUS
  <2>1. CASE apPc \in ServePcs /\ apI' = apI
    <3>1. apI \in Slots
      BY <2>1 DEF IInv, IndexInv, ServePcs, SlotPcs
    <3> QED BY <1>w, <2>1, <3>1 DEF ApWrite, ActiveInv, ServePcs, WorkPcs
  <2>2. CASE ~(apPc \in ServePcs /\ apI' = apI)
    <3>1. apI \in Slots /\ apI' = apI /\ slotState' = [slotState EXCEPT ![apI] = "RUNNING"]
      BY <2>2, ApMoves
    <3>2. slotState \in [Slots -> Status]
      BY DEF IInv, TypeOK, ApTypeOK
    <3> QED BY <3>1, <3>2
  <2> QED BY <2>1, <2>2
<1> QED BY <1>u, <1>1, <1>2, <1>3, <1>k, <1>4, <1>6, <1>7 DEF ActiveInv, NoActiveSlot

(* The AP writes the reply of the slot it serves, and the fault handler    *)
(* that of the current slot unless it found it DONE.                       *)
LEMMA ApReply ==
    ASSUME TypeOK, IndexInv, ApNext, NEW s \in Slots
    PROVE  \/ slotReply'[s] = slotReply[s]
           \/ apPc \in {"start", "dispatch", "note"} /\ s = apI
           \/ /\ apPc = "faultReport" /\ HasSlot /\ s = currentSlot
              /\ fault.state \in {"PENDING", "RUNNING", "EMPTY"}
<1>t. slotReply \in [Slots -> Reply]
  BY DEF TypeOK, ApTypeOK
<1>i. apPc \in SlotPcs => apI \in Slots
  BY DEF IndexInv
<1> USE <1>t, <1>i DEF ApNext, SlotPcs, WorkPcs, slotVars
<1>1. CASE Claim \/ Skip \/ SweepAgain \/ Idle \/ Wake
  BY <1>1 DEF Claim, Skip, SweepAgain, Idle, Wake
<1>2. CASE Start \/ Handle \/ Hang \/ note_ap_request_handled
  BY <1>2 DEF Start, Handle, Hang, note_ap_request_handled
<1>3. CASE CompleteDone \/ NoteDone \/ NotifyDone
  BY <1>3 DEF CompleteDone, NoteDone, NotifyDone
<1>4. CASE Miss \/ MissNote \/ MissComplete \/ MissNotify
  BY <1>4 DEF Miss, MissNote, MissComplete, MissNotify
<1>5. CASE FaultInHandler \/ ApFault
  BY <1>5 DEF FaultInHandler, ApFault, Fault, EnterFault
<1>6. CASE FaultReport
  BY <1>6 DEF FaultReport, HasSlot
<1>7. CASE FaultPending \/ FaultRunning \/ FaultEmpty
  BY <1>7 DEF FaultPending, FaultRunning, FaultCas, FaultEmpty
<1>8. CASE FaultStore \/ FaultMark \/ FaultNotify
  BY <1>8 DEF FaultStore, FaultMark, FaultNotify
<1> QED
  BY <1>1, <1>2, <1>3, <1>4, <1>5, <1>6, <1>7, <1>8 DEF ApStep

(* Only the handler of the slot the AP serves counts as an execution.      *)
LEMMA ApExecs ==
    ASSUME IInv, ApNext
    PROVE  \/ execs' = execs
           \/ /\ Handle /\ apPc = "dispatch" /\ apI \in Slots /\ slotReq[apI] \in Reqs
              /\ execs[slotReq[apI]] = 0 /\ execs'[slotReq[apI]] = 1
              /\ \A r \in Reqs : r # slotReq[apI] => execs'[r] = execs[r]
<1>1. CASE Handle
  <2>1. /\ apPc = "dispatch" /\ apI \in Slots /\ slotReq[apI] \in Reqs
        /\ execs[slotReq[apI]] = 0 /\ execs \in [Reqs -> Nat]
        /\ execs' = [execs EXCEPT ![slotReq[apI]] = execs[slotReq[apI]] + 1]
    BY <1>1 DEF Handle, IInv, IndexInv, RequestInv, UnservedInv, SlotPcs, WorkPcs, TypeOK,
                ApTypeOK
  <2> QED BY <1>1, <2>1
<1>2. CASE ~Handle
  BY <1>2 DEF ApNext, ApStep, ApFault, Claim, Skip, SweepAgain, Idle, Wake, Start,
     Hang, note_ap_request_handled, CompleteDone, NoteDone, NotifyDone, Miss, MissNote,
     MissComplete, MissNotify, FaultInHandler, Fault, EnterFault, FaultReport,
     FaultPending, FaultRunning, FaultCas, FaultEmpty, FaultStore, FaultMark, FaultNotify
<1> QED BY <1>1, <1>2

(* ... and what the slots say about their requests.                        *)
LEMMA ApKeepsTruth ==
    ASSUME IInv, LifeInv, ActiveInv, SlotsAreTrue, ApNext
    PROVE  SlotsAreTrue'
<1>u. slotReq' = slotReq
  BY ApFrame
<1>w. \A s \in Slots : slotState'[s] = slotState[s] \/ ApWrite(s, slotState[s], slotState'[s])
  BY ApWord DEF IInv
<1>i. apPc \in SlotPcs => apI \in Slots
  BY DEF IInv, IndexInv
<1>e. ASSUME NEW s \in Slots, slotReq[s] \in Reqs, ~(apPc = "dispatch" /\ s = apI)
      PROVE  execs'[slotReq[s]] = execs[slotReq[s]]
  <2>1. ASSUME apPc = "dispatch", apI \in Slots PROVE slotReq[s] # slotReq[apI]
    BY <1>e, <2>1, NoReqIsNone DEF IInv, UnservedInv
  <2> QED BY <1>e, <2>1, ApExecs
<1>1. ASSUME NEW s \in Slots, slotState'[s] = "DONE"
      PROVE  Answered(slotReply[s], slotReq[s])'
  <2>1. slotReq[s] \in Reqs
    BY <1>1, <1>w DEF ApWrite, ActiveInv
  <2>2. CASE slotState[s] = "DONE"
    <3>1. ~(apPc \in ServePcs /\ s = apI)
      BY <2>2 DEF ActiveInv
    <3>2. slotReply'[s] = slotReply[s]
      BY <2>2, <3>1, ApReply DEF IInv, ServePcs, WorkPcs, SlotsAreTrue
    <3>3. execs'[slotReq[s]] = execs[slotReq[s]]
      BY <1>e, <2>1, <3>1 DEF ServePcs, WorkPcs
    <3> QED BY <1>u, <2>2, <3>2, <3>3 DEF Answered, SlotsAreTrue
  <2>3. CASE slotState[s] # "DONE"
    <3>1. apPc = "complete" /\ s = apI
      BY <1>1, <1>w, <2>3 DEF ApWrite
    <3>2. slotReply'[s] = slotReply[s]
      BY <3>1, ApReply DEF IInv
    <3>3. execs'[slotReq[s]] = execs[slotReq[s]]
      BY <1>e, <2>1, <3>1
    <3> QED BY <1>u, <3>1, <3>2, <3>3 DEF Answered, SlotsAreTrue
  <2> QED BY <2>2, <2>3
<1>2. ASSUME NEW s \in Slots, slotState'[s] \in {"SKIPPED", "BAD_OP"}
      PROVE  execs'[slotReq[s]] = 0
  <2>1. slotReq[s] \in Reqs
    BY <1>2, <1>w DEF ApWrite, ActiveInv
  <2>2. ~(apPc = "dispatch" /\ s = apI) /\ execs[slotReq[s]] = 0
    BY <1>2, <1>w DEF ApWrite, ActiveInv, ServePcs, WorkPcs, SlotsAreTrue
  <2> QED BY <1>e, <2>1, <2>2
<1>3. ASSUME apPc' \in {"dispatch", "note", "complete", "missNote", "missComplete"}
      PROVE  /\ apI' = apI /\ apI \in Slots
             /\ apPc' \in {"dispatch", "note", "complete"} =>
                   slotReply'[apI].id = slotReq[apI] /\ slotReply'[apI].fault = 0
             /\ apPc' \in {"note", "complete"} => execs'[slotReq[apI]] = 1
             /\ apPc' \in {"missNote", "missComplete"} => execs'[slotReq[apI]] = 0
  <2>t. /\ slotReply \in [Slots -> Reply] /\ execs \in [Reqs -> Nat]
        /\ apPc \in WorkPcs => slotReq[apI] \in Reqs
    BY DEF IInv, TypeOK, ApTypeOK, RequestInv
  <2>1. CASE Start
    BY <2>1, <2>t, <1>i DEF Start, SlotPcs, WorkPcs
  <2>2. CASE Handle
    <3>1. apI \in Slots /\ slotReply[apI].id = slotReq[apI]
      BY <2>2, <1>i DEF Handle, SlotPcs, WorkPcs, SlotsAreTrue
    <3>2. execs'[slotReq[apI]] = 1
      BY <2>2, <3>1, ApExecs, <2>t DEF Handle, IInv, UnservedInv, WorkPcs
    <3>3. slotReply'[apI].id = slotReq[apI] /\ slotReply'[apI].fault = 0
      BY <2>2, <2>t, <3>1 DEF Handle, Reply
    <3> QED BY <2>2, <3>1, <3>2, <3>3 DEF Handle
  <2>3. CASE note_ap_request_handled
    BY <2>3, <2>t, <1>i DEF note_ap_request_handled, SlotPcs, WorkPcs, SlotsAreTrue, Reply
  <2>4. CASE Miss
    BY <2>4, <1>i DEF Miss, SlotPcs, WorkPcs, IInv, UnservedInv
  <2>5. CASE MissNote
    BY <2>5, <1>i DEF MissNote, SlotPcs, WorkPcs, SlotsAreTrue
  <2> QED
    BY <1>3, <2>1, <2>2, <2>3, <2>4, <2>5 DEF ApNext, ApStep, ApFault, Claim, Skip,
     SweepAgain, Idle, Wake, Hang, CompleteDone, NoteDone, NotifyDone,
     MissComplete, MissNotify, FaultInHandler, Fault, EnterFault, FaultReport,
     FaultPending, FaultRunning, FaultCas, FaultEmpty, FaultStore, FaultMark, FaultNotify
<1>4. ASSUME apPc' = "faultReport", HasSlot', slotState'[currentSlot'] = "DONE"
      PROVE  fault'.state = "DONE"
  <2>1. PICK v : EnterFault(v)
    BY <1>4 DEF ApNext, ApStep, ApFault, Claim, Skip, Start, Handle, note_ap_request_handled,
     SweepAgain, Idle, Wake, Hang, CompleteDone, NoteDone, NotifyDone, Miss, MissNote,
     MissComplete, MissNotify, FaultInHandler, Fault, FaultReport,
     FaultPending, FaultRunning, FaultCas, FaultEmpty, FaultStore, FaultMark, FaultNotify
  <2>2. fault \in FaultInfo
    BY DEF IInv, TypeOK, ApTypeOK
  <2> QED BY <1>4, <2>1, <2>2 DEF EnterFault, HasSlot, slotVars, FaultInfo
<1> QED BY <1>u, <1>1, <1>2, <1>3, <1>4 DEF SlotsAreTrue

(* Plan positions are requests, and entries name slots.                    *)
LEMMA EntryType ==
    ASSUME TypeOK
    PROVE  /\ nextPlan \in Nat /\ PlanCount \in Nat /\ nextPlan <= PlanCount
           /\ 1 .. PlanCount \subseteq Reqs /\ 1 .. nextPlan \subseteq 1 .. PlanCount
           /\ \A i \in DOMAIN history : history[i] \in HistoryEntry
           /\ \A i \in DOMAIN history : history[i].slot - 1 \in Slots
<1>1. PlanCount \in Nat /\ 1 .. PlanCount \subseteq Reqs
  BY PlanAssumption DEF PlanAssumption, Reqs
<1>2. nextPlan \in Nat /\ nextPlan <= PlanCount
  BY <1>1 DEF TypeOK
<1>3. \A i \in DOMAIN history : history[i] \in HistoryEntry
  BY DEF TypeOK
<1>4. ASSUME NEW h \in HistoryEntry PROVE h.slot - 1 \in Slots
  <2>1. h.slot \in 1 .. SlotCount
    BY DEF HistoryEntry
  <2> QED BY <2>1, SlotCountAssumption DEF Slots, SlotCountAssumption
<1> QED BY <1>1, <1>2, <1>3, <1>4

(* An AP that is over serves nothing.                                      *)
LEMMA OverIsIdle ==
    ASSUME LifeInv, DeathInv, Over
    PROVE  (apPc \notin WorkPcs /\ apPc # "sweep") \/ ~bootOk
BY DEF LifeInv, DeathInv, Over, WorkPcs

(* A step of the AP does not falsify the history ...                       *)
LEMMA ApKeepsHistory ==
    ASSUME IInv, LifeInv, HistoryInv, ApNext
    PROVE  HistoryInv'
<1>u. UNCHANGED <<bspPc, stopped, nextPlan, history, slotReq>>
  BY ApFrame DEF bspVars
<1>o. Over => Over' /\ apPc # "dispatch"
  BY ApLifeStep, OverIsIdle DEF IInv, LifeInv, SlotPcs, WorkPcs
<1> SUFFICES ASSUME NEW i \in DOMAIN history PROVE EntryInv(history[i])'
  BY <1>u DEF HistoryInv
<1>1. EntryInv(history[i]) /\ history'[i] = history[i]
  BY <1>u DEF HistoryInv
<1>2. history[i].req \in Reqs /\ history[i].slot - 1 \in Slots
  BY <1>1, EntryType DEF IInv, EntryInv
<1>3. /\ history[i].state = "DONE" => execs'[history[i].req] = 1
      /\ history[i].state \in {"SKIPPED", "BAD_OP"} => execs'[history[i].req] = 0
  <2>1. history[i].state = "DONE" => execs[history[i].req] = 1
    BY <1>1 DEF EntryInv, Answered
  <2>2. history[i].state \in {"SKIPPED", "BAD_OP"} =>
          execs[history[i].req] = 0 /\ apPc # "dispatch"
    BY <1>1, <1>o DEF EntryInv
  <2> QED BY <1>2, <2>1, <2>2, ApExecs
<1>4. LET s == history[i].slot - 1
      IN  ap_request_state_finished(slotState[s]) /\ slotState[s] # "DONE" =>
            ap_request_state_finished(slotState'[s]) /\ slotState'[s] # "DONE"
  <2> DEFINE s == history[i].slot - 1
  <2>1. slotState'[s] = slotState[s] \/ ApWrite(s, slotState[s], slotState'[s])
    BY <1>2, ApWord DEF IInv
  <2> HIDE DEF s
  <2>2. ap_request_state_finished(slotState[s]) /\ slotState[s] # "DONE" =>
            ap_request_state_finished(slotState'[s]) /\ slotState'[s] # "DONE"
    BY <2>1 DEF ApWrite, ap_request_state_finished, ap_request_state_terminal
  <2> QED BY <2>2 DEF s
<1> QED BY <1>u, <1>1, <1>o, <1>3, <1>4 DEF EntryInv, Answered

(* ... and does not touch the account.                                     *)
LEMMA ApKeepsAccount ==
    ASSUME AccountInv, ApNext
    PROVE  AccountInv'
BY ApFrame DEF AccountInv, ActiveSlots, Recorded, bspVars

-----------------------------------------------------------------------------
(* Steps of the BSP.                                                       *)

(* The BSP changes neither the AP's own variables nor bootOk.              *)
LEMMA BspFrame ==
    ASSUME BspStep
    PROVE  UNCHANGED <<apPc, apI, apState, currentSlot, fault, execs, bootOk>>
<1>1. UNCHANGED bootOk
  BY DEF BspStep, ResetStream, EarlyReturn, BeginPublish, PubReset, PubPrepare, PubFaulted,
       PubNotFaulted, PubSkipped, PubNotHalted, PubStore, PubKick, Published, TakeIpi,
       StopRead, StopStore, StopReturn, LoopTop, Check, Finish, Refill, ScanEnd, Decide,
       WakeByIpi, WakeByTimer, Drain, ExpirePending, ExpireRunning, ExpireFinish, Return,
       bspVars
<1> QED BY <1>1, BspLeavesAp DEF apOwned, bootVars

(* The ways in which a step of the BSP writes a state word.                *)
BspWrite(s, old, new) ==
    \/ bspPc = "reset" /\ bspPc' = "early" /\ new = "EMPTY"
    \/ /\ s = bspI
       /\ \/ bspPc = "pubReset" /\ bspPc' = "pubPrepare" /\ bspI' = bspI /\ new = "EMPTY"
          \/ bspPc = "pubFaulted" /\ new = "FAULT" /\ apState = "FAULTED"
          \/ bspPc = "pubHalted" /\ new = "SKIPPED" /\ (~bootOk \/ apState = "HALTED")
          \/ bspPc = "pubStore" /\ bspPc' = "pubKick" /\ new = "PENDING"
          \/ bspPc = "stopStore" /\ seen = "RUNNING" /\ new = "FAULT" /\ apState = "FAULTED"
          \/ bspPc = "stopStore" /\ seen = "PENDING" /\ new = "SKIPPED"
          \/ /\ bspPc = "expire" /\ bspPc' = "expireFinish"
             /\ old = "PENDING" /\ new = "TIMEOUT"
          \/ /\ bspPc = "expireRunning" /\ bspPc' = "expireFinish"
             /\ old = "RUNNING" /\ new = "TIMEOUT"

(* The reset of the stream empties every slot.                             *)
LEMMA ResetEmpties ==
    ASSUME BspStep, bspPc = "reset"
    PROVE  ResetStream /\ \A s \in Slots : slotState'[s] = "EMPTY"
<1>1. ResetStream
  BY DEF BspStep, EarlyReturn, BeginPublish, PubReset, PubPrepare, PubFaulted,
     PubNotFaulted, PubSkipped, PubNotHalted, PubStore, PubKick, TakeIpi, StopRead,
     StopStore, StopReturn, LoopTop, Check, Finish, Refill, ScanEnd, Decide, WakeByIpi,
     WakeByTimer, Drain, ExpirePending, ExpireRunning, ExpireFinish, Return
<1> QED BY <1>1 DEF ResetStream

(* A step of the BSP leaves a state word alone or writes it so.            *)
LEMMA BspWord ==
    ASSUME TypeOK, IndexInv, BspStep, NEW s \in Slots
    PROVE  slotState'[s] = slotState[s] \/ BspWrite(s, slotState[s], slotState'[s])
<1>t. slotState \in [Slots -> Status]
  BY DEF TypeOK, ApTypeOK
<1>i. bspPc \in PubPcs \cup {"stopStore", "finish", "refill", "expireRunning",
                            "expireFinish"} => bspI \in Slots
  BY DEF IndexInv
<1> USE <1>t, <1>i DEF PubPcs, PrepPcs, slotVars, bspVars, BspWrite
<1>1. CASE ResetStream \/ EarlyReturn \/ BeginPublish
  BY <1>1 DEF ResetStream, EarlyReturn, BeginPublish
<1>2. CASE PubReset \/ PubPrepare \/ PubNotFaulted \/ PubNotHalted \/ PubStore \/ TakeIpi
  BY <1>2 DEF PubReset, PubPrepare, PubNotFaulted, PubNotHalted, PubStore, TakeIpi
<1>3. CASE PubFaulted \/ PubSkipped \/ PubKick
  BY <1>3 DEF PubFaulted, PubSkipped, PubKick
<1>4. CASE StopRead \/ StopStore \/ StopReturn
  BY <1>4 DEF StopRead, StopStore, StopReturn
<1>5. CASE LoopTop \/ Check \/ ScanEnd \/ Decide \/ Finish \/ Refill
  BY <1>5 DEF LoopTop, Check, ScanEnd, Decide, Finish, Refill
<1>6. CASE WakeByIpi \/ WakeByTimer \/ Drain \/ Return
  BY <1>6 DEF WakeByIpi, WakeByTimer, Drain, Return
<1>7. CASE ExpirePending \/ ExpireRunning \/ ExpireFinish
  BY <1>7 DEF ExpirePending, ExpireRunning, ExpireFinish
<1> QED BY <1>1, <1>2, <1>3, <1>4, <1>5, <1>6, <1>7 DEF BspStep

(* The stream never restarts, and nothing follows the epilogue.            *)
LEMMA StopStays ==
    ASSUME BspStep
    PROVE  /\ stopped => stopped'
           /\ bspPc \in ExpirePcs \cup {"returned"} => bspPc' \in ExpirePcs \cup {"returned"}
<1>1. stopped => stopped'
  <2>1. CASE Finish
    BY <2>1 DEF Finish
  <2>2. CASE ~Finish
    <3>1. stopped' = stopped \/ stopped' = TRUE
      BY <2>2 DEF BspStep, ResetStream, EarlyReturn, BeginPublish, PubReset,
       PubPrepare, PubFaulted, PubNotFaulted, PubSkipped, PubNotHalted, PubStore, PubKick,
       Published, TakeIpi, StopRead, StopStore, StopReturn, LoopTop, Check, Refill,
       ScanEnd, Decide, WakeByIpi, WakeByTimer, Drain, ExpirePending, ExpireRunning,
       ExpireFinish, Return, bspVars
    <3> QED BY <3>1
  <2> QED BY <2>1, <2>2
<1>2. bspPc \in ExpirePcs \cup {"returned"} => bspPc' \in ExpirePcs \cup {"returned"}
  BY DEF ExpirePcs, BspStep, ResetStream, EarlyReturn, BeginPublish, PubReset,
     PubPrepare, PubFaulted, PubNotFaulted, PubSkipped, PubNotHalted, PubStore, PubKick,
     Published, TakeIpi, StopRead, StopStore, StopReturn, LoopTop, Check, Finish, Refill,
     ScanEnd, Decide, WakeByIpi, WakeByTimer, Drain, ExpirePending, ExpireRunning,
     ExpireFinish, Return
<1> QED BY <1>1, <1>2

(* A step of the BSP keeps the facts about the AP's life ...               *)
LEMMA BspKeepsLife ==
    ASSUME TypeOK, IndexInv, LifeInv, ActiveInv, BspStep
    PROVE  LifeInv'
<1>1. ASSUME ~bootOk
      PROVE  /\ bspPc' \notin {"pubStore", "pubKick"}
             /\ \A s \in Slots : slotState'[s] \in {"EMPTY", "SKIPPED", "FAULT"}
  <2>1. bspPc' \notin {"pubStore", "pubKick"}
    BY <1>1 DEF LifeInv, BspStep, ResetStream, EarlyReturn, BeginPublish, PubReset,
       PubPrepare, PubFaulted, PubNotFaulted, PubSkipped, PubNotHalted, PubStore, PubKick,
       Published, TakeIpi, StopRead, StopStore, StopReturn, LoopTop, Check, Finish, Refill,
       ScanEnd, Decide, WakeByIpi, WakeByTimer, Drain, ExpirePending, ExpireRunning,
       ExpireFinish, Return, bspVars, TypeOK
  <2>2. ASSUME NEW s \in Slots PROVE slotState'[s] \in {"EMPTY", "SKIPPED", "FAULT"}
    <3>1. slotState[s] \in {"EMPTY", "SKIPPED", "FAULT"} /\ bspPc # "pubStore"
      BY <1>1 DEF LifeInv
    <3> QED BY <3>1, BspWord DEF BspWrite
  <2> QED BY <2>1, <2>2
<1> QED BY <1>1, BspFrame DEF LifeInv

(* ... about the stop of the stream ...                                    *)
LEMMA BspKeepsStop ==
    ASSUME TypeOK, IndexInv, StopInv, ActiveInv, BspStep
    PROVE  StopInv'
<1>o. Over' = Over /\ apState' = apState
  BY BspFrame DEF Over
<1>i. /\ bspPc \in PubPcs \cup {"finish", "refill"} => bspI \in Slots
      /\ backTo \in {"first", "check", "decide"}
  BY DEF IndexInv, TypeOK
<1>1. ASSUME NEW s \in Slots
      PROVE  /\ slotState'[s] \in {"FAULT", "SKIPPED", "BAD_OP"} => Over
             /\ slotState'[s] = "BAD_OP" => apState = "HALTED"
             /\ slotState'[s] = "TIMEOUT" /\ slotState[s] # "TIMEOUT" => bspPc' = "expireFinish"
  <2>1. bspPc = "stopStore" => Over
    BY DEF StopInv
  <2> QED BY <2>1, BspWord DEF BspWrite, StopInv, Over
<1>2. bspPc \in ExpirePcs \cup {"returned"} => bspPc' \in ExpirePcs \cup {"returned"}
  BY StopStays
<1>3. ASSUME NEW s \in Slots, slotState'[s] = "TIMEOUT"
      PROVE  bspPc' \in ExpirePcs \cup {"returned"}
  BY <1>1, <1>2, <1>3 DEF StopInv, ExpirePcs
<1>4. /\ stopped' => Over
      /\ bspPc' \in {"stop", "stopStore"} => stopped'
      /\ bspPc' \in PubPcs \cup {"reset", "early", "refill"} => ~stopped'
  <2> USE <1>i DEF StopInv, PubPcs, PrepPcs, ap_request_stream_should_stop
  <2>1. CASE ResetStream \/ EarlyReturn \/ BeginPublish
    BY <2>1 DEF ResetStream, EarlyReturn, BeginPublish
  <2>2. CASE PubReset \/ PubPrepare \/ PubNotFaulted \/ PubNotHalted \/ PubStore \/ TakeIpi
    BY <2>2 DEF PubReset, PubPrepare, PubNotFaulted, PubNotHalted, PubStore, TakeIpi, bspVars
  <2>3. CASE PubFaulted \/ PubSkipped \/ PubKick
    BY <2>3 DEF PubFaulted, PubSkipped, PubKick, Published
  <2>4. CASE StopRead \/ StopStore \/ StopReturn
    BY <2>4 DEF StopRead, StopStore, StopReturn, IndexInv
  <2>5. CASE LoopTop \/ Check \/ ScanEnd \/ Decide \/ Refill
    BY <2>5 DEF LoopTop, Check, ScanEnd, Decide, Refill, Over
  <2>6. CASE Finish
    BY <2>6 DEF Finish, ap_request_state_finished, ap_request_state_terminal, ExpirePcs
  <2>7. CASE WakeByIpi \/ WakeByTimer \/ Drain \/ Return
    <3>1. stopped' = stopped /\ bspPc' \in {"top", "expire", "returned"}
      BY <2>7 DEF WakeByIpi, WakeByTimer, Drain, Return
    <3> QED BY <3>1
  <2>8. CASE ExpirePending \/ ExpireRunning \/ ExpireFinish
    BY <2>8 DEF ExpirePending, ExpireRunning, ExpireFinish
  <2> QED BY <2>1, <2>2, <2>3, <2>4, <2>5, <2>6, <2>7, <2>8 DEF BspStep
<1> QED BY <1>o, <1>1, <1>3, <1>4 DEF StopInv

(* What a step of the BSP does to the account: it opens a request, records *)
(* one, resets everything, or does nothing to it.                          *)
Opens ==
    /\ bspPc \in {"pubFaulted", "pubHalted", "pubKick"} /\ Published
    /\ slotReq' = slotReq

Records ==
    /\ bspPc \in {"finish", "expireFinish"}
    /\ ap_request_state_finished(slotState[bspI]) /\ RecordSlot(bspI)
    /\ UNCHANGED <<slotVars, nextPlan>>

Resets ==
    /\ bspPc = "reset" /\ bspPc' = "early" /\ history' = <<>>
    /\ active' = [s \in Slots |-> FALSE] /\ slotReq' = [s \in Slots |-> NoReq]
    /\ UNCHANGED <<nextPlan, completed>>

Idles ==
    /\ UNCHANGED <<active, nextPlan, history, completed>>
    /\ \/ slotReq' = slotReq
       \/ /\ bspPc = "pubPrepare" /\ bspPc' = "pubFaulted" /\ bspI' = bspI
          /\ slotReq' = [slotReq EXCEPT ![bspI] = nextPlan + 1]

(* A step of the BSP has one of these effects.                             *)
LEMMA BspEffect ==
    ASSUME BspStep
    PROVE  Opens \/ Records \/ Resets \/ Idles
<1> USE DEF slotVars, bspVars
<1>1. CASE ResetStream
  BY <1>1 DEF ResetStream, Resets
<1>2. CASE EarlyReturn \/ BeginPublish \/ PubReset \/ PubPrepare
  BY <1>2 DEF EarlyReturn, BeginPublish, PubReset, PubPrepare, Idles
<1>3. CASE PubNotFaulted \/ PubNotHalted \/ PubStore \/ TakeIpi
  BY <1>3 DEF PubNotFaulted, PubNotHalted, PubStore, TakeIpi, Idles
<1>4. CASE PubFaulted \/ PubSkipped \/ PubKick
  BY <1>4 DEF PubFaulted, PubSkipped, PubKick, Opens
<1>5. CASE StopRead \/ StopStore \/ StopReturn \/ LoopTop \/ Check \/ ScanEnd \/ Decide \/ Refill
  BY <1>5 DEF StopRead, StopStore, StopReturn, LoopTop, Check, ScanEnd, Decide, Refill, Idles
<1>6. CASE Finish \/ ExpireFinish
  BY <1>6 DEF Finish, ExpireFinish, Records, Idles
<1>7. CASE WakeByIpi \/ WakeByTimer \/ Drain \/ Return \/ ExpirePending \/ ExpireRunning
  BY <1>7 DEF WakeByIpi, WakeByTimer, Drain, Return, ExpirePending, ExpireRunning, Idles
<1> QED BY <1>1, <1>2, <1>3, <1>4, <1>5, <1>6, <1>7 DEF BspStep

(* The effects on the active slots, slot by slot.                          *)
LEMMA ActiveEffect ==
    ASSUME IInv, BspStep
    PROVE  /\ active' \in [Slots -> BOOLEAN] /\ active \in [Slots -> BOOLEAN]
           /\ Opens => /\ bspI \in Slots /\ active'[bspI] /\ slotReq[bspI] = nextPlan + 1
                       /\ nextPlan' = nextPlan + 1
                       /\ \A s \in Slots : s # bspI => active'[s] = active[s]
           /\ Records => /\ bspI \in Slots /\ ~active'[bspI]
                         /\ \A s \in Slots : s # bspI => active'[s] = active[s]
           /\ Resets => \A s \in Slots : ~active'[s]
<1>1. active \in [Slots -> BOOLEAN]
  BY DEF IInv, TypeOK, BspFlagsOK
<1>2. /\ Opens => bspI \in Slots /\ slotReq[bspI] = nextPlan + 1
      /\ Records => bspI \in Slots
  BY DEF IInv, IndexInv, RequestInv, Opens, Records, PubPcs, PrepPcs, PreparedPcs
<1>3. Opens => active' = [active EXCEPT ![bspI] = TRUE] /\ nextPlan' = nextPlan + 1
  BY DEF Opens, Published
<1>4. Records => active' = [active EXCEPT ![bspI] = FALSE]
  BY DEF Records, RecordSlot
<1>5. Resets => active' = [s \in Slots |-> FALSE]
  BY DEF Resets
<1>6. Idles => active' = active
  BY DEF Idles
<1>7. active' \in [Slots -> BOOLEAN]
  BY <1>1, <1>2, <1>3, <1>4, <1>5, <1>6, BspEffect
<1> HIDE DEF Opens, Records, Resets, Idles
<1>8. Opens => active'[bspI] /\ \A s \in Slots : s # bspI => active'[s] = active[s]
  BY <1>1, <1>2, <1>3
<1>9. Records => ~active'[bspI] /\ \A s \in Slots : s # bspI => active'[s] = active[s]
  BY <1>1, <1>2, <1>4
<1>10. Resets => \A s \in Slots : ~active'[s]
  BY <1>5
<1> QED BY <1>1, <1>2, <1>3, <1>7, <1>8, <1>9, <1>10

(* A slot that is being opened has left EMPTY.                             *)
LEMMA OpensWord ==
    ASSUME IInv, ActiveInv, BspStep, Opens
    PROVE  slotState'[bspI] # "EMPTY"
<1>1. slotState \in [Slots -> Status] /\ bspI \in Slots
  BY ActiveEffect DEF IInv, TypeOK, ApTypeOK
<1>2. bspPc' # bspPc /\ bspPc \in {"pubFaulted", "pubHalted", "pubKick"}
  BY DEF Opens, Published
<1>3. PubFaulted \/ PubSkipped \/ PubKick \/ PubNotFaulted \/ PubNotHalted
  BY <1>2 DEF BspStep, ResetStream, EarlyReturn, BeginPublish, PubReset, PubPrepare,
     PubStore, TakeIpi, StopRead, StopStore, StopReturn, LoopTop, Check, Finish, Refill,
     ScanEnd, Decide, WakeByIpi, WakeByTimer, Drain, ExpirePending, ExpireRunning,
     ExpireFinish, Return, bspVars
<1>4. bspPc' \in {"top", "pubReset", "check"}
  BY DEF Opens, Published
<1> QED BY <1>1, <1>3, <1>4 DEF PubFaulted, PubSkipped, PubKick, PubNotFaulted, PubNotHalted,
           ActiveInv, slotVars

(* A step of the BSP keeps what the slots hold ...                         *)
LEMMA BspKeepsContents ==
    ASSUME IInv, SettledInv, LifeInv, ActiveInv, BspStep
    PROVE  /\ \A s \in Slots : slotState'[s] \notin {"EMPTY", "FAULT"} => slotReq'[s] \in Reqs
           /\ \A s \in Slots : active'[s] => /\ slotState'[s] # "EMPTY"
                                             /\ slotReq'[s] \in 1 .. nextPlan'
           /\ apPc \in ServePcs => slotState'[apI] \in {"RUNNING", "TIMEOUT"}
<1>t. slotReq \in [Slots -> Reqs \cup {NoReq}] /\ nextPlan \in Nat
  BY EntryType DEF IInv, TypeOK, ApTypeOK
<1>p. /\ bspPc \in PreparedPcs => slotReq[bspI] = nextPlan + 1
      /\ bspPc \in PubPcs => nextPlan + 1 \in Reqs /\ bspI \in Slots
      /\ bspPc = "stopStore" => bspI \in Slots
  BY EntryType DEF IInv, RequestInv, IndexInv, TypeOK, Reqs
<1>r. bspPc = "reset" => \A s \in Slots : slotState'[s] = "EMPTY"
  BY ResetEmpties
<1>s. bspPc = "reset" => /\ \A s \in Slots : slotState[s] \notin {"RUNNING", "TIMEOUT"}
                         /\ apPc \notin ServePcs
  BY DEF SettledInv
<1>w. \A s \in Slots : slotState'[s] = slotState[s] \/ BspWrite(s, slotState[s], slotState'[s])
  BY BspWord DEF IInv
<1>q. /\ \A s \in Slots :
            \/ slotReq'[s] = slotReq[s]
            \/ bspPc = "pubPrepare" /\ s = bspI /\ slotReq'[s] = nextPlan + 1
            \/ bspPc = "reset"
      /\ Opens \/ Records => slotReq' = slotReq
  <2>1. Resets => bspPc = "reset"
    BY DEF Resets
  <2>2. Opens \/ Records => slotReq' = slotReq
    BY DEF Opens, Records, slotVars
  <2>3. Idles => \/ slotReq' = slotReq
                 \/ bspPc = "pubPrepare" /\ slotReq' = [slotReq EXCEPT ![bspI] = nextPlan + 1]
    BY DEF Idles
  <2>4. bspPc = "pubPrepare" => bspI \in Slots
    BY <1>p DEF PubPcs, PrepPcs
  <2> QED BY <1>t, <2>1, <2>2, <2>3, <2>4, BspEffect
<1>1. ASSUME NEW s \in Slots, slotState'[s] \notin {"EMPTY", "FAULT"}
      PROVE  slotReq'[s] \in Reqs
  <2>1. bspPc # "reset"
    BY <1>1, <1>r, <1>w DEF BspWrite
  <2>2. CASE bspPc = "pubPrepare" /\ s = bspI /\ slotReq'[s] = nextPlan + 1
    BY <2>2, <1>p DEF PubPcs, PrepPcs
  <2>3. CASE slotReq'[s] = slotReq[s]
    BY <1>1, <1>w, <1>p, <2>1, <2>3 DEF BspWrite, ActiveInv, PreparedPcs, PubPcs, PrepPcs
  <2> QED BY <1>q, <2>1, <2>2, <2>3
<1>2. ASSUME NEW s \in Slots, active'[s]
      PROVE  slotState'[s] # "EMPTY" /\ slotReq'[s] \in 1 .. nextPlan'
  <2>1. CASE Opens /\ s = bspI
    <3>1. slotReq'[s] = nextPlan + 1 /\ nextPlan' = nextPlan + 1
      BY <2>1, <1>q, ActiveEffect
    <3> QED BY <2>1, <3>1, <1>t, OpensWord
  <2>2. CASE ~(Opens /\ s = bspI)
    <3>1. active[s]
      <4>1. Idles => active' = active
        BY DEF Idles
      <4> QED BY <1>2, <2>2, <4>1, ActiveEffect, BspEffect
    <3>2. bspPc # "reset" /\ ~(bspPc \in PubPcs /\ s = bspI)
      BY <3>1 DEF ActiveInv, NoActiveSlot
    <3>3. slotReq'[s] = slotReq[s] /\ slotState'[s] # "EMPTY"
      BY <1>q, <1>w, <3>1, <3>2 DEF BspWrite, ActiveInv, PubPcs, PrepPcs
    <3>4. nextPlan' = nextPlan \/ nextPlan' = nextPlan + 1
      BY BspEffect DEF Opens, Published, Records, Resets, Idles
    <3>5. slotReq[s] \in 1 .. nextPlan
      BY <3>1 DEF ActiveInv
    <3> QED BY <1>t, <3>3, <3>4, <3>5
  <2> QED BY <2>1, <2>2
<1>3. ASSUME apPc \in ServePcs PROVE slotState'[apI] \in {"RUNNING", "TIMEOUT"}
  <2>1. apI \in Slots /\ slotState[apI] \in {"RUNNING", "TIMEOUT"} /\ apState # "FAULTED"
    BY <1>3 DEF ActiveInv, IInv, IndexInv, ServePcs, SlotPcs, WorkPcs, LifeInv
  <2>2. bspPc \in PrepPcs => bspI # apI
    BY <2>1 DEF IInv, HandOverInv
  <2>3. bspPc # "reset"
    BY <1>s, <2>1
  <2>4. ~(bspPc = "stopStore" /\ seen = "PENDING" /\ apI = bspI)
    BY <2>1 DEF ActiveInv
  <2> QED BY <1>w, <2>1, <2>2, <2>3, <2>4 DEF BspWrite, PrepPcs
<1> QED BY <1>1, <1>2, <1>3

(* ... and which slots are active at its program counters ...              *)
LEMMA BspKeepsPlaces ==
    ASSUME IInv, StopInv, ActiveInv, BspStep
    PROVE  /\ (bspPc \in {"reset", "early", "returned"} => NoActiveSlot)'
           /\ (bspPc \in PubPcs \cup {"refill"} => ~active[bspI])'
           /\ (bspPc \in PubPcs /\ backTo = "first" =>
                  \A s \in Slots : s > bspI => ~active[s])'
           /\ (bspPc \in {"stopStore", "finish", "expireRunning", "expireFinish"} =>
                  active[bspI])'
           /\ (bspPc \in ExpirePcs => \A s \in Slots : s < bspI => ~active[s])'
<1>i. /\ bspPc \in PubPcs \cup {"stopStore", "finish", "refill", "expireRunning",
                               "expireFinish"} => bspI \in Slots
      /\ bspPc \in {"check", "finish", "refill", "stop", "stopStore"} => backTo # "first"
      /\ bspPc \in BspPcs /\ backTo \in {"first", "check", "decide"}
      /\ bspI \in 0 .. SlotCount
  BY DEF IInv, IndexInv, TypeOK
<1>n. /\ SlotCount \in Nat /\ 0 \in Slots
      /\ \A s \in Slots : s \in Nat /\ s < SlotCount /\ ~(s < 0)
      /\ bspI \in Slots => /\ \A s \in Slots : s > bspI + 1 => s > bspI
                           /\ \A s \in Slots : s > bspI => s # bspI
                           /\ \A s \in Slots : s < bspI => s # bspI
                           /\ \A s \in Slots : s < bspI + 1 => s < bspI \/ s = bspI
                           /\ bspI + 1 > bspI
                           /\ bspI + 1 < SlotCount => bspI + 1 \in Slots
  BY <1>i, SlotCountAssumption DEF SlotCountAssumption, Slots
<1>e. /\ Opens => \A s \in Slots : s # bspI => active'[s] = active[s]
      /\ Records => ~active'[bspI] /\ \A s \in Slots : s # bspI => active'[s] = active[s]
      /\ Resets => \A s \in Slots : ~active'[s]
  BY ActiveEffect
<1> USE DEF ActiveInv, NoActiveSlot, PubPcs, PrepPcs, ExpirePcs
<1>1. CASE ResetStream
  BY <1>1 DEF ResetStream
<1>2. CASE EarlyReturn
  BY <1>2 DEF EarlyReturn
<1>3. CASE BeginPublish
  BY <1>3, <1>n DEF BeginPublish
<1>4. CASE PubReset \/ PubPrepare \/ PubNotFaulted \/ PubNotHalted \/ PubStore \/ TakeIpi
  BY <1>4 DEF PubReset, PubPrepare, PubNotFaulted, PubNotHalted, PubStore, TakeIpi, bspVars
<1>5. CASE PubFaulted \/ PubSkipped \/ PubKick
  <2>1. Opens /\ bspPc \in PubPcs /\ Published
    BY <1>5 DEF PubFaulted, PubSkipped, PubKick, Opens, slotVars
  <2>2. /\ bspPc' \in {"top", "pubReset", "check"} /\ backTo' = backTo
        /\ bspPc' = "pubReset" => bspI' = bspI + 1 /\ backTo = "first" /\ bspI + 1 < SlotCount
    BY <2>1 DEF Published
  <2>3. \A s \in Slots : s > bspI /\ backTo = "first" => ~active'[s]
    BY <1>e, <1>i, <1>n, <2>1
  <2> QED BY <1>i, <1>n, <2>1, <2>2, <2>3
<1>6. CASE StopRead \/ StopStore \/ StopReturn
  BY <1>6, <1>i DEF StopRead, StopStore, StopReturn
<1>7. CASE LoopTop \/ Check \/ ScanEnd \/ Decide
  BY <1>7 DEF LoopTop, Check, ScanEnd, Decide
<1>8. CASE Finish
  <2>1. bspPc' \in {"refill", "check"} /\ (bspPc' = "refill" => Records /\ bspI' = bspI)
    BY <1>8 DEF Finish, Records
  <2> QED BY <1>e, <2>1
<1>9. CASE Refill
  BY <1>9, <1>i DEF Refill
<1>10. CASE WakeByIpi \/ WakeByTimer \/ Drain
  BY <1>10, <1>n DEF WakeByIpi, WakeByTimer, Drain
<1>11. CASE Return
  BY <1>11, <1>n DEF Return
<1>12. CASE ExpirePending
  BY <1>12, <1>n DEF ExpirePending
<1>13. CASE ExpireRunning
  BY <1>13 DEF ExpireRunning
<1>14. CASE ExpireFinish
  <2>1. bspI \in Slots /\ Records /\ bspI' = bspI + 1 /\ bspPc = "expireFinish" /\ bspPc' = "expire"
    BY <1>14, <1>i DEF ExpireFinish, Records
  <2>2. \A s \in Slots : s < bspI + 1 => ~active'[s]
    BY <1>e, <1>n, <2>1
  <2> QED BY <2>1, <2>2
<1> QED
  BY <1>1, <1>2, <1>3, <1>4, <1>5, <1>6, <1>7, <1>8, <1>9, <1>10, <1>11, <1>12,
     <1>13, <1>14 DEF BspStep

(* ... and what it knows of the state words there.                         *)
LEMMA BspKeepsReadings ==
    ASSUME IInv, StopInv, ActiveInv, BspStep
    PROVE  /\ (bspPc \in RewritePcs => slotState[bspI] \in {"EMPTY", "FAULT"})'
           /\ (bspPc = "pubKick" => slotState[bspI] # "EMPTY")'
           /\ (bspPc = "stopStore" =>
                 \/ seen = "PENDING" /\ slotState[bspI] = "PENDING"
                 \/ seen = "RUNNING" /\ slotState[bspI] \in {"RUNNING", "BAD_OP"})'
           /\ (bspPc = "expireRunning" =>
                 slotState[bspI] = "RUNNING" \/ ap_request_state_finished(slotState[bspI]))'
           /\ (bspPc = "expireFinish" => ap_request_state_finished(slotState[bspI]))'
<1>i. /\ bspPc \in PubPcs \cup {"stopStore", "finish", "refill", "expireRunning",
                               "expireFinish"} => bspI \in Slots
      /\ bspPc \in {"check", "finish", "refill", "stop", "stopStore"} => backTo # "first"
      /\ backTo \in {"first", "check", "decide"} /\ slotState \in [Slots -> Status]
  BY DEF IInv, IndexInv, TypeOK, ApTypeOK
<1> USE <1>i DEF ActiveInv, PubPcs, PrepPcs, RewritePcs, ap_request_state_finished,
                 ap_request_state_terminal, slotVars
<1>1. CASE ResetStream \/ EarlyReturn \/ BeginPublish
  BY <1>1 DEF ResetStream, EarlyReturn, BeginPublish
<1>2. CASE PubReset \/ PubPrepare \/ PubNotFaulted \/ PubNotHalted \/ PubStore \/ TakeIpi
  BY <1>2 DEF PubReset, PubPrepare, PubNotFaulted, PubNotHalted, PubStore, TakeIpi, bspVars
<1>3. CASE PubFaulted \/ PubSkipped \/ PubKick
  BY <1>3 DEF PubFaulted, PubSkipped, PubKick, Published
<1>4. CASE StopRead
  BY <1>4 DEF StopRead, Status
<1>5. CASE StopStore \/ StopReturn
  BY <1>5 DEF StopStore, StopReturn
<1>6. CASE LoopTop \/ Check \/ ScanEnd \/ Decide
  BY <1>6 DEF LoopTop, Check, ScanEnd, Decide
<1>7. CASE Finish \/ Refill
  BY <1>7 DEF Finish, Refill
<1>8. CASE WakeByIpi \/ WakeByTimer \/ Drain \/ Return
  BY <1>8 DEF WakeByIpi, WakeByTimer, Drain, Return
<1>9. CASE ExpirePending
  BY <1>9 DEF ExpirePending, Status
<1>10. CASE ExpireRunning
  BY <1>10 DEF ExpireRunning
<1>11. CASE ExpireFinish
  BY <1>11 DEF ExpireFinish
<1> QED
  BY <1>1, <1>2, <1>3, <1>4, <1>5, <1>6, <1>7, <1>8, <1>9, <1>10, <1>11 DEF BspStep

(* ... so it keeps all facts about the active slots ...                    *)
LEMMA BspKeepsActive ==
    ASSUME IInv, SettledInv, LifeInv, StopInv, ActiveInv, BspStep
    PROVE  ActiveInv'
BY BspFrame, BspKeepsContents, BspKeepsPlaces, BspKeepsReadings DEF ActiveInv

(* The BSP rewrites header and reply of a slot only where it prepares it,  *)
(* and the reply where it withdraws a request from a faulted AP.           *)
LEMMA BspReply ==
    ASSUME TypeOK, IndexInv, BspStep, NEW s \in Slots
    PROVE  /\ \/ slotReply'[s] = slotReply[s]
              \/ bspPc = "reset"
              \/ s = bspI /\ bspPc \in RewritePcs
              \/ s = bspI /\ bspPc = "stopStore" /\ seen = "RUNNING" /\ apState = "FAULTED"
           /\ \/ slotReq'[s] = slotReq[s]
              \/ bspPc = "reset"
              \/ s = bspI /\ bspPc \in RewritePcs
<1>t. slotReply \in [Slots -> Reply] /\ slotReq \in [Slots -> Reqs \cup {NoReq}]
  BY DEF TypeOK, ApTypeOK
<1> USE <1>t DEF slotVars, bspVars, RewritePcs
<1>1. CASE ResetStream \/ EarlyReturn \/ BeginPublish
  BY <1>1 DEF ResetStream, EarlyReturn, BeginPublish
<1>2. CASE PubReset \/ PubPrepare \/ PubNotFaulted \/ PubNotHalted \/ PubStore \/ TakeIpi
  BY <1>2 DEF PubReset, PubPrepare, PubNotFaulted, PubNotHalted, PubStore, TakeIpi
<1>3. CASE PubFaulted \/ PubSkipped \/ PubKick
  BY <1>3 DEF PubFaulted, PubSkipped, PubKick
<1>4. CASE StopRead \/ StopStore \/ StopReturn
  BY <1>4 DEF StopRead, StopStore, StopReturn
<1>5. CASE LoopTop \/ Check \/ ScanEnd \/ Decide \/ Finish \/ Refill
  BY <1>5 DEF LoopTop, Check, ScanEnd, Decide, Finish, Refill
<1>6. CASE WakeByIpi \/ WakeByTimer \/ Drain \/ Return
  BY <1>6 DEF WakeByIpi, WakeByTimer, Drain, Return
<1>7. CASE ExpirePending \/ ExpireRunning \/ ExpireFinish
  BY <1>7 DEF ExpirePending, ExpireRunning, ExpireFinish
<1> QED BY <1>1, <1>2, <1>3, <1>4, <1>5, <1>6, <1>7 DEF BspStep

(* ... and what the slots say about their requests.                        *)
LEMMA BspKeepsTruth ==
    ASSUME IInv, SettledInv, LifeInv, ActiveInv, SlotsAreTrue, BspStep
    PROVE  SlotsAreTrue'
<1>u. UNCHANGED <<apPc, apI, currentSlot, fault, execs>>
  BY BspFrame
<1>r. bspPc = "reset" => \A s \in Slots : slotState'[s] = "EMPTY"
  BY ResetEmpties
<1>s. bspPc = "reset" => /\ \A s \in Slots : slotState[s] \notin {"RUNNING", "TIMEOUT"}
                         /\ apPc \notin ServePcs
  BY DEF SettledInv
<1>p. bspPc \in RewritePcs \cup {"stopStore"} => bspI \in Slots
  BY DEF IInv, IndexInv, RewritePcs, PubPcs, PrepPcs
<1>k. ASSUME NEW s \in Slots, slotState[s] \notin {"EMPTY", "FAULT"}, bspPc # "reset"
      PROVE  /\ slotReq'[s] = slotReq[s]
             /\ slotReply'[s] = slotReply[s] \/ (slotState[s] \in {"RUNNING", "BAD_OP"} /\ apState = "FAULTED")
  BY <1>k, BspReply DEF IInv, ActiveInv
<1>1. ASSUME NEW s \in Slots, slotState'[s] = "DONE"
      PROVE  Answered(slotReply[s], slotReq[s])'
  <2>1. slotState[s] = "DONE"
    BY <1>1, BspWord DEF IInv, BspWrite
  <2> QED BY <1>1, <1>r, <1>k, <1>u, <2>1 DEF Answered, SlotsAreTrue
<1>2. ASSUME NEW s \in Slots, slotState'[s] \in {"SKIPPED", "BAD_OP"}
      PROVE  execs[slotReq'[s]] = 0
  <2>1. CASE slotState[s] \in {"SKIPPED", "BAD_OP"}
    BY <1>2, <1>r, <1>k, <2>1 DEF SlotsAreTrue
  <2>2. CASE s = bspI /\ bspPc = "pubHalted"
    <3>1. slotReq[s] = nextPlan + 1 /\ slotReq[s] \in Reqs /\ nextPlan \in Nat
      BY <2>2, EntryType DEF IInv, RequestInv, PreparedPcs, IndexInv, PubPcs, PrepPcs, TypeOK
    <3>2. execs[slotReq[s]] = 0
      <4>1. slotReq[s] \in 1 .. PlanCount
        BY <2>2, <3>1, EntryType DEF IInv, IndexInv, PubPcs, PrepPcs, TypeOK
      <4> QED BY <2>2, <3>1, <4>1 DEF IInv, UnservedInv
    <3>3. slotReq' = slotReq
      BY <2>2 DEF BspStep, ResetStream, EarlyReturn, BeginPublish, PubReset, PubPrepare,
       PubFaulted, PubNotFaulted, PubSkipped, PubNotHalted, PubStore, PubKick, TakeIpi,
       StopRead, StopStore, StopReturn, LoopTop, Check, Finish, Refill, ScanEnd, Decide,
       WakeByIpi, WakeByTimer, Drain, ExpirePending, ExpireRunning, ExpireFinish, Return,
       slotVars
    <3> QED BY <3>2, <3>3
  <2>3. CASE s = bspI /\ bspPc = "stopStore" /\ seen = "PENDING"
    <3>1. slotState[s] = "PENDING"
      BY <2>3 DEF ActiveInv
    <3> QED BY <1>k, <2>3, <3>1 DEF IInv, UnservedInv
  <2> QED BY <1>2, <2>1, <2>2, <2>3, BspWord DEF IInv, BspWrite
<1>3. ASSUME apPc \in ServePcs
      PROVE  slotReq'[apI] = slotReq[apI] /\ slotReply'[apI] = slotReply[apI]
  <2>1. apI \in Slots /\ slotState[apI] \in {"RUNNING", "TIMEOUT"} /\ apState # "FAULTED"
    BY <1>3 DEF ActiveInv, IInv, IndexInv, ServePcs, SlotPcs, WorkPcs, LifeInv
  <2> QED BY <1>3, <1>s, <1>k, <2>1
<1>4. ASSUME HasSlot, slotState'[currentSlot] = "DONE"
      PROVE  slotState[currentSlot] = "DONE"
  BY <1>4, BspWord DEF IInv, BspWrite, HasSlot
<1> QED BY <1>u, <1>1, <1>2, <1>3, <1>4 DEF SlotsAreTrue, ServePcs, WorkPcs, HasSlot

-----------------------------------------------------------------------------
(* The history and the account under steps of the BSP.                     *)

(* A recorded failure ends the stream.                                     *)
LEMMA FailureStops ==
    ASSUME BspStep, Records, slotState[bspI] # "DONE"
    PROVE  stopped' \/ bspPc' \in ExpirePcs \cup {"returned"}
BY DEF Records, ExpirePcs, BspStep, ResetStream, EarlyReturn, BeginPublish, PubReset,
     PubPrepare, PubFaulted, PubNotFaulted, PubSkipped, PubNotHalted, PubStore, PubKick,
     Published, TakeIpi, StopRead, StopStore, StopReturn, LoopTop, Check, Finish, Refill,
     ScanEnd, Decide, WakeByIpi, WakeByTimer, Drain, ExpirePending, ExpireRunning,
     ExpireFinish, Return

(* Recording appends the finished slot's entry, as long as there is room.  *)
LEMMA RecordEffect ==
    ASSUME IInv, BspStep, Records
    PROVE  /\ completed' = completed + 1 /\ bspI \in Slots
           /\ \E base : history' = IF completed < HistoryCount
                                   THEN Append(history, Entry(bspI, base)) ELSE history
BY ActiveEffect DEF Records, RecordSlot

(* What an append does to the entries.                                     *)
LEMMA AppendEffect ==
    ASSUME history \in Seq(HistoryEntry), NEW e, history' = Append(history, e)
    PROVE  /\ DOMAIN history = 1 .. Len(history) /\ Len(history) \in Nat
           /\ DOMAIN history' = 1 .. Len(history) + 1
           /\ history'[Len(history) + 1] = e
           /\ \A i \in DOMAIN history : i \in DOMAIN history' /\ history'[i] = history[i]
           /\ \A i \in DOMAIN history' : i \in DOMAIN history \/ i = Len(history) + 1
           /\ Len(history) + 1 \in DOMAIN history' /\ Len(history) + 1 \notin DOMAIN history
           /\ Len(history') = Len(history) + 1
OBVIOUS

(* A step of the BSP records the truth ...                                 *)
LEMMA BspKeepsHistory ==
    ASSUME IInv, StopInv, ActiveInv, SlotsAreTrue, HistoryInv, BspStep
    PROVE  HistoryInv'
<1>u. UNCHANGED <<execs, apState, apPc, bootOk>> /\ Over' = Over
  BY BspFrame DEF Over
<1>s. /\ stopped => stopped'
      /\ bspPc \in ExpirePcs \cup {"returned"} => bspPc' \in ExpirePcs \cup {"returned"}
  BY StopStays
<1>n. /\ nextPlan \in Nat /\ (nextPlan' = nextPlan \/ nextPlan' = nextPlan + 1)
      /\ history \in Seq(HistoryEntry)
  BY EntryType, BspEffect DEF Opens, Published, Records, Resets, Idles, IInv, TypeOK
<1>1. ASSUME NEW h \in HistoryEntry, EntryInv(h)
      PROVE  EntryInv(h)'
  <2>1. h.req \in 1 .. nextPlan'
    BY <1>1, <1>n DEF EntryInv
  <2>2. ASSUME h.state # "DONE"
        PROVE  /\ ap_request_state_finished(slotState'[h.slot - 1])
               /\ slotState'[h.slot - 1] # "DONE"
    <3> DEFINE s == h.slot - 1
    <3>1. h.slot \in 1 .. SlotCount
      BY DEF HistoryEntry
    <3>2. s \in Slots
      BY <3>1, SlotCountAssumption DEF Slots, SlotCountAssumption
    <3>3. /\ stopped \/ bspPc \in ExpirePcs \cup {"returned"}
          /\ ap_request_state_finished(slotState[s]) /\ slotState[s] # "DONE"
      BY <1>1, <2>2 DEF EntryInv
    <3>4. bspPc \notin PubPcs \cup {"reset"}
      BY <3>3 DEF StopInv, ExpirePcs, PubPcs, PrepPcs
    <3> HIDE DEF s
    <3>5. ap_request_state_finished(slotState'[s]) /\ slotState'[s] # "DONE"
      BY <3>2, <3>3, <3>4, BspWord DEF IInv, BspWrite, PubPcs, PrepPcs,
         ap_request_state_finished, ap_request_state_terminal
    <3> QED BY <3>5 DEF s
  <2>3. h.state = "DONE" => Answered(h.reply, h.req)'
    BY <1>1, <1>u DEF EntryInv, Answered
  <2> QED BY <1>1, <1>u, <1>s, <2>1, <2>2, <2>3 DEF EntryInv
<1>2. ASSUME Records, NEW base, NEW h, h = Entry(bspI, base)
      PROVE  EntryInv(h)'
  <2>1. /\ bspI \in Slots /\ active[bspI] /\ ap_request_state_finished(slotState[bspI])
        /\ slotState' = slotState /\ nextPlan' = nextPlan
    BY <1>2, ActiveEffect DEF Records, ActiveInv, slotVars
  <2>2. /\ h.req = slotReq[bspI] /\ h.state = slotState[bspI] /\ h.reply = slotReply[bspI]
        /\ h.slot - 1 = bspI
    BY <1>2, <2>1, SlotCountAssumption DEF Entry, Slots, SlotCountAssumption
  <2>3. h.req \in 1 .. nextPlan'
    BY <2>1, <2>2 DEF ActiveInv
  <2>4. h.state \in {"SKIPPED", "BAD_OP", "FAULT"} => Over
    BY <2>1, <2>2 DEF StopInv
  <2>5. /\ h.state = "DONE" => Answered(h.reply, h.req)
        /\ h.state \in {"SKIPPED", "BAD_OP"} => execs[h.req] = 0
    BY <2>1, <2>2 DEF SlotsAreTrue
  <2>6. h.state # "DONE" => stopped' \/ bspPc' \in ExpirePcs \cup {"returned"}
    BY <1>2, <2>2, FailureStops
  <2> QED BY <1>u, <2>1, <2>2, <2>3, <2>4, <2>5, <2>6 DEF EntryInv, Answered
<1>3. ASSUME NEW i \in DOMAIN history' PROVE EntryInv(history[i])'
  <2>1. CASE i \in DOMAIN history /\ history'[i] = history[i]
    <3>1. PICK h \in HistoryEntry : h = history[i] /\ EntryInv(h)
      BY <2>1, EntryType DEF HistoryInv, IInv
    <3>2. EntryInv(h)'
      BY <1>1, <3>1
    <3> QED BY <2>1, <3>1, <3>2
  <2>2. ASSUME NEW base, Records, history'[i] = Entry(bspI, base)
        PROVE  EntryInv(history[i])'
    <3>1. PICK h : h = Entry(bspI, base)
      OBVIOUS
    <3>2. EntryInv(h)'
      BY <1>2, <2>2, <3>1
    <3> QED BY <2>2, <3>1, <3>2
  <2>3. CASE Records
    <3>1. PICK base : history' = IF completed < HistoryCount
                                 THEN Append(history, Entry(bspI, base)) ELSE history
      BY <2>3, RecordEffect
    <3>2. CASE history' = history
      BY <2>1, <3>2
    <3>3. CASE history' = Append(history, Entry(bspI, base))
      <4>1. \/ i \in DOMAIN history /\ history'[i] = history[i]
            \/ history'[i] = Entry(bspI, base)
        BY <1>n, <3>3, AppendEffect
      <4> QED BY <2>1, <2>2, <2>3, <4>1
    <3> QED BY <3>1, <3>2, <3>3
  <2>4. CASE ~Records
    <3>1. history' = history \/ history' = <<>>
      BY <2>4, BspEffect DEF Opens, Published, Resets, Idles
    <3> QED BY <1>3, <2>1, <3>1
  <2> QED BY <2>3, <2>4
<1> QED BY <1>3 DEF HistoryInv

(* The active slots are finitely many.                                     *)
LEMMA ActiveFinite ==
    /\ IsFiniteSet(ActiveSlots) /\ Cardinality(ActiveSlots) \in Nat
    /\ Cardinality(ActiveSlots) = 0 <=> ActiveSlots = {}
<1>1. IsFiniteSet(Slots)
  BY SlotCountAssumption, FS_Interval DEF SlotCountAssumption, Slots
<1>2. IsFiniteSet(ActiveSlots)
  BY <1>1, FS_Subset DEF ActiveSlots
<1> QED BY <1>2, FS_CardinalityType, FS_EmptySet

(* ... and keeps the account complete: opening a request adds an active    *)
(* slot, recording one moves it to the history.                            *)
LEMMA BspKeepsAccount ==
    ASSUME IInv, ActiveInv, HistoryInv, AccountInv, BspStep
    PROVE  AccountInv'
<1> SUFFICES ASSUME PlanCount <= HistoryCount
             PROVE  /\ completed' = Len(history')
                    /\ completed' + Cardinality(ActiveSlots') = nextPlan'
                    /\ \A s \in ActiveSlots' : ~Recorded(slotReq[s])'
                    /\ \A i, j \in DOMAIN history' : history'[i].req = history'[j].req => i = j
                    /\ \A r \in 1 .. nextPlan' :
                          Recorded(r)' \/ \E s \in ActiveSlots' : slotReq'[s] = r
  BY DEF AccountInv
<1>a. /\ completed = Len(history)
      /\ completed + Cardinality(ActiveSlots) = nextPlan
      /\ \A s \in ActiveSlots : ~Recorded(slotReq[s])
      /\ \A i, j \in DOMAIN history : history[i].req = history[j].req => i = j
      /\ \A r \in 1 .. nextPlan : Recorded(r) \/ \E s \in ActiveSlots : slotReq[s] = r
  BY DEF AccountInv
<1>t. /\ completed \in Nat /\ nextPlan \in Nat /\ PlanCount \in Nat /\ nextPlan <= PlanCount
      /\ HistoryCount \in Nat /\ history \in Seq(HistoryEntry)
      /\ active \in [Slots -> BOOLEAN] /\ active' \in [Slots -> BOOLEAN]
      /\ slotReq \in [Slots -> Reqs \cup {NoReq}]
  BY EntryType, ActiveEffect, StreamAssumption DEF IInv, TypeOK, ApTypeOK, StreamAssumption
<1>f. IsFiniteSet(ActiveSlots) /\ Cardinality(ActiveSlots) \in Nat
  BY ActiveFinite
<1>1. CASE Opens
  <2>1. /\ bspI \in Slots /\ active'[bspI] /\ slotReq[bspI] = nextPlan + 1
        /\ nextPlan' = nextPlan + 1 /\ ~active[bspI]
        /\ \A s \in Slots : s # bspI => active'[s] = active[s]
        /\ slotReq' = slotReq /\ history' = history /\ completed' = completed
    BY <1>1, ActiveEffect DEF Opens, Published, ActiveInv, PubPcs, PrepPcs
  <2>2. ActiveSlots' = ActiveSlots \cup {bspI} /\ bspI \notin ActiveSlots
    BY <2>1, <1>t DEF ActiveSlots
  <2>3. Cardinality(ActiveSlots') = Cardinality(ActiveSlots) + 1
    BY <1>f, <2>2, FS_AddElement
  <2>4. \A r : Recorded(r)' <=> Recorded(r)
    BY <2>1 DEF Recorded
  <2>5. ~Recorded(nextPlan + 1)
    <3>1. \A i \in DOMAIN history : history[i].req \in 1 .. nextPlan
      BY DEF HistoryInv, EntryInv
    <3>2. nextPlan + 1 \notin 1 .. nextPlan
      BY <1>t
    <3> QED BY <3>1, <3>2 DEF Recorded
  <2>6. \A s \in ActiveSlots' : ~Recorded(slotReq[s])'
    BY <1>a, <2>1, <2>2, <2>5 DEF Recorded
  <2>7. \A r \in 1 .. nextPlan + 1 : r \in 1 .. nextPlan \/ r = nextPlan + 1
    BY <1>t
  <2>8. \A r \in 1 .. nextPlan' : Recorded(r)' \/ \E s \in ActiveSlots' : slotReq'[s] = r
    BY <1>a, <2>1, <2>2, <2>4, <2>7
  <2>9. completed + (Cardinality(ActiveSlots) + 1) = nextPlan + 1
    BY <1>a, <1>f, <1>t
  <2> QED BY <1>a, <2>1, <2>3, <2>6, <2>8, <2>9
<1>2. CASE Records
  <2>1. /\ bspI \in Slots /\ ~active'[bspI] /\ active[bspI]
        /\ \A s \in Slots : s # bspI => active'[s] = active[s]
        /\ slotReq' = slotReq /\ nextPlan' = nextPlan /\ completed' = completed + 1
    BY <1>2, ActiveEffect, RecordEffect DEF Records, ActiveInv, slotVars
  <2>2. ActiveSlots' = ActiveSlots \ {bspI} /\ bspI \in ActiveSlots
    BY <2>1, <1>t DEF ActiveSlots
  <2>3. /\ Cardinality(ActiveSlots') = Cardinality(ActiveSlots) - 1
        /\ Cardinality(ActiveSlots) # 0
    BY <1>f, <2>2, FS_RemoveElement, FS_EmptySet
  <2>4. completed < HistoryCount
    BY <1>a, <1>f, <1>t, <2>3
  <2>5. PICK base : history' = Append(history, Entry(bspI, base))
    BY <1>2, <2>4, RecordEffect
  <2>6. PICK e : e = Entry(bspI, base) /\ e.req = slotReq[bspI] /\ history' = Append(history, e)
    BY <2>5 DEF Entry
  <2> DEFINE n == Len(history) + 1
  <2>7. /\ n \in DOMAIN history' /\ n \notin DOMAIN history /\ history'[n] = e
        /\ \A i \in DOMAIN history : i \in DOMAIN history' /\ history'[i] = history[i]
        /\ \A i \in DOMAIN history' : i \in DOMAIN history \/ i = n
        /\ Len(history') = n
    BY <1>t, <2>6, AppendEffect
  <2>8. \A r : Recorded(r)' <=> Recorded(r) \/ r = slotReq[bspI]
    BY <2>6, <2>7 DEF Recorded
  <2>9. ~Recorded(slotReq[bspI])
    BY <1>a, <2>2
  <2>10. \A i, j \in DOMAIN history' : history'[i].req = history'[j].req => i = j
    BY <1>a, <2>6, <2>7, <2>9 DEF Recorded
  <2>11. \A s \in ActiveSlots' : ~Recorded(slotReq[s]) /\ slotReq[s] # slotReq[bspI]
    <3>1. \A s \in ActiveSlots : s \in Slots /\ slotReq[s] \in Reqs
      BY EntryType, PlanAssumption DEF ActiveInv, ActiveSlots, IInv, TypeOK, Reqs, PlanAssumption
    <3> QED BY <1>a, <2>1, <2>2, <3>1, NoReqIsNone DEF IInv, UnservedInv
  <2>12. \A s \in ActiveSlots' : ~Recorded(slotReq[s])'
    BY <2>1, <2>6, <2>7, <2>11 DEF Recorded
  <2>13. \A r \in 1 .. nextPlan' : Recorded(r)' \/ \E s \in ActiveSlots' : slotReq'[s] = r
    BY <1>a, <2>1, <2>2, <2>8
  <2>14. /\ completed' = Len(history')
         /\ completed' + Cardinality(ActiveSlots') = nextPlan'
    BY <1>a, <1>f, <1>t, <2>1, <2>3, <2>7
  <2> QED BY <2>10, <2>12, <2>13, <2>14
<1>3. CASE Resets
  <2>1. /\ history' = <<>> /\ completed' = completed /\ nextPlan' = nextPlan
        /\ nextPlan = 0 /\ \A s \in Slots : ~active'[s] /\ ~active[s]
    BY <1>3, ActiveEffect DEF Resets, IInv, IndexInv, ActiveInv, NoActiveSlot
  <2>2. ActiveSlots' = {} /\ ActiveSlots = {}
    BY <2>1 DEF ActiveSlots
  <2>3. Cardinality(ActiveSlots') = 0 /\ Cardinality(ActiveSlots) = 0
    BY <2>2, FS_EmptySet
  <2>4. completed = 0 /\ Len(history') = 0 /\ DOMAIN history' = {}
    BY <1>a, <1>t, <2>1, <2>3
  <2>5. 1 .. nextPlan' = {}
    BY <2>1
  <2> QED BY <2>1, <2>2, <2>3, <2>4, <2>5
<1>4. CASE Idles
  <2>1. /\ UNCHANGED <<active, nextPlan, history, completed>>
        /\ \A s \in ActiveSlots : slotReq'[s] = slotReq[s]
    <3>1. bspPc = "pubPrepare" => bspI \in Slots /\ ~active[bspI]
      BY DEF IInv, IndexInv, ActiveInv, PubPcs, PrepPcs
    <3> QED BY <1>4, <1>t, <3>1 DEF Idles, ActiveSlots
  <2>2. ActiveSlots' = ActiveSlots /\ \A r : Recorded(r)' <=> Recorded(r)
    BY <2>1 DEF ActiveSlots, Recorded
  <2>3. \A s \in ActiveSlots : ~Recorded(slotReq[s])'
    BY <1>a, <2>1 DEF Recorded
  <2> QED BY <1>a, <2>1, <2>2, <2>3
<1> QED BY <1>1, <1>2, <1>3, <1>4, BspEffect

-----------------------------------------------------------------------------
(* The invariant.                                                          *)

(* The initial state, without requests and history, satisfies it.          *)
LEMMA LedgerInit ==
    ASSUME Init
    PROVE  LedgerInv
<1>1. /\ bspPc = "reset" /\ apPc = "sweep" /\ apState = "ONLINE" /\ stopped = FALSE
      /\ currentSlot = NoSlot /\ nextPlan = 0 /\ completed = 0 /\ history = <<>>
      /\ \A s \in Slots : slotState[s] = "EMPTY" /\ ~active[s]
  BY DEF Init, ApInit
<1>2. LifeInv /\ StopInv
  BY <1>1 DEF LifeInv, StopInv, Over, SlotPcs, WorkPcs, PubPcs, PrepPcs, ExpirePcs
<1>3. ActiveInv
  BY <1>1 DEF ActiveInv, NoActiveSlot, PubPcs, PrepPcs, RewritePcs, ExpirePcs, ServePcs, WorkPcs
<1>4. SlotsAreTrue /\ HistoryInv
  BY <1>1 DEF SlotsAreTrue, HistoryInv
<1>5. AccountInv
  <2>1. ActiveSlots = {} /\ Len(history) = 0 /\ DOMAIN history = {} /\ 1 .. nextPlan = {}
    BY <1>1 DEF ActiveSlots
  <2>2. Cardinality(ActiveSlots) = 0
    BY <2>1, FS_EmptySet
  <2> QED BY <1>1, <2>1, <2>2 DEF AccountInv
<1> QED BY <1>2, <1>3, <1>4, <1>5 DEF LedgerInv

(* A step of the AP keeps it ...                                           *)
LEMMA ApKeepsLedger ==
    ASSUME IInv, LedgerInv, ApNext
    PROVE  LedgerInv'
<1>i. TypeOK /\ IndexInv /\ DeathInv
  BY DEF IInv
<1> QED BY <1>i, ApKeepsLife, ApKeepsStop, ApKeepsActive, ApKeepsTruth, ApKeepsHistory,
           ApKeepsAccount DEF LedgerInv

(* ... and so does a step of the BSP.                                      *)
LEMMA BspKeepsLedger ==
    ASSUME IInv, SettledInv, LedgerInv, BspStep
    PROVE  LedgerInv'
<1>i. TypeOK /\ IndexInv /\ DeathInv
  BY DEF IInv
<1> QED BY <1>i, BspKeepsLife, BspKeepsStop, BspKeepsActive, BspKeepsTruth, BspKeepsHistory,
           BspKeepsAccount DEF LedgerInv

(* Every step of the AP, of the BSP and of an exception keeps it.          *)
LEMMA LedgerStep ==
    ASSUME IInv, SettledInv, LedgerInv, [Next]_vars
    PROVE  LedgerInv'
<1>3. CASE UNCHANGED vars
  <2>1. /\ LifeInv' /\ StopInv' /\ ActiveInv'
    BY <1>3 DEF LedgerInv, vars, apVars, slotVars, bootVars, bspVars, LifeInv, StopInv, Over,
       ActiveInv, NoActiveSlot
  <2>2. SlotsAreTrue' /\ HistoryInv'
    BY <1>3 DEF LedgerInv, vars, apVars, slotVars, bootVars, bspVars, SlotsAreTrue, HasSlot,
       Answered, HistoryInv, EntryInv, Over
  <2>3. AccountInv'
    BY <1>3 DEF LedgerInv, vars, apVars, slotVars, bspVars, AccountInv, ActiveSlots, Recorded
  <2> QED BY <2>1, <2>2, <2>3 DEF LedgerInv
<1> QED BY <1>3, ApKeepsLedger, BspKeepsLedger DEF Next, HaltForever

(* What state words, replies and history mean, in every reachable state.   *)
THEOREM LedgerInvariant == Spec => [](IInv /\ SettledInv /\ LedgerInv)
<1>1. Init => IInv /\ SettledInv /\ LedgerInv
  BY InitHolds, LedgerInit
<1>2. (IInv /\ SettledInv /\ LedgerInv) /\ [Next]_vars => (IInv /\ SettledInv /\ LedgerInv)'
  BY StepHolds, LedgerStep
<1> QED BY <1>1, <1>2, PTL DEF Spec

(* What request_history says about a request is what happened to it: DONE  *)
(* only for a request whose handler ran and replied to it, SKIPPED and     *)
(* BAD_OP only for one whose handler never runs.                           *)
THEOREM HistoryIsTrue == Spec => []OutcomeIsTrue
<1>1. LedgerInv => OutcomeIsTrue
  BY DEF LedgerInv, HistoryInv, EntryInv, Answered, OutcomeIsTrue
<1> QED BY <1>1, LedgerInvariant, PTL

(* When the history array is as long as the plan, every published request  *)
(* is in it exactly once when run_ap_request_stream returns.               *)
THEOREM NoRequestForgotten ==
    ASSUME PlanCount <= HistoryCount
    PROVE  Spec => []EveryRequestRecorded
<1>1. IInv /\ LedgerInv => EveryRequestRecorded
  <2> SUFFICES ASSUME IInv, LedgerInv, bspPc = "returned"
               PROVE  /\ completed = nextPlan
                      /\ \A r \in 1 .. nextPlan :
                            \E i \in DOMAIN history :
                               /\ history[i].req = r
                               /\ \A j \in DOMAIN history : history[j].req = r => j = i
    BY DEF EveryRequestRecorded
  <2>1. ActiveSlots = {}
    BY DEF LedgerInv, ActiveInv, NoActiveSlot, ActiveSlots
  <2>2. Cardinality(ActiveSlots) = 0
    BY <2>1, FS_EmptySet
  <2>3. completed \in Nat /\ completed + 0 = nextPlan
    BY <2>2 DEF LedgerInv, AccountInv, IInv, TypeOK
  <2>4. \A r \in 1 .. nextPlan : Recorded(r)
    BY <2>1 DEF LedgerInv, AccountInv
  <2>5. \A i, j \in DOMAIN history : history[i].req = history[j].req => i = j
    BY DEF LedgerInv, AccountInv
  <2> QED BY <2>3, <2>4, <2>5 DEF Recorded
<1> QED BY <1>1, LedgerInvariant, PTL

(* No store overwrites a result that the BSP has not recorded yet, with or *)
(* without cmpxchg.                                                        *)
THEOREM ResultIsKept == Spec => ResultsAreKept
<1>1. ASSUME IInv, LedgerInv, [Next]_vars, NEW s \in Slots, active[s],
             slotState[s] \in {"DONE", "BAD_OP", "SKIPPED", "FAULT"}
      PROVE  slotState'[s] = slotState[s]
  <2>1. CASE ApNext
    <3>1. ~(apPc = "faultStore" /\ s = currentSlot)
      BY <1>1, NoSlotIsNone DEF LedgerInv, StopInv, LifeInv, Over, IInv, HandOverInv
    <3> QED BY <1>1, <2>1, <3>1, ApWord DEF ApWrite, IInv
  <2>2. CASE BspStep
    <3>1. bspPc # "reset" /\ ~(bspPc \in PubPcs /\ s = bspI)
      BY <1>1 DEF LedgerInv, ActiveInv, NoActiveSlot
    <3>2. ~(bspPc = "stopStore" /\ s = bspI /\ (seen = "PENDING" \/ apState = "FAULTED"))
      BY <1>1 DEF LedgerInv, ActiveInv, StopInv
    <3> QED BY <1>1, <2>2, <3>1, <3>2, BspWord DEF BspWrite, IInv, PubPcs, PrepPcs
  <2>3. CASE UNCHANGED vars
    BY <2>3 DEF vars, apVars, slotVars
  <2> QED BY <1>1, <2>1, <2>2, <2>3 DEF Next, HaltForever
<1>2. IInv /\ LedgerInv /\ [Next]_vars =>
        [\A s \in Slots :
            active[s] /\ slotState[s] \in {"DONE", "BAD_OP", "SKIPPED", "FAULT"} =>
              slotState'[s] = slotState[s]]_vars
  BY <1>1
<1> QED BY <1>2, LedgerInvariant, PTL DEF Spec, ResultsAreKept

-----------------------------------------------------------------------------
(* The refinement: every step is a step of the ledger or stutters on it.   *)

(* An outcome is the state of the request's only entry.                    *)
LEMMA TheEntry ==
    ASSUME NEW hs, NEW i \in DOMAIN hs,
           \A j, k \in DOMAIN hs : hs[j].req = hs[k].req => j = k
    PROVE  (CHOOSE k \in DOMAIN hs : hs[k].req = hs[i].req) = i
OBVIOUS

(* Read off the history: the entry's state when there is one, else open.   *)
LEMMA OutcomeOf ==
    ASSUME AccountInv, PlanCount <= HistoryCount
    PROVE  /\ \A i \in DOMAIN history : Outcome(history[i].req) = history[i].state
           /\ \A r : ~Recorded(r) => Outcome(r) = "open"
<1>1. \A i, j \in DOMAIN history : history[i].req = history[j].req => i = j
  BY DEF AccountInv
<1>2. ASSUME NEW i \in DOMAIN history
      PROVE  Outcome(history[i].req) = history[i].state
  <2>1. (CHOOSE k \in DOMAIN history : history[k].req = history[i].req) = i
    BY <1>1, TheEntry
  <2> QED BY <2>1 DEF Outcome
<1> QED BY <1>2 DEF Outcome, Recorded

(* Recording a slot settles its request, which was open, and no other.     *)
LEMMA RecordSettles ==
    ASSUME PlanCount <= HistoryCount, IInv, LedgerInv, LedgerInv', BspStep, Records
    PROVE  /\ slotReq[bspI] \in 1 .. nextPlan
           /\ Outcome(slotReq[bspI]) = "open"
           /\ \A r : Outcome(r)' = IF r = slotReq[bspI] THEN slotState[bspI] ELSE Outcome(r)
<1>1. bspI \in Slots /\ active[bspI]
  BY ActiveEffect DEF Records, LedgerInv, ActiveInv
<1>2. slotReq[bspI] \in 1 .. nextPlan /\ ~Recorded(slotReq[bspI])
  BY <1>1 DEF LedgerInv, ActiveInv, AccountInv, ActiveSlots
<1>3. Outcome(slotReq[bspI]) = "open"
  BY <1>2 DEF Outcome, Recorded
<1>t. /\ completed \in Nat /\ nextPlan \in Nat /\ PlanCount \in Nat /\ nextPlan <= PlanCount
      /\ HistoryCount \in Nat /\ history \in Seq(HistoryEntry)
  BY EntryType, StreamAssumption DEF IInv, TypeOK, StreamAssumption
<1>4. completed < HistoryCount
  <2>1. bspI \in ActiveSlots
    BY <1>1 DEF ActiveSlots
  <2>2. Cardinality(ActiveSlots) \in Nat /\ Cardinality(ActiveSlots) # 0
    BY <2>1, ActiveFinite
  <2>3. completed + Cardinality(ActiveSlots) = nextPlan
    BY DEF LedgerInv, AccountInv
  <2> QED BY <1>t, <2>2, <2>3
<1>5. PICK base : history' = Append(history, Entry(bspI, base))
  BY <1>4, RecordEffect
<1>6. PICK e : e.req = slotReq[bspI] /\ e.state = slotState[bspI] /\ history' = Append(history, e)
  BY <1>5 DEF Entry
<1> DEFINE n == Len(history) + 1
<1>7. /\ n \in DOMAIN history' /\ history'[n] = e
      /\ \A i \in DOMAIN history : i \in DOMAIN history' /\ history'[i] = history[i]
      /\ \A i \in DOMAIN history' : i \in DOMAIN history \/ i = n
  BY <1>t, <1>6, AppendEffect
<1>8. /\ \A i, j \in DOMAIN history : history[i].req = history[j].req => i = j
      /\ \A i, j \in DOMAIN history' : history'[i].req = history'[j].req => i = j
  BY DEF LedgerInv, AccountInv
<1> HIDE DEF n
<1>9. ASSUME NEW i \in DOMAIN history', NEW r, r = history'[i].req
      PROVE  Outcome(r)' = history'[i].state
  <2>1. (CHOOSE k \in DOMAIN history' : history'[k].req = history'[i].req) = i
    BY <1>8, TheEntry
  <2> QED BY <1>9, <2>1 DEF Outcome
<1>10. ASSUME NEW r, r = slotReq[bspI] PROVE Outcome(r)' = slotState[bspI]
  BY <1>6, <1>7, <1>9, <1>10
<1>11. ASSUME NEW r, r # slotReq[bspI] PROVE Outcome(r)' = Outcome(r)
  <2>1. CASE Recorded(r)
    <3>1. PICK i \in DOMAIN history : history[i].req = r
      BY <2>1 DEF Recorded
    <3>2. Outcome(r) = history[i].state
      BY <3>1, OutcomeOf DEF LedgerInv
    <3>3. i \in DOMAIN history' /\ history'[i] = history[i]
      BY <1>7
    <3> QED BY <1>9, <3>1, <3>2, <3>3
  <2>2. CASE ~Recorded(r)
    <3>1. ~Recorded(r)'
      BY <1>6, <1>7, <1>11, <2>2 DEF Recorded
    <3> QED BY <2>2, <3>1 DEF Outcome, Recorded
  <2> QED BY <2>1, <2>2
<1> QED BY <1>2, <1>3, <1>10, <1>11

(* What a step of the BSP can do to the ledger: open the next request,     *)
(* settle one, close it, or nothing.                                       *)
OpensNext ==
    /\ bspPc \in PubPcs /\ bspPc' # "returned" /\ nextPlan < PlanCount
    /\ UNCHANGED <<history, result>>
    /\ Opened = nextPlan /\ Opened' = Opened + 1

SettlesOne ==
    /\ Records /\ bspPc' # "returned" /\ result' = result
    /\ Opened = nextPlan /\ Opened' = Opened

Stutters ==
    /\ UNCHANGED <<history, result>> /\ Opened' = Opened
    /\ (bspPc' = "returned") = (bspPc = "returned")

(* A step of the BSP does one of these.                                    *)
LEMMA BspOnLedger ==
    ASSUME PlanCount <= HistoryCount, IInv, LedgerInv, BspStep
    PROVE  OpensNext \/ SettlesOne \/ EarlyReturn \/ Return \/ Stutters
<1>n. nextPlan \in Nat /\ nextPlan + 0 = nextPlan /\ (nextPlan + 1) + 0 = nextPlan + 1
  BY EntryType DEF IInv
<1>p. bspPc \in PubPcs => nextPlan < PlanCount
  BY DEF IInv, IndexInv
<1>h. bspPc = "reset" => history = <<>>
  <2> SUFFICES ASSUME bspPc = "reset" PROVE history = <<>>
    OBVIOUS
  <2>1. /\ nextPlan = 0 /\ completed \in Nat /\ history \in Seq(HistoryEntry)
        /\ completed = Len(history) /\ completed + Cardinality(ActiveSlots) = nextPlan
    BY DEF IInv, IndexInv, TypeOK, LedgerInv, AccountInv
  <2>2. Len(history) = 0
    BY <2>1, ActiveFinite
  <2> QED BY <2>1, <2>2
<1> USE <1>n DEF Opened, bspVars
<1>1. CASE ResetStream
  BY <1>1, <1>h DEF ResetStream, Stutters
<1>2. CASE BeginPublish \/ PubReset \/ PubPrepare \/ PubNotFaulted \/ PubNotHalted \/ TakeIpi
  BY <1>2 DEF BeginPublish, PubReset, PubPrepare, PubNotFaulted, PubNotHalted, TakeIpi, Stutters
<1>3. CASE PubFaulted \/ PubSkipped
  <2>1. bspPc \in PubPcs /\ bspPc # "pubKick" /\ Published
    BY <1>3 DEF PubFaulted, PubSkipped, PubPcs, PrepPcs
  <2>2. bspPc' \in {"top", "pubReset", "check"} /\ UNCHANGED <<history, result>>
    BY <2>1 DEF Published
  <2>3. nextPlan' = nextPlan + 1
    BY <2>1 DEF Published
  <2> QED BY <1>p, <2>1, <2>2, <2>3 DEF OpensNext
<1>4. CASE PubStore
  BY <1>4, <1>p DEF PubStore, OpensNext, PubPcs, PrepPcs
<1>5. CASE PubKick
  <2>1. bspPc = "pubKick" /\ Published
    BY <1>5 DEF PubKick
  <2>2. bspPc' \in {"top", "pubReset", "check"} /\ UNCHANGED <<history, result>>
    BY <2>1 DEF Published
  <2>3. nextPlan' = nextPlan + 1
    BY <2>1 DEF Published
  <2> QED BY <2>1, <2>2, <2>3 DEF Stutters
<1>6. CASE StopRead \/ StopStore \/ StopReturn \/ LoopTop \/ Check \/ ScanEnd
  <2>1. bspPc = "stop" => backTo \in {"check", "decide"}
    BY DEF IInv, IndexInv, TypeOK
  <2> QED BY <1>6, <2>1 DEF StopRead, StopStore, StopReturn, LoopTop, Check, ScanEnd, Stutters
<1>7. CASE Decide \/ Refill \/ WakeByIpi \/ WakeByTimer \/ Drain
  BY <1>7 DEF Decide, Refill, WakeByIpi, WakeByTimer, Drain, Stutters
<1>8. CASE ExpirePending \/ ExpireRunning
  BY <1>8 DEF ExpirePending, ExpireRunning, Stutters
<1>9. CASE Finish \/ ExpireFinish
  <2>1. /\ bspPc \in {"finish", "expireFinish"} /\ bspPc' \in {"refill", "check", "expire"}
        /\ nextPlan' = nextPlan /\ result' = result
        /\ Records \/ history' = history
    BY <1>9 DEF Finish, ExpireFinish, Records, slotVars
  <2> QED BY <2>1 DEF SettlesOne, Stutters
<1> QED BY <1>1, <1>2, <1>3, <1>4, <1>5, <1>6, <1>7, <1>8, <1>9 DEF BspStep

(* Opening: nothing has failed, or the stream would be stopped.            *)
LEMMA OpenSimulates ==
    ASSUME PlanCount <= HistoryCount, IInv, LedgerInv, BspStep, OpensNext
    PROVE  Ledger!Open
<1>1. \A r \in 1 .. PlanCount : Outcome(r) \in {"open", "DONE"}
  <2> SUFFICES ASSUME NEW r \in 1 .. PlanCount, Recorded(r) PROVE Outcome(r) = "DONE"
    BY OutcomeOf DEF LedgerInv
  <2>1. PICK i \in DOMAIN history : history[i].req = r
    BY DEF Recorded
  <2>2. Outcome(r) = history[i].state
    BY <2>1, OutcomeOf DEF LedgerInv
  <2>3. bspPc \in PubPcs /\ ~stopped
    BY DEF OpensNext, LedgerInv, StopInv
  <2>4. history[i].state = "DONE"
    BY <2>1, <2>3 DEF LedgerInv, HistoryInv, EntryInv, ExpirePcs, PubPcs, PrepPcs
  <2> QED BY <2>2, <2>4
<1>2. bspPc # "returned" /\ Opened < PlanCount
  BY DEF OpensNext, PubPcs, PrepPcs
<1>3. Served' = Served
  BY BspFrame DEF Served
<1>4. [r \in 1 .. PlanCount |-> Outcome(r)]' = [r \in 1 .. PlanCount |-> Outcome(r)]
  BY DEF OpensNext, Outcome
<1>5. Opened' = Opened + 1 /\ result' = result /\ bspPc' # "returned"
  BY DEF OpensNext
<1> QED BY <1>1, <1>2, <1>3, <1>4, <1>5 DEF Ledger!Open, Ledger!Requests

(* Settling: the state word of the slot tells the truth.                   *)
LEMMA SettleSimulates ==
    ASSUME PlanCount <= HistoryCount, IInv, LedgerInv, LedgerInv', BspStep, SettlesOne
    PROVE  \E r \in 1 .. PlanCount : \E st \in Ledger!Outcomes : Ledger!Settle(r, st)
<1> DEFINE q == slotReq[bspI]
           st == slotState[bspI]
<1>1. Records /\ bspI \in Slots /\ ap_request_state_finished(st)
  BY ActiveEffect DEF SettlesOne, Records
<1>2. /\ q \in 1 .. nextPlan /\ Outcome(q) = "open"
      /\ \A r : Outcome(r)' = IF r = q THEN st ELSE Outcome(r)
  BY <1>1, RecordSettles
<1>3. q \in 1 .. PlanCount /\ q <= Opened
  BY <1>2, EntryType DEF SettlesOne, IInv
<1>4. st \in Ledger!Outcomes
  BY <1>1 DEF ap_request_state_finished, ap_request_state_terminal, Ledger!Outcomes
<1>5. execs \in [Reqs -> Nat] /\ q \in Reqs
  BY <1>3, EntryType DEF IInv, TypeOK, ApTypeOK
<1>6. st = "DONE" => q \in Served
  BY <1>1, <1>3, <1>5 DEF LedgerInv, SlotsAreTrue, Answered, Served
<1>7. st \in {"BAD_OP", "SKIPPED"} => q \notin Served
  BY <1>1, <1>3, <1>5 DEF LedgerInv, SlotsAreTrue, Served
<1>8. /\ Served' = Served /\ Opened' = Opened /\ result' = result
      /\ bspPc # "returned" /\ bspPc' # "returned"
  BY BspFrame DEF Served, SettlesOne, Records
<1> HIDE DEF q, st
<1>9. [r \in 1 .. PlanCount |-> Outcome(r)]' =
        [[r \in 1 .. PlanCount |-> Outcome(r)] EXCEPT ![q] = st]
  BY <1>2, <1>3
<1>10. Ledger!Settle(q, st)
  BY <1>2, <1>3, <1>6, <1>7, <1>8, <1>9 DEF Ledger!Settle
<1> QED BY <1>3, <1>4, <1>10

(* Closing: the epilogue leaves no slot active, and the plan counts as     *)
(* served only when every entry is DONE.                                   *)
LEMMA CloseSimulates ==
    ASSUME PlanCount <= HistoryCount, IInv, LedgerInv, BspStep, EarlyReturn \/ Return
    PROVE  Ledger!Close
<1>t. /\ nextPlan \in Nat /\ completed \in Nat /\ PlanCount \in Nat
      /\ 1 .. nextPlan \subseteq 1 .. PlanCount
  BY EntryType DEF IInv, TypeOK
<1>1. /\ bspPc # "returned" /\ bspPc' = "returned" /\ Opened = nextPlan /\ Opened' = Opened
      /\ history' = history
  BY <1>t DEF EarlyReturn, Return, Opened
<1>2. ActiveSlots = {}
  <2>1. CASE EarlyReturn
    BY <2>1 DEF EarlyReturn, LedgerInv, ActiveInv, NoActiveSlot, ActiveSlots
  <2>2. CASE Return
    <3>1. \A s \in Slots : s < SlotCount
      BY SlotCountAssumption DEF SlotCountAssumption, Slots
    <3> QED BY <2>2, <3>1 DEF Return, LedgerInv, ActiveInv, ExpirePcs, ActiveSlots
  <2> QED BY <2>1, <2>2
<1>3. \A r \in 1 .. nextPlan : Recorded(r)
  BY <1>2 DEF LedgerInv, AccountInv
<1>4. ASSUME NEW r \in 1 .. PlanCount, Recorded(r)
      PROVE  /\ Outcome(r) # "open"
             /\ ap_request_all_done => Outcome(r) = "DONE"
  <2>1. PICK i \in DOMAIN history : history[i].req = r
    BY <1>4 DEF Recorded
  <2>2. Outcome(r) = history[i].state
    BY <2>1, OutcomeOf DEF LedgerInv
  <2>3. EntryInv(history[i]) /\ history[i].slot - 1 \in Slots
    BY EntryType DEF LedgerInv, HistoryInv, IInv
  <2>4. history[i].state # "open"
    BY <2>3 DEF EntryInv, ap_request_state_finished, ap_request_state_terminal
  <2>5. ap_request_all_done => history[i].state = "DONE"
    BY <2>3 DEF EntryInv, ap_request_all_done
  <2> QED BY <2>2, <2>4, <2>5
<1>5. \A r \in 1 .. Opened : Outcome(r) # "open"
  BY <1>1, <1>t, <1>3, <1>4
<1>6. completed = nextPlan
  <2>1. Cardinality(ActiveSlots) = 0
    BY <1>2, FS_EmptySet
  <2> QED BY <1>t, <2>1 DEF LedgerInv, AccountInv
<1>7. completed = PlanCount /\ ap_request_all_done => \A r \in 1 .. PlanCount : Outcome(r) = "DONE"
  BY <1>3, <1>4, <1>6
<1>8. result' \in {FALSE, \A r \in 1 .. PlanCount : Outcome(r) = "DONE"}
  <2>1. result' = FALSE \/ result' = (completed = PlanCount /\ ap_request_all_done)
    BY DEF EarlyReturn, Return
  <2> QED BY <1>7, <2>1
<1>9. Served' = Served
  BY BspFrame DEF Served
<1>10. [r \in 1 .. PlanCount |-> Outcome(r)]' = [r \in 1 .. PlanCount |-> Outcome(r)]
  BY <1>1 DEF Outcome
<1>11. /\ \A r \in 1 .. Opened : [q \in 1 .. PlanCount |-> Outcome(q)][r] # "open"
       /\ (\A r \in 1 .. PlanCount : [q \in 1 .. PlanCount |-> Outcome(q)][r] = "DONE")
            = (\A r \in 1 .. PlanCount : Outcome(r) = "DONE")
  BY <1>1, <1>t, <1>5
<1> QED BY <1>1, <1>8, <1>9, <1>10, <1>11 DEF Ledger!Close, Ledger!Requests

(* Serving: the handler that runs is that of an opened request, which is   *)
(* open or was given up on.                                                *)
LEMMA ServeSimulates ==
    ASSUME PlanCount <= HistoryCount, IInv, SettledInv, LedgerInv, ApNext, execs' # execs
    PROVE  \E r \in 1 .. PlanCount : Ledger!Serve(r)
<1> DEFINE q == slotReq[apI]
<1>1. /\ apPc = "dispatch" /\ apI \in Slots /\ q \in Reqs
      /\ execs[q] = 0 /\ execs'[q] = 1
      /\ \A r \in Reqs : r # q => execs'[r] = execs[r]
  BY ApExecs
<1>t. /\ nextPlan \in Nat /\ PlanCount \in Nat /\ nextPlan <= PlanCount
      /\ 1 .. PlanCount \subseteq Reqs /\ execs \in [Reqs -> Nat]
  BY EntryType DEF IInv, TypeOK, ApTypeOK
<1>2. q \in 1 .. PlanCount /\ q <= Opened
  <2>0. q \in Nat \ {0}
    BY <1>1, PlanAssumption DEF Reqs, PlanAssumption
  <2>1. CASE q <= nextPlan
    BY <2>0, <2>1, <1>t DEF Opened
  <2>2. CASE bspPc \in PreparedPcs /\ apI = bspI
    <3>1. bspPc = "pubKick"
      BY <1>1, <2>2 DEF IInv, HandOverInv, WorkPcs, PrepPcs, PreparedPcs
    <3>2. q = nextPlan + 1 /\ nextPlan < PlanCount
      BY <2>2, <3>1 DEF IInv, RequestInv, IndexInv, PubPcs
    <3> QED BY <2>0, <1>t, <3>1, <3>2 DEF Opened
  <2>3. bspPc # "reset"
    BY <1>1 DEF SettledInv, ServePcs, WorkPcs
  <2> QED BY <1>1, <2>1, <2>2, <2>3 DEF IInv, UnservedInv
<1>3. Outcome(q) \in {"open", "TIMEOUT"}
  <2> SUFFICES ASSUME Recorded(q) PROVE Outcome(q) = "TIMEOUT"
    BY OutcomeOf DEF LedgerInv
  <2>1. PICK i \in DOMAIN history : history[i].req = q
    BY DEF Recorded
  <2>2. Outcome(q) = history[i].state
    BY <2>1, OutcomeOf DEF LedgerInv
  <2>3. ~Over
    BY <1>1, OverIsIdle DEF IInv, LedgerInv, LifeInv, SlotPcs, WorkPcs
  <2>4. EntryInv(history[i])
    BY DEF LedgerInv, HistoryInv
  <2>5. history[i].state = "TIMEOUT"
    BY <1>1, <2>1, <2>3, <2>4 DEF EntryInv, Answered, ap_request_state_finished,
       ap_request_state_terminal
  <2> QED BY <2>2, <2>5
<1> HIDE DEF q
<1>4. q \notin Served /\ Served' = Served \cup {q}
  <2>1. \A r \in 1 .. PlanCount : execs'[r] > 0 <=> execs[r] > 0 \/ r = q
    BY <1>1, <1>t
  <2> QED BY <1>1, <1>2, <2>1 DEF Served
<1>5. /\ Opened' = Opened /\ bspPc' = bspPc /\ result' = result
      /\ [r \in 1 .. PlanCount |-> Outcome(r)]' = [r \in 1 .. PlanCount |-> Outcome(r)]
  BY ApFrame DEF bspVars, Opened, Outcome
<1>6. Ledger!Serve(q)
  BY <1>2, <1>3, <1>4, <1>5 DEF Ledger!Serve
<1> QED BY <1>2, <1>6

(* When the history array is as long as the plan, run_ap_request_stream    *)
(* implements the ledger: whatever interleaving of the two CPUs, of        *)
(* timeouts and of faults, its caller sees the plan opened in order, each  *)
(* handler run at most once, each opened request settled once and          *)
(* truthfully, and success only for a plan that was served.                *)
THEOREM StreamImplementsLedger ==
    ASSUME PlanCount <= HistoryCount
    PROVE  Spec => ImplementsLedger
<1>1. Init => Ledger!Init
  <2> SUFFICES ASSUME Init PROVE Ledger!Init
    OBVIOUS
  <2>1. /\ bspPc = "reset" /\ nextPlan = 0 /\ history = <<>> /\ result = FALSE
        /\ execs = [r \in Reqs |-> 0]
    BY DEF Init, ApInit
  <2>2. Opened = 0
    BY <2>1 DEF Opened
  <2>3. Served = {}
    BY <2>1, PlanAssumption DEF Served, Reqs, PlanAssumption
  <2>4. \A r : Outcome(r) = "open"
    BY <2>1 DEF Outcome
  <2> QED BY <2>1, <2>2, <2>3, <2>4 DEF Ledger!Init, Ledger!Requests
<1>2. (IInv /\ SettledInv /\ LedgerInv) /\ (IInv /\ SettledInv /\ LedgerInv)' /\ [Next]_vars
      => [Ledger!Next]_Ledger!ledger
  <2> SUFFICES ASSUME IInv, SettledInv, LedgerInv, LedgerInv', [Next]_vars
               PROVE  Ledger!Next \/ UNCHANGED Ledger!ledger
    OBVIOUS
  <2>1. ASSUME UNCHANGED <<execs, history, result>>, Opened' = Opened,
               (bspPc' = "returned") = (bspPc = "returned")
        PROVE  UNCHANGED Ledger!ledger
    BY <2>1 DEF Ledger!ledger, Served, Outcome
  <2>2. CASE ApNext
    <3>1. CASE execs' # execs
      BY <2>2, <3>1, ServeSimulates DEF Ledger!Next, Ledger!Requests
    <3>2. CASE execs' = execs
      <4>1. UNCHANGED <<history, result, bspPc>> /\ Opened' = Opened
        BY <2>2, ApFrame DEF bspVars, Opened
      <4> QED BY <2>1, <3>2, <4>1
    <3> QED BY <3>1, <3>2
  <2>3. CASE BspStep
    <3>1. CASE OpensNext
      BY <2>3, <3>1, OpenSimulates DEF Ledger!Next
    <3>2. CASE SettlesOne
      BY <2>3, <3>2, SettleSimulates DEF Ledger!Next, Ledger!Requests
    <3>3. CASE EarlyReturn \/ Return
      BY <2>3, <3>3, CloseSimulates DEF Ledger!Next
    <3>4. CASE Stutters
      BY <2>1, <2>3, <3>4, BspFrame DEF Stutters
    <3> QED BY <2>3, <3>1, <3>2, <3>3, <3>4, BspOnLedger
  <2>4. CASE UNCHANGED vars
    <3>1. UNCHANGED <<execs, history, result, bspPc>> /\ Opened' = Opened
      BY <2>4 DEF vars, apVars, bspVars, Opened
    <3> QED BY <2>1, <3>1
  <2> QED BY <2>2, <2>3, <2>4 DEF Next, HaltForever
<1> QED BY <1>1, <1>2, LedgerInvariant, PTL DEF Spec, ImplementsLedger, Ledger!Spec

-----------------------------------------------------------------------------
(* The fault codes.                                                        *)

(* How the AP goes through ap_fault_dispatch.                              *)
LEMMA FaultMoves ==
    ASSUME TypeOK, ApNext
    PROVE  /\ apPc \in MarkedPcs => apPc' \in MarkedPcs /\ UNCHANGED <<fault, currentSlot>>
           /\ apPc \in MarkingPcs => /\ apPc' \in MarkingPcs \cup {"faultMark"}
                                     /\ UNCHANGED <<fault, currentSlot, slotReply>>
           /\ apPc = "faultReport" =>
                 /\ apPc' \in {"faultPending", "faultMark"}
                 /\ fault'.vector = fault.vector /\ fault'.state = fault.state
                 /\ UNCHANGED <<slotState, currentSlot>>
                 /\ HasSlot /\ fault.state = "RUNNING" =>
                       slotReply'[currentSlot].fault = fault.vector
           /\ apPc' \in MarkingPcs => apPc \in MarkingPcs \cup {"faultReport"}
           /\ apPc' = "faultReport" =>
                 /\ UNCHANGED <<slotState, currentSlot>>
                 /\ HasSlot => fault'.state = slotState[currentSlot]
<1>t. slotReply \in [Slots -> Reply] /\ fault \in FaultInfo
  BY DEF TypeOK, ApTypeOK
<1> USE <1>t DEF ApNext, MarkedPcs, MarkingPcs, slotVars, bootVars, HasSlot
<1>1. CASE Claim \/ Skip \/ SweepAgain \/ Idle \/ Wake
  BY <1>1 DEF Claim, Skip, SweepAgain, Idle, Wake
<1>2. CASE Start \/ Handle \/ Hang \/ note_ap_request_handled
  BY <1>2 DEF Start, Handle, Hang, note_ap_request_handled
<1>3. CASE CompleteDone \/ NoteDone \/ NotifyDone
  BY <1>3 DEF CompleteDone, NoteDone, NotifyDone
<1>4. CASE Miss \/ MissNote \/ MissComplete \/ MissNotify
  BY <1>4 DEF Miss, MissNote, MissComplete, MissNotify
<1>5. CASE FaultInHandler \/ ApFault
  BY <1>5 DEF FaultInHandler, ApFault, Fault, EnterFault, FaultablePcs, FaultInfo
<1>6. CASE FaultReport
  <2>1. /\ apPc = "faultReport" /\ apPc' \in {"faultPending", "faultMark"}
        /\ UNCHANGED <<slotState, currentSlot>>
    BY <1>6 DEF FaultReport
  <2>2. fault'.vector = fault.vector /\ fault'.state = fault.state
    BY <1>6 DEF FaultReport, FaultInfo
  <2>3. HasSlot /\ fault.state = "RUNNING" => slotReply'[currentSlot].fault = fault.vector
    <3> SUFFICES ASSUME HasSlot, fault.state = "RUNNING"
                 PROVE  slotReply'[currentSlot].fault = fault.vector
      OBVIOUS
    <3> DEFINE old == slotReply[currentSlot]
               new == [old EXCEPT !.id = slotReq[currentSlot], !.fault = fault.vector]
    <3>1. slotReply' = [slotReply EXCEPT ![currentSlot] = new]
      BY <1>6 DEF FaultReport
    <3>2. slotReply'[currentSlot] = new
      BY <3>1
    <3>3. old \in Reply
      OBVIOUS
    <3>4. new.fault = fault.vector
      BY <3>3 DEF Reply
    <3> QED BY <3>2, <3>4
  <2> QED BY <2>1, <2>2, <2>3
<1>7. CASE FaultPending \/ FaultRunning \/ FaultEmpty
  BY <1>7 DEF FaultPending, FaultRunning, FaultCas, FaultEmpty
<1>8. CASE FaultStore \/ FaultMark \/ FaultNotify
  BY <1>8 DEF FaultStore, FaultMark, FaultNotify
<1> QED
  BY <1>1, <1>2, <1>3, <1>4, <1>5, <1>6, <1>7, <1>8 DEF ApStep

(* A step of the AP keeps the fault codes ...                              *)
LEMMA ApKeepsFault ==
    ASSUME IInv, FaultInv, ApNext
    PROVE  FaultInv'
<1>u. UNCHANGED <<bspPc, bspI, history>>
  BY ApFrame DEF bspVars
<1>t. TypeOK /\ IndexInv
  BY DEF IInv
<1>w. \A s \in Slots : slotState'[s] = slotState[s] \/ ApWrite(s, slotState[s], slotState'[s])
  BY <1>t, ApWord
<1>m. apPc \in MarkedPcs => /\ apPc' \in MarkedPcs /\ UNCHANGED <<fault, currentSlot>>
                            /\ \A s \in Slots : slotReply'[s] = slotReply[s]
  BY <1>t, FaultMoves, ApReply DEF MarkedPcs
<1>p. apPc \in MarkedPcs => (PlainFault' <=> PlainFault)
  BY <1>m DEF PlainFault
(* A slot that turns FAULT was RUNNING when the exception hit.             *)
<1>1. ASSUME NEW s \in Slots, slotState'[s] = "FAULT", slotState[s] # "FAULT"
      PROVE  /\ apPc \in MarkingPcs /\ apPc' = "faultMark" /\ s = currentSlot
             /\ UNCHANGED <<fault, currentSlot, slotReply>>
  <2>1. ApWrite(s, slotState[s], slotState'[s])
    BY <1>1, <1>w
  <2>2. apPc \in MarkingPcs /\ apPc' = "faultMark" /\ s = currentSlot
    BY <1>1, <2>1 DEF ApWrite, MarkingPcs
  <2> QED BY <1>t, <2>2, FaultMoves
<1>2. ASSUME NEW s \in Slots, slotState'[s] = "FAULT", slotState[s] # "FAULT", PlainFault'
      PROVE  /\ slotState[s] \in {"RUNNING", "TIMEOUT"}
             /\ slotReply'[s].fault = fault'.vector
  <2>1. /\ apPc \in MarkingPcs /\ s = currentSlot
        /\ UNCHANGED <<fault, currentSlot, slotReply>>
    BY <1>1, <1>2
  <2>2. HasSlot /\ fault.state = "RUNNING"
    BY <1>2, <2>1, NoSlotIsNone DEF PlainFault, HasSlot
  <2> QED BY <2>1, <2>2 DEF FaultInv
<1>3. \A s \in Slots : slotState'[s] = "FAULT" => apPc' \in MarkedPcs
  <2> SUFFICES ASSUME NEW s \in Slots, slotState'[s] = "FAULT" PROVE apPc' \in MarkedPcs
    OBVIOUS
  <2>1. CASE slotState[s] = "FAULT"
    BY <1>m, <2>1 DEF FaultInv
  <2>2. CASE slotState[s] # "FAULT"
    BY <1>1, <2>2 DEF MarkedPcs
  <2> QED BY <2>1, <2>2
<1>4. \A i \in DOMAIN history' : history'[i].state = "FAULT" => apPc' \in MarkedPcs
  BY <1>u, <1>m DEF FaultInv
<1>5. ASSUME apPc' \in MarkingPcs \cup {"faultReport"}, HasSlot', fault'.state = "RUNNING"
      PROVE  /\ slotState'[currentSlot'] \in {"RUNNING", "TIMEOUT"}
             /\ apPc' \in MarkingPcs => slotReply'[currentSlot'].fault = fault'.vector
  <2>1. CASE apPc' = "faultReport"
    <3>1. UNCHANGED <<slotState, currentSlot>> /\ (HasSlot => fault'.state = slotState[currentSlot])
      BY <1>t, <2>1, FaultMoves
    <3>2. HasSlot
      BY <1>5, <3>1 DEF HasSlot
    <3> QED BY <1>5, <2>1, <3>1, <3>2 DEF MarkingPcs
  <2>2. CASE apPc' \in MarkingPcs /\ apPc = "faultReport"
    <3>1. /\ UNCHANGED <<slotState, currentSlot>> /\ fault'.vector = fault.vector
          /\ fault'.state = fault.state
          /\ HasSlot /\ fault.state = "RUNNING" => slotReply'[currentSlot].fault = fault.vector
      BY <1>t, <2>2, FaultMoves
    <3>2. HasSlot /\ fault.state = "RUNNING"
      BY <1>5, <3>1 DEF HasSlot
    <3> QED BY <2>2, <3>1, <3>2 DEF FaultInv
  <2>3. CASE apPc' \in MarkingPcs /\ apPc \in MarkingPcs
    <3>1. UNCHANGED <<fault, currentSlot, slotReply>>
      BY <1>t, <2>3, FaultMoves
    <3>2. HasSlot /\ fault.state = "RUNNING" /\ currentSlot \in Slots
      BY <1>5, <3>1 DEF HasSlot
    <3>3. slotState'[currentSlot] = slotState[currentSlot]
      BY <1>w, <2>3, <3>2 DEF ApWrite, MarkingPcs
    <3> QED BY <2>3, <3>1, <3>2, <3>3 DEF FaultInv
  <2> QED BY <1>5, <1>t, <2>1, <2>2, <2>3, FaultMoves
<1>6. ASSUME PlainFault', bspPc \in PrepPcs PROVE slotState'[bspI] # "FAULT"
  <2>1. bspI \in Slots /\ slotState[bspI] \in {"DONE", "EMPTY", "FAULT"}
    BY <1>6 DEF IInv, IndexInv, HandOverInv, PubPcs
  <2>2. slotState[bspI] # "FAULT"
    BY <1>6, <1>p, <2>1 DEF FaultInv
  <2> QED BY <1>2, <1>6, <2>1, <2>2
<1>7. ASSUME PlainFault', NEW s \in Slots, slotState'[s] = "FAULT"
      PROVE  slotReply'[s].fault = fault'.vector
  <2>1. CASE slotState[s] = "FAULT"
    BY <1>7, <1>m, <1>p, <2>1 DEF FaultInv
  <2>2. CASE slotState[s] # "FAULT"
    BY <1>2, <1>7, <2>2
  <2> QED BY <2>1, <2>2
<1>8. PlainFault' => FaultCarriesVector'
  BY <1>u, <1>m, <1>p DEF FaultInv, FaultCarriesVector, PlainFault
<1> QED BY <1>u, <1>3, <1>4, <1>5, <1>6, <1>7, <1>8 DEF FaultInv

(* The BSP stores FAULT together with the vector.                          *)
LEMMA BspFaultCode ==
    ASSUME TypeOK, IndexInv, BspStep, NEW s \in Slots,
           slotState'[s] = "FAULT", slotState[s] # "FAULT"
    PROVE  slotReply'[s].fault = fault.vector /\ apState = "FAULTED"
<1>t. slotReply \in [Slots -> Reply] /\ slotState \in [Slots -> Status]
  BY DEF TypeOK, ApTypeOK
<1>1. BspWrite(s, slotState[s], slotState'[s])
  BY BspWord
<1>2. s = bspI /\ bspPc \in {"pubFaulted", "stopStore"} /\ apState = "FAULTED"
  BY <1>1 DEF BspWrite
<1>3. PubFaulted \/ PubNotFaulted \/ StopStore \/ TakeIpi
  BY <1>2 DEF BspStep, ResetStream, EarlyReturn, BeginPublish, PubReset, PubPrepare,
     PubSkipped, PubNotHalted, PubStore, PubKick, StopRead, StopReturn, LoopTop, Check,
     Finish, Refill, ScanEnd, Decide, WakeByIpi, WakeByTimer, Drain, ExpirePending,
     ExpireRunning, ExpireFinish, Return
<1>4. slotReply' = [slotReply EXCEPT ![s].fault = fault.vector]
  BY <1>2, <1>3, <1>t DEF PubFaulted, PubNotFaulted, StopStore, TakeIpi, slotVars
<1>5. slotReply[s] \in Reply
  BY <1>t
<1> QED BY <1>2, <1>4, <1>5, <1>t DEF Reply

(* How the BSP comes to prepare a slot.                                    *)
LEMMA PrepMoves ==
    ASSUME TypeOK, BspStep, bspPc' \in PrepPcs
    PROVE  bspPc' = "pubReset" \/ (bspPc \in PrepPcs /\ bspI' = bspI)
BY DEF PrepPcs, BspStep, ResetStream, EarlyReturn, BeginPublish, PubReset,
     PubPrepare, PubFaulted, PubNotFaulted, PubSkipped, PubNotHalted, PubStore, PubKick,
     Published, TakeIpi, StopRead, StopStore, StopReturn, LoopTop, Check, Finish, Refill,
     ScanEnd, Decide, WakeByIpi, WakeByTimer, Drain, ExpirePending, ExpireRunning,
     ExpireFinish, Return, bspVars, TypeOK

(* ... and so does a step of the BSP.                                      *)
LEMMA BspKeepsFault ==
    ASSUME IInv, SettledInv, IInv', LedgerInv, FaultInv, BspStep
    PROVE  FaultInv'
<1>u. UNCHANGED <<apPc, apState, currentSlot, fault>> /\ PlainFault' = PlainFault
      /\ HasSlot' = HasSlot
  BY BspFrame DEF PlainFault, HasSlot
<1>t. TypeOK /\ IndexInv
  BY DEF IInv
<1>l. apState = "FAULTED" => apPc \in {"faultNotify", "dead"}
  BY DEF LedgerInv, LifeInv
<1>r. bspPc = "reset" => \A s \in Slots : slotState'[s] = "EMPTY"
  BY ResetEmpties
<1>s. bspPc = "reset" => /\ \A s \in Slots : slotState[s] \notin {"RUNNING", "TIMEOUT"}
                         /\ apPc \notin ServePcs
  BY DEF SettledInv
<1>1. \A s \in Slots : slotState'[s] = "FAULT" => apPc \in MarkedPcs
  BY <1>t, <1>l, BspFaultCode DEF FaultInv, MarkedPcs
<1>2. ASSUME NEW s \in Slots, PlainFault, slotState'[s] = "FAULT"
      PROVE  slotReply'[s].fault = fault.vector
  <2>1. CASE slotState[s] # "FAULT"
    BY <1>2, <1>t, <2>1, BspFaultCode
  <2>2. CASE slotState[s] = "FAULT"
    <3>1. slotReply'[s] = slotReply[s]
      BY <1>2, <1>r, <1>t, <2>2, BspReply
         DEF FaultInv, LedgerInv, ActiveInv, RewritePcs, PrepPcs
    <3> QED BY <1>2, <2>2, <3>1 DEF FaultInv
  <2> QED BY <2>1, <2>2
<1>3. ASSUME PlainFault, bspPc' \in PrepPcs
      PROVE  slotState'[bspI'] # "FAULT"
  <2>1. CASE bspPc' = "pubReset"
    <3>1. PlainFault'
      BY <1>3, <1>u
    <3>2. Untouched(bspI)' \/ slotState'[bspI'] = "DONE"
      BY <2>1 DEF IInv, FirstRoundInv, HandOverInv, PubPcs, PrepPcs
    <3>3. Untouched(bspI)' => slotState'[bspI'] = "EMPTY"
      BY <3>1, NoSlotIsNone DEF Untouched, PlainFault
    <3> QED BY <3>2, <3>3
  <2>2. CASE bspPc \in PrepPcs /\ bspPc' \in PrepPcs /\ bspI' = bspI
    <3>1. bspI \in Slots /\ slotState[bspI] # "FAULT"
      BY <1>3, <2>2, <1>t DEF FaultInv, IndexInv, PubPcs
    <3>2. slotState'[bspI] # "FAULT" \/ (apState = "FAULTED" /\ bspPc = "pubFaulted")
      BY <1>t, <2>2, <3>1, BspWord DEF BspWrite, PrepPcs
    <3>3. CASE apState = "FAULTED" /\ bspPc = "pubFaulted" /\ slotState'[bspI] = "FAULT"
      <4>1. PubFaulted \/ TakeIpi
        BY <3>3 DEF BspStep, ResetStream, EarlyReturn, BeginPublish, PubReset, PubPrepare,
           PubNotFaulted, PubSkipped, PubNotHalted, PubStore, PubKick, StopRead, StopStore,
           StopReturn, LoopTop, Check, Finish, Refill, ScanEnd, Decide, WakeByIpi,
           WakeByTimer, Drain, ExpirePending, ExpireRunning, ExpireFinish, Return
      <4>2. CASE TakeIpi
        BY <3>1, <3>3, <4>2 DEF TakeIpi, slotVars
      <4>3. CASE PubFaulted
        <5>1. bspPc' = "pubReset" \/ bspPc' \notin PrepPcs
          BY <4>3 DEF PubFaulted, Published, PrepPcs
        <5> QED BY <2>1, <2>2, <5>1
      <4> QED BY <4>1, <4>2, <4>3
    <3> QED BY <2>2, <3>2, <3>3
  <2> QED BY <1>t, <1>3, <2>1, <2>2, PrepMoves
<1>4. ASSUME apPc \in MarkingPcs \cup {"faultReport"}, HasSlot, fault.state = "RUNNING"
      PROVE  /\ slotState'[currentSlot] \in {"RUNNING", "TIMEOUT"}
             /\ slotReply'[currentSlot] = slotReply[currentSlot]
  <2>1. /\ currentSlot \in Slots /\ slotState[currentSlot] \in {"RUNNING", "TIMEOUT"}
        /\ apState # "FAULTED"
    BY <1>4, <1>l DEF FaultInv, HasSlot, MarkingPcs
  <2>2. bspPc # "reset" /\ (bspPc \in PrepPcs => bspI # currentSlot)
    BY <1>s, <2>1 DEF IInv, HandOverInv
  <2>3. bspPc # "stopStore"
    <3>1. ~Over
      BY <1>4, <2>1 DEF Over, LedgerInv, LifeInv, MarkingPcs
    <3> QED BY <3>1 DEF LedgerInv, StopInv
  <2>4. slotState'[currentSlot] \in {"RUNNING", "TIMEOUT"}
    BY <1>t, <2>1, <2>2, <2>3, BspWord DEF BspWrite, PrepPcs
  <2>5. slotReply'[currentSlot] = slotReply[currentSlot]
    BY <1>t, <2>1, <2>2, <2>3, BspReply DEF RewritePcs, PrepPcs
  <2> QED BY <2>4, <2>5
<1>5. ASSUME NEW i \in DOMAIN history', history'[i].state = "FAULT"
      PROVE  /\ apPc \in MarkedPcs
             /\ PlainFault => history'[i].reply.fault = fault.vector
  <2>1. CASE i \in DOMAIN history /\ history'[i] = history[i]
    BY <1>5, <2>1 DEF FaultInv, FaultCarriesVector, PlainFault
  <2>2. ASSUME NEW base, Records, history'[i] = Entry(bspI, base)
        PROVE  /\ apPc \in MarkedPcs
               /\ PlainFault => history'[i].reply.fault = fault.vector
    <3>1. history'[i].state = slotState[bspI] /\ history'[i].reply = slotReply[bspI]
          /\ bspI \in Slots
      BY <2>2, RecordEffect DEF Entry
    <3> QED BY <1>5, <3>1 DEF FaultInv
  <2>3. CASE Records
    <3>1. PICK base : history' = IF completed < HistoryCount
                                 THEN Append(history, Entry(bspI, base)) ELSE history
      BY <2>3, RecordEffect
    <3>2. CASE history' = history
      BY <2>1, <3>2
    <3>3. CASE history' = Append(history, Entry(bspI, base))
      <4>1. \/ i \in DOMAIN history /\ history'[i] = history[i]
            \/ history'[i] = Entry(bspI, base)
        BY <3>3, AppendEffect DEF IInv, TypeOK
      <4>2. CASE i \in DOMAIN history /\ history'[i] = history[i]
        BY <2>1, <4>2
      <4>3. CASE history'[i] = Entry(bspI, base)
        BY <2>2, <2>3, <4>3
      <4> QED BY <4>1, <4>2, <4>3
    <3> QED BY <3>1, <3>2, <3>3
  <2>4. CASE ~Records
    <3>1. history' = history \/ history' = <<>>
      BY <2>4, BspEffect DEF Opens, Published, Resets, Idles
    <3> QED BY <1>5, <2>1, <3>1
  <2> QED BY <2>3, <2>4
<1> QED BY <1>u, <1>1, <1>2, <1>3, <1>4, <1>5 DEF FaultInv, FaultCarriesVector, PlainFault

(* No exception has happened initially.                                    *)
LEMMA FaultInit ==
    ASSUME Init
    PROVE  FaultInv
<1>1. /\ \A s \in Slots : slotState[s] = "EMPTY"
      /\ DOMAIN history = {} /\ apPc = "sweep" /\ bspPc = "reset"
  BY DEF Init, ApInit
<1> QED BY <1>1 DEF FaultInv, FaultCarriesVector, MarkingPcs, PrepPcs

(* A request that request_history shows as FAULT carries the vector of the *)
(* exception, whoever stored FAULT: ap_fault_dispatch, publish on a dead   *)
(* AP or stop_ap_request_stream.                                           *)
THEOREM FaultsAreExplained == Spec => []FaultCarriesVector
<1>1. Init => FaultInv
  BY FaultInit
<1>2. /\ FaultInv /\ (IInv /\ SettledInv /\ LedgerInv) /\ (IInv /\ SettledInv /\ LedgerInv)'
      /\ [Next]_vars
      => FaultInv'
  <2> SUFFICES ASSUME FaultInv, IInv, SettledInv, LedgerInv, IInv', [Next]_vars PROVE FaultInv'
    OBVIOUS
  <2>1. CASE UNCHANGED vars
    BY <2>1 DEF vars, apVars, slotVars, bootVars, bspVars, FaultInv, FaultCarriesVector,
       PlainFault, HasSlot
  <2> QED BY <2>1, ApKeepsFault, BspKeepsFault DEF Next, HaltForever
<1>3. FaultInv => FaultCarriesVector
  BY DEF FaultInv, FaultCarriesVector, PlainFault
<1> QED BY <1>1, <1>2, <1>3, LedgerInvariant, PTL DEF Spec

-----------------------------------------------------------------------------
(* The queue summary.                                                      *)

(* What the AP's loop does to the summary and the state words: a request   *)
(* is completed, then noted; nothing else counts as handled.               *)
LEMMA ApSummary ==
    ASSUME TypeOK, IndexInv, ApNext, apPc' \in LoopPcs
    PROVE  /\ apPc \in LoopPcs
           /\ \/ /\ apPc = "complete" /\ apPc' = "noteDone" /\ slotState[apI] = "RUNNING"
                 /\ slotState' = [slotState EXCEPT ![apI] = "DONE"] /\ queue' = queue
              \/ /\ apPc = "complete" /\ apPc' = "sweep" /\ slotState[apI] # "RUNNING"
                 /\ UNCHANGED <<slotState, queue>>
              \/ /\ apPc = "noteDone" /\ apPc' = "notify" /\ slotState' = slotState
                 /\ queue'.handled = queue.handled + 1
                 /\ ap_request_all_done => queue'.stop = "DRAINED"
              \/ /\ apPc # "noteDone" /\ apPc' # "noteDone" /\ queue'.handled = queue.handled
                 /\ \/ slotState' = slotState
                    \/ slotState[apI] = "PENDING" /\ slotState' = [slotState EXCEPT ![apI] = "RUNNING"]
                 /\ apPc' \in {"notify", "sweep", "hlt"} =>
                       apPc \in {"notify", "sweep", "hlt"} /\ queue' = queue
<1>t. queue \in QueueSummary /\ slotState \in [Slots -> Status]
  BY DEF TypeOK, ApTypeOK
<1> USE DEF ApNext, LoopPcs, FaultablePcs, slotVars, bootVars
<1>1. CASE Claim \/ Skip \/ SweepAgain \/ Idle \/ Wake
  BY <1>1 DEF Claim, Skip, SweepAgain, Idle, Wake
<1>2. CASE Start
  <2>1. queue'.handled = queue.handled
    BY <1>2, <1>t DEF Start, ap_queue_note_slot_start, QueueSummary
  <2> QED BY <1>2, <2>1 DEF Start
<1>3. CASE Handle \/ Hang \/ note_ap_request_handled
  BY <1>3 DEF Handle, Hang, note_ap_request_handled
<1>4. CASE CompleteDone
  BY <1>4 DEF CompleteDone
<1>5. CASE NoteDone
  <2>1. queue'.handled = queue.handled + 1
    BY <1>5, <1>t DEF NoteDone, ap_queue_note_slot_terminal, QueueSummary
  <2>2. ap_request_all_done => ap_queue_all_other_slots_done(apI)
    BY DEF ap_request_all_done, ap_queue_all_other_slots_done
  <2>3. ap_request_all_done => queue'.stop = "DRAINED"
    BY <1>5, <1>t, <2>2 DEF NoteDone, ap_queue_note_slot_terminal, QueueSummary
  <2> QED BY <1>5, <2>1, <2>3 DEF NoteDone
<1>6. CASE NotifyDone
  BY <1>6 DEF NotifyDone
<1>7. CASE Miss \/ MissNote \/ MissComplete \/ MissNotify
  BY <1>7 DEF Miss, MissNote, MissComplete, MissNotify
<1>8. CASE FaultInHandler \/ ApFault
  BY <1>8 DEF FaultInHandler, ApFault, Fault, EnterFault
<1>9. CASE FaultReport \/ FaultPending \/ FaultRunning \/ FaultEmpty
  BY <1>9 DEF FaultReport, FaultPending, FaultRunning, FaultCas, FaultEmpty
<1>10. CASE FaultStore \/ FaultMark \/ FaultNotify
  BY <1>10 DEF FaultStore, FaultMark, FaultNotify
<1> QED
  BY <1>1, <1>2, <1>3, <1>4, <1>5, <1>6, <1>7, <1>8, <1>9, <1>10 DEF ApStep

(* The results on their way are finitely many.                             *)
LEMMA UnrecordedFinite ==
    IsFiniteSet(Unrecorded) /\ Cardinality(Unrecorded) \in Nat
<1>1. IsFiniteSet(Slots)
  BY SlotCountAssumption, FS_Interval DEF SlotCountAssumption, Slots
<1>2. IsFiniteSet(Unrecorded)
  BY <1>1, FS_Subset DEF Unrecorded
<1> QED BY <1>2, FS_CardinalityType

(* A step of the AP keeps the two counts in step ...                       *)
LEMMA ApKeepsSummary ==
    ASSUME IInv, ActiveInv, NEW extra \in 0 .. 1, SummaryInv(extra), ApNext
    PROVE  SummaryInv(extra)'
<1>u. UNCHANGED <<bootOk, bspPc, bspI, active, completed, result>>
  BY ApFrame DEF bspVars
<1>t. /\ TypeOK /\ IndexInv /\ slotState \in [Slots -> Status] /\ queue.handled \in Nat
      /\ completed \in Nat
  BY DEF IInv, TypeOK, ApTypeOK, QueueSummary
<1>w. \A s \in Slots : slotState'[s] = slotState[s] \/ ApWrite(s, slotState[s], slotState'[s])
  BY <1>t, ApWord
<1>1. bspPc \in {"reset", "early"} => completed = 0
  BY DEF SummaryInv
<1>2. bspPc # "reset" => \A s \in Slots : slotState'[s] \in {"PENDING", "RUNNING"} =>
         active[s] \/ (bspPc = "pubKick" /\ s = bspI)
  BY <1>w DEF ApWrite, SummaryInv
<1>3. ASSUME bspPc # "reset", bootOk, apPc' \in LoopPcs, \A s \in Slots : slotState'[s] # "TIMEOUT"
      PROVE  queue'.handled + NotNoted' = completed + Cardinality(Unrecorded') + extra
  <2>0. apPc \in LoopPcs
    BY <1>3, <1>t, ApSummary
  <2>1. \A s \in Slots : slotState[s] # "TIMEOUT"
    BY <1>3, <1>w, <2>0 DEF ApWrite, LoopPcs, FaultablePcs
  <2>2. queue.handled + NotNoted = completed + Cardinality(Unrecorded) + extra
    BY <1>3, <2>0, <2>1 DEF SummaryInv
  <2>3. CASE /\ apPc = "complete" /\ apPc' = "noteDone" /\ slotState[apI] = "RUNNING"
             /\ slotState' = [slotState EXCEPT ![apI] = "DONE"] /\ queue' = queue
    <3>1. apI \in Slots /\ (active[apI] \/ (bspPc = "pubKick" /\ apI = bspI))
      BY <1>3, <2>3, <1>t DEF IndexInv, SlotPcs, WorkPcs, SummaryInv
    <3>2. Unrecorded' = Unrecorded \cup {apI} /\ apI \notin Unrecorded
      BY <1>u, <1>t, <2>3, <3>1 DEF Unrecorded
    <3>3. Cardinality(Unrecorded') = Cardinality(Unrecorded) + 1
      BY <3>2, UnrecordedFinite, FS_AddElement
    <3> QED BY <1>t, <2>2, <2>3, <3>3, UnrecordedFinite DEF NotNoted
  <2>4. CASE apPc = "complete" /\ slotState[apI] # "RUNNING"
    <3>1. apI \in Slots /\ slotState[apI] \in {"RUNNING", "TIMEOUT"}
      BY <2>4, <1>t DEF IndexInv, ActiveInv, SlotPcs, ServePcs, WorkPcs
    <3> QED BY <2>1, <2>4, <3>1
  <2>5. CASE /\ apPc = "noteDone" /\ apPc' = "notify" /\ slotState' = slotState
             /\ queue'.handled = queue.handled + 1
    <3>1. Unrecorded' = Unrecorded
      BY <1>u, <2>5 DEF Unrecorded
    <3> QED BY <1>t, <2>2, <2>5, <3>1, UnrecordedFinite DEF NotNoted
  <2>6. CASE /\ apPc # "noteDone" /\ apPc' # "noteDone" /\ queue'.handled = queue.handled
             /\ \/ slotState' = slotState
                \/ slotState[apI] = "PENDING" /\ slotState' = [slotState EXCEPT ![apI] = "RUNNING"]
    <3>1. Unrecorded' = Unrecorded
      BY <1>u, <1>t, <2>6 DEF Unrecorded
    <3> QED BY <2>2, <2>6, <3>1 DEF NotNoted
  <2> QED BY <1>3, <1>t, <2>3, <2>4, <2>5, <2>6, ApSummary
<1>4. ASSUME apPc' \in {"notify", "sweep", "hlt"}, ap_request_all_done'
      PROVE  queue'.stop = "DRAINED"
  <2>0. apPc' \in LoopPcs
    BY <1>4 DEF LoopPcs, FaultablePcs
  <2>1. CASE apPc = "complete" /\ slotState[apI] # "RUNNING" /\ slotState' = slotState
    <3>1. apI \in Slots /\ slotState[apI] \in {"RUNNING", "TIMEOUT"}
      BY <2>1, <1>t DEF IndexInv, ActiveInv, SlotPcs, ServePcs, WorkPcs
    <3> QED BY <1>4, <2>1, <3>1 DEF ap_request_all_done
  <2>2. CASE slotState' = slotState /\ (ap_request_all_done => queue'.stop = "DRAINED")
    BY <1>4, <2>2 DEF ap_request_all_done
  <2>3. CASE apPc \in {"notify", "sweep", "hlt"} /\ queue' = queue
    <3>1. \A s \in Slots : slotState[s] = "DONE"
      BY <1>4, <1>w, <2>3 DEF ap_request_all_done, ApWrite
    <3> QED BY <2>3, <3>1 DEF SummaryInv, ap_request_all_done
  <2> QED BY <1>4, <1>t, <2>0, <2>1, <2>2, <2>3, ApSummary
<1>5. bspPc = "returned" /\ result => completed = PlanCount /\ ap_request_all_done'
  <2> SUFFICES ASSUME bspPc = "returned", result, NEW s \in Slots
               PROVE  completed = PlanCount /\ slotState'[s] = "DONE"
    BY SlotCountAssumption DEF ap_request_all_done, Slots, SlotCountAssumption, SummaryInv
  <2>1. completed = PlanCount /\ slotState[s] = "DONE"
    BY DEF SummaryInv, ap_request_all_done
  <2> QED BY <1>w, <2>1 DEF ApWrite, IInv, HandOverInv
<1> QED BY <1>u, <1>1, <1>2, <1>3, <1>4, <1>5 DEF SummaryInv

(* What the BSP does to the summary, and where it goes from and to the     *)
(* ends of the stream and the kick.                                        *)
LEMMA BspSummary ==
    ASSUME TypeOK, BspStep
    PROVE  /\ queue' = queue \/ ResetStream \/ EarlyReturn
           /\ bspPc' \in {"reset", "early"} => ResetStream
           /\ bspPc' = "returned" => EarlyReturn \/ Return
           /\ bspPc = "pubKick" => PubKick \/ UNCHANGED <<bspPc, bspI, slotState>>
           /\ bspPc' = "pubKick" => bspI' = bspI /\ (PubStore \/ bspPc = "pubKick")
<1>b. backTo \in {"first", "check", "decide"}
  BY DEF TypeOK
<1> USE <1>b DEF slotVars, bspVars
<1>1. CASE ResetStream \/ EarlyReturn \/ BeginPublish
  BY <1>1 DEF ResetStream, EarlyReturn, BeginPublish
<1>2. CASE PubReset \/ PubPrepare \/ PubNotFaulted \/ PubNotHalted \/ PubStore \/ TakeIpi
  BY <1>2 DEF PubReset, PubPrepare, PubNotFaulted, PubNotHalted, PubStore, TakeIpi
<1>3. CASE PubFaulted \/ PubSkipped \/ PubKick
  BY <1>3 DEF PubFaulted, PubSkipped, PubKick, Published
<1>4. CASE StopRead \/ StopStore \/ StopReturn
  BY <1>4 DEF StopRead, StopStore, StopReturn
<1>5. CASE LoopTop \/ Check \/ ScanEnd \/ Decide \/ Finish \/ Refill
  BY <1>5 DEF LoopTop, Check, ScanEnd, Decide, Finish, Refill
<1>6. CASE WakeByIpi \/ WakeByTimer \/ Drain \/ Return
  BY <1>6 DEF WakeByIpi, WakeByTimer, Drain, Return
<1>7. CASE ExpirePending \/ ExpireRunning \/ ExpireFinish
  BY <1>7 DEF ExpirePending, ExpireRunning, ExpireFinish
<1> QED BY <1>1, <1>2, <1>3, <1>4, <1>5, <1>6, <1>7 DEF BspStep

(* While an AP that was brought up is in its loop, it is not over.         *)
LEMMA LoopIsNotOver ==
    ASSUME LifeInv, bootOk, apPc \in LoopPcs
    PROVE  ~Over /\ apState \notin {"FAULTED", "HALTED"}
BY DEF LifeInv, LoopPcs, FaultablePcs, Over

(* ... and so does a step of the BSP.                                      *)
LEMMA BspKeepsSummary ==
    ASSUME IInv, SettledInv, LedgerInv, NEW extra \in 0 .. 1, SummaryInv(extra),
           bspPc = "reset" => extra = NotNoted, BspStep
    PROVE  SummaryInv(extra)'
<1>u. UNCHANGED <<apPc, apI, apState, bootOk>>
  BY BspFrame
<1>t. /\ TypeOK /\ IndexInv /\ slotState \in [Slots -> Status] /\ queue.handled \in Nat
      /\ completed \in Nat /\ queue \in QueueSummary
  BY DEF IInv, TypeOK, ApTypeOK, QueueSummary
<1>w. \A s \in Slots : slotState'[s] = slotState[s] \/ BspWrite(s, slotState[s], slotState'[s])
  BY <1>t, BspWord
<1>r. bspPc = "reset" => \A s \in Slots : slotState'[s] = "EMPTY"
  BY ResetEmpties
<1>s. bspPc = "reset" => /\ \A s \in Slots : slotState[s] \notin {"RUNNING", "TIMEOUT"}
                         /\ apPc \notin ServePcs
  BY DEF SettledInv
<1>z. ResetStream => bspPc = "reset" /\ completed' = completed /\ queue' = ResetQueue
                     /\ \A s \in Slots : slotState'[s] = "EMPTY"
  BY DEF ResetStream
<1>1. bspPc' \in {"reset", "early"} => completed' = 0
  BY <1>t, <1>z, BspSummary DEF SummaryInv
<1>2. ASSUME NEW s \in Slots, slotState'[s] \in {"PENDING", "RUNNING"}, bspPc' # "reset"
      PROVE  active'[s] \/ (bspPc' = "pubKick" /\ s = bspI')
  <2>1. CASE slotState'[s] # slotState[s]
    <3>1. s = bspI /\ bspPc = "pubStore" /\ bspPc' = "pubKick"
      BY <1>2, <1>w, <2>1 DEF BspWrite
    <3> QED BY <1>t, <3>1, BspSummary
  <2>2. CASE slotState'[s] = slotState[s] /\ active[s]
    <3>1. ~Resets /\ ~(Records /\ s = bspI)
      BY <1>2, <1>r, <2>2 DEF Resets, Records, ap_request_state_finished,
         ap_request_state_terminal
    <3>2. active'[s] = active[s] \/ (Opens /\ s = bspI)
      BY <3>1, ActiveEffect, BspEffect DEF Idles
    <3> QED BY <2>2, <3>2, ActiveEffect
  <2>3. CASE slotState'[s] = slotState[s] /\ bspPc = "pubKick" /\ s = bspI
    <3>1. CASE PubKick
      <4>1. Opens
        BY <3>1 DEF PubKick, Opens, slotVars
      <4> QED BY <2>3, <4>1, ActiveEffect
    <3>2. CASE UNCHANGED <<bspPc, bspI, slotState>>
      BY <2>3, <3>2
    <3> QED BY <1>t, <2>3, <3>1, <3>2, BspSummary
  <2>4. bspPc # "reset"
    BY <1>2, <1>r
  <2> QED BY <1>2, <2>1, <2>2, <2>3, <2>4 DEF SummaryInv
<1>n. NotNoted' = NotNoted /\ NotNoted \in 0 .. 1
  BY <1>u DEF NotNoted
<1>3. ASSUME bspPc' # "reset", bootOk, apPc \in LoopPcs, \A s \in Slots : slotState'[s] # "TIMEOUT"
      PROVE  queue'.handled + NotNoted' = completed' + Cardinality(Unrecorded') + extra
  <2>0. ~Over /\ apState \notin {"FAULTED", "HALTED"}
    BY <1>3, LoopIsNotOver DEF LedgerInv
  <2>s. bspPc # "stopStore"
    BY <2>0 DEF LedgerInv, StopInv
  <2>p. bspPc \in PrepPcs => /\ bspI \in Slots /\ slotState[bspI] \in {"DONE", "EMPTY", "FAULT"}
                             /\ ~active[bspI]
    BY DEF IInv, IndexInv, HandOverInv, PubPcs, LedgerInv, ActiveInv
  <2>1. \A s \in Slots : slotState[s] # "TIMEOUT"
    BY <1>3, <1>w, <1>s, <2>s, <2>p DEF BspWrite, PrepPcs
  <2>2. bspPc # "reset" =>
           queue.handled + NotNoted = completed + Cardinality(Unrecorded) + extra
    BY <1>3, <2>1 DEF SummaryInv
  <2>3. CASE Resets
    <3>1. ResetStream
      BY <1>t, <2>3, BspSummary DEF Resets
    <3>2. Unrecorded' = {} /\ queue'.handled = 0
      BY <1>z, <3>1 DEF Unrecorded, ResetQueue
    <3>3. Cardinality(Unrecorded') = 0
      BY <3>2, FS_EmptySet
    <3>4. completed' = 0 /\ extra = NotNoted
      BY <1>z, <3>1 DEF SummaryInv
    <3> QED BY <1>n, <3>2, <3>3, <3>4
  <2>q. CASE ~Resets
    <3>r. bspPc # "reset"
      BY <2>q, ResetEmpties DEF Resets, ResetStream
    <3>0. queue'.handled = queue.handled
      <4>1. CASE EarlyReturn
        BY <4>1, <1>t DEF EarlyReturn, QueueSummary
      <4>2. CASE ResetStream
        BY <4>2, <2>q DEF ResetStream, Resets
      <4> QED BY <1>t, <4>1, <4>2, BspSummary
    <3>1. CASE Records
      <4>1. /\ bspI \in Slots /\ active[bspI] /\ ap_request_state_finished(slotState[bspI])
            /\ slotState' = slotState /\ completed' = completed + 1
            /\ bspPc \in {"finish", "expireFinish"}
        BY <3>1, RecordEffect DEF Records, LedgerInv, ActiveInv, slotVars
      <4>2. slotState[bspI] = "DONE"
        BY <2>0, <2>1, <4>1 DEF LedgerInv, StopInv, ap_request_state_finished,
           ap_request_state_terminal
      <4>3. bspPc' # "pubKick"
        BY <1>t, <4>1, BspSummary DEF PubStore
      <4>4. ~active'[bspI] /\ \A s \in Slots : s # bspI => active'[s] = active[s]
        BY <3>1, ActiveEffect
      <4>5. Unrecorded' = Unrecorded \ {bspI} /\ bspI \in Unrecorded
        BY <4>1, <4>2, <4>3, <4>4 DEF Unrecorded
      <4>6. Cardinality(Unrecorded') = Cardinality(Unrecorded) - 1
        BY <4>5, UnrecordedFinite, FS_RemoveElement
      <4> QED BY <1>t, <1>n, <2>2, <3>r, <3>0, <4>1, <4>6, UnrecordedFinite
    <3>2. CASE Opens
      <4>1. bspPc = "pubKick"
        <5>1. bspPc \in {"pubFaulted", "pubHalted", "pubKick"}
              /\ bspPc' \in {"top", "pubReset", "check"}
          BY <3>2 DEF Opens, Published
        <5>2. PubFaulted \/ PubSkipped \/ bspPc = "pubKick"
          BY <5>1 DEF BspStep, ResetStream, EarlyReturn, BeginPublish, PubReset, PubPrepare,
             PubNotFaulted, PubNotHalted, PubStore, PubKick, TakeIpi, bspVars, StopRead,
             StopStore, StopReturn, LoopTop, Check, Finish, Refill, ScanEnd, Decide,
             WakeByIpi, WakeByTimer, Drain, ExpirePending, ExpireRunning, ExpireFinish, Return
        <5> QED BY <1>3, <2>0, <5>2 DEF PubFaulted, PubSkipped
      <4>2. /\ slotState' = slotState /\ bspPc' # "pubKick" /\ completed' = completed
            /\ ~active[bspI]
        <5>1. bspPc' \in {"top", "pubReset", "check"} /\ completed' = completed
          BY <3>2 DEF Opens, Published
        <5>2. PubKick \/ UNCHANGED <<bspPc, bspI, slotState>>
          BY <1>t, <4>1, BspSummary
        <5> QED BY <4>1, <5>1, <5>2 DEF PubKick, slotVars, LedgerInv, ActiveInv, PubPcs
      <4>3. /\ bspI \in Slots /\ active'[bspI]
            /\ \A s \in Slots : s # bspI => active'[s] = active[s]
        BY <3>2, ActiveEffect
      <4>4. Unrecorded' = Unrecorded
        BY <4>1, <4>2, <4>3 DEF Unrecorded
      <4> QED BY <1>n, <2>2, <3>r, <3>0, <4>2, <4>4
    <3>3. CASE Idles /\ ~Opens
      <4>1. active' = active /\ completed' = completed
        BY <3>3 DEF Idles
      <4>2. bspPc = "pubKick" => UNCHANGED <<bspPc, bspI, slotState>>
        <5>1. PubKick => Opens
          BY DEF PubKick, Opens, slotVars
        <5> QED BY <1>t, <3>3, <5>1, BspSummary
      <4>3. bspPc' = "pubKick" => /\ bspI' = bspI /\ bspI \in Slots
                                  /\ bspPc = "pubKick" \/ slotState'[bspI] = "PENDING"
        BY <1>t, BspSummary DEF PubStore, IndexInv, PubPcs, PrepPcs
      <4>4. ASSUME NEW s \in Slots, active[s] \/ bspPc = "pubKick"
            PROVE  slotState'[s] = "DONE" <=> slotState[s] = "DONE"
        <5>1. CASE bspPc = "pubKick"
          BY <4>2, <5>1
        <5>2. CASE active[s] /\ bspPc # "pubKick"
          BY <1>w, <2>s, <2>p, <3>r, <5>2 DEF BspWrite, PrepPcs
        <5> QED BY <4>4, <5>1, <5>2
      <4>5. Unrecorded' = Unrecorded
        BY <4>1, <4>2, <4>3, <4>4 DEF Unrecorded
      <4> QED BY <1>n, <2>2, <3>r, <3>0, <4>1, <4>5
    <3> QED BY <2>q, <3>1, <3>2, <3>3, BspEffect
  <2> QED BY <2>3, <2>q
<1>4. ASSUME apPc \in {"notify", "sweep", "hlt"}, ap_request_all_done'
      PROVE  queue'.stop = "DRAINED"
  <2>1. \A s \in Slots : slotState'[s] = "DONE" /\ slotState[s] = "DONE"
    BY <1>4, <1>w DEF ap_request_all_done, BspWrite
  <2>2. 0 \in Slots
    BY SlotCountAssumption DEF SlotCountAssumption, Slots
  <2>3. ~ResetStream
    BY <1>z, <2>1, <2>2
  <2>4. ~EarlyReturn
    BY <1>4 DEF EarlyReturn, ap_request_stream_should_stop, LedgerInv, LifeInv
  <2>5. queue' = queue
    BY <1>t, <2>3, <2>4, BspSummary
  <2> QED BY <1>4, <2>1, <2>5 DEF SummaryInv, ap_request_all_done
<1>5. bspPc' = "returned" /\ result' => completed' = PlanCount /\ ap_request_all_done'
  BY <1>t, BspSummary DEF EarlyReturn, Return, ap_request_all_done, slotVars
<1> QED BY <1>u, <1>1, <1>2, <1>3, <1>4, <1>5 DEF SummaryInv

(* Nothing has been handled or recorded initially ...                      *)
LEMMA SummaryInit ==
    ASSUME Init
    PROVE  SummaryInv(0) /\ apPc \notin SlotPcs
<1>1. /\ \A s \in Slots : slotState[s] = "EMPTY"
      /\ apPc = "sweep" /\ bspPc = "reset" /\ completed = 0
  BY DEF Init, ApInit
<1>2. ~ap_request_all_done
  BY <1>1, SlotCountAssumption DEF ap_request_all_done, Slots, SlotCountAssumption
<1> QED BY <1>1, <1>2 DEF SummaryInv, SlotPcs, WorkPcs

(* At a successful return every result is recorded and the AP is in its    *)
(* loop, so the summary shows the plan.                                    *)
LEMMA SummaryAtReturn ==
    ASSUME IInv, LedgerInv, NEW extra \in 0 .. 1, SummaryInv(extra),
           bspPc = "returned", result, apPc \in {"notify", "sweep", "hlt"}
    PROVE  queue.handled = PlanCount + extra /\ queue.stop = "DRAINED"
<1>1. completed = PlanCount /\ \A s \in Slots : slotState[s] = "DONE"
  BY DEF SummaryInv, ap_request_all_done
<1>2. 0 \in Slots
  BY SlotCountAssumption DEF SlotCountAssumption, Slots
<1>3. bootOk
  BY <1>1, <1>2 DEF LedgerInv, LifeInv
<1>4. Unrecorded = {}
  BY DEF Unrecorded, LedgerInv, ActiveInv, NoActiveSlot
<1>5. Cardinality(Unrecorded) = 0
  BY <1>4, FS_EmptySet
<1>6. queue.handled \in Nat /\ PlanCount \in Nat
  BY EntryType DEF IInv, TypeOK, ApTypeOK, QueueSummary
<1>7. queue.handled + 0 = completed + 0 + extra
  BY <1>1, <1>3, <1>5 DEF SummaryInv, LoopPcs, FaultablePcs, NotNoted
<1>8. queue.stop = "DRAINED"
  BY <1>1 DEF SummaryInv, ap_request_all_done
<1> QED BY <1>1, <1>6, <1>7, <1>8

(* When run_ap_request_stream reports success, the AP's queue summary      *)
(* shows every request of the plan handled and the queue drained, as soon  *)
(* as the AP has noted its last request.                                   *)
THEOREM SummaryIsDrained == Spec => []SummaryDrained
<1> DEFINE idle == bspPc = "reset" => apPc \notin SlotPcs
<1>1. Init => SummaryInv(0) /\ idle
  BY SummaryInit DEF idle
<1>2. (SummaryInv(0) /\ idle) /\ (IInv /\ SettledInv /\ LedgerInv)
      /\ (IInv /\ SettledInv /\ LedgerInv)' /\ [Next]_vars
      => (SummaryInv(0) /\ idle)'
  <2> SUFFICES ASSUME SummaryInv(0), idle, IInv, SettledInv, LedgerInv, [Next]_vars
               PROVE  SummaryInv(0)' /\ idle'
    OBVIOUS
  <2>1. CASE UNCHANGED vars
    BY <2>1 DEF vars, apVars, slotVars, bootVars, bspVars, SummaryInv, Unrecorded,
       ap_request_all_done, NotNoted
  <2>2. CASE ApNext
    <3>1. SummaryInv(0)'
      BY <2>2, ApKeepsSummary DEF LedgerInv
    <3>2. idle'
      BY <2>2, ApFrame, ApMoves DEF bspVars, SettledInv
    <3> QED BY <3>1, <3>2
  <2>3. CASE BspStep
    <3>1. bspPc = "reset" => 0 = NotNoted
      BY DEF NotNoted, SlotPcs
    <3>2. SummaryInv(0)'
      BY <2>3, <3>1, BspKeepsSummary
    <3>3. bspPc' # "reset"
      BY <2>3, BspLeavesReset DEF IInv
    <3> QED BY <3>2, <3>3
  <2> QED BY <2>1, <2>2, <2>3 DEF Next, HaltForever
<1>3. (SummaryInv(0) /\ idle) /\ (IInv /\ SettledInv /\ LedgerInv) => SummaryDrained
  <2> SUFFICES ASSUME SummaryInv(0), IInv, LedgerInv, bspPc = "returned", result,
                      apPc \in {"notify", "sweep", "hlt"}
               PROVE  queue.handled = PlanCount /\ queue.stop = "DRAINED"
    BY DEF SummaryDrained
  <2>1. queue.handled = PlanCount + 0 /\ queue.stop = "DRAINED"
    BY SummaryAtReturn
  <2> QED BY <2>1, PlanAssumption DEF PlanAssumption
<1> QED BY <1>1, <1>2, <1>3, LedgerInvariant, PTL DEF Spec

-----------------------------------------------------------------------------
(* The counters.                                                           *)

(* The counter handler serves the counter service by the counter           *)
(* interface, and nothing else.                                            *)
LEMMA CounterHandler ==
    ASSUME NEW service, NEW interface
    PROVE  find_ap_request_handler(service, interface) = "counter" <=>
              service = SERVICE_COUNTER /\ interface = INTERFACE_COUNTER
<1> DEFINE rows == find_ap_service(service, interface)
<1>1. /\ Rows = 1 .. 2
      /\ ap_service_registry[1].handler = "ping" /\ ap_service_registry[2].handler = "counter"
      /\ ap_service_registry[1].service = SERVICE_PING
      /\ ap_service_registry[2].service = SERVICE_COUNTER
      /\ ap_service_registry[2].interface = INTERFACE_COUNTER
  BY DEF Rows, ap_service_registry
<1>2. SERVICE_PING # SERVICE_COUNTER
  BY DEF SERVICE_PING, SERVICE_COUNTER
<1>3. /\ rows \subseteq {1, 2} /\ (1 \in rows => 2 \notin rows)
      /\ 2 \in rows <=> service = SERVICE_COUNTER /\ interface = INTERFACE_COUNTER
  BY <1>1, <1>2 DEF find_ap_service
<1>4. CASE 2 \in rows
  <2>1. rows = {2}
    BY <1>3, <1>4
  <2>2. FirstRow(rows) = 2
    BY <2>1 DEF FirstRow
  <2> QED BY <1>1, <1>3, <1>4, <2>1, <2>2 DEF find_ap_request_handler
<1>5. CASE 2 \notin rows /\ 1 \in rows
  <2>1. rows = {1}
    BY <1>3, <1>5
  <2>2. FirstRow(rows) = 1
    BY <2>1 DEF FirstRow
  <2> QED BY <1>1, <1>3, <1>5, <2>1, <2>2 DEF find_ap_request_handler
<1>6. CASE 2 \notin rows /\ 1 \notin rows
  <2>1. rows = {}
    BY <1>3, <1>6
  <2> QED BY <1>3, <1>6, <2>1 DEF find_ap_request_handler
<1> QED BY <1>4, <1>5, <1>6

(* What the BSP takes for an increment is one, and it takes a request of   *)
(* the counter service for one when it has the COUNTER opcode.             *)
LEMMA IncrementHandler ==
    ASSUME NEW r \in Reqs
    PROVE  ap_request_is_counter_increment(r) <=>
              Handler(r) = "counter" /\ Plan[r].opcode = "COUNTER"
<1>1. Handler(r) = "counter" <=>
         Plan[r].service = SERVICE_COUNTER /\ Plan[r].interface = INTERFACE_COUNTER
  BY CounterHandler DEF Handler, Header
<1> QED BY <1>1 DEF ap_request_is_counter_increment

(* The uncounted increments are finitely many.                             *)
LEMMA UncountedFinite ==
    IsFiniteSet(Uncounted) /\ Cardinality(Uncounted) \in Nat
<1>1. PlanCount \in Nat
  BY PlanAssumption DEF PlanAssumption
<1>2. IsFiniteSet(1 .. PlanCount)
  BY <1>1, FS_Interval
<1>3. IsFiniteSet(Uncounted)
  BY <1>2, FS_Subset DEF Uncounted
<1> QED BY <1>3, FS_CardinalityType

(* The AP counts where a handler runs, one for the counter handler.        *)
LEMMA ApCounter ==
    ASSUME ApNext
    PROVE  \/ counterValue' = counterValue /\ execs' = execs
           \/ /\ Handle
              /\ counterValue' = IF Handler(slotReq[apI]) = "counter"
                                 THEN counterValue + 1 ELSE counterValue
<1>1. CASE Handle
  BY <1>1 DEF Handle
<1>2. CASE ~Handle
  BY <1>2 DEF ApNext, ApStep, ApFault, Claim, Skip, SweepAgain, Idle, Wake, Start,
     Hang, note_ap_request_handled, CompleteDone, NoteDone, NotifyDone, Miss, MissNote,
     MissComplete, MissNotify, FaultInHandler, Fault, EnterFault, FaultReport,
     FaultPending, FaultRunning, FaultCas, FaultEmpty, FaultStore, FaultMark, FaultNotify
<1> QED BY <1>1, <1>2

(* A step of the AP keeps the counters apart by the uncounted ones ...     *)
LEMMA ApKeepsCounter ==
    ASSUME IInv, HistoryInv, CounterInv, ApNext,
           apPc = "dispatch" /\ Handler(slotReq[apI]) = "counter" =>
              slotReq[apI] \in 1 .. PlanCount
    PROVE  CounterInv'
<1> SUFFICES ASSUME PlanCount <= HistoryCount
             PROVE  counterBase' + Cardinality(Uncounted') = counterValue'
  BY DEF CounterInv
<1>u. UNCHANGED <<history, counterBase>> /\ \A r \in Reqs : Credited(r)' = Credited(r)
  BY ApFrame DEF bspVars, Credited, ap_request_is_counter_increment
<1>t. counterBase \in Nat /\ counterValue \in Nat /\ 1 .. PlanCount \subseteq Reqs
  BY EntryType DEF IInv, TypeOK, ApTypeOK
<1>0. counterBase + Cardinality(Uncounted) = counterValue
  BY DEF CounterInv
<1>1. CASE counterValue' = counterValue /\ execs' = execs
  <2>1. Uncounted' = Uncounted
    BY <1>1, <1>t, <1>u DEF Uncounted
  <2> QED BY <1>0, <1>1, <1>u, <2>1
<1>2. CASE Handle
  <2> DEFINE q == slotReq[apI]
  <2>1. /\ q \in Reqs /\ execs[q] = 0 /\ execs'[q] = 1
        /\ \A r \in Reqs : r # q => execs'[r] = execs[r]
    <3>1. execs' # execs
      <4>1. /\ q \in Reqs /\ execs \in [Reqs -> Nat] /\ execs' = [execs EXCEPT ![q] = execs[q] + 1]
        BY <1>2 DEF Handle, IInv, RequestInv, WorkPcs, TypeOK, ApTypeOK
      <4>2. execs'[q] = execs[q] + 1 /\ execs[q] \in Nat
        BY <4>1
      <4> QED BY <4>2
    <3> QED BY <3>1, ApExecs
  <2>2. ~Credited(q)
    BY <2>1 DEF Credited, HistoryInv, EntryInv, Answered
  <2>3. counterValue' = IF Handler(q) = "counter" THEN counterValue + 1 ELSE counterValue
    BY <1>2 DEF Handle
  <2> HIDE DEF q
  <2>4. CASE Handler(q) = "counter"
    <3>0. q \in 1 .. PlanCount
      BY <1>2, <2>4 DEF Handle, q
    <3>1. Uncounted' = Uncounted \cup {q} /\ q \notin Uncounted
      BY <1>u, <1>t, <2>1, <2>2, <2>4, <3>0 DEF Uncounted
    <3>2. Cardinality(Uncounted') = Cardinality(Uncounted) + 1
      BY <3>1, UncountedFinite, FS_AddElement
    <3> QED BY <1>0, <1>t, <1>u, <2>3, <2>4, <3>2, UncountedFinite
  <2>5. CASE Handler(q) # "counter"
    <3>1. Uncounted' = Uncounted
      BY <1>u, <1>t, <2>1, <2>5 DEF Uncounted
    <3> QED BY <1>0, <1>u, <2>3, <2>5, <3>1
  <2> QED BY <2>4, <2>5
<1> QED BY <1>1, <1>2, ApCounter

(* The BSP counts where it resets the stream and where it records.         *)
LEMMA BspCounter ==
    ASSUME BspStep
    PROVE  /\ UNCHANGED <<counterValue, execs>>
           /\ \/ counterBase' = counterBase /\ history' = history
              \/ ResetStream
              \/ Records
<1>0. UNCHANGED <<counterValue, execs>>
  BY BspLeavesAp DEF apOwned
<1> USE <1>0 DEF slotVars, bspVars
<1>1. CASE ResetStream \/ EarlyReturn \/ BeginPublish
  BY <1>1 DEF EarlyReturn, BeginPublish
<1>2. CASE PubReset \/ PubPrepare \/ PubNotFaulted \/ PubNotHalted \/ PubStore \/ TakeIpi
  BY <1>2 DEF PubReset, PubPrepare, PubNotFaulted, PubNotHalted, PubStore, TakeIpi
<1>3. CASE PubFaulted \/ PubSkipped \/ PubKick
  BY <1>3 DEF PubFaulted, PubSkipped, PubKick, Published
<1>4. CASE StopRead \/ StopStore \/ StopReturn
  BY <1>4 DEF StopRead, StopStore, StopReturn
<1>5. CASE LoopTop \/ Check \/ ScanEnd \/ Decide \/ Refill
  BY <1>5 DEF LoopTop, Check, ScanEnd, Decide, Refill
<1>6. CASE WakeByIpi \/ WakeByTimer \/ Drain \/ Return \/ ExpirePending \/ ExpireRunning
  BY <1>6 DEF WakeByIpi, WakeByTimer, Drain, Return, ExpirePending, ExpireRunning
<1>7. CASE Finish \/ ExpireFinish
  BY <1>7 DEF Finish, ExpireFinish, Records
<1> QED BY <1>1, <1>2, <1>3, <1>4, <1>5, <1>6, <1>7 DEF BspStep

(* When the history is as long as the plan, a recorded slot finds room.    *)
LEMMA RoomToRecord ==
    ASSUME IInv, ActiveInv, AccountInv, PlanCount <= HistoryCount, BspStep, Records
    PROVE  completed < HistoryCount
<1>1. bspI \in ActiveSlots
  BY RecordEffect DEF Records, ActiveInv, ActiveSlots
<1>2. Cardinality(ActiveSlots) \in Nat /\ Cardinality(ActiveSlots) # 0
  BY <1>1, ActiveFinite
<1>3. /\ completed \in Nat /\ nextPlan \in Nat /\ PlanCount \in Nat /\ nextPlan <= PlanCount
      /\ HistoryCount \in Nat
  BY EntryType, StreamAssumption DEF IInv, TypeOK, StreamAssumption
<1>4. completed + Cardinality(ActiveSlots) = nextPlan
  BY DEF AccountInv
<1> QED BY <1>2, <1>3, <1>4

(* ... and so does a step of the BSP.                                      *)
LEMMA BspKeepsCounter ==
    ASSUME IInv, LedgerInv, CounterInv, BspStep
    PROVE  CounterInv'
<1> SUFFICES ASSUME PlanCount <= HistoryCount
             PROVE  counterBase' + Cardinality(Uncounted') = counterValue'
  BY DEF CounterInv
<1>u. UNCHANGED <<counterValue, execs>>
  BY BspCounter
<1>t. counterBase \in Nat /\ counterValue \in Nat /\ 1 .. PlanCount \subseteq Reqs
  BY EntryType DEF IInv, TypeOK, ApTypeOK
<1>0. counterBase + Cardinality(Uncounted) = counterValue
  BY DEF CounterInv
<1>1. CASE counterBase' = counterBase /\ history' = history
  <2>1. Uncounted' = Uncounted
    BY <1>1, <1>u DEF Uncounted, Credited
  <2> QED BY <1>0, <1>1, <1>u, <2>1
<1>2. CASE ResetStream
  <2>1. counterBase' = counterValue /\ nextPlan = 0 /\ bspPc = "reset"
    BY <1>2 DEF ResetStream, IInv, IndexInv
  <2>2. \A r \in 1 .. PlanCount : execs[r] = 0
    BY <2>1 DEF IInv, UnservedInv
  <2>3. Uncounted' = {}
    BY <1>u, <2>2 DEF Uncounted
  <2>4. Cardinality(Uncounted') = 0
    BY <2>3, FS_EmptySet
  <2> QED BY <1>t, <1>u, <2>1, <2>4
<1>3. CASE Records
  <2>0. PICK q : q = slotReq[bspI]
    OBVIOUS
  <2> DEFINE e == Entry(bspI, counterBase')
  <2>1. /\ bspI \in Slots /\ active[bspI] /\ bspI \in ActiveSlots
        /\ counterBase' = IF /\ ap_request_is_counter_increment(q)
                             /\ slotState[bspI] = "DONE" /\ slotReply[bspI].fault = 0
                          THEN counterBase + 1 ELSE counterBase
    BY <1>3, <2>0, RecordEffect DEF Records, RecordSlot, LedgerInv, ActiveInv, ActiveSlots
  <2>2. history' = Append(history, e)
    BY <1>3, RoomToRecord DEF Records, RecordSlot, LedgerInv
  <2>3. /\ ~Recorded(q) /\ q \in Reqs /\ q \in 1 .. PlanCount
        /\ slotState[bspI] = "DONE" => execs[q] = 1 /\ slotReply[bspI].fault = 0
    BY <2>0, <2>1, EntryType DEF LedgerInv, AccountInv, ActiveInv, SlotsAreTrue, Answered, IInv
  <2>4. e.req = q /\ e.state = slotState[bspI]
    BY <2>0 DEF Entry
  <2> HIDE DEF e
  <2>5. /\ \A i \in DOMAIN history : i \in DOMAIN history' /\ history'[i] = history[i]
        /\ \A i \in DOMAIN history' : i \in DOMAIN history \/ i = Len(history) + 1
        /\ history'[Len(history) + 1] = e /\ Len(history) + 1 \in DOMAIN history'
    BY <2>2, AppendEffect DEF IInv, TypeOK
  <2>6. \A r \in Reqs : r # q => Credited(r)' = Credited(r)
    BY <2>4, <2>5 DEF Credited
  <2>7. /\ ~Credited(q)
        /\ Credited(q)' <=> ap_request_is_counter_increment(q) /\ slotState[bspI] = "DONE"
    BY <2>3, <2>4, <2>5 DEF Credited, Recorded
  <2>8. CASE ap_request_is_counter_increment(q) /\ slotState[bspI] = "DONE"
    <3>1. Handler(q) = "counter" /\ execs[q] = 1
      BY <2>3, <2>8, IncrementHandler
    <3>2. Uncounted' = Uncounted \ {q} /\ q \in Uncounted
      BY <1>u, <1>t, <2>3, <2>6, <2>7, <2>8, <3>1 DEF Uncounted
    <3>3. Cardinality(Uncounted') = Cardinality(Uncounted) - 1
      BY <3>2, UncountedFinite, FS_RemoveElement
    <3>4. counterBase' = counterBase + 1
      BY <2>1, <2>3, <2>8
    <3> QED BY <1>0, <1>t, <1>u, <3>3, <3>4, UncountedFinite
  <2>9. CASE ~(ap_request_is_counter_increment(q) /\ slotState[bspI] = "DONE")
    <3>1. Uncounted' = Uncounted
      BY <1>u, <1>t, <2>6, <2>7, <2>9 DEF Uncounted
    <3>2. counterBase' = counterBase
      BY <2>1, <2>9
    <3> QED BY <1>0, <1>u, <3>1, <3>2
  <2> QED BY <2>8, <2>9
<1> QED BY <1>1, <1>2, <1>3, BspCounter

(* In a stream that has begun, the AP dispatches only what is planned.     *)
LEMMA ServedIsPlanned ==
    ASSUME IInv, bspPc # "reset", apPc = "dispatch"
    PROVE  slotReq[apI] \in 1 .. PlanCount
<1> DEFINE q == slotReq[apI]
<1>1. apI \in Slots /\ q \in Reqs /\ q \in Nat /\ q >= 1
  BY PlanAssumption DEF IInv, IndexInv, RequestInv, SlotPcs, WorkPcs, Reqs, PlanAssumption
<1>2. nextPlan \in Nat /\ PlanCount \in Nat /\ nextPlan <= PlanCount
  BY EntryType DEF IInv
<1>3. CASE q <= nextPlan
  BY <1>1, <1>2, <1>3
<1>4. CASE bspPc \in PreparedPcs /\ apI = bspI
  <2>1. q = nextPlan + 1 /\ nextPlan < PlanCount
    BY <1>4 DEF IInv, RequestInv, IndexInv, PubPcs, PrepPcs, PreparedPcs
  <2> QED BY <1>1, <1>2, <2>1
<1> QED BY <1>1, <1>3, <1>4 DEF IInv, UnservedInv

(* So the BSP's count stays behind the AP's by what it gave up on.         *)
LEMMA CountersFollow ==
    ASSUME PlanCount <= HistoryCount,
           \A r \in 1 .. PlanCount : Handler(r) = "counter" => Plan[r].opcode = "COUNTER",
           CounterInv, IInv, LedgerInv
    PROVE  CountersAgree
<1> DEFINE given == {i \in DOMAIN history : /\ history[i].state \in {"TIMEOUT", "FAULT"}
                                            /\ Handler(history[i].req) = "counter"}
<1> SUFFICES /\ counterBase <= counterValue
             /\ bspPc = "returned" => counterValue - counterBase <= Cardinality(given)
  BY DEF CountersAgree
<1>1. /\ counterBase \in Nat /\ counterValue \in Nat /\ Cardinality(Uncounted) \in Nat
      /\ counterBase + Cardinality(Uncounted) = counterValue
  BY UncountedFinite DEF CounterInv, IInv, TypeOK, ApTypeOK
<1>2. ASSUME bspPc = "returned", NEW r \in Uncounted
      PROVE  \E i \in given : history[i].req = r
  <2>1. r \in Reqs /\ r \in 1 .. nextPlan /\ r \in 1 .. PlanCount
    <3>1. r \in 1 .. PlanCount /\ r \in Reqs /\ execs[r] = 1 /\ nextPlan \in Nat /\ r \in Nat /\ r >= 1
          /\ nextPlan <= PlanCount /\ PlanCount \in Nat
      BY EntryType DEF Uncounted, IInv, Reqs
    <3>2. ~(r > nextPlan)
      BY <1>2, <3>1 DEF IInv, UnservedInv
    <3> QED BY <3>1, <3>2
  <2>2. PICK i \in DOMAIN history : history[i].req = r
    <3>1. ActiveSlots = {}
      BY <1>2 DEF LedgerInv, ActiveInv, NoActiveSlot, ActiveSlots
    <3> QED BY <2>1, <3>1 DEF LedgerInv, AccountInv, Recorded
  <2>3. history[i].state # "DONE"
    <3>1. ap_request_is_counter_increment(r)
      BY <2>1, IncrementHandler DEF Uncounted
    <3> QED BY <2>2, <3>1 DEF Uncounted, Credited
  <2>4. EntryInv(history[i]) /\ execs[r] = 1 /\ Handler(r) = "counter"
    BY DEF LedgerInv, HistoryInv, Uncounted
  <2>5. history[i].state \in {"TIMEOUT", "FAULT"}
    BY <2>2, <2>3, <2>4 DEF EntryInv, ap_request_state_finished, ap_request_state_terminal
  <2> QED BY <2>2, <2>4, <2>5
<1>3. IsFiniteSet(given)
  <2>1. IsFiniteSet(DOMAIN history)
    <3>1. Len(history) \in Nat /\ DOMAIN history = 1 .. Len(history)
      BY DEF IInv, TypeOK
    <3> QED BY <3>1, FS_Interval
  <2> QED BY <2>1, FS_Subset
<1> HIDE DEF given
<1>4. bspPc = "returned" => Cardinality(Uncounted) <= Cardinality(given)
  <2> SUFFICES ASSUME bspPc = "returned"
               PROVE  Cardinality(Uncounted) <= Cardinality(given)
    OBVIOUS
  <2> DEFINE f == [r \in Uncounted |-> CHOOSE i \in given : history[i].req = r]
  <2>1. \A r \in Uncounted : f[r] \in given /\ history[f[r]].req = r
    BY <1>2
  <2>2. f \in Injection(Uncounted, given)
    BY <2>1 DEF Injection, IsInjective
  <2> QED BY <1>3, <2>2, FS_Injection
<1>5. bspPc = "returned" => Cardinality(given) \in Nat
  BY <1>3, FS_CardinalityType
<1> QED BY <1>1, <1>4, <1>5

(* ... and nothing counted.                                                *)
LEMMA CounterInit ==
    ASSUME Init
    PROVE  CounterInv
<1>1. counterBase = 0 /\ counterValue = 0 /\ \A r \in Reqs : execs[r] = 0
  BY DEF Init, ApInit
<1>2. Uncounted = {}
  BY <1>1, PlanAssumption DEF Uncounted, PlanAssumption, Reqs
<1>3. Cardinality(Uncounted) = 0
  BY <1>2, FS_EmptySet
<1> QED BY <1>1, <1>3 DEF CounterInv

(* For a plan that fits the history and whose requests to the counter      *)
(* service have the COUNTER opcode, as efi_main's have: the BSP's count of *)
(* increments, which the report is checked against, never runs ahead of    *)
(* the AP's counter_value, and falls behind at the end by no more than the *)
(* increments it timed out on or lost to an exception.                     *)
THEOREM CountersStayTogether ==
    ASSUME PlanCount <= HistoryCount,
           \A r \in 1 .. PlanCount : Handler(r) = "counter" => Plan[r].opcode = "COUNTER"
    PROVE  Spec => []CountersAgree
<1>1. Init => CounterInv
  BY CounterInit
<1>2. CounterInv /\ (IInv /\ SettledInv /\ LedgerInv) /\ [Next]_vars => CounterInv'
  <2> SUFFICES ASSUME CounterInv, IInv, SettledInv, LedgerInv, [Next]_vars PROVE CounterInv'
    OBVIOUS
  <2>1. CASE UNCHANGED vars
    BY <2>1 DEF vars, apVars, bspVars, CounterInv, Uncounted, Credited
  <2>2. bspPc = "reset" => apPc # "dispatch"
    BY DEF SettledInv, ServePcs, WorkPcs
  <2>3. apPc = "dispatch" => slotReq[apI] \in 1 .. PlanCount
    BY <2>2, ServedIsPlanned
  <2> QED BY <2>1, <2>3, ApKeepsCounter, BspKeepsCounter DEF Next, HaltForever, LedgerInv
<1>3. CounterInv /\ (IInv /\ SettledInv /\ LedgerInv) => CountersAgree
  BY CountersFollow
<1> QED BY <1>1, <1>2, <1>3, LedgerInvariant, PTL DEF Spec

-----------------------------------------------------------------------------
(* Broadcast and stream (module BroadcastThenStream).                      *)

(* The ping is a request of its own, after those of the plan, and the ping *)
(* handler serves it.                                                      *)
LEMMA PingIsRequest ==
    /\ BcPing \in Reqs /\ BcPing \notin 1 .. PlanCount /\ BcPing # NoReq
    /\ Handler(BcPing) # "counter" /\ BcSlot \in Slots
<1>1. PlanCount \in Nat /\ BcPing = PlanCount + 1 /\ Len(Plan) = BcPing
  BY PlanAssumption, BroadcastAssumption DEF PlanAssumption, BroadcastAssumption, BcPing
<1>2. BcPing \in Reqs /\ BcPing \notin 1 .. PlanCount /\ BcPing # NoReq
  BY <1>1 DEF Reqs, NoReq
<1>3. Plan[BcPing].service = SERVICE_PING
  BY BroadcastAssumption DEF BroadcastAssumption
<1>4. Header(BcPing).service # SERVICE_COUNTER
  BY <1>2, <1>3 DEF Header, SERVICE_PING, SERVICE_COUNTER
<1>5. Handler(BcPing) # "counter"
  BY <1>4, CounterHandler DEF Handler
<1>6. BcSlot \in Slots
  BY SlotCountAssumption DEF SlotCountAssumption, Slots, BcSlot
<1> QED BY <1>2, <1>5, <1>6

(* The boot code hands over an idle AP and an inbox of reset slots.        *)
LEMMA RoundInitHolds ==
    ASSUME RoundInit
    PROVE  RoundInv
<1>1. /\ IInv /\ LedgerInv /\ FaultInv /\ CounterInv
      /\ \E extra \in 0 .. 1 : SummaryInv(extra)
  BY InitHolds, LedgerInit, FaultInit, CounterInit, SummaryInit DEF RoundInit
<1>2. /\ \A s \in Slots : slotState[s] = "EMPTY" /\ slotReq[s] = NoReq
      /\ bspPc = "reset" /\ history = <<>> /\ counterBase = 0 /\ currentSlot = NoSlot
      /\ apPc = "sweep" /\ \A r \in Reqs : execs[r] = 0
      /\ handledCount = 0 /\ counterValue = 0
  BY DEF RoundInit, Init, ApInit
<1>3. BcTypeOK
  BY <1>2 DEF RoundInit, BcTypeOK, BeforePcs
<1>4. HoldInv
  BY <1>2, NoSlotIsNone DEF HoldInv
<1>5. PingInv
  BY <1>2, PingIsRequest DEF RoundInit, PingInv, BeforePcs, WritePcs, WaitPcs, SlotPcs, WorkPcs
<1> QED BY <1>1, <1>3, <1>4, <1>5 DEF RoundInv, RoundInit

-----------------------------------------------------------------------------
(* Steps of the AP.                                                        *)

(* A fault handler with a current slot finds it in use.                    *)
LEMMA ApKeepsHold ==
    ASSUME IInv, HoldInv, ApNext
    PROVE  HoldInv'
<1>t. /\ TypeOK /\ IndexInv /\ currentSlot \in Slots \cup {NoSlot}
      /\ apPc = "start" => apI \in Slots /\ slotState[apI] # "EMPTY"
  BY DEF IInv, TypeOK, ApTypeOK, IndexInv, HandOverInv, WorkPcs, SlotPcs
<1>w. \A s \in Slots : slotState'[s] = "EMPTY" => slotState[s] = "EMPTY"
  BY <1>t, ApWord DEF ApWrite
<1>1. currentSlot' \in Slots => slotState'[currentSlot'] # "EMPTY"
  BY <1>t, <1>w, ApMoves, NoSlotIsNone DEF HoldInv
<1>2. /\ currentSlot' \in Slots =>
            apPc' \in WorkPcs \cup MarkingPcs \cup MarkedPcs
                        \cup {"missNote", "noteDone", "hung", "faultReport"}
      /\ apPc' # "faultStore"
  <2> USE NoSlotIsNone, <1>t DEF ApNext, HoldInv, WorkPcs, MarkingPcs, MarkedPcs, IndexInv
  <2>1. CASE Claim \/ Skip \/ SweepAgain \/ Idle \/ Wake
    BY <2>1 DEF Claim, Skip, SweepAgain, Idle, Wake
  <2>2. CASE Start \/ Handle \/ Hang \/ note_ap_request_handled
    BY <2>2 DEF Start, Handle, Hang, note_ap_request_handled
  <2>3. CASE CompleteDone \/ NoteDone \/ NotifyDone
    BY <2>3 DEF CompleteDone, NoteDone, NotifyDone
  <2>4. CASE Miss \/ MissNote \/ MissComplete \/ MissNotify
    BY <2>4 DEF Miss, MissNote, MissComplete, MissNotify
  <2>5. CASE FaultInHandler \/ ApFault
    BY <2>5 DEF FaultInHandler, ApFault, Fault, EnterFault
  <2>6. CASE FaultReport \/ FaultPending \/ FaultRunning \/ FaultEmpty
    BY <2>6 DEF FaultReport, FaultPending, FaultRunning, FaultCas, FaultEmpty, HasSlot
  <2>7. CASE FaultStore \/ FaultMark \/ FaultNotify
    BY <2>7 DEF FaultStore, FaultMark, FaultNotify
  <2> QED
    BY <2>1, <2>2, <2>3, <2>4, <2>5, <2>6, <2>7 DEF ApStep, ApNext
<1> QED BY <1>1, <1>2 DEF HoldInv

(* During the broadcast the AP dispatches nothing but the ping.            *)
LEMMA PingOnly ==
    ASSUME IInv, bspPc = "reset", apPc = "dispatch"
    PROVE  slotReq[apI] = BcPing
<1>1. apI \in Slots /\ slotReq[apI] \in Reqs
  BY DEF IInv, IndexInv, RequestInv, SlotPcs, WorkPcs
<1>2. slotReq[apI] \notin 1 .. PlanCount
  BY <1>1 DEF IInv, UnservedInv
<1>3. PlanCount \in Nat /\ Reqs = 1 .. PlanCount + 1 /\ BcPing = PlanCount + 1
  BY PlanAssumption, BroadcastAssumption DEF PlanAssumption, BroadcastAssumption, BcPing, Reqs
<1> QED BY <1>1, <1>2, <1>3

(* It does so in slot 0, once the BSP has stored PENDING there, and leaves *)
(* counter_value alone.                                                    *)
LEMMA ApKeepsPing ==
    ASSUME IInv, bspPc = "reset", HoldInv, ActiveInv, PingInv, ApNext, UNCHANGED bcVars
    PROVE  PingInv'
<1>u. UNCHANGED <<bcPc, saved, bootOk, slotReq>>
  BY ApFrame DEF bcVars, bspVars
<1>t. TypeOK /\ IndexInv /\ BcSlot \in Slots
  BY PingIsRequest DEF IInv
<1>w. /\ \A s \in Slots : slotState'[s] = "EMPTY" <=> slotState[s] = "EMPTY"
      /\ \A s \in Slots : slotState'[s] = "PENDING" => slotState[s] = "PENDING"
      /\ \A s \in Slots : slotState[s] \notin {"PENDING", "RUNNING"} => slotState'[s] = slotState[s]
  BY <1>t, ApWord DEF ApWrite, HoldInv
<1>1. counterValue' = saved.counter
  BY ApCounter, PingOnly, PingIsRequest DEF Handle, PingInv
<1>2. /\ \A s \in Slots : s # BcSlot => slotState'[s] = "EMPTY" /\ slotReq[s] = NoReq
      /\ bcPc \in BeforePcs => slotState'[BcSlot] = "EMPTY" /\ slotReq[BcSlot] = NoReq
      /\ bcPc \in WritePcs => slotState'[BcSlot] = "EMPTY" /\ slotReq[BcSlot] = BcPing
      /\ bcPc \notin {"accept", "restore"} => bootOk
      /\ bcPc \in WaitPcs => slotState'[BcSlot] # "EMPTY" /\ slotReq[BcSlot] = BcPing
  BY <1>t, <1>w DEF PingInv
<1>3. /\ bcPc = "expireRunning" => slotState'[BcSlot] # "PENDING"
      /\ bcPc = "record" => ap_request_state_finished(slotState'[BcSlot])
      /\ bcPc = "restore" => slotState'[BcSlot] \notin {"PENDING", "RUNNING"}
  BY <1>t, <1>w DEF PingInv, ap_request_state_finished, ap_request_state_terminal
<1>4. ASSUME bcPc \in BeforePcs \cup WritePcs
      PROVE  execs'[BcPing] = 0 /\ currentSlot' = NoSlot /\ apPc' \notin SlotPcs
  <2>1. execs[BcPing] = 0 /\ currentSlot = NoSlot /\ apPc \notin SlotPcs
    BY <1>4 DEF PingInv
  <2>2. \A s \in Slots : slotState[s] = "EMPTY"
    BY <1>4 DEF PingInv
  <2>3. execs' = execs
    BY <2>1, ApExecs DEF SlotPcs, WorkPcs
  <2> QED BY <2>1, <2>2, <2>3, ApMoves DEF SlotPcs, WorkPcs
<1>5. apPc' = "hung" => slotState'[apI'] \in {"RUNNING", "TIMEOUT"}
  <2>1. apPc' = "hung" => /\ apI' = apI /\ slotState' = slotState
                          /\ apPc = "dispatch"
    BY DEF ApNext, ApStep, ApFault, Claim, Skip, SweepAgain, Idle, Wake, Start,
     Handle, Hang, note_ap_request_handled, CompleteDone, NoteDone, NotifyDone, Miss,
     MissNote, MissComplete, MissNotify, FaultInHandler, Fault, EnterFault, FaultReport,
     FaultPending, FaultRunning, FaultCas, FaultEmpty, FaultStore, FaultMark, FaultNotify,
     slotVars, FaultablePcs
  <2> QED BY <2>1 DEF ActiveInv, ServePcs, WorkPcs
<1> QED BY <1>u, <1>1, <1>2, <1>3, <1>4, <1>5 DEF PingInv

(* The verdict of the BSP on the ping is final.                            *)
LEMMA ApKeepsVerdict ==
    ASSUME RoundInv, TimedOut, ApNext, UNCHANGED bcVars
    PROVE  TimedOut'
<1>u. UNCHANGED <<bcPc, bcEntry>>
  BY DEF bcVars
<1>1. CASE bcEntry = "TIMEOUT"
  BY <1>1, <1>u DEF TimedOut
<1>2. CASE bcEntry # "TIMEOUT"
  <2>1. bcPc = "record" /\ slotState[BcSlot] = "TIMEOUT" /\ IInv /\ HoldInv
    BY <1>2 DEF TimedOut, RoundInv
  <2>2. slotState'[BcSlot] = "TIMEOUT"
    BY <2>1, PingIsRequest, ApWord DEF ApWrite, HoldInv, IInv
  <2> QED BY <1>u, <2>1, <2>2 DEF TimedOut
<1> QED BY <1>1, <1>2

(* A step of the AP keeps the invariant, whatever the BSP is doing.        *)
LEMMA ApKeepsRound ==
    ASSUME RoundInv, ApNext, UNCHANGED bcVars
    PROVE  RoundInv'
<1>u. UNCHANGED <<bspPc, history, counterBase, bcPc, bcEntry, saved>>
  BY ApFrame DEF bcVars, bspVars
<1>1. BcTypeOK'
  BY <1>u DEF RoundInv, BcTypeOK
<1>2. bcEntry # "TIMEOUT" => IInv' /\ (bcPc # "done" => HoldInv')
  BY ApHolds, ApKeepsHold DEF RoundInv
<1>3. ASSUME ~TimedOut'
      PROVE  /\ LedgerInv' /\ FaultInv' /\ CounterInv'
             /\ (\E extra \in 0 .. 1 : SummaryInv(extra))'
             /\ IF bcPc = "done" THEN SettledInv' ELSE PingInv'
  <2>0. ~TimedOut
    BY <1>3, ApKeepsVerdict
  <2>1. /\ IInv /\ LedgerInv /\ FaultInv /\ CounterInv
        /\ bcPc = "done" => SettledInv
        /\ bcPc # "done" => PingInv /\ HoldInv /\ bspPc = "reset"
    BY <2>0 DEF RoundInv, TimedOut, BcTypeOK
  <2>2. PICK extra \in 0 .. 1 : SummaryInv(extra)
    BY <2>0 DEF RoundInv
  <2>3. SummaryInv(extra)'
    BY <2>1, <2>2, ApKeepsSummary DEF LedgerInv
  <2>4. apPc = "dispatch" /\ Handler(slotReq[apI]) = "counter" => slotReq[apI] \in 1 .. PlanCount
    BY <2>1, ServedIsPlanned, PingOnly, PingIsRequest
  <2>5. LedgerInv' /\ FaultInv' /\ CounterInv'
    BY <2>1, <2>4, ApKeepsLedger, ApKeepsFault, ApKeepsCounter DEF LedgerInv
  <2>6. CASE bcPc = "done"
    BY <2>1, <2>3, <2>5, <2>6, ApSettledStep
  <2>7. CASE bcPc # "done"
    BY <2>1, <2>3, <2>5, <2>7, ApKeepsPing DEF LedgerInv
  <2> QED BY <2>6, <2>7
<1> QED BY <1>u, <1>1, <1>2, <1>3 DEF RoundInv

-----------------------------------------------------------------------------
(* Steps of the BSP.                                                       *)

(* Everything but the latched completion IPI and request_handled_count.    *)
calmVars == <<slotVars, bootVars, currentSlot, counterValue, queue, kick, apTimer, apPc,
              apI, handledWork, faultTest, execs, bspVars>>

(* These two matter to the types only ...                                  *)
LEMMA CalmStep ==
    ASSUME IInv, UNCHANGED calmVars, ipi' \in BOOLEAN, handledCount' \in Nat
    PROVE  /\ IInv'
           /\ HoldInv => HoldInv'
<1> USE DEF calmVars, slotVars, bootVars, bspVars
<1>1. TypeOK'
  <2>1. ApFlagsOK' /\ BspFlagsOK'
    BY DEF IInv, TypeOK, ApTypeOK, ApFlagsOK, BspFlagsOK
  <2> QED BY <2>1 DEF IInv, TypeOK, ApTypeOK
<1>2. /\ IndexInv' /\ RequestInv' /\ FirstRoundInv' /\ HandOverInv' /\ UnservedInv'
      /\ RunningIsOwned' /\ DeathInv' /\ AtMostOnce'
  BY DEF IInv, IndexInv, RequestInv, Leaving, FirstRoundInv, Untouched, HandOverInv,
         UnservedInv, RunningIsOwned, DeathInv, AtMostOnce
<1>3. HoldInv => HoldInv'
  BY DEF HoldInv
<1> QED BY <1>1, <1>2, <1>3 DEF IInv

LEMMA CalmLedger ==
    ASSUME UNCHANGED calmVars, LedgerInv, FaultInv, CounterInv
    PROVE  LedgerInv' /\ FaultInv' /\ CounterInv'
<1> USE DEF calmVars, slotVars, bootVars, bspVars
<1>1. LifeInv' /\ StopInv' /\ ActiveInv'
  BY DEF LedgerInv, LifeInv, StopInv, Over, ActiveInv, NoActiveSlot
<1>2. SlotsAreTrue' /\ HistoryInv'
  BY DEF LedgerInv, SlotsAreTrue, HasSlot, Answered, HistoryInv, EntryInv, Over
<1>3. AccountInv'
  BY DEF LedgerInv, AccountInv, ActiveSlots, Recorded
<1>4. FaultInv'
  BY DEF FaultInv, FaultCarriesVector, PlainFault, HasSlot
<1>5. CounterInv'
  BY DEF CounterInv, Uncounted, Credited
<1> QED BY <1>1, <1>2, <1>3, <1>4, <1>5 DEF LedgerInv

LEMMA CalmSummary ==
    ASSUME UNCHANGED calmVars, NEW extra \in 0 .. 1, SummaryInv(extra)
    PROVE  SummaryInv(extra)'
BY DEF calmVars, slotVars, bootVars, bspVars, SummaryInv, Unrecorded, ap_request_all_done,
       NotNoted

(* ... so a step that changes nothing keeps the invariant ...              *)
LEMMA RoundStutters ==
    ASSUME RoundInv, UNCHANGED roundVars
    PROVE  RoundInv'
<1>u. /\ UNCHANGED calmVars /\ UNCHANGED <<ipi, handledCount>>
      /\ UNCHANGED <<bcPc, bcEntry, saved>>
  BY DEF roundVars, vars, apVars, bcVars, calmVars
<1>1. BcTypeOK'
  BY <1>u DEF RoundInv, BcTypeOK, calmVars, bspVars
<1>2. bcEntry # "TIMEOUT" => IInv' /\ (bcPc # "done" => HoldInv')
  <2>1. IInv => ipi' \in BOOLEAN /\ handledCount' \in Nat
    BY <1>u DEF IInv, TypeOK, ApTypeOK, ApFlagsOK
  <2> QED BY <1>u, <2>1, CalmStep DEF RoundInv
<1>3. ASSUME ~TimedOut'
      PROVE  /\ LedgerInv' /\ FaultInv' /\ CounterInv'
             /\ (\E extra \in 0 .. 1 : SummaryInv(extra))'
             /\ IF bcPc = "done" THEN SettledInv' ELSE PingInv'
  <2>0. ~TimedOut
    BY <1>3, <1>u DEF TimedOut, calmVars, slotVars
  <2>1. LedgerInv' /\ FaultInv' /\ CounterInv'
    BY <1>u, <2>0, CalmLedger DEF RoundInv
  <2>2. PICK extra \in 0 .. 1 : SummaryInv(extra)
    BY <2>0 DEF RoundInv
  <2>3. SummaryInv(extra)'
    BY <1>u, <2>2, CalmSummary
  <2>4. IF bcPc = "done" THEN SettledInv' ELSE PingInv'
    BY <1>u, <2>0 DEF RoundInv, SettledInv, Leaving, PingInv, calmVars, slotVars, bootVars, bspVars
  <2> QED BY <2>1, <2>3, <2>4
<1> QED BY <1>u, <1>1, <1>2, <1>3 DEF RoundInv

(* ... and the stream keeps it: the reset fixes whether the ping is still  *)
(* to be noted.                                                            *)
LEMMA StreamKeepsRound ==
    ASSUME RoundInv, StreamStep
    PROVE  RoundInv'
<1>u. bcPc = "done" /\ BspStep /\ UNCHANGED <<bcPc, bcEntry, saved>>
  BY DEF StreamStep, bcVars
<1>1. BcTypeOK'
  BY <1>u DEF RoundInv, BcTypeOK
<1>2. CASE bcEntry = "TIMEOUT"
  BY <1>u, <1>1, <1>2 DEF RoundInv, TimedOut
<1>3. CASE bcEntry # "TIMEOUT"
  <2>1. IInv /\ SettledInv /\ LedgerInv /\ FaultInv /\ CounterInv
    BY <1>u, <1>3 DEF RoundInv, TimedOut
  <2>2. IInv' /\ SettledInv'
    BY <1>u, <2>1, BspHolds
  <2>3. LedgerInv' /\ FaultInv' /\ CounterInv'
    BY <1>u, <2>1, <2>2, BspKeepsLedger, BspKeepsFault, BspKeepsCounter
  <2>4. PICK extra \in 0 .. 1 : SummaryInv(extra) /\ (bspPc = "reset" => extra = NotNoted)
    <3>1. PICK e \in 0 .. 1 : SummaryInv(e)
      BY <1>u, <1>3 DEF RoundInv, TimedOut
    <3>2. CASE bspPc = "reset"
      <4>1. SummaryInv(NotNoted) /\ NotNoted \in 0 .. 1
        BY <3>1, <3>2 DEF SummaryInv, NotNoted
      <4> QED BY <4>1
    <3> QED BY <3>1, <3>2
  <2>5. SummaryInv(extra)'
    BY <1>u, <2>1, <2>4, BspKeepsSummary
  <2> QED BY <1>u, <1>1, <2>2, <2>3, <2>5 DEF RoundInv
<1> QED BY <1>2, <1>3

(* The stores of the broadcast to the state word of its slot.              *)
BcWord(w) ==
    /\ slotState' = [slotState EXCEPT ![BcSlot] = w]
    /\ UNCHANGED <<slotReq, apOwned, queue, kick, ipi, bspVars>>

(* What a store finds: publish finds the slot EMPTY and the AP idle, the   *)
(* timeout leaves whoever works on the slot to find out.                   *)
LEMMA WordKeepsIInv ==
    ASSUME IInv, HoldInv, PingInv, bspPc = "reset", slotReply' \in [Slots -> Reply],
           NEW w \in {"PENDING", "FAULT", "SKIPPED", "TIMEOUT"}, BcWord(w),
           w = "TIMEOUT" \/ bcPc \in WritePcs
    PROVE  IInv' /\ HoldInv'
<1>u. /\ UNCHANGED <<slotReq, queue, kick, ipi, bspVars, apState, entryState, fault, currentSlot,
                     handledCount, counterValue, apTimer, apPc, apI, handledWork, execs>>
      /\ UNCHANGED bspPc
  BY DEF BcWord, apOwned, bootVars, bspVars
<1>s. slotState \in [Slots -> Status] /\ BcSlot \in Slots /\ w \in Status
  BY PingIsRequest DEF IInv, TypeOK, ApTypeOK, Status
<1>w. /\ slotState' \in [Slots -> Status] /\ slotState'[BcSlot] = w
      /\ \A s \in Slots : s # BcSlot => slotState'[s] = slotState[s]
  BY <1>s DEF BcWord
<1>p. w # "TIMEOUT" => /\ slotReq[BcSlot] = BcPing /\ execs[BcPing] = 0
                       /\ currentSlot = NoSlot /\ apPc \notin SlotPcs
  BY DEF PingInv
<1>1. TypeOK'
  <2>1. ApFlagsOK' /\ BspFlagsOK'
    BY <1>u DEF IInv, TypeOK, ApTypeOK, ApFlagsOK, BspFlagsOK, bspVars
  <2>2. ApTypeOK'
    BY <1>u, <1>w, <2>1 DEF IInv, TypeOK, ApTypeOK
  <2> QED BY <1>u, <2>1, <2>2 DEF IInv, TypeOK, bspVars
<1>2. IndexInv' /\ DeathInv' /\ AtMostOnce'
  BY <1>u DEF IInv, IndexInv, DeathInv, AtMostOnce, bspVars
<1>3. RequestInv'
  BY <1>u, <1>w, <1>p, PingIsRequest DEF IInv, RequestInv, Leaving, PreparedPcs
<1>4. FirstRoundInv'
  BY <1>u DEF FirstRoundInv, PubPcs, PrepPcs
<1>5. HandOverInv'
  BY <1>u, <1>w, <1>p DEF IInv, HandOverInv, HoldInv, PrepPcs, IndexInv, SlotPcs
<1>6. UnservedInv'
  <2>1. \A s \in Slots : slotState'[s] = "PENDING" => execs[slotReq[s]] = 0
    BY <1>w, <1>p DEF IInv, UnservedInv
  <2>2. UNCHANGED nextPlan
    BY <1>u DEF bspVars
  <2> QED BY <1>u, <2>1, <2>2 DEF IInv, UnservedInv
<1>7. RunningIsOwned'
  BY <1>u, <1>w DEF IInv, RunningIsOwned
<1>8. HoldInv'
  BY <1>u, <1>w DEF HoldInv
<1> QED BY <1>1, <1>2, <1>3, <1>4, <1>5, <1>6, <1>7, <1>8 DEF IInv

(* A store that publishes the ping says what it means.                     *)
LEMMA WordKeepsLedger ==
    ASSUME IInv, LedgerInv, FaultInv, CounterInv, PingInv, bspPc = "reset", history = <<>>,
           bcPc \in WritePcs, NEW w \in {"PENDING", "FAULT", "SKIPPED"}, BcWord(w),
           \A s \in Slots : s # BcSlot => slotReply'[s] = slotReply[s],
           w = "FAULT" => apState = "FAULTED" /\ slotReply'[BcSlot].fault = fault.vector,
           w = "SKIPPED" => apState = "HALTED"
    PROVE  LedgerInv' /\ FaultInv' /\ CounterInv'
<1>u. UNCHANGED <<slotReq, bspVars, apState, fault, currentSlot, counterValue, apPc, apI, execs>>
  BY DEF BcWord, apOwned, bootVars
<1>v. UNCHANGED <<bspPc, bootOk, stopped, active, nextPlan, history, completed, bspI, counterBase>>
  BY <1>u DEF bspVars
<1>s. slotState \in [Slots -> Status] /\ BcSlot \in Slots
  BY PingIsRequest DEF IInv, TypeOK, ApTypeOK
<1>w. /\ slotState'[BcSlot] = w
      /\ \A s \in Slots : s # BcSlot => slotState'[s] = "EMPTY"
  BY <1>s DEF BcWord, PingInv
<1>p. /\ slotReq[BcSlot] = BcPing /\ execs[BcPing] = 0 /\ bootOk
      /\ currentSlot = NoSlot /\ apPc \notin SlotPcs
  BY DEF PingInv, WritePcs
<1>h. DOMAIN history' = {}
  BY <1>v
<1>1. LifeInv'
  BY <1>u, <1>v, <1>p DEF LedgerInv, LifeInv
<1>2. StopInv'
  BY <1>u, <1>v, <1>w DEF LedgerInv, StopInv, Over, PubPcs, PrepPcs
<1>3. ActiveInv'
  <2>1. \A s \in Slots : ~active[s]
    BY DEF LedgerInv, ActiveInv, NoActiveSlot
  <2>2. apPc \notin ServePcs
    BY <1>p DEF ServePcs, SlotPcs
  <2> QED BY <1>u, <1>v, <1>w, <1>p, <2>1, <2>2, PingIsRequest
          DEF ActiveInv, NoActiveSlot, PubPcs, PrepPcs, RewritePcs, ExpirePcs
<1>4. SlotsAreTrue'
  BY <1>u, <1>w, <1>p, NoSlotIsNone DEF SlotsAreTrue, SlotPcs, WorkPcs, HasSlot
<1>5. HistoryInv'
  BY <1>h DEF HistoryInv
<1>6. AccountInv'
  BY <1>u, <1>v DEF LedgerInv, AccountInv, ActiveSlots, Recorded
<1>7. FaultInv'
  <2>1. w = "FAULT" => apPc \in MarkedPcs
    BY DEF LedgerInv, LifeInv, MarkedPcs
  <2>2. ~HasSlot'
    BY <1>u, <1>p, NoSlotIsNone DEF HasSlot
  <2>3. FaultCarriesVector'
    BY <1>h DEF FaultCarriesVector
  <2> QED BY <1>u, <1>v, <1>w, <1>h, <2>1, <2>2, <2>3 DEF FaultInv, PrepPcs
<1>8. CounterInv'
  BY <1>u, <1>v DEF CounterInv, Uncounted, Credited
<1> QED BY <1>1, <1>2, <1>3, <1>4, <1>5, <1>6, <1>7, <1>8 DEF LedgerInv

LEMMA WordKeepsSummary ==
    ASSUME IInv, bspPc = "reset", NEW extra \in 0 .. 1, SummaryInv(extra),
           NEW w \in {"PENDING", "FAULT", "SKIPPED"}, BcWord(w)
    PROVE  SummaryInv(extra)'
<1>1. UNCHANGED <<bspPc, completed>>
  BY DEF BcWord, bspVars
<1>2. BcSlot \in Slots /\ slotState'[BcSlot] = w
  BY PingIsRequest DEF BcWord, IInv, TypeOK, ApTypeOK
<1>3. ~ap_request_all_done'
  BY <1>2 DEF ap_request_all_done
<1> QED BY <1>1, <1>3 DEF SummaryInv

(* The preparation of the slot, which the AP does not look at meanwhile.   *)
LEMMA PublishKeeps ==
    ASSUME IInv, HoldInv, LedgerInv, FaultInv, CounterInv, PingInv, bspPc = "reset",
           history = <<>>, NEW extra \in 0 .. 1, SummaryInv(extra), BcPublish
    PROVE  /\ IInv' /\ HoldInv' /\ LedgerInv' /\ FaultInv' /\ CounterInv' /\ SummaryInv(extra)'
           /\ slotState' = slotState /\ slotReq'[BcSlot] = BcPing
           /\ \A s \in Slots : s # BcSlot => slotReq'[s] = slotReq[s]
<1>p. /\ slotState[BcSlot] = "EMPTY" /\ slotReq[BcSlot] = NoReq /\ BcSlot \in Slots
      /\ \A s \in Slots : s # BcSlot => slotState[s] = "EMPTY" /\ slotReq[s] = NoReq
      /\ execs[BcPing] = 0 /\ currentSlot = NoSlot /\ apPc \notin SlotPcs
  BY PingIsRequest DEF BcPublish, BcGoto, PingInv, BeforePcs
<1>u. UNCHANGED <<queue, kick, ipi, bspVars, apState, entryState, fault, currentSlot,
                  handledCount, counterValue, apTimer, apPc, apI, handledWork, execs>>
  BY DEF BcPublish, BcGoto, apOwned, bootVars
<1>v. UNCHANGED <<bspPc, bootOk, stopped, active, nextPlan, history, completed, bspI, counterBase,
                  result>>
  BY <1>u DEF bspVars
<1>t. /\ slotState \in [Slots -> Status] /\ slotReq \in [Slots -> Reqs \cup {NoReq}]
      /\ slotReply \in [Slots -> Reply]
  BY DEF IInv, TypeOK, ApTypeOK
<1>s. slotState' = slotState
  BY <1>p, <1>t DEF BcPublish
<1>r. /\ slotReq' \in [Slots -> Reqs \cup {NoReq}] /\ slotReq'[BcSlot] = BcPing
      /\ \A s \in Slots : s # BcSlot => slotReq'[s] = NoReq /\ slotReq'[s] = slotReq[s]
  BY <1>p, <1>t, PingIsRequest DEF BcPublish
<1>y. slotReply' \in [Slots -> Reply]
  <2>1. ResetReply \in Reply
    BY DEF ResetReply, Reply
  <2> QED BY <1>t, <2>1 DEF BcPublish
<1>1. TypeOK'
  <2>1. ApFlagsOK' /\ BspFlagsOK'
    BY <1>u DEF IInv, TypeOK, ApTypeOK, ApFlagsOK, BspFlagsOK, bspVars
  <2>2. ApTypeOK'
    BY <1>u, <1>s, <1>r, <1>y, <2>1 DEF IInv, TypeOK, ApTypeOK
  <2> QED BY <1>u, <2>1, <2>2 DEF IInv, TypeOK, bspVars
<1>2. IndexInv' /\ DeathInv' /\ AtMostOnce' /\ RunningIsOwned' /\ HandOverInv' /\ HoldInv'
  BY <1>u, <1>s DEF IInv, IndexInv, DeathInv, AtMostOnce, RunningIsOwned, HandOverInv, HoldInv,
     bspVars
<1>3. RequestInv' /\ FirstRoundInv'
  BY <1>u, <1>v, <1>s, <1>p, NoSlotIsNone
  DEF RequestInv, FirstRoundInv, PreparedPcs, PubPcs, PrepPcs, SlotPcs
<1>4. UnservedInv'
  <2>1. \A s \in Slots : slotReq'[s] \notin 1 .. PlanCount
    BY <1>r, PingIsRequest DEF NoReq
  <2>2. \A s, q \in Slots : slotReq'[s] = slotReq'[q] => s = q \/ slotReq'[s] = NoReq
    BY <1>r, PingIsRequest
  <2>3. \A s \in Slots : slotState'[s] # "PENDING"
    BY <1>s, <1>p
  <2> QED BY <1>u, <1>v, <1>p, <2>1, <2>2, <2>3 DEF IInv, UnservedInv, SlotPcs, WorkPcs
<1>5. LifeInv' /\ StopInv' /\ AccountInv'
  BY <1>u, <1>v, <1>s
  DEF LedgerInv, LifeInv, StopInv, Over, AccountInv, ActiveSlots, Recorded, ActiveInv, NoActiveSlot
<1>6. ActiveInv'
  <2>1. \A s \in Slots : ~active[s] /\ slotState[s] = "EMPTY"
    BY <1>p DEF LedgerInv, ActiveInv, NoActiveSlot
  <2>2. apPc \notin ServePcs
    BY <1>p DEF ServePcs, SlotPcs
  <2> QED BY <1>u, <1>v, <1>s, <2>1, <2>2
          DEF ActiveInv, NoActiveSlot, PubPcs, PrepPcs, RewritePcs, ExpirePcs
<1>7. SlotsAreTrue' /\ HistoryInv'
  BY <1>u, <1>v, <1>s, <1>p, NoSlotIsNone
  DEF SlotsAreTrue, SlotPcs, WorkPcs, HasSlot, HistoryInv
<1>8. FaultInv'
  BY <1>u, <1>v, <1>s, <1>p, NoSlotIsNone DEF FaultInv, HasSlot, PrepPcs, FaultCarriesVector
<1>9. CounterInv' /\ SummaryInv(extra)'
  BY <1>u, <1>v, <1>s
  DEF CounterInv, Uncounted, Credited, SummaryInv, Unrecorded, ap_request_all_done, NotNoted
<1> QED BY <1>s, <1>r, <1>1, <1>2, <1>3, <1>4, <1>5, <1>6, <1>7, <1>8, <1>9 DEF IInv, LedgerInv

(* The end of the broadcast: the ping has been settled or never published, *)
(* so that the AP is on its way to forget slot 0 if it has not yet.        *)
LEMMA RestoreSettles ==
    ASSUME IInv, HoldInv, LedgerInv, FaultInv, PingInv, bspPc = "reset", bcPc = "restore"
    PROVE  SettledInv
<1>1. \A s \in Slots : slotState[s] \notin {"PENDING", "RUNNING", "TIMEOUT"}
  BY DEF PingInv, LedgerInv, StopInv, ExpirePcs
<1>2. apPc \notin ServePcs
  BY <1>1 DEF LedgerInv, ActiveInv, IInv, IndexInv, SlotPcs, ServePcs
<1>3. apPc # "hung"
  BY <1>1 DEF PingInv, IInv, IndexInv, SlotPcs
<1>4. apPc \in MarkingPcs \cup {"faultReport"} /\ currentSlot \in Slots => fault.state # "RUNNING"
  BY <1>1 DEF FaultInv, HasSlot
<1> QED BY <1>1, <1>2, <1>3, <1>4 DEF SettledInv, HoldInv, Leaving, ServePcs

(* The broadcast advances as its program counter says.                     *)
LEMMA BcMoves ==
    ASSUME Broadcast, BcTypeOK
    PROVE  BcTypeOK'
<1> USE DEF BcTypeOK, BeforePcs, WritePcs, WaitPcs, BcGoto, bspVars
<1>1. CASE BcAccept \/ BcPublish \/ BcFaulted \/ BcHalted \/ BcStore
  BY <1>1 DEF BcAccept, BcPublish, BcFaulted, BcHalted, BcStore
<1>2. CASE BcScan \/ BcWake
  BY <1>2 DEF BcScan, BcLook, BcWake
<1>3. CASE BcExpire \/ BcExpireRunning \/ BcRecord
  BY <1>3 DEF BcExpire, BcExpireRunning, BcRecord
<1>4. CASE BcRestore
  BY <1>4 DEF BcRestore
<1> QED BY <1>1, <1>2, <1>3, <1>4 DEF Broadcast

(* A step of the broadcast keeps the invariant or times the ping out.      *)
LEMMA BcKeeps ==
    ASSUME BcTypeOK, bcPc # "done", ~TimedOut, Broadcast,
           IInv, HoldInv, LedgerInv, FaultInv, CounterInv, PingInv,
           NEW extra \in 0 .. 1, SummaryInv(extra)
    PROVE  /\ IInv' /\ HoldInv'
           /\ TimedOut' \/ /\ LedgerInv' /\ FaultInv' /\ CounterInv' /\ SummaryInv(extra)'
                           /\ IF bcPc' = "done" THEN SettledInv' ELSE PingInv'
<1>b. /\ bspPc = "reset" /\ history = <<>> /\ BcSlot \in Slots
      /\ saved.counter \in Nat /\ saved.handled \in Nat
  BY PingIsRequest DEF BcTypeOK
<1>t. /\ slotState \in [Slots -> Status] /\ slotReply \in [Slots -> Reply]
      /\ handledCount \in Nat /\ ipi \in BOOLEAN /\ fault.vector \in Nat
  BY DEF IInv, TypeOK, ApTypeOK, ApFlagsOK, FaultInfo
<1> DEFINE stay == UNCHANGED <<slotVars, apOwned, queue, kick, bspVars>>
<1>c. ASSUME stay, ipi' \in BOOLEAN
      PROVE  /\ IInv' /\ HoldInv' /\ LedgerInv' /\ FaultInv' /\ CounterInv' /\ SummaryInv(extra)'
             /\ UNCHANGED <<slotState, slotReq, apPc, apI, currentSlot, execs, counterValue, bootOk>>
  <2>1. UNCHANGED calmVars /\ handledCount' \in Nat
    BY <1>c, <1>t DEF calmVars, apOwned
  <2> QED BY <1>c, <2>1, CalmStep, CalmLedger, CalmSummary DEF calmVars, slotVars, bspVars
<1>1. CASE BcAccept
  <2>1. stay /\ ipi' \in BOOLEAN
    BY <1>1, <1>t DEF BcAccept, BcGoto
  <2>2. PingInv'
    BY <1>1, <1>b, <1>c, <2>1 DEF BcAccept, BcGoto, ap_context_can_accept_broadcast_ping,
       PingInv, BeforePcs, WritePcs, WaitPcs
  <2> QED BY <1>1, <1>c, <2>1, <2>2 DEF BcAccept, BcGoto
<1>2. CASE BcPublish
  <2>1. /\ IInv' /\ HoldInv' /\ LedgerInv' /\ FaultInv' /\ CounterInv' /\ SummaryInv(extra)'
        /\ slotState' = slotState /\ slotReq'[BcSlot] = BcPing
        /\ \A s \in Slots : s # BcSlot => slotReq'[s] = slotReq[s]
    BY <1>2, <1>b, PublishKeeps
  <2>2. /\ UNCHANGED <<apPc, apI, currentSlot, execs, counterValue, bootOk, saved>>
        /\ bcPc = "publish" /\ bcPc' = "faulted"
    BY <1>2 DEF BcPublish, BcGoto, apOwned, bspVars
  <2>3. PingInv'
    BY <1>b, <2>1, <2>2 DEF PingInv, BeforePcs, WritePcs, WaitPcs
  <2> QED BY <2>1, <2>2, <2>3
<1> DEFINE publishes(w) ==
        /\ BcWord(w)
        /\ slotReply' \in [Slots -> Reply]
        /\ \A s \in Slots : s # BcSlot => slotReply'[s] = slotReply[s]
        /\ w = "FAULT" => apState = "FAULTED" /\ slotReply'[BcSlot].fault = fault.vector
        /\ w = "SKIPPED" => apState = "HALTED"
        /\ bcPc \in WritePcs /\ bcPc' = "scan" /\ saved' = saved
<1>w. ASSUME NEW w \in {"PENDING", "FAULT", "SKIPPED"}, publishes(w)
      PROVE  /\ IInv' /\ HoldInv' /\ LedgerInv' /\ FaultInv' /\ CounterInv' /\ SummaryInv(extra)'
             /\ bcPc' # "done" /\ PingInv'
  <2>1. IInv' /\ HoldInv'
    BY <1>w, <1>b, WordKeepsIInv
  <2>2. LedgerInv' /\ FaultInv' /\ CounterInv'
    BY <1>w, <1>b, WordKeepsLedger
  <2>3. SummaryInv(extra)'
    BY <1>w, <1>b, WordKeepsSummary
  <2>4. /\ UNCHANGED <<slotReq, apPc, counterValue, bootOk>>
        /\ slotState'[BcSlot] = w
        /\ \A s \in Slots : s # BcSlot => slotState'[s] = slotState[s]
    BY <1>w, <1>b, <1>t DEF BcWord, apOwned, bspVars
  <2>5. PingInv'
    BY <1>w, <1>b, <2>4 DEF PingInv, BeforePcs, WritePcs, WaitPcs, SlotPcs
  <2> QED BY <1>w, <2>1, <2>2, <2>3, <2>5
<1>3. CASE BcFaulted
  <2>1. CASE apState = "FAULTED"
    <3>1. publishes("FAULT")
      <4>1. slotReply' = [slotReply EXCEPT ![BcSlot].fault = fault.vector]
        BY <1>3, <2>1 DEF BcFaulted
      <4>2. /\ slotReply' \in [Slots -> Reply] /\ slotReply'[BcSlot].fault = fault.vector
            /\ \A s \in Slots : s # BcSlot => slotReply'[s] = slotReply[s]
        BY <1>t, <1>b, <4>1 DEF Reply
      <4> QED BY <1>3, <2>1, <4>2 DEF BcFaulted, BcGoto, BcWord, WritePcs
    <3> QED BY <3>1, <1>w
  <2>2. CASE apState # "FAULTED"
    <3>1. stay /\ ipi' \in BOOLEAN
      BY <1>3, <1>t, <2>2 DEF BcFaulted, BcGoto, slotVars
    <3>2. PingInv'
      BY <1>3, <1>b, <1>c, <2>2, <3>1 DEF BcFaulted, BcGoto, PingInv, BeforePcs, WritePcs, WaitPcs
    <3> QED BY <1>3, <1>c, <2>2, <3>1, <3>2 DEF BcFaulted, BcGoto
  <2> QED BY <2>1, <2>2
<1>4. CASE BcHalted
  <2>1. CASE apState = "HALTED"
    <3>1. publishes("SKIPPED")
      BY <1>4, <1>t, <1>b, <2>1 DEF BcHalted, BcGoto, BcWord, WritePcs
    <3> QED BY <3>1, <1>w
  <2>2. CASE apState # "HALTED"
    <3>1. stay /\ ipi' \in BOOLEAN
      BY <1>4, <1>t, <2>2 DEF BcHalted, BcGoto, slotVars
    <3>2. PingInv'
      BY <1>4, <1>b, <1>c, <2>2, <3>1 DEF BcHalted, BcGoto, PingInv, BeforePcs, WritePcs, WaitPcs
    <3> QED BY <1>4, <1>c, <2>2, <3>1, <3>2 DEF BcHalted, BcGoto
  <2> QED BY <2>1, <2>2
<1>5. CASE BcStore
  <2>1. publishes("PENDING")
    BY <1>5, <1>t, <1>b DEF BcStore, BcGoto, BcWord, WritePcs
  <2> QED BY <2>1, <1>w
<1>6. CASE BcScan
  <2>1. stay /\ ipi' \in BOOLEAN
    BY <1>6, <1>t DEF BcScan, BcLook, BcGoto
  <2>2. PingInv'
    BY <1>6, <1>b, <1>c, <2>1 DEF BcScan, BcLook, BcGoto, PingInv, BeforePcs, WritePcs, WaitPcs,
       ap_request_state_finished, ap_request_state_terminal
  <2> QED BY <1>6, <1>c, <2>1, <2>2 DEF BcScan, BcLook, BcGoto
<1>7. CASE BcWake
  <2>1. stay /\ ipi' \in BOOLEAN
    BY <1>7, <1>t DEF BcWake, BcGoto
  <2>2. PingInv'
    BY <1>7, <1>b, <1>c, <2>1 DEF BcWake, BcGoto, PingInv, BeforePcs, WritePcs, WaitPcs
  <2> QED BY <1>7, <1>c, <2>1, <2>2 DEF BcWake, BcGoto
<1> DEFINE expires == BcWord("TIMEOUT") /\ slotReply' = slotReply /\ bcPc' = "record"
<1>x. ASSUME expires
      PROVE  IInv' /\ HoldInv' /\ TimedOut'
  <2>1. slotState'[BcSlot] = "TIMEOUT"
    BY <1>x, <1>b, <1>t DEF BcWord
  <2> QED BY <1>x, <1>b, <1>t, <2>1, WordKeepsIInv DEF TimedOut
<1>8. CASE BcExpire
  <2>1. CASE slotState[BcSlot] = "PENDING"
    <3>1. expires
      BY <1>8, <2>1 DEF BcExpire, BcGoto, BcWord
    <3> QED BY <3>1, <1>x
  <2>2. CASE slotState[BcSlot] # "PENDING"
    <3>1. stay /\ ipi' \in BOOLEAN
      BY <1>8, <1>b, <1>t, <2>2 DEF BcExpire, BcGoto, slotVars
    <3>2. PingInv'
      BY <1>8, <1>b, <1>c, <2>2, <3>1 DEF BcExpire, BcGoto, PingInv, BeforePcs, WritePcs, WaitPcs
    <3> QED BY <1>8, <1>c, <2>2, <3>1, <3>2 DEF BcExpire, BcGoto
  <2> QED BY <2>1, <2>2
<1>9. CASE BcExpireRunning
  <2>1. CASE slotState[BcSlot] = "RUNNING"
    <3>1. expires
      BY <1>9, <2>1 DEF BcExpireRunning, BcGoto, BcWord
    <3> QED BY <3>1, <1>x
  <2>2. CASE slotState[BcSlot] # "RUNNING"
    <3>1. stay /\ ipi' \in BOOLEAN
      BY <1>9, <1>b, <1>t, <2>2 DEF BcExpireRunning, BcGoto, slotVars
    <3>0. ap_request_state_finished(slotState[BcSlot])
      BY <1>9, <1>b, <1>t, <2>2 DEF BcExpireRunning, BcGoto, PingInv, WaitPcs, Status,
         ap_request_state_finished, ap_request_state_terminal
    <3>2. PingInv'
      BY <1>9, <1>b, <1>c, <3>0, <3>1 DEF BcExpireRunning, BcGoto, PingInv, BeforePcs,
         WritePcs, WaitPcs
    <3> QED BY <1>9, <1>c, <3>1, <3>2 DEF BcExpireRunning, BcGoto
  <2> QED BY <2>1, <2>2
<1>10. CASE BcRecord
  <2>1. stay /\ ipi' \in BOOLEAN
    BY <1>10, <1>t DEF BcRecord, BcGoto
  <2>2. PingInv'
    BY <1>10, <1>b, <1>c, <2>1 DEF BcRecord, BcGoto, PingInv, BeforePcs, WritePcs, WaitPcs,
       ap_request_state_finished, ap_request_state_terminal
  <2> QED BY <1>10, <1>c, <2>1, <2>2 DEF BcRecord, BcGoto
<1>11. CASE BcRestore
  <2>1. /\ UNCHANGED calmVars /\ handledCount' \in Nat /\ ipi' \in BOOLEAN
        /\ bcPc = "restore" /\ bcPc' = "done"
    BY <1>11, <1>b DEF BcRestore, PingInv, calmVars
  <2>2. IInv' /\ HoldInv' /\ LedgerInv' /\ FaultInv' /\ CounterInv' /\ SummaryInv(extra)'
    BY <2>1, CalmStep, CalmLedger, CalmSummary
  <2>3. SettledInv
    BY <1>b, <2>1, RestoreSettles
  <2>4. SettledInv'
    BY <2>1, <2>3 DEF SettledInv, Leaving, calmVars, slotVars, bootVars, bspVars
  <2> QED BY <2>1, <2>2, <2>4
<1> QED BY <1>1, <1>2, <1>3, <1>4, <1>5, <1>6, <1>7, <1>8, <1>9, <1>10, <1>11 DEF Broadcast

(* The broadcast keeps the invariant.                                      *)
LEMMA BcKeepsRound ==
    ASSUME RoundInv, Broadcast
    PROVE  RoundInv'
<1>0. bcPc # "done"
  BY DEF Broadcast, BcAccept, BcPublish, BcFaulted, BcHalted, BcStore, BcScan, BcLook, BcWake,
     BcExpire, BcExpireRunning, BcRecord, BcRestore, BcGoto
<1>1. BcTypeOK /\ BcTypeOK'
  BY BcMoves DEF RoundInv
<1>2. CASE bcEntry = "TIMEOUT"
  <2>1. BcRestore
    BY <1>0, <1>1, <1>2 DEF BcTypeOK, Broadcast, BcAccept, BcPublish, BcFaulted, BcHalted,
       BcStore, BcScan, BcLook, BcWake, BcExpire, BcExpireRunning, BcRecord, BcGoto
  <2> QED BY <1>1, <1>2, <2>1 DEF BcRestore, RoundInv, TimedOut
<1>3. CASE bcEntry # "TIMEOUT" /\ TimedOut
  <2>1. bcPc = "record" /\ slotState[BcSlot] = "TIMEOUT"
    BY <1>3 DEF TimedOut
  <2>2. BcRecord
    BY <2>1 DEF Broadcast, BcAccept, BcPublish, BcFaulted, BcHalted,
       BcStore, BcScan, BcLook, BcWake, BcExpire, BcExpireRunning, BcRestore, BcGoto
  <2> QED BY <1>1, <2>1, <2>2 DEF BcRecord, RoundInv, TimedOut
<1>4. CASE ~TimedOut
  <2>1. IInv /\ HoldInv /\ LedgerInv /\ FaultInv /\ CounterInv /\ PingInv
    BY <1>0, <1>4 DEF RoundInv, TimedOut
  <2>2. PICK extra \in 0 .. 1 : SummaryInv(extra)
    BY <1>4 DEF RoundInv
  <2>3. /\ IInv' /\ HoldInv'
        /\ TimedOut' \/ /\ LedgerInv' /\ FaultInv' /\ CounterInv' /\ SummaryInv(extra)'
                        /\ IF bcPc' = "done" THEN SettledInv' ELSE PingInv'
    BY <1>0, <1>1, <1>4, <2>1, <2>2, BcKeeps
  <2> QED BY <1>1, <2>3 DEF RoundInv
<1> QED BY <1>2, <1>3, <1>4

(* Broadcast and stream on one inbox: unless the ping timed out, all that  *)
(* the stream relies on holds when it takes the inbox over, and all that   *)
(* has been shown of the stream holds afterwards.                          *)
THEOREM RoundInvariant == RoundSpec => []RoundInv
<1>1. RoundInit => RoundInv
  BY RoundInitHolds
<1>2. RoundInv /\ [RoundNext]_roundVars => RoundInv'
  <2> SUFFICES ASSUME RoundInv, [RoundNext]_roundVars PROVE RoundInv'
    OBVIOUS
  <2>1. CASE ApNext /\ UNCHANGED bcVars
    BY <2>1, ApKeepsRound
  <2>2. CASE Broadcast \/ StreamStep
    BY <2>2, BcKeepsRound, StreamKeepsRound
  <2>3. CASE HaltForever /\ UNCHANGED bcVars
    BY <2>3, RoundStutters DEF HaltForever, roundVars
  <2> QED BY <2>1, <2>2, <2>3, RoundStutters DEF RoundNext
<1> QED BY <1>1, <1>2, PTL DEF RoundSpec

(* A broadcast ping that did not time out leaves the stream an inbox       *)
(* nobody works on: each request is served at most once, the history says  *)
(* what happened to it, and for a plan as in CountersStayTogether the      *)
(* restored counters agree.                                                *)
THEOREM HandOverIsClean ==
    ASSUME PlanCount <= HistoryCount,
           \A r \in 1 .. PlanCount : Handler(r) = "counter" => Plan[r].opcode = "COUNTER"
    PROVE  RoundSpec => []CleanHandOver
<1>1. RoundInv => CleanHandOver
  <2> SUFFICES ASSUME RoundInv, bcEntry # "TIMEOUT"
               PROVE  AtMostOnce /\ OutcomeIsTrue /\ CountersAgree
    BY DEF CleanHandOver
  <2>1. IInv /\ AtMostOnce
    BY DEF RoundInv, IInv
  <2>2. CASE TimedOut
    <3>1. bspPc = "reset" /\ DOMAIN history = {} /\ counterBase = 0 /\ counterValue \in Nat
      BY <2>1, <2>2 DEF TimedOut, RoundInv, BcTypeOK, IInv, TypeOK, ApTypeOK
    <3> QED BY <2>1, <3>1 DEF OutcomeIsTrue, CountersAgree
  <2>3. CASE ~TimedOut
    <3>1. LedgerInv /\ CounterInv
      BY <2>3 DEF RoundInv
    <3>2. OutcomeIsTrue
      BY <3>1 DEF LedgerInv, HistoryInv, EntryInv, Answered, OutcomeIsTrue
    <3> QED BY <2>1, <3>1, <3>2, CountersFollow
  <2> QED BY <2>2, <2>3
<1> QED BY <1>1, RoundInvariant, PTL

(* After a stream that reports success, the queue summary counts the plan, *)
(* or the plan and the ping whose update came after the stream's reset,    *)
(* and says that the queue is drained.                                     *)
THEOREM SummaryIsOffByPing == RoundSpec => []SummaryOffByPing
<1>1. RoundInv => SummaryOffByPing
  <2> SUFFICES ASSUME RoundInv, bcEntry # "TIMEOUT", bspPc = "returned", result,
                      apPc \in {"notify", "sweep", "hlt"}
               PROVE  queue.handled \in PlanCount .. PlanCount + 1 /\ queue.stop = "DRAINED"
    BY DEF SummaryOffByPing
  <2>1. bcPc = "done" /\ ~TimedOut
    BY DEF RoundInv, BcTypeOK, TimedOut
  <2>2. IInv /\ LedgerInv
    BY <2>1 DEF RoundInv
  <2>3. PICK extra \in 0 .. 1 : SummaryInv(extra)
    BY <2>1 DEF RoundInv
  <2>4. queue.handled = PlanCount + extra /\ queue.stop = "DRAINED"
    BY <2>2, <2>3, SummaryAtReturn
  <2>5. PlanCount \in Nat
    BY PlanAssumption DEF PlanAssumption
  <2> QED BY <2>3, <2>4, <2>5
<1> QED BY <1>1, RoundInvariant, PTL
=============================================================================
