--------------------------- MODULE ApOutboxProofs ---------------------------
(***************************************************************************)
(* Proofs about the outboxes, for any set of slots, any capacity and any   *)
(* number of requests and enqueues.                                        *)
(*                                                                         *)
(* The argument.  Only the AP moves a slot from RUNNING to DONE, and it    *)
(* does so only for the request it claimed: when the BSP takes the slot    *)
(* away, the slot can be PENDING again but not RUNNING, since the one AP   *)
(* that claims is still busy.  So a slot the AP finds RUNNING after its    *)
(* copy is still that of the request it dispatched and holds what it       *)
(* copied (CopyInv, RunningInv), and what it copied is what its handler    *)
(* enqueued (ScratchInv).                                                  *)
(***************************************************************************)
EXTENDS ApOutbox, TLAPS

USE DEF ApState

(* Facts about the capacity.                                               *)
LEMMA Constants ==
    /\ Capacity \in Nat /\ Capacity > 0 /\ MaxRequests \in Nat
    /\ Entries = 0 .. Capacity - 1
    /\ None \in Nat \X Nat
BY OutboxAssumption DEF OutboxAssumption, Entries, None

(* reset_ap_request_outbox leaves a box without plans.                     *)
LEMMA EmptyType == Empty \in Outbox /\ Empty.count = 0 /\ Empty = Box(<<>>)
<1>1. Empty \in Outbox /\ Empty.count = 0
  BY Constants DEF Empty, Outbox
<1>2. Empty = Box(<<>>)
  BY Constants DEF Empty, Box
<1> QED BY <1>1, <1>2

(* append_ap_request_outbox adds at the end of what the box holds, or      *)
(* reports failure and leaves the box as it is.                            *)
LEMMA AppendToBox ==
    ASSUME NEW q \in Seq(Nat \X Nat), NEW plan \in Nat \X Nat, Box(q) \in Outbox,
           NEW r, r = append_ap_request_outbox(Box(q), plan)
    PROVE  /\ r.ok \in BOOLEAN
           /\ r.ok => r.box = Box(Append(q, plan)) /\ r.box \in Outbox
           /\ ~r.ok => r.box = Box(q)
<1>0. Len(q) \in Nat /\ Box(q).count = Len(q)
  BY DEF Box
<1>1. CASE Len(q) >= Capacity
  BY <1>0, <1>1 DEF append_ap_request_outbox
<1>2. CASE ~(Len(q) >= Capacity)
  <2>1. Len(q) \in Entries /\ Len(q) < Capacity
    BY <1>0, <1>2, Constants
  <2>2. r = [ok |-> TRUE, box |-> [count |-> Len(q) + 1,
                                   entry |-> [Box(q).entry EXCEPT ![Len(q)] = plan]]]
    BY <1>0, <1>2 DEF append_ap_request_outbox
  <2> DEFINE qq == Append(q, plan)
  <2>3. Len(qq) = Len(q) + 1 /\ qq[Len(q) + 1] = plan
        /\ \A k \in 0 .. Len(q) - 1 : qq[k + 1] = q[k + 1]
    BY <1>0
  <2>4. [Box(q).entry EXCEPT ![Len(q)] = plan]
          = [k \in Entries |-> IF k < Len(qq) THEN qq[k + 1] ELSE None]
    <3> DEFINE e == Box(q).entry
    <3>1. e \in [Entries -> Nat \X Nat]
      BY DEF Outbox
    <3>2. \A k \in Entries : e[k] = IF k < Len(q) THEN q[k + 1] ELSE None
      BY DEF Box
    <3> HIDE DEF e, qq
    <3>3. ASSUME NEW k \in Entries
          PROVE  [e EXCEPT ![Len(q)] = plan][k] = IF k < Len(qq) THEN qq[k + 1] ELSE None
      <4>0. k \in Nat
        BY Constants
      <4>1. CASE k = Len(q)
        BY <4>1, <3>1, <2>3, <1>0
      <4>2. CASE k < Len(q)
        <5>1. k \in 0 .. Len(q) - 1 /\ k < Len(qq) /\ k # Len(q)
          BY <4>0, <4>2, <2>3, <1>0
        <5>2. qq[k + 1] = q[k + 1]
          BY <5>1, <2>3
        <5> QED BY <3>1, <3>2, <4>2, <5>1, <5>2
      <4>3. CASE k > Len(q)
        <5>1. ~(k < Len(qq)) /\ ~(k < Len(q)) /\ k # Len(q)
          BY <4>0, <4>3, <2>3, <1>0
        <5> QED BY <3>1, <3>2, <5>1
      <4>4. k = Len(q) \/ k < Len(q) \/ k > Len(q)
        BY <4>0, <1>0
      <4> QED BY <4>1, <4>2, <4>3, <4>4
    <3> QED BY <3>1, <3>3 DEF e
  <2> HIDE DEF qq
  <2>5. r.box = Box(qq)
    <3>1. Box(qq) = [count |-> Len(q) + 1,
                     entry |-> [k \in Entries |-> IF k < Len(qq) THEN qq[k + 1] ELSE None]]
      BY <2>3 DEF Box
    <3> DEFINE e == [k \in Entries |-> IF k < Len(qq) THEN qq[k + 1] ELSE None]
               d == [Box(q).entry EXCEPT ![Len(q)] = plan]
    <3>2. d = e
      BY <2>4, Zenon
    <3>4. r = [ok |-> TRUE, box |-> [count |-> Len(q) + 1, entry |-> d]]
      BY <2>2, Zenon
    <3>3. Box(qq) = [count |-> Len(q) + 1, entry |-> e]
      BY <3>1, Zenon
    <3> HIDE DEF e, d
    <3> QED BY <3>2, <3>3, <3>4
  <2>6. r.box \in Outbox
    <3>1. Box(q).entry \in [Entries -> Nat \X Nat]
      BY DEF Outbox
    <3>2. Len(q) + 1 \in 0 .. Capacity
      BY <1>0, <2>1, Constants
    <3> QED BY <2>2, <3>1, <3>2, <2>1 DEF Outbox
  <2> QED BY <2>2, <2>5, <2>6 DEF qq
<1> QED BY <1>1, <1>2

(* Storing a count or an entry keeps an outbox well typed.                 *)
LEMMA EntryUpdate ==
    ASSUME NEW b \in Outbox, NEW n \in 0 .. Capacity, NEW k \in Entries, NEW e \in Nat \X Nat
    PROVE  /\ [b EXCEPT !.count = n] \in Outbox
           /\ [b EXCEPT !.entry[k] = e] \in Outbox
           /\ [b EXCEPT !.count = n, !.entry[k] = e] \in Outbox
<1>1. b.entry \in [Entries -> Nat \X Nat]
  BY DEF Outbox
<1>2. [b.entry EXCEPT ![k] = e] \in [Entries -> Nat \X Nat]
  BY <1>1
<1>3. [b EXCEPT !.count = n] \in Outbox
  BY DEF Outbox
<1>4. /\ [b EXCEPT !.entry[k] = e] = [b EXCEPT !.entry = [b.entry EXCEPT ![k] = e]]
      /\ [b EXCEPT !.count = n, !.entry[k] = e]
            = [b EXCEPT !.count = n, !.entry = [b.entry EXCEPT ![k] = e]]
  BY DEF Outbox
<1>5. /\ [b EXCEPT !.entry = [b.entry EXCEPT ![k] = e]] \in Outbox
      /\ [b EXCEPT !.count = n, !.entry = [b.entry EXCEPT ![k] = e]] \in Outbox
  BY <1>2 DEF Outbox
<1> QED BY <1>3, <1>4, <1>5

(* Enqueue, as a function of what the handler has enqueued so far.         *)
LEMMA EnqueueEffect ==
    ASSUME OutboxTypeOK, ScratchInv, Enqueue
    PROVE  /\ ap.k \in 1 .. MaxRequests /\ ap.k <= published
           /\ accepted' \in [1 .. MaxRequests -> Seq(Nat \X Nat)]
           /\ \A r \in 1 .. MaxRequests : r # ap.k => accepted'[r] = accepted[r]
           /\ scratch' = Box(accepted'[ap.k]) /\ scratch' \in Outbox
<1> DEFINE plan == <<ap.k, tries + 1>>
           r == append_ap_request_outbox(scratch, plan)
           q == accepted[ap.k]
<1>1. ap.k \in 1 .. MaxRequests /\ ap.k <= published /\ ap.k \in Nat
  BY Constants DEF OutboxTypeOK, Enqueue
<1>2. q \in Seq(Nat \X Nat) /\ plan \in Nat \X Nat
  BY <1>1 DEF OutboxTypeOK
<1>3. scratch = Box(q) /\ scratch \in Outbox
  BY DEF ScratchInv, Enqueue, OutboxTypeOK
<1>4. /\ scratch' = r.box
      /\ accepted' = IF r.ok THEN [accepted EXCEPT ![ap.k] = Append(@, plan)] ELSE accepted
  BY DEF Enqueue
<1> HIDE DEF r, plan, q
<1>5. /\ r.ok \in BOOLEAN
      /\ r.ok => r.box = Box(Append(q, plan)) /\ r.box \in Outbox
      /\ ~r.ok => r.box = Box(q)
  BY <1>2, <1>3, AppendToBox DEF r
<1>6. accepted \in [1 .. MaxRequests -> Seq(Nat \X Nat)]
  BY DEF OutboxTypeOK
<1>7. CASE r.ok
  <2>1. Append(q, plan) \in Seq(Nat \X Nat)
    BY <1>2
  <2>2. accepted' = [accepted EXCEPT ![ap.k] = Append(q, plan)]
    BY <1>4, <1>7 DEF q
  <2>3. accepted'[ap.k] = Append(q, plan)
    BY <1>1, <1>6, <2>2
  <2> QED BY <1>1, <1>4, <1>5, <1>6, <1>7, <2>1, <2>2, <2>3
<1>8. CASE ~r.ok
  BY <1>1, <1>3, <1>4, <1>5, <1>6, <1>8 DEF q
<1> QED BY <1>7, <1>8

(* Dispatch starts a handler on an empty scratch outbox.                   *)
LEMMA DispatchEffect ==
    ASSUME OutboxTypeOK, Dispatch
    PROVE  /\ request[ap.slot] \in 1 .. published /\ request[ap.slot] \in 1 .. MaxRequests
           /\ ap' \in ApState /\ ap'.at = "handler" /\ ap'.slot = ap.slot
           /\ ap'.k = request[ap.slot]
           /\ accepted' \in [1 .. MaxRequests -> Seq(Nat \X Nat)]
           /\ \A r \in 1 .. MaxRequests : r # request[ap.slot] => accepted'[r] = accepted[r]
           /\ scratch' = Box(accepted'[ap'.k]) /\ scratch' \in Outbox
<1> DEFINE q == request[ap.slot]
<1>1. ap.slot \in Slots /\ q \in 0 .. published /\ q # 0 /\ published \in 0 .. MaxRequests
  BY DEF OutboxTypeOK, Dispatch
<1>2. q \in 1 .. published /\ q \in 1 .. MaxRequests /\ q \in Nat
  BY <1>1, Constants
<1>3. ap' = [ap EXCEPT !.at = "handler", !.k = q] /\ ap \in ApState
      /\ accepted' = [accepted EXCEPT ![q] = <<>>] /\ scratch' = Empty
  BY DEF Dispatch, OutboxTypeOK
<1> HIDE DEF q
<1>4. ap' \in ApState /\ ap'.at = "handler" /\ ap'.slot = ap.slot /\ ap'.k = q
  BY <1>2, <1>3
<1>5. accepted \in [1 .. MaxRequests -> Seq(Nat \X Nat)] /\ <<>> \in Seq(Nat \X Nat)
  BY DEF OutboxTypeOK
<1>6. accepted' \in [1 .. MaxRequests -> Seq(Nat \X Nat)] /\ accepted'[q] = <<>>
      /\ \A r \in 1 .. MaxRequests : r # q => accepted'[r] = accepted[r]
  BY <1>2, <1>3, <1>5
<1> QED BY <1>2, <1>3, <1>4, <1>6, EmptyType DEF q

(* Every step keeps the ranges of the variables.                           *)
LEMMA TypeStep ==
    ASSUME OutboxTypeOK, OneSlotInv, ScratchInv, [Next]_vars
    PROVE  OutboxTypeOK'
<1> USE DEF OutboxTypeOK
<1>1. ASSUME NEW s \in Slots, ResetSlot(s) \/ Expire(s) PROVE OutboxTypeOK'
  <2>1. 0 \in 0 .. Capacity
    BY Constants
  <2>2. CASE ResetSlot(s)
    BY <2>1, <2>2 DEF ResetSlot
  <2>3. CASE Expire(s)
    BY <2>3 DEF Expire
  <2> QED BY <1>1, <2>2, <2>3
<1>2. CASE ResetOutbox
  <2>1. bsp.slot \in Slots /\ bsp.k \in Entries /\ bsp.k + 1 \in 0 .. Capacity
    BY <1>2, Constants DEF ResetOutbox
  <2>2. committed' \in [Slots -> Outbox]
    <3>1. committed[bsp.slot] \in Outbox
      BY <2>1
    <3>2. [committed[bsp.slot] EXCEPT !.count = 0, !.entry[bsp.k] = None] \in Outbox
      <4>1. 0 \in 0 .. Capacity /\ None \in Nat \X Nat
        BY Constants
      <4> QED BY <2>1, <3>1, <4>1, EntryUpdate
    <3>3. committed' = [committed EXCEPT ![bsp.slot] =
            [committed[bsp.slot] EXCEPT !.count = 0, !.entry[bsp.k] = None]]
      BY <1>2, <2>1 DEF ResetOutbox, Outbox
    <3> QED BY <3>2, <3>3
  <2> QED BY <1>2, <2>1, <2>2 DEF ResetOutbox
<1>3. CASE Publish
  <2>1. published + 1 \in 0 .. MaxRequests /\ 0 .. published \subseteq 0 .. published + 1
    BY <1>3, Constants DEF Publish
  <2>2. request' \in [Slots -> 0 .. published']
    BY <1>3, <2>1 DEF Publish
  <2>3. bsp' \in [at : {"idle", "clear"}, slot : Slots, k : 0 .. Capacity] /\ bsp'.at = "idle"
    BY <1>3 DEF Publish
  <2>4. ap.at = "handler" => ap.k \in 1 .. published'
    BY <1>3 DEF Publish
  <2> QED BY <1>3, <2>1, <2>2, <2>3, <2>4 DEF Publish
<1>4. ASSUME NEW s \in Slots, Claim(s) PROVE OutboxTypeOK'
  <2>1. ap' \in ApState /\ ap'.at = "claimed"
    BY <1>4 DEF Claim
  <2> QED BY <1>4, <2>1 DEF Claim
<1>5. CASE Enqueue
  <2>1. accepted' \in [1 .. MaxRequests -> Seq(Nat \X Nat)] /\ scratch' \in Outbox
    BY <1>5, EnqueueEffect
  <2> QED BY <1>5, <2>1 DEF Enqueue
<1>6. CASE CopyCount
  <2>1. scratch.count \in 0 .. Capacity
    BY DEF Outbox
  <2>2. committed' = [committed EXCEPT ![ap.slot].count = scratch.count]
    <3>1. ~(scratch.count > Capacity)
      BY <2>1, Constants
    <3> QED BY <1>6, <3>1 DEF CopyCount
  <2>3. committed' \in [Slots -> Outbox]
    <3>1. [committed[ap.slot] EXCEPT !.count = scratch.count] \in Outbox
      BY <2>1 DEF Outbox
    <3>2. committed' = [committed EXCEPT ![ap.slot] =
                          [committed[ap.slot] EXCEPT !.count = scratch.count]]
      BY <2>2
    <3> QED BY <3>1, <3>2
  <2>4. ap' \in ApState
        /\ ap'.at = "copy" /\ ap'.k = 0
    BY <1>6 DEF CopyCount
  <2> QED BY <1>6, <2>3, <2>4, Constants DEF CopyCount
<1>7. CASE CopyEntry
  <2>1. ap.k \in Entries /\ ap.slot \in Slots /\ ap.k + 1 \in 0 .. Capacity
    BY <1>7, Constants DEF CopyEntry
  <2>2. committed' \in [Slots -> Outbox]
    BY <1>7, <2>1, Constants DEF CopyEntry, Outbox
  <2>3. ap' \in ApState
        /\ ap'.at = "copy" /\ ap'.k = ap.k + 1
    <3>1. ap.k + 1 \in Nat
      BY <2>1, Constants
    <3> QED BY <1>7, <3>1 DEF CopyEntry
  <2> QED BY <1>7, <2>1, <2>2, <2>3 DEF CopyEntry
<1>8. CASE Commit \/ TakeBack \/ Fault
  <2>1. ap' \in ApState
        /\ ap'.at \in {"idle", "dead"}
    BY <1>8 DEF Commit, TakeBack, Fault
  <2>2. committed' \in [Slots -> Outbox]
    BY <1>8, EmptyType DEF Commit, TakeBack, Fault
  <2> QED BY <1>8, <2>1, <2>2 DEF Commit, TakeBack, Fault
<1>9. CASE UNCHANGED vars
  BY <1>9 DEF vars
<1>10. CASE Dispatch
  <2>1. request[ap.slot] \in 1 .. published /\ ap' \in ApState /\ ap'.at = "handler"
        /\ ap'.k = request[ap.slot] /\ scratch' \in Outbox
        /\ accepted' \in [1 .. MaxRequests -> Seq(Nat \X Nat)]
    BY <1>10, DispatchEffect
  <2> QED BY <1>10, <2>1 DEF Dispatch
<1>11. CASE Miss
  <2>1. ap' \in ApState /\ ap'.at = "halted"
    BY <1>11 DEF Miss
  <2> QED BY <1>11, <2>1 DEF Miss
<1> QED BY <1>1, <1>2, <1>3, <1>4, <1>5, <1>6, <1>7, <1>8, <1>9, <1>10, <1>11
        DEF Next, Bsp, Ap

(* Every step keeps at most one slot of the AP RUNNING.                    *)
LEMMA OneSlotStep ==
    ASSUME OutboxTypeOK, OneSlotInv, RunningInv, [Next]_vars
    PROVE  OneSlotInv'
<1> USE Constants DEF OutboxTypeOK, OneSlotInv
<1>1. ASSUME NEW s \in Slots, ResetSlot(s) \/ Expire(s) PROVE OneSlotInv'
  <2>1. CASE ResetSlot(s)
    BY <2>1 DEF ResetSlot
  <2>2. CASE Expire(s)
    BY <2>2 DEF Expire
  <2> QED BY <1>1, <2>1, <2>2
<1>2. CASE ResetOutbox
  BY <1>2 DEF ResetOutbox
<1>3. CASE Publish
  BY <1>3 DEF Publish
<1>4. ASSUME NEW s \in Slots, Claim(s) PROVE OneSlotInv'
  BY <1>4 DEF Claim
<1>5. CASE Enqueue \/ CopyCount \/ CopyEntry
  BY <1>5 DEF Enqueue, CopyCount, CopyEntry
<1>6. CASE Commit \/ TakeBack \/ Fault \/ Miss
  BY <1>6 DEF Commit, TakeBack, Fault, Miss
<1>7. CASE UNCHANGED vars
  BY <1>7 DEF vars
<1>8. CASE Dispatch
  <2>1. ap'.at = "handler" /\ ap'.slot = ap.slot /\ ap'.k = request[ap.slot]
        /\ ap.slot \in Slots /\ request[ap.slot] # 0 /\ UNCHANGED <<state, request>>
    BY <1>8 DEF Dispatch
  <2> QED BY <2>1
<1> QED BY <1>1, <1>2, <1>3, <1>4, <1>5, <1>6, <1>7, <1>8 DEF Next, Bsp, Ap

(* Every step keeps RUNNING slots where their request is served.           *)
LEMMA RunningStep ==
    ASSUME OutboxTypeOK, RunningInv, [Next]_vars
    PROVE  RunningInv'
<1> USE DEF OutboxTypeOK, RunningInv
<1>1. ASSUME NEW s \in Slots, ResetSlot(s) \/ Expire(s) PROVE RunningInv'
  BY <1>1 DEF ResetSlot, Expire
<1>2. CASE ResetOutbox
  BY <1>2 DEF ResetOutbox
<1>3. CASE Publish
  BY <1>3 DEF Publish
<1>4. ASSUME NEW s \in Slots, Claim(s) PROVE RunningInv'
  BY <1>4 DEF Claim
<1>5. CASE Enqueue \/ CopyCount \/ CopyEntry
  BY <1>5 DEF Enqueue, CopyCount, CopyEntry
<1>6. CASE Commit \/ TakeBack
  <2>1. CASE Commit
    BY <2>1 DEF Commit
  <2>2. CASE TakeBack
    BY <2>2 DEF TakeBack
  <2> QED BY <1>6, <2>1, <2>2
<1>7. CASE Fault
  BY <1>7 DEF Fault
<1>8. CASE UNCHANGED vars
  BY <1>8 DEF vars
<1>9. CASE Dispatch
  BY <1>9 DEF Dispatch
<1>10. CASE Miss
  BY <1>10 DEF Miss
<1> QED BY <1>1, <1>2, <1>3, <1>4, <1>5, <1>6, <1>7, <1>8, <1>9, <1>10 DEF Next, Bsp, Ap

(* Every step keeps the scratch box equal to what was accepted.            *)
LEMMA ScratchStep ==
    ASSUME OutboxTypeOK, OneSlotInv, RunningInv, ScratchInv, [Next]_vars
    PROVE  ScratchInv'
<1> USE DEF ScratchInv
<1>1. ASSUME NEW s \in Slots, ResetSlot(s) \/ Expire(s) PROVE ScratchInv'
  <2>1. CASE ResetSlot(s)
    BY <2>1 DEF ResetSlot, OutboxTypeOK
  <2>2. CASE Expire(s)
    BY <2>2 DEF Expire, OutboxTypeOK
  <2> QED BY <1>1, <2>1, <2>2
<1>2. CASE ResetOutbox
  BY <1>2 DEF ResetOutbox
<1>3. CASE Publish
  <2>1. state'[ap.slot] = "RUNNING" => state[ap.slot] = "RUNNING" /\ ap.slot # bsp.slot
    BY <1>3 DEF Publish, OutboxTypeOK
  <2>2. ap.slot # bsp.slot => request'[ap.slot] = request[ap.slot]
    BY <1>3 DEF Publish, OutboxTypeOK
  <2> QED BY <1>3, <2>1, <2>2 DEF Publish
<1>4. ASSUME NEW s \in Slots, Claim(s) PROVE ScratchInv'
  BY <1>4 DEF Claim
<1>5. CASE Enqueue
  <2>1. scratch' = Box(accepted'[ap.k])
    BY <1>5, EnqueueEffect
  <2> QED BY <1>5, <2>1 DEF Enqueue
<1>6. CASE CopyCount
  BY <1>6 DEF CopyCount, RunningInv, OutboxTypeOK
<1>7. CASE CopyEntry
  BY <1>7 DEF CopyEntry, OutboxTypeOK
<1>8. CASE Commit \/ TakeBack \/ Fault \/ Miss
  <2>1. ap'.at \notin {"handler", "copy"}
    BY <1>8 DEF Commit, TakeBack, Fault, Miss, OutboxTypeOK
  <2> QED BY <2>1
<1>9. CASE UNCHANGED vars
  BY <1>9 DEF vars
<1>10. CASE Dispatch
  BY <1>10, DispatchEffect
<1> QED BY <1>1, <1>2, <1>3, <1>4, <1>5, <1>6, <1>7, <1>8, <1>9, <1>10 DEF Next, Bsp, Ap

(* A box is known by its count and its entries.                            *)
LEMMA BoxEqual ==
    ASSUME NEW a \in Outbox, NEW b \in Outbox, a.count = b.count,
           \A j \in Entries : a.entry[j] = b.entry[j]
    PROVE  a = b
<1>1. a.entry \in [Entries -> Nat \X Nat] /\ b.entry \in [Entries -> Nat \X Nat]
  BY DEF Outbox
<1>2. a.entry = b.entry
  BY <1>1
<1> QED BY <1>2 DEF Outbox

(* What the BSP's clearing step and the AP's copying step leave in the     *)
(* outbox they write to.                                                   *)
LEMMA ResetEffect ==
    ASSUME OutboxTypeOK, ResetOutbox
    PROVE  /\ bsp.k \in Entries /\ committed'[bsp.slot].count = 0
           /\ committed'[bsp.slot].entry[bsp.k] = None
           /\ \A j \in Entries : j # bsp.k =>
                 committed'[bsp.slot].entry[j] = committed[bsp.slot].entry[j]
           /\ \A s \in Slots : s # bsp.slot => committed'[s] = committed[s]
<1>1. bsp.slot \in Slots /\ bsp.k \in Entries /\ committed[bsp.slot] \in Outbox
  BY Constants DEF OutboxTypeOK, ResetOutbox
<1>2. committed[bsp.slot].entry \in [Entries -> Nat \X Nat]
  BY <1>1 DEF Outbox
<1>3. committed \in [Slots -> Outbox]
  BY DEF OutboxTypeOK
<1> QED BY <1>1, <1>2, <1>3 DEF ResetOutbox, Outbox

(* copy_ap_request_outbox writes one entry of one slot's box.              *)
LEMMA CopyEffect ==
    ASSUME OutboxTypeOK, ScratchInv, CopyEntry
    PROVE  /\ ap.k \in Entries /\ committed'[ap.slot].count = committed[ap.slot].count
           /\ state[ap.slot] = "RUNNING" => committed'[ap.slot].entry[ap.k] = scratch.entry[ap.k]
           /\ \A j \in Entries : j # ap.k =>
                 committed'[ap.slot].entry[j] = committed[ap.slot].entry[j]
           /\ \A s \in Slots : s # ap.slot => committed'[s] = committed[s]
<1>1. ap.slot \in Slots /\ ap.k \in Entries /\ committed[ap.slot] \in Outbox
  BY Constants DEF OutboxTypeOK, CopyEntry
<1>2. committed[ap.slot].entry \in [Entries -> Nat \X Nat]
  BY <1>1 DEF Outbox
<1>3. committed \in [Slots -> Outbox]
  BY DEF OutboxTypeOK
<1> DEFINE e == IF ap.k < scratch.count THEN scratch.entry[ap.k] ELSE None
<1>4. committed' = [committed EXCEPT ![ap.slot].entry[ap.k] = e]
  BY DEF CopyEntry
<1>5. state[ap.slot] = "RUNNING" => e = scratch.entry[ap.k]
  <2> SUFFICES ASSUME state[ap.slot] = "RUNNING" PROVE e = scratch.entry[ap.k]
    OBVIOUS
  <2>1. scratch = Box(accepted[request[ap.slot]])
    BY DEF ScratchInv, CopyEntry
  <2> QED BY <1>1, <2>1 DEF Box
<1> HIDE DEF e
<1> QED BY <1>1, <1>2, <1>3, <1>4, <1>5 DEF Outbox

(* Every step keeps what has been copied so far right.                     *)
LEMMA CopyStep ==
    ASSUME OutboxTypeOK, RunningInv, ScratchInv, CopyInv, NothingLeaks, [Next]_vars
    PROVE  CopyInv'
<1> USE DEF CopyInv
<1>0. ap.slot \in Slots /\ bsp.slot \in Slots /\ bsp.k \in Nat
  BY Constants DEF OutboxTypeOK
<1>e. \A j \in Entries : j \in Nat
  BY Constants
<1>1. ASSUME NEW s \in Slots, ResetSlot(s) \/ Expire(s) PROVE CopyInv'
  <2>1. CASE ResetSlot(s)
    <3>1. state'[ap.slot] = "RUNNING" => state[ap.slot] = "RUNNING"
      BY <2>1, <1>0 DEF ResetSlot, OutboxTypeOK
    <3>2. bsp'.k = 0
      BY <2>1 DEF ResetSlot
    <3>3. ~(bsp'.k > 0) /\ \A j \in Entries : ~(j < bsp'.k)
      BY <3>2, <1>e
    <3>4. UNCHANGED <<committed, scratch, ap>>
      BY <2>1 DEF ResetSlot
    <3> QED BY <3>1, <3>3, <3>4
  <2>2. CASE Expire(s)
    <3>1. state'[ap.slot] = "RUNNING" => state[ap.slot] = "RUNNING"
      BY <2>2, <1>0 DEF Expire, OutboxTypeOK
    <3> QED BY <2>2, <3>1 DEF Expire
  <2> QED BY <1>1, <2>1, <2>2
<1>2. CASE ResetOutbox
  <2>1. state[ap.slot] = "RUNNING" => ap.slot # bsp.slot
    BY <1>2 DEF ResetOutbox, RunningInv
  <2>2. bsp' = [bsp EXCEPT !.k = bsp.k + 1]
    BY <1>2 DEF ResetOutbox
  <2>3. bsp'.at = bsp.at /\ bsp'.slot = bsp.slot /\ bsp'.k = bsp.k + 1
    BY <2>2 DEF OutboxTypeOK
  <2>4. \A j \in Entries : j < bsp'.k => j < bsp.k \/ j = bsp.k
    BY <2>3, <1>0, <1>e
  <2>5. UNCHANGED <<state, scratch, ap>> /\ bsp.at = "clear"
    BY <1>2 DEF ResetOutbox
  <2> QED BY <1>0, <1>2, <2>1, <2>3, <2>4, <2>5, ResetEffect
<1>3. CASE Publish
  <2>1. state'[ap.slot] = "RUNNING" => state[ap.slot] = "RUNNING"
    BY <1>3, <1>0 DEF Publish, OutboxTypeOK
  <2>2. bsp'.at = "idle"
    BY <1>3 DEF Publish, OutboxTypeOK
  <2> QED BY <1>3, <2>1, <2>2 DEF Publish
<1>4. ASSUME NEW s \in Slots, Claim(s) PROVE CopyInv'
  BY <1>4 DEF Claim, OutboxTypeOK
<1>5. CASE Enqueue
  BY <1>5 DEF Enqueue
<1>6. CASE CopyCount
  <2>1. scratch.count \in 0 .. Capacity /\ committed[ap.slot] \in Outbox
    BY <1>0 DEF OutboxTypeOK, Outbox
  <2>2. committed'[ap.slot].count = scratch.count
    <3>1. ~(scratch.count > Capacity)
      BY <2>1, Constants
    <3> QED BY <1>0, <1>6, <2>1, <3>1 DEF CopyCount, OutboxTypeOK, Outbox
  <2>3. \A s \in Slots : s # ap.slot => committed'[s] = committed[s]
    BY <1>0, <1>6 DEF CopyCount, OutboxTypeOK
  <2>4. ap'.at = "copy" /\ ap'.slot = ap.slot /\ ap'.k = 0
    BY <1>6 DEF CopyCount, OutboxTypeOK
  <2>5. UNCHANGED <<state, bsp, scratch>>
    BY <1>6 DEF CopyCount
  <2>6. ~\E j \in Entries : j < ap'.k
    BY <2>4, <1>e
  <2> QED BY <1>0, <2>2, <2>3, <2>4, <2>5, <2>6
<1>7. CASE CopyEntry
  <2>1. ap'.at = "copy" /\ ap'.slot = ap.slot /\ ap'.k = ap.k + 1 /\ ap.at = "copy"
    BY <1>7 DEF CopyEntry, OutboxTypeOK
  <2>2. UNCHANGED <<state, bsp, scratch>>
    BY <1>7 DEF CopyEntry
  <2>3. \A j \in Entries : j < ap'.k => j < ap.k \/ j = ap.k
    <3>1. ap.k \in Nat
      BY DEF OutboxTypeOK
    <3> QED BY <1>e, <2>1, <3>1
  <2> QED BY <1>0, <1>7, <2>1, <2>2, <2>3, CopyEffect
<1>8. CASE Commit \/ Fault
  <2>1. ap'.at \in {"idle", "dead"} /\ ap'.slot = ap.slot /\ UNCHANGED <<committed, bsp>>
    BY <1>8 DEF Commit, Fault, OutboxTypeOK
  <2>2. CASE Commit
    <3>1. bsp.at = "clear" => ap.slot # bsp.slot
      BY <2>2 DEF Commit, RunningInv
    <3> QED BY <2>1, <3>1
  <2>3. CASE Fault
    <3>1. ap'.at = "dead" /\ ap.at \in {"claimed", "handler", "copy"}
      BY <2>3 DEF Fault, OutboxTypeOK
    <3> QED BY <2>1, <3>1
  <2> QED BY <1>8, <2>2, <2>3
<1>9. CASE TakeBack
  <2>1. ap'.at = "idle" /\ ap'.slot = ap.slot /\ UNCHANGED bsp
    BY <1>9 DEF TakeBack, OutboxTypeOK
  <2>2. committed' = [committed EXCEPT ![ap.slot] = Empty]
    BY <1>9 DEF TakeBack
  <2>3. Empty.count = 0 /\ \A j \in Entries : Empty.entry[j] = None
    BY DEF Empty
  <2> QED BY <1>0, <2>1, <2>2, <2>3 DEF OutboxTypeOK
<1>10. CASE UNCHANGED vars
  BY <1>10 DEF vars
<1>11. CASE Dispatch \/ Miss
  <2>1. ap.at = "claimed" /\ ap'.at \in {"handler", "halted"} /\ UNCHANGED <<committed, bsp>>
    BY <1>11 DEF Dispatch, Miss, OutboxTypeOK
  <2> QED BY <2>1
<1> QED BY <1>1, <1>2, <1>3, <1>4, <1>5, <1>6, <1>7, <1>8, <1>9, <1>10, <1>11
        DEF Next, Bsp, Ap

(* Every step keeps the outbox of a DONE slot whole.                       *)
LEMMA DoneStep ==
    ASSUME OutboxTypeOK, OneSlotInv, RunningInv, ScratchInv, CopyInv, DoneIsWhole,
           [Next]_vars
    PROVE  DoneIsWhole'
<1> USE DEF DoneIsWhole
<1>0. ap.slot \in Slots /\ bsp.slot \in Slots
  BY DEF OutboxTypeOK
<1>1. ASSUME NEW s \in Slots, ResetSlot(s) \/ Expire(s) \/ Claim(s) PROVE DoneIsWhole'
  BY <1>1 DEF ResetSlot, Expire, Claim, OutboxTypeOK
<1>2. CASE ResetOutbox
  <2>1. UNCHANGED <<state, request, accepted>> /\ state[bsp.slot] # "DONE"
    BY <1>2 DEF ResetOutbox, RunningInv
  <2> QED BY <1>2, <2>1, ResetEffect
<1>3. CASE Publish
  BY <1>3 DEF Publish, OutboxTypeOK
<1>4. CASE Dispatch
  <2>1. UNCHANGED <<state, request, committed>> /\ ap.at = "claimed" /\ request[ap.slot] # 0
    BY <1>4 DEF Dispatch
  <2>2. \A r \in 1 .. MaxRequests : r # request[ap.slot] => accepted'[r] = accepted[r]
    BY <1>4, DispatchEffect
  <2>3. ASSUME NEW s \in Slots, state[s] = "DONE"
        PROVE  request[s] \in 1 .. MaxRequests /\ request[s] # request[ap.slot]
    <3>1. request[s] \in 0 .. published /\ published \in 0 .. MaxRequests
      BY DEF OutboxTypeOK
    <3>2. request[s] # 0 /\ s # ap.slot
      BY <2>1, <2>3 DEF OneSlotInv, RunningInv
    <3>3. request[s] # request[ap.slot]
      BY <1>0, <3>2 DEF OneSlotInv
    <3> QED BY <3>1, <3>2, <3>3, Constants
  <2> QED BY <2>1, <2>2, <2>3
<1>5. CASE Enqueue
  <2>1. UNCHANGED <<state, request, committed>> /\ ap.at = "handler"
    BY <1>5 DEF Enqueue
  <2>2. \A s \in Slots : state[s] = "DONE" => request[s] \in 1 .. MaxRequests /\ request[s] # ap.k
    <3> SUFFICES ASSUME NEW s \in Slots, state[s] = "DONE"
                 PROVE  request[s] \in 1 .. MaxRequests /\ request[s] # ap.k
      OBVIOUS
    <3>1. request[s] \in 0 .. published /\ published \in 0 .. MaxRequests
      BY DEF OutboxTypeOK
    <3>2. request[s] # 0 /\ s # ap.slot
      BY <2>1 DEF OneSlotInv, RunningInv
    <3>3. request[s] # ap.k
      BY <2>1, <3>2 DEF OneSlotInv
    <3> QED BY <3>1, <3>2, <3>3, Constants
  <2>3. \A r \in 1 .. MaxRequests : r # ap.k => accepted'[r] = accepted[r]
    BY <1>5, EnqueueEffect
  <2> QED BY <2>1, <2>2, <2>3
<1>6. CASE CopyCount \/ CopyEntry
  <2>1. UNCHANGED <<state, request, accepted>> /\ state[ap.slot] # "DONE"
    BY <1>6 DEF CopyCount, CopyEntry, RunningInv
  <2>2. \A s \in Slots : s # ap.slot => committed'[s] = committed[s]
    <3>1. CASE CopyCount
      BY <3>1 DEF CopyCount, OutboxTypeOK
    <3>2. CASE CopyEntry
      BY <3>2, CopyEffect
    <3> QED BY <1>6, <3>1, <3>2
  <2> QED BY <2>1, <2>2
<1>7. CASE Commit
  <2>1. /\ ap.at = "copy" /\ ap.k = Capacity /\ state[ap.slot] = "RUNNING"
        /\ UNCHANGED <<request, committed, accepted>>
        /\ state' = [state EXCEPT ![ap.slot] = "DONE"]
    BY <1>7 DEF Commit
  <2>2. committed[ap.slot] \in Outbox /\ scratch \in Outbox
    BY <1>0 DEF OutboxTypeOK
  <2>3. \A j \in Entries : j < ap.k
    BY <2>1, Constants
  <2>4. committed[ap.slot] = scratch
    BY <2>1, <2>2, <2>3, BoxEqual DEF CopyInv
  <2>5. scratch = Box(accepted[request[ap.slot]])
    BY <2>1 DEF ScratchInv
  <2> QED BY <1>0, <2>1, <2>4, <2>5 DEF OutboxTypeOK
<1>8. CASE TakeBack
  <2>1. UNCHANGED <<state, request, accepted>> /\ state[ap.slot] # "DONE"
    BY <1>8 DEF TakeBack, RunningInv
  <2>2. \A s \in Slots : s # ap.slot => committed'[s] = committed[s]
    BY <1>8 DEF TakeBack, OutboxTypeOK
  <2> QED BY <2>1, <2>2
<1>9. CASE Fault \/ Miss
  BY <1>9 DEF Fault, Miss, OutboxTypeOK
<1>10. CASE UNCHANGED vars
  BY <1>10 DEF vars
<1> QED BY <1>1, <1>2, <1>3, <1>4, <1>5, <1>6, <1>7, <1>8, <1>9, <1>10 DEF Next, Bsp, Ap

(* Every step keeps plans out of slots that are not theirs.                *)
LEMMA LeakStep ==
    ASSUME OutboxTypeOK, RunningInv, CopyInv, NothingLeaks, [Next]_vars
    PROVE  NothingLeaks'
<1> USE DEF NothingLeaks
<1>0. ap.slot \in Slots /\ bsp.slot \in Slots
  BY DEF OutboxTypeOK
<1>1. ASSUME NEW s \in Slots, ResetSlot(s) PROVE NothingLeaks'
  BY <1>1 DEF ResetSlot, OutboxTypeOK
<1>2. ASSUME NEW s \in Slots, Expire(s) PROVE NothingLeaks'
  BY <1>2 DEF Expire, OutboxTypeOK
<1>3. CASE ResetOutbox
  <2>1. UNCHANGED <<state, ap>> /\ bsp'.at = "clear" /\ bsp'.slot = bsp.slot
    BY <1>3 DEF ResetOutbox, OutboxTypeOK
  <2> QED BY <1>3, <2>1, ResetEffect
<1>4. CASE Publish
  <2>1. bsp.at = "clear" /\ bsp.k = Capacity /\ UNCHANGED <<committed, ap>>
        /\ state' = [state EXCEPT ![bsp.slot] = "PENDING"] /\ bsp'.at = "idle"
    BY <1>4 DEF Publish, OutboxTypeOK
  <2>2. ~(ap.at \in {"copy", "dead"} /\ ap.slot = bsp.slot) => committed[bsp.slot] = Empty
    <3> SUFFICES ASSUME ~(ap.at \in {"copy", "dead"} /\ ap.slot = bsp.slot)
                 PROVE  committed[bsp.slot] = Empty
      OBVIOUS
    <3>1. bsp.k > 0 /\ \A j \in Entries : j < bsp.k
      BY <2>1, Constants
    <3>2. committed[bsp.slot].count = 0 /\ \A j \in Entries : committed[bsp.slot].entry[j] = None
      BY <2>1, <3>1 DEF CopyInv
    <3>3. Empty.count = 0 /\ \A j \in Entries : Empty.entry[j] = None
      BY DEF Empty
    <3>4. committed[bsp.slot] \in Outbox
      BY <1>0 DEF OutboxTypeOK
    <3> QED BY <3>2, <3>3, <3>4, EmptyType, BoxEqual
  <2> QED BY <1>0, <2>1, <2>2 DEF OutboxTypeOK
<1>5. ASSUME NEW s \in Slots, Claim(s) PROVE NothingLeaks'
  BY <1>5 DEF Claim, OutboxTypeOK
<1>6. CASE Enqueue
  BY <1>6 DEF Enqueue
<1>7. CASE CopyCount \/ CopyEntry
  <2>1. UNCHANGED <<state, bsp>> /\ ap'.at = "copy" /\ ap'.slot = ap.slot
        /\ ap.at \in {"handler", "copy"}
    BY <1>7 DEF CopyCount, CopyEntry, OutboxTypeOK
  <2>2. \A s \in Slots : s # ap.slot => committed'[s] = committed[s]
    BY <1>0, <1>7 DEF CopyCount, CopyEntry, OutboxTypeOK
  <2> QED BY <2>1, <2>2
<1>8. CASE Commit
  BY <1>8, <1>0 DEF Commit, OutboxTypeOK
<1>9. CASE TakeBack
  BY <1>9, <1>0 DEF TakeBack, OutboxTypeOK
<1>10. CASE Fault
  <2>1. ap'.at = "dead" /\ ap'.slot = ap.slot /\ UNCHANGED <<committed, bsp>>
    BY <1>10 DEF Fault, OutboxTypeOK
  <2>2. \A s \in Slots : s # ap.slot => state'[s] = state[s]
    BY <1>10, <1>0 DEF Fault, OutboxTypeOK
  <2> QED BY <2>1, <2>2
<1>11. CASE UNCHANGED vars
  BY <1>11 DEF vars
<1>12. CASE Dispatch \/ Miss
  <2>1. ap.at = "claimed" /\ UNCHANGED <<committed, bsp>>
        /\ \A s \in Slots : state[s] = "DONE" => state'[s] = "DONE"
    BY <1>12 DEF Dispatch, Miss, OutboxTypeOK
  <2> QED BY <2>1
<1> QED BY <1>1, <1>2, <1>3, <1>4, <1>5, <1>6, <1>7, <1>8, <1>9, <1>10, <1>11, <1>12
        DEF Next, Bsp, Ap

(* The invariant holds when all slots are reset.                           *)
LEMMA InitHolds ==
    ASSUME Init
    PROVE  IInv
<1> USE Constants DEF Init
<1>1. OutboxTypeOK
  <2>1. \A r \in 1 .. MaxRequests : <<>> \in Seq(Nat \X Nat)
    OBVIOUS
  <2>2. accepted \in [1 .. MaxRequests -> Seq(Nat \X Nat)]
    BY <2>1
  <2> QED BY <2>2, EmptyType DEF OutboxTypeOK
<1>2. OneSlotInv /\ RunningInv
  BY DEF OneSlotInv, RunningInv
<1>3. ScratchInv /\ CopyInv
  BY DEF ScratchInv, CopyInv
<1>4. DoneIsWhole /\ NothingLeaks
  BY DEF DoneIsWhole, NothingLeaks
<1> QED BY <1>1, <1>2, <1>3, <1>4 DEF IInv

(* The invariant holds in every reachable state, whatever the order of     *)
(* resets, timeouts, copies and exceptions.                                *)
THEOREM InductiveInvariant == Spec => []IInv
<1>1. IInv /\ [Next]_vars => IInv'
  BY TypeStep, OneSlotStep, RunningStep, ScratchStep, CopyStep, DoneStep, LeakStep DEF IInv
<1> QED BY InitHolds, <1>1, PTL DEF Spec

(* Whoever sees DONE sees the whole outbox of that request and nothing     *)
(* else, although the copy is not atomic and the slot may have been taken  *)
(* away, cleared and republished while it ran.                             *)
THEOREM CommittedOutboxIsWhole == Spec => []DoneIsWhole
<1>1. IInv => DoneIsWhole
  BY DEF IInv
<1> QED BY <1>1, InductiveInvariant, PTL

(* No plan of an unfinished or failed handler stays in an outbox.          *)
THEOREM NoPlanLeaks == Spec => []NothingLeaks
<1>1. IInv => NothingLeaks
  BY DEF IInv
<1> QED BY <1>1, InductiveInvariant, PTL

=============================================================================
