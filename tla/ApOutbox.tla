------------------------------ MODULE ApOutbox ------------------------------
(***************************************************************************)
(* The requests a handler sends on (kernel/ap_request.c, ap_services.c):   *)
(* it enqueues them into the scratch outbox of its AP; when it returns,    *)
(* complete_ap_request_done_with_outbox copies them to the outbox that     *)
(* belongs to the slot, publishes DONE, and takes them back if the slot is *)
(* no longer RUNNING.                                                      *)
(*                                                                         *)
(* One AP serves all slots with one scratch outbox.  The BSP resets and    *)
(* republishes a slot after any final state, a timeout included: that is   *)
(* how the request stream takes slot 0 over from the broadcast.  How       *)
(* either side decides what to do next is ApStream's and                   *)
(* BroadcastThenStream's subject and left open here.                       *)
(***************************************************************************)
EXTENDS Naturals, Sequences

CONSTANTS
    Slots,          \* the inbox slots of one context
    Capacity,       \* AP_REQUEST_OUTBOX_CAPACITY
    MaxRequests,    \* bound: how often the BSP publishes
    MaxEnqueues     \* bound: how often one handler enqueues

ASSUME OutboxAssumption ==
    /\ Capacity \in Nat \ {0} /\ MaxRequests \in Nat /\ MaxEnqueues \in Nat

VARIABLES
    state, request,     \* of each slot
    committed,          \* ap_committed_outboxes of this context
    scratch,            \* ap_service_outboxes of this context
    ap,                 \* the AP: [at, slot, k]
    bsp,                \* the BSP: [at, slot, k]
    published,          \* requests published so far
    tries,              \* enqueues the running handler has tried
    accepted            \* ghost: what each request's handler, last run, was told is enqueued

vars == <<state, request, committed, scratch, ap, bsp, published, tries, accepted>>

None == <<0, 0>>        \* a cleared entry; an entry is <<request, number>>
Entries == 0 .. Capacity - 1
Empty == [count |-> 0, entry |-> [k \in Entries |-> None]]

Init ==
    /\ state = [s \in Slots |-> "EMPTY"] /\ request = [s \in Slots |-> 0]
    /\ committed = [s \in Slots |-> Empty] /\ scratch = Empty
    /\ \E s \in Slots : ap = [at |-> "idle", slot |-> s, k |-> 0]
                        /\ bsp = [at |-> "idle", slot |-> s, k |-> 0]
    /\ published = 0 /\ tries = 0
    /\ accepted = [r \in 1 .. MaxRequests |-> <<>>]

-----------------------------------------------------------------------------
(* The BSP.                                                                *)

(* reset_ap_inbox_slot: the slot, its header included, then its outbox     *)
(* entry by entry.                                                         *)
ResetSlot(s) ==
    /\ bsp.at = "idle" /\ published < MaxRequests
    /\ state[s] \notin {"PENDING", "RUNNING"}
    /\ state' = [state EXCEPT ![s] = "EMPTY"] /\ request' = [request EXCEPT ![s] = 0]
    /\ bsp' = [at |-> "clear", slot |-> s, k |-> 0]
    /\ UNCHANGED <<committed, scratch, ap, published, tries, accepted>>

ResetOutbox ==
    /\ bsp.at = "clear" /\ bsp.k < Capacity
    /\ committed' = [committed EXCEPT ![bsp.slot].count = 0,
                                      ![bsp.slot].entry[bsp.k] = None]
    /\ bsp' = [bsp EXCEPT !.k = @ + 1]
    /\ UNCHANGED <<state, request, scratch, ap, published, tries, accepted>>

Publish ==
    /\ bsp.at = "clear" /\ bsp.k = Capacity
    /\ published' = published + 1
    /\ request' = [request EXCEPT ![bsp.slot] = published']
    /\ state' = [state EXCEPT ![bsp.slot] = "PENDING"]
    /\ bsp' = [bsp EXCEPT !.at = "idle"]
    /\ UNCHANGED <<committed, scratch, ap, tries, accepted>>

(* The timeout's cmpxchg.                                                  *)
Expire(s) ==
    /\ bsp.at = "idle" /\ state[s] \in {"PENDING", "RUNNING"}
    /\ state' = [state EXCEPT ![s] = "TIMEOUT"]
    /\ UNCHANGED <<request, committed, scratch, ap, bsp, published, tries, accepted>>

-----------------------------------------------------------------------------
(* The AP.  ap.k holds the request its handler runs, then an index.        *)

Claim(s) ==
    /\ ap.at = "idle" /\ state[s] = "PENDING"
    /\ state' = [state EXCEPT ![s] = "RUNNING"]
    /\ ap' = [at |-> "claimed", slot |-> s, k |-> 0]
    /\ UNCHANGED <<request, committed, scratch, bsp, published, tries, accepted>>

(* prepare_ap_service_context, then the handler of whatever request the    *)
(* header names by now: after a timeout that may be a later one.           *)
Dispatch ==
    /\ ap.at = "claimed" /\ request[ap.slot] # 0
    /\ ap' = [ap EXCEPT !.at = "handler", !.k = request[ap.slot]]
    /\ scratch' = Empty /\ tries' = 0
    /\ accepted' = [accepted EXCEPT ![request[ap.slot]] = <<>>]
    /\ UNCHANGED <<state, request, committed, bsp, published>>

(* The header names no handler, or has just been cleared: the AP halts.    *)
Miss ==
    /\ ap.at = "claimed"
    /\ state' = [state EXCEPT ![ap.slot] = IF @ = "RUNNING" THEN "BAD_OP" ELSE @]
    /\ ap' = [ap EXCEPT !.at = "halted"]
    /\ UNCHANGED <<request, committed, scratch, bsp, published, tries, accepted>>

append_ap_request_outbox(box, plan) ==
    IF box.count >= Capacity THEN [ok |-> FALSE, box |-> box]
    ELSE [ok |-> TRUE, box |-> [count |-> box.count + 1,
                                entry |-> [box.entry EXCEPT ![box.count] = plan]]]

(* ap_service_enqueue_request, called by the handler.                      *)
Enqueue ==
    /\ ap.at = "handler" /\ tries < MaxEnqueues
    /\ LET r == append_ap_request_outbox(scratch, <<ap.k, tries + 1>>)
       IN  /\ scratch' = r.box
           /\ accepted' = IF r.ok
                          THEN [accepted EXCEPT ![ap.k] = Append(@, <<ap.k, tries + 1>>)]
                          ELSE accepted
    /\ tries' = tries + 1
    /\ UNCHANGED <<state, request, committed, ap, bsp, published>>

(* complete_ap_request_done_with_outbox: copy_ap_request_outbox stores the *)
(* count, then each entry.                                                 *)
CopyCount ==
    /\ ap.at = "handler"
    /\ committed' = [committed EXCEPT ![ap.slot].count =
                       IF scratch.count > Capacity THEN Capacity ELSE scratch.count]
    /\ ap' = [ap EXCEPT !.at = "copy", !.k = 0]
    /\ UNCHANGED <<state, request, scratch, bsp, published, tries, accepted>>

CopyEntry ==
    /\ ap.at = "copy" /\ ap.k < Capacity
    /\ committed' = [committed EXCEPT ![ap.slot].entry[ap.k] =
                       IF ap.k < scratch.count THEN scratch.entry[ap.k] ELSE None]
    /\ ap' = [ap EXCEPT !.k = @ + 1]
    /\ UNCHANGED <<state, request, scratch, bsp, published, tries, accepted>>

(* Mutant of Commit: DONE is published while entries are still missing.    *)
CommitEarly ==
    /\ ap.at = "copy" /\ state[ap.slot] = "RUNNING"
    /\ state' = [state EXCEPT ![ap.slot] = "DONE"]
    /\ ap' = IF ap.k = Capacity THEN [ap EXCEPT !.at = "idle"] ELSE ap
    /\ UNCHANGED <<request, committed, scratch, bsp, published, tries, accepted>>

Commit ==
    /\ ap.at = "copy" /\ ap.k = Capacity
    /\ state[ap.slot] = "RUNNING"
    /\ state' = [state EXCEPT ![ap.slot] = "DONE"]
    /\ ap' = [ap EXCEPT !.at = "idle"]
    /\ UNCHANGED <<request, committed, scratch, bsp, published, tries, accepted>>

(* Mutant of TakeBack: the entries stay.                                   *)
LeaveBehind ==
    /\ ap.at = "copy" /\ ap.k = Capacity
    /\ state[ap.slot] # "RUNNING"
    /\ ap' = [ap EXCEPT !.at = "idle"]
    /\ UNCHANGED <<state, request, committed, scratch, bsp, published, tries, accepted>>

TakeBack ==
    /\ ap.at = "copy" /\ ap.k = Capacity
    /\ state[ap.slot] # "RUNNING"
    /\ committed' = [committed EXCEPT ![ap.slot] = Empty]
    /\ ap' = [ap EXCEPT !.at = "idle"]
    /\ UNCHANGED <<state, request, scratch, bsp, published, tries, accepted>>

(* An exception between the claim and the result: the slot becomes FAULT   *)
(* unless it has its result, or the claim was not yet noted in             *)
(* current_request_slot.                                                   *)
Fault ==
    /\ ap.at \in {"claimed", "handler", "copy"}
    /\ \/ state' = [state EXCEPT ![ap.slot] =
                      IF @ \in {"EMPTY", "PENDING", "RUNNING"} THEN "FAULT" ELSE @]
       \/ ap.at = "claimed" /\ UNCHANGED state
    /\ ap' = [ap EXCEPT !.at = "dead"]
    /\ UNCHANGED <<request, committed, scratch, bsp, published, tries, accepted>>

-----------------------------------------------------------------------------
Bsp == ResetOutbox \/ Publish \/ (\E s \in Slots : ResetSlot(s) \/ Expire(s))
Ap == Dispatch \/ Miss \/ Enqueue \/ CopyCount \/ CopyEntry \/ Commit \/ TakeBack \/ Fault
      \/ (\E s \in Slots : Claim(s))

Next == Bsp \/ Ap

Spec == Init /\ [][Next]_vars

-----------------------------------------------------------------------------
(* Properties.                                                             *)

Box(plans) == [count |-> Len(plans),
               entry |-> [k \in Entries |-> IF k < Len(plans) THEN plans[k + 1] ELSE None]]

(* Whoever sees DONE sees the whole outbox of that very request: what its  *)
(* handler was told is enqueued, in order, and nothing left over from a    *)
(* request before it, timed out or not.                                    *)
DoneIsWhole ==
    \A s \in Slots : state[s] = "DONE" => committed[s] = Box(accepted[request[s]])

(* Requests of an unfinished or failed handler are never left behind: a    *)
(* slot that is not DONE has an empty outbox, except while one side is     *)
(* still writing to it and after an AP died there.                         *)
NothingLeaks ==
    \A s \in Slots :
        \/ state[s] = "DONE" \/ committed[s] = Empty
        \/ ap.at \in {"copy", "dead"} /\ ap.slot = s
        \/ bsp.at = "clear" /\ bsp.slot = s

-----------------------------------------------------------------------------
(* The inductive invariant behind the theorems of ApOutboxProofs.          *)

Outbox == [count : 0 .. Capacity, entry : [Entries -> Nat \X Nat]]

ApState == [at : {"idle", "claimed", "handler", "copy", "halted", "dead"},
            slot : Slots, k : Nat]

(* The types; a handler runs for a published request, an index stays       *)
(* within the outbox.                                                      *)
OutboxTypeOK ==
    /\ state \in [Slots -> {"EMPTY", "PENDING", "RUNNING", "DONE", "TIMEOUT", "BAD_OP", "FAULT"}]
    /\ request \in [Slots -> 0 .. published]
    /\ committed \in [Slots -> Outbox] /\ scratch \in Outbox
    /\ ap \in ApState
    /\ bsp \in [at : {"idle", "clear"}, slot : Slots, k : 0 .. Capacity]
    /\ published \in 0 .. MaxRequests /\ tries \in Nat
    /\ accepted \in [1 .. MaxRequests -> Seq(Nat \X Nat)]
    /\ ap.at = "handler" => ap.k \in 1 .. published
    /\ ap.at = "copy" => ap.k \in 0 .. Capacity
    /\ bsp.at = "clear" => published < MaxRequests

(* A request is in one slot, and the AP's request in none but its own.     *)
OneSlotInv ==
    /\ \A s \in Slots : state[s] \in {"PENDING", "RUNNING", "DONE"} => request[s] # 0
    /\ \A s, t \in Slots : request[s] = request[t] => s = t \/ request[s] = 0
    /\ ap.at = "handler" => \A s \in Slots : request[s] = ap.k => s = ap.slot

(* The AP's slot is RUNNING with the AP's request, or it was taken away:   *)
(* then the AP cannot make it DONE any more.                               *)
RunningInv ==
    /\ \A s \in Slots : state[s] = "RUNNING" =>
          s = ap.slot /\ ap.at \notin {"idle", "halted"}
                     /\ (ap.at = "handler" => ap.k = request[s])
    /\ ap.at \in {"claimed", "handler", "copy"} => state[ap.slot] # "DONE"
    /\ bsp.at = "clear" => state[bsp.slot] \in {"EMPTY", "FAULT"}

(* What a handler was told is enqueued is in the scratch outbox.           *)
ScratchInv ==
    /\ ap.at = "handler" => scratch = Box(accepted[ap.k])
    /\ ap.at = "copy" /\ state[ap.slot] = "RUNNING" =>
          scratch = Box(accepted[request[ap.slot]])

(* How far each side has got with the outbox it writes.                    *)
CopyInv ==
    /\ ap.at = "copy" /\ state[ap.slot] = "RUNNING" =>
          /\ committed[ap.slot].count = scratch.count
          /\ \A j \in Entries : j < ap.k => committed[ap.slot].entry[j] = scratch.entry[j]
    /\ bsp.at = "clear" /\ ~(ap.at \in {"copy", "dead"} /\ ap.slot = bsp.slot) =>
          /\ bsp.k > 0 => committed[bsp.slot].count = 0
          /\ \A j \in Entries : j < bsp.k => committed[bsp.slot].entry[j] = None

IInv == /\ OutboxTypeOK /\ OneSlotInv /\ RunningInv /\ ScratchInv /\ CopyInv
        /\ DoneIsWhole /\ NothingLeaks
=============================================================================
