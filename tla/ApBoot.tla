------------------------------- MODULE ApBoot -------------------------------
(***************************************************************************)
(* AP bring-up (kernel/kernel.c): efi_main calls bring_up_one_ap for one   *)
(* context after the other.  All of them use the same trampoline page: it  *)
(* is rewritten with the stack and the context of the AP to start, then    *)
(* INIT, SIPI and, if need be, a second SIPI are sent and the BSP waits    *)
(* for the AP's online flag.                                               *)
(*                                                                         *)
(* The APs run between any two steps of the BSP and at any speed: a SIPI   *)
(* may be lost, the ICR may stay busy, the wait may expire before a slow   *)
(* AP is through the page, and an AP may fault once its IDT is loaded.     *)
(* The BSP's loops that only pass time (delay_loops, the count of the wait *)
(* loop) are left out: the time may be too short for the AP or not.        *)
(*                                                                         *)
(* Two APs that end up in one context share a stack; what they do then is  *)
(* undefined, and the model only follows their stores to the boot record.  *)
(***************************************************************************)
EXTENDS Naturals, ApBootStates

CONSTANT MaxContexts    \* MAX_AP_CONTEXTS

ASSUME BootAssumption == MaxContexts \in Nat \ {0}

Contexts == 0 .. MaxContexts - 1
Cpus == Contexts        \* the AP that select_ap_target finds for each index
Torn == MaxContexts     \* no context: the page is being rewritten

VARIABLES
    machine,    \* what the firmware and the CPU offer, fixed at start
    boot,       \* error, online, ap_state and entry_state of each context
    page,       \* the context the trampoline page leads to, or Torn
    cpu,        \* where each AP is, the stack and the context it took
    pc, i       \* where the BSP is, and for which context

vars == <<machine, boot, page, cpu, pc, i>>

Init ==
    \* a trampoline page below 1 MB; MSR 0x1b bit 10; the LAPIC page in the
    \* map; CR3 above 4 GB; count_supported_ap_targets after the clamp
    /\ machine \in [trampoline : BOOLEAN, x2apic : BOOLEAN, lapic : BOOLEAN,
                    highCr3 : BOOLEAN, targets : 0 .. MaxContexts]
    \* init_ap_contexts after allocate_ap_trampoline
    /\ boot = [c \in Contexts |->
                 [error  |-> IF machine.trampoline THEN "OK" ELSE "NO_TRAMPOLINE",
                  online |-> FALSE, state |-> "NONE", entry |-> "NONE"]]
    /\ page = Torn
    /\ cpu = [p \in Cpus |-> [at |-> "off", stack |-> p, ctx |-> p]]
    /\ pc = "begin" /\ i = 0

(* With no target, the bring-up of context 0 is tried all the same and     *)
(* finds NO_TARGET.                                                        *)
Attempts == IF machine.targets = 0 THEN 1 ELSE machine.targets

-----------------------------------------------------------------------------
(* The BSP.                                                                *)

Goto(at) == pc' = at /\ UNCHANGED i

Return(error) ==
    /\ boot' = [boot EXCEPT ![i].error = error]
    /\ pc' = "begin" /\ i' = i + 1

StoreState(state) == boot' = [boot EXCEPT ![i].state = state]

(* The reset of the record and the checks before anything is sent.  The    *)
(* BAD_TRAMPOLINE check of build_ap_trampoline repeats what                *)
(* allocate_ap_trampoline has made sure of.                                *)
StartError ==
    CASE boot[i].error # "OK" -> boot[i].error
      [] boot[i].error = "OK" /\ machine.targets = 0 -> "NO_TARGET"
      [] boot[i].error = "OK" /\ machine.targets > 0 ->
           IF machine.x2apic THEN "X2APIC"
           ELSE IF ~machine.lapic THEN "LAPIC_RANGE"
           ELSE IF machine.highCr3 THEN "HIGH_CR3" ELSE "OK"

Begin ==
    /\ pc = "begin" /\ i < Attempts
    /\ boot' = [boot EXCEPT ![i] = [error  |-> StartError, online |-> FALSE,
                                    state  |-> "NONE", entry |-> "NONE"]]
    /\ IF StartError = "OK"
       THEN page' = Torn /\ Goto("build")
       ELSE UNCHANGED <<page, pc>> /\ i' = i + 1
    /\ UNCHANGED <<machine, cpu>>

(* build_ap_trampoline: the page is whole, then READY is stored.           *)
Build ==
    /\ pc = "build"
    /\ page' = i /\ Goto("ready")
    /\ UNCHANGED <<machine, boot, cpu>>

Ready ==
    /\ pc = "ready"
    /\ StoreState("READY") /\ Goto("INIT")
    /\ UNCHANGED <<machine, page, cpu>>

(* lapic_send_ipi to the AP of context i: the ICR may be busy before the   *)
(* command is written or stay busy after it, and either is an error.       *)
SendIpi(command, next, arrival) ==
    /\ pc = command
    /\ \/ Return("ICR_TIMEOUT") /\ cpu' \in {cpu, arrival}
       \/ Goto(next) /\ cpu' \in {cpu, arrival} /\ UNCHANGED boot
    /\ UNCHANGED <<machine, page>>

InitArrives == [cpu EXCEPT ![i].at = "waitSipi"]
SipiArrives == IF cpu[i].at = "waitSipi" THEN [cpu EXCEPT ![i].at = "page"] ELSE cpu

Init1 == SendIpi("INIT", "sentInit", InitArrives)
SentInit ==
    /\ pc = "sentInit"
    /\ StoreState("SENT_INIT") /\ Goto("deassert")
    /\ UNCHANGED <<machine, page, cpu>>
Deassert == SendIpi("deassert", "SIPI", cpu)
Sipi == SendIpi("SIPI", "sentSipi", SipiArrives)
SentSipi ==
    /\ pc = "sentSipi"
    /\ StoreState("SENT_SIPI") /\ Goto("look")
    /\ UNCHANGED <<machine, page, cpu>>
Look ==
    /\ pc = "look"
    /\ Goto(IF boot[i].online THEN "wait" ELSE "SIPI2")
    /\ UNCHANGED <<machine, boot, page, cpu>>
Sipi2 == SendIpi("SIPI2", "wait", SipiArrives)

(* Mutant of SeeOnline: the loop is left without the flag.                 *)
SeeNothing ==
    /\ pc = "wait"
    /\ Goto(IF boot[i].state \in {"HALTED", "FAULTED"} THEN "ok" ELSE "claim")
    /\ UNCHANGED <<machine, boot, page, cpu>>

(* Mutant of SeeOnline: ap_state is left as it is.                         *)
SeeNoClaim ==
    /\ pc = "wait" /\ boot[i].online
    /\ Goto("ok")
    /\ UNCHANGED <<machine, boot, page, cpu>>

(* The loop finds the flag and looks at ap_state once more.                *)
SeeOnline ==
    /\ pc = "wait" /\ boot[i].online
    /\ Goto(IF boot[i].state \in {"HALTED", "FAULTED"} THEN "ok" ELSE "claim")
    /\ UNCHANGED <<machine, boot, page, cpu>>

Claim ==
    /\ pc = "claim"
    /\ StoreState("ONLINE") /\ Goto("ok")
    /\ UNCHANGED <<machine, page, cpu>>

Succeed ==
    /\ pc = "ok"
    /\ Return("OK")
    /\ UNCHANGED <<machine, page, cpu>>

(* Mutant of GiveUp: the wait has no bound.                                *)
GiveUpNever == pc = "wait" /\ ~boot[i].online /\ UNCHANGED vars

GiveUp ==
    /\ pc = "wait" /\ ~boot[i].online
    /\ Return("ONLINE_TIMEOUT")
    /\ UNCHANGED <<machine, page, cpu>>

Finish ==
    /\ pc = "begin" /\ i = Attempts
    /\ Goto("done")
    /\ UNCHANGED <<machine, boot, page, cpu>>

Bsp == \/ Begin \/ Build \/ Ready \/ Init1 \/ SentInit \/ Deassert \/ Sipi \/ SentSipi
       \/ Look \/ Sipi2 \/ SeeOnline \/ Claim \/ Succeed \/ GiveUp \/ Finish

-----------------------------------------------------------------------------
(* AP p.  It fetches its stack and then its context from the page; while   *)
(* the page is being rewritten there is no telling what it executes.       *)

Fetch(p, from, to, what) ==
    /\ cpu[p].at = from
    /\ cpu' = IF page = Torn THEN [cpu EXCEPT ![p].at = "lost"]
              ELSE [cpu EXCEPT ![p] = [what EXCEPT !.at = to]]
    /\ UNCHANGED <<machine, boot, page, pc, i>>

FetchStack(p)   == Fetch(p, "page", "stacked", [cpu[p] EXCEPT !.stack = page])
FetchContext(p) == Fetch(p, "stacked", "entry", [cpu[p] EXCEPT !.ctx = page])

Advance(p, from, to, record) ==
    /\ cpu[p].at = from
    /\ cpu' = [cpu EXCEPT ![p].at = to]
    /\ boot' = [boot EXCEPT ![cpu[p].ctx] = record]
    /\ UNCHANGED <<machine, page, pc, i>>

Mine(p) == boot[cpu[p].ctx]

(* ap_entry_one, the head of ap_request_loop, and the tail of              *)
(* ap_fault_dispatch once init_ap_idt has run.                             *)
EntryC(p)  == Advance(p, "entry", "tables", [Mine(p) EXCEPT !.entry = "C"])
Tables(p)  == Advance(p, "tables", "head", [Mine(p) EXCEPT !.entry = "TABLES"])
Head(p)    == Advance(p, "head", "announce",
                      [Mine(p) EXCEPT !.state = "ONLINE", !.entry = "LOOP"])
Online(p)  == Advance(p, "announce", "loop", [Mine(p) EXCEPT !.online = TRUE])

(* Mutant of Fault: the flag is raised before the handler's own records.   *)
FaultOnlineFirst(p) ==
    \E from \in {"tables", "head", "announce", "loop"} :
       Advance(p, from, "faulting", [Mine(p) EXCEPT !.online = TRUE])

Fault(p) ==
    \E from \in {"tables", "head", "announce", "loop"} :
       Advance(p, from, "faulting",
               [Mine(p) EXCEPT !.entry = "FAULT", !.state = "FAULTED"])
FaultOnline(p) == Advance(p, "faulting", "dead", [Mine(p) EXCEPT !.online = TRUE])

Ap(p) == \/ FetchStack(p) \/ FetchContext(p)
         \/ EntryC(p) \/ Tables(p) \/ Head(p) \/ Online(p)
         \/ Fault(p) \/ FaultOnline(p)

-----------------------------------------------------------------------------
Done == pc = "done" /\ UNCHANGED vars

Next == Bsp \/ (\E p \in Cpus : Ap(p)) \/ Done

(* The BSP is a running CPU; nothing is assumed of the APs.                *)
Spec == Init /\ [][Next]_vars /\ WF_vars(Bsp)

-----------------------------------------------------------------------------
(* Properties.                                                             *)

NoneFailed == \A c \in 0 .. i - 1 : boot[c].error = "OK"

Running(p) == cpu[p].at \in {"entry", "tables", "head", "announce", "loop", "faulting", "dead"}

(* As long as no bring-up has failed, every AP that left the shared        *)
(* trampoline page did so with its own stack and its own context, and none *)
(* was caught in the page by the rewrite for the next one.  (After a       *)
(* timeout this is lost: a late AP may take the next one's context.)       *)
OwnContext ==
    NoneFailed => \A p \in Cpus : /\ cpu[p].at # "lost"
                                  /\ Running(p) => cpu[p].stack = p /\ cpu[p].ctx = p

(* As long as no bring-up has failed, an AP reported OK has reached the    *)
(* request loop or its fault handler, and entry_state tells which, even    *)
(* where a store of the BSP hid the FAULTED in ap_state.                   *)
OkMeansArrived ==
    NoneFailed => \A c \in 0 .. i - 1 :
        /\ cpu[c].at \in {"loop", "faulting", "dead"}
        /\ boot[c].entry = IF cpu[c].at = "loop" THEN "LOOP" ELSE "FAULT"

Seen(c) == [ok |-> boot[c].error = "OK", online |-> boot[c].online, state |-> boot[c].state]

(* Whatever happened, the records handed to the scheduler are among those  *)
(* it is analysed for.                                                     *)
HandOver ==
    pc = "done" => \A c \in Contexts :
        Seen(c) \in IF c < Attempts THEN BroughtUp \cup Failed \cup Late ELSE Unused

(* Bring-up ends whatever the APs do.                                      *)
BringUpEnds == <>(pc = "done")

-----------------------------------------------------------------------------
(* The inductive invariant behind the theorems of ApBootProofs.            *)

BootErrors == {"OK", "NO_TRAMPOLINE", "NO_TARGET", "X2APIC", "LAPIC_RANGE", "HIGH_CR3",
               "ICR_TIMEOUT", "ONLINE_TIMEOUT"}
Record == [error : BootErrors, online : BOOLEAN,
           state : {"NONE", "READY", "SENT_INIT", "SENT_SIPI", "ONLINE", "FAULTED"},
           entry : {"NONE", "C", "TABLES", "LOOP", "FAULT"}]
ApPlaces == {"off", "waitSipi", "page", "stacked", "lost", "entry", "tables", "head",
             "announce", "loop", "faulting", "dead"}
BspPlaces == {"begin", "build", "ready", "INIT", "sentInit", "deassert", "SIPI", "sentSipi",
              "look", "SIPI2", "wait", "claim", "ok", "done"}
Arrived == {"loop", "faulting", "dead"}

BootTypeOK ==
    /\ machine \in [trampoline : BOOLEAN, x2apic : BOOLEAN, lapic : BOOLEAN,
                    highCr3 : BOOLEAN, targets : 0 .. MaxContexts]
    /\ boot \in [Contexts -> Record]
    /\ page \in Contexts \cup {Torn}
    /\ cpu \in [Cpus -> [at : ApPlaces, stack : Contexts, ctx : Contexts]]
    /\ pc \in BspPlaces /\ i \in 0 .. Attempts
    /\ pc \notin {"begin", "done"} => i < Attempts
    /\ pc = "done" => i = Attempts

(* Whose boot record may be written: the page, and what an AP took from    *)
(* it, leads to a context whose bring-up has begun.                        *)
Begun == IF pc \in {"begin", "build", "done"} THEN 0 .. i - 1 ELSE 0 .. i
RecordInv ==
    /\ page # Torn => page \in Begun
    /\ \A p \in Cpus : Running(p) => cpu[p].ctx \in Begun
    /\ \A p \in Cpus : cpu[p].at \in Arrived \cup {"announce"} => boot[cpu[p].ctx].state # "NONE"
    /\ \A c \in Contexts : c \notin 0 .. i => ~boot[c].online /\ boot[c].state = "NONE"
    /\ pc \in {"begin", "done"} /\ i \in Contexts => ~boot[i].online /\ boot[i].state = "NONE"
    /\ \A c \in Contexts : boot[c].online => boot[c].state # "NONE"

(* A context is OK only once its AP was seen online.                       *)
ResultInv ==
    /\ \A c \in 0 .. i - 1 : boot[c].error = "OK" =>
          boot[c].online /\ boot[c].state \in {"ONLINE", "FAULTED"}
    /\ pc \in {"claim", "ok"} => boot[i].online
    /\ pc = "ok" => boot[i].state \in {"ONLINE", "FAULTED"}

(* While no bring-up has failed only the AP being started is in the page.  *)
OrderInv ==
    NoneFailed =>
        /\ \A p \in Cpus :
              /\ p < i => cpu[p].at \in Arrived
              /\ p > i \/ (p = i /\ pc \in {"begin", "build", "ready", "INIT", "done"}) =>
                    cpu[p].at = "off"
              /\ cpu[p].at # "lost"
              /\ cpu[p].at = "stacked" \/ Running(p) => cpu[p].stack = p
              /\ Running(p) => cpu[p].ctx = p
              /\ p <= i /\ boot[p].online => cpu[p].at \in Arrived
              /\ cpu[p].at \in {"announce", "loop"} => boot[p].entry = "LOOP"
              /\ cpu[p].at \in {"faulting", "dead"} => boot[p].entry = "FAULT"
        /\ pc \notin {"begin", "build", "done"} => page = i

IInv == BootTypeOK /\ RecordInv /\ ResultInv /\ OrderInv
=============================================================================
