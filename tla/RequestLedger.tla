--------------------------- MODULE RequestLedger ---------------------------
(***************************************************************************)
(* What run_ap_request_stream promises its caller, without slots, state    *)
(* words, interrupts or program counters: the requests of a plan are       *)
(* opened in order, each handler runs at most once and only for an opened  *)
(* request, each opened request gets one final outcome that tells the      *)
(* truth about its handler, nothing is opened after a failure, and the     *)
(* stream ends only when nothing is left open.                             *)
(***************************************************************************)
EXTENDS Naturals

CONSTANT RequestCount

VARIABLES
    opened,    \* how many requests have been handed out
    served,    \* the requests whose handler ran
    outcome,   \* the final outcome of each request, or "open"
    closed,    \* the stream has returned
    success    \* ... and this is what it said

ledger == <<opened, served, outcome, closed, success>>

Requests == 1 .. RequestCount
Outcomes == {"DONE", "TIMEOUT", "BAD_OP", "FAULT", "SKIPPED"}

Init ==
    /\ opened = 0
    /\ served = {}
    /\ outcome = [r \in Requests |-> "open"]
    /\ closed = FALSE /\ success = FALSE

Open ==
    /\ ~closed /\ opened < RequestCount
    /\ \A r \in Requests : outcome[r] \in {"open", "DONE"}
    /\ opened' = opened + 1
    /\ UNCHANGED <<served, outcome, closed, success>>

(* A handler may still run for a request that was given up on, and then    *)
(* even after the stream has returned.                                     *)
Serve(r) ==
    /\ r <= opened /\ r \notin served
    /\ outcome[r] \in {"open", "TIMEOUT"}
    /\ served' = served \cup {r}
    /\ UNCHANGED <<opened, outcome, closed, success>>

Settle(r, st) ==
    /\ ~closed /\ r <= opened /\ outcome[r] = "open"
    /\ st = "DONE" => r \in served
    /\ st \in {"BAD_OP", "SKIPPED"} => r \notin served
    /\ outcome' = [outcome EXCEPT ![r] = st]
    /\ UNCHANGED <<opened, served, closed, success>>

Close ==
    /\ ~closed
    /\ \A r \in 1 .. opened : outcome[r] # "open"
    /\ closed' = TRUE
    /\ success' \in {FALSE, \A r \in Requests : outcome[r] = "DONE"}
    /\ UNCHANGED <<opened, served, outcome>>

Next ==
    \/ Open \/ Close
    \/ \E r \in Requests : Serve(r) \/ \E st \in Outcomes : Settle(r, st)

Spec == Init /\ [][Next]_ledger
=============================================================================
