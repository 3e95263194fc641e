----------------------------- MODULE MCApStream -----------------------------
(* Small instances of ApStream for TLC.                                    *)
EXTENDS StreamLedger

Ping    == [service |-> SERVICE_PING, interface |-> INTERFACE_PING, opcode |-> "PING"]
Counter == [service |-> SERVICE_COUNTER, interface |-> INTERFACE_COUNTER,
            opcode |-> "COUNTER"]
Unknown == [service |-> <<1095773523, 1447231743>>, interface |-> INTERFACE_PING,
            opcode |-> "PING"]

PlanMixed  == <<Counter, Ping, Counter>>
PlanBadOp  == <<Counter, Unknown, Ping>>
PlanCounters == <<Counter, Counter, Counter>>
=============================================================================
