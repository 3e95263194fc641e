----------------------- MODULE MCBroadcastThenStream -----------------------
(* Small instances of BroadcastThenStream for TLC.                         *)
EXTENDS BroadcastThenStream

Ping    == [service |-> SERVICE_PING, interface |-> INTERFACE_PING, opcode |-> "PING"]
Counter == [service |-> SERVICE_COUNTER, interface |-> INTERFACE_COUNTER,
            opcode |-> "COUNTER"]

PlanAndPing == <<Counter, Counter, Ping>>
=============================================================================
