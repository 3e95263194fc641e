--------------------------- MODULE MCApScheduler ---------------------------
(* Small instances of ApScheduler for TLC.                                 *)
EXTENDS ApScheduler

PingRequest    == [service |-> SERVICE_PING, interface |-> INTERFACE_PING]
CounterRequest == [service |-> SERVICE_COUNTER, interface |-> INTERFACE_COUNTER]
UnknownRequest == [service |-> SERVICE_PING, interface |-> INTERFACE_COUNTER]

OwnerPlan   == <<UnknownRequest, CounterRequest, PingRequest>>
=============================================================================
