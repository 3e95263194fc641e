----------------------------- MODULE ApServices -----------------------------
(***************************************************************************)
(* The services an application processor (AP) offers: kernel/ap_services.c *)
(* and the service identifiers of kernel/ap_request.h.                     *)
(*                                                                         *)
(* A 64-bit identifier is the pair <<high word, low word>>, so that the    *)
(* (UINT32) casts of ap_dispatch_miss_result_code keep their meaning: they *)
(* drop the high word.                                                     *)
(***************************************************************************)
EXTENDS Naturals, Sequences

CONSTANTS
    PingOwner,     \* VIBE_AP_PING_SERVICE_OWNER_INDEX
    CounterOwner   \* VIBE_AP_COUNTER_SERVICE_OWNER_INDEX

ASSUME OwnersAreIndices == PingOwner \in Nat /\ CounterOwner \in Nat

SERVICE_PING      == <<1095773523, 1447231489>>  \* 0x41502d53 56430001
SERVICE_COUNTER   == <<1095773523, 1447231490>>  \* 0x41502d53 56430002
INTERFACE_PING    == <<1095773513, 1178796033>>  \* 0x41502d49 46430001
INTERFACE_COUNTER == <<1095773513, 1178796034>>  \* 0x41502d49 46430002

Low32(id) == id[2]

(* ap_service_registry: a table of four-column rows, searched in order.    *)
ap_service_registry ==
    << [service |-> SERVICE_PING, interface |-> INTERFACE_PING,
        owner |-> PingOwner, handler |-> "ping"],
       [service |-> SERVICE_COUNTER, interface |-> INTERFACE_COUNTER,
        owner |-> CounterOwner, handler |-> "counter"] >>

Rows == DOMAIN ap_service_registry

(* The rows find_ap_service would return: it takes the first, and answers  *)
(* null when there is none.                                                *)
find_ap_service(service, interface) ==
    { i \in Rows : /\ ap_service_registry[i].service = service
                   /\ ap_service_registry[i].interface = interface }

classify_ap_service_lookup(service, interface) ==
    IF find_ap_service(service, interface) # {} THEN "OK"
    ELSE IF \E i \in Rows : ap_service_registry[i].service = service
         THEN "UNKNOWN_INTERFACE"
         ELSE "UNKNOWN_SERVICE"

FirstRow(S) == CHOOSE i \in S : \A j \in S : i <= j

find_ap_request_handler(service, interface) ==
    LET rows == find_ap_service(service, interface)
    IN  IF rows = {} THEN "none" ELSE ap_service_registry[FirstRow(rows)].handler

(* The owner index of a registered service; the lookup status otherwise.   *)
ap_service_owner_context_index(service, interface) ==
    LET rows == find_ap_service(service, interface)
    IN  IF rows = {} THEN [status |-> classify_ap_service_lookup(service, interface)]
        ELSE [status |-> "OK", owner |-> ap_service_registry[FirstRow(rows)].owner]

ap_dispatch_miss_result_code(service, interface) ==
    IF classify_ap_service_lookup(service, interface) = "UNKNOWN_SERVICE"
    THEN Low32(service)
    ELSE Low32(interface)
=============================================================================
