---------------------------- MODULE ApScheduler ----------------------------
(***************************************************************************)
(* Which AP gets the request stream (kernel/kernel.c, called by efi_main   *)
(* once the APs are up): build_online_ap_registry collects the schedulable *)
(* contexts, select_ap_request_target_context takes the build's explicit   *)
(* target or the next one in turn, and select_ap_request_route_context     *)
(* prefers the owner of the plan's first registered service.               *)
(*                                                                         *)
(* The APs run meanwhile: one may fault between any two reads of its boot  *)
(* state, and one whose bring-up timed out may come online late.  An AP    *)
(* does not halt here: HALTED is the answer to a bad request, and none has *)
(* been published yet.                                                     *)
(***************************************************************************)
EXTENDS ApServices, ApBootStates

CONSTANTS
    MaxContexts,    \* MAX_AP_CONTEXTS
    ContextCount,   \* ap_context_count of efi_main, after its clamp
    TargetIndex,    \* VIBE_AP_REQUEST_TARGET_INDEX
    NoTarget,       \* AP_REQUEST_TARGET_SCHEDULER, 0xffffffff
    PlanServices    \* service and interface of each request of the plan

Contexts == 0 .. MaxContexts - 1
Used == 0 .. ContextCount - 1

ASSUME ContextAssumption ==
    /\ MaxContexts \in Nat \ {0}
    /\ ContextCount \in 0 .. MaxContexts
    /\ TargetIndex \in Nat /\ NoTarget \in Nat /\ NoTarget >= MaxContexts
    /\ PlanServices \in Seq([service : Nat \X Nat, interface : Nat \X Nat])

VARIABLES
    boot,       \* error = AP_BOOT_OK, online and ap_state of each context
    pc,         \* where the BSP is
    i,          \* its scan index
    online,     \* scheduler.online[0 .. online_count - 1]
    nextIndex,  \* scheduler.next_index
    explicit,   \* scheduler.explicit_target
    selected,   \* the context the scheduler selected
    route,      \* ap_request_route: mode, target and owner
    deaths      \* ghost: the contexts that faulted since the scan began

vars == <<boot, pc, i, online, nextIndex, explicit, selected, route, deaths>>

NoRoute == [mode |-> "NONE", target |-> 0, owner |-> 0]

Init ==
    /\ boot \in [Contexts -> BroughtUp \cup Failed \cup Late \cup Unused]
    /\ \A c \in Contexts :
          boot[c] \in IF c \in Used THEN BroughtUp \cup Failed \cup Late ELSE Unused
    /\ pc = "build" /\ i = 0
    /\ online = <<>> /\ nextIndex = 0
    /\ explicit = FALSE /\ selected = 0
    /\ route = NoRoute
    /\ deaths = {}

ap_context_is_schedulable(c) ==
    boot[c].ok /\ boot[c].online /\ boot[c].state \notin {"HALTED", "FAULTED"}

-----------------------------------------------------------------------------
(* The environment.                                                        *)

(* ap_fault_dispatch on the AP of context c, in its loop or still in its   *)
(* entry code.  The handler sets online too, so that bring_up_one_ap stops *)
(* waiting; a context that matters here is online already or has an error. *)
ApFaults(c) ==
    /\ boot[c].state \notin {"NONE", "FAULTED"}
    /\ boot' = [boot EXCEPT ![c].state = "FAULTED", ![c].online = TRUE]
    /\ deaths' = deaths \cup {c}
    /\ UNCHANGED <<pc, i, online, nextIndex, explicit, selected, route>>

(* An AP that the BSP gave up on enters the loop.                          *)
ApComesLate(c) ==
    /\ ~boot[c].ok /\ ~boot[c].online /\ boot[c].state \notin {"NONE", "FAULTED"}
    /\ boot' = [boot EXCEPT ![c].online = TRUE, ![c].state = "ONLINE"]
    /\ UNCHANGED <<pc, i, online, nextIndex, explicit, selected, route, deaths>>

-----------------------------------------------------------------------------
(* build_online_ap_registry: one context per step.                         *)

(* Mutant of Scan: whatever is online is listed, boot error or not.        *)
ScanAny ==
    /\ pc = "build" /\ i < ContextCount
    /\ online' = IF boot[i].online THEN Append(online, i) ELSE online
    /\ i' = i + 1
    /\ UNCHANGED <<boot, pc, nextIndex, explicit, selected, route, deaths>>

Scan ==
    /\ pc = "build" /\ i < ContextCount
    /\ online' = IF ap_context_is_schedulable(i) THEN Append(online, i) ELSE online
    /\ i' = i + 1
    /\ UNCHANGED <<boot, pc, nextIndex, explicit, selected, route, deaths>>

Built ==
    /\ pc = "build" /\ i = ContextCount
    /\ nextIndex' = IF Len(online) > 0 /\ nextIndex >= Len(online)
                    THEN 0 ELSE nextIndex
    /\ pc' = "select"
    /\ UNCHANGED <<boot, i, online, explicit, selected, route, deaths>>

-----------------------------------------------------------------------------
(* select_ap_request_target_context.                                       *)

ExplicitPossible ==
    /\ TargetIndex # NoTarget
    /\ TargetIndex < ContextCount /\ TargetIndex < MaxContexts

SelectExplicit ==
    /\ pc = "select"
    /\ ExplicitPossible /\ ap_context_is_schedulable(TargetIndex)
    /\ explicit' = TRUE
    /\ selected' = TargetIndex
    /\ pc' = "route"
    /\ UNCHANGED <<boot, i, online, nextIndex, route, deaths>>

(* Mutant of SelectNext: the index is advanced before it is used.          *)
SelectAfterAdvance ==
    /\ pc = "select"
    /\ ~(ExplicitPossible /\ ap_context_is_schedulable(TargetIndex))
    /\ explicit' = FALSE
    /\ IF online = <<>>
       THEN selected' = 0 /\ UNCHANGED nextIndex
       ELSE /\ nextIndex' = (nextIndex + 1) % Len(online)
            /\ selected' = online[nextIndex' + 1]
    /\ pc' = "route"
    /\ UNCHANGED <<boot, i, online, route, deaths>>

(* The next registered context, or AP0 when the registry is empty.         *)
SelectNext ==
    /\ pc = "select"
    /\ ~(ExplicitPossible /\ ap_context_is_schedulable(TargetIndex))
    /\ explicit' = FALSE
    /\ IF online = <<>>
       THEN selected' = 0 /\ UNCHANGED nextIndex
       ELSE LET r == IF nextIndex >= Len(online) THEN 0 ELSE nextIndex
            IN  /\ selected' = online[r + 1]
                /\ nextIndex' = (r + 1) % Len(online)
    /\ pc' = "route"
    /\ UNCHANGED <<boot, i, online, route, deaths>>

-----------------------------------------------------------------------------
(* select_ap_request_route_context.                                        *)

Owned == { k \in DOMAIN PlanServices :
             ap_service_owner_context_index(PlanServices[k].service,
                                            PlanServices[k].interface).status = "OK" }

(* ap_request_plan_owner_context_index: the owner of the first request     *)
(* whose service is registered.                                            *)
ap_request_plan_owner_context_index ==
    LET p == PlanServices[FirstRow(Owned)]
    IN  ap_service_owner_context_index(p.service, p.interface).owner

OwnerPossible ==
    /\ Owned # {}
    /\ ap_request_plan_owner_context_index < ContextCount
    /\ ap_request_plan_owner_context_index < MaxContexts

RouteTo(mode, target, owner) ==
    /\ route' = [mode |-> mode, target |-> target, owner |-> owner]
    /\ pc' = "routed"
    /\ UNCHANGED <<boot, i, online, nextIndex, explicit, selected, deaths>>

RouteExplicit ==
    /\ pc = "route" /\ explicit
    /\ RouteTo("EXPLICIT", selected, NoTarget)

(* Mutant of RouteOwner: the owner's health is not looked at.              *)
RouteAnyOwner ==
    /\ pc = "route" /\ ~explicit
    /\ OwnerPossible
    /\ RouteTo("OWNER", ap_request_plan_owner_context_index,
               ap_request_plan_owner_context_index)

RouteOwner ==
    /\ pc = "route" /\ ~explicit
    /\ OwnerPossible /\ ap_context_is_schedulable(ap_request_plan_owner_context_index)
    /\ RouteTo("OWNER", ap_request_plan_owner_context_index,
               ap_request_plan_owner_context_index)

RouteFallback ==
    /\ pc = "route" /\ ~explicit
    /\ ~(/\ OwnerPossible
         /\ ap_context_is_schedulable(ap_request_plan_owner_context_index))
    /\ RouteTo("FALLBACK", selected,
               IF Owned = {} THEN NoTarget ELSE ap_request_plan_owner_context_index)

-----------------------------------------------------------------------------
(* The stream starts on the routed context.                                *)
Streaming == pc = "routed" /\ UNCHANGED vars

BspStep == \/ Scan \/ Built \/ SelectExplicit \/ SelectNext
           \/ RouteExplicit \/ RouteOwner \/ RouteFallback

Next == \/ BspStep \/ Streaming
        \/ \E c \in Contexts : ApFaults(c) \/ ApComesLate(c)

Spec == Init /\ [][Next]_vars

-----------------------------------------------------------------------------
(* Properties.                                                             *)

BootState == [ok : BOOLEAN, online : BOOLEAN,
              state : {"NONE", "READY", "SENT_INIT", "SENT_SIPI", "ONLINE", "FAULTED"}]

(* Ranges of the scheduler's and the route's fields.                       *)
TypeOK ==
    /\ boot \in [Contexts -> BootState]
    /\ pc \in {"build", "select", "route", "routed"}
    /\ i \in 0 .. ContextCount
    /\ online \in Seq(Used)
    /\ nextIndex \in Nat
    /\ explicit \in BOOLEAN
    /\ selected \in Contexts
    /\ route \in [mode : {"NONE", "EXPLICIT", "OWNER", "FALLBACK"},
                  target : Contexts, owner : Nat]
    /\ deaths \subseteq Contexts

Registered == { online[k] : k \in DOMAIN online }

(* The registry misses no AP the scan has passed and that is still         *)
(* schedulable, and lists one only if it was schedulable at some point of  *)
(* the scan.                                                               *)
RegistryIsSound ==
    /\ \A c \in 0 .. i - 1 : ap_context_is_schedulable(c) => c \in Registered
    /\ \A c \in Registered : boot[c].ok /\ boot[c].online
                             /\ (boot[c].state = "FAULTED" => c \in deaths)

(* The stream never goes to a dead or absent AP while a live one was there *)
(* to take it: a target that cannot be scheduled either died under the     *)
(* BSP's hands, or nothing was schedulable when the registry was built.    *)
NeverRoutedToDead ==
    pc = "routed" =>
        \/ ap_context_is_schedulable(route.target)
        \/ route.target \in deaths
        \/ Registered = {}

(* When nobody dies, an explicit target or an owner that can be scheduled  *)
(* gets the stream, in that order of precedence.                           *)
PrecedenceIsKept ==
    pc = "routed" /\ deaths = {} =>
        IF ExplicitPossible /\ ap_context_is_schedulable(TargetIndex)
        THEN route.mode = "EXPLICIT" /\ route.target = TargetIndex
        ELSE IF /\ OwnerPossible
                /\ ap_context_is_schedulable(ap_request_plan_owner_context_index)
        THEN route.target = ap_request_plan_owner_context_index
        ELSE route.mode = "FALLBACK" /\
             (Registered # {} => route.target = online[1])

-----------------------------------------------------------------------------
(* The inductive invariant behind the theorems of ApSchedulerProofs.       *)

(* Context c was schedulable at some point since the scan began.           *)
WasUp(c) == boot[c].ok /\ boot[c].online
            /\ boot[c].state \in {"ONLINE", "FAULTED"}
            /\ (boot[c].state = "FAULTED" => c \in deaths)

IInv ==
    /\ TypeOK
    /\ \A c \in Contexts : boot[c].ok /\ boot[c].online =>
                             boot[c].state \in {"ONLINE", "FAULTED"}
    /\ \A c \in 0 .. i - 1 : ap_context_is_schedulable(c) => c \in Registered
    /\ \A k \in DOMAIN online : WasUp(online[k])
    /\ pc \in {"route", "routed"} => WasUp(selected) \/ (online = <<>> /\ ~explicit)
    /\ pc = "routed" => WasUp(route.target) \/ online = <<>>

(* Whom the selection prefers, as long as nobody dies.                     *)
ChoiceInv ==
    /\ pc \in {"build", "select"} => nextIndex = 0
    /\ pc \in {"route", "routed"} /\ deaths = {} =>
          /\ explicit <=> ExplicitPossible /\ ap_context_is_schedulable(TargetIndex)
          /\ selected = IF explicit THEN TargetIndex
                        ELSE IF online = <<>> THEN 0 ELSE online[1]
=============================================================================
