------------------------- MODULE ApSchedulerProofs -------------------------
(***************************************************************************)
(* Proofs about the routing of the request stream, for any number of       *)
(* contexts, any explicit target and any plan.                             *)
(***************************************************************************)
EXTENDS ApScheduler, WellFoundedInduction, TLAPS

(* Indices: a used context is a context, and AP0 always exists.            *)
LEMMA IndexFacts ==
    /\ Used \subseteq Contexts
    /\ 0 \in Contexts
    /\ \A c \in Nat : c < ContextCount => c \in Used
    /\ NoTarget \in Nat /\ TargetIndex \in Nat
BY ContextAssumption DEF ContextAssumption, Used, Contexts

(* The owner of a registered service is an index of the registry.          *)
LEMMA OwnerIsIndex ==
    ASSUME NEW s, NEW f, ap_service_owner_context_index(s, f).status = "OK"
    PROVE  ap_service_owner_context_index(s, f).owner \in Nat
<1> DEFINE rows == find_ap_service(s, f)
<1>1. CASE rows = {}
  <2>1. ap_service_owner_context_index(s, f).status = classify_ap_service_lookup(s, f)
    BY <1>1 DEF ap_service_owner_context_index
  <2>2. classify_ap_service_lookup(s, f) # "OK"
    BY <1>1 DEF classify_ap_service_lookup
  <2> QED BY <2>1, <2>2
<1>2. CASE rows # {}
  <2>0. Rows = {1, 2}
    BY DEF Rows, ap_service_registry
  <2>1. \A k \in Rows : ap_service_registry[k].owner \in Nat
    BY <2>0, OwnersAreIndices DEF ap_service_registry, OwnersAreIndices
  <2>2. rows \subseteq Rows
    BY DEF find_ap_service
  <2>3. \E k \in rows : \A j \in rows : k <= j
    BY <1>2, <2>0, <2>2
  <2>4. FirstRow(rows) \in rows
    BY <2>3 DEF FirstRow
  <2>5. ap_service_owner_context_index(s, f).owner
          = ap_service_registry[FirstRow(rows)].owner
    BY <1>2 DEF ap_service_owner_context_index
  <2> QED BY <2>1, <2>2, <2>4, <2>5
<1> QED BY <1>1, <1>2

(* A set of numbers that is not empty has a least one.                     *)
LEMMA LeastExists ==
    ASSUME NEW T, T \subseteq Nat, T # {}
    PROVE  \E k \in T : \A j \in T : k <= j
<1>1. PICK k \in T : \A j \in T : ~(<<j, k>> \in OpToRel(<, Nat))
  BY NatLessThanWellFounded, WFMin
<1>2. ASSUME NEW j \in T, j < k PROVE FALSE
  <2>1. <<j, k>> \in OpToRel(<, Nat)
    BY <1>2 DEF OpToRel
  <2> QED BY <1>1, <2>1
<1> QED BY <1>2

(* So the owner of the plan is an index, when some request has one.        *)
LEMMA PlanOwnerIsIndex ==
    ASSUME Owned # {}
    PROVE  ap_request_plan_owner_context_index \in Nat
<1>1. Owned \subseteq Nat
  <2>1. DOMAIN PlanServices = 1 .. Len(PlanServices) /\ Len(PlanServices) \in Nat
    BY ContextAssumption DEF ContextAssumption
  <2> QED BY <2>1 DEF Owned
<1>2. \E k \in Owned : \A j \in Owned : k <= j
  BY <1>1, LeastExists
<1>3. FirstRow(Owned) \in Owned
  BY <1>2 DEF FirstRow
<1> QED BY <1>3, OwnerIsIndex DEF ap_request_plan_owner_context_index, Owned

-----------------------------------------------------------------------------
(* Before the registry is built the invariant holds, whatever              *)
(* bring_up_one_ap left in the contexts.                                   *)
LEMMA InitHolds == Init => IInv
<1> SUFFICES ASSUME Init PROVE IInv
  OBVIOUS
<1>1. TypeOK
  <2>1. BroughtUp \cup Failed \cup Late \cup Unused \subseteq BootState
    BY DEF BootState, BroughtUp, Failed, Late, Unused
  <2>2. boot \in [Contexts -> BootState]
    BY <2>1 DEF Init
  <2>3. i \in 0 .. ContextCount
    BY ContextAssumption DEF ContextAssumption, Init
  <2>4. online \in Seq(Used)
    BY DEF Init
  <2>5. route \in [mode : {"NONE", "EXPLICIT", "OWNER", "FALLBACK"},
                  target : Contexts, owner : Nat]
    BY IndexFacts DEF Init, NoRoute
  <2> QED BY <2>2, <2>3, <2>4, <2>5, IndexFacts DEF Init, TypeOK
<1>2. \A c \in Contexts : boot[c].ok /\ boot[c].online =>
                             boot[c].state \in {"ONLINE", "FAULTED"}
  BY DEF Init, BroughtUp, Failed, Late, Unused
<1> QED BY <1>1, <1>2 DEF Init, IInv

(* A step of an AP takes it from ONLINE to FAULTED, which deaths records,  *)
(* or brings up one that no list can hold because its bring-up failed.     *)
LEMMA ApHolds ==
    ASSUME IInv, NEW c \in Contexts, ApFaults(c) \/ ApComesLate(c)
    PROVE  IInv'
<1>0. TypeOK
  BY DEF IInv
<1>1. boot \in [Contexts -> BootState] /\ Used \subseteq Contexts
  BY <1>0, IndexFacts DEF TypeOK
<1>2. TypeOK'
  <2>1. boot' \in [Contexts -> BootState]
    <3>1. CASE ApFaults(c)
      BY <1>1, <3>1 DEF BootState, ApFaults
    <3>2. CASE ApComesLate(c)
      BY <1>1, <3>2 DEF BootState, ApComesLate
    <3> QED BY <3>1, <3>2
  <2>2. deaths' \subseteq Contexts
    BY <1>0 DEF TypeOK, ApFaults, ApComesLate
  <2> QED BY <1>0, <2>1, <2>2 DEF TypeOK, ApFaults, ApComesLate
<1>3. \A d \in Contexts : WasUp(d) => WasUp(d)'
  BY <1>1 DEF WasUp, ApFaults, ApComesLate, BootState
<1>4. \A d \in Contexts : ap_context_is_schedulable(d)' => ap_context_is_schedulable(d)
  BY <1>1 DEF ap_context_is_schedulable, ApFaults, ApComesLate, BootState
<1>5. online' = online /\ i' = i /\ pc' = pc /\ selected' = selected /\ route' = route
      /\ explicit' = explicit
  BY DEF ApFaults, ApComesLate
<1>6. \A d \in Contexts : boot'[d].ok /\ boot'[d].online =>
                             boot'[d].state \in {"ONLINE", "FAULTED"}
  BY <1>1 DEF IInv, ApFaults, ApComesLate, BootState
<1>7. \A d \in 0 .. i - 1 : d \in Contexts
  BY <1>0, ContextAssumption DEF ContextAssumption, TypeOK, Contexts
<1>8. \A k \in DOMAIN online : online[k] \in Contexts
  BY <1>0, <1>1 DEF TypeOK
<1>9. selected \in Contexts /\ route.target \in Contexts
  BY <1>0 DEF TypeOK
<1>10. Registered' = Registered
  BY <1>5 DEF Registered
<1>11. \A d \in 0 .. i' - 1 : ap_context_is_schedulable(d)' => d \in Registered'
  BY <1>4, <1>5, <1>7, <1>10 DEF IInv
<1>12. \A k \in DOMAIN online' : WasUp(online[k])'
  BY <1>3, <1>5, <1>8 DEF IInv, WasUp
<1>13. pc' \in {"route", "routed"} => WasUp(selected)' \/ (online' = <<>> /\ ~explicit')
  BY <1>3, <1>5, <1>9 DEF IInv, WasUp
<1>14. pc' = "routed" => WasUp(route.target)' \/ online' = <<>>
  BY <1>3, <1>5, <1>9 DEF IInv, WasUp
<1> QED BY <1>2, <1>6, <1>11, <1>12, <1>13, <1>14 DEF IInv

(* build_online_ap_registry lists every context it finds schedulable, and  *)
(* only those.                                                             *)
LEMMA BuildHolds ==
    ASSUME IInv, Scan \/ Built
    PROVE  IInv'
<1>0. /\ TypeOK /\ i \in Nat /\ boot' = boot /\ deaths' = deaths
      /\ online \in Seq(Used) /\ pc = "build"
      /\ boot \in [Contexts -> BootState]
  BY DEF IInv, TypeOK, Scan, Built
<1>1. CASE Scan
  <2>1. i \in Used /\ i \in Contexts
    BY <1>0, <1>1, IndexFacts DEF Scan
  <2>2. online' \in Seq(Used) /\ i' \in 0 .. ContextCount /\ i' = i + 1 /\ pc' = pc
    BY <1>0, <1>1, <2>1, ContextAssumption DEF Scan, ContextAssumption
  <2>3. TypeOK'
    BY <1>0, <1>1, <2>2 DEF TypeOK, Scan
  <2>4. CASE ap_context_is_schedulable(i)
    <3>1. online' = Append(online, i)
      BY <1>1, <2>4 DEF Scan
    <3>2. /\ DOMAIN online' = 1 .. Len(online) + 1
          /\ DOMAIN online = 1 .. Len(online) /\ Len(online) \in Nat
          /\ online'[Len(online) + 1] = i
          /\ \A k \in DOMAIN online : online'[k] = online[k]
      BY <1>0, <2>1, <3>1
    <3>3. Registered' = Registered \cup {i}
      <4>1. ASSUME NEW x \in Registered' PROVE x \in Registered \cup {i}
        BY <3>2, <4>1 DEF Registered
      <4>2. ASSUME NEW x \in Registered \cup {i} PROVE x \in Registered'
        BY <3>2, <4>2 DEF Registered
      <4> QED BY <4>1, <4>2
    <3>4. WasUp(i)
      BY <2>1, <2>4 DEF IInv, WasUp, ap_context_is_schedulable
    <3>5. \A k \in DOMAIN online' : WasUp(online[k])'
      BY <1>0, <3>2, <3>4 DEF IInv, WasUp
    <3>6. \A d \in 0 .. i' - 1 : ap_context_is_schedulable(d)' => d \in Registered'
      BY <1>0, <2>2, <3>3 DEF IInv, ap_context_is_schedulable
    <3> QED BY <1>0, <2>2, <2>3, <3>5, <3>6 DEF IInv
  <2>5. CASE ~ap_context_is_schedulable(i)
    <3>1. online' = online
      BY <1>1, <2>5 DEF Scan
    <3>2. \A k \in DOMAIN online' : WasUp(online[k])'
      BY <1>0, <3>1 DEF IInv, WasUp
    <3>3. \A d \in 0 .. i' - 1 : ap_context_is_schedulable(d)' => d \in Registered'
      BY <1>0, <2>2, <2>5, <3>1 DEF IInv, ap_context_is_schedulable, Registered
    <3> QED BY <1>0, <2>2, <2>3, <3>2, <3>3 DEF IInv
  <2> QED BY <2>4, <2>5
<1>2. CASE Built
  <2>1. i' = i /\ online' = online /\ pc' = "select"
    BY <1>2 DEF Built
  <2>2. TypeOK'
    BY <1>0, <1>2 DEF TypeOK, Built
  <2>3. \A k \in DOMAIN online' : WasUp(online[k])'
    BY <1>0, <2>1 DEF IInv, WasUp
  <2>4. \A d \in 0 .. i' - 1 : ap_context_is_schedulable(d)' => d \in Registered'
    BY <1>0, <2>1 DEF IInv, ap_context_is_schedulable, Registered
  <2> QED BY <1>0, <2>1, <2>2, <2>3, <2>4 DEF IInv
<1> QED BY <1>1, <1>2

(* What a step that leaves the contexts and the registry alone keeps.      *)
LEMMA RegistryKept ==
    ASSUME IInv, UNCHANGED <<boot, i, online, deaths>>
    PROVE  /\ \A c \in Contexts : boot'[c].ok /\ boot'[c].online =>
                                    boot'[c].state \in {"ONLINE", "FAULTED"}
           /\ \A c \in 0 .. i' - 1 : ap_context_is_schedulable(c)' => c \in Registered'
           /\ \A k \in DOMAIN online' : WasUp(online[k])'
BY DEF IInv, WasUp, ap_context_is_schedulable, Registered

(* select_ap_request_target_context selects a context that was schedulable *)
(* during the scan, unless the registry is empty.                          *)
LEMMA SelectHolds ==
    ASSUME IInv, SelectExplicit \/ SelectNext
    PROVE  IInv'
<1>0. /\ TypeOK /\ UNCHANGED <<boot, i, online, deaths, route>> /\ pc' = "route"
  BY DEF IInv, SelectExplicit, SelectNext
<1>1. /\ online \in Seq(Used) /\ nextIndex \in Nat /\ Used \subseteq Contexts
  BY <1>0, IndexFacts DEF TypeOK
<1>2. /\ selected' \in Contexts /\ explicit' \in BOOLEAN /\ nextIndex' \in Nat
      /\ WasUp(selected') \/ (online = <<>> /\ ~explicit')
  <2>1. CASE SelectExplicit
    <3>1. TargetIndex \in Contexts /\ ap_context_is_schedulable(TargetIndex)
      BY <2>1, IndexFacts DEF SelectExplicit, ExplicitPossible
    <3>2. WasUp(TargetIndex)
      BY <3>1 DEF IInv, WasUp, ap_context_is_schedulable
    <3> QED BY <1>1, <2>1, <3>1, <3>2 DEF SelectExplicit
  <2>2. CASE SelectNext /\ online = <<>>
    BY <1>1, <2>2, IndexFacts DEF SelectNext
  <2>3. CASE SelectNext /\ online # <<>>
    <3> DEFINE r == IF nextIndex >= Len(online) THEN 0 ELSE nextIndex
    <3>1. Len(online) \in Nat \ {0} /\ DOMAIN online = 1 .. Len(online)
      BY <1>1, <2>3
    <3>2. r \in Nat /\ r + 1 \in DOMAIN online
      BY <1>1, <3>1
    <3>3. selected' = online[r + 1] /\ nextIndex' = (r + 1) % Len(online)
          /\ explicit' = FALSE
      BY <2>3 DEF SelectNext
    <3>4. nextIndex' \in Nat
      BY <3>1, <3>2, <3>3
    <3>5. online[r + 1] \in Contexts /\ WasUp(online[r + 1])
      BY <1>1, <3>2 DEF IInv
    <3> QED BY <3>3, <3>4, <3>5
  <2> QED BY <2>1, <2>2, <2>3
<1>3. TypeOK'
  BY <1>0, <1>2 DEF TypeOK
<1>4. WasUp(selected)' \/ (online' = <<>> /\ ~explicit')
  BY <1>0, <1>2 DEF WasUp
<1> QED BY <1>0, <1>3, <1>4, RegistryKept DEF IInv

(* The route goes to the selected context or to an owner that is           *)
(* schedulable when it is chosen.                                          *)
LEMMA RouteHolds ==
    ASSUME IInv, RouteExplicit \/ RouteOwner \/ RouteFallback
    PROVE  IInv'
<1>0. /\ TypeOK /\ pc' = "routed" /\ pc = "route"
      /\ UNCHANGED <<boot, i, online, nextIndex, explicit, selected, deaths>>
  BY DEF IInv, RouteExplicit, RouteOwner, RouteFallback, RouteTo
<1>1. selected \in Contexts /\ (WasUp(selected) \/ (online = <<>> /\ ~explicit))
  BY <1>0 DEF IInv, TypeOK
<1> DEFINE own == ap_request_plan_owner_context_index
<1>2. /\ route' \in [mode : {"NONE", "EXPLICIT", "OWNER", "FALLBACK"},
                     target : Contexts, owner : Nat]
      /\ WasUp(route'.target) \/ online = <<>>
  <2>1. CASE RouteExplicit
    BY <1>1, <2>1, IndexFacts DEF RouteExplicit, RouteTo
  <2>2. CASE RouteOwner
    <3>1. own \in Contexts /\ own \in Nat /\ ap_context_is_schedulable(own)
      BY <2>2, PlanOwnerIsIndex, IndexFacts DEF RouteOwner, OwnerPossible
    <3>2. WasUp(own)
      BY <3>1 DEF IInv, WasUp, ap_context_is_schedulable
    <3>3. route' = [mode |-> "OWNER", target |-> own, owner |-> own]
      BY <2>2 DEF RouteOwner, RouteTo
    <3> QED BY <3>1, <3>2, <3>3
  <2>3. CASE RouteFallback
    <3>1. PICK o \in Nat : route' = [mode |-> "FALLBACK", target |-> selected, owner |-> o]
      BY <2>3, PlanOwnerIsIndex, IndexFacts DEF RouteFallback, RouteTo
    <3> QED BY <1>1, <3>1
  <2> QED BY <2>1, <2>2, <2>3
<1>3. TypeOK'
  BY <1>0, <1>2 DEF TypeOK
<1>4. WasUp(selected)' \/ (online' = <<>> /\ ~explicit')
  BY <1>0, <1>1 DEF WasUp
<1>5. WasUp(route.target)' \/ online' = <<>>
  BY <1>0, <1>2 DEF WasUp
<1> QED BY <1>0, <1>3, <1>4, <1>5, RegistryKept DEF IInv

(* A step that changes nothing keeps the invariant.                        *)
LEMMA StutterHolds ==
    ASSUME IInv, UNCHANGED vars
    PROVE  IInv'
<1>1. TypeOK'
  BY DEF IInv, TypeOK, vars
<1>2. UNCHANGED <<boot, pc, i, online, explicit, selected, route, deaths>>
  BY DEF vars
<1>3. pc' \in {"route", "routed"} => WasUp(selected)' \/ (online' = <<>> /\ ~explicit')
  BY <1>2 DEF IInv, WasUp
<1>4. pc' = "routed" => WasUp(route.target)' \/ online' = <<>>
  BY <1>2 DEF IInv, WasUp
<1> QED BY <1>1, <1>2, <1>3, <1>4, RegistryKept DEF IInv

-----------------------------------------------------------------------------
(* The inductive invariant holds in every reachable state, for any number  *)
(* of contexts, any explicit target and any plan.                          *)
THEOREM InductiveInvariant == Spec => []IInv
<1>1. ASSUME IInv, [Next]_vars PROVE IInv'
  BY <1>1, ApHolds, BuildHolds, SelectHolds, RouteHolds, StutterHolds
  DEF Next, BspStep, Streaming
<1> QED BY InitHolds, <1>1, PTL DEF Spec

(* build_online_ap_registry misses no schedulable context, and lists only  *)
(* contexts that were schedulable during the scan, although APs fault and  *)
(* come up meanwhile.                                                      *)
THEOREM RegistryCorrect == Spec => []RegistryIsSound
<1>1. IInv => RegistryIsSound
  BY DEF IInv, RegistryIsSound, Registered, WasUp
<1> QED BY <1>1, InductiveInvariant, PTL

(* The stream is routed to a context that is schedulable or died after the *)
(* scan began, unless no context was schedulable at all.                   *)
THEOREM RoutedToTheLiving == Spec => []NeverRoutedToDead
<1>1. IInv => NeverRoutedToDead
  BY DEF IInv, NeverRoutedToDead, Registered, WasUp, ap_context_is_schedulable
<1> QED BY <1>1, InductiveInvariant, PTL

-----------------------------------------------------------------------------
(* Precedence.                                                             *)

PInv == ChoiceInv /\ PrecedenceIsKept

(* An AP that comes up late had an error: who can be scheduled does not    *)
(* change.                                                                 *)
LEMMA LateIsNotSchedulable ==
    ASSUME IInv, NEW c \in Contexts, ApComesLate(c), NEW d \in Contexts
    PROVE  ap_context_is_schedulable(d)' <=> ap_context_is_schedulable(d)
<1>1. boot \in [Contexts -> BootState]
  BY DEF IInv, TypeOK
<1>2. CASE d = c
  BY <1>1, <1>2 DEF ApComesLate, ap_context_is_schedulable, BootState
<1>3. CASE d # c
  BY <1>1, <1>3 DEF ApComesLate, ap_context_is_schedulable
<1> QED BY <1>2, <1>3

(* The indices the properties look at are contexts.                        *)
LEMMA ChoiceIsContext ==
    /\ ExplicitPossible => TargetIndex \in Contexts
    /\ OwnerPossible => ap_request_plan_owner_context_index \in Contexts
BY IndexFacts, PlanOwnerIsIndex DEF ExplicitPossible, OwnerPossible, Contexts

(* The APs: a death makes the claim void, a late arrival changes nothing.  *)
LEMMA ApKeepsPrecedence ==
    ASSUME IInv, PInv, NEW c \in Contexts, ApFaults(c) \/ ApComesLate(c)
    PROVE  PInv'
<1>1. CASE ApFaults(c)
  <2>1. deaths' # {}
    BY <1>1 DEF ApFaults
  <2> QED BY <1>1, <2>1 DEF ApFaults, PInv, ChoiceInv, PrecedenceIsKept
<1>2. CASE ApComesLate(c)
  <2>1. \A d \in Contexts : ap_context_is_schedulable(d)' <=> ap_context_is_schedulable(d)
    BY <1>2, LateIsNotSchedulable
  <2>2. UNCHANGED <<pc, i, online, nextIndex, explicit, selected, route, deaths>>
    BY <1>2 DEF ApComesLate
  <2>3. ExplicitPossible => (ap_context_is_schedulable(TargetIndex)'
                               <=> ap_context_is_schedulable(TargetIndex))
    BY <2>1, ChoiceIsContext
  <2>4. ChoiceInv'
    BY <2>2, <2>3 DEF PInv, ChoiceInv, ExplicitPossible
  <2>5. PrecedenceIsKept'
    BY <2>1, <2>2, <2>3, ChoiceIsContext DEF PInv, PrecedenceIsKept, Registered, ExplicitPossible, OwnerPossible
  <2> QED BY <2>4, <2>5 DEF PInv
<1> QED BY <1>1, <1>2

(* The selection takes the explicit target, or the first of the registry.  *)
LEMMA SelectKeepsPrecedence ==
    ASSUME IInv, PInv, Scan \/ Built \/ SelectExplicit \/ SelectNext
    PROVE  PInv'
<1>1. CASE Scan
  BY <1>1 DEF Scan, PInv, ChoiceInv, PrecedenceIsKept
<1>2. CASE Built
  BY <1>2 DEF Built, PInv, ChoiceInv, PrecedenceIsKept
<1>3. CASE SelectExplicit
  <2>1. /\ explicit' /\ selected' = TargetIndex /\ pc' = "route"
        /\ ap_context_is_schedulable(TargetIndex)' /\ ExplicitPossible
    BY <1>3 DEF SelectExplicit, ap_context_is_schedulable
  <2> QED BY <2>1 DEF PInv, ChoiceInv, PrecedenceIsKept, ExplicitPossible
<1>4. CASE SelectNext
  <2>1. /\ ~explicit' /\ pc' = "route" /\ UNCHANGED <<boot, online>>
        /\ ~(ExplicitPossible /\ ap_context_is_schedulable(TargetIndex))
    BY <1>4 DEF SelectNext
  <2>2. selected' = IF online = <<>> THEN 0 ELSE online[1]
    <3>1. nextIndex = 0
      BY <1>4 DEF SelectNext, PInv, ChoiceInv
    <3>2. online # <<>> => Len(online) > 0 /\ Len(online) \in Nat
      BY DEF IInv, TypeOK
    <3> QED BY <1>4, <3>1, <3>2 DEF SelectNext
  <2>3. ~(ExplicitPossible /\ ap_context_is_schedulable(TargetIndex)')
    BY <2>1 DEF ap_context_is_schedulable
  <2> QED BY <2>1, <2>2, <2>3 DEF PInv, ChoiceInv, PrecedenceIsKept, ExplicitPossible
<1> QED BY <1>1, <1>2, <1>3, <1>4

(* The route is the selection's, unless the owner can have it.             *)
LEMMA RouteKeepsPrecedence ==
    ASSUME IInv, PInv, RouteExplicit \/ RouteOwner \/ RouteFallback
    PROVE  PInv'
<1> DEFINE own == ap_request_plan_owner_context_index
<1>1. /\ pc = "route" /\ pc' = "routed"
      /\ UNCHANGED <<boot, i, online, nextIndex, explicit, selected, deaths>>
  BY DEF RouteExplicit, RouteOwner, RouteFallback, RouteTo
<1>2. \A d : ap_context_is_schedulable(d)' <=> ap_context_is_schedulable(d)
  BY <1>1 DEF ap_context_is_schedulable
<1>3. ChoiceInv'
  BY <1>1, <1>2 DEF PInv, ChoiceInv, ExplicitPossible
<1>4. PrecedenceIsKept'
  <2> SUFFICES ASSUME deaths = {} PROVE PrecedenceIsKept'
    BY <1>1 DEF PrecedenceIsKept
  <2>0. /\ explicit <=> ExplicitPossible /\ ap_context_is_schedulable(TargetIndex)
        /\ selected = IF explicit THEN TargetIndex
                      ELSE IF online = <<>> THEN 0 ELSE online[1]
    BY <1>1 DEF PInv, ChoiceInv
  <2>1. CASE RouteExplicit
    BY <1>1, <1>2, <2>0, <2>1 DEF RouteExplicit, RouteTo, PrecedenceIsKept, ExplicitPossible
  <2>2. CASE RouteOwner
    BY <1>1, <1>2, <2>0, <2>2 DEF RouteOwner, RouteTo, PrecedenceIsKept, ExplicitPossible
  <2>3. CASE RouteFallback
    <3>1. Registered' # {} => online # <<>>
      BY <1>1 DEF Registered
    <3>2. route'.mode = "FALLBACK" /\ route'.target = selected
      BY <2>3 DEF RouteFallback, RouteTo
    <3>3. ~explicit /\ ~(OwnerPossible /\ ap_context_is_schedulable(own))
      BY <2>3 DEF RouteFallback
    <3> QED BY <1>1, <1>2, <2>0, <3>1, <3>2, <3>3
            DEF PrecedenceIsKept, ExplicitPossible, OwnerPossible
  <2> QED BY <2>1, <2>2, <2>3
<1> QED BY <1>3, <1>4 DEF PInv

(* When no AP faults while the scheduler runs, the stream goes to the      *)
(* explicit target if it is schedulable, else to the owner of the plan's   *)
(* first registered service if that is, else to the head of the registry.  *)
THEOREM PrecedenceCorrect == Spec => []PrecedenceIsKept
<1>1. Init => PInv
  BY DEF Init, PInv, ChoiceInv, PrecedenceIsKept
<1>2. ASSUME IInv, PInv, [Next]_vars PROVE PInv'
  <2>1. CASE UNCHANGED vars
    <3>1. \A d : ap_context_is_schedulable(d)' <=> ap_context_is_schedulable(d)
      BY <2>1 DEF vars, ap_context_is_schedulable
    <3>2. UNCHANGED <<pc, i, online, nextIndex, explicit, selected, route, deaths>>
      BY <2>1 DEF vars
    <3>3. ChoiceInv'
      BY <1>2, <3>1, <3>2 DEF PInv, ChoiceInv, ExplicitPossible
    <3>4. PrecedenceIsKept'
      BY <1>2, <3>1, <3>2 DEF PInv, PrecedenceIsKept, Registered, ExplicitPossible, OwnerPossible
    <3> QED BY <3>3, <3>4 DEF PInv
  <2> QED BY <1>2, <2>1, ApKeepsPrecedence, SelectKeepsPrecedence, RouteKeepsPrecedence
          DEF Next, BspStep, Streaming
<1>3. PInv => PrecedenceIsKept
  BY DEF PInv
<1> QED BY InductiveInvariant, <1>1, <1>2, <1>3, PTL DEF Spec
=============================================================================
