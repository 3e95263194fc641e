--------------------------- MODULE ExitBootProofs ---------------------------
(***************************************************************************)
(* Proofs about exit_boot_services, for a memory map and a buffer of any   *)
(* size and any number of tries.                                           *)
(***************************************************************************)
EXTENDS ExitBoot, TLAPS

(* The constants, for the provers.                                         *)
LEMMA Constants ==
    /\ MaxTries \in Nat /\ MaxTries > 0
    /\ Own \in Nat /\ Spare \in Nat /\ Own <= Spare
BY ExitAssumption DEF ExitAssumption

(* The kernel has asked for nothing yet.                                   *)
LEMMA InitHolds == Init => IInv
<1> SUFFICES ASSUME Init PROVE IInv
  OBVIOUS
<1>0. size \in Nat
  BY ExitAssumption DEF ExitAssumption, Init
<1>1. TypeInv
  <2>1. 0 \in 0 .. MaxTries
    BY Constants
  <2>2. current \in BOOLEAN /\ exited \in BOOLEAN
    BY Zenon DEF Init
  <2> QED BY <1>0, <2>1, <2>2 DEF Init, TypeInv
<1>2. KeyInv /\ ReasonInv /\ FailureHasReason
  BY DEF Init, KeyInv, ReasonInv, FailureHasReason
<1> QED BY <1>1, <1>2 DEF IInv

(* The firmware may change the map at any time before it is gone: the key  *)
(* is then stale, and the change is counted once the size has been asked.  *)
LEMMA ChurnStep == IInv /\ Churn => IInv'
<1> SUFFICES ASSUME IInv, Churn PROVE IInv'
  OBVIOUS
<1>0. size' \in Nat
  BY ExitAssumption DEF ExitAssumption, Churn
<1>1. changes' \in 0 .. MaxTries /\ changes <= changes'
      /\ (pc # "probe" /\ changes < MaxTries => changes' = changes + 1)
      /\ (pc = "probe" => changes' = changes)
  BY Constants DEF IInv, TypeInv, Churn
<1>2. TypeInv'
  BY <1>0, <1>1 DEF IInv, TypeInv, Churn
<1>3. KeyInv'
  BY DEF IInv, TypeInv, KeyInv, Churn
<1>4. ReasonInv'
  <2>1. pc \in {"allocate", "get", "exit"} => changes' > 0
    BY <1>1, Constants DEF IInv, TypeInv
  <2>2. pc = "exit" => tries < changes'
    BY <1>1, Constants DEF IInv, TypeInv, ReasonInv
  <2>3. UNCHANGED <<pc, tries>>
    BY DEF Churn
  <2>4. changes \in Nat /\ changes' \in Nat /\ tries \in Nat
    BY <1>1, Constants DEF IInv, TypeInv
  <2> QED BY <1>1, <2>1, <2>2, <2>3, <2>4 DEF IInv, ReasonInv
<1>5. FailureHasReason'
  BY <1>1, Constants DEF IInv, TypeInv, FailureHasReason, Churn
<1> QED BY <1>2, <1>3, <1>4, <1>5 DEF IInv

(* The buffer gets room for more than the kernel's own allocation adds.    *)
LEMMA ProbeStep == IInv /\ Probe => IInv'
BY Constants DEF IInv, TypeInv, KeyInv, ReasonInv, FailureHasReason, Probe

(* Allocating the map buffer keeps the invariant.                          *)
LEMMA AllocateStep == IInv /\ Allocate => IInv'
BY Constants DEF IInv, TypeInv, KeyInv, ReasonInv, FailureHasReason, Allocate

(* A map that was read is the one in force.                                *)
LEMMA GetStep == IInv /\ Get => IInv'
<1> SUFFICES ASSUME IInv, Get PROVE IInv'
  OBVIOUS
<1>1. CASE pc' = "exit"
  BY <1>1, Constants DEF IInv, TypeInv, KeyInv, ReasonInv, FailureHasReason, Get
<1>2. CASE pc' # "exit"
  <2>1. TypeInv'
    BY <1>2 DEF IInv, TypeInv, Get
  <2>2. KeyInv'
    BY <1>2 DEF IInv, TypeInv, KeyInv, Get
  <2>3. ReasonInv'
    BY <1>2 DEF IInv, TypeInv, ReasonInv, Get
  <2>4. FailureHasReason'
    BY <1>2, Constants DEF IInv, TypeInv, ReasonInv, FailureHasReason, Get
  <2> QED BY <2>1, <2>2, <2>3, <2>4 DEF IInv
<1> QED BY <1>1, <1>2

(* A refused key costs one try, and it is stale because of a change that   *)
(* no earlier try has been charged with.                                   *)
LEMMA ExitStep == IInv /\ Exit => IInv'
<1> SUFFICES ASSUME IInv, Exit PROVE IInv'
  OBVIOUS
<1>1. CASE current
  BY <1>1, Constants DEF IInv, TypeInv, KeyInv, ReasonInv, FailureHasReason, Exit
<1>2. CASE ~current
  BY <1>2, Constants DEF IInv, TypeInv, KeyInv, ReasonInv, FailureHasReason, Exit
<1> QED BY <1>1, <1>2

(* The invariant holds throughout.                                         *)
LEMMA Inductive == Spec => []IInv
<1>1. IInv /\ [Next]_vars => IInv'
  <2> SUFFICES ASSUME IInv, [Next]_vars PROVE IInv'
    OBVIOUS
  <2>1. CASE Kernel
    BY <2>1, ProbeStep, AllocateStep, GetStep, ExitStep DEF Kernel
  <2>2. CASE Churn
    BY <2>2, ChurnStep
  <2>3. CASE UNCHANGED vars
    BY <2>3 DEF vars, IInv, TypeInv, KeyInv, ReasonInv, FailureHasReason
  <2> QED BY <2>1, <2>2, <2>3 DEF Next, Stop
<1> QED BY InitHolds, <1>1, PTL DEF Spec

(* Whenever efi_main goes on after exit_boot_services, boot services are   *)
(* gone, and the map it goes on with is the one in force at that moment.   *)
THEOREM MapIsCurrent == Spec => []OwnedMapIsCurrent
<1>1. IInv => OwnedMapIsCurrent
  BY DEF IInv, KeyInv, OwnedMapIsCurrent
<1> QED BY Inductive, <1>1, PTL

(* exit_boot_services gives up only because of the firmware: the map       *)
(* outgrew a buffer that had been large enough, or changed in every try.   *)
THEOREM GivesUpForAReason == Spec => []FailureHasReason
<1>1. IInv => FailureHasReason
  BY DEF IInv
<1> QED BY Inductive, <1>1, PTL
=============================================================================
