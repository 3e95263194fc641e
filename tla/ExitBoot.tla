------------------------------ MODULE ExitBoot ------------------------------
(***************************************************************************)
(* Taking the machine over from the firmware (kernel/kernel.c):            *)
(* exit_boot_services asks for the size of the memory map, allocates a     *)
(* buffer with room for more, and then reads the map and calls             *)
(* ExitBootServices with its key until the firmware accepts it.            *)
(*                                                                         *)
(* The firmware is external.  Its events may change the map between any    *)
(* two calls, without end, and the call that allocates the buffer does so  *)
(* itself; a key is accepted only while the map it came with is current.   *)
(* The map is counted in descriptors.                                      *)
(***************************************************************************)
EXTENDS Naturals

CONSTANTS
    Spare,      \* descriptors the buffer has in excess: 16
    MaxTries,   \* 8
    Own,        \* descriptors the kernel's allocation may add to the map
    MaxSize     \* bound: descriptors the map may come to

ASSUME ExitAssumption ==
    /\ MaxTries \in Nat \ {0} /\ MaxSize \in Nat \ {0}
    /\ Own \in Nat /\ Spare \in Nat /\ Own <= Spare

VARIABLES
    size,       \* descriptors in the firmware's map
    current,    \* the key the kernel holds is the current one
    exited,     \* boot services are gone
    pc, tries,  \* the kernel, and the turns of its loop
    capacity,   \* descriptors its buffer has room for
    mapSize,    \* descriptors in the map it read last
    changes     \* ghost: changes of the map since the size was asked for, up to MaxTries

vars == <<size, current, exited, pc, tries, capacity, mapSize, changes>>

Init ==
    /\ size \in 1 .. MaxSize /\ current = FALSE /\ exited = FALSE
    /\ pc = "probe" /\ tries = 0 /\ capacity = 0 /\ mapSize = 0 /\ changes = 0

(* A timer or a driver of the firmware allocates or frees memory.          *)
Churn ==
    /\ exited = FALSE
    /\ size' \in 1 .. MaxSize /\ current' = FALSE
    /\ changes' = IF pc # "probe" /\ changes < MaxTries THEN changes + 1 ELSE changes
    /\ UNCHANGED <<exited, pc, tries, capacity, mapSize>>

(* GetMemoryMap with no buffer answers BUFFER_TOO_SMALL and the size;      *)
(* anything else ends the boot.                                            *)
Probe ==
    /\ pc = "probe"
    /\ \/ pc' = "refused" /\ UNCHANGED capacity
       \/ pc' = "allocate" /\ capacity' = size + Spare
    /\ UNCHANGED <<size, current, exited, tries, mapSize, changes>>

Allocate ==
    /\ pc = "allocate"
    /\ \/ pc' = "refused" /\ UNCHANGED size
       \/ pc' = "get" /\ size' \in size .. size + Own
    /\ UNCHANGED <<current, exited, tries, capacity, mapSize, changes>>

(* GetMemoryMap also fails when the map has outgrown the buffer.           *)
Get ==
    /\ pc = "get"
    /\ \/ pc' = "refused" /\ UNCHANGED <<mapSize, current>>
       \/ size > capacity /\ pc' = "failed" /\ UNCHANGED <<mapSize, current>>
       \/ size <= capacity /\ pc' = "exit" /\ mapSize' = size /\ current' = TRUE
    /\ UNCHANGED <<size, exited, tries, capacity, changes>>

(* Mutant of Exit: the loop keeps the key it has.                          *)
ExitSameKey ==
    /\ pc = "exit"
    /\ IF current THEN pc' = "owned" /\ exited' = TRUE /\ UNCHANGED tries
       ELSE /\ tries' = tries + 1 /\ UNCHANGED exited
            /\ pc' = IF tries' = MaxTries THEN "failed" ELSE "exit"
    /\ UNCHANGED <<size, current, capacity, mapSize, changes>>

(* Mutant of Exit: the status is not looked at.                            *)
ExitBlind ==
    /\ pc = "exit"
    /\ pc' = "owned" /\ exited' = current
    /\ UNCHANGED <<size, current, tries, capacity, mapSize, changes>>

(* Mutant of Exit: the turns are not counted.                              *)
ExitForever ==
    /\ pc = "exit"
    /\ IF current THEN pc' = "owned" /\ exited' = TRUE ELSE pc' = "get" /\ UNCHANGED exited
    /\ UNCHANGED <<size, current, tries, capacity, mapSize, changes>>

Exit ==
    /\ pc = "exit"
    /\ IF current THEN pc' = "owned" /\ exited' = TRUE /\ UNCHANGED tries
       ELSE /\ tries' = tries + 1 /\ UNCHANGED exited
            /\ pc' = IF tries' = MaxTries THEN "failed" ELSE "get"
    /\ UNCHANGED <<size, current, capacity, mapSize, changes>>

(* efi_main goes on with the map or halts.                                 *)
Over == pc \in {"owned", "failed", "refused"}
Stop == Over /\ UNCHANGED vars

Kernel == Probe \/ Allocate \/ Get \/ Exit
Next == Kernel \/ Churn \/ Stop

(* The kernel is the only program that runs; nothing is assumed about the  *)
(* firmware's events.                                                      *)
Spec == Init /\ [][Next]_vars /\ WF_vars(Kernel)

-----------------------------------------------------------------------------
(* Properties.                                                             *)

(* The kernel goes on exactly when boot services are gone, and with the    *)
(* map that was in force at that moment, whole and within its buffer.      *)
OwnedMapIsCurrent ==
    /\ pc = "owned" <=> exited
    /\ exited => mapSize = size /\ mapSize <= capacity

(* A boot that no firmware call refused fails only because of the          *)
(* firmware's events: one let the map outgrow the buffer, or the map       *)
(* changed during every single try.                                        *)
FailureHasReason ==
    pc = "failed" => IF tries = MaxTries THEN changes = MaxTries ELSE changes > 0

(* The loop ends, even if the map changes for ever.                        *)
BootDecides == <>Over

-----------------------------------------------------------------------------
(* The inductive invariant behind the theorems of ExitBootProofs.          *)

TypeInv ==
    /\ size \in Nat /\ current \in BOOLEAN /\ exited \in BOOLEAN
    /\ pc \in {"probe", "allocate", "get", "exit", "owned", "failed", "refused"}
    /\ tries \in 0 .. MaxTries /\ changes \in 0 .. MaxTries
    /\ capacity \in Nat /\ mapSize \in Nat

(* A key that is current came with the map as it is.                       *)
KeyInv ==
    /\ pc = "owned" <=> exited
    /\ exited => current
    /\ pc \in {"exit", "owned"} /\ current => mapSize = size /\ mapSize <= capacity

(* Every turn of the loop that failed has seen a change of its own, and    *)
(* without a change the buffer is large enough.                            *)
ReasonInv ==
    /\ pc = "probe" => changes = 0
    /\ pc \in {"probe", "allocate"} => tries = 0
    /\ pc = "allocate" /\ changes = 0 => size + Own <= capacity
    /\ pc = "get" /\ changes = 0 => size <= capacity
    /\ pc \in {"get", "exit"} => tries < MaxTries /\ tries <= changes
    /\ pc = "exit" /\ ~current => tries < changes

IInv == TypeInv /\ KeyInv /\ ReasonInv /\ FailureHasReason
=============================================================================
