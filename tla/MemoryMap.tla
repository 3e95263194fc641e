----------------------------- MODULE MemoryMap -----------------------------
(***************************************************************************)
(* The memory map taken over from the firmware (kernel/kernel.c): a        *)
(* sequence of descriptors [type, start, pages].  Addresses are 64-bit     *)
(* words; MaxAddr stands for the largest and every sum is checked against  *)
(* it before it is formed, as in the code.                                 *)
(***************************************************************************)
EXTENDS Integers, Sequences

CONSTANTS
    PageSize,   \* PAGE_SIZE_4K
    MaxAddr     \* ~(UINT64)0

ASSUME MapAssumption == PageSize \in Nat \ {0} /\ MaxAddr \in Nat /\ MaxAddr > PageSize

(* descriptor_end_checked: the end, where it does not wrap around.         *)
EndFits(d) == d.pages <= (MaxAddr - d.start) \div PageSize
EndOf(d) == d.start + d.pages * PageSize

memory_map_contains_range(map, start, length) ==
    \/ length = 0
    \/ /\ start <= MaxAddr - length
       /\ \E k \in DOMAIN map : /\ EndFits(map[k])
                                /\ start >= map[k].start
                                /\ start + length <= EndOf(map[k])

(* append_memory_descriptor fails when the buffer has no room left.        *)
HasRoom(map, capacity) == Len(map) + 1 <= capacity

align_down_4k(a) == a - (a % PageSize)
AlignFits(a) == a = 0 \/ a <= MaxAddr - (PageSize - 1)
align_up_4k(a) == IF a = 0 THEN 0 ELSE align_down_4k(a + PageSize - 1)

div_round_up64(a, b) == IF a = 0 THEN 0 ELSE ((a - 1) \div b) + 1
=============================================================================
