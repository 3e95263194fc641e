------------------------------ MODULE AcpiMadt ------------------------------
(***************************************************************************)
(* Processor discovery (kernel/kernel.c): find_acpi_rsdp picks the root    *)
(* pointer, parse_acpi follows it through the XSDT to the MADT, parse_madt *)
(* walks the MADT's entries, and the APs are counted and selected from the *)
(* table of enabled processors.                                            *)
(*                                                                         *)
(* The firmware's bytes are chosen when they are first read.  Structure    *)
(* sizes are the code's: 20, 24 and 36 bytes of RSDP, 36 of table header,  *)
(* 44 of MADT before the entries.  A checksum, a signature and the fields  *)
(* that only the screen shows are a Boolean or left out.                   *)
(***************************************************************************)
EXTENDS MemoryMap, FiniteSets

CONSTANTS
    Map,            \* the memory map
    ConfigTables,   \* the firmware's configuration tables: sequences of [guid, addr]
    Addresses,      \* what a table address in memory may be
    Lengths,        \* what a length field of a table may be
    MadtEntries,    \* what an entry may say: [type, length, enabled, id]
    MaxRsdpLength,  \* ACPI_MAX_RSDP_LENGTH
    MaxSdtLength,   \* ACPI_MAX_SDT_LENGTH
    MaxCpus,        \* ACPI_MAX_CPUS
    BspId           \* what read_bsp_apic_id returns

MadtEntry == [type : Nat, length : Nat, enabled : BOOLEAN, id : Nat]

ASSUME AcpiAssumption ==
    /\ MaxCpus \in Nat /\ MaxRsdpLength \in Nat /\ MaxSdtLength \in Nat
    /\ Addresses \subseteq Nat /\ Lengths \subseteq Nat /\ MadtEntries \subseteq MadtEntry
    /\ \A k \in DOMAIN Map : Map[k].start \in Nat /\ Map[k].pages \in Nat

VARIABLES
    info,   \* error, enabled_cpu_count and cpus[0 .. stored_cpu_count - 1]
    pc,     \* "rsdp", "xsdt", "tables", "madt", "walk" or "done"
    at,     \* address of the structure being read
    length, \* its length field, once it is checked
    next,   \* index of the next XSDT entry, or offset of the next MADT entry
    last,   \* ghost: offset and content of the MADT entry read last
    seen,   \* ghost: the enabled processors the MADT lists
    stray   \* ghost: the reads <<address, bytes>> outside every descriptor

vars == <<info, pc, at, length, next, last, seen, stray>>

First(S) == CHOOSE k \in S : \A l \in S : k <= l

(* The ACPI 2.0 table, or the first 1.0 table that is not null.            *)
find_acpi_rsdp(tables) ==
    LET v2 == { k \in DOMAIN tables : tables[k].guid = "acpi20" }
        v1 == { k \in DOMAIN tables : tables[k].guid = "acpi10" /\ tables[k].addr # 0 }
    IN  IF v2 # {} THEN tables[First(v2)].addr
        ELSE IF v1 # {} THEN tables[First(v1)].addr ELSE 0

Init ==
    /\ \E tables \in ConfigTables : at = find_acpi_rsdp(tables)
    /\ info = [error |-> "OK", enabled |-> 0, cpus |-> <<>>]
    /\ pc = "rsdp" /\ length = 0 /\ next = 0
    /\ last = <<>> /\ seen = <<>> /\ stray = {}

-----------------------------------------------------------------------------
(* The code is a sequence of reads and checks; the first check that fails  *)
(* sets the error and nothing after it is read.                            *)

Read(a, bytes) == [ok |-> TRUE, error |-> "OK", read |-> <<a, bytes>>]
Check(ok, error) == [ok |-> ok, error |-> error, read |-> <<0, 0>>]
Mapped(a, bytes) == Check(memory_map_contains_range(Map, a, bytes), "RANGE")

Failing(steps) == { k \in DOMAIN steps : ~steps[k].ok }
Taken(steps) == IF Failing(steps) = {} THEN DOMAIN steps ELSE 1 .. First(Failing(steps))
Stray(steps) == { r \in { steps[k].read : k \in Taken(steps) } :
                    ~memory_map_contains_range(Map, r[1], r[2]) }

(* The steps are taken; if all succeed, the parser goes on to pc2.         *)
Perform(steps, pc2) ==
    /\ stray' = stray \cup Stray(steps)
    /\ IF Failing(steps) = {}
       THEN pc' = pc2 /\ UNCHANGED info
       ELSE pc' = "done" /\ info' = [info EXCEPT !.error = steps[First(Failing(steps))].error]

Rsdp ==
    /\ pc = "rsdp"
    /\ \E valid20, valid \in BOOLEAN, revision \in {1, 2}, len \in Lengths, xsdt \in Addresses :
         /\ Perform(<<Check(at # 0, "NO_RSDP"),
                      Mapped(at, 20), Read(at, 20),
                      Check(valid20, "BAD_RSDP"), Check(revision >= 2, "NO_XSDT"),
                      Mapped(at, 24), Read(at, 24),
                      Check(36 <= len /\ len <= MaxRsdpLength, "BAD_RSDP"),
                      Mapped(at, len), Read(at, len),
                      Check(valid, "BAD_RSDP"), Check(xsdt # 0, "NO_XSDT"),
                      Mapped(xsdt, 36)>>, "xsdt")
         /\ at' = xsdt
    /\ UNCHANGED <<length, next, last, seen>>

Xsdt ==
    /\ pc = "xsdt"
    /\ \E signed, valid \in BOOLEAN, len \in Lengths :
         /\ Perform(<<Read(at, 36),
                      Check(signed /\ 36 <= len /\ len <= MaxSdtLength, "BAD_XSDT"),
                      Mapped(at, len), Read(at, len), Check(valid, "BAD_XSDT")>>, "tables")
         /\ length' = len
    /\ UNCHANGED <<at, next, last, seen>>

(* The tables the XSDT lists, until one is an MADT.                        *)
Table ==
    /\ pc = "tables" /\ next < (length - 36) \div 8
    /\ \E table \in Addresses, apic \in BOOLEAN :
         /\ Perform(<<Read(at + 36 + next * 8, 8), Check(table # 0, "RANGE"),
                      Mapped(table, 36), Read(table, 36)>>, IF apic THEN "madt" ELSE "tables")
         /\ IF apic THEN at' = table /\ UNCHANGED next ELSE next' = next + 1 /\ UNCHANGED at
    /\ UNCHANGED <<length, last, seen>>

NoMadt ==
    /\ pc = "tables" /\ next >= (length - 36) \div 8
    /\ Perform(<<Check(FALSE, "NO_MADT")>>, "done")
    /\ UNCHANGED <<at, length, next, last, seen>>

Madt ==
    /\ pc = "madt"
    /\ \E valid \in BOOLEAN, len \in Lengths :
         /\ Perform(<<Check(44 <= len /\ len <= MaxSdtLength, "BAD_MADT"),
                      Mapped(at, len), Read(at, len), Check(valid, "BAD_MADT")>>, "walk")
         /\ length' = len
    /\ next' = 44
    /\ UNCHANGED <<at, last, seen>>

-----------------------------------------------------------------------------
(* The walk over the MADT's entries.                                       *)

(* The bytes of an entry that its branch reads: a local APIC, the address  *)
(* override and a local x2APIC.                                            *)
Size(e) == CASE e.type = 0 -> 8 [] e.type = 5 -> 12 [] e.type = 9 -> 16 [] OTHER -> 2
Understood(e) == e.type \in {0, 5, 9} /\ e.length >= Size(e)
Processor(e) == Understood(e) /\ e.type # 5 /\ e.enabled

AddCpuUnbounded(inf, e) ==      \* mutant of add_acpi_cpu: the table has no end
    [inf EXCEPT !.enabled = @ + 1, !.cpus = Append(@, [id |-> e.id, x2apic |-> e.type = 9])]
add_acpi_cpu(inf, e) ==
    [inf EXCEPT !.enabled = @ + 1,
                !.cpus = IF Len(@) >= MaxCpus THEN @
                         ELSE Append(@, [id |-> e.id, x2apic |-> e.type = 9])]

StepInside(e) == next + e.length <= length      \* mutant of EntryFits: no minimum
StepAlong(e) == e.length >= 2                   \* mutant of EntryFits: no maximum
EntryFits(e) == e.length >= 2 /\ next + e.length <= length

Walk ==
    /\ pc = "walk" /\ next < length
    /\ \E e \in (IF last # <<>> /\ last[1] = next THEN {last[2]} ELSE MadtEntries) :
         LET steps == <<Read(at + next, 2), Check(EntryFits(e), "BAD_ENTRY"),
                        Read(at + next, IF Understood(e) THEN Size(e) ELSE 2)>>
         IN  /\ stray' = stray \cup Stray(steps)
             /\ last' = <<next, e>>
             /\ CASE ~EntryFits(e) ->
                       /\ info' = [info EXCEPT !.error = "BAD_ENTRY"] /\ pc' = "done"
                       /\ UNCHANGED <<next, seen>>
                  [] EntryFits(e) ->
                       /\ info' = IF Processor(e) THEN add_acpi_cpu(info, e) ELSE info
                       /\ seen' = IF Processor(e) THEN Append(seen, e) ELSE seen
                       /\ next' = next + e.length
                       /\ UNCHANGED pc
    /\ UNCHANGED <<at, length>>

WalkEnds ==
    /\ pc = "walk" /\ next >= length
    /\ pc' = "done"
    /\ UNCHANGED <<info, at, length, next, last, seen, stray>>

-----------------------------------------------------------------------------
(* The APs that bring-up is tried for.                                     *)

acpi_cpu_is_supported_ap(c) == ~c.x2apic /\ c.id # BspId /\ c.id < 256

Supported == { k \in DOMAIN info.cpus : acpi_cpu_is_supported_ap(info.cpus[k]) }

CountAnyway == Cardinality(Supported)   \* mutant of count_supported_ap_targets
count_supported_ap_targets == IF info.error = "OK" THEN Cardinality(Supported) ELSE 0

(* The entry select_ap_target finds, or 0.                                 *)
select_ap_target(index) ==
    LET found == { k \in Supported : Cardinality({ j \in Supported : j < k }) = index }
    IN  IF info.error # "OK" \/ found = {} THEN 0 ELSE First(found)

Step == Rsdp \/ Xsdt \/ Table \/ NoMadt \/ Madt \/ Walk \/ WalkEnds
Done == pc = "done" /\ UNCHANGED vars
Next == Step \/ Done

Spec == Init /\ [][Next]_vars /\ WF_vars(Step)

-----------------------------------------------------------------------------
(* Properties.                                                             *)

(* Whatever lengths and addresses the firmware's tables hold, the parser   *)
(* reads only described memory, with one exception: when a single byte is  *)
(* left, the length byte of the last entry is read past the table's end.   *)
ReadsAreMapped ==
    \A r \in stray : pc = "done" /\ info.error = "BAD_ENTRY" /\ r = <<at + length - 1, 2>>

(* The table of processors is the beginning of the list in the MADT; what  *)
(* it cannot hold is counted and nothing else is dropped.                  *)
TableIsPrefix ==
    /\ info.enabled = Len(seen) /\ Len(info.cpus) <= MaxCpus
    /\ Len(info.cpus) < Len(seen) => Len(info.cpus) = MaxCpus
    /\ \A k \in DOMAIN info.cpus : info.cpus[k].id = seen[k].id

(* Bring-up is tried only after an MADT was walked to its exact end, once  *)
(* for each AP of the table, in its order, and never for the BSP.          *)
TargetsAreReal ==
    pc = "done" /\ count_supported_ap_targets > 0 =>
        /\ next = length
        /\ LET chosen == [n \in 1 .. count_supported_ap_targets |-> select_ap_target(n - 1)]
           IN  /\ \A n \in DOMAIN chosen : chosen[n] \in Supported /\ seen[chosen[n]].id # BspId
               /\ \A m, n \in DOMAIN chosen : m < n => chosen[m] < chosen[n]

(* Parsing ends whatever the tables say.                                   *)
ParsingEnds == <>(pc = "done")

-----------------------------------------------------------------------------
(* The inductive invariant behind the theorems of AcpiMadtProofs.          *)

Errors == {"NO_RSDP", "BAD_RSDP", "NO_XSDT", "BAD_XSDT", "RANGE", "NO_MADT", "BAD_MADT",
           "BAD_ENTRY"}
Cpu == [id : Nat, x2apic : BOOLEAN]

TypeOK ==
    /\ pc \in {"rsdp", "xsdt", "tables", "madt", "walk", "done"}
    /\ info \in [error : Errors \cup {"OK"}, enabled : Nat, cpus : Seq(Cpu)]
    /\ next \in Nat /\ length \in Nat /\ (pc # "rsdp" => at \in Nat)
    /\ seen \in Seq(MadtEntry) /\ (last # <<>> => last[2] \in MadtEntries)

(* Until the parser is done nothing has gone wrong, and what it is about   *)
(* to read has been checked.                                               *)
CheckedInv ==
    /\ pc # "done" => stray = {} /\ info.error = "OK"
    /\ pc = "xsdt" => memory_map_contains_range(Map, at, 36)
    /\ pc \in {"tables", "walk"} => memory_map_contains_range(Map, at, length)
    /\ pc = "tables" => 36 <= length
    /\ pc = "walk" => next <= length
    /\ pc = "done" /\ info.error = "OK" => next = length

(* The table of processors follows the list, entry by entry.               *)
PrefixInv ==
    /\ Len(info.cpus) <= Len(seen)
    /\ TableIsPrefix

IInv == TypeOK /\ CheckedInv /\ ReadsAreMapped /\ PrefixInv
=============================================================================
