----------------------------- MODULE MCAcpiMadt -----------------------------
(* Tables at the start, at the end and outside of the described memory,    *)
(* lengths around every limit, and entries of every kind, some of them     *)
(* shorter or longer than they should be.                                  *)
EXTENDS AcpiMadt

TwoPages == <<[type |-> "ACPI", start |-> 64, pages |-> 2],
              [type |-> "Conventional", start |-> 448, pages |-> 1]>>

T(guid, addr) == [guid |-> guid, addr |-> addr]
Roots == { <<>>, <<T("other", 64), T("acpi10", 0), T("acpi10", 68), T("acpi20", 100)>>,
           <<T("acpi10", 0), T("acpi10", 68), T("acpi10", 170)>>, <<T("acpi20", 170)>>,
           <<T("acpi20", 500)>> }

E(type, len, enabled, id) == [type |-> type, length |-> len, enabled |-> enabled, id |-> id]
Processors == { E(0, 8, TRUE, 0), E(0, 8, TRUE, 1), E(0, 8, FALSE, 2), E(9, 16, TRUE, 300) }
Oddities == { E(5, 12, FALSE, 0), E(1, 5, FALSE, 0), E(0, 7, TRUE, 3), E(9, 8, TRUE, 4),
              E(1, 0, FALSE, 0), E(0, 1, TRUE, 5) }
AllEntries == Processors \cup Oddities
=============================================================================
