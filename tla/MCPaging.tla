------------------------------ MODULE MCPaging ------------------------------
(* Small machines for Paging: one or two conventional ranges around the    *)
(* size of the pool, MMIO and loader data at the edges of the tables, of   *)
(* the low half (it ends at page 128) and of the addresses (page 511 wraps *)
(* around), and framebuffers inside, across and outside the low half.      *)
EXTENDS Paging

D(type, page, pages) == [type |-> type, start |-> page * PageSize, pages |-> pages]

SmallMaps ==
    { <<D("Conventional", c, n), D("MMIO", m, k), D("LoaderData", 20, 1), D("Conventional", 22, 14)>> :
        c \in {0, 1}, n \in {8, 13, 14}, m \in {15, 17, 63}, k \in {0, 2} }
EdgeMaps ==
    { <<D("LoaderData", l, 1), D("Conventional", 3, n)>> : l \in {0, 127, 128, 255, 511}, n \in {42, 43, 44} }
ManyMaps == SmallMaps \cup EdgeMaps

Fb(base, size, stride, height) ==
    [base |-> base, size |-> size, stride |-> stride, height |-> height]
Screens == { Fb(35, 2, 0, 0), Fb(44, 0, 1, 1), Fb(254, 2, 1, 1), Fb(255, 2, 0, 0),
             Fb(1022, 3, 0, 0), Fb(0, 0, 0, 0) }
=============================================================================
