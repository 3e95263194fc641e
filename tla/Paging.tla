------------------------------- MODULE Paging -------------------------------
(***************************************************************************)
(* setup_kernel_paging (kernel/kernel.c): measure the memory map, carve a  *)
(* pool for the page tables out of conventional memory, build four levels  *)
(* of tables that map every described page and the framebuffer to          *)
(* themselves, and load CR3.                                               *)
(*                                                                         *)
(* The tables are kept as the code keeps them, as pages of entries that    *)
(* point to the next level.  Scaled: a table has Entries entries for 512   *)
(* and a page PageSize units for 4096.  The root's entries from Entries/2  *)
(* on are the high canonical half, which the kernel leaves to userspace:   *)
(* LOW_CANONICAL_LIMIT, 2^47, is half of what the four levels can map.     *)
(***************************************************************************)
EXTENDS MemoryMap, FiniteSets

CONSTANTS
    Entries,        \* PAGE_TABLE_ENTRIES
    Slack,          \* the 16 pages added to the estimate
    Maps,           \* the memory maps the firmware may hand over
    Capacities,     \* descriptors the map's buffer has room for, in excess
    Framebuffers    \* base, size, stride and height of the framebuffer

ASSUME PagingAssumption ==
    /\ Entries \in Nat \ {0, 1} /\ Slack \in Nat
    /\ Capacities \subseteq Nat
    /\ Framebuffers \subseteq [base : Nat, size : Nat, stride : Nat, height : Nat]

(* What UEFI promises of GetMemoryMap: descriptors start on a page and do  *)
(* not overlap.  Nothing is assumed of their order, number, ends or types. *)
MemoryType == {"Conventional", "LoaderData", "MMIO", "Other"}    \* as paging tells them apart
Descriptor == [type : MemoryType, start : Nat, pages : Nat]
Aligned(m) == \A k \in DOMAIN m : m[k].start % PageSize = 0
Disjoint(m) ==
    \A j, k \in DOMAIN m : j # k => EndOf(m[j]) <= m[k].start \/ EndOf(m[k]) <= m[j].start

ASSUME FirmwareAssumption ==
    /\ Maps \subseteq Seq(Descriptor)
    /\ \A m \in Maps : Aligned(m) /\ Disjoint(m)

LowLimit == PageSize * (Entries * Entries * Entries * (Entries \div 2))  \* LOW_CANONICAL_LIMIT

VARIABLES
    la57,       \* bit 12 of CR4
    map,        \* the memory map's descriptors
    capacity,   \* how many fit into its buffer
    fb,         \* the framebuffer
    info,       \* paging_info_t
    mem,        \* the pages handed out for tables: page address -> entries
    pc,         \* "measure", "pool", "root", "range", "page", "load", "loaded", "failed"
    i,          \* the range being mapped; the last one is the framebuffer
    addr,       \* the page being mapped
    given       \* ghost: the map as the firmware gave it

vars == <<la57, map, capacity, fb, info, mem, pc, i, addr, given>>

Info == [cr3 |-> 0, poolStart |-> 0, poolEnd |-> 0, poolNext |-> 0,
         allocated |-> 0, reserved |-> 0, mappedPages |-> 0, error |-> "OK"]

Init ==
    /\ la57 \in BOOLEAN
    /\ map \in Maps /\ given = map
    /\ \E c \in Capacities : capacity = Len(map) + c
    /\ fb \in Framebuffers
    /\ info = Info /\ mem = <<>>
    /\ pc = "measure" /\ i = 1 /\ addr = 0

Fail(error) ==
    /\ info' = [info EXCEPT !.error = error]
    /\ pc' = "failed"

-----------------------------------------------------------------------------
(* Measuring.                                                              *)

framebuffer_size_bytes == IF fb.size # 0 THEN fb.size ELSE fb.stride * fb.height * 4

MapInRange == \A k \in DOMAIN map : EndFits(map[k]) /\ EndOf(map[k]) <= LowLimit

FbInRange ==
    /\ fb.base <= MaxAddr - framebuffer_size_bytes
    /\ AlignFits(fb.base + framebuffer_size_bytes)
    /\ align_up_4k(fb.base + framebuffer_size_bytes) <= LowLimit

MaxEnd ==
    LET ends == { EndOf(map[k]) : k \in DOMAIN map }
                  \cup {0, align_up_4k(fb.base + framebuffer_size_bytes)}
    IN  CHOOSE e \in ends : \A f \in ends : f <= e

(* Mutant of estimate_identity_page_table_pages: one level is forgotten.   *)
EstimateThreeLevels(end) ==
    LET pages == div_round_up64(end, PageSize)
    IN  1 + div_round_up64(pages, Entries * Entries) + div_round_up64(pages, Entries) + Slack

estimate_identity_page_table_pages(end) ==
    LET pages == div_round_up64(end, PageSize)
    IN  1 + div_round_up64(pages, Entries * Entries * Entries)
          + div_round_up64(pages, Entries * Entries)
          + div_round_up64(pages, Entries) + Slack

Measure ==
    /\ pc = "measure"
    /\ IF la57 THEN Fail("LA57")
       ELSE IF ~MapInRange \/ ~FbInRange THEN Fail("RANGE")
       ELSE pc' = "pool" /\ UNCHANGED info
    /\ UNCHANGED <<la57, map, capacity, fb, mem, i, addr, given>>

-----------------------------------------------------------------------------
(* select_page_table_pool: the top of the lowest conventional descriptor   *)
(* that is large enough.  (Its check of the ends repeats Measure's.)       *)

PoolPages == estimate_identity_page_table_pages(MaxEnd)

Large == { k \in DOMAIN map : map[k].type = "Conventional" /\ map[k].pages >= PoolPages }
Lowest == CHOOSE k \in Large :
             \A l \in Large : map[k].start < map[l].start
                              \/ (map[k].start = map[l].start /\ k <= l)

(* Mutant of SelectPool: the descriptor the pool is cut from keeps its     *)
(* size.                                                                   *)
SelectPoolShared ==
    /\ pc = "pool"
    /\ IF Large = {} THEN Fail("NO_POOL") /\ UNCHANGED map
       ELSE LET d == map[Lowest]
                start == EndOf(d) - PoolPages * PageSize
            IN  /\ map' = Append(map, [d EXCEPT !.type = "LoaderData", !.start = start,
                                               !.pages = PoolPages])
                /\ info' = [info EXCEPT !.poolStart = start, !.poolEnd = EndOf(d),
                                        !.poolNext = start, !.reserved = PoolPages]
                /\ pc' = "root"
    /\ UNCHANGED <<la57, capacity, fb, mem, i, addr, given>>

(* Mutant of SelectPool: the error is not recorded.                        *)
SelectPoolSilent ==
    /\ pc = "pool" /\ pc' = "failed"
    /\ UNCHANGED <<la57, map, capacity, fb, info, mem, i, addr, given>>

SelectPool ==
    /\ pc = "pool"
    /\ IF Large = {} THEN Fail("NO_POOL") /\ UNCHANGED map
       ELSE LET d == map[Lowest]
                start == EndOf(d) - PoolPages * PageSize
                pool == [info EXCEPT !.poolStart = start, !.poolEnd = EndOf(d),
                                     !.poolNext = start, !.reserved = PoolPages]
                cut == [map EXCEPT ![Lowest].pages = d.pages - PoolPages]
            IN  CASE d.pages = PoolPages ->
                       /\ map' = [map EXCEPT ![Lowest].type = "LoaderData"]
                       /\ info' = pool /\ pc' = "root"
                  [] d.pages # PoolPages /\ HasRoom(map, capacity) ->
                       /\ map' = Append(cut, [type |-> "LoaderData", start |-> start,
                                              pages |-> PoolPages])
                       /\ info' = pool /\ pc' = "root"
                  [] d.pages # PoolPages /\ ~HasRoom(map, capacity) ->
                       /\ map' = cut
                       /\ info' = [pool EXCEPT !.error = "MAP_FULL"] /\ pc' = "failed"
    /\ UNCHANGED <<la57, capacity, fb, mem, i, addr, given>>

-----------------------------------------------------------------------------
(* Tables.  A step of the code that may allocate is an operator on         *)
(* [info, mem, at, ok]: at is the table it returns, ok its return value.   *)

Absent == [present |-> FALSE, addr |-> 0, uncached |-> FALSE]
EmptyTable == [n \in 0 .. Entries - 1 |-> Absent]
Entry(a, uncached) == [present |-> TRUE, addr |-> a, uncached |-> uncached]

Result(f, m, a, ok) == [info |-> f, mem |-> m, at |-> a, ok |-> ok]

(* alloc_page_table_page: 0 means that the pool is empty.                  *)
alloc_page_table_page(s) ==
    LET page == s.info.poolNext
    IN  IF page > s.info.poolEnd - PageSize
        THEN Result([s.info EXCEPT !.error = "POOL_EMPTY"], s.mem, 0, s.ok)
        ELSE Result([s.info EXCEPT !.poolNext = page + PageSize, !.allocated = @ + 1],
                    [a \in DOMAIN s.mem \cup {page} |-> IF a = page THEN EmptyTable ELSE s.mem[a]],
                    page, s.ok)

ensure_next_table(s, n) ==
    IF ~s.ok THEN s
    ELSE IF s.mem[s.at][n].present THEN Result(s.info, s.mem, s.mem[s.at][n].addr, TRUE)
    ELSE LET t == alloc_page_table_page(s)
         IN  IF t.at = 0 THEN Result(t.info, t.mem, 0, FALSE)
             ELSE Result(t.info, [t.mem EXCEPT ![s.at][n] = Entry(t.at, FALSE)], t.at, TRUE)

Index(a, level) ==
    LET page == a \div PageSize
    IN  CASE level = 4 -> (page \div (Entries * Entries * Entries)) % Entries
          [] level = 3 -> (page \div (Entries * Entries)) % Entries
          [] level = 2 -> (page \div Entries) % Entries
          [] level = 1 -> page % Entries

Here == Result(info, mem, info.cr3, TRUE)

AllocRoot ==
    /\ pc = "root"
    /\ LET s == alloc_page_table_page(Here)
       IN  /\ info' = [s.info EXCEPT !.cr3 = s.at] /\ mem' = s.mem
           /\ pc' = IF s.at = 0 THEN "failed" ELSE "range"
    /\ UNCHANGED <<la57, map, capacity, fb, i, addr, given>>

(* The range being mapped: a descriptor of the map, the pool's among them, *)
(* or at last the framebuffer.                                             *)
page_flags_for_memory_type(type) == type = "MMIO"
Bytes(k) == IF k <= Len(map) THEN map[k].pages * PageSize ELSE framebuffer_size_bytes
From(k)  == IF k <= Len(map) THEN map[k].start ELSE fb.base
UntilWholePages == align_down_4k(From(i) + Bytes(i))    \* mutant of Until: rounded down
Until == align_up_4k(From(i) + Bytes(i))
Uncached(k) == k > Len(map) \/ page_flags_for_memory_type(map[k].type)

NextRange == i' = i + 1 /\ pc' = IF i > Len(map) THEN "load" ELSE "range"

StartRange ==
    /\ pc = "range"
    /\ IF Bytes(i) = 0 THEN NextRange /\ UNCHANGED addr
       ELSE addr' = align_down_4k(From(i)) /\ pc' = "page" /\ UNCHANGED i
    /\ UNCHANGED <<la57, map, capacity, fb, info, mem, given>>

(* One turn of the loop of map_identity_range_4k.  Its own range checks    *)
(* repeat those of Measure.                                                *)
MapPage ==
    /\ pc = "page"
    /\ LET s == ensure_next_table(
                  ensure_next_table(
                    ensure_next_table(Here, Index(addr, 4)), Index(addr, 3)), Index(addr, 2))
           old == s.mem[s.at][Index(addr, 1)]
       IN  CASE ~s.ok ->
                  info' = s.info /\ mem' = s.mem /\ pc' = "failed" /\ UNCHANGED <<i, addr>>
             [] s.ok /\ old.present /\ old.addr # addr ->
                  /\ info' = [s.info EXCEPT !.error = "TABLE_ENTRY"] /\ mem' = s.mem
                  /\ pc' = "failed" /\ UNCHANGED <<i, addr>>
             [] s.ok /\ (old.present => old.addr = addr) ->
                  /\ mem' = [s.mem EXCEPT ![s.at][Index(addr, 1)] =
                               Entry(addr, Uncached(i) \/ (old.present /\ old.uncached))]
                  /\ info' = [s.info EXCEPT !.mappedPages =
                                IF old.present THEN @ ELSE @ + 1]
                  /\ addr' = addr + PageSize
                  /\ IF addr' < Until THEN UNCHANGED <<i, pc>> ELSE NextRange
    /\ UNCHANGED <<la57, map, capacity, fb, given>>

LoadCr3 ==
    /\ pc = "load"
    /\ pc' = "loaded"
    /\ UNCHANGED <<la57, map, capacity, fb, info, mem, i, addr, given>>

Stop == pc \in {"loaded", "failed"} /\ UNCHANGED vars

Next == Measure \/ SelectPool \/ AllocRoot \/ StartRange \/ MapPage \/ LoadCr3 \/ Stop

Spec == Init /\ [][Next]_vars

-----------------------------------------------------------------------------
(* Properties.                                                             *)

LowPages == 0 .. (LowLimit \div PageSize) - 1
TablePages == 0 .. (Entries * Entries * Entries * Entries) - 1    \* of both halves
PagesOf(d) == { p \in LowPages : d.start <= p * PageSize /\ p * PageSize < EndOf(d) }
PagesOfType(m, type) == UNION { PagesOf(m[k]) : k \in { j \in DOMAIN m : m[j].type = type } }
Described(m) == UNION { PagesOf(m[k]) : k \in DOMAIN m }
FbPages == { p \in LowPages : /\ framebuffer_size_bytes > 0
                              /\ (p + 1) * PageSize > fb.base
                              /\ p * PageSize < fb.base + framebuffer_size_bytes }

(* What the CPU finds for page p once CR3 is loaded.                       *)
Descend(e, p, level) == IF e.present THEN mem[e.addr][Index(p * PageSize, level)] ELSE Absent
Leaf(p) == Descend(Descend(Descend(Descend(Entry(info.cr3, FALSE), p, 4), p, 3), p, 2), p, 1)

Building == pc \in {"range", "page", "load", "loaded"}

(* README.md, "identity-mapped where mappings exist" and "materialize only *)
(* the physical ranges it currently needs": what CR3 finally points to     *)
(* maps the pages the firmware described and the framebuffer's, all in the *)
(* low half, each to itself, and no others: the high half stays empty.  It *)
(* caches neither MMIO nor the framebuffer; mapped_pages counts the pages. *)
LoadedMapIsExact ==
    pc = "loaded" =>
        LET mmio == PagesOfType(given, "MMIO")
            mapped == { p \in TablePages : Leaf(p).present }
        IN  /\ mapped = Described(given) \cup FbPages
            /\ \A p \in mapped : Leaf(p).addr = p * PageSize
            /\ \A p \in mapped : Leaf(p).uncached <=> p \in mmio \cup FbPages
            /\ info.mappedPages = Cardinality(mapped)

(* The pool estimated before the tables exist is always large enough, even *)
(* without the slack, and no two ranges ask for different entries.         *)
PoolSuffices == info.error \notin {"POOL_EMPTY", "TABLE_ENTRY"}

(* Cutting the pool out of the map loses no page and describes none twice, *)
(* and no table lies in memory that the map still calls conventional.      *)
MapStaysWhole ==
    Building => /\ Described(map) = Described(given)
                /\ \A j, k \in DOMAIN map : j # k => PagesOf(map[j]) \cap PagesOf(map[k]) = {}
                /\ { t \div PageSize : t \in DOMAIN mem } \cap PagesOfType(map, "Conventional") = {}

(* A failure names its reason on the screen, but for a pool that starts at *)
(* address 0: alloc_page_table_page's 0 then looks like an empty pool.     *)
FailureIsNamed ==
    pc = "failed" /\ info.error = "OK" => info.reserved > 0 /\ info.poolStart = 0

-----------------------------------------------------------------------------
(* The inductive invariant behind the theorems of PagingProofs.            *)

(* The pages of a range, those mapped so far, and which are not cached.    *)
RangeOf(k) == { p \in LowPages : /\ Bytes(k) # 0 /\ From(k) \div PageSize <= p
                                 /\ p * PageSize < From(k) + Bytes(k) }
Ranges == 1 .. Len(map) + 1
Reached(k, p) ==
    p \in RangeOf(k) /\ (k < i \/ (k = i /\ pc = "page" /\ p * PageSize < addr))
MappedPages == { p \in LowPages : \E k \in Ranges : Reached(k, p) }
UncachedPages == { p \in LowPages : \E k \in Ranges : Reached(k, p) /\ Uncached(k) }

PageEntry == [present : BOOLEAN, addr : Nat, uncached : BOOLEAN]
Table == [0 .. Entries - 1 -> PageEntry]
PagingInfo == [cr3 : Nat, poolStart : Nat, poolEnd : Nat, poolNext : Nat, allocated : Nat,
               reserved : Nat, mappedPages : Nat,
               error : {"OK", "LA57", "RANGE", "NO_POOL", "MAP_FULL", "POOL_EMPTY", "TABLE_ENTRY"}]

(* Pages a table of a level covers, and how many such tables N pages need. *)
Span(level) ==
    CASE level = 1 -> Entries
      [] level = 2 -> Entries * Entries
      [] level = 3 -> Entries * Entries * Entries
      [] level = 4 -> Entries * Entries * Entries * Entries
TablesFor(N, level) == IF level = 4 THEN 1 ELSE div_round_up64(N, Span(level))

(* The tables form a tree: table t is on level lev[t] and covers the       *)
(* pages from pre[t] * Span(lev[t]) on; no two cover the same, and all but *)
(* the root hang in the entry that stands for them.                        *)
Tree(m, root, lev, pre, N) ==
    /\ m \in [DOMAIN m -> Table] /\ root \in DOMAIN m /\ lev[root] = 4
    /\ \A t \in DOMAIN m : pre[t] < TablesFor(N, lev[t])
    /\ \A t, u \in DOMAIN m : lev[t] = lev[u] /\ pre[t] = pre[u] => t = u
    /\ \A t \in DOMAIN m : \A n \in 0 .. Entries - 1 :
          lev[t] > 1 /\ m[t][n].present =>
             /\ m[t][n].addr \in DOMAIN m
             /\ lev[m[t][n].addr] = lev[t] - 1 /\ pre[m[t][n].addr] = pre[t] * Entries + n
    /\ \A t \in DOMAIN m \ {root} : \E u \in DOMAIN m : \E n \in 0 .. Entries - 1 :
          lev[u] > 1 /\ m[u][n].present /\ m[u][n].addr = t

(* Its leaves map the pages of D to themselves, those of U uncached.       *)
Leaves(m, lev, pre, D, U) ==
    /\ \A t \in DOMAIN m : \A n \in 0 .. Entries - 1 :
          LET p == pre[t] * Entries + n
          IN  lev[t] = 1 =>
                 /\ m[t][n].present <=> p \in D
                 /\ m[t][n].present => /\ m[t][n].addr = p * PageSize
                                       /\ m[t][n].uncached <=> p \in U
    /\ \A p \in D : \E t \in DOMAIN m : lev[t] = 1 /\ pre[t] = p \div Entries

(* The pool, sized for N pages; its first pages are the tables.            *)
PoolInv(f, m, N) ==
    /\ f \in PagingInfo /\ f.error = "OK"
    /\ f.reserved = 1 + TablesFor(N, 3) + TablesFor(N, 2) + TablesFor(N, 1) + Slack
    /\ f.poolEnd = f.poolStart + f.reserved * PageSize
    /\ f.poolNext = f.poolStart + f.allocated * PageSize /\ f.allocated <= f.reserved
    /\ IsFiniteSet(DOMAIN m) /\ Cardinality(DOMAIN m) = f.allocated
    /\ \A t \in DOMAIN m : t \in Nat /\ f.poolStart <= t /\ t < f.poolNext

Sized(N) == \A k \in Ranges : \A p \in RangeOf(k) : p < N

TablesInv ==
    \E N \in Nat :
        /\ Sized(N) /\ PoolInv(info, mem, N)
        /\ pc = "root" => mem = <<>> /\ info.cr3 = 0 /\ info.mappedPages = 0
        /\ Building =>
              /\ info.cr3 = info.poolStart /\ info.poolStart > 0
              /\ info.mappedPages = Cardinality(MappedPages)
              /\ \E lev \in [DOMAIN mem -> 1 .. 4], pre \in [DOMAIN mem -> Nat] :
                    /\ Tree(mem, info.cr3, lev, pre, N)
                    /\ Leaves(mem, lev, pre, MappedPages, UncachedPages)

(* The map, before and after the pool is cut out of it.                    *)
MapInv ==
    /\ map \in Seq(Descriptor) /\ Aligned(map) /\ Disjoint(map)
    /\ pc \in {"measure", "pool"} => map = given
    /\ pc \notin {"measure", "failed"} => MapInRange /\ FbInRange
    /\ pc = "root" \/ Building =>
          /\ Described(map) = Described(given)
          /\ PagesOfType(map, "MMIO") = PagesOfType(given, "MMIO")
          /\ \E k \in DOMAIN map : /\ map[k].type = "LoaderData"
                                   /\ map[k].start = info.poolStart
                                   /\ map[k].pages = info.reserved

(* Where the loops are: at page addr of range i.                           *)
LoopInv ==
    /\ pc = "range" => i \in Ranges
    /\ pc = "page" => /\ i \in Ranges /\ Bytes(i) # 0
                      /\ addr % PageSize = 0 /\ addr \div PageSize \in RangeOf(i)
    /\ pc \in {"load", "loaded"} => i = Len(map) + 2

PagingTypeOK ==
    /\ given \in Maps /\ fb \in Framebuffers /\ i \in Nat \ {0} /\ addr \in Nat
    /\ pc \in {"measure", "pool", "root", "range", "page", "load", "loaded", "failed"}
    /\ pc \in {"measure", "pool"} => info = Info /\ mem = <<>>
    /\ pc \in {"measure", "pool", "root"} => i = 1

IInv == /\ PagingTypeOK /\ MapInv /\ LoopInv
        /\ pc = "root" \/ Building => TablesInv
        /\ PoolSuffices /\ FailureIsNamed
=============================================================================
