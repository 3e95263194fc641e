--------------------------- MODULE AcpiMadtProofs ---------------------------
(***************************************************************************)
(* Proofs that processor discovery reads only described memory, stores the *)
(* beginning of the MADT's list and selects real APs, whatever the         *)
(* firmware's tables hold: any memory map, any addresses, lengths and      *)
(* entries, any limits.                                                    *)
(*                                                                         *)
(* The argument.  Every read is preceded by the check of a range that      *)
(* contains it; the entries of the MADT stay in the checked table because  *)
(* an entry that does not fit ends the walk.  The selection by index is    *)
(* complete because a finite set of n naturals has, for every i < n, an    *)
(* element with i smaller ones.                                            *)
(***************************************************************************)
EXTENDS AcpiMadt, FiniteSetTheorems, TLAPS

-----------------------------------------------------------------------------
(* Naturals.                                                               *)

(* A set of naturals has a least element, and First finds it.              *)
LEMMA FirstIsLeast ==
    ASSUME NEW S \in SUBSET Nat, S # {}
    PROVE  First(S) \in S /\ \A l \in S : First(S) <= l
<1> DEFINE R == { ss \in Nat \X Nat : ss[1] < ss[2] }
<1>1. IsWellFoundedOn(R, Nat)
  BY NatLessThanWellFounded, Zenon DEF OpToRel
<1>2. PICK x \in S : \A y \in S : ~(<<y, x>> \in R)
  BY <1>1, WFMin
<1>3. \A y \in S : x \in Nat /\ y \in Nat /\ (<<y, x>> \in R <=> y < x)
  OBVIOUS
<1> HIDE DEF R
<1>4. ASSUME NEW y \in S PROVE x <= y
  <2>1. x \in Nat /\ y \in Nat /\ ~(y < x)
    BY <1>2, <1>3
  <2> QED BY <2>1
<1> QED BY <1>4 DEF First

Below(S, k) == { j \in S : j < k }

(* Below counts a larger element higher.                                   *)
LEMMA BelowGrows ==
    ASSUME NEW S \in SUBSET Nat, IsFiniteSet(S), NEW j \in S, NEW k \in S
    PROVE  /\ IsFiniteSet(Below(S, k)) /\ Cardinality(Below(S, k)) \in Nat
           /\ j < k => Cardinality(Below(S, j)) < Cardinality(Below(S, k))
<1>1. /\ IsFiniteSet(Below(S, k)) /\ Cardinality(Below(S, k)) \in Nat
      /\ IsFiniteSet(Below(S, j)) /\ Cardinality(Below(S, j)) \in Nat
  BY FS_Subset, FS_CardinalityType DEF Below
<1>2. ASSUME j < k PROVE Cardinality(Below(S, j)) < Cardinality(Below(S, k))
  <2>1. Below(S, j) \cup {j} \in SUBSET Below(S, k) /\ j \notin Below(S, j)
    <3>1. \A s \in S : s \in Nat /\ ~(s < s) /\ (s < j => s < k)
      BY <1>2
    <3> QED BY <1>2, <3>1 DEF Below
  <2>2. Cardinality(Below(S, j) \cup {j}) = Cardinality(Below(S, j)) + 1
    BY <1>1, <2>1, FS_AddElement
  <2>3. Cardinality(Below(S, j) \cup {j}) <= Cardinality(Below(S, k))
    BY <1>1, <2>1, FS_Subset
  <2> QED BY <1>1, <2>2, <2>3
<1> QED BY <1>1, <1>2

(* For every i below its size a set of naturals has an element with i      *)
(* smaller ones: the least i without one would have a predecessor with     *)
(* one, and the next element after that has i smaller ones.                *)
LEMMA HasIth ==
    ASSUME NEW S \in SUBSET Nat, IsFiniteSet(S), NEW i \in Nat, i < Cardinality(S)
    PROVE  \E k \in S : Cardinality(Below(S, k)) = i
<1> DEFINE Bad == { n \in Nat : /\ n < Cardinality(S)
                                /\ \A k \in S : Cardinality(Below(S, k)) # n }
<1>c. Cardinality(S) \in Nat
  BY FS_CardinalityType
<1>1. SUFFICES ASSUME Bad # {} PROVE FALSE
  OBVIOUS
<1>2. PICK n \in Bad : \A m \in Bad : n <= m
  <2>1. Bad \in SUBSET Nat
    OBVIOUS
  <2> HIDE DEF Bad
  <2> QED BY <1>1, <2>1, FirstIsLeast
<1>3. /\ n \in Nat /\ n < Cardinality(S) /\ \A k \in S : Cardinality(Below(S, k)) # n
      /\ \A m \in Nat : m < n => \E k \in S : Cardinality(Below(S, k)) = m
  BY <1>c, <1>2
<1> HIDE DEF Bad
<1>4. CASE n = 0
  <2>1. S # {}
    BY <1>3, <1>4, FS_EmptySet
  <2>2. First(S) \in S /\ \A j \in S : ~(j < First(S))
    <3>1. First(S) \in S /\ \A j \in S : First(S) <= j
      BY <2>1, FirstIsLeast
    <3>2. \A j \in S : j \in Nat /\ First(S) \in Nat
      BY <3>1
    <3> QED BY <3>1, <3>2
  <2>3. Below(S, First(S)) = {}
    BY <2>2 DEF Below
  <2> QED BY <1>3, <1>4, <2>2, <2>3, FS_EmptySet
<1>5. CASE n # 0
  <2>1. PICK k \in S : Cardinality(Below(S, k)) = n - 1
    BY <1>3, <1>5
  <2> DEFINE Above == { j \in S : j > k }
  <2>2. S = (Below(S, k) \cup {k}) \cup Above /\ k \notin Below(S, k)
    <3>1. \A s \in S : s < k \/ s = k \/ s > k
      OBVIOUS
    <3>2. ~(k < k)
      OBVIOUS
    <3> QED BY <3>1, <3>2 DEF Below
  <2>3. Cardinality(Below(S, k) \cup {k}) = n
    <3>1. IsFiniteSet(Below(S, k))
      BY BelowGrows
    <3>2. Cardinality(Below(S, k) \cup {k}) = Cardinality(Below(S, k)) + 1
      BY <2>2, <3>1, FS_AddElement
    <3> QED BY <1>3, <2>1, <3>2
  <2>4. Above # {}
    BY <1>3, <2>2, <2>3
  <2>5. First(Above) \in S /\ First(Above) > k /\ \A j \in Above : First(Above) <= j
    <3>1. Above \in SUBSET Nat
      OBVIOUS
    <3>2. First(Above) \in Above /\ \A j \in Above : First(Above) <= j
      BY <2>4, <3>1, FirstIsLeast
    <3> QED BY <3>2
  <2>6. \A j \in S : j < First(Above) <=> j < k \/ j = k
    <3>1. \A j \in S : j > k => First(Above) <= j
      BY <2>5
    <3>2. k \in Nat /\ First(Above) \in Nat /\ \A j \in S : j \in Nat
      BY <2>5
    <3> HIDE DEF Above
    <3> QED BY <2>5, <3>1, <3>2
  <2>7. Below(S, First(Above)) = Below(S, k) \cup {k}
    BY <2>6 DEF Below
  <2> QED BY <1>3, <2>3, <2>5, <2>7
<1> QED BY <1>4, <1>5

-----------------------------------------------------------------------------
(* Reads and checks.                                                       *)

(* A part of a described range is described.                               *)
LEMMA SubRange ==
    ASSUME NEW a \in Nat, NEW n \in Nat, NEW off \in Nat, NEW m \in Nat, off + m <= n,
           memory_map_contains_range(Map, a, n)
    PROVE  memory_map_contains_range(Map, a + off, m)
<1>1. CASE m = 0
  BY <1>1 DEF memory_map_contains_range
<1>2. CASE m # 0
  <2>1. a <= MaxAddr - n
    BY <1>2 DEF memory_map_contains_range
  <2>2. PICK k \in DOMAIN Map : /\ EndFits(Map[k]) /\ a >= Map[k].start
                                /\ a + n <= EndOf(Map[k])
    BY <1>2 DEF memory_map_contains_range
  <2>3. Map[k].start \in Nat /\ EndOf(Map[k]) \in Nat /\ MaxAddr \in Nat
    BY AcpiAssumption, MapAssumption DEF AcpiAssumption, MapAssumption, EndOf
  <2>4. /\ a + off <= MaxAddr - m /\ a + off >= Map[k].start
        /\ (a + off) + m <= EndOf(Map[k])
    BY <2>1, <2>2, <2>3
  <2> QED BY <2>2, <2>4 DEF memory_map_contains_range
<1> QED BY <1>1, <1>2

Described(r) == memory_map_contains_range(Map, r[1], r[2])

(* Steps read described memory only, when each read that is reached does;  *)
(* and they end in success or with the error of a check.                   *)
LEMMA StepsTaken ==
    ASSUME NEW n \in Nat, NEW steps, DOMAIN steps = 1 .. n,
           \A k \in 1 .. n : (\A j \in 1 .. k - 1 : steps[j].ok) => Described(steps[k].read)
    PROVE  /\ Stray(steps) = {}
           /\ Failing(steps) = {} => \A k \in 1 .. n : steps[k].ok
           /\ Failing(steps) # {} => \E k \in 1 .. n :
                 ~steps[k].ok /\ steps[First(Failing(steps))].error = steps[k].error
<1>1. Failing(steps) \in SUBSET Nat /\ Failing(steps) \in SUBSET (1 .. n)
  BY DEF Failing
<1>2. Failing(steps) # {} =>
        /\ First(Failing(steps)) \in Failing(steps)
        /\ \A l \in Failing(steps) : First(Failing(steps)) <= l
  BY <1>1, FirstIsLeast
<1>3. ASSUME NEW k \in Taken(steps) PROVE k \in 1 .. n /\ Described(steps[k].read)
  <2>1. CASE Failing(steps) = {}
    BY <1>3, <2>1 DEF Taken, Failing
  <2>2. CASE Failing(steps) # {}
    <3>1. k \in 1 .. First(Failing(steps)) /\ First(Failing(steps)) \in 1 .. n
      BY <1>1, <1>2, <1>3, <2>2 DEF Taken
    <3>2. k \in 1 .. n
      BY <3>1
    <3>3. ASSUME NEW j \in 1 .. k - 1 PROVE steps[j].ok
      <4>1. j \in 1 .. n /\ ~(First(Failing(steps)) <= j)
        BY <3>1
      <4> QED BY <1>2, <2>2, <4>1 DEF Failing
    <3> QED BY <3>2, <3>3
  <2> QED BY <2>1, <2>2
<1>4. Stray(steps) = {}
  BY <1>3 DEF Stray, Described
<1>5. Failing(steps) # {} =>
        First(Failing(steps)) \in 1 .. n /\ ~steps[First(Failing(steps))].ok
  BY <1>1, <1>2 DEF Failing
<1> QED BY <1>4, <1>5 DEF Failing

(* Performing them: nothing stray is read, and either all checks succeed   *)
(* or the parser is done with an error and an unchanged table.             *)
Succeeds(pc2) == pc' = pc2 /\ info' = info
Fails == /\ pc' = "done" /\ info'.error \in Errors
         /\ info' = [info EXCEPT !.error = info'.error]

(* A sequence of guarded reads either performs them all or stops at one.   *)
LEMMA Performing ==
    ASSUME TypeOK, NEW n \in Nat, NEW steps, DOMAIN steps = 1 .. n,
           \A k \in 1 .. n : (\A j \in 1 .. k - 1 : steps[j].ok) => Described(steps[k].read),
           \A k \in 1 .. n : steps[k].ok \/ steps[k].error \in Errors,
           NEW pc2, Perform(steps, pc2)
    PROVE  /\ stray' = stray
           /\ \/ Succeeds(pc2) /\ \A k \in 1 .. n : steps[k].ok
              \/ Fails
<1>1. /\ Stray(steps) = {}
      /\ Failing(steps) = {} => \A k \in 1 .. n : steps[k].ok
      /\ Failing(steps) # {} => \E k \in 1 .. n :
            ~steps[k].ok /\ steps[First(Failing(steps))].error = steps[k].error
  BY StepsTaken
<1>2. stray' = stray
  BY <1>1 DEF Perform
<1>3. CASE Failing(steps) = {}
  BY <1>1, <1>2, <1>3 DEF Perform, Succeeds
<1>4. CASE Failing(steps) # {}
  <2>1. PICK e : /\ e = steps[First(Failing(steps))].error
                 /\ pc' = "done" /\ info' = [info EXCEPT !.error = e]
    BY <1>4 DEF Perform
  <2>2. e \in Errors
    BY <1>1, <1>4, <2>1
  <2>3. info'.error = e
    BY <2>1 DEF TypeOK
  <2> QED BY <1>2, <2>1, <2>2, <2>3 DEF Fails
<1> QED BY <1>3, <1>4

(* Checks and reads, field by field.                                       *)
LEMMA CheckFields ==
    ASSUME NEW ok, NEW e
    PROVE  Check(ok, e).ok = ok /\ Check(ok, e).error = e /\ Described(Check(ok, e).read)
<1>1. Described(<<0, 0>>)
  BY DEF Described, memory_map_contains_range
<1> QED BY <1>1 DEF Check

(* A checked range is described, and a read always succeeds.               *)
LEMMA MappedFields ==
    ASSUME NEW a, NEW n
    PROVE  /\ Mapped(a, n).ok = memory_map_contains_range(Map, a, n)
           /\ Mapped(a, n).error = "RANGE" /\ Described(Mapped(a, n).read)
           /\ Read(a, n).ok
           /\ memory_map_contains_range(Map, a, n) => Described(Read(a, n).read)
<1>1. /\ Mapped(a, n).ok = memory_map_contains_range(Map, a, n)
      /\ Mapped(a, n).error = "RANGE" /\ Described(Mapped(a, n).read)
  BY CheckFields DEF Mapped
<1>2. Read(a, n).ok /\ Read(a, n).read = <<a, n>>
  BY DEF Read
<1> QED BY <1>1, <1>2 DEF Described

(* The actions, by what they do to the parser's state.                     *)
LEMMA RsdpStep ==
    ASSUME TypeOK, Rsdp
    PROVE  /\ stray' = stray /\ at' \in Addresses /\ UNCHANGED <<length, next, last, seen>>
           /\ \/ Succeeds("xsdt") /\ memory_map_contains_range(Map, at', 36)
              \/ Fails
<1>1. PICK valid20 \in BOOLEAN, valid \in BOOLEAN, revision \in {1, 2}, len \in Lengths,
           xsdt \in Addresses :
             /\ Perform(<<Check(at # 0, "NO_RSDP"),
                          Mapped(at, 20), Read(at, 20),
                          Check(valid20, "BAD_RSDP"), Check(revision >= 2, "NO_XSDT"),
                          Mapped(at, 24), Read(at, 24),
                          Check(36 <= len /\ len <= MaxRsdpLength, "BAD_RSDP"),
                          Mapped(at, len), Read(at, len),
                          Check(valid, "BAD_RSDP"), Check(xsdt # 0, "NO_XSDT"),
                          Mapped(xsdt, 36)>>, "xsdt")
             /\ at' = xsdt
  BY DEF Rsdp
<1> DEFINE steps == <<Check(at # 0, "NO_RSDP"),
                      Mapped(at, 20), Read(at, 20),
                      Check(valid20, "BAD_RSDP"), Check(revision >= 2, "NO_XSDT"),
                      Mapped(at, 24), Read(at, 24),
                      Check(36 <= len /\ len <= MaxRsdpLength, "BAD_RSDP"),
                      Mapped(at, len), Read(at, len),
                      Check(valid, "BAD_RSDP"), Check(xsdt # 0, "NO_XSDT"),
                      Mapped(xsdt, 36)>>
<1>2. DOMAIN steps = 1 .. 13
  OBVIOUS
<1>3. \A k \in 1 .. 13 : steps[k].ok \/ steps[k].error \in Errors
  <2>1. /\ \A k \in {1, 4, 5, 8, 11, 12} : steps[k].error \in {"NO_RSDP", "BAD_RSDP", "NO_XSDT"}
        /\ \A k \in {2, 6, 9, 13} : steps[k].error = "RANGE"
        /\ \A k \in {3, 7, 10} : steps[k].ok
    BY CheckFields, MappedFields
  <2> HIDE DEF steps
  <2> QED BY <2>1 DEF Errors
<1>4. \A k \in 1 .. 13 : (\A j \in 1 .. k - 1 : steps[j].ok) => Described(steps[k].read)
  <2>1. \A k \in 1 .. 13 : k \in {3, 7, 10} \/ Described(steps[k].read)
    BY CheckFields, MappedFields
  <2>2. \A k \in {3, 7, 10} : steps[k - 1].ok => Described(steps[k].read)
    BY CheckFields, MappedFields
  <2>3. \A k \in {3, 7, 10} : k - 1 \in 1 .. k - 1
    OBVIOUS
  <2> HIDE DEF steps
  <2> QED BY <2>1, <2>2, <2>3
<1>5. steps[13].ok => memory_map_contains_range(Map, xsdt, 36)
  BY MappedFields
<1>6. Perform(steps, "xsdt")
  BY <1>1
<1> HIDE DEF steps
<1>7. stray' = stray /\ (Fails \/ (Succeeds("xsdt") /\ \A k \in 1 .. 13 : steps[k].ok))
  BY <1>2, <1>3, <1>4, <1>6, Performing
<1> QED BY <1>1, <1>5, <1>7 DEF Rsdp

(* The XSDT: its header was checked with the RSDP.                         *)
LEMMA XsdtStep ==
    ASSUME TypeOK, Xsdt, memory_map_contains_range(Map, at, 36)
    PROVE  /\ stray' = stray /\ length' \in Lengths /\ UNCHANGED <<at, next, last, seen>>
           /\ \/ /\ Succeeds("tables") /\ 36 <= length'
                 /\ memory_map_contains_range(Map, at, length')
              \/ Fails
<1>1. PICK signed \in BOOLEAN, valid \in BOOLEAN, len \in Lengths :
        /\ Perform(<<Read(at, 36),
                     Check(signed /\ 36 <= len /\ len <= MaxSdtLength, "BAD_XSDT"),
                     Mapped(at, len), Read(at, len), Check(valid, "BAD_XSDT")>>, "tables")
        /\ length' = len
  BY DEF Xsdt
<1> DEFINE steps == <<Read(at, 36),
                      Check(signed /\ 36 <= len /\ len <= MaxSdtLength, "BAD_XSDT"),
                      Mapped(at, len), Read(at, len), Check(valid, "BAD_XSDT")>>
<1>2. DOMAIN steps = 1 .. 5 /\ Perform(steps, "tables")
  BY <1>1
<1>3. /\ steps[1].ok /\ steps[4].ok /\ steps[3].error = "RANGE"
      /\ steps[2].error = "BAD_XSDT" /\ steps[5].error = "BAD_XSDT"
  BY CheckFields, MappedFields
<1>4. /\ \A k \in {1, 2, 3, 5} : Described(steps[k].read)
      /\ steps[3].ok => Described(steps[4].read)
  BY CheckFields, MappedFields
<1>5. /\ steps[2].ok => 36 <= len
      /\ steps[3].ok => memory_map_contains_range(Map, at, len)
  BY CheckFields, MappedFields
<1> HIDE DEF steps
<1>6. stray' = stray /\ (Fails \/ (Succeeds("tables") /\ \A k \in 1 .. 5 : steps[k].ok))
  <2>1. \A k \in 1 .. 5 : steps[k].ok \/ steps[k].error \in Errors
    BY <1>3 DEF Errors
  <2>2. \A k \in 1 .. 5 : (\A j \in 1 .. k - 1 : steps[j].ok) => Described(steps[k].read)
    BY <1>4
  <2> QED BY <1>2, <2>1, <2>2, Performing
<1> QED BY <1>1, <1>5, <1>6 DEF Xsdt

(* A table of the XSDT: its address lies inside the checked XSDT.          *)
LEMMA TableStep ==
    ASSUME TypeOK, CheckedInv, Table
    PROVE  /\ stray' = stray /\ next' \in Nat /\ UNCHANGED <<length, last, seen>>
           /\ at' \in Nat
           /\ \/ Succeeds("madt")
              \/ Succeeds("tables") /\ at' = at
              \/ Fails
<1>1. PICK table \in Addresses, apic \in BOOLEAN :
        /\ Perform(<<Read(at + 36 + next * 8, 8), Check(table # 0, "RANGE"),
                     Mapped(table, 36), Read(table, 36)>>, IF apic THEN "madt" ELSE "tables")
        /\ IF apic THEN at' = table /\ UNCHANGED next ELSE next' = next + 1 /\ UNCHANGED at
  BY DEF Table
<1> DEFINE steps == <<Read(at + 36 + next * 8, 8), Check(table # 0, "RANGE"),
                      Mapped(table, 36), Read(table, 36)>>
           pc2 == IF apic THEN "madt" ELSE "tables"
<1>t. /\ pc = "tables" /\ at \in Nat /\ next \in Nat /\ length \in Nat /\ 36 <= length
      /\ next < (length - 36) \div 8 /\ table \in Nat
      /\ memory_map_contains_range(Map, at, length)
  BY AcpiAssumption DEF Table, TypeOK, CheckedInv, AcpiAssumption
<1>r. memory_map_contains_range(Map, at + 36 + next * 8, 8)
  <2>1. (36 + next * 8) + 8 <= length /\ 36 + next * 8 \in Nat
    BY <1>t
  <2>2. memory_map_contains_range(Map, at + (36 + next * 8), 8)
    BY <1>t, <2>1, SubRange
  <2>3. at + (36 + next * 8) = at + 36 + next * 8
    BY <1>t
  <2> QED BY <2>2, <2>3
<1>2. DOMAIN steps = 1 .. 4 /\ Perform(steps, pc2)
  BY <1>1
<1>3. steps[1].ok /\ steps[4].ok /\ steps[2].error = "RANGE" /\ steps[3].error = "RANGE"
  BY CheckFields, MappedFields
<1>4. /\ \A k \in {1, 2, 3} : Described(steps[k].read)
      /\ steps[3].ok => Described(steps[4].read)
  BY <1>r, CheckFields, MappedFields
<1> HIDE DEF steps, pc2
<1>5. stray' = stray /\ (Fails \/ Succeeds(pc2))
  <2>1. \A k \in 1 .. 4 : steps[k].ok \/ steps[k].error \in Errors
    BY <1>3 DEF Errors
  <2>2. \A k \in 1 .. 4 : (\A j \in 1 .. k - 1 : steps[j].ok) => Described(steps[k].read)
    BY <1>4
  <2> QED BY <1>2, <2>1, <2>2, Performing
<1> QED BY <1>1, <1>t, <1>5 DEF Table, pc2

(* The end of the XSDT.                                                    *)
LEMMA NoMadtStep ==
    ASSUME TypeOK, NoMadt
    PROVE  stray' = stray /\ Fails /\ UNCHANGED <<at, length, next, last, seen>>
<1> DEFINE steps == <<Check(FALSE, "NO_MADT")>>
<1>1. DOMAIN steps = 1 .. 1 /\ Perform(steps, "done")
  BY DEF NoMadt
<1>2. ~steps[1].ok /\ steps[1].error = "NO_MADT" /\ Described(steps[1].read)
  BY CheckFields
<1> HIDE DEF steps
<1>3. stray' = stray /\ (Fails \/ (Succeeds("done") /\ \A k \in 1 .. 1 : steps[k].ok))
  <2>1. \A k \in 1 .. 1 : Described(steps[k].read) /\ steps[k].error \in Errors
    BY <1>2 DEF Errors
  <2> QED BY <1>1, <2>1, Performing
<1> QED BY <1>2, <1>3 DEF NoMadt

(* The MADT: the walk starts in a checked table, after the header.         *)
LEMMA MadtStep ==
    ASSUME TypeOK, Madt
    PROVE  /\ stray' = stray /\ length' \in Lengths /\ next' = 44 /\ UNCHANGED <<at, last, seen>>
           /\ \/ /\ Succeeds("walk") /\ 44 <= length'
                 /\ memory_map_contains_range(Map, at, length')
              \/ Fails
<1>1. PICK valid \in BOOLEAN, len \in Lengths :
        /\ Perform(<<Check(44 <= len /\ len <= MaxSdtLength, "BAD_MADT"),
                     Mapped(at, len), Read(at, len), Check(valid, "BAD_MADT")>>, "walk")
        /\ length' = len
  BY DEF Madt
<1> DEFINE steps == <<Check(44 <= len /\ len <= MaxSdtLength, "BAD_MADT"),
                      Mapped(at, len), Read(at, len), Check(valid, "BAD_MADT")>>
<1>2. DOMAIN steps = 1 .. 4 /\ Perform(steps, "walk")
  BY <1>1
<1>3. /\ steps[3].ok /\ steps[2].error = "RANGE"
      /\ steps[1].error = "BAD_MADT" /\ steps[4].error = "BAD_MADT"
  BY CheckFields, MappedFields
<1>4. /\ \A k \in {1, 2, 4} : Described(steps[k].read)
      /\ steps[2].ok => Described(steps[3].read)
  BY CheckFields, MappedFields
<1>5. /\ steps[1].ok => 44 <= len
      /\ steps[2].ok => memory_map_contains_range(Map, at, len)
  BY CheckFields, MappedFields
<1> HIDE DEF steps
<1>6. stray' = stray /\ (Fails \/ (Succeeds("walk") /\ \A k \in 1 .. 4 : steps[k].ok))
  <2>1. \A k \in 1 .. 4 : steps[k].ok \/ steps[k].error \in Errors
    BY <1>3 DEF Errors
  <2>2. \A k \in 1 .. 4 : (\A j \in 1 .. k - 1 : steps[j].ok) => Described(steps[k].read)
    BY <1>4
  <2> QED BY <1>2, <2>1, <2>2, Performing
<1> QED BY <1>1, <1>5, <1>6 DEF Madt

-----------------------------------------------------------------------------
(* The walk.                                                               *)

(* An entry that fits is read inside the table.                            *)
LEMMA EntryIsInside ==
    ASSUME TypeOK, CheckedInv, pc = "walk", next < length, NEW e \in MadtEntry
    PROVE  /\ EntryFits(e) =>
                 /\ memory_map_contains_range(Map, at + next, 2)
                 /\ memory_map_contains_range(Map, at + next,
                                              IF Understood(e) THEN Size(e) ELSE 2)
                 /\ next + e.length \in Nat /\ next + e.length <= length
           /\ \/ memory_map_contains_range(Map, at + next, 2)
              \/ <<at + next, 2>> = <<at + length - 1, 2>>
<1>t. /\ at \in Nat /\ next \in Nat /\ length \in Nat /\ e.length \in Nat
      /\ memory_map_contains_range(Map, at, length)
  BY DEF TypeOK, CheckedInv, MadtEntry
<1>1. \A m \in Nat : next + m <= length => memory_map_contains_range(Map, at + next, m)
  BY <1>t, SubRange
<1>2. Understood(e) => Size(e) \in {8, 12, 16} /\ Size(e) <= e.length
  <2>1. Understood(e) => e.type \in {0, 5, 9} /\ e.length >= Size(e)
    BY DEF Understood
  <2>2. e.type \in {0, 5, 9} => Size(e) \in {8, 12, 16}
    BY DEF Size
  <2> QED BY <1>t, <2>1, <2>2
<1>3. ASSUME EntryFits(e)
      PROVE  /\ next + 2 <= length
             /\ next + (IF Understood(e) THEN Size(e) ELSE 2) <= length
             /\ (IF Understood(e) THEN Size(e) ELSE 2) \in Nat
             /\ next + e.length \in Nat /\ next + e.length <= length
  BY <1>t, <1>2, <1>3 DEF EntryFits
<1>4. next + 2 <= length \/ at + next = at + length - 1
  BY <1>t
<1> QED BY <1>1, <1>3, <1>4

(* A turn of the walk stays inside, but for the last odd byte.             *)
LEMMA WalkStep ==
    ASSUME TypeOK, CheckedInv, Walk
    PROVE  /\ pc = "walk" /\ UNCHANGED <<at, length>>
           /\ \E e \in MadtEntries :
                /\ last' = <<next, e>>
                /\ \/ /\ pc' = "walk" /\ stray' = stray
                      /\ next' \in Nat /\ next' <= length
                      /\ \/ info' = info /\ seen' = seen
                         \/ info' = add_acpi_cpu(info, e) /\ seen' = Append(seen, e)
                   \/ /\ pc' = "done" /\ info' = [info EXCEPT !.error = "BAD_ENTRY"]
                      /\ UNCHANGED <<next, seen>>
                      /\ \A r \in stray' : r \in stray \/ r = <<at + length - 1, 2>>
<1>0. pc = "walk" /\ next < length /\ UNCHANGED <<at, length>>
  BY DEF Walk
<1>1. PICK e \in (IF last # <<>> /\ last[1] = next THEN {last[2]} ELSE MadtEntries) :
        LET steps == <<Read(at + next, 2), Check(EntryFits(e), "BAD_ENTRY"),
                       Read(at + next, IF Understood(e) THEN Size(e) ELSE 2)>>
        IN  /\ stray' = stray \cup Stray(steps)
            /\ last' = <<next, e>>
            /\ CASE ~EntryFits(e) ->
                      /\ info' = [info EXCEPT !.error = "BAD_ENTRY"] /\ pc' = "done"
                      /\ UNCHANGED <<next, seen>>
                 [] EntryFits(e) ->
                      /\ info' = IF Processor(e) THEN add_acpi_cpu(info, e) ELSE info
                      /\ seen' = IF Processor(e) THEN Append(seen, e) ELSE seen
                      /\ next' = next + e.length
                      /\ UNCHANGED pc
  BY DEF Walk
<1> DEFINE steps == <<Read(at + next, 2), Check(EntryFits(e), "BAD_ENTRY"),
                      Read(at + next, IF Understood(e) THEN Size(e) ELSE 2)>>
<1>2. e \in MadtEntries /\ e \in MadtEntry
  BY AcpiAssumption DEF TypeOK, AcpiAssumption
<1>3. /\ DOMAIN steps = 1 .. 3 /\ steps[1].read = <<at + next, 2>> /\ steps[1].ok
      /\ steps[2].ok = EntryFits(e) /\ Described(steps[2].read) /\ steps[3].ok
      /\ steps[3].read = <<at + next, IF Understood(e) THEN Size(e) ELSE 2>>
  BY CheckFields DEF Read
<1>4. stray' = stray \cup Stray(steps) /\ last' = <<next, e>>
  BY <1>1
<1> HIDE DEF steps
<1>5. CASE EntryFits(e)
  <2>1. /\ memory_map_contains_range(Map, at + next, 2)
        /\ memory_map_contains_range(Map, at + next, IF Understood(e) THEN Size(e) ELSE 2)
        /\ next + e.length \in Nat /\ next + e.length <= length
    BY <1>0, <1>2, <1>5, EntryIsInside
  <2>2. Described(steps[1].read) /\ Described(steps[3].read)
    BY <1>3, <2>1 DEF Described
  <2>3. \A k \in 1 .. 3 : Described(steps[k].read)
    BY <1>3, <2>2
  <2>4. Stray(steps) = {}
    BY <1>3, <2>3, StepsTaken
  <2>5. /\ info' = IF Processor(e) THEN add_acpi_cpu(info, e) ELSE info
        /\ seen' = IF Processor(e) THEN Append(seen, e) ELSE seen
        /\ next' = next + e.length /\ UNCHANGED pc
    BY <1>1, <1>5
  <2> QED BY <1>0, <1>2, <1>4, <2>1, <2>4, <2>5
<1>6. CASE ~EntryFits(e)
  <2>1. Failing(steps) = {2}
    BY <1>3, <1>6 DEF Failing
  <2>2. Taken(steps) = 1 .. 2
    <3>1. First({2}) = 2
      BY FirstIsLeast
    <3> QED BY <2>1, <3>1 DEF Taken
  <2>3. \A r \in Stray(steps) : r = <<at + next, 2>> /\ ~Described(r)
    <3>1. ASSUME NEW r \in Stray(steps)
          PROVE  (r = steps[1].read \/ r = steps[2].read) /\ ~Described(r)
      BY <2>2 DEF Stray, Described
    <3> QED BY <1>3, <3>1
  <2>4. \A r \in Stray(steps) : r = <<at + length - 1, 2>>
    <3>1. Described(<<at + next, 2>>) \/ <<at + next, 2>> = <<at + length - 1, 2>>
      BY <1>0, <1>2, EntryIsInside DEF Described
    <3> QED BY <2>3, <3>1
  <2>5. /\ info' = [info EXCEPT !.error = "BAD_ENTRY"] /\ pc' = "done"
        /\ UNCHANGED <<next, seen>>
    BY <1>1, <1>6
  <2> QED BY <1>0, <1>2, <1>4, <2>4, <2>5
<1> QED BY <1>5, <1>6

(* A processor is appended to the table while there is room.               *)
LEMMA AddCpu ==
    ASSUME TypeOK, PrefixInv, NEW e \in MadtEntry,
           info' = add_acpi_cpu(info, e), seen' = Append(seen, e)
    PROVE  /\ info' \in [error : Errors \cup {"OK"}, enabled : Nat, cpus : Seq(Cpu)]
           /\ seen' \in Seq(MadtEntry) /\ info'.error = info.error
           /\ PrefixInv'
<1> DEFINE c == [id |-> e.id, x2apic |-> e.type = 9]
           cs == IF Len(info.cpus) >= MaxCpus THEN info.cpus ELSE Append(info.cpus, c)
<1>t. /\ info \in [error : Errors \cup {"OK"}, enabled : Nat, cpus : Seq(Cpu)]
      /\ info.cpus \in Seq(Cpu) /\ seen \in Seq(MadtEntry) /\ MaxCpus \in Nat
      /\ info.enabled \in Nat
  BY AcpiAssumption DEF TypeOK, AcpiAssumption
<1>c. c \in Cpu /\ c.id = e.id
  BY DEF Cpu, MadtEntry
<1>1. /\ info'.error = info.error /\ info'.enabled = info.enabled + 1 /\ info'.cpus = cs
      /\ info' = [error |-> info.error, enabled |-> info.enabled + 1, cpus |-> cs]
  BY <1>t DEF add_acpi_cpu
<1> HIDE DEF c
<1>2. cs \in Seq(Cpu) /\ seen' \in Seq(MadtEntry)
  BY <1>t, <1>c
<1>3. info' \in [error : Errors \cup {"OK"}, enabled : Nat, cpus : Seq(Cpu)]
  BY <1>t, <1>1, <1>2
<1>4. /\ info.enabled = Len(seen) /\ Len(info.cpus) <= MaxCpus /\ Len(info.cpus) <= Len(seen)
      /\ Len(info.cpus) < Len(seen) => Len(info.cpus) = MaxCpus
      /\ \A k \in DOMAIN info.cpus : info.cpus[k].id = seen[k].id
  BY DEF PrefixInv, TableIsPrefix
<1>5. /\ Len(seen') = Len(seen) + 1 /\ Len(seen) \in Nat /\ Len(info.cpus) \in Nat
      /\ seen'[Len(seen) + 1] = e
      /\ \A k \in 1 .. Len(seen) : seen'[k] = seen[k]
  BY <1>t
<1>6. CASE Len(info.cpus) >= MaxCpus
  <2>1. info'.cpus = info.cpus /\ DOMAIN info.cpus = 1 .. Len(info.cpus)
    BY <1>1, <1>6, <1>t
  <2> QED BY <1>1, <1>2, <1>3, <1>4, <1>5, <1>6, <1>t, <2>1 DEF PrefixInv, TableIsPrefix
<1>7. CASE ~(Len(info.cpus) >= MaxCpus)
  <2>1. Len(info.cpus) = Len(seen)
    BY <1>4, <1>5, <1>7, <1>t
  <2>2. /\ info'.cpus = Append(info.cpus, c)
        /\ Len(info'.cpus) = Len(info.cpus) + 1
        /\ DOMAIN info'.cpus = 1 .. Len(info.cpus) + 1
        /\ info'.cpus[Len(info.cpus) + 1] = c
        /\ \A k \in 1 .. Len(info.cpus) : info'.cpus[k] = info.cpus[k] /\ k \in DOMAIN info.cpus
    BY <1>1, <1>7, <1>t, <1>c
  <2>3. \A k \in DOMAIN info'.cpus : info'.cpus[k].id = seen'[k].id
    BY <1>c, <1>4, <1>5, <2>1, <2>2
  <2>4. /\ info'.enabled = Len(seen') /\ Len(info'.cpus) <= MaxCpus
        /\ Len(info'.cpus) = Len(seen')
    BY <1>1, <1>4, <1>5, <1>7, <1>t, <2>1, <2>2
  <2> QED BY <1>1, <1>2, <1>3, <1>5, <2>3, <2>4 DEF PrefixInv, TableIsPrefix
<1> QED BY <1>6, <1>7

-----------------------------------------------------------------------------
(* The invariant.                                                          *)

(* A step that adds nothing to the list keeps the table in order.          *)
LEMMA SameTable ==
    ASSUME TypeOK, PrefixInv, seen' = seen, Fails \/ info' = info
    PROVE  /\ info' \in [error : Errors \cup {"OK"}, enabled : Nat, cpus : Seq(Cpu)]
           /\ PrefixInv'
<1>1. info \in [error : Errors \cup {"OK"}, enabled : Nat, cpus : Seq(Cpu)]
  BY DEF TypeOK
<1>2. CASE info' = info
  BY <1>1, <1>2 DEF PrefixInv, TableIsPrefix
<1>3. CASE Fails
  <2>1. PICK e \in Errors : info' = [info EXCEPT !.error = e]
    BY <1>3 DEF Fails
  <2>2. /\ info' \in [error : Errors \cup {"OK"}, enabled : Nat, cpus : Seq(Cpu)]
        /\ info'.enabled = info.enabled /\ info'.cpus = info.cpus
    BY <1>1, <2>1
  <2> QED BY <2>2 DEF PrefixInv, TableIsPrefix
<1> QED BY <1>2, <1>3

(* It holds before the first read ...                                      *)
LEMMA InitHolds ==
    ASSUME Init
    PROVE  IInv
<1>1. /\ info = [error |-> "OK", enabled |-> 0, cpus |-> <<>>]
      /\ pc = "rsdp" /\ length = 0 /\ next = 0 /\ last = <<>> /\ seen = <<>> /\ stray = {}
  BY DEF Init
<1>2. TypeOK
  BY <1>1 DEF TypeOK
<1>3. CheckedInv /\ ReadsAreMapped
  BY <1>1 DEF CheckedInv, ReadsAreMapped
<1>4. PrefixInv
  BY <1>1, AcpiAssumption DEF PrefixInv, TableIsPrefix, AcpiAssumption
<1> QED BY <1>2, <1>3, <1>4 DEF IInv

(* ... and after every read, check and entry.                              *)
LEMMA StepHolds ==
    ASSUME IInv, [Next]_vars
    PROVE  IInv'
<1>i. TypeOK /\ CheckedInv /\ PrefixInv
  BY DEF IInv
<1>t. /\ pc # "done" => stray = {} /\ info.error = "OK"
      /\ next \in Nat /\ length \in Nat /\ seen \in Seq(MadtEntry)
      /\ (pc # "rsdp" => at \in Nat) /\ (last # <<>> => last[2] \in MadtEntries)
      /\ Addresses \subseteq Nat /\ Lengths \subseteq Nat
      /\ "OK" \notin Errors
  BY <1>i, AcpiAssumption DEF TypeOK, CheckedInv, AcpiAssumption, Errors
<1>f. Fails => pc' = "done" /\ info'.error # "OK"
  BY <1>t DEF Fails
<1>1. CASE Rsdp
  <2>1. /\ stray' = {} /\ at' \in Nat /\ UNCHANGED <<length, next, last, seen>>
        /\ \/ Succeeds("xsdt") /\ memory_map_contains_range(Map, at', 36)
           \/ Fails
    BY <1>1, <1>i, <1>t, RsdpStep DEF Rsdp
  <2>2. PrefixInv' /\ info' \in [error : Errors \cup {"OK"}, enabled : Nat, cpus : Seq(Cpu)]
    BY <1>i, <2>1, SameTable DEF Succeeds
  <2>3. TypeOK'
    BY <1>t, <1>f, <2>1, <2>2 DEF TypeOK, Succeeds
  <2>4. CheckedInv' /\ ReadsAreMapped'
    BY <1>1, <1>t, <1>f, <2>1 DEF CheckedInv, ReadsAreMapped, Succeeds, Rsdp
  <2> QED BY <2>2, <2>3, <2>4 DEF IInv
<1>2. CASE Xsdt
  <2>1. /\ stray' = {} /\ length' \in Nat /\ UNCHANGED <<at, next, last, seen>>
        /\ \/ /\ Succeeds("tables") /\ 36 <= length'
              /\ memory_map_contains_range(Map, at, length')
           \/ Fails
    <3>1. pc = "xsdt" /\ memory_map_contains_range(Map, at, 36)
      BY <1>2, <1>i DEF Xsdt, CheckedInv
    <3> QED BY <1>2, <1>i, <1>t, <3>1, XsdtStep
  <2>2. PrefixInv' /\ info' \in [error : Errors \cup {"OK"}, enabled : Nat, cpus : Seq(Cpu)]
    BY <1>i, <2>1, SameTable DEF Succeeds
  <2>3. TypeOK'
    BY <1>2, <1>t, <1>f, <2>1, <2>2 DEF TypeOK, Succeeds, Xsdt
  <2>4. CheckedInv' /\ ReadsAreMapped'
    BY <1>2, <1>t, <1>f, <2>1 DEF CheckedInv, ReadsAreMapped, Succeeds, Xsdt
  <2> QED BY <2>2, <2>3, <2>4 DEF IInv
<1>3. CASE Table
  <2>1. /\ stray' = {} /\ next' \in Nat /\ UNCHANGED <<length, last, seen>> /\ at' \in Nat
        /\ \/ Succeeds("madt")
           \/ Succeeds("tables") /\ at' = at
           \/ Fails
    BY <1>3, <1>i, <1>t, TableStep DEF Table
  <2>2. PrefixInv' /\ info' \in [error : Errors \cup {"OK"}, enabled : Nat, cpus : Seq(Cpu)]
    BY <1>i, <2>1, SameTable DEF Succeeds
  <2>3. TypeOK'
    BY <1>t, <1>f, <2>1, <2>2 DEF TypeOK, Succeeds
  <2>4. CheckedInv' /\ ReadsAreMapped'
    BY <1>3, <1>i, <1>t, <1>f, <2>1 DEF CheckedInv, ReadsAreMapped, Succeeds, Table
  <2> QED BY <2>2, <2>3, <2>4 DEF IInv
<1>4. CASE NoMadt
  <2>1. stray' = {} /\ Fails /\ UNCHANGED <<at, length, next, last, seen>> /\ at \in Nat
    BY <1>4, <1>i, <1>t, NoMadtStep DEF NoMadt
  <2>2. PrefixInv' /\ info' \in [error : Errors \cup {"OK"}, enabled : Nat, cpus : Seq(Cpu)]
    BY <1>i, <2>1, SameTable
  <2>3. TypeOK' /\ CheckedInv' /\ ReadsAreMapped'
    BY <1>t, <1>f, <2>1, <2>2 DEF TypeOK, CheckedInv, ReadsAreMapped
  <2> QED BY <2>2, <2>3 DEF IInv
<1>5. CASE Madt
  <2>1. /\ stray' = {} /\ length' \in Nat /\ next' = 44 /\ UNCHANGED <<at, last, seen>>
        /\ \/ /\ Succeeds("walk") /\ 44 <= length'
              /\ memory_map_contains_range(Map, at, length')
           \/ Fails
    BY <1>5, <1>i, <1>t, MadtStep DEF Madt
  <2>2. PrefixInv' /\ info' \in [error : Errors \cup {"OK"}, enabled : Nat, cpus : Seq(Cpu)]
    BY <1>i, <2>1, SameTable DEF Succeeds
  <2>3. TypeOK'
    BY <1>5, <1>t, <1>f, <2>1, <2>2 DEF TypeOK, Succeeds, Madt
  <2>4. CheckedInv' /\ ReadsAreMapped'
    BY <1>5, <1>t, <1>f, <2>1 DEF CheckedInv, ReadsAreMapped, Succeeds, Madt
  <2> QED BY <2>2, <2>3, <2>4 DEF IInv
<1>6. CASE Walk
  <2>0. pc = "walk" /\ UNCHANGED <<at, length>>
    BY <1>6, <1>i, WalkStep
  <2>1. PICK e \in MadtEntries :
          /\ last' = <<next, e>>
          /\ \/ /\ pc' = "walk" /\ stray' = stray
                /\ next' \in Nat /\ next' <= length
                /\ \/ info' = info /\ seen' = seen
                   \/ info' = add_acpi_cpu(info, e) /\ seen' = Append(seen, e)
             \/ /\ pc' = "done" /\ info' = [info EXCEPT !.error = "BAD_ENTRY"]
                /\ UNCHANGED <<next, seen>>
                /\ \A r \in stray' : r \in stray \/ r = <<at + length - 1, 2>>
    BY <1>6, <1>i, WalkStep
  <2>2. e \in MadtEntry /\ last'[2] \in MadtEntries
    BY <2>1, AcpiAssumption DEF AcpiAssumption
  <2>3. CASE /\ pc' = "walk" /\ stray' = stray /\ next' \in Nat /\ next' <= length
             /\ \/ info' = info /\ seen' = seen
                \/ info' = add_acpi_cpu(info, e) /\ seen' = Append(seen, e)
    <3>1. /\ info' \in [error : Errors \cup {"OK"}, enabled : Nat, cpus : Seq(Cpu)]
          /\ seen' \in Seq(MadtEntry) /\ info'.error = info.error /\ PrefixInv'
      BY <1>i, <1>t, <2>2, <2>3, SameTable, AddCpu
    <3>2. TypeOK'
      BY <1>t, <2>0, <2>2, <2>3, <3>1 DEF TypeOK
    <3>3. CheckedInv' /\ ReadsAreMapped'
      BY <1>i, <1>t, <2>0, <2>3, <3>1 DEF CheckedInv, ReadsAreMapped
    <3> QED BY <3>1, <3>2, <3>3 DEF IInv
  <2>4. CASE /\ pc' = "done" /\ info' = [info EXCEPT !.error = "BAD_ENTRY"]
             /\ UNCHANGED <<next, seen>>
             /\ \A r \in stray' : r \in stray \/ r = <<at + length - 1, 2>>
    <3>1. info'.error = "BAD_ENTRY" /\ Fails
      BY <1>i, <2>4 DEF TypeOK, Fails, Errors
    <3>2. PrefixInv' /\ info' \in [error : Errors \cup {"OK"}, enabled : Nat, cpus : Seq(Cpu)]
      BY <1>i, <2>4, <3>1, SameTable
    <3>3. TypeOK' /\ CheckedInv'
      BY <1>t, <2>0, <2>2, <2>4, <3>1, <3>2 DEF TypeOK, CheckedInv
    <3>4. ReadsAreMapped'
      BY <1>t, <2>0, <2>4, <3>1 DEF ReadsAreMapped
    <3> QED BY <3>2, <3>3, <3>4 DEF IInv
  <2> QED BY <2>1, <2>3, <2>4
<1>7. CASE WalkEnds
  <2>1. /\ pc = "walk" /\ pc' = "done" /\ next = length
        /\ UNCHANGED <<info, at, length, next, last, seen, stray>>
    BY <1>7, <1>i, <1>t DEF WalkEnds, CheckedInv
  <2>2. PrefixInv' /\ info' \in [error : Errors \cup {"OK"}, enabled : Nat, cpus : Seq(Cpu)]
    BY <1>i, <2>1, SameTable
  <2>3. TypeOK' /\ CheckedInv' /\ ReadsAreMapped'
    BY <1>t, <2>1, <2>2 DEF TypeOK, CheckedInv, ReadsAreMapped
  <2> QED BY <2>2, <2>3 DEF IInv
<1>8. CASE UNCHANGED vars
  BY <1>8 DEF vars, IInv, TypeOK, CheckedInv, ReadsAreMapped, PrefixInv, TableIsPrefix
<1> QED BY <1>1, <1>2, <1>3, <1>4, <1>5, <1>6, <1>7, <1>8 DEF Next, Step, Done

(* What has been checked and stored, at every point of the parsing.        *)
THEOREM InductiveInvariant == Spec => []IInv
<1> QED BY InitHolds, StepHolds, PTL DEF Spec

(* Whatever the tables hold, parse_acpi and parse_madt read only memory    *)
(* that the firmware's map describes, but for the one byte after an MADT   *)
(* that leaves a single byte for its last entry.                           *)
THEOREM ReadsStayMapped == Spec => []ReadsAreMapped
<1>1. IInv => ReadsAreMapped
  BY DEF IInv
<1> QED BY <1>1, InductiveInvariant, PTL

(* add_acpi_cpu stores the beginning of the MADT's list of enabled         *)
(* processors and drops only what the table has no room for.               *)
THEOREM TableFollowsMadt == Spec => []TableIsPrefix
<1>1. IInv => TableIsPrefix
  BY DEF IInv, PrefixInv
<1> QED BY <1>1, InductiveInvariant, PTL

(* The set of APs to bring up is a finite set of positions in the table.   *)
LEMMA SupportedType ==
    ASSUME TypeOK
    PROVE  /\ Supported \in SUBSET Nat /\ IsFiniteSet(Supported)
           /\ Cardinality(Supported) \in Nat
<1>1. DOMAIN info.cpus = 1 .. Len(info.cpus) /\ Len(info.cpus) \in Nat
  BY DEF TypeOK
<1>2. IsFiniteSet(1 .. Len(info.cpus)) /\ Supported \in SUBSET (1 .. Len(info.cpus))
  BY <1>1, FS_Interval DEF Supported
<1>3. IsFiniteSet(Supported)
  BY <1>2, FS_Subset
<1>4. Supported \in SUBSET Nat
  BY <1>1, <1>2
<1> QED BY <1>3, <1>4, FS_CardinalityType

(* select_ap_target finds the AP with the given number of APs before it.   *)
LEMMA SelectFinds ==
    ASSUME TypeOK, info.error = "OK", NEW i \in Nat, i < Cardinality(Supported)
    PROVE  /\ select_ap_target(i) \in Supported
           /\ Cardinality(Below(Supported, select_ap_target(i))) = i
<1> DEFINE found == { k \in Supported : Cardinality({ j \in Supported : j < k }) = i }
<1>1. found # {}
  <2>1. \E k \in Supported : Cardinality(Below(Supported, k)) = i
    BY SupportedType, HasIth
  <2> QED BY <2>1 DEF Below
<1>2. found \in SUBSET Nat
  BY SupportedType
<1>3. select_ap_target(i) = First(found)
  BY <1>1 DEF select_ap_target
<1>4. First(found) \in found
  <2> HIDE DEF found
  <2> QED BY <1>1, <1>2, FirstIsLeast
<1> QED BY <1>3, <1>4 DEF Below

(* The APs that bring-up is tried for are the supported processors of an   *)
(* MADT that was walked to its exact end, each once, in the table's order, *)
(* and the BSP is not among them.                                          *)
THEOREM SelectedTargetsAreReal == Spec => []TargetsAreReal
<1>1. IInv => TargetsAreReal
  <2> SUFFICES ASSUME IInv, pc = "done", count_supported_ap_targets > 0
               PROVE  TargetsAreReal
    BY DEF TargetsAreReal
  <2>t. TypeOK
    BY DEF IInv
  <2>1. info.error = "OK" /\ count_supported_ap_targets = Cardinality(Supported)
    BY DEF count_supported_ap_targets
  <2>2. next = length
    BY <2>1 DEF IInv, CheckedInv
  <2> DEFINE count == count_supported_ap_targets
             chosen == [n \in 1 .. count |-> select_ap_target(n - 1)]
  <2>3. ASSUME NEW n \in 1 .. count
        PROVE  /\ chosen[n] \in Supported
               /\ Cardinality(Below(Supported, chosen[n])) = n - 1
    <3>1. n - 1 \in Nat /\ n - 1 < Cardinality(Supported)
      BY <2>1, <2>t, SupportedType
    <3> QED BY <2>1, <2>t, <3>1, SelectFinds
  <2>4. \A k \in Supported : seen[k].id # BspId
    BY DEF Supported, acpi_cpu_is_supported_ap, IInv, PrefixInv, TableIsPrefix
  <2>5. ASSUME NEW m \in 1 .. count, NEW n \in 1 .. count, m < n
        PROVE  chosen[m] < chosen[n]
    <3>1. /\ chosen[m] \in Supported /\ Cardinality(Below(Supported, chosen[m])) = m - 1
          /\ chosen[n] \in Supported /\ Cardinality(Below(Supported, chosen[n])) = n - 1
      BY <2>3
    <3> HIDE DEF chosen
    <3>2. chosen[m] \in Nat /\ chosen[n] \in Nat /\ m \in Nat /\ n \in Nat
      BY <2>1, <2>t, <3>1, SupportedType
    <3>3. chosen[n] < chosen[m] => n - 1 < m - 1
      BY <2>t, <3>1, BelowGrows, SupportedType
    <3>4. chosen[n] # chosen[m]
      BY <2>5, <3>1, <3>2
    <3> QED BY <2>5, <3>2, <3>3, <3>4
  <2> HIDE DEF count
  <2>6. DOMAIN chosen = 1 .. count
    OBVIOUS
  <2> HIDE DEF chosen
  <2>7. /\ \A n \in DOMAIN chosen : chosen[n] \in Supported /\ seen[chosen[n]].id # BspId
        /\ \A m, n \in DOMAIN chosen : m < n => chosen[m] < chosen[n]
    BY <2>3, <2>4, <2>5, <2>6
  <2> QED BY <2>2, <2>7 DEF TargetsAreReal, chosen, count
<1> QED BY <1>1, InductiveInvariant, PTL
=============================================================================
