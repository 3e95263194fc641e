---------------------------- MODULE PagingProofs ----------------------------
(***************************************************************************)
(* Proofs about setup_kernel_paging, for tables of any size, pages of any  *)
(* size, any memory map UEFI may hand over and any framebuffer.            *)
(***************************************************************************)
EXTENDS Paging, TLAPS, FiniteSetTheorems, NaturalsInduction, WellFoundedInduction

-----------------------------------------------------------------------------
(* Arithmetic.                                                             *)

(* The constants, for the provers.                                         *)
LEMMA Constants ==
    /\ PageSize \in Nat \ {0} /\ MaxAddr \in Nat
    /\ Entries \in Nat \ {0, 1} /\ Slack \in Nat
BY MapAssumption, PagingAssumption DEF MapAssumption, PagingAssumption

(* A product with a natural number keeps the order.                        *)
LEMMA MulMono ==
    ASSUME NEW a \in Nat, NEW b \in Nat, NEW c \in Nat, a <= b
    PROVE  a * c <= b * c /\ a * c \in Nat
OBVIOUS

(* Quotient and remainder.                                                 *)
LEMMA DivMod ==
    ASSUME NEW a \in Nat, NEW b \in Nat \ {0}
    PROVE  a \div b \in Nat /\ a % b \in 0 .. b - 1 /\ a = b * (a \div b) + (a % b)
OBVIOUS

(* They are the only ones.                                                 *)
LEMMA DivUnique ==
    ASSUME NEW a \in Nat, NEW b \in Nat \ {0}, NEW q \in Nat, NEW r \in 0 .. b - 1,
           a = b * q + r
    PROVE  a \div b = q /\ a % b = r
OBVIOUS

(* Dividing twice is dividing by the product.                              *)
LEMMA DivDiv ==
    ASSUME NEW a \in Nat, NEW b \in Nat \ {0}, NEW c \in Nat \ {0}
    PROVE  a \div (b * c) = (a \div b) \div c
<1> DEFINE q == a \div b
           r == a % b
           s == q \div c
           t == q % c
<1>1. q \in Nat /\ r \in 0 .. b - 1 /\ a = b * q + r
  BY DivMod
<1>2. s \in Nat /\ t \in 0 .. c - 1 /\ q = c * s + t
  BY <1>1, DivMod
<1> HIDE DEF q, r, s, t
<1>3. b * q = (b * c) * s + b * t
  BY <1>1, <1>2
<1>4. b * t <= b * (c - 1)
  BY <1>2, MulMono
<1>5. b * (c - 1) = b * c - b /\ b * c \in Nat \ {0}
  OBVIOUS
<1>6. b * t + r \in 0 .. (b * c) - 1
  BY <1>1, <1>2, <1>4, <1>5
<1>7. a = (b * c) * s + (b * t + r)
  BY <1>1, <1>2, <1>3, <1>5
<1>8. a \div (b * c) = s
  BY <1>2, <1>5, <1>6, <1>7, DivUnique
<1> QED BY <1>8 DEF s, q

(* Comparing a quotient is comparing with a multiple.                      *)
LEMMA DivLess ==
    ASSUME NEW a \in Nat, NEW b \in Nat \ {0}, NEW c \in Nat
    PROVE  /\ a \div b < c <=> a < b * c
           /\ c <= a \div b <=> b * c <= a
<1>1. a \div b \in Nat /\ a % b \in 0 .. b - 1 /\ a = b * (a \div b) + (a % b)
  BY DivMod
<1>2. ASSUME a \div b < c PROVE a < b * c
  <2>1. ((a \div b) + 1) * b <= c * b
    BY <1>1, <1>2, MulMono
  <2> QED BY <1>1, <2>1
<1>3. ASSUME c <= a \div b PROVE b * c <= a
  <2>1. c * b <= (a \div b) * b
    BY <1>1, <1>3, MulMono
  <2> QED BY <1>1, <2>1
<1> QED BY <1>1, <1>2, <1>3

(* Rounding a quotient up: pages below an end fit into the rounded number. *)
LEMMA RoundUp ==
    ASSUME NEW a \in Nat, NEW b \in Nat \ {0}, NEW p \in Nat
    PROVE  /\ div_round_up64(a, b) \in Nat
           /\ b * p < a => p < div_round_up64(a, b)
           /\ p < a => p \div b < div_round_up64(a, b)
<1>1. CASE a = 0
  BY <1>1, DivMod DEF div_round_up64
<1>2. CASE a # 0
  <2>1. a - 1 \in Nat /\ (a - 1) \div b \in Nat
    BY <1>2, DivMod
  <2>2. div_round_up64(a, b) = ((a - 1) \div b) + 1
    BY <1>2 DEF div_round_up64
  <2>3. ASSUME NEW q \in Nat, b * q < a PROVE q < div_round_up64(a, b)
    <3>1. b * q \in Nat /\ b * q <= a - 1
      BY <2>3
    <3>2. q <= (a - 1) \div b
      BY <2>1, <3>1, DivLess
    <3> QED BY <2>1, <2>2, <3>2
  <2>4. p \div b \in Nat /\ b * (p \div b) <= p
    BY DivMod
  <2>5. ASSUME p < a PROVE p \div b < div_round_up64(a, b)
    BY <2>3, <2>4, <2>5
  <2> QED BY <2>1, <2>2, <2>3, <2>5
<1> QED BY <1>1, <1>2

(* Multiples of the page size.                                             *)
LEMMA Multiples ==
    ASSUME NEW p \in Nat
    PROVE  /\ p * PageSize \in Nat
           /\ (p * PageSize) \div PageSize = p
           /\ (p * PageSize) % PageSize = 0
<1>1. p * PageSize \in Nat /\ p * PageSize = PageSize * p + 0 /\ 0 \in 0 .. PageSize - 1
  BY Constants
<1> QED BY <1>1, Constants, DivUnique

(* A number that divides evenly is a multiple.                             *)
LEMMA IsMultiple ==
    ASSUME NEW a \in Nat, a % PageSize = 0
    PROVE  a \div PageSize \in Nat /\ a = (a \div PageSize) * PageSize
<1>1. a \div PageSize \in Nat /\ a = PageSize * (a \div PageSize) + (a % PageSize)
  BY Constants, DivMod
<1> QED BY <1>1, Constants

-----------------------------------------------------------------------------
(* Levels.                                                                 *)

(* The spans of the four levels.                                           *)
LEMMA Spans ==
    /\ \A l \in 1 .. 4 : Span(l) \in Nat \ {0}
    /\ Span(1) = Entries
    /\ \A l \in 2 .. 4 : Span(l) = Span(l - 1) * Entries
    /\ TablePages = 0 .. Span(4) - 1
<1> DEFINE E == Entries
<1>1. E \in Nat \ {0}
  BY Constants
<1> HIDE DEF E
<1>2. E * E \in Nat \ {0}
  BY <1>1
<1>3. (E * E) * E \in Nat \ {0}
  BY <1>1, <1>2
<1>4. ((E * E) * E) * E \in Nat \ {0}
  BY <1>1, <1>3
<1>5. Span(1) = E /\ Span(2) = E * E /\ Span(3) = (E * E) * E /\ Span(4) = ((E * E) * E) * E
  BY DEF Span, E
<1>6. \A l \in 1 .. 4 : l = 1 \/ l = 2 \/ l = 3 \/ l = 4
  OBVIOUS
<1>7. \A l \in 1 .. 4 : Span(l) \in Nat \ {0}
  BY <1>1, <1>2, <1>3, <1>4, <1>5, <1>6
<1>8. \A l \in 2 .. 4 : Span(l) = Span(l - 1) * E
  <2>1. 2 - 1 = 1 /\ 3 - 1 = 2 /\ 4 - 1 = 3
    OBVIOUS
  <2> QED BY <1>5, <1>6, <2>1
<1>9. TablePages = 0 .. Span(4) - 1
  BY <1>5 DEF TablePages, E
<1> QED BY <1>5, <1>7, <1>8, <1>9 DEF E

(* The low half: the pages under the root's entries below Entries \div 2.  *)
LowEnd == Span(3) * (Entries \div 2)
LEMMA LowHalf ==
    /\ LowEnd \in Nat /\ LowLimit \in Nat
    /\ LowLimit = LowEnd * PageSize
    /\ LowPages = 0 .. LowEnd - 1
    /\ LowPages \subseteq TablePages /\ LowPages \subseteq Nat
<1> DEFINE h == Entries \div 2
           S == Span(3)
<1>1. h \in Nat /\ h <= Entries
  BY Constants
<1>2. S \in Nat /\ Span(4) = S * Entries
  <2>1. 3 \in 1 .. 4 /\ 4 \in 2 .. 4 /\ 4 - 1 = 3
    OBVIOUS
  <2> QED BY <2>1, Spans
<1>3. S = Entries * Entries * Entries
  BY DEF Span
<1>4. LowEnd = S * h
  BY DEF LowEnd
<1>5. LowLimit = PageSize * (S * h)
  BY <1>3 DEF LowLimit
<1> HIDE DEF h, S
<1>6. S * h = h * S /\ S * Entries = Entries * S /\ h * S <= Entries * S /\ h * S \in Nat
  BY <1>1, <1>2, Constants, MulMono
<1>7. LowEnd \in Nat /\ LowEnd <= Span(4) /\ Span(4) \in Nat
  BY <1>1, <1>2, <1>4, <1>6, Constants
<1>8. LowLimit = LowEnd * PageSize
  <2>1. LowLimit = PageSize * LowEnd
    BY <1>4, <1>5
  <2> QED BY <1>7, <2>1, Constants
<1>9. LowLimit \div PageSize = LowEnd /\ LowLimit \in Nat
  BY <1>7, <1>8, Multiples
<1>10. LowPages = 0 .. LowEnd - 1
  BY <1>9 DEF LowPages
<1>11. LowPages \subseteq TablePages /\ LowPages \subseteq Nat
  <2>1. TablePages = 0 .. Span(4) - 1
    BY Spans
  <2> HIDE DEF LowEnd
  <2> QED BY <1>7, <1>10, <2>1
<1> QED BY <1>7, <1>8, <1>9, <1>10, <1>11

(* map_identity_range_4k's indices are the digits of the page number: each *)
(* leads from the pages of one table to those of the next.                 *)
LEMMA Digits ==
    ASSUME NEW p \in TablePages
    PROVE  /\ p \in Nat /\ p \div Span(4) = 0
           /\ \A l \in 1 .. 4 : Index(p * PageSize, l) \in 0 .. Entries - 1
           /\ \A l \in 2 .. 4 :
                 p \div Span(l - 1) = (p \div Span(l)) * Entries + Index(p * PageSize, l)
           /\ p = (p \div Entries) * Entries + Index(p * PageSize, 1)
           /\ \A l \in 1 .. 4 : p \div Span(l) \in Nat
<1>1. p \in Nat /\ p < Span(4)
  BY Spans
<1>2. (p * PageSize) \div PageSize = p
  BY <1>1, Multiples
<1>3. /\ Index(p * PageSize, 4) = (p \div Span(3)) % Entries
      /\ Index(p * PageSize, 3) = (p \div Span(2)) % Entries
      /\ Index(p * PageSize, 2) = (p \div Span(1)) % Entries
      /\ Index(p * PageSize, 1) = p % Entries
  BY <1>2 DEF Index, Span
<1>4. \A l \in 1 .. 4 : p \div Span(l) \in Nat
  BY <1>1, Spans, DivMod
<1>5. p \div Span(4) = 0
  <2>0. Span(4) \in Nat \ {0}
    BY Spans
  <2>1. p = Span(4) * 0 + p /\ p \in 0 .. Span(4) - 1
    BY <1>1, <2>0
  <2> QED BY <1>1, <2>0, <2>1, DivUnique
<1>6. ASSUME NEW l \in 2 .. 4
      PROVE  p \div Span(l - 1) = (p \div Span(l)) * Entries + ((p \div Span(l - 1)) % Entries)
  <2>1. l - 1 \in 1 .. 4 /\ l \in 1 .. 4
    OBVIOUS
  <2>2. p \div Span(l) = (p \div Span(l - 1)) \div Entries
    <3>1. Span(l - 1) \in Nat \ {0} /\ Entries \in Nat \ {0} /\ Span(l) = Span(l - 1) * Entries
      BY <2>1, Spans, Constants
    <3> QED BY <1>1, <3>1, DivDiv
  <2> DEFINE q == p \div Span(l - 1)
  <2>3. q \in Nat
    BY <1>4, <2>1
  <2>4. q = Entries * (q \div Entries) + (q % Entries) /\ q \div Entries \in Nat
    BY <2>3, Constants, DivMod
  <2>5. Entries * (q \div Entries) = (q \div Entries) * Entries
    BY <2>4, Constants
  <2> QED BY <2>2, <2>4, <2>5
<1>7. \A l \in 1 .. 4 : l = 1 \/ l = 2 \/ l = 3 \/ l = 4
  OBVIOUS
<1>8. \A q \in Nat : q % Entries \in 0 .. Entries - 1
  BY Constants, DivMod
<1>9. \A l \in 1 .. 4 : Index(p * PageSize, l) \in 0 .. Entries - 1
  BY <1>1, <1>3, <1>4, <1>7, <1>8
<1>10. \A l \in 2 .. 4 :
          p \div Span(l - 1) = (p \div Span(l)) * Entries + Index(p * PageSize, l)
  <2>1. 2 - 1 = 1 /\ 3 - 1 = 2 /\ 4 - 1 = 3 /\ 2 \in 2 .. 4 /\ 3 \in 2 .. 4 /\ 4 \in 2 .. 4
    OBVIOUS
  <2>2. \A l \in 2 .. 4 : l = 2 \/ l = 3 \/ l = 4
    OBVIOUS
  <2> QED BY <1>3, <1>6, <2>1, <2>2
<1>11. p = (p \div Entries) * Entries + Index(p * PageSize, 1)
  <2>1. p = Entries * (p \div Entries) + (p % Entries) /\ p \div Entries \in Nat
    BY <1>1, Constants, DivMod
  <2>2. Entries * (p \div Entries) = (p \div Entries) * Entries
    BY <2>1, Constants
  <2> QED BY <1>3, <2>1, <2>2
<1> QED BY <1>1, <1>4, <1>5, <1>9, <1>10, <1>11

(* The number a table's entry stands for tells the table and the entry.    *)
LEMMA DigitsUnique ==
    ASSUME NEW x \in Nat, NEW y \in Nat, NEW m \in 0 .. Entries - 1, NEW n \in 0 .. Entries - 1,
           x * Entries + m = y * Entries + n
    PROVE  x = y /\ m = n
<1> DEFINE a == x * Entries + m
<1>1. a \in Nat /\ a = Entries * x + m /\ a = Entries * y + n
  BY Constants
<1>2. a \div Entries = x /\ a % Entries = m
  BY <1>1, Constants, DivUnique
<1>3. a \div Entries = y /\ a % Entries = n
  BY <1>1, Constants, DivUnique
<1> QED BY <1>2, <1>3

(* How many tables of a level pages below N need.                          *)
LEMMA TableCounts ==
    ASSUME NEW N \in Nat
    PROVE  /\ \A l \in 1 .. 4 : TablesFor(N, l) \in Nat
           /\ TablesFor(N, 4) = 1
           /\ \A p \in TablePages : p < N => \A l \in 1 .. 4 : p \div Span(l) < TablesFor(N, l)
<1>1. \A l \in 1 .. 4 : TablesFor(N, l) \in Nat
  BY Spans, RoundUp DEF TablesFor
<1>2. TablesFor(N, 4) = 1
  BY DEF TablesFor
<1>3. ASSUME NEW p \in TablePages, p < N, NEW l \in 1 .. 4
      PROVE  p \div Span(l) < TablesFor(N, l)
  <2>1. CASE l = 4
    BY <1>2, <2>1, Digits
  <2>2. CASE l # 4
    BY <1>3, <2>2, Digits, Spans, RoundUp DEF TablesFor
  <2> QED BY <2>1, <2>2
<1> QED BY <1>1, <1>2, <1>3

(* Counting: tables that cover different pages, and none the ones that x   *)
(* stands for on level l, are fewer than the estimate.                     *)
LEMMA RoomLeft ==
    ASSUME NEW N \in Nat, NEW S, IsFiniteSet(S),
           NEW lev \in [S -> 1 .. 4], NEW pre \in [S -> Nat],
           \A t \in S : pre[t] < TablesFor(N, lev[t]),
           \A t, u \in S : lev[t] = lev[u] /\ pre[t] = pre[u] => t = u,
           NEW l \in 1 .. 3, NEW x \in Nat, x < TablesFor(N, l),
           \A t \in S : ~(lev[t] = l /\ pre[t] = x)
    PROVE  Cardinality(S) < 1 + TablesFor(N, 3) + TablesFor(N, 2) + TablesFor(N, 1)
<1> DEFINE T(k) == 0 .. TablesFor(N, k) - 1
           K(k) == {k} \X T(k)
           K21 == K(2) \cup K(1)
           K321 == K(3) \cup K21
           Keys == K(4) \cup K321
           f == [t \in S |-> <<lev[t], pre[t]>>]
<1>1. \A k \in 1 .. 4 : TablesFor(N, k) \in Nat
  BY TableCounts
<1>2. ASSUME NEW k \in 1 .. 4
      PROVE  IsFiniteSet(K(k)) /\ Cardinality(K(k)) = TablesFor(N, k)
  <2>1. IsFiniteSet(T(k)) /\ Cardinality(T(k)) = TablesFor(N, k)
    <3>1. TablesFor(N, k) - 1 \in Int /\ 0 \in Int
      BY <1>1
    <3> HIDE DEF T
    <3>2. IsFiniteSet(0 .. TablesFor(N, k) - 1)
          /\ Cardinality(0 .. TablesFor(N, k) - 1)
               = IF 0 > TablesFor(N, k) - 1 THEN 0 ELSE (TablesFor(N, k) - 1) - 0 + 1
      BY <3>1, FS_Interval
    <3> QED BY <1>1, <3>2 DEF T
  <2>2. IsFiniteSet({k}) /\ Cardinality({k}) = 1
    BY FS_Singleton
  <2> HIDE DEF T
  <2>3. IsFiniteSet(K(k)) /\ Cardinality(K(k)) = 1 * TablesFor(N, k)
    BY <2>1, <2>2, FS_Product
  <2> QED BY <1>1, <2>3
<1>3. K(2) \cap K(1) = {} /\ K(3) \cap K21 = {} /\ K(4) \cap K321 = {}
  OBVIOUS
<1>4. IsFiniteSet({}) /\ Cardinality({}) = 0
  BY FS_EmptySet
<1>5. IsFiniteSet(K21) /\ Cardinality(K21) = TablesFor(N, 2) + TablesFor(N, 1)
  <2> HIDE DEF K
  <2>1. 1 \in 1 .. 4 /\ 2 \in 1 .. 4
    OBVIOUS
  <2>2. IsFiniteSet(K21) /\ Cardinality(K21) = Cardinality(K(2)) + Cardinality(K(1)) - 0
    BY <1>2, <1>3, <1>4, <2>1, FS_Union
  <2> QED BY <1>1, <1>2, <2>1, <2>2
<1>6. IsFiniteSet(K321)
      /\ Cardinality(K321) = TablesFor(N, 3) + (TablesFor(N, 2) + TablesFor(N, 1))
  <2> HIDE DEF K, K21
  <2>1. 3 \in 1 .. 4
    OBVIOUS
  <2>2. IsFiniteSet(K321) /\ Cardinality(K321) = Cardinality(K(3)) + Cardinality(K21) - 0
    BY <1>2, <1>3, <1>4, <1>5, <2>1, FS_Union
  <2> QED BY <1>1, <1>2, <1>5, <2>1, <2>2
<1>7. IsFiniteSet(Keys)
      /\ Cardinality(Keys) = 1 + (TablesFor(N, 3) + (TablesFor(N, 2) + TablesFor(N, 1)))
  <2> HIDE DEF K, K321
  <2>1. 4 \in 1 .. 4
    OBVIOUS
  <2>2. IsFiniteSet(Keys) /\ Cardinality(Keys) = Cardinality(K(4)) + Cardinality(K321) - 0
    BY <1>2, <1>3, <1>4, <1>6, <2>1, FS_Union
  <2> QED BY <1>1, <1>2, <1>6, <2>1, <2>2, TableCounts
<1>8. \A k \in 1 .. 4 : \A y \in Nat : y < TablesFor(N, k) => <<k, y>> \in Keys
  <2> SUFFICES ASSUME NEW k \in 1 .. 4, NEW y \in Nat, y < TablesFor(N, k)
               PROVE  <<k, y>> \in Keys
    OBVIOUS
  <2>1. y \in T(k)
    BY <1>1
  <2>2. <<k, y>> \in K(k)
    BY <2>1
  <2>3. k = 1 \/ k = 2 \/ k = 3 \/ k = 4
    OBVIOUS
  <2> HIDE DEF K
  <2> QED BY <2>2, <2>3
<1> HIDE DEF Keys, K
<1>9. IsFiniteSet(Keys \ {<<l, x>>}) /\ Cardinality(Keys \ {<<l, x>>}) = Cardinality(Keys) - 1
  <2>1. l \in 1 .. 4
    OBVIOUS
  <2>2. <<l, x>> \in Keys
    BY <1>8, <2>1
  <2> QED BY <1>7, <2>2, FS_RemoveElement
<1>10. f \in Injection(S, Keys \ {<<l, x>>})
  <2>1. \A t \in S : lev[t] \in 1 .. 4 /\ pre[t] \in Nat
    OBVIOUS
  <2>2. \A t \in S : <<lev[t], pre[t]>> \in Keys
    BY <1>8, <2>1
  <2>3. f \in [S -> Keys \ {<<l, x>>}]
    BY <2>2
  <2>4. \A t, u \in S : f[t] = f[u] => t = u
    OBVIOUS
  <2> QED BY <2>3, <2>4 DEF Injection, IsInjective
<1>11. Cardinality(S) \in Nat /\ Cardinality(S) <= Cardinality(Keys \ {<<l, x>>})
  BY <1>9, <1>10, FS_Injection, FS_CardinalityType
<1> QED BY <1>1, <1>7, <1>9, <1>11

-----------------------------------------------------------------------------
(* The tree.                                                               *)

(* If an entry is absent, no table covers what it stands for: a table      *)
(* hangs in exactly one entry.                                             *)
LEMMA AbsentIsUncovered ==
    ASSUME NEW m, NEW root, NEW N \in Nat,
           NEW lev \in [DOMAIN m -> 1 .. 4], NEW pre \in [DOMAIN m -> Nat],
           Tree(m, root, lev, pre, N),
           NEW a \in DOMAIN m, NEW n \in 0 .. Entries - 1, lev[a] > 1, ~m[a][n].present,
           NEW t \in DOMAIN m, lev[t] = lev[a] - 1, pre[t] = pre[a] * Entries + n
    PROVE  FALSE
<1>1. t # root
  BY DEF Tree
<1>2. PICK u \in DOMAIN m, k \in 0 .. Entries - 1 :
         lev[u] > 1 /\ m[u][k].present /\ m[u][k].addr = t
  BY <1>1 DEF Tree
<1>3. lev[t] = lev[u] - 1 /\ pre[t] = pre[u] * Entries + k
  BY <1>2 DEF Tree
<1>4. lev[u] \in 1 .. 4 /\ lev[a] \in 1 .. 4 /\ pre[u] \in Nat /\ pre[a] \in Nat
  OBVIOUS
<1>5. lev[u] = lev[a] /\ pre[u] = pre[a] /\ k = n
  BY <1>3, <1>4, DigitsUnique
<1>6. u = a
  BY <1>5 DEF Tree
<1> QED BY <1>2, <1>5, <1>6

(* The tables after a new one is hung into an absent entry.                *)
Hang(m, a, n, new) ==
    [[b \in DOMAIN m \cup {new} |-> IF b = new THEN EmptyTable ELSE m[b]]
        EXCEPT ![a][n] = Entry(new, FALSE)]
Extend(g, new, v) == [b \in DOMAIN g \cup {new} |-> IF b = new THEN v ELSE g[b]]

(* What they contain, as a predicate the provers need not look into.       *)
Hung(h, S, m, a, n, new) ==
    /\ DOMAIN h = S \cup {new} /\ h \in [S \cup {new} -> Table]
    /\ h[a][n] = Entry(new, FALSE)
    /\ \A k \in 0 .. Entries - 1 : h[new][k] = Absent
    /\ \A b \in S : \A k \in 0 .. Entries - 1 : ~(b = a /\ k = n) => h[b][k] = m[b][k]

(* Hanging in a table changes one entry and adds an empty table.           *)
LEMMA HangEntries ==
    ASSUME NEW S, NEW m \in [S -> Table], NEW a \in S, NEW n \in 0 .. Entries - 1,
           NEW new \in Nat, new \notin S
    PROVE  Hung(Hang(m, a, n, new), S, m, a, n, new)
<1>0. DOMAIN m = S
  OBVIOUS
<1> DEFINE g == [b \in S \cup {new} |-> IF b = new THEN EmptyTable ELSE m[b]]
           h == [g EXCEPT ![a][n] = Entry(new, FALSE)]
<1>1. Absent \in PageEntry /\ Entry(new, FALSE) \in PageEntry
  BY DEF Absent, Entry, PageEntry
<1>2. EmptyTable \in Table
  BY <1>1 DEF EmptyTable, Table
<1>3. DOMAIN g = S \cup {new} /\ g \in [S \cup {new} -> Table]
  BY <1>2
<1>4. g[new] = EmptyTable /\ \A b \in S : g[b] = m[b]
  OBVIOUS
<1>5. a # new
  OBVIOUS
<1> HIDE DEF g
<1>6. DOMAIN h = S \cup {new}
  BY <1>3
<1>7. h[a] = [g[a] EXCEPT ![n] = Entry(new, FALSE)]
      /\ \A b \in S \cup {new} : b # a => h[b] = g[b]
  BY <1>3
<1>8. g[a] \in Table /\ DOMAIN g[a] = 0 .. Entries - 1
  BY <1>3 DEF Table
<1>9. h[a] \in Table /\ h[a][n] = Entry(new, FALSE)
      /\ \A k \in 0 .. Entries - 1 : k # n => h[a][k] = g[a][k]
  <2> DEFINE row == g[a]
             e == Entry(new, FALSE)
  <2>1. row \in [0 .. Entries - 1 -> PageEntry] /\ e \in PageEntry
        /\ h[a] = [row EXCEPT ![n] = e]
    BY <1>1, <1>7, <1>8 DEF Table
  <2> HIDE DEF row, e, h
  <2> QED BY <2>1 DEF Table, row, e
<1>10. h \in [S \cup {new} -> Table]
  <2>1. \A b \in S \cup {new} : h[b] \in Table
    BY <1>3, <1>7, <1>9
  <2> QED BY <1>3, <1>6, <2>1
<1>11. \A k \in 0 .. Entries - 1 : h[new][k] = Absent
  BY <1>4, <1>5, <1>7 DEF EmptyTable
<1>12. \A b \in S : \A k \in 0 .. Entries - 1 : ~(b = a /\ k = n) => h[b][k] = m[b][k]
  BY <1>4, <1>7, <1>9
<1>13. Hang(m, a, n, new) = h
  BY <1>0 DEF Hang, g
<1> HIDE DEF h
<1> QED BY <1>6, <1>9, <1>10, <1>11, <1>12, <1>13 DEF Hung

WellBuilt(m, root, lev, pre, N, D, U) ==
    /\ lev \in [DOMAIN m -> 1 .. 4] /\ pre \in [DOMAIN m -> Nat]
    /\ Tree(m, root, lev, pre, N) /\ Leaves(m, lev, pre, D, U)

(* It is a tree again, with the same leaves.                               *)
LEMMA HangKeepsTree ==
    ASSUME NEW m, NEW root, NEW N \in Nat,
           NEW lev \in [DOMAIN m -> 1 .. 4], NEW pre \in [DOMAIN m -> Nat],
           Tree(m, root, lev, pre, N), NEW D, NEW U, Leaves(m, lev, pre, D, U),
           NEW a \in DOMAIN m, NEW n \in 0 .. Entries - 1, lev[a] > 1, ~m[a][n].present,
           NEW new \in Nat, new \notin DOMAIN m,
           pre[a] * Entries + n < TablesFor(N, lev[a] - 1)
    PROVE  WellBuilt(Hang(m, a, n, new), root, Extend(lev, new, lev[a] - 1),
                     Extend(pre, new, pre[a] * Entries + n), N, D, U)
<1> DEFINE m2 == Hang(m, a, n, new)
           lev2 == Extend(lev, new, lev[a] - 1)
           pre2 == Extend(pre, new, pre[a] * Entries + n)
           S == DOMAIN m
           S2 == DOMAIN m \cup {new}
           Ix == 0 .. Entries - 1
<1>1. /\ DOMAIN m2 = S2 /\ m2 \in [S2 -> Table]
      /\ m2[a][n] = Entry(new, FALSE)
      /\ \A k \in Ix : m2[new][k] = Absent
      /\ \A b \in S : \A k \in Ix : ~(b = a /\ k = n) => m2[b][k] = m[b][k]
  <2>1. m \in [DOMAIN m -> Table]
    BY DEF Tree
  <2>2. Hung(Hang(m, a, n, new), DOMAIN m, m, a, n, new)
    BY <2>1, HangEntries
  <2> HIDE DEF m2
  <2>3. Hung(m2, DOMAIN m, m, a, n, new)
    BY <2>2 DEF m2
  <2> QED BY <2>3 DEF Hung
<1>2. lev[a] - 1 \in 1 .. 4 /\ lev[a] - 1 \in 1 .. 3 /\ pre[a] * Entries + n \in Nat
  <2>1. lev[a] \in 1 .. 4 /\ pre[a] \in Nat
    OBVIOUS
  <2> QED BY <2>1, Constants
<1>3. /\ lev2 \in [S2 -> 1 .. 4] /\ pre2 \in [S2 -> Nat]
      /\ lev2[new] = lev[a] - 1 /\ pre2[new] = pre[a] * Entries + n
      /\ \A b \in S : lev2[b] = lev[b] /\ pre2[b] = pre[b]
  BY <1>2 DEF Extend
<1>4. Entry(new, FALSE).present /\ Entry(new, FALSE).addr = new /\ ~Absent.present
  BY DEF Entry, Absent
<1> HIDE DEF m2, lev2, pre2
<1>5. root \in S2 /\ lev2[root] = 4
  BY <1>3 DEF Tree
<1>6. \A t \in S2 : pre2[t] < TablesFor(N, lev2[t])
  BY <1>3 DEF Tree
<1>7. \A t \in S : ~(lev[t] = lev[a] - 1 /\ pre[t] = pre[a] * Entries + n)
  BY AbsentIsUncovered
<1>8. \A t, u \in S2 : lev2[t] = lev2[u] /\ pre2[t] = pre2[u] => t = u
  BY <1>3, <1>7 DEF Tree
<1>9. ASSUME NEW t \in S2, NEW k \in Ix, lev2[t] > 1, m2[t][k].present
      PROVE  /\ m2[t][k].addr \in S2
             /\ lev2[m2[t][k].addr] = lev2[t] - 1
             /\ pre2[m2[t][k].addr] = pre2[t] * Entries + k
  <2>1. CASE t = a /\ k = n
    BY <1>1, <1>3, <1>4, <2>1
  <2>2. CASE t \in S /\ ~(t = a /\ k = n)
    <3>1. m2[t][k] = m[t][k] /\ lev[t] > 1 /\ m[t][k].present
      BY <1>1, <1>3, <1>9, <2>2
    <3>2. /\ m[t][k].addr \in S
          /\ lev[m[t][k].addr] = lev[t] - 1 /\ pre[m[t][k].addr] = pre[t] * Entries + k
      BY <2>2, <3>1 DEF Tree
    <3> QED BY <1>3, <2>2, <3>1, <3>2
  <2>3. CASE t = new
    BY <1>1, <1>4, <1>9, <2>3
  <2> QED BY <2>1, <2>2, <2>3
<1>10. ASSUME NEW t \in S2 \ {root}
       PROVE  \E u \in S2 : \E k \in Ix : lev2[u] > 1 /\ m2[u][k].present /\ m2[u][k].addr = t
  <2>1. CASE t = new
    <3>1. a \in S2 /\ lev2[a] > 1 /\ m2[a][n].present /\ m2[a][n].addr = t
      BY <1>1, <1>3, <1>4, <2>1
    <3> QED BY <3>1
  <2>2. CASE t \in S
    <3>1. PICK u \in S, k \in Ix : lev[u] > 1 /\ m[u][k].present /\ m[u][k].addr = t
      BY <2>2 DEF Tree
    <3>2. ~(u = a /\ k = n)
      BY <3>1
    <3> QED BY <1>1, <1>3, <3>1, <3>2
  <2> QED BY <2>1, <2>2
<1>11. Tree(m2, root, lev2, pre2, N)
  <2>1. m2 \in [DOMAIN m2 -> Table] /\ root \in DOMAIN m2 /\ lev2[root] = 4
    BY <1>1, <1>5
  <2>2. \A t \in DOMAIN m2 : pre2[t] < TablesFor(N, lev2[t])
    BY <1>1, <1>6
  <2>3. \A t, u \in DOMAIN m2 : lev2[t] = lev2[u] /\ pre2[t] = pre2[u] => t = u
    BY <1>1, <1>8
  <2>4. \A t \in DOMAIN m2 : \A k \in 0 .. Entries - 1 :
           lev2[t] > 1 /\ m2[t][k].present =>
              /\ m2[t][k].addr \in DOMAIN m2
              /\ lev2[m2[t][k].addr] = lev2[t] - 1
              /\ pre2[m2[t][k].addr] = pre2[t] * Entries + k
    BY <1>1, <1>9, Zenon
  <2>5. \A t \in DOMAIN m2 \ {root} : \E u \in DOMAIN m2 : \E k \in 0 .. Entries - 1 :
           lev2[u] > 1 /\ m2[u][k].present /\ m2[u][k].addr = t
    BY <1>1, <1>10, Zenon
  <2> QED BY <2>1, <2>2, <2>3, <2>4, <2>5, Zenon DEF Tree
<1>12. ASSUME NEW t \in S2, NEW k \in Ix, lev2[t] = 1
       PROVE  LET p == pre2[t] * Entries + k
              IN  /\ m2[t][k].present <=> p \in D
                  /\ m2[t][k].present => /\ m2[t][k].addr = p * PageSize
                                         /\ m2[t][k].uncached <=> p \in U
  <2>1. CASE t \in S
    <3>1. lev[t] = 1 /\ t # a /\ m2[t][k] = m[t][k] /\ pre2[t] = pre[t]
      BY <1>1, <1>3, <1>12, <2>1
    <3> QED BY <2>1, <3>1 DEF Leaves
  <2>2. CASE t = new
    <3>1. ~m2[t][k].present
      BY <1>1, <1>4, <2>2
    <3>2. pre2[t] * Entries + k \notin D
      <4>1. SUFFICES ASSUME pre2[t] * Entries + k \in D PROVE FALSE
        OBVIOUS
      <4>2. PICK u \in S : lev[u] = 1 /\ pre[u] = (pre2[t] * Entries + k) \div Entries
        BY <4>1 DEF Leaves
      <4>3. pre2[t] \in Nat
        BY <1>3
      <4>4. (pre2[t] * Entries + k) \div Entries = pre2[t]
        <5>1. /\ pre2[t] * Entries + k \in Nat
              /\ pre2[t] * Entries + k = Entries * pre2[t] + k
          BY <4>3, Constants
        <5> QED BY <4>3, <5>1, Constants, DivUnique
      <4> QED BY <1>3, <1>7, <1>12, <2>2, <4>2, <4>4
    <3> QED BY <3>1, <3>2
  <2> QED BY <2>1, <2>2
<1>13. \A p \in D : \E t \in S2 : lev2[t] = 1 /\ pre2[t] = p \div Entries
  BY <1>3 DEF Leaves
<1>14. Leaves(m2, lev2, pre2, D, U)
  BY <1>1, <1>12, <1>13 DEF Leaves
<1>15. WellBuilt(m2, root, lev2, pre2, N, D, U)
  BY <1>1, <1>3, <1>11, <1>14 DEF WellBuilt
<1> QED BY <1>15 DEF m2, lev2, pre2

-----------------------------------------------------------------------------
(* Walking down to a page.                                                 *)

(* s is on level l of the way to page p, in a sound tree whose leaves are  *)
(* those of D; of the pool only the fill has changed since f0.             *)
Walked(s, N, D, U, p, l, f0) ==
    /\ s = Result(s.info, s.mem, s.at, TRUE)
    /\ PoolInv(s.info, s.mem, N) /\ s.info.poolStart > 0
    /\ s.info.cr3 = f0.cr3 /\ s.info.mappedPages = f0.mappedPages
    /\ s.info.poolStart = f0.poolStart /\ s.info.reserved = f0.reserved
    /\ \E lev, pre :
          /\ WellBuilt(s.mem, s.info.cr3, lev, pre, N, D, U)
          /\ s.at \in DOMAIN s.mem /\ lev[s.at] = l /\ pre[s.at] = p \div Span(l)

(* The pool is never empty when a table is needed: the tables there are    *)
(* cover different pages, and none covers p on the next level.             *)
LEMMA AllocSucceeds ==
    ASSUME NEW N \in Nat, NEW f, NEW m, PoolInv(f, m, N),
           Cardinality(DOMAIN m) < 1 + TablesFor(N, 3) + TablesFor(N, 2) + TablesFor(N, 1),
           NEW a
    PROVE  /\ f.poolNext \in Nat /\ f.poolNext \notin DOMAIN m
           /\ f.allocated < f.reserved /\ (f.poolStart > 0 => f.poolNext > 0)
           /\ alloc_page_table_page(Result(f, m, a, TRUE))
              = Result([f EXCEPT !.poolNext = f.poolNext + PageSize, !.allocated = @ + 1],
                       [b \in DOMAIN m \cup {f.poolNext} |->
                            IF b = f.poolNext THEN EmptyTable ELSE m[b]],
                       f.poolNext, TRUE)
<1>1. /\ f.poolStart \in Nat /\ f.poolNext \in Nat /\ f.poolEnd \in Nat
      /\ f.allocated \in Nat /\ f.reserved \in Nat
  BY DEF PoolInv, PagingInfo
<1>2. f.allocated + 1 <= f.reserved
  <2>1. /\ f.allocated = Cardinality(DOMAIN m)
        /\ f.reserved = 1 + TablesFor(N, 3) + TablesFor(N, 2) + TablesFor(N, 1) + Slack
    BY DEF PoolInv
  <2>2. TablesFor(N, 3) \in Nat /\ TablesFor(N, 2) \in Nat /\ TablesFor(N, 1) \in Nat
    BY TableCounts
  <2> QED BY <1>1, <2>1, <2>2, Constants
<1>3. f.poolNext <= f.poolEnd - PageSize
  <2>1. (f.allocated + 1) * PageSize <= f.reserved * PageSize
    BY <1>1, <1>2, Constants, MulMono
  <2>2. (f.allocated + 1) * PageSize = f.allocated * PageSize + PageSize
    BY <1>1, Constants
  <2>3. /\ f.poolEnd = f.poolStart + f.reserved * PageSize
        /\ f.poolNext = f.poolStart + f.allocated * PageSize
    BY DEF PoolInv
  <2>4. f.allocated * PageSize \in Nat /\ f.reserved * PageSize \in Nat /\ PageSize \in Nat
    BY <1>1, Constants
  <2> QED BY <1>1, <2>1, <2>2, <2>3, <2>4
<1>4. (f.poolStart > 0 => f.poolNext > 0) /\ f.poolNext \notin DOMAIN m
  <2>1. f.poolNext >= f.poolStart
    <3>1. f.allocated * PageSize \in Nat
      BY <1>1, Constants
    <3> QED BY <1>1, <3>1 DEF PoolInv
  <2> QED BY <1>1, <2>1 DEF PoolInv
<1>5. ~(f.poolNext > f.poolEnd - PageSize)
  BY <1>1, <1>3, Constants
<1> DEFINE s == Result(f, m, a, TRUE)
<1>6. s.info = f /\ s.mem = m /\ s.ok = TRUE
  BY DEF Result
<1>7. f.allocated < f.reserved
  BY <1>1, <1>2
<1>8. alloc_page_table_page(s)
      = Result([f EXCEPT !.poolNext = f.poolNext + PageSize, !.allocated = @ + 1],
               [b \in DOMAIN m \cup {f.poolNext} |-> IF b = f.poolNext THEN EmptyTable ELSE m[b]],
               f.poolNext, TRUE)
  BY <1>1, <1>5, <1>6 DEF alloc_page_table_page
<1> QED BY <1>1, <1>4, <1>7, <1>8

(* The pool after one more page is handed out.                             *)
LEMMA PoolGrows ==
    ASSUME NEW N \in Nat, NEW f, NEW m, PoolInv(f, m, N), f.allocated < f.reserved,
           NEW g, NEW m2,
           g = [f EXCEPT !.poolNext = f.poolNext + PageSize, !.allocated = @ + 1],
           DOMAIN m2 = DOMAIN m \cup {f.poolNext}
    PROVE  PoolInv(g, m2, N)
<1>1. f \in PagingInfo
  BY DEF PoolInv
<1>2. /\ f.poolStart \in Nat /\ f.poolNext \in Nat /\ f.allocated \in Nat
  BY <1>1 DEF PagingInfo
<1>3. f.poolNext + PageSize \in Nat /\ f.allocated + 1 \in Nat
  BY <1>2, Constants
<1>4. /\ g \in PagingInfo /\ g.poolNext = f.poolNext + PageSize
      /\ g.allocated = f.allocated + 1 /\ g.poolStart = f.poolStart
      /\ g.poolEnd = f.poolEnd /\ g.reserved = f.reserved /\ g.error = f.error
  BY <1>1, <1>3 DEF PagingInfo
<1>5. f.poolNext \notin DOMAIN m
  BY <1>2 DEF PoolInv
<1>6. IsFiniteSet(DOMAIN m2) /\ Cardinality(DOMAIN m2) = Cardinality(DOMAIN m) + 1
  BY <1>5, FS_AddElement DEF PoolInv
<1>7. g.poolNext = g.poolStart + g.allocated * PageSize
  <2>1. (f.allocated + 1) * PageSize = f.allocated * PageSize + PageSize
        /\ f.allocated * PageSize \in Nat /\ PageSize \in Nat
    BY <1>2, Constants
  <2>2. f.poolNext = f.poolStart + f.allocated * PageSize
    BY DEF PoolInv
  <2> QED BY <1>2, <1>4, <2>1, <2>2
<1>8. \A t \in DOMAIN m2 : t \in Nat /\ g.poolStart <= t /\ t < g.poolNext
  <2>1. f.poolStart <= f.poolNext
    <3>1. f.allocated * PageSize \in Nat
      BY <1>2, Constants
    <3> QED BY <1>2, <3>1 DEF PoolInv
  <2>2. \A t \in DOMAIN m : t \in Nat /\ f.poolStart <= t /\ t < f.poolNext
    BY DEF PoolInv
  <2> QED BY <1>2, <1>4, <2>1, <2>2, Constants
<1>9. g.allocated <= g.reserved
  <2>1. f.reserved \in Nat
    BY <1>1 DEF PagingInfo
  <2> QED BY <1>2, <1>4, <2>1
<1> QED BY <1>4, <1>6, <1>7, <1>8, <1>9 DEF PoolInv

(* ensure_next_table goes one level down, and never fails.                 *)
LEMMA EnsureStep ==
    ASSUME NEW N \in Nat, NEW p \in TablePages, p < N, NEW l \in 2 .. 4, NEW f0, NEW D, NEW U,
           NEW s, Walked(s, N, D, U, p, l, f0)
    PROVE  Walked(ensure_next_table(s, Index(p * PageSize, l)), N, D, U, p, l - 1, f0)
<1> DEFINE n == Index(p * PageSize, l)
           f == s.info
           m == s.mem
           a == s.at
           r == ensure_next_table(s, n)
<1>1. n \in 0 .. Entries - 1 /\ p \in Nat /\ l \in 1 .. 4 /\ l - 1 \in 1 .. 4 /\ l - 1 \in 1 .. 3
      /\ l > 1
  BY Digits
<1>2. p \div Span(l - 1) = (p \div Span(l)) * Entries + n /\ p \div Span(l) \in Nat
      /\ p \div Span(l - 1) \in Nat
  BY <1>1, Digits
<1>3. s = Result(f, m, a, TRUE) /\ PoolInv(f, m, N) /\ f.poolStart > 0
      /\ f.cr3 = f0.cr3 /\ f.mappedPages = f0.mappedPages
      /\ f.poolStart = f0.poolStart /\ f.reserved = f0.reserved
  BY DEF Walked
<1>4. PICK lev, pre : /\ WellBuilt(m, f.cr3, lev, pre, N, D, U)
                      /\ a \in DOMAIN m /\ lev[a] = l /\ pre[a] = p \div Span(l)
  BY DEF Walked
<1>5. s.ok = TRUE
  BY <1>3 DEF Result
<1>6. /\ lev \in [DOMAIN m -> 1 .. 4] /\ pre \in [DOMAIN m -> Nat]
      /\ Tree(m, f.cr3, lev, pre, N) /\ Leaves(m, lev, pre, D, U)
  BY <1>4 DEF WellBuilt
<1>7. m \in [DOMAIN m -> Table]
  BY <1>6 DEF Tree
<1> HIDE DEF n, f, m, a
<1>8. CASE m[a][n].present
  <2>1. r = Result(f, m, m[a][n].addr, TRUE)
    BY <1>5, <1>8 DEF ensure_next_table, f, m, a
  <2>2. /\ m[a][n].addr \in DOMAIN m
        /\ lev[m[a][n].addr] = l - 1 /\ pre[m[a][n].addr] = (p \div Span(l)) * Entries + n
    BY <1>1, <1>4, <1>6, <1>8 DEF Tree
  <2> HIDE DEF r
  <2>3. r.info = f /\ r.mem = m /\ r.at = m[a][n].addr
    BY <2>1 DEF Result
  <2>4. r = Result(r.info, r.mem, r.at, TRUE)
    BY <2>1, <2>3
  <2>5. Walked(r, N, D, U, p, l - 1, f0)
    BY <1>2, <1>3, <1>4, <2>2, <2>3, <2>4 DEF Walked
  <2> QED BY <2>5 DEF r, n
<1>9. CASE ~m[a][n].present
  <2> DEFINE x == pre[a] * Entries + n
             new == f.poolNext
             g == [f EXCEPT !.poolNext = f.poolNext + PageSize, !.allocated = @ + 1]
             m1 == [b \in DOMAIN m \cup {new} |-> IF b = new THEN EmptyTable ELSE m[b]]
  <2>1. x \in Nat /\ x = p \div Span(l - 1) /\ x < TablesFor(N, l - 1)
    <3>1. p \div Span(l - 1) < TablesFor(N, l - 1)
      BY <1>1, TableCounts
    <3> QED BY <1>2, <1>4, <3>1
  <2>2. \A t \in DOMAIN m : ~(lev[t] = l - 1 /\ pre[t] = x)
    BY <1>1, <1>4, <1>6, <1>9, AbsentIsUncovered
  <2>3. Cardinality(DOMAIN m) < 1 + TablesFor(N, 3) + TablesFor(N, 2) + TablesFor(N, 1)
    <3>1. IsFiniteSet(DOMAIN m)
      BY <1>3 DEF PoolInv
    <3>2. /\ \A t \in DOMAIN m : pre[t] < TablesFor(N, lev[t])
          /\ \A t, u \in DOMAIN m : lev[t] = lev[u] /\ pre[t] = pre[u] => t = u
      BY <1>6 DEF Tree
    <3> HIDE DEF x
    <3> QED BY <1>1, <1>6, <2>1, <2>2, <3>1, <3>2, RoomLeft
  <2>4. /\ new \in Nat /\ new > 0 /\ new \notin DOMAIN m /\ f.allocated < f.reserved
        /\ alloc_page_table_page(s) = Result(g, m1, new, TRUE)
    BY <1>3, <2>3, AllocSucceeds
  <2> HIDE DEF g, m1, new
  <2>5. r = Result(g, Hang(m, a, n, new), new, TRUE)
    <3> DEFINE t == alloc_page_table_page(s)
    <3>1. t.info = g /\ t.mem = m1 /\ t.at = new
      BY <2>4 DEF Result
    <3> HIDE DEF t
    <3>2. t.at # 0
      BY <2>4, <3>1
    <3>3. r = Result(t.info, [t.mem EXCEPT ![a][n] = Entry(t.at, FALSE)], t.at, TRUE)
      BY <1>5, <1>9, <3>2 DEF ensure_next_table, t, a, m
    <3>4. [m1 EXCEPT ![a][n] = Entry(new, FALSE)] = Hang(m, a, n, new)
      BY DEF Hang, m1
    <3> QED BY <3>1, <3>3, <3>4
  <2> HIDE DEF r
  <2>6. WellBuilt(Hang(m, a, n, new), f.cr3, Extend(lev, new, l - 1), Extend(pre, new, x), N, D, U)
    BY <1>1, <1>4, <1>6, <1>9, <2>1, <2>4, HangKeepsTree
  <2>7. DOMAIN Hang(m, a, n, new) = DOMAIN m \cup {new}
    BY DEF Hang
  <2>8. PoolInv(g, Hang(m, a, n, new), N)
    BY <1>3, <2>4, <2>7, PoolGrows DEF g, new
  <2>9. g.cr3 = f.cr3 /\ g.mappedPages = f.mappedPages /\ g.poolStart = f.poolStart
        /\ g.reserved = f.reserved
    <3>1. f \in PagingInfo
      BY <1>3 DEF PoolInv
    <3> QED BY <3>1 DEF g, PagingInfo
  <2>10. Extend(lev, new, l - 1)[new] = l - 1 /\ Extend(pre, new, x)[new] = p \div Span(l - 1)
    BY <2>1 DEF Extend
  <2>11. r.info = g /\ r.mem = Hang(m, a, n, new) /\ r.at = new
    BY <2>5 DEF Result
  <2>12. r = Result(r.info, r.mem, r.at, TRUE)
    BY <2>5, <2>11
  <2>13. PoolInv(r.info, r.mem, N) /\ r.info.poolStart > 0
         /\ r.info.cr3 = f0.cr3 /\ r.info.mappedPages = f0.mappedPages
         /\ r.info.poolStart = f0.poolStart /\ r.info.reserved = f0.reserved
    BY <1>3, <2>8, <2>9, <2>11
  <2>14. WellBuilt(r.mem, r.info.cr3, Extend(lev, new, l - 1), Extend(pre, new, x), N, D, U)
    BY <2>6, <2>9, <2>11
  <2>15. r.at \in DOMAIN r.mem
    BY <2>7, <2>11
  <2>16. Walked(r, N, D, U, p, l - 1, f0)
    BY <2>10, <2>11, <2>12, <2>13, <2>14, <2>15 DEF Walked
  <2> QED BY <2>16 DEF r, n
<1> QED BY <1>8, <1>9

(* The three levels of map_identity_range_4k lead from the root to the     *)
(* table of page p.                                                        *)
LEMMA WalkDown ==
    ASSUME NEW N \in Nat, NEW p \in TablePages, p < N, NEW f0, NEW D, NEW U,
           NEW s, Walked(s, N, D, U, p, 4, f0)
    PROVE  Walked(ensure_next_table(
                    ensure_next_table(
                      ensure_next_table(s, Index(p * PageSize, 4)),
                      Index(p * PageSize, 3)), Index(p * PageSize, 2)), N, D, U, p, 1, f0)
<1> DEFINE s3 == ensure_next_table(s, Index(p * PageSize, 4))
           s2 == ensure_next_table(s3, Index(p * PageSize, 3))
           s1 == ensure_next_table(s2, Index(p * PageSize, 2))
<1>1. 4 - 1 = 3 /\ 3 - 1 = 2 /\ 2 - 1 = 1 /\ 2 \in 2 .. 4 /\ 3 \in 2 .. 4 /\ 4 \in 2 .. 4
  OBVIOUS
<1>2. Walked(s3, N, D, U, p, 3, f0)
  <2>1. Walked(s3, N, D, U, p, 4 - 1, f0)
    BY <1>1, EnsureStep
  <2> QED BY <1>1, <2>1
<1> HIDE DEF s3
<1>3. Walked(s2, N, D, U, p, 2, f0)
  <2>1. Walked(s2, N, D, U, p, 3 - 1, f0)
    BY <1>1, <1>2, EnsureStep
  <2> QED BY <1>1, <2>1
<1> HIDE DEF s2
<1>4. Walked(s1, N, D, U, p, 1, f0)
  <2>1. Walked(s1, N, D, U, p, 2 - 1, f0)
    BY <1>1, <1>3, EnsureStep
  <2> QED BY <1>1, <2>1
<1> QED BY <1>4 DEF s1, s2, s3

(* Entry e maps page p to itself, on top of the pages D and, of them, U.   *)
MapsPage(e, p, D, U, D2, U2) ==
    /\ e \in PageEntry /\ e.present /\ e.addr = p * PageSize /\ (e.uncached <=> p \in U2)
    /\ D2 = D \cup {p} /\ \A q : q # p => (q \in U <=> q \in U2)
Write(m, a, n, e) == [m EXCEPT ![a][n] = e]

(* m2 is the tree m with the entry e of page p stored in table a.          *)
Writes(S, m, root, N, lev, pre, D, U, p, a, e, D2, U2, m2) ==
    /\ m \in [S -> Table] /\ N \in Nat /\ D \in SUBSET Nat
    /\ WellBuilt(m, root, lev, pre, N, D, U)
    /\ p \in TablePages /\ a \in S /\ lev[a] = 1 /\ pre[a] = p \div Span(1)
    /\ MapsPage(e, p, D, U, D2, U2) /\ m2 = Write(m, a, Index(p * PageSize, 1), e)

(* Writing the entry of page p maps p, and changes nothing else.           *)
LEMMA WriteLeaf ==
    ASSUME NEW S, NEW m, NEW root, NEW N, NEW lev, NEW pre, NEW D, NEW U, NEW p, NEW a,
           NEW e, NEW D2, NEW U2, NEW m2,
           Writes(S, m, root, N, lev, pre, D, U, p, a, e, D2, U2, m2)
    PROVE  WellBuilt(m2, root, lev, pre, N, D2, U2) /\ DOMAIN m2 = S
<1> SUFFICES ASSUME m \in [S -> Table], N \in Nat, D \in SUBSET Nat,
                    WellBuilt(m, root, lev, pre, N, D, U),
                    p \in TablePages, a \in S, lev[a] = 1, pre[a] = p \div Span(1),
                    MapsPage(e, p, D, U, D2, U2), m2 = Write(m, a, Index(p * PageSize, 1), e)
             PROVE  WellBuilt(m2, root, lev, pre, N, D2, U2) /\ DOMAIN m2 = S
  BY DEF Writes
<1> DEFINE n == Index(p * PageSize, 1)
           Ix == 0 .. Entries - 1
<1>1. n \in Ix /\ p \in Nat /\ p = pre[a] * Entries + n /\ p \div Entries = pre[a]
      /\ p * PageSize \in Nat
  BY Digits, Spans, Multiples
<1>2. e \in PageEntry /\ e.present /\ e.addr = p * PageSize /\ (e.uncached <=> p \in U2)
  BY DEF MapsPage
<1>3. /\ lev \in [S -> 1 .. 4] /\ pre \in [S -> Nat]
      /\ Tree(m, root, lev, pre, N) /\ Leaves(m, lev, pre, D, U) /\ DOMAIN m = S
  BY DEF WellBuilt
<1>0. D2 = D \cup {p} /\ \A q : q # p => (q \in U <=> q \in U2)
  BY DEF MapsPage
<1> HIDE DEF n
<1>4. /\ DOMAIN m2 = S /\ m2 \in [S -> Table] /\ m2[a][n] = e
      /\ \A b \in S : \A k \in Ix : ~(b = a /\ k = n) => m2[b][k] = m[b][k]
  <2>1. m2 = [m EXCEPT ![a][n] = e] /\ DOMAIN m2 = S
    BY DEF n, Write
  <2>2. m2[a] = [m[a] EXCEPT ![n] = e] /\ \A b \in S : b # a => m2[b] = m[b]
    BY <2>1
  <2> DEFINE row == m[a]
  <2>3. row \in [Ix -> PageEntry] /\ m2[a] = [row EXCEPT ![n] = e]
    BY <2>2 DEF Table
  <2> HIDE DEF row
  <2> DEFINE row2 == m2[a]
  <2>a. row2 = [row EXCEPT ![n] = e] /\ row \in [Ix -> PageEntry] /\ e \in PageEntry /\ n \in Ix
    BY <1>1, <1>2, <2>3
  <2> HIDE DEF row2
  <2>b. row2 \in [Ix -> PageEntry] /\ row2[n] = e /\ \A k \in Ix : k # n => row2[k] = row[k]
    BY ONLY <2>a
  <2>4. m2[a] \in [Ix -> PageEntry] /\ m2[a][n] = e /\ \A k \in Ix : k # n => m2[a][k] = m[a][k]
    BY <2>b DEF row2, row
  <2>5. \A b \in S : m2[b] \in Table
    BY <2>2, <2>4 DEF Table
  <2>6. m2 \in [S -> Table]
    BY <2>1, <2>5
  <2>7. \A b \in S : \A k \in Ix : ~(b = a /\ k = n) => m2[b][k] = m[b][k]
    BY <2>2, <2>4
  <2> QED BY <2>1, <2>4, <2>6, <2>7
<1>5. \A b \in S : \A k \in Ix : lev[b] > 1 => m2[b][k] = m[b][k]
  BY <1>4
<1>6. Tree(m2, root, lev, pre, N)
  <2>1. root \in S /\ lev[root] = 4 /\ (\A t \in S : pre[t] < TablesFor(N, lev[t]))
        /\ (\A t, v \in S : lev[t] = lev[v] /\ pre[t] = pre[v] => t = v)
    BY <1>3 DEF Tree
  <2>2. ASSUME NEW t \in S, NEW k \in Ix, lev[t] > 1, m2[t][k].present
        PROVE  /\ m2[t][k].addr \in S
               /\ lev[m2[t][k].addr] = lev[t] - 1 /\ pre[m2[t][k].addr] = pre[t] * Entries + k
    <3>1. m2[t][k] = m[t][k]
      BY <1>5, <2>2
    <3> QED BY <1>3, <2>2, <3>1 DEF Tree
  <2>3. ASSUME NEW t \in S \ {root}
        PROVE  \E v \in S : \E k \in Ix : lev[v] > 1 /\ m2[v][k].present /\ m2[v][k].addr = t
    <3>1. PICK v \in S, k \in Ix : lev[v] > 1 /\ m[v][k].present /\ m[v][k].addr = t
      BY <1>3 DEF Tree
    <3>2. m2[v][k] = m[v][k]
      BY <1>5, <3>1
    <3> QED BY <3>1, <3>2
  <2> QED BY <1>4, <2>1, <2>2, <2>3 DEF Tree
<1>7. ASSUME NEW t \in S, NEW k \in Ix, lev[t] = 1
      PROVE  LET q == pre[t] * Entries + k
             IN  /\ m2[t][k].present <=> q \in D \cup {p}
                 /\ m2[t][k].present => /\ m2[t][k].addr = q * PageSize
                                        /\ m2[t][k].uncached <=> q \in U2
  <2>1. CASE t = a /\ k = n
    BY <1>0, <1>1, <1>2, <1>4, <2>1
  <2>2. CASE ~(t = a /\ k = n)
    <3> DEFINE q == pre[t] * Entries + k
    <3>1. m2[t][k] = m[t][k]
      BY <1>4, <2>2
    <3>2. q # p
      <4>1. SUFFICES ASSUME q = p PROVE FALSE
        OBVIOUS
      <4>2. pre[t] \in Nat /\ pre[a] \in Nat /\ pre[t] * Entries + k = pre[a] * Entries + n
        BY <1>1, <1>3, <4>1
      <4>3. pre[t] = pre[a] /\ k = n
        BY <1>1, <4>2, DigitsUnique
      <4>4. t = a
        BY <1>3, <1>7, <4>3 DEF Tree
      <4> QED BY <2>2, <4>3, <4>4
    <3>3. /\ m[t][k].present <=> q \in D
          /\ m[t][k].present => m[t][k].addr = q * PageSize /\ (m[t][k].uncached <=> q \in U)
      BY <1>3, <1>7 DEF Leaves
    <3> HIDE DEF q
    <3>4. q \in D => (q \in U <=> q \in U2)
      BY <1>0, <3>2
    <3>5. /\ m2[t][k].present <=> q \in D \cup {p}
          /\ m2[t][k].present => m2[t][k].addr = q * PageSize /\ (m2[t][k].uncached <=> q \in U2)
      BY <3>1, <3>2, <3>3, <3>4
    <3> QED BY <3>5 DEF q
  <2> QED BY <2>1, <2>2
<1>8. \A q \in D \cup {p} : \E t \in S : lev[t] = 1 /\ pre[t] = q \div Entries
  BY <1>1, <1>3 DEF Leaves
<1>9. Leaves(m2, lev, pre, D2, U2)
  BY <1>0, <1>4, <1>7, <1>8 DEF Leaves
<1> QED BY <1>3, <1>4, <1>6, <1>9 DEF WellBuilt

-----------------------------------------------------------------------------
(* Ranges.                                                                 *)

(* Rounding up to a page reaches the end, and no page beyond it.           *)
LEMMA AlignUp ==
    ASSUME NEW x \in Nat
    PROVE  /\ align_up_4k(x) \in Nat /\ x <= align_up_4k(x)
           /\ \A q \in Nat : q * PageSize < align_up_4k(x) => q * PageSize < x
<1>1. CASE x = 0
  BY <1>1 DEF align_up_4k
<1>2. CASE x # 0
  <2> DEFINE y == x + PageSize - 1
             z == y \div PageSize
  <2>1. y \in Nat /\ PageSize \in Nat \ {0}
    BY <1>2, Constants
  <2>2. z \in Nat /\ y % PageSize \in 0 .. PageSize - 1 /\ y = PageSize * z + (y % PageSize)
    BY <2>1, DivMod
  <2>3. align_up_4k(x) = y - (y % PageSize)
    BY <1>2 DEF align_up_4k, align_down_4k
  <2>4. PageSize * z \in Nat /\ PageSize * z = z * PageSize
    BY <2>1, <2>2
  <2>5. y = x + PageSize - 1
    OBVIOUS
  <2> HIDE DEF z, y
  <2>6. align_up_4k(x) = z * PageSize
    BY <2>1, <2>2, <2>3, <2>4
  <2>7. x <= z * PageSize
    BY <2>1, <2>2, <2>4, <2>5
  <2>8. ASSUME NEW q \in Nat, q * PageSize < z * PageSize PROVE q * PageSize < x
    <3>1. q < z
      <4>1. SUFFICES ASSUME z <= q PROVE FALSE
        BY <2>2
      <4>2. z * PageSize <= q * PageSize
        BY <2>1, <2>2, <4>1, MulMono
      <4>3. q * PageSize \in Nat
        BY <2>1
      <4> QED BY <2>4, <2>8, <4>2, <4>3
    <3>2. (q + 1) * PageSize <= z * PageSize
      BY <2>1, <2>2, <3>1, MulMono
    <3>3. (q + 1) * PageSize = q * PageSize + PageSize /\ q * PageSize \in Nat
      BY <2>1
    <3> QED BY <2>1, <2>2, <2>4, <2>5, <3>2, <3>3
  <2> QED BY <2>4, <2>6, <2>7, <2>8
<1> QED BY <1>1, <1>2

(* Pages compare as their addresses do.                                    *)
LEMMA PageOrder ==
    ASSUME NEW p \in Nat, NEW q \in Nat
    PROVE  /\ p * PageSize < q * PageSize <=> p < q
           /\ p * PageSize \in Nat /\ q * PageSize \in Nat
           /\ (p + 1) * PageSize = p * PageSize + PageSize
<1>1. PageSize \in Nat \ {0}
  BY Constants
<1>2. p * PageSize \in Nat /\ q * PageSize \in Nat
      /\ (p + 1) * PageSize = p * PageSize + PageSize
  BY <1>1
<1>3. ASSUME p < q PROVE p * PageSize < q * PageSize
  <2>1. (p + 1) * PageSize <= q * PageSize
    BY <1>1, <1>3, MulMono
  <2> QED BY <1>1, <1>2, <2>1
<1>4. ASSUME q <= p PROVE q * PageSize <= p * PageSize
  BY <1>1, <1>4, MulMono
<1> QED BY <1>2, <1>3, <1>4

(* What Measure has checked: every range is below the end of the low half. *)
LEMMA RangeFacts ==
    ASSUME PagingTypeOK, MapInv, MapInRange, FbInRange
    PROVE  /\ Len(map) \in Nat /\ framebuffer_size_bytes \in Nat /\ fb.base \in Nat
           /\ \A k \in Ranges : /\ From(k) \in Nat /\ Bytes(k) \in Nat
                                /\ From(k) + Bytes(k) <= LowLimit
<1>1. map \in Seq(Descriptor) /\ Len(map) \in Nat /\ DOMAIN map = 1 .. Len(map)
      /\ \A k \in DOMAIN map : map[k] \in Descriptor
  BY DEF MapInv
<1>2. fb \in [base : Nat, size : Nat, stride : Nat, height : Nat]
  BY PagingAssumption DEF PagingTypeOK, PagingAssumption
<1>3. framebuffer_size_bytes \in Nat /\ fb.base \in Nat
  <2>1. fb.base \in Nat /\ fb.size \in Nat /\ fb.stride \in Nat /\ fb.height \in Nat
    BY <1>2
  <2>2. fb.stride * fb.height \in Nat
    BY <2>1
  <2>3. fb.stride * fb.height * 4 \in Nat
    BY <2>2
  <2> QED BY <2>1, <2>3 DEF framebuffer_size_bytes
<1>4. ASSUME NEW k \in Ranges
      PROVE  From(k) \in Nat /\ Bytes(k) \in Nat /\ From(k) + Bytes(k) <= LowLimit
  <2>0. k \in Nat
    BY <1>1 DEF Ranges
  <2>1. CASE k <= Len(map)
    <3>1. k \in DOMAIN map
      BY <1>1, <2>1 DEF Ranges
    <3>2. map[k].start \in Nat /\ map[k].pages \in Nat /\ map[k].pages * PageSize \in Nat
      BY <1>1, <3>1, Constants DEF Descriptor
    <3>3. map[k].start + map[k].pages * PageSize <= LowLimit
      BY <3>1 DEF MapInRange, EndOf
    <3> QED BY <2>1, <3>2, <3>3 DEF From, Bytes
  <2>2. CASE k > Len(map)
    <3>1. fb.base + framebuffer_size_bytes \in Nat
      BY <1>3
    <3>2. align_up_4k(fb.base + framebuffer_size_bytes) \in Nat
          /\ fb.base + framebuffer_size_bytes <= align_up_4k(fb.base + framebuffer_size_bytes)
      BY <3>1, AlignUp
    <3>3. align_up_4k(fb.base + framebuffer_size_bytes) <= LowLimit
      BY DEF FbInRange
    <3>4. LowLimit \in Nat
      BY LowHalf
    <3>5. From(k) = fb.base /\ Bytes(k) = framebuffer_size_bytes
      BY <1>1, <2>0, <2>2 DEF From, Bytes
    <3> HIDE DEF framebuffer_size_bytes
    <3> QED BY <1>3, <3>1, <3>2, <3>3, <3>4, <3>5
  <2> QED BY <1>1, <2>0, <2>1, <2>2
<1> QED BY <1>1, <1>3, <1>4

(* A page whose address lies in a range is a page of the low half.         *)
LEMMA PageInRange ==
    ASSUME PagingTypeOK, MapInv, MapInRange, FbInRange, NEW k \in Ranges, Bytes(k) # 0,
           NEW q \in Nat, From(k) \div PageSize <= q, q * PageSize < From(k) + Bytes(k)
    PROVE  q \in RangeOf(k)
<1>1. From(k) \in Nat /\ Bytes(k) \in Nat /\ From(k) + Bytes(k) <= LowLimit
  BY RangeFacts
<1>2. LowEnd \in Nat /\ LowLimit = LowEnd * PageSize /\ LowPages = 0 .. LowEnd - 1
  BY LowHalf
<1>3. LowEnd * PageSize \in Nat /\ q * PageSize \in Nat
  BY <1>2, PageOrder
<1>4. q * PageSize < LowEnd * PageSize
  BY <1>1, <1>2, <1>3
<1>5. q < LowEnd
  BY <1>2, <1>4, PageOrder
<1>6. q \in LowPages
  BY <1>2, <1>5
<1> QED BY <1>6 DEF RangeOf

(* The ranges do not change while they are mapped.                         *)
LEMMA RangesKept ==
    ASSUME UNCHANGED <<map, fb>>
    PROVE  /\ Ranges' = Ranges /\ FbInRange' = FbInRange /\ MapInRange' = MapInRange
           /\ framebuffer_size_bytes' = framebuffer_size_bytes
           /\ \A k : /\ RangeOf(k)' = RangeOf(k) /\ From(k)' = From(k) /\ Bytes(k)' = Bytes(k)
                     /\ Uncached(k)' = Uncached(k)
<1>1. framebuffer_size_bytes' = framebuffer_size_bytes
  BY DEF framebuffer_size_bytes
<1>2. ASSUME NEW k
      PROVE  From(k)' = From(k) /\ Bytes(k)' = Bytes(k) /\ Uncached(k)' = Uncached(k)
  BY <1>1 DEF From, Bytes, Uncached
<1>3. ASSUME NEW k PROVE RangeOf(k)' = RangeOf(k)
  BY <1>2 DEF RangeOf
<1> QED BY <1>1, <1>2, <1>3 DEF Ranges, FbInRange, MapInRange

(* One turn of the loop adds the page it is at, and stays in a range or    *)
(* has finished it.                                                        *)
LEMMA PagesAfterMap ==
    ASSUME PagingTypeOK, MapInv, LoopInv, MapInRange, FbInRange, pc = "page",
           UNCHANGED <<map, fb>>, addr' = addr + PageSize,
           IF addr' < Until THEN UNCHANGED <<i, pc>> ELSE NextRange
    PROVE  LET p == addr \div PageSize
           IN  /\ p \in LowPages /\ addr = p * PageSize /\ i \in Ranges /\ p \in RangeOf(i)
               /\ MappedPages' = MappedPages \cup {p}
               /\ UncachedPages' = UncachedPages \cup (IF Uncached(i) THEN {p} ELSE {})
               /\ LoopInv' /\ i' \in Nat \ {0} /\ addr' \in Nat
               /\ pc' \in {"page", "range", "load"}
<1> DEFINE p == addr \div PageSize
           X == From(i) + Bytes(i)
<1>1. i \in Ranges /\ Bytes(i) # 0 /\ addr % PageSize = 0 /\ p \in RangeOf(i) /\ addr \in Nat
  BY DEF LoopInv, PagingTypeOK
<1>2. p \in Nat /\ addr = p * PageSize
  BY <1>1, IsMultiple
<1>3. p \in LowPages /\ From(i) \div PageSize <= p /\ p * PageSize < X
  BY <1>1 DEF RangeOf
<1>4. /\ Len(map) \in Nat /\ From(i) \in Nat /\ Bytes(i) \in Nat /\ X \in Nat
  BY <1>1, RangeFacts
<1>5. i \in Nat \ {0} /\ i <= Len(map) + 1
  BY <1>1, <1>4 DEF Ranges
<1>6. Until = align_up_4k(X)
  BY DEF Until
<1>7. addr' = (p + 1) * PageSize /\ p + 1 \in Nat /\ (p + 1) * PageSize \in Nat
  BY <1>2, PageOrder
<1>8. LowPages \subseteq Nat
  BY LowHalf
<1> HIDE DEF p, X
<1>9. \A q \in Nat : q * PageSize < addr' <=> q <= p
  BY <1>2, <1>7, PageOrder
<1>10. \A q \in Nat : q * PageSize < addr <=> q < p
  BY <1>2, PageOrder
<1>11. ASSUME addr' < Until
       PROVE  /\ LoopInv' /\ i' \in Nat \ {0} /\ pc' \in {"page", "range", "load"}
              /\ \A k \in Ranges, q \in LowPages :
                    Reached(k, q)' <=> Reached(k, q) \/ (k = i /\ q = p)
  <2>1. i' = i /\ pc' = "page"
    BY <1>11
  <2>2. (p + 1) * PageSize < X
    BY <1>4, <1>6, <1>7, <1>11, AlignUp
  <2>3. From(i) \div PageSize <= p + 1
    <3>1. From(i) \div PageSize \in Nat
      BY <1>4, Constants, DivMod
    <3> QED BY <1>2, <1>3, <3>1
  <2>4. p + 1 \in RangeOf(i)
    BY <1>1, <1>7, <2>2, <2>3, PageInRange DEF X
  <2>5. addr' % PageSize = 0 /\ addr' \div PageSize = p + 1
    BY <1>7, Multiples
  <2>6. LoopInv'
    <3>1. (i \in Ranges /\ Bytes(i) # 0)' /\ (addr \div PageSize \in RangeOf(i))'
      <4>1. Ranges' = Ranges /\ \A k : RangeOf(k)' = RangeOf(k) /\ Bytes(k)' = Bytes(k)
        BY RangesKept
      <4>2. (Bytes(i))' = Bytes(i) /\ (RangeOf(i))' = RangeOf(i)
        BY <2>1, RangesKept DEF RangeOf, Bytes, From
      <4> QED BY <1>1, <2>1, <2>4, <2>5, <4>1, <4>2
    <3> QED BY <2>1, <2>5, <3>1 DEF LoopInv
  <2>7. ASSUME NEW k \in Ranges, NEW q \in LowPages
        PROVE  Reached(k, q)' <=> Reached(k, q) \/ (k = i /\ q = p)
    <3>1. RangeOf(k)' = RangeOf(k) /\ q \in Nat
      BY <1>8, RangesKept
    <3>2. (q * PageSize < addr')  <=> q * PageSize < addr \/ q = p
      BY <1>2, <1>9, <1>10, <3>1
    <3> QED BY <1>1, <2>1, <3>1, <3>2 DEF Reached
  <2> QED BY <1>5, <2>1, <2>6, <2>7
<1>12. ASSUME ~(addr' < Until)
       PROVE  /\ LoopInv' /\ i' \in Nat \ {0} /\ pc' \in {"page", "range", "load"}
              /\ \A k \in Ranges, q \in LowPages :
                    Reached(k, q)' <=> Reached(k, q) \/ (k = i /\ q = p)
  <2>1. i' = i + 1 /\ pc' = (IF i > Len(map) THEN "load" ELSE "range")
    BY <1>12 DEF NextRange
  <2>2. LoopInv'
    <3>1. Ranges' = Ranges /\ Len(map)' = Len(map)
      BY RangesKept
    <3>2. CASE i > Len(map)
      <4>1. i' = Len(map)' + 2 /\ pc' = "load"
        BY <1>4, <1>5, <2>1, <3>1, <3>2
      <4> QED BY <4>1 DEF LoopInv
    <3>3. CASE ~(i > Len(map))
      <4>1. i' \in Ranges' /\ pc' = "range"
        BY <1>4, <1>5, <2>1, <3>1, <3>3 DEF Ranges
      <4> QED BY <4>1 DEF LoopInv
    <3> QED BY <3>2, <3>3
  <2>3. \A q \in RangeOf(i) : q <= p
    <3> SUFFICES ASSUME NEW q \in RangeOf(i) PROVE q <= p
      OBVIOUS
    <3>1. q \in Nat /\ q * PageSize < X /\ q * PageSize \in Nat
      BY <1>8, PageOrder DEF RangeOf, X
    <3>2. X <= Until /\ Until \in Nat
      BY <1>4, <1>6, AlignUp
    <3>3. q * PageSize < addr'
      BY <1>4, <1>7, <1>12, <3>1, <3>2
    <3> QED BY <1>9, <3>1, <3>3
  <2>4. ASSUME NEW k \in Ranges, NEW q \in LowPages
        PROVE  Reached(k, q)' <=> Reached(k, q) \/ (k = i /\ q = p)
    <3>1. RangeOf(k)' = RangeOf(k) /\ q \in Nat /\ k \in Nat
      BY <1>4, <1>8, RangesKept DEF Ranges
    <3>2. pc' # "page"
      BY <2>1
    <3>3. Reached(k, q)' <=> q \in RangeOf(k) /\ k < i + 1
      BY <1>5, <2>1, <3>1, <3>2 DEF Reached
    <3>4. CASE k = i
      <4>1. Reached(k, q) <=> q \in RangeOf(i) /\ q < p
        BY <1>5, <1>10, <3>1, <3>4 DEF Reached
      <4>2. q \in RangeOf(i) <=> (q \in RangeOf(i) /\ q < p) \/ q = p
        BY <1>1, <1>2, <2>3, <3>1
      <4> QED BY <1>5, <3>3, <3>4, <4>1, <4>2
    <3>5. CASE k # i
      BY <1>5, <3>1, <3>3, <3>5 DEF Reached
    <3> QED BY <3>4, <3>5
  <2> QED BY <1>5, <2>1, <2>2, <2>4
<1>13. /\ LoopInv' /\ i' \in Nat \ {0} /\ pc' \in {"page", "range", "load"}
       /\ \A k \in Ranges, q \in LowPages :
             Reached(k, q)' <=> Reached(k, q) \/ (k = i /\ q = p)
  BY <1>11, <1>12
<1>14. MappedPages' = MappedPages \cup {p}
  <2>1. MappedPages' = { q \in LowPages : \E k \in Ranges : Reached(k, q)' }
    BY RangesKept DEF MappedPages
  <2> QED BY <1>1, <1>3, <1>13, <2>1 DEF MappedPages
<1>15. UncachedPages' = UncachedPages \cup (IF Uncached(i) THEN {p} ELSE {})
  <2>1. UncachedPages' = { q \in LowPages : \E k \in Ranges : Reached(k, q)' /\ Uncached(k) }
    BY RangesKept DEF UncachedPages
  <2> QED BY <1>1, <1>3, <1>13, <2>1 DEF UncachedPages
<1> QED BY <1>1, <1>2, <1>3, <1>7, <1>13, <1>14, <1>15 DEF p

-----------------------------------------------------------------------------
(* The steps.                                                              *)

(* The low half is finite.                                                 *)
LEMMA LowFinite ==
    ASSUME NEW D \in SUBSET LowPages
    PROVE  IsFiniteSet(D) /\ Cardinality(D) \in Nat
<1>1. IsFiniteSet(LowPages)
  <2>1. LowEnd \in Nat /\ LowPages = 0 .. LowEnd - 1
    BY LowHalf
  <2>2. 0 \in Int /\ LowEnd - 1 \in Int
    BY <2>1
  <2> QED BY <2>1, <2>2, FS_Interval
<1>2. IsFiniteSet(D)
  BY <1>1, FS_Subset
<1> QED BY <1>2, FS_CardinalityType

(* A turn of the loop of map_identity_range_4k neither runs out of tables  *)
(* nor meets a foreign entry: it maps the page and counts it once.         *)
LEMMA MapPageWrites ==
    ASSUME NEW N \in Nat, NEW p \in LowPages, p < N, addr = p * PageSize,
           NEW D \in SUBSET LowPages, NEW U, U \subseteq D,
           PoolInv(info, mem, N), info.poolStart > 0, info.mappedPages = Cardinality(D),
           NEW lev, NEW pre, WellBuilt(mem, info.cr3, lev, pre, N, D, U),
           MapPage
    PROVE  /\ addr' = addr + PageSize
           /\ IF addr' < Until THEN UNCHANGED <<i, pc>> ELSE NextRange
           /\ PoolInv(info', mem', N)
           /\ info'.cr3 = info.cr3 /\ info'.poolStart = info.poolStart
           /\ info'.reserved = info.reserved
           /\ info'.mappedPages = Cardinality(D \cup {p})
           /\ \E lev2, pre2 : WellBuilt(mem', info'.cr3, lev2, pre2, N, D \cup {p},
                                        U \cup (IF Uncached(i) THEN {p} ELSE {}))
<1> DEFINE s == ensure_next_table(
                  ensure_next_table(
                    ensure_next_table(Here, Index(addr, 4)), Index(addr, 3)), Index(addr, 2))
           n == Index(addr, 1)
           old == s.mem[s.at][n]
           u == Uncached(i) \/ (old.present /\ old.uncached)
           D2 == D \cup {p}
           U2 == U \cup (IF Uncached(i) THEN {p} ELSE {})
<1>0. p \in TablePages /\ p \in Nat
  BY LowHalf
<1>1. Here.info = info /\ Here.mem = mem /\ Here.at = info.cr3
      /\ Here = Result(Here.info, Here.mem, Here.at, TRUE)
  BY DEF Here, Result
<1>2. Walked(Here, N, D, U, p, 4, info)
  <2>1. lev \in [DOMAIN mem -> 1 .. 4] /\ pre \in [DOMAIN mem -> Nat]
        /\ info.cr3 \in DOMAIN mem /\ lev[info.cr3] = 4
        /\ pre[info.cr3] < TablesFor(N, lev[info.cr3])
    BY DEF WellBuilt, Tree
  <2>2. pre[info.cr3] \in Nat /\ pre[info.cr3] < 1
    BY <2>1, TableCounts
  <2>3. pre[info.cr3] = p \div Span(4)
    BY <1>0, <2>2, Digits
  <2> QED BY <1>1, <2>1, <2>3 DEF Walked
<1>3. Walked(s, N, D, U, p, 1, info)
  BY <1>0, <1>2, WalkDown
<1> HIDE DEF s
<1>4. /\ s = Result(s.info, s.mem, s.at, TRUE) /\ PoolInv(s.info, s.mem, N)
      /\ s.info.cr3 = info.cr3 /\ s.info.mappedPages = info.mappedPages
      /\ s.info.poolStart = info.poolStart /\ s.info.reserved = info.reserved
  BY <1>3 DEF Walked
<1>5. PICK lev1, pre1 :
         /\ WellBuilt(s.mem, s.info.cr3, lev1, pre1, N, D, U)
         /\ s.at \in DOMAIN s.mem /\ lev1[s.at] = 1 /\ pre1[s.at] = p \div Span(1)
  BY <1>3 DEF Walked
<1>6. s.ok = TRUE
  BY <1>4 DEF Result
<1>7. n \in 0 .. Entries - 1 /\ p = pre1[s.at] * Entries + n
  BY <1>0, <1>5, Digits, Spans
<1>8. Leaves(s.mem, lev1, pre1, D, U) /\ s.mem \in [DOMAIN s.mem -> Table]
  BY <1>5 DEF WellBuilt, Tree
<1>9. /\ old.present <=> p \in D
      /\ old.present => old.addr = addr /\ (old.uncached <=> p \in U)
  BY <1>5, <1>7, <1>8 DEF Leaves
<1>10. /\ mem' = [s.mem EXCEPT ![s.at][n] = Entry(addr, u)]
       /\ info' = [s.info EXCEPT !.mappedPages = IF old.present THEN @ ELSE @ + 1]
       /\ addr' = addr + PageSize
       /\ IF addr' < Until THEN UNCHANGED <<i, pc>> ELSE NextRange
  BY <1>6, <1>9 DEF MapPage, s
<1>11. (u <=> p \in U2) /\ u \in BOOLEAN /\ \A q : q # p => (q \in U <=> q \in U2)
  BY <1>9
<1>12. MapsPage(Entry(p * PageSize, u), p, D, U, D2, U2)
  <2>1. p * PageSize \in Nat
    BY <1>0, Multiples
  <2> HIDE DEF u, U2
  <2> QED BY <1>11, <2>1 DEF MapsPage, Entry, PageEntry
<1>13. D \in SUBSET Nat
  BY LowHalf
<1> HIDE DEF U2, D2, u, old
<1>14. WellBuilt(mem', s.info.cr3, lev1, pre1, N, D2, U2) /\ DOMAIN mem' = DOMAIN s.mem
  <2> DEFINE m == s.mem
             S == DOMAIN s.mem
             a == s.at
             m2 == mem'
             root == s.info.cr3
             e == Entry(p * PageSize, u)
  <2>1. m \in [S -> Table] /\ WellBuilt(m, root, lev1, pre1, N, D, U)
        /\ a \in S /\ lev1[a] = 1 /\ pre1[a] = p \div Span(1)
        /\ m2 = Write(m, a, Index(p * PageSize, 1), e) /\ MapsPage(e, p, D, U, D2, U2)
    BY <1>5, <1>8, <1>10, <1>12 DEF Write
  <2> HIDE DEF m, S, a, m2, root, e
  <2>2. WellBuilt(m2, root, lev1, pre1, N, D2, U2) /\ DOMAIN m2 = S
    <3>1. Writes(S, m, root, N, lev1, pre1, D, U, p, a, e, D2, U2, m2)
      BY <1>0, <1>13, <2>1 DEF Writes
    <3> QED BY <3>1, WriteLeaf
  <2> QED BY <2>2 DEF m, S, a, m2, root
<1> DEFINE f == s.info
           c == IF old.present THEN f.mappedPages ELSE f.mappedPages + 1
<1>15. f \in PagingInfo /\ f.mappedPages \in Nat /\ c \in Nat
  BY <1>4 DEF PoolInv, PagingInfo
<1>16. /\ info' \in PagingInfo /\ info'.mappedPages = c
       /\ info'.cr3 = f.cr3 /\ info'.poolStart = f.poolStart /\ info'.poolEnd = f.poolEnd
       /\ info'.poolNext = f.poolNext /\ info'.allocated = f.allocated
       /\ info'.reserved = f.reserved /\ info'.error = f.error
  <2>1. info' = [f EXCEPT !.mappedPages = c]
    BY <1>10, <1>15 DEF PagingInfo
  <2> HIDE DEF f, c
  <2> QED BY <1>15, <2>1 DEF PagingInfo
<1> HIDE DEF f
<1>17. PoolInv(info', mem', N)
  <2>1. PoolInv(f, s.mem, N)
    BY <1>4 DEF f
  <2> QED BY <1>14, <1>16, <2>1 DEF PoolInv
<1>18. info'.mappedPages = Cardinality(D \cup {p})
  <2>1. IsFiniteSet(D) /\ Cardinality(D) \in Nat
    BY LowFinite
  <2>2. Cardinality(D \cup {p}) = IF p \in D THEN Cardinality(D) ELSE Cardinality(D) + 1
    BY <2>1, FS_AddElement
  <2> QED BY <1>4, <1>9, <1>16, <2>2 DEF f
<1> QED BY <1>4, <1>10, <1>14, <1>16, <1>17, <1>18 DEF f, U2, D2

(* While the tables are built the map is left alone.                       *)
LEMMA MapKept ==
    ASSUME MapInv, UNCHANGED <<map, fb, given>>, pc = "root" \/ Building,
           pc' \in {"range", "page", "load", "loaded"},
           info'.poolStart = info.poolStart, info'.reserved = info.reserved
    PROVE  MapInv'
<1>1. pc \notin {"measure", "failed", "pool"} /\ pc' \notin {"measure", "pool", "failed"}
  BY DEF Building
<1>2. MapInRange' /\ FbInRange'
  BY <1>1, RangesKept DEF MapInv
<1> QED BY <1>1, <1>2 DEF MapInv

(* The tables' invariant, with the quantified parts named.                 *)
LEMMA BuildingFacts ==
    ASSUME IInv, Building
    PROVE  /\ MapInRange /\ FbInRange
           /\ \E N \in Nat :
                 /\ Sized(N) /\ PoolInv(info, mem, N)
                 /\ info.cr3 = info.poolStart /\ info.poolStart > 0
                 /\ info.mappedPages = Cardinality(MappedPages)
                 /\ \E lev, pre : WellBuilt(mem, info.cr3, lev, pre, N, MappedPages, UncachedPages)
<1>1. MapInRange /\ FbInRange
  BY DEF IInv, MapInv, Building
<1>2. TablesInv
  BY DEF IInv
<1>3. PICK N \in Nat :
         /\ Sized(N) /\ PoolInv(info, mem, N)
         /\ Building =>
              /\ info.cr3 = info.poolStart /\ info.poolStart > 0
              /\ info.mappedPages = Cardinality(MappedPages)
              /\ \E lev \in [DOMAIN mem -> 1 .. 4], pre \in [DOMAIN mem -> Nat] :
                    /\ Tree(mem, info.cr3, lev, pre, N)
                    /\ Leaves(mem, lev, pre, MappedPages, UncachedPages)
  BY <1>2 DEF TablesInv
<1>4. \E lev, pre : WellBuilt(mem, info.cr3, lev, pre, N, MappedPages, UncachedPages)
  BY <1>3 DEF WellBuilt
<1> QED BY <1>1, <1>3, <1>4

(* ... and back, for the state after a step that stays in the loops.       *)
LEMMA BuildingStep ==
    ASSUME IInv, pc = "root" \/ Building, UNCHANGED <<map, fb, given>>,
           pc' \in {"range", "page", "load", "loaded"}, LoopInv', i' \in Nat \ {0}, addr' \in Nat,
           NEW N \in Nat, Sized(N), PoolInv(info', mem', N),
           info'.cr3 = info.poolStart, info'.poolStart = info.poolStart, info.poolStart > 0,
           info'.reserved = info.reserved, info'.mappedPages = Cardinality(MappedPages'),
           \E lev, pre : WellBuilt(mem', info'.cr3, lev, pre, N, MappedPages', UncachedPages')
    PROVE  IInv'
<1>1. MapInv'
  BY MapKept DEF IInv
<1>2. PagingTypeOK'
  BY DEF IInv, PagingTypeOK
<1>3. Sized(N)'
  BY RangesKept DEF Sized
<1>4. (\E lev \in [DOMAIN mem -> 1 .. 4], pre \in [DOMAIN mem -> Nat] :
          /\ Tree(mem, info.cr3, lev, pre, N)
          /\ Leaves(mem, lev, pre, MappedPages, UncachedPages))'
  BY DEF WellBuilt
<1>5. TablesInv'
  BY <1>3, <1>4 DEF TablesInv
<1>6. info'.error = "OK"
  BY DEF PoolInv
<1>7. PoolSuffices' /\ FailureIsNamed'
  BY <1>6 DEF PoolSuffices, FailureIsNamed
<1> QED BY <1>1, <1>2, <1>5, <1>7 DEF IInv

(* The loop of map_identity_range_4k keeps the invariant.                  *)
LEMMA MapPageKeeps ==
    ASSUME IInv, MapPage
    PROVE  IInv'
<1> DEFINE p == addr \div PageSize
           D == MappedPages
           U == UncachedPages
<1>1. pc = "page" /\ Building /\ UNCHANGED <<map, fb, given>>
  BY DEF MapPage, Building
<1>2. MapInRange /\ FbInRange /\ PagingTypeOK /\ MapInv /\ LoopInv
  BY <1>1, BuildingFacts DEF IInv
<1>3. PICK N \in Nat :
         /\ Sized(N) /\ PoolInv(info, mem, N)
         /\ info.cr3 = info.poolStart /\ info.poolStart > 0
         /\ info.mappedPages = Cardinality(D)
         /\ \E lev, pre : WellBuilt(mem, info.cr3, lev, pre, N, D, U)
  BY <1>1, BuildingFacts
<1>4. PICK lev, pre : WellBuilt(mem, info.cr3, lev, pre, N, D, U)
  BY <1>3
<1>5. i \in Ranges /\ p \in RangeOf(i) /\ p \in LowPages /\ addr = p * PageSize
  <2>1. i \in Ranges /\ p \in RangeOf(i) /\ addr % PageSize = 0 /\ addr \in Nat
    BY <1>1, <1>2 DEF LoopInv, PagingTypeOK
  <2> QED BY <2>1, IsMultiple DEF RangeOf
<1>6. p < N
  BY <1>3, <1>5 DEF Sized
<1>7. D \in SUBSET LowPages /\ U \subseteq D
  BY DEF MappedPages, UncachedPages
<1> HIDE DEF p, D, U
<1>8. /\ addr' = addr + PageSize
      /\ IF addr' < Until THEN UNCHANGED <<i, pc>> ELSE NextRange
      /\ PoolInv(info', mem', N)
      /\ info'.cr3 = info.cr3 /\ info'.poolStart = info.poolStart
      /\ info'.reserved = info.reserved
      /\ info'.mappedPages = Cardinality(D \cup {p})
      /\ \E lev2, pre2 : WellBuilt(mem', info'.cr3, lev2, pre2, N, D \cup {p},
                                   U \cup (IF Uncached(i) THEN {p} ELSE {}))
  BY <1>3, <1>4, <1>5, <1>6, <1>7, MapPageWrites
<1>9. /\ MappedPages' = D \cup {p}
      /\ UncachedPages' = U \cup (IF Uncached(i) THEN {p} ELSE {})
      /\ LoopInv' /\ i' \in Nat \ {0} /\ addr' \in Nat
      /\ pc' \in {"page", "range", "load"}
  BY <1>1, <1>2, <1>8, PagesAfterMap DEF p, D, U
<1> QED BY <1>1, <1>3, <1>8, <1>9, BuildingStep

(* Steps that write no table and reach no new page.                        *)
LEMMA NothingMapped ==
    ASSUME IInv, Building, UNCHANGED <<map, fb, given, info, mem>>,
           pc' \in {"range", "page", "load", "loaded"}, LoopInv', i' \in Nat \ {0}, addr' \in Nat,
           \A k \in Ranges, q \in LowPages : Reached(k, q)' <=> Reached(k, q)
    PROVE  IInv'
<1>1. PICK N \in Nat :
         /\ Sized(N) /\ PoolInv(info, mem, N)
         /\ info.cr3 = info.poolStart /\ info.poolStart > 0
         /\ info.mappedPages = Cardinality(MappedPages)
         /\ \E lev, pre : WellBuilt(mem, info.cr3, lev, pre, N, MappedPages, UncachedPages)
  BY BuildingFacts
<1>2. MappedPages' = MappedPages
  <2>1. MappedPages' = { q \in LowPages : \E k \in Ranges : Reached(k, q)' }
    BY RangesKept DEF MappedPages
  <2> QED BY <2>1 DEF MappedPages
<1>3. UncachedPages' = UncachedPages
  <2>1. UncachedPages' = { q \in LowPages : \E k \in Ranges : Reached(k, q)' /\ Uncached(k) }
    BY RangesKept DEF UncachedPages
  <2> QED BY <2>1 DEF UncachedPages
<1> HIDE DEF MappedPages, UncachedPages
<1> QED BY <1>1, <1>2, <1>3, BuildingStep

(* map_identity_range_4k starts at the page its range begins in, and skips *)
(* an empty range.                                                         *)
LEMMA StartRangeKeeps ==
    ASSUME IInv, StartRange
    PROVE  IInv'
<1>1. pc = "range" /\ Building /\ UNCHANGED <<map, fb, given, info, mem>>
  BY DEF StartRange, Building
<1>2. MapInRange /\ FbInRange /\ PagingTypeOK /\ MapInv /\ LoopInv
  BY <1>1, BuildingFacts DEF IInv
<1>3. i \in Ranges /\ addr \in Nat
  BY <1>1, <1>2 DEF LoopInv, PagingTypeOK
<1>4. Len(map) \in Nat /\ From(i) \in Nat /\ Bytes(i) \in Nat
  BY <1>2, <1>3, RangeFacts
<1>5. i \in Nat \ {0} /\ i <= Len(map) + 1
  BY <1>3, <1>4 DEF Ranges
<1>6. Ranges' = Ranges /\ Len(map)' = Len(map)
      /\ \A k : RangeOf(k)' = RangeOf(k) /\ Bytes(k)' = Bytes(k)
  BY <1>1, RangesKept
<1>7. CASE Bytes(i) = 0
  <2>1. i' = i + 1 /\ pc' = (IF i > Len(map) THEN "load" ELSE "range") /\ addr' = addr
    BY <1>7 DEF StartRange, NextRange
  <2>2. LoopInv'
    <3>1. CASE i > Len(map)
      <4>1. i' = Len(map)' + 2 /\ pc' = "load"
        BY <1>4, <1>5, <1>6, <2>1, <3>1
      <4> QED BY <4>1 DEF LoopInv
    <3>2. CASE ~(i > Len(map))
      <4>1. i' \in Ranges' /\ pc' = "range"
        BY <1>4, <1>5, <1>6, <2>1, <3>2 DEF Ranges
      <4> QED BY <4>1 DEF LoopInv
    <3> QED BY <3>1, <3>2
  <2>3. RangeOf(i) = {}
    BY <1>7 DEF RangeOf
  <2>4. ASSUME NEW k \in Ranges, NEW q \in LowPages
        PROVE  Reached(k, q)' <=> Reached(k, q)
    <3>1. pc' # "page" /\ k \in Nat
      BY <1>4, <2>1 DEF Ranges
    <3>2. Reached(k, q)' <=> q \in RangeOf(k) /\ k < i + 1
      BY <1>5, <1>6, <2>1, <3>1 DEF Reached
    <3>3. Reached(k, q) <=> q \in RangeOf(k) /\ k < i
      BY <1>1 DEF Reached
    <3> QED BY <1>5, <2>3, <3>1, <3>2, <3>3
  <2> QED BY <1>1, <1>3, <1>5, <2>1, <2>2, <2>4, NothingMapped
<1>8. CASE Bytes(i) # 0
  <2> DEFINE q0 == From(i) \div PageSize
  <2>1. i' = i /\ pc' = "page" /\ addr' = From(i) - (From(i) % PageSize)
    BY <1>8 DEF StartRange, align_down_4k
  <2>2. q0 \in Nat /\ From(i) % PageSize \in 0 .. PageSize - 1
        /\ From(i) = PageSize * q0 + (From(i) % PageSize)
    BY <1>4, Constants, DivMod
  <2>3. addr' = q0 * PageSize /\ q0 * PageSize <= From(i) /\ q0 * PageSize \in Nat
    <3>1. PageSize * q0 = q0 * PageSize /\ PageSize * q0 \in Nat
      BY <2>2, Constants
    <3> HIDE DEF q0
    <3> QED BY <1>4, <2>1, <2>2, <3>1
  <2>4. q0 \in RangeOf(i)
    <3>1. q0 * PageSize < From(i) + Bytes(i)
      BY <1>4, <1>8, <2>3
    <3> QED BY <1>2, <1>3, <1>8, <2>2, <3>1, PageInRange
  <2>5. addr' % PageSize = 0 /\ addr' \div PageSize = q0
    BY <2>2, <2>3, Multiples
  <2>6. LoopInv'
    <3>1. (Bytes(i))' = Bytes(i) /\ (RangeOf(i))' = RangeOf(i)
      BY <1>1, <2>1, RangesKept DEF RangeOf, Bytes, From
    <3>2. (i \in Ranges /\ Bytes(i) # 0)' /\ (addr \div PageSize \in RangeOf(i))'
      BY <1>3, <1>6, <1>8, <2>1, <2>4, <2>5, <3>1
    <3> QED BY <2>1, <2>5, <3>2 DEF LoopInv
  <2>7. ASSUME NEW k \in Ranges, NEW q \in LowPages
        PROVE  Reached(k, q)' <=> Reached(k, q)
    <3>1. k = i /\ q \in RangeOf(i) => ~(q * PageSize < addr')
      <4> SUFFICES ASSUME q \in RangeOf(i) PROVE ~(q * PageSize < q0 * PageSize)
        BY <2>3
      <4>1. q \in Nat /\ q0 <= q
        BY LowHalf DEF RangeOf
      <4> HIDE DEF q0
      <4> QED BY <2>2, <4>1, PageOrder
    <3>2. Reached(k, q) <=> q \in RangeOf(k) /\ k < i
      BY <1>1 DEF Reached
    <3> QED BY <1>6, <2>1, <3>1, <3>2 DEF Reached
  <2> QED BY <1>1, <1>5, <2>1, <2>3, <2>6, <2>7, NothingMapped
<1> QED BY <1>7, <1>8

(* Loading CR3 changes no table.                                           *)
LEMMA LoadCr3Keeps ==
    ASSUME IInv, LoadCr3
    PROVE  IInv'
<1>1. pc = "load" /\ pc' = "loaded" /\ Building /\ UNCHANGED <<map, fb, given, info, mem, i, addr>>
  BY DEF LoadCr3, Building
<1>2. LoopInv'
  BY <1>1 DEF LoopInv, IInv
<1>3. i' \in Nat \ {0} /\ addr' \in Nat
  BY <1>1 DEF IInv, PagingTypeOK
<1>4. ASSUME NEW k \in Ranges, NEW q \in LowPages
      PROVE  Reached(k, q)' <=> Reached(k, q)
  <2>1. RangeOf(k)' = RangeOf(k)
    BY <1>1, RangesKept
  <2> QED BY <1>1, <2>1 DEF Reached
<1> QED BY <1>1, <1>2, <1>3, <1>4, NothingMapped

(* The first table is the root.  A pool that starts at address 0 fails     *)
(* here, with no error recorded.                                           *)
LEMMA AllocRootKeeps ==
    ASSUME IInv, AllocRoot
    PROVE  IInv'
<1> DEFINE s == alloc_page_table_page(Here)
           g == [info EXCEPT !.poolNext = info.poolNext + PageSize, !.allocated = @ + 1]
           root == info.poolNext
           m1 == [b \in DOMAIN mem \cup {root} |-> IF b = root THEN EmptyTable ELSE mem[b]]
<1>1. /\ pc = "root" /\ UNCHANGED <<map, fb, given, i, addr>>
      /\ info' = [s.info EXCEPT !.cr3 = s.at] /\ mem' = s.mem
      /\ pc' = IF s.at = 0 THEN "failed" ELSE "range"
  BY DEF AllocRoot
<1>2. PICK N \in Nat : /\ Sized(N) /\ PoolInv(info, mem, N)
                       /\ mem = <<>> /\ info.cr3 = 0 /\ info.mappedPages = 0
  BY <1>1 DEF IInv, TablesInv
<1>3. DOMAIN mem = {} /\ Cardinality(DOMAIN mem) = 0
  BY <1>2, FS_EmptySet
<1>4. /\ info \in PagingInfo /\ info.poolStart \in Nat /\ info.poolNext = info.poolStart
      /\ info.allocated = 0 /\ info.reserved \in Nat /\ info.reserved > 0 /\ info.error = "OK"
  <2>1. info \in PagingInfo /\ info.allocated = 0 /\ info.error = "OK"
        /\ info.poolNext = info.poolStart + info.allocated * PageSize
        /\ info.reserved = 1 + TablesFor(N, 3) + TablesFor(N, 2) + TablesFor(N, 1) + Slack
    BY <1>2, <1>3 DEF PoolInv
  <2>2. info.poolStart \in Nat
    BY <2>1 DEF PagingInfo
  <2>3. TablesFor(N, 3) \in Nat /\ TablesFor(N, 2) \in Nat /\ TablesFor(N, 1) \in Nat
    BY TableCounts
  <2> QED BY <2>1, <2>2, <2>3, Constants
<1>5. s = Result(g, m1, root, TRUE) /\ info.allocated < info.reserved
  <2>1. Cardinality(DOMAIN mem) < 1 + TablesFor(N, 3) + TablesFor(N, 2) + TablesFor(N, 1)
    <3>1. TablesFor(N, 3) \in Nat /\ TablesFor(N, 2) \in Nat /\ TablesFor(N, 1) \in Nat
      BY TableCounts
    <3> QED BY <1>3, <3>1
  <2> QED BY <1>2, <2>1, AllocSucceeds DEF Here
<1> HIDE DEF s, g, m1
<1>6. s.info = g /\ s.mem = m1 /\ s.at = root
  BY <1>5 DEF Result
<1>7. DOMAIN m1 = {root} /\ m1[root] = EmptyTable
  BY <1>3 DEF m1
<1>8. PoolInv(g, m1, N)
  BY <1>2, <1>3, <1>5, <1>7, PoolGrows DEF g
<1>9. /\ info' \in PagingInfo /\ info'.cr3 = root /\ info'.error = "OK"
      /\ info'.poolStart = info.poolStart /\ info'.reserved = info.reserved
      /\ info'.mappedPages = 0
      /\ info'.poolEnd = g.poolEnd /\ info'.poolNext = g.poolNext
      /\ info'.allocated = g.allocated /\ info'.reserved = g.reserved
      /\ info'.poolStart = g.poolStart
  <2>1. g \in PagingInfo /\ info' = [g EXCEPT !.cr3 = root] /\ root \in Nat
    BY <1>1, <1>4, <1>6, <1>8 DEF PoolInv
  <2>2. /\ g.error = info.error /\ g.poolStart = info.poolStart /\ g.reserved = info.reserved
        /\ g.mappedPages = info.mappedPages
    BY <1>4 DEF g, PagingInfo
  <2> HIDE DEF root
  <2> QED BY <1>2, <1>4, <2>1, <2>2 DEF PagingInfo
<1>10. PoolInv(info', mem', N)
  BY <1>1, <1>6, <1>8, <1>9 DEF PoolInv
<1>11. PagingTypeOK /\ MapInv /\ i = 1
  BY <1>1 DEF IInv, PagingTypeOK
<1>12. CASE info.poolStart = 0
  <2>1. pc' = "failed"
    BY <1>1, <1>4, <1>6, <1>12
  <2>2. MapInv'
    BY <1>1, <1>11, <2>1 DEF MapInv, Building
  <2>3. PagingTypeOK'
    BY <1>1, <1>11, <2>1 DEF PagingTypeOK
  <2>4. LoopInv' /\ ~Building'
    BY <2>1 DEF LoopInv, Building
  <2>5. PoolSuffices' /\ FailureIsNamed'
    BY <1>4, <1>9, <1>12 DEF PoolSuffices, FailureIsNamed
  <2> QED BY <2>1, <2>2, <2>3, <2>4, <2>5 DEF IInv
<1>13. CASE info.poolStart # 0
  <2>1. pc' = "range" /\ info.poolStart > 0
    BY <1>1, <1>4, <1>6, <1>13
  <2>2. Len(map) \in Nat
    BY <1>11 DEF MapInv
  <2>3. LoopInv' /\ i' \in Nat \ {0} /\ addr' \in Nat
    BY <1>1, <1>11, <2>1, <2>2 DEF LoopInv, Ranges, PagingTypeOK
  <2>4. \A k \in Ranges : \A q : ~Reached(k, q)'
    BY <1>1, <1>11, <2>1, <2>2 DEF Reached, Ranges
  <2>5. MappedPages' = {} /\ UncachedPages' = {}
    <3>1. Ranges' = Ranges
      BY <1>1 DEF Ranges
    <3> QED BY <2>4, <3>1 DEF MappedPages, UncachedPages
  <2>6. info'.mappedPages = Cardinality(MappedPages')
    BY <1>9, <2>5, FS_EmptySet
  <2> DEFINE lev == [t \in {root} |-> 4]
             pre == [t \in {root} |-> 0]
  <2>7. \A n \in 0 .. Entries - 1 : ~m1[root][n].present
    BY <1>7 DEF EmptyTable, Absent
  <2>8. m1 \in [DOMAIN m1 -> Table]
    <3>1. EmptyTable \in Table
      BY DEF EmptyTable, Table, Absent, PageEntry
    <3>2. m1 = [b \in {root} |-> EmptyTable]
      BY <1>3 DEF m1
    <3> QED BY <1>7, <3>1, <3>2
  <2>9. Tree(m1, root, lev, pre, N)
    BY <1>7, <2>7, <2>8, TableCounts DEF Tree
  <2>10. Leaves(m1, lev, pre, {}, {})
    BY <1>7 DEF Leaves
  <2>11. WellBuilt(mem', info'.cr3, lev, pre, N, MappedPages', UncachedPages')
    <3>1. lev \in [DOMAIN m1 -> 1 .. 4] /\ pre \in [DOMAIN m1 -> Nat]
      BY <1>7
    <3> HIDE DEF lev, pre
    <3> QED BY <1>1, <1>6, <1>9, <2>5, <2>9, <2>10, <3>1 DEF WellBuilt
  <2> HIDE DEF lev, pre
  <2> QED BY <1>1, <1>2, <1>4, <1>9, <1>10, <2>1, <2>3, <2>6, <2>11, BuildingStep
<1> QED BY <1>12, <1>13

-----------------------------------------------------------------------------
(* Cutting the pool out of the map.                                        *)

(* A map as the firmware's, whose descriptors end at M at the latest.      *)
Sound(m, M) ==
    /\ m \in Seq(Descriptor) /\ Aligned(m) /\ Disjoint(m)
    /\ \A k \in DOMAIN m : EndFits(m[k]) /\ EndOf(m[k]) <= M

(* c is m, with descriptor L shortened to v pages and retyped.             *)
IsCut(c, m, L, v, type) ==
    /\ c \in Seq(Descriptor) /\ Len(c) = Len(m)
    /\ c[L].start = m[L].start /\ c[L].pages = v /\ c[L].type = type
    /\ \A k \in 1 .. Len(m) : k # L => c[k] = m[k]

(* A set of naturals has a least element.                                  *)
LEMMA LeastExists ==
    ASSUME NEW S \in SUBSET Nat, S # {}
    PROVE  \E x \in S : \A y \in S : x <= y
<1>1. PICK x \in S : \A y \in S : ~(<<y, x>> \in OpToRel(<, Nat))
  BY NatLessThanWellFounded, WFMin
<1>2. ASSUME NEW y \in S, y < x PROVE FALSE
  <2>1. <<y, x>> \in OpToRel(<, Nat)
    BY <1>2 DEF OpToRel
  <2> QED BY <1>1, <2>1
<1> QED BY <1>2

(* The fields of a descriptor.                                             *)
LEMMA DescriptorFields ==
    ASSUME NEW d \in Descriptor
    PROVE  /\ d.type \in MemoryType /\ d.start \in Nat /\ d.pages \in Nat
           /\ d.pages * PageSize \in Nat /\ EndOf(d) \in Nat /\ d.start <= EndOf(d)
<1>1. d.type \in MemoryType /\ d.start \in Nat /\ d.pages \in Nat
  BY DEF Descriptor
<1>2. d.pages * PageSize \in Nat
  BY <1>1, Constants
<1> QED BY <1>1, <1>2 DEF EndOf

(* Updating one field of one descriptor.                                   *)
LEMMA CutIs ==
    ASSUME NEW m \in Seq(Descriptor), NEW L \in DOMAIN m, NEW v \in Nat, NEW ty \in MemoryType
    PROVE  /\ IsCut([m EXCEPT ![L].pages = v], m, L, v, m[L].type)
           /\ IsCut([m EXCEPT ![L].type = ty], m, L, m[L].pages, ty)
<1>1. Len(m) \in Nat /\ DOMAIN m = 1 .. Len(m) /\ m \in [1 .. Len(m) -> Descriptor]
  OBVIOUS
<1> DEFINE d == m[L]
<1>2. d \in Descriptor
  OBVIOUS
<1>3. \A e \in Descriptor :
         LET c == [m EXCEPT ![L] = e]
         IN  /\ c \in Seq(Descriptor) /\ Len(c) = Len(m) /\ c[L] = e
             /\ \A k \in 1 .. Len(m) : k # L => c[k] = m[k]
  OBVIOUS
<1> HIDE DEF d
<1> DEFINE e == [d EXCEPT !.pages = v]
           f == [d EXCEPT !.type = ty]
<1>4. e = [d EXCEPT !.pages = v] /\ f = [d EXCEPT !.type = ty]
  OBVIOUS
<1> HIDE DEF e, f
<1>5. e \in Descriptor /\ e.pages = v /\ e.start = d.start /\ e.type = d.type
  BY <1>2, <1>4 DEF Descriptor
<1>6. f \in Descriptor /\ f.pages = d.pages /\ f.start = d.start /\ f.type = ty
  BY <1>2, <1>4 DEF Descriptor
<1>7. /\ [m EXCEPT ![L].pages = v] = [m EXCEPT ![L] = e]
      /\ [m EXCEPT ![L].type = ty] = [m EXCEPT ![L] = f]
  BY DEF d, e, f
<1>8. IsCut([m EXCEPT ![L] = e], m, L, v, d.type) /\ IsCut([m EXCEPT ![L] = f], m, L, d.pages, ty)
  <2> DEFINE ce == [m EXCEPT ![L] = e]
             cf == [m EXCEPT ![L] = f]
  <2>1. /\ ce \in Seq(Descriptor) /\ Len(ce) = Len(m) /\ ce[L] = e
        /\ \A k \in 1 .. Len(m) : k # L => ce[k] = m[k]
    BY <1>3, <1>5
  <2>2. /\ cf \in Seq(Descriptor) /\ Len(cf) = Len(m) /\ cf[L] = f
        /\ \A k \in 1 .. Len(m) : k # L => cf[k] = m[k]
    BY <1>3, <1>6
  <2> HIDE DEF ce, cf
  <2>3. IsCut(ce, m, L, v, d.type) /\ IsCut(cf, m, L, d.pages, ty)
    BY <1>5, <1>6, <2>1, <2>2 DEF IsCut, d
  <2> QED BY <2>3 DEF ce, cf
<1> QED BY <1>7, <1>8 DEF d

(* A shortened descriptor ends no later, so the map stays sound.           *)
LEMMA CutSound ==
    ASSUME NEW M \in Nat, NEW m, Sound(m, M), NEW L \in DOMAIN m, NEW v \in Nat,
           v <= m[L].pages, NEW ty, NEW c, IsCut(c, m, L, v, ty)
    PROVE  Sound(c, M) /\ DOMAIN c = DOMAIN m
<1>1. m \in Seq(Descriptor) /\ c \in Seq(Descriptor) /\ DOMAIN c = DOMAIN m
      /\ DOMAIN m = 1 .. Len(m)
  BY DEF Sound, IsCut
<1>2. \A k \in DOMAIN m : m[k] \in Descriptor /\ c[k] \in Descriptor
  BY <1>1
<1>3. c[L].start = m[L].start /\ c[L].pages = v /\ \A k \in DOMAIN m : k # L => c[k] = m[k]
  BY <1>1 DEF IsCut
<1>4. ASSUME NEW k \in DOMAIN m
      PROVE  /\ c[k].start = m[k].start /\ c[k].pages <= m[k].pages /\ EndOf(c[k]) <= EndOf(m[k])
             /\ EndOf(c[k]) \in Nat /\ EndOf(m[k]) \in Nat /\ m[k].start \in Nat
  <2>1. EndOf(c[k]) \in Nat /\ EndOf(m[k]) \in Nat /\ m[k].start \in Nat /\ m[k].pages \in Nat
        /\ m[k].pages * PageSize \in Nat /\ c[k].pages * PageSize \in Nat
    BY <1>2, DescriptorFields
  <2>2. c[k].start = m[k].start /\ c[k].pages \in Nat /\ c[k].pages <= m[k].pages
    <3>1. c[k].pages \in Nat
      BY <1>2, DescriptorFields
    <3> QED BY <1>3, <2>1, <3>1
  <2>3. c[k].pages * PageSize <= m[k].pages * PageSize
    BY <2>1, <2>2, Constants, MulMono
  <2> QED BY <2>1, <2>2, <2>3 DEF EndOf
<1>5. Aligned(c)
  BY <1>1, <1>4 DEF Aligned, Sound
<1>6. Disjoint(c)
  <2> SUFFICES ASSUME NEW j \in DOMAIN m, NEW k \in DOMAIN m, j # k
               PROVE  EndOf(c[j]) <= c[k].start \/ EndOf(c[k]) <= c[j].start
    BY <1>1 DEF Disjoint
  <2>1. EndOf(m[j]) <= m[k].start \/ EndOf(m[k]) <= m[j].start
    BY DEF Sound, Disjoint
  <2> QED BY <1>4, <2>1
<1>7. ASSUME NEW k \in DOMAIN m PROVE EndFits(c[k]) /\ EndOf(c[k]) <= M
  <2>1. m[k].pages <= (MaxAddr - m[k].start) \div PageSize /\ EndOf(m[k]) <= M
    BY DEF Sound, EndFits
  <2>2. (MaxAddr - m[k].start) \div PageSize \in Int
    BY <1>4, Constants
  <2>3. c[k].pages \in Nat /\ m[k].pages \in Nat
    BY <1>2, DescriptorFields
  <2> QED BY <1>4, <2>1, <2>2, <2>3 DEF EndFits
<1> QED BY <1>1, <1>5, <1>6, <1>7 DEF Sound

(* a is c with descriptor d put behind descriptor L, at m's end.           *)
PoolAdded(a, c, d, m, L, M) ==
    /\ Sound(a, M)
    /\ DOMAIN a = DOMAIN m \cup {Len(m) + 1} /\ Len(m) + 1 \notin DOMAIN m
    /\ a[Len(m) + 1] = d /\ \A k \in DOMAIN m : a[k] = c[k]
    /\ EndOf(d) = EndOf(m[L]) /\ EndOf(c[L]) = d.start

(* The pool goes where the shortened descriptor now ends.                  *)
LEMMA PoolSound ==
    ASSUME NEW M \in Nat, NEW m, Sound(m, M), NEW L \in DOMAIN m, NEW n \in Nat,
           n <= m[L].pages, NEW c, IsCut(c, m, L, m[L].pages - n, m[L].type),
           NEW d \in Descriptor, d.pages = n, d.start = EndOf(m[L]) - n * PageSize
    PROVE  PoolAdded(Append(c, d), c, d, m, L, M)
<1> DEFINE a == Append(c, d)
           x == Len(m) + 1
<1>1. m \in Seq(Descriptor) /\ c \in Seq(Descriptor) /\ Len(c) = Len(m) /\ Len(m) \in Nat
      /\ DOMAIN m = 1 .. Len(m) /\ DOMAIN c = 1 .. Len(m)
  BY DEF Sound, IsCut
<1>2. /\ a \in Seq(Descriptor) /\ DOMAIN a = DOMAIN m \cup {x} /\ x \notin DOMAIN m
      /\ a[x] = d /\ \A k \in DOMAIN m : a[k] = c[k]
  BY <1>1
<1>3. m[L] \in Descriptor /\ \A k \in DOMAIN m : c[k] \in Descriptor /\ m[k] \in Descriptor
  BY <1>1
<1>4. /\ m[L].start \in Nat /\ m[L].pages \in Nat /\ m[L].pages - n \in Nat
      /\ d.start \in Nat /\ EndOf(m[L]) \in Nat /\ n * PageSize \in Nat
  <2>1. m[L].start \in Nat /\ m[L].pages \in Nat /\ d.start \in Nat /\ EndOf(m[L]) \in Nat
    BY <1>3, DescriptorFields
  <2> QED BY <2>1, Constants
<1>5. Sound(c, M)
  <2>1. m[L].pages - n <= m[L].pages
    BY <1>4
  <2> QED BY <1>4, <2>1, CutSound
<1>6. EndOf(d) = EndOf(m[L])
  BY <1>4 DEF EndOf
<1>7. EndOf(c[L]) = d.start
  <2>1. c[L].start = m[L].start /\ c[L].pages = m[L].pages - n
    BY DEF IsCut
  <2>2. (m[L].pages - n) * PageSize = m[L].pages * PageSize - n * PageSize
        /\ m[L].pages * PageSize \in Nat
    <3> DEFINE b == m[L].pages
    <3>1. b \in Nat /\ n \in Nat /\ PageSize \in Nat
      BY <1>4, Constants
    <3> HIDE DEF b
    <3>2. (b - n) * PageSize = b * PageSize - n * PageSize /\ b * PageSize \in Nat
      BY ONLY <3>1
    <3> QED BY <3>2 DEF b
  <2> QED BY <1>4, <2>1, <2>2 DEF EndOf
<1>8. m[L].start <= d.start
  <2>1. c[L].start = m[L].start /\ c[L].start <= EndOf(c[L])
    BY <1>3, DescriptorFields DEF IsCut
  <2> QED BY <1>7, <2>1
<1>9. d.start % PageSize = 0
  <2>1. m[L].start % PageSize = 0
    BY DEF Sound, Aligned
  <2> DEFINE b == m[L].start \div PageSize
             r == m[L].pages - n
  <2>2. b \in Nat /\ m[L].start = b * PageSize
    BY <1>4, <2>1, IsMultiple
  <2>3. d.start = m[L].start + r * PageSize
    BY <1>7 DEF IsCut, EndOf
  <2>4. r \in Nat
    BY <1>4
  <2> HIDE DEF b, r
  <2>5. d.start = (b + r) * PageSize /\ b + r \in Nat
    BY <2>2, <2>3, <2>4, Constants
  <2> QED BY <2>5, Multiples
<1>10. EndFits(d) /\ EndOf(d) <= M
  <2>1. m[L].pages <= (MaxAddr - m[L].start) \div PageSize /\ EndOf(m[L]) <= M
    BY DEF Sound, EndFits
  <2>2. MaxAddr - m[L].start \in Int /\ PageSize \in Nat \ {0}
    BY <1>4, Constants
  <2> DEFINE y == MaxAddr - m[L].start
  <2>3. y \in Nat
    <3> HIDE DEF y
    <3>1. y \in Int /\ y \div PageSize >= 0
      BY <1>4, <2>1, <2>2 DEF y
    <3> QED BY <2>2, <3>1
  <2>4. PageSize * m[L].pages <= y
    BY <1>4, <2>1, <2>2, <2>3, DivLess
  <2>5. EndOf(m[L]) <= MaxAddr
    <3>1. PageSize * m[L].pages = m[L].pages * PageSize /\ m[L].pages * PageSize \in Nat
      BY <1>4, Constants
    <3> QED BY <1>4, <2>4, <3>1, Constants DEF EndOf
  <2>6. d.start + n * PageSize <= MaxAddr
    BY <1>6, <2>5 DEF EndOf
  <2>7. MaxAddr - d.start \in Nat /\ PageSize * n <= MaxAddr - d.start
    <3>1. PageSize * n = n * PageSize
      BY Constants
    <3> QED BY <1>4, <2>6, <3>1, Constants
  <2>8. n <= (MaxAddr - d.start) \div PageSize
    BY <2>2, <2>7, DivLess
  <2> QED BY <1>6, <2>1, <2>8 DEF EndFits
<1>11. ASSUME NEW k \in DOMAIN m
       PROVE  EndOf(c[k]) <= d.start \/ EndOf(d) <= c[k].start
  <2>1. CASE k = L
    BY <1>4, <1>7, <2>1
  <2>2. CASE k # L
    <3>1. c[k] = m[k] /\ EndOf(m[k]) \in Nat /\ m[k].start \in Nat
      BY <1>1, <1>3, <2>2, DescriptorFields DEF IsCut
    <3>2. EndOf(m[k]) <= m[L].start \/ EndOf(m[L]) <= m[k].start
      BY <2>2 DEF Sound, Disjoint
    <3> QED BY <1>4, <1>6, <1>8, <3>1, <3>2
  <2> QED BY <2>1, <2>2
<1> HIDE DEF a, x
<1>12. Aligned(a)
  BY <1>1, <1>2, <1>5, <1>9 DEF Aligned, Sound
<1>13. Disjoint(a)
  BY <1>1, <1>2, <1>5, <1>11 DEF Disjoint, Sound
<1>14. \A k \in DOMAIN a : EndFits(a[k]) /\ EndOf(a[k]) <= M
  BY <1>1, <1>2, <1>5, <1>10 DEF Sound
<1>15. Sound(a, M)
  BY <1>2, <1>12, <1>13, <1>14 DEF Sound
<1>16. PoolAdded(a, c, d, m, L, M)
  BY <1>2, <1>6, <1>7, <1>15 DEF PoolAdded, x
<1> QED BY <1>16 DEF a

(* The pages of a map, page by page.                                       *)
LEMMA PageSets ==
    ASSUME NEW m, NEW ty
    PROVE  /\ \A p : p \in Described(m) <=> \E k \in DOMAIN m : p \in PagesOf(m[k])
           /\ \A p : p \in PagesOfType(m, ty)
                     <=> \E k \in DOMAIN m : m[k].type = ty /\ p \in PagesOf(m[k])
BY DEF Described, PagesOfType

(* The same pages are described, the same MMIO among them.                 *)
SamePages(a, m) ==
    /\ Described(a) = Described(m)
    /\ PagesOfType(a, "MMIO") = PagesOfType(m, "MMIO")

(* Giving all of a conventional descriptor to the pool.                    *)
LEMMA RetypeKeepsPages ==
    ASSUME NEW M, NEW m, Sound(m, M), NEW L \in DOMAIN m, m[L].type = "Conventional",
           NEW c, IsCut(c, m, L, m[L].pages, "LoaderData")
    PROVE  SamePages(c, m)
<1>1. DOMAIN c = DOMAIN m /\ \A k \in DOMAIN m : k # L => c[k] = m[k]
  BY DEF Sound, IsCut
<1>2. c[L].type = "LoaderData" /\ PagesOf(c[L]) = PagesOf(m[L])
  BY DEF IsCut, PagesOf, EndOf
<1>3. "LoaderData" # "MMIO" /\ "Conventional" # "MMIO"
  OBVIOUS
<1>4. \A k \in DOMAIN m : PagesOf(c[k]) = PagesOf(m[k]) /\ (c[k].type = "MMIO" <=> m[k].type = "MMIO")
  BY <1>1, <1>2, <1>3
<1>5. \A p : p \in Described(c) <=> p \in Described(m)
  BY <1>1, <1>4, PageSets
<1>6. \A p : p \in PagesOfType(c, "MMIO") <=> p \in PagesOfType(m, "MMIO")
  BY <1>1, <1>4, PageSets
<1> QED BY <1>5, <1>6 DEF SamePages

(* Giving its end to the pool.                                             *)
LEMMA AppendKeepsPages ==
    ASSUME NEW M \in Nat, NEW m, Sound(m, M), NEW L \in DOMAIN m, m[L].type = "Conventional",
           NEW n \in Nat, n <= m[L].pages, NEW c, IsCut(c, m, L, m[L].pages - n, m[L].type),
           NEW d \in Descriptor, d.pages = n, d.start = EndOf(m[L]) - n * PageSize,
           d.type = "LoaderData"
    PROVE  SamePages(Append(c, d), m)
<1> DEFINE a == Append(c, d)
           x == Len(m) + 1
<1>1. /\ DOMAIN a = DOMAIN m \cup {x} /\ x \notin DOMAIN m
      /\ a[x] = d /\ \A k \in DOMAIN m : a[k] = c[k]
      /\ EndOf(d) = EndOf(m[L]) /\ EndOf(c[L]) = d.start
  <2>1. PoolAdded(a, c, d, m, L, M)
    BY PoolSound
  <2> HIDE DEF a
  <2> QED BY <2>1 DEF PoolAdded
<1>2. \A k \in DOMAIN m : k # L => a[k] = m[k]
  BY <1>1 DEF Sound, IsCut
<1>3. /\ m[L] \in Descriptor /\ c[L] \in Descriptor
      /\ c[L].start = m[L].start /\ c[L].type = m[L].type
  <2>1. m \in Seq(Descriptor) /\ c \in Seq(Descriptor) /\ DOMAIN c = DOMAIN m
    BY DEF Sound, IsCut
  <2> QED BY <2>1 DEF IsCut
<1>4. /\ c[L].start \in Nat /\ d.start \in Nat /\ EndOf(d) \in Nat
      /\ c[L].start <= d.start /\ d.start <= EndOf(d)
  <2>1. c[L].start \in Nat /\ c[L].start <= EndOf(c[L]) /\ d.start \in Nat /\ EndOf(d) \in Nat
        /\ d.start <= EndOf(d)
    BY <1>3, DescriptorFields
  <2> QED BY <1>1, <2>1
<1>5. PagesOf(m[L]) = PagesOf(c[L]) \cup PagesOf(d)
  <2> SUFFICES ASSUME NEW p \in LowPages
               PROVE  m[L].start <= p * PageSize /\ p * PageSize < EndOf(m[L])
                      <=> \/ c[L].start <= p * PageSize /\ p * PageSize < EndOf(c[L])
                          \/ d.start <= p * PageSize /\ p * PageSize < EndOf(d)
    BY DEF PagesOf
  <2>1. p * PageSize \in Nat
    BY LowHalf, Multiples
  <2> QED BY <1>1, <1>3, <1>4, <2>1
<1> HIDE DEF a, x
<1>6. "LoaderData" # "MMIO" /\ "Conventional" # "MMIO"
  OBVIOUS
<1>7. ASSUME NEW p PROVE p \in Described(a) <=> p \in Described(m)
  <2>1. p \in Described(a) <=> \E k \in DOMAIN m \cup {x} : p \in PagesOf(a[k])
    BY <1>1, PageSets
  <2>2. p \in Described(m) <=> \E k \in DOMAIN m : p \in PagesOf(m[k])
    BY PageSets
  <2> QED BY <1>1, <1>2, <1>5, <2>1, <2>2
<1>8. ASSUME NEW p PROVE p \in PagesOfType(a, "MMIO") <=> p \in PagesOfType(m, "MMIO")
  <2>1. p \in PagesOfType(a, "MMIO")
        <=> \E k \in DOMAIN m \cup {x} : a[k].type = "MMIO" /\ p \in PagesOf(a[k])
    BY <1>1, PageSets
  <2>2. p \in PagesOfType(m, "MMIO")
        <=> \E k \in DOMAIN m : m[k].type = "MMIO" /\ p \in PagesOf(m[k])
    BY PageSets
  <2>3. a[x].type # "MMIO" /\ a[L].type # "MMIO" /\ m[L].type # "MMIO"
    BY <1>1, <1>3, <1>6
  <2> QED BY <1>1, <1>2, <2>1, <2>2, <2>3
<1>9. SamePages(a, m)
  BY <1>7, <1>8 DEF SamePages
<1> QED BY <1>9 DEF a

-----------------------------------------------------------------------------
(* The pool.                                                               *)

(* A set of naturals with an upper bound has a greatest element.           *)
LEMMA GreatestExists ==
    ASSUME NEW B \in Nat, NEW S, S \subseteq 0 .. B, S # {}
    PROVE  \E x \in S : \A y \in S : y <= x
<1> DEFINE T == { B - y : y \in S }
<1>1. T \in SUBSET Nat /\ T # {}
  <2>1. \A y \in S : y \in 0 .. B
    OBVIOUS
  <2>2. \A y \in S : B - y \in Nat
    BY <2>1
  <2>3. PICK y \in S : TRUE
    OBVIOUS
  <2>4. B - y \in T
    OBVIOUS
  <2> QED BY <2>2, <2>4
<1>2. PICK z \in T : \A y \in T : z <= y
  BY <1>1, LeastExists
<1>3. PICK x \in S : z = B - x
  BY <1>2
<1>4. ASSUME NEW y \in S PROVE y <= x
  <2>1. z <= B - y
    BY <1>2
  <2>2. x \in 0 .. B /\ y \in 0 .. B
    OBVIOUS
  <2> QED BY <1>3, <2>1, <2>2
<1> QED BY <1>4

(* The largest end is one, and no range ends behind it.                    *)
LEMMA MaxEndFacts ==
    ASSUME PagingTypeOK, MapInv, MapInRange, FbInRange
    PROVE  /\ MaxEnd \in Nat /\ MaxEnd <= LowLimit
           /\ \A k \in DOMAIN map : EndOf(map[k]) <= MaxEnd
           /\ align_up_4k(fb.base + framebuffer_size_bytes) <= MaxEnd
<1> DEFINE F == align_up_4k(fb.base + framebuffer_size_bytes)
           ends == { EndOf(map[k]) : k \in DOMAIN map } \cup {0, F}
<1>1. LowLimit \in Nat
  BY LowHalf
<1>2. F \in Nat /\ F <= LowLimit
  <2>1. fb.base + framebuffer_size_bytes \in Nat
    BY RangeFacts
  <2> QED BY <2>1, AlignUp DEF FbInRange
<1>3. \A k \in DOMAIN map : EndOf(map[k]) \in Nat /\ EndOf(map[k]) <= LowLimit
  <2>1. \A k \in DOMAIN map : map[k] \in Descriptor
    BY DEF MapInv
  <2> QED BY <2>1, DescriptorFields DEF MapInRange
<1> HIDE DEF F
<1>4. ends \subseteq 0 .. LowLimit /\ ends # {}
  BY <1>1, <1>2, <1>3
<1>5. \E x \in ends : \A y \in ends : y <= x
  BY <1>1, <1>4, GreatestExists
<1>6. MaxEnd \in ends /\ \A y \in ends : y <= MaxEnd
  <2>1. MaxEnd = CHOOSE e \in ends : \A f \in ends : f <= e
    BY DEF MaxEnd, F
  <2> HIDE DEF ends
  <2> QED BY <1>5, <2>1
<1>7. F \in ends /\ \A k \in DOMAIN map : EndOf(map[k]) \in ends
  OBVIOUS
<1> HIDE DEF ends
<1>8. MaxEnd \in 0 .. LowLimit
  BY <1>4, <1>6
<1>9. MaxEnd \in Nat /\ MaxEnd <= LowLimit
  BY <1>1, <1>8
<1>10. F <= MaxEnd /\ \A k \in DOMAIN map : EndOf(map[k]) <= MaxEnd
  BY <1>6, <1>7
<1> QED BY <1>9, <1>10 DEF F

(* select_page_table_pool settles on one descriptor: the lowest start, and *)
(* of those the first.                                                     *)
LEMMA LowestIsLarge ==
    ASSUME MapInv, Large # {}
    PROVE  Lowest \in Large
<1>1. map \in Seq(Descriptor) /\ DOMAIN map \subseteq Nat /\ \A k \in DOMAIN map : map[k].start \in Nat
  BY DescriptorFields DEF MapInv
<1>2. Large \subseteq DOMAIN map
  BY DEF Large
<1> HIDE DEF Large
<1> DEFINE Starts == { map[k].start : k \in Large }
<1>3. Starts \in SUBSET Nat /\ Starts # {}
  BY <1>1, <1>2
<1>4. PICK x \in Starts : \A y \in Starts : x <= y
  BY <1>3, LeastExists
<1> DEFINE First == { k \in Large : map[k].start = x }
<1>5. First \in SUBSET Nat /\ First # {}
  BY <1>1, <1>2
<1>6. PICK k \in First : \A l \in First : k <= l
  BY <1>5, LeastExists
<1>7. ASSUME NEW l \in Large
      PROVE  map[k].start < map[l].start \/ (map[k].start = map[l].start /\ k <= l)
  <2>1. x <= map[l].start /\ map[k].start = x /\ map[l].start \in Nat /\ x \in Nat
    BY <1>1, <1>2, <1>4, <1>6
  <2>2. CASE map[l].start = x
    BY <1>6, <2>1, <2>2
  <2>3. CASE map[l].start # x
    BY <2>1, <2>3
  <2> QED BY <2>2, <2>3
<1>8. k \in Large
  OBVIOUS
<1> QED BY <1>7, <1>8 DEF Lowest

(* The estimate counts the tables of the three lower levels, and the root. *)
LEMMA EstimateIs ==
    ASSUME NEW e
    PROVE  LET N == div_round_up64(e, PageSize)
           IN  estimate_identity_page_table_pages(e)
               = 1 + TablesFor(N, 3) + TablesFor(N, 2) + TablesFor(N, 1) + Slack
BY DEF estimate_identity_page_table_pages, TablesFor, Span

(* Every range of the new map lies below the end the pool was sized for.   *)
LEMMA NewRangesSized ==
    ASSUME NEW M \in Nat, Sound(map', M), M <= LowLimit, UNCHANGED fb,
           fb.base \in Nat, framebuffer_size_bytes \in Nat, FbInRange,
           align_up_4k(fb.base + framebuffer_size_bytes) <= M
    PROVE  Sized(div_round_up64(M, PageSize))' /\ MapInRange' /\ FbInRange'
<1>1. framebuffer_size_bytes' = framebuffer_size_bytes
  BY DEF framebuffer_size_bytes
<1>2. FbInRange'
  BY <1>1 DEF FbInRange
<1>3. map' \in Seq(Descriptor) /\ Len(map') \in Nat /\ DOMAIN map' = 1 .. Len(map')
      /\ \A k \in DOMAIN map' : map'[k] \in Descriptor
  BY DEF Sound
<1>4. LowLimit \in Nat
  BY LowHalf
<1>5. MapInRange'
  <2>1. \A k \in DOMAIN map' : EndFits(map'[k]) /\ EndOf(map'[k]) <= M /\ EndOf(map'[k]) \in Nat
    BY <1>3, DescriptorFields DEF Sound
  <2> QED BY <1>4, <2>1 DEF MapInRange
<1>6. ASSUME NEW k \in Ranges' PROVE (From(k) + Bytes(k))' \in Nat /\ (From(k) + Bytes(k))' <= M
  <2>0. k \in Nat
    BY <1>3 DEF Ranges
  <2>1. CASE k <= Len(map')
    <3>1. k \in DOMAIN map'
      BY <1>3, <2>1 DEF Ranges
    <3>2. EndOf(map'[k]) <= M /\ EndOf(map'[k]) \in Nat
      BY <1>3, <3>1, DescriptorFields DEF Sound
    <3>3. (From(k) + Bytes(k))' = EndOf(map'[k])
      BY <2>1 DEF From, Bytes, EndOf
    <3> QED BY <3>2, <3>3
  <2>2. CASE ~(k <= Len(map'))
    <3>1. (From(k) + Bytes(k))' = fb.base + framebuffer_size_bytes
      BY <1>1, <2>2 DEF From, Bytes
    <3>2. fb.base + framebuffer_size_bytes \in Nat
      OBVIOUS
    <3>3. align_up_4k(fb.base + framebuffer_size_bytes) \in Nat
          /\ fb.base + framebuffer_size_bytes <= align_up_4k(fb.base + framebuffer_size_bytes)
      BY <3>2, AlignUp
    <3> HIDE DEF framebuffer_size_bytes
    <3> QED BY <3>1, <3>2, <3>3
  <2> QED BY <2>1, <2>2
<1>7. ASSUME NEW k \in Ranges', NEW p \in RangeOf(k)' PROVE p < div_round_up64(M, PageSize)
  <2>1. p \in Nat /\ p * PageSize < (From(k) + Bytes(k))'
    BY LowHalf DEF RangeOf
  <2>2. p * PageSize \in Nat /\ PageSize * p = p * PageSize
    BY <2>1, Constants
  <2>3. PageSize * p < M
    BY <1>6, <2>1, <2>2
  <2> QED BY <2>1, <2>3, Constants, RoundUp
<1> QED BY <1>2, <1>5, <1>7 DEF Sized

(* What holds when select_page_table_pool starts.                          *)
LEMMA PoolFacts ==
    ASSUME IInv, pc = "pool"
    PROVE  /\ PagingTypeOK /\ MapInv /\ MapInRange /\ FbInRange /\ map = given
           /\ info = Info /\ mem = <<>> /\ i = 1
           /\ MaxEnd \in Nat /\ MaxEnd <= LowLimit /\ Sound(map, MaxEnd)
           /\ fb.base \in Nat /\ framebuffer_size_bytes \in Nat
           /\ align_up_4k(fb.base + framebuffer_size_bytes) <= MaxEnd
           /\ PoolPages \in Nat \ {0}
<1>1. /\ PagingTypeOK /\ MapInv /\ MapInRange /\ FbInRange /\ map = given
      /\ info = Info /\ mem = <<>> /\ i = 1
  BY DEF IInv, PagingTypeOK, MapInv
<1>2. /\ MaxEnd \in Nat /\ MaxEnd <= LowLimit
      /\ \A k \in DOMAIN map : EndOf(map[k]) <= MaxEnd
      /\ align_up_4k(fb.base + framebuffer_size_bytes) <= MaxEnd
  BY <1>1, MaxEndFacts
<1>3. fb.base \in Nat /\ framebuffer_size_bytes \in Nat
  BY <1>1, RangeFacts
<1>4. Sound(map, MaxEnd)
  BY <1>1, <1>2 DEF Sound, MapInv, MapInRange
<1>5. PoolPages \in Nat \ {0}
  <2> DEFINE N == div_round_up64(MaxEnd, PageSize)
  <2>1. N \in Nat
    BY <1>2, Constants, RoundUp
  <2> HIDE DEF N
  <2>2. TablesFor(N, 3) \in Nat /\ TablesFor(N, 2) \in Nat /\ TablesFor(N, 1) \in Nat
    BY <2>1, TableCounts
  <2>3. PoolPages = 1 + TablesFor(N, 3) + TablesFor(N, 2) + TablesFor(N, 1) + Slack
    BY EstimateIs DEF PoolPages, N
  <2> QED BY <2>2, <2>3, Constants
<1> QED BY <1>1, <1>2, <1>3, <1>4, <1>5

(* The fields start with numbers and an error.                             *)
LEMMA InfoTyped == Info \in PagingInfo
BY DEF Info, PagingInfo

(* The pool is selected: an empty pool, of the estimated size.             *)
LEMMA PoolSelected ==
    ASSUME IInv, pc = "pool", pc' = "root", UNCHANGED <<fb, mem, i, addr, given>>,
           Sound(map', MaxEnd), SamePages(map', map),
           NEW start \in Nat, NEW end \in Nat, end = start + PoolPages * PageSize,
           info' = [info EXCEPT !.poolStart = start, !.poolEnd = end,
                                !.poolNext = start, !.reserved = PoolPages],
           \E k \in DOMAIN map' : /\ map'[k].type = "LoaderData" /\ map'[k].start = start
                                  /\ map'[k].pages = PoolPages
    PROVE  IInv'
<1>1. /\ PagingTypeOK /\ MapInv /\ MapInRange /\ FbInRange /\ map = given
      /\ info = Info /\ mem = <<>> /\ i = 1
      /\ MaxEnd \in Nat /\ MaxEnd <= LowLimit
      /\ fb.base \in Nat /\ framebuffer_size_bytes \in Nat
      /\ align_up_4k(fb.base + framebuffer_size_bytes) <= MaxEnd
      /\ PoolPages \in Nat \ {0}
  BY PoolFacts
<1>a. PICK M \in Nat : M = MaxEnd
  BY <1>1
<1> DEFINE N == div_round_up64(M, PageSize)
<1>2. Sized(N)' /\ MapInRange' /\ FbInRange'
  BY <1>1, <1>a, NewRangesSized
<1>3. PoolPages = 1 + TablesFor(N, 3) + TablesFor(N, 2) + TablesFor(N, 1) + Slack
  BY <1>a, EstimateIs DEF PoolPages
<1>4. N \in Nat
  BY <1>1, Constants, RoundUp
<1> HIDE DEF N
<1>5. /\ info' \in PagingInfo /\ info'.cr3 = 0 /\ info'.mappedPages = 0 /\ info'.allocated = 0
      /\ info'.poolStart = start /\ info'.poolEnd = end /\ info'.poolNext = start
      /\ info'.reserved = PoolPages /\ info'.error = "OK"
  <2>1. info \in PagingInfo /\ info.cr3 = 0 /\ info.mappedPages = 0 /\ info.allocated = 0
        /\ info.error = "OK"
    BY <1>1, InfoTyped DEF Info
  <2> HIDE DEF PoolPages
  <2> QED BY <1>1, <2>1 DEF PagingInfo
<1>6. PoolInv(info', mem', N)
  <2>1. DOMAIN mem' = {} /\ IsFiniteSet(DOMAIN mem') /\ Cardinality(DOMAIN mem') = 0
    BY <1>1, FS_EmptySet
  <2>2. start = start + 0 * PageSize
    BY Constants
  <2>3. 0 <= PoolPages
    BY <1>1
  <2> QED BY <1>3, <1>5, <2>1, <2>2, <2>3 DEF PoolInv
<1>7. TablesInv'
  <2>1. ~Building' /\ mem' = <<>>
    BY <1>1 DEF Building
  <2> QED BY <1>2, <1>4, <1>5, <1>6, <2>1 DEF TablesInv
<1>8. MapInv'
  <2>1. map' \in Seq(Descriptor) /\ Aligned(map') /\ Disjoint(map')
    BY DEF Sound
  <2>2. Described(map') = Described(given') /\ PagesOfType(map', "MMIO") = PagesOfType(given', "MMIO")
    BY <1>1 DEF SamePages
  <2>3. \E k \in DOMAIN map' : /\ map'[k].type = "LoaderData"
                               /\ map'[k].start = info'.poolStart
                               /\ map'[k].pages = info'.reserved
    BY <1>5
  <2> QED BY <1>2, <2>1, <2>2, <2>3 DEF MapInv, Building
<1>9. PagingTypeOK'
  BY <1>1 DEF PagingTypeOK
<1>10. LoopInv' /\ PoolSuffices' /\ FailureIsNamed'
  BY <1>5 DEF LoopInv, PoolSuffices, FailureIsNamed
<1> QED BY <1>7, <1>8, <1>9, <1>10 DEF IInv

(* A step that fails with an error on record.                              *)
LEMMA FailKeeps ==
    ASSUME IInv, pc' = "failed", UNCHANGED <<fb, i, addr, given>>,
           map' \in Seq(Descriptor), Aligned(map'), Disjoint(map'),
           info'.error \notin {"OK", "POOL_EMPTY", "TABLE_ENTRY"}
    PROVE  IInv'
<1>1. PagingTypeOK'
  BY DEF IInv, PagingTypeOK
<1>2. MapInv'
  BY DEF MapInv, Building
<1>3. LoopInv' /\ ~Building' /\ PoolSuffices' /\ FailureIsNamed'
  BY DEF LoopInv, Building, PoolSuffices, FailureIsNamed
<1> QED BY <1>1, <1>2, <1>3 DEF IInv

(* Measuring only looks.                                                   *)
LEMMA MeasureKeeps ==
    ASSUME IInv, Measure
    PROVE  IInv'
<1>1. pc = "measure" /\ UNCHANGED <<map, fb, mem, i, addr, given>>
  BY DEF Measure
<1>2. info = Info /\ map \in Seq(Descriptor) /\ Aligned(map) /\ Disjoint(map)
  BY <1>1 DEF IInv, PagingTypeOK, MapInv
<1>3. CASE Fail("LA57") \/ Fail("RANGE")
  <2>1. pc' = "failed" /\ info'.error \in {"LA57", "RANGE"}
    BY <1>2, <1>3 DEF Fail, Info
  <2> QED BY <1>1, <1>2, <2>1, FailKeeps
<1>4. CASE pc' = "pool" /\ UNCHANGED info /\ MapInRange /\ FbInRange
  <2>1. MapInRange' /\ FbInRange'
    BY <1>1, <1>4, RangesKept
  <2>2. PagingTypeOK'
    BY <1>1, <1>4 DEF IInv, PagingTypeOK
  <2>3. MapInv'
    BY <1>1, <1>4, <2>1 DEF IInv, MapInv, Building
  <2>4. LoopInv' /\ ~Building' /\ PoolSuffices' /\ FailureIsNamed'
    BY <1>2, <1>4 DEF LoopInv, Building, PoolSuffices, FailureIsNamed, Info
  <2> QED BY <1>4, <2>2, <2>3, <2>4 DEF IInv
<1> QED BY <1>3, <1>4 DEF Measure

(* select_page_table_pool keeps the invariant, whether it takes all of a   *)
(* descriptor, its end, or finds no room for one more descriptor.          *)
LEMMA SelectPoolKeeps ==
    ASSUME IInv, SelectPool
    PROVE  IInv'
<1> DEFINE L == Lowest
           d == map[L]
           n == PoolPages
           start == EndOf(d) - n * PageSize
           pool == [info EXCEPT !.poolStart = start, !.poolEnd = EndOf(d),
                                !.poolNext = start, !.reserved = n]
           cut == [map EXCEPT ![L].pages = d.pages - n]
           whole == [map EXCEPT ![L].type = "LoaderData"]
           new == [type |-> "LoaderData", start |-> start, pages |-> n]
<1>1. pc = "pool" /\ UNCHANGED <<fb, mem, i, addr, given>>
  BY DEF SelectPool
<1>2. /\ MapInv /\ map = given /\ info = Info
      /\ MaxEnd \in Nat /\ Sound(map, MaxEnd) /\ n \in Nat \ {0}
  BY <1>1, PoolFacts
<1>4. CASE Large = {}
  <2>1. pc' = "failed" /\ info'.error = "NO_POOL" /\ map' = map
    BY <1>2, <1>4 DEF SelectPool, Fail, Info
  <2> QED BY <1>1, <1>2, <2>1, FailKeeps DEF MapInv
<1>5. CASE Large # {}
  <2>1. L \in Large
    BY <1>2, <1>5, LowestIsLarge
  <2>2. L \in DOMAIN map /\ d.type = "Conventional" /\ d.pages >= n
    BY <2>1 DEF Large
  <2>3. map \in Seq(Descriptor) /\ d \in Descriptor
    BY <1>2, <2>2 DEF MapInv
  <2>4. d.pages \in Nat /\ d.start \in Nat /\ EndOf(d) \in Nat /\ d.pages * PageSize \in Nat
    BY <2>3, DescriptorFields
  <2>5. n \in Nat /\ n <= d.pages /\ d.pages - n \in Nat /\ n * PageSize \in Nat
    BY <1>2, <2>2, <2>4, Constants
  <2>6. start \in Nat /\ EndOf(d) = start + n * PageSize /\ (d.pages = n => start = d.start)
    <3>1. n * PageSize <= d.pages * PageSize
      BY <2>4, <2>5, Constants, MulMono
    <3> QED BY <2>4, <2>5, <3>1 DEF EndOf
  <2> HIDE DEF L, n
  <2>7. IsCut(cut, map, L, d.pages - n, d.type) /\ IsCut(whole, map, L, d.pages, "LoaderData")
    <3>1. "LoaderData" \in MemoryType
      BY DEF MemoryType
    <3> QED BY <2>2, <2>3, <2>5, <3>1, CutIs
  <2>8. new \in Descriptor /\ new.pages = n /\ new.start = start /\ new.type = "LoaderData"
    BY <2>5, <2>6 DEF Descriptor, MemoryType
  <2> HIDE DEF d, start, pool, cut, whole, new
  <2>9. CASE d.pages = n
    <3>1. map' = whole /\ info' = pool /\ pc' = "root"
      BY <1>5, <2>9 DEF SelectPool, d, L, n, start, pool, whole
    <3>2. Sound(whole, MaxEnd) /\ DOMAIN whole = DOMAIN map
      <4>1. d.pages <= d.pages
        BY <2>4
      <4> QED BY <1>2, <2>2, <2>4, <2>7, <4>1, CutSound DEF d
    <3>3. SamePages(whole, map)
      BY <1>2, <2>2, <2>7, RetypeKeepsPages DEF d
    <3>4. L \in DOMAIN map' /\ map'[L].type = "LoaderData" /\ map'[L].start = start
          /\ map'[L].pages = n
      BY <2>2, <2>6, <2>7, <2>9, <3>1, <3>2 DEF IsCut, d
    <3> QED BY <1>1, <2>4, <2>6, <3>1, <3>2, <3>3, <3>4, PoolSelected DEF pool, n
  <2>10. CASE d.pages # n /\ HasRoom(map, capacity)
    <3>1. map' = Append(cut, new) /\ info' = pool /\ pc' = "root"
      BY <1>5, <2>10 DEF SelectPool, d, L, n, start, pool, cut, new
    <3>2. PoolAdded(Append(cut, new), cut, new, map, L, MaxEnd)
      BY <1>2, <2>2, <2>5, <2>7, <2>8, PoolSound DEF d, start
    <3>3. SamePages(Append(cut, new), map)
      BY <1>2, <2>2, <2>5, <2>7, <2>8, AppendKeepsPages DEF d, start
    <3> DEFINE a == Append(cut, new)
    <3> HIDE DEF a
    <3>4. map' = a /\ PoolAdded(a, cut, new, map, L, MaxEnd) /\ SamePages(a, map)
      BY <3>1, <3>2, <3>3 DEF a
    <3>5. Sound(a, MaxEnd) /\ Len(map) + 1 \in DOMAIN a /\ a[Len(map) + 1] = new
      BY <3>4 DEF PoolAdded
    <3>6. \E k \in DOMAIN map' : /\ map'[k].type = "LoaderData" /\ map'[k].start = start
                                 /\ map'[k].pages = n
      BY <2>8, <3>4, <3>5
    <3> QED BY <1>1, <2>4, <2>6, <3>1, <3>4, <3>5, <3>6, PoolSelected DEF pool, n
  <2>11. CASE d.pages # n /\ ~HasRoom(map, capacity)
    <3>1. map' = cut /\ info' = [pool EXCEPT !.error = "MAP_FULL"] /\ pc' = "failed"
      BY <1>5, <2>11 DEF SelectPool, d, L, n, start, pool, cut
    <3>2. info'.error = "MAP_FULL"
      BY <1>2, <3>1 DEF pool, Info
    <3>3. Sound(cut, MaxEnd)
      <4>1. d.pages - n <= d.pages
        BY <2>4, <2>5
      <4> QED BY <1>2, <2>2, <2>5, <2>7, <4>1, CutSound DEF d
    <3> QED BY <1>1, <3>1, <3>2, <3>3, FailKeeps DEF Sound
  <2> QED BY <2>9, <2>10, <2>11
<1> QED BY <1>4, <1>5

-----------------------------------------------------------------------------
(* What the invariant says.                                                *)

(* The framebuffer's range is the pages it touches.                        *)
LEMMA FbRange ==
    ASSUME PagingTypeOK, MapInv, MapInRange, FbInRange
    PROVE  RangeOf(Len(map) + 1) = FbPages
<1> DEFINE b == fb.base
           z == framebuffer_size_bytes
<1>1. Len(map) \in Nat /\ b \in Nat /\ z \in Nat
  BY RangeFacts
<1>2. From(Len(map) + 1) = b /\ Bytes(Len(map) + 1) = z
  BY <1>1 DEF From, Bytes
<1> HIDE DEF b, z
<1>3. ASSUME NEW p \in LowPages
      PROVE  z # 0 /\ b \div PageSize <= p <=> z > 0 /\ (p + 1) * PageSize > b
  <2>0. p \in Nat
    BY LowHalf
  <2>a. b \div PageSize \in Nat
    BY <1>1, Constants, DivMod
  <2>1. p \in Nat /\ b \div PageSize \in Nat /\ PageSize * (p + 1) = (p + 1) * PageSize
    BY <2>0, <2>a, Constants
  <2>2. p + 1 \in Nat /\ PageSize \in Nat \ {0} /\ (p + 1) * PageSize \in Nat
    BY <2>1, Constants
  <2>3. b \div PageSize < p + 1 <=> b < PageSize * (p + 1)
    BY <1>1, <2>2, DivLess
  <2> QED BY <1>1, <2>1, <2>2, <2>3
<1> QED BY <1>2, <1>3 DEF RangeOf, FbPages, b, z

(* A descriptor's range is its pages.                                      *)
LEMMA DescriptorRange ==
    ASSUME MapInv, NEW k \in DOMAIN map
    PROVE  RangeOf(k) = PagesOf(map[k])
<1>1. map \in Seq(Descriptor) /\ map[k] \in Descriptor /\ k <= Len(map) /\ map[k].start % PageSize = 0
  BY DEF MapInv, Aligned
<1>2. map[k].start \in Nat /\ map[k].pages * PageSize \in Nat
  BY <1>1, DescriptorFields
<1> DEFINE a == map[k].start
           z == map[k].pages * PageSize
           b == a \div PageSize
<1>3. From(k) = a /\ Bytes(k) = z /\ EndOf(map[k]) = a + z
  BY <1>1 DEF From, Bytes, EndOf
<1>4. b \in Nat /\ a = b * PageSize
  BY <1>1, <1>2, IsMultiple
<1>5. a \in Nat /\ z \in Nat
  BY <1>2
<1> HIDE DEF a, z, b
<1>6. ASSUME NEW p \in LowPages
      PROVE  z # 0 /\ b <= p /\ p * PageSize < a + z <=> a <= p * PageSize /\ p * PageSize < a + z
  <2>1. p \in Nat
    BY LowHalf
  <2>2. p * PageSize \in Nat /\ (p * PageSize < b * PageSize <=> p < b)
    BY <1>4, <2>1, PageOrder
  <2> QED BY <1>4, <1>5, <2>1, <2>2
<1> QED BY <1>3, <1>6 DEF RangeOf, PagesOf, a, b

(* When the loops are through, every described page and the framebuffer's  *)
(* are mapped, MMIO and the framebuffer uncached.                          *)
LEMMA AllReached ==
    ASSUME IInv, pc = "loaded"
    PROVE  /\ MappedPages = Described(given) \cup FbPages
           /\ UncachedPages = PagesOfType(given, "MMIO") \cup FbPages
<1>1. PagingTypeOK /\ MapInv /\ MapInRange /\ FbInRange /\ i = Len(map) + 2 /\ Building
  BY DEF IInv, MapInv, LoopInv, Building
<1>2. map \in Seq(Descriptor) /\ Len(map) \in Nat /\ DOMAIN map = 1 .. Len(map)
  BY <1>1 DEF MapInv
<1> DEFINE x == Len(map) + 1
<1>3. Ranges = DOMAIN map \cup {x} /\ x \notin DOMAIN map
  BY <1>2 DEF Ranges
<1>4. ASSUME NEW k \in Ranges, NEW p PROVE Reached(k, p) <=> p \in RangeOf(k)
  BY <1>1, <1>2 DEF Reached, Ranges
<1>5. RangeOf(x) = FbPages /\ \A k \in DOMAIN map : RangeOf(k) = PagesOf(map[k])
  BY <1>1, FbRange, DescriptorRange
<1>6. Uncached(x) /\ \A k \in DOMAIN map : Uncached(k) <=> map[k].type = "MMIO"
  BY <1>2 DEF Uncached, page_flags_for_memory_type
<1>7. \A k : RangeOf(k) \subseteq LowPages
  BY DEF RangeOf
<1> HIDE DEF x
<1>8. \A p : p \in MappedPages <=> p \in FbPages \/ \E k \in DOMAIN map : p \in PagesOf(map[k])
  BY <1>3, <1>4, <1>5, <1>7 DEF MappedPages
<1>9. \A p : p \in UncachedPages
             <=> p \in FbPages \/ \E k \in DOMAIN map : map[k].type = "MMIO" /\ p \in PagesOf(map[k])
  BY <1>3, <1>4, <1>5, <1>6, <1>7 DEF UncachedPages
<1>10. MappedPages = Described(map) \cup FbPages
  BY <1>8, PageSets
<1>11. UncachedPages = PagesOfType(map, "MMIO") \cup FbPages
  BY <1>9, PageSets
<1>12. Described(map) = Described(given) /\ PagesOfType(map, "MMIO") = PagesOfType(given, "MMIO")
  BY <1>1 DEF MapInv
<1> QED BY <1>10, <1>11, <1>12

(* Entry e leads to the table of level l for page p, if there is one.      *)
Found(m, lev, pre, e, p, l) ==
    /\ e.present => e.addr \in DOMAIN m /\ lev[e.addr] = l /\ pre[e.addr] = p \div Span(l)
    /\ ~e.present => \A t \in DOMAIN m : ~(lev[t] = l /\ pre[t] = p \div Span(l))

(* The CPU's walk finds at each level the table of that page.              *)
LEMMA DescendStep ==
    ASSUME NEW N \in Nat, NEW root, NEW lev, NEW pre, NEW D, NEW U,
           WellBuilt(mem, root, lev, pre, N, D, U),
           NEW p \in TablePages, NEW l \in 2 .. 4, NEW e, Found(mem, lev, pre, e, p, l)
    PROVE  Found(mem, lev, pre, Descend(e, p, l), p, l - 1)
<1> DEFINE n == Index(p * PageSize, l)
<1>1. /\ lev \in [DOMAIN mem -> 1 .. 4] /\ pre \in [DOMAIN mem -> Nat]
      /\ Tree(mem, root, lev, pre, N)
  BY DEF WellBuilt
<1>2. n \in 0 .. Entries - 1 /\ p \div Span(l) \in Nat /\ l > 1 /\ l - 1 < 4
      /\ p \div Span(l - 1) = (p \div Span(l)) * Entries + n
  <2>1. l \in 1 .. 4
    OBVIOUS
  <2> QED BY <2>1, Digits
<1> HIDE DEF n
<1>3. CASE e.present
  <2> DEFINE a == e.addr
             c == mem[a][n]
  <2>1. a \in DOMAIN mem /\ lev[a] = l /\ pre[a] = p \div Span(l)
    BY <1>3 DEF Found
  <2>2. Descend(e, p, l) = c
    BY <1>3 DEF Descend, n
  <2> HIDE DEF a
  <2>3. c.present => c.addr \in DOMAIN mem /\ lev[c.addr] = l - 1 /\ pre[c.addr] = p \div Span(l - 1)
    BY <1>1, <1>2, <2>1 DEF Tree
  <2>4. ~c.present => \A t \in DOMAIN mem : ~(lev[t] = l - 1 /\ pre[t] = p \div Span(l - 1))
    BY <1>1, <1>2, <2>1, AbsentIsUncovered
  <2> HIDE DEF c
  <2> QED BY <2>2, <2>3, <2>4 DEF Found
<1>4. CASE ~e.present
  <2>1. Descend(e, p, l) = Absent /\ ~Absent.present
    BY <1>4 DEF Descend, Absent
  <2>2. ASSUME NEW t \in DOMAIN mem, lev[t] = l - 1, pre[t] = p \div Span(l - 1) PROVE FALSE
    <3>1. t # root
      BY <1>1, <1>2, <2>2 DEF Tree
    <3>2. PICK u \in DOMAIN mem, k \in 0 .. Entries - 1 :
             lev[u] > 1 /\ mem[u][k].present /\ mem[u][k].addr = t
      BY <1>1, <3>1 DEF Tree
    <3>3. lev[t] = lev[u] - 1 /\ pre[t] = pre[u] * Entries + k
      BY <1>1, <3>2 DEF Tree
    <3>4. lev[u] \in 1 .. 4 /\ pre[u] \in Nat
      BY <1>1
    <3>5. lev[u] = l /\ pre[u] = p \div Span(l)
      BY <1>2, <2>2, <3>3, <3>4, DigitsUnique
    <3> QED BY <1>4, <3>5 DEF Found
  <2> QED BY <2>1, <2>2 DEF Found
<1> QED BY <1>3, <1>4

(* What the CPU finds for a page is its leaf.                              *)
LEMMA LeafIs ==
    ASSUME NEW N \in Nat, NEW lev, NEW pre, NEW D, NEW U,
           WellBuilt(mem, info.cr3, lev, pre, N, D, U), NEW p \in TablePages
    PROVE  /\ Leaf(p).present <=> p \in D
           /\ Leaf(p).present => Leaf(p).addr = p * PageSize /\ (Leaf(p).uncached <=> p \in U)
<1> DEFINE e4 == Entry(info.cr3, FALSE)
           e3 == Descend(e4, p, 4)
           e2 == Descend(e3, p, 3)
           e1 == Descend(e2, p, 2)
           leaf == Descend(e1, p, 1)
           n == Index(p * PageSize, 1)
<1>1. /\ lev \in [DOMAIN mem -> 1 .. 4] /\ pre \in [DOMAIN mem -> Nat]
      /\ Tree(mem, info.cr3, lev, pre, N) /\ Leaves(mem, lev, pre, D, U)
  BY DEF WellBuilt
<1>2. Found(mem, lev, pre, e4, p, 4)
  <2>1. info.cr3 \in DOMAIN mem /\ lev[info.cr3] = 4 /\ pre[info.cr3] < TablesFor(N, lev[info.cr3])
    BY <1>1 DEF Tree
  <2>2. pre[info.cr3] \in Nat /\ pre[info.cr3] < 1
    BY <1>1, <2>1, TableCounts
  <2>3. pre[info.cr3] = p \div Span(4)
    BY <2>2, Digits
  <2> QED BY <2>1, <2>3 DEF Found, Entry
<1>3. 2 \in 2 .. 4 /\ 3 \in 2 .. 4 /\ 4 \in 2 .. 4 /\ 4 - 1 = 3 /\ 3 - 1 = 2 /\ 2 - 1 = 1
  OBVIOUS
<1> HIDE DEF e4
<1>4. Found(mem, lev, pre, e3, p, 4 - 1)
  BY <1>2, <1>3, DescendStep
<1> HIDE DEF e3
<1>5. Found(mem, lev, pre, e2, p, 3 - 1)
  BY <1>3, <1>4, DescendStep
<1> HIDE DEF e2
<1>6. Found(mem, lev, pre, e1, p, 2 - 1)
  BY <1>3, <1>5, DescendStep
<1> HIDE DEF e1
<1>7. n \in 0 .. Entries - 1 /\ p = (p \div Entries) * Entries + n /\ Span(1) = Entries
  BY Digits, Spans
<1>8. Leaf(p) = leaf
  BY DEF Leaf, e1, e2, e3, e4
<1>9. CASE e1.present
  <2>1. leaf = mem[e1.addr][n]
    BY <1>9 DEF Descend
  <2>2. e1.addr \in DOMAIN mem /\ lev[e1.addr] = 1 /\ pre[e1.addr] = p \div Entries
    BY <1>3, <1>6, <1>7, <1>9 DEF Found
  <2> HIDE DEF leaf, n
  <2>3. pre[e1.addr] * Entries + n = p
    BY <1>7, <2>2
  <2> QED BY <1>1, <1>7, <1>8, <2>1, <2>2, <2>3 DEF Leaves
<1>10. CASE ~e1.present
  <2>1. leaf = Absent /\ ~Absent.present
    BY <1>10 DEF Descend, Absent
  <2>2. p \notin D
    BY <1>1, <1>3, <1>6, <1>7, <1>10 DEF Found, Leaves
  <2> QED BY <1>8, <2>1, <2>2
<1> QED BY <1>9, <1>10

-----------------------------------------------------------------------------
(* The theorems.                                                           *)

(* The invariant holds in the beginning ...                                *)
LEMMA InitInvariant == Init => IInv
<1> SUFFICES ASSUME Init PROVE IInv
  OBVIOUS
<1>1. /\ pc = "measure" /\ map \in Maps /\ given = map /\ fb \in Framebuffers /\ info = Info
      /\ mem = <<>> /\ i = 1 /\ addr = 0
  BY DEF Init
<1>2. PagingTypeOK
  BY <1>1 DEF PagingTypeOK
<1>3. map \in Seq(Descriptor) /\ Aligned(map) /\ Disjoint(map)
  BY <1>1, FirmwareAssumption DEF FirmwareAssumption
<1>4. MapInv
  BY <1>1, <1>3 DEF MapInv, Building
<1>5. LoopInv /\ ~Building /\ PoolSuffices /\ FailureIsNamed
  BY <1>1 DEF LoopInv, Building, PoolSuffices, FailureIsNamed, Info
<1> QED BY <1>1, <1>2, <1>4, <1>5 DEF IInv

(* ... and is kept by every step of setup_kernel_paging.                   *)
LEMMA NextInvariant == IInv /\ [Next]_vars => IInv'
<1> SUFFICES ASSUME IInv, [Next]_vars PROVE IInv'
  OBVIOUS
<1>1. CASE Measure
  BY <1>1, MeasureKeeps
<1>2. CASE SelectPool
  BY <1>2, SelectPoolKeeps
<1>3. CASE AllocRoot
  BY <1>3, AllocRootKeeps
<1>4. CASE StartRange
  BY <1>4, StartRangeKeeps
<1>5. CASE MapPage
  BY <1>5, MapPageKeeps
<1>6. CASE LoadCr3
  BY <1>6, LoadCr3Keeps
<1>7. CASE UNCHANGED vars
  <2>1. UNCHANGED <<map, fb, info, mem, pc, i, addr, given>>
    BY <1>7 DEF vars
  <2>2. CASE Building
    <3>1. LoopInv' /\ i' \in Nat \ {0} /\ addr' \in Nat
      <4>1. Ranges' = Ranges /\ (Bytes(i))' = Bytes(i) /\ (RangeOf(i))' = RangeOf(i)
        BY <2>1 DEF Ranges, RangeOf, Bytes, From, framebuffer_size_bytes
      <4> QED BY <2>1, <4>1 DEF IInv, LoopInv, PagingTypeOK
    <3>2. ASSUME NEW k \in Ranges, NEW q \in LowPages PROVE Reached(k, q)' <=> Reached(k, q)
      <4>1. RangeOf(k)' = RangeOf(k)
        BY <2>1, RangesKept
      <4> QED BY <2>1, <4>1 DEF Reached
    <3>3. pc' \in {"range", "page", "load", "loaded"}
      BY <2>1, <2>2 DEF Building
    <3> QED BY <2>1, <2>2, <3>1, <3>2, <3>3, NothingMapped
  <2>3. CASE ~Building
    <3>1. PagingTypeOK' /\ ~Building' /\ PoolSuffices' /\ FailureIsNamed'
      BY <2>1, <2>3 DEF IInv, PagingTypeOK, Building, PoolSuffices, FailureIsNamed
    <3>2. LoopInv'
      BY <2>1, <2>3 DEF LoopInv, Building
    <3>3. MapInv'
      <4>1. MapInRange' = MapInRange /\ FbInRange' = FbInRange
        BY <2>1, RangesKept
      <4> QED BY <2>1, <2>3, <3>1, <4>1 DEF IInv, MapInv
    <3>4. ASSUME pc = "root" PROVE TablesInv'
      <4>1. PICK N \in Nat : /\ Sized(N) /\ PoolInv(info, mem, N)
                             /\ mem = <<>> /\ info.cr3 = 0 /\ info.mappedPages = 0
        BY <3>4 DEF IInv, TablesInv
      <4>2. Sized(N)'
        BY <2>1, <4>1, RangesKept DEF Sized
      <4> QED BY <2>1, <3>1, <4>1, <4>2 DEF TablesInv
    <3> QED BY <2>1, <3>1, <3>2, <3>3, <3>4 DEF IInv
  <2> QED BY <2>2, <2>3
<1> QED BY <1>1, <1>2, <1>3, <1>4, <1>5, <1>6, <1>7 DEF Next, Stop

(* setup_kernel_paging keeps its invariant: the tables form a tree, hang   *)
(* in the pool, and map what the loops have reached.                       *)
THEOREM InductiveInvariant == Spec => []IInv
<1>1. Init => IInv
  BY InitInvariant
<1>2. IInv /\ [Next]_vars => IInv'
  BY NextInvariant
<1> QED BY <1>1, <1>2, PTL DEF Spec

(* estimate_identity_page_table_pages is always enough: no map, frame-     *)
(* buffer, table size or slack makes alloc_page_table_page run dry, and    *)
(* map_identity_range_4k never finds an entry that maps another page.      *)
THEOREM PoolIsLargeEnough == Spec => []PoolSuffices
<1>1. IInv => PoolSuffices
  BY DEF IInv
<1> QED BY <1>1, InductiveInvariant, PTL

(* Every failure has its error recorded, but the one of a pool that starts *)
(* at address 0.                                                           *)
THEOREM FailuresAreNamed == Spec => []FailureIsNamed
<1>1. IInv => FailureIsNamed
  BY DEF IInv
<1> QED BY <1>1, InductiveInvariant, PTL

(* The map keeps describing the same pages once, after                     *)
(* select_page_table_pool has cut the pool out of it, and the tables lie   *)
(* outside what it calls conventional.                                     *)
THEOREM MapIsKeptWhole == Spec => []MapStaysWhole
<1>1. ASSUME IInv PROVE MapStaysWhole
  <2> SUFFICES ASSUME Building PROVE MapStaysWhole
    BY DEF MapStaysWhole
  <2>1. MapInv /\ map \in Seq(Descriptor) /\ Aligned(map) /\ Disjoint(map)
        /\ Described(map) = Described(given)
    BY <1>1 DEF IInv, MapInv
  <2>2. \A k \in DOMAIN map : /\ map[k] \in Descriptor /\ map[k].start \in Nat
                              /\ EndOf(map[k]) \in Nat
    BY <2>1, DescriptorFields
  <2>3. \A p \in LowPages : p * PageSize \in Nat
    BY LowHalf, Multiples
  <2>4. ASSUME NEW j \in DOMAIN map, NEW k \in DOMAIN map, j # k
        PROVE  PagesOf(map[j]) \cap PagesOf(map[k]) = {}
    <3>1. EndOf(map[j]) <= map[k].start \/ EndOf(map[k]) <= map[j].start
      BY <2>1, <2>4 DEF Disjoint
    <3> QED BY <2>2, <2>3, <3>1 DEF PagesOf
  <2>5. PICK k \in DOMAIN map : /\ map[k].type = "LoaderData"
                                /\ map[k].start = info.poolStart
                                /\ map[k].pages = info.reserved
    BY <2>1 DEF MapInv
  <2>6. PICK N \in Nat : PoolInv(info, mem, N)
    BY <1>1, BuildingFacts
  <2>7. ASSUME NEW t \in DOMAIN mem, t \div PageSize \in PagesOfType(map, "Conventional")
        PROVE  FALSE
    <3> DEFINE p == t \div PageSize
    <3>1. PICK j \in DOMAIN map : map[j].type = "Conventional" /\ p \in PagesOf(map[j])
      BY <2>7, PageSets
    <3>2. p \in LowPages /\ map[j].start <= p * PageSize /\ p * PageSize < EndOf(map[j])
          /\ p * PageSize \in Nat
      BY <2>3, <3>1 DEF PagesOf
    <3>3. t \in Nat /\ info.poolStart <= t /\ t < info.poolNext
      BY <2>6 DEF PoolInv
    <3>4. info.poolStart \in Nat /\ info.allocated \in Nat /\ info.reserved \in Nat
          /\ info.allocated <= info.reserved
          /\ info.poolNext = info.poolStart + info.allocated * PageSize
      BY <2>6 DEF PoolInv, PagingInfo
    <3>5. info.poolNext <= EndOf(map[k])
      <4>1. info.allocated * PageSize <= info.reserved * PageSize
            /\ info.allocated * PageSize \in Nat
        BY <3>4, Constants, MulMono
      <4>2. info.reserved * PageSize \in Nat
        BY <3>4, Constants
      <4> QED BY <2>5, <3>4, <4>1, <4>2 DEF EndOf
    <3>6. p \in Nat /\ t % PageSize \in Nat /\ t = PageSize * p + (t % PageSize)
          /\ PageSize * p = p * PageSize /\ PageSize * p \in Nat
      <4>1. p \in Nat /\ t % PageSize \in 0 .. PageSize - 1 /\ t = PageSize * p + (t % PageSize)
        BY <3>3, Constants, DivMod
      <4> HIDE DEF p
      <4> QED BY <4>1, Constants
    <3> HIDE DEF p
    <3>7. p * PageSize < EndOf(map[k])
      <4>1. info.poolNext \in Nat
        <5>1. info.allocated * PageSize \in Nat
          BY <3>4, Constants
        <5> QED BY <3>4, <5>1
      <4> QED BY <2>2, <3>3, <3>5, <3>6, <4>1
    <3>8. map[k].start <= p * PageSize
      <4> DEFINE b == map[k].start \div PageSize
      <4>1. map[k].start % PageSize = 0
        BY <2>1 DEF Aligned
      <4>2. b \in Nat /\ map[k].start = b * PageSize
        BY <2>2, <4>1, IsMultiple
      <4>3. PageSize * b = b * PageSize /\ PageSize * b <= t
        <5> HIDE DEF b
        <5> QED BY <2>5, <3>3, <4>2, Constants
      <4>4. b <= p
        <5> HIDE DEF b
        <5> QED BY <3>3, <4>2, <4>3, Constants, DivLess DEF p
      <4> HIDE DEF b
      <4> QED BY <3>6, <4>2, <4>4, Constants, MulMono
    <3>9. j # k
      BY <2>5, <3>1
    <3>10. EndOf(map[j]) <= map[k].start \/ EndOf(map[k]) <= map[j].start
      BY <2>1, <3>9 DEF Disjoint
    <3> QED BY <2>2, <3>2, <3>7, <3>8, <3>10
  <2> QED BY <2>1, <2>4, <2>7 DEF MapStaysWhole
<1> QED BY <1>1, InductiveInvariant, PTL

(* When CR3 is loaded the CPU finds every described page and the frame-    *)
(* buffer's at its own address, below LOW_CANONICAL_LIMIT, and nothing     *)
(* else in either half, MMIO and the framebuffer uncached, and             *)
(* mapped_pages is their number.                                           *)
THEOREM LoadedMapIsIdentity == Spec => []LoadedMapIsExact
<1>1. ASSUME IInv PROVE LoadedMapIsExact
  <2> SUFFICES ASSUME pc = "loaded" PROVE LoadedMapIsExact
    BY DEF LoadedMapIsExact
  <2> DEFINE mapped == { p \in TablePages : Leaf(p).present }
  <2>1. Building
    BY DEF Building
  <2>2. PICK N \in Nat :
           /\ info.mappedPages = Cardinality(MappedPages)
           /\ \E lev, pre : WellBuilt(mem, info.cr3, lev, pre, N, MappedPages, UncachedPages)
    BY <1>1, <2>1, BuildingFacts
  <2>3. PICK lev, pre : WellBuilt(mem, info.cr3, lev, pre, N, MappedPages, UncachedPages)
    BY <2>2
  <2>4. ASSUME NEW p \in TablePages
        PROVE  /\ Leaf(p).present <=> p \in MappedPages
               /\ Leaf(p).present => /\ Leaf(p).addr = p * PageSize
                                     /\ Leaf(p).uncached <=> p \in UncachedPages
    BY <2>3, LeafIs
  <2>5. MappedPages \subseteq TablePages
    BY LowHalf DEF MappedPages
  <2>6. mapped = MappedPages
    BY <2>4, <2>5
  <2>7. /\ MappedPages = Described(given) \cup FbPages
        /\ UncachedPages = PagesOfType(given, "MMIO") \cup FbPages
    BY <1>1, AllReached
  <2>8. /\ \A p \in mapped : Leaf(p).addr = p * PageSize
        /\ \A p \in mapped : Leaf(p).uncached <=> p \in PagesOfType(given, "MMIO") \cup FbPages
    BY <2>4, <2>7
  <2>9. mapped = Described(given) \cup FbPages /\ info.mappedPages = Cardinality(mapped)
    BY <2>2, <2>6, <2>7
  <2> QED BY <2>8, <2>9 DEF LoadedMapIsExact
<1> QED BY <1>1, InductiveInvariant, PTL
=============================================================================
