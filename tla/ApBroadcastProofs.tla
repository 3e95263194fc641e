------------------------- MODULE ApBroadcastProofs -------------------------
(***************************************************************************)
(* Proofs about the broadcast round, for any number of APs and any wait.   *)
(*                                                                         *)
(* The argument.  A ping that was sent is either waited for or recorded,   *)
(* never both (SlotInv), so each of the two recording loops adds one       *)
(* context to the recorded ones; the counts then follow from the           *)
(* cardinality of that set.  An AP can turn RUNNING into DONE only between *)
(* its claim and its completion, and runs the handler once in between      *)
(* (ServeInv); a recorded slot is neither PENDING nor RUNNING, and no      *)
(* cmpxchg of either side matches it.                                      *)
(***************************************************************************)
EXTENDS ApBroadcast, FiniteSetTheorems, TLAPS

(* The contexts are numbered from 0, and the wait is bounded.              *)
LEMMA Constants ==
    /\ ContextCount \in Nat /\ TimeoutLoops \in Nat /\ TimeoutLoops > 0
    /\ TimerStep \in Nat /\ TimerStep > 0
    /\ Contexts = 0 .. ContextCount - 1 /\ \A c \in Contexts : c \in Nat /\ c < ContextCount
BY BroadcastAssumption DEF BroadcastAssumption, Contexts

(* The wait never goes back and never passes its bound.                    *)
LEMMA AdvanceType ==
    ASSUME loops \in 0 .. TimeoutLoops, NEW k \in Nat
    PROVE  Advance(k) \in 0 .. TimeoutLoops /\ Advance(k) >= loops
BY Constants DEF Advance

(* What a step of an AP does to the words: nothing, a claim, a completion  *)
(* or a fault of its own ping.                                             *)
LEMMA ApWord ==
    ASSUME RoundTypeOK, NEW c \in Contexts, Ap(c)
    PROVE  /\ word' \in [Contexts -> {"EMPTY", "PENDING", "RUNNING"} \cup Final]
           /\ \A d \in Contexts : d # c => word'[d] = word[d] /\ apPc'[d] = apPc[d]
                                          /\ ran'[d] = ran[d]
           /\ \/ word'[c] = word[c]
              \/ word[c] = "PENDING" /\ word'[c] = "RUNNING" /\ apPc[c] = "sweep"
                 /\ apPc'[c] = "claimed"
              \/ word[c] = "RUNNING" /\ word'[c] = "DONE" /\ apPc[c] = "handled"
              \/ word[c] = "RUNNING" /\ word'[c] = "FAULT"
           /\ UNCHANGED <<bootOk, bspVars>>
<1> USE DEF RoundTypeOK, Final
<1>1. CASE Claim(c)
  BY <1>1 DEF Claim, ApStep
<1>2. CASE Handle(c)
  BY <1>2 DEF Handle, ApStep
<1>3. CASE Complete(c)
  BY <1>3 DEF Complete, ApStep
<1>4. CASE FaultSlot(c)
  BY <1>4 DEF FaultSlot, ApStep
<1>5. CASE FaultMark(c)
  BY <1>5 DEF FaultMark, ApStep
<1> QED BY <1>1, <1>2, <1>3, <1>4, <1>5 DEF Ap

(* The AP's steps keep the types.                                          *)
LEMMA ApTypeStep ==
    ASSUME RoundTypeOK, NEW c \in Contexts, Ap(c)
    PROVE  RoundTypeOK'
<1>1. word' \in [Contexts -> {"EMPTY", "PENDING", "RUNNING"} \cup Final]
  BY ApWord
<1>2. UNCHANGED <<bootOk, bspVars>>
  BY ApWord
<1>3. health' \in [Contexts -> {"ONLINE", "FAULTED"}] /\ ran' \in [Contexts -> Nat]
      /\ apPc' \in [Contexts -> {"sweep", "claimed", "handled", "faulting", "dead"}]
  <2> USE DEF RoundTypeOK, ApStep
  <2>1. CASE Claim(c) \/ Handle(c)
    BY <2>1 DEF Claim, Handle
  <2>2. CASE Complete(c) \/ FaultSlot(c) \/ FaultMark(c)
    BY <2>2 DEF Complete, FaultSlot, FaultMark
  <2> QED BY <2>1, <2>2 DEF Ap
<1> QED BY <1>1, <1>2, <1>3 DEF RoundTypeOK, bspVars

(* An AP's step runs the handler only from "claimed", and completes only   *)
(* from "handled".                                                         *)
LEMMA ApServeStep ==
    ASSUME RoundTypeOK, ServeInv, NEW c \in Contexts, Ap(c)
    PROVE  ServeInv'
<1> USE DEF RoundTypeOK, ServeInv, ApStep
<1>1. CASE Claim(c)
  BY <1>1 DEF Claim
<1>2. CASE Handle(c)
  BY <1>2 DEF Handle
<1>3. CASE Complete(c)
  BY <1>3 DEF Complete
<1>4. CASE FaultSlot(c)
  BY <1>4 DEF FaultSlot
<1>5. CASE FaultMark(c)
  BY <1>5 DEF FaultMark
<1> QED BY <1>1, <1>2, <1>3, <1>4, <1>5 DEF Ap

(* A step of an AP keeps the BSP's picture of the round.                   *)
LEMMA ApControlStep ==
    ASSUME RoundTypeOK, ControlInv, SlotInv, NEW c \in Contexts, Ap(c)
    PROVE  ControlInv' /\ SlotInv'
<1>1. UNCHANGED <<bootOk, pc, i, active, loops, entry, sum>>
  BY ApWord DEF bspVars
<1>2. \A d \in Contexts : \/ word'[d] = word[d]
                          \/ word[d] = "PENDING" /\ word'[d] = "RUNNING"
                          \/ word[d] = "RUNNING" /\ word'[d] \in {"DONE", "FAULT"}
  BY ApWord
<1>3. \A d \in Contexts : entry[d] \in {"none"} \cup Final
  BY DEF RoundTypeOK
<1>4. SlotInv'
  BY <1>1, <1>2, <1>3 DEF SlotInv, Sent, Final
<1>5. ControlInv'
  BY <1>1, <1>2 DEF ControlInv, Sent, Final
<1> QED BY <1>4, <1>5

(* A step of an AP keeps the invariant.                                    *)
LEMMA ApStepHolds ==
    ASSUME IInv, NEW c \in Contexts, Ap(c)
    PROVE  IInv'
<1>1. UNCHANGED <<bootOk, pc, i, active, loops, entry, sum>>
  BY ApWord DEF IInv, bspVars
<1>2. CountInv'
  BY <1>1 DEF IInv, CountInv, Recorded, Sent
<1> QED BY <1>2, ApTypeStep, ApServeStep, ApControlStep DEF IInv

(* Recording one more context: the set of those recorded so far grows by   *)
(* one.                                                                    *)
LEMMA OneMore ==
    ASSUME NEW S, NEW T, S \subseteq Contexts, NEW c \in Contexts, c \notin S, T = S \cup {c}
    PROVE  Cardinality(T) = Cardinality(S) + 1
<1>1. IsFiniteSet(Contexts)
  BY Constants, FS_Interval
<1>2. IsFiniteSet(S)
  BY <1>1, FS_Subset
<1> QED BY <1>2, FS_AddElement

(* Recording a final slot keeps the summary in step with the entries.      *)
LEMMA RecordCounts ==
    ASSUME RoundTypeOK, SlotInv, CountInv, NEW c \in active, word[c] \in Final, record(c)
    PROVE  /\ CountInv'
           /\ sum' \in [planned : Nat, completed : Nat, ok : Nat, fail : Nat]
           /\ entry' \in [Contexts -> {"none"} \cup Final] /\ active' \subseteq Contexts
<1>0. c \in Contexts /\ entry[c] = "none"
  BY DEF RoundTypeOK, SlotInv
<1>1. entry' = [entry EXCEPT ![c] = word[c]] /\ active' = active \ {c}
  BY DEF record
<1>2. entry \in [Contexts -> {"none"} \cup Final] /\ sum \in [planned : Nat, completed : Nat, ok : Nat, fail : Nat]
  BY DEF RoundTypeOK
<1>3. /\ sum'.planned = sum.planned /\ sum'.completed = sum.completed + 1
      /\ sum'.ok = IF word[c] = "DONE" THEN sum.ok + 1 ELSE sum.ok
      /\ sum'.fail = IF word[c] = "DONE" THEN sum.fail ELSE sum.fail + 1
      /\ sum' \in [planned : Nat, completed : Nat, ok : Nat, fail : Nat]
  <2> DEFINE a == IF word[c] = "DONE" THEN sum.ok + 1 ELSE sum.ok
             b == IF word[c] = "DONE" THEN sum.fail ELSE sum.fail + 1
  <2>1. sum' = [sum EXCEPT !.completed = sum.completed + 1, !.ok = a, !.fail = b]
    BY DEF record
  <2>2. a \in Nat /\ b \in Nat /\ sum.completed + 1 \in Nat
    BY <1>2
  <2>3. /\ sum'.planned = sum.planned /\ sum'.completed = sum.completed + 1
        /\ sum'.ok = a /\ sum'.fail = b
    <3> HIDE DEF a, b
    <3> QED BY <1>2, <2>1
  <2>4. sum' \in [planned : Nat, completed : Nat, ok : Nat, fail : Nat]
    <3> HIDE DEF a, b
    <3> QED BY <1>2, <2>1, <2>2
  <2> QED BY <2>3, <2>4
<1> DEFINE Rec(S) == { d \in Contexts : entry[d] \in S }
           RecNext(S) == { d \in Contexts : entry'[d] \in S }
<1>4. RecNext(Final) = Rec(Final) \cup {c} /\ c \notin Rec(Final)
  BY <1>0, <1>1, <1>2 DEF Final
<1>5. Cardinality(RecNext(Final)) = Cardinality(Rec(Final)) + 1
  <2>1. Rec(Final) \subseteq Contexts
    OBVIOUS
  <2> HIDE DEF Rec, RecNext
  <2> QED BY <1>0, <1>4, <2>1, OneMore
<1>6. /\ word[c] = "DONE" => Cardinality(RecNext({"DONE"})) = Cardinality(Rec({"DONE"})) + 1
      /\ word[c] # "DONE" => RecNext({"DONE"}) = Rec({"DONE"})
  <2>1. CASE word[c] = "DONE"
    <3>1. RecNext({"DONE"}) = Rec({"DONE"}) \cup {c} /\ c \notin Rec({"DONE"})
      BY <1>0, <1>1, <1>2, <2>1
    <3>2. Rec({"DONE"}) \subseteq Contexts
      OBVIOUS
    <3> HIDE DEF Rec, RecNext
    <3> QED BY <1>0, <2>1, <3>1, <3>2, OneMore
  <2>2. CASE word[c] # "DONE"
    <3>1. RecNext({"DONE"}) = Rec({"DONE"})
      BY <1>0, <1>1, <1>2, <2>2
    <3> HIDE DEF Rec, RecNext
    <3> QED BY <2>2, <3>1
  <2> QED BY <2>1, <2>2
<1>7. { d \in Contexts : Sent(d) }' = { d \in Contexts : Sent(d) }
  BY <1>0, <1>1, <1>2 DEF Sent, Final
<1>8. /\ sum.completed = Cardinality(Rec(Final)) /\ sum.ok = Cardinality(Rec({"DONE"}))
      /\ sum.ok + sum.fail = sum.completed
      /\ sum.planned = Cardinality({ d \in Contexts : Sent(d) })
  BY DEF CountInv, Recorded
<1>9. CountInv'
  <2>1. /\ sum'.completed = Cardinality(RecNext(Final))
        /\ sum'.ok = Cardinality(RecNext({"DONE"}))
        /\ sum'.ok + sum'.fail = sum'.completed
    <3> HIDE DEF Rec, RecNext
    <3> QED BY <1>2, <1>3, <1>5, <1>6, <1>8
  <2>2. sum'.planned = Cardinality({ d \in Contexts : Sent(d) }')
    BY <1>3, <1>7, <1>8
  <2> QED BY <2>1, <2>2 DEF CountInv, Recorded
<1>10. entry' \in [Contexts -> {"none"} \cup Final] /\ active' \subseteq Contexts
  BY <1>0, <1>1, <1>2 DEF RoundTypeOK
<1> QED BY <1>3, <1>9, <1>10

(* Sending one more ping counts it as planned.                             *)
LEMMA StoreCounts ==
    ASSUME IInv, Store
    PROVE  /\ CountInv'
           /\ sum' \in [planned : Nat, completed : Nat, ok : Nat, fail : Nat]
<1>0. i \in Contexts /\ ~Sent(i) /\ pc = "store"
  BY Constants DEF IInv, ControlInv, Store, Goto
<1>1. active' = active \cup {i} /\ entry' = entry /\ sum' = [sum EXCEPT !.planned = sum.planned + 1]
  BY DEF Store
<1>2. sum \in [planned : Nat, completed : Nat, ok : Nat, fail : Nat]
  BY DEF IInv, RoundTypeOK
<1>3. /\ sum'.planned = sum.planned + 1 /\ sum'.completed = sum.completed
      /\ sum'.ok = sum.ok /\ sum'.fail = sum.fail
      /\ sum' \in [planned : Nat, completed : Nat, ok : Nat, fail : Nat]
  BY <1>1, <1>2
<1> DEFINE S == { d \in Contexts : Sent(d) }
           T == { d \in Contexts : Sent(d) }'
<1>4. T = S \cup {i} /\ i \notin S /\ S \subseteq Contexts
  BY <1>0, <1>1 DEF Sent
<1>5. sum.planned = Cardinality(S)
  BY DEF IInv, CountInv
<1>6. Cardinality(T) = Cardinality(S) + 1
  <2> HIDE DEF S, T
  <2> QED BY <1>0, <1>4, OneMore
<1>7. sum'.planned = Cardinality(T)
  BY <1>3, <1>5, <1>6
<1> QED BY <1>1, <1>3, <1>7 DEF IInv, CountInv, Recorded

(* One lemma for each step of the BSP that does more than move on.         *)
LEMMA OfferHolds ==
    ASSUME IInv, Offer
    PROVE  IInv'
<1>1. UNCHANGED <<bootOk, health, apPc, ran, word, ipi, active, loops, entry, sum>>
  BY DEF Offer, Goto
<1>2. pc = "publish" /\ i \in Contexts
      /\ (\/ pc' = "store" /\ i' = i /\ bootOk[i]
          \/ pc' = "publish" /\ i' = i + 1)
  BY Constants DEF Offer, Goto, CanAccept, IInv, RoundTypeOK
<1>3. i' \in 0 .. ContextCount /\ i' >= i
  BY <1>2, Constants
<1>4. RoundTypeOK'
  BY <1>1, <1>2, <1>3 DEF IInv, RoundTypeOK
<1>5. ControlInv'
  <2>1. \A c \in Contexts : c < i => c < i'
    BY <1>2, <1>3, Constants
  <2> QED BY <1>1, <1>2, <2>1 DEF IInv, ControlInv, Sent
<1>6. SlotInv' /\ ServeInv' /\ CountInv'
  BY <1>1 DEF IInv, SlotInv, ServeInv, CountInv, Recorded, Sent
<1> QED BY <1>4, <1>5, <1>6 DEF IInv

(* Publishing a ping keeps the invariant.                                  *)
LEMMA StoreHolds ==
    ASSUME IInv, Store
    PROVE  IInv'
<1>0. i \in Contexts /\ ~Sent(i) /\ bootOk[i] /\ word[i] = "EMPTY" /\ i + 1 \in 0 .. ContextCount
  BY Constants DEF IInv, ControlInv, SlotInv, Store, Goto
<1>1. /\ UNCHANGED <<bootOk, health, apPc, ran, loops, entry>>
      /\ pc' = "publish" /\ i' = i + 1 /\ active' = active \cup {i}
  BY DEF Store, Goto
<1>2. PICK w \in {"PENDING", "FAULT"} : word' = [word EXCEPT ![i] = w]
  BY DEF Store
<1>3. RoundTypeOK'
  BY <1>0, <1>1, <1>2, StoreCounts DEF IInv, RoundTypeOK, Final
<1>4. ControlInv'
  <2>1. \A c \in Contexts : Sent(c)' => c < i'
    BY <1>0, <1>1, Constants DEF IInv, ControlInv, Sent, Store, Goto
  <2> QED BY <1>1, <2>1 DEF ControlInv
<1>5. SlotInv'
  BY <1>0, <1>1, <1>2 DEF IInv, SlotInv, Sent, RoundTypeOK
<1>6. ServeInv'
  BY <1>0, <1>1, <1>2 DEF IInv, ServeInv, RoundTypeOK
<1> QED BY <1>3, <1>4, <1>5, <1>6, StoreCounts DEF IInv

(* record, from either loop: the context leaves active as it is recorded.  *)
LEMMA RecordHolds ==
    ASSUME IInv, pc \in {"scan", "record"}, i \in active, word[i] \in Final, record(i),
           i' = i + 1, pc' = IF pc = "scan" THEN "scan" ELSE "expire",
           UNCHANGED <<bootOk, health, apPc, ran, word, ipi, loops>>
    PROVE  IInv'
<1>0. i \in Contexts /\ i + 1 \in 0 .. ContextCount /\ entry[i] = "none"
  BY Constants DEF IInv, RoundTypeOK, SlotInv
<1>1. entry' = [entry EXCEPT ![i] = word[i]] /\ active' = active \ {i}
  BY DEF record
<1>2. RoundTypeOK'
  BY <1>0, RecordCounts DEF IInv, RoundTypeOK
<1>3. ControlInv'
  <2>1. pc = "record" => loops = TimeoutLoops /\ \A c \in active' : c >= i + 1
    BY <1>0, <1>1, Constants DEF IInv, ControlInv, RoundTypeOK
  <2> QED BY <2>1 DEF ControlInv
<1>4. \A c \in Contexts : Sent(c)' <=> Sent(c)
  BY <1>0, <1>1 DEF IInv, RoundTypeOK, Sent, Final
<1>5. SlotInv'
  BY <1>0, <1>1, <1>4 DEF IInv, SlotInv, RoundTypeOK
<1>6. ServeInv'
  BY DEF IInv, ServeInv
<1> QED BY <1>2, <1>3, <1>5, <1>6, RecordCounts DEF IInv

(* A step that only moves the BSP: what it must establish.                 *)
LEMMA MoveHolds ==
    ASSUME IInv, UNCHANGED <<bootOk, health, apPc, ran, word, active, entry, sum>>,
           i' \in 0 .. ContextCount, loops' \in 0 .. TimeoutLoops, loops' >= loops,
           pc' \in {"scan", "asleep", "expire", "done"},
           pc' = "asleep" => i' = 0,
           pc' = "expire" => loops' = TimeoutLoops /\ \A c \in active : c >= i',
           pc' = "done" => active = {}
    PROVE  IInv'
<1>1. RoundTypeOK'
  BY DEF IInv, RoundTypeOK
<1>2. ControlInv'
  BY DEF ControlInv
<1>3. loops = TimeoutLoops => loops' = TimeoutLoops
  BY Constants
<1>4. SlotInv'
  BY <1>3 DEF IInv, SlotInv, Sent
<1>5. ServeInv' /\ CountInv'
  BY DEF IInv, ServeInv, CountInv, Recorded, Sent
<1> QED BY <1>1, <1>2, <1>4, <1>5 DEF IInv

(* The two cmpxchg of a timeout take the ping away from the AP.            *)
LEMMA ExpireHolds ==
    ASSUME IInv, Expire
    PROVE  IInv'
<1>0. i \in Contexts /\ i + 1 \in 0 .. ContextCount /\ pc = "expire" /\ loops = TimeoutLoops
  BY Constants DEF IInv, RoundTypeOK, ControlInv, Expire, Goto
<1>1. UNCHANGED <<bootOk, health, apPc, ran, ipi, active, loops, entry, sum>>
  BY DEF Expire, Goto
<1>2. CASE i \notin active
  <2>1. pc' = "expire" /\ i' = i + 1 /\ word' = word
    BY <1>2 DEF Expire, Goto
  <2>2. \A c \in active : c >= i + 1
    BY <1>0, <1>2, Constants DEF IInv, RoundTypeOK, ControlInv
  <2>3. loops' \in 0 .. TimeoutLoops /\ loops' >= loops
    BY <1>0, <1>1, Constants
  <2> QED BY <1>0, <1>1, <2>1, <2>2, <2>3, MoveHolds
<1>3. CASE i \in active
  <2>1. /\ i' = i /\ pc' = IF word[i] = "RUNNING" THEN "expireRunning" ELSE "record"
        /\ word' = [word EXCEPT ![i] = IF word[i] = "PENDING" THEN "TIMEOUT" ELSE word[i]]
    BY <1>3 DEF Expire, Goto
  <2>2. word[i] # "EMPTY" /\ entry[i] = "none"
    BY <1>0, <1>3 DEF IInv, SlotInv, Sent
  <2>3. RoundTypeOK'
    BY <1>0, <1>1, <2>1 DEF IInv, RoundTypeOK, Final
  <2>4. ControlInv'
    <3>1. pc' = "record" => word'[i] \in Final
      BY <1>0, <2>1, <2>2 DEF IInv, RoundTypeOK, Final
    <3>2. pc' = "expireRunning" => word'[i] # "PENDING"
      BY <1>0, <2>1 DEF IInv, RoundTypeOK
    <3> QED BY <1>0, <1>1, <1>3, <2>1, <3>1, <3>2 DEF IInv, ControlInv
  <2>5. SlotInv'
    BY <1>0, <1>1, <2>1, <2>2 DEF IInv, SlotInv, RoundTypeOK, Sent
  <2>6. ServeInv'
    BY <1>0, <1>1, <2>1 DEF IInv, ServeInv, RoundTypeOK
  <2>7. CountInv'
    BY <1>1 DEF IInv, CountInv, Recorded, Sent
  <2> QED BY <2>3, <2>4, <2>5, <2>6, <2>7 DEF IInv
<1> QED BY <1>2, <1>3

(* Expiring a RUNNING ping keeps the invariant.                            *)
LEMMA ExpireRunningHolds ==
    ASSUME IInv, ExpireRunning
    PROVE  IInv'
<1>0. i \in active /\ i \in Contexts /\ pc = "expireRunning" /\ loops = TimeoutLoops
      /\ word[i] # "PENDING" /\ \A c \in active : c >= i
  BY DEF IInv, RoundTypeOK, ControlInv, ExpireRunning, Goto
<1>1. UNCHANGED <<bootOk, health, apPc, ran, ipi, i, active, loops, entry, sum>>
  BY DEF ExpireRunning, Goto
<1>2. /\ pc' = "record"
      /\ word' = [word EXCEPT ![i] = IF word[i] = "RUNNING" THEN "TIMEOUT" ELSE word[i]]
  BY DEF ExpireRunning, Goto
<1>3. word[i] # "EMPTY" /\ entry[i] = "none"
  BY <1>0 DEF IInv, SlotInv, Sent
<1>4. RoundTypeOK'
  BY <1>0, <1>1, <1>2 DEF IInv, RoundTypeOK, Final
<1>5. ControlInv'
  <2>1. word'[i] \in Final
    BY <1>0, <1>2, <1>3 DEF IInv, RoundTypeOK, Final
  <2> QED BY <1>0, <1>1, <1>2, <2>1 DEF ControlInv
<1>6. SlotInv'
  BY <1>0, <1>1, <1>2, <1>3 DEF IInv, SlotInv, RoundTypeOK, Sent
<1>7. ServeInv'
  BY <1>0, <1>1, <1>2 DEF IInv, ServeInv, RoundTypeOK
<1>8. CountInv'
  BY <1>1 DEF IInv, CountInv, Recorded, Sent
<1> QED BY <1>4, <1>5, <1>6, <1>7, <1>8 DEF IInv

(* Every step of the BSP keeps the invariant.                              *)
LEMMA BspStepHolds ==
    ASSUME IInv, BspStep
    PROVE  IInv'
<1>0. /\ loops \in 0 .. TimeoutLoops /\ loops >= loops /\ 0 \in 0 .. ContextCount
      /\ i \in 0 .. ContextCount /\ active \subseteq Contexts
  BY Constants DEF IInv, RoundTypeOK
<1>1. CASE Published
  <2>1. /\ UNCHANGED <<bootOk, health, apPc, ran, word, active, entry, sum, loops>> /\ i' = 0
        /\ pc' = IF active = {} THEN "done" ELSE "scan"
    BY <1>1 DEF Published, Goto
  <2> QED BY <1>0, <2>1, MoveHolds
<1>2. CASE Scan
  <2>1. /\ UNCHANGED <<bootOk, health, apPc, ran, word, ipi, loops>> /\ i' = i + 1
        /\ i < ContextCount /\ pc = "scan" /\ pc' = "scan"
    BY <1>2 DEF Scan, Goto
  <2>2. CASE i \in active /\ finished(word[i])
    <3>1. word[i] \in Final
      BY <1>0, <2>2 DEF IInv, RoundTypeOK, finished, Final
    <3>2. record(i)
      BY <1>2, <2>2 DEF Scan
    <3> QED BY <2>1, <2>2, <3>1, <3>2, RecordHolds
  <2>3. CASE ~(i \in active /\ finished(word[i]))
    <3>1. UNCHANGED <<active, entry, sum>>
      BY <1>2, <2>3 DEF Scan
    <3>2. i' \in 0 .. ContextCount
      BY <1>0, <2>1, Constants
    <3> QED BY <1>0, <2>1, <3>1, <3>2, MoveHolds
  <2> QED BY <2>2, <2>3
<1>3. CASE ScanEnd
  <2>1. /\ UNCHANGED <<bootOk, health, apPc, ran, word, active, entry, sum, loops>> /\ i' = 0
        /\ pc' = IF active = {} THEN "done" ELSE "asleep"
    BY <1>3 DEF ScanEnd, Goto
  <2> QED BY <1>0, <2>1, MoveHolds
<1>4. CASE Wake
  <2>1. /\ UNCHANGED <<bootOk, health, apPc, ran, word, active, entry, sum, i>>
        /\ pc = "asleep" /\ pc' = IF loops' < TimeoutLoops THEN "scan" ELSE "expire"
        /\ loops' = Advance(1) \/ loops' = Advance(TimerStep)
    BY <1>4 DEF Wake, Goto
  <2>2. loops' \in 0 .. TimeoutLoops /\ loops' >= loops
    <3>1. 1 \in Nat /\ TimerStep \in Nat
      BY Constants
    <3> QED BY <1>0, <2>1, <3>1, AdvanceType
  <2>3. ~(loops' < TimeoutLoops) => loops' = TimeoutLoops
    BY <2>2, Constants
  <2>4. i' = 0 /\ \A c \in active : c >= i'
    BY <1>0, <2>1, Constants DEF IInv, ControlInv
  <2> QED BY <1>0, <2>1, <2>2, <2>3, <2>4, MoveHolds
<1>5. CASE Record
  <2>1. /\ UNCHANGED <<bootOk, health, apPc, ran, word, ipi, loops>> /\ i' = i + 1
        /\ pc = "record" /\ pc' = "expire" /\ record(i)
    BY <1>5 DEF Record, Goto
  <2>2. i \in active /\ word[i] \in Final
    BY <2>1 DEF IInv, ControlInv
  <2> QED BY <2>1, <2>2, RecordHolds
<1>6. CASE Expired
  <2>1. /\ UNCHANGED <<bootOk, health, apPc, ran, word, active, entry, sum, i, loops>>
        /\ pc = "expire" /\ pc' = "done" /\ i = ContextCount
    BY <1>6 DEF Expired, Goto
  <2>2. active = {}
    BY <1>0, <2>1, Constants DEF IInv, ControlInv
  <2> QED BY <1>0, <2>1, <2>2, MoveHolds
<1> QED BY <1>1, <1>2, <1>3, <1>4, <1>5, <1>6, OfferHolds, StoreHolds, ExpireHolds,
           ExpireRunningHolds DEF BspStep

(* The invariant holds before the round.                                   *)
LEMMA InitHolds ==
    ASSUME Init
    PROVE  IInv
<1>1. RoundTypeOK
  BY Constants DEF Init, RoundTypeOK, Final
<1>2. ControlInv /\ SlotInv /\ ServeInv
  BY DEF Init, ControlInv, SlotInv, ServeInv, Sent
<1>3. { c \in Contexts : entry[c] \in Final } = {} /\ { c \in Contexts : entry[c] \in {"DONE"} } = {}
      /\ { c \in Contexts : Sent(c) } = {}
  BY DEF Init, Sent, Final
<1>4. Cardinality({}) = 0
  BY FS_EmptySet
<1>5. CountInv
  BY <1>3, <1>4 DEF Init, CountInv, Recorded
<1> QED BY <1>1, <1>2, <1>5 DEF IInv

(* Every step keeps the invariant.                                         *)
LEMMA StepHolds ==
    ASSUME IInv, [Next]_vars
    PROVE  IInv'
<1>1. CASE UNCHANGED vars
  <2>1. UNCHANGED <<bootOk, health, apPc, ran, word, ipi, pc, i, active, loops, entry, sum>>
    BY <1>1 DEF vars, apVars, bspVars
  <2>2. RoundTypeOK' /\ ControlInv'
    BY <2>1 DEF IInv, RoundTypeOK, ControlInv, Sent
  <2>3. SlotInv' /\ ServeInv' /\ CountInv'
    BY <2>1 DEF IInv, SlotInv, ServeInv, CountInv, Sent, Recorded
  <2> QED BY <2>2, <2>3 DEF IInv
<1> QED BY <1>1, BspStepHolds, ApStepHolds DEF Next, Done

(* The invariant holds in every reachable state.                           *)
THEOREM InductiveInvariant == Spec => []IInv
<1>1. IInv /\ [Next]_vars => IInv'
  BY StepHolds
<1> QED BY InitHolds, <1>1, PTL DEF Spec

(* The counters of the summary are the numbers of recorded and of answered *)
(* pings, and at the end every ping that was sent is recorded, whichever   *)
(* loop recorded it and however many APs hang, fault or answer late.       *)
THEOREM SummaryIsExact == Spec => []SummaryAddsUp
<1>1. IInv => SummaryAddsUp
  <2> SUFFICES ASSUME IInv PROVE SummaryAddsUp
    OBVIOUS
  <2>1. /\ sum.completed = Recorded({"DONE", "FAULT", "TIMEOUT"})
        /\ sum.ok = Recorded({"DONE"}) /\ sum.ok + sum.fail = sum.completed
    BY DEF IInv, CountInv, Final
  <2>2. pc = "done" => sum.completed = sum.planned
    <3> SUFFICES ASSUME pc = "done" PROVE sum.completed = sum.planned
      OBVIOUS
    <3>1. { c \in Contexts : Sent(c) } = { c \in Contexts : entry[c] \in Final }
      BY DEF IInv, ControlInv, Sent, RoundTypeOK, Final
    <3> QED BY <3>1 DEF IInv, CountInv, Recorded
  <2> QED BY <2>1, <2>2 DEF SummaryAddsUp
<1> QED BY <1>1, InductiveInvariant, PTL

(* What the summary shows of an AP is what happened to its ping.           *)
THEOREM SummaryIsTruthful == Spec => []EntriesAreTrue
<1>1. IInv => EntriesAreTrue
  BY DEF IInv, SlotInv, ServeInv, Sent, EntriesAreTrue
<1> QED BY <1>1, InductiveInvariant, PTL

(* No step of either side changes a slot whose ping is recorded.           *)
THEOREM RecordedSlotIsFinal == Spec => RecordedIsFinal
<1> DEFINE Kept == \A c \in Contexts : entry[c] # "none" => word'[c] = word[c]
<1>1. IInv /\ [Next]_vars => [Kept]_vars
  <2> SUFFICES ASSUME IInv, Next, NEW c \in Contexts, entry[c] # "none"
               PROVE  word'[c] = word[c]
    OBVIOUS
  <2>1. word[c] \in Final /\ c \notin active /\ word \in [Contexts -> {"EMPTY", "PENDING", "RUNNING"} \cup Final]
    BY DEF IInv, SlotInv, RoundTypeOK
  <2>2. ASSUME NEW d \in Contexts, Ap(d) PROVE word'[c] = word[c]
    BY <2>1, <2>2, ApWord DEF IInv, Final
  <2>3. CASE Store
    <3>1. c # i
      BY <2>3, Constants DEF IInv, ControlInv, Store, Goto, Sent
    <3> QED BY <2>1, <2>3, <3>1 DEF Store
  <2>4. CASE Expire \/ ExpireRunning
    BY <2>1, <2>4 DEF Expire, ExpireRunning, Final
  <2>5. CASE Offer \/ Published \/ Scan \/ ScanEnd \/ Wake \/ Record \/ Expired \/ Done
    <3>1. CASE Done
      BY <3>1 DEF Done, vars, apVars
    <3>2. CASE Offer \/ Published \/ Scan \/ ScanEnd \/ Wake \/ Record \/ Expired
      BY <3>2 DEF Offer, Published, Scan, ScanEnd, Wake, Record, Expired, Goto
    <3> QED BY <2>5, <3>1, <3>2
  <2> QED BY <2>2, <2>3, <2>4, <2>5 DEF Next, BspStep
<1> QED BY <1>1, InductiveInvariant, PTL DEF Spec, RecordedIsFinal

=============================================================================
