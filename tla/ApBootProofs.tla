---------------------------- MODULE ApBootProofs ----------------------------
(***************************************************************************)
(* Proofs about AP bring-up, for any number of contexts and any machine.   *)
(*                                                                         *)
(* The argument.  As long as no bring-up has failed, every AP before the   *)
(* one being started has left the trampoline page, since it was seen       *)
(* online, and no AP after it has been sent anything (OrderInv): the page  *)
(* has one reader, and it is whole while there is one.  The online flag of *)
(* a context can then only come from its own AP.  Independently of         *)
(* failures, a record is written by the BSP and by APs that took its       *)
(* context from the page, so only after its bring-up began (RecordInv).    *)
(***************************************************************************)
EXTENDS ApBoot, TLAPS

(* The contexts are numbered from 0, and Torn is not one of them.          *)
LEMMA Constants ==
    /\ MaxContexts \in Nat /\ MaxContexts > 0 /\ Torn \notin Contexts
    /\ Contexts = 0 .. MaxContexts - 1 /\ Cpus = Contexts
    /\ \A c \in Contexts : c \in Nat /\ c < MaxContexts
BY BootAssumption DEF BootAssumption, Contexts, Cpus, Torn

(* The contexts up to one are that one and those before it.                *)
LEMMA UpTo ==
    ASSUME NEW n \in Nat
    PROVE  \A c \in 0 .. n : c = n \/ (c \in 0 .. n - 1 /\ c # n)
OBVIOUS

(* The number of attempts, and the loop index against it.                  *)
LEMMA AttemptsType ==
    ASSUME BootTypeOK
    PROVE  /\ Attempts \in 1 .. MaxContexts /\ Attempts \in Nat /\ i \in Nat /\ i <= Attempts
           /\ i < Attempts => i \in Contexts
           /\ pc \notin {"begin", "done"} => i \in Contexts
<1>1. machine.targets \in 0 .. MaxContexts
  BY DEF BootTypeOK
<1>2. Attempts \in 1 .. MaxContexts /\ Attempts \in Nat
  BY <1>1, Constants DEF Attempts
<1>3. i \in 0 .. Attempts
  BY DEF BootTypeOK
<1> HIDE DEF Attempts
<1>4. i \in Nat /\ i <= Attempts /\ (i < Attempts => i \in Contexts)
  BY <1>2, <1>3, Constants
<1> QED BY <1>2, <1>4 DEF BootTypeOK

(* The contexts that are done with only become more, and a failure stays   *)
(* recorded.                                                               *)
LEMMA FailureStays ==
    ASSUME BootTypeOK,
           \A c \in Contexts : c < i => boot'[c].error = boot[c].error,
           i' = i \/ i' = i + 1, NoneFailed'
    PROVE  NoneFailed
<1>1. \A c \in 0 .. i - 1 : c \in Contexts /\ c < i /\ c \in 0 .. i' - 1
  BY AttemptsType, Constants
<1> QED BY <1>1 DEF NoneFailed

(* What an AP's step to its boot record must be like.                      *)
LEMMA AdvanceHolds ==
    ASSUME IInv, NEW p \in Cpus, NEW from, NEW to, NEW rec \in Record,
           Advance(p, from, to, rec),
           from \in {"entry", "tables", "head", "announce", "loop", "faulting"},
           to \in {"tables", "head", "announce", "loop", "faulting", "dead"},
           from \in Arrived => to \in Arrived,
           rec.error = Mine(p).error,
           Mine(p).online => rec.online,
           rec.online => Mine(p).online \/ to \in Arrived,
           rec.state = Mine(p).state \/ rec.state \in {"ONLINE", "FAULTED"},
           to \in Arrived \cup {"announce"} => rec.state # "NONE",
           rec.online => rec.state # "NONE",
           NoneFailed => /\ to \in {"announce", "loop"} => rec.entry = "LOOP"
                         /\ to \in {"faulting", "dead"} => rec.entry = "FAULT"
    PROVE  IInv'
<1> DEFINE c == cpu[p].ctx
<1>1. /\ UNCHANGED <<machine, page, pc, i>> /\ cpu[p].at = from
      /\ cpu' = [cpu EXCEPT ![p].at = to] /\ boot' = [boot EXCEPT ![c] = rec]
  BY DEF Advance
<1>2. c \in Contexts /\ Running(p) /\ cpu \in [Cpus -> [at : ApPlaces, stack : Contexts, ctx : Contexts]]
      /\ boot \in [Contexts -> Record]
  BY <1>1 DEF IInv, BootTypeOK, Running
<1>3. /\ cpu'[p].at = to /\ cpu'[p].ctx = cpu[p].ctx /\ cpu'[p].stack = cpu[p].stack
      /\ \A q \in Cpus : q # p => cpu'[q] = cpu[q]
      /\ cpu' \in [Cpus -> [at : ApPlaces, stack : Contexts, ctx : Contexts]]
  BY <1>1, <1>2 DEF ApPlaces
<1>4. boot'[c] = rec /\ (\A d \in Contexts : d # c => boot'[d] = boot[d])
      /\ boot' \in [Contexts -> Record] /\ Mine(p) = boot[c]
  BY <1>1, <1>2 DEF Mine
<1>5. BootTypeOK'
  BY <1>1, <1>3, <1>4 DEF IInv, BootTypeOK, Attempts
<1>6. c \in Begun /\ Begun' = Begun
  BY <1>1, <1>2 DEF IInv, RecordInv, Begun
<1>7. \A q \in Cpus : Running(q)' <=> Running(q)
  BY <1>1, <1>3 DEF Running
<1>8. /\ c \in 0 .. i
      /\ pc \in {"begin", "done"} => c # i
  <2>1. i \in Nat /\ c \in Nat
    BY <1>2, AttemptsType, Constants DEF IInv
  <2>2. CASE pc \in {"begin", "build", "done"}
    <3>1. c \in 0 .. i - 1
      BY <1>6, <2>2 DEF Begun
    <3> HIDE DEF c
    <3> QED BY <2>1, <3>1
  <2>3. CASE pc \notin {"begin", "build", "done"}
    BY <1>6, <2>3 DEF Begun
  <2> QED BY <2>2, <2>3
<1> HIDE DEF c
<1>9. RecordInv'
  <2>1. \A q \in Cpus : cpu'[q].ctx = cpu[q].ctx /\ cpu[q].ctx \in Contexts
    BY <1>2, <1>3
  <2>2. \A q \in Cpus : cpu'[q].at \in Arrived \cup {"announce"} =>
           boot'[cpu'[q].ctx].state # "NONE"
    BY <1>3, <1>4, <2>1 DEF IInv, RecordInv, c
  <2>3. \A d \in Contexts : d \notin 0 .. i => ~boot'[d].online /\ boot'[d].state = "NONE"
    BY <1>4, <1>8 DEF IInv, RecordInv
  <2>4. pc \in {"begin", "done"} /\ i \in Contexts => ~boot'[i].online /\ boot'[i].state = "NONE"
    BY <1>4, <1>8 DEF IInv, RecordInv
  <2>5. \A d \in Contexts : boot'[d].online => boot'[d].state # "NONE"
    BY <1>4 DEF IInv, RecordInv
  <2> QED BY <1>1, <1>6, <1>7, <2>1, <2>2, <2>3, <2>4, <2>5 DEF IInv, RecordInv
<1>10. ResultInv'
  <2>1. \A d \in 0 .. i - 1 : d \in Contexts
    BY AttemptsType, Constants DEF IInv
  <2>2. i \in Contexts \/ pc \in {"begin", "done"}
    BY AttemptsType DEF IInv
  <2> QED BY <1>1, <1>4, <2>1, <2>2 DEF IInv, ResultInv
<1>11. OrderInv'
  <2> SUFFICES ASSUME NoneFailed' PROVE OrderInv'
    BY DEF OrderInv
  <2>1. NoneFailed
    BY <1>1, <1>4, FailureStays DEF IInv
  <2>2. c = p
    BY <1>2, <2>1 DEF IInv, OrderInv, c
  <2>3. from # "off" /\ to # "off" /\ to # "lost" /\ to # "stacked"
    OBVIOUS
  <2>4. ASSUME NEW q \in Cpus
        PROVE  /\ q < i => cpu'[q].at \in Arrived
               /\ q > i \/ (q = i /\ pc \in {"begin", "build", "ready", "INIT", "done"}) =>
                     cpu'[q].at = "off"
               /\ cpu'[q].at # "lost"
               /\ cpu'[q].at = "stacked" \/ Running(q)' => cpu'[q].stack = q
               /\ Running(q)' => cpu'[q].ctx = q
               /\ q <= i /\ boot'[q].online => cpu'[q].at \in Arrived
               /\ cpu'[q].at \in {"announce", "loop"} => boot'[q].entry = "LOOP"
               /\ cpu'[q].at \in {"faulting", "dead"} => boot'[q].entry = "FAULT"
    <3>1. CASE q = p
      <4>1. /\ q < i => cpu[q].at \in Arrived
            /\ q > i \/ (q = i /\ pc \in {"begin", "build", "ready", "INIT", "done"}) =>
                  cpu[q].at = "off"
            /\ cpu[q].stack = q /\ cpu[q].ctx = q
            /\ q <= i /\ boot[q].online => cpu[q].at \in Arrived
        BY <1>2, <2>1, <3>1 DEF IInv, OrderInv
      <4> QED BY <1>1, <1>3, <1>4, <2>1, <2>2, <2>3, <3>1, <4>1
    <3>2. CASE q # p
      <4>1. cpu'[q] = cpu[q] /\ boot'[q] = boot[q]
        BY <1>3, <1>4, <2>2, <3>2, Constants
      <4> QED BY <1>7, <2>1, <4>1 DEF IInv, OrderInv
    <3> QED BY <3>1, <3>2
  <2>5. pc \notin {"begin", "build", "done"} => page = i
    BY <2>1 DEF IInv, OrderInv
  <2> QED BY <1>1, <2>4, <2>5 DEF OrderInv
<1> QED BY <1>5, <1>9, <1>10, <1>11 DEF IInv

(* Every step an AP makes in C code keeps the invariant.                   *)
LEMMA ApRecordHolds ==
    ASSUME IInv, NEW p \in Cpus,
           EntryC(p) \/ Tables(p) \/ Head(p) \/ Online(p) \/ Fault(p) \/ FaultOnline(p)
    PROVE  IInv'
<1> DEFINE c == cpu[p].ctx
<1>0. c \in Contexts /\ Mine(p) = boot[c] /\ Mine(p) \in Record
  BY DEF IInv, BootTypeOK, Mine
<1>1. Mine(p).online => Mine(p).state # "NONE"
  BY <1>0 DEF IInv, RecordInv
<1>2. cpu[p].at \in Arrived \cup {"announce"} => Mine(p).state # "NONE"
  BY <1>0 DEF IInv, RecordInv
<1>3. NoneFailed => /\ cpu[p].at \in {"announce", "loop"} => Mine(p).entry = "LOOP"
                    /\ cpu[p].at = "faulting" => Mine(p).entry = "FAULT"
  <2> SUFFICES ASSUME NoneFailed, cpu[p].at \in {"announce", "loop", "faulting"}
               PROVE  /\ cpu[p].at \in {"announce", "loop"} => Mine(p).entry = "LOOP"
                      /\ cpu[p].at = "faulting" => Mine(p).entry = "FAULT"
    OBVIOUS
  <2>1. c = p
    BY DEF IInv, OrderInv, Running
  <2> QED BY <1>0, <2>1 DEF IInv, OrderInv
<1> DEFINE m == Mine(p)
<1>4. m \in Record
  BY <1>0
<1> HIDE DEF c, m
<1>5. CASE EntryC(p)
  <2> DEFINE rec == [m EXCEPT !.entry = "C"]
  <2>1. rec \in Record /\ rec.error = m.error /\ rec.online = m.online /\ rec.state = m.state
    BY <1>4 DEF Record
  <2>2. Advance(p, "entry", "tables", rec)
    BY <1>5 DEF EntryC, m
  <2> HIDE DEF rec
  <2> QED BY <1>1, <2>1, <2>2, AdvanceHolds DEF m, Arrived
<1>6. CASE Tables(p)
  <2> DEFINE rec == [m EXCEPT !.entry = "TABLES"]
  <2>1. rec \in Record /\ rec.error = m.error /\ rec.online = m.online /\ rec.state = m.state
    BY <1>4 DEF Record
  <2>2. Advance(p, "tables", "head", rec)
    BY <1>6 DEF Tables, m
  <2> HIDE DEF rec
  <2> QED BY <1>1, <2>1, <2>2, AdvanceHolds DEF m, Arrived
<1>7. CASE Head(p)
  <2> DEFINE rec == [m EXCEPT !.state = "ONLINE", !.entry = "LOOP"]
  <2>1. rec \in Record /\ rec.error = m.error /\ rec.online = m.online /\ rec.state = "ONLINE"
        /\ rec.entry = "LOOP"
    BY <1>4 DEF Record
  <2>2. Advance(p, "head", "announce", rec)
    BY <1>7 DEF Head, m
  <2> HIDE DEF rec
  <2> QED BY <1>1, <2>1, <2>2, AdvanceHolds DEF m, Arrived
<1>8. CASE Online(p)
  <2> DEFINE rec == [m EXCEPT !.online = TRUE]
  <2>1. rec \in Record /\ rec.error = m.error /\ rec.online = TRUE /\ rec.state = m.state
        /\ rec.entry = m.entry
    BY <1>4 DEF Record
  <2>2. Advance(p, "announce", "loop", rec)
    BY <1>8 DEF Online, m
  <2>3. cpu[p].at = "announce"
    BY <2>2 DEF Advance
  <2> HIDE DEF rec
  <2> QED BY <1>2, <1>3, <2>1, <2>2, <2>3, AdvanceHolds DEF m, Arrived
<1>9. CASE Fault(p)
  <2> DEFINE rec == [m EXCEPT !.entry = "FAULT", !.state = "FAULTED"]
  <2>1. rec \in Record /\ rec.error = m.error /\ rec.online = m.online /\ rec.state = "FAULTED"
        /\ rec.entry = "FAULT"
    BY <1>4 DEF Record
  <2>2. PICK from \in {"tables", "head", "announce", "loop"} : Advance(p, from, "faulting", rec)
    BY <1>9 DEF Fault, m
  <2> HIDE DEF rec
  <2> QED BY <2>1, <2>2, AdvanceHolds DEF m, Arrived
<1>10. CASE FaultOnline(p)
  <2> DEFINE rec == [m EXCEPT !.online = TRUE]
  <2>1. rec \in Record /\ rec.error = m.error /\ rec.online = TRUE /\ rec.state = m.state
        /\ rec.entry = m.entry
    BY <1>4 DEF Record
  <2>2. Advance(p, "faulting", "dead", rec)
    BY <1>10 DEF FaultOnline, m
  <2>3. cpu[p].at = "faulting"
    BY <2>2 DEF Advance
  <2> HIDE DEF rec
  <2> QED BY <1>2, <1>3, <2>1, <2>2, <2>3, AdvanceHolds DEF m, Arrived
<1> QED BY <1>5, <1>6, <1>7, <1>8, <1>9, <1>10

(* A fetch from the page: while no bring-up has failed it is the AP being  *)
(* started that fetches, and the page is its own.                          *)
LEMMA FetchHolds ==
    ASSUME IInv, NEW p \in Cpus, FetchStack(p) \/ FetchContext(p)
    PROVE  IInv'
<1>1. UNCHANGED <<machine, boot, page, pc, i>> /\ cpu[p].at \in {"page", "stacked"}
  BY DEF FetchStack, FetchContext, Fetch
<1>2. cpu \in [Cpus -> [at : ApPlaces, stack : Contexts, ctx : Contexts]]
      /\ page \in Contexts \cup {Torn}
  BY DEF IInv, BootTypeOK
<1>3. PICK r \in [at : ApPlaces, stack : Contexts, ctx : Contexts] :
        /\ cpu' = [cpu EXCEPT ![p] = r]
        /\ \/ page = Torn /\ r.at = "lost"
           \/ page # Torn /\ cpu[p].at = "page" /\ r.at = "stacked" /\ r.stack = page
           \/ page # Torn /\ cpu[p].at = "stacked" /\ r.at = "entry" /\ r.ctx = page
              /\ r.stack = cpu[p].stack
  <2>0. cpu[p] \in [at : ApPlaces, stack : Contexts, ctx : Contexts]
    BY <1>2
  <2>1. CASE page = Torn
    <3>1. [cpu[p] EXCEPT !.at = "lost"] \in [at : ApPlaces, stack : Contexts, ctx : Contexts]
          /\ [cpu[p] EXCEPT !.at = "lost"].at = "lost"
      BY <2>0 DEF ApPlaces
    <3>2. cpu' = [cpu EXCEPT ![p] = [cpu[p] EXCEPT !.at = "lost"]]
      BY <2>1 DEF FetchStack, FetchContext, Fetch
    <3> QED BY <2>1, <3>1, <3>2
  <2>2. CASE page # Torn /\ FetchStack(p)
    <3> DEFINE r == [[cpu[p] EXCEPT !.stack = page] EXCEPT !.at = "stacked"]
    <3>1. r \in [at : ApPlaces, stack : Contexts, ctx : Contexts] /\ r.at = "stacked" /\ r.stack = page
      BY <1>2, <2>0, <2>2 DEF ApPlaces
    <3>2. cpu' = [cpu EXCEPT ![p] = r] /\ cpu[p].at = "page"
      BY <2>2 DEF FetchStack, Fetch
    <3> HIDE DEF r
    <3> QED BY <2>2, <3>1, <3>2
  <2>3. CASE page # Torn /\ FetchContext(p)
    <3> DEFINE r == [[cpu[p] EXCEPT !.ctx = page] EXCEPT !.at = "entry"]
    <3>1. r \in [at : ApPlaces, stack : Contexts, ctx : Contexts] /\ r.at = "entry" /\ r.ctx = page
          /\ r.stack = cpu[p].stack
      BY <1>2, <2>0, <2>3 DEF ApPlaces
    <3>2. cpu' = [cpu EXCEPT ![p] = r] /\ cpu[p].at = "stacked"
      BY <2>3 DEF FetchContext, Fetch
    <3> HIDE DEF r
    <3> QED BY <2>3, <3>1, <3>2
  <2> QED BY <2>1, <2>2, <2>3
<1>4. cpu'[p] = r /\ (\A q \in Cpus : q # p => cpu'[q] = cpu[q])
      /\ cpu' \in [Cpus -> [at : ApPlaces, stack : Contexts, ctx : Contexts]]
  BY <1>2, <1>3
<1>5. BootTypeOK'
  BY <1>1, <1>4 DEF IInv, BootTypeOK, Attempts
<1>6. Begun' = Begun /\ (NoneFailed' <=> NoneFailed)
  BY <1>1 DEF Begun, NoneFailed
<1>7. RecordInv'
  <2>1. \A q \in Cpus : Running(q)' => cpu'[q].ctx \in Begun
    BY <1>1, <1>3, <1>4 DEF IInv, RecordInv, Running
  <2>2. \A q \in Cpus : cpu'[q].at \in Arrived \cup {"announce"} => boot[cpu'[q].ctx].state # "NONE"
    BY <1>3, <1>4 DEF IInv, RecordInv, Arrived
  <2> QED BY <1>1, <1>6, <2>1, <2>2 DEF IInv, RecordInv
<1>8. ResultInv'
  BY <1>1 DEF IInv, ResultInv
<1>9. OrderInv'
  <2> SUFFICES ASSUME NoneFailed PROVE OrderInv'
    BY <1>6 DEF OrderInv
  <2>1. p = i /\ pc \notin {"begin", "build", "ready", "INIT", "done"}
    <3>1. ~(p < i) /\ ~(p > i) /\ ~(p = i /\ pc \in {"begin", "build", "ready", "INIT", "done"})
      BY <1>1 DEF IInv, OrderInv, Arrived
    <3>2. p \in Nat /\ i \in Nat
      BY AttemptsType, Constants DEF IInv
    <3> QED BY <3>1, <3>2
  <2>2. page = p /\ page # Torn
    BY <2>1, Constants DEF IInv, OrderInv
  <2>3. /\ r.at \in {"stacked", "entry"} /\ r.stack = p
        /\ r.at = "entry" => r.ctx = p
    BY <1>3, <2>2 DEF IInv, OrderInv
  <2>4. ~boot[p].online
    BY <1>1, <2>1, AttemptsType DEF IInv, OrderInv, Arrived
  <2> QED BY <1>1, <1>4, <2>1, <2>2, <2>3, <2>4 DEF IInv, OrderInv, Running, Arrived
<1> QED BY <1>5, <1>7, <1>8, <1>9 DEF IInv

(* A step of an AP keeps the invariant.                                    *)
LEMMA ApHolds ==
    ASSUME IInv, NEW p \in Cpus, Ap(p)
    PROVE  IInv'
BY ApRecordHolds, FetchHolds DEF Ap

(* What an IPI may do: it resets AP i or sends it to the page.             *)
Ipi == \/ cpu' = cpu
       \/ \E a \in {"waitSipi", "page"} :
             cpu' = [cpu EXCEPT ![i].at = a] /\ (pc = "INIT" \/ cpu[i].at = "waitSipi")

(* What an IPI leaves of the CPUs: only AP i moves.                        *)
LEMMA IpiEffect ==
    ASSUME BootTypeOK, i \in Contexts, Ipi
    PROVE  /\ cpu' \in [Cpus -> [at : ApPlaces, stack : Contexts, ctx : Contexts]]
           /\ \A q \in Cpus :
                 \/ cpu'[q] = cpu[q]
                 \/ q = i /\ cpu'[q].at \in {"waitSipi", "page"}
                   /\ (pc = "INIT" \/ cpu[q].at = "waitSipi")
<1>1. cpu \in [Cpus -> [at : ApPlaces, stack : Contexts, ctx : Contexts]] /\ i \in Cpus
  BY Constants DEF BootTypeOK
<1>2. CASE cpu' = cpu
  BY <1>1, <1>2
<1>3. ASSUME NEW a \in {"waitSipi", "page"}, cpu' = [cpu EXCEPT ![i].at = a],
             pc = "INIT" \/ cpu[i].at = "waitSipi"
      PROVE  /\ cpu' \in [Cpus -> [at : ApPlaces, stack : Contexts, ctx : Contexts]]
             /\ cpu'[i].at = a /\ \A q \in Cpus : q # i => cpu'[q] = cpu[q]
  <2>1. a \in ApPlaces
    BY DEF ApPlaces
  <2> QED BY <1>1, <1>3, <2>1
<1> QED BY <1>2, <1>3 DEF Ipi

Started == BspPlaces \ {"begin", "build", "done"}

(* A step of the BSP within the bring-up of context i.                     *)
LEMMA MoveHolds ==
    ASSUME IInv, pc \in Started, pc' \in Started, UNCHANGED <<machine, page, i>>, Ipi,
           \/ boot' = boot
           \/ \E s \in {"READY", "SENT_INIT", "SENT_SIPI", "ONLINE"} :
                 boot' = [boot EXCEPT ![i].state = s],
           pc' \in {"ready", "INIT"} => pc = "ready" /\ cpu' = cpu,
           pc' \in {"claim", "ok"} => boot[i].online,
           pc' = "ok" => boot'[i].state \in {"ONLINE", "FAULTED"}
    PROVE  IInv'
<1>0. i \in Contexts /\ i \in Nat /\ i < Attempts
  BY AttemptsType DEF IInv, BootTypeOK, Started
<1>1. /\ cpu' \in [Cpus -> [at : ApPlaces, stack : Contexts, ctx : Contexts]]
      /\ \A q \in Cpus :
            \/ cpu'[q] = cpu[q]
            \/ q = i /\ cpu'[q].at \in {"waitSipi", "page"}
              /\ (pc = "INIT" \/ cpu[q].at = "waitSipi")
  BY <1>0, IpiEffect DEF IInv
<1>2. /\ boot' \in [Contexts -> Record]
      /\ \A c \in Contexts : c # i => boot'[c] = boot[c]
      /\ boot'[i].error = boot[i].error /\ boot'[i].online = boot[i].online
      /\ boot'[i].entry = boot[i].entry
      /\ boot'[i].state = boot[i].state \/ boot'[i].state # "NONE"
  <2>0. boot \in [Contexts -> Record]
    BY DEF IInv, BootTypeOK
  <2>1. CASE boot' = boot
    BY <2>0, <2>1
  <2>2. ASSUME NEW s \in {"READY", "SENT_INIT", "SENT_SIPI", "ONLINE"},
               boot' = [boot EXCEPT ![i].state = s]
        PROVE  <1>2!:
    BY <1>0, <2>0, <2>2 DEF Record
  <2> QED BY <2>1, <2>2
<1>3. BootTypeOK'
  BY <1>0, <1>1, <1>2 DEF IInv, BootTypeOK, Started, Attempts
<1>4. Begun' = Begun
  BY DEF Begun, Started
<1>5. \A q \in Cpus : Running(q)' => Running(q) /\ cpu'[q] = cpu[q]
  BY <1>1 DEF Running
<1>6. RecordInv'
  <2>1. \A q \in Cpus : Running(q)' => cpu'[q].ctx \in Begun
    BY <1>5 DEF IInv, RecordInv
  <2>2. \A q \in Cpus : cpu'[q].at \in Arrived \cup {"announce"} => boot'[cpu'[q].ctx].state # "NONE"
    <3> SUFFICES ASSUME NEW q \in Cpus, cpu'[q].at \in Arrived \cup {"announce"}
                 PROVE  boot'[cpu'[q].ctx].state # "NONE"
      OBVIOUS
    <3>1. cpu'[q] = cpu[q] /\ cpu[q].ctx \in Contexts
      BY <1>1 DEF Arrived, IInv, BootTypeOK
    <3>2. boot[cpu[q].ctx].state # "NONE"
      BY <3>1 DEF IInv, RecordInv
    <3> QED BY <1>2, <3>1, <3>2
  <2>3. \A c \in Contexts : c \notin 0 .. i => ~boot'[c].online /\ boot'[c].state = "NONE"
    BY <1>0, <1>2 DEF IInv, RecordInv
  <2>4. \A c \in Contexts : boot'[c].online => boot'[c].state # "NONE"
    BY <1>2 DEF IInv, RecordInv
  <2> QED BY <1>4, <2>1, <2>2, <2>3, <2>4 DEF IInv, RecordInv, Started
<1>7. ResultInv'
  <2>1. \A c \in 0 .. i - 1 : c \in Contexts /\ c # i
    BY <1>0, Constants
  <2> QED BY <1>2, <2>1 DEF IInv, ResultInv
<1>8. OrderInv'
  <2> SUFFICES ASSUME NoneFailed' PROVE OrderInv'
    BY DEF OrderInv
  <2>1. NoneFailed
    <3>1. \A c \in Contexts : c < i => boot'[c].error = boot[c].error
      BY <1>2
    <3> QED BY <3>1, FailureStays DEF IInv
  <2>2. page' = i'
    BY <2>1 DEF IInv, OrderInv, Started
  <2>3. ASSUME NEW q \in Cpus
        PROVE  /\ q < i => cpu'[q].at \in Arrived
               /\ q > i \/ (q = i /\ pc' \in {"begin", "build", "ready", "INIT", "done"}) =>
                     cpu'[q].at = "off"
               /\ cpu'[q].at # "lost"
               /\ cpu'[q].at = "stacked" \/ Running(q)' => cpu'[q].stack = q
               /\ Running(q)' => cpu'[q].ctx = q
               /\ q <= i /\ boot'[q].online => cpu'[q].at \in Arrived
               /\ cpu'[q].at \in {"announce", "loop"} => boot'[q].entry = "LOOP"
               /\ cpu'[q].at \in {"faulting", "dead"} => boot'[q].entry = "FAULT"
    <3>0. boot'[q].online = boot[q].online /\ boot'[q].entry = boot[q].entry
      BY <1>2, Constants
    <3>1. CASE cpu'[q] = cpu[q]
      <4>1. pc' \in {"begin", "build", "ready", "INIT", "done"} => pc = "ready"
        BY DEF Started
      <4> QED BY <1>5, <2>1, <3>0, <3>1, <4>1 DEF IInv, OrderInv
    <3>2. CASE q = i /\ cpu'[q].at \in {"waitSipi", "page"} /\ (pc = "INIT" \/ cpu[q].at = "waitSipi")
      <4>1. ~(q < i) /\ ~(q > i)
        BY <1>0, <3>2
      <4>2. ~boot[q].online
        BY <1>0, <2>1, <3>2 DEF IInv, OrderInv, Arrived
      <4>3. pc' \notin {"begin", "build", "ready", "INIT", "done"} \/ cpu'[q].at = "off"
        BY <1>0, <2>1, <3>2 DEF IInv, OrderInv, Started
      <4> QED BY <3>0, <3>2, <4>1, <4>2, <4>3 DEF Running
    <3> QED BY <1>1, <3>1, <3>2
  <2> QED BY <2>2, <2>3 DEF OrderInv
<1> QED BY <1>3, <1>6, <1>7, <1>8 DEF IInv

(* The end of a bring-up: OK only after the AP was seen online.            *)
LEMMA ReturnHolds ==
    ASSUME IInv, pc \in Started, UNCHANGED <<machine, page>>, Ipi,
           NEW e \in BootErrors, Return(e), e = "OK" => pc = "ok" /\ cpu' = cpu
    PROVE  IInv'
<1>0. i \in Contexts /\ i \in Nat /\ i < Attempts /\ Attempts \in Nat
  BY AttemptsType DEF IInv, BootTypeOK, Started
<1>1. /\ cpu' \in [Cpus -> [at : ApPlaces, stack : Contexts, ctx : Contexts]]
      /\ \A q \in Cpus :
            \/ cpu'[q] = cpu[q]
            \/ q = i /\ cpu'[q].at \in {"waitSipi", "page"}
              /\ (pc = "INIT" \/ cpu[q].at = "waitSipi")
  BY <1>0, IpiEffect DEF IInv
<1>2. pc' = "begin" /\ i' = i + 1 /\ boot' = [boot EXCEPT ![i].error = e]
  BY DEF Return
<1>3. /\ boot' \in [Contexts -> Record]
      /\ \A c \in Contexts : c # i => boot'[c] = boot[c]
      /\ boot'[i].error = e /\ boot'[i].online = boot[i].online
      /\ boot'[i].entry = boot[i].entry /\ boot'[i].state = boot[i].state
  <2>0. boot \in [Contexts -> Record]
    BY DEF IInv, BootTypeOK
  <2> QED BY <1>0, <1>2, <2>0 DEF Record
<1>4. BootTypeOK'
  <2>1. i' \in 0 .. Attempts
    BY <1>0, <1>2
  <2> QED BY <1>1, <1>2, <1>3, <2>1 DEF IInv, BootTypeOK, BspPlaces, Attempts
<1>5. Begun' = Begun
  <2>1. Begun = 0 .. i /\ Begun' = 0 .. i' - 1
    BY <1>2 DEF Begun, Started
  <2> QED BY <1>0, <1>2, <2>1
<1>6. \A q \in Cpus : Running(q)' => Running(q) /\ cpu'[q] = cpu[q]
  BY <1>1 DEF Running
<1>7. RecordInv'
  <2>1. \A q \in Cpus : Running(q)' => cpu'[q].ctx \in Begun
    BY <1>6 DEF IInv, RecordInv
  <2>2. \A q \in Cpus : cpu'[q].at \in Arrived \cup {"announce"} => boot'[cpu'[q].ctx].state # "NONE"
    <3> SUFFICES ASSUME NEW q \in Cpus, cpu'[q].at \in Arrived \cup {"announce"}
                 PROVE  boot'[cpu'[q].ctx].state # "NONE"
      OBVIOUS
    <3>1. cpu'[q] = cpu[q] /\ cpu[q].ctx \in Contexts
      BY <1>1 DEF Arrived, IInv, BootTypeOK
    <3>2. boot[cpu[q].ctx].state # "NONE"
      BY <3>1 DEF IInv, RecordInv
    <3> QED BY <1>3, <3>1, <3>2
  <2>3. \A c \in Contexts : c \notin 0 .. i => c # i
    BY <1>0
  <2>4. \A c \in Contexts : c \notin 0 .. i => ~boot'[c].online /\ boot'[c].state = "NONE"
    BY <1>3, <2>3 DEF IInv, RecordInv
  <2>5. i' \notin 0 .. i /\ \A c \in Contexts : c \notin 0 .. i' => c \notin 0 .. i
    BY <1>0, <1>2, Constants
  <2>6. \A c \in Contexts : boot'[c].online => boot'[c].state # "NONE"
    BY <1>3 DEF IInv, RecordInv
  <2> QED BY <1>5, <2>1, <2>2, <2>4, <2>5, <2>6 DEF IInv, RecordInv
<1>8. ResultInv'
  <2>1. \A c \in 0 .. i' - 1 : c \in Contexts /\ (c = i \/ (c \in 0 .. i - 1 /\ c # i))
    <3>1. i' - 1 = i /\ i < MaxContexts
      BY <1>0, <1>2, Constants
    <3>2. \A c \in 0 .. i : c \in Contexts
      BY <1>0, <3>1, Constants
    <3>3. \A c \in 0 .. i : c = i \/ (c \in 0 .. i - 1 /\ c # i)
      BY <1>0, UpTo
    <3> QED BY <3>1, <3>2, <3>3
  <2>2. e = "OK" => boot[i].online /\ boot[i].state \in {"ONLINE", "FAULTED"}
    BY DEF IInv, ResultInv
  <2>3. \A c \in 0 .. i' - 1 : boot'[c].error = "OK" =>
          boot'[c].online /\ boot'[c].state \in {"ONLINE", "FAULTED"}
    BY <1>3, <2>1, <2>2 DEF IInv, ResultInv
  <2> QED BY <1>2, <2>3 DEF ResultInv
<1>9. OrderInv'
  <2> SUFFICES ASSUME NoneFailed' PROVE OrderInv'
    BY DEF OrderInv
  <2>1. NoneFailed
    <3>1. \A c \in Contexts : c < i => boot'[c].error = boot[c].error
      BY <1>0, <1>3, Constants
    <3> QED BY <1>2, <3>1, FailureStays DEF IInv
  <2>2. e = "OK" /\ pc = "ok" /\ cpu' = cpu
    <3>1. i \in 0 .. i' - 1
      BY <1>0, <1>2
    <3> QED BY <1>3, <3>1 DEF NoneFailed
  <2>3. boot[i].online /\ cpu[i].at \in Arrived
    <3>1. boot[i].online /\ i \in Cpus /\ i <= i
      BY <1>0, <2>2, Constants DEF IInv, ResultInv
    <3> QED BY <2>1, <3>1 DEF IInv, OrderInv
  <2>4. \A q \in Cpus : boot'[q].online = boot[q].online /\ boot'[q].entry = boot[q].entry
    BY <1>3, Constants
  <2>5. \A q \in Cpus : /\ (q < i' => q < i \/ q = i)
                        /\ (q > i' \/ q = i' => q > i)
                        /\ (q <= i' /\ boot[q].online => q <= i)
    <3>1. i' \in Contexts => ~boot[i'].online
      <4>1. i' \notin 0 .. i
        BY <1>0, <1>2
      <4> QED BY <4>1 DEF IInv, RecordInv
    <3>2. \A q \in Cpus : q \in Nat /\ q \in Contexts
      BY Constants
    <3> QED BY <1>0, <1>2, <3>1, <3>2
  <2>6. \A q \in Cpus : Running(q)' <=> Running(q)
    BY <2>2 DEF Running
  <2> QED BY <1>2, <2>1, <2>2, <2>3, <2>4, <2>5, <2>6 DEF IInv, OrderInv
<1> QED BY <1>4, <1>7, <1>8, <1>9 DEF IInv

(* Begin on a context whose checks fail: it counts as failed at once.      *)
LEMMA BeginHolds ==
    ASSUME IInv, Begin
    PROVE  IInv'
<1>0. i \in Contexts /\ i \in Nat /\ i < Attempts /\ Attempts \in Nat /\ pc = "begin"
  BY AttemptsType DEF IInv, Begin
<1>1. StartError \in BootErrors
  <2>1. boot[i].error \in BootErrors /\ machine.targets \in Nat
    BY <1>0, Constants DEF IInv, BootTypeOK, Record
  <2> QED BY <2>1 DEF StartError, BootErrors
<1> DEFINE rec == [error |-> StartError, online |-> FALSE, state |-> "NONE", entry |-> "NONE"]
<1>2. rec \in Record /\ rec.error = StartError /\ ~rec.online /\ rec.state = "NONE"
  BY <1>1 DEF Record
<1>3. boot' = [boot EXCEPT ![i] = rec] /\ UNCHANGED <<machine, cpu>>
  BY DEF Begin
<1> HIDE DEF rec
<1>4. boot' \in [Contexts -> Record] /\ boot'[i] = rec /\ \A c \in Contexts : c # i => boot'[c] = boot[c]
  BY <1>0, <1>2, <1>3 DEF IInv, BootTypeOK
<1>5. \/ StartError = "OK" /\ page' = Torn /\ pc' = "build" /\ i' = i
      \/ StartError # "OK" /\ page' = page /\ pc' = "begin" /\ i' = i + 1
  BY <1>0 DEF Begin, Goto
<1>6. BootTypeOK'
  <2>1. i' \in 0 .. Attempts
    BY <1>0, <1>5
  <2> QED BY <1>0, <1>3, <1>4, <1>5, <2>1 DEF IInv, BootTypeOK, BspPlaces, Attempts
<1>7. 0 .. i - 1 \subseteq Begun' /\ \A q \in Cpus : Running(q)' <=> Running(q)
  <2>1. 0 .. i - 1 \subseteq 0 .. i' - 1
    BY <1>0, <1>5
  <2> QED BY <1>3, <1>5, <2>1 DEF Begun, Running
<1>8. Begun = 0 .. i - 1 /\ i \notin Begun
  BY <1>0 DEF Begun
<1>9. RecordInv'
  <2>1. \A q \in Cpus : Running(q) => cpu[q].ctx \in Begun /\ cpu[q].ctx # i /\ cpu[q].ctx \in Contexts
    BY <1>8 DEF IInv, RecordInv, BootTypeOK
  <2>2. \A q \in Cpus : cpu'[q].at \in Arrived \cup {"announce"} => boot'[cpu'[q].ctx].state # "NONE"
    BY <1>3, <1>4, <2>1 DEF IInv, RecordInv, Running, Arrived
  <2>3. \A c \in Contexts : c \notin 0 .. i' => c \notin 0 .. i /\ c # i
    BY <1>0, <1>5, Constants
  <2>4. pc' = "begin" => i' \notin 0 .. i /\ i' # i
    BY <1>0, <1>5
  <2>5. page' # Torn => page' \in Begun'
    BY <1>5, <1>7, <1>8 DEF IInv, RecordInv
  <2>6. \A c \in Contexts : c \notin 0 .. i => ~boot[c].online /\ boot[c].state = "NONE"
    BY DEF IInv, RecordInv
  <2>7. \A c \in Contexts : boot'[c].online => boot'[c].state # "NONE"
    BY <1>2, <1>4 DEF IInv, RecordInv
  <2>8. \A c \in Contexts : c \notin 0 .. i' => ~boot'[c].online /\ boot'[c].state = "NONE"
    BY <1>4, <2>3, <2>6
  <2>9. pc' \in {"begin", "done"} /\ i' \in Contexts => ~boot'[i'].online /\ boot'[i'].state = "NONE"
    BY <1>4, <1>5, <2>4, <2>6
  <2> QED BY <1>3, <1>7, <1>8, <2>1, <2>2, <2>5, <2>7, <2>8, <2>9 DEF RecordInv
<1>10. ResultInv'
  <2>1. \A c \in 0 .. i - 1 : c \in Contexts /\ c # i
    BY <1>0, Constants
  <2>2. \A c \in 0 .. i' - 1 : c \in 0 .. i - 1 \/ (c = i /\ StartError # "OK")
    BY <1>0, <1>5
  <2> QED BY <1>2, <1>4, <1>5, <2>1, <2>2 DEF IInv, ResultInv
<1>11. OrderInv'
  <2> SUFFICES ASSUME NoneFailed' PROVE OrderInv'
    BY DEF OrderInv
  <2>1. NoneFailed
    <3>1. \A c \in Contexts : c < i => boot'[c].error = boot[c].error
      BY <1>0, <1>4, Constants
    <3> QED BY <1>5, <3>1, FailureStays DEF IInv
  <2>2. pc' = "build" /\ i' = i
    <3>1. i' = i + 1 => i \in 0 .. i' - 1
      BY <1>0
    <3> QED BY <1>2, <1>4, <1>5, <3>1 DEF NoneFailed
  <2>3. \A q \in Cpus : q <= i /\ boot'[q].online => boot[q].online
    BY <1>2, <1>4, Constants
  <2>4. cpu[i].at = "off"
    BY <1>0, <2>1, Constants DEF IInv, OrderInv
  <2>5. \A q \in Cpus : cpu[q].at # "off" => boot'[q] = boot[q]
    BY <1>4, <2>4, Constants
  <2> QED BY <1>0, <1>3, <1>7, <2>1, <2>2, <2>3, <2>5 DEF IInv, OrderInv
<1> QED BY <1>6, <1>9, <1>10, <1>11 DEF IInv

(* The page is whole and leads to context i.                               *)
LEMMA BuildHolds ==
    ASSUME IInv, Build
    PROVE  IInv'
<1>0. i \in Contexts /\ i \in Nat /\ pc = "build"
  BY AttemptsType DEF IInv, Build
<1>1. page' = i /\ pc' = "ready" /\ UNCHANGED <<machine, boot, cpu, i>>
  BY DEF Build, Goto
<1>2. BootTypeOK'
  BY <1>0, <1>1 DEF IInv, BootTypeOK, BspPlaces, Attempts
<1>3. Begun = 0 .. i - 1 /\ Begun' = 0 .. i /\ Begun \subseteq Begun' /\ i \in Begun'
  BY <1>0, <1>1 DEF Begun
<1>4. RecordInv'
  BY <1>0, <1>1, <1>3 DEF IInv, RecordInv, Running
<1>5. ResultInv'
  BY <1>1 DEF IInv, ResultInv
<1>6. OrderInv'
  BY <1>0, <1>1 DEF IInv, OrderInv, NoneFailed, Running
<1> QED BY <1>2, <1>4, <1>5, <1>6 DEF IInv

(* The end of the bring-up loop keeps the invariant.                       *)
LEMMA FinishHolds ==
    ASSUME IInv, Finish
    PROVE  IInv'
<1>1. pc = "begin" /\ i = Attempts /\ pc' = "done" /\ UNCHANGED <<machine, boot, cpu, page, i>>
  BY DEF Finish, Goto
<1>2. BootTypeOK'
  BY <1>1 DEF IInv, BootTypeOK, BspPlaces, Attempts
<1>3. Begun' = Begun
  BY <1>1 DEF Begun
<1>4. RecordInv' /\ ResultInv'
  BY <1>1, <1>3 DEF IInv, RecordInv, ResultInv, Running
<1>5. OrderInv'
  BY <1>1 DEF IInv, OrderInv, NoneFailed, Running
<1> QED BY <1>2, <1>4, <1>5 DEF IInv

(* An IPI command, whether it is reported sent or not.                     *)
LEMMA SendHolds ==
    ASSUME IInv, NEW command \in Started, NEW next \in Started, NEW arrival,
           SendIpi(command, next, arrival), next \notin {"ready", "INIT", "claim", "ok"},
           cpu' = arrival => Ipi
    PROVE  IInv'
<1>1. Ipi /\ pc \in Started /\ UNCHANGED <<machine, page>>
  BY DEF SendIpi, Ipi
<1>2. CASE Return("ICR_TIMEOUT")
  <2>1. "ICR_TIMEOUT" \in BootErrors
    BY DEF BootErrors
  <2> QED BY <1>1, <1>2, <2>1, ReturnHolds
<1>3. CASE Goto(next) /\ UNCHANGED boot
  BY <1>1, <1>3, MoveHolds DEF Goto
<1> QED BY <1>2, <1>3 DEF SendIpi

(* A step of the BSP keeps the invariant.                                  *)
LEMMA BspHolds ==
    ASSUME IInv, Bsp
    PROVE  IInv'
<1>s. {"ready", "INIT", "sentInit", "deassert", "SIPI", "sentSipi", "look", "SIPI2", "wait",
       "claim", "ok"} = Started
  BY DEF Started, BspPlaces
<1>0. pc \in Started => i \in Contexts /\ boot[i] \in Record /\ boot \in [Contexts -> Record]
  BY AttemptsType DEF IInv, BootTypeOK, Started
<1>1. CASE Ready \/ SentInit \/ SentSipi
  <2>1. /\ pc \in Started /\ pc' \in {"INIT", "deassert", "look"} /\ (pc' = "INIT" => pc = "ready")
        /\ UNCHANGED <<machine, page, i, cpu>>
        /\ \E s \in {"READY", "SENT_INIT", "SENT_SIPI", "ONLINE"} : boot' = [boot EXCEPT ![i].state = s]
    BY <1>1, <1>s DEF Ready, SentInit, SentSipi, StoreState, Goto
  <2>2. pc' \in Started /\ Ipi
    BY <2>1, <1>s DEF Ipi
  <2> QED BY <2>1, <2>2, MoveHolds
<1>2. CASE Claim
  <2>1. /\ pc = "claim" /\ pc' = "ok" /\ UNCHANGED <<machine, page, i, cpu>>
        /\ boot' = [boot EXCEPT ![i].state = "ONLINE"]
    BY <1>2 DEF Claim, StoreState, Goto
  <2>2. pc \in Started /\ pc' \in Started /\ Ipi
    BY <2>1, <1>s DEF Ipi
  <2>3. boot'[i].state = "ONLINE" /\ boot[i].online
    BY <1>0, <2>1, <2>2 DEF IInv, ResultInv, Record
  <2> QED BY <2>1, <2>2, <2>3, MoveHolds
<1>3. CASE Init1
  <2>1. SendIpi("INIT", "sentInit", InitArrives)
    BY <1>3 DEF Init1
  <2>2. cpu' = InitArrives => Ipi
    BY <2>1 DEF SendIpi, InitArrives, Ipi
  <2> QED BY <2>1, <2>2, <1>s, SendHolds
<1>4. CASE Deassert
  <2>1. SendIpi("deassert", "SIPI", cpu)
    BY <1>4 DEF Deassert
  <2>2. cpu' = cpu => Ipi
    BY DEF Ipi
  <2> QED BY <2>1, <2>2, <1>s, SendHolds
<1>5. CASE Sipi
  <2>1. SendIpi("SIPI", "sentSipi", SipiArrives)
    BY <1>5 DEF Sipi
  <2>2. cpu' = SipiArrives => Ipi
    BY DEF SipiArrives, Ipi
  <2> QED BY <2>1, <2>2, <1>s, SendHolds
<1>6. CASE Sipi2
  <2>1. SendIpi("SIPI2", "wait", SipiArrives)
    BY <1>6 DEF Sipi2
  <2>2. cpu' = SipiArrives => Ipi
    BY DEF SipiArrives, Ipi
  <2> QED BY <2>1, <2>2, <1>s, SendHolds
<1>7. CASE Look
  <2>1. /\ pc = "look" /\ pc' \in {"wait", "SIPI2"} /\ UNCHANGED <<machine, page, i, cpu, boot>>
    BY <1>7 DEF Look, Goto
  <2>2. pc \in Started /\ pc' \in Started /\ Ipi
    BY <2>1, <1>s DEF Ipi
  <2> QED BY <2>1, <2>2, MoveHolds
<1>8. CASE SeeOnline
  <2>1. /\ pc = "wait" /\ pc' \in {"ok", "claim"} /\ UNCHANGED <<machine, page, i, cpu, boot>>
        /\ boot[i].online /\ (pc' = "ok" => boot[i].state \in {"HALTED", "FAULTED"})
    BY <1>8 DEF SeeOnline, Goto
  <2>2. pc \in Started /\ pc' \in Started /\ Ipi
    BY <2>1, <1>s DEF Ipi
  <2>3. pc' = "ok" => boot'[i].state \in {"ONLINE", "FAULTED"}
    BY <1>0, <2>1, <2>2 DEF Record
  <2> QED BY <2>1, <2>2, <2>3, MoveHolds
<1>9. CASE Succeed
  <2>1. pc = "ok" /\ Return("OK") /\ UNCHANGED <<machine, page, cpu>> /\ "OK" \in BootErrors
    BY <1>9 DEF Succeed, BootErrors
  <2>2. pc \in Started /\ Ipi
    BY <2>1, <1>s DEF Ipi
  <2> QED BY <2>1, <2>2, ReturnHolds
<1>10. CASE GiveUp
  <2>1. pc = "wait" /\ Return("ONLINE_TIMEOUT") /\ UNCHANGED <<machine, page, cpu>>
        /\ "ONLINE_TIMEOUT" \in BootErrors
    BY <1>10 DEF GiveUp, BootErrors
  <2>2. pc \in Started /\ Ipi
    BY <2>1, <1>s DEF Ipi
  <2> QED BY <2>1, <2>2, ReturnHolds
<1> QED BY <1>1, <1>2, <1>3, <1>4, <1>5, <1>6, <1>7, <1>8, <1>9, <1>10,
           BeginHolds, BuildHolds, FinishHolds DEF Bsp

(* The invariant holds before the first attempt.                           *)
LEMMA InitHolds ==
    ASSUME Init
    PROVE  IInv
<1>1. BootTypeOK
  <2>1. machine.targets \in 0 .. MaxContexts
    BY DEF Init
  <2>2. 0 \in 0 .. Attempts
    BY <2>1, Constants DEF Attempts
  <2>3. boot \in [Contexts -> Record]
    BY DEF Init, Record, BootErrors
  <2>4. cpu \in [Cpus -> [at : ApPlaces, stack : Contexts, ctx : Contexts]]
    BY Constants DEF Init, ApPlaces
  <2> QED BY <2>2, <2>3, <2>4 DEF Init, BootTypeOK, BspPlaces
<1>2. \A p \in Cpus : ~Running(p) /\ cpu[p].at = "off"
  BY DEF Init, Running
<1>3. RecordInv
  BY <1>2 DEF Init, RecordInv, Arrived
<1>4. ResultInv
  BY DEF Init, ResultInv
<1>5. OrderInv
  BY <1>2, Constants DEF Init, OrderInv
<1> QED BY <1>1, <1>3, <1>4, <1>5 DEF IInv

(* Every step keeps the invariant.                                         *)
LEMMA StepHolds ==
    ASSUME IInv, [Next]_vars
    PROVE  IInv'
<1>1. CASE UNCHANGED vars
  <2>1. UNCHANGED <<machine, boot, page, cpu, pc, i>>
    BY <1>1 DEF vars
  <2>2. BootTypeOK' /\ RecordInv'
    BY <2>1 DEF IInv, BootTypeOK, RecordInv, Attempts, Running, Begun
  <2>3. ResultInv' /\ OrderInv'
    BY <2>1 DEF IInv, ResultInv, OrderInv, NoneFailed, Running
  <2> QED BY <2>2, <2>3 DEF IInv
<1> QED BY <1>1, BspHolds, ApHolds DEF Next, Done

(* The invariant holds in every reachable state.                           *)
THEOREM InductiveInvariant == Spec => []IInv
<1>1. IInv /\ [Next]_vars => IInv'
  BY StepHolds
<1> QED BY InitHolds, <1>1, PTL DEF Spec

(* As long as no bring-up has failed, the one trampoline page gives every  *)
(* AP its own stack and its own context, however slow the APs are.         *)
THEOREM PageGivesOwnContext == Spec => []OwnContext
<1>1. IInv => OwnContext
  BY DEF IInv, OrderInv, OwnContext
<1> QED BY <1>1, InductiveInvariant, PTL

(* As long as no bring-up has failed, an AP reported OK is in the request  *)
(* loop or in its fault handler.                                           *)
THEOREM OkHasArrived == Spec => []OkMeansArrived
<1>1. IInv => OkMeansArrived
  <2> SUFFICES ASSUME IInv, NoneFailed, NEW c \in 0 .. i - 1
               PROVE  /\ cpu[c].at \in {"loop", "faulting", "dead"}
                      /\ boot[c].entry = IF cpu[c].at = "loop" THEN "LOOP" ELSE "FAULT"
    BY DEF OkMeansArrived
  <2>1. c \in Cpus /\ c < i
    BY AttemptsType, Constants DEF IInv
  <2> QED BY <2>1 DEF IInv, OrderInv, Arrived
<1> QED BY <1>1, InductiveInvariant, PTL

(* Whatever the APs do and whatever fails, the records the scheduler gets  *)
(* are of the four kinds it is analysed for.                               *)
THEOREM RecordsHandedOver == Spec => []HandOver
<1>1. IInv => HandOver
  <2> SUFFICES ASSUME IInv, pc = "done", NEW c \in Contexts
               PROVE  Seen(c) \in IF c < Attempts THEN BroughtUp \cup Failed \cup Late ELSE Unused
    BY DEF HandOver
  <2>0. i = Attempts /\ i \in Nat /\ c \in Nat
    BY AttemptsType, Constants DEF IInv, BootTypeOK
  <2>1. boot[c] \in Record
    BY DEF IInv, BootTypeOK
  <2>2. CASE c < Attempts
    <3>1. c \in 0 .. i - 1
      BY <2>0, <2>2
    <3>2. boot[c].error = "OK" => boot[c].online /\ boot[c].state \in {"ONLINE", "FAULTED"}
      BY <3>1 DEF IInv, ResultInv
    <3>3. boot[c].online => boot[c].state # "NONE"
      BY DEF IInv, RecordInv
    <3>4. /\ boot[c].online \in BOOLEAN
          /\ boot[c].state \in {"NONE", "READY", "SENT_INIT", "SENT_SIPI", "ONLINE", "FAULTED"}
      BY <2>1 DEF Record
    <3>5. CASE boot[c].error = "OK"
      <4>1. boot[c].online = TRUE /\ (boot[c].error = "OK") = TRUE
        BY <3>2, <3>4, <3>5, Zenon
      <4>2. Seen(c) = [ok |-> TRUE, online |-> TRUE, state |-> boot[c].state]
        BY <4>1 DEF Seen
      <4> QED BY <2>2, <3>2, <3>5, <4>2 DEF BroughtUp
    <3>6. CASE boot[c].error # "OK" /\ boot[c].online
      <4>1. boot[c].online = TRUE /\ (boot[c].error = "OK") = FALSE
        BY <3>4, <3>6, Zenon
      <4>2. Seen(c) = [ok |-> FALSE, online |-> TRUE, state |-> boot[c].state]
        BY <4>1 DEF Seen
      <4> QED BY <2>2, <3>3, <3>4, <3>6, <4>2 DEF Late
    <3>7. CASE boot[c].error # "OK" /\ ~boot[c].online
      <4>1. boot[c].online = FALSE /\ (boot[c].error = "OK") = FALSE
        BY <3>4, <3>7, Zenon
      <4>2. Seen(c) = [ok |-> FALSE, online |-> FALSE, state |-> boot[c].state]
        BY <4>1 DEF Seen
      <4> QED BY <2>2, <3>4, <4>2 DEF Failed
    <3> QED BY <2>2, <3>5, <3>6, <3>7
  <2>3. CASE ~(c < Attempts)
    <3>1. c = i \/ c \notin 0 .. i
      BY <2>0, <2>3
    <3>2. ~boot[c].online /\ boot[c].state = "NONE" /\ boot[c].online \in BOOLEAN
      BY <2>1, <3>1 DEF IInv, RecordInv, Record
    <3> QED BY <2>3, <3>2 DEF Seen, Unused
  <2> QED BY <2>2, <2>3
<1> QED BY <1>1, InductiveInvariant, PTL

=============================================================================
