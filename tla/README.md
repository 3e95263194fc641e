# TLA+ verification of the vibe kernel

`vibe` is a small UEFI kernel. The boot processor (BSP) leaves the firmware,
builds its page tables, finds the other processors (APs) in the ACPI tables,
starts them, and then hands them *requests* through an inbox of four slots per
AP, without locks: each slot has a state word that both sides change, the BSP
with plain stores and `cmpxchg`, the AP with `cmpxchg`. Inter-processor
interrupts (IPIs) are hints; timers bound every wait. The AP may die at any
instruction (an exception parks it), halt on a request it does not know, or
hang in a handler.

The project models that protocol in most detail, because it is where CPUs run
against each other; the boot sequence before it (leaving the firmware, paging,
ACPI, bring-up) is modelled step by step as well. All line numbers below are of
`src/kernel/kernel.c` unless another file is named.

## 1. Inventory

| Component | State | Operations | Interacts with | What makes it correct |
|---|---|---|---|---|
| AP services (`ap_services.c`) | registry of (service, interface, owner, handler) | lookup, classify, owner query, ping, counter, test hooks | called by the AP loop and the router | a lookup needs both ids; a miss reports the id that missed |
| AP request loop (2269–2346) | slots, `current_request_slot`, `queue_summary`, counters, idle timer | sweep, claim, dispatch, complete, BAD_OP halt, notify, `hlt` | slots shared with the BSP; kick IPI in, completion IPI out | one request at a time; each at most once; pending work is not forgotten |
| AP fault handler (1754–1821) | `boot.fault_*`, `ap_state`, the current slot | report, mark the slot, mark FAULTED, notify, park | interrupts the loop anywhere | the death of an AP is visible to the BSP |
| BSP request stream (2349–2633) | `active[]`, `next_plan`, history, counters, `wait_loops` | publish, check, record, refill, stop, wait, expire, return | slots; `ap_state`; IPIs; wait timer | returns; records each published request once; what it records is what happened |
| Scheduler and routing (740–859) | registry of online APs, next index, route | scan, select, route | reads `ap_state` of running APs; service owners | never prefers a dead AP to a live one; explicit over owner over round robin |
| Result report (3615–3637) | none | check a history entry | history | a served request is shown as OK |
| Nested outbox (`ap_request.c` 119–203) | outbound requests, count | reset, append, commit, copy | AP writes, BSP copies after DONE | committed before DONE is visible; capacity kept |
| Broadcast (2635–2784) | summary per AP | publish to all, wait, restore counters | slot 0 of each AP, then the stream reuses it | leaves an inbox nobody is working on |
| AP bring-up (2786–2843, 3239–3529) | trampoline page, `ap_state`, `online`, `error` | INIT, SIPI, wait | AP entry code writes the same fields | one CPU per context; a fault is not overwritten |
| ACPI discovery (2868–3129) | CPU table | walk tables, add CPUs | memory map | stays in the table; respects the limit |
| Paging (1368–1627) | page pool, four-level tables, memory map | estimate, select pool, map ranges | memory map, framebuffer | identity where mapped; pool suffices |
| ExitBootServices (4304–4346) | memory map key | get map, exit, retry | firmware | bounded retry with a fresh key |
| BSP faults, IDT, LAPIC, timers, ISRs | gates, counters | encode, report | hardware | linear code |
| Framebuffer, font, host tests, PXE lab scripts, `hello.efi` | – | I/O | – | – |

Hard behaviour: the interleaving of two CPUs over a state word that one of them
stores to blindly; an exception between any two instructions; `HALTED` visible
before the slot's `BAD_OP`; a timeout racing a completion; a lost kick; state
words read twice with a decision in between; a slot handed from the broadcast to
the stream while a slow AP still holds it; one trampoline page for all APs; a
memory map that changes under the firmware call that needs it; tables written by
the firmware whose lengths cannot be trusted. `PROJECT.json` lists each of these
under `hazards` with its line and the properties that would notice.

## 2. Modules

| Module | Models | Extends |
|---|---|---|
| `ApServices` | `ap_services.c`: registry and lookups. A 64-bit id is a pair of 32-bit words, because `ap_dispatch_miss_result_code` casts to 32 bits | – |
| `ApLoop` | the AP: `ap_request_loop`, `ap_fault_dispatch`, handlers, completion in `ap_request.c`, and the state shared with the BSP | `ApServices` |
| `ApStream` | the BSP: `run_ap_request_stream` and all it calls, composed with `ApLoop` | `ApLoop` |
| `RequestLedger` | abstract: what the stream promises its caller, without slots, interrupts or program counters | – |
| `StreamLedger` | the refinement mapping from `ApStream` to `RequestLedger` | `ApStream` |
| `BroadcastThenStream` | the broadcast ping on one AP, then the stream on the same slot 0 | `StreamLedger` |
| `ApBroadcast` | the broadcast over several APs: offers, wait, timeouts, summary | – |
| `ApOutbox` | the requests a handler sends on: scratch outbox, commit, take-back, reuse of slots | – |
| `ApBootStates` | the boot records bring-up can leave | – |
| `ApBoot` | bring-up: trampoline page, INIT/SIPI, wait, the AP's entry code | `ApBootStates` |
| `ApScheduler` | registry of online APs, selection and routing, with APs dying and arriving | `ApServices`, `ApBootStates` |
| `MemoryMap` | descriptor ends, containment, alignment, with the code's overflow checks | – |
| `Paging` | `setup_kernel_paging`: range checks, pool, four-level identity map | `MemoryMap` |
| `AcpiMadt` | RSDP, XSDT, MADT, CPU table, choice of targets | `MemoryMap` |
| `ExitBoot` | `exit_boot_services` against a firmware whose map changes | – |
| `StreamProofs` | theorems about `ApStream`, `StreamLedger` and `BroadcastThenStream`, a section each | `BroadcastThenStream` |
| `PagingProofs`, `ApSchedulerProofs`, `ApBroadcastProofs`, `ApOutboxProofs`, `ApBootProofs`, `AcpiMadtProofs`, `ExitBootProofs` | theorems | the modules they are about |
| `MC…` | the plans, maps and tables TLC uses | the modules they instantiate |

The boot sequence is `ExitBoot`, `Paging`, `AcpiMadt`, `ApBoot`, `ApScheduler`,
`BroadcastThenStream` in the order of `efi_main`. They are composed where state is
shared while it changes (`ApLoop` with `ApStream`, and both with the broadcast);
elsewhere one module's result is the next one's set of initial states:
`ApBoot.HandOver` says that the records bring-up leaves are among those
`ApScheduler` starts from, and `AcpiMadt.TargetsAreReal` that there is a target
for every index bring-up asks for.

### How state and actions correspond

*Slots.* `slotState`, `slotReq`, `slotReply` are `request_slots[]`: state word,
request header (a request is its number in the plan, `NoReq` for a reset slot),
reply and `handled_count`. `apPc`/`apI`/`handledWork` and `bspPc`/`bspI`/`active`/
`nextPlan`/… are the program counters and locals of the two functions.

*AP.* One action per atomic step: `Claim`/`Skip` (cmpxchg PENDING→RUNNING, 2287),
`Start` (`begin_ap_reply`, summary), `Handle`/`Hang`/`FaultInHandler` (the handler
with its build-time hook), `note_ap_request_handled`, `CompleteDone` (cmpxchg
RUNNING→DONE), `NoteDone`, `NotifyDone`; `Miss`, `MissNote`, `MissComplete`,
`MissNotify` (unknown service: HALTED, then BAD_OP); `SweepAgain`, `Idle`, `Wake`
(idle timer, `hlt`). `EnterFault` may happen at every boundary of the loop and runs
`FaultReport`, `FaultPending`/`FaultRunning`/`FaultEmpty` (three cmpxchg),
`FaultStore`, `FaultMark`, `FaultNotify`.

*BSP.* `ResetStream`, `EarlyReturn`, `BeginPublish`; the publish routine
`PubReset` … `PubKick`, called for the first round and for refills (`backTo`
remembers which); the main loop `LoopTop`, `Check`, `Finish`, `Refill`,
`ScanEnd`, `Decide`, `WakeByIpi`/`WakeByTimer`; `StopRead`/`StopStore`/
`StopReturn`, whose read and blind store are two steps; and the epilogue
`Drain`, `ExpirePending`/`ExpireRunning`/`ExpireFinish`, `Return`.

*Memory.* Steps interleave sequentially. x86 store buffering is left out because
every store the other CPU acts on is followed by `mfence` or a locked
instruction. Stores nobody else reads before the next such point are part of the
same step.

*Interrupts.* A latched kick or completion IPI is a flag. Sending may fail (the
LAPIC stays busy, 3402–3422), which leaves the flag as it was. The wait timers always fire.

*Exceptions.* `Vectors` is the set of exceptions an AP may take by itself, at any
boundary in the loop. `faultTest` is the build (`VIBE_AP_REQUEST_FAULT_TEST`), fixed in the
initial state: the `ud2` build faults in every handler, the `hang` build hangs in the ping handler. Not modelled: an
exception inside the fault handler, or after the AP has declared itself HALTED.

*Scheduler.* Each read of a context's boot state is a step of its own (`Scan`,
`SelectExplicit`/`SelectNext`, `Route…`); `ApFaults` and `ApComesLate` happen in
between. `deaths` is a ghost variable: who died since the scan began. Initial
states are all those `bring_up_one_ap` can leave in the contexts.

*Broadcast.* `Bc…` are the steps of `run_ap_broadcast_ping` for the AP the stream
will use, down to the two looks at `ap_state` in `publish_ap_inbox_request` and the
two exchanges of the timeout. The ping is the request after the plan's, so that
executions of it are told apart. After a timeout the model lets the AP look up and
run a handler in one step, which is coarser than the code: what the handler reads
then is what the BSP has stored by that moment. `ApBroadcast` has the APs the
stream does not use; an AP there is only what it does to its slot 0.

*Outbox.* Copying to the slot's outbox and clearing it are done entry by entry,
with the other CPU's steps in between. The BSP may reset any slot that has a final
state, which includes slots whose AP is still copying, or has claimed the slot and not yet
read the header: `Dispatch` runs whatever request the header names by then. A header that was
just cleared or names no service ends in `Miss`, the BAD_OP halt. An exception before the claim
is noted in `current_request_slot` (2293) leaves the slot RUNNING.

*Bring-up.* `page` is the context the trampoline page leads to, or `Torn` while it
is rewritten; an AP that executes a torn page is `lost`. INIT and SIPI may or may not
arrive, whatever `lapic_send_ipi` reports. The wait may expire at any time: the code counts
iterations, not time. APIC ids in the MADT are taken to be distinct.

*Paging.* A table has 4 entries instead of 512 and a page 2 addresses instead of
4096; the address arithmetic and the overflow checks are the code's. `LowLimit` is LOW_CANONICAL_LIMIT
(2^47): the pages under the lower half of the root's entries, half of what four levels can map.
`mem` holds
the entries of every page of the pool; `MapPage` is one turn of the page loop. Of the
firmware's map only what UEFI promises is assumed (`FirmwareAssumption`): descriptors start on a
page and do not overlap. Their order, number, types and ends are open, ends beyond the address space
included. A memory type is one of the four that paging tells apart.

*ACPI.* The tables are not laid out byte by byte: each read of a field is a choice
among the values that matter, and `stray` collects reads outside the
memory map. An entry that is read twice at the same offset has the same value.

*Firmware.* `Churn` (external) may change the memory map between any two calls,
for ever; a key is good only while the map it came with is current. `ExitBootServices` refuses
no current key, as UEFI has it; the code would try again after any error.

*Left out:* metrics that only the screen shows (wake-up, halt and send
counters, `cs`, `tr`, a slot's `wait_loops`), header fields that are copied and never
read, the text on the screen. The local APIC base is taken to be nonzero.

## 3. What TLC checks

| Run | Instance | Shows | Distinct states |
|---|---|---|---|
| `stream_safety` | 2 slots, plan counter/ping/counter, exceptions anywhere, all three builds | all safety properties of the stream; it implements `RequestLedger`; a running AP does not forget a pending request | 377,269 |
| `stream_bad_op` | plan counter/unknown/ping, normal and `hang` builds | the same where the AP halts and HALTED precedes BAD_OP; the stream returns, with fairness of the BSP only | 107,008 |
| `report_order` | counter/counter/counter | **violated**: see findings | – |
| `broadcast_hand_over` | the one slot both use, plan of 2, broadcast first, exceptions anywhere | the broadcast does not disturb the stream; both end, with fairness of the BSP only | 288,530 |
| `broadcast_late` | no exceptions, broadcast may time out | **violated**: see findings | – |
| `broadcast` | 2 APs | the summary is complete, true and final | 16,840 |
| `outbox` | 2 slots, 3 requests, capacity 2, up to 3 enqueues | DONE shows the whole outbox and nothing else | 42,516 |
| `bring_up` | 2 contexts, all firmware outcomes | own stack and context; records fit the scheduler | 23,308 |
| `scheduler` | 4 contexts of 5, explicit target AP2, owner AP1 | registry and route are sound; explicit target, owner, round robin in that order | 995,682 |
| `paging` | all small memory maps and framebuffers of `MCPaging` | the map is exact and the pool suffices | 8,297 |
| `acpi` | arbitrary lengths, addresses and entries | reads stay mapped, the CPU table is a prefix | 9,129 |
| `exit_boot` | any changes of the map | the kernel owns the map in force or halts for a reason | 25,684 |

The properties, in one line each:

* `RunningIsOwned` – a RUNNING slot is the one the AP is serving.
* `NoSilentDeath` – a request is never open on a parked AP whose `ap_state` hides it.
* `AtMostOnce` – no request's handler runs twice, through refills, timeouts and faults.
* `OutcomeIsTrue` – DONE in the history: the handler ran, once, and the reply is
  this request's; SKIPPED or BAD_OP: it did not run and never will.
* `EveryRequestRecorded` – on return, each published request is recorded exactly once.
* `CountersAgree` – the BSP's running counter never exceeds the AP's; at the end
  they differ at most by increments given up on.
* `SummaryDrained` – after complete success the AP's queue summary says DRAINED.
* `ResultsAreKept` – an action property: a result not yet recorded is never overwritten.
* `FaultCarriesVector` – a FAULT carries the exception's vector, however it was recorded.
* `StreamReturns`, `PendingIsServed` – liveness.
* `RegistryIsSound`, `NeverRoutedToDead`, `PrecedenceIsKept` – the router.

* `ImplementsLedger` – the refinement: every behaviour of the two CPUs is one of the
  ledger. Requests are opened in order, served at most once, settled once and
  truthfully; nothing is opened after a failure; the stream closes with nothing open and claims
  success only when every request is DONE.
* `CleanHandOver` – unless the broadcast timed out, `AtMostOnce`, `OutcomeIsTrue` and `CountersAgree` hold in the stream after it.
* `SummaryOffByPing` – the AP notes the ping in its queue summary after the DONE that
  ends the broadcast, so the note may land after the stream's reset. `SummaryDrained` therefore
  does not hold after a broadcast; what does is that the summary is off by at most the ping.
* `RoundReturns`, `BroadcastEnds` – liveness of the broadcast.
* `SummaryAddsUp`, `EntriesAreTrue`, `RecordedIsFinal` – the broadcast's summary.
* `DoneIsWhole`, `NothingLeaks` – the outbox of a request is all there as long as its
  DONE is, and never holds what a failed or timed-out handler left.
* `OwnContext`, `OkMeansArrived`, `HandOver`, `BringUpEnds` – bring-up.
* `LoadedMapIsExact`, `PoolSuffices`, `MapStaysWhole`, `FailureIsNamed` – paging: the loaded map
  has exactly the described pages and the framebuffer, each mapped to itself, uncached where it
  must be, and nothing in the high half, which the repository's README.md leaves to userspace; the estimate is enough; no memory is lost from the map and no table lies in memory it
  calls free; a failure says why.
* `ReadsAreMapped`, `TableIsPrefix`, `TargetsAreReal`, `ParsingEnds` – ACPI.
* `OwnedMapIsCurrent`, `FailureHasReason`, `BootDecides` – leaving the firmware.

**Bounds.** `SlotCount = 2` (the code: 4) is the least with two slots in flight,
an order between them and a refill beside a running request; the plan has three
requests, so exactly one slot is refilled. `HistoryCount` equals the plan, as 8
equals 8 in the code. `TimeoutLoops = 2`, `TimerStep = 2`: one step wake-ups do
not time out, one timer does. `OrderBase = 100` stands for 0x80000000, above
every `handled_count`. In the scheduler 4 of 5 contexts are used, so that the
count and the array size differ; target and owner are neither AP0 nor each other, and two more
contexts are left to take turns when both are down. The default build, without a target, selects as
this one does when its target is not schedulable. Bring-up has 2 contexts: one AP that
outlives its wait and the next one it can meet (3 contexts are beyond 5 million
states). The outbox has 2 slots that share one scratch box, one enqueue more than fits, and enough
requests to reuse a slot. In `MCPaging` the low half ends at page 128 of the 256 that the tables
reach: descriptors and framebuffers lie at its last page, across its end, above it and at the end of the
addresses, and conventional ranges are one page smaller than, equal to and larger than the pool that such a map needs. `Slack = 0` in `MCPaging.cfg` leaves out the
16 spare pages of the estimate: the pool suffices without them. `MaxCpus` is below the
number of processors an MADT can list, so that the table overflows. `MaxSize` of
`ExitBoot` exceeds the buffer's spare room, so that the map can outgrow it.

**Fairness.** `BspFairSpec`: weak fairness of the BSP's steps; the BSP runs its
code and its wait timer fires, nothing is assumed of the AP. `ApFairSpec`: weak
fairness of the AP's steps, so its idle timer fires; exceptions are never forced.

The other modules assume
weak fairness of the one CPU that executes the code (`RoundFairSpec`, and `Spec` of
`ApBroadcast`, `ApBoot`, `AcpiMadt`, `ExitBoot`), never of APs or firmware. None is assumed where only
safety is checked (`ApOutbox`, `Paging`, `ApScheduler`).

**Deadlock** is checked in every run but one: a parked CPU leaves the other one running,
and the end of the BSP is an explicit stuttering step (`HaltForever`,
`Streaming`, `Stop`, `Done`). `ApOutbox` ends when `MaxRequests` have been published,
a bound of the model.

### Findings

`report_order`: the main loop decides with `ap_stream_has_earlier_finished_slot`
(2578–2579) that no earlier-handled slot is finished, then `finish_ap_stream_slot`
reads the slot's state word again (2489). A slot that was RUNNING at the first
read can be DONE at the second, together with one handled before it. The two are
recorded in the wrong order, and `ap_request_result_ok` (3632,
`request->reply.result_code == counter_value`) rejects both: requests the AP
served correctly are shown as NOT-OK. Nothing else depends on the order, so
`OutcomeIsTrue`, `EveryRequestRecorded` and `CountersAgree` still hold.

`broadcast_late`: a broadcast that times out marks slot 0 TIMEOUT and restores the
target's counters (2779–2783), but the AP may still hold its claim. The stream resets and
republishes the slot; the AP then runs the *stream's* request, its exchange
RUNNING→DONE fails because the word is PENDING again, and it claims and runs the request a
second time. A counter is incremented twice, the reply is 2 where the BSP counts 1, and
the kernel's own check (3632) shows NOT-OK for a request that was served. With a timeout,
`AtMostOnce` and `OutcomeIsTrue` fail in the same way, which is why `CleanHandOver` excludes it.

### Observations

No line of the repository says otherwise, so these are not findings:

* After a bring-up timeout a late AP may enter with the stack and the context of the
  next one; `OwnContext` is stated for boots without a failed bring-up.
* The BSP's stores of SENT_SIPI and ONLINE (3505, 3518) can hide an AP's FAULTED in
  `ap_state`; `entry_state` still tells, which is what `OkMeansArrived` looks at. `HandOver` counts
  such an AP among the records the scheduler may start from: no property rules the overwriting out. The scheduler's
  properties are relative to what `ap_state` says.
* `parse_madt` reads an entry's length byte before it knows that the byte is in the
  table (3016): `ReadsAreMapped` allows that one byte after the MADT's end.
* When the memory map has no room for the pool's descriptor, the pool's pages are
  already cut off (1472–1480). `efi_main` halts in that case.

* If an exception strikes between an AP's cmpxchg to DONE and its store of NO_SLOT
  (2305–2314), the handler takes a request the BSP has put into that slot since for the current
  one and marks it FAULT with fault code 0. `FaultCarriesVector` leaves out exactly this case; it
  is listed as a hazard.

## 4. What is proved

With TLAPS, for every number of slots, every plan (known and unknown
services), every set of exceptions, all three builds and every timeout
(assumptions `SlotCountAssumption`, `PlanAssumption`, `VectorsAssumption`,
`FaultTestAssumption`, `StreamAssumption`: the constants are of their types, there is
a slot and the timer step is not 0):

* `TypeCorrect` – `Spec => []TypeOK`
* `SingleOwner` – `Spec => []RunningIsOwned`
* `ServedAtMostOnce` – `Spec => []AtMostOnce`
* `DeathIsAnnounced` – `Spec => []NoSilentDeath`

They are in `StreamProofs`. None of these is inductive alone. `IInv` (end of `ApStream`) adds
`IndexInv` (an index is in range where it is used), `RequestInv` (what can be
claimed carries a request; what is being prepared carries the next one),
`FirstRoundInv` (slots the first round has not reached are untouched),
`HandOverInv` (the AP does not claim what the BSP prepares and the BSP does not
prepare what the AP serves), `UnservedInv` (a request is in one slot, and
unserved while it is PENDING or claimed), `DeathInv`. `AtMostOnce` needs
them all: the counter of executions moves only at `dispatch`, where `UnservedInv` says it
is 0; that survives refills because `HandOverInv` only lets a DONE slot be refilled and
the request numbers only grow. The proof goes conjunct by conjunct, first the AP's steps, then the
BSP's (`ApUnservedStep`, `BspUnservedStep` are the heart). `IInv` is stated so that the AP may be at
work while the BSP is still at `reset`; what an AP without a broadcast before it does not do is apart in
`SettledInv`, and the two together are inductive. The lemmas about the AP's steps hold wherever
the BSP is, and serve the composition with the broadcast as they are.

### The stream's results and the ledger

Also in `StreamProofs`, under the same assumptions:

* `HistoryIsTrue` – `Spec => []OutcomeIsTrue`
* `ResultIsKept` – `Spec => ResultsAreKept`
* `FaultsAreExplained` – `Spec => []FaultCarriesVector`
* `SummaryIsDrained` – `Spec => []SummaryDrained`

and, when the history has room for the plan (`PlanCount <= HistoryCount`; the code's
`AP_REQUEST_HISTORY_COUNT` is 8 and the plan of `efi_main` has 8 requests):

* `NoRequestForgotten` – `Spec => []EveryRequestRecorded`
* `StreamImplementsLedger` – `Spec => ImplementsLedger`, that is `RequestLedger!Spec` under the
  mapping of `StreamLedger`
* `CountersStayTogether` – `Spec => []CountersAgree`, if moreover every request to the counter
  service carries the COUNTER opcode, as those of `efi_main` do unless a build redefines them (4440–4473 with the macros at 63–148):
  the AP counts what it dispatches by service, the BSP what it records by opcode.

`LedgerInv` (in `StreamLedger`) is inductive together with `IInv`. `LifeInv` ties `ap_state` to where
the AP is; `StopInv` says that the stream is stopped, and FAULT, SKIPPED and BAD_OP are stored, only
once the AP is over; `ActiveInv` what a side between a read and a store still knows about the word it read,
which is why the store without `cmpxchg` in `stop_ap_request_stream` loses no result;
`SlotsAreTrue` and `HistoryInv` what a reply, a state word and an entry say about
executions; `AccountInv` that every opened request is in an active slot or in the
history, once, and that `completed` counts them. For the refinement each step of
the two CPUs is shown to be a step of the ledger or to leave it alone (storing a state word in publish opens,
`dispatch` serves, `RecordSlot` settles, the last step of the epilogue returns); success is claimed
only when all is DONE, because `EntryInv` keeps the slot of a failed entry in a state other than DONE
until the end.

The other three need one more invariant each. `FaultInv`: FAULT is stored only after
the vector, and a request that was RUNNING when the exception hit keeps its slot.
`SummaryInv(0)`: the AP's count of handled requests equals the BSP's count of recorded ones plus the DONE
slots not recorded yet, as long as neither gave up. `CounterInv`: the counter equals the
BSP's count plus the increments that ran and are not recorded as DONE; those left at
the end are in the history, so they are TIMEOUT or FAULT.

### The broadcast and the stream after it

The last section of `StreamProofs`, under those assumptions and `BroadcastAssumption` (the entry after the
stream's plan is the ping the broadcast publishes):

* `SummaryIsOffByPing` – `RoundSpec => []SummaryOffByPing`
* `HandOverIsClean` – `RoundSpec => []CleanHandOver`, under the hypotheses of `CountersStayTogether`,
  because `CountersAgree` is part of it

A broadcast leaves states in which the stream alone never starts: the AP that completed
the ping may still be between its `cmpxchg` to DONE and the note in its summary when the BSP resets the
slots and the summary. `RoundInv` (end of `BroadcastThenStream`) says what survives. `IInv` holds
throughout, a refused or faulted ping included, until a timeout is recorded. `PingInv`, during the broadcast, ties the slot of the ping to where the BSP
and the AP are, and `HoldInv` says where the AP can be while it has a current slot. When the broadcast ends without
a timeout they imply `SettledInv`, the hand-over condition: no slot is PENDING, RUNNING or TIMEOUT
at the reset, the AP is in no handler, and has a current slot only on its way out of it.
From there the lemmas about the stream's own steps carry `LedgerInv`, `FaultInv`
and `CounterInv`. The summary is the exception: `SummaryInv(extra)` holds with `extra` 0 or 1, fixed at
the reset by whether the AP still has the ping to note, hence "off by at most the ping".
After a timeout nothing of this is claimed; the run `broadcast_late` shows why.

### Paging

`PagingProofs`, for tables with any number of entries above 1 (512 in the code), pages of any size, any slack (0 as well as
the code's 16), any maps UEFI allows (`FirmwareAssumption`) and any framebuffer
(`MapAssumption`, `PagingAssumption`: the constants are of their types):

* `PoolIsLargeEnough` – `Spec => []PoolSuffices`
* `LoadedMapIsIdentity` – `Spec => []LoadedMapIsExact`
* `MapIsKeptWhole` – `Spec => []MapStaysWhole`
* `FailuresAreNamed` – `Spec => []FailureIsNamed`

The tables are a memory of pages that point to each other, so the invariant (end of `Paging`) has to say
that they form a tree. `Tree` gives each table a level and the prefix of the addresses it
covers; no two tables share both, every present entry points to the table one level down with the
right prefix, and every table but the root is pointed to. The pool suffices because of it: prefixes
on a level are below `div_round_up64(N, Span(level))`, the estimate's term for that level, with
N the pages below the highest end; a table still missing has a key that none has, so the tables
are fewer than the keys, which are as many as the estimate (`PoolInv` counts both). An absent entry covers no page
mapped so far, so allocating a table hides none.
`Leaves` says that the entries of level 1 are present exactly for the pages mapped so far
(`MappedPages`, defined by the two loops' counters), with their own address, and uncached exactly
when some range that covers them is. That no range finds an entry with another address
(`TABLE_ENTRY`) follows. `MapInv` carries the map across the cut: the descriptor shortened by the pool and
the pool's own describe the same pages, stay aligned and disjoint, and no table is in what stays conventional.
At `load` all ranges are done, so the walk of `Leaf` finds exactly the described pages and
the framebuffer's. The walk is followed for all pages the tables can reach (`TablePages`), the ranges
are in the low half (`LowHalf`): in the high half it finds nothing.

### Scheduler and ExitBootServices

`ApSchedulerProofs`, for any number of contexts, any explicit target, any plan
and any owners:

* `RegistryCorrect` – `Spec => []RegistryIsSound`
* `RoutedToTheLiving` – `Spec => []NeverRoutedToDead`
* `PrecedenceCorrect` – `Spec => []PrecedenceIsKept`

by an invariant that says of the registry, the selection and the route that they name only
contexts that `WasUp`: schedulable at some point since the scan began. Precedence needs
`ChoiceInv` besides: until somebody dies, the selection is the explicit target or the head of the
registry, and an AP that arrives late does not change who is schedulable. That the first
owned request exists is the well-foundedness of the naturals (`LeastExists`).

`ExitBootProofs`, for maps and buffers of any size and any number of tries (`ExitAssumption`: the
spare room covers what the kernel's own allocation adds):

* `MapIsCurrent` – `Spec => []OwnedMapIsCurrent`
* `GivesUpForAReason` – `Spec => []FailureHasReason`

by `KeyInv` (a current key came with the map as it is) and `ReasonInv` (a turn that failed has
seen a change no earlier turn was charged with; without a change the buffer is large enough).

### Broadcast, outbox, bring-up and ACPI

`ApBroadcastProofs`, for any number of APs, any timeout and timer step other than 0:

* `SummaryIsExact` – `Spec => []SummaryAddsUp`
* `SummaryIsTruthful` – `Spec => []EntriesAreTrue`
* `RecordedSlotIsFinal` – `Spec => RecordedIsFinal`

by `ControlInv` (where the BSP is fixes what it knows about its index), `SlotInv` (a ping published is waited for
or recorded, and what is recorded is in the slot), `ServeInv` (the AP runs a ping once, and cannot complete one
that was taken away) and `CountInv`. That planned equals completed at the end is
an equality of cardinalities: the published pings are the recorded ones when nothing is active.

`ApOutboxProofs`, for any set of slots, any capacity other than 0 and any number of requests and enqueues:

* `CommittedOutboxIsWhole` – `Spec => []DoneIsWhole`
* `NoPlanLeaks` – `Spec => []NothingLeaks`

Both are conjuncts of the inductive invariant. `OneSlotInv` keeps a request in one slot, `RunningInv` says that
a slot is RUNNING only with the AP at work on it, or dead there, `ScratchInv` that the scratch outbox is what the handler was told
it is, and `CopyInv` how far each side has got entry by entry, which is what makes
DONE after the last entry mean the whole outbox.

`ApBootProofs`, for any number of contexts:

* `PageGivesOwnContext` – `Spec => []OwnContext`
* `OkHasArrived` – `Spec => []OkMeansArrived`
* `RecordsHandedOver` – `Spec => []HandOver`

The first two hold as long as no bring-up has failed, and so does the part of the invariant they rest on, `OrderInv`:
only the AP being started is in the page, and the page leads to its context. `HandOver` holds after failures and with late
APs too, from `RecordInv` (whose record may be written) and `ResultInv` (OK only after the AP was seen online).

`AcpiMadtProofs`, for any memory map and any tables (`AcpiAssumption`, `MapAssumption`: fields are unsigned
numbers, a page is not empty and smaller than the address space):

* `ReadsStayMapped` – `Spec => []ReadsAreMapped`
* `TableFollowsMadt` – `Spec => []TableIsPrefix`
* `SelectedTargetsAreReal` – `Spec => []TargetsAreReal`

by `CheckedInv` (what is read next lies in a range that was checked), with lemmas about
`memory_map_contains_range`: a part of a contained range is contained, also next to
the overflow checks. `select_ap_target` is shown to be increasing from the number of supported targets before an index.

### Only model-checked

* Liveness (`StreamReturns`, `PendingIsServed`, `RoundReturns`, `BroadcastEnds`, `BringUpEnds`,
  `ParsingEnds`, `BootDecides`): out of the proof system's reach, which has neither fairness
  nor `ENABLED`.
* The two runs that expect a violation show one behaviour each; there is nothing to prove.

## 5. Not modelled, and what is left

* Drawing, font, text of the screen (3146–3195, 3531–4297): pure output.
* Gate and TSS encoding, ISR stubs, control registers (860–1315, 1823–2085): straight-line
  hardware set-up. The stubs' effect, a wake-up, is in the models.
* `fault_dispatch` of the BSP (1687–1752): reports and halts.
* `read_bsp_apic_id` (2960–2976): `cpuid` only; a constant in `AcpiMadt`.
* UEFI declarations, host tests (read as documentation), `hello.efi`, and the build and
  PXE lab scripts.

Every invariant and action property that a passing run checks, and the refinement, is stated by a theorem; the
inductive invariants were checked with TLC on the instances of the runs before they were proved. What is left
to TLC is liveness and the two counterexamples.
