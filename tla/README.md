# salias: TLA+ models, TLC runs and TLAPS proofs

`salias` is a C++23 library of named shared-memory message channels. This
directory models the parts of it whose correctness depends on the order in which
several processes touch shared memory, and the Python scripts that run the
repository's measurement campaigns and decide from their evidence. Paths of C++ code
below are relative to `src/src/`, paths of scripts and documents to `src/`.

## 1. Inventory

| Component | State | Operations | What is hard |
|---|---|---|---|
| Fixed-slot rings (`core/ring/fast_*_ring.hpp`) driven by `FixedPublisher` / `FixedSubscriber` (`salias/include/salias/fixed_channel.hpp`) | per lane: sequence word and payload of each slot, one cursor per consumer; per producer: `published_`, `slowest_cache_`, `claim_outstanding_`; per consumer: `consumed_`, `dirty_`, `active_lane_`, `next_lane_`, `remaining_lane_batch_` | `try_claim`, `commit`, `try_push`, `try_read`, `release`, `flush_release`, `try_recv_copy`, `poll` | a slot reused under a reader, a cached minimum, deferred cursor publication, fairness between lanes |
| Registration gate and claim fence (`salias/src/channel.cpp`, `core/platform/asymmetric_fence.hpp`, `ClaimReservationGuard` in `core/channel/shared_hybrid_mpsc.hpp`) | `registration_gate`, `registration_gate_process_start`, `claim_active`, `reservation_*`, `notification_enabled` | `acquire_registration_gate`, `enter_registration_barrier`, `wait_for_claims`, the guard's constructor and destructor, `try_arm_wait_notification` | store buffering, membarrier, death of either side, ABA of the gate word |
| Reliable named channel (`core/channel/shared_hybrid_mpsc.hpp`, helpers in `core/channel/hybrid_mpsc.hpp`) | per producer a ring of frames, visible and reserved positions; per subscriber cursors; `global_seq` | `claim`, `claim_batch`, `commit`, `commit_batch`, `try_recv`, `try_recv_run`, `release`, `flush_progress` | out-of-order commits, stale caches, two windows, low sequence bits, expiry, dead subscribers |
| Subscriber registration (`NamedState` in `salias/src/channel.cpp`) | slot tokens (generation, pid, phase), cursor generations | `acquire_consumer`, `release_consumer`, reclaiming | joins during traffic, slot reuse, crash in any phase |
| Latest retention (`DropOldest`) | `retained_position`, `retention_intent`, leases | `prepare_drop_oldest_write`, `try_recv_latest`, `skip_to_latest` | eviction against a lease |
| Waiting and notification (`core/wait/`) | `wait_word`, tickets | `recv`, `wake_consumer`, futex wait with a 1 ms timeout | lost wake-ups |
| Named segment lifecycle (`create_named_state`, `connect_named_state`, `fixed_channel.cpp`) | ready flags, shm names | create, connect, cleanup | connecting to a half-made segment |
| In-process channel, flow (`hybrid_mpsc.hpp`, `core/flow/`) | rings in one process | claim, commit, receive | as the shared channel, without crashes |
| Frame codec, magic ring, mapping, typed API | none, or the operating system's | conversions, system calls | boundaries |

The measurement tools (Python):

| Component | State | Operations | What is hard |
|---|---|---|---|
| P3-2 thread matrix (`doc/plans/runners/p3-p32-multithread.py`, `tools/aeron_compare/analyze_p32_multithread.py`) | `experiment.json`, `failure.json`, a directory per round | run the plan once and stop at the first failure; audit | a client rebuilt meanwhile, a runner killed between two files, an early analysis |
| E2 claim matrix (`p3-e2-claim.py`, `analyze_e2_claim.py`) | round directories shared by three stages, `results.json` | smoke, warm-up, formal; validate and pair | files of an earlier stage, rounds left out |
| High-frequency stability (`high-frequency-stability-runner.py`, `analyze_high_frequency_stability.py`) | `environment.json`, `group-NN/`, summaries, `SHA256SUMS` | run a chunk of groups, resume, abort; four views of the modes | resuming what a crash left |
| Claim API v4 comparison (`p3-claim-api-v4-ab.py`, `analyze_claim_v4_ab.py`) | build manifest, blocks in a directory per payload and arm | throughput and latency blocks; audit, test, decide | runner and analyzer that must agree on a matrix of hours |
| E1 and P3-1 block matrices (`p3-e1-throughput.py`, `p3-p31-throughput.py`, `compare_throughput_ab.py`, `compare_p31_throughput.py`) | manifest, one stability directory per arm | run the sequence of chunks; audit, test, gates | a chunk that outlives its orchestrator |
| Case supervisor: `run_case` of `run_latency_compare.py` and `run_topology_suite.py` | driver and worker processes, Aeron directory, segments, `results.jsonl` | start, watch, stop, remove, append | signals between any two statements, processes that hang |
| P3-1 tail experiment (`p3-p31-tail.py`, `compare_p31_tail.py`, `summarize.py`, `summarize_tail_ab.py`) | manifest with a record per round, raw histograms | run the rounds; audit, merge, compare quantiles | a client rebuilt during the rounds, a slow subscriber hidden by merging |
| Latency comparison and its audit (`run_latency_compare.py`, `compare_p31_latency.py`) | `arms.json`, cases | rotation of engines and arms; audit | an inherited switch, a reused directory |
| Four-topology suite and gates (`run_topology_suite.py`, `verify_fixed_ring_gates.py`) | cells, `summary.json` | engine order, CPU layout, expected counts; gates | counterbalancing, CPUs with holes |

The C++ components talk through shared memory only: a publisher writes frames, visible
position and reservation; a subscriber writes its cursors; registration writes
slot tokens and cursors under the gate, which publishers respect by
`claim_active`. The scripts talk through files: a runner starts clients (or other
runners) as child processes and leaves evidence, an analyzer reads it later. What
makes them correct is that a report is true of the rounds that really ran.

## 2. Modules

| Module | Models |
|---|---|
| `FanoutQueue` | what a fixed channel promises: every consumer gets every message of every lane once, in order, and no lane is more than `Cap` ahead of its slowest consumer |
| `FastRing` | the four fixed-slot rings as one: MPMC; one lane is SPMC, one consumer MPSC, both SPSC |
| `MCFastRing`, `LaneFairness` | instances for TLC; a history variable that counts bypassed messages |
| `RegistrationGate`, `MCRegistrationGate` | gate word, claim handshake, store buffers, both fence protocols, deaths |
| `SharedChannel`, `MCSharedChannel` | reliable channel engine and subscriber registration |
| `LatestRetention` | one ring of a `LatestMpmc` channel: eviction against leases, Reliable and DropOldest readers |
| `WaitNotify` | blocking `recv()` with `AdaptiveFutex` against `wake_consumer()`: switch, epoch, tickets, time limit |
| `Campaign` | what the scripts have in common: state, plans, crash, rebuild |
| `ThreadMatrix`, `ClaimMatrix`, `StabilityChunks`, `ClaimApiAB`, `BlockMatrix` | the P3-2, E2, stability, claim v4, and E1/P3-1 scripts, each runner with its analyzer |
| `TailMatrix` | the P3-1 tail experiment (gate G4): runner, audit, merging of the subscribers' histograms and quantiles |
| `CaseSupervisor`, extended by `LatencyMatrix` and `TopologySuite` | `run_case`; the latency comparison and its audit; the topology suite and its gates |
| `GroupStatistics` | permutation test, directions, decision rules and gates of three analyzers |
| `MCCampaign` | all campaigns in one specification for TLC |
| `FastRingProofs`, `WaitNotifyProofs`, `RegistrationGateProofs`, `LatestRetentionProofs` | the proofs about the modules they are named after; `FastRingProofs` also about `LaneFairness` |
| `CampaignProofs` | the proofs about `run_case`, the chunks of the stability experiment, the P3-2 matrix and the block matrices, as part of `MCCampaign` |
| `SharedChannelProofs`, `SharedDeliveryProofs`, `SharedReceiveProofs` | the proofs about `SharedChannel`, each extending the one before: registration; what producers and registrations do to the rings; receiving, the theorems about delivery, and those about claims kept open |

Correspondence with the code is recorded definition by definition in
`PROJECT.json` under `map`. The main decisions:

* **FastRing.** A step touches shared memory at most once: `load_slowest()` reads
  one cursor per step (`RefreshCache`, `LoadSlowest`, `FinishRefresh`), a claim, the
  write into the claimed span and `commit()` are separate steps, a consumer's scan
  visits one lane per step and `flush_release()` publishes one lane per step.
  The program counters `ppc` and `cpc` stand for the position in the calls;
  `ppc = "idle"` iff no claim is outstanding. Payloads are numbers: the n-th
  message of a lane carries n, so overwriting, loss, duplication and reordering all
  change `delivered`. Dropping a `FixedPublishClaim` (`Abandon`) is the code's
  silent stop of that lane: `claim_outstanding_` stays set.
* **RegistrationGate.** Stores that are not `seq_cst` go to a FIFO store buffer
  (x86-TSO); `heavy_fence()` empties the buffers of the processes registered with
  membarrier; a `seq_cst` store empties the writer's own. Which protocol the channel
  has and which publishers the kernel has registered is chosen in `Init`, so one run
  covers light and `seq_cst` publishers under either protocol. The start-token protocol
  (`Preparing`, store of the start, `Active`) and the two loads of a waiter are
  single steps. A process's pid stands for its start token too (pid reuse is not
  modelled).
* **SharedChannel.** Positions are counted in units of `kFrameAlign`; a header keeps
  its low sequence bits (`% Period`), its length and, as a history, its full
  number. Gate and `wait_for_claims()` are one step each here, because
  `RegistrationGate` shows what they guarantee; the pass over the consumer slots
  inside `claim()` is one step, because registrations are excluded meanwhile and
  positions only grow. `publish_contiguous()` with its pending spans is
  `ContiguousEnd`. Expiry is a choice made when a frame is read (`SkipExpired`,
  `TryRecvRun`, `PassExpiredRing`). An application uses one borrowed message at a
  time: it releases the result of `try_recv()` before it asks again. `held` is the set of
  messages a subscriber has been lent; their numbers order them.
  `Disciplined` restricts the *application*: it commits a claim before the ring
  comes round to it. The code has no such guard and breaks `ClaimsExclusive` without it
  (section 6), so exclusivity of claims is an assumption of this model and never a
  result. What the code does guarantee of a claim that is kept open is `ClaimsProtected`,
  which is proved with `Disciplined` off (section 4).
* **LatestRetention.** A step makes one access to a word of the handshake
  (`retention_intent`, `retained_position`, `lease_start`, `lease_end`), so every
  interleaving of the publisher's announce-then-scan with a reader's
  lease-then-check occurs. Rings share nothing in this mode, so one stands for all,
  and its readers are registered throughout. The positions and counters the
  producer keeps follow from the sequence of `frames` claimed (`Start`,
  `ProducerPos`). `EnterClaim` and `AfterAttempt` are `claim_batch()`'s binary
  search for the largest batch that fits; `claim()` is the batch of one. Once a
  lease is checked the reader chooses which of the calls it was in (`TakeOne`,
  `PassOne`, `TakeRun`, `PassRun`, `SkipToLatest`); the calls are the same up to
  there. `held` is the set of frames a reader has been lent; their order is that of
  their numbers. A frame that cannot be read although it is leased ends the call
  (`TakeOne`'s ELSE); `LeasedIntact` shows that this does not happen.
* **WaitNotify.** A step makes one access to a word of the protocol
  (`notification_enabled`, `wait_word`, a slot's token, its ticket, a visible
  position). The channel is Ordered, so a subscriber waits for one number, and what
  is visible need not be what it can read. The release store of the visible position
  stays in the store buffer until it drains or the publisher's `fetch_add` of the
  epoch flushes it. The load that spares `wake_consumer()` a CAS is merged with the
  CAS. Registration is one step: `SharedChannel` has its phases, `RegistrationGate`
  the gate that `try_arm_wait_notification()` takes. A sleep that ends early (`EINTR`)
  is a `Timeout`. The epoch's 32 bits do not wrap. One slot is modelled in
  full; `OtherActivates` stands for the subscribers of the others, who share nothing
  with it except the switch and the epoch.
* **Campaign modules.** A behaviour is of one script and its analyzer, on one output
  directory, from `Init`'s choice of `kind`. `disk` is the files as the scripts read
  them, `mem` what the runner holds, and `ran` a history of what was really run, with
  the build it ran on and the one thing that was wrong with it (`flaw`). Properties
  compare what the analyzer says with `ran`, never with `disk`. A file is replaced in
  one step; between two files, and between a file and the next child process, the
  runner can be killed (`Crash`) and the client rebuilt (`Rebuild`). Analyzers are one
  step, since they only read. Names, times, digests and rates are abstracted: a digest is the
  build it is of, a rate is a mode or a small integer. Files written one right after the
  other, before any child process and with nothing reading one alone, are one step:
  `experiment.json` and `environment.json` (`P32_Start`; an analyzer refuses the directory
  of a runner killed between them, as it refuses one killed just after), `throughputs.json`
  and `summary.json`, and `failure.json` and `SHA256SUMS` of the stability chunks.
* **CaseSupervisor.** A step is one statement of `run_case` that starts, watches, stops
  or removes something; `Popen` and the binding of its result are two. A signal raises
  between any two of them, leads to the `finally` clause from inside the `try`, and
  ends the script elsewhere. A deadline fires only for something that is hanging. A
  rebuild during a latency case is `SUP_Rebuild` and uses up the budget of flaws. A worker
  is one process, although the fast-ring clients fork their producers and consumers:
  `stop()` signals the process group and waits for its leader, so a forked process that
  outlives the leader is outside `SUP_NothingLeft`.
* **LatencyMatrix.** A case has the switch its arm asks for, which `run_case` records
  (`arm_environment`) and the audit compares, and the one the worker really had (`env`),
  which only the properties look at.
* **GroupStatistics.** Ratios and p-values are compared as fractions, exactly; the
  code's `1e-12` guards against rounding that does not occur here. Three groups of
  one median each instead of six, with limits on the p-value scaled to the twenty
  partitions there are. A group has one round, so the ratio of the medians of the group
  medians, which `Comparison` computes, is the code's ratio of the medians over all rounds
  (`compare_throughput_ab.py:203` and `:285`); with several rounds a group they differ.
* **TailMatrix.** A round's samples are two per subscriber, at, below or just above the
  limit of 105 %; the raw file counts them, the auditor merges the counts of an arm's two
  rounds by subscriber, and `TM_NonInferior` asks the sorted samples instead. The
  quantiles 1/2 and 3/4 stand for p99 and p99.9, which need a thousand samples to differ.
  `TM_Edit` changes a frozen input, `Rebuild` the client, which is not one of them.

## 3. Runs

| Run | Instance | Properties |
|---|---|---|
| `ring_mpmc` | 2 lanes, 2 consumers, 2 slots, 3 messages per lane | `NoTornRead`, `NoFalseEmpty`, `IndInv` |
| `ring_mpsc` | 2 lanes, 1 consumer, lane batch 2, 5 messages per lane, polls of up to 2, fairness | `BoundedBypass`, `ImplementsFanout`, `BackPressureEnds` |
| `gate` | both protocols, 2 registrars, 1 producer with or without membarrier, 2 deaths, fairness | `SnapshotExact`, `ClaimsExcluded`, `GateExclusive`, `RegistrationEnds` |
| `gate_aba` | 3 registrars, no deaths | violation of `ClaimsExcluded` |
| `shared_fifo` | 1 producer, 3 frames of 1 and 3 units in a ring of 4, batches, byte window 3, message window 2, expiry, 2 subscribers, 1 death, fairness | `HeldIntact`, `ReadsOn`, `WithinWindow`, `RegistrationKept`, `PublisherGoesOn` |
| `shared_ordered` | 2 producers, rings of 2, low bits modulo 3, one client that joins twice, expiry, 1 death, fairness | `HeldIntact`, `ReadsOn`, `Received` |
| `shared_open_claims` | a publisher that keeps a claim open | violation of `ClaimsExclusive` |
| `latest` | a DropOldest and a Reliable reader, 3 frames in a ring of 2, message window 2, batches, expiry, 1 death, fairness | `LeasedIntact`, `LagExact`, `EvictsAsNeeded`, `ReliableKept`, `EvictionGoesOn`, `LatestReached` |
| `latest_stale_lease` | 1 DropOldest reader, 4 frames of 1 and 2 units in a ring of 4 with 3 retained, 1 death, fairness | violation of `DeadLeasesCleared` |
| `wait_notify` | 2 producers, 2 messages, 1 slot registered up to twice, 1 spin, 1 death, fairness | `NoLostWakeup`, `TicketOwned`, `Delivered` |
| `campaign` | 2 configurations, 2 or 3 groups, 1 flaw, 1 rebuild, 1 signal, up to 3 starts, fairness of the supervising scripts | see below |
| `suite_abba` | 4 cells, 4 measured rounds, no fault | violation of `TS_OrderBalanced` |

`campaign` asks the same questions of every script; most answers are conjunctions of
named parts in the module of the script.

| Question | Property | Its parts |
|---|---|---|
| Is a report true of what ran? | `P32_AcceptedIsSound` | |
| | `ReportsAreSound` | `E2_ReportIsSound` (`E2_RowsAreFormal`, `E2_GroupsArePaired`), `V4_ReportIsSound`, `TM_ReportIsSound`, `TS_PassedIsMeasured` |
| | `HF_ReportIsSound` | `HF_FinishedIsWhole`, `HF_TransitionsExact`, `HF_ViewsAgree` |
| | `BM_ReportIsSound` | `BM_ReportIsWhole`, `BM_OneClientPerArm` |
| Is the experiment what it is said to be? | `LC_MatrixIsSound` | `LC_ArmsAsDeclared`, `LC_Counterbalanced`, `LC_ReportIsSound` |
| Is what the scripts compute right? | `ComputedIsSound` | `TS_RolesArePinned`, `TS_CountsExact`, `ST_DecisionIsSound` (`ST_TestIsTwoSided`, `ST_OneRule`, `ST_GoIsMonotone`, `ST_NotSlowerPasses`) |
| Is a clean run accepted? | `CleanIsAccepted` | `P32_CleanIsAccepted`, `V4_CleanIsReported`, `BM_CleanIsReported`, `TM_CleanIsReported` |
| Is the evidence true, and kept? | `LedgersAreTrue` | `HF_ChecksumsFit`, `SUP_LedgerExact` |
| | `P32_StopsAtFailure` | |
| | `HF_EvidenceKept` (action property) | |
| Does a case end and leave nothing? | `SUP_Ends`, `SUP_NothingLeft` | |

The runs spend their properties on behaviour. Type correctness (`TypeOK`) is a theorem
for `FastRing`, `RegistrationGate`, `LatestRetention`, `WaitNotify` and `SharedChannel`,
where it is part of the inductive invariant or follows from it.

**Bounds.** The frames sent through a ring are more than it holds, or (`shared_ordered`)
their numbers more than the low bits tell apart, so each run wraps and reuses space; the fixed rings go through at least one and a half
laps, which is when a slot's sequence word of the previous lap is still there.
`Period` is the smallest the admission test `sequence_low_window_fits()` lets pass,
so an old frame with the low bits of the next one does occur. Two deaths are enough
for the holder of the gate and a claiming producer to die in one run. `MaxOps = 2`
lets a registrar come back for the gate, which the ABA of `gate_aba` needs. One
producer is enough for `gate`: the handshake is between a registrar and each producer
by itself. In `wait_notify` two publishers race for one ticket, and two registrations
of the slot let a ticket outlive its owner; `SpinAttempts = 1` stands for 64.
`shared_fifo`'s ring is one unit larger than its byte window, and two frames fill the
message window before the byte window when they are short and not when they are
long, so each of the two windows is the one that binds somewhere.
In `campaign`, `MaxFlaws = 1` and `MaxBuilds = 1`: the properties say that one wrong round or one
rebuild is noticed, and two hide no better than one, since every round is checked by
itself; `MaxRuns = 3` lets a stability chunk be resumed after a resumed one, `MaxStarts
= 2` lets a supervising script meet the files of an earlier start. Two configurations are
one of each kind (the tail experiment takes the latency one, in two groups); `HF_GROUPS = 3` has a first, a middle and a last group. `LC_Inherited =
{"off"}` suffices: an inherited switch that is unset is an arm's own default.
`CHECK_DEADLOCK FALSE` is set where the bounds on operations end a behaviour or
where every process may be dead.

**Fairness.** Consumers and subscribers that keep polling get weak fairness of their
steps; a process that has begun a claim or a registration goes on with it; store
buffers drain. Nothing is assumed of publishers of a fixed ring. In `SharedChannel`
live publishers keep trying and commit what they claim (strong fairness of `CommitAny`:
a commit is not enabled while the next claim is under way), because an uncommitted
claim blocks its successors by design. Nobody has to die and nobody has to join.
`Received` exempts the gap that a dead producer leaves in Ordered mode
(`doc/9-L5-channel.md:29`). In `LatestRetention` the publisher keeps trying (weak
fairness) and commits what it has claimed however often other claims fail in
between (strong fairness of `CommitAny`), calls that have begun are finished, and
only Reliable readers have to poll. The handshake is obstruction-free and no more:
a tentative lease and an announced eviction can turn each other away for as long as
both sides retry. `EvictionGoesOn` and `LatestReached` therefore say that each side
gets on once the other one pauses; `LatestReached` leaves out a publisher that died
with its intent announced, which the code does not take back. In `WaitNotify`
publications and receive calls that have begun go on, stores drain and the kernel
keeps the one-millisecond limit; `Delivered` rests on that limit when a publisher dies
before its wake-up, and in one race of live processes (section 6). In `MCCampaign` only
the supervising scripts are fair (`SupervisorStep`): every wait of theirs has a deadline
and the poll loops look at the clock. Nothing is assumed of driver and worker, which
may hang.

## 4. Proofs

TLC checks an instance; the theorems below hold for every value of the constants that
the named assumptions of the modules admit. Each was found by TLC to hold, with its
inductive invariant, on the runs' instances before it was proved. `PROJECT.json` lists
the theorems with the properties they state.

| Module | Theorems | Under |
|---|---|---|
| `FastRingProofs` | `Invariance`, `TypeCorrect`, `NoTornReads`, `NoFalseEmpties`, `Refinement` (`SafeSpec => Fanout!SafeSpec`), `BypassIsBounded` | any numbers of lanes and consumers, `Cap >= 2`, any batch and poll |
| `WaitNotifyProofs` | `WaitInvariance`, `WaitTypeCorrect`, `WakeupsAreNotLost`, `TicketsAreOwned` | any numbers of publishers, slots, messages, registrations and deaths |
| `RegistrationGateProofs` | `GateInvariance`, `GateExcludes`, `ClaimsAreExcluded`, `SnapshotsAreExact` | `TwoRegistrars`; any number of publishers, claims and deaths, both protocols |
| `LatestRetentionProofs` | `RetentionInvariance`, `RetentionTypeCorrect`, `LeasesAreIntact`, `LagIsExact`, `ReliableAreKept`, `EvictionIsNeeded` | any ring, frame lengths, retention capacity, window and readers, `Period > Cap` |
| `SharedChannelProofs` | `RegistrationInvariance`, `RegistrationsAreKept` | any numbers of clients, slots, registrations and deaths |
| `SharedReceiveProofs` | `DeliveryInvariance`, `WindowsHold`, `HeldMessagesAreIntact`, `ReadersGoOn` | `Disciplined`; any numbers of producers, slots and clients, both orders, any ring, frame lengths, windows and batches, any sequence bits that `sequence_low_window_fits()` admits |
| `SharedReceiveProofs` | `RoomInvariance`, `BytesStayWithin`, `OpenClaimsAreProtected`, `TypesHold` | the same constants, without `Disciplined`: claims kept open for any time |
| `CampaignProofs` | `CampaignInvariance`, `NothingIsLeft`, `EvidenceIsKept`, `MatrixStopsAtFailure`, `BlockReportIsSound` | any plans, groups and rounds, any budgets of flaws, signals, rebuilds and starts; at least two groups in a block matrix |

None of the properties is inductive by itself. What has to be added, and why:

**FastRing.** `NoTornRead` needs that a claimed slot is behind every consumer, which
needs that the producer's cached minimum is below every cursor (`CursorOrder`); that
in turn holds at the end of `load_slowest()` only because no cursor already read was
below the running minimum and cursors never fall (`ScanBound`). `Capacity` bounds the
lead over the cached minimum, `Retained` says that the last `Cap` messages are in
their slots and that no slot announces what is not there, `CallState` ties a
consumer's locals to where it is, and `Prefix` is the delivered history. The
arithmetic fact under all of it is `SlotsDiffer`: two positions less than `Cap` apart
have different slots.

**LaneFairness.** `BoundedBypass` follows from a potential (`Allowance`): the rest of the
batch under way and one batch for each lane between the scan and the lane that was
passed over. What was taken elsewhere plus the allowance stays within the bound.
That the scan does not pass a lane by again, once its message is there, is
`NoFalseEmpty`; that a message which arrives behind the scan's back is counted from
the first one taken after it is why the bound has no extra batch.

**WaitNotify.** `TicketOrWaker` says that a subscriber about to sleep, or asleep, still has
its ticket or that a publisher took it and is going to move the epoch or wake;
`EpochMoves` says that a message which came after the last scan has an owner who has
moved the epoch or is about to. The rest (`Numbered`, `Owned`, `Armed`, `Looping`,
`Announced`) ties the locals of publishers and subscribers to where they are, and
what waits in a store buffer to whether it was seen.

**RegistrationGate.** `GateInv` is about the gate word (`GateOwned`: it is the token of the live
owner, who is past its CAS; `StartStored`; `Judged`: a waiter judges the owner it met
by that owner's own start token). `Judged` is where `TwoRegistrars` is needed: between the
two loads of a waiter the gate can change hands only to the waiter itself. With three
it can go to a third and back, which is finding `gate_aba`; the hypothesis is the
boundary of what the code guarantees, and the run on the other side of it shows
that it cannot be dropped. `StoreInv` says what memory will hold of each word once a
store buffer has drained, `FenceInv` that behind the fence a claim in progress shows
in memory and that a buffered reservation drains before the store that ends its
claim, `SnapshotInv` what the loop has collected.

**LatestRetention.** `Layout` and `Headers`: frames follow each other, and a committed frame
keeps its header until a claim reaches its bytes. `Search`, `Floored` and `Announced`: in
every state of `claim_batch()`'s binary search, the floor leaves room for what has
fitted, the announced floor for what is tried, and neither for more than is
`Needed`. Per reader, `Handshake` is the argument of announce-then-scan against
lease-then-check: a lease that has passed its check is `Covered`, and one whose
second check is still to come is covered too, unless that check is going to fail.
A reader finds frames by going from header to header; that this walk exists and visits
exactly the frames (`WalkExists`, `Walked`) is proved over the recursive function
`Positions` from the well-foundedness of set inclusion (`LeastNatural`), since the
library's induction theorems take an operator as a parameter. `LowBits` is the
arithmetic of the sequence number rebuilt from its low bits. It needs `Period > Cap`: no
two retained frames share their low bits. The code has it for rings below 2^24 aligned
frames (128 MiB), but does not enforce it here: `create_named_state()` asks
`sequence_low_window_fits()` about one sequence domain for every mode but `Ordered`, and
that is always granted. A reader with 2^24 unread frames in a larger ring is outside
`LagIsExact` and the theorems that share its assumption.

**SharedChannel.** `Registered` says of every live client what its place in the code
implies: the gate is its own, its slot bears its pid and the phase it stored last, its
token is the slot's. Nothing is asked of dead clients, whose slots wait to be
reclaimed in whatever phase they were left; a client with the gate writes slots of
dead ones, free ones and its own only (`Others`).

What is delivered rests on `DeliveryInv`, which is inductive together with `RegInv`. It has
one group of conjuncts for the producers and one for the clients.

* `ProducerInv` of each ring: the claims lie one behind the other up to `producer_pos` and
  are numbered in that order (`RingOk`); all are announced in `reservation`, or all but
  the last (`Announced`); the committed prefix is what is visible, and no cursor and no
  cached minimum is beyond what is announced (`Shown`); a claim that is not committed
  keeps its bytes (`Exclusive`) and a committed frame its header until the ring has come
  round (`Headed`). `Numbered`: every number taken from a counter is a frame's, once.
* `ClientInv` of each live client: while it searches for a slot or fills it nobody claims
  (`Quiet`). Once it counts as a subscriber every producer is within the windows as its
  cursor shows them, is not going to leave them with a claim for which room has been
  found, and remembers no minimum beyond that cursor (`Windowed`); a subscriber is where
  the frames numbered from its next number on begin (`Reads`, of its own copy while it
  receives and of its slot before that), has announced no more than it has read
  (`Follows`), and holds messages that are visible and not announced (`Holds`).

A producer's stale cache is safe because the only step that adds a cursor to the minimum
is a registration, which happens when no claim runs and starts at the reservations, that
is at the producers' own positions; every other step moves cursors forward or removes
them. `WithinWindow` follows, and from it that the ring of a producer has not come round
to what a subscriber has still to read, so headers there are those of the frames
(`HeldIntact`).

`ReadsOn` is where the low sequence bits matter. In an Ordered channel all rings share one
counter, and a reader that wants number `n` looks at the next frame of each ring. If a
frame there has the low bits of `n` but is number `m > n`, then `m >= n + Period`, and the
`Period` numbers from `n` on are frames (`Numbered`) that nobody has read, in rings other
than this one. Two of them do not lie at the same place of the same ring, and each of the other
`ProducerCount - 1` rings holds at most `Cap` units unread: that makes `Period` at most
`Cap * (ProducerCount - 1)`, against `sequence_low_window_fits()` (`NumberWanted`, with the
cardinality of an injection; `WindowLow` is the test without its division). In a Fifo channel a
ring has its own numbers and the bits are not needed. Every way to receive is then a
sequence of such frames (`PassFrame`): one for `try_recv()`, and for a run of `poll()` as
many as the walk from header to header visits (`WalkExists`, `RunReads`).

`Disciplined` says that the application commits a claim before its producer claims the same
bytes again. The code computes the room from the subscribers alone, so without the
hypothesis `Exclusive` fails (finding `shared_open_claims`), and with it `Headed`: a late
commit writes headers over those of a newer claim. The theorems in the first of the two
rows are about applications that keep to it, as `shared_fifo` and `shared_ordered` do; that
a claim has its space to itself is then assumed, not shown. A run of `poll()` takes at
most `Cap` frames in the model, which is what a ring holds.

`RoomInv` is the argument without the hypothesis. A frame's header may then be anything, so
it says nothing of headers, numbers or messages, only where subscribers stand: each cursor
and each reader's own position is announced and not inside an open claim (`Clear`). A
registration starts at the end of what is announced (`ReservationClear`), and a reader moves
only within what is visible, which ends where the first open claim begins
(`VisibleClear`), so both keep clear however wrong the length is that a reader finds in an
overwritten header. Positions never fall, so `claim()` keeps within the byte window of every
live subscriber, stale cache or not (`Roomy`). A live subscriber that has an open claim
still to read stands at or before its start, and the producer is no further than a ring ahead
of it: the ring cannot have come round to the claim (`ClaimsProtected`). The message window
is not part of this: a reader counts messages by the headers it finds. `SharedOpenHeld.cfg`
is the instance of `MCSharedChannel` on which TLC agreed before the proof (a ring of two
units, four frames of one and two, batches, two subscribers, one death; 316,866 states); it
is kept for changes to the module and is not among the runs of section 3.

**Campaigns.** A behaviour of `MCCampaign` is of one campaign, so an invariant about one
script need only hold through that script's steps (`WhoseStep`).

`CaseInv` is about `run_case`. For every statement of the `finally` clause it says what has
been undone when it is reached (`CaseHandled`), and before that the one fact on which the
clause rests: a process that runs is bound to the name that `stop()` is called with,
except between `Popen` and the assignment. `SUP_NothingLeft` is what it says at the end
of the clause. The exceptions the property names are where `CaseHandled` fails.

`ChunkInv` is about the stability experiment. `HF_EvidenceKept` says that a line, once
written, stays and that lines are numbered through. A runner writes the number of the round
it is at and not the length of the file, so the proof needs that what a chunk has in memory
is as long as the file (`ChunkPlaces`). That holds because a chunk which is resumed begins
with a group nobody has begun, and then none of the later ones has been begun either.

`MatrixInv` is about the P3-2 matrix: the k-th round that ran has the ordinal k - 1, and
only the last can have failed. No round is retried because no two rounds of a plan are
equal, and that is a fact about the plan (`PlanNumbered`): smoke rounds, warm-ups and the
formal schedule, each put together with `FlattenSeq`, are numbered through whatever the
configurations. `FlattenSeq` is a recursive function. What it returns is proved without
induction over data: the least index at which the claim fails (`LeastNatural`, from the
well-foundedness of set inclusion) contradicts the claim at the index before. `FailureNamed`
adds the three states in which a failure is written: `failure.json` first,
`experiment.json` with the status afterwards.

`BlockInv` is about E1 and P3-1. `compare_throughput_ab.py` reads only the two
directories, never the manifest, so the proof has to recover the blocks from what is on
disk. `ArmsTell` says what a directory shows of its arm: group and exit of the latest
chunk, how many groups are whole, and that the blocks which went well ran its client.
`BlocksInOrder` says that what ran is a prefix of the sequence in which only the last
block can still run or have failed. A directory with all its groups then stands for the
arm's last block; the last block of the whole sequence is of the last group
(`TurnByTurn`), so the arm it belongs to tells that everything before it ended well
(`WholeMatrix`). A chunk that outlives a killed orchestrator needs no case of its own: it
changes its directory and its block together.

**Only model-checked.** All liveness: under fairness it is out of the prover's reach, and so
is `ENABLED`. Of the modules of the library every safety property that a passing run checks
is a theorem, up to the numbers of registrars in `RegistrationGate` and the hypotheses in
the table. Of the campaigns, most properties that say what an analyzer accepts and reports
stay with TLC. But for the block matrices, they are about medians, permutations, sorted
and filtered sequences, which `SortSeq`, `SelectSeq` and `SetToSortSeq` compute by recursion
over data, and what these return for every input cannot be proved here. That is so for
`CleanIsAccepted`, `LedgersAreTrue`, `P32_AcceptedIsSound`, `ReportsAreSound`,
`HF_ReportIsSound`, `LC_MatrixIsSound` and `ComputedIsSound`.

## 5. Not modelled

Operating-system calls (mapping, huge pages, `shm_open`), the typed API's schema
checks and error mapping, counters of lagged, skipped and expired messages.
Process-id reuse, and wrap-around of 64-bit positions and of the 29-bit
generation, are out of scope. The hazards of the parts that are planned (section 7)
are listed in `PROJECT.json` with a note.

Of the scripts: reports and printed text; `bootstrap_interval` (random resampling);
medians of latency quantiles and the limits on them, which are a Boolean input of
`verify_gates`; the bucket numbers of a histogram and the 50 us budget of the tail
experiment. The predecessors of the runners (diagnostic, 192 B,
payload, topology and warm-up sweeps) and the registration probe repeat one loop without
resuming or audit. Builders of probes patch source text and call a compiler; the remaining
analyzers are arithmetic on files with no state between calls. `compare_latency_ab.py`
cannot run: `main` uses `args` (line 105) before it parses them.

## 6. Disagreements found

1. **`gate_aba`** (`salias/src/channel.cpp:1166`). A waiter reads the gate word, then the
   owner's start token. Between the two the gate can change hands; the waiter compares
   the old owner's pid with the new owner's start and takes a live process for dead.
   If the old owner holds the gate again when the waiter's CAS runs, the word is
   bit-identical (its generation is always 0) and the gate of a live registrar is
   opened: claims run during its snapshot, against the Dekker invariant stated at
   `core/channel/shared_hybrid_mpsc.hpp:424`. Three registering processes are needed; with two,
   `gate` shows the invariant holds.
2. **`shared_open_claims`** (`core/channel/shared_hybrid_mpsc.hpp:921`). The room for a
   claim is computed from the subscribers' positions only. A subscriber that joins
   starts past claims that are still open; when it is the only one left to wait for,
   a later claim gets the space of the open one. The `DropOldest` path does compare
   with `published_pos_`. As long as one live subscriber has the open claim still to
   read, the space is safe (`OpenClaimsAreProtected`).
3. **`latest_stale_lease`** (`core/channel/shared_hybrid_mpsc.hpp:1296`). A reader loads the
   floor and then the visible position; if the publisher wraps in between, the lease
   it announces spans more than the ring. A live reader finds that out in its check
   and withdraws; one that dies before it leaves a lease whose length the scan
   rejects as malformed *before* it asks whether the owner is alive. The publisher is
   back-pressured until the slot is reclaimed by a registration, against
   `doc/9-L5-channel.md:14-15`.

4. **`suite_abba`** (`tools/aeron_compare/run_topology_suite.py:676`). `main` rotates the
   cells by one each round and gives `engine_order` the place in the rotated list, which
   adds it to the round number: the shifts cancel. With a number of cells that is a
   multiple of four (24 by default) a cell has the same engine first in every measured
   round, against `tools/aeron_compare/README.md:29` ("Measured pair rounds follow ABBA
   engine order") and the `engine_order` that `environment.json` records and
   `verify_fixed_ring_gates.py --require-abba` trusts. The unit test uses `cell_index` 0.

Weaknesses of the scripts that the properties name as exceptions or leave open:

* A signal between `Popen` and the binding of its result, or inside the `finally` clause,
  leaves processes and shared memory behind, although `tools/aeron_compare/README.md:335`
  promises cleanup (`SUP_NothingLeft`). A driver that dies while the worker finishes is
  not noticed by `run_latency_compare.py`, which compares neither mode nor memory events.
* `analyze_e2_claim.py` leaves out a formal round that fails validation and returns 0;
  `doc/plans/phase3-e2-aeron-claim-isolation-plan.md:158-165` would void the matrix.
* A resumed stability chunk starts its admission counters at 0
  (`high-frequency-stability-runner.py:546`); `existing_throughputs` is never called. A crash
  within a group cannot be resumed. A rebuild within a chunk is not noticed.
* P3-2 checks the cpuset in code that is never reached (`p3-p32-multithread.py:314`).
* Formal runs of claim v4, E1 and P3-1 accept parameters (payload subsets, skipped parts,
  `--messages`, `--capacity`) that their analyzers refuse; `CleanIsAccepted` is
  about the registered parameters.
* `p3-p31-tail.py` copies the manifest's digest of the client into every record and does
  not look at the client again; only the audit notices a rebuild, after the last round.
* `cpu_layout` refuses CPUs with a hole even where enough contiguous ones follow it.

One more, in the library, is a matter of latency only. The comment at
`core/channel/shared_hybrid_mpsc.hpp:1836` says that a publication racing the scan
either becomes visible or consumes the ticket. When notifications are switched on for
the first time, a publisher can have read the switch as off while its store of the
visible position is still in the store buffer; the subscriber then sees neither, and
the time limit of the wait ends the race. `NoLostWakeup` exempts those messages and
`Delivered` covers them.

## 7. Plan

Done: `FastRing`, `LaneFairness`, `RegistrationGate`, `SharedChannel`, `LatestRetention` and
`WaitNotify` with their proofs, and the measurement campaigns with proofs about four of them.

Next, in this order:

1. `NamedSegment`: creation, connection to a segment that is not ready, cleanup.
2. Pure operators: pending spans (`note_pending_commit`) against `ContiguousEnd`,
   frame length and sequence bits against reference definitions.
3. In-process channel and `core/flow`.
4. `RegistrationGate` and `SharedChannel` in one refinement: the gate and
   `wait_for_claims()` as one step of `SharedChannel` are what `RegistrationGate` shows of the words.
