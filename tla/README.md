# TLA+ verification of HAMi-vnpu-core

HAMi-vnpu-core (`libvnpu.so`) shares one Ascend NPU between pods. It is preloaded into
every process of a pod, intercepts the runtime's launch and memory calls, and coordinates
processes and pods through two memory-mapped files. All of its hard behaviour is in how
threads of different processes, which may die at any instruction, act on these files with
single atomic operations. This directory models that behaviour in TLA+, checks it with TLC
and proves its safety properties with TLAPS.

Paths below are relative to `src/crates/limiter/src/` unless they start with `hook/`
(`src/crates/hook/src/`).

## 1. The system

| Component | State | Operations | Module |
|---|---|---|---|
| Inter-pod time-slice lock (`manager.rs`) | `GlobalRegistry`: `lock_owner`, `lock_timestamp`, `queue`, `queue_head`, `queue_tail`, slots | `register_global_slot`, `join_global_queue`, `wait_for_global_turn`, `update_heartbeat`, `pass_baton`, `Drop` | `GlobalBaton` |
| Token batches of a pod (`manager.rs`, `worker.rs`, `shmem/futex.rs`) | `state`, `batch_id`, `tokens_remaining`, `active_workers`, `reported_count`, the reports; per process `InnerLock` | `start_local_batch`, `run_local_round`, `enter_measuring_state`, `aggregate_local_times`; `wait_for_token`, `measure_and_report_batch` | `TokenRound` |
| HBM quota (`worker.rs`, `manager.rs`, `hook/hook.rs`) | `memory_used`, `hbm_used` per process slot, `hbm_handle_map` per process | `check_memory_quota`, `post_alloc_hbm`, `post_free_hbm`, `get_hbm_info`, `recalculate_usage`, `reap_dead_slots`, `discover_and_update` | `HbmQuota` |
| Manager election (`supervisor.rs`, `manager.rs`) | `manager_pid`, `manager_heartbeat`, `manager_global_idx` | `try_become_manager`, `watch`, `reclaim_stale_global_slot`, `ContainerManager::new`, its `Drop`, giving the role back | `Election` |
| Futex wrapper (`shmem/futex.rs`) | the kernel's sleepers | `wait`, `wake_all` | inside `TokenRound` |
| Worker and process slots (`worker.rs`) | `LocalWorkerReport` and `ProcessSlot` of a pod | `register_worker_slot`, `register_proc_slot`, `Drop for SchedulerClientInner`, the cleaners | `ClientSlots` |
| Limiter factory and fork (`hook/lib.rs`) | `LIMITER`: cached client and its pid; `SUPERVISOR_PID` | `ensure_supervisor`, `npu_limiter`, the fall-back to a stub | `ClientSlots` |
| Shared memory set-up (`shmem/setup.rs`) | the two files | `open_global_registry`; `create_shmem`, `try_open_shmem` | `RegistryBoot`; `ClientSlots` |
| Fair share and statistics (`manager.rs`) | averages, priority, plan of a round | `calculate_fair_share`, `update_local_stats`, `schedule_rest_wait`, `honor_fixed_rest_wait` | `FairShare` |
| Configuration (`config.rs`) | `ManagerConfig` | `from_env`: priority and mode | inside `FairShare` |
| Bindings, signal shim | none | forwarding | not modelled |

How they interact. The first NPU call of a process creates its client: it starts a supervisor
thread, waits for the pod's memory to be published and takes a report slot and a process slot in
it (`ClientSlots`). The supervisors of a pod elect one manager through the pod's local memory
(`Election`). The manager opens or creates the global registry (`RegistryBoot`), registers a
slot and takes turns with the other pods' managers (`GlobalBaton`). In its turn it computes how
many tokens its priority is worth (`FairShare`) and runs one round: it fills the pod's token
bucket, wakes the workers, empties the bucket and collects their measurements (`TokenRound`);
its heartbeats keep both the other pods' watchdogs and its own pod's supervisors quiet. Beside
this, every allocation is counted against the pod's quota, and two daemon threads of the manager
correct the counters (`HbmQuota`).

What is hard. Every protocol here is lock-free across processes: values are loaded, decided
on and stored by separate operations, and nothing tells a slow process from a dead one but
a time stamp. A manager that was declared dead is not fenced. Reservations are visible in
one counter before the other. `PROJECT.json` lists each such place as a hazard at its line.

What makes each part correct:

- lock: slices of different pods do not overlap and a live manager keeps its slot, unless a
  waiter was delayed where the code has nothing against it; a dead manager does not block
  the others; every pod gets its turn, in ring order;
- tokens: a batch hands out what the plan says; nobody sleeps through a batch; what the
  manager averages was measured in the batch it is averaged for, and is not overcharged;
- quota: the pod never holds more than its limit; a request that fits is not refused; a
  dead process gives its bytes back; a live process's counter is what it holds, unless a
  DCMI refresh crossed its allocations;
- election: one manager per pod, eventually one again when it dies, and one active slot per
  pod in the registry, unless a manager waited too long for its turn;
- set-up: whoever creates the registry, and dies doing so, the lock still works;
- clients: processes share a slot, a registered process is not listed, the reset of the pod's
  counter finds somebody registered, or a call does not return, only for a named cause;
- shares: run time, and in fixed mode rest, follow the priority; the average follows the
  cost; no product or sum wraps.

## 2. Modules

Conventions. An action is one atomic operation on shared memory, with the thread-local
computation around it, or one call of an external library; `pc` names the place of a thread
in the code. Definitions keep the source's names where the source has one. Interleaving is
sequentially consistent (the code's orderings are mostly Acquire/Release; reordering of
relaxed operations is not modelled). Definitions marked *Mutant* are faulty variants of the
definition that follows, used to see that a property can fail.

**`GlobalBaton`**. The registry as in `shmem/mod.rs`; one `ContainerManager` per element of
`Managers`. `Start`, `RegisterSlot` and `StorePid` are `ContainerManager::new`; `JoinReserve`
and `JoinStore` the two operations of `join_global_queue`; `LoadOwner` to `Recheck` the body of
`wait_for_global_turn`; `Enter`, `Beat`, `EndTurn` the turn; `LoadHead` to `HandOff`
`pass_baton`. `Crash` is `kill -9`, `Drop` a panic, `ReclaimCheck`/`ReclaimClear` the
successor's `reclaim_stale_global_slot`, on behalf of a dead manager or of a live one that was
silent because it waited for its turn. The watchdog's load of `lock_timestamp` and its look at
the clock are two actions (`LoadTimestamp`, `ReadClock`); `stamp` is the age of what was loaded
and grows while the waiter is paused. Ring counters are kept modulo `MAX_MANAGERS` (the code
only uses the residue, and 64 divides 2^32). Time is the age of `lock_timestamp` in ticks of a
third of the watchdog period. `signal_counter` and its futex only shorten a 1 ms poll and are
left out. The history variable `evicted` names the managers whose slot was cleared while they
ran; `recycled` records that a slot was given out while a waiter that had found it inactive was
about to take the lock from it; `overslept` that a timestamp became stale between its load and
the clock, `displaced` the live managers whose role a sibling took. `file`, `boot` and `reset`
(`setup`) are the set-up of the registry: a manager starts only when it has mapped it. Three
initial conditions, all with the set-up done: `FreshInit` (a registry just created),
`EstablishedInit` (one pod in its turn, the rest not started), `SettledInit` (all pods joined).

**`RegistryBoot`** extends `GlobalBaton` by the steps of `open_global_registry` (`open`,
`create`, `ftruncate`, the store to `lock_owner`), starting without a file. `reset` records
that `lock_owner` was initialised while somebody held the lock, `Fault` is the SIGBUS of a
process that touches the mapping of a file still empty.

**`TurnRing`** is the abstract promise of the lock: members take turns in a fixed cyclic
order. **`BatonRing`** reads the abstract line off `lock_owner`, `queue_head` and `queue` and
states that `GlobalBaton` implements it; `InOrder` is the safety half of the promise.

**`TokenRound`**. One manager and some threads; threads of one process share the mutex
`InnerLock`. `tokens_remaining` wraps: `TOKEN_MOD` stands for 2^64. Timeouts may fire at any
poll. A time stamp is represented by the batch it was taken in, which is what the properties
tell apart; a measured duration may be 0. `ManagerDies` ends the manager anywhere;
`StoreIdleFirst` and `WakeFirst` are what `supervisor::run` of the successor does before it
builds its manager. A displaced manager that lives on beside its successor is not modelled here.

**`HbmQuota`**. `device` is what the device really holds (external); `memory_used` and
`hbm_used` what the code believes. A thread is inside one operation or in the application.
Operations of all processes, the reaper and the DCMI thread start at any time and interleave
freely. Both cleaners win a slot's pid and swap its bytes out in two steps (`ScanSlot`,
`SwapOut`; `ReapSlot`, `ReapSwap`); a refresh asks DCMI, and then loads the pid of each slot and
stores the reading in two (`DcmiQuery`, `DcmiLoadPid`, `DcmiStore`). History variables: `calm`
is true until an operation starts while another is under way; `crossed` names the processes that
allocated or freed since the query, `blurred` the slots last refreshed with such a reading,
`stray` the slots whose bytes were stored after their pid had been exchanged. `memory_used` is
computed modulo `U64`, and a size of `U64 - 1` is among those asked for; the device itself refuses
more than `DeviceBytes`. A crash may hit any place of a process's operations; the driver then
frees its memory. The reaper and the DCMI thread are one each, and their own process does not die.

**`Election`**. A supervisor is one process; equal pids model a recycled pid. `Won` is the
stretch in which a process acts as the manager. The other pods appear only through what they do
to registry slots (`MaxForeign` bounds them). Three history variables: `adopted` (a process
found its own, recycled, pid in `manager_pid`), `contested` (a contender came to hold the pid of
an acting manager as that of a dead or silent one), `waited` (a manager was without heartbeat
over a whole tick because it waited for its global turn). Time is the age of `manager_heartbeat`
in thirds of `TAKEOVER_TIMEOUT_US`.

**`ClientSlots`**. A process is in the application or at a place inside `npu_limiter`, whose
mutex `LIMITER` makes it one place per process. `Call` to `Install` are the factory and
`SchedulerClient::new`: waiting for the memory, then the two registrations, in which the load of a
slot's pid, the look at `/proc` and the `compare_exchange` are an action each
(`LoadWorkerPid`, `LookForWorker`, `ExchangeWorkerPid`, and the same for process slots).
`DropPid` and `DropActive` are the destructor of a client that a forked child inherited. `Fork`
copies what a child copies; a child of a process inside the factory gets `LIMITER` locked
(`locked`), and its next call waits at the place `"blocked"` for ever. `sup` is the supervisor
thread of a process (`create_shmem`), `mpc` its manager (`ContainerManager::new`); any number of
them may manage at a time, because `Election` lets a second one in. `CleanSlot` to `ClearActive`
are both cleaners of dead processes' slots, again with three steps on the pid. `dropped` records
which slots a forked child has freed, `wstolen` and `qstolen` those whose pid was exchanged after a
new process with this pid had appeared, `doubled` that two managers found the memory
unpublished.

**`FairShare`**. Pods register, take the slice, plan, run a round and learn from it. Time is in
microseconds, priorities in hundredths; `NPU_PRIORITY` may also be text or `NaN`, which parses,
falls to the minimum in `max` and to 0 where a rest is computed (infinity behaves as a very large
number). An `f64` value is a quotient of integers; where the
exact result lies on the boundary of a `ceil`, a `round` or a truncation, the operators
`Truncated`, `RoundedUp` and `Rounded` give both results a rounding error may lead to.
Products saturate and sums wrap at `U64`. A plan has in addition the unscaled tokens
(`base_tokens`), which the properties need. `Short` bounds a duration so that `MAX_TOKENS` of it
stay within `U64`.

`MCGlobalBaton`, `MCTokenRound`, `MCHbmQuota`, `MCElection`, `MCClientSlots` and `MCFairShare`
add symmetry sets and the functions that assign threads to processes, processes to devices,
pids to processes, and the priorities tried. `GlobalBatonProofs`, `BatonRingProofs`,
`RegistryBootProofs`, `TokenRoundProofs`, `HbmQuotaProofs`, `ElectionProofs`,
`ClientSlotsProofs` and `FairShareProofs` hold the theorems (section 4).

## 3. Runs

Passing:

| Run | Instance | Shows |
|---|---|---|
| `baton_calm` | 4 pods, 3 slots, no failures, holders heartbeat in time, one pod established | slices overlap (`OverlapNeedsDelay`) and a live manager is evicted (`EvictionNeedsDelay`) only after a waiter overslept at the clock or a waiting manager lost its role; a full registry included |
| `baton_boot` | 2 pods, 2 slots, no registry yet, one crash, panic or fault anywhere | a slot is shared only after an eviction (`SharedSlotOnlyAfterEviction`); two hold the lock only after the eviction of a live one, a reset under a holder, or the registration of a slot that somebody is claiming the lock from (`OverlapHasACause`); the survivors go on (`LockNeverStuck`) |
| `baton_ring` | 3 joined pods, ring of 3 | refinement of `TurnRing`, `NoStarvation` |
| `tokens_processes` | 2 processes, 1 token, counter modulo 4, one complete batch and the next | `NeverOvercharged`, `NoLostWakeup` |
| `tokens_failures` | 2 threads of one process, three batches, one death of process or manager, the takeover in its two steps | `SleepersWake`, `SampleOfThisBatch`, `OverGrantAtMostOne` |
| `hbm_pod` | 2 processes, 3 calls, a size that wraps the sum, reaper, DCMI refresh and a crash, all overlapping | `SlotExact` except in blurred slots; `DeadSlotsReclaimed` except for stray bytes; while calm, `QuotaEnforced` and `RejectedOnlyWhenFull` |
| `election_pod` | established pod of 3 processes, one with the pid of another that died, two crashes or panics, another pod registering and evicting | two managers only after an adopted pid or a contested role (`TwoManagersHaveACause`); while no manager has waited for its turn over a tick, one failure leaves one manager (`OneFailureOneManager`) and one slot (`OneSlotPerPod`); `RoleRecovered` |
| `clients` | 3 processes, one pid recycled, 2 + 2 slots, forks, a death, 2 supervisors that may both manage | slots are shared or lost only if dropped by a forked child or exchanged too late (`ProcSlotsExclusive`, `RegisteredIsListed`, `WorkerSlotsExclusive`); nobody is wiped unless two managers found the memory unpublished (`NothingWiped`); a call returns unless `LIMITER` was inherited locked (`CallReturns`) |
| `share` | 2 pods, four values of `NPU_PRIORITY` (below and above 1, `NaN`, text) and both modes, samples of 0, 1 and 13 us | `ShareByPriority`, `DutyCycle`, `TimeoutCoversBudget`, `AverageApproachesCost` |

Disagreements between the code and what it says of itself (each a violated property):

| Run | What happens |
|---|---|
| `baton_starvation` | `join_global_queue` advances `queue_tail` before it stores the entry (`manager.rs:261-264`). A pod that passes the baton in between reads the old contents and moves `queue_head` past the position; the entry written afterwards lies behind the head and is overwritten unread. The joiner never runs. |
| `hbm_overlap` | `recalculate_usage` sets `memory_used` to the sum of the slots, but a reservation of `check_memory_quota` enters its slot only after `rtMalloc` returned. A recalculation in between forgets it and both allocations pass: more than the quota is held. |
| `election_start` | `try_become_manager` stores `manager_pid` and then the heartbeat. In a new pod the heartbeat is 0 in between, `manager_alive` says dead, and a second process takes over: two managers. |

### Bounds, and why they are enough to be interesting

Two pods are enough for every race on `lock_owner`, a third lets a bystander act between two
others, the fourth makes the registry full; the ring is as small as the set of pods, so it wraps
in every run. One failure at every place, two in the election, so that a successor may fail too.
`baton_calm` stops (`UntilDelayed`) at the first delay, which its properties excuse for good.
Three batches let a report of one batch arrive in the next and that batch end (one process);
with two processes the run ends in the second batch, after tokens of the first were put back
into it. A counter modulo 4 keeps a wrapped value apart from any fill level plus the tokens two
threads may put back. In `hbm_pod` two requests of 2 exceed the limit of 3, and 15 is 2^64 - 1
for a counter modulo 16; the device has 4. Three calls are an allocation and a free of one
process next to an operation of the other; `hbm_overlap` needs a fourth. In `clients` three
processes compete for two slots of each kind, so a registry can be full; the third has the pid
of the first, and one death is what it takes to recycle it; two supervisors are two managers. In
`share` the tokens are clamped at 7, the average can move between the bounds of the clamp, alpha
is 0.7 and the scale 1.5; 256 for 2^64 is above what the largest sample can lead to and below
what an unclamped or overweight average does. `granted` is counted up to `MaxTokens + 2`, one
more than any property tells apart. `MaxBatch` ends a run in the middle of its last batch (hence
no deadlock check in `tokens_failures`; in `tokens_processes` the workers go on polling).
`baton_boot`, `election_pod` and `clients` do not check for deadlock because all processes may
be dead.

Named restrictions. In `baton_boot` two pods do not show what takes a third (a slot registered
again after an eviction or under a late clear): the theorems cover it. In `tokens_failures` the
death of the process leaves no sleeper. `QuotaEnforced` and `RejectedOnlyWhenFull` say nothing about
overlapping operations. `OneSlotPerPod` says nothing after a second failure or an adopted pid. In
`ClientSlots` a forked child does not get the pid its inherited client was made for. In `HbmQuota`
there is one reaper and one refresh at a time, and a slot is not registered again.

### Timing and fairness

`Timely = TRUE` in `GlobalBaton` says: between two ticks (a third of
`GLOBAL_WATCHDOG_TIMEOUT_US`) every manager that has, or is named by, the lock reaches a
heartbeat. The heartbeat sites of a turn are at most 100 ms apart, and between the last one
of a turn and the first one of the next there is no wait longer than 1 ms, so this is
an assumption on the host's scheduler only. It does not exclude that a waiting thread sleeps for
arbitrarily long between any two operations. In particular one that sleeps between the load of
`lock_timestamp` and the clock (`manager.rs:281-282`) finds a fresh heartbeat stale: then slices do
overlap, and `overslept` records it. Nor does it exclude that a sibling takes the role from a
manager that waits longer than `TAKEOVER_TIMEOUT_US` for its turn (`displaced`). `Prompt` and
`BriefWaits` exclude the one and the other; `baton_calm` assumes neither, `baton_ring` both,
because what the abstract ring promises is false after either.

In `Election`, `Timely` says that watchers poll within a third of `TAKEOVER_TIMEOUT_US`, that an
election does not take longer, and that a manager heartbeats within that time unless it
waits for its global turn. In such a wait the code writes no heartbeat at all. A wait past the
timeout costs a manager its role with no failure, and one that ends in a crash leaves too old a
heartbeat to its successor; both are behaviours of the model, and from the first such tick
on (`waited`) `OneFailureOneManager` and `OneSlotPerPod` claim nothing. `TwoManagersHaveACause` and
`RoleRecovered` hold with them.

Fairness is weak fairness of each live thread's next step and of time. In `GlobalBaton` it
includes the end of a turn, because `run_local_round` is bounded by its timeouts; it excludes
starting, extra heartbeats, failures and reclaims. `TokenRound` adds strong fairness of
`GraceOver`: the loop looks at the grace period in every turn and once over it stays over,
while in the model the poll may always be early. A dead manager of `TokenRound` is replaced, which
is `RoleRecovered` of `Election`. In `HbmQuota` the reaper runs every
`REAP_INTERVAL_SECS` and operations finish. In `ClientSlots` only the thread inside the
factory is assumed to go on (`Construct`): its wait for the manager ends after ten seconds
whether there is one or not. `FairShare` needs no fairness. `BootSpec` has that of `GlobalBaton`;
the steps of `open_global_registry` are not assumed to go on.

## 4. Proofs

The `*Proofs` modules hold the theorems, one module per component; each extends the
component's module. A theorem holds for every value of the constants that satisfies the
module's ASSUMEs and the hypotheses named here: any number of pods, processes, threads,
slots, addresses, batches and failures, where the runs of section 3 have two to four. Every
inductive invariant was checked with TLC on a small instance before it was proved.

**`GlobalBatonProofs`** (the lock).
- `TypeCorrect`, from a fresh registry: not inductive alone. That `queue[cursor]` is read
  inside the ring needs `ScanInv` (where the cursor of a scan or a join may be), and that a
  reclaim touches only a dead manager's slot needs `ReclaimInv`.
- `SlotsExclusive` (`SharedSlotOnlyAfterEviction`), on any host and with any failures.
  `SlotInv` says that a running manager has a slot, active unless the manager was evicted:
  then the `compare_exchange` of a newcomer fails on it.
- `ExclusiveSlice` (`OverlapNeedsDelay`) and `WatchdogSparesTheLiving`
  (`EvictionNeedsDelay`), with `Timely` and `MaxFailures = 0`, from `EstablishedInit`, and
  `PromptExclusiveSlice`: with `Prompt` and `BriefWaits` as well there is no delay, and slices never
  overlap. They rest on `CalmUnlessDelayed`: `CalmInv` holds until the first delay.
  `HolderOwnsLock` alone would give exclusion, but it survives `HandOff`
  only if the index handed over is nobody's who still holds, and survives waiting only if no
  thread ever claims or steals. `NoTakeover` says none does; it needs `RingNamesJoined` (the
  lock, every ring entry and every index a thread has read name a manager that has joined,
  hence an active slot) so that no owner is found inactive, and `HeartbeatFresh` so that none
  is found stale. `HeartbeatFresh` is kept by `Tick` because a timely tick needs a heartbeat
  from the manager the lock names; of a timestamp already loaded it is kept only until the waiter
  oversleeps. `RingNamesJoined` holds of a joining pod's reserved and
  unwritten entry because stale entries name old members. The hypotheses are real limits: from
  `FreshInit`, `LiveManagerKeepsSlot` is false without any delay (section 5).

**`BatonRingProofs`** (the refinement). `TurnsInRingOrder`: with `Timely`, `Prompt`,
`BriefWaits`, `MaxFailures = 0` and a slot for every pod (`Seated`), `SettledSpec` implies
`InOrder` of `TurnRing`, the safety half of `ImplementsTurnRing`: the first state maps to an
initial state of `TurnRing` and every step to a step or a stutter. On top of `CalmInv` the
invariant `RingInv` says where the tail is (`TailInv`: as many entries from the head on as there
are pods, one more while the holder has queued up again) and what the holder has read
(`PassInv`: its new entry is behind all others, its candidate is the entry behind its own).
`CommitHead` moves the ring under the line and `HandOff` rotates the line; that the new entry is
not on a place of the line (`Apart`) needs `PodCount <= MAX_MANAGERS`.

**`RegistryBootProofs`** (the lock with its set-up). `BootTypeCorrect`, `BootSlotsExclusive`,
and `OverlapsAreCaused` (`OverlapHasACause`) with no hypothesis on the host or the failures:
`CauseInv` says that until one of the three causes happened the holder is whom `lock_owner`
names (`HolderOwnsLock`) and nobody who is about to claim the lock from a slot would take it
from a running manager (`VacantInv`).

**`TokenRoundProofs`** (the batches).
- `NobodyMissesABatch` (`NoLostWakeup`): a thread goes to sleep only with a state it has seen
  not running (`SleepInv`), and the kernel compares the word again. Two instants are excepted:
  between the store of RUNNING and its wake-up, and, if the manager dies there, until its successor
  has stored IDLE.
- `SamplesBelongTogether` (`SampleOfThisBatch`): `LockInv` (one thread of a process inside its
  mutex), `OrderInv` (batch numbers only grow along report, process, manager) and `ReportInv`
  (a report that carries the current batch also has this batch's start and duration).
- `ChargesAreReal` (`NeverOvercharged`): `BucketInv` bounds what is in the bucket plus what was
  taken from below and above, with the threads that still owe a token counted; it needs that
  the counter's modulus exceeds `MaxTokens` plus the threads (2^64 does).
- `OneTokenTooMany` (`OverGrantAtMostOne`), for a pod of one process (`SingleProcess`): its
  mutex makes check and decrement one step for the other workers, so only the manager's
  emptying of the bucket races with it (`RaceInv`, `OweInv`). With two processes it is false.

**`ClientSlotsProofs`** (slots and factory). `PidInv`: a pid belongs to one living process, and
one that has not started has no client. `SeenInv`: a pid that was looked for and not found
belonged to a process that has died, so an exchange that succeeds either takes a dead process's
slot or is one of a recycled pid, which `wstolen` and `qstolen` record. With these, `WorkerInv`
says what a worker slot holds for whoever has, or is about to name, it, and `ProcInv` the same
of the process slots that are `Sound` (nobody dropped them, nothing was exchanged too late),
through the half-free states of the cleaners. From them follow `WorkersDoNotShare`,
`RegisteredStaysListed` and `ProcsDoNotShare`; `FreshPidsShareNothing` adds that without reuse
of pids no worker slot is ever exchanged too late, so none is shared. `NoAccountWiped`, for any
number of managers: nobody registers before the memory is published, and a manager that is about
to reset it found it unpublished alone (`PublishInv`).

**`ElectionProofs`** (the role).
- `SecondManagerIsCaused` (`TwoManagersHaveACause`), for any host, failures and recycled pids:
  `manager_pid` names whoever acts (`RoleInv`) and nobody is about to exchange the pid of one
  that acts (`CasInv`), until a process adopts a recycled pid or the role is contested.
- `OneFailureIsSafe` (`OneFailureOneManager`) and `OneFailureOneSlot` (`OneSlotPerPod`), on a
  timely host from an established pod, while no manager has waited for its turn over a tick.
  `Led` says who may be where before and after the first failure (`FirstManager`,
  `TakenFromDead`) and bounds the age of the heartbeat by the place of the leader (`LedAge`)
  and, while there is none, of the watchers (`UnledAge`): a winner writes its heartbeat before
  anybody who looks can find the old one stale. `Slotted` adds that a slot of the pod is held by
  its manager or left by the dead one and about to be reclaimed.

**`FairShareProofs`** (the shares). `PlanInv` says a plan is what `calculate_fair_share` makes
of the holder's average, `AverageInv` that averages stay positive and `Short`. The rest is
integer arithmetic over rounding sets, in lemmas of one inequality each; the largest priority
exists because a bounded set of numbers has a maximum (well-foundedness). The assumption
`DurationsAssumption` is what "no product wraps" needs: no batch lasts seventy days when
`MAX_TOKENS` is 2,000,000.

**`HbmQuotaProofs`** (the quota).
- `TypeCorrect`: also that `memory_used` stays a `u64` and no slot's counter falls below 0.
- `SlotsAreExact` (`SlotExact`), when one thread of each process allocates (`OneThread`), with
  the other processes, both cleaners, refreshes and crashes overlapping in any way;
  `SlotsAreExactWhileCalm` for any threads until two operations overlap. `ExactInv` says for
  each place of an operation by how much slot, handle map and device differ, and `DcmiInv` that
  a reading which was not crossed is what the process still holds, which is why storing it makes
  the slot exact (again).
- `QuotaHolds` (`QuotaEnforced`) and `RejectionsAreJust` (`RejectedOnlyWhenFull`), when the
  processes use one device (`SingleDevice`). `QuotaInv` follows `recalculate_usage` through its
  loop: what it has summed is at least what the processes passed hold, so the total it stores is
  `Sound`, between what the device holds and the limit. A size near 2^64 wraps the sum, and then
  the device refuses it: this needs `Limit + DeviceBytes < U64`.
- Facts about sums of functions over finite sets, by a least counterexample, are the first
  section of the module.

What the attempts refuted. Properties that TLC had passed on the first instances turned out
false for larger ones, and were corrected to what now is checked and proved:
- two pods may hold the lock without a reset or an eviction: with three managers a slot is
  given out again between the look at `is_active` and the `compare_exchange`, and `lock_owner`
  has the value compared with (`recycled`);
- with four supervisors, two failures can lead to two managers without an adopted pid: a
  contender holds the pid of a silent winner that then starts to act (`contested`);
- `SlotExact` is false with two threads in a process (section 5), `QuotaEnforced` with two
  devices.

Only model-checked: all liveness (`LockNeverStuck`, `NoStarvation`, `SleepersWake`,
`DeadSlotsReclaimed`, `RoleRecovered`, `CallReturns`, and the fairness half of
`ImplementsTurnRing`), because the prover handles neither fairness nor ENABLED. The three
properties of the runs that expect a violation are false.

## 5. Observations

Met while modelling and not kept as runs of their own; each is had by changing a constant or
stating the formula named.

- `manager.rs:281-289`: a waiter that is paused for the watchdog period after it has loaded
  `lock_timestamp` compares an old stamp with a new clock, clears the slot of an owner that
  heartbeats and takes the lock from it, on a host without any failure. (`MutualExclusion` in
  `baton_calm` with `BriefWaits`.)
- `supervisor.rs:135`, `manager.rs:266-299`: `wait_for_global_turn` writes no heartbeat. A manager
  that waits three seconds for its turn loses its slot and its role to a sibling and is not
  told: two managers of one pod, without a failure. (`LiveManagerKeepsSlot` in `baton_calm` with
  `Prompt`; `OneManagerPerPod` in `election_pod` with `MaxFailures = 0`.)
- `manager.rs:275`: two pods that start together on a fresh registry. The first claims the
  lock and has yet to write `lock_timestamp`, which is 0; the second finds it stale, clears
  the live owner's slot and takes the lock. The first never registers again.
  (`LiveManagerKeepsSlot` under `FreshSpec`.)
- `worker.rs:260`: `tokens_remaining` is loaded and then decremented by `fetch_sub`. When two
  processes race for the last token it wraps, and until the loser adds its token back
  everybody gets one. (`granted <= quota` with two processes.)
- `manager.rs:287`: an evicted manager is not told. It goes on with its slot index and in its
  slice, next to whoever took the lock.
- `shmem/setup.rs:76-104`: a second creator stores `lock_owner` into a registry in use and
  lets two pods hold the lock; a pod that opens the file before it is sized dies of SIGBUS.
  (`OverlapHasACause` without `reset`.)
- `worker.rs:495`: `memory_used` is pod-wide but re-derived from the caller's device only, so
  processes on two devices together exceed the quota, even one after the other.
  (`QuotaEnforced` with `DevOf <- OwnDevice`.)
- `worker.rs:388`: a request near 2^64 wraps the sum below the limit and is reserved. Until
  the device refuses it and the reservation is rolled back, `memory_used` is too small.
  The limit itself, `NPU_MEM_QUOTA` times 2^20, may wrap in the same way.
- `manager.rs:72`: the reaper clears a dead slot and subtracts its bytes later; if a recalculation comes
  in between, the bytes are taken off twice.
- `worker.rs:437`: `rtFree` returns the address to the device before `post_free_hbm` takes it
  out of `hbm_handle_map`. If another thread of the process gets the same address in between and
  records it, the first one removes the new record, and the slot is wrong from then on.
  (`SlotExact` with `ProcOf <- OneProcess`.)
- `manager.rs:273-275`: the look at `is_active` of the owner and the `compare_exchange` on `lock_owner`
  are two operations. A pod that registers the freed slot in between and owns the lock under the
  same index loses it to the claimer. (`OverlapHasACause` without `recycled`, three managers.)
- `manager.rs:103-111`: a DCMI reading taken before an allocation and stored after it overwrites
  the slot's counter, until the next refresh. (`SlotExact` without `blurred`.) And a cleaner that
  exchanges the pid between its load and the store leaves the stored bytes in a freed slot, where
  they stay until a process registers in it and zeroes them. (`DeadSlotsReclaimed` without
  `stray`.)
- `worker.rs:133-141`, `178-185`, `484-488`, `manager.rs:56-62`: the pid of a slot is loaded, looked
  for in `/proc` and exchanged. If a new process gets this pid and registers in the same slot in
  between, the exchange succeeds on a live process's slot: two processes report or account in it,
  or the live one is no longer listed. (The three slot properties of `clients` without `wstolen`
  and `qstolen`.)
- `worker.rs:488-496`: a cleaner that dies between the exchange of the pid and the store to
  `is_active` leaves a slot without pid that no cleaner recognises and nobody registers in.
- `supervisor.rs:165`: the reclaim asks only for the immediate predecessor's pid. If that one
  died before its own reclaim, or adopted the role under a recycled pid, the older slot stays
  active and the pod is counted twice. (`OneSlotPerPod` without its first two conditions.)
- `supervisor.rs:109`: a process that finds its own recycled pid in `manager_pid` takes itself
  for the manager; a sibling that had seen the predecessor dead takes over at the same time.
- `supervisor.rs:165-166`: the check of the slot's pid and the clear are two operations, and a
  pod that registers the slot in between has not stored its pid yet.
- `hook/lib.rs:47`: the factory holds `LIMITER` while it waits up to ten seconds for a
  manager. A process forked meanwhile inherits the mutex locked and its first NPU call never
  returns.
- `hook/lib.rs:53-60`: a process that timed out, or found the registry full, gets a stub, and
  keeps it for life: its launches and allocations are not limited.
- `worker.rs:135`, `worker.rs:175`: a process that dies between marking a slot taken and
  storing its pid leaves a slot that no cleaner recognises.
- `worker.rs:611`: a forked child replaces the inherited client, and its destructor frees the
  parent's process slot while the parent uses it.
- `manager.rs:186`: the check of `initialized` and the reset of `memory_used` are two steps; with two
  managers (`election_start`) the second may reset it after clients registered. (`NothingWiped`
  without `doubled`.)
- `manager.rs:341`: the anchor is the largest average of the active slots, also of one whose pod
  died or has yet to store its own. It makes all slices longer or shorter alike, which no property
  here judges.
- `manager.rs:360`: `MAX_TOKENS` caps the tokens of a fast pod, and then its share is below
  its priority; `ShareByPriority` leaves capped plans out.
- `manager.rs:579`: the average is truncated, so it stays up to `1/alpha` below the cost, and an
  average with `3 * avg * alpha < 1` does not rise at all, because the sample is clamped to
  four times the average. With `alpha = 0.05` an average of 6 us is stuck.
- `manager.rs:511`: in fixed mode a pod rests with the lock held, so the others rest too.

## 6. Not modelled

Weak memory; the wake-ups that only shorten a poll (`signal_counter`, `wait_timeout`); in
`HbmQuota` slots that change hands, two reapers or refreshes at a time (of a displaced manager
and its successor) and the death of their process between two steps; in `TokenRound` a displaced
manager that goes on beside its successor. The bindings of the runtime and the exports that only
forward (`externed_api.rs`, the macro in `hook.rs`), the signal shim, `open_shmem` and
`futex::wake` (unused) and the parsing of paths and of the quota keep no state a property could
be about.

## 7. Plan

1. A composition of `Election` with `GlobalBaton` and `TokenRound`: what a displaced manager, which
   is not stopped, does to the batches of its pod.
2. `SlotExact` of several threads of a process, weakened to what the code keeps when an address
   is reused.
