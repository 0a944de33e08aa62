----------------------------- MODULE TokenRound -----------------------------
(***************************************************************************)
(* One pod's token bucket: the manager's batches (run_local_round and what  *)
(* it calls, crates/limiter/src/manager.rs) against the worker threads that *)
(* call wait_for_token (crates/limiter/src/worker.rs), over the fields of   *)
(* LocalContainerShmem.                                                     *)
(*                                                                         *)
(* A client is one process with its SchedulerClient; its threads share the  *)
(* mutex InnerLock.  One action is one atomic operation on the shared       *)
(* memory, sequentially consistent.  tokens_remaining keeps its wrap-around: *)
(* TOKEN_MOD stands for 2^64.                                               *)
(*                                                                         *)
(* Abstractions.  The round's timeouts may fire at any poll.  A time stamp  *)
(* or a duration is represented by the batch it was taken in; a duration    *)
(* may also be 0 (rtEventElapsedTime rounds down).  The first operation of  *)
(* a round, reading batch_id, is merged with the store: only the manager    *)
(* writes it.                                                               *)
(***************************************************************************)
EXTENDS Integers, FiniteSets

CONSTANTS
  Clients,       \* processes with a SchedulerClient
  Threads,       \* threads that launch kernels
  ClientOf,      \* the process of each thread
  MaxTokens,     \* bound on plan.tokens
  TOKEN_MOD,     \* tokens_remaining is computed modulo this
  MaxBatch,      \* bound on batch_id: the last batch is counted and not measured
  MaxFailures,   \* how often a process or the manager may die
  Nobody         \* no thread, no client

ASSUME ClientOfAssumption == ClientOf \in [Threads -> Clients]
ASSUME ThreadsAssumption == IsFiniteSet(Threads)
ASSUME TokensAssumption == /\ MaxTokens \in Nat \ {0}
                           /\ TOKEN_MOD \in Nat /\ TOKEN_MOD > MaxTokens + Cardinality(Threads)
ASSUME BatchAssumption == MaxBatch \in Nat
ASSUME FailuresAssumption == MaxFailures \in Nat
ASSUME NobodyAssumption == Nobody \notin Threads /\ Nobody \notin Clients

VARIABLES
  state, batch_id, tokens_remaining, active_workers, reported_count,
  reports,       \* per client: LocalWorkerReport
  mutex,         \* per client: the thread that holds InnerLock
  batch_active,  \* per client: InnerLock.batch_active
  current_batch, \* per client: InnerLock.current_batch_id
  pc,            \* per thread: place in wait_for_token
  saw,           \* per thread: the state and batch it loaded
  mpc,           \* the manager's place
  plan,          \* the manager's plan.tokens
  mactive,       \* the manager's `active`
  consumed,      \* tokens_consumed_for_stats
  todo,          \* clients whose report the manager has yet to look at
  sample,        \* the report the manager is looking at, or its last one
  quota,         \* history: what the bucket was last filled with
  granted,       \* history: tokens handed out since then (counted up to MaxTokens + 2)
  failures       \* processes and managers that died so far

shmem   == <<state, batch_id, tokens_remaining, active_workers, reported_count, reports>>
client  == <<mutex, batch_active, current_batch>>
thread  == <<pc, saw>>
manager == <<mpc, plan, mactive, consumed, todo, sample>>
ghosts  == <<quota, granted, failures>>
vars    == <<shmem, client, thread, manager, ghosts>>

----------------------------------------------------------------------------
STATE_IDLE      == 0
STATE_RUNNING   == 1
STATE_MEASURING == 2
States          == {STATE_IDLE, STATE_RUNNING, STATE_MEASURING}

Batch == 0 .. MaxBatch
Token == 0 .. TOKEN_MOD - 1

(* Places that hold the client's mutex, and the others.                     *)
Locked   == {"state", "batch", "tokens", "sub", "add", "active", "start",
             "dur", "rep", "count"}
Unlocked == {"app", "lock", "futex", "asleep", "gone"}

Starting  == {"s_tokens", "s_active", "s_reported", "s_state", "s_wake"}
Measuring == {"m_state", "m_wake", "m_active", "m_reported", "agg", "agg_read", "idle_store"}
Replacing == {"t_state", "t_wake"}
ManagerPC == {"idle", "run", "capture", "zero"} \cup Starting \cup Measuring \cup Replacing

TypeOK ==
  /\ state \in States
  /\ batch_id \in Batch
  /\ tokens_remaining \in Token
  /\ active_workers \in Nat
  /\ reported_count \in Nat
  /\ reports \in [Clients -> [batch_id : Batch, cpu_start : Batch, duration : Batch]]
  /\ mutex \in [Clients -> Threads \cup {Nobody}]
  /\ batch_active \in [Clients -> BOOLEAN]
  /\ current_batch \in [Clients -> Batch]
  /\ pc \in [Threads -> Locked \cup Unlocked]
  /\ saw \in [Threads -> [state : States, batch : Batch]]
  /\ mpc \in ManagerPC
  /\ plan \in 0 .. MaxTokens
  /\ mactive \in Nat
  /\ consumed \in 0 .. MaxTokens
  /\ todo \in SUBSET Clients
  /\ sample \in [of : Clients \cup {Nobody}, cpu_start : Batch, duration : Batch]
  /\ quota \in 0 .. MaxTokens
  /\ granted \in 0 .. MaxTokens + 2
  /\ failures \in 0 .. MaxFailures

Unseen   == [state |-> STATE_IDLE, batch |-> 0]
NoSample == [of |-> Nobody, cpu_start |-> 0, duration |-> 0]

Init ==
  /\ state = STATE_IDLE /\ batch_id = 0 /\ tokens_remaining = 0
  /\ active_workers = 0 /\ reported_count = 0
  /\ reports = [c \in Clients |-> [batch_id |-> 0, cpu_start |-> 0, duration |-> 0]]
  /\ mutex = [c \in Clients |-> Nobody]
  /\ batch_active = [c \in Clients |-> FALSE]
  /\ current_batch = [c \in Clients |-> 0]
  /\ pc = [t \in Threads |-> "app"]
  /\ saw = [t \in Threads |-> Unseen]
  /\ mpc = "idle" /\ plan = 0 /\ mactive = 0 /\ consumed = 0
  /\ todo = {} /\ sample = NoSample
  /\ quota = 0 /\ granted = 0 /\ failures = 0

----------------------------------------------------------------------------
(* Shared pieces. *)

C(t) == ClientOf[t]

Goto(t, from, to) == pc[t] = from /\ pc' = [pc EXCEPT ![t] = to]

(* Drop the mutex guard and go on outside it.                               *)
Unlock(t, from, to) ==
  /\ Goto(t, from, to)
  /\ mutex' = [mutex EXCEPT ![C(t)] = Nobody]

(* The values thread t loaded go out of scope.                              *)
Forget(t) == saw' = [saw EXCEPT ![t] = Unseen]

(* Mutant: the wake-up goes to another address. *)
wake_nobody == UNCHANGED pc

(* futex::wake_all on state.                                                *)
wake_all == pc' = [t \in Threads |-> IF pc[t] = "asleep" THEN "lock" ELSE pc[t]]

(* Mutant: the subtraction wraps. *)
MinusWrapping(a, b) == (a - b) % TOKEN_MOD

(* u64::saturating_sub *)
Minus(a, b) == IF a > b THEN a - b ELSE 0

----------------------------------------------------------------------------
(* wait_for_token. *)

Call(t) ==
  /\ Goto(t, "app", "lock")
  /\ UNCHANGED <<shmem, client, saw, manager, ghosts>>

(* Mutant: the state is loaded without the mutex. *)
LoadStateUnlocked(t) ==
  /\ Goto(t, "lock", "batch") \/ Goto(t, "state", "batch")
  /\ saw' = [saw EXCEPT ![t].state = state]
  /\ UNCHANGED <<shmem, client, manager, ghosts>>

(* Take the mutex and load the state; or, after a lost race, just load it.  *)
LoadState(t) ==
  /\ \/ /\ mutex[C(t)] = Nobody
        /\ Goto(t, "lock", "batch")
        /\ mutex' = [mutex EXCEPT ![C(t)] = t]
     \/ /\ Goto(t, "state", "batch")
        /\ UNCHANGED mutex
  /\ saw' = [saw EXCEPT ![t].state = state]
  /\ UNCHANGED <<shmem, batch_active, current_batch, manager, ghosts>>

(* The reset logic, and the match on the state loaded before.               *)
LoadBatch(t) ==
  LET sameBatch == batch_active[C(t)] /\ current_batch[C(t)] = batch_id IN
  /\ saw' = [saw EXCEPT ![t].batch = batch_id]
  /\ batch_active' = [batch_active EXCEPT ![C(t)] = sameBatch]
  /\ \/ /\ saw[t].state = STATE_RUNNING
        /\ Goto(t, "batch", "tokens")
        /\ UNCHANGED mutex
     \/ /\ saw[t].state = STATE_MEASURING /\ sameBatch
        /\ Goto(t, "batch", "dur")
        /\ UNCHANGED mutex
     \/ /\ saw[t].state = STATE_IDLE \/ (saw[t].state = STATE_MEASURING /\ ~sameBatch)
        /\ Unlock(t, "batch", "futex")
  /\ UNCHANGED <<shmem, current_batch, manager, ghosts>>

LoadTokens(t) ==
  /\ \/ /\ tokens_remaining = 0
        /\ Unlock(t, "tokens", "lock")
        /\ Forget(t)
     \/ /\ tokens_remaining > 0
        /\ Goto(t, "tokens", "sub")
        /\ UNCHANGED <<mutex, saw>>
  /\ UNCHANGED <<shmem, batch_active, current_batch, manager, ghosts>>

(* fetch_sub(1): wraps below zero.  The first token a client gets in a      *)
(* batch makes it active.                                                   *)
TakeToken(t) ==
  /\ tokens_remaining' = (tokens_remaining - 1) % TOKEN_MOD
  /\ \/ /\ tokens_remaining = 0
        /\ Goto(t, "sub", "add")
        /\ UNCHANGED <<client, saw, granted>>
     \/ /\ tokens_remaining > 0
        /\ granted' = IF granted < MaxTokens + 2 THEN granted + 1 ELSE granted
        /\ \/ /\ batch_active[C(t)]
              /\ Unlock(t, "sub", "app")
              /\ Forget(t)
              /\ UNCHANGED <<batch_active, current_batch>>
           \/ /\ ~batch_active[C(t)]
              /\ Goto(t, "sub", "active")
              /\ batch_active' = [batch_active EXCEPT ![C(t)] = TRUE]
              /\ current_batch' = [current_batch EXCEPT ![C(t)] = saw[t].batch]
              /\ UNCHANGED <<mutex, saw>>
  /\ UNCHANGED <<state, batch_id, active_workers, reported_count, reports, manager,
                 quota, failures>>

(* The lost race: fetch_add(1), and round the loop with the mutex held.     *)
ReturnToken(t) ==
  /\ Goto(t, "add", "state")
  /\ tokens_remaining' = (tokens_remaining + 1) % TOKEN_MOD
  /\ UNCHANGED <<state, batch_id, active_workers, reported_count, reports, client, saw,
                 manager, ghosts>>

NotifyManager(t) ==
  /\ Goto(t, "active", "start")
  /\ active_workers' = active_workers + 1
  /\ UNCHANGED <<state, batch_id, tokens_remaining, reported_count, reports, client, saw,
                 manager, ghosts>>

StoreStart(t) ==
  /\ Unlock(t, "start", "app")
  /\ Forget(t)
  /\ reports' = [reports EXCEPT ![C(t)].cpu_start = current_batch[C(t)]]
  /\ UNCHANGED <<state, batch_id, tokens_remaining, active_workers, reported_count,
                 batch_active, current_batch, manager, ghosts>>

(* measure_and_report_batch: the synchronisation with the device, which     *)
(* takes any time, and three separate stores.                               *)
StoreDuration(t) ==
  /\ Goto(t, "dur", "rep")
  /\ \E d \in {0, current_batch[C(t)]} :
       reports' = [reports EXCEPT ![C(t)].duration = d]
  /\ UNCHANGED <<state, batch_id, tokens_remaining, active_workers, reported_count, client,
                 saw, manager, ghosts>>

StoreReportBatch(t) ==
  /\ Goto(t, "rep", "count")
  /\ reports' = [reports EXCEPT ![C(t)].batch_id = current_batch[C(t)]]
  /\ UNCHANGED <<state, batch_id, tokens_remaining, active_workers, reported_count, client,
                 saw, manager, ghosts>>

CountReport(t) ==
  /\ Unlock(t, "count", "futex")
  /\ reported_count' = reported_count + 1
  /\ batch_active' = [batch_active EXCEPT ![C(t)] = FALSE]
  /\ UNCHANGED <<state, batch_id, tokens_remaining, active_workers, reports, current_batch,
                 saw, manager, ghosts>>

(* futex::wait(state, the value loaded): sleeps only if state still has it. *)
FutexWait(t) ==
  /\ \/ state = saw[t].state /\ Goto(t, "futex", "asleep")
     \/ state # saw[t].state /\ Goto(t, "futex", "lock")
  /\ Forget(t)
  /\ UNCHANGED <<shmem, client, manager, ghosts>>

(* A signal handler interrupts the futex call.                              *)
SpuriousWake(t) ==
  /\ Goto(t, "asleep", "lock")
  /\ UNCHANGED <<shmem, client, saw, manager, ghosts>>

----------------------------------------------------------------------------
(* start_local_batch. *)

MGoto(from, to) == mpc = from /\ mpc' = to

StoreBatchId ==
  /\ MGoto("idle", "s_tokens")
  /\ batch_id < MaxBatch
  /\ batch_id' = batch_id + 1
  /\ plan' \in 1 .. MaxTokens
  /\ UNCHANGED <<state, tokens_remaining, active_workers, reported_count, reports, client,
                 thread, mactive, consumed, todo, sample, ghosts>>

FillBucket ==
  /\ MGoto("s_tokens", "s_active")
  /\ tokens_remaining' = plan
  /\ quota' = plan
  /\ granted' = 0
  /\ UNCHANGED <<state, batch_id, active_workers, reported_count, reports, client, thread,
                 plan, mactive, consumed, todo, sample, failures>>

ResetActive ==
  /\ MGoto("s_active", "s_reported")
  /\ active_workers' = 0
  /\ UNCHANGED <<state, batch_id, tokens_remaining, reported_count, reports, client, thread,
                 plan, mactive, consumed, todo, sample, ghosts>>

ResetReported ==
  /\ MGoto("s_reported", "s_state")
  /\ reported_count' = 0
  /\ UNCHANGED <<state, batch_id, tokens_remaining, active_workers, reports, client, thread,
                 plan, mactive, consumed, todo, sample, ghosts>>

StoreRunning ==
  /\ MGoto("s_state", "s_wake")
  /\ state' = STATE_RUNNING
  /\ UNCHANGED <<batch_id, tokens_remaining, active_workers, reported_count, reports, client,
                 thread, plan, mactive, consumed, todo, sample, ghosts>>

(* Mutant: RUNNING is stored without a wake-up. *)
WakeNobody ==
  /\ MGoto("s_wake", "run")
  /\ UNCHANGED <<shmem, client, thread, plan, mactive, consumed, todo, sample, ghosts>>

WakeRunning ==
  /\ MGoto("s_wake", "run")
  /\ wake_all
  /\ UNCHANGED <<shmem, client, saw, plan, mactive, consumed, todo, sample, ghosts>>

----------------------------------------------------------------------------
(* The polling loop of run_local_round. *)

(* current_tokens == 0 ends the batch, and so does the 5 ms rule for a      *)
(* batch without progress: both leave the count to be captured below.       *)
BatchSpent ==
  /\ MGoto("run", "capture")
  /\ tokens_remaining = 0 \/ (tokens_remaining >= plan /\ active_workers = 0)
  /\ consumed' = 0
  /\ UNCHANGED <<shmem, client, thread, plan, mactive, todo, sample, ghosts>>

(* The fixed budget or the timeout ends the batch with the count at hand.   *)
BatchTimeout ==
  /\ MGoto("run", "capture")
  /\ consumed' = Minus(plan, tokens_remaining)
  /\ UNCHANGED <<shmem, client, thread, plan, mactive, todo, sample, ghosts>>

(* Mutant: the whole plan is charged. *)
CaptureWholePlan ==
  /\ MGoto("capture", "zero")
  /\ consumed' = IF consumed = 0 THEN plan ELSE consumed
  /\ UNCHANGED <<shmem, client, thread, plan, mactive, todo, sample, ghosts>>

CaptureConsumed ==
  /\ MGoto("capture", "zero")
  /\ consumed' = IF consumed = 0 THEN Minus(plan, tokens_remaining) ELSE consumed
  /\ UNCHANGED <<shmem, client, thread, plan, mactive, todo, sample, ghosts>>

(* enter_measuring_state. *)
EmptyBucket ==
  /\ MGoto("zero", "m_state")
  /\ tokens_remaining' = 0
  /\ UNCHANGED <<state, batch_id, active_workers, reported_count, reports, client, thread,
                 plan, mactive, consumed, todo, sample, ghosts>>

StoreMeasuring ==
  /\ MGoto("m_state", "m_wake")
  /\ batch_id < MaxBatch
  /\ state' = STATE_MEASURING
  /\ UNCHANGED <<batch_id, tokens_remaining, active_workers, reported_count, reports, client,
                 thread, plan, mactive, consumed, todo, sample, ghosts>>

WakeMeasuring ==
  /\ MGoto("m_wake", "m_active")
  /\ wake_all
  /\ UNCHANGED <<shmem, client, saw, plan, mactive, consumed, todo, sample, ghosts>>

----------------------------------------------------------------------------
(* Waiting for the reports, and aggregate_local_times. *)

LoadActive ==
  /\ MGoto("m_active", "m_reported")
  /\ mactive' = active_workers
  /\ UNCHANGED <<shmem, client, thread, plan, consumed, todo, sample, ghosts>>

(* All have reported, or the grace period is over.                          *)
ReportsDone ==
  /\ MGoto("m_reported", "agg")
  /\ reported_count >= mactive
  /\ todo' = Clients
  /\ mactive' = 0
  /\ UNCHANGED <<shmem, client, thread, plan, consumed, sample, ghosts>>

GraceOver ==
  /\ MGoto("m_reported", "agg")
  /\ reported_count < mactive
  /\ todo' = Clients
  /\ mactive' = 0
  /\ UNCHANGED <<shmem, client, thread, plan, consumed, sample, ghosts>>

PollAgain ==
  /\ MGoto("m_reported", "m_active")
  /\ reported_count < mactive
  /\ mactive' = 0
  /\ UNCHANGED <<shmem, client, thread, plan, consumed, todo, sample, ghosts>>

(* Mutant: every report is read, whichever batch it is of. *)
MatchAnyReport(c) ==
  /\ mpc = "agg" /\ c \in todo
  /\ todo' = todo \ {c}
  /\ mpc' = "agg_read"
  /\ sample' = [sample EXCEPT !.of = c]
  /\ UNCHANGED <<shmem, client, thread, plan, mactive, consumed, ghosts>>

(* The next report slot: only one that carries this batch is read.          *)
MatchReport(c) ==
  /\ mpc = "agg" /\ c \in todo
  /\ todo' = todo \ {c}
  /\ \/ /\ reports[c].batch_id = batch_id
        /\ mpc' = "agg_read"
        /\ sample' = [sample EXCEPT !.of = c]
     \/ /\ reports[c].batch_id # batch_id
        /\ UNCHANGED <<mpc, sample>>
  /\ UNCHANGED <<shmem, client, thread, plan, mactive, consumed, ghosts>>

ReadReport ==
  /\ MGoto("agg_read", "agg")
  /\ sample' = [sample EXCEPT !.cpu_start = reports[sample.of].cpu_start,
                              !.duration = reports[sample.of].duration]
  /\ UNCHANGED <<shmem, client, thread, plan, mactive, consumed, todo, ghosts>>

(* The round is over: IDLE, without a wake-up.                              *)
StoreIdle ==
  /\ MGoto("agg", "idle")
  /\ todo = {}
  /\ state' = STATE_IDLE
  /\ sample' = NoSample
  /\ consumed' = 0
  /\ UNCHANGED <<batch_id, tokens_remaining, active_workers, reported_count, reports, client,
                 thread, plan, mactive, todo, ghosts>>

----------------------------------------------------------------------------
(* Failures. *)

(* A worker process dies at any point of wait_for_token.                    *)
ProcessDies(c) ==
  /\ \E t \in Threads : C(t) = c /\ pc[t] # "gone"
  /\ failures < MaxFailures
  /\ failures' = failures + 1
  /\ pc' = [t \in Threads |-> IF C(t) = c THEN "gone" ELSE pc[t]]
  /\ UNCHANGED <<shmem, client, saw, manager, quota, granted>>

(* The manager dies or panics anywhere, also on its way into the role.      *)
ManagerDies ==
  /\ batch_id < MaxBatch
  /\ failures < MaxFailures
  /\ failures' = failures + 1
  /\ mpc' = "t_state" /\ mactive' = 0 /\ todo' = {} /\ sample' = NoSample /\ consumed' = 0
  /\ UNCHANGED <<shmem, client, thread, plan, quota, granted>>

(* A supervisor of the pod takes over: run() stores IDLE and wakes the      *)
(* sleepers before it builds the new manager.                               *)
StoreIdleFirst ==
  /\ MGoto("t_state", "t_wake")
  /\ state' = STATE_IDLE
  /\ UNCHANGED <<batch_id, tokens_remaining, active_workers, reported_count, reports, client,
                 thread, plan, mactive, consumed, todo, sample, ghosts>>

WakeFirst ==
  /\ MGoto("t_wake", "idle")
  /\ wake_all
  /\ UNCHANGED <<shmem, client, saw, plan, mactive, consumed, todo, sample, ghosts>>

TakeOver == StoreIdleFirst \/ WakeFirst

----------------------------------------------------------------------------
Work(t) ==
  \/ LoadState(t) \/ LoadBatch(t) \/ LoadTokens(t) \/ TakeToken(t)
  \/ ReturnToken(t) \/ NotifyManager(t) \/ StoreStart(t)
  \/ StoreDuration(t) \/ StoreReportBatch(t) \/ CountReport(t)
  \/ FutexWait(t)

Manage ==
  \/ StoreBatchId \/ FillBucket \/ ResetActive \/ ResetReported \/ StoreRunning \/ WakeRunning
  \/ BatchSpent \/ BatchTimeout \/ CaptureConsumed
  \/ EmptyBucket \/ StoreMeasuring \/ WakeMeasuring
  \/ LoadActive \/ ReportsDone \/ GraceOver \/ PollAgain
  \/ (\E c \in Clients : MatchReport(c)) \/ ReadReport \/ StoreIdle

Next ==
  \/ \E t \in Threads : Call(t) \/ Work(t) \/ SpuriousWake(t)
  \/ Manage
  \/ \E c \in Clients : ProcessDies(c)
  \/ ManagerDies \/ TakeOver

Spec == Init /\ [][Next]_vars

(* The manager's thread keeps running and its timeouts fire (the grace      *)
(* period is looked at in every turn of the loop and stays over), a dead    *)
(* manager is replaced; threads inside wait_for_token keep running and the  *)
(* device answers.                                                          *)
Fairness ==
  /\ WF_vars(Manage \/ TakeOver)
  /\ SF_vars(GraceOver)
  /\ \A t \in Threads : WF_vars(Work(t))

FairSpec == Spec /\ Fairness
----------------------------------------------------------------------------
(* Properties. *)

(* What the manager averages belongs together: the start and the duration   *)
(* it reads from a report of this batch were both taken in this batch.      *)
SampleOfThisBatch ==
  mpc = "agg" /\ sample.of # Nobody /\ sample.duration # 0
    => sample.cpu_start = batch_id /\ sample.duration = batch_id

(* The tokens charged to a batch for the average were really handed out.    *)
NeverOvercharged == consumed <= granted

(* A thread sleeps in the futex only while there is nothing to take, save   *)
(* for the instant between the store of RUNNING and its wake-up, or until a *)
(* successor has stored IDLE when the manager dies in that instant.         *)
NoLostWakeup ==
  state = STATE_RUNNING /\ mpc \notin {"s_wake", "t_state"}
    => \A t \in Threads : pc[t] # "asleep"

(* With one process the bucket is exceeded by at most the one token a       *)
(* lost race puts back too late.                                            *)
OverGrantAtMostOne == granted <= quota + 1

(* A thread that sleeps for a new batch is woken, whoever dies.             *)
SleepersWake == \A t \in Threads : pc[t] = "asleep" ~> pc[t] # "asleep"
=============================================================================
