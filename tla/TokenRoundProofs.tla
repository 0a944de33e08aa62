-------------------------- MODULE TokenRoundProofs --------------------------
(***************************************************************************)
(* Proofs about TokenRound, for every set of processes and threads, every   *)
(* plan and any number of failures.                                         *)
(***************************************************************************)
EXTENDS TokenRound, FiniteSetTheorems, TLAPS

(* What the assumptions on the constants say of the wrapping counter.       *)
LEMMA TokenFacts ==
  /\ Cardinality(Threads) \in Nat
  /\ MaxTokens \in Nat /\ MaxTokens >= 1
  /\ TOKEN_MOD \in Nat /\ TOKEN_MOD >= 1
  /\ TOKEN_MOD > MaxTokens + Cardinality(Threads)
  <1>1. Cardinality(Threads) \in Nat BY ThreadsAssumption, FS_CardinalityType
  <1> QED BY <1>1, TokensAssumption

(* fetch_sub and fetch_add stay within the counter.                         *)
LEMMA WrapTyped ==
  ASSUME NEW n \in Token
  PROVE  (n - 1) % TOKEN_MOD \in Token /\ (n + 1) % TOKEN_MOD \in Token
  BY TokenFacts DEF Token

(* A count below the width is stored as it is.                              *)
LEMMA ModSmall ==
  ASSUME NEW n \in 0 .. TOKEN_MOD - 1
  PROVE  n % TOKEN_MOD = n
  BY TokenFacts

(* saturating_sub never goes below zero.                                    *)
LEMMA MinusTyped ==
  ASSUME NEW a \in 0 .. MaxTokens, NEW b \in Nat
  PROVE  Minus(a, b) \in 0 .. MaxTokens
  BY TokenFacts DEF Minus

-----------------------------------------------------------------------------
(* Type correctness.                                                        *)

(* The manager reads a report only of a client it has matched.              *)
ReadingInv == mpc = "agg_read" => sample.of \in Clients

(* The types, with the client whose report is read.                         *)
Typed == TypeOK /\ ReadingInv

(* The pod before its first batch is well typed.                            *)
LEMMA InitTyped == Init => Typed
  BY TokenFacts, BatchAssumption, FailuresAssumption, NobodyAssumption
  DEF Init, Typed, TypeOK, ReadingInv, States, STATE_IDLE, Batch, Token, Locked, Unlocked,
      ManagerPC, Replacing, Unseen, NoSample

(* A thread in wait_for_token keeps the types.                              *)
LEMMA WorkTyped ==
  ASSUME NEW t \in Threads, Typed, Call(t) \/ Work(t) \/ SpuriousWake(t) PROVE Typed'
  <1> USE ClientOfAssumption DEF Typed, TypeOK, ReadingInv, Goto, Unlock, Forget, C, Unseen,
        shmem, client, thread, manager, ghosts, States, STATE_IDLE, Locked, Unlocked
  <1>1. CASE Call(t) BY <1>1 DEF Call
  <1>2. CASE LoadState(t)
    <2>1. saw' \in [Threads -> [state : States, batch : Batch]] BY <1>2 DEF LoadState
    <2>2. pc' \in [Threads -> Locked \cup Unlocked] BY <1>2 DEF LoadState
    <2>3. mutex' \in [Clients -> Threads \cup {Nobody}] BY <1>2 DEF LoadState
    <2> QED BY <1>2, <2>1, <2>2, <2>3 DEF LoadState
  <1>3. CASE LoadBatch(t)
    <2>1. saw' \in [Threads -> [state : States, batch : Batch]] BY <1>3 DEF LoadBatch
    <2>2. pc' \in [Threads -> Locked \cup Unlocked] BY <1>3 DEF LoadBatch
    <2>3. mutex' \in [Clients -> Threads \cup {Nobody}] BY <1>3 DEF LoadBatch
    <2>4. batch_active' \in [Clients -> BOOLEAN] BY <1>3, Zenon DEF LoadBatch
    <2> QED BY <1>3, <2>1, <2>2, <2>3, <2>4 DEF LoadBatch
  <1>4. CASE LoadTokens(t)
    <2>1. saw' \in [Threads -> [state : States, batch : Batch]]
      BY <1>4, BatchAssumption DEF LoadTokens, Batch
    <2>2. pc' \in [Threads -> Locked \cup Unlocked] BY <1>4 DEF LoadTokens
    <2>3. mutex' \in [Clients -> Threads \cup {Nobody}] BY <1>4 DEF LoadTokens
    <2> QED BY <1>4, <2>1, <2>2, <2>3 DEF LoadTokens
  <1>5. CASE TakeToken(t)
    <2>1. saw' \in [Threads -> [state : States, batch : Batch]]
      BY <1>5, BatchAssumption DEF TakeToken, Batch
    <2>2. pc' \in [Threads -> Locked \cup Unlocked] BY <1>5 DEF TakeToken
    <2>3. mutex' \in [Clients -> Threads \cup {Nobody}] BY <1>5 DEF TakeToken
    <2>4. batch_active' \in [Clients -> BOOLEAN] BY <1>5 DEF TakeToken
    <2>5. current_batch' \in [Clients -> Batch] BY <1>5 DEF TakeToken
    <2>6. granted' \in 0 .. MaxTokens + 2 BY <1>5, TokenFacts DEF TakeToken
    <2>7. tokens_remaining' \in Token BY <1>5, WrapTyped DEF TakeToken
    <2> QED BY <1>5, <2>1, <2>2, <2>3, <2>4, <2>5, <2>6, <2>7 DEF TakeToken
  <1>6. CASE ReturnToken(t) BY <1>6, WrapTyped DEF ReturnToken
  <1>7. CASE NotifyManager(t) BY <1>7 DEF NotifyManager
  <1>8. CASE StoreStart(t) BY <1>8, BatchAssumption DEF StoreStart, Batch
  <1>9. CASE StoreDuration(t) BY <1>9, BatchAssumption DEF StoreDuration, Batch
  <1>10. CASE StoreReportBatch(t) BY <1>10 DEF StoreReportBatch
  <1>11. CASE CountReport(t) BY <1>11 DEF CountReport
  <1>12. CASE FutexWait(t) BY <1>12, BatchAssumption DEF FutexWait, Batch
  <1>13. CASE SpuriousWake(t) BY <1>13 DEF SpuriousWake
  <1> QED BY <1>1, <1>2, <1>3, <1>4, <1>5, <1>6, <1>7, <1>8, <1>9, <1>10, <1>11, <1>12,
             <1>13 DEF Work

(* So does the manager in its round.                                        *)
LEMMA ManageTyped == ASSUME Typed, Manage PROVE Typed'
  <1>0. Minus(plan, tokens_remaining) \in 0 .. MaxTokens
    <2>1. plan \in 0 .. MaxTokens /\ tokens_remaining \in Nat
      BY TokenFacts DEF Typed, TypeOK, Token
    <2> QED BY <2>1, MinusTyped
  <1> USE DEF Typed, TypeOK, ReadingInv, MGoto, shmem, client, thread, manager, ghosts,
        ManagerPC, Replacing, Starting, Measuring, wake_all, Locked, Unlocked
  <1>1. CASE StoreBatchId BY <1>1, BatchAssumption, TokenFacts DEF StoreBatchId, Batch
  <1>2. CASE FillBucket BY <1>2, TokenFacts DEF FillBucket, Token
  <1>3. CASE ResetActive BY <1>3 DEF ResetActive
  <1>4. CASE ResetReported BY <1>4 DEF ResetReported
  <1>5. CASE StoreRunning BY <1>5 DEF StoreRunning, States
  <1>6. CASE WakeRunning BY <1>6 DEF WakeRunning
  <1>7. CASE BatchSpent BY <1>7, TokenFacts DEF BatchSpent
  <1>8. CASE BatchTimeout BY <1>0, <1>8 DEF BatchTimeout
  <1>9. CASE CaptureConsumed BY <1>0, <1>9 DEF CaptureConsumed
  <1>10. CASE EmptyBucket BY <1>10, TokenFacts DEF EmptyBucket, Token
  <1>11. CASE StoreMeasuring BY <1>11 DEF StoreMeasuring, States
  <1>12. CASE WakeMeasuring BY <1>12 DEF WakeMeasuring
  <1>13. CASE LoadActive BY <1>13 DEF LoadActive
  <1>14. CASE ReportsDone BY <1>14 DEF ReportsDone
  <1>15. CASE GraceOver BY <1>15 DEF GraceOver
  <1>16. CASE PollAgain BY <1>16 DEF PollAgain
  <1>17. ASSUME NEW c \in Clients, MatchReport(c) PROVE Typed' BY <1>17 DEF MatchReport
  <1>18. CASE ReadReport BY <1>18 DEF ReadReport
  <1>19. CASE StoreIdle
    BY <1>19, BatchAssumption, TokenFacts DEF StoreIdle, States, NoSample, Batch
  <1> QED BY <1>1, <1>2, <1>3, <1>4, <1>5, <1>6, <1>7, <1>8, <1>9, <1>10, <1>11, <1>12,
             <1>13, <1>14, <1>15, <1>16, <1>17, <1>18, <1>19 DEF Manage

(* And the deaths of processes and managers.                                *)
LEMMA FailureTyped ==
  ASSUME Typed, ManagerDies \/ TakeOver \/ \E c \in Clients : ProcessDies(c) PROVE Typed'
  <1> USE BatchAssumption, FailuresAssumption, TokenFacts
      DEF Typed, TypeOK, ReadingInv, shmem, client, thread, manager, ghosts, Locked, Unlocked
  <1>1. ASSUME NEW c \in Clients, ProcessDies(c) PROVE Typed' BY <1>1 DEF ProcessDies
  <1>2. CASE ManagerDies \/ TakeOver
    BY <1>2 DEF ManagerDies, TakeOver, StoreIdleFirst, WakeFirst, MGoto, wake_all, NoSample,
         States, STATE_IDLE, ManagerPC, Replacing, Batch
  <1> QED BY <1>1, <1>2

(* Every step keeps the types.                                              *)
LEMMA NextTyped == Typed /\ [Next]_vars => Typed'
  <1> SUFFICES ASSUME Typed, [Next]_vars PROVE Typed'
    OBVIOUS
  <1>1. CASE UNCHANGED vars
    BY <1>1 DEF vars, shmem, client, thread, manager, ghosts, Typed, TypeOK, ReadingInv
  <1> QED BY <1>1, WorkTyped, ManageTyped, FailureTyped DEF Next

(* Every variable of a pod's batches keeps its type: the bucket its width,  *)
(* and what the manager charges the plan's bounds.                          *)
THEOREM TypeCorrect == Spec => []TypeOK
  <1>1. Typed => TypeOK BY DEF Typed
  <1> QED BY <1>1, InitTyped, NextTyped, PTL DEF Spec

-----------------------------------------------------------------------------
(* Nobody sleeps through a batch.                                           *)

(* A thread on its way to the futex has not seen RUNNING.                   *)
SleepInv ==
  \A t \in Threads :
    pc[t] \in {"futex", "dur", "rep", "count"} => saw[t].state # STATE_RUNNING

(* The inductive invariant of NoLostWakeup.                                 *)
Awake == SleepInv /\ NoLostWakeup

(* A worker's step keeps it: futex::wait compares the state once more.      *)
LEMMA WorkAwake ==
  ASSUME NEW t \in Threads, Typed, Awake, Call(t) \/ Work(t) \/ SpuriousWake(t) PROVE Awake'
  <1> USE DEF Awake, SleepInv, NoLostWakeup, Typed, TypeOK, Goto, Unlock, shmem, client,
        manager, ghosts
  <1>0. STATE_RUNNING # STATE_IDLE /\ STATE_RUNNING # STATE_MEASURING
    BY DEF STATE_RUNNING, STATE_IDLE, STATE_MEASURING
  <1>1. CASE Call(t) BY <1>1 DEF Call
  <1>2. CASE LoadState(t) BY <1>2 DEF LoadState
  <1>3. CASE LoadBatch(t) BY <1>0, <1>3 DEF LoadBatch
  <1>4. CASE LoadTokens(t) BY <1>4 DEF LoadTokens, Forget
  <1>5. CASE TakeToken(t) BY <1>5 DEF TakeToken, Forget
  <1>6. CASE ReturnToken(t) \/ NotifyManager(t) \/ StoreStart(t)
    BY <1>6 DEF ReturnToken, NotifyManager, StoreStart, Forget
  <1>7. CASE StoreDuration(t) \/ StoreReportBatch(t) \/ CountReport(t)
    BY <1>7 DEF StoreDuration, StoreReportBatch, CountReport
  <1>8. CASE FutexWait(t) BY <1>8 DEF FutexWait, Forget
  <1>9. CASE SpuriousWake(t) BY <1>9 DEF SpuriousWake
  <1> QED BY <1>1, <1>2, <1>3, <1>4, <1>5, <1>6, <1>7, <1>8, <1>9 DEF Work

(* A manager's step keeps it: the only store of RUNNING is followed by the  *)
(* wake-up before anything else.                                            *)
LEMMA ManageAwake == ASSUME Typed, Awake, Manage PROVE Awake'
  <1> USE DEF Awake, SleepInv, NoLostWakeup, Typed, TypeOK, MGoto, shmem, client, thread,
        manager, ghosts
  <1>0. STATE_RUNNING # STATE_IDLE /\ STATE_RUNNING # STATE_MEASURING
    BY DEF STATE_RUNNING, STATE_IDLE, STATE_MEASURING
  <1>1. CASE WakeRunning \/ WakeMeasuring BY <1>1 DEF WakeRunning, WakeMeasuring, wake_all
  <1>2. CASE StoreRunning BY <1>2 DEF StoreRunning
  <1>3. CASE StoreMeasuring \/ StoreIdle BY <1>0, <1>3 DEF StoreMeasuring, StoreIdle
  <1>4. CASE StoreBatchId \/ FillBucket \/ ResetActive \/ ResetReported \/ EmptyBucket
    BY <1>4 DEF StoreBatchId, FillBucket, ResetActive, ResetReported, EmptyBucket
  <1>5. CASE BatchSpent \/ BatchTimeout \/ CaptureConsumed \/ LoadActive \/ ReportsDone
    BY <1>5 DEF BatchSpent, BatchTimeout, CaptureConsumed, LoadActive, ReportsDone
  <1>6. CASE GraceOver \/ PollAgain \/ ReadReport \/ \E c \in Clients : MatchReport(c)
    BY <1>6 DEF GraceOver, PollAgain, ReadReport, MatchReport
  <1> QED BY <1>1, <1>2, <1>3, <1>4, <1>5, <1>6 DEF Manage

(* So does every step.                                                      *)
LEMMA NextAwake == Typed /\ Awake /\ [Next]_vars => Awake'
  <1> SUFFICES ASSUME Typed, Awake, [Next]_vars PROVE Awake'
    OBVIOUS
  <1> USE DEF SleepInv, NoLostWakeup, shmem, client, thread, manager, ghosts
  <1>1. CASE UNCHANGED vars BY <1>1 DEF vars, Awake
  <1>2. ASSUME NEW c \in Clients, ProcessDies(c) PROVE Awake'
    BY <1>2 DEF ProcessDies, Awake, Typed, TypeOK
  <1>3. CASE ManagerDies \/ TakeOver
    BY <1>3 DEF ManagerDies, TakeOver, StoreIdleFirst, WakeFirst, MGoto, wake_all, Awake,
         STATE_IDLE, STATE_RUNNING, Typed, TypeOK
  <1> QED BY <1>1, <1>2, <1>3, WorkAwake, ManageAwake DEF Next

(* While a batch runs no worker sleeps in the futex, save for the instant   *)
(* before the wake-up of start_local_batch, whoever dies and for any number *)
(* of processes and threads.                                                *)
THEOREM NobodyMissesABatch == Spec => []NoLostWakeup
  <1>1. Init => Typed /\ Awake
    BY InitTyped DEF Init, Awake, SleepInv, NoLostWakeup
  <1>2. Typed /\ Awake /\ [Next]_vars => (Typed /\ Awake)' BY NextTyped, NextAwake
  <1>3. Awake => NoLostWakeup BY DEF Awake
  <1> QED BY <1>1, <1>2, <1>3, PTL DEF Spec

-----------------------------------------------------------------------------
(* What the manager averages was measured in the batch it is averaged for.  *)

(* The mutex of a client is held by the thread that is inside it; the       *)
(* threads of a process die together.                                       *)
LockInv ==
  /\ \A t \in Threads : pc[t] \in Locked => mutex[C(t)] = t
  /\ \A t, u \in Threads : C(t) = C(u) /\ pc[t] = "gone" => pc[u] = "gone"

(* The types the arithmetic of batch numbers needs.                         *)
LEMMA BatchTypes ==
  ASSUME Typed
  PROVE  /\ batch_id \in Nat /\ current_batch \in [Clients -> Nat]
         /\ reports \in [Clients -> [batch_id : Nat, cpu_start : Nat, duration : Nat]]
         /\ saw \in [Threads -> [state : States, batch : Nat]]
         /\ pc \in [Threads -> Locked \cup Unlocked]
         /\ batch_active \in [Clients -> BOOLEAN]
         /\ mutex \in [Clients -> Threads \cup {Nobody}]
         /\ \A t \in Threads : C(t) \in Clients
  BY BatchAssumption, ClientOfAssumption DEF Typed, TypeOK, Batch, C

(* A thread may move while it keeps, takes or gives back its client's       *)
(* mutex.                                                                   *)
LEMMA LockStep ==
  ASSUME NEW t \in Threads, Typed, LockInv, NEW from, NEW to,
         Goto(t, from, to), from # "gone", to # "gone",
         \/ UNCHANGED mutex /\ (to \in Locked => from \in Locked)
         \/ /\ mutex' = [mutex EXCEPT ![C(t)] = Nobody]
            /\ from \in Locked /\ to \notin Locked
         \/ mutex[C(t)] = Nobody /\ mutex' = [mutex EXCEPT ![C(t)] = t]
  PROVE  LockInv'
  <1> USE BatchTypes, NobodyAssumption DEF Goto
  <1>1. ASSUME NEW u \in Threads, pc'[u] \in Locked PROVE mutex'[C(u)] = u
    <2>1. u # t => pc[u] \in Locked /\ mutex[C(u)] = u BY <1>1 DEF LockInv
    <2>2. from \in Locked => mutex[C(t)] = t BY DEF LockInv
    <2> QED BY <1>1, <2>1, <2>2
  <1>2. \A u \in Threads : pc'[u] = "gone" <=> pc[u] = "gone" OBVIOUS
  <1> QED BY <1>1, <1>2 DEF LockInv

(* A worker's step respects the mutex.                                      *)
LEMMA WorkLock ==
  ASSUME NEW t \in Threads, Typed, LockInv, Call(t) \/ Work(t) \/ SpuriousWake(t)
  PROVE  LockInv'
  <1> USE LockStep DEF Unlock, client, Locked
  <1>1. CASE Call(t) \/ SpuriousWake(t) \/ FutexWait(t)
    BY <1>1 DEF Call, SpuriousWake, FutexWait
  <1>2. CASE LoadState(t) BY <1>2 DEF LoadState
  <1>3. CASE LoadBatch(t) BY <1>3 DEF LoadBatch
  <1>4. CASE LoadTokens(t) BY <1>4 DEF LoadTokens
  <1>5. CASE TakeToken(t) BY <1>5 DEF TakeToken
  <1>6. CASE ReturnToken(t) \/ NotifyManager(t) \/ StoreStart(t)
    BY <1>6 DEF ReturnToken, NotifyManager, StoreStart
  <1>7. CASE StoreDuration(t) \/ StoreReportBatch(t) \/ CountReport(t)
    BY <1>7 DEF StoreDuration, StoreReportBatch, CountReport
  <1> QED BY <1>1, <1>2, <1>3, <1>4, <1>5, <1>6, <1>7 DEF Work

(* The manager takes no mutex: it only wakes sleepers.                      *)
LEMMA ManageFrame ==
  ASSUME Manage
  PROVE  /\ UNCHANGED <<client, saw, reports, failures>>
         /\ UNCHANGED pc \/ wake_all
         /\ UNCHANGED batch_id \/ StoreBatchId
  BY DEF Manage, StoreBatchId, FillBucket, ResetActive, ResetReported, StoreRunning,
    WakeRunning, BatchSpent, BatchTimeout, CaptureConsumed, EmptyBucket, StoreMeasuring,
    WakeMeasuring, LoadActive, ReportsDone, GraceOver, PollAgain, MatchReport, ReadReport,
    StoreIdle, shmem, client, thread, manager, ghosts

(* Nor does a manager that dies and is replaced; its successor starts with  *)
(* nothing to charge.                                                       *)
LEMMA TakeOverFrame ==
  ASSUME ManagerDies \/ TakeOver
  PROVE  /\ UNCHANGED <<client, saw, reports, batch_id, tokens_remaining, plan, quota, granted>>
         /\ UNCHANGED pc \/ wake_all
         /\ mpc' \in {"idle", "t_state", "t_wake"}
         /\ consumed' = 0 \/ (mpc \in {"t_state", "t_wake"} /\ UNCHANGED consumed)
  BY DEF ManagerDies, TakeOver, StoreIdleFirst, WakeFirst, MGoto,
    shmem, client, thread, ghosts

(* Every step respects the mutex.                                           *)
LEMMA NextLock == Typed /\ LockInv /\ [Next]_vars => LockInv'
  <1> SUFFICES ASSUME Typed, LockInv, [Next]_vars PROVE LockInv'
    OBVIOUS
  <1>1. CASE UNCHANGED vars BY <1>1 DEF vars, client, thread, LockInv
  <1>2. CASE Manage
    BY <1>2, ManageFrame DEF client, LockInv, wake_all, Locked, Typed, TypeOK
  <1>3. CASE ManagerDies \/ TakeOver
    BY <1>3, TakeOverFrame DEF client, LockInv, wake_all, Locked, Typed, TypeOK
  <1>4. ASSUME NEW c \in Clients, ProcessDies(c) PROVE LockInv'
    BY <1>4 DEF ProcessDies, client, LockInv, Locked, Typed, TypeOK
  <1> QED BY <1>1, <1>2, <1>3, <1>4, WorkLock DEF Next

(* Batch numbers only grow, from the shared one down to the report's.       *)
OrderInv ==
  /\ \A c \in Clients :
       reports[c].batch_id <= current_batch[c] /\ current_batch[c] <= batch_id
  /\ \A t \in Threads : saw[t].batch <= batch_id
  /\ \A t \in Threads :
       pc[t] \in {"tokens", "sub"} => current_batch[C(t)] <= saw[t].batch

(* What a client has stored belongs to its current batch: the start, once   *)
(* it is past StoreStart, and the duration, when it is about to vouch for   *)
(* both with the batch number.                                              *)
MatchedInv ==
  \A c \in Clients :
    reports[c].batch_id = batch_id =>
      reports[c].cpu_start = batch_id /\ reports[c].duration \in {0, batch_id}

(* An active client has stored its start, or is about to.                   *)
StartedInv ==
  \A c \in Clients :
    batch_active[c] => \/ reports[c].cpu_start = current_batch[c]
                       \/ \E t \in Threads : C(t) = c /\ pc[t] \in {"active", "start", "gone"}

(* What a thread is about to report is about the current batch.             *)
StoringInv ==
  \A t \in Threads :
    /\ pc[t] \in {"dur", "rep", "count"} => reports[C(t)].cpu_start = current_batch[C(t)]
    /\ pc[t] = "rep" => reports[C(t)].duration \in {0, current_batch[C(t)]}

(* The reports of the clients.                                              *)
ReportInv == MatchedInv /\ StartedInv /\ StoringInv

(* A worker's step keeps the order.                                         *)
LEMMA WorkOrder ==
  ASSUME NEW t \in Threads, Typed, LockInv, OrderInv, Call(t) \/ Work(t) \/ SpuriousWake(t)
  PROVE  OrderInv'
  <1> USE BatchTypes DEF OrderInv, Goto, Unlock, shmem, client, manager, ghosts
  <1>1. CASE Call(t) \/ SpuriousWake(t) BY <1>1 DEF Call, SpuriousWake
  <1>2. CASE LoadState(t) BY <1>2 DEF LoadState
  <1>3. CASE LoadBatch(t) BY <1>3 DEF LoadBatch
  <1>4. CASE LoadTokens(t) BY <1>4 DEF LoadTokens, Forget, Unseen
  <1>5. CASE TakeToken(t)
    <2>1. pc[t] = "sub" /\ mutex[C(t)] = t BY <1>5 DEF TakeToken, LockInv, Locked
    <2>2. CASE UNCHANGED current_batch
      <3>1. \A u \in Threads : pc'[u] \in {"tokens", "sub"}
              => pc[u] \in {"tokens", "sub"} /\ saw'[u] = saw[u]
        BY <1>5, <2>1 DEF TakeToken, Forget
      <3>2. \A u \in Threads : saw'[u].batch \in {0, saw[u].batch}
        BY <1>5 DEF TakeToken, Forget, Unseen
      <3>3. UNCHANGED <<reports, batch_id>> BY <1>5 DEF TakeToken
      <3> QED BY <2>2, <3>1, <3>2, <3>3
    <2>3. CASE current_batch' = [current_batch EXCEPT ![C(t)] = saw[t].batch] /\ UNCHANGED saw
      <3>1. \A u \in Threads : pc'[u] \in {"tokens", "sub"}
              => pc[u] \in {"tokens", "sub"} /\ u # t /\ mutex[C(u)] = u
        BY <1>5, <2>3, <2>1 DEF TakeToken, LockInv, Locked
      <3>2. \A u \in Threads : pc'[u] \in {"tokens", "sub"} => C(u) # C(t)
        BY <2>1, <3>1
      <3> QED BY <1>5, <2>1, <2>3, <3>1, <3>2 DEF TakeToken
    <2> QED BY <1>5, <2>2, <2>3 DEF TakeToken
  <1>6. CASE ReturnToken(t) \/ NotifyManager(t) BY <1>6 DEF ReturnToken, NotifyManager
  <1>7. CASE StoreStart(t) BY <1>7 DEF StoreStart, Forget, Unseen
  <1>8. CASE StoreDuration(t) BY <1>8 DEF StoreDuration
  <1>9. CASE StoreReportBatch(t)
    <2>1. \A c \in Clients : reports'[c].batch_id \in {reports[c].batch_id, current_batch[c]}
      BY <1>9 DEF StoreReportBatch
    <2> QED BY <1>9, <2>1 DEF StoreReportBatch
  <1>11. CASE CountReport(t) BY <1>11 DEF CountReport
  <1>10. CASE FutexWait(t) BY <1>10 DEF FutexWait, Forget, Unseen
  <1> QED BY <1>1, <1>2, <1>3, <1>4, <1>5, <1>6, <1>7, <1>8, <1>9, <1>10, <1>11 DEF Work

(* Every step keeps it: only the manager writes batch_id, and only upwards. *)
LEMMA NextOrder == Typed /\ LockInv /\ OrderInv /\ [Next]_vars => OrderInv'
  <1> SUFFICES ASSUME Typed, LockInv, OrderInv, [Next]_vars PROVE OrderInv'
    OBVIOUS
  <1> USE BatchTypes DEF OrderInv, shmem, client, thread
  <1>1. CASE UNCHANGED vars BY <1>1 DEF vars
  <1>2. CASE Manage
    <2>1. batch_id' \in Nat /\ batch_id <= batch_id'
      BY <1>2, ManageFrame DEF StoreBatchId
    <2>2. \A t \in Threads : pc'[t] \in {"tokens", "sub"} => pc[t] \in {"tokens", "sub"}
      BY <1>2, ManageFrame DEF wake_all
    <2> QED BY <1>2, <2>1, <2>2, ManageFrame
  <1>3. CASE ManagerDies \/ TakeOver BY <1>3, TakeOverFrame DEF wake_all
  <1>4. ASSUME NEW c \in Clients, ProcessDies(c) PROVE OrderInv' BY <1>4 DEF ProcessDies
  <1> QED BY <1>1, <1>2, <1>3, <1>4, WorkOrder DEF Next

(* A client whose report is of the shared batch is itself in that batch.    *)
LEMMA MatchedCurrent ==
  ASSUME Typed, OrderInv, NEW c \in Clients, reports[c].batch_id = batch_id
  PROVE  current_batch[c] = batch_id
  <1>1. batch_id \in Nat /\ current_batch[c] \in Nat BY BatchTypes
  <1>2. batch_id <= current_batch[c] /\ current_batch[c] <= batch_id BY DEF OrderInv
  <1> QED BY <1>1, <1>2

(* A worker's step keeps the report consistent: between the stores of a     *)
(* report no other thread of the process gets in.                           *)
LEMMA WorkReport ==
  ASSUME NEW t \in Threads, Typed, LockInv, OrderInv, ReportInv,
         Call(t) \/ Work(t) \/ SpuriousWake(t)
  PROVE  ReportInv'
  <1> USE BatchTypes DEF Goto, Unlock, shmem, client, manager, ghosts
  <1>t. \A u \in Threads : C(u) \in Clients BY BatchTypes
  <1>0. \A u \in Threads : C(u) = C(t) /\ pc[u] \in Locked /\ pc[t] \in Locked => u = t
    BY DEF LockInv
  <1>1. CASE Call(t) \/ SpuriousWake(t) \/ FutexWait(t)
    BY <1>1 DEF Call, SpuriousWake, FutexWait, ReportInv, MatchedInv, StartedInv, StoringInv
  <1>2. CASE LoadState(t) BY <1>2 DEF LoadState, ReportInv, MatchedInv, StartedInv, StoringInv
  <1>3. CASE LoadBatch(t)
    <2>1. pc[t] = "batch" /\ batch_id' = batch_id /\ UNCHANGED <<reports, current_batch>>
      BY <1>3 DEF LoadBatch
    <2>2. batch_active[C(t)] => reports[C(t)].cpu_start = current_batch[C(t)]
      BY <1>0, <2>1 DEF ReportInv, MatchedInv, StartedInv, StoringInv, LockInv, Locked
    <2>3. \A c \in Clients : batch_active'[c] => batch_active[c]
      BY <1>3 DEF LoadBatch
    <2>4. \A u \in Threads : pc'[u] # pc[u] => u = t
      BY <1>3 DEF LoadBatch
    <2>5. pc'[t] \in {"tokens", "futex"} \/ (pc'[t] = "dur" /\ batch_active[C(t)])
      BY <1>3 DEF LoadBatch
    <2> QED BY <2>1, <2>2, <2>3, <2>4, <2>5 DEF ReportInv, MatchedInv, StartedInv, StoringInv
  <1>4. CASE LoadTokens(t) BY <1>4 DEF LoadTokens, ReportInv, MatchedInv, StartedInv, StoringInv
  <1>5. CASE TakeToken(t)
    <2>1. pc[t] = "sub" /\ UNCHANGED <<reports, batch_id>> BY <1>5 DEF TakeToken
    <2>2. CASE UNCHANGED <<batch_active, current_batch>>
      <3>1. \A u \in Threads :
              /\ pc'[u] \in {"active", "start", "dur", "rep", "count"} => pc'[u] = pc[u]
              /\ pc[u] \in {"active", "start", "gone"} => pc'[u] = pc[u]
        BY <1>5, <2>1, <2>2 DEF TakeToken
      <3> QED BY <2>1, <2>2, <3>1 DEF ReportInv, MatchedInv, StartedInv, StoringInv
    <2>3. CASE /\ pc' = [pc EXCEPT ![t] = "active"]
               /\ batch_active' = [batch_active EXCEPT ![C(t)] = TRUE]
               /\ current_batch' = [current_batch EXCEPT ![C(t)] = saw[t].batch]
      <3>1. \A u \in Threads : pc'[u] \in {"dur", "rep", "count"}
              => pc[u] = pc'[u] /\ C(u) # C(t)
        BY <1>0, <2>1, <2>3 DEF Locked
      <3>2. \A u \in Threads : u # t => pc'[u] = pc[u]
        BY <2>3
      <3> QED BY <2>1, <2>3, <3>1, <3>2 DEF ReportInv, MatchedInv, StartedInv, StoringInv
    <2> QED BY <1>5, <2>2, <2>3 DEF TakeToken
  <1>6. CASE ReturnToken(t) BY <1>6 DEF ReturnToken, ReportInv, MatchedInv, StartedInv, StoringInv
  <1>7. CASE NotifyManager(t)
    <2>1. \A u \in Threads : /\ pc'[u] \in {"dur", "rep", "count"} => pc'[u] = pc[u]
                             /\ pc[u] \in {"active", "start", "gone"}
                                  => pc'[u] \in {"active", "start", "gone"}
      BY <1>7 DEF NotifyManager
    <2>2. UNCHANGED <<reports, batch_id, current_batch, batch_active>>
      BY <1>7 DEF NotifyManager
    <2> HIDE BatchTypes
    <2>3. StartedInv' BY <1>t, <2>1, <2>2 DEF ReportInv, StartedInv
    <2> QED BY <1>t, <2>1, <2>2, <2>3 DEF ReportInv, MatchedInv, StoringInv
  <1>8. CASE StoreStart(t)
    <2>1. pc[t] = "start" /\ UNCHANGED <<batch_id, current_batch, batch_active>>
      BY <1>8 DEF StoreStart
    <2>2. \A c \in Clients :
            /\ c = C(t) => reports'[c].cpu_start = current_batch[c]
            /\ c # C(t) => reports'[c].cpu_start = reports[c].cpu_start
            /\ reports'[c].batch_id = reports[c].batch_id
            /\ reports'[c].duration = reports[c].duration
      BY <1>8 DEF StoreStart
    <2>3. pc' = [pc EXCEPT ![t] = "app"] BY <1>8 DEF StoreStart
    <2>4. \A u \in Threads : /\ pc'[u] \in {"dur", "rep", "count"} => pc'[u] = pc[u]
                             /\ u # t => pc'[u] = pc[u]
      BY <2>3
    <2>5. reports[C(t)].batch_id = batch_id => current_batch[C(t)] = batch_id
      BY <1>t, MatchedCurrent
    <2> HIDE BatchTypes
    <2>6. MatchedInv' BY <1>t, <2>1, <2>2, <2>5 DEF ReportInv, MatchedInv
    <2>7. StartedInv' BY <1>t, <2>1, <2>2, <2>4 DEF ReportInv, StartedInv
    <2>8. StoringInv' BY <1>t, <2>1, <2>2, <2>4 DEF ReportInv, StoringInv
    <2> QED BY <2>6, <2>7, <2>8 DEF ReportInv
  <1>9. CASE StoreDuration(t)
    <2>1. pc[t] = "dur" /\ UNCHANGED <<batch_id, current_batch, batch_active>>
      BY <1>9 DEF StoreDuration
    <2>2. PICK d \in {0, current_batch[C(t)]} :
            reports' = [reports EXCEPT ![C(t)].duration = d]
      BY <1>9 DEF StoreDuration
    <2>3. \A c \in Clients :
            /\ c = C(t) => reports'[c].duration \in {0, current_batch[c]}
            /\ c # C(t) => reports'[c].duration = reports[c].duration
            /\ reports'[c].batch_id = reports[c].batch_id
            /\ reports'[c].cpu_start = reports[c].cpu_start
      BY <2>2
    <2>4. pc' = [pc EXCEPT ![t] = "rep"] BY <1>9 DEF StoreDuration
    <2>5. reports[C(t)].batch_id = batch_id => current_batch[C(t)] = batch_id
      BY <1>t, MatchedCurrent
    <2> HIDE BatchTypes
    <2>6. MatchedInv' BY <1>t, <2>1, <2>3, <2>5 DEF ReportInv, MatchedInv
    <2>7. StartedInv' BY <1>t, <2>1, <2>3, <2>4 DEF ReportInv, StartedInv
    <2>8. StoringInv' BY <1>t, <2>1, <2>3, <2>4 DEF ReportInv, StoringInv
    <2> QED BY <2>6, <2>7, <2>8 DEF ReportInv
  <1>10. CASE StoreReportBatch(t)
    <2>1. pc[t] = "rep" /\ UNCHANGED <<batch_id, current_batch, batch_active>>
      BY <1>10 DEF StoreReportBatch
    <2>2. \A c \in Clients :
            /\ c = C(t) => reports'[c].batch_id = current_batch[c]
            /\ c # C(t) => reports'[c].batch_id = reports[c].batch_id
            /\ reports'[c].duration = reports[c].duration
            /\ reports'[c].cpu_start = reports[c].cpu_start
      BY <1>10 DEF StoreReportBatch
    <2>3. pc' = [pc EXCEPT ![t] = "count"] BY <1>10 DEF StoreReportBatch
    <2>4. /\ \A u \in Threads : u # t => pc'[u] = pc[u]
          /\ pc'[t] = "count"
      BY <2>3
    <2> HIDE BatchTypes
    <2>6. MatchedInv' BY <1>t, <2>1, <2>2 DEF ReportInv, MatchedInv, StoringInv
    <2>7. StartedInv' BY <1>t, <2>1, <2>2, <2>4 DEF ReportInv, StartedInv
    <2>8. StoringInv' BY <1>t, <2>1, <2>2, <2>4 DEF ReportInv, StoringInv
    <2> QED BY <2>6, <2>7, <2>8 DEF ReportInv
  <1>11. CASE CountReport(t)
    <2>1. /\ pc[t] = "count" /\ pc' = [pc EXCEPT ![t] = "futex"]
          /\ UNCHANGED <<reports, batch_id, current_batch>>
          /\ batch_active' = [batch_active EXCEPT ![C(t)] = FALSE]
      BY <1>11 DEF CountReport
    <2> QED BY <2>1 DEF ReportInv, MatchedInv, StartedInv, StoringInv
  <1> QED BY <1>1, <1>2, <1>3, <1>4, <1>5, <1>6, <1>7, <1>8, <1>9, <1>10, <1>11 DEF Work

(* Every step keeps it: a new batch number makes all reports old.           *)
LEMMA NextReport ==
  Typed /\ LockInv /\ OrderInv /\ ReportInv /\ [Next]_vars => ReportInv'
  <1> SUFFICES ASSUME Typed, LockInv, OrderInv, ReportInv, [Next]_vars PROVE ReportInv'
    OBVIOUS
  <1> USE BatchTypes DEF shmem, client, thread
  <1>1. CASE UNCHANGED vars BY <1>1 DEF vars, ReportInv, MatchedInv, StartedInv, StoringInv
  <1>2. CASE Manage
    <2>1. \A t \in Threads : /\ pc'[t] \in {"dur", "rep", "count"} => pc'[t] = pc[t]
                             /\ pc[t] \in {"active", "start", "gone"} => pc'[t] = pc[t]
      BY <1>2, ManageFrame DEF wake_all
    <2>2. UNCHANGED batch_id \/ batch_id' = batch_id + 1
      BY <1>2, ManageFrame DEF StoreBatchId
    <2>3. \A c \in Clients : reports[c].batch_id \in Nat /\ reports[c].batch_id <= batch_id
      BY DEF OrderInv
    <2>7. UNCHANGED <<reports, current_batch, batch_active>> BY <1>2, ManageFrame
    <2>8. batch_id \in Nat OBVIOUS
    <2> HIDE BatchTypes
    <2>4. MatchedInv'
      <3>1. CASE UNCHANGED batch_id BY <2>7, <3>1 DEF ReportInv, MatchedInv
      <3>2. CASE batch_id' = batch_id + 1 BY <2>3, <2>7, <2>8, <3>2 DEF MatchedInv
      <3> QED BY <2>2, <3>1, <3>2
    <2>5. StartedInv' BY <2>1, <2>7 DEF ReportInv, StartedInv
    <2>6. StoringInv' BY <2>1, <2>7 DEF ReportInv, StoringInv
    <2> QED BY <2>4, <2>5, <2>6 DEF ReportInv
  <1>3. CASE ManagerDies \/ TakeOver
    BY <1>3, TakeOverFrame DEF wake_all, ReportInv, MatchedInv, StartedInv, StoringInv
  <1>4. ASSUME NEW d \in Clients, ProcessDies(d) PROVE ReportInv'
    <2>1. /\ pc' = [t \in Threads |-> IF C(t) = d THEN "gone" ELSE pc[t]]
          /\ UNCHANGED <<reports, batch_id, current_batch, batch_active>>
      BY <1>4 DEF ProcessDies
    <2> QED BY <2>1 DEF ReportInv, MatchedInv, StartedInv, StoringInv
  <1> QED BY <1>1, <1>2, <1>3, <1>4, WorkReport DEF Next

(* The manager looks at a report of this batch, and at no report before it  *)
(* aggregates.                                                              *)
SampleInv ==
  /\ mpc = "agg_read" => reports[sample.of].batch_id = batch_id
  /\ mpc \notin {"agg", "agg_read"} => sample.of = Nobody
  /\ SampleOfThisBatch

(* A report the manager has matched stays one of this batch.                *)
LEMMA ReportStays ==
  ASSUME NEW t \in Threads, Typed, OrderInv, Call(t) \/ Work(t) \/ SpuriousWake(t),
         NEW c \in Clients, reports[c].batch_id = batch_id
  PROVE  reports'[c].batch_id = batch_id /\ UNCHANGED <<batch_id, manager>>
  <1> USE BatchTypes DEF Goto, Unlock, shmem, client, manager, ghosts
  <1>1. current_batch[c] = batch_id BY DEF OrderInv
  <1>2. CASE StoreReportBatch(t) BY <1>1, <1>2 DEF StoreReportBatch
  <1>3. CASE StoreStart(t) BY <1>3 DEF StoreStart
  <1>6. CASE StoreDuration(t)
    <2>1. PICK d \in {0, current_batch[C(t)]} :
            reports' = [reports EXCEPT ![C(t)].duration = d]
      BY <1>6 DEF StoreDuration
    <2> QED BY <1>6, <2>1 DEF StoreDuration
  <1>4. CASE Call(t) \/ SpuriousWake(t) \/ FutexWait(t) \/ LoadState(t) \/ LoadBatch(t)
    BY <1>4 DEF Call, SpuriousWake, FutexWait, LoadState, LoadBatch
  <1>5. CASE LoadTokens(t) \/ TakeToken(t) \/ ReturnToken(t) \/ NotifyManager(t) \/ CountReport(t)
    BY <1>5 DEF LoadTokens, TakeToken, ReturnToken, NotifyManager, CountReport
  <1> QED BY <1>2, <1>3, <1>4, <1>5, <1>6 DEF Work

(* A worker's step does not touch what the manager has read.                *)
LEMMA WorkManager ==
  ASSUME NEW t \in Threads, Call(t) \/ Work(t) \/ SpuriousWake(t)
  PROVE  UNCHANGED <<state, batch_id, manager, quota, failures>>
  BY DEF Work, Call, SpuriousWake, LoadState, LoadBatch, LoadTokens, TakeToken, ReturnToken,
    NotifyManager, StoreStart, StoreDuration, StoreReportBatch, CountReport, FutexWait, shmem,
    manager, ghosts

(* The manager's own steps keep the sample.                                 *)
LEMMA ManageSample == ASSUME Typed, ReportInv, SampleInv, Manage PROVE SampleInv'
  <1> USE NobodyAssumption DEF SampleInv, SampleOfThisBatch, Typed, TypeOK, ReadingInv, MGoto, shmem,
        client, thread, manager, ghosts
  <1>1. CASE ReadReport BY <1>1 DEF ReadReport, ReportInv, MatchedInv, StartedInv, StoringInv
  <1>2. ASSUME NEW c \in Clients, MatchReport(c) PROVE SampleInv' BY <1>2 DEF MatchReport
  <1>3. CASE StoreIdle BY <1>3 DEF StoreIdle, NoSample
  <1>4. CASE ReportsDone \/ GraceOver \/ PollAgain \/ LoadActive
    BY <1>4 DEF ReportsDone, GraceOver, PollAgain, LoadActive
  <1>5. CASE StoreBatchId \/ FillBucket \/ ResetActive \/ ResetReported \/ EmptyBucket
    BY <1>5 DEF StoreBatchId, FillBucket, ResetActive, ResetReported, EmptyBucket
  <1>6. CASE StoreRunning \/ WakeRunning \/ StoreMeasuring \/ WakeMeasuring
    BY <1>6 DEF StoreRunning, WakeRunning, StoreMeasuring, WakeMeasuring
  <1>7. CASE BatchSpent \/ BatchTimeout \/ CaptureConsumed
    BY <1>7 DEF BatchSpent, BatchTimeout, CaptureConsumed
  <1> QED BY <1>1, <1>2, <1>3, <1>4, <1>5, <1>6, <1>7 DEF Manage

(* The inductive invariant of SampleOfThisBatch.                            *)
Reported == LockInv /\ OrderInv /\ ReportInv /\ SampleInv

(* Every step keeps the sample and what it rests on.                        *)
LEMMA NextReported == Typed /\ Reported /\ [Next]_vars => Reported'
  <1> SUFFICES ASSUME Typed, Reported, [Next]_vars PROVE Reported'
    OBVIOUS
  <1>0. LockInv' /\ OrderInv' /\ ReportInv'
    BY NextLock, NextOrder, NextReport DEF Reported
  <1> USE DEF Reported, SampleInv, SampleOfThisBatch
  <1>1. CASE UNCHANGED vars BY <1>0, <1>1 DEF vars, shmem, manager
  <1>2. ASSUME NEW t \in Threads, Call(t) \/ Work(t) \/ SpuriousWake(t) PROVE SampleInv'
    <2>1. UNCHANGED <<batch_id, manager>> BY <1>2, WorkManager
    <2>2. mpc = "agg_read" => reports'[sample.of].batch_id = batch_id
      BY <1>2, ReportStays DEF Typed, ReadingInv
    <2> QED BY <2>1, <2>2 DEF manager
  <1>3. CASE Manage BY <1>0, <1>3, ManageSample
  <1>4. CASE ManagerDies \/ TakeOver BY <1>0, <1>4 DEF ManagerDies, TakeOver, StoreIdleFirst, WakeFirst, MGoto, NoSample
  <1>5. ASSUME NEW c \in Clients, ProcessDies(c) PROVE SampleInv'
    BY <1>5 DEF ProcessDies, shmem, manager
  <1> QED BY <1>0, <1>1, <1>2, <1>3, <1>4, <1>5 DEF Next

(* The start and the duration that aggregate_local_times averages were both *)
(* taken in the batch it is averaging, though a report is three stores that *)
(* may lag behind the batches, for any number of processes and threads and  *)
(* whoever dies.                                                            *)
THEOREM SamplesBelongTogether == Spec => []SampleOfThisBatch
  <1>1. Init => Typed /\ Reported
    <2> SUFFICES ASSUME Init PROVE Typed /\ Reported
      OBVIOUS
    <2>1. Typed BY InitTyped
    <2>2. LockInv /\ SampleInv
      BY DEF Init, LockInv, SampleInv, SampleOfThisBatch, NoSample, Locked
    <2>3. OrderInv /\ ReportInv
      BY <2>1, BatchTypes DEF Init, OrderInv, ReportInv, MatchedInv, StartedInv, StoringInv, Unseen
    <2> QED BY <2>1, <2>2, <2>3 DEF Reported
  <1>2. Typed /\ Reported /\ [Next]_vars => (Typed /\ Reported)' BY NextTyped, NextReported
  <1>3. Reported => SampleOfThisBatch BY DEF Reported, SampleInv
  <1> QED BY <1>1, <1>2, <1>3, PTL DEF Spec

-----------------------------------------------------------------------------
(* What the manager charges was handed out.                                 *)

(* The bucket is filled for a batch and not yet emptied.                    *)
Filled == {"s_active", "s_reported", "s_state", "s_wake", "run", "capture", "zero"}

(* The threads that lost the race and still owe the bucket a token.         *)
Adders == {t \in Threads : pc[t] = "add"}

(* As long as the quota is not used up, every token that left the bucket    *)
(* was handed out, and the tokens still owed cannot make the counter wrap.  *)
BucketInv ==
  /\ tokens_remaining + granted >= quota
  /\ tokens_remaining + granted + Cardinality(Adders) <= quota + Cardinality(Threads)

(* The inductive invariant of NeverOvercharged.                             *)
ChargeInv ==
  /\ mpc \in {"idle", "run"} \cup Starting \cup Replacing => consumed = 0
  /\ mpc \in Filled => plan = quota /\ (granted >= quota \/ BucketInv)
  /\ NeverOvercharged

(* The threads that owe a token are some of the threads.                    *)
LEMMA AddersType ==
  /\ IsFiniteSet(Adders) /\ Cardinality(Adders) \in Nat
  /\ Cardinality(Adders) <= Cardinality(Threads)
  <1>1. Adders \subseteq Threads BY DEF Adders
  <1> QED BY <1>1, ThreadsAssumption, FS_Subset, FS_CardinalityType

(* With fewer threads that owe a token there are fewer tokens owed.         *)
LEMMA AddersLess ==
  ASSUME Adders' \subseteq Adders
  PROVE  Cardinality(Adders') \in Nat /\ Cardinality(Adders') <= Cardinality(Adders)
  BY AddersType, FS_Subset, FS_CardinalityType

(* What a step of a worker may do to the bucket: nothing, take a token that *)
(* is there, lose the race, or return the token.                            *)
LEMMA WorkBucket ==
  ASSUME NEW t \in Threads, Typed, Call(t) \/ Work(t) \/ SpuriousWake(t)
  PROVE  \/ UNCHANGED <<tokens_remaining, granted>> /\ Adders' \subseteq Adders
         \/ /\ tokens_remaining > 0 /\ tokens_remaining' = tokens_remaining - 1
            /\ granted' = IF granted < MaxTokens + 2 THEN granted + 1 ELSE granted
            /\ Adders' \subseteq Adders
         \/ /\ tokens_remaining = 0 /\ UNCHANGED granted
         \/ /\ t \in Adders /\ Adders' = Adders \ {t} /\ UNCHANGED granted
            /\ tokens_remaining' = (tokens_remaining + 1) % TOKEN_MOD
  <1> USE BatchTypes DEF Goto, Unlock, shmem, client, manager, ghosts
  <1>1. CASE TakeToken(t)
    <2>1. CASE tokens_remaining = 0 BY <1>1, <2>1 DEF TakeToken
    <2>2. CASE tokens_remaining > 0
      <3>1. granted' = IF granted < MaxTokens + 2 THEN granted + 1 ELSE granted
        BY <1>1, <2>2 DEF TakeToken
      <3>2. tokens_remaining' = tokens_remaining - 1
        <4>1. tokens_remaining' = (tokens_remaining - 1) % TOKEN_MOD BY <1>1 DEF TakeToken
        <4>2. tokens_remaining \in 1 .. TOKEN_MOD - 1
          BY <2>2, TokenFacts DEF Typed, TypeOK, Token
        <4>3. tokens_remaining - 1 \in 0 .. TOKEN_MOD - 1 BY <4>2, TokenFacts
        <4> QED BY <4>1, <4>3, ModSmall
      <3>3. Adders' \subseteq Adders BY <1>1, <2>2 DEF TakeToken, Adders
      <3> QED BY <2>2, <3>1, <3>2, <3>3
    <2>3. tokens_remaining \in Nat BY TokenFacts DEF Typed, TypeOK, Token
    <2> QED BY <2>1, <2>2, <2>3
  <1>2. CASE ReturnToken(t)
    <2>1. pc[t] = "add" /\ pc' = [pc EXCEPT ![t] = "state"] BY <1>2 DEF ReturnToken
    <2>2. t \in Adders /\ Adders' = Adders \ {t} BY <2>1 DEF Adders
    <2> QED BY <1>2, <2>2 DEF ReturnToken
  <1>3. CASE Call(t) \/ SpuriousWake(t) \/ FutexWait(t) \/ LoadState(t)
    BY <1>3 DEF Call, SpuriousWake, FutexWait, LoadState, Adders
  <1>4. CASE LoadBatch(t) BY <1>4 DEF LoadBatch, Adders
  <1>5. CASE LoadTokens(t) BY <1>5 DEF LoadTokens, Adders
  <1>6. CASE NotifyManager(t) \/ StoreStart(t) BY <1>6 DEF NotifyManager, StoreStart, Adders
  <1>7. CASE StoreDuration(t) \/ StoreReportBatch(t) \/ CountReport(t)
    BY <1>7 DEF StoreDuration, StoreReportBatch, CountReport, Adders
  <1> QED BY <1>1, <1>2, <1>3, <1>4, <1>5, <1>6, <1>7 DEF Work

(* The types the arithmetic of tokens needs.                                *)
LEMMA CountTypes ==
  ASSUME Typed
  PROVE  /\ tokens_remaining \in Nat /\ tokens_remaining < TOKEN_MOD
         /\ granted \in Nat /\ granted <= MaxTokens + 2
         /\ quota \in Nat /\ quota <= MaxTokens
         /\ plan \in Nat /\ plan <= MaxTokens
         /\ consumed \in Nat
  BY TokenFacts DEF Typed, TypeOK, Token

(* The threads keep the account of the bucket: the last token taken uses up *)
(* the quota, so a race can only be lost after that.                        *)
LEMMA WorkCharge ==
  ASSUME NEW t \in Threads, Typed, ChargeInv, Call(t) \/ Work(t) \/ SpuriousWake(t)
  PROVE  ChargeInv'
  <1>1. UNCHANGED <<mpc, plan, consumed, quota>> BY WorkManager DEF manager
  <1>2. granted' \in Nat /\ granted <= granted' BY WorkBucket, CountTypes, TokenFacts
  <1>3. NeverOvercharged' BY <1>1, <1>2, CountTypes DEF ChargeInv, NeverOvercharged
  <1>4. CASE granted >= quota BY <1>1, <1>2, <1>3, <1>4, CountTypes DEF ChargeInv, Filled
  <1>5. ASSUME BucketInv, granted < quota PROVE granted' >= quota \/ BucketInv'
    <2> USE TokenFacts, CountTypes, AddersType DEF BucketInv
    <2>1. CASE UNCHANGED <<tokens_remaining, granted>> /\ Adders' \subseteq Adders
      BY <1>1, <1>5, <2>1, AddersLess
    <2>2. CASE /\ tokens_remaining > 0 /\ tokens_remaining' = tokens_remaining - 1
               /\ granted' = IF granted < MaxTokens + 2 THEN granted + 1 ELSE granted
               /\ Adders' \subseteq Adders
      BY <1>1, <1>5, <2>2, AddersLess
    <2>3. CASE /\ t \in Adders /\ Adders' = Adders \ {t} /\ UNCHANGED granted
               /\ tokens_remaining' = (tokens_remaining + 1) % TOKEN_MOD
      <3>1. Cardinality(Adders') = Cardinality(Adders) - 1 /\ Cardinality(Adders) >= 1
        <4>1. Cardinality(Adders \ {t}) = Cardinality(Adders) - 1
          BY <2>3, FS_RemoveElement, ZenonT(20)
        <4>2. Cardinality(Adders \ {t}) \in Nat
          BY FS_RemoveElement, FS_CardinalityType
        <4> QED BY <2>3, <4>1, <4>2
      <3>2. tokens_remaining + 1 < TOKEN_MOD BY <1>5, <3>1
      <3>3. tokens_remaining' = tokens_remaining + 1
        <4>1. tokens_remaining + 1 \in 0 .. TOKEN_MOD - 1 BY <3>2
        <4> QED BY <2>3, <4>1, ModSmall
      <3> QED BY <1>1, <1>5, <2>3, <3>1, <3>3
    <2>4. tokens_remaining # 0 BY <1>5
    <2> QED BY <2>1, <2>2, <2>3, <2>4, WorkBucket
  <1> QED BY <1>1, <1>3, <1>4, <1>5, CountTypes DEF ChargeInv

(* What the manager charges is at most what left the bucket.                *)
LEMMA MinusCharged ==
  ASSUME Typed, plan = quota, granted >= quota \/ BucketInv
  PROVE  Minus(plan, tokens_remaining) <= granted
  BY CountTypes, AddersType, TokenFacts DEF BucketInv, Minus

(* The manager's steps keep the account.                                    *)
LEMMA ManageCharge == ASSUME Typed, ChargeInv, Manage PROVE ChargeInv'
  <1> USE DEF ChargeInv, NeverOvercharged, MGoto, Filled, Starting, Replacing, shmem,
        thread, ghosts
  <1>1. CASE FillBucket
    <2>1. BucketInv'
      <3>1. Adders' = Adders BY <1>1 DEF FillBucket, Adders
      <3>2. tokens_remaining' = plan /\ quota' = plan /\ granted' = 0 BY <1>1 DEF FillBucket
      <3> QED BY <3>1, <3>2, CountTypes, AddersType, TokenFacts DEF BucketInv
    <2> QED BY <1>1, <2>1, CountTypes DEF FillBucket
  <1>2. CASE StoreBatchId BY <1>2 DEF StoreBatchId
  <1>3. CASE ResetActive \/ ResetReported \/ StoreRunning
    <2>1. UNCHANGED <<tokens_remaining, granted, quota, plan, consumed, pc>>
      BY <1>3 DEF ResetActive, ResetReported, StoreRunning
    <2>2. mpc \in Filled BY <1>3 DEF ResetActive, ResetReported, StoreRunning
    <2>3. BucketInv' <=> BucketInv BY <2>1 DEF BucketInv, Adders
    <2> QED BY <2>1, <2>2, <2>3, <1>3 DEF ResetActive, ResetReported, StoreRunning
  <1>4. CASE WakeRunning
    <2>1. UNCHANGED <<tokens_remaining, granted, quota, plan, consumed>>
      BY <1>4 DEF WakeRunning
    <2>2. Adders' = Adders BY <1>4 DEF WakeRunning, wake_all, Adders
    <2>3. BucketInv' <=> BucketInv BY <2>1, <2>2 DEF BucketInv
    <2> QED BY <2>1, <2>3, <1>4 DEF WakeRunning
  <1>5. CASE BatchSpent \/ BatchTimeout \/ CaptureConsumed
    <2>1. UNCHANGED <<tokens_remaining, granted, quota, plan, pc>> /\ mpc \in Filled
      BY <1>5 DEF BatchSpent, BatchTimeout, CaptureConsumed
    <2>2. BucketInv' <=> BucketInv BY <2>1 DEF BucketInv, Adders
    <2>3. Minus(plan, tokens_remaining) <= granted BY <2>1, MinusCharged
    <2>4. 0 <= granted BY CountTypes
    <2>5. consumed' <= granted
      BY <1>5, <2>3, <2>4 DEF BatchSpent, BatchTimeout, CaptureConsumed
    <2> QED BY <1>5, <2>1, <2>2, <2>5 DEF BatchSpent, BatchTimeout, CaptureConsumed
  <1>6. CASE EmptyBucket BY <1>6 DEF EmptyBucket
  <1>7. CASE StoreMeasuring \/ WakeMeasuring \/ LoadActive
    BY <1>7 DEF StoreMeasuring, WakeMeasuring, LoadActive
  <1>8. CASE ReportsDone \/ GraceOver \/ PollAgain \/ ReadReport
    BY <1>8 DEF ReportsDone, GraceOver, PollAgain, ReadReport
  <1>9. CASE \E c \in Clients : MatchReport(c) BY <1>9 DEF MatchReport
  <1>10. CASE StoreIdle BY <1>10, CountTypes DEF StoreIdle
  <1> QED BY <1>1, <1>2, <1>3, <1>4, <1>5, <1>6, <1>7, <1>8, <1>9, <1>10 DEF Manage

(* Every step keeps the account.                                            *)
LEMMA NextCharge == Typed /\ ChargeInv /\ [Next]_vars => ChargeInv'
  <1> SUFFICES ASSUME Typed, ChargeInv, [Next]_vars PROVE ChargeInv'
    OBVIOUS
  <1>1. CASE UNCHANGED vars
    BY <1>1 DEF vars, shmem, thread, manager, ghosts, ChargeInv, NeverOvercharged, BucketInv,
      Adders
  <1>2. CASE ManagerDies \/ TakeOver
    BY <1>2, TakeOverFrame, CountTypes DEF ChargeInv, NeverOvercharged, Filled, Replacing, Starting
  <1>3. ASSUME NEW c \in Clients, ProcessDies(c) PROVE ChargeInv'
    <2>1. UNCHANGED <<tokens_remaining, mpc, plan, consumed, quota, granted>>
      BY <1>3 DEF ProcessDies, shmem, manager
    <2>2. Adders' \subseteq Adders BY <1>3 DEF ProcessDies, Adders
    <2>3. BucketInv => BucketInv'
      BY <2>1, <2>2, AddersLess, AddersType, TokenFacts, CountTypes DEF BucketInv
    <2> QED BY <2>1, <2>3 DEF ChargeInv, NeverOvercharged
  <1> QED BY <1>1, <1>2, <1>3, WorkCharge, ManageCharge DEF Next

(* The manager never charges more tokens to a batch than it handed out: a   *)
(* race lost at the empty bucket, and one token put back after the refill,  *)
(* do not make kernels look cheaper than they are, for any number of        *)
(* processes and threads.                                                   *)
THEOREM ChargesAreReal == Spec => []NeverOvercharged
  <1>1. Init => Typed /\ ChargeInv
    BY InitTyped DEF Init, ChargeInv, NeverOvercharged, Filled
  <1>2. Typed /\ ChargeInv /\ [Next]_vars => (Typed /\ ChargeInv)' BY NextTyped, NextCharge
  <1>3. ChargeInv => NeverOvercharged BY DEF ChargeInv
  <1> QED BY <1>1, <1>2, <1>3, PTL DEF Spec

-----------------------------------------------------------------------------
(* With one process, at most one token too many.                            *)

(* All threads belong to one process, so one mutex serialises them.         *)
SingleProcess == \A t, u \in Threads : C(t) = C(u)

(* The tokens handed out and the ones still to be had exceed the quota by   *)
(* at most one.                                                             *)
OweInv ==
  /\ (\A t \in Threads : pc[t] # "add") => granted + tokens_remaining <= quota + 1
  /\ \A t \in Threads :
       pc[t] = "add" => granted + ((tokens_remaining + 1) % TOKEN_MOD) <= quota + 1

(* While the bucket is filled only the one thread inside the mutex takes    *)
(* from it: what it saw is still there.                                     *)
RaceInv ==
  mpc \in Filled =>
    \A t \in Threads : /\ pc[t] = "sub" => tokens_remaining > 0
                       /\ pc[t] = "add" => granted = 0

(* The inductive invariant of OverGrantAtMostOne.                           *)
OverInv ==
  /\ mpc \in {"s_tokens"} \cup Filled => plan >= 1
  /\ (\A t \in Threads : pc[t] # "gone") => OweInv /\ RaceInv
  /\ OverGrantAtMostOne

(* Below zero the counter shows its largest value, and one more is zero.    *)
LEMMA WrapAround ==
  (0 - 1) % TOKEN_MOD = TOKEN_MOD - 1 /\ (TOKEN_MOD - 1 + 1) % TOKEN_MOD = 0
  BY TokenFacts

(* The one mutex lets one thread in, and its threads live or die together.  *)
LEMMA OneInside ==
  ASSUME SingleProcess, LockInv, NEW t \in Threads, NEW u \in Threads
  PROVE  /\ pc[t] \in Locked /\ pc[u] \in Locked => t = u
         /\ pc[t] = "gone" => pc[u] = "gone"
  BY DEF SingleProcess, LockInv

(* The thread inside the mutex keeps the account.                           *)
LEMMA WorkOver ==
  ASSUME SingleProcess, NEW t \in Threads, Typed, LockInv, OverInv,
         Call(t) \/ Work(t) \/ SpuriousWake(t)
  PROVE  OverInv'
  <1>0. UNCHANGED <<mpc, plan, quota>> BY WorkManager DEF manager
  <1> USE BatchTypes DEF Goto, Unlock, shmem, client, manager, ghosts
  <1>1. pc[t] # "gone"
    BY DEF Call, SpuriousWake, Work, LoadState, LoadBatch, LoadTokens, TakeToken, ReturnToken,
      NotifyManager, StoreStart, StoreDuration, StoreReportBatch, CountReport, FutexWait
  <1>2. OweInv /\ RaceInv BY <1>1, OneInside DEF OverInv
  <1> HIDE BatchTypes
  <1> SUFFICES OweInv' /\ RaceInv' /\ OverGrantAtMostOne'
    BY <1>0 DEF OverInv
  <1>3. CASE TakeToken(t)
    <2>1. pc[t] = "sub" BY <1>3 DEF TakeToken
    <2>2. \A u \in Threads : u # t => pc'[u] = pc[u] /\ pc[u] \notin {"sub", "add"}
      <3>1. \A u \in Threads : u # t => pc'[u] = pc[u]
        BY <1>3, BatchTypes DEF TakeToken
      <3> QED BY <2>1, <3>1, OneInside DEF Locked
    <2>3. CASE tokens_remaining = 0
      <3>1. /\ tokens_remaining' = TOKEN_MOD - 1 /\ UNCHANGED granted
            /\ pc' = [pc EXCEPT ![t] = "add"]
        BY <1>3, <2>3, WrapAround DEF TakeToken
      <3>2. pc'[t] = "add" BY <3>1, BatchTypes
      <3>3. mpc \notin Filled BY <1>2, <2>1, <2>3 DEF RaceInv
      <3>4. OweInv'
        BY <1>0, <3>1, <3>2, WrapAround, CountTypes
        DEF OweInv, OverInv, OverGrantAtMostOne
      <3> QED BY <1>0, <3>1, <3>3, <3>4 DEF RaceInv, OverInv, OverGrantAtMostOne
    <2>4. CASE tokens_remaining > 0
      <3>1. pc'[t] \in {"app", "active"} BY <1>3, <2>4, BatchTypes DEF TakeToken
      <3>2. /\ tokens_remaining' = tokens_remaining - 1
            /\ granted' = IF granted < MaxTokens + 2 THEN granted + 1 ELSE granted
        <4>1. tokens_remaining - 1 \in 0 .. TOKEN_MOD - 1 BY <2>4, CountTypes, TokenFacts
        <4> QED BY <1>3, <2>4, <4>1, ModSmall DEF TakeToken
      <3>3. granted + tokens_remaining <= quota + 1 BY <1>2, <2>1, <2>2 DEF OweInv
      <3>4. granted' + tokens_remaining' <= quota + 1 /\ granted' <= quota + 1
        BY <2>4, <3>2, <3>3, CountTypes, TokenFacts
      <3>5. \A u \in Threads : pc'[u] \notin {"sub", "add"} BY <2>2, <3>1
      <3> QED BY <1>0, <3>4, <3>5 DEF OweInv, RaceInv, OverGrantAtMostOne
    <2> QED BY <2>3, <2>4, CountTypes
  <1>4. CASE ReturnToken(t)
    <2>1. /\ pc[t] = "add" /\ pc'[t] = "state" /\ UNCHANGED granted
          /\ tokens_remaining' = (tokens_remaining + 1) % TOKEN_MOD
      BY <1>4, BatchTypes DEF ReturnToken
    <2>2. \A u \in Threads : pc'[u] \notin {"sub", "add"}
      <3>1. \A u \in Threads : u # t => pc'[u] = pc[u] BY <1>4, BatchTypes DEF ReturnToken
      <3> QED BY <2>1, <3>1, OneInside DEF Locked
    <2> QED BY <1>0, <1>2, <2>1, <2>2 DEF OweInv, RaceInv, OverInv, OverGrantAtMostOne
  <1>5. ASSUME UNCHANGED <<tokens_remaining, granted>>,
               \A u \in Threads : pc'[u] = "add" <=> pc[u] = "add",
               \A u \in Threads : pc'[u] = "sub" => pc[u] = "sub" \/ tokens_remaining > 0
        PROVE  OweInv' /\ RaceInv' /\ OverGrantAtMostOne'
    BY <1>0, <1>2, <1>5 DEF OweInv, RaceInv, OverInv, OverGrantAtMostOne
  <1> USE BatchTypes
  <1>6. CASE Call(t) \/ SpuriousWake(t) \/ FutexWait(t) \/ LoadState(t)
    BY <1>5, <1>6 DEF Call, SpuriousWake, FutexWait, LoadState
  <1>7. CASE LoadBatch(t) BY <1>5, <1>7 DEF LoadBatch
  <1>8. CASE LoadTokens(t) BY <1>5, <1>8 DEF LoadTokens
  <1>9. CASE NotifyManager(t) \/ StoreStart(t) BY <1>5, <1>9 DEF NotifyManager, StoreStart
  <1>10. CASE StoreDuration(t) \/ StoreReportBatch(t) \/ CountReport(t)
    BY <1>5, <1>10 DEF StoreDuration, StoreReportBatch, CountReport
  <1> QED BY <1>3, <1>4, <1>6, <1>7, <1>8, <1>9, <1>10 DEF Work

(* The manager keeps it: it fills the bucket for a batch of at least one    *)
(* token, and empties it before the next.                                   *)
LEMMA ManageOver == ASSUME SingleProcess, Typed, LockInv, OverInv, Manage PROVE OverInv'
  <1> DEFINE Alive == \A t \in Threads : pc[t] # "gone"
  <1>0. /\ \A t \in Threads : \A l \in {"sub", "add", "gone"} : pc'[t] = l <=> pc[t] = l
    BY ManageFrame, BatchTypes DEF wake_all
  <1>1. CASE FillBucket
    <2>1. /\ tokens_remaining' = plan /\ quota' = plan /\ granted' = 0 /\ plan' = plan
          /\ mpc = "s_tokens"
      BY <1>1 DEF FillBucket, MGoto
    <2>2. plan \in Nat /\ plan >= 1 BY <2>1, CountTypes DEF OverInv
    <2>3. \A t \in Threads : (plan + 1) % TOKEN_MOD = plan + 1
      <3> TAKE t \in Threads
      <3>1. Cardinality(Threads) >= 1
        BY ThreadsAssumption, FS_EmptySet, TokenFacts
      <3>2. plan + 1 \in 0 .. TOKEN_MOD - 1 BY <2>2, <3>1, CountTypes, TokenFacts
      <3> QED BY <3>2, ModSmall
    <2>4. OweInv' BY <2>1, <2>2, <2>3 DEF OweInv
    <2>5. RaceInv' BY <2>1, <2>2 DEF RaceInv
    <2> QED BY <2>1, <2>2, <2>4, <2>5 DEF OverInv, OverGrantAtMostOne
  <1>2. CASE EmptyBucket
    <2>1. /\ tokens_remaining' = 0 /\ UNCHANGED <<pc, quota, granted>>
          /\ mpc = "zero" /\ mpc' = "m_state"
      BY <1>2 DEF EmptyBucket, MGoto, thread, ghosts
    <2>2. (0 + 1) % TOKEN_MOD \in 0 .. 1
      <3>1. CASE TOKEN_MOD = 1 BY <3>1
      <3>2. CASE TOKEN_MOD > 1
        <4>1. 1 \in 0 .. TOKEN_MOD - 1 BY <3>2, TokenFacts
        <4> QED BY <4>1, ModSmall
      <3> QED BY <3>1, <3>2, TokenFacts
    <2>3. Alive => \A t \in Threads : pc[t] = "add" => granted = 0
      BY <2>1 DEF OverInv, RaceInv, Filled
    <2>4. Alive => OweInv'
      BY <2>1, <2>2, <2>3, CountTypes DEF OverInv, OverGrantAtMostOne, OweInv
    <2>5. mpc' \notin {"s_tokens"} \cup Filled BY <2>1 DEF Filled
    <2> QED BY <2>1, <2>4, <2>5 DEF OverInv, OverGrantAtMostOne, RaceInv
  <1>3. CASE StoreBatchId
    <2>1. /\ UNCHANGED <<pc, tokens_remaining, quota, granted>> /\ mpc' = "s_tokens"
          /\ plan' \in 1 .. MaxTokens
      BY <1>3 DEF StoreBatchId, MGoto, thread, ghosts
    <2>2. mpc' \notin Filled /\ plan' >= 1 BY <2>1, TokenFacts DEF Filled
    <2> QED BY <2>1, <2>2 DEF OverInv, OverGrantAtMostOne, OweInv, RaceInv
  <1>4. ASSUME UNCHANGED <<tokens_remaining, quota, granted, plan>>,
               mpc' \in {"s_tokens"} \cup Filled => mpc \in Filled /\ mpc' \in Filled
        PROVE  OverInv'
    BY <1>0, <1>4 DEF OverInv, OverGrantAtMostOne, OweInv, RaceInv
  <1> USE DEF MGoto, Filled, shmem, thread, ghosts
  <1>5. CASE ResetActive \/ ResetReported \/ StoreRunning \/ WakeRunning
    BY <1>4, <1>5 DEF ResetActive, ResetReported, StoreRunning, WakeRunning
  <1>6. CASE BatchSpent \/ BatchTimeout \/ CaptureConsumed
    BY <1>4, <1>6 DEF BatchSpent, BatchTimeout, CaptureConsumed
  <1>7. CASE StoreMeasuring \/ WakeMeasuring \/ LoadActive
    BY <1>4, <1>7 DEF StoreMeasuring, WakeMeasuring, LoadActive
  <1>8. CASE ReportsDone \/ GraceOver \/ PollAgain \/ ReadReport \/ StoreIdle
    BY <1>4, <1>8 DEF ReportsDone, GraceOver, PollAgain, ReadReport, StoreIdle
  <1>9. CASE \E c \in Clients : MatchReport(c) BY <1>4, <1>9 DEF MatchReport
  <1> QED BY <1>1, <1>2, <1>3, <1>5, <1>6, <1>7, <1>8, <1>9 DEF Manage

(* Every step keeps it; a process that died takes no more tokens.           *)
LEMMA NextOver ==
  ASSUME SingleProcess PROVE Typed /\ LockInv /\ OverInv /\ [Next]_vars => OverInv'
  <1> SUFFICES ASSUME Typed, LockInv, OverInv, [Next]_vars PROVE OverInv'
    OBVIOUS
  <1> USE DEF OverInv, OverGrantAtMostOne, OweInv, RaceInv
  <1>1. CASE UNCHANGED vars BY <1>1 DEF vars, shmem, thread, manager, ghosts
  <1>2. CASE ManagerDies \/ TakeOver
    <2>1. \A t \in Threads : \A l \in {"sub", "add", "gone"} : pc'[t] = l <=> pc[t] = l
      BY <1>2, BatchTypes, TakeOverFrame DEF wake_all
    <2> QED BY <1>2, <2>1, TakeOverFrame DEF Filled
  <1>3. ASSUME NEW c \in Clients, ProcessDies(c) PROVE OverInv'
    <2>1. \E t \in Threads : pc'[t] = "gone" BY <1>3 DEF ProcessDies
    <2> QED BY <1>3, <2>1 DEF ProcessDies, shmem, manager
  <1> QED BY <1>1, <1>2, <1>3, WorkOver, ManageOver DEF Next

(* In a pod of one process, with any number of threads, a batch hands out   *)
(* at most one token more than planned: the one that a race lost against    *)
(* enter_measuring_state puts back after the next refill.                   *)
THEOREM OneTokenTooMany == ASSUME SingleProcess PROVE Spec => []OverGrantAtMostOne
  <1>1. Init => Typed /\ LockInv /\ OverInv
    <2> SUFFICES ASSUME Init PROVE LockInv /\ OverInv
      BY InitTyped
    <2>1. LockInv BY DEF Init, LockInv, Locked
    <2>2. OverInv
      BY DEF Init, OverInv, OweInv, RaceInv, OverGrantAtMostOne, Filled
    <2> QED BY <2>1, <2>2
  <1>2. Typed /\ LockInv /\ OverInv /\ [Next]_vars => (Typed /\ LockInv /\ OverInv)'
    BY NextTyped, NextLock, NextOver
  <1>3. OverInv => OverGrantAtMostOne BY DEF OverInv
  <1> QED BY <1>1, <1>2, <1>3, PTL DEF Spec
=============================================================================
