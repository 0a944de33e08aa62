------------------------------ MODULE HbmQuota ------------------------------
(***************************************************************************)
(* The pod's HBM quota: the hooks of rtMalloc, rtFree and rtMemGetInfoEx    *)
(* (crates/hook/src/hook.rs) and the accounting behind them                 *)
(* (crates/limiter/src/worker.rs), with the manager's reaper and DCMI       *)
(* threads (crates/limiter/src/manager.rs).                                 *)
(*                                                                         *)
(* memory_used is the pod-wide counter that decides; hbm_used[p] is the     *)
(* counter in the slot of process p, on the one device that its client uses *)
(* (device_id is fixed when the client is created).  One action is one      *)
(* atomic operation on the shared memory; handle_map is a process's own     *)
(* table behind a mutex.  What the device really holds is `device`.         *)
(*                                                                         *)
(* Every process has registered; process p has slot p.                      *)
(***************************************************************************)
EXTENDS Integers, FiniteSets, Functions

CONSTANTS
  NProcs,      \* processes of the pod, in the order of their slots
  Threads,     \* threads that allocate and free
  ProcOf,      \* the process of each thread
  DevOf,       \* the device of each process
  Ptrs,        \* device addresses, reused after a free
  Sizes,       \* sizes asked for
  Limit,       \* memory_limit
  U64,         \* memory_used is computed modulo this
  DeviceBytes, \* external: what the device has
  Dcmi,        \* TRUE: DCMI reports container pids, so its refresh finds the slots
  MaxCalls,    \* how many calls the applications may make
  MaxCrashes   \* how many processes may die

Procs == 1 .. NProcs

ASSUME ProcsAssumption == NProcs \in Nat \ {0}
ASSUME ThreadsAssumption == IsFiniteSet(Threads) /\ ProcOf \in [Threads -> Procs]
ASSUME PtrsAssumption == IsFiniteSet(Ptrs) /\ Ptrs # {}
ASSUME DevicesAssumption == DOMAIN DevOf = Procs
ASSUME BytesAssumption == Limit \in Nat \ {0} /\ U64 \in Nat /\ Sizes \subseteq 1 .. U64 - 1
                          /\ DeviceBytes \in Nat /\ Limit + DeviceBytes < U64
ASSUME ModeAssumption == Dcmi \in BOOLEAN
ASSUME BoundsAssumption == MaxCalls \in Nat /\ MaxCrashes \in Nat

VARIABLES
  memory_used,  \* LocalContainerShmem.memory_used
  hbm_used,     \* ProcessSlot.hbm_used of each slot
  held,         \* ProcessSlot.pid # 0
  alive,        \* proc_alive of the process
  handle_map,   \* SchedulerClientInner.hbm_handle_map; 0 is no entry
  device,       \* external: bytes the device holds at each address
  pc, local,    \* per thread: place and local variables
  reaping,      \* reap_dead_slots: the slot whose pid it has won, 0 for none
  reaper,       \* reap_dead_slots: what it still has to subtract
  dcmi,         \* discover_and_update: the usage it read and has yet to store
  storing,      \* discover_and_update: the slot whose pid it has loaded, 0 for none
  calls,        \* of the applications so far
  crashes,
  calm,         \* history: no operation has started while another was under way
  crossed,      \* history: processes with an allocation or a free since dcmi was read, or halfway
  blurred,      \* history: slots last refreshed with a reading that was crossed
  stray         \* history: slots whose bytes were stored after their pid was exchanged

shared == <<memory_used, hbm_used, held>>
procs  == <<alive, handle_map, device>>
daemon == <<reaping, reaper, dcmi, storing>>
counts == <<calls, crashes>>
marks  == <<crossed, blurred, stray>>
vars   == <<shared, procs, pc, local, daemon, counts, calm, marks>>

Places == {"app", "scan", "swap", "clean", "current", "fix", "used", "reserve", "malloc", "record",
           "rollback", "unmap", "free_slot", "free_global", "gone"}

Bytes == Nat
Idle  == -1

Blank == [size |-> 0, ptr |-> CHOOSE a \in Ptrs : TRUE, at |-> 1, total |-> 0,
          cleaned |-> 0, seen |-> 0, back |-> "app", slip |-> FALSE]

TypeOK ==
  /\ memory_used \in 0 .. U64 - 1
  /\ hbm_used \in [Procs -> Bytes]
  /\ held \in [Procs -> BOOLEAN]
  /\ alive \in [Procs -> BOOLEAN]
  /\ handle_map \in [Procs -> [Ptrs -> Bytes]]
  /\ device \in [Procs -> [Ptrs -> Bytes]]
  /\ pc \in [Threads -> Places]
  /\ local \in [Threads -> [size : Bytes, ptr : Ptrs, at : 1 .. NProcs + 1, total : Bytes,
                            cleaned : Bytes, seen : Bytes, back : {"app", "used"},
                            slip : BOOLEAN]]
  /\ reaping \in Procs \cup {0} /\ reaper \in Bytes \cup {Idle}
  /\ dcmi \in [Procs -> Bytes \cup {Idle}] /\ storing \in Procs \cup {0}
  /\ calls \in 0 .. MaxCalls /\ crashes \in 0 .. MaxCrashes
  /\ calm \in BOOLEAN
  /\ crossed \subseteq Procs /\ blurred \subseteq Procs /\ stray \subseteq Procs

NoBytes == [p \in Procs |-> [a \in Ptrs |-> 0]]

Init ==
  /\ memory_used = 0
  /\ hbm_used = [p \in Procs |-> 0]
  /\ held = [p \in Procs |-> TRUE]
  /\ alive = [p \in Procs |-> TRUE]
  /\ handle_map = NoBytes
  /\ device = NoBytes
  /\ pc = [t \in Threads |-> "app"]
  /\ local = [t \in Threads |-> Blank]
  /\ reaping = 0 /\ reaper = Idle
  /\ dcmi = [p \in Procs |-> Idle] /\ storing = 0
  /\ calls = 0 /\ crashes = 0
  /\ calm = TRUE
  /\ crossed = {} /\ blurred = {} /\ stray = {}

----------------------------------------------------------------------------
(* Shared pieces. *)

P(t) == ProcOf[t]
SameDevice(p, q) == DevOf[p] = DevOf[q]

(* Mutant: the subtraction does not stop at 0. *)
MinusUnbounded(a, b) == a - b

(* atomic_saturating_sub *)
Minus(a, b) == IF a > b THEN a - b ELSE 0

Goto(t, from, to) == pc[t] = from /\ pc' = [pc EXCEPT ![t] = to]

Return(t, from) == Goto(t, from, "app") /\ local' = [local EXCEPT ![t] = Blank]

(* Of its local variables, only the size of the request is still needed.    *)
Forget(t) == local' = [local EXCEPT ![t] = [Blank EXCEPT !.size = local[t].size]]

Refreshing == \E p \in Procs : dcmi[p] # Idle

Reaping    == reaping # 0 \/ reaper # Idle

(* An operation of a thread, of the reaper or of the DCMI thread may start  *)
(* at any time; it is noted when another is under way.                      *)
Quiet ==
  (\A t \in Threads : pc[t] \in {"app", "gone"}) /\ ~Reaping /\ ~Refreshing

Begin == calm' = (calm /\ Quiet)

Call == Begin /\ calls < MaxCalls /\ calls' = calls + 1

(* The process of t now holds something else than what DCMI has reported.    *)
Cross(t) == crossed' = crossed \cup {p \in {P(t)} : dcmi[p] # Idle}

(* Call recalculate_usage and go to `back` when it returns.                 *)
Recalculate(t, from, back) ==
  /\ Goto(t, from, "scan")
  /\ local' = [local EXCEPT ![t].at = 1, ![t].total = 0, ![t].cleaned = 0,
                            ![t].back = back, ![t].slip = FALSE]

----------------------------------------------------------------------------
(* recalculate_usage_for_device. *)

Mine(i, t) == IF SameDevice(i, P(t)) THEN hbm_used[i] ELSE 0

NextOfScan(i, cleaned) ==
  IF i < NProcs THEN "scan" ELSE IF cleaned > 0 THEN "clean" ELSE "current"

(* One slot of the scan: the bytes of a live process on the caller's device *)
(* are added up, the slot of a dead one is taken over by a compare_exchange *)
(* of its pid to 0 ...                                                      *)
ScanSlot(t) ==
  LET i == local[t].at IN
  /\ pc[t] = "scan"
  /\ \/ /\ held[i] /\ ~alive[i]
        /\ held' = [held EXCEPT ![i] = FALSE]
        /\ pc' = [pc EXCEPT ![t] = "swap"]
        /\ UNCHANGED local
     \/ /\ held[i] => alive[i]
        /\ local' = [local EXCEPT ![t].at = i + 1,
                                  ![t].total = @ + (IF held[i] THEN Mine(i, t) ELSE 0)]
        /\ pc' = [pc EXCEPT ![t] = NextOfScan(i, local[t].cleaned)]
        /\ UNCHANGED held
  /\ UNCHANGED <<memory_used, hbm_used, procs, daemon, counts, calm, marks>>

(* ... and its bytes on that device are collected.                          *)
SwapOut(t) ==
  LET i       == local[t].at
      cleaned == local[t].cleaned + Mine(i, t)
  IN
  /\ pc[t] = "swap"
  /\ hbm_used' = [hbm_used EXCEPT ![i] = @ - Mine(i, t)]
  /\ local' = [local EXCEPT ![t].at = i + 1, ![t].cleaned = cleaned]
  /\ pc' = [pc EXCEPT ![t] = NextOfScan(i, cleaned)]
  /\ UNCHANGED <<memory_used, held, procs, daemon, counts, calm, marks>>

SubtractCleaned(t) ==
  /\ Goto(t, "clean", "current")
  /\ memory_used' = Minus(memory_used, local[t].cleaned)
  /\ local' = [local EXCEPT ![t].cleaned = 0]
  /\ UNCHANGED <<hbm_used, held, procs, daemon, counts, calm, marks>>

LoadCurrent(t) ==
  /\ Goto(t, "current", "fix")
  /\ local' = [local EXCEPT ![t].seen = memory_used]
  /\ UNCHANGED <<shared, procs, daemon, counts, calm, marks>>

(* Mutant: the counter is only ever corrected upwards. *)
CorrectUpwards(t) ==
  /\ memory_used' = memory_used + Minus(local[t].total, local[t].seen)
  /\ \/ local[t].back = "app" /\ Return(t, "fix")
     \/ local[t].back = "used" /\ Goto(t, "fix", "used") /\ Forget(t)
  /\ UNCHANGED <<hbm_used, held, procs, daemon, counts, calm, marks>>

(* Move the counter by the difference between the sum and the value loaded. *)
CorrectUsed(t) ==
  LET total == local[t].total
      seen  == local[t].seen
  IN
  /\ memory_used' = IF total > seen THEN (memory_used + (total - seen)) % U64
                    ELSE Minus(memory_used, seen - total)
  /\ \/ local[t].back = "app" /\ Return(t, "fix")
     \/ local[t].back = "used" /\ Goto(t, "fix", "used") /\ Forget(t)
  /\ UNCHANGED <<hbm_used, held, procs, daemon, counts, calm, marks>>

----------------------------------------------------------------------------
(* rtMalloc, rtMallocPhysical: check_memory_quota, the call, post_alloc_hbm. *)

Malloc(t) ==
  /\ pc[t] = "app" /\ Call
  /\ \E n \in Sizes : local' = [local EXCEPT ![t].size = n, ![t].back = "used"]
  /\ pc' = [pc EXCEPT ![t] = "scan"]
  /\ UNCHANGED <<shared, procs, daemon, crashes, marks>>

LoadUsed(t) ==
  /\ Goto(t, "used", "reserve")
  /\ local' = [local EXCEPT ![t].seen = memory_used]
  /\ UNCHANGED <<shared, procs, daemon, counts, calm, marks>>

(* Mutant: the request itself is not counted. *)
UsedOnly(t) == local[t].seen

(* current_used + size: an unchecked u64 sum, which wraps in a release      *)
(* build.                                                                   *)
NewUsed(t) == (local[t].seen + local[t].size) % U64

WithinLimit(t) == NewUsed(t) <= Limit

QuotaExceeded(t) ==
  /\ ~WithinLimit(t)
  /\ Return(t, "reserve")
  /\ UNCHANGED <<shared, procs, daemon, counts, calm, marks>>

(* compare_exchange of memory_used; a failure loads the actual value.       *)
Reserve(t) ==
  /\ pc[t] = "reserve"
  /\ WithinLimit(t)
  /\ \/ /\ memory_used = local[t].seen
        /\ memory_used' = NewUsed(t)
        /\ Goto(t, "reserve", "malloc") /\ Forget(t)
     \/ /\ memory_used # local[t].seen
        /\ local' = [local EXCEPT ![t].seen = memory_used]
        /\ UNCHANGED <<memory_used, pc>>
  /\ UNCHANGED <<hbm_used, held, procs, daemon, counts, calm, marks>>

RealUsage(p) == SumFunction(device[p])
DeviceTotal  == SumFunction([p \in Procs |-> RealUsage(p)])

(* External: the runtime's own rtMalloc, which may fail, and does when the  *)
(* device is full.                                                          *)
DeviceMalloc(t) ==
  /\ \/ \E a \in Ptrs :
          /\ device[P(t)][a] = 0
          /\ DeviceTotal + local[t].size <= DeviceBytes
          /\ device' = [device EXCEPT ![P(t)][a] = local[t].size]
          /\ local' = [local EXCEPT ![t].ptr = a]
          /\ Goto(t, "malloc", "record")
          /\ Cross(t)
     \/ Goto(t, "malloc", "rollback") /\ UNCHANGED <<device, local, crossed>>
  /\ UNCHANGED <<shared, alive, handle_map, daemon, counts, calm, blurred, stray>>

RecordAlloc(t) ==
  /\ Return(t, "record")
  /\ handle_map' = [handle_map EXCEPT ![P(t)][local[t].ptr] = local[t].size]
  /\ hbm_used' = [hbm_used EXCEPT ![P(t)] = @ + local[t].size]
  /\ UNCHANGED <<memory_used, held, alive, device, daemon, counts, calm, marks>>

(* The allocation failed: give the reservation back, and re-derive the      *)
(* counter if that hit the floor.                                           *)
Rollback(t) ==
  /\ memory_used' = Minus(memory_used, local[t].size)
  /\ \/ memory_used >= local[t].size /\ Return(t, "rollback")
     \/ memory_used < local[t].size /\ Recalculate(t, "rollback", "app")
  /\ UNCHANGED <<hbm_used, held, procs, daemon, counts, calm, marks>>

----------------------------------------------------------------------------
(* rtFree, rtFreePhysical: the call first, then post_free_hbm. *)

(* External: the device frees the address; the application frees only what  *)
(* an rtMalloc has returned to it.                                          *)
Free(t) ==
  /\ Call
  /\ \E a \in Ptrs :
       /\ device[P(t)][a] > 0
       /\ \A u \in Threads : pc[u] = "record" /\ P(u) = P(t) => local[u].ptr # a
       /\ device' = [device EXCEPT ![P(t)][a] = 0]
       /\ local' = [local EXCEPT ![t].ptr = a]
  /\ Goto(t, "app", "unmap")
  /\ Cross(t)
  /\ UNCHANGED <<shared, alive, handle_map, daemon, crashes, blurred, stray>>

Unmap(t) ==
  LET size == handle_map[P(t)][local[t].ptr] IN
  /\ handle_map' = [handle_map EXCEPT ![P(t)][local[t].ptr] = 0]
  /\ \/ size = 0 /\ Return(t, "unmap")
     \/ /\ size > 0
        /\ Goto(t, "unmap", "free_slot")
        /\ local' = [local EXCEPT ![t].size = size]
  /\ UNCHANGED <<shared, alive, device, daemon, counts, calm, marks>>

FreeSlot(t) ==
  /\ Goto(t, "free_slot", "free_global")
  /\ hbm_used' = [hbm_used EXCEPT ![P(t)] = Minus(@, local[t].size)]
  /\ local' = [local EXCEPT ![t].slip = hbm_used[P(t)] < local[t].size]
  /\ UNCHANGED <<memory_used, held, procs, daemon, counts, calm, marks>>

FreeGlobal(t) ==
  LET slip == local[t].slip \/ memory_used < local[t].size IN
  /\ memory_used' = Minus(memory_used, local[t].size)
  /\ \/ slip /\ Recalculate(t, "free_global", "app")
     \/ ~slip /\ Return(t, "free_global")
  /\ UNCHANGED <<hbm_used, held, procs, daemon, counts, calm, marks>>

----------------------------------------------------------------------------
(* rtMemGetInfoEx: get_hbm_info re-derives the counter as a side effect.    *)
GetHbmInfo(t) ==
  /\ Call
  /\ Recalculate(t, "app", "app")
  /\ UNCHANGED <<shared, procs, daemon, crashes, marks>>

----------------------------------------------------------------------------
(* The manager's threads. *)

(* Mutants: a live process is reaped; a slot without bytes is skipped.      *)
ReapAnySlot(p) ==
  /\ ~Reaping /\ Begin
  /\ held[p]
  /\ held' = [held EXCEPT ![p] = FALSE]
  /\ reaping' = p
  /\ UNCHANGED <<memory_used, hbm_used, procs, pc, local, reaper, dcmi, storing, counts, marks>>

ReapUsedSlot(p) == hbm_used[p] > 0 /\ ~alive[p] /\ ReapAnySlot(p)

(* reap_dead_slots on one slot: win its pid, ...                            *)
ReapSlot(p) ==
  /\ ~Reaping /\ Begin
  /\ held[p] /\ ~alive[p]
  /\ held' = [held EXCEPT ![p] = FALSE]
  /\ reaping' = p
  /\ UNCHANGED <<memory_used, hbm_used, procs, pc, local, reaper, dcmi, storing, counts, marks>>

(* ... swap its bytes out, ...                                              *)
ReapSwap ==
  /\ reaping # 0
  /\ hbm_used' = [hbm_used EXCEPT ![reaping] = 0]
  /\ reaper' = hbm_used[reaping]
  /\ reaping' = 0
  /\ UNCHANGED <<memory_used, held, procs, pc, local, dcmi, storing, counts, calm, marks>>

(* ... and subtract them from the pod's counter.                            *)
ReapSubtract ==
  /\ reaper # Idle
  /\ memory_used' = Minus(memory_used, reaper)
  /\ reaper' = Idle
  /\ UNCHANGED <<hbm_used, held, procs, pc, local, reaping, dcmi, storing, counts, calm, marks>>

(* discover_and_update: ask DCMI for the usage of every process, ...        *)
DcmiQuery ==
  /\ Dcmi /\ ~Refreshing /\ Begin
  /\ dcmi' = [p \in Procs |-> IF alive[p] THEN RealUsage(p) ELSE Idle]
  /\ crossed' = {P(t) : t \in {u \in Threads : pc[u] \in {"record", "unmap", "free_slot"}}}
  /\ UNCHANGED <<shared, procs, pc, local, reaping, reaper, storing, counts, blurred, stray>>

(* ... load the pid of one slot after the other ...                         *)
DcmiLoadPid(p) ==
  /\ storing = 0 /\ dcmi[p] # Idle /\ \A q \in Procs : q < p => dcmi[q] = Idle
  /\ \/ held[p] /\ storing' = p /\ UNCHANGED <<dcmi, crossed>>
     \/ /\ ~held[p]
        /\ dcmi' = [dcmi EXCEPT ![p] = Idle]
        /\ crossed' = crossed \ {p}
        /\ UNCHANGED storing
  /\ UNCHANGED <<shared, procs, pc, local, reaping, reaper, counts, calm, blurred, stray>>

(* ... and store the usage of that pid over the slot's counter.             *)
DcmiStore(p) ==
  /\ storing = p
  /\ storing' = 0
  /\ dcmi' = [dcmi EXCEPT ![p] = Idle]
  /\ hbm_used' = [hbm_used EXCEPT ![p] = dcmi[p]]
  /\ blurred' = IF p \in crossed THEN blurred \cup {p} ELSE blurred \ {p}
  /\ stray' = IF held[p] \/ dcmi[p] = 0 THEN stray ELSE stray \cup {p}
  /\ crossed' = crossed \ {p}
  /\ UNCHANGED <<memory_used, held, procs, pc, local, reaping, reaper, counts, calm>>

----------------------------------------------------------------------------
(* A process dies anywhere (kill -9, OOM): the driver frees its memory.     *)
Crash(p) ==
  /\ alive[p] /\ crashes < MaxCrashes
  /\ crashes' = crashes + 1
  /\ alive' = [alive EXCEPT ![p] = FALSE]
  /\ device' = [device EXCEPT ![p] = [a \in Ptrs |-> 0]]
  /\ handle_map' = [handle_map EXCEPT ![p] = [a \in Ptrs |-> 0]]
  /\ pc' = [t \in Threads |-> IF P(t) = p THEN "gone" ELSE pc[t]]
  /\ local' = [t \in Threads |-> IF P(t) = p THEN Blank ELSE local[t]]
  /\ crossed' = crossed \ {p} /\ blurred' = blurred \ {p}
  /\ UNCHANGED <<shared, daemon, calls, calm, stray>>

----------------------------------------------------------------------------
Operate(t) ==
  \/ ScanSlot(t) \/ SwapOut(t) \/ SubtractCleaned(t) \/ LoadCurrent(t) \/ CorrectUsed(t)
  \/ LoadUsed(t) \/ QuotaExceeded(t) \/ Reserve(t) \/ DeviceMalloc(t) \/ RecordAlloc(t)
  \/ Rollback(t) \/ Unmap(t) \/ FreeSlot(t) \/ FreeGlobal(t)

Reap == ReapSwap \/ ReapSubtract \/ \E p \in Procs : ReapSlot(p)

Next ==
  \/ \E t \in Threads : Malloc(t) \/ Free(t) \/ GetHbmInfo(t) \/ Operate(t)
  \/ Reap
  \/ DcmiQuery
  \/ \E p \in Procs : DcmiLoadPid(p) \/ DcmiStore(p) \/ Crash(p)

Spec == Init /\ [][Next]_vars

(* The reaper thread wakes up every REAP_INTERVAL_SECS.                     *)
FairSpec == Spec /\ WF_vars(Reap) /\ \A t \in Threads : WF_vars(Operate(t))

----------------------------------------------------------------------------
(* Properties. *)

(* What the pod's processes hold on the device is within the pod's quota.   *)
WithinQuota == DeviceTotal <= Limit

(* The quota holds as long as no two operations have overlapped, whoever    *)
(* dies in the middle of one.                                               *)
QuotaEnforced == calm => WithinQuota

(* Until operations overlap, an allocation is turned away only when it does *)
(* not fit next to what the slots account for (a process that died keeps    *)
(* its bytes until they are collected).                                     *)
RejectedOnlyWhenFull ==
  [][\A t \in Threads :
       calm /\ QuotaExceeded(t) => SumFunction(hbm_used) + local[t].size > Limit]_vars

InFlight(p, places) ==
  SumFunction([t \in Threads |-> IF P(t) = p /\ pc[t] \in places THEN local[t].size ELSE 0])

Unmapping(p) ==
  SumFunction([t \in Threads |->
    IF P(t) = p /\ pc[t] = "unmap" THEN handle_map[p][local[t].ptr] ELSE 0])

(* The counter in a live process's slot is what the process really holds,   *)
(* up to the allocation it has yet to record and the free it has yet to     *)
(* subtract, whatever the other processes, the reaper and crashes do; save  *)
(* after a DCMI refresh between whose query and store the process allocated *)
(* or freed, until the next one that it leaves alone.                       *)
SlotExact ==
  \A p \in Procs : alive[p] /\ p \notin blurred =>
    hbm_used[p] + InFlight(p, {"record"}) = RealUsage(p) + Unmapping(p) + InFlight(p, {"free_slot"})

(* A dead process gives its slot and its bytes back, unless the process     *)
(* that cleans up after it dies too, or a refresh that loaded the pid       *)
(* before it was exchanged stores what the process had held.                *)
DeadSlotsReclaimed ==
  \A p \in Procs :
    ~alive[p] ~> \/ ~held[p] /\ ~Reaping /\ (hbm_used[p] = 0 \/ p \in stray)
                \/ crashes > 1
=============================================================================
