---------------------------- MODULE GlobalBaton ----------------------------
(***************************************************************************)
(* The inter-pod time-slice lock of crates/limiter/src/manager.rs.          *)
(*                                                                         *)
(* Every pod runs one ContainerManager.  The managers share the mmap'ed     *)
(* GlobalRegistry: a lock word, the time of the last heartbeat, a ring of   *)
(* waiting managers and one slot per manager.  A manager registers a slot,  *)
(* joins the ring, and then forever waits for its turn, runs one local      *)
(* round and passes the baton to the next active manager of the ring.       *)
(*                                                                         *)
(* One action is one atomic operation on the shared memory (plus the        *)
(* thread-local computation around it); pc[m] is the place of manager m in  *)
(* the code.  Interleavings are sequentially consistent.                    *)
(*                                                                         *)
(* Abstractions.  queue_head and queue_tail are u32 counters of which only  *)
(* the residue modulo MAX_MANAGERS is ever used, and 64 divides 2^32, so     *)
(* the model keeps the residue.  Time is the age of lock_timestamp counted  *)
(* in ticks; an age of STALE means older than GLOBAL_WATCHDOG_TIMEOUT_US.    *)
(* signal_counter and its futex only shorten the 1 ms poll and are left     *)
(* out: the wait always returns.                                           *)
(***************************************************************************)
EXTENDS Integers, FiniteSets

CONSTANTS
  Managers,      \* the manager incarnations that may run (one per pod, or a successor)
  MAX_MANAGERS,  \* slots of the registry and entries of the ring
  Timely,        \* TRUE: whoever runs, or is named to run, a slice heartbeats in time
  Prompt,        \* TRUE: no waiter's timestamp goes stale before its look at the clock
  BriefWaits,    \* TRUE: no wait for a turn outlasts TAKEOVER_TIMEOUT_US
  MaxFailures,   \* how many managers may crash or panic
  NoPid          \* slot.pid of a slot nobody ever used

ASSUME MaxManagersAssumption == MAX_MANAGERS \in Nat \ {0}
ASSUME TimelyAssumption == Timely \in BOOLEAN
ASSUME DelayAssumption == Prompt \in BOOLEAN /\ BriefWaits \in BOOLEAN
ASSUME MaxFailuresAssumption == MaxFailures \in Nat
ASSUME NoPidAssumption == NoPid \notin Managers

VARIABLES
  lock_owner,    \* GlobalRegistry.lock_owner: a slot, or MAX_MANAGERS for nobody
  lock_age,      \* ticks since GlobalRegistry.lock_timestamp was written
  queue_head,    \* ring position of the current owner's entry
  queue_tail,    \* next ring position to hand out
  queue,         \* the ring
  is_active,     \* GlobalManagerSlot.is_active
  slot_pid,      \* GlobalManagerSlot.pid
  pc,            \* where each manager is
  my_idx,        \* ContainerManager.my_global_idx
  seen,          \* local: owner_idx while waiting, candidate while passing
  cursor,        \* local: i in register, slot_idx in join, next_head in pass
  left,          \* local: iterations left of the scan in pass_baton
  stamp,         \* local: the age of last_heartbeat, the timestamp the watchdog loaded
  beat,          \* managers that passed a heartbeat site since the last tick
  reclaiming,    \* the slot a supervisor found still to be its predecessor's
  failures,      \* crashes and panics so far
  evicted,       \* history: managers whose slot was cleared under them
  displaced,     \* history: live managers whose role a silent wait cost them
  overslept,     \* history: a timestamp became stale between its load and the clock
  recycled,      \* history: a slot was given out that a waiter is taking the lock from
  file, boot,    \* the registry file and each manager's way to a mapping of it
  reset          \* history: see RegistryBoot, whose actions move these three

setup == <<file, boot, reset>>

vars == <<lock_owner, lock_age, queue_head, queue_tail, queue, is_active, slot_pid,
          pc, my_idx, seen, cursor, left, stamp, beat, reclaiming, failures, evicted,
          displaced, overslept, recycled, setup>>

registry == <<lock_owner, queue_head, queue_tail, queue, is_active, slot_pid>>
locals   == <<my_idx, seen, cursor, left, stamp>>
delays   == <<displaced, overslept>>
ghosts   == <<reclaiming, failures, evicted, delays, recycled, setup>>

Slot    == 0 .. MAX_MANAGERS - 1
Index   == 0 .. MAX_MANAGERS
Nobody  == MAX_MANAGERS
STALE   == 3

(* Mutant: the counter is used without % MAX_MANAGERS. *)
SuccUnwrapped(i) == i + 1

Succ(i) == (i + 1) % MAX_MANAGERS

----------------------------------------------------------------------------
(* Places in the code. *)

Registering == {"reg", "reg_pid"}
Joining     == {"join", "enq"}
WaitLoop    == {"wait", "chk", "claim", "age", "clock", "mark", "steal", "recheck"}
Passing     == {"rejoin", "reenq", "head", "scan", "scan_chk", "commit", "hand"}
Holding     == {"enter", "turn"} \cup Passing
HasSlot     == {"reg_pid"} \cup Joining \cup WaitLoop \cup Holding
PC          == {"off", "dead"} \cup Registering \cup Joining \cup WaitLoop \cup Holding

Live(m) == pc[m] \in HasSlot

TypeOK ==
  /\ lock_owner \in Index
  /\ lock_age \in 0 .. STALE
  /\ queue_head \in Slot
  /\ queue_tail \in Slot
  /\ queue \in [Slot -> Index]
  /\ is_active \in [Slot -> BOOLEAN]
  /\ slot_pid \in [Slot -> Managers \cup {NoPid}]
  /\ pc \in [Managers -> PC]
  /\ my_idx \in [Managers -> Index]
  /\ seen \in [Managers -> Index]
  /\ cursor \in [Managers -> Index]
  /\ left \in [Managers -> Index]
  /\ stamp \in [Managers -> 0 .. STALE]
  /\ beat \in SUBSET Managers
  /\ reclaiming \in [Managers -> Index]
  /\ failures \in 0 .. MaxFailures
  /\ evicted \in SUBSET Managers
  /\ displaced \in SUBSET Managers
  /\ overslept \in BOOLEAN
  /\ recycled \in BOOLEAN

----------------------------------------------------------------------------
(* Initial states. *)

ThreadLocalsInit ==
  /\ seen = [m \in Managers |-> Nobody]
  /\ cursor = [m \in Managers |-> 0]
  /\ left = [m \in Managers |-> 0]
  /\ stamp = [m \in Managers |-> 0]
  /\ beat = {}
  /\ reclaiming = [m \in Managers |-> Nobody]
  /\ failures = 0
  /\ evicted = {}
  /\ displaced = {}
  /\ overslept = FALSE
  /\ recycled = FALSE

SetupDone ==
  file = "sized" /\ boot = [m \in Managers |-> "mapped"] /\ reset = FALSE

(* A registry file just created by open_global_registry: zeroed memory, so  *)
(* lock_timestamp is the epoch, and lock_owner set to MAX_MANAGERS.         *)
FreshInit ==
  /\ lock_owner = Nobody
  /\ lock_age = STALE
  /\ queue_head = 0
  /\ queue_tail = 0
  /\ queue = [i \in Slot |-> 0]
  /\ is_active = [i \in Slot |-> FALSE]
  /\ slot_pid = [i \in Slot |-> NoPid]
  /\ pc = [m \in Managers |-> "off"]
  /\ my_idx = [m \in Managers |-> Nobody]
  /\ ThreadLocalsInit /\ SetupDone

(* The first pod has been alone for a while: it owns the lock, heartbeats,  *)
(* and is in its turn; the other pods have yet to start.                    *)
EstablishedInit ==
  \E m0 \in Managers :
    /\ lock_owner = 0
    /\ lock_age = 0
    /\ queue_head = 0
    /\ queue_tail = Succ(0)
    /\ queue = [i \in Slot |-> 0]
    /\ is_active = [i \in Slot |-> i = 0]
    /\ slot_pid = [i \in Slot |-> IF i = 0 THEN m0 ELSE NoPid]
    /\ pc = [m \in Managers |-> IF m = m0 THEN "turn" ELSE "off"]
    /\ my_idx = [m \in Managers |-> IF m = m0 THEN 0 ELSE Nobody]
    /\ ThreadLocalsInit /\ SetupDone

(* As EstablishedInit, after every other pod has registered and joined.     *)
SettledInit ==
  \E place \in {f \in [Managers -> 0 .. Cardinality(Managers) - 1] :
                  \A m, n \in Managers : f[m] = f[n] => m = n} :
    /\ lock_owner = 0
    /\ lock_age = 0
    /\ queue_head = 0
    /\ queue_tail = Cardinality(Managers) % MAX_MANAGERS
    /\ queue = [i \in Slot |-> IF i < Cardinality(Managers) THEN i ELSE 0]
    /\ is_active = [i \in Slot |-> i < Cardinality(Managers)]
    /\ slot_pid = [i \in Slot |->
                     IF i < Cardinality(Managers)
                       THEN CHOOSE m \in Managers : place[m] = i ELSE NoPid]
    /\ pc = [m \in Managers |-> IF place[m] = 0 THEN "turn" ELSE "wait"]
    /\ my_idx = place
    /\ ThreadLocalsInit /\ SetupDone

----------------------------------------------------------------------------
(* Shared pieces of the actions. *)

Goto(m, from, to) == pc[m] = from /\ pc' = [pc EXCEPT ![m] = to]

(* Manager m owns the lock and leaves wait_for_global_turn.                 *)
TakeTurn(m, from) ==
  /\ Goto(m, from, "enter")
  /\ seen' = [seen EXCEPT ![m] = Nobody]

(* slots[i].is_active.store(0), remembering who lost the slot.              *)
ClearSlot(i) ==
  /\ is_active' = [is_active EXCEPT ![i] = FALSE]
  /\ evicted' = evicted \cup {m \in Managers : Live(m) /\ my_idx[m] = i}

(* Mutant: the heartbeat leaves lock_timestamp alone. *)
HeartbeatOfSlotOnly(m) == lock_age' = lock_age /\ beat' = beat \cup {m}

(* update_heartbeat: lock_timestamp := now (and the slot's and the local    *)
(* heartbeat, which this module does not read).                             *)
update_heartbeat(m) ==
  /\ lock_age' = 0
  /\ beat' = beat \cup {m}

(* Mutant: lock_owner is stored without comparing it. *)
StoreOwner(m, from, lost) == lock_owner' = my_idx[m] /\ TakeTurn(m, from)

(* compare_exchange on lock_owner from the value read earlier to my slot.   *)
CasOwner(m, from, lost) ==
  \/ /\ lock_owner = seen[m]
     /\ lock_owner' = my_idx[m]
     /\ TakeTurn(m, from)
  \/ /\ lock_owner # seen[m]
     /\ Goto(m, from, lost)
     /\ UNCHANGED <<lock_owner, seen>>

OwnerActive(o) == o < MAX_MANAGERS /\ is_active[o]

----------------------------------------------------------------------------
(* ContainerManager::new and register_global_slot. *)

(* m works on a mapping of the whole file.                                  *)
Mapped(m) == boot[m] = "mapped" /\ file = "sized"

Start(m) ==
  /\ Goto(m, "off", "reg") /\ Mapped(m)
  /\ cursor' = [cursor EXCEPT ![m] = 0]
  /\ UNCHANGED <<registry, lock_age, my_idx, seen, left, stamp, beat, ghosts>>

(* Some waiter found slot i inactive and is about to take the lock from it. *)
Contested(i) == \E n \in Managers : pc[n] \in {"claim", "steal"} /\ seen[n] = i

(* Mutant: a plain store takes the slot, active or not. *)
TakeAnySlot(m) ==
  /\ Goto(m, "reg", "reg_pid")
  /\ cursor[m] \in Slot
  /\ is_active' = [is_active EXCEPT ![cursor[m]] = TRUE]
  /\ my_idx' = [my_idx EXCEPT ![m] = cursor[m]]
  /\ cursor' = [cursor EXCEPT ![m] = 0]
  /\ recycled' = (recycled \/ Contested(cursor[m]))

(* is_active.compare_exchange(0, 1) on the next slot of the scan.  A full   *)
(* registry returns None; the supervisor tries again later.                 *)
TakeFreeSlot(m) ==
  /\ Goto(m, "reg", "reg_pid")
  /\ cursor[m] \in Slot /\ ~is_active[cursor[m]]
  /\ is_active' = [is_active EXCEPT ![cursor[m]] = TRUE]
  /\ my_idx' = [my_idx EXCEPT ![m] = cursor[m]]
  /\ cursor' = [cursor EXCEPT ![m] = 0]
  /\ recycled' = (recycled \/ Contested(cursor[m]))

SkipActiveSlot(m) ==
  /\ pc[m] = "reg"
  /\ cursor[m] \in Slot /\ is_active[cursor[m]]
  /\ cursor' = [cursor EXCEPT ![m] = cursor[m] + 1]
  /\ UNCHANGED <<is_active, my_idx, pc, recycled>>

RegistryFull(m) ==
  /\ Goto(m, "reg", "off")
  /\ cursor[m] = MAX_MANAGERS
  /\ cursor' = [cursor EXCEPT ![m] = 0]
  /\ UNCHANGED <<is_active, my_idx, recycled>>

RegisterSlot(m) ==
  /\ TakeFreeSlot(m) \/ SkipActiveSlot(m) \/ RegistryFull(m)
  /\ UNCHANGED <<lock_owner, lock_age, queue_head, queue_tail, queue, slot_pid,
                 seen, left, stamp, beat, reclaiming, failures, evicted, delays, setup>>

StorePid(m) ==
  /\ Goto(m, "reg_pid", "join")
  /\ slot_pid' = [slot_pid EXCEPT ![my_idx[m]] = m]
  /\ UNCHANGED <<lock_owner, lock_age, queue_head, queue_tail, queue, is_active,
                 locals, beat, ghosts>>

----------------------------------------------------------------------------
(* join_global_queue: reserve a ring position, then write my slot into it.  *)

JoinReserve(m) ==
  /\ Goto(m, "join", "enq") \/ Goto(m, "rejoin", "reenq")
  /\ cursor' = [cursor EXCEPT ![m] = queue_tail]
  /\ queue_tail' = Succ(queue_tail)
  /\ UNCHANGED <<lock_owner, lock_age, queue_head, queue, is_active, slot_pid,
                 my_idx, seen, left, stamp, beat, ghosts>>

JoinStore(m) ==
  /\ Goto(m, "enq", "wait") \/ Goto(m, "reenq", "head")
  /\ queue' = [queue EXCEPT ![cursor[m]] = my_idx[m]]
  /\ cursor' = [cursor EXCEPT ![m] = 0]
  /\ UNCHANGED <<lock_owner, lock_age, queue_head, queue_tail, is_active, slot_pid,
                 my_idx, seen, left, stamp, beat, ghosts>>

----------------------------------------------------------------------------
(* wait_for_global_turn *)

LoadOwner(m) ==
  /\ \/ /\ lock_owner = my_idx[m]
        /\ TakeTurn(m, "wait")
     \/ /\ lock_owner # my_idx[m]
        /\ Goto(m, "wait", "chk")
        /\ seen' = [seen EXCEPT ![m] = lock_owner]
  /\ UNCHANGED <<registry, lock_age, my_idx, cursor, left, stamp, beat, ghosts>>

CheckOwnerActive(m) ==
  /\ \/ OwnerActive(seen[m]) /\ Goto(m, "chk", "age")
     \/ ~OwnerActive(seen[m]) /\ Goto(m, "chk", "claim")
  /\ UNCHANGED <<registry, lock_age, locals, beat, ghosts>>

ClaimInactive(m) ==
  /\ CasOwner(m, "claim", "age")
  /\ UNCHANGED <<lock_age, queue_head, queue_tail, queue, is_active, slot_pid,
                 my_idx, cursor, left, stamp, beat, ghosts>>

(* The watchdog loads lock_timestamp, and only then reads the clock; it may *)
(* be paused in between, and the age of what it loaded grows.               *)
LoadTimestamp(m) ==
  /\ Goto(m, "age", "clock")
  /\ stamp' = [stamp EXCEPT ![m] = lock_age]
  /\ UNCHANGED <<registry, lock_age, my_idx, seen, cursor, left, beat, ghosts>>

(* Mutants: the timeout is a third shorter; the watchdog never fires.       *)
ReadClockHasty(m) ==
  /\ \/ stamp[m] >= STALE - 1 /\ Goto(m, "clock", "mark")
     \/ stamp[m] < STALE - 1 /\ Goto(m, "clock", "recheck")
  /\ stamp' = [stamp EXCEPT ![m] = 0]
  /\ UNCHANGED <<registry, lock_age, my_idx, seen, cursor, left, beat, ghosts>>

ReadClockTrusting(m) ==
  /\ Goto(m, "clock", "recheck")
  /\ stamp' = [stamp EXCEPT ![m] = 0]
  /\ UNCHANGED <<registry, lock_age, my_idx, seen, cursor, left, beat, ghosts>>

ReadClock(m) ==
  /\ \/ stamp[m] >= STALE /\ Goto(m, "clock", "mark")
     \/ stamp[m] < STALE /\ Goto(m, "clock", "recheck")
  /\ stamp' = [stamp EXCEPT ![m] = 0]
  /\ UNCHANGED <<registry, lock_age, my_idx, seen, cursor, left, beat, ghosts>>

MarkStale(m) ==
  /\ Goto(m, "mark", "steal")
  /\ \/ seen[m] < MAX_MANAGERS /\ ClearSlot(seen[m])
     \/ seen[m] >= MAX_MANAGERS /\ UNCHANGED <<is_active, evicted>>
  /\ UNCHANGED <<lock_owner, lock_age, queue_head, queue_tail, queue, slot_pid,
                 locals, beat, reclaiming, failures, delays, recycled, setup>>

StealStale(m) ==
  /\ CasOwner(m, "steal", "recheck")
  /\ UNCHANGED <<lock_age, queue_head, queue_tail, queue, is_active, slot_pid,
                 my_idx, cursor, left, stamp, beat, ghosts>>

(* The last look at lock_owner before the 1 ms futex wait, which returns to *)
(* the head of the loop.                                                    *)
Recheck(m) ==
  /\ \/ /\ lock_owner = my_idx[m]
        /\ TakeTurn(m, "recheck")
     \/ /\ lock_owner # my_idx[m]
        /\ Goto(m, "recheck", "wait")
        /\ seen' = [seen EXCEPT ![m] = Nobody]
  /\ UNCHANGED <<registry, lock_age, my_idx, cursor, left, stamp, beat, ghosts>>

----------------------------------------------------------------------------
(* The turn: run() after wait_for_global_turn, with its heartbeats.         *)

Enter(m) ==
  /\ Goto(m, "enter", "turn")
  /\ update_heartbeat(m)
  /\ UNCHANGED <<registry, locals, ghosts>>

(* A heartbeat site of honor_fixed_rest_wait or run_local_round.            *)
Beat(m) ==
  /\ pc[m] = "turn"
  /\ update_heartbeat(m)
  /\ UNCHANGED <<registry, locals, pc, ghosts>>

EndTurn(m) ==
  /\ Goto(m, "turn", "rejoin")
  /\ UNCHANGED <<registry, lock_age, locals, beat, ghosts>>

----------------------------------------------------------------------------
(* pass_baton, after its join_global_queue. *)

(* Mutant: the scan starts at the head, not behind it. *)
LoadHeadItself(m) ==
  /\ Goto(m, "head", "scan")
  /\ cursor' = [cursor EXCEPT ![m] = queue_head]
  /\ left' = [left EXCEPT ![m] = MAX_MANAGERS]
  /\ UNCHANGED <<registry, lock_age, my_idx, seen, stamp, beat, ghosts>>

LoadHead(m) ==
  /\ Goto(m, "head", "scan")
  /\ cursor' = [cursor EXCEPT ![m] = Succ(queue_head)]
  /\ left' = [left EXCEPT ![m] = MAX_MANAGERS]
  /\ UNCHANGED <<registry, lock_age, my_idx, seen, stamp, beat, ghosts>>

ScanCandidate(m) ==
  /\ Goto(m, "scan", "scan_chk")
  /\ seen' = [seen EXCEPT ![m] = queue[cursor[m]]]
  /\ UNCHANGED <<registry, lock_age, my_idx, cursor, left, stamp, beat, ghosts>>

(* An active candidate ends the scan; a stale entry moves it on, and after  *)
(* MAX_MANAGERS entries the manager itself is next.                         *)
CheckCandidate(m) ==
  /\ \/ /\ OwnerActive(seen[m])
        /\ Goto(m, "scan_chk", "commit")
        /\ UNCHANGED <<seen, cursor, left>>
     \/ /\ ~OwnerActive(seen[m])
        /\ cursor' = [cursor EXCEPT ![m] = Succ(@)]
        /\ left' = [left EXCEPT ![m] = @ - 1]
        /\ \/ /\ left[m] > 1
              /\ Goto(m, "scan_chk", "scan")
              /\ UNCHANGED seen
           \/ /\ left[m] <= 1
              /\ Goto(m, "scan_chk", "commit")
              /\ seen' = [seen EXCEPT ![m] = my_idx[m]]
  /\ UNCHANGED <<registry, lock_age, my_idx, stamp, beat, ghosts>>

(* Mutant: the new head is not stored. *)
CommitNothing(m) ==
  /\ Goto(m, "commit", "hand")
  /\ cursor' = [cursor EXCEPT ![m] = 0]
  /\ left' = [left EXCEPT ![m] = 0]
  /\ UNCHANGED <<registry, lock_age, my_idx, seen, stamp, beat, ghosts>>

CommitHead(m) ==
  /\ Goto(m, "commit", "hand")
  /\ queue_head' = cursor[m]
  /\ cursor' = [cursor EXCEPT ![m] = 0]
  /\ left' = [left EXCEPT ![m] = 0]
  /\ UNCHANGED <<lock_owner, lock_age, queue_tail, queue, is_active, slot_pid,
                 my_idx, seen, stamp, beat, ghosts>>

HandOff(m) ==
  /\ Goto(m, "hand", "wait")
  /\ lock_owner' = seen[m]
  /\ seen' = [seen EXCEPT ![m] = Nobody]
  /\ UNCHANGED <<lock_age, queue_head, queue_tail, queue, is_active, slot_pid,
                 my_idx, cursor, left, stamp, beat, ghosts>>

----------------------------------------------------------------------------
(* Failures. *)

(* The thread of m is gone, and its locals with it.                         *)
Vanish(m) ==
  /\ pc' = [pc EXCEPT ![m] = "dead"]
  /\ seen' = [seen EXCEPT ![m] = Nobody]
  /\ cursor' = [cursor EXCEPT ![m] = 0]
  /\ left' = [left EXCEPT ![m] = 0]
  /\ stamp' = [stamp EXCEPT ![m] = 0]
  /\ beat' = beat \ {m}

(* The process hosting m is killed (kill -9, OOM): no code of it runs.      *)
Crash(m) ==
  /\ Live(m)
  /\ failures < MaxFailures
  /\ failures' = failures + 1
  /\ Vanish(m)
  /\ UNCHANGED <<registry, lock_age, my_idx, reclaiming, evicted, delays, recycled, setup>>

(* A panic unwinds run(): Drop for ContainerManager clears the slot and     *)
(* manager_global_idx, so nobody will reclaim the slot.                     *)
Drop(m) ==
  /\ pc[m] \in Joining \cup WaitLoop \cup Holding
  /\ failures < MaxFailures
  /\ failures' = failures + 1
  /\ Vanish(m)
  /\ is_active' = [is_active EXCEPT ![my_idx[m]] = FALSE]
  /\ my_idx' = [my_idx EXCEPT ![m] = Nobody]
  /\ evicted' = evicted \cup {n \in Managers \ {m} : Live(n) /\ my_idx[n] = my_idx[m]}
  /\ UNCHANGED <<lock_owner, lock_age, queue_head, queue_tail, queue, slot_pid, reclaiming,
                 delays, recycled, setup>>

(* A sibling's supervisor takes a manager for dead when it has not written  *)
(* manager_heartbeat for TAKEOVER_TIMEOUT_US.  wait_for_global_turn writes   *)
(* none, so a live manager that waits that long for its turn is silent too. *)
Silent(m) ==
  \/ pc[m] \in Joining \cup WaitLoop \cup {"enter"}
  \/ ~Timely /\ pc[m] \in Holding

(* reclaim_stale_global_slot by the supervisor that succeeds a dead or a    *)
(* silent manager: check that the slot still carries the predecessor's pid, *)
(* then clear it.                                                           *)
ReclaimCheck(m) ==
  /\ my_idx[m] \in Slot
  /\ slot_pid[my_idx[m]] = m
  /\ m \notin displaced /\ reclaiming[m] = Nobody
  /\ \/ pc[m] = "dead" /\ UNCHANGED displaced
     \/ ~BriefWaits /\ Silent(m) /\ displaced' = displaced \cup {m}
  /\ reclaiming' = [reclaiming EXCEPT ![m] = my_idx[m]]
  /\ UNCHANGED <<registry, lock_age, locals, pc, beat, failures, evicted, overslept,
                 recycled, setup>>

ReclaimClear(m) ==
  /\ reclaiming[m] \in Slot
  /\ ClearSlot(reclaiming[m])
  /\ reclaiming' = [reclaiming EXCEPT ![m] = Nobody]
  /\ my_idx' = [my_idx EXCEPT ![m] = IF pc[m] = "dead" THEN Nobody ELSE @]
  /\ UNCHANGED <<lock_owner, lock_age, queue_head, queue_tail, queue, slot_pid, pc, seen,
                 cursor, left, stamp, beat, failures, delays, recycled, setup>>

----------------------------------------------------------------------------
(* Time. *)

(* Managers that run, or are named to run, the current time slice.          *)
Responsible(m) ==
  \/ pc[m] \in Holding
  \/ pc[m] \in WaitLoop /\ my_idx[m] = lock_owner

(* The age, a tick later, of the timestamp m loaded.                        *)
Older(m) ==
  IF pc[m] = "clock" /\ stamp[m] < STALE THEN stamp[m] + 1 ELSE stamp[m]

Oversleeps(m) == pc[m] = "clock" /\ stamp[m] = STALE - 1

(* One tick is a third of the watchdog period.  A Timely host lets a        *)
(* responsible manager reach its next heartbeat site within a tick: the     *)
(* sites are at most 100 ms apart, and the code from the last heartbeat of  *)
(* one turn to the first one of the next holds no wait longer than 1 ms.    *)
(* A waiter may be paused at any place of its loop for any time, unless the *)
(* host is Prompt as well.                                                  *)
Tick ==
  /\ lock_age < STALE \/ \E m \in Managers : pc[m] = "clock" /\ stamp[m] < STALE
  /\ Timely => \A m \in Managers : Responsible(m) => pc[m] = "turn" /\ m \in beat
  /\ Prompt => \A m \in Managers : ~Oversleeps(m)
  /\ lock_age' = IF lock_age < STALE THEN lock_age + 1 ELSE STALE
  /\ stamp' = [m \in Managers |-> Older(m)]
  /\ overslept' = (overslept \/ \E m \in Managers : Oversleeps(m))
  /\ beat' = {}
  /\ UNCHANGED <<registry, my_idx, seen, cursor, left, pc, reclaiming, failures, evicted,
                 displaced, recycled, setup>>

----------------------------------------------------------------------------
Step(m) ==
  \/ RegisterSlot(m) \/ StorePid(m)
  \/ JoinReserve(m) \/ JoinStore(m)
  \/ LoadOwner(m) \/ CheckOwnerActive(m) \/ ClaimInactive(m)
  \/ LoadTimestamp(m) \/ ReadClock(m) \/ MarkStale(m) \/ StealStale(m) \/ Recheck(m)
  \/ Enter(m) \/ EndTurn(m)
  \/ LoadHead(m) \/ ScanCandidate(m) \/ CheckCandidate(m)
  \/ CommitHead(m) \/ HandOff(m)

Environment(m) ==
  Start(m) \/ Beat(m) \/ Crash(m) \/ Drop(m) \/ ReclaimCheck(m) \/ ReclaimClear(m)

Next == (\E m \in Managers : Step(m) \/ Environment(m)) \/ Tick

(* Every live thread keeps running and every turn ends (run_local_round is  *)
(* bounded by its timeouts); time passes.  Starting pods, extra heartbeats, *)
(* failures and reclaims need not happen.                                   *)
Fairness == (\A m \in Managers : WF_vars(Step(m))) /\ WF_vars(Tick)

FreshSpec       == FreshInit /\ [][Next]_vars
FreshFairSpec   == FreshSpec /\ Fairness
EstablishedSpec == EstablishedInit /\ [][Next]_vars
EstablishedFairSpec == EstablishedSpec /\ Fairness
SettledSpec     == SettledInit /\ [][Next]_vars /\ Fairness

----------------------------------------------------------------------------
(* Properties. *)

(* At most one manager is between taking the lock and handing it on.        *)
MutualExclusion ==
  \A m, n \in Managers : pc[m] \in Holding /\ pc[n] \in Holding => m = n

(* No manager that is still running has had its registry slot cleared.      *)
LiveManagerKeepsSlot == \A m \in evicted : ~Live(m)

(* A waiter's timestamp went stale between its load and the clock that it is *)
(* compared with, or a live manager lost its role while it waited silently. *)
Delayed == overslept \/ displaced # {}

(* Without failures and with holders that heartbeat in time, two slices     *)
(* overlap only after a waiter was paused for the watchdog period between   *)
(* its load of lock_timestamp and its look at the clock, or a sibling took  *)
(* the role from a manager that waited for its turn.                        *)
OverlapNeedsDelay == MutualExclusion \/ Delayed

(* And only then is a running manager's slot cleared.                       *)
EvictionNeedsDelay == LiveManagerKeepsSlot \/ Delayed

(* Two running managers use the same registry slot only if the slot was     *)
(* cleared under one of them.                                               *)
SharedSlotOnlyAfterEviction ==
  \A m, n \in Managers :
    Live(m) /\ Live(n) /\ my_idx[m] = my_idx[n] /\ m # n
      => m \in evicted \/ n \in evicted

(* Whatever fails, a manager that waits sees some manager run.              *)
LockNeverStuck ==
  \A m \in Managers :
    pc[m] \in WaitLoop ~> (pc[m] = "dead" \/ \E n \in Managers : pc[n] = "turn")

(* Every waiting manager gets its turn.                                     *)
NoStarvation == \A m \in Managers : pc[m] = "wait" ~> pc[m] = "turn"

----------------------------------------------------------------------------
(* Inductive invariants, from which GlobalBatonProofs derives the above.    *)

Joined == WaitLoop \cup Holding

(* The scan of pass_baton stays inside the ring and knows how far it may go.*)
ScanInv ==
  \A m \in Managers :
    /\ pc[m] \in {"enq", "reenq", "scan", "scan_chk", "commit"} => cursor[m] \in Slot
    /\ pc[m] \in {"scan", "scan_chk"} => left[m] >= 1

(* A running manager has a slot, and the slot is active until it is cleared *)
(* under the manager.                                                       *)
SlotInv ==
  \A m \in Managers :
    /\ Live(m) => my_idx[m] \in Slot
    /\ Live(m) /\ m \notin evicted => is_active[my_idx[m]]

(* A supervisor reclaims only on behalf of a manager that is dead, or that  *)
(* it took for dead.                                                        *)
ReclaimInv == \A m \in Managers : reclaiming[m] \in Slot => pc[m] = "dead" \/ m \in displaced

NamesJoined(i) == \E m \in Managers : pc[m] \in Joined /\ my_idx[m] = i

(* Without failures, on a timely host and before any waiter's delay: slots  *)
(* stay with their managers; no thread gets to claim or steal; the lock,    *)
(* the ring and every index read from them name managers that have joined;  *)
(* only the manager the lock names holds it; and the heartbeat is fresh,    *)
(* the one the watchdog loaded included.                                    *)
NoEviction == evicted = {} /\ \A m \in Managers : reclaiming[m] = Nobody

NoTakeover == \A m \in Managers : pc[m] \notin {"dead", "claim", "mark", "steal"}

RingNamesJoined ==
  /\ \A i \in Slot : NamesJoined(queue[i])
  /\ NamesJoined(lock_owner)
  /\ \A m \in Managers :
       pc[m] \in {"chk", "age", "clock", "recheck", "scan_chk", "commit", "hand"}
         => NamesJoined(seen[m])

HolderOwnsLock == \A m \in Managers : pc[m] \in Holding => my_idx[m] = lock_owner

HeartbeatFresh ==
  /\ lock_age < STALE
  /\ beat # {} => lock_age = 0
  /\ \A m \in Managers : pc[m] = "clock" => stamp[m] < STALE

CalmInv ==
  NoEviction /\ NoTakeover /\ RingNamesJoined /\ HolderOwnsLock /\ HeartbeatFresh

CalmUnlessDelayed == Delayed \/ CalmInv
=============================================================================
