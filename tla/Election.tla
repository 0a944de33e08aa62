------------------------------ MODULE Election ------------------------------
(***************************************************************************)
(* The election of one pod's manager: supervisor::run and what it calls     *)
(* (crates/limiter/src/supervisor.rs), ContainerManager::new and its Drop    *)
(* (crates/limiter/src/manager.rs).                                         *)
(*                                                                         *)
(* A supervisor is one thread of one process; processes that lived one      *)
(* after the other may have the same pid.  One action is one atomic         *)
(* operation on the shared memory.  Time is the age of manager_heartbeat in *)
(* ticks of a third of TAKEOVER_TIMEOUT_US; an age of STALE is older than it. *)
(* The other pods act on the global slots only: they register, and          *)
(* their watchdog clears the slot of a manager they find silent.            *)
(***************************************************************************)
EXTENDS Integers, FiniteSets

CONSTANTS
  Supervisors,   \* processes of the pod that intercepted an NPU call
  PidOf,         \* their pids, positive; equal pids are recycled ones
  OtherPids,     \* pids of other pods' managers, in their own pid namespaces
  MAX_MANAGERS,  \* slots of the global registry
  Timely,        \* TRUE: polls and elections, and heartbeats save for a manager that
                 \* waits for its global turn, happen within a tick
  RegistryOpens, \* TRUE: open_global_registry does not panic
  MaxFailures,   \* how many processes may die or supervisors panic
  MaxForeign     \* how many slots the other pods may have registered last

ASSUME PidsAssumption ==
  PidOf \in [Supervisors -> Nat \ {0}] /\ OtherPids \subseteq Nat \ {0}
ASSUME SlotsAssumption == MAX_MANAGERS \in Nat \ {0}
ASSUME TimelyAssumption == Timely \in BOOLEAN /\ RegistryOpens \in BOOLEAN
ASSUME FailuresAssumption == MaxFailures \in Nat /\ MaxForeign \in Nat

VARIABLES
  manager_pid,         \* 0: nobody
  heartbeat_age,       \* age of manager_heartbeat
  manager_global_idx,  \* slot of the last manager, -1 after a Drop
  is_active, slot_pid, \* GlobalManagerSlot
  pc,                  \* place of each supervisor
  old,                 \* local: the owner found, then the predecessor
  slot,                \* local: i in register_global_slot, then my_global_idx
  busy,                \* supervisors that polled or heartbeat since the last tick
  foreign,             \* history: slots that another pod registered last
  failures,
  adopted,             \* history: a process found its own, recycled, pid in manager_pid
  contested,           \* history: a contender came to hold the pid of an acting manager as
                       \* that of a dead or silent one
  waited               \* history: a manager waited for its global turn over a whole tick

registry == <<is_active, slot_pid, foreign>>
vars == <<manager_pid, heartbeat_age, manager_global_idx, registry, pc, old, slot, busy,
          failures, adopted, contested, waited>>

Slot   == 0 .. MAX_MANAGERS - 1

(* Mutant: the timeout is shorter than the time between two heartbeats.     *)
STALE_EARLY == 1

STALE == 3

Contending == {"try", "owner", "alive", "fresh", "cas", "watch"}
Won        == {"beat", "reclaim", "clear", "register", "slot_pid", "publish", "running"}
PC         == {"off", "release", "drop_pid", "drop_idx", "retired", "dead"} \cup Contending \cup Won

TypeOK ==
  /\ manager_pid \in Nat
  /\ heartbeat_age \in 0 .. STALE
  /\ manager_global_idx \in Slot \cup {-1}
  /\ is_active \in [Slot -> BOOLEAN]
  /\ slot_pid \in [Slot -> Nat]
  /\ pc \in [Supervisors -> PC]
  /\ old \in [Supervisors -> Nat]
  /\ slot \in [Supervisors -> 0 .. MAX_MANAGERS]
  /\ busy \in SUBSET Supervisors
  /\ foreign \in SUBSET Slot
  /\ failures \in 0 .. MaxFailures
  /\ adopted \in BOOLEAN /\ contested \in BOOLEAN /\ waited \in BOOLEAN

(* Shared memory just created: all zero, manager_global_idx too.            *)
FreshInit ==
  /\ manager_pid = 0 /\ heartbeat_age = STALE /\ manager_global_idx = 0
  /\ is_active = [i \in Slot |-> FALSE]
  /\ slot_pid = [i \in Slot |-> 0]
  /\ foreign = {}
  /\ pc = [s \in Supervisors |-> "off"]
  /\ old = [s \in Supervisors |-> 0]
  /\ slot = [s \in Supervisors |-> 0]
  /\ busy = {} /\ failures = 0 /\ adopted = FALSE /\ contested = FALSE /\ waited = FALSE

(* One manager is running and another process of the pod watches it.        *)
EstablishedInit ==
  \E m, w \in Supervisors :
    /\ m # w /\ PidOf[m] # PidOf[w]
    /\ manager_pid = PidOf[m] /\ heartbeat_age = 0 /\ manager_global_idx = 0
    /\ is_active = [i \in Slot |-> i = 0]
    /\ slot_pid = [i \in Slot |-> IF i = 0 THEN PidOf[m] ELSE 0]
    /\ foreign = {}
    /\ pc = [s \in Supervisors |-> IF s = m THEN "running" ELSE IF s = w THEN "watch" ELSE "off"]
    /\ old = [s \in Supervisors |-> 0]
    /\ slot = [s \in Supervisors |-> 0]
    /\ busy = {} /\ failures = 0 /\ adopted = FALSE /\ contested = FALSE /\ waited = FALSE

----------------------------------------------------------------------------
Exists(s) == pc[s] \notin {"off", "dead"}

(* /proc/<pid>/stat names a running process of the pod.                     *)
proc_alive(pid) == \E s \in Supervisors : PidOf[s] = pid /\ Exists(s)

Goto(s, from, to) == pc[s] = from /\ pc' = [pc EXCEPT ![s] = to]

Stay(s) == busy' = busy \cup {s}

(* The process is old enough (MANAGER_MIN_AGE_SECS) and has mapped the      *)
(* local memory.                                                            *)
Start(s) ==
  /\ ~proc_alive(PidOf[s])
  /\ Goto(s, "off", "try")
  /\ Stay(s)
  /\ UNCHANGED <<manager_pid, heartbeat_age, manager_global_idx, registry, old, slot,
                 failures, adopted, contested, waited>>

----------------------------------------------------------------------------
(* try_become_manager and manager_alive. *)

(* Some contender is about to take the role from the pid of s.              *)
Pursued(s) == \E r \in Supervisors : pc[r] = "cas" /\ old[r] = PidOf[s]

(* Mutant: the role is stored without comparing it with 0. *)
ClaimAnyway(s) ==
  /\ manager_pid' = PidOf[s]
  /\ old' = [old EXCEPT ![s] = 0]
  /\ contested' = (contested \/ Pursued(s))
  /\ Goto(s, "try", "beat")
  /\ Stay(s)
  /\ UNCHANGED <<heartbeat_age, manager_global_idx, registry, slot, failures, adopted, waited>>

ClaimVacant(s) ==
  /\ \/ /\ manager_pid = 0
        /\ manager_pid' = PidOf[s]
        /\ old' = [old EXCEPT ![s] = 0]
        /\ contested' = (contested \/ Pursued(s))
        /\ Goto(s, "try", "beat")
     \/ /\ manager_pid # 0
        /\ Goto(s, "try", "owner")
        /\ UNCHANGED <<manager_pid, old, contested>>
  /\ Stay(s)
  /\ UNCHANGED <<heartbeat_age, manager_global_idx, registry, slot, failures, adopted, waited>>

LoadOwner(s) ==
  /\ \/ manager_pid = PidOf[s] /\ Goto(s, "owner", "reclaim") /\ old' = [old EXCEPT ![s] = 0]
     \/ manager_pid = 0 /\ Goto(s, "owner", "watch") /\ UNCHANGED old
     \/ /\ manager_pid \notin {0, PidOf[s]}
        /\ Goto(s, "owner", "alive")
        /\ old' = [old EXCEPT ![s] = manager_pid]
  /\ adopted' = (adopted \/ manager_pid = PidOf[s])
  /\ UNCHANGED <<manager_pid, heartbeat_age, manager_global_idx, registry, slot, busy,
                 failures, contested, waited>>

CheckAlive(s) ==
  /\ \/ proc_alive(old[s]) /\ Goto(s, "alive", "fresh")
     \/ ~proc_alive(old[s]) /\ Goto(s, "alive", "cas")
  /\ UNCHANGED <<manager_pid, heartbeat_age, manager_global_idx, registry, old, slot, busy,
                 failures, adopted, contested, waited>>

(* The heartbeat of old[s] is fresh, or it is too old.                      *)
FoundFresh(s) ==
  Goto(s, "fresh", "watch") /\ old' = [old EXCEPT ![s] = 0] /\ UNCHANGED contested

FoundSilent(s) ==
  /\ Goto(s, "fresh", "cas") /\ UNCHANGED old
  /\ contested' = (contested \/ \E r \in Supervisors : pc[r] \in Won /\ PidOf[r] = old[s])

CheckFresh(s) ==
  /\ \/ heartbeat_age < STALE /\ FoundFresh(s)
     \/ heartbeat_age >= STALE /\ FoundSilent(s)
  /\ UNCHANGED <<manager_pid, heartbeat_age, manager_global_idx, registry, slot, busy,
                 failures, adopted, waited>>

TakeOver(s) ==
  /\ \/ /\ manager_pid = old[s]
        /\ manager_pid' = PidOf[s]
        /\ contested' = (contested \/ Pursued(s))
        /\ Goto(s, "cas", "beat")
        /\ UNCHANGED old
     \/ /\ manager_pid # old[s]
        /\ Goto(s, "cas", "watch")
        /\ old' = [old EXCEPT ![s] = 0]
        /\ UNCHANGED <<manager_pid, contested>>
  /\ UNCHANGED <<heartbeat_age, manager_global_idx, registry, slot, busy, failures, adopted,
                 waited>>

FirstHeartbeat(s) ==
  /\ Goto(s, "beat", "reclaim")
  /\ heartbeat_age' = 0
  /\ UNCHANGED <<manager_pid, manager_global_idx, registry, old, slot, busy, failures,
                 adopted, contested, waited>>

(* Mutant: the heartbeat is not looked at. *)
WatchPidOnly(s) ==
  /\ pc[s] = "watch"
  /\ \/ (manager_pid = 0 \/ ~proc_alive(manager_pid)) /\ Goto(s, "watch", "try")
     \/ manager_pid # 0 /\ proc_alive(manager_pid) /\ UNCHANGED pc
  /\ Stay(s)
  /\ UNCHANGED <<manager_pid, heartbeat_age, manager_global_idx, registry, old, slot,
                 failures, adopted, contested, waited>>

(* watch: one look of its polling loop.                                     *)
Watch(s) ==
  /\ pc[s] = "watch"
  /\ \/ /\ manager_pid = 0 \/ ~proc_alive(manager_pid) \/ heartbeat_age >= STALE
        /\ Goto(s, "watch", "try")
     \/ /\ manager_pid # 0 /\ proc_alive(manager_pid) /\ heartbeat_age < STALE
        /\ UNCHANGED pc
  /\ Stay(s)
  /\ UNCHANGED <<manager_pid, heartbeat_age, manager_global_idx, registry, old, slot,
                 failures, adopted, contested, waited>>

----------------------------------------------------------------------------
(* The winner: reclaim_stale_global_slot, ContainerManager::new, run. *)

(* Look whether the predecessor's slot still carries its pid; ...           *)
ReclaimCheck(s) ==
  LET stale == /\ old[s] # 0
               /\ manager_global_idx \in Slot
               /\ slot_pid[manager_global_idx] = old[s]
  IN
  /\ \/ stale /\ Goto(s, "reclaim", "clear") /\ slot' = [slot EXCEPT ![s] = manager_global_idx]
     \/ ~stale /\ Goto(s, "reclaim", "register") /\ UNCHANGED slot
  /\ old' = [old EXCEPT ![s] = 0]
  /\ UNCHANGED <<manager_pid, heartbeat_age, manager_global_idx, registry, busy, failures,
                 adopted, contested, waited>>

(* Mutant: the slot is left as it is. *)
ReclaimNothing(s) ==
  /\ Goto(s, "clear", "register")
  /\ slot' = [slot EXCEPT ![s] = 0]
  /\ UNCHANGED <<manager_pid, heartbeat_age, manager_global_idx, registry, old, busy,
                 failures, adopted, contested, waited>>

(* ... and clear it.                                                        *)
ReclaimClear(s) ==
  /\ Goto(s, "clear", "register")
  /\ is_active' = [is_active EXCEPT ![slot[s]] = FALSE]
  /\ slot' = [slot EXCEPT ![s] = 0]
  /\ UNCHANGED <<manager_pid, heartbeat_age, manager_global_idx, slot_pid, foreign, old,
                 busy, failures, adopted, contested, waited>>

(* register_global_slot: compare_exchange on the next slot of the scan.     *)
RegisterSlot(s) ==
  /\ \/ /\ slot[s] \in Slot /\ ~is_active[slot[s]]
        /\ is_active' = [is_active EXCEPT ![slot[s]] = TRUE]
        /\ foreign' = foreign \ {slot[s]}
        /\ Goto(s, "register", "slot_pid")
        /\ UNCHANGED slot
     \/ /\ slot[s] \in Slot /\ is_active[slot[s]]
        /\ pc[s] = "register"
        /\ slot' = [slot EXCEPT ![s] = @ + 1]
        /\ UNCHANGED <<is_active, foreign, pc>>
     \/ /\ slot[s] = MAX_MANAGERS
        /\ Goto(s, "register", "release")
        /\ slot' = [slot EXCEPT ![s] = 0]
        /\ UNCHANGED <<is_active, foreign>>
  /\ UNCHANGED <<manager_pid, heartbeat_age, manager_global_idx, slot_pid, old, busy,
                 failures, adopted, contested, waited>>

StoreSlotPid(s) ==
  /\ Goto(s, "slot_pid", "publish")
  /\ slot_pid' = [slot_pid EXCEPT ![slot[s]] = PidOf[s]]
  /\ UNCHANGED <<manager_pid, heartbeat_age, manager_global_idx, is_active, foreign, old,
                 slot, busy, failures, adopted, contested, waited>>

(* manager_global_idx and initialized, after which run() is entered.        *)
Publish(s) ==
  /\ Goto(s, "publish", "running")
  /\ manager_global_idx' = slot[s]
  /\ UNCHANGED <<manager_pid, heartbeat_age, registry, old, slot, busy, failures, adopted,
                 contested, waited>>

(* Mutant: the marker of manager_global_idx is used for manager_pid. *)
ReleaseToMinusOne(s) ==
  /\ Goto(s, "release", "try")
  /\ manager_pid' = IF manager_pid = PidOf[s] THEN -1 ELSE manager_pid
  /\ Stay(s)
  /\ UNCHANGED <<heartbeat_age, manager_global_idx, registry, old, slot, failures, adopted,
                 contested, waited>>

(* The registry is full: give the role back and go round the loop.          *)
ReleaseRole(s) ==
  /\ Goto(s, "release", "try")
  /\ manager_pid' = IF manager_pid = PidOf[s] THEN 0 ELSE manager_pid
  /\ Stay(s)
  /\ UNCHANGED <<heartbeat_age, manager_global_idx, registry, old, slot, failures, adopted,
                 contested, waited>>

(* run(): update_heartbeat in the pod's time slices.                        *)
Heartbeat(s) ==
  /\ pc[s] = "running"
  /\ heartbeat_age' = 0
  /\ Stay(s)
  /\ UNCHANGED <<manager_pid, manager_global_idx, registry, pc, old, slot, failures,
                 adopted, contested, waited>>

----------------------------------------------------------------------------
(* Failures. *)

Crash(s) ==
  /\ Exists(s) /\ failures < MaxFailures
  /\ failures' = failures + 1
  /\ pc' = [pc EXCEPT ![s] = "dead"]
  /\ UNCHANGED <<manager_pid, heartbeat_age, manager_global_idx, registry, old, slot, busy,
                 adopted, contested, waited>>

(* A panic in run(): Drop for ContainerManager, store by store.  Then the   *)
(* supervisor thread ends (hook/src/lib.rs catches the panic); the process  *)
(* lives on.                                                                *)
PanicClearSlot(s) ==
  /\ Goto(s, "running", "drop_pid") /\ failures < MaxFailures
  /\ failures' = failures + 1
  /\ is_active' = [is_active EXCEPT ![slot[s]] = FALSE]
  /\ UNCHANGED <<manager_pid, heartbeat_age, manager_global_idx, slot_pid, foreign, old,
                 slot, busy, adopted, contested, waited>>

DropRole(s) ==
  /\ Goto(s, "drop_pid", "drop_idx")
  /\ manager_pid' = IF manager_pid = PidOf[s] THEN 0 ELSE manager_pid
  /\ UNCHANGED <<heartbeat_age, manager_global_idx, registry, old, slot, busy, failures,
                 adopted, contested, waited>>

DropGlobalIdx(s) ==
  /\ Goto(s, "drop_idx", "retired")
  /\ manager_global_idx' = -1
  /\ UNCHANGED <<manager_pid, heartbeat_age, registry, old, slot, busy, failures, adopted,
                 contested, waited>>

(* A panic before there is a ContainerManager (open_global_registry): the   *)
(* role stays with a process that will never manage.                        *)
PanicEarly(s) ==
  /\ ~RegistryOpens
  /\ Goto(s, "reclaim", "retired") /\ failures < MaxFailures
  /\ failures' = failures + 1
  /\ UNCHANGED <<manager_pid, heartbeat_age, manager_global_idx, registry, old, slot, busy,
                 adopted, contested, waited>>

----------------------------------------------------------------------------
(* The other pods. *)

OtherRegisters(i) ==
  /\ OtherPids # {} /\ ~is_active[i] /\ Cardinality(foreign \cup {i}) <= MaxForeign
  /\ is_active' = [is_active EXCEPT ![i] = TRUE]
  /\ foreign' = foreign \cup {i}
  /\ UNCHANGED <<manager_pid, heartbeat_age, manager_global_idx, slot_pid, pc, old, slot,
                 busy, failures, adopted, contested, waited>>

OtherStoresPid(i) ==
  /\ i \in foreign /\ slot_pid[i] \notin OtherPids
  /\ \E p \in OtherPids : slot_pid' = [slot_pid EXCEPT ![i] = p]
  /\ UNCHANGED <<manager_pid, heartbeat_age, manager_global_idx, is_active, foreign, pc,
                 old, slot, busy, failures, adopted, contested, waited>>

(* Another pod's watchdog clears the slot of a silent lock owner.           *)
OtherWatchdog(i) ==
  /\ OtherPids # {} /\ is_active[i] /\ i \notin foreign
  /\ is_active' = [is_active EXCEPT ![i] = FALSE]
  /\ UNCHANGED <<manager_pid, heartbeat_age, manager_global_idx, slot_pid, foreign, pc, old,
                 slot, busy, failures, adopted, contested, waited>>

----------------------------------------------------------------------------
(* wait_for_global_turn writes no heartbeat, however long it waits.         *)
Waiting(s) == pc[s] = "running" /\ s \notin busy

(* A Timely tick: since the last one every watcher has polled, no election  *)
(* is under way, and the pod is not without supervisor.  A running manager  *)
(* has heartbeat, unless it waits for its global turn.                      *)
Tick ==
  /\ heartbeat_age < STALE
  /\ Timely => /\ \A s \in Supervisors :
                    /\ pc[s] \notin {"off", "retired", "dead"} => pc[s] \in {"running", "watch"}
                    /\ pc[s] = "watch" => s \in busy
               /\ \E s \in Supervisors : pc[s] \in {"running", "watch"}
  /\ heartbeat_age' = heartbeat_age + 1
  /\ busy' = {}
  /\ waited' = (waited \/ \E s \in Supervisors : Waiting(s))
  /\ UNCHANGED <<manager_pid, manager_global_idx, registry, pc, old, slot, failures, adopted,
                 contested>>

Elect(s) ==
  \/ ClaimVacant(s) \/ LoadOwner(s) \/ CheckAlive(s) \/ CheckFresh(s) \/ TakeOver(s)
  \/ FirstHeartbeat(s) \/ Watch(s) \/ ReclaimCheck(s) \/ ReclaimClear(s)
  \/ RegisterSlot(s) \/ StoreSlotPid(s) \/ Publish(s) \/ ReleaseRole(s)
  \/ DropRole(s) \/ DropGlobalIdx(s)

Next ==
  \/ \E s \in Supervisors :
       \/ Start(s) \/ Elect(s) \/ Heartbeat(s)
       \/ Crash(s) \/ PanicClearSlot(s) \/ PanicEarly(s)
  \/ \E i \in Slot : OtherRegisters(i) \/ OtherStoresPid(i) \/ OtherWatchdog(i)
  \/ Tick

Fairness == (\A s \in Supervisors : WF_vars(Elect(s))) /\ WF_vars(Tick)

FreshSpec       == FreshInit /\ [][Next]_vars
EstablishedSpec == EstablishedInit /\ [][Next]_vars
EstablishedFairSpec == EstablishedSpec /\ Fairness

----------------------------------------------------------------------------
(* Properties. *)

Acting == {s \in Supervisors : pc[s] \in Won}

(* At most one process of the pod has won the election and acts on it.      *)
OneManagerPerPod == Cardinality(Acting) <= 1

(* In every pod, on a host of any speed: a second process acts as manager   *)
(* only if a process found its recycled pid in manager_pid, or a contender  *)
(* of try_become_manager compares manager_pid with the pid of a process     *)
(* that acts: one it found silent (a winner is, until its first heartbeat), *)
(* or one that won with a pid found dead or silent before.                  *)
TwoManagersHaveACause == ~adopted /\ ~contested => OneManagerPerPod

(* No two processes that ever ran had the same pid.                         *)
NoPidReused ==
  \A s, r \in Supervisors : PidOf[s] = PidOf[r] /\ s # r => pc[s] = "off" \/ pc[r] = "off"

(* A timely pod with an established manager survives one failure of it or   *)
(* of anyone else with never more than one manager, as long as no manager   *)
(* waited for its global turn, silently, over a whole tick.  (A wait past    *)
(* TAKEOVER_TIMEOUT_US costs it the role without any failure; a shorter one *)
(* that ends in its death leaves too old a heartbeat to its successor.)     *)
OneFailureOneManager ==
  NoPidReused /\ failures <= 1 /\ ~waited => OneManagerPerPod

(* A pod with a live supervisor gets a manager, whoever dies and even if    *)
(* the dead manager's pid is in use again, unless the registry is full.     *)
RoleRecovered ==
  \A s \in Supervisors :
    pc[s] \in Contending ~> \/ pc[s] \in {"dead", "retired"}
                            \/ \E r \in Supervisors : pc[r] = "running"
                            \/ \A i \in Slot : is_active[i]

(* While the pod is managed, at most one active slot of the registry is the *)
(* pod's: the others count its priority once.  A process that adopts the    *)
(* role under its own recycled pid does not look for a predecessor's slot,  *)
(* a successor that itself dies before it publishes its slot leaves it, and *)
(* one that took over from a waiting manager keeps another slot beside it.  *)
OneSlotPerPod ==
  ~adopted /\ failures <= 1 /\ ~waited /\ (\E s \in Supervisors : pc[s] = "running")
    => Cardinality({i \in Slot : is_active[i] /\ i \notin foreign}) <= 1
=============================================================================
