---------------------------- MODULE ClientSlots ----------------------------
(***************************************************************************)
(* How a process of the pod gets its SchedulerClient: the PID-aware factory *)
(* npu_limiter (crates/hook/src/lib.rs), SchedulerClient::new with its two  *)
(* slot registries, stub and Drop (crates/limiter/src/worker.rs), over the  *)
(* local memory as create_shmem and ContainerManager::new publish it.       *)
(*                                                                         *)
(* LIMITER is a mutex, so one thread of a process is inside the factory and *)
(* pc[p] is its place; other callers wait for it.  fork may happen at any   *)
(* time, from any thread.  One action is one atomic operation on the shared *)
(* memory: a slot's pid is loaded, looked for in /proc and exchanged in     *)
(* three steps.  Any supervisor may be a manager, several at a time; of     *)
(* what a manager does only the publication of the memory and the reaping   *)
(* of process slots matter here.                                            *)
(***************************************************************************)
EXTENDS Integers, FiniteSets

CONSTANTS
  Procs,          \* processes that may run
  PidOf,          \* their pids, positive; equal pids are recycled ones
  MAX_WORKERS,    \* worker report slots
  MAX_PROCESSES,  \* process slots
  MaxDeaths,      \* how many processes may end
  MaxSupervisors  \* how many supervisor threads may be started

ASSUME PidsAssumption == PidOf \in [Procs -> Nat \ {0}]
ASSUME SlotsAssumption == MAX_WORKERS \in Nat \ {0} /\ MAX_PROCESSES \in Nat \ {0}
ASSUME BoundsAssumption == MaxDeaths \in Nat /\ MaxSupervisors \in Nat

VARIABLES
  file, initialized,   \* the memory file, LocalContainerShmem.initialized
  occupied, wpid,      \* LocalWorkerReport.occupied and pid
  is_active, qpid,     \* ProcessSlot.is_active and pid
  pc,                  \* place of each process in the factory
  at,                  \* local: index of the scan, then of the client to drop
  seen,                \* local: slot_pid, the pid loaded from the slot
  new,                 \* local: the client under construction
  limiter,             \* LIMITER: the cached client and the pid it was made for
  locked,              \* the process was forked while LIMITER was locked
  supervisor_pid,      \* SUPERVISOR_PID
  sup,                 \* place of each supervisor thread
  mpc,                 \* place of each manager
  cleaning,            \* local: the slot a process is cleaning, and the pid it has loaded
  deaths, supervisors,
  dropped,             \* history: process slots freed by dropping an inherited client
  wstolen, qstolen,    \* history: slots whose pid was exchanged when it had been recycled
  doubled              \* history: two managers have found the memory unpublished

memory  == <<file, initialized>>
workers == <<occupied, wpid>>
slots   == <<is_active, qpid>>
locals  == <<at, seen, new>>
cached  == <<limiter, locked>>
manager == <<supervisor_pid, sup, mpc>>
counts  == <<deaths, supervisors>>
marks   == <<dropped, wstolen, qstolen, doubled>>
factory == <<pc, locals, cached>>
vars    == <<memory, workers, slots, factory, manager, cleaning, counts, marks>>

WSlot == 0 .. MAX_WORKERS - 1
QSlot == 0 .. MAX_PROCESSES - 1
Pids  == {PidOf[p] : p \in Procs}

Workers  == {"w_own", "w_scan", "w_look", "w_cas", "w_pid"}
Slots    == {"q_own", "q_scan", "q_load", "q_look", "q_cas", "q_pid"}
Building == {"map"} \cup Workers \cup Slots
Inside   == Building \cup {"blocked", "install", "drop_pid", "drop_active"}
Gone     == {"none", "dead"}
MPlaces  == {"none", "register", "check", "zero", "flag", "manage"}

(* pid 0: no client.  A stub points to private memory.                      *)
Client   == [pid : Pids \cup {0}, w : WSlot, q : QSlot, stub : BOOLEAN]
NoClient == [pid |-> 0, w |-> 0, q |-> 0, stub |-> FALSE]
Stub(p)  == [pid |-> PidOf[p], w |-> 0, q |-> 0, stub |-> TRUE]

(* No slot is being cleaned; pid 0 at a slot: its pid has been exchanged.   *)
NotCleaning == [at |-> MAX_PROCESSES, pid |-> 0, dead |-> FALSE]

TypeOK ==
  /\ file \in {"absent", "empty", "sized"} /\ initialized \in BOOLEAN
  /\ occupied \in [WSlot -> BOOLEAN] /\ wpid \in [WSlot -> Pids \cup {0}]
  /\ is_active \in [QSlot -> BOOLEAN] /\ qpid \in [QSlot -> Pids \cup {0}]
  /\ pc \in [Procs -> Inside \cup Gone \cup {"app"}]
  /\ at \in [Procs -> WSlot \cup QSlot \cup {MAX_WORKERS, MAX_PROCESSES}]
  /\ seen \in [Procs -> Pids \cup {0}]
  /\ new \in [Procs -> Client] /\ limiter \in [Procs -> Client]
  /\ locked \in [Procs -> BOOLEAN]
  /\ supervisor_pid \in [Procs -> Pids \cup {0}]
  /\ sup \in [Procs -> {"none", "open", "truncate", "elect"}]
  /\ mpc \in [Procs -> MPlaces]
  /\ cleaning \in [Procs -> [at : 0 .. MAX_PROCESSES, pid : Pids \cup {0}, dead : BOOLEAN]]
  /\ deaths \in 0 .. MaxDeaths /\ supervisors \in 0 .. MaxSupervisors
  /\ dropped \subseteq QSlot /\ wstolen \subseteq WSlot /\ qstolen \subseteq QSlot
  /\ doubled \in BOOLEAN

Init ==
  /\ file = "absent" /\ initialized = FALSE
  /\ occupied = [i \in WSlot |-> FALSE] /\ wpid = [i \in WSlot |-> 0]
  /\ is_active = [i \in QSlot |-> FALSE] /\ qpid = [i \in QSlot |-> 0]
  /\ pc = [p \in Procs |-> "none"]
  /\ at = [p \in Procs |-> 0] /\ seen = [p \in Procs |-> 0]
  /\ new = [p \in Procs |-> NoClient] /\ limiter = [p \in Procs |-> NoClient]
  /\ locked = [p \in Procs |-> FALSE]
  /\ supervisor_pid = [p \in Procs |-> 0] /\ sup = [p \in Procs |-> "none"]
  /\ mpc = [p \in Procs |-> "none"]
  /\ cleaning = [p \in Procs |-> NotCleaning]
  /\ deaths = 0 /\ supervisors = 0
  /\ dropped = {} /\ wstolen = {} /\ qstolen = {} /\ doubled = FALSE

----------------------------------------------------------------------------
Alive(p) == pc[p] \notin Gone

proc_alive(pid) == \E p \in Procs : PidOf[p] = pid /\ Alive(p)

(* One process with this pid is dead, and another one alive.                *)
WasDead(pid) == \E p \in Procs : PidOf[p] = pid /\ pc[p] = "dead"
Recycled(pid) == WasDead(pid) /\ proc_alive(pid)

Goto(p, from, to) == pc[p] = from /\ pc' = [pc EXCEPT ![p] = to]

(* Start the scan of a registry, or go on with it.                          *)
Scan(p, from, to) ==
  Goto(p, from, to) /\ at' = [at EXCEPT ![p] = 0] /\ seen' = [seen EXCEPT ![p] = 0]
NextSlot(p, from, to) ==
  Goto(p, from, to) /\ at' = [at EXCEPT ![p] = @ + 1] /\ seen' = [seen EXCEPT ![p] = 0]

(* new() panicked: catch_unwind falls back to a stub.                       *)
Panic(p, from) ==
  /\ Scan(p, from, "install")
  /\ new' = [new EXCEPT ![p] = Stub(p)]

----------------------------------------------------------------------------
(* Processes. *)

Spawn(p) ==
  /\ ~proc_alive(PidOf[p])
  /\ Goto(p, "none", "app")
  /\ UNCHANGED <<memory, workers, slots, locals, cached, manager, cleaning, counts, marks>>

(* The child has a copy of LIMITER, locked for good if some thread of the   *)
(* parent is inside the factory, and of SUPERVISOR_PID.  (The pid of the    *)
(* cached client is not reused for the child.)                              *)
Fork(p, c) ==
  /\ Alive(p) /\ ~proc_alive(PidOf[c]) /\ limiter[p].pid # PidOf[c]
  /\ Goto(c, "none", "app")
  /\ limiter' = [limiter EXCEPT ![c] = limiter[p]]
  /\ locked' = [locked EXCEPT ![c] = locked[p] \/ pc[p] # "app"]
  /\ supervisor_pid' = [supervisor_pid EXCEPT ![c] = supervisor_pid[p]]
  /\ UNCHANGED <<memory, workers, slots, locals, sup, mpc, cleaning, counts, marks>>

(* exit, kill -9, OOM: statics are not dropped.                             *)
Die(p) ==
  /\ Alive(p) /\ deaths < MaxDeaths
  /\ deaths' = deaths + 1
  /\ pc' = [pc EXCEPT ![p] = "dead"]
  /\ at' = [at EXCEPT ![p] = 0] /\ seen' = [seen EXCEPT ![p] = 0]
  /\ new' = [new EXCEPT ![p] = NoClient]
  /\ limiter' = [limiter EXCEPT ![p] = NoClient]
  /\ locked' = [locked EXCEPT ![p] = FALSE]
  /\ cleaning' = [cleaning EXCEPT ![p] = NotCleaning]
  /\ supervisor_pid' = [supervisor_pid EXCEPT ![p] = 0]
  /\ sup' = [sup EXCEPT ![p] = "none"]
  /\ mpc' = [mpc EXCEPT ![p] = "none"]
  /\ UNCHANGED <<memory, workers, slots, supervisors, marks>>

----------------------------------------------------------------------------
(* npu_limiter. *)

(* ensure_supervisor: one thread per pid, re-armed after fork; the spawn    *)
(* may fail and is then tried again by the next call.                       *)
ensure_supervisor(p) ==
  \/ UNCHANGED <<supervisor_pid, sup, supervisors>>
  \/ /\ supervisor_pid[p] # PidOf[p] /\ supervisors < MaxSupervisors
     /\ supervisors' = supervisors + 1
     /\ supervisor_pid' = [supervisor_pid EXCEPT ![p] = PidOf[p]]
     /\ sup' = [sup EXCEPT ![p] = "open"]

(* A client made for this pid is returned, any other one is replaced; a     *)
(* process that got LIMITER locked waits for a thread it does not have.     *)
Call(p) ==
  /\ pc[p] = "app"
  /\ ensure_supervisor(p)
  /\ pc' = [pc EXCEPT ![p] = IF locked[p] THEN "blocked"
                             ELSE IF limiter[p].pid = PidOf[p] THEN "app" ELSE "map"]
  /\ UNCHANGED <<memory, workers, slots, locals, cached, mpc, cleaning, deaths, marks>>

(* A file that is not sized yet is refused.                                 *)
try_open_shmem == file = "sized"

(* The worker polls for a file it can open and for `initialized`.           *)
MapShmem(p) ==
  /\ try_open_shmem /\ initialized
  /\ Goto(p, "map", "w_own")
  /\ new' = [new EXCEPT ![p] = [NoClient EXCEPT !.pid = PidOf[p]]]
  /\ UNCHANGED <<memory, workers, slots, at, seen, cached, manager, cleaning, counts, marks>>

(* Mutant: the poll goes on for ever. *)
PollForever(p) ==
  /\ pc[p] = "map" /\ ~(try_open_shmem /\ initialized)
  /\ UNCHANGED vars

(* SHMEM_WAIT_TIMEOUT_SECS are over.                                        *)
MapTimeout(p) ==
  /\ ~(try_open_shmem /\ initialized)
  /\ Panic(p, "map")
  /\ UNCHANGED <<memory, workers, slots, cached, manager, cleaning, counts, marks>>

----------------------------------------------------------------------------
(* register_worker_slot. *)

(* Mutant: the slots are numbered from one. *)
HasWorkerFromOne(p, i) == new' = [new EXCEPT ![p].w = i + 1]

HasWorker(p, i) == new' = [new EXCEPT ![p].w = i]

ReuseWorkerSlot(p) ==
  /\ \/ \E i \in WSlot :
          /\ wpid[i] = PidOf[p] /\ \A j \in WSlot : j < i => wpid[j] # PidOf[p]
          /\ Scan(p, "w_own", "q_own")
          /\ HasWorker(p, i)
     \/ /\ \A i \in WSlot : wpid[i] # PidOf[p]
        /\ Scan(p, "w_own", "w_scan")
        /\ UNCHANGED new
  /\ UNCHANGED <<memory, workers, slots, cached, manager, cleaning, counts, marks>>

(* The pid of the next slot; a full registry panics.                        *)
LoadWorkerPid(p) ==
  /\ \/ /\ at[p] \in WSlot
        /\ Goto(p, "w_scan", "w_look")
        /\ seen' = [seen EXCEPT ![p] = wpid[at[p]]]
        /\ UNCHANGED <<at, new>>
     \/ at[p] = MAX_WORKERS /\ Panic(p, "w_scan")
  /\ UNCHANGED <<memory, workers, slots, cached, manager, cleaning, counts, marks>>

(* Mutant: a slot without a pid is free, occupied or not. *)
TakeUnnamedWorkerSlot(p) ==
  /\ pc[p] = "w_look" /\ seen[p] = 0
  /\ occupied' = [occupied EXCEPT ![at[p]] = TRUE]
  /\ Goto(p, "w_look", "w_pid")
  /\ UNCHANGED <<memory, wpid, slots, locals, cached, manager, cleaning, counts, marks>>

(* A slot without pid is taken through `occupied`, ...                      *)
TakeWorkerSlot(p) ==
  /\ pc[p] = "w_look" /\ seen[p] = 0
  /\ \/ /\ ~occupied[at[p]]
        /\ occupied' = [occupied EXCEPT ![at[p]] = TRUE]
        /\ Goto(p, "w_look", "w_pid")
        /\ UNCHANGED <<at, seen>>
     \/ occupied[at[p]] /\ NextSlot(p, "w_look", "w_scan") /\ UNCHANGED occupied
  /\ UNCHANGED <<memory, wpid, slots, new, cached, manager, cleaning, counts, marks>>

(* ... the slot of a process not found in /proc ...                         *)
LookForWorker(p) ==
  /\ seen[p] # 0
  /\ \/ ~proc_alive(seen[p]) /\ Goto(p, "w_look", "w_cas") /\ UNCHANGED <<at, seen>>
     \/ proc_alive(seen[p]) /\ NextSlot(p, "w_look", "w_scan")
  /\ UNCHANGED <<memory, workers, slots, new, cached, manager, cleaning, counts, marks>>

(* ... by exchanging its pid.                                               *)
ExchangeWorkerPid(p) ==
  LET i == at[p] IN
  /\ pc[p] = "w_cas"
  /\ \/ /\ wpid[i] = seen[p]
        /\ Scan(p, "w_cas", "q_own")
        /\ wpid' = [wpid EXCEPT ![i] = PidOf[p]]
        /\ wstolen' = wstolen \cup {j \in {i} : Recycled(seen[p])}
        /\ HasWorker(p, i)
     \/ /\ wpid[i] # seen[p]
        /\ NextSlot(p, "w_cas", "w_scan")
        /\ UNCHANGED <<wpid, wstolen, new>>
  /\ UNCHANGED <<memory, occupied, slots, cached, manager, cleaning, counts, dropped,
                 qstolen, doubled>>

StoreWorkerPid(p) ==
  /\ Scan(p, "w_pid", "q_own")
  /\ wpid' = [wpid EXCEPT ![at[p]] = PidOf[p]]
  /\ HasWorker(p, at[p])
  /\ UNCHANGED <<memory, occupied, slots, cached, manager, cleaning, counts, marks>>

----------------------------------------------------------------------------
(* register_proc_slot. *)

HasSlot(p, i) == new' = [new EXCEPT ![p].q = i]

ReuseProcSlot(p) ==
  LET mine == {i \in QSlot : is_active[i] /\ qpid[i] = PidOf[p]} IN
  /\ \/ \E i \in mine :
          /\ \A j \in mine : i <= j
          /\ Scan(p, "q_own", "install")
          /\ HasSlot(p, i)
     \/ /\ mine = {}
        /\ Scan(p, "q_own", "q_scan")
        /\ UNCHANGED new
  /\ UNCHANGED <<memory, workers, slots, cached, manager, cleaning, counts, marks>>

(* Mutant: the slot is taken with a plain store. *)
TakeAnyProcSlot(p) ==
  /\ at[p] \in QSlot
  /\ is_active' = [is_active EXCEPT ![at[p]] = TRUE]
  /\ Goto(p, "q_scan", "q_pid")
  /\ UNCHANGED <<memory, workers, qpid, locals, cached, manager, cleaning, counts, marks>>

(* The compare_exchange of is_active; a full registry panics.               *)
TakeProcSlot(p) ==
  /\ \/ /\ at[p] \in QSlot /\ ~is_active[at[p]]
        /\ is_active' = [is_active EXCEPT ![at[p]] = TRUE]
        /\ Goto(p, "q_scan", "q_pid")
        /\ UNCHANGED locals
     \/ /\ at[p] \in QSlot /\ is_active[at[p]]
        /\ Goto(p, "q_scan", "q_load")
        /\ UNCHANGED <<is_active, locals>>
     \/ at[p] = MAX_PROCESSES /\ Panic(p, "q_scan") /\ UNCHANGED is_active
  /\ UNCHANGED <<memory, workers, qpid, cached, manager, cleaning, counts, marks>>

(* The slot of a dead process: load its pid, ...                            *)
LoadProcPid(p) ==
  /\ Goto(p, "q_load", "q_look")
  /\ seen' = [seen EXCEPT ![p] = qpid[at[p]]]
  /\ UNCHANGED <<memory, workers, slots, at, new, cached, manager, cleaning, counts, marks>>

(* ... look for it in /proc ...                                             *)
LookForProc(p) ==
  LET dead == seen[p] # 0 /\ ~proc_alive(seen[p]) IN
  /\ \/ dead /\ Goto(p, "q_look", "q_cas") /\ UNCHANGED <<at, seen>>
     \/ ~dead /\ NextSlot(p, "q_look", "q_scan")
  /\ UNCHANGED <<memory, workers, slots, new, cached, manager, cleaning, counts, marks>>

(* ... and exchange it.                                                     *)
ExchangeProcPid(p) ==
  LET i == at[p] IN
  /\ pc[p] = "q_cas"
  /\ \/ /\ qpid[i] = seen[p]
        /\ Scan(p, "q_cas", "install")
        /\ qpid' = [qpid EXCEPT ![i] = PidOf[p]]
        /\ qstolen' = qstolen \cup {j \in {i} : Recycled(seen[p])}
        /\ HasSlot(p, i)
     \/ /\ qpid[i] # seen[p]
        /\ NextSlot(p, "q_cas", "q_scan")
        /\ UNCHANGED <<qpid, qstolen, new>>
  /\ UNCHANGED <<memory, workers, is_active, cached, manager, cleaning, counts, dropped,
                 wstolen, doubled>>

StoreProcPid(p) ==
  /\ Scan(p, "q_pid", "install")
  /\ qpid' = [qpid EXCEPT ![at[p]] = PidOf[p]]
  /\ HasSlot(p, at[p])
  /\ UNCHANGED <<memory, workers, is_active, cached, manager, cleaning, counts, marks>>

----------------------------------------------------------------------------
(* *guard = Some(...): the client inherited from the parent is dropped,     *)
(* unless a thread of the parent held a clone of it when it forked.         *)
Install(p) ==
  LET old == limiter[p] IN
  /\ limiter' = [limiter EXCEPT ![p] = new[p]]
  /\ new' = [new EXCEPT ![p] = NoClient]
  /\ \/ Goto(p, "install", "app") /\ UNCHANGED at
     \/ /\ old.pid # 0 /\ ~old.stub
        /\ Goto(p, "install", "drop_pid")
        /\ at' = [at EXCEPT ![p] = old.q]
  /\ UNCHANGED <<memory, workers, slots, seen, locked, manager, cleaning, counts, marks>>

(* Drop for SchedulerClientInner: whoever uses the slot now loses it.       *)
DropPid(p) ==
  /\ Goto(p, "drop_pid", "drop_active")
  /\ qpid' = [qpid EXCEPT ![at[p]] = 0]
  /\ dropped' = dropped \cup {at[p]}
  /\ UNCHANGED <<memory, workers, is_active, locals, cached, manager, cleaning, counts,
                 wstolen, qstolen, doubled>>

DropActive(p) ==
  /\ Scan(p, "drop_active", "app")
  /\ is_active' = [is_active EXCEPT ![at[p]] = FALSE]
  /\ UNCHANGED <<memory, workers, qpid, new, cached, manager, cleaning, counts, marks>>

----------------------------------------------------------------------------
(* The manager's side: supervisor::run, create_shmem, ContainerManager::new. *)

SGoto(p, from, to) == sup[p] = from /\ sup' = [sup EXCEPT ![p] = to]

(* Every supervisor creates and sizes the memory before it stands for the   *)
(* election.  (One without configuration, or in its first three seconds,    *)
(* does not get that far.)                                                  *)
CreateShmem(p) ==
  /\ \/ SGoto(p, "open", "truncate") /\ file' = IF file = "absent" THEN "empty" ELSE file
     \/ SGoto(p, "truncate", "elect") /\ file' = "sized"
  /\ UNCHANGED <<initialized, workers, slots, factory, supervisor_pid, mpc, cleaning,
                 counts, marks>>

MGoto(p, from, to) == mpc[p] = from /\ mpc' = [mpc EXCEPT ![p] = to]

(* Another manager does not stand in the way: the role is taken over from   *)
(* one that is alive, too (Election).                                       *)
Elected(p) ==
  /\ sup[p] = "elect"
  /\ MGoto(p, "none", "register")
  /\ UNCHANGED <<memory, workers, slots, factory, supervisor_pid, sup, cleaning, counts, marks>>

(* Mutant: memory_used is reset whenever a manager starts. *)
AlwaysUnpublished == TRUE

Unpublished == ~initialized

(* A full global registry refuses the pod: the role is free again and the   *)
(* memory not published.  Otherwise memory_used is reset, but only the      *)
(* first time, and the flag is stored.                                      *)
PublishShmem(p) ==
  /\ \/ /\ \/ MGoto(p, "register", "none") \/ MGoto(p, "register", "check")
           \/ ~Unpublished /\ MGoto(p, "check", "flag")
           \/ MGoto(p, "zero", "flag")
        /\ UNCHANGED <<initialized, doubled>>
     \/ /\ Unpublished /\ MGoto(p, "check", "zero")
        /\ doubled' = (doubled \/ \E r \in Procs \ {p} : mpc[r] \in {"zero", "flag"})
        /\ UNCHANGED initialized
     \/ MGoto(p, "flag", "manage") /\ initialized' = TRUE /\ UNCHANGED doubled
  /\ UNCHANGED <<file, workers, slots, factory, supervisor_pid, sup, cleaning, counts,
                 dropped, wstolen, qstolen>>

----------------------------------------------------------------------------
(* reap_dead_slots in a manager, recalculate_usage in every other client.   *)

MayClean(p) ==
  \/ mpc[p] = "manage"
  \/ pc[p] = "app" /\ limiter[p].pid = PidOf[p] /\ ~limiter[p].stub

CleanUnchanged ==
  UNCHANGED <<memory, workers, factory, manager, counts, dropped, wstolen, doubled>>

(* The pid of a slot is loaded, ...                                         *)
CleanSlot(p, i) ==
  /\ MayClean(p) /\ cleaning[p] = NotCleaning
  /\ qpid[i] # 0
  /\ cleaning' = [cleaning EXCEPT ![p] = [at |-> i, pid |-> qpid[i], dead |-> FALSE]]
  /\ CleanUnchanged /\ UNCHANGED <<slots, qstolen>>

(* Mutant: the pid's process is not looked for. *)
LookAway(p) ==
  /\ cleaning[p].pid # 0 /\ ~cleaning[p].dead
  /\ cleaning' = [cleaning EXCEPT ![p].dead = TRUE]
  /\ CleanUnchanged /\ UNCHANGED <<slots, qstolen>>

(* ... looked for in /proc ...                                              *)
LookBeforeClean(p) ==
  /\ cleaning[p].pid # 0 /\ ~cleaning[p].dead
  /\ cleaning' = [cleaning EXCEPT ![p] =
                    IF proc_alive(@.pid) THEN NotCleaning ELSE [@ EXCEPT !.dead = TRUE]]
  /\ CleanUnchanged /\ UNCHANGED <<slots, qstolen>>

(* ... and exchanged for 0.                                                 *)
ClearPid(p) ==
  LET i   == cleaning[p].at
      pid == cleaning[p].pid
  IN
  /\ pid # 0 /\ cleaning[p].dead
  /\ \/ /\ qpid[i] = pid
        /\ qpid' = [qpid EXCEPT ![i] = 0]
        /\ qstolen' = qstolen \cup {j \in {i} : Recycled(pid)}
        /\ cleaning' = [cleaning EXCEPT ![p].pid = 0]
     \/ /\ qpid[i] # pid
        /\ cleaning' = [cleaning EXCEPT ![p] = NotCleaning]
        /\ UNCHANGED <<qpid, qstolen>>
  /\ CleanUnchanged /\ UNCHANGED is_active

ClearActive(p) ==
  /\ cleaning[p].at \in QSlot /\ cleaning[p].pid = 0
  /\ is_active' = [is_active EXCEPT ![cleaning[p].at] = FALSE]
  /\ cleaning' = [cleaning EXCEPT ![p] = NotCleaning]
  /\ CleanUnchanged /\ UNCHANGED <<qpid, qstolen>>

----------------------------------------------------------------------------
Construct(p) ==
  \/ MapShmem(p) \/ MapTimeout(p)
  \/ ReuseWorkerSlot(p) \/ LoadWorkerPid(p) \/ TakeWorkerSlot(p)
  \/ LookForWorker(p) \/ ExchangeWorkerPid(p) \/ StoreWorkerPid(p)
  \/ ReuseProcSlot(p) \/ TakeProcSlot(p) \/ LoadProcPid(p)
  \/ LookForProc(p) \/ ExchangeProcPid(p) \/ StoreProcPid(p)
  \/ Install(p) \/ DropPid(p) \/ DropActive(p)

Manage(p) == CreateShmem(p) \/ Elected(p) \/ PublishShmem(p)

Clean(p) ==
  \/ LookBeforeClean(p) \/ ClearPid(p) \/ ClearActive(p)
  \/ \E i \in QSlot : CleanSlot(p, i)

Next ==
  \E p \in Procs :
    \/ Spawn(p) \/ Die(p) \/ Call(p) \/ Construct(p) \/ Manage(p) \/ Clean(p)
    \/ \E c \in Procs : Fork(p, c)

Spec == Init /\ [][Next]_vars

(* The thread inside the factory keeps running.                             *)
FairSpec == Spec /\ \A p \in Procs : WF_vars(Construct(p))

----------------------------------------------------------------------------
(* Properties. *)

(* p works with a client of its own on the shared memory.                   *)
Registered(p) == limiter[p].pid = PidOf[p] /\ ~limiter[p].stub /\ Alive(p)

(* Two processes account for their memory in the same slot only if a forked *)
(* child has dropped its parent's client on that slot, or the slot's pid    *)
(* was found dead and exchanged when a new process had already got it.      *)
ProcSlotsExclusive ==
  \A p, r \in Procs :
    Registered(p) /\ Registered(r) /\ p # r /\ limiter[p].q = limiter[r].q
      => limiter[p].q \in dropped \cup qstolen

(* A registered process is listed under its pid, so that recalculate_usage  *)
(* sums its bytes, and its slot is not free for others, again unless the    *)
(* slot was dropped or its pid exchanged too late.                          *)
RegisteredIsListed ==
  \A p \in Procs : Registered(p) /\ limiter[p].q \notin dropped \cup qstolen
    => qpid[limiter[p].q] = PidOf[p] /\ is_active[limiter[p].q]

(* Two processes, forked or not, report their times in the same slot only   *)
(* if its pid was found dead and exchanged when a new process had got it.   *)
WorkerSlotsExclusive ==
  \A p, r \in Procs :
    Registered(p) /\ Registered(r) /\ p # r /\ limiter[p].w = limiter[r].w
      => limiter[p].w \in wstolen

(* A reset of memory_used finds no client registered, unless two managers   *)
(* at a time have found the memory unpublished.                             *)
NothingWiped ==
  ~doubled => \A p \in Procs : mpc[p] = "zero" => \A i \in QSlot : ~is_active[i]

(* Every call of the factory returns, with a client or with a stub: no      *)
(* process stays inside for ever, except one that was forked while a thread *)
(* of its parent was inside, which finds LIMITER locked and never leaves.   *)
CallReturns == \A p \in Procs : []<>(pc[p] \notin Inside \/ locked[p])
=============================================================================
