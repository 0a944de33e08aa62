---------------------------- MODULE RegistryBoot ----------------------------
(***************************************************************************)
(* How the global registry comes into being: open_global_registry           *)
(* (crates/limiter/src/shmem/setup.rs), run by every manager before it      *)
(* registers, composed with the lock of GlobalBaton.                        *)
(*                                                                         *)
(* The file is created, sized and initialised by separate system calls and  *)
(* stores, without O_EXCL and without a look at its size.  Memory of a      *)
(* sized file is zero until written, lock_owner too; touching a mapping of  *)
(* a file that is still empty kills the process (SIGBUS).  `reset` records   *)
(* that lock_owner was initialised while a manager held the lock.           *)
(***************************************************************************)
EXTENDS GlobalBaton

Booting == {"open", "create", "truncate", "init"}

BootTypeOK ==
  /\ TypeOK
  /\ file \in {"absent", "empty", "sized"}
  /\ boot \in [Managers -> Booting \cup {"mapped"}]
  /\ reset \in BOOLEAN

(* No pod has started on this host.                                         *)
BootInit ==
  /\ file = "absent"
  /\ boot = [m \in Managers |-> "open"]
  /\ reset = FALSE
  /\ lock_owner = 0 /\ lock_age = STALE /\ queue_head = 0 /\ queue_tail = 0
  /\ queue = [i \in Slot |-> 0]
  /\ is_active = [i \in Slot |-> FALSE]
  /\ slot_pid = [i \in Slot |-> NoPid]
  /\ pc = [m \in Managers |-> "off"]
  /\ my_idx = [m \in Managers |-> Nobody]
  /\ ThreadLocalsInit

BootGoto(m, from, to) ==
  pc[m] = "off" /\ boot[m] = from /\ boot' = [boot EXCEPT ![m] = to]

Untouched == <<lock_age, queue_head, queue_tail, queue, is_active, slot_pid, locals, beat,
               reclaiming, evicted, delays, recycled>>

(* open(O_RDWR): an existing file is mapped as it is.                       *)
OpenRegistry(m) ==
  /\ \/ file = "absent" /\ BootGoto(m, "open", "create")
     \/ file # "absent" /\ BootGoto(m, "open", "mapped")
  /\ UNCHANGED <<Untouched, lock_owner, pc, failures, file, reset>>

(* open(O_RDWR | O_CREAT) *)
CreateRegistry(m) ==
  /\ BootGoto(m, "create", "truncate")
  /\ file' = IF file = "absent" THEN "empty" ELSE file
  /\ UNCHANGED <<Untouched, lock_owner, pc, failures, reset>>

(* ftruncate leaves a file that has the size already alone.                 *)
SizeRegistry(m) ==
  /\ BootGoto(m, "truncate", "init")
  /\ file' = "sized"
  /\ UNCHANGED <<Untouched, lock_owner, pc, failures, reset>>

(* needs_init: lock_owner is stored, whoever may own it by now.             *)
InitLockOwner(m) ==
  /\ BootGoto(m, "init", "mapped")
  /\ lock_owner' = Nobody
  /\ reset' = (reset \/ \E n \in Managers : pc[n] \in Holding)
  /\ UNCHANGED <<Untouched, pc, failures, file>>

(* The first access to an empty file (SIGBUS).                              *)
Fault(m) ==
  /\ boot[m] = "mapped" /\ file = "empty"
  /\ Goto(m, "off", "dead")
  /\ UNCHANGED <<Untouched, lock_owner, failures, setup>>

(* The process is killed between two steps of open_global_registry.         *)
BootCrash(m) ==
  /\ boot[m] \in Booting \ {"open"}
  /\ failures < MaxFailures
  /\ failures' = failures + 1
  /\ Goto(m, "off", "dead")
  /\ UNCHANGED <<Untouched, lock_owner, setup>>

Boot(m) ==
  \/ OpenRegistry(m) \/ CreateRegistry(m) \/ SizeRegistry(m) \/ InitLockOwner(m)
  \/ Fault(m) \/ BootCrash(m)

BootNext == Next \/ \E m \in Managers : Boot(m)

BootSpec == BootInit /\ [][BootNext]_vars /\ Fairness

----------------------------------------------------------------------------
(* Properties. *)

(* Creation, registration, crashes and takeovers in any order, on a host of *)
(* any speed: two managers are between taking the lock and handing it on    *)
(* only if lock_owner was initialised under a holder (open_global_registry  *)
(* without O_EXCL), a live manager's slot was cleared, or a slot was given  *)
(* to a new manager between the look at is_active and the compare_exchange  *)
(* of wait_for_global_turn, which then takes the lock from that manager.    *)
OverlapHasACause ==
  \A m, n \in Managers :
    pc[m] \in Holding /\ pc[n] \in Holding /\ m # n => reset \/ evicted # {} \/ recycled
=============================================================================
