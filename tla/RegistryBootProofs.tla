------------------------- MODULE RegistryBootProofs -------------------------
(***************************************************************************)
(* Proofs about the global registry from the moment the first pod creates   *)
(* it: GlobalBaton's invariants hold although open_global_registry makes    *)
(* the file in several steps, and every overlap of two turns has a cause.   *)
(***************************************************************************)
EXTENDS RegistryBoot, GlobalBatonProofs

(* The registry file, the way to its mapping and the reset flag.            *)
SetupTyped ==
  /\ file \in {"absent", "empty", "sized"}
  /\ boot \in [Managers -> Booting \cup {"mapped"}]
  /\ reset \in BOOLEAN

(* No step of the managers' own code touches the file.                      *)
LEMMA NextKeepsSetup == [Next]_vars => UNCHANGED setup
  <1> USE DEF ghosts, setup
  <1>1. ASSUME NEW m \in Managers, Step(m) PROVE UNCHANGED setup
    BY <1>1 DEF Step, RegisterSlot, StorePid, JoinReserve, JoinStore, LoadOwner, CheckOwnerActive,
      ClaimInactive, LoadTimestamp, ReadClock, MarkStale, StealStale, Recheck, Enter, EndTurn, LoadHead,
      ScanCandidate, CheckCandidate, CommitHead, HandOff
  <1>2. ASSUME NEW m \in Managers, Environment(m) PROVE UNCHANGED setup
    BY <1>2 DEF Environment, Start, Beat, Crash, Drop, ReclaimCheck, ReclaimClear
  <1>3. Tick => UNCHANGED setup BY DEF Tick
  <1>4. UNCHANGED vars => UNCHANGED setup BY DEF vars
  <1> QED BY <1>1, <1>2, <1>3, <1>4 DEF Next

(* What a step of open_global_registry leaves alone: nobody comes to life.  *)
LEMMA BootFrame ==
  ASSUME NEW m \in Managers, Typed, Boot(m)
  PROVE  /\ UNCHANGED <<is_active, my_idx, evicted, recycled, seen>>
         /\ pc' \in [Managers -> PC]
         /\ \A n \in Managers : pc'[n] # pc[n] => pc[n] = "off" /\ pc'[n] = "dead"
  <1> USE EveryPlace DEF Typed, TypeOK, Goto, BootGoto, Untouched, locals
  <1>1. CASE OpenRegistry(m) BY <1>1 DEF OpenRegistry
  <1>2. CASE CreateRegistry(m) BY <1>2 DEF CreateRegistry
  <1>3. CASE SizeRegistry(m) BY <1>3 DEF SizeRegistry
  <1>4. CASE InitLockOwner(m) BY <1>4 DEF InitLockOwner
  <1>5. CASE Fault(m) BY <1>5 DEF Fault
  <1>6. CASE BootCrash(m) BY <1>6 DEF BootCrash
  <1> QED BY <1>1, <1>2, <1>3, <1>4, <1>5, <1>6 DEF Boot

(* A step of open_global_registry keeps every type.                         *)
LEMMA BootTyped ==
  ASSUME NEW m \in Managers, Typed, SetupTyped, Boot(m) PROVE Typed' /\ SetupTyped'
  <1> USE IndexFacts, EveryPlace, MaxFailuresAssumption, BootFrame
      DEF Typed, TypeOK, ScanInv, ReclaimInv, SetupTyped, Goto, BootGoto, Booting, Untouched,
          locals, delays, setup
  <1>1. CASE OpenRegistry(m) BY <1>1 DEF OpenRegistry
  <1>2. CASE CreateRegistry(m) BY <1>2 DEF CreateRegistry
  <1>3. CASE SizeRegistry(m) BY <1>3 DEF SizeRegistry
  <1>4. CASE InitLockOwner(m) BY <1>4 DEF InitLockOwner
  <1>5. CASE Fault(m) BY <1>5 DEF Fault
  <1>6. CASE BootCrash(m) BY <1>6 DEF BootCrash
  <1> QED BY <1>1, <1>2, <1>3, <1>4, <1>5, <1>6 DEF Boot

(* The host before its first pod satisfies the typing invariant.            *)
LEMMA BootInitTyped == BootInit => Typed /\ SetupTyped
  <1> SUFFICES ASSUME BootInit PROVE Typed /\ SetupTyped
    OBVIOUS
  <1>1. Typed
    <2>1. /\ pc = [m \in Managers |-> "off"] /\ Nobody \notin Slot
          /\ reclaiming = [m \in Managers |-> Nobody]
      BY ThreadLocalsTyped, MaxManagersAssumption DEF BootInit, Slot, Nobody
    <2>2. overslept \in BOOLEAN /\ recycled \in BOOLEAN
      BY ThreadLocalsTyped, Zenon DEF BootInit
    <2>3. ScanInv /\ ReclaimInv BY <2>1 DEF ScanInv, ReclaimInv
    <2>4. is_active \in [Slot -> BOOLEAN] BY Zenon DEF BootInit
    <2> QED
      BY <2>1, <2>2, <2>3, <2>4, IndexFacts, EveryPlace, ThreadLocalsTyped
      DEF BootInit, Typed, TypeOK, STALE
  <1>2. reset \in BOOLEAN BY Zenon DEF BootInit
  <1> QED BY <1>1, <1>2 DEF BootInit, SetupTyped, Booting

(* Every step keeps every type.                                             *)
LEMMA BootNextTyped ==
  Typed /\ SetupTyped /\ [BootNext]_vars => Typed' /\ SetupTyped'
  <1> SUFFICES ASSUME Typed, SetupTyped, [BootNext]_vars PROVE Typed' /\ SetupTyped'
    OBVIOUS
  <1>1. CASE [Next]_vars
    BY <1>1, NextTyped, NextKeepsSetup DEF SetupTyped, setup
  <1>2. CASE \E m \in Managers : Boot(m) BY <1>2, BootTyped
  <1> QED BY <1>1, <1>2 DEF BootNext

(* The registry is well typed from its creation on, whichever of its        *)
(* creators is interrupted, faults or fails.                                *)
THEOREM BootTypeCorrect == BootSpec => []BootTypeOK
  <1>1. Typed /\ SetupTyped => BootTypeOK BY DEF Typed, SetupTyped, BootTypeOK
  <1> QED BY <1>1, BootInitTyped, BootNextTyped, PTL DEF BootSpec

-----------------------------------------------------------------------------
(* Slot ownership. *)

(* A step of open_global_registry keeps the ownership of the slots.         *)
LEMMA BootOwned == ASSUME NEW m \in Managers, Typed, Owned, Boot(m) PROVE Owned'
  BY BootFrame, SlotFrame, SlotPlaces DEF Live

(* Nobody has a slot of a registry that does not exist.                     *)
LEMMA BootInitOwned == BootInit => Owned
  BY SlotPlaces DEF BootInit, ThreadLocalsInit, Owned, SlotInv, SharedSlotOnlyAfterEviction, Live

(* Every step keeps the ownership.                                          *)
LEMMA BootNextOwned == Typed /\ Owned /\ [BootNext]_vars => Owned'
  BY NextOwned, BootOwned DEF BootNext

(* From the creation of the registry on, two running managers share a slot  *)
(* only when the slot was cleared under one of them.                        *)
THEOREM BootSlotsExclusive == BootSpec => []SharedSlotOnlyAfterEviction
  <1>1. Owned => SharedSlotOnlyAfterEviction BY DEF Owned
  <1>2. BootInit => Typed /\ SetupTyped /\ Owned BY BootInitTyped, BootInitOwned
  <1>3. Typed /\ SetupTyped /\ Owned /\ [BootNext]_vars => (Typed /\ SetupTyped /\ Owned)'
    BY BootNextTyped, BootNextOwned
  <1> QED BY <1>1, <1>2, <1>3, PTL DEF BootSpec

-----------------------------------------------------------------------------
(* Every overlap has a cause. *)

(* Nothing that excuses an overlap has happened yet.                        *)
NoCause == ~reset /\ evicted = {} /\ ~recycled

(* A waiter that is about to compare_exchange lock_owner does so on a slot  *)
(* nobody lives in.                                                         *)
VacantInv ==
  \A m, n \in Managers : pc[m] \in {"claim", "steal"} /\ Live(n) => my_idx[n] # seen[m]

(* As long as nothing went wrong, a holder is whom lock_owner names, and    *)
(* nobody is about to take the lock from a holder.                          *)
CauseInv == NoCause => HolderOwnsLock /\ VacantInv

(* With one slot per manager that is exclusion.                             *)
LEMMA CauseExclusion == Owned /\ CauseInv => OverlapHasACause
  BY JoinedPlaces DEF CauseInv, NoCause, HolderOwnsLock, Owned, SharedSlotOnlyAfterEviction,
    OverlapHasACause, Live

(* A step that makes no holder, no claim and no live manager, and leaves    *)
(* lock_owner and the slots alone, keeps the invariant.                     *)
LEMMA CauseFrame ==
  ASSUME CauseInv, NoCause' => NoCause, lock_owner' = lock_owner,
         \A n \in Managers : Live(n)' => Live(n) /\ my_idx'[n] = my_idx[n],
         \A n \in Managers : pc'[n] \in Holding => pc[n] \in Holding,
         \A n \in Managers :
           pc'[n] \in {"claim", "steal"} => pc[n] \in {"claim", "steal"} /\ seen'[n] = seen[n]
  PROVE  CauseInv'
  BY JoinedPlaces DEF CauseInv, HolderOwnsLock, VacantInv, Live

(* A step of a manager's own code keeps CauseInv: the compare_exchange of a *)
(* claim or of a steal finds no holder to take the lock from, and the       *)
(* hand-off leaves none behind.                                             *)
LEMMA StepCause ==
  ASSUME NEW m \in Managers, Typed, Owned, CauseInv, Step(m) PROVE CauseInv'
  <1> USE JoinedPlaces, SlotPlaces DEF Goto, registry, locals, ghosts, delays, setup
  <1>0. /\ pc \in [Managers -> PC] /\ my_idx \in [Managers -> Index]
        /\ seen \in [Managers -> Index]
    BY DEF Typed, TypeOK
  <1>1. CASE RegisterSlot(m)
    <2>1. CASE TakeFreeSlot(m)
      <3> SUFFICES ASSUME NoCause' PROVE HolderOwnsLock' /\ VacantInv' BY DEF CauseInv
      <3>1. /\ pc' = [pc EXCEPT ![m] = "reg_pid"] /\ pc[m] = "reg"
            /\ my_idx' = [my_idx EXCEPT ![m] = cursor[m]]
            /\ UNCHANGED <<lock_owner, seen, evicted, reset>>
            /\ recycled' = (recycled \/ Contested(cursor[m]))
        BY <1>1, <2>1 DEF RegisterSlot, TakeFreeSlot
      <3>2. NoCause /\ ~Contested(cursor[m]) BY <3>1 DEF NoCause
      <3>3. HolderOwnsLock /\ VacantInv BY <3>2 DEF CauseInv
      <3> QED BY <1>0, <3>1, <3>2, <3>3 DEF HolderOwnsLock, VacantInv, Contested, Live
    <2>2. CASE SkipActiveSlot(m) \/ RegistryFull(m)
      BY <1>0, <1>1, <2>2, CauseFrame
      DEF RegisterSlot, SkipActiveSlot, RegistryFull, NoCause, Live
    <2> QED BY <1>1, <2>1, <2>2 DEF RegisterSlot
  <1>2. CASE LoadOwner(m)
    BY <1>0, <1>2 DEF LoadOwner, TakeTurn, CauseInv, NoCause, HolderOwnsLock, VacantInv, Live
  <1>3. CASE Recheck(m)
    BY <1>0, <1>3 DEF Recheck, TakeTurn, CauseInv, NoCause, HolderOwnsLock, VacantInv, Live
  <1>4. CASE CheckOwnerActive(m)
    <2>1. NoCause /\ ~OwnerActive(seen[m]) =>
            \A n \in Managers : Live(n) => my_idx[n] # seen[m]
      BY <1>0, MaxManagersAssumption DEF NoCause, OwnerActive, Owned, SlotInv, Slot
    <2> QED
      BY <1>0, <1>4, <2>1
      DEF CheckOwnerActive, CauseInv, NoCause, HolderOwnsLock, VacantInv, Live
  <1>5. CASE ClaimInactive(m) \/ StealStale(m)
    <2> SUFFICES ASSUME NoCause' PROVE HolderOwnsLock' /\ VacantInv' BY DEF CauseInv
    <2>1. NoCause /\ UNCHANGED <<my_idx>>
      BY <1>5 DEF ClaimInactive, StealStale, NoCause
    <2>2. HolderOwnsLock /\ VacantInv BY <2>1 DEF CauseInv
    <2>3. CASE /\ lock_owner = seen[m] /\ lock_owner' = my_idx[m]
               /\ pc[m] \in {"claim", "steal"} /\ pc' = [pc EXCEPT ![m] = "enter"]
               /\ seen' = [seen EXCEPT ![m] = Nobody]
      <3>1. \A n \in Managers : pc[n] \notin Holding
        BY <2>2, <2>3 DEF HolderOwnsLock, VacantInv, Live
      <3> QED BY <1>0, <2>1, <2>2, <2>3, <3>1 DEF HolderOwnsLock, VacantInv, Live
    <2>4. CASE /\ UNCHANGED <<lock_owner, seen>>
               /\ pc[m] \in {"claim", "steal"}
               /\ \E p \in {"age", "recheck"} : pc' = [pc EXCEPT ![m] = p]
      BY <1>0, <2>1, <2>2, <2>4 DEF HolderOwnsLock, VacantInv, Live
    <2> QED BY <1>5, <2>3, <2>4 DEF ClaimInactive, StealStale, CasOwner, TakeTurn
  <1>6. CASE MarkStale(m)
    <2> SUFFICES ASSUME NoCause' PROVE HolderOwnsLock' /\ VacantInv' BY DEF CauseInv
    <2>1. /\ UNCHANGED <<my_idx, seen, lock_owner, reset, recycled>>
          /\ pc' = [pc EXCEPT ![m] = "steal"] /\ pc[m] = "mark"
          /\ evicted \subseteq evicted'
      BY <1>6 DEF MarkStale, ClearSlot
    <2>2. NoCause BY <2>1 DEF NoCause
    <2>3. HolderOwnsLock /\ VacantInv BY <2>2 DEF CauseInv
    <2>4. \A n \in Managers : Live(n) => my_idx[n] # seen[m]
      <3>1. CASE ClearSlot(seen[m]) BY <3>1 DEF ClearSlot, NoCause
      <3>2. CASE seen[m] >= MAX_MANAGERS
        BY <1>0, <3>2, MaxManagersAssumption DEF Owned, SlotInv, Slot
      <3> QED BY <1>6, <3>1, <3>2 DEF MarkStale
    <2> QED BY <1>0, <2>1, <2>3, <2>4 DEF HolderOwnsLock, VacantInv, Live
  <1>7. CASE HandOff(m)
    <2> SUFFICES ASSUME NoCause' PROVE HolderOwnsLock' /\ VacantInv' BY DEF CauseInv
    <2>1. /\ UNCHANGED my_idx /\ NoCause
          /\ pc' = [pc EXCEPT ![m] = "wait"] /\ pc[m] = "hand"
          /\ seen' = [seen EXCEPT ![m] = Nobody]
      BY <1>7 DEF HandOff, NoCause
    <2>2. HolderOwnsLock /\ VacantInv BY <2>1 DEF CauseInv
    <2>3. \A n \in Managers : pc[n] \in Holding => n = m
      BY <2>1, CauseExclusion DEF OverlapHasACause, NoCause
    <2> QED BY <1>0, <2>1, <2>2, <2>3 DEF HolderOwnsLock, VacantInv, Live
  <1>8. CASE \/ StorePid(m) \/ JoinReserve(m) \/ JoinStore(m) \/ LoadTimestamp(m) \/ ReadClock(m)
             \/ Enter(m) \/ EndTurn(m)
    BY <1>0, <1>8, CauseFrame
    DEF StorePid, JoinReserve, JoinStore, LoadTimestamp, ReadClock, Enter, EndTurn, NoCause, Live
  <1>9. CASE LoadHead(m) \/ ScanCandidate(m) \/ CheckCandidate(m) \/ CommitHead(m)
    BY <1>0, <1>9, CauseFrame
    DEF LoadHead, ScanCandidate, CheckCandidate, CommitHead, NoCause, Live
  <1> QED BY <1>1, <1>2, <1>3, <1>4, <1>5, <1>6, <1>7, <1>8, <1>9 DEF Step

(* Starts, heartbeats, failures, reclaims and time keep CauseInv.           *)
LEMMA EnvironmentCause ==
  ASSUME NEW m \in Managers, Typed, CauseInv, Environment(m) PROVE CauseInv'
  <1> USE JoinedPlaces, SlotPlaces DEF Goto, registry, locals, ghosts, delays, setup, NoCause, Live
  <1>0. pc \in [Managers -> PC] /\ my_idx \in [Managers -> Index] /\ seen \in [Managers -> Index]
    BY DEF Typed, TypeOK
  <1>1. CASE Start(m) BY <1>0, <1>1, CauseFrame DEF Start
  <1>2. CASE Beat(m) BY <1>0, <1>2, CauseFrame DEF Beat
  <1>3. CASE Crash(m) BY <1>0, <1>3, CauseFrame DEF Crash, Vanish
  <1>4. CASE Drop(m) BY <1>0, <1>4, CauseFrame DEF Drop, Vanish
  <1>5. CASE ReclaimCheck(m) BY <1>0, <1>5, CauseFrame DEF ReclaimCheck
  <1>6. CASE ReclaimClear(m)
    BY <1>0, <1>6, CauseFrame DEF ReclaimClear, ClearSlot, Typed, ReclaimInv
  <1> QED BY <1>1, <1>2, <1>3, <1>4, <1>5, <1>6 DEF Environment

(* Initialising lock_owner under a holder is a cause; without a holder it   *)
(* takes the lock from nobody.                                              *)
LEMMA BootCause == ASSUME NEW m \in Managers, Typed, CauseInv, Boot(m) PROVE CauseInv'
  <1> USE JoinedPlaces, SlotPlaces, BootFrame DEF NoCause, Live
  <1>1. CASE InitLockOwner(m)
    <2>1. reset' = (reset \/ \E n \in Managers : pc[n] \in Holding) /\ UNCHANGED pc
      BY <1>1 DEF InitLockOwner
    <2> QED BY <2>1 DEF CauseInv, HolderOwnsLock, VacantInv
  <1>2. CASE ~InitLockOwner(m)
    <2>1. lock_owner' = lock_owner /\ reset' = reset
      BY <1>2 DEF Boot, OpenRegistry, CreateRegistry, SizeRegistry, Fault, BootCrash, setup
    <2> QED BY <2>1, CauseFrame
  <1> QED BY <1>1, <1>2

(* Every step keeps CauseInv.                                               *)
LEMMA NextCause == Typed /\ Owned /\ CauseInv /\ [BootNext]_vars => CauseInv'
  <1> SUFFICES ASSUME Typed, Owned, CauseInv, [BootNext]_vars PROVE CauseInv'
    OBVIOUS
  <1>1. CASE UNCHANGED vars
    BY <1>1 DEF vars, setup, CauseInv, NoCause, HolderOwnsLock, VacantInv, Live
  <1>2. CASE Tick
    BY <1>2, CauseFrame DEF Tick, registry, locals, ghosts, delays, setup, NoCause, Live
  <1> QED BY <1>1, <1>2, StepCause, EnvironmentCause, BootCause DEF BootNext, Next

(* Nobody holds the lock of a registry that does not exist.                 *)
LEMMA BootInitCause == BootInit => CauseInv
  BY JoinedPlaces, SlotPlaces DEF BootInit, CauseInv, HolderOwnsLock, VacantInv, Live

(* However many pods start, fail and take over, on however slow a host: two *)
(* turns overlap only after lock_owner was initialised under a holder, a    *)
(* live manager lost its slot, or a slot was given out between the look at  *)
(* it and the compare_exchange of wait_for_global_turn.                     *)
THEOREM OverlapsAreCaused == BootSpec => []OverlapHasACause
  <1>1. Owned /\ CauseInv => OverlapHasACause BY CauseExclusion
  <1>2. BootInit => Typed /\ SetupTyped /\ Owned /\ CauseInv
    BY BootInitTyped, BootInitOwned, BootInitCause
  <1>3. Typed /\ SetupTyped /\ Owned /\ CauseInv /\ [BootNext]_vars
          => (Typed /\ SetupTyped /\ Owned /\ CauseInv)'
    BY BootNextTyped, BootNextOwned, NextCause
  <1> QED BY <1>1, <1>2, <1>3, PTL DEF BootSpec
=============================================================================
