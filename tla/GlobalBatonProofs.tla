------------------------- MODULE GlobalBatonProofs -------------------------
(***************************************************************************)
(* Proofs about GlobalBaton, for every set of managers and every registry   *)
(* size.                                                                    *)
(***************************************************************************)
EXTENDS GlobalBaton, TLAPS

(* A ring counter modulo MAX_MANAGERS stays a ring position.                *)
LEMMA SuccInSlot == ASSUME NEW i \in Int PROVE Succ(i) \in Slot
  BY MaxManagersAssumption, SMT DEF Succ, Slot

-----------------------------------------------------------------------------
(* Type correctness, whatever fails and however slow the host is.           *)

(* The types, with the scans and the reclaim inside the registry.           *)
Typed == TypeOK /\ ScanInv /\ ReclaimInv

(* The managers' threads start with nothing in their hands.                 *)
LEMMA ThreadLocalsTyped ==
  ThreadLocalsInit => /\ seen \in [Managers -> Index]
                      /\ cursor \in [Managers -> Index]
                      /\ left \in [Managers -> Index]
                      /\ stamp \in [Managers -> 0 .. STALE]
                      /\ reclaiming = [m \in Managers |-> Nobody]
                      /\ beat = {} /\ evicted = {} /\ displaced = {}
                      /\ overslept \in BOOLEAN
                      /\ failures \in 0 .. MaxFailures
                      /\ recycled \in BOOLEAN
  <1> SUFFICES ASSUME ThreadLocalsInit
               PROVE  /\ seen \in [Managers -> Index]
                      /\ cursor \in [Managers -> Index]
                      /\ left \in [Managers -> Index]
                      /\ stamp \in [Managers -> 0 .. STALE]
                      /\ reclaiming = [m \in Managers |-> Nobody]
                      /\ beat = {} /\ evicted = {} /\ displaced = {}
                      /\ overslept \in BOOLEAN
                      /\ failures \in 0 .. MaxFailures
                      /\ recycled \in BOOLEAN
    OBVIOUS
  <1>1. recycled \in BOOLEAN /\ overslept \in BOOLEAN BY Zenon DEF ThreadLocalsInit
  <1>2. failures \in 0 .. MaxFailures BY MaxFailuresAssumption DEF ThreadLocalsInit
  <1>3. 0 \in Index /\ Nobody \in Index /\ 0 \in 0 .. STALE
    BY MaxManagersAssumption DEF Index, Nobody, STALE
  <1> QED BY <1>1, <1>2, <1>3 DEF ThreadLocalsInit

(* A fresh registry (open_global_registry) satisfies the typing invariant.  *)
LEMMA FreshTyped == FreshInit => Typed
  BY MaxManagersAssumption, ThreadLocalsTyped
  DEF FreshInit, Typed, TypeOK, ScanInv, ReclaimInv, Slot, Index, Nobody, STALE, PC

(* So does a registry whose first pod is in its turn.                       *)
LEMMA EstablishedTyped == EstablishedInit => Typed
  <1> SUFFICES ASSUME EstablishedInit PROVE Typed
    OBVIOUS
  <1>1. /\ seen \in [Managers -> Index]
        /\ cursor \in [Managers -> Index]
        /\ left \in [Managers -> Index]
        /\ stamp \in [Managers -> 0 .. STALE]
        /\ reclaiming = [m \in Managers |-> Nobody]
        /\ beat = {} /\ evicted = {} /\ displaced = {}
        /\ failures \in 0 .. MaxFailures
    BY ThreadLocalsTyped DEF EstablishedInit
  <1>2. recycled \in BOOLEAN /\ overslept \in BOOLEAN
    BY ThreadLocalsTyped, Zenon DEF EstablishedInit
  <1>3. PICK m0 \in Managers :
          /\ lock_owner = 0 /\ lock_age = 0 /\ queue_head = 0 /\ queue_tail = Succ(0)
          /\ queue = [i \in Slot |-> 0]
          /\ is_active = [i \in Slot |-> i = 0]
          /\ slot_pid = [i \in Slot |-> IF i = 0 THEN m0 ELSE NoPid]
          /\ pc = [m \in Managers |-> IF m = m0 THEN "turn" ELSE "off"]
          /\ my_idx = [m \in Managers |-> IF m = m0 THEN 0 ELSE Nobody]
    BY Zenon DEF EstablishedInit
  <1>4. is_active \in [Slot -> BOOLEAN] BY <1>3, Zenon
  <1>5. /\ lock_owner \in Index /\ lock_age \in 0 .. STALE
        /\ queue_head \in Slot /\ queue_tail \in Slot /\ queue \in [Slot -> Index]
        /\ slot_pid \in [Slot -> Managers \cup {NoPid}]
        /\ pc \in [Managers -> PC] /\ my_idx \in [Managers -> Index]
    BY <1>3, MaxManagersAssumption, SuccInSlot DEF Slot, Index, Nobody, STALE, PC, Holding
  <1>6. ScanInv /\ ReclaimInv
    BY <1>1, <1>3, MaxManagersAssumption DEF ScanInv, ReclaimInv, Slot, Nobody
  <1>7. reclaiming \in [Managers -> Index]
    BY <1>1, MaxManagersAssumption DEF Index, Nobody
  <1> QED BY <1>1, <1>2, <1>4, <1>5, <1>6, <1>7 DEF Typed, TypeOK

(* The places a manager may go to are in PC.                                 *)
LEMMA EveryPlace ==
  \A p \in {"off", "dead", "reg", "reg_pid", "join", "enq", "wait", "chk", "claim", "age",
          "clock", "mark", "steal", "recheck", "enter", "turn", "rejoin", "reenq", "head", "scan",
          "scan_chk", "commit", "hand"} : p \in PC
  BY DEF PC, Registering, Joining, WaitLoop, Passing, Holding

(* Arithmetic on ring positions and slot indices.                           *)
LEMMA IndexFacts ==
  /\ Slot \subseteq Index
  /\ 0 \in Slot /\ 0 \in Index /\ Nobody \in Index /\ MAX_MANAGERS \in Index
  /\ \A i \in Slot : i + 1 \in Index /\ Succ(i) \in Slot /\ Succ(i) \in Index
  /\ \A i \in Index : i >= 1 => i - 1 \in Index
  /\ \A i \in Index : i > 1 => i - 1 >= 1
  /\ \A i \in Index : i < MAX_MANAGERS => i \in Slot
  /\ MAX_MANAGERS >= 1
  BY MaxManagersAssumption, SMT DEF Slot, Index, Nobody, Succ

(* A step of a manager's own code keeps the typing invariant.                *)
LEMMA StepTyped == ASSUME NEW m \in Managers, Typed, Step(m) PROVE Typed'
  <1> USE IndexFacts, EveryPlace DEF Typed, ReclaimInv, Goto, registry, locals, ghosts, delays
  <1>1. CASE RegisterSlot(m)
    <2>1. CASE TakeFreeSlot(m)
      BY <1>1, <2>1 DEF RegisterSlot, TakeFreeSlot, TypeOK, ScanInv
    <2>2. CASE SkipActiveSlot(m)
      BY <1>1, <2>2 DEF RegisterSlot, SkipActiveSlot, TypeOK, ScanInv
    <2>3. CASE RegistryFull(m)
      BY <1>1, <2>3 DEF RegisterSlot, RegistryFull, TypeOK, ScanInv
    <2> QED BY <1>1, <2>1, <2>2, <2>3 DEF RegisterSlot
  <1>2. CASE StorePid(m)
    <2>1. TypeOK' BY <1>2 DEF StorePid, TypeOK, ScanInv
    <2>2. ScanInv' /\ ReclaimInv' BY <1>2 DEF StorePid, TypeOK, ScanInv
    <2> QED BY <2>1, <2>2
  <1>3. CASE JoinReserve(m)
    <2>1. TypeOK' BY <1>3 DEF JoinReserve, TypeOK, ScanInv
    <2>2. ScanInv' /\ ReclaimInv' BY <1>3 DEF JoinReserve, TypeOK, ScanInv
    <2> QED BY <2>1, <2>2
  <1>4. CASE JoinStore(m)
    <2>1. TypeOK' BY <1>4 DEF JoinStore, TypeOK, ScanInv
    <2>2. ScanInv' /\ ReclaimInv' BY <1>4 DEF JoinStore, TypeOK, ScanInv
    <2> QED BY <2>1, <2>2
  <1>5. CASE LoadOwner(m)
    <2>1. TypeOK' BY <1>5 DEF LoadOwner, TakeTurn, TypeOK, ScanInv
    <2>2. ScanInv' /\ ReclaimInv' BY <1>5 DEF LoadOwner, TakeTurn, TypeOK, ScanInv
    <2> QED BY <2>1, <2>2
  <1>6. CASE CheckOwnerActive(m)
    <2>1. TypeOK' BY <1>6 DEF CheckOwnerActive, TypeOK, ScanInv
    <2>2. ScanInv' /\ ReclaimInv' BY <1>6 DEF CheckOwnerActive, TypeOK, ScanInv
    <2> QED BY <2>1, <2>2
  <1>7. CASE ClaimInactive(m)
    <2>1. TypeOK' BY <1>7 DEF ClaimInactive, CasOwner, TakeTurn, TypeOK, ScanInv
    <2>2. ScanInv' /\ ReclaimInv' BY <1>7 DEF ClaimInactive, CasOwner, TakeTurn, TypeOK, ScanInv
    <2> QED BY <2>1, <2>2
  <1>8. CASE LoadTimestamp(m) \/ ReadClock(m)
    <2>1. 0 \in 0 .. STALE BY DEF STALE
    <2>2. TypeOK' BY <1>8, <2>1 DEF LoadTimestamp, ReadClock, TypeOK, ScanInv
    <2>3. ScanInv' /\ ReclaimInv' BY <1>8 DEF LoadTimestamp, ReadClock, TypeOK, ScanInv
    <2> QED BY <2>2, <2>3
  <1>9. CASE MarkStale(m)
    <2>1. TypeOK' BY <1>9 DEF MarkStale, ClearSlot, TypeOK, ScanInv
    <2>2. ScanInv' /\ ReclaimInv' BY <1>9 DEF MarkStale, ClearSlot, TypeOK, ScanInv
    <2> QED BY <2>1, <2>2
  <1>10. CASE StealStale(m)
    <2>1. TypeOK' BY <1>10 DEF StealStale, CasOwner, TakeTurn, TypeOK, ScanInv
    <2>2. ScanInv' /\ ReclaimInv' BY <1>10 DEF StealStale, CasOwner, TakeTurn, TypeOK, ScanInv
    <2> QED BY <2>1, <2>2
  <1>11. CASE Recheck(m)
    <2>1. TypeOK' BY <1>11 DEF Recheck, TakeTurn, TypeOK, ScanInv
    <2>2. ScanInv' /\ ReclaimInv' BY <1>11 DEF Recheck, TakeTurn, TypeOK, ScanInv
    <2> QED BY <2>1, <2>2
  <1>12. CASE Enter(m)
    <2>1. TypeOK' BY <1>12 DEF Enter, update_heartbeat, STALE, TypeOK, ScanInv
    <2>2. ScanInv' /\ ReclaimInv' BY <1>12 DEF Enter, update_heartbeat, STALE, TypeOK, ScanInv
    <2> QED BY <2>1, <2>2
  <1>13. CASE EndTurn(m)
    <2>1. TypeOK' BY <1>13 DEF EndTurn, TypeOK, ScanInv
    <2>2. ScanInv' /\ ReclaimInv' BY <1>13 DEF EndTurn, TypeOK, ScanInv
    <2> QED BY <2>1, <2>2
  <1>14. CASE LoadHead(m)
    <2>1. TypeOK' BY <1>14 DEF LoadHead, TypeOK, ScanInv
    <2>2. ScanInv' /\ ReclaimInv' BY <1>14 DEF LoadHead, TypeOK, ScanInv
    <2> QED BY <2>1, <2>2
  <1>15. CASE ScanCandidate(m)
    <2>1. TypeOK' BY <1>15 DEF ScanCandidate, TypeOK, ScanInv
    <2>2. ScanInv' /\ ReclaimInv' BY <1>15 DEF ScanCandidate, TypeOK, ScanInv
    <2> QED BY <2>1, <2>2
  <1>16. CASE CheckCandidate(m)
    <2>1. TypeOK' BY <1>16 DEF CheckCandidate, TypeOK, ScanInv
    <2>2. ScanInv' /\ ReclaimInv' BY <1>16 DEF CheckCandidate, TypeOK, ScanInv
    <2> QED BY <2>1, <2>2
  <1>17. CASE CommitHead(m)
    <2>1. TypeOK' BY <1>17 DEF CommitHead, TypeOK, ScanInv
    <2>2. ScanInv' /\ ReclaimInv' BY <1>17 DEF CommitHead, TypeOK, ScanInv
    <2> QED BY <2>1, <2>2
  <1>18. CASE HandOff(m)
    <2>1. TypeOK' BY <1>18 DEF HandOff, TypeOK, ScanInv
    <2>2. ScanInv' /\ ReclaimInv' BY <1>18 DEF HandOff, TypeOK, ScanInv
    <2> QED BY <2>1, <2>2
  <1> QED
    BY <1>1, <1>2, <1>3, <1>4, <1>5, <1>6, <1>7, <1>8, <1>9, <1>10, <1>11, <1>12,
       <1>13, <1>14, <1>15, <1>16, <1>17, <1>18 DEF Step

(* So do starts, extra heartbeats, failures and reclaims, ...                *)
LEMMA EnvironmentTyped == ASSUME NEW m \in Managers, Typed, Environment(m) PROVE Typed'
  <1> USE IndexFacts, EveryPlace, MaxFailuresAssumption
      DEF Typed, TypeOK, ScanInv, ReclaimInv, Goto, registry, locals, ghosts, delays
  <1>1. CASE Start(m) BY <1>1 DEF Start
  <1>2. CASE Beat(m) BY <1>2 DEF Beat, update_heartbeat, STALE
  <1>3. CASE Crash(m) BY <1>3 DEF Crash, Vanish, STALE
  <1>4. CASE Drop(m)
    <2>1. is_active' \in [Slot -> BOOLEAN] /\ pc' \in [Managers -> PC]
      BY <1>4 DEF Drop, Vanish
    <2>2. failures' \in 0 .. MaxFailures /\ evicted' \in SUBSET Managers
      BY <1>4 DEF Drop, Vanish
    <2> QED BY <1>4, <2>1, <2>2 DEF Drop, Vanish, STALE
  <1>5. CASE ReclaimCheck(m) BY <1>5 DEF ReclaimCheck
  <1>6. CASE ReclaimClear(m) BY <1>6 DEF ReclaimClear, ClearSlot
  <1> QED BY <1>1, <1>2, <1>3, <1>4, <1>5, <1>6 DEF Environment

(* ... the passing of time ...                                               *)
LEMMA TickTyped == ASSUME Typed, Tick PROVE Typed'
  <1>1. stamp' \in [Managers -> 0 .. STALE] /\ lock_age' \in 0 .. STALE
    BY DEF Tick, Older, Typed, TypeOK, STALE
  <1>2. overslept' \in BOOLEAN BY Zenon DEF Tick
  <1>3. TypeOK' BY <1>1, <1>2 DEF Tick, Typed, TypeOK, registry
  <1>4. ScanInv' /\ ReclaimInv' BY DEF Tick, Typed, ScanInv, ReclaimInv, registry
  <1> QED BY <1>3, <1>4 DEF Typed

(* ... and every step.                                                       *)
LEMMA NextTyped == Typed /\ [Next]_vars => Typed'
  <1> SUFFICES ASSUME Typed, [Next]_vars PROVE Typed'
    OBVIOUS
  <1>1. CASE UNCHANGED vars
    BY <1>1 DEF vars, delays, Typed, TypeOK, ScanInv, ReclaimInv
  <1> QED BY <1>1, StepTyped, EnvironmentTyped, TickTyped DEF Next

(* Every variable keeps its type in every run from a fresh registry.        *)
THEOREM TypeCorrect == FreshSpec => []TypeOK
  <1>1. Typed => TypeOK BY DEF Typed
  <1> QED BY <1>1, FreshTyped, NextTyped, PTL DEF FreshSpec

-----------------------------------------------------------------------------
(* Slot ownership, whatever fails and however slow the host is.             *)

(* The inductive invariant of SharedSlotOnlyAfterEviction.                  *)
Owned == SlotInv /\ SharedSlotOnlyAfterEviction

(* The places at which a manager has a registry slot.                        *)
LEMMA SlotPlaces ==
  /\ \A p \in {"reg_pid", "join", "enq", "wait", "chk", "claim", "age", "clock", "mark", "steal",
             "recheck", "enter", "turn", "rejoin", "reenq", "head", "scan", "scan_chk",
             "commit", "hand"} : p \in HasSlot
  /\ \A p \in {"off", "dead", "reg"} : p \notin HasSlot
  BY DEF HasSlot, Joining, WaitLoop, Passing, Holding

(* Nobody has a slot of a fresh registry.                                    *)
LEMMA FreshOwned == FreshInit => Owned
  BY SlotPlaces DEF FreshInit, ThreadLocalsInit, Owned, SlotInv,
    SharedSlotOnlyAfterEviction, Live

(* A step that starts nobody and moves no slot keeps the ownership.         *)
LEMMA SlotFrame ==
  ASSUME Owned, UNCHANGED <<is_active, my_idx, evicted>>,
         \A n \in Managers : Live(n)' => Live(n)
  PROVE  Owned'
  BY DEF Owned, SlotInv, SharedSlotOnlyAfterEviction, Live

(* Clearing a slot evicts everyone who uses it.                             *)
LEMMA ClearOwned ==
  ASSUME Typed, Owned, NEW i \in Slot,
         is_active' = [is_active EXCEPT ![i] = FALSE],
         evicted \subseteq evicted',
         \A n \in Managers : Live(n)' /\ my_idx[n] = i => n \in evicted',
         \A n \in Managers : Live(n)' => Live(n) /\ my_idx'[n] = my_idx[n]
  PROVE  Owned'
  BY DEF Typed, TypeOK, Owned, SlotInv, SharedSlotOnlyAfterEviction, Live

(* A step of a manager's own code keeps the ownership: only the              *)
(* compare_exchange of register_global_slot gives a slot away, and only the  *)
(* watchdog clears one.                                                      *)
LEMMA StepOwned == ASSUME NEW m \in Managers, Typed, Owned, Step(m) PROVE Owned'
  <1> USE SlotPlaces DEF Live, Goto, registry, locals, ghosts, delays
  <1>1. CASE RegisterSlot(m)
    <2>1. CASE TakeFreeSlot(m)
      BY <1>1, <2>1 DEF RegisterSlot, TakeFreeSlot, Typed, TypeOK, Owned, SlotInv,
        SharedSlotOnlyAfterEviction
    <2>2. CASE SkipActiveSlot(m) \/ RegistryFull(m)
      BY <1>1, <2>2, SlotFrame DEF RegisterSlot, SkipActiveSlot, RegistryFull, Typed, TypeOK
    <2> QED BY <1>1, <2>1, <2>2 DEF RegisterSlot
  <1>2. CASE MarkStale(m)
    <2>0. \A n \in Managers : Live(n)' => Live(n) /\ my_idx'[n] = my_idx[n]
      BY <1>2 DEF MarkStale, Typed, TypeOK
    <2>1. CASE seen[m] < MAX_MANAGERS /\ ClearSlot(seen[m])
      <3>1. seen[m] \in Slot BY <2>1, IndexFacts DEF Typed, TypeOK
      <3> QED BY <2>0, <2>1, <3>1, ClearOwned DEF ClearSlot
    <2>2. CASE UNCHANGED <<is_active, evicted>>
      BY <1>2, <2>0, <2>2, SlotFrame DEF MarkStale
    <2> QED BY <1>2, <2>1, <2>2 DEF MarkStale
  <1>3. ASSUME \/ StorePid(m) \/ JoinReserve(m) \/ JoinStore(m)
               \/ LoadOwner(m) \/ CheckOwnerActive(m) \/ ClaimInactive(m)
        PROVE Owned'
    BY <1>3, SlotFrame DEF StorePid, JoinReserve, JoinStore, LoadOwner, CheckOwnerActive,
      ClaimInactive, CasOwner, TakeTurn, Typed, TypeOK
  <1>4. ASSUME \/ LoadTimestamp(m) \/ ReadClock(m) \/ StealStale(m) \/ Recheck(m)
               \/ Enter(m) \/ EndTurn(m)
        PROVE Owned'
    BY <1>4, SlotFrame DEF LoadTimestamp, ReadClock, StealStale, Recheck, Enter, EndTurn,
      CasOwner, TakeTurn, Typed, TypeOK
  <1>5. ASSUME \/ LoadHead(m) \/ ScanCandidate(m) \/ CheckCandidate(m)
               \/ CommitHead(m) \/ HandOff(m)
        PROVE Owned'
    BY <1>5, SlotFrame DEF LoadHead, ScanCandidate, CheckCandidate, CommitHead, HandOff,
      Typed, TypeOK
  <1> QED BY <1>1, <1>2, <1>3, <1>4, <1>5 DEF Step

(* Failures and reclaims evict whoever uses the slot they clear.             *)
LEMMA EnvironmentOwned ==
  ASSUME NEW m \in Managers, Typed, Owned, Environment(m) PROVE Owned'
  <1> USE SlotPlaces DEF Live, Goto, registry, locals, ghosts, delays
  <1>1. CASE Drop(m)
    <2>1. m \in Managers /\ pc[m] \in HasSlot /\ my_idx[m] \in Slot
      BY <1>1 DEF Drop, Vanish, HasSlot, Owned, SlotInv
    <2>2. \A n \in Managers : Live(n)' => Live(n) /\ my_idx'[n] = my_idx[n]
      BY <1>1 DEF Drop, Vanish, Typed, TypeOK
    <2>3. /\ evicted \subseteq evicted'
          /\ \A n \in Managers : Live(n)' /\ my_idx[n] = my_idx[m] => n \in evicted'
          /\ is_active' = [is_active EXCEPT ![my_idx[m]] = FALSE]
      BY <1>1, <2>2 DEF Drop, Vanish, Typed, TypeOK
    <2> QED BY <2>1, <2>2, <2>3, ClearOwned
  <1>2. CASE ReclaimClear(m)
    <2>1. \A n \in Managers : Live(n)' => Live(n) /\ my_idx'[n] = my_idx[n]
      BY <1>2 DEF ReclaimClear, Typed, TypeOK
    <2>2. /\ evicted \subseteq evicted'
          /\ \A n \in Managers : Live(n)' /\ my_idx[n] = reclaiming[m] => n \in evicted'
          /\ is_active' = [is_active EXCEPT ![reclaiming[m]] = FALSE]
          /\ reclaiming[m] \in Slot
      BY <1>2, <2>1 DEF ReclaimClear, ClearSlot
    <2> QED BY <2>1, <2>2, ClearOwned
  <1>3. CASE Start(m) \/ Beat(m) \/ Crash(m) \/ ReclaimCheck(m)
    BY <1>3, SlotFrame DEF Start, Beat, Crash, Vanish, ReclaimCheck, Typed, TypeOK
  <1> QED BY <1>1, <1>2, <1>3 DEF Environment

(* Every step keeps the ownership.                                           *)
LEMMA NextOwned == Typed /\ Owned /\ [Next]_vars => Owned'
  <1> SUFFICES ASSUME Typed, Owned, [Next]_vars PROVE Owned'
    OBVIOUS
  <1>1. CASE UNCHANGED vars BY <1>1, SlotFrame DEF vars, Live
  <1>2. CASE Tick BY <1>2, SlotFrame DEF Tick, registry, locals, ghosts, Live
  <1> QED BY <1>1, <1>2, StepOwned, EnvironmentOwned DEF Next

(* Two running managers come to share a registry slot only when the slot    *)
(* was cleared under one of them: compare_exchange on is_active never hands *)
(* out a slot that somebody else still holds.                               *)
THEOREM SlotsExclusive == FreshSpec => []SharedSlotOnlyAfterEviction
  <1>1. Owned => SharedSlotOnlyAfterEviction BY DEF Owned
  <1>2. FreshInit => Typed /\ Owned BY FreshTyped, FreshOwned
  <1>3. Typed /\ Owned /\ [Next]_vars => (Typed /\ Owned)' BY NextTyped, NextOwned
  <1> QED BY <1>1, <1>2, <1>3, PTL DEF FreshSpec

-----------------------------------------------------------------------------
(* Mutual exclusion on a timely host without failures.                      *)

(* The places after join_global_queue, and those of a holder.                *)
LEMMA JoinedPlaces ==
  /\ \A p \in {"wait", "chk", "claim", "age", "clock", "mark", "steal", "recheck", "enter", "turn",
             "rejoin", "reenq", "head", "scan", "scan_chk", "commit", "hand"} : p \in Joined
  /\ \A p \in {"off", "dead", "reg", "reg_pid", "join", "enq"} : p \notin Joined
  /\ \A p \in {"enter", "turn", "rejoin", "reenq", "head", "scan", "scan_chk", "commit",
             "hand"} : p \in Holding
  /\ \A p \in {"off", "dead", "reg", "reg_pid", "join", "enq", "wait", "chk", "claim",
             "age", "clock", "mark", "steal", "recheck"} : p \notin Holding
  /\ Joined \subseteq HasSlot /\ Holding \subseteq HasSlot
  BY DEF Joined, HasSlot, WaitLoop, Passing, Holding, Joining

(* The first pod owns slot 0.                                                *)
LEMMA EstablishedOwned == EstablishedInit => Owned
  <1> SUFFICES ASSUME EstablishedInit PROVE Owned
    OBVIOUS
  <1>1. PICK m0 \in Managers :
          /\ pc = [m \in Managers |-> IF m = m0 THEN "turn" ELSE "off"]
          /\ my_idx = [m \in Managers |-> IF m = m0 THEN 0 ELSE Nobody]
          /\ is_active = [i \in Slot |-> i = 0]
    BY DEF EstablishedInit
  <1>2. \A n \in Managers : Live(n) => n = m0 BY <1>1, SlotPlaces DEF Live
  <1>3. my_idx[m0] \in Slot /\ is_active[my_idx[m0]] BY <1>1, IndexFacts
  <1> QED BY <1>2, <1>3 DEF Owned, SlotInv, SharedSlotOnlyAfterEviction

(* An established pod holds the lock and heartbeats.                         *)
LEMMA EstablishedCalm == EstablishedInit => CalmInv
  <1> SUFFICES ASSUME EstablishedInit PROVE CalmInv
    OBVIOUS
  <1>1. PICK m0 \in Managers :
          /\ pc = [m \in Managers |-> IF m = m0 THEN "turn" ELSE "off"]
          /\ my_idx = [m \in Managers |-> IF m = m0 THEN 0 ELSE Nobody]
          /\ lock_owner = 0 /\ queue = [i \in Slot |-> 0]
    BY DEF EstablishedInit
  <1>2. NamesJoined(0) BY <1>1, JoinedPlaces DEF NamesJoined
  <1>3. RingNamesJoined BY <1>1, <1>2 DEF RingNamesJoined
  <1>4. NoTakeover /\ HolderOwnsLock BY <1>1, JoinedPlaces DEF NoTakeover, HolderOwnsLock
  <1>5. NoEviction /\ HeartbeatFresh
    BY <1>1 DEF EstablishedInit, ThreadLocalsInit, NoEviction, HeartbeatFresh, STALE
  <1> QED BY <1>3, <1>4, <1>5 DEF CalmInv

(* Who has joined stays joined.                                             *)
LEMMA NamesJoinedStays ==
  ASSUME \A n \in Managers : pc[n] \in Joined => pc'[n] \in Joined /\ my_idx'[n] = my_idx[n],
         NEW i, NamesJoined(i)
  PROVE  \E n \in Managers : pc'[n] \in Joined /\ my_idx'[n] = i
  BY DEF NamesJoined

(* A slot that names a joined manager is active.                            *)
LEMMA JoinedIsActive ==
  ASSUME Typed, Owned, CalmInv, NEW i, NamesJoined(i)
  PROVE  OwnerActive(i)
  BY IndexFacts, JoinedPlaces, MaxManagersAssumption
  DEF NamesJoined, Owned, SlotInv, CalmInv, NoEviction, OwnerActive, Live, Slot

(* There is at most one holder.                                             *)
LEMMA CalmExclusion == Owned /\ CalmInv => MutualExclusion
  BY JoinedPlaces DEF Owned, SharedSlotOnlyAfterEviction, CalmInv, NoEviction,
    HolderOwnsLock, MutualExclusion, Live

(* A step of a manager's own code keeps CalmInv: the ring only ever yields   *)
(* managers that joined, whose slots are active, and the heartbeat is fresh, *)
(* so neither the claim nor the watchdog branch is taken.                    *)
LEMMA StepCalm ==
  ASSUME NEW m \in Managers, Typed, Owned, CalmInv, Step(m) PROVE CalmInv'
  <1> USE JoinedPlaces DEF Goto, registry, locals, ghosts, delays
  <1>0. /\ pc \in [Managers -> PC] /\ my_idx \in [Managers -> Index]
        /\ seen \in [Managers -> Index] /\ queue \in [Slot -> Index]
    BY DEF Typed, TypeOK
  <1>1. CASE RegisterSlot(m)
    <2> USE <1>0, <1>1 DEF RegisterSlot, TakeFreeSlot, SkipActiveSlot, RegistryFull
    <2>1. \A n \in Managers : pc[n] \in Joined => pc'[n] \in Joined /\ my_idx'[n] = my_idx[n]
      OBVIOUS
    <2>2. RingNamesJoined'
      BY <2>1, NamesJoinedStays DEF CalmInv, RingNamesJoined, NamesJoined
    <2>3. NoTakeover' /\ HolderOwnsLock' /\ NoEviction' /\ HeartbeatFresh'
      BY <2>1 DEF CalmInv, NoTakeover, HolderOwnsLock, NoEviction, HeartbeatFresh
    <2> QED BY <2>2, <2>3 DEF CalmInv
  <1>2. CASE StorePid(m)
    <2> USE <1>0, <1>2 DEF StorePid
    <2>1. \A n \in Managers : pc[n] \in Joined => pc'[n] \in Joined /\ my_idx'[n] = my_idx[n]
      OBVIOUS
    <2>2. RingNamesJoined'
      BY <2>1, NamesJoinedStays DEF CalmInv, RingNamesJoined, NamesJoined
    <2>3. NoTakeover' /\ HolderOwnsLock' /\ NoEviction' /\ HeartbeatFresh'
      BY <2>1 DEF CalmInv, NoTakeover, HolderOwnsLock, NoEviction, HeartbeatFresh
    <2> QED BY <2>2, <2>3 DEF CalmInv
  <1>3. CASE JoinReserve(m)
    <2> USE <1>0, <1>3 DEF JoinReserve
    <2>1. \A n \in Managers : pc[n] \in Joined => pc'[n] \in Joined /\ my_idx'[n] = my_idx[n]
      OBVIOUS
    <2>2. RingNamesJoined'
      BY <2>1, NamesJoinedStays DEF CalmInv, RingNamesJoined, NamesJoined
    <2>3. NoTakeover' /\ HolderOwnsLock' /\ NoEviction' /\ HeartbeatFresh'
      BY <2>1 DEF CalmInv, NoTakeover, HolderOwnsLock, NoEviction, HeartbeatFresh
    <2> QED BY <2>2, <2>3 DEF CalmInv
  <1>4. CASE JoinStore(m)
    <2> USE <1>0, <1>4 DEF JoinStore
    <2>1. \A n \in Managers : pc[n] \in Joined => pc'[n] \in Joined /\ my_idx'[n] = my_idx[n]
      OBVIOUS
    <2>2. RingNamesJoined'
      BY <2>1, NamesJoinedStays DEF CalmInv, RingNamesJoined, NamesJoined
    <2>3. NoTakeover' /\ HolderOwnsLock' /\ NoEviction' /\ HeartbeatFresh'
      BY <2>1 DEF CalmInv, NoTakeover, HolderOwnsLock, NoEviction, HeartbeatFresh
    <2> QED BY <2>2, <2>3 DEF CalmInv
  <1>5. CASE LoadOwner(m)
    <2> USE <1>0, <1>5 DEF LoadOwner, TakeTurn
    <2>1. \A n \in Managers : pc[n] \in Joined => pc'[n] \in Joined /\ my_idx'[n] = my_idx[n]
      OBVIOUS
    <2>2. RingNamesJoined'
      BY <2>1, NamesJoinedStays DEF CalmInv, RingNamesJoined, NamesJoined
    <2>3. NoTakeover' /\ HolderOwnsLock' /\ NoEviction' /\ HeartbeatFresh'
      BY <2>1 DEF CalmInv, NoTakeover, HolderOwnsLock, NoEviction, HeartbeatFresh
    <2> QED BY <2>2, <2>3 DEF CalmInv
  <1>6. CASE CheckOwnerActive(m)
    <2> USE <1>0, <1>6 DEF CheckOwnerActive
    <2>0. OwnerActive(seen[m]) BY JoinedIsActive DEF CalmInv, RingNamesJoined
    <2>1. \A n \in Managers : pc[n] \in Joined => pc'[n] \in Joined /\ my_idx'[n] = my_idx[n]
      OBVIOUS
    <2>2. RingNamesJoined'
      BY <2>0, <2>1, NamesJoinedStays DEF CalmInv, RingNamesJoined, NamesJoined
    <2>3. NoTakeover' /\ HolderOwnsLock' /\ NoEviction' /\ HeartbeatFresh'
      BY <2>0, <2>1 DEF CalmInv, NoTakeover, HolderOwnsLock, NoEviction, HeartbeatFresh
    <2> QED BY <2>2, <2>3 DEF CalmInv
  <1>7. CASE LoadTimestamp(m) \/ ReadClock(m)
    <2> USE <1>0, <1>7 DEF LoadTimestamp, ReadClock
    <2>1. \A n \in Managers : pc[n] \in Joined => pc'[n] \in Joined /\ my_idx'[n] = my_idx[n]
      OBVIOUS
    <2>2. RingNamesJoined'
      BY <2>1, NamesJoinedStays DEF CalmInv, RingNamesJoined, NamesJoined
    <2>3. NoTakeover' /\ HolderOwnsLock' /\ NoEviction'
      BY <2>1 DEF Typed, TypeOK, STALE, CalmInv, NoTakeover, HolderOwnsLock, NoEviction,
        HeartbeatFresh
    <2>4. HeartbeatFresh' BY DEF Typed, TypeOK, STALE, CalmInv, HeartbeatFresh
    <2> QED BY <2>2, <2>3, <2>4 DEF CalmInv
  <1>8. CASE Recheck(m)
    <2> USE <1>0, <1>8 DEF Recheck, TakeTurn
    <2>1. \A n \in Managers : pc[n] \in Joined => pc'[n] \in Joined /\ my_idx'[n] = my_idx[n]
      OBVIOUS
    <2>2. RingNamesJoined'
      BY <2>1, NamesJoinedStays DEF CalmInv, RingNamesJoined, NamesJoined
    <2>3. NoTakeover' /\ HolderOwnsLock' /\ NoEviction' /\ HeartbeatFresh'
      BY <2>1 DEF CalmInv, NoTakeover, HolderOwnsLock, NoEviction, HeartbeatFresh
    <2> QED BY <2>2, <2>3 DEF CalmInv
  <1>9. CASE Enter(m)
    <2> USE <1>0, <1>9 DEF Enter, update_heartbeat
    <2>1. \A n \in Managers : pc[n] \in Joined => pc'[n] \in Joined /\ my_idx'[n] = my_idx[n]
      OBVIOUS
    <2>2. RingNamesJoined'
      BY <2>1, NamesJoinedStays DEF CalmInv, RingNamesJoined, NamesJoined
    <2>3. NoTakeover' /\ HolderOwnsLock' /\ NoEviction' /\ HeartbeatFresh'
      BY <2>1 DEF STALE, CalmInv, NoTakeover, HolderOwnsLock, NoEviction, HeartbeatFresh
    <2> QED BY <2>2, <2>3 DEF CalmInv
  <1>10. CASE EndTurn(m)
    <2> USE <1>0, <1>10 DEF EndTurn
    <2>1. \A n \in Managers : pc[n] \in Joined => pc'[n] \in Joined /\ my_idx'[n] = my_idx[n]
      OBVIOUS
    <2>2. RingNamesJoined'
      BY <2>1, NamesJoinedStays DEF CalmInv, RingNamesJoined, NamesJoined
    <2>3. NoTakeover' /\ HolderOwnsLock' /\ NoEviction' /\ HeartbeatFresh'
      BY <2>1 DEF CalmInv, NoTakeover, HolderOwnsLock, NoEviction, HeartbeatFresh
    <2> QED BY <2>2, <2>3 DEF CalmInv
  <1>11. CASE LoadHead(m)
    <2> USE <1>0, <1>11 DEF LoadHead
    <2>1. \A n \in Managers : pc[n] \in Joined => pc'[n] \in Joined /\ my_idx'[n] = my_idx[n]
      OBVIOUS
    <2>2. RingNamesJoined'
      BY <2>1, NamesJoinedStays DEF CalmInv, RingNamesJoined, NamesJoined
    <2>3. NoTakeover' /\ HolderOwnsLock' /\ NoEviction' /\ HeartbeatFresh'
      BY <2>1 DEF CalmInv, NoTakeover, HolderOwnsLock, NoEviction, HeartbeatFresh
    <2> QED BY <2>2, <2>3 DEF CalmInv
  <1>12. CASE ScanCandidate(m)
    <2> USE <1>0, <1>12 DEF ScanCandidate
    <2>1. \A n \in Managers : pc[n] \in Joined => pc'[n] \in Joined /\ my_idx'[n] = my_idx[n]
      OBVIOUS
    <2>2. RingNamesJoined'
      BY <2>1, NamesJoinedStays
      DEF Typed, ScanInv, CalmInv, RingNamesJoined, NamesJoined
    <2>3. NoTakeover' /\ HolderOwnsLock' /\ NoEviction' /\ HeartbeatFresh'
      BY <2>1 DEF CalmInv, NoTakeover, HolderOwnsLock, NoEviction, HeartbeatFresh
    <2> QED BY <2>2, <2>3 DEF CalmInv
  <1>13. CASE CheckCandidate(m)
    <2> USE <1>0, <1>13 DEF CheckCandidate
    <2>0. OwnerActive(seen[m]) BY JoinedIsActive DEF CalmInv, RingNamesJoined
    <2>1. \A n \in Managers : pc[n] \in Joined => pc'[n] \in Joined /\ my_idx'[n] = my_idx[n]
      OBVIOUS
    <2>2. RingNamesJoined'
      BY <2>0, <2>1, NamesJoinedStays DEF CalmInv, RingNamesJoined, NamesJoined
    <2>3. NoTakeover' /\ HolderOwnsLock' /\ NoEviction' /\ HeartbeatFresh'
      BY <2>0, <2>1 DEF CalmInv, NoTakeover, HolderOwnsLock, NoEviction, HeartbeatFresh
    <2> QED BY <2>2, <2>3 DEF CalmInv
  <1>14. CASE CommitHead(m)
    <2> USE <1>0, <1>14 DEF CommitHead
    <2>1. \A n \in Managers : pc[n] \in Joined => pc'[n] \in Joined /\ my_idx'[n] = my_idx[n]
      OBVIOUS
    <2>2. RingNamesJoined'
      BY <2>1, NamesJoinedStays DEF CalmInv, RingNamesJoined, NamesJoined
    <2>3. NoTakeover' /\ HolderOwnsLock' /\ NoEviction' /\ HeartbeatFresh'
      BY <2>1 DEF CalmInv, NoTakeover, HolderOwnsLock, NoEviction, HeartbeatFresh
    <2> QED BY <2>2, <2>3 DEF CalmInv
  <1>15. CASE HandOff(m)
    <2> USE <1>0, <1>15 DEF HandOff
    <2>1. \A n \in Managers : pc[n] \in Joined => pc'[n] \in Joined /\ my_idx'[n] = my_idx[n]
      OBVIOUS
    <2>2. RingNamesJoined'
      BY <2>1, NamesJoinedStays DEF CalmInv, RingNamesJoined, NamesJoined
    <2>3. NoTakeover' /\ HolderOwnsLock' /\ NoEviction' /\ HeartbeatFresh'
      BY <2>1, CalmExclusion DEF MutualExclusion, CalmInv, NoTakeover, HolderOwnsLock,
        NoEviction, HeartbeatFresh
    <2> QED BY <2>2, <2>3 DEF CalmInv
  <1>16. ~ClaimInactive(m) /\ ~MarkStale(m) /\ ~StealStale(m)
    BY DEF ClaimInactive, MarkStale, StealStale, CasOwner, TakeTurn, CalmInv, NoTakeover
  <1> QED
    BY <1>1, <1>2, <1>3, <1>4, <1>5, <1>6, <1>7, <1>8, <1>9, <1>10, <1>11, <1>12,
       <1>13, <1>14, <1>15, <1>16 DEF Step

(* Without failures and without a manager taken for dead, starts and        *)
(* heartbeats keep it too.                                                  *)
LEMMA EnvironmentCalm ==
  ASSUME MaxFailures = 0, NEW m \in Managers, Typed, Owned, CalmInv, Environment(m),
         displaced' = {}
  PROVE  CalmInv'
  <1> USE JoinedPlaces DEF Goto, registry, locals, ghosts, delays
  <1>0. pc \in [Managers -> PC] /\ failures \in 0 .. 0
    BY DEF Typed, TypeOK
  <1>1. CASE Start(m)
    BY <1>0, <1>1 DEF Start, CalmInv, RingNamesJoined, NamesJoined, NoTakeover,
      HolderOwnsLock, NoEviction, HeartbeatFresh
  <1>2. CASE Beat(m)
    BY <1>2 DEF Beat, update_heartbeat, STALE, CalmInv, RingNamesJoined, NamesJoined,
      NoTakeover, HolderOwnsLock, NoEviction, HeartbeatFresh
  <1>3. ~Crash(m) /\ ~Drop(m) BY <1>0 DEF Crash, Drop
  <1>4. ~ReclaimCheck(m) BY DEF ReclaimCheck, CalmInv, NoTakeover
  <1>5. ~ReclaimClear(m)
    BY MaxManagersAssumption DEF ReclaimClear, CalmInv, NoEviction, Slot, Nobody
  <1> QED BY <1>1, <1>2, <1>3, <1>4, <1>5 DEF Environment

(* The manager the lock names has reached a heartbeat since the last tick,   *)
(* and no watchdog overslept.                                               *)
LEMMA TickCalm ==
  ASSUME Timely = TRUE, Typed, CalmInv, Tick, ~overslept' PROVE CalmInv'
  <1>1. PICK m \in Managers : pc[m] \in Joined /\ my_idx[m] = lock_owner
    BY DEF CalmInv, RingNamesJoined, NamesJoined
  <1>2. m \in beat BY <1>1 DEF Tick, Responsible, Joined
  <1>3. lock_age = 0 BY <1>2 DEF CalmInv, HeartbeatFresh
  <1>4. \A n \in Managers : ~Oversleeps(n) BY Zenon DEF Tick
  <1>5. \A n \in Managers : pc'[n] = "clock" => stamp'[n] < STALE
    BY <1>4 DEF Tick, Oversleeps, Older, Typed, TypeOK, CalmInv, HeartbeatFresh, STALE
  <1>6. HeartbeatFresh' BY <1>3, <1>5 DEF Tick, HeartbeatFresh, STALE
  <1> QED BY <1>6 DEF Tick, registry, CalmInv, RingNamesJoined, NamesJoined,
    NoTakeover, HolderOwnsLock, NoEviction

(* A delay stays on record.                                                 *)
LEMMA DelaysStay ==
  ASSUME Typed, [Next]_vars, ~Delayed' PROVE ~Delayed /\ ~overslept' /\ displaced' = {}
  <1> USE DEF Delayed
  <1>1. ASSUME NEW m \in Managers, Step(m) PROVE UNCHANGED delays
    BY <1>1 DEF Step, RegisterSlot, StorePid, JoinReserve, JoinStore, LoadOwner,
      CheckOwnerActive, ClaimInactive, LoadTimestamp, ReadClock, MarkStale, StealStale,
      Recheck, Enter, EndTurn, LoadHead, ScanCandidate, CheckCandidate, CommitHead, HandOff,
      ghosts
  <1>2. ASSUME NEW m \in Managers, Environment(m)
        PROVE  displaced \subseteq displaced' /\ overslept' = overslept
    <2>1. CASE ReclaimCheck(m) BY <2>1 DEF ReclaimCheck
    <2>2. CASE Start(m) \/ Beat(m) \/ Crash(m) \/ Drop(m) \/ ReclaimClear(m)
      BY <2>2 DEF Start, Beat, Crash, Drop, ReclaimClear, ghosts, delays
    <2> QED BY <1>2, <2>1, <2>2 DEF Environment
  <1>3. ASSUME Tick PROVE displaced' = displaced /\ (~overslept' => ~overslept)
    <2>1. displaced' = displaced BY <1>3 DEF Tick
    <2>2. ~overslept' => ~overslept BY <1>3, Zenon DEF Tick
    <2> QED BY <2>1, <2>2
  <1>4. UNCHANGED vars => UNCHANGED delays BY DEF vars, delays
  <1> QED BY <1>1, <1>2, <1>3, <1>4 DEF Next, delays

(* Every step keeps CalmInv, until a waiter is delayed.                      *)
LEMMA NextCalm ==
  ASSUME Timely = TRUE, MaxFailures = 0
  PROVE  Typed /\ Owned /\ CalmUnlessDelayed /\ [Next]_vars => CalmUnlessDelayed'
  <1> SUFFICES ASSUME Typed, Owned, CalmUnlessDelayed, [Next]_vars, ~Delayed' PROVE CalmInv'
    BY DEF CalmUnlessDelayed
  <1>0. CalmInv /\ ~overslept' /\ displaced' = {} BY DelaysStay DEF CalmUnlessDelayed
  <1>1. CASE UNCHANGED vars
    BY <1>0, <1>1 DEF vars, CalmInv, RingNamesJoined, NamesJoined, NoTakeover, HolderOwnsLock,
      NoEviction, HeartbeatFresh
  <1> QED BY <1>0, <1>1, StepCalm, EnvironmentCalm, TickCalm DEF Next

(* Everything the calm system keeps.                                        *)
Calm == Typed /\ Owned /\ CalmUnlessDelayed

(* The inductive invariant of the calm system.                               *)
LEMMA EstablishedInvariant ==
  ASSUME Timely = TRUE, MaxFailures = 0
  PROVE  EstablishedSpec => []Calm
  <1>1. EstablishedInit => Calm
    BY EstablishedTyped, EstablishedOwned, EstablishedCalm DEF Calm, CalmUnlessDelayed
  <1>2. Calm /\ [Next]_vars => Calm'
    BY NextTyped, NextOwned, NextCalm DEF Calm
  <1> QED BY <1>1, <1>2, PTL DEF EstablishedSpec

(* Without failures and with holders that heartbeat in time, two slices     *)
(* overlap only after a waiter's watchdog slept between its load of         *)
(* lock_timestamp and its look at the clock, or a sibling took the role     *)
(* from a manager that waited for its turn: for any number of pods that     *)
(* come up after the first and any size of the registry.                    *)
THEOREM ExclusiveSlice ==
  ASSUME Timely = TRUE, MaxFailures = 0
  PROVE  EstablishedSpec => []OverlapNeedsDelay
  <1>1. Calm => OverlapNeedsDelay
    BY CalmExclusion DEF Calm, CalmUnlessDelayed, OverlapNeedsDelay
  <1> QED BY <1>1, EstablishedInvariant, PTL

(* Under the same conditions a running manager loses its slot only after    *)
(* such a delay.                                                            *)
THEOREM WatchdogSparesTheLiving ==
  ASSUME Timely = TRUE, MaxFailures = 0
  PROVE  EstablishedSpec => []EvictionNeedsDelay
  <1>1. Calm => EvictionNeedsDelay
    BY DEF Calm, CalmUnlessDelayed, CalmInv, NoEviction, LiveManagerKeepsSlot,
      EvictionNeedsDelay
  <1> QED BY <1>1, EstablishedInvariant, PTL

-----------------------------------------------------------------------------
(* A prompt host, without delays. *)

(* Nobody fails, and no waiter is delayed.                                  *)
Undelayed == Calm /\ ~Delayed

(* A prompt host without long waits delays nobody.                          *)
LEMMA PromptUndelayed ==
  ASSUME Timely = TRUE, Prompt = TRUE, BriefWaits = TRUE, MaxFailures = 0
  PROVE  Undelayed /\ [Next]_vars => Undelayed'
  <1> SUFFICES ASSUME Undelayed, [Next]_vars PROVE ~Delayed'
    BY NextTyped, NextOwned, NextCalm DEF Undelayed, Calm
  <1> USE DEF Delayed, Undelayed
  <1>1. ASSUME NEW m \in Managers, Step(m) PROVE UNCHANGED delays
    BY <1>1 DEF Step, RegisterSlot, StorePid, JoinReserve, JoinStore, LoadOwner,
      CheckOwnerActive, ClaimInactive, LoadTimestamp, ReadClock, MarkStale, StealStale,
      Recheck, Enter, EndTurn, LoadHead, ScanCandidate, CheckCandidate, CommitHead, HandOff,
      ghosts
  <1>2. ASSUME NEW m \in Managers, Environment(m) PROVE UNCHANGED delays
    <2>1. CASE ReclaimCheck(m)
      BY <2>1 DEF ReclaimCheck, delays, Calm, CalmUnlessDelayed, CalmInv, NoTakeover
    <2>2. CASE Start(m) \/ Beat(m) \/ Crash(m) \/ Drop(m) \/ ReclaimClear(m)
      BY <2>2 DEF Start, Beat, Crash, Drop, ReclaimClear, ghosts, delays
    <2> QED BY <1>2, <2>1, <2>2 DEF Environment
  <1>3. ASSUME Tick PROVE displaced' = displaced /\ ~overslept'
    <2>1. displaced' = displaced BY <1>3 DEF Tick
    <2>2. \A m \in Managers : ~Oversleeps(m) BY <1>3 DEF Tick
    <2>3. ~overslept' BY <1>3, <2>2, Zenon DEF Tick
    <2> QED BY <2>1, <2>3
  <1>4. UNCHANGED vars => UNCHANGED delays BY DEF vars, delays
  <1> QED BY <1>1, <1>2, <1>3, <1>4 DEF Next, delays

(* On such a host slices never overlap, and no running manager loses its    *)
(* slot.                                                                    *)
THEOREM PromptExclusiveSlice ==
  ASSUME Timely = TRUE, Prompt = TRUE, BriefWaits = TRUE, MaxFailures = 0
  PROVE  EstablishedSpec => [](MutualExclusion /\ LiveManagerKeepsSlot)
  <1>1. EstablishedInit => Undelayed
    BY EstablishedTyped, EstablishedOwned, EstablishedCalm
    DEF Undelayed, Calm, CalmUnlessDelayed, Delayed, EstablishedInit, ThreadLocalsInit
  <1>2. Undelayed => MutualExclusion /\ LiveManagerKeepsSlot
    BY CalmExclusion DEF Undelayed, Calm, CalmUnlessDelayed, CalmInv, NoEviction,
      LiveManagerKeepsSlot
  <1> QED BY <1>1, <1>2, PromptUndelayed, PTL DEF EstablishedSpec
=============================================================================
