--------------------------- MODULE ElectionProofs ---------------------------
(***************************************************************************)
(* Proofs about Election, for every set of processes, every assignment of   *)
(* pids to them and every registry size.                                    *)
(***************************************************************************)
EXTENDS Election, FiniteSetTheorems, TLAPS

(* The places of a supervisor, by name.                                     *)
LEMMA Places ==
  /\ \A p \in {"off", "release", "drop_pid", "drop_idx", "retired", "dead", "try", "owner",
             "alive", "fresh", "cas", "watch", "beat", "reclaim", "clear", "register",
             "slot_pid", "publish", "running"} : p \in PC
  /\ \A p \in {"beat", "reclaim", "clear", "register", "slot_pid", "publish", "running"} :
       p \in Won
  /\ \A p \in {"off", "release", "drop_pid", "drop_idx", "retired", "dead", "try", "owner",
             "alive", "fresh", "cas", "watch"} : p \notin Won
  /\ "off" \notin Won /\ "dead" \notin Won
  BY DEF PC, Won, Contending

(* Slots and the positions of the scan of register_global_slot.             *)
LEMMA SlotFacts ==
  /\ MAX_MANAGERS \in Nat /\ 0 \in Slot /\ 0 \in 0 .. MAX_MANAGERS
  /\ Slot \subseteq 0 .. MAX_MANAGERS
  /\ \A i \in Slot : i + 1 \in 0 .. MAX_MANAGERS
  BY SlotsAssumption DEF Slot

(* Pids are positive.                                                       *)
LEMMA PidFacts == \A s \in Supervisors : PidOf[s] \in Nat /\ PidOf[s] # 0
  BY PidsAssumption

-----------------------------------------------------------------------------
(* Type correctness. *)

(* From its registration on, a manager's slot is a slot of the registry.    *)
RegisteredInv ==
  \A s \in Supervisors : pc[s] \in {"slot_pid", "publish", "running"} => slot[s] \in Slot

(* The types, with what registration adds to them.                          *)
Typed == TypeOK /\ RegisteredInv

(* A new pod is well typed.                                                 *)
LEMMA FreshTyped == FreshInit => Typed
  <1> SUFFICES ASSUME FreshInit PROVE Typed
    OBVIOUS
  <1>1. /\ adopted \in BOOLEAN /\ contested \in BOOLEAN /\ waited \in BOOLEAN
        /\ is_active \in [Slot -> BOOLEAN]
    BY Zenon DEF FreshInit
  <1>2. failures \in 0 .. MaxFailures /\ heartbeat_age \in 0 .. STALE
    BY FailuresAssumption DEF FreshInit, STALE
  <1>3. pc \in [Supervisors -> PC] /\ RegisteredInv
    BY Places DEF FreshInit, RegisteredInv
  <1> QED BY <1>1, <1>2, <1>3, SlotFacts DEF FreshInit, Typed, TypeOK

(* So is a pod with a manager and a watcher.                                *)
LEMMA EstablishedTyped == EstablishedInit => Typed
  <1> SUFFICES ASSUME EstablishedInit PROVE Typed
    OBVIOUS
  <1>1. /\ adopted \in BOOLEAN /\ contested \in BOOLEAN /\ waited \in BOOLEAN
        /\ is_active \in [Slot -> BOOLEAN]
    BY Zenon DEF EstablishedInit
  <1>2. failures \in 0 .. MaxFailures /\ heartbeat_age \in 0 .. STALE
    BY FailuresAssumption DEF EstablishedInit, STALE
  <1>3. pc \in [Supervisors -> PC] BY Places DEF EstablishedInit
  <1>4. RegisteredInv BY SlotFacts DEF EstablishedInit, RegisteredInv
  <1>5. manager_pid \in Nat /\ slot_pid \in [Slot -> Nat]
    <2>1. PICK m \in Supervisors :
            /\ manager_pid = PidOf[m]
            /\ slot_pid = [i \in Slot |-> IF i = 0 THEN PidOf[m] ELSE 0]
      BY Zenon DEF EstablishedInit
    <2> QED BY <2>1, PidFacts
  <1> QED BY <1>1, <1>2, <1>3, <1>4, <1>5, SlotFacts DEF EstablishedInit, Typed, TypeOK

(* A step of a supervisor keeps every type.                                 *)
LEMMA ElectTyped == ASSUME NEW s \in Supervisors, Typed, Elect(s) PROVE Typed'
  <1> USE Places, SlotFacts, PidFacts DEF Typed, TypeOK, RegisteredInv, Goto, Stay, registry
  <1>1. CASE ClaimVacant(s)
    <2>1. contested' \in BOOLEAN BY <1>1, Zenon DEF ClaimVacant
    <2> QED BY <1>1, <2>1 DEF ClaimVacant
  <1>2. CASE LoadOwner(s) BY <1>2 DEF LoadOwner
  <1>3. CASE CheckAlive(s) BY <1>3 DEF CheckAlive
  <1>4. CASE CheckFresh(s)
    <2>1. contested' \in BOOLEAN BY <1>4, Zenon DEF CheckFresh, FoundFresh, FoundSilent
    <2> QED BY <1>4, <2>1 DEF CheckFresh, FoundFresh, FoundSilent
  <1>5. CASE TakeOver(s)
    <2>1. contested' \in BOOLEAN BY <1>5, Zenon DEF TakeOver
    <2> QED BY <1>5, <2>1 DEF TakeOver
  <1>6. CASE FirstHeartbeat(s) BY <1>6 DEF FirstHeartbeat, STALE
  <1>7. CASE Watch(s) BY <1>7 DEF Watch
  <1>8. CASE ReclaimCheck(s) BY <1>8 DEF ReclaimCheck
  <1>9. CASE ReclaimClear(s) BY <1>9 DEF ReclaimClear
  <1>10. CASE RegisterSlot(s)
    <2>1. slot' \in [Supervisors -> 0 .. MAX_MANAGERS] /\ pc' \in [Supervisors -> PC]
      BY <1>10 DEF RegisterSlot
    <2>2. is_active' \in [Slot -> BOOLEAN] /\ foreign' \in SUBSET Slot
      BY <1>10 DEF RegisterSlot
    <2>3. RegisteredInv' BY <1>10 DEF RegisterSlot
    <2> QED BY <1>10, <2>1, <2>2, <2>3 DEF RegisterSlot
  <1>11. CASE StoreSlotPid(s) BY <1>11 DEF StoreSlotPid
  <1>12. CASE Publish(s) BY <1>12 DEF Publish
  <1>13. CASE ReleaseRole(s) BY <1>13 DEF ReleaseRole
  <1>14. CASE DropRole(s) BY <1>14 DEF DropRole
  <1>15. CASE DropGlobalIdx(s) BY <1>15 DEF DropGlobalIdx
  <1> QED
    BY <1>1, <1>2, <1>3, <1>4, <1>5, <1>6, <1>7, <1>8, <1>9, <1>10, <1>11, <1>12, <1>13, <1>14,
       <1>15
    DEF Elect

(* Every step keeps every type.                                             *)
LEMMA NextTyped == Typed /\ [Next]_vars => Typed'
  <1> SUFFICES ASSUME Typed, [Next]_vars PROVE Typed'
    OBVIOUS
  <1> USE Places, SlotFacts, PidFacts, FailuresAssumption
      DEF Typed, TypeOK, RegisteredInv, Goto, Stay, registry
  <1>1. ASSUME NEW s \in Supervisors, Start(s) PROVE Typed' BY <1>1 DEF Start
  <1>2. ASSUME NEW s \in Supervisors, Heartbeat(s) PROVE Typed' BY <1>2 DEF Heartbeat, STALE
  <1>3. ASSUME NEW s \in Supervisors, Crash(s) PROVE Typed' BY <1>3 DEF Crash
  <1>4. ASSUME NEW s \in Supervisors, PanicClearSlot(s) PROVE Typed' BY <1>4 DEF PanicClearSlot
  <1>5. ASSUME NEW s \in Supervisors, PanicEarly(s) PROVE Typed' BY <1>5 DEF PanicEarly
  <1>6. ASSUME NEW i \in Slot, OtherRegisters(i) PROVE Typed' BY <1>6 DEF OtherRegisters
  <1>7. ASSUME NEW i \in Slot, OtherStoresPid(i) PROVE Typed'
    BY <1>7, PidsAssumption DEF OtherStoresPid
  <1>8. ASSUME NEW i \in Slot, OtherWatchdog(i) PROVE Typed' BY <1>8 DEF OtherWatchdog
  <1>9. CASE Tick
    <2>1. waited' \in BOOLEAN BY <1>9, Zenon DEF Tick
    <2> QED BY <1>9, <2>1 DEF Tick, STALE
  <1>10. CASE UNCHANGED vars BY <1>10 DEF vars
  <1> QED
    BY <1>1, <1>2, <1>3, <1>4, <1>5, <1>6, <1>7, <1>8, <1>9, <1>10, ElectTyped DEF Next

(* manager_pid, manager_global_idx, the registry slots and every local of   *)
(* the supervisors stay in range, in a new pod and in an established one.   *)
THEOREM TypeCorrect == FreshSpec \/ EstablishedSpec => []TypeOK
  <1>1. Typed => TypeOK BY DEF Typed
  <1>2. FreshSpec => []TypeOK BY <1>1, FreshTyped, NextTyped, PTL DEF FreshSpec
  <1>3. EstablishedSpec => []TypeOK BY <1>1, EstablishedTyped, NextTyped, PTL DEF EstablishedSpec
  <1> QED BY <1>2, <1>3

-----------------------------------------------------------------------------
(* A second manager has a cause. *)

(* Processes that exist at the same time have different pids.               *)
PidInv == \A s, r \in Supervisors : Exists(s) /\ Exists(r) /\ PidOf[s] = PidOf[r] => s = r

(* manager_pid names whoever acts.                                          *)
RoleInv == \A s \in Supervisors : pc[s] \in Won => manager_pid = PidOf[s]

(* Nobody is about to compare_exchange the pid of one that acts.            *)
CasInv == \A s, r \in Supervisors : pc[s] = "cas" /\ pc[r] \in Won => PidOf[r] # old[s]

(* The inductive invariant of TwoManagersHaveACause.                        *)
CauseInv == PidInv /\ (~adopted /\ ~contested => RoleInv /\ CasInv)

(* Two processes that act would both be named by manager_pid.               *)
LEMMA CauseGivesOne == CauseInv => TwoManagersHaveACause
  <1> SUFFICES ASSUME CauseInv, ~adopted, ~contested PROVE Cardinality(Acting) <= 1
    BY DEF TwoManagersHaveACause, OneManagerPerPod
  <1>1. \A s, r \in Acting : s = r
    BY Places DEF CauseInv, PidInv, RoleInv, Acting, Exists
  <1>2. CASE Acting = {} BY <1>2, FS_EmptySet
  <1>3. CASE Acting # {}
    <2>1. PICK s \in Acting : TRUE BY <1>3
    <2>2. Acting = {s} BY <1>1, <2>1
    <2> QED BY <2>2, FS_Singleton
  <1> QED BY <1>2, <1>3

(* Nobody acts in a new pod; one process does in an established one.        *)
LEMMA InitCause == FreshInit \/ EstablishedInit => CauseInv
  <1>1. FreshInit => CauseInv
    BY Places DEF FreshInit, CauseInv, PidInv, RoleInv, CasInv, Exists
  <1>2. ASSUME EstablishedInit PROVE CauseInv
    <2>1. PICK m, w \in Supervisors :
            /\ m # w /\ PidOf[m] # PidOf[w] /\ manager_pid = PidOf[m]
            /\ pc = [s \in Supervisors |->
                       IF s = m THEN "running" ELSE IF s = w THEN "watch" ELSE "off"]
      BY <1>2 DEF EstablishedInit
    <2> QED BY <2>1, Places DEF CauseInv, PidInv, RoleInv, CasInv, Exists
  <1> QED BY <1>1, <1>2

(* A step that brings nobody to life, to the role or to the takeover, and   *)
(* leaves manager_pid alone, keeps the invariant.                           *)
LEMMA CauseFrame ==
  ASSUME CauseInv, manager_pid' = manager_pid,
         adopted => adopted', contested => contested',
         \A s \in Supervisors : Exists(s)' => Exists(s),
         \A s \in Supervisors : pc'[s] \in Won => pc[s] \in Won,
         \A s \in Supervisors : pc'[s] = "cas" => pc[s] = "cas" /\ old'[s] = old[s]
  PROVE  CauseInv'
  BY DEF CauseInv, PidInv, RoleInv, CasInv

(* A step of a supervisor keeps the invariant: compare_exchange takes the   *)
(* role from nobody who acts, and only its owner gives it back.             *)
LEMMA ElectCause == ASSUME NEW s \in Supervisors, Typed, CauseInv, Elect(s) PROVE CauseInv'
  <1> USE Places DEF Goto, Stay, Exists
  <1>0. pc \in [Supervisors -> PC] /\ old \in [Supervisors -> Nat] BY DEF Typed, TypeOK
  <1>1. CASE ClaimVacant(s)
    <2>1. CASE manager_pid # 0 BY <1>0, <1>1, <2>1, CauseFrame DEF ClaimVacant
    <2>2. CASE manager_pid = 0
      <3>1. /\ pc[s] = "try" /\ pc' = [pc EXCEPT ![s] = "beat"] /\ manager_pid' = PidOf[s]
            /\ contested' = (contested \/ Pursued(s)) /\ adopted' = adopted
            /\ old' = [old EXCEPT ![s] = 0]
        BY <1>1, <2>2 DEF ClaimVacant
      <3>2. ~adopted /\ ~contested => \A r \in Supervisors : pc[r] \notin Won
        BY <2>2, PidFacts DEF CauseInv, RoleInv
      <3> QED BY <1>0, <3>1, <3>2 DEF CauseInv, PidInv, RoleInv, CasInv, Pursued
    <2> QED BY <2>1, <2>2
  <1>2. CASE LoadOwner(s)
    <2>1. CASE manager_pid = PidOf[s]
      <3>1. adopted' /\ \A r \in Supervisors : Exists(r)' => Exists(r)
        BY <1>0, <1>2, <2>1 DEF LoadOwner
      <3> QED BY <3>1 DEF CauseInv, PidInv
    <2>2. CASE manager_pid # PidOf[s]
      BY <1>0, <1>2, <2>2, CauseFrame DEF LoadOwner
    <2> QED BY <2>1, <2>2
  <1>3. CASE CheckAlive(s)
    <2>1. ~proc_alive(old[s]) => \A r \in Supervisors : pc[r] \in Won => PidOf[r] # old[s]
      BY DEF proc_alive
    <2> QED BY <1>0, <1>3, <2>1 DEF CheckAlive, CauseInv, PidInv, RoleInv, CasInv
  <1>4. CASE CheckFresh(s)
    <2>1. CASE FoundFresh(s) BY <1>0, <1>4, <2>1, CauseFrame DEF CheckFresh, FoundFresh
    <2>2. CASE FoundSilent(s)
      <3>1. /\ pc[s] = "fresh" /\ pc' = [pc EXCEPT ![s] = "cas"]
            /\ UNCHANGED <<old, manager_pid, adopted>>
            /\ contested' = (contested \/ \E r \in Supervisors : pc[r] \in Won /\ PidOf[r] = old[s])
        BY <1>4, <2>2 DEF CheckFresh, FoundSilent
      <3> QED BY <1>0, <3>1 DEF CauseInv, PidInv, RoleInv, CasInv
    <2> QED BY <1>4, <2>1, <2>2 DEF CheckFresh
  <1>5. CASE TakeOver(s)
    <2>1. CASE manager_pid # old[s] BY <1>0, <1>5, <2>1, CauseFrame DEF TakeOver
    <2>2. CASE manager_pid = old[s]
      <3>1. /\ pc[s] = "cas" /\ pc' = [pc EXCEPT ![s] = "beat"] /\ manager_pid' = PidOf[s]
            /\ contested' = (contested \/ Pursued(s)) /\ UNCHANGED <<adopted, old>>
        BY <1>5, <2>2 DEF TakeOver
      <3>2. ~adopted /\ ~contested => \A r \in Supervisors : pc[r] \notin Won
        BY <2>2, <3>1 DEF CauseInv, RoleInv, CasInv
      <3> QED BY <1>0, <3>1, <3>2 DEF CauseInv, PidInv, RoleInv, CasInv, Pursued
    <2> QED BY <2>1, <2>2
  <1>6. CASE ReleaseRole(s) \/ DropRole(s)
    <2>1. /\ pc[s] \in {"release", "drop_pid"}
          /\ \E p \in {"try", "drop_idx"} : pc' = [pc EXCEPT ![s] = p]
          /\ manager_pid' = IF manager_pid = PidOf[s] THEN 0 ELSE manager_pid
          /\ UNCHANGED <<old, adopted, contested>>
      BY <1>6 DEF ReleaseRole, DropRole
    <2>2. ~adopted /\ ~contested /\ manager_pid = PidOf[s]
            => \A r \in Supervisors : pc[r] \notin Won
      BY <2>1 DEF CauseInv, PidInv, RoleInv
    <2> QED BY <1>0, <2>1, <2>2 DEF CauseInv, PidInv, RoleInv, CasInv
  <1>7. CASE FirstHeartbeat(s) BY <1>0, <1>7, CauseFrame DEF FirstHeartbeat
  <1>8. CASE Watch(s) BY <1>0, <1>8, CauseFrame DEF Watch
  <1>9. CASE ReclaimCheck(s) BY <1>0, <1>9, CauseFrame DEF ReclaimCheck
  <1>10. CASE ReclaimClear(s) BY <1>0, <1>10, CauseFrame DEF ReclaimClear
  <1>11. CASE RegisterSlot(s) BY <1>0, <1>11, CauseFrame DEF RegisterSlot
  <1>12. CASE StoreSlotPid(s) BY <1>0, <1>12, CauseFrame DEF StoreSlotPid
  <1>13. CASE Publish(s) BY <1>0, <1>13, CauseFrame DEF Publish
  <1>14. CASE DropGlobalIdx(s) BY <1>0, <1>14, CauseFrame DEF DropGlobalIdx
  <1> QED
    BY <1>1, <1>2, <1>3, <1>4, <1>5, <1>6, <1>7, <1>8, <1>9, <1>10, <1>11, <1>12, <1>13, <1>14
    DEF Elect

(* Every step keeps the invariant; a process that starts has a pid that no  *)
(* living process has.                                                      *)
LEMMA NextCause == Typed /\ CauseInv /\ [Next]_vars => CauseInv'
  <1> SUFFICES ASSUME Typed, CauseInv, [Next]_vars PROVE CauseInv'
    OBVIOUS
  <1> USE Places DEF Goto, Stay, Exists
  <1>0. pc \in [Supervisors -> PC] /\ old \in [Supervisors -> Nat] BY DEF Typed, TypeOK
  <1>1. ASSUME NEW s \in Supervisors, Start(s) PROVE CauseInv'
    BY <1>0, <1>1 DEF Start, proc_alive, CauseInv, PidInv, RoleInv, CasInv
  <1>2. ASSUME NEW s \in Supervisors, Heartbeat(s) PROVE CauseInv'
    BY <1>0, <1>2, CauseFrame DEF Heartbeat
  <1>3. ASSUME NEW s \in Supervisors, Crash(s) PROVE CauseInv'
    BY <1>0, <1>3, CauseFrame DEF Crash
  <1>4. ASSUME NEW s \in Supervisors, PanicClearSlot(s) PROVE CauseInv'
    BY <1>0, <1>4, CauseFrame DEF PanicClearSlot
  <1>5. ASSUME NEW s \in Supervisors, PanicEarly(s) PROVE CauseInv'
    BY <1>0, <1>5, CauseFrame DEF PanicEarly
  <1>6. ASSUME NEW i \in Slot, OtherRegisters(i) \/ OtherStoresPid(i) \/ OtherWatchdog(i)
        PROVE CauseInv'
    BY <1>6, CauseFrame DEF OtherRegisters, OtherStoresPid, OtherWatchdog
  <1>7. CASE Tick BY <1>7, CauseFrame DEF Tick
  <1>8. CASE UNCHANGED vars BY <1>8, CauseFrame DEF vars
  <1> QED BY <1>1, <1>2, <1>3, <1>4, <1>5, <1>6, <1>7, <1>8, ElectCause DEF Next

(* In a new pod and in an established one, on a host of any speed, with any *)
(* number of failures: two processes act as manager only after one of them  *)
(* adopted the role under a recycled pid, or a contender set out to take it *)
(* from one that acts.                                                      *)
THEOREM SecondManagerIsCaused == FreshSpec \/ EstablishedSpec => []TwoManagersHaveACause
  <1>1. Typed /\ CauseInv /\ [Next]_vars => (Typed /\ CauseInv)' BY NextTyped, NextCause
  <1>2. FreshSpec => []TwoManagersHaveACause
    <2>1. FreshInit => Typed /\ CauseInv BY FreshTyped, InitCause
    <2> QED BY <1>1, <2>1, CauseGivesOne, PTL DEF FreshSpec
  <1>3. EstablishedSpec => []TwoManagersHaveACause
    <2>1. EstablishedInit => Typed /\ CauseInv BY EstablishedTyped, InitCause
    <2> QED BY <1>1, <2>1, CauseGivesOne, PTL DEF EstablishedSpec
  <1> QED BY <1>2, <1>3

-----------------------------------------------------------------------------
(* One failure leaves one manager, on a timely host. *)

(* The premises of OneFailureOneManager.                                    *)
Good == NoPidReused /\ failures <= 1 /\ ~waited

(* A pid that manager_pid or a contender names has been used before.        *)
KnownPid(p) == p # 0 => \E x \in Supervisors : pc[x] # "off" /\ PidOf[x] = p

(* manager_pid and what the contenders loaded from it are such pids.        *)
PidsKnown == KnownPid(manager_pid) /\ \A s \in Supervisors : KnownPid(old[s])

(* manager_pid names whoever won, until it gives the role back; nobody who  *)
(* stands for election or has dropped the role is named.                    *)
Owning  == Won \cup {"release", "drop_pid"}
Outside == Contending \cup {"drop_idx", "retired"}

(* manager_pid against the place of every supervisor.                       *)
RoleNamed ==
  \A s \in Supervisors :
    /\ pc[s] \in Owning => manager_pid = PidOf[s]
    /\ pc[s] \in Outside => manager_pid # PidOf[s]

(* Before the first failure only the established manager manages.           *)
FirstManager ==
  failures = 0 =>
    \E m \in Supervisors :
      /\ pc[m] = "running"
      /\ \A s \in Supervisors \ {m} :
           /\ pc[s] \in {"off", "try", "owner", "alive", "fresh", "watch"}
           /\ pc[s] \in {"alive", "fresh"} => old[s] = manager_pid

(* A contender takes over only from a process that is gone.                 *)
TakenFromDead == \A s \in Supervisors : pc[s] = "cas" => ~proc_alive(old[s])

(* The age of the heartbeat while somebody leads.                           *)
LedAge ==
  \A s \in Supervisors :
    /\ pc[s] \in {"reclaim", "clear", "register", "slot_pid", "publish", "release"}
         => heartbeat_age = 0
    /\ pc[s] \in {"running", "drop_pid", "drop_idx"} => heartbeat_age <= 1
    /\ pc[s] = "running" /\ s \in busy => heartbeat_age = 0

(* Once it is two ticks old, a winner is about to write it, or every        *)
(* watcher's next look starts an election that finds the role as it is.     *)
Starting == \E b \in Supervisors : pc[b] = "beat"

(* The age of the heartbeat while nobody beats.                             *)
UnledAge ==
  /\ heartbeat_age <= 2
  /\ heartbeat_age = 2 /\ ~Starting =>
       \A s \in Supervisors :
         /\ pc[s] = "watch" => s \notin busy
         /\ pc[s] = "owner" => manager_pid # 0
         /\ pc[s] \in {"alive", "cas"} => manager_pid = old[s]
         /\ pc[s] # "fresh"

(* The inductive invariant of OneFailureOneManager.                         *)
Led == PidsKnown /\ RoleNamed /\ FirstManager /\ TakenFromDead /\ LedAge /\ UnledAge

(* Where a supervisor is named by manager_pid, and where it is not.         *)
LEMMA RolePlaces ==
  /\ \A p \in {"beat", "reclaim", "clear", "register", "slot_pid", "publish", "running",
             "release", "drop_pid"} : p \in Owning /\ p \notin Outside
  /\ \A p \in {"try", "owner", "alive", "fresh", "cas", "watch", "drop_idx", "retired"} :
       p \in Outside /\ p \notin Owning
  /\ \A p \in {"off", "dead"} : p \notin Owning /\ p \notin Outside
  /\ \A p \in PC : p \in {"off", "dead"} \/ p \in Owning \/ p \in Outside
  /\ \A p \in Owning : p \in {"beat", "reclaim", "clear", "register", "slot_pid", "publish",
                            "running", "release", "drop_pid"}
  BY DEF PC, Owning, Outside, Won, Contending

(* Two processes that have started have different pids.                     *)
LEMMA Distinct ==
  ASSUME Good, NEW s \in Supervisors, NEW r \in Supervisors,
         pc[s] # "off", pc[r] # "off", PidOf[s] = PidOf[r]
  PROVE  s = r
  BY DEF Good, NoPidReused

(* The living process that manager_pid names owns the role.                 *)
LEMMA NamedOwns ==
  ASSUME Typed, Led, NEW x \in Supervisors, Exists(x), PidOf[x] = manager_pid
  PROVE  pc[x] \in Owning
  BY RolePlaces DEF Typed, TypeOK, Led, RoleNamed, Exists

(* With a heartbeat two ticks old somebody has failed already, and an owner *)
(* of the role is one that is about to write its first heartbeat.           *)
LEMMA AtTwo ==
  ASSUME Typed, Good, Led, heartbeat_age = 2
  PROVE  /\ failures = 1
         /\ \A s \in Supervisors : pc[s] \in Owning => pc[s] = "beat"
         /\ \A s \in Supervisors : pc[s] # "drop_idx"
         /\ proc_alive(manager_pid) => Starting
  <1>1. /\ \A s \in Supervisors : pc[s] \in Owning => pc[s] = "beat"
        /\ \A s \in Supervisors : pc[s] # "drop_idx"
    BY RolePlaces DEF Led, LedAge
  <1>2. failures = 1 BY DEF Led, LedAge, FirstManager, Good, Typed, TypeOK
  <1>3. proc_alive(manager_pid) => Starting BY <1>1, NamedOwns DEF proc_alive, Starting
  <1> QED BY <1>1, <1>2, <1>3

(* Two owners would have the same pid.                                      *)
LEMMA LedGivesOne == Typed /\ (Good => Led) => OneFailureOneManager
  <1> SUFFICES ASSUME Typed, Good, Led PROVE Cardinality(Acting) <= 1
    BY DEF OneFailureOneManager, OneManagerPerPod, Good
  <1>1. \A s, r \in Acting : s = r
    BY Places, Distinct DEF Led, RoleNamed, Acting, Owning
  <1>2. CASE Acting = {} BY <1>2, FS_EmptySet
  <1>3. CASE Acting # {}
    <2>1. PICK s \in Acting : TRUE BY <1>3
    <2>2. Acting = {s} BY <1>1, <2>1
    <2> QED BY <2>2, FS_Singleton
  <1> QED BY <1>2, <1>3

(* The established pod.                                                     *)
LEMMA EstablishedLed == EstablishedInit => Led
  <1> SUFFICES ASSUME EstablishedInit PROVE Led
    OBVIOUS
  <1>1. PICK m, w \in Supervisors :
          /\ m # w /\ PidOf[m] # PidOf[w] /\ manager_pid = PidOf[m]
          /\ pc = [s \in Supervisors |->
                     IF s = m THEN "running" ELSE IF s = w THEN "watch" ELSE "off"]
    BY DEF EstablishedInit
  <1>2. old = [s \in Supervisors |-> 0] /\ heartbeat_age = 0 /\ busy = {} /\ failures = 0
    BY DEF EstablishedInit
  <1>3. PidsKnown BY <1>1, <1>2 DEF PidsKnown, KnownPid
  <1>4. RoleNamed BY <1>1, RolePlaces DEF RoleNamed
  <1>5. FirstManager BY <1>1 DEF FirstManager
  <1>6. TakenFromDead BY <1>1 DEF TakenFromDead
  <1>7. LedAge BY <1>2 DEF LedAge
  <1>8. UnledAge BY <1>2 DEF UnledAge
  <1> QED BY <1>3, <1>4, <1>5, <1>6, <1>7, <1>8 DEF Led

(* Nobody returns to the time before its start, and failures are counted.   *)
LEMMA GoodStays ==
  ASSUME Typed, [Next]_vars
  PROVE  /\ \A s \in Supervisors : pc'[s] = "off" => pc[s] = "off"
         /\ Good' => Good
  <1> USE DEF Goto
  <1>0. pc \in [Supervisors -> PC] /\ failures \in Nat /\ failures' \in Nat
    BY NextTyped, FailuresAssumption DEF Typed, TypeOK
  <1>1. ASSUME NEW s \in Supervisors, Elect(s)
        PROVE  failures' = failures /\ \A r \in Supervisors : pc'[r] = "off" => pc[r] = "off"
    <2>1. CASE \/ ClaimVacant(s) \/ LoadOwner(s) \/ CheckAlive(s) \/ CheckFresh(s) \/ TakeOver(s)
               \/ FirstHeartbeat(s) \/ Watch(s)
      BY <1>0, <2>1 DEF ClaimVacant, LoadOwner, CheckAlive, CheckFresh, FoundFresh, FoundSilent,
        TakeOver, FirstHeartbeat, Watch
    <2>2. CASE \/ ReclaimCheck(s) \/ ReclaimClear(s) \/ RegisterSlot(s) \/ StoreSlotPid(s)
               \/ Publish(s) \/ ReleaseRole(s) \/ DropRole(s) \/ DropGlobalIdx(s)
      BY <1>0, <2>2 DEF ReclaimCheck, ReclaimClear, RegisterSlot, StoreSlotPid, Publish,
        ReleaseRole, DropRole, DropGlobalIdx
    <2> QED BY <1>1, <2>1, <2>2 DEF Elect
  <1>2. ASSUME NEW s \in Supervisors,
               Start(s) \/ Heartbeat(s) \/ Crash(s) \/ PanicClearSlot(s) \/ PanicEarly(s)
        PROVE  failures <= failures' /\ \A r \in Supervisors : pc'[r] = "off" => pc[r] = "off"
    BY <1>0, <1>2 DEF Start, Heartbeat, Crash, PanicClearSlot, PanicEarly
  <1>3. ASSUME NEW i \in Slot, OtherRegisters(i) \/ OtherStoresPid(i) \/ OtherWatchdog(i)
        PROVE  UNCHANGED <<failures, pc>>
    BY <1>3 DEF OtherRegisters, OtherStoresPid, OtherWatchdog
  <1>4. Tick \/ UNCHANGED vars => UNCHANGED <<failures, pc>> BY DEF Tick, vars
  <1>5. failures <= failures' /\ \A r \in Supervisors : pc'[r] = "off" => pc[r] = "off"
    BY <1>0, <1>1, <1>2, <1>3, <1>4 DEF Next
  <1>6. waited => waited'
    <2>1. ASSUME NEW s \in Supervisors, Elect(s) PROVE UNCHANGED waited
      BY <2>1 DEF Elect, ClaimVacant, LoadOwner, CheckAlive, CheckFresh, TakeOver, FirstHeartbeat,
        Watch, ReclaimCheck, ReclaimClear, RegisterSlot, StoreSlotPid, Publish, ReleaseRole,
        DropRole, DropGlobalIdx
    <2>2. ASSUME NEW s \in Supervisors,
                 Start(s) \/ Heartbeat(s) \/ Crash(s) \/ PanicClearSlot(s) \/ PanicEarly(s)
          PROVE  UNCHANGED waited
      BY <2>2 DEF Start, Heartbeat, Crash, PanicClearSlot, PanicEarly
    <2>3. ASSUME NEW i \in Slot, OtherRegisters(i) \/ OtherStoresPid(i) \/ OtherWatchdog(i)
          PROVE  UNCHANGED waited
      BY <2>3 DEF OtherRegisters, OtherStoresPid, OtherWatchdog
    <2>4. Tick => (waited => waited') BY Zenon DEF Tick
    <2>5. UNCHANGED vars => UNCHANGED waited BY DEF vars
    <2> QED BY <2>1, <2>2, <2>3, <2>4, <2>5 DEF Next
  <1> QED BY <1>0, <1>5, <1>6 DEF Good, NoPidReused

(* A used pid stays used.                                                   *)
LEMMA KnownStays ==
  ASSUME NEW p, KnownPid(p), \A s \in Supervisors : pc'[s] = "off" => pc[s] = "off"
  PROVE  p # 0 => \E x \in Supervisors : pc'[x] # "off" /\ PidOf[x] = p
  BY DEF KnownPid

(* So manager_pid and the contenders' readings stay known when each is kept,*)
(* cleared, copied from manager_pid or a pid of a process that has started. *)
LEMMA PidsStayKnown ==
  ASSUME PidsKnown, \A s \in Supervisors : pc'[s] = "off" => pc[s] = "off",
         \/ manager_pid' \in {manager_pid, 0}
         \/ \E s \in Supervisors : manager_pid' = PidOf[s] /\ pc'[s] # "off",
         \A s \in Supervisors : old'[s] \in {old[s], 0, manager_pid}
  PROVE  PidsKnown'
  <1>1. KnownPid(manager_pid)' BY KnownStays DEF PidsKnown, KnownPid
  <1>2. ASSUME NEW s \in Supervisors PROVE KnownPid(old[s])'
    BY KnownStays DEF PidsKnown, KnownPid
  <1> QED BY <1>1, <1>2 DEF PidsKnown

(* A step that moves nobody and touches neither the role nor the readings   *)
(* nor the heartbeat changes nothing.                                       *)
LEMMA LedFrame ==
  ASSUME Led, UNCHANGED <<manager_pid, heartbeat_age, pc, old, busy, failures>> PROVE Led'
  BY DEF Led, PidsKnown, KnownPid, RoleNamed, FirstManager, TakenFromDead, proc_alive, Exists,
    LedAge, UnledAge, Starting

(* A winner on its way from its first heartbeat to run(), or to giving the  *)
(* role back.                                                               *)
LEMMA WinnerMoves ==
  ASSUME Typed, Good, Led, NEW s \in Supervisors,
         pc[s] \in {"reclaim", "clear", "register", "slot_pid", "publish"},
         \E q \in {"clear", "register", "slot_pid", "publish", "running", "release"} :
           pc' = [pc EXCEPT ![s] = q],
         UNCHANGED <<manager_pid, heartbeat_age, busy, failures>>,
         old' \in {old, [old EXCEPT ![s] = 0]}
  PROVE  Led'
  <1> USE RolePlaces
  <1>0. /\ pc \in [Supervisors -> PC] /\ old \in [Supervisors -> Nat] /\ heartbeat_age = 0
    BY DEF Typed, TypeOK, Led, LedAge
  <1>1. PidsKnown' BY <1>0, PidsStayKnown DEF Led
  <1>2. RoleNamed' BY <1>0 DEF Led, RoleNamed
  <1>3. FirstManager' BY <1>0 DEF Led, FirstManager
  <1>4. TakenFromDead' BY <1>0 DEF Led, TakenFromDead, proc_alive, Exists
  <1>5. LedAge' /\ UnledAge' BY <1>0 DEF Led, LedAge, UnledAge
  <1> QED BY <1>1, <1>2, <1>3, <1>4, <1>5 DEF Led
(* An election step keeps the invariant: nobody takes the role from a       *)
(* living process, because its heartbeat is never found too old.            *)
LEMMA ElectLed ==
  ASSUME NEW s \in Supervisors, Typed, Good, Led, Elect(s),
         \A r \in Supervisors : pc'[r] = "off" => pc[r] = "off"
  PROVE  Led'
  <1> USE RolePlaces DEF Goto
  <1>0. /\ pc \in [Supervisors -> PC] /\ old \in [Supervisors -> Nat]
        /\ heartbeat_age \in Nat /\ manager_pid \in Nat
    BY DEF Typed, TypeOK
  <1>i. PidsKnown /\ RoleNamed /\ FirstManager /\ TakenFromDead /\ LedAge /\ UnledAge BY DEF Led
  <1>1. CASE ClaimVacant(s)
    <2>1. CASE manager_pid = 0
      <3>0. /\ pc[s] = "try" /\ pc' = [pc EXCEPT ![s] = "beat"] /\ manager_pid' = PidOf[s]
            /\ old' = [old EXCEPT ![s] = 0] /\ busy' = busy \cup {s}
            /\ UNCHANGED <<heartbeat_age, failures>>
        BY <1>1, <2>1 DEF ClaimVacant, Stay
      <3>1. PidsKnown' BY <1>0, <1>i, <3>0, PidsStayKnown
      <3>2. \A r \in Supervisors : pc[r] \notin Owning
        BY <1>i, <2>1, PidFacts DEF RoleNamed
      <3>3. RoleNamed' BY <1>0, <1>i, <3>0, <3>2, Distinct DEF RoleNamed
      <3>4. FirstManager' BY <1>i, <3>0, <3>2 DEF FirstManager
      <3>5. TakenFromDead' BY <1>0, <1>i, <3>0 DEF TakenFromDead, proc_alive, Exists
      <3>6. LedAge' BY <1>0, <1>i, <3>0 DEF LedAge
      <3>7. UnledAge' BY <1>0, <1>i, <3>0 DEF UnledAge, Starting
      <3> QED BY <3>1, <3>3, <3>4, <3>5, <3>6, <3>7 DEF Led
    <2>2. CASE manager_pid # 0
      <3>0. /\ pc[s] = "try" /\ pc' = [pc EXCEPT ![s] = "owner"] /\ busy' = busy \cup {s}
            /\ UNCHANGED <<manager_pid, old, heartbeat_age, failures>>
        BY <1>1, <2>2 DEF ClaimVacant, Stay
      <3>1. PidsKnown' BY <1>0, <1>i, <3>0, PidsStayKnown
      <3>2. RoleNamed' BY <1>0, <1>i, <3>0 DEF RoleNamed
      <3>3. FirstManager' BY <1>0, <1>i, <3>0 DEF FirstManager
      <3>4. TakenFromDead' BY <1>0, <1>i, <3>0 DEF TakenFromDead, proc_alive, Exists
      <3>5. LedAge' BY <1>0, <1>i, <3>0 DEF LedAge
      <3>6. UnledAge' BY <1>0, <1>i, <2>2, <3>0 DEF UnledAge, Starting
      <3> QED BY <3>1, <3>2, <3>3, <3>4, <3>5, <3>6 DEF Led
    <2> QED BY <2>1, <2>2
  <1>2. CASE LoadOwner(s)
    <2>0. manager_pid # PidOf[s] BY <1>2, <1>i DEF LoadOwner, RoleNamed
    <2>1. CASE manager_pid = 0
      <3>0. /\ pc[s] = "owner" /\ pc' = [pc EXCEPT ![s] = "watch"]
            /\ UNCHANGED <<manager_pid, old, heartbeat_age, failures, busy>>
        BY <1>2, <2>0, <2>1 DEF LoadOwner
      <3>1. PidsKnown' BY <1>0, <1>i, <3>0, PidsStayKnown
      <3>2. RoleNamed' BY <1>0, <1>i, <3>0 DEF RoleNamed
      <3>3. FirstManager' BY <1>0, <1>i, <3>0 DEF FirstManager
      <3>4. TakenFromDead' BY <1>0, <1>i, <3>0 DEF TakenFromDead, proc_alive, Exists
      <3>5. LedAge' BY <1>0, <1>i, <3>0 DEF LedAge
      <3>6. UnledAge' BY <1>0, <1>i, <2>1, <3>0 DEF UnledAge, Starting
      <3> QED BY <3>1, <3>2, <3>3, <3>4, <3>5, <3>6 DEF Led
    <2>2. CASE manager_pid # 0
      <3>0. /\ pc[s] = "owner" /\ pc' = [pc EXCEPT ![s] = "alive"]
            /\ old' = [old EXCEPT ![s] = manager_pid]
            /\ UNCHANGED <<manager_pid, heartbeat_age, failures, busy>>
        BY <1>2, <2>0, <2>2 DEF LoadOwner
      <3>1. PidsKnown' BY <1>0, <1>i, <3>0, PidsStayKnown
      <3>2. RoleNamed' BY <1>0, <1>i, <3>0 DEF RoleNamed
      <3>3. FirstManager' BY <1>0, <1>i, <3>0 DEF FirstManager
      <3>4. TakenFromDead' BY <1>0, <1>i, <3>0 DEF TakenFromDead, proc_alive, Exists
      <3>5. LedAge' BY <1>0, <1>i, <3>0 DEF LedAge
      <3>6. UnledAge' BY <1>0, <1>i, <3>0 DEF UnledAge, Starting
      <3> QED BY <3>1, <3>2, <3>3, <3>4, <3>5, <3>6 DEF Led
    <2> QED BY <2>1, <2>2
  <1>3. CASE CheckAlive(s)
    <2>0. /\ pc[s] = "alive"
          /\ UNCHANGED <<manager_pid, old, heartbeat_age, failures, busy>>
          /\ \/ proc_alive(old[s]) /\ pc' = [pc EXCEPT ![s] = "fresh"]
             \/ ~proc_alive(old[s]) /\ pc' = [pc EXCEPT ![s] = "cas"]
      BY <1>3 DEF CheckAlive
    <2>a. \A p : proc_alive(p)' <=> proc_alive(p) BY <1>0, <2>0 DEF proc_alive, Exists
    <2>1. PidsKnown' BY <1>0, <1>i, <2>0, PidsStayKnown
    <2>2. RoleNamed' BY <1>0, <1>i, <2>0 DEF RoleNamed
    <2>3. FirstManager'
      <3> SUFFICES ASSUME failures = 0 PROVE FirstManager' BY <2>0 DEF FirstManager
      <3>1. PICK m \in Supervisors :
              /\ pc[m] = "running"
              /\ \A r \in Supervisors \ {m} :
                   /\ pc[r] \in {"off", "try", "owner", "alive", "fresh", "watch"}
                   /\ pc[r] \in {"alive", "fresh"} => old[r] = manager_pid
        BY <1>i DEF FirstManager
      <3>2. proc_alive(old[s])
        BY <1>i, <2>0, <3>1 DEF RoleNamed, proc_alive, Exists
      <3> QED BY <1>0, <2>0, <3>1, <3>2 DEF FirstManager
    <2>4. TakenFromDead' BY <1>0, <1>i, <2>0, <2>a DEF TakenFromDead
    <2>5. LedAge' BY <1>0, <1>i, <2>0 DEF LedAge
    <2>6. UnledAge' BY <1>0, <1>i, <2>0, AtTwo DEF UnledAge, Starting
    <2> QED BY <2>1, <2>2, <2>3, <2>4, <2>5, <2>6 DEF Led
  <1>4. CASE CheckFresh(s)
    <2>0. /\ pc[s] = "fresh" /\ pc' = [pc EXCEPT ![s] = "watch"]
          /\ old' = [old EXCEPT ![s] = 0]
          /\ UNCHANGED <<manager_pid, heartbeat_age, failures, busy>>
      BY <1>0, <1>4, <1>i DEF CheckFresh, FoundFresh, UnledAge, STALE
    <2>1. PidsKnown' BY <1>0, <1>i, <2>0, PidsStayKnown
    <2>2. RoleNamed' BY <1>0, <1>i, <2>0 DEF RoleNamed
    <2>3. FirstManager' BY <1>0, <1>i, <2>0 DEF FirstManager
    <2>4. TakenFromDead' BY <1>0, <1>i, <2>0 DEF TakenFromDead, proc_alive, Exists
    <2>5. LedAge' BY <1>0, <1>i, <2>0 DEF LedAge
    <2>6. UnledAge' BY <1>0, <1>i, <2>0 DEF UnledAge, Starting
    <2> QED BY <2>1, <2>2, <2>3, <2>4, <2>5, <2>6 DEF Led
  <1>5. CASE TakeOver(s)
    <2>d. failures # 0 BY <1>5, <1>i DEF TakeOver, FirstManager
    <2>1. CASE manager_pid = old[s]
      <3>0. /\ pc[s] = "cas" /\ pc' = [pc EXCEPT ![s] = "beat"] /\ manager_pid' = PidOf[s]
            /\ UNCHANGED <<old, heartbeat_age, failures, busy>>
        BY <1>5, <2>1 DEF TakeOver
      <3>1. PidsKnown' BY <1>0, <1>i, <3>0, PidsStayKnown
      <3>2. \A r \in Supervisors : pc[r] \notin Owning
        BY <1>i, <2>1, <3>0 DEF RoleNamed, TakenFromDead, proc_alive, Exists
      <3>3. RoleNamed' BY <1>0, <1>i, <3>0, <3>2, Distinct DEF RoleNamed
      <3>4. FirstManager' BY <2>d, <3>0 DEF FirstManager
      <3>5. TakenFromDead' BY <1>0, <1>i, <3>0 DEF TakenFromDead, proc_alive, Exists
      <3>6. LedAge' BY <1>0, <1>i, <3>0 DEF LedAge
      <3>7. UnledAge' BY <1>0, <1>i, <3>0 DEF UnledAge, Starting
      <3> QED BY <3>1, <3>3, <3>4, <3>5, <3>6, <3>7 DEF Led
    <2>2. CASE manager_pid # old[s]
      <3>0. /\ pc[s] = "cas" /\ pc' = [pc EXCEPT ![s] = "watch"]
            /\ old' = [old EXCEPT ![s] = 0]
            /\ UNCHANGED <<manager_pid, heartbeat_age, failures, busy>>
        BY <1>5, <2>2 DEF TakeOver
      <3>1. PidsKnown' BY <1>0, <1>i, <3>0, PidsStayKnown
      <3>2. RoleNamed' BY <1>0, <1>i, <3>0 DEF RoleNamed
      <3>3. FirstManager' BY <2>d, <3>0 DEF FirstManager
      <3>4. TakenFromDead' BY <1>0, <1>i, <3>0 DEF TakenFromDead, proc_alive, Exists
      <3>5. LedAge' BY <1>0, <1>i, <3>0 DEF LedAge
      <3>6. UnledAge' BY <1>0, <1>i, <2>2, <3>0 DEF UnledAge, Starting
      <3> QED BY <3>1, <3>2, <3>3, <3>4, <3>5, <3>6 DEF Led
    <2> QED BY <2>1, <2>2
  <1>6. CASE FirstHeartbeat(s)
    <2>0. /\ pc[s] = "beat" /\ pc' = [pc EXCEPT ![s] = "reclaim"] /\ heartbeat_age' = 0
          /\ UNCHANGED <<manager_pid, old, failures, busy>>
      BY <1>6 DEF FirstHeartbeat
    <2>1. PidsKnown' BY <1>0, <1>i, <2>0, PidsStayKnown
    <2>2. RoleNamed' BY <1>0, <1>i, <2>0 DEF RoleNamed
    <2>3. FirstManager' BY <1>0, <1>i, <2>0 DEF FirstManager
    <2>4. TakenFromDead' BY <1>0, <1>i, <2>0 DEF TakenFromDead, proc_alive, Exists
    <2>5. LedAge' /\ UnledAge' BY <2>0 DEF LedAge, UnledAge
    <2> QED BY <2>1, <2>2, <2>3, <2>4, <2>5 DEF Led
  <1>7. CASE Watch(s)
    <2>0. /\ pc[s] = "watch" /\ busy' = busy \cup {s}
          /\ UNCHANGED <<manager_pid, old, heartbeat_age, failures>>
          /\ \/ pc' = [pc EXCEPT ![s] = "try"]
             \/ pc' = pc /\ proc_alive(manager_pid)
      BY <1>7 DEF Watch, Stay
    <2>1. PidsKnown' BY <1>0, <1>i, <2>0, PidsStayKnown
    <2>2. RoleNamed' BY <1>0, <1>i, <2>0 DEF RoleNamed
    <2>3. FirstManager' BY <1>0, <1>i, <2>0 DEF FirstManager
    <2>4. TakenFromDead' BY <1>0, <1>i, <2>0 DEF TakenFromDead, proc_alive, Exists
    <2>5. LedAge' BY <1>0, <1>i, <2>0 DEF LedAge
    <2>6. UnledAge' BY <1>0, <1>i, <2>0, AtTwo DEF UnledAge, Starting
    <2> QED BY <2>1, <2>2, <2>3, <2>4, <2>5, <2>6 DEF Led
  <1>8. CASE ReclaimCheck(s) \/ ReclaimClear(s) \/ StoreSlotPid(s) \/ Publish(s)
    <2>1. /\ pc[s] \in {"reclaim", "clear", "register", "slot_pid", "publish"}
          /\ UNCHANGED <<manager_pid, heartbeat_age, busy, failures>>
      BY <1>8 DEF ReclaimCheck, ReclaimClear, StoreSlotPid, Publish
    <2>2. \E q \in {"clear", "register", "slot_pid", "publish", "running", "release"} :
            pc' = [pc EXCEPT ![s] = q]
      BY <1>8 DEF ReclaimCheck, ReclaimClear, StoreSlotPid, Publish
    <2>3. old' \in {old, [old EXCEPT ![s] = 0]}
      BY <1>8 DEF ReclaimCheck, ReclaimClear, StoreSlotPid, Publish
    <2> QED BY <2>1, <2>2, <2>3, WinnerMoves
  <1>9. CASE RegisterSlot(s)
    <2>1. /\ pc[s] \in {"reclaim", "clear", "register", "slot_pid", "publish"}
          /\ UNCHANGED <<manager_pid, heartbeat_age, busy, failures>>
          /\ UNCHANGED old
      BY <1>9 DEF RegisterSlot
    <2>2. CASE UNCHANGED pc BY <2>1, <2>2, LedFrame
    <2>3. CASE \E q \in {"clear", "register", "slot_pid", "publish", "running", "release"} :
                 pc' = [pc EXCEPT ![s] = q]
      BY <2>1, <2>3, WinnerMoves
    <2> QED BY <1>9, <2>2, <2>3 DEF RegisterSlot
  <1>10. CASE ReleaseRole(s) \/ DropRole(s)
    <2>0. /\ pc[s] \in {"release", "drop_pid"} /\ manager_pid' = 0
          /\ \/ pc[s] = "release" /\ pc' = [pc EXCEPT ![s] = "try"]
             \/ pc[s] = "drop_pid" /\ pc' = [pc EXCEPT ![s] = "drop_idx"]
          /\ UNCHANGED <<old, heartbeat_age, failures>>
          /\ busy' \in {busy, busy \cup {s}}
      BY <1>10, <1>i DEF ReleaseRole, DropRole, RoleNamed, Stay
    <2>1. PidsKnown' BY <1>0, <1>i, <2>0, PidsStayKnown
    <2>2. RoleNamed'
      <3>1. \A r \in Supervisors : pc[r] \in Owning => r = s
        BY <1>i, <2>0, Distinct DEF RoleNamed
      <3> QED BY <1>0, <1>i, <2>0, <3>1, PidFacts DEF RoleNamed
    <2>3. FirstManager' BY <1>0, <1>i, <2>0 DEF FirstManager
    <2>4. TakenFromDead' BY <1>0, <1>i, <2>0 DEF TakenFromDead, proc_alive, Exists
    <2>5. LedAge' BY <1>0, <1>i, <2>0 DEF LedAge
    <2>6. UnledAge' BY <1>0, <1>i, <2>0 DEF UnledAge, LedAge
    <2> QED BY <2>1, <2>2, <2>3, <2>4, <2>5, <2>6 DEF Led
  <1>11. CASE DropGlobalIdx(s)
    <2>0. /\ pc[s] = "drop_idx" /\ pc' = [pc EXCEPT ![s] = "retired"]
          /\ UNCHANGED <<manager_pid, old, heartbeat_age, failures, busy>>
      BY <1>11 DEF DropGlobalIdx
    <2>1. PidsKnown' BY <1>0, <1>i, <2>0, PidsStayKnown
    <2>2. RoleNamed' BY <1>0, <1>i, <2>0 DEF RoleNamed
    <2>3. FirstManager' BY <1>0, <1>i, <2>0 DEF FirstManager
    <2>4. TakenFromDead' BY <1>0, <1>i, <2>0 DEF TakenFromDead, proc_alive, Exists
    <2>5. LedAge' BY <1>0, <1>i, <2>0 DEF LedAge
    <2>6. UnledAge' BY <1>0, <1>i, <2>0 DEF UnledAge, LedAge
    <2> QED BY <2>1, <2>2, <2>3, <2>4, <2>5, <2>6 DEF Led
  <1> QED
    BY <1>1, <1>2, <1>3, <1>4, <1>5, <1>6, <1>7, <1>8, <1>9, <1>10, <1>11 DEF Elect
(* Time: a heartbeat never gets three ticks old, since a tick waits for     *)
(* every running manager's heartbeat and for every watcher's look.          *)
LEMMA TickLed ==
  ASSUME Timely = TRUE, Typed, Good, Good', Led, Tick PROVE Led'
  <1>a. \A s \in Supervisors : pc[s] = "running" => s \in busy
    <2>1. waited' = (waited \/ \E s \in Supervisors : Waiting(s)) BY DEF Tick
    <2>2. ~waited' BY DEF Good
    <2>3. \A s \in Supervisors : ~Waiting(s) BY <2>1, <2>2, Zenon
    <2> QED BY <2>3 DEF Waiting
  <1>0. /\ heartbeat_age \in Nat /\ heartbeat_age' = heartbeat_age + 1 /\ busy' = {}
        /\ UNCHANGED <<manager_pid, pc, old, failures>>
        /\ \A s \in Supervisors :
             pc[s] \notin {"off", "retired", "dead"} => pc[s] \in {"running", "watch"} /\ s \in busy
        /\ \E s \in Supervisors : pc[s] \in {"running", "watch"}
    BY <1>a DEF Tick, Typed, TypeOK
  <1>1. heartbeat_age <= 1
    BY <1>0 DEF Led, LedAge, UnledAge, Starting
  <1>2. PidsKnown' /\ RoleNamed' /\ FirstManager' /\ TakenFromDead'
    BY <1>0 DEF Led, PidsKnown, KnownPid, RoleNamed, FirstManager, TakenFromDead, proc_alive, Exists
  <1>3. LedAge' BY <1>0 DEF Led, LedAge
  <1>4. UnledAge' BY <1>0, <1>1 DEF UnledAge
  <1> QED BY <1>2, <1>3, <1>4 DEF Led

(* Starts, heartbeats and the first failure.                                *)
LEMMA OthersLed ==
  ASSUME NEW s \in Supervisors, Typed, Good, Good', Led,
         \A r \in Supervisors : pc'[r] = "off" => pc[r] = "off",
         Start(s) \/ Heartbeat(s) \/ Crash(s) \/ PanicClearSlot(s) \/ PanicEarly(s)
  PROVE  Led'
  <1> USE RolePlaces DEF Goto
  <1>0. /\ pc \in [Supervisors -> PC] /\ old \in [Supervisors -> Nat]
        /\ heartbeat_age \in Nat /\ manager_pid \in Nat /\ failures \in Nat
    BY FailuresAssumption DEF Typed, TypeOK
  <1>i. PidsKnown /\ RoleNamed /\ FirstManager /\ TakenFromDead /\ LedAge /\ UnledAge BY DEF Led
  <1>1. CASE Start(s)
    <2>0. /\ pc[s] = "off" /\ pc' = [pc EXCEPT ![s] = "try"] /\ busy' = busy \cup {s}
          /\ UNCHANGED <<manager_pid, old, heartbeat_age, failures>>
      BY <1>1 DEF Start, Stay
    <2>1. PidsKnown' BY <1>0, <1>i, <2>0, PidsStayKnown
    <2>2. ASSUME NEW p, KnownPid(p) PROVE PidOf[s] # p
      BY <1>0, <2>0, <2>2, PidFacts DEF KnownPid, Good, NoPidReused
    <2>3. RoleNamed' BY <1>0, <1>i, <2>0, <2>2 DEF RoleNamed, PidsKnown
    <2>4. FirstManager' BY <1>0, <1>i, <2>0 DEF FirstManager
    <2>5. TakenFromDead'
      BY <1>0, <1>i, <2>0, <2>2 DEF TakenFromDead, proc_alive, Exists, PidsKnown
    <2>6. LedAge' BY <1>0, <1>i, <2>0 DEF LedAge
    <2>7. UnledAge' BY <1>0, <1>i, <2>0 DEF UnledAge, Starting
    <2> QED BY <2>1, <2>3, <2>4, <2>5, <2>6, <2>7 DEF Led
  <1>2. CASE Heartbeat(s)
    BY <1>0, <1>2 DEF Heartbeat, Led, PidsKnown, KnownPid, RoleNamed, FirstManager, TakenFromDead,
      proc_alive, Exists, LedAge, UnledAge
  <1>3. CASE Crash(s) \/ PanicClearSlot(s) \/ PanicEarly(s)
    <2>0. /\ failures = 0 /\ failures' = 1
          /\ UNCHANGED <<manager_pid, old, heartbeat_age, busy>>
          /\ \/ pc' = [pc EXCEPT ![s] = "dead"]
             \/ pc[s] = "running" /\ pc' = [pc EXCEPT ![s] = "drop_pid"]
             \/ pc[s] = "reclaim" /\ pc' = [pc EXCEPT ![s] = "retired"]
      BY <1>0, <1>3 DEF Crash, PanicClearSlot, PanicEarly, Good
    <2>1. PICK m \in Supervisors :
            /\ pc[m] = "running"
            /\ \A r \in Supervisors \ {m} :
                 pc[r] \in {"off", "try", "owner", "alive", "fresh", "watch"}
      BY <1>i, <2>0 DEF FirstManager
    <2>2. \/ pc' = [pc EXCEPT ![s] = "dead"]
          \/ pc[s] = "running" /\ pc' = [pc EXCEPT ![s] = "drop_pid"]
      BY <2>0, <2>1
    <2>3. PidsKnown' BY <1>0, <1>i, <2>0, PidsStayKnown
    <2>4. RoleNamed' BY <1>0, <1>i, <2>2, <2>0 DEF RoleNamed
    <2>5. FirstManager' BY <2>0 DEF FirstManager
    <2>6. TakenFromDead' BY <1>0, <1>i, <2>0, <2>2 DEF TakenFromDead, proc_alive, Exists
    <2>7. heartbeat_age <= 1 BY <1>i, <2>1 DEF LedAge
    <2>8. LedAge' BY <1>0, <1>i, <2>0, <2>2, <2>7 DEF LedAge
    <2>9. UnledAge' BY <1>0, <2>0, <2>7 DEF UnledAge
    <2> QED BY <2>3, <2>4, <2>5, <2>6, <2>8, <2>9 DEF Led
  <1> QED BY <1>1, <1>2, <1>3

(* Every step keeps the invariant as long as its premises last.             *)
LEMMA NextLed ==
  ASSUME Timely = TRUE PROVE Typed /\ (Good => Led) /\ [Next]_vars => (Good => Led)'
  <1> SUFFICES ASSUME Typed, Good => Led, [Next]_vars, Good' PROVE Led'
    OBVIOUS
  <1>1. Good /\ Led /\ \A r \in Supervisors : pc'[r] = "off" => pc[r] = "off"
    BY GoodStays
  <1>2. ASSUME NEW i \in Slot, OtherRegisters(i) \/ OtherStoresPid(i) \/ OtherWatchdog(i)
        PROVE Led'
    BY <1>1, <1>2, LedFrame DEF OtherRegisters, OtherStoresPid, OtherWatchdog
  <1>3. CASE UNCHANGED vars BY <1>1, <1>3, LedFrame DEF vars
  <1> QED BY <1>1, <1>2, <1>3, ElectLed, OthersLed, TickLed DEF Next

(* An established pod on a timely host that loses one process, its manager  *)
(* or another, to a crash or a panic never has two managers, as long as no  *)
(* manager waited for its global turn over a whole tick and the kernel gave *)
(* no pid of the pod out again.                                             *)
THEOREM OneFailureIsSafe ==
  ASSUME Timely = TRUE PROVE EstablishedSpec => []OneFailureOneManager
  <1>1. EstablishedInit => Typed /\ (Good => Led) BY EstablishedTyped, EstablishedLed
  <1>2. Typed /\ (Good => Led) /\ [Next]_vars => (Typed /\ (Good => Led))'
    BY NextTyped, NextLed
  <1> QED BY <1>1, <1>2, LedGivesOne, PTL DEF EstablishedSpec

-----------------------------------------------------------------------------
(* One slot per pod, under the same premises. *)

(* An active slot that this pod registered.                                 *)
Own(i) == is_active[i] /\ i \notin foreign

(* A manager holds it, ...                                                  *)
Held(i) ==
  \E s \in Supervisors : pc[s] \in {"slot_pid", "publish", "running"} /\ slot[s] = i

(* ... or it is what a crashed manager left, found through                  *)
(* manager_global_idx and the pid in it: nobody has succeeded that manager  *)
(* yet, or its successor is on the way to clear the slot.                   *)
Inherited(i) ==
  \/ manager_pid = slot_pid[i] /\ ~proc_alive(manager_pid)
  \/ \E s \in Supervisors :
       \/ pc[s] \in {"beat", "reclaim"} /\ old[s] = slot_pid[i]
       \/ pc[s] = "clear" /\ slot[s] = i

(* A slot that the crashed manager left and that can still be found.        *)
Left(i) ==
  /\ manager_global_idx = i /\ slot_pid[i] # 0
  /\ \A s \in Supervisors : pc[s] \notin {"drop_pid", "drop_idx"}
  /\ Inherited(i)

(* Every slot that carries a pid of this pod is held or was left.           *)
OwnInv == \A i \in Slot : Own(i) => Held(i) \/ Left(i)

(* The established manager has published its slot.                          *)
PublishedInv ==
  failures = 0 =>
    \A s \in Supervisors :
      pc[s] = "running" /\ Own(slot[s])
        => manager_global_idx = slot[s] /\ slot_pid[slot[s]] = PidOf[s]

(* The inductive invariant of OneSlotPerPod after one failure.              *)
Slotted == OwnInv /\ PublishedInv

(* With one owner of the role, every slot of the pod is the one it runs on. *)
LEMMA SlottedGivesOne ==
  Typed /\ (Good => Led) /\ (Good => Slotted) => (NoPidReused => OneSlotPerPod)
  <1> SUFFICES ASSUME Typed, Good, Led, Slotted, NEW m \in Supervisors, pc[m] = "running"
               PROVE  Cardinality({i \in Slot : is_active[i] /\ i \notin foreign}) <= 1
    BY DEF OneSlotPerPod, Good
  <1> USE RolePlaces
  <1>1. \A s \in Supervisors : pc[s] \in Owning => s = m
    BY Distinct DEF Led, RoleNamed
  <1>2. ASSUME NEW i \in Slot, Own(i) PROVE i = slot[m]
    <2>1. CASE Held(i) BY <1>1, <2>1 DEF Held
    <2>2. ~Left(i)
      <3>1. manager_pid = PidOf[m] /\ proc_alive(manager_pid)
        BY DEF Led, RoleNamed, proc_alive, Exists
      <3> QED BY <1>1, <3>1 DEF Left, Inherited
    <2> QED BY <1>2, <2>1, <2>2 DEF Slotted, OwnInv
  <1>3. {i \in Slot : is_active[i] /\ i \notin foreign} \subseteq {slot[m]}
    BY <1>2 DEF Own
  <1>4. IsFiniteSet({slot[m]}) /\ Cardinality({slot[m]}) = 1 BY FS_Singleton
  <1> QED BY <1>3, <1>4, FS_Subset

(* The established manager's slot is the pod's only one.                    *)
LEMMA EstablishedSlotted == EstablishedInit => Slotted
  <1> SUFFICES ASSUME EstablishedInit PROVE Slotted
    OBVIOUS
  <1>1. PICK m, w \in Supervisors :
          /\ manager_global_idx = 0 /\ is_active = [i \in Slot |-> i = 0]
          /\ slot_pid = [i \in Slot |-> IF i = 0 THEN PidOf[m] ELSE 0]
          /\ pc = [s \in Supervisors |->
                     IF s = m THEN "running" ELSE IF s = w THEN "watch" ELSE "off"]
          /\ slot = [s \in Supervisors |-> 0]
    BY DEF EstablishedInit
  <1>2. ASSUME NEW i \in Slot, Own(i) PROVE Held(i) BY <1>1, <1>2 DEF Own, Held
  <1>3. PublishedInv BY <1>1, SlotFacts DEF PublishedInv
  <1> QED BY <1>2, <1>3 DEF Slotted, OwnInv

(* A step that moves no owner of the role, changes neither the role nor     *)
(* manager_global_idx, and gives the pod no slot.                           *)
LEMMA OwnFrame ==
  ASSUME Slotted, UNCHANGED <<manager_pid, manager_global_idx>>, failures' = 0 => failures = 0,
         \A i \in Slot : Own(i)' => Own(i) /\ slot_pid'[i] = slot_pid[i],
         \A s \in Supervisors :
           \/ pc[s] \in {"beat", "reclaim", "clear", "slot_pid", "publish", "running"}
           \/ pc'[s] \in {"running", "drop_pid", "drop_idx"}
           => pc'[s] = pc[s] /\ slot'[s] = slot[s] /\ old'[s] = old[s],
         proc_alive(manager_pid)' => proc_alive(manager_pid),
         \A s \in Supervisors : pc[s] = "running" => slot[s] \in Slot
  PROVE  Slotted'
  <1>1. ASSUME NEW i \in Slot, Own(i)' PROVE Held(i)' \/ Left(i)'
    <2>1. Own(i) /\ slot_pid'[i] = slot_pid[i] BY <1>1
    <2>2. CASE Held(i) BY <2>2 DEF Held
    <2>3. CASE Left(i)
      <3>1. Inherited(i)'
        BY <2>1, <2>3 DEF Left, Inherited
      <3> QED BY <2>1, <2>3, <3>1 DEF Left
    <2> QED BY <2>1, <2>2, <2>3 DEF Slotted, OwnInv
  <1>2. PublishedInv'
    <2> SUFFICES ASSUME failures' = 0, NEW s \in Supervisors, pc'[s] = "running", Own(slot[s])'
                 PROVE  manager_global_idx' = slot'[s] /\ slot_pid'[slot'[s]] = PidOf[s]
      BY DEF PublishedInv
    <2>1. pc[s] = "running" /\ slot'[s] = slot[s] /\ slot[s] \in Slot OBVIOUS
    <2>2. Own(slot[s]) /\ slot_pid'[slot[s]] = slot_pid[slot[s]] BY <2>1 DEF Own
    <2> QED BY <2>1, <2>2 DEF Slotted, PublishedInv
  <1> QED BY <1>1, <1>2 DEF Slotted, OwnInv

(* A manager that is past clearing its predecessor's slot has left nothing. *)
LEMMA NothingLeft ==
  ASSUME Good, Led, NEW s \in Supervisors,
         pc[s] \in {"register", "slot_pid", "publish", "running", "release", "drop_pid"},
         NEW i
  PROVE  ~Left(i)
  <1> USE RolePlaces
  <1>1. manager_pid = PidOf[s] /\ proc_alive(manager_pid)
    BY DEF Led, RoleNamed, proc_alive, Exists
  <1>2. \A r \in Supervisors : pc[r] \in Owning => r = s
    BY <1>1, Distinct DEF Led, RoleNamed
  <1> QED BY <1>1, <1>2 DEF Left, Inherited

(* Nobody but a manager that registered comes and goes among its holders.   *)
LEMMA HeldFrame ==
  ASSUME NEW i, Held(i),
         \A s \in Supervisors :
           pc[s] \in {"slot_pid", "publish", "running"} =>
             pc'[s] \in {"slot_pid", "publish", "running"} /\ slot'[s] = slot[s]
  PROVE  Held(i)'
  BY DEF Held

(* An election step keeps the pod's slots accounted for: the successor of a *)
(* crashed manager finds its slot before it registers one of its own.       *)
LEMMA ElectSlotted ==
  ASSUME NEW s \in Supervisors, Typed, Good, Led, Slotted, Elect(s) PROVE Slotted'
  <1> USE RolePlaces DEF Goto
  <1>0. /\ pc \in [Supervisors -> PC] /\ old \in [Supervisors -> Nat]
        /\ slot \in [Supervisors -> 0 .. MAX_MANAGERS] /\ manager_pid \in Nat
        /\ \A r \in Supervisors : pc[r] \in {"slot_pid", "publish", "running"} => slot[r] \in Slot
        /\ is_active \in [Slot -> BOOLEAN] /\ slot_pid \in [Slot -> Nat] /\ heartbeat_age \in Nat
    BY DEF Typed, TypeOK, RegisteredInv
  <1>i. PidsKnown /\ RoleNamed /\ FirstManager /\ TakenFromDead /\ UnledAge BY DEF Led
  <1>o. OwnInv /\ PublishedInv BY DEF Slotted
  <1>u. pc[s] \in Owning => \A r \in Supervisors : pc[r] \in Owning => r = s
    BY <1>i, Distinct DEF RoleNamed
  <1>1. CASE ClaimVacant(s)
    <2>1. CASE manager_pid # 0
      <3>1. /\ pc[s] = "try" /\ pc' = [pc EXCEPT ![s] = "owner"]
            /\ UNCHANGED <<manager_pid, manager_global_idx, is_active, foreign, slot_pid, slot,
                           old, failures>>
        BY <1>1, <2>1 DEF ClaimVacant, registry
      <3> QED BY <1>0, <3>1, OwnFrame DEF Own, proc_alive, Exists
    <2>2. CASE manager_pid = 0
      <3>1. /\ pc[s] = "try" /\ pc' = [pc EXCEPT ![s] = "beat"]
            /\ UNCHANGED <<manager_global_idx, is_active, foreign, slot_pid, slot, failures>>
        BY <1>1, <2>2 DEF ClaimVacant, registry
      <3>2. ASSUME NEW i PROVE ~Left(i)
        BY <1>i, <2>2, PidFacts DEF Left, Inherited, RoleNamed
      <3>3. OwnInv' BY <1>0, <1>o, <3>1, <3>2, HeldFrame DEF OwnInv, Own
      <3>4. PublishedInv' BY <1>0, <1>o, <3>1 DEF PublishedInv, Own
      <3> QED BY <3>3, <3>4 DEF Slotted
    <2> QED BY <2>1, <2>2
  <1>2. CASE LoadOwner(s)
    <2>0. manager_pid # PidOf[s] BY <1>2, <1>i DEF LoadOwner, RoleNamed
    <2>1. /\ pc[s] = "owner" /\ \E q \in {"watch", "alive"} : pc' = [pc EXCEPT ![s] = q]
          /\ UNCHANGED <<manager_pid, manager_global_idx, is_active, foreign, slot_pid,
                         slot, failures>>
          /\ \A r \in Supervisors \ {s} : old'[r] = old[r]
      BY <1>0, <1>2, <2>0 DEF LoadOwner, registry
    <2> QED BY <1>0, <2>1, OwnFrame DEF Own, proc_alive, Exists
  <1>3. CASE CheckAlive(s)
    <2>1. /\ pc[s] = "alive" /\ \E q \in {"fresh", "cas"} : pc' = [pc EXCEPT ![s] = q]
          /\ UNCHANGED <<manager_pid, manager_global_idx, is_active, foreign, slot_pid, slot, old,
                         failures>>
      BY <1>3 DEF CheckAlive, registry
    <2> QED BY <1>0, <2>1, OwnFrame DEF Own, proc_alive, Exists
  <1>4. CASE CheckFresh(s)
    <2>1. /\ pc[s] = "fresh" /\ \E q \in {"watch", "cas"} : pc' = [pc EXCEPT ![s] = q]
          /\ UNCHANGED <<manager_pid, manager_global_idx, is_active, foreign, slot_pid,
                         slot, failures>>
          /\ \A r \in Supervisors \ {s} : old'[r] = old[r]
      BY <1>0, <1>4 DEF CheckFresh, FoundFresh, FoundSilent, registry
    <2> QED BY <1>0, <2>1, OwnFrame DEF Own, proc_alive, Exists
  <1>5. CASE TakeOver(s)
    <2>0. /\ pc[s] = "cas"
          /\ UNCHANGED <<manager_global_idx, is_active, foreign, slot_pid, slot, failures>>
      BY <1>5 DEF TakeOver, registry
    <2>1. CASE manager_pid # old[s]
      <3>1. /\ pc' = [pc EXCEPT ![s] = "watch"] /\ UNCHANGED manager_pid
            /\ \A r \in Supervisors \ {s} : old'[r] = old[r]
        BY <1>0, <1>5, <2>1 DEF TakeOver
      <3> QED BY <1>0, <2>0, <3>1, OwnFrame DEF Own, proc_alive, Exists
    <2>2. CASE manager_pid = old[s]
      <3>1. pc' = [pc EXCEPT ![s] = "beat"] /\ UNCHANGED old BY <1>5, <2>2 DEF TakeOver
      <3>2. \A r \in Supervisors : pc[r] \notin Owning
        BY <1>i, <2>0, <2>2 DEF RoleNamed, TakenFromDead, proc_alive, Exists
      <3>3. ASSUME NEW i \in Slot, Left(i) PROVE Left(i)'
        <4>1. slot_pid[i] = old[s] BY <2>2, <3>2, <3>3 DEF Left, Inherited
        <4>2. Inherited(i)' BY <1>0, <2>0, <3>1, <4>1 DEF Inherited
        <4> QED BY <1>0, <2>0, <3>1, <3>3, <4>2 DEF Left
      <3>4. OwnInv' BY <1>0, <1>o, <2>0, <3>1, <3>3, HeldFrame DEF OwnInv, Own
      <3>5. PublishedInv' BY <1>0, <1>o, <2>0, <3>1 DEF PublishedInv, Own
      <3> QED BY <3>4, <3>5 DEF Slotted
    <2> QED BY <2>1, <2>2
  <1>6. CASE FirstHeartbeat(s)
    <2>1. /\ pc[s] = "beat" /\ pc' = [pc EXCEPT ![s] = "reclaim"]
          /\ UNCHANGED <<manager_pid, manager_global_idx, is_active, foreign, slot_pid, slot, old,
                         failures>>
      BY <1>6 DEF FirstHeartbeat, registry
    <2>2. ASSUME NEW i \in Slot, Left(i) PROVE Left(i)'
      <3>1. Inherited(i)' BY <1>0, <2>1, <2>2 DEF Left, Inherited, proc_alive, Exists
      <3> QED BY <1>0, <2>1, <2>2, <3>1 DEF Left
    <2>3. OwnInv' BY <1>0, <1>o, <2>1, <2>2, HeldFrame DEF OwnInv, Own
    <2>4. PublishedInv' BY <1>0, <1>o, <2>1 DEF PublishedInv, Own
    <2> QED BY <2>3, <2>4 DEF Slotted
  <1>7. CASE Watch(s)
    <2>1. /\ pc[s] = "watch" /\ \E q \in {"watch", "try"} : pc' = [pc EXCEPT ![s] = q]
          /\ UNCHANGED <<manager_pid, manager_global_idx, is_active, foreign, slot_pid, slot, old,
                         failures>>
      BY <1>0, <1>7 DEF Watch, registry
    <2> QED BY <1>0, <2>1, OwnFrame DEF Own, proc_alive, Exists
  <1>8. CASE ReclaimCheck(s)
    <2>1. /\ pc[s] = "reclaim"
          /\ UNCHANGED <<manager_pid, manager_global_idx, is_active, foreign, slot_pid,
                         failures>>
          /\ \E q \in {"clear", "register"} : pc' = [pc EXCEPT ![s] = q]
          /\ \A r \in Supervisors \ {s} : old'[r] = old[r] /\ slot'[r] = slot[r]
          /\ /\ old[s] # 0 /\ manager_global_idx \in Slot
             /\ slot_pid[manager_global_idx] = old[s]
             => pc'[s] = "clear" /\ slot'[s] = manager_global_idx
      BY <1>0, <1>8 DEF ReclaimCheck, registry
    <2>2. ASSUME NEW i \in Slot, Left(i) PROVE Left(i)'
      <3>1. manager_pid = PidOf[s] /\ proc_alive(manager_pid)
        BY <1>i, <2>1 DEF RoleNamed, proc_alive, Exists
      <3>2. old[s] = slot_pid[i] BY <1>u, <2>1, <2>2, <3>1 DEF Left, Inherited
      <3>3. pc'[s] = "clear" /\ slot'[s] = i BY <2>1, <2>2, <3>2 DEF Left
      <3>4. Inherited(i)' BY <3>3 DEF Inherited
      <3> QED BY <1>0, <2>1, <2>2, <3>4 DEF Left
    <2>3. OwnInv' BY <1>0, <1>o, <2>1, <2>2, HeldFrame DEF OwnInv, Own
    <2>4. PublishedInv' BY <1>0, <1>o, <2>1 DEF PublishedInv, Own
    <2> QED BY <2>3, <2>4 DEF Slotted
  <1>9. CASE ReclaimClear(s)
    <2>1. /\ pc[s] = "clear" /\ pc' = [pc EXCEPT ![s] = "register"]
          /\ UNCHANGED <<manager_pid, manager_global_idx, foreign, slot_pid, old, failures>>
          /\ is_active' = [is_active EXCEPT ![slot[s]] = FALSE]
          /\ slot' = [slot EXCEPT ![s] = 0]
      BY <1>9 DEF ReclaimClear
    <2>2. ASSUME NEW i \in Slot, Left(i) PROVE slot[s] = i
      <3>1. manager_pid = PidOf[s] /\ proc_alive(manager_pid)
        BY <1>i, <2>1 DEF RoleNamed, proc_alive, Exists
      <3> QED BY <1>u, <2>1, <2>2, <3>1 DEF Left, Inherited
    <2>3. \A i \in Slot : Own(i)' => Own(i) /\ i # slot[s] BY <1>0, <2>1 DEF Own
    <2>4. OwnInv' BY <1>0, <1>o, <2>1, <2>2, <2>3, HeldFrame DEF OwnInv
    <2>5. PublishedInv' BY <1>0, <1>o, <2>1, <2>3 DEF PublishedInv, Own
    <2> QED BY <2>4, <2>5 DEF Slotted
  <1>10. CASE RegisterSlot(s)
    <2>0. /\ pc[s] = "register"
          /\ UNCHANGED <<manager_pid, manager_global_idx, slot_pid, old, failures>>
      BY <1>10 DEF RegisterSlot
    <2>1. CASE /\ is_active' = [is_active EXCEPT ![slot[s]] = TRUE]
               /\ foreign' = foreign \ {slot[s]}
               /\ pc' = [pc EXCEPT ![s] = "slot_pid"] /\ UNCHANGED slot
      <3>1. \A i \in Slot : ~Left(i) BY <2>0, NothingLeft
      <3>2. \A i \in Slot : Own(i)' => Own(i) \/ i = slot[s] BY <1>0, <2>1 DEF Own
      <3>3. Held(slot[s])' BY <1>0, <2>1 DEF Held
      <3>4. OwnInv' BY <1>0, <1>o, <2>1, <3>1, <3>2, <3>3, HeldFrame DEF OwnInv
      <3>5. failures # 0 BY <1>i, <2>0 DEF FirstManager
      <3> QED BY <2>0, <3>4, <3>5 DEF Slotted, PublishedInv
    <2>2. CASE /\ UNCHANGED <<is_active, foreign>>
               /\ \A r \in Supervisors \ {s} : slot'[r] = slot[r]
               /\ \E q \in {"register", "release"} : pc' = [pc EXCEPT ![s] = q]
      BY <1>0, <2>0, <2>2, OwnFrame DEF Own, proc_alive, Exists
    <2> QED BY <1>0, <1>10, <2>1, <2>2 DEF RegisterSlot
  <1>11. CASE StoreSlotPid(s) \/ Publish(s) \/ ReleaseRole(s) \/ DropRole(s) \/ DropGlobalIdx(s)
    <2>1. /\ UNCHANGED <<is_active, foreign, slot, failures>>
          /\ pc[s] \in {"slot_pid", "publish", "release", "drop_pid", "drop_idx"}
          /\ \/ pc[s] = "slot_pid" /\ pc' = [pc EXCEPT ![s] = "publish"]
             \/ pc[s] = "publish" /\ pc' = [pc EXCEPT ![s] = "running"]
             \/ \E q \in {"try", "drop_idx", "retired"} :
                  pc[s] \in {"release", "drop_pid", "drop_idx"} /\ pc' = [pc EXCEPT ![s] = q]
      BY <1>11 DEF StoreSlotPid, Publish, ReleaseRole, DropRole, DropGlobalIdx, registry
    <2>2. \A i \in Slot : ~Left(i)
      <3>1. CASE pc[s] = "drop_idx" BY <3>1 DEF Left
      <3>2. CASE pc[s] # "drop_idx" BY <2>1, <3>2, NothingLeft
      <3> QED BY <3>1, <3>2
    <2>3. \A r \in Supervisors :
            pc[r] \in {"slot_pid", "publish", "running"} =>
              pc'[r] \in {"slot_pid", "publish", "running"} /\ slot'[r] = slot[r]
      BY <1>0, <2>1
    <2>4. OwnInv' BY <1>o, <2>1, <2>2, <2>3, HeldFrame DEF OwnInv, Own
    <2>5. failures # 0 BY <1>i, <2>1 DEF FirstManager
    <2> QED BY <2>1, <2>4, <2>5 DEF Slotted, PublishedInv
  <1> QED
    BY <1>1, <1>2, <1>3, <1>4, <1>5, <1>6, <1>7, <1>8, <1>9, <1>10, <1>11 DEF Elect

(* Starts, heartbeats and the first failure: a crash of the manager leaves  *)
(* its slot to be found, a panic clears it.                                 *)
LEMMA OthersSlotted ==
  ASSUME NEW s \in Supervisors, Typed, Good, Good', Led, Led', Slotted,
         Start(s) \/ Heartbeat(s) \/ Crash(s) \/ PanicClearSlot(s) \/ PanicEarly(s)
  PROVE  Slotted'
  <1> USE RolePlaces DEF Goto
  <1>0. /\ pc \in [Supervisors -> PC] /\ failures \in Nat
        /\ \A r \in Supervisors : pc[r] \in {"slot_pid", "publish", "running"} => slot[r] \in Slot
        /\ is_active \in [Slot -> BOOLEAN]
    BY FailuresAssumption DEF Typed, TypeOK, RegisteredInv
  <1>1. CASE Start(s)
    <2>1. /\ pc[s] = "off" /\ pc' = [pc EXCEPT ![s] = "try"]
          /\ UNCHANGED <<manager_pid, manager_global_idx, is_active, foreign, slot_pid, slot, old,
                         failures>>
      BY <1>1 DEF Start, registry
    <2>2. manager_pid # PidOf[s] BY <1>0, <2>1 DEF Led, RoleNamed
    <2> QED BY <1>0, <2>1, <2>2, OwnFrame DEF Own, proc_alive, Exists
  <1>2. CASE Heartbeat(s)
    <2>1. UNCHANGED <<pc, manager_pid, manager_global_idx, is_active, foreign, slot_pid, slot, old,
                      failures>>
      BY <1>2 DEF Heartbeat, registry
    <2> QED BY <1>0, <2>1, OwnFrame DEF Own, proc_alive, Exists
  <1>3. CASE Crash(s) \/ PanicClearSlot(s) \/ PanicEarly(s)
    <2>0. /\ failures = 0 /\ failures' = 1
          /\ UNCHANGED <<manager_pid, manager_global_idx, foreign, slot_pid, slot, old>>
      BY <1>0, <1>3 DEF Crash, PanicClearSlot, PanicEarly, Good, registry
    <2>1. PICK m \in Supervisors :
            /\ pc[m] = "running"
            /\ \A r \in Supervisors \ {m} :
                 pc[r] \in {"off", "try", "owner", "alive", "fresh", "watch"}
      BY <2>0 DEF Led, FirstManager
    <2>2. \A i \in Slot : Own(i) => i = slot[m]
      BY <2>1, NothingLeft DEF Slotted, OwnInv, Held
    <2>3. PublishedInv' BY <2>0 DEF PublishedInv
    <2>4. OwnInv'
      <3>1. CASE PanicClearSlot(s)
        <4>1. s = m /\ is_active' = [is_active EXCEPT ![slot[s]] = FALSE]
          BY <2>1, <3>1 DEF PanicClearSlot
        <4>2. \A i \in Slot : ~Own(i)' BY <1>0, <2>0, <2>1, <2>2, <4>1 DEF Own
        <4> QED BY <4>2 DEF OwnInv
      <3>2. CASE PanicEarly(s) BY <2>1, <3>2 DEF PanicEarly
      <3>3. CASE Crash(s)
        <4>1. pc' = [pc EXCEPT ![s] = "dead"] /\ UNCHANGED is_active
          BY <3>3 DEF Crash, registry
        <4> SUFFICES ASSUME NEW i \in Slot, Own(i)' PROVE Held(i)' \/ Left(i)' BY DEF OwnInv
        <4>2. Own(i) /\ i = slot[m] BY <2>0, <2>2, <4>1 DEF Own
        <4>3. CASE s # m BY <1>0, <2>0, <2>1, <4>1, <4>2, <4>3 DEF Held
        <4>4. CASE s = m
          <5>1. manager_global_idx = i /\ slot_pid[i] = PidOf[m]
            BY <2>0, <2>1, <4>2 DEF Slotted, PublishedInv
          <5>2. manager_pid = PidOf[m] BY <2>1 DEF Led, RoleNamed
          <5>3. ~proc_alive(manager_pid)'
            BY <1>0, <2>0, <2>1, <4>1, <4>4, <5>2, Distinct DEF proc_alive, Exists
          <5>4. Inherited(i)' BY <2>0, <5>1, <5>2, <5>3 DEF Inherited
          <5>5. \A r \in Supervisors : pc'[r] \notin {"drop_pid", "drop_idx"}
            BY <1>0, <2>1, <4>1
          <5> QED BY <2>0, <5>1, <5>4, <5>5, PidFacts DEF Left
        <4> QED BY <4>3, <4>4
      <3> QED BY <1>3, <3>1, <3>2, <3>3
    <2> QED BY <2>3, <2>4 DEF Slotted
  <1> QED BY <1>1, <1>2, <1>3

(* The other pods write to slots that are not this pod's, or take a slot    *)
(* from it.                                                                 *)
LEMMA PodsSlotted ==
  ASSUME Typed, Slotted, NEW i \in Slot,
         OtherRegisters(i) \/ OtherStoresPid(i) \/ OtherWatchdog(i)
  PROVE  Slotted'
  <1>0. /\ \A r \in Supervisors : pc[r] = "running" => slot[r] \in Slot
        /\ is_active \in [Slot -> BOOLEAN] /\ slot_pid \in [Slot -> Nat]
    BY DEF Typed, TypeOK, RegisteredInv
  <1>1. UNCHANGED <<pc, manager_pid, manager_global_idx, slot, old, failures>>
    BY DEF OtherRegisters, OtherStoresPid, OtherWatchdog
  <1>2. \A j \in Slot : Own(j)' => Own(j) /\ slot_pid'[j] = slot_pid[j]
    <2>1. CASE OtherRegisters(i) BY <1>0, <2>1 DEF OtherRegisters, Own
    <2>2. CASE OtherStoresPid(i) BY <1>0, <2>2 DEF OtherStoresPid, Own
    <2>3. CASE OtherWatchdog(i) BY <1>0, <2>3 DEF OtherWatchdog, Own
    <2> QED BY <2>1, <2>2, <2>3
  <1> QED BY <1>0, <1>1, <1>2, OwnFrame DEF proc_alive, Exists

(* Every step keeps the slots accounted for as long as the premises last.   *)
LEMMA NextSlotted ==
  ASSUME Timely = TRUE
  PROVE  Typed /\ (Good => Led) /\ (Good => Slotted) /\ [Next]_vars => (Good => Slotted)'
  <1> SUFFICES ASSUME Typed, Good => Led, Good => Slotted, [Next]_vars, Good' PROVE Slotted'
    OBVIOUS
  <1>1. Good /\ Led /\ Slotted BY GoodStays
  <1>2. Led' BY NextLed
  <1>3. CASE Tick \/ UNCHANGED vars
    <2>1. UNCHANGED <<pc, manager_pid, manager_global_idx, is_active, foreign, slot_pid, slot, old,
                      failures>>
      BY <1>3 DEF Tick, vars, registry
    <2>2. \A r \in Supervisors : pc[r] = "running" => slot[r] \in Slot
      BY DEF Typed, RegisteredInv
    <2> QED BY <1>1, <2>1, <2>2, OwnFrame DEF Own, proc_alive, Exists
  <1> QED BY <1>1, <1>2, <1>3, ElectSlotted, OthersSlotted, PodsSlotted DEF Next

(* An established pod on a timely host that loses one process keeps at most *)
(* one active slot of the registry while somebody manages it, whatever the  *)
(* other pods register and clear, as long as no manager waited for its      *)
(* global turn over a whole tick and no pid was given out again.            *)
THEOREM OneFailureOneSlot ==
  ASSUME Timely = TRUE PROVE EstablishedSpec => [](NoPidReused => OneSlotPerPod)
  <1>1. EstablishedInit => Typed /\ (Good => Led) /\ (Good => Slotted)
    BY EstablishedTyped, EstablishedLed, EstablishedSlotted
  <1>2. Typed /\ (Good => Led) /\ (Good => Slotted) /\ [Next]_vars
          => (Typed /\ (Good => Led) /\ (Good => Slotted))'
    BY NextTyped, NextLed, NextSlotted
  <1> QED BY <1>1, <1>2, SlottedGivesOne, PTL DEF EstablishedSpec
=============================================================================
