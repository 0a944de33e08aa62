-------------------------- MODULE BatonRingProofs --------------------------
(***************************************************************************)
(* The step simulation of TurnRing by GlobalBaton: for any number of pods   *)
(* that have all joined, any ring they fit into and every interleaving of   *)
(* their steps.  That somebody's turn always comes is left to TLC.          *)
(***************************************************************************)
EXTENDS BatonRing, GlobalBatonProofs, FiniteSetTheorems

(* There are pods, and the registry has a slot for each.                    *)
Seated == IsFiniteSet(Managers) /\ Managers # {} /\ PodCount <= MAX_MANAGERS

-----------------------------------------------------------------------------
(* Positions on the ring. *)

(* The position j behind h.                                                 *)
Ahead(h, j) == (h + j) % MAX_MANAGERS

(* One turn of the ring at most is subtracted.                              *)
LEMMA Wrapped ==
  ASSUME NEW x \in Nat, x < MAX_MANAGERS + MAX_MANAGERS
  PROVE  x % MAX_MANAGERS = IF x < MAX_MANAGERS THEN x ELSE x - MAX_MANAGERS
  BY MaxManagersAssumption, SMT

(* Positions are counted the same from the next entry.                      *)
LEMMA Shifted ==
  ASSUME NEW h \in Slot, NEW j \in 0 .. MAX_MANAGERS
  PROVE  /\ Ahead(Succ(h), j) = Succ(Ahead(h, j))
         /\ j < MAX_MANAGERS => Ahead(Succ(h), j) = Ahead(h, j + 1)
         /\ Ahead(h, j) \in Slot
         /\ Ahead(h, 0) = h /\ Ahead(h, 1) = Succ(h)
  <1> USE MaxManagersAssumption DEF Slot
  <1>1. /\ h + j \in Nat /\ h + j < MAX_MANAGERS + MAX_MANAGERS
        /\ h + 1 \in Nat /\ h + 1 < MAX_MANAGERS + MAX_MANAGERS
        /\ h + 0 = h /\ h \in Nat /\ h < MAX_MANAGERS + MAX_MANAGERS
    OBVIOUS
  <1>2. /\ Ahead(h, j) = IF h + j < MAX_MANAGERS THEN h + j ELSE h + j - MAX_MANAGERS
        /\ Succ(h) = IF h + 1 < MAX_MANAGERS THEN h + 1 ELSE h + 1 - MAX_MANAGERS
        /\ Ahead(h, 0) = h
        /\ Ahead(h, 1) = Succ(h)
    BY <1>1, Wrapped DEF Ahead, Succ
  <1>3. Ahead(h, j) \in Slot /\ Succ(h) \in Slot BY <1>2
  <1>4. Ahead(Succ(h), j) = IF Succ(h) + j < MAX_MANAGERS THEN Succ(h) + j
                                                         ELSE Succ(h) + j - MAX_MANAGERS
    BY <1>3, Wrapped DEF Ahead
  <1>5. Succ(Ahead(h, j)) = IF Ahead(h, j) + 1 < MAX_MANAGERS THEN Ahead(h, j) + 1
                                                     ELSE Ahead(h, j) + 1 - MAX_MANAGERS
    BY <1>3, Wrapped DEF Succ
  <1>6. Ahead(Succ(h), j) = Succ(Ahead(h, j)) BY <1>2, <1>4, <1>5
  <1>7. ASSUME j < MAX_MANAGERS PROVE Ahead(Succ(h), j) = Ahead(h, j + 1)
    <2>1. Ahead(h, j + 1) = IF h + j + 1 < MAX_MANAGERS THEN h + j + 1
                                                        ELSE h + j + 1 - MAX_MANAGERS
      BY <1>7, Wrapped DEF Ahead
    <2> QED BY <1>2, <1>4, <1>7, <2>1
  <1> QED BY <1>2, <1>3, <1>6, <1>7

(* Different places of a line that fits into the ring are different.        *)
LEMMA Apart ==
  ASSUME NEW h \in Slot, NEW j \in 0 .. MAX_MANAGERS, NEW k \in 0 .. MAX_MANAGERS,
         j < k, k - j < MAX_MANAGERS
  PROVE  Ahead(h, j) # Ahead(h, k)
  <1>1. h + j \in Nat /\ h + j < MAX_MANAGERS + MAX_MANAGERS
    BY MaxManagersAssumption DEF Slot
  <1>2. h + k \in Nat /\ h + k < MAX_MANAGERS + MAX_MANAGERS
    BY MaxManagersAssumption DEF Slot
  <1> QED BY <1>1, <1>2, Wrapped, MaxManagersAssumption DEF Ahead, Slot

(* There is somebody on the ring, and room for everybody.                   *)
LEMMA PodsFit == ASSUME Seated PROVE PodCount \in 1 .. MAX_MANAGERS
  BY FS_CardinalityType, FS_EmptySet, MaxManagersAssumption DEF Seated, PodCount

-----------------------------------------------------------------------------
(* The ring while everybody has joined. *)

(* The places of pass_baton at which the holder's new entry is reserved,    *)
(* but the head has not moved.                                              *)
Queued == {"reenq", "head", "scan", "scan_chk", "commit"}

(* From the head on, the ring holds as many entries as there are pods, and  *)
(* one more while the holder has queued up again.                           *)
TailInv ==
  queue_tail = IF \E m \in Managers : pc[m] \in Queued
                 THEN Succ(Ahead(queue_head, PodCount)) ELSE Ahead(queue_head, PodCount)

(* The holder has queued up behind all others, and the candidate of its     *)
(* scan is the entry behind its own.                                        *)
PassInv ==
  \A m \in Managers :
    /\ pc[m] = "reenq" => cursor[m] = Ahead(queue_head, PodCount)
    /\ pc[m] \in Queued \ {"reenq"} => queue[Ahead(queue_head, PodCount)] = lock_owner
    /\ pc[m] \in {"scan", "scan_chk", "commit"} => cursor[m] = Succ(queue_head)
    /\ pc[m] \in {"scan_chk", "commit"} => seen[m] = queue[Succ(queue_head)]
    /\ pc[m] = "hand" => /\ seen[m] = queue[queue_head]
                         /\ queue[Ahead(queue_head, PodCount - 1)] = lock_owner

(* Everybody has joined.                                                    *)
AllIn == \A m \in Managers : pc[m] \in Joined

(* The inductive invariant of the simulation.                               *)
RingInv == Undelayed /\ AllIn /\ TailInv /\ PassInv

-----------------------------------------------------------------------------
(* The settled ring. *)

(* What SettledInit says, with the assignment of slots to pods named; every *)
(* slot up to the number of pods is somebody's.                             *)
SettledAs(place) ==
  /\ place \in [Managers -> 0 .. PodCount - 1]
  /\ \A m, n \in Managers : place[m] = place[n] => m = n
  /\ \A i \in 0 .. PodCount - 1 : \E m \in Managers : place[m] = i
  /\ lock_owner = 0 /\ lock_age = 0 /\ queue_head = 0
  /\ queue_tail = PodCount % MAX_MANAGERS
  /\ queue = [i \in Slot |-> IF i < PodCount THEN i ELSE 0]
  /\ is_active = [i \in Slot |-> i < PodCount]
  /\ slot_pid = [i \in Slot |->
                   IF i < PodCount THEN CHOOSE m \in Managers : place[m] = i ELSE NoPid]
  /\ pc = [m \in Managers |-> IF place[m] = 0 THEN "turn" ELSE "wait"]
  /\ my_idx = place
  /\ ThreadLocalsInit /\ SetupDone

(* As many slots as pods, no two pods on one: none is left over.            *)
LEMMA SettledSomehow == ASSUME Seated, SettledInit PROVE \E place : SettledAs(place)
  <1>1. PICK place \in {f \in [Managers -> 0 .. PodCount - 1] :
                          \A m, n \in Managers : f[m] = f[n] => m = n} :
          /\ lock_owner = 0 /\ lock_age = 0 /\ queue_head = 0
          /\ queue_tail = PodCount % MAX_MANAGERS
          /\ queue = [i \in Slot |-> IF i < PodCount THEN i ELSE 0]
          /\ is_active = [i \in Slot |-> i < PodCount]
          /\ slot_pid = [i \in Slot |->
               IF i < PodCount THEN CHOOSE m \in Managers : place[m] = i ELSE NoPid]
          /\ pc = [m \in Managers |-> IF place[m] = 0 THEN "turn" ELSE "wait"]
          /\ my_idx = place
          /\ ThreadLocalsInit /\ SetupDone
    BY Zenon DEF SettledInit, PodCount
  <1>2. place \in Injection(Managers, 0 .. PodCount - 1) BY DEF Injection, IsInjective
  <1>3. PodCount \in Nat /\ PodCount >= 1 BY PodsFit
  <1>4. 0 \in Int /\ PodCount - 1 \in Int /\ ~(0 > PodCount - 1) BY <1>3
  <1>5. IsFiniteSet(0 .. PodCount - 1) /\ Cardinality(0 .. PodCount - 1) = PodCount
    <2>1. /\ IsFiniteSet(0 .. PodCount - 1)
          /\ Cardinality(0 .. PodCount - 1) = PodCount - 1 - 0 + 1
      BY <1>4, FS_Interval
    <2> QED BY <1>3, <2>1
  <1>6. place \in Surjection(Managers, 0 .. PodCount - 1)
    BY <1>2, <1>5, FS_Injection DEF PodCount
  <1>7. \A i \in 0 .. PodCount - 1 : \E m \in Managers : place[m] = i BY <1>6 DEF Surjection
  <1> QED BY <1>1, <1>7, Zenon DEF SettledAs

(* The settled ring is a calm one.                                          *)
LEMMA SettledCalm == ASSUME Seated, SettledInit PROVE Undelayed
  <1>1. PICK place : SettledAs(place) BY SettledSomehow
  <1>2. PodCount \in Nat /\ PodCount >= 1 /\ PodCount <= MAX_MANAGERS BY PodsFit
  <1>3. /\ \A i \in 0 .. PodCount - 1 : i \in Slot /\ i \in Index
        /\ \A i \in Slot : i < PodCount => i \in 0 .. PodCount - 1
    BY <1>2, MaxManagersAssumption DEF Slot, Index
  <1>4. Typed
    <2>1. /\ seen \in [Managers -> Index] /\ cursor \in [Managers -> Index]
          /\ left \in [Managers -> Index] /\ stamp \in [Managers -> 0 .. STALE]
          /\ reclaiming = [m \in Managers |-> Nobody]
          /\ beat = {} /\ evicted = {} /\ displaced = {} /\ failures \in 0 .. MaxFailures
      BY <1>1, ThreadLocalsTyped DEF SettledAs
    <2>2. recycled \in BOOLEAN /\ overslept \in BOOLEAN
      BY <1>1, ThreadLocalsTyped, Zenon DEF SettledAs
    <2>3. slot_pid \in [Slot -> Managers \cup {NoPid}] BY <1>1, <1>3 DEF SettledAs
    <2>4. is_active \in [Slot -> BOOLEAN]
      BY <1>1, <1>2, MaxManagersAssumption, SMT DEF SettledAs, Slot
    <2>5. queue_tail \in Slot BY <1>1, <1>2, MaxManagersAssumption, SMT DEF SettledAs, Slot
    <2>6. queue \in [Slot -> Index] /\ queue_head \in Slot /\ lock_owner \in Index
      BY <1>1, <1>3, IndexFacts DEF SettledAs
    <2>7. lock_age \in 0 .. STALE BY <1>1 DEF SettledAs, STALE
    <2>8. my_idx \in [Managers -> Index] BY <1>1, <1>3 DEF SettledAs
    <2>9. pc \in [Managers -> PC] /\ \A m \in Managers : pc[m] \in {"turn", "wait"}
      BY <1>1, EveryPlace DEF SettledAs
    <2>10. ScanInv BY <2>9 DEF ScanInv
    <2>11. reclaiming \in [Managers -> Index] /\ ReclaimInv
      BY <2>1, MaxManagersAssumption DEF Index, Slot, Nobody, ReclaimInv
    <2> QED
      BY <2>1, <2>2, <2>3, <2>4, <2>5, <2>6, <2>7, <2>8, <2>9, <2>10, <2>11
      DEF Typed, TypeOK
  <1>5. Owned
    <2>1. \A m \in Managers : my_idx[m] \in 0 .. PodCount - 1 BY <1>1 DEF SettledAs
    <2>2. \A i \in 0 .. PodCount - 1 : i < PodCount BY <1>2
    <2>3. \A m \in Managers : my_idx[m] \in Slot /\ is_active[my_idx[m]]
      BY <1>1, <1>3, <2>1, <2>2 DEF SettledAs
    <2>4. \A m, n \in Managers : my_idx[m] = my_idx[n] => m = n BY <1>1 DEF SettledAs
    <2> QED BY <2>3, <2>4 DEF Owned, SlotInv, SharedSlotOnlyAfterEviction
  <1>6. CalmInv
    <2>1. \A i \in 0 .. PodCount - 1 : NamesJoined(i)
      BY <1>1, JoinedPlaces DEF SettledAs, NamesJoined
    <2>2. \A i \in Slot : queue[i] \in 0 .. PodCount - 1 BY <1>1, <1>2, <1>3 DEF SettledAs
    <2>3. lock_owner \in 0 .. PodCount - 1 BY <1>1, <1>2 DEF SettledAs
    <2>4. \A m \in Managers : pc[m] \in {"turn", "wait"} BY <1>1 DEF SettledAs
    <2>5. RingNamesJoined BY <2>1, <2>2, <2>3, <2>4 DEF RingNamesJoined
    <2>6. NoTakeover /\ HolderOwnsLock
      BY <1>1, JoinedPlaces DEF SettledAs, NoTakeover, HolderOwnsLock
    <2>7. NoEviction /\ HeartbeatFresh
      BY <1>1 DEF SettledAs, ThreadLocalsInit, NoEviction, HeartbeatFresh, STALE
    <2> QED BY <2>5, <2>6, <2>7 DEF CalmInv
  <1>7. ~Delayed BY <1>1 DEF SettledAs, ThreadLocalsInit, Delayed
  <1> QED BY <1>4, <1>5, <1>6, <1>7 DEF Undelayed, Calm, CalmUnlessDelayed

(* Its ring is as the invariant says, ...                                   *)
LEMMA SettledRing == ASSUME Seated, SettledInit PROVE RingInv
  <1>1. PICK place : SettledAs(place) BY SettledSomehow
  <1>2. \A m \in Managers : pc[m] \in {"turn", "wait"} BY <1>1 DEF SettledAs
  <1>3. AllIn BY <1>2, JoinedPlaces DEF AllIn
  <1>4. PassInv BY <1>2 DEF PassInv, Queued
  <1>5. TailInv BY <1>1, <1>2, PodsFit DEF SettledAs, TailInv, Queued, Ahead
  <1> QED BY <1>3, <1>4, <1>5, SettledCalm DEF RingInv

(* ... and its line is one of TurnRing.                                     *)
LEMMA SettledLine == ASSUME Seated, SettledInit PROVE Ring!Init
  <1>1. PICK place : SettledAs(place) BY SettledSomehow
  <1>2. PodCount \in Nat /\ PodCount >= 1 /\ PodCount <= MAX_MANAGERS BY PodsFit
  <1>3. ~HeadMoved BY <1>1 DEF SettledAs, HeadMoved
  <1>4. \A k \in 1 .. PodCount : Line[k] = k - 1
    <2> SUFFICES ASSUME NEW k \in 1 .. PodCount PROVE Line[k] = k - 1
      OBVIOUS
    <2>1. k - 1 \in Nat /\ k - 1 < MAX_MANAGERS /\ k - 1 < MAX_MANAGERS + MAX_MANAGERS
          /\ k - 1 < PodCount
      BY <1>2, MaxManagersAssumption
    <2>2. LinePosition(k) = k - 1
      BY <1>1, <1>3, <2>1, Wrapped DEF SettledAs, LinePosition
    <2>3. k - 1 \in Slot BY <2>1, MaxManagersAssumption DEF Slot
    <2>4. queue[LinePosition(k)] = k - 1 BY <1>1, <2>1, <2>2, <2>3 DEF SettledAs
    <2> QED BY <1>1, <2>4 DEF SettledAs, Line
  <1>5. Line \in [1 .. PodCount -> 0 .. PodCount - 1]
    <2>1. \A k \in 1 .. PodCount : k - 1 \in 0 .. PodCount - 1 BY <1>2
    <2> QED BY <1>4, <2>1 DEF Line
  <1>6. \A j, k \in 1 .. PodCount : Line[j] = Line[k] => j = k BY <1>2, <1>4
  <1>7. Serving \in BOOLEAN BY Zenon DEF Serving
  <1> QED BY <1>5, <1>6, <1>7, Zenon DEF Ring!Init

-----------------------------------------------------------------------------
(* The steps. *)

(* The ring's part of the invariant, which every step has to restore.       *)
Entries == AllIn /\ TailInv /\ PassInv

(* A step of the abstract line, or none.                                    *)
Simulated == [Ring!Next]_(Ring!ringVars)

(* The line moves only with the lock, the head and the ring.                *)
LEMMA LineKept ==
  ASSUME UNCHANGED <<lock_owner, queue_head, queue>>, HeadMoved' <=> HeadMoved,
         Serving' <=> Serving
  PROVE  Simulated
  <1>1. Line' = Line BY DEF Line, LinePosition
  <1>2. Serving' = Serving BY Zenon DEF Serving
  <1> QED BY <1>1, <1>2, Zenon DEF Simulated, Ring!ringVars

(* A manager that moves between places outside pass_baton, and leaves the   *)
(* ring and the lock alone, disturbs neither the entries ...                *)
LEMMA QuietEntries ==
  ASSUME RingInv, NEW m \in Managers, NEW q \in Joined,
         pc' = [pc EXCEPT ![m] = q],
         pc[m] \notin Queued \cup {"hand"}, q \notin Queued \cup {"hand"},
         UNCHANGED <<lock_owner, queue_head, queue_tail, queue, cursor>>,
         \A n \in Managers \ {m} : seen'[n] = seen[n]
  PROVE  Entries'
  <1>1. pc \in [Managers -> PC] BY DEF RingInv, Undelayed, Calm, Typed, TypeOK
  <1>2. \A n \in Managers : pc'[n] = IF n = m THEN q ELSE pc[n] BY <1>1
  <1>3. AllIn' BY <1>2 DEF RingInv, AllIn
  <1>4. TailInv' BY <1>2 DEF RingInv, TailInv, Ahead, Succ
  <1>5. PassInv' BY <1>2 DEF RingInv, PassInv, Queued, Ahead, Succ
  <1> QED BY <1>3, <1>4, <1>5 DEF Entries

(* ... nor, unless it starts its turn, the abstract line.                   *)
LEMMA QuietLine ==
  ASSUME RingInv, NEW m \in Managers, NEW q,
         pc' = [pc EXCEPT ![m] = q],
         pc[m] # "hand", q # "hand",
         pc[m] \in Holding \ {"enter"} <=> q \in Holding \ {"enter"},
         UNCHANGED <<lock_owner, queue_head, queue>>
  PROVE  Simulated
  <1>1. pc \in [Managers -> PC] BY DEF RingInv, Undelayed, Calm, Typed, TypeOK
  <1>2. \A n \in Managers : pc'[n] = IF n = m THEN q ELSE pc[n] BY <1>1
  <1>3. HeadMoved' <=> HeadMoved BY <1>2 DEF HeadMoved
  <1>4. Serving' <=> Serving BY <1>2 DEF Serving
  <1> QED BY <1>3, <1>4, LineKept

(* A manager that leaves its place untouched and writes no ring.            *)
LEMMA StillEntries ==
  ASSUME RingInv, UNCHANGED <<lock_owner, queue_head, queue_tail, queue, cursor, seen, pc>>
  PROVE  Entries' /\ Simulated
  <1>1. Entries'
    BY DEF RingInv, Entries, AllIn, TailInv, PassInv, Ahead, Succ
  <1>2. Simulated BY LineKept DEF HeadMoved, Serving
  <1> QED BY <1>1, <1>2

(* Waiting for the turn, and taking it.                                     *)
LEMMA WaitingStep ==
  ASSUME RingInv, NEW m \in Managers,
         \/ LoadOwner(m) \/ CheckOwnerActive(m) \/ LoadTimestamp(m) \/ ReadClock(m)
         \/ Recheck(m)
  PROVE  Entries' /\ Simulated
  <1> USE DEF Goto, TakeTurn, registry, locals, ghosts
  <1>1. seen \in [Managers -> Index] BY DEF RingInv, Undelayed, Calm, Typed, TypeOK
  <1>2. PICK q \in {"enter", "chk", "age", "clock", "claim", "mark", "recheck", "wait"} :
          pc' = [pc EXCEPT ![m] = q]
    BY DEF LoadOwner, CheckOwnerActive, LoadTimestamp, ReadClock, Recheck
  <1>3. /\ pc[m] \in {"wait", "chk", "age", "clock", "recheck"}
        /\ UNCHANGED <<lock_owner, queue_head, queue_tail, queue, cursor>>
        /\ \A n \in Managers \ {m} : seen'[n] = seen[n]
    BY <1>1 DEF LoadOwner, CheckOwnerActive, LoadTimestamp, ReadClock, Recheck
  <1>4. Entries' BY <1>2, <1>3, QuietEntries, JoinedPlaces DEF Queued
  <1>5. Simulated BY <1>2, <1>3, QuietLine, JoinedPlaces
  <1> QED BY <1>4, <1>5

(* One manager holds the lock.                                              *)
LEMMA HolderAlone ==
  ASSUME RingInv, NEW m \in Managers, pc[m] \in Holding
  PROVE  /\ \A n \in Managers \ {m} : pc[n] \notin Holding
         /\ my_idx[m] = lock_owner
  BY CalmExclusion DEF RingInv, Undelayed, Calm, CalmUnlessDelayed, MutualExclusion, CalmInv, HolderOwnsLock

(* The turn of the first of the line.                                       *)
LEMMA EnterStep == ASSUME RingInv, NEW m \in Managers, Enter(m) PROVE Entries' /\ Simulated
  <1> USE DEF Goto, registry, locals, ghosts
  <1>1. /\ pc[m] = "enter" /\ pc' = [pc EXCEPT ![m] = "turn"]
        /\ UNCHANGED <<lock_owner, queue_head, queue_tail, queue, cursor, seen>>
    BY DEF Enter
  <1>2. Entries' BY <1>1, QuietEntries, JoinedPlaces DEF Queued
  <1>3. pc \in [Managers -> PC] BY DEF RingInv, Undelayed, Calm, Typed, TypeOK
  <1>4. \A n \in Managers : pc'[n] = IF n = m THEN "turn" ELSE pc[n] BY <1>1, <1>3
  <1>5. ~Serving
    BY <1>1, HolderAlone, JoinedPlaces DEF Serving
  <1>6. Serving' BY <1>4, JoinedPlaces DEF Serving
  <1>7. HeadMoved' <=> HeadMoved BY <1>1, <1>4 DEF HeadMoved
  <1>8. Line' = Line BY <1>1, <1>7 DEF Line, LinePosition
  <1>9. Serving' = TRUE BY <1>6, Zenon DEF Serving
  <1>10. Ring!Begin BY <1>5, <1>8, <1>9, Zenon DEF Ring!Begin
  <1> QED BY <1>2, <1>10, Zenon DEF Simulated, Ring!Next

(* The end of the turn.                                                     *)
LEMMA EndTurnStep == ASSUME RingInv, NEW m \in Managers, EndTurn(m) PROVE Entries' /\ Simulated
  <1>1. /\ pc[m] = "turn" /\ pc' = [pc EXCEPT ![m] = "rejoin"]
        /\ UNCHANGED <<lock_owner, queue_head, queue_tail, queue, cursor, seen>>
    BY DEF EndTurn, Goto, registry, locals, ghosts
  <1>2. Entries' BY <1>1, QuietEntries, JoinedPlaces DEF Queued
  <1>3. Simulated BY <1>1, QuietLine, JoinedPlaces
  <1> QED BY <1>2, <1>3

(* Nobody but the holder is in pass_baton.                                  *)
LEMMA OnlyPassing ==
  ASSUME RingInv, NEW m \in Managers, pc[m] \in Holding, NEW q, pc' = [pc EXCEPT ![m] = q]
  PROVE  /\ pc'[m] = q
         /\ \A n \in Managers \ {m} : /\ pc'[n] = pc[n]
                                      /\ pc[n] \notin Queued \cup {"hand"}
                                      /\ pc[n] \notin Holding
         /\ q \in Joined => AllIn'
  <1>1. pc \in [Managers -> PC] BY DEF RingInv, Undelayed, Calm, Typed, TypeOK
  <1>2. Queued \cup {"hand"} \subseteq Holding BY JoinedPlaces DEF Queued
  <1> QED BY <1>1, <1>2, HolderAlone DEF RingInv, AllIn

(* pass_baton reserves the entry behind all others, ...                     *)
LEMMA JoinReserveStep ==
  ASSUME RingInv, Seated, NEW m \in Managers, JoinReserve(m) PROVE Entries' /\ Simulated
  <1>1. /\ pc[m] = "rejoin" /\ pc' = [pc EXCEPT ![m] = "reenq"]
        /\ UNCHANGED <<lock_owner, queue_head, queue>>
        /\ queue_tail' = Succ(queue_tail)
    BY JoinedPlaces DEF JoinReserve, Goto, RingInv, AllIn
  <1>2. cursor'[m] = queue_tail
    BY DEF JoinReserve, RingInv, Undelayed, Calm, Typed, TypeOK
  <1>3. /\ pc'[m] = "reenq" /\ AllIn'
        /\ \A n \in Managers \ {m} : pc'[n] = pc[n] /\ pc[n] \notin Queued \cup {"hand"}
    BY <1>1, OnlyPassing, JoinedPlaces
  <1>4. queue_tail = Ahead(queue_head, PodCount)
    BY <1>1, <1>3 DEF RingInv, TailInv, Queued
  <1>5. TailInv' BY <1>1, <1>3, <1>4 DEF TailInv, Queued, Ahead, Succ
  <1>6. PassInv' BY <1>1, <1>2, <1>3, <1>4 DEF PassInv, Queued, Ahead
  <1>7. Simulated BY <1>1, QuietLine, JoinedPlaces
  <1> QED BY <1>3, <1>5, <1>6, <1>7 DEF Entries

(* ... and writes its own slot into it, which no place of the line is on.   *)
LEMMA JoinStoreStep ==
  ASSUME RingInv, Seated, NEW m \in Managers, JoinStore(m) PROVE Entries' /\ Simulated
  <1> DEFINE last == Ahead(queue_head, PodCount)
  <1>1. /\ pc[m] = "reenq" /\ pc' = [pc EXCEPT ![m] = "head"]
        /\ UNCHANGED <<lock_owner, queue_head, queue_tail>>
    BY JoinedPlaces DEF JoinStore, Goto, RingInv, AllIn
  <1>2. /\ queue_head \in Slot /\ queue \in [Slot -> Index] /\ pc \in [Managers -> PC]
        /\ PodCount \in 1 .. MAX_MANAGERS
    BY PodsFit DEF RingInv, Undelayed, Calm, Typed, TypeOK
  <1>3. cursor[m] = last /\ my_idx[m] = lock_owner
    BY <1>1, HolderAlone, JoinedPlaces DEF RingInv, PassInv
  <1>4. last \in Slot BY <1>2, Shifted, MaxManagersAssumption
  <1>5. queue' = [queue EXCEPT ![last] = lock_owner] BY <1>3 DEF JoinStore
  <1>6. /\ pc'[m] = "head" /\ AllIn'
        /\ \A n \in Managers \ {m} : pc'[n] = pc[n] /\ pc[n] \notin Queued \cup {"hand"}
    BY <1>1, OnlyPassing, JoinedPlaces
  <1>7. TailInv'
    <2>1. queue_tail = Succ(last) BY <1>1 DEF RingInv, TailInv, Queued
    <2> QED BY <1>1, <1>6, <2>1 DEF TailInv, Queued, Ahead, Succ
  <1>8. PassInv'
    <2>1. queue'[last] = lock_owner BY <1>2, <1>4, <1>5
    <2> QED BY <1>1, <1>6, <2>1 DEF PassInv, Queued, Ahead
  <1>9. ~HeadMoved /\ ~HeadMoved' BY <1>1, <1>6 DEF HeadMoved
  <1>10. Line' = Line
    <2>1. \A k \in 1 .. PodCount : k # 1 =>
            /\ LinePosition(k) = Ahead(queue_head, k - 1)
            /\ LinePosition(k)' = LinePosition(k)
            /\ LinePosition(k) # last
      <3> SUFFICES ASSUME NEW k \in 1 .. PodCount, k # 1
                   PROVE  /\ LinePosition(k) = Ahead(queue_head, k - 1)
                          /\ LinePosition(k)' = LinePosition(k)
                          /\ LinePosition(k) # last
        OBVIOUS
      <3>1. LinePosition(k) = Ahead(queue_head, k - 1) /\ LinePosition(k)' = LinePosition(k)
        BY <1>1, <1>9 DEF LinePosition, Ahead
      <3>2. /\ k - 1 \in 0 .. MAX_MANAGERS /\ PodCount \in 0 .. MAX_MANAGERS
            /\ k - 1 < PodCount /\ PodCount - (k - 1) < MAX_MANAGERS
        BY <1>2, MaxManagersAssumption
      <3> QED BY <1>2, <3>1, <3>2, Apart
    <2>2. \A k \in 1 .. PodCount : k # 1 => LinePosition(k) \in Slot
      <3> SUFFICES ASSUME NEW k \in 1 .. PodCount, k # 1 PROVE LinePosition(k) \in Slot
        OBVIOUS
      <3>1. k - 1 \in 0 .. MAX_MANAGERS BY <1>2, MaxManagersAssumption
      <3> QED BY <1>2, <2>1, <3>1, Shifted
    <2>3. \A k \in 1 .. PodCount : k # 1 => queue'[LinePosition(k)'] = queue[LinePosition(k)]
      BY <1>2, <1>4, <1>5, <2>1, <2>2
    <2> QED BY <1>1, <2>3 DEF Line
  <1>11. Serving' <=> Serving BY <1>1, <1>6, JoinedPlaces DEF Serving
  <1>12. Serving' = Serving BY <1>11, Zenon DEF Serving
  <1>13. Simulated BY <1>10, <1>12, Zenon DEF Simulated, Ring!ringVars
  <1> QED BY <1>6, <1>7, <1>8, <1>13 DEF Entries

(* The scan of pass_baton ends at its first candidate, which is active.     *)
LEMMA ScanStep ==
  ASSUME RingInv, Seated, NEW m \in Managers,
         LoadHead(m) \/ ScanCandidate(m) \/ CheckCandidate(m)
  PROVE  Entries' /\ Simulated
  <1> USE DEF Goto, registry, ghosts
  <1>0. /\ pc \in [Managers -> PC] /\ cursor \in [Managers -> Index]
        /\ seen \in [Managers -> Index]
    BY DEF RingInv, Undelayed, Calm, Typed, TypeOK
  <1>1. /\ pc[m] \in {"head", "scan", "scan_chk"}
        /\ UNCHANGED <<lock_owner, queue_head, queue_tail, queue>>
    BY DEF LoadHead, ScanCandidate, CheckCandidate
  <1>2. PICK q \in {"scan", "scan_chk", "commit"} :
          /\ pc' = [pc EXCEPT ![m] = q]
          /\ cursor'[m] = Succ(queue_head)
          /\ q \in {"scan_chk", "commit"} => seen'[m] = queue[Succ(queue_head)]
    <2>1. CASE LoadHead(m) BY <1>0, <2>1 DEF LoadHead
    <2>2. CASE ScanCandidate(m) BY <1>0, <2>2 DEF ScanCandidate, RingInv, PassInv
    <2>3. CASE CheckCandidate(m)
      <3>1. pc[m] = "scan_chk" BY <2>3 DEF CheckCandidate
      <3>2. OwnerActive(seen[m])
        BY <3>1, JoinedIsActive DEF RingInv, Undelayed, Calm, CalmUnlessDelayed, CalmInv, RingNamesJoined
      <3> QED BY <2>3, <3>1, <3>2 DEF CheckCandidate, RingInv, PassInv
    <2> QED BY <2>1, <2>2, <2>3
  <1>3. /\ pc'[m] = q /\ AllIn'
        /\ \A n \in Managers \ {m} : pc'[n] = pc[n] /\ pc[n] \notin Queued \cup {"hand"}
    BY <1>1, <1>2, OnlyPassing, JoinedPlaces
  <1>4. TailInv' BY <1>1, <1>2, <1>3 DEF RingInv, TailInv, Queued, Ahead, Succ
  <1>5. PassInv' BY <1>1, <1>2, <1>3 DEF RingInv, PassInv, Queued, Ahead, Succ
  <1>6. Simulated BY <1>1, <1>2, QuietLine, JoinedPlaces
  <1> QED BY <1>3, <1>4, <1>5, <1>6 DEF Entries

(* Storing queue_head shifts the ring under the line, not the line.         *)
LEMMA CommitStep ==
  ASSUME RingInv, Seated, NEW m \in Managers, CommitHead(m) PROVE Entries' /\ Simulated
  <1> DEFINE h == queue_head
  <1>1. /\ pc[m] = "commit" /\ pc' = [pc EXCEPT ![m] = "hand"]
        /\ UNCHANGED <<lock_owner, queue_tail, queue, seen>> /\ queue_head' = cursor[m]
    BY DEF CommitHead, Goto
  <1>2. h \in Slot /\ PodCount \in 1 .. MAX_MANAGERS
    BY PodsFit DEF RingInv, Undelayed, Calm, Typed, TypeOK
  <1>3. /\ queue_head' = Succ(h) /\ seen[m] = queue[Succ(h)]
        /\ queue[Ahead(h, PodCount)] = lock_owner
    BY <1>1 DEF RingInv, PassInv, Queued
  <1>4. /\ pc'[m] = "hand" /\ AllIn'
        /\ \A n \in Managers \ {m} : pc'[n] = pc[n] /\ pc[n] \notin Queued \cup {"hand"}
    BY <1>1, OnlyPassing, JoinedPlaces
  <1>5. TailInv'
    <2>1. queue_tail = Succ(Ahead(h, PodCount)) BY <1>1 DEF RingInv, TailInv, Queued
    <2>2. Ahead(Succ(h), PodCount) = Succ(Ahead(h, PodCount))
      BY <1>2, Shifted, MaxManagersAssumption
    <2>3. \A n \in Managers : pc'[n] \notin Queued BY <1>4 DEF Queued
    <2> QED BY <1>1, <1>3, <2>1, <2>2, <2>3 DEF TailInv, Ahead
  <1>6. PassInv'
    <2>1. /\ PodCount - 1 \in 0 .. MAX_MANAGERS /\ PodCount - 1 < MAX_MANAGERS
          /\ PodCount - 1 + 1 = PodCount
      BY <1>2, MaxManagersAssumption
    <2>2. Ahead(Succ(h), PodCount - 1) = Ahead(h, PodCount) BY <1>2, <2>1, Shifted
    <2> QED BY <1>1, <1>3, <1>4, <2>2 DEF PassInv, Queued, Ahead
  <1>7. ~HeadMoved /\ HeadMoved' BY <1>1, <1>4 DEF HeadMoved
  <1>8. Line' = Line
    <2>1. ASSUME NEW k \in 1 .. PodCount, k # 1 PROVE LinePosition(k)' = LinePosition(k)
      <3>1. /\ k - 2 \in 0 .. MAX_MANAGERS /\ k - 2 < MAX_MANAGERS /\ k - 2 + 1 = k - 1
        BY <1>2, <2>1, MaxManagersAssumption
      <3>2. Ahead(Succ(h), k - 2) = Ahead(h, k - 1) BY <1>2, <3>1, Shifted
      <3> QED BY <1>3, <1>7, <3>2 DEF LinePosition, Ahead
    <2> QED BY <1>1, <2>1 DEF Line
  <1>9. Serving' <=> Serving BY <1>1, <1>4, JoinedPlaces DEF Serving
  <1>10. Serving' = Serving BY <1>9, Zenon DEF Serving
  <1>11. Simulated BY <1>8, <1>10, Zenon DEF Simulated, Ring!ringVars
  <1> QED BY <1>4, <1>5, <1>6, <1>11 DEF Entries

(* Storing lock_owner sends the first of the line to its end.               *)
LEMMA HandOffStep ==
  ASSUME RingInv, Seated, NEW m \in Managers, HandOff(m) PROVE Entries' /\ Simulated
  <1> DEFINE h == queue_head
  <1>1. /\ pc[m] = "hand" /\ pc' = [pc EXCEPT ![m] = "wait"]
        /\ UNCHANGED <<queue_head, queue_tail, queue>> /\ lock_owner' = seen[m]
    BY DEF HandOff, Goto
  <1>2. h \in Slot /\ PodCount \in 1 .. MAX_MANAGERS
    BY PodsFit DEF RingInv, Undelayed, Calm, Typed, TypeOK
  <1>3. lock_owner' = queue[h] /\ queue[Ahead(h, PodCount - 1)] = lock_owner
    BY <1>1 DEF RingInv, PassInv
  <1>4. /\ pc'[m] = "wait" /\ AllIn'
        /\ \A n \in Managers \ {m} : /\ pc'[n] = pc[n]
                                     /\ pc[n] \notin Queued \cup {"hand"}
                                     /\ pc[n] \notin Holding
    BY <1>1, OnlyPassing, JoinedPlaces
  <1>5. \A n \in Managers : pc[n] \notin Queued /\ pc'[n] \notin Queued \cup {"hand"}
    BY <1>1, <1>4 DEF Queued
  <1>6. TailInv' BY <1>1, <1>5 DEF RingInv, TailInv, Ahead, Succ
  <1>7. PassInv' BY <1>5 DEF PassInv, Queued
  <1>8. HeadMoved /\ ~HeadMoved' BY <1>1, <1>5 DEF HeadMoved
  <1>9. Line' = Ring!Rotated(Line)
    <2>1. Ahead(h, 0) = h BY <1>2, Shifted, MaxManagersAssumption
    <2>2. \A k \in 1 .. PodCount : Line[k] = IF k = 1 THEN lock_owner ELSE queue[Ahead(h, k - 2)]
      BY <1>8 DEF Line, LinePosition, Ahead
    <2>3. \A k \in 1 .. PodCount : Line'[k] = IF k = 1 THEN queue[h] ELSE queue[Ahead(h, k - 1)]
      BY <1>1, <1>3, <1>8 DEF Line, LinePosition, Ahead
    <2>4. ASSUME NEW k \in 1 .. PodCount
          PROVE  Line'[k] = IF k = PodCount THEN Line[1] ELSE Line[k + 1]
      <3>1. Line'[k] = queue[Ahead(h, k - 1)] BY <2>1, <2>3
      <3>2. CASE k = PodCount BY <1>2, <1>3, <2>2, <3>1, <3>2
      <3>3. CASE k # PodCount
        <4>1. k + 1 \in 1 .. PodCount /\ k + 1 # 1 /\ k + 1 - 2 = k - 1 BY <1>2, <3>3
        <4> QED BY <2>2, <3>1, <3>3, <4>1
      <3> QED BY <3>2, <3>3
    <2>5. Line' = [k \in 1 .. PodCount |-> Line'[k]] BY DEF Line
    <2> QED BY <2>4, <2>5 DEF Ring!Rotated
  <1>10. Serving /\ ~Serving' BY <1>1, <1>4, JoinedPlaces DEF Serving
  <1>11. Serving' = FALSE BY <1>10, Zenon DEF Serving
  <1>12. Ring!Pass BY <1>9, <1>10, <1>11, Zenon DEF Ring!Pass
  <1> QED BY <1>4, <1>6, <1>7, <1>12, Zenon DEF Entries, Simulated, Ring!Next

(* Nothing else happens when everybody has joined and nobody fails, save    *)
(* heartbeats and the passing of time.                                      *)
LEMMA RingStep ==
  ASSUME Seated, BriefWaits = TRUE, MaxFailures = 0, RingInv, [Next]_vars PROVE Entries' /\ Simulated
  <1> USE JoinedPlaces DEF Goto, registry, locals, ghosts, delays
  <1>1. CASE UNCHANGED vars BY <1>1, StillEntries DEF vars
  <1>2. CASE Tick BY <1>2, StillEntries DEF Tick
  <1>3. ASSUME NEW m \in Managers, Step(m) PROVE Entries' /\ Simulated
    <2>1. ~RegisterSlot(m) /\ ~StorePid(m)
      BY DEF RegisterSlot, TakeFreeSlot, SkipActiveSlot, RegistryFull, StorePid, RingInv, AllIn
    <2>2. ~ClaimInactive(m) /\ ~MarkStale(m) /\ ~StealStale(m)
      BY DEF ClaimInactive, MarkStale, StealStale, CasOwner, TakeTurn, RingInv, Undelayed, Calm, CalmUnlessDelayed, CalmInv,
        NoTakeover
    <2> QED
      BY <1>3, <2>1, <2>2, WaitingStep, EnterStep, EndTurnStep, JoinReserveStep, JoinStoreStep,
         ScanStep, CommitStep, HandOffStep DEF Step
  <1>4. ASSUME NEW m \in Managers, Environment(m) PROVE Entries' /\ Simulated
    <2>1. ~Start(m) BY DEF Start, RingInv, AllIn
    <2>2. ~Crash(m) /\ ~Drop(m) BY DEF Crash, Drop, RingInv, Undelayed, Calm, Typed, TypeOK
    <2>3. ~ReclaimCheck(m) /\ ~ReclaimClear(m)
      BY MaxManagersAssumption
      DEF ReclaimCheck, ReclaimClear, RingInv, Undelayed, Calm, CalmUnlessDelayed, CalmInv,
        NoEviction, NoTakeover, Slot, Nobody
    <2>4. Beat(m) BY <1>4, <2>1, <2>2, <2>3 DEF Environment
    <2> QED BY <2>4, StillEntries DEF Beat
  <1> QED BY <1>1, <1>2, <1>3, <1>4 DEF Next

(* Once every pod has joined, on a timely and prompt host, as long as none   *)
(* fails or waits for more than TAKEOVER_TIMEOUT_US: pass_baton and          *)
(* wait_for_global_turn give the turns strictly in the order of the ring:   *)
(* one member at a time, whoever finishes goes to the end of the line, and  *)
(* nobody is skipped or served twice.                                       *)
THEOREM TurnsInRingOrder ==
  ASSUME Seated, Timely = TRUE, Prompt = TRUE, BriefWaits = TRUE, MaxFailures = 0
  PROVE  SettledSpec => Ring!InOrder
  <1>1. SettledInit => RingInv /\ Ring!Init BY SettledRing, SettledLine
  <1>2. RingInv /\ [Next]_vars => RingInv'
    BY RingStep, PromptUndelayed DEF RingInv, Entries
  <1>3. RingInv /\ [Next]_vars => [Ring!Next]_(Ring!ringVars) BY RingStep DEF Simulated
  <1> QED BY <1>1, <1>2, <1>3, PTL DEF SettledSpec, Ring!InOrder
=============================================================================
