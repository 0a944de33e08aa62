-------------------------- MODULE ClientSlotsProofs --------------------------
(***************************************************************************)
(* Proofs about ClientSlots, for any number of processes and slots, any     *)
(* reuse of pids, any forks and any deaths.                                 *)
(***************************************************************************)
EXTENDS ClientSlots, TLAPS

(* The index of a scan is one of the registry that is scanned.              *)
AtPlace(p) ==
  /\ pc[p] = "w_scan" => at[p] \in WSlot \cup {MAX_WORKERS}
  /\ pc[p] \in {"w_look", "w_cas", "w_pid"} => at[p] \in WSlot
  /\ pc[p] = "q_scan" => at[p] \in QSlot \cup {MAX_PROCESSES}
  /\ pc[p] \in {"q_load", "q_look", "q_cas", "q_pid", "drop_pid", "drop_active"} => at[p] \in QSlot

AtInv == \A p \in Procs : AtPlace(p) /\ (cleaning[p].pid # 0 => cleaning[p].at \in QSlot)

(* The types, with the scans inside their registry.                         *)
Typed == TypeOK /\ AtInv

(* What a cleaner remembers.                                                *)
Cleaning == [at : 0 .. MAX_PROCESSES, pid : Pids \cup {0}, dead : BOOLEAN]

(* What the assumptions on the constants say of pids and slot numbers.      *)
LEMMA ConstantFacts ==
  /\ \A p \in Procs : PidOf[p] \in Pids /\ PidOf[p] # 0
  /\ 0 \in WSlot /\ 0 \in QSlot /\ MAX_PROCESSES \notin QSlot
  /\ \A i \in WSlot : i + 1 \in WSlot \cup {MAX_WORKERS}
  /\ \A i \in QSlot : i + 1 \in QSlot \cup {MAX_PROCESSES}
  /\ QSlot \subseteq 0 .. MAX_PROCESSES
  /\ MAX_PROCESSES \in 0 .. MAX_PROCESSES
  BY PidsAssumption, SlotsAssumption DEF Pids, WSlot, QSlot

(* A client for nobody, and a stub, are clients.                            *)
LEMMA ClientFacts ==
  /\ NoClient \in Client /\ NotCleaning \in Cleaning
  /\ \A p \in Procs : Stub(p) \in Client /\ [NoClient EXCEPT !.pid = PidOf[p]] \in Client
  BY ConstantFacts DEF NoClient, Stub, Client, NotCleaning, Cleaning

(* A slot number stored in a client under construction keeps it a client.   *)
LEMMA ClientUpdate ==
  ASSUME NEW f \in [Procs -> Client], NEW p \in Procs, NEW i \in WSlot, NEW j \in QSlot
  PROVE  /\ [f EXCEPT ![p].w = i] \in [Procs -> Client]
         /\ [f EXCEPT ![p].q = j] \in [Procs -> Client]
  <1>1. f[p] \in Client OBVIOUS
  <1>2. [f[p] EXCEPT !.w = i] \in Client /\ [f[p] EXCEPT !.q = j] \in Client BY <1>1 DEF Client
  <1> QED BY <1>2

(* The memory before the pod's first process is well typed.                 *)
LEMMA InitTyped == Init => Typed
  <1> SUFFICES ASSUME Init PROVE Typed
    OBVIOUS
  <1> USE ConstantFacts, ClientFacts, BoundsAssumption DEF Init
  <1>1. AtInv BY DEF AtInv, AtPlace, NotCleaning
  <1>2. pc \in [Procs -> Inside \cup Gone \cup {"app"}] BY DEF Gone
  <1>3. new \in [Procs -> Client] /\ limiter \in [Procs -> Client] OBVIOUS
  <1>4. /\ at \in [Procs -> WSlot \cup QSlot \cup {MAX_WORKERS, MAX_PROCESSES}]
        /\ seen \in [Procs -> Pids \cup {0}] /\ mpc \in [Procs -> MPlaces]
    BY DEF MPlaces
  <1>5. /\ occupied \in [WSlot -> BOOLEAN] /\ is_active \in [QSlot -> BOOLEAN]
        /\ locked \in [Procs -> BOOLEAN]
        /\ initialized \in BOOLEAN /\ doubled \in BOOLEAN
    BY Zenon
  <1>6. cleaning \in [Procs -> Cleaning] OBVIOUS
  <1> QED BY <1>1, <1>2, <1>3, <1>4, <1>5, <1>6 DEF Typed, TypeOK, Cleaning

-----------------------------------------------------------------------------
(* What a step of the factory touches. *)

(* The types the proofs below use.                                          *)
LEMMA Types ==
  ASSUME Typed
  PROVE  /\ pc \in [Procs -> Inside \cup Gone \cup {"app"}]
         /\ at \in [Procs -> WSlot \cup QSlot \cup {MAX_WORKERS, MAX_PROCESSES}]
         /\ seen \in [Procs -> Pids \cup {0}]
         /\ new \in [Procs -> Client] /\ limiter \in [Procs -> Client]
         /\ locked \in [Procs -> BOOLEAN]
         /\ wpid \in [WSlot -> Pids \cup {0}] /\ qpid \in [QSlot -> Pids \cup {0}]
         /\ occupied \in [WSlot -> BOOLEAN] /\ is_active \in [QSlot -> BOOLEAN]
         /\ mpc \in [Procs -> MPlaces]
         /\ cleaning \in [Procs -> Cleaning]
  BY DEF Typed, TypeOK, Cleaning

(* The parts of the factory.                                                *)
MapStep(p) == MapShmem(p) \/ MapTimeout(p)
ScanWorkers(p) == ReuseWorkerSlot(p) \/ LoadWorkerPid(p) \/ TakeWorkerSlot(p) \/ LookForWorker(p)
NameWorker(p) == ExchangeWorkerPid(p) \/ StoreWorkerPid(p)
ScanProcs(p) == ReuseProcSlot(p) \/ TakeProcSlot(p) \/ LoadProcPid(p) \/ LookForProc(p)
NameProc(p) == ExchangeProcPid(p) \/ StoreProcPid(p)
InstallStep(p) == Install(p) \/ DropPid(p) \/ DropActive(p)

(* They are all of it.                                                      *)
LEMMA ConstructParts ==
  ASSUME NEW p, Construct(p)
  PROVE  \/ MapStep(p) \/ ScanWorkers(p) \/ NameWorker(p)
         \/ ScanProcs(p) \/ NameProc(p) \/ InstallStep(p)
  BY DEF Construct, MapStep, ScanWorkers, NameWorker, ScanProcs, NameProc, InstallStep

(* The steps of a process inside the factory: its own locals, from one      *)
(* place to another.                                                        *)
Own(p) ==
  /\ pc'[p] \in Inside \cup {"app"} /\ pc[p] \in Inside \ {"blocked"}
  /\ pc' = [pc EXCEPT ![p] = pc'[p]] /\ at' = [at EXCEPT ![p] = at'[p]]
  /\ seen' = [seen EXCEPT ![p] = seen'[p]] /\ new' = [new EXCEPT ![p] = new'[p]]
  /\ limiter' = [limiter EXCEPT ![p] = limiter'[p]]
  /\ UNCHANGED <<memory, manager, cleaning, counts, locked, doubled>>

(* The steps of the factory are such.                                       *)
LEMMA ConstructOwn == ASSUME NEW p \in Procs, Typed, Construct(p) PROVE Own(p)
  <1> USE Types DEF Goto, Scan, NextSlot, Panic, HasWorker, HasSlot, locals, cached, marks, Own,
        Inside, Building, Workers, Slots
  <1>1. CASE MapStep(p) BY <1>1 DEF MapStep, MapShmem, MapTimeout
  <1>2. CASE ReuseWorkerSlot(p) BY <1>2 DEF ReuseWorkerSlot
  <1>3. CASE LoadWorkerPid(p) BY <1>3 DEF LoadWorkerPid
  <1>4. CASE TakeWorkerSlot(p) BY <1>4 DEF TakeWorkerSlot
  <1>5. CASE LookForWorker(p) BY <1>5 DEF LookForWorker
  <1>6. CASE ExchangeWorkerPid(p) BY <1>6 DEF ExchangeWorkerPid
  <1>7. CASE StoreWorkerPid(p) BY <1>7 DEF StoreWorkerPid
  <1>8. CASE ReuseProcSlot(p) BY <1>8 DEF ReuseProcSlot
  <1>9. CASE TakeProcSlot(p) BY <1>9 DEF TakeProcSlot
  <1>10. CASE LoadProcPid(p) BY <1>10 DEF LoadProcPid
  <1>11. CASE LookForProc(p) BY <1>11 DEF LookForProc
  <1>12. CASE ExchangeProcPid(p) BY <1>12 DEF ExchangeProcPid
  <1>13. CASE StoreProcPid(p) BY <1>13 DEF StoreProcPid
  <1>14. CASE InstallStep(p) BY <1>14 DEF InstallStep, Install, DropPid, DropActive
  <1> QED BY <1>1, <1>2, <1>3, <1>4, <1>5, <1>6, <1>7, <1>8, <1>9, <1>10, <1>11, <1>12, <1>13, <1>14
      DEF Construct, MapStep, InstallStep

(* Such a step keeps the types when the new values of its locals and the    *)
(* slots are well typed.                                                    *)
LEMMA OwnTyped ==
  ASSUME NEW p \in Procs, Typed, Own(p), AtPlace(p)',
         at'[p] \in WSlot \cup QSlot \cup {MAX_WORKERS, MAX_PROCESSES},
         seen'[p] \in Pids \cup {0}, new'[p] \in Client, limiter'[p] \in Client,
         wpid' \in [WSlot -> Pids \cup {0}], qpid' \in [QSlot -> Pids \cup {0}],
         occupied' \in [WSlot -> BOOLEAN], is_active' \in [QSlot -> BOOLEAN],
         dropped' \subseteq QSlot, wstolen' \subseteq WSlot, qstolen' \subseteq QSlot
  PROVE  Typed'
  <1> USE Types DEF Own
  <1>1. AtInv'
    <2>1. UNCHANGED cleaning OBVIOUS
    <2>2. \A r \in Procs : r # p => AtPlace(r)' BY DEF Typed, AtInv, AtPlace
    <2> QED BY <2>1, <2>2 DEF Typed, AtInv
  <1>2. /\ pc' \in [Procs -> Inside \cup Gone \cup {"app"}]
        /\ at' \in [Procs -> WSlot \cup QSlot \cup {MAX_WORKERS, MAX_PROCESSES}]
        /\ seen' \in [Procs -> Pids \cup {0}]
    OBVIOUS
  <1>3. new' \in [Procs -> Client] /\ limiter' \in [Procs -> Client] OBVIOUS
  <1>4. UNCHANGED <<file, initialized, supervisor_pid, sup, mpc, cleaning, deaths, supervisors,
                    locked, doubled>>
    BY DEF memory, manager, counts
  <1> QED BY <1>1, <1>2, <1>3, <1>4 DEF Typed, TypeOK

(* The factory's first steps keep the types.                                *)
LEMMA MapTyped == ASSUME NEW p \in Procs, Typed, MapStep(p) PROVE Typed'
  <1>1. Own(p) BY ConstructOwn DEF Construct, MapStep
  <1>2. /\ at'[p] \in WSlot \cup QSlot \cup {MAX_WORKERS, MAX_PROCESSES}
        /\ seen'[p] \in Pids \cup {0} /\ new'[p] \in Client /\ limiter'[p] \in Client
        /\ pc'[p] \in {"w_own", "install"}
        /\ UNCHANGED <<workers, slots, marks>>
    BY Types, ConstantFacts, ClientFacts
    DEF MapStep, MapShmem, MapTimeout, Panic, Scan, Goto, cached
  <1>3. AtPlace(p)' BY <1>2 DEF AtPlace
  <1> QED BY <1>1, <1>2, <1>3, OwnTyped, Types DEF workers, slots, marks, Typed, TypeOK

(* So does register_worker_slot, ...                                        *)
LEMMA ScanWorkersTyped == ASSUME NEW p \in Procs, Typed, ScanWorkers(p) PROVE Typed'
  <1> USE Types, ConstantFacts, ClientFacts DEF Goto, Scan, NextSlot, Panic, cached
  <1>1. Own(p) BY ConstructOwn DEF Construct, ScanWorkers
  <1>2. UNCHANGED <<wpid, slots, marks>> /\ limiter'[p] \in Client
    BY DEF ScanWorkers, ReuseWorkerSlot, LoadWorkerPid, TakeWorkerSlot, LookForWorker, workers
  <1>3. /\ at'[p] \in WSlot \cup QSlot \cup {MAX_WORKERS, MAX_PROCESSES}
        /\ seen'[p] \in Pids \cup {0} /\ AtPlace(p)'
    <2> USE DEF AtPlace
    <2>1. CASE ReuseWorkerSlot(p) BY <2>1 DEF ReuseWorkerSlot
    <2>2. CASE LoadWorkerPid(p) BY <2>2 DEF LoadWorkerPid
    <2>3. CASE TakeWorkerSlot(p) BY <2>3 DEF TakeWorkerSlot, Typed, AtInv
    <2>4. CASE LookForWorker(p) BY <2>4 DEF LookForWorker, Typed, AtInv
    <2> QED BY <2>1, <2>2, <2>3, <2>4 DEF ScanWorkers
  <1>4. new'[p] \in Client
    <2>1. \/ UNCHANGED new
          \/ new' = [new EXCEPT ![p] = Stub(p)]
          \/ \E i \in WSlot : new' = [new EXCEPT ![p].w = i]
      BY DEF ScanWorkers, ReuseWorkerSlot, LoadWorkerPid, TakeWorkerSlot, LookForWorker, HasWorker
    <2>2. ASSUME NEW i \in WSlot, new' = [new EXCEPT ![p].w = i] PROVE new'[p] \in Client
      BY <2>2 DEF Client
    <2> QED BY <2>1, <2>2
  <1>5. occupied' \in [WSlot -> BOOLEAN]
    <2>1. UNCHANGED occupied \/ occupied' = [occupied EXCEPT ![at[p]] = TRUE]
      BY DEF ScanWorkers, ReuseWorkerSlot, LoadWorkerPid, TakeWorkerSlot, LookForWorker, workers
    <2> QED BY <2>1
  <1> QED BY <1>1, <1>2, <1>3, <1>4, <1>5, OwnTyped DEF slots, marks, Typed, TypeOK

(* ...                                                                      *)
LEMMA NameWorkerTyped == ASSUME NEW p \in Procs, Typed, NameWorker(p) PROVE Typed'
  <1> USE Types, ConstantFacts DEF Goto, Scan, NextSlot, cached, HasWorker
  <1>1. Own(p) /\ at[p] \in WSlot
    BY ConstructOwn DEF Construct, NameWorker, ExchangeWorkerPid, StoreWorkerPid, Typed, AtInv, AtPlace
  <1>2. /\ UNCHANGED <<occupied, slots, dropped, qstolen>> /\ limiter'[p] \in Client
        /\ wstolen' \subseteq WSlot
    BY <1>1 DEF NameWorker, ExchangeWorkerPid, StoreWorkerPid, marks, Typed, TypeOK
  <1>3. /\ at'[p] \in WSlot \cup QSlot \cup {MAX_WORKERS, MAX_PROCESSES}
        /\ seen'[p] \in Pids \cup {0} /\ AtPlace(p)'
    BY <1>1 DEF NameWorker, ExchangeWorkerPid, StoreWorkerPid, AtPlace
  <1>4. new'[p] \in Client
    <2>1. UNCHANGED new \/ new' = [new EXCEPT ![p].w = at[p]]
      BY DEF NameWorker, ExchangeWorkerPid, StoreWorkerPid
    <2>2. [new EXCEPT ![p].w = at[p]] \in [Procs -> Client] BY <1>1, ClientUpdate, ConstantFacts, Zenon
    <2> QED BY <2>1, <2>2
  <1>5. wpid' \in [WSlot -> Pids \cup {0}] BY DEF NameWorker, ExchangeWorkerPid, StoreWorkerPid
  <1> QED BY <1>1, <1>2, <1>3, <1>4, <1>5, OwnTyped DEF slots, Typed, TypeOK

(* ... register_proc_slot ...                                               *)
LEMMA ScanProcsTyped == ASSUME NEW p \in Procs, Typed, ScanProcs(p) PROVE Typed'
  <1> USE Types, ConstantFacts, ClientFacts DEF Goto, Scan, NextSlot, Panic, cached
  <1>1. Own(p) BY ConstructOwn DEF Construct, ScanProcs
  <1>2. UNCHANGED <<qpid, workers, marks>> /\ limiter'[p] \in Client
    BY DEF ScanProcs, ReuseProcSlot, TakeProcSlot, LoadProcPid, LookForProc, slots
  <1>3. /\ at'[p] \in WSlot \cup QSlot \cup {MAX_WORKERS, MAX_PROCESSES}
        /\ seen'[p] \in Pids \cup {0} /\ AtPlace(p)'
    <2> USE DEF AtPlace
    <2>1. CASE ReuseProcSlot(p) BY <2>1 DEF ReuseProcSlot
    <2>2. CASE TakeProcSlot(p) BY <2>2 DEF TakeProcSlot, locals
    <2>3. CASE LoadProcPid(p) BY <2>3 DEF LoadProcPid, Typed, AtInv
    <2>4. CASE LookForProc(p) BY <2>4 DEF LookForProc, Typed, AtInv
    <2> QED BY <2>1, <2>2, <2>3, <2>4 DEF ScanProcs
  <1>4. new'[p] \in Client
    <2>1. \/ UNCHANGED new
          \/ new' = [new EXCEPT ![p] = Stub(p)]
          \/ \E i \in QSlot : new' = [new EXCEPT ![p].q = i]
      BY DEF ScanProcs, ReuseProcSlot, TakeProcSlot, LoadProcPid, LookForProc, HasSlot, locals
    <2>2. ASSUME NEW i \in QSlot, new' = [new EXCEPT ![p].q = i] PROVE new'[p] \in Client
      BY <2>2 DEF Client
    <2> QED BY <2>1, <2>2
  <1>5. is_active' \in [QSlot -> BOOLEAN]
    <2>1. UNCHANGED is_active \/ is_active' = [is_active EXCEPT ![at[p]] = TRUE]
      BY DEF ScanProcs, ReuseProcSlot, TakeProcSlot, LoadProcPid, LookForProc, slots
    <2> QED BY <2>1
  <1> QED BY <1>1, <1>2, <1>3, <1>4, <1>5, OwnTyped DEF workers, marks, Typed, TypeOK

(* ...                                                                      *)
LEMMA NameProcTyped == ASSUME NEW p \in Procs, Typed, NameProc(p) PROVE Typed'
  <1> USE Types, ConstantFacts DEF Goto, Scan, NextSlot, cached, HasSlot
  <1>1. Own(p) /\ at[p] \in QSlot
    BY ConstructOwn DEF Construct, NameProc, ExchangeProcPid, StoreProcPid, Typed, AtInv, AtPlace
  <1>2. /\ UNCHANGED <<is_active, workers, dropped, wstolen>> /\ limiter'[p] \in Client
        /\ qstolen' \subseteq QSlot
    BY <1>1 DEF NameProc, ExchangeProcPid, StoreProcPid, marks, Typed, TypeOK
  <1>3. /\ at'[p] \in WSlot \cup QSlot \cup {MAX_WORKERS, MAX_PROCESSES}
        /\ seen'[p] \in Pids \cup {0} /\ AtPlace(p)'
    BY <1>1 DEF NameProc, ExchangeProcPid, StoreProcPid, AtPlace
  <1>4. new'[p] \in Client
    <2>1. UNCHANGED new \/ new' = [new EXCEPT ![p].q = at[p]]
      BY DEF NameProc, ExchangeProcPid, StoreProcPid
    <2>2. [new EXCEPT ![p].q = at[p]] \in [Procs -> Client] BY <1>1, ClientUpdate, ConstantFacts, Zenon
    <2> QED BY <2>1, <2>2
  <1>5. qpid' \in [QSlot -> Pids \cup {0}] BY DEF NameProc, ExchangeProcPid, StoreProcPid
  <1> QED BY <1>1, <1>2, <1>3, <1>4, <1>5, OwnTyped DEF workers, Typed, TypeOK

(* ... and the replacement of the cached client.                            *)
LEMMA InstallTyped == ASSUME NEW p \in Procs, Typed, InstallStep(p) PROVE Typed'
  <1> USE Types, ConstantFacts, ClientFacts DEF Goto, Scan, locals, cached
  <1>1. Own(p) BY ConstructOwn DEF Construct, InstallStep
  <1>2. limiter[p].q \in QSlot BY DEF Client
  <1>3. UNCHANGED <<workers, wstolen, qstolen>> /\ new'[p] \in Client /\ limiter'[p] \in Client
    BY DEF InstallStep, Install, DropPid, DropActive, marks
  <1>4. /\ at'[p] \in WSlot \cup QSlot \cup {MAX_WORKERS, MAX_PROCESSES}
        /\ seen'[p] \in Pids \cup {0} /\ AtPlace(p)'
    <2> USE DEF AtPlace
    <2>1. CASE Install(p) BY <1>2, <2>1 DEF Install
    <2>2. CASE DropPid(p) BY <2>2 DEF DropPid, Typed, AtInv
    <2>3. CASE DropActive(p) BY <2>3 DEF DropActive
    <2> QED BY <2>1, <2>2, <2>3 DEF InstallStep
  <1>5. qpid' \in [QSlot -> Pids \cup {0}] /\ dropped' \subseteq QSlot
    BY DEF InstallStep, Install, DropPid, DropActive, slots, marks, Typed, TypeOK, AtInv, AtPlace
  <1>6. is_active' \in [QSlot -> BOOLEAN]
    <2>1. UNCHANGED is_active \/ is_active' = [is_active EXCEPT ![at[p]] = FALSE]
      BY DEF InstallStep, Install, DropPid, DropActive, slots
    <2> QED BY <2>1
  <1> QED BY <1>1, <1>3, <1>4, <1>5, <1>6, OwnTyped DEF workers, Typed, TypeOK

(* So do the processes' own steps, ...                                      *)
LEMMA ProcessTyped ==
  ASSUME NEW p \in Procs, NEW c \in Procs, Typed, Spawn(p) \/ Die(p) \/ Call(p) \/ Fork(p, c)
  PROVE  Typed'
  <1> USE Types, ConstantFacts, ClientFacts, BoundsAssumption
      DEF Typed, Goto, memory, workers, slots, locals, cached, counts, marks
  <1>0. ASSUME UNCHANGED <<at,
                           cleaning>>, \A r \in Procs : pc'[r] = pc[r] \/ pc'[r] \in {"app", "map", "blocked"}
        PROVE  AtInv'
    BY <1>0 DEF AtInv, AtPlace
  <1>1. CASE Spawn(p)
    <2>1. pc' \in [Procs -> Inside \cup Gone \cup {"app"}] /\ UNCHANGED <<at, cleaning>>
          /\ \A r \in Procs : pc'[r] = pc[r] \/ pc'[r] = "app"
      BY <1>1 DEF Spawn
    <2> QED BY <1>0, <1>1, <2>1 DEF Spawn, manager, TypeOK
  <1>2. CASE Die(p)
    <2>1. AtInv'
      BY <1>2 DEF Die, AtInv, AtPlace, NotCleaning
    <2>2. pc' \in [Procs -> Inside \cup Gone \cup {"app"}] /\ cleaning' \in [Procs -> Cleaning]
      BY <1>2 DEF Die, Gone
    <2>3. locked' \in [Procs -> BOOLEAN] /\ mpc' \in [Procs -> MPlaces]
      BY <1>2 DEF Die, MPlaces
    <2>4. deaths' \in 0 .. MaxDeaths BY <1>2 DEF Die, TypeOK
    <2>5. /\ new' \in [Procs -> Client] /\ limiter' \in [Procs -> Client]
          /\ at' \in [Procs -> WSlot \cup QSlot \cup {MAX_WORKERS, MAX_PROCESSES}]
          /\ seen' \in [Procs -> Pids \cup {0}]
          /\ supervisor_pid' \in [Procs -> Pids \cup {0}]
          /\ sup' \in [Procs -> {"none", "open", "truncate", "elect"}]
      BY <1>2 DEF Die, TypeOK
    <2> QED BY <1>2, <2>1, <2>2, <2>3, <2>4, <2>5 DEF Die, TypeOK, Cleaning
  <1>3. CASE Call(p)
    <2>1. /\ pc' \in [Procs -> Inside \cup Gone \cup {"app"}] /\ UNCHANGED <<at, cleaning>>
          /\ \A r \in Procs : pc'[r] = pc[r] \/ pc'[r] \in {"app", "map", "blocked"}
      BY <1>3 DEF Call, Inside, Building
    <2>2. /\ supervisor_pid' \in [Procs -> Pids \cup {0}]
          /\ sup' \in [Procs -> {"none", "open", "truncate", "elect"}]
          /\ supervisors' \in 0 .. MaxSupervisors
      <3>1. CASE UNCHANGED <<supervisor_pid, sup, supervisors>> BY <3>1 DEF TypeOK
      <3>2. CASE /\ supervisors < MaxSupervisors /\ supervisors' = supervisors + 1
                 /\ supervisor_pid' = [supervisor_pid EXCEPT ![p] = PidOf[p]]
                 /\ sup' = [sup EXCEPT ![p] = "open"]
        BY <3>2 DEF TypeOK
      <3> QED BY <1>3, <3>1, <3>2 DEF Call, ensure_supervisor
    <2> QED BY <1>0, <1>3, <2>1, <2>2 DEF Call, TypeOK
  <1>4. CASE Fork(p, c)
    <2>1. /\ pc' \in [Procs -> Inside \cup Gone \cup {"app"}] /\ UNCHANGED <<at, cleaning>>
          /\ \A r \in Procs : pc'[r] = pc[r] \/ pc'[r] = "app"
      BY <1>4 DEF Fork
    <2>2. locked' \in [Procs -> BOOLEAN]
      <3>1. (locked[p] \/ pc[p] # "app") \in BOOLEAN OBVIOUS
      <3> QED BY <1>4, <3>1 DEF Fork
    <2>3. limiter' \in [Procs -> Client] /\ supervisor_pid' \in [Procs -> Pids \cup {0}]
      BY <1>4 DEF Fork, TypeOK
    <2> QED BY <1>0, <1>4, <2>1, <2>2, <2>3 DEF Fork, TypeOK
  <1> QED BY <1>1, <1>2, <1>3, <1>4

(* ... the manager's side ...                                               *)
LEMMA ManageTyped == ASSUME NEW p \in Procs, Typed, Manage(p) PROVE Typed'
  <1> USE Types DEF Typed, memory, workers, slots, locals, cached, factory, manager, counts, marks
  <1>1. AtInv' BY DEF Manage, CreateShmem, Elected, PublishShmem, AtInv, AtPlace
  <1>2. CASE CreateShmem(p) BY <1>1, <1>2 DEF CreateShmem, SGoto, TypeOK
  <1>3. CASE Elected(p)
    <2>1. mpc' \in [Procs -> MPlaces] BY <1>3 DEF Elected, MGoto, MPlaces
    <2> QED BY <1>1, <1>3, <2>1 DEF Elected, TypeOK
  <1>4. CASE PublishShmem(p)
    <2>1. mpc' \in [Procs -> MPlaces] BY <1>4 DEF PublishShmem, MGoto, MPlaces
    <2>2. initialized' \in BOOLEAN /\ doubled' \in BOOLEAN
      BY <1>4, Zenon DEF PublishShmem, TypeOK
    <2> QED BY <1>1, <1>4, <2>1, <2>2 DEF PublishShmem, TypeOK
  <1> QED BY <1>2, <1>3, <1>4 DEF Manage

(* ... and the cleaners.                                                    *)
LEMMA CleanTyped == ASSUME NEW p \in Procs, Typed, Clean(p) PROVE Typed'
  <1> USE Types, ConstantFacts, ClientFacts DEF Typed, CleanUnchanged, memory, workers, slots, locals,
          cached, factory, manager, counts
  <1>1. /\ cleaning' \in [Procs -> Cleaning]
        /\ \A r \in Procs : cleaning'[r].pid # 0 => cleaning'[r].at \in QSlot
    <2> USE DEF AtInv
    <2>1. ASSUME NEW i \in QSlot, CleanSlot(p, i) PROVE <1>1!:
      BY <2>1 DEF CleanSlot, Cleaning
    <2>2. CASE LookBeforeClean(p)
      <3>1. cleaning' = [cleaning EXCEPT ![p] = NotCleaning]
            \/ cleaning' = [cleaning EXCEPT ![p].dead = TRUE]
        BY <2>2 DEF LookBeforeClean
      <3>2. CASE cleaning' = [cleaning EXCEPT ![p] = NotCleaning] BY <3>2 DEF NotCleaning
      <3>3. CASE cleaning' = [cleaning EXCEPT ![p].dead = TRUE] BY <3>3 DEF Cleaning
      <3> QED BY <3>1, <3>2, <3>3
    <2>3. CASE ClearPid(p)
      <3>1. cleaning' = [cleaning EXCEPT ![p] = NotCleaning]
            \/ cleaning' = [cleaning EXCEPT ![p].pid = 0]
        BY <2>3 DEF ClearPid
      <3>2. CASE cleaning' = [cleaning EXCEPT ![p] = NotCleaning] BY <3>2 DEF NotCleaning
      <3>3. CASE cleaning' = [cleaning EXCEPT ![p].pid = 0] BY <3>3 DEF Cleaning
      <3> QED BY <3>1, <3>2, <3>3
    <2>4. CASE ClearActive(p) BY <2>4 DEF ClearActive, NotCleaning
    <2> QED BY <2>1, <2>2, <2>3, <2>4 DEF Clean
  <1>2. UNCHANGED <<pc, at>> BY DEF Clean, CleanSlot, LookBeforeClean, ClearPid, ClearActive
  <1>3. AtInv' BY <1>1, <1>2 DEF AtInv, AtPlace
  <1>4. qpid' \in [QSlot -> Pids \cup {0}]
    BY DEF Clean, CleanSlot, LookBeforeClean, ClearPid, ClearActive
  <1>5. is_active' \in [QSlot -> BOOLEAN]
    <2>1. UNCHANGED is_active \/ is_active' = [is_active EXCEPT ![cleaning[p].at] = FALSE]
      BY DEF Clean, CleanSlot, LookBeforeClean, ClearPid, ClearActive
    <2> QED BY <2>1
  <1>6. qstolen' \subseteq QSlot
    BY DEF Clean, CleanSlot, LookBeforeClean, ClearPid, ClearActive, TypeOK, AtInv
  <1>7. UNCHANGED <<file, initialized, occupied, wpid, seen, new, limiter, locked, supervisor_pid,
                    sup, mpc, deaths, supervisors, dropped, wstolen, doubled>>
    BY DEF Clean, CleanSlot, LookBeforeClean, ClearPid, ClearActive
  <1> QED BY <1>1, <1>2, <1>3, <1>4, <1>5, <1>6, <1>7 DEF TypeOK, Cleaning

(* Every step keeps the types.                                              *)
LEMMA NextTyped == Typed /\ [Next]_vars => Typed'
  <1> SUFFICES ASSUME Typed, [Next]_vars PROVE Typed'
    OBVIOUS
  <1>1. CASE UNCHANGED vars
    BY <1>1 DEF vars, memory, workers, slots, locals, cached, factory, manager, counts, marks,
                Typed, TypeOK, AtInv, AtPlace
  <1>2. ASSUME NEW p \in Procs, Construct(p) PROVE Typed'
    BY <1>2, ConstructParts, MapTyped, ScanWorkersTyped, NameWorkerTyped, ScanProcsTyped,
       NameProcTyped, InstallTyped
  <1> QED BY <1>1, <1>2, ProcessTyped, ManageTyped, CleanTyped DEF Next

(* Slots, pids and clients keep their types; a scan that falls off the end  *)
(* of a registry panics before it uses the index.                           *)
THEOREM TypeCorrect == Spec => []TypeOK
  <1>1. Typed => TypeOK BY DEF Typed
  <1> QED BY <1>1, InitTyped, NextTyped, PTL DEF Spec

-----------------------------------------------------------------------------
(* Pids.                                                                    *)

(* Of the processes that are alive, no two have the same pid; one that has  *)
(* not started has no client.                                               *)
PidInv ==
  /\ \A p, r \in Procs : Alive(p) /\ Alive(r) /\ PidOf[p] = PidOf[r] => p = r
  /\ \A p \in Procs : pc[p] = "none" => limiter[p].pid = 0

(* Some process got this pid.                                               *)
Started(pid) == \E x \in Procs : PidOf[x] = pid /\ pc[x] # "none"

(* The pids in the slots, and the ones loaded from them, were of processes  *)
(* that started, and those that are to be exchanged of one that has died:   *)
(* if the pid is in use when it is exchanged, it has been recycled.         *)
SeenInv ==
  /\ \A i \in WSlot : wpid[i] # 0 => Started(wpid[i])
  /\ \A i \in QSlot : qpid[i] # 0 => Started(qpid[i])
  /\ \A p \in Procs :
       /\ seen[p] # 0 => Started(seen[p])
       /\ pc[p] \in {"w_cas", "q_cas"} => seen[p] # 0 /\ WasDead(seen[p])
       /\ cleaning[p].pid # 0 => Started(cleaning[p].pid)
       /\ cleaning[p].pid # 0 /\ cleaning[p].dead => WasDead(cleaning[p].pid)

(* A manager and the cleaners leave the processes and their clients alone.  *)
LEMMA ManagerFrame ==
  ASSUME NEW p \in Procs, Manage(p) \/ Clean(p)
  PROVE  UNCHANGED <<workers, factory, deaths, dropped, wstolen>>
  BY DEF Manage, CreateShmem, Elected, PublishShmem, CleanUnchanged, counts, marks,
         Clean, CleanSlot, LookBeforeClean, ClearPid, ClearActive

(* Processes start, and die, for good.                                      *)
PlaceKept(x) == (pc[x] # "none" => pc'[x] # "none") /\ (pc[x] = "dead" => pc'[x] = "dead")

(* No step brings a process back, or makes one that started not to have.    *)
LEMMA NextPlace == ASSUME Typed, [Next]_vars, NEW x \in Procs PROVE PlaceKept(x)
  <1> USE Types DEF PlaceKept, Inside, Building, Workers, Slots, Gone
  <1>1. CASE UNCHANGED vars BY <1>1 DEF vars, factory
  <1>2. ASSUME NEW p \in Procs, Spawn(p) PROVE PlaceKept(x)
    BY <1>2 DEF Spawn, Goto
  <1>3. ASSUME NEW p \in Procs, NEW c \in Procs, Fork(p, c) PROVE PlaceKept(x)
    BY <1>3 DEF Fork, Goto
  <1>4. ASSUME NEW p \in Procs, Die(p) \/ Call(p) PROVE PlaceKept(x)
    BY <1>4 DEF Die, Call, Alive
  <1>5. ASSUME NEW p \in Procs, Construct(p) PROVE PlaceKept(x)
    BY <1>5, ConstructOwn DEF Own
  <1>6. ASSUME NEW p \in Procs, Manage(p) \/ Clean(p) PROVE PlaceKept(x)
    BY <1>6, ManagerFrame DEF factory
  <1> QED BY <1>1, <1>2, <1>3, <1>4, <1>5, <1>6 DEF Next

(* A new process gets a pid that no living one has.                         *)
LEMMA NextPid == Typed /\ PidInv /\ [Next]_vars => PidInv'
  <1> SUFFICES ASSUME Typed, PidInv, [Next]_vars PROVE PidInv'
    OBVIOUS
  <1> USE Types
  <1>1. CASE UNCHANGED vars BY <1>1 DEF vars, factory, cached, PidInv, Alive
  <1>2. ASSUME NEW p \in Procs, Spawn(p) PROVE PidInv'
    BY <1>2 DEF Spawn, Goto, PidInv, Alive, proc_alive, Gone, cached
  <1>3. ASSUME NEW p \in Procs, NEW c \in Procs, Fork(p, c) PROVE PidInv'
    BY <1>3 DEF Fork, Goto, PidInv, Alive, proc_alive, Gone
  <1>4. ASSUME NEW p \in Procs, Die(p) \/ Call(p) \/ Construct(p) PROVE PidInv'
    <2>1. /\ \A r \in Procs : r # p => pc'[r] = pc[r] /\ limiter'[r] = limiter[r]
          /\ Alive(p) /\ pc'[p] # "none"
      <3> USE DEF Alive, Gone, Inside, Building, Workers, Slots
      <3>1. CASE Die(p) BY <3>1 DEF Die
      <3>2. CASE Call(p) BY <3>2 DEF Call, cached
      <3>3. CASE Construct(p) BY <3>3, ConstructOwn DEF Own
      <3> QED BY <1>4, <3>1, <3>2, <3>3
    <2> QED BY <2>1 DEF PidInv, Alive
  <1>5. ASSUME NEW p \in Procs, Manage(p) \/ Clean(p) PROVE PidInv'
    BY <1>5, ManagerFrame DEF factory, cached, PidInv, Alive
  <1> QED BY <1>1, <1>2, <1>3, <1>4, <1>5 DEF Next

(* The factory stores its own pid or 0, loads the pids of the slots, and    *)
(* exchanges those it has not found.                                        *)
LEMMA ConstructSeen ==
  ASSUME NEW p \in Procs, Typed, Construct(p)
  PROVE  /\ \A i \in WSlot : wpid'[i] \in {wpid[i], PidOf[p]}
         /\ \A i \in QSlot : qpid'[i] \in {qpid[i], PidOf[p], 0}
         /\ \/ seen'[p] \in {0, seen[p]}
            \/ \E i \in WSlot : seen'[p] = wpid[i]
            \/ \E i \in QSlot : seen'[p] = qpid[i]
         /\ pc'[p] \in {"w_cas", "q_cas"}
              => seen'[p] = seen[p] /\ seen[p] # 0 /\ ~proc_alive(seen[p])
  <1> USE Types DEF Goto, Scan, NextSlot, Panic, workers, slots, locals
  <1>1. CASE MapStep(p) BY <1>1 DEF MapStep, MapShmem, MapTimeout
  <1>2. CASE ScanWorkers(p)
    <2>1. CASE ReuseWorkerSlot(p) BY <2>1 DEF ReuseWorkerSlot
    <2>2. CASE LoadWorkerPid(p) BY <2>2 DEF LoadWorkerPid
    <2>3. CASE TakeWorkerSlot(p) BY <2>3 DEF TakeWorkerSlot
    <2>4. CASE LookForWorker(p) BY <2>4 DEF LookForWorker
    <2> QED BY <1>2, <2>1, <2>2, <2>3, <2>4 DEF ScanWorkers
  <1>3. CASE NameWorker(p) BY <1>3 DEF NameWorker, ExchangeWorkerPid, StoreWorkerPid
  <1>4. CASE ScanProcs(p)
    <2>1. CASE ReuseProcSlot(p) BY <2>1 DEF ReuseProcSlot
    <2>2. CASE TakeProcSlot(p) BY <2>2 DEF TakeProcSlot
    <2>3. CASE LoadProcPid(p) BY <2>3 DEF LoadProcPid, Typed, AtInv, AtPlace
    <2>4. CASE LookForProc(p) BY <2>4 DEF LookForProc
    <2> QED BY <1>4, <2>1, <2>2, <2>3, <2>4 DEF ScanProcs
  <1>5. CASE NameProc(p) BY <1>5 DEF NameProc, ExchangeProcPid, StoreProcPid
  <1>6. CASE InstallStep(p) BY <1>6 DEF InstallStep, Install, DropPid, DropActive
  <1> QED BY <1>1, <1>2, <1>3, <1>4, <1>5, <1>6, ConstructParts

(* So do the cleaners.                                                      *)
Cleaned(p) ==
  /\ \A i \in QSlot : qpid'[i] \in {qpid[i], 0}
  /\ \A r \in Procs : r # p => cleaning'[r] = cleaning[r]
  /\ \/ cleaning'[p].pid \in {0, cleaning[p].pid}
     \/ ~cleaning'[p].dead /\ \E i \in QSlot : cleaning'[p].pid = qpid[i]
  /\ cleaning'[p].pid # 0 /\ cleaning'[p].dead
       => /\ cleaning'[p].pid = cleaning[p].pid
          /\ cleaning[p].dead \/ ~proc_alive(cleaning[p].pid)

(* A cleaner takes a process for dead only when it looks while no process   *)
(* of that pid lives, and names nobody else in a slot.                      *)
LEMMA CleanSeen == ASSUME NEW p \in Procs, Typed, Clean(p) PROVE Cleaned(p)
  <1> USE Types DEF Cleaning, slots, Cleaned
  <1>1. ASSUME NEW i \in QSlot, CleanSlot(p, i) PROVE Cleaned(p)
    BY <1>1 DEF CleanSlot
  <1>2. CASE LookBeforeClean(p) BY <1>2 DEF LookBeforeClean, NotCleaning
  <1>3. CASE ClearPid(p) BY <1>3 DEF ClearPid, NotCleaning
  <1>4. CASE ClearActive(p) BY <1>4 DEF ClearActive, NotCleaning
  <1> QED BY <1>1, <1>2, <1>3, <1>4 DEF Clean

(* What a step stores or loads is the pid of a process that started, and    *)
(* one that is not found in /proc has died.                                 *)
LEMMA NextSeen == Typed /\ SeenInv /\ [Next]_vars => SeenInv'
  <1> SUFFICES ASSUME Typed, SeenInv, [Next]_vars PROVE SeenInv'
    OBVIOUS
  <1> USE Types, ConstantFacts
  <1> DEFINE Was(v) == \E x \in Procs : PidOf[x] = v /\ pc'[x] # "none"
             Died(v) == \E x \in Procs : PidOf[x] = v /\ pc'[x] = "dead"
  <1>1. \A v : (Started(v) => Was(v)) /\ (WasDead(v) => Died(v))
    BY NextPlace DEF PlaceKept, Started, WasDead
  <1>2. \A v : Started(v) /\ ~proc_alive(v) => WasDead(v)
    BY DEF Started, proc_alive, WasDead, Alive, Gone
  <1>3. SUFFICES /\ \A i \in WSlot : wpid'[i] # 0 => Was(wpid'[i])
                 /\ \A i \in QSlot : qpid'[i] # 0 => Was(qpid'[i])
                 /\ \A r \in Procs :
                      /\ seen'[r] # 0 => Was(seen'[r])
                      /\ pc'[r] \in {"w_cas", "q_cas"} => seen'[r] # 0 /\ Died(seen'[r])
                      /\ cleaning'[r].pid # 0 => Was(cleaning'[r].pid)
                      /\ cleaning'[r].pid # 0 /\ cleaning'[r].dead => Died(cleaning'[r].pid)
    BY DEF SeenInv, Started, WasDead
  <1> HIDE DEF Was, Died
  <1>4. ASSUME UNCHANGED <<workers, slots>>,
               \A r \in Procs : pc'[r] \in {"w_cas", "q_cas"} => pc'[r] = pc[r] /\ seen'[r] = seen[r],
               \A r \in Procs : seen'[r] \in {0, seen[r]},
               \A r \in Procs : cleaning'[r].pid = 0 \/ cleaning'[r] = cleaning[r]
        PROVE  <1>3!1
    BY <1>1, <1>4 DEF SeenInv, workers, slots
  <1>5. CASE UNCHANGED vars BY <1>4, <1>5 DEF vars, factory, locals
  <1>6. ASSUME NEW p \in Procs, NEW c \in Procs, Spawn(p) \/ Die(p) \/ Call(p) \/ Fork(p, c)
        PROVE  <1>3!1
    BY <1>4, <1>6 DEF Spawn, Die, Call, Fork, Goto, locals, NotCleaning
  <1>7. ASSUME NEW p \in Procs, Construct(p) PROVE <1>3!1
    <2>1. /\ \A r \in Procs : r # p => pc'[r] = pc[r] /\ seen'[r] = seen[r]
          /\ UNCHANGED cleaning /\ pc[p] # "none"
      BY <1>7, ConstructOwn DEF Own, Inside, Building, Workers, Slots
    <2>2. Started(PidOf[p]) BY <2>1 DEF Started
    <2> QED BY <1>1, <1>2, <1>7, <2>1, <2>2, ConstructSeen DEF SeenInv
  <1>8. ASSUME NEW p \in Procs, Manage(p) PROVE <1>3!1
    <2>1. UNCHANGED <<slots, cleaning>> BY <1>8 DEF Manage, CreateShmem, Elected, PublishShmem
    <2> QED BY <1>4, <1>8, <2>1, ManagerFrame DEF factory, locals
  <1>9. ASSUME NEW p \in Procs, Clean(p) PROVE <1>3!1
    <2>1. UNCHANGED <<wpid, pc, seen>> BY <1>9, ManagerFrame DEF factory, locals, workers
    <2>2. Cleaned(p) BY <1>9, CleanSeen
    <2> QED BY <1>1, <1>2, <2>1, <2>2 DEF SeenInv, Cleaned
  <1> QED BY <1>5, <1>6, <1>7, <1>8, <1>9 DEF Next

-----------------------------------------------------------------------------
(* The worker slots.                                                        *)

(* Places where the process has its worker slot in the client it builds.    *)
Reporting == {"q_own", "q_scan", "q_load", "q_look", "q_cas", "q_pid", "install"}

(* p reports, or is about to report, in worker slot i.                      *)
HasW(p, i) ==
  \/ pc[p] \in Reporting /\ ~new[p].stub /\ new[p].w = i
  \/ Registered(p) /\ limiter[p].w = i

(* A worker slot whose pid was not exchanged too late carries the pid of    *)
(* the process that has it; one that is taken and not yet named has one     *)
(* taker.                                                                   *)
WorkerInv ==
  /\ \A p \in Procs : \A i \in WSlot \ wstolen : HasW(p, i) => wpid[i] = PidOf[p]
  /\ \A p \in Procs : pc[p] = "w_pid" => wpid[at[p]] = 0 /\ occupied[at[p]]
  /\ \A p, r \in Procs :
       pc[p] = "w_pid" /\ pc[r] = "w_pid" /\ at[p] = at[r] => p = r
  /\ \A i \in WSlot : wpid[i] # 0 => occupied[i]

(* What a process has it keeps while others move.                           *)
LEMMA OthersKeepW ==
  ASSUME NEW p \in Procs, NEW r \in Procs, r # p, NEW i \in WSlot,
         pc'[r] = pc[r], new'[r] = new[r], limiter'[r] = limiter[r]
  PROVE  HasW(r, i)' <=> HasW(r, i)
  BY DEF HasW, Registered, Alive

(* A living process that has a worker slot is alive under the pid in it.    *)
LEMMA HasWAlive ==
  ASSUME NEW r \in Procs, NEW i \in WSlot, wpid[i] = PidOf[r], HasW(r, i)
  PROVE  proc_alive(wpid[i]) /\ wpid[i] # 0
  <1>1. Alive(r) BY DEF HasW, Registered, Alive, Reporting, Gone
  <1> QED BY <1>1, ConstantFacts DEF proc_alive

(* The factory's steps keep the worker slots: a slot changes hands only     *)
(* when nobody alive has its pid, or it is marked.                          *)
LEMMA ConstructWorker ==
  ASSUME NEW p \in Procs, Typed, SeenInv, WorkerInv, Construct(p) PROVE WorkerInv'
  <1>a. Own(p) BY ConstructOwn
  <1>b. Alive(p) BY <1>a DEF Own, Alive, Gone, Inside, Building, Workers, Slots
  <1> USE Types DEF Goto, Scan, NextSlot, Panic, HasWorker, HasSlot, workers, marks, cached
  <1>0. \A r \in Procs : r # p => /\ pc'[r] = pc[r] /\ at'[r] = at[r]
                                  /\ \A i \in WSlot : HasW(r, i)' <=> HasW(r, i)
    BY <1>a, OthersKeepW DEF Own
  <1>1. ASSUME UNCHANGED <<workers, wstolen>>, pc'[p] # "w_pid",
               \A i \in WSlot : HasW(p, i)' => HasW(p, i) \/ wpid[i] = PidOf[p]
        PROVE  WorkerInv'
    BY <1>0, <1>1 DEF WorkerInv
  <1>2. CASE MapStep(p)
    <2>1. UNCHANGED <<workers, wstolen, limiter>> /\ pc'[p] \in {"w_own", "install"}
      BY <1>2 DEF MapStep, MapShmem, MapTimeout
    <2>2. pc'[p] = "install" => new'[p].stub = TRUE BY <1>2 DEF MapStep, MapShmem, MapTimeout, Stub
    <2>3. \A i \in WSlot : HasW(p, i)' => HasW(p, i)
      BY <1>b, <2>1, <2>2 DEF HasW, Registered, Reporting
    <2> QED BY <1>1, <2>1, <2>3
  <1>3. CASE ReuseWorkerSlot(p)
    <2>1. UNCHANGED <<workers, wstolen, limiter>> BY <1>3 DEF ReuseWorkerSlot
    <2>2. \/ pc'[p] = "w_scan"
          \/ pc'[p] = "q_own" /\ wpid[new'[p].w] = PidOf[p]
      BY <1>3 DEF ReuseWorkerSlot, Client
    <2>3. \A i \in WSlot : HasW(p, i)' => HasW(p, i) \/ wpid[i] = PidOf[p]
      BY <1>b, <2>1, <2>2 DEF HasW, Registered, Reporting
    <2> QED BY <1>1, <2>1, <2>2, <2>3
  <1>4. CASE LoadWorkerPid(p) \/ LookForWorker(p)
    <2>1. /\ UNCHANGED <<workers, wstolen, limiter>>
          /\ pc'[p] \in {"w_scan", "w_look", "w_cas", "install"}
      BY <1>4 DEF LoadWorkerPid, LookForWorker
    <2>2. pc'[p] = "install" => new'[p].stub = TRUE BY <1>4 DEF LoadWorkerPid, LookForWorker, Stub
    <2>3. \A i \in WSlot : HasW(p, i)' => HasW(p, i)
      BY <1>b, <2>1, <2>2 DEF HasW, Registered, Reporting
    <2> QED BY <1>1, <2>1, <2>3
  <1>5. CASE TakeWorkerSlot(p)
    <2> DEFINE i == at[p]
    <2>0. /\ pc[p] = "w_look" /\ i \in WSlot
          /\ UNCHANGED <<wpid, wstolen, new, limiter>> /\ pc'[p] \in {"w_pid", "w_scan"}
      BY <1>5 DEF TakeWorkerSlot, Typed, AtInv, AtPlace
    <2>1. \A j \in WSlot : HasW(p, j)' => HasW(p, j)
      BY <1>b, <2>0 DEF HasW, Registered, Reporting
    <2>2. CASE pc'[p] = "w_scan" /\ UNCHANGED occupied BY <1>1, <2>0, <2>1, <2>2
    <2>3. CASE /\ ~occupied[i] /\ occupied' = [occupied EXCEPT ![i] = TRUE]
               /\ pc'[p] = "w_pid" /\ UNCHANGED at
      <3>1. wpid[i] = 0 /\ \A r \in Procs : r # p /\ pc[r] = "w_pid" => at[r] # i
        BY <2>0, <2>3 DEF WorkerInv
      <3>2. occupied'[i] /\ \A j \in WSlot : occupied[j] => occupied'[j] BY <2>0, <2>3
      <3> QED BY <1>0, <2>0, <2>1, <2>3, <3>1, <3>2 DEF WorkerInv, Typed, AtInv, AtPlace
    <2> QED BY <1>5, <2>2, <2>3 DEF TakeWorkerSlot
  <1>6. CASE ExchangeWorkerPid(p)
    <2> DEFINE i == at[p]
    <2>0. /\ pc[p] = "w_cas" /\ i \in WSlot /\ UNCHANGED <<occupied, limiter>>
          /\ seen[p] # 0 /\ WasDead(seen[p])
      BY <1>6 DEF ExchangeWorkerPid, Typed, AtInv, AtPlace, SeenInv
    <2>1. CASE wpid[i] # seen[p]
      <3>1. UNCHANGED <<workers, wstolen, new>> /\ pc'[p] = "w_scan"
        BY <1>6, <2>0, <2>1 DEF ExchangeWorkerPid
      <3>2. \A j \in WSlot : HasW(p, j)' => HasW(p, j)
        BY <1>b, <2>0, <3>1 DEF HasW, Registered, Reporting
      <3> QED BY <1>1, <3>1, <3>2
    <2>2. CASE wpid[i] = seen[p]
      <3>1. /\ wpid' = [wpid EXCEPT ![i] = PidOf[p]] /\ new'[p].w = i /\ pc'[p] = "q_own"
            /\ wstolen' = wstolen \cup {j \in {i} : Recycled(seen[p])}
        BY <1>6, <2>0, <2>2 DEF ExchangeWorkerPid, Client
      <3>2. \A r \in Procs : pc[r] = "w_pid" => at[r] # i BY <2>0, <2>2 DEF WorkerInv
      <3>3. \A r \in Procs : i \notin wstolen' => ~HasW(r, i)
        <4>1. i \notin wstolen' => ~proc_alive(wpid[i]) BY <2>0, <2>2, <3>1 DEF Recycled
        <4> QED BY <2>0, <3>1, <4>1, HasWAlive DEF WorkerInv
      <3>4. \A j \in WSlot : HasW(p, j)' => j = i \/ HasW(p, j)
        BY <1>b, <2>0, <3>1 DEF HasW, Registered, Reporting
      <3>5. occupied[i] BY <2>0, <2>2 DEF WorkerInv
      <3>6. /\ wpid'[i] = PidOf[p] /\ \A j \in WSlot : j # i => wpid'[j] = wpid[j]
            /\ wstolen \subseteq wstolen' /\ occupied'[i]
        BY <2>0, <3>1, <3>5
      <3>7. \A r \in Procs : \A j \in WSlot \ wstolen' : HasW(r, j)' => wpid'[j] = PidOf[r]
        BY <1>0, <3>3, <3>4, <3>6 DEF WorkerInv
      <3>8. \A r \in Procs : pc'[r] = "w_pid" => r # p /\ pc[r] = "w_pid" /\ at'[r] = at[r] /\ at[r] \in WSlot
        BY <1>0, <3>1 DEF Typed, AtInv, AtPlace
      <3> QED BY <2>0, <3>2, <3>6, <3>7, <3>8 DEF WorkerInv
    <2> QED BY <2>1, <2>2
  <1>7. CASE StoreWorkerPid(p)
    <2> DEFINE i == at[p]
    <2>1. /\ pc[p] = "w_pid" /\ pc'[p] = "q_own" /\ wpid' = [wpid EXCEPT ![i] = PidOf[p]]
          /\ UNCHANGED <<occupied, limiter, wstolen>> /\ new'[p].w = i
      BY <1>7 DEF StoreWorkerPid, Client
    <2>2. i \in WSlot /\ wpid[i] = 0 /\ occupied[i] BY <2>1 DEF Typed, AtInv, AtPlace, WorkerInv
    <2>3. \A r \in Procs : i \notin wstolen => ~HasW(r, i) BY <2>2, ConstantFacts DEF WorkerInv
    <2>4. \A r \in Procs : r # p /\ pc[r] = "w_pid" => at[r] # i BY <2>1 DEF WorkerInv
    <2>5. \A j \in WSlot : HasW(p, j)' => j = i \/ HasW(p, j)
      BY <1>b, <2>1 DEF HasW, Registered, Reporting
    <2> QED BY <1>0, <2>1, <2>2, <2>3, <2>4, <2>5 DEF WorkerInv, Typed, AtInv, AtPlace
  <1>8. CASE ScanProcs(p) \/ NameProc(p)
    <2>1. UNCHANGED <<workers, wstolen, limiter>> /\ pc[p] \in Reporting /\ pc'[p] \in Reporting
      BY <1>8 DEF ScanProcs, NameProc, ReuseProcSlot, TakeProcSlot, LoadProcPid, LookForProc,
           ExchangeProcPid, StoreProcPid, Reporting
    <2>2. new'[p].stub = TRUE \/ (new'[p].stub = new[p].stub /\ new'[p].w = new[p].w)
      <3>1. \/ UNCHANGED new
            \/ new' = [new EXCEPT ![p] = Stub(p)]
            \/ \E j \in QSlot : new' = [new EXCEPT ![p].q = j]
        BY <1>8 DEF ScanProcs, NameProc, ReuseProcSlot, TakeProcSlot, LoadProcPid, LookForProc,
             ExchangeProcPid, StoreProcPid, Typed, AtInv, AtPlace, locals
      <3> QED BY <3>1 DEF Stub, Client
    <2>3. \A i \in WSlot : HasW(p, i)' => HasW(p, i)
      BY <1>b, <2>1, <2>2 DEF HasW, Registered
    <2> QED BY <1>1, <2>1, <2>3 DEF Reporting
  <1>9. CASE Install(p)
    <2>1. /\ UNCHANGED <<workers,
                         wstolen>> /\ pc[p] = "install" /\ pc'[p] \in {"app", "drop_pid"}
          /\ limiter'[p] = new[p]
      BY <1>9 DEF Install
    <2>2. \A i \in WSlot : HasW(p, i)' => HasW(p, i)
      BY <2>1 DEF HasW, Registered, Reporting
    <2> QED BY <1>1, <2>1, <2>2
  <1>10. CASE DropPid(p) \/ DropActive(p)
    <2>1. UNCHANGED <<workers, wstolen, limiter>> /\ pc'[p] \in {"drop_active", "app"}
      BY <1>10 DEF DropPid, DropActive
    <2>2. \A i \in WSlot : HasW(p, i)' => HasW(p, i)
      BY <1>b, <2>1 DEF HasW, Registered, Reporting
    <2> QED BY <1>1, <2>1, <2>2
  <1> QED BY <1>2, <1>3, <1>4, <1>5, <1>6, <1>7, <1>8, <1>9, <1>10, ConstructParts
      DEF ScanWorkers, NameWorker, InstallStep

(* Every step keeps the worker slots: a forked child has nobody's slot.     *)
LEMMA NextWorker == Typed /\ PidInv /\ SeenInv /\ WorkerInv /\ [Next]_vars => WorkerInv'
  <1> SUFFICES ASSUME Typed, PidInv, SeenInv, WorkerInv, [Next]_vars PROVE WorkerInv'
    OBVIOUS
  <1> USE Types DEF workers, factory, locals, cached, marks
  <1>0. ASSUME UNCHANGED <<workers, wstolen>>,
               \A r \in Procs : pc'[r] = "w_pid" => pc[r] = "w_pid" /\ at'[r] = at[r],
               \A r \in Procs : \A i \in WSlot : HasW(r, i)' => HasW(r, i)
        PROVE  WorkerInv'
    BY <1>0 DEF WorkerInv
  <1>1. CASE UNCHANGED <<workers, factory, wstolen>>
    <2>1. \A r \in Procs : \A i \in WSlot : HasW(r, i)' => HasW(r, i)
      BY <1>1 DEF HasW, Registered, Alive
    <2> QED BY <1>0, <1>1, <2>1
  <1>2. ASSUME NEW p \in Procs, Die(p) PROVE WorkerInv'
    <2>1. \A r \in Procs : r # p => /\ pc'[r] = pc[r] /\ new'[r] = new[r]
                                    /\ limiter'[r] = limiter[r] /\ at'[r] = at[r]
      BY <1>2 DEF Die
    <2>2. pc'[p] = "dead" BY <1>2 DEF Die
    <2>3. \A r \in Procs : \A i \in WSlot : HasW(r, i)' => HasW(r, i)
      BY <2>1, <2>2 DEF HasW, Registered, Alive, Gone, Reporting
    <2>4. UNCHANGED <<workers, wstolen>> BY <1>2 DEF Die
    <2> QED BY <1>0, <2>1, <2>2, <2>3, <2>4
  <1>3. ASSUME NEW p \in Procs, Call(p) PROVE WorkerInv'
    <2>1. /\ pc[p] = "app" /\ pc'[p] \in {"app", "map", "blocked"}
          /\ UNCHANGED <<workers, wstolen, at, new, limiter>>
          /\ \A r \in Procs : r # p => pc'[r] = pc[r]
      BY <1>3 DEF Call
    <2>2. \A r \in Procs : \A i \in WSlot : HasW(r, i)' => HasW(r, i)
      BY <2>1 DEF HasW, Registered, Alive, Gone, Reporting
    <2> QED BY <1>0, <2>1, <2>2
  <1>4. ASSUME NEW p \in Procs, NEW c \in Procs, Fork(p, c) PROVE WorkerInv'
    <2>1. /\ pc'[c] = "app" /\ UNCHANGED <<workers, wstolen, at, new>>
          /\ limiter'[c].pid # PidOf[c]
          /\ \A r \in Procs : r # c => pc'[r] = pc[r] /\ limiter'[r] = limiter[r]
      BY <1>4 DEF Fork, Goto
    <2>2. \A r \in Procs : \A i \in WSlot : HasW(r, i)' => HasW(r, i)
      BY <2>1 DEF HasW, Registered, Alive, Gone, Reporting
    <2> QED BY <1>0, <2>1, <2>2
  <1>5. ASSUME NEW p \in Procs, Spawn(p) PROVE WorkerInv'
    <2>1. /\ pc[p] = "none" /\ pc'[p] = "app" /\ UNCHANGED <<workers, wstolen, at, new, limiter>>
          /\ \A r \in Procs : r # p => pc'[r] = pc[r]
      BY <1>5 DEF Spawn, Goto
    <2>2. limiter[p].pid # PidOf[p] BY <2>1, ConstantFacts DEF PidInv
    <2>3. \A r \in Procs : \A i \in WSlot : HasW(r, i)' => HasW(r, i)
      BY <2>1, <2>2 DEF HasW, Registered, Alive, Reporting
    <2> QED BY <1>0, <2>1, <2>3
  <1>6. ASSUME NEW p \in Procs, Manage(p) \/ Clean(p) PROVE WorkerInv'
    BY <1>1, <1>6, ManagerFrame
  <1>7. CASE UNCHANGED vars BY <1>1, <1>7 DEF vars
  <1> QED BY <1>2, <1>3, <1>4, <1>5, <1>6, <1>7, ConstructWorker DEF Next

(* The pids before the pod's first process.                                 *)
LEMMA InitPids == Init => Typed /\ PidInv /\ SeenInv
  <1> SUFFICES ASSUME Init PROVE PidInv /\ SeenInv
    BY InitTyped
  <1>1. \A p \in Procs : /\ ~Alive(p) /\ pc[p] = "none" /\ limiter[p].pid = 0
                         /\ cleaning[p].pid = 0 /\ seen[p] = 0
    BY DEF Init, Alive, Gone, NoClient, NotCleaning
  <1> QED BY <1>1 DEF PidInv, SeenInv, Init

(* The worker slots hold together in every reachable state.                 *)
LEMMA WorkerSlots == Spec => [](Typed /\ PidInv /\ SeenInv /\ WorkerInv)
  <1>1. Init => Typed /\ PidInv /\ SeenInv /\ WorkerInv
    <2> SUFFICES ASSUME Init PROVE WorkerInv
      BY InitPids
    <2>1. \A p \in Procs : pc[p] = "none" /\ ~Registered(p)
      BY ConstantFacts DEF Init, Registered, NoClient
    <2> QED BY <2>1 DEF WorkerInv, HasW, Reporting, Init
  <1>2. Typed /\ PidInv /\ SeenInv /\ WorkerInv /\ [Next]_vars
          => (Typed /\ PidInv /\ SeenInv /\ WorkerInv)'
    BY NextTyped, NextPid, NextSeen, NextWorker
  <1> QED BY <1>1, <1>2, PTL DEF Spec

(* No two processes of a pod report their times in the same slot, whoever   *)
(* forks or dies, for any number of processes and slots, unless the slot's  *)
(* pid was found dead and exchanged after a new process had got that pid    *)
(* and the slot.                                                            *)
THEOREM WorkersDoNotShare == Spec => []WorkerSlotsExclusive
  <1>1. Typed /\ PidInv /\ WorkerInv => WorkerSlotsExclusive
    <2> SUFFICES ASSUME Typed, PidInv, WorkerInv, NEW p \in Procs, NEW r \in Procs,
                        Registered(p), Registered(r), limiter[p].w = limiter[r].w,
                        limiter[p].w \notin wstolen
                 PROVE  p = r
      BY DEF WorkerSlotsExclusive
    <2>1. limiter[p].w \in WSlot BY Types DEF Client
    <2>2. wpid[limiter[p].w] = PidOf[p] /\ wpid[limiter[p].w] = PidOf[r]
      BY <2>1 DEF WorkerInv, HasW
    <2> QED BY <2>2 DEF PidInv, Registered
  <1> QED BY <1>1, WorkerSlots, PTL

-----------------------------------------------------------------------------
(* The process slots.                                                       *)

(* p accounts, or is about to account, for its memory in process slot i.    *)
HasQ(p, i) ==
  \/ pc[p] = "install" /\ ~new[p].stub /\ new[p].q = i
  \/ Registered(p) /\ limiter[p].q = i

(* A process took slot i and has yet to store its pid.                      *)
Naming(p, i) == pc[p] = "q_pid" /\ at[p] = i

(* A cleaner has exchanged the pid of slot i and has yet to free it.        *)
Cleared(p, i) == cleaning[p].at = i /\ cleaning[p].pid = 0

(* A process slot without a pid is in the hands of one process: the one     *)
(* that took it and has yet to name it, or the one that is cleaning it.     *)
SlotInv(i) ==
  /\ \A p \in Procs : HasQ(p, i) => qpid[i] = PidOf[p] /\ is_active[i]
  /\ \A p \in Procs : Naming(p, i) \/ Cleared(p, i) => qpid[i] = 0 /\ is_active[i]
  /\ \A p, r \in Procs : ~(Naming(p, i) /\ Cleared(r, i))
  /\ \A p, r \in Procs : Naming(p, i) /\ Naming(r, i) => p = r
  /\ \A p, r \in Procs : Cleared(p, i) /\ Cleared(r, i) => p = r
  /\ ~is_active[i] => qpid[i] = 0

(* The slots on which no forked child dropped its parent's client and no    *)
(* pid was exchanged too late.                                              *)
Sound == QSlot \ (dropped \cup qstolen)

(* Those hold together.                                                     *)
ProcInv ==
  /\ \A i \in Sound : SlotInv(i)
  /\ \A p \in Procs : pc[p] = "drop_active" => at[p] \in dropped

(* A process that has a slot is alive under the pid in it.                  *)
LEMMA HasQAlive ==
  ASSUME NEW r \in Procs, NEW i \in QSlot, SlotInv(i), HasQ(r, i)
  PROVE  proc_alive(qpid[i]) /\ qpid[i] # 0 /\ is_active[i]
  <1>1. Alive(r) BY DEF HasQ, Registered, Alive, Gone
  <1> QED BY <1>1, ConstantFacts DEF SlotInv, proc_alive

(* A slot that nobody touches, and that nobody newly has, stays as it is.   *)
LEMMA SlotKept ==
  ASSUME NEW i \in QSlot, SlotInv(i), qpid'[i] = qpid[i], is_active'[i] = is_active[i],
         \A r \in Procs : HasQ(r, i)' => HasQ(r, i) \/ (qpid[i] = PidOf[r] /\ is_active[i]),
         \A r \in Procs : Naming(r, i)' => Naming(r, i),
         \A r \in Procs : Cleared(r, i)' => Cleared(r, i)
  PROVE  SlotInv(i)'
  BY DEF SlotInv

(* The factory's steps keep the process slots.                              *)
LEMMA ConstructProc ==
  ASSUME NEW p \in Procs, Typed, SeenInv, ProcInv, Construct(p) PROVE ProcInv'
  <1>a. Own(p) BY ConstructOwn
  <1>b. Alive(p) /\ \A r \in Procs : \A i \in QSlot : Cleared(r, i)' <=> Cleared(r, i)
    BY <1>a DEF Own, Alive, Gone, Inside, Building, Workers, Slots, Cleared
  <1> USE Types DEF Goto, Scan, NextSlot, Panic, HasWorker, HasSlot, slots, marks, cached, locals
  <1>0. \A r \in Procs : r # p => /\ pc'[r] = pc[r] /\ at'[r] = at[r]
                                  /\ \A i \in QSlot : /\ HasQ(r, i)' <=> HasQ(r, i)
                                                      /\ Naming(r, i)' <=> Naming(r, i)
    BY <1>a DEF Own, HasQ, Registered, Alive, Naming
  <1>1. ASSUME UNCHANGED <<slots, dropped, qstolen>>, pc'[p] \notin {"q_pid", "drop_active"},
               \A i \in QSlot :
                 HasQ(p, i)' => HasQ(p, i) \/ (qpid[i] = PidOf[p] /\ is_active[i])
        PROVE  ProcInv'
    <2>1. \A i \in QSlot : ~Naming(p, i)' BY <1>1 DEF Naming
    <2> QED BY <1>0, <1>1, <1>b, <2>1, SlotKept DEF ProcInv, Sound
  <1>2. CASE MapStep(p)
    <2>1. UNCHANGED <<slots, dropped, qstolen, limiter>> /\ pc'[p] \in {"w_own", "install"}
      BY <1>2 DEF MapStep, MapShmem, MapTimeout
    <2>2. pc'[p] = "install" => new'[p].stub = TRUE BY <1>2 DEF MapStep, MapShmem, MapTimeout, Stub
    <2>3. \A i \in QSlot : HasQ(p, i)' => HasQ(p, i)
      BY <1>b, <2>1, <2>2 DEF HasQ, Registered
    <2> QED BY <1>1, <2>1, <2>3
  <1>3. CASE ScanWorkers(p) \/ NameWorker(p)
    <2>1. /\ UNCHANGED <<slots, dropped, qstolen, limiter>>
          /\ pc'[p] \in {"w_scan", "w_look", "w_cas", "w_pid", "q_own", "install"}
      BY <1>3 DEF ScanWorkers, NameWorker, ReuseWorkerSlot, LoadWorkerPid, TakeWorkerSlot,
           LookForWorker, ExchangeWorkerPid, StoreWorkerPid
    <2>2. pc'[p] = "install" => new'[p].stub = TRUE
      BY <1>3 DEF ScanWorkers, NameWorker, ReuseWorkerSlot, LoadWorkerPid, TakeWorkerSlot,
           LookForWorker, ExchangeWorkerPid, StoreWorkerPid, Stub
    <2>3. \A i \in QSlot : HasQ(p, i)' => HasQ(p, i)
      BY <1>b, <2>1, <2>2 DEF HasQ, Registered
    <2> QED BY <1>1, <2>1, <2>3
  <1>4. CASE ReuseProcSlot(p)
    <2>1. UNCHANGED <<slots, dropped, qstolen, limiter>> /\ pc'[p] \in {"q_scan", "install"}
      BY <1>4 DEF ReuseProcSlot
    <2>2. pc'[p] = "install" => qpid[new'[p].q] = PidOf[p] /\ is_active[new'[p].q]
      BY <1>4 DEF ReuseProcSlot, Client
    <2>3. \A i \in QSlot :
            HasQ(p, i)' => HasQ(p, i) \/ (qpid[i] = PidOf[p] /\ is_active[i])
      BY <1>b, <2>1, <2>2 DEF HasQ, Registered
    <2> QED BY <1>1, <2>1, <2>3
  <1>5. CASE TakeProcSlot(p)
    <2> DEFINE i == at[p]
    <2>0. pc[p] = "q_scan" /\ UNCHANGED <<qpid, limiter, dropped, qstolen>>
      BY <1>5 DEF TakeProcSlot
    <2>1. CASE /\ i \in QSlot /\ ~is_active[i]
               /\ is_active' = [is_active EXCEPT ![i] = TRUE]
               /\ pc'[p] = "q_pid" /\ UNCHANGED <<at, new>>
      <3>1. \A j \in QSlot : /\ HasQ(p, j)' => HasQ(p, j)
                             /\ Naming(p, j)' => j = i
        BY <1>b, <2>0, <2>1 DEF HasQ, Registered, Naming
      <3>2. ASSUME NEW j \in Sound, j # i PROVE SlotInv(j)'
        <4>1. j \in QSlot /\ SlotInv(j) BY <3>2 DEF ProcInv, Sound
        <4> QED BY <1>0, <1>b, <2>0, <2>1, <3>1, <3>2, <4>1, SlotKept
      <3>3. ASSUME NEW j \in Sound, j = i PROVE SlotInv(j)'
        <4>1. SlotInv(j) BY <3>3 DEF ProcInv
        <4>2. /\ qpid[j] = 0 /\ \A r \in Procs : ~Naming(r, j) /\ ~Cleared(r, j)
              /\ \A r \in Procs : ~HasQ(r, j)
          BY <2>1, <3>3, <4>1, HasQAlive DEF SlotInv
        <4>3. qpid'[j] = 0 /\ is_active'[j] BY <2>0, <2>1, <3>3, <4>2
        <4> QED BY <1>0, <1>b, <2>1, <3>1, <3>3, <4>2, <4>3 DEF SlotInv
      <3> QED BY <1>0, <2>0, <2>1, <3>2, <3>3 DEF ProcInv, Sound
    <2>2. CASE pc'[p] = "q_load" /\ UNCHANGED <<is_active, new>>
      <3>1. \A j \in QSlot : HasQ(p, j)' => HasQ(p, j)
        BY <1>b, <2>0, <2>2 DEF HasQ, Registered, Alive
      <3> QED BY <1>1, <2>0, <2>2, <3>1
    <2>3. CASE pc'[p] = "install" /\ new'[p].stub = TRUE /\ UNCHANGED is_active
      <3>2. \A j \in QSlot : HasQ(p, j)' => HasQ(p, j)
        BY <1>b, <2>0, <2>3 DEF HasQ, Registered
      <3> QED BY <1>1, <2>0, <2>3, <3>2
    <2>4. CASE Panic(p, "q_scan") /\ UNCHANGED is_active BY <2>3, <2>4 DEF Stub
    <2> QED BY <1>5, <2>1, <2>2, <2>4 DEF TakeProcSlot
  <1>6. CASE LoadProcPid(p) \/ LookForProc(p)
    <2>1. /\ UNCHANGED <<slots, dropped, qstolen, limiter, new>>
          /\ pc'[p] \in {"q_look", "q_scan", "q_cas"}
      BY <1>6 DEF LoadProcPid, LookForProc
    <2>2. \A i \in QSlot : HasQ(p, i)' => HasQ(p, i)
      BY <1>b, <2>1 DEF HasQ, Registered
    <2> QED BY <1>1, <2>1, <2>2
  <1>7. CASE ExchangeProcPid(p)
    <2> DEFINE i == at[p]
    <2>0. /\ pc[p] = "q_cas" /\ i \in QSlot /\ UNCHANGED <<is_active, dropped, limiter>>
          /\ seen[p] # 0 /\ WasDead(seen[p])
      BY <1>7 DEF ExchangeProcPid, Typed, AtInv, AtPlace, SeenInv
    <2>1. CASE qpid[i] # seen[p]
      <3>1. UNCHANGED <<slots, qstolen, new>> /\ pc'[p] = "q_scan"
        BY <1>7, <2>0, <2>1 DEF ExchangeProcPid
      <3>2. \A j \in QSlot : HasQ(p, j)' => HasQ(p, j)
        BY <1>b, <2>0, <3>1 DEF HasQ, Registered
      <3> QED BY <1>1, <2>0, <3>1, <3>2
    <2>2. CASE qpid[i] = seen[p]
      <3>1. /\ qpid' = [qpid EXCEPT ![i] = PidOf[p]] /\ new'[p].q = i /\ pc'[p] = "install"
            /\ qstolen' = qstolen \cup {j \in {i} : Recycled(seen[p])}
        BY <1>7, <2>0, <2>2 DEF ExchangeProcPid, Client
      <3>2. \A j \in QSlot : /\ HasQ(p, j)' => j = i \/ HasQ(p, j)
                             /\ ~Naming(p, j)'
        BY <1>b, <2>0, <3>1 DEF HasQ, Registered, Naming
      <3>3. ASSUME NEW j \in Sound, j # i PROVE SlotInv(j)'
        <4>1. j \in QSlot /\ SlotInv(j) BY <3>3 DEF ProcInv, Sound
        <4> QED BY <1>0, <1>b, <2>0, <3>1, <3>2, <3>3, <4>1, SlotKept
      <3>4. ASSUME NEW j \in Sound', j = i PROVE SlotInv(j)'
        <4>1. SlotInv(j) /\ ~proc_alive(qpid[j])
          BY <2>0, <2>2, <3>1, <3>4 DEF ProcInv, Sound, Recycled
        <4>2. /\ \A r \in Procs : ~Naming(r, j) /\ ~Cleared(r, j)
              /\ \A r \in Procs : ~HasQ(r, j)
              /\ is_active[j]
          BY <2>0, <2>2, <3>4, <4>1, HasQAlive DEF SlotInv
        <4>3. qpid'[j] = PidOf[p] /\ is_active'[j] BY <2>0, <3>1, <3>4, <4>2
        <4>4. \A r \in Procs : ~Naming(r, j)' /\ ~Cleared(r, j)' /\ (HasQ(r, j)' => r = p)
          BY <1>0, <1>b, <2>0, <3>2, <3>4, <4>2
        <4> QED BY <4>3, <4>4 DEF SlotInv
      <3>5. \A j \in Sound' : j \in Sound
        <4>1. qstolen \subseteq qstolen' BY <3>1
        <4> QED BY <2>0, <4>1 DEF Sound
      <3>6. \A r \in Procs : pc'[r] = "drop_active" => at'[r] \in dropped'
        BY <1>0, <2>0, <3>1 DEF ProcInv
      <3> QED BY <3>3, <3>4, <3>5, <3>6 DEF ProcInv
    <2> QED BY <2>1, <2>2
  <1>8. CASE StoreProcPid(p)
    <2> DEFINE i == at[p]
    <2>1. /\ pc[p] = "q_pid" /\ pc'[p] = "install" /\ qpid' = [qpid EXCEPT ![i] = PidOf[p]]
          /\ UNCHANGED <<is_active, limiter, dropped, qstolen>> /\ new'[p].q = i
      BY <1>8 DEF StoreProcPid, Client
    <2>2. i \in QSlot BY <2>1 DEF Typed, AtInv, AtPlace
    <2>3. \A j \in QSlot : /\ HasQ(p, j)' => j = i \/ HasQ(p, j)
                           /\ ~Naming(p, j)'
      BY <1>b, <2>1 DEF HasQ, Registered, Naming
    <2>4. ASSUME NEW j \in Sound, j # i PROVE SlotInv(j)'
      <3>1. j \in QSlot /\ SlotInv(j) BY <2>4 DEF ProcInv, Sound
      <3> QED BY <1>0, <1>b, <2>1, <2>3, <2>4, <3>1, SlotKept
    <2>5. ASSUME NEW j \in Sound, j = i PROVE SlotInv(j)'
      <3>1. SlotInv(j) /\ Naming(p, j) BY <2>1, <2>5 DEF ProcInv, Naming
      <3>2. /\ \A r \in Procs : (r # p => ~Naming(r, j)) /\ ~Cleared(r, j)
            /\ \A r \in Procs : ~HasQ(r, j)
            /\ is_active[j]
        BY <2>2, <2>5, <3>1, HasQAlive DEF SlotInv
      <3>3. qpid'[j] = PidOf[p] /\ is_active'[j] BY <2>1, <2>2, <2>5, <3>2
      <3> QED BY <1>0, <1>b, <2>2, <2>3, <2>5, <3>2, <3>3 DEF SlotInv
    <2> QED BY <1>0, <2>1, <2>2, <2>4, <2>5 DEF ProcInv, Sound
  <1>9. CASE Install(p)
    <2>1. /\ UNCHANGED <<slots, dropped, qstolen>> /\ pc[p] = "install"
          /\ pc'[p] \in {"app", "drop_pid"} /\ limiter'[p] = new[p]
      BY <1>9 DEF Install
    <2>2. \A i \in QSlot : HasQ(p, i)' => HasQ(p, i) BY <2>1 DEF HasQ, Registered
    <2> QED BY <1>1, <2>1, <2>2
  <1>10. CASE DropPid(p)
    <2> DEFINE i == at[p]
    <2>1. /\ pc[p] = "drop_pid" /\ pc'[p] = "drop_active" /\ qpid' = [qpid EXCEPT ![i] = 0]
          /\ UNCHANGED <<is_active, limiter, at, qstolen>> /\ dropped' = dropped \cup {i}
      BY <1>10 DEF DropPid
    <2>2. \A j \in QSlot : /\ HasQ(p, j)' => HasQ(p, j)
                           /\ ~Naming(p, j)'
      BY <1>b, <2>1 DEF HasQ, Registered, Naming
    <2>3. ASSUME NEW j \in Sound' PROVE SlotInv(j)'
      <3>1. j \in QSlot /\ SlotInv(j) /\ j # i BY <2>1, <2>3 DEF ProcInv, Sound
      <3> QED BY <1>0, <1>b, <2>1, <2>2, <3>1, SlotKept
    <2> QED BY <1>0, <2>1, <2>3 DEF ProcInv
  <1>11. CASE DropActive(p)
    <2> DEFINE i == at[p]
    <2>1. /\ pc[p] = "drop_active" /\ pc'[p] = "app"
          /\ is_active' = [is_active EXCEPT ![i] = FALSE]
          /\ UNCHANGED <<qpid, limiter, dropped, qstolen>>
      BY <1>11 DEF DropActive
    <2>2. i \in dropped BY <2>1 DEF ProcInv
    <2>3. \A j \in QSlot : /\ HasQ(p, j)' => HasQ(p, j)
                           /\ ~Naming(p, j)'
      BY <1>b, <2>1 DEF HasQ, Registered, Naming
    <2>4. ASSUME NEW j \in Sound PROVE SlotInv(j)'
      <3>1. j \in QSlot /\ SlotInv(j) /\ j # i BY <2>2, <2>4 DEF ProcInv, Sound
      <3> QED BY <1>0, <1>b, <2>1, <2>3, <3>1, SlotKept
    <2> QED BY <1>0, <2>1, <2>4 DEF ProcInv, Sound
  <1> QED BY <1>2, <1>3, <1>4, <1>5, <1>6, <1>7, <1>8, <1>9, <1>10, <1>11, ConstructParts
      DEF ScanProcs, NameProc, InstallStep

(* The cleaners keep the process slots: between the exchange of the pid and *)
(* the store that frees the slot nobody else gets in.                       *)
LEMMA CleanProc ==
  ASSUME NEW p \in Procs, Typed, SeenInv, ProcInv, Clean(p) PROVE ProcInv'
  <1> USE Types DEF factory, locals, cached, slots
  <1>0. /\ UNCHANGED <<pc, at, dropped>>
        /\ \A r \in Procs : \A j \in QSlot : /\ HasQ(r, j)' <=> HasQ(r, j)
                                             /\ Naming(r, j)' <=> Naming(r, j)
    BY ManagerFrame DEF HasQ, Registered, Alive, Naming
  <1>1. ASSUME UNCHANGED <<slots, qstolen>>,
               \A r \in Procs : \A j \in QSlot : Cleared(r, j)' => Cleared(r, j)
        PROVE  ProcInv'
    BY <1>0, <1>1, SlotKept DEF ProcInv, Sound
  <1>2. ASSUME NEW i \in QSlot, CleanSlot(p, i) PROVE ProcInv'
    <2>1. /\ UNCHANGED <<slots, qstolen>> /\ cleaning'[p].pid # 0
          /\ \A r \in Procs : r # p => cleaning'[r] = cleaning[r]
      BY <1>2 DEF CleanSlot, Cleaning
    <2> QED BY <1>1, <2>1 DEF Cleared
  <1>3. CASE LookBeforeClean(p)
    <2>1. /\ UNCHANGED <<slots,
                         qstolen>> /\ \A r \in Procs : r # p => cleaning'[r] = cleaning[r]
          /\ cleaning'[p].pid # 0 \/ cleaning'[p].at = MAX_PROCESSES
      BY <1>3 DEF LookBeforeClean, Cleaning, NotCleaning
    <2> QED BY <1>1, <2>1, ConstantFacts DEF Cleared
  <1>4. CASE ClearPid(p)
    <2> DEFINE i == cleaning[p].at
               pid == cleaning[p].pid
    <2>0. i \in QSlot /\ pid # 0 /\ WasDead(pid) /\ UNCHANGED is_active
          /\ \A r \in Procs : r # p => cleaning'[r] = cleaning[r]
      BY <1>4 DEF ClearPid, Typed, AtInv, SeenInv
    <2>1. CASE qpid[i] # pid
      <3>1. UNCHANGED <<slots, qstolen>> /\ cleaning'[p].at = MAX_PROCESSES
        BY <1>4, <2>1 DEF ClearPid, NotCleaning
      <3> QED BY <1>1, <2>0, <3>1, ConstantFacts DEF Cleared
    <2>2. CASE qpid[i] = pid
      <3>1. /\ qpid' = [qpid EXCEPT ![i] = 0] /\ cleaning'[p].at = i /\ cleaning'[p].pid = 0
            /\ qstolen' = qstolen \cup {j \in {i} : Recycled(pid)}
        BY <1>4, <2>2 DEF ClearPid, Cleaning
      <3>2. \A r \in Procs : \A j \in QSlot : Cleared(r, j)' => Cleared(r, j) \/ (r = p /\ j = i)
        BY <2>0, <3>1 DEF Cleared
      <3>3. \A j \in Sound' : j \in Sound
        <4>1. qstolen \subseteq qstolen' BY <3>1
        <4> QED BY <1>0, <4>1 DEF Sound
      <3>4. ASSUME NEW j \in Sound, j # i PROVE SlotInv(j)'
        <4>1. j \in QSlot /\ SlotInv(j) BY <3>4 DEF ProcInv, Sound
        <4> QED BY <1>0, <2>0, <3>1, <3>2, <3>4, <4>1, SlotKept
      <3>5. ASSUME NEW j \in Sound', j = i PROVE SlotInv(j)'
        <4>1. SlotInv(j) /\ ~proc_alive(qpid[j])
          BY <2>0, <2>2, <3>1, <3>3, <3>5 DEF ProcInv, Sound, Recycled
        <4>2. /\ \A r \in Procs : ~HasQ(r, j) /\ ~Naming(r, j) /\ ~Cleared(r, j)
              /\ is_active[j]
          BY <2>0, <2>2, <3>5, <4>1, HasQAlive DEF SlotInv
        <4>3. qpid'[j] = 0 /\ is_active'[j] BY <2>0, <3>1, <3>5, <4>2
        <4>4. \A r \in Procs : ~HasQ(r, j)' /\ ~Naming(r, j)' /\ (Cleared(r, j)' => r = p)
          BY <1>0, <2>0, <3>2, <3>5, <4>2
        <4> QED BY <4>3, <4>4 DEF SlotInv
      <3>6. \A r \in Procs : pc'[r] = "drop_active" => at'[r] \in dropped'
        BY <1>0 DEF ProcInv
      <3> QED BY <3>3, <3>4, <3>5, <3>6 DEF ProcInv
    <2> QED BY <2>1, <2>2
  <1>5. CASE ClearActive(p)
    <2>1. PICK k \in QSlot :
            /\ Cleared(p, k) /\ is_active' = [is_active EXCEPT ![k] = FALSE]
            /\ cleaning' = [cleaning EXCEPT ![p] = NotCleaning] /\ UNCHANGED <<qpid, qstolen>>
      BY <1>5 DEF ClearActive, Cleared
    <2>2. \A j \in QSlot : \A r \in Procs : Cleared(r, j)' => r # p /\ Cleared(r, j)
      BY <2>1, ConstantFacts DEF Cleared, NotCleaning
    <2>3. ASSUME NEW j \in Sound, j # k PROVE SlotInv(j)'
      <3>1. j \in QSlot /\ SlotInv(j) BY <2>3 DEF ProcInv, Sound
      <3> QED BY <1>0, <2>1, <2>2, <2>3, <3>1, SlotKept
    <2>4. ASSUME NEW j \in Sound, j = k PROVE SlotInv(j)'
      <3>1. SlotInv(j) BY <2>4 DEF ProcInv
      <3>2. qpid[j] = 0 /\ \A r \in Procs : ~HasQ(r, j) /\ ~Naming(r, j)
        BY <2>1, <2>4, <3>1, HasQAlive DEF SlotInv
      <3>3. \A r \in Procs : ~Cleared(r, j)' BY <2>1, <2>2, <2>4, <3>1 DEF SlotInv
      <3>4. qpid'[j] = 0 /\ is_active'[j] = FALSE BY <2>1, <2>4, <3>2
      <3>5. \A r \in Procs : ~HasQ(r, j)' /\ ~Naming(r, j)' BY <1>0, <2>1, <2>4, <3>2
      <3> QED BY <3>3, <3>4, <3>5 DEF SlotInv
    <2> QED BY <1>0, <2>1, <2>3, <2>4 DEF ProcInv, Sound
  <1> QED BY <1>2, <1>3, <1>4, <1>5 DEF Clean

(* Every step keeps the process slots.                                      *)
LEMMA NextProc == Typed /\ PidInv /\ SeenInv /\ ProcInv /\ [Next]_vars => ProcInv'
  <1> SUFFICES ASSUME Typed, PidInv, SeenInv, ProcInv, [Next]_vars PROVE ProcInv'
    OBVIOUS
  <1> USE Types DEF slots, factory, locals, cached, marks
  <1>0. ASSUME UNCHANGED <<slots, dropped, qstolen>>,
               \A r \in Procs : pc'[r] \in {"q_pid", "drop_active"}
                 => pc'[r] = pc[r] /\ at'[r] = at[r],
               \A r \in Procs : \A i \in QSlot : HasQ(r, i)' => HasQ(r, i),
               \A r \in Procs : cleaning'[r] = cleaning[r] \/ cleaning'[r].at = MAX_PROCESSES
        PROVE  ProcInv'
    <2>1. \A r \in Procs : \A i \in QSlot : /\ Naming(r, i)' => Naming(r, i)
                                            /\ Cleared(r, i)' => Cleared(r, i)
      BY <1>0, ConstantFacts DEF Naming, Cleared
    <2>2. ASSUME NEW i \in Sound PROVE SlotInv(i)'
      <3>1. i \in QSlot /\ SlotInv(i) BY <2>2 DEF ProcInv, Sound
      <3> QED BY <1>0, <2>1, <3>1, SlotKept
    <2> QED BY <1>0, <2>2 DEF ProcInv, Sound
  <1>1. CASE UNCHANGED <<slots, factory, cleaning, dropped, qstolen>>
    <2>1. \A r \in Procs : \A i \in QSlot : HasQ(r, i)' => HasQ(r, i)
      BY <1>1 DEF HasQ, Registered, Alive
    <2> QED BY <1>0, <1>1, <2>1
  <1>2. ASSUME NEW p \in Procs, Die(p) PROVE ProcInv'
    <2>1. \A r \in Procs : r # p => /\ pc'[r] = pc[r] /\ new'[r] = new[r]
                                    /\ limiter'[r] = limiter[r] /\ at'[r] = at[r]
                                    /\ cleaning'[r] = cleaning[r]
      BY <1>2 DEF Die
    <2>2. pc'[p] = "dead" /\ cleaning'[p].at = MAX_PROCESSES BY <1>2 DEF Die, NotCleaning
    <2>3. \A r \in Procs : \A i \in QSlot : HasQ(r, i)' => HasQ(r, i)
      BY <2>1, <2>2 DEF HasQ, Registered, Alive, Gone
    <2>4. UNCHANGED <<slots, dropped, qstolen>> BY <1>2 DEF Die
    <2> QED BY <1>0, <2>1, <2>2, <2>3, <2>4
  <1>3. ASSUME NEW p \in Procs, Call(p) PROVE ProcInv'
    <2>1. /\ pc[p] = "app" /\ pc'[p] \in {"app", "map", "blocked"}
          /\ UNCHANGED <<slots, at, new, limiter, cleaning, dropped, qstolen>>
          /\ \A r \in Procs : r # p => pc'[r] = pc[r]
      BY <1>3 DEF Call
    <2>2. \A r \in Procs : \A i \in QSlot : HasQ(r, i)' => HasQ(r, i)
      BY <2>1 DEF HasQ, Registered, Alive, Gone
    <2> QED BY <1>0, <2>1, <2>2
  <1>4. ASSUME NEW p \in Procs, NEW c \in Procs, Fork(p, c) PROVE ProcInv'
    <2>1. /\ pc'[c] = "app" /\ UNCHANGED <<slots, at, new, cleaning, dropped, qstolen>>
          /\ limiter'[c].pid # PidOf[c]
          /\ \A r \in Procs : r # c => pc'[r] = pc[r] /\ limiter'[r] = limiter[r]
      BY <1>4 DEF Fork, Goto
    <2>2. \A r \in Procs : \A i \in QSlot : HasQ(r, i)' => HasQ(r, i)
      BY <2>1 DEF HasQ, Registered, Alive, Gone
    <2> QED BY <1>0, <2>1, <2>2
  <1>5. ASSUME NEW p \in Procs, Spawn(p) PROVE ProcInv'
    <2>1. /\ pc[p] = "none" /\ pc'[p] = "app"
          /\ UNCHANGED <<slots, at, new, limiter, cleaning, dropped, qstolen>>
          /\ \A r \in Procs : r # p => pc'[r] = pc[r]
      BY <1>5 DEF Spawn, Goto
    <2>2. limiter[p].pid # PidOf[p] BY <2>1, ConstantFacts DEF PidInv
    <2>3. \A r \in Procs : \A i \in QSlot : HasQ(r, i)' => HasQ(r, i)
      BY <2>1, <2>2 DEF HasQ, Registered, Alive
    <2> QED BY <1>0, <2>1, <2>3
  <1>6. ASSUME NEW p \in Procs, Manage(p) PROVE ProcInv'
    BY <1>1, <1>6, ManagerFrame DEF Manage, CreateShmem, Elected, PublishShmem
  <1>7. CASE UNCHANGED vars BY <1>1, <1>7 DEF vars
  <1> QED BY <1>2, <1>3, <1>4, <1>5, <1>6, <1>7, ConstructProc, CleanProc DEF Next

(* The process slots hold together in every reachable state.                *)
LEMMA ProcSlots == Spec => [](Typed /\ PidInv /\ SeenInv /\ ProcInv)
  <1>1. Init => Typed /\ PidInv /\ SeenInv /\ ProcInv
    <2> SUFFICES ASSUME Init PROVE ProcInv
      BY InitPids
    <2>1. \A p \in Procs : /\ pc[p] = "none" /\ ~Registered(p)
                           /\ cleaning[p].at = MAX_PROCESSES
      BY ConstantFacts DEF Init, Registered, NoClient, NotCleaning
    <2>2. \A i \in QSlot : SlotInv(i)
      BY <2>1, ConstantFacts DEF Init, SlotInv, HasQ, Naming, Cleared
    <2> QED BY <2>1, <2>2 DEF ProcInv, Sound
  <1>2. Typed /\ PidInv /\ SeenInv /\ ProcInv /\ [Next]_vars
          => (Typed /\ PidInv /\ SeenInv /\ ProcInv)'
    BY NextTyped, NextPid, NextSeen, NextProc
  <1> QED BY <1>1, <1>2, PTL DEF Spec

(* A process that accounts for its memory in the shared registry is listed  *)
(* there under its pid, so recalculate_usage counts its bytes and nobody    *)
(* else takes its slot, unless a forked child dropped its parent's client   *)
(* on that slot or the slot's pid was found dead and exchanged after it had *)
(* been recycled: the other races of cleaners with registrations and deaths *)
(* do not break it.                                                         *)
THEOREM RegisteredStaysListed == Spec => []RegisteredIsListed
  <1>1. Typed /\ ProcInv => RegisteredIsListed
    <2> SUFFICES ASSUME Typed, ProcInv, NEW p \in Procs, Registered(p),
                        limiter[p].q \notin dropped \cup qstolen
                 PROVE  qpid[limiter[p].q] = PidOf[p] /\ is_active[limiter[p].q]
      BY DEF RegisteredIsListed
    <2>1. limiter[p].q \in Sound BY Types DEF Client, Sound
    <2> QED BY <2>1 DEF ProcInv, SlotInv, HasQ
  <1> QED BY <1>1, ProcSlots, PTL

(* Two living processes account for their memory in one slot only if a      *)
(* forked child dropped its parent's client on that slot, or the slot's pid *)
(* was exchanged after it had been recycled.                                *)
THEOREM ProcsDoNotShare == Spec => []ProcSlotsExclusive
  <1>1. Typed /\ PidInv /\ ProcInv => ProcSlotsExclusive
    <2> SUFFICES ASSUME Typed, PidInv, ProcInv, NEW p \in Procs, NEW r \in Procs,
                        Registered(p), Registered(r), limiter[p].q = limiter[r].q,
                        limiter[p].q \notin dropped \cup qstolen
                 PROVE  p = r
      BY DEF ProcSlotsExclusive
    <2>1. limiter[p].q \in Sound BY Types DEF Client, Sound
    <2>2. qpid[limiter[p].q] = PidOf[p] /\ qpid[limiter[p].q] = PidOf[r]
      BY <2>1 DEF ProcInv, SlotInv, HasQ
    <2> QED BY <2>2 DEF PidInv, Registered
  <1> QED BY <1>1, ProcSlots, PTL

-----------------------------------------------------------------------------
(* Pids that are not reused.                                                *)

(* In a pod that lives for less than one turn of the kernel's pids no slot  *)
(* is ever exchanged too late: its processes never report in the same slot, *)
(* whoever forks or dies.                                                   *)
THEOREM FreshPidsShareNothing ==
  ASSUME \A p, r \in Procs : PidOf[p] = PidOf[r] => p = r
  PROVE  Spec => [](\A p, r \in Procs :
                      Registered(p) /\ Registered(r) /\ p # r => limiter[p].w # limiter[r].w)
  <1> DEFINE NoneStolen == wstolen = {}
             Apart == \A p, r \in Procs :
                        Registered(p) /\ Registered(r) /\ p # r => limiter[p].w # limiter[r].w
  <1>1. Init => NoneStolen BY DEF Init
  <1>2. NoneStolen /\ [Next]_vars => NoneStolen'
    <2> SUFFICES ASSUME NoneStolen, [Next]_vars PROVE NoneStolen'
      OBVIOUS
    <2>1. \A v : ~Recycled(v) BY DEF Recycled, WasDead, proc_alive, Alive, Gone
    <2>2. ASSUME NEW p \in Procs, Construct(p) PROVE NoneStolen'
      <3>1. CASE ExchangeWorkerPid(p)
        <4>1. UNCHANGED wstolen \/ wstolen' = wstolen \cup {j \in {at[p]} : Recycled(seen[p])}
          BY <3>1 DEF ExchangeWorkerPid
        <4> QED BY <2>1, <4>1
      <3>2. CASE ~ExchangeWorkerPid(p)
        BY <2>2, <3>2 DEF Construct, MapShmem, MapTimeout, ReuseWorkerSlot, LoadWorkerPid,
           TakeWorkerSlot, LookForWorker, StoreWorkerPid, ReuseProcSlot, TakeProcSlot, LoadProcPid,
           LookForProc, ExchangeProcPid, StoreProcPid, Install, DropPid, DropActive, marks
      <3> QED BY <3>1, <3>2
    <2>3. ASSUME NEW p \in Procs, NEW c \in Procs, Spawn(p) \/ Die(p) \/ Call(p) \/ Fork(p, c)
          PROVE  NoneStolen'
      BY <2>3 DEF Spawn, Die, Call, Fork, marks
    <2>4. ASSUME NEW p \in Procs, Manage(p) \/ Clean(p) PROVE NoneStolen' BY <2>4, ManagerFrame
    <2>5. CASE UNCHANGED vars BY <2>5 DEF vars, marks
    <2> QED BY <2>2, <2>3, <2>4, <2>5 DEF Next
  <1>3. NoneStolen /\ WorkerSlotsExclusive => Apart BY DEF WorkerSlotsExclusive
  <1> HIDE DEF NoneStolen, Apart
  <1>4. Spec => []Apart BY <1>1, <1>2, <1>3, WorkersDoNotShare, PTL DEF Spec
  <1> QED BY <1>4 DEF Apart

-----------------------------------------------------------------------------
(* Publishing the memory.                                                   *)

(* Before the memory is published no client is on its way into it; a        *)
(* manager that resets it found it unpublished, and alone.                  *)
PublishInv ==
  /\ ~initialized => /\ \A i \in QSlot : ~is_active[i]
                     /\ \A p \in Procs : pc[p] \notin Building \ {"map"}
  /\ ~doubled => /\ \A p \in Procs : mpc[p] = "zero" => ~initialized
                 /\ ~initialized => \A p, r \in Procs :
                      p # r /\ mpc[p] = "zero" => mpc[r] \notin {"zero", "flag"}

(* Every step keeps it: a process maps the memory only once it is flagged.  *)
LEMMA NextPublish == Typed /\ PublishInv /\ [Next]_vars => PublishInv'
  <1> SUFFICES ASSUME Typed, PublishInv, [Next]_vars PROVE PublishInv'
    OBVIOUS
  <1> USE Types DEF memory, slots, factory, manager, marks, locals, cached
  <1>1. CASE UNCHANGED vars BY <1>1 DEF vars, PublishInv
  <1>2. ASSUME NEW p \in Procs, PublishShmem(p) PROVE PublishInv'
    <2>1. UNCHANGED <<pc, is_active>> BY <1>2 DEF PublishShmem
    <2>2. CASE UNCHANGED <<initialized, doubled>> /\ mpc'[p] # "zero"
               /\ (mpc'[p] = "flag" /\ ~initialized => mpc[p] = "zero")
               /\ \A r \in Procs : r # p => mpc'[r] = mpc[r]
      BY <2>1, <2>2 DEF PublishInv
    <2>3. CASE /\ Unpublished /\ MGoto(p, "check", "zero") /\ UNCHANGED initialized
               /\ doubled' = (doubled \/ \E r \in Procs \ {p} : mpc[r] \in {"zero", "flag"})
      <3>1. mpc'[p] = "zero" /\ \A r \in Procs : r # p => mpc'[r] = mpc[r] BY <2>3 DEF MGoto
      <3>2. ~doubled' => ~doubled /\ \A r \in Procs : r # p => mpc[r] \notin {"zero", "flag"}
        BY <2>3, Zenon
      <3>3. ~initialized' BY <2>3 DEF Unpublished
      <3> QED BY <2>1, <2>3, <3>1, <3>2, <3>3 DEF PublishInv, Unpublished
    <2>4. CASE MGoto(p, "flag", "manage") /\ initialized' = TRUE /\ UNCHANGED doubled
      <3>1. mpc[p] = "flag" /\ mpc'[p] = "manage" /\ \A r \in Procs : r # p => mpc'[r] = mpc[r]
        BY <2>4 DEF MGoto
      <3>2. ~doubled => \A r \in Procs : mpc'[r] # "zero" BY <3>1 DEF PublishInv
      <3> QED BY <2>4, <3>2 DEF PublishInv
    <2>5. \/ MGoto(p, "register", "none") \/ MGoto(p, "register", "check")
          \/ ~Unpublished /\ MGoto(p, "check", "flag")
          \/ MGoto(p, "zero", "flag")
          => /\ mpc'[p] # "zero" /\ (mpc'[p] = "flag" /\ ~initialized => mpc[p] = "zero")
             /\ \A r \in Procs : r # p => mpc'[r] = mpc[r]
      BY DEF MGoto, Unpublished
    <2> QED BY <1>2, <2>2, <2>3, <2>4, <2>5 DEF PublishShmem
  <1>3. ASSUME NEW p \in Procs, CreateShmem(p) \/ Elected(p) PROVE PublishInv'
    <2>1. UNCHANGED <<initialized, is_active, pc, doubled>>
          /\ \A r \in Procs : mpc'[r] = mpc[r] \/ mpc'[r] = "register"
      BY <1>3 DEF CreateShmem, Elected, MGoto
    <2> QED BY <2>1 DEF PublishInv
  <1>4. ASSUME NEW p \in Procs, Clean(p) PROVE PublishInv'
    <2>1. UNCHANGED <<initialized, mpc, doubled>>
      BY <1>4 DEF Clean, CleanUnchanged, CleanSlot, LookBeforeClean, ClearPid, ClearActive
    <2>2. UNCHANGED is_active \/ is_active' = [is_active EXCEPT ![cleaning[p].at] = FALSE]
      BY <1>4 DEF Clean, CleanSlot, LookBeforeClean, ClearPid, ClearActive
    <2>3. UNCHANGED pc BY <1>4, ManagerFrame
    <2>4. \A i \in QSlot : is_active'[i] => is_active[i] BY <2>2
    <2> QED BY <2>1, <2>3, <2>4 DEF PublishInv
  <1>5. ASSUME NEW p \in Procs, NEW c \in Procs, Spawn(p) \/ Fork(p, c) \/ Call(p)
        PROVE  PublishInv'
    <2>1. UNCHANGED <<initialized, mpc, is_active, doubled>> BY <1>5 DEF Spawn, Fork, Call
    <2>2. \A r \in Procs : pc'[r] = pc[r] \/ pc'[r] \in {"app", "blocked", "map"}
      BY <1>5 DEF Spawn, Fork, Call, Goto
    <2> QED BY <2>1, <2>2 DEF PublishInv, Building, Workers, Slots
  <1>6. ASSUME NEW p \in Procs, Die(p) PROVE PublishInv'
    <2>1. UNCHANGED <<initialized, is_active, doubled>>
          /\ \A r \in Procs : mpc'[r] = mpc[r] \/ mpc'[r] = "none"
      BY <1>6 DEF Die
    <2>2. \A r \in Procs : pc'[r] = pc[r] \/ pc'[r] = "dead" BY <1>6 DEF Die
    <2> QED BY <2>1, <2>2 DEF PublishInv, Building, Workers, Slots
  <1>7. ASSUME NEW p \in Procs, Construct(p) PROVE PublishInv'
    <2>1. UNCHANGED <<initialized, mpc, doubled>> /\ \A r \in Procs : r # p => pc'[r] = pc[r]
      BY <1>7, ConstructOwn DEF Own
    <2>2. CASE initialized BY <2>1, <2>2 DEF PublishInv
    <2>3. CASE ~initialized
      <3>1. pc[p] \notin Building \ {"map"} BY <2>3 DEF PublishInv
      <3>2. MapTimeout(p) \/ Install(p) \/ DropPid(p) \/ DropActive(p)
        BY <1>7, <2>3, <3>1 DEF Construct, MapShmem, ReuseWorkerSlot, LoadWorkerPid,
          TakeWorkerSlot, LookForWorker, ExchangeWorkerPid, StoreWorkerPid, ReuseProcSlot,
          TakeProcSlot, LoadProcPid, LookForProc, ExchangeProcPid, StoreProcPid, Goto, Scan,
          NextSlot, Panic, Building, Workers, Slots
      <3>3. pc'[p] \notin Building
        BY <3>2 DEF MapTimeout, Install, DropPid, DropActive, Goto, Scan, Panic, Building, Workers, Slots
      <3>4. \A i \in QSlot : is_active'[i] => is_active[i]
        BY <3>2 DEF MapTimeout, Install, DropPid, DropActive
      <3> QED BY <2>1, <3>3, <3>4 DEF PublishInv
    <2> QED BY <2>2, <2>3
  <1> QED BY <1>1, <1>2, <1>3, <1>4, <1>5, <1>6, <1>7 DEF Next, Manage

(* ContainerManager::new resets memory_used for the first time before any   *)
(* client has a slot: no allocation is accounted for and wiped, even when   *)
(* the manager dies half way and another one takes over, unless a second    *)
(* manager finds the memory unpublished while the first is between its      *)
(* check and its flag.                                                      *)
THEOREM NoAccountWiped == Spec => []NothingWiped
  <1>1. Init => Typed /\ PublishInv
    BY InitTyped DEF Init, PublishInv, Building, Workers, Slots
  <1>2. Typed /\ PublishInv /\ [Next]_vars => (Typed /\ PublishInv)'
    BY NextTyped, NextPublish
  <1>3. PublishInv => NothingWiped BY DEF PublishInv, NothingWiped
  <1> QED BY <1>1, <1>2, <1>3, PTL DEF Spec
=============================================================================
