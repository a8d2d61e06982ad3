---------------------------- MODULE ConfigSyncProof ----------------------------
(***************************************************************************)
(* Theorems about ConfigSync, for any nodes, goroutines, texts and bounds.  *)
(***************************************************************************)
EXTENDS ConfigSync, TLAPS

USE DEF process, started

-------------------------------------------------------------------------------
(* Type correctness. *)

LEMMA InitType == Init => TypeOK
  BY InitialAssumption DEF Init, TypeOK, Idle, ProcState, SyncState

LEMMA CountsType ==
  ASSUME TypeOK, Fault \/ NoFault
  PROVE  puts' \in Nat /\ gets' \in Nat /\ faults' \in Nat /\ crashes' \in Nat
  BY DEF TypeOK, Fault, NoFault, counts

LEMMA PutStartType ==
  ASSUME TypeOK, NEW p \in Procs, NEW new \in Valid, NEW tag \in Raw \cup {AnyTag},
         PutStart(p, new, tag)
  PROVE  TypeOK'
<1> USE DEF TypeOK
<1>1. PICK raw \in Raw :
        /\ ReadIgnoringError(Home[p], raw)
        /\ proc' = [proc EXCEPT ![p] = [pc |-> "put_check", new |-> new, ifMatch |-> tag,
                                        cur |-> raw]]
  BY DEF PutStart
<1>2. proc' \in [Procs -> ProcState]
  BY <1>1 DEF ProcState
<1>3. puts' \in Nat /\ faults' \in Nat /\ crashes' \in Nat
  BY <1>1 DEF PutStart, ReadIgnoringError
<1>4. QED
  BY <1>2, <1>3 DEF PutStart, storage

LEMMA GetStartType ==
  ASSUME TypeOK, NEW p \in Procs, GetStart(p)
  PROVE  TypeOK'
<1> USE DEF TypeOK
<1>1. PICK raw \in Raw :
        /\ ReadIgnoringError(Home[p], raw)
        /\ proc' = [proc EXCEPT ![p] = [pc |-> "get_row", raw |-> raw]]
  BY DEF GetStart
<1>2. proc' \in [Procs -> ProcState]
  BY <1>1 DEF ProcState
<1>3. gets' \in Nat /\ faults' \in Nat /\ crashes' \in Nat
  BY <1>1 DEF GetStart, ReadIgnoringError
<1>4. QED
  BY <1>2, <1>3 DEF GetStart, storage

(* The fields a goroutine carries between the steps of a PUT. *)
LEMMA PutFields ==
  ASSUME TypeOK, NEW p \in Procs,
         proc[p].pc \in {"put_check", "put_swap", "undo_swap"} \cup PutPCs
  PROVE  /\ proc[p].new \in Valid
         /\ proc[p].ifMatch \in Raw \cup {AnyTag}
         /\ proc[p].cur \in Raw
         /\ proc[p].pc \in {"put_swap", "undo_swap"} => proc[p].loaded \in Valid
  BY DEF TypeOK, ProcState, PutPCs

LEMMA ReplyType ==
  ASSUME TypeOK, NEW p \in Procs, NEW reply \in {"none", "ok", "conflict", "error", "read"},
         Reply(p, reply)
  PROVE  proc' \in [Procs -> ProcState]
  BY DEF TypeOK, Reply, Idle, ProcState

LEMMA GotoType ==
  ASSUME TypeOK, NEW p \in Procs, NEW pc \in PutPCs, Goto(p, pc),
         proc[p].pc \in {"put_check", "put_swap", "undo_swap"} \cup PutPCs
  PROVE  proc' \in [Procs -> ProcState]
  BY PutFields DEF TypeOK, Goto, ProcState

LEMMA CarryType ==
  ASSUME TypeOK, NEW p \in Procs, NEW pc \in {"put_swap", "undo_swap"}, NEW loaded \in Valid,
         Carry(p, pc, loaded), proc[p].pc \in PutPCs
  PROVE  proc' \in [Procs -> ProcState]
  BY PutFields DEF TypeOK, Carry, ProcState

LEMMA PutStepType ==
  ASSUME TypeOK, NEW p \in Procs, PutStep(p)
  PROVE  TypeOK'
<1>1. CASE PutCheck(p)
  <2>1. proc[p].cur \in Raw
    BY <1>1, PutFields DEF PutCheck
  <2>2. Current(Home[p], proc[p].cur) \in Raw
    BY <2>1 DEF Current, Raw
  <2>3. [proc EXCEPT ![p] = [pc |-> "put_write", new |-> proc[p].new,
                             ifMatch |-> proc[p].ifMatch,
                             cur |-> Current(Home[p], proc[p].cur)]]
          \in [Procs -> ProcState]
    BY <1>1, <2>2, PutFields DEF PutCheck, TypeOK, ProcState, PutPCs
  <2>4. proc' \in [Procs -> ProcState]
    BY <1>1, <2>3, ReplyType DEF PutCheck
  <2>5. QED
    BY <1>1, <2>4, CountsType DEF PutCheck, StoreFault, TypeOK, storage
<1>2. CASE PutWrite(p)
  <2>1. proc[p].new \in Valid
    BY <1>2, PutFields DEF PutWrite, PutPCs
  <2>2. proc' \in [Procs -> ProcState]
    BY <1>2, ReplyType, GotoType DEF PutWrite, PutPCs
  <2>3. file' \in [Nodes -> Raw] /\ db' = db
    BY <1>2, <2>1 DEF PutWrite, WriteFile, WriteFails, TypeOK, storage, Raw
  <2>4. QED
    BY <1>2, <2>2, <2>3, CountsType DEF PutWrite, WriteFails, TypeOK
<1>3. CASE PutLoad(p)
  <2>1. proc' \in [Procs -> ProcState]
    BY <1>3, CarryType, GotoType DEF PutLoad, PutPCs
  <2>2. QED
    BY <1>3, <2>1, CountsType, HomeAssumption
       DEF PutLoad, ReloadMissed, LoadFails, TypeOK, storage
<1>4. CASE PutSwap(p)
  <2>1. proc' \in [Procs -> ProcState]
    BY <1>4, GotoType, ReplyType DEF PutSwap, PutPCs
  <2>2. proc[p].loaded \in Valid
    BY <1>4, PutFields DEF PutSwap
  <2>3. QED
    BY <1>4, <2>1, <2>2, HomeAssumption DEF PutSwap, Swap, TypeOK, storage, counts
<1>5. CASE PutUpsert(p)
  <2>1. proc' \in [Procs -> ProcState]
    BY <1>5, ReplyType, GotoType DEF PutUpsert, PutPCs
  <2>2. db' \in Raw \cup {Absent} /\ file' = file
    BY <1>5, PutFields DEF PutUpsert, Upsert, UpsertFails, TypeOK, Raw, PutPCs
  <2>3. QED
    BY <1>5, <2>1, <2>2, CountsType DEF PutUpsert, TypeOK
<1>6. CASE UndoWrite(p)
  <2>1. proc' \in [Procs -> ProcState]
    BY <1>6, GotoType DEF UndoWrite, PutPCs
  <2>2. file' \in [Nodes -> Raw] /\ db' = db
    BY <1>6, PutFields DEF UndoWrite, WriteFile, TypeOK, storage, PutPCs
  <2>3. QED
    BY <1>6, <2>1, <2>2, CountsType DEF UndoWrite, TypeOK
<1>7. CASE UndoLoad(p)
  <2>1. proc' \in [Procs -> ProcState]
    BY <1>7, CarryType, ReplyType DEF UndoLoad, PutPCs
  <2>2. QED
    BY <1>7, <2>1, CountsType, HomeAssumption
       DEF UndoLoad, ReloadMissed, LoadFails, TypeOK, storage
<1>8. CASE UndoSwap(p)
  <2>1. proc' \in [Procs -> ProcState]
    BY <1>8, ReplyType DEF UndoSwap
  <2>2. proc[p].loaded \in Valid
    BY <1>8, PutFields DEF UndoSwap
  <2>3. QED
    BY <1>8, <2>1, <2>2, HomeAssumption DEF UndoSwap, Swap, TypeOK, storage, counts
<1>9. QED
  BY <1>1, <1>2, <1>3, <1>4, <1>5, <1>6, <1>7, <1>8 DEF PutStep

LEMMA GetStepType ==
  ASSUME TypeOK, NEW p \in Procs, GetStep(p)
  PROVE  TypeOK'
<1>1. CASE GetRow(p)
  <2>1. [proc EXCEPT ![p] = [pc |-> "get_seed", raw |-> proc[p].raw]] \in [Procs -> ProcState]
    BY <1>1 DEF GetRow, TypeOK, ProcState, PutPCs
  <2>2. proc' \in [Procs -> ProcState]
    BY <1>1, <2>1, ReplyType DEF GetRow
  <2>3. QED
    BY <1>1, <2>2, CountsType DEF GetRow, StoreFault, TypeOK, storage
<1>2. CASE GetSeed(p)
  <2>1. proc[p].raw \in Raw
    BY <1>2 DEF GetSeed, TypeOK, ProcState, PutPCs
  <2>2. proc' \in [Procs -> ProcState]
    BY <1>2, ReplyType DEF GetSeed
  <2>3. db' \in Raw \cup {Absent} /\ file' = file
    BY <1>2, <2>1 DEF GetSeed, Upsert, UpsertFails, TypeOK
  <2>4. QED
    BY <1>2, <2>2, <2>3, CountsType DEF GetSeed, TypeOK
<1>3. QED
  BY <1>1, <1>2 DEF GetStep

LEMMA SyncStepType ==
  ASSUME TypeOK, NEW n \in Nodes, SyncStep(n)
  PROVE  TypeOK'
<1>1. SyncEnds(n) => sync' \in [Nodes -> SyncState] /\ up' \in SUBSET Nodes
  BY DEF SyncEnds, IdleSync, TypeOK, SyncState
<1>2. ASSUME NEW s \in SyncState, SyncTo(n, s)
      PROVE  sync' \in [Nodes -> SyncState] /\ up' \in SUBSET Nodes
  BY <1>2 DEF SyncTo, TypeOK
<1>3. CASE Boot(n)
  <2>1. sync' \in [Nodes -> SyncState] /\ up' \in SUBSET Nodes
    <3>1. [pc |-> "read"] \in SyncState
      BY DEF SyncState
    <3>2. QED
      BY <1>1, <1>2, <1>3, <3>1 DEF Boot
  <2>2. QED
    BY <1>3, <2>1, CountsType DEF Boot, Swap, ReloadMissed, LoadFails, TypeOK, storage
<1>3a. CASE OpenStore(n)
  <2>1. [pc |-> "init"] \in SyncState
    BY DEF SyncState
  <2>2. QED
    BY <1>2, <1>3a, <2>1, CountsType DEF OpenStore, TypeOK, storage
<1>4. CASE SyncTick(n)
  <2>1. [pc |-> "read"] \in SyncState
    BY DEF SyncState
  <2>2. QED
    BY <1>2, <1>4, <2>1 DEF SyncTick, TypeOK, storage, counts
<1>5. CASE SyncRead(n)
  <2>1. [pc |-> "row", raw |-> file[n]] \in SyncState
    BY DEF SyncState, TypeOK
  <2>2. QED
    BY <1>1, <1>2, <1>5, <2>1, CountsType DEF SyncRead, TypeOK, storage
<1>6. CASE SyncRow(n)
  <2>1. sync[n].raw \in Raw
    BY <1>6 DEF SyncRow, TypeOK, SyncState
  <2>2. [pc |-> "seed", raw |-> sync[n].raw] \in SyncState
    BY <2>1 DEF SyncState
  <2>3. db # Absent => [pc |-> "write", raw |-> db] \in SyncState
    BY DEF TypeOK, SyncState
  <2>4. QED
    BY <1>1, <1>2, <1>6, <2>2, <2>3, CountsType DEF SyncRow, TypeOK, storage
<1>7. CASE SyncWrite(n)
  <2>1. sync[n].raw \in Raw
    BY <1>7 DEF SyncWrite, TypeOK, SyncState
  <2>2. [pc |-> "load"] \in SyncState
    BY DEF SyncState
  <2>3. file' \in [Nodes -> Raw] /\ db' = db
    BY <1>7, <2>1 DEF SyncWrite, WriteFile, TypeOK, storage
  <2>4. sync' \in [Nodes -> SyncState] /\ up' \in SUBSET Nodes
    BY <1>1, <1>2, <1>7, <2>2 DEF SyncWrite
  <2>5. QED
    BY <1>7, <2>3, <2>4, CountsType DEF SyncWrite, TypeOK
<1>8. CASE SyncLoad(n)
  <2>1. file[n] \in Valid => [pc |-> "swap", loaded |-> file[n]] \in SyncState
    BY DEF SyncState
  <2>2. sync' \in [Nodes -> SyncState] /\ up' \in SUBSET Nodes
    BY <1>1, <1>2, <1>8, <2>1 DEF SyncLoad
  <2>3. QED
    BY <1>8, <2>2, CountsType DEF SyncLoad, ReloadMissed, LoadFails, TypeOK, storage
<1>9. CASE SyncSwap(n)
  <2>1. sync[n].loaded \in Valid
    BY <1>9 DEF SyncSwap, TypeOK, SyncState
  <2>2. QED
    BY <1>1, <1>9, <2>1 DEF SyncSwap, Swap, TypeOK, storage, counts
<1>10. CASE SyncSeed(n)
  <2>1. sync[n].raw \in Raw
    BY <1>10 DEF SyncSeed, TypeOK, SyncState
  <2>2. db' \in Raw \cup {Absent} /\ file' = file
    BY <1>10, <2>1 DEF SyncSeed, Upsert, UpsertFails, TypeOK
  <2>3. QED
    BY <1>1, <1>10, <2>2, CountsType DEF SyncSeed, TypeOK
<1>11. QED
  BY <1>3, <1>4, <1>5, <1>6, <1>7, <1>8, <1>9, <1>10, <1>3a DEF SyncStep

LEMMA CrashType ==
  ASSUME TypeOK, NEW n \in Nodes, Crash(n)
  PROVE  TypeOK'
<1>1. proc' \in [Procs -> ProcState] /\ sync' \in [Nodes -> SyncState]
  BY DEF Crash, Idle, TypeOK, ProcState, SyncState
<1>2. QED
  BY <1>1 DEF Crash, TypeOK, storage

LEMMA StepType == TypeOK /\ [Next]_vars => TypeOK'
<1>1. CASE UNCHANGED vars
  BY <1>1 DEF vars, TypeOK
<1>2. QED
  BY <1>1, PutStartType, GetStartType, PutStepType, GetStepType, SyncStepType, CrashType
     DEF Next

(* Every reachable state has the declared types; among them: a runtime is only  *)
(* ever built from a text that validates, whatever the files and the row hold.  *)
THEOREM TypeCorrect == Spec => []TypeOK
  BY InitType, StepType, PTL DEF Spec

-------------------------------------------------------------------------------
(* Every step of a handler or a sync is a step of one node. *)

StepOf(n) ==
    \A m \in Nodes \ {n} :
        /\ file'[m] = file[m] /\ runtime'[m] = runtime[m] /\ missed'[m] = missed[m]
        /\ sync'[m] = sync[m]
        /\ \A p \in Procs : Home[p] = m => proc'[p] = proc[p]

ReloadPCs == {"put_load", "put_swap", "undo_write", "undo_load", "undo_swap"}

LEMMA HandlerStepOf ==
  ASSUME TypeOK, NEW p \in Procs,
         \/ \E new \in Valid, tag \in Raw \cup {AnyTag} : PutStart(p, new, tag)
         \/ GetStart(p) \/ PutStep(p) \/ GetStep(p)
  PROVE  /\ StepOf(Home[p])
         /\ sync' = sync
         /\ \A q \in Procs \ {p} : proc'[q] = proc[q]
<1> USE HomeAssumption DEF TypeOK, StepOf, storage, counts, Reply, Goto, Carry, Swap, ReloadMissed,
                           WriteFile, WriteFails, Upsert, UpsertFails
<1>1. CASE GetStart(p) \/ \E new \in Valid, tag \in Raw \cup {AnyTag} : PutStart(p, new, tag)
  BY <1>1 DEF PutStart, GetStart
<1>2. CASE PutCheck(p) \/ GetRow(p)
  BY <1>2 DEF PutCheck, GetRow
<1>3. CASE PutWrite(p)
  BY <1>3 DEF PutWrite
<1>4. CASE PutLoad(p)
  BY <1>4 DEF PutLoad
<1>5. CASE PutSwap(p)
  BY <1>5 DEF PutSwap
<1>6. CASE PutUpsert(p)
  BY <1>6 DEF PutUpsert
<1>7. CASE UndoWrite(p)
  BY <1>7 DEF UndoWrite
<1>8. CASE UndoLoad(p)
  BY <1>8 DEF UndoLoad
<1>9. CASE UndoSwap(p)
  BY <1>9 DEF UndoSwap
<1>10. CASE GetSeed(p)
  BY <1>10 DEF GetSeed
<1>11. QED
  BY <1>1, <1>2, <1>3, <1>4, <1>5, <1>6, <1>7, <1>8, <1>9, <1>10 DEF PutStep, GetStep

LEMMA SyncStepOf ==
  ASSUME TypeOK, NEW n \in Nodes, SyncStep(n) \/ Crash(n)
  PROVE  StepOf(n) /\ (SyncStep(n) => proc' = proc)
<1> USE DEF TypeOK, StepOf, storage, counts, SyncTo, SyncEnds, Swap, ReloadMissed, WriteFile,
            Upsert, UpsertFails
<1>1. CASE OpenStore(n) \/ Boot(n)
  BY <1>1 DEF OpenStore, Boot
<1>2. CASE SyncTick(n)
  BY <1>2 DEF SyncTick
<1>3. CASE SyncRead(n)
  BY <1>3 DEF SyncRead
<1>4. CASE SyncRow(n)
  BY <1>4 DEF SyncRow
<1>5. CASE SyncWrite(n)
  BY <1>5 DEF SyncWrite
<1>6. CASE SyncLoad(n)
  BY <1>6 DEF SyncLoad
<1>7. CASE SyncSwap(n)
  BY <1>7 DEF SyncSwap
<1>8. CASE SyncSeed(n)
  BY <1>8 DEF SyncSeed
<1>9. CASE Crash(n) /\ ~SyncStep(n)
  BY <1>9 DEF Crash
<1>10. QED
  BY <1>1, <1>2, <1>3, <1>4, <1>5, <1>6, <1>7, <1>8, <1>9 DEF SyncStep

-------------------------------------------------------------------------------
(* The runtime follows the file. *)

Follows(n) == runtime[n] # file[n] => Reloading(n) \/ missed[n]

LEMMA OthersFollow ==
  ASSUME RuntimeFollowsFile, NEW n \in Nodes, StepOf(n), NEW m \in Nodes \ {n}
  PROVE  Follows(m)'
  BY DEF RuntimeFollowsFile, StepOf, Follows, Reloading

LEMMA SwapFollows ==
  ASSUME TypeOK, NEW n \in Nodes, NEW loaded, Swap(n, loaded), file' = file
  PROVE  Follows(n)'
  BY DEF TypeOK, Swap, Follows

LEMMA MissedFollows ==
  ASSUME TypeOK, NEW n \in Nodes, ReloadMissed(n)
  PROVE  Follows(n)'
  BY DEF TypeOK, ReloadMissed, Follows

(* A step that changes neither the file nor the runtime nor the history, and ends  *)
(* no reload.                                                                      *)
LEMMA QuietFollows ==
  ASSUME RuntimeFollowsFile, NEW n \in Nodes,
         file' = file, runtime' = runtime, missed' = missed,
         Reloading(n) => Reloading(n)'
  PROVE  Follows(n)'
  BY DEF RuntimeFollowsFile, Follows

LEMMA HandlerFollows ==
  ASSUME TypeOK, RuntimeFollowsFile, NEW p \in Procs,
         \/ \E new \in Valid, tag \in Raw \cup {AnyTag} : PutStart(p, new, tag)
         \/ GetStart(p) \/ PutStep(p) \/ GetStep(p)
  PROVE  Follows(Home[p])'
<1> DEFINE n == Home[p]
<1>1. n \in Nodes
  BY HomeAssumption
<1>2. sync' = sync /\ \A q \in Procs \ {p} : proc'[q] = proc[q]
  BY HandlerStepOf
<1>3. proc'[p].pc \in ReloadPCs => Reloading(n)'
  BY DEF Reloading, ReloadPCs
<1>4. proc[p].pc \notin ReloadPCs => (Reloading(n) => Reloading(n)')
  BY <1>2 DEF Reloading, ReloadPCs
<1>5. CASE \/ \E new \in Valid, tag \in Raw \cup {AnyTag} : PutStart(p, new, tag)
           \/ GetStart(p) \/ PutCheck(p) \/ PutUpsert(p) \/ GetStep(p)
  <2>1. file' = file /\ runtime' = runtime /\ missed' = missed /\ proc[p].pc \notin ReloadPCs
    BY <1>5 DEF PutStart, GetStart, PutCheck, PutUpsert, GetStep, GetRow, GetSeed,
                storage, ReloadPCs, Upsert, UpsertFails
  <2>2. QED
    BY <1>1, <1>4, <2>1, QuietFollows
<1>6. CASE PutWrite(p)
  <2>1. CASE proc'[p].pc = "put_load"
    BY <1>3, <2>1 DEF Follows, ReloadPCs
  <2>2. CASE file' = file
    BY <1>1, <1>4, <1>6, <2>2, QuietFollows DEF PutWrite, ReloadPCs
  <2>3. QED
    BY <1>6, <2>1, <2>2 DEF PutWrite, WriteFails, Goto, TypeOK, storage
<1>7. CASE PutLoad(p) \/ UndoLoad(p)
  <2>1. CASE ReloadMissed(n)
    BY <1>1, <2>1, MissedFollows
  <2>2. CASE proc'[p].pc \in ReloadPCs
    BY <1>3, <2>2 DEF Follows
  <2>3. QED
    BY <1>7, <2>1, <2>2 DEF PutLoad, UndoLoad, Carry, TypeOK, ReloadPCs
<1>8. CASE PutSwap(p) \/ UndoSwap(p)
  BY <1>1, <1>8, SwapFollows DEF PutSwap, UndoSwap, storage
<1>9. CASE UndoWrite(p)
  <2>1. proc'[p].pc \in ReloadPCs
    BY <1>9 DEF UndoWrite, Goto, TypeOK, ReloadPCs
  <2>2. QED
    BY <1>3, <2>1 DEF Follows
<1>10. QED
  BY <1>5, <1>6, <1>7, <1>8, <1>9 DEF PutStep

LEMMA SyncFollows ==
  ASSUME TypeOK, RuntimeFollowsFile, NEW n \in Nodes, SyncStep(n) \/ Crash(n)
  PROVE  Follows(n)'
<1> DEFINE Loading == sync[n].pc \in {"boot", "init", "load", "swap"}
<1>1. Loading' => Follows(n)'
  BY DEF Reloading, Follows
<1>2. SyncStep(n) /\ ~Loading => (Reloading(n) => Reloading(n)')
  BY SyncStepOf DEF Reloading
<1>3. CASE OpenStore(n) \/ Boot(n)
  <2>1. CASE OpenStore(n)
    BY <1>1, <2>1 DEF OpenStore, SyncTo, TypeOK
  <2>2. CASE Boot(n)
    BY <2>2, SwapFollows, MissedFollows DEF Boot, storage
  <2>3. QED
    BY <1>3, <2>1, <2>2
<1>4. CASE SyncTick(n) \/ SyncRead(n) \/ SyncRow(n) \/ SyncSeed(n)
  <2>1. file' = file /\ runtime' = runtime /\ missed' = missed /\ ~Loading
    BY <1>4 DEF SyncTick, SyncRead, SyncRow, SyncSeed, storage, Upsert, UpsertFails
  <2>2. QED
    BY <1>2, <1>4, <2>1, QuietFollows DEF SyncStep
<1>5. CASE SyncWrite(n)
  <2>1. CASE Loading'
    BY <1>1, <2>1
  <2>2. CASE file' = file
    BY <1>2, <1>5, <2>2, QuietFollows DEF SyncStep, SyncWrite
  <2>3. QED
    BY <1>5, <2>1, <2>2 DEF SyncWrite, SyncTo, TypeOK, storage
<1>6. CASE SyncLoad(n)
  <2>1. CASE ReloadMissed(n)
    BY <2>1, MissedFollows
  <2>2. CASE Loading'
    BY <1>1, <2>2
  <2>3. QED
    BY <1>6, <2>1, <2>2 DEF SyncLoad, SyncTo, TypeOK
<1>7. CASE SyncSwap(n)
  BY <1>7, SwapFollows DEF SyncSwap, storage
<1>8. CASE Crash(n)
  BY <1>1, <1>8 DEF Crash, TypeOK
<1>9. QED
  BY <1>3, <1>4, <1>5, <1>6, <1>7, <1>8 DEF SyncStep

LEMMA StepFollows ==
  ASSUME TypeOK, RuntimeFollowsFile, [Next]_vars
  PROVE  RuntimeFollowsFile'
<1>1. ASSUME NEW n \in Nodes, StepOf(n), Follows(n)'
      PROVE  RuntimeFollowsFile'
  <2>1. \A m \in Nodes : Follows(m)'
    BY <1>1, OthersFollow
  <2>2. QED
    BY <2>1 DEF RuntimeFollowsFile, Follows
<1>2. CASE UNCHANGED vars
  BY <1>2 DEF vars, RuntimeFollowsFile, Reloading
<1>3. ASSUME NEW p \in Procs,
             \/ \E new \in Valid, tag \in Raw \cup {AnyTag} : PutStart(p, new, tag)
             \/ GetStart(p) \/ PutStep(p) \/ GetStep(p)
      PROVE  RuntimeFollowsFile'
  BY <1>1, <1>3, HandlerStepOf, HandlerFollows, HomeAssumption
<1>4. ASSUME NEW n \in Nodes, SyncStep(n) \/ Crash(n)
      PROVE  RuntimeFollowsFile'
  BY <1>1, <1>4, SyncStepOf, SyncFollows
<1>5. QED
  BY <1>2, <1>3, <1>4 DEF Next

(* Whatever PUTs, rollbacks, syncs, failures and crashes overlap, a node whose     *)
(* runtime differs from its file has a reload to come, or its last reload failed    *)
(* or was overtaken by a newer write of the file.                                   *)
THEOREM RuntimeFollows == Spec => []RuntimeFollowsFile
<1>1. Init => RuntimeFollowsFile
  BY DEF Init, RuntimeFollowsFile, Reloading
<1>2. TypeOK /\ RuntimeFollowsFile /\ [Next]_vars => RuntimeFollowsFile'
  BY StepFollows
<1>3. QED
  BY <1>1, <1>2, TypeCorrect, PTL DEF Spec

-------------------------------------------------------------------------------
(* A broken file stays on its node. *)

(* The strengthening: a text on its way to a file, as a rollback's or as a sync's,  *)
(* is broken only on a node whose own file was.                                    *)
PutCarriesOwn(p) ==
    proc[p].pc \in {"put_check", "put_swap", "undo_swap"} \cup PutPCs /\ proc[p].cur = Bad
      => InitialFile[Home[p]] = Bad

SyncCarriesValid(n) == sync[n].pc = "write" => sync[n].raw \in Valid

BadInv ==
    /\ BadStaysLocal
    /\ \A p \in Procs : PutCarriesOwn(p)
    /\ \A n \in Nodes : SyncCarriesValid(n)

LEMMA PutStartBad ==
  ASSUME TypeOK, BadInv, NEW p \in Procs, NEW new \in Valid, NEW tag \in Raw \cup {AnyTag},
         PutStart(p, new, tag)
  PROVE  PutCarriesOwn(p)' /\ file' = file
<1>1. PICK raw \in Raw : ReadIgnoringError(Home[p], raw) /\ proc'[p].cur = raw
  BY DEF PutStart, TypeOK
<1>2. raw = Bad => file[Home[p]] = Bad
  BY <1>1, TextAssumption DEF ReadIgnoringError
<1>3. QED
  BY <1>1, <1>2, HomeAssumption DEF BadInv, BadStaysLocal, PutCarriesOwn, PutStart, storage

LEMMA PutStepBad ==
  ASSUME TypeOK, BadInv, NEW p \in Procs, PutStep(p)
  PROVE  PutCarriesOwn(p)' /\ (file'[Home[p]] = Bad => InitialFile[Home[p]] = Bad)
<1> DEFINE n == Home[p]
<1>1. n \in Nodes /\ (file[n] = Bad => InitialFile[n] = Bad)
  BY HomeAssumption DEF BadInv, BadStaysLocal
<1>2. proc[p].pc \in {"put_check", "put_swap", "undo_swap"} \cup PutPCs
  BY DEF PutStep, PutCheck, PutWrite, PutLoad, PutSwap, PutUpsert, UndoWrite, UndoLoad,
         UndoSwap, PutPCs
<1>3. /\ proc[p].new # Bad
      /\ proc[p].cur = Bad => InitialFile[n] = Bad
  BY <1>2, PutFields, TextAssumption DEF BadInv, PutCarriesOwn
<1>4. CASE PutCheck(p)
  <2>1. proc'[p].pc = "idle" \/ proc'[p].cur = Current(n, proc[p].cur)
    BY <1>4 DEF PutCheck, Reply, Idle, TypeOK
  <2>2. Current(n, proc[p].cur) = Bad => proc[p].cur = Bad
    BY TextAssumption DEF Current
  <2>3. QED
    BY <1>1, <1>3, <1>4, <2>1, <2>2 DEF PutCheck, PutCarriesOwn, PutPCs, storage
<1>5. CASE ~PutCheck(p)
  <2>1. proc'[p].pc = "idle" \/ proc'[p].cur = proc[p].cur
    BY <1>5 DEF PutStep, PutWrite, PutLoad, PutSwap, PutUpsert, UndoWrite, UndoLoad, UndoSwap,
                Reply, Idle, Goto, Carry, TypeOK
  <2>2. file'[n] \in {file[n], proc[p].new, proc[p].cur}
    BY <1>1, <1>5 DEF PutStep, PutWrite, PutLoad, PutSwap, PutUpsert, UndoWrite, UndoLoad,
                UndoSwap, WriteFile, WriteFails, Upsert, UpsertFails, storage, TypeOK
  <2>3. QED
    BY <1>1, <1>3, <2>1, <2>2 DEF PutCarriesOwn, PutPCs
<1>6. QED
  BY <1>4, <1>5

LEMMA GetBad ==
  ASSUME TypeOK, NEW p \in Procs, GetStart(p) \/ GetStep(p)
  PROVE  PutCarriesOwn(p)' /\ file' = file
  BY DEF GetStart, GetStep, GetRow, GetSeed, Reply, Idle, Upsert, UpsertFails, storage,
         PutCarriesOwn, PutPCs, TypeOK

LEMMA SyncBad ==
  ASSUME TypeOK, BadInv, NEW n \in Nodes, SyncStep(n) \/ Crash(n)
  PROVE  SyncCarriesValid(n)' /\ (file'[n] = Bad => InitialFile[n] = Bad)
<1>1. file[n] = Bad => InitialFile[n] = Bad
  BY DEF BadInv, BadStaysLocal
<1>2. CASE SyncRow(n)
  <2>1. sync'[n].pc = "write" => sync'[n].raw \in Valid
    BY <1>2 DEF SyncRow, SyncTo, SyncEnds, IdleSync, ValidateRaw, TypeOK
  <2>2. QED
    BY <1>1, <1>2, <2>1 DEF SyncRow, SyncCarriesValid, storage
<1>3. CASE SyncWrite(n)
  <2>1. sync[n].raw \in Valid
    BY <1>3 DEF SyncWrite, BadInv, SyncCarriesValid
  <2>2. file'[n] \in {file[n], sync[n].raw} /\ sync'[n].pc # "write"
    BY <1>3 DEF SyncWrite, WriteFile, SyncTo, SyncEnds, IdleSync, storage, TypeOK
  <2>3. QED
    BY <1>1, <2>1, <2>2, TextAssumption DEF SyncCarriesValid
<1>4. CASE ~SyncRow(n) /\ ~SyncWrite(n)
  <2>1. file' = file
    BY <1>4 DEF SyncStep, OpenStore, Boot, SyncTick, SyncRead, SyncLoad, SyncSwap, SyncSeed, Crash,
                Upsert, UpsertFails, storage
  <2>2. sync'[n].pc # "write"
    BY <1>4 DEF SyncStep, OpenStore, Boot, SyncTick, SyncRead, SyncLoad, SyncSwap, SyncSeed, Crash,
                SyncTo, SyncEnds, IdleSync, TypeOK
  <2>3. QED
    BY <1>1, <2>1, <2>2 DEF SyncCarriesValid
<1>5. QED
  BY <1>2, <1>3, <1>4

LEMMA StepBad ==
  ASSUME TypeOK, BadInv, [Next]_vars
  PROVE  BadInv'
<1>1. CASE UNCHANGED vars
  BY <1>1 DEF vars, BadInv, BadStaysLocal, PutCarriesOwn, SyncCarriesValid
<1>2. ASSUME NEW p \in Procs,
             \/ \E new \in Valid, tag \in Raw \cup {AnyTag} : PutStart(p, new, tag)
             \/ GetStart(p) \/ PutStep(p) \/ GetStep(p)
      PROVE  BadInv'
  <2>1. /\ StepOf(Home[p]) /\ sync' = sync
        /\ \A q \in Procs \ {p} : proc'[q] = proc[q]
    BY <1>2, HandlerStepOf
  <2>2. /\ PutCarriesOwn(p)'
        /\ file'[Home[p]] = Bad => InitialFile[Home[p]] = Bad
    BY <1>2, PutStartBad, PutStepBad, GetBad, HomeAssumption DEF BadInv, BadStaysLocal
  <2>3. BadStaysLocal'
    BY <2>1, <2>2 DEF StepOf, BadInv, BadStaysLocal
  <2>4. \A q \in Procs : PutCarriesOwn(q)'
    BY <2>1, <2>2 DEF BadInv, PutCarriesOwn
  <2>5. QED
    BY <2>1, <2>3, <2>4 DEF BadInv, SyncCarriesValid
<1>3. ASSUME NEW n \in Nodes, SyncStep(n) \/ Crash(n)
      PROVE  BadInv'
  <2>1. StepOf(n) /\ (SyncStep(n) => proc' = proc)
    BY <1>3, SyncStepOf
  <2>2. SyncCarriesValid(n)' /\ (file'[n] = Bad => InitialFile[n] = Bad)
    BY <1>3, SyncBad
  <2>3. BadStaysLocal' /\ \A m \in Nodes : SyncCarriesValid(m)'
    BY <2>1, <2>2 DEF StepOf, BadInv, BadStaysLocal, SyncCarriesValid
  <2>4. \A p \in Procs : PutCarriesOwn(p)'
    <3>1. CASE SyncStep(n)
      BY <2>1, <3>1 DEF BadInv, PutCarriesOwn
    <3>2. CASE Crash(n)
      BY <3>2 DEF Crash, Idle, TypeOK, BadInv, PutCarriesOwn, PutPCs
    <3>3. QED
      BY <1>3, <3>1, <3>2
  <2>5. QED
    BY <2>3, <2>4 DEF BadInv
<1>4. QED
  BY <1>1, <1>2, <1>3 DEF Next

(* A file that does not validate never spreads: neither through the database,      *)
(* which it may seed, nor through a rollback does it reach another node's file.     *)
THEOREM BadContained == Spec => []BadStaysLocal
<1>1. Init => BadInv
  BY DEF Init, Idle, BadInv, BadStaysLocal, PutCarriesOwn, SyncCarriesValid, PutPCs
<1>2. TypeOK /\ BadInv /\ [Next]_vars => BadInv'
  BY StepBad
<1>3. BadInv => BadStaysLocal
  BY DEF BadInv
<1>4. QED
  BY <1>1, <1>2, <1>3, TypeCorrect, PTL DEF Spec
===============================================================================
