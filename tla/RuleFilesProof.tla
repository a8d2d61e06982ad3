----------------------------- MODULE RuleFilesProof -----------------------------
(***************************************************************************)
(* Theorems about RuleFiles, for any nodes, goroutines, files and texts.    *)
(***************************************************************************)
EXTENDS RuleFiles, TLAPS

-------------------------------------------------------------------------------
(* Type correctness. *)

LEMMA InitType == Init => TypeOK
<1>1. 1 \in Files
  BY FilesAssumption DEF Files
<1>2. StartSync \in SyncState /\ Idle("none") \in ProcState
  BY <1>1 DEF StartSync, SyncState, Idle, ProcState, Replies
<1>3. QED
  BY <1>2, InitialAssumption DEF Init, TypeOK

LEMMA CountsType ==
  ASSUME TypeOK, Fault \/ NoFault
  PROVE  puts' \in Nat /\ applies' \in Nat /\ gets' \in Nat /\ faults' \in Nat /\ crashes' \in Nat
  BY DEF TypeOK, Fault, NoFault, counts

LEMMA ReplyType ==
  ASSUME TypeOK, NEW p \in Procs, NEW reply \in Replies, Reply(p, reply)
  PROVE  proc' \in [Procs -> ProcState]
  BY DEF TypeOK, Reply, Idle, ProcState

JobPCs == {"put_check", "upsert", "approve", "swap", "undo_swap"} \cup PlainPCs

(* The fields a goroutine carries between the steps of a request. *)
LEMMA JobFields ==
  ASSUME TypeOK, NEW p \in Procs,
         proc[p].pc \in JobPCs
  PROVE  /\ proc[p].job \in Jobs
         /\ proc[p].cur \in Texts
         /\ proc[p].pc \in {"put_check", "upsert"} => proc[p].job \in PutJob
         /\ proc[p].pc = "approve" => proc[p].job \in ApplyJob
         /\ proc[p].pc \in {"swap", "undo_swap"} => proc[p].loaded \in Loadable
<1>1. proc[p] \in ProcState
  BY DEF TypeOK
<1>2. QED
  BY <1>1 DEF ProcState, JobPCs, PlainPCs, Jobs

LEMMA JobTypes ==
  ASSUME NEW job \in Jobs
  PROVE  /\ job.file \in Files
         /\ job.kind = "put" => job \in PutJob /\ job.new \in Texts
         /\ job.kind # "put" => job \in ApplyJob /\ job.line \in Lines /\ job.kind = "apply"
  BY InputAssumption DEF Jobs, PutJob, ApplyJob

LEMMA NewTextType ==
  ASSUME NEW job \in Jobs, NEW cur \in Texts
  PROVE  NewText(job, cur) \in Texts
  BY JobTypes DEF NewText, Texts

LEMMA GotoType ==
  ASSUME TypeOK, NEW p \in Procs, NEW pc \in PlainPCs \cup {"approve", "upsert"}, Goto(p, pc),
         proc[p].pc \in JobPCs,
         pc = "approve" => proc[p].job \in ApplyJob,
         pc = "upsert" => proc[p].job \in PutJob
  PROVE  proc' \in [Procs -> ProcState]
<1>1. [pc |-> pc, job |-> proc[p].job, cur |-> proc[p].cur] \in ProcState
  BY JobFields DEF ProcState
<1>2. QED
  BY <1>1 DEF TypeOK, Goto

LEMMA CarryType ==
  ASSUME TypeOK, NEW p \in Procs, NEW pc \in {"swap", "undo_swap"}, NEW loaded \in Loadable,
         Carry(p, pc, loaded), proc[p].pc \in JobPCs
  PROVE  proc' \in [Procs -> ProcState]
<1>1. [pc |-> pc, job |-> proc[p].job, cur |-> proc[p].cur, loaded |-> loaded] \in ProcState
  BY JobFields DEF ProcState
<1>2. QED
  BY <1>1 DEF TypeOK, Carry

LEMMA WriteFileType ==
  ASSUME TypeOK, NEW n \in Nodes, NEW f \in Files, NEW text \in Texts, WriteFile(n, f, text)
  PROVE  file' \in [Nodes -> [Files -> Texts]] /\ db' \in [Files -> {Absent} \cup Texts]
  BY DEF TypeOK, WriteFile

LEMMA UpsertType ==
  ASSUME TypeOK, NEW f \in Files, NEW text \in Texts, Upsert(f, text) \/ UpsertFails(f, text)
  PROVE  file' \in [Nodes -> [Files -> Texts]] /\ db' \in [Files -> {Absent} \cup Texts]
<1>1. [db EXCEPT ![f] = text] \in [Files -> {Absent} \cup Texts]
  BY DEF TypeOK
<1>2. QED
  BY <1>1 DEF TypeOK, Upsert, UpsertFails

LEMMA SetBaseType ==
  ASSUME TypeOK, NEW n \in Nodes, NEW loaded \in Loadable, SetBase(n, loaded)
  PROVE  base' \in [Nodes -> Loadable \cup {NoWAF}] /\ stale' \in [Nodes -> BOOLEAN]
  BY DEF TypeOK, SetBase

LEMMA GetType ==
  ASSUME TypeOK, NEW p \in Procs, (\E f \in Files : GetStart(p, f)) \/ GetRow(p) \/ GetSeed(p)
  PROVE  TypeOK'
<1>1. ASSUME NEW f \in Files, GetStart(p, f)
      PROVE  TypeOK'
  <2>1. [pc |-> "get_row", file |-> f, cur |-> file[Home[p]][f]] \in ProcState
    BY HomeAssumption DEF TypeOK, ProcState
  <2>2. QED
    BY <1>1, <2>1 DEF GetStart, TypeOK, storage, tuner
<1>2. CASE GetRow(p)
  <2>1. proc[p] \in [pc : {"get_row", "get_seed"}, file : Files, cur : Texts]
    BY <1>2 DEF GetRow, TypeOK, ProcState, PlainPCs
  <2>2. [pc |-> "get_seed", file |-> proc[p].file, cur |-> proc[p].cur] \in ProcState
    BY <2>1 DEF ProcState
  <2>3. proc' \in [Procs -> ProcState]
    BY <1>2, <2>2, ReplyType DEF GetRow, TypeOK, Replies
  <2>4. QED
    BY <1>2, <2>3, CountsType DEF GetRow, TypeOK, storage, tuner
<1>3. CASE GetSeed(p)
  <2>1. proc[p] \in [pc : {"get_row", "get_seed"}, file : Files, cur : Texts]
    BY <1>3 DEF GetSeed, TypeOK, ProcState, PlainPCs
  <2>2. proc' \in [Procs -> ProcState]
    BY <1>3, ReplyType DEF GetSeed, Replies
  <2>3. file' \in [Nodes -> [Files -> Texts]] /\ db' \in [Files -> {Absent} \cup Texts]
    BY <1>3, <2>1, UpsertType DEF GetSeed
  <2>4. QED
    BY <1>3, <2>2, <2>3, CountsType DEF GetSeed, TypeOK, tuner
<1>4. QED
  BY <1>1, <1>2, <1>3

LEMMA PutStartType ==
  ASSUME TypeOK, NEW p \in Procs, NEW f \in Files, NEW new \in PutTexts, NEW tag \in Tags,
         PutStart(p, f, new, tag)
  PROVE  TypeOK'
<1>1. [kind |-> "put", file |-> f, new |-> new, tag |-> tag] \in PutJob
  BY DEF PutJob
<1>2. [pc |-> "put_check", cur |-> file[Home[p]][f],
       job |-> [kind |-> "put", file |-> f, new |-> new, tag |-> tag]] \in ProcState
  BY <1>1, HomeAssumption DEF TypeOK, ProcState
<1>3. QED
  BY <1>2 DEF PutStart, TypeOK, storage, tuner

LEMMA ApplyStartType ==
  ASSUME TypeOK, NEW p \in Procs, NEW proposal \in Proposals, NEW token \in Tokens \cup {NoToken},
         NEW simulate \in BOOLEAN, NEW tag \in Tags, ApplyStart(p, proposal, token, simulate, tag)
  PROVE  TypeOK'
<1> DEFINE cur == file[Home[p]][proposal.file]
           job == [kind |-> "apply", file |-> proposal.file, line |-> proposal.line,
                   token |-> token, simulate |-> simulate]
<1>1. proposal.file \in Files /\ proposal.line \in Lines
  BY InputAssumption
<1>2. job \in ApplyJob /\ cur \in Texts
  BY <1>1, HomeAssumption DEF ApplyJob, TypeOK
<1>3. [pc |-> "validate", job |-> job, cur |-> cur] \in ProcState
  BY <1>2 DEF ProcState, Jobs, PlainPCs
<1>4. proc' \in [Procs -> ProcState]
  BY <1>3, ReplyType DEF ApplyStart, TypeOK, Replies
<1>5. QED
  BY <1>4 DEF ApplyStart, TypeOK, storage, tuner

LEMMA ProposeType ==
  ASSUME TypeOK, NEW p \in Procs, NEW proposal \in Proposals, NEW token \in Tokens,
         Propose(p, proposal, token)
  PROVE  TypeOK'
<1>1. clock \in Nat /\ clock + TTL \in Nat /\ Home[p] \in Nodes
  BY InputAssumption, HomeAssumption DEF TypeOK
<1>2. Pruned(approvals[Home[p]], clock) \in [Tokens -> Entry \cup {NoToken}]
  BY <1>1 DEF Pruned, TypeOK
<1>3. [proposal |-> proposal, expires |-> clock + TTL] \in Entry
  BY <1>1 DEF Entry
<1>4. approvals' \in [Nodes -> [Tokens -> Entry \cup {NoToken}]]
  BY <1>1, <1>2, <1>3 DEF Propose, TypeOK
<1>5. [node |-> Home[p], proposal |-> proposal, at |-> clock, spent |-> 0] \in Issue
  BY <1>1 DEF Issue
<1>6. proc' \in [Procs -> ProcState]
  BY ReplyType DEF Propose, Replies
<1>7. QED
  BY <1>4, <1>5, <1>6 DEF Propose, TypeOK, storage, counts

(* What the approval store holds: entries that this process issued and nobody has  *)
(* used.  Without it not even the type of issued is inductive.                     *)
GrantsIssued ==
    \A n \in Nodes, t \in Tokens : approvals[n][t] # NoToken =>
        /\ issued[t] # NoToken
        /\ issued[t].node = n /\ issued[t].spent = 0
        /\ issued[t].proposal = approvals[n][t].proposal
        /\ approvals[n][t].expires = issued[t].at + TTL

LEMMA AcceptedIssued ==
  ASSUME TypeOK, GrantsIssued, NEW n \in Nodes, NEW job, job.token \in Tokens \cup {NoToken},
         Accepted(approvals[n], job, clock)
  PROVE  /\ job.token \in Tokens /\ approvals[n][job.token] # NoToken
         /\ issued[job.token] \in Issue
         /\ issued[job.token].node = n /\ issued[job.token].spent = 0
         /\ issued[job.token].proposal = [file |-> job.file, line |-> job.line]
         /\ clock <= issued[job.token].at + TTL
<1>1. job.token \in Tokens
  BY DEF Accepted
<1>2. /\ approvals[n][job.token] # NoToken
      /\ ~(clock > approvals[n][job.token].expires)
      /\ approvals[n][job.token].proposal = [file |-> job.file, line |-> job.line]
  BY <1>1 DEF Accepted, Pruned
<1>3. issued[job.token] \in Issue
  BY <1>1, <1>2 DEF GrantsIssued, TypeOK
<1>4. QED
  BY <1>1, <1>2, <1>3, InputAssumption DEF GrantsIssued, TypeOK, Issue

LEMMA ApproveType ==
  ASSUME TypeOK, GrantsIssued, NEW p \in Procs, Approve(p)
  PROVE  TypeOK'
<1>1. proc[p].job \in ApplyJob /\ proc[p].job.token \in Tokens \cup {NoToken} /\ Home[p] \in Nodes
  BY JobFields, HomeAssumption DEF Approve, JobPCs, ApplyJob
<1>2. Consumed(approvals[Home[p]], proc[p].job.token, clock) \in [Tokens -> Entry \cup {NoToken}]
  BY <1>1 DEF Consumed, Pruned, TypeOK
<1>3. approvals' \in [Nodes -> [Tokens -> Entry \cup {NoToken}]]
  BY <1>1, <1>2 DEF Approve, TypeOK
<1>4. proc' \in [Procs -> ProcState]
  BY <1>1, GotoType, ReplyType DEF Approve, PlainPCs, JobPCs, Replies
<1>5. issued' \in [Tokens -> Issue \cup {NoToken}]
  <2>1. CASE Accepted(approvals[Home[p]], proc[p].job, clock)
    <3>1. proc[p].job.token \in Tokens /\ issued[proc[p].job.token] \in Issue
      BY <1>1, <2>1, AcceptedIssued
    <3>2. issued' = [issued EXCEPT ![proc[p].job.token].spent = @ + 1]
      BY <2>1 DEF Approve
    <3>3. [issued[proc[p].job.token] EXCEPT !.spent = @ + 1] \in Issue
      BY <3>1 DEF Issue
    <3>4. QED
      BY <3>1, <3>2, <3>3 DEF TypeOK
  <2>2. CASE ~Accepted(approvals[Home[p]], proc[p].job, clock)
    BY <2>2 DEF Approve, TypeOK
  <2>3. QED
    BY <2>1, <2>2
<1>6. QED
  BY <1>3, <1>4, <1>5 DEF Approve, TypeOK, storage, counts

LEMMA ValidateType ==
  ASSUME TypeOK, NEW p \in Procs, PutCheck(p) \/ Validate(p)
  PROVE  TypeOK'
<1>1. CASE PutCheck(p)
  <2> DEFINE job == proc[p].job
             cur == IF db[job.file] = Absent THEN proc[p].cur ELSE db[job.file]
  <2>1. job \in PutJob /\ cur \in Texts
    <3>1. job \in PutJob /\ proc[p].cur \in Texts
      BY <1>1, JobFields DEF PutCheck, JobPCs
    <3>2. job.file \in Files
      BY <3>1 DEF PutJob
    <3>3. db[job.file] \in {Absent} \cup Texts
      BY <3>2 DEF TypeOK
    <3>4. QED
      BY <3>1, <3>3
  <2>2. [pc |-> "validate", job |-> job, cur |-> cur] \in ProcState
    BY <2>1 DEF ProcState, Jobs, PlainPCs
  <2>3. proc' \in [Procs -> ProcState]
    BY <1>1, <2>2, ReplyType DEF PutCheck, TypeOK, Replies
  <2>4. QED
    BY <1>1, <2>3, CountsType DEF PutCheck, TypeOK, storage, tuner
<1>2. CASE Validate(p)
  <2>1. proc[p].job \in Jobs
    BY <1>2, JobFields DEF Validate, PlainPCs, JobPCs
  <2>2. proc[p].job.kind = "apply" => proc[p].job \in ApplyJob
    BY <2>1 DEF Jobs, PutJob, ApplyJob
  <2>3. proc' \in [Procs -> ProcState]
    BY <1>2, <2>2, GotoType, ReplyType DEF Validate, PlainPCs, JobPCs, Replies
  <2>4. QED
    BY <1>2, <2>3, CountsType DEF Validate, TypeOK, storage, tuner
<1>3. QED
  BY <1>1, <1>2

LEMMA WriteType ==
  ASSUME TypeOK, NEW p \in Procs, Write(p) \/ UndoWrite(p) \/ PutUpsert(p)
  PROVE  TypeOK'
<1>1. proc[p].job \in Jobs /\ proc[p].cur \in Texts /\ Home[p] \in Nodes
  BY JobFields, HomeAssumption DEF Write, UndoWrite, PutUpsert, PlainPCs, JobPCs
<1>2. NewText(proc[p].job, proc[p].cur) \in Texts /\ proc[p].job.file \in Files
  BY <1>1, NewTextType, JobTypes
<1>3. CASE Write(p)
  <2>1. file' \in [Nodes -> [Files -> Texts]] /\ db' \in [Files -> {Absent} \cup Texts]
    BY <1>1, <1>2, <1>3, WriteFileType DEF Write, TypeOK, storage
  <2>2. proc' \in [Procs -> ProcState]
    BY <1>3, GotoType, ReplyType DEF Write, PlainPCs, JobPCs, Replies
  <2>3. tuned' \in SUBSET (Nodes \X Files \X Lines)
    BY <1>3 DEF Write, TypeOK
  <2>4. QED
    BY <1>3, <2>1, <2>2, <2>3, CountsType DEF Write, TypeOK, tuner
<1>4. CASE UndoWrite(p)
  <2>1. file' \in [Nodes -> [Files -> Texts]] /\ db' \in [Files -> {Absent} \cup Texts]
    BY <1>1, <1>2, <1>4, WriteFileType DEF UndoWrite, TypeOK, storage
  <2>2. proc' \in [Procs -> ProcState]
    BY <1>4, GotoType DEF UndoWrite, PlainPCs, JobPCs
  <2>3. QED
    BY <1>4, <2>1, <2>2, CountsType DEF UndoWrite, TypeOK, tuner
<1>5. CASE PutUpsert(p)
  <2>1. proc[p].job.new \in Texts
    BY <1>5, JobFields, InputAssumption DEF PutUpsert, PutJob, JobPCs
  <2>2. file' \in [Nodes -> [Files -> Texts]] /\ db' \in [Files -> {Absent} \cup Texts]
    BY <1>2, <1>5, <2>1, UpsertType DEF PutUpsert
  <2>3. proc' \in [Procs -> ProcState]
    BY <1>5, GotoType, ReplyType DEF PutUpsert, PlainPCs, JobPCs, Replies
  <2>4. QED
    BY <1>5, <2>2, <2>3, CountsType DEF PutUpsert, TypeOK, tuner
<1>6. QED
  BY <1>3, <1>4, <1>5

LEMMA ReloadType ==
  ASSUME TypeOK, NEW p \in Procs, Load(p) \/ Swap(p) \/ UndoLoad(p) \/ UndoSwap(p)
  PROVE  TypeOK'
<1> USE HomeAssumption
<1>1. CASE Load(p)
  <2>1. proc' \in [Procs -> ProcState]
    BY <1>1, GotoType, CarryType DEF Load, Builds, PlainPCs, JobPCs
  <2>2. QED
    BY <1>1, <2>1, CountsType DEF Load, Unreloaded, BuildFails, TypeOK, storage, tuner
<1>2. CASE UndoLoad(p)
  <2>1. proc' \in [Procs -> ProcState]
    BY <1>2, ReplyType, CarryType DEF UndoLoad, Builds, PlainPCs, JobPCs, Replies
  <2>2. QED
    BY <1>2, <2>1, CountsType DEF UndoLoad, Unreloaded, BuildFails, TypeOK, storage, tuner
<1>3. CASE Swap(p)
  <2>1. proc[p].job \in Jobs /\ proc[p].loaded \in Loadable
    BY <1>3, JobFields DEF Swap, JobPCs
  <2>2. proc[p].job.kind = "put" => proc[p].job \in PutJob
    BY <2>1 DEF Jobs, PutJob, ApplyJob
  <2>3. proc' \in [Procs -> ProcState]
    BY <1>3, <2>2, GotoType, ReplyType DEF Swap, PlainPCs, JobPCs, Replies
  <2>4. tuned' \in SUBSET (Nodes \X Files \X Lines)
    <3>1. CASE proc[p].job.kind = "put"
      BY <1>3, <3>1 DEF Swap, TypeOK
    <3>2. CASE proc[p].job.kind = "apply"
      <4>1. proc[p].job.file \in Files /\ proc[p].job.line \in Lines
        BY <2>1, <3>2, JobTypes
      <4>2. <<Home[p], proc[p].job.file, proc[p].job.line>> \in Nodes \X Files \X Lines
        BY <4>1
      <4>3. QED
        BY <1>3, <3>2, <4>2 DEF Swap, TypeOK
    <3>3. QED
      BY <1>3, <3>1, <3>2 DEF Swap
  <2>5. QED
    BY <1>3, <2>1, <2>3, <2>4, SetBaseType DEF Swap, TypeOK, storage, tuner, counts
<1>4. CASE UndoSwap(p)
  <2>1. proc[p].loaded \in Loadable
    BY <1>4, JobFields DEF UndoSwap, JobPCs
  <2>2. proc' \in [Procs -> ProcState]
    BY <1>4, ReplyType DEF UndoSwap, Replies
  <2>3. QED
    BY <1>4, <2>1, <2>2, SetBaseType DEF UndoSwap, TypeOK, storage, tuner, counts
<1>5. QED
  BY <1>1, <1>2, <1>3, <1>4

LEMMA SyncToType ==
  ASSUME TypeOK, NEW n \in Nodes, NEW s \in SyncState, SyncTo(n, s)
  PROVE  sync' \in [Nodes -> SyncState]
  BY DEF TypeOK, SyncTo

LEMMA SyncEndsType ==
  ASSUME TypeOK, NEW n \in Nodes, SyncEnds(n)
  PROVE  sync' \in [Nodes -> SyncState]
  BY DEF TypeOK, SyncTo, SyncEnds, SyncState

LEMMA StartSyncType == StartSync \in SyncState
<1>1. 1 \in Files
  BY FilesAssumption DEF Files
<1>2. QED
  BY <1>1 DEF StartSync, SyncState

FileSync == [pc : {"row", "write", "seed"}, file : Files, changed : BOOLEAN, raw : Texts]

(* The fields of a sync under way. *)
LEMMA SyncFields ==
  ASSUME TypeOK, NEW n \in Nodes
  PROVE  /\ sync[n].pc \in {"read", "row", "write", "seed"} =>
              sync[n].file \in Files /\ sync[n].changed \in BOOLEAN
         /\ sync[n].pc \in {"row", "write", "seed"} =>
              sync[n].raw \in Texts /\ sync[n] \in FileSync
         /\ sync[n].pc = "swap" => sync[n].loaded \in Loadable
<1>1. sync[n] \in SyncState
  BY DEF TypeOK
<1>2. QED
  BY <1>1 DEF SyncState, FileSync

LEMMA SyncNextType ==
  ASSUME TypeOK, NEW n \in Nodes, NEW changed \in BOOLEAN, SyncNext(n, changed)
  PROVE  sync' \in [Nodes -> SyncState]
<1>1. CASE sync[n].file + 1 \in Files
  <2>1. [pc |-> "read", file |-> sync[n].file + 1, changed |-> changed] \in SyncState
    BY <1>1 DEF SyncState
  <2>2. QED
    BY <1>1, <2>1, SyncToType DEF SyncNext
<1>2. CASE sync[n].file + 1 \notin Files
  <2>1. [pc |-> "load"] \in SyncState
    BY DEF SyncState
  <2>2. QED
    BY <1>2, <2>1, SyncToType, SyncEndsType DEF SyncNext
<1>3. QED
  BY <1>1, <1>2

LEMMA SyncAbortsType ==
  ASSUME TypeOK, NEW n \in Nodes, NEW changed \in BOOLEAN, SyncAborts(n, changed)
  PROVE  sync' \in [Nodes -> SyncState] /\ stale' \in [Nodes -> BOOLEAN]
  BY SyncEndsType DEF SyncAborts, TypeOK

LEMMA SyncStepType ==
  ASSUME TypeOK, NEW n \in Nodes, SyncStep(n)
  PROVE  TypeOK'
<1>1. CASE SyncTick(n)
  BY <1>1, StartSyncType, SyncToType DEF SyncTick, TypeOK, storage, tuner, counts
<1>2. CASE SyncRead(n)
  <2>1. sync[n].file \in Files /\ sync[n].changed \in BOOLEAN
    BY <1>2, SyncFields DEF SyncRead
  <2>2. [pc |-> "row", file |-> sync[n].file, changed |-> sync[n].changed,
         raw |-> file[n][sync[n].file]] \in SyncState
    BY <2>1 DEF SyncState, TypeOK
  <2>3. sync' \in [Nodes -> SyncState] /\ stale' \in [Nodes -> BOOLEAN]
    BY <1>2, <2>1, <2>2, SyncToType, SyncAbortsType DEF SyncRead, TypeOK
  <2>4. QED
    BY <1>2, <2>3, CountsType DEF SyncRead, TypeOK, storage, tuner
<1>3. CASE SyncRow(n)
  <2>1. sync[n].file \in Files /\ sync[n].changed \in BOOLEAN /\ sync[n].raw \in Texts
    BY <1>3, SyncFields DEF SyncRow
  <2>2. db[sync[n].file] \in {Absent} \cup Texts
    BY <2>1 DEF TypeOK
  <2> sync[n] \in FileSync /\ FileSync \subseteq SyncState
    BY <1>3, SyncFields DEF SyncRow, FileSync, SyncState
  <2>3. [sync[n] EXCEPT !.pc = "seed"] \in FileSync
    BY DEF FileSync
  <2>4. db[sync[n].file] # Absent =>
           [sync[n] EXCEPT !.pc = "write", !.raw = db[sync[n].file]] \in FileSync
    BY <2>2 DEF FileSync
  <2>5. sync' \in [Nodes -> SyncState] /\ stale' \in [Nodes -> BOOLEAN]
    BY <1>3, <2>1, <2>3, <2>4, SyncToType, SyncNextType, SyncAbortsType DEF SyncRow, TypeOK
  <2>6. QED
    BY <1>3, <2>5, CountsType DEF SyncRow, TypeOK, storage, tuner
<1>4. CASE SyncWrite(n)
  <2>1. sync[n].file \in Files /\ sync[n].changed \in BOOLEAN /\ sync[n].raw \in Texts
    BY <1>4, SyncFields DEF SyncWrite
  <2>2. sync' \in [Nodes -> SyncState] /\ stale' \in [Nodes -> BOOLEAN]
    BY <1>4, <2>1, SyncNextType, SyncAbortsType DEF SyncWrite, TypeOK
  <2>3. file' \in [Nodes -> [Files -> Texts]] /\ db' \in [Files -> {Absent} \cup Texts]
    BY <1>4, <2>1, WriteFileType DEF SyncWrite, TypeOK, storage
  <2>4. QED
    BY <1>4, <2>2, <2>3, CountsType DEF SyncWrite, TypeOK, tuner
<1>5. CASE SyncSeed(n)
  <2>1. sync[n].file \in Files /\ sync[n].changed \in BOOLEAN /\ sync[n].raw \in Texts
    BY <1>5, SyncFields DEF SyncSeed
  <2>2. sync' \in [Nodes -> SyncState] /\ stale' \in [Nodes -> BOOLEAN]
    BY <1>5, <2>1, SyncNextType, SyncAbortsType DEF SyncSeed, TypeOK
  <2>3. file' \in [Nodes -> [Files -> Texts]] /\ db' \in [Files -> {Absent} \cup Texts]
    BY <1>5, <2>1, UpsertType DEF SyncSeed
  <2>4. QED
    BY <1>5, <2>2, <2>3, CountsType DEF SyncSeed, TypeOK, tuner
<1>6. CASE SyncLoad(n)
  <2>1. Builds(n) => [pc |-> "swap", loaded |-> file[n]] \in SyncState
    BY DEF Builds, SyncState
  <2>2. sync' \in [Nodes -> SyncState] /\ stale' \in [Nodes -> BOOLEAN]
    BY <1>6, <2>1, SyncToType, SyncEndsType DEF SyncLoad, Unreloaded, TypeOK
  <2>3. QED
    BY <1>6, <2>2, CountsType DEF SyncLoad, Unreloaded, BuildFails, TypeOK, storage, tuner
<1>7. CASE SyncSwap(n)
  <2>1. sync[n].loaded \in Loadable
    BY <1>7, SyncFields DEF SyncSwap
  <2>2. QED
    BY <1>7, <2>1, SetBaseType, SyncEndsType DEF SyncSwap, TypeOK, storage, tuner, counts
<1>8. CASE InitWAF(n)
  <2>1. [pc |-> "idle"] \in SyncState
    BY DEF SyncState
  <2>2. sync' \in [Nodes -> SyncState]
    BY <1>8, <2>1, StartSyncType, SyncToType DEF InitWAF
  <2>3. base' \in [Nodes -> Loadable \cup {NoWAF}] /\ stale' \in [Nodes -> BOOLEAN]
    BY <1>8, SetBaseType DEF InitWAF, Builds, TypeOK
  <2>4. QED
    BY <1>8, <2>2, <2>3, CountsType DEF InitWAF, BuildFails, TypeOK, storage, tuner
<1>9. QED
  BY <1>1, <1>2, <1>3, <1>4, <1>5, <1>6, <1>7, <1>8 DEF SyncStep

LEMMA CrashType ==
  ASSUME TypeOK, NEW n \in Nodes, Crash(n)
  PROVE  TypeOK'
<1>1. Idle("none") \in ProcState
  BY DEF Idle, ProcState, Replies
<1>2. proc' \in [Procs -> ProcState] /\ sync' \in [Nodes -> SyncState]
  BY <1>1, StartSyncType DEF Crash, TypeOK
<1>3. approvals' \in [Nodes -> [Tokens -> Entry \cup {NoToken}]]
  BY DEF Crash, TypeOK
<1>4. QED
  BY <1>2, <1>3 DEF Crash, TypeOK, storage

LEMMA StepType == TypeOK /\ GrantsIssued /\ [Next]_vars => TypeOK'
<1>1. CASE UNCHANGED vars
  BY <1>1 DEF vars, TypeOK
<1>2. CASE Tick
  BY <1>2 DEF Tick, TypeOK, storage, counts
<1>3. ASSUME TypeOK, GrantsIssued, NEW p \in Procs, Request(p) \/ HandlerStep(p)
      PROVE  TypeOK'
  BY <1>3, GetType, PutStartType, ApplyStartType, ProposeType, ValidateType, ApproveType,
     WriteType, ReloadType DEF Request, HandlerStep
<1>4. QED
  BY <1>1, <1>2, <1>3, SyncStepType, CrashType DEF Next

-------------------------------------------------------------------------------
(* Approvals. *)

LEMMA OtherStepsKeepGrants ==
  ASSUME NEW p \in Procs, NEW n \in Nodes,
         \/ Tick
         \/ \E f \in Files : GetStart(p, f)
         \/ \E f \in Files, new \in PutTexts, tag \in Tags : PutStart(p, f, new, tag)
         \/ \E proposal \in Proposals, token \in Tokens \cup {NoToken}, simulate \in BOOLEAN,
               tag \in Tags : ApplyStart(p, proposal, token, simulate, tag)
         \/ HandlerStep(p) /\ ~Approve(p)
         \/ SyncStep(n)
  PROVE  approvals' = approvals /\ issued' = issued
<1> USE DEF tuner
<1>1. CASE Tick
  BY <1>1 DEF Tick
<1>2. CASE \/ \E f \in Files : GetStart(p, f)
           \/ \E f \in Files, new \in PutTexts, tag \in Tags : PutStart(p, f, new, tag)
           \/ \E proposal \in Proposals, token \in Tokens \cup {NoToken}, simulate \in BOOLEAN,
                 tag \in Tags : ApplyStart(p, proposal, token, simulate, tag)
  BY <1>2 DEF GetStart, PutStart, ApplyStart
<1>3. CASE HandlerStep(p) /\ ~Approve(p)
  BY <1>3 DEF HandlerStep, GetRow, GetSeed, PutCheck, Validate, Write, Load, Swap, PutUpsert,
              UndoWrite, UndoLoad, UndoSwap
<1>4. CASE SyncStep(n)
  BY <1>4 DEF SyncStep, SyncTick, SyncRead, SyncRow, SyncWrite, SyncSeed, SyncLoad, SyncSwap,
              InitWAF
<1>5. QED
  BY <1>1, <1>2, <1>3, <1>4

LEMMA ProposeGrants ==
  ASSUME TypeOK, GrantsIssued, NEW p \in Procs, NEW proposal \in Proposals, NEW token \in Tokens,
         Propose(p, proposal, token)
  PROVE  GrantsIssued'
<1> SUFFICES ASSUME NEW n \in Nodes, NEW t \in Tokens, approvals'[n][t] # NoToken
             PROVE  /\ issued'[t] # NoToken
                    /\ issued'[t].node = n /\ issued'[t].spent = 0
                    /\ issued'[t].proposal = approvals'[n][t].proposal
                    /\ approvals'[n][t].expires = issued'[t].at + TTL
  BY DEF GrantsIssued
<1> DEFINE new == [node |-> Home[p], proposal |-> proposal, at |-> clock, spent |-> 0]
<1>1. new \in Issue /\ Home[p] \in Nodes
  BY HomeAssumption DEF TypeOK, Issue
<1>2. CASE t = token
  <2>1. issued'[t] = new
    BY <1>2 DEF Propose, TypeOK
  <2>2. approvals[n][t] = NoToken
    BY <1>2 DEF Propose, GrantsIssued
  <2>3. n = Home[p]
    BY <1>1, <2>2 DEF Propose, TypeOK
  <2>4. approvals'[n][t] = [proposal |-> proposal, expires |-> clock + TTL]
    BY <1>1, <1>2, <2>3 DEF Propose, TypeOK, Pruned
  <2>5. issued'[t] # NoToken
    BY <1>1, <2>1, TokenAssumption
  <2>6. QED
    BY <2>1, <2>3, <2>4, <2>5
<1>3. CASE t # token
  <2>1. issued'[t] = issued[t]
    BY <1>3 DEF Propose, TypeOK
  <2>2. approvals'[n][t] = approvals[n][t]
    BY <1>1, <1>3 DEF Propose, TypeOK, Pruned
  <2>3. QED
    BY <2>1, <2>2 DEF GrantsIssued
<1>4. QED
  BY <1>2, <1>3

LEMMA ApproveGrants ==
  ASSUME TypeOK, GrantsIssued, NEW p \in Procs, Approve(p)
  PROVE  GrantsIssued'
<1> DEFINE job == proc[p].job
<1>1. job \in ApplyJob /\ job.token \in Tokens \cup {NoToken} /\ Home[p] \in Nodes
  BY JobFields, HomeAssumption DEF Approve, JobPCs, ApplyJob
<1>2. CASE job.token = NoToken
  <2>1. approvals' = approvals /\ issued' = issued
    BY <1>2 DEF Approve, Accepted
  <2>2. QED
    BY <2>1 DEF GrantsIssued
<1>3. CASE job.token \in Tokens
  <2> SUFFICES ASSUME NEW n \in Nodes, NEW t \in Tokens, approvals'[n][t] # NoToken
               PROVE  approvals'[n][t] = approvals[n][t] /\ issued'[t] = issued[t]
    BY DEF GrantsIssued
  <2>0. job.token # NoToken
    BY <1>3, InputAssumption
  <2>1. approvals' = [approvals EXCEPT ![Home[p]] = Consumed(@, job.token, clock)]
    BY <2>0 DEF Approve
  <2>2. CASE t = job.token
    <3>1. n # Home[p]
      BY <1>1, <2>1, <2>2 DEF Consumed, TypeOK
    <3>2. approvals'[n][t] = approvals[n][t]
      BY <2>1, <3>1 DEF TypeOK
    <3>3. ~Accepted(approvals[Home[p]], job, clock)
      <4>1. ASSUME Accepted(approvals[Home[p]], job, clock)
            PROVE  FALSE
        <5>1. issued[t].node = Home[p]
          BY <1>1, <2>2, <4>1, AcceptedIssued
        <5>2. issued[t].node = n
          BY <3>2 DEF GrantsIssued
        <5>3. QED
          BY <3>1, <5>1, <5>2
      <4>2. QED
        BY <4>1
    <3>4. QED
      BY <3>2, <3>3 DEF Approve
  <2>3. CASE t # job.token
    <3>1. issued'[t] = issued[t]
      BY <1>3, <2>3 DEF Approve, TypeOK
    <3>2. approvals'[n][t] = approvals[n][t]
      BY <1>1, <2>1, <2>3 DEF Consumed, Pruned, TypeOK
    <3>3. QED
      BY <3>1, <3>2
  <2>4. QED
    BY <2>2, <2>3
<1>4. QED
  BY <1>1, <1>2, <1>3

LEMMA CrashGrants ==
  ASSUME TypeOK, GrantsIssued, NEW m \in Nodes, Crash(m)
  PROVE  GrantsIssued'
<1>1. \A n \in Nodes, t \in Tokens :
         approvals'[n][t] # NoToken => approvals'[n][t] = approvals[n][t] /\ issued'[t] = issued[t]
  BY DEF Crash, TypeOK
<1>2. QED
  BY <1>1 DEF GrantsIssued

LEMMA StepGrants == TypeOK /\ GrantsIssued /\ [Next]_vars => GrantsIssued'
<1> SUFFICES ASSUME TypeOK, GrantsIssued, [Next]_vars
             PROVE  GrantsIssued'
  OBVIOUS
<1>1. approvals' = approvals /\ issued' = issued => GrantsIssued'
  BY DEF GrantsIssued
<1>2. CASE UNCHANGED vars
  BY <1>1, <1>2 DEF vars
<1>3. CASE Tick
  BY <1>1, <1>3 DEF Tick
<1>4. ASSUME NEW p \in Procs, Request(p) \/ HandlerStep(p)
      PROVE  GrantsIssued'
  <2>1. Home[p] \in Nodes
    BY HomeAssumption
  <2>2. QED
    BY <1>1, <1>4, <2>1, OtherStepsKeepGrants, ProposeGrants, ApproveGrants DEF Request
<1>5. ASSUME NEW n \in Nodes, SyncStep(n) \/ Crash(n)
      PROVE  GrantsIssued'
  <2>1. CASE SyncStep(n)
    BY <1>1, <2>1 DEF SyncStep, SyncTick, SyncRead, SyncRow, SyncWrite, SyncSeed, SyncLoad,
                      SyncSwap, InitWAF, tuner
  <2>2. CASE Crash(n)
    BY <2>2, CrashGrants
  <2>3. QED
    BY <1>5, <2>1, <2>2
<1>6. QED
  BY <1>2, <1>3, <1>4, <1>5 DEF Next

(* Every reachable state has the declared types; among them: the base WAF is only   *)
(* ever built from files that load together, whatever the files hold meanwhile.     *)
THEOREM TypeCorrect == Spec => [](TypeOK /\ GrantsIssued)
<1>1. Init => GrantsIssued
  BY DEF Init, GrantsIssued
<1>2. QED
  BY <1>1, InitType, StepType, StepGrants, PTL DEF Spec

LEMMA WritesAfterApproval ==
  ASSUME TypeOK, [Next]_vars, NEW p \in Procs, proc[p].pc = "approve", proc'[p].pc = "write"
  PROVE  Accepted(approvals[Home[p]], proc[p].job, clock) /\ proc[p].job \in ApplyJob
<1>1. proc'[p] # proc[p]
  OBVIOUS
<1>2. ~(Tick \/ UNCHANGED vars \/ \E n \in Nodes : SyncStep(n))
  BY <1>1 DEF Tick, vars, SyncStep, SyncTick, SyncRead, SyncRow, SyncWrite, SyncSeed, SyncLoad,
              SyncSwap, InitWAF
<1>3. ~ \E n \in Nodes : Crash(n)
  BY <1>1 DEF Crash, Idle, TypeOK
<1>4. ASSUME NEW q \in Procs, Request(q) \/ HandlerStep(q)
      PROVE  p = q
  <2>1. ASSUME NEW v, proc' = [proc EXCEPT ![q] = v]
        PROVE  p = q
    BY <1>1, <2>1 DEF TypeOK
  <2>2. QED
    BY <1>4, <2>1 DEF Request, HandlerStep, GetStart, PutStart, Propose, ApplyStart, GetRow,
       GetSeed, PutCheck, Validate, Approve, Write, Load, Swap, PutUpsert, UndoWrite, UndoLoad,
       UndoSwap, Reply, Goto, Carry
<1>5. Request(p) \/ HandlerStep(p)
  BY <1>2, <1>3, <1>4 DEF Next
<1>6. Approve(p)
  BY <1>5 DEF Request, HandlerStep, Available, GetStart, PutStart, Propose, ApplyStart, GetRow,
     GetSeed, PutCheck, Validate, Write, Load, Swap, PutUpsert, UndoWrite, UndoLoad, UndoSwap
<1>7. QED
  BY <1>6, JobFields DEF Approve, Reply, Idle, TypeOK, JobPCs

(* An apply writes a rule file only with an approval that this process issued for   *)
(* this proposal, that has not expired and that no apply has used before: whatever  *)
(* is retried, runs at the same time or restarts.                                   *)
THEOREM ApprovalsHold == Spec => AppliesApproved
<1>1. ASSUME TypeOK, GrantsIssued, [Next]_vars, NEW p \in Procs, proc[p].pc = "approve",
             proc'[p].pc = "write"
      PROVE  /\ issued[proc[p].job.token].node = Home[p]
             /\ issued[proc[p].job.token].proposal =
                  [file |-> proc[p].job.file, line |-> proc[p].job.line]
             /\ clock <= issued[proc[p].job.token].at + TTL
             /\ issued[proc[p].job.token].spent = 0
  <2>1. proc[p].job \in ApplyJob /\ Accepted(approvals[Home[p]], proc[p].job, clock)
    BY <1>1, WritesAfterApproval
  <2>2. proc[p].job.token \in Tokens \cup {NoToken} /\ Home[p] \in Nodes
    BY <2>1, HomeAssumption DEF ApplyJob
  <2>3. QED
    BY <1>1, <2>1, <2>2, AcceptedIssued
<1>2. TypeOK /\ GrantsIssued /\ [Next]_vars =>
        [\A p \in Procs :
           proc[p].pc = "approve" /\ proc'[p].pc = "write" =>
             LET job == proc[p].job
                 issue == issued[job.token]
             IN  /\ issue.node = Home[p]
                 /\ issue.proposal = [file |-> job.file, line |-> job.line]
                 /\ clock <= issue.at + TTL
                 /\ issue.spent = 0]_vars
  BY <1>1
<1>3. QED
  BY <1>2, TypeCorrect, PTL DEF Spec, AppliesApproved

-------------------------------------------------------------------------------
(* The base WAF follows the files. *)

(* Every step of a handler or a sync is a step of one node. *)
StepOf(n) ==
    \A m \in Nodes \ {n} :
        /\ file'[m] = file[m] /\ base'[m] = base[m] /\ stale'[m] = stale[m]
        /\ sync'[m] = sync[m] /\ (m \in up' => m \in up)
        /\ \A p \in Procs : Home[p] = m => proc'[p] = proc[p]

Starts(p) ==
    \/ \E f \in Files : GetStart(p, f)
    \/ \E f \in Files, new \in PutTexts, tag \in Tags : PutStart(p, f, new, tag)
    \/ \E proposal \in Proposals, token \in Tokens : Propose(p, proposal, token)
    \/ \E proposal \in Proposals, token \in Tokens \cup {NoToken}, simulate \in BOOLEAN,
          tag \in Tags : ApplyStart(p, proposal, token, simulate, tag)

LEMMA HandlerStepOf ==
  ASSUME TypeOK, NEW p \in Procs, Starts(p) \/ HandlerStep(p)
  PROVE  /\ StepOf(Home[p])
         /\ sync' = sync /\ up' = up
         /\ \A q \in Procs \ {p} : proc'[q] = proc[q]
<1> USE HomeAssumption DEF TypeOK, StepOf, storage, Reply, Goto, Carry, SetBase, Unreloaded,
                           WriteFile, Upsert, UpsertFails
<1> DEFINE Local == /\ StepOf(Home[p])
                    /\ sync' = sync /\ up' = up
                    /\ \A q \in Procs \ {p} : proc'[q] = proc[q]
<1>1. CASE Starts(p)
  <2>1. ASSUME NEW f \in Files, GetStart(p, f) PROVE Local
    BY <2>1 DEF GetStart
  <2>2. ASSUME NEW f \in Files, NEW new \in PutTexts, NEW tag \in Tags, PutStart(p, f, new, tag)
        PROVE  Local
    BY <2>2 DEF PutStart
  <2>3. ASSUME NEW proposal \in Proposals, NEW token \in Tokens, Propose(p, proposal, token)
        PROVE  Local
    BY <2>3 DEF Propose
  <2>4. ASSUME NEW proposal \in Proposals, NEW token \in Tokens \cup {NoToken},
               NEW simulate \in BOOLEAN, NEW tag \in Tags,
               ApplyStart(p, proposal, token, simulate, tag)
        PROVE  Local
    BY <2>4 DEF ApplyStart
  <2> HIDE DEF Local
  <2>5. Local
    BY <1>1, <2>1, <2>2, <2>3, <2>4 DEF Starts
  <2>6. QED
    BY <2>5 DEF Local
<1>2. CASE GetRow(p) \/ GetSeed(p) \/ PutCheck(p)
  BY <1>2 DEF GetRow, GetSeed, PutCheck
<1>3. CASE Validate(p) \/ Approve(p)
  BY <1>3 DEF Validate, Approve
<1>4. CASE Write(p)
  BY <1>4 DEF Write
<1>5. CASE Load(p)
  BY <1>5 DEF Load
<1>6. CASE Swap(p)
  BY <1>6 DEF Swap
<1>7. CASE PutUpsert(p)
  BY <1>7 DEF PutUpsert
<1>8. CASE UndoWrite(p)
  BY <1>8 DEF UndoWrite
<1>9. CASE UndoLoad(p)
  BY <1>9 DEF UndoLoad
<1>10. CASE UndoSwap(p)
  BY <1>10 DEF UndoSwap
<1>11. QED
  BY <1>1, <1>2, <1>3, <1>4, <1>5, <1>6, <1>7, <1>8, <1>9, <1>10 DEF HandlerStep

LEMMA SyncStepOf ==
  ASSUME TypeOK, NEW n \in Nodes, SyncStep(n) \/ Crash(n)
  PROVE  StepOf(n) /\ (SyncStep(n) => proc' = proc)
<1> USE DEF TypeOK, StepOf, storage, SyncTo, SyncEnds, SyncAborts, SyncNext, SetBase, Unreloaded,
            WriteFile, Upsert, UpsertFails
<1>1. CASE SyncTick(n)
  BY <1>1 DEF SyncTick
<1>2. CASE SyncRead(n)
  BY <1>2 DEF SyncRead
<1>3. CASE SyncRow(n)
  BY <1>3 DEF SyncRow
<1>4. CASE SyncWrite(n)
  BY <1>4 DEF SyncWrite
<1>5. CASE SyncSeed(n)
  BY <1>5 DEF SyncSeed
<1>6. CASE SyncLoad(n)
  BY <1>6 DEF SyncLoad
<1>7. CASE SyncSwap(n)
  BY <1>7 DEF SyncSwap
<1>8. CASE InitWAF(n)
  BY <1>8 DEF InitWAF
<1>9. CASE Crash(n) /\ ~SyncStep(n)
  BY <1>9 DEF Crash
<1>10. QED
  BY <1>1, <1>2, <1>3, <1>4, <1>5, <1>6, <1>7, <1>8, <1>9 DEF SyncStep

Follows(n) == n \in up /\ base[n] # file[n] => Reloading(n) \/ stale[n]

LEMMA OthersFollow ==
  ASSUME BaseFollowsFiles, NEW n \in Nodes, StepOf(n), NEW m \in Nodes \ {n}
  PROVE  Follows(m)'
  BY DEF BaseFollowsFiles, StepOf, Follows, Reloading

LEMMA SetBaseFollows ==
  ASSUME TypeOK, NEW n \in Nodes, NEW loaded, SetBase(n, loaded), file' = file
  PROVE  Follows(n)'
  BY DEF TypeOK, SetBase, Follows

LEMMA UnreloadedFollows ==
  ASSUME TypeOK, NEW n \in Nodes, stale'[n] = TRUE
  PROVE  Follows(n)'
  BY DEF Follows

(* A step that changes neither the files nor the base WAF and ends no reload, or     *)
(* records that it skips one.                                                        *)
LEMMA QuietFollows ==
  ASSUME BaseFollowsFiles, NEW n \in Nodes, file' = file, base' = base,
         n \in up' => n \in up,
         stale[n] => stale'[n],
         Reloading(n) => Reloading(n)' \/ stale'[n]
  PROVE  Follows(n)'
  BY DEF BaseFollowsFiles, Follows

ReloadPCs == {"load", "swap", "undo_write", "undo_load", "undo_swap"}

LEMMA HandlerFollows ==
  ASSUME TypeOK, BaseFollowsFiles, NEW p \in Procs, Starts(p) \/ HandlerStep(p)
  PROVE  Follows(Home[p])'
<1> DEFINE n == Home[p]
<1>1. n \in Nodes
  BY HomeAssumption
<1>2. sync' = sync /\ up' = up /\ \A q \in Procs \ {p} : proc'[q] = proc[q]
  BY HandlerStepOf
<1>3. proc'[p].pc \in ReloadPCs => Reloading(n)'
  BY DEF Reloading, ReloadPCs
<1>4. proc[p].pc \notin ReloadPCs => (Reloading(n) => Reloading(n)')
  BY <1>2 DEF Reloading, ReloadPCs
<1>5. CASE \/ Starts(p) \/ GetRow(p) \/ GetSeed(p) \/ PutCheck(p) \/ Validate(p) \/ Approve(p)
           \/ PutUpsert(p)
  <2>1. file' = file /\ base' = base /\ stale' = stale /\ proc[p].pc \notin ReloadPCs
    BY <1>5 DEF Starts, GetStart, PutStart, Propose, ApplyStart, Available, GetRow, GetSeed,
                PutCheck, Validate, Approve, PutUpsert, storage, ReloadPCs, Upsert, UpsertFails
  <2>2. QED
    BY <1>1, <1>2, <1>4, <2>1, QuietFollows
<1>6. CASE Write(p)
  <2>1. CASE proc'[p].pc = "load"
    BY <1>3, <2>1 DEF Follows, ReloadPCs
  <2>2. CASE file' = file
    BY <1>1, <1>2, <1>4, <1>6, <2>2, QuietFollows DEF Write, ReloadPCs
  <2>3. QED
    BY <1>6, <2>1, <2>2 DEF Write, Goto, TypeOK, storage
<1>7. CASE Load(p) \/ UndoLoad(p)
  <2>1. CASE Unreloaded(n)
    BY <1>1, <2>1, UnreloadedFollows DEF Unreloaded, TypeOK
  <2>2. CASE proc'[p].pc \in ReloadPCs
    BY <1>3, <2>2 DEF Follows
  <2>3. QED
    BY <1>7, <2>1, <2>2 DEF Load, UndoLoad, Carry, TypeOK, ReloadPCs
<1>8. CASE Swap(p) \/ UndoSwap(p)
  BY <1>1, <1>8, SetBaseFollows DEF Swap, UndoSwap, storage
<1>9. CASE UndoWrite(p)
  <2>1. proc'[p].pc \in ReloadPCs
    BY <1>9 DEF UndoWrite, Goto, TypeOK, ReloadPCs
  <2>2. QED
    BY <1>3, <2>1 DEF Follows
<1>10. QED
  BY <1>5, <1>6, <1>7, <1>8, <1>9 DEF HandlerStep

SyncReloads(n) ==
    \/ sync[n].pc \in {"load", "swap"}
    \/ sync[n].pc \in {"read", "row", "write", "seed"} /\ sync[n].changed

(* A sync that changed a file goes on to the next one or to the reload. *)
LEMMA NextReloads ==
  ASSUME TypeOK, NEW n \in Nodes, n \in up, NEW changed, changed = TRUE, SyncNext(n, changed)
  PROVE  SyncReloads(n)'
<1>1. \A s : SyncTo(n, s) => sync'[n] = s
  BY DEF SyncTo, TypeOK
<1>2. CASE sync[n].file + 1 \in Files
  <2>1. sync'[n] = [pc |-> "read", file |-> sync[n].file + 1, changed |-> changed]
    BY <1>1, <1>2 DEF SyncNext
  <2>2. QED
    BY <2>1 DEF SyncReloads
<1>3. CASE sync[n].file + 1 \notin Files
  <2>1. sync'[n] = [pc |-> "load"]
    BY <1>1, <1>3 DEF SyncNext
  <2>2. QED
    BY <2>1 DEF SyncReloads
<1>4. QED
  BY <1>2, <1>3

LEMMA SyncFollows ==
  ASSUME TypeOK, BaseFollowsFiles, NEW n \in Nodes, SyncStep(n) \/ Crash(n)
  PROVE  Follows(n)'
<1>1. SyncReloads(n)' => Follows(n)'
  BY DEF SyncReloads, Reloading, Follows
<1>2. n \notin up' => Follows(n)'
  BY DEF Follows
<1>3. ASSUME SyncStep(n), file' = file, base' = base, n \in up' => n \in up,
             stale[n] => stale'[n],
             SyncReloads(n) => SyncReloads(n)' \/ stale'[n]
      PROVE  Follows(n)'
  <2>1. Reloading(n) => Reloading(n)' \/ stale'[n]
    BY <1>3, SyncStepOf DEF SyncReloads, Reloading
  <2>2. QED
    BY <1>3, <2>1, QuietFollows
<1>4. CASE SyncTick(n)
  BY <1>3, <1>4 DEF SyncTick, SyncStep, SyncReloads, storage
<1>5. CASE SyncRead(n)
  <2>1. sync[n].changed \in BOOLEAN
    BY <1>5, SyncFields DEF SyncRead
  <2>2. file' = file /\ base' = base /\ up' = up /\ (stale[n] => stale'[n])
    BY <1>5 DEF SyncRead, SyncAborts, storage, TypeOK
  <2>3. SyncReloads(n) => SyncReloads(n)' \/ stale'[n]
    BY <1>5, <2>1 DEF SyncRead, SyncAborts, SyncReloads, SyncTo, TypeOK
  <2>4. QED
    BY <1>3, <1>5, <2>2, <2>3 DEF SyncStep
<1>6. CASE SyncRow(n) \/ SyncSeed(n)
  <2>1. sync[n].changed \in BOOLEAN /\ sync[n] \in FileSync
    BY <1>6, SyncFields DEF SyncRow, SyncSeed
  <2>2. file' = file /\ base' = base /\ up' = up /\ (stale[n] => stale'[n])
    BY <1>6 DEF SyncRow, SyncSeed, SyncAborts, storage, TypeOK, Upsert, UpsertFails
  <2>3. CASE sync[n].changed
    <3>1. CASE SyncAborts(n, sync[n].changed)
      BY <1>3, <1>6, <2>2, <2>3, <3>1 DEF SyncAborts, TypeOK, SyncStep
    <3>2. CASE SyncNext(n, sync[n].changed)
      BY <1>1, <1>2, <2>1, <2>2, <2>3, <3>2, NextReloads
    <3>3. CASE \E s \in {[sync[n] EXCEPT !.pc = "seed"],
                         [sync[n] EXCEPT !.pc = "write", !.raw = db[sync[n].file]]} : SyncTo(n, s)
      <4>1. PICK s \in {[sync[n] EXCEPT !.pc = "seed"],
                        [sync[n] EXCEPT !.pc = "write", !.raw = db[sync[n].file]]} : SyncTo(n, s)
        BY <3>3
      <4>2. sync'[n] = s
        BY <4>1 DEF SyncTo, TypeOK
      <4>3. s.pc \in {"seed", "write"} /\ s.changed = sync[n].changed
        BY <2>1, <4>1 DEF FileSync
      <4>4. QED
        BY <1>1, <2>3, <4>2, <4>3 DEF SyncReloads
    <3>4. QED
      BY <1>6, <3>1, <3>2, <3>3 DEF SyncRow, SyncSeed
  <2>4. CASE ~sync[n].changed
    <3>1. ~SyncReloads(n)
      BY <1>6, <2>4 DEF SyncRow, SyncSeed, SyncReloads
    <3>2. QED
      BY <1>3, <1>6, <2>2, <3>1 DEF SyncStep
  <2>5. QED
    BY <2>3, <2>4
<1>7. CASE SyncWrite(n)
  <2>1. sync[n].changed \in BOOLEAN
    BY <1>7, SyncFields DEF SyncWrite
  <2>2. CASE SyncNext(n, TRUE)
    <3>1. n \in up => SyncReloads(n)'
      BY <2>2, NextReloads
    <3>2. QED
      BY <1>1, <1>2, <1>7, <3>1 DEF SyncWrite
  <2>3. CASE UNCHANGED storage /\ SyncAborts(n, sync[n].changed)
    <3>1. file' = file /\ base' = base /\ up' = up /\ (stale[n] => stale'[n])
      BY <1>7, <2>3 DEF SyncWrite, SyncAborts, storage, TypeOK
    <3>2. SyncReloads(n) => stale'[n]
      BY <1>7, <2>1, <2>3 DEF SyncWrite, SyncAborts, SyncReloads, TypeOK
    <3>3. QED
      BY <1>3, <1>7, <3>1, <3>2 DEF SyncStep
  <2>4. QED
    BY <1>7, <2>2, <2>3 DEF SyncWrite
<1>8. CASE SyncLoad(n)
  <2>1. CASE Unreloaded(n)
    BY <2>1, UnreloadedFollows DEF Unreloaded, TypeOK
  <2>2. CASE SyncTo(n, [pc |-> "swap", loaded |-> file[n]])
    BY <1>1, <2>2 DEF SyncTo, SyncReloads, TypeOK
  <2>3. QED
    BY <1>8, <2>1, <2>2 DEF SyncLoad
<1>9. CASE SyncSwap(n)
  BY <1>9, SetBaseFollows DEF SyncSwap, storage
<1>10. CASE InitWAF(n)
  <2>1. CASE SetBase(n, file[n])
    BY <1>10, <2>1, SetBaseFollows DEF InitWAF, storage
  <2>2. CASE UNCHANGED <<base, stale, up>>
    BY <1>3, <1>10, <2>2 DEF InitWAF, SyncStep, SyncReloads, storage
  <2>3. QED
    BY <1>10, <2>1, <2>2 DEF InitWAF
<1>11. CASE Crash(n)
  BY <1>2, <1>11 DEF Crash
<1>12. QED
  BY <1>4, <1>5, <1>6, <1>7, <1>8, <1>9, <1>10, <1>11 DEF SyncStep

LEMMA StepFollows ==
  ASSUME TypeOK, TypeOK', BaseFollowsFiles, [Next]_vars
  PROVE  BaseFollowsFiles'
<1>1. ASSUME NEW n \in Nodes, StepOf(n), Follows(n)'
      PROVE  BaseFollowsFiles'
  <2>1. \A m \in Nodes : Follows(m)'
    BY <1>1, OthersFollow
  <2>2. up' \subseteq Nodes => BaseFollowsFiles'
    BY <2>1 DEF Follows, BaseFollowsFiles
  <2>3. up' \subseteq Nodes
    BY DEF TypeOK
  <2>4. QED
    BY <2>2, <2>3
<1>2. CASE UNCHANGED vars
  BY <1>2 DEF vars, BaseFollowsFiles, Reloading
<1>3. CASE Tick
  BY <1>3 DEF Tick, storage, BaseFollowsFiles, Reloading
<1>4. ASSUME NEW p \in Procs, Request(p) \/ HandlerStep(p)
      PROVE  BaseFollowsFiles'
  <2>1. Starts(p) \/ HandlerStep(p)
    BY <1>4 DEF Request, Starts
  <2>2. QED
    BY <1>1, <2>1, HandlerStepOf, HandlerFollows, HomeAssumption
<1>5. ASSUME NEW n \in Nodes, SyncStep(n) \/ Crash(n)
      PROVE  BaseFollowsFiles'
  BY <1>1, <1>5, SyncStepOf, SyncFollows
<1>6. QED
  BY <1>2, <1>3, <1>4, <1>5 DEF Next

(* Whatever handlers, syncs, rollbacks, failures and crashes overlap: a base WAF that *)
(* was not built from the node's present files has a reload to come, or its last      *)
(* reload failed, was overtaken by a write or was skipped by a failing sync.          *)
THEOREM BaseFollows == Spec => []BaseFollowsFiles
<1>1. Init => BaseFollowsFiles
  BY DEF Init, BaseFollowsFiles
<1>2. QED
  BY <1>1, StepFollows, TypeCorrect, PTL DEF Spec

-------------------------------------------------------------------------------
(* The refinement: RuleFiles implements Approvals. *)

LEMMA ApplyingAt ==
  ASSUME NEW p \in Procs
  PROVE  /\ proc[p].pc \notin ApplyPCs => Applying[p] = NoToken
         /\ proc'[p].pc \notin ApplyPCs => Applying'[p] = NoToken
         /\ proc[p].pc \in ApplyPCs /\ proc[p].job.kind # "apply" => Applying[p] = NoToken
         /\ proc'[p].pc \in ApplyPCs /\ proc'[p].job.kind # "apply" => Applying'[p] = NoToken
         /\ proc'[p].pc \in ApplyPCs /\ proc'[p].job.kind = "apply" =>
              Applying'[p] = [file |-> proc'[p].job.file, line |-> proc'[p].job.line]
         /\ proc'[p] = proc[p] => Applying'[p] = Applying[p]
         /\ proc[p].pc \in ApplyPCs /\ proc'[p].pc \in ApplyPCs /\ proc'[p].job = proc[p].job =>
              Applying'[p] = Applying[p]
  BY DEF Applying, ApplyPCs

(* A step of a handler, or a crash, that ends applies and begins none. *)
LEMMA EndImplements ==
  ASSUME issued' = issued, clock' = clock,
         \A p \in Procs : Applying'[p] \in {Applying[p], NoToken}
  PROVE  Promise!Next
<1> DEFINE ps == {p \in Procs : Applying'[p] = NoToken}
<1>1. Applying' = [p \in Procs |-> IF p \in ps THEN NoToken ELSE Applying[p]]
  <2>1. \A p \in Procs : Applying'[p] = IF p \in ps THEN NoToken ELSE Applying[p]
    OBVIOUS
  <2>2. Applying' = [p \in Procs |-> Applying'[p]]
    BY DEF Applying
  <2>3. QED
    BY <2>1, <2>2
<1>2. Grants' = Grants /\ Spent' = Spent
  BY DEF Grants, Spent
<1>3. Promise!End(ps)
  BY <1>1, <1>2 DEF Promise!End
<1>4. QED
  BY <1>3 DEF Promise!Next

LEMMA TickImplements ==
  ASSUME Tick
  PROVE  Promise!Next
<1>1. Grants' = Grants /\ Spent' = Spent /\ Applying' = Applying
  BY DEF Tick, Grants, Spent, Applying
<1>2. QED
  BY <1>1 DEF Tick, Promise!Tick, Promise!Next

LEMMA ProposeImplements ==
  ASSUME TypeOK, NEW p \in Procs, NEW proposal \in Proposals, NEW token \in Tokens,
         Propose(p, proposal, token)
  PROVE  Promise!Next
<1> DEFINE new == [node |-> Home[p], proposal |-> proposal, at |-> clock, spent |-> 0]
<1>1. new \in Issue
  BY HomeAssumption DEF TypeOK, Issue
<1>2. issued' = [issued EXCEPT ![token] = new] /\ issued[token] = NoToken
  BY DEF Propose
<1>3. Grants[token] = NoToken
  BY <1>2 DEF Grants
<1>4. Grants' = [Grants EXCEPT ![token] =
        [node |-> Home[p], proposal |-> proposal, expires |-> clock + TTL]]
  <2>1. issued'[token] = new /\ issued'[token] # NoToken
    BY <1>1, <1>2, TokenAssumption DEF TypeOK
  <2>2. Grants'[token] = [node |-> Home[p], proposal |-> proposal, expires |-> clock + TTL]
    BY <2>1 DEF Grants
  <2>3. \A t \in Tokens \ {token} : issued'[t] = issued[t]
    BY <1>2 DEF TypeOK
  <2>4. QED
    BY <2>2, <2>3 DEF Grants
<1>5. Spent' = Spent
  <2>1. issued'[token].spent = 0
    BY <1>1, <1>2 DEF TypeOK
  <2>2. \A t \in Tokens \ {token} : issued'[t] = issued[t]
    BY <1>2 DEF TypeOK
  <2>3. QED
    BY <1>2, <2>1, <2>2 DEF Spent
<1>6. Applying' = Applying
  <2>1. proc[p].pc \notin ApplyPCs /\ proc'[p].pc \notin ApplyPCs
    BY DEF Propose, Available, Reply, Idle, TypeOK, ApplyPCs
  <2>2. \A q \in Procs \ {p} : proc'[q] = proc[q]
    BY DEF Propose, Reply, TypeOK
  <2>3. \A q \in Procs : Applying'[q] = Applying[q]
    BY <2>1, <2>2, ApplyingAt
  <2>4. QED
    BY <2>3 DEF Applying
<1>7. Promise!Issue(p, token, proposal)
  BY <1>3, <1>4, <1>5, <1>6 DEF Promise!Issue, Propose
<1>8. QED
  BY <1>7 DEF Promise!Next

LEMMA ApproveImplements ==
  ASSUME TypeOK, GrantsIssued, NEW p \in Procs, Approve(p)
  PROVE  Promise!Next
<1> DEFINE job == proc[p].job
<1>1. job \in ApplyJob /\ job.token \in Tokens \cup {NoToken} /\ Home[p] \in Nodes
  BY JobFields, HomeAssumption DEF Approve, JobPCs, ApplyJob
<1>2. /\ \A q \in Procs \ {p} : proc'[q] = proc[q]
      /\ clock' = clock
  BY HandlerStepOf DEF HandlerStep, Approve
<1>3. proc[p].pc \notin ApplyPCs
  BY DEF Approve, ApplyPCs
<1>4. CASE ~Accepted(approvals[Home[p]], job, clock)
  <2>1. issued' = issued /\ proc'[p].pc = "idle"
    BY <1>4 DEF Approve, Reply, Idle, TypeOK
  <2>2. Applying'[p] = NoToken
    BY <2>1, ApplyingAt DEF ApplyPCs
  <2>3. QED
    BY <1>2, <2>1, <2>2, ApplyingAt, EndImplements
<1>5. CASE Accepted(approvals[Home[p]], job, clock)
  <2> DEFINE t == job.token
  <2>1. /\ t \in Tokens /\ issued[t] \in Issue
        /\ issued[t].node = Home[p] /\ issued[t].spent = 0
        /\ issued[t].proposal = [file |-> job.file, line |-> job.line]
        /\ clock <= issued[t].at + TTL
    BY <1>1, <1>5, AcceptedIssued
  <2>2. issued[t] # NoToken
    BY <2>1, TokenAssumption
  <2>3. Grants[t] = [node |-> issued[t].node, proposal |-> issued[t].proposal,
                     expires |-> issued[t].at + TTL]
    BY <2>1, <2>2 DEF Grants
  <2>4. /\ issued' = [issued EXCEPT ![t].spent = @ + 1]
        /\ \A u \in Tokens \ {t} : issued'[u] = issued[u]
    <3>1. issued' = [issued EXCEPT ![t].spent = @ + 1]
      BY <1>5 DEF Approve
    <3>2. QED
      BY <2>1, <3>1 DEF TypeOK
  <2>5. /\ issued'[t] \in Issue /\ issued'[t].spent = 1
        /\ issued'[t].node = issued[t].node /\ issued'[t].at = issued[t].at
        /\ issued'[t].proposal = issued[t].proposal
    <3>1. issued'[t] = [issued[t] EXCEPT !.spent = @ + 1]
      BY <2>1, <2>4 DEF TypeOK
    <3>2. QED
      BY <2>1, <3>1 DEF Issue
  <2>6. Grants' = Grants
    <3>1. issued'[t] # NoToken
      BY <2>5, TokenAssumption
    <3>2. \A u \in Tokens : Grants'[u] = Grants[u]
      BY <2>1, <2>2, <2>4, <2>5, <3>1 DEF Grants
    <3>3. QED
      BY <3>2 DEF Grants
  <2>7. Spent' = Spent \cup {t} /\ t \notin Spent
    <3> HIDE DEF t
    <3>1. issued'[t] # NoToken
      BY <2>5, TokenAssumption
    <3>2. \A u \in Tokens : u \in Spent' <=> u \in Spent \/ u = t
      BY <2>4, <2>5, <3>1 DEF Spent
    <3>3. QED
      BY <2>1, <3>2 DEF Spent
  <2>8. Applying' = [Applying EXCEPT ![p] = Grants[t].proposal]
    <3>1. proc'[p].pc = "write" /\ proc'[p].job = job
      BY <1>5 DEF Approve, Goto, TypeOK
    <3>2. job.kind = "apply"
      BY <1>1 DEF ApplyJob
    <3>3. Applying'[p] = Grants[t].proposal
      BY <2>1, <2>3, <3>1, <3>2, ApplyingAt DEF ApplyPCs
    <3>4. \A q \in Procs \ {p} : Applying'[q] = Applying[q]
      BY <1>2, ApplyingAt
    <3>5. QED
      BY <3>3, <3>4 DEF Applying
  <2>9. Applying[p] = NoToken
    BY <1>3, ApplyingAt
  <2>10. Grants[t] # NoToken
    <3>1. Grants[t] \in Grant
      BY <2>1, <2>3, InputAssumption DEF Issue, Grant
    <3>2. QED
      BY <3>1, TokenAssumption
  <2>11. Promise!Begin(p, t)
    BY <1>2, <2>1, <2>3, <2>6, <2>7, <2>8, <2>9, <2>10 DEF Promise!Begin
  <2>12. QED
    BY <2>1, <2>11 DEF Promise!Next
<1>6. QED
  BY <1>4, <1>5

(* The other steps of a handler begin no apply; those of an apply keep it or end it. *)
LEMMA HandlerImplements ==
  ASSUME TypeOK, NEW p \in Procs, Starts(p) \/ HandlerStep(p), ~Approve(p),
         issued' = issued
  PROVE  Promise!Next
<1>1. \A q \in Procs \ {p} : proc'[q] = proc[q]
  BY HandlerStepOf
<1>2. clock' = clock
  <2> USE DEF tuner
  <2>1. CASE Starts(p)
    BY <2>1 DEF Starts, GetStart, PutStart, Propose, ApplyStart
  <2>2. CASE GetRow(p) \/ GetSeed(p) \/ PutCheck(p) \/ Validate(p) \/ Write(p) \/ Load(p)
    BY <2>2 DEF GetRow, GetSeed, PutCheck, Validate, Write, Load
  <2>3. CASE Swap(p) \/ PutUpsert(p) \/ UndoWrite(p) \/ UndoLoad(p) \/ UndoSwap(p)
    BY <2>3 DEF Swap, PutUpsert, UndoWrite, UndoLoad, UndoSwap
  <2>4. QED
    BY <2>1, <2>2, <2>3 DEF HandlerStep
<1>3. \/ proc'[p].pc \notin ApplyPCs
      \/ proc[p].pc \in ApplyPCs /\ proc'[p].pc \in ApplyPCs /\ proc'[p].job = proc[p].job
      \/ /\ proc'[p].pc \in ApplyPCs /\ proc'[p].job.kind # "apply"
  <2> USE DEF TypeOK, ApplyPCs, Reply, Idle, Goto, Carry
  <2>1. CASE Starts(p)
    <3>1. CASE \E f \in Files : GetStart(p, f)
      BY <3>1 DEF GetStart
    <3>2. CASE \E f \in Files, new \in PutTexts, tag \in Tags : PutStart(p, f, new, tag)
      BY <3>2 DEF PutStart
    <3>3. CASE \E proposal \in Proposals, token \in Tokens : Propose(p, proposal, token)
      BY <3>3 DEF Propose
    <3>4. CASE \E proposal \in Proposals, token \in Tokens \cup {NoToken}, simulate \in BOOLEAN,
                  tag \in Tags : ApplyStart(p, proposal, token, simulate, tag)
      <4>1. \/ \E reply : proc' = [proc EXCEPT ![p] = [pc |-> "idle", reply |-> reply]]
            \/ \E job, cur : proc' = [proc EXCEPT ![p] = [pc |-> "validate", job |-> job, cur |-> cur]]
        BY <3>4, Zenon DEF ApplyStart
      <4>2. QED
        BY <4>1
    <3>5. QED
      BY <2>1, <3>1, <3>2, <3>3, <3>4 DEF Starts
  <2>2. CASE GetRow(p) \/ GetSeed(p) \/ PutCheck(p)
    BY <2>2 DEF GetRow, GetSeed, PutCheck
  <2>3. CASE Validate(p)
    BY <2>3 DEF Validate
  <2>4. CASE Write(p) \/ Load(p) \/ UndoWrite(p) \/ UndoLoad(p) \/ UndoSwap(p)
    BY <2>4 DEF Write, Load, UndoWrite, UndoLoad, UndoSwap
  <2>5. CASE Swap(p) \/ PutUpsert(p)
    <3>1. proc[p].job \in Jobs /\ (proc[p].pc = "upsert" => proc[p].job \in PutJob)
      BY <2>5, JobFields DEF Swap, PutUpsert, JobPCs, Jobs
    <3>2. proc[p].pc = "upsert" => proc[p].job.kind # "apply"
      BY <3>1 DEF PutJob
    <3>3. QED
      BY <2>5, <3>2 DEF Swap, PutUpsert
  <2>6. QED
    BY <2>1, <2>2, <2>3, <2>4, <2>5 DEF HandlerStep
<1>4. Applying'[p] \in {Applying[p], NoToken}
  BY <1>3, ApplyingAt
<1>5. \A q \in Procs : Applying'[q] \in {Applying[q], NoToken}
  BY <1>1, <1>4, ApplyingAt
<1>6. QED
  BY <1>2, <1>5, EndImplements

LEMMA NodeImplements ==
  ASSUME TypeOK, NEW n \in Nodes, SyncStep(n) \/ Crash(n)
  PROVE  Promise!Next
<1>1. issued' = issued /\ clock' = clock
  BY DEF SyncStep, SyncTick, SyncRead, SyncRow, SyncWrite, SyncSeed, SyncLoad, SyncSwap, InitWAF,
         Crash, tuner
<1>2. \A p \in Procs : proc'[p] = proc[p] \/ proc'[p].pc = "idle"
  <2>1. CASE SyncStep(n)
    BY <2>1, SyncStepOf
  <2>2. CASE Crash(n)
    BY <2>2 DEF Crash, Idle
  <2>3. QED
    BY <2>1, <2>2
<1>3. \A p \in Procs : Applying'[p] \in {Applying[p], NoToken}
  BY <1>2, ApplyingAt DEF ApplyPCs
<1>4. QED
  BY <1>1, <1>3, EndImplements

LEMMA StepImplements ==
  TypeOK /\ GrantsIssued /\ [Next]_vars => [Promise!Next]_(Promise!vars)
<1> SUFFICES ASSUME TypeOK, GrantsIssued, [Next]_vars
             PROVE  [Promise!Next]_(Promise!vars)
  OBVIOUS
<1>1. CASE UNCHANGED vars
  BY <1>1 DEF vars, Promise!vars, Grants, Spent, Applying
<1>2. CASE Tick
  BY <1>2, TickImplements
<1>3. ASSUME NEW p \in Procs, Request(p) \/ HandlerStep(p)
      PROVE  Promise!Next
  <2>1. CASE Approve(p)
    BY <2>1, ApproveImplements
  <2>2. CASE \E proposal \in Proposals, token \in Tokens : Propose(p, proposal, token)
    BY <2>2, ProposeImplements
  <2>3. CASE /\ Request(p) \/ HandlerStep(p)
             /\ ~Approve(p)
             /\ ~\E proposal \in Proposals, token \in Tokens : Propose(p, proposal, token)
    <3>1. issued' = issued
      BY <2>3 DEF Request, HandlerStep, GetStart, PutStart, ApplyStart, GetRow, GetSeed, PutCheck,
         Validate, Write, Load, Swap, PutUpsert, UndoWrite, UndoLoad, UndoSwap, tuner
    <3>2. Starts(p) \/ HandlerStep(p)
      BY <2>3 DEF Request, Starts
    <3>3. QED
      BY <2>3, <3>1, <3>2, HandlerImplements
  <2>4. QED
    BY <1>3, <2>1, <2>2, <2>3
<1>4. ASSUME NEW n \in Nodes, SyncStep(n) \/ Crash(n)
      PROVE  Promise!Next
  BY <1>4, NodeImplements
<1>5. QED
  BY <1>1, <1>2, <1>3, <1>4 DEF Next

(* Handlers, token store, clock and crashes implement the promise of Approvals: no     *)
(* apply begins but on an unused grant that its own process gave for that proposal.    *)
THEOREM ApprovalsImplemented == Spec => ImplementsApprovals
<1>1. Init => Promise!Init
  <2> SUFFICES ASSUME Init
               PROVE  Promise!Init
    OBVIOUS
  <2>1. Grants = [t \in Tokens |-> NoToken] /\ Spent = {}
    BY DEF Init, Grants, Spent
  <2>2. Applying = [p \in Procs |-> NoToken]
    BY DEF Init, Applying, ApplyPCs, Idle
  <2>3. QED
    BY <2>1, <2>2 DEF Init, Promise!Init
<1>2. QED
  BY <1>1, StepImplements, TypeCorrect, PTL DEF Spec, ImplementsApprovals, Promise!Spec
===============================================================================
