------------------------------- MODULE RuleFiles -------------------------------
(***************************************************************************)
(* The base WAF rule files: a node compiles all of its files together into   *)
(* one base WAF, an admin replaces one file (PutRules), the false-positive   *)
(* tuner appends a line to one (ApplyFPTuning, with an approval token from   *)
(* ProposeFPTuning), and the storage sync copies the config_blobs rows that  *)
(* the nodes share over the files (SyncRuleFilesStorage).                    *)
(*                                                                           *)
(* Unlike the configurations of ConfigSync, rows are copied unvalidated, one *)
(* sync handles several files and reloads once at its end, and whether a     *)
(* file loads depends on the other files (a rule ID may be used once).       *)
(*                                                                           *)
(* A text is the set of its rule lines; the comment the tuner adds is left   *)
(* out, so an ETag, the hash of a text, is the text itself.  A step is one   *)
(* file operation, one database statement, one build of the WAF (which reads *)
(* all files) or one assignment of it.                                       *)
(***************************************************************************)
EXTENDS Integers, FiniteSets

CONSTANTS
    Nodes,        \* the server processes
    Procs,        \* goroutines that serve admin requests
    Home,         \* Procs -> Nodes
    NFiles,       \* number of files in WAF_RULES_FILE
    Lines,        \* rule lines
    Loadable,     \* the contents of all files from which Coraza builds a WAF
    PutTexts,     \* texts sent by PUT /rules
    Tags,         \* If-Match headers sent
    AnyTag,       \* no If-Match header
    Proposals,    \* proposals [file, line] of the tuner's provider
    Tokens,       \* approval tokens
    NoToken,      \* no approval token sent, and an entry that is not there
    TTL,          \* WAF_FP_TUNER_APPROVAL_TTL_SEC
    Absent,       \* no row in config_blobs
    NoWAF,        \* the base WAF of a process that is starting
    InitialFile,  \* the files found at the first start
    InitialDB,    \* the rows found at the first start
    MaxClock,     \* bound: the last second of the model
    MaxPuts,      \* bound: PUT requests
    MaxApplies,   \* bound: apply requests
    MaxGets,      \* bound: GET requests
    MaxFaults,    \* bound: failed file or database operations
    MaxCrashes    \* bound: process crashes

Files == 1..NFiles
Texts == SUBSET Lines

ASSUME FilesAssumption == NFiles \in Nat \ {0}
ASSUME HomeAssumption == Home \in [Procs -> Nodes]
ASSUME InputAssumption ==
    /\ Loadable \subseteq [Files -> Texts]
    /\ PutTexts \subseteq Texts /\ Tags \subseteq {AnyTag} \cup Texts
    /\ Proposals \subseteq [file : Files, line : Lines]
    /\ \A text \in Texts : AnyTag # text /\ Absent # text
    /\ NoWAF \notin Loadable
    /\ NoToken \notin Tokens /\ TTL \in Nat
ASSUME InitialAssumption ==
    InitialFile \in [Nodes -> [Files -> Texts]] /\ InitialDB \in [Files -> {Absent} \cup Texts]

VARIABLES
    db,         \* file -> its row of config_blobs
    file,       \* node -> file -> text
    base,       \* node -> the contents its base WAF was built from
    approvals,  \* node -> token -> entry of fpApprovalStore
    proc,       \* goroutine -> its progress through a handler
    sync,       \* node -> its progress through startup or SyncRuleFilesStorage
    up,         \* the nodes that serve requests
    clock,
    puts, applies, gets, faults, crashes,  \* counts, for the bounds
    \* History:
    stale,      \* node -> its last reload failed, was overtaken by a write, or was skipped
    tuned,      \* <<node, file, line>>: acknowledged applies not replaced by a PUT since
    issued      \* token -> [node, proposal, at, spent] when it was issued

storage == <<db, file>>
counts == <<puts, applies, gets, faults, crashes>>
tuner == <<approvals, clock, issued>>
vars == <<db, file, base, approvals, proc, sync, up, clock,
          puts, applies, gets, faults, crashes, stale, tuned, issued>>

PutJob == [kind : {"put"}, file : Files, new : PutTexts, tag : Tags]
ApplyJob == [kind : {"apply"}, file : Files, line : Lines, token : Tokens \cup {NoToken},
             simulate : BOOLEAN]
Jobs == PutJob \cup ApplyJob

Replies == {"none", "ok", "read", "error", "conflict", "duplicate", "invalid", "simulated",
            "denied", "proposed"}
PlainPCs == {"validate", "write", "load", "undo_write", "undo_load"}
ProcState ==
    [pc : {"idle"}, reply : Replies]
    \cup [pc : {"get_row", "get_seed"}, file : Files, cur : Texts]
    \cup [pc : {"put_check", "upsert"}, job : PutJob, cur : Texts]
    \cup [pc : {"approve"}, job : ApplyJob, cur : Texts]
    \cup [pc : PlainPCs, job : Jobs, cur : Texts]
    \cup [pc : {"swap", "undo_swap"}, job : Jobs, cur : Texts, loaded : Loadable]

SyncState ==
    [pc : {"idle", "load", "init"}]
    \cup [pc : {"read"}, file : Files, changed : BOOLEAN]
    \cup [pc : {"row", "write", "seed"}, file : Files, changed : BOOLEAN, raw : Texts]
    \cup [pc : {"swap"}, loaded : Loadable]

Entry == [proposal : Proposals, expires : Nat]
Issue == [node : Nodes, proposal : Proposals, at : Nat, spent : Nat]
Grant == [node : Nodes, proposal : Proposals, expires : Nat]

ASSUME TokenAssumption == NoToken \notin Entry /\ NoToken \notin Issue /\ NoToken \notin Grant

-------------------------------------------------------------------------------

StartSync == [pc |-> "read", file |-> 1, changed |-> FALSE]
Idle(reply) == [pc |-> "idle", reply |-> reply]

Init ==
    /\ db = InitialDB
    /\ file = InitialFile
    /\ base = [n \in Nodes |-> NoWAF]
    /\ approvals = [n \in Nodes |-> [t \in Tokens |-> NoToken]]
    /\ proc = [p \in Procs |-> Idle("none")]
    /\ sync = [n \in Nodes |-> StartSync]
    /\ up = {}
    /\ clock = 0
    /\ puts = 0 /\ applies = 0 /\ gets = 0 /\ faults = 0 /\ crashes = 0
    /\ stale = [n \in Nodes |-> FALSE]
    /\ tuned = {}
    /\ issued = [t \in Tokens |-> NoToken]

Fault ==
    /\ faults < MaxFaults
    /\ faults' = faults + 1
    /\ UNCHANGED <<puts, applies, gets, crashes>>

NoFault == UNCHANGED counts

Tick ==
    /\ clock < MaxClock
    /\ clock' = clock + 1
    /\ UNCHANGED <<storage, base, approvals, proc, sync, up, counts, stale, tuned, issued>>

-------------------------------------------------------------------------------
(* File operations, database statements, and the two halves of ReloadBaseWAF.   *)

WriteFile(n, f, text) == file' = [file EXCEPT ![n][f] = text] /\ UNCHANGED db

Upsert(f, text) == db' = [db EXCEPT ![f] = text] /\ UNCHANGED file
UpsertFails(f, text) == db' \in {db, [db EXCEPT ![f] = text]} /\ UNCHANGED file

(* setBaseWAF, with a WAF built from what the files held earlier.               *)
SetBase(n, loaded) ==
    /\ base' = [base EXCEPT ![n] = loaded]
    /\ stale' = [stale EXCEPT ![n] = loaded # file[n]]

(* A bug TypeOK would catch: a build that fails is taken for one that succeeds.  *)
BuildsAnything(n) == TRUE

(* PrepareInitialRuleFiles and buildWAF.                                        *)
Builds(n) == file[n] \in Loadable
BuildFails(n) == (~Builds(n) /\ NoFault) \/ Fault

Unreloaded(n) == stale' = [stale EXCEPT ![n] = TRUE] /\ UNCHANGED base

(* ValidateWithRuleOverride: the node's files, one of them replaced, load.      *)
Validates(n, f, text) == [file[n] EXCEPT ![f] = text] \in Loadable

-------------------------------------------------------------------------------
(* Requests.                                                                    *)

Available(p) == proc[p].pc = "idle" /\ Home[p] \in up
Reply(p, reply) == proc' = [proc EXCEPT ![p] = Idle(reply)]
Goto(p, pc) == proc' = [proc EXCEPT ![p] = [pc |-> pc, job |-> proc[p].job, cur |-> proc[p].cur]]
Carry(p, pc, loaded) ==
    proc' = [proc EXCEPT ![p] = [pc |-> pc, job |-> proc[p].job, cur |-> proc[p].cur,
                                 loaded |-> loaded]]

(* The text a job writes: appendFPTunerRule appends to what the handler read.   *)
NewText(job, cur) == IF job.kind = "put" THEN job.new ELSE cur \cup {job.line}

(* RulesHandler: an absent row is seeded with a non-empty file.                 *)
GetStart(p, f) ==
    /\ Available(p) /\ gets < MaxGets
    /\ gets' = gets + 1
    /\ proc' = [proc EXCEPT ![p] = [pc |-> "get_row", file |-> f, cur |-> file[Home[p]][f]]]
    /\ UNCHANGED <<storage, base, tuner, sync, up, puts, applies, faults, crashes, stale, tuned>>

GetRow(p) ==
    /\ proc[p].pc = "get_row"
    /\ \/ /\ IF db[proc[p].file] = Absent /\ proc[p].cur # {}
               THEN proc' = [proc EXCEPT ![p] =
                      [pc |-> "get_seed", file |-> proc[p].file, cur |-> proc[p].cur]]
               ELSE Reply(p, "read")
          /\ NoFault
       \/ Reply(p, "read") /\ Fault
    /\ UNCHANGED <<storage, base, tuner, sync, up, stale, tuned>>

GetSeed(p) ==
    /\ proc[p].pc = "get_seed"
    /\ \/ Upsert(proc[p].file, proc[p].cur) /\ NoFault
       \/ UpsertFails(proc[p].file, proc[p].cur) /\ Fault
    /\ Reply(p, "read")
    /\ UNCHANGED <<base, tuner, sync, up, stale, tuned>>

(* PutRules reads the file, then the row, which takes its place if there is one. *)
PutStart(p, f, new, tag) ==
    /\ Available(p) /\ puts < MaxPuts
    /\ puts' = puts + 1
    /\ proc' = [proc EXCEPT ![p] =
         [pc |-> "put_check", cur |-> file[Home[p]][f],
          job |-> [kind |-> "put", file |-> f, new |-> new, tag |-> tag]]]
    /\ UNCHANGED <<storage, base, tuner, sync, up, applies, gets, faults, crashes, stale, tuned>>

PutCheck(p) ==
    /\ proc[p].pc = "put_check"
    /\ LET job == proc[p].job
           cur == IF db[job.file] = Absent THEN proc[p].cur ELSE db[job.file]
       IN  \/ /\ job.tag \in {AnyTag, cur}
              /\ proc' = [proc EXCEPT ![p] = [pc |-> "validate", job |-> job, cur |-> cur]]
              /\ NoFault
           \/ job.tag \notin {AnyTag, cur} /\ Reply(p, "conflict") /\ NoFault
           \/ Reply(p, "error") /\ Fault
    /\ UNCHANGED <<storage, base, tuner, sync, up, stale, tuned>>

(* ApplyFPTuning up to the validation: the file is read and checked; the row is   *)
(* not looked at.                                                                *)
ApplyStart(p, proposal, token, simulate, tag) ==
    /\ Available(p) /\ applies < MaxApplies
    /\ applies' = applies + 1
    /\ LET cur == file[Home[p]][proposal.file]
           job == [kind |-> "apply", file |-> proposal.file, line |-> proposal.line,
                   token |-> token, simulate |-> simulate]
       IN  \/ tag \notin {AnyTag, cur} /\ Reply(p, "conflict")
           \/ tag \in {AnyTag, cur} /\ proposal.line \in cur /\ Reply(p, "duplicate")
           \/ /\ tag \in {AnyTag, cur} /\ proposal.line \notin cur
              /\ proc' = [proc EXCEPT ![p] = [pc |-> "validate", job |-> job, cur |-> cur]]
    /\ UNCHANGED <<storage, base, tuner, sync, up, puts, gets, faults, crashes, stale, tuned>>

Validate(p) ==
    /\ proc[p].pc = "validate"
    /\ LET job == proc[p].job
           valid == Validates(Home[p], job.file, NewText(job, proc[p].cur))
       IN  \/ valid /\ job.kind = "put" /\ Goto(p, "write") /\ NoFault
           \/ valid /\ job.kind = "apply" /\ job.simulate /\ Reply(p, "simulated") /\ NoFault
           \/ valid /\ job.kind = "apply" /\ ~job.simulate /\ Goto(p, "approve") /\ NoFault
           \/ ~valid /\ Reply(p, "invalid") /\ NoFault
           \/ Reply(p, "invalid") /\ Fault
    /\ UNCHANGED <<storage, base, tuner, sync, up, stale, tuned>>

(* A bug AppliesApproved would catch: approvals do not expire.                    *)
PrunedNever(entries, now) == entries

(* pruneExpiredFPTunerApprovals *)
Pruned(entries, now) ==
    [t \in Tokens |-> IF entries[t] # NoToken /\ now > entries[t].expires THEN NoToken
                                                                          ELSE entries[t]]

(* ProposeFPTuning: rand.Read draws a token never drawn before.                   *)
Propose(p, proposal, token) ==
    /\ Available(p) /\ issued[token] = NoToken
    /\ approvals' = [approvals EXCEPT ![Home[p]] =
         [Pruned(@, clock) EXCEPT ![token] = [proposal |-> proposal, expires |-> clock + TTL]]]
    /\ issued' = [issued EXCEPT ![token] =
         [node |-> Home[p], proposal |-> proposal, at |-> clock, spent |-> 0]]
    /\ Reply(p, "proposed")
    /\ UNCHANGED <<storage, base, clock, sync, up, counts, stale, tuned>>

(* A bug AppliesApproved would catch: a token stays in the store once accepted.   *)
ConsumedNever(entries, token, now) == Pruned(entries, now)

(* consumeFPTunerApprovalToken: a token is used up even when it does not match.   *)
Consumed(entries, token, now) ==
    [t \in Tokens |-> IF t = token THEN NoToken ELSE Pruned(entries, now)[t]]

Accepted(entries, job, now) ==
    /\ job.token # NoToken
    /\ LET entry == Pruned(entries, now)[job.token]
       IN  entry # NoToken /\ entry.proposal = [file |-> job.file, line |-> job.line]

Approve(p) ==
    /\ proc[p].pc = "approve"
    /\ LET n == Home[p]
           job == proc[p].job
       IN  /\ IF Accepted(approvals[n], job, clock)
                THEN /\ Goto(p, "write")
                     /\ issued' = [issued EXCEPT ![job.token].spent = @ + 1]
                ELSE Reply(p, "denied") /\ UNCHANGED issued
           /\ approvals' = IF job.token = NoToken THEN approvals
                           ELSE [approvals EXCEPT ![n] = Consumed(@, job.token, clock)]
    /\ UNCHANGED <<storage, base, clock, sync, up, counts, stale, tuned>>

(* The write of either handler; a PUT replaces whatever the tuner had added.      *)
Write(p) ==
    /\ proc[p].pc = "write"
    /\ LET job == proc[p].job
       IN  \/ /\ WriteFile(Home[p], job.file, NewText(job, proc[p].cur))
              /\ tuned' = IF job.kind = "put" THEN {x \in tuned : x[2] # job.file} ELSE tuned
              /\ Goto(p, "load") /\ NoFault
           \/ UNCHANGED <<storage, tuned>> /\ Reply(p, "error") /\ Fault
    /\ UNCHANGED <<base, tuner, sync, up, stale>>

Load(p) ==
    /\ proc[p].pc = "load"
    /\ \/ /\ Builds(Home[p])
          /\ Carry(p, "swap", file[Home[p]])
          /\ UNCHANGED <<base, stale>> /\ NoFault
       \/ BuildFails(Home[p]) /\ Goto(p, "undo_write") /\ Unreloaded(Home[p])
    /\ UNCHANGED <<storage, tuner, sync, up, tuned>>

Swap(p) ==
    /\ proc[p].pc = "swap"
    /\ SetBase(Home[p], proc[p].loaded)
    /\ LET job == proc[p].job
       IN  \/ job.kind = "put" /\ Goto(p, "upsert") /\ UNCHANGED tuned
           \/ /\ job.kind = "apply" /\ Reply(p, "ok")
              /\ tuned' = tuned \cup {<<Home[p], job.file, job.line>>}
    /\ UNCHANGED <<storage, tuner, sync, up, counts>>

PutUpsert(p) ==
    /\ proc[p].pc = "upsert"
    /\ LET job == proc[p].job
       IN  \/ Upsert(job.file, job.new) /\ Reply(p, "ok") /\ NoFault
           \/ UpsertFails(job.file, job.new) /\ Goto(p, "undo_write") /\ Fault
    /\ UNCHANGED <<base, tuner, sync, up, stale, tuned>>

(* A bug BaseFollowsFiles would catch: the rollback restores the file only.        *)
UndoWriteOnly(p) ==
    /\ proc[p].pc = "undo_write"
    /\ \/ WriteFile(Home[p], proc[p].job.file, proc[p].cur) /\ NoFault
       \/ UNCHANGED storage /\ Fault
    /\ Reply(p, "error")
    /\ UNCHANGED <<base, tuner, sync, up, stale, tuned>>

(* The rollback, of both handlers, ignores its own errors.                        *)
UndoWrite(p) ==
    /\ proc[p].pc = "undo_write"
    /\ \/ WriteFile(Home[p], proc[p].job.file, proc[p].cur) /\ NoFault
       \/ UNCHANGED storage /\ Fault
    /\ Goto(p, "undo_load")
    /\ UNCHANGED <<base, tuner, sync, up, stale, tuned>>

UndoLoad(p) ==
    /\ proc[p].pc = "undo_load"
    /\ \/ /\ Builds(Home[p])
          /\ Carry(p, "undo_swap", file[Home[p]])
          /\ UNCHANGED <<base, stale>> /\ NoFault
       \/ BuildFails(Home[p]) /\ Reply(p, "error") /\ Unreloaded(Home[p])
    /\ UNCHANGED <<storage, tuner, sync, up, tuned>>

UndoSwap(p) ==
    /\ proc[p].pc = "undo_swap"
    /\ SetBase(Home[p], proc[p].loaded)
    /\ Reply(p, "error")
    /\ UNCHANGED <<storage, tuner, sync, up, counts, tuned>>

-------------------------------------------------------------------------------
(* SyncRuleFilesStorage, at startup and from the loop.                            *)

SyncTo(n, s) == sync' = [sync EXCEPT ![n] = s]

(* The end of a sync: at startup InitWAF follows.                                 *)
SyncEnds(n) == SyncTo(n, [pc |-> IF n \in up THEN "idle" ELSE "init"])

(* An error returns at once, with the files written so far not loaded.            *)
SyncAborts(n, changed) ==
    /\ SyncEnds(n)
    /\ stale' = [stale EXCEPT ![n] = @ \/ changed]

(* On to the next file, or to the reload if a file changed and there is a WAF.     *)
SyncNext(n, changed) ==
    LET f == sync[n].file + 1
    IN  IF f \in Files
          THEN SyncTo(n, [pc |-> "read", file |-> f, changed |-> changed])
          ELSE IF changed /\ n \in up THEN SyncTo(n, [pc |-> "load"]) ELSE SyncEnds(n)

(* A bug FilesFollowRows would catch: the loop ends with its first error.          *)
SyncTickUntilError(n) ==
    /\ sync[n].pc = "idle" /\ faults = 0
    /\ SyncTo(n, StartSync)
    /\ UNCHANGED <<storage, base, tuner, proc, up, counts, stale, tuned>>

(* The ticker of StartStorageSyncLoop fires.                                       *)
SyncTick(n) ==
    /\ sync[n].pc = "idle"
    /\ SyncTo(n, StartSync)
    /\ UNCHANGED <<storage, base, tuner, proc, up, counts, stale, tuned>>

SyncRead(n) ==
    /\ sync[n].pc = "read"
    /\ LET s == sync[n]
       IN  \/ /\ SyncTo(n, [pc |-> "row", file |-> s.file, changed |-> s.changed,
                            raw |-> file[n][s.file]])
              /\ UNCHANGED stale /\ NoFault
           \/ SyncAborts(n, s.changed) /\ Fault
    /\ UNCHANGED <<storage, base, tuner, proc, up, tuned>>

SyncRow(n) ==
    /\ sync[n].pc = "row"
    /\ LET s == sync[n]
           row == db[s.file]
       IN  \/ /\ row # Absent /\ row # s.raw
              /\ SyncTo(n, [s EXCEPT !.pc = "write", !.raw = row])
              /\ UNCHANGED stale /\ NoFault
           \/ /\ row = s.raw \/ (row = Absent /\ s.raw = {})
              /\ SyncNext(n, s.changed)
              /\ UNCHANGED stale /\ NoFault
           \/ /\ row = Absent /\ s.raw # {}
              /\ SyncTo(n, [s EXCEPT !.pc = "seed"])
              /\ UNCHANGED stale /\ NoFault
           \/ SyncAborts(n, s.changed) /\ Fault
    /\ UNCHANGED <<storage, base, tuner, proc, up, tuned>>

SyncWrite(n) ==
    /\ sync[n].pc = "write"
    /\ LET s == sync[n]
       IN  \/ /\ WriteFile(n, s.file, s.raw)
              /\ SyncNext(n, TRUE)
              /\ UNCHANGED stale /\ NoFault
           \/ UNCHANGED storage /\ SyncAborts(n, s.changed) /\ Fault
    /\ UNCHANGED <<base, tuner, proc, up, tuned>>

SyncSeed(n) ==
    /\ sync[n].pc = "seed"
    /\ LET s == sync[n]
       IN  \/ Upsert(s.file, s.raw) /\ SyncNext(n, s.changed) /\ UNCHANGED stale /\ NoFault
           \/ UpsertFails(s.file, s.raw) /\ SyncAborts(n, s.changed) /\ Fault
    /\ UNCHANGED <<base, tuner, proc, up, tuned>>

SyncLoad(n) ==
    /\ sync[n].pc = "load"
    /\ \/ /\ Builds(n)
          /\ SyncTo(n, [pc |-> "swap", loaded |-> file[n]])
          /\ UNCHANGED <<base, stale>> /\ NoFault
       \/ BuildFails(n) /\ SyncEnds(n) /\ Unreloaded(n)
    /\ UNCHANGED <<storage, tuner, proc, up, tuned>>

SyncSwap(n) ==
    /\ sync[n].pc = "swap"
    /\ SetBase(n, sync[n].loaded)
    /\ SyncEnds(n)
    /\ UNCHANGED <<storage, tuner, proc, up, counts, tuned>>

(* InitWAF; when the files do not load, log.Fatalf, and compose starts the process *)
(* again ("restart: unless-stopped").                                              *)
InitWAF(n) ==
    /\ sync[n].pc = "init"
    /\ \/ /\ Builds(n)
          /\ SetBase(n, file[n])
          /\ up' = up \cup {n}
          /\ SyncTo(n, [pc |-> "idle"]) /\ NoFault
       \/ BuildFails(n) /\ SyncTo(n, StartSync) /\ UNCHANGED <<base, stale, up>>
    /\ UNCHANGED <<storage, tuner, proc, tuned>>

(* A process dies: its goroutines, base WAF and approvals are gone.                *)
Crash(n) ==
    /\ n \in up /\ crashes < MaxCrashes
    /\ crashes' = crashes + 1
    /\ proc' = [p \in Procs |-> IF Home[p] = n THEN Idle("none") ELSE proc[p]]
    /\ sync' = [sync EXCEPT ![n] = StartSync]
    /\ up' = up \ {n}
    /\ base' = [base EXCEPT ![n] = NoWAF]
    /\ approvals' = [approvals EXCEPT ![n] = [t \in Tokens |-> NoToken]]
    /\ stale' = [stale EXCEPT ![n] = FALSE]
    /\ UNCHANGED <<storage, clock, issued, puts, applies, gets, faults, tuned>>

-------------------------------------------------------------------------------

HandlerStep(p) ==
    \/ GetRow(p) \/ GetSeed(p) \/ PutCheck(p) \/ Validate(p) \/ Approve(p) \/ Write(p)
    \/ Load(p) \/ Swap(p) \/ PutUpsert(p) \/ UndoWrite(p) \/ UndoLoad(p) \/ UndoSwap(p)

SyncStep(n) ==
    \/ SyncTick(n) \/ SyncRead(n) \/ SyncRow(n) \/ SyncWrite(n) \/ SyncSeed(n)
    \/ SyncLoad(n) \/ SyncSwap(n) \/ InitWAF(n)

Request(p) ==
    \/ \E f \in Files : GetStart(p, f)
    \/ \E f \in Files, new \in PutTexts, tag \in Tags : PutStart(p, f, new, tag)
    \/ \E proposal \in Proposals, token \in Tokens : Propose(p, proposal, token)
    \/ \E proposal \in Proposals, token \in Tokens \cup {NoToken}, simulate \in BOOLEAN,
          tag \in Tags : ApplyStart(p, proposal, token, simulate, tag)

Next ==
    \/ Tick
    \/ \E p \in Procs : Request(p) \/ HandlerStep(p)
    \/ \E n \in Nodes : SyncStep(n) \/ Crash(n)

Spec == Init /\ [][Next]_vars

(* Started goroutines run on, the sync ticker keeps firing and compose restarts a  *)
(* process that exited; clients need not send requests and nothing has to fail.    *)
FairSpec ==
    /\ Spec
    /\ \A p \in Procs : WF_vars(HandlerStep(p))
    /\ \A n \in Nodes : WF_vars(SyncStep(n))

-------------------------------------------------------------------------------
(* Type invariant; a base WAF was always built from files that load.               *)
TypeOK ==
    /\ db \in [Files -> {Absent} \cup Texts]
    /\ file \in [Nodes -> [Files -> Texts]]
    /\ base \in [Nodes -> Loadable \cup {NoWAF}]
    /\ approvals \in [Nodes -> [Tokens -> Entry \cup {NoToken}]]
    /\ proc \in [Procs -> ProcState]
    /\ sync \in [Nodes -> SyncState]
    /\ up \in SUBSET Nodes
    /\ clock \in Nat
    /\ puts \in Nat /\ applies \in Nat /\ gets \in Nat /\ faults \in Nat /\ crashes \in Nat
    /\ stale \in [Nodes -> BOOLEAN]
    /\ tuned \in SUBSET (Nodes \X Files \X Lines)
    /\ issued \in [Tokens -> Issue \cup {NoToken}]

Reloading(n) ==
    \/ sync[n].pc \in {"load", "swap"}
    \/ sync[n].pc \in {"read", "row", "write", "seed"} /\ sync[n].changed
    \/ \E p \in Procs :
         Home[p] = n /\ proc[p].pc \in {"load", "swap", "undo_write", "undo_load", "undo_swap"}

(* PUTs, applies, rollbacks and syncs keep the base WAF and the files together: on  *)
(* a node that serves requests they differ only while a reload is to come, or when   *)
(* the last reload failed, was overtaken by a write, or was skipped by a sync error. *)
BaseFollowsFiles ==
    \A n \in up : base[n] # file[n] => Reloading(n) \/ stale[n]

(* "approval token required for real apply" (README): an apply gets as far as its    *)
(* write only with a token that this process issued for this very proposal at most   *)
(* TTL seconds ago and that no other apply has used, whatever is retried, overlaps   *)
(* or restarts.                                                                      *)
AppliesApproved ==
    [][\A p \in Procs :
         proc[p].pc = "approve" /\ proc'[p].pc = "write" =>
           LET job == proc[p].job
               issue == issued[job.token]
           IN  /\ issue.node = Home[p]
               /\ issue.proposal = [file |-> job.file, line |-> job.line]
               /\ clock <= issue.at + TTL
               /\ issue.spent = 0]_vars

(* Handlers, token store, crashes and clock together keep the promise of Approvals;   *)
(* an apply is under way from its acceptance to its reply.                            *)
Grants ==
    [t \in Tokens |->
       IF issued[t] = NoToken THEN NoToken
       ELSE [node |-> issued[t].node, proposal |-> issued[t].proposal,
             expires |-> issued[t].at + TTL]]

Spent == {t \in Tokens : issued[t] # NoToken /\ issued[t].spent > 0}

ApplyPCs == {"write", "load", "swap", "undo_write", "undo_load", "undo_swap"}

Applying ==
    [p \in Procs |->
       IF proc[p].pc \in ApplyPCs /\ proc[p].job.kind = "apply"
         THEN [file |-> proc[p].job.file, line |-> proc[p].job.line] ELSE NoToken]

Promise == INSTANCE Approvals WITH grants <- Grants, spent <- Spent, applying <- Applying
ImplementsApprovals == Promise!Spec

(* "each node periodically reconciles runtime files from config_blobs" (README):     *)
(* once requests and failures are over, every node's rule files are the rows.        *)
FilesFollowRows ==
    <>[](\A f \in Files : db[f] # Absent => \A n \in Nodes : file[n][f] = db[f])

(* "Before save, server-side syntax validation is performed. ... If reload fails,     *)
(* automatic rollback is applied." (README): when no request and no sync is under     *)
(* way on a node, its rule files load; otherwise its next restart is fatal.          *)
Quiet(n) ==
    /\ n \in up /\ sync[n].pc = "idle"
    /\ \A p \in Procs : Home[p] = n => proc[p].pc = "idle"

DiskLoads == \A n \in Nodes : Quiet(n) => file[n] \in Loadable

(* A line that the tuner reported applied and "hot_reloaded"                          *)
(* (docs/operations/fp-tuner-api.md) stays in its file until a PUT replaces the file. *)
AppliedStays == \A x \in tuned : x[3] \in file[x[1]][x[2]]
===============================================================================
