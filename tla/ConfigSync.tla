------------------------------ MODULE ConfigSync ------------------------------
(***************************************************************************)
(* One admin-editable configuration (country block, rate limit, bot         *)
(* defense or semantic rules: the four share this protocol) kept in three   *)
(* places: the config_blobs row of the database shared by the nodes, the    *)
(* file of each node, and the runtime each node has built from its file.    *)
(*                                                                          *)
(* The actors are the admin requests (PUT and GET handlers, one goroutine   *)
(* each) and, on each node, the storage sync: once at startup, then from    *)
(* the periodic loop.  No lock is held across a handler or a sync, so a     *)
(* step below is one file operation, one database statement, or one         *)
(* assignment of the runtime.                                               *)
(*                                                                          *)
(* A configuration text is a member of Raw; the text Bad does not validate. *)
(* An ETag is the hash of a text, hence the text itself.                    *)
(***************************************************************************)
EXTENDS Integers, FiniteSets

CONSTANTS
    Nodes,        \* the server processes
    Procs,        \* goroutines that serve admin requests
    Home,         \* Procs -> Nodes: the node a goroutine belongs to
    Valid,        \* texts that validate
    Bad,          \* a text that does not
    EmptyRaw,     \* the empty text, which is never used to seed the database; it
                  \* validates as a country-block file, not as one of the others
    Absent,       \* no row in config_blobs
    NoRuntime,    \* nothing loaded yet
    AnyTag,       \* a PUT without If-Match
    InitialFile,  \* Nodes -> Raw: the files found at the first start
    InitialDB,    \* the row found at the first start, or Absent
    MaxPuts,      \* bound: PUT requests
    MaxGets,      \* bound: GET requests
    MaxFaults,    \* bound: failed file or database operations
    MaxCrashes    \* bound: process crashes

Raw == Valid \cup {Bad, EmptyRaw}

ASSUME TextAssumption ==
    Bad \notin Valid /\ Bad # EmptyRaw /\ NoRuntime \notin Raw /\ Absent \notin Raw
ASSUME HomeAssumption == Home \in [Procs -> Nodes]
ASSUME InitialAssumption == InitialFile \in [Nodes -> Raw] /\ InitialDB \in Raw \cup {Absent}

VARIABLES
    db,       \* the row of config_blobs
    file,     \* node -> text of its configuration file
    runtime,  \* node -> text its runtime was built from
    proc,     \* goroutine -> its progress through a handler
    sync,     \* node -> its progress through a storage sync
    up,       \* the nodes that accept admin requests
    pathSet,  \* the nodes whose start got as far as storing the file's path
    storeOpen,  \* the nodes whose start opened the database
    puts, gets, faults, crashes,  \* counts, for the bounds
    \* History: the node's runtime was last assigned a text that its file no longer
    \* held, or its last reload failed.
    missed

storage == <<db, file>>
started == <<pathSet, storeOpen>>
process == <<up, pathSet, storeOpen>>
counts == <<puts, gets, faults, crashes>>
vars == <<db, file, runtime, proc, sync, up, pathSet, storeOpen, puts, gets, faults, crashes,
          missed>>

Idle(reply) == [pc |-> "idle", reply |-> reply]
IdleSync == [pc |-> "idle"]
PutPCs == {"put_write", "put_load", "put_upsert", "undo_write", "undo_load"}

ProcState ==
    [pc : {"idle"}, reply : {"none", "ok", "conflict", "error", "read"}]
    \cup [pc : {"put_check"} \cup PutPCs, new : Valid, ifMatch : Raw \cup {AnyTag}, cur : Raw]
    \cup [pc : {"put_swap", "undo_swap"}, new : Valid, ifMatch : Raw \cup {AnyTag},
          cur : Raw, loaded : Valid]
    \cup [pc : {"get_row", "get_seed"}, raw : Raw]

SyncState ==
    [pc : {"boot", "init", "idle", "read", "load"}]
    \cup [pc : {"row", "seed", "write"}, raw : Raw]
    \cup [pc : {"swap"}, loaded : Valid]

-------------------------------------------------------------------------------

(* The first start: every process boots against the files and the row it finds. *)
Init ==
    /\ db = InitialDB
    /\ file = InitialFile
    /\ runtime = [n \in Nodes |-> NoRuntime]
    /\ proc = [p \in Procs |-> Idle("none")]
    /\ sync = [n \in Nodes |-> [pc |-> "boot"]]
    /\ up = {} /\ pathSet = {} /\ storeOpen = {}
    /\ puts = 0 /\ gets = 0 /\ faults = 0 /\ crashes = 0
    /\ missed = [n \in Nodes |-> FALSE]

(* A file or database operation fails.                                         *)
Fault ==
    /\ faults < MaxFaults
    /\ faults' = faults + 1
    /\ UNCHANGED <<puts, gets, crashes>>

NoFault == UNCHANGED counts

(* A database operation fails; without a store there is none.                    *)
StoreFault(n) == n \in storeOpen /\ Fault

-------------------------------------------------------------------------------
(* The file operations and the database statements.                            *)

(* os.ReadFile with its error ignored: a failure reads as an empty file, and so   *)
(* does the empty path of a node whose start did not get as far as setting it.     *)
ReadIgnoringError(n, raw) ==
    /\ \/ raw = (IF n \in pathSet THEN file[n] ELSE EmptyRaw) /\ UNCHANGED faults
       \/ raw = EmptyRaw /\ faults < MaxFaults /\ faults' = faults + 1
    /\ UNCHANGED crashes

WriteFile(n, raw) == file' = [file EXCEPT ![n] = raw] /\ UNCHANGED db

(* The rename onto an empty path fails always.                                    *)
WriteFails(n) == UNCHANGED storage /\ (Fault \/ (n \notin pathSet /\ NoFault))

(* UpsertConfigBlob on a connection that works; when it fails, the statement     *)
(* may nevertheless have been committed.                                         *)
Upsert(raw) == db' = raw /\ UNCHANGED file
UpsertFails(raw) == db' \in {db, raw} /\ UNCHANGED file

(* The second half of a reload: the runtime built from what was read.            *)
Swap(n, loaded) ==
    /\ runtime' = [runtime EXCEPT ![n] = loaded]
    /\ missed' = [missed EXCEPT ![n] = loaded # file[n]]

(* The first half, os.ReadFile and the build, fails on a broken file.            *)
LoadFails(n) == (file[n] \notin Valid /\ NoFault) \/ Fault

(* A reload that does not get as far.                                            *)
ReloadMissed(n) ==
    /\ missed' = [missed EXCEPT ![n] = TRUE]
    /\ UNCHANGED runtime

-------------------------------------------------------------------------------
(* PUT: PutRateLimitRules and its three siblings.                               *)

(* The handler of p ends, or goes on at another line.                            *)
Reply(p, reply) == proc' = [proc EXCEPT ![p] = Idle(reply)]
Goto(p, pc) ==
    proc' = [proc EXCEPT ![p] = [pc |-> pc, new |-> proc[p].new,
                                 ifMatch |-> proc[p].ifMatch, cur |-> proc[p].cur]]
Carry(p, pc, loaded) ==
    proc' = [proc EXCEPT ![p] = [pc |-> pc, new |-> proc[p].new, ifMatch |-> proc[p].ifMatch,
                                 cur |-> proc[p].cur, loaded |-> loaded]]

(* os.ReadFile; the body is bound and validated later but does not change, and   *)
(* a body that does not validate ends in a 422 that changes nothing.             *)
PutStart(p, new, tag) ==
    /\ proc[p].pc = "idle"
    /\ Home[p] \in up
    /\ puts < MaxPuts
    /\ puts' = puts + 1
    /\ \E raw \in Raw :
         /\ ReadIgnoringError(Home[p], raw)
         /\ proc' = [proc EXCEPT ![p] = [pc |-> "put_check", new |-> new, ifMatch |-> tag,
                                         cur |-> raw]]
    /\ UNCHANGED <<storage, runtime, sync, process, gets, missed>>

(* A bug the type invariant would catch: the row is used unvalidated, or absent.  *)
CurrentUnvalidated(n, fileRaw) == db

(* GetConfigBlob and the If-Match test: a row that validates takes the place of   *)
(* the file, both for the test and for a later rollback.  A node without a store  *)
(* knows only its file.                                                          *)
Current(n, fileRaw) == IF n \in storeOpen /\ db \in Valid THEN db ELSE fileRaw
Matches(tag, cur) == tag = AnyTag \/ tag = cur

PutCheck(p) ==
    /\ proc[p].pc = "put_check"
    /\ \/ /\ LET cur == Current(Home[p], proc[p].cur)
             IN  IF Matches(proc[p].ifMatch, cur)
                   THEN proc' = [proc EXCEPT ![p] = [pc |-> "put_write", new |-> proc[p].new,
                                                     ifMatch |-> proc[p].ifMatch, cur |-> cur]]
                   ELSE Reply(p, "conflict")
          /\ NoFault
       \/ Reply(p, "error") /\ StoreFault(Home[p])
    /\ UNCHANGED <<storage, runtime, sync, process, missed>>

PutWrite(p) ==
    /\ proc[p].pc = "put_write"
    /\ \/ /\ Home[p] \in pathSet
          /\ WriteFile(Home[p], proc[p].new) /\ Goto(p, "put_load") /\ NoFault
       \/ WriteFails(Home[p]) /\ Reply(p, "error")
    /\ UNCHANGED <<runtime, sync, process, missed>>

(* The reload reads the file again: whatever is there now.                       *)
PutLoad(p) ==
    /\ proc[p].pc = "put_load"
    /\ \/ /\ file[Home[p]] \in Valid
          /\ Carry(p, "put_swap", file[Home[p]])
          /\ NoFault
          /\ UNCHANGED <<runtime, missed>>
       \/ /\ LoadFails(Home[p])
          /\ Goto(p, "undo_write")
          /\ ReloadMissed(Home[p])
    /\ UNCHANGED <<storage, sync, process>>

PutSwap(p) ==
    /\ proc[p].pc = "put_swap"
    /\ Swap(Home[p], proc[p].loaded)
    /\ IF Home[p] \in storeOpen THEN Goto(p, "put_upsert") ELSE Reply(p, "ok")
    /\ UNCHANGED <<storage, sync, process, counts>>

PutUpsert(p) ==
    /\ proc[p].pc = "put_upsert"
    /\ \/ Upsert(proc[p].new) /\ Reply(p, "ok") /\ NoFault
       \/ UpsertFails(proc[p].new) /\ Goto(p, "undo_write") /\ Fault
    /\ UNCHANGED <<runtime, sync, process, missed>>

(* A bug RuntimeFollowsFile would catch: the rollback restores the file only.     *)
UndoWriteOnly(p) ==
    /\ proc[p].pc = "undo_write"
    /\ \/ WriteFile(Home[p], proc[p].cur) /\ NoFault
       \/ UNCHANGED storage /\ Fault
    /\ Reply(p, "error")
    /\ UNCHANGED <<runtime, sync, process, missed>>

(* The rollback ignores the errors of its own write and reload.                  *)
UndoWrite(p) ==
    /\ proc[p].pc = "undo_write"
    /\ \/ WriteFile(Home[p], proc[p].cur) /\ NoFault
       \/ UNCHANGED storage /\ Fault
    /\ Goto(p, "undo_load")
    /\ UNCHANGED <<runtime, sync, process, missed>>

UndoLoad(p) ==
    /\ proc[p].pc = "undo_load"
    /\ \/ /\ file[Home[p]] \in Valid
          /\ Carry(p, "undo_swap", file[Home[p]])
          /\ NoFault
          /\ UNCHANGED <<runtime, missed>>
       \/ /\ LoadFails(Home[p])
          /\ Reply(p, "error")
          /\ ReloadMissed(Home[p])
    /\ UNCHANGED <<storage, sync, process>>

UndoSwap(p) ==
    /\ proc[p].pc = "undo_swap"
    /\ Swap(Home[p], proc[p].loaded)
    /\ Reply(p, "error")
    /\ UNCHANGED <<storage, sync, process, counts>>

-------------------------------------------------------------------------------
(* GET: GetRateLimitRules and its three siblings, which seed an absent row with   *)
(* the file they read, without validating it.                                    *)

GetStart(p) ==
    /\ proc[p].pc = "idle"
    /\ Home[p] \in up
    /\ gets < MaxGets
    /\ gets' = gets + 1
    /\ \E raw \in Raw :
         /\ ReadIgnoringError(Home[p], raw)
         /\ proc' = [proc EXCEPT ![p] = [pc |-> "get_row", raw |-> raw]]
    /\ UNCHANGED <<storage, runtime, sync, process, puts, missed>>

GetRow(p) ==
    /\ proc[p].pc = "get_row"
    /\ \/ /\ IF Home[p] \in storeOpen /\ db = Absent /\ proc[p].raw # EmptyRaw
               THEN proc' = [proc EXCEPT ![p] = [pc |-> "get_seed", raw |-> proc[p].raw]]
               ELSE Reply(p, "read")
          /\ NoFault
       \/ Reply(p, "read") /\ StoreFault(Home[p])
    /\ UNCHANGED <<storage, runtime, sync, process, missed>>

GetSeed(p) ==
    /\ proc[p].pc = "get_seed"
    /\ \/ Upsert(proc[p].raw) /\ NoFault
       \/ UpsertFails(proc[p].raw) /\ Fault
    /\ Reply(p, "read")
    /\ UNCHANGED <<runtime, sync, process, missed>>

-------------------------------------------------------------------------------
(* Startup and storage sync: syncConfigBlobFilePath, run once by main after the    *)
(* configuration was initialised, then by the loop.                               *)

SyncTo(n, s) == sync' = [sync EXCEPT ![n] = s] /\ UNCHANGED up
SyncEnds(n) == sync' = [sync EXCEPT ![n] = IdleSync] /\ up' = up \cup {n}

(* InitLogsStatsStoreWithBackend: main goes on without a store when it does not     *)
(* open, and never tries again.                                                    *)
OpenStore(n) ==
    /\ sync[n].pc = "boot"
    /\ SyncTo(n, [pc |-> "init"])
    /\ \/ storeOpen' = storeOpen \cup {n} /\ NoFault
       \/ UNCHANGED storeOpen /\ Fault
    /\ UNCHANGED <<storage, runtime, proc, pathSet, missed>>

(* syncConfigBlobFilePath gets past its two early returns: the process has a store  *)
(* and a path.                                                                     *)
Syncing == storeOpen \cap pathSet

(* InitRateLimit: when ensureRateLimitFile fails, the path stays empty for the life *)
(* of the process; otherwise the file is loaded.  Unless all of it succeeds, main   *)
(* skips the startup sync.  Requests are served from then on.                      *)
Boot(n) ==
    /\ sync[n].pc = "init"
    /\ \/ UNCHANGED pathSet /\ ReloadMissed(n) /\ SyncEnds(n) /\ Fault
       \/ /\ pathSet' = pathSet \cup {n}
          /\ \/ /\ file[n] \in Valid /\ Swap(n, file[n]) /\ NoFault
                /\ IF n \in storeOpen THEN SyncTo(n, [pc |-> "read"]) ELSE SyncEnds(n)
             \/ LoadFails(n) /\ ReloadMissed(n) /\ SyncEnds(n)
    /\ UNCHANGED <<storage, proc, storeOpen>>

(* A bug FilesConverge would catch: the loop ends with its first error.            *)
SyncTickUntilError(n) ==
    /\ sync[n].pc = "idle"
    /\ n \in Syncing
    /\ faults = 0
    /\ SyncTo(n, [pc |-> "read"])
    /\ UNCHANGED <<storage, runtime, proc, started, counts, missed>>

(* The ticker of StartStorageSyncLoop fires; the tick of a node that is not in      *)
(* Syncing changes nothing.                                                        *)
SyncTick(n) ==
    /\ sync[n].pc = "idle"
    /\ n \in Syncing
    /\ SyncTo(n, [pc |-> "read"])
    /\ UNCHANGED <<storage, runtime, proc, started, counts, missed>>

SyncRead(n) ==
    /\ sync[n].pc = "read"
    /\ \/ SyncTo(n, [pc |-> "row", raw |-> file[n]]) /\ NoFault
       \/ SyncEnds(n) /\ Fault
    /\ UNCHANGED <<storage, runtime, proc, started, missed>>

(* A bug BadStaysLocal would catch: the sync trusts the row.                       *)
AcceptAnyRow(raw) == raw \in Raw

(* ValidateRaw: only a row that validates is written to the file.                  *)
ValidateRaw(raw) == raw \in Valid

SyncRow(n) ==
    /\ sync[n].pc = "row"
    /\ LET fileRaw == sync[n].raw
           found == db # Absent
       IN  \/ /\ found /\ ValidateRaw(db) /\ fileRaw # db
              /\ SyncTo(n, [pc |-> "write", raw |-> db]) /\ NoFault
           \/ /\ found /\ (~ValidateRaw(db) \/ fileRaw = db)
              /\ SyncEnds(n) /\ NoFault
           \/ /\ ~found /\ fileRaw # EmptyRaw
              /\ SyncTo(n, [pc |-> "seed", raw |-> fileRaw]) /\ NoFault
           \/ /\ ~found /\ fileRaw = EmptyRaw
              /\ SyncEnds(n) /\ NoFault
           \/ SyncEnds(n) /\ Fault
    /\ UNCHANGED <<storage, runtime, proc, started, missed>>

SyncWrite(n) ==
    /\ sync[n].pc = "write"
    /\ \/ WriteFile(n, sync[n].raw) /\ SyncTo(n, [pc |-> "load"]) /\ NoFault
       \/ UNCHANGED storage /\ SyncEnds(n) /\ Fault
    /\ UNCHANGED <<runtime, proc, started, missed>>

SyncLoad(n) ==
    /\ sync[n].pc = "load"
    /\ \/ /\ file[n] \in Valid
          /\ SyncTo(n, [pc |-> "swap", loaded |-> file[n]])
          /\ NoFault
          /\ UNCHANGED <<runtime, missed>>
       \/ /\ LoadFails(n)
          /\ SyncEnds(n)
          /\ ReloadMissed(n)
    /\ UNCHANGED <<storage, proc, started>>

SyncSwap(n) ==
    /\ sync[n].pc = "swap"
    /\ Swap(n, sync[n].loaded)
    /\ SyncEnds(n)
    /\ UNCHANGED <<storage, proc, started, counts>>

SyncSeed(n) ==
    /\ sync[n].pc = "seed"
    /\ \/ Upsert(sync[n].raw) /\ NoFault
       \/ UpsertFails(sync[n].raw) /\ Fault
    /\ SyncEnds(n)
    /\ UNCHANGED <<runtime, proc, started, missed>>

(* The process of n dies and is started again: its goroutines and its runtime are  *)
(* gone, its file and the database stay.                                           *)
Crash(n) ==
    /\ crashes < MaxCrashes
    /\ crashes' = crashes + 1
    /\ proc' = [p \in Procs |-> IF Home[p] = n THEN Idle("none") ELSE proc[p]]
    /\ sync' = [sync EXCEPT ![n] = [pc |-> "boot"]]
    /\ up' = up \ {n} /\ pathSet' = pathSet \ {n} /\ storeOpen' = storeOpen \ {n}
    /\ runtime' = [runtime EXCEPT ![n] = NoRuntime]
    /\ missed' = [missed EXCEPT ![n] = FALSE]
    /\ UNCHANGED <<storage, puts, gets, faults>>

-------------------------------------------------------------------------------

PutStep(p) ==
    \/ PutCheck(p) \/ PutWrite(p) \/ PutLoad(p) \/ PutSwap(p) \/ PutUpsert(p)
    \/ UndoWrite(p) \/ UndoLoad(p) \/ UndoSwap(p)

GetStep(p) == GetRow(p) \/ GetSeed(p)

SyncStep(n) ==
    \/ OpenStore(n) \/ Boot(n) \/ SyncTick(n) \/ SyncRead(n) \/ SyncRow(n) \/ SyncWrite(n)
    \/ SyncLoad(n) \/ SyncSwap(n) \/ SyncSeed(n)

Next ==
    \/ \E p \in Procs :
         \/ \E new \in Valid, tag \in Raw \cup {AnyTag} : PutStart(p, new, tag)
         \/ GetStart(p)
         \/ PutStep(p)
         \/ GetStep(p)
    \/ \E n \in Nodes : SyncStep(n) \/ Crash(n)

Spec == Init /\ [][Next]_vars

(* Goroutines keep running once started and the ticker keeps firing; clients need   *)
(* not send requests and nothing has to fail.                                       *)
FairSpec ==
    /\ Spec
    /\ \A p \in Procs : WF_vars(PutStep(p) \/ GetStep(p))
    /\ \A n \in Nodes : WF_vars(SyncStep(n))

-------------------------------------------------------------------------------
(* Type invariant. *)
TypeOK ==
    /\ db \in Raw \cup {Absent}
    /\ file \in [Nodes -> Raw]
    /\ runtime \in [Nodes -> Valid \cup {NoRuntime}]
    /\ proc \in [Procs -> ProcState]
    /\ sync \in [Nodes -> SyncState]
    /\ up \in SUBSET Nodes /\ pathSet \in SUBSET Nodes /\ storeOpen \in SUBSET Nodes
    /\ puts \in Nat /\ gets \in Nat /\ faults \in Nat /\ crashes \in Nat
    /\ missed \in [Nodes -> BOOLEAN]

(* A goroutine of n will still assign the runtime, or end its reload in an error.   *)
Reloading(n) ==
    \/ sync[n].pc \in {"boot", "init", "load", "swap"}
    \/ \E p \in Procs : Home[p] = n /\
         proc[p].pc \in {"put_load", "put_swap", "undo_write", "undo_load", "undo_swap"}

(* Handlers, rollbacks and syncs never change a file and leave it at that: when a    *)
(* node's runtime differs from its file, a reload is still to come, or the last      *)
(* reload failed or was overtaken by a newer write.                                  *)
RuntimeFollowsFile ==
    \A n \in Nodes : runtime[n] # file[n] => Reloading(n) \/ missed[n]

(* A file that does not validate stays where the operator put it: it may seed the    *)
(* database, but it reaches no other node's file.                                    *)
BadStaysLocal ==
    \A n \in Nodes : file[n] = Bad => InitialFile[n] = Bad

(* "each node periodically reconciles runtime files from config_blobs" (README):      *)
(* once requests, faults and crashes are over, the file of every node that syncs at  *)
(* all is the row, provided the row validates.  A node whose last start failed to     *)
(* open the database or to ensure the file syncs no more until it is restarted.      *)
FilesConverge == <>[](db \in Valid => \A n \in Syncing : file[n] = db)

(* The same promise for what is enforced: "triggers reload only when content          *)
(* changed" (docs/operations/db-ops.md).                                             *)
RuntimesConverge == <>[](db \in Valid => \A n \in Nodes : runtime[n] = db)

(* "If-Match optimistic lock via ETag" (README): a PUT with an If-Match replaces the   *)
(* configuration it names, not a later one.                                           *)
Stores(p) == proc[p].pc = "put_upsert" /\ proc'[p].pc = "idle" /\ proc'[p].reply = "ok"

IfMatchHonoured ==
    [][\A p \in Procs :
         Stores(p) /\ proc[p].ifMatch # AnyTag /\ db \in Valid => db = proc[p].ifMatch]_vars
===============================================================================
