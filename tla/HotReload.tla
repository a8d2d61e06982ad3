------------------------------ MODULE HotReload ------------------------------
(***************************************************************************)
(* The three configurations that do not share the protocol of ConfigSync:    *)
(*   cache   the response cache rules: a watcher of the file, debounced by   *)
(*           200 ms, loads them; PUT and the storage sync only write files;  *)
(*   bypass  the bypass rules: PUT and sync reload, and a watcher too;       *)
(*   crs     the CRS selection: PUT and sync reload the base WAF, and so do  *)
(*           other handlers; nothing watches the file.                       *)
(* One node is modelled; what the others do is visible as rows they store.   *)
(* With the bypass rules go the override WAFs: a request to a path with an   *)
(* extra rule file is served by a WAF built from that file.                  *)
(*                                                                         *)
(* A load is in two halves, the read of the file and the assignment of what  *)
(* was built from it; any of these goroutines may be between the two.        *)
(***************************************************************************)
EXTENDS Integers, FiniteSets

CONSTANTS
    Procs,       \* goroutines that serve admin requests
    Slots,       \* goroutines that load without a request (see Watcher below)
    Requesters,  \* goroutines that serve proxied requests
    Valid,       \* texts that load
    Bad,         \* a text that does not
    EmptyRaw,    \* the empty text
    Missing,     \* no file
    Special,     \* the bypass texts with a special-rule entry
    Absent,      \* no row in config_blobs
    AnyTag,      \* no If-Match header
    PutTexts,    \* texts sent by PUT
    Tags,        \* If-Match headers sent
    RowTexts,    \* texts that other nodes store
    EditTexts,   \* what the operator makes of the file
    InitialFiles, InitialRows,  \* what may be found at the first start
    Contents,    \* contents of the extra rule file from which Coraza builds a WAF
    BadExtra,    \* a content from which it does not
    NoExtra,     \* no extra rule file
    NoLoad, NoRules, NoWAF,
    Budgets      \* bound: how often things may happen in a behaviour (see Budget)

Kinds == {"cache", "bypass", "crs"}
Raw == Valid \cup {Bad}
File == Raw \cup {Missing}
Loaders == Procs \cup Slots \cup {"sync"}
Extra == Contents \cup {BadExtra, NoExtra}
Load == [text : Valid, fresh : BOOLEAN, overtaken : BOOLEAN]

(* PUTs, GETs and proxied requests, edits of file and extra rule file, texts stored by *)
(* other nodes, failed operations, and ends of the process.                          *)
Counted == {"puts", "gets", "requests", "edits", "rows", "faults", "crashes"}
Budget == [Counted -> Nat]

ASSUME TextAssumption ==
    /\ EmptyRaw \in Valid /\ Bad \notin Valid /\ Special \subseteq Valid
    /\ Missing \notin Raw /\ Absent \notin Raw /\ NoRules \notin Valid
    /\ BadExtra \notin Contents /\ NoExtra \notin Contents /\ NoWAF \notin Contents
ASSUME LoaderAssumption ==
    Procs \cap Slots = {} /\ "sync" \notin Procs \cup Slots /\ NoLoad \notin Load
ASSUME InputAssumption ==
    /\ PutTexts \subseteq Valid /\ Tags \subseteq Raw \cup {AnyTag} /\ RowTexts \subseteq Raw
    /\ EditTexts \subseteq File /\ InitialFiles \subseteq File
    /\ InitialRows \subseteq Raw \cup {Absent} /\ Budgets \subseteq Budget

VARIABLES
    kind,      \* which of the configurations this is
    strict,    \* WAF_STRICT_OVERRIDE
    row,       \* the row of config_blobs
    file,
    rules,     \* the text that the rules in force were loaded from
    load,      \* loader -> the load it is in the middle of
    watching,  \* the watcher of the file was set up
    event,     \* it has something to read
    armed,     \* the debounce timer runs
    sync,      \* the main goroutine while it starts, then that of the sync loop
    proc,      \* admin goroutine -> its progress through a handler
    up,        \* the startup is over
    extra,     \* content of the extra rule file
    override,  \* overrideWAFs: content from which the cached WAF was built
    req,       \* requester -> its progress through selectWAFEngine
    left,      \* what is left of the budget
    \* History:
    stale,     \* the last load failed or was overtaken, or none was due
    served     \* contents of the override WAFs that requests got since the start

texts == <<row, file>>
watcher == <<watching, event, armed>>
waf == <<extra, override, req, served>>
loading == <<rules, load, stale>>
mode == <<kind, strict>>
vars == <<kind, strict, row, file, rules, load, watching, event, armed, sync, proc, up,
          extra, override, req, left, stale, served>>

Idle == [pc |-> "idle"]

ProcState ==
    [pc : {"idle"}]
    \cup [pc : {"put_row", "write", "load", "set", "upsert", "undo_write", "undo_load", "undo_set"},
          new : PutTexts, tag : Tags, cur : Raw, had : BOOLEAN]
    \cup [pc : {"get_row", "get_seed", "get_write"}, raw : Raw]
SyncState ==
    [pc : {"init", "start_watch", "watch", "watch_set", "idle", "read", "load", "set"}]
    \cup [pc : {"row", "write", "seed"}, raw : File]
ReqState == [pc : {"idle", "lookup", "build"}] \cup [pc : {"insert"}, built : Contents]

(* main: the rules are loaded before the sync, but those of the cache after it.  *)
StartPC(k) == IF k = "cache" THEN "read" ELSE "init"

Init ==
    /\ kind \in Kinds /\ strict \in {FALSE, kind = "bypass"}
    /\ row \in InitialRows /\ file \in InitialFiles
    /\ rules = NoRules
    /\ load = [l \in Loaders |-> NoLoad]
    /\ watching = FALSE /\ event = FALSE /\ armed = FALSE
    /\ sync = [pc |-> StartPC(kind)]
    /\ proc = [p \in Procs |-> Idle]
    /\ up = FALSE
    /\ extra \in Contents /\ override = NoWAF /\ req = [r \in Requesters |-> Idle]
    /\ left \in Budgets
    /\ stale = FALSE /\ served = {}

Uses(c) == left[c] > 0 /\ left' = [left EXCEPT ![c] = @ - 1]
Fault == Uses("faults")
NoFault == UNCHANGED left

-------------------------------------------------------------------------------
(* Reading, writing and loading the file.                                        *)

FileRaw == IF file = Missing THEN EmptyRaw ELSE file

(* os.ReadFile, by a request of the kind that c counts, with its error ignored.       *)
ReadIgnoringError(raw, c) ==
    \/ raw = FileRaw /\ Uses(c)
    \/ /\ raw = EmptyRaw /\ left[c] > 0 /\ left["faults"] > 0
       /\ left' = [left EXCEPT ![c] = @ - 1, !["faults"] = @ - 1]

(* A file changes under a watcher or under loads of it; when neither a watcher nor *)
(* the writer is to load it, the rules stay behind.                                *)
SetFile(text, loads) ==
    /\ file' = text
    /\ load' = [l \in Loaders |-> IF load[l] = NoLoad THEN NoLoad
                                  ELSE [load[l] EXCEPT !.fresh = FALSE]]
    /\ event' = (event \/ watching)
    /\ stale' = (stale \/ ~(loads \/ watching))
    /\ UNCHANGED <<rules, watching, armed>>

(* AtomicWriteWithBackup; the handlers and the sync of the cache do not reload.     *)
WriteFile(text) == SetFile(text, kind # "cache") /\ UNCHANGED row

Upsert(text) == row' = text /\ UNCHANGED file
UpsertFails(text) == row' \in {row, text} /\ UNCHANGED file

(* LoadDisabledFile takes a file that does not exist for an empty one.              *)
Content == IF file = Missing /\ kind = "crs" THEN EmptyRaw ELSE file

(* A bug TypeOK would catch: the error of Parse is ignored.                          *)
LoadsAnything == TRUE

Loads == Content \in Valid

BeginLoad(l) ==
    /\ Loads
    /\ load' = [load EXCEPT ![l] = [text |-> Content, fresh |-> TRUE, overtaken |-> FALSE]]
    /\ UNCHANGED <<rules, stale, left>>

(* The rules in force stay.                                                         *)
LoadFails == stale' = TRUE /\ UNCHANGED <<rules, load>> /\ ((~Loads /\ NoFault) \/ Fault)

(* The assignment.  A load is overtaken when the file has changed since its read    *)
(* and another one has meanwhile assigned what is there now.                        *)
EndLoad(l) ==
    /\ rules' = load[l].text
    /\ load' = [m \in Loaders |->
         IF m = l \/ load[m] = NoLoad THEN NoLoad
         ELSE [load[m] EXCEPT !.overtaken = @ \/ (load[l].fresh /\ ~load[m].fresh)]]
    /\ stale' = (load[l].overtaken \/ (stale /\ ~load[l].fresh))

-------------------------------------------------------------------------------
(* The watchers.  The one of the cache arms a timer, whose goroutine loads the     *)
(* file; a timer that has fired is not stopped by the next event.  The one of the  *)
(* bypass rules loads the file itself.  For the CRS selection a slot is a handler   *)
(* that reloads the base WAF for a reason of its own (PutRules, ApplyFPTuning).     *)

FreeSlot(s) == load[s] = NoLoad
Alone == \A s \in Slots : FreeSlot(s)

(* A bug RulesFollowFile would catch: an event is dropped while a load is under way. *)
ScheduleUnlessLoading ==
    /\ kind = "cache" /\ event
    /\ event' = FALSE
    /\ armed' = (armed \/ Alone)
    /\ UNCHANGED <<mode, texts, loading, watching, sync, proc, up, waf, left>>

(* schedule of cacheconf.Watch                                                       *)
Schedule ==
    /\ kind = "cache" /\ event
    /\ event' = FALSE /\ armed' = TRUE
    /\ UNCHANGED <<mode, texts, loading, watching, sync, proc, up, waf, left>>

(* A bug HotReloaded would catch: the timer does nothing while a load is under way.    *)
FireUnlessLoading(s) ==
    /\ kind = "cache" /\ armed /\ FreeSlot(s)
    /\ armed' = FALSE
    /\ IF Alone THEN BeginLoad(s) \/ LoadFails ELSE UNCHANGED <<loading, left>>
    /\ UNCHANGED <<mode, texts, watching, event, sync, proc, up, waf>>

(* fire of cacheconf.Watch, up to the end of Load.                                    *)
Fire(s) ==
    /\ kind = "cache" /\ armed /\ FreeSlot(s)
    /\ armed' = FALSE
    /\ BeginLoad(s) \/ LoadFails
    /\ UNCHANGED <<mode, texts, watching, event, sync, proc, up, waf>>

BypassEvent(s) ==
    /\ kind = "bypass" /\ event /\ Alone
    /\ event' = FALSE
    /\ BeginLoad(s) \/ LoadFails
    /\ UNCHANGED <<mode, texts, watching, armed, sync, proc, up, waf>>

OtherReload(s) ==
    /\ kind = "crs" /\ up /\ FreeSlot(s) /\ BeginLoad(s)
    /\ UNCHANGED <<mode, texts, watcher, sync, proc, up, waf>>

SlotSet(s) ==
    /\ load[s] # NoLoad
    /\ EndLoad(s)
    /\ UNCHANGED <<mode, texts, watcher, sync, proc, up, waf, left>>

-------------------------------------------------------------------------------
(* The handlers.                                                                   *)

Reply(p) == proc' = [proc EXCEPT ![p] = Idle]
Goto(p, pc) == proc' = [proc EXCEPT ![p].pc = pc]

(* validateRaw of the bypass rules also looks for the extra rule file; no row of    *)
(* the CRS selection is validated.                                                 *)
Validates(raw) ==
    \/ kind = "crs"
    \/ raw \in Valid /\ ~(kind = "bypass" /\ strict /\ raw \in Special /\ extra = NoExtra)

Matches(tag, cur) == tag \in {AnyTag, cur}

(* PutCacheRules compares If-Match with the file, whatever the row.                  *)
PutStart(p, new, tag) ==
    /\ proc[p].pc = "idle" /\ up
    /\ \E raw \in Raw :
         /\ ReadIgnoringError(raw, "puts") /\ (kind = "crs" => raw = FileRaw)
         /\ kind = "cache" => Matches(tag, raw)
         /\ proc' = [proc EXCEPT ![p] =
              [pc |-> IF kind = "cache" THEN "write" ELSE "put_row", new |-> new, tag |-> tag,
               cur |-> raw, had |-> file # Missing]]
    /\ UNCHANGED <<mode, texts, loading, watcher, sync, up, waf>>

(* The row takes the place of the file; then If-Match, and the validation of the     *)
(* new text.                                                                         *)
PutRow(p) ==
    /\ proc[p].pc = "put_row"
    /\ LET cur == IF row # Absent /\ Validates(row) THEN row ELSE proc[p].cur
       IN  \/ /\ Matches(proc[p].tag, cur) /\ Validates(proc[p].new)
              /\ proc' = [proc EXCEPT ![p].pc = "write", ![p].cur = cur] /\ NoFault
           \/ ~(Matches(proc[p].tag, cur) /\ Validates(proc[p].new)) /\ Reply(p) /\ NoFault
           \/ Reply(p) /\ Fault
    /\ UNCHANGED <<mode, texts, loading, watcher, sync, up, waf>>

PutWrite(p) ==
    /\ proc[p].pc = "write"
    /\ \/ /\ WriteFile(proc[p].new) /\ NoFault
          /\ Goto(p, IF kind = "cache" THEN "upsert" ELSE "load")
       \/ UNCHANGED <<texts, loading, watcher>> /\ Reply(p) /\ Fault
    /\ UNCHANGED <<mode, sync, up, waf>>

LoadRules(p) ==
    /\ \/ proc[p].pc = "load" /\ BeginLoad(p) /\ Goto(p, "set")
       \/ proc[p].pc = "load" /\ LoadFails /\ Goto(p, "undo_write")
       \/ proc[p].pc = "undo_load" /\ BeginLoad(p) /\ Goto(p, "undo_set")
       \/ proc[p].pc = "undo_load" /\ LoadFails /\ Reply(p)
    /\ UNCHANGED <<mode, texts, watcher, sync, up, waf>>

SetRules(p) ==
    /\ proc[p].pc \in {"set", "undo_set"}
    /\ EndLoad(p)
    /\ IF proc[p].pc = "set" THEN Goto(p, "upsert") ELSE Reply(p)
    /\ UNCHANGED <<mode, texts, watcher, sync, up, waf, left>>

PutUpsert(p) ==
    /\ proc[p].pc = "upsert"
    /\ \/ Upsert(proc[p].new) /\ Reply(p) /\ NoFault
       \/ UpsertFails(proc[p].new) /\ Goto(p, "undo_write") /\ Fault
    /\ UNCHANGED <<mode, loading, watcher, sync, up, waf>>

(* rollbackCRSDisabledFile removes a file that was not there.                         *)
Previous(p) == IF kind = "crs" /\ ~proc[p].had THEN Missing ELSE proc[p].cur

UndoWrite(p) ==
    /\ proc[p].pc = "undo_write"
    /\ \/ WriteFile(Previous(p)) /\ NoFault
       \/ UNCHANGED <<texts, loading, watcher>> /\ Fault
    /\ IF kind = "cache" THEN Reply(p) ELSE Goto(p, "undo_load")
    /\ UNCHANGED <<mode, sync, up, waf>>

GetStart(p) ==
    /\ proc[p].pc = "idle" /\ up
    /\ \E raw \in Raw :
         /\ ReadIgnoringError(raw, "gets")
         /\ proc' = [proc EXCEPT ![p] = [pc |-> "get_row", raw |-> raw]]
    /\ UNCHANGED <<mode, texts, loading, watcher, sync, up, waf>>

(* GetCacheRules copies a row over a file that differs; all three seed an absent row. *)
GetRow(p) ==
    /\ proc[p].pc = "get_row"
    /\ LET raw == proc[p].raw
           copies == kind = "cache" /\ row # Absent /\ Validates(row) /\ row # raw
           seeds == row = Absent /\ raw # EmptyRaw
       IN  \/ copies /\ proc' = [proc EXCEPT ![p] = [pc |-> "get_write", raw |-> row]] /\ NoFault
           \/ seeds /\ Goto(p, "get_seed") /\ NoFault
           \/ ~copies /\ ~seeds /\ Reply(p) /\ NoFault
           \/ Reply(p) /\ Fault
    /\ UNCHANGED <<mode, texts, loading, watcher, sync, up, waf>>

GetWrite(p) ==
    /\ proc[p].pc = "get_write"
    /\ \/ WriteFile(proc[p].raw) /\ NoFault
       \/ UNCHANGED <<texts, loading, watcher>> /\ Fault
    /\ Reply(p)
    /\ UNCHANGED <<mode, sync, up, waf>>

GetSeed(p) ==
    /\ proc[p].pc = "get_seed"
    /\ \/ Upsert(proc[p].raw) /\ NoFault
       \/ UpsertFails(proc[p].raw) /\ Fault
    /\ Reply(p)
    /\ UNCHANGED <<mode, loading, watcher, sync, up, waf>>

-------------------------------------------------------------------------------
(* The startup and the storage sync.                                               *)

SyncTo(s) == sync' = s /\ UNCHANGED up
SyncPC(pc) == SyncTo([pc |-> pc])
Started == sync' = Idle /\ up' = TRUE

(* The end of a sync; at startup the cache is watched next.                         *)
SyncEnds == IF kind = "cache" /\ ~up THEN SyncPC("watch") ELSE Started

(* InitWAF: when the base WAF does not load, log.Fatalf, and compose starts the      *)
(* process again; bypass rules that do not load are not watched either.             *)
InitRules ==
    /\ sync.pc = "init"
    /\ \/ Loads /\ rules' = Content /\ stale' = FALSE /\ NoFault
          /\ SyncPC(IF kind = "bypass" THEN "start_watch" ELSE "read")
       \/ /\ LoadFails /\ UNCHANGED rules
          /\ SyncPC(IF kind = "bypass" THEN "read" ELSE "init")
    /\ UNCHANGED <<mode, texts, load, watcher, proc, waf>>

(* startWatch of the bypass rules, after they were loaded.                          *)
StartWatch ==
    /\ sync.pc = "start_watch"
    /\ \/ watching' = TRUE /\ NoFault
       \/ UNCHANGED watching /\ Fault
    /\ SyncPC("read")
    /\ UNCHANGED <<mode, texts, loading, event, armed, proc, waf>>

(* cacheconf.Watch: the directory is watched, then the file is loaded.               *)
Watch ==
    /\ sync.pc = "watch"
    /\ \/ watching' = TRUE /\ BeginLoad("sync") /\ SyncPC("watch_set")
       \/ watching' = TRUE /\ LoadFails /\ Started
       \/ UNCHANGED <<watching, rules, load>> /\ stale' = TRUE /\ Fault /\ Started
    /\ UNCHANGED <<mode, texts, event, armed, proc, waf>>

WatchSet ==
    /\ sync.pc = "watch_set"
    /\ EndLoad("sync") /\ Started
    /\ UNCHANGED <<mode, texts, watcher, proc, waf, left>>

(* A bug FileFollowsRow would catch: SyncAllStorageFromDB has no task for the cache.  *)
SyncTickWithoutCache ==
    /\ sync.pc = "idle"
    /\ IF kind = "cache" THEN UNCHANGED <<sync, up>> ELSE SyncPC("read")
    /\ UNCHANGED <<mode, texts, loading, watcher, proc, waf, left>>

(* The ticker of StartStorageSyncLoop fires.                                          *)
SyncTick ==
    /\ sync.pc = "idle"
    /\ SyncPC("read")
    /\ UNCHANGED <<mode, texts, loading, watcher, proc, waf, left>>

SyncRead ==
    /\ sync.pc = "read"
    /\ \/ SyncTo([pc |-> "row", raw |-> file]) /\ NoFault
       \/ SyncEnds /\ Fault
    /\ UNCHANGED <<mode, texts, loading, watcher, proc, waf>>

SyncRow ==
    /\ sync.pc = "row"
    /\ LET copies == row # Absent /\ Validates(row) /\ row # sync.raw
           seeds == row = Absent /\ sync.raw \notin {EmptyRaw, Missing}
       IN  \/ copies /\ SyncTo([pc |-> "write", raw |-> row]) /\ NoFault
           \/ seeds /\ SyncTo([pc |-> "seed", raw |-> sync.raw]) /\ NoFault
           \/ ~copies /\ ~seeds /\ SyncEnds /\ NoFault
           \/ SyncEnds /\ Fault
    /\ UNCHANGED <<mode, texts, loading, watcher, proc, waf>>

SyncWrite ==
    /\ sync.pc = "write"
    /\ \/ WriteFile(sync.raw) /\ NoFault /\ IF kind = "cache" THEN SyncEnds ELSE SyncPC("load")
       \/ UNCHANGED <<texts, loading, watcher>> /\ SyncEnds /\ Fault
    /\ UNCHANGED <<mode, proc, waf>>

SyncSeed ==
    /\ sync.pc = "seed"
    /\ \/ Upsert(sync.raw) /\ NoFault
       \/ UpsertFails(sync.raw) /\ Fault
    /\ SyncEnds
    /\ UNCHANGED <<mode, loading, watcher, proc, waf>>

SyncLoad ==
    /\ sync.pc = "load"
    /\ \/ BeginLoad("sync") /\ SyncPC("set")
       \/ LoadFails /\ SyncEnds
    /\ UNCHANGED <<mode, texts, watcher, proc, waf>>

SyncSet ==
    /\ sync.pc = "set"
    /\ EndLoad("sync") /\ SyncEnds
    /\ UNCHANGED <<mode, texts, watcher, proc, waf, left>>

-------------------------------------------------------------------------------
(* selectWAFEngine and GetWAFForExtraRule.                                          *)

(* The process dies and is started again; file, extra rule file and row stay.        *)
Dies ==
    /\ Uses("crashes")
    /\ rules' = NoRules /\ load' = [l \in Loaders |-> NoLoad] /\ stale' = FALSE
    /\ watching' = FALSE /\ event' = FALSE /\ armed' = FALSE
    /\ sync' = [pc |-> StartPC(kind)] /\ proc' = [p \in Procs |-> Idle] /\ up' = FALSE
    /\ override' = NoWAF /\ req' = [r \in Requesters |-> Idle] /\ served' = {}
    /\ UNCHANGED <<mode, texts, extra>>

ReqTo(r, s) == req' = [req EXCEPT ![r] = s]
Serve(content) == served' = served \cup {content}

(* Match: a request to the path of a special-rule entry; the others change nothing.  *)
Select(r) ==
    /\ kind = "bypass" /\ up /\ req[r].pc = "idle"
    /\ rules \in Special /\ Uses("requests")
    /\ ReqTo(r, [pc |-> "lookup"])
    /\ UNCHANGED <<mode, texts, loading, watcher, sync, proc, up, extra, override, served>>

Lookup(r) ==
    /\ req[r].pc = "lookup"
    /\ \/ override # NoWAF /\ Serve(override) /\ ReqTo(r, Idle)
       \/ override = NoWAF /\ ReqTo(r, [pc |-> "build"]) /\ UNCHANGED served
    /\ UNCHANGED <<mode, texts, loading, watcher, sync, proc, up, extra, override, left>>

(* A rule file that does not load: the base WAF serves, or log.Fatalf.                *)
Build(r) ==
    /\ req[r].pc = "build"
    /\ IF extra \in Contents THEN ReqTo(r, [pc |-> "insert", built |-> extra])
                              ELSE ~strict /\ ReqTo(r, Idle)
    /\ UNCHANGED <<mode, texts, loading, watcher, sync, proc, up, extra, override, served, left>>

BuildFatal(r) ==
    /\ req[r].pc = "build" /\ extra \notin Contents /\ strict
    /\ Dies

(* A bug OneOverride would catch: the cache takes the WAF that was built last.         *)
InsertLast(r) ==
    /\ req[r].pc = "insert"
    /\ override' = req[r].built
    /\ Serve(override') /\ ReqTo(r, Idle)
    /\ UNCHANGED <<mode, texts, loading, watcher, sync, proc, up, extra, left>>

(* setCachedOverrideWAF: the WAF that is there already is kept, and served.            *)
Insert(r) ==
    /\ req[r].pc = "insert"
    /\ override' = IF override = NoWAF THEN req[r].built ELSE override
    /\ Serve(override') /\ ReqTo(r, Idle)
    /\ UNCHANGED <<mode, texts, loading, watcher, sync, proc, up, extra, left>>

-------------------------------------------------------------------------------
(* The operator, the other nodes, and crashes.                                       *)

Edit(text) ==
    /\ file # text /\ Uses("edits")
    /\ SetFile(text, FALSE) /\ UNCHANGED row
    /\ UNCHANGED <<mode, sync, proc, up, waf>>

EditExtra(content) ==
    /\ kind = "bypass" /\ extra # content /\ Uses("edits")
    /\ extra' = content
    /\ UNCHANGED <<mode, texts, loading, watcher, sync, proc, up, override, req, served>>

(* A PUT, GET or sync of another node stores a text.                                  *)
OtherNode(text) ==
    /\ row # text /\ Uses("rows")
    /\ Upsert(text)
    /\ UNCHANGED <<mode, loading, watcher, sync, proc, up, waf>>

Crash == up /\ Dies

-------------------------------------------------------------------------------

HandlerStep(p) ==
    \/ PutRow(p) \/ PutWrite(p) \/ LoadRules(p) \/ SetRules(p) \/ PutUpsert(p) \/ UndoWrite(p)
    \/ GetRow(p) \/ GetWrite(p) \/ GetSeed(p)

SyncStep ==
    \/ InitRules \/ StartWatch \/ Watch \/ WatchSet
    \/ SyncTick \/ SyncRead \/ SyncRow \/ SyncWrite \/ SyncSeed \/ SyncLoad \/ SyncSet

WatcherStep == Schedule \/ \E s \in Slots : Fire(s) \/ BypassEvent(s)

Environment ==
    \/ \E text \in EditTexts : Edit(text)
    \/ \E content \in Extra : EditExtra(content)
    \/ \E text \in RowTexts : OtherNode(text)
    \/ Crash

Next ==
    \/ \E p \in Procs :
         \/ \E new \in PutTexts, tag \in Tags : PutStart(p, new, tag)
         \/ GetStart(p) \/ HandlerStep(p)
    \/ SyncStep \/ WatcherStep
    \/ \E s \in Slots : OtherReload(s) \/ SlotSet(s)
    \/ \E r \in Requesters : Select(r) \/ Lookup(r) \/ Build(r) \/ BuildFatal(r) \/ Insert(r)
    \/ Environment

Spec == Init /\ [][Next]_vars

(* Goroutines run on once started, and so do watcher, timer and sync ticker; nobody  *)
(* has to send a request, and nothing has to fail.                                  *)
FairSpec ==
    /\ Spec
    /\ \A p \in Procs : WF_vars(HandlerStep(p))
    /\ \A s \in Slots : WF_vars(SlotSet(s))
    /\ WF_vars(SyncStep) /\ WF_vars(WatcherStep)

-------------------------------------------------------------------------------
TypeOK ==
    /\ kind \in Kinds /\ strict \in BOOLEAN
    /\ row \in Raw \cup {Absent} /\ file \in File
    /\ rules \in Valid \cup {NoRules}
    /\ load \in [Loaders -> Load \cup {NoLoad}]
    /\ watching \in BOOLEAN /\ event \in BOOLEAN /\ armed \in BOOLEAN
    /\ sync \in SyncState /\ proc \in [Procs -> ProcState] /\ up \in BOOLEAN
    /\ extra \in Extra /\ override \in Contents \cup {NoWAF} /\ req \in [Requesters -> ReqState]
    /\ left \in Budget /\ stale \in BOOLEAN /\ served \subseteq Contents

(* Somebody is still to load the file, or is loading what it holds now.               *)
Reloading ==
    \/ event \/ armed \/ sync.pc = "load"
    \/ \E l \in Loaders : load[l] # NoLoad /\ load[l].fresh
    \/ kind # "cache" /\ \E p \in Procs : proc[p].pc \in {"load", "undo_write", "undo_load"}

(* "Hot reload is supported; changes apply right after saving the file." (README, of   *)
(* the cache rules): in whatever order the file is edited, put, rolled back or synced  *)
(* and loads run beside each other, rules that differ from the file are about to be    *)
(* replaced, unless the last load failed, was overtaken by a later one, or nobody was  *)
(* watching.                                                                           *)
RulesFollowFile == up /\ rules # Content => Reloading \/ stale

(* In the end they do follow it.                                                       *)
HotReloaded == <>[](up /\ rules # Content => stale)

(* "each node periodically reconciles runtime files from config_blobs" (README): once  *)
(* requests, edits and failures are over the file is the row, if the row validates.    *)
(* (A CRS selection that does not load ends each start before the sync.)               *)
FileFollowsRow == <>[](up /\ row # Absent /\ Validates(row) => file = row)

(* All requests that one process serves by an extra rule file are judged by the same    *)
(* rules, however many of them build the WAF at once while the file changes.            *)
OneOverride == Cardinality(served) <= 1
===============================================================================
