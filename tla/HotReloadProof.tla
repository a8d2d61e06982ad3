---------------------------- MODULE HotReloadProof ----------------------------
(***************************************************************************)
(* Theorems about HotReload, for any goroutines, texts and budgets.          *)
(***************************************************************************)
EXTENDS HotReload, FiniteSetTheorems, TLAPS

-------------------------------------------------------------------------------
(* Type correctness.  A goroutine that is about to assign holds a load, and the *)
(* sync seeds the row with a text, never with the absence of a file.            *)

Holds(l) == load[l] # NoLoad
ProcLinks == \A p \in Procs : proc[p].pc \in {"set", "undo_set"} => Holds(p)
SyncLinks ==
    /\ sync.pc \in {"set", "watch_set"} => Holds("sync")
    /\ sync.pc = "seed" => sync.raw # Missing
Typed == TypeOK /\ ProcLinks /\ SyncLinks

LEMMA InitTyped == Init => Typed
<1> SUFFICES ASSUME Init PROVE Typed
  OBVIOUS
<1>1. /\ kind \in Kinds /\ strict \in BOOLEAN /\ row \in Raw \cup {Absent} /\ file \in File
      /\ rules \in Valid \cup {NoRules} /\ load \in [Loaders -> Load \cup {NoLoad}]
      /\ watching \in BOOLEAN /\ event \in BOOLEAN /\ armed \in BOOLEAN /\ up \in BOOLEAN
      /\ extra \in Extra /\ override \in Contents \cup {NoWAF}
      /\ left \in Budget /\ stale \in BOOLEAN /\ served \subseteq Contents
  BY InputAssumption DEF Init, Extra
<1>2. sync \in SyncState /\ SyncLinks
  BY DEF Init, StartPC, SyncState, SyncLinks
<1>3. proc \in [Procs -> ProcState] /\ ProcLinks
  BY DEF Init, Idle, ProcState, ProcLinks
<1>4. req \in [Requesters -> ReqState]
  BY DEF Init, Idle, ReqState
<1>5. QED
  BY <1>1, <1>2, <1>3, <1>4 DEF Typed, TypeOK

LEMMA UsesType ==
  ASSUME TypeOK, NEW c \in Counted, Uses(c)
  PROVE  left' \in Budget
  BY DEF TypeOK, Uses, Budget

LEMMA FaultType ==
  ASSUME TypeOK, Fault \/ NoFault
  PROVE  left' \in Budget
  BY UsesType DEF TypeOK, Fault, NoFault, Counted

LEMMA ReadType ==
  ASSUME TypeOK, NEW raw, NEW c \in {"puts", "gets"}, ReadIgnoringError(raw, c)
  PROVE  left' \in Budget
<1>1. CASE Uses(c)
  BY <1>1, UsesType DEF Counted
<1>2. CASE left[c] > 0 /\ left["faults"] > 0
            /\ left' = [left EXCEPT ![c] = @ - 1, !["faults"] = @ - 1]
  BY <1>2 DEF TypeOK, Budget, Counted
<1>3. QED
  BY <1>1, <1>2 DEF ReadIgnoringError

LEMMA ContentType ==
  ASSUME TypeOK
  PROVE  Content \in File
  BY TextAssumption DEF TypeOK, Content, File, Raw

(* What the helpers of a load do to the loads.                                  *)
LoadingType ==
    /\ rules' \in Valid \cup {NoRules}
    /\ load' \in [Loaders -> Load \cup {NoLoad}]
    /\ stale' \in BOOLEAN

Keeps(L) == \A m \in L : Holds(m)' <=> Holds(m)

LEMMA BeginLoadType ==
  ASSUME TypeOK, NEW l \in Loaders, BeginLoad(l)
  PROVE  LoadingType /\ Holds(l)' /\ Keeps(Loaders \ {l}) /\ left' \in Budget
<1>1. [text |-> Content, fresh |-> TRUE, overtaken |-> FALSE] \in Load
  BY DEF BeginLoad, Loads, Load
<1>2. QED
  BY <1>1, LoaderAssumption DEF BeginLoad, TypeOK, LoadingType, Holds, Keeps

LEMMA LoadFailsType ==
  ASSUME TypeOK, LoadFails
  PROVE  LoadingType /\ load' = load /\ left' \in Budget
  BY FaultType DEF LoadFails, TypeOK, LoadingType

LEMMA EndLoadType ==
  ASSUME TypeOK, NEW l \in Loaders, Holds(l), EndLoad(l)
  PROVE  LoadingType /\ Keeps(Loaders \ {l})
<1>1. load[l] \in Load /\ load[l].text \in Valid /\ load[l].overtaken \in BOOLEAN
      /\ load[l].fresh \in BOOLEAN
  BY DEF TypeOK, Holds, Load
<1>2. ASSUME NEW m \in Loaders, load[m] # NoLoad
      PROVE  [load[m] EXCEPT !.overtaken = @ \/ (load[l].fresh /\ ~load[m].fresh)] \in Load
  BY <1>1, <1>2 DEF TypeOK, Load
<1>3. \A m \in Loaders : load'[m] \in Load \cup {NoLoad}
  BY <1>2 DEF EndLoad
<1>4. load' \in [Loaders -> Load \cup {NoLoad}]
  BY <1>3 DEF EndLoad
<1>5. Keeps(Loaders \ {l})
  BY <1>2, LoaderAssumption DEF EndLoad, Keeps, Holds
<1>6. QED
  BY <1>1, <1>4, <1>5 DEF EndLoad, LoadingType, TypeOK

LEMMA SetFileType ==
  ASSUME TypeOK, NEW text \in File, NEW loads \in BOOLEAN, SetFile(text, loads)
  PROVE  /\ LoadingType /\ Keeps(Loaders) /\ file' \in File
         /\ event' \in BOOLEAN /\ UNCHANGED <<watching, armed>>
<1>1. ASSUME NEW l \in Loaders, load[l] # NoLoad
      PROVE  [load[l] EXCEPT !.fresh = FALSE] \in Load
  BY <1>1 DEF TypeOK, Load
<1>2. \A l \in Loaders : load'[l] \in Load \cup {NoLoad}
  BY <1>1 DEF SetFile
<1>3. load' \in [Loaders -> Load \cup {NoLoad}]
  BY <1>2 DEF SetFile
<1>4. Keeps(Loaders)
  BY <1>1, LoaderAssumption DEF SetFile, Keeps, Holds
<1>5. QED
  BY <1>3, <1>4 DEF SetFile, TypeOK, LoadingType

(* The handlers: what a step of one leaves alone, and what is left to show.     *)
LEMMA HandlerFrame ==
  ASSUME Typed, NEW p \in Procs, UNCHANGED <<mode, sync, up, waf>>,
         row' \in Raw \cup {Absent}, file' \in File, LoadingType,
         event' \in BOOLEAN, UNCHANGED <<watching, armed>>, left' \in Budget,
         proc' \in [Procs -> ProcState], \A q \in Procs \ {p} : proc'[q] = proc[q],
         Keeps(Loaders \ {p}), proc'[p].pc \in {"set", "undo_set"} => Holds(p)'
  PROVE  Typed'
<1>1. TypeOK'
  BY DEF Typed, TypeOK, mode, waf, LoadingType
<1>2. ProcLinks'
  BY DEF Typed, ProcLinks, Keeps, Loaders
<1>3. SyncLinks'
  BY LoaderAssumption DEF Typed, SyncLinks, Keeps, Loaders
<1>4. QED
  BY <1>1, <1>2, <1>3 DEF Typed

(* A step that loads nothing and writes no file.                                *)
LEMMA QuietFrame ==
  ASSUME TypeOK, UNCHANGED <<loading, watcher>>
  PROVE  /\ LoadingType /\ Keeps(Loaders)
         /\ event' \in BOOLEAN /\ armed' \in BOOLEAN /\ watching' \in BOOLEAN
  BY DEF TypeOK, loading, watcher, LoadingType, Keeps, Holds

PutPCs == {"put_row", "write", "load", "set", "upsert", "undo_write", "undo_load", "undo_set"}

LEMMA PutFields ==
  ASSUME TypeOK, NEW p \in Procs, proc[p].pc \in PutPCs
  PROVE  proc[p].new \in PutTexts /\ proc[p].tag \in Tags /\ proc[p].cur \in Raw
         /\ proc[p].had \in BOOLEAN
  BY DEF TypeOK, ProcState, PutPCs

LEMMA GetFields ==
  ASSUME TypeOK, NEW p \in Procs, proc[p].pc \in {"get_row", "get_seed", "get_write"}
  PROVE  proc[p].raw \in Raw
  BY DEF TypeOK, ProcState

LEMMA ReplyType ==
  ASSUME TypeOK, NEW p \in Procs, Reply(p)
  PROVE  /\ proc' \in [Procs -> ProcState] /\ \A q \in Procs \ {p} : proc'[q] = proc[q]
         /\ proc'[p].pc = "idle"
  BY DEF TypeOK, Reply, Idle, ProcState

LEMMA GotoType ==
  ASSUME TypeOK, NEW p \in Procs, NEW pc \in PutPCs, proc[p].pc \in PutPCs, Goto(p, pc)
  PROVE  /\ proc' \in [Procs -> ProcState] /\ \A q \in Procs \ {p} : proc'[q] = proc[q]
         /\ proc'[p].pc = pc
  BY PutFields DEF TypeOK, Goto, ProcState, PutPCs

LEMMA SendTyped ==
  ASSUME Typed, NEW p \in Procs,
         GetStart(p) \/ \E new \in PutTexts, tag \in Tags : PutStart(p, new, tag)
  PROVE  Typed'
<1> USE DEF Typed
<1>1. CASE GetStart(p)
  <2>1. PICK raw \in Raw : /\ ReadIgnoringError(raw, "gets")
                           /\ proc' = [proc EXCEPT ![p] = [pc |-> "get_row", raw |-> raw]]
    BY <1>1 DEF GetStart
  <2>2. [pc |-> "get_row", raw |-> raw] \in ProcState
    BY DEF ProcState
  <2>3. left' \in Budget
    BY <2>1, ReadType
  <2>4. QED
    BY <1>1, <2>1, <2>2, <2>3, HandlerFrame, QuietFrame
       DEF GetStart, TypeOK, texts, watcher, Keeps
<1>2. ASSUME NEW new \in PutTexts, NEW tag \in Tags, PutStart(p, new, tag)
      PROVE  Typed'
  <2>1. PICK raw \in Raw :
          /\ ReadIgnoringError(raw, "puts")
          /\ proc' = [proc EXCEPT ![p] =
               [pc |-> IF kind = "cache" THEN "write" ELSE "put_row", new |-> new,
                tag |-> tag, cur |-> raw, had |-> file # Missing]]
    BY <1>2 DEF PutStart
  <2>2. [pc |-> IF kind = "cache" THEN "write" ELSE "put_row", new |-> new,
         tag |-> tag, cur |-> raw, had |-> file # Missing] \in ProcState
    BY DEF ProcState
  <2>3. left' \in Budget
    BY <2>1, ReadType
  <2>4. QED
    BY <1>2, <2>1, <2>2, <2>3, HandlerFrame, QuietFrame
       DEF PutStart, TypeOK, texts, watcher, Keeps
<1>3. QED
  BY <1>1, <1>2

LEMMA PutTyped ==
  ASSUME Typed, NEW p \in Procs,
         PutRow(p) \/ PutWrite(p) \/ LoadRules(p) \/ SetRules(p) \/ PutUpsert(p) \/ UndoWrite(p)
  PROVE  Typed'
<1> USE DEF Typed
<1>0. p \in Loaders
  BY DEF Loaders
<1>1. CASE PutRow(p)
  <2>1. ASSUME NEW cur \in Raw, proc' = [proc EXCEPT ![p].pc = "write", ![p].cur = cur]
        PROVE  proc' \in [Procs -> ProcState] /\ proc'[p].pc = "write"
               /\ \A q \in Procs \ {p} : proc'[q] = proc[q]
    BY <1>1, <2>1, PutFields DEF PutRow, TypeOK, ProcState, PutPCs
  <2>2. proc[p].cur \in Raw
    BY <1>1, PutFields DEF PutRow, PutPCs
  <2>3. (IF row # Absent /\ Validates(row) THEN row ELSE proc[p].cur) \in Raw
    BY <2>2 DEF TypeOK
  <2>4. /\ proc' \in [Procs -> ProcState] /\ proc'[p].pc \in {"write", "idle"}
        /\ \A q \in Procs \ {p} : proc'[q] = proc[q]
    BY <1>1, <2>1, <2>3, ReplyType DEF PutRow
  <2>5. left' \in Budget
    BY <1>1, FaultType DEF PutRow
  <2>6. QED
    BY <1>1, <2>4, <2>5, HandlerFrame, QuietFrame DEF PutRow, TypeOK, texts, watcher, Keeps
<1>2. CASE PutWrite(p)
  <2>1. proc[p].new \in File
    BY <1>2, PutFields, InputAssumption DEF PutWrite, PutPCs, File, Raw
  <2>2. /\ proc' \in [Procs -> ProcState] /\ proc'[p].pc \in {"load", "upsert", "idle"}
        /\ \A q \in Procs \ {p} : proc'[q] = proc[q]
    BY <1>2, GotoType, ReplyType DEF PutWrite, PutPCs
  <2>3. left' \in Budget
    BY <1>2, FaultType DEF PutWrite
  <2>4. CASE WriteFile(proc[p].new)
    BY <1>2, <2>1, <2>2, <2>3, <2>4, HandlerFrame, SetFileType
       DEF PutWrite, WriteFile, TypeOK, Keeps
  <2>5. CASE UNCHANGED <<texts, loading, watcher>>
    BY <1>2, <2>2, <2>3, <2>5, HandlerFrame, QuietFrame
       DEF PutWrite, TypeOK, texts, watcher, Keeps
  <2>6. QED
    BY <1>2, <2>4, <2>5 DEF PutWrite
<1>3. CASE LoadRules(p)
  <2>1. CASE BeginLoad(p)
    <3>1. /\ proc' \in [Procs -> ProcState]
          /\ \A q \in Procs \ {p} : proc'[q] = proc[q]
      BY <1>3, <2>1, GotoType, ReplyType DEF LoadRules, PutPCs
    <3>2. QED
      BY <1>0, <1>3, <2>1, <3>1, HandlerFrame, BeginLoadType
         DEF LoadRules, TypeOK, texts, watcher
  <2>2. CASE LoadFails /\ (Goto(p, "undo_write") \/ Reply(p))
    <3>1. /\ proc' \in [Procs -> ProcState] /\ proc'[p].pc \in {"undo_write", "idle"}
          /\ \A q \in Procs \ {p} : proc'[q] = proc[q]
      BY <1>3, <2>2, GotoType, ReplyType DEF LoadRules, PutPCs
    <3>2. Keeps(Loaders)
      BY <2>2, LoadFailsType DEF Keeps, Holds
    <3>3. QED
      BY <1>3, <2>2, <3>1, <3>2, HandlerFrame, LoadFailsType
         DEF LoadRules, TypeOK, texts, watcher, Keeps
  <2>3. QED
    BY <1>3, <2>1, <2>2 DEF LoadRules
<1>4. CASE SetRules(p)
  <2>1. Holds(p)
    BY <1>4 DEF SetRules, ProcLinks
  <2>2. /\ proc' \in [Procs -> ProcState] /\ proc'[p].pc \in {"upsert", "idle"}
        /\ \A q \in Procs \ {p} : proc'[q] = proc[q]
    BY <1>4, GotoType, ReplyType DEF SetRules, PutPCs
  <2>3. QED
    BY <1>0, <1>4, <2>1, <2>2, HandlerFrame, EndLoadType
       DEF SetRules, TypeOK, texts, watcher
<1>5. CASE PutUpsert(p)
  <2>1. proc[p].new \in Raw
    BY <1>5, PutFields, InputAssumption DEF PutUpsert, PutPCs, Raw
  <2>2. /\ proc' \in [Procs -> ProcState] /\ proc'[p].pc \in {"undo_write", "idle"}
        /\ \A q \in Procs \ {p} : proc'[q] = proc[q]
    BY <1>5, GotoType, ReplyType DEF PutUpsert, PutPCs
  <2>3. row' \in Raw \cup {Absent} /\ file' \in File
    BY <1>5, <2>1 DEF PutUpsert, Upsert, UpsertFails, TypeOK
  <2>4. left' \in Budget
    BY <1>5, FaultType DEF PutUpsert
  <2>5. QED
    BY <1>5, <2>2, <2>3, <2>4, HandlerFrame, QuietFrame DEF PutUpsert, watcher, Keeps
<1>6. CASE UndoWrite(p)
  <2>1. Previous(p) \in File
    BY <1>6, PutFields DEF UndoWrite, PutPCs, Previous, File
  <2>2. /\ proc' \in [Procs -> ProcState] /\ proc'[p].pc \in {"undo_load", "idle"}
        /\ \A q \in Procs \ {p} : proc'[q] = proc[q]
    BY <1>6, GotoType, ReplyType DEF UndoWrite, PutPCs
  <2>3. left' \in Budget
    BY <1>6, FaultType DEF UndoWrite
  <2>4. CASE WriteFile(Previous(p))
    BY <1>6, <2>1, <2>2, <2>3, <2>4, HandlerFrame, SetFileType
       DEF UndoWrite, WriteFile, TypeOK, Keeps
  <2>5. CASE UNCHANGED <<texts, loading, watcher>>
    BY <1>6, <2>2, <2>3, <2>5, HandlerFrame, QuietFrame
       DEF UndoWrite, TypeOK, texts, watcher, Keeps
  <2>6. QED
    BY <1>6, <2>4, <2>5 DEF UndoWrite
<1>7. QED
  BY <1>1, <1>2, <1>3, <1>4, <1>5, <1>6

LEMMA GetTyped ==
  ASSUME Typed, NEW p \in Procs, GetRow(p) \/ GetWrite(p) \/ GetSeed(p)
  PROVE  Typed'
<1> USE DEF Typed
<1>1. CASE GetRow(p)
  <2>1. proc[p].raw \in Raw
    BY <1>1, GetFields DEF GetRow
  <2>2. CASE row # Absent
             /\ proc' = [proc EXCEPT ![p] = [pc |-> "get_write", raw |-> row]]
    <3>1. [pc |-> "get_write", raw |-> row] \in ProcState
      BY <2>2 DEF TypeOK, ProcState
    <3>2. /\ proc' \in [Procs -> ProcState] /\ proc'[p].pc = "get_write"
          /\ \A q \in Procs \ {p} : proc'[q] = proc[q]
      BY <2>2, <3>1 DEF TypeOK
    <3>3. QED
      BY <1>1, <3>2, FaultType, HandlerFrame, QuietFrame
         DEF GetRow, TypeOK, texts, watcher, Keeps
  <2>3. CASE Goto(p, "get_seed") \/ Reply(p)
    <3>1. Goto(p, "get_seed") => proc' = [proc EXCEPT ![p] = [pc |-> "get_seed", raw |-> proc[p].raw]]
      BY <1>1 DEF GetRow, Goto, TypeOK, ProcState
    <3>2. [pc |-> "get_seed", raw |-> proc[p].raw] \in ProcState
      BY <2>1 DEF ProcState
    <3>3. /\ proc' \in [Procs -> ProcState] /\ proc'[p].pc \in {"get_seed", "idle"}
          /\ \A q \in Procs \ {p} : proc'[q] = proc[q]
      BY <2>3, <3>1, <3>2, ReplyType DEF TypeOK
    <3>4. QED
      BY <1>1, <3>3, FaultType, HandlerFrame, QuietFrame
         DEF GetRow, TypeOK, texts, watcher, Keeps
  <2>4. QED
    BY <1>1, <2>2, <2>3 DEF GetRow
<1>2. CASE GetWrite(p)
  <2>1. proc[p].raw \in File
    BY <1>2, GetFields DEF GetWrite, File
  <2>2. left' \in Budget
    BY <1>2, FaultType DEF GetWrite
  <2>3. CASE WriteFile(proc[p].raw)
    BY <1>2, <2>1, <2>2, <2>3, HandlerFrame, SetFileType, ReplyType
       DEF GetWrite, WriteFile, TypeOK, Keeps
  <2>4. CASE UNCHANGED <<texts, loading, watcher>>
    BY <1>2, <2>2, <2>4, HandlerFrame, QuietFrame, ReplyType
       DEF GetWrite, TypeOK, texts, watcher, Keeps
  <2>5. QED
    BY <1>2, <2>3, <2>4 DEF GetWrite
<1>3. CASE GetSeed(p)
  <2>1. proc[p].raw \in Raw
    BY <1>3, GetFields DEF GetSeed
  <2>2. row' \in Raw \cup {Absent} /\ file' \in File
    BY <1>3, <2>1 DEF GetSeed, Upsert, UpsertFails, TypeOK
  <2>3. left' \in Budget
    BY <1>3, FaultType DEF GetSeed
  <2>4. QED
    BY <1>3, <2>2, <2>3, HandlerFrame, QuietFrame, ReplyType DEF GetSeed, watcher, Keeps
<1>4. QED
  BY <1>1, <1>2, <1>3

(* The startup and the storage sync.                                            *)
LEMMA SyncFrame ==
  ASSUME Typed, UNCHANGED <<mode, proc, waf, armed>>,
         row' \in Raw \cup {Absent}, file' \in File, LoadingType,
         event' \in BOOLEAN, watching' \in BOOLEAN, left' \in Budget,
         sync' \in SyncState, up' \in BOOLEAN, Keeps(Loaders \ {"sync"}), SyncLinks'
  PROVE  Typed'
<1>1. TypeOK'
  BY DEF Typed, TypeOK, mode, waf, LoadingType
<1>2. ProcLinks'
  BY LoaderAssumption DEF Typed, ProcLinks, Keeps, Loaders
<1>3. QED
  BY <1>1, <1>2 DEF Typed

\* Where the sync goes without a load or a text in hand.
PlainPCs == {"init", "start_watch", "watch", "idle", "read", "load"}

LEMMA SyncGoesType ==
  ASSUME TypeOK, SyncEnds \/ Started \/ \E pc \in PlainPCs : SyncPC(pc)
  PROVE  sync' \in SyncState /\ sync'.pc \in PlainPCs /\ up' \in BOOLEAN /\ SyncLinks'
<1>1. ASSUME NEW pc \in PlainPCs, SyncPC(pc)
      PROVE  sync' \in SyncState /\ sync'.pc \in PlainPCs /\ up' \in BOOLEAN
  BY <1>1 DEF TypeOK, SyncPC, SyncTo, SyncState, PlainPCs
<1>2. ASSUME Started
      PROVE  sync' \in SyncState /\ sync'.pc \in PlainPCs /\ up' \in BOOLEAN
  BY <1>2 DEF Started, Idle, SyncState, PlainPCs
<1>3. sync' \in SyncState /\ sync'.pc \in PlainPCs /\ up' \in BOOLEAN
  BY <1>1, <1>2 DEF SyncEnds, PlainPCs
<1>4. QED
  BY <1>3 DEF SyncLinks, PlainPCs

LEMMA SyncTyped ==
  ASSUME Typed, SyncStep
  PROVE  Typed'
<1> USE DEF Typed
<1>0. "sync" \in Loaders
  BY DEF Loaders
<1>1. CASE InitRules
  <2>1. \E pc \in PlainPCs : SyncPC(pc)
    BY <1>1 DEF InitRules, PlainPCs
  <2>2. CASE Loads /\ rules' = Content /\ stale' = FALSE /\ NoFault
    <3>1. LoadingType /\ Keeps(Loaders)
      BY <1>1, <2>2 DEF InitRules, Loads, TypeOK, LoadingType, Keeps, Holds
    <3>2. QED
      BY <1>1, <2>1, <2>2, <3>1, SyncFrame, SyncGoesType, FaultType
         DEF InitRules, TypeOK, texts, watcher, Keeps
  <2>3. CASE LoadFails
    BY <1>1, <2>1, <2>3, SyncFrame, SyncGoesType, LoadFailsType
       DEF InitRules, TypeOK, texts, watcher, Keeps, Holds
  <2>4. QED
    BY <1>1, <2>2, <2>3 DEF InitRules
<1>2. CASE StartWatch
  <2>1. \E pc \in PlainPCs : SyncPC(pc)
    BY <1>2 DEF StartWatch, PlainPCs
  <2>2. LoadingType /\ Keeps(Loaders)
    BY <1>2 DEF StartWatch, loading, TypeOK, LoadingType, Keeps, Holds
  <2>3. watching' \in BOOLEAN /\ left' \in Budget
    BY <1>2, FaultType DEF StartWatch, TypeOK
  <2>4. QED
    BY <1>2, <2>1, <2>2, <2>3, SyncFrame, SyncGoesType DEF StartWatch, TypeOK, texts, Keeps
<1>3. CASE Watch
  <2>1. CASE watching' = TRUE /\ BeginLoad("sync") /\ SyncPC("watch_set")
    <3>1. sync' \in SyncState /\ up' \in BOOLEAN /\ sync'.pc = "watch_set"
      BY <2>1 DEF TypeOK, SyncPC, SyncTo, SyncState
    <3>2. SyncLinks'
      BY <1>0, <2>1, <3>1, BeginLoadType DEF SyncLinks
    <3>3. QED
      BY <1>0, <1>3, <2>1, <3>1, <3>2, SyncFrame, BeginLoadType DEF Watch, TypeOK, texts
  <2>2. CASE watching' = TRUE /\ LoadFails /\ Started
    BY <1>3, <2>2, SyncFrame, SyncGoesType, LoadFailsType DEF Watch, TypeOK, texts, Keeps, Holds
  <2>3. CASE UNCHANGED <<watching, rules, load>> /\ stale' = TRUE /\ Fault /\ Started
    <3>1. LoadingType /\ Keeps(Loaders)
      BY <2>3 DEF TypeOK, LoadingType, Keeps, Holds
    <3>2. QED
      BY <1>3, <2>3, <3>1, SyncFrame, SyncGoesType, FaultType DEF Watch, TypeOK, texts, Keeps
  <2>4. QED
    BY <1>3, <2>1, <2>2, <2>3 DEF Watch
<1>4. CASE WatchSet
  BY <1>0, <1>4, SyncFrame, SyncGoesType, EndLoadType
     DEF WatchSet, SyncLinks, TypeOK, texts, watcher
<1>5. CASE SyncTick
  <2>1. \E pc \in PlainPCs : SyncPC(pc)
    BY <1>5 DEF SyncTick, PlainPCs
  <2>2. QED
    BY <1>5, <2>1, SyncFrame, SyncGoesType, QuietFrame DEF SyncTick, TypeOK, texts, watcher, Keeps
<1>6. CASE SyncRead
  <2>1. CASE SyncTo([pc |-> "row", raw |-> file])
    <3>1. sync' \in SyncState /\ SyncLinks' /\ up' \in BOOLEAN
      BY <2>1 DEF TypeOK, SyncTo, SyncState, SyncLinks
    <3>2. QED
      BY <1>6, <3>1, SyncFrame, FaultType, QuietFrame DEF SyncRead, TypeOK, texts, watcher, Keeps
  <2>2. CASE SyncEnds
    BY <1>6, <2>2, SyncFrame, SyncGoesType, FaultType, QuietFrame
       DEF SyncRead, TypeOK, texts, watcher, Keeps
  <2>3. QED
    BY <1>6, <2>1, <2>2 DEF SyncRead
<1>7. CASE SyncRow
  <2>1. left' \in Budget
    BY <1>7, FaultType DEF SyncRow
  <2>2. CASE row # Absent /\ SyncTo([pc |-> "write", raw |-> row])
    <3>1. sync' \in SyncState /\ SyncLinks' /\ up' \in BOOLEAN
      BY <2>2 DEF TypeOK, SyncTo, SyncState, SyncLinks, File
    <3>2. QED
      BY <1>7, <2>1, <3>1, SyncFrame, QuietFrame DEF SyncRow, TypeOK, texts, watcher, Keeps
  <2>3. CASE sync.raw # Missing /\ SyncTo([pc |-> "seed", raw |-> sync.raw])
    <3>1. sync.raw \in File
      BY <1>7 DEF SyncRow, TypeOK, SyncState
    <3>2. sync' \in SyncState /\ SyncLinks' /\ up' \in BOOLEAN
      BY <2>3, <3>1 DEF TypeOK, SyncTo, SyncState, SyncLinks
    <3>3. QED
      BY <1>7, <2>1, <3>2, SyncFrame, QuietFrame DEF SyncRow, TypeOK, texts, watcher, Keeps
  <2>4. CASE SyncEnds
    BY <1>7, <2>1, <2>4, SyncFrame, SyncGoesType, QuietFrame
       DEF SyncRow, TypeOK, texts, watcher, Keeps
  <2>5. QED
    BY <1>7, <2>2, <2>3, <2>4 DEF SyncRow
<1>8. CASE SyncWrite
  <2>1. sync.raw \in File
    BY <1>8 DEF SyncWrite, TypeOK, SyncState
  <2>2. SyncEnds \/ \E pc \in PlainPCs : SyncPC(pc)
    BY <1>8 DEF SyncWrite, PlainPCs
  <2>3. left' \in Budget
    BY <1>8, FaultType DEF SyncWrite
  <2>4. CASE WriteFile(sync.raw)
    BY <1>8, <2>1, <2>2, <2>3, <2>4, SyncFrame, SyncGoesType, SetFileType
       DEF SyncWrite, WriteFile, TypeOK, Keeps
  <2>5. CASE UNCHANGED <<texts, loading, watcher>>
    BY <1>8, <2>2, <2>3, <2>5, SyncFrame, SyncGoesType, QuietFrame
       DEF SyncWrite, TypeOK, texts, watcher, Keeps
  <2>6. QED
    BY <1>8, <2>4, <2>5 DEF SyncWrite
<1>9. CASE SyncSeed
  <2>1. sync.raw \in Raw
    BY <1>9 DEF SyncSeed, SyncLinks, TypeOK, SyncState, File
  <2>2. row' \in Raw \cup {Absent} /\ file' \in File /\ left' \in Budget
    BY <1>9, <2>1, FaultType DEF SyncSeed, Upsert, UpsertFails, TypeOK
  <2>3. QED
    BY <1>9, <2>2, SyncFrame, SyncGoesType, QuietFrame DEF SyncSeed, watcher, Keeps
<1>10. CASE SyncLoad
  <2>1. CASE BeginLoad("sync") /\ SyncPC("set")
    <3>1. sync' \in SyncState /\ up' \in BOOLEAN /\ sync'.pc = "set"
      BY <2>1 DEF TypeOK, SyncPC, SyncTo, SyncState
    <3>2. SyncLinks'
      BY <1>0, <2>1, <3>1, BeginLoadType DEF SyncLinks
    <3>3. QED
      BY <1>0, <1>10, <2>1, <3>1, <3>2, SyncFrame, BeginLoadType
         DEF SyncLoad, TypeOK, texts, watcher
  <2>2. CASE LoadFails /\ SyncEnds
    BY <1>10, <2>2, SyncFrame, SyncGoesType, LoadFailsType
       DEF SyncLoad, TypeOK, texts, watcher, Keeps, Holds
  <2>3. QED
    BY <1>10, <2>1, <2>2 DEF SyncLoad
<1>11. CASE SyncSet
  BY <1>0, <1>11, SyncFrame, SyncGoesType, EndLoadType
     DEF SyncSet, SyncLinks, TypeOK, texts, watcher
<1>12. QED
  BY <1>1, <1>2, <1>3, <1>4, <1>5, <1>6, <1>7, <1>8, <1>9, <1>10, <1>11 DEF SyncStep

(* The watchers, the requests and the environment.                              *)
LEMMA SlotFrame ==
  ASSUME Typed, UNCHANGED <<mode, texts, watching, sync, proc, up, waf>>,
         LoadingType, event' \in BOOLEAN, armed' \in BOOLEAN, left' \in Budget,
         Keeps(Loaders \ Slots)
  PROVE  Typed'
<1>1. TypeOK'
  BY DEF Typed, TypeOK, mode, texts, waf, LoadingType
<1>2. ProcLinks' /\ SyncLinks'
  BY LoaderAssumption DEF Typed, ProcLinks, SyncLinks, Keeps, Loaders
<1>3. QED
  BY <1>1, <1>2 DEF Typed

LEMMA WatcherTyped ==
  ASSUME Typed, \/ WatcherStep
                \/ \E s \in Slots : OtherReload(s) \/ SlotSet(s)
  PROVE  Typed'
<1> USE DEF Typed
<1>1. CASE Schedule
  BY <1>1, SlotFrame DEF Schedule, TypeOK, loading, LoadingType, Keeps, Holds
<1>2. ASSUME NEW s \in Slots, Fire(s) \/ BypassEvent(s) \/ OtherReload(s), BeginLoad(s)
      PROVE  Typed'
  <2>1. LoadingType /\ Keeps(Loaders \ {s}) /\ left' \in Budget
    BY <1>2, BeginLoadType DEF Loaders
  <2>2. QED
    BY <1>2, <2>1, SlotFrame DEF Fire, BypassEvent, OtherReload, TypeOK, watcher, Keeps
<1>3. ASSUME NEW s \in Slots, Fire(s) \/ BypassEvent(s), LoadFails
      PROVE  Typed'
  BY <1>3, SlotFrame, LoadFailsType DEF Fire, BypassEvent, TypeOK, Keeps, Holds
<1>4. ASSUME NEW s \in Slots, SlotSet(s)
      PROVE  Typed'
  <2>1. LoadingType /\ Keeps(Loaders \ {s})
    BY <1>4, EndLoadType DEF Loaders, SlotSet, Holds
  <2>2. QED
    BY <1>4, <2>1, SlotFrame DEF SlotSet, TypeOK, watcher, Keeps
<1>5. QED
  BY <1>1, <1>2, <1>3, <1>4 DEF WatcherStep, Fire, BypassEvent, OtherReload

LEMMA DiesTyped ==
  ASSUME Typed, Dies
  PROVE  Typed'
<1> USE DEF Typed
<1>1. left' \in Budget
  BY UsesType DEF Dies, Counted
<1>2. sync' \in SyncState /\ SyncLinks'
  BY DEF Dies, StartPC, SyncState, SyncLinks
<1>3. proc' \in [Procs -> ProcState] /\ ProcLinks'
  BY DEF Dies, Idle, ProcState, ProcLinks
<1>4. req' \in [Requesters -> ReqState]
  BY DEF Dies, Idle, ReqState
<1>5. load' \in [Loaders -> Load \cup {NoLoad}]
  BY DEF Dies
<1>6. QED
  BY <1>1, <1>2, <1>3, <1>4, <1>5 DEF Dies, TypeOK, mode, texts

RequestStep(r) == Select(r) \/ Lookup(r) \/ Build(r) \/ BuildFatal(r) \/ Insert(r)

LEMMA RequestTyped ==
  ASSUME Typed, NEW r \in Requesters, RequestStep(r)
  PROVE  Typed'
<1> USE DEF Typed
<1>1. ASSUME UNCHANGED <<mode, texts, loading, watcher, sync, proc, up, extra>>,
             left' \in Budget, req' \in [Requesters -> ReqState],
             override' \in Contents \cup {NoWAF}, served' \subseteq Contents
      PROVE  Typed'
  BY <1>1 DEF TypeOK, ProcLinks, SyncLinks, Holds, mode, texts, loading, watcher
<1>2. CASE Select(r)
  <2>1. left' \in Budget
    BY <1>2, UsesType DEF Select, Counted
  <2>2. QED
    BY <1>1, <1>2, <2>1 DEF Select, ReqTo, ReqState, TypeOK
<1>3. CASE Lookup(r)
  BY <1>1, <1>3 DEF Lookup, Serve, ReqTo, Idle, ReqState, TypeOK
<1>4. CASE Build(r)
  BY <1>1, <1>4 DEF Build, ReqTo, Idle, ReqState, TypeOK
<1>5. CASE BuildFatal(r)
  BY <1>5, DiesTyped DEF BuildFatal
<1>6. CASE Insert(r)
  <2>1. req[r].built \in Contents
    BY <1>6 DEF Insert, TypeOK, ReqState
  <2>2. QED
    BY <1>1, <1>6, <2>1, TextAssumption DEF Insert, Serve, ReqTo, Idle, ReqState, TypeOK
<1>7. QED
  BY <1>2, <1>3, <1>4, <1>5, <1>6 DEF RequestStep

LEMMA EnvironmentTyped ==
  ASSUME Typed, Environment
  PROVE  Typed'
<1> USE DEF Typed
<1>1. ASSUME NEW text \in EditTexts, Edit(text)
      PROVE  Typed'
  <2>1. LoadingType /\ Keeps(Loaders) /\ file' \in File /\ event' \in BOOLEAN
        /\ UNCHANGED <<watching, armed>>
    BY <1>1, SetFileType, InputAssumption DEF Edit
  <2>2. left' \in Budget
    BY <1>1, UsesType DEF Edit, Counted
  <2>3. TypeOK'
    BY <1>1, <2>1, <2>2 DEF Edit, TypeOK, LoadingType, mode, waf
  <2>4. ProcLinks' /\ SyncLinks'
    BY <1>1, <2>1 DEF Edit, ProcLinks, SyncLinks, Keeps, Loaders
  <2>5. QED
    BY <2>3, <2>4
<1>2. ASSUME NEW content \in Extra, EditExtra(content)
      PROVE  Typed'
  <2>1. left' \in Budget
    BY <1>2, UsesType DEF EditExtra, Counted
  <2>2. QED
    BY <1>2, <2>1 DEF EditExtra, TypeOK, ProcLinks, SyncLinks, Holds, mode, texts, loading, watcher
<1>3. ASSUME NEW text \in RowTexts, OtherNode(text)
      PROVE  Typed'
  <2>1. left' \in Budget
    BY <1>3, UsesType DEF OtherNode, Counted
  <2>2. QED
    BY <1>3, <2>1, InputAssumption
       DEF OtherNode, Upsert, TypeOK, ProcLinks, SyncLinks, Holds, mode, waf, loading, watcher
<1>4. QED
  BY <1>1, <1>2, <1>3, DiesTyped DEF Environment, Crash

LEMMA NextTyped == Typed /\ [Next]_vars => Typed'
<1> SUFFICES ASSUME Typed, [Next]_vars PROVE Typed'
  OBVIOUS
<1>1. CASE UNCHANGED vars
  BY <1>1 DEF vars, Typed, TypeOK, ProcLinks, SyncLinks, Holds
<1>2. CASE Next
  BY <1>2, SendTyped, PutTyped, GetTyped, SyncTyped, WatcherTyped, RequestTyped,
     EnvironmentTyped DEF Next, HandlerStep, RequestStep
<1>3. QED
  BY <1>1, <1>2

(* Every variable keeps its type: what is in force is always a text that loads, and *)
(* only rule files from which Coraza builds a WAF ever judge a request.             *)
THEOREM TypeCorrect == Spec => []TypeOK
<1>1. Spec => []Typed
  BY InitTyped, NextTyped, PTL DEF Spec
<1>2. Typed => TypeOK
  BY DEF Typed
<1>3. QED
  BY <1>1, <1>2, PTL

-------------------------------------------------------------------------------
(* Rules that differ from the file are about to be replaced.  A fresh load holds  *)
(* what the file holds; one that is neither fresh nor overtaken can still put an   *)
(* old text in force, so while there is one a load of the file is to follow it.   *)

Covered == Reloading \/ stale
Late(l) == Holds(l) /\ ~load[l].fresh /\ ~load[l].overtaken

FreshLoads == \A l \in Loaders : Holds(l) /\ load[l].fresh => load[l].text = Content
LateLoads == (\E l \in Loaders : Late(l)) => Covered

\* The rules were loaded, or are being loaded, since the start of the process.
Loaded ==
    \/ up
    \/ kind # "cache" /\ sync.pc # "init"
    \/ sync.pc = "watch_set"
LoadedRules == Loaded /\ rules # Content => Covered
Tracking == FreshLoads /\ LateLoads /\ LoadedRules

\* Nothing runs beside the first load of the start.
Starting ==
    sync.pc = "init" =>
        /\ ~up /\ ~watching /\ ~event /\ ~armed
        /\ \A l \in Loaders : ~Holds(l)
        /\ \A p \in Procs : proc[p].pc = "idle"
OnlyCacheCopies == \A p \in Procs : proc[p].pc = "get_write" => kind = "cache"

Following == Tracking /\ Starting /\ OnlyCacheCopies

LEMMA InitFollowing == Init => Following
  BY DEF Init, Following, Tracking, FreshLoads, LateLoads, Late, LoadedRules, Loaded, Starting,
         OnlyCacheCopies, Holds, StartPC, Idle

(* What each helper establishes.  File and kind stay as they are unless SetFile    *)
(* changes the file.                                                              *)
LEMMA CoveredSuffices ==
  ASSUME FreshLoads', Covered'
  PROVE  Tracking'
  BY DEF Tracking, LateLoads, LoadedRules

LEMMA BeginLoadFollows ==
  ASSUME Typed, Following, NEW l \in Loaders, BeginLoad(l), UNCHANGED <<file, kind>>
  PROVE  Tracking'
<1>1. load' = [load EXCEPT ![l] = [text |-> Content, fresh |-> TRUE, overtaken |-> FALSE]]
  BY DEF BeginLoad
<1>2. [text |-> Content, fresh |-> TRUE, overtaken |-> FALSE] # NoLoad
  <2>1. [text |-> Content, fresh |-> TRUE, overtaken |-> FALSE] \in Load
    BY DEF BeginLoad, Loads, Load
  <2>2. QED
    BY <2>1, LoaderAssumption
<1>3. load'[l].fresh /\ load'[l].text = Content /\ Holds(l)'
  BY <1>1, <1>2 DEF Typed, TypeOK, Holds
<1>4. \A m \in Loaders \ {l} : load'[m] = load[m]
  BY <1>1 DEF Typed, TypeOK
<1>5. Content' = Content
  BY DEF Content
<1>6. FreshLoads'
  BY <1>3, <1>4, <1>5 DEF Following, Tracking, FreshLoads, Holds
<1>7. Covered'
  BY <1>3 DEF Covered, Reloading, Holds
<1>8. QED
  BY <1>6, <1>7, CoveredSuffices

LEMMA LoadFailsFollows ==
  ASSUME Following, LoadFails, UNCHANGED <<file, kind>>
  PROVE  Tracking'
<1>1. FreshLoads'
  BY DEF LoadFails, Following, Tracking, FreshLoads, Holds, Content
<1>2. QED
  BY <1>1, CoveredSuffices DEF LoadFails, Covered

(* After a write every load in progress is late, but the watcher or the writer is   *)
(* to load the file, or it is known that nobody is.                               *)
LEMMA SetFileFollows ==
  ASSUME Typed, NEW text, NEW loads \in BOOLEAN, SetFile(text, loads),
         loads => Reloading'
  PROVE  Tracking'
<1>1. \A l \in Loaders : Holds(l)' => ~load'[l].fresh
  <2>1. ASSUME NEW l \in Loaders, load[l] # NoLoad
        PROVE  ~[load[l] EXCEPT !.fresh = FALSE].fresh
    BY <2>1 DEF Typed, TypeOK, Load
  <2>2. QED
    BY <2>1 DEF SetFile, Holds
<1>2. FreshLoads'
  BY <1>1 DEF FreshLoads
<1>3. Covered'
  BY DEF SetFile, Covered, Reloading
<1>4. QED
  BY <1>2, <1>3, CoveredSuffices

(* The rules become what the file holds and every other old load is overtaken, or   *)
(* they become an old text that is known to be one, or that a load is to replace.   *)
LEMMA EndLoadFollows ==
  ASSUME Typed, Following, NEW l \in Loaders, Holds(l), EndLoad(l),
         UNCHANGED <<file, kind, event, armed>>, sync.pc = "load" => sync'.pc = "load",
         \A p \in Procs : proc[p].pc \in {"load", "undo_write", "undo_load"} => proc'[p] = proc[p]
  PROVE  Tracking'
<1>1. load[l] \in Load /\ rules' = load[l].text /\ load'[l] = NoLoad
      /\ stale' = (load[l].overtaken \/ (stale /\ ~load[l].fresh))
  BY DEF Typed, TypeOK, EndLoad, Holds
<1>2. \A m \in Loaders \ {l} : load[m] = NoLoad => load'[m] = NoLoad
  BY DEF EndLoad
<1>3. ASSUME NEW m \in Loaders \ {l}, load[m] # NoLoad
      PROVE  /\ load'[m].text = load[m].text /\ load'[m].fresh = load[m].fresh
             /\ load'[m].overtaken = (load[m].overtaken \/ (load[l].fresh /\ ~load[m].fresh))
             /\ load'[m] # NoLoad
  <2>1. load[m] \in Load /\ load[l].fresh \in BOOLEAN
    BY <1>1, <1>3 DEF Typed, TypeOK, Load
  <2>2. load'[m] = [load[m] EXCEPT !.overtaken = @ \/ (load[l].fresh /\ ~load[m].fresh)]
    BY <1>3 DEF EndLoad
  <2>3. load'[m] \in Load
    BY <2>1, <2>2 DEF Load
  <2>4. QED
    BY <2>1, <2>2, <2>3, LoaderAssumption DEF Load
<1>4. Content' = Content
  BY DEF Content
<1>5. FreshLoads'
  BY <1>1, <1>2, <1>3, <1>4 DEF Following, Tracking, FreshLoads, Holds
<1>6. CASE load[l].fresh
  <2>1. rules' = Content'
    BY <1>1, <1>4, <1>6 DEF Following, Tracking, FreshLoads
  <2>2. \A m \in Loaders : ~Late(m)'
    BY <1>1, <1>2, <1>3, <1>6 DEF Late, Holds
  <2>3. QED
    BY <1>5, <2>1, <2>2 DEF Tracking, LateLoads, LoadedRules
<1>7. CASE ~load[l].fresh
  <2>1. load[l].overtaken \/ Covered
    BY <1>7 DEF Following, Tracking, LateLoads, Late
  <2>2. CASE Reloading
    <3>1. ASSUME NEW m \in Loaders, load[m] # NoLoad, load[m].fresh
          PROVE  load'[m] # NoLoad /\ load'[m].fresh
      BY <1>3, <1>7, <3>1
    <3>2. Reloading'
      BY <2>2, <3>1 DEF Reloading
    <3>3. QED
      BY <1>5, <3>2, CoveredSuffices DEF Covered
  <2>3. CASE load[l].overtaken \/ stale
    <3>1. stale'
      BY <1>1, <1>7, <2>3
    <3>2. QED
      BY <1>5, <3>1, CoveredSuffices DEF Covered
  <2>4. QED
    BY <2>1, <2>2, <2>3 DEF Covered
<1>8. QED
  BY <1>6, <1>7

(* A step that loads nothing and leaves file and kind alone.                      *)
LEMMA QuietFollows ==
  ASSUME Following, UNCHANGED <<file, kind, rules, load, stale>>,
         Reloading => Reloading', Loaded' => Loaded
  PROVE  Tracking'
<1>1. FreshLoads'
  BY DEF Following, Tracking, FreshLoads, Holds, Content
<1>2. Covered => Covered'
  BY DEF Covered
<1>3. LateLoads' /\ LoadedRules'
  BY <1>2 DEF Following, Tracking, LateLoads, Late, Holds, LoadedRules, Content
<1>4. QED
  BY <1>1, <1>3 DEF Tracking

(* The handlers.  None runs beside the first load of a start.                      *)
LEMMA HandlerFollows ==
  ASSUME Typed, Following, NEW p \in Procs,
         \/ \E new \in PutTexts, tag \in Tags : PutStart(p, new, tag)
         \/ GetStart(p) \/ HandlerStep(p)
  PROVE  Following'
<1> USE DEF HandlerStep
<1>1. proc \in [Procs -> ProcState]
  BY DEF Typed, TypeOK
<1>2. \A q \in Procs \ {p} : proc'[q] = proc[q]
  BY <1>1 DEF PutStart, GetStart, PutRow, PutWrite, LoadRules, SetRules, PutUpsert, UndoWrite,
              GetRow, GetWrite, GetSeed, Reply, Goto
<1>3. UNCHANGED <<kind, sync, up>>
  BY DEF PutStart, GetStart, PutRow, PutWrite, LoadRules, SetRules, PutUpsert, UndoWrite,
         GetRow, GetWrite, GetSeed, mode
<1>4. sync.pc # "init"
  BY DEF Following, Starting, PutStart, GetStart, PutRow, PutWrite, LoadRules, SetRules,
         PutUpsert, UndoWrite, GetRow, GetWrite, GetSeed
<1>5. Starting'
  BY <1>3, <1>4 DEF Starting
<1>6. Loaded' => Loaded
  BY <1>3 DEF Loaded
<1>7. OnlyCacheCopies' /\ Tracking'
  <2>1. ASSUME proc'[p].pc # "get_write"
        PROVE  OnlyCacheCopies'
    BY <1>2, <1>3, <2>1 DEF Following, OnlyCacheCopies
  <2>2. ASSUME UNCHANGED <<file, rules, load, stale, event, armed>>,
               proc[p].pc \notin {"load", "undo_write", "undo_load"}
        PROVE  Tracking'
    <3>1. Reloading => Reloading'
      BY <1>2, <1>3, <2>2 DEF Reloading
    <3>2. QED
      BY <1>3, <1>6, <2>2, <3>1, QuietFollows
  <2>3. CASE \/ \E new \in PutTexts, tag \in Tags : PutStart(p, new, tag)
             \/ GetStart(p)
    BY <1>1, <2>1, <2>2, <2>3 DEF PutStart, GetStart, texts, loading, watcher
  <2>4. CASE PutRow(p)
    BY <1>1, <2>1, <2>2, <2>4 DEF PutRow, Reply, Idle, texts, loading, watcher, ProcState
  <2>5. CASE PutWrite(p)
    <3>1. proc'[p].pc \in {"load", "upsert", "idle"}
      BY <1>1, <2>5 DEF PutWrite, Reply, Goto, Idle, ProcState
    <3>2. CASE WriteFile(proc[p].new) /\ Goto(p, IF kind = "cache" THEN "upsert" ELSE "load")
      <4>1. kind # "cache" => Reloading'
        BY <1>1, <1>3, <3>2 DEF Goto, ProcState, Reloading
      <4>2. QED
        BY <2>1, <3>1, <3>2, <4>1, SetFileFollows DEF WriteFile
    <3>3. CASE UNCHANGED <<texts, loading, watcher>>
      BY <2>1, <2>2, <2>5, <3>1, <3>3 DEF PutWrite, texts, loading, watcher
    <3>4. QED
      BY <2>5, <3>2, <3>3 DEF PutWrite
  <2>6. CASE LoadRules(p)
    <3>1. proc'[p].pc \in {"set", "undo_write", "undo_set", "idle"}
      BY <1>1, <2>6 DEF LoadRules, Reply, Goto, Idle, ProcState
    <3>2. UNCHANGED <<file, kind>>
      BY <1>3, <2>6 DEF LoadRules, texts
    <3>3. QED
      BY <2>1, <2>6, <3>1, <3>2, BeginLoadFollows, LoadFailsFollows DEF LoadRules, Loaders
  <2>7. CASE SetRules(p)
    <3>1. proc'[p].pc \in {"upsert", "idle"}
      BY <1>1, <2>7 DEF SetRules, Reply, Goto, Idle, ProcState
    <3>2. UNCHANGED <<file, kind, event, armed>> /\ Holds(p)
      BY <1>3, <2>7 DEF SetRules, texts, watcher, Typed, ProcLinks
    <3>3. \A q \in Procs : proc[q].pc \in {"load", "undo_write", "undo_load"} => proc'[q] = proc[q]
      BY <1>2, <2>7 DEF SetRules
    <3>4. QED
      BY <1>3, <2>1, <2>7, <3>1, <3>2, <3>3, EndLoadFollows DEF SetRules, Loaders
  <2>8. CASE PutUpsert(p)
    BY <1>1, <2>1, <2>2, <2>8
       DEF PutUpsert, Upsert, UpsertFails, Reply, Goto, Idle, loading, watcher, ProcState
  <2>9. CASE UndoWrite(p)
    <3>1. proc'[p].pc = IF kind = "cache" THEN "idle" ELSE "undo_load"
      BY <1>1, <2>9 DEF UndoWrite, Reply, Goto, Idle, ProcState
    <3>2. kind # "cache" => Reloading'
      BY <1>3, <3>1 DEF Reloading
    <3>3. CASE WriteFile(Previous(p))
      BY <2>1, <3>1, <3>2, <3>3, SetFileFollows DEF WriteFile
    <3>4. CASE UNCHANGED <<texts, loading, watcher>>
      <4>1. Reloading => Reloading'
        BY <1>2, <1>3, <3>2, <3>4 DEF Reloading, loading, watcher
      <4>2. QED
        BY <1>3, <1>6, <2>1, <3>1, <3>4, <4>1, QuietFollows DEF texts, loading
    <3>5. QED
      BY <2>9, <3>3, <3>4 DEF UndoWrite
  <2>10. CASE GetRow(p)
    <3>1. OnlyCacheCopies'
      BY <1>1, <1>2, <1>3, <2>10
         DEF GetRow, Reply, Goto, Idle, ProcState, Following, OnlyCacheCopies
    <3>2. QED
      BY <2>2, <2>10, <3>1 DEF GetRow, texts, loading, watcher
  <2>11. CASE GetWrite(p)
    <3>1. proc'[p].pc = "idle" /\ kind = "cache"
      BY <1>1, <2>11 DEF GetWrite, Reply, Idle, Following, OnlyCacheCopies
    <3>2. CASE WriteFile(proc[p].raw)
      BY <2>1, <3>1, <3>2, SetFileFollows DEF WriteFile
    <3>3. CASE UNCHANGED <<texts, loading, watcher>>
      BY <2>1, <2>2, <2>11, <3>1, <3>3 DEF GetWrite, texts, loading, watcher
    <3>4. QED
      BY <2>11, <3>2, <3>3 DEF GetWrite
  <2>12. CASE GetSeed(p)
    BY <1>1, <2>1, <2>2, <2>12
       DEF GetSeed, Upsert, UpsertFails, Reply, Idle, loading, watcher
  <2>13. QED
    BY <2>3, <2>4, <2>5, <2>6, <2>7, <2>8, <2>9, <2>10, <2>11, <2>12
<1>8. QED
  BY <1>5, <1>7 DEF Following

(* The sync, and main before it.                                                *)
LEMMA SyncFollows ==
  ASSUME Typed, Following, SyncStep
  PROVE  Following'
<1> USE DEF SyncStep
<1>0. "sync" \in Loaders
  BY DEF Loaders
<1>1. UNCHANGED <<kind, proc, armed>>
  BY DEF InitRules, StartWatch, Watch, WatchSet, SyncTick, SyncRead, SyncRow, SyncWrite,
         SyncSeed, SyncLoad, SyncSet, mode, watcher, WriteFile, SetFile
<1>2. OnlyCacheCopies'
  BY <1>1 DEF Following, OnlyCacheCopies
<1>3. Starting'
  <2>1. CASE InitRules
    BY <2>1 DEF InitRules, LoadFails, SyncPC, SyncTo, watcher, Following, Starting, Holds
  <2>2. CASE ~InitRules
    <3>1. sync'.pc # "init"
      BY <2>2 DEF StartWatch, Watch, WatchSet, SyncTick, SyncRead, SyncRow, SyncWrite, SyncSeed,
                  SyncLoad, SyncSet, SyncEnds, SyncPC, SyncTo, Started, Idle
    <3>2. QED
      BY <3>1 DEF Starting
  <2>3. QED
    BY <2>1, <2>2
<1>4. ASSUME UNCHANGED <<file, event>>, \A l \in Loaders : ~Holds(l), load' = load,
             rules' = Content
      PROVE  Tracking'
  <2>1. Content' = Content
    BY <1>1, <1>4 DEF Content
  <2>2. QED
    BY <1>4, <2>1 DEF Tracking, FreshLoads, LateLoads, LoadedRules, Late, Holds
<1>5. ASSUME UNCHANGED <<file, rules, load, stale, event>>, sync.pc # "load", Loaded' => Loaded
      PROVE  Tracking'
  <2>1. Reloading => Reloading'
    BY <1>1, <1>5 DEF Reloading
  <2>2. QED
    BY <1>1, <1>5, <2>1, QuietFollows
<1>6. SyncEnds /\ sync.pc \notin {"init", "watch"} => (Loaded' => Loaded)
  BY <1>1 DEF SyncEnds, SyncPC, SyncTo, Started, Idle, Loaded
<1>7. Tracking'
  <2>1. CASE InitRules
    <3>1. CASE Loads /\ rules' = Content
      BY <1>4, <2>1, <3>1 DEF InitRules, texts, watcher, Following, Starting
    <3>2. CASE LoadFails
      BY <1>1, <2>1, <3>2, LoadFailsFollows DEF InitRules, texts
    <3>3. QED
      BY <2>1, <3>1, <3>2 DEF InitRules
  <2>2. CASE StartWatch
    <3>1. Loaded' => Loaded
      BY <1>1, <2>2 DEF StartWatch, SyncPC, SyncTo, Loaded
    <3>2. QED
      BY <1>5, <2>2, <3>1 DEF StartWatch, texts, loading
  <2>3. CASE Watch
    <3>1. CASE UNCHANGED <<rules, load>> /\ stale' = TRUE
      <4>1. FreshLoads'
        BY <1>1, <2>3, <3>1 DEF Watch, texts, Following, Tracking, FreshLoads, Holds, Content
      <4>2. QED
        BY <3>1, <4>1, CoveredSuffices DEF Covered
    <3>2. QED
      BY <1>0, <1>1, <2>3, <3>1, BeginLoadFollows, LoadFailsFollows DEF Watch, texts
  <2>4. CASE WatchSet \/ SyncSet
    BY <1>0, <1>1, <2>4, EndLoadFollows DEF WatchSet, SyncSet, texts, watcher, Typed, SyncLinks
  <2>5. CASE SyncTick
    <3>1. Loaded' => Loaded
      BY <1>1, <2>5 DEF SyncTick, SyncPC, SyncTo, Loaded
    <3>2. QED
      BY <1>5, <2>5, <3>1 DEF SyncTick, texts, loading, watcher
  <2>6. CASE SyncRead \/ SyncRow
    <3>1. Loaded' => Loaded
      BY <1>1, <1>6, <2>6 DEF SyncRead, SyncRow, SyncTo, Loaded
    <3>2. QED
      BY <1>5, <2>6, <3>1 DEF SyncRead, SyncRow, texts, loading, watcher
  <2>7. CASE SyncWrite
    <3>1. CASE WriteFile(sync.raw)
      <4>1. CASE kind # "cache" /\ ~SyncPC("load")
        BY <1>5, <1>6, <2>7, <4>1 DEF SyncWrite, texts, loading, watcher
      <4>2. CASE kind = "cache" \/ SyncPC("load")
        <5>1. kind # "cache" => Reloading'
          BY <4>2 DEF SyncPC, SyncTo, Reloading
        <5>2. QED
          BY <3>1, <5>1, SetFileFollows DEF WriteFile
      <4>3. QED
        BY <4>1, <4>2
    <3>2. CASE UNCHANGED <<texts, loading, watcher>> /\ SyncEnds
      BY <1>5, <1>6, <2>7, <3>2 DEF SyncWrite, texts, loading, watcher
    <3>3. QED
      BY <2>7, <3>1, <3>2 DEF SyncWrite
  <2>8. CASE SyncSeed
    BY <1>5, <1>6, <2>8 DEF SyncSeed, Upsert, UpsertFails, loading, watcher
  <2>9. CASE SyncLoad
    BY <1>0, <1>1, <2>9, BeginLoadFollows, LoadFailsFollows DEF SyncLoad, texts
  <2>10. QED
    BY <2>1, <2>2, <2>3, <2>4, <2>5, <2>6, <2>7, <2>8, <2>9
<1>8. QED
  BY <1>2, <1>3, <1>7 DEF Following

LEMMA WatcherFollows ==
  ASSUME Typed, Following, \/ WatcherStep
                           \/ \E s \in Slots : OtherReload(s) \/ SlotSet(s)
  PROVE  Following'
<1>1. UNCHANGED <<kind, file, sync, proc, up>>
  BY DEF WatcherStep, Schedule, Fire, BypassEvent, OtherReload, SlotSet, mode, texts
<1>2. sync.pc # "init"
  BY DEF WatcherStep, Schedule, Fire, BypassEvent, OtherReload, SlotSet, Following, Starting,
         Holds, Loaders
<1>3. Starting' /\ OnlyCacheCopies'
  BY <1>1, <1>2 DEF Following, Starting, OnlyCacheCopies
<1>4. CASE Schedule
  <2>1. Reloading'
    BY <1>4 DEF Schedule, Reloading
  <2>2. FreshLoads'
    BY <1>1, <1>4 DEF Schedule, loading, Following, Tracking, FreshLoads, Holds, Content
  <2>3. QED
    BY <1>3, <2>1, <2>2, CoveredSuffices DEF Following, Covered
<1>5. ASSUME NEW s \in Slots, Fire(s) \/ BypassEvent(s) \/ OtherReload(s)
      PROVE  Following'
  BY <1>1, <1>3, <1>5, BeginLoadFollows, LoadFailsFollows
     DEF Fire, BypassEvent, OtherReload, Following, Loaders
<1>6. ASSUME NEW s \in Slots, SlotSet(s)
      PROVE  Following'
  BY <1>1, <1>3, <1>6, EndLoadFollows DEF SlotSet, watcher, Following, Loaders, Holds
<1>7. QED
  BY <1>4, <1>5, <1>6 DEF WatcherStep

LEMMA DiesFollows ==
  ASSUME Dies
  PROVE  Following'
<1>1. /\ \A l \in Loaders : load'[l] = NoLoad
      /\ \A p \in Procs : proc'[p].pc = "idle"
      /\ ~up' /\ ~watching' /\ ~event' /\ ~armed'
      /\ kind' = kind /\ sync'.pc = IF kind = "cache" THEN "read" ELSE "init"
  BY DEF Dies, Idle, StartPC, mode
<1>2. QED
  BY <1>1 DEF Following, Tracking, FreshLoads, LateLoads, Late, LoadedRules, Loaded, Starting,
              OnlyCacheCopies, Holds

LEMMA OthersFollow ==
  ASSUME Typed, Following, Environment \/ \E r \in Requesters : RequestStep(r)
  PROVE  Following'
<1>1. ASSUME UNCHANGED <<kind, file, loading, watcher, sync, proc, up>>
      PROVE  Following'
  BY <1>1 DEF loading, watcher, Following, Tracking, FreshLoads, LateLoads, Late, LoadedRules,
              Loaded, Covered, Reloading, Starting, OnlyCacheCopies, Holds, Content
<1>2. ASSUME NEW text \in EditTexts, Edit(text)
      PROVE  Following'
  <2>1. Tracking'
    BY <1>2, SetFileFollows DEF Edit
  <2>2. UNCHANGED <<kind, sync, proc, up, watching, armed>>
    BY <1>2 DEF Edit, SetFile, mode
  <2>3. OnlyCacheCopies'
    BY <2>2 DEF Following, OnlyCacheCopies
  <2>4. ASSUME sync.pc = "init"
        PROVE  ~event' /\ \A l \in Loaders : ~Holds(l)'
    BY <1>2, <2>4 DEF Edit, SetFile, Following, Starting, Holds
  <2>5. Starting'
    BY <2>2, <2>4 DEF Following, Starting
  <2>6. QED
    BY <2>1, <2>3, <2>5 DEF Following
<1>3. QED
  BY <1>1, <1>2, DiesFollows
     DEF Environment, EditExtra, OtherNode, Upsert, Crash, RequestStep, Select, Lookup, Build,
         BuildFatal, Insert, mode, texts

LEMMA NextFollowing == Typed /\ Following /\ [Next]_vars => Following'
<1> SUFFICES ASSUME Typed, Following, [Next]_vars PROVE Following'
  OBVIOUS
<1>1. CASE UNCHANGED vars
  BY <1>1 DEF vars, Following, Tracking, FreshLoads, LateLoads, Late, LoadedRules,
              Loaded, Covered, Reloading, Starting, OnlyCacheCopies, Holds, Content
<1>2. CASE Next
  BY <1>2, HandlerFollows, SyncFollows, WatcherFollows, OthersFollow DEF Next, RequestStep
<1>3. QED
  BY <1>1, <1>2

(* In whatever order the file is edited, put, rolled back and synced and loads of it *)
(* run beside each other, rules that differ from the file are about to be replaced,  *)
(* unless the last load failed, was overtaken, or nobody was watching.               *)
THEOREM RulesFollow == Spec => []RulesFollowFile
<1>1. Spec => [](Typed /\ Following)
  BY InitTyped, NextTyped, InitFollowing, NextFollowing, PTL DEF Spec
<1>2. Following => RulesFollowFile
  BY DEF Following, Tracking, LoadedRules, Loaded, Covered, RulesFollowFile
<1>3. QED
  BY <1>1, <1>2, PTL

-------------------------------------------------------------------------------
(* The override WAF that was served once is the one in the cache.                   *)

ServedFromCache ==
    /\ served \subseteq {override}
    /\ override = NoWAF => served = {}

LEMMA NextServed == TypeOK /\ ServedFromCache /\ [Next]_vars => ServedFromCache'
<1> SUFFICES ASSUME TypeOK, ServedFromCache, [Next]_vars PROVE ServedFromCache'
  OBVIOUS
<1>1. CASE UNCHANGED <<override, served>>
  BY <1>1 DEF ServedFromCache
<1>2. CASE Dies
  BY <1>2 DEF Dies, ServedFromCache
<1>3. ASSUME NEW r \in Requesters, Lookup(r)
      PROVE  ServedFromCache'
  BY <1>3 DEF Lookup, Serve, ServedFromCache
<1>4. ASSUME NEW r \in Requesters, Insert(r)
      PROVE  ServedFromCache'
  <2>1. req[r].built \in Contents
    BY <1>4 DEF Insert, TypeOK, ReqState
  <2>2. QED
    BY <1>4, <2>1, TextAssumption DEF Insert, Serve, ServedFromCache
<1>5. CASE SyncStep \/ WatcherStep \/ \E s \in Slots : OtherReload(s) \/ SlotSet(s)
  BY <1>1, <1>5
     DEF SyncStep, InitRules, StartWatch, Watch, WatchSet, SyncTick, SyncRead, SyncRow, SyncWrite,
         SyncSeed, SyncLoad, SyncSet, WatcherStep, Schedule, Fire, BypassEvent, OtherReload,
         SlotSet, waf
<1>6. ASSUME NEW p \in Procs,
             \/ \E new \in PutTexts, tag \in Tags : PutStart(p, new, tag)
             \/ GetStart(p) \/ HandlerStep(p)
      PROVE  ServedFromCache'
  BY <1>1, <1>6
     DEF PutStart, GetStart, HandlerStep, PutRow, PutWrite, LoadRules, SetRules, PutUpsert,
         UndoWrite, GetRow, GetWrite, GetSeed, waf
<1>7. CASE \/ Environment \/ \E r \in Requesters : Select(r) \/ Build(r) \/ BuildFatal(r)
  BY <1>1, <1>2, <1>7
     DEF Environment, Edit, EditExtra, OtherNode, Crash, Select, Build, BuildFatal, waf
<1>8. CASE UNCHANGED vars
  BY <1>1, <1>8 DEF vars
<1>9. QED
  BY <1>3, <1>4, <1>5, <1>6, <1>7, <1>8 DEF Next

(* All requests that one process serves by an extra rule file are judged by the same  *)
(* rules, however many of them build the WAF at once while the file changes.          *)
THEOREM OneOverrideHolds == Spec => []OneOverride
<1>1. Init => ServedFromCache
  BY DEF Init, ServedFromCache
<1>2. Spec => []ServedFromCache
  BY <1>1, NextServed, TypeCorrect, PTL DEF Spec
<1>3. ServedFromCache => OneOverride
  <2>1. CASE served = {}
    BY <2>1, FS_EmptySet DEF OneOverride
  <2>2. CASE served = {override}
    <3>1. Cardinality({override}) = 1
      BY FS_Singleton, Zenon
    <3>2. QED
      BY <2>2, <3>1 DEF OneOverride
  <2>3. QED
    BY <2>1, <2>2 DEF ServedFromCache
<1>4. QED
  BY <1>2, <1>3, PTL
===============================================================================
