------------------------------- MODULE Ingest -------------------------------
(***************************************************************************)
(* The event store: before every query a node copies the lines that are new  *)
(* in its WAF event log to waf_events (syncWAFEvents), starting at the       *)
(* offset in ingest_state, a row that nodes with a common database share.    *)
(* The admin page reads the store page by page (ReadWAFLogs); the other      *)
(* users (statistics, status, download, latest block) only query after it.   *)
(*                                                                           *)
(* Requests write the log, and it is rotated, between any two steps of a     *)
(* sync.  A step is one stat, one read of the file to its end, one query or  *)
(* one commit; the inserts of a transaction show at its commit.              *)
(***************************************************************************)
EXTENDS EventLog, LogPages, FiniteSets

CONSTANTS
    Retention,  \* WAF_DB_RETENTION_DAYS, in ticks; 0 keeps everything
    PageSize,   \* lines of a page of the admin page
    NoAsk,      \* a sync for a user that asks for no page
    MaxFaults   \* bound: failed operations

ASSUME RetentionAssumption == Retention \in Nat /\ PageSize \in Nat \ {0} /\ MaxFaults \in Nat

VARIABLES
    rows,      \* waf_events: the events with their row ids
    nextRow,   \* the next row id
    ingest,    \* ingest_state
    sync,      \* node -> its progress through a sync and the query after it
    page,      \* the page that the admin page shows
    faults,    \* a count, for the bound
    \* History:
    whole,     \* node -> the offset is the end of a reading of its file from the start
    torn,      \* events of which a committed sync read the head at the end of the file
    everStored \* all rows there ever were

store == <<rows, nextRow, ingest>>
history == <<whole, torn, everStored>>
vars == <<log, writing, clock, emitted, splits, rotations,
          rows, nextRow, ingest, sync, page, faults, whole, torn, everStored>>

NoTime == <<>>  \* no row yet

Row == [event : Event, id : Nat]
Page == [start : Nat, end : Nat, shown : SUBSET Row, moved : BOOLEAN]
Asks(pg) == {NoAsk, Newest, PrevOf(pg), NextOf(pg)}
Ask == {NoAsk, Newest} \cup [dir : {"prev", "next"}, cursor : Nat]

SyncState ==
    [pc : {"idle"}]
    \cup [pc : {"load"}, ask : Ask, size : Nat, mtime : Stamp]
    \cup [pc : {"read"}, ask : Ask, offset : Nat, mtime : Stamp]
    \cup [pc : {"stat", "commit"}, ask : Ask, offset : Nat, end : Nat, mtime : Stamp,
          adds : SUBSET Row, cut : SUBSET Event, file : 0..MaxRotations]
    \cup [pc : {"count"}, ask : Ask]
    \cup [pc : {"select"}, ask : Ask, bounds : [start : Nat, end : Nat]]

TypeOK ==
    /\ LogTypeOK
    /\ rows \subseteq Row /\ \A r \in rows : r.id < nextRow
    /\ ingest \in [offset : Nat, mtime : {NoTime} \cup Stamp]
    /\ sync \in [Nodes -> SyncState]
    /\ page \in Page /\ page.end - page.start = Cardinality(page.shown)
    /\ faults \in 0..MaxFaults
    /\ whole \in [Nodes -> BOOLEAN] /\ torn \subseteq Event /\ everStored \subseteq Row

Init ==
    /\ LogInit
    /\ rows = {} /\ nextRow = 1
    /\ ingest = [offset |-> 0, mtime |-> NoTime]
    /\ sync = [n \in Nodes |-> [pc |-> "idle"]]
    /\ page = [start |-> 0, end |-> 0, shown |-> {}, moved |-> FALSE]
    /\ faults = 0
    /\ whole = [n \in Nodes |-> TRUE]
    /\ torn = {}
    /\ everStored = {}

-------------------------------------------------------------------------------
(* The log changes.                                                             *)

LogAction(n) ==
    /\ Emit(n) \/ EmitHead(n) \/ EmitTail(n)
    /\ UNCHANGED <<store, sync, page, faults, history>>

LogRotated(n) ==
    /\ Rotate(n)
    /\ whole' = [whole EXCEPT ![n] = FALSE]
    /\ UNCHANGED <<store, sync, page, faults, torn, everStored>>

ClockTicks ==
    /\ Tick
    /\ UNCHANGED <<store, sync, page, faults, history>>

-------------------------------------------------------------------------------
(* syncWAFEvents, under the node's store.mu.                                    *)

NoFault == UNCHANGED faults
Fault == faults < MaxFaults /\ faults' = faults + 1

Goto(n, s) == sync' = [sync EXCEPT ![n] = s]
Done(n, ask) == Goto(n, IF ask = NoAsk THEN [pc |-> "idle"] ELSE [pc |-> "count", ask |-> ask])

(* Without a log there is nothing to sync, and the rows are queried as they are. *)
SyncStart(n, ask) ==
    /\ sync[n].pc = "idle"
    /\ IF log[n] = NoFile
         THEN Done(n, ask)
         ELSE Goto(n, [pc |-> "load", ask |-> ask,
                       size |-> Len(log[n].frags), mtime |-> log[n].mtime])
    /\ UNCHANGED <<logvars, store, page, faults, history>>

(* Where to read from: a file that is shorter than the offset, or was changed     *)
(* without growing past it, is read from its start.                              *)
StartOffset(st, size, mtime) ==
    LET offset == IF st.offset > size THEN 0 ELSE st.offset
    IN  IF st.mtime # NoTime /\ st.mtime # mtime /\ size <= offset THEN 0 ELSE offset

SyncLoad(n) ==
    /\ sync[n].pc = "load"
    /\ LET s == sync[n] IN
         Goto(n, [pc |-> "read", ask |-> s.ask, mtime |-> s.mtime,
                  offset |-> StartOffset(ingest, s.size, s.mtime)])
    /\ UNCHANGED <<logvars, store, page, faults, history>>

(* A bug RowsFollowLog would catch: INSERT without IGNORE.                          *)
InsertedAgain(stored, next, events) ==
    {[event |-> e, id |-> next + Cardinality({f \in events : f.id < e.id})] : e \in events}

(* INSERT OR IGNORE in the order of the lines: those whose hash is not stored.      *)
Inserted(stored, next, events) ==
    LET new == events \ {r.event : r \in stored}
    IN  {[event |-> e, id |-> next + Cardinality({f \in new : f.id < e.id})] : e \in new}

(* An unfinished last line is read, does not parse, and counts to the offset.       *)
CutEvents(frags, from) ==
    IF Len(frags) > from /\ frags[Len(frags)].half = "head" THEN {frags[Len(frags)].event}
                                                            ELSE {}

SyncRead(n) ==
    /\ sync[n].pc = "read" /\ log[n] # NoFile
    /\ LET s == sync[n]
           frags == log[n].frags
           events == ParsedEvents(frags, s.offset)
           adds == Inserted(rows, nextRow, events)
       IN  /\ Goto(n, [pc |-> "stat", ask |-> s.ask, offset |-> s.offset, mtime |-> s.mtime,
                       end |-> IF Len(frags) > s.offset THEN Len(frags) ELSE s.offset,
                       adds |-> adds, cut |-> CutEvents(frags, s.offset), file |-> rotations])
           /\ nextRow' = nextRow + Cardinality(adds)
    /\ UNCHANGED <<logvars, rows, ingest, page, faults, history>>

(* A bug NothingSkipped would catch: the size of the second stat is taken for the    *)
(* offset.                                                                           *)
SyncStatOffset(n) ==
    /\ sync[n].pc = "stat"
    /\ \/ /\ log[n] # NoFile
          /\ Goto(n, [sync[n] EXCEPT !.pc = "commit", !.mtime = log[n].mtime,
                                     !.end = Len(log[n].frags)]) /\ NoFault
       \/ log[n] = NoFile /\ Goto(n, [sync[n] EXCEPT !.pc = "commit"]) /\ NoFault
       \/ Goto(n, [sync[n] EXCEPT !.pc = "commit"]) /\ Fault
    /\ UNCHANGED <<logvars, store, page, history>>

(* The second stat; if it fails the time of the first one stands.                    *)
SyncStat(n) ==
    /\ sync[n].pc = "stat"
    /\ \/ /\ log[n] # NoFile
          /\ Goto(n, [sync[n] EXCEPT !.pc = "commit", !.mtime = log[n].mtime]) /\ NoFault
       \/ log[n] = NoFile /\ Goto(n, [sync[n] EXCEPT !.pc = "commit"]) /\ NoFault
       \/ Goto(n, [sync[n] EXCEPT !.pc = "commit"]) /\ Fault
    /\ UNCHANGED <<logvars, store, page, history>>

Expired(e, now) == Retention > 0 /\ e.ts < now - Retention

(* A bug OneRowEver would catch: rows are pruned before the new ones come in.         *)
PrunedBefore(stored, adds, now) == {r \in stored : ~Expired(r.event, now)} \cup adds

(* pruneExpiredWAFEvents, after the inserts of the same transaction.                  *)
Pruned(stored, adds, now) == {r \in stored \cup adds : ~Expired(r.event, now)}

CommitEffect(n) ==
    LET s == sync[n]
        kept == Pruned(rows, s.adds, clock)
    IN  /\ rows' = kept
        /\ ingest' = [offset |-> s.end, mtime |-> s.mtime]
        /\ page' = IF rows \subseteq kept THEN page ELSE [page EXCEPT !.moved = TRUE]
        /\ torn' = torn \cup s.cut
        /\ everStored' = everStored \cup kept
        /\ whole' = [whole EXCEPT ![n] = @ \/ (s.offset = 0 /\ s.file = rotations)]

SyncCommit(n) ==
    /\ sync[n].pc = "commit"
    /\ CommitEffect(n)
    /\ Done(n, sync[n].ask)
    /\ UNCHANGED <<logvars, nextRow, faults>>

(* A call fails, before the commit or with the commit done, or the process ends.      *)
SyncFails(n) ==
    /\ sync[n].pc # "idle"
    /\ Fault \/ (sync[n].pc = "read" /\ log[n] = NoFile /\ NoFault)
    /\ Goto(n, [pc |-> "idle"])
    /\ \/ sync[n].pc = "commit" /\ CommitEffect(n)
       \/ UNCHANGED <<rows, ingest, page, history>>
    /\ UNCHANGED <<logvars, nextRow>>

-------------------------------------------------------------------------------
(* The queries of ReadWAFLogs.                                                  *)

Count(n) ==
    /\ sync[n].pc = "count"
    /\ Goto(n, [pc |-> "select", ask |-> sync[n].ask,
                bounds |-> PageBounds(sync[n].ask, Cardinality(rows), PageSize)])
    /\ UNCHANGED <<logvars, store, page, faults, history>>

(* ORDER BY id LIMIT end - start OFFSET start                                    *)
RowsAt(stored, b) ==
    {r \in stored : Cardinality({q \in stored : q.id < r.id}) \in b.start .. b.end - 1}

(* computePageBounds counts from the lines that came.                            *)
Select(n) ==
    /\ sync[n].pc = "select"
    /\ LET b == sync[n].bounds
           shown == RowsAt(rows, b)
           start == IF sync[n].ask.dir = "prev" THEN b.start ELSE b.end - Cardinality(shown)
       IN  page' = [start |-> start, end |-> start + Cardinality(shown),
                    shown |-> shown, moved |-> FALSE]
    /\ Goto(n, [pc |-> "idle"])
    /\ UNCHANGED <<logvars, store, faults, history>>

-------------------------------------------------------------------------------

Next ==
    \/ ClockTicks
    \/ \E n \in Nodes :
         \/ LogAction(n) \/ LogRotated(n)
         \/ \E ask \in Asks(page) : SyncStart(n, ask)
         \/ SyncLoad(n) \/ SyncRead(n) \/ SyncStat(n) \/ SyncCommit(n) \/ SyncFails(n)
         \/ Count(n) \/ Select(n)

Spec == Init /\ [][Next]_vars

-------------------------------------------------------------------------------
(* Properties.                                                                   *)

Stored == {r.event : r \in rows}

(* No event is passed over: every line of a node's log before the ingest offset  *)
(* is stored, has expired, or was read while its end was still being written.    *)
(* A log that was rotated counts once a sync has read the new file from its      *)
(* start: until then the program may not have noticed.                           *)
NothingSkipped ==
    \A n \in Nodes : whole[n] /\ log[n] # NoFile =>
        \A e \in ParsedEvents(SubSeq(log[n].frags, 1, ingest.offset), 0) :
            e \in Stored \/ e \in torn \/ Expired(e, clock)

(* Reading a log again stores no event twice, and as long as no log is rotated   *)
(* the rows of a node stand in the order in which it logged them, the order of   *)
(* pages and of the latest block.  Only an event that was once read half-written *)
(* may come in late.                                                             *)
RowsFollowLog ==
    /\ Cardinality(Stored) = Cardinality(rows)
    /\ rotations = 0 => \A r, q \in rows :
         r.event.node = q.event.node /\ {r.event, q.event} \cap torn = {} =>
             (r.id < q.id <=> r.event.id < q.event.id)

(* An event has one row in the whole life of the store: a row that expired and   *)
(* was pruned does not come back, with another id and at another place of the    *)
(* pages, when a log that still holds its line is read from the start again      *)
(* (after a second stat that failed, or a commit whose answer was lost), and no  *)
(* row goes before it expires to be inserted anew.                               *)
OneRowEver == \A r, q \in everStored : r.event = q.event => r = q

(* What the logs and statistics pages are for: after a sync every event of the   *)
(* node's log is in the store they query, unless it has expired.                 *)
LogsIngested ==
    [][\A n \in Nodes :
         sync[n].pc = "commit" /\ sync'[n].pc # "commit" /\ faults' = faults /\ log[n] # NoFile =>
           \A e \in ParsedEvents(log[n].frags, 0) \ ParsedEvents(log[n].frags, sync[n].end) :
             e \in {r.event : r \in rows'} \/ Expired(e, clock)]_vars

(* Going from a page to the next or previous one, the admin page shows no row    *)
(* twice and passes over none, as long as no row it had counted was pruned and   *)
(* however many arrived.                                                         *)
PagesAdjoin ==
    [][\A n \in Nodes :
         LET ask == sync[n].ask
             between == {r \in rows : \E s \in page.shown, t \in page'.shown :
                           r.id \in s.id .. t.id \/ r.id \in t.id .. s.id}
         IN  sync[n].pc = "select" /\ sync'[n].pc = "idle" /\ faults' = faults /\ ~page.moved
             /\ ask \in {NextOf(page), PrevOf(page)} /\ page'.shown # {} =>
                  /\ between \subseteq page.shown \cup page'.shown
                  /\ \A r \in page.shown, t \in page'.shown :
                       IF ask.dir = "next" THEN r.id < t.id ELSE t.id < r.id]_vars
===============================================================================
