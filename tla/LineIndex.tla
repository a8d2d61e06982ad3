------------------------------ MODULE LineIndex ------------------------------
(***************************************************************************)
(* The log files that are read without the event store: the nginx logs, and  *)
(* the WAF event log of a node that has no database.  LogsRead serves a page *)
(* of lines (readByLine) with the help of an index of line ends that all     *)
(* requests of a process share (buildOrUpdateIndex, fileIx).                 *)
(*                                                                           *)
(* The log is appended to and rotated between any two steps of a request: a  *)
(* stat, the update of the index, which reads the file while it holds idxMu, *)
(* and the read of the page.  Offsets are counted in fragments of EventLog,  *)
(* and lines appended within one tick leave the file the same modification   *)
(* time.  A request looks its page up in the index after it released idxMu,  *)
(* when another may have extended the same lineIndex, or put a new one in    *)
(* its place.                                                                *)
(*                                                                           *)
(* Reads of the file do not fail here; in particular the return of an        *)
(* extension on an error other than EOF (logs.go:549-555), with offsets       *)
(* appended and the size as before, is not modelled.                         *)
(***************************************************************************)
EXTENDS EventLog, LogPages, FiniteSets

CONSTANTS
    Readers,   \* clients that read the log, each with one request at a time
    Browsers,  \* those that turn pages; the others ask for the newest lines
    Home,      \* Readers -> Nodes: the node that serves them
    PageSize,  \* the "tail" parameter
    NoIndex,   \* the file was not indexed by this process
    MaxChanges \* bound: events, lines in two parts and rotations together

ASSUME HomeAssumption == Home \in [Readers -> Nodes] /\ Browsers \subseteq Readers
ASSUME PageSizeAssumption == PageSize \in Nat \ {0}

VARIABLES
    index,  \* node -> fileIx
    read,   \* reader -> its progress through LogsRead
    page,   \* browser -> the page it shows
    \* History:
    made    \* node -> [file: the log (by its rotations) that the index was built from,
            \*          mixed: an extension did not start at a line end it had marked last]

vars == <<log, writing, clock, emitted, splits, rotations, index, read, page, made>>

Index == [offsets : Seq(Nat), size : Nat, mtime : Stamp]
Asks(r) == {Newest} \cup (IF r \in Browsers THEN {PrevOf(page[r]), NextOf(page[r])} ELSE {})
Ask == {Newest} \cup [dir : {"prev", "next"}, cursor : Nat]

ReadState ==
    [pc : {"idle"}]
    \cup [pc : {"index"}, ask : Ask, size : Nat, mtime : Stamp, file : 0..MaxRotations]
    \cup [pc : {"marks"}, ask : Ask, size : Nat, file : 0..MaxRotations,
          current : BOOLEAN, offsets : Seq(Nat), mixed : BOOLEAN]
    \cup [pc : {"lines"}, ask : Ask, size : Nat, file : 0..MaxRotations,
          bounds : [start : Nat, end : Nat], from : Nat, to : Nat, mixed : BOOLEAN]

(* current: the lineIndex returned to the request is still the one in fileIx.        *)
(* from, to, file, mixed and whole are history: the bytes shown, of which log,       *)
(* whether its index was mixed or was read while it grew, and whether every line     *)
(* parsed.                                                                          *)
Page == [start : Nat, end : Nat, shown : SUBSET Event, from : Nat, to : Nat,
         file : 0..MaxRotations, mixed : BOOLEAN, whole : BOOLEAN]

TypeOK ==
    /\ LogTypeOK
    /\ index \in [Nodes -> Index \cup {NoIndex}]
    /\ read \in [Readers -> ReadState]
    /\ page \in [Browsers -> Page]
    /\ made \in [Nodes -> [file : 0..MaxRotations, mixed : BOOLEAN]]

NoPage(file) == [start |-> 0, end |-> 0, shown |-> {}, from |-> 0, to |-> 0,
                 file |-> file, mixed |-> FALSE, whole |-> TRUE]
Idle == [pc |-> "idle"]

Init ==
    /\ LogInit
    /\ index = [n \in Nodes |-> NoIndex]
    /\ read = [r \in Readers |-> Idle]
    /\ page = [r \in Browsers |-> NoPage(0)]
    /\ made = [n \in Nodes |-> [file |-> 0, mixed |-> FALSE]]

-------------------------------------------------------------------------------
(* The log changes: events are appended, whole or in two parts; it is rotated.  *)

LogChanges ==
    /\ Tick \/ \E n \in Nodes : Emit(n) \/ EmitHead(n) \/ EmitTail(n) \/ Rotate(n)
    /\ emitted' + splits' + rotations' <= MaxChanges
    /\ UNCHANGED <<index, read, page, made>>

-------------------------------------------------------------------------------
(* buildOrUpdateIndex.                                                          *)

(* Positions in ascending order.                                                   *)
InOrder(S) == [k \in 1 .. Cardinality(S) |-> CHOOSE i \in S : Cardinality({j \in S : j <= i}) = k]

(* A bug NewestReachesEnd would catch: an unfinished last line is not marked.      *)
MarksOfNewlines(frags, from) ==
    InOrder({i \in from + 1 .. Len(frags) : frags[i].half = "tail"})

(* The ends of the lines after an offset; the end of the file ends a line too.   *)
Marks(frags, from) ==
    InOrder({i \in from + 1 .. Len(frags) : frags[i].half = "tail" \/ i = Len(frags)})

Outdated(ix, size, mtime) == ix # NoIndex => size < ix.size \/ mtime[2] > ix.mtime[2]

Rebuilt(frags, size, mtime) ==
    [offsets |-> <<0>> \o Marks(frags, 0), size |-> size, mtime |-> mtime]

(* A bug IndexMarksLines and ReadsSucceed would catch: the index is extended from  *)
(* the start of the file.                                                          *)
ExtendedFromStart(ix, frags, size, mtime) ==
    [offsets |-> ix.offsets \o Marks(frags, 0), size |-> size, mtime |-> mtime]

(* Only lines appended within the tick of the last stat come this way.            *)
Extended(ix, frags, size, mtime) ==
    [offsets |-> ix.offsets \o Marks(frags, ix.size), size |-> size, mtime |-> mtime]

(* History: the extension marks a line again, or cuts one in two.                 *)
Mixes(ix, frags) ==
    LET last == ix.offsets[Len(ix.offsets)]
    IN  last # ix.size \/ (last > 0 /\ last <= Len(frags) /\ frags[last].half = "head")

(* The answer: a browser shows it.                                                *)
Reply(r, answer) ==
    /\ read' = [read EXCEPT ![r] = Idle]
    /\ page' = [b \in Browsers |-> IF b = r THEN answer ELSE page[b]]

(* A log that is gone, at the stat or at an open: an empty page, not an error.    *)
ReplyMissing(r) == Reply(r, NoPage(rotations))

StatLog(r, ask) ==
    /\ read[r].pc = "idle"
    /\ LET file == log[Home[r]]
       IN  IF file = NoFile
             THEN ReplyMissing(r)
             ELSE /\ read' = [read EXCEPT ![r] =
                       [pc |-> "index", ask |-> ask, size |-> Len(file.frags),
                        mtime |-> file.mtime, file |-> rotations]]
                  /\ UNCHANGED page
    /\ UNCHANGED <<logvars, index, made>>

(* The lineIndex goes to the request; the others that hold it see it extended, or    *)
(* keep the one that a new one replaces.                                             *)
Holding(r, offsets, mixed) ==
    [pc |-> "marks", ask |-> read[r].ask, size |-> read[r].size, file |-> read[r].file,
     current |-> TRUE, offsets |-> offsets, mixed |-> mixed]

HoldersOf(n) == {q \in Readers : Home[q] = n /\ read[q].pc = "marks" /\ read[q].current}

UseIndex(r) ==
    LET n == Home[r] IN
    /\ read[r].pc = "index"
    /\ ~Outdated(index[n], read[r].size, read[r].mtime) /\ read[r].size = index[n].size
    /\ read' = [read EXCEPT ![r] =
         Holding(r, index[n].offsets, made[n].mixed \/ made[n].file # read[r].file)]
    /\ UNCHANGED <<logvars, index, page, made>>

BuildIndex(r) ==
    LET n == Home[r] IN
    /\ read[r].pc = "index" /\ log[n] # NoFile
    /\ Outdated(index[n], read[r].size, read[r].mtime)
    /\ LET new == Rebuilt(log[n].frags, read[r].size, read[r].mtime)
       IN  /\ index' = [index EXCEPT ![n] = new]
           /\ read' = [q \in Readers |->
                IF q = r THEN Holding(r, new.offsets, read[r].file # rotations)
                ELSE IF q \in HoldersOf(n) THEN [read[q] EXCEPT !.current = FALSE]
                ELSE read[q]]
    /\ made' = [made EXCEPT ![n] = [file |-> read[r].file, mixed |-> FALSE]]
    /\ UNCHANGED <<logvars, page>>

(* li.Offsets grows in place while its holders read it without idxMu: one may see a  *)
(* new length before the offset is there, and takes 0 for it.                        *)
Torn(old, new) ==
    {[SubSeq(new, 1, k) EXCEPT ![k] = 0] : k \in Len(old) + 1 .. Len(new)}

ExtendIndex(r) ==
    LET n == Home[r] IN
    /\ read[r].pc = "index" /\ log[n] # NoFile
    /\ ~Outdated(index[n], read[r].size, read[r].mtime) /\ read[r].size > index[n].size
    /\ LET new == Extended(index[n], log[n].frags, read[r].size, read[r].mtime)
           mixed == made[n].mixed \/ Mixes(index[n], log[n].frags)
                    \/ {read[r].file, rotations} # {made[n].file}
       IN  /\ index' = [index EXCEPT ![n] = new]
           /\ made' = [made EXCEPT ![n].mixed = mixed]
           /\ \E seen \in [HoldersOf(n) -> {new.offsets} \cup Torn(index[n].offsets, new.offsets)] :
                read' = [q \in Readers |->
                  IF q = r THEN Holding(r, new.offsets, mixed)
                  ELSE IF q \in HoldersOf(n)
                         THEN Holding(q, seen[q], read[q].mixed \/ mixed \/ seen[q] # new.offsets)
                  ELSE read[q]]
    /\ UNCHANGED <<logvars, page>>

(* readByLine up to the read: the lines of the page, and where they lie.           *)
FindPage(r) ==
    /\ read[r].pc = "marks"
    /\ LET s == read[r]
           b == PageBounds(s.ask, Len(s.offsets) - 1, PageSize)
       IN  read' = [read EXCEPT ![r] =
             [pc |-> "lines", ask |-> s.ask, size |-> s.size, file |-> s.file, bounds |-> b,
              from |-> s.offsets[b.start + 1], to |-> s.offsets[b.end + 1], mixed |-> s.mixed]]
    /\ UNCHANGED <<logvars, index, page, made>>

IndexMissing(r) ==
    LET n == Home[r] IN
    /\ read[r].pc = "index" /\ log[n] = NoFile
    /\ ~Outdated(index[n], read[r].size, read[r].mtime) => read[r].size > index[n].size
    /\ ReplyMissing(r)
    /\ UNCHANGED <<logvars, index, made>>

-------------------------------------------------------------------------------
(* readByLine, the read, and the page that computePageBounds makes of it.          *)

(* A bug TypeOK would catch: the start of the page is not kept above 0.              *)
PageOfUnclamped(s, shown, count) ==
    LET prev == s.ask.dir = "prev"
    IN  [start |-> IF prev THEN s.bounds.start ELSE s.bounds.end - count,
         end |-> IF prev THEN s.bounds.start + count ELSE s.bounds.end, shown |-> shown,
         from |-> s.from, to |-> s.to, file |-> s.file, mixed |-> s.mixed,
         whole |-> count = s.bounds.end - s.bounds.start]

(* count is the number of lines that parsed.                                        *)
PageOf(s, shown, count) ==
    LET prev == s.ask.dir = "prev"
        before == IF count <= s.bounds.end THEN s.bounds.end - count ELSE 0
    IN  [start |-> IF prev THEN s.bounds.start ELSE before,
         end |-> IF prev THEN s.bounds.start + count ELSE s.bounds.end, shown |-> shown,
         from |-> s.from, to |-> s.to, file |-> s.file, mixed |-> s.mixed,
         whole |-> count = s.bounds.end - s.bounds.start]

(* A page without lines is answered from the index alone.                           *)
ReadNothing(r) ==
    /\ read[r].pc = "lines" /\ read[r].bounds.start >= read[r].bounds.end
    /\ Reply(r, PageOf(read[r], {}, 0))
    /\ UNCHANGED <<logvars, index, made>>

Lines(frags, s) ==
    IF s.from = s.to THEN {} ELSE ParsedEvents(SubSeq(frags, 1, s.to), s.from)

(* io.ReadFull fails on a file that ends before the page does; a page of negative   *)
(* length makes make([]byte, size) panic, which gin answers with an error as well.  *)
Fits(frags, s) == s.from <= s.to /\ (s.from = s.to \/ s.to <= Len(frags))

ReadLines(r) ==
    LET s == read[r]
        n == Home[r]
    IN  /\ s.pc = "lines" /\ s.bounds.start < s.bounds.end /\ log[n] # NoFile
        /\ Fits(log[n].frags, s)
        /\ LET shown == Lines(log[n].frags, s)
           IN  Reply(r, PageOf(s, shown, Cardinality(shown)))
        /\ UNCHANGED <<logvars, index, made>>

ReadFails(r) ==
    LET s == read[r]
        n == Home[r]
    IN  /\ s.pc = "lines" /\ s.bounds.start < s.bounds.end /\ log[n] # NoFile
        /\ ~Fits(log[n].frags, s)
        /\ read' = [read EXCEPT ![r] = Idle]
        /\ UNCHANGED <<logvars, index, page, made>>

ReadMissing(r) ==
    LET s == read[r]
    IN  /\ s.pc = "lines" /\ s.bounds.start < s.bounds.end /\ log[Home[r]] = NoFile
        /\ ReplyMissing(r)
        /\ UNCHANGED <<logvars, index, made>>

-------------------------------------------------------------------------------

ReadStep(r) ==
    \/ UseIndex(r) \/ BuildIndex(r) \/ ExtendIndex(r) \/ IndexMissing(r) \/ FindPage(r)
    \/ ReadNothing(r) \/ ReadLines(r) \/ ReadFails(r) \/ ReadMissing(r)

Next ==
    \/ LogChanges
    \/ \E r \in Readers : ReadStep(r) \/ \E ask \in Asks(r) : StatLog(r, ask)

Spec == Init /\ [][Next]_vars

-------------------------------------------------------------------------------
(* Properties.                                                                   *)

(* Whatever requests overlap, the shared index of a log that was not rotated     *)
(* since is what a reading of the log from its start would give: each line end   *)
(* up to the last mark once, and nothing else; and it covers the size it was     *)
(* compared with.  The exception is an index extended within a tick after a      *)
(* reading that an append of the same tick had overtaken (made.mixed).           *)
IndexMarksLines ==
    \A n \in Nodes :
        index[n] # NoIndex /\ log[n] # NoFile /\ made[n].file = rotations /\ ~made[n].mixed =>
          LET offsets == index[n].offsets
              last == offsets[Len(offsets)]
          IN  /\ last <= Len(log[n].frags)
              /\ offsets = <<0>> \o Marks(SubSeq(log[n].frags, 1, last), 0)
              /\ index[n].size <= last

(* A request that no rotation overtakes gets its lines, not an error, unless it  *)
(* reads the index in the very moment at which another request extends it.       *)
ReadsSucceed ==
    [][\A r \in Readers : ReadFails(r) => read[r].mixed \/ read[r].file # rotations]_vars

(* The newest page reaches the end that the log had when the request began: no   *)
(* line written before a request is missing from the lines it numbers.           *)
NewestReachesEnd ==
    [][\A r \in Readers :
         (ReadNothing(r) \/ ReadLines(r)) /\ read[r].ask = Newest
         /\ ~read[r].mixed /\ read[r].file = rotations => read[r].size <= read[r].to]_vars

(* Going to the next or previous page leaves out no byte of the log, however     *)
(* many lines arrived, but the rest of a line of which the page shown ended with *)
(* a part; and repeats none, unless the page shown held a line that did not      *)
(* parse, which computePageBounds does not count.                                *)
EndsInLine(frags, at) == at > 0 /\ frags[at].half = "head"

PagesAdjoin ==
    [][\A r \in Browsers :
         LET old == page[r]
             new == page'[r]
             frags == log[Home[r]].frags
             comparable == /\ ~old.mixed /\ ~new.mixed
                           /\ {old.file, new.file} = {rotations}
         IN  (ReadNothing(r) \/ ReadLines(r)) /\ comparable =>
               /\ read[r].ask = NextOf(old) => new.from <= old.to \/ EndsInLine(frags, old.to)
               /\ read[r].ask = PrevOf(old) => new.to >= old.from
               /\ read[r].ask = NextOf(old) /\ old.whole => new.from >= old.to
               /\ read[r].ask = PrevOf(old) /\ old.whole =>
                     new.to <= old.from \/ EndsInLine(frags, old.from)]_vars
===============================================================================
