------------------------------ MODULE EventLog ------------------------------
(***************************************************************************)
(* The WAF event log of each node, waf-events.ndjson: request goroutines     *)
(* append a line per event, someone outside the program rotates the file.    *)
(*                                                                           *)
(* A line is two fragments, its head and its tail, the tail with the         *)
(* newline: a write of a line that crosses a page of the page cache is seen  *)
(* by a reader in two parts, and stops after the first when the disk is full.*)
(***************************************************************************)
EXTENDS Integers, Sequences

CONSTANTS
    Nodes,        \* the server processes, each with a log of its own
    NoFile,       \* the log does not exist
    NoEvent,
    MaxClock,     \* bound: the last reading of the clock
    MaxEvents,    \* bound: logged events
    MaxSplits,    \* bound: lines written in two parts
    MaxRotations  \* bound: rotations

ASSUME BoundsAssumption ==
    MaxClock \in Nat \ {0} /\ MaxEvents \in Nat /\ MaxSplits \in Nat /\ MaxRotations \in Nat

VARIABLES
    log,       \* node -> its log file
    writing,   \* node -> the event of which only the head is written so far
    clock,     \* time, and modification time, in ticks
    emitted, splits, rotations  \* counts, for the bounds

logvars == <<log, writing, clock, emitted, splits, rotations>>

Times == 1..MaxClock

(* An event; its id makes the line, and so the line's hash, unique.          *)
Event == [node : Nodes, id : 1..MaxEvents, ts : Times]

Fragment == [event : Event, half : {"head", "tail"}]
(* Modification times are exact: those of two nodes' files are never equal.  *)
Stamp == Nodes \X Times
LogFile == [frags : Seq(Fragment), mtime : Stamp]

ASSUME NothingAssumption == NoFile \notin LogFile /\ NoEvent \notin Event

Head1(e) == [event |-> e, half |-> "head"]
Tail1(e) == [event |-> e, half |-> "tail"]

LogTypeOK ==
    /\ log \in [Nodes -> {NoFile} \cup LogFile]
    /\ writing \in [Nodes -> {NoEvent} \cup Event]
    /\ clock \in Times
    /\ emitted \in 0..MaxEvents /\ splits \in 0..MaxSplits /\ rotations \in 0..MaxRotations

LogInit ==
    /\ log = [n \in Nodes |-> NoFile]
    /\ writing = [n \in Nodes |-> NoEvent]
    /\ clock = 1
    /\ emitted = 0 /\ splits = 0 /\ rotations = 0

(* The events of the lines in frags[from + 1 ..] that parse.  The first line *)
(* starts where the reading starts, the others after a newline.              *)
ParsedEvents(frags, from) ==
    {frags[i].event : i \in
        {j \in from + 1 .. Len(frags) - 1 :
            /\ frags[j].half = "head" /\ frags[j + 1].half = "tail"
            /\ j = from + 1 \/ frags[j - 1].half = "tail"}}

-------------------------------------------------------------------------------

(* O_APPEND, O_CREATE.                                                       *)
AppendTo(n, frags) ==
    log' = [log EXCEPT ![n] =
              [frags |-> IF log[n] = NoFile THEN frags ELSE log[n].frags \o frags,
               mtime |-> <<n, clock>>]]

(* appendEventToFile; the kernel keeps other appends out meanwhile.          *)
NewEvent(n) == [node |-> n, id |-> emitted + 1, ts |-> clock]

CanEmit(n) == emitted < MaxEvents /\ writing[n] = NoEvent

Emit(n) ==
    /\ CanEmit(n)
    /\ AppendTo(n, <<Head1(NewEvent(n)), Tail1(NewEvent(n))>>)
    /\ emitted' = emitted + 1
    /\ UNCHANGED <<writing, clock, splits, rotations>>

EmitHead(n) ==
    /\ CanEmit(n) /\ splits < MaxSplits
    /\ AppendTo(n, <<Head1(NewEvent(n))>>)
    /\ writing' = [writing EXCEPT ![n] = NewEvent(n)]
    /\ emitted' = emitted + 1
    /\ splits' = splits + 1
    /\ UNCHANGED <<clock, rotations>>

(* The rest of the line, or nothing more because the disk is full: the error *)
(* is ignored.                                                               *)
EmitTail(n) ==
    /\ writing[n] # NoEvent
    /\ AppendTo(n, <<Tail1(writing[n])>>) \/ UNCHANGED log
    /\ writing' = [writing EXCEPT ![n] = NoEvent]
    /\ UNCHANGED <<clock, emitted, splits, rotations>>

(* The log is moved away or truncated.                                       *)
Rotate(n) ==
    /\ rotations < MaxRotations /\ log[n] # NoFile /\ writing[n] = NoEvent
    /\ \E new \in {NoFile, [frags |-> <<>>, mtime |-> <<n, clock>>]} : log' = [log EXCEPT ![n] = new]
    /\ rotations' = rotations + 1
    /\ UNCHANGED <<writing, clock, emitted, splits>>

Tick ==
    /\ clock < MaxClock
    /\ clock' = clock + 1
    /\ UNCHANGED <<log, writing, emitted, splits, rotations>>
===============================================================================
