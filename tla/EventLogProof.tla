---------------------------- MODULE EventLogProof ----------------------------
(***************************************************************************)
(* Lemmas about EventLog and LogPages that the proofs of the log's readers   *)
(* need: how a log may change, in which order its lines stand, which of them *)
(* a reading yields, and where a page begins and ends.                       *)
(***************************************************************************)
EXTENDS EventLog, LogPages, SequenceTheorems, FiniteSetTheorems, TLAPS

(* The fragments in a node's log: none without a file.                        *)
Frags(n) == IF log[n] = NoFile THEN <<>> ELSE log[n].frags

(* Each log holds events of its own node; every line head stands after the    *)
(* fragments of earlier events.                                               *)
LogOrder ==
    \A n \in Nodes :
        /\ \A i \in 1 .. Len(Frags(n)) :
             Frags(n)[i].event.node = n /\ Frags(n)[i].event.id <= emitted
        /\ \A i, j \in 1 .. Len(Frags(n)) :
             i < j /\ Frags(n)[j].half = "head" => Frags(n)[i].event.id < Frags(n)[j].event.id
        /\ writing[n] # NoEvent => writing[n].node = n /\ writing[n].id <= emitted

(* The file may have grown at its end, or is as it was.                       *)
Grows(n) ==
    /\ Len(Frags(n)) <= Len(Frags(n)')
    /\ \A i \in 1 .. Len(Frags(n)) : Frags(n)'[i] = Frags(n)[i]

-------------------------------------------------------------------------------
LEMMA FragsType ==
  ASSUME LogTypeOK, NEW n \in Nodes
  PROVE  /\ Frags(n) \in Seq(Fragment) /\ Len(Frags(n)) \in Nat
         /\ \A i \in 1 .. Len(Frags(n)) :
              /\ Frags(n)[i] \in Fragment /\ Frags(n)[i].event \in Event
              /\ Frags(n)[i].half \in {"head", "tail"}
<1>1. Frags(n) \in Seq(Fragment)
  BY EmptySeq DEF LogTypeOK, Frags, LogFile
<1>2. Len(Frags(n)) \in Nat
  BY <1>1, LenProperties
<1>3. \A i \in 1 .. Len(Frags(n)) : Frags(n)[i] \in Fragment
  BY <1>1, ElementOfSeq
<1>4. QED
  BY <1>1, <1>2, <1>3 DEF Fragment

LEMMA EventFields ==
  ASSUME NEW e \in Event
  PROVE  e.node \in Nodes /\ e.id \in Nat /\ e.id \in 1 .. MaxEvents /\ e.ts \in Nat
  BY BoundsAssumption DEF Event, Times

(* What an append makes of the log.                                           *)
LEMMA AppendLog ==
  ASSUME LogTypeOK, NEW n \in Nodes, NEW new \in Seq(Fragment), AppendTo(n, new)
  PROVE  /\ Frags(n)' = Frags(n) \o new
         /\ log' \in [Nodes -> {NoFile} \cup LogFile]
         /\ log'[n] # NoFile
         /\ \A m \in Nodes \ {n} : log'[m] = log[m]
<1> DEFINE file == [frags |-> IF log[n] = NoFile THEN new ELSE log[n].frags \o new,
                    mtime |-> <<n, clock>>]
<1>1. (IF log[n] = NoFile THEN new ELSE log[n].frags \o new) = Frags(n) \o new
  BY ConcatEmptySeq DEF Frags
<1>2. Frags(n) \o new \in Seq(Fragment)
  BY FragsType, ConcatProperties
<1>3. file \in LogFile
  BY <1>1, <1>2 DEF LogFile, Stamp, LogTypeOK
<1>4. log' = [log EXCEPT ![n] = file]
  BY DEF AppendTo
<1> HIDE DEF file
<1>5. file.frags = Frags(n) \o new
  BY <1>1 DEF file
<1>6. log'[n] = file /\ \A m \in Nodes \ {n} : log'[m] = log[m]
  BY <1>4 DEF LogTypeOK
<1>7. QED
  BY <1>3, <1>4, <1>5, <1>6, NothingAssumption DEF LogTypeOK, Frags

LEMMA NewEventType ==
  ASSUME LogTypeOK, NEW n \in Nodes, CanEmit(n)
  PROVE  NewEvent(n) \in Event /\ NewEvent(n).node = n /\ NewEvent(n).id = emitted + 1
         /\ emitted + 1 \in 0 .. MaxEvents
  BY BoundsAssumption DEF LogTypeOK, CanEmit, NewEvent, Event

LEMMA FragmentsType ==
  ASSUME NEW e \in Event
  PROVE  /\ <<Head1(e), Tail1(e)>> \in Seq(Fragment) /\ <<Head1(e)>> \in Seq(Fragment)
         /\ <<Tail1(e)>> \in Seq(Fragment)
  BY DEF Head1, Tail1, Fragment

(* An append brings one event: the head of a new one with or without its tail, or *)
(* the tail of the one being written.                                             *)
LEMMA Appends ==
  ASSUME LogTypeOK, LogOrder, NEW n \in Nodes, Emit(n) \/ EmitHead(n) \/ EmitTail(n)
  PROVE  /\ LogTypeOK' /\ LogOrder'
         /\ Grows(n) /\ \A m \in Nodes \ {n} : log'[m] = log[m]
         /\ log[n] # NoFile => log'[n] # NoFile
         /\ UNCHANGED <<clock, rotations>>
<1>1. CASE UNCHANGED log /\ EmitTail(n)
  <2>1. Frags(n)' = Frags(n)
    BY <1>1 DEF Frags
  <2>2. Grows(n)
    BY <2>1, FragsType DEF Grows
  <2>3. QED
    BY <1>1, <2>2 DEF EmitTail, LogTypeOK, LogOrder, Frags
<1>2. ASSUME NEW e \in Event, e.node = n, NEW new \in Seq(Fragment), AppendTo(n, new),
             Len(new) \in Nat, \A i \in 1 .. Len(new) : new[i].event = e,
             emitted' \in 0 .. MaxEvents, emitted <= emitted', e.id <= emitted',
             \A i \in 1 .. Len(new) : new[i].half = "head" => i = 1 /\ emitted < e.id,
             UNCHANGED <<clock, rotations>>, splits' \in 0 .. MaxSplits,
             writing' \in [Nodes -> {NoEvent, e} \cup Event],
             \A m \in Nodes : writing'[m] \in {NoEvent, writing[m]} \/ (m = n /\ writing'[m] = e)
      PROVE  /\ LogTypeOK' /\ LogOrder'
             /\ Grows(n) /\ \A m \in Nodes \ {n} : log'[m] = log[m]
             /\ log[n] # NoFile => log'[n] # NoFile
             /\ UNCHANGED <<clock, rotations>>
  <2> DEFINE F == Frags(n)
             G == Frags(n)'
  <2>1. /\ G = F \o new /\ log' \in [Nodes -> {NoFile} \cup LogFile] /\ log'[n] # NoFile
        /\ \A m \in Nodes \ {n} : log'[m] = log[m]
    BY <1>2, AppendLog
  <2>2. F \in Seq(Fragment) /\ Len(F) \in Nat
        /\ \A i \in 1 .. Len(F) : F[i].event \in Event
    BY FragsType
  <2>3. LogTypeOK'
    BY <1>2, <2>1 DEF LogTypeOK
  <2> HIDE DEF F, G
  <2>4. Len(G) = Len(F) + Len(new)
        /\ \A i \in 1 .. Len(G) : G[i] = IF i <= Len(F) THEN F[i] ELSE new[i - Len(F)]
    BY <2>1, <2>2, <1>2, ConcatProperties
  <2>5. Len(F) <= Len(G) /\ \A i \in 1 .. Len(F) : G[i] = F[i]
    BY <2>2, <2>4, <1>2
  <2>6. Grows(n)
    BY <2>5 DEF F, G, Grows
  <2>7. \A i \in 1 .. Len(G) : i <= Len(F) \/ (i - Len(F) \in 1 .. Len(new) /\ G[i] = new[i - Len(F)])
    BY <2>2, <2>4, <1>2
  <2>8. \A i \in 1 .. Len(F) : F[i].event.node = n /\ F[i].event.id <= emitted
    BY DEF LogOrder, F
  <2>9. emitted \in Nat /\ emitted' \in Nat /\ e.id \in Nat
        /\ \A i \in 1 .. Len(F) : F[i].event.id \in Nat
    BY <1>2, <2>2, EventFields, BoundsAssumption DEF LogTypeOK
  <2>10. \A i \in 1 .. Len(G) : G[i].event.node = n /\ G[i].event.id <= emitted'
    <3>1. ASSUME NEW i \in 1 .. Len(F)
          PROVE  G[i].event.node = n /\ G[i].event.id <= emitted'
      BY <1>2, <2>5, <2>8, <2>9
    <3>2. ASSUME NEW i \in 1 .. Len(G), i - Len(F) \in 1 .. Len(new), G[i] = new[i - Len(F)]
          PROVE  G[i].event.node = n /\ G[i].event.id <= emitted'
      BY <1>2, <3>2
    <3>3. \A i \in 1 .. Len(G) : i <= Len(F) => i \in 1 .. Len(F)
      BY <1>2, <2>2, <2>4
    <3>4. QED
      BY <2>7, <3>1, <3>2, <3>3
  <2>11. \A i, j \in 1 .. Len(F) :
           i < j /\ F[j].half = "head" => F[i].event.id < F[j].event.id
    BY DEF LogOrder, F
  <2>12. ASSUME NEW i \in 1 .. Len(G), NEW j \in 1 .. Len(G), i < j, G[j].half = "head"
         PROVE  G[i].event.id < G[j].event.id
    <3>0. Len(G) \in Nat
      BY <1>2, <2>2, <2>4
    <3>1. CASE j <= Len(F)
      BY <2>2, <2>5, <2>11, <2>12, <3>0, <3>1
    <3>2. CASE j > Len(F)
      <4>1. ~(j <= Len(F))
        BY <2>2, <3>0, <3>2
      <4>2. j - Len(F) \in 1 .. Len(new) /\ G[j] = new[j - Len(F)]
        BY <2>7, <4>1
      <4>3. j - Len(F) = 1 /\ emitted < e.id /\ G[j].event = e
        BY <2>12, <4>2, <1>2
      <4>4. i \in 1 .. Len(F) /\ G[i] = F[i]
        BY <2>2, <2>5, <2>12, <3>0, <4>3
      <4>5. QED
        BY <2>8, <2>9, <4>3, <4>4
    <3>3. QED
      BY <2>2, <3>0, <3>1, <3>2
  <2>13. ASSUME NEW m \in Nodes, writing'[m] # NoEvent
         PROVE  writing'[m].node = m /\ writing'[m].id <= emitted'
    <3>1. CASE writing'[m] = writing[m]
      <4>1. writing[m] \in Event /\ writing[m].id <= emitted /\ writing[m].node = m
        BY <2>13, <3>1 DEF LogTypeOK, LogOrder
      <4>2. QED
        BY <1>2, <2>9, <3>1, <4>1, EventFields
    <3>2. CASE m = n /\ writing'[m] = e
      BY <1>2, <3>2
    <3>3. QED
      BY <1>2, <2>13, <3>1, <3>2
  <2>14. ASSUME NEW m \in Nodes \ {n}
         PROVE  /\ \A i \in 1 .. Len(Frags(m)') :
                     Frags(m)'[i].event.node = m /\ Frags(m)'[i].event.id <= emitted'
                /\ \A i, j \in 1 .. Len(Frags(m)') : i < j /\ Frags(m)'[j].half = "head"
                     => Frags(m)'[i].event.id < Frags(m)'[j].event.id
    <3>1. Frags(m)' = Frags(m)
      BY <2>1 DEF Frags
    <3>2. \A i \in 1 .. Len(Frags(m)) : Frags(m)[i].event.id \in Nat
                                        /\ Frags(m)[i].event.id <= emitted
      BY FragsType, EventFields DEF LogOrder
    <3>3. QED
      BY <1>2, <2>9, <3>1, <3>2 DEF LogOrder
  <2>15. LogOrder'
    BY <2>10, <2>12, <2>13, <2>14 DEF LogOrder, G
  <2>16. QED
    BY <1>2, <2>1, <2>3, <2>6, <2>15
<1>3. CASE Emit(n)
  <2>1. NewEvent(n) \in Event /\ NewEvent(n).node = n /\ NewEvent(n).id = emitted + 1
        /\ emitted + 1 \in 0 .. MaxEvents /\ emitted \in Nat
    BY <1>3, NewEventType, BoundsAssumption DEF Emit, LogTypeOK
  <2> DEFINE new == <<Head1(NewEvent(n)), Tail1(NewEvent(n))>>
  <2>2. /\ new \in Seq(Fragment) /\ Len(new) = 2 /\ \A i \in 1 .. Len(new) : new[i].event = NewEvent(n)
        /\ \A i \in 1 .. Len(new) : new[i].half = "head" => i = 1
    BY <2>1, FragmentsType DEF Head1, Tail1
  <2>3. AppendTo(n, new) /\ emitted' = emitted + 1
        /\ UNCHANGED <<writing, clock, splits, rotations>>
    BY <1>3 DEF Emit
  <2> HIDE DEF new
  <2>4. writing' \in [Nodes -> {NoEvent, NewEvent(n)} \cup Event] /\ splits' \in 0 .. MaxSplits
    BY <2>3 DEF LogTypeOK
  <2>5. QED
    BY SMTT(30), <1>2, <2>1, <2>2, <2>3, <2>4
<1>4. CASE EmitHead(n)
  <2>1. NewEvent(n) \in Event /\ NewEvent(n).node = n /\ NewEvent(n).id = emitted + 1
        /\ emitted + 1 \in 0 .. MaxEvents /\ emitted \in Nat
    BY <1>4, NewEventType, BoundsAssumption DEF EmitHead, LogTypeOK
  <2> DEFINE new == <<Head1(NewEvent(n))>>
  <2>2. /\ new \in Seq(Fragment) /\ Len(new) = 1 /\ \A i \in 1 .. Len(new) : new[i].event = NewEvent(n)
        /\ \A i \in 1 .. Len(new) : new[i].half = "head" => i = 1
    BY <2>1, FragmentsType DEF Head1
  <2>3. AppendTo(n, new) /\ emitted' = emitted + 1 /\ UNCHANGED <<clock, rotations>>
        /\ writing' = [writing EXCEPT ![n] = NewEvent(n)] /\ splits' = splits + 1
    BY <1>4 DEF EmitHead
  <2> HIDE DEF new
  <2>4. writing' \in [Nodes -> {NoEvent, NewEvent(n)} \cup Event] /\ splits' \in 0 .. MaxSplits
        /\ \A m \in Nodes : writing'[m] = writing[m] \/ (m = n /\ writing'[m] = NewEvent(n))
    BY <1>4, <2>1, <2>3, BoundsAssumption DEF LogTypeOK, EmitHead
  <2>5. QED
    BY <1>2, <2>1, <2>2, <2>3, <2>4
<1>5. CASE EmitTail(n) /\ AppendTo(n, <<Tail1(writing[n])>>)
  <2> DEFINE e == writing[n]
             new == <<Tail1(e)>>
  <2>1. e \in Event /\ e.node = n /\ e.id <= emitted
    BY <1>5 DEF EmitTail, LogTypeOK, LogOrder
  <2>2. /\ new \in Seq(Fragment) /\ Len(new) = 1 /\ \A i \in 1 .. Len(new) : new[i].event = e
        /\ \A i \in 1 .. Len(new) : new[i].half # "head"
    BY <2>1, FragmentsType DEF Tail1
  <2>3. UNCHANGED <<clock, emitted, splits, rotations>>
        /\ writing' = [writing EXCEPT ![n] = NoEvent]
    BY <1>5 DEF EmitTail
  <2>4. writing' \in [Nodes -> {NoEvent, e} \cup Event] /\ splits' \in 0 .. MaxSplits
        /\ \A m \in Nodes : writing'[m] \in {NoEvent, writing[m]}
        /\ emitted' \in 0 .. MaxEvents /\ emitted <= emitted'
    BY <2>3, BoundsAssumption DEF LogTypeOK
  <2>5. AppendTo(n, new)
    BY <1>5
  <2> HIDE DEF new, e
  <2>6. QED
    BY <1>2, <2>1, <2>2, <2>3, <2>4, <2>5
<1>6. QED
  BY <1>1, <1>3, <1>4, <1>5 DEF EmitTail

LEMMA Rotates ==
  ASSUME LogTypeOK, LogOrder, NEW n \in Nodes, Rotate(n)
  PROVE  /\ LogTypeOK' /\ LogOrder' /\ \A m \in Nodes \ {n} : log'[m] = log[m]
         /\ Frags(n)' = <<>> /\ UNCHANGED <<clock, writing, emitted>> /\ rotations' = rotations + 1
<1>1. PICK new \in {NoFile, [frags |-> <<>>, mtime |-> <<n, clock>>]} : log' = [log EXCEPT ![n] = new]
  BY DEF Rotate
<1>2. [frags |-> <<>>, mtime |-> <<n, clock>>] \in LogFile
  BY EmptySeq DEF LogTypeOK, LogFile, Stamp
<1>3. log'[n] = new /\ \A m \in Nodes \ {n} : log'[m] = log[m]
  BY <1>1 DEF LogTypeOK
<1>4. log' \in [Nodes -> {NoFile} \cup LogFile]
  BY <1>1, <1>2 DEF LogTypeOK
<1>5. Frags(n)' = <<>>
  BY <1>2, <1>3, NothingAssumption DEF Frags
<1>6. UNCHANGED <<writing, clock, emitted, splits>> /\ rotations' = rotations + 1
      /\ rotations < MaxRotations
  BY DEF Rotate
<1>7. LogTypeOK'
  BY <1>4, <1>6, BoundsAssumption DEF LogTypeOK
<1>8. Len(Frags(n)') = 0
  BY <1>5, EmptySeq
<1>9. \A m \in Nodes \ {n} : Frags(m)' = Frags(m)
  BY <1>3 DEF Frags
<1>10. LogOrder'
  BY <1>6, <1>8, <1>9 DEF LogOrder
<1>11. QED
  BY <1>3, <1>5, <1>6, <1>7, <1>10

LEMMA Ticks ==
  ASSUME LogTypeOK, LogOrder, Tick
  PROVE  LogTypeOK' /\ LogOrder' /\ log' = log /\ rotations' = rotations /\ clock <= clock'
  BY BoundsAssumption DEF Tick, LogTypeOK, LogOrder, Frags, Times

LEMMA LogStays ==
  ASSUME LogTypeOK, LogOrder, UNCHANGED logvars
  PROVE  LogTypeOK' /\ LogOrder' /\ UNCHANGED <<log, writing, clock, emitted, rotations>>
  BY DEF logvars, LogTypeOK, LogOrder, Frags

LEMMA LogInitially ==
  ASSUME LogInit
  PROVE  LogTypeOK /\ LogOrder /\ \A n \in Nodes : Frags(n) = <<>>
<1>1. LogTypeOK
  BY BoundsAssumption DEF LogInit, LogTypeOK, Times
<1>2. \A n \in Nodes : Frags(n) = <<>>
  BY DEF LogInit, Frags
<1>3. \A n \in Nodes : Len(Frags(n)) = 0
  BY <1>2, EmptySeq
<1>4. QED
  BY <1>1, <1>2, <1>3 DEF LogInit, LogOrder

-------------------------------------------------------------------------------
(* Which lines a reading yields.                                              *)

\* A line starts at j and ends at j + 1, in a reading that starts after from.
LineAt(F, from, j) ==
    /\ F[j].half = "head" /\ F[j + 1].half = "tail"
    /\ j = from + 1 \/ F[j - 1].half = "tail"

\* A reading from from to to yields the event.
Yields(F, from, to, e) == \E j \in from + 1 .. to - 1 : LineAt(F, from, j) /\ F[j].event = e

LEMMA WholeReading ==
  ASSUME NEW F, NEW from, NEW e
  PROVE  e \in ParsedEvents(F, from) <=> Yields(F, from, Len(F), e)
  BY DEF ParsedEvents, Yields, LineAt

LEMMA PrefixReading ==
  ASSUME NEW F \in Seq(Fragment), NEW to \in Nat, to <= Len(F), NEW e
  PROVE  e \in ParsedEvents(SubSeq(F, 1, to), 0) <=> Yields(F, 0, to, e)
<1>1. Len(F) \in Nat /\ \A i \in 1 .. to : F[i] \in Fragment
  BY LenProperties, ElementOfSeq
<1> DEFINE P == SubSeq(F, 1, to)
<1>2. Len(P) = to /\ \A i \in 1 .. to : P[i] = F[i]
  BY <1>1, SubSeqProperties
<1> HIDE DEF P
<1>3. \A j \in 1 .. to - 1 : LineAt(P, 0, j) <=> LineAt(F, 0, j)
  BY <1>2 DEF LineAt
<1>4. Yields(P, 0, to, e) <=> Yields(F, 0, to, e)
  BY <1>2, <1>3 DEF Yields
<1>5. QED
  BY <1>2, <1>4, WholeReading DEF P

(* What is appended does not change what stands before.                       *)
LEMMA YieldsGrown ==
  ASSUME NEW F, NEW G, NEW from \in Nat, NEW to \in Nat, NEW e,
         \A i \in 1 .. to : G[i] = F[i]
  PROVE  Yields(G, from, to, e) <=> Yields(F, from, to, e)
<1>1. \A j \in from + 1 .. to - 1 : LineAt(G, from, j) <=> LineAt(F, from, j)
  BY DEF LineAt
<1>2. QED
  BY <1>1 DEF Yields

(* A line of a whole reading is a line of one of two parts of it, unless the first *)
(* part ends in the middle of it.                                                  *)
LEMMA YieldsInParts ==
  ASSUME NEW F, NEW mid \in Nat, NEW to \in Nat, NEW e, Yields(F, 0, to, e)
  PROVE  \/ Yields(F, 0, mid, e) \/ Yields(F, mid, to, e)
         \/ mid > 0 /\ mid < to /\ F[mid].half = "head" /\ F[mid].event = e
<1>1. PICK j \in 1 .. to - 1 : LineAt(F, 0, j) /\ F[j].event = e
  BY DEF Yields
<1>2. CASE j + 1 <= mid
  BY <1>1, <1>2 DEF Yields
<1>3. CASE j = mid
  BY <1>1, <1>3 DEF LineAt
<1>4. CASE j > mid
  <2>1. LineAt(F, mid, j)
    BY <1>1, <1>4 DEF LineAt
  <2>2. QED
    BY <1>1, <1>4, <2>1 DEF Yields
<1>5. QED
  BY <1>1, <1>2, <1>3, <1>4

(* What a reading yields is logged, in the order of the positions.            *)
LEMMA YieldsLogged ==
  ASSUME LogTypeOK, LogOrder, NEW n \in Nodes, NEW from \in Nat,
         NEW e, Yields(Frags(n), from, Len(Frags(n)), e)
  PROVE  e \in Event /\ e.node = n /\ e.id <= emitted
<1>1. PICK j \in from + 1 .. Len(Frags(n)) - 1 : Frags(n)[j].event = e
  BY DEF Yields
<1>2. j \in 1 .. Len(Frags(n))
  BY <1>1, FragsType
<1>3. QED
  BY <1>1, <1>2, FragsType DEF LogOrder

(* The events of a reading.                                                      *)
LEMMA ParsedFinite ==
  ASSUME NEW F \in Seq(Fragment), NEW from \in Nat
  PROVE  IsFiniteSet(ParsedEvents(F, from))
<1> DEFINE J == {j \in from + 1 .. Len(F) - 1 : LineAt(F, from, j)}
           f == [j \in J |-> F[j].event]
<1>1. Len(F) \in Nat
  BY LenProperties
<1>2. IsFiniteSet(from + 1 .. Len(F) - 1)
  BY <1>1, FS_Interval
<1>3. IsFiniteSet(J)
  BY <1>2, FS_Subset
<1>4. f \in Surjection(J, ParsedEvents(F, from))
  <2>1. ParsedEvents(F, from) = {F[j].event : j \in J}
    BY DEF ParsedEvents, LineAt
  <2>2. QED
    BY <2>1 DEF Surjection
<1>5. QED
  BY <1>3, <1>4, FS_Surjection

LEMMA ParsedOfLog ==
  ASSUME LogTypeOK, LogOrder, NEW n \in Nodes, NEW from \in Nat
  PROVE  LET events == ParsedEvents(Frags(n), from)
         IN  /\ IsFiniteSet(events) /\ events \subseteq Event
             /\ \A e \in events : e.node = n /\ Yields(Frags(n), from, Len(Frags(n)), e)
             /\ \A e, f \in events : e.id = f.id => e = f
<1> DEFINE F == Frags(n)
           events == ParsedEvents(F, from)
<1>1. IsFiniteSet(events)
  BY FragsType, ParsedFinite
<1>2. \A e \in events : Yields(F, from, Len(F), e) /\ e \in Event /\ e.node = n
  BY WholeReading, YieldsLogged
<1>3. ASSUME NEW e \in events, NEW f \in events, e.id = f.id
      PROVE  e = f
  <2>1. PICK i \in from + 1 .. Len(F) - 1 : F[i].half = "head" /\ F[i].event = e
    BY DEF ParsedEvents
  <2>2. PICK j \in from + 1 .. Len(F) - 1 : F[j].half = "head" /\ F[j].event = f
    BY DEF ParsedEvents
  <2>3. i \in 1 .. Len(F) /\ j \in 1 .. Len(F) /\ e.id \in Nat /\ f.id \in Nat
    BY <1>2, FragsType, EventFields
  <2>4. (i < j => e.id < f.id) /\ (j < i => f.id < e.id)
    BY <2>1, <2>2, <2>3 DEF LogOrder
  <2>5. i = j
    BY <1>3, <2>3, <2>4
  <2>6. QED
    BY <2>1, <2>2, <2>5
<1>4. QED
  BY <1>1, <1>2, <1>3

-------------------------------------------------------------------------------
(* As many places as there are things, one each: every place is taken.           *)
LEMMA PlacesTaken ==
  ASSUME NEW S, IsFiniteSet(S), NEW place \in [S -> Nat],
         \A x, y \in S : place[x] = place[y] => x = y,
         \A x \in S : place[x] < Cardinality(S), NEW k \in Nat, k < Cardinality(S)
  PROVE  \E x \in S : place[x] = k
<1> DEFINE N == Cardinality(S)
<1>1. N \in Nat /\ IsFiniteSet(0 .. N - 1) /\ Cardinality(0 .. N - 1) = N
  <2>1. N \in Nat /\ N # 0
    BY FS_CardinalityType
  <2> HIDE DEF N
  <2>2. 0 \in Int /\ N - 1 \in Int /\ ~(0 > N - 1) /\ N - 1 - 0 + 1 = N
    BY <2>1
  <2>3. IsFiniteSet(0 .. N - 1) /\ Cardinality(0 .. N - 1) = IF 0 > N - 1 THEN 0 ELSE N - 1 - 0 + 1
    BY <2>2, FS_Interval
  <2>4. QED
    BY <2>1, <2>2, <2>3
<1>2. place \in [S -> 0 .. N - 1]
  BY <1>1
<1>3. place \in Injection(S, 0 .. N - 1)
  BY <1>2 DEF Injection, IsInjective
<1>4. place \in Surjection(S, 0 .. N - 1)
  <2>1. Cardinality(S) = Cardinality(0 .. N - 1)
    BY <1>1
  <2>2. Cardinality(S) = Cardinality(0 .. N - 1) <=> place \in Surjection(S, 0 .. N - 1)
    BY <1>1, <1>3, FS_Injection
  <2>3. QED
    BY <2>1, <2>2
<1>5. k \in 0 .. N - 1
  BY <1>1
<1>6. QED
  BY <1>4, <1>5 DEF Surjection

-------------------------------------------------------------------------------
(* Where a page begins and ends: the newest page ends with the log, another one  *)
(* is at its cursor unless the log ends before it.                               *)
LEMMA BoundsRange ==
  ASSUME NEW ask, ask = Newest \/ ask \in [dir : {"prev", "next"}, cursor : Nat],
         NEW total \in Nat, NEW tail \in Nat
  PROVE  LET b == PageBounds(ask, total, tail)
         IN  /\ b \in [start : Nat, end : Nat] /\ b.start <= b.end /\ b.end <= total
             /\ ask = Newest => b.end = total
             /\ ask.dir = "next" => b.start = Least(ask.cursor, total)
             /\ ask.dir = "prev" => b.end = Least(ask.cursor, total)
<1> DEFINE cur == Cursor(ask, total, tail)
<1>1. (ask.dir \in {"prev", "next"} => ask # Newest) /\ Newest.dir # "prev"
  <2>1. Newest.dir = ""
    BY DEF Newest
  <2>2. "" # "prev" /\ "" # "next"
    OBVIOUS
  <2>3. QED
    BY <2>1, <2>2
<1>2. cur \in Nat /\ cur <= total /\ (ask # Newest => cur = Least(ask.cursor, total))
      /\ (ask = Newest => cur + tail >= total)
  BY DEF Cursor, Least, Greatest
<1> HIDE DEF cur
<1>3. PageBounds(ask, total, tail)
        = IF ask.dir = "prev" THEN [start |-> Greatest(cur - tail, 0), end |-> cur]
                              ELSE [start |-> cur, end |-> Least(cur + tail, total)]
  BY DEF PageBounds, cur
<1>4. /\ Greatest(cur - tail, 0) \in Nat /\ Greatest(cur - tail, 0) <= cur
      /\ Least(cur + tail, total) \in Nat /\ Least(cur + tail, total) <= total
      /\ cur <= Least(cur + tail, total)
      /\ ask = Newest => Least(cur + tail, total) = total
  BY <1>2 DEF Least, Greatest
<1>5. CASE ask.dir = "prev"
  BY <1>1, <1>2, <1>3, <1>4, <1>5
<1>6. CASE ask.dir # "prev"
  BY <1>1, <1>2, <1>3, <1>4, <1>6
<1>7. QED
  BY <1>5, <1>6
==============================================================================
