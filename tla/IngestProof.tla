----------------------------- MODULE IngestProof -----------------------------
(***************************************************************************)
(* Theorems about Ingest, for any logs, retention, page size and bounds.     *)
(***************************************************************************)
EXTENDS Ingest, EventLogProof

-------------------------------------------------------------------------------
(* Finite sets of numbered things.  Below(S, x): those with a smaller number.   *)

Below(S, x) == {y \in S : y.id < x.id}
Rank(S, x) == Cardinality(Below(S, x))

LEMMA RankType ==
  ASSUME NEW S, IsFiniteSet(S), NEW x
  PROVE  IsFiniteSet(Below(S, x)) /\ Rank(S, x) \in Nat /\ Rank(S, x) <= Cardinality(S)
<1>1. Below(S, x) \in SUBSET S
  BY DEF Below
<1>2. QED
  BY <1>1, FS_Subset, FS_CardinalityType DEF Rank

LEMMA RankOrder ==
  ASSUME NEW S, IsFiniteSet(S), \A z \in S : z.id \in Nat,
         NEW x \in S, NEW y, y.id \in Nat, x.id < y.id
  PROVE  Rank(S, x) < Rank(S, y)
<1>1. Below(S, x) \in SUBSET Below(S, y)
  BY DEF Below
<1>2. x \in Below(S, y) /\ x \notin Below(S, x)
  BY DEF Below
<1>3. IsFiniteSet(Below(S, y)) /\ Rank(S, x) \in Nat /\ Rank(S, y) \in Nat
  BY RankType
<1>4. Rank(S, x) <= Rank(S, y) /\ (Rank(S, y) = Rank(S, x) => Below(S, y) = Below(S, x))
  BY <1>1, <1>3, FS_Subset DEF Rank
<1>5. QED
  BY <1>2, <1>3, <1>4

LEMMA RankBelowSize ==
  ASSUME NEW S, IsFiniteSet(S), \A z \in S : z.id \in Nat, NEW x \in S
  PROVE  Rank(S, x) < Cardinality(S)
<1>1. Below(S, x) \in SUBSET S /\ x \notin Below(S, x)
  BY DEF Below
<1>2. Rank(S, x) <= Cardinality(S) /\ (Cardinality(S) = Rank(S, x) => S = Below(S, x))
  BY <1>1, FS_Subset DEF Rank
<1>3. Rank(S, x) \in Nat /\ Cardinality(S) \in Nat
  BY RankType, FS_CardinalityType
<1>4. QED
  BY <1>1, <1>2, <1>3

\* No two have the same number.
Numbered(S) == \A x, y \in S : x.id = y.id => x = y

LEMMA RankInjective ==
  ASSUME NEW S, IsFiniteSet(S), \A z \in S : z.id \in Nat, Numbered(S),
         NEW x \in S, NEW y \in S, x # y
  PROVE  Rank(S, x) # Rank(S, y)
<1>1. x.id < y.id \/ y.id < x.id
  BY DEF Numbered
<1>2. Rank(S, x) \in Nat /\ Rank(S, y) \in Nat
  BY RankType
<1>3. QED
  BY <1>1, <1>2, RankOrder

(* Counted from 0, each place below the size is taken by one.                    *)
LEMMA RankSurjective ==
  ASSUME NEW S, IsFiniteSet(S), \A z \in S : z.id \in Nat, Numbered(S),
         NEW k \in Nat, k < Cardinality(S)
  PROVE  \E x \in S : Rank(S, x) = k
<1> DEFINE place == [x \in S |-> Rank(S, x)]
<1>1. place \in [S -> Nat] /\ \A x \in S : place[x] < Cardinality(S)
  BY RankType, RankBelowSize
<1>2. \A x, y \in S : place[x] = place[y] => x = y
  BY RankInjective
<1> HIDE DEF place
<1>3. PICK x \in S : place[x] = k
  BY <1>1, <1>2, PlacesTaken
<1>4. QED
  BY <1>3 DEF place

-------------------------------------------------------------------------------
(* The rows that an INSERT adds.                                                *)

RowsUnique(S) == \A r, q \in S : r.id = q.id \/ r.event = q.event => r = q
EventsOf(S) == {r.event : r \in S}

LEMMA InsertedRows ==
  ASSUME NEW stored, NEW next \in Nat, NEW events, IsFiniteSet(events), events \subseteq Event,
         \A e, f \in events : e.id = f.id => e = f
  PROVE  LET adds == Inserted(stored, next, events)
         IN  /\ adds \subseteq Row /\ IsFiniteSet(adds) /\ RowsUnique(adds)
             /\ Cardinality(adds) \in Nat
             /\ \A a \in adds :
                  /\ a.event \in events /\ a.event \notin EventsOf(stored)
                  /\ next <= a.id /\ a.id < next + Cardinality(adds)
             /\ \A e \in events : e \in EventsOf(stored) \/ e \in EventsOf(adds)
             /\ \A a, b \in adds : a.id < b.id <=> a.event.id < b.event.id
<1> DEFINE new == events \ EventsOf(stored)
           adds == Inserted(stored, next, events)
           row(e) == [event |-> e, id |-> next + Rank(new, e)]
<1>1. adds = {row(e) : e \in new}
  BY DEF Inserted, EventsOf, Rank, Below
<1>2. IsFiniteSet(new) /\ new \subseteq Event /\ \A e \in new : e.id \in Nat
  BY FS_Difference, EventFields
<1> HIDE DEF new, adds
<1>3. Numbered(new)
  BY DEF new, Numbered
<1>4. \A e \in new : Rank(new, e) \in Nat /\ Rank(new, e) < Cardinality(new)
  BY <1>2, RankType, RankBelowSize
<1>5. \A e \in new : row(e).event = e /\ row(e).id = next + Rank(new, e) /\ row(e) \in Row
  BY <1>2, <1>4 DEF Row
<1>6. \A e, f \in new : e.id < f.id => Rank(new, e) < Rank(new, f)
  BY <1>2, RankOrder
<1> DEFINE g == [e \in new |-> row(e)]
<1>7. g \in Bijection(new, adds)
  <2>1. \A e, f \in new : row(e) = row(f) => e = f
    BY <1>5
  <2>2. g \in [new -> adds] /\ \A r \in adds : \E e \in new : g[e] = r
    BY <1>1
  <2>3. QED
    <3>1. IsInjective(g)
      BY <2>1 DEF IsInjective
    <3>2. QED
      BY <2>2, <3>1 DEF Bijection, Injection, Surjection
<1>8. IsFiniteSet(adds) /\ Cardinality(adds) = Cardinality(new) /\ Cardinality(adds) \in Nat
  BY <1>2, <1>7, FS_Bijection, FS_CardinalityType DEF ExistsBijection
<1>9. \A a \in adds : \E e \in new : a = row(e)
  BY <1>1
<1>10. \A a \in adds : /\ a \in Row /\ a.event \in new /\ a.id = next + Rank(new, a.event)
                       /\ a = row(a.event)
  BY <1>5, <1>9
<1> HIDE DEF row, g
<1>11. \A a, b \in adds : a.id < b.id <=> a.event.id < b.event.id
  <2> SUFFICES ASSUME NEW a \in adds, NEW b \in adds
               PROVE  a.id < b.id <=> a.event.id < b.event.id
    OBVIOUS
  <2>1. /\ a.id = next + Rank(new, a.event) /\ b.id = next + Rank(new, b.event)
        /\ a.event \in new /\ b.event \in new
    BY <1>10
  <2>2. /\ Rank(new, a.event) \in Nat /\ Rank(new, b.event) \in Nat
        /\ a.event.id \in Nat /\ b.event.id \in Nat
    BY <1>2, <1>4, <2>1
  <2>3. a.event.id = b.event.id => a.event = b.event
    BY <1>3, <2>1 DEF Numbered
  <2>4. QED
    BY <1>6, <2>1, <2>2, <2>3
<1>12. RowsUnique(adds)
  <2> SUFFICES ASSUME NEW a \in adds, NEW b \in adds, a.id = b.id \/ a.event = b.event
               PROVE  a = b
    BY DEF RowsUnique
  <2>1. a.event \in new /\ b.event \in new /\ a.event.id \in Nat /\ b.event.id \in Nat
        /\ a.id \in Nat /\ b.id \in Nat
    BY <1>2, <1>10 DEF Row
  <2>2. a.event.id = b.event.id
    BY <1>11, <2>1
  <2>3. a.event = b.event
    BY <1>3, <2>1, <2>2 DEF Numbered
  <2>4. QED
    BY <1>10, <2>3
<1>13. \A a \in adds : next <= a.id /\ a.id < next + Cardinality(adds)
  BY <1>4, <1>8, <1>10
<1>14. \A e \in events : e \in EventsOf(stored) \/ e \in EventsOf(adds)
  <2>1. \A e \in new : row(e) \in adds /\ row(e).event = e
    BY <1>1, <1>5
  <2>2. \A e \in events : e \notin new => e \in EventsOf(stored)
    BY DEF new
  <2>3. QED
    BY <2>1, <2>2 DEF EventsOf
<1>15. QED
  BY <1>8, <1>10, <1>11, <1>12, <1>13, <1>14 DEF new, adds

-------------------------------------------------------------------------------
(* Type correctness.  What a sync holds of rows that it is about to insert: their *)
(* ids are its own, their events in no row and in no other sync's hands.          *)

Holding(n) == sync[n].pc \in {"stat", "commit"}
Pending(n) == IF Holding(n) THEN sync[n].adds ELSE {}

PendingApart ==
    \A n \in Nodes :
        /\ IsFiniteSet(Pending(n)) /\ RowsUnique(Pending(n))
        /\ \A a \in Pending(n) :
             /\ a \in Row /\ a.event.node = n /\ a.id < nextRow
             /\ \A r \in rows : a.id # r.id /\ a.event # r.event
        /\ \A m \in Nodes \ {n} : \A a \in Pending(n), b \in Pending(m) : a.id # b.id

RowsOK ==
    /\ rows \subseteq Row /\ IsFiniteSet(rows) /\ RowsUnique(rows)
    /\ nextRow \in Nat /\ \A r \in rows : r.id < nextRow

Asking == \A n \in Nodes : sync[n].pc \in {"count", "select"} => sync[n].ask # NoAsk

Typed == TypeOK /\ LogOrder /\ RowsOK /\ PendingApart /\ Asking

-------------------------------------------------------------------------------
(* The states of a sync.                                                        *)

LEMMA SyncFields ==
  ASSUME NEW s \in SyncState
  PROVE  /\ s.pc \in {"idle", "load", "read", "stat", "commit", "count", "select"}
         /\ s.pc # "idle" => s.ask \in Ask
         /\ s.pc = "load" => s.size \in Nat /\ s.mtime \in Stamp
         /\ s.pc = "read" => s.offset \in Nat /\ s.mtime \in Stamp
         /\ s.pc \in {"stat", "commit"} =>
              /\ s.offset \in Nat /\ s.end \in Nat /\ s.mtime \in Stamp /\ s.adds \in SUBSET Row
              /\ s.cut \in SUBSET Event /\ s.file \in 0 .. MaxRotations
              /\ s = [pc |-> s.pc, ask |-> s.ask, offset |-> s.offset, end |-> s.end,
                      mtime |-> s.mtime, adds |-> s.adds, cut |-> s.cut, file |-> s.file]
         /\ s.pc = "select" => s.bounds \in [start : Nat, end : Nat]
  BY DEF SyncState

LEMMA SyncRecords ==
  ASSUME NEW ask \in Ask
  PROVE  /\ [pc |-> "idle"] \in SyncState
         /\ \A size \in Nat, mtime \in Stamp :
              [pc |-> "load", ask |-> ask, size |-> size, mtime |-> mtime] \in SyncState
         /\ \A offset \in Nat, mtime \in Stamp :
              [pc |-> "read", ask |-> ask, mtime |-> mtime, offset |-> offset] \in SyncState
         /\ [pc |-> "count", ask |-> ask] \in SyncState
         /\ \A bounds \in [start : Nat, end : Nat] :
              [pc |-> "select", ask |-> ask, bounds |-> bounds] \in SyncState
  BY DEF SyncState

(* After the second stat.                                                       *)
StatKept(s) == [s EXCEPT !.pc = "commit"]
StatMoved(s, mtime) == [s EXCEPT !.pc = "commit", !.mtime = mtime]

LEMMA Stated ==
  ASSUME NEW s \in SyncState, s.pc = "stat", NEW mtime \in Stamp,
         NEW t, t = StatMoved(s, mtime) \/ t = StatKept(s)
  PROVE  /\ t \in SyncState /\ t.pc = "commit" /\ t.ask = s.ask /\ t.offset = s.offset
         /\ t.end = s.end /\ t.adds = s.adds /\ t.cut = s.cut /\ t.file = s.file
<1> DEFINE u == [s EXCEPT !.pc = "commit"]
           Moved(v, mt) == v = [pc |-> "commit", ask |-> s.ask, offset |-> s.offset, end |-> s.end,
                                mtime |-> mt, adds |-> s.adds, cut |-> s.cut, file |-> s.file]
<1>1. Moved(u, s.mtime)
  BY SyncFields
<1>2. [u EXCEPT !.mtime = mtime] = StatMoved(s, mtime)
  BY Zenon DEF StatMoved
<1> HIDE DEF u
<1>3. Moved([u EXCEPT !.mtime = mtime], mtime)
  BY <1>1
<1>4. s.mtime \in Stamp /\ (Moved(t, mtime) \/ Moved(t, s.mtime))
  BY <1>1, <1>2, <1>3, SyncFields DEF u, StatKept
<1>5. QED
  BY <1>4, SyncFields DEF SyncState

LEMMA Going ==
  ASSUME TypeOK, NEW n \in Nodes, NEW s, Goto(n, s)
  PROVE  /\ sync'[n] = s /\ \A m \in Nodes \ {n} : sync'[m] = sync[m]
         /\ s \in SyncState => sync' \in [Nodes -> SyncState]
  BY DEF TypeOK, Goto

LEMMA AsksType ==
  ASSUME TypeOK
  PROVE  Asks(page) \subseteq Ask
  BY DEF TypeOK, Page, Asks, Ask, PrevOf, NextOf

(* Pages.                                                                       *)
LEMMA RowsAtCount ==
  ASSUME NEW S, IsFiniteSet(S), \A r \in S : r.id \in Nat, RowsUnique(S),
         NEW b, b.start \in Nat, b.end \in Nat
  PROVE  LET shown == RowsAt(S, b)
         IN  /\ shown \subseteq S /\ IsFiniteSet(shown)
             /\ Cardinality(shown) \in Nat /\ Cardinality(shown) <= b.end
             /\ b.start <= b.end /\ b.end <= Cardinality(S) => Cardinality(shown) = b.end - b.start
<1> DEFINE shown == RowsAt(S, b)
           I == b.start .. b.end - 1
           f == [r \in shown |-> Rank(S, r)]
<1>1. shown = {r \in S : Rank(S, r) \in I}
  BY DEF RowsAt, Rank, Below
<1>2. shown \subseteq S /\ IsFiniteSet(shown) /\ Cardinality(shown) \in Nat
  BY <1>1, FS_Subset, FS_CardinalityType
<1>3. IsFiniteSet(I) /\ Cardinality(I) \in Nat /\ Cardinality(I) <= b.end
      /\ (b.start <= b.end => Cardinality(I) = b.end - b.start)
  <2>1. b.start \in Int /\ b.end - 1 \in Int
    OBVIOUS
  <2>2. IsFiniteSet(I) /\ Cardinality(I) = IF b.start > b.end - 1 THEN 0 ELSE b.end - 1 - b.start + 1
    BY <2>1, FS_Interval
  <2>3. QED
    BY <2>2
<1>4. Numbered(S)
  BY DEF RowsUnique, Numbered
<1>5. f \in [shown -> I]
  BY <1>1
<1> HIDE DEF shown, I
<1>6. f \in Injection(shown, I)
  <2>1. \A x, y \in shown : Rank(S, x) = Rank(S, y) => x = y
    BY <1>2, <1>4, RankInjective
  <2>2. IsInjective(f)
    BY <2>1 DEF IsInjective
  <2>3. QED
    BY <1>5, <2>2 DEF Injection
<1>7. Cardinality(shown) <= Cardinality(I)
  BY <1>3, <1>6, FS_Injection
<1>8. ASSUME b.start <= b.end, b.end <= Cardinality(S)
      PROVE  Cardinality(shown) >= Cardinality(I)
  <2>1. ASSUME NEW k \in I
        PROVE  \E r \in shown : f[r] = k
    <3>1. Cardinality(S) \in Nat
      BY FS_CardinalityType
    <3>2. k \in Nat /\ k < Cardinality(S)
      BY <1>8, <2>1, <3>1 DEF I
    <3>3. PICK r \in S : Rank(S, r) = k
      BY <1>4, <3>2, RankSurjective
    <3>4. QED
      BY <1>1, <2>1, <3>3
  <2>2. f \in Surjection(shown, I)
    BY <1>5, <2>1 DEF Surjection
  <2>3. Cardinality(I) <= Cardinality(shown)
    BY <1>2, <2>2, FS_Surjection
  <2>4. QED
    BY <1>2, <1>3, <2>3
<1>9. QED
  BY <1>2, <1>3, <1>7, <1>8 DEF shown

-------------------------------------------------------------------------------
(* What the steps do to the store, the page and the history.                    *)

StoreType ==
    /\ ingest \in [offset : Nat, mtime : {NoTime} \cup Stamp]
    /\ page \in Page /\ page.end - page.start = Cardinality(page.shown)
    /\ whole \in [Nodes -> BOOLEAN] /\ torn \subseteq Event /\ everStored \subseteq Row

LEMMA Committing ==
  ASSUME Typed, NEW n \in Nodes, sync[n].pc = "commit", CommitEffect(n)
  PROVE  /\ StoreType'
         /\ rows' = {r \in rows \cup Pending(n) : ~Expired(r.event, clock)}
         /\ rows' \subseteq Row /\ IsFiniteSet(rows') /\ RowsUnique(rows')
<1>1. sync[n] \in SyncState /\ Pending(n) = sync[n].adds
  BY DEF Typed, TypeOK, Pending, Holding
<1>2. rows' = {r \in rows \cup Pending(n) : ~Expired(r.event, clock)}
  BY <1>1 DEF CommitEffect, Pruned
<1>3. rows \cup Pending(n) \subseteq Row /\ IsFiniteSet(rows \cup Pending(n))
  BY FS_Union DEF Typed, RowsOK, PendingApart
<1>4. RowsUnique(rows \cup Pending(n))
  BY DEF Typed, RowsOK, PendingApart, RowsUnique
<1>5. rows' \subseteq Row /\ IsFiniteSet(rows') /\ RowsUnique(rows')
  <2>1. rows' \in SUBSET (rows \cup Pending(n))
    BY <1>2
  <2>2. IsFiniteSet(rows')
    BY <1>3, <2>1, FS_Subset
  <2>3. QED
    BY <1>3, <1>4, <2>1, <2>2 DEF RowsUnique
<1>6. StoreType'
  <2>1. ingest' \in [offset : Nat, mtime : {NoTime} \cup Stamp] /\ torn' \subseteq Event
    BY <1>1, SyncFields DEF CommitEffect, Typed, TypeOK
  <2>2. whole' \in [Nodes -> BOOLEAN]
    BY DEF CommitEffect, Typed, TypeOK
  <2>3. page' = page \/ page' = [page EXCEPT !.moved = TRUE]
    BY DEF CommitEffect
  <2>4. page' \in Page /\ page'.end - page'.start = Cardinality(page'.shown)
    BY <2>3 DEF Typed, TypeOK, Page
  <2>5. everStored' = everStored \cup rows' /\ everStored' \subseteq Row
    BY <1>5 DEF CommitEffect, Typed, TypeOK
  <2>6. QED
    BY <2>1, <2>2, <2>4, <2>5 DEF StoreType
<1>7. QED
  BY <1>2, <1>5, <1>6

(* The rows that a reading prepares.                                             *)
Prepared(n) == Inserted(rows, nextRow, ParsedEvents(Frags(n), sync[n].offset))

LEMMA Preparing ==
  ASSUME Typed, NEW n \in Nodes, sync[n].pc = "read"
  PROVE  LET adds == Prepared(n)
         IN  /\ adds \subseteq Row /\ IsFiniteSet(adds) /\ RowsUnique(adds)
             /\ Cardinality(adds) \in Nat
             /\ \A a \in adds :
                  /\ a.event.node = n /\ a.event \notin Stored
                  /\ Yields(Frags(n), sync[n].offset, Len(Frags(n)), a.event)
                  /\ nextRow <= a.id /\ a.id < nextRow + Cardinality(adds)
             /\ \A e \in Event : Yields(Frags(n), sync[n].offset, Len(Frags(n)), e) =>
                  e \in Stored \/ e \in EventsOf(adds)
             /\ \A a, b \in adds : a.id < b.id <=> a.event.id < b.event.id
<1> DEFINE F == Frags(n)
           offset == sync[n].offset
           events == ParsedEvents(F, offset)
<1>1. offset \in Nat
  BY SyncFields DEF Typed, TypeOK
<1>2. LogTypeOK /\ LogOrder /\ nextRow \in Nat
  BY DEF Typed, TypeOK, RowsOK
<1> HIDE DEF F, offset
<1>3. /\ IsFiniteSet(events) /\ events \subseteq Event
      /\ \A e \in events : e.node = n /\ Yields(F, offset, Len(F), e)
      /\ \A e, f \in events : e.id = f.id => e = f
  BY <1>1, <1>2, ParsedOfLog DEF F
<1>4. \A e : Yields(F, offset, Len(F), e) => e \in events
  BY WholeReading
<1> HIDE DEF events
<1> DEFINE adds == Inserted(rows, nextRow, events)
<1>5. /\ adds \subseteq Row /\ IsFiniteSet(adds) /\ RowsUnique(adds)
      /\ Cardinality(adds) \in Nat
      /\ \A a \in adds :
           /\ a.event \in events /\ a.event \notin EventsOf(rows)
           /\ nextRow <= a.id /\ a.id < nextRow + Cardinality(adds)
      /\ \A e \in events : e \in EventsOf(rows) \/ e \in EventsOf(adds)
      /\ \A a, b \in adds : a.id < b.id <=> a.event.id < b.event.id
  BY <1>2, <1>3, InsertedRows
<1>6. adds = Prepared(n) /\ EventsOf(rows) = Stored
  BY DEF Prepared, F, offset, events, EventsOf, Stored
<1> HIDE DEF adds
<1>7. QED
  BY <1>3, <1>4, <1>5, <1>6 DEF F, offset

-------------------------------------------------------------------------------
(* Every step keeps the types.                                                  *)

LEMMA PendingKept ==
  ASSUME PendingApart, UNCHANGED <<rows, nextRow>>,
         \A m \in Nodes : Pending(m)' = Pending(m) \/ Pending(m)' = {}
  PROVE  PendingApart'
<1>1. ASSUME NEW m \in Nodes
      PROVE  IsFiniteSet(Pending(m)') /\ RowsUnique(Pending(m)')
  <2>1. CASE Pending(m)' = Pending(m)
    BY <2>1 DEF PendingApart
  <2>2. CASE Pending(m)' = {}
    BY <2>2, FS_EmptySet DEF RowsUnique
  <2>3. QED
    BY <2>1, <2>2
<1>2. \A m \in Nodes : Pending(m)' \subseteq Pending(m)
  OBVIOUS
<1>3. \A m \in Nodes : \A a \in Pending(m)' :
        /\ a \in Row /\ a.event.node = m /\ a.id < nextRow
        /\ \A r \in rows : a.id # r.id /\ a.event # r.event
  BY <1>2 DEF PendingApart
<1>4. \A m, k \in Nodes : m # k => \A a \in Pending(m)', b \in Pending(k)' : a.id # b.id
  BY <1>2 DEF PendingApart
<1>5. QED
  BY <1>1, <1>3, <1>4 DEF PendingApart

LEMMA StoreKept ==
  ASSUME Typed, UNCHANGED <<store, page, history>>
  PROVE  RowsOK' /\ StoreType'
  BY DEF Typed, TypeOK, RowsOK, StoreType, store, history, RowsUnique

LEMMA SyncFrame ==
  ASSUME Typed, NEW n \in Nodes, NEW s \in SyncState, Goto(n, s),
         s.pc \in {"count", "select"} => s.ask # NoAsk,
         UNCHANGED logvars, RowsOK', PendingApart', StoreType', faults' \in 0 .. MaxFaults
  PROVE  Typed'
<1>1. LogTypeOK' /\ LogOrder'
  BY LogStays DEF Typed, TypeOK
<1>2. sync' \in [Nodes -> SyncState] /\ Asking'
  BY Going DEF Typed, TypeOK, Asking
<1>3. QED
  BY <1>1, <1>2 DEF Typed, TypeOK, RowsOK, StoreType

(* A step of a sync that neither reads nor commits.                             *)
LEMMA QuietSync ==
  ASSUME Typed, NEW n \in Nodes, NEW s \in SyncState, Goto(n, s),
         s.pc \in {"count", "select"} => s.ask # NoAsk,
         s.pc \in {"stat", "commit"} => Holding(n) /\ s.adds = sync[n].adds,
         UNCHANGED logvars, UNCHANGED <<rows, nextRow>>, StoreType', faults' \in 0 .. MaxFaults
  PROVE  Typed' /\ \A m \in Nodes \ {n} : Pending(m)' = Pending(m)
<1>1. sync'[n] = s /\ \A m \in Nodes \ {n} : sync'[m] = sync[m]
  BY Going DEF Typed
<1>2. \A m \in Nodes \ {n} : Pending(m)' = Pending(m)
  BY <1>1 DEF Pending, Holding
<1>3. Pending(n)' = Pending(n) \/ Pending(n)' = {}
  BY <1>1 DEF Pending, Holding
<1>4. PendingApart'
  BY <1>2, <1>3, PendingKept DEF Typed
<1>5. RowsOK'
  BY DEF Typed, RowsOK, RowsUnique
<1>6. QED
  BY <1>2, <1>4, <1>5, SyncFrame

LEMMA FaultType ==
  ASSUME TypeOK, Fault \/ NoFault
  PROVE  faults' \in 0 .. MaxFaults
  BY RetentionAssumption DEF TypeOK, Fault, NoFault

LEMMA LogTyped ==
  ASSUME Typed, ClockTicks \/ \E n \in Nodes : LogAction(n) \/ LogRotated(n)
  PROVE  Typed'
<1>1. LogTypeOK' /\ LogOrder'
  BY Ticks, Appends, Rotates DEF Typed, TypeOK, ClockTicks, LogAction, LogRotated
<1>2. UNCHANGED <<store, sync, page, faults>> /\ whole' \in [Nodes -> BOOLEAN] /\ UNCHANGED <<torn, everStored>>
  BY DEF ClockTicks, LogAction, LogRotated, history, Typed, TypeOK
<1>3. RowsOK' /\ StoreType'
  BY <1>2 DEF Typed, TypeOK, RowsOK, StoreType, store, RowsUnique
<1>4. PendingApart' /\ Asking'
  <2>1. \A m \in Nodes : Pending(m)' = Pending(m)
    BY <1>2 DEF Pending, Holding
  <2>2. PendingApart'
    BY <1>2, <2>1, PendingKept DEF Typed, store
  <2>3. QED
    BY <1>2, <2>2 DEF Typed, Asking
<1>5. QED
  BY <1>1, <1>2, <1>3, <1>4 DEF Typed, TypeOK, RowsOK, StoreType

LEMMA InitTyped == Init => Typed
<1> SUFFICES ASSUME Init PROVE Typed
  OBVIOUS
<1>1. LogTypeOK /\ LogOrder
  BY LogInitially DEF Init
<1>2. RowsOK
  BY FS_EmptySet DEF Init, RowsOK, RowsUnique
<1>3. sync \in [Nodes -> SyncState] /\ Asking /\ \A n \in Nodes : Pending(n) = {}
  BY DEF Init, SyncState, Asking, Pending, Holding
<1>4. PendingApart
  BY <1>3, FS_EmptySet DEF PendingApart, RowsUnique
<1>5. page \in Page /\ page.end - page.start = Cardinality(page.shown)
  BY FS_EmptySet DEF Init, Page
<1>6. ingest \in [offset : Nat, mtime : {NoTime} \cup Stamp] /\ faults \in 0 .. MaxFaults
      /\ whole \in [Nodes -> BOOLEAN] /\ torn \subseteq Event /\ everStored \subseteq Row
  BY RetentionAssumption DEF Init
<1>7. QED
  BY <1>1, <1>2, <1>3, <1>4, <1>5, <1>6 DEF Typed, TypeOK, RowsOK

LEMMA StartTyped ==
  ASSUME Typed, NEW n \in Nodes, NEW ask \in Asks(page), SyncStart(n, ask)
  PROVE  Typed' /\ Pending(n)' = {} /\ \A m \in Nodes \ {n} : Pending(m)' = Pending(m)
<1>1. ask \in Ask
  BY AsksType DEF Typed
<1>2. RowsOK' /\ StoreType' /\ faults' \in 0 .. MaxFaults /\ UNCHANGED <<rows, nextRow>>
  BY StoreKept DEF SyncStart, Typed, TypeOK, store
<1>3. PICK s : /\ Goto(n, s) /\ s \in SyncState /\ s.pc \in {"idle", "load", "count"}
               /\ s.pc = "count" => s.ask # NoAsk
  <2>1. CASE log[n] = NoFile /\ ask = NoAsk
    <3> DEFINE s == [pc |-> "idle"]
    <3>1. Goto(n, s) /\ s.pc = "idle" /\ s \in SyncState
      BY <1>1, <2>1, SyncRecords DEF SyncStart, Done
    <3>2. QED
      BY <3>1
  <2>2. CASE log[n] = NoFile /\ ask # NoAsk
    <3> DEFINE s == [pc |-> "count", ask |-> ask]
    <3>1. Goto(n, s) /\ s.pc = "count" /\ s.ask = ask /\ s \in SyncState
      BY <1>1, <2>2, SyncRecords DEF SyncStart, Done
    <3>2. QED
      BY <2>2, <3>1
  <2>3. CASE log[n] # NoFile
    <3> DEFINE s == [pc |-> "load", ask |-> ask,
                     size |-> Len(log[n].frags), mtime |-> log[n].mtime]
    <3>1. log[n].mtime \in Stamp /\ Len(log[n].frags) \in Nat
      BY <2>3, LenProperties DEF Typed, TypeOK, LogTypeOK, LogFile
    <3>2. Goto(n, s) /\ s.pc = "load" /\ s \in SyncState
      BY <1>1, <2>3, <3>1, SyncRecords DEF SyncStart
    <3>3. QED
      BY <3>2
  <2>4. QED
    BY <2>1, <2>2, <2>3
<1>4. Typed' /\ \A m \in Nodes \ {n} : Pending(m)' = Pending(m)
  BY <1>2, <1>3, QuietSync DEF SyncStart
<1>5. Pending(n)' = {}
  BY <1>3, Going DEF Typed, Pending, Holding
<1>6. QED
  BY <1>4, <1>5

LEMMA OffsetType ==
  ASSUME NEW st, st.offset \in Nat, NEW size \in Nat, NEW mtime
  PROVE  StartOffset(st, size, mtime) \in {0, st.offset}
  BY DEF StartOffset

LEMMA LoadTyped ==
  ASSUME Typed, NEW n \in Nodes, SyncLoad(n)
  PROVE  /\ Typed' /\ \A m \in Nodes : Pending(m)' = Pending(m)
         /\ sync'[n].pc = "read" /\ sync'[n].offset \in {0, ingest.offset}
<1> DEFINE offset == StartOffset(ingest, sync[n].size, sync[n].mtime)
           s == [pc |-> "read", ask |-> sync[n].ask, mtime |-> sync[n].mtime, offset |-> offset]
<1>1. sync[n].ask \in Ask /\ sync[n].mtime \in Stamp /\ sync[n].size \in Nat /\ ingest.offset \in Nat
  BY SyncFields DEF SyncLoad, Typed, TypeOK
<1>2. offset \in {0, ingest.offset}
  BY <1>1, OffsetType
<1> HIDE DEF offset
<1>3. s \in SyncState /\ s.pc = "read" /\ s.offset = offset
  BY <1>1, <1>2, SyncRecords
<1>4. Goto(n, s)
  BY DEF SyncLoad, offset
<1>5. RowsOK' /\ StoreType' /\ faults' \in 0 .. MaxFaults /\ UNCHANGED <<rows, nextRow>>
  BY StoreKept DEF SyncLoad, Typed, TypeOK, store
<1> HIDE DEF s
<1>6. Typed' /\ \A m \in Nodes \ {n} : Pending(m)' = Pending(m)
  BY <1>3, <1>4, <1>5, QuietSync DEF SyncLoad
<1>7. sync'[n] = s /\ Pending(n) = {}
  BY <1>4, Going DEF SyncLoad, Typed, Pending, Holding
<1>8. Pending(n)' = {}
  BY <1>3, <1>7 DEF Pending, Holding
<1>9. QED
  BY <1>2, <1>3, <1>6, <1>7, <1>8

(* What a reading leaves for the commit.                                         *)
LEMMA Reads ==
  ASSUME Typed, NEW n \in Nodes, SyncRead(n)
  PROVE  LET s == sync'[n]
             F == Frags(n)
         IN  /\ Goto(n, s) /\ s \in SyncState /\ s.pc = "stat" /\ s.offset = sync[n].offset
             /\ s.end = (IF Len(F) > s.offset THEN Len(F) ELSE s.offset)
             /\ s.adds = Prepared(n) /\ s.file = rotations
             /\ Len(F) > s.offset /\ F[Len(F)].half = "head" => F[Len(F)].event \in s.cut
             /\ nextRow' = nextRow + Cardinality(Prepared(n))
<1> DEFINE F == Frags(n)
           offset == sync[n].offset
           end == IF Len(F) > offset THEN Len(F) ELSE offset
           cut == CutEvents(F, offset)
<1>1. F = log[n].frags
  BY DEF SyncRead, Frags
<1>2. PICK s :
        /\ Goto(n, s) /\ nextRow' = nextRow + Cardinality(Prepared(n))
        /\ s = [pc |-> "stat", ask |-> sync[n].ask, offset |-> offset, mtime |-> sync[n].mtime,
                end |-> end, adds |-> Prepared(n), cut |-> cut, file |-> rotations]
  BY <1>1 DEF SyncRead, Prepared
<1>3. sync[n].ask \in Ask /\ sync[n].mtime \in Stamp /\ offset \in Nat /\ rotations \in 0 .. MaxRotations
  BY SyncFields DEF SyncRead, Typed, TypeOK, LogTypeOK
<1>4. /\ Len(F) \in Nat
      /\ Len(F) > offset => F[Len(F)].event \in Event
  BY <1>3, FragsType DEF Typed, TypeOK
<1>5. end \in Nat /\ cut \in SUBSET Event
      /\ (Len(F) > offset /\ F[Len(F)].half = "head" => F[Len(F)].event \in cut)
  BY <1>3, <1>4 DEF CutEvents
<1>6. Prepared(n) \in SUBSET Row
  BY Preparing DEF SyncRead
<1> HIDE DEF F, offset, end, cut
<1>7. /\ s \in SyncState /\ s.pc = "stat" /\ s.offset = offset /\ s.end = end
      /\ s.adds = Prepared(n) /\ s.cut = cut /\ s.file = rotations
  BY <1>2, <1>3, <1>5, <1>6 DEF SyncState
<1>8. sync'[n] = s
  BY <1>2, Going DEF Typed
<1>9. QED
  BY <1>2, <1>5, <1>7, <1>8 DEF F, offset, end

LEMMA ReadTyped ==
  ASSUME Typed, NEW n \in Nodes, SyncRead(n)
  PROVE  Typed' /\ Pending(n)' = Prepared(n) /\ \A m \in Nodes \ {n} : Pending(m)' = Pending(m)
<1> DEFINE s == sync'[n]
           adds == Prepared(n)
<1>1. /\ Goto(n, s) /\ s \in SyncState /\ s.pc = "stat" /\ s.adds = adds
      /\ nextRow' = nextRow + Cardinality(adds)
  BY Reads
<1>2. /\ adds \subseteq Row /\ IsFiniteSet(adds) /\ RowsUnique(adds) /\ Cardinality(adds) \in Nat
      /\ \A a \in adds : /\ a.event.node = n /\ a.event \notin Stored
                         /\ nextRow <= a.id /\ a.id < nextRow + Cardinality(adds)
  BY Preparing DEF SyncRead
<1> HIDE DEF adds
<1>3. rows' = rows /\ nextRow \in Nat /\ nextRow' \in Nat /\ nextRow <= nextRow'
  BY <1>1, <1>2 DEF SyncRead, Typed, RowsOK
<1>4. \A m \in Nodes \ {n} : sync'[m] = sync[m]
  BY <1>1, Going DEF Typed
<1>5. Pending(n)' = adds /\ \A m \in Nodes \ {n} : Pending(m)' = Pending(m)
  BY <1>1, <1>4 DEF Pending, Holding
<1>6. RowsOK'
  BY <1>3 DEF Typed, RowsOK, RowsUnique, Row
<1>7. PendingApart'
  <2>1. ASSUME NEW a \in adds
        PROVE  /\ a \in Row /\ a.event.node = n /\ a.id < nextRow'
               /\ \A r \in rows : a.id # r.id /\ a.event # r.event
               /\ \A m \in Nodes \ {n} : \A b \in Pending(m) : a.id # b.id
    BY <1>1, <1>2, <1>3 DEF Typed, RowsOK, PendingApart, Row, Stored
  <2>2. \A m \in Nodes \ {n} : Pending(m)' = Pending(m)
    BY <1>5
  <2>3. \A m \in Nodes \ {n} : \A b \in Pending(m) : b \in Row /\ b.id < nextRow'
    BY <1>1, <1>2, <1>3 DEF Typed, RowsOK, PendingApart, Row
  <2>4. \A m \in Nodes :
          /\ IsFiniteSet(Pending(m)') /\ RowsUnique(Pending(m)')
          /\ \A a \in Pending(m)' :
               /\ a \in Row /\ a.event.node = m /\ a.id < nextRow'
               /\ \A r \in rows' : a.id # r.id /\ a.event # r.event
    BY <1>2, <1>3, <1>5, <2>1, <2>2, <2>3 DEF Typed, PendingApart
  <2>5. \A m \in Nodes : \A k \in Nodes \ {m} : \A a \in Pending(m)', b \in Pending(k)' : a.id # b.id
    BY <1>5, <2>1, <2>2 DEF Typed, PendingApart
  <2>6. QED
    BY <2>4, <2>5 DEF PendingApart, RowsUnique
<1>8. UNCHANGED logvars /\ StoreType' /\ faults' \in 0 .. MaxFaults
  BY DEF SyncRead, Typed, TypeOK, StoreType, history
<1>9. Typed'
  <2>1. PICK t \in SyncState : Goto(n, t) /\ t.pc = "stat"
    BY <1>1
  <2>2. QED
    BY <1>6, <1>7, <1>8, <2>1, SyncFrame
<1>10. QED
  BY <1>5, <1>9 DEF adds

LEMMA StatTyped ==
  ASSUME Typed, NEW n \in Nodes, SyncStat(n)
  PROVE  LET s == sync[n]
             t == sync'[n]
         IN  /\ Typed' /\ \A m \in Nodes : Pending(m)' = Pending(m)
             /\ t.pc = "commit" /\ t.offset = s.offset /\ t.end = s.end
             /\ t.adds = s.adds /\ t.cut = s.cut /\ t.file = s.file
<1>1. sync[n] \in SyncState /\ sync[n].pc = "stat" /\ sync[n].mtime \in Stamp
  BY SyncFields DEF SyncStat, Typed, TypeOK
<1>2. PICK t : /\ Goto(n, t)
               /\ t = StatKept(sync[n]) \/ \E mtime \in Stamp : t = StatMoved(sync[n], mtime)
  <2>1. Goto(n, StatKept(sync[n])) \/ (log[n] # NoFile /\ Goto(n, StatMoved(sync[n], log[n].mtime)))
    BY Zenon DEF SyncStat, StatKept, StatMoved
  <2>2. log[n] # NoFile => log[n].mtime \in Stamp
    BY DEF Typed, TypeOK, LogTypeOK, LogFile
  <2>3. QED
    BY <1>1, <2>1, <2>2
<1>3. /\ t \in SyncState /\ t.pc = "commit" /\ t.offset = sync[n].offset /\ t.end = sync[n].end
      /\ t.adds = sync[n].adds /\ t.cut = sync[n].cut /\ t.file = sync[n].file
  BY <1>1, <1>2, Stated
<1>4. Goto(n, t)
  BY <1>2
<1>5. faults' \in 0 .. MaxFaults
  BY FaultType DEF Typed, SyncStat
<1>6. StoreType' /\ UNCHANGED <<rows, nextRow>> /\ UNCHANGED logvars
  BY StoreKept DEF SyncStat, store
<1>7. sync'[n] = t
  BY <1>4, Going DEF Typed
<1>8. Typed' /\ \A m \in Nodes \ {n} : Pending(m)' = Pending(m)
  BY <1>1, <1>3, <1>4, <1>5, <1>6, QuietSync DEF Holding
<1>9. Pending(n)' = Pending(n)
  BY <1>1, <1>3, <1>7 DEF Pending, Holding
<1>10. QED
  BY <1>3, <1>7, <1>8, <1>9

(* A commit: the rows held become rows, those expired go.                       *)
LEMMA CommitTyped ==
  ASSUME Typed, NEW n \in Nodes, sync[n].pc = "commit", CommitEffect(n),
         NEW s \in SyncState, Goto(n, s), s.pc \in {"idle", "count"},
         s.pc = "count" => s.ask # NoAsk,
         UNCHANGED <<logvars, nextRow>>, faults' \in 0 .. MaxFaults
  PROVE  /\ Typed' /\ Pending(n)' = {} /\ \A m \in Nodes \ {n} : Pending(m)' = Pending(m)
         /\ rows' = {r \in rows \cup Pending(n) : ~Expired(r.event, clock)}
<1>1. /\ StoreType' /\ rows' = {r \in rows \cup Pending(n) : ~Expired(r.event, clock)}
      /\ rows' \subseteq Row /\ IsFiniteSet(rows') /\ RowsUnique(rows')
  BY Committing
<1>2. Pending(n)' = {} /\ \A m \in Nodes \ {n} : Pending(m)' = Pending(m)
  BY Going DEF Typed, Pending, Holding
<1>3. nextRow' = nextRow /\ UNCHANGED logvars
  OBVIOUS
<1>4. RowsOK'
  <2>1. \A r \in rows \cup Pending(n) : r.id < nextRow
    BY DEF Typed, RowsOK, PendingApart
  <2>2. QED
    BY <1>1, <1>3, <2>1 DEF Typed, RowsOK, RowsUnique
<1>5. PendingApart'
  <2>1. ASSUME NEW m \in Nodes \ {n}
        PROVE  /\ IsFiniteSet(Pending(m)) /\ RowsUnique(Pending(m))
               /\ \A a \in Pending(m) :
                    /\ a \in Row /\ a.event.node = m /\ a.id < nextRow
                    /\ \A r \in rows' : a.id # r.id /\ a.event # r.event
    BY <1>1 DEF Typed, PendingApart
  <2>2. \A m \in Nodes : \A k \in Nodes \ {m} : \A a \in Pending(m)', b \in Pending(k)' : a.id # b.id
    BY <1>2 DEF Typed, PendingApart
  <2>3. IsFiniteSet(Pending(n)') /\ RowsUnique(Pending(n)')
    BY <1>2, FS_EmptySet DEF RowsUnique
  <2>4. ASSUME NEW m \in Nodes
        PROVE  /\ IsFiniteSet(Pending(m)') /\ RowsUnique(Pending(m)')
               /\ \A a \in Pending(m)' :
                    /\ a \in Row /\ a.event.node = m /\ a.id < nextRow'
                    /\ \A r \in rows' : a.id # r.id /\ a.event # r.event
    BY <1>2, <1>3, <2>1, <2>3 DEF RowsUnique
  <2>5. QED
    BY <2>2, <2>4 DEF PendingApart, RowsUnique
<1>6. Typed'
  BY <1>1, <1>3, <1>4, <1>5, SyncFrame
<1>7. QED
  BY <1>1, <1>2, <1>6

LEMMA DoneState ==
  ASSUME NEW n \in Nodes, NEW ask \in Ask, Done(n, ask)
  PROVE  \E s \in SyncState : /\ Goto(n, s) /\ s.pc \in {"idle", "count"}
                              /\ s.pc = "count" => s.ask # NoAsk
<1>1. CASE ask = NoAsk
  <2> DEFINE s == [pc |-> "idle"]
  <2>1. Goto(n, s) /\ s.pc = "idle" /\ s \in SyncState
    BY <1>1, SyncRecords DEF Done
  <2>2. QED
    BY <2>1
<1>2. CASE ask # NoAsk
  <2> DEFINE s == [pc |-> "count", ask |-> ask]
  <2>1. Goto(n, s) /\ s.pc = "count" /\ s.ask = ask /\ s \in SyncState
    BY <1>2, SyncRecords DEF Done
  <2>2. QED
    BY <1>2, <2>1
<1>3. QED
  BY <1>1, <1>2

(* A sync that ends, with the commit done or without.                           *)
LEMMA EndTyped ==
  ASSUME Typed, NEW n \in Nodes, SyncCommit(n) \/ SyncFails(n)
  PROVE  /\ Typed' /\ Pending(n)' = {} /\ \A m \in Nodes \ {n} : Pending(m)' = Pending(m)
         /\ UNCHANGED <<logvars, nextRow>> /\ sync'[n].pc \in {"idle", "count"}
         /\ \/ /\ CommitEffect(n) /\ sync[n].pc = "commit"
               /\ rows' = {r \in rows \cup Pending(n) : ~Expired(r.event, clock)}
            \/ UNCHANGED <<rows, ingest, page, history>>
<1>1. sync[n] \in SyncState /\ UNCHANGED <<logvars, nextRow>>
  BY DEF Typed, TypeOK, SyncCommit, SyncFails
<1>2. faults' \in 0 .. MaxFaults
  BY FaultType DEF Typed, TypeOK, SyncCommit, SyncFails
<1>3. PICK s \in SyncState : /\ Goto(n, s) /\ s.pc \in {"idle", "count"}
                             /\ s.pc = "count" => s.ask # NoAsk
  <2>1. CASE SyncCommit(n)
    <3>1. sync[n].ask \in Ask
      BY <1>1, <2>1, SyncFields DEF SyncCommit
    <3>2. QED
      BY <2>1, <3>1, DoneState DEF SyncCommit
  <2>2. CASE SyncFails(n)
    <3> DEFINE s == [pc |-> "idle"]
    <3>1. s \in SyncState /\ s.pc = "idle"
      BY DEF SyncState
    <3>2. QED
      BY <2>2, <3>1 DEF SyncFails
  <2>3. QED
    BY <2>1, <2>2
<1>4. sync'[n].pc \in {"idle", "count"} /\ \A m \in Nodes \ {n} : sync'[m] = sync[m]
  BY <1>3, Going DEF Typed
<1>5. CASE CommitEffect(n) /\ sync[n].pc = "commit"
  BY <1>1, <1>2, <1>3, <1>4, <1>5, CommitTyped
<1>6. CASE UNCHANGED <<rows, ingest, page, history>>
  <2>1. StoreType' /\ UNCHANGED <<rows, nextRow>>
    BY <1>1, <1>6, StoreKept DEF store
  <2>2. Typed' /\ \A m \in Nodes \ {n} : Pending(m)' = Pending(m)
    BY <1>1, <1>2, <1>3, <2>1, QuietSync
  <2>3. Pending(n)' = {}
    BY <1>4 DEF Pending, Holding
  <2>4. QED
    BY <1>1, <1>4, <1>6, <2>2, <2>3
<1>7. QED
  BY <1>5, <1>6 DEF SyncCommit, SyncFails

(* The queries.                                                                  *)
Bounds(n) == PageBounds(sync[n].ask, Cardinality(rows), PageSize)

LEMMA AskedBounds ==
  ASSUME Typed, NEW n \in Nodes, sync[n].pc \in {"count", "select"}
  PROVE  LET b == Bounds(n)
             ask == sync[n].ask
         IN  /\ ask \in Ask
             /\ b \in [start : Nat, end : Nat] /\ b.start <= b.end /\ b.end <= Cardinality(rows)
             /\ ask.dir = "next" /\ ask.cursor <= Cardinality(rows) => b.start = ask.cursor
             /\ ask.dir = "prev" /\ ask.cursor <= Cardinality(rows) => b.end = ask.cursor
<1> DEFINE ask == sync[n].ask
<1>1. ask \in Ask /\ ask # NoAsk /\ Cardinality(rows) \in Nat
  BY SyncFields, FS_CardinalityType DEF Typed, TypeOK, Asking, RowsOK
<1>2. (ask = Newest \/ ask \in [dir : {"prev", "next"}, cursor : Nat]) /\ PageSize \in Nat
  BY <1>1, RetentionAssumption DEF Ask
<1>3. ask.dir \in {"next", "prev"} => ask.cursor \in Nat
  <2>1. Newest.dir = "" /\ "" # "prev" /\ "" # "next"
    <3>1. "" # "prev" /\ "" # "next"
      OBVIOUS
    <3>2. QED
      BY <3>1 DEF Newest
  <2>2. QED
    BY <1>2, <2>1
<1> DEFINE total == Cardinality(rows)
<1> HIDE DEF ask, total
<1>4. LET b == PageBounds(ask, total, PageSize)
      IN  /\ b \in [start : Nat, end : Nat] /\ b.start <= b.end /\ b.end <= total
          /\ ask = Newest => b.end = total
          /\ ask.dir = "next" => b.start = Least(ask.cursor, total)
          /\ ask.dir = "prev" => b.end = Least(ask.cursor, total)
  <2>1. total \in Nat
    BY <1>1 DEF total
  <2>2. QED
    BY <1>2, <2>1, BoundsRange, Zenon
<1>5. QED
  BY <1>1, <1>4 DEF Bounds, Least, ask, total

LEMMA CountTyped ==
  ASSUME Typed, NEW n \in Nodes, Count(n)
  PROVE  /\ Typed' /\ \A m \in Nodes : Pending(m)' = Pending(m)
         /\ sync'[n].pc = "select" /\ sync'[n].ask = sync[n].ask /\ sync'[n].bounds = Bounds(n)
<1>1. sync[n].ask # NoAsk /\ sync[n].ask \in Ask /\ Bounds(n) \in [start : Nat, end : Nat]
  BY AskedBounds DEF Count, Typed, Asking
<1>2. PICK s : Goto(n, s) /\ s = [pc |-> "select", ask |-> sync[n].ask, bounds |-> Bounds(n)]
  BY DEF Count, Bounds
<1>3. s \in SyncState /\ s.pc = "select" /\ s.ask = sync[n].ask /\ s.bounds = Bounds(n)
  BY <1>1, <1>2 DEF SyncState
<1>4. StoreType' /\ faults' \in 0 .. MaxFaults /\ UNCHANGED <<rows, nextRow>> /\ UNCHANGED logvars
  BY StoreKept DEF Count, Typed, TypeOK, store
<1>5. Typed' /\ \A m \in Nodes \ {n} : Pending(m)' = Pending(m)
  BY <1>1, <1>2, <1>3, <1>4, QuietSync
<1>6. sync'[n] = s
  BY <1>2, Going DEF Typed
<1>7. Pending(n)' = Pending(n)
  BY <1>3, <1>6 DEF Count, Pending, Holding
<1>8. QED
  BY <1>3, <1>5, <1>6, <1>7

LEMMA SelectTyped ==
  ASSUME Typed, NEW n \in Nodes, Select(n)
  PROVE  LET b == sync[n].bounds
             shown == RowsAt(rows, b)
             size == Cardinality(shown)
         IN  /\ Typed' /\ \A m \in Nodes : Pending(m)' = Pending(m)
             /\ sync'[n].pc = "idle" /\ size \in Nat
             /\ page'.start = (IF sync[n].ask.dir = "prev" THEN b.start ELSE b.end - size)
             /\ page'.end = page'.start + size /\ page'.shown = shown /\ page'.moved = FALSE
<1> DEFINE b == sync[n].bounds
           shown == RowsAt(rows, b)
           size == Cardinality(shown)
           start == IF sync[n].ask.dir = "prev" THEN b.start ELSE b.end - size
<1>1. b \in [start : Nat, end : Nat]
  BY SyncFields DEF Select, Typed, TypeOK
<1>2. \A r \in rows : r.id \in Nat
  BY DEF Typed, RowsOK, Row
<1> HIDE DEF b
<1>3. shown \subseteq rows /\ size \in Nat /\ size <= b.end
  BY <1>1, <1>2, RowsAtCount DEF Typed, RowsOK
<1> HIDE DEF shown, size
<1>4. start \in Nat
  BY <1>1, <1>3
<1> HIDE DEF start
<1>5. page' = [start |-> start, end |-> start + size, shown |-> shown, moved |-> FALSE]
  BY DEF Select, b, shown, size, start
<1>6. page' \in Page /\ page'.end - page'.start = Cardinality(page'.shown)
  BY <1>3, <1>4, <1>5 DEF Page, Typed, RowsOK, size
<1>7. PICK s : Goto(n, s) /\ s = [pc |-> "idle"]
  BY DEF Select
<1>8. s \in SyncState /\ s.pc = "idle"
  BY <1>7 DEF SyncState
<1>9. StoreType' /\ faults' \in 0 .. MaxFaults /\ UNCHANGED <<rows, nextRow>> /\ UNCHANGED logvars
  BY <1>6 DEF Select, Typed, TypeOK, StoreType, store, history
<1>10. Typed' /\ \A m \in Nodes \ {n} : Pending(m)' = Pending(m)
  BY <1>7, <1>8, <1>9, QuietSync
<1>11. sync'[n] = s
  BY <1>7, Going DEF Typed
<1>12. Pending(n)' = Pending(n)
  BY <1>8, <1>11 DEF Select, Pending, Holding
<1>13. QED
  BY <1>3, <1>5, <1>8, <1>10, <1>11, <1>12 DEF b, shown, size, start

LEMMA StepTyped == Typed /\ [Next]_vars => Typed'
<1> SUFFICES ASSUME Typed, [Next]_vars PROVE Typed'
  OBVIOUS
<1>1. CASE ClockTicks \/ \E n \in Nodes : LogAction(n) \/ LogRotated(n)
  BY <1>1, LogTyped
<1>2. ASSUME NEW n \in Nodes, \E ask \in Asks(page) : SyncStart(n, ask)
      PROVE  Typed'
  BY <1>2, StartTyped
<1>3. ASSUME NEW n \in Nodes, SyncLoad(n) \/ SyncRead(n) \/ SyncStat(n)
      PROVE  Typed'
  BY <1>3, LoadTyped, ReadTyped, StatTyped
<1>4. ASSUME NEW n \in Nodes, SyncCommit(n) \/ SyncFails(n)
      PROVE  Typed'
  BY <1>4, EndTyped
<1>5. ASSUME NEW n \in Nodes, Count(n) \/ Select(n)
      PROVE  Typed'
  BY <1>5, CountTyped, SelectTyped
<1>6. CASE UNCHANGED vars
  <2>1. UNCHANGED logvars /\ UNCHANGED <<store, sync, page, faults, history>>
    BY <1>6 DEF vars, logvars, store, history
  <2>2. LogTypeOK' /\ LogOrder'
    BY <2>1, LogStays DEF Typed, TypeOK
  <2>3. RowsOK' /\ StoreType' /\ UNCHANGED <<rows, nextRow>>
    BY <2>1, StoreKept DEF store
  <2>4. PendingApart' /\ Asking'
    BY <2>1, <2>3, PendingKept DEF Typed, Pending, Holding, Asking
  <2>5. QED
    BY <2>1, <2>2, <2>3, <2>4 DEF Typed, TypeOK, RowsOK, StoreType
<1>7. QED
  BY <1>1, <1>2, <1>3, <1>4, <1>5, <1>6 DEF Next

LEMMA AlwaysTyped == Spec => []Typed
  BY InitTyped, StepTyped, PTL DEF Spec

(* Every variable holds a value of its type, with any number of nodes: the ids  *)
(* of rows stay below the next one, and the page the admin page shows has as    *)
(* many lines as its bounds say and never begins before the first row.          *)
THEOREM TypeCorrect == Spec => []TypeOK
<1>1. Typed => TypeOK
  BY DEF Typed
<1>2. QED
  BY <1>1, AlwaysTyped, PTL

(* No event is stored twice, whatever was read again, by whichever node.         *)
EventsOnce == Cardinality(Stored) = Cardinality(rows)

LEMMA RowsOnce == Typed => EventsOnce
<1> SUFFICES ASSUME Typed PROVE EventsOnce
  OBVIOUS
<1> DEFINE f == [r \in rows |-> r.event]
<1>1. IsFiniteSet(rows) /\ \A r, q \in rows : r.event = q.event => r = q
  BY DEF Typed, RowsOK, RowsUnique
<1>2. f \in Bijection(rows, Stored)
  <2>1. f \in [rows -> Stored] /\ \A e \in Stored : \E r \in rows : f[r] = e
    BY DEF Stored
  <2>2. IsInjective(f)
    BY <1>1 DEF IsInjective
  <2>3. QED
    BY <2>1, <2>2 DEF Bijection, Injection, Surjection
<1>3. QED
  BY <1>1, <1>2, FS_Bijection DEF ExistsBijection, EventsOnce

THEOREM NoEventTwice == Spec => []EventsOnce
  BY RowsOnce, AlwaysTyped, PTL

(* Only its own steps move a node's sync.                                        *)
LEMMA SyncMoves ==
  ASSUME Typed, [Next]_vars, NEW n \in Nodes, sync'[n] # sync[n]
  PROVE  \/ \E ask \in Asks(page) : SyncStart(n, ask)
         \/ SyncLoad(n) \/ SyncRead(n) \/ SyncStat(n) \/ SyncCommit(n) \/ SyncFails(n)
         \/ Count(n) \/ Select(n)
<1>1. ASSUME NEW m \in Nodes \ {n}, NEW s, Goto(m, s)
      PROVE  FALSE
  BY <1>1, Going DEF Typed
<1>2. ~ClockTicks /\ ~UNCHANGED vars /\ ~\E m \in Nodes : LogAction(m) \/ LogRotated(m)
  BY DEF ClockTicks, vars, LogAction, LogRotated
<1>3. ASSUME NEW m \in Nodes,
             \/ \E ask \in Asks(page) : SyncStart(m, ask)
             \/ SyncLoad(m) \/ SyncRead(m) \/ SyncStat(m) \/ SyncCommit(m) \/ SyncFails(m)
             \/ Count(m) \/ Select(m)
      PROVE  m = n
  BY <1>1, <1>3 DEF SyncStart, Done, SyncLoad, SyncRead, SyncStat, SyncCommit, SyncFails, Count, Select
<1>4. QED
  BY <1>2, <1>3 DEF Next

-------------------------------------------------------------------------------
(* One row in the life of the store, with any number of nodes.  A row that is no  *)
(* longer there has expired, and stays so; a row that a commit adds has neither    *)
(* expired nor an event that is stored already.                                  *)

LEMMA ExpiredStays ==
  ASSUME NEW e \in Event, NEW now \in Int, NEW later \in Int, now <= later, Expired(e, now)
  PROVE  Expired(e, later)
  BY EventFields, RetentionAssumption DEF Expired

LifeInv ==
    /\ rows \subseteq everStored
    /\ \A r \in everStored : r \in rows \/ Expired(r.event, clock)
    /\ OneRowEver

(* The rows of a commit, whatever was read again for it.                         *)
LEMMA CommitLives ==
  ASSUME Typed, Typed', LifeInv, NEW n \in Nodes, sync[n].pc = "commit", CommitEffect(n),
         clock' = clock, rows' = {r \in rows \cup Pending(n) : ~Expired(r.event, clock)}
  PROVE  LifeInv'
<1>1. everStored' = everStored \cup rows'
  BY DEF CommitEffect
<1>2. \A r \in everStored : r \in rows' \/ Expired(r.event, clock)
  BY DEF LifeInv
<1>3. ASSUME NEW r \in everStored, NEW q \in rows', r.event = q.event
      PROVE  r = q
  <2>1. ~Expired(q.event, clock)
    OBVIOUS
  <2>2. r \in rows
    BY <1>3, <2>1 DEF LifeInv
  <2>3. q \notin Pending(n)
    BY <1>3, <2>2 DEF Typed, PendingApart
  <2>4. QED
    BY <1>3, <2>2, <2>3 DEF Typed, RowsOK, RowsUnique
<1>4. \A r, q \in rows' : r.event = q.event => r = q
  BY DEF Typed, RowsOK, RowsUnique
<1>5. OneRowEver'
  <2>1. ASSUME NEW r \in everStored', NEW q \in everStored', r.event = q.event
        PROVE  r = q
    <3>1. CASE r \in everStored /\ q \in everStored
      BY <2>1, <3>1 DEF LifeInv, OneRowEver
    <3>2. CASE r \in rows' \/ q \in rows'
      BY <1>1, <1>3, <1>4, <2>1, <3>2
    <3>3. QED
      BY <1>1, <3>1, <3>2
  <2>2. QED
    BY <2>1 DEF OneRowEver
<1>6. QED
  BY <1>1, <1>2, <1>5 DEF LifeInv

(* All other steps leave the rows alone, and time does not go back.              *)
LEMMA StepLives ==
  ASSUME Typed, Typed', LifeInv, [Next]_vars
  PROVE  LifeInv'
<1>1. CASE UNCHANGED <<rows, everStored>> /\ clock <= clock'
  <2>1. ASSUME NEW r \in everStored, Expired(r.event, clock)
        PROVE  Expired(r.event, clock')
    <3>1. r.event \in Event /\ clock \in Int /\ clock' \in Int
      BY DEF Typed, TypeOK, LogTypeOK, Times, Row
    <3>2. QED
      BY <1>1, <2>1, <3>1, ExpiredStays
  <2>2. QED
    BY <1>1, <2>1 DEF LifeInv, OneRowEver
<1>2. clock \in Int
  BY DEF Typed, TypeOK, LogTypeOK, Times
<1>3. CASE ClockTicks \/ UNCHANGED vars
  <2>1. UNCHANGED <<rows, everStored>> /\ clock <= clock'
    BY <1>2, <1>3 DEF ClockTicks, Tick, store, history, vars
  <2>2. QED
    BY <1>1, <2>1
<1>4. ASSUME NEW n \in Nodes, LogAction(n) \/ LogRotated(n)
      PROVE  LifeInv'
  <2>1. UNCHANGED <<rows, everStored, clock>>
    BY <1>4 DEF LogAction, LogRotated, Emit, EmitHead, EmitTail, Rotate, store, history
  <2>2. QED
    BY <1>1, <1>2, <2>1
<1>5. ASSUME NEW n \in Nodes, SyncCommit(n) \/ SyncFails(n)
      PROVE  LifeInv'
  <2>1. UNCHANGED logvars
        /\ \/ /\ CommitEffect(n) /\ sync[n].pc = "commit"
              /\ rows' = {r \in rows \cup Pending(n) : ~Expired(r.event, clock)}
           \/ UNCHANGED <<rows, ingest, page, history>>
    BY <1>5, EndTyped
  <2>2. clock' = clock
    BY <2>1 DEF logvars
  <2>3. CASE UNCHANGED <<rows, ingest, page, history>>
    BY <1>1, <1>2, <2>2, <2>3 DEF history
  <2>4. QED
    BY <2>1, <2>2, <2>3, CommitLives
<1>6. ASSUME NEW n \in Nodes,
             \/ \E ask \in Asks(page) : SyncStart(n, ask)
             \/ SyncLoad(n) \/ SyncRead(n) \/ SyncStat(n) \/ Count(n) \/ Select(n)
      PROVE  LifeInv'
  <2>1. UNCHANGED <<rows, everStored, clock>>
    BY <1>6 DEF SyncStart, SyncLoad, SyncRead, SyncStat, Count, Select, logvars, store, history
  <2>2. QED
    BY <1>1, <1>2, <2>1
<1>7. QED
  BY <1>3, <1>4, <1>5, <1>6 DEF Next

(* No event ever gets a second row: not while its row is there, and not after it  *)
(* was pruned, however often the log that holds its line is read again.          *)
THEOREM OneRowHolds == Spec => []OneRowEver
<1>1. Init => LifeInv
  BY DEF Init, LifeInv, OneRowEver
<1>2. Typed /\ Typed' /\ LifeInv /\ [Next]_vars => LifeInv'
  BY StepLives
<1>3. LifeInv => OneRowEver
  BY DEF LifeInv
<1>4. QED
  BY <1>1, <1>2, <1>3, AlwaysTyped, PTL DEF Spec

-------------------------------------------------------------------------------
(* Nothing is skipped, when one node uses the store.  The offset then tells how  *)
(* far this node's log was read: up to it each line is stored, has expired or    *)
(* was torn, and what a sync has read continues from there or from the start.    *)

OneNode == \A m, n \in Nodes : m = n

Accounted(n) ==
    whole[n] =>
      /\ ingest.offset <= Len(Frags(n))
      /\ \A e \in Event : Yields(Frags(n), 0, ingest.offset, e) =>
           e \in Stored \/ e \in torn \/ Expired(e, clock)
      /\ ingest.offset > 0 /\ Frags(n)[ingest.offset].half = "head" =>
           Frags(n)[ingest.offset].event \in torn

Resumes(n) == sync[n].pc \in {"read", "stat", "commit"} => sync[n].offset \in {0, ingest.offset}

(* The file read is still there, and the reading covers the log up to its end.   *)
FromStart(n) == sync[n].file = rotations /\ (sync[n].offset = 0 \/ whole[n])
Covered(n) ==
    LET s == sync[n]
        F == Frags(n)
    IN  /\ s.offset <= s.end /\ s.end <= Len(F)
        /\ \A e \in Event : Yields(F, s.offset, s.end, e) => e \in Stored \/ e \in EventsOf(s.adds)
        /\ s.end > s.offset /\ F[s.end].half = "head" => F[s.end].event \in s.cut
HasRead(n) ==
    Holding(n) => /\ sync[n].file <= rotations
                  /\ whole[n] => sync[n].file = rotations
                  /\ FromStart(n) => Covered(n)

SkipInv == \A n \in Nodes : Accounted(n) /\ Resumes(n) /\ HasRead(n)

LEMMA FragsTypeNext ==
  ASSUME LogTypeOK', NEW n \in Nodes
  PROVE  Len(Frags(n)') \in Nat
<1>1. Frags(n)' \in Seq(Fragment)
  BY EmptySeq DEF LogTypeOK, Frags, LogFile
<1>2. QED
  BY <1>1, LenProperties

LEMMA GrownReading ==
  ASSUME Typed, Typed', NEW n \in Nodes, Grows(n), NEW from \in Nat, NEW to \in Nat,
         to <= Len(Frags(n))
  PROVE  /\ \A e : Yields(Frags(n)', from, to, e) <=> Yields(Frags(n), from, to, e)
         /\ to > 0 => Frags(n)'[to] = Frags(n)[to]
         /\ to <= Len(Frags(n)')
<1>1. Len(Frags(n)) \in Nat /\ Len(Frags(n)) <= Len(Frags(n)') /\ Len(Frags(n)') \in Nat
      /\ \A i \in 1 .. to : Frags(n)'[i] = Frags(n)[i]
  BY FragsType, FragsTypeNext DEF Grows, Typed, TypeOK
<1>2. \A e : Yields(Frags(n)', from, to, e) <=> Yields(Frags(n), from, to, e)
  BY <1>1, YieldsGrown
<1>3. QED
  BY <1>1, <1>2

LEMMA AccountedKept ==
  ASSUME Typed, Typed', NEW n \in Nodes, Accounted(n), Grows(n), clock <= clock',
         whole'[n] => whole[n], UNCHANGED <<ingest, rows, torn>>
  PROVE  Accounted(n)'
<1> SUFFICES ASSUME whole'[n]
             PROVE  /\ ingest.offset <= Len(Frags(n)')
                    /\ \A e \in Event : Yields(Frags(n)', 0, ingest.offset, e) =>
                         e \in Stored \/ e \in torn \/ Expired(e, clock')
                    /\ ingest.offset > 0 /\ Frags(n)'[ingest.offset].half = "head" =>
                         Frags(n)'[ingest.offset].event \in torn
  BY DEF Accounted, Stored, Expired
<1>1. /\ ingest.offset \in Nat /\ ingest.offset <= Len(Frags(n))
      /\ clock \in Int /\ clock' \in Int
  BY DEF Accounted, Typed, TypeOK, LogTypeOK, Times
<1>2. /\ \A e : Yields(Frags(n)', 0, ingest.offset, e) <=> Yields(Frags(n), 0, ingest.offset, e)
      /\ ingest.offset > 0 => Frags(n)'[ingest.offset] = Frags(n)[ingest.offset]
      /\ ingest.offset <= Len(Frags(n)')
  BY <1>1, GrownReading
<1>3. \A e \in Event : Expired(e, clock) => Expired(e, clock')
  BY <1>1, ExpiredStays
<1>4. QED
  BY <1>2, <1>3 DEF Accounted

LEMMA HasReadKept ==
  ASSUME Typed, Typed', NEW n \in Nodes, HasRead(n), Grows(n), rotations' = rotations,
         whole'[n] => whole[n], rows' = rows,
         Holding(n)' =>
           /\ Holding(n) /\ sync'[n].offset = sync[n].offset /\ sync'[n].end = sync[n].end
           /\ sync'[n].adds = sync[n].adds /\ sync'[n].cut = sync[n].cut
           /\ sync'[n].file = sync[n].file
  PROVE  HasRead(n)'
<1> SUFFICES ASSUME Holding(n)' PROVE HasRead(n)'
  BY DEF HasRead
<1> DEFINE s == sync[n]
<1>1. sync[n] \in SyncState /\ Holding(n) /\ s.offset \in Nat /\ s.end \in Nat
  BY SyncFields DEF Typed, TypeOK, Holding
<1>2. ASSUME Covered(n)
      PROVE  Covered(n)'
  <2>1. /\ \A e : Yields(Frags(n)', s.offset, s.end, e) <=> Yields(Frags(n), s.offset, s.end, e)
        /\ s.end > 0 => Frags(n)'[s.end] = Frags(n)[s.end]
        /\ s.end <= Len(Frags(n)')
    BY <1>1, <1>2, GrownReading DEF Covered
  <2>2. s.end > s.offset => s.end > 0
    BY <1>1
  <2>3. QED
    BY <1>1, <1>2, <2>1, <2>2 DEF Covered, Stored
<1>3. FromStart(n)' => FromStart(n)
  BY <1>1 DEF FromStart
<1>4. QED
  BY <1>1, <1>2, <1>3 DEF HasRead

(* What a reading has covered, once it is done.                                  *)
LEMMA ReadCovers ==
  ASSUME Typed, Typed', NEW n \in Nodes, Accounted(n), Resumes(n), SyncRead(n)
  PROVE  HasRead(n)'
<1> DEFINE s == sync'[n]
           F == Frags(n)
<1>1. /\ s.offset = sync[n].offset /\ s.end = (IF Len(F) > s.offset THEN Len(F) ELSE s.offset)
      /\ s.adds = Prepared(n) /\ s.file = rotations
      /\ Len(F) > s.offset /\ F[Len(F)].half = "head" => F[Len(F)].event \in s.cut
  BY Reads
<1>2. /\ UNCHANGED <<log, rotations, whole, rows>> /\ s.offset \in {0, ingest.offset}
      /\ rotations \in Nat /\ Frags(n)' = F /\ Stored' = Stored
  BY <1>1 DEF SyncRead, logvars, history, Resumes, Typed, TypeOK, LogTypeOK, Frags, Stored
<1>3. \A e \in Event : Yields(F, s.offset, Len(F), e) => e \in Stored \/ e \in EventsOf(s.adds)
  BY <1>1, Preparing DEF SyncRead
<1>4. Len(F) \in Nat /\ s.offset \in Nat
  BY <1>2, FragsType DEF Typed, TypeOK
<1>5. ASSUME FromStart(n)'
      PROVE  Covered(n)'
  <2>1. s.offset <= Len(F)
    BY <1>2, <1>4, <1>5 DEF FromStart, Accounted
  <2>2. s.end = Len(F)
    BY <1>1, <1>4, <2>1
  <2>3. QED
    BY <1>1, <1>2, <1>3, <1>4, <2>1, <2>2 DEF Covered
<1>6. QED
  BY <1>1, <1>2, <1>5 DEF HasRead

(* What a commit accounts for.                                                   *)
LEMMA CommitAccounts ==
  ASSUME Typed, Typed', NEW n \in Nodes, Accounted(n), Resumes(n), HasRead(n),
         sync[n].pc = "commit", CommitEffect(n), UNCHANGED logvars,
         rows' = {r \in rows \cup Pending(n) : ~Expired(r.event, clock)}
  PROVE  Accounted(n)'
<1> DEFINE s == sync[n]
           F == Frags(n)
<1>1. /\ s \in SyncState /\ Holding(n) /\ s.offset \in Nat /\ s.end \in Nat /\ Pending(n) = s.adds
      /\ s.offset \in {0, ingest.offset}
  BY SyncFields DEF Typed, TypeOK, Holding, Pending, Resumes
<1>2. /\ ingest'.offset = s.end /\ torn' = torn \cup s.cut
      /\ whole'[n] = (whole[n] \/ (s.offset = 0 /\ s.file = rotations))
  BY DEF CommitEffect, Typed, TypeOK
<1>3. Frags(n)' = F /\ clock' = clock
  BY DEF logvars, Frags
<1> SUFFICES ASSUME whole'[n]
             PROVE  /\ s.end <= Len(F)
                    /\ \A e \in Event : Yields(F, 0, s.end, e) =>
                         e \in Stored' \/ e \in torn' \/ Expired(e, clock)
                    /\ s.end > 0 /\ F[s.end].half = "head" => F[s.end].event \in torn'
  BY <1>2, <1>3 DEF Accounted, Expired
<1>4. FromStart(n) /\ Covered(n)
  BY <1>1, <1>2 DEF HasRead, FromStart
<1>5. \A e \in Event : e \in Stored \/ e \in EventsOf(s.adds) => e \in Stored' \/ Expired(e, clock)
  BY <1>1 DEF Stored, EventsOf
<1>6. s.offset # 0 => whole[n] /\ s.offset = ingest.offset
  BY <1>1, <1>4 DEF FromStart
<1>7. ASSUME NEW e \in Event, Yields(F, 0, s.end, e)
      PROVE  e \in Stored' \/ e \in torn' \/ Expired(e, clock)
  <2>1. CASE s.offset = 0
    BY <1>4, <1>5, <1>7, <2>1 DEF Covered
  <2>2. CASE s.offset # 0
    <3>1. CASE Yields(F, 0, s.offset, e)
      BY <1>2, <1>5, <1>6, <2>2, <3>1 DEF Accounted
    <3>2. CASE Yields(F, s.offset, s.end, e)
      BY <1>4, <1>5, <3>2 DEF Covered
    <3>3. CASE F[s.offset].half = "head" /\ F[s.offset].event = e
      BY <1>1, <1>2, <1>6, <2>2, <3>3 DEF Accounted
    <3>4. QED
      BY <1>1, <1>7, <3>1, <3>2, <3>3, YieldsInParts
  <2>3. QED
    BY <2>1, <2>2
<1>8. ASSUME s.end > 0, F[s.end].half = "head"
      PROVE  F[s.end].event \in torn'
  <2>1. CASE s.end > s.offset
    BY <1>2, <1>4, <1>8, <2>1 DEF Covered
  <2>2. CASE s.end = s.offset
    BY <1>1, <1>2, <1>6, <1>8, <2>2 DEF Accounted
  <2>3. QED
    BY <1>1, <1>4, <2>1, <2>2 DEF Covered
<1>9. QED
  BY <1>4, <1>7, <1>8 DEF Covered

LEMMA LogSame ==
  ASSUME Typed, UNCHANGED logvars
  PROVE  /\ clock <= clock' /\ clock' = clock /\ rotations' = rotations
         /\ \A n \in Nodes : Grows(n) /\ Frags(n)' = Frags(n)
<1>1. clock \in Int /\ \A n \in Nodes : Len(Frags(n)) \in Nat
  BY FragsType DEF Typed, TypeOK, LogTypeOK, Times
<1>2. \A n \in Nodes : Frags(n)' = Frags(n)
  BY DEF logvars, Frags
<1>3. QED
  BY <1>1, <1>2 DEF logvars, Grows

(* The steps, as the account of one node sees them: most neither read the log nor *)
(* change the store.                                                              *)
KeepsReading(n) ==
    Holding(n)' =>
      /\ Holding(n) /\ sync'[n].offset = sync[n].offset /\ sync'[n].end = sync[n].end
      /\ sync'[n].adds = sync[n].adds /\ sync'[n].cut = sync[n].cut
      /\ sync'[n].file = sync[n].file

QuietStep(n) ==
    /\ Grows(n) /\ clock <= clock' /\ rotations' = rotations
    /\ UNCHANGED <<ingest, rows, whole, torn>>
    /\ KeepsReading(n)
    /\ sync'[n].pc = "read" => sync'[n] = sync[n] \/ sync'[n].offset \in {0, ingest.offset}

Commits(n) ==
    /\ sync[n].pc = "commit" /\ CommitEffect(n) /\ UNCHANGED logvars
    /\ rows' = {r \in rows \cup Pending(n) : ~Expired(r.event, clock)}
    /\ sync'[n].pc \in {"idle", "count"} /\ Pending(n)' = {}

LEMMA StepKinds ==
  ASSUME OneNode, Typed, Typed', [Next]_vars, NEW n \in Nodes
  PROVE  QuietStep(n) \/ LogRotated(n) \/ SyncRead(n) \/ Commits(n)
<1>1. \A m \in Nodes : m = n
  BY DEF OneNode
<1>2. CASE ClockTicks \/ LogAction(n)
  <2>1. clock <= clock' /\ rotations' = rotations /\ Grows(n)
    <3>1. CASE ClockTicks
      <4>1. log' = log /\ rotations' = rotations /\ clock <= clock'
        BY <3>1, Ticks DEF ClockTicks, Typed, TypeOK
      <4>2. Frags(n)' = Frags(n) /\ Len(Frags(n)) \in Nat
        BY <4>1, FragsType DEF Frags, Typed, TypeOK
      <4>3. QED
        BY <4>1, <4>2 DEF Grows
    <3>2. CASE LogAction(n)
      BY <3>2, Appends DEF LogAction, Typed, TypeOK, LogTypeOK, Times
    <3>3. QED
      BY <1>2, <3>1, <3>2
  <2>2. UNCHANGED <<ingest, rows, whole, torn, sync>>
    BY <1>2 DEF ClockTicks, LogAction, store, history
  <2>3. QED
    BY <2>1, <2>2 DEF QuietStep, KeepsReading, Holding
<1>3. CASE SyncCommit(n) \/ SyncFails(n)
  <2>1. UNCHANGED logvars /\ sync'[n].pc \in {"idle", "count"} /\ Pending(n)' = {}
    BY <1>3, EndTyped
  <2>2. \/ /\ CommitEffect(n) /\ sync[n].pc = "commit"
           /\ rows' = {r \in rows \cup Pending(n) : ~Expired(r.event, clock)}
        \/ UNCHANGED <<rows, ingest, page, history>>
    BY <1>3, EndTyped
  <2>3. CASE UNCHANGED <<rows, ingest, page, history>>
    BY <2>1, <2>3, LogSame DEF history, QuietStep, KeepsReading, Holding
  <2>4. QED
    BY <2>1, <2>2, <2>3 DEF Commits
<1>4. CASE \/ \E ask \in Asks(page) : SyncStart(n, ask)
           \/ SyncLoad(n) \/ SyncStat(n) \/ Count(n) \/ Select(n)
  <2>1. UNCHANGED logvars /\ UNCHANGED <<ingest, rows, whole, torn>>
    BY <1>4 DEF SyncStart, SyncLoad, SyncStat, Count, Select, store, history
  <2>2. ASSUME NEW ask \in Asks(page), SyncStart(n, ask)
        PROVE  sync'[n].pc \notin {"read", "stat", "commit"}
    BY <2>2, Going DEF SyncStart, Done, Typed
  <2>3. KeepsReading(n)
    <3>1. CASE SyncLoad(n) \/ Count(n) \/ Select(n)
      BY <3>1, LoadTyped, CountTyped, SelectTyped DEF Holding, KeepsReading
    <3>2. CASE SyncStat(n)
      BY <3>2, StatTyped DEF Holding, SyncStat, KeepsReading
    <3>3. QED
      BY <1>4, <2>2, <3>1, <3>2 DEF Holding, KeepsReading
  <2>4. sync'[n].pc = "read" => sync'[n].offset \in {0, ingest.offset}
    BY <1>4, <2>2, LoadTyped, StatTyped, CountTyped, SelectTyped
  <2>5. QED
    BY <2>1, <2>3, <2>4, LogSame DEF QuietStep
<1>5. CASE UNCHANGED vars
  <2>1. UNCHANGED logvars /\ UNCHANGED <<ingest, rows, whole, torn, sync>>
    BY <1>5 DEF vars, logvars
  <2>2. QED
    BY <2>1, LogSame DEF QuietStep, KeepsReading, Holding
<1>6. QED
  BY <1>1, <1>2, <1>3, <1>4, <1>5 DEF Next

LEMMA StepSkips ==
  ASSUME OneNode, Typed, Typed', SkipInv, [Next]_vars
  PROVE  SkipInv'
<1> SUFFICES ASSUME NEW n \in Nodes
             PROVE  Accounted(n)' /\ Resumes(n)' /\ HasRead(n)'
  BY DEF SkipInv
<1>1. Accounted(n) /\ Resumes(n) /\ HasRead(n)
  BY DEF SkipInv
<1>2. CASE QuietStep(n)
  BY <1>1, <1>2, AccountedKept, HasReadKept DEF QuietStep, KeepsReading, Resumes, Holding
<1>3. CASE LogRotated(n)
  <2>1. ~whole'[n] /\ rotations' = rotations + 1 /\ UNCHANGED <<ingest, sync>>
    BY <1>3, Rotates DEF LogRotated, store, Typed, TypeOK
  <2>2. rotations \in Nat
    BY DEF Typed, TypeOK, LogTypeOK
  <2>3. Holding(n) => sync[n].file \in Nat /\ sync[n].file <= rotations
    BY <1>1, SyncFields DEF HasRead, Holding, Typed, TypeOK
  <2>4. QED
    BY <1>1, <2>1, <2>2, <2>3 DEF Accounted, Resumes, HasRead, FromStart, Holding
<1>4. CASE SyncRead(n)
  <2>1. HasRead(n)'
    BY <1>1, <1>4, ReadCovers
  <2>2. /\ UNCHANGED logvars /\ UNCHANGED <<ingest, rows, whole, torn>>
        /\ sync[n].pc = "read" /\ sync'[n].offset = sync[n].offset
    BY <1>4, Reads DEF SyncRead, history
  <2>3. Accounted(n)'
    BY <1>1, <2>2, AccountedKept, LogSame
  <2>4. QED
    BY <1>1, <2>1, <2>2, <2>3 DEF Resumes
<1>5. CASE Commits(n)
  BY <1>1, <1>5, CommitAccounts DEF Commits, Resumes, HasRead, Holding
<1>6. QED
  BY <1>2, <1>3, <1>4, <1>5, StepKinds

LEMMA InitSkips == Init => SkipInv
<1> SUFFICES ASSUME Init, NEW n \in Nodes
             PROVE  Accounted(n) /\ Resumes(n) /\ HasRead(n)
  BY DEF SkipInv
<1>1. Frags(n) = <<>> /\ ingest.offset = 0 /\ sync[n].pc = "idle"
  BY LogInitially DEF Init
<1>2. Len(Frags(n)) = 0 /\ \A e : ~Yields(Frags(n), 0, 0, e)
  BY <1>1, EmptySeq DEF Yields
<1>3. QED
  BY <1>1, <1>2 DEF Accounted, Resumes, HasRead, Holding

LEMMA AlwaysSkipInv ==
  ASSUME OneNode
  PROVE  Spec => []SkipInv
<1>1. Typed /\ Typed' /\ SkipInv /\ [Next]_vars => SkipInv'
  BY StepSkips
<1>2. QED
  BY <1>1, InitSkips, AlwaysTyped, PTL DEF Spec

(* With a store of its own, a node passes over no line of its log: each one before *)
(* the offset is stored, has expired, or was read while it was still being written.*)
THEOREM NoneSkipped ==
  ASSUME OneNode
  PROVE  Spec => []NothingSkipped
<1>1. Typed /\ SkipInv => NothingSkipped
  <2> SUFFICES ASSUME Typed, SkipInv, NEW n \in Nodes, whole[n], log[n] # NoFile,
                      NEW e \in ParsedEvents(SubSeq(log[n].frags, 1, ingest.offset), 0)
               PROVE  e \in Stored \/ e \in torn \/ Expired(e, clock)
    BY DEF NothingSkipped
  <2>1. /\ Frags(n) = log[n].frags /\ Frags(n) \in Seq(Fragment) /\ Len(Frags(n)) \in Nat
        /\ ingest.offset \in Nat /\ ingest.offset <= Len(Frags(n))
    BY FragsType DEF Frags, Typed, TypeOK, SkipInv, Accounted
  <2>2. Yields(Frags(n), 0, ingest.offset, e)
    BY <2>1, PrefixReading
  <2>3. e \in Event
    <3>1. PICK j \in 1 .. ingest.offset - 1 : Frags(n)[j].event = e
      BY <2>2 DEF Yields
    <3>2. j \in 1 .. Len(Frags(n))
      BY <2>1
    <3>3. QED
      BY <3>1, <3>2, FragsType DEF Typed, TypeOK
  <2>4. QED
    BY <2>2, <2>3 DEF SkipInv, Accounted
<1>2. QED
  BY <1>1, AlwaysTyped, AlwaysSkipInv, PTL

-------------------------------------------------------------------------------
(* The rows stand in the order of the log.  Their ids are given in the order of   *)
(* the lines; what a sync holds was logged after everything stored, because it    *)
(* was read behind the offset, unless it was torn before.                         *)

HeadBefore(n, e, to) ==
    \E i \in 1 .. to - 1 : Frags(n)[i].half = "head" /\ Frags(n)[i].event = e

IdsInv ==
    \A n \in Nodes :
      /\ \A a, b \in Pending(n) : a.id < b.id <=> a.event.id < b.event.id
      /\ \A a \in Pending(n), r \in rows : r.id < a.id

(* As long as no log was rotated.                                                 *)
LaterThanStored(n) ==
    \A a \in Pending(n), r \in rows :
      a.event \notin torn /\ ~Expired(a.event, clock) => r.event.id < a.event.id
HeadsRead(n) ==
    /\ whole[n]
    /\ \A r \in rows : HeadBefore(n, r.event, ingest.offset)
    /\ Holding(n) => /\ ingest.offset <= sync[n].end
                     /\ \A a \in Pending(n) : HeadBefore(n, a.event, sync[n].end)
    /\ LaterThanStored(n)
RowsInOrder ==
    \A r, q \in rows : {r.event, q.event} \cap torn = {} => (r.id < q.id <=> r.event.id < q.event.id)

OrderInv ==
    /\ IdsInv
    /\ rotations = 0 => RowsInOrder /\ \A n \in Nodes : HeadsRead(n)

LEMMA HeadStays ==
  ASSUME Typed, NEW n \in Nodes, Grows(n), NEW e, NEW to \in Nat, to <= Len(Frags(n)),
         HeadBefore(n, e, to)
  PROVE  HeadBefore(n, e, to)'
<1>1. PICK i \in 1 .. to - 1 : Frags(n)[i].half = "head" /\ Frags(n)[i].event = e
  BY DEF HeadBefore
<1>2. i \in 1 .. Len(Frags(n))
  BY FragsType DEF Typed, TypeOK
<1>3. QED
  BY <1>1, <1>2 DEF Grows, HeadBefore

LEMMA PendingQuiet ==
  ASSUME NEW n \in Nodes, KeepsReading(n)
  PROVE  Pending(n)' = Pending(n) \/ Pending(n)' = {}
  BY DEF KeepsReading, Pending, Holding

LEMMA OrderKept ==
  ASSUME Typed, Typed', SkipInv, NEW n \in Nodes, QuietStep(n), rotations = 0, HeadsRead(n)
  PROVE  HeadsRead(n)'
<1>1. /\ Grows(n) /\ whole'[n] /\ UNCHANGED <<rows, ingest, torn>> /\ clock <= clock'
      /\ clock \in Int /\ clock' \in Int
  BY DEF QuietStep, HeadsRead, Typed, TypeOK, LogTypeOK, Times
<1>2. Pending(n)' = Pending(n) \/ Pending(n)' = {}
  BY PendingQuiet DEF QuietStep
<1>3. \A r \in rows : HeadBefore(n, r.event, ingest.offset)'
  <2>1. ingest.offset \in Nat /\ ingest.offset <= Len(Frags(n))
    BY DEF HeadsRead, SkipInv, Accounted, Typed, TypeOK
  <2>2. QED
    BY <1>1, <2>1, HeadStays DEF HeadsRead
<1>4. ASSUME Holding(n)'
      PROVE  ingest.offset <= sync'[n].end
             /\ \A a \in Pending(n)' : HeadBefore(n, a.event, sync[n].end)'
  <2>1. Holding(n) /\ sync'[n].end = sync[n].end /\ sync[n].end \in Nat
    BY <1>4, SyncFields DEF QuietStep, KeepsReading, Holding, Typed, TypeOK
  <2>2. Covered(n)
    BY <2>1 DEF HeadsRead, SkipInv, HasRead, FromStart
  <2>3. sync[n].end <= Len(Frags(n))
    BY <2>2 DEF Covered
  <2>4. \A a \in Pending(n) : HeadBefore(n, a.event, sync[n].end)
    BY <2>1 DEF HeadsRead
  <2>5. PICK end \in Nat : end = sync[n].end /\ end = sync'[n].end
    BY <2>1
  <2>6. \A a \in Pending(n) : HeadBefore(n, a.event, end)'
    BY <1>1, <2>3, <2>4, <2>5, HeadStays
  <2>7. QED
    BY <1>2, <2>1, <2>5, <2>6 DEF HeadsRead
<1>5. LaterThanStored(n)'
  <2>1. ASSUME NEW a \in Pending(n), a.event \notin torn, ~Expired(a.event, clock')
        PROVE  ~Expired(a.event, clock)
    <3>1. a.event \in Event
      BY DEF Typed, PendingApart, Row
    <3>2. QED
      BY <1>1, <2>1, <3>1, ExpiredStays
  <2>2. QED
    BY <1>1, <1>2, <2>1 DEF HeadsRead, LaterThanStored, Expired
<1>6. QED
  BY <1>1, <1>3, <1>4, <1>5 DEF HeadsRead

LEMMA OrderRead ==
  ASSUME Typed, Typed', SkipInv, NEW n \in Nodes, SyncRead(n), rotations = 0, HeadsRead(n)
  PROVE  HeadsRead(n)'
<1> DEFINE F == Frags(n)
           s == sync'[n]
           o == ingest.offset
<1>1. /\ s.offset = sync[n].offset /\ s.pc = "stat"
      /\ s.end = (IF Len(F) > s.offset THEN Len(F) ELSE s.offset)
      /\ UNCHANGED <<rows, ingest, whole, torn>> /\ UNCHANGED logvars
      /\ sync[n].pc = "read" /\ Pending(n)' = Prepared(n)
  BY Reads, ReadTyped DEF SyncRead, history
<1>2. /\ o \in Nat /\ o <= Len(F) /\ Len(F) \in Nat /\ s.offset \in {0, o}
      /\ Frags(n)' = F /\ clock' = clock
  BY <1>1, FragsType, LogSame DEF Typed, TypeOK, SkipInv, Accounted, Resumes, HeadsRead
<1>3. o <= s.end
  BY <1>1, <1>2
<1>4. ASSUME NEW a \in Prepared(n)
      PROVE  \E j \in s.offset + 1 .. Len(F) - 1 :
               LineAt(F, s.offset, j) /\ F[j].event = a.event
  BY <1>1, Preparing DEF Yields
<1> PICK end : end = s.end
  OBVIOUS
<1>5. ASSUME NEW a \in Prepared(n)
      PROVE  HeadBefore(n, a.event, end)'
  <2>1. PICK j \in s.offset + 1 .. Len(F) - 1 : LineAt(F, s.offset, j) /\ F[j].event = a.event
    BY <1>4
  <2>2. j \in 1 .. end - 1
    BY <1>1, <1>2
  <2>3. QED
    BY <1>2, <2>1, <2>2 DEF HeadBefore, LineAt
<1>6. ASSUME NEW a \in Prepared(n), NEW r \in rows, a.event \notin torn, ~Expired(a.event, clock)
      PROVE  r.event.id < a.event.id
  <2>1. a.event \in Event /\ a.event \notin Stored
    BY <1>1, Preparing DEF Row
  <2>2. PICK j \in s.offset + 1 .. Len(F) - 1 : LineAt(F, s.offset, j) /\ F[j].event = a.event
    BY <1>4
  <2>3. PICK i \in 1 .. o - 1 : F[i].half = "head" /\ F[i].event = r.event
    BY DEF HeadsRead, HeadBefore
  <2>4. j \in Nat /\ j > 0 /\ j <= Len(F) - 1 /\ F[j].half = "head" /\ i \in Nat
    BY <1>2, <2>2 DEF LineAt
  <2>5. CASE j < o
    <3>1. s.offset = 0
      BY <1>2, <2>2, <2>5
    <3>2. j \in 0 + 1 .. o - 1 /\ LineAt(F, 0, j)
      BY <1>2, <2>2, <2>4, <2>5, <3>1
    <3>3. Yields(F, 0, o, a.event)
      BY <2>2, <3>2 DEF Yields
    <3>4. QED
      BY <1>6, <2>1, <3>3 DEF SkipInv, Accounted, HeadsRead
  <2>6. CASE j = o
    BY <1>2, <1>6, <2>2, <2>4, <2>6 DEF SkipInv, Accounted, HeadsRead
  <2>7. CASE i < j
    <3>1. i \in 1 .. Len(F) /\ j \in 1 .. Len(F)
      BY <1>2, <2>3, <2>4
    <3>2. F[i].event.id < F[j].event.id
      BY <2>4, <2>7, <3>1 DEF Typed, LogOrder
    <3>3. QED
      BY <2>2, <2>3, <3>2
  <2>8. QED
    BY <1>2, <2>3, <2>4, <2>5, <2>6, <2>7
<1>7. LaterThanStored(n)'
  BY <1>1, <1>2, <1>6 DEF LaterThanStored, Expired
<1>8. \A r \in rows : HeadBefore(n, r.event, o)'
  BY <1>1, <1>2 DEF HeadsRead, HeadBefore
<1>9. QED
  BY <1>1, <1>3, <1>5, <1>7, <1>8 DEF HeadsRead, Holding

LEMMA OrderCommit ==
  ASSUME Typed, Typed', SkipInv, NEW n \in Nodes, Commits(n), rotations = 0, HeadsRead(n)
  PROVE  HeadsRead(n)'
<1>1. /\ Holding(n) /\ sync[n].end \in Nat /\ ingest.offset \in Nat
      /\ ingest'.offset = sync[n].end /\ whole'[n] /\ Pending(n)' = {} /\ ~Holding(n)'
      /\ rows' \subseteq rows \cup Pending(n) /\ Frags(n)' = Frags(n)
  BY SyncFields, LogSame DEF Commits, CommitEffect, HeadsRead, Holding, Typed, TypeOK
<1>2. ingest.offset <= sync[n].end /\ \A a \in Pending(n) : HeadBefore(n, a.event, sync[n].end)
  BY <1>1 DEF HeadsRead
<1>3. \A r \in rows : HeadBefore(n, r.event, sync[n].end)
  BY <1>1, <1>2 DEF HeadsRead, HeadBefore
<1>4. PICK end : end = sync[n].end /\ end = ingest'.offset
  BY <1>1
<1>5. \A r \in rows' : HeadBefore(n, r.event, end)'
  BY <1>1, <1>2, <1>3, <1>4 DEF HeadBefore
<1>6. QED
  BY <1>1, <1>4, <1>5 DEF HeadsRead, LaterThanStored

LEMMA RowsInOrderCommit ==
  ASSUME Typed, IdsInv, RowsInOrder, NEW n \in Nodes, Commits(n), LaterThanStored(n)
  PROVE  RowsInOrder'
<1> SUFFICES ASSUME NEW r \in rows', NEW q \in rows', {r.event, q.event} \cap torn' = {}
             PROVE  r.id < q.id <=> r.event.id < q.event.id
  BY DEF RowsInOrder
<1>1. /\ r \in rows \cup Pending(n) /\ q \in rows \cup Pending(n)
      /\ ~Expired(r.event, clock) /\ ~Expired(q.event, clock)
  BY DEF Commits
<1>2. {r.event, q.event} \cap torn = {}
  BY DEF Commits, CommitEffect
<1>3. r.id \in Nat /\ q.id \in Nat /\ r.event.id \in Nat /\ q.event.id \in Nat
  BY <1>1, EventFields DEF Typed, RowsOK, PendingApart, Row
<1>4. QED
  BY <1>1, <1>2, <1>3 DEF RowsInOrder, IdsInv, LaterThanStored

LEMMA StepOrder ==
  ASSUME OneNode, Typed, Typed', SkipInv, OrderInv, [Next]_vars
  PROVE  OrderInv'
<1>1. ASSUME NEW n \in Nodes
      PROVE  /\ \A a, b \in Pending(n)' : a.id < b.id <=> a.event.id < b.event.id
             /\ \A a \in Pending(n)', r \in rows' : r.id < a.id
  <2>1. CASE QuietStep(n)
    BY <2>1, PendingQuiet DEF QuietStep, OrderInv, IdsInv
  <2>2. CASE LogRotated(n)
    BY <2>2 DEF LogRotated, store, OrderInv, IdsInv, Pending, Holding
  <2>3. CASE SyncRead(n)
    <3>1. Pending(n)' = Prepared(n) /\ rows' = rows /\ sync[n].pc = "read"
      BY <2>3, ReadTyped DEF SyncRead
    <3>2. \A a \in Prepared(n) : a.id \in Nat /\ nextRow <= a.id
      BY <3>1, Preparing DEF Row
    <3>3. \A r \in rows : r.id \in Nat /\ r.id < nextRow /\ nextRow \in Nat
      BY DEF Typed, RowsOK, Row
    <3>4. \A a, b \in Prepared(n) : a.id < b.id <=> a.event.id < b.event.id
      BY <3>1, Preparing
    <3>5. QED
      BY <3>1, <3>2, <3>3, <3>4
  <2>4. CASE Commits(n)
    BY <2>4 DEF Commits
  <2>5. QED
    BY <2>1, <2>2, <2>3, <2>4, StepKinds
<1>2. IdsInv'
  BY <1>1 DEF IdsInv
<1>3. ASSUME rotations' = 0, NEW n \in Nodes
      PROVE  RowsInOrder' /\ HeadsRead(n)'
  <2>1. CASE QuietStep(n)
    <3>1. rotations = 0 /\ UNCHANGED <<rows, torn>>
      BY <1>3, <2>1 DEF QuietStep
    <3>2. QED
      BY <2>1, <3>1, OrderKept DEF OrderInv, RowsInOrder
  <2>2. CASE LogRotated(n)
    <3>1. rotations' = rotations + 1 /\ rotations \in Nat
      BY <2>2, Rotates DEF LogRotated, Typed, TypeOK, LogTypeOK
    <3>2. QED
      BY <1>3, <3>1
  <2>3. CASE SyncRead(n)
    <3>1. rotations = 0 /\ UNCHANGED <<rows, torn>>
      BY <1>3, <2>3 DEF SyncRead, logvars, history
    <3>2. QED
      BY <2>3, <3>1, OrderRead DEF OrderInv, RowsInOrder
  <2>4. CASE Commits(n)
    <3>1. rotations = 0
      BY <1>3, <2>4 DEF Commits, logvars
    <3>2. RowsInOrder /\ HeadsRead(n) /\ LaterThanStored(n) /\ IdsInv
      BY <3>1 DEF OrderInv, HeadsRead
    <3>3. QED
      BY <2>4, <3>1, <3>2, OrderCommit, RowsInOrderCommit
  <2>5. QED
    BY <2>1, <2>2, <2>3, <2>4, StepKinds
<1>4. QED
  <2>1. CASE Nodes = {}
    <3>1. rows' = {}
      BY <2>1 DEF Typed, RowsOK, Row, Event
    <3>2. QED
      BY <1>2, <2>1, <3>1 DEF OrderInv, RowsInOrder
  <2>2. CASE Nodes # {}
    BY <1>2, <1>3, <2>2 DEF OrderInv
  <2>3. QED
    BY <2>1, <2>2

LEMMA InitOrder == Init => OrderInv
  BY DEF Init, OrderInv, IdsInv, Pending, Holding, RowsInOrder, HeadsRead, LaterThanStored

LEMMA AlwaysOrderInv ==
  ASSUME OneNode
  PROVE  Spec => []OrderInv
<1>1. Typed /\ Typed' /\ SkipInv /\ OrderInv /\ [Next]_vars => OrderInv'
  BY StepOrder
<1>2. QED
  BY <1>1, InitOrder, AlwaysTyped, AlwaysSkipInv, PTL DEF Spec

(* With a store of its own, a node's rows stand in the order of its log, as long as *)
(* no log is rotated, except for an event that was once read half-written; and no   *)
(* event is stored twice.                                                           *)
THEOREM RowsFollow ==
  ASSUME OneNode
  PROVE  Spec => []RowsFollowLog
<1>1. Typed /\ OrderInv => RowsFollowLog
  BY RowsOnce DEF OrderInv, RowsInOrder, RowsFollowLog, EventsOnce
<1>2. QED
  BY <1>1, AlwaysTyped, AlwaysOrderInv, PTL

-------------------------------------------------------------------------------
(* Pages.  As long as none of the rows it counted was pruned, the page shown is   *)
(* still the same range of the rows: rows that come in later have larger ids.     *)

LEMMA RowsAtGrown ==
  ASSUME NEW S, NEW T, IsFiniteSet(T), S \subseteq T, \A r \in T : r.id \in Nat,
         \A r \in S, t \in T \ S : r.id < t.id,
         NEW b, b.start \in Nat, b.end \in Nat, b.end <= Cardinality(S)
  PROVE  RowsAt(T, b) = RowsAt(S, b) /\ b.end <= Cardinality(T)
<1>1. /\ IsFiniteSet(S) /\ Cardinality(S) \in Nat /\ Cardinality(T) \in Nat
      /\ Cardinality(S) <= Cardinality(T)
  BY FS_Subset, FS_CardinalityType
<1>2. ASSUME NEW r \in S
      PROVE  Rank(T, r) = Rank(S, r)
  <2>1. Below(T, r) = Below(S, r)
    BY DEF Below
  <2>2. QED
    BY <2>1 DEF Rank
<1>3. ASSUME NEW t \in T \ S
      PROVE  Rank(T, t) >= b.end
  <2>1. S \in SUBSET Below(T, t)
    BY DEF Below
  <2>2. IsFiniteSet(Below(T, t)) /\ Rank(T, t) \in Nat
    BY RankType
  <2>3. Cardinality(S) <= Rank(T, t)
    BY <2>1, <2>2, FS_Subset DEF Rank
  <2>4. QED
    BY <1>1, <2>2, <2>3
<1>4. \A r \in T : Rank(T, r) \in Nat
  BY RankType
<1>5. /\ RowsAt(T, b) = {r \in T : Rank(T, r) \in b.start .. b.end - 1}
      /\ RowsAt(S, b) = {r \in S : Rank(S, r) \in b.start .. b.end - 1}
  BY DEF RowsAt, Rank, Below
<1>6. \A t \in T \ S : Rank(T, t) \notin b.start .. b.end - 1
  BY <1>3, <1>4
<1>7. QED
  BY <1>1, <1>2, <1>5, <1>6

(* Two ranges that adjoin: every row of the first stands before every row of the  *)
(* second, and between them stands no other.                                      *)
LEMMA RangesAdjoin ==
  ASSUME NEW S, IsFiniteSet(S), \A r \in S : r.id \in Nat, RowsUnique(S),
         NEW b, NEW c, b.start \in Nat, b.end \in Nat, c.start = b.end, c.end \in Nat,
         NEW r \in RowsAt(S, b), NEW t \in RowsAt(S, c)
  PROVE  /\ r.id < t.id
         /\ \A x \in S : x.id \in r.id .. t.id => x \in RowsAt(S, b) \/ x \in RowsAt(S, c)
<1>1. /\ RowsAt(S, b) = {x \in S : Rank(S, x) \in b.start .. b.end - 1}
      /\ RowsAt(S, c) = {x \in S : Rank(S, x) \in c.start .. c.end - 1}
  BY DEF RowsAt, Rank, Below
<1>2. /\ r \in S /\ t \in S /\ Rank(S, r) \in Nat /\ Rank(S, t) \in Nat
      /\ b.start <= Rank(S, r) /\ Rank(S, r) < b.end /\ b.end <= Rank(S, t) /\ Rank(S, t) < c.end
  BY <1>1, RankType
<1>3. \A x, y \in S : x.id < y.id => Rank(S, x) < Rank(S, y)
  BY RankOrder
<1>4. \A x, y \in S : x.id = y.id => x = y
  BY DEF RowsUnique
<1>5. r.id < t.id
  <2>1. r.id # t.id /\ ~(t.id < r.id)
    BY <1>2, <1>3, <1>4
  <2>2. r.id \in Nat /\ t.id \in Nat
    BY <1>2
  <2>3. QED
    BY <2>1, <2>2
<1>6. ASSUME NEW x \in S, x.id \in r.id .. t.id
      PROVE  x \in RowsAt(S, b) \/ x \in RowsAt(S, c)
  <2>1. r.id \in Nat /\ t.id \in Nat /\ x.id \in Nat /\ r.id <= x.id /\ x.id <= t.id
        /\ Rank(S, x) \in Nat
    BY <1>2, <1>6, RankType
  <2>2. Rank(S, r) <= Rank(S, x)
    BY <1>2, <1>3, <1>4, <2>1
  <2>3. Rank(S, x) <= Rank(S, t)
    BY <1>2, <1>3, <1>4, <2>1
  <2>4. Rank(S, x) \in b.start .. b.end - 1 \/ Rank(S, x) \in c.start .. c.end - 1
    BY <1>2, <2>1, <2>2, <2>3
  <2>5. QED
    BY <1>1, <2>4
<1>7. QED
  BY <1>5, <1>6

PageShows ==
    ~page.moved => /\ page.start <= page.end /\ page.end <= Cardinality(rows)
                   /\ page.shown = RowsAt(rows, page)
SelectsCounted == \A n \in Nodes : sync[n].pc = "select" => sync[n].bounds = Bounds(n)
PageInv == PageShows /\ SelectsCounted

LEMMA CommitShows ==
  ASSUME Typed, Typed', IdsInv, PageShows, NEW n \in Nodes, sync[n].pc = "commit", CommitEffect(n),
         rows' = {r \in rows \cup Pending(n) : ~Expired(r.event, clock)}
  PROVE  PageShows'
<1> SUFFICES ASSUME ~page'.moved PROVE PageShows'
  BY DEF PageShows
<1>1. page \in Page /\ Pending(n) = sync[n].adds
  BY DEF Typed, TypeOK, Pending, Holding
<1>2. page' = page /\ rows \subseteq rows'
  <2>1. page' = IF rows \subseteq rows' THEN page ELSE [page EXCEPT !.moved = TRUE]
    BY DEF CommitEffect
  <2>2. [page EXCEPT !.moved = TRUE].moved
    BY <1>1 DEF Page
  <2>3. QED
    BY <2>1, <2>2
<1>3. /\ IsFiniteSet(rows') /\ \A r \in rows' : r.id \in Nat
      /\ \A r \in rows, t \in rows' \ rows : r.id < t.id
  BY DEF Typed, RowsOK, Row, IdsInv
<1>4. /\ page.start \in Nat /\ page.end \in Nat /\ page.start <= page.end
      /\ page.end <= Cardinality(rows) /\ page.shown = RowsAt(rows, page)
  BY <1>1, <1>2 DEF PageShows, Page
<1>5. RowsAt(rows', page) = RowsAt(rows, page) /\ page.end <= Cardinality(rows')
  BY <1>2, <1>3, <1>4, RowsAtGrown
<1>6. RowsAt(rows, page)' = RowsAt(rows', page')
  BY DEF RowsAt
<1>7. QED
  BY <1>2, <1>4, <1>5, <1>6 DEF PageShows

LEMMA SelectShows ==
  ASSUME Typed, NEW n \in Nodes, Select(n), SelectsCounted
  PROVE  LET b == Bounds(n)
         IN  /\ page'.start = b.start /\ page'.end = b.end /\ page'.shown = RowsAt(rows, b)
             /\ b.start \in Nat /\ b.end \in Nat
             /\ b.start <= b.end /\ b.end <= Cardinality(rows)
<1> DEFINE b == Bounds(n)
<1>1. /\ sync[n].bounds = b /\ b \in [start : Nat, end : Nat]
      /\ b.start <= b.end /\ b.end <= Cardinality(rows)
  BY AskedBounds DEF Select, SelectsCounted
<1> HIDE DEF b
<1>2. Cardinality(RowsAt(rows, b)) = b.end - b.start
  BY <1>1, RowsAtCount DEF Typed, RowsOK, Row
<1>3. /\ page'.start = (IF sync[n].ask.dir = "prev" THEN b.start
                                                  ELSE b.end - Cardinality(RowsAt(rows, b)))
      /\ page'.end = page'.start + Cardinality(RowsAt(rows, b)) /\ page'.shown = RowsAt(rows, b)
  BY <1>1, SelectTyped
<1>4. QED
  BY <1>1, <1>2, <1>3 DEF b

LEMMA PageKept ==
  ASSUME PageShows, UNCHANGED <<rows, page>>
  PROVE  PageShows'
  BY DEF PageShows, RowsAt

LEMMA BoundsKept ==
  ASSUME NEW n \in Nodes, rows' = rows, sync'[n].ask = sync[n].ask
  PROVE  Bounds(n)' = Bounds(n)
  BY DEF Bounds, PageBounds, Cursor, Newest

LEMMA StepPages ==
  ASSUME OneNode, Typed, Typed', OrderInv, PageInv, [Next]_vars
  PROVE  PageInv'
<1>1. ASSUME NEW n \in Nodes
      PROVE  PageShows' /\ (sync'[n].pc = "select" => sync'[n].bounds = Bounds(n)')
  <2>1. \A m \in Nodes : m = n
    BY DEF OneNode
  <2>2. ASSUME UNCHANGED <<rows, page>>, sync'[n].pc = "select" => sync'[n] = sync[n]
        PROVE  PageShows' /\ (sync'[n].pc = "select" => sync'[n].bounds = Bounds(n)')
    BY <2>2, PageKept, BoundsKept DEF PageInv, SelectsCounted
  <2>3. CASE ClockTicks \/ LogAction(n) \/ LogRotated(n) \/ UNCHANGED vars
    BY <2>2, <2>3 DEF ClockTicks, LogAction, LogRotated, vars, store
  <2>4. CASE SyncCommit(n) \/ SyncFails(n)
    <3>1. sync'[n].pc # "select"
      BY <2>4, EndTyped
    <3>2. CASE /\ CommitEffect(n) /\ sync[n].pc = "commit"
               /\ rows' = {r \in rows \cup Pending(n) : ~Expired(r.event, clock)}
      BY <3>1, <3>2, CommitShows DEF PageInv, OrderInv
    <3>3. CASE UNCHANGED <<rows, ingest, page, history>>
      BY <2>2, <3>1, <3>3
    <3>4. QED
      BY <2>4, <3>2, <3>3, EndTyped
  <2>5. CASE \E ask \in Asks(page) : SyncStart(n, ask)
    <3>1. UNCHANGED <<rows, page>> /\ sync'[n].pc # "select"
      BY <2>5, Going DEF SyncStart, Done, Typed, store
    <3>2. QED
      BY <2>2, <3>1
  <2>6. CASE SyncLoad(n) \/ SyncRead(n) \/ SyncStat(n)
    <3>1. UNCHANGED <<rows, page>>
      BY <2>6 DEF SyncLoad, SyncRead, SyncStat, store
    <3>2. sync'[n].pc # "select"
      BY <2>6, LoadTyped, Reads, StatTyped
    <3>3. QED
      BY <2>2, <3>1, <3>2
  <2>7. CASE Count(n)
    <3>1. UNCHANGED <<rows, page>> /\ sync'[n].ask = sync[n].ask /\ sync'[n].bounds = Bounds(n)
      BY <2>7, CountTyped DEF Count, store
    <3>2. QED
      BY <3>1, PageKept, BoundsKept DEF PageInv
  <2>8. CASE Select(n)
    <3> DEFINE b == Bounds(n)
    <3>1. /\ page'.start = b.start /\ page'.end = b.end /\ page'.shown = RowsAt(rows, b)
          /\ b.start <= b.end /\ b.end <= Cardinality(rows)
          /\ rows' = rows /\ sync'[n].pc = "idle"
      BY <2>8, SelectShows, SelectTyped DEF PageInv, Select, store
    <3> HIDE DEF b
    <3>2. RowsAt(rows, page)' = RowsAt(rows, b)
      BY <3>1 DEF RowsAt
    <3>3. QED
      BY <3>1, <3>2 DEF PageShows
  <2>9. QED
    BY <2>1, <2>3, <2>4, <2>5, <2>6, <2>7, <2>8 DEF Next
<1>2. CASE Nodes = {}
  <2>1. UNCHANGED <<rows, page>>
    BY <1>2 DEF Next, ClockTicks, vars, store
  <2>2. QED
    BY <1>2, <2>1, PageKept DEF PageInv, SelectsCounted
<1>3. CASE Nodes # {}
  BY <1>1, <1>3 DEF PageInv, SelectsCounted
<1>4. QED
  BY <1>2, <1>3

LEMMA InitPages == Init => PageInv
<1> SUFFICES ASSUME Init PROVE PageInv
  OBVIOUS
<1>1. rows = {} /\ page.start = 0 /\ page.end = 0 /\ page.shown = {}
  BY DEF Init
<1>2. RowsAt(rows, page) = {} /\ Cardinality(rows) = 0
  BY <1>1, FS_EmptySet DEF RowsAt
<1>3. QED
  BY <1>1, <1>2 DEF PageInv, PageShows, SelectsCounted, Init

(* Going from page to page with a store of its own, the admin page shows no row   *)
(* twice and passes over none, as long as none that it had counted was pruned.    *)
THEOREM PagesFollow ==
  ASSUME OneNode
  PROVE  Spec => PagesAdjoin
<1>1. Typed /\ Typed' /\ OrderInv /\ PageInv /\ [Next]_vars => PageInv'
  BY StepPages
<1>2. Spec => []PageInv
  BY <1>1, InitPages, AlwaysTyped, AlwaysOrderInv, PTL DEF Spec
<1>3. ASSUME Typed, PageInv, [Next]_vars, NEW n \in Nodes, sync[n].pc = "select",
             sync'[n].pc = "idle", faults' = faults, ~page.moved,
             sync[n].ask \in {NextOf(page), PrevOf(page)},
             NEW r \in page.shown, NEW t \in page'.shown
      PROVE  /\ IF sync[n].ask.dir = "next" THEN r.id < t.id ELSE t.id < r.id
             /\ \A x \in rows : x.id \in r.id .. t.id \/ x.id \in t.id .. r.id =>
                  x \in page.shown \/ x \in page'.shown
  <2> DEFINE b == Bounds(n)
             ask == sync[n].ask
  <2>1. Select(n)
    <3>1. ~Fault
      BY <1>3 DEF Fault, Typed, TypeOK
    <3>2. QED
      BY <1>3, <3>1, SyncMoves DEF SyncStart, SyncLoad, SyncRead, SyncStat, SyncCommit, SyncFails, Count
  <2>2. /\ page'.shown = RowsAt(rows, b) /\ b.start \in Nat /\ b.end \in Nat
        /\ (ask.dir = "next" /\ ask.cursor <= Cardinality(rows) => b.start = ask.cursor)
        /\ (ask.dir = "prev" /\ ask.cursor <= Cardinality(rows) => b.end = ask.cursor)
    BY <1>3, <2>1, SelectShows, AskedBounds DEF PageInv
  <2>3. /\ page.shown = RowsAt(rows, page) /\ page.start \in Nat /\ page.end \in Nat
        /\ page.start <= Cardinality(rows) /\ page.end <= Cardinality(rows)
    <3>1. page.start \in Nat /\ page.end \in Nat /\ Cardinality(rows) \in Nat
      BY <1>3, FS_CardinalityType DEF Typed, TypeOK, RowsOK, Page
    <3>2. QED
      BY <1>3, <3>1 DEF PageInv, PageShows
  <2>4. IsFiniteSet(rows) /\ RowsUnique(rows) /\ \A x \in rows : x.id \in Nat
    BY <1>3 DEF Typed, RowsOK, Row
  <2> HIDE DEF b
  <2>5. r \in rows /\ t \in rows /\ r.id \in Nat /\ t.id \in Nat
    BY <2>2, <2>3, <2>4, RowsAtCount
  <2>6. CASE ask = NextOf(page)
    <3>1. ask.dir = "next" /\ b.start = page.end
      BY <2>2, <2>3, <2>6 DEF NextOf
    <3>2. /\ r.id < t.id
          /\ \A x \in rows : x.id \in r.id .. t.id => x \in page.shown \/ x \in page'.shown
      BY <2>2, <2>3, <2>4, <3>1, RangesAdjoin
    <3>3. \A x \in rows : x.id \notin t.id .. r.id
      BY <2>4, <2>5, <3>2
    <3>4. QED
      BY <3>1, <3>2, <3>3
  <2>7. CASE ask = PrevOf(page)
    <3>1. ask.dir = "prev" /\ b.end = page.start
      BY <2>2, <2>3, <2>7 DEF PrevOf
    <3>2. /\ t.id < r.id
          /\ \A x \in rows : x.id \in t.id .. r.id => x \in page.shown \/ x \in page'.shown
      BY <2>2, <2>3, <2>4, <3>1, RangesAdjoin
    <3>3. \A x \in rows : x.id \notin r.id .. t.id
      BY <2>4, <2>5, <3>2
    <3>4. QED
      BY <3>1, <3>2, <3>3
  <2>8. QED
    BY <1>3, <2>6, <2>7
<1>4. Typed /\ PageInv /\ [Next]_vars =>
        \A n \in Nodes :
          LET ask == sync[n].ask
              between == {r \in rows : \E s \in page.shown, t \in page'.shown :
                            r.id \in s.id .. t.id \/ r.id \in t.id .. s.id}
          IN  sync[n].pc = "select" /\ sync'[n].pc = "idle" /\ faults' = faults /\ ~page.moved
              /\ ask \in {NextOf(page), PrevOf(page)} /\ page'.shown # {} =>
                   /\ between \subseteq page.shown \cup page'.shown
                   /\ \A r \in page.shown, t \in page'.shown :
                        IF ask.dir = "next" THEN r.id < t.id ELSE t.id < r.id
  BY <1>3
<1>5. QED
  BY <1>2, <1>4, AlwaysTyped, PTL DEF Spec, PagesAdjoin
==============================================================================
