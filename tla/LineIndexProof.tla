---------------------------- MODULE LineIndexProof ----------------------------
(***************************************************************************)
(* Theorems about LineIndex, for any requests, page size and bounds: the     *)
(* index marks the lines of the log, and the pages read with it fit, reach   *)
(* the end and adjoin.  Lines are numbered by how many line ends come up to  *)
(* a byte (LineNo), which ties the bounds of a page to the marks.            *)
(***************************************************************************)
EXTENDS LineIndex, EventLogProof

-------------------------------------------------------------------------------
(* Positions in ascending order.  Count(S, x): how many come up to x.            *)

UpTo(S, x) == {j \in S : j <= x}
Count(S, x) == Cardinality(UpTo(S, x))

LEMMA CountType ==
  ASSUME NEW S, IsFiniteSet(S), NEW x
  PROVE  /\ IsFiniteSet(UpTo(S, x)) /\ Count(S, x) \in Nat /\ Cardinality(S) \in Nat
         /\ Count(S, x) <= Cardinality(S)
         /\ x \in S /\ (\A z \in S : z \in Int) => 1 <= Count(S, x)
<1>1. UpTo(S, x) \in SUBSET S
  BY DEF UpTo
<1>2. IsFiniteSet(UpTo(S, x)) /\ Count(S, x) \in Nat /\ Cardinality(S) \in Nat
      /\ Count(S, x) <= Cardinality(S)
  BY <1>1, FS_Subset, FS_CardinalityType DEF Count
<1>3. ASSUME x \in S, \A z \in S : z \in Int
      PROVE  1 <= Count(S, x)
  <2>1. x \in UpTo(S, x)
    BY <1>3 DEF UpTo
  <2>2. Count(S, x) # 0
    BY <1>2, <2>1, FS_EmptySet DEF Count
  <2>3. QED
    BY <1>2, <2>2
<1>4. QED
  BY <1>2, <1>3

LEMMA CountOrder ==
  ASSUME NEW S, IsFiniteSet(S), \A z \in S : z \in Int, NEW x \in Int, NEW y \in S, x < y
  PROVE  Count(S, x) < Count(S, y)
<1>1. UpTo(S, x) \in SUBSET UpTo(S, y)
  BY DEF UpTo
<1>2. y \in UpTo(S, y) /\ y \notin UpTo(S, x)
  BY DEF UpTo
<1>3. IsFiniteSet(UpTo(S, y)) /\ Count(S, x) \in Nat /\ Count(S, y) \in Nat
  BY CountType
<1>4. Count(S, x) <= Count(S, y) /\ (Count(S, y) = Count(S, x) => UpTo(S, y) = UpTo(S, x))
  BY <1>1, <1>3, FS_Subset DEF Count
<1>5. QED
  BY <1>2, <1>3, <1>4

LEMMA CountInjective ==
  ASSUME NEW S, IsFiniteSet(S), \A z \in S : z \in Int, NEW x \in S, NEW y \in S,
         Count(S, x) = Count(S, y)
  PROVE  x = y
<1>1. Count(S, x) \in Nat /\ Count(S, y) \in Nat /\ x \in Int /\ y \in Int
  BY CountType
<1>2. ASSUME x < y
      PROVE  FALSE
  <2>1. Count(S, x) < Count(S, y)
    BY <1>1, <1>2, CountOrder
  <2>2. QED
    BY <1>1, <2>1
<1>3. ASSUME y < x
      PROVE  FALSE
  <2>1. Count(S, y) < Count(S, x)
    BY <1>1, <1>3, CountOrder
  <2>2. QED
    BY <1>1, <2>1
<1>4. QED
  BY <1>1, <1>2, <1>3

LEMMA CountSurjective ==
  ASSUME NEW S, IsFiniteSet(S), \A z \in S : z \in Int, NEW k \in 1 .. Cardinality(S)
  PROVE  \E x \in S : Count(S, x) = k
<1> DEFINE place == [x \in S |-> Count(S, x) - 1]
<1>1. Cardinality(S) \in Nat
  BY FS_CardinalityType
<1>2. \A x \in S : Count(S, x) \in 1 .. Cardinality(S)
  BY <1>1, CountType
<1>3. place \in [S -> Nat] /\ \A x \in S : place[x] < Cardinality(S)
  BY <1>1, <1>2
<1>4. \A x, y \in S : place[x] = place[y] => x = y
  <2> SUFFICES ASSUME NEW x \in S, NEW y \in S, Count(S, x) - 1 = Count(S, y) - 1
               PROVE  x = y
    OBVIOUS
  <2>1. Count(S, x) = Count(S, y)
    BY <1>2, <1>1
  <2>2. QED
    BY <2>1, CountInjective
<1>5. k - 1 \in Nat /\ k - 1 < Cardinality(S)
  BY <1>1
<1> HIDE DEF place
<1>6. PICK x \in S : place[x] = k - 1
  BY <1>3, <1>4, <1>5, PlacesTaken
<1>7. Count(S, x) - 1 = k - 1
  BY <1>6 DEF place
<1>8. QED
  BY <1>1, <1>2, <1>6, <1>7

(* The sequence of a set: its k-th member is the one up to which there are k.    *)
LEMMA InOrderAt ==
  ASSUME NEW S, IsFiniteSet(S), \A z \in S : z \in Int, NEW x \in S
  PROVE  Count(S, x) \in 1 .. Cardinality(S) /\ InOrder(S)[Count(S, x)] = x
<1>1. Count(S, x) \in 1 .. Cardinality(S)
  BY CountType
<1>2. InOrder(S)[Count(S, x)] = CHOOSE i \in S : Cardinality({j \in S : j <= i}) = Count(S, x)
  BY <1>1 DEF InOrder
<1>3. \A i \in S : Cardinality({j \in S : j <= i}) = Count(S, i)
  BY DEF Count, UpTo
<1>4. \A i \in S : Cardinality({j \in S : j <= i}) = Count(S, x) <=> i = x
  BY <1>3, CountInjective
<1>5. QED
  BY <1>1, <1>2, <1>4

LEMMA InOrderSeq ==
  ASSUME NEW S, IsFiniteSet(S), \A z \in S : z \in Int
  PROVE  /\ InOrder(S) \in Seq(S) /\ Len(InOrder(S)) = Cardinality(S) /\ Cardinality(S) \in Nat
         /\ \A k \in 1 .. Cardinality(S) :
              InOrder(S)[k] \in S /\ Count(S, InOrder(S)[k]) = k
<1>1. \A k \in 1 .. Cardinality(S) : InOrder(S)[k] \in S /\ Count(S, InOrder(S)[k]) = k
  BY CountSurjective, InOrderAt
<1>2. Cardinality(S) \in Nat
  BY FS_CardinalityType
<1>3. InOrder(S) \in [1 .. Cardinality(S) -> S]
  BY <1>1 DEF InOrder
<1>4. InOrder(S) \in Seq(S) /\ Len(InOrder(S)) = Cardinality(S)
  <2> DEFINE N == Cardinality(S)
             s == InOrder(S)
  <2>1. N \in Nat /\ s \in [1 .. N -> S]
    BY <1>2, <1>3
  <2> HIDE DEF N, s
  <2>2. s \in Seq(S) /\ Len(s) = N
    BY <2>1
  <2>3. QED
    BY <2>2 DEF N, s
<1>5. QED
  BY <1>1, <1>2, <1>4

(* A set whose members all come after those of another one.                      *)
LEMMA InOrderUnion ==
  ASSUME NEW A, IsFiniteSet(A), \A a \in A : a \in Int, NEW B, IsFiniteSet(B), \A b \in B : b \in Int,
         \A a \in A, b \in B : a < b
  PROVE  InOrder(A \cup B) = InOrder(A) \o InOrder(B)
<1> DEFINE S == A \cup B
           s == InOrder(A) \o InOrder(B)
<1>1. IsFiniteSet(S) /\ (\A x \in S : x \in Int) /\ A \cap B = {}
  <2>1. \A x \in A : x \notin B
    OBVIOUS
  <2>2. IsFiniteSet(S)
    BY FS_Union
  <2>3. QED
    BY <2>1, <2>2
<1>2. /\ Cardinality(S) = Cardinality(A) + Cardinality(B)
      /\ Cardinality(A) \in Nat /\ Cardinality(B) \in Nat
  <2>1. Cardinality(S) = Cardinality(A) + Cardinality(B) - Cardinality(A \cap B)
    BY FS_Union
  <2>2. Cardinality(A \cap B) = 0 /\ Cardinality(A) \in Nat /\ Cardinality(B) \in Nat
    BY <1>1, FS_EmptySet, FS_CardinalityType
  <2> HIDE DEF S
  <2>3. QED
    BY <2>1, <2>2
<1>3. InOrder(A) \in Seq(S) /\ InOrder(B) \in Seq(S)
      /\ Len(InOrder(A)) = Cardinality(A) /\ Len(InOrder(B)) = Cardinality(B)
  BY InOrderSeq, SeqMonotonic
<1>4. s \in Seq(S) /\ Len(s) = Cardinality(S)
      /\ \A k \in 1 .. Cardinality(S) :
           s[k] = IF k <= Cardinality(A) THEN InOrder(A)[k] ELSE InOrder(B)[k - Cardinality(A)]
  <2> HIDE DEF S
  <2>1. /\ s \in Seq(S) /\ Len(s) = Len(InOrder(A)) + Len(InOrder(B))
        /\ \A k \in 1 .. Len(InOrder(A)) + Len(InOrder(B)) :
             s[k] = IF k <= Len(InOrder(A)) THEN InOrder(A)[k] ELSE InOrder(B)[k - Len(InOrder(A))]
    BY <1>3, ConcatProperties
  <2>2. QED
    BY <1>2, <1>3, <2>1
<1>5. ASSUME NEW a \in A
      PROVE  Count(S, a) = Count(A, a)
  <2>1. UpTo(S, a) = UpTo(A, a)
    BY DEF UpTo
  <2>2. QED
    BY <2>1 DEF Count
<1>6. ASSUME NEW b \in B
      PROVE  Count(S, b) = Cardinality(A) + Count(B, b)
  <2>1. UpTo(S, b) = A \cup UpTo(B, b) /\ A \cap UpTo(B, b) = {}
    BY <1>1 DEF UpTo
  <2>2. IsFiniteSet(UpTo(B, b)) /\ Count(B, b) \in Nat
    BY CountType
  <2>3. Cardinality(A \cup UpTo(B, b)) = Cardinality(A) + Count(B, b) - Cardinality(A \cap UpTo(B, b))
    BY <2>2, FS_Union DEF Count
  <2>4. Cardinality(A \cap UpTo(B, b)) = 0
    BY <2>1, FS_EmptySet
  <2>5. Count(S, b) = Cardinality(A \cup UpTo(B, b))
    BY <2>1 DEF Count
  <2>6. QED
    BY <1>2, <2>2, <2>3, <2>4, <2>5
<1> HIDE DEF S, s
<1>7. ASSUME NEW k \in 1 .. Cardinality(S)
      PROVE  InOrder(S)[k] = s[k]
  <2>1. CASE k <= Cardinality(A)
    <3>1. k \in 1 .. Cardinality(A) /\ s[k] = InOrder(A)[k]
      BY <1>2, <1>4, <2>1
    <3>2. s[k] \in A /\ Count(A, s[k]) = k
      BY <3>1, InOrderSeq
    <3>3. QED
      BY <1>1, <1>5, <3>2, InOrderAt DEF S
  <2>2. CASE k > Cardinality(A)
    <3>1. k - Cardinality(A) \in 1 .. Cardinality(B) /\ s[k] = InOrder(B)[k - Cardinality(A)]
      BY <1>2, <1>4, <2>2
    <3>2. s[k] \in B /\ Count(B, s[k]) = k - Cardinality(A)
      BY <3>1, InOrderSeq
    <3>3. Count(S, s[k]) = k
      BY <1>2, <1>6, <3>2
    <3>4. QED
      BY <1>1, <3>2, <3>3, InOrderAt DEF S
  <2>3. QED
    BY <1>2, <2>1, <2>2
<1>8. InOrder(S) \in Seq(S) /\ Len(InOrder(S)) = Cardinality(S)
  BY <1>1, InOrderSeq
<1>9. InOrder(S) = s
  BY <1>4, <1>7, <1>8, SeqEqual
<1>10. QED
  BY <1>9 DEF S, s

-------------------------------------------------------------------------------
(* The lines of a log.  Ends(F, at): the ends of its lines when it is read up to *)
(* at, an unfinished last line included; LineNo(F, at): how many lines it has.   *)

Ends(F, at) == {i \in 1 .. at : F[i].half = "tail" \/ i = at}
LineNo(F, at) == Cardinality(Ends(F, at))
OffsetsOf(F, at) == <<0>> \o InOrder(Ends(F, at))

AtLineEnd(F, at) == at = 0 \/ F[at].half = "tail"

LEMMA EndsType ==
  ASSUME NEW F, NEW at \in Nat
  PROVE  /\ IsFiniteSet(Ends(F, at)) /\ \A z \in Ends(F, at) : z \in Int /\ z \in 1 .. at
         /\ LineNo(F, at) \in Nat
         /\ LineNo(F, 0) = 0
<1>1. IsFiniteSet(1 .. at)
  BY FS_Interval
<1>2. IsFiniteSet(Ends(F, at)) /\ LineNo(F, at) \in Nat
  BY <1>1, FS_Subset, FS_CardinalityType DEF Ends, LineNo
<1>3. Ends(F, 0) = {}
  BY DEF Ends
<1>4. LineNo(F, 0) = 0
  BY <1>3, FS_EmptySet DEF LineNo
<1>5. \A z \in Ends(F, at) : z \in Int /\ z \in 1 .. at
  BY DEF Ends
<1>6. QED
  BY <1>2, <1>4, <1>5

(* A longer reading has no fewer lines, and more when the shorter one ends with  *)
(* a line.                                                                       *)
LEMMA LineNoOrder ==
  ASSUME NEW F, NEW x \in Nat, NEW y \in Nat, x <= y
  PROVE  /\ LineNo(F, x) <= LineNo(F, y)
         /\ x < y /\ AtLineEnd(F, x) => LineNo(F, x) < LineNo(F, y)
<1>1. /\ IsFiniteSet(Ends(F, x)) /\ IsFiniteSet(Ends(F, y))
      /\ LineNo(F, x) \in Nat /\ LineNo(F, y) \in Nat
  BY EndsType
<1>2. ASSUME x < y, AtLineEnd(F, x)
      PROVE  LineNo(F, x) < LineNo(F, y)
  <2>1. Ends(F, x) \in SUBSET Ends(F, y)
    BY <1>2 DEF Ends, AtLineEnd
  <2>2. y \in Ends(F, y) /\ y \notin Ends(F, x)
    BY <1>2 DEF Ends
  <2>3. LineNo(F, x) <= LineNo(F, y) /\ (LineNo(F, y) = LineNo(F, x) => Ends(F, y) = Ends(F, x))
    BY <1>1, <2>1, FS_Subset DEF LineNo
  <2>4. QED
    BY <1>1, <2>2, <2>3
<1>3. ASSUME x < y, ~AtLineEnd(F, x)
      PROVE  LineNo(F, x) <= LineNo(F, y)
  <2> DEFINE X == Ends(F, x) \ {x}
             Y == Ends(F, y) \ {y}
  <2>1. x \in Ends(F, x) /\ y \in Ends(F, y)
    BY <1>3 DEF Ends, AtLineEnd
  <2>2. X \in SUBSET Y
    BY <1>3 DEF Ends
  <2>3. Cardinality(X) = LineNo(F, x) - 1 /\ Cardinality(Y) = LineNo(F, y) - 1 /\ IsFiniteSet(Y)
    BY <1>1, <2>1, FS_RemoveElement DEF LineNo
  <2> HIDE DEF X, Y
  <2>4. Cardinality(X) <= Cardinality(Y)
    BY <2>2, <2>3, FS_Subset
  <2>5. QED
    BY <1>1, <2>3, <2>4
<1>4. QED
  BY <1>1, <1>2, <1>3

(* The offsets of a log read up to at: the k-th, counted from 0, is where its     *)
(* first k lines end.                                                             *)
LEMMA Offsets ==
  ASSUME NEW F, NEW at \in Nat
  PROVE  LET s == OffsetsOf(F, at)
         IN  /\ s \in Seq(Nat) /\ Len(s) = LineNo(F, at) + 1 /\ LineNo(F, at) \in Nat
             /\ s[Len(s)] = at
             /\ \A k \in 0 .. LineNo(F, at) :
                  /\ s[k + 1] \in 0 .. at /\ LineNo(F, s[k + 1]) = k
                  /\ AtLineEnd(F, s[k + 1]) \/ s[k + 1] = at
<1> DEFINE E == Ends(F, at)
           s == OffsetsOf(F, at)
           N == LineNo(F, at)
<1>1. IsFiniteSet(E) /\ (\A z \in E : z \in Int /\ z \in 1 .. at) /\ N \in Nat /\ N = Cardinality(E)
  BY EndsType DEF LineNo
<1> HIDE DEF E, N
<1>2. InOrder(E) \in Seq(E) /\ Len(InOrder(E)) = N
      /\ \A k \in 1 .. N : InOrder(E)[k] \in E /\ Count(E, InOrder(E)[k]) = k
  BY <1>1, InOrderSeq
<1>3. <<0>> \in Seq(Nat) /\ Len(<<0>>) = 1 /\ <<0>>[1] = 0
  OBVIOUS
<1>4. InOrder(E) \in Seq(Nat)
  <2>1. E \subseteq Nat
    BY <1>1
  <2>2. QED
    BY <1>2, <2>1, SeqMonotonic
<1>5. s \in Seq(Nat) /\ Len(s) = N + 1
      /\ \A k \in 1 .. N + 1 : s[k] = IF k <= 1 THEN <<0>>[k] ELSE InOrder(E)[k - 1]
  <2>1. s = <<0>> \o InOrder(E)
    BY DEF OffsetsOf, E
  <2> HIDE DEF s
  <2>2. /\ s \in Seq(Nat) /\ Len(s) = 1 + N
        /\ \A k \in 1 .. 1 + N : s[k] = IF k <= 1 THEN <<0>>[k] ELSE InOrder(E)[k - 1]
    BY <1>2, <1>3, <1>4, <2>1, ConcatProperties
  <2>3. QED
    BY <1>1, <2>2
<1> HIDE DEF s
<1>6. s[1] = 0 /\ \A k \in 1 .. N : s[k + 1] = InOrder(E)[k]
  BY <1>1, <1>3, <1>5
<1>7. ASSUME NEW x \in E
      PROVE  UpTo(E, x) = Ends(F, x)
  BY <1>1, <1>7 DEF UpTo, Ends, E
<1>8. ASSUME NEW k \in 0 .. N
      PROVE  /\ s[k + 1] \in 0 .. at /\ LineNo(F, s[k + 1]) = k
             /\ AtLineEnd(F, s[k + 1]) \/ s[k + 1] = at
  <2>1. CASE k = 0
    BY <1>6, <2>1, EndsType DEF AtLineEnd
  <2>2. CASE k # 0
    <3>1. k \in 1 .. N /\ s[k + 1] = InOrder(E)[k]
      BY <1>1, <1>6, <2>2
    <3>2. s[k + 1] \in E /\ Count(E, s[k + 1]) = k
      BY <1>2, <3>1
    <3>3. LineNo(F, s[k + 1]) = k
      BY <1>7, <3>2 DEF LineNo, Count
    <3>4. F[s[k + 1]].half = "tail" \/ s[k + 1] = at
      BY <3>2 DEF E, Ends
    <3>5. QED
      BY <1>1, <3>2, <3>3, <3>4 DEF AtLineEnd
  <2>3. QED
    BY <2>1, <2>2
<1>9. s[N + 1] = at
  <2>1. CASE at = 0
    <3>1. N = 0
      BY <2>1, EndsType DEF N
    <3>2. QED
      BY <1>6, <2>1, <3>1
  <2>2. CASE at # 0
    <3>1. at \in E
      BY <2>2 DEF E, Ends
    <3>2. Count(E, at) = N
      BY <1>7, <3>1 DEF Count, N, LineNo
    <3>3. N \in 1 .. N /\ InOrder(E)[N] = at
      BY <1>1, <3>1, <3>2, InOrderAt
    <3>4. QED
      BY <1>6, <3>3
  <2>3. QED
    BY <2>1, <2>2
<1>10. QED
  BY <1>1, <1>5, <1>8, <1>9 DEF s, N

LEMMA OffsetsOrder ==
  ASSUME NEW F, NEW at \in Nat, NEW j \in 0 .. LineNo(F, at), NEW k \in 0 .. LineNo(F, at), j <= k
  PROVE  OffsetsOf(F, at)[j + 1] <= OffsetsOf(F, at)[k + 1]
<1> DEFINE s == OffsetsOf(F, at)
<1>1. /\ LineNo(F, at) \in Nat /\ s[j + 1] \in Nat /\ s[k + 1] \in Nat
      /\ LineNo(F, s[j + 1]) = j /\ LineNo(F, s[k + 1]) = k
  <2>1. LineNo(F, at) \in Nat
        /\ \A i \in 0 .. LineNo(F, at) : s[i + 1] \in 0 .. at /\ LineNo(F, s[i + 1]) = i
    BY Offsets
  <2> HIDE DEF s
  <2>2. QED
    BY <2>1
<1> HIDE DEF s
<1>2. ASSUME s[k + 1] < s[j + 1]
      PROVE  FALSE
  <2>1. k <= j
    BY <1>1, <1>2, LineNoOrder
  <2>2. j = k
    BY <1>1, <2>1
  <2>3. QED
    BY <1>1, <1>2, <2>2
<1>3. s[j + 1] <= s[k + 1]
  BY <1>1, <1>2
<1>4. QED
  BY <1>3 DEF s

(* What is appended does not change the lines before.                            *)
LEMMA GrownLines ==
  ASSUME NEW F, NEW G, NEW at \in Nat, \A i \in 1 .. at : G[i] = F[i]
  PROVE  /\ LineNo(G, at) = LineNo(F, at) /\ OffsetsOf(G, at) = OffsetsOf(F, at)
         /\ AtLineEnd(G, at) <=> AtLineEnd(F, at)
         /\ \A x \in 0 .. at : LineNo(G, x) = LineNo(F, x)
<1>1. ASSUME NEW x \in 0 .. at
      PROVE  Ends(G, x) = Ends(F, x)
  BY DEF Ends
<1>2. QED
  BY <1>1 DEF LineNo, OffsetsOf, AtLineEnd

-------------------------------------------------------------------------------
(* What buildOrUpdateIndex marks: the line ends of the file, read from its start,  *)
(* or from the end of a line.                                                      *)
LEMMA MarksOfReading ==
  ASSUME NEW F \in Seq(Fragment), NEW at \in 0 .. Len(F)
  PROVE  /\ <<0>> \o Marks(SubSeq(F, 1, at), 0) = OffsetsOf(F, at)
         /\ <<0>> \o Marks(F, 0) = OffsetsOf(F, Len(F))
<1>1. Len(F) \in Nat /\ \A i \in 1 .. at : F[i] \in Fragment
  BY LenProperties, ElementOfSeq
<1>2. Len(SubSeq(F, 1, at)) = at /\ \A i \in 1 .. at : SubSeq(F, 1, at)[i] = F[i]
  BY <1>1, SubSeqProperties
<1> DEFINE P == SubSeq(F, 1, at)
<1> HIDE DEF P
<1>3. {i \in 0 + 1 .. Len(P) : P[i].half = "tail" \/ i = Len(P)} = Ends(F, at)
  BY <1>2 DEF P, Ends
<1>4. {i \in 0 + 1 .. Len(F) : F[i].half = "tail" \/ i = Len(F)} = Ends(F, Len(F))
  BY DEF Ends
<1>5. QED
  BY <1>3, <1>4 DEF Marks, OffsetsOf, P

LEMMA MarksOfExtension ==
  ASSUME NEW F \in Seq(Fragment), NEW at \in 0 .. Len(F), AtLineEnd(F, at)
  PROVE  OffsetsOf(F, at) \o Marks(F, at) = OffsetsOf(F, Len(F))
<1> DEFINE A == Ends(F, at)
           B == {i \in at + 1 .. Len(F) : F[i].half = "tail" \/ i = Len(F)}
<1>1. Len(F) \in Nat
  BY LenProperties
<1>2. A \cup B = Ends(F, Len(F))
  BY <1>1 DEF Ends, AtLineEnd
<1>3. IsFiniteSet(A) /\ \A a \in A : a \in Int /\ a \in 1 .. at
  BY <1>1, EndsType
<1>4. IsFiniteSet(B) /\ \A b \in B : b \in Int
  <2>1. IsFiniteSet(at + 1 .. Len(F))
    BY <1>1, FS_Interval
  <2>2. QED
    BY <1>1, <2>1, FS_Subset
<1>5. \A a \in A, b \in B : a < b
  BY <1>1, <1>3
<1>6. Marks(F, at) = InOrder(B)
  BY DEF Marks
<1> HIDE DEF A, B
<1>7. InOrder(A) \o InOrder(B) = InOrder(A \cup B)
  BY <1>3, <1>4, <1>5, InOrderUnion
<1>8. InOrder(A) \in Seq(Int) /\ InOrder(B) \in Seq(Int) /\ <<0>> \in Seq(Int)
  <2>1. A \subseteq Int /\ B \subseteq Int
    BY <1>3, <1>4
  <2>2. InOrder(A) \in Seq(Int) /\ InOrder(B) \in Seq(Int)
    BY <1>3, <1>4, <2>1, InOrderSeq, SeqMonotonic
  <2>3. QED
    BY <2>2
<1>9. (<<0>> \o InOrder(A)) \o InOrder(B) = <<0>> \o (InOrder(A) \o InOrder(B))
  BY <1>8, ConcatAssociative
<1>10. OffsetsOf(F, at) = <<0>> \o InOrder(A) /\ OffsetsOf(F, Len(F)) = <<0>> \o InOrder(A \cup B)
  BY <1>2 DEF OffsetsOf, A
<1>11. QED
  BY <1>6, <1>7, <1>9, <1>10

-------------------------------------------------------------------------------
(* Type correctness.  An index marks the start of the file at least, and it, a    *)
(* request and a page belong to the log of now or to one rotated before.          *)

IndexTyped(n) ==
    /\ made[n].file <= rotations
    /\ index[n] # NoIndex =>
         index[n].offsets # <<>> /\ (made[n].file = rotations => log[n] # NoFile)

ReadTyped(r) ==
    read[r].pc # "idle" =>
      /\ read[r].file <= rotations
      /\ read[r].file = rotations => log[Home[r]] # NoFile /\ read[r].size <= Len(Frags(Home[r]))
      /\ read[r].pc = "marks" => read[r].offsets # <<>>

Typed ==
    /\ TypeOK /\ LogOrder
    /\ \A n \in Nodes : IndexTyped(n)
    /\ \A r \in Readers : ReadTyped(r)
    /\ \A b \in Browsers : page[b].file <= rotations

(* The states of a request.                                                       *)
AtIndex == [pc : {"index"}, ask : Ask, size : Nat, mtime : Stamp, file : 0..MaxRotations]
AtMarks == [pc : {"marks"}, ask : Ask, size : Nat, file : 0..MaxRotations,
            current : BOOLEAN, offsets : Seq(Nat), mixed : BOOLEAN]
AtLines == [pc : {"lines"}, ask : Ask, size : Nat, file : 0..MaxRotations,
            bounds : [start : Nat, end : Nat], from : Nat, to : Nat, mixed : BOOLEAN]

LEMMA ReadFields ==
  ASSUME NEW s \in ReadState
  PROVE  /\ s.pc \in {"idle", "index", "marks", "lines"}
         /\ s.pc = "idle" => s = Idle
         /\ s.pc = "index" => s \in AtIndex
         /\ s.pc = "marks" => s \in AtMarks
         /\ s.pc = "lines" => s \in AtLines
<1>1. CASE s \in [pc : {"idle"}]
  <2>1. s = [pc |-> "idle"]
    BY <1>1
  <2>2. s.pc = "idle"
    BY <1>1
  <2>3. QED
    BY <2>1, <2>2 DEF Idle
<1>2. CASE s \in AtIndex
  <2>1. s.pc = "index"
    BY <1>2 DEF AtIndex
  <2>2. QED
    BY <1>2, <2>1
<1>3. CASE s \in AtMarks
  <2>1. s.pc = "marks"
    BY <1>3 DEF AtMarks
  <2>2. QED
    BY <1>3, <2>1
<1>4. CASE s \in AtLines
  <2>1. s.pc = "lines"
    BY <1>4 DEF AtLines
  <2>2. QED
    BY <1>4, <2>1
<1>5. QED
  BY <1>1, <1>2, <1>3, <1>4 DEF ReadState, AtIndex, AtMarks, AtLines

LEMMA ReadStates ==
  /\ Idle \in ReadState
  /\ AtIndex \subseteq ReadState /\ AtMarks \subseteq ReadState /\ AtLines \subseteq ReadState
<1>1. Idle \in [pc : {"idle"}]
  BY DEF Idle
<1>2. QED
  BY <1>1 DEF ReadState, AtIndex, AtMarks, AtLines

LEMMA Parts ==
  ASSUME Typed
  PROVE  /\ LogTypeOK /\ LogOrder /\ rotations \in Nat /\ rotations \in 0 .. MaxRotations
         /\ \A r \in Readers : read[r] \in ReadState /\ Home[r] \in Nodes
         /\ \A b \in Browsers : page[b] \in Page /\ b \in Readers /\ Home[b] \in Nodes
         /\ \A n \in Nodes : /\ made[n].file \in 0 .. MaxRotations /\ made[n].mixed \in BOOLEAN
                             /\ index[n] # NoIndex => index[n] \in Index
         /\ PageSize \in Nat
  BY HomeAssumption, PageSizeAssumption, BoundsAssumption DEF Typed, TypeOK, LogTypeOK

(* The lines marked are numbers, and after where the marking starts.              *)
LEMMA MarksType ==
  ASSUME NEW F \in Seq(Fragment), NEW from \in Nat
  PROVE  Marks(F, from) \in Seq(Nat)
<1> DEFINE S == {i \in from + 1 .. Len(F) : F[i].half = "tail" \/ i = Len(F)}
<1>1. Len(F) \in Nat
  BY LenProperties
<1>2. IsFiniteSet(from + 1 .. Len(F))
  BY <1>1, FS_Interval
<1>3. IsFiniteSet(S) /\ (\A z \in S : z \in Int) /\ S \subseteq Nat
  BY <1>1, <1>2, FS_Subset
<1>4. Marks(F, from) = InOrder(S)
  BY DEF Marks
<1> HIDE DEF S
<1>5. QED
  BY <1>3, <1>4, InOrderSeq, SeqMonotonic

(* The offsets at one torn append are numbers too.                                *)
LEMMA TornType ==
  ASSUME NEW old, NEW new \in Seq(Nat), Len(old) \in Nat, NEW seen \in Torn(old, new)
  PROVE  seen \in Seq(Nat) /\ seen # <<>>
<1>1. PICK k \in Len(old) + 1 .. Len(new) : seen = [SubSeq(new, 1, k) EXCEPT ![k] = 0]
  BY DEF Torn
<1>2. Len(new) \in Nat /\ \A i \in 1 .. Len(new) : new[i] \in Nat
  BY LenProperties, ElementOfSeq
<1>3. k \in Nat /\ 1 <= k /\ k <= Len(new)
  BY <1>1, <1>2
<1> DEFINE part == SubSeq(new, 1, k)
<1>4. part \in Seq(Nat) /\ Len(part) = k
  BY <1>2, <1>3, SubSeqProperties
<1> HIDE DEF part
<1>5. [part EXCEPT ![k] = 0] \in Seq(Nat) /\ Len([part EXCEPT ![k] = 0]) = k
  <2>1. k \in 1 .. Len(part) /\ 0 \in Nat
    BY <1>3, <1>4
  <2>2. QED
    BY <1>4, <2>1, ExceptSeq
<1>6. seen \in Seq(Nat) /\ Len(seen) = k
  BY <1>1, <1>5 DEF part
<1>7. QED
  BY <1>3, <1>6, EmptySeq

-------------------------------------------------------------------------------
(* What the steps do, and that they keep the types.                               *)

LEMMA LogMoves ==
  ASSUME Typed, LogChanges
  PROVE  /\ LogTypeOK' /\ LogOrder' /\ UNCHANGED <<index, read, page, made>>
         /\ \/ rotations' = rotations + 1
            \/ /\ rotations' = rotations
               /\ \A n \in Nodes : Grows(n) /\ (log[n] # NoFile => log'[n] # NoFile)
<1>1. LogTypeOK /\ LogOrder
  BY Parts
<1>2. ASSUME NEW m \in Nodes, log'[m] = log[m]
      PROVE  Grows(m)
  <2>1. Frags(m)' = Frags(m)
    BY <1>2 DEF Frags
  <2>2. Len(Frags(m)) \in Nat
    BY <1>1, FragsType
  <2>3. QED
    BY <2>1, <2>2 DEF Grows
<1>3. CASE Tick
  BY <1>1, <1>2, <1>3, Ticks DEF LogChanges
<1>4. CASE \E n \in Nodes : Emit(n) \/ EmitHead(n) \/ EmitTail(n)
  <2>1. PICK n \in Nodes : Emit(n) \/ EmitHead(n) \/ EmitTail(n)
    BY <1>4
  <2>2. /\ LogTypeOK' /\ LogOrder' /\ rotations' = rotations
        /\ Grows(n) /\ (log[n] # NoFile => log'[n] # NoFile)
        /\ \A m \in Nodes \ {n} : log'[m] = log[m]
    BY <1>1, <2>1, Appends
  <2>3. QED
    BY <1>2, <2>2 DEF LogChanges
<1>5. CASE \E n \in Nodes : Rotate(n)
  BY <1>1, <1>5, Rotates DEF LogChanges
<1>6. QED
  BY <1>3, <1>4, <1>5 DEF LogChanges

LEMMA LogTyped ==
  ASSUME Typed, LogChanges
  PROVE  Typed'
<1>1. LogTypeOK' /\ LogOrder' /\ UNCHANGED <<index, read, page, made>>
  BY LogMoves
<1>2. TypeOK'
  BY <1>1 DEF Typed, TypeOK, Page, Index, ReadState, Ask
<1>3. rotations \in Nat /\ rotations' \in Nat /\ rotations <= rotations'
  BY <1>1, LogMoves, Parts, BoundsAssumption DEF LogTypeOK
<1>4. ASSUME NEW n \in Nodes, rotations' = rotations
      PROVE  Grows(n) /\ (log[n] # NoFile => log'[n] # NoFile)
             /\ Len(Frags(n)) \in Nat /\ Len(Frags(n)') \in Nat
  <2>1. Grows(n) /\ (log[n] # NoFile => log'[n] # NoFile)
    BY <1>3, <1>4, LogMoves
  <2>2. Len(Frags(n)) \in Nat
    BY Parts, FragsType
  <2>3. Frags(n)' \in Seq(Fragment)
    BY <1>1, EmptySeq DEF LogTypeOK, Frags, LogFile
  <2>4. QED
    BY <2>1, <2>2, <2>3, LenProperties
<1>5. ASSUME NEW n \in Nodes
      PROVE  IndexTyped(n)'
  <2>1. made[n].file \in Nat /\ made[n].file <= rotations
    BY Parts, BoundsAssumption DEF Typed, IndexTyped
  <2>2. QED
    BY <1>1, <1>3, <1>4, <2>1 DEF Typed, IndexTyped
<1>6. ASSUME NEW r \in Readers, read[r].pc # "idle"
      PROVE  ReadTyped(r)'
  <2>1. read[r].file \in Nat /\ read[r].size \in Nat /\ Home[r] \in Nodes
    BY <1>6, Parts, ReadFields, BoundsAssumption DEF AtIndex, AtMarks, AtLines
  <2>2. read[r].file <= rotations
        /\ (read[r].file = rotations => log[Home[r]] # NoFile /\ read[r].size <= Len(Frags(Home[r])))
        /\ (read[r].pc = "marks" => read[r].offsets # <<>>)
    BY <1>6 DEF Typed, ReadTyped
  <2>3. read[r].file <= rotations' /\ (read[r].file = rotations' => rotations' = rotations)
    BY <1>3, <2>1, <2>2
  <2>4. read[r].file = rotations' =>
          log'[Home[r]] # NoFile /\ read[r].size <= Len(Frags(Home[r])')
    <3> SUFFICES ASSUME read[r].file = rotations'
                 PROVE  log'[Home[r]] # NoFile /\ read[r].size <= Len(Frags(Home[r])')
      OBVIOUS
    <3>1. Len(Frags(Home[r])) <= Len(Frags(Home[r])') /\ log'[Home[r]] # NoFile
          /\ Len(Frags(Home[r])) \in Nat /\ Len(Frags(Home[r])') \in Nat
      BY <1>4, <2>1, <2>2, <2>3 DEF Grows
    <3>2. QED
      BY <2>1, <2>2, <2>3, <3>1
  <2>5. QED
    BY <1>1, <2>2, <2>3, <2>4 DEF ReadTyped
<1>7. ASSUME NEW b \in Browsers
      PROVE  page'[b].file <= rotations'
  <2>1. page[b].file \in Nat /\ page[b].file <= rotations
    BY Parts, BoundsAssumption DEF Typed, Page
  <2>2. QED
    BY <1>1, <1>3, <2>1
<1>8. \A r \in Readers : ReadTyped(r)'
  BY <1>1, <1>6 DEF ReadTyped
<1>9. QED
  BY <1>1, <1>2, <1>5, <1>7, <1>8 DEF Typed

(* A request goes on, or is answered.                                             *)
LEMMA Goes ==
  ASSUME Typed, NEW r \in Readers, NEW s \in ReadState, read' = [read EXCEPT ![r] = s]
  PROVE  read' \in [Readers -> ReadState] /\ read'[r] = s
         /\ \A q \in Readers \ {r} : read'[q] = read[q]
  BY DEF Typed, TypeOK

LEMMA Replies ==
  ASSUME Typed, NEW r \in Readers, NEW answer \in Page, answer.file <= rotations,
         Reply(r, answer)
  PROVE  /\ read' \in [Readers -> ReadState] /\ read'[r] = Idle
         /\ \A q \in Readers \ {r} : read'[q] = read[q]
         /\ page' \in [Browsers -> Page] /\ \A b \in Browsers : page'[b].file <= rotations
         /\ \A b \in Browsers : page'[b] = IF b = r THEN answer ELSE page[b]
<1>1. Idle \in ReadState
  BY ReadStates
<1>2. read' = [read EXCEPT ![r] = Idle]
      /\ page' = [b \in Browsers |-> IF b = r THEN answer ELSE page[b]]
  BY DEF Reply
<1>3. \A b \in Browsers : page'[b] = IF b = r THEN answer ELSE page[b]
  BY <1>2
<1>4. \A b \in Browsers : page[b] \in Page /\ page[b].file <= rotations
  BY DEF Typed, TypeOK
<1>5. page' \in [Browsers -> Page] /\ \A b \in Browsers : page'[b].file <= rotations
  BY <1>2, <1>3, <1>4
<1>6. QED
  BY <1>1, <1>2, <1>3, <1>5, Goes

LEMMA NoPageType ==
  ASSUME Typed
  PROVE  NoPage(rotations) \in Page /\ NoPage(rotations).file = rotations
         /\ NoPage(rotations).file <= rotations
  BY Parts DEF NoPage, Page

(* A step of a request that leaves the log and the index alone.                   *)
LEMMA ReaderFrame ==
  ASSUME Typed, NEW r \in Readers, UNCHANGED <<logvars, index, made>>,
         read' \in [Readers -> ReadState], \A q \in Readers \ {r} : read'[q] = read[q],
         page' \in [Browsers -> Page], \A b \in Browsers : page'[b].file <= rotations,
         read'[r].pc # "idle" =>
           /\ read'[r].file <= rotations
           /\ read'[r].file = rotations =>
                log[Home[r]] # NoFile /\ read'[r].size <= Len(Frags(Home[r]))
           /\ read'[r].pc = "marks" => read'[r].offsets # <<>>
  PROVE  Typed'
<1>1. UNCHANGED <<log, writing, clock, emitted, splits, rotations, index, made>>
  BY DEF logvars
<1>2. TypeOK' /\ LogOrder'
  BY <1>1 DEF Typed, TypeOK, LogTypeOK, LogOrder, Frags, Index
<1>3. \A n \in Nodes : IndexTyped(n)'
  BY <1>1 DEF Typed, IndexTyped
<1>4. \A n \in Nodes : Frags(n)' = Frags(n)
  BY <1>1 DEF Frags
<1>5. ASSUME NEW q \in Readers
      PROVE  ReadTyped(q)'
  <2>1. Home[q] \in Nodes
    BY Parts
  <2>2. CASE q = r
    BY <1>1, <1>4, <2>1, <2>2 DEF ReadTyped
  <2>3. CASE q # r
    BY <1>1, <1>4, <2>1, <2>3 DEF ReadTyped, Typed
  <2>4. QED
    BY <2>2, <2>3
<1>6. QED
  BY <1>1, <1>2, <1>3, <1>5 DEF Typed

(* The request was answered with an empty page, the log being gone.               *)
LEMMA MissingTyped ==
  ASSUME Typed, NEW r \in Readers, ReplyMissing(r), UNCHANGED <<logvars, index, made>>
  PROVE  /\ Typed' /\ read'[r] = Idle /\ \A q \in Readers \ {r} : read'[q] = read[q]
         /\ \A b \in Browsers : page'[b] = IF b = r THEN NoPage(rotations) ELSE page[b]
<1>1. NoPage(rotations) \in Page /\ NoPage(rotations).file <= rotations
  BY NoPageType
<1>2. Reply(r, NoPage(rotations))
  BY DEF ReplyMissing
<1>3. /\ read' \in [Readers -> ReadState] /\ read'[r] = Idle
      /\ \A q \in Readers \ {r} : read'[q] = read[q]
      /\ page' \in [Browsers -> Page] /\ \A b \in Browsers : page'[b].file <= rotations
      /\ \A b \in Browsers : page'[b] = IF b = r THEN NoPage(rotations) ELSE page[b]
  BY <1>1, <1>2, Replies
<1>4. read'[r].pc = "idle"
  BY <1>3 DEF Idle
<1>5. Typed'
  BY <1>3, <1>4, ReaderFrame
<1>6. QED
  BY <1>3, <1>5

LEMMA StatTyped ==
  ASSUME Typed, NEW r \in Readers, NEW ask \in Asks(r), StatLog(r, ask)
  PROVE  /\ Typed' /\ UNCHANGED <<logvars, index, made>>
         /\ \A q \in Readers \ {r} : read'[q] = read[q]
         /\ read'[r].pc \in {"idle", "index"}
         /\ \/ read'[r].pc = "index" /\ page' = page
            \/ \A b \in Browsers : page'[b] = IF b = r THEN NoPage(rotations) ELSE page[b]
<1>1. UNCHANGED <<logvars, index, made>> /\ Home[r] \in Nodes
  BY Parts DEF StatLog
<1>2. CASE log[Home[r]] = NoFile
  <2>1. ReplyMissing(r)
    BY <1>2 DEF StatLog
  <2>2. QED
    BY <1>1, <2>1, MissingTyped DEF Idle
<1>3. CASE log[Home[r]] # NoFile
  <2> DEFINE F == Frags(Home[r])
  <2>1. ask \in Ask
    <3>1. ask \in {Newest} \/ (r \in Browsers /\ ask \in {PrevOf(page[r]), NextOf(page[r])})
      BY DEF Asks
    <3>2. r \in Browsers => page[r].start \in Nat /\ page[r].end \in Nat
      BY Parts DEF Page
    <3>3. QED
      BY <3>1, <3>2 DEF Ask, PrevOf, NextOf
  <2>2. log[Home[r]] \in LogFile /\ log[Home[r]].frags = F /\ Len(F) \in Nat
    BY <1>1, <1>3, Parts, FragsType DEF LogTypeOK, Frags
  <2>3. PICK s : /\ s = [pc |-> "index", ask |-> ask, size |-> Len(log[Home[r]].frags),
                         mtime |-> log[Home[r]].mtime, file |-> rotations]
                 /\ read' = [read EXCEPT ![r] = s] /\ page' = page
    BY <1>3 DEF StatLog
  <2>4. s \in AtIndex
    BY <2>1, <2>2, <2>3, Parts DEF AtIndex, LogFile
  <2>5. s \in ReadState
    BY <2>4, ReadStates
  <2>6. /\ read' \in [Readers -> ReadState] /\ read'[r] = s
        /\ \A q \in Readers \ {r} : read'[q] = read[q]
    BY <2>3, <2>5, Goes
  <2>7. s.pc = "index" /\ s.file = rotations /\ s.size = Len(F) /\ s.pc # "marks"
    BY <2>2, <2>3
  <2>8. page' \in [Browsers -> Page] /\ \A b \in Browsers : page'[b].file <= rotations
    BY <2>3 DEF Typed, TypeOK
  <2>9. s.file <= rotations /\ s.size <= Len(F)
    BY <2>2, <2>7, Parts
  <2>10. Typed'
    BY <1>1, <1>3, <2>6, <2>7, <2>8, <2>9, ReaderFrame
  <2>11. QED
    BY <1>1, <2>3, <2>6, <2>7, <2>10
<1>4. QED
  BY <1>2, <1>3

(* What a request holds that got the index.                                       *)
LEMMA HoldingType ==
  ASSUME Typed, NEW r \in Readers, read[r].pc \in {"index", "marks"},
         NEW offsets \in Seq(Nat), NEW mixed \in BOOLEAN
  PROVE  LET s == Holding(r, offsets, mixed)
         IN  /\ s \in ReadState /\ s.pc = "marks" /\ s.ask = read[r].ask
             /\ s.size = read[r].size /\ s.file = read[r].file
             /\ s.offsets = offsets /\ s.mixed = mixed /\ s.current
<1>1. read[r].ask \in Ask /\ read[r].size \in Nat /\ read[r].file \in 0 .. MaxRotations
  BY Parts, ReadFields DEF AtIndex, AtMarks
<1>2. Holding(r, offsets, mixed) \in AtMarks
  BY <1>1 DEF Holding, AtMarks
<1>3. QED
  BY <1>2, ReadStates DEF Holding

LEMMA UseTyped ==
  ASSUME Typed, NEW r \in Readers, UseIndex(r)
  PROVE  LET n == Home[r]
             mixed == made[n].mixed \/ made[n].file # read[r].file
         IN  /\ Typed' /\ UNCHANGED <<logvars, index, made, page>>
             /\ \A q \in Readers \ {r} : read'[q] = read[q]
             /\ index[n] # NoIndex /\ read[r].size = index[n].size /\ read[r].pc = "index"
             /\ read'[r] = Holding(r, index[n].offsets, mixed)
<1> DEFINE n == Home[r]
           mixed == made[n].mixed \/ made[n].file # read[r].file
<1>1. /\ read[r].pc = "index" /\ read[r].size = index[n].size
      /\ read' = [read EXCEPT ![r] = Holding(r, index[n].offsets, mixed)]
      /\ UNCHANGED <<logvars, index, made, page>>
  BY DEF UseIndex
<1>2. index[n] # NoIndex
  BY DEF UseIndex, Outdated
<1>3. index[n].offsets \in Seq(Nat) /\ index[n].offsets # <<>>
  BY <1>2, Parts DEF Index, Typed, IndexTyped
<1>4. mixed \in BOOLEAN
  BY Parts
<1> HIDE DEF mixed
<1>5. PICK s : s = Holding(r, index[n].offsets, mixed)
  OBVIOUS
<1>6. /\ s \in ReadState /\ s.pc = "marks" /\ s.size = read[r].size /\ s.file = read[r].file
      /\ s.offsets = index[n].offsets
  BY <1>1, <1>3, <1>4, <1>5, HoldingType
<1>7. read' \in [Readers -> ReadState] /\ read'[r] = s
      /\ \A q \in Readers \ {r} : read'[q] = read[q]
  BY <1>1, <1>5, <1>6, Goes
<1>8. page' \in [Browsers -> Page] /\ \A b \in Browsers : page'[b].file <= rotations
  BY <1>1 DEF Typed, TypeOK
<1>9. /\ read[r].file <= rotations
      /\ read[r].file = rotations => log[Home[r]] # NoFile /\ read[r].size <= Len(Frags(Home[r]))
  BY <1>1 DEF Typed, ReadTyped
<1>10. Typed'
  BY <1>1, <1>3, <1>6, <1>7, <1>8, <1>9, ReaderFrame
<1>11. QED
  BY <1>1, <1>2, <1>5, <1>7, <1>10 DEF mixed

(* The page that a request found: its lines lie between two offsets.              *)
LEMMA FindTyped ==
  ASSUME Typed, NEW r \in Readers, FindPage(r)
  PROVE  LET s == read[r]
             t == read'[r]
             b == PageBounds(s.ask, Len(s.offsets) - 1, PageSize)
         IN  /\ Typed' /\ UNCHANGED <<logvars, index, made, page>>
             /\ \A q \in Readers \ {r} : read'[q] = read[q]
             /\ s.pc = "marks" /\ t.pc = "lines"
             /\ t.ask = s.ask /\ t.size = s.size /\ t.file = s.file /\ t.mixed = s.mixed
             /\ t.bounds = b
             /\ t.from = s.offsets[b.start + 1] /\ t.to = s.offsets[b.end + 1]
<1> DEFINE s == read[r]
           b == PageBounds(s.ask, Len(s.offsets) - 1, PageSize)
<1>1. /\ s.pc = "marks" /\ UNCHANGED <<logvars, index, made, page>>
      /\ read' = [read EXCEPT ![r] =
             [pc |-> "lines", ask |-> s.ask, size |-> s.size, file |-> s.file, bounds |-> b,
              from |-> s.offsets[b.start + 1], to |-> s.offsets[b.end + 1], mixed |-> s.mixed]]
  BY DEF FindPage
<1>2. s \in AtMarks /\ s.offsets # <<>>
  BY <1>1, Parts, ReadFields DEF Typed, ReadTyped
<1>3. s.offsets \in Seq(Nat) /\ Len(s.offsets) \in Nat \ {0}
  BY <1>2, EmptySeq DEF AtMarks
<1>4. b \in [start : Nat, end : Nat] /\ b.start <= b.end /\ b.end <= Len(s.offsets) - 1
  <2>1. s.ask = Newest \/ s.ask \in [dir : {"prev", "next"}, cursor : Nat]
    BY <1>2 DEF AtMarks, Ask
  <2>2. Len(s.offsets) - 1 \in Nat /\ PageSize \in Nat
    BY <1>3, Parts
  <2>3. QED
    BY <2>1, <2>2, BoundsRange
<1> HIDE DEF b
<1>5. b.start + 1 \in 1 .. Len(s.offsets) /\ b.end + 1 \in 1 .. Len(s.offsets)
  BY <1>3, <1>4
<1>6. s.offsets[b.start + 1] \in Nat /\ s.offsets[b.end + 1] \in Nat
  BY <1>3, <1>5, ElementOfSeq
<1>7. PICK t : t = [pc |-> "lines", ask |-> s.ask, size |-> s.size, file |-> s.file, bounds |-> b,
                    from |-> s.offsets[b.start + 1], to |-> s.offsets[b.end + 1],
                    mixed |-> s.mixed]
  OBVIOUS
<1>8. t \in ReadState
  <2>1. t \in AtLines
    BY <1>2, <1>4, <1>6, <1>7 DEF AtMarks, AtLines
  <2>2. QED
    BY <2>1, ReadStates
<1>9. read' \in [Readers -> ReadState] /\ read'[r] = t
      /\ \A q \in Readers \ {r} : read'[q] = read[q]
  BY <1>1, <1>7, <1>8, Goes
<1>10. page' \in [Browsers -> Page] /\ \A c \in Browsers : page'[c].file <= rotations
  BY <1>1 DEF Typed, TypeOK
<1>11. /\ s.file <= rotations
       /\ s.file = rotations => log[Home[r]] # NoFile /\ s.size <= Len(Frags(Home[r]))
  BY <1>1 DEF Typed, ReadTyped
<1>12. /\ t.pc = "lines" /\ t.ask = s.ask /\ t.size = s.size /\ t.file = s.file
       /\ t.mixed = s.mixed /\ t.bounds = b
       /\ t.from = s.offsets[b.start + 1] /\ t.to = s.offsets[b.end + 1] /\ t.pc # "marks"
  BY <1>7
<1>13. Typed'
  BY <1>1, <1>9, <1>10, <1>11, <1>12, ReaderFrame
<1>14. QED
  BY <1>1, <1>9, <1>12, <1>13 DEF b

(* The answer to a request.                                                       *)
LEMMA PageOfType ==
  ASSUME NEW s \in AtLines, NEW shown \in SUBSET Event, NEW count \in Nat
  PROVE  LET p == PageOf(s, shown, count)
         IN  /\ p \in Page /\ p.file = s.file /\ p.mixed = s.mixed
             /\ p.from = s.from /\ p.to = s.to
             /\ p.whole <=> count = s.bounds.end - s.bounds.start
             /\ s.ask.dir = "prev" => p.start = s.bounds.start /\ p.end = s.bounds.start + count
             /\ s.ask.dir # "prev" =>
                  /\ p.start = IF count <= s.bounds.end THEN s.bounds.end - count ELSE 0
                  /\ p.end = s.bounds.end
<1>1. /\ s.bounds.start \in Nat /\ s.bounds.end \in Nat /\ s.from \in Nat /\ s.to \in Nat
      /\ s.file \in 0 .. MaxRotations /\ s.mixed \in BOOLEAN
  BY DEF AtLines
<1> DEFINE whole == count = s.bounds.end - s.bounds.start
           before == IF count <= s.bounds.end THEN s.bounds.end - count ELSE 0
<1>2. whole \in BOOLEAN /\ before \in Nat /\ s.bounds.start + count \in Nat
  BY <1>1
<1> HIDE DEF whole, before
<1>3. PICK start, end :
        /\ start = IF s.ask.dir = "prev" THEN s.bounds.start ELSE before
        /\ end = IF s.ask.dir = "prev" THEN s.bounds.start + count ELSE s.bounds.end
        /\ start \in Nat /\ end \in Nat
  BY <1>1, <1>2
<1>4. PICK p : p = [start |-> start, end |-> end, shown |-> shown, from |-> s.from, to |-> s.to,
                    file |-> s.file, mixed |-> s.mixed, whole |-> whole]
  OBVIOUS
<1>5. PageOf(s, shown, count) = p
  BY <1>3, <1>4 DEF PageOf, before, whole
<1>6. /\ p \in Page /\ p.file = s.file /\ p.mixed = s.mixed /\ p.from = s.from /\ p.to = s.to
      /\ p.whole = whole /\ p.start = start /\ p.end = end
  BY <1>1, <1>2, <1>3, <1>4 DEF Page
<1>7. QED
  BY <1>3, <1>5, <1>6 DEF before, whole

LEMMA AnswerTyped ==
  ASSUME Typed, NEW r \in Readers, read[r].pc = "lines",
         NEW shown \in SUBSET Event, NEW count \in Nat,
         Reply(r, PageOf(read[r], shown, count)), UNCHANGED <<logvars, index, made>>
  PROVE  /\ Typed' /\ read'[r] = Idle /\ \A q \in Readers \ {r} : read'[q] = read[q]
         /\ \A b \in Browsers :
              page'[b] = IF b = r THEN PageOf(read[r], shown, count) ELSE page[b]
<1> DEFINE p == PageOf(read[r], shown, count)
<1>1. read[r] \in AtLines /\ read[r].file <= rotations
  BY Parts, ReadFields DEF Typed, ReadTyped
<1>2. p \in Page /\ p.file <= rotations
  BY <1>1, PageOfType
<1> HIDE DEF p
<1>3. Reply(r, p)
  BY DEF p
<1>4. /\ read' \in [Readers -> ReadState] /\ read'[r] = Idle
      /\ \A q \in Readers \ {r} : read'[q] = read[q]
      /\ page' \in [Browsers -> Page] /\ \A b \in Browsers : page'[b].file <= rotations
      /\ \A b \in Browsers : page'[b] = IF b = r THEN p ELSE page[b]
  BY <1>2, <1>3, Replies
<1>5. read'[r].pc = "idle"
  BY <1>4 DEF Idle
<1>6. Typed'
  BY <1>4, <1>5, ReaderFrame
<1>7. QED
  BY <1>4, <1>6 DEF p

LEMMA NothingTyped ==
  ASSUME Typed, NEW r \in Readers, ReadNothing(r)
  PROVE  /\ Typed' /\ read'[r] = Idle /\ \A q \in Readers \ {r} : read'[q] = read[q]
         /\ \A b \in Browsers : page'[b] = IF b = r THEN PageOf(read[r], {}, 0) ELSE page[b]
<1>1. {} \in SUBSET Event /\ 0 \in Nat
  OBVIOUS
<1>2. read[r].pc = "lines" /\ Reply(r, PageOf(read[r], {}, 0)) /\ UNCHANGED <<logvars, index, made>>
  BY DEF ReadNothing
<1>3. QED
  BY <1>1, <1>2, AnswerTyped

(* The lines of a page that lies in the file.                                     *)
LEMMA LinesType ==
  ASSUME NEW F \in Seq(Fragment), NEW s \in AtLines, Fits(F, s)
  PROVE  /\ Lines(F, s) \in SUBSET Event /\ IsFiniteSet(Lines(F, s))
         /\ Cardinality(Lines(F, s)) \in Nat
<1>1. CASE s.from = s.to
  BY <1>1, FS_EmptySet DEF Lines
<1>2. CASE s.from # s.to
  <2> DEFINE P == SubSeq(F, 1, s.to)
  <2>1. s.to <= Len(F) /\ s.from \in Nat /\ s.to \in Nat /\ Len(F) \in Nat
    BY <1>2, LenProperties DEF Fits, AtLines
  <2>2. \A i \in 1 .. s.to : F[i] \in Fragment
    BY <2>1, ElementOfSeq
  <2>3. P \in Seq(Fragment)
    BY <2>1, <2>2, SubSeqProperties
  <2> HIDE DEF P
  <2>4. Lines(F, s) = ParsedEvents(P, s.from)
    BY <1>2 DEF Lines, P
  <2>5. \A i \in 1 .. Len(P) : P[i].event \in Event
    <3>1. \A i \in 1 .. Len(P) : P[i] \in Fragment
      BY <2>3, ElementOfSeq
    <3>2. QED
      BY <3>1 DEF Fragment
  <2>6. Len(P) \in Nat
    BY <2>3, LenProperties
  <2>7. ParsedEvents(P, s.from) \subseteq Event
    BY <2>1, <2>5, <2>6 DEF ParsedEvents
  <2>8. IsFiniteSet(ParsedEvents(P, s.from))
    BY <2>1, <2>3, ParsedFinite
  <2>9. QED
    BY <2>4, <2>7, <2>8, FS_CardinalityType
<1>3. QED
  BY <1>1, <1>2

LEMMA LinesTyped ==
  ASSUME Typed, NEW r \in Readers, ReadLines(r)
  PROVE  LET shown == Lines(Frags(Home[r]), read[r])
         IN  /\ Typed' /\ read'[r] = Idle /\ \A q \in Readers \ {r} : read'[q] = read[q]
             /\ IsFiniteSet(shown) /\ Cardinality(shown) \in Nat
             /\ read[r] \in AtLines /\ Fits(Frags(Home[r]), read[r])
             /\ \A b \in Browsers :
                  page'[b] = IF b = r THEN PageOf(read[r], shown, Cardinality(shown)) ELSE page[b]
<1> DEFINE F == Frags(Home[r])
           shown == Lines(F, read[r])
<1>1. /\ read[r].pc = "lines" /\ UNCHANGED <<logvars, index, made>> /\ Home[r] \in Nodes
      /\ read[r] \in AtLines
  BY Parts, ReadFields DEF ReadLines
<1>2. F = log[Home[r]].frags
  BY DEF ReadLines, Frags
<1>3. F \in Seq(Fragment)
  BY <1>1, Parts, FragsType
<1>4. Fits(F, read[r]) /\ Reply(r, PageOf(read[r], shown, Cardinality(shown)))
  BY <1>2 DEF ReadLines
<1> HIDE DEF F
<1>5. shown \in SUBSET Event /\ IsFiniteSet(shown) /\ Cardinality(shown) \in Nat
  BY <1>1, <1>3, <1>4, LinesType
<1> HIDE DEF shown
<1>6. /\ Typed' /\ read'[r] = Idle /\ \A q \in Readers \ {r} : read'[q] = read[q]
      /\ \A b \in Browsers :
           page'[b] = IF b = r THEN PageOf(read[r], shown, Cardinality(shown)) ELSE page[b]
  BY <1>1, <1>4, <1>5, AnswerTyped
<1>7. QED
  BY <1>1, <1>4, <1>5, <1>6 DEF shown, F

LEMMA FailsTyped ==
  ASSUME Typed, NEW r \in Readers, ReadFails(r)
  PROVE  /\ Typed' /\ UNCHANGED <<logvars, index, made, page>>
         /\ read'[r] = Idle /\ \A q \in Readers \ {r} : read'[q] = read[q]
<1>1. UNCHANGED <<logvars, index, made, page>> /\ read' = [read EXCEPT ![r] = Idle]
  BY DEF ReadFails
<1>2. /\ read' \in [Readers -> ReadState] /\ read'[r] = Idle
      /\ \A q \in Readers \ {r} : read'[q] = read[q]
  BY <1>1, ReadStates, Goes
<1>3. read'[r].pc = "idle"
  BY <1>2 DEF Idle
<1>4. page' \in [Browsers -> Page] /\ \A b \in Browsers : page'[b].file <= rotations
  BY <1>1 DEF Typed, TypeOK
<1>5. Typed'
  BY <1>1, <1>2, <1>3, <1>4, ReaderFrame
<1>6. QED
  BY <1>1, <1>2, <1>5

(* A step that builds or extends an index.                                        *)
LEMMA IndexFrame ==
  ASSUME Typed, NEW n \in Nodes, UNCHANGED <<logvars, page>>, log[n] # NoFile,
         index' \in [Nodes -> Index \cup {NoIndex}],
         made' \in [Nodes -> [file : 0..MaxRotations, mixed : BOOLEAN]],
         \A m \in Nodes \ {n} : index'[m] = index[m] /\ made'[m] = made[m],
         index'[n].offsets # <<>>, made'[n].file <= rotations,
         read' \in [Readers -> ReadState],
         \A q \in Readers : read'[q].pc # "idle" =>
           /\ read[q].pc # "idle" /\ read'[q].file = read[q].file /\ read'[q].size = read[q].size
           /\ read'[q].pc = "marks" => read'[q].offsets # <<>>
  PROVE  Typed'
<1>1. UNCHANGED <<log, writing, clock, emitted, splits, rotations, page>>
  BY DEF logvars
<1>2. TypeOK' /\ LogOrder'
  <2>1. LogTypeOK' /\ LogOrder'
    BY <1>1 DEF Typed, TypeOK, LogTypeOK, LogOrder, Frags
  <2>2. page' \in [Browsers -> Page]
    BY <1>1 DEF Typed, TypeOK
  <2>3. QED
    BY <2>1, <2>2 DEF TypeOK, Page, Index, ReadState, Ask
<1>3. ASSUME NEW m \in Nodes
      PROVE  IndexTyped(m)'
  <2>1. CASE m = n
    BY <1>1, <2>1 DEF IndexTyped
  <2>2. CASE m # n
    BY <1>1, <2>2 DEF IndexTyped, Typed
  <2>3. QED
    BY <2>1, <2>2
<1>4. ASSUME NEW q \in Readers
      PROVE  ReadTyped(q)'
  <2>1. Frags(Home[q])' = Frags(Home[q])
    BY <1>1 DEF Frags
  <2>2. ReadTyped(q)
    BY DEF Typed
  <2>3. QED
    BY <1>1, <2>1, <2>2 DEF ReadTyped
<1>5. \A b \in Browsers : page'[b].file <= rotations'
  BY <1>1 DEF Typed
<1>6. QED
  BY <1>2, <1>3, <1>4, <1>5 DEF Typed

LEMMA BuildTyped ==
  ASSUME Typed, NEW r \in Readers, BuildIndex(r)
  PROVE  LET n == Home[r]
             offsets == OffsetsOf(Frags(n), Len(Frags(n)))
         IN  /\ Typed' /\ UNCHANGED <<logvars, page>> /\ read[r].pc = "index"
             /\ \A m \in Nodes \ {n} : index'[m] = index[m] /\ made'[m] = made[m]
             /\ index'[n].offsets = offsets /\ index'[n].size = read[r].size
             /\ made'[n].file = read[r].file
             /\ read'[r] = Holding(r, offsets, read[r].file # rotations)
             /\ \A q \in Readers \ {r} :
                  \/ read'[q] = read[q]
                  \/ /\ read[q].pc = "marks" /\ read'[q].pc = "marks"
                     /\ read'[q].size = read[q].size /\ read'[q].file = read[q].file
                     /\ read'[q].ask = read[q].ask /\ read'[q].offsets = read[q].offsets
                     /\ read'[q].mixed = read[q].mixed
<1> DEFINE n == Home[r]
           F == Frags(n)
           offsets == OffsetsOf(F, Len(F))
           mixed == read[r].file # rotations
<1>1. /\ read[r].pc = "index" /\ log[n] # NoFile /\ UNCHANGED <<logvars, page>> /\ n \in Nodes
      /\ F = log[n].frags
  BY Parts DEF BuildIndex, Frags
<1>2. F \in Seq(Fragment) /\ Len(F) \in Nat
  BY <1>1, Parts, FragsType
<1>3. read[r].size \in Nat /\ read[r].mtime \in Stamp /\ read[r].file \in 0 .. MaxRotations
      /\ read[r].file <= rotations
  BY <1>1, Parts, ReadFields DEF AtIndex, Typed, ReadTyped
<1> HIDE DEF F
<1>4. offsets \in Seq(Nat) /\ offsets # <<>>
  <2>1. offsets \in Seq(Nat) /\ Len(offsets) = LineNo(F, Len(F)) + 1 /\ LineNo(F, Len(F)) \in Nat
    BY <1>2, Offsets
  <2> HIDE DEF offsets
  <2>2. QED
    BY <2>1, EmptySeq
<1>5. PICK new : new = [offsets |-> offsets, size |-> read[r].size, mtime |-> read[r].mtime]
  OBVIOUS
<1>6. Rebuilt(F, read[r].size, read[r].mtime) = new
  <2>1. Len(F) \in 0 .. Len(F)
    BY <1>2
  <2>2. <<0>> \o Marks(F, 0) = offsets
    BY <1>2, <2>1, MarksOfReading
  <2> HIDE DEF offsets
  <2>3. QED
    BY <1>5, <2>2 DEF Rebuilt
<1> HIDE DEF offsets
<1>7. new \in Index /\ new.offsets = offsets /\ new.size = read[r].size
  BY <1>3, <1>4, <1>5 DEF Index
<1>8. PICK kept : kept = [file |-> read[r].file, mixed |-> FALSE]
  OBVIOUS
<1>9. /\ kept \in [file : 0..MaxRotations, mixed : BOOLEAN]
      /\ kept.file = read[r].file /\ kept.mixed = FALSE
  BY <1>3, <1>8
<1>10. /\ index' = [index EXCEPT ![n] = new] /\ made' = [made EXCEPT ![n] = kept]
       /\ read' = [q \in Readers |->
                IF q = r THEN Holding(r, offsets, mixed)
                ELSE IF q \in HoldersOf(n) THEN [read[q] EXCEPT !.current = FALSE]
                ELSE read[q]]
  BY <1>1, <1>6, <1>7, <1>8 DEF BuildIndex
<1>11. /\ index' \in [Nodes -> Index \cup {NoIndex}] /\ index'[n] = new
       /\ made' \in [Nodes -> [file : 0..MaxRotations, mixed : BOOLEAN]] /\ made'[n] = kept
       /\ \A m \in Nodes \ {n} : index'[m] = index[m] /\ made'[m] = made[m]
  BY <1>1, <1>7, <1>9, <1>10 DEF Typed, TypeOK
<1>12. mixed \in BOOLEAN
  OBVIOUS
<1> HIDE DEF mixed
<1>13. PICK held : held = Holding(r, offsets, mixed)
  OBVIOUS
<1>14. /\ held \in ReadState /\ held.pc = "marks" /\ held.size = read[r].size
       /\ held.file = read[r].file /\ held.offsets = offsets
  BY <1>1, <1>4, <1>12, <1>13, HoldingType
<1>15. ASSUME NEW q \in Readers \ {r}
       PROVE  /\ read'[q] \in ReadState
              /\ \/ read'[q] = read[q]
                 \/ /\ read[q].pc = "marks" /\ read'[q].pc = "marks"
                    /\ read'[q].size = read[q].size /\ read'[q].file = read[q].file
                    /\ read'[q].ask = read[q].ask /\ read'[q].offsets = read[q].offsets
                    /\ read'[q].mixed = read[q].mixed
  <2>1. CASE q \in HoldersOf(n)
    <3>1. read[q] \in AtMarks /\ read[q].pc = "marks"
      BY <2>1, Parts, ReadFields DEF HoldersOf
    <3>2. read'[q] = [read[q] EXCEPT !.current = FALSE]
      BY <1>10, <2>1
    <3>3. /\ read'[q] \in AtMarks /\ read'[q].pc = "marks"
          /\ read'[q].size = read[q].size /\ read'[q].file = read[q].file
          /\ read'[q].ask = read[q].ask /\ read'[q].offsets = read[q].offsets
          /\ read'[q].mixed = read[q].mixed
      BY <3>1, <3>2 DEF AtMarks
    <3>4. QED
      BY <3>1, <3>3, ReadStates
  <2>2. CASE q \notin HoldersOf(n)
    BY <1>10, <2>2, Parts
  <2>3. QED
    BY <2>1, <2>2
<1>16. read'[r] = held
  BY <1>10, <1>13
<1>17. read' \in [Readers -> ReadState]
  BY <1>10, <1>14, <1>15, <1>16
<1>18. ASSUME NEW q \in Readers, read'[q].pc # "idle"
       PROVE  /\ read[q].pc # "idle" /\ read'[q].file = read[q].file /\ read'[q].size = read[q].size
              /\ read'[q].pc = "marks" => read'[q].offsets # <<>>
  <2>1. CASE q = r
    BY <1>1, <1>4, <1>14, <1>16, <2>1
  <2>2. CASE q # r
    BY <1>15, <1>18, <2>2 DEF Typed, ReadTyped
  <2>3. QED
    BY <2>1, <2>2
<1>19. Typed'
  BY <1>1, <1>3, <1>4, <1>7, <1>9, <1>11, <1>17, <1>18, IndexFrame
<1>20. QED
  BY <1>1, <1>7, <1>9, <1>11, <1>13, <1>15, <1>16, <1>19 DEF offsets, F, mixed

LEMMA ExtendTyped ==
  ASSUME Typed, NEW r \in Readers, ExtendIndex(r)
  PROVE  LET n == Home[r]
             F == Frags(n)
             new == index[n].offsets \o Marks(F, index[n].size)
             mixed == made[n].mixed \/ Mixes(index[n], F) \/ {read[r].file, rotations} # {made[n].file}
         IN  /\ Typed' /\ UNCHANGED <<logvars, page>> /\ read[r].pc = "index"
             /\ index[n] # NoIndex /\ read[r].size > index[n].size
             /\ \A m \in Nodes \ {n} : index'[m] = index[m] /\ made'[m] = made[m]
             /\ index'[n].offsets = new /\ index'[n].size = read[r].size
             /\ made'[n].file = made[n].file /\ made'[n].mixed = mixed
             /\ read'[r] = Holding(r, new, mixed)
             /\ \A q \in Readers \ {r} :
                  \/ read'[q] = read[q]
                  \/ /\ Home[q] = n /\ read[q].pc = "marks" /\ read'[q].pc = "marks"
                     /\ read'[q].size = read[q].size /\ read'[q].file = read[q].file
                     /\ read'[q].ask = read[q].ask
                     /\ ~read'[q].mixed => /\ ~read[q].mixed /\ ~mixed
                                           /\ read'[q].offsets = new
<1> DEFINE n == Home[r]
           F == Frags(n)
           old == index[n].offsets
           new == old \o Marks(F, index[n].size)
           mixed == made[n].mixed \/ Mixes(index[n], F) \/ {read[r].file, rotations} # {made[n].file}
<1>1. /\ read[r].pc = "index" /\ log[n] # NoFile /\ UNCHANGED <<logvars, page>> /\ n \in Nodes
      /\ F = log[n].frags /\ read[r].size > index[n].size
  BY Parts DEF ExtendIndex, Frags
<1>2. index[n] # NoIndex
  BY DEF ExtendIndex, Outdated
<1>3. F \in Seq(Fragment) /\ Len(F) \in Nat
  BY <1>1, Parts, FragsType
<1>4. read[r].size \in Nat /\ read[r].mtime \in Stamp /\ read[r].file \in 0 .. MaxRotations
  BY <1>1, Parts, ReadFields DEF AtIndex
<1>5. index[n] \in Index /\ old \in Seq(Nat) /\ Len(old) \in Nat /\ index[n].size \in Nat
      /\ old # <<>>
  BY <1>1, <1>2, Parts, LenProperties DEF Index, Typed, IndexTyped
<1>6. new \in Seq(Nat) /\ new # <<>>
  <2>1. Marks(F, index[n].size) \in Seq(Nat)
    BY <1>3, <1>5, MarksType
  <2>2. new \in Seq(Nat)
    BY <1>5, <2>1, ConcatProperties
  <2>3. new # <<>>
    BY <1>5, <2>1, ConcatEqualIffEmpty
  <2>4. QED
    BY <2>2, <2>3
<1>7. PICK ix : ix = [offsets |-> new, size |-> read[r].size, mtime |-> read[r].mtime]
  OBVIOUS
<1>8. Extended(index[n], F, read[r].size, read[r].mtime) = ix
  BY <1>7 DEF Extended
<1>9. mixed \in BOOLEAN
  BY <1>1, Parts DEF Mixes
<1> HIDE DEF new, mixed, F
<1>10. ix \in Index /\ ix.offsets = new /\ ix.size = read[r].size
  BY <1>4, <1>6, <1>7 DEF Index
<1>11. PICK seen \in [HoldersOf(n) -> {new} \cup Torn(old, new)] :
         read' = [q \in Readers |->
           IF q = r THEN Holding(r, new, mixed)
           ELSE IF q \in HoldersOf(n)
                  THEN Holding(q, seen[q], read[q].mixed \/ mixed \/ seen[q] # new)
           ELSE read[q]]
  <2> DEFINE e == Extended(index[n], log[n].frags, read[r].size, read[r].mtime)
             m == made[n].mixed \/ Mixes(index[n], log[n].frags)
                  \/ {read[r].file, rotations} # {made[n].file}
  <2>1. \E seen \in [HoldersOf(n) -> {e.offsets} \cup Torn(old, e.offsets)] :
          read' = [q \in Readers |->
            IF q = r THEN Holding(r, e.offsets, m)
            ELSE IF q \in HoldersOf(n)
                   THEN Holding(q, seen[q], read[q].mixed \/ m \/ seen[q] # e.offsets)
            ELSE read[q]]
    BY Zenon DEF ExtendIndex
  <2>2. e.offsets = new /\ m = mixed
    BY <1>1, <1>8, <1>10 DEF mixed
  <2> HIDE DEF e, m
  <2>3. QED
    BY <2>1, <2>2
<1>12. index' = [index EXCEPT ![n] = ix] /\ made' = [made EXCEPT ![n].mixed = mixed]
  BY <1>1, <1>8 DEF ExtendIndex, mixed
<1>13. /\ index' \in [Nodes -> Index \cup {NoIndex}] /\ index'[n] = ix
       /\ \A m \in Nodes \ {n} : index'[m] = index[m]
  BY <1>1, <1>10, <1>12 DEF Typed, TypeOK
<1>14. /\ made' \in [Nodes -> [file : 0..MaxRotations, mixed : BOOLEAN]]
       /\ made'[n].file = made[n].file /\ made'[n].mixed = mixed
       /\ \A m \in Nodes \ {n} : made'[m] = made[m]
  BY <1>1, <1>9, <1>12 DEF Typed, TypeOK
<1>15. PICK held : held = Holding(r, new, mixed)
  OBVIOUS
<1>16. /\ held \in ReadState /\ held.pc = "marks" /\ held.size = read[r].size
       /\ held.file = read[r].file /\ held.offsets = new
  BY <1>1, <1>6, <1>9, <1>15, HoldingType
<1>17. ASSUME NEW q \in Readers \ {r}
       PROVE  /\ read'[q] \in ReadState
              /\ \/ read'[q] = read[q]
                 \/ /\ Home[q] = n /\ read[q].pc = "marks" /\ read'[q].pc = "marks"
                    /\ read'[q].size = read[q].size /\ read'[q].file = read[q].file
                    /\ read'[q].ask = read[q].ask /\ read'[q].offsets # <<>>
                    /\ ~read'[q].mixed => /\ ~read[q].mixed /\ ~mixed
                                          /\ read'[q].offsets = new
  <2>1. CASE q \in HoldersOf(n)
    <3>1. Home[q] = n /\ read[q].pc = "marks" /\ read[q] \in AtMarks
      BY <2>1, Parts, ReadFields DEF HoldersOf
    <3>2. seen[q] \in Seq(Nat) /\ seen[q] # <<>>
      <4>1. seen[q] = new \/ seen[q] \in Torn(old, new)
        BY <1>11, <2>1
      <4>2. QED
        BY <1>5, <1>6, <4>1, TornType
    <3> DEFINE torn == read[q].mixed \/ mixed \/ seen[q] # new
    <3>3. torn \in BOOLEAN
      BY <1>9, <3>1 DEF AtMarks
    <3>4. read'[q] = Holding(q, seen[q], torn)
      BY <1>11, <2>1
    <3>5. read[q].mixed \in BOOLEAN
      BY <3>1 DEF AtMarks
    <3>6. ~torn => ~read[q].mixed /\ ~mixed /\ seen[q] = new
      BY <1>9, <3>5
    <3> HIDE DEF torn
    <3>7. PICK t : t = Holding(q, seen[q], torn)
      OBVIOUS
    <3>8. /\ t \in ReadState /\ t.pc = "marks" /\ t.size = read[q].size /\ t.file = read[q].file
          /\ t.ask = read[q].ask /\ t.offsets = seen[q] /\ t.mixed = torn
      BY <3>1, <3>2, <3>3, <3>7, HoldingType
    <3>9. read'[q] = t
      BY <3>4, <3>7
    <3>10. QED
      BY <3>1, <3>2, <3>6, <3>8, <3>9
  <2>2. CASE q \notin HoldersOf(n)
    BY <1>11, <2>2, Parts
  <2>3. QED
    BY <2>1, <2>2
<1>18. read'[r] = held
  BY <1>11, <1>15
<1>19. read' \in [Readers -> ReadState]
  BY <1>11, <1>16, <1>17, <1>18
<1>20. ASSUME NEW q \in Readers, read'[q].pc # "idle"
       PROVE  /\ read[q].pc # "idle" /\ read'[q].file = read[q].file /\ read'[q].size = read[q].size
              /\ read'[q].pc = "marks" => read'[q].offsets # <<>>
  <2>1. CASE q = r
    BY <1>1, <1>6, <1>16, <1>18, <2>1
  <2>2. CASE q # r
    BY <1>17, <1>20, <2>2 DEF Typed, ReadTyped
  <2>3. QED
    BY <2>1, <2>2
<1>21. made'[n].file <= rotations
  BY <1>1, <1>14 DEF Typed, IndexTyped
<1>22. Typed'
  BY <1>1, <1>6, <1>10, <1>13, <1>14, <1>19, <1>20, <1>21, IndexFrame
<1>23. QED
  BY <1>1, <1>2, <1>10, <1>13, <1>14, <1>15, <1>17, <1>18, <1>22 DEF new, mixed, F

LEMMA InitTyped == Init => Typed
<1> SUFFICES ASSUME Init PROVE Typed
  OBVIOUS
<1>1. LogInit /\ index = [n \in Nodes |-> NoIndex] /\ read = [r \in Readers |-> Idle]
      /\ page = [r \in Browsers |-> NoPage(0)]
      /\ made = [n \in Nodes |-> [file |-> 0, mixed |-> FALSE]]
  BY DEF Init
<1>2. LogTypeOK /\ LogOrder /\ rotations = 0 /\ 0 \in 0 .. MaxRotations
  BY <1>1, LogInitially, BoundsAssumption DEF LogInit
<1>3. NoPage(0) \in Page /\ NoPage(0).file = 0
  BY <1>2 DEF NoPage, Page
<1>4. Idle \in ReadState /\ Idle.pc = "idle"
  BY ReadStates DEF Idle
<1>5. \A n \in Nodes : made[n].file = 0 /\ index[n] = NoIndex
  BY <1>1
<1>6. made \in [Nodes -> [file : 0..MaxRotations, mixed : BOOLEAN]]
  BY <1>1, <1>2
<1>7. TypeOK
  BY <1>1, <1>2, <1>3, <1>4, <1>6 DEF TypeOK
<1>8. ASSUME NEW n \in Nodes
      PROVE  IndexTyped(n)
  <2>1. index[n] = NoIndex /\ made[n].file = 0 /\ 0 <= 0
    BY <1>5
  <2>2. made[n].file <= rotations
    BY <1>2, <2>1
  <2>3. QED
    BY <2>1, <2>2 DEF IndexTyped
<1>9. \A r \in Readers : ReadTyped(r)
  BY <1>1, <1>4 DEF ReadTyped
<1>10. \A b \in Browsers : page[b].file <= rotations
  BY <1>1, <1>2, <1>3
<1>11. QED
  BY <1>2, <1>7, <1>8, <1>9, <1>10 DEF Typed

LEMMA StutterTyped ==
  ASSUME Typed, UNCHANGED vars
  PROVE  Typed'
<1>1. UNCHANGED <<logvars, index, read, page, made>>
  BY DEF vars, logvars
<1>2. UNCHANGED <<log, writing, clock, emitted, splits, rotations>>
  BY <1>1 DEF logvars
<1>3. TypeOK' /\ LogOrder'
  <2>1. LogTypeOK' /\ LogOrder'
    BY <1>2 DEF Typed, TypeOK, LogTypeOK, LogOrder, Frags
  <2>2. QED
    BY <1>1, <2>1 DEF Typed, TypeOK, Index, ReadState, Ask, Page
<1>4. \A n \in Nodes : IndexTyped(n)'
  BY <1>1, <1>2 DEF Typed, IndexTyped
<1>5. \A r \in Readers : ReadTyped(r)'
  BY <1>1, <1>2 DEF Typed, ReadTyped, Frags
<1>6. QED
  BY <1>1, <1>2, <1>3, <1>4, <1>5 DEF Typed

LEMMA StepTyped == Typed /\ [Next]_vars => Typed'
<1> SUFFICES ASSUME Typed, [Next]_vars PROVE Typed'
  OBVIOUS
<1>1. CASE LogChanges
  BY <1>1, LogTyped
<1>2. ASSUME NEW r \in Readers, NEW ask \in Asks(r), StatLog(r, ask)
      PROVE  Typed'
  BY <1>2, StatTyped
<1>3. ASSUME NEW r \in Readers, UseIndex(r)
      PROVE  Typed'
  BY <1>3, UseTyped
<1>4. ASSUME NEW r \in Readers, BuildIndex(r)
      PROVE  Typed'
  BY <1>4, BuildTyped
<1>5. ASSUME NEW r \in Readers, ExtendIndex(r)
      PROVE  Typed'
  BY <1>5, ExtendTyped
<1>6. ASSUME NEW r \in Readers, IndexMissing(r) \/ ReadMissing(r)
      PROVE  Typed'
  BY <1>6, MissingTyped DEF IndexMissing, ReadMissing
<1>7. ASSUME NEW r \in Readers, FindPage(r)
      PROVE  Typed'
  BY <1>7, FindTyped
<1>8. ASSUME NEW r \in Readers, ReadNothing(r)
      PROVE  Typed'
  BY <1>8, NothingTyped
<1>9. ASSUME NEW r \in Readers, ReadLines(r)
      PROVE  Typed'
  BY <1>9, LinesTyped
<1>10. ASSUME NEW r \in Readers, ReadFails(r)
       PROVE  Typed'
  BY <1>10, FailsTyped
<1>11. CASE UNCHANGED vars
  BY <1>11, StutterTyped
<1>12. QED
  BY <1>1, <1>2, <1>3, <1>4, <1>5, <1>6, <1>7, <1>8, <1>9, <1>10, <1>11 DEF Next, ReadStep

LEMMA AlwaysTyped == Spec => []Typed
<1>1. Init => Typed
  BY InitTyped
<1>2. Typed /\ [Next]_vars => Typed'
  BY StepTyped
<1>3. QED
  BY <1>1, <1>2, PTL DEF Spec

(* Every request, index and page keeps its type: an offset handed to a read is a   *)
(* number of a byte, also when the index grows while it is looked up, and the      *)
(* bounds of a page never fall below 0.                                            *)
THEOREM TypeCorrect == Spec => []TypeOK
<1>1. Typed => TypeOK
  BY DEF Typed
<1>2. QED
  BY <1>1, AlwaysTyped, PTL

-------------------------------------------------------------------------------
(* The inductive invariant.  An index that was built from the log of now and is    *)
(* not mixed marks the lines of the log up to some byte, and so does what a        *)
(* request holds of it; the lines of a request, and the page that a browser shows, *)
(* lie between such marks.  An index never falls behind what was read with it.     *)

Last(offsets) == offsets[Len(offsets)]
Covers(F, offsets) == Last(offsets) \in 0 .. Len(F) /\ offsets = OffsetsOf(F, Last(offsets))

Indexed(n) == index[n] # NoIndex /\ made[n].file = rotations /\ ~made[n].mixed
Sound(r) == read[r].file = rotations /\ ~read[r].mixed
Shown(b) == page[b].file = rotations /\ ~page[b].mixed

IndexGood(n) ==
    Indexed(n) =>
      Covers(Frags(n), index[n].offsets) /\ index[n].size <= Last(index[n].offsets)

\* The index of the node marks all that lies before x; the page lies before x.
Ahead(n, x) == Indexed(n) => x <= Last(index[n].offsets)
PageBefore(r, x) == r \in Browsers /\ Shown(r) => page[r].to <= x

MarksGood(r) ==
    read[r].pc = "marks" /\ Sound(r) =>
      /\ Covers(Frags(Home[r]), read[r].offsets)
      /\ read[r].size <= Last(read[r].offsets)
      /\ Ahead(Home[r], Last(read[r].offsets))
      /\ PageBefore(r, Last(read[r].offsets))

\* The lines lie in the log up to end, of which they are a page.
Located(F, s, end) ==
    /\ s.bounds = PageBounds(s.ask, LineNo(F, end), PageSize)
    /\ s.from <= s.to /\ s.to <= end
    /\ LineNo(F, s.from) = s.bounds.start /\ LineNo(F, s.to) = s.bounds.end
    /\ AtLineEnd(F, s.from) \/ s.from = end
    /\ AtLineEnd(F, s.to) \/ s.to = end
    /\ s.ask = Newest => s.to = end

LinesGood(r) ==
    read[r].pc = "lines" /\ Sound(r) =>
      \E end \in 0 .. Len(Frags(Home[r])) :
        /\ Located(Frags(Home[r]), read[r], end)
        /\ read[r].size <= end
        /\ Ahead(Home[r], end)
        /\ PageBefore(r, end)

\* The page lies between two marks, of which its bounds may fall short.
PageAt(F, p) ==
    /\ p.from <= p.to /\ p.to <= Len(F)
    /\ LineNo(F, p.from) <= p.start /\ p.end <= LineNo(F, p.to)
    /\ p.whole => p.start = LineNo(F, p.from) /\ p.end = LineNo(F, p.to)

PageGood(b) ==
    Shown(b) => PageAt(Frags(Home[b]), page[b]) /\ Ahead(Home[b], page[b].to)

Good ==
    /\ \A n \in Nodes : IndexGood(n)
    /\ \A r \in Readers : MarksGood(r) /\ LinesGood(r)
    /\ \A b \in Browsers : PageGood(b)

-------------------------------------------------------------------------------
(* What a step keeps.  LogGoesOn: the log was rotated, or has grown at most.       *)

LogGoesOn ==
    \/ rotations' = rotations + 1
    \/ rotations' = rotations /\ \A n \in Nodes : Grows(n)

\* The index is as it was, or marks the whole log.
IndexGoesOn(n) ==
    Indexed(n)' =>
      /\ Grows(n)
      /\ \/ Indexed(n) /\ index'[n] = index[n]
         \/ /\ index'[n].offsets = OffsetsOf(Frags(n), Len(Frags(n)))
            /\ index'[n].size <= Len(Frags(n))

ReadGoesOn(q) ==
    /\ q \in Browsers => page'[q] = page[q]
    /\ \/ read'[q] = read[q]
       \/ /\ read[q].pc = "marks" /\ read'[q].pc = "marks"
          /\ read'[q].size = read[q].size /\ read'[q].file = read[q].file
          /\ read'[q].ask = read[q].ask /\ read'[q].offsets = read[q].offsets
          /\ read'[q].mixed = read[q].mixed

LEMMA LastOffset ==
  ASSUME NEW F, NEW at \in Nat
  PROVE  Last(OffsetsOf(F, at)) = at
  BY Offsets DEF Last

LEMMA CoversAll ==
  ASSUME NEW F, Len(F) \in Nat
  PROVE  Covers(F, OffsetsOf(F, Len(F))) /\ Last(OffsetsOf(F, Len(F))) = Len(F)
  BY LastOffset DEF Covers

LEMMA CoversGrown ==
  ASSUME NEW F, NEW G, Len(F) \in Nat, Len(G) \in Nat, Len(F) <= Len(G),
         \A i \in 1 .. Len(F) : G[i] = F[i], NEW offsets, Covers(F, offsets)
  PROVE  Covers(G, offsets)
<1>1. Last(offsets) \in Nat /\ Last(offsets) \in 0 .. Len(G)
      /\ \A i \in 1 .. Last(offsets) : G[i] = F[i]
  BY DEF Covers
<1>2. OffsetsOf(G, Last(offsets)) = OffsetsOf(F, Last(offsets))
  BY <1>1, GrownLines
<1>3. QED
  BY <1>1, <1>2 DEF Covers

LEMMA GrowsFacts ==
  ASSUME Typed, Typed', NEW n \in Nodes, Grows(n)
  PROVE  /\ Len(Frags(n)) \in Nat /\ Len(Frags(n)') \in Nat /\ Len(Frags(n)) <= Len(Frags(n)')
         /\ \A i \in 1 .. Len(Frags(n)) : Frags(n)'[i] = Frags(n)[i]
<1>1. LogTypeOK /\ LogTypeOK'
  BY DEF Typed, TypeOK
<1>2. Frags(n)' \in Seq(Fragment) /\ Len(Frags(n)) \in Nat
  BY <1>1, FragsType, EmptySeq DEF LogTypeOK, Frags, LogFile
<1>3. QED
  BY <1>2, LenProperties DEF Grows

LEMMA IndexKept ==
  ASSUME Typed, Typed', NEW n \in Nodes, IndexGood(n), IndexGoesOn(n)
  PROVE  IndexGood(n)'
<1> SUFFICES ASSUME Indexed(n)'
             PROVE  /\ Covers(Frags(n)', index'[n].offsets)
                    /\ index'[n].size <= Last(index'[n].offsets)
  BY DEF IndexGood
<1>1. /\ Len(Frags(n)) \in Nat /\ Len(Frags(n)') \in Nat /\ Len(Frags(n)) <= Len(Frags(n)')
      /\ \A i \in 1 .. Len(Frags(n)) : Frags(n)'[i] = Frags(n)[i]
  BY GrowsFacts DEF IndexGoesOn
<1>2. Covers(Frags(n), index'[n].offsets) /\ index'[n].size <= Last(index'[n].offsets)
  BY <1>1, CoversAll DEF IndexGood, IndexGoesOn
<1>3. QED
  BY <1>1, <1>2, CoversGrown

LEMMA AheadKept ==
  ASSUME Typed, NEW n \in Nodes, IndexGoesOn(n), NEW x \in Nat, x <= Len(Frags(n)), Ahead(n, x)
  PROVE  Ahead(n, x)'
<1>1. Len(Frags(n)) \in Nat
  BY Parts, FragsType
<1>2. Last(OffsetsOf(Frags(n), Len(Frags(n)))) = Len(Frags(n))
  BY <1>1, LastOffset
<1>3. QED
  BY <1>2 DEF Ahead, IndexGoesOn

LEMMA ReadKept ==
  ASSUME Typed, Typed', LogGoesOn, NEW q \in Readers, IndexGoesOn(Home[q]), ReadGoesOn(q),
         MarksGood(q), LinesGood(q)
  PROVE  MarksGood(q)' /\ LinesGood(q)'
<1> DEFINE n == Home[q]
           F == Frags(n)
           s == read[q]
<1>1. n \in Nodes /\ s \in ReadState /\ rotations \in Nat
  BY Parts
<1>2. ASSUME read'[q].pc \in {"marks", "lines"}, Sound(q)'
      PROVE  /\ s.pc = read'[q].pc /\ Sound(q) /\ rotations' = rotations /\ Grows(n)
             /\ \A x : PageBefore(q, x) => PageBefore(q, x)'
             /\ s.size = read'[q].size
  <2>1. /\ s.pc = read'[q].pc /\ s.file = read'[q].file /\ s.mixed = read'[q].mixed
        /\ s.size = read'[q].size
    BY DEF ReadGoesOn
  <2>2. s.file \in Nat /\ s.file <= rotations
    BY <1>1, <1>2, <2>1, ReadFields, BoundsAssumption DEF AtMarks, AtLines, Typed, ReadTyped
  <2>3. rotations' = rotations
    BY <1>1, <1>2, <2>1, <2>2 DEF LogGoesOn, Sound
  <2>4. Grows(n)
    BY <1>1, <2>3 DEF LogGoesOn
  <2>5. \A x : PageBefore(q, x) => PageBefore(q, x)'
    BY <2>3 DEF PageBefore, Shown, ReadGoesOn
  <2>6. QED
    BY <1>2, <2>1, <2>3, <2>4, <2>5 DEF Sound
<1>3. ASSUME read'[q].pc = "marks", Sound(q)'
      PROVE  /\ Covers(Frags(n)', read'[q].offsets) /\ read'[q].size <= Last(read'[q].offsets)
             /\ Ahead(n, Last(read[q].offsets))' /\ PageBefore(q, Last(read[q].offsets))'
  <2>1. /\ s.pc = "marks" /\ Sound(q) /\ Grows(n) /\ s.size = read'[q].size
        /\ \A x : PageBefore(q, x) => PageBefore(q, x)'
    BY <1>2, <1>3
  <2>2. read'[q].offsets = s.offsets
    BY <1>3, <2>1 DEF ReadGoesOn
  <2>3. PICK last : last = Last(s.offsets)
    OBVIOUS
  <2>4. /\ Covers(F, s.offsets) /\ s.size <= last /\ Ahead(n, last) /\ PageBefore(q, last)
    BY <2>1, <2>3 DEF MarksGood
  <2>5. last \in Nat /\ last <= Len(F)
    BY <2>3, <2>4, <1>1, Parts, FragsType DEF Covers
  <2>6. Ahead(n, last)' /\ PageBefore(q, last)'
    BY <1>1, <2>1, <2>4, <2>5, AheadKept
  <2>7. Covers(Frags(n)', s.offsets)
    BY <1>1, <2>1, <2>4, GrowsFacts, CoversGrown
  <2>8. Last(read'[q].offsets) = last
    BY <2>2, <2>3
  <2>9. Ahead(n, Last(read[q].offsets))' /\ PageBefore(q, Last(read[q].offsets))'
    BY <2>6, <2>8 DEF Ahead, PageBefore
  <2>10. QED
    BY <2>1, <2>2, <2>3, <2>4, <2>7, <2>9
<1>4. ASSUME read'[q].pc = "lines", Sound(q)'
      PROVE  \E end \in 0 .. Len(Frags(n)') :
               /\ Located(Frags(n)', read'[q], end) /\ read'[q].size <= end
               /\ Ahead(n, end)' /\ PageBefore(q, end)'
  <2>1. /\ s.pc = "lines" /\ Sound(q) /\ Grows(n)
        /\ \A x : PageBefore(q, x) => PageBefore(q, x)'
    BY <1>2, <1>4
  <2>2. read'[q] = s
    BY <1>4 DEF ReadGoesOn
  <2>3. PICK end \in 0 .. Len(F) :
          Located(F, s, end) /\ s.size <= end /\ Ahead(n, end) /\ PageBefore(q, end)
    BY <2>1 DEF LinesGood
  <2>4. PICK G : G = Frags(n)'
    OBVIOUS
  <2>5. /\ Len(F) \in Nat /\ Len(G) \in Nat /\ Len(F) <= Len(G)
        /\ \A i \in 1 .. Len(F) : G[i] = F[i]
    BY <1>1, <2>1, <2>4, GrowsFacts
  <2>6. end \in Nat /\ end <= Len(F) /\ end \in 0 .. Len(G) /\ \A i \in 1 .. end : G[i] = F[i]
    BY <2>5
  <2>7. s.from \in Nat /\ s.to \in Nat
    BY <1>1, <2>1, ReadFields DEF AtLines
  <2>8. Located(G, s, end)
    <3>1. s.from \in 0 .. end /\ s.to \in 0 .. end
      BY <2>3, <2>6, <2>7 DEF Located
    <3>2. LineNo(G, end) = LineNo(F, end)
          /\ LineNo(G, s.from) = LineNo(F, s.from) /\ LineNo(G, s.to) = LineNo(F, s.to)
      BY <2>6, <3>1, GrownLines
    <3>3. AtLineEnd(G, s.from) <=> AtLineEnd(F, s.from)
      BY <2>6, <3>1 DEF AtLineEnd
    <3>4. AtLineEnd(G, s.to) <=> AtLineEnd(F, s.to)
      BY <2>6, <3>1 DEF AtLineEnd
    <3>5. QED
      BY <2>3, <3>2, <3>3, <3>4 DEF Located
  <2>9. Ahead(n, end)' /\ PageBefore(q, end)'
    BY <1>1, <2>1, <2>3, <2>6, AheadKept
  <2>10. QED
    BY <2>2, <2>3, <2>4, <2>6, <2>8, <2>9
<1>5. QED
  BY <1>3, <1>4 DEF MarksGood, LinesGood

LEMMA PageKept ==
  ASSUME Typed, Typed', LogGoesOn, NEW b \in Browsers, IndexGoesOn(Home[b]),
         page'[b] = page[b], PageGood(b)
  PROVE  PageGood(b)'
<1> SUFFICES ASSUME Shown(b)'
             PROVE  PageAt(Frags(Home[b])', page[b]) /\ Ahead(Home[b], page[b].to)'
  BY DEF PageGood
<1> DEFINE n == Home[b]
           F == Frags(n)
           p == page[b]
<1>1. n \in Nodes /\ p \in Page /\ p.file <= rotations /\ rotations \in Nat
  BY Parts DEF Typed
<1>2. p.file \in Nat /\ p.from \in Nat /\ p.to \in Nat
  BY <1>1, BoundsAssumption DEF Page
<1>3. p.file = rotations' /\ ~p.mixed
  BY DEF Shown
<1>4. rotations' = rotations
  BY <1>1, <1>2, <1>3 DEF LogGoesOn
<1>5. Shown(b) /\ Grows(n)
  BY <1>1, <1>2, <1>3, <1>4 DEF LogGoesOn, Shown
<1>6. PageAt(F, p) /\ Ahead(n, p.to)
  BY <1>5 DEF PageGood
<1>7. PICK G : G = Frags(n)'
  OBVIOUS
<1>8. /\ Len(F) \in Nat /\ Len(G) \in Nat /\ Len(F) <= Len(G)
      /\ \A i \in 1 .. Len(F) : G[i] = F[i]
  BY <1>1, <1>5, <1>7, GrowsFacts
<1>9. p.from \in 0 .. Len(F) /\ p.to \in 0 .. Len(F)
  BY <1>2, <1>6, <1>8 DEF PageAt
<1>10. LineNo(G, p.from) = LineNo(F, p.from) /\ LineNo(G, p.to) = LineNo(F, p.to)
  BY <1>8, <1>9, GrownLines
<1>11. PageAt(G, p)
  BY <1>6, <1>8, <1>9, <1>10 DEF PageAt
<1>12. Ahead(n, p.to)'
  BY <1>1, <1>2, <1>6, <1>8, <1>9, AheadKept
<1>13. QED
  BY <1>7, <1>11, <1>12

LEMMA GoodKept ==
  ASSUME Typed, Typed', Good, LogGoesOn, \A n \in Nodes : IndexGoesOn(n),
         \A q \in Readers : ReadGoesOn(q) \/ (MarksGood(q)' /\ LinesGood(q)'),
         \A b \in Browsers : page'[b] = page[b] \/ PageGood(b)'
  PROVE  Good'
<1>1. \A n \in Nodes : IndexGood(n)'
  BY IndexKept DEF Good
<1>2. ASSUME NEW q \in Readers
      PROVE  MarksGood(q)' /\ LinesGood(q)'
  <2>1. Home[q] \in Nodes
    BY Parts
  <2>2. QED
    BY <2>1, ReadKept DEF Good
<1>3. ASSUME NEW b \in Browsers
      PROVE  PageGood(b)'
  <2>1. Home[b] \in Nodes
    BY Parts
  <2>2. QED
    BY <2>1, PageKept DEF Good
<1>4. QED
  BY <1>1, <1>2, <1>3 DEF Good

LEMMA LogStill ==
  ASSUME Typed, UNCHANGED logvars
  PROVE  /\ LogGoesOn /\ rotations' = rotations
         /\ \A n \in Nodes : Grows(n) /\ Frags(n)' = Frags(n)
<1>1. UNCHANGED <<log, rotations>>
  BY DEF logvars
<1>2. \A n \in Nodes : Frags(n)' = Frags(n) /\ Len(Frags(n)) \in Nat
  BY <1>1, Parts, FragsType DEF Frags
<1>3. QED
  BY <1>1, <1>2 DEF LogGoesOn, Grows

LEMMA IndexStill ==
  ASSUME Typed, UNCHANGED logvars, NEW n \in Nodes, index'[n] = index[n], made'[n] = made[n]
  PROVE  IndexGoesOn(n)
<1>1. Grows(n) /\ rotations' = rotations
  BY LogStill
<1>2. QED
  BY <1>1 DEF IndexGoesOn, Indexed

(* An extension that does not mix marks the whole log.                            *)
LEMMA ExtendsToEnd ==
  ASSUME Typed, Good, NEW r \in Readers, read[r].pc = "index", index[Home[r]] # NoIndex,
         ~made[Home[r]].mixed, ~Mixes(index[Home[r]], Frags(Home[r])),
         {read[r].file, rotations} = {made[Home[r]].file}
  PROVE  LET n == Home[r]
             F == Frags(n)
         IN  /\ index[n].offsets \o Marks(F, index[n].size) = OffsetsOf(F, Len(F))
             /\ read[r].size <= Len(F) /\ made[n].file = rotations
<1> DEFINE n == Home[r]
           F == Frags(n)
           old == index[n].offsets
           last == old[Len(old)]
<1>1. read[r].file = rotations /\ made[n].file = rotations
  OBVIOUS
<1>2. n \in Nodes /\ F \in Seq(Fragment) /\ Len(F) \in Nat
      /\ \A i \in 1 .. Len(F) : F[i].half \in {"head", "tail"}
  BY Parts, FragsType
<1>3. Covers(F, old)
  BY <1>1, <1>2 DEF Good, IndexGood, Indexed
<1>4. last = index[n].size /\ ~(last > 0 /\ last <= Len(F) /\ F[last].half = "head")
  BY DEF Mixes
<1> HIDE DEF F, old
<1>5. last \in 0 .. Len(F) /\ old = OffsetsOf(F, last)
  BY <1>3 DEF Covers, Last
<1>6. AtLineEnd(F, last)
  BY <1>2, <1>4, <1>5 DEF AtLineEnd
<1> HIDE DEF last
<1>7. old \o Marks(F, index[n].size) = OffsetsOf(F, Len(F))
  BY <1>2, <1>4, <1>5, <1>6, MarksOfExtension
<1>8. read[r].size <= Len(F)
  BY <1>1 DEF Typed, ReadTyped, F
<1>9. QED
  BY <1>1, <1>7, <1>8 DEF F, old

(* A request that got an index of the whole log.                                  *)
LEMMA MarksMade ==
  ASSUME Typed, Good, NEW q \in Readers, UNCHANGED <<logvars, page>>,
         IndexGoesOn(Home[q]), read'[q].pc = "marks",
         Sound(q)' => /\ read'[q].offsets = OffsetsOf(Frags(Home[q]), Len(Frags(Home[q])))
                      /\ read'[q].size <= Len(Frags(Home[q])),
         Indexed(Home[q])' => index'[Home[q]].offsets
                                = OffsetsOf(Frags(Home[q]), Len(Frags(Home[q])))
  PROVE  MarksGood(q)' /\ LinesGood(q)'
<1> DEFINE n == Home[q]
           F == Frags(n)
<1>1. n \in Nodes /\ Len(F) \in Nat /\ Frags(n)' = F /\ rotations' = rotations
  BY Parts, FragsType, LogStill
<1>2. ASSUME Sound(q)'
      PROVE  /\ Covers(Frags(n)', read'[q].offsets) /\ read'[q].size <= Last(read'[q].offsets)
             /\ Ahead(n, Last(read[q].offsets))' /\ PageBefore(q, Last(read[q].offsets))'
  <2>1. /\ Covers(F, read'[q].offsets) /\ Last(read'[q].offsets) = Len(F)
        /\ read'[q].size <= Len(F)
    BY <1>1, <1>2, CoversAll
  <2>2. Indexed(n)' => Last(index'[n].offsets) = Len(F)
    BY <1>1, CoversAll
  <2>3. Ahead(n, Last(read[q].offsets))'
    BY <1>1, <2>1, <2>2 DEF Ahead
  <2>4. PageBefore(q, Last(read[q].offsets))'
    <3>1. q \in Browsers /\ Shown(q) => page[q].to <= Len(F)
      BY DEF Good, PageGood, PageAt
    <3>2. Shown(q)' <=> Shown(q)
      BY <1>1 DEF Shown
    <3>3. QED
      BY <2>1, <3>1, <3>2 DEF PageBefore
  <2>5. QED
    BY <1>1, <2>1, <2>3, <2>4
<1>3. read'[q].pc # "lines"
  OBVIOUS
<1>4. QED
  BY <1>2, <1>3 DEF MarksGood, LinesGood

LEMMA BuildGood ==
  ASSUME Typed, Good, NEW r \in Readers, BuildIndex(r)
  PROVE  Good'
<1> DEFINE n == Home[r]
           F == Frags(n)
<1>1. /\ Typed' /\ UNCHANGED <<logvars, page>> /\ read[r].pc = "index"
      /\ \A m \in Nodes \ {n} : index'[m] = index[m] /\ made'[m] = made[m]
      /\ index'[n].offsets = OffsetsOf(F, Len(F)) /\ index'[n].size = read[r].size
      /\ made'[n].file = read[r].file
      /\ read'[r] = Holding(r, OffsetsOf(F, Len(F)), read[r].file # rotations)
      /\ \A q \in Readers \ {r} : ReadGoesOn(q)
  BY BuildTyped DEF ReadGoesOn
<1>2. /\ n \in Nodes /\ LogGoesOn /\ rotations' = rotations /\ Grows(n)
      /\ Len(F) \in Nat
  BY <1>1, Parts, LogStill, FragsType
<1>3. read[r].file = rotations => read[r].size <= Len(F)
  BY <1>1 DEF Typed, ReadTyped
<1>4. IndexGoesOn(n)
  BY <1>1, <1>2, <1>3 DEF IndexGoesOn, Indexed
<1>5. ASSUME NEW m \in Nodes
      PROVE  IndexGoesOn(m)
  BY <1>1, <1>4, IndexStill
<1>6. read'[r].pc = "marks" /\ read'[r].size = read[r].size /\ read'[r].file = read[r].file
      /\ read'[r].offsets = OffsetsOf(F, Len(F))
  <2>1. OffsetsOf(F, Len(F)) \in Seq(Nat)
    BY <1>2, Offsets
  <2>2. PICK offsets, mixed : /\ offsets = OffsetsOf(F, Len(F))
                              /\ mixed = (read[r].file # rotations) /\ mixed \in BOOLEAN
    OBVIOUS
  <2>3. read'[r] = Holding(r, offsets, mixed) /\ offsets \in Seq(Nat)
        /\ read[r].pc \in {"index", "marks"}
    BY <1>1, <2>1, <2>2
  <2>4. mixed \in BOOLEAN
    BY <2>2
  <2>5. /\ read'[r].pc = "marks" /\ read'[r].size = read[r].size
        /\ read'[r].file = read[r].file /\ read'[r].offsets = offsets
    BY <2>3, <2>4, HoldingType
  <2>6. QED
    BY <2>2, <2>5
<1>7. Sound(r)' => read'[r].size <= Len(F)
  BY <1>2, <1>3, <1>6 DEF Sound
<1>8. MarksGood(r)' /\ LinesGood(r)'
  BY <1>1, <1>4, <1>6, <1>7, MarksMade
<1>9. \A b \in Browsers : page'[b] = page[b]
  BY <1>1
<1>10. QED
  BY <1>1, <1>2, <1>5, <1>8, <1>9, GoodKept

LEMMA ExtendGood ==
  ASSUME Typed, Good, NEW r \in Readers, ExtendIndex(r)
  PROVE  Good'
<1> DEFINE n == Home[r]
           F == Frags(n)
           new == index[n].offsets \o Marks(F, index[n].size)
           mixed == made[n].mixed \/ Mixes(index[n], F)
                    \/ {read[r].file, rotations} # {made[n].file}
<1>1. /\ Typed' /\ UNCHANGED <<logvars, page>> /\ read[r].pc = "index"
      /\ index[n] # NoIndex
      /\ \A m \in Nodes \ {n} : index'[m] = index[m] /\ made'[m] = made[m]
      /\ index'[n].offsets = new /\ index'[n].size = read[r].size
      /\ made'[n].file = made[n].file /\ made'[n].mixed = mixed
      /\ read'[r] = Holding(r, new, mixed)
      /\ \A q \in Readers \ {r} :
           \/ read'[q] = read[q]
           \/ /\ Home[q] = n /\ read[q].pc = "marks" /\ read'[q].pc = "marks"
              /\ read'[q].size = read[q].size /\ read'[q].file = read[q].file
              /\ read'[q].ask = read[q].ask
              /\ ~read'[q].mixed => ~read[q].mixed /\ ~mixed /\ read'[q].offsets = new
  BY ExtendTyped
<1>2. ~mixed => /\ new = OffsetsOf(F, Len(F)) /\ read[r].size <= Len(F)
                /\ made[n].file = rotations
  BY <1>1, ExtendsToEnd
<1>3. mixed \in BOOLEAN /\ new \in Seq(Nat)
  <2>1. n \in Nodes /\ F \in Seq(Fragment) /\ made[n].mixed \in BOOLEAN /\ index[n] \in Index
    BY <1>1, Parts, FragsType
  <2>2. index[n].offsets \in Seq(Nat) /\ index[n].size \in Nat
    BY <2>1 DEF Index
  <2>3. Marks(F, index[n].size) \in Seq(Nat)
    BY <2>1, <2>2, MarksType
  <2>4. new \in Seq(Nat)
    BY <2>2, <2>3, ConcatProperties
  <2>5. mixed \in BOOLEAN
    BY <2>1 DEF Mixes
  <2>6. QED
    BY <2>4, <2>5
<1> HIDE DEF new, mixed
<1>4. /\ n \in Nodes /\ LogGoesOn /\ rotations' = rotations /\ Grows(n)
  BY <1>1, Parts, LogStill
<1>5. IndexGoesOn(n) /\ (Indexed(n)' => index'[n].offsets = OffsetsOf(F, Len(F)))
  BY <1>1, <1>2, <1>4 DEF IndexGoesOn, Indexed
<1>6. ASSUME NEW m \in Nodes
      PROVE  IndexGoesOn(m)
  BY <1>1, <1>5, IndexStill
<1>7. /\ read'[r].pc = "marks" /\ read'[r].size = read[r].size /\ read'[r].offsets = new
      /\ read'[r].mixed = mixed
  BY <1>1, <1>3, HoldingType
<1>8. MarksGood(r)' /\ LinesGood(r)'
  BY <1>1, <1>2, <1>5, <1>7, MarksMade DEF Sound
<1>9. ASSUME NEW q \in Readers \ {r}, read'[q] # read[q]
      PROVE  MarksGood(q)' /\ LinesGood(q)'
  <2>1. /\ Home[q] = n /\ read[q].pc = "marks" /\ read'[q].pc = "marks"
        /\ read'[q].size = read[q].size /\ read'[q].file = read[q].file
        /\ ~read'[q].mixed => ~mixed /\ read'[q].offsets = new
    BY <1>1, <1>9
  <2>2. Sound(q)' => read'[q].offsets = OffsetsOf(F, Len(F)) /\ read[q].file = rotations
    BY <1>2, <1>4, <2>1 DEF Sound
  <2>3. read[q].file = rotations => read[q].size <= Len(F)
    BY <2>1 DEF Typed, ReadTyped
  <2>4. QED
    BY <1>1, <1>5, <2>1, <2>2, <2>3, MarksMade
<1>10. \A b \in Browsers : page'[b] = page[b]
  BY <1>1
<1>11. \A q \in Readers : ReadGoesOn(q) \/ (MarksGood(q)' /\ LinesGood(q)')
  BY <1>8, <1>9, <1>10 DEF ReadGoesOn
<1>12. QED
  BY <1>1, <1>4, <1>6, <1>10, <1>11, GoodKept

(* A step of a request that leaves the log and the index alone.                   *)
LEMMA ReaderGood ==
  ASSUME Typed, Typed', Good, NEW r \in Readers, UNCHANGED <<logvars, index, made>>,
         \A q \in Readers \ {r} : read'[q] = read[q],
         \A b \in Browsers : page'[b] = page[b] \/ (b = r /\ PageGood(b)'),
         MarksGood(r)', LinesGood(r)'
  PROVE  Good'
<1>1. LogGoesOn
  BY LogStill
<1>2. \A n \in Nodes : IndexGoesOn(n)
  BY IndexStill
<1>3. ASSUME NEW q \in Readers, q # r
      PROVE  ReadGoesOn(q)
  <2>1. read'[q] = read[q] /\ (q \in Browsers => page'[q] = page[q])
    BY <1>3
  <2>2. QED
    BY <2>1 DEF ReadGoesOn
<1>4. \A b \in Browsers : page'[b] = page[b] \/ PageGood(b)'
  OBVIOUS
<1>5. \A q \in Readers : ReadGoesOn(q) \/ (MarksGood(q)' /\ LinesGood(q)')
  BY <1>3
<1>6. QED
  BY <1>1, <1>2, <1>4, <1>5, GoodKept

(* The empty page of a log that is gone.                                          *)
LEMMA EmptyPageGood ==
  ASSUME Typed, Good, NEW b \in Browsers, UNCHANGED <<logvars, index, made>>,
         page'[b] = NoPage(rotations)
  PROVE  PageGood(b)'
<1> DEFINE n == Home[b]
           F == Frags(n)
<1>1. n \in Nodes /\ Len(F) \in Nat /\ Frags(n)' = F /\ rotations' = rotations
  BY Parts, FragsType, LogStill
<1>2. PICK p : p = page'[b]
  OBVIOUS
<1>3. /\ p.from = 0 /\ p.to = 0 /\ p.start = 0 /\ p.end = 0
  BY <1>2 DEF NoPage
<1>4. LineNo(F, 0) = 0
  <2>1. 0 \in Nat
    OBVIOUS
  <2>2. QED
    BY <2>1, EndsType
<1> HIDE DEF F
<1>5. PageAt(F, p)
  BY <1>1, <1>3, <1>4 DEF PageAt
<1>6. Ahead(n, 0)'
  <2> SUFFICES ASSUME Indexed(n)'
               PROVE  0 <= Last(index'[n].offsets)
    BY DEF Ahead
  <2>1. Indexed(n) /\ index'[n] = index[n]
    BY <1>1 DEF Indexed
  <2>2. Last(index[n].offsets) \in 0 .. Len(F)
    BY <1>1, <2>1 DEF Good, IndexGood, Covers, F
  <2>3. QED
    BY <1>1, <2>1, <2>2
<1>7. Ahead(n, page[b].to)'
  <2>1. page'[b].to = 0
    BY <1>2, <1>3
  <2>2. QED
    BY <1>6, <2>1 DEF Ahead
<1>8. PageAt(Frags(Home[b])', page'[b])
  BY <1>1, <1>2, <1>5
<1>9. QED
  BY <1>7, <1>8 DEF PageGood

LEMMA MissingGood ==
  ASSUME Typed, Good, NEW r \in Readers, ReplyMissing(r), UNCHANGED <<logvars, index, made>>
  PROVE  Good'
<1>1. /\ Typed' /\ read'[r] = Idle /\ \A q \in Readers \ {r} : read'[q] = read[q]
      /\ \A b \in Browsers : page'[b] = IF b = r THEN NoPage(rotations) ELSE page[b]
  BY MissingTyped
<1>2. \A b \in Browsers : page'[b] = page[b] \/ (b = r /\ PageGood(b)')
  BY <1>1, EmptyPageGood
<1>3. MarksGood(r)' /\ LinesGood(r)'
  BY <1>1 DEF MarksGood, LinesGood, Idle
<1>4. QED
  BY <1>1, <1>2, <1>3, ReaderGood

LEMMA StatGood ==
  ASSUME Typed, Good, NEW r \in Readers, NEW ask \in Asks(r), StatLog(r, ask)
  PROVE  Good'
<1>1. /\ Typed' /\ UNCHANGED <<logvars, index, made>>
      /\ \A q \in Readers \ {r} : read'[q] = read[q]
      /\ read'[r].pc \in {"idle", "index"}
      /\ \/ read'[r].pc = "index" /\ page' = page
         \/ \A b \in Browsers : page'[b] = IF b = r THEN NoPage(rotations) ELSE page[b]
  BY StatTyped
<1>2. \A b \in Browsers : page'[b] = page[b] \/ (b = r /\ PageGood(b)')
  BY <1>1, EmptyPageGood
<1>3. MarksGood(r)' /\ LinesGood(r)'
  BY <1>1 DEF MarksGood, LinesGood
<1>4. QED
  BY <1>1, <1>2, <1>3, ReaderGood

LEMMA FailsGood ==
  ASSUME Typed, Good, NEW r \in Readers, ReadFails(r)
  PROVE  Good'
<1>1. /\ Typed' /\ UNCHANGED <<logvars, index, made, page>>
      /\ read'[r] = Idle /\ \A q \in Readers \ {r} : read'[q] = read[q]
  BY FailsTyped
<1>2. \A b \in Browsers : page'[b] = page[b]
  BY <1>1
<1>3. MarksGood(r)' /\ LinesGood(r)'
  BY <1>1 DEF MarksGood, LinesGood, Idle
<1>4. QED
  BY <1>1, <1>2, <1>3, ReaderGood

LEMMA LogGood ==
  ASSUME Typed, Good, LogChanges
  PROVE  Good'
<1>1. Typed' /\ UNCHANGED <<index, read, page, made>> /\ LogGoesOn
  BY LogTyped, LogMoves DEF LogGoesOn
<1>2. ASSUME NEW n \in Nodes
      PROVE  IndexGoesOn(n)
  <2> SUFFICES ASSUME Indexed(n)'
               PROVE  Grows(n) /\ Indexed(n) /\ index'[n] = index[n]
    BY DEF IndexGoesOn
  <2>1. made[n].file \in Nat /\ made[n].file <= rotations /\ rotations \in Nat
    BY Parts, BoundsAssumption DEF Typed, IndexTyped
  <2>2. index[n] # NoIndex /\ made[n].file = rotations' /\ ~made[n].mixed
    BY <1>1 DEF Indexed
  <2>3. rotations' = rotations /\ Grows(n)
    BY <2>1, <2>2, <1>1 DEF LogGoesOn
  <2>4. QED
    BY <1>1, <2>2, <2>3 DEF Indexed
<1>3. \A q \in Readers : ReadGoesOn(q)
  BY <1>1 DEF ReadGoesOn
<1>4. \A b \in Browsers : page'[b] = page[b]
  BY <1>1
<1>5. QED
  BY <1>1, <1>2, <1>3, <1>4, GoodKept

LEMMA StutterGood ==
  ASSUME Typed, Good, UNCHANGED vars
  PROVE  Good'
<1>1. UNCHANGED <<logvars, index, made, read, page>>
  BY DEF vars, logvars
<1>2. Typed' /\ LogGoesOn
  BY <1>1, StutterTyped, LogStill
<1>3. \A n \in Nodes : IndexGoesOn(n)
  BY <1>1, IndexStill
<1>4. \A q \in Readers : ReadGoesOn(q)
  BY <1>1 DEF ReadGoesOn
<1>5. \A b \in Browsers : page'[b] = page[b]
  BY <1>1
<1>6. QED
  BY <1>2, <1>3, <1>4, <1>5, GoodKept

(* A page shows at most one event per line that it numbers.                        *)
LEMMA LinesCount ==
  ASSUME NEW F \in Seq(Fragment), NEW s \in AtLines, NEW end \in 0 .. Len(F), Located(F, s, end)
  PROVE  /\ Fits(F, s)
         /\ Cardinality(Lines(F, s)) \in Nat
         /\ Cardinality(Lines(F, s)) <= s.bounds.end - s.bounds.start
<1>1. /\ Len(F) \in Nat /\ s.from \in Nat /\ s.to \in Nat /\ s.from <= s.to /\ s.to <= Len(F)
      /\ LineNo(F, s.from) = s.bounds.start /\ LineNo(F, s.to) = s.bounds.end
      /\ AtLineEnd(F, s.from) \/ s.from = s.to
      /\ s.bounds.start \in Nat /\ s.bounds.end \in Nat
  BY LenProperties DEF Located, AtLines
<1>2. Fits(F, s)
  BY <1>1 DEF Fits
<1>3. Cardinality(Lines(F, s)) \in Nat
  BY <1>2, LinesType
<1>4. CASE s.from = s.to
  <2>1. Lines(F, s) = {}
    BY <1>4 DEF Lines
  <2>2. Cardinality(Lines(F, s)) = 0 /\ s.bounds.end = s.bounds.start
    BY <1>1, <1>4, <2>1, FS_EmptySet
  <2>3. QED
    BY <1>1, <1>2, <2>2
<1>5. CASE s.from # s.to
  <2> DEFINE from == s.from
             to == s.to
             P == SubSeq(F, 1, to)
             J == {j \in from + 1 .. to - 1 : LineAt(P, from, j)}
             D == Ends(F, to) \ Ends(F, from)
             shown == [j \in J |-> P[j].event]
             next == [j \in J |-> j + 1]
  <2>1. from \in Nat /\ to \in Nat /\ from < to /\ to <= Len(F) /\ AtLineEnd(F, from)
    BY <1>1, <1>5
  <2>2. Len(P) = to /\ \A i \in 1 .. to : P[i] = F[i]
    <3>1. \A i \in 1 .. to : F[i] \in Fragment
      BY <1>1, <2>1, ElementOfSeq
    <3>2. QED
      BY <1>1, <2>1, <3>1, SubSeqProperties
  <2> HIDE DEF from, to
  <2>3. Lines(F, s) = {P[j].event : j \in J}
    <3>1. Lines(F, s) = ParsedEvents(P, from)
      BY <1>5 DEF Lines, from, to
    <3> HIDE DEF P
    <3>2. QED
      BY <2>2, <3>1 DEF ParsedEvents, LineAt
  <2> HIDE DEF P
  <2>4. IsFiniteSet(J)
    <3>1. IsFiniteSet(from + 1 .. to - 1)
      BY <2>1, FS_Interval
    <3>2. QED
      BY <3>1, FS_Subset
  <2>5. shown \in Surjection(J, Lines(F, s))
    BY <2>3 DEF Surjection
  <2>6. Cardinality(Lines(F, s)) <= Cardinality(J)
    <3> HIDE DEF J, shown
    <3>1. QED
      BY <2>4, <2>5, FS_Surjection
  <2>7. \A j \in J : j + 1 \in D /\ j \in Int
    BY <2>1, <2>2 DEF LineAt, Ends
  <2>8. IsFiniteSet(Ends(F, to)) /\ IsFiniteSet(Ends(F, from))
    BY <2>1, EndsType
  <2>9. IsFiniteSet(D)
    BY <2>8, FS_Subset
  <2>10. next \in Injection(J, D)
    <3> HIDE DEF J, D
    <3>1. next \in [J -> D]
      BY <2>7
    <3>2. \A i, j \in J : next[i] = next[j] => i = j
      BY <2>7
    <3>3. QED
      BY <3>1, <3>2 DEF Injection, IsInjective
  <2>11. Cardinality(J) <= Cardinality(D)
    <3> HIDE DEF J, D, next
    <3>1. QED
      BY <2>9, <2>10, FS_Injection
  <2>12. Cardinality(D) = LineNo(F, to) - LineNo(F, from)
    <3>1. Ends(F, to) \cap Ends(F, from) = Ends(F, from)
      BY <2>1 DEF Ends, AtLineEnd
    <3>2. QED
      BY <2>8, <3>1, FS_Difference DEF LineNo
  <2>13. Cardinality(J) \in Nat /\ Cardinality(D) \in Nat
    BY <2>4, <2>9, FS_CardinalityType
  <2> HIDE DEF J, D
  <2>14. LineNo(F, to) = s.bounds.end /\ LineNo(F, from) = s.bounds.start
    BY <1>1 DEF from, to
  <2>15. QED
    BY <1>1, <1>2, <1>3, <2>6, <2>11, <2>12, <2>13, <2>14
<1>6. QED
  BY <1>4, <1>5

LEMMA UseGood ==
  ASSUME Typed, Good, NEW r \in Readers, UseIndex(r)
  PROVE  Good'
<1> DEFINE n == Home[r]
           F == Frags(n)
           mixed == made[n].mixed \/ made[n].file # read[r].file
<1>1. /\ Typed' /\ UNCHANGED <<logvars, index, made, page>>
      /\ \A q \in Readers \ {r} : read'[q] = read[q]
      /\ index[n] # NoIndex /\ read[r].size = index[n].size /\ read[r].pc = "index"
      /\ read'[r] = Holding(r, index[n].offsets, mixed)
  BY UseTyped
<1>2. /\ n \in Nodes /\ Len(F) \in Nat /\ Frags(n)' = F /\ rotations' = rotations
      /\ made[n].mixed \in BOOLEAN
  BY <1>1, Parts, FragsType, LogStill
<1>3. index[n].offsets \in Seq(Nat) /\ mixed \in BOOLEAN
  BY <1>1, <1>2, Parts DEF Index
<1>4. mixed <=> (made[n].mixed \/ made[n].file # read[r].file)
  OBVIOUS
<1> HIDE DEF mixed
<1>5. /\ read'[r].pc = "marks" /\ read'[r].size = read[r].size /\ read'[r].file = read[r].file
      /\ read'[r].offsets = index[n].offsets /\ read'[r].mixed = mixed
  BY <1>1, <1>3, HoldingType
<1>6. ASSUME Sound(r)'
      PROVE  /\ Covers(Frags(n)', read'[r].offsets) /\ read'[r].size <= Last(read'[r].offsets)
             /\ Ahead(n, Last(read[r].offsets))' /\ PageBefore(r, Last(read[r].offsets))'
  <2>1. ~mixed /\ read[r].file = rotations
    BY <1>2, <1>5, <1>6 DEF Sound
  <2>2. Indexed(n)
    BY <1>1, <1>4, <2>1 DEF Indexed
  <2>3. PICK last : last = Last(index[n].offsets)
    OBVIOUS
  <2>4. Covers(F, index[n].offsets) /\ index[n].size <= last /\ last \in 0 .. Len(F)
    BY <1>2, <2>2, <2>3 DEF Good, IndexGood, Covers
  <2>5. Ahead(n, last)'
    <3>1. index'[n] = index[n] /\ last <= last
      BY <1>1, <1>2, <2>4
    <3>2. QED
      BY <2>3, <3>1 DEF Ahead
  <2>6. PageBefore(r, last)'
    <3>1. r \in Browsers /\ Shown(r) => page[r].to <= last
      BY <2>2, <2>3 DEF Good, PageGood, Ahead
    <3>2. QED
      BY <1>1, <1>2, <3>1 DEF PageBefore, Shown
  <2>7. Last(read'[r].offsets) = last
    BY <1>5, <2>3
  <2>8. Ahead(n, Last(read[r].offsets))' /\ PageBefore(r, Last(read[r].offsets))'
    BY <2>5, <2>6, <2>7 DEF Ahead, PageBefore
  <2>9. QED
    BY <1>1, <1>2, <1>5, <2>4, <2>7, <2>8
<1>7. MarksGood(r)'
  BY <1>6 DEF MarksGood
<1>8. LinesGood(r)'
  BY <1>5 DEF LinesGood
<1>9. \A b \in Browsers : page'[b] = page[b]
  BY <1>1
<1>10. QED
  BY <1>1, <1>7, <1>8, <1>9, ReaderGood

LEMMA FindGood ==
  ASSUME Typed, Good, NEW r \in Readers, FindPage(r)
  PROVE  Good'
<1> DEFINE n == Home[r]
           F == Frags(n)
           s == read[r]
           t == read'[r]
<1>1. PICK b : b = PageBounds(s.ask, Len(s.offsets) - 1, PageSize)
  OBVIOUS
<1>2. /\ Typed' /\ UNCHANGED <<logvars, index, made, page>>
      /\ \A q \in Readers \ {r} : read'[q] = read[q]
      /\ s.pc = "marks" /\ t.pc = "lines"
      /\ t.ask = s.ask /\ t.size = s.size /\ t.file = s.file /\ t.mixed = s.mixed
      /\ t.bounds = b
      /\ t.from = s.offsets[b.start + 1] /\ t.to = s.offsets[b.end + 1]
  BY <1>1, FindTyped
<1>3. /\ n \in Nodes /\ Len(F) \in Nat /\ Frags(n)' = F /\ rotations' = rotations
      /\ PageSize \in Nat /\ s \in AtMarks
  BY <1>2, Parts, ReadFields, FragsType, LogStill
<1>4. ASSUME Sound(r)'
      PROVE  \E end \in 0 .. Len(Frags(n)') :
               /\ Located(Frags(n)', read'[r], end) /\ read'[r].size <= end
               /\ Ahead(n, end)' /\ PageBefore(r, end)'
  <2>1. Sound(r)
    BY <1>2, <1>3, <1>4 DEF Sound
  <2>2. PICK end : end = Last(s.offsets)
    OBVIOUS
  <2>3. /\ end \in 0 .. Len(F) /\ s.offsets = OffsetsOf(F, end) /\ s.size <= end
        /\ Ahead(n, end) /\ PageBefore(r, end)
    BY <1>2, <2>1, <2>2 DEF Good, MarksGood, Covers
  <2>4. PICK N : N = LineNo(F, end)
    OBVIOUS
  <2>5. /\ N \in Nat /\ Len(s.offsets) = N + 1 /\ s.offsets[Len(s.offsets)] = end
        /\ \A k \in 0 .. N :
             /\ s.offsets[k + 1] \in 0 .. end /\ LineNo(F, s.offsets[k + 1]) = k
             /\ AtLineEnd(F, s.offsets[k + 1]) \/ s.offsets[k + 1] = end
    BY <2>3, <2>4, <1>3, Offsets
  <2>6. b = PageBounds(s.ask, N, PageSize)
    BY <1>1, <2>5
  <2>7. /\ b.start \in Nat /\ b.end \in Nat /\ b.start <= b.end /\ b.end <= N
        /\ s.ask = Newest => b.end = N
    <3>1. PICK ask : ask = s.ask
      OBVIOUS
    <3>2. ask = Newest \/ ask \in [dir : {"prev", "next"}, cursor : Nat]
      BY <1>3, <3>1 DEF AtMarks, Ask
    <3>3. N \in Nat /\ PageSize \in Nat /\ b = PageBounds(ask, N, PageSize)
      BY <1>3, <2>5, <2>6, <3>1
    <3>4. LET c == PageBounds(ask, N, PageSize)
          IN  /\ c \in [start : Nat, end : Nat] /\ c.start <= c.end /\ c.end <= N
              /\ ask = Newest => c.end = N
              /\ ask.dir = "next" => c.start = Least(ask.cursor, N)
              /\ ask.dir = "prev" => c.end = Least(ask.cursor, N)
      BY <3>2, <3>3, BoundsRange, Zenon
    <3>5. /\ b \in [start : Nat, end : Nat] /\ b.start <= b.end /\ b.end <= N
          /\ ask = Newest => b.end = N
      BY <3>3, <3>4
    <3>6. QED
      BY <3>1, <3>5
  <2>8. b.start \in 0 .. N /\ b.end \in 0 .. N
    BY <2>5, <2>7
  <2>9. t.from <= t.to
    BY <1>2, <1>3, <2>3, <2>4, <2>7, <2>8, OffsetsOrder
  <2>10. /\ t.to \in 0 .. end /\ LineNo(F, t.from) = b.start /\ LineNo(F, t.to) = b.end
         /\ AtLineEnd(F, t.from) \/ t.from = end
         /\ AtLineEnd(F, t.to) \/ t.to = end
    BY <1>2, <2>5, <2>8
  <2>11. s.ask = Newest => t.to = end
    BY <1>2, <2>5, <2>7
  <2>12. Located(F, t, end)
    BY <1>2, <1>3, <2>4, <2>3, <2>6, <2>9, <2>10, <2>11 DEF Located
  <2>13. Ahead(n, end)' /\ PageBefore(r, end)'
    BY <1>2, <1>3, <2>3 DEF Ahead, PageBefore, Shown, Indexed
  <2>14. QED
    BY <1>2, <1>3, <2>3, <2>12, <2>13
<1>5. MarksGood(r)' /\ LinesGood(r)'
  BY <1>2, <1>4 DEF MarksGood, LinesGood
<1>6. \A c \in Browsers : page'[c] = page[c]
  BY <1>2
<1>7. QED
  BY <1>2, <1>5, <1>6, ReaderGood

(* The page that a request is answered with lies where its lines lie.              *)
LEMMA PageOfGood ==
  ASSUME NEW F, NEW s \in AtLines, NEW end \in Nat, end <= Len(F), Len(F) \in Nat,
         Located(F, s, end), NEW shown \in SUBSET Event, NEW count \in Nat,
         count <= s.bounds.end - s.bounds.start
  PROVE  PageAt(F, PageOf(s, shown, count))
<1>1. /\ s.bounds.start \in Nat /\ s.bounds.end \in Nat /\ s.from \in Nat /\ s.to \in Nat
      /\ s.from <= s.to /\ s.to <= end
      /\ LineNo(F, s.from) = s.bounds.start /\ LineNo(F, s.to) = s.bounds.end
  BY DEF AtLines, Located
<1>2. PICK p : p = PageOf(s, shown, count)
  OBVIOUS
<1>3. /\ p.from = s.from /\ p.to = s.to
      /\ p.whole <=> count = s.bounds.end - s.bounds.start
      /\ s.ask.dir = "prev" => p.start = s.bounds.start /\ p.end = s.bounds.start + count
      /\ s.ask.dir # "prev" =>
           /\ p.start = IF count <= s.bounds.end THEN s.bounds.end - count ELSE 0
           /\ p.end = s.bounds.end
  BY <1>2, PageOfType
<1>4. count <= s.bounds.end
  BY <1>1
<1>5. CASE s.ask.dir = "prev"
  <2>1. p.start = s.bounds.start /\ p.end = s.bounds.start + count
    BY <1>3, <1>5
  <2>2. QED
    BY <1>1, <1>2, <1>3, <2>1 DEF PageAt
<1>6. CASE s.ask.dir # "prev"
  <2>1. p.start = s.bounds.end - count /\ p.end = s.bounds.end
    BY <1>3, <1>4, <1>6
  <2>2. s.bounds.start <= p.start /\ (p.whole => p.start = s.bounds.start)
    BY <1>1, <1>3, <2>1
  <2>3. p.from <= p.to /\ p.to <= Len(F)
    BY <1>1, <1>3
  <2>4. QED
    BY <1>1, <1>2, <1>3, <2>1, <2>2, <2>3 DEF PageAt
<1>7. QED
  BY <1>5, <1>6

LEMMA AnswerGood ==
  ASSUME Typed, Good, NEW r \in Readers, read[r].pc = "lines", UNCHANGED <<logvars, index, made>>,
         Typed', NEW shown \in SUBSET Event, NEW count \in Nat,
         Sound(r) => count <= read[r].bounds.end - read[r].bounds.start,
         read'[r] = Idle, \A q \in Readers \ {r} : read'[q] = read[q],
         \A b \in Browsers : page'[b] = IF b = r THEN PageOf(read[r], shown, count) ELSE page[b]
  PROVE  Good'
<1> DEFINE n == Home[r]
           F == Frags(n)
           s == read[r]
<1>1. /\ n \in Nodes /\ Len(F) \in Nat /\ Frags(n)' = F /\ rotations' = rotations
      /\ s \in AtLines
  BY Parts, ReadFields, FragsType, LogStill
<1>2. ASSUME r \in Browsers
      PROVE  PageGood(r)'
  <2>1. PICK p : p = PageOf(s, shown, count)
    OBVIOUS
  <2>2. p.file = s.file /\ p.mixed = s.mixed /\ p.to = s.to
    BY <1>1, <2>1, PageOfType
  <2>3. page'[r] = p
    BY <1>2, <2>1
  <2>4. ASSUME Shown(r)'
        PROVE  PageAt(Frags(n)', page'[r]) /\ Ahead(n, page[r].to)'
    <3>1. Sound(r)
      BY <1>1, <2>2, <2>3, <2>4 DEF Shown, Sound
    <3>2. PICK end \in 0 .. Len(F) : Located(F, s, end) /\ Ahead(n, end)
      BY <3>1 DEF Good, LinesGood
    <3>3. end \in Nat /\ end <= Len(F)
      BY <1>1
    <3>4. count <= s.bounds.end - s.bounds.start
      BY <3>1
    <3>5. PageAt(F, p)
      BY <1>1, <2>1, <3>2, <3>3, <3>4, PageOfGood
    <3>6. s.to <= end /\ s.to \in Nat
      BY <1>1, <3>2 DEF Located, AtLines
    <3>7. Ahead(n, s.to)
      <4> SUFFICES ASSUME Indexed(n)
                   PROVE  s.to <= Last(index[n].offsets)
        BY DEF Ahead
      <4>1. end <= Last(index[n].offsets) /\ Last(index[n].offsets) \in Int
        BY <1>1, <3>2 DEF Ahead, Good, IndexGood, Covers
      <4>2. QED
        BY <3>3, <3>6, <4>1
    <3>8. page'[r].to = s.to
      BY <2>2, <2>3
    <3>9. Ahead(n, page[r].to)'
      BY <1>1, <3>7, <3>8 DEF Ahead, Indexed
    <3>10. QED
      BY <1>1, <2>3, <3>5, <3>9
  <2>5. QED
    BY <2>4 DEF PageGood
<1>3. \A b \in Browsers : page'[b] = page[b] \/ (b = r /\ PageGood(b)')
  BY <1>2
<1>4. MarksGood(r)' /\ LinesGood(r)'
  BY DEF MarksGood, LinesGood, Idle
<1>5. QED
  BY <1>3, <1>4, ReaderGood

LEMMA NothingGood ==
  ASSUME Typed, Good, NEW r \in Readers, ReadNothing(r)
  PROVE  Good'
<1> DEFINE F == Frags(Home[r])
           s == read[r]
<1>1. /\ s.pc = "lines" /\ UNCHANGED <<logvars, index, made>> /\ Typed'
      /\ read'[r] = Idle /\ \A q \in Readers \ {r} : read'[q] = read[q]
      /\ \A b \in Browsers : page'[b] = IF b = r THEN PageOf(read[r], {}, 0) ELSE page[b]
  BY NothingTyped DEF ReadNothing
<1>2. s \in AtLines /\ Len(F) \in Nat
  BY <1>1, Parts, ReadFields, FragsType
<1>3. ASSUME Sound(r)
      PROVE  0 <= s.bounds.end - s.bounds.start
  <2>1. PICK end \in 0 .. Len(F) : Located(F, s, end)
    BY <1>1, <1>3 DEF Good, LinesGood
  <2>2. /\ s.from \in Nat /\ s.to \in Nat /\ s.from <= s.to
        /\ s.bounds.start \in Nat /\ s.bounds.end \in Nat
        /\ LineNo(F, s.from) = s.bounds.start /\ LineNo(F, s.to) = s.bounds.end
    BY <1>2, <2>1 DEF Located, AtLines
  <2>3. LineNo(F, s.from) <= LineNo(F, s.to)
    BY <2>2, LineNoOrder
  <2>4. QED
    BY <2>2, <2>3
<1>4. {} \in SUBSET Event /\ 0 \in Nat
  OBVIOUS
<1>5. QED
  BY <1>1, <1>3, <1>4, AnswerGood

LEMMA LinesGoodKept ==
  ASSUME Typed, Good, NEW r \in Readers, ReadLines(r)
  PROVE  Good'
<1> DEFINE F == Frags(Home[r])
           s == read[r]
<1>1. PICK shown : shown = Lines(F, s)
  OBVIOUS
<1>2. /\ Typed' /\ read'[r] = Idle /\ \A q \in Readers \ {r} : read'[q] = read[q]
      /\ s \in AtLines /\ Fits(F, s) /\ Cardinality(shown) \in Nat
      /\ \A b \in Browsers :
           page'[b] = IF b = r THEN PageOf(read[r], shown, Cardinality(shown)) ELSE page[b]
  BY <1>1, LinesTyped
<1>3. s.pc = "lines" /\ UNCHANGED <<logvars, index, made>>
  BY DEF ReadLines
<1>4. F \in Seq(Fragment) /\ Len(F) \in Nat
  BY Parts, FragsType
<1>5. shown \in SUBSET Event
  BY <1>1, <1>2, <1>4, LinesType
<1>6. ASSUME Sound(r)
      PROVE  Cardinality(shown) <= s.bounds.end - s.bounds.start
  <2>1. PICK end \in 0 .. Len(F) : Located(F, s, end)
    BY <1>3, <1>6 DEF Good, LinesGood
  <2>2. QED
    BY <1>1, <1>2, <1>4, <2>1, LinesCount
<1>7. QED
  BY <1>2, <1>3, <1>5, <1>6, AnswerGood

LEMMA InitGood == Init => Good
<1> SUFFICES ASSUME Init PROVE Good
  OBVIOUS
<1>1. /\ Typed /\ rotations = 0
      /\ \A n \in Nodes : index[n] = NoIndex
      /\ \A r \in Readers : read[r] = Idle
      /\ \A b \in Browsers : page[b] = NoPage(0)
  BY InitTyped DEF Init, LogInit
<1>2. \A n \in Nodes : ~Indexed(n)
  BY <1>1 DEF Indexed
<1>3. \A r \in Readers : MarksGood(r) /\ LinesGood(r)
  BY <1>1 DEF MarksGood, LinesGood, Idle
<1>4. ASSUME NEW b \in Browsers
      PROVE  PageGood(b)
  <2>1. Home[b] \in Nodes /\ Len(Frags(Home[b])) \in Nat
    BY <1>1, Parts, FragsType
  <2>2. PICK p : p = page[b]
    OBVIOUS
  <2>3. p.from = 0 /\ p.to = 0 /\ p.start = 0 /\ p.end = 0
    BY <1>1, <2>2 DEF NoPage
  <2>4. PICK F : F = Frags(Home[b])
    OBVIOUS
  <2>5. LineNo(F, 0) = 0
    <3>1. 0 \in Nat
      OBVIOUS
    <3>2. QED
      BY <3>1, EndsType
  <2>6. PageAt(F, p)
    BY <2>1, <2>3, <2>4, <2>5 DEF PageAt
  <2>7. QED
    BY <1>2, <2>1, <2>2, <2>4, <2>6 DEF PageGood, Ahead
<1>5. QED
  BY <1>2, <1>3, <1>4 DEF Good, IndexGood

LEMMA StepGood == Typed /\ Good /\ [Next]_vars => Good'
<1> SUFFICES ASSUME Typed, Good, [Next]_vars PROVE Good'
  OBVIOUS
<1>1. CASE LogChanges
  BY <1>1, LogGood
<1>2. ASSUME NEW r \in Readers, NEW ask \in Asks(r), StatLog(r, ask)
      PROVE  Good'
  BY <1>2, StatGood
<1>3. ASSUME NEW r \in Readers, UseIndex(r)
      PROVE  Good'
  BY <1>3, UseGood
<1>4. ASSUME NEW r \in Readers, BuildIndex(r)
      PROVE  Good'
  BY <1>4, BuildGood
<1>5. ASSUME NEW r \in Readers, ExtendIndex(r)
      PROVE  Good'
  BY <1>5, ExtendGood
<1>6. ASSUME NEW r \in Readers, IndexMissing(r) \/ ReadMissing(r)
      PROVE  Good'
  BY <1>6, MissingGood DEF IndexMissing, ReadMissing
<1>7. ASSUME NEW r \in Readers, FindPage(r)
      PROVE  Good'
  BY <1>7, FindGood
<1>8. ASSUME NEW r \in Readers, ReadNothing(r)
      PROVE  Good'
  BY <1>8, NothingGood
<1>9. ASSUME NEW r \in Readers, ReadLines(r)
      PROVE  Good'
  BY <1>9, LinesGoodKept
<1>10. ASSUME NEW r \in Readers, ReadFails(r)
       PROVE  Good'
  BY <1>10, FailsGood
<1>11. CASE UNCHANGED vars
  BY <1>11, StutterGood
<1>12. QED
  BY <1>1, <1>2, <1>3, <1>4, <1>5, <1>6, <1>7, <1>8, <1>9, <1>10, <1>11 DEF Next, ReadStep

LEMMA AlwaysGood == Spec => [](Typed /\ Good)
<1>1. Init => Typed /\ Good
  BY InitTyped, InitGood
<1>2. Typed /\ Good /\ [Next]_vars => (Typed /\ Good)'
  BY StepTyped, StepGood
<1>3. QED
  BY <1>1, <1>2, PTL DEF Spec

-------------------------------------------------------------------------------
(* What the invariant says of the index, and of the answers.                      *)

(* In every reachable state the index of a log that was not rotated since is what *)
(* a reading from the start of the log gives, whatever requests build, extend and *)
(* use it at once, and covers the size that it was compared with: a rebuild and   *)
(* an extension leave out no line end and mark none twice.                        *)
THEOREM IndexCorrect == Spec => []IndexMarksLines
<1>1. ASSUME Typed, Good
      PROVE  IndexMarksLines
  <2> SUFFICES ASSUME NEW n \in Nodes, index[n] # NoIndex, log[n] # NoFile,
                      made[n].file = rotations, ~made[n].mixed
               PROVE  LET last == Last(index[n].offsets)
                      IN  /\ last <= Len(log[n].frags)
                          /\ index[n].offsets = <<0>> \o Marks(SubSeq(log[n].frags, 1, last), 0)
                          /\ index[n].size <= last
    BY DEF IndexMarksLines, Last
  <2>1. PICK F : F = log[n].frags
    OBVIOUS
  <2>2. F = Frags(n) /\ F \in Seq(Fragment) /\ Len(F) \in Nat
    BY <1>1, <2>1, Parts, FragsType DEF Frags
  <2>3. PICK last : last = Last(index[n].offsets)
    OBVIOUS
  <2>4. /\ last \in 0 .. Len(F) /\ index[n].offsets = OffsetsOf(F, last)
        /\ index[n].size <= last
    BY <1>1, <2>2, <2>3 DEF Good, IndexGood, Indexed, Covers
  <2>5. <<0>> \o Marks(SubSeq(F, 1, last), 0) = OffsetsOf(F, last)
    BY <2>2, <2>4, MarksOfReading
  <2>6. QED
    BY <2>1, <2>2, <2>3, <2>4, <2>5
<1>2. QED
  BY <1>1, AlwaysGood, PTL

(* The lines that a request found, where no rotation overtook it.                  *)
LEMMA Found ==
  ASSUME Typed, Good, NEW r \in Readers, read[r].pc = "lines", Sound(r)
  PROVE  /\ log[Home[r]] # NoFile /\ log[Home[r]].frags = Frags(Home[r])
         /\ Frags(Home[r]) \in Seq(Fragment) /\ Len(Frags(Home[r])) \in Nat
         /\ \E end \in 0 .. Len(Frags(Home[r])) :
              /\ Located(Frags(Home[r]), read[r], end) /\ read[r].size <= end
              /\ PageBefore(r, end)
<1>1. Home[r] \in Nodes /\ log[Home[r]] # NoFile
  BY Parts DEF Typed, ReadTyped, Sound
<1>2. QED
  BY <1>1, Parts, FragsType DEF Good, LinesGood, Frags

(* A request that no rotation overtakes never fails to read its lines: a read      *)
(* fails only of a log that was rotated since the stat, or with an index that was  *)
(* mixed or torn.                                                                  *)
THEOREM ReadsCorrect == Spec => ReadsSucceed
<1>1. ASSUME Typed, Good
      PROVE  \A r \in Readers : ReadFails(r) => read[r].mixed \/ read[r].file # rotations
  <2> SUFFICES ASSUME NEW r \in Readers, ReadFails(r), ~read[r].mixed, read[r].file = rotations
               PROVE  FALSE
    OBVIOUS
  <2>1. read[r].pc = "lines" /\ ~Fits(log[Home[r]].frags, read[r]) /\ Sound(r)
    BY DEF ReadFails, Sound
  <2>2. read[r] \in AtLines
    BY <1>1, <2>1, Parts, ReadFields
  <2>3. PICK F : F = Frags(Home[r])
    OBVIOUS
  <2>4. /\ log[Home[r]].frags = F /\ F \in Seq(Fragment)
        /\ \E end \in 0 .. Len(F) : Located(F, read[r], end)
    BY <1>1, <2>1, <2>3, Found
  <2>5. Fits(F, read[r])
    BY <2>2, <2>4, LinesCount
  <2>6. QED
    BY <2>1, <2>4, <2>5
<1>2. QED
  BY <1>1, AlwaysGood, PTL DEF ReadsSucceed

(* The newest page reaches the end that the log had at the stat of its request:    *)
(* the index that the request was given, extended or found, was never older.       *)
THEOREM NewestCorrect == Spec => NewestReachesEnd
<1>1. ASSUME Typed, Good
      PROVE  \A r \in Readers :
               (ReadNothing(r) \/ ReadLines(r)) /\ read[r].ask = Newest
               /\ ~read[r].mixed /\ read[r].file = rotations => read[r].size <= read[r].to
  <2> SUFFICES ASSUME NEW r \in Readers, ReadNothing(r) \/ ReadLines(r), read[r].ask = Newest,
                      ~read[r].mixed, read[r].file = rotations
               PROVE  read[r].size <= read[r].to
    OBVIOUS
  <2>1. read[r].pc = "lines" /\ Sound(r)
    BY DEF ReadNothing, ReadLines, Sound
  <2>2. QED
    BY <1>1, <2>1, Found DEF Located
<1>2. QED
  BY <1>1, AlwaysGood, PTL DEF NewestReachesEnd

(* Where the lines after, and before, a page lie.                                  *)
LEMMA Neighbours ==
  ASSUME NEW F \in Seq(Fragment), NEW s \in AtLines, NEW end \in 0 .. Len(F), Located(F, s, end),
         NEW old \in Page, PageAt(F, old), old.to <= end
  PROVE  /\ s.ask = NextOf(old) => s.from <= old.to \/ EndsInLine(F, old.to)
         /\ s.ask = PrevOf(old) => s.to >= old.from
         /\ s.ask = NextOf(old) /\ old.whole => s.from >= old.to
         /\ s.ask = PrevOf(old) /\ old.whole => s.to <= old.from \/ EndsInLine(F, old.from)
<1>1. /\ Len(F) \in Nat /\ \A i \in 1 .. Len(F) : F[i].half \in {"head", "tail"}
      /\ PageSize \in Nat
  <2>1. \A i \in 1 .. Len(F) : F[i] \in Fragment
    BY LenProperties, ElementOfSeq
  <2>2. QED
    BY <2>1, LenProperties, PageSizeAssumption DEF Fragment
<1>2. /\ s.from \in Nat /\ s.to \in Nat /\ s.from <= s.to /\ s.to <= end /\ end \in Nat
      /\ AtLineEnd(F, s.from) \/ s.from = end
      /\ AtLineEnd(F, s.to) \/ s.to = end
  BY <1>1 DEF AtLines, Located
<1>3. /\ old.from \in Nat /\ old.to \in Nat /\ old.start \in Nat /\ old.end \in Nat
      /\ old.from <= old.to /\ old.from <= Len(F) /\ old.to <= Len(F)
  BY <1>1 DEF Page, PageAt
<1>4. PICK total : total = LineNo(F, end)
  OBVIOUS
<1>5. PICK first, last : first = LineNo(F, s.from) /\ last = LineNo(F, s.to)
  OBVIOUS
<1>6. PICK from, to : from = LineNo(F, old.from) /\ to = LineNo(F, old.to)
  OBVIOUS
<1>7. total \in Nat /\ first \in Nat /\ last \in Nat /\ from \in Nat /\ to \in Nat
  BY <1>2, <1>3, <1>4, <1>5, <1>6, EndsType
<1>8. to <= total /\ from <= to
  BY <1>2, <1>3, <1>4, <1>6, LineNoOrder
<1>9. /\ from <= old.start /\ old.end <= to
      /\ old.whole => old.start = from /\ old.end = to
  BY <1>6 DEF PageAt
<1>10. /\ s.ask = NextOf(old) => first = Least(old.end, total)
       /\ s.ask = PrevOf(old) => last = Least(old.start, total)
  <2>1. PICK ask, b : ask = s.ask /\ b = PageBounds(ask, total, PageSize)
    OBVIOUS
  <2>2. ask = Newest \/ ask \in [dir : {"prev", "next"}, cursor : Nat]
    BY <2>1 DEF AtLines, Ask
  <2>3. first = b.start /\ last = b.end
    BY <1>4, <1>5, <2>1 DEF Located
  <2>4. LET c == PageBounds(ask, total, PageSize)
        IN  /\ c \in [start : Nat, end : Nat] /\ c.start <= c.end /\ c.end <= total
            /\ ask = Newest => c.end = total
            /\ ask.dir = "next" => c.start = Least(ask.cursor, total)
            /\ ask.dir = "prev" => c.end = Least(ask.cursor, total)
    BY <1>1, <1>7, <2>2, BoundsRange, Zenon
  <2>5. /\ ask.dir = "next" => b.start = Least(ask.cursor, total)
        /\ ask.dir = "prev" => b.end = Least(ask.cursor, total)
    BY <2>1, <2>4
  <2>6. /\ ask = NextOf(old) => ask.dir = "next" /\ ask.cursor = old.end
        /\ ask = PrevOf(old) => ask.dir = "prev" /\ ask.cursor = old.start
    BY DEF NextOf, PrevOf
  <2>7. QED
    BY <2>1, <2>3, <2>5, <2>6
<1>11. Least(old.end, total) <= old.end /\ Least(old.start, total) <= old.start
       /\ (old.end <= total => Least(old.end, total) = old.end)
       /\ Least(old.start, total) \in {old.start, total}
  BY <1>3, <1>7 DEF Least
<1>12. ASSUME NEW at \in Nat, at <= Len(F), ~EndsInLine(F, at)
       PROVE  AtLineEnd(F, at)
  BY <1>1, <1>12 DEF EndsInLine, AtLineEnd
<1>13. ASSUME s.ask = NextOf(old), ~EndsInLine(F, old.to), s.from > old.to
       PROVE  FALSE
  <2>1. AtLineEnd(F, old.to)
    BY <1>3, <1>12, <1>13
  <2>2. to < first
    BY <1>2, <1>3, <1>5, <1>6, <1>13, <2>1, LineNoOrder
  <2>3. QED
    BY <1>3, <1>7, <1>9, <1>10, <1>11, <1>13, <2>2
<1>14. ASSUME s.ask = PrevOf(old), s.to < old.from
       PROVE  FALSE
  <2>1. AtLineEnd(F, s.to)
    BY <1>2, <1>3, <1>14
  <2>2. last < from
    BY <1>2, <1>3, <1>5, <1>6, <1>14, <2>1, LineNoOrder
  <2>3. QED
    BY <1>3, <1>7, <1>8, <1>9, <1>10, <1>11, <1>14, <2>2
<1>15. ASSUME s.ask = NextOf(old), old.whole, s.from < old.to
       PROVE  FALSE
  <2>1. AtLineEnd(F, s.from)
    BY <1>2, <1>3, <1>15
  <2>2. first < to
    BY <1>2, <1>3, <1>5, <1>6, <1>15, <2>1, LineNoOrder
  <2>3. QED
    BY <1>3, <1>7, <1>8, <1>9, <1>10, <1>11, <1>15, <2>2
<1>16. ASSUME s.ask = PrevOf(old), old.whole, ~EndsInLine(F, old.from), s.to > old.from
       PROVE  FALSE
  <2>1. AtLineEnd(F, old.from)
    BY <1>3, <1>12, <1>16
  <2>2. from < last
    BY <1>2, <1>3, <1>5, <1>6, <1>16, <2>1, LineNoOrder
  <2>3. QED
    BY <1>3, <1>7, <1>9, <1>10, <1>11, <1>16, <2>2
<1>17. QED
  BY <1>2, <1>3, <1>13, <1>14, <1>15, <1>16

(* The pages of a file that a browser goes through adjoin, however many lines      *)
(* arrive meanwhile and whoever extends the index: none is left out, but the rest  *)
(* of a line of which a page showed a part, and none is shown twice, unless a line *)
(* of the page did not parse.                                                      *)
THEOREM PagesFollow == Spec => PagesAdjoin
<1> DEFINE Adjoin(r) ==
         LET old == page[r]
             new == page'[r]
             frags == log[Home[r]].frags
             comparable == /\ ~old.mixed /\ ~new.mixed
                           /\ {old.file, new.file} = {rotations}
         IN  (ReadNothing(r) \/ ReadLines(r)) /\ comparable =>
               /\ read[r].ask = NextOf(old) => new.from <= old.to \/ EndsInLine(frags, old.to)
               /\ read[r].ask = PrevOf(old) => new.to >= old.from
               /\ read[r].ask = NextOf(old) /\ old.whole => new.from >= old.to
               /\ read[r].ask = PrevOf(old) /\ old.whole =>
                     new.to <= old.from \/ EndsInLine(frags, old.from)
<1>1. ASSUME Typed, Good
      PROVE  \A r \in Browsers : Adjoin(r)
  <2> SUFFICES ASSUME NEW r \in Browsers, ReadNothing(r) \/ ReadLines(r),
                      ~page[r].mixed, ~page'[r].mixed,
                      {page[r].file, page'[r].file} = {rotations}
               PROVE  LET old == page[r]
                          new == page'[r]
                          frags == log[Home[r]].frags
                      IN  /\ read[r].ask = NextOf(old) =>
                               new.from <= old.to \/ EndsInLine(frags, old.to)
                          /\ read[r].ask = PrevOf(old) => new.to >= old.from
                          /\ read[r].ask = NextOf(old) /\ old.whole => new.from >= old.to
                          /\ read[r].ask = PrevOf(old) /\ old.whole =>
                               new.to <= old.from \/ EndsInLine(frags, old.from)
    BY Zenon
  <2> DEFINE s == read[r]
  <2>1. r \in Readers /\ Home[r] \in Nodes /\ page[r] \in Page
    BY <1>1, Parts
  <2>2. s.pc = "lines"
    BY DEF ReadNothing, ReadLines
  <2>3. s \in AtLines
    BY <1>1, <2>1, <2>2, Parts, ReadFields
  <2>4. PICK shown \in SUBSET Event, count \in Nat : page'[r] = PageOf(s, shown, count)
    <3>1. CASE ReadNothing(r)
      BY <1>1, <2>1, <3>1, NothingTyped
    <3>2. CASE ReadLines(r)
      <4>1. Frags(Home[r]) \in Seq(Fragment)
        BY <1>1, <2>1, Parts, FragsType
      <4>2. QED
        BY <1>1, <2>1, <2>3, <3>2, <4>1, LinesTyped, LinesType
    <3>3. QED
      BY <3>1, <3>2
  <2>5. PICK new : new = page'[r]
    OBVIOUS
  <2>6. new.file = s.file /\ new.mixed = s.mixed /\ new.from = s.from /\ new.to = s.to
    BY <2>3, <2>4, <2>5, PageOfType
  <2>7. Sound(r) /\ Shown(r)
    BY <2>5, <2>6 DEF Sound, Shown
  <2>8. PICK F : F = Frags(Home[r])
    OBVIOUS
  <2>9. /\ log[Home[r]].frags = F /\ F \in Seq(Fragment)
        /\ \E end \in 0 .. Len(F) : Located(F, s, end) /\ PageBefore(r, end)
    BY <1>1, <2>1, <2>2, <2>7, <2>8, Found
  <2>10. PICK end \in 0 .. Len(F) : Located(F, s, end) /\ page[r].to <= end
    BY <2>7, <2>9 DEF PageBefore
  <2>11. PageAt(F, page[r])
    BY <1>1, <2>7, <2>8 DEF Good, PageGood
  <2>12. /\ s.ask = NextOf(page[r]) => s.from <= page[r].to \/ EndsInLine(F, page[r].to)
         /\ s.ask = PrevOf(page[r]) => s.to >= page[r].from
         /\ s.ask = NextOf(page[r]) /\ page[r].whole => s.from >= page[r].to
         /\ s.ask = PrevOf(page[r]) /\ page[r].whole =>
              s.to <= page[r].from \/ EndsInLine(F, page[r].from)
    BY <2>1, <2>3, <2>9, <2>10, <2>11, Neighbours
  <2>13. QED
    BY <2>5, <2>6, <2>9, <2>12
<1>2. [][\A r \in Browsers : Adjoin(r)]_vars <=> PagesAdjoin
  BY DEF PagesAdjoin
<1> HIDE DEF Adjoin
<1>3. QED
  BY <1>1, <1>2, AlwaysGood, PTL
===============================================================================
