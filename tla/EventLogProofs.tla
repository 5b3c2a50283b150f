--------------------------- MODULE EventLogProofs ----------------------------
(***************************************************************************)
(* Proofs about EventLog for every cap, every number of events and lines   *)
(* of any length: that the log is bounded, that its events are in order    *)
(* and, unless a write fails, the daemon's intact, its types, and what the *)
(* shell is shown.                                                         *)
(***************************************************************************)
EXTENDS EventLog, FiniteSetTheorems, SequenceTheorems, TLAPS

(***************************************************************************)
(* The newlines of a part of a text.                                       *)
(***************************************************************************)

Newlines(s, a, b) == {i \in a..b : s[i].last}

Count(s, a, b) == Cardinality(Newlines(s, a, b))

\* A part of a text has finitely many newlines, an empty one none.
LEMMA CountType ==
    ASSUME NEW s, NEW a \in Int, NEW b \in Int
    PROVE  /\ IsFiniteSet(Newlines(s, a, b)) /\ Count(s, a, b) \in Nat
           /\ b < a => Count(s, a, b) = 0
<1>1. IsFiniteSet(a..b)
  BY FS_Interval
<1>2. Newlines(s, a, b) \in SUBSET (a..b)
  BY DEF Newlines
<1>3. IsFiniteSet(Newlines(s, a, b))
  BY <1>1, <1>2, FS_Subset
<1>4. b < a => Newlines(s, a, b) = {}
  BY DEF Newlines
<1> QED BY <1>3, <1>4, FS_CardinalityType, FS_EmptySet DEF Count

\* The newlines of two adjacent parts add up.
LEMMA CountSplit ==
    ASSUME NEW s, NEW a \in Int, NEW b \in Int, NEW c \in Int, a <= b + 1, b <= c
    PROVE  Count(s, a, c) = Count(s, a, b) + Count(s, b + 1, c)
<1> DEFINE L == Newlines(s, a, b)
           R == Newlines(s, b + 1, c)
<1>1. b + 1 \in Int
  OBVIOUS
<1>2. IsFiniteSet(L) /\ IsFiniteSet(R) /\ Cardinality(L) \in Nat /\ Cardinality(R) \in Nat
  BY <1>1, CountType DEF Count
<1>3. Newlines(s, a, c) = L \cup R /\ L \cap R = {}
  BY DEF Newlines
<1> HIDE DEF L, R
<1>4. Cardinality(L \cup R) = Cardinality(L) + Cardinality(R) - Cardinality(L \cap R)
  BY <1>2, FS_Union
<1>5. Cardinality(L \cap R) = 0
  BY <1>3, FS_EmptySet
<1>6. Cardinality(L \cup R) = Cardinality(L) + Cardinality(R)
  BY <1>2, <1>4, <1>5
<1> QED BY <1>3, <1>6 DEF Count, L, R

\* A copy of a part at another offset has as many.
LEMMA CountShift ==
    ASSUME NEW s, NEW t, NEW a \in Int, NEW b \in Int, NEW u \in Int, NEW v \in Int,
           v - u = b - a, \A i \in a..b : t[i + (u - a)] = s[i]
    PROVE  Count(t, u, v) = Count(s, a, b)
<1> DEFINE d == u - a
           S == Newlines(s, a, b)
           T == Newlines(t, u, v)
           f == [i \in S |-> i + d]
<1>1. IsFiniteSet(S)
  BY CountType
<1>2. ExistsBijection(S, T)
  <2>1. \A i \in S : i \in Int /\ i + d \in T
    BY DEF Newlines
  <2>2. f \in [S -> T] /\ \A i, j \in S : f[i] = f[j] => i = j
    BY <2>1
  <2>3. ASSUME NEW j \in T PROVE j - d \in S /\ f[j - d] = j
    <3>1. j \in u..v /\ t[j].last
      BY DEF Newlines
    <3>2. j - d \in a..b /\ (j - d) + d = j
      BY <3>1
    <3>3. t[j] = s[j - d]
      BY <3>2
    <3>4. j - d \in S
      BY <3>1, <3>2, <3>3 DEF Newlines
    <3> QED BY <3>2, <3>4
  <2> HIDE DEF f, S, T
  <2>4. f \in Bijection(S, T)
    BY <2>2, <2>3 DEF Bijection, Injection, Surjection, IsInjective
  <2> QED BY <2>4 DEF ExistsBijection
<1> HIDE DEF S, T
<1>3. Cardinality(T) = Cardinality(S)
  BY <1>1, <1>2, FS_Bijection
<1> QED BY <1>3 DEF Count, S, T

\* A part that is the same in two texts has as many.
LEMMA CountSame ==
    ASSUME NEW s, NEW t, NEW a \in Int, NEW b \in Int, \A i \in a..b : t[i] = s[i]
    PROVE  Count(t, a, b) = Count(s, a, b)
<1>1. Newlines(t, a, b) = Newlines(s, a, b)
  BY DEF Newlines
<1> QED BY <1>1 DEF Count

\* Ends counts the newlines of all of a text.
LEMMA CountAll ==
    ASSUME NEW S, NEW s \in Seq(S)
    PROVE  Cardinality(Ends(s)) = Count(s, 1, Len(s))
<1>1. DOMAIN s = 1..Len(s)
  OBVIOUS
<1>2. Ends(s) = Newlines(s, 1, Len(s))
  BY <1>1 DEF Ends, Newlines
<1> QED BY <1>2 DEF Count
(***************************************************************************)
(* Positions, counted.                                                     *)
(***************************************************************************)

Rank(S, i) == Cardinality({j \in S : j <= i})

\* The rank of a position, and that of a later one of the same set.
LEMMA RankType ==
    ASSUME NEW n \in Nat, NEW S \in SUBSET (1..n), NEW i \in Nat
    PROVE  /\ IsFiniteSet(S) /\ IsFiniteSet({j \in S : j <= i}) /\ Rank(S, i) \in Nat
           /\ Rank(S, i) <= Cardinality(S) /\ Cardinality(S) \in Nat
<1>1. IsFiniteSet(1..n)
  BY FS_Interval
<1>2. IsFiniteSet(S)
  BY <1>1, FS_Subset
<1>3. {j \in S : j <= i} \in SUBSET S
  OBVIOUS
<1> QED BY <1>2, <1>3, FS_Subset, FS_CardinalityType DEF Rank

LEMMA RankGrows ==
    ASSUME NEW n \in Nat, NEW S \in SUBSET (1..n), NEW i \in S, NEW j \in S, i < j
    PROVE  Rank(S, i) < Rank(S, j)
<1> DEFINE A == {k \in S : k <= i}
           B == {k \in S : k <= j}
<1>1. i \in Nat /\ j \in Nat
  OBVIOUS
<1>2. IsFiniteSet(B) /\ Cardinality(A) \in Nat /\ Cardinality(B) \in Nat
  BY <1>1, RankType DEF Rank
<1>3. A \in SUBSET B /\ j \in B /\ j \notin A
  <2>1. \A k \in S : k \in Nat
    OBVIOUS
  <2>2. \A k \in A : k \in B
    BY <1>1, <2>1
  <2>3. j \in B /\ j \notin A
    BY <1>1
  <2> QED BY <2>2, <2>3, Zenon
<1> HIDE DEF A, B
<1>4. Cardinality(A) <= Cardinality(B) /\ (Cardinality(B) = Cardinality(A) => B = A)
  BY <1>2, <1>3, FS_Subset
<1>5. Cardinality(A) < Cardinality(B)
  BY <1>2, <1>3, <1>4
<1> QED BY <1>5 DEF Rank, A, B

\* Nth takes the position of that rank.
LEMMA NthIs ==
    ASSUME NEW n \in Nat, NEW S \in SUBSET (1..n), NEW k \in 1..Cardinality(S)
    PROVE  Nth(S, k) \in S /\ Rank(S, Nth(S, k)) = k
<1> DEFINE T == {m \in 0..n : k <= Rank(S, m)}
<1>0. Cardinality(S) \in Nat /\ k \in Nat
  <2>1. Cardinality(S) \in Nat
    BY RankType
  <2> QED BY <2>1
<1>a. \A j \in S : j \in Nat /\ 1 <= j /\ j <= n
  OBVIOUS
<1>1. T \subseteq Nat /\ n \in T
  <2>1. {j \in S : j <= n} = S
    BY <1>a, Zenon
  <2>2. Rank(S, n) = Cardinality(S)
    BY <2>1 DEF Rank
  <2> QED BY <1>0, <2>2
<1>2. PICK m \in T : \A i \in T : ~(<<i, m>> \in OpToRel(<, Nat))
  BY <1>1, WFMin, NatLessThanWellFounded
<1>3. m \in 0..n /\ m \in Nat /\ k <= Rank(S, m)
  OBVIOUS
<1>4. \A i \in T : ~(i < m)
  BY <1>1, <1>2 DEF OpToRel
<1>5. m # 0
  <2>a. \A j \in S : ~(j <= 0)
    BY <1>a
  <2>1. {j \in S : j <= 0} = {}
    BY <2>a, Zenon
  <2>2. Rank(S, 0) = 0
    BY <2>1, FS_EmptySet DEF Rank
  <2> QED BY <1>0, <1>3, <2>2
<1>6. m - 1 \in 0..n /\ m - 1 \in Nat /\ m - 1 < m
  BY <1>3, <1>5
<1>7. Rank(S, m - 1) < k
  <2>1. Rank(S, m - 1) \in Nat
    BY <1>6, RankType
  <2>2. ~(k <= Rank(S, m - 1))
    BY <1>4, <1>6
  <2> QED BY <1>0, <2>1, <2>2
<1>8. m \in S
  <2> SUFFICES ASSUME m \notin S PROVE FALSE
    OBVIOUS
  <2>a. \A j \in S : j <= m <=> j <= m - 1
    BY <1>a, <1>3, <1>6
  <2>1. {j \in S : j <= m} = {j \in S : j <= m - 1}
    BY <2>a, Zenon
  <2>2. Rank(S, m) = Rank(S, m - 1)
    BY <2>1 DEF Rank
  <2>3. Rank(S, m) \in Nat
    BY <1>3, RankType
  <2> QED BY <1>0, <1>3, <1>7, <2>2, <2>3
<1>9. Rank(S, m) = Rank(S, m - 1) + 1
  <2> DEFINE A == {j \in S : j <= m - 1}
  <2>a. \A j \in S : j <= m <=> j <= m - 1 \/ j = m
    BY <1>a, <1>3, <1>6
  <2>b. m \in {j \in S : j <= m} /\ m \notin A
    BY <1>3, <1>8
  <2>1. {j \in S : j <= m} = A \cup {m} /\ m \notin A
    BY <1>8, <2>a, <2>b, Zenon
  <2>2. IsFiniteSet(A)
    BY <1>6, RankType
  <2> HIDE DEF A
  <2>3. Cardinality(A \cup {m}) = Cardinality(A) + 1
    BY <2>1, <2>2, FS_AddElement
  <2> QED BY <2>1, <2>3 DEF Rank, A
<1>10. Rank(S, m) = k
  <2>1. Rank(S, m - 1) \in Nat
    BY <1>6, RankType
  <2> QED BY <1>0, <1>3, <1>7, <1>9, <2>1
<1>11. \E i \in S : Rank(S, i) = k
  BY <1>8, <1>10
<1> QED BY <1>11 DEF Nth, Rank

LEMMA NthAscends ==
    ASSUME NEW n \in Nat, NEW S \in SUBSET (1..n), NEW k \in 1..Cardinality(S),
           NEW l \in 1..Cardinality(S), k < l
    PROVE  Nth(S, k) < Nth(S, l)
<1> DEFINE i == Nth(S, k)   j == Nth(S, l)
<1>1. i \in S /\ j \in S /\ Rank(S, i) = k /\ Rank(S, j) = l
  BY NthIs
<1>2. k \in Nat /\ l \in Nat
  <2>1. Cardinality(S) \in Nat
    BY RankType
  <2> QED BY <2>1
<1> HIDE DEF i, j
<1>3. i # j
  BY <1>1, <1>2
<1>4. ~(j < i)
  <2> SUFFICES ASSUME j < i PROVE FALSE
    OBVIOUS
  <2>1. Rank(S, j) < Rank(S, i)
    BY <1>1, RankGrows
  <2> QED BY <1>1, <1>2, <2>1
<1>5. i \in Nat /\ j \in Nat
  BY <1>1
<1>6. i < j
  BY <1>3, <1>4, <1>5
<1> QED BY <1>6 DEF i, j

LEMMA NthAll ==
    ASSUME NEW n \in Nat, NEW S \in SUBSET (1..n), NEW i \in S
    PROVE  \E k \in 1..Cardinality(S) : Nth(S, k) = i
<1> DEFINE k == Rank(S, i)
<1>1. i \in Nat
  OBVIOUS
<1>2. k \in Nat /\ k <= Cardinality(S) /\ IsFiniteSet({j \in S : j <= i})
      /\ Cardinality(S) \in Nat
  BY <1>1, RankType
<1>3. k # 0
  <2>1. i \in {j \in S : j <= i}
    BY <1>1
  <2>2. {j \in S : j <= i} # {}
    BY <2>1
  <2> QED BY <1>2, <2>2, FS_EmptySet DEF Rank
<1> HIDE DEF k
<1>4. k \in 1..Cardinality(S)
  BY <1>2, <1>3
<1> DEFINE j == Nth(S, k)
<1>5. j \in S /\ Rank(S, j) = k
  BY <1>4, NthIs
<1> HIDE DEF j
<1>6. j \in Nat
  BY <1>5
<1>7. ~(i < j)
  <2> SUFFICES ASSUME i < j PROVE FALSE
    OBVIOUS
  <2>1. Rank(S, i) < Rank(S, j)
    BY <1>5, RankGrows
  <2> QED BY <1>2, <1>5, <2>1 DEF k
<1>8. ~(j < i)
  <2> SUFFICES ASSUME j < i PROVE FALSE
    OBVIOUS
  <2>1. Rank(S, j) < Rank(S, i)
    BY <1>5, RankGrows
  <2> QED BY <1>2, <1>5, <2>1 DEF k
<1>9. j = i
  BY <1>1, <1>6, <1>7, <1>8
<1> QED BY <1>4, <1>9 DEF j

(***************************************************************************)
(* What is appended.                                                       *)
(***************************************************************************)

\* A part of a text is a text, with the newlines of that part.
LEMMA PartOf ==
    ASSUME NEW s \in Seq(Bytes), NEW a \in 1..Len(s) + 1, NEW b \in a - 1..Len(s)
    PROVE  /\ SubSeq(s, a, b) \in Seq(Bytes)
           /\ Len(SubSeq(s, a, b)) = b - a + 1
           /\ \A i \in 1..b - a + 1 : SubSeq(s, a, b)[i] = s[i + (a - 1)]
           /\ Count(SubSeq(s, a, b), 1, b - a + 1) = Count(s, a, b)
<1> DEFINE p == SubSeq(s, a, b)
<1>1. Len(s) \in Nat /\ a \in Int /\ b \in Int
  OBVIOUS
<1>2. \A i \in a..b : s[i] \in Bytes
  BY <1>1
<1>3. /\ p \in Seq(Bytes)
      /\ Len(p) = IF a <= b THEN b - a + 1 ELSE 0
      /\ \A i \in 1..b - a + 1 : p[i] = s[a + i - 1]
  BY <1>1, <1>2, SubSeqProperties
<1> HIDE DEF p
<1>4. Len(p) = b - a + 1 /\ \A i \in 1..b - a + 1 : p[i] = s[i + (a - 1)]
  BY <1>1, <1>3
<1>5. \A i \in 1..b - a + 1 : s[i + (a - 1)] = p[i]
  BY <1>4
<1>6. 1 \in Int /\ b - a + 1 \in Int /\ b - a = (b - a + 1) - 1
  BY <1>1
<1>7. Count(s, a, b) = Count(p, 1, b - a + 1)
  BY <1>1, <1>5, <1>6, CountShift
<1> QED BY <1>3, <1>4, <1>7 DEF p

Writers == {"daemon", "pilot"}

\* One byte of a line.
Byte(id, by, k, w) == [id |-> id, by |-> by, part |-> k, last |-> k = w]

LEMMA ByteIs ==
    ASSUME NEW id \in Nat, NEW by \in Writers, NEW k \in Nat, NEW w \in Nat
    PROVE  /\ Byte(id, by, k, w) \in Bytes
           /\ Byte(id, by, k, w).id = id /\ Byte(id, by, k, w).by = by
           /\ Byte(id, by, k, w).part = k
           /\ Byte(id, by, k, w).last <=> k = w
BY DEF Byte, Bytes, Writers

\* Line makes one line of w bytes.
LEMMA LineIs ==
    ASSUME NEW id \in Nat, NEW by \in Writers, NEW w \in Nat
    PROVE  /\ Line(id, by, w) \in Seq(Bytes) /\ Len(Line(id, by, w)) = w
           /\ \A k \in 1..w : Line(id, by, w)[k] = Byte(id, by, k, w)
<1> DEFINE l == Line(id, by, w)
<1>1. l = [k \in 1..w |-> Byte(id, by, k, w)]
  BY DEF Line, Byte
<1>2. \A k \in 1..w : Byte(id, by, k, w) \in Bytes
  BY ByteIs
<1> HIDE DEF l
<1>3. l \in [1..w -> Bytes]
  BY <1>1, <1>2
<1>4. l \in Seq(Bytes) /\ Len(l) = w
  BY <1>3
<1>5. \A k \in 1..w : l[k] = Byte(id, by, k, w)
  BY <1>1
<1> QED BY <1>4, <1>5 DEF l

\* A text with a line behind it.
\* What an append gets of its line into the file: all of it, or a part.
Piece(id, by, w, n) == SubSeq(Line(id, by, w), 1, n)

LEMMA PieceIs ==
    ASSUME NEW id \in Nat, NEW by \in Writers, NEW w \in Nat, NEW n \in 0..w
    PROVE  LET l == Piece(id, by, w, n)
           IN  /\ l \in Seq(Bytes) /\ Len(l) = n
               /\ \A k \in 1..n : l[k] = Byte(id, by, k, w)
<1> DEFINE l == Line(id, by, w)
           p == SubSeq(l, 1, n)
<1>1. l \in Seq(Bytes) /\ Len(l) = w /\ \A k \in 1..w : l[k] = Byte(id, by, k, w)
  BY LineIs
<1> HIDE DEF l
<1>2. 1 \in 1..Len(l) + 1 /\ n \in 1 - 1..Len(l) /\ n - 1 + 1 = n
  BY <1>1
<1>3. /\ p \in Seq(Bytes) /\ Len(p) = n - 1 + 1
      /\ \A k \in 1..n - 1 + 1 : p[k] = l[k + (1 - 1)]
  BY <1>1, <1>2, PartOf
<1>4. \A k \in 1..n : k + (1 - 1) = k /\ k \in 1..w
  OBVIOUS
<1> HIDE DEF p
<1>5. \A k \in 1..n : p[k] = Byte(id, by, k, w)
  BY <1>1, <1>2, <1>3, <1>4
<1>6. Len(p) = n
  BY <1>2, <1>3
<1> QED BY <1>3, <1>5, <1>6 DEF Piece, p, l

LEMMA WholePiece ==
    ASSUME NEW id \in Nat, NEW by \in Writers, NEW w \in Nat
    PROVE  Piece(id, by, w, w) = Line(id, by, w)
<1> DEFINE l == Line(id, by, w)
<1>1. l \in Seq(Bytes) /\ Len(l) = w
  BY LineIs
<1> HIDE DEF l
<1>2. SubSeq(l, 1, w) = l
  BY <1>1, SubSeqFull
<1> QED BY <1>2 DEF Piece, l

\* A text with a piece of a line behind it.
With(s, id, by, w, n) == s \o Piece(id, by, w, n)

LEMMA WithPiece ==
    ASSUME NEW s \in Seq(Bytes), NEW id \in Nat, NEW by \in Writers,
           NEW w \in Nat, NEW n \in 0..w
    PROVE  /\ With(s, id, by, w, n) \in Seq(Bytes)
           /\ Len(With(s, id, by, w, n)) = Len(s) + n
           /\ \A i \in 1..Len(s) : With(s, id, by, w, n)[i] = s[i]
           /\ \A i \in Len(s) + 1..Len(s) + n :
                 With(s, id, by, w, n)[i] = Byte(id, by, i - Len(s), w)
<1> DEFINE l == Piece(id, by, w, n)
           t == s \o l
           m == Len(s)
<1>1. l \in Seq(Bytes) /\ Len(l) = n /\ \A k \in 1..n : l[k] = Byte(id, by, k, w)
  BY PieceIs, Zenon
<1>2. m \in Nat /\ n \in Nat
  OBVIOUS
<1> HIDE DEF l
<1>3. /\ t \in Seq(Bytes) /\ Len(t) = m + Len(l)
      /\ \A i \in 1..m + Len(l) : t[i] = IF i <= m THEN s[i] ELSE l[i - m]
  BY <1>1, ConcatProperties
<1> HIDE DEF t, m
<1>4. \A i \in 1..m : t[i] = s[i]
  BY <1>1, <1>2, <1>3
<1>5. ASSUME NEW i \in m + 1..m + n PROVE t[i] = Byte(id, by, i - m, w)
  <2>1. i \in 1..m + Len(l) /\ ~(i <= m) /\ i - m \in 1..n
    BY <1>1, <1>2
  <2> QED BY <1>1, <1>3, <2>1
<1>6. With(s, id, by, w, n) = t
  BY DEF With, t, l
<1>7. Len(t) = m + n
  BY <1>1, <1>3
<1> QED BY <1>3, <1>4, <1>5, <1>6, <1>7 DEF m

\* What such a text is, byte by byte.
Grown(t, s, id, by, w, n) ==
    /\ t \in Seq(Bytes) /\ Len(t) = Len(s) + n
    /\ \A i \in 1..Len(s) : t[i] = s[i]
    /\ \A i \in Len(s) + 1..Len(s) + n : t[i] = Byte(id, by, i - Len(s), w)

LEMMA WithGrown ==
    ASSUME NEW s \in Seq(Bytes), NEW id \in Nat, NEW by \in Writers,
           NEW w \in Nat, NEW n \in 0..w
    PROVE  Grown(With(s, id, by, w, n), s, id, by, w, n)
BY WithPiece DEF Grown

LEMMA WithWhole ==
    ASSUME NEW s, NEW id \in Nat, NEW by \in Writers, NEW w \in Nat
    PROVE  With(s, id, by, w, w) = s \o Line(id, by, w)
BY WholePiece DEF With

\* Only the whole line adds a newline.
LEMMA PieceAppended ==
    ASSUME NEW s \in Seq(Bytes), NEW id \in Nat, NEW by \in Writers,
           NEW w \in Nat, w # 0, NEW n \in 0..w, NEW a \in 1..Len(s) + 1
    PROVE  Count(With(s, id, by, w, n), a, Len(s) + n)
              = Count(s, a, Len(s)) + (IF n = w THEN 1 ELSE 0)
<1> DEFINE t == With(s, id, by, w, n)
           m == Len(s)
<1>1. /\ t \in Seq(Bytes) /\ Len(t) = m + n
      /\ \A i \in 1..m : t[i] = s[i]
      /\ \A i \in m + 1..m + n : t[i] = Byte(id, by, i - m, w)
  BY WithPiece
<1>2. m \in Nat /\ n \in Nat /\ n <= w /\ a \in Int /\ a <= m + 1 /\ 1 <= a
  OBVIOUS
<1> HIDE DEF t, m
<1>3. \A i \in m + 1..m + n : t[i].last <=> i = m + w
  <2> SUFFICES ASSUME NEW i \in m + 1..m + n PROVE t[i].last <=> i = m + w
    OBVIOUS
  <2> DEFINE k == i - m
             b == Byte(id, by, k, w)
  <2>1. k = w <=> i = m + w
    BY <1>2
  <2>2. t[i] = b
    BY <1>1
  <2> HIDE DEF k
  <2>3. b.last <=> k = w
    BY DEF Byte
  <2> HIDE DEF b
  <2> QED BY <2>1, <2>2, <2>3
<1>4. Count(t, m + 1, m + n) = IF n = w THEN 1 ELSE 0
  <2>1. CASE n = w
    <3>1. m + w \in m + 1..m + n
      BY <1>2, <2>1
    <3>2. \A i : i \in Newlines(t, m + 1, m + n) <=> i = m + w
      BY <1>3, <3>1 DEF Newlines
    <3>3. Newlines(t, m + 1, m + n) = {m + w}
      BY <3>2
    <3>4. Count(t, m + 1, m + n) = 1
      BY <3>3, FS_Singleton DEF Count
    <3> QED BY <2>1, <3>4
  <2>2. CASE n # w
    <3>1. \A i \in m + 1..m + n : i # m + w
      BY <1>2, <2>2
    <3>2. Newlines(t, m + 1, m + n) = {}
      BY <1>3, <3>1 DEF Newlines
    <3>3. Count(t, m + 1, m + n) = 0
      BY <3>2, FS_EmptySet DEF Count
    <3> QED BY <2>2, <3>3
  <2> QED BY <2>1, <2>2
<1>5. Count(t, a, m) = Count(s, a, m)
  <2>1. \A i \in a..m : t[i] = s[i]
    BY <1>1, <1>2
  <2> QED BY <1>2, <2>1, CountSame
<1>6. Count(t, a, m + n) = Count(t, a, m) + Count(t, m + 1, m + n)
  BY <1>2, CountSplit
<1>7. Count(s, a, m) \in Int
  BY <1>2, CountType
<1> QED BY <1>4, <1>5, <1>6, <1>7 DEF t, m

(***************************************************************************)
(* What the trim keeps and writes back.                                    *)
(***************************************************************************)

\* lines[-_MAX_LINES:] starts behind a newline, and has as many lines as the cap.
LEMMA KeepIs ==
    ASSUME NEW s \in Seq(Bytes), Cardinality(Lasts(s)) > MaxLines
    PROVE  \E c \in Ends(s) :
              /\ c \in 1..Len(s) - 1
              /\ Keep(s) = SubSeq(s, 1 + c, Len(s))
              /\ Cardinality({j \in Lasts(s) : j > c}) = MaxLines
<1> DEFINE L == Lasts(s)
           m == Len(s)
           P(i) == Cardinality({j \in L : j > i}) = MaxLines
           c == CHOOSE i \in L : P(i)
<1>1. m \in Nat /\ DOMAIN s = 1..m
  OBVIOUS
<1>2. L \in SUBSET (1..m) /\ \A i \in L : i \in Ends(s) \/ i = m
  BY <1>1 DEF Lasts, Ends
<1>3. Keep(s) = SubSeq(s, 1 + c, m)
  BY DEF Keep
<1>4. Cardinality(L) > MaxLines
  OBVIOUS
<1> HIDE DEF L, m
<1> DEFINE k == Cardinality(L) - MaxLines
           i == Nth(L, k)
<1>5. MaxLines \in Nat /\ MaxLines # 0 /\ Cardinality(L) \in Nat
  BY <1>1, <1>2, RankType, EventLogAssumption
<1>6. k \in 1..Cardinality(L)
  BY <1>4, <1>5
<1>7. i \in L /\ Rank(L, i) = k
  BY <1>1, <1>2, <1>6, NthIs
<1> HIDE DEF i, k
<1>8. P(i)
  <2> DEFINE A == {j \in L : j <= i}
             B == {j \in L : j > i}
  <2>1. \A j \in L : j \in Int
    BY <1>2
  <2>2. A \cup B = L /\ A \cap B = {}
    <3>1. \A j \in L : ~(j <= i) <=> j > i
      BY <1>7, <2>1
    <3> QED BY <3>1, Zenon
  <2>3. IsFiniteSet(L) /\ IsFiniteSet(A) /\ Cardinality(A) = k
    <3>1. i \in Nat
      BY <1>2, <1>7
    <3> QED BY <1>1, <1>2, <1>7, <3>1, RankType DEF Rank
  <2>4. IsFiniteSet(B)
    <3>1. B \in SUBSET L
      OBVIOUS
    <3> QED BY <2>3, <3>1, FS_Subset
  <2> HIDE DEF A, B
  <2>5. Cardinality(A \cup B) = Cardinality(A) + Cardinality(B) - Cardinality(A \cap B)
    BY <2>3, <2>4, FS_Union
  <2>6. Cardinality(A \cap B) = 0 /\ Cardinality(B) \in Nat
    BY <2>2, <2>4, FS_EmptySet, FS_CardinalityType
  <2>7. Cardinality(L) = k + Cardinality(B)
    <3>1. k \in Nat
      BY <1>5, <1>6
    <3>2. Cardinality(L) = k + Cardinality(B) - 0
      BY <2>2, <2>3, <2>5, <2>6
    <3> HIDE DEF k
    <3> QED BY <2>6, <3>1, <3>2
  <2>8. Cardinality(B) = MaxLines
    BY <1>5, <2>6, <2>7 DEF k
  <2> QED BY <2>8 DEF B
<1>9. c \in L /\ P(c)
  BY <1>7, <1>8
<1> HIDE DEF c
<1>10. \E j \in L : j > c
  <2> SUFFICES ASSUME {j \in L : j > c} = {} PROVE FALSE
    OBVIOUS
  <2>1. MaxLines = 0
    BY <1>9, FS_EmptySet
  <2> QED BY <1>5, <2>1
<1>11. c \in 1..m - 1
  BY <1>1, <1>2, <1>9, <1>10
<1>12. c \in Ends(s)
  BY <1>1, <1>2, <1>9, <1>11
<1> QED BY <1>3, <1>9, <1>11, <1>12 DEF L, m

\* Its newlines are no more than its lines.
LEMMA KeepHasTheCap ==
    ASSUME NEW s \in Seq(Bytes), Cardinality(Lasts(s)) > MaxLines
    PROVE  Keep(s) \in Seq(Bytes) /\ Cardinality(Ends(Keep(s))) <= MaxLines
<1>1. PICK c \in Ends(s) : /\ c \in 1..Len(s) - 1
                           /\ Keep(s) = SubSeq(s, 1 + c, Len(s))
                           /\ Cardinality({j \in Lasts(s) : j > c}) = MaxLines
  BY KeepIs
<1> DEFINE m == Len(s)
           a == 1 + c
           S == {j \in Lasts(s) : j > c}
<1>2. m \in Nat /\ DOMAIN s = 1..m
  OBVIOUS
<1>3. a \in 1..m + 1 /\ m \in a - 1..m /\ a \in Int
  BY <1>1, <1>2
<1>4. /\ SubSeq(s, a, m) \in Seq(Bytes) /\ Len(SubSeq(s, a, m)) = m - a + 1
      /\ Count(SubSeq(s, a, m), 1, m - a + 1) = Count(s, a, m)
  BY <1>3, PartOf
<1>5. Newlines(s, a, m) \in SUBSET S
  <2> SUFFICES ASSUME NEW i \in Newlines(s, a, m) PROVE i \in Lasts(s) /\ i > c
    OBVIOUS
  <2>1. i \in a..m /\ s[i].last
    BY DEF Newlines
  <2>2. i \in 1..m /\ i > c
    BY <1>1, <1>2, <2>1
  <2> QED BY <1>2, <2>1, <2>2 DEF Lasts, Ends
<1>6. IsFiniteSet(S)
  <2>1. S \in SUBSET (1..m)
    BY <1>2 DEF Lasts, Ends
  <2>2. IsFiniteSet(1..m)
    BY <1>2, FS_Interval
  <2> QED BY <2>1, <2>2, FS_Subset
<1>7. Cardinality(Newlines(s, a, m)) <= Cardinality(S)
  BY <1>5, <1>6, FS_Subset
<1>8. Cardinality(S) = MaxLines
  BY <1>1
<1> HIDE DEF S
<1>9. Cardinality(Ends(SubSeq(s, a, m))) <= MaxLines
  BY <1>4, <1>7, <1>8, CountAll DEF Count
<1>10. Keep(s) = SubSeq(s, a, m)
  BY <1>1
<1> QED BY <1>4, <1>9, <1>10

\* So are those of any text, which may end without one.
LEMMA EndsAreLasts ==
    ASSUME NEW s \in Seq(Bytes)
    PROVE  Cardinality(Ends(s)) <= Cardinality(Lasts(s)) /\ Cardinality(Lasts(s)) \in Nat
<1> DEFINE m == Len(s)
<1>1. m \in Nat /\ DOMAIN s = 1..m
  OBVIOUS
<1>2. Lasts(s) \in SUBSET (1..m) /\ Ends(s) \in SUBSET Lasts(s)
  BY <1>1 DEF Lasts, Ends
<1>3. IsFiniteSet(Lasts(s))
  <2>1. IsFiniteSet(1..m)
    BY <1>1, FS_Interval
  <2> QED BY <1>2, <2>1, FS_Subset
<1> QED BY <1>2, <1>3, FS_Subset, FS_CardinalityType

\* A chunk written at an offset of a text covers as much of it as it is long, and what is
\* behind it stays.
LEMMA OverwriteIs ==
    ASSUME NEW s \in Seq(Bytes), NEW at \in 0..Len(s), NEW t \in Seq(Bytes)
    PROVE  LET n == Len(t)
               o == Overwrite(s, at, t)
               m == IF at + n <= Len(s) THEN Len(s) ELSE at + n
           IN  /\ o \in Seq(Bytes) /\ Len(o) = m
               /\ \A i \in 1..at : o[i] = s[i]
               /\ \A i \in 1..n : o[i + at] = t[i]
               /\ \A i \in at + n + 1..m : o[i] = s[i]
<1> DEFINE n == Len(t)
           p == SubSeq(s, 1, at)
           r == SubSeq(s, at + n + 1, Len(s))
           h == p \o t
           o == h \o r
           m == IF at + n <= Len(s) THEN Len(s) ELSE at + n
<1>1. Len(s) \in Nat /\ n \in Nat /\ at \in Nat /\ at <= Len(s)
  OBVIOUS
<1>2. p \in Seq(Bytes) /\ Len(p) = at /\ \A i \in 1..at : p[i] = s[i]
  <2>1. 1 \in 1..Len(s) + 1 /\ at \in 1 - 1..Len(s) /\ at - 1 + 1 = at
    BY <1>1
  <2>2. /\ p \in Seq(Bytes) /\ Len(p) = at - 1 + 1
        /\ \A i \in 1..at - 1 + 1 : p[i] = s[i + (1 - 1)]
    BY <2>1, PartOf
  <2>3. \A i \in 1..at : i + (1 - 1) = i
    BY <1>1
  <2> HIDE DEF p
  <2> QED BY <2>1, <2>2, <2>3
<1>3. /\ r \in Seq(Bytes) /\ Len(r) = m - (at + n)
      /\ \A i \in 1..Len(r) : r[i] = s[i + (at + n)]
  <2>1. \A i \in at + n + 1..Len(s) : s[i] \in Bytes
    BY <1>1
  <2>2. /\ r \in Seq(Bytes)
        /\ Len(r) = IF at + n + 1 <= Len(s) THEN Len(s) - (at + n + 1) + 1 ELSE 0
        /\ \A i \in 1..Len(s) - (at + n + 1) + 1 : r[i] = s[at + n + 1 + i - 1]
    BY <1>1, <2>1, SubSeqProperties
  <2> HIDE DEF r, n
  <2>3. Len(r) = m - (at + n)
    <3>1. CASE at + n <= Len(s)
      BY <1>1, <2>2, <3>1
    <3>2. CASE ~(at + n <= Len(s))
      <4>1. m = at + n /\ ~(at + n + 1 <= Len(s))
        BY <1>1, <3>2
      <4> QED BY <1>1, <2>2, <4>1
    <3> QED BY <3>1, <3>2
  <2>4. ASSUME NEW i \in 1..Len(r) PROVE r[i] = s[i + (at + n)]
    <3>1. i \in 1..Len(s) - (at + n + 1) + 1 /\ at + n + 1 + i - 1 = i + (at + n)
      BY <1>1, <2>2, <2>4
    <3> QED BY <2>2, <3>1
  <2> QED BY <2>2, <2>3, <2>4
<1>4. Overwrite(s, at, t) = o
  BY DEF Overwrite
<1> HIDE DEF p, r
<1>5. /\ h \in Seq(Bytes) /\ Len(h) = at + n
      /\ \A i \in 1..at : h[i] = s[i]
      /\ \A i \in 1..n : h[i + at] = t[i]
  <2>1. /\ h \in Seq(Bytes) /\ Len(h) = Len(p) + Len(t)
        /\ \A i \in 1..Len(p) + Len(t) : h[i] = IF i <= Len(p) THEN p[i] ELSE t[i - Len(p)]
    BY <1>2, ConcatProperties
  <2> HIDE DEF h
  <2>2. \A i \in 1..at : h[i] = s[i]
    BY <1>1, <1>2, <2>1
  <2>3. ASSUME NEW i \in 1..n PROVE h[i + at] = t[i]
    <3>1. i + at \in 1..Len(p) + Len(t) /\ ~(i + at <= Len(p)) /\ (i + at) - Len(p) = i
      BY <1>1, <1>2
    <3> QED BY <2>1, <3>1
  <2> QED BY <1>2, <2>1, <2>2, <2>3
<1> HIDE DEF h
<1>6. /\ o \in Seq(Bytes) /\ Len(o) = m
      /\ \A i \in 1..at + n : o[i] = h[i]
      /\ \A i \in at + n + 1..m : o[i] = s[i]
  <2>1. /\ o \in Seq(Bytes) /\ Len(o) = Len(h) + Len(r)
        /\ \A i \in 1..Len(h) + Len(r) : o[i] = IF i <= Len(h) THEN h[i] ELSE r[i - Len(h)]
    <3>1. h \in Seq(Bytes) /\ r \in Seq(Bytes)
      BY <1>3, <1>5
    <3> QED BY <3>1, ConcatProperties
  <2> HIDE DEF o, n, m
  <2>2. m \in Nat /\ at + n <= m
    BY <1>1 DEF m
  <2>3. Len(o) = m /\ \A i \in 1..at + n : o[i] = h[i]
    BY <1>1, <1>3, <1>5, <2>1, <2>2
  <2>4. ASSUME NEW i \in at + n + 1..m PROVE o[i] = s[i]
    <3>1. i \in 1..Len(h) + Len(r) /\ ~(i <= Len(h)) /\ i - Len(h) \in 1..Len(r)
          /\ (i - Len(h)) + (at + n) = i
      BY <1>1, <1>3, <1>5, <2>2
    <3>2. o[i] = r[i - Len(h)]
      BY <2>1, <3>1
    <3>3. r[i - Len(h)] = s[(i - Len(h)) + (at + n)]
      BY <1>3, <3>1
    <3> QED BY <3>1, <3>2, <3>3
  <2> QED BY <2>1, <2>3, <2>4
<1>7. \A i \in 1..at : i \in 1..at + n
  BY <1>1
<1>8. \A i \in 1..n : i + at \in 1..at + n
  BY <1>1
<1> HIDE DEF o, m
<1> QED BY <1>4, <1>5, <1>6, <1>7, <1>8 DEF n, m

\* A chunk of the trim covers as much of the file as it is long, and appends the rest.
LEMMA Overwritten ==
    ASSUME NEW s \in Seq(Bytes), NEW at \in 0..Len(s), NEW t \in Seq(Bytes)
    PROVE  LET o == Overwrite(s, at, t)
           IN  /\ o \in Seq(Bytes) /\ at + Len(t) <= Len(o)
               /\ Count(o, 1, at + Len(t)) = Count(s, 1, at) + Count(t, 1, Len(t))
               /\ Count(o, at + Len(t) + 1, Len(o)) <= Count(s, at + 1, Len(s))
<1> DEFINE n == Len(t)
           o == Overwrite(s, at, t)
           m == IF at + n <= Len(s) THEN Len(s) ELSE at + n
<1>1. Len(s) \in Nat /\ n \in Nat /\ at \in Nat /\ at <= Len(s)
  OBVIOUS
<1>2. /\ o \in Seq(Bytes) /\ Len(o) = m
      /\ \A i \in 1..at : o[i] = s[i]
      /\ \A i \in 1..n : o[i + at] = t[i]
      /\ \A i \in at + n + 1..m : o[i] = s[i]
  BY OverwriteIs
<1> HIDE DEF o, n
<1>3. Count(o, 1, at + n) = Count(s, 1, at) + Count(t, 1, n)
  <2>1. \A i \in 1..n : o[i + ((at + 1) - 1)] = t[i]
    <3>1. \A i \in 1..n : i + ((at + 1) - 1) = i + at
      BY <1>1
    <3> QED BY <1>2, <3>1
  <2>2. Count(o, at + 1, at + n) = Count(t, 1, n)
    <3>1. /\ 1 \in Int /\ n \in Int /\ at + 1 \in Int /\ at + n \in Int
          /\ (at + n) - (at + 1) = n - 1
      BY <1>1
    <3> QED BY <2>1, <3>1, CountShift
  <2>3. Count(o, 1, at) = Count(s, 1, at)
    BY <1>1, <1>2, CountSame
  <2>4. Count(o, 1, at + n) = Count(o, 1, at) + Count(o, at + 1, at + n)
    BY <1>1, CountSplit
  <2> QED BY <2>2, <2>3, <2>4
<1>4. Count(o, at + n + 1, m) <= Count(s, at + 1, Len(s))
  <2>1. CASE at + n <= Len(s)
    <3>1. m = Len(s)
      BY <2>1
    <3>2. Count(o, at + n + 1, Len(s)) = Count(s, at + n + 1, Len(s))
      BY <1>1, <1>2, <3>1, CountSame
    <3>3. Count(s, at + 1, Len(s)) = Count(s, at + 1, at + n) + Count(s, at + n + 1, Len(s))
      BY <1>1, <2>1, CountSplit
    <3>4. /\ Count(s, at + 1, at + n) \in Nat /\ Count(s, at + n + 1, Len(s)) \in Nat
      BY <1>1, CountType
    <3> HIDE DEF m
    <3> QED BY <3>1, <3>2, <3>3, <3>4
  <2>2. CASE ~(at + n <= Len(s))
    <3>1. m = at + n
      BY <2>2
    <3>2. Count(o, at + n + 1, m) = 0
      BY <1>1, <3>1, CountType
    <3>3. Count(s, at + 1, Len(s)) \in Nat
      BY <1>1, CountType
    <3> HIDE DEF m
    <3> QED BY <3>2, <3>3
  <2> QED BY <2>1, <2>2
<1>5. at + n <= m
  BY <1>1
<1> HIDE DEF m
<1> QED BY <1>2, <1>3, <1>4, <1>5 DEF o, n

(***************************************************************************)
(* The bound.                                                              *)
(***************************************************************************)

Lines(s) == Count(s, 1, Len(s))

\* The types the bound rests on.
Shape ==
    /\ file \in Seq(Bytes) /\ kept \in Seq(Bytes)
    /\ off \in Nat /\ late \in Nat /\ published \in Nat
    /\ dpc \in {"idle", "trim", "rewrite", "write", "down"}

\* At any time the file has the cap, and the lines added since a trim.
FileIsBounded == Lines(file) <= MaxLines + late

\* What is to be written back has the cap.
KeptIsBounded == dpc = "rewrite" => Lines(kept) <= MaxLines

\* While it is written back, what is written and what is left make up the cap, and
\* what stands behind the offset is what the pilot appended.
WriteIsBounded ==
    dpc = "write" =>
        /\ off <= Len(file)
        /\ Count(file, 1, off) + Lines(kept) <= MaxLines
        /\ Count(file, off + 1, Len(file)) <= late

\* No service, no log.
DownIsEmpty == dpc = "down" => file = <<>>

BoundInv == Shape /\ FileIsBounded /\ KeptIsBounded /\ WriteIsBounded /\ DownIsEmpty

LEMMA EmptyHasNone == Lines(<<>>) = 0
<1>1. Len(<<>>) = 0
  OBVIOUS
<1> QED BY <1>1, CountType DEF Lines

LEMMA LinesType == ASSUME NEW s \in Seq(Bytes) PROVE Lines(s) \in Nat
<1>1. Len(s) \in Int
  OBVIOUS
<1> QED BY <1>1, CountType DEF Lines

LEMMA BoundInit == Init => BoundInv
BY EmptyHasNone, EventLogAssumption
   DEF Init, BoundInv, Shape, FileIsBounded, KeptIsBounded, WriteIsBounded, DownIsEmpty

\* An append gets a piece of its line into the file,
Appends(by, w, n) ==
    /\ published' = published + 1
    /\ file' = With(file, published + 1, by, w, n)

\* all of it,
LEMMA WriteIs ==
    ASSUME published \in Nat, NEW by \in Writers, Write(by)
    PROVE  \E w \in Nat : w # 0 /\ w \in 0..w /\ Appends(by, w, w)
<1> DEFINE q == published + 1
<1>1. published' = q /\ q \in Nat
  BY DEF Write
<1>2. PICK w \in Widths : file' = file \o Line(q, by, w)
  BY DEF Write
<1>3. w \in Nat /\ w # 0 /\ w \in 0..w
  BY EventLogAssumption
<1> HIDE DEF q
<1>4. With(file, q, by, w, w) = file \o Line(q, by, w)
  BY <1>1, <1>3, WithWhole
<1> QED BY <1>1, <1>2, <1>3, <1>4 DEF Appends, q

\* or, if it fails, a part.
LEMMA WriteFailsIs ==
    ASSUME NEW by, WriteFails(by)
    PROVE  \E w \in Nat : \E n \in 0..w : w # 0 /\ n # w /\ Appends(by, w, n)
<1>1. PICK w \in Widths : \E n \in 0..w - 1 :
          file' = file \o SubSeq(Line(published + 1, by, w), 1, n)
  BY DEF WriteFails
<1>2. PICK n \in 0..w - 1 : file' = file \o SubSeq(Line(published + 1, by, w), 1, n)
  BY <1>1
<1>3. w \in Nat /\ w # 0
  BY EventLogAssumption
<1>4. n \in 0..w /\ n # w
  BY <1>3
<1>5. published' = published + 1
  BY DEF WriteFails
<1> QED BY <1>2, <1>3, <1>4, <1>5 DEF Appends, With, Piece

\* What an append does to a text: a line more or none, behind every offset in it.
LEMMA PieceAdds ==
    ASSUME NEW s \in Seq(Bytes), NEW id \in Nat, NEW by \in Writers, NEW w \in Nat, w # 0,
           NEW n \in 0..w, NEW o \in 0..Len(s)
    PROVE  /\ With(s, id, by, w, n) \in Seq(Bytes)
           /\ o <= Len(With(s, id, by, w, n))
           /\ Lines(With(s, id, by, w, n)) = Lines(s) + (IF n = w THEN 1 ELSE 0)
           /\ Count(With(s, id, by, w, n), 1, o) = Count(s, 1, o)
           /\ Count(With(s, id, by, w, n), o + 1, Len(With(s, id, by, w, n)))
                 = Count(s, o + 1, Len(s)) + (IF n = w THEN 1 ELSE 0)
<1> DEFINE t == With(s, id, by, w, n)
           m == IF n = w THEN 1 ELSE 0
<1>1. /\ t \in Seq(Bytes) /\ Len(t) = Len(s) + n
      /\ \A i \in 1..Len(s) : t[i] = s[i]
  BY WithPiece
<1>2. ASSUME NEW a \in 1..Len(s) + 1
      PROVE  Count(t, a, Len(t)) = Count(s, a, Len(s)) + m
  <2>1. Count(t, a, Len(s) + n) = Count(s, a, Len(s)) + m
    BY PieceAppended
  <2> HIDE DEF t, m
  <2> QED BY <1>1, <2>1
<1> HIDE DEF t, m
<1>3. 1 \in 1..Len(s) + 1 /\ o + 1 \in 1..Len(s) + 1 /\ o \in Int /\ Len(s) \in Nat /\ n \in Nat
  OBVIOUS
<1>4. Lines(t) = Lines(s) + m
  BY <1>2, <1>3 DEF Lines
<1>5. \A i \in 1..o : t[i] = s[i]
  BY <1>1, <1>3
<1>6. Count(t, 1, o) = Count(s, 1, o)
  BY <1>3, <1>5, CountSame
<1>7. Count(t, o + 1, Len(t)) = Count(s, o + 1, Len(s)) + m
  BY <1>2, <1>3
<1>8. o <= Len(t)
  BY <1>1, <1>3
<1> QED BY <1>1, <1>4, <1>6, <1>7, <1>8 DEF t, m

\* It keeps the bound, if the line it completes is counted.
LEMMA AppendIsBounded ==
    ASSUME BoundInv, NEW by \in Writers, NEW w \in Nat, w # 0, NEW n \in 0..w,
           Appends(by, w, n), late' = IF n = w THEN late + 1 ELSE late, dpc # "down",
           UNCHANGED <<kept, off>>, dpc' = dpc \/ dpc' = "trim"
    PROVE  BoundInv'
<1> DEFINE m == IF n = w THEN 1 ELSE 0
<1>0. m \in Nat /\ late' = IF n = w THEN late + 1 ELSE late
  OBVIOUS
<1>1. /\ Shape /\ FileIsBounded /\ KeptIsBounded /\ WriteIsBounded
      /\ late \in Nat /\ off \in Nat /\ MaxLines \in Nat /\ m \in Nat /\ late' = late + m
      /\ file \in Seq(Bytes) /\ Len(file) \in Int /\ published \in Nat
  BY <1>0, EventLogAssumption DEF BoundInv, Shape
<1> HIDE DEF m
<1>2. /\ file' \in Seq(Bytes) /\ published' \in Nat
      /\ Lines(file') = Lines(file) + m
      /\ off <= Len(file) =>
            /\ off <= Len(file')
            /\ Count(file', 1, off) = Count(file, 1, off)
            /\ Count(file', off + 1, Len(file')) = Count(file, off + 1, Len(file)) + m
  <2> DEFINE q == published + 1
  <2>1. file' = With(file, q, by, w, n) /\ published' = q
    BY DEF Appends
  <2>2. q \in Nat /\ 0 \in 0..Len(file) /\ (off <= Len(file) => off \in 0..Len(file))
    BY <1>1
  <2> HIDE DEF q
  <2>3. file' \in Seq(Bytes) /\ Lines(file') = Lines(file) + m
    <3>1. /\ With(file, q, by, w, n) \in Seq(Bytes)
          /\ Lines(With(file, q, by, w, n)) = Lines(file) + m
      BY <1>1, <2>2, PieceAdds DEF m
    <3> QED BY <2>1, <3>1
  <2>4. ASSUME off \in 0..Len(file)
        PROVE  /\ off <= Len(file')
               /\ Count(file', 1, off) = Count(file, 1, off)
               /\ Count(file', off + 1, Len(file')) = Count(file, off + 1, Len(file)) + m
    <3>1. /\ off <= Len(With(file, q, by, w, n))
          /\ Count(With(file, q, by, w, n), 1, off) = Count(file, 1, off)
          /\ Count(With(file, q, by, w, n), off + 1, Len(With(file, q, by, w, n)))
                = Count(file, off + 1, Len(file)) + m
      BY <1>1, <2>2, <2>4, PieceAdds DEF m
    <3> QED BY <2>1, <3>1
  <2> QED BY <2>1, <2>2, <2>3, <2>4
<1>3. Lines(file) \in Nat /\ Count(file, off + 1, Len(file)) \in Nat
  BY <1>1, LinesType, CountType
<1>4. Shape'
  BY <1>1, <1>2 DEF Shape
<1>5. FileIsBounded'
  BY <1>1, <1>2, <1>3 DEF FileIsBounded
<1>6. KeptIsBounded'
  BY <1>1 DEF KeptIsBounded
<1>7. WriteIsBounded'
  <2> SUFFICES ASSUME dpc' = "write"
               PROVE  /\ off' <= Len(file')
                      /\ Count(file', 1, off') + Lines(kept') <= MaxLines
                      /\ Count(file', off' + 1, Len(file')) <= late'
    BY DEF WriteIsBounded
  <2>1. /\ off <= Len(file) /\ Count(file, 1, off) + Lines(kept) <= MaxLines
        /\ Count(file, off + 1, Len(file)) <= late
    BY <1>1 DEF WriteIsBounded
  <2>2. /\ off <= Len(file') /\ Count(file', 1, off) = Count(file, 1, off)
        /\ Count(file', off + 1, Len(file')) = Count(file, off + 1, Len(file)) + m
    BY <1>2, <2>1
  <2>3. off' = off /\ kept' = kept
    OBVIOUS
  <2>4. Count(file', off + 1, Len(file')) <= late'
    <3> DEFINE a == Count(file, off + 1, Len(file))
               b == Count(file', off + 1, Len(file'))
    <3>1. a \in Nat /\ b = a + m /\ a <= late
      BY <1>3, <2>1, <2>2
    <3> HIDE DEF a, b
    <3>2. b <= late'
      BY <1>1, <3>1
    <3> QED BY <3>2 DEF b
  <2> QED BY <2>1, <2>2, <2>3, <2>4
<1>8. DownIsEmpty'
  BY DEF DownIsEmpty
<1> QED BY <1>4, <1>5, <1>6, <1>7, <1>8 DEF BoundInv

LEMMA BoundStep == BoundInv /\ [Next]_vars => BoundInv'
<1> SUFFICES ASSUME BoundInv, [Next]_vars PROVE BoundInv'
  OBVIOUS
<1>0. /\ Shape /\ FileIsBounded /\ KeptIsBounded /\ WriteIsBounded /\ DownIsEmpty
      /\ file \in Seq(Bytes) /\ kept \in Seq(Bytes) /\ off \in Nat /\ late \in Nat
      /\ published \in Nat /\ MaxLines \in Nat /\ Len(file) \in Nat
      /\ Lines(file) \in Nat /\ Lines(kept) \in Nat
      /\ "daemon" \in Writers /\ "pilot" \in Writers
  BY EventLogAssumption, LinesType DEF BoundInv, Shape, Writers
<1>1. ASSUME UNCHANGED <<file, kept, off, late, published, dpc>> PROVE BoundInv'
  BY <1>1 DEF BoundInv, Shape, FileIsBounded, KeptIsBounded, WriteIsBounded, DownIsEmpty
<1>2. ASSUME Publish PROVE BoundInv'
  <2>1. /\ dpc = "idle" /\ dpc' = "trim" /\ UNCHANGED <<kept, off>> /\ Write("daemon")
        /\ late' = late + 1
    BY <1>2 DEF Publish, Write
  <2>2. PICK w \in Nat : w # 0 /\ w \in 0..w /\ Appends("daemon", w, w)
    BY <1>0, <2>1, WriteIs
  <2> QED BY <1>0, <2>1, <2>2, AppendIsBounded
<1>3. ASSUME Trim PROVE BoundInv'
  <2>1. UNCHANGED <<file, off, published>> /\ dpc = "trim"
    BY <1>3 DEF Trim
  <2>2. CASE /\ Cardinality(Lasts(file)) <= MaxLines /\ dpc' = "idle" /\ kept' = kept
             /\ late' = 0
    <3>1. Cardinality(Ends(file)) <= Cardinality(Lasts(file)) /\ Cardinality(Lasts(file)) \in Nat
      BY <1>0, EndsAreLasts
    <3>2. Cardinality(Ends(file)) = Lines(file)
      BY <1>0, CountAll DEF Lines
    <3>3. Lines(file) <= MaxLines + 0
      BY <1>0, <2>2, <3>1, <3>2
    <3> QED BY <1>0, <2>1, <2>2, <3>3
        DEF BoundInv, Shape, FileIsBounded, KeptIsBounded, WriteIsBounded, DownIsEmpty
  <2>3. CASE /\ Cardinality(Lasts(file)) > MaxLines /\ dpc' = "rewrite" /\ kept' = Keep(file)
             /\ late' = late
    <3>1. Keep(file) \in Seq(Bytes) /\ Cardinality(Ends(Keep(file))) <= MaxLines
      BY <1>0, <2>3, KeepHasTheCap
    <3>2. kept' \in Seq(Bytes) /\ Lines(kept') <= MaxLines
      BY <2>3, <3>1, CountAll DEF Lines
    <3> QED BY <1>0, <2>1, <2>3, <3>2
        DEF BoundInv, Shape, FileIsBounded, KeptIsBounded, WriteIsBounded, DownIsEmpty
  <2> QED BY <1>3, <2>2, <2>3 DEF Trim
<1>4. ASSUME TrimRaises \/ TrimFails \/ WriteBackFails PROVE BoundInv'
  <2>1. dpc # "down" /\ dpc' = "idle" /\ UNCHANGED <<file, off, late, published>>
    BY <1>4 DEF TrimRaises, TrimFails, WriteBackFails
  <2>2. kept' \in Seq(Bytes)
    <3>1. <<>> \in Seq(Bytes)
      OBVIOUS
    <3>2. kept' = kept \/ kept' = <<>>
      BY <1>4 DEF TrimRaises, TrimFails, WriteBackFails
    <3> QED BY <1>0, <3>1, <3>2, Zenon
  <2> QED BY <1>0, <2>1, <2>2
      DEF BoundInv, Shape, FileIsBounded, KeptIsBounded, WriteIsBounded, DownIsEmpty
<1>5. ASSUME Rewrite PROVE BoundInv'
  <2>1. /\ dpc = "rewrite" /\ dpc' = "write" /\ file' = <<>> /\ off' = 0 /\ late' = 0
        /\ UNCHANGED <<kept, published>>
    BY <1>5 DEF Rewrite
  <2>2. Len(file') = 0 /\ file' \in Seq(Bytes)
    BY <2>1
  <2>3. /\ Count(file', 1, off') = 0 /\ Count(file', off' + 1, Len(file')) = 0
        /\ Lines(file') = 0
    BY <2>1, <2>2, CountType DEF Lines
  <2>4. Lines(kept) <= MaxLines
    BY <1>0, <2>1 DEF KeptIsBounded
  <2> QED BY <1>0, <2>1, <2>2, <2>3, <2>4
      DEF BoundInv, Shape, FileIsBounded, KeptIsBounded, WriteIsBounded, DownIsEmpty
<1>6. ASSUME WriteBack PROVE BoundInv'
  <2>1. PICK n \in 1..Len(kept) :
            /\ file' = Overwrite(file, off, SubSeq(kept, 1, n))
            /\ kept' = SubSeq(kept, n + 1, Len(kept))
            /\ off' = off + n
    BY <1>6 DEF WriteBack
  <2> DEFINE c == SubSeq(kept, 1, n)
  <2>2. /\ dpc = "write" /\ dpc' = IF kept' = <<>> THEN "idle" ELSE "write"
        /\ UNCHANGED <<late, published>>
    BY <1>6 DEF WriteBack
  <2>3. /\ off \in 0..Len(file) /\ Count(file, 1, off) + Lines(kept) <= MaxLines
        /\ Count(file, off + 1, Len(file)) <= late
    BY <1>0, <2>2 DEF WriteIsBounded
  <2>4. n \in Nat /\ n >= 1 /\ n <= Len(kept) /\ Len(kept) \in Nat
    BY <1>0
  <2>5. c \in Seq(Bytes) /\ Len(c) = n /\ Lines(c) = Count(kept, 1, n)
    <3>1. 1 \in 1..Len(kept) + 1 /\ n \in 1 - 1..Len(kept) /\ n - 1 + 1 = n
      BY <2>4
    <3>2. /\ c \in Seq(Bytes) /\ Len(c) = n - 1 + 1
          /\ Count(c, 1, n - 1 + 1) = Count(kept, 1, n)
      BY <1>0, <3>1, PartOf
    <3> HIDE DEF c
    <3> QED BY <3>1, <3>2 DEF Lines
  <2>6. kept' \in Seq(Bytes) /\ Lines(kept') = Count(kept, n + 1, Len(kept))
    <3>1. n + 1 \in 1..Len(kept) + 1 /\ Len(kept) \in (n + 1) - 1..Len(kept)
      BY <2>4
    <3>2. /\ kept' \in Seq(Bytes) /\ Len(kept') = Len(kept) - (n + 1) + 1
          /\ Count(kept', 1, Len(kept) - (n + 1) + 1) = Count(kept, n + 1, Len(kept))
      BY <1>0, <2>1, <3>1, PartOf
    <3> QED BY <3>2 DEF Lines
  <2>7. Lines(kept) = Lines(c) + Lines(kept')
    <3>1. Count(kept, 1, Len(kept)) = Count(kept, 1, n) + Count(kept, n + 1, Len(kept))
      BY <2>4, CountSplit
    <3> QED BY <2>5, <2>6, <3>1 DEF Lines
  <2>8. file' = Overwrite(file, off, c)
    BY <2>1
  <2> HIDE DEF c
  <2>9. /\ file' \in Seq(Bytes) /\ off + Len(c) <= Len(file')
        /\ Count(file', 1, off + Len(c)) = Count(file, 1, off) + Count(c, 1, Len(c))
        /\ Count(file', off + Len(c) + 1, Len(file')) <= Count(file, off + 1, Len(file))
    BY <1>0, <2>3, <2>5, <2>8, Overwritten
  <2>10. /\ off' <= Len(file')
         /\ Count(file', 1, off') = Count(file, 1, off) + Lines(c)
         /\ Count(file', off' + 1, Len(file')) <= Count(file, off + 1, Len(file))
    BY <2>1, <2>5, <2>9 DEF Lines
  <2>11. off' \in Nat /\ Len(file') \in Nat
    BY <1>0, <2>1, <2>4, <2>9
  <2>12. /\ Count(file, 1, off) \in Nat /\ Count(file, off + 1, Len(file)) \in Nat
         /\ Count(file', off' + 1, Len(file')) \in Nat
    BY <1>0, <2>11, CountType
  <2>13. Lines(c) \in Nat /\ Lines(kept') \in Nat
    BY <2>5, <2>6, LinesType
  <2>14. /\ Count(file', 1, off') + Lines(kept') <= MaxLines
         /\ Count(file', off' + 1, Len(file')) <= late
    <3> DEFINE a == Count(file, 1, off)
               b == Lines(c)
               d == Lines(kept')
               e == Count(file, off + 1, Len(file))
               g == Count(file', off' + 1, Len(file'))
    <3>1. /\ a \in Nat /\ b \in Nat /\ d \in Nat /\ e \in Nat /\ g \in Nat
          /\ a + (b + d) <= MaxLines /\ e <= late /\ g <= e
          /\ Count(file', 1, off') = a + b
      BY <2>3, <2>7, <2>10, <2>12, <2>13
    <3> HIDE DEF a, b, d, e, g
    <3>2. (a + b) + d <= MaxLines /\ g <= late
      BY <1>0, <3>1
    <3> QED BY <3>1, <3>2 DEF d, g
  <2>15. Lines(file') <= MaxLines + late
    <3>1. Count(file', 1, Len(file'))
            = Count(file', 1, off') + Count(file', off' + 1, Len(file'))
      BY <2>10, <2>11, CountSplit
    <3>2. Count(file', 1, off') \in Nat
      BY <2>11, CountType
    <3>3. Lines(file') = Count(file', 1, off') + Count(file', off' + 1, Len(file'))
      BY <3>1 DEF Lines
    <3> DEFINE a == Count(file', 1, off')
               b == Lines(kept')
               d == Count(file', off' + 1, Len(file'))
    <3>4. /\ a \in Nat /\ b \in Nat /\ d \in Nat /\ a + b <= MaxLines /\ d <= late
          /\ Lines(file') = a + d
      BY <2>12, <2>13, <2>14, <3>2, <3>3
    <3> HIDE DEF a, b, d
    <3> QED BY <1>0, <3>4
  <2> QED BY <1>0, <2>2, <2>6, <2>9, <2>10, <2>11, <2>14, <2>15
      DEF BoundInv, Shape, FileIsBounded, KeptIsBounded, WriteIsBounded, DownIsEmpty
<1>7. ASSUME PilotPublish PROVE BoundInv'
  <2>1. /\ dpc # "down" /\ Write("pilot") /\ late' = late + 1
        /\ UNCHANGED <<kept, off, dpc>>
    BY <1>7 DEF PilotPublish, Write, daemonVars
  <2>2. PICK w \in Nat : w # 0 /\ w \in 0..w /\ Appends("pilot", w, w)
    BY <1>0, <2>1, WriteIs
  <2> QED BY <1>0, <2>1, <2>2, AppendIsBounded
<1>8. ASSUME PublishFails \/ PilotPublishFails PROVE BoundInv'
  <2>1. dpc # "down" /\ UNCHANGED <<kept, off, dpc, late>>
    BY <1>8 DEF PublishFails, PilotPublishFails
  <2>2. PICK by \in Writers : WriteFails(by)
    BY <1>0, <1>8 DEF PublishFails, PilotPublishFails
  <2>3. PICK w \in Nat : \E n \in 0..w : w # 0 /\ n # w /\ Appends(by, w, n)
    BY <2>2, WriteFailsIs
  <2>4. PICK n \in 0..w : w # 0 /\ n # w /\ Appends(by, w, n)
    BY <2>3
  <2> QED BY <2>1, <2>4, AppendIsBounded
<1>9. ASSUME Stop PROVE BoundInv'
  BY <1>0, <1>9, EmptyHasNone
     DEF Stop, BoundInv, Shape, FileIsBounded, KeptIsBounded, WriteIsBounded, DownIsEmpty
<1>10. ASSUME Start PROVE BoundInv'
  BY <1>0, <1>10
     DEF Start, BoundInv, Shape, FileIsBounded, KeptIsBounded, WriteIsBounded, DownIsEmpty
<1>11. ASSUME Poll PROVE BoundInv'
  BY <1>1, <1>11 DEF Poll, Stat, Prime, Read, ReadRaises, OpenFails, daemonVars
<1>12. CASE UNCHANGED vars
  BY <1>1, <1>12 DEF vars
<1> QED
  BY <1>2, <1>3, <1>4, <1>5, <1>6, <1>7, <1>8, <1>9, <1>10, <1>11, <1>12 DEF Next

\* However the trim and the appends of the pilot interleave, in whatever chunks the trim
\* writes, whichever write fails, and whenever the service stops, the log never has more
\* lines than the cap and those added since the daemon last held it to that.
THEOREM LogIsBoundedHolds == Spec => []LogIsBounded
<1>1. BoundInv => LogIsBounded
  BY CountAll DEF BoundInv, Shape, FileIsBounded, LogIsBounded, Lines
<1> QED BY <1>1, BoundInit, BoundStep, PTL DEF Spec

(***************************************************************************)
(* Lines that are one event.                                               *)
(***************************************************************************)

WholeAt(s, i) ==
    LET w == s[i].part
    IN  /\ w <= i
        /\ \A k \in 1..w : s[i - w + k] = Byte(s[i].id, s[i].by, k, w)
        /\ w < i => s[i - w].last

\* WholeEnds, byte by byte.
LEMMA WholeIs ==
    ASSUME NEW s \in Seq(Bytes), NEW i \in Ends(s)
    PROVE  /\ i \in 1..Len(s) /\ s[i] \in Bytes /\ s[i].part \in Nat /\ s[i].last
           /\ i \in WholeEnds(s) <=> WholeAt(s, i)
<1>1. i \in 1..Len(s) /\ Len(s) \in Nat /\ s[i].last
  BY DEF Ends
<1>2. s[i] \in Bytes
  BY <1>1
<1> DEFINE w == s[i].part   id == s[i].id   by == s[i].by
           p == SubSeq(s, i - w + 1, i)
           l == Line(id, by, w)
<1>3. w \in Nat /\ id \in Nat /\ by \in Writers
  BY <1>2 DEF Bytes, Writers
<1>4. i \in WholeEnds(s) <=> (w <= i /\ p = l /\ (w < i => s[i - w].last))
  BY DEF WholeEnds
<1>5. WholeAt(s, i) <=> /\ w <= i
                        /\ \A k \in 1..w : s[i - w + k] = Byte(id, by, k, w)
                        /\ w < i => s[i - w].last
  BY DEF WholeAt
<1> HIDE DEF w, id, by
<1>6. l \in Seq(Bytes) /\ Len(l) = w /\ \A k \in 1..w : l[k] = Byte(id, by, k, w)
  BY <1>3, LineIs
<1>7. ASSUME w <= i
      PROVE  p \in Seq(Bytes) /\ Len(p) = w /\ \A k \in 1..w : p[k] = s[i - w + k]
  <2> DEFINE a == i - w + 1
  <2>1. a \in 1..Len(s) + 1 /\ i \in a - 1..Len(s) /\ i - a + 1 = w
        /\ \A k \in 1..w : k + (a - 1) = i - w + k
    BY <1>1, <1>3, <1>7
  <2> HIDE DEF a
  <2>2. /\ SubSeq(s, a, i) \in Seq(Bytes) /\ Len(SubSeq(s, a, i)) = i - a + 1
        /\ \A k \in 1..i - a + 1 : SubSeq(s, a, i)[k] = s[k + (a - 1)]
    BY <2>1, PartOf
  <2>3. p = SubSeq(s, a, i)
    BY DEF a
  <2> HIDE DEF p
  <2> QED BY <2>1, <2>2, <2>3
<1> HIDE DEF p, l
<1>8. ASSUME w <= i
      PROVE  p = l <=> \A k \in 1..w : s[i - w + k] = Byte(id, by, k, w)
  <2>1. p = l => \A k \in 1..w : s[i - w + k] = Byte(id, by, k, w)
    BY <1>6, <1>7, <1>8
  <2>2. ASSUME \A k \in 1..w : s[i - w + k] = Byte(id, by, k, w) PROVE p = l
    <3>1. p \in Seq(Bytes) /\ l \in Seq(Bytes) /\ Len(p) = Len(l)
      BY <1>6, <1>7, <1>8
    <3>2. \A k \in 1..Len(p) : p[k] = l[k]
      BY <1>6, <1>7, <1>8, <2>2
    <3> QED BY <3>1, <3>2, SeqEqual
  <2> QED BY <2>1, <2>2
<1> QED BY <1>1, <1>2, <1>3, <1>4, <1>5, <1>8 DEF w

\* The places of the last w of i bytes.
LEMMA InPart ==
    ASSUME NEW i \in Nat, NEW w \in Nat, w <= i, NEW k \in 1..w
    PROVE  i - w + k \in 1..i
OBVIOUS

\* A newline has the same line before it in a text that shares the bytes up to it, or up
\* to it from the end of another line.
LEMMA WholeShift ==
    ASSUME NEW s \in Seq(Bytes), NEW t \in Seq(Bytes), NEW c \in Nat, NEW i \in Ends(t),
           i + c \in 1..Len(s), \A j \in 1..i : t[j] = s[j + c], c = 0 \/ s[c].last
    PROVE  /\ i + c \in Ends(s) /\ t[i] = s[i + c]
           /\ i \in WholeEnds(t) <=> i + c \in WholeEnds(s)
<1>1. i \in 1..Len(t) /\ Len(t) \in Nat /\ t[i].last /\ i \in Nat /\ t[i].part \in Nat
      /\ (i \in WholeEnds(t) <=> WholeAt(t, i))
  BY WholeIs
<1>2. i \in 1..i /\ t[i] = s[i + c]
  BY <1>1
<1>3. i + c \in Ends(s)
  BY <1>1, <1>2 DEF Ends
<1>4. i + c \in WholeEnds(s) <=> WholeAt(s, i + c)
  BY <1>3, WholeIs
<1> DEFINE w == t[i].part   id == t[i].id   by == t[i].by   I == i + c
<1>5. WholeAt(t, i) <=> /\ w <= i
                        /\ \A k \in 1..w : t[i - w + k] = Byte(id, by, k, w)
                        /\ w < i => t[i - w].last
  BY DEF WholeAt
<1>6. WholeAt(s, I) <=> /\ w <= I
                        /\ \A k \in 1..w : s[I - w + k] = Byte(id, by, k, w)
                        /\ w < I => s[I - w].last
  BY <1>2 DEF WholeAt
<1>7. t[i] \in Bytes
  BY <1>1
<1>8. w \in Nat /\ id \in Nat /\ by \in Writers
  BY <1>7 DEF Bytes, Writers
<1> HIDE DEF w, id, by
<1>9. ASSUME w <= i
      PROVE  /\ \A k \in 1..w : t[i - w + k] = s[I - w + k]
             /\ w < i => t[i - w] = s[I - w]
             /\ w <= I /\ (w = i => I - w = c)
  <2>1. ASSUME NEW k \in 1..w PROVE t[i - w + k] = s[I - w + k]
    <3>1. i \in Nat /\ w \in Nat /\ w <= i
      BY <1>1, <1>8, <1>9
    <3>2. i - w + k \in 1..i
      BY <3>1, InPart
    <3>3. (i - w + k) + c = I - w + k
      BY <3>1
    <3> QED BY <3>2, <3>3
  <2>2. ASSUME w < i PROVE t[i - w] = s[I - w]
    <3>1. i - w \in 1..i /\ (i - w) + c = I - w
      BY <1>1, <1>8, <2>2
    <3> QED BY <3>1
  <2>3. w <= I /\ (w = i => I - w = c)
    BY <1>1, <1>8, <1>9
  <2> QED BY <2>1, <2>2, <2>3
<1>10. ASSUME WholeAt(t, i) PROVE WholeAt(s, I)
  <2>1. w <= i /\ (w < i => t[i - w].last) /\ \A k \in 1..w : t[i - w + k] = Byte(id, by, k, w)
    BY <1>5, <1>10
  <2>2. \A k \in 1..w : s[I - w + k] = Byte(id, by, k, w)
    BY <1>9, <2>1
  <2>3. ASSUME w < I PROVE s[I - w].last
    <3>1. CASE w < i
      BY <1>9, <2>1, <3>1
    <3>2. CASE w = i
      <4>1. I - w = c /\ c # 0
        BY <1>1, <1>9, <2>3, <3>2
      <4> QED BY <4>1
    <3> QED BY <1>1, <1>8, <2>1, <3>1, <3>2
  <2> QED BY <1>6, <1>9, <2>1, <2>2, <2>3
<1>11. ASSUME WholeAt(s, I) PROVE WholeAt(t, i)
  <2>1. w <= I /\ (w < I => s[I - w].last) /\ \A k \in 1..w : s[I - w + k] = Byte(id, by, k, w)
    BY <1>6, <1>11
  <2>2. w <= i
    <3> SUFFICES ASSUME w > i PROVE FALSE
      BY <1>1, <1>8
    <3>1. w - i \in 1..w /\ w - i # w /\ I - w + (w - i) = c /\ c # 0 /\ w - i \in Nat
      BY <1>1, <1>8, <2>1
    <3> DEFINE k == w - i
    <3>2. s[c] = Byte(id, by, k, w)
      <4>1. k \in 1..w /\ I - w + k = c
        BY <3>1
      <4> HIDE DEF k
      <4> QED BY <2>1, <4>1
    <3>3. k \in Nat /\ k # w
      BY <3>1
    <3> HIDE DEF k
    <3>4. ~s[c].last
      <4> DEFINE b == Byte(id, by, k, w)
      <4>1. b.last <=> k = w
        BY DEF Byte
      <4>2. s[c] = b
        BY <3>2
      <4> HIDE DEF b
      <4> QED BY <3>3, <4>1, <4>2
    <3> QED BY <3>1, <3>4
  <2>3. \A k \in 1..w : t[i - w + k] = Byte(id, by, k, w)
    BY <1>9, <2>1, <2>2
  <2>4. w < i => t[i - w].last
    <3>1. w < i => w < I
      BY <1>1, <1>8
    <3> QED BY <1>9, <2>1, <2>2, <3>1
  <2> QED BY <1>5, <2>2, <2>3, <2>4
<1> QED BY <1>1, <1>2, <1>3, <1>4, <1>10, <1>11

Closed(s) == s = <<>> \/ s[Len(s)].last

\* A line written behind a newline, or into an empty file, is whole.
LEMMA NewLineIsWhole ==
    ASSUME NEW s \in Seq(Bytes), NEW id \in Nat, NEW by \in Writers,
           NEW w \in Nat, w # 0, Closed(s)
    PROVE  /\ Len(s) + w \in WholeEnds(With(s, id, by, w, w))
           /\ With(s, id, by, w, w)[Len(s) + w].id = id
           /\ With(s, id, by, w, w)[Len(s) + w].by = by
           /\ \A i \in Ends(With(s, id, by, w, w)) : i \in Ends(s) \/ i = Len(s) + w
<1> DEFINE t == With(s, id, by, w, w)
           n == Len(s)
           e == n + w
<1>1. /\ t \in Seq(Bytes) /\ Len(t) = n + w
      /\ \A i \in 1..n : t[i] = s[i]
      /\ \A i \in n + 1..n + w : t[i] = Byte(id, by, i - n, w)
  <2>1. w \in 0..w
    OBVIOUS
  <2> QED BY <2>1, WithPiece
<1>2. n \in Nat /\ (n = 0 \/ s[n].last) /\ w \in Nat /\ w >= 1
  <2>1. s = <<>> => n = 0
    OBVIOUS
  <2> QED BY <2>1 DEF Closed
<1>3. DOMAIN t = 1..n + w /\ DOMAIN s = 1..n
  BY <1>1
<1> HIDE DEF t, n
<1>4. ASSUME NEW k \in 1..w PROVE n + k \in n + 1..n + w /\ (n + k) - n = k /\ t[n + k] = Byte(id, by, k, w)
  <2>1. n + k \in n + 1..n + w /\ (n + k) - n = k
    BY <1>2
  <2> QED BY <1>1, <2>1
<1>5. ASSUME NEW k \in 1..w
      PROVE  /\ t[n + k].last <=> k = w
             /\ t[n + k].id = id /\ t[n + k].by = by /\ t[n + k].part = k
  <2> DEFINE b == Byte(id, by, k, w)
  <2>1. b.id = id /\ b.by = by /\ b.part = k /\ (b.last <=> k = w)
    BY <1>2, ByteIs
  <2>2. t[n + k] = b
    BY <1>4
  <2> HIDE DEF b
  <2> QED BY <2>1, <2>2
<1>6. w \in 1..w /\ e \in 1..n + w
  BY <1>2
<1>7. t[e].last /\ t[e].id = id /\ t[e].by = by /\ t[e].part = w
  BY <1>5, <1>6
<1>8. e \in Ends(t)
  BY <1>3, <1>6, <1>7 DEF Ends
<1>9. WholeAt(t, e)
  <2>1. e - w = n /\ w <= e
    BY <1>2
  <2>2. \A k \in 1..w : t[e - w + k] = Byte(id, by, k, w)
    BY <1>4, <2>1
  <2>3. w < e => t[e - w].last
    <3> SUFFICES ASSUME w < e PROVE t[n].last
      BY <2>1
    <3>1. n # 0 /\ n \in 1..n
      BY <1>2
    <3> QED BY <1>1, <1>2, <3>1
  <2> HIDE DEF e
  <2> QED BY <1>7, <2>1, <2>2, <2>3 DEF WholeAt
<1>10. e \in WholeEnds(t)
  BY <1>1, <1>8, <1>9, WholeIs
<1>11. ASSUME NEW i \in Ends(t) PROVE i \in Ends(s) \/ i = e
  <2>1. i \in 1..n + w /\ t[i].last
    BY <1>3 DEF Ends
  <2>2. CASE i <= n
    <3>1. i \in 1..n
      BY <1>2, <2>1, <2>2
    <3> QED BY <1>1, <1>3, <2>1, <3>1 DEF Ends
  <2>3. CASE ~(i <= n)
    <3>1. i - n \in 1..w /\ n + (i - n) = i
      BY <1>2, <2>1, <2>3
    <3>2. i - n = w
      BY <1>5, <2>1, <3>1
    <3> QED BY <3>1, <3>2
  <2> QED BY <2>2, <2>3
<1> QED BY <1>7, <1>10, <1>11 DEF t, n

(***************************************************************************)
(* The order of the bytes.                                                 *)
(***************************************************************************)

\* A byte may stand before another: of an earlier event, or of the same line.
Bef(a, b) == a.id < b.id \/ (a.id = b.id /\ ~a.last)

Asc(s) == \A i, j \in DOMAIN s : i < j => Bef(s[i], s[j])

KnownUpTo(s, n) == \A i \in DOMAIN s : s[i].id \in 1..n

\* A part of an ordered text is ordered.
LEMMA AscPart ==
    ASSUME NEW s \in Seq(Bytes), NEW t \in Seq(Bytes), NEW c \in Nat, Asc(s),
           \A i \in DOMAIN t : i + c \in DOMAIN s /\ t[i] = s[i + c]
    PROVE  Asc(t)
<1> SUFFICES ASSUME NEW i \in DOMAIN t, NEW j \in DOMAIN t, i < j PROVE Bef(t[i], t[j])
  BY DEF Asc
<1>1. i \in Int /\ j \in Int /\ i + c < j + c
  OBVIOUS
<1>2. Bef(s[i + c], s[j + c])
  BY <1>1 DEF Asc
<1> QED BY <1>2

\* So is one with another behind it that has later events only.
LEMMA AscJoin ==
    ASSUME NEW t \in Seq(Bytes), NEW m \in 0..Len(t),
           \A i, j \in 1..m : i < j => Bef(t[i], t[j]),
           \A i, j \in m + 1..Len(t) : i < j => Bef(t[i], t[j]),
           \A i \in 1..m : \A j \in m + 1..Len(t) : t[i].id < t[j].id
    PROVE  Asc(t)
<1> SUFFICES ASSUME NEW i \in DOMAIN t, NEW j \in DOMAIN t, i < j PROVE Bef(t[i], t[j])
  BY DEF Asc
<1>1. i \in 1..Len(t) /\ j \in 1..Len(t) /\ Len(t) \in Nat /\ m \in Nat
  OBVIOUS
<1>2. CASE j <= m
  <2>1. i \in 1..m /\ j \in 1..m
    BY <1>1, <1>2
  <2> QED BY <2>1
<1>3. CASE i <= m /\ ~(j <= m)
  <2>1. i \in 1..m /\ j \in m + 1..Len(t)
    BY <1>1, <1>3
  <2> QED BY <2>1 DEF Bef
<1>4. CASE ~(i <= m)
  <2>1. i \in m + 1..Len(t) /\ j \in m + 1..Len(t)
    BY <1>1, <1>4
  <2> QED BY <2>1
<1> QED BY <1>1, <1>2, <1>3, <1>4

\* An ordered text stays so when a later line, or a part of one, is appended.
LEMMA AscPiece ==
    ASSUME NEW s \in Seq(Bytes), NEW p \in Nat, NEW q \in Nat, p < q, NEW by \in Writers,
           NEW w \in Nat, NEW n \in 0..w, Asc(s), KnownUpTo(s, p)
    PROVE  Asc(With(s, q, by, w, n)) /\ KnownUpTo(With(s, q, by, w, n), q)
<1> DEFINE t == With(s, q, by, w, n)
           m == Len(s)
<1>1. /\ t \in Seq(Bytes) /\ Len(t) = m + n
      /\ \A i \in 1..m : t[i] = s[i]
      /\ \A i \in m + 1..m + n : t[i] = Byte(q, by, i - m, w)
  <2>1. Grown(t, s, q, by, w, n)
    BY WithGrown
  <2> QED BY <2>1 DEF Grown
<1>2. m \in Nat /\ n \in Nat /\ n <= w /\ DOMAIN s = 1..m /\ DOMAIN t = 1..m + n
  BY <1>1
<1> HIDE DEF t, m
<1>3. ASSUME NEW i \in m + 1..m + n
      PROVE  t[i].id = q /\ (t[i].last <=> i = m + w)
  <2> DEFINE k == i - m
             b == Byte(q, by, k, w)
  <2>1. k \in Nat /\ (k = w <=> i = m + w)
    BY <1>2
  <2>2. t[i] = b
    BY <1>1
  <2> HIDE DEF k
  <2>3. b.id = q
    BY DEF Byte
  <2>4. b.last <=> k = w
    BY DEF Byte
  <2> HIDE DEF b
  <2> QED BY <2>1, <2>2, <2>3, <2>4
<1>4. \A i \in 1..m : t[i].id \in 1..p
  BY <1>1, <1>2 DEF KnownUpTo
<1>5. m \in 0..Len(t)
  BY <1>1, <1>2
<1>6. \A i, j \in 1..m : i < j => Bef(t[i], t[j])
  BY <1>1, <1>2 DEF Asc
<1>7. \A i, j \in m + 1..Len(t) : i < j => Bef(t[i], t[j])
  <2> SUFFICES ASSUME NEW i \in m + 1..m + n, NEW j \in m + 1..m + n, i < j
               PROVE  Bef(t[i], t[j])
    BY <1>1
  <2>1. i # m + w
    BY <1>2
  <2> QED BY <1>3, <2>1 DEF Bef
<1>8. \A i \in 1..m : \A j \in m + 1..Len(t) : t[i].id < t[j].id
  <2> SUFFICES ASSUME NEW i \in 1..m, NEW j \in m + 1..m + n PROVE t[i].id < t[j].id
    BY <1>1
  <2>1. t[j].id = q /\ t[i].id \in 1..p
    BY <1>3, <1>4
  <2> QED BY <2>1
<1>9. Asc(t)
  BY <1>1, <1>5, <1>6, <1>7, <1>8, AscJoin
<1>10. \A i \in 1..m + n : t[i].id \in 1..q
  <2> SUFFICES ASSUME NEW i \in 1..m + n PROVE t[i].id \in 1..q
    OBVIOUS
  <2>1. CASE i <= m
    <3>1. i \in 1..m
      BY <1>2, <2>1
    <3> QED BY <1>4, <3>1
  <2>2. CASE ~(i <= m)
    <3>1. i \in m + 1..m + n
      BY <1>2, <2>2
    <3>2. q \in 1..q
      OBVIOUS
    <3> QED BY <1>3, <3>1, <3>2
  <2> QED BY <2>1, <2>2
<1> QED BY <1>2, <1>9, <1>10 DEF KnownUpTo, t

\* Of two newlines of an ordered text the later one ends a later event.
LEMMA EndsAscend ==
    ASSUME NEW s \in Seq(Bytes), Asc(s), NEW i \in Ends(s), NEW j \in Ends(s), i < j
    PROVE  s[i].id < s[j].id
BY DEF Asc, Bef, Ends

(***************************************************************************)
(* A log without damage.                                                   *)
(***************************************************************************)

\* Whichever write fails, what is written stays in order.
Ordered(s, p) == Asc(s) /\ KnownUpTo(s, p)

DaemonWhole(s) == \A i \in Ends(s) : s[i].by = "daemon" => i \in WholeEnds(s)

\* After p events the daemon's last one, n, is too old for the cap or in the text.
HasNewest(s, p, n) == n # 0 /\ p < n + MaxLines => \E i \in Ends(s) : s[i].id = n

Good(s, p, n) == Ordered(s, p) /\ Closed(s) /\ DaemonWhole(s) /\ HasNewest(s, p, n)

\* A text in order is so after more events, one without damage is one.
LEMMA OrderedWeaker ==
    ASSUME NEW s \in Seq(Bytes), NEW p \in Nat, NEW q \in Nat, Ordered(s, p), p <= q
    PROVE  Ordered(s, q)
<1>1. \A i \in DOMAIN s : s[i].id \in 1..q
  BY DEF Ordered, KnownUpTo
<1> QED BY <1>1 DEF Ordered, KnownUpTo

LEMMA GoodWeaker ==
    ASSUME NEW s \in Seq(Bytes), NEW p \in Nat, NEW q \in Nat, NEW n \in Nat,
           Good(s, p, n), p <= q
    PROVE  Good(s, q, n)
<1>1. Ordered(s, q)
  BY OrderedWeaker DEF Good
<1>2. MaxLines \in Nat
  BY EventLogAssumption
<1>3. HasNewest(s, q, n)
  BY <1>2 DEF Good, HasNewest
<1> QED BY <1>1, <1>3 DEF Good

LEMMA GoodEmpty == \A p : Good(<<>>, p, 0)
<1>1. DOMAIN <<>> = {}
  OBVIOUS
<1>2. Ends(<<>>) = {}
  BY <1>1 DEF Ends
<1> QED BY <1>1, <1>2
    DEF Good, Ordered, Asc, KnownUpTo, Closed, DaemonWhole, HasNewest

\* An append leaves no damage: the lines of the text stand as they stood, and the new
\* line is whole.
LEMMA GoodLine ==
    ASSUME NEW s \in Seq(Bytes), NEW p \in Nat, NEW q \in Nat, p < q, NEW n \in Nat,
           NEW by \in Writers, NEW w \in Nat, w # 0, Good(s, p, n)
    PROVE  Good(With(s, q, by, w, w), q, n) /\ Good(With(s, q, by, w, w), q, q)
<1> DEFINE t == With(s, q, by, w, w)
           m == Len(s)
<1>0. w \in 0..w
  OBVIOUS
<1>1. /\ t \in Seq(Bytes) /\ Len(t) = m + w
      /\ \A i \in 1..m : t[i] = s[i]
  BY <1>0, WithPiece
<1>2. Ordered(t, q)
  BY <1>0, AscPiece DEF Good, Ordered
<1>3. /\ m + w \in WholeEnds(t) /\ t[m + w].id = q
      /\ \A i \in Ends(t) : i \in Ends(s) \/ i = m + w
  BY NewLineIsWhole DEF Good
<1>4. m \in Nat /\ q \in Nat /\ DOMAIN s = 1..m
  OBVIOUS
<1> HIDE DEF t, m
<1>5. ASSUME NEW i \in Ends(s)
      PROVE  /\ i \in Ends(t) /\ t[i] = s[i]
             /\ i \in WholeEnds(s) => i \in WholeEnds(t)
  <2>1. i \in 1..m /\ i + 0 = i /\ 0 \in Nat /\ i \in 1..Len(t)
    BY <1>1, <1>4 DEF Ends
  <2>2. \A j \in 1..i : s[j] = t[j + 0]
    <3>1. \A j \in 1..i : j \in 1..m /\ j + 0 = j
      BY <1>4, <2>1
    <3> QED BY <1>1, <3>1
  <2>3. /\ i + 0 \in Ends(t) /\ s[i] = t[i + 0]
        /\ i \in WholeEnds(s) <=> i + 0 \in WholeEnds(t)
    BY <1>1, <2>1, <2>2, WholeShift
  <2> QED BY <2>1, <2>3
<1>6. DaemonWhole(t)
  BY <1>3, <1>5 DEF Good, DaemonWhole
<1>7. m + w \in Ends(t)
  BY <1>3 DEF WholeEnds
<1>8. Closed(t)
  BY <1>1, <1>7 DEF Closed, Ends
<1>9. HasNewest(t, q, q)
  BY <1>3, <1>7 DEF HasNewest
<1>10. HasNewest(t, q, n)
  <2> SUFFICES ASSUME n # 0, q < n + MaxLines PROVE \E i \in Ends(t) : t[i].id = n
    BY DEF HasNewest
  <2>1. p < n + MaxLines
    BY EventLogAssumption
  <2>2. PICK i \in Ends(s) : s[i].id = n
    BY <2>1 DEF Good, HasNewest
  <2> QED BY <1>5, <2>2
<1> QED BY <1>2, <1>6, <1>8, <1>9, <1>10 DEF Good, t


\* The bytes the trim keeps are those behind a newline.
LEMMA KeepShifts ==
    ASSUME NEW s \in Seq(Bytes), Cardinality(Lasts(s)) > MaxLines
    PROVE  \E c \in Ends(s) :
              /\ c \in 1..Len(s) - 1 /\ s[c].last
              /\ Keep(s) \in Seq(Bytes) /\ Len(Keep(s)) = Len(s) - c
              /\ \A i \in 1..Len(s) - c : Keep(s)[i] = s[i + c]
              /\ Cardinality({j \in Lasts(s) : j > c}) = MaxLines
<1>1. PICK c \in Ends(s) : /\ c \in 1..Len(s) - 1
                           /\ Keep(s) = SubSeq(s, 1 + c, Len(s))
                           /\ Cardinality({j \in Lasts(s) : j > c}) = MaxLines
  BY KeepIs
<1> DEFINE m == Len(s)
           a == 1 + c
<1>2. a \in 1..m + 1 /\ m \in a - 1..m /\ m - a + 1 = m - c /\ a - 1 = c
  BY <1>1
<1> HIDE DEF a
<1>3. /\ SubSeq(s, a, m) \in Seq(Bytes) /\ Len(SubSeq(s, a, m)) = m - a + 1
      /\ \A i \in 1..m - a + 1 : SubSeq(s, a, m)[i] = s[i + (a - 1)]
  BY <1>2, PartOf
<1>4. Keep(s) = SubSeq(s, a, m)
  BY <1>1 DEF a
<1>5. Keep(s) \in Seq(Bytes) /\ Len(Keep(s)) = m - c
  BY <1>2, <1>3, <1>4
<1>6. \A i \in 1..m - c : Keep(s)[i] = s[i + c]
  BY <1>2, <1>3, <1>4
<1>7. s[c].last
  BY DEF Ends
<1> QED BY <1>1, <1>5, <1>6, <1>7

\* What it keeps of an ordered text is in order.
LEMMA OrderedKeep ==
    ASSUME NEW s \in Seq(Bytes), NEW p, Ordered(s, p), Cardinality(Lasts(s)) > MaxLines
    PROVE  Ordered(Keep(s), p)
<1> DEFINE t == Keep(s)
           m == Len(s)
<1>1. PICK c \in Ends(s) : /\ c \in 1..m - 1
                           /\ t \in Seq(Bytes) /\ Len(t) = m - c
                           /\ \A i \in 1..m - c : t[i] = s[i + c]
  BY KeepShifts
<1>2. m \in Nat /\ c \in Nat /\ DOMAIN s = 1..m /\ DOMAIN t = 1..m - c
  BY <1>1
<1> HIDE DEF t, m
<1>3. \A i \in DOMAIN t : i + c \in DOMAIN s /\ t[i] = s[i + c]
  BY <1>1, <1>2
<1>4. Asc(t)
  BY <1>1, <1>2, <1>3, AscPart DEF Ordered
<1> QED BY <1>3, <1>4 DEF Ordered, KnownUpTo, t

\* What it keeps has no damage: it starts where a line starts, and the daemon's last event
\* is among the last lines unless the pilot has published too many since.
LEMMA GoodKeep ==
    ASSUME NEW s \in Seq(Bytes), NEW p \in Nat, NEW n \in Nat, Good(s, p, n),
           Cardinality(Lasts(s)) > MaxLines
    PROVE  Good(Keep(s), p, n)
<1> DEFINE t == Keep(s)
           m == Len(s)
           E == Ends(s)
<1>0. m \in Nat /\ DOMAIN s = 1..m
  OBVIOUS
<1>1. PICK c \in E : /\ c \in 1..m - 1 /\ s[c].last
                     /\ t \in Seq(Bytes) /\ Len(t) = m - c
                     /\ \A i \in 1..m - c : t[i] = s[i + c]
                     /\ Cardinality({j \in Lasts(s) : j > c}) = MaxLines
  BY KeepShifts
<1>2. c \in Nat /\ c < m /\ DOMAIN t = 1..m - c
  BY <1>0, <1>1
<1>3. s[m].last /\ m \in E
  <2>1. s # <<>> /\ m \in 1..m
    BY <1>0, <1>1
  <2>2. s[m].last
    BY <2>1 DEF Good, Closed
  <2> QED BY <1>0, <2>1, <2>2 DEF Ends
<1>4. Lasts(s) = E
  <2>1. \A i : i \in Lasts(s) <=> i \in E
    BY <1>3 DEF Lasts
  <2> QED BY <2>1
<1>5. Cardinality({j \in E : j > c}) = MaxLines
  BY <1>1, <1>4
<1>6. Ordered(t, p)
  BY OrderedKeep DEF Good
<1> HIDE DEF t, m
<1>7. ASSUME NEW j \in E, j > c
      PROVE  j - c \in Ends(t) /\ t[j - c] = s[j]
  <2>1. j \in 1..m /\ j - c \in 1..m - c /\ (j - c) + c = j /\ s[j].last
    BY <1>0, <1>2, <1>7 DEF Ends
  <2>2. t[j - c] = s[j]
    BY <1>1, <2>1
  <2> QED BY <1>2, <2>1, <2>2 DEF Ends
<1>8. Closed(t)
  <2>1. m - c \in 1..m - c /\ (m - c) + c = m
    BY <1>0, <1>2
  <2>2. t[m - c] = s[m]
    BY <1>1, <2>1
  <2> QED BY <1>1, <1>3, <2>2 DEF Closed
<1>9. DaemonWhole(t)
  <2> SUFFICES ASSUME NEW i \in Ends(t), t[i].by = "daemon" PROVE i \in WholeEnds(t)
    BY DEF DaemonWhole
  <2>1. i \in 1..m - c /\ i + c \in 1..m
    BY <1>0, <1>2 DEF Ends
  <2>2. \A j \in 1..i : t[j] = s[j + c]
    <3>1. \A j \in 1..i : j \in 1..m - c
      BY <1>0, <1>2, <2>1
    <3> QED BY <1>1, <3>1
  <2>3. i + c \in 1..Len(s)
    BY <2>1 DEF m
  <2>4. /\ i + c \in Ends(s) /\ t[i] = s[i + c]
        /\ i \in WholeEnds(t) <=> i + c \in WholeEnds(s)
    BY <1>1, <1>2, <2>2, <2>3, WholeShift
  <2> QED BY <2>4 DEF Good, DaemonWhole
<1>10. HasNewest(t, p, n)
  <2> SUFFICES ASSUME n # 0, p < n + MaxLines PROVE \E i \in Ends(t) : t[i].id = n
    BY DEF HasNewest
  <2>1. PICK e \in E : s[e].id = n
    BY DEF Good, HasNewest
  <2>2. CASE e > c
    BY <1>7, <2>1, <2>2
  <2>3. CASE ~(e > c)
    <3> DEFINE S == {j \in E : j > c}
               f == [j \in S |-> s[j].id]
    <3>0. Asc(s) /\ KnownUpTo(s, p)
      BY DEF Good, Ordered
    <3>1. e \in 1..m
      BY <1>0 DEF Ends
    <3>2. ASSUME NEW j \in S PROVE s[j].id \in n + 1..p
      <4>1. j \in E /\ j \in 1..m /\ e < j
        BY <1>0, <1>2, <2>3, <3>1 DEF Ends
      <4>2. s[e].id < s[j].id
        BY <3>0, <4>1, EndsAscend
      <4>3. s[j].id \in 1..p
        BY <1>0, <3>0, <4>1 DEF KnownUpTo
      <4> QED BY <2>1, <4>2, <4>3
    <3>3. ASSUME NEW i \in S, NEW j \in S, s[i].id = s[j].id PROVE i = j
      <4>1. i \in 1..m /\ j \in 1..m /\ i \in E /\ j \in E
        BY <1>0 DEF Ends
      <4>2. s[i].id \in n + 1..p /\ s[j].id \in n + 1..p
        BY <3>2
      <4>3. CASE i < j
        <5>1. s[i].id < s[j].id
          BY <3>0, <4>1, <4>3, EndsAscend
        <5> QED BY <3>3, <4>2, <5>1
      <4>4. CASE j < i
        <5>1. s[j].id < s[i].id
          BY <3>0, <4>1, <4>4, EndsAscend
        <5> QED BY <3>3, <4>2, <5>1
      <4> QED BY <4>1, <4>3, <4>4
    <3>4. f \in Injection(S, n + 1..p)
      <4>1. f \in [S -> n + 1..p]
        BY <3>2
      <4>2. \A i, j \in S : f[i] = f[j] => i = j
        BY <3>3
      <4> HIDE DEF f, S
      <4> QED BY <4>1, <4>2 DEF Injection, IsInjective
    <3>5. /\ IsFiniteSet(n + 1..p)
          /\ Cardinality(n + 1..p) = IF n + 1 > p THEN 0 ELSE p - (n + 1) + 1
      BY FS_Interval
    <3>6. Cardinality(S) = MaxLines
      BY <1>5
    <3> HIDE DEF f, S
    <3>7. Cardinality(S) <= Cardinality(n + 1..p)
      BY <3>4, <3>5, FS_Injection
    <3>8. MaxLines <= IF n + 1 > p THEN 0 ELSE p - (n + 1) + 1
      BY <3>5, <3>6, <3>7
    <3>9. MaxLines \in Nat \ {0}
      BY EventLogAssumption
    <3> QED BY <3>8, <3>9
  <2> QED BY <2>2, <2>3
<1> QED BY <1>6, <1>8, <1>9, <1>10 DEF Good, t

\* What stands behind an offset of the log was appended by the pilot after the text that
\* is being written.
TailAfter(o, m, t, p) ==
    \A i \in m + 1..Len(o) :
        /\ o[i].by = "pilot" /\ o[i].id \in 1..p
        /\ \A j \in DOMAIN t : t[j].id < o[i].id
        /\ \A j \in m + 1..Len(o) : i < j => Bef(o[i], o[j])

\* A log is in order that starts as an ordered text does and has such a tail.
LEMMA OrderedJoin ==
    ASSUME NEW t \in Seq(Bytes), NEW o \in Seq(Bytes), NEW m \in 0..Len(o), NEW p \in Nat,
           m <= Len(t), \A i \in 1..m : o[i] = t[i], Ordered(t, p), TailAfter(o, m, t, p)
    PROVE  Ordered(o, p)
<1> DEFINE l == Len(o)
<1>1. /\ m \in Nat /\ l \in Nat /\ m <= l /\ DOMAIN o = 1..l
      /\ \A i \in 1..m : i \in DOMAIN t
      /\ m \in 0..Len(o)
  OBVIOUS
<1>2. \A i \in m + 1..l : /\ o[i].id \in 1..p
                          /\ \A j \in 1..m : t[j].id < o[i].id
                          /\ \A j \in m + 1..l : i < j => Bef(o[i], o[j])
  BY <1>1 DEF TailAfter
<1> HIDE DEF l
<1>3. \A i, j \in 1..m : i < j => Bef(o[i], o[j])
  BY <1>1 DEF Ordered, Asc
<1>4. Asc(o)
  <2>1. \A i, j \in m + 1..Len(o) : i < j => Bef(o[i], o[j])
    BY <1>2 DEF l
  <2>2. \A i \in 1..m : \A j \in m + 1..Len(o) : o[i].id < o[j].id
    BY <1>2 DEF l
  <2> QED BY <1>1, <1>3, <2>1, <2>2, AscJoin
<1>5. ASSUME NEW i \in 1..l PROVE o[i].id \in 1..p
  <2>1. CASE i <= m
    <3>1. i \in 1..m
      BY <1>1, <2>1
    <3> QED BY <1>1, <3>1 DEF Ordered, KnownUpTo
  <2>2. CASE ~(i <= m)
    <3>1. i \in m + 1..l
      BY <1>1, <2>2
    <3> QED BY <1>2, <3>1
  <2> QED BY <2>1, <2>2
<1> QED BY <1>1, <1>4, <1>5 DEF Ordered, KnownUpTo

\* A text without damage, with such a tail, has none.
LEMMA GoodJoin ==
    ASSUME NEW t \in Seq(Bytes), NEW o \in Seq(Bytes), NEW p \in Nat, NEW n \in Nat,
           Good(t, p, n), Len(t) <= Len(o), Closed(o),
           \A i \in 1..Len(t) : o[i] = t[i], TailAfter(o, Len(t), t, p)
    PROVE  Good(o, p, n)
<1> DEFINE m == Len(t)
           l == Len(o)
<1>1. /\ m \in Nat /\ l \in Nat /\ m <= l /\ DOMAIN t = 1..m /\ DOMAIN o = 1..l
      /\ m \in 0..Len(o)
  OBVIOUS
<1>2. /\ \A i \in m + 1..l : o[i].by = "pilot"
      /\ \A i \in 1..m : o[i] = t[i]
  BY <1>1 DEF TailAfter
<1>3. Ordered(o, p)
  BY <1>1, OrderedJoin DEF Good
<1> HIDE DEF m, l
<1>7. ASSUME NEW i \in Ends(t)
      PROVE  /\ i \in Ends(o) /\ t[i] = o[i]
             /\ i \in WholeEnds(t) => i \in WholeEnds(o)
  <2>1. i \in 1..m /\ i + 0 = i /\ 0 \in Nat /\ i + 0 \in 1..Len(o)
    BY <1>1 DEF Ends, l
  <2>2. \A j \in 1..i : t[j] = o[j + 0]
    <3>1. \A j \in 1..i : j \in 1..m /\ j + 0 = j
      BY <1>1, <2>1
    <3> QED BY <1>2, <3>1
  <2>3. /\ i + 0 \in Ends(o) /\ t[i] = o[i + 0]
        /\ i \in WholeEnds(t) <=> i + 0 \in WholeEnds(o)
    BY <2>1, <2>2, WholeShift
  <2> QED BY <2>1, <2>3
<1>8. DaemonWhole(o)
  <2> SUFFICES ASSUME NEW i \in Ends(o), o[i].by = "daemon" PROVE i \in WholeEnds(o)
    BY DEF DaemonWhole
  <2>1. i \in 1..l /\ o[i].last
    BY <1>1 DEF Ends
  <2>2. i \in 1..m
    <3>1. ~(i <= m) => i \in m + 1..l
      BY <1>1, <2>1
    <3>2. i <= m
      BY <1>2, <3>1
    <3> QED BY <1>1, <2>1, <3>2
  <2>3. i \in Ends(t)
    BY <1>1, <1>2, <2>1, <2>2 DEF Ends
  <2> QED BY <1>7, <2>3 DEF Good, DaemonWhole
<1>9. HasNewest(o, p, n)
  BY <1>7 DEF Good, HasNewest
<1> QED BY <1>3, <1>8, <1>9 DEF Good

\* The pilot appends another line of that kind, or a part of one,
LEMMA TailLine ==
    ASSUME NEW o \in Seq(Bytes), NEW m \in 0..Len(o), NEW t \in Seq(Bytes), NEW p \in Nat,
           NEW q \in Nat, p < q, KnownUpTo(t, p), TailAfter(o, m, t, p),
           NEW w \in Nat, w # 0, NEW n \in 0..w
    PROVE  TailAfter(With(o, q, "pilot", w, n), m, t, q)
<1> DEFINE l == Len(o)
           a == "pilot"
           u == With(o, q, a, w, n)
<1>0. /\ l \in Nat /\ m \in Nat /\ m <= l /\ n \in Nat /\ n <= w
      /\ \A k \in 1..p : k \in 1..q /\ k < q
      /\ q \in 1..q
  OBVIOUS
<1>3. a \in Writers
  BY DEF Writers
<1> HIDE DEF a
<1>1. /\ u \in Seq(Bytes) /\ Len(u) = l + n
      /\ \A i \in 1..l : u[i] = o[i]
      /\ \A i \in l + 1..l + n : u[i] = Byte(q, a, i - l, w)
  <2>1. Grown(u, o, q, a, w, n)
    BY <1>3, WithGrown
  <2> QED BY <2>1 DEF Grown
<1> HIDE DEF u, l
<1>2. ASSUME NEW i \in l + 1..l + n
      PROVE  /\ u[i].id = q /\ u[i].by = "pilot"
             /\ u[i].last <=> i = l + w
  <2> DEFINE k == i - l
             b == Byte(q, a, k, w)
  <2>1. k \in Nat /\ (k = w <=> i = l + w)
    BY <1>0
  <2>2. u[i] = b
    BY <1>1
  <2> HIDE DEF k
  <2>3. b.id = q /\ b.by = "pilot"
    BY DEF Byte, a
  <2>4. b.last <=> k = w
    BY DEF Byte
  <2> HIDE DEF b
  <2> QED BY <2>1, <2>2, <2>3, <2>4
<1>4. ASSUME NEW i \in m + 1..l
      PROVE  /\ u[i] = o[i] /\ o[i].by = "pilot" /\ o[i].id \in 1..p
             /\ \A j \in DOMAIN t : t[j].id < o[i].id
             /\ \A j \in m + 1..l : i < j => Bef(o[i], o[j])
  <2>1. i \in 1..l
    BY <1>0
  <2> QED BY <1>1, <2>1 DEF TailAfter, l
<1>5. \A j \in DOMAIN t : t[j].id < q
  BY <1>0 DEF KnownUpTo
<1>6. ASSUME NEW i \in m + 1..l + n, ~(i <= l) PROVE i \in l + 1..l + n
  BY <1>0, <1>6
<1>7. ASSUME NEW i \in m + 1..l + n, i <= l PROVE i \in m + 1..l
  BY <1>0, <1>7
<1>8. ASSUME NEW i \in m + 1..l + n
      PROVE  /\ u[i].by = "pilot" /\ u[i].id \in 1..q
             /\ \A j \in DOMAIN t : t[j].id < u[i].id
  <2>1. CASE i <= l
    BY <1>0, <1>4, <1>7, <2>1
  <2>2. CASE ~(i <= l)
    BY <1>0, <1>2, <1>5, <1>6, <2>2
  <2> QED BY <2>1, <2>2
<1>9. ASSUME NEW i \in m + 1..l + n, NEW j \in m + 1..l + n, i < j
      PROVE  Bef(u[i], u[j])
  <2>1. CASE j <= l
    <3>1. i <= l
      BY <1>0, <1>9, <2>1
    <3>2. i \in m + 1..l /\ j \in m + 1..l
      BY <1>7, <2>1, <3>1
    <3> QED BY <1>4, <1>9, <3>2
  <2>2. CASE i <= l /\ ~(j <= l)
    <3>1. u[i].id \in 1..p
      BY <1>4, <1>7, <2>2
    <3>2. u[j].id = q
      BY <1>2, <1>6, <2>2
    <3> QED BY <1>0, <3>1, <3>2 DEF Bef
  <2>3. CASE ~(i <= l)
    <3>1. ~(j <= l) /\ i # l + w
      BY <1>0, <1>9, <2>3
    <3>2. u[j].id = q /\ u[i].id = q /\ ~u[i].last
      BY <1>2, <1>6, <2>3, <3>1
    <3> QED BY <3>2 DEF Bef
  <2> QED BY <2>1, <2>2, <2>3
<1>10. TailAfter(u, m, t, q)
  BY <1>1, <1>8, <1>9 DEF TailAfter
<1> QED BY <1>10 DEF u, a

\* and the next chunk covers some of them.
LEMMA TailPart ==
    ASSUME NEW o \in Seq(Bytes), NEW m \in Nat, NEW t, NEW p, TailAfter(o, m, t, p),
           NEW u \in Seq(Bytes), NEW k \in Nat, m <= k,
           \A i \in k + 1..Len(u) : i <= Len(o) /\ u[i] = o[i]
    PROVE  TailAfter(u, k, t, p)
<1>1. \A i \in k + 1..Len(u) : i \in m + 1..Len(o)
  <2>1. Len(u) \in Nat /\ Len(o) \in Nat
    OBVIOUS
  <2> QED BY <2>1
<1> QED BY <1>1 DEF TailAfter

\* A whole line ends in its newline.
LEMMA ClosedLine ==
    ASSUME NEW s \in Seq(Bytes), NEW id \in Nat, NEW by \in Writers, NEW w \in Nat, w # 0
    PROVE  Closed(With(s, id, by, w, w))
<1> DEFINE t == With(s, id, by, w, w)
           l == Len(s)
           b == Byte(id, by, w, w)
<1>0. w \in 0..w /\ l \in Nat
  OBVIOUS
<1>1. /\ Len(t) = l + w
      /\ \A i \in l + 1..l + w : t[i] = Byte(id, by, i - l, w)
  BY <1>0, WithPiece
<1> HIDE DEF t, l
<1>2. l + w \in l + 1..l + w /\ (l + w) - l = w
  BY <1>0
<1>3. t[l + w] = b
  BY <1>1, <1>2
<1>4. b.last
  BY DEF Byte
<1> HIDE DEF b
<1> QED BY <1>1, <1>3, <1>4 DEF Closed, t

(***************************************************************************)
(* The state of the log.                                                   *)
(***************************************************************************)

\* What the trim has written, and what it has still to write.
Text == SubSeq(file, 1, off) \o kept

\* A text in order, and without damage unless a write to this file failed part-way.
Sound(s, p, n, cut) == Ordered(s, p) /\ (~cut => Good(s, p, n))

\* While nobody rewrites it the log is such a text.
RestInv ==
    /\ dpc # "write" => Sound(file, published, newest, failed)
    /\ dpc \notin {"rewrite", "write"} => kept = <<>>
    /\ dpc = "rewrite" => Sound(kept, published, newest, failed)

\* While the trim rewrites it, so is the text being written, and behind the offset stand
\* later lines of the pilot, the first of them perhaps cut.
RewriteInv ==
    dpc = "write" =>
        /\ trimmed /\ off <= Len(file)
        /\ Sound(Text, published, newest, failed)
        /\ TailAfter(file, off, Text, published)
        /\ ~failed /\ off < Len(file) => Closed(file)

LogInv ==
    /\ trimmed \in BOOLEAN /\ failed \in BOOLEAN /\ newest \in 0..published
    /\ RestInv /\ RewriteInv

\* The text being written, byte by byte.
LEMMA TextIs ==
    ASSUME NEW f \in Seq(Bytes), NEW k \in Seq(Bytes), NEW o \in 0..Len(f)
    PROVE  LET t == SubSeq(f, 1, o) \o k
           IN  /\ t \in Seq(Bytes) /\ Len(t) = o + Len(k)
               /\ \A i \in 1..o : t[i] = f[i]
<1> DEFINE s == SubSeq(f, 1, o)
           t == s \o k
<1>1. o \in Nat /\ Len(f) \in Nat /\ o <= Len(f) /\ Len(k) \in Nat
  OBVIOUS
<1>2. s \in Seq(Bytes) /\ Len(s) = o /\ \A i \in 1..o : s[i] = f[i]
  <2>1. 1 \in 1..Len(f) + 1 /\ o \in 1 - 1..Len(f) /\ o - 1 + 1 = o
    BY <1>1
  <2>2. /\ s \in Seq(Bytes) /\ Len(s) = o - 1 + 1
        /\ \A i \in 1..o - 1 + 1 : s[i] = f[i + (1 - 1)]
    BY <2>1, PartOf
  <2>3. \A i \in 1..o : i + (1 - 1) = i
    BY <1>1
  <2> HIDE DEF s
  <2> QED BY <2>1, <2>2, <2>3
<1> HIDE DEF s
<1>3. /\ t \in Seq(Bytes) /\ Len(t) = Len(s) + Len(k)
      /\ \A i \in 1..Len(s) + Len(k) : t[i] = IF i <= Len(s) THEN s[i] ELSE k[i - Len(s)]
  BY <1>2, ConcatProperties
<1>4. \A i \in 1..o : i \in 1..Len(s) + Len(k) /\ i <= Len(s)
  BY <1>1, <1>2
<1> HIDE DEF t
<1> QED BY <1>2, <1>3, <1>4 DEF s, t

\* A chunk is written: the text stays what it was, and so does what is behind the chunk.
LEMMA WriteBackIs ==
    ASSUME Shape, off <= Len(file), WriteBack
    PROVE  /\ file' \in Seq(Bytes) /\ kept' \in Seq(Bytes) /\ off' \in Nat
           /\ off <= off' /\ off' <= Len(file') /\ Text' = Text
           /\ off' < Len(file') => Len(file') = Len(file)
           /\ \A i \in off' + 1..Len(file') : i <= Len(file) /\ file'[i] = file[i]
<1>1. PICK n \in 1..Len(kept) :
          /\ file' = Overwrite(file, off, SubSeq(kept, 1, n))
          /\ kept' = SubSeq(kept, n + 1, Len(kept))
          /\ off' = off + n
  BY DEF WriteBack
<1>2. /\ file \in Seq(Bytes) /\ kept \in Seq(Bytes) /\ off \in Nat /\ Len(file) \in Nat
      /\ Len(kept) \in Nat /\ n \in Nat /\ off \in 0..Len(file)
  BY DEF Shape
<1> DEFINE c == SubSeq(kept, 1, n)
           s == SubSeq(file, 1, off)
           m == IF off + n <= Len(file) THEN Len(file) ELSE off + n
<1>3. c \in Seq(Bytes) /\ Len(c) = n
  <2>1. 1 \in 1..Len(kept) + 1 /\ n \in 1 - 1..Len(kept) /\ n - 1 + 1 = n
    BY <1>2
  <2>2. c \in Seq(Bytes) /\ Len(c) = n - 1 + 1
    BY <1>2, <2>1, PartOf
  <2> HIDE DEF c
  <2> QED BY <2>1, <2>2
<1>4. c \o kept' = kept /\ kept' \in Seq(Bytes)
  <2>1. 1 \in 1..Len(kept) + 1 /\ n \in 1 - 1..Len(kept) /\ Len(kept) \in n..Len(kept)
    BY <1>2
  <2>2. c \o kept' = SubSeq(kept, 1, Len(kept))
    BY <1>1, <1>2, <2>1, ConcatAdjacentSubSeq
  <2>3. SubSeq(kept, 1, Len(kept)) = kept
    BY <1>2, SubSeqFull
  <2>4. n + 1 \in 1..Len(kept) + 1 /\ Len(kept) \in (n + 1) - 1..Len(kept)
    BY <1>2
  <2>5. kept' \in Seq(Bytes)
    BY <1>1, <1>2, <2>4, PartOf
  <2> QED BY <2>2, <2>3, <2>5
<1>5. file' = Overwrite(file, off, c)
  BY <1>1
<1>6. s \in Seq(Bytes) /\ Len(s) = off /\ \A i \in 1..off : s[i] = file[i]
  <2>1. 1 \in 1..Len(file) + 1 /\ off \in 1 - 1..Len(file) /\ off - 1 + 1 = off
    BY <1>2
  <2>2. /\ s \in Seq(Bytes) /\ Len(s) = off - 1 + 1
        /\ \A i \in 1..off - 1 + 1 : s[i] = file[i + (1 - 1)]
    BY <1>2, <2>1, PartOf
  <2>3. \A i \in 1..off : i + (1 - 1) = i
    BY <1>2
  <2> HIDE DEF s
  <2> QED BY <2>1, <2>2, <2>3
<1>7. Text = s \o kept
  BY DEF Text
<1>8. Text' = SubSeq(file', 1, off') \o kept'
  BY DEF Text
<1> HIDE DEF c, s
<1>9. /\ file' \in Seq(Bytes) /\ Len(file') = m
      /\ \A i \in 1..off : file'[i] = file[i]
      /\ \A i \in 1..n : file'[i + off] = c[i]
      /\ \A i \in off + n + 1..m : file'[i] = file[i]
  BY <1>2, <1>3, <1>5, OverwriteIs, ZenonT(30)
<1>10. m \in Nat /\ off + n <= m /\ (off + n < m => m = Len(file)) /\ m >= Len(file)
       /\ \A i \in off + n + 1..m : i <= Len(file)
  BY <1>2
<1> HIDE DEF m
<1>11. SubSeq(file', 1, off') = s \o c
  <2> DEFINE a == SubSeq(file', 1, off')
             b == s \o c
             k == off + n
  <2>1. k \in Nat /\ off' = k /\ k <= m
    BY <1>1, <1>2, <1>10
  <2>2. a \in Seq(Bytes) /\ Len(a) = k /\ \A i \in 1..k : a[i] = file'[i]
    <3>1. 1 \in 1..Len(file') + 1 /\ k \in 1 - 1..Len(file') /\ k - 1 + 1 = k
      BY <1>9, <1>10, <2>1
    <3> HIDE DEF k
    <3>2. /\ a \in Seq(Bytes) /\ Len(a) = k - 1 + 1
          /\ \A i \in 1..k - 1 + 1 : a[i] = file'[i + (1 - 1)]
      BY <1>9, <2>1, <3>1, PartOf
    <3>3. \A i \in 1..k : i + (1 - 1) = i
      BY <2>1
    <3> HIDE DEF a
    <3> QED BY <3>1, <3>2, <3>3
  <2>3. /\ b \in Seq(Bytes) /\ Len(b) = off + n
        /\ \A i \in 1..off + n : b[i] = IF i <= off THEN s[i] ELSE c[i - off]
    <3>1. /\ b \in Seq(Bytes) /\ Len(b) = Len(s) + Len(c)
          /\ \A i \in 1..Len(s) + Len(c) : b[i] = IF i <= Len(s) THEN s[i] ELSE c[i - Len(s)]
      BY <1>3, <1>6, ConcatProperties
    <3> HIDE DEF b
    <3> QED BY <1>3, <1>6, <3>1
  <2> HIDE DEF a, b
  <2>4. ASSUME NEW i \in 1..k PROVE a[i] = b[i]
    <3>1. CASE i <= off
      <4>1. i \in 1..off
        BY <1>2, <2>1, <3>1
      <4> QED BY <1>6, <1>9, <2>2, <2>3, <3>1, <4>1
    <3>2. CASE ~(i <= off)
      <4>1. i - off \in 1..n /\ (i - off) + off = i
        BY <1>2, <2>1, <3>2
      <4>2. file'[(i - off) + off] = c[i - off]
        BY <1>9, <4>1
      <4> QED BY <2>2, <2>3, <3>2, <4>1, <4>2
    <3> QED BY <3>1, <3>2
  <2> HIDE DEF k
  <2>5. /\ a \in Seq(Bytes) /\ b \in Seq(Bytes) /\ Len(a) = Len(b)
        /\ \A i \in 1..Len(a) : a[i] = b[i]
    BY <2>2, <2>3, <2>4 DEF k
  <2>6. a = b
    BY <2>5, SeqEqual
  <2> QED BY <2>6 DEF a, b
<1>12. Text' = Text
  <2>0. s \in Seq(Bytes) /\ c \in Seq(Bytes) /\ kept' \in Seq(Bytes)
    BY <1>3, <1>4, <1>6
  <2>1. (s \o c) \o kept' = s \o (c \o kept')
    BY <2>0, ConcatAssociative
  <2> QED BY <1>4, <1>7, <1>8, <1>11, <2>1
<1>13. off' \in Nat /\ off <= off' /\ off' <= Len(file')
  BY <1>1, <1>2, <1>9, <1>10
<1>14. off' < Len(file') => Len(file') = Len(file)
  BY <1>1, <1>9, <1>10
<1>15. \A i \in off' + 1..Len(file') : i <= Len(file) /\ file'[i] = file[i]
  BY <1>1, <1>9, <1>10
<1> QED BY <1>4, <1>9, <1>12, <1>13, <1>14, <1>15

LEMMA LogInit == Init => LogInv
<1> SUFFICES ASSUME Init PROVE LogInv
  OBVIOUS
<1>1. Good(<<>>, 0, 0)
  BY GoodEmpty
<1>2. Sound(file, published, newest, failed)
  BY <1>1 DEF Init, Sound, Good
<1>3. trimmed \in BOOLEAN /\ failed \in BOOLEAN /\ dpc = "idle" /\ kept = <<>>
  BY DEF Init
<1>4. newest \in 0..published
  BY DEF Init
<1> QED BY <1>2, <1>3, <1>4 DEF LogInv, RestInv, RewriteInv

\* An append leaves the text being written as it is,
LEMMA TextKept ==
    ASSUME Shape, off <= Len(file), NEW l \in Seq(Bytes), file' = file \o l,
           UNCHANGED <<off, kept>>
    PROVE  Text' = Text
<1>1. file \in Seq(Bytes) /\ off \in Nat /\ Len(file) \in Nat
  BY DEF Shape
<1>2. SubSeq(file \o l, 1, off) = SubSeq(file, 1, off)
  <2>1. CASE off = 0
    <3>1. SubSeq(file \o l, 1, 0) = <<>> /\ SubSeq(file, 1, 0) = <<>>
      BY SubSeqEmpty
    <3> QED BY <2>1, <3>1
  <2>2. CASE off # 0
    <3>1. 1 \in 1..Len(file) /\ off \in 1..Len(file)
      BY <1>1, <2>2
    <3> QED BY <1>1, <3>1, SubSeqOfConcat1
  <2> QED BY <2>1, <2>2
<1> QED BY <1>2 DEF Text

\* The log in order at every moment, also half-way through a trim.
LEMMA FileIsOrdered == ASSUME Shape, LogInv PROVE Ordered(file, published)
<1>1. CASE dpc # "write"
  BY <1>1 DEF LogInv, RestInv, Sound
<1>2. CASE dpc = "write"
  <2>1. /\ off <= Len(file) /\ Ordered(Text, published) /\ TailAfter(file, off, Text, published)
    BY <1>2 DEF LogInv, RewriteInv, Sound
  <2>2. /\ file \in Seq(Bytes) /\ kept \in Seq(Bytes) /\ off \in 0..Len(file)
        /\ Len(kept) \in Nat /\ off \in Nat /\ published \in Nat
    BY <2>1 DEF Shape
  <2>3. /\ Text \in Seq(Bytes) /\ Len(Text) = off + Len(kept)
        /\ \A i \in 1..off : Text[i] = file[i]
    BY <2>2, TextIs DEF Text
  <2>4. off <= Len(Text) /\ \A i \in 1..off : file[i] = Text[i]
    BY <2>2, <2>3
  <2> QED BY <2>1, <2>2, <2>3, <2>4, OrderedJoin
<1> QED BY <1>1, <1>2

\* An append to a log that is not being rewritten,
LEMMA RestAppend ==
    ASSUME Shape, LogInv, dpc # "write", NEW by \in Writers,
           NEW w \in Nat, w # 0, NEW n \in 0..w, Appends(by, w, n),
           UNCHANGED <<kept, trimmed>>, dpc' = dpc \/ (dpc = "idle" /\ dpc' = "trim"),
           failed' = (failed \/ n # w), newest' = newest \/ (dpc = "idle" /\ newest' = published')
    PROVE  LogInv'
<1> DEFINE q == published + 1
           p == published
           f == file
           m == newest
<1>1. /\ f \in Seq(Bytes) /\ kept \in Seq(Bytes) /\ p \in Nat /\ q \in Nat /\ p < q /\ p <= q
      /\ m \in 0..p /\ m \in Nat /\ m \in 0..q /\ q \in 0..q
      /\ published' = q /\ file' = With(f, q, by, w, n)
      /\ failed \in BOOLEAN /\ Ordered(f, p) /\ (~failed => Good(f, p, m))
      /\ trimmed \in BOOLEAN /\ failed' \in BOOLEAN
      /\ newest' = m \/ newest' = q
  BY DEF Shape, LogInv, RestInv, Sound, Appends
<1>2. ASSUME dpc = "rewrite"
      PROVE  Ordered(kept, p) /\ (~failed => Good(kept, p, m))
  BY <1>2 DEF LogInv, RestInv, Sound
<1>3. dpc \notin {"rewrite", "write"} => kept = <<>>
  BY DEF LogInv, RestInv
<1> HIDE DEF q, p, f, m
<1>4. Ordered(With(f, q, by, w, n), q)
  BY <1>1, AscPiece DEF Ordered
<1>5. ASSUME ~failed'
      PROVE  ~failed /\ Good(With(f, q, by, w, n), q, m) /\ Good(With(f, q, by, w, n), q, q)
  <2>1. ~failed /\ n = w
    BY <1>5
  <2> QED BY <1>1, <2>1, GoodLine
<1>6. Sound(file', published', newest', failed')
  <2>1. Ordered(file', published')
    BY <1>1, <1>4
  <2>2. ASSUME ~failed' PROVE Good(file', published', newest')
    BY <1>1, <1>5, <2>2
  <2> QED BY <2>1, <2>2 DEF Sound
<1>7. ASSUME dpc' = "rewrite" PROVE Sound(kept', published', newest', failed')
  <2>1. dpc = "rewrite" /\ newest' = m
    BY <1>7 DEF m
  <2>2. Ordered(kept, q)
    BY <1>1, <1>2, <2>1, OrderedWeaker
  <2>3. ASSUME ~failed' PROVE Good(kept, q, m)
    BY <1>1, <1>2, <1>5, <2>1, <2>3, GoodWeaker
  <2>4. kept' = kept /\ newest' = m /\ published' = q
    BY <1>1, <2>1
  <2> QED BY <2>2, <2>3, <2>4 DEF Sound
<1>8. RestInv'
  BY <1>3, <1>6, <1>7 DEF RestInv
<1>9. RewriteInv'
  BY DEF RewriteInv
<1>10. newest' \in 0..published'
  BY <1>1
<1> QED BY <1>1, <1>8, <1>9, <1>10 DEF LogInv

\* and one of the pilot to a log that is.
LEMMA RewriteAppend ==
    ASSUME Shape, LogInv, dpc = "write", NEW w \in Nat, w # 0, NEW n \in 0..w,
           Appends("pilot", w, n), UNCHANGED <<dpc, kept, off, newest, trimmed>>,
           failed' = (failed \/ n # w)
    PROVE  LogInv'
<1> DEFINE q == published + 1
           p == published
           f == file
           t == Text
           u == With(f, q, "pilot", w, n)
<1>1. /\ f \in Seq(Bytes) /\ kept \in Seq(Bytes) /\ p \in Nat /\ q \in Nat /\ p < q /\ p <= q
      /\ newest \in 0..p /\ newest \in Nat /\ newest \in 0..q
      /\ off \in Nat /\ Len(f) \in Nat /\ published' = q /\ file' = u
      /\ failed \in BOOLEAN /\ failed' \in BOOLEAN /\ trimmed
  BY DEF Shape, LogInv, RewriteInv, Appends
<1>2. /\ off <= Len(f) /\ off \in 0..Len(f)
      /\ Ordered(t, p) /\ (~failed => Good(t, p, newest))
      /\ TailAfter(f, off, t, p)
  BY <1>1 DEF LogInv, RewriteInv, Sound
<1>3. t \in Seq(Bytes)
  <2>1. file \in Seq(Bytes) /\ off \in 0..Len(file)
    BY <1>1, <1>2
  <2> QED BY <1>1, <2>1, TextIs DEF Text
<1>4. "pilot" \in Writers
  BY DEF Writers
<1>5. Text' = Text
  <2>1. Piece(q, "pilot", w, n) \in Seq(Bytes)
    BY <1>1, <1>4, PieceIs, Zenon
  <2>2. file' = file \o Piece(q, "pilot", w, n)
    BY <1>1 DEF With
  <2> QED BY <1>1, <1>2, <2>1, <2>2, TextKept
<1>6. Len(u) = Len(f) + n
  BY <1>1, <1>4, WithPiece
<1>7. n = w => Closed(u)
  BY <1>1, <1>4, ClosedLine
<1> HIDE DEF t, q, p, f
<1>8. TailAfter(u, off, t, q)
  BY <1>1, <1>2, <1>3, TailLine DEF Ordered
<1> HIDE DEF u
<1>9. Sound(Text', published', newest', failed')
  <2>1. Ordered(t, q)
    BY <1>1, <1>2, <1>3, OrderedWeaker
  <2>2. ASSUME ~failed' PROVE Good(t, q, newest)
    <3>1. ~failed
      BY <2>2
    <3> QED BY <1>1, <1>2, <1>3, <3>1, GoodWeaker
  <2>3. newest' = newest /\ published' = q
    BY <1>1
  <2>4. Text' = t
    BY <1>5 DEF t
  <2> QED BY <2>1, <2>2, <2>3, <2>4 DEF Sound
<1>10. TailAfter(file', off', Text', published')
  <2>1. Text' = t /\ file' = u /\ off' = off /\ published' = q
    BY <1>1, <1>5 DEF t
  <2> QED BY <1>8, <2>1
<1>11. off' <= Len(file') /\ trimmed'
  BY <1>1, <1>2, <1>6
<1>12. ASSUME ~failed' PROVE Closed(file')
  <2>1. n = w /\ file' = u
    BY <1>1, <1>12
  <2> QED BY <1>7, <2>1
<1>13. RewriteInv'
  BY <1>9, <1>10, <1>11, <1>12 DEF RewriteInv
<1>14. RestInv'
  BY DEF RestInv
<1>15. newest' \in 0..published' /\ trimmed' \in BOOLEAN /\ failed' \in BOOLEAN
  BY <1>1 DEF LogInv
<1> QED BY <1>13, <1>14, <1>15 DEF LogInv

LEMMA LogStep == BoundInv /\ LogInv /\ [Next]_vars => LogInv'
<1> SUFFICES ASSUME BoundInv, LogInv, [Next]_vars PROVE LogInv'
  OBVIOUS
<1>0. /\ Shape /\ file \in Seq(Bytes) /\ kept \in Seq(Bytes) /\ off \in Nat /\ published \in Nat
      /\ Len(file) \in Nat /\ newest \in Nat /\ newest <= published /\ trimmed \in BOOLEAN
      /\ failed \in BOOLEAN /\ "daemon" \in Writers /\ "pilot" \in Writers
  BY DEF BoundInv, Shape, LogInv, Writers
<1>1. ASSUME UNCHANGED <<file, kept, off, published, dpc, newest, trimmed, failed>> PROVE LogInv'
  BY <1>1 DEF LogInv, RestInv, RewriteInv, Text
<1>2. ASSUME Publish PROVE LogInv'
  <2>1. /\ dpc = "idle" /\ dpc' = "trim" /\ Write("daemon") /\ newest' = published + 1
        /\ UNCHANGED <<kept, trimmed, failed>>
    BY <1>2 DEF Publish, faultVars
  <2>2. PICK w \in Nat : w # 0 /\ w \in 0..w /\ Appends("daemon", w, w)
    BY <1>0, <2>1, WriteIs
  <2>3. newest' = published'
    BY <2>1, <2>2 DEF Appends
  <2> QED BY <1>0, <2>1, <2>2, <2>3, RestAppend
<1>3. ASSUME PublishFails PROVE LogInv'
  <2>1. /\ dpc = "idle" /\ dpc' = dpc /\ WriteFails("daemon") /\ failed' = TRUE
        /\ UNCHANGED <<kept, trimmed, newest>>
    BY <1>3 DEF PublishFails, WriteFails
  <2>2. PICK w \in Nat : \E n \in 0..w : w # 0 /\ n # w /\ Appends("daemon", w, n)
    BY <2>1, WriteFailsIs
  <2>3. PICK n \in 0..w : w # 0 /\ n # w /\ Appends("daemon", w, n)
    BY <2>2
  <2> QED BY <1>0, <2>1, <2>3, RestAppend
<1>4. ASSUME Trim PROVE LogInv'
  <2>1. /\ dpc = "trim" /\ UNCHANGED <<file, off, published, newest, trimmed, failed>>
    BY <1>4 DEF Trim, faultVars
  <2>2. /\ Ordered(file, published) /\ (~failed => Good(file, published, newest))
        /\ kept = <<>>
    BY <2>1 DEF LogInv, RestInv, Sound
  <2>3. CASE dpc' = "idle" /\ kept' = kept
    BY <1>0, <2>1, <2>2, <2>3 DEF LogInv, RestInv, RewriteInv, Sound
  <2>4. CASE Cardinality(Lasts(file)) > MaxLines /\ dpc' = "rewrite" /\ kept' = Keep(file)
    <3>1. Ordered(Keep(file), published)
      BY <1>0, <2>2, <2>4, OrderedKeep
    <3>2. ASSUME ~failed PROVE Good(Keep(file), published, newest)
      BY <1>0, <2>2, <2>4, <3>2, GoodKeep
    <3>3. Sound(kept', published', newest', failed')
      BY <2>1, <2>4, <3>1, <3>2 DEF Sound
    <3> QED BY <1>0, <2>1, <2>2, <2>4, <3>3 DEF LogInv, RestInv, RewriteInv, Sound
  <2> QED BY <1>4, <2>3, <2>4 DEF Trim
<1>5. ASSUME TrimRaises \/ TrimFails PROVE LogInv'
  <2>1. /\ dpc \in {"trim", "rewrite"} /\ dpc' = "idle"
        /\ UNCHANGED <<file, off, published, newest, trimmed, failed>>
    BY <1>5 DEF TrimRaises, TrimFails, faultVars
  <2>2. kept' = <<>>
    BY <1>5 DEF TrimRaises, TrimFails, LogInv, RestInv
  <2> QED BY <2>1, <2>2 DEF LogInv, RestInv, RewriteInv
<1>6. ASSUME Rewrite PROVE LogInv'
  <2>1. /\ dpc = "rewrite" /\ dpc' = "write" /\ file' = <<>> /\ off' = 0 /\ trimmed' = TRUE
        /\ UNCHANGED <<kept, published, newest, failed>>
    BY <1>6 DEF Rewrite, faultVars
  <2>2. Sound(kept, published, newest, failed)
    BY <2>1 DEF LogInv, RestInv
  <2>3. Text' = kept
    <3>1. SubSeq(file', 1, off') = <<>>
      BY <2>1, SubSeqEmpty
    <3>2. Text' = SubSeq(file', 1, off') \o kept
      BY <2>1 DEF Text
    <3>3. <<>> \o kept = kept
      BY <1>0, ConcatEmptySeq
    <3> QED BY <3>1, <3>2, <3>3
  <2>4. Len(file') = 0
    BY <2>1
  <2>5. off' <= Len(file') /\ ~(off' < Len(file')) /\ off' + 1..Len(file') = {}
    BY <2>1, <2>4
  <2>6. TailAfter(file', off', Text', published')
    BY <2>5 DEF TailAfter
  <2>7. Sound(Text', published', newest', failed')
    BY <2>1, <2>2, <2>3
  <2> QED BY <1>0, <2>1, <2>5, <2>6, <2>7 DEF LogInv, RestInv, RewriteInv
<1>7. ASSUME WriteBack PROVE LogInv'
  <2>1. /\ dpc = "write" /\ dpc' = IF kept' = <<>> THEN "idle" ELSE "write"
        /\ UNCHANGED <<published, newest, trimmed, failed>>
    BY <1>7 DEF WriteBack, faultVars
  <2>2. /\ trimmed /\ off <= Len(file) /\ Sound(Text, published, newest, failed)
        /\ TailAfter(file, off, Text, published)
        /\ ~failed /\ off < Len(file) => Closed(file)
    BY <2>1 DEF LogInv, RewriteInv
  <2>3. /\ file' \in Seq(Bytes) /\ kept' \in Seq(Bytes) /\ off' \in Nat
        /\ off <= off' /\ off' <= Len(file') /\ Text' = Text
        /\ off' < Len(file') => Len(file') = Len(file)
        /\ \A i \in off' + 1..Len(file') : i <= Len(file) /\ file'[i] = file[i]
    BY <1>0, <1>7, <2>2, WriteBackIs
  <2>4. TailAfter(file', off', Text', published')
    <3>1. TailAfter(file', off', Text, published)
      BY <1>0, <2>2, <2>3, TailPart
    <3> QED BY <2>1, <2>3, <3>1
  <2>5. Sound(Text', published', newest', failed')
    BY <2>1, <2>2, <2>3
  <2>6. ASSUME ~failed, off' < Len(file') PROVE Closed(file')
    <3>1. Len(file') = Len(file) /\ off < Len(file) /\ Len(file) \in off' + 1..Len(file')
          /\ file # <<>>
      BY <1>0, <2>3, <2>6
    <3>2. file'[Len(file)] = file[Len(file)] /\ file[Len(file)].last
      BY <2>2, <2>3, <2>6, <3>1 DEF Closed
    <3> QED BY <3>1, <3>2 DEF Closed
  <2>7. CASE kept' # <<>>
    <3>1. RewriteInv'
      BY <2>1, <2>2, <2>3, <2>4, <2>5, <2>6 DEF RewriteInv
    <3>2. RestInv'
      BY <2>1, <2>7 DEF RestInv
    <3> QED BY <1>0, <2>1, <3>1, <3>2 DEF LogInv
  <2>8. CASE kept' = <<>>
    <3> DEFINE t == Text'
    <3>1. t \in Seq(Bytes) /\ Len(t) = off' /\ \A i \in 1..off' : file'[i] = t[i]
      <4> DEFINE u == SubSeq(file', 1, off') \o kept'
      <4>1. off' \in 0..Len(file')
        <5>1. Len(file') \in Nat
          BY <2>3
        <5> QED BY <2>3, <5>1
      <4>2. /\ u \in Seq(Bytes) /\ Len(u) = off' + Len(kept')
            /\ \A i \in 1..off' : u[i] = file'[i]
        BY <2>3, <4>1, TextIs
      <4>3. t = u
        BY DEF Text
      <4>4. Len(kept') = 0 /\ off' \in Nat
        BY <2>3, <2>8
      <4> DEFINE m == Len(kept')
                 f == off'
      <4>5. Len(u) = f + m /\ m = 0 /\ f \in Nat
        BY <4>2, <4>4
      <4> HIDE DEF t, u, m, f
      <4>6. Len(u) = f
        BY <4>5
      <4> QED BY <4>2, <4>3, <4>6 DEF f
    <3>2. t = Text'
      OBVIOUS
    <3> HIDE DEF t
    <3>3. /\ Ordered(t, published) /\ (~failed => Good(t, published, newest))
          /\ TailAfter(file', Len(t), t, published) /\ Len(t) <= Len(file')
          /\ \A i \in 1..Len(t) : file'[i] = t[i]
      BY <2>1, <2>3, <2>4, <2>5, <3>1, <3>2 DEF Sound
    <3>4. Len(t) \in 0..Len(file') /\ Len(t) <= Len(t)
      <4>1. Len(t) \in Nat /\ Len(file') \in Nat
        BY <2>3, <3>1
      <4> QED BY <3>3, <4>1
    <3>5. Ordered(file', published)
      BY <1>0, <2>3, <3>1, <3>3, <3>4, OrderedJoin
    <3>6. ASSUME ~failed PROVE Good(file', published, newest)
      <4>1. Closed(file')
        <5>1. CASE off' < Len(file')
          BY <2>6, <3>6, <5>1
        <5>2. CASE ~(off' < Len(file'))
          <6>1. Len(file') = Len(t)
            <7>1. Len(file') \in Nat
              BY <2>3
            <7> QED BY <2>3, <3>1, <5>2, <7>1
          <6>2. file' = t
            BY <2>3, <3>1, <3>3, <6>1, SeqEqual
          <6>3. Closed(t)
            BY <3>3, <3>6 DEF Good
          <6> QED BY <6>2, <6>3
        <5> QED BY <5>1, <5>2
      <4>2. Good(t, published, newest)
        BY <3>3, <3>6
      <4> QED BY <1>0, <2>3, <3>1, <3>3, <4>1, <4>2, GoodJoin
    <3>7. Sound(file', published', newest', failed')
      BY <2>1, <3>5, <3>6 DEF Sound
    <3> QED BY <1>0, <2>1, <2>8, <3>7 DEF LogInv, RestInv, RewriteInv
  <2> QED BY <2>7, <2>8
<1>8. ASSUME WriteBackFails PROVE LogInv'
  <2>1. /\ dpc' = "idle" /\ kept' = <<>> /\ failed' = TRUE
        /\ UNCHANGED <<file, off, published, newest, trimmed>>
    BY <1>8 DEF WriteBackFails
  <2>2. Ordered(file, published)
    BY <1>0, FileIsOrdered
  <2>3. Sound(file', published', newest', failed')
    BY <2>1, <2>2 DEF Sound
  <2> QED BY <1>0, <2>1, <2>3 DEF LogInv, RestInv, RewriteInv
<1>9. ASSUME PilotPublish PROVE LogInv'
  <2>1. Write("pilot") /\ UNCHANGED <<dpc, kept, off, newest, trimmed, failed>>
    BY <1>9 DEF PilotPublish, daemonVars, faultVars
  <2>2. PICK w \in Nat : w # 0 /\ w \in 0..w /\ Appends("pilot", w, w)
    BY <1>0, <2>1, WriteIs
  <2>3. CASE dpc # "write"
    BY <1>0, <2>1, <2>2, <2>3, RestAppend
  <2>4. CASE dpc = "write"
    BY <1>0, <2>1, <2>2, <2>4, RewriteAppend
  <2> QED BY <2>3, <2>4
<1>10. ASSUME PilotPublishFails PROVE LogInv'
  <2>1. WriteFails("pilot") /\ failed' = TRUE /\ UNCHANGED <<dpc, kept, off, newest, trimmed>>
    BY <1>10 DEF PilotPublishFails, WriteFails
  <2>2. PICK w \in Nat : \E n \in 0..w : w # 0 /\ n # w /\ Appends("pilot", w, n)
    BY <2>1, WriteFailsIs
  <2>3. PICK n \in 0..w : w # 0 /\ n # w /\ Appends("pilot", w, n)
    BY <2>2
  <2>4. CASE dpc # "write"
    BY <1>0, <2>1, <2>3, <2>4, RestAppend
  <2>5. CASE dpc = "write"
    BY <1>0, <2>1, <2>3, <2>5, RewriteAppend
  <2> QED BY <2>4, <2>5
<1>11. ASSUME Stop PROVE LogInv'
  <2>1. /\ dpc' = "down" /\ file' = <<>> /\ kept' = <<>> /\ newest' = 0 /\ failed' = FALSE
        /\ UNCHANGED <<published, trimmed>>
    BY <1>11 DEF Stop
  <2>2. Good(<<>>, published, 0)
    BY GoodEmpty
  <2>3. Sound(file', published', newest', failed')
    BY <2>1, <2>2 DEF Sound, Good
  <2>4. newest' \in 0..published'
    BY <1>0, <2>1
  <2>5. RestInv' /\ RewriteInv'
    BY <2>1, <2>3 DEF RestInv, RewriteInv
  <2> QED BY <1>0, <2>1, <2>4, <2>5 DEF LogInv
<1>12. ASSUME Start PROVE LogInv'
  <2>1. /\ dpc = "down" /\ dpc' = "idle"
        /\ UNCHANGED <<file, kept, off, published, newest, trimmed, failed>>
    BY <1>12 DEF Start, faultVars
  <2> QED BY <2>1 DEF LogInv, RestInv, RewriteInv
<1>13. ASSUME Poll PROVE LogInv'
  BY <1>1, <1>13 DEF Poll, Stat, Prime, Read, ReadRaises, OpenFails, daemonVars, faultVars
<1>14. CASE UNCHANGED vars
  BY <1>1, <1>14 DEF vars
<1> QED
  BY <1>2, <1>3, <1>4, <1>5, <1>6, <1>7, <1>8, <1>9, <1>10, <1>11, <1>12, <1>13, <1>14 DEF Next

\* Whatever the pilot appends while the daemon rewrites the log, and whichever write fails,
\* its events stand in the order they were published, none of them twice.
THEOREM LogIsOrderedHolds == Spec => []LogIsOrdered
<1>1. BoundInv /\ LogInv => LogIsOrdered
  <2> SUFFICES ASSUME BoundInv, LogInv, NEW i \in WholeEnds(file), NEW j \in WholeEnds(file), i < j
               PROVE  file[i].id < file[j].id
    BY DEF LogIsOrdered
  <2>1. Shape /\ file \in Seq(Bytes)
    BY DEF BoundInv, Shape
  <2>2. Asc(file)
    BY <2>1, FileIsOrdered DEF Ordered
  <2>3. i \in Ends(file) /\ j \in Ends(file)
    BY DEF WholeEnds
  <2> QED BY <2>1, <2>2, <2>3, EndsAscend
<1> QED BY <1>1, BoundInit, BoundStep, LogInit, LogStep, PTL DEF Spec

\* The race of the trim with an append costs lines of the pilot only: unless a write to
\* this file failed part-way, those of the daemon are intact when the trim is over.
THEOREM DaemonLinesSurviveHolds == Spec => []DaemonLinesSurvive
<1>1. LogInv => DaemonLinesSurvive
  <2> SUFFICES ASSUME LogInv, ~failed, dpc \in {"idle", "trim", "rewrite"}
               PROVE  /\ \A i \in Ends(file) : file[i].by = "daemon" => i \in WholeEnds(file)
                      /\ newest # 0 /\ published < newest + MaxLines =>
                            \E i \in Ends(file) : file[i].id = newest
    BY DEF DaemonLinesSurvive
  <2>1. Good(file, published, newest)
    BY DEF LogInv, RestInv, Sound
  <2> QED BY <2>1 DEF Good, DaemonWhole, HasNewest
<1> QED BY <1>1, BoundInit, BoundStep, LogInit, LogStep, PTL DEF Spec

(***************************************************************************)
(* The events of a text, in order.                                         *)
(***************************************************************************)

\* json.loads makes of a text the events of its whole lines, each where it stands.
LEMMA ParsedIs ==
    ASSUME NEW s \in Seq(Bytes), NEW q \in Nat, KnownUpTo(s, q)
    PROVE  /\ Parsed(s) \in Seq(1..q)
           /\ \A k \in DOMAIN Parsed(s) : \E i \in WholeEnds(s) : Parsed(s)[k] = s[i].id
           /\ \A i \in WholeEnds(s) : \E k \in DOMAIN Parsed(s) : Parsed(s)[k] = s[i].id
           /\ Asc(s) => \A k, l \in DOMAIN Parsed(s) : k < l => Parsed(s)[k] < Parsed(s)[l]
<1> DEFINE S == WholeEnds(s)
           c == Cardinality(S)
           p == Parsed(s)
<1>1. Len(s) \in Nat /\ DOMAIN s = 1..Len(s)
  OBVIOUS
<1>2. S \in SUBSET (1..Len(s)) /\ S \in SUBSET Ends(s)
  BY <1>1 DEF WholeEnds, Ends
<1>3. c \in Nat
  BY <1>1, <1>2, RankType DEF Rank
<1>4. p = [k \in 1..c |-> s[Nth(S, k)].id]
  BY DEF Parsed
<1> HIDE DEF S, c, p
<1>5. DOMAIN p = 1..c /\ \A k \in 1..c : p[k] = s[Nth(S, k)].id
  BY <1>4
<1>6. \A k \in 1..c : Nth(S, k) \in S
  BY <1>1, <1>2, NthIs DEF c
<1>7. ASSUME NEW k \in 1..c PROVE p[k] \in 1..q
  <2>1. Nth(S, k) \in DOMAIN s
    BY <1>1, <1>2, <1>6
  <2> QED BY <1>5, <2>1 DEF KnownUpTo
<1>8. p \in Seq(1..q)
  <2>1. p \in [1..c -> 1..q]
    BY <1>4, <1>5, <1>7
  <2> QED BY <1>3, <2>1
<1>9. \A k \in DOMAIN p : \E i \in S : p[k] = s[i].id
  BY <1>5, <1>6
<1>10. ASSUME NEW i \in S PROVE \E k \in DOMAIN p : p[k] = s[i].id
  <2>1. PICK k \in 1..c : Nth(S, k) = i
    BY <1>1, <1>2, NthAll DEF c
  <2> QED BY <1>5, <2>1
<1>11. ASSUME Asc(s), NEW k \in 1..c, NEW l \in 1..c, k < l PROVE p[k] < p[l]
  <2>1. Nth(S, k) \in Ends(s) /\ Nth(S, l) \in Ends(s)
    BY <1>2, <1>6
  <2>2. Nth(S, k) < Nth(S, l)
    BY <1>1, <1>2, <1>11, NthAscends DEF c
  <2>3. s[Nth(S, k)].id < s[Nth(S, l)].id
    BY <1>11, <2>1, <2>2, EndsAscend
  <2> QED BY <1>5, <2>3
<1> QED BY <1>5, <1>8, <1>9, <1>10, <1>11 DEF p, S


(***************************************************************************)
(* The state of the reader.                                                *)
(***************************************************************************)

\* What the reader has not read is the log from its position on.
LEMMA UnreadIs ==
    ASSUME NEW f \in Seq(Bytes), NEW c \in Nat
    PROVE  LET u == SubSeq(f, c + 1, Len(f))
           IN  /\ u \in Seq(Bytes)
               /\ \A i \in DOMAIN u : i \in 1..Len(u) /\ i + c \in DOMAIN f /\ u[i] = f[i + c]
               /\ \A j \in DOMAIN f : j > c => j - c \in DOMAIN u /\ u[j - c] = f[j]
<1> DEFINE u == SubSeq(f, c + 1, Len(f))
<1>1. Len(f) \in Nat /\ DOMAIN f = 1..Len(f) /\ c + 1 \in Int /\ Len(f) \in Int
  OBVIOUS
<1>2. \A i \in c + 1..Len(f) : f[i] \in Bytes
  BY <1>1
<1>3. /\ u \in Seq(Bytes)
      /\ Len(u) = IF c + 1 <= Len(f) THEN Len(f) - (c + 1) + 1 ELSE 0
      /\ \A i \in 1..Len(f) - (c + 1) + 1 : u[i] = f[c + 1 + i - 1]
  BY <1>1, <1>2, SubSeqProperties
<1> HIDE DEF u
<1>4. DOMAIN u = 1..Len(u)
  BY <1>3
<1>5. ASSUME NEW i \in DOMAIN u PROVE i \in 1..Len(u) /\ i + c \in DOMAIN f /\ u[i] = f[i + c]
  <2>0. i \in 1..Len(u) /\ Len(u) \in Nat
    BY <1>3, <1>4
  <2>1. i \in 1..Len(u) /\ c + 1 <= Len(f) /\ i \in 1..Len(f) - (c + 1) + 1
    <3>1. c + 1 <= Len(f)
      <4>1. Len(u) # 0
        BY <2>0
      <4> DEFINE m == Len(u)
      <4>2. m = (IF c + 1 <= Len(f) THEN Len(f) - (c + 1) + 1 ELSE 0) /\ m # 0
        BY <1>3, <4>1
      <4> HIDE DEF m
      <4> QED BY <4>2
    <3>2. Len(u) = Len(f) - (c + 1) + 1
      BY <1>3, <3>1
    <3> QED BY <2>0, <3>1, <3>2
  <2>2. c + 1 + i - 1 = i + c /\ i + c \in 1..Len(f)
    BY <1>1, <2>1
  <2>3. u[i] = f[c + 1 + i - 1]
    BY <1>3, <2>1
  <2> QED BY <1>1, <2>1, <2>2, <2>3
<1>6. ASSUME NEW j \in DOMAIN f, j > c PROVE j - c \in DOMAIN u /\ u[j - c] = f[j]
  <2>1. j - c \in 1..Len(f) - (c + 1) + 1 /\ c + 1 <= Len(f)
    BY <1>1, <1>6
  <2>2. j - c \in DOMAIN u
    BY <1>1, <1>3, <1>4, <2>1
  <2>3. c + 1 + (j - c) - 1 = j
    BY <1>1, <1>6
  <2>4. u[j - c] = f[c + 1 + (j - c) - 1]
    BY <1>3, <2>1
  <2> QED BY <2>2, <2>3, <2>4
<1> QED BY <1>3, <1>5, <1>6 DEF u

\* The types, and what orders the counters.
ReaderShape ==
    /\ boot \in 1..MaxBoots /\ inode \in {0, boot} /\ seen \in 0..boot
    /\ dpc = "down" => inode = 0 /\ boot < MaxBoots
    /\ dpc \in {"idle", "trim", "rewrite", "write", "down"}
    /\ published \in 0..MaxEvents /\ start \in 0..published /\ late \in 0..published
    /\ rpc \in {"idle", "open", "dead"}
    /\ pos \in Nat /\ primed \in BOOLEAN /\ raised \in BOOLEAN
    /\ polled \in Seq(1..published) /\ faults \in 0..MaxFaults

LEMMA ShapeInit == Init => ReaderShape
<1> SUFFICES ASSUME Init PROVE ReaderShape
  OBVIOUS
<1>1. 1 \in 1..MaxBoots /\ 0 \in 0..MaxEvents /\ 0 \in 0..MaxFaults /\ 0 \in 0..1 /\ 0 \in 0..0
  BY EventLogAssumption
<1>2. boot = 1 /\ inode = 0 /\ seen = 0 /\ published = 0 /\ start = 0 /\ late = 0 /\ pos = 0
      /\ primed = FALSE /\ raised = FALSE /\ dpc = "idle" /\ rpc = "idle" /\ polled = <<>>
      /\ faults = 0
  BY DEF Init
<1>3. polled \in Seq(1..published)
  BY <1>2
<1> QED BY <1>1, <1>2, <1>3 DEF ReaderShape

\* What was published stays so.
LEMMA SeqGrows ==
    ASSUME NEW m \in Nat, NEW n \in Nat, m <= n, NEW s \in Seq(1..m)
    PROVE  s \in Seq(1..n)
<1>1. Len(s) \in Nat /\ s \in [1..Len(s) -> 1..m]
  OBVIOUS
<1>2. 1..m \subseteq 1..n
  OBVIOUS
<1>3. s \in [1..Len(s) -> 1..n]
  BY <1>1, <1>2
<1> QED BY <1>1, <1>3

\* What a read adds to the polled events.
LEMMA ReadIs ==
    ASSUME BoundInv, LogInv, ReaderShape
    PROVE  /\ Unread \in Seq(Bytes) /\ KnownUpTo(Unread, published)
           /\ Parsed(Unread) \in Seq(1..published)
           /\ \A k \in DOMAIN Parsed(Unread) :
                 \E i \in WholeEnds(Unread) : Parsed(Unread)[k] = Unread[i].id
           /\ \A i \in WholeEnds(Unread) :
                 \E k \in DOMAIN Parsed(Unread) : Parsed(Unread)[k] = Unread[i].id
           /\ Asc(Unread) => \A k, l \in DOMAIN Parsed(Unread) :
                                k < l => Parsed(Unread)[k] < Parsed(Unread)[l]
<1>1. file \in Seq(Bytes) /\ pos \in Nat /\ published \in Nat
  BY DEF BoundInv, Shape, ReaderShape
<1>2. /\ Unread \in Seq(Bytes)
      /\ \A i \in DOMAIN Unread : i + pos \in DOMAIN file /\ Unread[i] = file[i + pos]
  BY <1>1, UnreadIs DEF Unread
<1>3. KnownUpTo(file, published)
  BY FileIsOrdered DEF Ordered, BoundInv
<1>4. KnownUpTo(Unread, published)
  BY <1>2, <1>3 DEF KnownUpTo
<1> DEFINE u == Unread
<1> HIDE DEF u
<1>5. u \in Seq(Bytes) /\ KnownUpTo(u, published)
  BY <1>2, <1>4 DEF u
<1>6. /\ Parsed(u) \in Seq(1..published)
      /\ \A k \in DOMAIN Parsed(u) : \E i \in WholeEnds(u) : Parsed(u)[k] = u[i].id
      /\ \A i \in WholeEnds(u) : \E k \in DOMAIN Parsed(u) : Parsed(u)[k] = u[i].id
      /\ Asc(u) => \A k, l \in DOMAIN Parsed(u) : k < l => Parsed(u)[k] < Parsed(u)[l]
  BY <1>1, <1>5, ParsedIs
<1> QED BY <1>5, <1>6 DEF u

LEMMA ShapeStep == BoundInv /\ LogInv /\ ReaderShape /\ [Next]_vars => ReaderShape'
<1> SUFFICES ASSUME BoundInv, LogInv, ReaderShape, [Next]_vars PROVE ReaderShape'
  OBVIOUS
<1>0. /\ published \in Nat /\ MaxEvents \in Nat /\ MaxBoots \in Nat /\ MaxFaults \in Nat
      /\ boot \in Nat
      /\ file \in Seq(Bytes) /\ Len(file) \in Nat
  BY EventLogAssumption DEF ReaderShape, BoundInv, Shape
<1>1. ASSUME NEW by, Write(by) \/ WriteFails(by)
      PROVE  /\ published' = published + 1 /\ published' \in 0..MaxEvents
             /\ start \in 0..published' /\ late \in 0..published' /\ late + 1 \in 0..published'
             /\ polled \in Seq(1..published') /\ inode' = boot /\ boot # 0
  <2>1. published < MaxEvents /\ published' = published + 1 /\ inode' = boot
    BY <1>1 DEF Write, WriteFails
  <2>2. start \in 0..published /\ late \in 0..published /\ polled \in Seq(1..published) /\ boot # 0
    BY DEF ReaderShape
  <2>3. published + 1 \in Nat /\ published <= published + 1
    BY <1>0
  <2>4. polled \in Seq(1..published + 1)
    BY <1>0, <2>2, <2>3, SeqGrows
  <2> QED BY <1>0, <2>1, <2>2, <2>4
<1>2. ASSUME Publish PROVE ReaderShape'
  <2>1. Write("daemon") /\ late' = late + 1
    BY <1>2 DEF Publish, Write
  <2>2. /\ published' \in 0..MaxEvents /\ start \in 0..published' /\ late + 1 \in 0..published'
        /\ polled \in Seq(1..published') /\ inode' = boot /\ boot # 0
    BY <1>1, <2>1
  <2> QED BY <1>2, <2>1, <2>2 DEF Publish, ReaderShape, readerVars, faultVars
<1>3. ASSUME PublishFails \/ PilotPublishFails PROVE ReaderShape'
  <2>1. PICK by : WriteFails(by)
    BY <1>3 DEF PublishFails, PilotPublishFails
  <2>2. /\ published' \in 0..MaxEvents /\ start \in 0..published' /\ late \in 0..published'
        /\ polled \in Seq(1..published') /\ inode' = boot /\ boot # 0
    BY <1>1, <2>1
  <2>3. faults' \in 0..MaxFaults
    BY <1>0, <2>1 DEF WriteFails, ReaderShape
  <2>4. /\ dpc # "down" /\ UNCHANGED <<boot, dpc, late, readerVars>>
        /\ raised' = FALSE \/ raised' = raised
    BY <1>3 DEF PublishFails, PilotPublishFails
  <2> QED BY <2>2, <2>3, <2>4 DEF ReaderShape, readerVars
<1>4. ASSUME TrimFails \/ WriteBackFails PROVE ReaderShape'
  <2>1. faults' \in 0..MaxFaults
    BY <1>0, <1>4 DEF TrimFails, WriteBackFails, ReaderShape
  <2>2. /\ dpc # "down" /\ dpc' = "idle"
        /\ UNCHANGED <<inode, boot, published, late, readerVars>>
        /\ raised' = FALSE \/ raised' = raised
    BY <1>4 DEF TrimFails, WriteBackFails
  <2> QED BY <2>1, <2>2 DEF ReaderShape, readerVars
<1>5. ASSUME Trim PROVE ReaderShape'
  <2>1. /\ dpc = "trim" /\ dpc' \in {"idle", "rewrite"} /\ raised' = FALSE
        /\ late' = 0 \/ late' = late
        /\ UNCHANGED <<inode, boot, published, faults, readerVars>>
    BY <1>5 DEF Trim, faultVars
  <2>2. late' \in 0..published
    BY <1>0, <2>1 DEF ReaderShape
  <2> QED BY <2>1, <2>2 DEF ReaderShape, readerVars
<1>6. ASSUME TrimRaises PROVE ReaderShape'
  BY <1>0, <1>6 DEF TrimRaises, ReaderShape, readerVars, faultVars
<1>7. ASSUME Rewrite PROVE ReaderShape'
  <2>1. 0 \in 0..published
    BY <1>0
  <2> QED BY <1>7, <2>1 DEF Rewrite, ReaderShape, readerVars, faultVars
<1>8. ASSUME WriteBack PROVE ReaderShape'
  <2>1. /\ dpc = "write" /\ dpc' = IF kept' = <<>> THEN "idle" ELSE "write"
        /\ UNCHANGED <<inode, boot, published, late, raised, faults, readerVars>>
    BY <1>8 DEF WriteBack, faultVars
  <2>2. dpc' \in {"idle", "write"}
    BY <2>1
  <2> QED BY <2>1, <2>2 DEF ReaderShape, readerVars
<1>9. ASSUME PilotPublish PROVE ReaderShape'
  <2>1. /\ Write("pilot") /\ late' = late + 1 /\ dpc # "down"
        /\ UNCHANGED <<daemonVars, readerVars>>
    BY <1>9 DEF PilotPublish, Write
  <2>2. /\ published' \in 0..MaxEvents /\ start \in 0..published' /\ late + 1 \in 0..published'
        /\ polled \in Seq(1..published') /\ inode' = boot /\ boot # 0
    BY <1>1, <2>1
  <2> QED BY <2>1, <2>2 DEF ReaderShape, readerVars, daemonVars, faultVars
<1>10. ASSUME Stop PROVE ReaderShape'
  <2>1. 0 \in 0..published
    BY <1>0
  <2> QED BY <1>10, <2>1 DEF Stop, ReaderShape, readerVars
<1>11. ASSUME Start PROVE ReaderShape'
  <2>1. /\ dpc = "down" /\ dpc' = "idle" /\ boot' = boot + 1 /\ raised' = FALSE
        /\ UNCHANGED <<inode, published, late, faults, readerVars>>
    BY <1>11 DEF Start, faultVars
  <2>2. inode = 0 /\ boot < MaxBoots /\ boot \in 1..MaxBoots /\ seen \in 0..boot
    BY <2>1 DEF ReaderShape
  <2>3. boot' \in 1..MaxBoots /\ seen \in 0..boot' /\ inode \in {0, boot'}
    BY <1>0, <2>1, <2>2
  <2> QED BY <2>1, <2>3 DEF ReaderShape, readerVars
<1>12. ASSUME Stat PROVE ReaderShape'
  <2>1. /\ rpc' = "open" /\ seen' = inode
        /\ pos' = IF seen \notin {0, inode} \/ Len(file) < pos THEN 0 ELSE pos
        /\ UNCHANGED <<inode, published, late, primed, polled, start, daemonVars>>
    BY <1>12 DEF Stat
  <2>2. pos' \in Nat /\ seen' \in 0..boot
    BY <1>0, <2>1 DEF ReaderShape
  <2> QED BY <2>1, <2>2 DEF ReaderShape, daemonVars, faultVars
<1>13. ASSUME Prime PROVE ReaderShape'
  <2>1. /\ rpc' = "idle" /\ primed' = TRUE /\ start' = published /\ pos' = Len(file)
        /\ UNCHANGED <<inode, published, late, seen, polled, daemonVars>>
    BY <1>13 DEF Prime
  <2>2. published \in 0..published
    BY <1>0
  <2> QED BY <1>0, <2>1, <2>2 DEF ReaderShape, daemonVars, faultVars
<1>14. ASSUME Read PROVE ReaderShape'
  <2>1. /\ rpc' = "idle" /\ polled' = polled \o Parsed(Unread)
        /\ pos' = IF Len(file) < pos THEN pos ELSE Len(file)
        /\ UNCHANGED <<inode, published, late, seen, primed, start, daemonVars>>
    BY <1>14 DEF Read
  <2>2. polled \in Seq(1..published) /\ pos \in Nat
    BY DEF ReaderShape
  <2>3. Parsed(Unread) \in Seq(1..published)
    BY ReadIs
  <2>4. polled' \in Seq(1..published)
    BY <2>1, <2>2, <2>3, ConcatProperties
  <2>5. pos' \in Nat
    BY <1>0, <2>1, <2>2
  <2> QED BY <2>1, <2>4, <2>5 DEF ReaderShape, daemonVars, faultVars
<1>15. ASSUME ReadRaises PROVE ReaderShape'
  BY <1>15 DEF ReadRaises, ReaderShape, daemonVars, faultVars
<1>16. ASSUME OpenFails PROVE ReaderShape'
  BY <1>16 DEF OpenFails, ReaderShape, daemonVars, faultVars
<1>17. CASE UNCHANGED vars
  BY <1>17 DEF vars, ReaderShape
<1> QED
  BY <1>2, <1>3, <1>4, <1>5, <1>6, <1>7, <1>8, <1>9, <1>10, <1>11, <1>12, <1>13, <1>14,
     <1>15, <1>16, <1>17 DEF Next, Poll

\* Every variable of the log and of the processes around it has its type.
THEOREM LogTypeCorrect == Spec => []TypeOK
<1>1. BoundInv /\ LogInv /\ ReaderShape => TypeOK
  <2> SUFFICES ASSUME BoundInv, LogInv, ReaderShape PROVE TypeOK
    OBVIOUS
  <2>1. /\ file \in Seq(Bytes) /\ kept \in Seq(Bytes) /\ off \in Nat /\ Len(file) \in Nat
        /\ published \in Nat /\ MaxEvents \in Nat /\ MaxBoots \in Nat /\ MaxLines \in Nat
        /\ published <= MaxEvents
    BY EventLogAssumption DEF BoundInv, Shape, ReaderShape
  <2>2. newest \in 0..MaxEvents /\ start \in 0..MaxEvents /\ late \in 0..MaxEvents
        /\ seen \in 0..MaxBoots
    BY <2>1 DEF LogInv, ReaderShape
  <2>3. polled \in Seq(1..MaxEvents)
    BY <2>1, SeqGrows DEF ReaderShape
  <2>4. Cardinality(Ends(kept)) = Lines(kept) /\ Lines(kept) \in Nat
    BY <2>1, CountAll, LinesType DEF Lines
  <2>5. Lines(kept) <= MaxLines
    <3>1. CASE dpc = "rewrite"
      BY <3>1 DEF BoundInv, KeptIsBounded
    <3>2. CASE dpc = "write"
      <4>1. Count(file, 1, off) + Lines(kept) <= MaxLines
        BY <3>2 DEF BoundInv, WriteIsBounded
      <4>2. Count(file, 1, off) \in Nat
        BY <2>1, CountType
      <4> QED BY <2>1, <2>4, <4>1, <4>2
    <3>3. CASE dpc \notin {"rewrite", "write"}
      <4>1. kept = <<>>
        BY <3>3 DEF LogInv, RestInv
      <4> QED BY <2>1, <4>1, EmptyHasNone
    <3> QED BY <3>1, <3>2, <3>3
  <2> QED BY <2>1, <2>2, <2>3, <2>4, <2>5 DEF TypeOK, ReaderShape, LogInv
<1> QED BY <1>1, BoundInit, BoundStep, LogInit, LogStep, ShapeInit, ShapeStep, PTL DEF Spec

\* A reader that has seen the directory of this start has seen its file.
SeenInv ==
    /\ seen = boot => inode = boot \/ dpc = "down"
    /\ seen = 0 => pos = 0 /\ ~primed /\ rpc = "idle"

\* Until the first trim, a reader that has seen the present file stands inside none of its
\* whole lines, and was shown those up to there that are later than its first poll.
Shown(f, p) ==
    /\ p <= Len(f)
    /\ \A i \in WholeEnds(f) : i > p => i - f[i].part >= p
    /\ primed => \A i \in WholeEnds(f) :
                    i <= p => \/ f[i].id <= start
                              \/ \E k \in DOMAIN polled : polled[k] = f[i].id

SkipInv == ~trimmed /\ seen = inode => Shown(file, pos)

\* Until the first trim and restart, what it was shown is ordered, and older than all it
\* was not shown yet.
Older(f, p) == \A k \in DOMAIN polled : \A i \in DOMAIN f : i > p => polled[k] < f[i].id

OrderInv ==
    ~trimmed /\ boot = 1 =>
        /\ \A j, k \in DOMAIN polled : j < k => polled[j] < polled[k]
        /\ Older(file, pos)

ReadInv == SeenInv /\ SkipInv /\ OrderInv

LEMMA ReadInit == Init => ReadInv
<1> SUFFICES ASSUME Init PROVE ReadInv
  OBVIOUS
<1>1. file = <<>> /\ inode = 0 /\ boot = 1 /\ pos = 0 /\ seen = 0 /\ primed = FALSE
      /\ polled = <<>> /\ rpc = "idle"
  BY DEF Init
<1>2. Len(file) = 0 /\ DOMAIN polled = {} /\ DOMAIN file = {}
  BY <1>1
<1>3. WholeEnds(file) = {}
  BY <1>2 DEF WholeEnds, Ends
<1> QED BY <1>1, <1>2, <1>3 DEF ReadInv, SeenInv, SkipInv, Shown, OrderInv, Older

\* The whole lines of a text with a line, or a part of one, behind it are those of the text
\* and perhaps the new one.
LEMMA WholeWith ==
    ASSUME NEW s \in Seq(Bytes), NEW id \in Nat, NEW by \in Writers, NEW w \in Nat, w # 0,
           NEW n \in 0..w, NEW i \in WholeEnds(With(s, id, by, w, n))
    PROVE  \/ i \in WholeEnds(s) /\ With(s, id, by, w, n)[i] = s[i]
           \/ i = Len(s) + w /\ With(s, id, by, w, n)[i].part = w
<1> DEFINE t == With(s, id, by, w, n)
           m == Len(s)
<1>1. /\ t \in Seq(Bytes) /\ Len(t) = m + n
      /\ \A j \in 1..m : t[j] = s[j]
      /\ \A j \in m + 1..m + n : t[j] = Byte(id, by, j - m, w)
  BY WithPiece
<1>2. i \in WholeEnds(t) /\ m \in Nat /\ n \in Nat /\ n <= w /\ DOMAIN s = 1..m
  OBVIOUS
<1> HIDE DEF t
<1>3. i \in Ends(t) /\ i \in 1..m + n /\ t[i].last
  BY <1>1, <1>2 DEF WholeEnds, Ends
<1>4. CASE i <= m
  <2>1. i \in 1..m /\ i + 0 = i /\ 0 \in Nat /\ i + 0 \in 1..Len(s)
    BY <1>2, <1>3, <1>4
  <2>2. t[i] = s[i]
    BY <1>1, <2>1
  <2>3. i \in Ends(s)
    BY <1>2, <1>3, <2>1, <2>2 DEF Ends
  <2>4. \A j \in 1..i : t[j] = s[j + 0]
    <3>1. \A j \in 1..i : j \in 1..m /\ j + 0 = j
      BY <1>2, <2>1
    <3> QED BY <1>1, <3>1
  <2>5. i \in WholeEnds(t) <=> i + 0 \in WholeEnds(s)
    BY <1>1, <1>3, <2>1, <2>4, WholeShift
  <2> QED BY <1>2, <2>1, <2>2, <2>5 DEF t
<1>5. CASE ~(i <= m)
  <2> DEFINE k == i - m
             b == Byte(id, by, k, w)
  <2>1. i \in m + 1..m + n /\ k \in Nat /\ (k = w => i = m + w)
    BY <1>2, <1>3, <1>5
  <2>2. t[i] = b
    BY <1>1, <2>1
  <2> HIDE DEF k
  <2>3. b.part = k
    BY <2>1, ByteIs
  <2>4. b.last <=> k = w
    BY DEF Byte
  <2> HIDE DEF b
  <2>5. k = w
    BY <1>3, <2>2, <2>4
  <2> QED BY <2>1, <2>2, <2>3, <2>5 DEF t
<1> QED BY <1>4, <1>5

\* An append leaves what was read, and its event is later than any shown.
LEMMA AppendKeeps ==
    ASSUME Shape, ReaderShape, ReadInv, NEW by \in Writers, NEW w \in Nat, w # 0,
           NEW n \in 0..w, Appends(by, w, n), inode' = boot, dpc # "down",
           UNCHANGED <<boot, trimmed, readerVars>>
    PROVE  ReadInv'
<1>1. /\ inode' = boot /\ pos' = pos /\ seen' = seen /\ primed' = primed /\ polled' = polled
      /\ start' = start /\ rpc' = rpc /\ boot' = boot /\ trimmed' = trimmed
  BY DEF readerVars
<1> DEFINE q == published + 1
           m == Len(file)
           f == file
           t == With(f, q, by, w, n)
<1>2. /\ f \in Seq(Bytes) /\ m \in Nat /\ DOMAIN f = 1..m /\ q \in Nat /\ pos \in Nat
      /\ published \in Nat /\ published < q /\ n \in Nat /\ file' = t /\ m = Len(f)
      /\ file = f
  BY DEF Shape, ReaderShape, Appends
<1> HIDE DEF q, f
<1>0. f \in Seq(Bytes) /\ q \in Nat
  BY <1>2
<1>3. /\ t \in Seq(Bytes) /\ Len(t) = Len(f) + n
      /\ \A i \in 1..Len(f) : t[i] = f[i]
      /\ \A i \in Len(f) + 1..Len(f) + n : t[i] = Byte(q, by, i - Len(f), w)
  BY <1>0, WithPiece
<1>4. \A i \in WholeEnds(t) : \/ i \in WholeEnds(f) /\ t[i] = f[i]
                              \/ i = Len(f) + w /\ t[i].part = w
  BY <1>0, WholeWith
<1> HIDE DEF t, m
<1>5. ASSUME NEW i \in DOMAIN t PROVE (i \in 1..m /\ t[i] = f[i]) \/ t[i].id = q
  <2>1. i \in 1..m + n
    BY <1>2, <1>3
  <2>2. CASE i <= m
    <3>1. i \in 1..m
      BY <1>2, <2>1, <2>2
    <3> QED BY <1>2, <1>3, <3>1
  <2>3. CASE ~(i <= m)
    <3> DEFINE k == i - m
               b == Byte(q, by, k, w)
    <3>1. i \in m + 1..m + n
      BY <1>2, <2>1, <2>3
    <3>2. t[i] = b
      BY <1>2, <1>3, <3>1
    <3>3. b.id = q
      BY DEF Byte
    <3> HIDE DEF b
    <3> QED BY <3>2, <3>3
  <2> QED BY <2>2, <2>3
<1>6. SeenInv'
  BY <1>1 DEF ReadInv, SeenInv
<1>7. ASSUME ~trimmed', seen' = inode' PROVE Shown(t, pos)
  <2>1. seen = inode /\ ~trimmed
    BY <1>1, <1>7 DEF ReadInv, SeenInv
  <2>2. Shown(f, pos)
    BY <1>2, <2>1 DEF ReadInv, SkipInv
  <2>3. pos <= m /\ pos <= Len(t)
    BY <1>2, <1>3, <2>2 DEF Shown
  <2>4. ASSUME NEW i \in WholeEnds(t), i > pos PROVE i - t[i].part >= pos
    <3>1. CASE i \in WholeEnds(f) /\ t[i] = f[i]
      BY <2>2, <2>4, <3>1 DEF Shown
    <3>2. CASE i = Len(f) + w /\ t[i].part = w
      BY <1>2, <2>3, <3>2
    <3> QED BY <1>4, <3>1, <3>2
  <2>5. ASSUME primed, NEW i \in WholeEnds(t), i <= pos
        PROVE  t[i].id <= start \/ \E k \in DOMAIN polled : polled[k] = t[i].id
    <3>1. CASE i \in WholeEnds(f) /\ t[i] = f[i]
      BY <2>2, <2>5, <3>1 DEF Shown
    <3>2. CASE i = Len(f) + w /\ t[i].part = w
      BY <1>2, <2>3, <2>5, <3>2
    <3> QED BY <1>4, <3>1, <3>2
  <2> QED BY <2>3, <2>4, <2>5 DEF Shown
<1>8. ASSUME ~trimmed', boot' = 1
      PROVE  /\ \A j, k \in DOMAIN polled : j < k => polled[j] < polled[k]
             /\ Older(t, pos)
  <2>1. /\ \A j, k \in DOMAIN polled : j < k => polled[j] < polled[k]
        /\ Older(f, pos)
    BY <1>1, <1>2, <1>8 DEF ReadInv, OrderInv
  <2>2. ASSUME NEW k \in DOMAIN polled, NEW i \in DOMAIN t, i > pos
        PROVE  polled[k] < t[i].id
    <3>1. CASE i \in 1..m /\ t[i] = f[i]
      BY <1>2, <2>1, <2>2, <3>1 DEF Older
    <3>2. CASE t[i].id = q
      <4>1. polled[k] \in 1..published
        BY DEF ReaderShape
      <4> QED BY <1>2, <3>2, <4>1
    <3> QED BY <1>5, <3>1, <3>2
  <2> QED BY <2>1, <2>2 DEF Older
<1>9. SkipInv'
  BY <1>1, <1>2, <1>7 DEF SkipInv, Shown
<1>10. OrderInv'
  BY <1>1, <1>2, <1>8 DEF OrderInv, Older
<1> QED BY <1>6, <1>9, <1>10 DEF ReadInv

\* The log is in order, and a read goes up to its end.
LEMMA EndIsShown ==
    ASSUME BoundInv, LogInv
    PROVE  /\ file \in Seq(Bytes) /\ Len(file) \in Nat /\ DOMAIN file = 1..Len(file)
           /\ Asc(file) /\ KnownUpTo(file, published)
<1>1. Shape /\ file \in Seq(Bytes)
  BY DEF BoundInv, Shape
<1>2. Ordered(file, published)
  BY <1>1, FileIsOrdered
<1> QED BY <1>1, <1>2 DEF Ordered

\* A whole line behind an offset is whole in what is behind it.
LEMMA WholeBehind ==
    ASSUME NEW s \in Seq(Bytes), NEW u \in Seq(Bytes), NEW c \in Nat,
           \A j \in DOMAIN u : j + c \in DOMAIN s /\ u[j] = s[j + c],
           \A j \in DOMAIN s : j > c => j - c \in DOMAIN u /\ u[j - c] = s[j],
           NEW i \in WholeEnds(s), i > c, i - s[i].part >= c
    PROVE  i - c \in WholeEnds(u) /\ u[i - c] = s[i]
<1> DEFINE e == i - c
           w == s[i].part
           id == s[i].id
           by == s[i].by
<1>1. /\ i \in Ends(s) /\ i \in 1..Len(s) /\ s[i] \in Bytes /\ w \in Nat /\ s[i].last
      /\ WholeAt(s, i) /\ i \in Nat /\ i \in DOMAIN s
  <2>1. i \in Ends(s)
    BY DEF WholeEnds
  <2> QED BY <2>1, WholeIs
<1>2. e \in DOMAIN u /\ u[e] = s[i]
  BY <1>1
<1>3. /\ \A k \in 1..w : s[i - w + k] = Byte(id, by, k, w)
      /\ w < i => s[i - w].last
  BY <1>1 DEF WholeAt
<1>4. e \in Nat /\ i = e + c /\ i - w >= c
  BY <1>1
<1>5. DOMAIN u = 1..Len(u) /\ Len(u) \in Nat
  OBVIOUS
<1>6. u[e].part = w /\ u[e].id = id /\ u[e].by = by
  BY <1>2
<1> HIDE DEF e, w, id, by
<1>7. w <= e
  BY <1>1, <1>4
<1>8. ASSUME NEW k \in 1..w PROVE u[e - w + k] = Byte(id, by, k, w)
  <2>1. e - w + k \in 1..e /\ (e - w + k) + c = i - w + k
    BY <1>1, <1>4, <1>7
  <2>2. e - w + k \in DOMAIN u
    BY <1>2, <1>5, <2>1
  <2>3. u[e - w + k] = s[i - w + k]
    BY <2>1, <2>2
  <2> QED BY <1>3, <2>3
<1>9. ASSUME w < e PROVE u[e - w].last
  <2>1. e - w \in 1..e /\ (e - w) + c = i - w /\ w < i
    BY <1>1, <1>4, <1>9
  <2>2. e - w \in DOMAIN u
    BY <1>2, <1>5, <2>1
  <2> QED BY <1>3, <2>1, <2>2
<1>10. e \in Ends(u)
  BY <1>1, <1>2 DEF Ends
<1>11. WholeAt(u, e)
  BY <1>6, <1>7, <1>8, <1>9 DEF WholeAt
<1>12. e \in WholeEnds(u)
  BY <1>10, <1>11, WholeIs
<1> QED BY <1>2, <1>12 DEF e

\* A read gets the event of every whole line from there on, and nothing else.
LEMMA ReadGetsAll ==
    ASSUME BoundInv, LogInv, ReaderShape, Shown(file, pos)
    PROVE  LET p == Parsed(Unread)
           IN  /\ p \in Seq(1..published)
               /\ \A i \in WholeEnds(file) : i > pos => \E k \in DOMAIN p : p[k] = file[i].id
               /\ \A k \in DOMAIN p : \E i \in DOMAIN file : i > pos /\ p[k] = file[i].id
               /\ \A k, l \in DOMAIN p : k < l => p[k] < p[l]
<1> DEFINE u == Unread
           p == Parsed(u)
<1>1. /\ file \in Seq(Bytes) /\ pos \in Nat /\ DOMAIN file = 1..Len(file) /\ Len(file) \in Nat
      /\ Asc(file)
  BY EndIsShown DEF ReaderShape
<1>2. /\ u \in Seq(Bytes)
      /\ \A i \in DOMAIN u : i \in 1..Len(u) /\ i + pos \in DOMAIN file /\ u[i] = file[i + pos]
      /\ \A j \in DOMAIN file : j > pos => j - pos \in DOMAIN u /\ u[j - pos] = file[j]
  BY <1>1, UnreadIs DEF Unread
<1>3. /\ p \in Seq(1..published)
      /\ \A k \in DOMAIN p : \E i \in WholeEnds(u) : p[k] = u[i].id
      /\ \A i \in WholeEnds(u) : \E k \in DOMAIN p : p[k] = u[i].id
      /\ Asc(u) => \A k, l \in DOMAIN p : k < l => p[k] < p[l]
  BY ReadIs
<1> HIDE DEF u, p
<1>4. Asc(u)
  BY <1>1, <1>2, AscPart
<1>5. ASSUME NEW k \in DOMAIN p PROVE \E i \in DOMAIN file : i > pos /\ p[k] = file[i].id
  <2>1. PICK i \in WholeEnds(u) : p[k] = u[i].id
    BY <1>3
  <2>2. i \in DOMAIN u
    BY DEF WholeEnds, Ends
  <2>3. i \in 1..Len(u) /\ i + pos \in DOMAIN file /\ u[i] = file[i + pos]
    BY <1>2, <2>2
  <2>4. i + pos > pos
    BY <1>1, <2>3
  <2> QED BY <2>1, <2>3, <2>4
<1>6. ASSUME NEW j \in WholeEnds(file), j > pos PROVE \E k \in DOMAIN p : p[k] = file[j].id
  <2>1. j - file[j].part >= pos
    BY <1>6 DEF Shown
  <2>2. /\ \A i \in DOMAIN u : i + pos \in DOMAIN file /\ u[i] = file[i + pos]
        /\ \A i \in DOMAIN file : i > pos => i - pos \in DOMAIN u /\ u[i - pos] = file[i]
    BY <1>2
  <2>3. j - pos \in WholeEnds(u) /\ u[j - pos] = file[j]
    BY <1>1, <1>2, <1>6, <2>1, <2>2, WholeBehind
  <2>4. PICK k \in DOMAIN p : p[k] = u[j - pos].id
    BY <1>3, <2>3
  <2> QED BY <2>3, <2>4
<1> QED BY <1>3, <1>4, <1>5, <1>6 DEF p, u

LEMMA ReadKeeps == ASSUME BoundInv, LogInv, ReaderShape, ReadInv, Read PROVE ReadInv'
<1> DEFINE p == Parsed(Unread)
           m == Len(polled)
<1>1. /\ rpc = "open" /\ inode # 0 /\ primed
      /\ rpc' = "idle" /\ polled' = polled \o p
      /\ pos' = IF Len(file) < pos THEN pos ELSE Len(file)
      /\ UNCHANGED <<file, inode, seen, primed, start, boot, dpc, trimmed>>
  BY DEF Read, daemonVars
<1>2. polled \in Seq(1..published) /\ p \in Seq(1..published) /\ m \in Nat
  <2>1. polled \in Seq(1..published) /\ p \in Seq(1..published)
    BY ReadIs DEF ReaderShape
  <2> HIDE DEF p
  <2> QED BY <2>1
<1> HIDE DEF p, m
<1>3. /\ Len(p) \in Nat /\ DOMAIN p = 1..Len(p) /\ DOMAIN polled = 1..m
      /\ DOMAIN polled' = 1..m + Len(p)
      /\ \A k \in 1..m : polled'[k] = polled[k]
      /\ \A k \in 1..Len(p) : polled'[k + m] = p[k]
  <2>1. /\ polled \o p \in Seq(1..published) /\ Len(polled \o p) = Len(polled) + Len(p)
        /\ \A k \in 1..Len(polled) + Len(p) :
              (polled \o p)[k] = IF k <= Len(polled) THEN polled[k] ELSE p[k - Len(polled)]
    BY <1>2, ConcatProperties
  <2>2. /\ polled' \in Seq(1..published) /\ Len(polled') = m + Len(p)
        /\ \A k \in 1..m + Len(p) : polled'[k] = IF k <= m THEN polled[k] ELSE p[k - m]
    BY <1>1, <2>1 DEF m
  <2>3. Len(p) \in Nat /\ DOMAIN p = 1..Len(p) /\ DOMAIN polled = 1..m
    BY <1>2 DEF m
  <2>4. DOMAIN polled' = 1..m + Len(p)
    BY <2>2
  <2>5. \A k \in 1..m : polled'[k] = polled[k]
    BY <1>2, <2>2, <2>3
  <2>6. ASSUME NEW k \in 1..Len(p) PROVE polled'[k + m] = p[k]
    <3>1. k + m \in 1..m + Len(p) /\ ~(k + m <= m) /\ (k + m) - m = k
      BY <1>2, <2>3
    <3> QED BY <2>2, <3>1
  <2> QED BY <2>3, <2>4, <2>5, <2>6
<1>4. \A k \in DOMAIN polled' : k \in 1..m \/ \E l \in 1..Len(p) : k = l + m
  <2> SUFFICES ASSUME NEW k \in 1..m + Len(p), k \notin 1..m PROVE k - m \in 1..Len(p) /\ k = (k - m) + m
    BY <1>3
  <2> QED BY <1>2, <1>3
<1>5. SeenInv'
  BY <1>1 DEF ReadInv, SeenInv
<1>6. ASSUME ~trimmed, seen = inode
      PROVE  /\ Shown(file, pos) /\ Len(file) \in Nat /\ pos' = Len(file)
             /\ \A i \in WholeEnds(file) : i > pos => \E k \in DOMAIN p : p[k] = file[i].id
             /\ \A k \in DOMAIN p : \E i \in DOMAIN file : i > pos /\ p[k] = file[i].id
             /\ \A k, l \in DOMAIN p : k < l => p[k] < p[l]
  <2>1. Shown(file, pos)
    BY <1>6 DEF ReadInv, SkipInv
  <2>2. Len(file) \in Nat
    BY EndIsShown
  <2>3. pos \in Nat /\ pos <= Len(file)
    BY <2>1 DEF Shown, ReaderShape
  <2>4. pos' = Len(file)
    BY <1>1, <2>2, <2>3
  <2>5. /\ \A i \in WholeEnds(file) : i > pos => \E k \in DOMAIN p : p[k] = file[i].id
        /\ \A k \in DOMAIN p : \E i \in DOMAIN file : i > pos /\ p[k] = file[i].id
        /\ \A k, l \in DOMAIN p : k < l => p[k] < p[l]
    BY <1>6, <2>1, ReadGetsAll DEF p
  <2> QED BY <2>1, <2>2, <2>4, <2>5
<1>7. ASSUME ~trimmed, seen = inode, NEW i \in WholeEnds(file)
      PROVE  file[i].id <= start \/ \E k \in DOMAIN polled' : polled'[k] = file[i].id
  <2>1. CASE i <= pos
    <3>1. file[i].id <= start \/ \E k \in DOMAIN polled : polled[k] = file[i].id
      BY <1>1, <1>6, <1>7, <2>1 DEF Shown
    <3>2. \A k \in DOMAIN polled : k \in DOMAIN polled' /\ polled'[k] = polled[k]
      BY <1>2, <1>3
    <3> QED BY <3>1, <3>2
  <2>2. CASE i > pos
    <3>1. PICK k \in DOMAIN p : p[k] = file[i].id
      BY <1>6, <1>7, <2>2
    <3>2. k + m \in DOMAIN polled' /\ polled'[k + m] = p[k]
      BY <1>2, <1>3
    <3> QED BY <3>1, <3>2
  <2>3. i \in Nat /\ pos \in Nat
    BY DEF WholeEnds, Ends, BoundInv, Shape, ReaderShape
  <2> QED BY <2>1, <2>2, <2>3
<1>8. SkipInv'
  <2> SUFFICES ASSUME ~trimmed, seen = inode PROVE Shown(file, pos)'
    BY <1>1 DEF SkipInv
  <2>1. pos' <= Len(file) /\ \A i \in WholeEnds(file) : ~(i > pos')
    <3>1. pos' = Len(file) /\ Len(file) \in Nat /\ DOMAIN file = 1..Len(file)
      BY <1>6, EndIsShown
    <3> QED BY <3>1 DEF WholeEnds, Ends
  <2>2. \A i \in WholeEnds(file) :
           file[i].id <= start \/ \E k \in DOMAIN polled' : polled'[k] = file[i].id
    BY <1>7
  <2>3. file' = file /\ start' = start
    BY <1>1
  <2> QED BY <2>1, <2>2, <2>3 DEF Shown
<1>9. ASSUME ~trimmed, boot = 1
      PROVE  /\ \A j, k \in DOMAIN polled' : j < k => polled'[j] < polled'[k]
             /\ \A i \in DOMAIN file : ~(i > pos')
  <2>1. seen = inode
    BY <1>1, <1>9 DEF ReadInv, SeenInv, ReaderShape
  <2>2. /\ \A j, k \in DOMAIN polled : j < k => polled[j] < polled[k]
        /\ Older(file, pos)
    BY <1>9 DEF ReadInv, OrderInv
  <2>3. /\ \A k \in DOMAIN p : \E i \in DOMAIN file : i > pos /\ p[k] = file[i].id
        /\ \A k, l \in DOMAIN p : k < l => p[k] < p[l]
        /\ pos' = Len(file) /\ Len(file) \in Nat
    BY <1>6, <1>9, <2>1
  <2>4. \A j \in DOMAIN polled : \A k \in DOMAIN p : polled[j] < p[k]
    BY <2>2, <2>3 DEF Older
  <2>5. ASSUME NEW j \in DOMAIN polled', NEW k \in DOMAIN polled', j < k
        PROVE  polled'[j] < polled'[k]
    <3>1. CASE j \in 1..m /\ k \in 1..m
      BY <1>3, <2>2, <2>5, <3>1
    <3>2. CASE j \in 1..m /\ \E l \in 1..Len(p) : k = l + m
      BY <1>3, <2>4, <3>2
    <3>3. CASE (\E l \in 1..Len(p) : j = l + m) /\ \E l \in 1..Len(p) : k = l + m
      <4>1. PICK a \in 1..Len(p) : j = a + m
        BY <3>3
      <4>2. PICK b \in 1..Len(p) : k = b + m
        BY <3>3
      <4>3. a < b
        BY <1>2, <1>3, <2>5, <4>1, <4>2
      <4>4. p[a] < p[b]
        BY <1>3, <2>3, <4>3
      <4> QED BY <1>3, <4>1, <4>2, <4>4
    <3>4. CASE (\E l \in 1..Len(p) : j = l + m) /\ k \in 1..m
      BY <1>2, <1>3, <2>5, <3>4
    <3> QED BY <1>4, <3>1, <3>2, <3>3, <3>4
  <2>6. ASSUME NEW i \in DOMAIN file PROVE ~(i > pos')
    <3>1. DOMAIN file = 1..Len(file)
      BY EndIsShown
    <3> QED BY <2>3, <3>1
  <2> QED BY <2>5, <2>6
<1>10. OrderInv'
  <2>1. trimmed' = trimmed /\ boot' = boot /\ file' = file
    BY <1>1
  <2> QED BY <1>9, <2>1 DEF OrderInv, Older
<1> QED BY <1>5, <1>8, <1>10 DEF ReadInv

LEMMA ReadStep ==
    BoundInv /\ LogInv /\ ReaderShape /\ ReadInv /\ [Next]_vars => ReadInv'
<1> SUFFICES ASSUME BoundInv, LogInv, ReaderShape, ReadInv, [Next]_vars PROVE ReadInv'
  OBVIOUS
<1>0. /\ Shape /\ boot \in 1..MaxBoots /\ inode \in {0, boot} /\ seen \in 0..boot
      /\ pos \in Nat /\ boot \in Nat /\ boot # 0 /\ published \in Nat
  BY EventLogAssumption DEF BoundInv, ReaderShape
<1>1. ASSUME UNCHANGED <<file, inode, boot, trimmed, readerVars>>, dpc = "down" => dpc' = "down"
      PROVE  ReadInv'
  BY <1>1 DEF ReadInv, SeenInv, SkipInv, Shown, OrderInv, Older, readerVars
<1>2. ASSUME Publish \/ PilotPublish PROVE ReadInv'
  <2>1. dpc # "down" /\ inode' = boot /\ UNCHANGED <<boot, trimmed, readerVars>>
    BY <1>2 DEF Publish, PilotPublish, Write, daemonVars
  <2>2. PICK by \in Writers : Write(by)
    BY <1>2 DEF Publish, PilotPublish, Writers
  <2>3. PICK w \in Nat : w # 0 /\ w \in 0..w /\ Appends(by, w, w)
    BY <1>0, <2>2, WriteIs
  <2> QED BY <1>0, <2>1, <2>3, AppendKeeps
<1>3. ASSUME PublishFails \/ PilotPublishFails PROVE ReadInv'
  <2>1. dpc # "down" /\ inode' = boot /\ UNCHANGED <<boot, trimmed, readerVars>>
    BY <1>3 DEF PublishFails, PilotPublishFails, WriteFails
  <2>2. PICK by \in Writers : WriteFails(by)
    BY <1>3 DEF PublishFails, PilotPublishFails, Writers
  <2>3. PICK w \in Nat : \E n \in 0..w : w # 0 /\ n # w /\ Appends(by, w, n)
    BY <2>2, WriteFailsIs
  <2>4. PICK n \in 0..w : w # 0 /\ n # w /\ Appends(by, w, n)
    BY <2>3
  <2> QED BY <1>0, <2>1, <2>4, AppendKeeps
<1>4. ASSUME Trim \/ TrimRaises \/ TrimFails \/ WriteBackFails PROVE ReadInv'
  <2>1. UNCHANGED <<file, inode, boot, trimmed, readerVars>> /\ dpc # "down"
    BY <1>4 DEF Trim, TrimRaises, TrimFails, WriteBackFails
  <2> QED BY <1>1, <2>1
<1>5. ASSUME Rewrite \/ WriteBack PROVE ReadInv'
  <2>1. trimmed' /\ dpc # "down" /\ UNCHANGED <<inode, boot, readerVars>>
    <3>1. dpc = "write" => trimmed
      BY DEF LogInv, RewriteInv
    <3> QED BY <1>5, <3>1 DEF Rewrite, WriteBack
  <2> QED BY <2>1 DEF ReadInv, SeenInv, SkipInv, OrderInv, readerVars
<1>6. ASSUME Stop PROVE ReadInv'
  <2>1. /\ dpc' = "down" /\ file' = <<>> /\ inode' = 0
        /\ UNCHANGED <<boot, trimmed, readerVars>>
    BY <1>6 DEF Stop
  <2>2. SeenInv'
    BY <2>1 DEF ReadInv, SeenInv, readerVars
  <2>3. SkipInv'
    <3>1. Len(file') = 0 /\ DOMAIN file' = {}
      BY <2>1
    <3>2. WholeEnds(file') = {}
      BY <3>1 DEF WholeEnds, Ends
    <3> QED BY <2>1, <3>1, <3>2 DEF ReadInv, SeenInv, SkipInv, Shown, readerVars
  <2>4. OrderInv'
    <3>1. DOMAIN file' = {}
      BY <2>1
    <3> QED BY <2>1, <3>1 DEF ReadInv, OrderInv, Older, readerVars
  <2> QED BY <2>2, <2>3, <2>4 DEF ReadInv
<1>7. ASSUME Start PROVE ReadInv'
  <2>1. /\ boot' = boot + 1 /\ UNCHANGED <<file, inode, trimmed, readerVars>>
    BY <1>7 DEF Start
  <2>2. seen # boot' /\ boot' # 1
    BY <1>0, <2>1
  <2>3. SeenInv'
    BY <2>1, <2>2 DEF ReadInv, SeenInv, readerVars
  <2>4. SkipInv'
    BY <2>1 DEF ReadInv, SkipInv, Shown, readerVars
  <2> QED BY <2>2, <2>3, <2>4 DEF ReadInv, OrderInv
<1>8. ASSUME Stat PROVE ReadInv'
  <2>1. /\ inode # 0 /\ seen' = inode
        /\ pos' = IF seen \notin {0, inode} \/ Len(file) < pos THEN 0 ELSE pos
        /\ UNCHANGED <<file, inode, primed, polled, start, boot, dpc, trimmed>>
    BY <1>8 DEF Stat, daemonVars
  <2>2. Len(file) \in Nat /\ DOMAIN file = 1..Len(file)
    BY <1>0 DEF Shape
  <2>3. SeenInv'
    BY <2>1 DEF ReadInv, SeenInv
  <2>4. CASE pos' = 0
    <3>1. SkipInv'
      <4>1. \A i \in WholeEnds(file) : ~(i <= 0) /\ i - file[i].part >= 0
        <5> SUFFICES ASSUME NEW i \in WholeEnds(file)
                     PROVE  ~(i <= 0) /\ i - file[i].part >= 0
          OBVIOUS
        <5>1. i \in Ends(file) /\ file \in Seq(Bytes)
          BY <1>0 DEF WholeEnds, Shape
        <5>2. i \in 1..Len(file) /\ file[i].part \in Nat /\ file[i].part <= i
          BY <5>1, WholeIs DEF WholeAt
        <5> QED BY <5>2
      <4>2. file' = file /\ 0 <= Len(file)
        BY <2>1, <2>2
      <4> QED BY <2>4, <4>1, <4>2 DEF SkipInv, Shown
    <3>2. OrderInv'
      <4> SUFFICES ASSUME ~trimmed, boot = 1 PROVE pos = 0
        BY <2>1, <2>4 DEF ReadInv, OrderInv, Older
      <4>1. seen \in {0, inode}
        BY <1>0, <2>1
      <4>2. CASE seen = 0
        BY <4>2 DEF ReadInv, SeenInv
      <4>3. CASE seen = inode
        <5>1. pos <= Len(file)
          BY <4>3 DEF ReadInv, SkipInv, Shown
        <5>2. ~(Len(file) < pos)
          BY <1>0, <2>2, <5>1
        <5> QED BY <2>1, <2>4, <4>3, <5>2
      <4> QED BY <4>1, <4>2, <4>3
    <3> QED BY <2>3, <3>1, <3>2 DEF ReadInv
  <2>5. CASE pos' # 0
    <3>1. pos' = pos /\ seen \in {0, inode}
      BY <2>1, <2>5
    <3>2. seen = inode
      BY <2>5, <3>1 DEF ReadInv, SeenInv
    <3> QED BY <2>1, <2>3, <3>1, <3>2 DEF ReadInv, SkipInv, Shown, OrderInv, Older
  <2> QED BY <2>4, <2>5
<1>9. ASSUME Prime PROVE ReadInv'
  <2>1. /\ rpc = "open" /\ inode # 0 /\ pos' = Len(file) /\ start' = published
        /\ UNCHANGED <<file, inode, seen, polled, boot, dpc, trimmed>>
    BY <1>9 DEF Prime, daemonVars
  <2>2. SeenInv'
    BY <2>1 DEF ReadInv, SeenInv
  <2>3. SkipInv'
    <3> SUFFICES ASSUME ~trimmed PROVE Shown(file, pos)'
      BY <2>1 DEF SkipInv
    <3>1. /\ Len(file) \in Nat /\ DOMAIN file = 1..Len(file)
          /\ KnownUpTo(file, published)
      BY EndIsShown
    <3>2. \A i \in WholeEnds(file) : file[i].id <= published /\ ~(i > Len(file))
      BY <3>1 DEF KnownUpTo, WholeEnds, Ends
    <3> QED BY <2>1, <3>1, <3>2 DEF Shown
  <2>4. OrderInv'
    <3> SUFFICES ASSUME ~trimmed, boot = 1 PROVE OrderInv'
      BY <2>1 DEF OrderInv
    <3>1. \A i \in DOMAIN file : ~(i > Len(file))
      BY EndIsShown
    <3>2. \A j, k \in DOMAIN polled : j < k => polled[j] < polled[k]
      BY DEF ReadInv, OrderInv
    <3> QED BY <2>1, <3>1, <3>2 DEF OrderInv, Older
  <2> QED BY <2>2, <2>3, <2>4 DEF ReadInv
<1>10. ASSUME Read PROVE ReadInv'
  BY <1>10, ReadKeeps
<1>11. ASSUME ReadRaises \/ OpenFails PROVE ReadInv'
  <2>1. /\ rpc = "open"
        /\ UNCHANGED <<file, inode, pos, seen, primed, polled, start, boot, dpc, trimmed>>
    BY <1>11 DEF ReadRaises, OpenFails, daemonVars
  <2> QED BY <2>1 DEF ReadInv, SeenInv, SkipInv, Shown, OrderInv, Older
<1>12. CASE UNCHANGED vars
  BY <1>12 DEF vars, ReadInv, SeenInv, SkipInv, Shown, OrderInv, Older
<1> QED
  BY <1>2, <1>3, <1>4, <1>5, <1>6, <1>7, <1>8, <1>9, <1>10, <1>11, <1>12 DEF Next, Poll

\* As long as no trim shortened the log, every whole line in it that is later than the shell's
\* first poll was polled or is still ahead of its position, also across restarts.
THEOREM NothingIsSkipped == Spec => []NothingIsSkippedBelowTheCap
<1>1. BoundInv /\ ReaderShape /\ ReadInv => NothingIsSkippedBelowTheCap
  <2> SUFFICES ASSUME BoundInv, ReaderShape, ReadInv, ~trimmed, primed, seen = inode,
                      NEW i \in WholeEnds(file), file[i].id > start
               PROVE  i > pos \/ \E k \in DOMAIN polled : polled[k] = file[i].id
    BY DEF NothingIsSkippedBelowTheCap
  <2>1. file \in Seq(Bytes) /\ pos \in Nat /\ start \in Nat
    BY DEF BoundInv, Shape, ReaderShape
  <2>2. i \in Nat /\ file[i] \in Bytes
    BY <2>1 DEF WholeEnds, Ends
  <2>3. file[i].id \in Nat
    BY <2>2 DEF Bytes
  <2>4. i <= pos => \/ file[i].id <= start
                    \/ \E k \in DOMAIN polled : polled[k] = file[i].id
    BY DEF ReadInv, SkipInv, Shown
  <2>5. ~(file[i].id <= start)
    BY <2>1, <2>3
  <2> QED BY <2>1, <2>2, <2>4, <2>5
<1> QED
  BY <1>1, BoundInit, BoundStep, LogInit, LogStep, ShapeInit, ShapeStep, ReadInit, ReadStep, PTL
     DEF Spec

\* As long as no trim shortened the log and the daemon was not restarted, the shell is
\* shown the events in the order they were published, none of them twice.
THEOREM PolledInOrder == Spec => []PolledInOrderBelowTheCap
<1>1. ReadInv => PolledInOrderBelowTheCap
  BY DEF ReadInv, OrderInv, PolledInOrderBelowTheCap
<1> QED
  BY <1>1, BoundInit, BoundStep, LogInit, LogStep, ShapeInit, ShapeStep, ReadInit, ReadStep, PTL
     DEF Spec
=============================================================================
