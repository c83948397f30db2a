---------------------------- MODULE DemuxingProofs ----------------------------
(***************************************************************************)
(* What a seek promises, for every file, batch size and step, and that it  *)
(* comes to an end.                                                        *)
(***************************************************************************)
EXTENDS Demuxing, FiniteSetTheorems, WellFoundedInduction, TLAPS

USE DEF vars, parser, demuxer, looping, trying, backing, stream

Last1 == Len(File)

LEMMA FileFacts ==
  /\ Last1 \in Nat /\ Packets = 1 .. Last1
  /\ \A i \in Packets : /\ File[i].stream \in StreamIds /\ File[i].ts \in Nat
                        /\ File[i].ts < FileEnd /\ File[i].key \in BOOLEAN
  /\ \A i, j \in Packets : i <= j => File[i].ts <= File[j].ts
  /\ Video \subseteq Packets /\ VideoKeys \subseteq Video
  /\ Max(StreamIds) \in Nat /\ StreamIds = 0 .. Max(StreamIds)
  /\ Best \in StreamIds /\ Best \in Nat /\ Best <= Max(StreamIds) /\ Seekable(Best)
  /\ FileEnd \in Nat /\ Batch \in Nat \ {0} /\ Targets \subseteq Nat /\ MaxSeeks \in Nat
<1>1. Last1 \in Nat /\ Packets = 1 .. Last1
  BY FileIsReadable DEF Last1, Packets
<1>2. \A i \in Packets : /\ File[i].stream \in StreamIds /\ File[i].ts \in Nat
                        /\ File[i].ts < FileEnd /\ File[i].key \in BOOLEAN
  <2> SUFFICES ASSUME NEW i \in Packets
               PROVE  File[i] \in [stream : StreamIds, ts : Nat, key : BOOLEAN, duration : Nat]
    BY FileIsReadable
  <2> DEFINE R == [stream : StreamIds, ts : Nat, key : BOOLEAN, duration : Nat]
  <2>1. File \in Seq(R)
    BY FileIsReadable
  <2>2. i \in 1 .. Len(File)
    BY <1>1 DEF Last1
  <2> HIDE DEF R
  <2>3. File[i] \in R
    BY <2>1, <2>2
  <2> QED
    BY <2>3 DEF R
<1>3. \A i, j \in Packets : i <= j => File[i].ts <= File[j].ts
  <2> SUFFICES ASSUME NEW i \in Packets, NEW j \in Packets, i <= j
               PROVE  File[i].ts <= File[j].ts
    OBVIOUS
  <2>1. CASE i = j
    BY <1>2, <2>1
  <2>2. CASE i # j
    <3>1. i < j
      BY <1>1, <2>2
    <3> QED
      BY <3>1, FileIsReadable
  <2> QED
    BY <2>1, <2>2
<1> QED
  BY <1>1, <1>2, <1>3, FileIsReadable DEF Video, VideoKeys, Seekable

----------------------------------------------------------------------------
(* Least and greatest elements, and counting.                               *)

LEMMA LeastNatural ==
  ASSUME NEW S \in SUBSET Nat, S # {}
  PROVE  \E x \in S : \A y \in S : x <= y
<1>1. PICK x \in S : \A y \in S : ~(<<y, x>> \in OpToRel(<, Nat))
  BY NatLessThanWellFounded, WFMin
<1>2. ASSUME NEW y \in S PROVE x <= y
  <2>1. <<y, x>> \notin OpToRel(<, Nat)
    BY <1>1
  <2>2. ~(y < x)
    BY <2>1 DEF OpToRel
  <2> QED
    BY <2>2
<1> QED
  BY <1>2

LEMMA MinIsLeast ==
  ASSUME NEW S \in SUBSET Nat, S # {}
  PROVE  Min(S) \in S /\ \A y \in S : Min(S) <= y
BY LeastNatural DEF Min

LEMMA GreatestOf ==
  ASSUME NEW n \in Nat, NEW S \in SUBSET (0 .. n), S # {}
  PROVE  Max(S) \in S /\ \A y \in S : y <= Max(S)
<1> DEFINE T == {n - x : x \in S}
<1>1. T # {} /\ T \in SUBSET Nat
  <2>1. \A x \in S : n - x \in Nat
    OBVIOUS
  <2>2. PICK x \in S : TRUE
    OBVIOUS
  <2>3. n - x \in T
    BY <2>2
  <2> QED
    BY <2>1, <2>3
<1>2. PICK t \in T : \A y \in T : t <= y
  <2> HIDE DEF T
  <2> QED
    BY <1>1, LeastNatural
<1>3. PICK x \in S : t = n - x
  OBVIOUS
<1>4. ASSUME NEW y \in S PROVE y <= x
  <2>1. n - y \in T
    OBVIOUS
  <2>2. n - x <= n - y
    BY <2>1, <1>2, <1>3
  <2>3. x \in 0 .. n /\ y \in 0 .. n
    OBVIOUS
  <2> QED
    BY <2>2, <2>3
<1>5. \A a, b \in Int : a >= b <=> b <= a
  OBVIOUS
<1> QED
  BY <1>4, <1>5 DEF Max

(* Two that differ are two.                                                *)
LEMMA PairHasTwo ==
  ASSUME NEW a, NEW b, a # b
  PROVE  Cardinality({a, b}) = 2
<1>1. {a, b} = {a} \cup {b} /\ b \notin {a}
  OBVIOUS
<1>2. IsFiniteSet({a}) /\ Cardinality({a}) = 1
  BY FS_Singleton, Zenon
<1>3. Cardinality({a} \cup {b}) = Cardinality({a}) + 1
  BY <1>1, <1>2, FS_AddElement, Zenon
<1>4. 1 + 1 = 2
  OBVIOUS
<1> QED
  BY <1>1, <1>2, <1>3, <1>4, Zenon

UpTo(S, i) == {j \in S : j <= i}

LEMMA UpToFinite ==
  ASSUME NEW n \in Nat, NEW S \in SUBSET (1 .. n)
  PROVE  /\ IsFiniteSet(S) /\ Cardinality(S) \in 0 .. n
         /\ \A i \in Int : IsFiniteSet(UpTo(S, i)) /\ Cardinality(UpTo(S, i)) \in Nat
<1>1. IsFiniteSet(1 .. n) /\ Cardinality(1 .. n) = n
  BY FS_Interval
<1>2. IsFiniteSet(S) /\ Cardinality(S) <= n
  BY <1>1, FS_Subset
<1>3. Cardinality(S) \in Nat
  BY <1>2, FS_CardinalityType
<1>4. ASSUME NEW i \in Int
      PROVE IsFiniteSet(UpTo(S, i)) /\ Cardinality(UpTo(S, i)) \in Nat
  <2>1. UpTo(S, i) \subseteq S
    BY DEF UpTo
  <2> QED
    BY <1>2, <2>1, FS_Subset, FS_CardinalityType
<1> QED
  BY <1>2, <1>3, <1>4

(* One more element, one more in number.                                    *)
LEMMA NextCounts ==
  ASSUME NEW n \in Nat, NEW S \in SUBSET (1 .. n), NEW i \in Int, NEW j \in S,
         i < j, \A x \in S : ~(i < x /\ x < j)
  PROVE  Cardinality(UpTo(S, j)) = Cardinality(UpTo(S, i)) + 1
<1>0. \A x \in S : x \in Int
  OBVIOUS
<1>3. \A x \in S : x <= j <=> x <= i \/ x = j
  BY <1>0
<1>1. UpTo(S, j) = UpTo(S, i) \cup {j}
  BY <1>3 DEF UpTo
<1>2. j \notin UpTo(S, i)
  BY DEF UpTo
<1> QED
  BY <1>1, <1>2, UpToFinite, FS_AddElement

LEMMA Counted ==
  ASSUME NEW n \in Nat, NEW S \in SUBSET (1 .. n), NEW k \in Nat, 1 <= k, k <= Cardinality(S)
  PROVE  \E i \in S : Cardinality(UpTo(S, i)) = k
<1>0. \A x \in S : x \in Int /\ 1 <= x /\ x <= n
  OBVIOUS
<1> DEFINE T == {m \in Nat : k <= Cardinality(UpTo(S, m))}
<1>1. n \in T
  <2>1. UpTo(S, n) = S
    BY <1>0 DEF UpTo
  <2> QED
    BY <2>1
<1>2. PICK m \in T : \A y \in T : m <= y
  <2>1. T \in SUBSET Nat /\ T # {}
    BY <1>1
  <2> HIDE DEF T
  <2> QED
    BY <2>1, LeastNatural
<1>3. m # 0
  <2>3. \A x \in S : ~(x <= 0)
    BY <1>0
  <2>1. UpTo(S, 0) = {}
    BY <2>3 DEF UpTo
  <2>2. Cardinality(UpTo(S, 0)) = 0
    BY <2>1, FS_EmptySet
  <2> QED
    BY <1>2, <2>2
<1>4. m \in Nat /\ m - 1 \in Nat /\ m - 1 \notin T /\ k <= Cardinality(UpTo(S, m))
  <2>1. m \in Nat /\ k <= Cardinality(UpTo(S, m))
    OBVIOUS
  <2>2. m - 1 \in Nat /\ ~(m <= m - 1)
    BY <1>3, <2>1
  <2> HIDE DEF T
  <2> QED
    BY <1>2, <2>1, <2>2
<1>8. ~(k <= Cardinality(UpTo(S, m - 1)))
  BY <1>4
<1> HIDE DEF T
<1>9. /\ Cardinality(UpTo(S, m)) \in Nat /\ Cardinality(UpTo(S, m - 1)) \in Nat
  <2>1. m \in Int /\ m - 1 \in Int
    BY <1>4
  <2> QED
    BY <2>1, UpToFinite
<1>5. /\ Cardinality(UpTo(S, m)) \in Nat /\ Cardinality(UpTo(S, m - 1)) \in Nat
      /\ k <= Cardinality(UpTo(S, m)) /\ Cardinality(UpTo(S, m - 1)) < k
  BY <1>4, <1>8, <1>9
<1>6. m \in S
  <2> SUFFICES ASSUME m \notin S PROVE FALSE
    OBVIOUS
  <2>2. \A x \in S : x <= m <=> x <= m - 1
    BY <1>0, <1>4
  <2>1. UpTo(S, m) = UpTo(S, m - 1)
    BY <2>2 DEF UpTo
  <2> QED
    BY <1>5, <2>1
<1>7. Cardinality(UpTo(S, m)) = Cardinality(UpTo(S, m - 1)) + 1
  <2>1. \A x \in S : ~(m - 1 < x /\ x < m)
    BY <1>0, <1>4
  <2>2. m - 1 \in Int /\ m - 1 < m
    BY <1>4
  <2> QED
    BY <1>6, <2>1, <2>2, NextCounts
<1> QED
  BY <1>5, <1>6, <1>7

----------------------------------------------------------------------------
(* Batches.                                                                 *)

Numbers == 0 .. Last1
Seen == [StreamIds -> 0 .. FileEnd \cup {Nopts, Absent}]

LEMMA LastOfType ==
  ASSUME NEW s \in StreamIds, NEW d \in Numbers
  PROVE  /\ LastOf[s][d] \in 0 .. d
         /\ LastOf[s][d] # 0 => LastOf[s][d] \in Packets /\ File[LastOf[s][d]].stream = s
         /\ \A i \in 1 .. d : File[i].stream = s => i <= LastOf[s][d]
<1> DEFINE S == {i \in 1 .. d : File[i].stream = s} \cup {0}
<1>1. LastOf[s][d] = Max(S)
  BY DEF LastOf, Numbers, Last1
<1>2. d \in Nat /\ S \in SUBSET (0 .. d) /\ S # {}
  BY FileFacts DEF Numbers
<1>3. \A i \in S : i # 0 => i \in Packets /\ File[i].stream = s
  BY FileFacts DEF Numbers
<1>4. \A i \in 1 .. d : File[i].stream = s => i \in S
  OBVIOUS
<1> HIDE DEF S
<1> QED
  BY <1>1, <1>2, <1>3, <1>4, GreatestOf

LEMMA TsAfterType ==
  ASSUME NEW seen \in Seen, NEW c \in Numbers, NEW d \in Numbers
  PROVE  TsAfter(seen, c, d) \in Seen
<1> SUFFICES ASSUME NEW s \in StreamIds
             PROVE  (IF LastOf[s][d] > c THEN File[LastOf[s][d]].ts ELSE seen[s])
                      \in 0 .. FileEnd \cup {Nopts, Absent}
  BY DEF TsAfter, Seen
<1>1. CASE LastOf[s][d] > c
  <2>1. LastOf[s][d] \in Packets
    BY <1>1, LastOfType, FileFacts DEF Numbers
  <2>2. File[LastOf[s][d]].ts \in 0 .. FileEnd
    BY <2>1, FileFacts, SMTT(30)
  <2> QED
    BY <1>1, <2>2
<1>2. CASE ~(LastOf[s][d] > c)
  BY <1>2 DEF Seen
<1> QED
  BY <1>1, <1>2

Turns == 1 .. Last1 + 1

LEMMA ReachFacts ==
  ASSUME NEW c \in Numbers, NEW n \in Turns
  PROVE  /\ AtEnd[c][n] \in BOOLEAN
         /\ VideoAfter[c] = {i \in Video : i > c}
         /\ Reach[c][n] \in Numbers /\ c <= Reach[c][n]
         /\ AtEnd[c][n] => Reach[c][n] = Last1
         /\ ~AtEnd[c][n] => Reach[c][n] \in Video /\ c < Reach[c][n]
<1>1. VideoAfter[c] = {i \in Video : i > c}
  BY DEF VideoAfter, Numbers, Last1
<1>2. AtEnd[c][n] <=> (Cardinality(VideoAfter[c]) < n * Batch)
  BY DEF AtEnd, Numbers, Turns, Last1
<1>8. AtEnd[c][n] \in BOOLEAN
  BY DEF AtEnd, Numbers, Turns, Last1
<1>3. Reach[c][n] = IF AtEnd[c][n] THEN Last1
                    ELSE CHOOSE i \in VideoAfter[c] :
                           Cardinality(UpTo(VideoAfter[c], i)) = n * Batch
  BY DEF Reach, Numbers, Turns, Last1, UpTo
<1>4. VideoAfter[c] \in SUBSET (1 .. Last1) /\ Last1 \in Nat
  BY <1>1, FileFacts
<1>5. n * Batch \in Nat /\ 1 <= n * Batch
  BY FileFacts DEF Turns
<1>6. CASE AtEnd[c][n]
  BY <1>1, <1>2, <1>3, <1>4, <1>6, FileFacts DEF Numbers
<1>7. CASE ~AtEnd[c][n]
  <2>1. n * Batch <= Cardinality(VideoAfter[c])
    BY <1>2, <1>4, <1>5, <1>7, UpToFinite
  <2>2. \E i \in VideoAfter[c] : Cardinality(UpTo(VideoAfter[c], i)) = n * Batch
    BY <1>4, <1>5, <2>1, Counted
  <2>3. Reach[c][n] \in VideoAfter[c]
    BY <1>3, <1>7, <2>2
  <2>4. Reach[c][n] \in Video /\ c < Reach[c][n]
    BY <1>1, <2>3
  <2>5. Reach[c][n] \in Numbers /\ c <= Reach[c][n]
    BY <1>4, <2>3, <2>4 DEF Numbers
  <2> QED
    BY <1>1, <1>7, <1>8, <2>4, <2>5
<1> QED
  BY <1>6, <1>7

LEMMA EndIsReached ==
  ASSUME NEW c \in Numbers
  PROVE  AtEnd[c][Last1 + 1]
<1>1. AtEnd[c][Last1 + 1] <=> (Cardinality(VideoAfter[c]) < (Last1 + 1) * Batch)
  <2>1. Last1 + 1 \in Turns
    BY FileFacts DEF Turns
  <2> QED
    BY <2>1 DEF AtEnd, Numbers, Turns, Last1
<1>2. VideoAfter[c] \in SUBSET (1 .. Last1) /\ Last1 \in Nat
  BY FileFacts DEF VideoAfter, Numbers, Last1
<1>3. Cardinality(VideoAfter[c]) \in 0 .. Last1
  BY <1>2, UpToFinite
<1>4. Last1 + 1 <= (Last1 + 1) * Batch
  <2>1. \A m, b \in Nat : b # 0 => m <= m * b
    OBVIOUS
  <2>2. Last1 + 1 \in Nat /\ Batch \in Nat /\ Batch # 0
    BY FileFacts
  <2> QED
    BY <2>1, <2>2
<1>5. (Last1 + 1) * Batch \in Nat
  BY FileFacts
<1> QED
  BY <1>1, <1>2, <1>3, <1>4, <1>5

LEMMA TsAfterAbsent ==
  ASSUME NEW seen \in Seen, NEW c \in Numbers, NEW d \in Numbers, NEW s \in StreamIds,
         TsAfter(seen, c, d)[s] = Absent
  PROVE  seen[s] = Absent /\ \A i \in Packets : c < i /\ i <= d => File[i].stream # s
<1>1. TsAfter(seen, c, d)[s] = IF LastOf[s][d] > c THEN File[LastOf[s][d]].ts ELSE seen[s]
  BY DEF TsAfter
<1>2. ~(LastOf[s][d] > c)
  <2> SUFFICES ASSUME LastOf[s][d] > c PROVE FALSE
    OBVIOUS
  <2>1. LastOf[s][d] # 0
    BY LastOfType DEF Numbers
  <2>2. File[LastOf[s][d]].ts \in Nat
    BY <2>1, LastOfType, FileFacts
  <2> QED
    BY <1>1, <2>2 DEF Absent
<1>3. ASSUME NEW i \in Packets, c < i, i <= d, File[i].stream = s PROVE FALSE
  <2>1. i \in 1 .. d /\ i \in Nat /\ c \in Nat
    BY <1>3, FileFacts DEF Numbers
  <2>2. LastOf[s][d] \in 0 .. d /\ i <= LastOf[s][d]
    BY <1>3, <2>1, LastOfType
  <2> QED
    BY <1>2, <1>3, <2>1, <2>2
<1> QED
  BY <1>1, <1>2, <1>3

(* A queue without gaps, up to where FFmpeg is.                             *)
Good(f) ==
  /\ f.queue \in SUBSET Video /\ f.cursor \in Numbers /\ f.eof \in BOOLEAN /\ f.seen \in Seen
  /\ \A i \in f.queue : i <= f.cursor
  /\ \A i \in f.queue, j \in Video : i < j /\ j <= f.cursor => j \in f.queue
  /\ f.eof => f.cursor = Last1

(* From f to g more packets were queued, and the queue cut.                 *)
Grown(f, g) ==
  /\ Good(g) /\ f.cursor <= g.cursor
  /\ f.eof => g = f
  /\ \A i \in Video :
       i \in g.queue <=>
         /\ i \in f.queue \/ (f.cursor < i /\ i <= g.cursor)
         /\ \A k \in VideoKeys :
              f.cursor < k /\ k <= g.cursor /\ IsCut(k) => k <= i
  /\ \A s \in StreamIds :
       g.seen[s] = Absent =>
         f.seen[s] = Absent
           /\ \A i \in Packets : f.cursor < i /\ i <= g.cursor => File[i].stream # s

(* n batches more than f.                                                   *)
FillTo(f, n) ==
  [queue |-> Kept(f.queue, VideoAfter[f.cursor] \cap 1 .. Reach[f.cursor][n]),
   cursor |-> Reach[f.cursor][n], eof |-> AtEnd[f.cursor][n],
   seen |-> TsAfter(f.seen, f.cursor, Reach[f.cursor][n])]

LEMMA FillToGrows ==
  ASSUME NEW f, Good(f), ~f.eof, NEW n \in Turns
  PROVE  Grown(f, FillTo(f, n))
<1> DEFINE c == f.cursor
           d == Reach[c][n]
           new == VideoAfter[c] \cap 1 .. d
           filled == Kept(f.queue, new)
           g == FillTo(f, n)
<1>1. c \in Numbers
  BY DEF Good
<1>2. /\ AtEnd[c][n] \in BOOLEAN /\ d \in Numbers /\ c <= d
      /\ AtEnd[c][n] => d = Last1
      /\ VideoAfter[c] = {i \in Video : i > c}
  BY <1>1, ReachFacts
<1>3. /\ g.queue = filled /\ g.cursor = d /\ g.eof = AtEnd[c][n]
      /\ g.seen = TsAfter(f.seen, c, d)
  BY DEF FillTo
<1>4. filled = {i \in f.queue \cup new :
                  \A k \in {j \in new \cap VideoKeys : IsCut(j)} : i >= k}
  BY DEF Kept
<1>5. \A i \in Video : i \in new <=> c < i /\ i <= d
  BY <1>1, <1>2, FileFacts DEF Numbers
<1>6. f.queue \subseteq Video /\ new \subseteq Video
  BY <1>2 DEF Good
<1> HIDE DEF filled, new
<1>7. \A i \in Video : i \in Nat
  BY FileFacts
<1>8. \A i \in Video :
        i \in filled <=>
          /\ i \in f.queue \/ (c < i /\ i <= d)
          /\ \A k \in VideoKeys : c < k /\ k <= d /\ IsCut(k) => k <= i
  <2>1. \A i, k \in Video : i >= k <=> k <= i
    BY <1>7
  <2> QED
    BY <1>4, <1>5, <1>6, <2>1, FileFacts
<1>9. filled \in SUBSET Video
  BY <1>4, <1>6
<1> HIDE DEF d, c
<1>10. \A i \in filled : i <= d
  BY <1>1, <1>2, <1>7, <1>8, <1>9 DEF Good, c, d, Numbers
<1>11. ASSUME NEW i \in filled, NEW j \in Video, i < j, j <= d
       PROVE  j \in filled
  <2>1. i \in Video /\ i \in Nat /\ j \in Nat /\ c \in Nat /\ d \in Nat
    BY <1>1, <1>2, <1>7, <1>9 DEF Numbers, d
  <2>2. j \in f.queue \/ (c < j /\ j <= d)
    BY <1>8, <1>11, <2>1 DEF Good, c
  <2>3. \A k \in VideoKeys : c < k /\ k <= d /\ IsCut(k) => k <= j
    BY <1>7, <1>8, <1>11, <2>1, FileFacts
  <2> QED
    BY <1>8, <2>2, <2>3
<1>12. TsAfter(f.seen, c, d) \in Seen
  BY <1>1, <1>2, TsAfterType DEF Good, d
<1>13. Good(g)
  BY <1>2, <1>3, <1>9, <1>10, <1>11, <1>12 DEF Good, d
<1>14. ASSUME NEW s \in StreamIds, g.seen[s] = Absent
       PROVE  /\ f.seen[s] = Absent
              /\ \A i \in Packets : c < i /\ i <= g.cursor => File[i].stream # s
  BY <1>1, <1>2, <1>3, <1>14, TsAfterAbsent DEF Good, d
<1> HIDE DEF g
<1>15. Grown(f, g)
  BY <1>2, <1>3, <1>8, <1>13, <1>14 DEF Grown, c, d
<1> QED
  BY <1>15 DEF g

(* Batches are read until the queue is full or the file at its end.         *)
LEMMA FillTurns ==
  ASSUME NEW f, Good(f), NEW keysMust \in BOOLEAN, ~(f.eof \/ Full(f.queue, keysMust))
  PROVE  \E n \in Turns :
           /\ Fill(f, keysMust) = FillTo(f, n)
           /\ AtEnd[f.cursor][n] \/ Full(FillTo(f, n).queue, keysMust)
           /\ \A k \in 1 .. n - 1 :
                ~AtEnd[f.cursor][k] /\ ~Full(FillTo(f, k).queue, keysMust)
<1> DEFINE c == f.cursor
           filled(n) == Kept(f.queue, VideoAfter[c] \cap 1 .. Reach[c][n])
           enough(n) == AtEnd[c][n] \/ Full(filled(n), keysMust)
           least == CHOOSE m \in Turns : enough(m) /\ \A k \in 1 .. m - 1 : ~enough(k)
<1>1. Fill(f, keysMust) = FillTo(f, least)
  BY DEF Fill, FillTo, Turns, Last1
<1>2. c \in Numbers
  BY DEF Good
<1>3. \A n : enough(n) <=> AtEnd[c][n] \/ Full(FillTo(f, n).queue, keysMust)
  BY DEF FillTo
<1>4. least \in Turns /\ enough(least) /\ \A k \in 1 .. least - 1 : ~enough(k)
  <2> DEFINE T == {m \in Turns : enough(m)}
  <2> HIDE DEF enough
  <2>1. Last1 + 1 \in T
    <3>1. AtEnd[c][Last1 + 1]
      BY <1>2, EndIsReached
    <3>2. enough(Last1 + 1)
      BY <3>1 DEF enough
    <3>3. Last1 + 1 \in Turns
      BY FileFacts DEF Turns
    <3> QED
      BY <3>2, <3>3
  <2>2. T \in SUBSET Nat /\ T # {}
    BY <2>1, FileFacts, SMTT(30) DEF Turns
  <2>3. PICK m \in T : \A y \in T : m <= y
    <3> HIDE DEF T
    <3> QED
      BY <2>2, LeastNatural
  <2>4. m \in Turns /\ enough(m)
    OBVIOUS
  <2>5. ASSUME NEW k \in 1 .. m - 1 PROVE ~enough(k)
    <3>1. k \in Turns /\ ~(m <= k)
      BY <2>4, FileFacts DEF Turns
    <3> QED
      BY <2>3, <3>1
  <2> QED
    BY <2>4, <2>5
<1> HIDE DEF least, enough, filled
<1> QED
  BY <1>1, <1>3, <1>4

LEMMA GrownSelf ==
  ASSUME NEW f, Good(f)
  PROVE  Grown(f, f)
<1>1. \A k \in Packets : ~(f.cursor < k /\ k <= f.cursor)
  BY FileFacts DEF Good, Numbers
<1>2. \A k \in VideoKeys : ~(f.cursor < k /\ k <= f.cursor)
  BY <1>1, FileFacts
<1>3. f.cursor <= f.cursor
  BY FileFacts, SMTT(30) DEF Good, Numbers
<1> QED
  BY <1>1, <1>2, <1>3, FileFacts DEF Grown

LEMMA FillGrows ==
  ASSUME NEW f, Good(f), NEW keysMust \in BOOLEAN
  PROVE  /\ Grown(f, Fill(f, keysMust))
         /\ Fill(f, keysMust).eof \/ Full(Fill(f, keysMust).queue, keysMust)
<1>1. CASE f.eof \/ Full(f.queue, keysMust)
  <2>1. Fill(f, keysMust) = f
    BY <1>1 DEF Fill
  <2> QED
    BY <1>1, <2>1, GrownSelf, SMTT(30)
<1>2. CASE ~(f.eof \/ Full(f.queue, keysMust))
  <2>1. PICK n \in Turns :
          /\ Fill(f, keysMust) = FillTo(f, n)
          /\ AtEnd[f.cursor][n] \/ Full(FillTo(f, n).queue, keysMust)
    BY <1>2, FillTurns
  <2>2. Grown(f, FillTo(f, n))
    BY <1>2, FillToGrows
  <2>3. FillTo(f, n).eof = AtEnd[f.cursor][n]
    BY DEF FillTo
  <2> QED
    BY <2>1, <2>2, <2>3
<1> QED
  BY <1>1, <1>2, SMTT(30)

LEMMA VideoNumbers ==
  /\ \A i \in Video : i \in Nat /\ i \in Packets /\ i # None /\ File[i].ts \in Nat
  /\ \A q \in SUBSET Video : q \in SUBSET Nat
<1>1. ASSUME NEW i \in Video
      PROVE  i \in Nat /\ i \in Packets /\ i # None /\ File[i].ts \in Nat
  <2>1. i \in Packets
    BY FileFacts
  <2>2. i \in 1 .. Last1 /\ Last1 \in Nat
    BY <2>1, FileFacts
  <2> QED
    BY <2>1, <2>2, FileFacts DEF None
<1> QED
  BY <1>1

LEMMA LeastOfQueue ==
  ASSUME NEW q \in SUBSET Video, q # {}
  PROVE  Min(q) \in q /\ Min(q) \in Video /\ \A i \in q : Min(q) <= i
BY MinIsLeast, VideoNumbers

(* pop of read().                                                           *)
LEMMA PoppedFacts ==
  ASSUME Good(Buffers)
  PROVE  \E f : /\ Grown(Buffers, f)
                /\ queue # {} => f = Buffers
                /\ f.queue = {} => f.eof /\ Popped.packet = None
                /\ f.queue # {} => Popped.packet \in f.queue
                                     /\ \A i \in f.queue : Popped.packet <= i
                /\ Popped.buffers.queue = f.queue \ {Popped.packet}
                /\ Popped.buffers.cursor = f.cursor /\ Popped.buffers.eof = f.eof
                /\ Popped.buffers.seen = f.seen
<1> DEFINE f == IF queue = {} THEN Fill(Buffers, FALSE) ELSE Buffers
           p == IF f.queue = {} THEN None ELSE Min(f.queue)
<1>1. Popped.packet = p /\ Popped.buffers = [f EXCEPT !.queue = @ \ {p}]
  BY DEF Popped
<1>2. Grown(Buffers, f) /\ (queue # {} => f = Buffers)
  BY GrownSelf, FillGrows
<1>3. f.queue = {} => f.eof
  <2>1. CASE queue = {}
    BY <2>1, FillGrows DEF Full
  <2>2. CASE queue # {}
    BY <2>2 DEF Buffers
  <2> QED
    BY <2>1, <2>2
<1>4. \E q, c, e, b : f = [queue |-> q, cursor |-> c, eof |-> e, seen |-> b]
  BY DEF Fill, Buffers
<1>5. f.queue \in SUBSET Video
  BY <1>2 DEF Grown, Good
<1> HIDE DEF f
<1>6. f.queue # {} => p \in f.queue /\ \A i \in f.queue : p <= i
  BY <1>5, LeastOfQueue
<1>7. /\ Popped.buffers.queue = f.queue \ {p} /\ Popped.buffers.cursor = f.cursor
      /\ Popped.buffers.eof = f.eof /\ Popped.buffers.seen = f.seen
  BY <1>1, <1>4
<1> QED
  BY <1>1, <1>2, <1>3, <1>6, <1>7

LEMMA PoppedGood ==
  ASSUME Good(Buffers)
  PROVE  Good(Popped.buffers) /\ Popped.packet \in Video \cup {None}
<1>1. PICK f : /\ Grown(Buffers, f)
               /\ f.queue = {} => f.eof /\ Popped.packet = None
               /\ f.queue # {} => Popped.packet \in f.queue
                                    /\ \A i \in f.queue : Popped.packet <= i
               /\ Popped.buffers.queue = f.queue \ {Popped.packet}
               /\ Popped.buffers.cursor = f.cursor /\ Popped.buffers.eof = f.eof
               /\ Popped.buffers.seen = f.seen
  BY PoppedFacts
<1>2. Good(f)
  BY <1>1 DEF Grown
<1>3. ASSUME NEW i \in Popped.buffers.queue, NEW j \in Video, i < j, j <= f.cursor
      PROVE  j \in Popped.buffers.queue
  <2>1. i \in f.queue /\ j \in f.queue /\ f.queue # {} /\ i \in Nat
    BY <1>1, <1>2, <1>3, VideoNumbers DEF Good
  <2>2. Popped.packet <= i /\ Popped.packet \in Nat /\ j \in Nat
    BY <1>1, <1>2, <2>1, VideoNumbers DEF Good
  <2>3. j # Popped.packet
    BY <1>3, <2>1, <2>2
  <2> QED
    BY <1>1, <2>1, <2>3
<1> QED
  BY <1>1, <1>2, <1>3 DEF Good

LEMMA PositionType ==
  ASSUME NEW q \in SUBSET Video
  PROVE  /\ Position(q) \in 0 .. FileEnd \cup {Nopts}
         /\ q = {} => Position(q) = Nopts
         /\ q # {} => Position(q) = File[Min(q)].ts
<1>1. CASE q = {}
  BY <1>1 DEF Position
<1>2. CASE q # {}
  <2>1. Min(q) \in Packets
    BY <1>2, LeastOfQueue, VideoNumbers
  <2>2. File[Min(q)].ts \in 0 .. FileEnd
    BY <2>1, FileFacts
  <2> QED
    BY <1>2, <2>2 DEF Position
<1> QED
  BY <1>1, <1>2

LEMMA KeysOfType ==
  ASSUME NEW s, NEW t
  PROVE  /\ AtOrBefore(s, t) \in SUBSET (1 .. Last1) /\ AtOrAfter(s, t) \in SUBSET (1 .. Last1)
         /\ AtOrBefore(s, t) \in SUBSET (0 .. Last1) /\ AtOrAfter(s, t) \in SUBSET Nat
BY FileFacts DEF AtOrBefore, AtOrAfter, KeysOf

LEMMA LandingsType ==
  ASSUME NEW s, NEW t, cursor \in Numbers, format \in Kinds
  PROVE  Landings(s, t) \subseteq Numbers
<1>1. Last1 \in Nat /\ 0 \in Numbers
  BY FileFacts DEF Numbers
<1>2. ASSUME NEW u PROVE Backward(u, t) \subseteq Numbers
  <2>1. CASE AtOrBefore(u, t) # {}
    <3>1. Max(AtOrBefore(u, t)) \in 1 .. Last1
      BY <1>1, <2>1, KeysOfType, GreatestOf
    <3>2. Max(AtOrBefore(u, t)) - 1 \in Numbers
      BY <1>1, <3>1 DEF Numbers
    <3> QED
      BY <2>1, <3>2 DEF Backward
  <2>2. CASE AtOrBefore(u, t) = {}
    BY <1>1, <2>2 DEF Backward
  <2> QED
    BY <2>1, <2>2
<1>3. ASSUME NEW u PROVE Onward(u, t) \subseteq Numbers
  <2>1. CASE AtOrAfter(u, t) # {}
    <3>1. Min(AtOrAfter(u, t)) \in 1 .. Last1
      BY <1>1, <2>1, KeysOfType, MinIsLeast
    <3>2. Min(AtOrAfter(u, t)) - 1 \in Numbers
      BY <1>1, <3>1 DEF Numbers
    <3> QED
      BY <2>1, <3>2 DEF Onward
  <2>2. CASE AtOrAfter(u, t) = {}
    BY <2>2 DEF Onward
  <2> QED
    BY <2>1, <2>2
<1> QED
  BY <1>1, <1>2, <1>3 DEF Landings, Kinds, Numbers, Last1

----------------------------------------------------------------------------
(* Types.                                                                   *)

TypeInv == TypeOK /\ Good(Buffers)

LEMMA BufferTypes ==
  ASSUME TypeOK
  PROVE  /\ cursor \in Numbers /\ format \in Kinds /\ lastTs \in Seen /\ seekTime \in Nat
         /\ \A c \in Numbers : Good(EmptyAt(c))
<1>1. cursor \in Numbers /\ format \in Kinds /\ lastTs \in Seen /\ seekTime \in Nat
  BY FileIsReadable DEF TypeOK, Numbers, Seen, Last1
<1> QED
  BY <1>1 DEF Good, EmptyAt

LEMMA BecomesGood ==
  ASSUME NEW f, Good(f), Becomes(f)
  PROVE  /\ Good(Buffers)' /\ queue' \subseteq Video /\ cursor' \in 0 .. Len(File)
         /\ eof' \in BOOLEAN /\ lastTs' \in Seen
BY DEF Good, Becomes, Buffers, Numbers, Last1

LEMMA TypeInvInit == Init => TypeInv
<1> SUFFICES ASSUME Init PROVE TypeInv
  OBVIOUS
<1>1. PICK read \in 0 .. Len(File) :
        /\ lastTs = Opened(read)
        /\ cursor = IF format = "unseekable" \/ lastTs[Best] = Absent THEN read ELSE 0
  BY DEF Init
<1> DEFINE first == [s \in StreamIds |-> IF s = Max(StreamIds) THEN Nopts ELSE Absent]
<1>2. first \in Seen /\ read \in Numbers /\ 0 \in Numbers
  BY FileFacts DEF Seen, Numbers, Last1
<1>3. lastTs = TsAfter(first, 0, read)
  BY <1>1 DEF Opened
<1> HIDE DEF first
<1>4. lastTs \in Seen
  BY <1>2, <1>3, TsAfterType
<1>5. cursor \in Numbers
  BY <1>1, <1>2
<1>6. TypeOK
  <2>1. 0 \in 0 .. MaxSeeks /\ 0 \in 0 .. Max(StreamIds) + 1
    BY FileFacts
  <2>2. /\ queue = {} /\ eof = FALSE /\ seekTime = 0 /\ time = 0 /\ step = 0
        /\ idx = 0 /\ found = Nopts /\ best = Nopts /\ tried = Nopts
        /\ pos = 0 /\ shift = 0 /\ start = 0
    BY DEF Init
  <2>3. /\ asked = Nopts /\ wanted = 0 /\ buffered = None /\ result = FALSE
        /\ given = None /\ pc = "idle" /\ seeks = 0 /\ format \in Formats
    BY DEF Init
  <2>4. /\ queue \subseteq Video /\ eof \in BOOLEAN /\ seekTime \in Nat /\ time \in Nat
        /\ step \in Nat /\ idx \in 0 .. Max(StreamIds) + 1
        /\ found \in 0 .. FileEnd \cup {Nopts} /\ {best, tried} \subseteq StreamIds \cup {Nopts}
    BY <2>1, <2>2
  <2>5. /\ pos \in Nat /\ shift \in Nat /\ start \in Nat /\ asked \in Nat \cup {Nopts}
        /\ wanted \in Nat /\ buffered \in Video \cup {None} /\ result \in BOOLEAN
        /\ given \in Video \cup {None} /\ pc \in Points /\ seeks \in 0 .. MaxSeeks
        /\ format \in Formats
    BY <2>1, <2>2, <2>3 DEF Points
  <2> QED
    BY <1>4, <1>5, <2>4, <2>5 DEF TypeOK, Seen, Numbers, Last1
<1>7. Good(Buffers)
  BY <1>4, <1>5 DEF Init, Good, Buffers
<1> QED
  BY <1>6, <1>7 DEF TypeInv

(* What is left of the type of the state when that of the buffers is known. *)
LEMMA TypesOfRest ==
  ASSUME NEW f, Good(f), Becomes(f), format' \in Formats, seekTime' \in Nat,
         time' \in Nat, step' \in Nat, idx' \in 0 .. Max(StreamIds) + 1,
         found' \in 0 .. FileEnd \cup {Nopts},
         best' \in StreamIds \cup {Nopts}, tried' \in StreamIds \cup {Nopts},
         pos' \in Nat, shift' \in Nat, start' \in Nat, asked' \in Nat \cup {Nopts},
         wanted' \in Nat, buffered' \in Video \cup {None}, result' \in BOOLEAN,
         given' \in Video \cup {None}, pc' \in Points, seeks' \in 0 .. MaxSeeks
  PROVE  TypeInv'
BY BecomesGood DEF TypeInv, TypeOK, Seen

LEMMA LocalsType ==
  LocalsGone => /\ time' \in Nat /\ step' \in Nat /\ idx' \in 0 .. Max(StreamIds) + 1
                /\ found' \in 0 .. FileEnd \cup {Nopts}
                /\ best' \in StreamIds \cup {Nopts} /\ tried' \in StreamIds \cup {Nopts}
                /\ pos' \in Nat /\ shift' \in Nat /\ start' \in Nat
BY FileFacts DEF LocalsGone

(* What TryStream leaves behind.                                            *)
Quick(c) == Fill(EmptyAt(c), FALSE)
Left(c) == IF InTime(Quick(c).queue) THEN Fill(Quick(c), TRUE) ELSE Quick(c)

(* The place of a stream just tried against the one found before it.        *)
Better(place) == found = Nopts \/ (place # Nopts /\ place <= found)

(* What TryStream does, by what is left of the stream tried.                *)
LEMMA TryStreamMoves ==
  ASSUME TryStream
  PROVE  \E c \in Landings(idx, time) :
           LET place == Position(Left(c).queue)
           IN  /\ Becomes(Left(c)) /\ tried' = idx
               /\ best' = IF Better(place) THEN idx ELSE FirstTried
               /\ found' = IF Better(place) THEN place ELSE found
               /\ IF Better(place) /\ InTime(Left(c).queue)
                    THEN pos' = time /\ pc' = "probe" /\ idx' = idx
                    ELSE idx' = idx + 1 /\ UNCHANGED <<pos, pc>>
<1>1. PICK c \in Landings(idx, time) :
        \E f \in {IF InTime(Fill(EmptyAt(c), FALSE).queue)
                    THEN Fill(Fill(EmptyAt(c), FALSE), TRUE) ELSE Fill(EmptyAt(c), FALSE)} :
          LET place  == Position(f.queue)
              better == found = Nopts \/ (place # Nopts /\ place <= found)
          IN  /\ Becomes(f)
              /\ tried' = idx
              /\ best' = IF better THEN idx ELSE FirstTried
              /\ found' = IF better THEN place ELSE found
              /\ IF better /\ InTime(f.queue)
                   THEN Found /\ idx' = idx
                   ELSE idx' = idx + 1 /\ UNCHANGED <<pos, pc>>
  BY DEF TryStream
<1>2. LET place  == Position(Left(c).queue)
          better == found = Nopts \/ (place # Nopts /\ place <= found)
      IN  /\ Becomes(Left(c))
          /\ tried' = idx
          /\ best' = IF better THEN idx ELSE FirstTried
          /\ found' = IF better THEN place ELSE found
          /\ IF better /\ InTime(Left(c).queue)
               THEN Found /\ idx' = idx
               ELSE idx' = idx + 1 /\ UNCHANGED <<pos, pc>>
  BY <1>1 DEF Left, Quick
<1> QED
  BY <1>2 DEF Better, Found

LEMMA NextType == TypeInv /\ [Next]_vars => TypeInv'
<1> SUFFICES ASSUME TypeInv, [Next]_vars PROVE TypeInv'
  OBVIOUS
<1> USE FileFacts
<1>1. TypeOK /\ Good(Buffers) /\ Becomes(Buffers) <=>
        TypeOK /\ queue' = queue /\ cursor' = cursor /\ eof' = eof /\ lastTs' = lastTs
  BY DEF TypeInv, Becomes, Buffers
<1>2. /\ TypeOK /\ Good(Buffers) /\ format \in Formats /\ seekTime \in Nat
      /\ time \in Nat /\ step \in Nat /\ idx \in 0 .. Max(StreamIds) + 1
      /\ found \in 0 .. FileEnd \cup {Nopts}
      /\ best \in StreamIds \cup {Nopts} /\ tried \in StreamIds \cup {Nopts}
      /\ pos \in Nat /\ shift \in Nat /\ start \in Nat /\ asked \in Nat \cup {Nopts}
      /\ wanted \in Nat /\ buffered \in Video \cup {None} /\ result \in BOOLEAN
      /\ given \in Video \cup {None} /\ pc \in Points /\ seeks \in 0 .. MaxSeeks
  BY DEF TypeInv, TypeOK
<1>3. idx <= LastIdx => idx \in StreamIds /\ idx + 1 \in 0 .. Max(StreamIds) + 1
                        /\ FirstTried \in StreamIds \cup {Nopts}
  BY <1>2 DEF LastIdx, FirstTried
<1>4. CASE \E t \in Targets : RequestSeek(t)
  <2>1. PICK t \in Targets : RequestSeek(t)
    BY <1>4
  <2>2. asked' \in Nat /\ pos' = asked' /\ start' = asked' /\ t \in Nat
    BY <1>2, <2>1 DEF RequestSeek
  <2>3. seeks' \in 0 .. MaxSeeks /\ shift' \in Nat /\ pc' \in Points
    BY <1>2, <2>1 DEF RequestSeek, Points
  <2>4. Becomes(Buffers)
    BY <2>1 DEF RequestSeek, Becomes, Buffers
  <2> QED
    BY <1>2, <2>1, <2>2, <2>3, <2>4, TypesOfRest DEF RequestSeek
<1>5. CASE Attempt
  <2>1. NextPos \in Nat /\ shift' \in Nat /\ pos' = NextPos
    BY <1>2, <1>5, FileIsReadable DEF Attempt, NextPos, Near
  <2>2. /\ time' \in Nat /\ idx' \in 0 .. Max(StreamIds) + 1 /\ pc' \in Points
        /\ found' \in 0 .. FileEnd \cup {Nopts} /\ seekTime' \in Nat /\ step' \in Nat
        /\ best' \in StreamIds \cup {Nopts} /\ tried' \in StreamIds \cup {Nopts}
    BY <1>5, <2>1, FileIsReadable DEF Attempt, Enter, Points
  <2>3. Becomes(Buffers)
    BY <1>5 DEF Attempt, Becomes, Buffers
  <2> QED
    BY <1>2, <1>5, <2>1, <2>2, <2>3, TypesOfRest DEF Attempt
<1>6. CASE SkipStream
  <2>1. Becomes(Buffers)
    BY <1>6 DEF SkipStream, Becomes, Buffers
  <2> QED
    BY <1>2, <1>3, <1>6, <2>1, TypesOfRest DEF SkipStream
<1>7. CASE StreamRefuses
  <2>1. Good(EmptyAt(cursor)) /\ Becomes(EmptyAt(cursor))
    BY <1>2, <1>7, BufferTypes DEF StreamRefuses
  <2> QED
    BY <1>2, <1>3, <1>7, <2>1, TypesOfRest DEF StreamRefuses
<1>8. CASE TryStream
  <2>1. PICK f :
          /\ Good(f) /\ Becomes(f) /\ tried' = idx
          /\ best' \in {idx, FirstTried}
          /\ found' \in {Position(f.queue), found}
          /\ \/ pos' = time /\ pc' = "probe" /\ idx' = idx
             \/ idx' = idx + 1 /\ pos' = pos /\ pc' = pc
    <3>1. PICK c \in Landings(idx, time) :
            /\ Becomes(Left(c)) /\ tried' = idx
            /\ best' \in {idx, FirstTried}
            /\ found' \in {Position(Left(c).queue), found}
            /\ \/ pos' = time /\ pc' = "probe" /\ idx' = idx
               \/ idx' = idx + 1 /\ pos' = pos /\ pc' = pc
      BY <1>8, TryStreamMoves
    <3>2. Good(EmptyAt(c))
      BY <1>2, BufferTypes, LandingsType
    <3>3. Good(Quick(c))
      BY <3>2, FillGrows DEF Quick, Grown
    <3>4. Good(Left(c))
      BY <3>3, FillGrows DEF Left, Grown
    <3> QED
      BY <3>1, <3>4
  <2>2. found' \in 0 .. FileEnd \cup {Nopts}
    BY <1>2, <2>1, PositionType DEF Good
  <2>3. /\ UNCHANGED <<format, seekTime, looping, shift, start, stream, asked, seeks>>
        /\ idx <= LastIdx
    BY <1>8 DEF TryStream
  <2>4. /\ best' \in StreamIds \cup {Nopts} /\ tried' \in StreamIds \cup {Nopts}
        /\ idx' \in 0 .. Max(StreamIds) + 1 /\ pos' \in Nat /\ pc' \in Points
    BY <1>2, <1>3, <2>1, <2>3 DEF Points
  <2> QED
    BY <1>2, <2>1, <2>2, <2>3, <2>4, TypesOfRest
<1>9. CASE TakeBest
  <2>1. CASE best = tried
    <3>1. /\ Becomes(Buffers) /\ pos' = time /\ pc' = "probe"
          /\ UNCHANGED <<format, seekTime, looping, trying, shift, start, asked, stream, seeks>>
      BY <1>9, <2>1 DEF TakeBest, Found, Becomes, Buffers
    <3> QED
      BY <1>2, <3>1, TypesOfRest DEF Points
  <2>2. CASE best # tried /\ Landings(best, 0) # {} /\ pc' # "idle"
    <3>1. PICK c \in Landings(best, 0) :
            /\ Becomes(Fill(EmptyAt(c), TRUE)) /\ pos' = time /\ pc' = "probe"
            /\ UNCHANGED <<format, seekTime, looping, trying, shift, start, asked, stream, seeks>>
      BY <1>9, <2>2 DEF TakeBest, Found
    <3>2. Good(Fill(EmptyAt(c), TRUE))
      BY <1>2, BufferTypes, LandingsType, FillGrows DEF Grown
    <3> QED
      BY <1>2, <3>1, <3>2, TypesOfRest DEF Points
  <2>3. CASE best # tried /\ Landings(best, 0) = {}
    <3>1. /\ Becomes(EmptyAt(cursor)) /\ pc' = "idle" /\ LocalsGone
          /\ UNCHANGED <<format, seekTime, asked, stream, seeks>>
      BY <1>9, <2>3 DEF TakeBest
    <3>2. Good(EmptyAt(cursor))
      BY <1>2, BufferTypes
    <3> QED
      BY <1>2, <3>1, <3>2, LocalsType, TypesOfRest DEF Points
  <2> QED
    BY <1>9, <2>1, <2>2, <2>3 DEF TakeBest, Found
<1>10. CASE BackOff
  <2>1. /\ time' \in Nat /\ idx' \in 0 .. Max(StreamIds) + 1 /\ pc' \in Points
        /\ found' \in 0 .. FileEnd \cup {Nopts} /\ step' \in Nat
        /\ best' \in StreamIds \cup {Nopts} /\ tried' \in StreamIds \cup {Nopts}
    BY <1>2, <1>10 DEF BackOff, StepBack, Enter, Points
  <2>2. Becomes(Buffers)
    BY <1>10 DEF BackOff, Becomes, Buffers
  <2> QED
    BY <1>2, <1>10, <2>1, <2>2, TypesOfRest DEF BackOff
<1>11. CASE Probe
  <2>1. /\ Becomes(Popped.buffers) /\ buffered' = Popped.packet
        /\ result' \in {result, Accepts(Popped.packet)}
        /\ UNCHANGED <<format, seekTime, wanted, given, seeks>>
        /\ \/ UNCHANGED <<looping, trying, backing, asked, pc>>
           \/ UNCHANGED <<looping, trying, backing, asked>> /\ pc' = "attempt"
           \/ pc' = "idle" /\ asked' = Nopts /\ LocalsGone
    BY <1>11 DEF Probe
  <2>2. Good(Popped.buffers) /\ Popped.packet \in Video \cup {None}
    BY <1>2, PoppedGood
  <2>3. Accepts(Popped.packet) \in BOOLEAN
    BY DEF Accepts
  <2> QED
    BY <1>2, <2>1, <2>2, <2>3, LocalsType, TypesOfRest, ZenonT(60) DEF Points
<1>12. CASE Read
  <2>1. CASE buffered # None
    <3>1. Becomes(Buffers) /\ given' = buffered /\ buffered' = None
      BY <1>12, <2>1 DEF Read, Becomes, Buffers
    <3> QED
      BY <1>2, <1>12, <2>1, <3>1, TypesOfRest DEF Read
  <2>2. CASE buffered = None
    <3>1. /\ Becomes(Popped.buffers) /\ given' \in {given, Popped.packet}
          /\ UNCHANGED <<format, seekTime, buffered>>
      BY <1>12, <2>2 DEF Read
    <3>2. Good(Popped.buffers) /\ Popped.packet \in Video \cup {None}
      BY <1>2, PoppedGood
    <3> QED
      BY <1>2, <1>12, <3>1, <3>2, TypesOfRest DEF Read
  <2> QED
    BY <2>1, <2>2
<1>13. CASE UNCHANGED vars
  <2>1. Becomes(Buffers)
    BY <1>13 DEF Becomes, Buffers
  <2> QED
    BY <1>2, <1>13, <2>1, TypesOfRest
<1> QED
  BY <1>4, <1>5, <1>6, <1>7, <1>8, <1>9, <1>10, <1>11, <1>12, <1>13 DEF Next, SeekStep

(* The types of parser, queue and stream, for every file.                   *)
THEOREM TypeCorrect == Spec => []TypeOK
<1>1. TypeInv => TypeOK
  BY DEF TypeInv
<1> QED
  BY <1>1, TypeInvInit, NextType, PTL DEF Spec
----------------------------------------------------------------------------
(* Nothing is lost.  A key packet not past the time of the seek cuts the    *)
(* queue, so the queue goes on without gaps only if no such packet is still *)
(* to come: that is what both loops leave behind them when they end, but    *)
(* for key packets without a duration before one that cuts (NoLateCut).     *)

SettledAt(f) == NoLateCut => f.eof \/ \A k \in VideoKeys : f.cursor < k => ~IsCut(k)

(* The queue is what follows packet p.                                      *)
RestOf(f, p) ==
  NoLateCut =>
    p <= f.cursor /\ \A i \in Video : i \in f.queue <=> p < i /\ i <= f.cursor

(* A key packet past the time does not cut.                                 *)
LEMMA LateKeysStay ==
  ASSUME NEW k \in VideoKeys, seekTime \in Nat, seekTime < File[k].ts
  PROVE  ~IsCut(k)
<1>1. File[k].ts \in Nat
  BY FileFacts, VideoNumbers
<1>2. ~(File[k].ts <= seekTime)
  BY <1>1
<1> QED
  BY <1>2 DEF IsCut

LEMMA CutsStay ==
  ASSUME seekTime' = seekTime
  PROVE  (NoLateCut' <=> NoLateCut) /\ \A k : IsCut(k)' <=> IsCut(k)
BY DEF NoLateCut, IsCut

Fresh == queue = {} /\ seekTime = 0 /\ given = None /\ buffered = None

(* While seek_internal tries the streams for time 0.  An MPEG-TS file is    *)
(* sought in the best stream only.                                          *)
TriedForStart ==
  /\ best # Nopts /\ best = tried /\ ~(format = "mpegts" /\ idx <= Best) => SettledAt(Buffers)
  /\ idx > Best => best # Nopts
  /\ format = "mpegts" => /\ idx <= Best => found = Nopts
                          /\ idx > Best => best = Best

LossInv ==
  /\ given # None => RestOf(Buffers, given) /\ pc = "idle" /\ buffered = None
  /\ pc = "idle" /\ buffered # None => RestOf(Buffers, buffered)
  /\ pc = "idle" => SettledAt(Buffers) \/ Fresh
  /\ pc = "probe" => SettledAt(Buffers)
  /\ pc = "streams" /\ time = 0 => TriedForStart

LEMMA SettledGrows ==
  ASSUME NEW f, NEW g, Grown(f, g), Good(f), SettledAt(f)
  PROVE  SettledAt(g)
<1>1. CASE f.eof
  BY <1>1 DEF Grown
<1>2. CASE ~f.eof
  <2>1. /\ f.cursor \in Nat /\ g.cursor \in Nat /\ f.cursor <= g.cursor
        /\ \A k \in VideoKeys : k \in Nat
    BY FileFacts, VideoNumbers DEF Grown, Good, Numbers
  <2> QED
    BY <1>2, <2>1 DEF SettledAt
<1> QED
  BY <1>1, <1>2

LEMMA TwoKeys ==
  ASSUME NEW q \in SUBSET Video, Full(q, TRUE)
  PROVE  \E a, b \in q \cap VideoKeys : a < b
<1> DEFINE S == q \cap VideoKeys
<1>1. Cardinality(S) >= 2
  BY DEF Full
<1>2. S \in SUBSET (1 .. Last1) /\ Last1 \in Nat
  BY FileFacts
<1> HIDE DEF S
<1>3. S # {}
  BY <1>1, FS_EmptySet
<1>4. PICK a \in S : TRUE
  BY <1>3
<1>5. S # {a}
  BY <1>1, FS_Singleton
<1>6. PICK b \in S : a # b
  BY <1>4, <1>5
<1>7. a < b \/ b < a
  BY <1>2, <1>6
<1> QED
  BY <1>4, <1>6, <1>7 DEF S

(* Two key packets guarantee that no key packet still to come cuts: the     *)
(* second one of them would have.                                           *)
LEMMA KeysSettle ==
  ASSUME NEW e, NEW f, Good(e), Grown(e, f), f.eof \/ Full(f.queue, TRUE),
         \A a, b \in e.queue \cap VideoKeys : a < b => ~IsCut(b),
         seekTime \in Nat
  PROVE  SettledAt(f)
<1>1. CASE f.eof
  BY <1>1 DEF SettledAt
<1>2. CASE Full(f.queue, TRUE)
  <2>1. f.queue \in SUBSET Video /\ f.cursor \in Nat /\ e.cursor \in Nat
    BY FileFacts DEF Grown, Good, Numbers
  <2>2. PICK a, b \in f.queue \cap VideoKeys : a < b
    BY <1>2, <2>1, TwoKeys
  <2>3. a \in Nat /\ b \in Nat /\ a \in Packets /\ b \in Packets /\ File[b].ts \in Nat
    BY <2>1, <2>2, VideoNumbers
  <2>4. ~IsCut(b)
    <3>1. CASE e.cursor < b
      <4>1. b <= f.cursor
        BY <2>2 DEF Grown, Good
      <4>2. ~(b <= a)
        BY <2>2, <2>3
      <4> QED
        BY <2>1, <2>2, <3>1, <4>1, <4>2 DEF Grown
    <3>2. CASE ~(e.cursor < b)
      <4>1. ~(e.cursor < a)
        BY <2>1, <2>2, <2>3, <3>2
      <4>2. a \in e.queue /\ b \in e.queue
        BY <2>1, <2>2, <3>2, <4>1 DEF Grown
      <4> QED
        BY <2>2, <4>2
    <3> QED
      BY <3>1, <3>2
  <2>5. ASSUME NoLateCut, NEW k \in VideoKeys, f.cursor < k, IsCut(k) PROVE FALSE
    <3>1. k \in Nat /\ k \in Packets /\ File[k].ts \in Nat
      BY FileFacts, VideoNumbers
    <3>2. b <= f.cursor
      BY <2>2 DEF Grown, Good
    <3>3. b < k /\ b <= k
      BY <2>1, <2>3, <2>5, <3>1, <3>2
    <3>4. File[b].ts <= File[k].ts
      BY <2>3, <3>1, <3>3, FileFacts
    <3>5. File[b].ts <= seekTime
      BY <2>3, <2>5, <3>1, <3>4 DEF IsCut
    <3>6. File[b].duration > 0
      BY <2>2, <2>5, <3>3 DEF NoLateCut
    <3> QED
      BY <2>4, <3>5, <3>6 DEF IsCut
  <2> QED
    BY <2>5 DEF SettledAt
<1> QED
  BY <1>1, <1>2

LEMMA RefilledSettles ==
  ASSUME NEW c, Good(EmptyAt(c)), seekTime \in Nat
  PROVE  SettledAt(Fill(EmptyAt(c), TRUE))
<1>1. \A a, b \in EmptyAt(c).queue \cap VideoKeys : a < b => ~IsCut(b)
  BY DEF EmptyAt
<1> QED
  BY <1>1, FillGrows, KeysSettle

(* What is left of a stream tried is settled.                               *)
LEMMA LeftSettles ==
  ASSUME NEW c, Good(EmptyAt(c)), seekTime \in Nat
  PROVE  Good(Left(c)) /\ SettledAt(Left(c))
<1>1. /\ Grown(EmptyAt(c), Quick(c)) /\ Good(Quick(c))
      /\ Quick(c).eof \/ Full(Quick(c).queue, FALSE)
  BY FillGrows DEF Quick, Grown
<1>2. CASE InTime(Quick(c).queue)
  <2>1. Grown(Quick(c), Left(c)) /\ (Left(c).eof \/ Full(Left(c).queue, TRUE))
    BY <1>1, <1>2, FillGrows DEF Left
  <2>2. ASSUME NEW a \in Quick(c).queue \cap VideoKeys, NEW b \in Quick(c).queue \cap VideoKeys,
               a < b
        PROVE  ~IsCut(b)
    <3>1. a \in Nat /\ b \in Nat /\ File[b].ts \in Nat
      BY FileFacts, VideoNumbers
    <3>2. EmptyAt(c).cursor < b /\ b <= Quick(c).cursor
      BY <1>1, FileFacts DEF Grown, Good, EmptyAt
    <3>3. ~(b <= a)
      BY <2>2, <3>1
    <3> QED
      BY <1>1, <3>2, <3>3, FileFacts DEF Grown
  <2>3. SettledAt(Left(c))
    BY <1>1, <2>1, <2>2, KeysSettle
  <2> QED
    BY <2>1, <2>3 DEF Grown
<1>3. CASE ~InTime(Quick(c).queue)
  <2>1. CASE Quick(c).eof
    BY <1>1, <1>3, <2>1 DEF Left, SettledAt
  <2>2. CASE Quick(c).queue # {}
    <3> DEFINE q == Quick(c).queue
    <3>1. Min(q) \in q /\ Min(q) \in Video
      BY <1>1, <2>2, LeastOfQueue DEF Good
    <3>5. Min(q) <= Quick(c).cursor /\ Quick(c).cursor \in Nat
      BY <1>1, <3>1, FileFacts DEF Good, Numbers
    <3>2. /\ Min(q) \in Nat /\ Min(q) \in Packets /\ File[Min(q)].ts \in Nat
          /\ Min(q) <= Quick(c).cursor /\ Quick(c).cursor \in Nat
      BY <3>1, <3>5, VideoNumbers
    <3>3. ~(File[Min(q)].ts <= seekTime)
      BY <1>3, <2>2 DEF InTime, Position
    <3>4. ASSUME NEW k \in VideoKeys, Quick(c).cursor < k PROVE ~IsCut(k)
      <4>1. k \in Nat /\ k \in Packets /\ File[k].ts \in Nat
        BY FileFacts, VideoNumbers
      <4>2. Min(q) <= k
        BY <3>2, <3>4, <4>1
      <4>3. File[Min(q)].ts <= File[k].ts
        BY <3>2, <4>1, <4>2, FileFacts
      <4>4. seekTime < File[k].ts
        BY <3>2, <3>3, <4>1, <4>3
      <4> QED
        BY <4>4, LateKeysStay
    <3>6. SettledAt(Quick(c))
      BY <3>4 DEF SettledAt
    <3> QED
      BY <1>1, <1>3, <3>6 DEF Left
  <2> QED
    BY <1>1, <2>1, <2>2 DEF Full
<1> QED
  BY <1>2, <1>3

(* Reading on, from a settled queue or from the start of a new file.        *)
LEMMA PoppedSettles ==
  ASSUME TypeInv, SettledAt(Buffers) \/ Fresh, StampsIncrease
  PROVE  /\ Good(Popped.buffers) /\ SettledAt(Popped.buffers)
         /\ Popped.packet # None => /\ Popped.packet \in Video
                                    /\ RestOf(Popped.buffers, Popped.packet)
<1> DEFINE p == Popped.packet
           b == Popped.buffers
<1>1. Good(Buffers)
  BY DEF TypeInv
<1>2. PICK f : /\ Grown(Buffers, f)
               /\ f.queue = {} => f.eof /\ p = None
               /\ f.queue # {} => p \in f.queue /\ \A i \in f.queue : p <= i
               /\ b.queue = f.queue \ {p}
               /\ b.cursor = f.cursor /\ b.eof = f.eof /\ b.seen = f.seen
  BY <1>1, PoppedFacts
<1>3. Good(b) /\ p \in Video \cup {None}
  BY <1>1, PoppedGood
<1> HIDE DEF p, b
<1>4. /\ f.queue \in SUBSET Video /\ f.cursor \in Nat /\ \A i \in f.queue : i <= f.cursor
      /\ \A i \in f.queue, j \in Video : i < j /\ j <= f.cursor => j \in f.queue
  <2>1. Good(f)
    BY <1>2 DEF Grown
  <2>2. f.cursor \in Nat
    BY <2>1, FileFacts DEF Good, Numbers
  <2> QED
    BY <2>1, <2>2 DEF Good
<1>5. SettledAt(f)
  <2>1. CASE SettledAt(Buffers)
    BY <1>1, <1>2, <2>1, SettledGrows
  <2>2. CASE Fresh /\ f.queue # {}
    <3>1. p \in Video /\ p \in Nat /\ p <= f.cursor /\ File[p].ts \in Nat
      BY <1>2, <1>4, <2>2, VideoNumbers
    <3>2. ASSUME NEW k \in VideoKeys, f.cursor < k PROVE ~IsCut(k)
      <4>1. k \in Video /\ k \in Nat /\ File[k].ts \in Nat
        BY FileFacts, VideoNumbers
      <4>2. p < k
        BY <1>4, <3>1, <3>2, <4>1
      <4>3. File[p].ts < File[k].ts
        BY <3>1, <4>1, <4>2 DEF StampsIncrease
      <4>4. seekTime = 0
        BY <2>2 DEF Fresh
      <4>5. seekTime < File[k].ts
        BY <3>1, <4>1, <4>3, <4>4
      <4> QED
        BY <4>4, <4>5, LateKeysStay
    <3> QED
      BY <3>2 DEF SettledAt
  <2>3. CASE f.queue = {}
    BY <1>2, <2>3 DEF SettledAt
  <2> QED
    BY <2>1, <2>2, <2>3
<1>6. SettledAt(b)
  BY <1>2, <1>5 DEF SettledAt
<1>7. ASSUME p # None PROVE p \in Video /\ RestOf(b, p)
  <2>1. p \in f.queue /\ p \in Video /\ p \in Nat /\ \A i \in f.queue : p <= i
    BY <1>2, <1>4, <1>7, VideoNumbers
  <2>2. ASSUME NEW i \in Video PROVE i \in b.queue <=> p < i /\ i <= f.cursor
    <3>1. i \in Nat
      BY VideoNumbers
    <3>2. i \in b.queue <=> i \in f.queue /\ i # p
      BY <1>2
    <3>3. i \in f.queue => p <= i /\ i <= f.cursor
      BY <1>4, <2>1
    <3>4. p < i /\ i <= f.cursor => i \in f.queue
      BY <1>4, <2>1
    <3> QED
      BY <2>1, <3>1, <3>2, <3>3, <3>4
  <2> QED
    BY <1>2, <1>4, <2>1, <2>2 DEF RestOf
<1> QED
  BY <1>3, <1>6, <1>7 DEF p, b

(* The packet read next is the next one of the stream.                      *)
LEMMA PoppedFollows ==
  ASSUME TypeInv, SettledAt(Buffers), NEW g \in Video, RestOf(Buffers, g),
         Popped.packet # None, NoLateCut
  PROVE  /\ Popped.packet \in Video /\ g < Popped.packet
         /\ \A x \in Video : ~(g < x /\ x < Popped.packet)
<1> DEFINE p == Popped.packet
<1>1. Good(Buffers)
  BY DEF TypeInv
<1>2. PICK f : /\ Grown(Buffers, f)
               /\ queue # {} => f = Buffers
               /\ f.queue = {} => f.eof /\ p = None
               /\ f.queue # {} => p \in f.queue /\ \A i \in f.queue : p <= i
  BY <1>1, PoppedFacts
<1> HIDE DEF p
<1>3. /\ f.queue \in SUBSET Video /\ f.cursor \in Nat /\ cursor \in Nat /\ g \in Nat
      /\ \A i \in f.queue : i <= f.cursor
  BY <1>1, <1>2, FileFacts, VideoNumbers DEF Grown, Good, Numbers, Buffers
<1>4. p # None /\ f.queue # {} /\ p \in f.queue /\ p \in Video /\ p \in Nat
  BY <1>2, <1>3, VideoNumbers DEF p
<1>5. /\ g <= cursor /\ \A i \in Video : i \in queue <=> g < i /\ i <= cursor
  BY DEF RestOf, Buffers
<1>6. \A i \in Video : i \in f.queue <=> g < i /\ i <= f.cursor
  <2>1. CASE queue # {}
    BY <1>2, <1>5, <2>1 DEF Buffers
  <2>2. CASE queue = {} /\ eof
    BY <1>2, <1>4, <2>2 DEF Buffers, Grown
  <2>3. CASE queue = {} /\ ~eof
    <3>3. \A k \in VideoKeys : cursor < k => ~IsCut(k)
      BY <2>3 DEF SettledAt, Buffers
    <3>2. \A i \in Video :
            i \in f.queue <=>
              /\ cursor < i /\ i <= f.cursor
              /\ \A k \in VideoKeys :
                   cursor < k /\ k <= f.cursor /\ IsCut(k) => k <= i
      BY <1>2, <2>3 DEF Grown, Buffers
    <3>4. \A i \in Video : i \in f.queue <=> cursor < i /\ i <= f.cursor
      BY <3>2, <3>3
    <3>5. \A i \in Video : g < i <=> cursor < i
      <4> SUFFICES ASSUME NEW i \in Video PROVE g < i <=> cursor < i
        OBVIOUS
      <4>1. i \in Nat
        BY VideoNumbers
      <4>2. ~(g < i /\ i <= cursor)
        BY <1>5, <2>3
      <4> QED
        BY <1>3, <1>5, <4>1, <4>2
    <3> QED
      BY <3>4, <3>5
  <2> QED
    BY <2>1, <2>2, <2>3
<1>7. ASSUME NEW x \in Video, g < x, x < p PROVE FALSE
  <2>1. x \in Nat /\ p <= f.cursor
    BY <1>3, <1>4, VideoNumbers
  <2>2. x \in f.queue
    BY <1>3, <1>4, <1>6, <1>7, <2>1
  <2>3. p <= x
    BY <1>2, <1>4, <2>2
  <2> QED
    BY <1>4, <1>7, <2>1, <2>3
<1> QED
  BY <1>4, <1>6, <1>7 DEF p


(* At the end of the file nothing follows the packet read last.             *)
LEMMA DrainedRest ==
  ASSUME TypeInv, SettledAt(Buffers), NEW g \in Nat, RestOf(Buffers, g), Popped.packet = None
  PROVE  RestOf(Popped.buffers, g)
<1> SUFFICES ASSUME NoLateCut PROVE RestOf(Popped.buffers, g)
  BY DEF RestOf
<1>0. Good(Buffers) /\ seekTime \in Nat
  BY DEF TypeInv, TypeOK
<1>1. PICK f : /\ Grown(Buffers, f)
               /\ f.queue # {} => Popped.packet \in f.queue
               /\ queue # {} => f = Buffers
               /\ Popped.buffers.queue = f.queue \ {Popped.packet}
               /\ Popped.buffers.cursor = f.cursor
  BY <1>0, PoppedFacts
<1>2. f.queue \subseteq Video /\ f.cursor \in Nat /\ cursor \in Nat /\ cursor <= f.cursor
  <2>1. Good(f) /\ cursor <= f.cursor
    BY <1>1 DEF Grown, Buffers
  <2> QED
    BY <1>0, <2>1, FileFacts DEF Good, Numbers, Buffers
<1>3. f.queue = {} /\ queue = {}
  BY <1>1, <1>2, VideoNumbers DEF Buffers
<1>4. ASSUME NEW i \in Video, cursor < i, i <= f.cursor PROVE FALSE
  <2>1. ~eof
    <3>1. i \in Nat
      BY VideoNumbers
    <3>2. eof => f.cursor = cursor
      BY <1>1 DEF Grown, Buffers
    <3> QED
      BY <1>2, <1>4, <3>1, <3>2
  <2>2. \A k \in VideoKeys : cursor < k => ~IsCut(k)
    BY <2>1 DEF SettledAt, Buffers
  <2>3. i \in f.queue
    BY <1>1, <1>4, <2>2 DEF Grown, Buffers
  <2> QED
    BY <1>3, <2>3
<1>5. ASSUME NEW i \in Video, g < i, i <= f.cursor PROVE FALSE
  <2>1. i \in Nat
    BY VideoNumbers
  <2>2. ~(i <= cursor)
    BY <1>3, <1>5 DEF RestOf, Buffers
  <2> QED
    BY <1>2, <1>4, <1>5, <2>1, <2>2
<1>6. g <= cursor
  BY DEF RestOf, Buffers
<1> QED
  BY <1>1, <1>2, <1>3, <1>5, <1>6 DEF RestOf

LEMMA NewSettled ==
  ASSUME NEW f, Becomes(f), SettledAt(f), seekTime' = seekTime
  PROVE  SettledAt(Buffers)'
BY CutsStay DEF Becomes, Buffers, SettledAt

LEMMA LossInit == Init => LossInv
<1> SUFFICES ASSUME Init PROVE LossInv
  OBVIOUS
<1>1. queue = {} /\ seekTime = 0 /\ given = None /\ buffered = None /\ pc = "idle"
  BY DEF Init
<1> QED
  BY <1>1 DEF LossInv, Fresh

(* At time 0 only streams of MPEG-TS other than the best are refused.       *)
LEMMA StartIsFound ==
  ASSUME TypeInv, format # "unseekable", NEW s \in StreamIds, format # "mpegts" \/ s = Best
  PROVE  Landings(s, 0) # {}
<1>1. format \in Kinds /\ lastTs[s] \in 0 .. FileEnd \cup {Nopts, Absent}
  BY FileIsReadable DEF TypeInv, TypeOK
<1>2. Backward(s, 0) # {} /\ Backward(Best, 0) # {}
  BY DEF Backward
<1>3. lastTs[s] # Absent => ~Forward(s, 0)
  BY <1>1, FileFacts DEF Forward, Nopts, Absent
<1> HIDE DEF Nopts
<1>4. CASE lastTs[s] = Absent
  BY <1>4 DEF Landings
<1>5. CASE lastTs[s] # Absent
  BY <1>1, <1>2, <1>3, <1>5 DEF Landings, Kinds
<1> QED
  BY <1>4, <1>5

LEMMA LossNext ==
  ASSUME TypeInv, StampsIncrease, format # "unseekable", LossInv, [Next]_vars
  PROVE  LossInv'
<1> USE FileFacts
<1>1. /\ Good(Buffers) /\ seekTime \in Nat /\ pc \in Points /\ idx \in 0 .. Max(StreamIds) + 1
      /\ best \in StreamIds \cup {Nopts} /\ \A c \in Numbers : Good(EmptyAt(c))
      /\ cursor \in Numbers /\ format \in Kinds /\ time \in Nat
  BY BufferTypes DEF TypeInv, TypeOK
<1>2. CASE \E t \in Targets : RequestSeek(t)
  <2>1. given' = None /\ buffered' = None /\ pc' = "attempt"
    BY <1>2 DEF RequestSeek
  <2> QED
    BY <2>1 DEF LossInv
<1>3. CASE Attempt \/ BackOff
  <2>1. /\ pc # "idle" /\ pc' = "streams" /\ given' = given /\ format' = format
        /\ best' = Nopts /\ found' = Nopts /\ (time' = 0 => idx' = 0)
    BY <1>3 DEF Attempt, BackOff, Enter
  <2>2. ~(0 > Best)
    OBVIOUS
  <2>3. time' = 0 => TriedForStart'
    BY <2>1, <2>2 DEF TriedForStart, Nopts
  <2> QED
    BY <2>1, <2>3 DEF LossInv
<1>4. CASE SkipStream
  <2>1. /\ pc = "streams" /\ idx # Best /\ idx' = idx + 1
        /\ UNCHANGED <<pc, time, given, format, found, best, tried, queue, cursor, eof, lastTs, seekTime>>
    BY <1>4 DEF SkipStream
  <2>2. SettledAt(Buffers)' <=> SettledAt(Buffers)
    BY <2>1, CutsStay DEF SettledAt, Buffers
  <2>3. (idx + 1 <= Best => idx <= Best) /\ (idx + 1 > Best => idx > Best)
    BY <1>1, <2>1
  <2>4. ~(idx + 1 <= Best) => ~(idx <= Best)
    BY <1>1, <2>1
  <2>5. time = 0 => TriedForStart
    BY <2>1 DEF LossInv
  <2>6. time = 0 => TriedForStart'
    BY <2>1, <2>2, <2>3, <2>4, <2>5 DEF TriedForStart
  <2> QED
    BY <2>1, <2>6 DEF LossInv
<1>5. CASE StreamRefuses
  <2>1. /\ pc = "streams" /\ idx <= LastIdx /\ Seekable(idx) /\ Landings(idx, time) = {}
        /\ idx' = idx + 1 /\ tried' = idx /\ best' = FirstTried
        /\ UNCHANGED <<pc, time, given, format, found>>
    BY <1>5 DEF StreamRefuses
  <2>2. ASSUME time = 0 PROVE TriedForStart'
    <3>1. idx \in StreamIds
      BY <1>1, <2>1, <2>2 DEF LastIdx
    <3>2. format = "mpegts" /\ idx # Best
      BY <2>1, <2>2, <3>1, StartIsFound
    <3>3. TriedForStart
      BY <2>1, <2>2 DEF LossInv
    <3>4. CASE idx <= Best
      <4>1. idx + 1 <= Best /\ ~(idx + 1 > Best)
        BY <1>1, <3>1, <3>2, <3>4
      <4> QED
        BY <2>1, <3>2, <3>3, <3>4, <4>1 DEF TriedForStart
    <3>5. CASE ~(idx <= Best)
      <4>1. idx > Best /\ ~(idx + 1 <= Best)
        BY <1>1, <3>1, <3>5
      <4>2. best = Best /\ best # Nopts
        BY <3>2, <3>3, <4>1 DEF TriedForStart
      <4>3. best' = Best
        BY <2>1, <4>2 DEF FirstTried
      <4> QED
        BY <2>1, <3>2, <4>1, <4>2, <4>3 DEF TriedForStart
    <3> QED
      BY <3>4, <3>5
  <2> QED
    BY <2>1, <2>2 DEF LossInv
<1>6. CASE TryStream
  <2>1. PICK c \in Landings(idx, time) :
          /\ Becomes(Left(c)) /\ tried' = idx
          /\ best' = idx \/ best' = FirstTried
          /\ found = Nopts => best' = idx
          /\ pc' = "probe" \/ (pc' = "streams" /\ idx' = idx + 1)
    <3>1. pc = "streams"
      BY <1>6 DEF TryStream
    <3> QED
      BY <1>6, <3>1, TryStreamMoves DEF Better
  <2>2. /\ UNCHANGED <<format, seekTime, time, given>> /\ pc = "streams"
        /\ idx <= LastIdx /\ Seekable(idx)
    BY <1>6 DEF TryStream
  <2>3. SettledAt(Buffers)'
    <3>1. c \in Numbers
      BY <1>1, <2>1, LandingsType
    <3>2. Good(EmptyAt(c))
      BY <1>1, <3>1
    <3>3. SettledAt(Left(c))
      BY <1>1, <3>2, LeftSettles
    <3> QED
      BY <2>1, <2>2, <3>3, NewSettled
  <2>4. ASSUME time = 0, pc' = "streams" PROVE TriedForStart'
    <3>1. idx \in StreamIds /\ idx # Nopts
      BY <1>1, <2>2, <2>4 DEF LastIdx, Nopts
    <3>2. TriedForStart
      BY <2>2, <2>4 DEF LossInv
    <3>3. best' # Nopts
      BY <2>1, <3>1 DEF FirstTried
    <3>4. ASSUME format = "mpegts" PROVE idx = Best /\ best' = Best
      <4>1. idx = Best
        BY <2>1, <3>4 DEF Landings
      <4>2. found = Nopts
        BY <3>2, <3>4, <4>1 DEF TriedForStart
      <4> QED
        BY <2>1, <4>1, <4>2
    <3>5. idx' = idx + 1 /\ ~(Best + 1 <= Best)
      BY <2>1, <2>4
    <3> QED
      BY <2>2, <2>3, <3>3, <3>4, <3>5 DEF TriedForStart
  <2> QED
    BY <2>1, <2>2, <2>3, <2>4 DEF LossInv
<1>7. CASE TakeBest
  <2>1. pc = "streams" /\ idx > LastIdx /\ time = 0 /\ UNCHANGED <<format, seekTime, given>>
    BY <1>7 DEF TakeBest
  <2>2. idx > Best /\ ~(idx <= Best) /\ TriedForStart
    BY <1>1, <2>1 DEF LossInv, LastIdx
  <2>3. best # Nopts /\ (best = tried => SettledAt(Buffers))
        /\ (format = "mpegts" => best = Best)
    BY <2>2 DEF TriedForStart
  <2>4. CASE best = tried
    <3>1. pc' = "probe" /\ Becomes(Buffers)
      BY <1>7, <2>4 DEF TakeBest, Found, Becomes, Buffers
    <3>2. SettledAt(Buffers)'
      BY <2>1, <2>3, <2>4, <3>1, NewSettled
    <3> QED
      BY <2>1, <3>1, <3>2 DEF LossInv
  <2>5. CASE best # tried
    <3>1. best \in StreamIds
      BY <1>1, <2>3
    <3>2. Landings(best, 0) # {}
      BY <2>3, <3>1, StartIsFound
    <3>3. PICK c \in Landings(best, 0) : Becomes(Fill(EmptyAt(c), TRUE)) /\ pc' = "probe"
      BY <1>7, <2>5, <3>2 DEF TakeBest, Found
    <3>4. Good(EmptyAt(c))
      BY <1>1, LandingsType
    <3>5. SettledAt(Buffers)'
      BY <1>1, <2>1, <3>3, <3>4, RefilledSettles, NewSettled
    <3> QED
      BY <2>1, <3>3, <3>5 DEF LossInv
  <2> QED
    BY <2>4, <2>5
<1>8. CASE Probe
  <2>1. /\ pc = "probe" /\ Becomes(Popped.buffers) /\ buffered' = Popped.packet
        /\ pc' \in {"idle", "attempt", "probe"} /\ UNCHANGED <<format, seekTime, given>>
    BY <1>8 DEF Probe
  <2>2. SettledAt(Buffers)
    BY <2>1 DEF LossInv
  <2>3. /\ SettledAt(Popped.buffers)
        /\ Popped.packet # None => RestOf(Popped.buffers, Popped.packet)
    BY <2>2, PoppedSettles
  <2>4. SettledAt(Buffers)'
    BY <2>1, <2>3, NewSettled
  <2>5. buffered' # None => RestOf(Buffers, buffered)'
    BY <2>1, <2>3, CutsStay DEF RestOf, Becomes, Buffers
  <2>6. given = None
    BY <2>1 DEF LossInv
  <2> QED
    BY <2>1, <2>4, <2>5, <2>6 DEF LossInv
<1>9. CASE Read
  <2>1. pc = "idle" /\ pc' = "idle" /\ seekTime' = seekTime
    BY <1>9 DEF Read
  <2>2. CASE buffered # None
    <3>1. /\ given' = buffered /\ buffered' = None
          /\ UNCHANGED <<queue, cursor, eof, lastTs>>
      BY <1>9, <2>2 DEF Read
    <3>2. RestOf(Buffers, buffered) /\ SettledAt(Buffers)
      BY <2>1, <2>2 DEF LossInv, Fresh
    <3>3. RestOf(Buffers, given)' /\ SettledAt(Buffers)'
      BY <2>1, <3>1, <3>2, CutsStay DEF RestOf, SettledAt, Buffers
    <3> QED
      BY <2>1, <3>1, <3>3 DEF LossInv
  <2>3. CASE buffered = None
    <3>1. /\ Becomes(Popped.buffers) /\ buffered' = None
          /\ given' = IF Popped.packet = None THEN given ELSE Popped.packet
      BY <1>9, <2>3 DEF Read
    <3>2. SettledAt(Buffers) \/ Fresh
      BY <2>1 DEF LossInv
    <3>3. /\ SettledAt(Popped.buffers) /\ Good(Popped.buffers)
          /\ Popped.packet # None => RestOf(Popped.buffers, Popped.packet)
      BY <3>2, PoppedSettles
    <3>4. SettledAt(Buffers)'
      BY <2>1, <3>1, <3>3, NewSettled
    <3>5. given' # None => RestOf(Buffers, given)'
      <4>1. CASE Popped.packet # None
        BY <2>1, <3>1, <3>3, <4>1, CutsStay DEF RestOf, Becomes, Buffers
      <4>2. CASE Popped.packet = None /\ given # None
        <5>1. RestOf(Buffers, given)
          BY <4>2 DEF LossInv
        <5>3. SettledAt(Buffers)
          BY <3>2, <4>2 DEF Fresh
        <5>2. given \in Video /\ given \in Nat
          BY <4>2, VideoNumbers DEF TypeInv, TypeOK
        <5> QED
          <6>1. RestOf(Popped.buffers, given)
            BY <4>2, <5>1, <5>2, <5>3, DrainedRest
          <6> QED
            BY <2>1, <3>1, <4>2, <6>1, CutsStay DEF RestOf, Becomes, Buffers
      <4> QED
        BY <3>1, <4>1, <4>2
    <3> QED
      BY <2>1, <3>1, <3>4, <3>5 DEF LossInv
  <2> QED
    BY <2>2, <2>3
<1>10. CASE UNCHANGED vars
  <2>1. SettledAt(Buffers)' <=> SettledAt(Buffers)
    BY <1>10, CutsStay DEF SettledAt, Buffers
  <2>3. given # None => RestOf(Buffers, given)'
    BY <1>10, CutsStay DEF LossInv, RestOf, Buffers
  <2>4. pc = "idle" /\ buffered # None => RestOf(Buffers, buffered)'
    BY <1>10, CutsStay DEF LossInv, RestOf, Buffers
  <2>5. pc = "streams" /\ time = 0 => TriedForStart'
    BY <1>10, <2>1 DEF LossInv, TriedForStart
  <2>6. (pc = "idle" => SettledAt(Buffers) \/ Fresh') /\ (pc = "probe" => SettledAt(Buffers))
    BY <1>10 DEF LossInv, Fresh
  <2> QED
    BY <1>10, <2>1, <2>3, <2>4, <2>5, <2>6 DEF LossInv
<1> QED
  BY <1>2, <1>3, <1>4, <1>5, <1>6, <1>7, <1>8, <1>9, <1>10 DEF Next, SeekStep


SeekInv == TypeInv /\ (StampsIncrease /\ format # "unseekable" => LossInv)

LEMMA SeekInvNext == SeekInv /\ [Next]_vars => SeekInv'
<1> SUFFICES ASSUME SeekInv, [Next]_vars PROVE SeekInv'
  OBVIOUS
<1>1. format' = format
  BY DEF Next, SeekStep, RequestSeek, Attempt, SkipStream, StreamRefuses, TryStream, TakeBest,
         BackOff, Probe, Read
<1>2. TypeInv'
  BY NextType DEF SeekInv
<1>3. StampsIncrease /\ format # "unseekable" => LossInv'
  BY LossNext DEF SeekInv
<1> QED
  BY <1>1, <1>2, <1>3 DEF SeekInv, StampsIncrease

LEMMA ReadsNext ==
  ASSUME SeekInv, [Next]_vars
  PROVE  given # None /\ given' \notin {None, given} /\ StampsIncrease /\ NoLateCut
           /\ format # "unseekable"
           => Rank(given') = Rank(given) + 1
<1> SUFFICES ASSUME given # None, given' # None, given' # given, StampsIncrease,
                    NoLateCut, format # "unseekable"
             PROVE  Rank(given') = Rank(given) + 1
  OBVIOUS
<1>1. TypeInv /\ LossInv
  BY DEF SeekInv
<1>2. RestOf(Buffers, given) /\ pc = "idle" /\ buffered = None /\ SettledAt(Buffers)
  BY <1>1 DEF LossInv, Fresh
<1>3. given \in Video
  BY <1>1 DEF TypeInv, TypeOK
<1>4. Read
  BY <1>2 DEF Next, SeekStep, RequestSeek, Attempt, SkipStream, StreamRefuses, TryStream,
              TakeBest, BackOff, Probe
<1>5. Popped.packet # None /\ given' = Popped.packet
  BY <1>2, <1>4 DEF Read
<1>6. PICK p : p = Popped.packet
  OBVIOUS
<1>7. PICK g : g = given
  OBVIOUS
<1>8. /\ p \in Video /\ g \in Video /\ g < p /\ \A x \in Video : ~(g < x /\ x < p)
  BY <1>1, <1>2, <1>3, <1>5, <1>6, <1>7, PoppedFollows
<1>9. Cardinality(UpTo(Video, p)) = Cardinality(UpTo(Video, g)) + 1
  <2>1. Video \in SUBSET (1 .. Last1) /\ Last1 \in Nat
    BY FileFacts
  <2>2. g \in Int
    BY <1>8, VideoNumbers
  <2> QED
    BY <1>8, <2>1, <2>2, NextCounts
<1> QED
  BY <1>5, <1>6, <1>7, <1>9 DEF Rank, UpTo

(* DemuxedStream::read over DemuxerQueue, for every file whose time stamps  *)
(* increase: after a seek no packet of the stream is lost or repeated, as   *)
(* long as no key packet of unknown duration comes before one at which      *)
(* read_packets_from_parser cuts the queue (demuxer_queue.cpp:280, 284).    *)
THEOREM NothingIsLost == Spec => NoPacketIsLost
<1>1. Init => SeekInv
  BY TypeInvInit, LossInit DEF SeekInv
<1>2. SeekInv /\ [Next]_vars
        => [given # None /\ given' \notin {None, given} /\ StampsIncrease /\ NoLateCut
              /\ format # "unseekable" => Rank(given') = Rank(given) + 1]_vars
  BY ReadsNext
<1> QED
  BY <1>1, <1>2, SeekInvNext, PTL DEF Spec, NoPacketIsLost

----------------------------------------------------------------------------
(* The result of a seek.  A seek that has backed off to the start of the    *)
(* file gives up: then the first key packet still to come must tell the     *)
(* truth about all of the file.                                             *)

(* No key packet was passed by, unless one at or before it, or not past the *)
(* time of the seek, is still to come.                                      *)
KeyAhead(f) ==
  \A k \in VideoKeys : \E j \in VideoKeys :
    /\ File[j].ts <= File[k].ts \/ File[j].ts <= seekTime
    /\ j \in f.queue \/ f.cursor < j

(* A queue that begins no later than this passes no key packet by.          *)
Witnessed(g) ==
  \A k \in VideoKeys : \E j \in VideoKeys :
    /\ File[j].ts <= File[k].ts \/ File[j].ts <= seekTime
    /\ g <= File[j].ts

(* At time 0 the best stream is the first to be tried; a stream tried later *)
(* is better only if it was left no later in the file.                      *)
TriedInOrder ==
  /\ best < idx
  /\ idx <= Best => found = Nopts /\ best = Nopts
  /\ idx > Best =>
       /\ lastTs[Best] # Absent \/ Video = {}
       /\ found = Nopts => VideoKeys = {}
       /\ found # Nopts => Witnessed(found) /\ \E i \in Video : i <= cursor /\ File[i].ts = found
       /\ best = tried => KeyAhead(Buffers)
       /\ VideoKeys # {} /\ best # Best =>
            /\ lastTs[best] # Absent
            /\ format = "timed" => \A c \in Backward(best, 0) : KeyAhead(EmptyAt(c))

ResultInv ==
  /\ lastTs[Best] = Absent => \A i \in Video : cursor < i
  /\ result => VideoKeys # {}
  /\ pc = "attempt" => pos <= wanted
  /\ pc = "streams" => time <= seekTime /\ seekTime <= wanted /\ (time > 0 => idx >= Best)
  /\ pc = "streams" /\ time = 0 => TriedInOrder
  /\ pc = "probe" => pos <= wanted /\ seekTime <= wanted /\ (pos = 0 => KeyAhead(Buffers))

LEMMA AheadGrows ==
  ASSUME NEW f, NEW g, Good(f), Grown(f, g), KeyAhead(f)
  PROVE  KeyAhead(g)
<1> SUFFICES ASSUME NEW k \in VideoKeys
             PROVE  \E j \in VideoKeys : /\ File[j].ts <= File[k].ts \/ File[j].ts <= seekTime
                                         /\ j \in g.queue \/ g.cursor < j
  BY DEF KeyAhead
<1>1. PICK j \in VideoKeys : /\ File[j].ts <= File[k].ts \/ File[j].ts <= seekTime
                             /\ j \in f.queue \/ f.cursor < j
  BY DEF KeyAhead
<1>2. /\ f.cursor \in Nat /\ g.cursor \in Nat /\ f.cursor <= g.cursor
      /\ \A i \in VideoKeys : i \in Video /\ i \in Nat
  <2>1. \A i \in VideoKeys : i \in Video /\ i \in Nat
    BY FileFacts, VideoNumbers
  <2>2. Good(g) /\ f.cursor <= g.cursor
    BY DEF Grown
  <2> QED
    BY <2>1, <2>2, FileFacts DEF Good, Numbers
<1> DEFINE S == {i \in VideoKeys : f.cursor < i /\ i <= g.cursor /\ IsCut(i)}
<1>3. CASE g.cursor < j
  BY <1>1, <1>3
<1>4. CASE ~(g.cursor < j) /\ S = {}
  <2>1. j <= g.cursor
    BY <1>2, <1>4
  <2>2. \A i \in VideoKeys : ~(f.cursor < i /\ i <= g.cursor /\ IsCut(i))
    BY <1>4
  <2>3. j \in g.queue
    BY <1>1, <1>2, <2>1, <2>2 DEF Grown
  <2> QED
    BY <1>1, <2>3
<1>5. CASE S # {}
  <2>1. S \in SUBSET (0 .. g.cursor)
    BY <1>2
  <2> HIDE DEF S
  <2>2. Max(S) \in S /\ \A i \in S : i <= Max(S)
    BY <1>2, <1>5, <2>1, GreatestOf
  <2> DEFINE m == Max(S)
  <2> HIDE DEF m
  <2>3. m \in VideoKeys /\ f.cursor < m /\ m <= g.cursor /\ IsCut(m)
    BY <2>2 DEF S, m
  <2>4. \A i \in VideoKeys :
          f.cursor < i /\ i <= g.cursor /\ IsCut(i) => i <= m
    BY <2>2 DEF S, m
  <2>5. m \in g.queue
    BY <1>2, <2>3, <2>4 DEF Grown
  <2> QED
    BY <2>3, <2>5 DEF IsCut
<1> QED
  BY <1>3, <1>4, <1>5

BeforeKeys(c) == \A k \in VideoKeys : c < k

LEMMA AheadFromStart ==
  ASSUME NEW c, BeforeKeys(c)
  PROVE  KeyAhead(EmptyAt(c))
<1>1. \A k \in VideoKeys : File[k].ts <= File[k].ts
  BY FileFacts, VideoNumbers
<1> QED
  BY <1>1 DEF KeyAhead, EmptyAt, BeforeKeys

(* What is left of it when the queue has been filled.                       *)
LEMMA FilledAhead ==
  ASSUME NEW c, Good(EmptyAt(c)), KeyAhead(EmptyAt(c))
  PROVE  KeyAhead(Left(c)) /\ KeyAhead(Fill(EmptyAt(c), TRUE))
<1>1. /\ Grown(EmptyAt(c), Quick(c)) /\ Good(Quick(c))
      /\ Grown(EmptyAt(c), Fill(EmptyAt(c), TRUE))
  BY FillGrows DEF Quick, Grown
<1>2. Grown(Quick(c), Fill(Quick(c), TRUE))
  BY <1>1, FillGrows
<1>3. KeyAhead(Quick(c)) /\ KeyAhead(Fill(EmptyAt(c), TRUE))
  BY <1>1, AheadGrows
<1> QED
  BY <1>1, <1>2, <1>3, AheadGrows DEF Left

LEMMA KeysOfBest == KeysOf(Best) = VideoKeys
BY DEF KeysOf, VideoKeys, Video

LEMMA BestBackward ==
  ASSUME StampsIncrease, NEW c \in Backward(Best, 0)
  PROVE  BeforeKeys(c)
<1> DEFINE S == AtOrBefore(Best, 0)
<1>1. /\ S \in SUBSET (0 .. Last1) /\ Last1 \in Nat
  BY KeysOfType, FileFacts
<1>2. \A k : k \in S <=> k \in VideoKeys /\ File[k].ts <= 0
  BY KeysOfBest DEF AtOrBefore
<1>3. \A k \in VideoKeys : k \in Video /\ k \in Nat /\ 0 < k /\ File[k].ts \in Nat
  BY FileFacts, VideoNumbers DEF None
<1>4. CASE S = {}
  <2>1. c = 0
    BY <1>4 DEF Backward
  <2> QED
    BY <1>3, <2>1 DEF BeforeKeys
<1>5. CASE S # {}
  <2>1. c = Max(S) - 1
    BY <1>5 DEF Backward
  <2> HIDE DEF S
  <2>2. Max(S) \in S
    BY <1>1, <1>5, GreatestOf
  <2> DEFINE m == Max(S)
  <2> HIDE DEF m
  <2>3. m \in VideoKeys /\ File[m].ts <= 0 /\ c = m - 1
    BY <1>2, <2>1, <2>2 DEF m
  <2>4. ASSUME NEW k \in VideoKeys PROVE c < k
    <3>1. ~(k < m)
      <4>1. k < m => File[k].ts < File[m].ts
        BY <1>3, <2>3 DEF StampsIncrease
      <4> QED
        BY <1>3, <2>3, <4>1
    <3> QED
      BY <1>3, <2>3, <3>1
  <2> QED
    BY <2>4 DEF BeforeKeys
<1> QED
  BY <1>4, <1>5

LEMMA BestOnward ==
  ASSUME NEW c \in Onward(Best, 0)
  PROVE  BeforeKeys(c)
<1> DEFINE S == AtOrAfter(Best, 0)
<1>1. \A k \in VideoKeys : k \in Nat /\ File[k].ts >= 0
  BY FileFacts, VideoNumbers
<1>2. S = VideoKeys
  BY <1>1, KeysOfBest DEF AtOrAfter
<1>3. S # {} /\ c = Min(S) - 1 /\ S \in SUBSET Nat
  BY KeysOfType DEF Onward
<1> HIDE DEF S
<1>4. Min(S) \in S /\ \A k \in S : Min(S) <= k
  BY <1>3, MinIsLeast
<1> DEFINE m == Min(S)
<1> HIDE DEF m
<1>5. /\ m \in VideoKeys /\ c = m - 1 /\ \A k \in VideoKeys : m <= k
  BY <1>2, <1>3, <1>4 DEF m
<1> QED
  BY <1>1, <1>5 DEF BeforeKeys

(* Where a seek of stream s to 0 lands.                                     *)
LEMMA StartLandings ==
  ASSUME TypeInv, StampsIncrease, format # "unseekable", NEW s \in StreamIds,
         lastTs[s] # Absent, NEW c \in Landings(s, 0)
  PROVE  /\ format = "timed" => c \in Backward(s, 0)
         /\ format # "timed" => BeforeKeys(c)
<1>1. format \in Kinds /\ lastTs[s] \in 0 .. FileEnd \cup {Nopts, Absent}
  BY FileIsReadable DEF TypeInv, TypeOK
<1>2. ~Forward(s, 0)
  BY <1>1, FileFacts DEF Forward, Nopts, Absent
<1>3. BeforeKeys(0)
  <2>1. \A k \in VideoKeys : 0 < k
    BY FileFacts, VideoNumbers DEF None
  <2> QED
    BY <2>1 DEF BeforeKeys
<1>4. CASE format \in {"bytes", "mpegts", "rewind"}
  <2>1. c = 0
    BY <1>2, <1>4 DEF Landings
  <2> QED
    BY <1>3, <1>4, <2>1
<1>5. CASE format = "quicktime"
  <2>1. c \in Backward(Best, 0) \cup Onward(Best, 0)
    BY <1>5 DEF Landings
  <2> QED
    BY <1>5, <2>1, BestBackward, BestOnward
<1>6. CASE format = "timed"
  BY <1>2, <1>6 DEF Landings
<1> QED
  BY <1>1, <1>4, <1>5, <1>6 DEF Kinds

LEMMA BestLandings ==
  ASSUME TypeInv, StampsIncrease, format # "unseekable",
         lastTs[Best] = Absent => \A i \in Video : cursor < i,
         NEW c \in Landings(Best, 0)
  PROVE  BeforeKeys(c)
<1>1. CASE lastTs[Best] = Absent
  <2>1. c = cursor
    BY <1>1 DEF Landings
  <2> QED
    BY <1>1, <2>1, FileFacts DEF BeforeKeys
<1>2. CASE lastTs[Best] # Absent
  BY <1>2, FileFacts, StartLandings, BestBackward
<1> QED
  BY <1>1, <1>2
(* What a stream tried leaves behind lies after the place it was sought to. *)
LEMMA LeftLies ==
  ASSUME NEW c, Good(EmptyAt(c)), seekTime \in Nat
  PROVE  /\ Good(Left(c)) /\ c <= Left(c).cursor
         /\ \A i \in Left(c).queue : c < i
         /\ Left(c).eof \/ Left(c).queue # {}
         /\ \A s \in StreamIds : Left(c).seen[s] = Absent => lastTs[s] = Absent
         /\ Left(c).seen[Best] = Absent => \A i \in Video : c < i => Left(c).cursor < i
<1> DEFINE e == EmptyAt(c)
           q == Quick(c)
           f == Left(c)
<1>1. /\ Grown(e, q) /\ Good(q) /\ (q.eof \/ q.queue # {})
      /\ \/ f = q
         \/ Grown(q, f) /\ (f.eof \/ f.queue # {})
  BY FillGrows DEF Quick, Left, Grown, Full
<1>2. e.queue = {} /\ e.cursor = c /\ e.seen = lastTs
  BY DEF EmptyAt
<1>3. Good(f)
  BY <1>1 DEF Grown
<1> HIDE DEF e, q, f
<1>4. /\ c \in Nat /\ q.cursor \in Nat /\ f.cursor \in Nat /\ q.queue \subseteq Video
      /\ f.queue \subseteq Video /\ c <= q.cursor
      /\ \A i \in Video : i \in Nat /\ i \in Packets /\ File[i].stream = Best
  <2>1. c \in Nat /\ q.cursor \in Nat /\ f.cursor \in Nat
    BY <1>1, <1>2, <1>3, FileFacts DEF Good, Numbers, e
  <2>2. q.queue \subseteq Video /\ f.queue \subseteq Video
    BY <1>1, <1>3 DEF Good
  <2> QED
    BY <1>1, <1>2, <2>1, <2>2, VideoNumbers DEF Grown, Video
<1>5. q.cursor <= f.cursor
  BY <1>1, <1>4 DEF Grown
<1>6. \A i \in q.queue : c < i
  BY <1>1, <1>2, <1>4 DEF Grown
<1>7. \A i \in f.queue : c < i
  <2>1. CASE f = q
    BY <1>6, <2>1
  <2>2. CASE Grown(q, f)
    <3> SUFFICES ASSUME NEW i \in f.queue PROVE c < i
      OBVIOUS
    <3>1. i \in q.queue \/ q.cursor < i
      BY <1>4, <2>2 DEF Grown
    <3> QED
      BY <1>4, <1>6, <3>1
  <2> QED
    BY <1>1, <2>1, <2>2
<1>8. ASSUME NEW s \in StreamIds, f.seen[s] = Absent
      PROVE  /\ q.seen[s] = Absent /\ lastTs[s] = Absent
             /\ \A i \in Packets : c < i /\ i <= q.cursor => File[i].stream # s
             /\ \A i \in Packets : q.cursor < i /\ i <= f.cursor => File[i].stream # s
  <2>1. q.seen[s] = Absent
    BY <1>1, <1>8 DEF Grown
  <2>2. /\ lastTs[s] = Absent
        /\ \A i \in Packets : c < i /\ i <= q.cursor => File[i].stream # s
    BY <1>1, <1>2, <2>1 DEF Grown
  <2>3. \A i \in Packets : q.cursor < i /\ i <= f.cursor => File[i].stream # s
    <3>1. CASE f = q
      <4>1. \A i \in Packets : ~(q.cursor < i /\ i <= q.cursor)
        BY <1>4, FileFacts
      <4> QED
        BY <3>1, <4>1
    <3>2. CASE Grown(q, f)
      BY <1>8, <3>2 DEF Grown
    <3> QED
      BY <1>1, <3>1, <3>2
  <2> QED
    BY <2>1, <2>2, <2>3
<1>9. ASSUME f.seen[Best] = Absent, NEW i \in Video, c < i PROVE f.cursor < i
  <2>1. ~(i <= q.cursor) /\ ~(q.cursor < i /\ i <= f.cursor)
    BY <1>4, <1>8, <1>9, FileFacts
  <2> QED
    BY <1>4, <2>1
<1>10. c <= f.cursor
  BY <1>4, <1>5
<1>11. f.eof \/ f.queue # {}
  BY <1>1
<1> QED
  BY <1>3, <1>7, <1>8, <1>9, <1>10, <1>11 DEF f

LEMMA BetterAhead ==
  ASSUME StampsIncrease, NEW f, Good(f), f.queue # {}, NEW g \in Nat, Witnessed(g),
         Position(f.queue) <= g
  PROVE  /\ KeyAhead(f) /\ Witnessed(Position(f.queue))
         /\ \A c \in Nat : (\A i \in f.queue : c < i) => KeyAhead(EmptyAt(c))
<1> DEFINE m == Min(f.queue)
<1>1. m \in f.queue /\ m \in Video /\ f.queue \in SUBSET Video /\ f.cursor \in Nat
  BY LeastOfQueue, FileFacts DEF Good, Numbers
<1>2. Position(f.queue) = File[m].ts
  BY DEF Position
<1> HIDE DEF m
<1>3. m \in Nat /\ File[m].ts \in Nat /\ File[m].ts <= g
  BY <1>1, <1>2, VideoNumbers
<1>4. ASSUME NEW j \in VideoKeys, g <= File[j].ts
      PROVE  /\ m <= j /\ j \in Nat /\ File[m].ts <= File[j].ts
             /\ j \in f.queue \/ f.cursor < j
  <2>1. j \in Video /\ j \in Nat /\ File[j].ts \in Nat
    BY FileFacts, VideoNumbers
  <2>2. File[m].ts <= File[j].ts
    BY <1>3, <1>4, <2>1
  <2>3. ~(j < m)
    <3>1. j < m => File[j].ts < File[m].ts
      BY <1>1, <2>1 DEF StampsIncrease
    <3> QED
      BY <1>3, <2>1, <2>2, <3>1
  <2>4. m <= j
    BY <1>3, <2>1, <2>3
  <2>5. j \in f.queue \/ f.cursor < j
    <3>1. CASE m = j
      BY <1>1, <3>1
    <3>2. CASE m # j /\ j <= f.cursor
      <4>1. m < j
        BY <1>3, <2>1, <2>4, <3>2
      <4> QED
        BY <1>1, <2>1, <3>2, <4>1 DEF Good
    <3> QED
      BY <1>1, <2>1, <3>1, <3>2
  <2> QED
    BY <2>1, <2>2, <2>4, <2>5
<1>5. KeyAhead(f)
  BY <1>4 DEF KeyAhead, Witnessed
<1>6. Witnessed(Position(f.queue))
  BY <1>2, <1>4 DEF Witnessed
<1>7. ASSUME NEW c \in Nat, \A i \in f.queue : c < i PROVE KeyAhead(EmptyAt(c))
  <2>1. c < m
    BY <1>1, <1>7
  <2>2. \A j \in VideoKeys : g <= File[j].ts => c < j
    BY <1>3, <1>4, <2>1
  <2>3. \A k \in VideoKeys : \E j \in VideoKeys :
          (File[j].ts <= File[k].ts \/ File[j].ts <= seekTime) /\ c < j
    BY <2>2 DEF Witnessed
  <2> QED
    BY <2>3 DEF KeyAhead, EmptyAt
<1> QED
  BY <1>5, <1>6, <1>7

(* A place found, and the queue that begins there.                          *)
LEMMA FoundAhead ==
  ASSUME NEW f, Good(f), KeyAhead(f), f.eof \/ f.queue # {}
  PROVE  /\ f.queue = {} => VideoKeys = {}
         /\ f.queue # {} => Witnessed(Position(f.queue))
<1>1. ASSUME f.queue = {} PROVE VideoKeys = {}
  <2>1. f.cursor = Last1 /\ Last1 \in Nat
    BY <1>1, FileFacts DEF Good
  <2>2. \A j \in VideoKeys : j \in Nat /\ j <= Last1
    BY FileFacts, VideoNumbers
  <2>3. \A j \in VideoKeys : ~(j \in f.queue \/ f.cursor < j)
    BY <1>1, <2>1, <2>2
  <2> QED
    BY <2>3 DEF KeyAhead
<1>2. ASSUME f.queue # {} PROVE Witnessed(Position(f.queue))
  <2> DEFINE m == Min(f.queue)
  <2>1. m \in f.queue /\ m \in Video /\ f.queue \in SUBSET Video /\ f.cursor \in Nat
        /\ m <= f.cursor /\ \A i \in f.queue : m <= i
    <3>1. /\ f.queue \in SUBSET Video /\ f.cursor \in Nat /\ \A i \in f.queue : i <= f.cursor
      BY FileFacts DEF Good, Numbers
    <3> QED
      BY <1>2, <3>1, LeastOfQueue
  <2>2. Position(f.queue) = File[m].ts
    BY <1>2 DEF Position
  <2> HIDE DEF m
  <2>3. m \in Nat /\ m \in Packets
    BY <2>1, VideoNumbers
  <2>4. ASSUME NEW j \in VideoKeys, j \in f.queue \/ f.cursor < j
        PROVE  File[m].ts <= File[j].ts
    <3>1. j \in Nat /\ j \in Packets
      BY FileFacts, VideoNumbers
    <3>2. m <= j
      BY <2>1, <2>3, <2>4, <3>1
    <3> QED
      BY <2>3, <3>1, <3>2, FileFacts
  <2> QED
    BY <2>2, <2>4 DEF KeyAhead, Witnessed
<1> QED
  BY <1>1, <1>2

LEMMA OneBackward ==
  ASSUME NEW s, NEW t, NEW c \in Backward(s, t), NEW d \in Backward(s, t)
  PROVE  c = d
BY DEF Backward
LEMMA ResultInit == Init => ResultInv
<1> SUFFICES ASSUME Init PROVE ResultInv
  OBVIOUS
<1>1. PICK read \in 0 .. Len(File) :
        /\ lastTs = Opened(read)
        /\ cursor = IF format = "unseekable" \/ lastTs[Best] = Absent THEN read ELSE 0
  BY DEF Init
<1> DEFINE first == [s \in StreamIds |-> IF s = Max(StreamIds) THEN Nopts ELSE Absent]
<1>2. first \in Seen /\ read \in Numbers /\ 0 \in Numbers
  BY FileFacts DEF Seen, Numbers, Last1
<1>3. lastTs = TsAfter(first, 0, read)
  BY <1>1 DEF Opened
<1> HIDE DEF first
<1>4. ASSUME lastTs[Best] = Absent, NEW i \in Video PROVE cursor < i
  <2>1. cursor = read /\ Best \in StreamIds /\ read \in Nat
    BY <1>1, <1>2, <1>4, FileFacts DEF Numbers
  <2>2. TsAfter(first, 0, read)[Best] = Absent
    BY <1>3, <1>4
  <2>3. \A j \in Packets : 0 < j /\ j <= read => File[j].stream # Best
    BY <1>2, <2>1, <2>2, TsAfterAbsent
  <2>4. i \in Packets /\ i \in Nat /\ 0 < i /\ File[i].stream = Best
    BY VideoNumbers DEF None, Video
  <2> QED
    BY <2>1, <2>3, <2>4
<1>5. result = FALSE /\ pc = "idle"
  BY DEF Init
<1> QED
  BY <1>4, <1>5 DEF ResultInv

(* One stream tried for time 0.                                             *)
LEMMA StartTried ==
  ASSUME TypeInv, StampsIncrease, VideoFirst, format # "unseekable", TriedForStart, TriedInOrder,
         lastTs[Best] = Absent => \A i \in Video : cursor < i,
         idx \in StreamIds, Seekable(idx), NEW c \in Landings(idx, 0), Good(EmptyAt(c))
  PROVE  LET f == Left(c)
             place == Position(f.queue)
         IN  /\ f.seen[Best] # Absent \/ Video = {}
             /\ Better(place) =>
                  /\ KeyAhead(f)
                  /\ place = Nopts => VideoKeys = {}
                  /\ place # Nopts => /\ Witnessed(place)
                                      /\ \E i \in Video : i <= f.cursor /\ File[i].ts = place
                  /\ VideoKeys # {} /\ idx # Best =>
                       /\ f.seen[idx] # Absent
                       /\ format = "timed" => \A d \in Backward(idx, 0) : KeyAhead(EmptyAt(d))
             /\ ~Better(place) =>
                  /\ idx > Best
                  /\ \E i \in Video : i <= f.cursor /\ File[i].ts = found
<1> DEFINE f == Left(c)
           place == Position(f.queue)
<1>1. /\ seekTime \in Nat /\ cursor \in Nat /\ idx \in Nat /\ idx >= Best /\ Best \in StreamIds
      /\ found \in 0 .. FileEnd \cup {Nopts} /\ Best \in Nat
  BY FileFacts, BufferTypes DEF TypeInv, TypeOK, VideoFirst, Numbers
<1>2. /\ Good(f) /\ c <= f.cursor
      /\ \A i \in f.queue : c < i
      /\ f.eof \/ f.queue # {}
      /\ \A s \in StreamIds : f.seen[s] = Absent => lastTs[s] = Absent
      /\ f.seen[Best] = Absent => \A i \in Video : c < i => f.cursor < i
  BY <1>1, LeftLies
<1>3. /\ f.queue \in SUBSET Video /\ f.cursor \in Nat /\ c \in Nat
      /\ f.eof => f.cursor = Last1
      /\ \A i \in f.queue : i <= f.cursor
      /\ \A i \in Video : i \in Nat /\ i <= Last1 /\ i \in Packets /\ File[i].ts \in Nat
  <2>1. c \in Nat
    BY FileFacts DEF Good, EmptyAt, Numbers
  <2>2. f.cursor \in Nat
    BY <1>2, FileFacts DEF Good, Numbers
  <2>3. \A i \in Video : i \in Nat /\ i <= Last1 /\ i \in Packets /\ File[i].ts \in Nat
    BY FileFacts, VideoNumbers
  <2> QED
    BY <1>2, <2>1, <2>2, <2>3 DEF Good
<1>4. f.queue = {} => place = Nopts
  BY DEF Position
<1>5. ASSUME f.queue # {}
      PROVE  /\ place \in Nat /\ place # Nopts
             /\ \E i \in f.queue : i \in Video /\ i <= f.cursor /\ File[i].ts = place
  <2>1. Min(f.queue) \in f.queue /\ Min(f.queue) \in Video
    BY <1>3, <1>5, LeastOfQueue
  <2>2. place = File[Min(f.queue)].ts
    BY <1>5 DEF Position
  <2> QED
    BY <1>3, <2>1, <2>2 DEF Nopts
<1> HIDE DEF f, place
<1>6. CASE idx = Best
  <2>1. BeforeKeys(c)
    BY <1>6, BestLandings
  <2>2. KeyAhead(f)
    BY <2>1, AheadFromStart, FilledAhead DEF f
  <2>3. /\ f.queue = {} => VideoKeys = {}
        /\ f.queue # {} => Witnessed(place)
    BY <1>2, <2>2, FoundAhead DEF place
  <2>4. found = Nopts
    BY <1>1, <1>6 DEF TriedInOrder
  <2>5. f.seen[Best] # Absent \/ Video = {}
    <3> SUFFICES ASSUME f.seen[Best] = Absent, NEW i \in Video PROVE FALSE
      OBVIOUS
    <3>1. lastTs[Best] = Absent
      BY <1>1, <1>2
    <3>2. c = cursor
      BY <1>6, <3>1 DEF Landings
    <3>3. \A j \in Video : f.cursor < j
      BY <1>2, <3>1, <3>2
    <3>4. f.queue = {}
      BY <1>3, <3>3
    <3>5. f.cursor = Last1
      BY <1>2, <1>3, <3>4
    <3> QED
      BY <1>3, <3>3, <3>5
  <2> QED
    BY <1>4, <1>5, <1>6, <2>2, <2>3, <2>4, <2>5 DEF Better, f, place
<1>7. CASE idx # Best
  <2>1. idx > Best
    BY <1>1, <1>7
  <2>2. /\ lastTs[Best] # Absent \/ Video = {}
        /\ found = Nopts => VideoKeys = {}
        /\ found # Nopts => Witnessed(found) /\ \E i \in Video : i <= cursor /\ File[i].ts = found
    BY <2>1 DEF TriedInOrder
  <2>3. f.seen[Best] # Absent \/ Video = {}
    BY <1>1, <1>2, <2>2
  <2>4. CASE found = Nopts
    <3>1. KeyAhead(f) /\ (place # Nopts => Witnessed(place)) /\ VideoKeys = {}
      BY <2>2, <2>4 DEF KeyAhead, Witnessed
    <3> QED
      BY <1>4, <1>5, <2>3, <2>4, <3>1 DEF Better, f, place
  <2>5. CASE found # Nopts /\ place # Nopts /\ place <= found
    <3>1. f.queue # {} /\ found \in Nat /\ Witnessed(found)
      BY <1>1, <1>4, <2>2, <2>5, FileFacts
    <3>2. /\ KeyAhead(f) /\ Witnessed(place)
          /\ \A d \in Nat : (\A i \in f.queue : d < i) => KeyAhead(EmptyAt(d))
      BY <1>2, <2>5, <3>1, BetterAhead DEF place
    <3>3. KeyAhead(EmptyAt(c))
      BY <1>2, <1>3, <3>2
    <3>4. lastTs[idx] # Absent
      <4> SUFFICES ASSUME lastTs[idx] = Absent PROVE FALSE
        OBVIOUS
      <4>1. format # "mpegts" /\ c = cursor
        BY <1>7 DEF Landings
      <4>2. PICK i \in Video : i <= cursor /\ File[i].ts = found
        BY <2>2, <2>5
      <4>3. PICK m \in f.queue : m \in Video /\ File[m].ts = place
        BY <1>5, <3>1
      <4>4. i < m
        BY <1>1, <1>2, <1>3, <4>1, <4>2, <4>3
      <4>5. File[i].ts < File[m].ts
        BY <4>2, <4>3, <4>4 DEF StampsIncrease
      <4> QED
        BY <1>3, <2>5, <4>2, <4>3, <4>5
    <3>5. f.seen[idx] # Absent
      BY <1>2, <3>4
    <3>6. format = "timed" => \A d \in Backward(idx, 0) : KeyAhead(EmptyAt(d))
      <4> SUFFICES ASSUME format = "timed", NEW d \in Backward(idx, 0)
                   PROVE  KeyAhead(EmptyAt(d))
        OBVIOUS
      <4>1. c \in Backward(idx, 0)
        BY <3>4, StartLandings
      <4>2. d = c
        BY <4>1, OneBackward
      <4> QED
        BY <3>3, <4>2
    <3> QED
      BY <1>5, <2>3, <2>5, <3>1, <3>2, <3>5, <3>6 DEF Better, f, place
  <2>6. CASE found # Nopts /\ ~(place # Nopts /\ place <= found)
    <3>1. PICK i \in Video : i <= cursor /\ File[i].ts = found
      BY <2>2, <2>6
    <3>2. i <= f.cursor
      <4>1. CASE f.queue = {}
        BY <1>2, <1>3, <4>1
      <4>2. CASE f.queue # {}
        <5>1. PICK m \in f.queue : m \in Video /\ m <= f.cursor /\ File[m].ts = place
          BY <1>5, <4>2
        <5>2. ~(place <= found) /\ place \in Nat
          BY <1>5, <2>6, <4>2
        <5>3. m <= i => File[m].ts <= File[i].ts
          BY <1>3, <5>1, FileFacts
        <5>4. ~(m <= i)
          BY <3>1, <5>1, <5>2, <5>3
        <5> QED
          BY <1>3, <5>1, <5>4
      <4> QED
        BY <4>1, <4>2
    <3> QED
      BY <2>1, <2>3, <2>6, <3>1, <3>2 DEF Better, f, place
  <2> QED
    BY <2>4, <2>5, <2>6
<1> QED
  BY <1>6, <1>7


(* ResultInv is kept while reading: by Probe and Read.                      *)
LEMMA PoppedAhead ==
  ASSUME TypeInv, KeyAhead(Buffers), ~(Popped.packet # None /\ File[Popped.packet].key)
  PROVE  KeyAhead(Popped.buffers)
<1>1. Good(Buffers)
  BY DEF TypeInv
<1>2. PICK f : /\ Grown(Buffers, f)
               /\ f.queue = {} => Popped.packet = None
               /\ Popped.buffers.queue = f.queue \ {Popped.packet}
               /\ Popped.buffers.cursor = f.cursor
  BY <1>1, PoppedFacts
<1>3. KeyAhead(f)
  BY <1>1, <1>2, AheadGrows
<1>4. \A j \in VideoKeys : j # Popped.packet
  BY VideoNumbers, FileFacts DEF VideoKeys
<1> QED
  BY <1>2, <1>3, <1>4 DEF KeyAhead

LEMMA AbsentPopped ==
  ASSUME TypeInv, lastTs[Best] = Absent => \A i \in Video : cursor < i
  PROVE  Popped.buffers.seen[Best] = Absent => \A i \in Video : Popped.buffers.cursor < i
<1>1. Good(Buffers)
  BY DEF TypeInv
<1>2. PICK f : /\ Grown(Buffers, f)
               /\ Popped.buffers.cursor = f.cursor /\ Popped.buffers.seen = f.seen
  BY <1>1, PoppedFacts
<1> SUFFICES ASSUME f.seen[Best] = Absent, NEW i \in Video PROVE f.cursor < i
  BY <1>2
<1>3. /\ lastTs[Best] = Absent
      /\ \A j \in Packets : cursor < j /\ j <= f.cursor => File[j].stream # Best
  BY <1>2, FileFacts DEF Grown, Buffers
<1>4. f.cursor \in Nat /\ i \in Nat /\ i \in Packets /\ File[i].stream = Best
  <2>1. Good(f)
    BY <1>2 DEF Grown
  <2> QED
    BY <2>1, FileFacts, VideoNumbers DEF Good, Numbers, Video
<1> QED
  BY <1>3, <1>4

LEMMA NewAhead ==
  ASSUME NEW f, Becomes(f), KeyAhead(f), seekTime' = seekTime
  PROVE  KeyAhead(Buffers)'
BY DEF Becomes, Buffers, KeyAhead

LEMMA ResultTry ==
  ASSUME TypeInv, StampsIncrease, VideoFirst, format # "unseekable", LossInv, ResultInv, TryStream
  PROVE  ResultInv'
<1> USE FileFacts
<1>1. /\ seekTime \in Nat /\ cursor \in Numbers /\ format \in Kinds
      /\ idx \in 0 .. Max(StreamIds) + 1 /\ time \in Nat /\ best \in StreamIds \cup {Nopts}
      /\ wanted \in Nat
      /\ \A d \in Numbers : Good(EmptyAt(d))
  BY BufferTypes DEF TypeInv, TypeOK
<1>2. /\ pc = "streams" /\ idx <= LastIdx /\ Seekable(idx)
      /\ UNCHANGED <<format, seekTime, time, wanted, result>>
  BY DEF TryStream
<1>3. PICK c \in Landings(idx, time) :
        /\ Becomes(Left(c)) /\ tried' = idx
        /\ best' = IF Better(Position(Left(c).queue)) THEN idx ELSE FirstTried
        /\ found' = IF Better(Position(Left(c).queue)) THEN Position(Left(c).queue) ELSE found
        /\ \/ Better(Position(Left(c).queue)) /\ pos' = time /\ pc' = "probe"
           \/ idx' = idx + 1 /\ UNCHANGED <<pos, pc>>
  BY TryStreamMoves
<1> DEFINE f == Left(c)
           place == Position(f.queue)
<1>4. Good(EmptyAt(c))
  BY <1>1, LandingsType
<1>5. /\ time <= seekTime /\ seekTime <= wanted /\ (time > 0 => idx >= Best)
      /\ result => VideoKeys # {}
      /\ lastTs[Best] = Absent => \A i \in Video : cursor < i
  BY <1>2 DEF ResultInv
<1>6. idx \in StreamIds
  BY <1>1, <1>2 DEF LastIdx
<1>7. CASE time > 0
  <2>1. idx = Best
    BY <1>1, <1>2, <1>5, <1>7 DEF LastIdx
  <2>2. f.seen[Best] = Absent => \A i \in Video : f.cursor < i
    <3> SUFFICES ASSUME f.seen[Best] = Absent PROVE \A i \in Video : f.cursor < i
      OBVIOUS
    <3>1. lastTs[Best] = Absent
      BY <1>1, <1>4, LeftLies
    <3>2. c = cursor
      BY <2>1, <3>1 DEF Landings
    <3> QED
      BY <1>1, <1>4, <1>5, <3>1, <3>2, LeftLies
  <2>3. lastTs'[Best] = Absent => \A i \in Video : cursor' < i
    BY <1>3, <2>2 DEF Becomes
  <2>4. pc' = "probe" => pos' = time
    BY <1>2, <1>3
  <2>5. pos' = time => pos' <= wanted /\ pos' # 0
    BY <1>1, <1>5, <1>7
  <2>6. pc' = "streams" \/ pc' = "probe"
    BY <1>2, <1>3
  <2>7. pc' = "streams" => idx' >= Best
    BY <1>1, <1>2, <1>3, <2>1
  <2>8. time # 0
    BY <1>7
  <2> QED
    BY <1>2, <1>5, <2>3, <2>4, <2>5, <2>6, <2>7, <2>8 DEF ResultInv
<1>8. CASE time = 0
  <2>1. TriedForStart /\ TriedInOrder
    BY <1>2, <1>8 DEF LossInv, ResultInv
  <2>2. /\ f.seen[Best] # Absent \/ Video = {}
        /\ Better(place) =>
             /\ KeyAhead(f)
             /\ place = Nopts => VideoKeys = {}
             /\ place # Nopts => /\ Witnessed(place)
                                 /\ \E i \in Video : i <= f.cursor /\ File[i].ts = place
             /\ VideoKeys # {} /\ idx # Best =>
                  /\ f.seen[idx] # Absent
                  /\ format = "timed" => \A d \in Backward(idx, 0) : KeyAhead(EmptyAt(d))
        /\ ~Better(place) =>
             /\ idx > Best
             /\ \E i \in Video : i <= f.cursor /\ File[i].ts = found
    BY <1>2, <1>4, <1>5, <1>6, <1>8, <2>1, StartTried
  <2>3. /\ cursor' = f.cursor /\ lastTs' = f.seen /\ Becomes(f)
        /\ tried' = idx
        /\ Better(place) => best' = idx /\ found' = place
        /\ ~Better(place) => best' = FirstTried /\ found' = found
        /\ \/ Better(place) /\ pos' = time /\ pc' = "probe"
           \/ idx' = idx + 1 /\ pc' = "streams"
    BY <1>2, <1>3 DEF Becomes
  <2>12. \A s \in StreamIds : f.seen[s] = Absent => lastTs[s] = Absent
    BY <1>1, <1>4, LeftLies
  <2> HIDE DEF f, place
  <2>4. lastTs'[Best] = Absent => \A i \in Video : cursor' < i
    BY <2>2, <2>3
  <2>5. Better(place) => KeyAhead(Buffers)'
    BY <1>2, <2>2, <2>3, NewAhead
  <2>6. \A g : Witnessed(g)' <=> Witnessed(g)
    BY <1>2 DEF Witnessed
  <2>7. \A d : KeyAhead(EmptyAt(d))' <=> KeyAhead(EmptyAt(d))
    BY <1>2 DEF KeyAhead, EmptyAt
  <2>8. ASSUME pc' = "streams" PROVE TriedInOrder'
    <3>1. idx' = idx + 1 /\ idx \in Nat /\ Best \in Nat /\ idx' > idx /\ idx >= Best
      BY <1>2, <1>6, <2>3, <2>8 DEF VideoFirst
    <3>2. ~(idx' <= Best) /\ idx' > Best
      BY <3>1
    <3>3. CASE Better(place)
      <4>1. best' = idx /\ found' = place
        BY <2>3, <3>3
      <4>2. found' # Nopts => Witnessed(found)'
        BY <1>2, <2>2, <3>3, <4>1 DEF Witnessed
      <4>3. found' # Nopts => \E i \in Video : i <= cursor' /\ File[i].ts = found'
        BY <2>2, <2>3, <3>3, <4>1
      <4>4. VideoKeys # {} /\ best' # Best =>
              /\ lastTs'[best'] # Absent
              /\ format' = "timed" => \A d \in Backward(best', 0) : KeyAhead(EmptyAt(d))'
        BY <1>2, <2>2, <2>3, <2>7, <3>3, <4>1
      <4>5. Backward(best, 0)' = Backward(best', 0)
        BY DEF Backward, AtOrBefore
      <4> QED
        BY <2>2, <2>3, <2>5, <3>1, <3>2, <3>3, <4>1, <4>2, <4>3, <4>4, <4>5 DEF TriedInOrder
    <3>4. CASE ~Better(place)
      <4>1. idx > Best /\ best # Nopts
        BY <2>1, <2>2, <3>4 DEF TriedForStart
      <4>2. best' = best /\ found' = found /\ best \in StreamIds /\ best < idx
        BY <1>1, <2>1, <2>3, <3>4, <4>1 DEF FirstTried, TriedInOrder
      <4>3. found # Nopts => Witnessed(found)
        BY <2>1, <4>1 DEF TriedInOrder
      <4>4. found' # Nopts => Witnessed(found)'
        BY <1>2, <4>2, <4>3 DEF Witnessed
      <4>5. found' # Nopts => \E i \in Video : i <= cursor' /\ File[i].ts = found'
        BY <2>2, <2>3, <3>4, <4>2
      <4>6. found' = Nopts => VideoKeys = {}
        BY <2>1, <4>1, <4>2 DEF TriedInOrder
      <4>7. VideoKeys # {} /\ best # Best =>
              /\ lastTs'[best] # Absent
              /\ format = "timed" => \A d \in Backward(best, 0) : KeyAhead(EmptyAt(d))'
        BY <2>1, <2>3, <2>7, <2>12, <4>1, <4>2 DEF TriedInOrder
      <4>8. best' # tried' /\ best' < idx'
        BY <1>6, <2>3, <3>1, <4>2
      <4>9. Backward(best, 0)' = Backward(best, 0)
        BY <4>2 DEF Backward, AtOrBefore
      <4> QED
        BY <1>2, <2>2, <2>3, <3>2, <4>2, <4>4, <4>5, <4>6, <4>7, <4>8, <4>9 DEF TriedInOrder
    <3> QED
      BY <3>3, <3>4
  <2>9. pc' = "probe" => Better(place) /\ pos' = 0
    BY <1>8, <2>3
  <2>10. pc' = "streams" \/ pc' = "probe"
    BY <2>3
  <2>11. 0 <= wanted
    BY <1>1
  <2> QED
    BY <1>2, <1>5, <1>8, <2>4, <2>5, <2>8, <2>9, <2>10, <2>11 DEF ResultInv
<1> QED
  BY <1>1, <1>7, <1>8
LEMMA ResultNext ==
  ASSUME TypeInv, StampsIncrease, VideoFirst, format # "unseekable", LossInv, ResultInv,
         [Next]_vars
  PROVE  ResultInv'
<1> USE FileFacts
<1>1. /\ seekTime \in Nat /\ cursor \in Numbers /\ format \in Kinds
      /\ idx \in 0 .. Max(StreamIds) + 1 /\ time \in Nat /\ best \in StreamIds \cup {Nopts}
      /\ wanted \in Nat /\ pos \in Nat /\ shift \in Nat /\ step \in Nat /\ asked \in Nat \cup {Nopts}
      /\ \A d \in Numbers : Good(EmptyAt(d))
  BY BufferTypes DEF TypeInv, TypeOK
<1>2. CASE \E t \in Targets : RequestSeek(t)
  <2>1. PICK t \in Targets : RequestSeek(t)
    BY <1>2
  <2>2. pc' = "attempt" /\ wanted' = t /\ pos' = (IF asked = Nopts \/ asked > t THEN t ELSE asked)
        /\ t \in Nat /\ UNCHANGED <<cursor, lastTs, result>>
    BY <2>1 DEF RequestSeek
  <2>3. pos' <= wanted'
    BY <1>1, <2>2 DEF Nopts
  <2> QED
    BY <2>2, <2>3 DEF ResultInv
<1>3. CASE Attempt
  <2>1. /\ pc = "attempt" /\ pc' = "streams" /\ time' = pos' /\ seekTime' = pos' /\ pos' = NextPos
        /\ idx' = (IF pos' > 0 THEN Best ELSE 0) /\ best' = Nopts /\ found' = Nopts
        /\ UNCHANGED <<wanted, result, cursor, lastTs>>
    BY <1>3 DEF Attempt, Enter
  <2>2. pos' \in Nat /\ pos' <= wanted
    <3>1. pos <= wanted
      BY <2>1 DEF ResultInv
    <3> QED
      BY <1>1, <2>1, <3>1 DEF NextPos, Near
  <2>3. time' = 0 => idx' = 0
    BY <2>1
  <2>4. time' = 0 => TriedInOrder'
    BY <2>1, <2>3 DEF TriedInOrder, Nopts
  <2>5. time' <= seekTime' /\ seekTime' <= wanted' /\ (time' > 0 => idx' >= Best)
    BY <1>1, <2>1, <2>2
  <2> QED
    BY <2>1, <2>4, <2>5 DEF ResultInv
<1>4. CASE BackOff
  <2>1. /\ pc = "streams" /\ pc' = "streams" /\ time' = StepBack(time, step)
        /\ idx' = (IF time' > 0 THEN Best ELSE 0) /\ best' = Nopts /\ found' = Nopts
        /\ UNCHANGED <<wanted, result, cursor, lastTs, seekTime>>
    BY <1>4 DEF BackOff, Enter
  <2>2. time' \in Nat /\ time' <= time
    BY <1>1, <2>1 DEF StepBack
  <2>3. time' = 0 => idx' = 0
    BY <2>1
  <2>4. time' = 0 => TriedInOrder'
    BY <2>1, <2>3 DEF TriedInOrder, Nopts
  <2>5. time <= seekTime /\ seekTime <= wanted
    BY <2>1 DEF ResultInv
  <2>6. time' <= seekTime' /\ seekTime' <= wanted' /\ (time' > 0 => idx' >= Best)
    BY <1>1, <2>1, <2>2, <2>5
  <2> QED
    BY <2>1, <2>4, <2>6 DEF ResultInv
<1>5. CASE SkipStream
  <2>1. /\ pc = "streams" /\ idx # Best /\ idx' = idx + 1
        /\ UNCHANGED <<pc, time, format, found, best, tried, queue, cursor, eof, lastTs,
                       seekTime, wanted, result>>
    BY <1>5 DEF SkipStream
  <2>2. KeyAhead(Buffers)' <=> KeyAhead(Buffers)
    BY <2>1 DEF KeyAhead, Buffers
  <2>3. /\ idx \in Nat /\ Best \in Nat
        /\ idx + 1 <= Best <=> idx <= Best
        /\ idx + 1 > Best <=> idx > Best
        /\ idx >= Best => idx + 1 >= Best
        /\ best < idx => best < idx + 1
    BY <1>1, <2>1 DEF Nopts
  <2>4. ASSUME time = 0 PROVE TriedInOrder'
    <3>1. TriedInOrder
      BY <2>1, <2>4 DEF ResultInv
    <3>2. Witnessed(found)' <=> Witnessed(found)
      BY <2>1 DEF Witnessed
    <3>3. \A d : KeyAhead(EmptyAt(d))' <=> KeyAhead(EmptyAt(d))
      BY <2>1 DEF KeyAhead, EmptyAt
    <3>4. Backward(best, 0)' = Backward(best, 0)
      BY <2>1 DEF Backward, AtOrBefore
    <3>5. (format = "timed" => \A c \in Backward(best, 0) : KeyAhead(EmptyAt(c)))
            => (format' = "timed" => \A c \in Backward(best, 0)' : KeyAhead(EmptyAt(c))')
      BY <2>1, <3>3, <3>4
    <3> QED
      BY <2>1, <2>2, <2>3, <3>1, <3>2, <3>5 DEF TriedInOrder
  <2>5. /\ lastTs[Best] = Absent => \A i \in Video : cursor < i
        /\ result => VideoKeys # {}
        /\ time <= seekTime /\ seekTime <= wanted /\ (time > 0 => idx >= Best)
    BY <2>1 DEF ResultInv
  <2> QED
    BY <2>1, <2>3, <2>4, <2>5 DEF ResultInv
<1>6. CASE StreamRefuses
  <2>1. /\ pc = "streams" /\ idx <= LastIdx /\ Seekable(idx) /\ Landings(idx, time) = {}
        /\ idx' = idx + 1 /\ tried' = idx /\ best' = FirstTried
        /\ UNCHANGED <<pc, time, format, found, cursor, lastTs, seekTime, wanted, result>>
    BY <1>6 DEF StreamRefuses, Becomes, EmptyAt
  <2>2. ASSUME time = 0 PROVE TriedInOrder'
    <3>1. idx \in StreamIds /\ idx \in Nat /\ Best \in Nat
      BY <1>1, <2>1, <2>2 DEF LastIdx
    <3>2. idx # Best /\ idx >= Best
      BY <2>1, <2>2, <3>1, StartIsFound DEF VideoFirst
    <3>3. TriedForStart /\ TriedInOrder
      BY <2>1, <2>2 DEF LossInv, ResultInv
    <3>4. idx > Best /\ ~(idx + 1 <= Best) /\ idx + 1 > Best
      BY <3>1, <3>2
    <3>5. best # Nopts /\ best < idx /\ best \in StreamIds /\ best \in Nat
      BY <1>1, <3>3, <3>4 DEF TriedForStart, TriedInOrder
    <3>6. best' = best /\ best' # tried' /\ best' < idx'
      BY <2>1, <3>1, <3>5 DEF FirstTried
    <3>7. Witnessed(found)' <=> Witnessed(found)
      BY <2>1 DEF Witnessed
    <3>8. \A d : KeyAhead(EmptyAt(d))' <=> KeyAhead(EmptyAt(d))
      BY <2>1 DEF KeyAhead, EmptyAt
    <3>9. Backward(best, 0)' = Backward(best, 0)
      BY <3>6 DEF Backward, AtOrBefore
    <3>10. (format = "timed" => \A c \in Backward(best, 0) : KeyAhead(EmptyAt(c)))
            => (format' = "timed" => \A c \in Backward(best, 0)' : KeyAhead(EmptyAt(c))')
      BY <2>1, <3>8, <3>9
    <3> QED
      BY <2>1, <3>3, <3>4, <3>6, <3>7, <3>10 DEF TriedInOrder
  <2>3. /\ lastTs[Best] = Absent => \A i \in Video : cursor < i
        /\ result => VideoKeys # {}
        /\ time <= seekTime /\ seekTime <= wanted /\ (time > 0 => idx >= Best)
    BY <2>1 DEF ResultInv
  <2>4. idx >= Best => idx + 1 >= Best
    BY <1>1
  <2> QED
    BY <2>1, <2>2, <2>3, <2>4 DEF ResultInv
<1>7. CASE TryStream
  BY <1>7, ResultTry
<1>8. CASE TakeBest
  <2>1. /\ pc = "streams" /\ idx > LastIdx /\ time = 0
        /\ UNCHANGED <<format, seekTime, wanted, result>>
    BY <1>8 DEF TakeBest
  <2>2. idx > Best /\ TriedForStart /\ TriedInOrder
    BY <1>1, <2>1 DEF LossInv, ResultInv, LastIdx
  <2>3. /\ best # Nopts /\ (best = tried => KeyAhead(Buffers))
        /\ (format = "mpegts" => best = Best)
        /\ lastTs[Best] # Absent \/ Video = {}
    BY <2>2 DEF TriedForStart, TriedInOrder
  <2>4. /\ lastTs[Best] = Absent => \A i \in Video : cursor < i
        /\ result => VideoKeys # {}
        /\ seekTime <= wanted
    BY <2>1 DEF ResultInv
  <2>5. CASE best = tried
    <3>1. pc' = "probe" /\ pos' = 0 /\ Becomes(Buffers)
      BY <1>8, <2>1, <2>5 DEF TakeBest, Found, Becomes, Buffers
    <3>2. KeyAhead(Buffers)'
      BY <2>1, <2>3, <2>5, <3>1, NewAhead
    <3>3. cursor' = cursor /\ lastTs' = lastTs
      BY <3>1 DEF Becomes, Buffers
    <3> QED
      BY <1>1, <2>1, <2>4, <3>1, <3>2, <3>3 DEF ResultInv
  <2>6. CASE best # tried
    <3>1. best \in StreamIds
      BY <1>1, <2>3
    <3>2. Landings(best, 0) # {}
      BY <2>3, <3>1, StartIsFound
    <3>3. PICK c \in Landings(best, 0) :
            Becomes(Fill(EmptyAt(c), TRUE)) /\ pc' = "probe" /\ pos' = 0
      BY <1>8, <2>1, <2>6, <3>2 DEF TakeBest, Found
    <3>4. Good(EmptyAt(c))
      BY <1>1, LandingsType
    <3>5. KeyAhead(EmptyAt(c))
      <4>1. CASE VideoKeys = {}
        BY <4>1 DEF KeyAhead
      <4>2. CASE best = Best
        BY <2>4, <4>2, BestLandings, AheadFromStart
      <4>3. CASE VideoKeys # {} /\ best # Best
        <5>1. /\ lastTs[best] # Absent
              /\ format = "timed" => \A d \in Backward(best, 0) : KeyAhead(EmptyAt(d))
          BY <2>2, <4>3 DEF TriedInOrder
        <5>2. /\ format = "timed" => c \in Backward(best, 0)
              /\ format # "timed" => BeforeKeys(c)
          BY <3>1, <5>1, StartLandings
        <5> QED
          BY <5>1, <5>2, AheadFromStart
      <4> QED
        BY <4>1, <4>2, <4>3
    <3>6. KeyAhead(Buffers)'
      BY <2>1, <3>3, <3>4, <3>5, FilledAhead, NewAhead
    <3>7. lastTs'[Best] = Absent => \A i \in Video : cursor' < i
      <4>1. Grown(EmptyAt(c), Fill(EmptyAt(c), TRUE)) /\ EmptyAt(c).seen = lastTs
        BY <3>4, FillGrows DEF EmptyAt
      <4>2. lastTs'[Best] = Absent => lastTs[Best] = Absent
        BY <3>3, <4>1 DEF Grown, Becomes
      <4> QED
        BY <2>3, <4>2
    <3> QED
      BY <1>1, <2>1, <2>4, <3>3, <3>6, <3>7 DEF ResultInv
  <2> QED
    BY <2>5, <2>6
<1>9. CASE Probe
  <2>1. /\ pc = "probe" /\ Becomes(Popped.buffers)
        /\ result' = result \/ result' = Accepts(Popped.packet)
        /\ \/ pc' = "probe" /\ pos' = pos /\ ~File[Popped.packet].key
           \/ pc' = "attempt" /\ pos' = pos
           \/ pc' = "idle"
        /\ UNCHANGED <<format, seekTime, wanted>>
    BY <1>9 DEF Probe
  <2>2. /\ lastTs[Best] = Absent => \A i \in Video : cursor < i
        /\ result => VideoKeys # {}
        /\ pos <= wanted /\ seekTime <= wanted /\ (pos = 0 => KeyAhead(Buffers))
    BY <2>1 DEF ResultInv
  <2>3. lastTs'[Best] = Absent => \A i \in Video : cursor' < i
    BY <2>1, <2>2, AbsentPopped DEF Becomes
  <2>4. Accepts(Popped.packet) => VideoKeys # {}
    <3>1. Popped.packet \in Video \cup {None}
      BY PoppedGood DEF TypeInv
    <3> QED
      BY <3>1 DEF Accepts, VideoKeys
  <2>5. pc' = "probe" /\ pos = 0 => KeyAhead(Buffers)'
    BY <2>1, <2>2, PoppedAhead, NewAhead
  <2>6. result' => VideoKeys # {}
    BY <2>1, <2>2, <2>4
  <2> QED
    BY <2>1, <2>2, <2>3, <2>5, <2>6 DEF ResultInv
<1>10. CASE Read
  <2>1. pc = "idle" /\ pc' = "idle" /\ result' = result
    BY <1>10 DEF Read
  <2>2. Becomes(Popped.buffers) \/ UNCHANGED <<cursor, lastTs>>
    BY <1>10 DEF Read
  <2>3. /\ lastTs[Best] = Absent => \A i \in Video : cursor < i
        /\ result => VideoKeys # {}
    BY DEF ResultInv
  <2>4. lastTs'[Best] = Absent => \A i \in Video : cursor' < i
    BY <2>2, <2>3, AbsentPopped DEF Becomes
  <2> QED
    BY <2>1, <2>3, <2>4 DEF ResultInv
<1>11. CASE UNCHANGED vars
  BY <1>11, ZenonT(60) DEF ResultInv, TriedInOrder, KeyAhead, Witnessed, Buffers, EmptyAt, Backward, AtOrBefore
<1> QED
  BY <1>2, <1>3, <1>4, <1>5, <1>6, <1>7, <1>8, <1>9, <1>10, <1>11 DEF Next, SeekStep

FindInv ==
  /\ SeekInv
  /\ StampsIncrease /\ VideoFirst /\ format # "unseekable" => ResultInv

LEMMA FindInvNext == FindInv /\ [Next]_vars => FindInv'
<1> SUFFICES ASSUME FindInv, [Next]_vars PROVE FindInv'
  OBVIOUS
<1>1. format' = format
  BY DEF Next, SeekStep, RequestSeek, Attempt, SkipStream, StreamRefuses, TryStream, TakeBest,
         BackOff, Probe, Read
<1>2. SeekInv'
  BY SeekInvNext DEF FindInv
<1>3. StampsIncrease /\ VideoFirst /\ format # "unseekable" => ResultInv'
  BY ResultNext DEF FindInv, SeekInv
<1> QED
  BY <1>1, <1>2, <1>3 DEF FindInv, StampsIncrease, VideoFirst

(* The packet on which a seek ends tells the truth about the whole file.    *)
LEMMA EndsRight ==
  ASSUME FindInv, [Next]_vars, SeekEnds, StampsIncrease, VideoFirst, format # "unseekable"
  PROVE  /\ result' <=> \E k \in VideoKeys : File[k].ts <= wanted
         /\ result' => buffered' \in VideoKeys /\ File[buffered'].ts <= wanted
<1>1. TypeInv /\ ResultInv /\ pc = "probe" /\ pc' = "idle"
  BY DEF FindInv, SeekInv, SeekEnds
<1>2. Probe
  BY <1>1 DEF Next, SeekStep, RequestSeek, Attempt, SkipStream, StreamRefuses,
              TryStream, TakeBest, BackOff, Read
<1> DEFINE p == Popped.packet
<1>3. /\ buffered' = p
      /\ ~(p # None /\ wanted > 0 /\ ~File[p].key)
      /\ p = None => result' = result
      /\ p # None => result' = Accepts(p)
      /\ Accepts(p) \/ pos = 0
  BY <1>1, <1>2 DEF Probe
<1>4. /\ result => VideoKeys # {}
      /\ pos <= wanted /\ seekTime <= wanted /\ (pos = 0 => KeyAhead(Buffers))
  BY <1>1 DEF ResultInv
<1>5. Good(Buffers) /\ wanted \in Nat /\ seekTime \in Nat
  BY <1>1 DEF TypeInv, TypeOK
<1>6. PICK f : /\ Grown(Buffers, f)
               /\ f.queue = {} => f.eof /\ p = None
               /\ f.queue # {} => p \in f.queue /\ \A i \in f.queue : p <= i
  BY <1>5, PoppedFacts
<1> HIDE DEF p
<1>7. /\ f.queue \in SUBSET Video /\ f.cursor \in Nat /\ \A i \in f.queue : i <= f.cursor
      /\ f.eof => f.cursor = Last1
      /\ \A k \in VideoKeys : k \in Video /\ k \in Nat /\ k \in Packets /\ k <= Last1
                                /\ File[k].ts \in Nat
  <2>1. Good(f)
    BY <1>6 DEF Grown
  <2>2. f.cursor \in Nat
    BY <2>1, FileFacts DEF Good, Numbers
  <2>3. \A k \in VideoKeys : k \in Video /\ k \in Nat /\ k \in Packets /\ k <= Last1
                                /\ File[k].ts \in Nat
    BY FileFacts, VideoNumbers
  <2> QED
    BY <2>1, <2>2, <2>3 DEF Good
<1>8. p # None => p \in Video /\ p \in Nat /\ p \in Packets /\ File[p].ts \in Nat /\ f.queue # {}
  BY <1>6, <1>7, VideoNumbers
<1>9. Accepts(p) => p \in VideoKeys /\ File[p].ts <= wanted
  BY <1>8 DEF Accepts, VideoKeys
<1>10. pos = 0 => KeyAhead(f)
  BY <1>4, <1>5, <1>6, AheadGrows
<1>11. CASE Accepts(p)
  BY <1>3, <1>9, <1>11 DEF Accepts
<1>12. CASE ~Accepts(p) /\ p = None
  <2>1. f.cursor = Last1 /\ f.queue = {}
    BY <1>6, <1>7, <1>12, VideoNumbers
  <2>2. \A j \in VideoKeys : ~(j \in f.queue \/ f.cursor < j)
    BY <1>7, <2>1
  <2>3. VideoKeys = {}
    BY <1>3, <1>10, <1>12, <2>2 DEF KeyAhead
  <2> QED
    BY <1>3, <1>4, <1>12, <2>3
<1>13. CASE ~Accepts(p) /\ p # None
  <2>1. result' = FALSE
    BY <1>3, <1>13 DEF Accepts
  <2>2. ASSUME NEW k \in VideoKeys, File[k].ts <= wanted PROVE FALSE
    <3>1. PICK j \in VideoKeys : /\ File[j].ts <= File[k].ts \/ File[j].ts <= seekTime
                                 /\ j \in f.queue \/ f.cursor < j
      BY <1>3, <1>10, <1>13 DEF KeyAhead
    <3>2. File[j].ts <= wanted
      BY <1>4, <1>5, <1>7, <2>2, <3>1
    <3>3. p <= j
      <4>1. p \in f.queue /\ p <= f.cursor /\ \A i \in f.queue : p <= i
        BY <1>6, <1>7, <1>8, <1>13
      <4> QED
        BY <1>7, <1>8, <1>13, <3>1, <4>1
    <3>4. File[p].ts <= File[j].ts
      BY <1>7, <1>8, <1>13, <3>3, FileFacts
    <3>5. File[p].ts <= wanted
      BY <1>5, <1>7, <1>8, <1>13, <3>2, <3>4
    <3>6. ~File[p].key
      BY <1>13, <3>5 DEF Accepts
    <3>7. wanted = 0
      BY <1>3, <1>5, <1>13, <3>6
    <3>8. p < j => File[p].ts < File[j].ts
      BY <1>7, <1>8, <1>13 DEF StampsIncrease
    <3>9. p = j
      BY <1>7, <1>8, <1>13, <3>2, <3>3, <3>7, <3>8
    <3> QED
      BY <3>6, <3>9 DEF VideoKeys
  <2> QED
    BY <2>1, <2>2
<1> QED
  BY <1>11, <1>12, <1>13

(* get_seek_result, for every file whose video is the first stream and has  *)
(* increasing time stamps, however FFmpeg lands where its format leaves it  *)
(* a choice: the result of a seek is good exactly if there is a key packet  *)
(* at or before the position, and the stream then goes on from one.         *)
THEOREM ResultIsRight == Spec => SeekResultIsRight
<1>1. Init => FindInv
  BY TypeInvInit, LossInit, ResultInit DEF FindInv, SeekInv
<1>2. FindInv /\ [Next]_vars
        => [SeekEnds /\ StampsIncrease /\ VideoFirst /\ format # "unseekable"
             => /\ result' <=> (\E k \in VideoKeys : File[k].ts <= wanted)
                /\ result' => buffered' \in VideoKeys /\ File[buffered'].ts <= wanted]_vars
  BY EndsRight
<1> QED
  BY <1>1, <1>2, FindInvNext, PTL DEF Spec, SeekResultIsRight

----------------------------------------------------------------------------
(* The contract of a seek.  Batches are counted in packets of the video, so *)
(* places in the file are turned into ranks first.                          *)

Videos == Cardinality(Video)

LEMMA RankFacts ==
  /\ Videos \in Nat /\ Rank(Last1) = Videos
  /\ \A c \in Numbers : Rank(c) \in 0 .. Videos
  /\ \A c, d \in Numbers :
       c <= d => /\ Rank(c) <= Rank(d)
                 /\ Cardinality(UpTo(VideoAfter[c], d)) = Rank(d) - Rank(c)
  /\ \A c \in Numbers, i \in Video : c < i => Rank(c) < Rank(i)
  /\ \A i \in Video : i \in Numbers /\ Rank(i) \in 1 .. Videos
<1> DEFINE At(c) == UpTo(Video, c)
<1>1. /\ Last1 \in Nat /\ Video \in SUBSET (1 .. Last1)
      /\ \A i \in Video : i \in Nat /\ i <= Last1 /\ i \in Numbers
      /\ \A c \in Numbers : c \in Nat /\ c <= Last1 /\ c \in Int
  BY FileFacts, VideoNumbers DEF Numbers
<1>2. IsFiniteSet(Video) /\ Videos \in Nat
  BY <1>1, UpToFinite DEF Videos
<1>3. \A c \in Numbers : Rank(c) = Cardinality(At(c)) /\ IsFiniteSet(At(c)) /\ Rank(c) \in Nat
  BY <1>1, UpToFinite DEF Rank, UpTo
<1>4. At(Last1) = Video /\ Last1 \in Numbers
  <2>1. At(Last1) = Video
    BY <1>1 DEF UpTo
  <2> QED
    BY <1>1, <2>1 DEF Numbers
<1>5. Rank(Last1) = Videos
  BY <1>3, <1>4 DEF Videos
<1>6. \A c \in Numbers : Rank(c) \in 0 .. Videos
  <2> SUFFICES ASSUME NEW c \in Numbers PROVE Rank(c) <= Videos
    BY <1>2, <1>3
  <2>1. At(c) \in SUBSET Video
    BY DEF UpTo
  <2> HIDE DEF At
  <2> QED
    BY <1>2, <1>3, <2>1, FS_Subset DEF Videos
<1>7. ASSUME NEW c \in Numbers, NEW d \in Numbers, c <= d
      PROVE  /\ Rank(c) <= Rank(d)
             /\ Cardinality(UpTo(VideoAfter[c], d)) = Rank(d) - Rank(c)
  <2> DEFINE B == UpTo(VideoAfter[c], d)
  <2>1. VideoAfter[c] = {i \in Video : i > c}
    BY DEF VideoAfter, Numbers, Last1
  <2>2. \A i \in Video : i <= d <=> i <= c \/ (i > c /\ i <= d)
    BY <1>1, <1>7
  <2>3. \A i \in Video : ~(i <= c /\ i > c)
    BY <1>1
  <2>4. At(d) = At(c) \cup B /\ At(c) \cap B = {}
    BY <2>1, <2>2, <2>3 DEF UpTo
  <2>5. B \in SUBSET At(d)
    BY <2>4
  <2> HIDE DEF At, B
  <2>6. IsFiniteSet(B) /\ Cardinality(B) \in Nat
    BY <1>3, <2>5, FS_Subset, FS_CardinalityType
  <2>7. Cardinality(At(d)) = Cardinality(At(c)) + Cardinality(B) - 0
    BY <1>3, <2>4, <2>6, FS_Union, FS_EmptySet
  <2>8. Rank(d) = Rank(c) + Cardinality(B) /\ Rank(c) \in Nat /\ Rank(d) \in Nat
    BY <1>3, <2>6, <2>7
  <2>9. Rank(c) <= Rank(d) /\ Cardinality(B) = Rank(d) - Rank(c)
    BY <2>6, <2>8
  <2> QED
    BY <2>9 DEF B
<1>8. ASSUME NEW c \in Numbers, NEW i \in Video, c < i PROVE Rank(c) < Rank(i)
  <2>1. At(c) \cup {i} \in SUBSET At(i)
    <3>1. \A j \in Video : j <= c => j <= i
      BY <1>1, <1>8
    <3>2. i <= i
      BY <1>1
    <3> QED
      BY <3>1, <3>2 DEF UpTo
  <2>2. i \notin At(c)
    BY <1>1, <1>8 DEF UpTo
  <2>3. i \in Numbers
    BY <1>1
  <2> HIDE DEF At
  <2>4. Cardinality(At(c) \cup {i}) = Rank(c) + 1
    BY <1>3, <2>2, FS_AddElement, ZenonT(60)
  <2>5. Cardinality(At(c) \cup {i}) <= Rank(i)
    BY <1>3, <2>1, <2>3, FS_Subset
  <2>6. Rank(c) \in Nat /\ Rank(i) \in Nat
    BY <1>3, <2>3
  <2> QED
    BY <2>4, <2>5, <2>6
<1>9. ASSUME NEW i \in Video PROVE Rank(i) \in 1 .. Videos
  <2>1. 0 \in Numbers /\ 0 < i /\ i \in Numbers
    BY <1>1, VideoNumbers DEF Numbers, None
  <2>2. Rank(0) < Rank(i)
    BY <1>8, <2>1
  <2> QED
    BY <1>2, <1>3, <1>6, <2>1, <2>2
<1> QED
  BY <1>1, <1>2, <1>5, <1>6, <1>7, <1>8, <1>9

LEMMA NthOfRank ==
  ASSUME NEW i \in Video PROVE Nth(Rank(i)) = i
<1>1. ASSUME NEW j \in Video, Rank(j) = Rank(i) PROVE j = i
  <2>1. i \in Nat /\ j \in Nat /\ i \in Numbers /\ j \in Numbers
    BY RankFacts, VideoNumbers
  <2>2. Rank(i) \in Nat /\ Rank(j) \in Nat
    BY RankFacts
  <2>3. (i < j => Rank(i) < Rank(j)) /\ (j < i => Rank(j) < Rank(i))
    BY <2>1, RankFacts
  <2> QED
    BY <1>1, <2>1, <2>2, <2>3
<1> QED
  BY <1>1 DEF Nth

(* Where n batches lead.                                                    *)
LEMMA ReachRank ==
  ASSUME NEW c \in Numbers, NEW n \in Turns
  PROVE  /\ AtEnd[c][n] <=> Rank(c) + n * Batch > Videos
         /\ Rank(Reach[c][n]) = IF AtEnd[c][n] THEN Videos ELSE Rank(c) + n * Batch
<1> DEFINE m == n * Batch
<1>1. m \in Nat /\ 1 <= m /\ Last1 \in Nat /\ c \in Nat /\ c <= Last1 /\ Last1 \in Numbers
  BY FileFacts DEF Turns, Numbers
<1>2. VideoAfter[c] \in SUBSET (1 .. Last1) /\ \A i \in VideoAfter[c] : i \in Nat /\ i <= Last1
  <2>1. VideoAfter[c] \subseteq Video
    BY ReachFacts
  <2>2. Video \subseteq 1 .. Last1 /\ \A i \in 1 .. Last1 : i \in Nat /\ i <= Last1
    BY FileFacts
  <2> QED
    BY <2>1, <2>2, Zenon
<1>3. UpTo(VideoAfter[c], Last1) = VideoAfter[c]
  BY <1>2 DEF UpTo
<1>4. /\ Cardinality(VideoAfter[c]) = Videos - Rank(c) /\ Videos \in Nat /\ Rank(c) \in Nat
  BY <1>1, <1>3, RankFacts
<1>5. AtEnd[c][n] <=> Cardinality(VideoAfter[c]) < m
  BY DEF AtEnd, Numbers, Turns, Last1
<1> HIDE DEF m
<1>6. AtEnd[c][n] <=> Rank(c) + m > Videos
  BY <1>1, <1>4, <1>5
<1>7. ASSUME ~AtEnd[c][n] PROVE Rank(Reach[c][n]) = Rank(c) + m
  <2>1. Reach[c][n] = CHOOSE i \in VideoAfter[c] : Cardinality(UpTo(VideoAfter[c], i)) = m
    BY <1>7 DEF Reach, Numbers, Turns, Last1, UpTo, m
  <2>2. m <= Cardinality(VideoAfter[c])
    BY <1>1, <1>4, <1>5, <1>7
  <2>3. \E i \in VideoAfter[c] : Cardinality(UpTo(VideoAfter[c], i)) = m
    BY <1>1, <1>2, <2>2, Counted
  <2>4. Cardinality(UpTo(VideoAfter[c], Reach[c][n])) = m
    BY <2>1, <2>3
  <2>5. Reach[c][n] \in Numbers /\ c <= Reach[c][n]
    BY ReachFacts
  <2>6. m = Rank(Reach[c][n]) - Rank(c) /\ Rank(Reach[c][n]) \in Nat
    BY <2>4, <2>5, RankFacts
  <2> QED
    BY <1>1, <1>4, <2>6
<1>8. AtEnd[c][n] => Rank(Reach[c][n]) = Videos
  BY ReachFacts, RankFacts
<1> QED
  BY <1>6, <1>7, <1>8 DEF m

(* Filling goes on from where it stopped.                                   *)
LEMMA GrownOn ==
  ASSUME NEW c, Good(EmptyAt(c)), NEW q, Grown(EmptyAt(c), q), NEW f, Grown(q, f)
  PROVE  Grown(EmptyAt(c), f)
<1>1. CASE q.eof
  BY <1>1 DEF Grown
<1>2. CASE ~q.eof
  <2>1. /\ c \in Nat /\ q.cursor \in Nat /\ f.cursor \in Nat
        /\ c <= q.cursor /\ q.cursor <= f.cursor /\ Good(f) /\ Good(q)
        /\ EmptyAt(c).cursor = c /\ EmptyAt(c).eof = FALSE /\ EmptyAt(c).queue = {}
    <3>1. Good(f) /\ Good(q) /\ EmptyAt(c).cursor = c
      BY DEF Grown, EmptyAt
    <3>2. c \in Nat /\ q.cursor \in Nat /\ f.cursor \in Nat
      BY <3>1, FileFacts DEF Good, Numbers
    <3> QED
      BY <3>1, <3>2 DEF Grown, EmptyAt
  <2>2. \A i \in Packets : i \in Nat
    BY FileFacts
  <2>3. \A i \in Video : i \in Nat /\ i \in Packets
    BY VideoNumbers
  <2>4. ASSUME NEW i \in Video
        PROVE  i \in f.queue <=>
                 /\ c < i /\ i <= f.cursor
                 /\ \A k \in VideoKeys :
                      c < k /\ k <= f.cursor /\ IsCut(k) => k <= i
    <3>1. i \in q.queue <=>
            /\ c < i /\ i <= q.cursor
            /\ \A k \in VideoKeys :
                 c < k /\ k <= q.cursor /\ IsCut(k) => k <= i
      BY <2>1 DEF Grown
    <3>2. i \in f.queue <=>
            /\ i \in q.queue \/ (q.cursor < i /\ i <= f.cursor)
            /\ \A k \in VideoKeys :
                 q.cursor < k /\ k <= f.cursor /\ IsCut(k) => k <= i
      BY DEF Grown
    <3>3. i \in Nat /\ \A k \in VideoKeys : k \in Nat
      BY <2>3, FileFacts
    <3>4. ASSUME i \in f.queue
          PROVE  /\ c < i /\ i <= f.cursor
                 /\ \A k \in VideoKeys :
                      c < k /\ k <= f.cursor /\ IsCut(k) => k <= i
      BY <2>1, <3>1, <3>2, <3>3, <3>4
    <3>5. ASSUME c < i, i <= f.cursor,
                 \A k \in VideoKeys :
                   c < k /\ k <= f.cursor /\ IsCut(k) => k <= i
          PROVE  i \in f.queue
      BY <2>1, <3>1, <3>2, <3>3, <3>5
    <3> QED
      BY <3>4, <3>5
  <2>5. ASSUME NEW s \in StreamIds, f.seen[s] = Absent
        PROVE  /\ EmptyAt(c).seen[s] = Absent
               /\ \A i \in Packets : c < i /\ i <= f.cursor => File[i].stream # s
    <3>1. /\ q.seen[s] = Absent
          /\ \A i \in Packets : q.cursor < i /\ i <= f.cursor => File[i].stream # s
      BY <2>5 DEF Grown
    <3>2. /\ EmptyAt(c).seen[s] = Absent
          /\ \A i \in Packets : c < i /\ i <= q.cursor => File[i].stream # s
      BY <2>1, <3>1 DEF Grown
    <3> QED
      BY <2>1, <2>2, <3>1, <3>2
  <2>6. c <= f.cursor
    BY <2>1
  <2> QED
    BY <2>1, <2>4, <2>5, <2>6 DEF Grown
<1> QED
  BY <1>1, <1>2

(* The key packet a seek to time t is to end on.                            *)
IsLatest(k, t) ==
  /\ k \in VideoKeys /\ File[k].ts <= t
  /\ \A j \in VideoKeys : File[j].ts <= t => j <= k

(* With the packet to end on behind FFmpeg's place, the queue has two key   *)
(* packets exactly when it reaches one after that.                          *)
LEMMA SecondKeyFills ==
  ASSUME NEW c \in Numbers, NEW f, Grown(EmptyAt(c), f),
         NEW k, IsLatest(k, seekTime), c < k, NEW j \in VideoKeys, k < j, j <= f.cursor
  PROVE  Full(f.queue, TRUE)
<1>1. /\ k \in VideoKeys /\ k \in Video /\ j \in Video /\ k \in Nat /\ j \in Nat /\ c \in Nat
      /\ f.cursor \in Nat /\ f.queue \in SUBSET Video
  BY FileFacts, VideoNumbers DEF Grown, Good, Numbers, IsLatest
<1>2. k <= f.cursor /\ c < j
  BY <1>1
<1>3. EmptyAt(c).cursor = c
  BY DEF EmptyAt
<1>4. \A l \in VideoKeys : File[l].ts <= seekTime => l <= k
  BY DEF IsLatest
<1>5. k \in f.queue /\ j \in f.queue
  <2>1. k <= k /\ \A l \in VideoKeys : l <= k => l <= j
    BY <1>1, FileFacts, VideoNumbers
  <2> QED
    BY <1>1, <1>2, <1>3, <1>4, <2>1 DEF Grown, IsCut
<1> DEFINE S == f.queue \cap VideoKeys
<1>6. {k, j} \in SUBSET S /\ S \in SUBSET (1 .. Last1) /\ Last1 \in Nat
  BY <1>1, <1>5, FileFacts
<1> HIDE DEF S
<1>7. IsFiniteSet(S) /\ Cardinality(S) \in Nat
  BY <1>6, UpToFinite, FS_CardinalityType
<1>8. Cardinality({k, j}) = 2
  <2>1. k # j
    BY <1>1
  <2> QED
    BY <2>1, PairHasTwo
<1>9. 2 <= Cardinality(S)
  BY <1>6, <1>7, <1>8, FS_Subset
<1> QED
  BY <1>5, <1>7, <1>9 DEF Full, S

(* The first batch is in time: the packet to end on is in it or comes       *)
(* later.                                                                   *)
LEMMA FirstBatch ==
  ASSUME NEW c \in Numbers, Good(EmptyAt(c)), NEW k, IsLatest(k, seekTime), c < k,
         seekTime \in Nat
  PROVE  /\ 1 \in Turns /\ Quick(c) = FillTo(EmptyAt(c), 1)
         /\ InTime(Quick(c).queue)
<1> DEFINE e == EmptyAt(c)
           q == FillTo(e, 1)
<1>1. /\ e.cursor = c /\ e.eof = FALSE /\ e.queue = {} /\ ~Full(e.queue, FALSE)
      /\ 1 \in Turns /\ q.cursor = Reach[c][1] /\ q.eof = AtEnd[c][1]
  BY FileFacts DEF EmptyAt, Full, Turns, FillTo
<1>2. /\ k \in VideoKeys /\ k \in Video /\ k \in Nat /\ c \in Nat /\ k \in Packets
      /\ File[k].ts \in Nat /\ File[k].ts <= seekTime
      /\ \A l \in VideoKeys : File[l].ts <= seekTime => l <= k
      /\ k <= Last1 /\ Last1 \in Nat
  <2>1. /\ k \in VideoKeys /\ File[k].ts <= seekTime
        /\ \A l \in VideoKeys : File[l].ts <= seekTime => l <= k
    BY DEF IsLatest
  <2>2. k \in Video /\ k \in Nat /\ k \in Packets /\ File[k].ts \in Nat
    BY <2>1, FileFacts, VideoNumbers
  <2>3. c \in Nat /\ Last1 \in Nat /\ k <= Last1
    BY <2>2, FileFacts DEF Numbers
  <2> QED
    BY <2>1, <2>2, <2>3
<1>3. Grown(e, q) /\ Good(q) /\ q.cursor \in Nat /\ q.queue \in SUBSET Video
  <2>1. Grown(e, q)
    BY <1>1, FillToGrows
  <2> HIDE DEF e, q
  <2>2. Good(q)
    BY <2>1 DEF Grown
  <2>3. q.cursor \in Numbers /\ q.queue \in SUBSET Video
    BY <2>2 DEF Good
  <2> QED
    BY <2>1, <2>2, <2>3, FileFacts DEF Numbers
<1>4. \A i \in Video :
        i \in q.queue <=>
          /\ c < i /\ i <= q.cursor
          /\ \A l \in VideoKeys : c < l /\ l <= q.cursor /\ IsCut(l) => l <= i
  BY <1>1, <1>3 DEF Grown
<1>5. \E i \in q.queue : i <= k
  <2>1. CASE k <= q.cursor
    <3>1. k \in q.queue
      BY <1>2, <1>4, <2>1 DEF IsCut
    <3> QED
      BY <1>2, <3>1
  <2>2. CASE ~(k <= q.cursor)
    <3>1. ~AtEnd[c][1]
      BY <1>1, <1>2, <2>2, ReachFacts
    <3>2. q.cursor \in Video /\ c < q.cursor
      BY <1>1, <3>1, ReachFacts
    <3>3. q.cursor \in q.queue
      BY <1>3, <1>4, <3>2, FileFacts, VideoNumbers
    <3> QED
      BY <1>2, <1>3, <2>2, <3>3
  <2> QED
    BY <2>1, <2>2
<1>6. Full(q.queue, FALSE)
  BY <1>5 DEF Full
<1> HIDE DEF e, q
<1>7. Quick(c) = q
  <2>1. PICK n \in Turns : /\ Fill(e, FALSE) = FillTo(e, n)
                           /\ \A m \in 1 .. n - 1 : ~Full(FillTo(e, m).queue, FALSE)
    BY <1>1, FillTurns DEF e
  <2>2. n = 1
    <3>1. 1 \notin 1 .. n - 1
      BY <1>6, <2>1 DEF q
    <3> QED
      BY <3>1, FileFacts DEF Turns
  <2> QED
    BY <2>1, <2>2 DEF Quick, e, q
<1>8. InTime(q.queue)
  <2>1. PICK i \in q.queue : i <= k
    BY <1>5
  <2>2. /\ Min(q.queue) \in q.queue /\ Min(q.queue) \in Video /\ Min(q.queue) <= i
    BY <1>3, LeastOfQueue
  <2>3. Min(q.queue) \in Nat /\ Min(q.queue) \in Packets /\ i \in Nat
    BY <1>3, <2>2, VideoNumbers
  <2>4. Min(q.queue) <= k
    BY <1>2, <2>1, <2>2, <2>3
  <2>5. File[Min(q.queue)].ts <= File[k].ts /\ File[Min(q.queue)].ts \in Nat
    BY <1>2, <2>3, <2>4, FileFacts
  <2>6. File[Min(q.queue)].ts <= seekTime
    BY <1>2, <2>5
  <2> QED
    BY <2>2, <2>6 DEF InTime, Position
<1> QED
  BY <1>1, <1>7, <1>8 DEF e, q

(* f is the result of n batches from packet c on, and of no more than it    *)
(* takes to see a key packet after k.                                       *)
JustEnough(f, c, k, n) ==
  /\ f.eof <=> Rank(c) + n * Batch > Videos
  /\ Rank(f.cursor) = IF f.eof THEN Videos ELSE Rank(c) + n * Batch
  /\ f.eof \/ \E j \in VideoKeys : k < j /\ j <= f.cursor
  /\ Rank(c) + (n - 1) * Batch <= Videos
  /\ \A j \in VideoKeys : k < j => Rank(c) + (n - 1) * Batch < Rank(j)

(* Short of the next key packet after n batches, and not at the end.        *)
LEMMA NotYet ==
  ASSUME NEW c \in Numbers, NEW f, Grown(EmptyAt(c), f),
         NEW k, IsLatest(k, seekTime), c < k, ~Full(f.queue, TRUE), NEW r, Rank(f.cursor) = r
  PROVE  r <= Videos /\ \A j \in VideoKeys : k < j => r < Rank(j)
<1>1. f.cursor \in Numbers /\ f.cursor \in Nat
  BY FileFacts DEF Grown, Good, Numbers
<1>2. r <= Videos
  BY <1>1, RankFacts
<1>3. ASSUME NEW j \in VideoKeys, k < j PROVE r < Rank(j)
  <2>1. ~(j <= f.cursor)
    BY <1>3, SecondKeyFills
  <2>2. j \in Video /\ j \in Nat
    BY FileFacts, VideoNumbers
  <2>3. f.cursor < j
    BY <1>1, <2>1, <2>2
  <2> QED
    BY <1>1, <2>2, <2>3, RankFacts
<1> QED
  BY <1>2, <1>3

(* A queue that is full for its key packets has one after k.                *)
LEMMA EnoughSeen ==
  ASSUME NEW c \in Numbers, NEW f, Grown(EmptyAt(c), f),
         NEW k, IsLatest(k, seekTime), c < k, seekTime \in Nat, KeysLast(seekTime),
         Full(f.queue, TRUE)
  PROVE  \E j \in VideoKeys : k < j /\ j <= f.cursor
<1>1. Good(f) /\ f.queue \in SUBSET Video /\ f.cursor \in Nat
  <2>1. Good(f)
    BY DEF Grown
  <2> QED
    BY <2>1, FileFacts DEF Good, Numbers
<1>2. PICK a, b \in f.queue \cap VideoKeys : a < b
  BY <1>1, TwoKeys
<1>3. a \in Nat /\ b \in Nat /\ k \in Nat /\ b <= f.cursor /\ a \in Video /\ a <= f.cursor
  BY <1>1, <1>2, FileFacts, VideoNumbers DEF Good, IsLatest
<1>4. EmptyAt(c).cursor = c /\ k \in VideoKeys /\ File[k].ts <= seekTime /\ IsCut(k)
  BY DEF EmptyAt, IsLatest, KeysLast, IsCut
<1>5. k <= a
  <2>1. CASE k <= f.cursor
    <3>1. \A i \in Video : i \in f.queue => k <= i
      <4>1. \A i \in Video : i \in f.queue =>
              \A l \in VideoKeys : c < l /\ l <= f.cursor /\ IsCut(l) => l <= i
        BY <1>4 DEF Grown
      <4> QED
        BY <1>4, <2>1, <4>1
    <3> QED
      BY <1>2, <1>3, <3>1
  <2>2. CASE ~(k <= f.cursor)
    <3>1. IsCut(b)
      <4>1. b <= k
        BY <1>1, <1>3, <2>2
      <4>2. b \in Packets /\ k \in Packets
        BY <1>2, <1>4, FileFacts
      <4>3. File[b].ts <= File[k].ts /\ File[b].ts \in Nat /\ File[k].ts \in Nat
        BY <4>1, <4>2, FileFacts
      <4>4. File[b].ts <= seekTime
        BY <1>4, <4>3
      <4> QED
        BY <1>2, <4>4 DEF KeysLast, IsCut
    <3>2. c < b
      <4>1. EmptyAt(c).queue = {}
        BY DEF EmptyAt
      <4> QED
        BY <1>2, <1>4, <4>1, FileFacts, ZenonT(60) DEF Grown
    <3>3. b <= a
      BY <1>2, <1>3, <1>4, <3>1, <3>2 DEF Grown
    <3> QED
      BY <1>2, <1>3, <3>3
  <2> QED
    BY <2>1, <2>2
<1> QED
  BY <1>2, <1>3, <1>5

LEMMA OneMoreBatch ==
  ASSUME NEW n \in Nat
  PROVE  /\ (1 + n) * Batch = Batch + n * Batch /\ n * Batch \in Nat
         /\ n # 0 => n * Batch = Batch + (n - 1) * Batch
<1>1. \A a, b \in Nat : (1 + a) * b = b + a * b /\ a * b \in Nat
  OBVIOUS
<1>2. n # 0 => n - 1 \in Nat /\ 1 + (n - 1) = n
  OBVIOUS
<1>3. Batch \in Nat
  BY FileFacts
<1> QED
  BY <1>1, <1>2, <1>3

(* What a stream tried leaves behind when FFmpeg lands before the packet    *)
(* the seek is to end on: the queue from that packet on, and the batches it *)
(* takes to see the next key packet.                                        *)
LEMMA LeftMeetsContract ==
  ASSUME NEW c \in Numbers, Good(EmptyAt(c)), NEW k, IsLatest(k, seekTime), c < k,
         seekTime \in Nat, KeysLast(seekTime)
  PROVE  /\ Grown(EmptyAt(c), Left(c))
         /\ \E n \in Nat \ {0} : JustEnough(Left(c), c, k, n)
<1> DEFINE q == Quick(c)
           f == Left(c)
<1>1. 1 \in Turns /\ q = FillTo(EmptyAt(c), 1) /\ f = Fill(q, TRUE)
  BY FirstBatch DEF Left
<1>2. /\ EmptyAt(c).cursor = c /\ EmptyAt(c).eof = FALSE
      /\ q.cursor = Reach[c][1] /\ q.eof = AtEnd[c][1]
  BY <1>1 DEF EmptyAt, FillTo
<1>3. Grown(EmptyAt(c), q) /\ Good(q) /\ q.cursor \in Numbers
  BY FillGrows DEF Quick, Grown, Good
<1>4. Grown(EmptyAt(c), f)
  BY <1>1, <1>3, FillGrows, GrownOn
<1>5. /\ Batch \in Nat /\ Batch # 0 /\ 1 * Batch = Batch /\ 0 * Batch = 0 /\ Videos \in Nat
      /\ Rank(c) \in Nat /\ Rank(c) <= Videos /\ Rank(q.cursor) \in Nat
  BY <1>3, FileFacts, RankFacts
<1>6. /\ q.eof <=> Rank(c) + Batch > Videos
      /\ Rank(q.cursor) = IF q.eof THEN Videos ELSE Rank(c) + Batch
  BY <1>1, <1>2, <1>5, ReachRank
<1>7. \A j \in VideoKeys : k < j => Rank(c) < Rank(j)
  <2>1. c \in Nat /\ k \in Nat
    BY FileFacts, VideoNumbers DEF Numbers, IsLatest
  <2>2. \A j \in VideoKeys : j \in Nat /\ j \in Video
    BY FileFacts, VideoNumbers
  <2>3. \A j \in VideoKeys : k < j => c < j
    BY <2>1, <2>2, SMTT(30)
  <2> QED
    BY <2>2, <2>3, RankFacts
<1> HIDE DEF q, f
<1>8. CASE q.eof \/ Full(q.queue, TRUE)
  <2>1. f = q
    BY <1>1, <1>8 DEF Fill
  <2>2. q.eof \/ \E j \in VideoKeys : k < j /\ j <= q.cursor
    BY <1>3, <1>8, EnoughSeen
  <2>3. JustEnough(f, c, k, 1)
    BY <1>5, <1>6, <1>7, <2>1, <2>2 DEF JustEnough
  <2> QED
    BY <1>4, <2>3, SMTT(30) DEF f
<1>9. CASE ~(q.eof \/ Full(q.queue, TRUE))
  <2>1. PICK m \in Turns :
          /\ f = FillTo(q, m)
          /\ AtEnd[q.cursor][m] \/ Full(FillTo(q, m).queue, TRUE)
          /\ \A l \in 1 .. m - 1 :
               ~AtEnd[q.cursor][l] /\ ~Full(FillTo(q, l).queue, TRUE)
    BY <1>1, <1>3, <1>9, FillTurns
  <2>2. m \in Nat /\ m # 0 /\ 1 + m \in Nat \ {0} /\ (1 + m) - 1 = m
    BY FileFacts DEF Turns
  <2>3. /\ (1 + m) * Batch = Batch + m * Batch /\ m * Batch \in Nat
        /\ m * Batch = Batch + (m - 1) * Batch /\ (m - 1) * Batch \in Nat
    <3>1. m - 1 \in Nat
      BY <2>2
    <3> QED
      BY <2>2, <3>1, OneMoreBatch
  <2>4. Rank(q.cursor) = Rank(c) + Batch
    BY <1>6, <1>9
  <2>5. f.cursor = Reach[q.cursor][m] /\ f.eof = AtEnd[q.cursor][m]
    BY <2>1 DEF FillTo
  <2>6. /\ AtEnd[q.cursor][m] <=> Rank(q.cursor) + m * Batch > Videos
        /\ Rank(Reach[q.cursor][m]) = IF AtEnd[q.cursor][m] THEN Videos
                                      ELSE Rank(q.cursor) + m * Batch
    BY <1>3, ReachRank
  <2>7. /\ f.eof <=> Rank(c) + (1 + m) * Batch > Videos
        /\ Rank(f.cursor) = IF f.eof THEN Videos ELSE Rank(c) + (1 + m) * Batch
    <3>1. Rank(q.cursor) + m * Batch = Rank(c) + (1 + m) * Batch
      BY <1>5, <2>3, <2>4
    <3> QED
      BY <2>5, <2>6, <3>1
  <2>8. f.eof \/ \E j \in VideoKeys : k < j /\ j <= f.cursor
    BY <1>4, <2>1, <2>5, EnoughSeen DEF f
  <2>9. Rank(c) + m * Batch <= Videos /\ \A j \in VideoKeys : k < j => Rank(c) + m * Batch < Rank(j)
    <3>1. CASE m = 1
      <4>1. Rank(q.cursor) = Rank(c) + m * Batch
        BY <1>5, <2>4, <3>1
      <4> QED
        BY <1>3, <1>9, <4>1, NotYet
    <3>2. CASE m # 1
      <4> DEFINE l == m - 1
                 g == FillTo(q, l)
      <4>1. l \in 1 .. m - 1 /\ l \in Turns
        <5>1. Last1 \in Nat /\ m \in 1 .. Last1 + 1
          BY FileFacts DEF Turns
        <5> QED
          BY <3>2, <5>1 DEF Turns
      <4>2. ~AtEnd[q.cursor][l] /\ ~Full(g.queue, TRUE)
        BY <2>1, <4>1
      <4>3. Grown(q, g)
        BY <1>3, <1>9, <4>1, FillToGrows
      <4>4. Grown(EmptyAt(c), g)
        BY <1>3, <4>3, GrownOn
      <4>5. Rank(g.cursor) = Rank(q.cursor) + l * Batch
        BY <1>3, <4>1, <4>2, ReachRank DEF FillTo
      <4>6. Rank(g.cursor) = Rank(c) + m * Batch
        BY <1>5, <2>3, <2>4, <4>5
      <4> HIDE DEF g, l
      <4> QED
        BY <4>2, <4>4, <4>6, NotYet
    <3> QED
      BY <3>1, <3>2
  <2>10. JustEnough(f, c, k, 1 + m)
    BY <2>2, <2>7, <2>8, <2>9 DEF JustEnough
  <2> QED
    BY <1>4, <2>2, <2>10 DEF f
<1> QED
  BY <1>8, <1>9

(* In the terms of Decoding, whose packets are the ranks of the video's.    *)
Ranks == {Rank(j) : j \in VideoKeys}

LEMMA KeyBeforeIsRank ==
  ASSUME NEW t
  PROVE  /\ \A k : IsLatest(k, t) => D!KeyBefore(t) = Rank(k)
         /\ D!KeyBefore(t) # 0 => \E k \in VideoKeys : IsLatest(k, t)
<1> DEFINE S == {j \in VideoKeys : File[j].ts <= t}
           R == {Rank(j) : j \in S}
<1>1. \A j \in VideoKeys : /\ Rank(j) \in 1 .. Videos /\ j \in Numbers /\ j \in Nat /\ j \in Video
  BY FileFacts, VideoNumbers, RankFacts
<1>2. D!KeyBefore(t) = Max(R \cup {0})
  <2>1. D!KeyBefore(t) =
          Max({i \in Ranks : [n \in 1 .. Videos |-> File[Nth(n)].ts][i] <= t} \cup {0})
    BY DEF D!KeyBefore, D!Max, Max, Ranks, Videos
  <2>2. \A j \in VideoKeys : [n \in 1 .. Videos |-> File[Nth(n)].ts][Rank(j)] = File[j].ts
    BY <1>1, NthOfRank
  <2>3. {i \in Ranks : [n \in 1 .. Videos |-> File[Nth(n)].ts][i] <= t} = R
    BY <2>2 DEF Ranks
  <2> QED
    BY <2>1, <2>3
<1>3. ASSUME NEW k, IsLatest(k, t) PROVE D!KeyBefore(t) = Rank(k)
  <2>1. k \in S /\ \A j \in S : j <= k
    BY <1>3 DEF IsLatest
  <2>2. \A j \in S : Rank(j) <= Rank(k)
    BY <1>1, <2>1, RankFacts
  <2>3. /\ R \cup {0} \in SUBSET (0 .. Videos) /\ Videos \in Nat
        /\ Rank(k) \in R /\ Rank(k) \in Nat
    BY <1>1, <2>1, RankFacts
  <2>4. \A r \in R \cup {0} : r <= Rank(k)
    BY <2>2, <2>3
  <2> HIDE DEF R
  <2>5. Max(R \cup {0}) \in R \cup {0} /\ \A y \in R \cup {0} : y <= Max(R \cup {0})
    BY <2>3, GreatestOf
  <2>6. Max(R \cup {0}) <= Rank(k) /\ Rank(k) <= Max(R \cup {0}) /\ Max(R \cup {0}) \in Nat
    BY <2>3, <2>4, <2>5
  <2> QED
    BY <1>2, <2>3, <2>6
<1>4. ASSUME D!KeyBefore(t) # 0 PROVE \E k \in VideoKeys : IsLatest(k, t)
  <2>1. S # {}
    <3> SUFFICES ASSUME S = {} PROVE FALSE
      OBVIOUS
    <3>1. R \cup {0} = {0}
      OBVIOUS
    <3>2. Max({0}) = 0
      BY GreatestOf
    <3> QED
      BY <1>2, <1>4, <3>1, <3>2
  <2>2. S \in SUBSET (0 .. Last1) /\ Last1 \in Nat
    BY <1>1, FileFacts DEF Numbers
  <2>3. Max(S) \in S /\ \A y \in S : y <= Max(S)
    <3> HIDE DEF S
    <3> QED
      BY <2>1, <2>2, GreatestOf
  <2> QED
    BY <2>3 DEF IsLatest
<1> QED
  BY <1>3, <1>4

LEMMA ChainIsAllowed ==
  ASSUME NEW t, NEW k, IsLatest(k, t), NEW c \in Numbers, c < k,
         NEW n \in Nat \ {0}, NEW f, f.cursor \in Numbers, f.eof \in BOOLEAN,
         JustEnough(f, c, k, n)
  PROVE  [read |-> Rank(k) - 1, fetched |-> Rank(f.cursor), eof |-> f.eof, held |-> 0,
          position |-> File[k].ts, lastKey |-> FALSE] \in D!SeekResults(D!Opened, t)
<1> DEFINE K == Rank(k)
           C == Rank(c)
           F == Rank(f.cursor)
           j == D!FirstAfter(K, Ranks)
           stamps == [m \in 1 .. Videos |-> File[Nth(m)].ts]
<1>1. /\ k \in VideoKeys /\ K \in 1 .. Videos /\ C \in 0 .. Videos /\ F \in 0 .. Videos
      /\ Videos \in Nat /\ C < K
  <2>1. k \in VideoKeys /\ k \in Video
    BY FileFacts DEF IsLatest
  <2> QED
    BY <2>1, RankFacts
<1>2. C + 1 \in 1 .. K
  BY <1>1
<1>3. K = D!KeyBefore(t)
  BY KeyBeforeIsRank
<1>4. Len(stamps) = Videos
  <2> HIDE DEF stamps
  <2> QED
    BY <1>1 DEF stamps
<1>5. stamps[K] = File[k].ts
  BY <1>1, NthOfRank, FileFacts
(* The next key packet.                                                     *)
<1>6. /\ j \in 0 .. Videos + 1 /\ K < j
      /\ \A l \in VideoKeys : k < l => j <= Rank(l)
      /\ j = Videos + 1 \/ \E l \in VideoKeys : k < l /\ j = Rank(l)
  <2> DEFINE A == {r \in Ranks : r > K}
             B == A \cup {Videos + 1}
  <2>1. j = Min(B)
    BY <1>4 DEF D!FirstAfter, D!Min, Min, Videos
  <2>2. \A l \in VideoKeys : /\ Rank(l) \in 1 .. Videos /\ l \in Nat /\ l \in Numbers /\ l \in Video
                             /\ (l <= k => Rank(l) <= K) /\ (k < l => K < Rank(l))
    <3>1. k \in Nat /\ k \in Numbers
      BY <1>1, FileFacts, VideoNumbers, RankFacts
    <3> QED
      BY <3>1, FileFacts, VideoNumbers, RankFacts
  <2>3. \A r \in B : r \in 0 .. Videos + 1 /\ K < r
    BY <1>1, <2>2 DEF Ranks
  <2>4. B \in SUBSET Nat /\ B # {}
    BY <1>1, <2>3
  <2>5. j \in B /\ \A r \in B : j <= r
    <3> HIDE DEF B, j
    <3> QED
      BY <2>1, <2>4, MinIsLeast
  <2>6. \A l \in VideoKeys : k < l => Rank(l) \in B
    BY <1>1, <2>2 DEF Ranks
  <2>7. ASSUME j # Videos + 1 PROVE \E l \in VideoKeys : k < l /\ j = Rank(l)
    <3>1. PICK l \in VideoKeys : j = Rank(l) /\ Rank(l) > K
      BY <2>5, <2>7 DEF Ranks
    <3>2. k < l
      <4>1. k \in Nat /\ l \in Nat
        BY <1>1, FileFacts, VideoNumbers
      <4>2. ~(l <= k)
        <5>1. Rank(l) \in Nat /\ K \in Nat /\ ~(Rank(l) <= K)
          BY <1>1, <2>2, <3>1
        <5> QED
          BY <2>2, <5>1
      <4> QED
        BY <4>1, <4>2
    <3> QED
      BY <3>1, <3>2
  <2> QED
    BY <2>3, <2>5, <2>6, <2>7
<1> HIDE DEF j, K, F, C
(* fill_queue stops with the batch that reaches it.                         *)
<1>7. /\ f.eof <=> C + n * Batch > Videos
      /\ F = IF f.eof THEN Videos ELSE C + n * Batch
      /\ C + (n - 1) * Batch <= Videos
      /\ f.eof \/ \E l \in VideoKeys : k < l /\ l <= f.cursor
      /\ \A l \in VideoKeys : k < l => C + (n - 1) * Batch < Rank(l)
  BY DEF JustEnough, C, F
<1>8. \A m \in Nat : m * Batch \in Nat /\ (1 + m) * Batch = Batch + m * Batch
  BY OneMoreBatch
<1>9. Batch \in Nat /\ Batch # 0 /\ n * Batch \in Nat /\ (n - 1) * Batch \in Nat /\ n - 1 \in Nat
      /\ n * Batch = Batch + (n - 1) * Batch
  <2>1. n - 1 \in Nat /\ n \in Nat
    OBVIOUS
  <2> QED
    BY <1>8, <2>1, OneMoreBatch, FileFacts
<1>10. C + (n - 1) * Batch < j
  <2>1. C \in Nat
    BY <1>1
  <2>2. CASE j = Videos + 1
    BY <1>1, <1>7, <1>9, <2>1, <2>2
  <2> QED
    BY <1>6, <1>7, <2>2
<1>11. j <= C + n * Batch
  <2>1. CASE f.eof
    BY <1>1, <1>6, <1>7, <1>9, <2>1
  <2>2. CASE ~f.eof
    <3>1. PICK l \in VideoKeys : k < l /\ l <= f.cursor
      BY <1>7, <2>2
    <3>2. Rank(l) <= F /\ Rank(l) \in Nat
      BY <3>1, FileFacts, RankFacts DEF F
    <3>3. j <= Rank(l) /\ F = C + n * Batch
      BY <1>6, <1>7, <2>2, <3>1
    <3> QED
      BY <1>1, <1>6, <3>2, <3>3
  <2> QED
    BY <2>1, <2>2
<1>12. n \in 0 .. Videos + 1
  <2>1. \A a, b \in Nat : b # 0 => a <= a * b
    OBVIOUS
  <2>2. n - 1 <= (n - 1) * Batch
    BY <1>9, <2>1
  <2> QED
    BY <1>1, <1>7, <1>9, <2>2
<1>13. D!Filled(C, j) = C + n * Batch
  <2> DEFINE T == {C + m * Batch : m \in 0 .. Videos + 1} \ 0 .. j - 1
  <2>1. D!Filled(C, j) = Min(T)
    BY <1>4 DEF D!Filled, D!Min, Min, Videos
  <2>2. C + n * Batch \in T
    <3>1. C + n * Batch \notin 0 .. j - 1
      BY <1>1, <1>6, <1>9, <1>11
    <3> QED
      BY <1>12, <3>1
  <2>3. ASSUME NEW m \in 0 .. Videos + 1, C + m * Batch \notin 0 .. j - 1
        PROVE  C + n * Batch <= C + m * Batch
    <3>1. m * Batch \in Nat /\ m \in Nat
      BY <1>1, <1>8
    <3>2. ~(m <= n - 1)
      <4> SUFFICES ASSUME m <= n - 1 PROVE FALSE
        OBVIOUS
      <4>1. \A a, b, d \in Nat : a <= b => a * d <= b * d
        OBVIOUS
      <4>2. m * Batch <= (n - 1) * Batch
        BY <1>9, <3>1, <4>1
      <4>3. C + m * Batch < j
        BY <1>1, <1>6, <1>9, <1>10, <3>1, <4>2
      <4> QED
        BY <1>1, <1>6, <2>3, <3>1, <4>3
    <3>3. n <= m
      BY <1>9, <3>1, <3>2
    <3>4. \A a, b, d \in Nat : a <= b => a * d <= b * d
      OBVIOUS
    <3>5. n * Batch <= m * Batch
      BY <1>9, <3>1, <3>3, <3>4
    <3> QED
      BY <1>1, <1>9, <3>1, <3>5
  <2>4. T \in SUBSET Nat /\ T # {}
    <3>1. \A m \in 0 .. Videos + 1 : C + m * Batch \in Nat
      BY <1>1, <1>8
    <3> QED
      BY <2>2, <3>1
  <2>5. \A y \in T : C + n * Batch <= y
    BY <2>3
  <2> HIDE DEF T
  <2>6. Min(T) \in T /\ \A y \in T : Min(T) <= y
    BY <2>4, MinIsLeast
  <2>7. Min(T) \in Nat /\ C + n * Batch \in Nat
    BY <2>2, <2>4, <2>6
  <2> QED
    BY <2>1, <2>2, <2>5, <2>6, <2>7
<1>14. D!EndSeen(C, j) = f.eof
  <2>1. D!EndSeen(C, j) <=> C + n * Batch > Videos
    BY <1>4, <1>13 DEF D!EndSeen, Videos
  <2>2. D!EndSeen(C, j) \in BOOLEAN
    BY DEF D!EndSeen
  <2> QED
    BY <1>7, <2>1, <2>2
<1>15. D!FetchedTo(C, j) = F
  <2>1. D!FetchedTo(C, j) = Min({C + n * Batch, Videos})
    BY <1>4, <1>13 DEF D!FetchedTo, D!Min, Min, Videos
  <2>2. Min({C + n * Batch, Videos}) = IF C + n * Batch > Videos THEN Videos ELSE C + n * Batch
    <3> DEFINE x == C + n * Batch
    <3>1. x \in Nat /\ Videos \in Nat
      BY <1>1, <1>9
    <3> HIDE DEF x
    <3>2. Min({x, Videos}) \in {x, Videos} /\ \A y \in {x, Videos} : Min({x, Videos}) <= y
      BY <3>1, MinIsLeast
    <3>3. Min({x, Videos}) = IF x > Videos THEN Videos ELSE x
      BY <3>1, <3>2
    <3> QED
      BY <3>3 DEF x
  <2> QED
    BY <1>7, <2>1, <2>2
<1>16. D!Opened.lastKey = FALSE
  BY DEF D!Opened
<1>17. D!SeekResults(D!Opened, t) =
         {[read |-> K - 1, fetched |-> D!FetchedTo(l - 1, j), eof |-> D!EndSeen(l - 1, j),
           held |-> 0, position |-> stamps[K], lastKey |-> D!Opened.lastKey] : l \in 1 .. K}
  BY <1>3 DEF D!SeekResults, D!SeekKeeping, Videos, Ranks, j
<1>18. (C + 1) - 1 = C
  BY <1>1
<1> HIDE DEF stamps
<1> QED
  BY <1>2, <1>5, <1>14, <1>15, <1>16, <1>17, <1>18 DEF K, F

(* What the loops of the three classes keep while there is a key packet to  *)
(* end on.  They begin at the position itself, since no time is left over   *)
(* from a seek that threw; the best stream is the first that is tried and,  *)
(* for time 0, the last; and a place that is taken is one before the key    *)
(* packet.                                                                  *)

InOrder == format \in {"timed", "quicktime", "rewind"}

(* The queue from the key packet on, with the batches that took.            *)
Ready ==
  \E k \in VideoKeys, c \in Numbers, n \in Nat \ {0} :
    /\ IsLatest(k, wanted) /\ c < k /\ k <= cursor
    /\ k \in queue /\ \A i \in queue : k <= i
    /\ JustEnough(Buffers, c, k, n)

(* The packet to end on, if key packets have a duration as far as it.       *)
Aimed(k) == IsLatest(k, wanted) /\ KeysLast(wanted)

OnTheWay ==
  /\ pc = "attempt" => pos = wanted /\ start = wanted /\ shift = 0
  /\ pc = "streams" =>
       /\ seekTime = wanted
       /\ idx <= Best => found = Nopts
       /\ time = 0 => idx <= Best
  /\ pc = "probe" => Ready

ContractInv ==
  /\ pc = "idle" => asked = Nopts
  /\ \A k \in VideoKeys : Aimed(k) => OnTheWay

LEMMA ContractInit == Init => ContractInv
BY DEF Init, ContractInv, OnTheWay

(* Where a seek of the best stream lands: before the packet to end on, or   *)
(* right before a later key packet.                                         *)
LEMMA LatestLandings ==
  ASSUME TypeInv, StampsIncrease, InOrder, ResultInv, pc = "streams",
         NEW k, IsLatest(k, wanted), NEW c \in Landings(Best, time)
  PROVE  c \in Numbers /\ (c < k \/ (time # 0 /\ c + 1 \in VideoKeys /\ k < c + 1))
<1>1. /\ cursor \in Numbers /\ format \in Kinds /\ time \in Nat /\ seekTime \in Nat
      /\ wanted \in Nat /\ time <= wanted
  <2>1. /\ cursor \in Numbers /\ format \in Kinds /\ time \in Nat /\ seekTime \in Nat
        /\ wanted \in Nat
    BY BufferTypes DEF TypeInv, TypeOK
  <2>2. time <= seekTime /\ seekTime <= wanted
    BY DEF ResultInv
  <2> QED
    BY <2>1, <2>2
<1>2. c \in Numbers /\ c \in Nat
  BY <1>1, LandingsType, FileFacts DEF Numbers
<1>3. /\ k \in VideoKeys /\ k \in Nat /\ k \in Video /\ 0 < k
      /\ \A j \in VideoKeys : j \in Nat /\ j \in Video /\ File[j].ts \in Nat
                             /\ (File[j].ts <= wanted => j <= k)
  BY FileFacts, VideoNumbers DEF IsLatest, None
<1>4. lastTs[Best] = Absent => \A i \in Video : cursor < i
  BY DEF ResultInv
<1>5. CASE time = 0
  <2>1. BeforeKeys(c)
    BY <1>4, <1>5, BestLandings DEF InOrder
  <2> QED
    BY <1>2, <1>3, <2>1 DEF BeforeKeys
<1>6. CASE time # 0
  <2>1. CASE c \in Backward(Best, time)
    <3> DEFINE S == AtOrBefore(Best, time)
    <3>1. S # {} /\ c = Max(S) - 1
      BY <1>6, <2>1 DEF Backward
    <3>2. /\ S \in SUBSET (0 .. Last1) /\ Last1 \in Nat
          /\ \A j \in S : j \in VideoKeys /\ File[j].ts <= time
      BY KeysOfType, KeysOfBest, FileFacts DEF AtOrBefore
    <3> HIDE DEF S
    <3>3. Max(S) \in S
      BY <3>1, <3>2, GreatestOf
    <3> DEFINE m == Max(S)
    <3> HIDE DEF m
    <3>4. m \in VideoKeys /\ File[m].ts <= time /\ c = m - 1
      BY <3>1, <3>2, <3>3 DEF m
    <3>5. m \in Nat /\ m <= k
      BY <1>1, <1>3, <3>4
    <3> QED
      BY <1>2, <1>3, <3>4, <3>5
  <2>2. CASE c \in Onward(Best, time)
    <3> DEFINE S == AtOrAfter(Best, time)
    <3>1. S # {} /\ c = Min(S) - 1
      BY <2>2 DEF Onward
    <3>2. S \in SUBSET Nat /\ \A j \in S : j \in VideoKeys
      BY KeysOfType, KeysOfBest DEF AtOrAfter
    <3> HIDE DEF S
    <3>3. Min(S) \in S
      BY <3>1, <3>2, MinIsLeast
    <3> DEFINE m == Min(S)
    <3> HIDE DEF m
    <3>4. m \in VideoKeys /\ m \in Nat /\ c = m - 1
      BY <1>3, <3>1, <3>2, <3>3 DEF m
    <3>5. c + 1 = m
      BY <1>2, <3>4
    <3> QED
      BY <1>2, <1>3, <1>6, <3>4, <3>5
  <2>3. CASE lastTs[Best] = Absent
    <3>1. c = cursor
      BY <2>3 DEF Landings, InOrder
    <3> QED
      BY <1>2, <1>3, <1>4, <2>3, <3>1
  <2>4. CASE c = 0
    BY <1>2, <1>3, <2>4
  <2>5. c \in Backward(Best, time) \/ c \in Onward(Best, time) \/ c = 0 \/ lastTs[Best] = Absent
    BY DEF Landings, InOrder
  <2> QED
    BY <2>1, <2>2, <2>3, <2>4, <2>5
<1> QED
  BY <1>5, <1>6

(* The stream is tried and its place taken exactly if it is before the      *)
(* packet.                                                                  *)
LEMMA ContractTry ==
  ASSUME TypeInv, StampsIncrease, VideoFirst, InOrder, LossInv, ResultInv, ContractInv, TryStream,
         NEW k, Aimed(k)
  PROVE  OnTheWay'
<1> USE FileFacts
<1>1. /\ seekTime \in Nat /\ cursor \in Numbers /\ idx \in 0 .. Max(StreamIds) + 1 /\ time \in Nat
      /\ \A d \in Numbers : Good(EmptyAt(d))
  BY BufferTypes DEF TypeInv, TypeOK
<1>2. /\ pc = "streams" /\ idx <= LastIdx /\ Seekable(idx)
      /\ UNCHANGED <<format, seekTime, time, wanted>>
  BY DEF TryStream
<1>3. k \in VideoKeys /\ IsLatest(k, wanted) /\ KeysLast(wanted)
  BY DEF Aimed, IsLatest
<1>4. /\ seekTime = wanted /\ (idx <= Best => found = Nopts) /\ (time = 0 => idx <= Best)
  BY <1>2, <1>3 DEF ContractInv, OnTheWay
<1>5. idx = Best /\ found = Nopts
  <2>1. idx \in StreamIds
    BY <1>1, <1>2 DEF LastIdx
  <2>2. idx >= Best
    BY <1>2, <2>1 DEF VideoFirst
  <2>3. idx <= Best
    BY <1>1, <1>2, <1>4 DEF LastIdx
  <2>4. idx \in Nat /\ Best \in Nat
    BY <1>1
  <2> QED
    BY <1>4, <2>2, <2>3, <2>4
<1>6. PICK c \in Landings(Best, time) :
        /\ Becomes(Left(c))
        /\ IF Better(Position(Left(c).queue)) /\ InTime(Left(c).queue)
             THEN pos' = time /\ pc' = "probe" /\ idx' = idx
             ELSE idx' = idx + 1 /\ UNCHANGED <<pos, pc>>
  BY <1>5, TryStreamMoves
<1>7. Better(Position(Left(c).queue))
  BY <1>5 DEF Better
<1>8. c \in Numbers /\ (c < k \/ (time # 0 /\ c + 1 \in VideoKeys /\ k < c + 1))
  BY <1>2, <1>3, LatestLandings
<1>9. Good(EmptyAt(c))
  BY <1>1, <1>8
<1>10. /\ Good(Left(c)) /\ \A i \in Left(c).queue : c < i
       /\ Left(c).queue \in SUBSET Video
  BY <1>1, <1>9, LeftLies DEF Good
<1>11. \A i \in Video : i \in Nat /\ i \in Packets /\ File[i].ts \in Nat
  BY VideoNumbers
<1>12. CASE c < k
  <2>1. IsLatest(k, seekTime) /\ KeysLast(seekTime) /\ IsCut(k) /\ NoLateCut
    <3>1. IsLatest(k, seekTime) /\ KeysLast(seekTime)
      BY <1>3, <1>4
    <3>2. \A j, l \in VideoKeys : j < l => File[j].ts <= File[l].ts
      <4>1. \A j \in VideoKeys : j \in Nat /\ j \in Packets
        BY VideoNumbers
      <4>2. \A a, b \in Nat : a < b => a <= b
        OBVIOUS
      <4> QED
        BY <4>1, <4>2
    <3>3. \A j \in VideoKeys : File[j].ts \in Nat
      BY <1>11
    <3>4. \A a, b, d \in Nat : a <= b /\ b <= d => a <= d
      OBVIOUS
    <3>5. \A j, l \in VideoKeys : j < l /\ IsCut(l) => File[j].ts <= seekTime
      BY <1>1, <3>2, <3>3, <3>4, Zenon DEF IsCut
    <3>6. NoLateCut
      BY <3>1, <3>5 DEF KeysLast, NoLateCut
    <3> QED
      BY <3>1, <3>6 DEF IsLatest, KeysLast, IsCut
  <2>2. PICK n \in Nat \ {0} : Grown(EmptyAt(c), Left(c)) /\ JustEnough(Left(c), c, k, n)
    BY <1>1, <1>8, <1>9, <1>12, <2>1, LeftMeetsContract
  <2>3. /\ c \in Nat /\ k \in Nat /\ k \in Video /\ Left(c).cursor \in Nat /\ k <= Last1
        /\ File[k].ts <= seekTime /\ File[k].ts \in Nat
    <3>1. Left(c).cursor \in Nat /\ c \in Nat
      BY <1>8, <1>10 DEF Good, Numbers
    <3>2. k \in VideoKeys /\ File[k].ts <= seekTime
      BY <2>1 DEF IsLatest
    <3>3. k \in Video /\ k \in Packets /\ k \in 1 .. Last1
      BY <3>2
    <3> QED
      BY <1>11, <3>1, <3>2, <3>3
  <2>4. k <= Left(c).cursor
    <3>1. Left(c).eof => Left(c).cursor = Last1
      BY <1>10 DEF Good
    <3>2. ~(Left(c).cursor < k) \/ Left(c).eof
      BY <1>1, <1>3, <1>9, <2>1, LeftSettles, SMTT(30) DEF SettledAt
    <3> QED
      BY <2>3, <3>1, <3>2
  <2>5. /\ k \in Left(c).queue /\ \A i \in Left(c).queue : k <= i
    <3>1. EmptyAt(c).cursor = c /\ EmptyAt(c).queue = {}
      BY DEF EmptyAt
    <3>2. \A j \in VideoKeys : File[j].ts <= seekTime => j <= k
      BY <2>1 DEF IsLatest
    <3>5. \A j \in VideoKeys : IsCut(j) => j <= k
      BY <3>2 DEF IsCut
    <3>3. k \in Left(c).queue
      BY <1>12, <2>2, <2>3, <2>4, <3>1, <3>5, ZenonT(60) DEF Grown
    <3>4. \A i \in Left(c).queue : k <= i
      BY <1>3, <1>10, <1>12, <2>1, <2>2, <2>3, <2>4, <3>1 DEF Grown
    <3> QED
      BY <3>3, <3>4
  <2>6. InTime(Left(c).queue)
    <3> DEFINE q == Left(c).queue
    <3>1. q # {} /\ q \in SUBSET Video
      BY <1>10, <2>5
    <3> HIDE DEF q
    <3>2. Min(q) \in q /\ \A i \in q : Min(q) <= i
      BY <3>1, LeastOfQueue
    <3>3. k \in q /\ \A i \in q : k <= i
      BY <2>5 DEF q
    <3>4. Min(q) = k
      <4>1. Min(q) \in Nat
        BY <1>11, <3>1, <3>2
      <4>2. Min(q) <= k /\ k <= Min(q)
        BY <3>2, <3>3
      <4> QED
        BY <2>3, <4>1, <4>2
    <3>5. InTime(q)
      BY <2>3, <3>1, <3>4 DEF InTime, Position
    <3> QED
      BY <3>5 DEF q
  <2>7. pc' = "probe"
    BY <1>6, <1>7, <2>6
  <2>8. /\ queue' = Left(c).queue /\ cursor' = Left(c).cursor /\ eof' = Left(c).eof
    BY <1>6 DEF Becomes
  <2>9. JustEnough(Buffers', c, k, n)
    BY <2>2, <2>8 DEF JustEnough, Buffers
  <2>10. Ready'
    <3>1. IsLatest(k, wanted')
      BY <1>2, <1>3
    <3>2. JustEnough(Buffers, c, k, n)'
      BY <2>9 DEF JustEnough
    <3> QED
      BY <1>3, <1>8, <1>12, <2>4, <2>5, <2>8, <3>1, <3>2 DEF Ready, IsLatest
  <2> QED
    BY <2>7, <2>10 DEF OnTheWay
<1>13. CASE ~(c < k)
  <2>1. time # 0 /\ c + 1 \in VideoKeys /\ k < c + 1
    BY <1>8, <1>13
  <2>2. /\ c + 1 \in Video /\ c + 1 \in Nat /\ c \in Nat /\ k \in Nat /\ File[c + 1].ts \in Nat
        /\ c + 1 \in Packets
    BY <1>3, <1>8, <1>11, <2>1 DEF Numbers
  <2>3. ~(File[c + 1].ts <= seekTime)
    <3>1. ~(c + 1 <= k)
      BY <2>1, <2>2
    <3> QED
      BY <1>3, <1>4, <2>1, <3>1 DEF IsLatest
  <2>4. ~InTime(Left(c).queue)
    <3> SUFFICES ASSUME InTime(Left(c).queue) PROVE FALSE
      OBVIOUS
    <3> DEFINE q == Left(c).queue
               m == Min(q)
    <3>1. q # {} /\ q \in SUBSET Video /\ File[m].ts <= seekTime /\ \A i \in q : c < i
      BY <1>10 DEF InTime, Position
    <3> HIDE DEF q
    <3>2. m \in q
      BY <3>1, LeastOfQueue
    <3> HIDE DEF m
    <3>3. m \in Nat /\ m \in Packets /\ File[m].ts \in Nat /\ c + 1 <= m
      BY <1>11, <2>2, <3>1, <3>2
    <3>4. File[c + 1].ts <= File[m].ts
      BY <2>2, <3>3
    <3>5. \A x, y, z \in Nat : x <= y /\ y <= z => x <= z
      OBVIOUS
    <3>6. seekTime \in Nat
      BY <1>1
    <3>7. File[c + 1].ts <= seekTime
      BY <2>2, <3>1, <3>3, <3>4, <3>5, <3>6, Zenon
    <3> QED
      BY <2>3, <3>7
  <2>5. idx' = idx + 1 /\ pc' = "streams"
    BY <1>2, <1>6, <2>4
  <2>6. ~(idx' <= Best)
    BY <1>5, <2>5
  <2> QED
    BY <1>2, <1>4, <2>1, <2>5, <2>6 DEF OnTheWay
<1> QED
  BY <1>12, <1>13

(* What get_seek_result reads then is the key packet.                       *)
LEMMA ReadyPops ==
  ASSUME TypeInv, Ready
  PROVE  \E k \in VideoKeys, c \in Numbers, n \in Nat \ {0} :
           /\ IsLatest(k, wanted) /\ c < k /\ JustEnough(Buffers, c, k, n)
           /\ Popped.packet = k /\ Accepts(k)
           /\ Popped.buffers.cursor = cursor /\ Popped.buffers.eof = eof
<1>1. PICK k \in VideoKeys, c \in Numbers, n \in Nat \ {0} :
        /\ IsLatest(k, wanted) /\ c < k
        /\ k \in queue /\ \A i \in queue : k <= i
        /\ JustEnough(Buffers, c, k, n)
  BY DEF Ready
<1>2. Good(Buffers) /\ Buffers.queue = queue /\ Buffers.cursor = cursor /\ Buffers.eof = eof
  BY DEF TypeInv, Buffers
<1>3. /\ Popped.packet \in queue /\ \A i \in queue : Popped.packet <= i
      /\ Popped.buffers.cursor = cursor /\ Popped.buffers.eof = eof
  BY <1>1, <1>2, PoppedFacts
<1>4. queue \in SUBSET Video /\ k \in Nat /\ Popped.packet \in Nat
  <2>1. queue \in SUBSET Video
    BY <1>2 DEF Good
  <2> QED
    BY <1>1, <1>3, <2>1, VideoNumbers
<1>5. Popped.packet <= k /\ k <= Popped.packet
  BY <1>1, <1>3
<1>6. Popped.packet = k
  BY <1>4, <1>5
<1>7. Accepts(k)
  BY <1>1, FileFacts, VideoNumbers DEF Accepts, IsLatest, VideoKeys
<1> QED
  BY <1>1, <1>3, <1>6, <1>7

LEMMA ContractNext ==
  ASSUME TypeInv, StampsIncrease, VideoFirst, InOrder, LossInv, ResultInv, ContractInv, [Next]_vars
  PROVE  ContractInv'
<1> USE FileFacts
<1>1. /\ idx \in 0 .. Max(StreamIds) + 1 /\ time \in Nat /\ best \in StreamIds \cup {Nopts}
      /\ wanted \in Nat /\ pos \in Nat /\ Best \in Nat
  BY DEF TypeInv, TypeOK
<1>2. format # "unseekable" /\ format # "mpegts"
  BY DEF InOrder
<1>3. \A k \in VideoKeys : Aimed(k) => OnTheWay
  BY DEF ContractInv
<1>4. CASE \E t \in Targets : RequestSeek(t)
  <2>1. PICK t \in Targets : RequestSeek(t)
    BY <1>4
  <2>2. asked = Nopts
    BY <2>1 DEF RequestSeek, ContractInv
  <2>3. pc' = "attempt" /\ wanted' = t /\ pos' = t /\ start' = t /\ shift' = 0
    BY <2>1, <2>2 DEF RequestSeek
  <2> QED
    BY <2>3 DEF ContractInv, OnTheWay
<1>5. CASE Attempt
  <2>1. /\ pc = "attempt" /\ pc' = "streams" /\ time' = pos' /\ seekTime' = pos' /\ pos' = NextPos
        /\ idx' = (IF time' > 0 THEN Best ELSE 0) /\ found' = Nopts /\ wanted' = wanted
    BY <1>5 DEF Attempt, Enter
  <2>2. ASSUME NEW k \in VideoKeys, Aimed(k) PROVE OnTheWay'
    <3>1. pos = wanted /\ start = wanted /\ shift = 0
      BY <1>3, <2>1, <2>2 DEF OnTheWay
    <3>2. MaxShift \in Nat /\ MaxShift # 0
      BY FileIsReadable
    <3>3. pos' = wanted
      BY <1>1, <2>1, <3>1, <3>2 DEF NextPos, Near
    <3>4. time' = 0 => idx' <= Best
      BY <1>1, <2>1
    <3> QED
      BY <2>1, <3>3, <3>4 DEF OnTheWay
  <2> QED
    BY <2>1, <2>2 DEF ContractInv, Aimed, IsLatest, KeysLast
<1>6. CASE SkipStream
  <2>1. /\ pc = "streams" /\ idx # Best /\ idx' = idx + 1
        /\ UNCHANGED <<pc, time, found, seekTime, wanted>>
    BY <1>6 DEF SkipStream
  <2>2. (idx + 1 <= Best => idx <= Best) /\ (idx <= Best => idx + 1 <= Best)
    BY <1>1, <2>1
  <2>3. ASSUME NEW k \in VideoKeys, Aimed(k) PROVE OnTheWay'
    <3>1. OnTheWay
      BY <1>3, <2>3
    <3> QED
      BY <2>1, <2>2, <3>1 DEF OnTheWay
  <2> QED
    BY <2>1, <2>3 DEF ContractInv, Aimed, IsLatest, KeysLast
<1>7. CASE StreamRefuses
  <2>1. /\ pc = "streams" /\ idx <= LastIdx /\ Seekable(idx) /\ Landings(idx, time) = {}
        /\ idx' = idx + 1 /\ UNCHANGED <<pc, time, found, seekTime, wanted>>
    BY <1>7 DEF StreamRefuses
  <2>2. ASSUME NEW k \in VideoKeys, Aimed(k) PROVE OnTheWay'
    <3>1. OnTheWay
      BY <1>3, <2>2
    <3>2. idx \in StreamIds
      BY <1>1, <2>1 DEF LastIdx
    <3>3. idx >= Best
      BY <2>1, <3>2 DEF VideoFirst
    <3>4. time # 0
      BY <1>2, <2>1, <3>2, StartIsFound
    <3>5. ~(idx' <= Best)
      BY <1>1, <2>1, <3>3
    <3> QED
      BY <2>1, <3>1, <3>4, <3>5 DEF OnTheWay
  <2> QED
    BY <2>1, <2>2 DEF ContractInv, Aimed, IsLatest, KeysLast
<1>8. CASE TryStream
  <2>1. wanted' = wanted /\ pc' # "idle"
    <3>1. pc = "streams" /\ wanted' = wanted
      BY <1>8 DEF TryStream
    <3>2. pc' = "probe" \/ pc' = pc
      BY <1>8, TryStreamMoves
    <3> QED
      BY <3>1, <3>2
  <2>2. \A k \in VideoKeys : Aimed(k) => OnTheWay'
    BY <1>8, ContractTry
  <2> QED
    BY <2>1, <2>2 DEF ContractInv, Aimed, IsLatest, KeysLast
<1>9. CASE TakeBest
  <2>1. pc = "streams" /\ idx > LastIdx /\ time = 0 /\ wanted' = wanted
    BY <1>9 DEF TakeBest
  <2>2. idx > Best
    BY <1>1, <2>1 DEF LastIdx
  <2>3. best # Nopts
    BY <2>1, <2>2 DEF LossInv, TriedForStart
  <2>4. pc' = "probe"
    <3>1. Landings(best, 0) # {}
      BY <1>1, <1>2, <2>3, StartIsFound
    <3> QED
      BY <1>9, <3>1 DEF TakeBest, Found
  <2>5. ASSUME NEW k \in VideoKeys, Aimed(k) PROVE FALSE
    <3>1. idx <= Best
      BY <1>3, <2>1, <2>5 DEF OnTheWay
    <3> QED
      BY <1>1, <2>2, <3>1
  <2> QED
    BY <2>1, <2>4, <2>5 DEF ContractInv, Aimed, IsLatest, KeysLast
<1>10. CASE BackOff
  <2>1. /\ pc = "streams" /\ pc' = "streams" /\ found' = Nopts
        /\ idx' = (IF time' > 0 THEN Best ELSE 0) /\ time' = StepBack(time, step)
        /\ UNCHANGED <<seekTime, wanted>>
    BY <1>10 DEF BackOff, Enter
  <2>2. time' = 0 => idx' <= Best
    BY <1>1, <2>1
  <2>3. ASSUME NEW k \in VideoKeys, Aimed(k) PROVE OnTheWay'
    <3>1. OnTheWay
      BY <1>3, <2>3
    <3> QED
      BY <2>1, <2>2, <3>1 DEF OnTheWay
  <2> QED
    BY <2>1, <2>3 DEF ContractInv, Aimed, IsLatest, KeysLast
<1>11. CASE Probe
  <2>1. /\ pc = "probe" /\ wanted' = wanted
        /\ pc' = "idle" => asked' = Nopts
    BY <1>11 DEF Probe
  <2>2. ASSUME NEW k \in VideoKeys, Aimed(k) PROVE OnTheWay'
    <3>1. Ready
      BY <1>3, <2>1, <2>2 DEF OnTheWay
    <3>2. Popped.packet \in VideoKeys /\ Accepts(Popped.packet)
      BY <3>1, ReadyPops
    <3>3. pc' = "idle"
      BY <1>11, <3>2 DEF Probe, Accepts
    <3> QED
      BY <3>3 DEF OnTheWay
  <2> QED
    BY <2>1, <2>2 DEF ContractInv, Aimed, IsLatest, KeysLast
<1>12. CASE Read
  <2>1. pc = "idle" /\ pc' = "idle" /\ asked' = asked
    BY <1>12 DEF Read
  <2> QED
    BY <2>1 DEF ContractInv, OnTheWay
<1>13. CASE UNCHANGED vars
  BY <1>13 DEF ContractInv, OnTheWay, Ready, Aimed, IsLatest, KeysLast, JustEnough, Buffers, vars, parser, demuxer,
               looping, trying, backing, stream
<1> QED
  BY <1>4, <1>5, <1>6, <1>7, <1>8, <1>9, <1>10, <1>11, <1>12, <1>13 DEF Next, SeekStep

MeetInv ==
  /\ FindInv
  /\ StampsIncrease /\ VideoFirst /\ InOrder => ContractInv

LEMMA MeetInvNext == MeetInv /\ [Next]_vars => MeetInv'
<1> SUFFICES ASSUME MeetInv, [Next]_vars PROVE MeetInv'
  OBVIOUS
<1>1. format' = format
  BY DEF Next, SeekStep, RequestSeek, Attempt, SkipStream, StreamRefuses, TryStream, TakeBest,
         BackOff, Probe, Read
<1>2. FindInv'
  BY FindInvNext DEF MeetInv
<1>3. ASSUME StampsIncrease, VideoFirst, InOrder PROVE ContractInv'
  <2>1. FindInv /\ ContractInv /\ format # "unseekable"
    BY <1>3 DEF MeetInv, InOrder
  <2>2. TypeInv /\ LossInv /\ ResultInv
    BY <1>3, <2>1 DEF FindInv, SeekInv
  <2> QED
    BY <1>3, <2>1, <2>2, ContractNext
<1> QED
  BY <1>1, <1>2, <1>3 DEF MeetInv, StampsIncrease, VideoFirst, InOrder

LEMMA EndsAsAllowed ==
  ASSUME MeetInv, [Next]_vars, SeekEnds, StampsIncrease, VideoFirst, InOrder,
         KeysLast(wanted), D!KeyBefore(wanted) # 0
  PROVE  Chain' \in D!SeekResults(D!Opened, wanted)
<1>1. TypeInv /\ ContractInv /\ pc = "probe" /\ pc' = "idle"
  BY DEF MeetInv, FindInv, SeekInv, SeekEnds
<1>2. Probe
  BY <1>1 DEF Next, SeekStep, RequestSeek, Attempt, SkipStream, StreamRefuses,
              TryStream, TakeBest, BackOff, Read
<1>3. Ready
  BY <1>1, KeyBeforeIsRank DEF ContractInv, Aimed, OnTheWay
<1>4. PICK k \in VideoKeys, c \in Numbers, n \in Nat \ {0} :
        /\ IsLatest(k, wanted) /\ c < k /\ JustEnough(Buffers, c, k, n)
        /\ Popped.packet = k
        /\ Popped.buffers.cursor = cursor /\ Popped.buffers.eof = eof
  BY <1>1, <1>3, ReadyPops
<1>5. buffered' = k /\ cursor' = cursor /\ eof' = eof
  BY <1>2, <1>4 DEF Probe, Becomes
<1>6. Buffers.cursor = cursor /\ Buffers.eof = eof /\ cursor \in Numbers /\ eof \in BOOLEAN
  BY <1>1 DEF TypeInv, Good, Buffers
<1>7. [read |-> Rank(k) - 1, fetched |-> Rank(cursor), eof |-> eof, held |-> 0,
       position |-> File[k].ts, lastKey |-> FALSE] \in D!SeekResults(D!Opened, wanted)
  BY <1>4, <1>6, ChainIsAllowed
<1>8. Chain' = [read |-> Rank(k) - 1, fetched |-> Rank(cursor), eof |-> eof, held |-> 0,
                position |-> File[k].ts, lastKey |-> FALSE]
  BY <1>5 DEF Chain, Rank
<1> QED
  BY <1>7, <1>8

(* DemuxerQueue::seek and StreamReader::seek implement what module Decoding *)
(* takes for granted, for every file whose video is the first stream and    *)
(* has increasing time stamps, every number of packets read at once and all *)
(* lengths of the steps back: a seek by time stamps ends on the latest key  *)
(* packet at or before the position, with exactly the batches in the queue  *)
(* that it takes to see the next.  The key packets at or before the         *)
(* position must have a duration: read_packets_from_parser does not cut the *)
(* queue at one of duration 0 (demuxer_queue.cpp:280, 284).                 *)
THEOREM ContractIsMet == Spec => SeekMeetsContract
<1>1. Init => MeetInv
  BY TypeInvInit, LossInit, ResultInit, ContractInit DEF MeetInv, FindInv, SeekInv
<1>2. MeetInv /\ [Next]_vars
        => [SeekEnds /\ StampsIncrease /\ VideoFirst /\ KeysLast(wanted)
              /\ format \in {"timed", "quicktime", "rewind"}
              /\ D!KeyBefore(wanted) # 0
             => Chain' \in D!SeekResults(D!Opened, wanted)]_vars
  BY EndsAsAllowed DEF InOrder
<1> QED
  BY <1>1, <1>2, MeetInvNext, PTL DEF Spec, SeekMeetsContract

----------------------------------------------------------------------------
(* A seek comes to its end.  Three numbers tell how far it is from there:   *)
(* how far StreamReader can still go back, how far DemuxerQueue can within  *)
(* one try, and how many streams or packets are left to be looked at.       *)

PosToGo == IF pc = "attempt" THEN 2 * NextPos + 1 ELSE 2 * pos
TimeToGo == IF pc = "streams" THEN time + 1 ELSE 0

Unread(f) == {i \in Video : i \in f.queue \/ f.cursor < i}

TriesToGo ==
  IF pc = "streams" THEN Max(StreamIds) + 2 - idx
  ELSE IF pc = "probe" THEN Cardinality(Unread(Buffers)) ELSE 0

Closer ==
  \/ PosToGo' < PosToGo
  \/ PosToGo' = PosToGo /\ TimeToGo' < TimeToGo
  \/ PosToGo' = PosToGo /\ TimeToGo' = TimeToGo /\ TriesToGo' < TriesToGo

(* The three as one, and when it is nearer to the end.                      *)
Distance == <<PosToGo, <<TimeToGo, TriesToGo>>>>
Distances == Nat \X (Nat \X Nat)
Below == OpToRel(<, Nat)
Nearer == LexPairOrdering(Below, LexPairOrdering(Below, Below, Nat, Nat), Nat, Nat \X Nat)

(* No distance becomes nearer for ever: the loop of StreamReader::seek over *)
(* its streams and that of seek_internal, which backs off, have an end.     *)
THEOREM NearerEnds == IsWellFoundedOn(Nearer, Distances)
<1>1. IsWellFoundedOn(Below, Nat)
  BY NatLessThanWellFounded DEF Below
<1>2. IsWellFoundedOn(LexPairOrdering(Below, Below, Nat, Nat), Nat \X Nat)
  BY <1>1, WFLexPairOrdering
<1> QED
  BY <1>1, <1>2, WFLexPairOrdering DEF Nearer, Distances

LEMMA NearerFacts ==
  ASSUME NEW a \in Nat, NEW b \in Nat, NEW c \in Nat,
         NEW x \in Nat, NEW y \in Nat, NEW z \in Nat,
         \/ x < a
         \/ x = a /\ y < b
         \/ x = a /\ y = b /\ z < c
  PROVE  <<<<x, <<y, z>>>>, <<a, <<b, c>>>>>> \in Nearer
<1>1. \A u, v \in Nat : u < v => <<u, v>> \in Below
  BY DEF Below, OpToRel
<1>2. <<y, z>> \in Nat \X Nat /\ <<b, c>> \in Nat \X Nat
  OBVIOUS
<1>3. y < b \/ (y = b /\ z < c)
        => <<<<y, z>>, <<b, c>>>> \in LexPairOrdering(Below, Below, Nat, Nat)
  BY <1>1, <1>2 DEF LexPairOrdering
<1> QED
  BY <1>1, <1>2, <1>3 DEF Nearer, LexPairOrdering

(* Both loops go back by steps that are not zero, DemuxerQueue from where   *)
(* StreamReader is.                                                         *)
BackInv ==
  /\ pc \in {"streams", "probe"} => pos = 0 \/ shift > 0
  /\ pc = "streams" => time <= pos /\ step > 0

EndInv == TypeInv /\ BackInv

LEMMA UnreadFacts ==
  ASSUME NEW f
  PROVE  IsFiniteSet(Unread(f)) /\ Cardinality(Unread(f)) \in Nat
<1>1. Unread(f) \in SUBSET (1 .. Last1) /\ Last1 \in Nat
  BY FileFacts DEF Unread
<1> QED
  BY <1>1, UpToFinite

(* A packet probed is a packet less to be probed.                           *)
LEMMA PoppedShrinks ==
  ASSUME TypeInv, Popped.packet # None
  PROVE  Cardinality(Unread(Popped.buffers)) < Cardinality(Unread(Buffers))
<1>1. PICK f : /\ Grown(Buffers, f)
               /\ f.queue = {} => Popped.packet = None
               /\ f.queue # {} => Popped.packet \in f.queue
               /\ Popped.buffers.queue = f.queue \ {Popped.packet}
               /\ Popped.buffers.cursor = f.cursor
  BY PoppedFacts DEF TypeInv
<1>2. PICK p : p = Popped.packet
  OBVIOUS
<1>3. PICK b : b = Popped.buffers
  OBVIOUS
<1>4. /\ p \in f.queue /\ f.queue \in SUBSET Video /\ p <= f.cursor /\ f.cursor \in Nat
      /\ cursor <= f.cursor /\ cursor \in Nat /\ p \in Nat
  <2>1. Good(f) /\ Good(Buffers) /\ Buffers.cursor = cursor
    BY <1>1 DEF Grown, TypeInv, Buffers
  <2>2. p \in f.queue /\ f.queue \in SUBSET Video /\ f.cursor \in Nat /\ cursor \in Nat
    BY <1>1, <1>2, <2>1, FileFacts DEF Good, Numbers
  <2> QED
    BY <1>1, <2>1, <2>2, VideoNumbers DEF Grown, Good
<1>5. ASSUME NEW i \in Unread(b) PROVE i \in Unread(Buffers)
  <2>1. i \in Video /\ i \in Nat
    BY VideoNumbers DEF Unread
  <2>2. i \in f.queue \/ f.cursor < i
    BY <1>1, <1>3, <1>5 DEF Unread
  <2>3. i \in queue \/ cursor < i
    <3>1. CASE i \in f.queue
      BY <1>1, <2>1, <3>1 DEF Grown, Buffers
    <3>2. CASE f.cursor < i
      BY <1>4, <2>1, <3>2
    <3> QED
      BY <2>2, <3>1, <3>2
  <2> QED
    BY <2>1, <2>3 DEF Unread, Buffers
<1>6. p \notin Unread(b)
  <2>1. p \notin b.queue /\ b.cursor = f.cursor
    BY <1>1, <1>2, <1>3
  <2> QED
    BY <1>4, <2>1 DEF Unread
<1>7. p \in Unread(Buffers)
  <2>1. p \in Video
    BY <1>4
  <2>2. p \in queue \/ cursor < p
    BY <1>1, <1>4, <2>1 DEF Grown, Buffers
  <2> QED
    BY <2>1, <2>2 DEF Unread, Buffers
<1>8. Unread(b) \subseteq Unread(Buffers) /\ Unread(b) # Unread(Buffers)
  BY <1>5, <1>6, <1>7
<1>9. IsFiniteSet(Unread(Buffers))
  BY UnreadFacts
<1>10. Cardinality(Unread(b)) < Cardinality(Unread(Buffers))
  BY <1>8, <1>9, FS_Subset, UnreadFacts
<1> QED
  BY <1>3, <1>10

LEMMA BackInit == Init => BackInv
BY DEF Init, BackInv

(* What each kind of step does to the three numbers and to what they rest   *)
(* on.                                                                      *)
LEMMA StepsCloser ==
  ASSUME EndInv, SeekStep
  PROVE  BackInv' /\ (pc' = "idle" \/ Closer)
<1>1. /\ time \in Nat /\ step \in Nat /\ pos \in Nat /\ shift \in Nat /\ start \in Nat
      /\ idx \in 0 .. Max(StreamIds) + 1 /\ Max(StreamIds) \in Nat /\ idx \in Nat
      /\ pc \in Points /\ Best \in Nat
      /\ BackStep \in Nat \ {0} /\ ShortStep \in Nat \ {0} /\ MaxStep \in Nat \ {0}
  BY FileFacts, FileIsReadable DEF EndInv, TypeInv, TypeOK
<1>2. TypeInv /\ BackInv
  BY DEF EndInv
<1>3. CASE Attempt
  <2>1. NextPos \in Nat
    BY <1>1 DEF NextPos, Near
  <2>2. /\ pc = "attempt" /\ pc' = "streams" /\ pos' = NextPos /\ time' = NextPos
        /\ step' = BackStep
        /\ shift' = IF ~Near \/ shift >= MaxStep THEN shift
                    ELSE IF shift = 0 THEN ShortStep ELSE 2 * shift
    BY <1>3 DEF Attempt, Enter
  <2>3. pos' = 0 \/ shift' > 0
    BY <1>1, <2>2 DEF NextPos
  <2>4. PosToGo' < PosToGo
    BY <2>1, <2>2 DEF PosToGo
  <2> QED
    BY <1>1, <2>1, <2>2, <2>3, <2>4 DEF BackInv, Closer
<1>4. CASE SkipStream
  BY <1>1, <1>2, <1>4 DEF SkipStream, BackInv, Closer, PosToGo, TimeToGo, TriesToGo
<1>5. CASE StreamRefuses
  BY <1>1, <1>2, <1>5 DEF StreamRefuses, BackInv, Closer, PosToGo, TimeToGo, TriesToGo
<1>6. CASE TryStream
  <2>1. \/ pos' = time /\ pc' = "probe" /\ idx' = idx
        \/ idx' = idx + 1 /\ pos' = pos /\ pc' = pc
    BY <1>6, TryStreamMoves
  <2>2. pc = "streams" /\ UNCHANGED <<looping, shift, start>> /\ time <= pos
    BY <1>2, <1>6 DEF TryStream, BackInv
  <2>3. CASE pos' = time /\ pc' = "probe"
    <3>1. pos' = 0 \/ shift' > 0
      BY <1>1, <1>2, <2>2, <2>3 DEF BackInv
    <3>2. PosToGo' <= PosToGo /\ PosToGo' \in Nat /\ PosToGo \in Nat
      BY <1>1, <2>2, <2>3 DEF PosToGo
    <3>3. TimeToGo' < TimeToGo
      BY <1>1, <2>2, <2>3 DEF TimeToGo
    <3> QED
      BY <2>3, <3>1, <3>2, <3>3 DEF BackInv, Closer
  <2>4. CASE idx' = idx + 1 /\ pos' = pos /\ pc' = pc
    BY <1>1, <1>2, <2>2, <2>4 DEF BackInv, Closer, PosToGo, TimeToGo, TriesToGo
  <2> QED
    BY <2>1, <2>3, <2>4
<1>7. CASE TakeBest
  <2>1. pc = "streams" /\ time = 0
    BY <1>7 DEF TakeBest
  <2>2. \/ pc' = "idle"
        \/ pos' = time /\ pc' = "probe" /\ UNCHANGED <<looping, shift>>
    BY <1>7 DEF TakeBest, Found
  <2>3. CASE pc' = "idle"
    BY <2>3 DEF BackInv
  <2>4. CASE pos' = time /\ pc' = "probe" /\ UNCHANGED <<looping, shift>>
    <3>1. PosToGo' <= PosToGo /\ PosToGo' \in Nat /\ PosToGo \in Nat
      BY <1>1, <2>1, <2>4 DEF PosToGo
    <3>2. TimeToGo' < TimeToGo
      BY <2>1, <2>4 DEF TimeToGo
    <3> QED
      BY <2>1, <2>4, <3>1, <3>2 DEF BackInv, Closer
  <2> QED
    BY <2>2, <2>3, <2>4
<1>8. CASE BackOff
  <2>1. /\ pc = "streams" /\ pc' = "streams" /\ time > 0 /\ step > 0
        /\ time' = StepBack(time, step) /\ step' = 2 * step
        /\ UNCHANGED <<pos, shift, start>> /\ time <= pos
    BY <1>2, <1>8 DEF BackOff, Enter, BackInv
  <2>2. StepBack(time, step) \in Nat /\ StepBack(time, step) < time
    BY <1>1, <2>1 DEF StepBack
  <2> QED
    BY <1>1, <1>2, <2>1, <2>2 DEF BackInv, Closer, PosToGo, TimeToGo
<1>9. CASE Probe
  <2>1. /\ pc = "probe"
        /\ \/ /\ Popped.packet # None /\ Becomes(Popped.buffers)
              /\ UNCHANGED <<looping, backing, pc>>
           \/ pos # 0 /\ pc' = "attempt" /\ UNCHANGED <<looping, backing>>
           \/ pc' = "idle"
    BY <1>9 DEF Probe
  <2>2. CASE Popped.packet # None /\ Becomes(Popped.buffers) /\ UNCHANGED <<looping, backing, pc>>
    <3>1. Unread(Buffers)' = Unread(Popped.buffers)
      BY <2>2 DEF Becomes, Unread, Buffers
    <3>2. TriesToGo' < TriesToGo
      BY <1>2, <2>1, <2>2, <3>1, PoppedShrinks DEF TriesToGo
    <3>3. PosToGo' = PosToGo /\ TimeToGo' = TimeToGo
      BY <2>1, <2>2 DEF PosToGo, TimeToGo
    <3> QED
      BY <1>2, <2>1, <2>2, <3>2, <3>3 DEF BackInv, Closer
  <2>3. CASE pos # 0 /\ pc' = "attempt" /\ UNCHANGED <<looping, backing>>
    <3>1. NextPos' = NextPos /\ shift > 0
      BY <1>2, <2>1, <2>3 DEF NextPos, Near, BackInv
    <3>2. NextPos \in Nat /\ NextPos < pos
      BY <1>1, <2>3, <3>1 DEF NextPos, Near
    <3>3. PosToGo' < PosToGo
      BY <1>1, <2>1, <2>3, <3>1, <3>2 DEF PosToGo
    <3> QED
      BY <2>3, <3>3 DEF BackInv, Closer
  <2>4. CASE pc' = "idle"
    BY <2>4 DEF BackInv
  <2> QED
    BY <2>1, <2>2, <2>3, <2>4
<1> QED
  BY <1>3, <1>4, <1>5, <1>6, <1>7, <1>8, <1>9 DEF SeekStep

DistanceOK == PosToGo \in Nat /\ TimeToGo \in Nat /\ TriesToGo \in Nat

LEMMA DistanceType == TypeInv => DistanceOK
<1> SUFFICES ASSUME TypeInv PROVE DistanceOK
  OBVIOUS
<1>1. /\ time \in Nat /\ pos \in Nat /\ shift \in Nat
      /\ idx \in 0 .. Max(StreamIds) + 1 /\ Max(StreamIds) \in Nat
  BY FileFacts DEF TypeInv, TypeOK
<1>2. NextPos \in Nat
  BY <1>1 DEF NextPos, Near
<1>3. Cardinality(Unread(Buffers)) \in Nat
  BY UnreadFacts
<1> QED
  BY <1>1, <1>2, <1>3 DEF DistanceOK, PosToGo, TimeToGo, TriesToGo

LEMMA StepsNearer ==
  ASSUME EndInv, SeekStep, pc' # "idle"
  PROVE  <<Distance', Distance>> \in Nearer
<1>1. TypeInv /\ TypeInv' /\ Closer
  BY StepsCloser, NextType DEF EndInv, Next
<1>2. DistanceOK /\ DistanceOK'
  BY <1>1, DistanceType, PTL
<1> QED
  BY <1>1, <1>2, NearerFacts DEF DistanceOK, Distance, Closer

LEMMA EndInvNext == EndInv /\ [Next]_vars => EndInv'
<1> SUFFICES ASSUME EndInv, [Next]_vars PROVE BackInv'
  BY NextType DEF EndInv
<1>1. CASE SeekStep
  BY <1>1, StepsCloser
<1>2. CASE Read
  BY <1>2 DEF Read, BackInv
<1>3. CASE \E t \in Targets : RequestSeek(t)
  BY <1>3 DEF RequestSeek, BackInv
<1>4. CASE UNCHANGED vars
  BY <1>4 DEF EndInv, BackInv
<1> QED
  BY <1>1, <1>2, <1>3, <1>4 DEF Next

(* StreamReader::seek, DemuxerQueue::seek, seek_internal: every step of a   *)
(* seek ends it or brings it nearer to its end, in every file, wherever     *)
(* FFmpeg lands and however often it refuses.  By NearerEnds no seek goes   *)
(* on for ever; what EverySeekEnds says beyond that is that the thread      *)
(* which seeks is scheduled.                                                *)
THEOREM SeekComesNearer ==
  Spec => [][SeekStep /\ pc' # "idle" => <<Distance', Distance>> \in Nearer]_vars
<1>1. Init => EndInv
  BY TypeInvInit, BackInit DEF EndInv
<1>2. EndInv /\ [Next]_vars
        => [SeekStep /\ pc' # "idle" => <<Distance', Distance>> \in Nearer]_vars
  BY StepsNearer
<1> QED
  BY <1>1, <1>2, EndInvNext, PTL DEF Spec
=============================================================================
