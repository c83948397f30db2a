---------------------------- MODULE ChaptersProofs ----------------------------
(***************************************************************************)
(* What detect_vob_chapters promises of every file in which FFmpeg knows   *)
(* the position of the packets right behind a jump of the clock and right  *)
(* behind those probed there (KnownAtJumps), and that in these the         *)
(* detection comes to an end.                                              *)
(***************************************************************************)
EXTENDS Chapters, FiniteSetTheorems, SequenceTheorems, WellFoundedInduction, TLAPS

USE DEF vars, locals, coarse, result, reading

Size == Len(film)

LEMMA FilmFacts ==
  ASSUME film \in Films
  PROVE  /\ Size \in Nat /\ DOMAIN film = 1 .. Size
         /\ \A i \in 1 .. Size : /\ film[i].stream \in Streams /\ film[i].pts \in Nat
                                 /\ film[i].duration \in Nat
<1>1. film \in Seq(Packet)
  BY ChapterConstants
<1>2. Size \in Nat /\ DOMAIN film = 1 .. Size
  BY <1>1 DEF Size
<1>3. ASSUME NEW i \in 1 .. Size
      PROVE  /\ film[i].stream \in Streams /\ film[i].pts \in Nat /\ film[i].duration \in Nat
  <2>1. film[i] \in Packet
    BY <1>1, <1>3 DEF Size
  <2> QED
    BY <2>1 DEF Packet
<1> QED
  BY <1>2, <1>3

LEMMA Constants ==
  /\ Lead \in Nat /\ ProbeSize \in Nat \ {0} /\ Second \in Nat /\ ChapterSize \in Nat \ {0, 1}
  /\ Max(Streams) \in Nat /\ Streams = 0 .. Max(Streams)
  /\ Timed \subseteq Streams /\ Videos \subseteq Streams /\ Timed # {}
BY ChapterConstants DEF Timed, Videos

----------------------------------------------------------------------------
(* Least and greatest elements.                                             *)

LEMMA LeastNatural ==
  ASSUME NEW S \in SUBSET Nat, S # {}
  PROVE  \E x \in S : \A y \in S : x <= y
<1>1. PICK x \in S : \A y \in S : ~(<<y, x>> \in OpToRel(<, Nat))
  BY NatLessThanWellFounded, WFMin
<1>2. ASSUME NEW y \in S PROVE x <= y
  <2>1. <<y, x>> \notin OpToRel(<, Nat)
    BY <1>1
  <2>2. ~(y < x)
    BY <2>1 DEF OpToRel
  <2> QED
    BY <2>2
<1> QED
  BY <1>2

LEMMA MinIsLeast ==
  ASSUME NEW S \in SUBSET Nat, S # {}
  PROVE  Min(S) \in S /\ \A y \in S : Min(S) <= y
BY LeastNatural DEF Min

LEMMA MaxIsGreatest ==
  ASSUME NEW n \in Nat, NEW S \in SUBSET (0 .. n), S # {}
  PROVE  Max(S) \in S /\ \A y \in S : y <= Max(S)
<1> DEFINE T == {n - x : x \in S}
<1>1. T # {} /\ T \in SUBSET Nat
  <2>1. \A x \in S : n - x \in Nat
    OBVIOUS
  <2>2. PICK x \in S : TRUE
    OBVIOUS
  <2>3. n - x \in T
    BY <2>2
  <2> QED
    BY <2>1, <2>3
<1>2. PICK t \in T : \A y \in T : t <= y
  <2> HIDE DEF T
  <2> QED
    BY <1>1, LeastNatural
<1>3. PICK x \in S : t = n - x
  OBVIOUS
<1>4. ASSUME NEW y \in S PROVE y <= x
  <2>1. n - y \in T
    OBVIOUS
  <2>2. n - x <= n - y
    BY <2>1, <1>2, <1>3
  <2>3. x \in 0 .. n /\ y \in 0 .. n
    OBVIOUS
  <2> QED
    BY <2>2, <2>3
<1>5. \A a, b \in Int : a >= b <=> b <= a
  OBVIOUS
<1> QED
  BY <1>4, <1>5 DEF Max

(* A file is finite, so that its time stamps are bounded.                   *)
LEMMA StampsAreBounded ==
  ASSUME film \in Films
  PROVE  \E b \in Nat : \A i \in 1 .. Size : film[i].pts <= b
<1> DEFINE Bounds(n) == {b \in Nat : \A i \in 1 .. n : film[i].pts <= b}
           T == {n \in 0 .. Size : Bounds(n) = {}}
<1>1. Size \in Nat /\ \A i \in 1 .. Size : film[i].pts \in Nat
  BY FilmFacts
<1>2. T = {}
  <2> SUFFICES ASSUME T # {} PROVE FALSE
    OBVIOUS
  <2>1. T \in SUBSET Nat
    BY <1>1
  <2>2. PICK n \in T : \A y \in T : n <= y
    <3> HIDE DEF T
    <3> QED
      BY <2>1, LeastNatural
  <2>3. n # 0
    <3>1. 0 \in Bounds(0)
      OBVIOUS
    <3> QED
      BY <2>2, <3>1
  <2>4. n - 1 \in 0 .. Size /\ n - 1 \notin T
    <3>1. n \in 0 .. Size
      OBVIOUS
    <3>2. n - 1 \in 0 .. Size /\ ~(n <= n - 1)
      BY <1>1, <2>3, <3>1
    <3> HIDE DEF T
    <3> QED
      BY <2>2, <3>2
  <2>5. PICK b \in Nat : \A i \in 1 .. n - 1 : film[i].pts <= b
    BY <2>4
  <2> DEFINE c == Greater(b, film[n].pts)
  <2>6. c \in Nat /\ b <= c /\ film[n].pts <= c
    BY <1>1, <2>2, <2>3 DEF Greater
  <2>7. \A i \in 1 .. n : film[i].pts <= c
    <3> SUFFICES ASSUME NEW i \in 1 .. n PROVE film[i].pts <= c
      OBVIOUS
    <3> HIDE DEF c
    <3>1. n \in 0 .. Size
      OBVIOUS
    <3>2. i \in 1 .. Size /\ film[i].pts \in Nat
      BY <1>1, <3>1
    <3>3. CASE i = n
      BY <2>6, <3>3
    <3>4. CASE i # n
      <4>1. i \in 1 .. n - 1
        BY <1>1, <3>1, <3>4
      <4>2. film[i].pts <= b
        BY <2>5, <4>1
      <4> QED
        BY <2>6, <3>2, <4>2
    <3> QED
      BY <3>3, <3>4
  <2>8. c \in Bounds(n)
    BY <2>6, <2>7
  <2> QED
    BY <2>2, <2>8
<1>3. Size \notin T
  BY <1>2
<1> QED
  BY <1>1, <1>3

LEMMA OfFacts ==
  ASSUME film \in Films, NEW s
  PROVE  /\ Of(s) \in SUBSET (1 .. Size) /\ Of(s) \in SUBSET Nat
         /\ \A i \in Of(s) : i \in 1 .. Size /\ i \in Nat /\ film[i].stream = s
                               /\ Pts(i) \in Nat /\ film[i].duration \in Nat
                               /\ Byte(i) \in Lead .. FileSize - 1
BY FilmFacts, Constants DEF Of, Pts, Byte, FileSize, Size

LEMMA GreatestStamp ==
  ASSUME film \in Films, NEW S \in SUBSET (1 .. Size), NEW t \in Nat
  PROVE  Max({Pts(j) : j \in S} \cup {t}) \in Nat
<1> DEFINE R == {Pts(j) : j \in S} \cup {t}
<1>1. PICK b \in Nat : \A i \in 1 .. Size : film[i].pts <= b
  BY StampsAreBounded
<1>2. Greater(b, t) \in Nat /\ R \in SUBSET (0 .. Greater(b, t)) /\ R # {}
  BY <1>1, FilmFacts DEF Greater, Pts
<1> HIDE DEF R
<1>3. Max(R) \in R
  BY <1>2, MaxIsGreatest
<1>4. R \in SUBSET Nat
  BY FilmFacts DEF R, Pts
<1> QED
  BY <1>3, <1>4 DEF R

----------------------------------------------------------------------------
(* The end of a chapter.                                                    *)

(* The packets of a stream between two of them.                             *)
Between(s, j, i) == {k \in Of(s) : j < k /\ k < i}

(* A search may find a jump at a packet: the second of its stream, one with *)
(* an earlier stamp than a packet before it, or with a later one than some  *)
(* packet right before it.                                                  *)
MayJump(s, j) ==
  \/ Cardinality({k \in Of(s) : k < j}) = 1
  \/ \E k \in Of(s) : k < j /\ Pts(k) > Pts(j) + Second
  \/ \E k \in Of(s) :
       k < j /\ Pts(j) > Pts(k) + Second /\ Cardinality(Between(s, k, j)) <= ProbeSize

(* The first packet behind a jump is one whose position FFmpeg knows: one   *)
(* whose position it does not know goes on from the packet before it.  And  *)
(* so is one whose stamp jumps away from the least of those probed, at the  *)
(* start of the stream or behind a jump.                                    *)
KnownAtJumps ==
  \A s \in Timed : \A j, i \in Of(s) : j < i /\ ~film[i].known =>
    /\ Between(s, j, i) = {} => Dist(Pts(i), Pts(j)) <= Second
    /\ Between(s, j, i) = {} /\ j = Min(Of(s)) =>
         Dist(Pts(i), Min({Pts(k) : k \in Firsts(Of(s), ProbeSize)})) <= Second
    /\ Cardinality(Between(s, j, i)) = ProbeSize /\ MayJump(s, j) =>
         Dist(Pts(i), Least(j, Between(s, j, i))) <= Second

(* A search that begins behind a packet, with the stamp pts: it finds jumps *)
(* only where they may be, and the next packet goes on from pts, if its     *)
(* position is not known.                                                   *)
GoesOn(from, pts) ==
  \A i \in Of(stream) : from < i =>
    /\ pts > Pts(i) + Second => MayJump(stream, i)
    /\ Between(stream, from, i) = {} =>
         /\ Pts(i) > pts + Second => MayJump(stream, i)
         /\ ~film[i].known => Dist(Pts(i), pts) <= Second

(* Where the file stays as it is, so does where jumps may be.               *)
LEMMA JumpsKept ==
  ASSUME film' = film
  PROVE  /\ \A s : Of(s)' = Of(s)
         /\ \A i : Pts(i)' = Pts(i)
         /\ \A s, j, i : Between(s, j, i)' = Between(s, j, i)
         /\ \A s, j : MayJump(s, j)' <=> MayJump(s, j)
<1>1. \A s : Of(s)' = Of(s)
  BY DEF Of
<1>2. \A i : Pts(i)' = Pts(i)
  BY DEF Pts
<1>3. \A s, j, i : Between(s, j, i)' = Between(s, j, i)
  BY <1>1 DEF Between
<1>4. \A s, j : MayJump(s, j)' <=> MayJump(s, j)
  BY <1>1, <1>2, <1>3, ZenonT(60) DEF MayJump
<1> QED
  BY <1>1, <1>2, <1>3, <1>4

LEMMA GoesOnKept ==
  ASSUME film' = film, stream' = stream, GoesOn(cursor', newPts')
  PROVE  GoesOn(cursor, newPts)'
<1>1. /\ Of(stream)' = Of(stream) /\ \A i : Pts(i)' = Pts(i)
      /\ \A j, i : Between(stream, j, i)' = Between(stream, j, i)
      /\ \A i : MayJump(stream, i)' <=> MayJump(stream, i)
  <2>1. Of(stream)' = {i \in DOMAIN film : film[i].stream = stream}
    BY DEF Of
  <2>2. \A j, i : Between(stream, j, i)' = {k \in Of(stream)' : j < k /\ k < i}
    BY DEF Between
  <2>3. Of(stream)' = Of(stream)
    BY <2>1 DEF Of
  <2>4. \A j, i : Between(stream, j, i)' = Between(stream, j, i)
    BY <2>2, <2>3 DEF Between
  <2>5. \A i : Pts(i)' = Pts(i)
    BY DEF Pts
  <2>6. \A i : MayJump(stream, i)' <=> MayJump(stream, i)
    BY <2>3, <2>4, <2>5, ZenonT(60) DEF MayJump
  <2> QED
    BY <2>3, <2>4, <2>5, <2>6
<1> QED
  BY <1>1, ZenonT(60) DEF GoesOn

(* The first packets of a set are at most as many as asked for, and none    *)
(* before one of them is left out.                                          *)
LEMMA FirstsFacts ==
  ASSUME NEW n \in Nat, NEW S \in SUBSET (1 .. n), NEW m \in Nat
  PROVE  /\ Firsts(S, m) \in SUBSET S /\ IsFiniteSet(Firsts(S, m))
         /\ \A c \in Firsts(S, m), k \in S : k <= c => k \in Firsts(S, m)
         /\ Cardinality(Firsts(S, m)) <= m
<1> DEFINE F == Firsts(S, m)
           below(k) == {j \in S : j < k}
<1>1. IsFiniteSet(S) /\ \A T \in SUBSET S : IsFiniteSet(T)
  <2>1. IsFiniteSet(1 .. n)
    BY FS_Interval
  <2> QED
    BY <2>1, FS_Subset
<1>2. F = {k \in S : Cardinality(below(k)) < m}
  BY DEF Firsts
<1> HIDE DEF F
<1>3. F \in SUBSET S /\ IsFiniteSet(F)
  BY <1>1, <1>2
<1>4. ASSUME NEW c \in F, NEW k \in S, k <= c PROVE k \in F
  <2>1. below(k) \in SUBSET below(c) /\ below(c) \in SUBSET S
    <3>1. c \in Nat /\ k \in Nat /\ \A j \in S : j \in Nat
      BY <1>3, <1>4
    <3>2. \A j \in S : j < k => j < c
      BY <1>4, <3>1
    <3> QED
      BY <3>2
  <2> HIDE DEF below
  <2>2. /\ Cardinality(below(k)) <= Cardinality(below(c))
        /\ Cardinality(below(k)) \in Nat /\ Cardinality(below(c)) \in Nat
    BY <1>1, <2>1, FS_Subset, FS_CardinalityType
  <2>3. Cardinality(below(c)) < m
    BY <1>2
  <2> QED
    BY <1>2, <2>2, <2>3
<1>5. Cardinality(F) <= m
  <2>1. CASE F = {}
    BY <2>1, FS_EmptySet
  <2>2. CASE F # {}
    <3> DEFINE c == Max(F)
    <3>1. F \in SUBSET (0 .. n)
      BY <1>3
    <3>2. c \in F /\ \A k \in F : k <= c
      BY <2>2, <3>1, MaxIsGreatest
    <3> HIDE DEF c
    <3>3. F \in SUBSET (below(c) \cup {c}) /\ below(c) \in SUBSET S /\ c \notin below(c)
      BY <1>3, <3>2
    <3>4. Cardinality(below(c)) < m
      BY <1>2, <3>2
    <3> HIDE DEF below
    <3>5. /\ IsFiniteSet(below(c)) /\ Cardinality(below(c)) \in Nat
          /\ IsFiniteSet(below(c) \cup {c})
          /\ Cardinality(below(c) \cup {c}) = Cardinality(below(c)) + 1
      BY <1>1, <3>3, FS_AddElement, FS_CardinalityType
    <3>6. Cardinality(F) <= Cardinality(below(c) \cup {c}) /\ Cardinality(F) \in Nat
      BY <1>3, <3>3, <3>5, FS_Subset, FS_CardinalityType
    <3> QED
      BY <3>4, <3>5, <3>6
  <2> QED
    BY <2>1, <2>2
<1> QED
  BY <1>3, <1>4, <1>5 DEF F

(* A search that begins at a packet.                                        *)
LEMMA GoesOnFrom ==
  ASSUME KnownAtJumps, film \in Films, stream \in Timed, NEW j \in Of(stream)
  PROVE  GoesOn(j, Pts(j))
<1> SUFFICES ASSUME NEW i \in Of(stream), j < i
             PROVE  /\ Pts(j) > Pts(i) + Second => MayJump(stream, i)
                    /\ Between(stream, j, i) = {} =>
                         /\ Pts(i) > Pts(j) + Second => MayJump(stream, i)
                         /\ ~film[i].known => Dist(Pts(i), Pts(j)) <= Second
  BY DEF GoesOn
<1>1. Pts(j) > Pts(i) + Second => MayJump(stream, i)
  BY DEF MayJump
<1>2. ASSUME Between(stream, j, i) = {}, Pts(i) > Pts(j) + Second PROVE MayJump(stream, i)
  <2>1. Cardinality(Between(stream, j, i)) <= ProbeSize
    BY <1>2, Constants, FS_EmptySet
  <2> QED
    BY <1>2, <2>1 DEF MayJump
<1>3. ASSUME Between(stream, j, i) = {}, ~film[i].known PROVE Dist(Pts(i), Pts(j)) <= Second
  BY <1>3 DEF KnownAtJumps
<1> QED
  BY <1>1, <1>2, <1>3

LEMMA AtIsNext ==
  ASSUME film \in Films, NEW pos, After(pos) # {}
  PROVE  At(pos) \in Of(stream) /\ Byte(At(pos)) >= pos
<1>1. After(pos) \in SUBSET Of(stream) /\ After(pos) \in SUBSET Nat
  BY OfFacts DEF After
<1>2. At(pos) \in After(pos)
  BY <1>1, MinIsLeast DEF At
<1> QED
  BY <1>2 DEF After

LEMMA LeastStamp ==
  ASSUME film \in Films, NEW i \in 1 .. Size, NEW probe \in SUBSET (1 .. Size)
  PROVE  Least(i, probe) \in Nat /\ \E j \in probe \cup {i} : Least(i, probe) = Pts(j)
<1> DEFINE R == {Pts(j) : j \in probe \cup {i}}
<1>1. R \in SUBSET Nat /\ R # {}
  BY FilmFacts DEF Pts
<1> HIDE DEF R
<1>2. Min(R) \in R
  BY <1>1, MinIsLeast, SMTT(30)
<1> QED
  BY <1>1, <1>2 DEF Least, R

(* Where a search finds a jump there may be one.                            *)
LEMMA StopMayJump ==
  ASSUME film \in Films, NEW from \in Nat, NEW stop \in Of(stream), from < stop,
         NEW pts \in Nat, GoesOn(from, pts),
         Dist(Pts(stop), Max({Pts(j) : j \in Between(stream, from, stop)} \cup {pts})) > Second
  PROVE  MayJump(stream, stop)
<1> DEFINE B == Between(stream, from, stop)
           R == {Pts(j) : j \in B} \cup {pts}
           latest == Max(R)
<1>1. /\ B \in SUBSET Of(stream) /\ B \in SUBSET (0 .. Size) /\ Size \in Nat
      /\ \A j \in B : j < stop /\ Pts(j) \in Nat
  <2>1. B \in SUBSET Of(stream) /\ \A j \in B : from < j /\ j < stop
    BY DEF Between
  <2> HIDE DEF B
  <2> QED
    BY <2>1, OfFacts, FilmFacts
<1>2. latest \in R /\ \A r \in R : r <= latest
  <2>1. PICK b \in Nat : \A i \in 1 .. Size : film[i].pts <= b
    BY StampsAreBounded
  <2>2. Greater(b, pts) \in Nat /\ pts \in 0 .. Greater(b, pts)
    BY <2>1 DEF Greater
  <2>3. ASSUME NEW j \in B PROVE Pts(j) \in 0 .. Greater(b, pts)
    <3>1. j \in 1 .. Size /\ Pts(j) \in Nat /\ film[j].pts <= b
      BY <1>1, <2>1, OfFacts
    <3> QED
      BY <2>1, <3>1 DEF Greater, Pts
  <2>4. R \in SUBSET (0 .. Greater(b, pts)) /\ R # {}
    BY <2>2, <2>3
  <2> HIDE DEF R
  <2> QED
    BY <2>2, <2>4, MaxIsGreatest
<1>3. latest \in Nat /\ Pts(stop) \in Nat /\ Second \in Nat /\ pts <= latest
  BY <1>1, <1>2, OfFacts, Constants
<1>4. latest = pts \/ \E j \in B : latest = Pts(j)
  BY <1>2
<1>5. \A j \in B : Pts(j) <= latest
  BY <1>2
<1>6. Dist(Pts(stop), latest) > Second
  OBVIOUS
<1> HIDE DEF latest, R
<1>7. latest > Pts(stop) + Second \/ Pts(stop) > latest + Second
  BY <1>3, <1>6 DEF Dist
<1>8. CASE latest > Pts(stop) + Second
  <2>1. CASE latest = pts
    BY <1>8, <2>1 DEF GoesOn
  <2>2. CASE \E j \in B : latest = Pts(j)
    <3>1. PICK j \in B : latest = Pts(j)
      BY <2>2
    <3>2. j \in Of(stream) /\ j < stop /\ Pts(j) > Pts(stop) + Second
      BY <1>1, <1>8, <3>1
    <3> QED
      BY <3>2 DEF MayJump
  <2> QED
    BY <1>4, <2>1, <2>2
<1>9. CASE Pts(stop) > latest + Second
  <2>1. CASE B = {}
    <3>1. Pts(stop) > pts + Second
      BY <1>3, <1>9
    <3> QED
      BY <2>1, <3>1 DEF GoesOn
  <2>2. CASE B # {}
    <3> DEFINE k == Max(B)
    <3>1. k \in B /\ \A j \in B : j <= k
      <4> HIDE DEF B
      <4> QED
        BY <1>1, <2>2, MaxIsGreatest
    <3> HIDE DEF k
    <3>2. k \in Of(stream) /\ k < stop /\ Pts(k) \in Nat /\ Pts(k) <= latest
      BY <1>1, <1>5, <3>1
    <3>3. Pts(stop) > Pts(k) + Second
      BY <1>3, <1>9, <3>2
    <3>4. Between(stream, k, stop) = {}
      <4> SUFFICES ASSUME NEW j \in Of(stream), k < j, j < stop PROVE FALSE
        BY DEF Between
      <4>1. from \in Nat /\ j \in Nat /\ k \in Nat /\ from < k
        BY <3>1, <3>2, OfFacts DEF Between
      <4>2. j \in B
        BY <4>1 DEF Between
      <4>3. j <= k
        BY <3>1, <4>2
      <4> QED
        BY <4>1, <4>3
    <3>5. Cardinality(Between(stream, k, stop)) <= ProbeSize
      BY <3>4, Constants, FS_EmptySet
    <3> QED
      BY <3>2, <3>3, <3>5 DEF MayJump
  <2> QED
    BY <2>1, <2>2
<1> QED
  BY <1>7, <1>8, <1>9

(* The search for the end of the next chapter begins behind the packets     *)
(* that are probed, with the least stamp of theirs.                         *)
LEMMA ProbeGoesOn ==
  ASSUME KnownAtJumps, film \in Films, stream \in Timed,
         NEW stop \in Of(stream), MayJump(stream, stop),
         NEW probe, probe = Firsts({k \in Of(stream) : stop < k}, ProbeSize),
         NEW c, c = IF Cardinality(probe) < ProbeSize THEN Size ELSE Max(probe)
  PROVE  GoesOn(c, Least(stop, probe))
<1> DEFINE later == {k \in Of(stream) : stop < k}
<1>1. /\ later \in SUBSET (1 .. Size) /\ later \in SUBSET Of(stream) /\ Size \in Nat
      /\ stop \in 1 .. Size /\ stop \in Nat /\ ProbeSize \in Nat /\ 0 < ProbeSize
      /\ Second \in Nat
  BY OfFacts, FilmFacts, Constants
<1>2. /\ probe \in SUBSET later /\ IsFiniteSet(probe) /\ Cardinality(probe) <= ProbeSize
      /\ \A a \in probe, k \in later : k <= a => k \in probe
  <2>1. probe = Firsts(later, ProbeSize)
    OBVIOUS
  <2> HIDE DEF later
  <2> QED
    BY <1>1, <2>1, FirstsFacts
<1>3. /\ probe \in SUBSET (1 .. Size) /\ probe \in SUBSET (0 .. Size)
      /\ \A k \in probe : k \in Of(stream) /\ k \in Nat /\ stop < k
  BY <1>1, <1>2, OfFacts
<1>4. PICK j \in probe \cup {stop} : Least(stop, probe) = Pts(j)
  BY <1>1, <1>3, LeastStamp
<1>5. j \in Of(stream) /\ j \in Nat /\ Pts(j) \in Nat /\ stop <= j
  <2>1. j \in Of(stream) /\ stop <= j
    BY <1>1, <1>3
  <2> QED
    BY <2>1, OfFacts
<1> SUFFICES ASSUME NEW i \in Of(stream), c < i
             PROVE  /\ Pts(j) > Pts(i) + Second => MayJump(stream, i)
                    /\ Between(stream, c, i) = {} =>
                         /\ Pts(i) > Pts(j) + Second => MayJump(stream, i)
                         /\ ~film[i].known => Dist(Pts(i), Pts(j)) <= Second
  BY <1>4 DEF GoesOn
<1>6. i \in Nat /\ i <= Size
  BY <1>1, OfFacts
<1>7. c = Max(probe) /\ ~(Cardinality(probe) < ProbeSize)
  BY <1>1, <1>6
<1>8. c \in probe /\ \A k \in probe : k <= c
  <2>1. probe # {}
    <3>1. Cardinality({}) = 0
      BY FS_EmptySet
    <3> QED
      BY <1>1, <1>7, <3>1
  <2> QED
    BY <1>1, <1>3, <1>7, <2>1, MaxIsGreatest
<1>9. c \in Nat /\ stop < c /\ j <= c /\ j < i /\ stop < i
  BY <1>1, <1>3, <1>5, <1>6, <1>8
<1>10. Pts(j) > Pts(i) + Second => MayJump(stream, i)
  BY <1>5, <1>9 DEF MayJump
<1>11. ASSUME Between(stream, c, i) = {}, NEW k \in Of(stream), stop < k, k < i
       PROVE  k \in probe
  <2>1. k \in Nat /\ k \in later
    BY <1>11, OfFacts
  <2>2. ~(c < k)
    BY <1>11 DEF Between
  <2>3. k <= c
    BY <1>9, <2>1, <2>2
  <2> QED
    BY <1>2, <1>8, <2>1, <2>3
<1>12. ASSUME Between(stream, c, i) = {}, Pts(i) > Pts(j) + Second
       PROVE  MayJump(stream, i)
  <2> DEFINE B == Between(stream, j, i)
  <2>1. B \in SUBSET probe
    <3> SUFFICES ASSUME NEW k \in Of(stream), j < k, k < i PROVE k \in probe
      BY DEF Between
    <3>1. k \in Nat /\ stop < k
      BY <1>1, <1>5, OfFacts
    <3> QED
      BY <1>11, <1>12, <3>1
  <2> HIDE DEF B
  <2>2. Cardinality(B) <= Cardinality(probe) /\ IsFiniteSet(B)
    BY <1>2, <2>1, FS_Subset
  <2>3. Cardinality(B) \in Nat /\ Cardinality(probe) \in Nat
    BY <1>2, <2>2, FS_CardinalityType
  <2>4. Cardinality(B) <= ProbeSize
    BY <1>1, <1>2, <2>2, <2>3
  <2> QED
    BY <1>5, <1>9, <1>12, <2>4 DEF MayJump, B
<1>13. ASSUME Between(stream, c, i) = {}, ~film[i].known
       PROVE  Dist(Pts(i), Pts(j)) <= Second
  <2>1. Between(stream, stop, i) = probe
    <3>1. ASSUME NEW k \in probe PROVE k \in Of(stream) /\ stop < k /\ k < i
      <4>1. k \in Nat /\ k <= c /\ c < i
        BY <1>3, <1>8, <3>1
      <4> QED
        BY <1>3, <1>6, <1>9, <3>1, <4>1
    <3> QED
      BY <1>11, <1>13, <3>1 DEF Between
  <2>2. Cardinality(probe) = ProbeSize
    <3>1. Cardinality(probe) \in Nat
      BY <1>2, FS_CardinalityType
    <3> QED
      BY <1>1, <1>2, <1>7, <3>1
  <2>3. Dist(Pts(i), Least(stop, Between(stream, stop, i))) <= Second
    BY <1>9, <1>13, <2>1, <2>2 DEF KnownAtJumps
  <2> QED
    BY <1>4, <2>1, <2>3
<1> QED
  BY <1>10, <1>12, <1>13

(* A jump that is found lies behind the place the search began at, and so   *)
(* does the place the next one is to begin at.                              *)
LEMMA SearchFinds ==
  ASSUME KnownAtJumps, film \in Films, stream \in Timed,
         NEW from \in 1 .. Size, NEW pos \in Nat, pos <= Byte(from), NEW pts \in Nat,
         GoesOn(from, pts),
         NEW limit \in Nat, endPts \in Nat \cup {Nopts}, processed \in 0 .. FileSize
  PROVE  LET r == Search(from, pos, pts, limit) IN
           /\ r \in [found : BOOLEAN, end : Nat \cup {Nopts}, pts : Nat \cup {Nopts},
                     cursor : 1 .. Size, pos : 0 .. FileSize, bytes : 0 .. FileSize]
           /\ r.pts # Nopts => pos < r.pos /\ r.pos <= Byte(r.cursor)
           /\ r.found /\ r.pts # Nopts => GoesOn(r.cursor, r.pts)
           /\ ~r.found => limit > 0 /\ r.pts # Nopts
<1> DEFINE ahead     == {i \in Of(stream) : i > from}
           before(i) == {j \in ahead : j < i}
           known(i)  == {j \in ahead : j <= i /\ film[j].known}
           at(i)     == IF known(i) = {} THEN pos + Cardinality(before(i))
                        ELSE LET k == Max(known(i)) IN
                               Byte(k) + Cardinality({j \in before(i) : j >= k})
           latest(i) == Max({Pts(j) : j \in before(i)} \cup {pts})
           end(i)    == latest(i) + IF before(i) = {} THEN 0
                                      ELSE 2 * film[Max(before(i))].duration
           jumps     == {i \in ahead : Dist(Pts(i), latest(i)) > Second}
           far       == {i \in ahead : limit > 0 /\ at(i) - pos > limit}
           eof       == Len(film) + 1
           stop      == Min(jumps \cup far)
           probe     == Firsts({i \in ahead : i > stop}, ProbeSize)
           rest      == [found |-> TRUE, end |-> end(eof), pts |-> Nopts, cursor |-> Len(film),
                         pos |-> IF ahead = {} THEN pos ELSE at(Max(ahead)),
                         bytes |-> IF ahead = {} THEN processed ELSE at(Max(ahead)) - pos]
           jump      == [found |-> TRUE, end |-> end(stop), pts |-> Least(stop, probe),
                         cursor |-> IF Cardinality(probe) < ProbeSize THEN Len(film)
                                    ELSE Max(probe),
                         pos |-> at(stop), bytes |-> at(stop) - pos]
           large     == [found |-> FALSE, end |-> endPts, pts |-> Pts(stop), cursor |-> stop,
                         pos |-> at(stop), bytes |-> at(stop) - pos]
<1>1. Search(from, pos, pts, limit) =
        IF jumps \cup far = {} THEN rest ELSE IF stop \in jumps THEN jump ELSE large
  BY DEF Search
<1>2. /\ Size \in Nat /\ Lead \in Nat /\ FileSize \in Nat /\ FileSize = Lead + Size
      /\ Byte(from) \in Nat /\ Byte(Size) = FileSize - 1
  BY FilmFacts, Constants DEF FileSize, Byte, Size
<1>3. /\ ahead \in SUBSET (1 .. Size) /\ ahead \in SUBSET Nat /\ ahead \in SUBSET (0 .. Size)
      /\ \A i \in ahead : /\ i \in Of(stream) /\ from < i /\ i \in Nat /\ i \in 1 .. Size
                         /\ Pts(i) \in Nat /\ film[i].duration \in Nat
                         /\ Byte(i) \in 0 .. FileSize - 1 /\ pos < Byte(i)
  <2>1. ahead \in SUBSET (1 .. Size) /\ ahead \in SUBSET Nat /\ ahead \in SUBSET (0 .. Size)
    BY <1>2, OfFacts
  <2>2. ASSUME NEW i \in ahead
        PROVE  /\ i \in Of(stream) /\ from < i /\ i \in Nat /\ i \in 1 .. Size
               /\ Pts(i) \in Nat /\ film[i].duration \in Nat
               /\ Byte(i) \in 0 .. FileSize - 1 /\ pos < Byte(i)
    <3>1. i \in Of(stream) /\ from < i
      OBVIOUS
    <3>2. /\ i \in Nat /\ i \in 1 .. Size /\ film[i].stream = stream /\ Pts(i) \in Nat
          /\ film[i].duration \in Nat /\ Byte(i) \in Lead .. FileSize - 1
      BY <3>1, OfFacts
    <3>3. Byte(from) < Byte(i)
      BY <1>2, <3>1, <3>2 DEF Byte
    <3> QED
      BY <1>2, <3>1, <3>2, <3>3
  <2> QED
    BY <2>1, <2>2
<1>4. \A i : before(i) = {k \in Of(stream) : from < k /\ k < i}
  <2>1. \A k \in Of(stream) : k > from <=> from < k
    BY OfFacts
  <2> QED
    BY <2>1
<1> HIDE DEF ahead
(* No position is estimated to be behind that of the packet itself.         *)
<1>placed. ASSUME NEW i \in ahead
       PROVE  /\ at(i) \in Nat /\ pos <= at(i) /\ at(i) <= Byte(i)
              /\ at(i) = pos => before(i) = {} /\ ~film[i].known
  <2> DEFINE K == known(i)
             B == before(i)
             m == Max(K)
             W == {j \in B : j >= m}
  <2>1. at(i) = IF K = {} THEN pos + Cardinality(B) ELSE Byte(m) + Cardinality(W)
    OBVIOUS
  <2> HIDE DEF at
  <2>2. i \in Nat /\ from < i /\ Byte(i) - Byte(from) = i - from
    BY <1>2, <1>3, <1>placed DEF Byte
  <2>3. B \in SUBSET ahead /\ \A j \in B : j < i
    OBVIOUS
  <2>4. K \in SUBSET ahead /\ K \in SUBSET (0 .. Size) /\ \A j \in K : j <= i
    BY <1>3
  <2>5. K = {} => ~film[i].known
    BY <1>placed, <2>2
  <2> HIDE DEF B, K
  <2>6. CASE K = {}
    <3>1. B \in SUBSET (from + 1 .. i - 1)
      BY <1>3, <2>2, <2>3
    <3>2. /\ IsFiniteSet(from + 1 .. i - 1)
          /\ Cardinality(from + 1 .. i - 1) <= i - from
          /\ Cardinality(from + 1 .. i - 1) \in Nat
      <4> DEFINE a == from + 1
                 b == i - 1
      <4>1. a \in Int /\ b \in Int /\ b - a + 1 <= i - from /\ 0 <= i - from
        BY <2>2
      <4> HIDE DEF a, b
      <4>2. IsFiniteSet(a .. b) /\ Cardinality(a .. b) = IF a > b THEN 0 ELSE b - a + 1
        BY <4>1, FS_Interval
      <4>3. Cardinality(a .. b) \in Nat /\ Cardinality(a .. b) <= i - from
        BY <4>1, <4>2
      <4> QED
        BY <4>2, <4>3 DEF a, b
    <3>3. /\ IsFiniteSet(B) /\ Cardinality(B) \in Nat
          /\ Cardinality(B) <= Cardinality(from + 1 .. i - 1)
          /\ Cardinality(B) = 0 => B = {}
      BY <3>1, <3>2, FS_Subset, FS_CardinalityType, FS_EmptySet
    <3>4. Cardinality(B) <= i - from
      BY <2>2, <3>2, <3>3
    <3>5. at(i) = pos + Cardinality(B)
      BY <2>1, <2>6
    <3> DEFINE c == Cardinality(B)
    <3>6. c \in Nat /\ c <= i - from /\ at(i) = pos + c /\ (c = 0 => B = {})
      BY <3>3, <3>4, <3>5
    <3>7. Byte(i) \in Nat
      BY <1>2, <1>3, <1>placed
    <3> HIDE DEF c
    <3>8. at(i) \in Nat /\ pos <= at(i) /\ at(i) <= Byte(i) /\ (at(i) = pos => c = 0)
      BY <1>2, <2>2, <3>6, <3>7
    <3> QED
      BY <2>5, <2>6, <3>6, <3>8 DEF B
  <2>7. CASE K # {}
    <3>1. m \in K
      BY <1>2, <2>4, <2>7, MaxIsGreatest
    <3> HIDE DEF m
    <3>2. m \in Nat /\ m <= i /\ Byte(m) \in Nat /\ pos < Byte(m) /\ Byte(i) - Byte(m) = i - m
      BY <1>2, <1>3, <2>2, <2>4, <3>1 DEF Byte
    <3>3. W \in SUBSET (m .. i - 1)
      <4>1. \A j \in B : j \in Nat /\ j <= i - 1
        BY <1>3, <2>2, <2>3
      <4> QED
        BY <2>2, <3>2, <4>1
    <3>4. /\ IsFiniteSet(m .. i - 1)
          /\ Cardinality(m .. i - 1) <= i - m
          /\ Cardinality(m .. i - 1) \in Nat
      <4> DEFINE b == i - 1
      <4>1. m \in Int /\ b \in Int /\ b - m + 1 = i - m /\ 0 <= i - m
        BY <2>2, <3>2
      <4> HIDE DEF b
      <4>2. IsFiniteSet(m .. b) /\ Cardinality(m .. b) = IF m > b THEN 0 ELSE b - m + 1
        BY <4>1, FS_Interval
      <4>3. Cardinality(m .. b) \in Nat /\ Cardinality(m .. b) <= i - m
        BY <4>1, <4>2
      <4> QED
        BY <4>2, <4>3 DEF b
    <3> HIDE DEF W
    <3>5. /\ Cardinality(W) \in Nat /\ Cardinality(W) <= Cardinality(m .. i - 1)
      BY <3>3, <3>4, FS_Subset, FS_CardinalityType
    <3>6. Cardinality(W) <= i - m
      BY <2>2, <3>2, <3>4, <3>5
    <3>7. at(i) = Byte(m) + Cardinality(W)
      BY <2>1, <2>7
    <3> DEFINE c == Cardinality(W)
    <3>8. c \in Nat /\ c <= i - m /\ at(i) = Byte(m) + c
      BY <3>5, <3>6, <3>7
    <3>9. Byte(i) \in Nat
      BY <1>2, <1>3, <1>placed
    <3> HIDE DEF c
    <3> QED
      BY <2>2, <3>2, <3>8, <3>9
  <2> QED
    BY <2>6, <2>7
<1>5. ASSUME NEW i PROVE end(i) \in Nat
  <2>1. latest(i) \in Nat
    <3>1. before(i) \in SUBSET (1 .. Size)
      BY <1>3
    <3> HIDE DEF before
    <3> QED
      BY <3>1, GreatestStamp
  <2>2. before(i) # {} => film[Max(before(i))].duration \in Nat
    <3> SUFFICES ASSUME before(i) # {} PROVE film[Max(before(i))].duration \in Nat
      OBVIOUS
    <3>1. before(i) \in SUBSET (0 .. Size) /\ before(i) \in SUBSET ahead
      <4>1. before(i) \in SUBSET ahead
        OBVIOUS
      <4> HIDE DEF before
      <4> QED
        BY <1>3, <4>1
    <3> HIDE DEF before
    <3>2. Max(before(i)) \in before(i)
      BY <1>2, <3>1, MaxIsGreatest
    <3> QED
      BY <1>3, <3>1, <3>2
  <2> HIDE DEF latest, before
  <2> QED
    BY <2>1, <2>2
<1>6. jumps \in SUBSET ahead /\ far \in SUBSET ahead /\ (limit = 0 => far = {})
  OBVIOUS
<1> HIDE DEF end, at, jumps, far
<1>7. CASE jumps \cup far = {}
  <2>1. ahead # {} => Max(ahead) \in ahead
    BY <1>2, <1>3, MaxIsGreatest
  <2>2. ahead # {} => /\ at(Max(ahead)) \in 0 .. FileSize
                      /\ at(Max(ahead)) - pos \in 0 .. FileSize
    <3> SUFFICES ASSUME NEW i \in ahead
                 PROVE  at(i) \in 0 .. FileSize /\ at(i) - pos \in 0 .. FileSize
      BY <2>1
    <3> QED
      BY <1>2, <1>3, <1>placed
  <2>3. Size \in 1 .. Size /\ pos \in 0 .. FileSize
    BY <1>2, FilmFacts DEF Byte
  <2>4. rest \in [found : BOOLEAN, end : Nat \cup {Nopts}, pts : Nat \cup {Nopts},
                  cursor : 1 .. Size, pos : 0 .. FileSize, bytes : 0 .. FileSize]
    BY <1>5, <2>2, <2>3 DEF Size
  <2>5. Search(from, pos, pts, limit) = rest
    BY <1>1, <1>7
  <2>6. rest.found = TRUE /\ rest.pts = Nopts
    OBVIOUS
  <2> HIDE DEF rest
  <2> QED
    BY <2>4, <2>5, <2>6
<1>8. CASE jumps \cup far # {}
  <2>1. stop \in jumps \cup far
    <3>1. jumps \cup far \in SUBSET Nat
      BY <1>3, <1>6
    <3> QED
      BY <1>8, <3>1, MinIsLeast
  <2>2. stop \in ahead
    BY <1>6, <2>1
  <2> HIDE DEF stop
  <2>3. /\ stop \in 1 .. Size /\ stop \in Nat /\ stop \in Of(stream) /\ Pts(stop) \in Nat
        /\ at(stop) \in Nat /\ at(stop) <= Byte(stop) /\ Byte(stop) \in Nat
        /\ at(stop) \in 0 .. FileSize /\ at(stop) - pos \in 0 .. FileSize /\ pos < at(stop)
    <3>1. /\ stop \in 1 .. Size /\ stop \in Nat /\ stop \in Of(stream) /\ Pts(stop) \in Nat
          /\ at(stop) \in Nat /\ pos <= at(stop) /\ at(stop) <= Byte(stop)
          /\ Byte(stop) \in 0 .. FileSize - 1 /\ from < stop
      BY <1>3, <1>placed, <2>2
    <3>2. at(stop) # pos
      <4> SUFFICES ASSUME at(stop) = pos PROVE FALSE
        OBVIOUS
      <4>1. before(stop) = {} /\ ~film[stop].known
        BY <1>placed, <2>2
      <4>2. Dist(Pts(stop), pts) <= Second
        <5>1. Between(stream, from, stop) = {}
          BY <1>4, <4>1 DEF Between
        <5> QED
          BY <3>1, <4>1, <5>1 DEF GoesOn
      <4>3. latest(stop) = pts
        <5>1. {Pts(j) : j \in before(stop)} \cup {pts} = {pts}
          BY <4>1
        <5>2. {pts} \in SUBSET (0 .. pts)
          OBVIOUS
        <5>3. Max({pts}) \in {pts}
          BY <5>2, MaxIsGreatest
        <5>4. latest(stop) = Max({pts})
          BY <5>1
        <5> QED
          BY <5>3, <5>4
      <4>4. Dist(Pts(stop), pts) \in Nat /\ Second \in Nat
        BY <3>1, Constants, SMTT(30) DEF Dist
      <4> HIDE DEF latest, before
      <4>5. stop \in jumps => Dist(Pts(stop), pts) > Second
        BY <4>3 DEF jumps
      <4>6. stop \in far => limit > 0 /\ at(stop) - pos > limit
        BY DEF far
      <4>7. at(stop) - pos = 0
        BY <3>1
      <4> QED
        BY <2>1, <4>2, <4>4, <4>5, <4>6, <4>7
    <3> QED
      BY <1>2, <3>1, <3>2
  <2>4. Nopts \notin Nat
    BY DEF Nopts
  <2>5. CASE stop \in jumps
    <3>1. probe \in SUBSET (0 .. Size) /\ probe \in SUBSET (1 .. Size) /\ \A i \in probe : stop < i
      <4> DEFINE later == {i \in ahead : i > stop}
      <4>1. probe \in SUBSET later
        BY DEF Firsts
      <4>2. later \in SUBSET ahead /\ \A i \in later : i > stop
        OBVIOUS
      <4> HIDE DEF later, probe
      <4>3. \A i \in later : stop < i
        BY <1>3, <2>3, <4>2
      <4> QED
        BY <1>3, <4>1, <4>2, <4>3
    <3> DEFINE later == {i \in ahead : i > stop}
    <3>11. later \in SUBSET (1 .. Size) /\ probe = Firsts(later, ProbeSize)
      BY <1>3
    <3>12. later = {k \in Of(stream) : stop < k}
      <4>1. from < stop
        BY <1>3, <2>2
      <4>2. \A k \in Of(stream) : stop < k => k \in ahead
        BY <2>3, <4>1, OfFacts DEF ahead
      <4>3. \A k \in ahead : k \in Of(stream) /\ (k > stop <=> stop < k)
        BY <1>3, <2>3
      <4> QED
        BY <4>2, <4>3
    <3> HIDE DEF later
    <3>13. /\ probe \in SUBSET later /\ IsFiniteSet(probe) /\ Cardinality(probe) <= ProbeSize
           /\ \A c \in probe, k \in later : k <= c => k \in probe
      BY <1>2, <3>11, Constants, FirstsFacts
    <3> HIDE DEF probe
    <3>2. Least(stop, probe) \in Nat /\ \E j \in probe \cup {stop} : Least(stop, probe) = Pts(j)
      BY <2>3, <3>1, LeastStamp
    <3>3. jump.cursor \in 1 .. Size /\ stop <= jump.cursor
      <4>1. CASE Cardinality(probe) < ProbeSize
        BY <1>2, <2>3, <4>1 DEF Size
      <4>2. CASE ~(Cardinality(probe) < ProbeSize)
        <5>1. probe # {}
          <6>1. Cardinality({}) = 0 /\ 0 < ProbeSize
            BY Constants, FS_EmptySet
          <6> QED
            BY <4>2, <6>1
        <5>2. Max(probe) \in probe
          BY <1>2, <3>1, <5>1, MaxIsGreatest
        <5>3. Max(probe) \in 1 .. Size /\ stop < Max(probe)
          BY <3>1, <5>2
        <5> QED
          BY <2>3, <4>2, <5>3
      <4> QED
        BY <4>1, <4>2
    <3>4. /\ jump.found = TRUE /\ jump.end = end(stop) /\ jump.pts = Least(stop, probe)
          /\ jump.pos = at(stop) /\ jump.bytes = at(stop) - pos
      OBVIOUS
    <3>5. jump \in [found : BOOLEAN, end : Nat \cup {Nopts}, pts : Nat \cup {Nopts},
                    cursor : 1 .. Size, pos : 0 .. FileSize, bytes : 0 .. FileSize]
      BY <1>5, <2>3, <3>2, <3>3
    <3>6. Search(from, pos, pts, limit) = jump
      BY <1>1, <1>8, <2>5
    <3>60. jump.cursor = IF Cardinality(probe) < ProbeSize THEN Size ELSE Max(probe)
      BY DEF Size
    <3> HIDE DEF jump
    <3>7. Byte(stop) <= Byte(jump.cursor) /\ Byte(jump.cursor) \in Nat
      BY <1>2, <2>3, <3>3 DEF Byte
    <3>61. MayJump(stream, stop)
      <4> DEFINE m == Max({Pts(j) : j \in Between(stream, from, stop)} \cup {pts})
      <4>1. before(stop) = Between(stream, from, stop)
        BY <1>4 DEF Between
      <4>2. Dist(Pts(stop), latest(stop)) > Second
        BY <2>5 DEF jumps
      <4>3. latest(stop) = m
        BY <4>1
      <4> HIDE DEF latest, before
      <4>4. Dist(Pts(stop), m) > Second
        BY <4>2, <4>3
      <4>5. from \in Nat /\ from < stop
        BY <1>3, <2>2
      <4> QED
        BY <2>3, <4>4, <4>5, StopMayJump
    <3>8. GoesOn(jump.cursor, jump.pts)
      <4> DEFINE c == jump.cursor
      <4>1. probe = Firsts({k \in Of(stream) : stop < k}, ProbeSize)
        BY <3>11, <3>12
      <4>2. c = IF Cardinality(probe) < ProbeSize THEN Size ELSE Max(probe)
        BY <3>60
      <4> HIDE DEF c
      <4>3. GoesOn(c, Least(stop, probe))
        BY <2>3, <3>61, <4>1, <4>2, ProbeGoesOn
      <4> QED
        BY <3>4, <4>3 DEF c
    <3>9. at(stop) <= Byte(jump.cursor)
      BY <2>3, <3>7
    <3> QED
      BY <2>3, <3>4, <3>5, <3>6, <3>8, <3>9
  <2>6. CASE stop \notin jumps
    <3>1. large \in [found : BOOLEAN, end : Nat \cup {Nopts}, pts : Nat \cup {Nopts},
                     cursor : 1 .. Size, pos : 0 .. FileSize, bytes : 0 .. FileSize]
      BY <2>3
    <3>2. Search(from, pos, pts, limit) = large
      BY <1>1, <1>8, <2>6
    <3>3. /\ large.found = FALSE /\ large.pts = Pts(stop) /\ large.pos = at(stop)
          /\ large.cursor = stop
      OBVIOUS
    <3>4. limit > 0
      BY <1>6, <2>1, <2>6
    <3> HIDE DEF large
    <3> QED
      BY <2>3, <2>4, <3>1, <3>2, <3>3, <3>4
  <2> QED
    BY <2>5, <2>6
<1> QED
  BY <1>7, <1>8, SMTT(30)

----------------------------------------------------------------------------
(* The points a stream is split at: from one to the last byte of its        *)
(* chapter, the next chapter begins with the byte after.                    *)

Points == Seq([pts : Int, pos : Int])

(* The first m chapters are complete.                                       *)
Whole(p, m) ==
  \A k \in 1 .. m : /\ p[2 * k - 1].pos <= p[2 * k].pos
                    /\ p[2 * k + 1].pos = p[2 * k].pos + 1

OpenTo(p, m, pos) ==
  /\ p \in Points /\ Len(p) = 2 * m + 1 /\ p[1].pos >= 0
  /\ Whole(p, m) /\ p[2 * m + 1].pos <= pos

ClosedWith(p, m) ==
  /\ p \in Points /\ Len(p) = 2 * m + 2 /\ p[1].pos >= 0
  /\ Whole(p, m) /\ p[2 * m + 1].pos <= FileSize

LEMMA OpenType ==
  ASSUME NEW m \in Nat, NEW p, NEW pos, OpenTo(p, m, pos)
  PROVE  p[2 * m + 1].pos \in Int
<1> DEFINE P == [pts : Int, pos : Int]
<1>1. p \in Seq(P) /\ 2 * m + 1 \in 1 .. Len(p)
  BY DEF OpenTo, Points
<1> HIDE DEF P
<1>2. p[2 * m + 1] \in P
  BY <1>1, ElementOfSeq
<1> QED
  BY <1>2 DEF P

LEMMA OneMore ==
  ASSUME NEW P, NEW p \in Seq(P), NEW e \in P, NEW n \in Nat, Len(p) = n
  PROVE  /\ p \o <<e>> \in Seq(P) /\ Len(p \o <<e>>) = n + 1
         /\ \A i \in 1 .. n : (p \o <<e>>)[i] = p[i]
         /\ (p \o <<e>>)[n + 1] = e
<1> DEFINE q == p \o <<e>>
           one == <<e>>
<1>1. one \in Seq(P) /\ Len(one) = 1 /\ one[1] = e
  OBVIOUS
<1>2. /\ q \in Seq(P) /\ Len(q) = Len(p) + Len(one)
      /\ \A i \in 1 .. Len(p) + Len(one) :
           q[i] = IF i <= Len(p) THEN p[i] ELSE one[i - Len(p)]
  BY <1>1, ConcatProperties
<1> HIDE DEF q, one
<1>3. q \in Seq(P) /\ Len(q) = n + 1
  BY <1>1, <1>2
<1>4. ASSUME NEW i \in 1 .. n PROVE q[i] = p[i]
  <2>1. i \in 1 .. Len(p) + Len(one) /\ i <= Len(p)
    BY <1>1
  <2> QED
    BY <1>2, <2>1
<1>5. q[n + 1] = e
  <2> DEFINE k == n + 1
  <2>1. k \in 1 .. Len(p) + Len(one) /\ ~(k <= Len(p)) /\ k - Len(p) = 1
    BY <1>1
  <2> HIDE DEF k
  <2>2. q[k] = one[k - Len(p)]
    BY <1>2, <2>1
  <2>3. q[k] = e
    BY <1>1, <2>1, <2>2
  <2> QED
    BY <2>3 DEF k
<1> QED
  BY <1>3, <1>4, <1>5 DEF q, one

LEMMA SplitCuts ==
  ASSUME NEW m \in Nat, NEW pos \in Int, pos <= FileSize, FileSize \in Int,
         OpenTo(points, m, pos),
         NEW r, r.end \in Int, r.pts \in Int, r.pos \in Int, Split(r)
  PROVE  /\ r.pts = Nopts => phase' = "points" /\ ClosedWith(points', m)
         /\ r.pts # Nopts /\ pos < r.pos => phase' = "search" /\ OpenTo(points', m + 1, r.pos)
<1> DEFINE P == [pts : Int, pos : Int]
           ends == [pts |-> r.end, pos |-> LastByte(r.pos)]
           begins == [pts |-> r.pts, pos |-> r.pos]
           q == points \o <<ends>>
<1>1. /\ ends \in P /\ begins \in P /\ ends.pos = r.pos - 1 /\ begins.pos = r.pos
  BY DEF LastByte
<1>2. /\ points' = q \o (IF r.pts = Nopts THEN <<>> ELSE <<begins>>)
      /\ phase' = IF r.pts = Nopts THEN "points" ELSE "search"
  BY DEF Split
<1>3. /\ points \in Seq(P) /\ Len(points) = 2 * m + 1 /\ points[1].pos >= 0
      /\ Whole(points, m) /\ points[2 * m + 1].pos <= pos
  BY DEF OpenTo, Points
<1> HIDE DEF ends, begins, P
<1>4. 2 * m + 1 \in Nat /\ 2 * m + 2 \in Nat /\ (2 * m + 1) + 1 = 2 * m + 2
      /\ (2 * m + 2) + 1 = 2 * m + 3
  OBVIOUS
<1>5. /\ q \in Seq(P) /\ Len(q) = 2 * m + 2
      /\ \A i \in 1 .. 2 * m + 1 : q[i] = points[i]
      /\ q[2 * m + 2] = ends
  <2> DEFINE n == 2 * m + 1
  <2>1. n \in Nat /\ Len(points) = n /\ n + 1 = 2 * m + 2
    BY <1>3, <1>4
  <2> HIDE DEF n
  <2>2. /\ q \in Seq(P) /\ Len(q) = n + 1 /\ \A i \in 1 .. n : q[i] = points[i]
        /\ q[n + 1] = ends
    BY <1>1, <1>3, <2>1, OneMore
  <2> HIDE DEF q
  <2>3. /\ q \in Seq(P) /\ Len(q) = 2 * m + 2 /\ \A i \in 1 .. n : q[i] = points[i]
        /\ q[2 * m + 2] = ends
    BY <2>1, <2>2
  <2> QED
    BY <2>3 DEF n
<1> HIDE DEF q
<1>6. /\ 1 \in 1 .. 2 * m + 1 /\ 2 * m + 1 \in 1 .. 2 * m + 1
      /\ \A k \in 1 .. m : /\ 2 * k - 1 \in 1 .. 2 * m + 1 /\ 2 * k \in 1 .. 2 * m + 1
                          /\ 2 * k + 1 \in 1 .. 2 * m + 1
  OBVIOUS
<1>7. Whole(q, m) /\ q[1].pos >= 0 /\ q[2 * m + 1].pos <= pos
  BY <1>3, <1>5, <1>6 DEF Whole
<1>8. points[2 * m + 1].pos \in Int
  BY OpenType
<1>9. CASE r.pts = Nopts
  <2>1. points' = q /\ phase' = "points"
    BY <1>2, <1>5, <1>9, ConcatEmptySeq
  <2>2. q[2 * m + 1].pos <= FileSize
    BY <1>5, <1>6, <1>7, <1>8
  <2> QED
    BY <1>5, <1>7, <1>9, <2>1, <2>2 DEF ClosedWith, Points, P
<1>10. CASE r.pts # Nopts /\ pos < r.pos
  <2> DEFINE s == q \o <<begins>>
  <2>1. points' = s /\ phase' = "search"
    BY <1>2, <1>10
  <2>2. /\ s \in Seq(P) /\ Len(s) = 2 * m + 3
        /\ \A i \in 1 .. 2 * m + 2 : s[i] = q[i]
        /\ s[2 * m + 3] = begins
    <3> DEFINE n == 2 * m + 2
    <3>1. n \in Nat /\ Len(q) = n /\ n + 1 = 2 * m + 3
      BY <1>4, <1>5
    <3> HIDE DEF n
    <3>2. /\ s \in Seq(P) /\ Len(s) = n + 1 /\ \A i \in 1 .. n : s[i] = q[i]
          /\ s[n + 1] = begins
      BY <1>1, <1>5, <3>1, OneMore
    <3> HIDE DEF s
    <3>3. /\ s \in Seq(P) /\ Len(s) = 2 * m + 3 /\ \A i \in 1 .. n : s[i] = q[i]
          /\ s[2 * m + 3] = begins
      BY <3>1, <3>2
    <3> QED
      BY <3>3 DEF n
  <2> HIDE DEF s
  <2>3. \A k \in 1 .. m : s[2 * k - 1].pos <= s[2 * k].pos /\ s[2 * k + 1].pos = s[2 * k].pos + 1
    <3>1. \A i \in 1 .. 2 * m + 1 : s[i] = q[i]
      BY <2>2
    <3> QED
      BY <1>6, <1>7, <3>1 DEF Whole
  <2>4. s[2 * m + 1].pos <= s[2 * m + 2].pos /\ s[2 * m + 3].pos = s[2 * m + 2].pos + 1
    <3>1. /\ s[2 * m + 1] = points[2 * m + 1] /\ s[2 * m + 2] = ends /\ s[2 * m + 3] = begins
      BY <1>5, <1>6, <2>2
    <3>2. points[2 * m + 1].pos <= r.pos - 1
      BY <1>3, <1>8, <1>10
    <3> QED
      BY <1>1, <3>1, <3>2
  <2>5. Whole(s, m + 1)
    <3> SUFFICES ASSUME NEW k \in 1 .. m + 1
                 PROVE  s[2 * k - 1].pos <= s[2 * k].pos /\ s[2 * k + 1].pos = s[2 * k].pos + 1
      BY DEF Whole
    <3>1. CASE k \in 1 .. m
      BY <2>3, <3>1
    <3>2. CASE k = m + 1
      <4>1. 2 * k - 1 = 2 * m + 1 /\ 2 * k = 2 * m + 2 /\ 2 * k + 1 = 2 * m + 3
        BY <3>2
      <4> QED
        BY <2>4, <4>1
    <3> QED
      BY <3>1, <3>2
  <2>6. 2 * (m + 1) + 1 = 2 * m + 3 /\ 1 \in 1 .. 2 * m + 2
    OBVIOUS
  <2>7. s[1].pos >= 0 /\ s[2 * m + 3].pos <= r.pos
    BY <1>1, <1>7, <2>2, <2>6
  <2> QED
    BY <1>10, <2>1, <2>2, <2>5, <2>6, <2>7 DEF OpenTo, Points, P
<1> QED
  BY <1>9, <1>10

----------------------------------------------------------------------------
(* The lists of chapters.                                                   *)

IsList(list, n) ==
  list = [k \in 1 .. n |-> [first |-> list[k].first, final |-> list[k].final,
                           length |-> list[k].length, shift |-> list[k].shift]]

Covers(list, n) ==
  /\ list[1].first = 0 /\ list[n].final = FileSize
  /\ \A k \in 1 .. n : /\ list[k].first \in Int /\ list[k].final \in Int
                        /\ list[k].first <= list[k].final
  /\ \A k \in 1 .. n - 1 : list[k + 1].first = list[k].final + 1

Covered(list) ==
  \E n \in Nat : IsList(list, n) /\ (n # 0 => Covers(list, n))

LEMMA ListFacts ==
  ASSUME NEW list, NEW n \in Nat, IsList(list, n)
  PROVE  Len(list) = n /\ DOMAIN list = 1 .. n /\ (n = 0 => list = <<>>)
<1> DEFINE entry(k) == [first |-> list[k].first, final |-> list[k].final,
                        length |-> list[k].length, shift |-> list[k].shift]
           S == {entry(k) : k \in 1 .. n}
<1>1. list = [k \in 1 .. n |-> entry(k)]
  BY DEF IsList
<1> HIDE DEF entry
<1>2. list \in [1 .. n -> S]
  BY <1>1
<1> HIDE DEF S
<1>3. list \in Seq(S) /\ DOMAIN list = 1 .. n
  BY <1>2
<1>4. Len(list) = n
  BY <1>3, LenProperties
<1> QED
  BY <1>3, <1>4, EmptySeq

(* Of two lists that are matched the other one keeps its places.            *)
LEMMA SyncedCovered ==
  ASSUME NEW lead, NEW list, Covered(list)
  PROVE  Covered(Synced(lead, list))
<1>1. PICK n \in Nat : IsList(list, n) /\ (n # 0 => Covers(list, n))
  BY DEF Covered
<1>2. DOMAIN list = 1 .. n
  BY <1>1, ListFacts
<1> DEFINE new == Synced(lead, list)
           match(k) == {c \in DOMAIN lead : Matches(lead[c], list[k])}
           shift(k) == IF match(k) = {} THEN list[k].shift ELSE lead[Max(match(k))].shift
<1>3. ASSUME NEW k \in 1 .. n
      PROVE  list[k] = [first |-> list[k].first, final |-> list[k].final,
                        length |-> list[k].length, shift |-> list[k].shift]
  BY <1>1, <1>3 DEF IsList
<1>4. new = [k \in 1 .. n |-> IF match(k) = {} THEN list[k]
                              ELSE [list[k] EXCEPT !.shift = lead[Max(match(k))].shift]]
  BY <1>2 DEF Synced
<1> HIDE DEF new, match
<1>5. ASSUME NEW k \in 1 .. n
      PROVE  /\ new[k].first = list[k].first /\ new[k].final = list[k].final
             /\ new[k] = [first |-> new[k].first, final |-> new[k].final,
                          length |-> new[k].length, shift |-> new[k].shift]
  <2> DEFINE a == list[k].first
             b == list[k].final
             d == list[k].length
             e == list[k].shift
             u == lead[Max(match(k))].shift
  <2>1. list[k] = [first |-> a, final |-> b, length |-> d, shift |-> e]
    BY <1>3, <1>5
  <2>2. new[k] = IF match(k) = {} THEN list[k] ELSE [list[k] EXCEPT !.shift = u]
    BY <1>4
  <2> HIDE DEF a, b, d, e, u
  <2>3. [list[k] EXCEPT !.shift = u] = [first |-> a, final |-> b, length |-> d, shift |-> u]
    BY <2>1
  <2>4. new[k] = [first |-> a, final |-> b, length |-> d,
                  shift |-> IF match(k) = {} THEN e ELSE u]
    BY <2>1, <2>2, <2>3
  <2>5. new[k].first = a /\ new[k].final = b
    BY <2>4
  <2>6. new[k] = [first |-> new[k].first, final |-> new[k].final,
                  length |-> new[k].length, shift |-> new[k].shift]
    BY <2>4
  <2> QED
    BY <2>5, <2>6 DEF a, b
<1>6. IsList(new, n)
  <2>1. DOMAIN new = 1 .. n /\ new = [k \in 1 .. n |-> new[k]]
    BY <1>4
  <2> QED
    BY <1>5, <2>1 DEF IsList
<1>7. n # 0 => Covers(new, n)
  <2> SUFFICES ASSUME n # 0 PROVE Covers(new, n)
    OBVIOUS
  <2>1. 1 \in 1 .. n /\ n \in 1 .. n /\ \A k \in 1 .. n - 1 : k \in 1 .. n /\ k + 1 \in 1 .. n
    OBVIOUS
  <2> QED
    BY <1>1, <1>5, <2>1 DEF Covers
<1> QED
  BY <1>6, <1>7 DEF Covered, new

(* What StreamDone makes of the points.                                     *)
LEMMA PointsCover ==
  ASSUME NEW m \in Nat, ClosedWith(points, m), FileSize \in Nat, StreamDone,
         stream \in Streams, DOMAIN chapters = Streams
  PROVE  /\ Covered(chapters'[stream])
         /\ DOMAIN chapters' = Streams
         /\ \A s \in Streams \ {stream} : chapters'[s] = chapters[s]
<1> DEFINE n == m + 1
           from(k) == points[2 * k - 1]
           to(k) == points[2 * k]
<1>1. Len(points) = 2 * m + 2 /\ Len(points) \div 2 = n /\ n \in Nat /\ n # 0
  BY DEF ClosedWith
<1> DEFINE h == Len(points) \div 2
<1>2. PICK clock :
        chapters' = [chapters EXCEPT ![stream] =
              [k \in 1 .. h |->
                 [first |-> IF k = 1 THEN 0 ELSE from(k).pos,
                  final |-> IF k = h THEN FileSize ELSE to(k).pos,
                  length |-> Dist(to(k).pts, from(k).pts),
                  shift |-> clock[k] - from(k).pts]]]
  BY DEF StreamDone
<1> DEFINE list == [k \in 1 .. h |->
                 [first |-> IF k = 1 THEN 0 ELSE from(k).pos,
                  final |-> IF k = h THEN FileSize ELSE to(k).pos,
                  length |-> Dist(to(k).pts, from(k).pts),
                  shift |-> clock[k] - from(k).pts]]
<1>3. chapters' = [chapters EXCEPT ![stream] = list]
  BY <1>2
<1> HIDE DEF h
<1>4. /\ \A k \in 1 .. h : list[k].first = (IF k = 1 THEN 0 ELSE from(k).pos)
                          /\ list[k].final = (IF k = h THEN FileSize ELSE to(k).pos)
      /\ IsList(list, h)
  BY DEF IsList
<1> HIDE DEF list, from, to
<1>5. \A k \in 1 .. n : list[k].first = (IF k = 1 THEN 0 ELSE from(k).pos)
                        /\ list[k].final = (IF k = n THEN FileSize ELSE to(k).pos)
  BY <1>1, <1>4 DEF h
<1>6. IsList(list, n)
  BY <1>1, <1>4 DEF h
<1> USE DEF from, to
<1>7. \A i \in 1 .. 2 * m + 2 : points[i].pos \in Int
  <2> DEFINE P == [pts : Int, pos : Int]
  <2>1. points \in Seq(P)
    BY DEF ClosedWith, Points
  <2> HIDE DEF P
  <2>2. \A i \in 1 .. 2 * m + 2 : points[i] \in P
    BY <1>1, <2>1, ElementOfSeq
  <2> QED
    BY <2>2 DEF P
<1>8. /\ points[1].pos >= 0 /\ points[2 * m + 1].pos <= FileSize
      /\ \A k \in 1 .. m : /\ points[2 * k - 1].pos <= points[2 * k].pos
                          /\ points[2 * k + 1].pos = points[2 * k].pos + 1
  BY DEF ClosedWith, Whole
<1>9. /\ from(1) = points[1] /\ from(n) = points[2 * m + 1]
      /\ \A k \in 1 .. m : from(k + 1) = points[2 * k + 1] /\ k + 1 # 1 /\ k # n
                          /\ k \in 1 .. n /\ k + 1 \in 1 .. n
      /\ n - 1 = m /\ 1 \in 1 .. n /\ n \in 1 .. n
  <2>1. 2 * 1 - 1 = 1 /\ 2 * n - 1 = 2 * m + 1 /\ \A k \in 1 .. m : 2 * (k + 1) - 1 = 2 * k + 1
    OBVIOUS
  <2> QED
    BY <2>1
<1>10. \A k \in 1 .. n : list[k].first <= list[k].final
  <2> SUFFICES ASSUME NEW k \in 1 .. n PROVE list[k].first <= list[k].final
    OBVIOUS
  <2>1. CASE k = n
    <3>1. list[k].final = FileSize
      BY <1>5, <2>1
    <3>2. list[k].first = 0 \/ list[k].first = points[2 * m + 1].pos
      BY <1>5, <1>9, <2>1
    <3> QED
      BY <1>8, <3>1, <3>2
  <2>2. CASE k # n
    <3>1. k \in 1 .. m /\ list[k].final = points[2 * k].pos
      BY <1>5, <2>2
    <3>2. points[2 * k - 1].pos <= points[2 * k].pos
      BY <1>8, <3>1
    <3>3. CASE k = 1
      <4>1. 2 * k - 1 = 1 /\ 2 * k \in 1 .. 2 * m + 2 /\ 1 \in 1 .. 2 * m + 2
        BY <3>1, <3>3
      <4>2. points[1].pos \in Int /\ points[2 * k].pos \in Int /\ 0 <= points[1].pos
        BY <1>7, <1>8, <4>1
      <4> DEFINE x == points[2 * k].pos
      <4>3. points[1].pos <= x
        BY <3>2, <4>1
      <4> HIDE DEF x
      <4>4. 0 <= x
        BY <4>2, <4>3 DEF x
      <4>5. list[k].first = 0
        BY <1>5, <3>3
      <4> QED
        BY <3>1, <4>4, <4>5 DEF x
    <3>4. CASE k # 1
      <4>1. list[k].first = points[2 * k - 1].pos
        BY <1>5, <3>4
      <4> QED
        BY <3>1, <3>2, <4>1
    <3> QED
      BY <3>3, <3>4
  <2> QED
    BY <2>1, <2>2
<1>11. \A k \in 1 .. n - 1 : list[k + 1].first = list[k].final + 1
  BY <1>5, <1>8, <1>9
<1>12. list[1].first = 0 /\ list[n].final = FileSize
  BY <1>5, <1>9
<1>13. ASSUME NEW k \in 1 .. n PROVE list[k].first \in Int /\ list[k].final \in Int
  <2>1. 2 * k - 1 \in 1 .. 2 * m + 2 /\ 2 * k \in 1 .. 2 * m + 2
    OBVIOUS
  <2>2. from(k).pos \in Int /\ to(k).pos \in Int
    BY <1>7, <2>1
  <2> QED
    BY <1>5, <2>2
<1>14. Covered(list)
  BY <1>1, <1>6, <1>10, <1>11, <1>12, <1>13 DEF Covered, Covers
<1> QED
  BY <1>3, <1>14

----------------------------------------------------------------------------
(* The invariant: the search goes on behind the points it has found, and    *)
(* the lists that are done cover the file.                                  *)

Basics ==
  /\ film \in Films /\ ok \in BOOLEAN
  /\ phase \in {"next", "search", "coarse", "fine", "points", "ready"}
  /\ cursor \in 0 .. Len(film) /\ stream \in 0 .. Max(Streams) + 1
  /\ newPts \in Nat \cup {Nopts} /\ endPts \in Nat \cup {Nopts}
  /\ newPos \in -1 .. FileSize /\ startPos \in 0 .. FileSize
  /\ processed \in 0 .. FileSize
  /\ current \in [Streams -> Nat] /\ fresh \subseteq Streams

Searching ==
  /\ phase \in {"search", "coarse", "fine", "points"} => stream \in Timed /\ Of(stream) # {}
  /\ phase \in {"search", "coarse", "fine"} =>
       /\ newPts \in Nat /\ newPos \in Nat
       /\ \E m \in Nat : OpenTo(points, m, newPos)
  /\ phase = "search" => cursor # 0 /\ newPos <= Byte(cursor) /\ GoesOn(cursor, newPts)
  /\ phase \in {"coarse", "fine"} => turn \in Nat \ {0}
  /\ phase = "points" => \E m \in Nat : ClosedWith(points, m)

ListsCover ==
  DOMAIN chapters = Streams /\ \A s \in Streams : Covered(chapters[s])

Inv == Basics /\ Searching /\ ListsCover

LEMMA InvIsTypeOK == Inv => TypeOK
<1> SUFFICES ASSUME Inv PROVE TypeOK
  OBVIOUS
<1>1. ASSUME NEW s \in Streams, chapters[s] # <<>>
      PROVE  LET list == chapters[s] IN
               /\ list[1].first = 0 /\ list[Len(list)].final = FileSize
               /\ \A k \in DOMAIN list : list[k].first <= list[k].final
               /\ \A k \in 1 .. Len(list) - 1 : list[k + 1].first = list[k].final + 1
  <2>1. PICK n \in Nat : IsList(chapters[s], n) /\ (n # 0 => Covers(chapters[s], n))
    BY DEF Inv, ListsCover, Covered
  <2>2. n # 0 /\ Len(chapters[s]) = n /\ DOMAIN chapters[s] = 1 .. n
    BY <1>1, <2>1, ListFacts
  <2> QED
    BY <2>1, <2>2 DEF Covers
<1> QED
  BY <1>1 DEF Inv, Basics, TypeOK

LEMMA InvInit == Init => Inv
<1> SUFFICES ASSUME Init PROVE Inv
  OBVIOUS
<1>1. film \in Films /\ Size \in Nat /\ FileSize \in Nat
  BY FilmFacts, Constants DEF Init, FileSize, Size
<1>2. Basics
  <2>1. 0 \in 0 .. Len(film) /\ 0 \in -1 .. FileSize /\ 0 \in 0 .. FileSize
        /\ 0 \in 0 .. Max(Streams) + 1
    BY <1>1, Constants DEF Size
  <2>2. current \in [Streams -> Nat]
    BY DEF Init
  <2>3. /\ phase = "next" /\ cursor = 0 /\ stream = 0 /\ ok = TRUE
        /\ newPts = Nopts /\ newPos = 0 /\ endPts = Nopts /\ startPos = 0 /\ processed = 0
        /\ fresh = Streams
    BY DEF Init
  <2> QED
    BY <1>1, <2>1, <2>2, <2>3 DEF Basics
<1>3. Searching
  BY DEF Init, Searching
<1>4. ListsCover
  <2>1. chapters = [s \in Streams |-> <<>>]
    BY DEF Init
  <2>2. IsList(<<>>, 0)
    BY DEF IsList
  <2>3. Covered(<<>>)
    BY <2>2 DEF Covered
  <2> QED
    BY <2>1, <2>3 DEF ListsCover
<1> QED
  BY <1>2, <1>3, <1>4 DEF Inv

LEMMA ListsKept ==
  ASSUME ListsCover, UNCHANGED <<film, chapters>>
  PROVE  ListsCover'
<1>1. FileSize' = FileSize
  BY DEF FileSize
<1>2. ASSUME NEW s \in Streams PROVE Covered(chapters[s])'
  <2>1. PICK n \in Nat : IsList(chapters[s], n) /\ (n # 0 => Covers(chapters[s], n))
    BY DEF ListsCover, Covered
  <2>2. IsList(chapters'[s], n)
    BY <2>1
  <2>3. n # 0 => Covers(chapters[s], n)'
    BY <1>1, <2>1 DEF Covers
  <2> QED
    BY <2>2, <2>3 DEF Covered, IsList
<1> QED
  BY <1>2 DEF ListsCover

LEMMA Sizes ==
  ASSUME Inv
  PROVE  /\ film \in Films /\ Size \in Nat /\ Size = Len(film) /\ Lead \in Nat
         /\ FileSize \in Nat /\ FileSize = Lead + Size
         /\ \A i \in 1 .. Size : Byte(i) \in 0 .. FileSize - 1 /\ Byte(i) \in Nat
<1>1. film \in Films
  BY DEF Inv, Basics
<1>2. Size \in Nat /\ Size = Len(film)
  BY <1>1, FilmFacts DEF Size
<1>3. Lead \in Nat /\ FileSize = Lead + Size
  BY Constants DEF FileSize, Size
<1>4. \A i \in 1 .. Size : Byte(i) \in 0 .. FileSize - 1 /\ Byte(i) \in Nat
  BY <1>2, <1>3 DEF Byte
<1> QED
  BY <1>1, <1>2, <1>3, <1>4

(* The first packet of a stream, and the least stamp near it.               *)
LEMMA StartOf ==
  ASSUME film \in Films, NEW s, Of(s) # {}
  PROVE  Min({Pts(i) : i \in Firsts(Of(s), ProbeSize)}) \in Nat
<1> DEFINE S == Of(s)
           F == Firsts(S, ProbeSize)
           R == {Pts(i) : i \in F}
<1>1. S \in SUBSET Nat /\ \A i \in S : Pts(i) \in Nat
  BY OfFacts
<1>2. Min(S) \in S /\ \A i \in S : Min(S) <= i
  <2> HIDE DEF S
  <2> QED
    BY <1>1, MinIsLeast DEF S
<1>3. {j \in S : j < Min(S)} = {}
  <2> SUFFICES ASSUME NEW j \in S, j < Min(S) PROVE FALSE
    OBVIOUS
  <2> DEFINE x == Min(S)
  <2>1. x \in Nat /\ j \in Nat /\ x <= j /\ j < x
    BY <1>1, <1>2
  <2> QED
    BY <2>1
<1>4. Cardinality({j \in S : j < Min(S)}) < ProbeSize
  <2>1. Cardinality({}) = 0 /\ 0 < ProbeSize
    BY Constants, FS_EmptySet
  <2> QED
    BY <1>3, <2>1
<1>5. Min(S) \in F /\ F \in SUBSET S
  BY <1>2, <1>4 DEF Firsts
<1> HIDE DEF F, S
<1>6. R # {} /\ R \in SUBSET Nat
  BY <1>1, <1>5
<1> HIDE DEF R
<1>7. Min(R) \in R
  BY <1>6, MinIsLeast
<1> QED
  BY <1>6, <1>7 DEF R, F, S

(* The search for the end of the first chapter.                             *)
LEMMA StartGoesOn ==
  ASSUME KnownAtJumps, film \in Films, stream \in Timed, Of(stream) # {}
  PROVE  GoesOn(Min(Of(stream)), Min({Pts(i) : i \in Firsts(Of(stream), ProbeSize)}))
<1> DEFINE S == Of(stream)
           F == Firsts(S, ProbeSize)
           R == {Pts(i) : i \in F}
           first == Min(S)
<1>1. S \in SUBSET (1 .. Size) /\ S \in SUBSET Nat /\ Size \in Nat /\ \A i \in S : Pts(i) \in Nat
  BY OfFacts, FilmFacts
<1>2. first \in S /\ \A i \in S : first <= i
  <2> HIDE DEF S
  <2> QED
    BY <1>1, MinIsLeast DEF S
<1>3. F \in SUBSET S /\ \A c \in F, k \in S : k <= c => k \in F
  <2> HIDE DEF S
  <2> QED
    BY <1>1, Constants, FirstsFacts
<1>4. PICK j \in F : Min(R) = Pts(j)
  <2>1. first \in F
    <3>1. {j \in S : j < first} = {}
      <4> SUFFICES ASSUME NEW j \in S, j < first PROVE FALSE
        OBVIOUS
      <4> HIDE DEF first
      <4>1. first \in Nat /\ j \in Nat /\ first <= j
        BY <1>1, <1>2
      <4> QED
        BY <4>1
    <3>2. Cardinality({}) = 0 /\ 0 < ProbeSize
      BY Constants, FS_EmptySet
    <3> HIDE DEF first
    <3> QED
      BY <1>2, <3>1, <3>2 DEF Firsts
  <2> HIDE DEF F, S
  <2>2. R # {} /\ R \in SUBSET Nat
    BY <1>1, <1>3, <2>1
  <2> HIDE DEF R
  <2>3. Min(R) \in R
    BY <2>2, MinIsLeast
  <2> QED
    BY <2>3 DEF R
<1>5. \A k \in F : Min(R) <= Pts(k)
  <2> HIDE DEF F, S
  <2>1. R # {} /\ R \in SUBSET Nat
    BY <1>1, <1>3, <1>4
  <2>2. \A r \in R : Min(R) <= r
    <3> HIDE DEF R
    <3> QED
      BY <2>1, MinIsLeast
  <2> QED
    BY <2>2
<1> HIDE DEF R, first, F
<1>6. j \in S /\ j \in Nat /\ Pts(j) \in Nat /\ first \in Nat /\ first <= j /\ Second \in Nat
  BY <1>1, <1>2, <1>3, <1>4, Constants
<1> SUFFICES ASSUME NEW i \in S, first < i
             PROVE  /\ Min(R) > Pts(i) + Second => MayJump(stream, i)
                    /\ Between(stream, first, i) = {} =>
                         /\ Pts(i) > Min(R) + Second => MayJump(stream, i)
                         /\ ~film[i].known => Dist(Pts(i), Min(R)) <= Second
  BY DEF GoesOn, first, R, F
<1>7. ASSUME Min(R) > Pts(i) + Second PROVE MayJump(stream, i)
  <2>1. i \in Nat /\ Pts(i) \in Nat
    BY <1>1
  <2>2. i \notin F
    BY <1>4, <1>5, <1>6, <1>7, <2>1
  <2>3. j < i
    BY <1>3, <1>6, <2>1, <2>2
  <2> QED
    BY <1>4, <1>6, <1>7, <2>3 DEF MayJump
<1>8. ASSUME Between(stream, first, i) = {} PROVE MayJump(stream, i)
  <2>1. {k \in Of(stream) : k < i} = {first}
    <3>1. ASSUME NEW k \in S, k < i PROVE k = first
      <4>1. k \in Nat /\ first <= k /\ ~(first < k)
        BY <1>1, <1>2, <1>8, <3>1 DEF Between
      <4> QED
        BY <1>6, <4>1
    <3> QED
      BY <1>2, <3>1
  <2>2. Cardinality({first}) = 1
    BY FS_Singleton
  <2> QED
    BY <2>1, <2>2 DEF MayJump
<1>9. ASSUME Between(stream, first, i) = {}, ~film[i].known
      PROVE  Dist(Pts(i), Min(R)) <= Second
  BY <1>2, <1>9 DEF KnownAtJumps, R, F, first
<1> QED
  BY <1>7, <1>8, <1>9

LEMMA StartKeeps ==
  ASSUME KnownAtJumps, Inv, StartStream
  PROVE  Inv'
<1>1. /\ phase = "next" /\ stream \in Timed /\ stream \in Streams
      /\ UNCHANGED <<film, chapters, current, fresh>>
  BY Constants DEF StartStream
<1>2. ListsCover'
  BY <1>1, ListsKept DEF Inv
<1>3. Basics
  BY DEF Inv
<1>4. CASE Of(stream) = {}
  <2>1. /\ ok' = FALSE /\ phase' = "next" /\ stream' = stream + 1 /\ cursor' = Len(film)
        /\ UNCHANGED <<newPts, newPos, endPts, startPos, processed>>
    BY <1>4 DEF StartStream, StreamFails
  <2>2. stream + 1 \in 0 .. Max(Streams) + 1 /\ Len(film) \in 0 .. Len(film)
    BY <1>1, Constants, Sizes
  <2>3. Basics'
    BY <1>1, <1>3, <2>1, <2>2 DEF Basics, FileSize
  <2>4. Searching'
    BY <2>1 DEF Searching
  <2> QED
    BY <1>2, <2>3, <2>4 DEF Inv
<1>5. CASE Of(stream) # {}
  <2> DEFINE first == At(0)
  <2>1. /\ newPts' = Min({Pts(i) : i \in Firsts(Of(stream), ProbeSize)})
        /\ newPos' = Byte(first) /\ cursor' = first
        /\ points' = <<[pts |-> newPts', pos |-> newPos']>>
        /\ endPts' = Nopts /\ startPos' = 0 /\ processed' = 0
        /\ phase' = "search" /\ UNCHANGED <<ok, stream>>
    BY <1>5 DEF StartStream
  <2>2. After(0) # {}
    <3>1. \A i \in Of(stream) : Byte(i) >= 0
      BY OfFacts, Constants, Sizes
    <3>2. After(0) = Of(stream)
      BY <3>1 DEF After
    <3> QED
      BY <1>5, <3>2
  <2>11. first = Min(Of(stream))
    <3>1. \A i \in Of(stream) : Byte(i) >= 0
      BY OfFacts, Constants, Sizes
    <3> QED
      BY <3>1 DEF After, At
  <2>3. first \in 1 .. Size /\ first \in Nat
    BY <2>2, AtIsNext, OfFacts, Sizes
  <2> HIDE DEF first
  <2>4. newPts' \in Nat
    BY <1>5, <2>1, Sizes, StartOf
  <2>5. newPos' \in Nat /\ newPos' \in 0 .. FileSize /\ newPos' \in -1 .. FileSize
    BY <2>1, <2>3, Sizes
  <2>6. /\ cursor' # 0 /\ cursor' \in 0 .. Len(film) /\ newPos' <= Byte(cursor')
        /\ 0 \in 0 .. FileSize
    BY <2>1, <2>3, <2>5, Sizes
  <2>7. OpenTo(points', 0, newPos')
    <3> DEFINE e == [pts |-> newPts', pos |-> newPos']
    <3>1. e \in [pts : Int, pos : Int] /\ e.pos = newPos'
      BY <2>4, <2>5
    <3> HIDE DEF e
    <3>2. <<e>> \in Points /\ Len(<<e>>) = 1 /\ <<e>>[1] = e
      BY <3>1 DEF Points
    <3>3. points' = <<e>>
      BY <2>1 DEF e
    <3>4. 2 * 0 + 1 = 1
      OBVIOUS
    <3>5. Whole(<<e>>, 0)
      BY DEF Whole
    <3> QED
      BY <2>5, <3>1, <3>2, <3>3, <3>4, <3>5 DEF OpenTo
  <2>8. Basics'
    BY <1>1, <1>3, <2>1, <2>4, <2>5, <2>6 DEF Basics, FileSize
  <2>9. Searching'
    <3>1. stream' \in Timed /\ (Of(stream) # {})'
      BY <1>1, <1>5, <2>1 DEF Of
    <3>2. \E m \in Nat : OpenTo(points', m, newPos')
      BY <2>7
    <3>3. (\E m \in Nat : OpenTo(points, m, newPos))'
      BY <3>2 DEF OpenTo, Whole
    <3>4. (newPos <= Byte(cursor))'
      BY <2>6 DEF Byte
    <3>5. GoesOn(first, newPts')
      BY <1>1, <1>5, <2>1, <2>11, Sizes, StartGoesOn
    <3>6. GoesOn(cursor, newPts)'
      BY <1>1, <2>1, <3>5, GoesOnKept
    <3> QED
      BY <2>1, <2>4, <2>5, <2>6, <3>1, <3>3, <3>4, <3>6 DEF Searching
  <2> QED
    BY <1>2, <2>8, <2>9 DEF Inv
<1> QED
  BY <1>4, <1>5

(* A search that found the end of a chapter, or of the file.                *)
LEMMA SplitKeeps ==
  ASSUME Inv, phase \in {"search", "fine"}, UNCHANGED <<film, chapters, current, fresh, stream, ok>>,
         startPos' = startPos,
         NEW r, Becomes(r), Split(r), NEW pos \in newPos .. FileSize,
         r.end \in Nat \cup {Nopts}, r.pts \in Nat \cup {Nopts}, r.cursor \in 1 .. Size,
         r.pos \in -1 .. FileSize, r.bytes \in 0 .. FileSize,
         r.pts # Nopts => /\ pos < r.pos /\ r.pos <= Byte(r.cursor)
                          /\ GoesOn(r.cursor, r.pts)
  PROVE  Inv'
<1>1. ListsCover' /\ Basics /\ Searching
  BY ListsKept DEF Inv
<1>2. /\ cursor' = r.cursor /\ endPts' = r.end /\ newPts' = r.pts /\ newPos' = r.pos
      /\ processed' = r.bytes
  BY DEF Becomes
<1>3. newPos \in Nat /\ newPos \in 0 .. FileSize /\ FileSize \in Nat /\ newPos <= FileSize
  BY <1>1, Sizes DEF Searching, Basics
<1>4. PICK m \in Nat : OpenTo(points, m, newPos)
  BY <1>1 DEF Searching
<1>5. r.end \in Int /\ r.pts \in Int /\ r.pos \in Int
  BY DEF Nopts
<1>6. /\ r.pts = Nopts => phase' = "points" /\ ClosedWith(points', m)
      /\ r.pts # Nopts => phase' = "search" /\ OpenTo(points', m + 1, r.pos)
  <2>1. r.pts # Nopts => newPos < r.pos
    BY <1>3, <1>5
  <2> QED
    BY <1>3, <1>4, <1>5, <2>1, SplitCuts
<1>7. Basics'
  <2>1. r.cursor \in 0 .. Len(film)
    BY Sizes
  <2>2. phase' \in {"next", "search", "coarse", "fine", "points", "ready"}
    BY <1>6
  <2> QED
    BY <1>1, <1>2, <2>1, <2>2 DEF Basics, FileSize
<1>8. Searching'
  <2>1. stream' \in Timed /\ (Of(stream) # {})'
    BY <1>1 DEF Searching, Of
  <2>2. CASE r.pts = Nopts
    <3>1. phase' = "points" /\ ClosedWith(points', m)
      BY <1>6, <2>2
    <3>2. (\E n \in Nat : ClosedWith(points, n))'
      BY <3>1 DEF ClosedWith, Whole, FileSize
    <3> QED
      BY <2>1, <3>1, <3>2 DEF Searching
  <2>3. CASE r.pts # Nopts
    <3>1. phase' = "search" /\ OpenTo(points', m + 1, newPos') /\ m + 1 \in Nat
      BY <1>2, <1>6, <2>3
    <3>2. (\E n \in Nat : OpenTo(points, n, newPos))'
      BY <3>1 DEF OpenTo, Whole
    <3>3. newPts' \in Nat /\ newPos' \in Nat
      BY <1>2, <1>3, <2>3
    <3>4. GoesOn(cursor, newPts)'
      BY <1>2, <2>3, GoesOnKept
    <3>5. cursor' # 0 /\ (newPos <= Byte(cursor))'
      BY <1>2, <2>3 DEF Byte
    <3> QED
      BY <2>1, <3>1, <3>2, <3>3, <3>4, <3>5 DEF Searching
  <2> QED
    BY <2>2, <2>3
<1> QED
  BY <1>1, <1>7, <1>8 DEF Inv

(* What a search from a position returns.                                   *)
Found(r, pos, limit) ==
  /\ r \in [found : BOOLEAN, end : Nat \cup {Nopts}, pts : Nat \cup {Nopts},
            cursor : 1 .. Size, pos : 0 .. FileSize, bytes : 0 .. FileSize]
  /\ r.pts # Nopts => pos < r.pos /\ r.pos <= Byte(r.cursor)
  /\ r.found /\ r.pts # Nopts => GoesOn(r.cursor, r.pts)
  /\ ~r.found => limit > 0 /\ r.pts # Nopts

LEMMA SearchReturns ==
  ASSUME KnownAtJumps, film \in Films, stream \in Timed,
         NEW from \in 1 .. Size, NEW pos \in Nat, pos <= Byte(from), NEW pts \in Nat,
         GoesOn(from, pts),
         NEW limit \in Nat, endPts \in Nat \cup {Nopts}, processed \in 0 .. FileSize
  PROVE  Found(Search(from, pos, pts, limit), pos, limit)
<1> DEFINE r == Search(from, pos, pts, limit)
<1>1. /\ r \in [found : BOOLEAN, end : Nat \cup {Nopts}, pts : Nat \cup {Nopts},
                cursor : 1 .. Size, pos : 0 .. FileSize, bytes : 0 .. FileSize]
      /\ r.pts # Nopts => pos < r.pos /\ r.pos <= Byte(r.cursor)
      /\ r.found /\ r.pts # Nopts => GoesOn(r.cursor, r.pts)
      /\ ~r.found => limit > 0 /\ r.pts # Nopts
  BY SearchFinds, SMTT(30)
<1> HIDE DEF r
<1> QED
  BY <1>1 DEF Found, r

(* What SearchEnd does with the result of its search.                       *)
Searched(r) ==
  IF r.found
    THEN Becomes(r) /\ Split(r) /\ UNCHANGED <<startPos, coarse>>
    ELSE /\ Becomes([r EXCEPT !.end = newPts])
         /\ startPos' = newPos
         /\ diffPts' = r.pts - newPts /\ diffPos' = r.pos - newPos
         /\ turn' = 1 /\ threshold' = 5
         /\ phase' = "coarse" /\ UNCHANGED points

LEMMA SearchEndFinds ==
  ASSUME KnownAtJumps, Inv, SearchEnd
  PROVE  \E r, limit : \E pos \in newPos .. FileSize : Found(r, pos, limit) /\ Searched(r)
<1> DEFINE limit == Greater(ChapterSize, (processed * 3) \div 2)
<1>1. /\ phase = "search" /\ UNCHANGED <<film, chapters, current, fresh, stream, ok>>
  BY DEF SearchEnd
<1>2. PICK r \in {IF newPos <= 0 THEN Search(At(0), Byte(At(0)), Pts(At(0)), limit)
                 ELSE Search(cursor, newPos, newPts, limit)} : Searched(r)
  BY DEF SearchEnd, Searched
<1>3. Basics /\ Searching /\ ListsCover'
  BY <1>1, ListsKept DEF Inv
<1>4. /\ film \in Films /\ stream \in Timed /\ Of(stream) # {} /\ newPts \in Nat /\ newPos \in Nat
      /\ newPos <= FileSize /\ cursor \in 1 .. Size /\ newPos <= Byte(cursor)
      /\ endPts \in Nat \cup {Nopts} /\ processed \in 0 .. FileSize
      /\ startPos \in 0 .. FileSize /\ GoesOn(cursor, newPts)
  BY <1>1, <1>3, Sizes DEF Basics, Searching
<1>5. limit \in Nat
  BY <1>4, Constants, Sizes DEF Greater
<1> HIDE DEF limit
<1>6. \E pos \in newPos .. FileSize : Found(r, pos, limit)
  <2>1. CASE newPos <= 0
    <3> DEFINE i == At(0)
               b == Byte(At(0))
    <3>1. After(0) = Of(stream)
      <4>1. ASSUME NEW j \in Of(stream) PROVE Byte(j) >= 0
        <5>1. j \in 1 .. Size
          BY <1>4, <4>1, OfFacts
        <5>2. Byte(j) \in Nat
          BY <5>1, Sizes
        <5> QED
          BY <5>2
      <4> QED
        BY <4>1 DEF After
    <3>2. i \in 1 .. Size /\ Pts(i) \in Nat /\ GoesOn(i, Pts(i))
      BY <1>4, <3>1, AtIsNext, OfFacts, GoesOnFrom
    <3>3. b \in Nat /\ b \in newPos .. FileSize /\ b <= Byte(i)
      BY <1>4, <2>1, <3>2, Sizes
    <3>4. r = Search(i, b, Pts(i), limit)
      BY <2>1
    <3> HIDE DEF i, b
    <3>5. Found(Search(i, b, Pts(i), limit), b, limit)
      BY <1>4, <1>5, <3>2, <3>3, SearchReturns
    <3> QED
      BY <3>3, <3>4, <3>5
  <2>2. CASE ~(newPos <= 0)
    <3>1. r = Search(cursor, newPos, newPts, limit) /\ newPos \in newPos .. FileSize
      BY <1>4, <2>2, Sizes
    <3>2. Found(Search(cursor, newPos, newPts, limit), newPos, limit)
      BY <1>4, <1>5, SearchReturns
    <3> QED
      BY <3>1, <3>2
  <2> QED
    BY <2>1, <2>2
<1> QED
  BY <1>2, <1>6

LEMMA SearchKeeps ==
  ASSUME KnownAtJumps, Inv, SearchEnd
  PROVE  Inv'
<1>1. /\ phase = "search" /\ UNCHANGED <<film, chapters, current, fresh, stream, ok>>
  BY DEF SearchEnd
<1>2. PICK r, limit : \E pos \in newPos .. FileSize : Found(r, pos, limit) /\ Searched(r)
  BY SearchEndFinds
<1>3. Basics /\ Searching /\ ListsCover'
  BY <1>1, ListsKept DEF Inv
<1>4. /\ film \in Films /\ stream \in Timed /\ Of(stream) # {} /\ newPts \in Nat /\ newPos \in Nat
      /\ newPos <= FileSize /\ cursor \in 1 .. Size /\ newPos <= Byte(cursor)
      /\ endPts \in Nat \cup {Nopts} /\ processed \in 0 .. FileSize
      /\ startPos \in 0 .. FileSize /\ GoesOn(cursor, newPts)
  BY <1>1, <1>3, Sizes DEF Basics, Searching
<1>5. PICK pos \in newPos .. FileSize :
        /\ r \in [found : BOOLEAN, end : Nat \cup {Nopts}, pts : Nat \cup {Nopts},
                  cursor : 1 .. Size, pos : 0 .. FileSize, bytes : 0 .. FileSize]
        /\ r.pts # Nopts => pos < r.pos /\ r.pos <= Byte(r.cursor)
        /\ r.found /\ r.pts # Nopts => GoesOn(r.cursor, r.pts)
        /\ ~r.found => r.pts # Nopts
  BY <1>2 DEF Found
<1>6. /\ r.end \in Nat \cup {Nopts} /\ r.pts \in Nat \cup {Nopts} /\ r.cursor \in 1 .. Size
      /\ r.pos \in 0 .. FileSize /\ r.pos \in -1 .. FileSize /\ r.bytes \in 0 .. FileSize
      /\ r.found \in BOOLEAN /\ FileSize \in Nat
  BY <1>5, Sizes
<1>7. CASE r.found
  <2>1. Becomes(r) /\ Split(r) /\ startPos' = startPos
    BY <1>2, <1>7 DEF Searched
  <2>2. r.pts # Nopts => pos < r.pos /\ r.pos <= Byte(r.cursor) /\ GoesOn(r.cursor, r.pts)
    BY <1>5, <1>7
  <2>3. pos \in newPos .. FileSize /\ phase \in {"search", "fine"}
    BY <1>1
  <2> QED
    BY <1>1, <1>6, <2>1, <2>2, <2>3, SplitKeeps
<1>8. CASE ~r.found
  <2>1. /\ Becomes([r EXCEPT !.end = newPts]) /\ startPos' = newPos
        /\ turn' = 1 /\ phase' = "coarse" /\ points' = points
    BY <1>2, <1>8 DEF Searched
  <2>2. /\ cursor' = r.cursor /\ endPts' = newPts /\ newPts' = r.pts /\ newPos' = r.pos
        /\ processed' = r.bytes
    BY <1>5, <2>1 DEF Becomes
  <2>3. r.pts \in Nat /\ newPos < r.pos
    BY <1>4, <1>5, <1>6, <1>8
  <2>4. Basics'
    <3>1. r.cursor \in 0 .. Len(film) /\ newPos \in 0 .. FileSize
      BY <1>4, <1>6, Sizes, SMTT(30)
    <3> QED
      BY <1>1, <1>3, <1>4, <1>6, <2>1, <2>2, <3>1 DEF Basics, FileSize
  <2>5. Searching'
    <3>1. stream' \in Timed /\ (Of(stream) # {})'
      BY <1>1, <1>4 DEF Of
    <3>2. PICK m \in Nat : OpenTo(points, m, newPos)
      BY <1>1, <1>3 DEF Searching
    <3>3. OpenTo(points, m, r.pos)
      <4>1. points[2 * m + 1].pos \in Int
        BY <3>2, OpenType
      <4> QED
        BY <1>4, <1>6, <2>3, <3>2, <4>1 DEF OpenTo
    <3>4. (\E n \in Nat : OpenTo(points, n, newPos))'
      BY <2>1, <2>2, <3>3 DEF OpenTo, Whole
    <3>5. newPts' \in Nat /\ newPos' \in Nat /\ turn' \in Nat \ {0}
      BY <1>6, <2>1, <2>2, <2>3
    <3> QED
      BY <2>1, <3>1, <3>4, <3>5 DEF Searching
  <2> QED
    BY <1>3, <2>4, <2>5 DEF Inv
<1> QED
  BY <1>6, <1>7, <1>8

LEMMA CoarseKeeps ==
  ASSUME Inv, CoarseTurn
  PROVE  Inv'
<1>1. /\ phase = "coarse"
      /\ UNCHANGED <<film, chapters, current, fresh, newPts, newPos, endPts, startPos, processed>>
  BY DEF CoarseTurn
<1>2. Basics /\ Searching /\ ListsCover'
  BY <1>1, ListsKept DEF Inv
<1>3. stream \in Timed /\ stream \in Streams /\ Of(stream) # {} /\ turn \in Nat \ {0}
  BY <1>1, <1>2, Constants DEF Searching
<1>4. CASE /\ phase' \in {"coarse", "fine"} /\ cursor' \in 0 .. Len(film)
           /\ UNCHANGED <<ok, stream, points>> /\ turn' \in Nat \ {0}
  <2>1. Basics'
    BY <1>1, <1>2, <1>4 DEF Basics, FileSize
  <2>2. Searching'
    <3>1. stream' \in Timed /\ (Of(stream) # {})'
      BY <1>1, <1>3, <1>4 DEF Of
    <3>2. newPts' \in Nat /\ newPos' \in Nat
      BY <1>1, <1>2 DEF Searching
    <3>3. (\E m \in Nat : OpenTo(points, m, newPos))'
      BY <1>1, <1>2, <1>4 DEF Searching, OpenTo, Whole
    <3> QED
      BY <1>4, <3>1, <3>2, <3>3 DEF Searching
  <2> QED
    BY <1>2, <2>1, <2>2 DEF Inv
<1>5. CASE StreamFails /\ cursor' = Len(film)
  <2>1. ok' = FALSE /\ phase' = "next" /\ stream' = stream + 1
    BY <1>5 DEF StreamFails
  <2>2. stream + 1 \in 0 .. Max(Streams) + 1 /\ Len(film) \in 0 .. Len(film)
    BY <1>3, Constants, Sizes
  <2>3. Basics'
    BY <1>1, <1>2, <1>5, <2>1, <2>2 DEF Basics, FileSize
  <2>4. Searching'
    BY <2>1 DEF Searching
  <2> QED
    BY <1>2, <2>3, <2>4 DEF Inv
<1>6. CASE turn >= Turns
  <2>1. /\ phase' = "fine" /\ UNCHANGED <<cursor, ok, stream, points>> /\ turn' = turn
    BY <1>6 DEF CoarseTurn
  <2>2. cursor \in 0 .. Len(film)
    BY <1>2 DEF Basics
  <2> QED
    BY <1>3, <1>4, <2>1, <2>2
<1>7. CASE ~(turn >= Turns) /\ After(TestPos) = {}
  <2>1. StreamFails /\ cursor' = Len(film)
    BY <1>7 DEF CoarseTurn
  <2> QED
    BY <1>5, <2>1
<1>8. CASE ~(turn >= Turns) /\ After(TestPos) # {}
  <2> DEFINE i == At(TestPos)
  <2>1. i \in 1 .. Size
    BY <1>8, AtIsNext, OfFacts, Sizes
  <2>2. i \in 0 .. Len(film)
    BY <2>1, Sizes
  <2>3. /\ cursor' = i /\ UNCHANGED <<ok, stream, points>>
        /\ \/ turn' = turn + 1 /\ phase' = phase
           \/ turn' = turn /\ phase' = "fine"
    BY <1>8 DEF CoarseTurn
  <2>4. turn' \in Nat \ {0} /\ phase' \in {"coarse", "fine"}
    BY <1>1, <1>3, <2>3
  <2> HIDE DEF i
  <2> QED
    BY <1>4, <2>2, <2>3, <2>4
<1> QED
  BY <1>6, <1>7, <1>8

(* What FineSearch finds, and where it began to search.                     *)
Ended(r, pos) ==
  /\ r.end \in Nat \cup {Nopts} /\ r.pts \in Nat \cup {Nopts} /\ r.cursor \in 1 .. Size
  /\ r.pos \in -1 .. FileSize /\ r.bytes \in 0 .. FileSize
  /\ r.pts # Nopts =>
       /\ pos < r.pos /\ r.pos <= Byte(r.cursor) /\ r.pos <= FileSize
       /\ GoesOn(r.cursor, r.pts)

LEMMA FineSearchFinds ==
  ASSUME KnownAtJumps, Inv, FineSearch
  PROVE  \E r : \E pos \in newPos .. FileSize : Ended(r, pos) /\ Becomes(r) /\ Split(r)
<1> DEFINE place == newPos + TestStep * (turn - 1)
           i == At(place)
           near == Search(i, Byte(i), Pts(i), ChapterSize)
           all == Search(i, Byte(i), Pts(i), 0)
           none == [found |-> FALSE, end |-> endPts, pts |-> Nopts, pos |-> -1,
                    bytes |-> processed, cursor |-> Len(film)]
<1>1. /\ phase = "fine" /\ UNCHANGED <<film, chapters, current, fresh, stream, ok>>
      /\ startPos' = startPos
  BY DEF FineSearch
<1>2. PICK r : /\ r = (IF After(place) = {} THEN none ELSE IF near.found THEN near ELSE all)
               /\ Becomes(r) /\ Split(r)
  BY DEF FineSearch
<1>3. Basics /\ Searching
  BY DEF Inv
<1>4. /\ film \in Films /\ stream \in Timed /\ Of(stream) # {} /\ newPos \in Nat
      /\ newPos <= FileSize /\ turn \in Nat \ {0} /\ Size \in Nat \ {0} /\ Size = Len(film)
      /\ endPts \in Nat \cup {Nopts} /\ processed \in 0 .. FileSize
      /\ FileSize \in Nat
  <2>1. /\ film \in Films /\ stream \in Timed /\ Of(stream) # {} /\ newPos \in Nat
        /\ newPos <= FileSize /\ turn \in Nat \ {0}
        /\ endPts \in Nat \cup {Nopts} /\ processed \in 0 .. FileSize
    BY <1>1, <1>3, Sizes DEF Basics, Searching
  <2>2. PICK j \in Of(stream) : TRUE
    BY <2>1
  <2>3. Size \in Nat /\ j \in 1 .. Size
    BY <2>1, <2>2, OfFacts, Sizes
  <2> QED
    BY <2>1, <2>3, Sizes
<1>5. place \in Nat /\ newPos <= place
  <2>1. TestStep \in Nat
    BY Constants DEF TestStep
  <2>2. turn - 1 \in Nat
    BY <1>4
  <2> DEFINE d == turn - 1
  <2> HIDE DEF d
  <2>3. TestStep * d \in Nat
    BY <2>1, <2>2 DEF d
  <2> DEFINE e == TestStep * d
  <2>4. place = newPos + e
    BY DEF d
  <2> HIDE DEF e, place
  <2> QED
    BY <1>4, <2>3, <2>4 DEF e
<1> HIDE DEF place
<1>6. CASE After(place) = {}
  <2>1. r = none
    BY <1>2, <1>6
  <2>2. /\ r.end \in Nat \cup {Nopts} /\ r.pts = Nopts /\ r.cursor \in 1 .. Size
        /\ r.pos \in -1 .. FileSize /\ r.bytes \in 0 .. FileSize
    BY <1>4, <2>1
  <2>3. newPos \in newPos .. FileSize
    BY <1>4
  <2> QED
    BY <1>2, <2>2, <2>3 DEF Ended
<1>7. CASE After(place) # {}
  <2> DEFINE b == Byte(i)
  <2>1. i \in 1 .. Size /\ Pts(i) \in Nat /\ Byte(i) >= place /\ GoesOn(i, Pts(i))
    BY <1>4, <1>7, AtIsNext, OfFacts, GoesOnFrom
  <2>2. b \in Nat /\ b \in 0 .. FileSize - 1 /\ b <= Byte(i)
    BY <2>1, Sizes
  <2>3. b \in newPos .. FileSize
    <3>1. b >= place
      BY <2>1
    <3> HIDE DEF b
    <3> QED
      BY <1>4, <1>5, <2>2, <3>1
  <2>4. ChapterSize \in Nat /\ 0 \in Nat
    BY Constants
  <2>5. Found(near, b, ChapterSize) /\ Found(all, b, 0)
    <3> HIDE DEF i
    <3> QED
      BY <1>4, <2>1, <2>2, <2>4, SearchReturns
  <2>6. r.found /\ \E limit : Found(r, b, limit)
    <3> HIDE DEF near, all, none, b
    <3>1. all.found
      BY <2>5 DEF Found
    <3> QED
      BY <1>2, <1>7, <2>5, <3>1
  <2>7. /\ r.end \in Nat \cup {Nopts} /\ r.pts \in Nat \cup {Nopts} /\ r.cursor \in 1 .. Size
        /\ r.pos \in 0 .. FileSize /\ r.bytes \in 0 .. FileSize
        /\ r.pts # Nopts => b < r.pos /\ r.pos <= Byte(r.cursor) /\ GoesOn(r.cursor, r.pts)
    <3> HIDE DEF b
    <3> QED
      BY <2>6 DEF Found
  <2>8. r.pos \in -1 .. FileSize
    BY <1>4, <2>7
  <2> HIDE DEF b
  <2>9. r.pts # Nopts => r.pos <= FileSize
    BY <1>4, <2>7
  <2> QED
    BY <1>2, <2>3, <2>7, <2>8, <2>9 DEF Ended
<1> QED
  BY <1>6, <1>7

LEMMA FineKeeps ==
  ASSUME KnownAtJumps, Inv, FineSearch
  PROVE  Inv'
<1>1. /\ phase = "fine" /\ UNCHANGED <<film, chapters, current, fresh, stream, ok>>
      /\ startPos' = startPos
  BY DEF FineSearch
<1>2. PICK r : \E pos \in newPos .. FileSize : Ended(r, pos) /\ Becomes(r) /\ Split(r)
  BY FineSearchFinds
<1> QED
  BY <1>1, <1>2, SplitKeeps DEF Ended

LEMMA DoneKeeps ==
  ASSUME Inv, StreamDone
  PROVE  Inv'
<1>1. /\ phase = "points" /\ phase' = "next" /\ stream' = stream + 1 /\ cursor' = 0
      /\ UNCHANGED <<film, ok, newPts, newPos, endPts, startPos, processed, current, fresh>>
  BY DEF StreamDone
<1>2. Basics /\ Searching /\ ListsCover
  BY DEF Inv
<1>3. stream \in Timed /\ stream \in Streams /\ DOMAIN chapters = Streams
  BY <1>1, <1>2, Constants DEF Searching, ListsCover
<1>4. PICK m \in Nat : ClosedWith(points, m)
  BY <1>1, <1>2 DEF Searching
<1>5. /\ Covered(chapters'[stream]) /\ DOMAIN chapters' = Streams
      /\ \A s \in Streams \ {stream} : chapters'[s] = chapters[s]
  BY <1>3, <1>4, Sizes, PointsCover
<1>6. \A s \in Streams : Covered(chapters'[s])
  BY <1>2, <1>5 DEF ListsCover
<1>7. ListsCover'
  BY <1>1, <1>5, <1>6 DEF ListsCover, Covered, IsList, Covers, FileSize
<1>8. Basics'
  <2>1. stream + 1 \in 0 .. Max(Streams) + 1 /\ 0 \in 0 .. Len(film)
    BY <1>3, Constants, Sizes
  <2> QED
    BY <1>1, <1>2, <2>1 DEF Basics, FileSize
<1>9. Searching'
  BY <1>1 DEF Searching
<1> QED
  BY <1>7, <1>8, <1>9 DEF Inv
LEMMA SkipKeeps ==
  ASSUME Inv, SkipStream
  PROVE  Inv'
<1>1. /\ phase = "next" /\ stream \in Streams /\ stream' = stream + 1
      /\ UNCHANGED <<film, phase, cursor, ok, newPts, newPos, endPts, startPos, processed,
                     chapters, current, fresh>>
  BY DEF SkipStream
<1>2. ListsCover' /\ Basics
  BY <1>1, ListsKept DEF Inv
<1>3. stream + 1 \in 0 .. Max(Streams) + 1
  BY <1>1, Constants
<1>4. Basics'
  BY <1>1, <1>2, <1>3 DEF Basics, FileSize
<1>5. Searching'
  BY <1>1 DEF Searching
<1> QED
  BY <1>2, <1>4, <1>5 DEF Inv

LEMMA SyncKeeps ==
  ASSUME Inv, Sync
  PROVE  Inv'
<1>1. /\ phase' = "ready" /\ cursor' = 0
      /\ newPts' = Nopts /\ newPos' = 0 /\ endPts' = Nopts /\ startPos' = 0 /\ processed' = 0
      /\ UNCHANGED <<film, stream, ok, current, fresh>>
  BY DEF Sync
<1>2. Basics /\ ListsCover
  BY DEF Inv
<1>3. DOMAIN chapters' = Streams /\ \A s \in Streams : Covered(chapters'[s])
  <2>1. CASE chapters' = chapters
    BY <1>2, <2>1 DEF ListsCover
  <2>2. CASE chapters' = [s \in Streams |-> IF s = Min(Videos) THEN chapters[s]
                                       ELSE Synced(chapters[Min(Videos)], chapters[s])]
    <3>1. \A s \in Streams : Covered(Synced(chapters[Min(Videos)], chapters[s]))
      BY <1>2, SyncedCovered DEF ListsCover
    <3>2. DOMAIN chapters' = Streams
      BY <2>2
    <3>3. \A s \in Streams : Covered(chapters'[s])
      BY <1>2, <2>2, <3>1 DEF ListsCover
    <3> QED
      BY <3>2, <3>3
  <2> QED
    BY <2>1, <2>2 DEF Sync
<1>4. ListsCover'
  BY <1>1, <1>3, SMTT(30) DEF ListsCover, Covered, IsList, Covers, FileSize
<1>5. Basics'
  <2>1. 0 \in 0 .. Len(film) /\ 0 \in -1 .. FileSize /\ 0 \in 0 .. FileSize
    BY Sizes
  <2> QED
    BY <1>1, <1>2, <2>1 DEF Basics, FileSize
<1>6. Searching'
  BY <1>1 DEF Searching
<1> QED
  BY <1>4, <1>5, <1>6 DEF Inv

(* Every packet has a list of chapters, and a place in it.                  *)
LEMMA ChapterIsNatural ==
  ASSUME Inv, NEW s \in Streams, NEW known, NEW pos
  PROVE  ChapterOf(chapters[ListOf(s)], current[ListOf(s)], known, pos) \in Nat
<1> DEFINE l == ListOf(s)
           cur == current[l]
<1>1. l \in Streams
  <2>1. Videos \in SUBSET Nat /\ Timed \in SUBSET Nat
    BY Constants
  <2>2. DefaultList \in Streams
    <3>1. CASE Videos # {}
      BY <2>1, <3>1, Constants, MinIsLeast DEF DefaultList
    <3>2. CASE Videos = {}
      BY <2>1, <3>2, Constants, MinIsLeast DEF DefaultList
    <3> QED
      BY <3>1, <3>2
  <2> QED
    BY <2>2 DEF ListOf
<1> HIDE DEF l
<1>2. cur \in Nat
  BY <1>1 DEF Inv, Basics
<1>3. PICK n \in Nat : IsList(chapters[l], n)
  BY <1>1 DEF Inv, ListsCover, Covered
<1> DEFINE K == {k \in DOMAIN chapters[l] : chapters[l][k].first <= pos} \cup {0}
<1>4. K \in SUBSET (0 .. n) /\ K # {} /\ \A k \in K : k \in Nat
  <2>1. DOMAIN chapters[l] = 1 .. n
    BY <1>3, ListFacts
  <2> QED
    BY <2>1
<1>5. ChapterOf(chapters[l], cur, known, pos) \in {cur, 1, Max(K)}
  <2> HIDE DEF cur
  <2> QED
    BY DEF ChapterOf
<1> HIDE DEF K
<1>6. Max(K) \in K
  BY <1>4, MaxIsGreatest
<1>7. Max(K) \in Nat
  BY <1>4, <1>6
<1>8. ChapterOf(chapters[l], cur, known, pos) \in Nat
  <2> HIDE DEF cur
  <2> QED
    BY <1>2, <1>5, <1>7
<1> QED
  BY <1>8 DEF l

LEMMA ReadKeeps ==
  ASSUME Inv, ReadPacket \/ Seek
  PROVE  Inv'
<1>1. /\ phase = "ready"
      /\ UNCHANGED <<film, phase, stream, ok, newPts, newPos, endPts, startPos, processed,
                     chapters>>
  BY DEF ReadPacket, Seek
<1>2. ListsCover' /\ Basics
  BY <1>1, ListsKept DEF Inv
<1>3. /\ cursor' \in 0 .. Len(film) /\ fresh' \in SUBSET Streams
      /\ current' \in [Streams -> Nat]
  <2>1. CASE ReadPacket
    <3> DEFINE i == cursor + 1
               s == film[i].stream
               l == ListOf(s)
               c == ChapterOf(chapters[l], current[l], film[i].known \/ s \in fresh, Byte(i))
    <3>1. /\ cursor < Len(film) /\ cursor' = i /\ fresh' = fresh \ {s}
          /\ current' = [current EXCEPT ![l] = c]
      BY <2>1 DEF ReadPacket
    <3>2. i \in 1 .. Size /\ i \in 0 .. Len(film)
      BY <1>2, <3>1, Sizes, SMTT(30) DEF Basics
    <3>3. s \in Streams
      BY <3>2, FilmFacts, Sizes
    <3>4. c \in Nat
      <4> HIDE DEF s, i
      <4> QED
        BY <3>3, ChapterIsNatural
    <3> HIDE DEF i, s, l, c
    <3>5. current' \in [Streams -> Nat] /\ fresh' \in SUBSET Streams
      BY <1>2, <3>1, <3>4 DEF Basics
    <3> QED
      BY <3>1, <3>2, <3>5
  <2>2. CASE Seek
    BY <2>2 DEF Seek
  <2> QED
    BY <2>1, <2>2
<1>4. Basics'
  BY <1>1, <1>2, <1>3 DEF Basics, FileSize
<1>5. Searching'
  BY <1>1 DEF Searching
<1> QED
  BY <1>2, <1>4, <1>5 DEF Inv

LEMMA InvNext ==
  ASSUME KnownAtJumps, Inv, [Next]_vars
  PROVE  Inv'
<1>1. CASE UNCHANGED vars
  <2>1. ListsCover'
    BY <1>1, ListsKept DEF Inv
  <2>2. phase' = "search" => GoesOn(cursor, newPts)'
    <3>1. phase = "search" => GoesOn(cursor', newPts')
      BY <1>1 DEF Inv, Searching
    <3> QED
      BY <1>1, <3>1, GoesOnKept
  <2>3. Basics' /\ Searching'
    BY <1>1, <2>2 DEF Inv, Basics, Searching, OpenTo, ClosedWith, Whole, FileSize, Byte, Of
  <2> QED
    BY <2>1, <2>3 DEF Inv
<1>2. CASE SkipStream
  BY <1>2, SkipKeeps
<1>3. CASE StartStream
  BY <1>3, StartKeeps
<1>4. CASE SearchEnd
  BY <1>4, SearchKeeps
<1>5. CASE CoarseTurn
  BY <1>5, CoarseKeeps
<1>6. CASE FineSearch
  BY <1>6, FineKeeps
<1>7. CASE StreamDone
  BY <1>7, DoneKeeps
<1>8. CASE Sync
  BY <1>8, SyncKeeps
<1>9. CASE ReadPacket \/ Seek
  BY <1>9, ReadKeeps
<1> QED
  BY <1>1, <1>2, <1>3, <1>4, <1>5, <1>6, <1>7, <1>8, <1>9 DEF Next

LEMMA InvHolds == Spec => [](KnownAtJumps => Inv)
<1> DEFINE IInv == KnownAtJumps => Inv
<1>1. Init => IInv
  BY InvInit
<1>2. IInv /\ [Next]_vars => IInv'
  <2> SUFFICES ASSUME IInv, [Next]_vars, KnownAtJumps' PROVE Inv'
    BY SMTT(30)
  <2>1. film' = film
    BY DEF Next, SkipStream, StartStream, SearchEnd, CoarseTurn, FineSearch, StreamDone, Sync,
           ReadPacket, Seek
  <2>2. KnownAtJumps
    <3>1. /\ \A s : Of(s)' = Of(s)
          /\ \A i : Pts(i)' = Pts(i)
          /\ \A s, j, i : Between(s, j, i)' = Between(s, j, i)
          /\ \A s, j : MayJump(s, j)' <=> MayJump(s, j)
      BY <2>1, JumpsKept
    <3>2. \A j, S : Least(j, S)' = Least(j, S)
      BY <3>1 DEF Least
    <3> QED
      BY <2>1, <3>1, <3>2, ZenonT(60) DEF KnownAtJumps
  <2> QED
    BY <2>2, InvNext, SMTT(30)
<1> QED
  BY <1>1, <1>2, PTL DEF Spec

(* detect_vob_chapters, find_end_of_chapter: whatever the stamps are and    *)
(* wherever the search looks, the chapters of each stream follow each other *)
(* without gap or overlap from the first byte of the file to the last, if   *)
(* the position of the first packet behind a jump is known, and that of the *)
(* first behind the packets probed, where it has jumped again.  (Else such  *)
(* a packet may be taken to be where the chapter before it begins, and that *)
(* chapter would end before its first byte.)                                *)
THEOREM TypeCorrect == Spec => [](KnownAtJumps => TypeOK)
<1>1. (KnownAtJumps => Inv) => (KnownAtJumps => TypeOK)
  BY InvIsTypeOK
<1> QED
  BY <1>1, InvHolds, PTL

----------------------------------------------------------------------------
(* The detection comes to its end.  Three numbers tell how far it is from   *)
(* there: how many streams are left, how much of the file lies behind the   *)
(* place the search has come to, and how many turns the coarse search has.  *)

StreamsToGo == IF phase = "ready" THEN 0 ELSE Max(Streams) + 2 - stream

BytesToGo ==
  IF phase = "next" THEN FileSize + 2
  ELSE IF phase \in {"search", "coarse", "fine"} THEN FileSize - newPos + 1 ELSE 0

TurnsToGo ==
  IF phase # "coarse" THEN 0 ELSE IF turn >= Turns THEN 1 ELSE Turns - turn + 1

(* The three as one, and when it is nearer to the end.                      *)
Distance == <<StreamsToGo, <<BytesToGo, TurnsToGo>>>>
Distances == Nat \X (Nat \X Nat)
Below == OpToRel(<, Nat)
Nearer == LexPairOrdering(Below, LexPairOrdering(Below, Below, Nat, Nat), Nat, Nat \X Nat)

(* No distance becomes nearer for ever: the loops of detect_vob_chapters and*)
(* find_end_of_chapter, which nothing else bounds, have an end.             *)
THEOREM NearerEnds == IsWellFoundedOn(Nearer, Distances)
<1>1. IsWellFoundedOn(Below, Nat)
  BY NatLessThanWellFounded DEF Below
<1>2. IsWellFoundedOn(LexPairOrdering(Below, Below, Nat, Nat), Nat \X Nat)
  BY <1>1, WFLexPairOrdering
<1> QED
  BY <1>1, <1>2, WFLexPairOrdering DEF Nearer, Distances

LEMMA NearerFacts ==
  ASSUME NEW a \in Nat, NEW b \in Nat, NEW c \in Nat,
         NEW x \in Nat, NEW y \in Nat, NEW z \in Nat,
         \/ x < a
         \/ x = a /\ y < b
         \/ x = a /\ y = b /\ z < c
  PROVE  <<<<x, <<y, z>>>>, <<a, <<b, c>>>>>> \in Nearer
<1>1. \A u, v \in Nat : u < v => <<u, v>> \in Below
  BY DEF Below, OpToRel
<1>2. <<y, z>> \in Nat \X Nat /\ <<b, c>> \in Nat \X Nat
  OBVIOUS
<1>3. y < b \/ (y = b /\ z < c)
        => <<<<y, z>>, <<b, c>>>> \in LexPairOrdering(Below, Below, Nat, Nat)
  BY <1>1, <1>2 DEF LexPairOrdering
<1> QED
  BY <1>1, <1>2, <1>3 DEF Nearer, LexPairOrdering

LEMMA TurnsType ==
  ASSUME Inv, phase = "coarse"
  PROVE  Turns \in Nat
<1> DEFINE d == FileSize - newPos
           t == TestStep
<1>1. t \in Nat \ {0}
  BY Constants DEF TestStep
<1>2. d \in Nat
  BY Sizes DEF Inv, Basics, Searching
<1>3. Turns = d \div t
  BY DEF Turns
<1> HIDE DEF d, t
<1> QED
  BY <1>1, <1>2, <1>3

DistanceOK == StreamsToGo \in Nat /\ BytesToGo \in Nat /\ TurnsToGo \in Nat

LEMMA DistanceType == Inv => DistanceOK
<1> SUFFICES ASSUME Inv PROVE DistanceOK
  OBVIOUS
<1>1. /\ stream \in 0 .. Max(Streams) + 1 /\ Max(Streams) \in Nat /\ FileSize \in Nat
      /\ newPos \in -1 .. FileSize
      /\ phase \in {"search", "coarse", "fine"} => newPos \in 0 .. FileSize
      /\ phase \in {"coarse", "fine"} => turn \in Nat
  BY Constants, Sizes, SMTT(30) DEF Inv, Basics, Searching
<1>2. phase = "coarse" => Turns \in Nat
  BY TurnsType
<1>3. StreamsToGo \in Nat
  BY <1>1 DEF StreamsToGo
<1>4. BytesToGo \in Nat
  BY <1>1 DEF BytesToGo
<1>5. TurnsToGo \in Nat
  BY <1>1, <1>2 DEF TurnsToGo
<1> QED
  BY <1>3, <1>4, <1>5 DEF DistanceOK

(* A stream that is done is a stream less.                                  *)
LEMMA StreamEnds ==
  ASSUME Inv, phase # "ready", phase' = "next", stream' = stream + 1
  PROVE  StreamsToGo' < StreamsToGo
<1>1. stream \in Nat /\ Max(Streams) \in Nat
  BY Constants DEF Inv, Basics
<1> QED
  BY <1>1 DEF StreamsToGo

(* A search that has found something goes on behind it.                     *)
LEMMA SearchMovesOn ==
  ASSUME Inv, phase \in {"search", "fine"}, UNCHANGED <<film, stream>>,
         \/ phase' = "points"
         \/ phase' \in {"search", "coarse"} /\ newPos' \in Nat /\ newPos < newPos'
  PROVE  StreamsToGo' = StreamsToGo /\ BytesToGo' < BytesToGo
<1>1. newPos \in 0 .. FileSize /\ FileSize' = FileSize /\ FileSize \in Nat
  BY Sizes DEF Inv, Basics, Searching, FileSize
<1>2. StreamsToGo' = StreamsToGo
  BY DEF StreamsToGo
<1>3. BytesToGo' < BytesToGo
  BY <1>1 DEF BytesToGo
<1> QED
  BY <1>2, <1>3

(* The points of a split, and where the search goes on.                     *)
LEMMA SplitMovesOn ==
  ASSUME Inv, phase \in {"search", "fine"}, UNCHANGED <<film, stream>>,
         NEW r, Becomes(r), Split(r), r.pos \in Int,
         NEW pos \in newPos .. FileSize, r.pts # Nopts => pos < r.pos
  PROVE  StreamsToGo' = StreamsToGo /\ BytesToGo' < BytesToGo
<1>1. newPos \in Nat /\ newPos' = r.pos
  BY DEF Inv, Searching, Becomes
<1>2. \/ phase' = "points"
      \/ phase' = "search" /\ r.pts # Nopts
  BY DEF Split
<1>3. r.pts # Nopts => r.pos \in Nat /\ newPos < r.pos
  BY <1>1
<1> QED
  BY <1>1, <1>2, <1>3, SearchMovesOn

LEMMA DetectionSteps ==
  ASSUME KnownAtJumps, Inv, Next, phase # "ready"
  PROVE  \/ StreamsToGo' < StreamsToGo
         \/ StreamsToGo' = StreamsToGo /\ BytesToGo' < BytesToGo
         \/ StreamsToGo' = StreamsToGo /\ BytesToGo' = BytesToGo /\ TurnsToGo' < TurnsToGo
<1>1. CASE SkipStream
  BY <1>1, StreamEnds DEF SkipStream
<1>2. CASE StartStream
  <2>1. CASE Of(stream) = {}
    BY <1>2, <2>1, StreamEnds DEF StartStream, StreamFails
  <2>2. CASE Of(stream) # {}
    <3>1. /\ phase = "next" /\ phase' = "search" /\ UNCHANGED <<film, stream>>
      BY <1>2, <2>2 DEF StartStream
    <3>2. newPos' \in Nat /\ FileSize' = FileSize /\ FileSize \in Nat
      <4>1. Inv'
        BY <1>2, StartKeeps
      <4> QED
        BY <3>1, <4>1, Sizes DEF Inv, Searching, FileSize
    <3>3. StreamsToGo' = StreamsToGo
      BY <3>1 DEF StreamsToGo
    <3>4. BytesToGo' < BytesToGo
      <4>1. BytesToGo = FileSize + 2
        BY <3>1 DEF BytesToGo
      <4>2. BytesToGo' = FileSize - newPos' + 1
        BY <3>1, <3>2 DEF BytesToGo
      <4>3. \A a, b \in Nat : a - b + 1 < a + 2
        OBVIOUS
      <4> QED
        BY <3>2, <4>1, <4>2, <4>3
    <3> QED
      BY <3>3, <3>4
  <2> QED
    BY <2>1, <2>2
<1>3. CASE SearchEnd
  <2>1. phase = "search" /\ UNCHANGED <<film, stream>>
    BY <1>3 DEF SearchEnd
  <2>2. PICK r, limit : \E pos \in newPos .. FileSize : Found(r, pos, limit) /\ Searched(r)
    BY <1>3, SearchEndFinds
  <2>3. PICK pos \in newPos .. FileSize : Found(r, pos, limit) /\ Searched(r)
    BY <2>2
  <2>4. /\ r.pos \in Nat /\ (r.pts # Nopts => pos < r.pos)
        /\ (~r.found => r.pts # Nopts)
    BY <2>3, Sizes DEF Found
  <2>5. CASE r.found
    BY <2>1, <2>3, <2>4, <2>5, SplitMovesOn DEF Searched
  <2>6. CASE ~r.found
    <3>1. phase' = "coarse" /\ newPos' = r.pos
      BY <2>3, <2>6 DEF Searched, Found, Becomes
    <3>2. newPos \in Nat
      BY <2>1 DEF Inv, Searching
    <3>3. newPos < r.pos
      BY <2>4, <2>6, <3>2
    <3> QED
      BY <2>1, <2>4, <3>1, <3>3, SearchMovesOn
  <2> QED
    BY <2>5, <2>6
<1>4. CASE CoarseTurn
  <2>1. /\ phase = "coarse" /\ UNCHANGED <<film, newPos>>
        /\ turn \in Nat
    BY <1>4 DEF CoarseTurn, Inv, Searching
  <2>2. DistanceOK /\ FileSize' = FileSize /\ Turns' = Turns
    BY <2>1, DistanceType DEF FileSize, Turns
  <2>3. CASE StreamFails
    BY <2>1, <2>3, StreamEnds DEF StreamFails
  <2>4. CASE phase' = "fine" /\ UNCHANGED stream
    <3>1. StreamsToGo' = StreamsToGo /\ BytesToGo' = BytesToGo
      BY <2>1, <2>2, <2>4 DEF StreamsToGo, BytesToGo
    <3>2. TurnsToGo' = 0 /\ TurnsToGo # 0
      <4>1. TurnsToGo' = 0
        BY <2>4 DEF TurnsToGo
      <4>2. CASE turn >= Turns
        BY <2>1, <4>1, <4>2 DEF TurnsToGo
      <4>3. CASE ~(turn >= Turns)
        <5>1. TurnsToGo = Turns - turn + 1
          BY <2>1, <4>3 DEF TurnsToGo
        <5>2. Turns \in Int
          BY <2>1, TurnsType
        <5> QED
          BY <2>1, <4>1, <4>3, <5>1, <5>2
      <4> QED
        BY <4>1, <4>2, <4>3
    <3> QED
      BY <2>2, <3>1, <3>2 DEF DistanceOK
  <2>5. CASE phase' = phase /\ turn' = turn + 1 /\ ~(turn >= Turns) /\ UNCHANGED stream
    <3>1. StreamsToGo' = StreamsToGo /\ BytesToGo' = BytesToGo
      BY <2>1, <2>2, <2>5 DEF StreamsToGo, BytesToGo
    <3>2. Turns \in Int
      BY <2>1, TurnsType
    <3>3. TurnsToGo' < TurnsToGo
      BY <2>1, <2>2, <2>5, <3>2 DEF TurnsToGo
    <3> QED
      BY <3>1, <3>3
  <2> QED
    BY <1>4, <2>3, <2>4, <2>5 DEF CoarseTurn
<1>5. CASE FineSearch
  <2>1. phase = "fine" /\ UNCHANGED <<film, stream>>
    BY <1>5 DEF FineSearch
  <2>2. PICK r : \E pos \in newPos .. FileSize : Ended(r, pos) /\ Becomes(r) /\ Split(r)
    BY <1>5, FineSearchFinds
  <2>3. PICK pos \in newPos .. FileSize : Ended(r, pos) /\ Becomes(r) /\ Split(r)
    BY <2>2
  <2>4. r.pos \in Int /\ (r.pts # Nopts => pos < r.pos)
    BY <2>3, Sizes DEF Ended
  <2> QED
    BY <2>1, <2>3, <2>4, SplitMovesOn
<1>6. CASE StreamDone
  BY <1>6, StreamEnds DEF StreamDone
<1>7. CASE Sync
  <2>1. phase' = "ready" /\ stream \in 0 .. Max(Streams) + 1 /\ Max(Streams) \in Nat
    BY <1>7, Constants DEF Sync, Inv, Basics
  <2> QED
    BY <2>1 DEF StreamsToGo
<1> QED
  BY <1>1, <1>2, <1>3, <1>4, <1>5, <1>6, <1>7 DEF Next, ReadPacket, Seek

LEMMA StepsNearer ==
  ASSUME KnownAtJumps, Inv, Next, phase # "ready"
  PROVE  <<Distance', Distance>> \in Nearer
<1>1. Inv'
  BY InvNext
<1>2. DistanceOK /\ DistanceOK'
  BY <1>1, DistanceType, PTL
<1> QED
  BY <1>2, DetectionSteps, NearerFacts DEF DistanceOK, Distance

(* detect_vob_chapters, find_end_of_chapter: however the stamps of a file   *)
(* jump, every step until the file is read is nearer to the end of the      *)
(* detection: a stream less, or a place further on in the file, or a turn   *)
(* of the coarse search less.  The jumps may be where they like, but where  *)
(* the first packet behind one has no known position (KnownAtJumps) the     *)
(* search may go on from the place it is at, for ever.                      *)
THEOREM DetectionComesNearer ==
  Spec => [][KnownAtJumps /\ phase # "ready" => <<Distance', Distance>> \in Nearer]_vars
<1> DEFINE IInv == KnownAtJumps => Inv
<1>1. Spec => []IInv
  BY InvHolds
<1>2. IInv /\ [Next]_vars
        => [KnownAtJumps /\ phase # "ready" => <<Distance', Distance>> \in Nearer]_vars
  BY StepsNearer
<1> QED
  BY <1>1, <1>2, PTL DEF Spec

----------------------------------------------------------------------------
(* Reading.                                                                 *)

(* Where a list covers the file, every byte lies in the last chapter that   *)
(* begins at or before it.                                                  *)
LEMMA ByteIsCovered ==
  ASSUME NEW list, Covered(list), list # <<>>, NEW pos \in Nat, pos <= FileSize, FileSize \in Nat
  PROVE  LET c == Max({k \in DOMAIN list : list[k].first <= pos} \cup {0})
         IN  c \in DOMAIN list /\ StillIn(list[c], pos)
<1>1. PICK n \in Nat : IsList(list, n) /\ (n # 0 => Covers(list, n))
  BY DEF Covered
<1>2. n # 0 /\ DOMAIN list = 1 .. n /\ Covers(list, n)
  BY <1>1, ListFacts
<1> DEFINE K == {k \in DOMAIN list : list[k].first <= pos} \cup {0}
           c == Max(K)
<1>3. K \in SUBSET (0 .. n) /\ 1 \in K
  BY <1>1, <1>2 DEF Covers
<1>4. \A k \in 1 .. n : k \in K <=> list[k].first <= pos
  BY <1>2
<1> HIDE DEF K
<1>5. c \in K /\ \A k \in K : k <= c
  BY <1>1, <1>3, MaxIsGreatest
<1> HIDE DEF c
<1>6. c \in 1 .. n
  BY <1>1, <1>3, <1>5
<1>7. list[c].first <= pos /\ list[c].first \in Int /\ list[c].final \in Int
  BY <1>2, <1>4, <1>5, <1>6 DEF Covers
<1>8. pos <= list[c].final
  <2>1. CASE c = n
    BY <1>2, <2>1 DEF Covers
  <2>2. CASE c # n
    <3>1. c + 1 \in 1 .. n /\ c \in 1 .. n - 1
      BY <1>1, <1>6, <2>2
    <3>2. ~(list[c + 1].first <= pos)
      BY <1>4, <1>5, <1>6, <3>1
    <3>3. list[c + 1].first = list[c].final + 1
      BY <1>2, <3>1 DEF Covers
    <3> QED
      BY <1>7, <3>2, <3>3
  <2> QED
    BY <2>1, <2>2
<1> QED
  BY <1>2, <1>6, <1>7, <1>8 DEF StillIn, c, K

LEMMA ListOfType ==
  ASSUME NEW s \in Streams
  PROVE  ListOf(s) \in Streams
<1>1. Videos \in SUBSET Nat /\ Timed \in SUBSET Nat
  BY Constants
<1>2. DefaultList \in Streams
  BY <1>1, Constants, MinIsLeast DEF DefaultList
<1> QED
  BY <1>2 DEF ListOf

(* What read_packet does with a packet of a stream that has a list: the     *)
(* chapter it is in becomes the current one, whose shift it gets.  Where    *)
(* its byte is known, or taken to be known as the first after a seek, it    *)
(* lies in that chapter; else the chapter is that of the packet before.     *)
IsShifted ==
  LET i == last'.packet
      s == film[i].stream
      l == ListOf(s)
      list == chapters[l]
      c == current'[l]
  IN  list # <<>> =>
        /\ c \in DOMAIN list /\ last'.shift = list[c].shift
        /\ (film[i].known \/ s \in fresh) /\ Byte(i) > 0 => StillIn(list[c], Byte(i))
        /\ ~(film[i].known \/ s \in fresh) /\ current[l] \in DOMAIN list => c = current[l]

LEMMA ReadShifts ==
  ASSUME Inv, ReadPacket
  PROVE  IsShifted
<1> DEFINE i == cursor + 1
           s == film[i].stream
           l == ListOf(s)
           list == chapters[l]
           known == film[i].known \/ s \in fresh
           c == ChapterOf(list, current[l], known, Byte(i))
<1>1. /\ cursor < Len(film) /\ last'.packet = i /\ current' = [current EXCEPT ![l] = c]
      /\ last'.shift = IF c \in DOMAIN list THEN list[c].shift ELSE 0
  BY DEF ReadPacket
<1>2. i \in 1 .. Size /\ Byte(i) \in Nat /\ Byte(i) <= FileSize /\ FileSize \in Nat
  <2>1. i \in 1 .. Size
    BY <1>1, Sizes, SMTT(30) DEF Inv, Basics
  <2> HIDE DEF i
  <2> QED
    BY <2>1, Sizes
<1>3. l \in Streams
  BY <1>2, FilmFacts, Sizes, ListOfType
<1>4. current'[l] = c
  BY <1>1, <1>3 DEF Inv, Basics
<1>5. Covered(list)
  BY <1>3 DEF Inv, ListsCover
<1> SUFFICES ASSUME list # <<>>
             PROVE  /\ c \in DOMAIN list
                    /\ known /\ Byte(i) > 0 => StillIn(list[c], Byte(i))
                    /\ ~known /\ current[l] \in DOMAIN list => c = current[l]
  BY <1>1, <1>4 DEF IsShifted
<1> DEFINE m == Max({k \in DOMAIN list : list[k].first <= Byte(i)} \cup {0})
<1>6. m \in DOMAIN list /\ StillIn(list[m], Byte(i))
  BY <1>2, <1>5, ByteIsCovered
<1>7. 1 \in DOMAIN list
  <2>1. PICK n \in Nat : IsList(list, n)
    BY <1>5 DEF Covered
  <2> QED
    BY <2>1, ListFacts
<1>8. c = IF known /\ Byte(i) > 0
            THEN IF current[l] \in DOMAIN list /\ StillIn(list[current[l]], Byte(i))
                   THEN current[l] ELSE m
            ELSE IF current[l] \in DOMAIN list THEN current[l] ELSE 1
  BY DEF ChapterOf
<1> HIDE DEF i, s, l, list, known, c, m
<1> QED
  BY <1>6, <1>7, <1>8

(* read_packet: whatever was read or sought before, a packet is shifted by  *)
(* the chapter its byte lies in; m_current_chapter is never stale where the *)
(* position of the packet tells.  (KnownAtJumps is what the lists of        *)
(* chapters need to cover the file.)                                        *)
THEOREM ShiftedByItsChapter ==
  Spec => [][KnownAtJumps /\ ReadPacket => IsShifted]_vars
<1> DEFINE IInv == KnownAtJumps => Inv
<1>1. Spec => []IInv
  BY InvHolds
<1>2. IInv /\ [Next]_vars => [KnownAtJumps /\ ReadPacket => IsShifted]_vars
  BY ReadShifts
<1> QED
  BY <1>1, <1>2, PTL DEF Spec
=============================================================================
