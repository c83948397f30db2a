--------------------------- MODULE DecodingProofs ---------------------------
(***************************************************************************)
(* Facts about the operators of module Decoding: the frame a read returns, *)
(* the place a seek leads to, and the types of both.                       *)
(***************************************************************************)
EXTENDS Decoding, WellFoundedInduction, TLAPS

----------------------------------------------------------------------------
(* Least and greatest elements.                                             *)

LEMMA LeastNatural ==
  ASSUME NEW S \in SUBSET Nat, S # {}
  PROVE  \E x \in S : \A y \in S : x <= y
<1>1. PICK x \in S : \A y \in S : ~(<<y, x>> \in OpToRel(<, Nat))
  BY NatLessThanWellFounded, WFMin
<1>2. ASSUME NEW y \in S PROVE x <= y
  <2>1. <<y, x>> \notin OpToRel(<, Nat)
    BY <1>1
  <2>2. ~(y < x)
    BY <2>1 DEF OpToRel
  <2> QED
    BY <2>2
<1> QED
  BY <1>2

LEMMA MinIsLeast ==
  ASSUME NEW S \in SUBSET Nat, S # {}
  PROVE  Min(S) \in S /\ \A y \in S : Min(S) <= y
BY LeastNatural DEF Min

LEMMA MaxIsGreatest ==
  ASSUME NEW n \in Nat, NEW S \in SUBSET (0 .. n), S # {}
  PROVE  Max(S) \in S /\ \A y \in S : Max(S) >= y
<1> DEFINE T == {n - x : x \in S}
<1>1. T # {} /\ \A t \in T : t \in Nat
  <2>1. \A x \in S : n - x \in Nat
    OBVIOUS
  <2>2. PICK x \in S : TRUE
    OBVIOUS
  <2>3. n - x \in T
    BY <2>2
  <2> QED
    BY <2>1, <2>3
<1>2. PICK t \in T : \A y \in T : t <= y
  <2>1. T \in SUBSET Nat
    BY <1>1
  <2> HIDE DEF T
  <2> QED
    BY <1>1, <2>1, LeastNatural
<1>3. PICK x \in S : t = n - x
  OBVIOUS
<1>4. ASSUME NEW y \in S PROVE x >= y
  <2>1. n - y \in T
    OBVIOUS
  <2>2. n - x <= n - y
    BY <2>1, <1>2, <1>3
  <2> QED
    BY <2>2
<1> QED
  BY <1>4 DEF Max

----------------------------------------------------------------------------
(* Packets.                                                                 *)

LEMMA FileFacts ==
  /\ Len(Ts) \in Nat
  /\ \A i \in Packets : Ts[i] \in Nat /\ Ts[i] < Duration
  /\ \A i, j \in Packets : i < j => Ts[i] < Ts[j]
BY FileIsOrdered DEF Packets

LEMMA FirstAfterIsLeast ==
  ASSUME NEW i \in 0 .. Len(Ts), NEW S \in SUBSET Packets
  PROVE  /\ FirstAfter(i, S) \in S \cup {Len(Ts) + 1}
         /\ i < FirstAfter(i, S)
         /\ \A j \in S : i < j => FirstAfter(i, S) <= j
<1> DEFINE L == {j \in S : j > i} \cup {Len(Ts) + 1}
<1>1. L \in SUBSET Nat /\ L # {}
  <2>1. /\ \A j \in S : j \in Nat
        /\ Len(Ts) + 1 \in Nat
    BY FileFacts DEF Packets
  <2>2. \A x \in L : x \in Nat
    BY <2>1
  <2>3. Len(Ts) + 1 \in L
    OBVIOUS
  <2> QED
    BY <2>2, <2>3
<1>2. Min(L) \in L /\ \A y \in L : Min(L) <= y
  <2> HIDE DEF L
  <2> QED
    BY <1>1, MinIsLeast
<1>3. FirstAfter(i, S) = Min(L)
  BY DEF FirstAfter
<1> QED
  BY <1>2, <1>3, FileFacts

LEMMA NextGoodType ==
  ASSUME NEW i \in 0 .. Len(Ts)
  PROVE  NextGood(i) \in i + 1 .. Len(Ts) + 1
<1>1. Packets \ Damaged \in SUBSET Packets
  OBVIOUS
<1> QED
  BY <1>1, FirstAfterIsLeast, FileFacts DEF NextGood, Packets

(* Without damage no packet is passed over.                                 *)
LEMMA NextGoodUndamaged ==
  ASSUME Damaged = {}, NEW i \in 0 .. Len(Ts)
  PROVE  NextGood(i) = i + 1
<1>1. Packets \ Damaged = Packets
  OBVIOUS
<1>2. \A j \in Packets : i < j => NextGood(i) <= j
  BY <1>1, FirstAfterIsLeast DEF NextGood
<1>3. i < Len(Ts) => NextGood(i) <= i + 1
  BY <1>2, FileFacts DEF Packets
<1> QED
  BY <1>3, NextGoodType, FileFacts

LEMMA KeyBeforeIsLatest ==
  ASSUME NEW t \in Int
  PROVE  /\ KeyBefore(t) \in Keys \cup {0}
         /\ KeyBefore(t) # 0 => Ts[KeyBefore(t)] <= t
<1> DEFINE K == {i \in Keys : Ts[i] <= t} \cup {0}
<1>1. K \in SUBSET (0 .. Len(Ts)) /\ K # {}
  <2>1. /\ \A i \in Keys : i \in 0 .. Len(Ts)
        /\ 0 \in 0 .. Len(Ts)
    BY FileIsOrdered, FileFacts DEF Packets
  <2>2. \A x \in K : x \in 0 .. Len(Ts)
    BY <2>1
  <2>3. 0 \in K
    OBVIOUS
  <2> QED
    BY <2>2, <2>3
<1>2. Max(K) \in K
  <2> HIDE DEF K
  <2> QED
    BY <1>1, MaxIsGreatest, FileFacts
<1>3. KeyBefore(t) = Max(K)
  BY DEF KeyBefore
<1> QED
  BY <1>2, <1>3

----------------------------------------------------------------------------
(* Types.                                                                   *)

(* Enough batches reach every packet.                                       *)
LEMMA FilledReaches ==
  ASSUME NEW i \in 0 .. Len(Ts), NEW j \in 0 .. Len(Ts) + 1
  PROVE  Filled(i, j) \in Nat /\ j <= Filled(i, j)
<1> DEFINE F == {i + n * Batch : n \in 0 .. Len(Ts) + 1} \ 0 .. j - 1
<1>1. Len(Ts) \in Nat /\ Batch \in Nat /\ Batch >= 1
  BY FileFacts, FileIsOrdered
<1>2. \A n \in 0 .. Len(Ts) + 1 : n * Batch \in Nat
  BY <1>1
<1>3. F \in SUBSET Nat
  BY <1>1, <1>2
<1>4. (Len(Ts) + 1) * Batch >= Len(Ts) + 1
  <2>1. ASSUME NEW a \in Nat, NEW b \in Nat, b >= 1 PROVE a * b >= a
    BY <2>1
  <2> QED
    BY <2>1, <1>1
<1>5. i + (Len(Ts) + 1) * Batch \in F
  <2>1. i + (Len(Ts) + 1) * Batch \in {i + n * Batch : n \in 0 .. Len(Ts) + 1}
    BY <1>1
  <2>2. i + (Len(Ts) + 1) * Batch \notin 0 .. j - 1
    BY <1>1, <1>2, <1>4
  <2> QED
    BY <2>1, <2>2
<1>6. Min(F) \in F
  <2> HIDE DEF F
  <2> QED
    BY <1>3, <1>5, MinIsLeast
<1>7. \A x \in F : x \in Nat /\ j <= x
  BY <1>3, <1>1
<1>8. Filled(i, j) = Min(F)
  BY DEF Filled
<1> QED
  <2> HIDE DEF F
  <2> QED
    BY <1>6, <1>7, <1>8

LEMMA FetchedToType ==
  ASSUME NEW i \in 0 .. Len(Ts), NEW j \in 0 .. Len(Ts) + 1
  PROVE  FetchedTo(i, j) \in 0 .. Len(Ts) /\ EndSeen(i, j) \in BOOLEAN
<1>1. {Filled(i, j), Len(Ts)} \in SUBSET Nat
  BY FilledReaches, FileFacts
<1>2. /\ Min({Filled(i, j), Len(Ts)}) \in {Filled(i, j), Len(Ts)}
      /\ Min({Filled(i, j), Len(Ts)}) <= Len(Ts)
  BY <1>1, MinIsLeast
<1> QED
  BY <1>1, <1>2, FileFacts DEF FetchedTo, EndSeen

(* The frame held back was read.                                            *)
Consistent(s) == s \in Streams /\ s.held <= s.read

LEMMA FirstAndSecond ==
  ASSUME NEW s, Consistent(s)
  PROVE  /\ First(s) \in 1 .. Len(Ts) + 1
         /\ ~StreamEnds(s) => First(s) \in Packets
         /\ StreamEnds(s) => s.held = 0
         /\ (~StreamEnds(s) /\ ~NullPacketIsUsed(s)) =>
              Second(s) \in Packets /\ First(s) < Second(s)
<1>1. s.read \in 0 .. Len(Ts) /\ s.held \in 0 .. Len(Ts) /\ s.held <= s.read
  BY DEF Consistent, Streams
<1>2. First(s) \in 1 .. Len(Ts) + 1
  BY <1>1, NextGoodType, FileFacts DEF First
<1>3. ~StreamEnds(s) => First(s) \in Packets
  BY <1>2, FileFacts DEF StreamEnds, Packets
<1>4. StreamEnds(s) => s.held = 0
  BY <1>1, FileFacts DEF StreamEnds, First
<1>5. ASSUME ~StreamEnds(s), ~NullPacketIsUsed(s)
      PROVE  Second(s) \in Packets /\ First(s) < Second(s)
  <2>1. First(s) \in 0 .. Len(Ts)
    BY <1>3, <1>5, FileFacts DEF Packets
  <2>2. CASE s.held # 0
    BY <1>1, <1>5, <2>2, NextGoodType, FileFacts
       DEF Second, First, NullPacketIsUsed, Packets
  <2>3. CASE s.held = 0
    BY <2>1, <1>5, <2>3, NextGoodType, FileFacts
       DEF Second, NullPacketIsUsed, Packets
  <2> QED
    BY <2>2, <2>3
<1> QED
  BY <1>2, <1>3, <1>4, <1>5

LEMMA FrameType ==
  ASSUME NEW s, Consistent(s), ~StreamEnds(s), ~NullPacketIsUsed(s)
  PROVE  FrameOf(s) \in Frames /\ FrameOf(s) # NoFrame /\ Consistent(AfterFrame(s))
<1> DEFINE a == First(s)
           b == Second(s)
<1>1. a \in Packets /\ b \in Packets /\ a < b
  BY FirstAndSecond
<1>2. /\ Ts[a] \in Nat /\ Ts[b] \in Nat /\ Ts[a] < Ts[b] /\ Ts[b] < Duration
      /\ Duration \in Nat
  BY <1>1, FileFacts, FileIsOrdered
<1>3. FrameOf(s) = [ts |-> Ts[a], duration |-> Ts[b] - Ts[a]]
  BY DEF FrameOf
<1>4. FrameOf(s) \in Frames /\ FrameOf(s) # NoFrame
  <2>1. Ts[b] - Ts[a] \in 0 .. Duration
    BY <1>2
  <2>2. Ts[a] \in {-1} \cup {Ts[i] : i \in Packets}
    BY <1>1
  <2>3. Ts[a] # -1
    BY <1>2
  <2> HIDE DEF a, b
  <2> QED
    BY <1>3, <2>1, <2>2, <2>3 DEF Frames, NoFrame
<1>5. Consistent(AfterFrame(s))
  <2>1. b \in 0 .. Len(Ts) /\ b \in 0 .. Len(Ts) + 1 /\ b <= b
    BY <1>1, FileFacts DEF Packets
  <2>2. s.fetched \in 0 .. Len(Ts) /\ s.eof \in BOOLEAN
    BY DEF Consistent, Streams
  <2>3. FetchedTo(s.fetched, b) \in 0 .. Len(Ts) /\ EndSeen(s.fetched, b) \in BOOLEAN
    BY <2>1, <2>2, FetchedToType
  <2>4. Ts[b] \in 0 .. Duration
    BY <1>2
  <2>5. AfterFrame(s) = [read |-> b, fetched |-> FetchedTo(s.fetched, b),
                         eof |-> s.eof \/ EndSeen(s.fetched, b), held |-> b,
                         position |-> Ts[b], lastKey |-> b \in Keys]
    BY DEF AfterFrame
  <2> HIDE DEF b
  <2> QED
    BY <2>1, <2>2, <2>3, <2>4, <2>5 DEF Consistent, Streams
<1> QED
  BY <1>4, <1>5

LEMMA NothingType ==
  ASSUME NEW s, Consistent(s), StreamEnds(s)
  PROVE  Consistent(AfterNothing(s)) /\ AfterNothing(s).held = 0
<1>1. s.held = 0
  BY FirstAndSecond
<1>2. /\ s.held \in 0 .. Len(Ts) /\ s.position \in 0 .. Duration
      /\ s.lastKey \in BOOLEAN /\ Duration \in Nat /\ Len(Ts) \in Nat
  BY FileFacts, FileIsOrdered DEF Consistent, Streams
<1> DEFINE p == IF s.read < Len(Ts) THEN Duration ELSE s.position
<1>3. AfterNothing(s) =
        [read |-> Len(Ts), fetched |-> Len(Ts), eof |-> TRUE,
         held |-> s.held, position |-> p, lastKey |-> s.lastKey]
  BY DEF AfterNothing
<1>4. p \in 0 .. Duration
  BY <1>2
<1> HIDE DEF p
<1> QED
  BY <1>1, <1>2, <1>3, <1>4 DEF Consistent, Streams

(* A seek leads to the last key packet at or before the position.           *)
LEMMA SeekType ==
  ASSUME NEW s, Consistent(s), NEW t \in Nat, KeyBefore(t) # 0,
         NEW r \in SeekResults(s, t)
  PROVE  /\ Consistent(r) /\ KeyBefore(t) \in Packets
         /\ r.held = 0 /\ r.read = KeyBefore(t) - 1
         /\ r.position = Ts[KeyBefore(t)] /\ r.position <= t
<1> DEFINE k == KeyBefore(t)
<1>1. k \in Keys /\ k \in Packets /\ k \in 1 .. Len(Ts) /\ Ts[k] <= t
  <2>1. t \in Int
    OBVIOUS
  <2>2. k \in Keys \cup {0} /\ (k # 0 => Ts[k] <= t)
    BY <2>1, KeyBeforeIsLatest
  <2> HIDE DEF k
  <2>3. k # 0
    BY DEF k
  <2> QED
    BY <2>2, <2>3, FileIsOrdered DEF Packets
<1>2. PICK i \in 1 .. k :
        r = [read |-> k - 1, fetched |-> FetchedTo(i - 1, FirstAfter(k, Keys)),
             eof |-> EndSeen(i - 1, FirstAfter(k, Keys)), held |-> 0,
             position |-> Ts[k], lastKey |-> s.lastKey]
  BY DEF SeekResults, SeekKeeping
<1>3. FirstAfter(k, Keys) \in 0 .. Len(Ts) + 1
  <2> HIDE DEF k
  <2>1. k \in 0 .. Len(Ts)
    BY <1>1, FileFacts
  <2>2. Keys \in SUBSET Packets
    BY FileIsOrdered
  <2>3. FirstAfter(k, Keys) \in Keys \cup {Len(Ts) + 1}
    BY <2>1, <2>2, FirstAfterIsLeast
  <2>4. \A x \in Packets : x \in 0 .. Len(Ts) + 1
    BY FileFacts DEF Packets
  <2>5. Len(Ts) + 1 \in 0 .. Len(Ts) + 1
    BY FileFacts
  <2> QED
    BY <2>2, <2>3, <2>4, <2>5
<1>4. i - 1 \in 0 .. Len(Ts) /\ k - 1 \in 0 .. Len(Ts) /\ 0 <= k - 1
  BY <1>1, FileFacts
<1>5. /\ FetchedTo(i - 1, FirstAfter(k, Keys)) \in 0 .. Len(Ts)
      /\ EndSeen(i - 1, FirstAfter(k, Keys)) \in BOOLEAN
  BY <1>3, <1>4, FetchedToType
<1>6. Ts[k] \in 0 .. Duration /\ 0 \in 0 .. Len(Ts)
  BY <1>1, FileFacts, FileIsOrdered
<1>7. s.lastKey \in BOOLEAN
  BY DEF Consistent, Streams
<1> HIDE DEF k
<1>8. Consistent(r)
  BY <1>2, <1>4, <1>5, <1>6, <1>7 DEF Consistent, Streams
<1> QED
  BY <1>1, <1>2, <1>8 DEF k

LEMMA PacketDurationType ==
  ASSUME NEW i \in Packets
  PROVE  PacketDuration(i) \in 0 .. Duration
<1>1. /\ i \in Nat /\ Len(Ts) \in Nat /\ Duration \in Nat
      /\ Ts[i] \in Nat /\ Ts[i] < Duration
  BY FileFacts, FileIsOrdered DEF Packets
<1>2. i < Len(Ts) => Ts[i + 1] \in Nat /\ Ts[i] < Ts[i + 1] /\ Ts[i + 1] < Duration
  <2>1. i < Len(Ts) => i + 1 \in Packets /\ i < i + 1
    BY <1>1 DEF Packets
  <2> QED
    BY <2>1, FileFacts
<1> QED
  BY <1>1, <1>2 DEF PacketDuration, End

----------------------------------------------------------------------------
(* Files without damage.                                                    *)

(* A read returns the frame at hand and takes the one that follows it.      *)
LEMMA FrameUndamaged ==
  ASSUME Damaged = {}, NEW s, Consistent(s), s.held \in {0, s.read},
         ~StreamEnds(s), ~NullPacketIsUsed(s)
  PROVE  /\ First(s) = IF s.held = 0 THEN s.read + 1 ELSE s.held
         /\ Second(s) = First(s) + 1
         /\ First(s) \in Packets /\ Second(s) \in Packets
<1>1. s.read \in 0 .. Len(Ts)
  BY DEF Consistent, Streams
<1>2. First(s) = IF s.held = 0 THEN s.read + 1 ELSE s.held
  BY <1>1, NextGoodUndamaged DEF First
<1>3. First(s) \in Packets /\ Second(s) \in Packets
  BY FirstAndSecond
<1>4. First(s) \in 0 .. Len(Ts)
  BY <1>3, FileFacts DEF Packets
<1>5. Second(s) = First(s) + 1
  BY <1>1, <1>2, <1>4, NextGoodUndamaged DEF Second
<1> QED
  BY <1>2, <1>3, <1>5
=============================================================================
