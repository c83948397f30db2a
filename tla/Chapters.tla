------------------------------- MODULE Chapters -------------------------------
(***************************************************************************)
(* VOB and VRO files hold recordings one after the other, each with a      *)
(* clock of its own.  When ParserFF (src/src/video/ffmpeg/decoding/        *)
(* parser.cpp) opens such a file it cuts every stream into chapters where  *)
(* the time stamps jump (detect_vob_chapters, find_end_of_chapter), and    *)
(* read_packet shifts the stamps so that the time of the file goes on.     *)
(*                                                                         *)
(* A packet has one byte, so that positions are counted in packets.        *)
(* FFmpeg does not know the position of every packet, but that of the      *)
(* first of a stream after it was sent to a place.  Every packet has a     *)
(* time stamp.  Streams of data, which have no chapters, are left out.     *)
(***************************************************************************)
EXTENDS Integers, Sequences, FiniteSetsExt

CONSTANTS
  Films,       (* the files looked at: packets with stream, pts, duration,  *)
               (* whether their position is known, and their recording      *)
  Media,       (* media type of the streams 0, 1, ...                       *)
  Lead,        (* bytes before the first packet                             *)
  ProbeSize,   (* PROBE_SIZE, MAX_PTS_REORDER_PROBE_SIZE: 10                *)
  Second,      (* AV_SECOND: 1000000, compared with stamps of 90 kHz        *)
  ChapterSize, (* AVG_CHAPTER_SIZE: 20 MB                                   *)
  MaxDiff      (* MAX_RELATIVE_CHAPTER_SIZE_DIFF: 5 %                       *)

Streams == DOMAIN Media
Timed == {s \in Streams : Media[s] # "subtitle"}
Videos == {s \in Streams : Media[s] = "video"}
Packet == [stream : Streams, pts : Nat, duration : Nat, known : BOOLEAN,
           recording : Nat \ {0}]

ASSUME ChapterConstants ==
  /\ \A f \in Films : f \in Seq(Packet)
  /\ Max(Streams) \in Nat /\ Streams = 0 .. Max(Streams) /\ Timed # {}
  /\ \A s \in Streams : Media[s] \in {"video", "audio", "subtitle"}
  /\ Lead \in Nat /\ MaxDiff \in Nat
  /\ {ProbeSize, Second} \subseteq Nat \ {0} /\ ChapterSize \in Nat \ {0, 1}

Nopts == -1  (* AV_NOPTS_VALUE                                              *)

VARIABLES
  film,      (* the file                                                    *)
  phase,     (* what the thread that opens and reads the file does          *)
  cursor,    (* the last packet FFmpeg has given out                        *)
  stream,    (* the stream whose chapters are looked for                    *)
  ok,        (* ret of detect_vob_chapters                                  *)
  points,    (* the points the stream is split at, with the place of each   *)
  newPts, newPos, endPts, startPos, processed, (* locals of the search      *)
  turn, threshold, diffPts, diffPos,           (* locals of the coarse one  *)
  chapters,  (* m_chapters; <<>>: no list                                   *)
  lengths,   (* streams_durations                                           *)
  duration,  (* that of the file; Nopts: FFmpeg's guess                     *)
  current,   (* m_current_chapter                                           *)
  fresh,     (* streams no packet of which was read since the last seek     *)
  last       (* the last packet read, and the shift it has got              *)

locals == <<newPts, newPos, endPts, startPos, processed>>
coarse == <<turn, threshold, diffPts, diffPos>>
result == <<chapters, lengths, duration>>
reading == <<current, fresh, last>>
vars == <<film, phase, cursor, stream, ok, points, locals, coarse, result, reading>>

Pts(i) == film[i].pts
Byte(i) == Lead + i - 1
FileSize == Lead + Len(film)
Of(s) == {i \in DOMAIN film : film[i].stream = s}
Dist(a, b) == IF a < b THEN b - a ELSE a - b

(* The first n of a set of packets.                                         *)
Firsts(s, n) == {i \in s : Cardinality({j \in s : j < i}) < n}

Init ==
  /\ film \in Films
  /\ phase = "next" /\ cursor = 0 /\ stream = 0 /\ ok = TRUE /\ points = <<>>
  /\ newPts = Nopts /\ newPos = 0 /\ endPts = Nopts /\ startPos = 0 /\ processed = 0
  /\ turn = 0 /\ threshold = 0 /\ diffPts = 0 /\ diffPos = 0
  /\ chapters = [s \in Streams |-> <<>>] /\ lengths = {} /\ duration = Nopts
  /\ current = [s \in Streams |-> 1] /\ fresh = Streams
  /\ last = [packet |-> 0, shift |-> 0]

----------------------------------------------------------------------------
(* The end of a chapter.                                                    *)

(* get_time_at_position: FFmpeg is sent to a byte and reads up to the next  *)
(* packet of the stream.                                                    *)
After(pos) == {i \in Of(stream) : Byte(i) >= pos}
At(pos) == Min(After(pos))

(* Stamps are not in order; some more packets are looked at for the least.  *)
Least(i, probe) == Min({Pts(j) : j \in probe \cup {i}})

(* find_end_of_chapter, from a packet, its position and its stamp on: the   *)
(* first packet whose stamp is far from the latest one so far, unless one   *)
(* more than limit bytes away comes first.  A position FFmpeg does not know *)
(* is estimated from the packet before.  After the jump some packets are    *)
(* read whose stamps are not compared any more.                             *)
Search(from, pos, pts, limit) ==
  LET ahead     == {i \in Of(stream) : i > from}
      before(i) == {j \in ahead : j < i}
      known(i)  == {j \in ahead : j <= i /\ film[j].known}
      at(i)     == IF known(i) = {} THEN pos + Cardinality(before(i))
                   ELSE LET k == Max(known(i)) IN
                          Byte(k) + Cardinality({j \in before(i) : j >= k})
      latest(i) == Max({Pts(j) : j \in before(i)} \cup {pts})
      end(i)    == latest(i) + IF before(i) = {} THEN 0
                                 ELSE 2 * film[Max(before(i))].duration
      jumps     == {i \in ahead : Dist(Pts(i), latest(i)) > Second}
      far       == {i \in ahead : limit > 0 /\ at(i) - pos > limit}
      eof       == Len(film) + 1
      stop      == Min(jumps \cup far)
      probe     == Firsts({i \in ahead : i > stop}, ProbeSize)
  IN  IF jumps \cup far = {}
        THEN [found |-> TRUE, end |-> end(eof), pts |-> Nopts, cursor |-> Len(film),
              pos |-> IF ahead = {} THEN pos ELSE at(Max(ahead)),
              bytes |-> IF ahead = {} THEN processed ELSE at(Max(ahead)) - pos]
      ELSE IF stop \in jumps
        THEN [found |-> TRUE, end |-> end(stop), pts |-> Least(stop, probe),
              cursor |-> IF Cardinality(probe) < ProbeSize THEN Len(film) ELSE Max(probe),
              pos |-> at(stop), bytes |-> at(stop) - pos]
        ELSE [found |-> FALSE, end |-> endPts, pts |-> Pts(stop), cursor |-> stop,
              pos |-> at(stop), bytes |-> at(stop) - pos]

Becomes(r) ==
  /\ cursor' = r.cursor /\ endPts' = r.end /\ newPts' = r.pts /\ newPos' = r.pos
  /\ processed' = r.bytes

(* Mutant: the last byte of a chapter is the first of the next one.         *)
LastByteShared(pos) == pos

LastByte(pos) == pos - 1

(* A chapter ends, and the next begins, if the file goes on.                *)
Split(r) ==
  /\ points' = points \o <<[pts |-> r.end, pos |-> LastByte(r.pos)]>>
                      \o IF r.pts = Nopts THEN <<>> ELSE <<[pts |-> r.pts, pos |-> r.pos]>>
  /\ phase' = IF r.pts = Nopts THEN "points" ELSE "search"

----------------------------------------------------------------------------
(* detect_vob_chapters of one stream.                                       *)

StreamFails ==
  ok' = FALSE /\ phase' = "next" /\ stream' = stream + 1 /\ points' = <<>>

(* After a stream that failed no other is looked at.                        *)
SkipStream ==
  /\ phase = "next" /\ stream \in Streams /\ (stream \notin Timed \/ ~ok)
  /\ stream' = stream + 1
  /\ UNCHANGED <<film, phase, cursor, ok, points, locals, coarse, result, reading>>

(* get_min_time_at_position for the start of the file.                      *)
StartStream ==
  /\ phase = "next" /\ stream \in Timed /\ ok
  /\ IF Of(stream) = {}
       THEN StreamFails /\ cursor' = Len(film) /\ UNCHANGED locals
       ELSE LET first == At(0) IN
              /\ newPts' = Min({Pts(i) : i \in Firsts(Of(stream), ProbeSize)})
              /\ newPos' = Byte(first) /\ cursor' = first
              /\ points' = <<[pts |-> newPts', pos |-> newPos']>>
              /\ endPts' = Nopts /\ startPos' = 0 /\ processed' = 0
              /\ phase' = "search" /\ UNCHANGED <<ok, stream>>
  /\ UNCHANGED <<film, coarse, result, reading>>

Greater(a, b) == IF a < b THEN b ELSE a

(* The search for the end of a chapter goes on from where FFmpeg is, only   *)
(* at the start of the file it is sent there.                               *)
SearchEnd ==
  /\ phase = "search"
  /\ LET limit == Greater(ChapterSize, (processed * 3) \div 2) IN
     \E r \in {IF newPos <= 0 THEN Search(At(0), Byte(At(0)), Pts(At(0)), limit)
               ELSE Search(cursor, newPos, newPts, limit)} :
       IF r.found
         THEN Becomes(r) /\ Split(r) /\ UNCHANGED <<startPos, coarse>>
         ELSE /\ Becomes([r EXCEPT !.end = newPts])
              /\ startPos' = newPos
              /\ diffPts' = r.pts - newPts /\ diffPos' = r.pos - newPos
              /\ turn' = 1 /\ threshold' = 5
              /\ phase' = "coarse" /\ UNCHANGED points
  /\ UNCHANGED <<film, stream, ok, result, reading>>

TestStep == ChapterSize \div 2
TestPos == newPos + TestStep * turn
Turns == (FileSize - newPos) \div TestStep

(* av_rescale(1000, a, b); of no use if b is not positive or a negative.    *)
Rescaled(a, b) == (1000 * a + b \div 2) \div b

(* How far, in per cent, the ratio of stamps is off the ratio of positions. *)
Off(pts, pos) ==
  IF diffPts < 0 \/ pts <= 0 THEN 100
  ELSE Dist((100 * Rescaled(diffPts, pts)) \div Rescaled(diffPos, pos), 100)

(* The chapter is long: steps through the file, as long as stamps and       *)
(* positions grow at the same rate.                                         *)
CoarseTurn ==
  /\ phase = "coarse"
  /\ IF turn >= Turns
       THEN phase' = "fine" /\ UNCHANGED <<cursor, ok, stream, points, coarse>>
     ELSE IF After(TestPos) = {}
       THEN StreamFails /\ cursor' = Len(film) /\ UNCHANGED coarse
       ELSE LET i   == At(TestPos)
                off == Off(Pts(i) - endPts, Byte(i) - startPos)
            IN  /\ cursor' = i
                /\ IF off <= threshold
                     THEN /\ threshold' = Greater(off, 2) /\ turn' = turn + 1
                          /\ diffPts' = Pts(i) - endPts /\ diffPos' = Byte(i) - startPos
                          /\ UNCHANGED phase
                     ELSE phase' = "fine" /\ UNCHANGED coarse
                /\ UNCHANGED <<ok, stream, points>>
  /\ UNCHANGED <<film, locals, result, reading>>

(* From the last place that was right: the end of the chapter is looked for *)
(* in a part of the file, then up to its end.                               *)
FineSearch ==
  /\ phase = "fine"
  /\ LET place == newPos + TestStep * (turn - 1)
         i     == At(place)
         near  == Search(i, Byte(i), Pts(i), ChapterSize)
     IN  \E r \in {IF After(place) = {}
                     THEN [found |-> FALSE, end |-> endPts, pts |-> Nopts, pos |-> -1,
                           bytes |-> processed, cursor |-> Len(film)]
                     ELSE IF near.found THEN near
                     ELSE Search(i, Byte(i), Pts(i), 0)} :
           Becomes(r) /\ Split(r)
  /\ turn' = 0 /\ threshold' = 0 /\ diffPts' = 0 /\ diffPos' = 0
  /\ UNCHANGED <<film, stream, ok, startPos, result, reading>>

(* The chapters begin at the first byte and end at the last; each is        *)
(* shifted behind those before it.                                          *)
StreamDone ==
  /\ phase = "points"
  /\ LET count    == Len(points) \div 2
         from(k)  == points[2 * k - 1]
         to(k)    == points[2 * k]
         clock[k \in 1 .. count + 1] ==
           IF k = 1 THEN 0 ELSE clock[k - 1] + to(k - 1).pts - from(k - 1).pts
     IN  /\ chapters' = [chapters EXCEPT ![stream] =
              [k \in 1 .. count |->
                 [first |-> IF k = 1 THEN 0 ELSE from(k).pos,
                  final |-> IF k = count THEN FileSize ELSE to(k).pos,
                  length |-> Dist(to(k).pts, from(k).pts),
                  shift |-> clock[k] - from(k).pts]]]
         /\ lengths' = lengths \cup {clock[count + 1]}
  /\ phase' = "next" /\ stream' = stream + 1 /\ points' = <<>> /\ cursor' = 0
  /\ UNCHANGED <<film, ok, locals, coarse, duration, reading>>

----------------------------------------------------------------------------
(* detect_vob_chapters of the file.                                         *)

(* Mutant: streams are not matched.                                         *)
MatchesNone(c, p) == FALSE

(* The middle of c lies in p, and their lengths are nearly the same.        *)
Matches(c, p) ==
  /\ (c.first + c.final) \div 2 \in p.first .. p.final
  /\ p.length > 0 /\ 100 * Dist(c.length, p.length) < MaxDiff * p.length

Synced(lead, list) ==
  [k \in DOMAIN list |->
     LET match == {c \in DOMAIN lead : Matches(lead[c], list[k])} IN
       IF match = {} THEN list[k]
       ELSE [list[k] EXCEPT !.shift = lead[Max(match)].shift]]

(* With one video stream, and the same number of chapters in every stream,  *)
(* the others take the shifts of the video.                                 *)
Sync ==
  /\ phase = "next" /\ stream \notin Streams
  /\ IF ~ok THEN UNCHANGED <<chapters, duration>>
     ELSE /\ duration' = Max(lengths)
          /\ \/ /\ Cardinality(Videos) = 1
                /\ LET v == Min(Videos) IN
                     /\ \A s \in Timed : Len(chapters[s]) = Len(chapters[v])
                     /\ chapters' = [s \in Streams |->
                          IF s = v THEN chapters[s] ELSE Synced(chapters[v], chapters[s])]
             \/ /\ Cardinality(Videos) = 1 =>
                     \E s, v \in Timed : Len(chapters[s]) # Len(chapters[v])
                /\ UNCHANGED chapters
  /\ phase' = "ready" /\ cursor' = 0
  /\ newPts' = Nopts /\ newPos' = 0 /\ endPts' = Nopts /\ startPos' = 0 /\ processed' = 0
  /\ UNCHANGED <<film, stream, ok, points, coarse, lengths, reading>>

----------------------------------------------------------------------------
(* Reading.                                                                 *)

(* Streams without chapters use those of the first video or audio stream.   *)
DefaultList == IF Videos # {} THEN Min(Videos) ELSE Min(Timed)
ListOf(s) == IF chapters[s] # <<>> THEN s ELSE DefaultList

(* Mutant: a chapter never ends.                                            *)
StillInForever(c, pos) == c.first <= pos

StillIn(c, pos) == pos \in c.first .. c.final

(* The chapter of a packet.  If its position is not known it is that of the *)
(* packet before.                                                           *)
ChapterOf(list, cur, known, pos) ==
  IF known /\ pos > 0
    THEN IF cur \in DOMAIN list /\ StillIn(list[cur], pos) THEN cur
         ELSE Max({k \in DOMAIN list : list[k].first <= pos} \cup {0})
    ELSE IF cur \in DOMAIN list THEN cur ELSE 1

(* read_packet.                                                             *)
ReadPacket ==
  /\ phase = "ready" /\ cursor < Len(film)
  /\ LET i == cursor + 1
         s == film[i].stream
         l == ListOf(s)
         c == ChapterOf(chapters[l], current[l], film[i].known \/ s \in fresh, Byte(i))
     IN  /\ cursor' = i /\ fresh' = fresh \ {s}
         /\ current' = [current EXCEPT ![l] = c]
         /\ last' = [packet |-> i,
                     shift |-> IF c \in DOMAIN chapters[l] THEN chapters[l][c].shift ELSE 0]
  /\ UNCHANGED <<film, phase, stream, ok, points, locals, coarse, result>>

(* seek: FFmpeg is sent to some byte of the file.                           *)
Seek ==
  /\ phase = "ready"
  /\ \E c \in 0 .. Len(film) : cursor' = c
  /\ current' = [s \in Streams |-> 1] /\ fresh' = Streams
  /\ last' = [packet |-> 0, shift |-> 0]
  /\ UNCHANGED <<film, phase, stream, ok, points, locals, coarse, result>>

Next ==
  \/ SkipStream \/ StartStream \/ SearchEnd \/ CoarseTurn \/ FineSearch
  \/ StreamDone \/ Sync \/ ReadPacket \/ Seek

Spec == Init /\ [][Next]_vars

----------------------------------------------------------------------------
(* Types; and every stream's chapters cover the file without gap or overlap.*)
TypeOK ==
  /\ film \in Films /\ ok \in BOOLEAN
  /\ phase \in {"next", "search", "coarse", "fine", "points", "ready"}
  /\ cursor \in 0 .. Len(film) /\ stream \in 0 .. Max(Streams) + 1
  /\ newPts \in Nat \cup {Nopts} /\ endPts \in Nat \cup {Nopts}
  /\ newPos \in -1 .. FileSize /\ startPos \in 0 .. FileSize
  /\ processed \in 0 .. FileSize
  /\ current \in [Streams -> Nat] /\ fresh \subseteq Streams
  /\ \A s \in Streams : chapters[s] # <<>> =>
       LET list == chapters[s] IN
         /\ list[1].first = 0 /\ list[Len(list)].final = FileSize
         /\ \A k \in DOMAIN list : list[k].first <= list[k].final
         /\ \A k \in 1 .. Len(list) - 1 : list[k + 1].first = list[k].final + 1

Recordings == {film[i].recording : i \in DOMAIN film}
Part(s, r) == {i \in Of(s) : film[i].recording = r}
Stamps(s, r) == {Pts(i) : i \in Part(s, r)}

(* Recordings as cameras and DVD recorders leave them: more packets in each *)
(* than are probed, stamps that go on within a recording, a clock that is   *)
(* set back before the next one.  All streams go on to the end of the file; *)
(* where one stops earlier the coarse search may run out of packets.        *)
Regular ==
  \A s \in Timed, r \in Recordings :
    LET part  == Part(s, r)
        start == Firsts(part, ProbeSize + 1)
    IN  /\ Byte(Max(Of(s))) >= FileSize - TestStep
        /\ part \ start # {} /\ film[Min(part)].known
        /\ \A i \in part \ {Min(part)} :
             Dist(Pts(i), Max({Pts(j) : j \in {p \in part : p < i}})) <= Second
        /\ Dist(Pts(Min(part \ start)), Min({Pts(j) : j \in start})) <= Second
        /\ r > 1 => Pts(Min(part)) + Second < Max(Stamps(s, r - 1))

Shift(s, r) == chapters[s][r].shift
LastStamp(s, r) == Pts(Max(Part(s, r)))

(* detect_vob_chapters and read_packet: in a regular file the chapters are  *)
(* the recordings; the shifted stamps of a stream go on from each to the    *)
(* next, within the duration of the file, and a packet is shifted with its  *)
(* recording, whatever was read or sought before.  "Go on" is from the last *)
(* packet: where a search starts right before the jump it does not know the *)
(* stamps and the duration of the packets before it.                        *)
TimeGoesOn ==
  phase = "ready" /\ Regular =>
    /\ \A s \in Timed :
         /\ Len(chapters[s]) = Cardinality(Recordings)
         /\ Min(Stamps(s, 1)) + Shift(s, 1) = 0
         /\ Max(Stamps(s, Max(Recordings))) + Shift(s, Max(Recordings)) < duration
         /\ \A r \in Recordings \ {1} :
              (Min(Stamps(s, r)) + Shift(s, r)) - (LastStamp(s, r - 1) + Shift(s, r - 1))
                \in 0 .. Second
    /\ last.packet # 0 =>
         LET p == film[last.packet] IN
           p.stream \in Timed => last.shift = Shift(p.stream, p.recording)

(* The lengths a recording may be found to have.                            *)
Lengths(s, r) ==
  LET start == Min(Stamps(s, r)) IN
    LastStamp(s, r) - start
      .. Max(Stamps(s, r)) - start + 2 * film[Max(Part(s, r))].duration

(* detect_vob_chapters, "the same shift for matching chapters": in a        *)
(* regular file with one video stream, a stream whose recordings last about *)
(* as long as those of the video is shifted with it: sound stays in step.   *)
StreamsInStep ==
  phase = "ready" /\ Regular /\ Cardinality(Videos) = 1 =>
    \A s \in Timed, v \in Videos, r \in Recordings :
      (\A a \in Lengths(v, r), b \in Lengths(s, r) : 100 * Dist(a, b) < MaxDiff * b)
        => Shift(s, r) = Shift(v, r)
=============================================================================
