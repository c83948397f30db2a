------------------------------ MODULE Demuxing ------------------------------
(***************************************************************************)
(* How a seek finds its place in a file (src/src/video/ffmpeg/decoding):   *)
(* StreamReader backs off until the stream accepts where DemuxerQueue has  *)
(* come to, DemuxerQueue backs off until its queue starts early enough,    *)
(* and ParserFF guesses from the packets it has read whether FFmpeg is to  *)
(* seek forward or backward.  Module Decoding takes the outcome of all     *)
(* that for granted; SeekMeetsContract is where it comes from.             *)
(*                                                                         *)
(* A file is a sequence of packets of several streams, in the order of     *)
(* their time stamps.  The program creates one stream, the best video      *)
(* stream, so the queues of the others are disabled.  The limits of a      *)
(* queue (999999 packets, 50 MB) are out of sight.                         *)
(***************************************************************************)
EXTENDS Integers, Sequences, FiniteSetsExt

CONSTANTS
  File,      (* the packets: stream, time stamp, key flag, duration         *)
  Media,     (* media type of the streams 0, 1, ...                         *)
  Best,      (* get_seek_stream()                                           *)
  FileEnd,   (* get_duration()                                              *)
  Batch,     (* packets read at once by fill_queue: 16                      *)
  BackStep,  (* first step back of DemuxerQueue::seek: 4 s                  *)
  ShortStep, (* first step back of StreamReader::seek: 1 s                  *)
  MaxStep,   (* MAX_STEP: 16 s                                              *)
  MaxShift,  (* MAX_TIME_SHIFT: 60 s                                        *)
  Formats,   (* what kinds of file are looked at                            *)
  Targets,   (* bound: positions asked for                                  *)
  MaxSeeks   (* bound: seeks in a behaviour                                 *)

Kinds == {"timed", "bytes", "mpegts", "quicktime", "rewind", "unseekable"}
Packets == DOMAIN File
StreamIds == DOMAIN Media
Seekable(s) == Media[s] \in {"video", "audio"}

ASSUME FileIsReadable ==
  /\ File \in Seq([stream : StreamIds, ts : Nat, key : BOOLEAN, duration : Nat])
  /\ \A i, j \in Packets : i < j => File[i].ts <= File[j].ts
  /\ \A i \in Packets : File[i].ts < FileEnd
  /\ Max(StreamIds) \in Nat /\ StreamIds = 0 .. Max(StreamIds) /\ Best \in StreamIds /\ Media[Best] = "video"
  /\ {Batch, BackStep, ShortStep, MaxStep, MaxShift, FileEnd} \subseteq Nat \ {0}
  /\ Formats \subseteq Kinds /\ Targets \subseteq Nat /\ MaxSeeks \in Nat

Nopts == -1  (* AV_NOPTS_VALUE                                              *)
Absent == -2 (* no entry in m_last_seek_ts                                  *)
None == 0    (* no packet                                                   *)

Video == {i \in Packets : File[i].stream = Best}
VideoKeys == {i \in Video : File[i].key}

VARIABLES
  format,    (* the kind of the file                                        *)
  cursor,    (* the last packet FFmpeg has given out                        *)
  lastTs,    (* m_last_seek_ts of the parser                                *)
  queue,     (* the packets in the queue of the video stream                *)
  eof,       (* m_eof_is_reached                                            *)
  seekTime,  (* m_seek_time of DemuxerQueue                                 *)
  time, step,               (* locals of DemuxerQueue::seek                 *)
  idx, found, best, tried,  (* locals of seek_internal: idx, seek_positions,*)
                            (* best_index, last_index                       *)
  pos, shift, start,        (* locals of StreamReader::seek                 *)
  asked,     (* m_seek_time of the StreamInfo                               *)
  wanted,    (* m_seek_position of the stream                               *)
  buffered,  (* m_buffered_packet                                           *)
  result,    (* m_last_seek_result                                          *)
  pc,        (* where the seek is                                           *)
  given,     (* history: the last packet read since the seek                *)
  seeks      (* seeks asked for so far                                      *)

parser  == <<format, cursor, lastTs>>
demuxer == <<queue, eof, seekTime>>
looping == <<time, step>>
trying  == <<idx, found, best, tried>>
backing == <<pos, shift, start>>
stream  == <<wanted, buffered, result, given>>
vars == <<parser, demuxer, looping, trying, backing, stream, asked, pc, seeks>>

Points == {"idle", "attempt", "streams", "back", "again", "probe"}

TypeOK ==
  /\ format \in Formats /\ cursor \in 0 .. Len(File)
  /\ lastTs \in [StreamIds -> 0 .. FileEnd \cup {Nopts, Absent}]
  /\ queue \subseteq Video /\ eof \in BOOLEAN /\ seekTime \in Nat
  /\ time \in Nat /\ step \in Nat /\ idx \in 0 .. Max(StreamIds) + 1
  /\ found \in 0 .. FileEnd \cup {Nopts}
  /\ {best, tried} \subseteq StreamIds \cup {Nopts}
  /\ pos \in Nat /\ shift \in Nat /\ start \in Nat /\ asked \in Nat \cup {Nopts}
  /\ wanted \in Nat /\ buffered \in Video \cup {None} /\ result \in BOOLEAN
  /\ given \in Video \cup {None} /\ pc \in Points /\ seeks \in 0 .. MaxSeeks

----------------------------------------------------------------------------
(* ParserFF.                                                                *)

(* The last packet of stream s up to packet c; 0: there is none.            *)
LastOf == [s \in StreamIds |-> [c \in 0 .. Len(File) |->
             Max({i \in 1 .. c : File[i].stream = s} \cup {0})]]

(* read() from packet c to packet d: the time stamp of the last packet of   *)
(* each stream is remembered.                                               *)
TsAfter(seen, c, d) ==
  [s \in StreamIds |-> IF LastOf[s][d] > c THEN File[LastOf[s][d]].ts ELSE seen[s]]

(* The direction is guessed from the last packet read of the stream.        *)
Forward(s, t) == lastTs[s] # Nopts /\ lastTs[s] < t

KeysOf(s) == {i \in Packets : File[i].stream = s /\ File[i].key}
AtOrBefore(s, t) == {i \in KeysOf(s) : File[i].ts <= t}
AtOrAfter(s, t) == {i \in KeysOf(s) : File[i].ts >= t}

(* avformat_seek_file towards a key packet of stream s: the last at or      *)
(* before t, the first at or after it; for time 0 the first packet.  The    *)
(* place is the packet before the one read next; none if FFmpeg fails.      *)
Backward(s, t) ==
  IF AtOrBefore(s, t) # {} THEN {Max(AtOrBefore(s, t)) - 1}
  ELSE IF t = 0 THEN {0} ELSE {}
Onward(s, t) == IF AtOrAfter(s, t) = {} THEN {} ELSE {Min(AtOrAfter(s, t)) - 1}

(* seek(s, t): the places FFmpeg may be left at; none if seek throws.  A    *)
(* stream no packet of which was read since the file was opened is not      *)
(* sought at all.  A byte position is an estimate, except 0.  QuickTime is  *)
(* sought in FFmpeg's default stream, whatever stream was meant.            *)
Landings(s, t) ==
  IF format = "mpegts" /\ s # Best THEN {}
  ELSE IF lastTs[s] = Absent THEN {cursor}
  ELSE CASE format = "unseekable" -> {}
         [] format \in {"bytes", "mpegts"} -> IF t = 0 THEN {0} ELSE 0 .. Len(File)
         [] format = "rewind"    -> {0}
         [] format = "quicktime" -> Backward(Best, t) \cup Onward(Best, t)
         [] format = "timed"     ->
              IF Forward(s, t) THEN Onward(s, t) ELSE Backward(s, t)

----------------------------------------------------------------------------
(* DemuxerQueue.                                                            *)

(* n batches from packet c on reach packet Reach[c][n], or the end of file. *)
VideoAfter == [c \in 0 .. Len(File) |-> {i \in Video : i > c}]
AtEnd == [c \in 0 .. Len(File) |-> [n \in 1 .. Len(File) + 1 |->
            Cardinality(VideoAfter[c]) < n * Batch]]
Reach == [c \in 0 .. Len(File) |-> [n \in 1 .. Len(File) + 1 |->
            IF AtEnd[c][n] THEN Len(File)
            ELSE CHOOSE i \in VideoAfter[c] :
                   Cardinality({j \in VideoAfter[c] : j <= i}) = n * Batch]]

(* Mutant: the queue is never cut at a key packet.                          *)
KeptAll(q, new) == q \cup new

(* Mutant: it is cut at every key packet.                                   *)
KeptShort(q, new) ==
  {i \in q \cup new : \A k \in new \cap VideoKeys : i >= k}

(* The queue may be cut at key packet i.                                    *)
IsCut(i) == File[i].ts <= seekTime /\ File[i].duration > 0

(* read_packets_from_parser: a key packet not past the time of the seek     *)
(* that lasts makes everything before it in the queue useless.              *)
Kept(q, new) ==
  LET useful == {i \in new \cap VideoKeys : IsCut(i)} IN
    {i \in q \cup new : \A k \in useful : i >= k}

(* What fill_queue tests: with keysMust, two key packets are wanted.        *)
Full(q, keysMust) ==
  q # {} /\ (keysMust => Cardinality(q \cap VideoKeys) >= 2)

(* fill_queue: batches until the queue is full or the file at its end.  The *)
(* queue, FFmpeg's place, the flag and the parser's memory are a record.    *)
Fill(f, keysMust) ==
  IF f.eof \/ Full(f.queue, keysMust) THEN f
  ELSE LET c == f.cursor
           filled(n) == Kept(f.queue, VideoAfter[c] \cap 1 .. Reach[c][n])
           enough(n) == AtEnd[c][n] \/ Full(filled(n), keysMust)
           n == CHOOSE m \in 1 .. Len(File) + 1 :
                  enough(m) /\ \A k \in 1 .. m - 1 : ~enough(k)
       IN  [queue |-> filled(n), cursor |-> Reach[c][n], eof |-> AtEnd[c][n],
            seen |-> TsAfter(f.seen, c, Reach[c][n])]

Buffers == [queue |-> queue, cursor |-> cursor, eof |-> eof, seen |-> lastTs]

Becomes(f) ==
  queue' = f.queue /\ cursor' = f.cursor /\ eof' = f.eof /\ lastTs' = f.seen

(* reset_queue, with FFmpeg left at packet c.                               *)
EmptyAt(c) == [queue |-> {}, cursor |-> c, eof |-> FALSE, seen |-> lastTs]

(* position() of the queue.                                                 *)
Position(q) == IF q = {} THEN Nopts ELSE File[Min(q)].ts
InTime(q) == q # {} /\ Position(q) <= seekTime

(* pop of read(): the packet and what is left; the queue is filled first if *)
(* it is empty.                                                             *)
Popped ==
  LET f == IF queue = {} THEN Fill(Buffers, FALSE) ELSE Buffers
      p == IF f.queue = {} THEN None ELSE Min(f.queue)
  IN  [packet |-> p, buffers |-> [f EXCEPT !.queue = @ \ {p}]]

----------------------------------------------------------------------------
(* find_stream_info: only the last stream keeps its entry of m_last_seek_ts;*)
(* the others get one if detect_fps reads a packet of theirs.  Then the     *)
(* best stream is sought to 0.                                              *)
Opened(read) ==
  LET first == [s \in StreamIds |-> IF s = Max(StreamIds) THEN Nopts ELSE Absent]
  IN  TsAfter(first, 0, read)

Init ==
  /\ format \in Formats
  /\ \E read \in 0 .. Len(File) :
       /\ lastTs = Opened(read)
       /\ cursor = IF format = "unseekable" \/ lastTs[Best] = Absent
                    THEN read ELSE 0
  /\ queue = {} /\ eof = FALSE /\ seekTime = 0
  /\ time = 0 /\ step = 0
  /\ idx = 0 /\ found = Nopts /\ best = Nopts /\ tried = Nopts
  /\ pos = 0 /\ shift = 0 /\ start = 0
  /\ asked = Nopts /\ wanted = 0 /\ buffered = None /\ result = FALSE
  /\ given = None /\ pc = "idle" /\ seeks = 0

(* Locals end with the calls they belong to.                                *)
LocalsGone ==
  /\ time' = 0 /\ step' = 0 /\ pos' = 0 /\ shift' = 0 /\ start' = 0
  /\ idx' = 0 /\ found' = Nopts /\ best' = Nopts /\ tried' = Nopts

(* DemuxedStream::request_seek and the head of StreamReader::seek.  A time  *)
(* asked for by a seek that threw is still there.                           *)
RequestSeek(t) ==
  /\ pc = "idle" /\ seeks < MaxSeeks
  /\ seeks' = seeks + 1
  /\ asked' = IF asked = Nopts \/ asked > t THEN t ELSE asked
  /\ wanted' = t /\ buffered' = None /\ given' = None
  /\ pos' = asked' /\ start' = asked' /\ shift' = 0
  /\ pc' = "attempt"
  /\ UNCHANGED <<parser, demuxer, looping, trying, result>>

(* seek_internal for time t.                                                *)
Enter(t) ==
  /\ time' = t /\ idx' = IF t > 0 THEN Best ELSE 0
  /\ found' = Nopts /\ best' = Nopts /\ tried' = Nopts
  /\ pc' = "streams"

Near == pos >= shift /\ start - pos < MaxShift

(* Mutant: past the limit the position stays.                               *)
NextPosStuck == IF Near THEN pos - shift ELSE pos

(* Back by a growing step, from the limit on to the start of the file.      *)
NextPos == IF Near THEN pos - shift ELSE 0

(* One turn of the loop of StreamReader::seek, and the head of              *)
(* DemuxerQueue::seek.                                                      *)
Attempt ==
  /\ pc = "attempt"
  /\ pos' = NextPos
  /\ shift' = IF ~Near \/ shift >= MaxStep THEN shift
              ELSE IF shift = 0 THEN ShortStep ELSE 2 * shift
  /\ seekTime' = pos' /\ step' = BackStep
  /\ Enter(pos')
  /\ UNCHANGED <<parser, queue, eof, start, stream, asked, seeks>>

(* The last stream tried by seek_internal.                                  *)
LastIdx == IF time > 0 THEN Best ELSE Max(StreamIds)
FirstTried == IF best = Nopts THEN idx ELSE best

(* seek_internal returned true: StreamReader goes on with the time used.    *)
Found == pos' = time /\ pc' = "probe"

SkipStream ==
  /\ pc = "streams" /\ idx <= LastIdx /\ ~Seekable(idx)
  /\ idx' = idx + 1
  /\ UNCHANGED <<parser, demuxer, looping, found, best, tried, backing, stream,
                 asked, pc, seeks>>

(* ParserFF::seek throws, which is caught.                                  *)
StreamRefuses ==
  /\ pc = "streams" /\ idx <= LastIdx /\ Seekable(idx)
  /\ Landings(idx, time) = {}
  /\ Becomes(EmptyAt(cursor))
  /\ best' = FirstTried /\ tried' = idx /\ idx' = idx + 1
  /\ UNCHANGED <<format, seekTime, looping, found, backing, stream, asked, pc, seeks>>

TryStream ==
  /\ pc = "streams" /\ idx <= LastIdx /\ Seekable(idx)
  /\ \E c \in Landings(idx, time) : \E quick \in {Fill(EmptyAt(c), FALSE)} :
     \E f \in {IF InTime(quick.queue) THEN Fill(quick, TRUE) ELSE quick} :
       LET place  == Position(f.queue)
           better == found = Nopts \/ (place # Nopts /\ place <= found)
       IN  /\ Becomes(f)
           /\ tried' = idx
           /\ best' = IF better THEN idx ELSE FirstTried
           /\ found' = IF better THEN place ELSE found
           /\ IF better /\ InTime(f.queue)
                THEN Found /\ idx' = idx
                ELSE idx' = idx + 1 /\ UNCHANGED <<pos, pc>>
  /\ UNCHANGED <<format, seekTime, looping, shift, start, stream, asked, seeks>>

(* No stream was good enough for time 0: the best of them is taken.  If     *)
(* that throws, do_seek is left with what StreamReader was asked for.       *)
TakeBest ==
  /\ pc = "streams" /\ idx > LastIdx /\ time = 0
  /\ IF best = tried
       THEN Found /\ UNCHANGED <<parser, demuxer, looping, trying, shift, start, asked>>
       ELSE \/ \E c \in Landings(best, 0) :
                 /\ Becomes(Fill(EmptyAt(c), TRUE))
                 /\ Found
                 /\ UNCHANGED <<format, seekTime, looping, trying, shift, start, asked>>
            \/ /\ Landings(best, 0) = {}
               /\ Becomes(EmptyAt(cursor))
               /\ pc' = "idle" /\ LocalsGone
               /\ UNCHANGED <<format, seekTime, asked>>
  /\ UNCHANGED <<stream, seeks>>

(* Mutant: a step too long is not cut.                                      *)
StepBackUncut(t, s) == t - s

StepBack(t, s) == IF t < s THEN 0 ELSE t - s

BackOff ==
  /\ pc = "streams" /\ idx > LastIdx /\ time > 0
  /\ Enter(StepBack(time, step))
  /\ step' = 2 * step
  /\ UNCHANGED <<parser, demuxer, backing, stream, asked, seeks>>

(* Mutant: a key packet past the position is good enough.                   *)
AcceptsAnyKey(p) == p # None /\ File[p].key

(* get_seek_result's verdict on the packet it has read.                     *)
Accepts(p) == p # None /\ File[p].key /\ File[p].ts <= wanted

(* get_seek_result: past the start of the file only a key packet will do.   *)
(* Without a packet the result of the seek before stays.                    *)
Probe ==
  /\ pc = "probe"
  /\ \E got \in {Popped} :
       LET p == got.packet IN
           /\ Becomes(got.buffers)
           /\ buffered' = p
           /\ IF p # None /\ wanted > 0 /\ ~File[p].key
                THEN UNCHANGED <<looping, trying, backing, result, pc, asked>>
                ELSE /\ result' = IF p = None THEN result ELSE Accepts(p)
                     /\ IF Accepts(p) \/ pos = 0
                          THEN pc' = "idle" /\ asked' = Nopts /\ LocalsGone
                          ELSE /\ pc' = "attempt"
                               /\ UNCHANGED <<looping, trying, backing, asked>>
  /\ UNCHANGED <<format, seekTime, wanted, given, seeks>>

(* DemuxedStream::read.                                                     *)
Read ==
  /\ pc = "idle"
  /\ IF buffered # None
       THEN given' = buffered /\ buffered' = None /\ UNCHANGED <<parser, demuxer>>
       ELSE \E got \in {Popped} :
              /\ given' = IF got.packet = None THEN given ELSE got.packet
              /\ Becomes(got.buffers)
              /\ UNCHANGED <<format, seekTime, buffered>>
  /\ UNCHANGED <<looping, trying, backing, wanted, result, asked, pc, seeks>>

SeekStep ==
  \/ Attempt \/ SkipStream \/ StreamRefuses \/ TryStream \/ TakeBest
  \/ BackOff \/ Probe

Next == SeekStep \/ Read \/ \E t \in Targets : RequestSeek(t)

Spec == Init /\ [][Next]_vars

(* The thread that seeks goes on.                                           *)
FairSpec == Spec /\ WF_vars(SeekStep)

----------------------------------------------------------------------------
(* Module Decoding speaks of the packets of one stream.                     *)
Rank(i) == Cardinality({j \in Video : j <= i})
Nth(n) == CHOOSE i \in Video : Rank(i) = n

D == INSTANCE Decoding WITH
       Ts <- [n \in 1 .. Cardinality(Video) |-> File[Nth(n)].ts],
       Keys <- {Rank(i) : i \in VideoKeys}, Damaged <- {}, Duration <- FileEnd

(* The chain as Decoding sees it right after a seek.                        *)
Chain ==
  [read |-> Rank(buffered) - 1, fetched |-> Rank(cursor), eof |-> eof, held |-> 0,
   position |-> File[buffered].ts, lastKey |-> FALSE]

SeekEnds == pc = "probe" /\ pc' = "idle"

StampsIncrease == \A i, j \in Video : i < j => File[i].ts < File[j].ts

(* At time 0 every stream is sought in turn.  A place found for a stream of *)
(* sound may lie behind the first key packet of the video, and is taken for *)
(* good as long as the next packet is not past the position (demuxer_queue  *)
(* .cpp:183); where the video comes first its own place is taken instead.   *)
VideoFirst == \A s \in StreamIds : Seekable(s) => Best <= s

(* demuxer_queue.cpp:280, 284: the queue is not cut at a key packet whose   *)
(* duration is unknown (0); a seek may then end on a key packet before it.  *)
KeysLast(t) == \A k \in VideoKeys : File[k].ts <= t => File[k].duration > 0

(* DemuxerQueue::seek, StreamReader::seek: wherever FFmpeg lands and        *)
(* however often both back off, a seek by time stamps ends in a state that  *)
(* Decoding allows: on the latest key packet at or before the position,     *)
(* with the batches up to the next key packet in the queue, provided that   *)
(* the key packets up to the position have a duration.  A seek by bytes may *)
(* end on a key packet before the latest.                                   *)
SeekMeetsContract ==
  [][SeekEnds /\ StampsIncrease /\ VideoFirst /\ KeysLast(wanted)
       /\ format \in {"timed", "quicktime", "rewind"}
       /\ D!KeyBefore(wanted) # 0
     => Chain' \in D!SeekResults(D!Opened, wanted)]_vars

(* get_seek_result, get_last_seek_result: in a file that can be sought, by  *)
(* bytes too, the result of a seek is good exactly if there is a key packet *)
(* at or before the position, and the stream then goes on from one.         *)
SeekResultIsRight ==
  [][SeekEnds /\ StampsIncrease /\ VideoFirst /\ format # "unseekable"
     => /\ result' <=> (\E k \in VideoKeys : File[k].ts <= wanted)
        /\ result' => buffered' \in VideoKeys /\ File[buffered'].ts <= wanted]_vars

(* While batches are read two key packets may fill the queue, though a key  *)
(* packet yet to come cuts it: where the second is not cut at because its   *)
(* duration is unknown (demuxer_queue.cpp:280, 284).                        *)
NoLateCut ==
  \A j, k \in VideoKeys : j < k /\ IsCut(k) => File[j].duration > 0

(* DemuxedStream::read over DemuxerQueue: after a seek every packet of the  *)
(* stream is read, in the order of the file; cutting the queue at key       *)
(* packets and filling it in batches lose and repeat nothing, unless a key  *)
(* packet without a duration comes before one the queue is cut at.          *)
NoPacketIsLost ==
  [][given # None /\ given' \notin {None, given} /\ StampsIncrease /\ NoLateCut
       /\ format # "unseekable"
     => Rank(given') = Rank(given) + 1]_vars

(* Both loops back off with growing steps and a limit; every seek ends,     *)
(* whatever FFmpeg does.                                                    *)
EverySeekEnds == pc # "idle" ~> pc = "idle"
=============================================================================
