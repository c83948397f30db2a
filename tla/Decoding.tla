------------------------------ MODULE Decoding ------------------------------
(***************************************************************************)
(* The decoding chain of a file (src/src/video/ffmpeg/decoding) as its one *)
(* user, ReaderFF, sees it: what a seek leaves behind and which frame a    *)
(* read returns.  Two buffers decide that.  DemuxerQueue takes packets     *)
(* from the parser in batches, and learns of the end of the file while it  *)
(* still holds packets.  DecoderVideoFF keeps a frame back until the next  *)
(* one tells how long it lasts.                                            *)
(*                                                                         *)
(* Packets are numbered in the order of the file; a packet decodes at once *)
(* to a frame with its time stamp, or to nothing if it is damaged.  Where  *)
(* the parser lands after a seek is left open, up to the key packet that   *)
(* seek_internal looks for.                                                *)
(***************************************************************************)
EXTENDS Integers, Sequences, FiniteSetsExt

CONSTANTS
  Ts,       (* the time stamps of the packets of the stream    *)
  Duration, (* get_duration() of the stream                    *)
  Keys,     (* the packets that are key frames                 *)
  Damaged,  (* the packets the decoder can make nothing of     *)
  Batch     (* packets read at once by fill_queue: 16          *)

Packets == 1 .. Len(Ts)

ASSUME FileIsOrdered ==
  /\ Ts \in Seq(Nat) /\ Duration \in Nat
  /\ \A i \in Packets : Ts[i] < Duration
  /\ \A i, j \in Packets : i < j => Ts[i] < Ts[j]
  /\ Keys \subseteq Packets /\ Damaged \subseteq Packets
  /\ Batch \in Nat \ {0}

NoFrame == [ts |-> -1, duration |-> 0]
Frames == [ts : {-1} \cup {Ts[i] : i \in Packets}, duration : 0 .. Duration]

(* When packet i ends.                                                      *)
End(i) == IF i < Len(Ts) THEN Ts[i + 1] ELSE Duration
PacketDuration(i) == End(i) - Ts[i]

(* The first packet of S after packet i; the packet past the end if none.   *)
FirstAfter(i, S) == Min({j \in S : j > i} \cup {Len(Ts) + 1})
NextGood(i) == FirstAfter(i, Packets \ Damaged)

----------------------------------------------------------------------------
(* The state of the chain is a record.  The packets of the queue, and the   *)
(* one that get_seek_result buffers, are those after read up to fetched.    *)
Streams ==
  [read : 0 .. Len(Ts),     (* the last packet given to the decoder         *)
   fetched : 0 .. Len(Ts),  (* the last packet taken from the parser        *)
   eof : BOOLEAN,           (* m_eof_is_reached                             *)
   held : 0 .. Len(Ts),     (* m_prev_frame of the decoder; 0: empty        *)
   position : 0 .. Duration,(* m_position                                   *)
   lastKey : BOOLEAN]       (* m_last_key_frame                             *)

Opened == [read |-> 0, fetched |-> 0, eof |-> FALSE, held |-> 0,
           position |-> 0, lastKey |-> FALSE]

(* fill_queue: batches from packet i on, until packet j is in the queue or  *)
(* the parser has nothing left.                                             *)
Filled(i, j) == Min({i + n * Batch : n \in 0 .. Len(Ts) + 1} \ 0 .. j - 1)
FetchedTo(i, j) == Min({Filled(i, j), Len(Ts)})
EndSeen(i, j) == Filled(i, j) > Len(Ts)

(* The key packet a seek to time t ends on; 0: there is none.               *)
KeyBefore(t) == Max({i \in Keys : Ts[i] <= t} \cup {0})

(* What a seek to time t may leave behind.  The parser lands on a packet i  *)
(* at or before the key packet; the queue drops what precedes the key       *)
(* packet and is filled until it holds a second one; the decoder is flushed *)
(* of the frame h it held.                                                  *)
SeekKeeping(s, t, h) ==
  LET k == KeyBefore(t) IN
    {[read |-> k - 1, fetched |-> FetchedTo(i - 1, FirstAfter(k, Keys)),
      eof |-> EndSeen(i - 1, FirstAfter(k, Keys)), held |-> h,
      position |-> Ts[k], lastKey |-> s.lastKey] : i \in 1 .. k}

(* Mutant: flush does not reset m_prev_frame.                               *)
SeekUnflushed(s, t) == SeekKeeping(s, t, s.held)

SeekResults(s, t) == SeekKeeping(s, t, 0)

(* read_frame.  The decoder holds frame `first` back, or gets it now, and   *)
(* releases it when it gets frame `second`.  If the stream ends before the  *)
(* first, there is no frame.  If it ends before the second, the decoder     *)
(* releases the frame for the null packet, whose is_key_frame is then       *)
(* asked: the null pointer is dereferenced.                                 *)
First(s) == IF s.held # 0 THEN s.held ELSE NextGood(s.read)
Second(s) == NextGood(IF s.held # 0 THEN s.read ELSE First(s))

StreamEnds(s) == First(s) > Len(Ts)
NullPacketIsUsed(s) == ~StreamEnds(s) /\ Second(s) > Len(Ts)

FrameOf(s) ==
  [ts |-> Ts[First(s)], duration |-> Ts[Second(s)] - Ts[First(s)]]

(* Mutant: the flag is that of the packet the frame was decoded from.       *)
AfterFrameOwnKey(s) ==
  LET p == Second(s) IN
    [read |-> p, fetched |-> FetchedTo(s.fetched, p),
     eof |-> s.eof \/ EndSeen(s.fetched, p), held |-> p,
     position |-> Ts[p], lastKey |-> First(s) \in Keys]

AfterFrame(s) ==
  LET p == Second(s) IN
    [read |-> p, fetched |-> FetchedTo(s.fetched, p),
     eof |-> s.eof \/ EndSeen(s.fetched, p), held |-> p,
     position |-> Ts[p], lastKey |-> p \in Keys]

AfterNothing(s) ==
  [read |-> Len(Ts), fetched |-> Len(Ts), eof |-> TRUE, held |-> s.held,
   position |-> IF s.read < Len(Ts) THEN Duration ELSE s.position,
   lastKey |-> s.lastKey]
=============================================================================
