------------------------------- MODULE Reader -------------------------------
(***************************************************************************)
(* ReaderFF (src/src/video/ffmpeg/reader): callers queue commands, one     *)
(* thread executes them and plays the file in between.  What reading and   *)
(* seeking do to the decoding chain is in module Decoding.                 *)
(*                                                                         *)
(* The worker holds m_event_guard while it executes a command, not while   *)
(* it plays: a caller waits for it then.  m_read_guard is taken by the     *)
(* worker only.  The observer lists hand their calls to a pool of threads; *)
(* what counts here is the order in which the reader hands them over.      *)
(***************************************************************************)
EXTENDS Decoding

CONSTANTS
  Threshold,   (* MAX_INVALID_THRESHOLD: 10                                 *)
  StepValue,   (* STEP_VALUE: 10 s                                          *)
  Mode,        (* m_mode                                                    *)
  Positions,   (* bound: arguments of set_position                          *)
  MaxCommands, (* bound: commands queued in a behaviour                     *)
  MayThrow     (* whether reading or decoding may throw                     *)

ASSUME ReaderConstants ==
  /\ Threshold \in Nat /\ StepValue \in Nat /\ Mode \in {"All", "KeyFrame"}
  /\ Positions \subseteq Int /\ MaxCommands \in Nat /\ MayThrow \in BOOLEAN

Plain == {"Play", "Pause", "Stop", "StepForward", "StepBackward",
          "RewindForward", "RewindBackward"}
Commands == [type : Plain, pos : {0}] \cup [type : {"SetPosition"}, pos : Positions]
NoCommand == [type |-> "Undefined", pos |-> 0]

States == {"Reading", "Paused", "Error"}

(* The worker: at the head of its loop; at the wait of m_read_cnd, blocking *)
(* on it, asleep; past the wait; in read_frame, called to play, by          *)
(* step_forward, while set_position looks for its frame and when it found   *)
(* it; in the loop of set_position; past its last read; leaving the loop.   *)
ReadPoints == {"read", "step", "skim-read", "land"}
WorkerPoints ==
  ReadPoints \cup {"top", "wait", "block", "asleep", "go", "skim", "landed",
                   "finish", "ended", "crashed"}

VARIABLES
  issued,      (* commands queued so far                                    *)
  events,      (* m_event_queue                                             *)
  cmd,         (* the command executed last                                 *)
  needStop,    (* m_need_stop                                               *)
  reading,     (* m_continue_reading                                        *)
  state,       (* m_state                                                   *)
  skip,        (* m_skip_frame_handle                                       *)
  forced,      (* m_need_handle_after_force_set_pos                         *)
  last,        (* time stamp and duration of m_last_valid_frame             *)
  prevDuration,(* m_prev_duration                                           *)
  invalid,     (* m_invalid_counter                                         *)
  wpc,         (* the worker thread                                         *)
  target, prevState, pktDuration, (* locals of set_position_impl            *)
  stream,      (* the decoding chain                                        *)
  listening,   (* both observer lists are enabled                           *)
  told,        (* the state last handed to the observers                    *)
  shown        (* the frame last handed to the observers                    *)

calls   == <<issued, events, cmd>>
flags   == <<needStop, reading>>
handle  == <<skip, forced>>
frame   == <<last, prevDuration, invalid, shown>>
seeking == <<target, prevState, pktDuration>>
report  == <<state, told>>
vars == <<calls, flags, handle, frame, seeking, report, stream, listening, wpc>>

TypeOK ==
  /\ issued \in 0 .. MaxCommands /\ events \in Seq(Commands)
  /\ cmd \in Commands \cup {NoCommand}
  /\ needStop \in BOOLEAN /\ reading \in BOOLEAN
  /\ state \in States /\ told \in States /\ prevState \in States
  /\ skip \in BOOLEAN /\ forced \in BOOLEAN /\ listening \in BOOLEAN
  /\ last \in Frames /\ shown \in Frames /\ prevDuration \in 0 .. Duration
  /\ invalid \in 0 .. Threshold + 1
  /\ wpc \in WorkerPoints
  /\ target \in 0 .. Duration /\ pktDuration \in 0 .. Duration
  /\ stream \in Streams

(* A file has been opened, the observers are registered, start() was called. *)
Init ==
  /\ issued = 0 /\ events = <<>> /\ cmd = NoCommand
  /\ needStop = FALSE /\ reading = FALSE
  /\ state = "Reading" /\ told = "Reading"
  /\ skip = FALSE /\ forced = FALSE /\ listening = TRUE
  /\ last = NoFrame /\ shown = NoFrame /\ prevDuration = 0 /\ invalid = 0
  /\ wpc = "top"
  /\ target = 0 /\ prevState = "Reading" /\ pktDuration = 0
  /\ stream = Opened

NeedBreak == needStop \/ state = "Error" \/ invalid > Threshold

(* set_reader_state: disabled lists hand nothing over.                      *)
SetState(s) == state' = s /\ told' = IF listening THEN s ELSE told

----------------------------------------------------------------------------
(* Callers.                                                                 *)

(* The worker is in handle_event, with m_event_guard.                       *)
Executing == wpc \in {"step", "skim", "skim-read", "land", "landed"}

(* add_reader_event.  The notification wakes a worker that is blocked.      *)
AddEvent(c) ==
  /\ issued < MaxCommands /\ ~Executing /\ wpc # "crashed"
  /\ issued' = issued + 1
  /\ events' = Append(events, c)
  /\ wpc' = IF wpc = "asleep" THEN "wait" ELSE wpc
  /\ UNCHANGED <<cmd, flags, handle, frame, seeking, report, stream, listening>>

----------------------------------------------------------------------------
(* read_frame.                                                              *)

(* Where the worker goes on after it.                                       *)
Return ==
  /\ wpc' = CASE wpc \in {"read", "step"} -> "top"
              [] wpc = "skim-read" -> "skim"
              [] wpc = "land" -> "landed"
  /\ forced' = (forced /\ wpc # "step")
  /\ UNCHANGED <<calls, flags, skip, seeking, report, listening>>

(* need_handle_frame, asked after the stream's is_last_key_frame.           *)
NeedHandle == ~skip /\ (Mode = "All" \/ stream'.lastKey \/ forced)

ReadValid ==
  /\ wpc \in ReadPoints /\ ~StreamEnds(stream) /\ ~NullPacketIsUsed(stream)
  /\ stream' = AfterFrame(stream)
  /\ invalid' = 0
  /\ prevDuration' = last.duration
  /\ last' = FrameOf(stream)
  /\ shown' = IF NeedHandle /\ listening THEN FrameOf(stream) ELSE shown
  /\ Return

(* Mutant: the invalid frame is not counted.                                *)
ReadInvalidUncounted ==
  /\ wpc \in ReadPoints /\ StreamEnds(stream) /\ last # NoFrame
  /\ stream' = AfterNothing(stream)
  /\ UNCHANGED <<last, prevDuration, shown, invalid>>
  /\ Return

ReadInvalid ==
  /\ wpc \in ReadPoints /\ StreamEnds(stream) /\ last # NoFrame
  /\ stream' = AfterNothing(stream)
  /\ invalid' = invalid + 1
  /\ UNCHANGED <<last, prevDuration, shown>>
  /\ Return

(* The process ends: in DemuxedStream::read_frame, or where read_frame logs *)
(* the time stamp of a last frame there never was.                          *)
ReadCrashes ==
  /\ wpc \in ReadPoints
  /\ NullPacketIsUsed(stream) \/ (StreamEnds(stream) /\ last = NoFrame)
  /\ wpc' = "crashed"
  /\ UNCHANGED <<calls, flags, handle, frame, seeking, report, stream, listening>>

(* An exception ends the loop; the stream is not used any more.             *)
ReadThrows ==
  /\ MayThrow /\ wpc \in ReadPoints
  /\ wpc' = "finish"
  /\ UNCHANGED <<calls, flags, handle, frame, seeking, report, stream, listening>>

----------------------------------------------------------------------------
(* Commands.  The worker looks at the newest command and removes the oldest. *)

Take(type) ==
  /\ wpc = "top" /\ ~NeedBreak /\ events # <<>>
  /\ cmd' = events[Len(events)]
  /\ events' = Tail(events)
  /\ cmd'.type = type
  /\ UNCHANGED issued

Play ==
  /\ Take("Play")
  /\ reading' = TRUE
  /\ UNCHANGED <<needStop, handle, frame, seeking, report, stream, listening, wpc>>

Pause ==
  /\ Take("Pause")
  /\ reading' = FALSE
  /\ UNCHANGED <<needStop, handle, frame, seeking, report, stream, listening, wpc>>

Stop ==
  /\ Take("Stop")
  /\ reading' = FALSE /\ needStop' = TRUE
  /\ UNCHANGED <<handle, frame, seeking, report, stream, listening, wpc>>

StepForward ==
  /\ Take("StepForward")
  /\ IF reading THEN UNCHANGED <<forced, wpc>> ELSE forced' = TRUE /\ wpc' = "step"
  /\ UNCHANGED <<flags, skip, frame, seeking, report, stream, listening>>

StepBackwardRefused ==
  /\ Take("StepBackward") /\ reading
  /\ UNCHANGED <<flags, handle, frame, seeking, report, stream, listening, wpc>>

(* The commands that end in set_position_impl; it logs get_position, which  *)
(* throws as long as no frame has been read.                                *)
(* Mutant: step_backward starts from the position of the stream, which is   *)
(* that of the frame the decoder holds.                                     *)
DestinationOfStream ==
  CASE cmd'.type = "SetPosition"    -> cmd'.pos
    [] cmd'.type = "StepBackward"   -> stream.position - prevDuration
    [] cmd'.type = "RewindForward"  -> last.ts + StepValue
    [] cmd'.type = "RewindBackward" -> last.ts - StepValue

Destination ==
  CASE cmd'.type = "SetPosition"    -> cmd'.pos
    [] cmd'.type = "StepBackward"   -> last.ts - prevDuration
    [] cmd'.type = "RewindForward"  -> last.ts + StepValue
    [] cmd'.type = "RewindBackward" -> last.ts - StepValue

Forces == cmd'.type # "SetPosition"

Reposition ==
  \/ Take("SetPosition") \/ Take("RewindForward") \/ Take("RewindBackward")
  \/ Take("StepBackward") /\ ~reading

(* Mutant: a position before the start is not corrected.                    *)
Unclamped(pos) == pos

Clamped(pos) == IF pos < 0 THEN 0 ELSE pos

(* STEP_ASSERT in get_position.                                             *)
PositionUnknown ==
  /\ Reposition /\ last = NoFrame /\ (Forces \/ Clamped(cmd'.pos) < Duration)
  /\ forced' = Forces
  /\ wpc' = "finish"
  /\ UNCHANGED <<flags, skip, frame, seeking, report, stream, listening>>

OverTheEnd ==
  /\ Reposition /\ (Forces => last # NoFrame)
  /\ Clamped(Destination) >= Duration
  /\ UNCHANGED <<flags, handle, frame, seeking, report, stream, listening, wpc>>

(* The observers are switched off, then the stream is positioned.           *)
Seek ==
  /\ Reposition /\ last # NoFrame
  /\ LET pos == Clamped(Destination) IN
       /\ pos < Duration /\ KeyBefore(pos) # 0
       /\ target' = pos
       /\ stream' \in SeekResults(stream, pos)
       /\ pktDuration' = PacketDuration(KeyBefore(pos))
  /\ prevState' = state
  /\ skip' = TRUE /\ forced' = Forces
  /\ listening' = FALSE
  /\ wpc' = "skim"
  /\ UNCHANGED <<flags, frame, report>>

(* No key frame at or before the position: the reader is in error, and no   *)
(* observer is there to hear of it.  The stream is not used any more.       *)
SeekFails ==
  /\ Reposition /\ last # NoFrame
  /\ LET pos == Clamped(Destination) IN
       /\ pos < Duration /\ KeyBefore(pos) = 0
       /\ target' = pos
  /\ prevState' = state
  /\ listening' = FALSE
  /\ state' = "Error"
  /\ UNCHANGED <<flags, handle, frame, told, pktDuration, stream, wpc>>

(* The loop of set_position_impl: the next frame is the one looked for.     *)
(* Mutant: the end of a frame belongs to it.                                *)
AtTargetOrEnd == stream.position <= target /\ stream.position + pktDuration >= target

AtTarget == stream.position <= target /\ stream.position + pktDuration > target

SkimOn ==
  /\ wpc = "skim" /\ ~NeedBreak /\ ~AtTarget
  /\ wpc' = "skim-read"
  /\ UNCHANGED <<calls, flags, handle, frame, seeking, report, stream, listening>>

SkimBroken ==
  /\ wpc = "skim" /\ NeedBreak
  /\ listening' = TRUE /\ told' = state
  /\ forced' = FALSE
  /\ wpc' = "top"
  /\ UNCHANGED <<calls, flags, skip, frame, seeking, state, stream>>

(* Mutant: m_skip_frame_handle stays set.                                   *)
LandSkipping ==
  /\ wpc = "skim" /\ ~NeedBreak /\ AtTarget
  /\ listening' = TRUE /\ skip' = skip
  /\ wpc' = "land"
  /\ UNCHANGED <<calls, flags, forced, frame, seeking, report, stream>>

Land ==
  /\ wpc = "skim" /\ ~NeedBreak /\ AtTarget
  /\ listening' = TRUE /\ skip' = FALSE
  /\ wpc' = "land"
  /\ UNCHANGED <<calls, flags, forced, frame, seeking, report, stream>>

Landed ==
  /\ wpc = "landed"
  /\ SetState(prevState)
  /\ forced' = FALSE
  /\ wpc' = "top"
  /\ UNCHANGED <<calls, flags, skip, frame, seeking, stream, listening>>

----------------------------------------------------------------------------
(* worker_thread.                                                           *)

(* No command waits: play, or announce that the reader pauses.              *)
NoEvent ==
  /\ wpc = "top" /\ ~NeedBreak /\ events = <<>>
  /\ reading' = (reading /\ ~stream.eof)
  /\ IF reading' THEN UNCHANGED report ELSE SetState("Paused")
  /\ wpc' = "wait"
  /\ UNCHANGED <<calls, needStop, handle, frame, seeking, stream, listening>>

(* The predicate of the wait; has_event takes m_event_guard for a moment.   *)
Check ==
  /\ wpc = "wait"
  /\ wpc' = IF NeedBreak \/ events # <<>> \/ reading THEN "go" ELSE "block"
  /\ UNCHANGED <<calls, flags, handle, frame, seeking, report, stream, listening>>

Block ==
  /\ wpc = "block"
  /\ wpc' = "asleep"
  /\ UNCHANGED <<calls, flags, handle, frame, seeking, report, stream, listening>>

(* A condition variable may wake up for no reason.                          *)
WakeSpuriously ==
  /\ wpc = "asleep"
  /\ wpc' = "wait"
  /\ UNCHANGED <<calls, flags, handle, frame, seeking, report, stream, listening>>

GoOn ==
  /\ wpc = "go"
  /\ IF events # <<>>
       THEN wpc' = "top" /\ UNCHANGED report
       ELSE wpc' = "read" /\ SetState("Reading")
  /\ UNCHANGED <<calls, flags, handle, frame, seeking, stream, listening>>

LeaveLoop ==
  /\ wpc = "top" /\ NeedBreak
  /\ wpc' = "finish"
  /\ UNCHANGED <<calls, flags, handle, frame, seeking, report, stream, listening>>

Finish ==
  /\ wpc = "finish"
  /\ reading' = FALSE
  /\ IF ~needStop /\ NeedBreak THEN SetState("Error") ELSE UNCHANGED report
  /\ wpc' = "ended"
  /\ UNCHANGED <<calls, needStop, handle, frame, seeking, stream, listening>>

----------------------------------------------------------------------------
Execute ==
  \/ Play \/ Pause \/ Stop \/ StepForward \/ StepBackwardRefused
  \/ PositionUnknown \/ OverTheEnd \/ Seek \/ SeekFails
ReadFrame == ReadValid \/ ReadInvalid \/ ReadCrashes \/ ReadThrows
SetPosition == SkimOn \/ SkimBroken \/ Land \/ Landed
Loop == NoEvent \/ Check \/ Block \/ GoOn \/ LeaveLoop \/ Finish

Worker == Execute \/ ReadFrame \/ SetPosition \/ Loop
Callers == \E c \in Commands : AddEvent(c)
Next == Worker \/ Callers \/ WakeSpuriously

(* The worker is a thread; callers and spurious wakeups owe nothing.        *)
Spec == Init /\ [][Next]_vars
FairSpec == Spec /\ WF_vars(Worker)

----------------------------------------------------------------------------
(* Properties.                                                              *)

(* A frame and the time it covers.                                          *)
Covers(f, t) == f.ts <= t /\ t < f.ts + f.duration
IsNext(f, g) == f.ts + f.duration = g.ts
IsFirst(g) == g.ts = Ts[NextGood(0)]

(* In mode All an observer sees the film: a frame it is handed is the one   *)
(* that covers the position asked for, and otherwise continues the frame    *)
(* before; none is skipped, comes again later or is left over from before a *)
(* seek (read_frame and flush of the decoder, reader_impl.cpp               *)
(* set_position_impl).  One that is handed over twice in a row does not show*)
(* here.                                                                    *)
FramesInOrder ==
  [][ shown' # shown =>
        IF wpc = "land" THEN Covers(shown', target)
        ELSE IF shown = NoFrame THEN IsFirst(shown')
        ELSE IsNext(shown, shown') ]_vars

(* set_position_impl reads on from the key frame until the next frame is    *)
(* the one looked for: the reader then stands on the frame that covers the  *)
(* position.                                                                *)
SeekEndsOnTarget ==
  wpc = "landed" => Covers(last, target)

(* step_backward has no index of the frames, only the duration of the frame *)
(* before the last (reader.hpp, m_prev_duration).  What it shows is the     *)
(* frame before the one shown, or the first frame again.                    *)
StepsBackOneFrame ==
  [][ wpc = "land" /\ wpc' = "landed" /\ cmd.type = "StepBackward" =>
        IsNext(shown', shown) \/ (shown' = shown /\ IsFirst(shown)) ]_vars

(* Whatever command was executed, and however it ended: as long as the      *)
(* worker goes on, the observers are switched on again, frames are handled  *)
(* in the normal way and the observers know the state the reader is in.  A  *)
(* worker that sleeps has announced that it pauses.                         *)
ObserversKnow ==
  /\ (wpc \in {"top", "wait", "block", "asleep", "go", "read"} /\ ~NeedBreak) =>
        listening /\ ~skip /\ ~forced /\ told = state
  /\ wpc = "asleep" => told = "Paused" /\ ~reading

(* In mode KeyFrame a frame is shown while playing when the packet read     *)
(* after it is a key frame ("whether the next frame of the stream is key",  *)
(* reader.hpp, m_is_last_key_frame).                                        *)
ShowsFramesBeforeKeys ==
  [][ wpc = "read" /\ shown' # shown /\ Mode = "KeyFrame" =>
        \E k \in Keys : Ts[k] = shown'.ts + shown'.duration ]_vars

(* A caller that waits for m_event_guard gets it: no command keeps the      *)
(* worker for ever, not even set_position on a file that cannot be decoded  *)
(* (MAX_INVALID_THRESHOLD).                                                 *)
CommandsEnd == Executing ~> ~Executing

(* "If pPkt == NULL all is well, this NULL goes into the decoder to extract *)
(* the cached data" (stream.cpp, read_frame).                               *)
EndOfStreamIsFine == wpc # "crashed"
=============================================================================
