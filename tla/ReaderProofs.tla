---------------------------- MODULE ReaderProofs ----------------------------
(***************************************************************************)
(* ReaderFF for every file and every number of commands: types; what the   *)
(* observers know between two commands; and, for a file without damage     *)
(* whose frames are of equal length, which frames they are handed; at last *)
(* that every command comes to its end.                                    *)
(***************************************************************************)
EXTENDS Reader, DecodingProofs, TLAPS

(* The types the argument needs.  The decoding chain plays no part in it.   *)
Control ==
  /\ needStop \in BOOLEAN /\ reading \in BOOLEAN /\ skip \in BOOLEAN
  /\ forced \in BOOLEAN /\ listening \in BOOLEAN
  /\ wpc \in WorkerPoints

(* From the head of the loop on the worker is not to break off: it has just *)
(* looked, and only it changes what decides.                                *)
GoesOn == wpc \in {"wait", "block", "asleep", "go", "read", "step"} => ~NeedBreak

(* What the observers and the flags are at each point; at the head of the   *)
(* loop only if the loop goes on.                                           *)
Switched ==
  /\ wpc \in {"wait", "block", "asleep", "go", "read"} =>
       listening /\ ~skip /\ ~forced /\ told = state
  /\ (wpc = "top" /\ ~NeedBreak) => listening /\ ~skip /\ ~forced /\ told = state
  /\ wpc = "step" => listening /\ ~skip /\ told = state
  /\ wpc \in {"land", "landed"} => listening /\ ~skip

(* A worker about to wait plays, or has announced that it does not.         *)
Announced ==
  /\ wpc = "wait" => reading \/ told = "Paused"
  /\ wpc \in {"block", "asleep"} => ~reading /\ told = "Paused"

IInv == Control /\ GoesOn /\ Switched /\ Announced

(* The invariant implies what the runs check.                               *)
LEMMA InvImpliesObserversKnow == IInv => ObserversKnow
BY DEF IInv, GoesOn, Switched, Announced, ObserversKnow

(* The reader starts with its observers switched on.                        *)
LEMMA InitImpliesInv == Init => IInv
BY DEF Init, IInv, Control, WorkerPoints, ReadPoints, GoesOn, Switched, Announced

USE DEF vars, calls, flags, handle, frame, seeking, report

(* read_frame: what it returns to depends on who called it; that the frame  *)
(* was valid or not matters only for the counter.                           *)
LEMMA ReturnPreservesInv ==
  ASSUME IInv, wpc \in ReadPoints, Return
  PROVE  IInv'
<1>1. /\ wpc = "read" => wpc' = "top"
      /\ wpc = "step" => wpc' = "top"
      /\ wpc = "skim-read" => wpc' = "skim"
      /\ wpc = "land" => wpc' = "landed"
  BY DEF Return
<1>2. /\ forced' = (forced /\ wpc # "step")
      /\ UNCHANGED <<needStop, reading, skip, listening, state, told>>
  BY DEF Return
<1>3. CASE wpc = "read"
  BY <1>1, <1>2, <1>3 DEF IInv, Control, WorkerPoints, GoesOn, Switched, Announced
<1>4. CASE wpc = "step"
  BY <1>1, <1>2, <1>4 DEF IInv, Control, WorkerPoints, GoesOn, Switched, Announced
<1>5. CASE wpc = "skim-read"
  BY <1>1, <1>2, <1>5 DEF IInv, Control, WorkerPoints, GoesOn, Switched, Announced
<1>6. CASE wpc = "land"
  BY <1>1, <1>2, <1>6 DEF IInv, Control, WorkerPoints, GoesOn, Switched, Announced
<1> QED
  BY <1>3, <1>4, <1>5, <1>6 DEF ReadPoints

LEMMA ReadFramePreservesInv == IInv /\ ReadFrame => IInv'
<1> SUFFICES ASSUME IInv, ReadFrame PROVE IInv'
  OBVIOUS
<1>1. CASE ReadValid
  BY <1>1, ReturnPreservesInv DEF ReadValid
<1>2. CASE ReadInvalid
  BY <1>2, ReturnPreservesInv DEF ReadInvalid
<1>3. CASE ReadCrashes
  BY <1>3 DEF ReadCrashes, IInv, Control, WorkerPoints, GoesOn, Switched, Announced
<1>4. CASE ReadThrows
  BY <1>4 DEF ReadThrows, IInv, Control, WorkerPoints, GoesOn, Switched, Announced
<1> QED
  BY <1>1, <1>2, <1>3, <1>4 DEF ReadFrame

(* The commands.  Each starts at the head of a loop that goes on.           *)
LEMMA ExecutePreservesInv == IInv /\ Execute => IInv'
<1> SUFFICES ASSUME IInv, Execute PROVE IInv'
  OBVIOUS
<1> USE DEF IInv, Control, GoesOn, Switched, Announced, Take, NeedBreak
<1>1. CASE Play
  BY <1>1 DEF Play, WorkerPoints
<1>2. CASE Pause
  BY <1>2 DEF Pause, WorkerPoints
<1>3. CASE Stop
  BY <1>3 DEF Stop, WorkerPoints
<1>4. CASE StepForward
  BY <1>4 DEF StepForward, WorkerPoints, ReadPoints
<1>5. CASE StepBackwardRefused
  BY <1>5 DEF StepBackwardRefused, WorkerPoints
<1>6. CASE PositionUnknown
  BY <1>6 DEF PositionUnknown, Reposition, Forces, WorkerPoints
<1>7. CASE OverTheEnd
  BY <1>7 DEF OverTheEnd, Reposition, WorkerPoints
<1>8. CASE Seek
  BY <1>8 DEF Seek, Reposition, Forces, WorkerPoints
<1>9. CASE SeekFails
  BY <1>9 DEF SeekFails, Reposition, WorkerPoints
<1> QED
  BY <1>1, <1>2, <1>3, <1>4, <1>5, <1>6, <1>7, <1>8, <1>9 DEF Execute

(* set_position after the seek: it switches the observers on again whether  *)
(* it found its frame or broke off.                                         *)
LEMMA SetPositionPreservesInv == IInv /\ SetPosition => IInv'
<1> SUFFICES ASSUME IInv, SetPosition PROVE IInv'
  OBVIOUS
<1> USE DEF IInv, Control, GoesOn, Switched, Announced, NeedBreak
<1>1. CASE SkimOn
  BY <1>1 DEF SkimOn, WorkerPoints, ReadPoints
<1>2. CASE SkimBroken
  BY <1>2 DEF SkimBroken, WorkerPoints
<1>3. CASE Land
  BY <1>3 DEF Land, WorkerPoints, ReadPoints
<1>4. CASE Landed
  BY <1>4 DEF Landed, SetState, WorkerPoints
<1> QED
  BY <1>1, <1>2, <1>3, <1>4 DEF SetPosition

(* The loop of the worker.                                                  *)
LEMMA LoopPreservesInv == IInv /\ Loop => IInv'
<1> SUFFICES ASSUME IInv, Loop PROVE IInv'
  OBVIOUS
<1> USE DEF IInv, Control, GoesOn, Switched, Announced, NeedBreak
<1>1. CASE NoEvent
  BY <1>1 DEF NoEvent, SetState, WorkerPoints
<1>2. CASE Check
  BY <1>2 DEF Check, WorkerPoints
<1>3. CASE Block
  BY <1>3 DEF Block, WorkerPoints
<1>4. CASE GoOn
  BY <1>4 DEF GoOn, SetState, WorkerPoints, ReadPoints
<1>5. CASE LeaveLoop
  BY <1>5 DEF LeaveLoop, WorkerPoints
<1>6. CASE Finish
  BY <1>6 DEF Finish, SetState, WorkerPoints
<1> QED
  BY <1>1, <1>2, <1>3, <1>4, <1>5, <1>6 DEF Loop

(* Callers and spurious wakeups only move the worker from its sleep to the  *)
(* predicate of its wait.                                                   *)
LEMMA OthersPreserveInv == IInv /\ (Callers \/ WakeSpuriously) => IInv'
<1> SUFFICES ASSUME IInv, Callers \/ WakeSpuriously PROVE IInv'
  OBVIOUS
<1> USE DEF IInv, Control, GoesOn, Switched, Announced, NeedBreak
<1>1. CASE Callers
  BY <1>1 DEF Callers, AddEvent, WorkerPoints
<1>2. CASE WakeSpuriously
  BY <1>2 DEF WakeSpuriously, WorkerPoints
<1> QED
  BY <1>1, <1>2

LEMMA StepPreservesInv == IInv /\ [Next]_vars => IInv'
<1> SUFFICES ASSUME IInv, [Next]_vars PROVE IInv'
  OBVIOUS
<1>1. CASE Next
  BY <1>1, ReadFramePreservesInv, ExecutePreservesInv, SetPositionPreservesInv,
     LoopPreservesInv, OthersPreserveInv DEF Next, Worker
<1>2. CASE UNCHANGED vars
  BY <1>2 DEF IInv, Control, GoesOn, Switched, Announced, NeedBreak
<1> QED
  BY <1>1, <1>2

(* Between two commands the observers of the reader are switched on, frames *)
(* are handled in the normal way and the observers know the reader's state, *)
(* however the commands before ended (reader_impl.cpp, set_position_impl).  *)
THEOREM ObserversAlwaysKnow == Spec => []ObserversKnow
BY InitImpliesInv, InvImpliesObserversKnow, StepPreservesInv, PTL DEF Spec

----------------------------------------------------------------------------
(* Types.                                                                   *)

(* A worker that reads, or may come to read without another look at         *)
(* need_break_reading, has seen no more invalid frames than it may.         *)
BelowThreshold ==
  wpc \in ReadPoints \cup {"wait", "block", "asleep", "go"} => invalid <= Threshold

TInv == TypeOK /\ Consistent(stream) /\ BelowThreshold

LEMMA InitImpliesTypes == Init => TInv
<1> SUFFICES ASSUME Init PROVE TInv
  OBVIOUS
<1>1. Consistent(Opened)
  BY FileFacts, FileIsOrdered DEF Consistent, Streams, Opened
<1>2. NoFrame \in Frames
  BY FileIsOrdered DEF NoFrame, Frames
<1>3. 0 \in 0 .. Duration /\ 0 \in 0 .. MaxCommands /\ 0 \in 0 .. Threshold + 1
  BY FileIsOrdered, ReaderConstants
<1>4. <<>> \in Seq(Commands)
  OBVIOUS
<1> QED
  BY <1>1, <1>2, <1>3, <1>4, ReaderConstants
     DEF Init, TInv, TypeOK, BelowThreshold, Consistent, WorkerPoints, ReadPoints, States

LEMMA ReadFramePreservesTypes == TInv /\ ReadFrame => TInv'
<1> SUFFICES ASSUME TInv, ReadFrame PROVE TInv'
  OBVIOUS
<1> USE DEF TInv, TypeOK, BelowThreshold
<1>0. ASSUME Return, wpc \in ReadPoints
      PROVE  /\ wpc' \in {"top", "skim", "landed"} /\ forced' \in BOOLEAN
             /\ UNCHANGED <<issued, events, cmd, needStop, reading, skip, target,
                            prevState, pktDuration, state, told, listening>>
  <2>1. /\ wpc = "read" => wpc' = "top"
        /\ wpc = "step" => wpc' = "top"
        /\ wpc = "skim-read" => wpc' = "skim"
        /\ wpc = "land" => wpc' = "landed"
    BY <1>0 DEF Return
  <2>2. /\ forced' = (forced /\ wpc # "step")
        /\ UNCHANGED <<issued, events, cmd, needStop, reading, skip, target,
                       prevState, pktDuration, state, told, listening>>
    BY <1>0 DEF Return
  <2> QED
    BY <2>1, <2>2, <1>0 DEF ReadPoints
<1>1. CASE ReadValid
  <2>1. /\ wpc \in ReadPoints /\ ~StreamEnds(stream) /\ ~NullPacketIsUsed(stream)
        /\ stream' = AfterFrame(stream) /\ invalid' = 0
        /\ prevDuration' = last.duration /\ last' = FrameOf(stream)
        /\ shown' \in {FrameOf(stream), shown} /\ Return
    BY <1>1 DEF ReadValid
  <2>2. FrameOf(stream) \in Frames /\ Consistent(AfterFrame(stream))
    BY <2>1, FrameType
  <2>3. last.duration \in 0 .. Duration
    BY DEF Frames
  <2>4. 0 \in 0 .. Threshold + 1
    BY ReaderConstants
  <2> QED
    BY <1>0, <2>1, <2>2, <2>3, <2>4 DEF Consistent, WorkerPoints, ReadPoints
<1>2. CASE ReadInvalid
  <2>1. /\ wpc \in ReadPoints /\ StreamEnds(stream)
        /\ stream' = AfterNothing(stream) /\ invalid' = invalid + 1
        /\ UNCHANGED <<last, prevDuration, shown>> /\ Return
    BY <1>2 DEF ReadInvalid
  <2>2. Consistent(AfterNothing(stream))
    BY <2>1, NothingType
  <2>3. invalid + 1 \in 0 .. Threshold + 1
    BY <2>1, ReaderConstants
  <2> QED
    BY <1>0, <2>1, <2>2, <2>3 DEF Consistent, WorkerPoints, ReadPoints
<1>3. CASE ReadCrashes
  BY <1>3 DEF ReadCrashes, Consistent, WorkerPoints, ReadPoints
<1>4. CASE ReadThrows
  BY <1>4 DEF ReadThrows, Consistent, WorkerPoints, ReadPoints
<1> QED
  BY <1>1, <1>2, <1>3, <1>4 DEF ReadFrame

(* A command taken from the queue is one of those put into it.              *)
LEMMA TakeType ==
  ASSUME TypeOK, NEW type, Take(type)
  PROVE  /\ cmd' \in Commands /\ events' \in Seq(Commands) /\ issued' = issued
         /\ wpc = "top" /\ ~NeedBreak /\ cmd'.type = type
<1>1. /\ events \in Seq(Commands) /\ events # <<>>
      /\ cmd' = events[Len(events)] /\ events' = Tail(events)
  BY DEF Take, TypeOK
<1>2. Len(events) \in 1 .. Len(events)
  BY <1>1
<1>3. events[Len(events)] \in Commands /\ Tail(events) \in Seq(Commands)
  BY <1>1, <1>2
<1> QED
  BY <1>1, <1>3 DEF Take

(* A command that repositions leads to a time of the film, or past its end. *)
LEMMA DestinationType ==
  ASSUME TypeOK, Reposition
  PROVE  /\ cmd' \in Commands /\ events' \in Seq(Commands) /\ issued' = issued
         /\ wpc = "top" /\ ~NeedBreak
         /\ Clamped(Destination) \in Nat
<1>1. /\ cmd' \in Commands /\ events' \in Seq(Commands) /\ issued' = issued
      /\ wpc = "top" /\ ~NeedBreak
      /\ \/ cmd'.type = "SetPosition" \/ cmd'.type = "RewindForward"
         \/ cmd'.type = "RewindBackward" \/ cmd'.type = "StepBackward"
  BY TakeType DEF Reposition
<1>2. last.ts \in Int /\ prevDuration \in Int /\ StepValue \in Int
  <2>1. \A i \in Packets : Ts[i] \in Int
    BY FileFacts
  <2>2. \A x \in {-1} \cup {Ts[i] : i \in Packets} : x \in Int
    BY <2>1
  <2>3. last.ts \in {-1} \cup {Ts[i] : i \in Packets}
    BY DEF TypeOK, Frames
  <2>4. prevDuration \in Int /\ StepValue \in Int
    BY FileIsOrdered, ReaderConstants DEF TypeOK
  <2> QED
    BY <2>2, <2>3, <2>4
<1>3. cmd'.type = "SetPosition" => cmd'.pos \in Int
  BY <1>1, ReaderConstants DEF Commands, Plain
<1>4. Destination \in Int
  <2>1. CASE cmd'.type = "SetPosition"
    BY <2>1, <1>3 DEF Destination
  <2>2. CASE cmd'.type = "RewindForward"
    BY <2>2, <1>2 DEF Destination
  <2>3. CASE cmd'.type = "RewindBackward"
    BY <2>3, <1>2 DEF Destination
  <2>4. CASE cmd'.type = "StepBackward"
    BY <2>4, <1>2 DEF Destination
  <2> QED
    BY <1>1, <2>1, <2>2, <2>3, <2>4
<1> QED
  BY <1>1, <1>4 DEF Clamped

LEMMA ExecutePreservesTypes == TInv /\ Execute => TInv'
<1> SUFFICES ASSUME TInv, Execute PROVE TInv'
  OBVIOUS
<1> USE DEF TInv, TypeOK, BelowThreshold
<1>0. /\ wpc = "top" /\ ~NeedBreak /\ issued' = issued
      /\ cmd' \in Commands /\ events' \in Seq(Commands)
  BY TakeType, DestinationType
     DEF Execute, Play, Pause, Stop, StepForward, StepBackwardRefused,
         PositionUnknown, OverTheEnd, Seek, SeekFails
<1>1. CASE Play
  BY <1>0, <1>1 DEF Play, Consistent, WorkerPoints, ReadPoints
<1>2. CASE Pause
  BY <1>0, <1>2 DEF Pause, Consistent, WorkerPoints, ReadPoints
<1>3. CASE Stop
  BY <1>0, <1>3 DEF Stop, Consistent, WorkerPoints, ReadPoints
<1>4. CASE StepForward
  <2>1. invalid <= Threshold
    BY <1>0, ReaderConstants DEF NeedBreak
  <2> QED
    BY <1>0, <1>4, <2>1 DEF StepForward, Consistent, WorkerPoints, ReadPoints
<1>5. CASE StepBackwardRefused
  BY <1>0, <1>5 DEF StepBackwardRefused, Consistent, WorkerPoints, ReadPoints
<1>6. CASE PositionUnknown
  BY <1>0, <1>6 DEF PositionUnknown, Forces, Consistent, WorkerPoints, ReadPoints
<1>7. CASE OverTheEnd
  BY <1>0, <1>7 DEF OverTheEnd, Consistent, WorkerPoints, ReadPoints
<1>8. CASE Seek
  <2> DEFINE pos == Clamped(Destination)
  <2>1. /\ pos \in Nat /\ pos < Duration /\ KeyBefore(pos) # 0
        /\ target' = pos /\ stream' \in SeekResults(stream, pos)
        /\ pktDuration' = PacketDuration(KeyBefore(pos))
    BY <1>8, DestinationType DEF Seek
  <2>2. /\ prevState' = state /\ skip' = TRUE /\ forced' = Forces
        /\ listening' = FALSE /\ wpc' = "skim"
        /\ UNCHANGED <<flags, frame, report>>
    BY <1>8 DEF Seek
  <2> HIDE DEF pos
  <2>3. Consistent(stream') /\ KeyBefore(pos) \in Packets
    BY <2>1, SeekType
  <2>4. pktDuration' \in 0 .. Duration
    BY <2>1, <2>3, PacketDurationType
  <2>5. target' \in 0 .. Duration
    BY <2>1, FileIsOrdered
  <2> QED
    BY <1>0, <2>2, <2>3, <2>4, <2>5 DEF Forces, Consistent, WorkerPoints, ReadPoints
<1>9. CASE SeekFails
  <2>1. target' \in 0 .. Duration
    BY <1>9, DestinationType, FileIsOrdered DEF SeekFails
  <2> QED
    BY <1>0, <1>9, <2>1 DEF SeekFails, Consistent, WorkerPoints, ReadPoints, States
<1> QED
  BY <1>1, <1>2, <1>3, <1>4, <1>5, <1>6, <1>7, <1>8, <1>9 DEF Execute

LEMMA SetPositionPreservesTypes == TInv /\ SetPosition => TInv'
<1> SUFFICES ASSUME TInv, SetPosition PROVE TInv'
  OBVIOUS
<1> USE DEF TInv, TypeOK, BelowThreshold, Consistent, WorkerPoints, ReadPoints
<1>0. ~NeedBreak => invalid <= Threshold
  BY ReaderConstants DEF NeedBreak
<1>1. CASE SkimOn
  BY <1>0, <1>1 DEF SkimOn
<1>2. CASE SkimBroken
  BY <1>2 DEF SkimBroken
<1>3. CASE Land
  BY <1>0, <1>3 DEF Land
<1>4. CASE Landed
  BY <1>4 DEF Landed, SetState
<1> QED
  BY <1>1, <1>2, <1>3, <1>4 DEF SetPosition

LEMMA LoopPreservesTypes == TInv /\ Loop => TInv'
<1> SUFFICES ASSUME TInv, Loop PROVE TInv'
  OBVIOUS
<1> USE DEF TInv, TypeOK, BelowThreshold, Consistent, WorkerPoints, ReadPoints, States
<1>0. ~NeedBreak => invalid <= Threshold
  BY ReaderConstants DEF NeedBreak
<1>1. CASE NoEvent
  BY <1>0, <1>1 DEF NoEvent, SetState
<1>2. CASE Check
  BY <1>2 DEF Check
<1>3. CASE Block
  BY <1>3 DEF Block
<1>4. CASE GoOn
  BY <1>4 DEF GoOn, SetState
<1>5. CASE LeaveLoop
  BY <1>5 DEF LeaveLoop
<1>6. CASE Finish
  BY <1>6, ZenonT(60) DEF Finish, SetState
<1> QED
  BY <1>1, <1>2, <1>3, <1>4, <1>5, <1>6 DEF Loop

LEMMA OthersPreserveTypes == TInv /\ (Callers \/ WakeSpuriously) => TInv'
<1> SUFFICES ASSUME TInv, Callers \/ WakeSpuriously PROVE TInv'
  OBVIOUS
<1> USE DEF TInv, TypeOK, BelowThreshold, Consistent, WorkerPoints, ReadPoints
<1>1. CASE Callers
  <2>1. PICK c \in Commands : AddEvent(c)
    BY <1>1 DEF Callers
  <2>2. /\ issued' \in 0 .. MaxCommands
        /\ events' \in Seq(Commands)
        /\ wpc' = IF wpc = "asleep" THEN "wait" ELSE wpc
        /\ UNCHANGED <<cmd, flags, handle, frame, seeking, report, stream, listening>>
    BY <2>1, ReaderConstants DEF AddEvent
  <2> QED
    BY <2>2
<1>2. CASE WakeSpuriously
  BY <1>2 DEF WakeSpuriously
<1> QED
  BY <1>1, <1>2

LEMMA StepPreservesTypes == TInv /\ [Next]_vars => TInv'
<1> SUFFICES ASSUME TInv, [Next]_vars PROVE TInv'
  OBVIOUS
<1>1. CASE Next
  BY <1>1, ReadFramePreservesTypes, ExecutePreservesTypes, SetPositionPreservesTypes,
     LoopPreservesTypes, OthersPreserveTypes DEF Next, Worker
<1>2. CASE UNCHANGED vars
  BY <1>2 DEF TInv, TypeOK, BelowThreshold, Consistent
<1> QED
  BY <1>1, <1>2

(* Types, for every file and any number of commands: positions stay within  *)
(* the film, whatever was asked for, and the packet counters of the queue   *)
(* within the file (reader_impl.cpp, demuxer_queue.cpp).                    *)
THEOREM TypeCorrect == Spec => []TypeOK
<1>1. TInv => TypeOK
  BY DEF TInv
<1> QED
  BY InitImpliesTypes, StepPreservesTypes, <1>1, PTL DEF Spec

----------------------------------------------------------------------------
(* Even films: no packet is damaged, and all frames but the last, whose     *)
(* length depends on the duration of the stream, are of equal length.       *)

EvenFilm ==
  /\ Damaged = {}
  /\ \A i, j \in Packets :
       i < Len(Ts) /\ j < Len(Ts) => PacketDuration(i) = PacketDuration(j)

(* While set_position_impl looks for its frame, the stream stands at the    *)
(* start of the frame the next read returns, and the duration remembered    *)
(* from the key packet is that frame's; the loop ends at the frame that     *)
(* covers the position.                                                     *)
SeekInv ==
  /\ stream.held \in {0, stream.read}
  /\ wpc \in {"skim", "skim-read", "land"} =>
       /\ First(stream) \in Packets
       /\ stream.position = Ts[First(stream)]
       /\ First(stream) < Len(Ts) => pktDuration = PacketDuration(First(stream))
  /\ wpc = "land" => AtTarget
  /\ wpc = "landed" => Covers(last, target)

(* A read moves the chain on by one packet.                                 *)
LEMMA ReadOfEvenFilm ==
  ASSUME EvenFilm, TInv, stream.held \in {0, stream.read}, ReadValid
  PROVE  /\ First(stream) \in Packets /\ First(stream) < Len(Ts)
         /\ First(stream) = IF stream.held = 0 THEN stream.read + 1 ELSE stream.held
         /\ stream'.held = First(stream) + 1 /\ stream'.read = First(stream) + 1
         /\ stream'.position = Ts[First(stream) + 1]
         /\ First(stream') = First(stream) + 1 /\ First(stream') \in Packets
         /\ last' = FrameOf(stream)
         /\ last'.ts = Ts[First(stream)]
         /\ last'.duration = Ts[First(stream) + 1] - Ts[First(stream)]
<1>1. /\ ~StreamEnds(stream) /\ ~NullPacketIsUsed(stream)
      /\ stream' = AfterFrame(stream) /\ last' = FrameOf(stream)
  BY DEF ReadValid
<1>2. /\ First(stream) = IF stream.held = 0 THEN stream.read + 1 ELSE stream.held
      /\ Second(stream) = First(stream) + 1
      /\ First(stream) \in Packets /\ Second(stream) \in Packets
  BY <1>1, FrameUndamaged DEF EvenFilm, TInv
<1>3. First(stream) < Len(Ts) /\ First(stream) + 1 # 0
  BY <1>2, FileFacts DEF Packets
<1>4. /\ stream'.held = Second(stream) /\ stream'.read = Second(stream)
      /\ stream'.position = Ts[Second(stream)]
  BY <1>1 DEF AfterFrame
<1>5. First(stream') = Second(stream)
  BY <1>2, <1>3, <1>4 DEF First
<1>6. /\ last'.ts = Ts[First(stream)]
      /\ last'.duration = Ts[Second(stream)] - Ts[First(stream)]
  BY <1>1 DEF FrameOf
<1> QED
  BY <1>1, <1>2, <1>3, <1>4, <1>5, <1>6

LEMMA SeekOfEvenFilm ==
  ASSUME EvenFilm, TInv, Seek
  PROVE  /\ stream'.held = 0 /\ wpc' = "skim"
         /\ First(stream') \in Packets
         /\ stream'.position = Ts[First(stream')]
         /\ pktDuration' = PacketDuration(First(stream'))
<1> DEFINE pos == Clamped(Destination)
<1>1. /\ pos \in Nat /\ pos < Duration /\ KeyBefore(pos) # 0
      /\ stream' \in SeekResults(stream, pos)
      /\ pktDuration' = PacketDuration(KeyBefore(pos)) /\ wpc' = "skim"
  BY DestinationType DEF Seek, TInv
<1> HIDE DEF pos
<1>2. /\ KeyBefore(pos) \in Packets
      /\ stream'.held = 0 /\ stream'.read = KeyBefore(pos) - 1
      /\ stream'.position = Ts[KeyBefore(pos)]
  BY <1>1, SeekType DEF TInv
<1>3. KeyBefore(pos) - 1 \in 0 .. Len(Ts)
  BY <1>2, FileFacts DEF Packets
<1>4. First(stream') = KeyBefore(pos)
  <2>1. NextGood(KeyBefore(pos) - 1) = (KeyBefore(pos) - 1) + 1
    BY <1>3, NextGoodUndamaged DEF EvenFilm
  <2>2. KeyBefore(pos) \in Int
    BY <1>2 DEF Packets
  <2> QED
    BY <1>2, <2>1, <2>2 DEF First
<1> QED
  BY <1>1, <1>2, <1>4

(* The steps that neither read nor move between the parts of set_position.  *)
Elsewhere ==
  /\ UNCHANGED <<stream, last, prevDuration, shown, invalid, pktDuration>>
  /\ wpc' \in {"skim", "skim-read", "land", "landed"} =>
       /\ wpc' = wpc \/ (wpc = "skim" /\ wpc' = "skim-read")
       /\ UNCHANGED <<cmd, target, state, needStop, skip>>
  /\ wpc = "skim" /\ wpc' = "top" => NeedBreak
  /\ wpc \in {"crashed", "finish", "ended"} => wpc' \in {"crashed", "finish", "ended"}
  /\ wpc \in {"skim-read", "land"} => wpc' \in {wpc, "crashed", "finish"}
  /\ wpc = "skim" => wpc' \in {"skim", "skim-read", "top"}

LEMMA StepKinds ==
  ASSUME [Next]_vars, wpc \in WorkerPoints
  PROVE  ReadValid \/ ReadInvalid \/ Seek \/ Land \/ Elsewhere
<1> USE DEF Elsewhere, WorkerPoints, ReadPoints
<1>1. CASE Execute
  BY <1>1 DEF Execute, Play, Pause, Stop, StepForward, StepBackwardRefused,
              PositionUnknown, OverTheEnd, SeekFails, Reposition, Take
<1>2. CASE ReadFrame
  BY <1>2 DEF ReadFrame, ReadCrashes, ReadThrows
<1>3. CASE SetPosition
  BY <1>3 DEF SetPosition, SkimOn, SkimBroken, Landed
<1>4. CASE Loop
  BY <1>4 DEF Loop, NoEvent, Check, Block, GoOn, LeaveLoop, Finish, SetState
<1>5. CASE Callers
  BY <1>5 DEF Callers, AddEvent, Executing
<1>6. CASE WakeSpuriously
  BY <1>6 DEF WakeSpuriously
<1>7. CASE UNCHANGED vars
  BY <1>7
<1> QED
  BY <1>1, <1>2, <1>3, <1>4, <1>5, <1>6, <1>7 DEF Next, Worker

LEMMA StepPreservesSeekInv ==
  ASSUME EvenFilm, TInv, SeekInv, [Next]_vars
  PROVE  SeekInv'
<1>0. wpc \in WorkerPoints
  BY DEF TInv, TypeOK
<1>1. CASE ReadValid
  <2> DEFINE f == First(stream)
  <2>1. /\ f \in Packets /\ f < Len(Ts)
        /\ stream'.held = f + 1 /\ stream'.read = f + 1
        /\ stream'.position = Ts[f + 1]
        /\ First(stream') = f + 1 /\ f + 1 \in Packets
        /\ last'.ts = Ts[f] /\ last'.duration = Ts[f + 1] - Ts[f]
    BY <1>1, ReadOfEvenFilm DEF SeekInv
  <2>2. /\ wpc \in ReadPoints
        /\ wpc' \in {"top", "skim", "landed"}
        /\ wpc' = "skim" => wpc = "skim-read"
        /\ wpc' = "landed" => wpc = "land"
        /\ UNCHANGED <<target, pktDuration>>
    <3>1. /\ wpc = "read" => wpc' = "top"
          /\ wpc = "step" => wpc' = "top"
          /\ wpc = "skim-read" => wpc' = "skim"
          /\ wpc = "land" => wpc' = "landed"
          /\ wpc \in ReadPoints
          /\ UNCHANGED <<target, pktDuration>>
      BY <1>1 DEF ReadValid, Return
    <3> QED
      BY <3>1 DEF ReadPoints
  <2>3. ASSUME wpc \in {"skim-read", "land"}
        PROVE  /\ stream.position = Ts[f] /\ pktDuration = Ts[f + 1] - Ts[f]
               /\ f + 1 < Len(Ts) => pktDuration' = PacketDuration(f + 1)
    <3>1. stream.position = Ts[f] /\ pktDuration = PacketDuration(f)
      BY <2>1, <2>3 DEF SeekInv
    <3>2. PacketDuration(f) = Ts[f + 1] - Ts[f]
      BY <2>1 DEF PacketDuration, End
    <3>3. f + 1 < Len(Ts) => PacketDuration(f + 1) = PacketDuration(f)
      BY <2>1 DEF EvenFilm
    <3> QED
      BY <2>2, <3>1, <3>2, <3>3
  <2>4. wpc' = "landed" => Covers(last', target')
    <3> SUFFICES ASSUME wpc = "land" PROVE Covers(last', target')
      BY <2>2
    <3>1. stream.position <= target /\ stream.position + pktDuration > target
      BY DEF SeekInv, AtTarget
    <3>2. Ts[f] \in Int /\ Ts[f + 1] \in Int /\ target \in Int
      BY <2>1, FileFacts, FileIsOrdered DEF TInv, TypeOK
    <3>3. Ts[f] <= target /\ target < Ts[f] + (Ts[f + 1] - Ts[f])
      BY <2>3, <3>1, <3>2
    <3> QED
      BY <2>1, <2>2, <3>3 DEF Covers
  <2> HIDE DEF f
  <2> QED
    BY <2>1, <2>2, <2>3, <2>4 DEF SeekInv
<1>2. CASE ReadInvalid
  <2>1. /\ wpc \in ReadPoints /\ StreamEnds(stream) /\ stream' = AfterNothing(stream)
        /\ Return
    BY <1>2 DEF ReadInvalid
  <2>2. stream'.held = 0
    BY <2>1, NothingType DEF TInv
  <2>3. ~(First(stream) \in Packets)
    BY <2>1, FileFacts DEF StreamEnds, Packets
  <2>4. wpc \notin {"skim-read", "land"}
    BY <2>3 DEF SeekInv
  <2>5. /\ wpc = "read" => wpc' = "top"
        /\ wpc = "step" => wpc' = "top"
    BY <2>1 DEF Return
  <2>6. wpc' = "top"
    BY <2>1, <2>4, <2>5 DEF ReadPoints
  <2> QED
    BY <2>2, <2>6 DEF SeekInv
<1>3. CASE Seek
  BY <1>3, SeekOfEvenFilm DEF SeekInv
<1>4. CASE Land
  <2>1. wpc = "skim" /\ wpc' = "land" /\ AtTarget /\ UNCHANGED <<stream, target, pktDuration>>
    BY <1>4 DEF Land
  <2>2. AtTarget' /\ First(stream') = First(stream)
    BY <2>1 DEF AtTarget
  <2> QED
    BY <2>1, <2>2 DEF SeekInv
<1>5. CASE Elsewhere
  <2>1. First(stream') = First(stream) /\ UNCHANGED <<stream, last, pktDuration>>
    BY <1>5 DEF Elsewhere
  <2>2. CASE wpc' \in {"skim", "skim-read", "land", "landed"}
    <3>1. /\ wpc' = wpc \/ (wpc = "skim" /\ wpc' = "skim-read")
          /\ UNCHANGED target
      BY <1>5, <2>2 DEF Elsewhere
    <3>2. AtTarget' = AtTarget /\ Covers(last', target') = Covers(last, target)
      BY <2>1, <3>1 DEF AtTarget, Covers
    <3> QED
      BY <2>1, <3>1, <3>2 DEF SeekInv
  <2>3. CASE wpc' \notin {"skim", "skim-read", "land", "landed"}
    BY <2>1, <2>3 DEF SeekInv
  <2> QED
    BY <2>2, <2>3
<1> QED
  BY <1>0, <1>1, <1>2, <1>3, <1>4, <1>5, StepKinds

(* set_position on an even film, for every film and position: when the      *)
(* command is done the reader's last frame covers the position asked for,   *)
(* wherever the parser landed and however many batches were read            *)
(* (reader_impl.cpp, set_position_impl).                                    *)
THEOREM SeeksEndOnTarget ==
  ASSUME EvenFilm
  PROVE  Spec => []SeekEndsOnTarget
<1>1. Init => SeekInv
  BY DEF Init, SeekInv, Opened
<1>2. TInv /\ SeekInv /\ [Next]_vars => SeekInv'
  BY StepPreservesSeekInv
<1>3. SeekInv => SeekEndsOnTarget
  BY DEF SeekInv, SeekEndsOnTarget
<1> QED
  BY InitImpliesTypes, StepPreservesTypes, <1>1, <1>2, <1>3, PTL DEF Spec

(* While frames are shown as they are read, the observers have the reader's *)
(* last frame, and the decoder holds the frame after it; no frame of an     *)
(* even film is invalid, so that no command breaks off.                     *)
Shows == {"top", "wait", "block", "asleep", "go", "read", "step", "landed"}

PlayInv ==
  /\ invalid = 0
  /\ wpc \in {"skim", "skim-read"} => skip /\ ~needStop /\ state # "Error"
  /\ wpc \in Shows =>
       /\ shown = last
       /\ last = NoFrame => stream.read = 0 /\ stream.held = 0
       /\ last # NoFrame => /\ stream.held # 0
                            /\ last.ts + last.duration = Ts[stream.held]

LEMMA NoReadIsInvalid ==
  ASSUME TInv, SeekInv, PlayInv
  PROVE  ~ReadInvalid
<1> SUFFICES ASSUME ReadInvalid PROVE FALSE
  OBVIOUS
<1>1. wpc \in ReadPoints /\ StreamEnds(stream) /\ last # NoFrame
  BY DEF ReadInvalid
<1>2. First(stream) \notin Packets
  BY <1>1, FileFacts DEF StreamEnds, Packets
<1>3. wpc \in {"read", "step"}
  BY <1>1, <1>2 DEF SeekInv, ReadPoints
<1>4. stream.held # 0 /\ stream.held \in 0 .. Len(Ts)
  BY <1>1, <1>3 DEF PlayInv, Shows, TInv, Consistent, Streams
<1>5. First(stream) = stream.held /\ stream.held \in Packets
  BY <1>4, FileFacts DEF First, Packets
<1> QED
  BY <1>2, <1>5

(* What a read shows.                                                       *)
LEMMA ReadShows ==
  ASSUME EvenFilm, Mode = "All", IInv, TInv, SeekInv, PlayInv, ReadValid
  PROVE  /\ PlayInv'
         /\ shown' # shown =>
              IF wpc = "land" THEN Covers(shown', target)
              ELSE IF shown = NoFrame THEN IsFirst(shown')
              ELSE IsNext(shown, shown')
<1> DEFINE f == First(stream)
<1>1. /\ f \in Packets /\ f < Len(Ts)
      /\ f = IF stream.held = 0 THEN stream.read + 1 ELSE stream.held
      /\ stream'.held = f + 1
      /\ last' = FrameOf(stream)
      /\ last'.ts = Ts[f] /\ last'.duration = Ts[f + 1] - Ts[f]
  BY ReadOfEvenFilm DEF SeekInv
<1>2. /\ wpc \in ReadPoints /\ invalid' = 0
      /\ shown' = IF NeedHandle /\ listening THEN FrameOf(stream) ELSE shown
      /\ wpc = "read" => wpc' = "top"
      /\ wpc = "step" => wpc' = "top"
      /\ wpc = "skim-read" => wpc' = "skim"
      /\ wpc = "land" => wpc' = "landed"
      /\ UNCHANGED <<needStop, state, skip, target>>
  BY DEF ReadValid, Return
<1>3. f \in Nat /\ Ts[f] \in Int /\ Ts[f + 1] \in Int
  BY <1>1, FileFacts DEF Packets
<1>4. last' # NoFrame /\ last'.ts + last'.duration = Ts[stream'.held] /\ stream'.held # 0
  <2>1. Ts[f] # -1
    BY <1>1, FileFacts
  <2> QED
    BY <1>1, <1>3, <2>1 DEF NoFrame
<1>5. CASE wpc = "skim-read"
  <2>1. skip /\ ~needStop /\ state # "Error"
    BY <1>5 DEF PlayInv
  <2>2. shown' = shown
    BY <1>2, <2>1 DEF NeedHandle
  <2> QED
    BY <1>2, <1>5, <2>1, <2>2 DEF PlayInv, Shows
<1>6. CASE wpc # "skim-read"
  <2>1. wpc \in {"read", "step", "land"} /\ wpc' \in {"top", "landed"}
    BY <1>2, <1>6 DEF ReadPoints
  <2>2. listening /\ ~skip
    BY <2>1 DEF IInv, Switched
  <2>3. shown' = last'
    BY <1>1, <1>2, <2>2 DEF NeedHandle
  <2>4. PlayInv'
    BY <1>2, <1>4, <2>1, <2>3 DEF PlayInv
  <2>5. wpc = "land" => Covers(shown', target)
    <3> SUFFICES ASSUME wpc = "land" PROVE Covers(shown', target)
      OBVIOUS
    <3>1. SeekInv'
      BY StepPreservesSeekInv DEF Next, Worker, ReadFrame
    <3> QED
      BY <1>2, <2>3, <3>1 DEF SeekInv
  <2>6. wpc # "land" =>
          IF shown = NoFrame THEN IsFirst(shown') ELSE IsNext(shown, shown')
    <3> SUFFICES ASSUME wpc \in {"read", "step"}
                 PROVE  IF shown = NoFrame THEN IsFirst(shown') ELSE IsNext(shown, shown')
      BY <2>1
    <3>1. /\ shown = last
          /\ last = NoFrame => stream.read = 0 /\ stream.held = 0
          /\ last # NoFrame => stream.held # 0 /\ last.ts + last.duration = Ts[stream.held]
      BY DEF PlayInv, Shows
    <3>2. CASE shown = NoFrame
      <4>1. f = 1
        BY <1>1, <3>1, <3>2
      <4>2. NextGood(0) = 0 + 1
        BY NextGoodUndamaged, FileFacts DEF EvenFilm
      <4> QED
        BY <1>1, <2>3, <3>2, <4>1, <4>2 DEF IsFirst
    <3>3. CASE shown # NoFrame
      BY <1>1, <2>3, <3>1, <3>3 DEF IsNext
    <3> QED
      BY <3>2, <3>3
  <2> QED
    BY <2>4, <2>5, <2>6
<1> QED
  BY <1>5, <1>6

LEMMA StepPreservesPlayInv ==
  ASSUME EvenFilm, Mode = "All", IInv, TInv, SeekInv, PlayInv, [Next]_vars
  PROVE  PlayInv'
<1>0. wpc \in WorkerPoints /\ ~ReadInvalid
  BY NoReadIsInvalid DEF TInv, TypeOK
<1>1. CASE ReadValid
  BY <1>1, ReadShows
<1>2. CASE Seek
  BY <1>2 DEF Seek, Reposition, Take, NeedBreak, PlayInv, Shows
<1>3. CASE Land
  BY <1>3 DEF Land, PlayInv, Shows
<1>4. CASE Elsewhere
  <2>1. UNCHANGED <<stream, last, shown, invalid>>
    BY <1>4 DEF Elsewhere
  <2>2. CASE wpc' \in {"skim", "skim-read"}
    <3>1. wpc \in {"skim", "skim-read"} /\ UNCHANGED <<state, needStop, skip>>
      BY <1>4, <2>2 DEF Elsewhere
    <3> QED
      BY <2>1, <2>2, <3>1 DEF PlayInv, Shows
  <2>3. CASE wpc' \in Shows
    <3>1. wpc = "skim" => ~NeedBreak
      BY ReaderConstants DEF PlayInv, NeedBreak
    <3>2. wpc \in Shows
      BY <1>0, <1>4, <2>3, <3>1 DEF Elsewhere, Shows, WorkerPoints, ReadPoints
    <3> QED
      BY <2>1, <2>3, <3>2 DEF PlayInv, Shows
  <2>4. CASE wpc' \notin {"skim", "skim-read"} \cup Shows
    BY <2>1, <2>4 DEF PlayInv
  <2> QED
    BY <2>2, <2>3, <2>4
<1> QED
  BY <1>0, <1>1, <1>2, <1>3, <1>4, StepKinds

(* In mode All the observers of an even film see it frame by frame, for     *)
(* every film, batch size and sequence of commands: a frame they are handed *)
(* is the first one, continues the one before, or is the one a position was *)
(* asked for (reader.cpp, read_frame; reader_impl.cpp, set_position_impl).  *)
THEOREM FramesComeInOrder ==
  ASSUME EvenFilm, Mode = "All"
  PROVE  Spec => FramesInOrder
<1> DEFINE A == shown' # shown =>
                  IF wpc = "land" THEN Covers(shown', target)
                  ELSE IF shown = NoFrame THEN IsFirst(shown')
                  ELSE IsNext(shown, shown')
           Inv == IInv /\ TInv /\ SeekInv /\ PlayInv
<1>1. Init => Inv
  <2>1. Init => SeekInv /\ PlayInv
    BY DEF Init, SeekInv, PlayInv, Opened
  <2> QED
    BY <2>1, InitImpliesInv, InitImpliesTypes
<1>2. Inv /\ [Next]_vars => Inv'
  BY StepPreservesInv, StepPreservesTypes, StepPreservesSeekInv, StepPreservesPlayInv
<1>3. Inv /\ [Next]_vars => [A]_vars
  <2> SUFFICES ASSUME Inv, [Next]_vars, shown' # shown PROVE A
    OBVIOUS
  <2>1. CASE ReadValid
    BY <2>1, ReadShows
  <2>2. CASE Seek \/ Land
    BY <2>2 DEF Seek, Land
  <2>3. CASE Elsewhere
    BY <2>3 DEF Elsewhere
  <2> QED
    BY <2>1, <2>2, <2>3, NoReadIsInvalid, StepKinds DEF TInv, TypeOK
<1>4. [][A]_vars => FramesInOrder
  BY DEF FramesInOrder
<1> HIDE DEF A, Inv
<1> QED
  BY <1>1, <1>2, <1>3, <1>4, PTL DEF Spec

----------------------------------------------------------------------------
(* A step that changes what the observers have been shown reads a frame.    *)
LEMMA OnlyReadsShow ==
  ASSUME TInv, [Next]_vars, shown' # shown
  PROVE  ReadValid
<1>1. ~ReadInvalid /\ ~Seek /\ ~Land /\ ~Elsewhere
  BY DEF ReadInvalid, Seek, Land, Elsewhere
<1> QED
  BY <1>1, StepKinds DEF TInv, TypeOK

(* In mode KeyFrame the frame shown while playing ends where a key packet   *)
(* begins, for every file, damaged or not, and whatever commands came       *)
(* before: neither the flag of a step nor that of a seek is left behind     *)
(* (reader.cpp, need_handle_frame and read_frame).                          *)
THEOREM ShownBeforeKeys == Spec => ShowsFramesBeforeKeys
<1> DEFINE A == wpc = "read" /\ shown' # shown /\ Mode = "KeyFrame" =>
                  \E k \in Keys : Ts[k] = shown'.ts + shown'.duration
           Inv == IInv /\ TInv
<1>1. Inv /\ [Next]_vars => [A]_vars
  <2> SUFFICES ASSUME Inv, [Next]_vars, wpc = "read", shown' # shown, Mode = "KeyFrame"
               PROVE  \E k \in Keys : Ts[k] = shown'.ts + shown'.duration
    OBVIOUS
  <2> DEFINE a == First(stream)
             b == Second(stream)
  <2>1. /\ ~StreamEnds(stream) /\ ~NullPacketIsUsed(stream)
        /\ stream' = AfterFrame(stream)
        /\ shown' = IF NeedHandle /\ listening THEN FrameOf(stream) ELSE shown
    BY OnlyReadsShow DEF ReadValid
  <2>2. NeedHandle /\ ~forced /\ shown' = FrameOf(stream)
    BY <2>1 DEF IInv, Switched
  <2>3. stream'.lastKey
    BY <2>2 DEF NeedHandle
  <2>4. b \in Keys
    BY <2>1, <2>3 DEF AfterFrame
  <2>5. a \in Packets /\ b \in Packets
    BY <2>1, FirstAndSecond DEF TInv
  <2>6. Ts[b] = Ts[a] + (Ts[b] - Ts[a])
    BY <2>5, FileFacts
  <2>7. shown'.ts = Ts[a] /\ shown'.duration = Ts[b] - Ts[a]
    BY <2>2 DEF FrameOf
  <2> QED
    BY <2>4, <2>6, <2>7
<1>2. Inv /\ [Next]_vars => Inv'
  BY StepPreservesInv, StepPreservesTypes
<1>3. [][A]_vars => ShowsFramesBeforeKeys
  BY DEF ShowsFramesBeforeKeys
<1>4. Init => Inv
  BY InitImpliesInv, InitImpliesTypes
<1> HIDE DEF A, Inv
<1> QED
  BY <1>1, <1>2, <1>3, <1>4, PTL DEF Spec

----------------------------------------------------------------------------
(* Steps back.  The reader has no index of the frames, only the duration of *)
(* the frame before the last; while it looks for the frame to step back to, *)
(* the observers have the one it steps back from.                           *)

FrameAt(i) == [ts |-> Ts[i], duration |-> PacketDuration(i)]

BackInv ==
  /\ wpc \in {"skim", "skim-read", "land"} => last # NoFrame
  /\ last = NoFrame => prevDuration = 0
  /\ last # NoFrame => \E i \in Packets :
       /\ i < Len(Ts) /\ last = FrameAt(i)
       /\ prevDuration = last.duration \/ (prevDuration = 0 /\ i = 1)
  /\ wpc \in {"skim", "skim-read", "land"} /\ cmd.type = "StepBackward" => \E i \in Packets :
       /\ i < Len(Ts) /\ shown = FrameAt(i)
       /\ target = Ts[IF i = 1 THEN 1 ELSE i - 1]

(* Where a packet that is not the last ends.                                *)
LEMMA PacketEnds ==
  ASSUME NEW i \in Packets, i < Len(Ts)
  PROVE  /\ i + 1 \in Packets /\ Ts[i] \in Nat /\ Ts[i + 1] \in Nat /\ Ts[i] < Ts[i + 1]
         /\ PacketDuration(i) = Ts[i + 1] - Ts[i]
<1>1. i \in Nat /\ i + 1 \in Packets
  BY FileFacts DEF Packets
<1>2. i < i + 1
  BY <1>1
<1> QED
  BY <1>1, <1>2, FileFacts DEF PacketDuration, End

(* The position a step back asks for, if the seek finds a key packet: the   *)
(* start of the frame before the last, or of the first frame.               *)
LEMMA StepBackTarget ==
  ASSUME EvenFilm, TInv, BackInv, Seek, cmd'.type = "StepBackward"
  PROVE  \E i \in Packets : /\ i < Len(Ts) /\ last = FrameAt(i)
                            /\ target' = Ts[IF i = 1 THEN 1 ELSE i - 1]
<1> DEFINE pos == Clamped(Destination)
<1>1. /\ last # NoFrame /\ pos \in Nat /\ KeyBefore(pos) # 0 /\ target' = pos
  BY DestinationType DEF Seek, TInv
<1>2. PICK i \in Packets :
        /\ i < Len(Ts) /\ last = FrameAt(i)
        /\ prevDuration = last.duration \/ (prevDuration = 0 /\ i = 1)
  BY <1>1 DEF BackInv
<1>3. Destination = Ts[i] - prevDuration
  BY <1>2 DEF Destination, FrameAt
<1>4. /\ i \in Nat /\ 1 <= i /\ Ts[i] \in Nat /\ Ts[i + 1] \in Nat /\ Ts[i] < Ts[i + 1]
      /\ last.duration = Ts[i + 1] - Ts[i]
  BY <1>2, PacketEnds DEF FrameAt, Packets
<1>5. CASE prevDuration = 0 /\ i = 1
  <2>1. pos = Ts[1]
    BY <1>3, <1>4, <1>5 DEF Clamped
  <2> QED
    BY <1>1, <1>2, <1>5, <2>1
<1>6. CASE prevDuration = last.duration /\ i # 1
  <2>1. i - 1 \in Packets /\ i - 1 < Len(Ts) /\ (i - 1) + 1 = i
    BY <1>2, <1>4, <1>6, FileFacts DEF Packets
  <2>2. PacketDuration(i - 1) = PacketDuration(i)
    BY <1>2, <2>1 DEF EvenFilm
  <2>3. Ts[i - 1] \in Nat /\ Ts[i] - Ts[i - 1] = Ts[i + 1] - Ts[i]
    BY <1>2, <2>1, <2>2, PacketEnds
  <2>4. pos = Ts[i - 1]
    BY <1>3, <1>4, <1>6, <2>3 DEF Clamped
  <2> QED
    BY <1>1, <1>2, <1>6, <2>4
<1>7. CASE prevDuration = last.duration /\ i = 1
  <2> DEFINE k == KeyBefore(pos)
  <2>1. k \in Packets /\ Ts[k] <= pos
    <3>1. pos \in Int
      BY <1>1
    <3> HIDE DEF pos
    <3> QED
      BY <1>1, <3>1, KeyBeforeIsLatest, FileIsOrdered
  <2>2. Ts[1] <= Ts[k]
    <3>1. k \in Nat /\ 1 <= k /\ 1 \in Packets
      BY <1>7, <1>2, <2>1 DEF Packets
    <3>2. k = 1 \/ 1 < k
      BY <3>1
    <3> HIDE DEF k
    <3> QED
      BY <2>1, <3>1, <3>2, FileFacts
  <2>3. Ts[k] \in Nat
    BY <2>1, FileFacts
  <2>4. pos = Ts[1]
    <3> HIDE DEF k
    <3>1. Ts[1] <= pos
      BY <1>1, <1>4, <1>7, <2>1, <2>2, <2>3
    <3>2. pos = IF Destination < 0 THEN 0 ELSE Destination
      BY DEF Clamped
    <3> HIDE DEF pos
    <3> QED
      BY <1>1, <1>3, <1>4, <1>7, <3>1, <3>2
  <2> QED
    BY <1>1, <1>2, <1>7, <2>4
<1> QED
  BY <1>2, <1>5, <1>6, <1>7

(* What a read remembers.                                                   *)
LEMMA ReadRemembers ==
  ASSUME EvenFilm, IInv, TInv, SeekInv, PlayInv, BackInv, ReadValid
  PROVE  /\ First(stream) \in Packets /\ First(stream) < Len(Ts)
         /\ last' = FrameAt(First(stream)) /\ last' # NoFrame
         /\ prevDuration' = last'.duration \/ (prevDuration' = 0 /\ First(stream) = 1)
<1> DEFINE f == First(stream)
<1>1. /\ f \in Packets /\ f < Len(Ts)
      /\ f = IF stream.held = 0 THEN stream.read + 1 ELSE stream.held
      /\ last' = FrameOf(stream)
      /\ last'.ts = Ts[f] /\ last'.duration = Ts[f + 1] - Ts[f]
  BY ReadOfEvenFilm DEF SeekInv
<1>2. prevDuration' = last.duration /\ wpc \in ReadPoints
  BY DEF ReadValid
<1>3. PacketDuration(f) = Ts[f + 1] - Ts[f] /\ Ts[f] \in Nat
  BY <1>1, PacketEnds
<1>4. last' = FrameAt(f) /\ last' # NoFrame
  <2>1. FrameOf(stream) = [ts |-> last'.ts, duration |-> last'.duration]
    BY <1>1 DEF FrameOf
  <2>2. Ts[f] # -1
    BY <1>3
  <2> QED
    BY <1>1, <1>3, <2>1, <2>2 DEF FrameAt, NoFrame
<1>5. CASE last = NoFrame
  <2>1. wpc \in {"read", "step"}
    BY <1>2, <1>5 DEF BackInv, ReadPoints
  <2>2. stream.read = 0 /\ stream.held = 0
    BY <1>5, <2>1 DEF PlayInv, Shows
  <2>3. prevDuration' = 0 /\ f = 1
    BY <1>1, <1>2, <1>5, <2>2 DEF NoFrame
  <2> QED
    BY <1>1, <1>4, <2>3
<1>6. CASE last # NoFrame
  <2>1. PICK i \in Packets : i < Len(Ts) /\ last = FrameAt(i)
    BY <1>6 DEF BackInv
  <2>2. PacketDuration(i) = PacketDuration(f)
    BY <1>1, <2>1 DEF EvenFilm
  <2>3. prevDuration' = last'.duration
    BY <1>2, <1>4, <2>1, <2>2 DEF FrameAt
  <2> QED
    BY <1>1, <1>4, <2>3
<1> QED
  BY <1>5, <1>6

LEMMA StepPreservesBackInv ==
  ASSUME EvenFilm, IInv, TInv, SeekInv, PlayInv, BackInv, [Next]_vars
  PROVE  BackInv'
<1>0. wpc \in WorkerPoints /\ ~ReadInvalid
  BY NoReadIsInvalid DEF TInv, TypeOK
<1>1. CASE ReadValid
  <2> DEFINE f == First(stream)
  <2>1. /\ f \in Packets /\ f < Len(Ts) /\ last' = FrameAt(f) /\ last' # NoFrame
        /\ prevDuration' = last'.duration \/ (prevDuration' = 0 /\ f = 1)
    BY <1>1, ReadRemembers
  <2>2. /\ wpc \in ReadPoints
        /\ shown' = IF NeedHandle /\ listening THEN FrameOf(stream) ELSE shown
        /\ wpc = "read" => wpc' = "top"
        /\ wpc = "step" => wpc' = "top"
        /\ wpc = "skim-read" => wpc' = "skim"
        /\ wpc = "land" => wpc' = "landed"
        /\ UNCHANGED <<cmd, target>>
    BY <1>1 DEF ReadValid, Return
  <2>3. wpc' \in {"skim", "skim-read", "land"} => wpc = "skim-read"
    BY <2>2 DEF ReadPoints
  <2>4. wpc = "skim-read" => shown' = shown
    BY <2>2 DEF NeedHandle, PlayInv
  <2> HIDE DEF f
  <2>5. ~(last' = NoFrame)
    BY <2>1
  <2> QED
    BY <2>1, <2>2, <2>3, <2>4, <2>5 DEF BackInv, FrameAt
<1>2. CASE Seek
  <2>1. /\ last # NoFrame /\ UNCHANGED <<last, prevDuration, shown>>
        /\ wpc = "top" /\ wpc' = "skim"
    BY <1>2, DestinationType DEF Seek, TInv
  <2>2. shown = last
    BY <2>1 DEF PlayInv, Shows
  <2>3. cmd'.type = "StepBackward" => \E i \in Packets :
          i < Len(Ts) /\ last = FrameAt(i) /\ target' = Ts[IF i = 1 THEN 1 ELSE i - 1]
    BY <1>2, StepBackTarget
  <2> QED
    BY <2>1, <2>2, <2>3 DEF BackInv, FrameAt
<1>3. CASE Land
  BY <1>3 DEF Land, BackInv, FrameAt
<1>4. CASE Elsewhere
  <2>1. UNCHANGED <<last, prevDuration, shown>>
    BY <1>4 DEF Elsewhere
  <2>2. wpc' \in {"skim", "skim-read", "land"} =>
          wpc \in {"skim", "skim-read", "land"} /\ UNCHANGED <<cmd, target>>
    BY <1>4 DEF Elsewhere
  <2> QED
    BY <2>1, <2>2 DEF BackInv, FrameAt
<1> QED
  BY <1>0, <1>1, <1>2, <1>3, <1>4, StepKinds

(* On an even film step_backward shows the frame before the one shown, or   *)
(* the first one again, whatever was played, sought or stepped to before:   *)
(* m_prev_duration, which seeks leave alone, is the length of every frame   *)
(* (reader_impl.cpp, step_backward_impl and set_position_impl).             *)
THEOREM StepsBackAreRight ==
  ASSUME EvenFilm, Mode = "All"
  PROVE  Spec => StepsBackOneFrame
<1> DEFINE A == wpc = "land" /\ wpc' = "landed" /\ cmd.type = "StepBackward" =>
                  IsNext(shown', shown) \/ (shown' = shown /\ IsFirst(shown))
           Inv == IInv /\ TInv /\ SeekInv /\ PlayInv /\ BackInv
<1>1. Init => Inv
  <2>1. Init => SeekInv /\ PlayInv /\ BackInv
    BY DEF Init, SeekInv, PlayInv, BackInv, Opened
  <2> QED
    BY <2>1, InitImpliesInv, InitImpliesTypes
<1>2. Inv /\ [Next]_vars => Inv'
  BY StepPreservesInv, StepPreservesTypes, StepPreservesSeekInv, StepPreservesPlayInv,
     StepPreservesBackInv
<1>3. Inv /\ [Next]_vars => [A]_vars
  <2> SUFFICES ASSUME Inv, [Next]_vars, wpc = "land", wpc' = "landed",
                      cmd.type = "StepBackward"
               PROVE  IsNext(shown', shown) \/ (shown' = shown /\ IsFirst(shown))
    OBVIOUS
  <2> DEFINE f == First(stream)
  <2>1. ReadValid
    <3>1. ~ReadInvalid /\ ~Seek /\ ~Land /\ ~Elsewhere
      BY NoReadIsInvalid DEF Seek, Land, Elsewhere
    <3> QED
      BY <3>1, StepKinds DEF TInv, TypeOK
  <2>2. f \in Packets /\ f < Len(Ts) /\ last' = FrameAt(f) /\ UNCHANGED target
    BY <2>1, ReadRemembers DEF ReadValid, Return
  <2>3. shown' = last' /\ Covers(last', target')
    <3>1. PlayInv' /\ SeekInv'
      BY StepPreservesPlayInv, StepPreservesSeekInv
    <3> QED
      BY <3>1 DEF PlayInv, SeekInv, Shows
  <2>4. PICK i \in Packets : /\ i < Len(Ts) /\ shown = FrameAt(i)
                             /\ target = Ts[IF i = 1 THEN 1 ELSE i - 1]
    BY DEF BackInv
  <2> DEFINE j == IF i = 1 THEN 1 ELSE i - 1
  <2>5. j \in Packets /\ i \in Nat /\ f \in Nat /\ j \in Nat /\ f + 1 \in Packets
    BY <2>2, <2>4 DEF Packets
  <2>6. Ts[f] <= Ts[j] /\ Ts[j] < Ts[f + 1]
    <3>1. Ts[f] \in Nat /\ Ts[f + 1] \in Nat /\ PacketDuration(f) = Ts[f + 1] - Ts[f]
      BY <2>2, PacketEnds
    <3>2. Ts[f] <= Ts[j] /\ Ts[j] < Ts[f] + PacketDuration(f)
      BY <2>2, <2>3, <2>4 DEF Covers, FrameAt
    <3> HIDE DEF f
    <3>3. Ts[j] \in Nat
      BY <2>5, FileFacts
    <3> QED
      BY <3>1, <3>2, <3>3
  <2>7. f = j
    <3> HIDE DEF f, j
    <3>1. \A a, b \in Packets : a < b => Ts[a] < Ts[b] /\ Ts[a] \in Nat /\ Ts[b] \in Nat
      BY FileFacts
    <3>2. ~(j < f)
      BY <2>5, <2>6, <2>2, <3>1
    <3>3. ~(f + 1 < j)
      BY <2>5, <2>6, <3>1
    <3>4. Ts[j] \in Nat
      BY <2>5, FileFacts
    <3>5. f + 1 # j
      BY <2>6, <3>4
    <3> QED
      BY <2>5, <3>2, <3>3, <3>5
  <2>8. CASE i = 1
    <3>1. shown' = shown
      BY <2>2, <2>3, <2>4, <2>7, <2>8
    <3>2. NextGood(0) = 0 + 1
      BY NextGoodUndamaged, FileFacts DEF EvenFilm
    <3>3. IsFirst(shown)
      BY <2>4, <2>8, <3>2 DEF IsFirst, FrameAt
    <3> QED
      BY <3>1, <3>3
  <2>9. CASE i # 1
    <3>1. f + 1 = i
      BY <2>5, <2>7, <2>9
    <3>2. Ts[f] + PacketDuration(f) = Ts[f + 1]
      BY <2>2, PacketEnds
    <3> QED
      BY <2>2, <2>3, <2>4, <3>1, <3>2 DEF IsNext, FrameAt
  <2> QED
    BY <2>8, <2>9
<1>4. [][A]_vars => StepsBackOneFrame
  BY DEF StepsBackOneFrame
<1> HIDE DEF A, Inv
<1> QED
  BY <1>1, <1>2, <1>3, <1>4, PTL DEF Spec

----------------------------------------------------------------------------
(* Every command comes to its end.  Three numbers tell how far set_position *)
(* is from there: how many packets are left, how many frames may still be   *)
(* invalid, and what is left of the turn.                                   *)

Skimming == wpc \in {"skim", "skim-read"}

PacketsToGo == IF Skimming THEN Len(Ts) + 1 - stream.read ELSE 0
InvalidToGo == IF Skimming THEN Threshold + 1 - invalid ELSE 0
StepsToGo == IF wpc \in {"skim", "land"} THEN 1 ELSE 0

(* The three as one, and when it is nearer to the end.                      *)
Distance == <<PacketsToGo, <<InvalidToGo, StepsToGo>>>>
Distances == Nat \X (Nat \X Nat)
Below == OpToRel(<, Nat)
Nearer == LexPairOrdering(Below, LexPairOrdering(Below, Below, Nat, Nat), Nat, Nat \X Nat)

(* No distance becomes nearer for ever: the loop of set_position_impl, which*)
(* reads on until a frame is at its target, has an end.                     *)
THEOREM NearerEnds == IsWellFoundedOn(Nearer, Distances)
<1>1. IsWellFoundedOn(Below, Nat)
  BY NatLessThanWellFounded DEF Below
<1>2. IsWellFoundedOn(LexPairOrdering(Below, Below, Nat, Nat), Nat \X Nat)
  BY <1>1, WFLexPairOrdering
<1> QED
  BY <1>1, <1>2, WFLexPairOrdering DEF Nearer, Distances

LEMMA NearerFacts ==
  ASSUME NEW a \in Nat, NEW b \in Nat, NEW c \in Nat,
         NEW x \in Nat, NEW y \in Nat, NEW z \in Nat,
         \/ x < a
         \/ x = a /\ y < b
         \/ x = a /\ y = b /\ z < c
  PROVE  <<<<x, <<y, z>>>>, <<a, <<b, c>>>>>> \in Nearer
<1>1. \A u, v \in Nat : u < v => <<u, v>> \in Below
  BY DEF Below, OpToRel
<1>2. <<y, z>> \in Nat \X Nat /\ <<b, c>> \in Nat \X Nat
  OBVIOUS
<1>3. y < b \/ (y = b /\ z < c)
        => <<<<y, z>>, <<b, c>>>> \in LexPairOrdering(Below, Below, Nat, Nat)
  BY <1>1, <1>2 DEF LexPairOrdering
<1> QED
  BY <1>1, <1>2, <1>3 DEF Nearer, LexPairOrdering

DistanceOK == PacketsToGo \in Nat /\ InvalidToGo \in Nat /\ StepsToGo \in Nat

LEMMA DistanceType == TInv => DistanceOK
<1> SUFFICES ASSUME TInv PROVE DistanceOK
  OBVIOUS
<1>1. /\ Len(Ts) \in Nat /\ Threshold \in Nat /\ invalid \in 0 .. Threshold + 1
      /\ stream.read \in 0 .. Len(Ts)
  BY FileFacts, ReaderConstants DEF TInv, TypeOK, Streams
<1> QED
  BY <1>1 DEF DistanceOK, PacketsToGo, InvalidToGo, StepsToGo

(* A frame read is packets less.                                            *)
LEMMA ReadingProgresses ==
  ASSUME NEW s, Consistent(s), ~StreamEnds(s), ~NullPacketIsUsed(s)
  PROVE  AfterFrame(s).read \in Nat /\ s.read < AfterFrame(s).read
<1>1. /\ s.read \in 0 .. Len(Ts) /\ s.held \in 0 .. Len(Ts) /\ s.held <= s.read
      /\ Len(Ts) \in Nat
  BY FileFacts DEF Consistent, Streams
<1>2. Second(s) \in Nat /\ First(s) \in 0 .. Len(Ts) /\ First(s) < Second(s)
  BY <1>1, FirstAndSecond DEF Packets
<1>3. s.read < Second(s)
  <2>1. CASE s.held # 0
    BY <1>1, <2>1, NextGoodType DEF Second
  <2>2. CASE s.held = 0
    <3>1. s.read < First(s)
      BY <1>1, <2>2, NextGoodType DEF First
    <3> QED
      BY <1>1, <1>2, <3>1
  <2> QED
    BY <2>1, <2>2
<1>4. AfterFrame(s).read = Second(s)
  BY DEF AfterFrame
<1> QED
  BY <1>2, <1>3, <1>4

(* What a step of the worker does to the three numbers.                     *)
LEMMA CommandSteps ==
  ASSUME TInv, Next, Executing, Executing'
  PROVE  \/ PacketsToGo' < PacketsToGo
         \/ PacketsToGo' = PacketsToGo /\ InvalidToGo' < InvalidToGo
         \/ PacketsToGo' = PacketsToGo /\ InvalidToGo' = InvalidToGo /\ StepsToGo' < StepsToGo
<1>1. /\ Len(Ts) \in Nat /\ Threshold \in Nat /\ invalid \in 0 .. Threshold + 1
      /\ stream.read \in 0 .. Len(Ts) /\ Consistent(stream)
  BY FileFacts, ReaderConstants DEF TInv, TypeOK, Streams
<1>2. wpc \in {"step", "skim", "skim-read", "land", "landed"}
  BY DEF Executing
<1>3. CASE SkimOn
  <2>1. wpc = "skim" /\ wpc' = "skim-read" /\ UNCHANGED <<frame, stream>>
    BY <1>3 DEF SkimOn
  <2> QED
    BY <2>1 DEF PacketsToGo, InvalidToGo, StepsToGo, Skimming
<1>4. CASE Land
  <2>1. wpc = "skim" /\ wpc' = "land" /\ PacketsToGo' = 0
    BY <1>4 DEF Land, PacketsToGo, Skimming
  <2>2. PacketsToGo = Len(Ts) + 1 - stream.read
    BY <2>1 DEF PacketsToGo, Skimming
  <2> QED
    BY <1>1, <2>1, <2>2
<1>5. ASSUME ReadValid \/ ReadInvalid, wpc = "land"
      PROVE  PacketsToGo' = PacketsToGo /\ InvalidToGo' = InvalidToGo /\ StepsToGo' < StepsToGo
  <2>1. wpc' = "landed"
    BY <1>5 DEF ReadValid, ReadInvalid, Return
  <2> QED
    BY <1>5, <2>1 DEF PacketsToGo, InvalidToGo, StepsToGo, Skimming
<1>6. ASSUME ReadValid \/ ReadInvalid, wpc = "step" PROVE FALSE
  BY <1>6 DEF ReadValid, ReadInvalid, Return, Executing
<1>7. ASSUME ReadValid, wpc = "skim-read" PROVE PacketsToGo' < PacketsToGo
  <2>1. /\ wpc' = "skim" /\ stream' = AfterFrame(stream)
        /\ ~StreamEnds(stream) /\ ~NullPacketIsUsed(stream)
    BY <1>7 DEF ReadValid, Return
  <2>2. stream'.read \in Nat /\ stream.read < stream'.read
    BY <1>1, <2>1, ReadingProgresses
  <2>3. PacketsToGo = Len(Ts) + 1 - stream.read /\ PacketsToGo' = Len(Ts) + 1 - stream'.read
    BY <1>7, <2>1 DEF PacketsToGo, Skimming
  <2> QED
    BY <1>1, <2>2, <2>3
<1>8. ASSUME ReadInvalid, wpc = "skim-read"
      PROVE  \/ PacketsToGo' < PacketsToGo
             \/ PacketsToGo' = PacketsToGo /\ InvalidToGo' < InvalidToGo
  <2>1. /\ wpc' = "skim" /\ stream' = AfterNothing(stream) /\ invalid' = invalid + 1
    BY <1>8 DEF ReadInvalid, Return
  <2>2. stream'.read = Len(Ts)
    BY <2>1 DEF AfterNothing
  <2>3. PacketsToGo = Len(Ts) + 1 - stream.read /\ PacketsToGo' = 1
    BY <1>1, <1>8, <2>1, <2>2 DEF PacketsToGo, Skimming
  <2>4. InvalidToGo = Threshold + 1 - invalid /\ InvalidToGo' = Threshold + 1 - (invalid + 1)
    BY <1>8, <2>1 DEF InvalidToGo, Skimming
  <2> QED
    BY <1>1, <2>3, <2>4
<1>9. \/ SkimOn \/ Land
      \/ (ReadValid \/ ReadInvalid) /\ wpc \in {"step", "skim-read", "land"}
  <2>1. ~Callers /\ ~WakeSpuriously /\ ~Loop
    BY <1>2 DEF Callers, AddEvent, Executing, WakeSpuriously, Loop, NoEvent, Check, Block, GoOn,
                LeaveLoop, Finish
  <2>2. ~Execute
    BY <1>2 DEF Execute, Play, Pause, Stop, StepForward, StepBackwardRefused, PositionUnknown,
                OverTheEnd, Seek, SeekFails, Reposition, Take
  <2>3. ~SkimBroken /\ ~Landed /\ ~ReadCrashes /\ ~ReadThrows
    BY DEF SkimBroken, Landed, ReadCrashes, ReadThrows, Executing
  <2>4. ReadValid \/ ReadInvalid => wpc \in {"step", "skim-read", "land"}
    BY <1>2 DEF ReadValid, ReadInvalid, ReadPoints
  <2> QED
    BY <2>1, <2>2, <2>3, <2>4 DEF Next, Worker, ReadFrame, SetPosition
<1> QED
  BY <1>3, <1>4, <1>5, <1>6, <1>7, <1>8, <1>9

LEMMA StepsNearer ==
  ASSUME TInv, Next, Executing, Executing'
  PROVE  <<Distance', Distance>> \in Nearer
<1>1. TInv'
  BY StepPreservesTypes
<1>2. DistanceOK /\ DistanceOK'
  BY <1>1, DistanceType, PTL
<1> QED
  BY <1>2, CommandSteps, NearerFacts DEF DistanceOK, Distance

(* handle_event keeps m_event_guard: for every file, damaged or not, every  *)
(* step of a command ends it or brings it nearer to its end.  The loop of   *)
(* set_position_impl reads on in the file, and at its end the frames that   *)
(* are not valid are counted up to MAX_INVALID_THRESHOLD, which a valid     *)
(* frame resets but no command does.  What CommandsEnd says beyond that is  *)
(* that the worker is scheduled.                                            *)
THEOREM CommandsComeNearer ==
  Spec => [][Executing /\ Executing' => <<Distance', Distance>> \in Nearer]_vars
<1>1. TInv /\ [Next]_vars
        => [Executing /\ Executing' => <<Distance', Distance>> \in Nearer]_vars
  BY StepsNearer
<1> QED
  BY <1>1, InitImpliesTypes, StepPreservesTypes, PTL DEF Spec
=============================================================================
