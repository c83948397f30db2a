----------------------------- MODULE FrameSource -----------------------------
(***************************************************************************)
(* Who publishes to the observers of module EventHandlers: FakeCamera      *)
(* (src/src/video/camera/camera_fake), whose thread shows the files of a   *)
(* directory once or over and over, or the thread of ReaderFF, which puts  *)
(* its observers aside while it looks for a position and may end there.    *)
(*                                                                         *)
(* One client thread owns the source: it registers observers, starts,      *)
(* stops and destroys it.  The reader's own life is in module Reader.      *)
(***************************************************************************)
EXTENDS EventHandlers

CONSTANTS
  Sources,    (* what sources are looked at                                 *)
  FileCount,  (* files of the directory: 1, 2, ...                          *)
  MaxStarts   (* bound: calls of start                                      *)

ASSUME SourceConstants ==
  /\ Sources \subseteq {"camera", "cyclic", "reader"}
  /\ FileCount \in Nat \ {0} /\ MaxStarts \in Nat

Files == 1 .. FileCount
InOrder == [i \in Files |-> i]

VARIABLES
  source,    (* which source it is; "camera" shows its files once           *)
  frames,    (* m_frames                                                    *)
  retired,   (* m_retired_frames                                            *)
  frame,     (* the frame the thread took last; 0: none                     *)
  streaming, (* m_is_streaming                                              *)
  thread,    (* the thread that publishes; none: m_streamer_thread is not   *)
             (* joinable                                                    *)
  owner,     (* what the client thread does: nothing, waits in stop, in the *)
             (* destructor, in that of the pool; terminate was called       *)
  starts,    (* calls of start so far                                       *)
  halted     (* history: stop has returned, start has not been called since *)

files == <<frames, retired, frame>>
life == <<starts, halted>>
vars == <<eventVars, source, files, streaming, thread, owner, life>>

TypeOK ==
  /\ EventsTypeOK
  /\ source \in Sources
  /\ frames \in Seq(Files) /\ retired \in Seq(Files) /\ frame \in Files \cup {0}
  /\ streaming \in BOOLEAN /\ halted \in BOOLEAN /\ starts \in 0 .. MaxStarts
  /\ thread \in {"none", "loop", "handle", "post", "ended"}
  /\ owner \in {"free", "stop", "destroy", "close", "gone", "aborted"}

(* A camera is constructed, a reader's thread runs.                         *)
Init ==
  /\ EventsInit
  /\ source \in Sources
  /\ frames = InOrder /\ retired = <<>> /\ frame = 0
  /\ streaming = FALSE /\ starts = 0 /\ halted = FALSE
  /\ thread = IF source = "reader" THEN "loop" ELSE "none"
  /\ owner = "free"

Camera == source # "reader"
Free == owner = "free" /\ call = NoCall

----------------------------------------------------------------------------
(* The client.                                                              *)

Client ==
  /\ owner = "free"
  /\ \/ \E h \in Handlers :
          EnterCall("register", h) \/ EnterCall("unregister", h)
     \/ FinishCall
  /\ UNCHANGED <<source, files, streaming, thread, owner, life>>

(* start(): throws if the camera is streaming.  A thread that has ended by  *)
(* itself is still joinable: to assign another calls std::terminate.        *)
Start ==
  /\ Camera /\ Free /\ starts < MaxStarts
  /\ ~streaming
  /\ starts' = starts + 1 /\ streaming' = TRUE /\ halted' = FALSE
  /\ IF thread = "none"
       THEN thread' = "loop" /\ UNCHANGED owner
       ELSE owner' = "aborted" /\ UNCHANGED thread
  /\ UNCHANGED <<eventVars, source, files>>

(* stop(), and that of the destructor, up to the join.                      *)
Stop(from) ==
  /\ Camera /\ Free
  /\ streaming' = FALSE /\ owner' = from
  /\ UNCHANGED <<eventVars, source, files, thread, life>>

(* Mutant: nobody waits for the thread.                                     *)
EndedAnyhow == TRUE

(* Mutant: joinable() is not asked.                                         *)
EndedOnly == thread = "ended"

(* What join() waits for; a thread that is not joinable is not waited for.  *)
Ended == thread \in {"none", "ended"}

Join ==
  /\ owner \in {"stop", "destroy"} /\ Ended
  /\ thread' = "none" /\ halted' = TRUE
  /\ owner' = IF owner = "stop" THEN "free" ELSE "close"
  /\ UNCHANGED <<eventVars, source, files, streaming, starts>>

(* The end of the destructor: the list of observers goes, and its pool.     *)
Close ==
  /\ owner = "close"
  /\ StopPool \/ JoinPool
  /\ owner' = IF pool' = "joined" THEN "gone" ELSE owner
  /\ UNCHANGED <<source, files, streaming, thread, life>>

----------------------------------------------------------------------------
(* The thread of the camera.                                                *)

Running == owner # "aborted"

(* Mutant: the files shown are refilled in front of those to be shown.      *)
TakeFrameFirst ==
  /\ frame' = Head(retired \o frames)
  /\ frames' = Tail(retired \o frames)
  /\ retired' = <<frame'>>

(* get_next_frame: a cyclic camera starts over with the files it has shown. *)
TakeFrame ==
  LET refill == frames = <<>>
      left   == IF refill THEN retired ELSE frames
      shown  == IF refill THEN frames ELSE retired
  IN  /\ frame' = Head(left)
      /\ frames' = Tail(left)
      /\ retired' = IF source = "cyclic" THEN Append(shown, Head(left)) ELSE shown

(* Mutant: a cyclic camera runs out of files, too.                          *)
ExhaustedAnyhow == frames = <<>>

Exhausted == source = "camera" /\ frames = <<>>

(* One turn of stream(), up to handle_frame; the flag is tested before and  *)
(* after m_provider_mutex is taken, and nobody sets it in between.          *)
Stream ==
  /\ Camera /\ Running /\ thread = "loop"
  /\ \/ /\ ~streaming
        /\ thread' = "ended" /\ UNCHANGED <<files, streaming>>
     \/ /\ streaming /\ Exhausted
        /\ streaming' = FALSE
        /\ thread' = "ended" /\ UNCHANGED files
     \/ /\ streaming /\ ~Exhausted
        /\ event < MaxEvents
        /\ TakeFrame
        /\ thread' = "handle" /\ UNCHANGED streaming
  /\ UNCHANGED <<eventVars, source, owner, life>>

(* handle_frame.                                                            *)
HandleFrame ==
  /\ Running /\ thread = "handle"
  /\ Publish
  /\ thread' = "post"
  /\ UNCHANGED <<source, files, streaming, owner, life>>

PostFrame ==
  /\ Running /\ thread = "post"
  /\ IF copied # <<>>
       THEN Post /\ UNCHANGED thread
       ELSE thread' = "loop" /\ UNCHANGED eventVars
  /\ UNCHANGED <<source, files, streaming, owner, life>>

(* The thread of the reader: an event while it plays, or from within        *)
(* set_position, which leaves the list disabled if the seek fails; the      *)
(* thread ends after that, and may end at any time.                         *)
Read ==
  /\ source = "reader" /\ thread = "loop"
  /\ \/ Disable /\ UNCHANGED thread
     \/ Enable /\ UNCHANGED thread
     \/ Publish /\ thread' = "post"
     \/ thread' = "ended" /\ UNCHANGED eventVars
  /\ UNCHANGED <<source, files, streaming, owner, life>>

Deliver(w) ==
  /\ Running
  /\ TakeTask(w) \/ BeginTask(w) \/ EndTask(w)
  /\ UNCHANGED <<source, files, streaming, thread, owner, life>>

Next ==
  \/ Client \/ Start \/ Stop("stop") \/ Stop("destroy") \/ Join \/ Close
  \/ Stream \/ HandleFrame \/ PostFrame \/ Read
  \/ \E w \in PoolThreads : Deliver(w)

Spec == Init /\ [][Next]_vars

(* Threads go on: that of the source, those of the pool, and the client's   *)
(* within a call; observers return from their calls.                        *)
FairSpec ==
  /\ Spec
  /\ WF_vars(Stream \/ HandleFrame \/ PostFrame)
  /\ WF_vars(Join \/ Close)
  /\ \A w \in PoolThreads : WF_vars(Deliver(w))

----------------------------------------------------------------------------
(* fake_camera.cpp:64-83 and 113-138: the n-th frame published shows the    *)
(* n-th file, counted over and over for a cyclic camera, however often it   *)
(* is stopped and started: stop neither loses the frame in the hands of the *)
(* thread nor has one shown again.                                          *)
FramesInFileOrder ==
  Camera /\ thread # "handle" /\ event > 0
    => frame = ((event - 1) % FileCount) + 1

(* stop() (test stream_frames_cyclic: "ensure the streaming is stopped"):   *)
(* once it has returned nothing is published or posted until the next       *)
(* start (the observers may still be called for what was posted before);    *)
(* once the destructor has returned no observer is in a call, or will be.   *)
StopIsQuiet ==
  /\ halted => thread = "none" /\ copied = <<>>
  /\ owner = "gone" => halted /\ \A w \in PoolThreads : Idle(w)

(* start() (same test: "Cyclic camera failed to restart"): a cyclic camera  *)
(* can always be started again; only one that has shown all its files ends  *)
(* the program.                                                             *)
OnlyExhaustedAborts == owner = "aborted" => source = "camera" /\ frames = <<>>

(* An observer that stays in the list hears every event published from the  *)
(* time it was added on, unless the source is destroyed first.              *)
SubscribersHearAll ==
  \A h \in Handlers, e \in 1 .. MaxEvents :
    event >= e /\ since[h] < e
      ~> e \in heard[h] \/ since[h] >= e \/ owner \in {"close", "gone", "aborted"}

(* stop() and the destructor return, with an observer's call in progress    *)
(* and with tasks in the queue.                                             *)
StopReturns == owner \in {"stop", "destroy", "close"} ~> owner \in {"free", "gone"}
=============================================================================
