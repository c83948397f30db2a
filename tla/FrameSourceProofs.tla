-------------------------- MODULE FrameSourceProofs --------------------------
(***************************************************************************)
(* What the observers of a camera or a reader can rely on, for every       *)
(* number of observers, threads of the pool, files, calls and events.      *)
(***************************************************************************)
EXTENDS FrameSource, TLAPS

----------------------------------------------------------------------------
(* Lists without repetition.                                                *)

LEMMA ListElements ==
  ASSUME NEW s \in Seq(Handlers)
  PROVE  ToSet(s) \subseteq Handlers
<1>1. \A i \in DOMAIN s : s[i] \in Handlers
  OBVIOUS
<1> QED
  BY <1>1 DEF ToSet

LEMMA NoElements == ToSet(<<>>) = {}
  BY DEF ToSet

LEMMA AddedList ==
  ASSUME NEW s \in Seq(Handlers), IsInjective(s), NEW h \in Handlers
  PROVE  /\ Added(s, h) \in Seq(Handlers) /\ IsInjective(Added(s, h))
         /\ ToSet(Added(s, h)) = ToSet(s) \cup {h}
<1>1. CASE h \in ToSet(s)
  BY <1>1 DEF Added
<1>2. CASE h \notin ToSet(s)
  <2>1. Added(s, h) = Append(s, h)
    BY <1>2 DEF Added
  <2>2. IsInjective(Append(s, h))
    BY <1>2 DEF IsInjective, ToSet
  <2>3. ToSet(Append(s, h)) = ToSet(s) \cup {h}
    <3> DEFINE a == Append(s, h)
    <3>1. /\ Len(s) \in Nat /\ DOMAIN s = 1 .. Len(s) /\ DOMAIN a = 1 .. Len(s) + 1
          /\ a[Len(s) + 1] = h /\ \A i \in 1 .. Len(s) : a[i] = s[i]
      OBVIOUS
    <3> HIDE DEF a
    <3>2. ASSUME NEW i \in DOMAIN a PROVE a[i] \in ToSet(s) \cup {h}
      BY <3>1 DEF ToSet
    <3>3. ToSet(s) \cup {h} \subseteq ToSet(a)
      BY <3>1 DEF ToSet
    <3>4. ToSet(a) \subseteq ToSet(s) \cup {h}
      BY <3>2 DEF ToSet
    <3> QED
      BY <3>3, <3>4 DEF a
  <2> QED
    BY <2>1, <2>2, <2>3
<1> QED
  BY <1>1, <1>2

LEMMA Removed ==
  ASSUME NEW T, NEW s \in Seq(T), NEW p \in 1 .. Len(s)
  PROVE  /\ RemoveAt(s, p) \in Seq(T) /\ Len(RemoveAt(s, p)) = Len(s) - 1
         /\ \A i \in 1 .. Len(s) - 1 :
              RemoveAt(s, p)[i] = IF i < p THEN s[i] ELSE s[i + 1]
<1> DEFINE a == SubSeq(s, 1, p - 1)
           b == SubSeq(s, p + 1, Len(s))
           e == a \o b
<1>1. /\ a \in Seq(T) /\ Len(a) = p - 1
      /\ \A i \in 1 .. p - 1 : a[i] = s[i]
  <2>1. \A i \in 1 .. p - 1 : s[i] \in T
    OBVIOUS
  <2> QED
    BY <2>1
<1>2. /\ b \in Seq(T) /\ Len(b) = Len(s) - p
      /\ \A i \in 1 .. Len(s) - p : b[i] = s[p + i]
  <2>1. \A i \in p + 1 .. Len(s) : s[i] \in T
    OBVIOUS
  <2> QED
    BY <2>1
<1>3. RemoveAt(s, p) = e /\ e = a \o b
  BY DEF RemoveAt
<1> HIDE DEF a, b, e
<1>0. Len(s) \in Nat /\ p \in Nat /\ p <= Len(s) /\ p >= 1
  OBVIOUS
<1>a. a \in Seq(T) /\ b \in Seq(T)
  BY <1>1, <1>2
<1>b. a \o b \in Seq(T) /\ Len(a \o b) = Len(a) + Len(b)
  BY <1>a
<1>4. e \in Seq(T) /\ Len(e) = Len(s) - 1
  BY <1>1, <1>2, <1>3, <1>b, <1>0
<1>c. \A i \in 1 .. Len(a) + Len(b) :
        (a \o b)[i] = IF i <= Len(a) THEN a[i] ELSE b[i - Len(a)]
  BY <1>a
<1>5. ASSUME NEW i \in 1 .. Len(e) PROVE e[i] = IF i < p THEN s[i] ELSE s[i + 1]
  <2>1. Len(e) = Len(a) + Len(b) /\ Len(a) = p - 1 /\ Len(b) = Len(s) - p
    BY <1>1, <1>2, <1>3, <1>b
  <2>2. CASE i < p
    <3>1. i \in 1 .. p - 1
      BY <2>1, <2>2, <1>0
    <3> QED
      BY <3>1, <2>1, <2>2, <1>0, <1>1, <1>3, <1>c
  <2>3. CASE ~(i < p)
    <3>1. i - Len(a) \in 1 .. Len(s) - p /\ ~(i <= Len(a)) /\ p + (i - Len(a)) = i + 1
      BY <2>1, <2>3, <1>0
    <3> QED
      BY <3>1, <2>1, <2>3, <1>0, <1>2, <1>3, <1>c
  <2> QED
    BY <2>2, <2>3
<1> QED
  BY <1>3, <1>4, <1>5

LEMMA ErasedList ==
  ASSUME NEW s \in Seq(Handlers), IsInjective(s), NEW h \in Handlers
  PROVE  /\ Erased(s, h) \in Seq(Handlers) /\ IsInjective(Erased(s, h))
         /\ ToSet(Erased(s, h)) = ToSet(s) \ {h}
<1>1. CASE h \notin ToSet(s)
  BY <1>1 DEF Erased
<1>2. CASE h \in ToSet(s)
  <2> DEFINE p == Place(s, h)
             e == RemoveAt(s, p)
  <2>1. p \in 1 .. Len(s) /\ s[p] = h
    BY <1>2 DEF ToSet, Place
  <2>2. Erased(s, h) = e
    BY <1>2 DEF Erased
  <2> HIDE DEF p
  <2>3. e \in Seq(Handlers) /\ Len(e) = Len(s) - 1
    BY <2>1, Removed
  <2>4. \A i \in 1 .. Len(e) : e[i] = IF i < p THEN s[i] ELSE s[i + 1]
    BY <2>1, <2>3, Removed
  <2> HIDE DEF e
  <2>5. IsInjective(e)
    BY <2>1, <2>3, <2>4, SMTT(30) DEF IsInjective
  <2>6. ASSUME NEW i \in 1 .. Len(s), i # p PROVE s[i] \in ToSet(e)
    <3>1. CASE i < p
      BY <2>1, <2>3, <2>4, <3>1 DEF ToSet
    <3>2. CASE i > p
      <4>1. i - 1 \in 1 .. Len(e) /\ e[i - 1] = s[i]
        BY <2>1, <2>3, <2>4, <3>2
      <4> QED
        BY <4>1, <2>3 DEF ToSet
    <3> QED
      BY <2>1, <2>6, <3>1, <3>2
  <2>7. ASSUME NEW i \in 1 .. Len(e) PROVE e[i] \in ToSet(s) \ {h}
    <3>1. PICK j \in 1 .. Len(s) : e[i] = s[j] /\ j # p
      <4>1. CASE i < p
        BY <2>1, <2>3, <2>4, <4>1
      <4>2. CASE ~(i < p)
        BY <2>1, <2>3, <2>4, <4>2
      <4> QED
        BY <4>1, <4>2
    <3>2. s[j] # s[p]
      BY <3>1, <2>1 DEF IsInjective
    <3> QED
      BY <3>1, <3>2, <2>1 DEF ToSet
  <2>8. ToSet(e) = ToSet(s) \ {h}
    <3>1. ToSet(e) \subseteq ToSet(s) \ {h}
      BY <2>3, <2>7 DEF ToSet
    <3>2. ToSet(s) \ {h} \subseteq ToSet(e)
      BY <2>1, <2>6 DEF ToSet
    <3> QED
      BY <3>1, <3>2
  <2> QED
    BY <2>2, <2>3, <2>5, <2>8
<1> QED
  BY <1>1, <1>2

LEMMA TailList ==
  ASSUME NEW s \in Seq(Handlers), IsInjective(s), s # <<>>
  PROVE  /\ Tail(s) \in Seq(Handlers) /\ IsInjective(Tail(s))
         /\ Head(s) \in Handlers /\ Head(s) \in ToSet(s)
         /\ ToSet(Tail(s)) = ToSet(s) \ {Head(s)}
<1>1. Len(s) \in Nat \ {0} /\ Head(s) = s[1] /\ Head(s) \in Handlers
  OBVIOUS
<1>2. /\ Tail(s) \in Seq(Handlers) /\ Len(Tail(s)) = Len(s) - 1
      /\ \A i \in 1 .. Len(Tail(s)) : Tail(s)[i] = s[i + 1]
  OBVIOUS
<1>3. IsInjective(Tail(s))
  BY <1>1, <1>2 DEF IsInjective
<1>4. Head(s) \in ToSet(s)
  BY <1>1 DEF ToSet
<1> DEFINE t == Tail(s)
<1>5. ToSet(Tail(s)) \subseteq ToSet(s) \ {Head(s)}
  BY <1>1, <1>2 DEF ToSet, IsInjective
<1>6. ASSUME NEW i \in 1 .. Len(s), s[i] # Head(s) PROVE s[i] \in ToSet(Tail(s))
  <2>1. i - 1 \in 1 .. Len(t) /\ t[i - 1] = s[i]
    BY <1>1, <1>2, <1>6
  <2>2. t \in Seq(Handlers)
    BY <1>2
  <2> HIDE DEF t
  <2>3. s[i] \in ToSet(t)
    BY <2>1, <2>2 DEF ToSet
  <2> QED
    BY <2>3 DEF t
<1>7. ToSet(s) \ {Head(s)} \subseteq ToSet(Tail(s))
  BY <1>6 DEF ToSet
<1> QED
  BY <1>1, <1>2, <1>3, <1>4, <1>5, <1>7

----------------------------------------------------------------------------
(* The list and the pool, whatever publishes.                               *)

USE DEF vars, eventVars, list, client, delivery, spans, files, life

EventStep ==
  \/ \E op \in {"register", "unregister"}, h \in Handlers : EnterCall(op, h)
  \/ FinishCall \/ Disable \/ Enable \/ Publish \/ Post
  \/ \E w \in PoolThreads : TakeTask(w) \/ BeginTask(w) \/ EndTask(w)
  \/ StopPool \/ JoinPool
  \/ UNCHANGED eventVars

LEMMA NoTaskIsNone == NoTask \notin Tasks /\ InCall \notin Tasks /\ NoTask # InCall
<1>1. NoTask.event = 0 /\ InCall.event = 0
  BY DEF NoTask, InCall
<1>2. \A t \in Tasks : t.event \in 1 .. MaxEvents
  BY DEF Tasks
<1>3. 0 \notin 1 .. MaxEvents
  BY EventConstants
<1>4. NoTask.handler # InCall.handler
  BY DEF NoTask, InCall
<1> QED
  BY <1>1, <1>2, <1>3, <1>4, Zenon

LEMMA StepOfEvents == [Next]_vars => EventStep
<1> SUFFICES ASSUME [Next]_vars PROVE EventStep
  OBVIOUS
<1>1. CASE Client
  BY <1>1 DEF Client, EventStep
<1>2. CASE \/ Start \/ Stop("stop") \/ Stop("destroy") \/ Join \/ Stream
  BY <1>2 DEF Start, Stop, Join, Stream, EventStep
<1>3. CASE Close
  BY <1>3 DEF Close, EventStep
<1>4. CASE HandleFrame
  BY <1>4 DEF HandleFrame, EventStep
<1>5. CASE PostFrame
  BY <1>5 DEF PostFrame, EventStep
<1>6. CASE Read
  BY <1>6 DEF Read, EventStep
<1>7. CASE \E w \in PoolThreads : Deliver(w)
  BY <1>7 DEF Deliver, EventStep
<1>8. CASE UNCHANGED vars
  BY <1>8 DEF EventStep
<1> QED
  BY <1>1, <1>2, <1>3, <1>4, <1>5, <1>6, <1>7, <1>8 DEF Next

CopyIsOfEvent == copied # <<>> => event > 0

LEMMA EventsTyped ==
  ASSUME EventsTypeOK, CopyIsOfEvent, EventStep
  PROVE  EventsTypeOK' /\ CopyIsOfEvent'
<1> USE EventConstants DEF EventsTypeOK, CopyIsOfEvent, Never
<1>1. ASSUME NEW op \in {"register", "unregister"}, NEW h \in Handlers, EnterCall(op, h)
      PROVE  EventsTypeOK' /\ CopyIsOfEvent'
  BY <1>1, SMTT(30) DEF EnterCall, Calls
<1>2. CASE FinishCall
  <2>1. call.handler \in Handlers
    BY <1>2 DEF FinishCall, Calls
  <2>2. CASE call.op = "register"
    <3>1. subscribers' = Added(subscribers, call.handler)
      BY <1>2, <2>2 DEF FinishCall
    <3>2. since' \in [Handlers -> 0 .. Never] /\ until' \in [Handlers -> 0 .. Never]
      <4>1. /\ since' = [since EXCEPT ![call.handler] =
                             IF call.handler \in ToSet(subscribers) THEN @ ELSE event]
            /\ until' = [until EXCEPT ![call.handler] = Never]
        BY <1>2, <2>2 DEF FinishCall
      <4>2. event \in 0 .. Never /\ Never \in 0 .. Never
        OBVIOUS
      <4> QED
        BY <4>1, <4>2, <2>1
    <3>3. subscribers' \in Seq(Handlers) /\ IsInjective(subscribers')
      BY <2>1, <3>1, AddedList
    <3> QED
      BY <1>2, <3>2, <3>3 DEF FinishCall
  <2>3. CASE call.op # "register"
    <3>1. subscribers' = Erased(subscribers, call.handler)
      BY <1>2, <2>3 DEF FinishCall
    <3>2. since' \in [Handlers -> 0 .. Never] /\ until' \in [Handlers -> 0 .. Never]
      <4>1. /\ since' = [since EXCEPT ![call.handler] = Never]
            /\ until' = [until EXCEPT ![call.handler] =
                             IF call.handler \in ToSet(subscribers) THEN event ELSE @]
        BY <1>2, <2>3 DEF FinishCall
      <4>2. event \in 0 .. Never /\ Never \in 0 .. Never
        OBVIOUS
      <4> QED
        BY <4>1, <4>2, <2>1
    <3>3. subscribers' \in Seq(Handlers) /\ IsInjective(subscribers')
      BY <2>1, <3>1, ErasedList
    <3> QED
      BY <1>2, <3>2, <3>3 DEF FinishCall
  <2> QED
    BY <2>2, <2>3
<1>3. CASE Disable
  <2>1. subscribers' \in Seq(Handlers) /\ IsInjective(subscribers')
    BY <1>3 DEF Disable, IsInjective
  <2>2. cache' \in Seq(Handlers) /\ IsInjective(cache')
    BY <1>3 DEF Disable
  <2>3. since' \in [Handlers -> 0 .. Never] /\ strayed' \subseteq Handlers
    BY <1>3 DEF Disable, Straddle
  <2> QED
    BY <1>3, <2>1, <2>2, <2>3 DEF Disable
<1>4. CASE Enable
  <2>1. subscribers' \in Seq(Handlers) /\ IsInjective(subscribers')
    BY <1>4 DEF Enable, Restored
  <2>2. cache' \in Seq(Handlers) /\ IsInjective(cache')
    BY <1>4 DEF Enable
  <2>3. since' \in [Handlers -> 0 .. Never] /\ strayed' \subseteq Handlers
    BY <1>4 DEF Enable, Straddle
  <2> QED
    BY <1>4, <2>1, <2>2, <2>3 DEF Enable
<1>5. CASE Publish
  BY <1>5 DEF Publish
<1>6. CASE Post
  <2>1. copied' \in Seq(Handlers)
    BY <1>6 DEF Post, Others
  <2>2. tasks' \in Seq(Tasks)
    BY <1>6 DEF Post, Tasks
  <2> QED
    BY <1>6, <2>1, <2>2 DEF Post
<1>7. ASSUME NEW w \in PoolThreads, TakeTask(w) PROVE EventsTypeOK' /\ CopyIsOfEvent'
  <2>1. tasks[1] \in Tasks /\ tasks' \in Seq(Tasks)
    <3>1. tasks \in Seq(Tasks) /\ 1 \in 1 .. Len(tasks) /\ tasks' = RemoveAt(tasks, 1)
      BY <1>7 DEF TakeTask, NextTask
    <3>2. tasks[1] \in Tasks
      BY <3>1
    <3>3. RemoveAt(tasks, 1) \in Seq(Tasks)
      BY <3>1, Removed, Zenon
    <3> QED
      BY <3>1, <3>2, <3>3
  <2>2. running' = [running EXCEPT ![w] = tasks[1]]
    BY <1>7 DEF TakeTask, NextTask
  <2>3. running' \in [PoolThreads -> Tasks \cup {NoTask, InCall}]
    BY <2>1, <2>2
  <2> QED
    BY <1>7, <2>1, <2>3 DEF TakeTask
<1>11. ASSUME NEW w \in PoolThreads, BeginTask(w) PROVE EventsTypeOK' /\ CopyIsOfEvent'
  <2> DEFINE t == running[w]
  <2>1. t.handler \in Handlers /\ t.event \in 1 .. MaxEvents
    BY <1>11 DEF BeginTask, Holds, Tasks
  <2>2. heard' = [heard EXCEPT ![t.handler] = @ \cup {t.event}]
    BY <1>11 DEF BeginTask
  <2> HIDE DEF t
  <2>3. heard' \in [Handlers -> SUBSET (1 .. MaxEvents)]
    BY <2>1, <2>2
  <2>4. running' \in [PoolThreads -> Tasks \cup {NoTask, InCall}]
    BY <1>11 DEF BeginTask
  <2> QED
    BY <1>11, <2>3, <2>4 DEF BeginTask
<1>8. ASSUME NEW w \in PoolThreads, EndTask(w) PROVE EventsTypeOK' /\ CopyIsOfEvent'
  BY <1>8 DEF EndTask
<1>9. CASE StopPool \/ JoinPool
  BY <1>9 DEF StopPool, JoinPool
<1>10. CASE UNCHANGED eventVars
  BY <1>10
<1> QED
  BY <1>1, <1>2, <1>3, <1>4, <1>5, <1>6, <1>7, <1>8, <1>9, <1>10, <1>11 DEF EventStep

----------------------------------------------------------------------------
(* The files: what is left of the directory follows what was shown.         *)

Shown == FileCount - Len(frames)
Taken == event + IF thread = "handle" THEN 1 ELSE 0

FilesFollow ==
  /\ Len(frames) <= FileCount
  /\ \A i \in 1 .. Len(frames) : frames[i] = Shown + i
  /\ IF source = "cyclic"
       THEN Len(retired) = Shown /\ \A i \in 1 .. Len(retired) : retired[i] = i
       ELSE retired = <<>>

(* A whole number of rounds and the files of this one.                      *)
RoundsFollow ==
  Camera => /\ frame = Shown /\ (Taken > 0 => Shown > 0)
            /\ \E q \in Nat : Taken = q * FileCount + Shown

SourceTypeOK ==
  /\ source \in Sources
  /\ frames \in Seq(Files) /\ retired \in Seq(Files) /\ frame \in Files \cup {0}
  /\ streaming \in BOOLEAN /\ halted \in BOOLEAN /\ starts \in 0 .. MaxStarts
  /\ thread \in {"none", "loop", "handle", "post", "ended"}
  /\ owner \in {"free", "stop", "destroy", "close", "gone", "aborted"}

(* The files stay, and a frame is published only after one was taken.       *)
FilesKept ==
  /\ UNCHANGED <<source, files>>
  /\ Camera => Taken' = Taken

LEMMA StepOfFiles ==
  ASSUME SourceTypeOK, EventsTypeOK, Next
  PROVE  \/ FilesKept
         \/ /\ Camera /\ Running /\ thread = "loop" /\ streaming /\ ~Exhausted
            /\ TakeFrame /\ thread' = "handle" /\ UNCHANGED <<source, event>>
<1> USE DEF FilesKept, Taken
<1>1. CASE Client
  <2>1. event' = event
    BY <1>1 DEF Client, EnterCall, FinishCall
  <2> QED
    BY <1>1, <2>1 DEF Client, Camera
<1>2. CASE Start \/ Stop("stop") \/ Stop("destroy")
  <2>1. thread' = thread \/ (thread = "none" /\ thread' = "loop")
    BY <1>2 DEF Start, Stop
  <2> QED
    BY <1>2, <2>1 DEF Start, Stop, Camera
<1>3. CASE Join
  BY <1>3 DEF Join, Ended, Camera
<1>4. CASE Close
  <2>1. event' = event
    BY <1>4 DEF Close, StopPool, JoinPool
  <2> QED
    BY <1>4, <2>1 DEF Close, Camera
<1>5. CASE Stream
  BY <1>5 DEF Stream, Camera
<1>6. CASE HandleFrame
  <2>1. event' = event + 1 /\ event \in Nat
    BY <1>6 DEF HandleFrame, Publish, EventsTypeOK
  <2> QED
    BY <1>6, <2>1 DEF HandleFrame, Camera
<1>7. CASE PostFrame
  <2>1. event' = event
    BY <1>7 DEF PostFrame, Post
  <2> QED
    BY <1>7, <2>1 DEF PostFrame, Camera
<1>8. CASE Read
  BY <1>8 DEF Read, Camera
<1>9. ASSUME NEW w \in PoolThreads, Deliver(w) PROVE FilesKept
  <2>1. event' = event
    BY <1>9 DEF Deliver, TakeTask, BeginTask, EndTask
  <2> QED
    BY <1>9, <2>1 DEF Deliver, Camera
<1> QED
  BY <1>1, <1>2, <1>3, <1>4, <1>5, <1>6, <1>7, <1>8, <1>9 DEF Next

(* What get_next_frame leaves.                                              *)
LEMMA FrameTaken ==
  ASSUME SourceTypeOK, FilesFollow, RoundsFollow, Camera, ~Exhausted, TakeFrame,
         source' = source, Taken' = Taken + 1, Taken \in Nat
  PROVE  /\ frames' \in Seq(Files) /\ retired' \in Seq(Files) /\ frame' \in Files
         /\ FilesFollow' /\ RoundsFollow'
<1> DEFINE left  == IF frames = <<>> THEN retired ELSE frames
           shown == IF frames = <<>> THEN frames ELSE retired
           k     == FileCount - Len(left)
<1>0. FileCount \in Nat \ {0} /\ Len(frames) \in Nat /\ Len(retired) \in Nat
  BY SourceConstants DEF SourceTypeOK
<1>1. /\ left \in Seq(Files) /\ shown \in Seq(Files) /\ left # <<>>
      /\ Len(left) <= FileCount
      /\ \A i \in 1 .. Len(left) : left[i] = k + i
  <2>1. CASE frames # <<>>
    BY <2>1 DEF SourceTypeOK, FilesFollow, Shown
  <2>2. CASE frames = <<>>
    <3>1. source = "cyclic"
      BY <2>2, SourceConstants DEF Exhausted, Camera, SourceTypeOK
    <3>2. Len(frames) = 0 /\ Len(retired) = FileCount
      BY <2>2, <3>1, <1>0 DEF FilesFollow, Shown
    <3>3. \A i \in 1 .. Len(retired) : retired[i] = 0 + i
      BY <3>1, <1>0 DEF FilesFollow
    <3>4. retired # <<>>
      BY <3>2, <1>0
    <3> QED
      BY <2>2, <3>2, <3>3, <3>4, <1>0 DEF SourceTypeOK
  <2> QED
    BY <2>1, <2>2
<1>2. /\ frame' = Head(left) /\ frames' = Tail(left)
      /\ retired' = IF source = "cyclic" THEN Append(shown, Head(left)) ELSE shown
  BY DEF TakeFrame
<1>3. source = "cyclic" => Len(shown) = k /\ \A i \in 1 .. Len(shown) : shown[i] = i
  <2>1. CASE frames # <<>>
    BY <2>1 DEF FilesFollow, Shown
  <2>2. CASE frames = <<>>
    BY <2>2, <1>0 DEF FilesFollow, Shown
  <2> QED
    BY <2>1, <2>2
<1>4. source # "cyclic" => shown = <<>>
  BY SourceConstants DEF FilesFollow, Exhausted, Camera, SourceTypeOK
<1>5. \E q \in Nat : Taken = q * FileCount + k
  <2>1. PICK q \in Nat : Taken = q * FileCount + Shown
    BY DEF RoundsFollow
  <2>2. CASE frames # <<>>
    BY <2>1, <2>2 DEF Shown
  <2>3. CASE frames = <<>>
    <3>1. source = "cyclic"
      BY <2>3, SourceConstants DEF Exhausted, Camera, SourceTypeOK
    <3>2. Len(frames) = 0 /\ Shown = FileCount /\ Len(retired) = FileCount /\ k = 0
      BY <2>3, <3>1, <1>0 DEF FilesFollow, Shown
    <3>3. Taken = (q + 1) * FileCount + k /\ q + 1 \in Nat
      BY <2>1, <3>2, <1>0
    <3> QED
      BY <3>3
  <2> QED
    BY <2>2, <2>3
<1> HIDE DEF left, shown
<1>6. /\ Len(left) \in Nat \ {0} /\ Head(left) = left[1] /\ Head(left) \in Files
      /\ Tail(left) \in Seq(Files) /\ Len(Tail(left)) = Len(left) - 1
      /\ \A i \in 1 .. Len(left) - 1 : Tail(left)[i] = left[i + 1]
  BY <1>1
<1>7. Shown' = k + 1 /\ frame' = k + 1
  BY <1>0, <1>1, <1>2, <1>6 DEF Shown
<1>8. \A i \in 1 .. Len(frames') : frames'[i] = Shown' + i
  BY <1>0, <1>1, <1>2, <1>6, <1>7
<1>9. RoundsFollow'
  <2>1. PICK q \in Nat : Taken = q * FileCount + k
    BY <1>5
  <2>2. Taken' = q * FileCount + Shown' /\ Shown' > 0
    BY <2>1, <1>0, <1>1, <1>6, <1>7
  <2> QED
    BY <2>2, <1>7 DEF RoundsFollow
<1>10. CASE source = "cyclic"
  <2>1. /\ retired' = Append(shown, Head(left)) /\ Len(shown) = k /\ k \in Nat
        /\ Len(Append(shown, Head(left))) = k + 1
        /\ Append(shown, Head(left))[k + 1] = k + 1
        /\ \A i \in 1 .. k : Append(shown, Head(left))[i] = shown[i]
    BY <1>10, <1>0, <1>1, <1>2, <1>3, <1>6
  <2>2. \A i \in 1 .. Len(retired') : retired'[i] = i
    BY <2>1, <1>3, <1>10
  <2>3. FilesFollow'
    BY <1>0, <1>1, <1>2, <1>6, <1>7, <1>8, <1>10, <2>1, <2>2 DEF FilesFollow
  <2> QED
    BY <2>3, <2>1, <1>1, <1>2, <1>6, <1>9
<1>11. CASE source # "cyclic"
  <2>1. retired' = <<>>
    BY <1>2, <1>4, <1>11
  <2> QED
    BY <1>0, <1>1, <1>2, <1>6, <1>7, <1>8, <1>9, <1>11, <2>1 DEF FilesFollow
<1> QED
  BY <1>2, <1>6, <1>9, <1>10, <1>11

----------------------------------------------------------------------------

FilesInv ==
  /\ TypeOK /\ CopyIsOfEvent
  /\ FilesFollow /\ RoundsFollow

LEMMA FilesInvInit == Init => FilesInv
<1> SUFFICES ASSUME Init PROVE FilesInv
  OBVIOUS
<1> USE EventConstants, SourceConstants DEF Init, EventsInit
<1>1. EventsTypeOK /\ CopyIsOfEvent
  BY DEF EventsTypeOK, CopyIsOfEvent, Never, IsInjective
<1>2. frames \in Seq(Files) /\ Len(frames) = FileCount /\ \A i \in 1 .. FileCount : frames[i] = i
  BY DEF InOrder, Files
<1>3. FilesFollow
  BY <1>2 DEF FilesFollow, Shown
<1>4. Taken = 0 /\ Shown = 0
  BY <1>2 DEF Taken, Shown
<1>5. Taken = 0 * FileCount + Shown
  BY <1>4
<1>6. RoundsFollow
  BY <1>4, <1>5 DEF RoundsFollow
<1>7. SourceTypeOK
  <2>1. streaming \in BOOLEAN /\ halted \in BOOLEAN
    OBVIOUS
  <2>4. starts \in 0 .. MaxStarts
    OBVIOUS
  <2>2. retired \in Seq(Files) /\ frame \in Files \cup {0} /\ source \in Sources
    OBVIOUS
  <2>3. /\ thread \in {"none", "loop", "handle", "post", "ended"}
        /\ owner \in {"free", "stop", "destroy", "close", "gone", "aborted"}
    OBVIOUS
  <2> QED
    BY <1>2, <2>1, <2>2, <2>3, <2>4 DEF SourceTypeOK
<1> QED
  BY <1>1, <1>3, <1>6, <1>7 DEF FilesInv, TypeOK, SourceTypeOK

LEMMA SourceTyped ==
  ASSUME SourceTypeOK, Next, frames' \in Seq(Files), retired' \in Seq(Files),
         frame' \in Files \cup {0}
  PROVE  SourceTypeOK'
<1> USE SourceConstants DEF SourceTypeOK
<1>1. CASE Client
  BY <1>1 DEF Client
<1>2. CASE Start
  <2>1. starts' \in 0 .. MaxStarts
    BY <1>2 DEF Start
  <2>2. streaming' \in BOOLEAN /\ halted' \in BOOLEAN
    BY <1>2 DEF Start
  <2>3. /\ thread' \in {"none", "loop", "handle", "post", "ended"}
        /\ owner' \in {"free", "stop", "destroy", "close", "gone", "aborted"}
    BY <1>2 DEF Start
  <2> QED
    BY <1>2, <2>1, <2>2, <2>3 DEF Start
<1>3. CASE Stop("stop") \/ Stop("destroy")
  BY <1>3 DEF Stop
<1>4. CASE Join
  BY <1>4 DEF Join
<1>5. CASE Close
  BY <1>5 DEF Close
<1>6. CASE Stream
  BY <1>6 DEF Stream
<1>7. CASE HandleFrame \/ PostFrame
  BY <1>7 DEF HandleFrame, PostFrame
<1>8. CASE Read
  BY <1>8 DEF Read
<1>9. CASE \E w \in PoolThreads : Deliver(w)
  BY <1>9 DEF Deliver
<1> QED
  BY <1>1, <1>2, <1>3, <1>4, <1>5, <1>6, <1>7, <1>8, <1>9 DEF Next

LEMMA FilesInvNext == FilesInv /\ [Next]_vars => FilesInv'
<1> SUFFICES ASSUME FilesInv, [Next]_vars PROVE FilesInv'
  OBVIOUS
<1>1. SourceTypeOK /\ EventsTypeOK /\ CopyIsOfEvent /\ FilesFollow /\ RoundsFollow
  BY DEF FilesInv, TypeOK, SourceTypeOK
<1>2. EventsTypeOK' /\ CopyIsOfEvent'
  BY <1>1, StepOfEvents, EventsTyped
<1>3. CASE UNCHANGED vars
  <2>1. SourceTypeOK'
    BY <1>1, <1>3 DEF SourceTypeOK
  <2>2. FilesFollow' /\ RoundsFollow'
    BY <1>1, <1>3 DEF FilesFollow, RoundsFollow, Shown, Taken, Camera
  <2> QED
    BY <1>2, <2>1, <2>2 DEF FilesInv, TypeOK, SourceTypeOK
<1>4. CASE Next /\ FilesKept
  <2>1. UNCHANGED <<source, files>>
    BY <1>4 DEF FilesKept
  <2>2. SourceTypeOK'
    BY <1>1, <1>4, <2>1, SourceTyped DEF SourceTypeOK
  <2>3. FilesFollow'
    BY <1>1, <2>1 DEF FilesFollow, Shown
  <2>4. Shown' = Shown /\ Camera' = Camera
    BY <2>1 DEF Shown, Camera
  <2>5. RoundsFollow'
    BY <1>1, <1>4, <2>1, <2>4 DEF RoundsFollow, FilesKept
  <2> QED
    BY <1>2, <2>2, <2>3, <2>5 DEF FilesInv, TypeOK, SourceTypeOK
<1>5. CASE /\ Next /\ Camera /\ ~Exhausted /\ thread = "loop"
           /\ TakeFrame /\ thread' = "handle" /\ UNCHANGED <<source, event>>
  <2>1. event \in Nat
    BY <1>1, EventConstants DEF EventsTypeOK
  <2>2. Taken' = Taken + 1 /\ Taken \in Nat
    BY <1>5, <2>1 DEF Taken
  <2>3. /\ frames' \in Seq(Files) /\ retired' \in Seq(Files) /\ frame' \in Files
        /\ FilesFollow' /\ RoundsFollow'
    BY <1>1, <1>5, <2>2, FrameTaken
  <2>4. SourceTypeOK'
    BY <1>1, <1>5, <2>3, SourceTyped
  <2> QED
    BY <1>2, <2>3, <2>4 DEF FilesInv, TypeOK, SourceTypeOK
<1> QED
  BY <1>1, <1>3, <1>4, <1>5, StepOfFiles

(* Every variable keeps its type: the lists hold observers without          *)
(* repetition, an event is posted only after it was published, and a cyclic *)
(* camera always has a file to show.                                        *)
THEOREM TypeCorrect == Spec => []TypeOK
<1>1. Spec => []FilesInv
  BY FilesInvInit, FilesInvNext, PTL DEF Spec
<1>2. FilesInv => TypeOK
  BY DEF FilesInv
<1> QED
  BY <1>1, <1>2, PTL

LEMMA Remainder ==
  ASSUME NEW q \in Nat, NEW n \in Nat \ {0}, NEW r \in 0 .. n - 1
  PROVE  (q * n + r) % n = r
BY SMTT(20)

(* get_next_frame (fake_camera.cpp:64-83): the n-th frame shows the n-th    *)
(* file, however often the camera is stopped, started and refilled.         *)
THEOREM FramesFollowFiles == Spec => []FramesInFileOrder
<1>1. Spec => []FilesInv
  BY FilesInvInit, FilesInvNext, PTL DEF Spec
<1>2. FilesInv => FramesInFileOrder
  <2> SUFFICES ASSUME FilesInv, Camera, thread # "handle", event > 0
               PROVE  frame = ((event - 1) % FileCount) + 1
    BY DEF FramesInFileOrder
  <2>1. /\ event \in Nat /\ FileCount \in Nat \ {0} /\ Len(frames) \in Nat
        /\ Len(frames) <= FileCount
    BY EventConstants, SourceConstants DEF FilesInv, TypeOK, EventsTypeOK, FilesFollow
  <2>2. Taken = event
    BY <2>1 DEF Taken
  <2>3. frame = Shown /\ Shown > 0
    BY <2>2 DEF FilesInv, RoundsFollow
  <2>4. PICK q \in Nat : event = q * FileCount + Shown
    BY <2>2 DEF FilesInv, RoundsFollow
  <2>5. Shown - 1 \in 0 .. FileCount - 1
    BY <2>1, <2>3 DEF Shown
  <2>6. event - 1 = q * FileCount + (Shown - 1)
    BY <2>1, <2>4, <2>5 DEF Shown
  <2>7. (event - 1) % FileCount = Shown - 1
    BY <2>1, <2>5, <2>6, Remainder
  <2> QED
    BY <2>3, <2>5, <2>7, <2>1 DEF Shown
<1> QED
  BY <1>1, <1>2, PTL

----------------------------------------------------------------------------
(* The life of a source: what its thread and its owner know of each other.  *)

Quiet ==
  /\ thread # "post" => copied = <<>>
  /\ halted => thread = "none"
  /\ owner \in {"close", "gone"} => halted
  /\ owner = "gone" => pool = "joined"
  /\ pool = "joined" => Joined

(* While the camera streams it has a thread; one that ended has shown all.  *)
Started ==
  /\ ~Camera => owner = "free"
  /\ Camera /\ owner = "free" =>
       /\ streaming <=> thread \in {"loop", "handle", "post"}
       /\ thread = "ended" => source = "camera" /\ frames = <<>>
  /\ owner \in {"stop", "destroy"} => ~streaming
  /\ OnlyExhaustedAborts

LifeInv == Quiet /\ Started

LEMMA LifeInvInit == Init => LifeInv
BY DEF Init, EventsInit, LifeInv, Quiet, Started, OnlyExhaustedAborts, Camera

LEMMA LifeInvNext == TypeOK /\ LifeInv /\ [Next]_vars => LifeInv'
<1> SUFFICES ASSUME TypeOK, LifeInv, [Next]_vars PROVE LifeInv'
  OBVIOUS
<1> USE DEF LifeInv, Quiet, Started, OnlyExhaustedAborts, Camera
<1>1. CASE Client
  <2>1. UNCHANGED <<copied, running, pool>>
    BY <1>1 DEF Client, EnterCall, FinishCall
  <2> QED
    BY <1>1, <2>1 DEF Client, Joined, Idle
<1>2. CASE Start
  <2>1. thread \in {"none", "loop", "handle", "post", "ended"}
    BY DEF TypeOK
  <2> QED
    BY <1>2, <2>1 DEF Start, Free, Joined, Idle
<1>3. CASE Stop("stop") \/ Stop("destroy")
  BY <1>3 DEF Stop, Free, Joined, Idle
<1>4. CASE Join
  BY <1>4 DEF Join, Ended, Joined, Idle
<1>5. CASE Close
  <2>1. UNCHANGED <<copied, running>> /\ (pool' = "joined" => Joined)
    BY <1>5 DEF Close, StopPool, JoinPool
  <2> QED
    BY <1>5, <2>1 DEF Close, Joined, Idle
<1>6. CASE Stream
  BY <1>6 DEF Stream, Running, Exhausted, Joined, Idle, TypeOK
<1>7. CASE HandleFrame
  <2>1. UNCHANGED <<running, pool>>
    BY <1>7 DEF HandleFrame, Publish
  <2> QED
    BY <1>7, <2>1 DEF HandleFrame, Running, Joined, Idle
<1>8. CASE PostFrame
  <2>1. UNCHANGED <<running, pool>>
    BY <1>8 DEF PostFrame, Post
  <2> QED
    BY <1>8, <2>1 DEF PostFrame, Running, Joined, Idle
<1>9. CASE Read
  <2>1. UNCHANGED <<running, pool>> /\ (thread' # "post" => copied' = <<>>)
    BY <1>9 DEF Read, Disable, Enable, Publish
  <2>2. UNCHANGED <<source, files, streaming, owner, life>> /\ source = "reader"
        /\ thread = "loop"
    BY <1>9 DEF Read
  <2> QED
    BY <2>1, <2>2 DEF Joined, Idle
<1>10. ASSUME NEW w \in PoolThreads, Deliver(w) PROVE LifeInv'
  <2>1. UNCHANGED <<copied, pool>> /\ (pool = "joined" => Joined')
    <3>1. CASE TakeTask(w)
      BY <3>1 DEF TakeTask
    <3>2. CASE BeginTask(w)
      BY <3>2, NoTaskIsNone DEF BeginTask, Holds, Joined, Idle
    <3>3. CASE EndTask(w)
      BY <3>3, NoTaskIsNone DEF EndTask, Joined, Idle
    <3> QED
      BY <1>10, <3>1, <3>2, <3>3 DEF Deliver
  <2> QED
    BY <1>10, <2>1 DEF Deliver
<1>11. CASE UNCHANGED vars
  BY <1>11 DEF Joined, Idle
<1> QED
  BY <1>1, <1>2, <1>3, <1>4, <1>5, <1>6, <1>7, <1>8, <1>9, <1>10, <1>11 DEF Next

LEMMA LifeInvariant == Spec => []LifeInv
BY LifeInvInit, LifeInvNext, TypeCorrect, PTL DEF Spec

(* stop() and ~FakeCamera: once stop has returned nothing is published or   *)
(* posted until the next start, and once the camera is gone no observer is  *)
(* in a call, whatever was queued.                                          *)
THEOREM StoppedIsQuiet == Spec => []StopIsQuiet
<1>1. LifeInv => StopIsQuiet
  BY DEF LifeInv, Quiet, StopIsQuiet, Joined
<1> QED
  BY <1>1, LifeInvariant, PTL

(* start() (fake_camera.cpp:36-46): std::terminate is called only for a     *)
(* camera that shows its files once and has shown them all.                 *)
THEOREM AbortIsExhausted == Spec => []OnlyExhaustedAborts
<1>1. LifeInv => OnlyExhaustedAborts
  BY DEF LifeInv, Started
<1> QED
  BY <1>1, LifeInvariant, PTL

----------------------------------------------------------------------------
(* The list: whom it holds.                                                 *)

Calling(h) == call # NoCall /\ call.handler = h

ListInv ==
  IF enabled
    THEN /\ \A h \in Handlers :
              h \notin strayed /\ ~Calling(h) => (h \in ToSet(subscribers) <=> h \in wanted)
         /\ call # NoCall /\ call.handler \notin strayed =>
              (call.op = "register" <=> call.handler \in wanted)
    ELSE /\ ToSet(subscribers) \subseteq strayed
         /\ \A h \in Handlers : h \notin strayed => (h \in ToSet(cache) <=> h \in wanted)
         /\ call # NoCall => call.handler \in strayed

LEMMA ListInvNext ==
  ASSUME EventsTypeOK, ListInv, EventStep
  PROVE  ListInv'
<1>0. /\ subscribers \in Seq(Handlers) /\ IsInjective(subscribers)
      /\ call # NoCall => call.handler \in Handlers /\ call.op \in {"register", "unregister"}
  BY DEF EventsTypeOK, Calls
<1>1. ASSUME NEW op \in {"register", "unregister"}, NEW h \in Handlers, EnterCall(op, h)
      PROVE  ListInv'
  <2>1. CASE enabled
    <3>1. /\ enabled' /\ subscribers' = subscribers /\ call = NoCall
          /\ call' = [op |-> op, handler |-> h] /\ strayed' = strayed \ {h}
          /\ wanted' = IF op = "register" THEN wanted \cup {h} ELSE wanted \ {h}
      BY <1>1, <2>1 DEF EnterCall
    <3>2. call' # NoCall /\ call'.handler = h /\ call'.op = op
      BY <3>1 DEF NoCall
    <3>3. \A g \in Handlers : g # h => (g \in wanted' <=> g \in wanted)
                                      /\ (g \in strayed' <=> g \in strayed)
      BY <3>1
    <3>4. op = "register" <=> h \in wanted'
      BY <3>1
    <3> QED
      BY <2>1, <3>1, <3>2, <3>3, <3>4 DEF ListInv, Calling
  <2>2. CASE ~enabled
    <3>1. /\ ~enabled' /\ UNCHANGED <<subscribers, cache, call>> /\ call = NoCall
          /\ strayed' = strayed \cup {h}
          /\ wanted' = IF op = "register" THEN wanted \cup {h} ELSE wanted \ {h}
      BY <1>1, <2>2 DEF EnterCall
    <3> QED
      BY <2>2, <3>1 DEF ListInv
  <2> QED
    BY <2>1, <2>2
<1>2. CASE FinishCall
  <2> DEFINE h == call.handler
  <2>1. /\ call # NoCall /\ h \in Handlers /\ call' = NoCall
        /\ UNCHANGED <<cache, enabled, wanted, strayed>>
    BY <1>0, <1>2 DEF FinishCall
  <2>2. ToSet(subscribers') = IF call.op = "register" THEN ToSet(subscribers) \cup {h}
                              ELSE ToSet(subscribers) \ {h}
    <3>1. subscribers' = IF call.op = "register" THEN Added(subscribers, h)
                         ELSE Erased(subscribers, h)
      BY <1>2 DEF FinishCall
    <3> QED
      BY <2>1, <3>1, <1>0, AddedList, ErasedList
  <2> QED
    BY <2>1, <2>2, <1>0 DEF ListInv, Calling
<1>3. CASE Disable
  <2>1. /\ enabled /\ ~enabled' /\ cache' = subscribers /\ subscribers' = <<>>
        /\ strayed' = strayed \cup ({call.handler} \cap Handlers)
        /\ UNCHANGED <<call, wanted>>
    BY <1>3 DEF Disable, Straddle
  <2>2. ToSet(subscribers') = {}
    BY <2>1, NoElements
  <2> QED
    BY <2>1, <2>2, <1>0 DEF ListInv, Calling
<1>4. CASE Enable
  <2>1. /\ ~enabled /\ enabled' /\ cache' = subscribers /\ subscribers' = cache
        /\ strayed' = strayed \cup ({call.handler} \cap Handlers)
        /\ UNCHANGED <<call, wanted>>
    BY <1>4 DEF Enable, Straddle, Restored
  <2> QED
    BY <2>1, <1>0 DEF ListInv, Calling
<1>5. CASE UNCHANGED <<list, call, wanted, strayed>>
  BY <1>5 DEF ListInv, Calling
<1>6. ASSUME \/ Publish \/ Post \/ StopPool \/ JoinPool \/ UNCHANGED eventVars
             \/ \E w \in PoolThreads : TakeTask(w) \/ BeginTask(w) \/ EndTask(w)
      PROVE  UNCHANGED <<list, call, wanted, strayed>>
  BY <1>6 DEF Publish, Post, TakeTask, BeginTask, EndTask, StopPool, JoinPool
<1> QED
  BY <1>1, <1>2, <1>3, <1>4, <1>5, <1>6 DEF EventStep

(* disable() and enable() (event_handler_list.hpp:57-82): calls apart that  *)
(* met a disabled list or overlapped its change, an enabled list holds the  *)
(* observers that are wanted and a disabled list tells nobody.              *)
THEOREM ListHoldsWanted == Spec => []ListIsWanted
<1>1. Init => ListInv
  <2> SUFFICES ASSUME Init PROVE ListInv
    OBVIOUS
  <2>1. ToSet(subscribers) = {} /\ enabled /\ call = NoCall /\ wanted = {}
    BY NoElements DEF Init, EventsInit
  <2> QED
    BY <2>1 DEF ListInv
<1>2. TypeOK /\ ListInv /\ [Next]_vars => ListInv'
  BY StepOfEvents, ListInvNext DEF TypeOK
<1>3. TypeOK /\ ListInv => ListIsWanted
  <2> SUFFICES ASSUME TypeOK, ListInv, call = NoCall
               PROVE  IF enabled THEN ToSet(subscribers) \ strayed = wanted \ strayed
                      ELSE ToSet(subscribers) \subseteq strayed
    BY DEF ListIsWanted
  <2>1. ToSet(subscribers) \subseteq Handlers /\ wanted \subseteq Handlers
    BY ListElements DEF TypeOK, EventsTypeOK
  <2> QED
    BY <2>1 DEF ListInv, Calling
<1> QED
  BY <1>1, <1>2, <1>3, TypeCorrect, PTL DEF Spec

----------------------------------------------------------------------------
(* The calls: each once and none too late; what waits for its call.         *)

TasksInOrder ==
  \A i, j \in 1 .. Len(tasks) :
    i < j /\ tasks[i].handler = tasks[j].handler => tasks[i].event < tasks[j].event

TasksAhead ==
  \A i \in 1 .. Len(tasks) :
    /\ tasks[i].event \notin heard[tasks[i].handler]
    /\ tasks[i].event <= event /\ tasks[i].event <= until[tasks[i].handler]

Has(w, h, t) == running[w] = [handler |-> h, event |-> t]

(* What a thread has taken was in front of what is in the queue.            *)
TakenAhead ==
  \A w \in PoolThreads, h \in Handlers, t \in 1 .. MaxEvents :
    Has(w, h, t) =>
      /\ t \notin heard[h] /\ t <= event /\ t <= until[h]
      /\ \A i \in 1 .. Len(tasks) : tasks[i].handler = h => t < tasks[i].event
      /\ \A v \in PoolThreads : Has(v, h, t) => v = w

(* The event being posted is newer than what its observers were posted.     *)
CopyAhead ==
  /\ IsInjective(copied)
  /\ \A h \in ToSet(copied) :
       /\ event \notin heard[h] /\ event <= until[h]
       /\ \A i \in 1 .. Len(tasks) : tasks[i].handler = h => tasks[i].event < event
       /\ \A w \in PoolThreads : ~Has(w, h, event)

HeardPublished == \A h \in Handlers : \A e \in heard[h] : e <= event

(* Observers in the list are told for ever; one call at most, begun before, *)
(* adds to a disabled list.                                                 *)
ListedForEver ==
  /\ \A h \in ToSet(subscribers) : until[h] = Never
  /\ ~enabled => \A h \in ToSet(cache) : until[h] = Never
  /\ ~enabled /\ subscribers # <<>> => call = NoCall

TimelyInv ==
  /\ TasksInOrder /\ TasksAhead /\ TakenAhead /\ CopyAhead
  /\ HeardPublished /\ ListedForEver

LEMMA HasTask ==
  ASSUME NEW h \in Handlers, NEW t \in 1 .. MaxEvents
  PROVE  [handler |-> h, event |-> t] \in Tasks
BY DEF Tasks

LEMMA TaskIs ==
  ASSUME NEW t \in Tasks
  PROVE  /\ t.handler \in Handlers /\ t.event \in 1 .. MaxEvents /\ t.event \in Nat
         /\ t = [handler |-> t.handler, event |-> t.event]
BY DEF Tasks

(* Nothing that waits is overdue when an observer is added or erased.       *)
LEMMA UntilKeepsTimely ==
  ASSUME EventsTypeOK, TimelyInv, UNCHANGED <<tasks, running, heard, copied, event>>,
         \A h \in Handlers : until'[h] \in {until[h], event, Never}
  PROVE  /\ TasksInOrder' /\ TasksAhead' /\ TakenAhead' /\ CopyAhead'
         /\ HeardPublished'
<1>1. /\ event \in Nat /\ event <= MaxEvents /\ Never = MaxEvents + 1 /\ MaxEvents \in Nat
      /\ tasks \in Seq(Tasks) /\ copied \in Seq(Handlers)
      /\ until \in [Handlers -> 0 .. Never]
  BY EventConstants DEF EventsTypeOK, Never
<1>2. ASSUME NEW h \in Handlers, NEW t \in Nat, t <= event, t <= until[h]
      PROVE  t <= until'[h]
  <2>1. t <= Never
    BY <1>1, <1>2
  <2> QED
    BY <1>2, <2>1
<1>3. TasksAhead'
  <2> SUFFICES ASSUME NEW i \in 1 .. Len(tasks) PROVE tasks[i].event <= until'[tasks[i].handler]
    BY DEF TimelyInv, TasksAhead
  <2>1. tasks[i] \in Tasks
    BY <1>1
  <2>2. tasks[i].handler \in Handlers /\ tasks[i].event \in Nat
    BY <2>1, TaskIs
  <2>3. tasks[i].event <= event /\ tasks[i].event <= until[tasks[i].handler]
    BY DEF TimelyInv, TasksAhead
  <2> QED
    BY <1>2, <2>2, <2>3
<1>4. TakenAhead'
  <2> SUFFICES ASSUME NEW w \in PoolThreads, NEW h \in Handlers, NEW t \in 1 .. MaxEvents,
                      Has(w, h, t)
               PROVE  t <= until'[h]
    BY DEF TimelyInv, TakenAhead, Has
  <2>1. t <= event /\ t <= until[h]
    BY DEF TimelyInv, TakenAhead
  <2> QED
    BY <1>2, <2>1
<1>5. CopyAhead'
  <2> SUFFICES ASSUME NEW h \in ToSet(copied) PROVE event <= until'[h]
    BY DEF TimelyInv, CopyAhead, Has
  <2>1. h \in Handlers /\ event <= until[h]
    BY <1>1, ListElements DEF TimelyInv, CopyAhead
  <2> QED
    BY <1>1, <1>2, <2>1
<1> QED
  BY <1>3, <1>4, <1>5 DEF TimelyInv, TasksInOrder, HeardPublished

LEMMA FinishCallTimely ==
  ASSUME EventsTypeOK, TimelyInv, FinishCall
  PROVE  TimelyInv'
<1> DEFINE h == call.handler
<1>1. /\ call # NoCall /\ h \in Handlers /\ call' = NoCall
      /\ UNCHANGED <<cache, enabled, tasks, running, heard, copied, event>>
  BY DEF FinishCall, EventsTypeOK, Calls
<1>2. /\ subscribers \in Seq(Handlers) /\ until \in [Handlers -> 0 .. Never]
      /\ IsInjective(subscribers)
  BY DEF EventsTypeOK
<1>3. \A g \in ToSet(subscribers) \cup ToSet(cache) : g \in Handlers
  BY ListElements DEF EventsTypeOK
<1>4. CASE call.op = "register"
  <2>1. subscribers' = Added(subscribers, h) /\ until' = [until EXCEPT ![h] = Never]
    BY <1>4 DEF FinishCall
  <2>2. ToSet(subscribers') = ToSet(subscribers) \cup {h}
    BY <1>1, <1>2, <2>1, AddedList
  <2>3. until'[h] = Never /\ \A g \in Handlers : g # h => until'[g] = until[g]
    BY <1>1, <1>2, <2>1
  <2>4. ListedForEver'
    BY <1>1, <1>3, <2>2, <2>3 DEF TimelyInv, ListedForEver
  <2>5. \A g \in Handlers : until'[g] \in {until[g], event, Never}
    BY <2>3
  <2> QED
    BY <1>1, <2>4, <2>5, UntilKeepsTimely DEF TimelyInv
<1>5. CASE call.op # "register"
  <2>1. /\ subscribers' = Erased(subscribers, h)
        /\ until' = [until EXCEPT ![h] = IF h \in ToSet(subscribers) THEN event ELSE @]
    BY <1>5 DEF FinishCall
  <2>2. ToSet(subscribers') = ToSet(subscribers) \ {h}
    BY <1>1, <1>2, <2>1, ErasedList
  <2>3. /\ until'[h] = IF h \in ToSet(subscribers) THEN event ELSE until[h]
        /\ \A g \in Handlers : g # h => until'[g] = until[g]
    BY <1>1, <1>2, <2>1
  <2>4. ListedForEver'
    <3>1. CASE enabled
      BY <1>1, <1>3, <2>2, <2>3, <3>1 DEF TimelyInv, ListedForEver
    <3>2. CASE ~enabled
      <4>1. subscribers = <<>>
        BY <1>1, <3>2 DEF TimelyInv, ListedForEver
      <4>2. ToSet(subscribers) = {}
        BY <4>1, NoElements
      <4>3. \A g \in Handlers : until'[g] = until[g]
        BY <2>3, <4>2
      <4> QED
        BY <1>1, <1>3, <2>2, <3>2, <4>2, <4>3 DEF TimelyInv, ListedForEver
    <3> QED
      BY <3>1, <3>2
  <2>5. \A g \in Handlers : until'[g] \in {until[g], event, Never}
    BY <2>3
  <2> QED
    BY <1>1, <2>4, <2>5, UntilKeepsTimely DEF TimelyInv
<1> QED
  BY <1>4, <1>5

LEMMA PostTimely ==
  ASSUME EventsTypeOK, CopyIsOfEvent, TimelyInv, Post
  PROVE  TimelyInv'
<1> DEFINE t == [handler |-> Head(copied), event |-> event]
           n == Len(tasks)
<1>1. /\ copied # <<>> /\ tasks' = Append(tasks, t) /\ copied' = Tail(copied)
      /\ UNCHANGED <<subscribers, cache, enabled, call, running, heard, event, until>>
  BY DEF Post, Others
<1>2. tasks \in Seq(Tasks) /\ copied \in Seq(Handlers) /\ event \in Nat /\ n \in Nat
  BY DEF EventsTypeOK
<1>3. /\ Head(copied) \in Handlers /\ Head(copied) \in ToSet(copied)
      /\ ToSet(Tail(copied)) = ToSet(copied) \ {Head(copied)} /\ IsInjective(Tail(copied))
  BY <1>1, <1>2, TailList DEF TimelyInv, CopyAhead
<1>4. /\ Len(tasks') = n + 1 /\ tasks'[n + 1] = t
      /\ \A i \in 1 .. n : tasks'[i] = tasks[i]
  BY <1>1, <1>2
<1>5. /\ event \notin heard[t.handler] /\ event <= until[t.handler]
      /\ \A i \in 1 .. n : tasks[i].handler = t.handler => tasks[i].event < event
      /\ \A w \in PoolThreads : ~Has(w, t.handler, event)
  BY <1>3 DEF TimelyInv, CopyAhead
<1>6. t.handler = Head(copied) /\ t.event = event
  OBVIOUS
<1> HIDE DEF t, n
<1>7. TasksInOrder'
  <2> SUFFICES ASSUME NEW i \in 1 .. n + 1, NEW j \in 1 .. n + 1, i < j,
                      tasks'[i].handler = tasks'[j].handler
               PROVE  tasks'[i].event < tasks'[j].event
    BY <1>4 DEF TasksInOrder
  <2>1. i \in 1 .. n
    BY <1>2
  <2>2. CASE j \in 1 .. n
    BY <1>4, <2>1, <2>2 DEF TimelyInv, TasksInOrder, n
  <2>3. CASE j = n + 1
    BY <1>4, <1>5, <1>6, <2>1, <2>3
  <2> QED
    BY <1>2, <2>2, <2>3
<1>8. TasksAhead'
  <2> SUFFICES ASSUME NEW i \in 1 .. n + 1
               PROVE  /\ tasks'[i].event \notin heard[tasks'[i].handler]
                      /\ tasks'[i].event <= event /\ tasks'[i].event <= until[tasks'[i].handler]
    BY <1>1, <1>4 DEF TasksAhead
  <2>1. CASE i \in 1 .. n
    BY <1>4, <2>1 DEF TimelyInv, TasksAhead, n
  <2>2. CASE i = n + 1
    BY <1>2, <1>4, <1>5, <1>6, <2>2
  <2> QED
    BY <1>2, <2>1, <2>2
<1>9. TakenAhead'
  <2> SUFFICES ASSUME NEW w \in PoolThreads, NEW h \in Handlers, NEW s \in 1 .. MaxEvents,
                      Has(w, h, s), NEW i \in 1 .. n + 1, tasks'[i].handler = h
               PROVE  s < tasks'[i].event
    BY <1>1, <1>4 DEF TimelyInv, TakenAhead, Has
  <2>1. CASE i \in 1 .. n
    BY <1>4, <2>1 DEF TimelyInv, TakenAhead, n
  <2>2. CASE i = n + 1
    <3>1. h = t.handler /\ tasks'[i].event = event
      BY <1>4, <1>6, <2>2
    <3>2. s <= event /\ s # event
      BY <1>5, <3>1 DEF TimelyInv, TakenAhead
    <3> QED
      BY <1>2, <3>1, <3>2
  <2> QED
    BY <1>2, <2>1, <2>2
<1>10. CopyAhead'
  <2> SUFFICES ASSUME NEW h \in ToSet(copied) \ {Head(copied)}
               PROVE  /\ event \notin heard[h] /\ event <= until[h]
                      /\ \A i \in 1 .. n + 1 : tasks'[i].handler = h => tasks'[i].event < event
                      /\ \A w \in PoolThreads : ~Has(w, h, event)
    BY <1>1, <1>3, <1>4 DEF CopyAhead, Has
  <2>1. /\ event \notin heard[h] /\ event <= until[h]
        /\ \A i \in 1 .. n : tasks[i].handler = h => tasks[i].event < event
        /\ \A w \in PoolThreads : ~Has(w, h, event)
    BY DEF TimelyInv, CopyAhead, n
  <2>2. \A i \in 1 .. n + 1 : i \in 1 .. n \/ i = n + 1
    BY <1>2
  <2> QED
    BY <1>4, <1>6, <2>1, <2>2
<1>11. HeardPublished' /\ ListedForEver'
  BY <1>1 DEF TimelyInv, HeardPublished, ListedForEver
<1> QED
  BY <1>7, <1>8, <1>9, <1>10, <1>11 DEF TimelyInv

(* What a thread takes: the front of the queue.                             *)
LEMMA TaskTaken ==
  ASSUME EventsTypeOK, NEW w \in PoolThreads, TakeTask(w)
  PROVE  /\ Len(tasks) \in Nat /\ 1 \in 1 .. Len(tasks) /\ tasks[1] \in Tasks
         /\ Len(tasks') = Len(tasks) - 1
         /\ \A i \in 1 .. Len(tasks) - 1 :
              i + 1 \in 1 .. Len(tasks) /\ tasks'[i] = tasks[i + 1] /\ tasks[i + 1] \in Tasks
         /\ running' = [running EXCEPT ![w] = tasks[1]]
         /\ running'[w] = tasks[1] /\ \A v \in PoolThreads : v # w => running'[v] = running[v]
         /\ running[w] = NoTask
         /\ UNCHANGED <<subscribers, cache, enabled, call, copied, heard, event, since, until>>
<1> DEFINE n == Len(tasks)
           r == RemoveAt(tasks, 1)
<1>1. /\ tasks # <<>> /\ tasks' = r /\ running' = [running EXCEPT ![w] = tasks[1]]
      /\ running[w] = NoTask
      /\ UNCHANGED <<subscribers, cache, enabled, call, copied, heard, event, since, until>>
  BY DEF TakeTask, NextTask, Idle
<1>2. tasks \in Seq(Tasks) /\ n \in Nat /\ 1 \in 1 .. n /\ tasks[1] \in Tasks
  BY <1>1 DEF EventsTypeOK
<1>3. /\ Len(r) = n - 1
      /\ \A i \in 1 .. n - 1 : r[i] = IF i < 1 THEN tasks[i] ELSE tasks[i + 1]
  BY <1>2, Removed
<1>4. \A i \in 1 .. n - 1 : i + 1 \in 1 .. n /\ ~(i < 1) /\ tasks[i + 1] \in Tasks
  BY <1>2
<1>5. running'[w] = tasks[1] /\ \A v \in PoolThreads : v # w => running'[v] = running[v]
  BY <1>1 DEF EventsTypeOK
<1> HIDE DEF r
<1> QED
  BY <1>1, <1>2, <1>3, <1>4, <1>5

LEMMA TakeTaskTimely ==
  ASSUME EventsTypeOK, TimelyInv, NEW w \in PoolThreads, TakeTask(w)
  PROVE  TimelyInv'
<1> DEFINE t == tasks[1]
           n == Len(tasks)
<1>1. /\ n \in Nat /\ 1 \in 1 .. n /\ t \in Tasks /\ Len(tasks') = n - 1
      /\ \A i \in 1 .. n - 1 :
           i + 1 \in 1 .. n /\ tasks'[i] = tasks[i + 1] /\ tasks[i + 1] \in Tasks
  BY TaskTaken
<1>2. /\ running'[w] = t /\ \A v \in PoolThreads : v # w => running'[v] = running[v]
      /\ UNCHANGED <<subscribers, cache, enabled, call, copied, heard, event, until>>
  BY TaskTaken
<1>3. /\ t.handler \in Handlers /\ t.event \in 1 .. MaxEvents
      /\ t = [handler |-> t.handler, event |-> t.event]
      /\ t.event \notin heard[t.handler] /\ t.event <= event /\ t.event <= until[t.handler]
  BY <1>1, TaskIs DEF TimelyInv, TasksAhead
<1>4. \A i \in 1 .. n - 1 : tasks'[i].handler = t.handler => t.event < tasks'[i].event
  <2> SUFFICES ASSUME NEW i \in 1 .. n - 1, tasks[i + 1].handler = t.handler
               PROVE  t.event < tasks[i + 1].event
    BY <1>1
  <2>1. i + 1 \in 1 .. n /\ 1 < i + 1
    BY <1>1
  <2> QED
    BY <1>1, <2>1 DEF TimelyInv, TasksInOrder
<1>5. ASSUME NEW h \in Handlers, NEW s \in 1 .. MaxEvents
      PROVE  /\ Has(w, h, s)' => h = t.handler /\ s = t.event
             /\ \A v \in PoolThreads : v # w => (Has(v, h, s)' <=> Has(v, h, s))
             /\ \A v \in PoolThreads : ~Has(v, t.handler, t.event)
  <2>1. Has(w, h, s)' => h = t.handler /\ s = t.event
    BY <1>2 DEF Has
  <2>2. \A v \in PoolThreads : v # w => (Has(v, h, s)' <=> Has(v, h, s))
    BY <1>2 DEF Has
  <2>3. ASSUME NEW v \in PoolThreads, Has(v, t.handler, t.event) PROVE FALSE
    <3>1. t.event < t.event
      BY <1>1, <1>3, <2>3 DEF TimelyInv, TakenAhead
    <3> QED
      BY <1>3, <3>1
  <2> QED
    BY <2>1, <2>2, <2>3
<1> HIDE DEF t, n
<1>6. TasksInOrder'
  <2> SUFFICES ASSUME NEW i \in 1 .. n - 1, NEW j \in 1 .. n - 1, i < j,
                      tasks[i + 1].handler = tasks[j + 1].handler
               PROVE  tasks[i + 1].event < tasks[j + 1].event
    BY <1>1 DEF TasksInOrder
  <2>1. i + 1 \in 1 .. n /\ j + 1 \in 1 .. n /\ i + 1 < j + 1
    BY <1>1
  <2> QED
    BY <2>1 DEF TimelyInv, TasksInOrder, n
<1>7. TasksAhead'
  <2> SUFFICES ASSUME NEW i \in 1 .. n - 1
               PROVE  /\ tasks[i + 1].event \notin heard[tasks[i + 1].handler]
                      /\ tasks[i + 1].event <= event
                      /\ tasks[i + 1].event <= until[tasks[i + 1].handler]
    BY <1>1, <1>2 DEF TasksAhead
  <2>1. i + 1 \in 1 .. n
    BY <1>1
  <2> QED
    BY <2>1 DEF TimelyInv, TasksAhead, n
<1>8. TakenAhead'
  <2> SUFFICES ASSUME NEW v \in PoolThreads, NEW h \in Handlers, NEW s \in 1 .. MaxEvents,
                      Has(v, h, s)'
               PROVE  /\ s \notin heard[h] /\ s <= event /\ s <= until[h]
                      /\ \A i \in 1 .. n - 1 : tasks'[i].handler = h => s < tasks'[i].event
                      /\ \A u \in PoolThreads : Has(u, h, s)' => u = v
    BY <1>1, <1>2 DEF TakenAhead
  <2>1. CASE v = w
    BY <1>3, <1>4, <1>5, <2>1
  <2>2. CASE v # w
    <3>1. Has(v, h, s)
      BY <1>5, <2>2
    <3>2. ASSUME NEW i \in 1 .. n - 1, tasks'[i].handler = h PROVE s < tasks'[i].event
      <4>1. i + 1 \in 1 .. n /\ tasks'[i] = tasks[i + 1]
        BY <1>1
      <4> QED
        BY <3>1, <3>2, <4>1 DEF TimelyInv, TakenAhead, n
    <3>3. ASSUME NEW u \in PoolThreads, Has(u, h, s)' PROVE u = v
      <4>1. u # w
        BY <1>5, <3>1, <3>3
      <4>2. Has(u, h, s)
        BY <1>5, <3>3, <4>1
      <4> QED
        BY <3>1, <4>2 DEF TimelyInv, TakenAhead
    <3> QED
      BY <3>1, <3>2, <3>3 DEF TimelyInv, TakenAhead
  <2> QED
    BY <2>1, <2>2
<1>9. CopyAhead'
  <2> SUFFICES ASSUME NEW h \in ToSet(copied)
               PROVE  /\ \A i \in 1 .. n - 1 : tasks'[i].handler = h => tasks'[i].event < event
                      /\ \A v \in PoolThreads : ~Has(v, h, event)'
    BY <1>1, <1>2 DEF TimelyInv, CopyAhead, Has
  <2>1. /\ \A i \in 1 .. n : tasks[i].handler = h => tasks[i].event < event
        /\ \A v \in PoolThreads : ~Has(v, h, event)
    BY DEF TimelyInv, CopyAhead, n
  <2>2. \A i \in 1 .. n - 1 : tasks'[i].handler = h => tasks'[i].event < event
    BY <1>1, <2>1
  <2>3. ASSUME NEW v \in PoolThreads PROVE ~Has(v, h, event)'
    <3>1. CASE v # w
      BY <1>2, <2>1, <3>1 DEF Has
    <3>2. CASE v = w
      <4> SUFFICES ASSUME Has(v, h, event)' PROVE FALSE
        OBVIOUS
      <4>1. t.handler = h /\ t.event = event
        BY <1>2, <3>2 DEF Has
      <4>2. t.event < event
        BY <1>1, <2>1, <4>1 DEF t
      <4> QED
        BY <1>3, <4>1, <4>2
    <3> QED
      BY <3>1, <3>2
  <2> QED
    BY <2>2, <2>3
<1> QED
  BY <1>2, <1>6, <1>7, <1>8, <1>9 DEF TimelyInv, HeardPublished, ListedForEver

(* What a thread that begins its call has in hands.                         *)
LEMMA TaskBegun ==
  ASSUME EventsTypeOK, NEW w \in PoolThreads, BeginTask(w)
  PROVE  \E h \in Handlers, t \in 1 .. MaxEvents :
           /\ Has(w, h, t)
           /\ heard' = [heard EXCEPT ![h] = @ \cup {t}]
           /\ heard'[h] = heard[h] \cup {t}
           /\ \A g \in Handlers : g # h => heard'[g] = heard[g]
           /\ running'[w] = InCall /\ \A v \in PoolThreads : v # w => running'[v] = running[v]
           /\ UNCHANGED <<subscribers, cache, enabled, call, copied, tasks, event, since, until>>
<1> DEFINE h == running[w].handler
           t == running[w].event
<1>1. /\ running[w] \in Tasks
      /\ heard' = [heard EXCEPT ![h] = @ \cup {t}]
      /\ running' = [running EXCEPT ![w] = InCall]
      /\ UNCHANGED <<subscribers, cache, enabled, call, copied, tasks, event, since, until>>
  BY DEF BeginTask, Holds
<1>2. h \in Handlers /\ t \in 1 .. MaxEvents /\ Has(w, h, t)
  BY <1>1, TaskIs DEF Has
<1> HIDE DEF h, t
<1>3. heard'[h] = heard[h] \cup {t} /\ \A g \in Handlers : g # h => heard'[g] = heard[g]
  BY <1>1, <1>2 DEF EventsTypeOK
<1>4. running'[w] = InCall /\ \A v \in PoolThreads : v # w => running'[v] = running[v]
  BY <1>1 DEF EventsTypeOK
<1> QED
  BY <1>1, <1>2, <1>3, <1>4

LEMMA NoneHas ==
  ASSUME NEW w \in PoolThreads, NEW h \in Handlers, NEW t \in 1 .. MaxEvents,
         running[w] \in {NoTask, InCall}
  PROVE  ~Has(w, h, t)
BY NoTaskIsNone, HasTask DEF Has

LEMMA BeginTaskTimely ==
  ASSUME EventsTypeOK, TimelyInv, NEW w \in PoolThreads, BeginTask(w)
  PROVE  TimelyInv'
<1>1. PICK h \in Handlers, t \in 1 .. MaxEvents :
        /\ Has(w, h, t)
        /\ heard' = [heard EXCEPT ![h] = @ \cup {t}]
        /\ heard'[h] = heard[h] \cup {t}
        /\ \A g \in Handlers : g # h => heard'[g] = heard[g]
        /\ running'[w] = InCall /\ \A v \in PoolThreads : v # w => running'[v] = running[v]
        /\ UNCHANGED <<subscribers, cache, enabled, call, copied, tasks, event, since, until>>
  BY TaskBegun
<1>2. /\ tasks \in Seq(Tasks) /\ copied \in Seq(Handlers) /\ event \in Nat
  BY DEF EventsTypeOK
<1>3. /\ t <= event
      /\ \A i \in 1 .. Len(tasks) : tasks[i].handler = h => t < tasks[i].event
      /\ \A v \in PoolThreads : Has(v, h, t) => v = w
  BY <1>1 DEF TimelyInv, TakenAhead
<1>4. ASSUME NEW v \in PoolThreads, NEW g \in Handlers, NEW s \in 1 .. MaxEvents, Has(v, g, s)'
      PROVE  v # w /\ Has(v, g, s)
  <2>1. v # w
    <3>1. [handler |-> g, event |-> s] # InCall
      BY NoTaskIsNone, HasTask
    <3> QED
      BY <1>1, <1>4, <3>1 DEF Has
  <2> QED
    BY <1>1, <1>4, <2>1 DEF Has
<1>5. TasksAhead'
  <2> SUFFICES ASSUME NEW i \in 1 .. Len(tasks)
               PROVE  /\ tasks[i].event \notin heard'[tasks[i].handler]
                      /\ tasks[i].event <= event /\ tasks[i].event <= until[tasks[i].handler]
    BY <1>1 DEF TasksAhead
  <2>1. tasks[i] \in Tasks
    BY <1>2
  <2>2. tasks[i].handler \in Handlers /\ tasks[i].event \in Nat
    BY <2>1, TaskIs
  <2>3. /\ tasks[i].event \notin heard[tasks[i].handler]
        /\ tasks[i].event <= event /\ tasks[i].event <= until[tasks[i].handler]
    BY DEF TimelyInv, TasksAhead
  <2>4. tasks[i].handler = h => tasks[i].event # t
    BY <1>3, <2>2
  <2> QED
    BY <1>1, <2>2, <2>3, <2>4
<1>6. TakenAhead'
  <2> SUFFICES ASSUME NEW v \in PoolThreads, NEW g \in Handlers, NEW s \in 1 .. MaxEvents,
                      Has(v, g, s)'
               PROVE  /\ s \notin heard'[g] /\ s <= event /\ s <= until[g]
                      /\ \A i \in 1 .. Len(tasks) : tasks[i].handler = g => s < tasks[i].event
                      /\ \A u \in PoolThreads : Has(u, g, s)' => u = v
    BY <1>1 DEF TakenAhead
  <2>1. v # w /\ Has(v, g, s)
    BY <1>4
  <2>2. /\ s \notin heard[g] /\ s <= event /\ s <= until[g]
        /\ \A i \in 1 .. Len(tasks) : tasks[i].handler = g => s < tasks[i].event
        /\ \A u \in PoolThreads : Has(u, g, s) => u = v
    BY <2>1 DEF TimelyInv, TakenAhead
  <2>3. g = h => s # t
    BY <1>1, <2>1, <2>2
  <2>4. s \notin heard'[g]
    BY <1>1, <2>2, <2>3
  <2> QED
    BY <1>4, <2>2, <2>4
<1>7. CopyAhead'
  <2> SUFFICES ASSUME NEW g \in ToSet(copied)
               PROVE  event \notin heard'[g] /\ \A v \in PoolThreads : ~Has(v, g, event)'
    BY <1>1 DEF TimelyInv, CopyAhead
  <2>1. /\ g \in Handlers /\ event \notin heard[g] /\ \A v \in PoolThreads : ~Has(v, g, event)
    BY <1>2, ListElements DEF TimelyInv, CopyAhead
  <2>2. event \notin heard'[g]
    BY <1>1, <2>1
  <2>3. event \in 1 .. MaxEvents
    BY <1>2, <1>3 DEF EventsTypeOK
  <2>4. event' = event
    BY <1>1
  <2>5. \A v \in PoolThreads : ~Has(v, g, event)'
    BY <1>4, <2>1, <2>3, <2>4 DEF Has
  <2> QED
    BY <2>2, <2>5
<1>8. HeardPublished'
  <2> SUFFICES ASSUME NEW g \in Handlers, NEW e \in heard'[g] PROVE e <= event
    BY <1>1 DEF HeardPublished
  <2>1. CASE e \in heard[g]
    BY <2>1 DEF TimelyInv, HeardPublished
  <2>2. CASE e = t
    BY <1>3, <2>2
  <2> QED
    BY <1>1, <2>1, <2>2
<1>9. TasksInOrder' /\ ListedForEver'
  BY <1>1 DEF TimelyInv, TasksInOrder, ListedForEver
<1> QED
  BY <1>5, <1>6, <1>7, <1>8, <1>9 DEF TimelyInv

LEMMA EndTaskTimely ==
  ASSUME EventsTypeOK, CopyIsOfEvent, TimelyInv, NEW w \in PoolThreads, EndTask(w)
  PROVE  TimelyInv'
<1>1. /\ running' = [running EXCEPT ![w] = NoTask]
      /\ UNCHANGED <<subscribers, cache, enabled, call, copied, tasks, heard, event, until>>
  BY DEF EndTask
<1>2. running'[w] = NoTask /\ \A v \in PoolThreads : v # w => running'[v] = running[v]
  BY <1>1 DEF EventsTypeOK
<1>3. ASSUME NEW v \in PoolThreads, NEW h \in Handlers, NEW t \in 1 .. MaxEvents, Has(v, h, t)'
      PROVE  Has(v, h, t)
  <2>1. v # w
    <3>1. [handler |-> h, event |-> t] # NoTask
      BY NoTaskIsNone, HasTask
    <3> QED
      BY <1>2, <1>3, <3>1 DEF Has
  <2> QED
    BY <1>2, <1>3, <2>1 DEF Has
<1>4. TakenAhead'
  <2> SUFFICES ASSUME NEW v \in PoolThreads, NEW h \in Handlers, NEW t \in 1 .. MaxEvents,
                      Has(v, h, t)'
               PROVE  /\ t \notin heard[h] /\ t <= event /\ t <= until[h]
                      /\ \A i \in 1 .. Len(tasks) : tasks[i].handler = h => t < tasks[i].event
                      /\ \A u \in PoolThreads : Has(u, h, t)' => u = v
    BY <1>1 DEF TakenAhead
  <2>1. Has(v, h, t) /\ \A u \in PoolThreads : Has(u, h, t)' => Has(u, h, t)
    BY <1>3
  <2> QED
    BY <2>1 DEF TimelyInv, TakenAhead
<1>5. CopyAhead'
  <2> SUFFICES ASSUME NEW h \in ToSet(copied), NEW v \in PoolThreads, Has(v, h, event)'
               PROVE  FALSE
    BY <1>1 DEF TimelyInv, CopyAhead
  <2>1. h \in Handlers /\ ~Has(v, h, event)
    BY ListElements DEF TimelyInv, CopyAhead, EventsTypeOK
  <2>2. copied # <<>>
    BY NoElements
  <2>3. event \in 1 .. MaxEvents /\ event' = event
    BY <1>1, <2>2 DEF CopyIsOfEvent, EventsTypeOK
  <2> QED
    BY <1>3, <2>1, <2>3 DEF Has
<1> QED
  BY <1>1, <1>4, <1>5 DEF TimelyInv, TasksInOrder, TasksAhead, HeardPublished, ListedForEver

LEMMA TimelyNext ==
  ASSUME EventsTypeOK, CopyIsOfEvent, TimelyInv, EventStep
  PROVE  TimelyInv'
<1>0. /\ event \in Nat /\ event <= MaxEvents /\ Never = MaxEvents + 1 /\ MaxEvents \in Nat
      /\ subscribers \in Seq(Handlers) /\ cache \in Seq(Handlers)
      /\ IsInjective(subscribers) /\ tasks \in Seq(Tasks)
      /\ heard \in [Handlers -> SUBSET (1 .. MaxEvents)]
  BY EventConstants DEF EventsTypeOK, Never
<1>1. ASSUME NEW op \in {"register", "unregister"}, NEW h \in Handlers, EnterCall(op, h)
      PROVE  TimelyInv'
  <2>1. /\ UNCHANGED <<subscribers, cache, enabled, copied, tasks, running, heard, event, until>>
        /\ ~enabled => call' = call
    BY <1>1 DEF EnterCall
  <2> QED
    BY <2>1 DEF TimelyInv, TasksInOrder, TasksAhead, TakenAhead, Has, CopyAhead,
                    HeardPublished, ListedForEver
<1>2. CASE FinishCall
  BY <1>2, FinishCallTimely
<1>3. CASE Disable
  <2>1. /\ enabled /\ ~enabled' /\ cache' = subscribers /\ subscribers' = <<>>
        /\ UNCHANGED <<copied, tasks, running, heard, event, until>>
    BY <1>3 DEF Disable
  <2>2. ToSet(subscribers') = {}
    BY <2>1, NoElements
  <2> QED
    BY <2>1, <2>2 DEF TimelyInv, TasksInOrder, TasksAhead, TakenAhead, Has, CopyAhead,
                    HeardPublished, ListedForEver
<1>4. CASE Enable
  <2>1. /\ ~enabled /\ enabled' /\ subscribers' = cache
        /\ UNCHANGED <<copied, tasks, running, heard, event, until>>
    BY <1>4 DEF Enable, Restored
  <2> QED
    BY <2>1 DEF TimelyInv, TasksInOrder, TasksAhead, TakenAhead, Has, CopyAhead,
                    HeardPublished, ListedForEver
<1>5. CASE Publish
  <2>1. /\ event' = event + 1 /\ event < MaxEvents /\ copied' = subscribers
        /\ UNCHANGED <<subscribers, cache, enabled, call, tasks, running, heard, until>>
    BY <1>5 DEF Publish
  <2>2. \A i \in 1 .. Len(tasks) : tasks[i].event \in Nat /\ tasks[i].event <= event
    <3>1. \A i \in 1 .. Len(tasks) : tasks[i] \in Tasks
      BY <1>0
    <3> QED
      BY <3>1 DEF Tasks, TimelyInv, TasksAhead
  <2>3. \A h \in Handlers : heard[h] \subseteq Nat /\ \A e \in heard[h] : e <= event
    BY <1>0 DEF TimelyInv, HeardPublished
  <2>4. TasksAhead'
    BY <1>0, <2>1, <2>2 DEF TimelyInv, TasksAhead
  <2>5. CopyAhead'
    <3>1. \A h \in ToSet(subscribers) : h \in Handlers
      BY <1>0, ListElements
    <3>2. \A h \in ToSet(subscribers) : until[h] = Never
      BY DEF TimelyInv, ListedForEver
    <3>3. \A h \in ToSet(subscribers) : event + 1 \notin heard[h]
      BY <1>0, <2>3, <3>1
    <3>4. \A w \in PoolThreads, h \in ToSet(subscribers) : ~Has(w, h, event + 1)
      BY <1>0, <2>1, <3>1 DEF TimelyInv, TakenAhead
    <3>5. event + 1 <= Never
      BY <1>0, <2>1
    <3>6. \A i \in 1 .. Len(tasks) : tasks[i].event < event + 1
      BY <1>0, <2>2
    <3> QED
      BY <1>0, <2>1, <3>2, <3>3, <3>4, <3>5, <3>6 DEF CopyAhead, Has
  <2>6. HeardPublished'
    BY <1>0, <2>1, <2>3 DEF HeardPublished
  <2>7. TakenAhead'
    <3> SUFFICES ASSUME NEW w \in PoolThreads, NEW h \in Handlers, NEW t \in 1 .. MaxEvents,
                        Has(w, h, t), t <= event
                 PROVE  t <= event + 1
      BY <2>1 DEF TimelyInv, TakenAhead, Has
    <3> QED
      BY <1>0
  <2> QED
    BY <2>1, <2>4, <2>5, <2>6, <2>7 DEF TimelyInv, TasksInOrder, ListedForEver
<1>6. CASE Post
  BY <1>6, PostTimely
<1>7. ASSUME NEW w \in PoolThreads, TakeTask(w) \/ BeginTask(w) \/ EndTask(w)
      PROVE  TimelyInv'
  BY <1>7, TakeTaskTimely, BeginTaskTimely, EndTaskTimely
<1>8. ASSUME UNCHANGED <<list, call, copied, tasks, running, heard, event, until>> PROVE TimelyInv'
  BY <1>8 DEF TimelyInv, TasksInOrder, TasksAhead, TakenAhead, Has, CopyAhead,
                    HeardPublished, ListedForEver
<1>9. ASSUME \/ StopPool \/ JoinPool \/ UNCHANGED eventVars
      PROVE  UNCHANGED <<list, call, copied, tasks, running, heard, event, until>>
  BY <1>9 DEF StopPool, JoinPool
<1> QED
  BY <1>1, <1>2, <1>3, <1>4, <1>5, <1>6, <1>7, <1>8, <1>9 DEF EventStep

LEMMA TimelyInvariant == Spec => [](FilesInv /\ TimelyInv)
<1>1. Init => TimelyInv
  <2> SUFFICES ASSUME Init PROVE TimelyInv
    OBVIOUS
  <2>1. Len(tasks) = 0 /\ ToSet(copied) = {} /\ ToSet(subscribers) = {} /\ enabled
    BY NoElements DEF Init, EventsInit
  <2>2. IsInjective(copied) /\ \A h \in Handlers : heard[h] = {}
    BY DEF Init, EventsInit, IsInjective
  <2>3. \A w \in PoolThreads : running[w] = NoTask
    BY DEF Init, EventsInit
  <2>4. TakenAhead
    BY <2>3, NoneHas DEF TakenAhead
  <2> QED
    BY <2>1, <2>2, <2>4 DEF TimelyInv, TasksInOrder, TasksAhead, CopyAhead, HeardPublished,
                            ListedForEver
<1>2. FilesInv /\ TimelyInv /\ [Next]_vars => TimelyInv'
  BY StepOfEvents, TimelyNext DEF FilesInv, TypeOK
<1>3. Spec => []FilesInv
  BY FilesInvInit, FilesInvNext, PTL DEF Spec
<1> QED
  BY <1>1, <1>2, <1>3, PTL DEF Spec

----------------------------------------------------------------------------
(* No call is lost: what was published since an observer was added to the   *)
(* list it has heard, or a thread or the queue of the pool or the publisher *)
(* still holds it.                                                          *)

Posted(h, e) == \E i \in 1 .. Len(tasks) : tasks[i].handler = h /\ tasks[i].event = e

Held(h, e) == \E v \in PoolThreads : Has(v, h, e)

Told(h, e) ==
  e \in heard[h] \/ Held(h, e) \/ Posted(h, e) \/ (e = event /\ h \in ToSet(copied))

SinceListed ==
  \A h \in Handlers : since[h] # Never => h \in ToSet(subscribers) /\ since[h] <= event

ToldInv ==
  /\ SinceListed
  /\ \A h \in Handlers, e \in 1 .. event : since[h] < e => Told(h, e)

(* An observer that stays in the list, or is added or put aside: of the     *)
(* events published so far it is owed no more than before.                  *)
LEMMA SpanKeepsTold ==
  ASSUME EventsTypeOK, ToldInv, SinceListed',
         UNCHANGED <<event, tasks, running, heard, copied>>,
         \A h \in Handlers : since'[h] \in {since[h], event, Never}
  PROVE  ToldInv'
<1>1. /\ event \in Nat /\ event <= MaxEvents /\ Never = MaxEvents + 1 /\ MaxEvents \in Nat
  BY EventConstants DEF EventsTypeOK, Never
<1> SUFFICES ASSUME NEW h \in Handlers, NEW e \in 1 .. event, since'[h] < e PROVE Told(h, e)'
  BY DEF ToldInv
<1>2. since'[h] = since[h]
  BY <1>1
<1>3. Told(h, e)
  BY <1>2 DEF ToldInv
<1> QED
  BY <1>3 DEF Told, Held, Has, Posted

LEMMA FinishCallTold ==
  ASSUME EventsTypeOK, ToldInv, FinishCall
  PROVE  ToldInv'
<1> DEFINE h == call.handler
<1>1. /\ h \in Handlers /\ UNCHANGED <<event, tasks, running, heard, copied>>
      /\ event \in Nat /\ Never \in Nat /\ event <= Never
      /\ since \in [Handlers -> 0 .. Never]
      /\ subscribers \in Seq(Handlers) /\ IsInjective(subscribers)
  BY EventConstants DEF FinishCall, EventsTypeOK, Calls, Never
<1>2. CASE call.op = "register"
  <2>1. /\ subscribers' = Added(subscribers, h)
        /\ since' = [since EXCEPT ![h] = IF h \in ToSet(subscribers) THEN @ ELSE event]
    BY <1>2 DEF FinishCall
  <2>2. ToSet(subscribers') = ToSet(subscribers) \cup {h}
    BY <1>1, <2>1, AddedList
  <2>3. /\ since'[h] \in {since[h], event}
        /\ \A g \in Handlers : g # h => since'[g] = since[g]
    BY <1>1, <2>1
  <2>4. SinceListed'
    BY <1>1, <2>2, <2>3 DEF ToldInv, SinceListed
  <2> QED
    BY <1>1, <2>3, <2>4, SpanKeepsTold
<1>3. CASE call.op # "register"
  <2>1. subscribers' = Erased(subscribers, h) /\ since' = [since EXCEPT ![h] = Never]
    BY <1>3 DEF FinishCall
  <2>2. ToSet(subscribers') = ToSet(subscribers) \ {h}
    BY <1>1, <2>1, ErasedList
  <2>3. since'[h] = Never /\ \A g \in Handlers : g # h => since'[g] = since[g]
    BY <1>1, <2>1
  <2>4. SinceListed'
    BY <1>1, <2>2, <2>3 DEF ToldInv, SinceListed, Never
  <2> QED
    BY <1>1, <2>3, <2>4, SpanKeepsTold
<1> QED
  BY <1>2, <1>3

LEMMA PublishTold ==
  ASSUME EventsTypeOK, ToldInv, Publish
  PROVE  ToldInv'
<1>1. /\ copied = <<>> /\ event' = event + 1 /\ event < MaxEvents /\ copied' = subscribers
      /\ UNCHANGED <<subscribers, tasks, running, heard, since>>
  BY DEF Publish, spans, list, delivery
<1>2. /\ event \in Nat /\ Never = MaxEvents + 1 /\ MaxEvents \in Nat
      /\ since \in [Handlers -> 0 .. Never]
  BY EventConstants DEF EventsTypeOK, Never
<1>3. SinceListed'
  BY <1>1, <1>2 DEF ToldInv, SinceListed, Never
<1>4. ASSUME NEW h \in Handlers, NEW e \in 1 .. event + 1, since[h] < e PROVE Told(h, e)'
  <2>1. CASE e \in 1 .. event
    <3>1. ToSet(copied) = {}
      BY <1>1, NoElements
    <3>2. Told(h, e)
      BY <1>4, <2>1 DEF ToldInv
    <3> QED
      BY <1>1, <3>1, <3>2 DEF Told, Held, Has, Posted
  <2>2. CASE e = event + 1
    <3>1. since[h] # Never
      BY <1>1, <1>2, <1>4, <2>2
    <3>2. h \in ToSet(subscribers)
      BY <3>1 DEF ToldInv, SinceListed
    <3> QED
      BY <1>1, <2>2, <3>2 DEF Told
  <2> QED
    BY <1>2, <2>1, <2>2
<1> QED
  BY <1>1, <1>3, <1>4 DEF ToldInv

LEMMA PostTold ==
  ASSUME EventsTypeOK, CopyAhead, ToldInv, Post
  PROVE  ToldInv'
<1> DEFINE t == [handler |-> Head(copied), event |-> event]
           n == Len(tasks)
<1>1. /\ copied # <<>> /\ tasks' = Append(tasks, t) /\ copied' = Tail(copied)
      /\ UNCHANGED <<subscribers, running, heard, event, since>>
  BY DEF Post, Others, list, spans
<1>2. tasks \in Seq(Tasks) /\ copied \in Seq(Handlers) /\ n \in Nat
  BY DEF EventsTypeOK
<1>3. ToSet(Tail(copied)) = ToSet(copied) \ {Head(copied)}
  BY <1>1, <1>2, TailList DEF CopyAhead
<1>4. /\ Len(tasks') = n + 1 /\ tasks'[n + 1] = t
      /\ \A i \in 1 .. n : tasks'[i] = tasks[i]
  BY <1>1, <1>2
<1>5. t.handler = Head(copied) /\ t.event = event
  OBVIOUS
<1> HIDE DEF t
<1>6. ASSUME NEW h \in Handlers, NEW e \in 1 .. event, Posted(h, e) PROVE Posted(h, e)'
  BY <1>2, <1>4, <1>6 DEF Posted
<1>7. ASSUME NEW h \in Handlers, h = Head(copied) PROVE Posted(h, event)'
  <2>1. n + 1 \in 1 .. Len(tasks')
    BY <1>2, <1>4
  <2>2. tasks'[n + 1].handler = h /\ tasks'[n + 1].event = event'
    BY <1>1, <1>4, <1>5, <1>7
  <2> QED
    BY <2>1, <2>2 DEF Posted
<1>8. ASSUME NEW h \in Handlers, NEW e \in 1 .. event, since[h] < e PROVE Told(h, e)'
  <2>1. Told(h, e)
    BY <1>8 DEF ToldInv
  <2>2. CASE e \in heard[h] \/ Held(h, e)
    BY <1>1, <2>2 DEF Told, Held, Has
  <2>3. CASE Posted(h, e)
    BY <1>6, <2>3 DEF Told
  <2>4. CASE e = event /\ h \in ToSet(copied)
    <3>1. CASE h = Head(copied)
      BY <1>1, <1>7, <2>4, <3>1 DEF Told
    <3>2. CASE h # Head(copied)
      BY <1>1, <1>3, <2>4, <3>2 DEF Told
    <3> QED
      BY <3>1, <3>2
  <2> QED
    BY <2>1, <2>2, <2>3, <2>4 DEF Told
<1> QED
  BY <1>1, <1>8 DEF ToldInv, SinceListed

LEMMA TakeTaskTold ==
  ASSUME EventsTypeOK, ToldInv, NEW w \in PoolThreads, TakeTask(w)
  PROVE  ToldInv'
<1> DEFINE n == Len(tasks)
<1>1. /\ n \in Nat /\ 1 \in 1 .. n /\ tasks[1] \in Tasks /\ Len(tasks') = n - 1
      /\ \A i \in 1 .. n - 1 : tasks'[i] = tasks[i + 1]
      /\ running'[w] = tasks[1] /\ \A v \in PoolThreads : v # w => running'[v] = running[v]
      /\ running[w] = NoTask
      /\ UNCHANGED <<subscribers, copied, heard, event, since>>
  BY TaskTaken
<1>2. event \in Nat /\ event <= MaxEvents /\ MaxEvents \in Nat
  BY EventConstants DEF EventsTypeOK
<1>3. ASSUME NEW h \in Handlers, NEW e \in 1 .. event, Posted(h, e)
      PROVE  Held(h, e)' \/ Posted(h, e)'
  <2>1. PICK i \in 1 .. n : tasks[i].handler = h /\ tasks[i].event = e
    BY <1>3 DEF Posted
  <2>2. CASE i = 1
    <3>1. tasks[1] = [handler |-> h, event |-> e]
      BY <1>1, <2>1, <2>2, TaskIs
    <3>2. Has(w, h, e)'
      BY <1>1, <3>1 DEF Has
    <3> QED
      BY <3>2 DEF Held
  <2>3. CASE i # 1
    <3>1. i - 1 \in 1 .. n - 1 /\ (i - 1) + 1 = i
      BY <1>1, <2>3
    <3>2. tasks'[i - 1] = tasks[i]
      BY <1>1, <3>1
    <3> QED
      BY <1>1, <2>1, <3>1, <3>2 DEF Posted
  <2> QED
    BY <2>2, <2>3
<1>4. ASSUME NEW h \in Handlers, NEW e \in 1 .. event, Held(h, e) PROVE Held(h, e)'
  <2>1. PICK v \in PoolThreads : Has(v, h, e)
    BY <1>4 DEF Held
  <2>2. e \in 1 .. MaxEvents
    BY <1>2
  <2>3. v # w
    BY <1>1, <2>1, <2>2, NoneHas
  <2>4. Has(v, h, e)'
    BY <1>1, <2>1, <2>3 DEF Has
  <2> QED
    BY <2>4 DEF Held
<1>5. ASSUME NEW h \in Handlers, NEW e \in 1 .. event, since[h] < e PROVE Told(h, e)'
  <2>1. Told(h, e)
    BY <1>5 DEF ToldInv
  <2> QED
    BY <1>1, <1>3, <1>4, <2>1 DEF Told
<1> QED
  BY <1>1, <1>5 DEF ToldInv, SinceListed

LEMMA BeginTaskTold ==
  ASSUME EventsTypeOK, ToldInv, NEW w \in PoolThreads, BeginTask(w)
  PROVE  ToldInv'
<1>1. PICK g \in Handlers, t \in 1 .. MaxEvents :
        /\ Has(w, g, t)
        /\ heard'[g] = heard[g] \cup {t}
        /\ \A h \in Handlers : h # g => heard'[h] = heard[h]
        /\ running'[w] = InCall /\ \A v \in PoolThreads : v # w => running'[v] = running[v]
        /\ UNCHANGED <<subscribers, copied, tasks, event, since>>
  BY TaskBegun
<1>2. \A h \in Handlers : heard[h] \subseteq heard'[h]
  BY <1>1
<1>3. ASSUME NEW h \in Handlers, NEW e \in 1 .. event, Held(h, e)
      PROVE  e \in heard'[h] \/ Held(h, e)'
  <2>1. PICK v \in PoolThreads : Has(v, h, e)
    BY <1>3 DEF Held
  <2>2. CASE v = w
    BY <1>1, <2>1, <2>2 DEF Has
  <2>3. CASE v # w
    BY <1>1, <2>1, <2>3 DEF Has, Held
  <2> QED
    BY <2>2, <2>3
<1>4. ASSUME NEW h \in Handlers, NEW e \in 1 .. event, since[h] < e PROVE Told(h, e)'
  <2>1. Told(h, e)
    BY <1>4 DEF ToldInv
  <2> QED
    BY <1>1, <1>2, <1>3, <2>1 DEF Told, Posted
<1> QED
  BY <1>1, <1>4 DEF ToldInv, SinceListed

LEMMA EndTaskTold ==
  ASSUME EventsTypeOK, ToldInv, NEW w \in PoolThreads, EndTask(w)
  PROVE  ToldInv'
<1>1. /\ running[w] = InCall /\ running' = [running EXCEPT ![w] = NoTask]
      /\ UNCHANGED <<subscribers, copied, tasks, heard, event, since>>
  BY DEF EndTask
<1>2. /\ \A v \in PoolThreads : v # w => running'[v] = running[v]
      /\ event \in Nat /\ event <= MaxEvents /\ MaxEvents \in Nat
  BY <1>1, EventConstants DEF EventsTypeOK
<1>3. ASSUME NEW h \in Handlers, NEW e \in 1 .. event, Held(h, e) PROVE Held(h, e)'
  <2>1. PICK v \in PoolThreads : Has(v, h, e)
    BY <1>3 DEF Held
  <2>2. e \in 1 .. MaxEvents
    BY <1>2
  <2>3. v # w
    BY <1>1, <2>1, <2>2, NoneHas
  <2>4. Has(v, h, e)'
    BY <1>2, <2>1, <2>3 DEF Has
  <2> QED
    BY <2>4 DEF Held
<1>4. ASSUME NEW h \in Handlers, NEW e \in 1 .. event, since[h] < e PROVE Told(h, e)'
  <2>1. Told(h, e)
    BY <1>4 DEF ToldInv
  <2> QED
    BY <1>1, <1>3, <2>1 DEF Told, Posted
<1> QED
  BY <1>1, <1>4 DEF ToldInv, SinceListed

LEMMA ToldNext ==
  ASSUME EventsTypeOK, TimelyInv, ToldInv, EventStep
  PROVE  ToldInv'
<1>1. CASE FinishCall
  BY <1>1, FinishCallTold
<1>2. CASE Disable
  <2>1. /\ since' = [h \in Handlers |-> Never]
        /\ UNCHANGED <<event, tasks, running, heard, copied>>
    BY <1>2 DEF Disable, delivery
  <2>2. SinceListed'
    BY <2>1 DEF SinceListed, Never
  <2> QED
    BY <2>1, <2>2, SpanKeepsTold
<1>3. CASE Enable
  <2>1. /\ subscribers' = cache
        /\ since' = [h \in Handlers |-> IF h \in ToSet(cache) THEN event ELSE Never]
        /\ UNCHANGED <<event, tasks, running, heard, copied>>
    BY <1>3 DEF Enable, Restored, delivery
  <2>2. event \in Nat
    BY DEF EventsTypeOK
  <2>3. SinceListed'
    BY <2>1, <2>2 DEF SinceListed, Never
  <2> QED
    BY <2>1, <2>3, SpanKeepsTold
<1>4. CASE Publish
  BY <1>4, PublishTold
<1>5. CASE Post
  BY <1>5, PostTold DEF TimelyInv
<1>6. ASSUME NEW w \in PoolThreads, TakeTask(w) \/ BeginTask(w) \/ EndTask(w)
      PROVE  ToldInv'
  BY <1>6, TakeTaskTold, BeginTaskTold, EndTaskTold
<1>7. ASSUME UNCHANGED <<subscribers, event, tasks, running, heard, copied, since>> PROVE ToldInv'
  BY <1>7 DEF ToldInv, SinceListed, Told, Held, Has, Posted, Never
<1>8. ASSUME \/ StopPool \/ JoinPool \/ UNCHANGED eventVars
             \/ \E op \in {"register", "unregister"}, h \in Handlers : EnterCall(op, h)
      PROVE  UNCHANGED <<subscribers, event, tasks, running, heard, copied, since>>
  BY <1>8 DEF StopPool, JoinPool, EnterCall, eventVars, list, delivery, spans
<1> QED
  BY <1>1, <1>2, <1>3, <1>4, <1>5, <1>6, <1>7, <1>8 DEF EventStep

LEMMA ToldInvariant == Spec => [](TypeOK /\ TimelyInv /\ ToldInv)
<1>1. Init => ToldInv
  <2> SUFFICES ASSUME Init PROVE ToldInv
    OBVIOUS
  <2>1. event = 0 /\ since = [h \in Handlers |-> Never]
    BY DEF Init, EventsInit
  <2> QED
    BY <2>1 DEF ToldInv, SinceListed
<1>2. TypeOK /\ TimelyInv /\ ToldInv /\ [Next]_vars => ToldInv'
  BY StepOfEvents, ToldNext DEF TypeOK
<1> QED
  BY <1>1, <1>2, TypeCorrect, TimelyInvariant, PTL DEF Spec

(* What a call that begins finds.                                           *)
LEMMA CallBegins ==
  ASSUME EventsTypeOK, TimelyInv, ToldInv, NEW w \in PoolThreads, NEW h \in Handlers,
         NEW t \in 1 .. MaxEvents, Has(w, h, t)
  PROVE  /\ t \notin heard[h] /\ t <= until[h]
         /\ \A e \in since[h] + 1 .. t - 1 : e \in heard[h] \/ Held(h, e)
<1>1. /\ t \notin heard[h] /\ t <= event /\ t <= until[h]
      /\ \A i \in 1 .. Len(tasks) : tasks[i].handler = h => t < tasks[i].event
  <2>1. TakenAhead
    BY DEF TimelyInv
  <2> QED
    BY <2>1, Zenon DEF TakenAhead
<1>2. since[h] \in Nat /\ event \in Nat /\ tasks \in Seq(Tasks)
  BY EventConstants DEF EventsTypeOK, Never
<1>3. ASSUME NEW e \in since[h] + 1 .. t - 1 PROVE e \in heard[h] \/ Held(h, e)
  <2>1. e \in 1 .. event /\ since[h] < e /\ e < t /\ e # event
    BY <1>1, <1>2
  <2>2. ~Posted(h, e)
    <3> SUFFICES ASSUME NEW i \in 1 .. Len(tasks), tasks[i].handler = h, tasks[i].event = e
                 PROVE  FALSE
      BY DEF Posted
    <3>1. t < e
      BY <1>1
    <3> QED
      BY <1>2, <2>1, <3>1
  <2>3. Told(h, e)
    BY <2>1 DEF ToldInv
  <2> QED
    BY <2>1, <2>2, <2>3 DEF Told
<1> QED
  BY <1>1, <1>3

(* perform_for_each_event_handler, the queue of the pool and its threads    *)
(* (event_handler_list.hpp:84-104): the calls of an observer begin once for *)
(* each event, none for an event published after it was erased from the     *)
(* list, and a call overtakes only calls that other threads of the pool     *)
(* already have in hands: it never leaves one behind in the queue.          *)
THEOREM CallsComeInTime == Spec => CallsAreTimely
<1> DEFINE Timely ==
      \A w \in PoolThreads, h \in Handlers, t \in 1 .. MaxEvents :
        running[w] = [handler |-> h, event |-> t] /\ running'[w] = InCall
          => /\ t \notin heard[h] /\ t <= until[h]
             /\ \A e \in since[h] + 1 .. t - 1 :
                  \/ e \in heard[h]
                  \/ \E v \in PoolThreads : running[v] = [handler |-> h, event |-> e]
<1>1. TypeOK /\ TimelyInv /\ ToldInv => Timely
  BY CallBegins DEF TypeOK, Held, Has
<1>2. TypeOK /\ TimelyInv /\ ToldInv /\ [Next]_vars => [Timely]_eventVars
  BY <1>1
<1>3. (Spec => [][Timely]_eventVars) => (Spec => CallsAreTimely)
  BY DEF CallsAreTimely
<1> HIDE DEF Timely
<1> QED
  BY <1>2, <1>3, ToldInvariant, PTL DEF Spec

(* ThreadPoolExecutePolicy<1>, the default of the template that no list of  *)
(* this code takes: with one thread in the pool nothing can be overtaken.   *)
(* When the call for an event begins, those for all earlier events have     *)
(* begun, so that an observer in the list hears event after event.          *)
THEOREM NoCallIsSkipped ==
  ASSUME \A v, w \in PoolThreads : v = w
  PROVE  Spec => [][\A w \in PoolThreads, h \in Handlers, t \in 1 .. MaxEvents :
                      running[w] = [handler |-> h, event |-> t] /\ running'[w] = InCall
                        => \A e \in since[h] + 1 .. t - 1 : e \in heard[h]]_vars
<1>1. ASSUME TypeOK, TimelyInv, ToldInv, NEW w \in PoolThreads, NEW h \in Handlers,
             NEW t \in 1 .. MaxEvents, Has(w, h, t), NEW e \in since[h] + 1 .. t - 1
      PROVE  e \in heard[h]
  <2>1. e \in heard[h] \/ Held(h, e)
    BY <1>1, CallBegins DEF TypeOK
  <2>2. ASSUME Held(h, e) PROVE FALSE
    <3>1. Has(w, h, e)
      BY <2>2 DEF Held
    <3>2. e = t
      BY <1>1, <3>1 DEF Has
    <3>3. since[h] \in Nat
      BY <1>1, EventConstants DEF TypeOK, EventsTypeOK, Never
    <3> QED
      BY <3>2, <3>3
  <2> QED
    BY <2>1, <2>2
<1>2. TypeOK /\ TimelyInv /\ ToldInv
        => \A w \in PoolThreads, h \in Handlers, t \in 1 .. MaxEvents :
             running[w] = [handler |-> h, event |-> t] /\ running'[w] = InCall
               => \A e \in since[h] + 1 .. t - 1 : e \in heard[h]
  BY <1>1 DEF Has
<1> QED
  BY <1>2, ToldInvariant, PTL

(* perform_for_each_event_handler and the pool: once nothing is left to     *)
(* post, the queue is empty and no thread has a task it has not begun,      *)
(* every observer has heard every event since it was added to the list.     *)
(* What SubscribersHearAll says beyond that is that threads are scheduled.  *)
THEOREM NoCallIsLost ==
  Spec => [](tasks = <<>> /\ copied = <<>> /\ (\A w \in PoolThreads : ~Holds(w))
               => \A h \in Handlers, e \in 1 .. event : since[h] < e => e \in heard[h])
<1>1. TypeOK /\ TimelyInv /\ ToldInv
        => (tasks = <<>> /\ copied = <<>> /\ (\A w \in PoolThreads : ~Holds(w))
              => \A h \in Handlers, e \in 1 .. event : since[h] < e => e \in heard[h])
  <2> SUFFICES ASSUME EventsTypeOK, ToldInv, tasks = <<>>, copied = <<>>,
                      \A w \in PoolThreads : ~Holds(w),
                      NEW h \in Handlers, NEW e \in 1 .. event, since[h] < e
               PROVE  e \in heard[h]
    BY DEF TypeOK
  <2>1. Told(h, e)
    BY DEF ToldInv
  <2>2. ToSet(copied) = {} /\ Len(tasks) = 0
    BY NoElements
  <2>3. ~Held(h, e)
    <3>1. e \in 1 .. MaxEvents
      BY EventConstants DEF EventsTypeOK
    <3> QED
      BY <3>1, HasTask DEF Held, Has, Holds
  <2> QED
    BY <2>1, <2>2, <2>3 DEF Told, Posted
<1> QED
  BY <1>1, ToldInvariant, PTL

----------------------------------------------------------------------------
(* stop() comes to its end: what the thread it waits for still has to do.   *)

StepsToGo ==
  CASE thread = "handle" -> Len(subscribers) + 3
    [] thread = "post"   -> Len(copied) + 2
    [] thread = "loop"   -> 1
    [] OTHER             -> 0

ThreadStep == Stream \/ HandleFrame \/ PostFrame

StopNearer ==
  owner \in {"stop", "destroy"}
    => StepsToGo' <= StepsToGo /\ (ThreadStep => StepsToGo' < StepsToGo)

LEMMA StepsToGoType == TypeOK => StepsToGo \in Nat
<1> SUFFICES ASSUME TypeOK PROVE StepsToGo \in Nat
  OBVIOUS
<1>1. Len(subscribers) \in Nat /\ Len(copied) \in Nat
  BY DEF TypeOK, EventsTypeOK
<1> QED
  BY <1>1 DEF StepsToGo

LEMMA StoppingSteps ==
  ASSUME TypeOK, LifeInv, [Next]_vars, owner \in {"stop", "destroy"}
  PROVE  StepsToGo' <= StepsToGo /\ (ThreadStep => StepsToGo' < StepsToGo)
<1>0. /\ ~streaming /\ Camera
      /\ Len(subscribers) \in Nat /\ Len(copied) \in Nat
      /\ copied \in Seq(Handlers) /\ StepsToGo \in Nat
  BY StepsToGoType, SMTT(30) DEF LifeInv, Started, TypeOK, EventsTypeOK
<1>1. CASE Stream
  <2>1. thread = "loop" /\ thread' = "ended"
    BY <1>0, <1>1 DEF Stream
  <2> QED
    BY <2>1 DEF StepsToGo
<1>2. CASE HandleFrame
  <2>1. thread = "handle" /\ thread' = "post" /\ copied' = subscribers
    BY <1>2 DEF HandleFrame, Publish
  <2>2. StepsToGo = Len(subscribers) + 3 /\ StepsToGo' = Len(subscribers) + 2
    BY <2>1 DEF StepsToGo
  <2> QED
    BY <1>0, <2>2
<1>3. CASE PostFrame
  <2>1. CASE copied # <<>>
    <3>1. thread = "post" /\ thread' = "post" /\ copied' = Tail(copied)
      BY <1>3, <2>1 DEF PostFrame, Post, Others
    <3>2. StepsToGo = Len(copied) + 2 /\ StepsToGo' = Len(Tail(copied)) + 2
      BY <3>1 DEF StepsToGo
    <3>3. Len(Tail(copied)) = Len(copied) - 1
      BY <1>0, <2>1
    <3>4. StepsToGo' = Len(copied) + 1
      BY <1>0, <3>2, <3>3
    <3> QED
      BY <1>0, <3>2, <3>4
  <2>2. CASE copied = <<>>
    <3>1. thread = "post" /\ thread' = "loop"
      BY <1>3, <2>2 DEF PostFrame
    <3>2. StepsToGo = Len(copied) + 2 /\ StepsToGo' = 1
      BY <3>1 DEF StepsToGo
    <3> QED
      BY <1>0, <3>2
  <2> QED
    BY <2>1, <2>2
<1>4. CASE Join
  <2>1. thread' = "none" /\ thread \in {"none", "ended"}
    BY <1>4 DEF Join, Ended
  <2>2. StepsToGo' = 0 /\ StepsToGo = 0
    BY <2>1 DEF StepsToGo
  <2>3. ~ThreadStep
    BY <2>1 DEF ThreadStep, Stream, HandleFrame, PostFrame
  <2> QED
    BY <2>2, <2>3
<1>5. CASE ~ThreadStep /\ UNCHANGED <<thread, copied, subscribers>>
  <2>1. StepsToGo' = StepsToGo
    BY <1>5 DEF StepsToGo
  <2>2. StepsToGo' <= StepsToGo
    <3>1. \A n \in Nat : n <= n
      OBVIOUS
    <3> QED
      BY <1>0, <2>1, <3>1, Zenon
  <2> QED
    BY <1>5, <2>2, Zenon
<1>6. ~Client /\ ~Start /\ ~Stop("stop") /\ ~Stop("destroy") /\ ~Close /\ ~Read
  BY <1>0 DEF Client, Start, Stop, Close, Read, Free, Camera
<1>7. ASSUME NEW w \in PoolThreads, Deliver(w) PROVE UNCHANGED <<thread, copied, subscribers>>
  BY <1>7 DEF Deliver, TakeTask, BeginTask, EndTask, list
<1>8. UNCHANGED vars => UNCHANGED <<thread, copied, subscribers>>
  BY DEF vars, eventVars, list
<1> QED
  BY <1>1, <1>2, <1>3, <1>4, <1>5, <1>6, <1>7, <1>8 DEF Next, ThreadStep

(* stop(), and that of the destructor (fake_camera.cpp:103-110): while it   *)
(* waits, no step of anyone gives the thread of the camera more to do, and  *)
(* each of its own steps leaves less, down to the flag that stop() has      *)
(* taken back.  What StopReturns says beyond that is that the threads are   *)
(* scheduled, and that the pool of the list of observers comes down, too.   *)
THEOREM StopComesNearer == Spec => [][StopNearer]_vars
<1>1. TypeOK /\ LifeInv /\ [Next]_vars => StopNearer
  BY StoppingSteps DEF StopNearer
<1> QED
  BY <1>1, TypeCorrect, LifeInvariant, PTL DEF Spec
=============================================================================
