----------------------- MODULE ThreadPoolWorkerProofs -----------------------
(***************************************************************************)
(* The safety of ThreadPoolWorker for any number of data, stops and pauses.*)
(*                                                                         *)
(* IInv is the inductive invariant.  Ordered ties the queue to the number  *)
(* of pushes; Awake says that nobody falls asleep on a full queue; Stopped *)
(* follows a stop_worker from the moment it raised m_need_stop: the thread *)
(* that add_data may start before the flag is taken back can only leave.   *)
(* WholeInv, at the end, says that nothing is missing until the first stop.*)
(***************************************************************************)
EXTENDS ThreadPoolWorker, TLAPS

Ordered ==
  /\ fpc # "idle" => added > 0
  /\ taken <= Pushed
  /\ \A i \in 1 .. Len(queue) : taken < queue[i] /\ queue[i] <= Pushed
  /\ \A i, j \in 1 .. Len(queue) : i < j => queue[i] < queue[j]

Awake ==
  /\ queue # <<>> => wpc # "data-block"
  /\ queue # <<>> /\ wpc = "data-asleep" => fpc = "notify"

Joining == {"wake-read", "wake-data", "join"}
Clearing == {"reset", "not-running"}

Stopped ==
  /\ ~isRunning /\ fpc # "running" => wpc = "none"
  /\ fpc \in {"run", "running"} => ~isRunning
  /\ opc \in Joining \cup Clearing => isRunning
  /\ opc \in Joining \cup Clearing \cup {"unset"} => needStop
  /\ opc \in Clearing => wpc = "none"
  /\ opc = "unset" => wpc \in {"none", "top", "exited"}
  /\ item # 0 => wpc \in {"process", "notify", "catch"}

Fenced ==
  /\ fence <= Pushed /\ mark <= Pushed
  /\ \A i \in 1 .. Len(queue) : queue[i] > fence
  /\ opc \in {"not-running", "unset"} => \A i \in 1 .. Len(queue) : queue[i] > mark
  /\ item # 0 => item > fence

IInv == TypeOK /\ Ordered /\ Awake /\ Stopped /\ Fenced

----------------------------------------------------------------------------
LEMMA InitIInv == Init => IInv
<1> SUFFICES ASSUME Init PROVE IInv
  OBVIOUS
<1>1. TypeOK
  <2>1. queue \in Seq(1 .. MaxData) /\ exceptions \in Nat
    BY DEF Init
  <2>2. 0 \in 0 .. MaxData /\ 0 \in 0 .. MaxStops /\ 0 \in 0 .. MaxPauses
    BY BoundsAreNaturals
  <2> QED
    BY <2>1, <2>2 DEF Init, TypeOK, WorkerPoints, FeederPoints, OwnerPoints
<1>2. Ordered /\ Fenced
  BY DEF Init, Ordered, Fenced, Pushed
<1>3. Awake /\ Stopped
  BY DEF Init, Awake, Stopped, Joining, Clearing
<1> QED
  BY <1>1, <1>2, <1>3 DEF IInv

(* One lemma per thread: its steps preserve the invariant.                  *)
LEMMA FeederStep == IInv /\ Feeder => IInv'
<1> SUFFICES ASSUME IInv, Feeder PROVE IInv'
  OBVIOUS
<1> USE BoundsAreNaturals
        DEF flags, worker, owner, history, WorkerPoints, FeederPoints, OwnerPoints,
            Joining, Clearing, Pushed
<1>1. CASE AddData
  BY <1>1 DEF IInv, TypeOK, Ordered, Awake, Stopped, Fenced, AddData
<1>2. CASE CreateThread
  <2>1. TypeOK'
    BY <1>2 DEF IInv, TypeOK, CreateThread
  <2>2. Ordered'
    BY <1>2 DEF IInv, TypeOK, Ordered, CreateThread
  <2>3. Awake'
    BY <1>2 DEF IInv, TypeOK, Awake, CreateThread
  <2>4. Stopped'
    <3>1. opc \notin Clearing /\ item = 0
      BY <1>2 DEF IInv, Stopped, CreateThread
    <3> QED
      BY <1>2, <3>1 DEF IInv, Stopped, CreateThread
  <2>5. Fenced'
    BY <1>2 DEF IInv, TypeOK, Fenced, CreateThread
  <2> QED
    BY <2>1, <2>2, <2>3, <2>4, <2>5 DEF IInv
<1>3. CASE SetRunning
  BY <1>3 DEF IInv, TypeOK, Ordered, Awake, Stopped, Fenced, SetRunning
<1>4. CASE SetReading
  BY <1>4 DEF IInv, TypeOK, Ordered, Awake, Stopped, Fenced, SetReading
<1>5. CASE Push
  BY <1>5, SMTT(30) DEF IInv, TypeOK, Ordered, Awake, Stopped, Fenced, Push, DataGuardFree
<1>6. CASE NotifyData
  BY <1>6 DEF IInv, TypeOK, Ordered, Awake, Stopped, Fenced, NotifyData
<1> QED
  BY <1>1, <1>2, <1>3, <1>4, <1>5, <1>6 DEF Feeder

LEMMA WorkerPreserves == IInv /\ (Worker \/ SpuriousWakeup) => IInv'
<1> SUFFICES ASSUME IInv, Worker \/ SpuriousWakeup PROVE IInv'
  OBVIOUS
<1> USE BoundsAreNaturals
        DEF flags, feeder, owner, history, WorkerPoints, FeederPoints, OwnerPoints,
            Joining, Clearing, Pushed
<1>1. CASE Loop
  <2>1. TypeOK'
    BY <1>1, ZenonT(60) DEF IInv, TypeOK, Loop, WorkerStep
  <2>2. Ordered'
    BY <1>1 DEF IInv, TypeOK, Ordered, Loop, WorkerStep
  <2>3. Awake'
    BY <1>1 DEF IInv, TypeOK, Awake, Loop, WorkerStep
  <2>4. Stopped'
    BY <1>1 DEF IInv, TypeOK, Stopped, Loop, WorkerStep
  <2>5. Fenced'
    BY <1>1 DEF IInv, TypeOK, Fenced, Loop, WorkerStep
  <2> QED
    BY <2>1, <2>2, <2>3, <2>4, <2>5 DEF IInv
<1>2. CASE ReadWait
  <2>1. TypeOK'
    BY <1>2, SMTT(30) DEF IInv, TypeOK, ReadWait, WorkerStep
  <2>2. Ordered'
    BY <1>2 DEF IInv, TypeOK, Ordered, ReadWait, WorkerStep
  <2>3. Awake'
    BY <1>2 DEF IInv, TypeOK, Awake, ReadWait, WorkerStep
  <2>4. Stopped'
    BY <1>2, SMTT(30) DEF IInv, TypeOK, Stopped, ReadWait, WorkerStep
  <2>5. Fenced'
    BY <1>2, ZenonT(60) DEF IInv, TypeOK, Fenced, ReadWait, WorkerStep
  <2> QED
    BY <2>1, <2>2, <2>3, <2>4, <2>5 DEF IInv
<1>3. CASE DataWait
  <2>1. TypeOK'
    BY <1>3, SMTT(30) DEF IInv, TypeOK, DataWait, WorkerStep
  <2>2. Ordered'
    BY <1>3 DEF IInv, TypeOK, Ordered, DataWait, WorkerStep
  <2>3. Awake'
    BY <1>3 DEF IInv, TypeOK, Awake, DataWait, WorkerStep
  <2>4. Stopped'
    BY <1>3 DEF IInv, TypeOK, Stopped, DataWait, WorkerStep
  <2>5. Fenced'
    BY <1>3 DEF IInv, TypeOK, Fenced, DataWait, WorkerStep
  <2> QED
    BY <2>1, <2>2, <2>3, <2>4, <2>5 DEF IInv
<1>4. CASE Pop
  BY <1>4, SMTT(30) DEF IInv, TypeOK, Ordered, Awake, Stopped, Fenced, Pop
<1>5. CASE Process
  <2>1. TypeOK'
    BY <1>5, SMTT(30) DEF IInv, TypeOK, Process, WorkerStep
  <2>2. Ordered'
    BY <1>5 DEF IInv, TypeOK, Ordered, Process, WorkerStep
  <2>3. Awake'
    BY <1>5 DEF IInv, TypeOK, Awake, Process, WorkerStep
  <2>4. Stopped'
    BY <1>5 DEF IInv, TypeOK, Stopped, Process, WorkerStep
  <2>5. Fenced'
    BY <1>5 DEF IInv, TypeOK, Fenced, Process, WorkerStep
  <2> QED
    BY <2>1, <2>2, <2>3, <2>4, <2>5 DEF IInv
<1>6. CASE Finish
  BY <1>6 DEF IInv, TypeOK, Ordered, Awake, Stopped, Fenced, Finish
<1>7. CASE Catch
  BY <1>7 DEF IInv, TypeOK, Ordered, Awake, Stopped, Fenced, Catch
<1>8. CASE SpuriousWakeup
  <2>1. TypeOK'
    BY <1>8, SMTT(30) DEF IInv, TypeOK, SpuriousWakeup, WorkerStep
  <2>2. Ordered'
    BY <1>8 DEF IInv, TypeOK, Ordered, SpuriousWakeup, WorkerStep
  <2>3. Awake'
    BY <1>8 DEF IInv, TypeOK, Awake, SpuriousWakeup, WorkerStep
  <2>4. Stopped'
    BY <1>8 DEF IInv, TypeOK, Stopped, SpuriousWakeup, WorkerStep
  <2>5. Fenced'
    BY <1>8 DEF IInv, TypeOK, Fenced, SpuriousWakeup, WorkerStep
  <2> QED
    BY <2>1, <2>2, <2>3, <2>4, <2>5 DEF IInv
<1> QED
  BY <1>1, <1>2, <1>3, <1>4, <1>5, <1>6, <1>7, <1>8 DEF Worker

LEMMA OwnerStep == IInv /\ Owner => IInv'
<1> SUFFICES ASSUME IInv, Owner PROVE IInv'
  OBVIOUS
<1> USE BoundsAreNaturals
        DEF flags, worker, feeder, history, WorkerPoints, FeederPoints, OwnerPoints,
            Joining, Clearing, Pushed
<1>1. CASE StopWorker
  BY <1>1 DEF IInv, TypeOK, Ordered, Awake, Stopped, Fenced, StopWorker
<1>2. CASE StopNotifiesRead
  BY <1>2 DEF IInv, TypeOK, Ordered, Awake, Stopped, Fenced, StopNotifiesRead, WakeReader
<1>3. CASE StopNotifiesData
  BY <1>3 DEF IInv, TypeOK, Ordered, Awake, Stopped, Fenced, StopNotifiesData
<1>4. CASE Join
  BY <1>4 DEF IInv, TypeOK, Ordered, Awake, Stopped, Fenced, Join
<1>5. CASE ResetData
  BY <1>5 DEF IInv, TypeOK, Ordered, Awake, Stopped, Fenced, ResetData
<1>6. CASE SetNotRunning
  BY <1>6 DEF IInv, TypeOK, Ordered, Awake, Stopped, Fenced, SetNotRunning
<1>7. CASE UnsetNeedStop
  BY <1>7, ZenonT(60) DEF IInv, TypeOK, Ordered, Awake, Stopped, Fenced, UnsetNeedStop
<1>8. CASE Pause
  <2>1. TypeOK'
    <3>1. pauses' \in 0 .. MaxPauses
      BY <1>8 DEF IInv, TypeOK, Pause
    <3>2. reading' \in BOOLEAN /\ opc' \in OwnerPoints
      BY <1>8 DEF Pause
    <3> QED
      BY <1>8, <3>1, <3>2 DEF IInv, TypeOK, Pause
  <2>2. Ordered'
    BY <1>8 DEF IInv, TypeOK, Ordered, Pause
  <2>3. Awake'
    BY <1>8 DEF IInv, TypeOK, Awake, Pause
  <2>4. Stopped'
    BY <1>8 DEF IInv, TypeOK, Stopped, Pause
  <2>5. Fenced'
    BY <1>8 DEF IInv, TypeOK, Fenced, Pause
  <2> QED
    BY <2>1, <2>2, <2>3, <2>4, <2>5 DEF IInv
<1>9. CASE ContinueReading
  BY <1>9 DEF IInv, TypeOK, Ordered, Awake, Stopped, Fenced, ContinueReading
<1>10. CASE NotifyRead
  BY <1>10 DEF IInv, TypeOK, Ordered, Awake, Stopped, Fenced, NotifyRead, WakeReader
<1> QED
  BY <1>1, <1>2, <1>3, <1>4, <1>5, <1>6, <1>7, <1>8, <1>9, <1>10 DEF Owner

----------------------------------------------------------------------------
LEMMA IInvInvariant == Spec => []IInv
<1>1. IInv /\ UNCHANGED vars => IInv'
  BY DEF IInv, TypeOK, Ordered, Awake, Stopped, Fenced, Pushed, vars, flags, worker,
         feeder, owner, history
<1>2. IInv /\ [Next]_vars => IInv'
  BY <1>1, FeederStep, WorkerPreserves, OwnerStep DEF Next
<1> QED
  BY InitIInv, <1>2, PTL DEF Spec

(* The three threads keep the types whatever the bounds are.                *)
THEOREM TypeCorrect == Spec => []TypeOK
  BY IInvInvariant, PTL DEF IInv

(* Data are taken in the order of add_data and none is taken twice: no stop,*)
(* restart, pause or exception of thread_pool_worker_process_data reorders  *)
(* the queue or puts back what the worker took.                             *)
THEOREM TakesDataInOrder == Spec => []TakesInOrder
<1>1. IInv => TakesInOrder
  BY DEF IInv, TypeOK, Ordered, TakesInOrder
<1> QED
  BY IInvInvariant, <1>1, PTL

(* No interleaving of the push of add_data with the wait of worker_thread   *)
(* loses the notification of m_data_cnd.                                    *)
THEOREM WorkerSleepsOnlyWithoutData == Spec => []NoSleepOverData
<1>1. IInv => NoSleepOverData
  BY DEF IInv, Awake, NoSleepOverData
<1> QED
  BY IInvInvariant, <1>1, PTL

(* After stop_worker, nothing that was added before it raised m_need_stop is*)
(* left in the queue or with the worker, also when add_data runs during it. *)
THEOREM StopDropsData == Spec => []StopDropsEarlierData
<1>1. IInv => StopDropsEarlierData
  BY DEF IInv, TypeOK, Fenced, StopDropsEarlierData
<1> QED
  BY IInvInvariant, <1>1, PTL

----------------------------------------------------------------------------
(* No datum is passed over as long as nobody stops the worker.              *)

(* The queue holds what was pushed and not taken, without gaps.             *)
Whole ==
  Len(queue) = Pushed - taken /\ \A i \in 1 .. Len(queue) : queue[i] = taken + i

(* A thread runs from the first add_data on, and it has no reason to leave. *)
Alive ==
  /\ ~needStop /\ wpc # "exited" /\ opc \in {"idle", "wake-pause"}
  /\ wpc = "none" => ~isRunning /\ fpc \in {"idle", "run"}
  /\ ~isRunning => added = 0 \/ fpc \in {"run", "running"}

WholeInv ==
  /\ stops = 0 => Whole /\ Alive
  /\ pauses = 0 => reading /\ wpc \notin {"read-block", "read-asleep"}

LEMMA WholeInit == Init => WholeInv
  BY DEF Init, WholeInv, Whole, Alive, Pushed

LEMMA WholeFeeder == IInv /\ WholeInv /\ Feeder => WholeInv'
<1> SUFFICES ASSUME IInv, WholeInv, Feeder PROVE WholeInv'
  OBVIOUS
<1> USE DEF flags, worker, owner, history
<1>0. /\ added \in Nat /\ taken \in Nat /\ queue \in Seq(1 .. MaxData) /\ fpc \in FeederPoints
      /\ fpc # "idle" => added > 0
  BY BoundsAreNaturals DEF IInv, TypeOK, Ordered
<1>1. CASE AddData
  BY <1>0, <1>1 DEF WholeInv, Whole, Alive, Pushed, AddData
<1>2. CASE CreateThread
  BY <1>0, <1>2 DEF WholeInv, Whole, Alive, Pushed, CreateThread
<1>3. CASE SetRunning
  BY <1>0, <1>3 DEF WholeInv, Whole, Alive, Pushed, SetRunning
<1>4. CASE SetReading
  BY <1>0, <1>4 DEF WholeInv, Whole, Alive, Pushed, SetReading
<1>5. CASE Push
  <2>1. /\ fpc = "push" /\ fpc' = "notify" /\ queue' = Append(queue, added)
        /\ UNCHANGED <<flags, worker, added, owner>>
    BY <1>5 DEF Push
  <2>2. /\ Len(queue') = Len(queue) + 1 /\ queue'[Len(queue) + 1] = added
        /\ \A i \in 1 .. Len(queue) : queue'[i] = queue[i]
    BY <1>0, <2>1
  <2>3. Pushed = added - 1 /\ Pushed' = added
    BY <2>1 DEF Pushed
  <2>4. Whole => Whole'
    BY <1>0, <2>1, <2>2, <2>3, SMTT(30) DEF Whole
  <2> QED
    BY <2>1, <2>4 DEF WholeInv, Alive
<1>6. CASE NotifyData
  BY <1>0, <1>6 DEF WholeInv, Whole, Alive, Pushed, NotifyData
<1> QED
  BY <1>1, <1>2, <1>3, <1>4, <1>5, <1>6 DEF Feeder

(* What the worker takes is the datum after the one it took before.         *)
LEMMA PopTakesNext ==
  ASSUME IInv, Whole, Pop
  PROVE  taken' = taken + 1 /\ Whole'
<1>1. /\ queue # <<>> /\ queue \in Seq(1 .. MaxData) /\ taken \in Nat /\ added \in Nat
      /\ taken' = Head(queue) /\ queue' = Tail(queue) /\ UNCHANGED <<fpc, added>>
  BY BoundsAreNaturals DEF IInv, TypeOK, Pop, feeder
<1>2. /\ 1 \in 1 .. Len(queue) /\ Head(queue) = queue[1]
      /\ Len(queue') = Len(queue) - 1
      /\ \A i \in 1 .. Len(queue) - 1 : queue'[i] = queue[i + 1] /\ i + 1 \in 1 .. Len(queue)
  BY <1>1
<1>3. taken' = taken + 1
  BY <1>1, <1>2 DEF Whole
<1>4. Pushed' = Pushed /\ Pushed \in Nat
  BY <1>1 DEF IInv, TypeOK, Ordered, Pushed, FeederPoints
<1>5. Len(queue') = Pushed' - taken'
  BY <1>1, <1>2, <1>3, <1>4 DEF Whole
<1>6. ASSUME NEW i \in 1 .. Len(queue') PROVE queue'[i] = taken' + i
  <2>1. i \in Nat /\ i \in 1 .. Len(queue) - 1 /\ i + 1 \in 1 .. Len(queue)
    BY <1>1, <1>2
  <2>2. queue[i + 1] = taken + (i + 1)
    BY <2>1 DEF Whole
  <2>3. queue'[i] = queue[i + 1]
    BY <1>2, <2>1
  <2> QED
    BY <1>1, <1>3, <2>1, <2>2, <2>3
<1> QED
  BY <1>3, <1>5, <1>6 DEF Whole

LEMMA WholeWorker == IInv /\ WholeInv /\ (Worker \/ SpuriousWakeup) => WholeInv'
<1> SUFFICES ASSUME IInv, WholeInv, Worker \/ SpuriousWakeup PROVE WholeInv'
  OBVIOUS
<1> USE DEF flags, feeder, owner, history
<1>1. CASE Pop
  <2>1. stops = 0 => Whole'
    BY <1>1, PopTakesNext DEF WholeInv
  <2> QED
    BY <1>1, <2>1 DEF WholeInv, Alive, Pop
<1>2. ASSUME NEW from, NEW to, from # "none", WorkerStep(from, to),
             to \in {"read-block", "read-asleep"} => pauses # 0,
             to = "none" => FALSE, to = "exited" => needStop
      PROVE  WholeInv'
  BY <1>2 DEF WholeInv, Whole, Alive, Pushed, WorkerStep
<1>3. CASE Loop
  BY <1>2, <1>3 DEF Loop
<1>4. CASE ReadWait
  <2>1. ~reading => pauses # 0
    BY DEF WholeInv
  <2>2. wpc = "read-block" => pauses # 0
    BY DEF WholeInv
  <2>3. WorkerStep("read-block", "read-asleep") => wpc = "read-block"
    BY DEF WorkerStep
  <2> QED
    BY <1>2, <1>4, <2>1, <2>2, <2>3 DEF ReadWait
<1>5. CASE DataWait
  BY <1>2, <1>5 DEF DataWait
<1>6. CASE Process
  BY <1>2, <1>6 DEF Process
<1>7. CASE Finish
  BY <1>7 DEF WholeInv, Whole, Alive, Pushed, Finish
<1>8. CASE Catch
  BY <1>8 DEF WholeInv, Whole, Alive, Pushed, Catch
<1>9. CASE SpuriousWakeup
  BY <1>2, <1>9 DEF SpuriousWakeup
<1> QED
  BY <1>1, <1>3, <1>4, <1>5, <1>6, <1>7, <1>8, <1>9 DEF Worker

LEMMA WholeOwner == IInv /\ WholeInv /\ Owner => WholeInv'
<1> SUFFICES ASSUME IInv, WholeInv, Owner PROVE WholeInv'
  OBVIOUS
<1> USE DEF flags, worker, feeder, history
<1>0. stops \in Nat /\ pauses \in Nat
  BY BoundsAreNaturals DEF IInv, TypeOK
<1>1. CASE StopWorker
  BY <1>0, <1>1 DEF WholeInv, StopWorker
<1>2. CASE Join \/ ResetData \/ SetNotRunning \/ UnsetNeedStop \/ StopNotifiesRead \/ StopNotifiesData
  <2>1. /\ opc \notin {"idle", "wake-pause"}
        /\ UNCHANGED <<stops, pauses, reading>>
        /\ wpc' \in {"read-block", "read-asleep"} => wpc' = wpc
    BY <1>2 DEF Join, ResetData, SetNotRunning, UnsetNeedStop, StopNotifiesRead,
                StopNotifiesData, WakeReader
  <2>2. stops # 0
    BY <2>1 DEF WholeInv, Alive
  <2> QED
    BY <2>1, <2>2 DEF WholeInv
<1>3. CASE Pause
  BY <1>0, <1>3 DEF WholeInv, Whole, Alive, Pushed, Pause
<1>4. CASE ContinueReading
  BY <1>0, <1>4 DEF WholeInv, Whole, Alive, Pushed, ContinueReading
<1>5. CASE NotifyRead
  BY <1>5 DEF WholeInv, Whole, Alive, Pushed, NotifyRead, WakeReader
<1> QED
  BY <1>1, <1>2, <1>3, <1>4, <1>5 DEF Owner

LEMMA WholeInvariant == Spec => [](IInv /\ WholeInv)
<1>1. WholeInv /\ UNCHANGED vars => WholeInv'
  BY DEF WholeInv, Whole, Alive, Pushed, vars, flags, worker, feeder, owner
<1>2. IInv /\ WholeInv /\ [Next]_vars => WholeInv'
  BY <1>1, WholeFeeder, WholeWorker, WholeOwner DEF Next
<1> QED
  BY WholeInit, <1>2, IInvInvariant, PTL DEF Spec

(* worker_thread: until the first stop_worker, the data are processed       *)
(* one after the other and none is left out, whatever is thrown, however    *)
(* often the worker is paused and whichever wakeup is spurious.             *)
THEOREM NoDatumIsSkipped ==
  Spec => [][stops = 0 /\ taken' # taken => taken' = taken + 1]_vars
<1>1. IInv /\ WholeInv /\ [Next]_vars => (stops = 0 /\ taken' # taken => taken' = taken + 1)
  <2> SUFFICES ASSUME IInv, WholeInv, [Next]_vars, stops = 0, taken' # taken
               PROVE  taken' = taken + 1
    OBVIOUS
  <2>1. Pop
    BY DEF Next, vars, worker, Feeder, AddData, CreateThread, SetRunning, SetReading, Push,
           NotifyData, Worker, WorkerStep, Loop, ReadWait, DataWait, Process, Finish, Catch,
           SpuriousWakeup, Owner, StopWorker, StopNotifiesRead, StopNotifiesData, Join,
           ResetData, SetNotRunning, UnsetNeedStop, Pause, ContinueReading, NotifyRead
  <2> QED
    BY <2>1, PopTakesNext DEF WholeInv
<1> QED
  BY <1>1, WholeInvariant, PTL DEF Spec

Resting == {"none", "exited", "read-block", "read-asleep", "data-block", "data-asleep"}

(* add_data against the waits of worker_thread: when no call of add_data is *)
(* under way and the worker waits, it has taken all there is.  What         *)
(* EveryDatumIsTaken says beyond that is that the worker is scheduled.      *)
THEOREM WaitingWorkerHasTakenAll ==
  Spec => [](stops = 0 /\ pauses = 0 /\ fpc = "idle" /\ wpc \in Resting => taken = added)
<1>1. IInv /\ WholeInv
        => (stops = 0 /\ pauses = 0 /\ fpc = "idle" /\ wpc \in Resting => taken = added)
  <2> SUFFICES ASSUME IInv, WholeInv, stops = 0, pauses = 0, fpc = "idle", wpc \in Resting
               PROVE  taken = added
    OBVIOUS
  <2>1. /\ added \in Nat /\ taken \in Nat /\ Pushed = added /\ taken <= added
        /\ queue \in Seq(1 .. MaxData)
    BY BoundsAreNaturals DEF IInv, TypeOK, Ordered, Pushed
  <2>2. CASE wpc = "none"
    BY <2>1, <2>2 DEF WholeInv, Alive
  <2>3. CASE wpc \in {"data-block", "data-asleep"}
    <3>1. queue = <<>>
      BY <2>3 DEF IInv, Awake
    <3> QED
      BY <2>1, <3>1 DEF WholeInv, Whole
  <2> QED
    BY <2>2, <2>3 DEF WholeInv, Alive, Resting
<1> QED
  BY <1>1, WholeInvariant, PTL
=============================================================================
