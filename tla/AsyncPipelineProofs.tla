------------------------ MODULE AsyncPipelineProofs ------------------------
(***************************************************************************)
(* The safety of AsyncPipeline for every tree of branches, every policy,   *)
(* any branches that fail, and any number of callers, frames and stops.    *)
(***************************************************************************)
EXTENDS AsyncPipeline, FiniteSets, FiniteSetTheorems, TLAPS

LEMMA NumbersOfFrames ==
  /\ MaxFrames \in Nat /\ MaxStops \in Nat
  /\ Null \notin Frames /\ Absent \notin Frames /\ Absent # Null
  /\ \A f \in Frames \cup {Null} : f \in Nat
  BY BoundsAreNaturals DEF Null, Absent, Frames

----------------------------------------------------------------------------
(* Types.                                                                  *)

LEMMA TypeInit == Init => TypeOK
<1> SUFFICES ASSUME Init PROVE TypeOK
  OBVIOUS
<1>1. /\ queue \in [Branches -> Seq(Frames \cup {Null})]
      /\ exceptions \in [Branches -> Nat] /\ dcount \in Nat
      /\ accepted \in 0 .. MaxFrames /\ stops \in 0 .. MaxStops
  BY NumbersOfFrames DEF Init
<1>2. /\ status \in [Branches -> Statuses]
      /\ data \in [Branches -> Frames \cup {Null}]
      /\ output \in [Branches -> Frames \cup {Null, Absent}]
      /\ posted \in [Branches -> Frames \cup {Absent}]
      /\ work \in [Branches -> Frames \cup {Null}]
      /\ begun \in [Branches -> Frames \cup {Null}]
  BY DEF Init, Statuses
<1>3. /\ running \in [Branches -> BOOLEAN] /\ stopping \in [Branches -> BOOLEAN]
      /\ wpc \in [Branches -> WorkerPoints]
      /\ sub \in [Submitters -> {"idle", "run", "mark", "add"}]
      /\ finished \in [Branches -> SUBSET Frames]
  BY DEF Init, WorkerPoints
<1> QED
  BY <1>1, <1>2, <1>3, BranchesAreATree
     DEF Init, TypeOK, DispatcherPoints, StopPoints, Aborts

LEMMA TypeSubmitter ==
  ASSUME TypeOK, NEW s \in Submitters, Submitter(s) PROVE TypeOK'
<1> USE DEF slots, pool, disp, workers, stopper, history
<1>1. CASE Submit(s)
  BY <1>1 DEF TypeOK, Submit
<1>2. CASE RunRefused(s)
  BY <1>2 DEF TypeOK, RunRefused
<1>3. CASE Run(s)
  BY <1>3 DEF TypeOK, Run, Abort, Aborts, DispatcherPoints
<1>4. CASE MarkPoolRunning(s)
  BY <1>4 DEF TypeOK, MarkPoolRunning
<1>5. CASE AddProcessData(s)
  <2>1. CASE status[Root] = "Finished" /\ accepted < MaxFrames
    <3>1. accepted + 1 \in Frames /\ accepted + 1 \in 0 .. MaxFrames
      BY <2>1, NumbersOfFrames DEF TypeOK, Frames
    <3>2. accepted' \in 0 .. MaxFrames
      BY <1>5, <2>1, <3>1 DEF TypeOK, AddProcessData
    <3>3. data' \in [Branches -> Frames \cup {Null}]
      BY <1>5, <2>1, <3>1, ZenonT(60) DEF TypeOK, AddProcessData
    <3>4. status' \in [Branches -> Statuses]
      BY <1>5, <2>1, ZenonT(60) DEF TypeOK, AddProcessData, Statuses
    <3> QED
      BY <1>5, <3>2, <3>3, <3>4 DEF TypeOK, AddProcessData
  <2>2. CASE status[Root] # "Finished"
    BY <1>5, <2>2 DEF TypeOK, AddProcessData
  <2> QED
    BY <1>5, <2>1, <2>2 DEF AddProcessData
<1> QED
  BY <1>1, <1>2, <1>3, <1>4, <1>5 DEF Submitter

LEMMA TypeDispatcher == TypeOK /\ Dispatcher => TypeOK'
<1> SUFFICES ASSUME TypeOK, Dispatcher PROVE TypeOK'
  OBVIOUS
<1> USE BranchesAreATree
        DEF slots, pool, disp, workers, stopper, history, DispatcherPoints, Abort, Aborts
<1>1. CASE StartIteration
  BY <1>1 DEF TypeOK, StartIteration
<1>2. CASE LeaveLoop
  BY <1>2 DEF TypeOK, LeaveLoop
<1>3. ASSUME NEW b \in Branches, ScanQuietBranch(b) PROVE TypeOK'
  BY <1>3 DEF TypeOK, ScanQuietBranch
<1>4. ASSUME NEW b \in Branches, HandleExceptions(b) PROVE TypeOK'
  BY <1>4 DEF TypeOK, HandleExceptions, Statuses
<1>5. CASE CountExceptions
  BY <1>5 DEF TypeOK, CountExceptions
<1>6. CASE ClearExceptions
  <2>1. exceptions' \in [Branches -> Nat]
    <3>1. exceptions \in [Branches -> Nat] /\ dat \in Branches
      BY DEF TypeOK
    <3>2. \/ exceptions' = exceptions
          \/ exceptions' = [exceptions EXCEPT ![dat] = 0]
      BY <1>6 DEF ClearExceptions
    <3> QED
      BY <3>1, <3>2
  <2>2. dcount' \in Nat
    BY <1>6 DEF ClearExceptions
  <2>3. dpc' \in DispatcherPoints /\ dat' \in Branches /\ aborted' \in Aborts
    BY <1>6 DEF TypeOK, ClearExceptions
  <2> QED
    BY <1>6, <2>1, <2>2, <2>3 DEF TypeOK, ClearExceptions
<1>7. CASE StartDispatch
  BY <1>7 DEF TypeOK, StartDispatch
<1>8. ASSUME NEW b \in Branches, SkipBranch(b) PROVE TypeOK'
  BY <1>8 DEF TypeOK, SkipBranch
<1>9. ASSUME NEW b \in Branches, ChooseBranch(b) PROVE TypeOK'
  BY <1>9 DEF TypeOK, ChooseBranch
<1>10. CASE AssertBranch
  BY <1>10 DEF TypeOK, AssertBranch
<1>11. CASE SpawnWorker
  BY <1>11 DEF TypeOK, SpawnWorker, WorkerPoints
<1>12. CASE MarkWorkerRunning
  BY <1>12 DEF TypeOK, MarkWorkerRunning
<1>13. CASE PushData
  <2>1. queue' \in [Branches -> Seq(Frames \cup {Null})]
    <3>1. queue[dat] \in Seq(Frames \cup {Null}) /\ data[dat] \in Frames \cup {Null}
      BY DEF TypeOK
    <3>2. Append(queue[dat], data[dat]) \in Seq(Frames \cup {Null})
      BY <3>1
    <3> QED
      BY <1>13, <3>2 DEF TypeOK, PushData
  <2>2. data' \in [Branches -> Frames \cup {Null}]
    BY <1>13 DEF TypeOK, PushData
  <2> QED
    BY <1>13, <2>1, <2>2 DEF TypeOK, PushData
<1>14. CASE SettleBranch
  BY <1>14 DEF TypeOK, SettleBranch, Statuses
<1>15. CASE EndIteration
  BY <1>15 DEF TypeOK, EndIteration
<1> QED
  BY <1>1, <1>2, <1>3, <1>4, <1>5, <1>6, <1>7, <1>8, <1>9, <1>10, <1>11, <1>12, <1>13,
     <1>14, <1>15 DEF Dispatcher

LEMMA TypeWorker ==
  ASSUME TypeOK, NEW b \in Branches, Worker(b) PROVE TypeOK'
<1> USE DEF slots, pool, disp, workers, stopper, history, WorkerPoints
<1>1. CASE TakeData(b)
  <2>1. queue[b] \in Seq(Frames \cup {Null}) /\ queue[b] # <<>>
    BY <1>1 DEF TypeOK, TakeData
  <2>2. Head(queue[b]) \in Frames \cup {Null} /\ Tail(queue[b]) \in Seq(Frames \cup {Null})
    BY <2>1
  <2>3. queue' \in [Branches -> Seq(Frames \cup {Null})]
    BY <1>1, <2>2 DEF TypeOK, TakeData
  <2>4. /\ work' \in [Branches -> Frames \cup {Null}]
        /\ begun' \in [Branches -> Frames \cup {Null}]
    BY <1>1, <2>2 DEF TypeOK, TakeData
  <2> QED
    BY <1>1, <2>3, <2>4 DEF TypeOK, TakeData
<1>2. CASE LeaveWorker(b)
  BY <1>2 DEF TypeOK, LeaveWorker
<1>3. CASE Process(b)
  BY <1>3 DEF TypeOK, Process, Abort, Aborts
<1>4. CASE LookAtNeedStop(b)
  BY <1>4 DEF TypeOK, LookAtNeedStop
<1>5. CASE OnFinishedEmpty(b)
  BY <1>5 DEF TypeOK, OnFinishedEmpty, Statuses
<1>6. CASE OnFinished(b)
  <2>1. work[b] \in Frames
    BY <1>6 DEF TypeOK, OnFinished
  <2>2. /\ status' \in [Branches -> Statuses]
        /\ data' \in [Branches -> Frames \cup {Null}]
    BY <1>6, <2>1 DEF TypeOK, OnFinished, Statuses
  <2>3. output' \in [Branches -> Frames \cup {Null, Absent}]
    BY <1>6, <2>1 DEF TypeOK, OnFinished
  <2>4. posted' \in [Branches -> Frames \cup {Absent}]
    <3>1. ResultMap(output', b) \in [Branches -> Frames \cup {Null, Absent}]
      BY <2>3, PolicyIsKnown DEF ResultMap, Nothing
    <3> QED
      BY <1>6, <3>1, ZenonT(60) DEF TypeOK, OnFinished
  <2>5. wpc' \in [Branches -> WorkerPoints]
    BY <1>6, ZenonT(60) DEF TypeOK, OnFinished
  <2>6. /\ finished' \in [Branches -> SUBSET Frames]
        /\ work' \in [Branches -> Frames \cup {Null}]
    BY <1>6, <2>1 DEF TypeOK, OnFinished
  <2> QED
    BY <1>6, <2>2, <2>3, <2>4, <2>5, <2>6 DEF TypeOK, OnFinished
<1>7. CASE KeepException(b)
  BY <1>7, SMTT(30) DEF TypeOK, KeepException
<1> QED
  BY <1>1, <1>2, <1>3, <1>4, <1>5, <1>6, <1>7 DEF Worker

LEMMA TypeStopper == TypeOK /\ Stopper => TypeOK'
<1> SUFFICES ASSUME TypeOK, Stopper PROVE TypeOK'
  OBVIOUS
<1> USE BranchesAreATree
        DEF slots, pool, disp, workers, stopper, history, StopPoints
<1>1. CASE Stop
  <2>1. stops' \in 0 .. MaxStops
    BY <1>1, NumbersOfFrames DEF TypeOK, Stop
  <2>2. needStop' \in BOOLEAN /\ spc' \in StopPoints /\ sleft' \subseteq Branches
    BY <1>1 DEF Stop
  <2> QED
    BY <1>1, <2>1, <2>2 DEF TypeOK, Stop
<1>2. ASSUME NEW b \in Branches, StopIdleBranch(b) PROVE TypeOK'
  BY <1>2 DEF TypeOK, StopIdleBranch
<1>3. ASSUME NEW b \in Branches, StopWorker(b) PROVE TypeOK'
  BY <1>3 DEF TypeOK, StopWorker
<1>4. CASE JoinWorker
  BY <1>4 DEF TypeOK, JoinWorker, WorkerPoints
<1>5. CASE ResetWorker
  <2>1. queue' \in [Branches -> Seq(Frames \cup {Null})]
    BY <1>5 DEF TypeOK, ResetWorker
  <2>2. exceptions' \in [Branches -> Nat]
    BY <1>5 DEF TypeOK, ResetWorker
  <2> QED
    BY <1>5, <2>1, <2>2 DEF TypeOK, ResetWorker
<1>6. CASE UnmarkWorker
  BY <1>6 DEF TypeOK, UnmarkWorker
<1>7. CASE UnsetWorkerStop
  BY <1>7 DEF TypeOK, UnsetWorkerStop
<1>8. CASE StartResetSlots
  BY <1>8 DEF TypeOK, StartResetSlots
<1>9. ASSUME NEW b \in Branches, ResetSlot(b) PROVE TypeOK'
  BY <1>9 DEF TypeOK, ResetSlot, Statuses
<1>10. CASE JoinDispatcher
  BY <1>10 DEF TypeOK, JoinDispatcher, DispatcherPoints
<1>11. CASE MarkPoolStopped
  BY <1>11 DEF TypeOK, MarkPoolStopped
<1> QED
  BY <1>1, <1>2, <1>3, <1>4, <1>5, <1>6, <1>7, <1>8, <1>9, <1>10, <1>11 DEF Stopper

(* Every thread keeps the types, for any tree of branches and any bounds.   *)
THEOREM TypeCorrect == Spec => []TypeOK
<1>1. TypeOK /\ UNCHANGED vars => TypeOK'
  BY DEF TypeOK, vars, slots, pool, disp, workers, stopper, history
<1>2. TypeOK /\ [Next]_vars => TypeOK'
  BY <1>1, TypeSubmitter, TypeDispatcher, TypeWorker, TypeStopper DEF Next
<1> QED
  BY TypeInit, <1>2, PTL DEF Spec

----------------------------------------------------------------------------
(* Threads of the branches.  A branch that is not running has no thread,    *)
(* except between the two halves of run_worker, and a stop_worker under way *)
(* keeps its branch running until the thread is joined.                     *)

SpawnInv ==
  /\ \A b \in Branches : ~running[b] /\ ~(dpc = "mark" /\ dat = b) => wpc[b] = "none"
  /\ dpc \in {"spawn", "mark"} => ~running[dat]
  /\ spc \in {"join", "reset", "unmark"} => running[sat]
  /\ spc \in {"reset", "unmark"} => wpc[sat] = "none"

LEMMA SpawnInit == Init => SpawnInv
  BY DEF Init, SpawnInv

LEMMA SpawnSubmitter ==
  ASSUME TypeOK, SpawnInv, NEW s \in Submitters, Submitter(s) PROVE SpawnInv'
<1>1. UNCHANGED <<running, wpc, spc, sat, dat>> /\ (dpc' = dpc \/ (dpc' = "loop" /\ dpc = "none"))
  <2> USE DEF slots, pool, disp, workers, stopper, history
  <2>1. CASE Submit(s) \/ RunRefused(s) \/ MarkPoolRunning(s) \/ AddProcessData(s)
    BY <2>1 DEF Submit, RunRefused, MarkPoolRunning, AddProcessData
  <2>2. CASE Run(s)
    BY <2>2 DEF Run
  <2> QED
    BY <2>1, <2>2 DEF Submitter
<1> QED
  BY <1>1 DEF SpawnInv

LEMMA SpawnDispatcher == TypeOK /\ SpawnInv /\ Dispatcher => SpawnInv'
<1> SUFFICES ASSUME TypeOK, SpawnInv, Dispatcher PROVE SpawnInv'
  OBVIOUS
<1> USE DEF disp, workers, stopper
<1>1. CASE AssertBranch
  BY <1>1 DEF TypeOK, SpawnInv, AssertBranch
<1>2. CASE SpawnWorker
  BY <1>2 DEF TypeOK, SpawnInv, SpawnWorker
<1>3. CASE MarkWorkerRunning
  BY <1>3 DEF TypeOK, SpawnInv, MarkWorkerRunning
<1>4. CASE ~(AssertBranch \/ SpawnWorker \/ MarkWorkerRunning)
  <2>1. /\ UNCHANGED <<running, wpc, stopper>>
        /\ dpc \notin {"spawn", "mark"} /\ dpc' \notin {"spawn", "mark"}
    BY <1>4 DEF Dispatcher, StartIteration, LeaveLoop, ScanQuietBranch, HandleExceptions,
                CountExceptions, ClearExceptions, StartDispatch, SkipBranch, ChooseBranch,
                PushData, SettleBranch, EndIteration
  <2> QED
    BY <2>1 DEF SpawnInv
<1> QED
  BY <1>1, <1>2, <1>3, <1>4

LEMMA SpawnWorkers ==
  ASSUME TypeOK, SpawnInv, NEW b \in Branches, Worker(b) PROVE SpawnInv'
<1>1. /\ UNCHANGED <<running, disp, stopper>>
      /\ wpc[b] # "none"
      /\ \A x \in Branches \ {b} : wpc'[x] = wpc[x]
  BY DEF TypeOK, Worker, TakeData, LeaveWorker, Process, LookAtNeedStop, OnFinishedEmpty,
         OnFinished, KeepException
<1> QED
  BY <1>1 DEF TypeOK, SpawnInv, disp, stopper

LEMMA SpawnStopper == TypeOK /\ SpawnInv /\ Stopper => SpawnInv'
<1> SUFFICES ASSUME TypeOK, SpawnInv, Stopper PROVE SpawnInv'
  OBVIOUS
<1> USE DEF disp, workers, stopper
<1>1. ASSUME NEW b \in Branches, StopWorker(b) PROVE SpawnInv'
  BY <1>1 DEF TypeOK, SpawnInv, StopWorker
<1>2. CASE JoinWorker
  BY <1>2 DEF TypeOK, SpawnInv, JoinWorker
<1>3. CASE ResetWorker
  BY <1>3 DEF TypeOK, SpawnInv, ResetWorker
<1>4. CASE UnmarkWorker
  BY <1>4 DEF TypeOK, SpawnInv, UnmarkWorker
<1>5. CASE JoinDispatcher
  BY <1>5 DEF TypeOK, SpawnInv, JoinDispatcher
<1>6. CASE \/ Stop \/ UnsetWorkerStop \/ StartResetSlots \/ MarkPoolStopped
           \/ \E b \in Branches : StopIdleBranch(b) \/ ResetSlot(b)
  <2>1. /\ UNCHANGED <<running, wpc, disp>>
        /\ spc' \notin {"join", "reset", "unmark"}
    BY <1>6 DEF Stop, UnsetWorkerStop, StartResetSlots, MarkPoolStopped, StopIdleBranch,
                ResetSlot
  <2> QED
    BY <2>1 DEF SpawnInv
<1> QED
  BY <1>1, <1>2, <1>3, <1>4, <1>5, <1>6 DEF Stopper

LEMMA SpawnInvariant == Spec => [](TypeOK /\ SpawnInv)
<1>1. SpawnInv /\ UNCHANGED vars => SpawnInv'
  BY DEF SpawnInv, vars, disp, workers, stopper
<1>2. TypeOK /\ SpawnInv /\ [Next]_vars => SpawnInv'
  BY <1>1, SpawnSubmitter, SpawnDispatcher, SpawnWorkers, SpawnStopper DEF Next
<1> QED
  BY TypeCorrect, SpawnInit, <1>2, PTL DEF Spec

(* The dispatcher never starts a second thread for a branch, however its    *)
(* add_data and the stop_worker of stop() interleave: run_worker never      *)
(* assigns to a std::thread that is still joinable.                         *)
THEOREM SpawnsSafely == Spec => []SpawnsOnlyUnjoinable
<1>1. TypeOK /\ SpawnInv => SpawnsOnlyUnjoinable
  BY DEF TypeOK, SpawnInv, SpawnsOnlyUnjoinable
<1> QED
  BY SpawnInvariant, <1>1, PTL

----------------------------------------------------------------------------
(* Frames.  What is on its way to a branch, in its slot or in its queue, was*)
(* finished by the branch that feeds it and is newer than what the branch   *)
(* began before; what a branch works on it has not finished yet.            *)

Feed(b) ==
  {f \in Frames : IF b = Root THEN f <= accepted
                  ELSE \E p \in Branches : b \in Children[p] /\ f \in finished[p]}

InOrder(b) ==
  /\ begun[b] # Null => begun[b] \in Feed(b)
  /\ data[b] # Null => data[b] \in Feed(b) /\ begun[b] < data[b]
  /\ \A i \in 1 .. Len(queue[b]) : queue[b][i] # Null =>
       /\ queue[b][i] \in Feed(b)
       /\ begun[b] < queue[b][i]
       /\ data[b] # Null => queue[b][i] < data[b]
  /\ \A i, j \in 1 .. Len(queue[b]) :
       i < j /\ queue[b][i] # Null /\ queue[b][j] # Null => queue[b][i] < queue[b][j]

AtWork(b) ==
  /\ \A f \in finished[b] : f <= begun[b]
  /\ b \in Working => work[b] = begun[b] /\ begun[b] \notin finished[b]

FlowInv == \A b \in Branches : InOrder(b) /\ AtWork(b)

LEMMA FlowInit == Init => FlowInv
<1> SUFFICES ASSUME Init, NEW b \in Branches PROVE InOrder(b) /\ AtWork(b)
  BY DEF FlowInv
<1>1. begun[b] = Null /\ data[b] = Null /\ queue[b] = <<>> /\ work[b] = Null /\ finished[b] = {}
  BY DEF Init
<1> QED
  BY <1>1 DEF InOrder, AtWork, Working

LEMMA FeedIsAvailable ==
  ASSUME TypeOK, NEW b \in Branches PROVE Feed(b) = Flow!Available(b)
  BY NumbersOfFrames DEF TypeOK, Feed, Flow!Available, Frames

(* A step that only gives up frames: slots are emptied, queues are emptied, *)
(* workers leave the frame they work on.                                    *)
GivesUp ==
  /\ UNCHANGED <<accepted, begun, finished>>
  /\ \A b \in Branches : data'[b] \in {data[b], Null}
  /\ \A b \in Branches : queue'[b] \in {queue[b], <<>>}
  /\ \A b \in Working' : b \in Working /\ work'[b] = work[b]

LEMMA FlowGivesUp ==
  ASSUME TypeOK, FlowInv, GivesUp PROVE FlowInv'
<1> SUFFICES ASSUME NEW b \in Branches PROVE InOrder(b)' /\ AtWork(b)'
  BY DEF FlowInv
<1>1. InOrder(b) /\ AtWork(b)
  BY DEF FlowInv
<1>2. Feed(b)' = Feed(b)
  BY DEF GivesUp, Feed
<1>3. AtWork(b)'
  BY <1>1 DEF GivesUp, AtWork
<1>4. CASE queue'[b] = queue[b]
  BY <1>1, <1>2, <1>3, <1>4 DEF GivesUp, InOrder
<1>5. CASE queue'[b] = <<>>
  BY <1>1, <1>2, <1>3, <1>5 DEF GivesUp, InOrder
<1> QED
  BY <1>4, <1>5 DEF GivesUp

(* add_process_data: the new frame is the newest.                           *)
LEMMA FlowAddProcessData ==
  ASSUME TypeOK, FlowInv, NEW s \in Submitters, AddProcessData(s) PROVE FlowInv'
<1>1. UNCHANGED <<begun, finished, queue, work, Working>>
  BY DEF AddProcessData, workers, Working
<1>2. CASE status[Root] # "Finished"
  <2>1. GivesUp
    BY <1>1, <1>2 DEF AddProcessData, GivesUp
  <2> QED
    BY <2>1, FlowGivesUp
<1>3. CASE status[Root] = "Finished" /\ accepted < MaxFrames
  <2> SUFFICES ASSUME NEW b \in Branches PROVE InOrder(b)' /\ AtWork(b)'
    BY DEF FlowInv
  <2>1. InOrder(b) /\ AtWork(b)
    BY DEF FlowInv
  <2>2. AtWork(b)'
    BY <1>1, <2>1 DEF AtWork
  <2>3. CASE b # Root
    <3>1. Feed(b)' = Feed(b) /\ data'[b] = data[b]
      BY <1>1, <1>3, <2>3 DEF TypeOK, AddProcessData, Feed
    <3> QED
      BY <1>1, <2>1, <2>2, <3>1 DEF InOrder
  <2>4. CASE b = Root
    <3>1. data'[b] = accepted + 1 /\ accepted' = accepted + 1
      BY <1>3, <2>4, BranchesAreATree DEF TypeOK, AddProcessData
    <3>2. \A f \in Feed(b) : f \in Feed(b)' /\ f < accepted + 1
      BY <2>4, <3>1, NumbersOfFrames DEF TypeOK, Feed, Frames
    <3>3. accepted + 1 \in Feed(b)' /\ accepted + 1 > 0
      BY <1>3, <2>4, <3>1, NumbersOfFrames DEF TypeOK, Feed, Frames
    <3>4. begun[b] < accepted + 1
      BY <2>1, <3>2, <3>3 DEF InOrder, Null
    <3> QED
      BY <1>1, <2>1, <2>2, <3>1, <3>2, <3>3, <3>4 DEF InOrder
  <2> QED
    BY <2>3, <2>4
<1> QED
  BY <1>2, <1>3 DEF AddProcessData

(* add_data: the frame of the slot goes behind those in the queue.          *)
LEMMA FlowPushData ==
  ASSUME TypeOK, FlowInv, PushData PROVE FlowInv'
<1> SUFFICES ASSUME NEW b \in Branches PROVE InOrder(b)' /\ AtWork(b)'
  BY DEF FlowInv
<1>1. InOrder(b) /\ AtWork(b)
  BY DEF FlowInv
<1>2. UNCHANGED <<accepted, begun, finished, work, Working>>
  BY DEF PushData, history, Working
<1>3. AtWork(b)' /\ Feed(b)' = Feed(b)
  BY <1>1, <1>2 DEF AtWork, Feed
<1>4. CASE b # dat
  <2>1. data'[b] = data[b] /\ queue'[b] = queue[b]
    BY <1>4 DEF TypeOK, PushData
  <2> QED
    BY <1>1, <1>2, <1>3, <2>1 DEF InOrder
<1>5. CASE b = dat
  <2>1. data'[b] = Null /\ queue'[b] = Append(queue[b], data[b])
    BY <1>5 DEF TypeOK, PushData
  <2>2. queue[b] \in Seq(Frames \cup {Null}) /\ data[b] \in Frames \cup {Null}
    BY DEF TypeOK
  <2>3. /\ Len(queue'[b]) = Len(queue[b]) + 1
        /\ queue'[b][Len(queue[b]) + 1] = data[b]
        /\ \A i \in 1 .. Len(queue[b]) : queue'[b][i] = queue[b][i]
    BY <2>1, <2>2
  <2>4. Len(queue[b]) \in Nat
    BY <2>2
  <2>5. \A i \in 1 .. Len(queue'[b]) : queue'[b][i] # Null =>
          queue'[b][i] \in Feed(b) /\ begun[b] < queue'[b][i]
    BY <1>1, <2>3, <2>4 DEF InOrder
  <2>6. ASSUME NEW i \in 1 .. Len(queue'[b]), NEW j \in 1 .. Len(queue'[b]), i < j,
               queue'[b][i] # Null, queue'[b][j] # Null
        PROVE  queue'[b][i] < queue'[b][j]
    <3>1. i \in 1 .. Len(queue[b]) /\ queue'[b][i] = queue[b][i]
      BY <2>3, <2>4, <2>6
    <3>2. CASE j \in 1 .. Len(queue[b])
      BY <1>1, <2>3, <2>6, <3>1, <3>2 DEF InOrder
    <3>3. CASE j = Len(queue[b]) + 1
      BY <1>1, <2>3, <2>6, <3>1, <3>3 DEF InOrder
    <3> QED
      BY <2>3, <2>4, <3>2, <3>3
  <2> QED
    BY <1>1, <1>2, <1>3, <2>1, <2>5, <2>6 DEF InOrder
<1> QED
  BY <1>4, <1>5

(* The worker begins the oldest frame of its queue.                         *)
LEMMA FlowTakeData ==
  ASSUME TypeOK, FlowInv, NEW t \in Branches, TakeData(t) PROVE FlowInv'
<1> SUFFICES ASSUME NEW b \in Branches PROVE InOrder(b)' /\ AtWork(b)'
  BY DEF FlowInv
<1>1. InOrder(b) /\ AtWork(b)
  BY DEF FlowInv
<1>2. UNCHANGED <<accepted, data, finished>>
  BY DEF TakeData, slots
<1>3. Feed(b)' = Feed(b)
  BY <1>2 DEF Feed
<1>4. CASE b # t
  <2>1. queue'[b] = queue[b] /\ begun'[b] = begun[b] /\ work'[b] = work[b] /\ wpc'[b] = wpc[b]
    BY <1>4 DEF TypeOK, TakeData
  <2>2. b \in Working' <=> b \in Working
    BY <2>1 DEF Working
  <2> QED
    BY <1>1, <1>2, <1>3, <2>1, <2>2 DEF InOrder, AtWork
<1>5. CASE b = t
  <2> DEFINE q == queue[b]
  <2>1. q \in Seq(Frames \cup {Null}) /\ q # <<>> /\ begun[b] \in Frames \cup {Null}
    BY <1>5 DEF TypeOK, TakeData
  <2>2. /\ queue'[b] = Tail(q) /\ work'[b] = q[1]
        /\ begun'[b] = IF q[1] = Null THEN begun[b] ELSE q[1]
    BY <1>5, <2>1 DEF TypeOK, TakeData
  <2>3. /\ Len(q) \in Nat /\ Len(q) >= 1 /\ q[1] \in Frames \cup {Null}
        /\ Len(queue'[b]) = Len(q) - 1
        /\ \A i \in 1 .. Len(q) - 1 : queue'[b][i] = q[i + 1]
    BY <2>1, <2>2
  <2> HIDE DEF q
  <2>4. \A i \in 1 .. Len(q) : q[i] # Null =>
          /\ q[i] \in Feed(b) /\ begun[b] < q[i]
          /\ data[b] # Null => q[i] < data[b]
    BY <1>1 DEF InOrder, q
  <2>5. \A i, j \in 1 .. Len(q) : i < j /\ q[i] # Null /\ q[j] # Null => q[i] < q[j]
    BY <1>1 DEF InOrder, q
  <2>6. \A i \in 1 .. Len(queue'[b]) : queue'[b][i] # Null =>
          /\ queue'[b][i] \in Feed(b) /\ begun'[b] < queue'[b][i]
          /\ data[b] # Null => queue'[b][i] < data[b]
    BY <2>2, <2>3, <2>4, <2>5
  <2>7. ASSUME NEW i \in 1 .. Len(queue'[b]), NEW j \in 1 .. Len(queue'[b]), i < j,
               queue'[b][i] # Null, queue'[b][j] # Null
        PROVE  queue'[b][i] < queue'[b][j]
    <3>1. /\ i + 1 \in 1 .. Len(q) /\ j + 1 \in 1 .. Len(q) /\ i + 1 < j + 1
          /\ queue'[b][i] = q[i + 1] /\ queue'[b][j] = q[j + 1]
      BY <2>3, <2>7
    <3> QED
      BY <2>5, <2>7, <3>1
  <2>8. /\ begun'[b] # Null => begun'[b] \in Feed(b)
        /\ data[b] # Null => begun'[b] < data[b]
    BY <1>1, <2>2, <2>3, <2>4 DEF InOrder
  <2>9. InOrder(b)'
    BY <1>1, <1>2, <1>3, <2>6, <2>7, <2>8 DEF InOrder
  <2>10. AtWork(b)'
    <3>1. \A f \in finished[b] : f \in Frames /\ f <= begun[b]
      BY <1>1 DEF TypeOK, AtWork
    <3>2. CASE q[1] = Null
      BY <1>2, <2>2, <3>1, <3>2 DEF AtWork, Working
    <3>3. CASE q[1] # Null
      <4>1. q[1] \in Nat /\ begun[b] \in Nat
        BY <2>1, <2>3, NumbersOfFrames
      <4>2. begun[b] < q[1]
        BY <2>3, <2>4, <3>3
      <4>3. \A f \in finished[b] : f < q[1]
        BY <3>1, <4>1, <4>2, NumbersOfFrames
      <4>4. \A f \in finished[b] : f \in Nat
        BY <3>1, NumbersOfFrames
      <4>5. begun'[b] = q[1] /\ work'[b] = q[1] /\ finished'[b] = finished[b]
        BY <1>2, <2>2, <3>3
      <4> QED
        BY <4>1, <4>3, <4>4, <4>5 DEF AtWork
    <3> QED
      BY <3>2, <3>3
  <2> QED
    BY <2>9, <2>10
<1> QED
  BY <1>4, <1>5

(* on_finished: a child gets a frame newer than any its parent finished.    *)
LEMMA FlowOnFinished ==
  ASSUME TypeOK, FlowInv, NEW t \in Branches, OnFinished(t) PROVE FlowInv'
<1>1. /\ UNCHANGED <<accepted, begun, queue>>
      /\ work[t] \in Frames /\ t \in Working
      /\ finished' = [finished EXCEPT ![t] = @ \cup {work[t]}]
      /\ work' = [work EXCEPT ![t] = Null]
      /\ \A x \in Branches \ {t} : wpc'[x] = wpc[x]
  BY DEF TypeOK, OnFinished, Working
<1>2. /\ data'[t] = Null
      /\ \A x \in Branches \ {t} : data'[x] = IF x \in Fed(t) THEN work[t] ELSE data[x]
  BY DEF OnFinished
<1>3. /\ work[t] = begun[t]
      /\ \A f \in finished[t] : f \in Nat /\ f < work[t]
  <2>1. /\ work[t] = begun[t] /\ begun[t] \notin finished[t]
        /\ \A f \in finished[t] : f <= begun[t]
    BY <1>1 DEF FlowInv, AtWork
  <2>2. work[t] \in Nat /\ \A f \in finished[t] : f \in Nat
    BY <1>1, NumbersOfFrames DEF TypeOK
  <2> QED
    BY <2>1, <2>2
<1> SUFFICES ASSUME NEW b \in Branches PROVE InOrder(b)' /\ AtWork(b)'
  BY DEF FlowInv
<1>4. InOrder(b) /\ AtWork(b)
  BY DEF FlowInv
<1>5. \A f \in Feed(b) : f \in Feed(b)'
  BY <1>1 DEF TypeOK, Feed
<1>6. CASE b = t
  <2>1. begun'[b] = begun[b] /\ queue'[b] = queue[b] /\ data'[b] = Null
    BY <1>1, <1>2, <1>6
  <2>2. InOrder(b)'
    BY <1>4, <1>5, <2>1 DEF InOrder
  <2>3. work'[b] = Null /\ finished'[b] = finished[b] \cup {begun[b]}
    BY <1>1, <1>3, <1>6 DEF TypeOK
  <2>4. begun[b] \in Nat
    BY NumbersOfFrames DEF TypeOK
  <2>5. AtWork(b)'
    BY <1>4, <2>1, <2>3, <2>4 DEF AtWork, Working
  <2> QED
    BY <2>2, <2>5
<1>7. CASE b # t
  <2>1. /\ begun'[b] = begun[b] /\ queue'[b] = queue[b] /\ finished'[b] = finished[b]
        /\ work'[b] = work[b] /\ wpc'[b] = wpc[b]
    BY <1>1, <1>7 DEF TypeOK
  <2>2. AtWork(b)'
    BY <1>4, <2>1 DEF AtWork, Working
  <2>3. CASE b \notin Fed(t)
    BY <1>2, <1>4, <1>5, <1>7, <2>1, <2>2, <2>3 DEF InOrder
  <2>4. CASE b \in Fed(t)
    <3>1. b \in Children[t] /\ b # Root /\ data'[b] = work[t]
      BY <1>2, <1>7, <2>4, BranchesAreATree DEF Fed
    <3>2. work[t] \in Feed(b)'
      BY <1>1, <3>1 DEF TypeOK, Feed
    <3>3. \A f \in Feed(b) : f \in finished[t]
      BY <3>1, BranchesAreATree DEF Feed
    <3>4. \A f \in Feed(b) : f < work[t]
      BY <1>3, <3>3
    <3>5. begun[b] < work[t]
      <4>1. work[t] \in Nat /\ work[t] # Null
        BY <1>1, NumbersOfFrames
      <4>2. Null < work[t]
        BY <4>1 DEF Null
      <4> QED
        BY <1>4, <3>4, <4>2 DEF InOrder
    <3> QED
      BY <1>4, <1>5, <2>1, <2>2, <3>1, <3>2, <3>4, <3>5 DEF InOrder
  <2> QED
    BY <2>3, <2>4
<1> QED
  BY <1>6, <1>7

----------------------------------------------------------------------------
(* Every step is a step of FrameFlow or leaves its variables alone.         *)

FlowStep == FlowInv' /\ [Flow!Next]_(Flow!vars)

LEMMA QuietStep ==
  ASSUME TypeOK, FlowInv, GivesUp, Working' = Working PROVE FlowStep
  BY FlowGivesUp DEF FlowStep, GivesUp, Flow!vars

LEMMA SubmitterFlow ==
  ASSUME TypeOK, FlowInv, NEW s \in Submitters, Submitter(s) PROVE FlowStep
<1>1. CASE AddProcessData(s)
  <2>1. FlowInv'
    BY <1>1, FlowAddProcessData
  <2>2. UNCHANGED <<begun, finished, Working>> /\ accepted' \in {accepted, accepted + 1}
    BY <1>1 DEF AddProcessData, workers, Working
  <2> QED
    BY <2>1, <2>2 DEF FlowStep, Flow!vars, Flow!Next, Flow!Accept
<1>2. CASE Submit(s) \/ RunRefused(s) \/ Run(s) \/ MarkPoolRunning(s)
  <2>1. UNCHANGED <<history, data, queue, wpc, work>>
    BY <1>2 DEF Submit, RunRefused, Run, MarkPoolRunning, slots, pool, disp, workers,
                stopper, history
  <2> QED
    BY <2>1, QuietStep DEF GivesUp, history, Working
<1> QED
  BY <1>1, <1>2 DEF Submitter

LEMMA DispatcherFlow ==
  ASSUME TypeOK, SpawnInv, FlowInv, Dispatcher PROVE FlowStep
<1> USE DEF slots, workers, history
<1>1. CASE PushData
  <2>1. FlowInv'
    BY <1>1, FlowPushData
  <2>2. UNCHANGED <<accepted, begun, finished, Working>>
    BY <1>1 DEF PushData, Working
  <2> QED
    BY <2>1, <2>2 DEF FlowStep, Flow!vars
<1>2. CASE SpawnWorker
  <2>1. /\ UNCHANGED <<history, data, queue, work>>
        /\ dat \in Branches /\ wpc[dat] = "none"
        /\ wpc' = [wpc EXCEPT ![dat] = "idle"]
    BY <1>2 DEF TypeOK, SpawnInv, SpawnWorker
  <2>2. Working' = Working
    BY <2>1 DEF TypeOK, Working
  <2> QED
    BY <2>1, <2>2, QuietStep DEF GivesUp
<1>3. ASSUME NEW b \in Branches, HandleExceptions(b) PROVE FlowStep
  <2>1. UNCHANGED <<history, queue, wpc, work>> /\ data' = [data EXCEPT ![b] = Null]
    BY <1>3 DEF HandleExceptions
  <2> QED
    BY <2>1, QuietStep DEF TypeOK, GivesUp, Working
<1>4. CASE SettleBranch
  <2>1. UNCHANGED <<history, queue, wpc, work>> /\ data' = [data EXCEPT ![dat] = Null]
    BY <1>4 DEF SettleBranch
  <2> QED
    BY <2>1, QuietStep DEF TypeOK, GivesUp, Working
<1>5. CASE \/ StartIteration \/ LeaveLoop \/ CountExceptions \/ ClearExceptions
           \/ StartDispatch \/ AssertBranch \/ MarkWorkerRunning \/ EndIteration
           \/ \E b \in Branches : ScanQuietBranch(b) \/ SkipBranch(b) \/ ChooseBranch(b)
  <2>1. UNCHANGED <<history, data, queue, wpc, work>>
    BY <1>5 DEF StartIteration, LeaveLoop, CountExceptions, ClearExceptions, StartDispatch,
                AssertBranch, MarkWorkerRunning, EndIteration, ScanQuietBranch, SkipBranch,
                ChooseBranch
  <2> QED
    BY <2>1, QuietStep DEF GivesUp, Working
<1> QED
  BY <1>1, <1>2, <1>3, <1>4, <1>5 DEF Dispatcher

LEMMA WorkerFlow ==
  ASSUME TypeOK, FlowInv, NEW b \in Branches, Worker(b) PROVE FlowStep
<1> USE DEF slots, workers, history
<1>1. CASE TakeData(b)
  <2>1. FlowInv'
    BY <1>1, FlowTakeData
  <2> DEFINE f == Head(queue[b])
  <2>2. queue[b] \in Seq(Frames \cup {Null}) /\ queue[b] # <<>>
    BY <1>1 DEF TypeOK, TakeData
  <2>3. f = queue[b][1] /\ 1 \in 1 .. Len(queue[b])
    BY <2>2
  <2>4. /\ UNCHANGED <<accepted, finished>>
        /\ wpc[b] = "idle" /\ wpc' = [wpc EXCEPT ![b] = "process"]
        /\ work' = [work EXCEPT ![b] = f]
        /\ begun' = [begun EXCEPT ![b] = IF f = Null THEN @ ELSE f]
    BY <1>1 DEF TakeData
  <2> HIDE DEF f
  <2>5. CASE f = Null
    <3>1. Working' = Working /\ begun' = begun
      BY <2>4, <2>5 DEF TypeOK, Working
    <3> QED
      BY <2>1, <2>4, <3>1 DEF FlowStep, Flow!vars
  <2>6. CASE f # Null
    <3>1. f \in Flow!Available(b) /\ f > begun[b]
      <4>1. f \in Feed(b) /\ begun[b] < f
        BY <2>3, <2>6 DEF FlowInv, InOrder
      <4> QED
        BY <4>1, FeedIsAvailable
    <3>2. Working' = Working \cup {b} /\ b \notin Working
      BY <2>4, <2>6 DEF TypeOK, Working
    <3>3. begun' = [begun EXCEPT ![b] = f]
      BY <2>4, <2>6
    <3>4. Flow!Begin(b)
      BY <2>4, <3>1, <3>2, <3>3 DEF Flow!Begin
    <3> QED
      BY <2>1, <3>4 DEF FlowStep, Flow!Next
  <2> QED
    BY <2>5, <2>6
<1>2. CASE OnFinished(b)
  <2>1. FlowInv'
    BY <1>2, FlowOnFinished
  <2>2. b \in Working /\ work[b] = begun[b]
    BY <1>2 DEF OnFinished, Working, FlowInv, AtWork
  <2>3. Working' = Working \ {b}
    BY <1>2 DEF TypeOK, OnFinished, Working
  <2>4. /\ UNCHANGED <<accepted, begun>>
        /\ finished' = [finished EXCEPT ![b] = @ \cup {begun[b]}]
    BY <1>2, <2>2 DEF OnFinished
  <2>5. Flow!Finish(b)
    BY <2>2, <2>3, <2>4 DEF Flow!Finish
  <2> QED
    BY <2>1, <2>5 DEF FlowStep, Flow!Next
<1>3. CASE LeaveWorker(b) \/ Process(b) \/ LookAtNeedStop(b) \/ OnFinishedEmpty(b) \/ KeepException(b)
  <2>1. /\ UNCHANGED <<history, queue>>
        /\ \A x \in Branches : data'[x] \in {data[x], Null}
        /\ \A x \in Branches \ {b} : wpc'[x] = wpc[x] /\ work'[x] = work[x]
        /\ b \in Working' => b \in Working /\ work'[b] = work[b]
    BY <1>3, ZenonT(60) DEF TypeOK, LeaveWorker, Process, LookAtNeedStop, OnFinishedEmpty, KeepException,
                Working
  <2>2. GivesUp
    BY <2>1 DEF GivesUp, Working
  <2>3. Working' = Working \/ (b \in Working /\ Working' = Working \ {b})
    BY <2>1 DEF Working
  <2>4. CASE Working' = Working
    BY <2>2, <2>4, QuietStep
  <2>5. CASE b \in Working /\ Working' = Working \ {b}
    BY <2>2, <2>5, FlowGivesUp DEF GivesUp, FlowStep, Flow!Next, Flow!Abandon
  <2> QED
    BY <2>3, <2>4, <2>5
<1> QED
  BY <1>1, <1>2, <1>3 DEF Worker

LEMMA StopperFlow ==
  ASSUME TypeOK, FlowInv, Stopper PROVE FlowStep
<1> USE DEF slots, workers, history
<1>1. CASE JoinWorker
  <2>1. /\ UNCHANGED <<history, data, queue, work>>
        /\ sat \in Branches /\ wpc[sat] = "exited"
        /\ wpc' = [wpc EXCEPT ![sat] = "none"]
    BY <1>1 DEF TypeOK, JoinWorker
  <2>2. Working' = Working
    BY <2>1 DEF TypeOK, Working
  <2> QED
    BY <2>1, <2>2, QuietStep DEF GivesUp
<1>2. CASE ResetWorker
  <2>1. UNCHANGED <<history, data, wpc, work>> /\ queue' = [queue EXCEPT ![sat] = <<>>]
    BY <1>2 DEF ResetWorker
  <2> QED
    BY <2>1, QuietStep DEF TypeOK, GivesUp, Working
<1>3. ASSUME NEW b \in Branches, ResetSlot(b) PROVE FlowStep
  <2>1. UNCHANGED <<history, queue, wpc, work>> /\ data' = [data EXCEPT ![b] = Null]
    BY <1>3 DEF ResetSlot
  <2> QED
    BY <2>1, QuietStep DEF TypeOK, GivesUp, Working
<1>4. CASE \/ Stop \/ UnmarkWorker \/ UnsetWorkerStop \/ StartResetSlots \/ JoinDispatcher
           \/ MarkPoolStopped \/ \E b \in Branches : StopIdleBranch(b) \/ StopWorker(b)
  <2>1. UNCHANGED <<history, data, queue, wpc, work>>
    BY <1>4 DEF Stop, UnmarkWorker, UnsetWorkerStop, StartResetSlots, JoinDispatcher,
                MarkPoolStopped, StopIdleBranch, StopWorker
  <2> QED
    BY <2>1, QuietStep DEF GivesUp, Working
<1> QED
  BY <1>1, <1>2, <1>3, <1>4 DEF Stopper

LEMMA NextFlow ==
  ASSUME TypeOK, SpawnInv, FlowInv, [Next]_vars PROVE FlowStep
<1>1. CASE UNCHANGED vars
  <2>1. UNCHANGED <<history, data, queue, wpc, work>>
    BY <1>1 DEF vars, slots, workers
  <2> QED
    BY <2>1, QuietStep DEF GivesUp, history, Working
<1>2. CASE Next
  BY <1>2, SubmitterFlow, DispatcherFlow, WorkerFlow, StopperFlow DEF Next
<1> QED
  BY <1>1, <1>2

(* The pipeline keeps the promise of FrameFlow for every tree of branches:  *)
(* with any policy, any failing nodes, any number of callers and of stops,  *)
(* what add_process_data, thread_pool_iteration, on_finished and the workers*)
(* do to frames is to accept, begin, finish or abandon them in order.       *)
THEOREM PipelineImplementsFrameFlow == Spec => ImplementsFrameFlow
<1>1. Init => Flow!Init
  BY DEF Init, Flow!Init, Working, Null
<1>2. TypeOK /\ SpawnInv /\ FlowInv /\ [Next]_vars => FlowInv' /\ [Flow!Next]_(Flow!vars)
  BY NextFlow DEF FlowStep
<1> QED
  BY <1>1, <1>2, FlowInit, SpawnInvariant, PTL DEF Spec, ImplementsFrameFlow, Flow!Spec

----------------------------------------------------------------------------
(* What FrameFlow promises of the frames, and the pipeline keeps by its     *)
(* refinement: a branch finishes nothing its parent did not finish, and the *)
(* root nothing that was not accepted.                                      *)

FlowTypes ==
  /\ accepted \in Nat
  /\ begun \in [Branches -> Nat] /\ finished \in [Branches -> SUBSET Nat]

FromParents ==
  \A b \in Branches :
    /\ finished[b] \subseteq Flow!Available(b)
    /\ b \in Working => begun[b] \in Flow!Available(b)

Promise == FlowTypes /\ FromParents

LEMMA PromiseInit == Flow!Init => Promise
<1> SUFFICES ASSUME Flow!Init PROVE Promise
  OBVIOUS
<1>1. /\ accepted = 0 /\ begun = [b \in Branches |-> 0]
      /\ finished = [b \in Branches |-> {}] /\ Working = {}
  BY DEF Flow!Init
<1>2. 0 \in Nat
  OBVIOUS
<1> QED
  BY <1>1, <1>2 DEF Promise, FlowTypes, FromParents

(* A frame that a branch may be given it may be given ever after.           *)
LEMMA AvailableGrows ==
  ASSUME FlowTypes, FlowTypes', accepted <= accepted',
         \A p \in Branches : finished[p] \subseteq finished'[p],
         NEW b \in Branches
  PROVE  Flow!Available(b) \subseteq Flow!Available(b)'
<1>1. CASE b = Root
  BY <1>1 DEF FlowTypes, Flow!Available
<1>2. CASE b # Root
  BY <1>2 DEF Flow!Available
<1> QED
  BY <1>1, <1>2

LEMMA PromiseNext == Promise /\ [Flow!Next]_(Flow!vars) => Promise'
<1> SUFFICES ASSUME Promise, [Flow!Next]_(Flow!vars) PROVE Promise'
  OBVIOUS
<1>1. FlowTypes /\ FromParents
  BY DEF Promise
<1>2. CASE Flow!Accept
  <2>1. accepted' = accepted + 1 /\ UNCHANGED <<begun, finished, Working>>
    BY <1>2 DEF Flow!Accept
  <2>2. FlowTypes' /\ accepted <= accepted'
    BY <1>1, <2>1 DEF FlowTypes
  <2>3. \A b \in Branches : Flow!Available(b) \subseteq Flow!Available(b)'
    BY <1>1, <2>1, <2>2, AvailableGrows
  <2> QED
    BY <1>1, <2>1, <2>2, <2>3 DEF Promise, FromParents
<1>3. ASSUME NEW t \in Branches, Flow!Begin(t) PROVE Promise'
  <2>1. PICK f \in Flow!Available(t) : f > begun[t] /\ begun' = [begun EXCEPT ![t] = f]
    BY <1>3 DEF Flow!Begin
  <2>2. Working' = Working \cup {t} /\ UNCHANGED <<accepted, finished>>
    BY <1>3 DEF Flow!Begin
  <2>3. f \in Nat
    BY <1>1 DEF FlowTypes, Flow!Available
  <2>4. FlowTypes'
    BY <1>1, <2>1, <2>2, <2>3 DEF FlowTypes
  <2>5. \A b \in Branches : Flow!Available(b)' = Flow!Available(b)
    BY <2>2 DEF Flow!Available
  <2>6. \A b \in Branches : begun'[b] = IF b = t THEN f ELSE begun[b]
    BY <1>1, <2>1 DEF FlowTypes
  <2> QED
    BY <1>1, <2>1, <2>2, <2>4, <2>5, <2>6 DEF Promise, FromParents
<1>4. ASSUME NEW t \in Branches, Flow!Finish(t) PROVE Promise'
  <2>1. /\ t \in Working /\ Working' = Working \ {t} /\ UNCHANGED <<accepted, begun>>
        /\ finished' = [finished EXCEPT ![t] = @ \cup {begun[t]}]
    BY <1>4 DEF Flow!Finish
  <2>2. \A b \in Branches :
          finished'[b] = IF b = t THEN finished[b] \cup {begun[b]} ELSE finished[b]
    BY <1>1, <2>1 DEF FlowTypes
  <2>3. FlowTypes' /\ accepted <= accepted'
    BY <1>1, <2>1 DEF FlowTypes
  <2>4. \A b \in Branches : Flow!Available(b) \subseteq Flow!Available(b)'
    BY <1>1, <2>2, <2>3, AvailableGrows
  <2>5. begun[t] \in Flow!Available(t)
    BY <1>1, <2>1 DEF FromParents
  <2> QED
    BY <1>1, <2>1, <2>2, <2>3, <2>4, <2>5 DEF Promise, FromParents
<1>5. ASSUME NEW t \in Branches, Flow!Abandon(t) PROVE Promise'
  <2>1. Working' = Working \ {t} /\ UNCHANGED <<accepted, begun, finished>>
    BY <1>5 DEF Flow!Abandon
  <2>2. \A b \in Branches : Flow!Available(b)' = Flow!Available(b)
    BY <2>1 DEF Flow!Available
  <2> QED
    BY <1>1, <2>1, <2>2 DEF Promise, FlowTypes, FromParents
<1>6. CASE UNCHANGED Flow!vars
  <2>1. UNCHANGED <<accepted, begun, finished, Working>>
    BY <1>6 DEF Flow!vars
  <2>2. \A b \in Branches : Flow!Available(b)' = Flow!Available(b)
    BY <2>1 DEF Flow!Available
  <2> QED
    BY <1>1, <2>1, <2>2 DEF Promise, FlowTypes, FromParents
<1> QED
  BY <1>2, <1>3, <1>4, <1>5, <1>6 DEF Flow!Next

(* What a branch finished each branch before it finished too: on_finished   *)
(* and connect_branches feed a branch by one other, and whatever is dropped,*)
(* reset by stop() or lost to an exception, no result is made up.           *)
THEOREM ResultsComeFromParents ==
  Spec => [](/\ finished[Root] \subseteq 1 .. accepted
             /\ \A p \in Branches : \A b \in Children[p] : finished[b] \subseteq finished[p])
<1>1. Flow!Spec => []Promise
  BY PromiseInit, PromiseNext, PTL DEF Flow!Spec
<1>2. Promise => /\ finished[Root] \subseteq 1 .. accepted
                 /\ \A p \in Branches : \A b \in Children[p] : finished[b] \subseteq finished[p]
  <2> SUFFICES ASSUME Promise
               PROVE  /\ finished[Root] \subseteq 1 .. accepted
                      /\ \A p \in Branches : \A b \in Children[p] : finished[b] \subseteq finished[p]
    OBVIOUS
  <2>1. finished[Root] \subseteq Flow!Available(Root)
    BY BranchesAreATree DEF Promise, FromParents
  <2>2. finished[Root] \subseteq 1 .. accepted
    BY <2>1 DEF Flow!Available
  <2>3. ASSUME NEW p \in Branches, NEW b \in Children[p] PROVE finished[b] \subseteq finished[p]
    <3>1. /\ b \in Branches /\ b # Root
          /\ \A q \in Branches : b \in Children[q] => q = p
      BY BranchesAreATree
    <3>2. finished[b] \subseteq UNION {finished[q] : q \in {r \in Branches : b \in Children[r]}}
      BY <3>1 DEF Promise, FromParents, Flow!Available
    <3> QED
      BY <3>1, <3>2
  <2> QED
    BY <2>2, <2>3
<1> QED
  BY PipelineImplementsFrameFlow, <1>1, <1>2, PTL DEF ImplementsFrameFlow

(* A branch hands its results on in the order in which their frames were    *)
(* accepted, each once: also when submitters, stop() and exceptions come    *)
(* between, on_finished never brings an older frame after a newer one.      *)
THEOREM ResultsInOrder ==
  Spec => [][\A b \in Branches : \A f \in finished'[b] \ finished[b] :
               \A g \in finished[b] : g < f]_vars
<1> DEFINE IInv == TypeOK /\ SpawnInv /\ FlowInv
<1> DEFINE Step == \A b \in Branches : \A f \in finished'[b] \ finished[b] :
                     \A g \in finished[b] : g < f
<1>1. Spec => []IInv
  <2>1. TypeOK /\ SpawnInv /\ FlowInv /\ [Next]_vars => FlowInv'
    BY NextFlow DEF FlowStep
  <2> QED
    BY <2>1, FlowInit, SpawnInvariant, PTL DEF Spec
<1>2. IInv /\ [Next]_vars => Step
  <2> SUFFICES ASSUME IInv, [Next]_vars, NEW b \in Branches, NEW f \in finished'[b] \ finished[b],
                      NEW g \in finished[b]
               PROVE  g < f
    OBVIOUS
  <2>1. [Flow!Next]_(Flow!vars)
    BY NextFlow DEF FlowStep
  <2>2. finished' # finished
    OBVIOUS
  <2>3. PICK t \in Branches : Flow!Finish(t)
    BY <2>1, <2>2 DEF Flow!Next, Flow!vars, Flow!Accept, Flow!Begin, Flow!Abandon
  <2>4. t \in Working /\ finished' = [finished EXCEPT ![t] = @ \cup {begun[t]}]
    BY <2>3 DEF Flow!Finish
  <2>5. finished \in [Branches -> SUBSET Frames] /\ begun[b] \in Nat
    BY NumbersOfFrames DEF TypeOK
  <2>6. b = t /\ f = begun[b]
    BY <2>4, <2>5
  <2>7. g <= begun[b] /\ g # f /\ g \in Nat
    BY <2>5, <2>6, NumbersOfFrames DEF FlowInv, AtWork
  <2> QED
    BY <2>5, <2>6, <2>7
<1> HIDE DEF IInv, Step
<1>3. Spec => [][Step]_vars
  BY <1>1, <1>2, PTL DEF Spec
<1> QED
  BY <1>3 DEF Step

----------------------------------------------------------------------------
(* Results.                                                                *)

ResultInv ==
  \A b \in Branches : /\ output[b] \in finished[b] \cup {Null, Absent}
                      /\ posted[b] \in finished[b] \cup {Absent}

LEMMA ResultOnFinished ==
  ASSUME TypeOK, ResultInv, NEW t \in Branches, OnFinished(t) PROVE ResultInv'
<1>1. /\ finished' = [finished EXCEPT ![t] = @ \cup {work[t]}]
      /\ output' = [output EXCEPT ![t] = work[t]]
  BY DEF OnFinished
<1>2. \A b \in Branches : output'[b] \in finished'[b] \cup {Null, Absent}
  BY <1>1 DEF TypeOK, ResultInv
<1>3. posted' = posted \/ (posted' = ResultMap(output', t)
                          /\ \A b \in Branches : posted'[b] # Null)
  BY DEF OnFinished
<1>4. CASE posted' = posted
  BY <1>1, <1>2, <1>4 DEF TypeOK, ResultInv
<1>5. CASE posted' = ResultMap(output', t) /\ \A b \in Branches : posted'[b] # Null
  <2>1. \A b \in Branches : posted'[b] \in {output'[b], Absent}
    <3>1. output' \in [Branches -> Frames \cup {Null, Absent}]
      BY <1>1 DEF TypeOK
    <3> QED
      BY <1>5, <3>1, PolicyIsKnown DEF ResultMap, Nothing
  <2> QED
    BY <1>2, <1>5, <2>1 DEF ResultInv
<1> QED
  BY <1>3, <1>4, <1>5

LEMMA ResultNext == TypeOK /\ ResultInv /\ [Next]_vars => ResultInv'
<1> SUFFICES ASSUME TypeOK, ResultInv, [Next]_vars PROVE ResultInv'
  OBVIOUS
<1> USE DEF slots, history
<1>1. ASSUME NEW b \in Branches, OnFinished(b) PROVE ResultInv'
  BY <1>1, ResultOnFinished
<1>2. ASSUME NEW b \in Branches, HandleExceptions(b) PROVE ResultInv'
  <2>1. UNCHANGED <<posted, finished>> /\ output' = [output EXCEPT ![b] = Null]
    BY <1>2 DEF HandleExceptions
  <2> QED
    BY <2>1 DEF TypeOK, ResultInv
<1>3. CASE SettleBranch
  <2>1. UNCHANGED <<posted, finished>> /\ output' = [output EXCEPT ![dat] = Null]
    BY <1>3 DEF SettleBranch
  <2> QED
    BY <2>1 DEF TypeOK, ResultInv
<1>4. CASE UNCHANGED <<output, posted, finished>>
  BY <1>4 DEF ResultInv
<1>5. CASE UNCHANGED vars
  BY <1>4, <1>5 DEF vars
<1>6. ASSUME NEW s \in Submitters, Submitter(s) PROVE UNCHANGED <<output, posted, finished>>
  BY <1>6 DEF Submitter, Submit, RunRefused, Run, MarkPoolRunning, AddProcessData
<1>7. CASE Stopper
  BY <1>4, <1>7 DEF Stopper, Stop, StopIdleBranch, StopWorker, JoinWorker, ResetWorker,
                    UnmarkWorker, UnsetWorkerStop, StartResetSlots, ResetSlot,
                    JoinDispatcher, MarkPoolStopped
<1>8. CASE Dispatcher
  <2>1. \/ SettleBranch \/ \E b \in Branches : HandleExceptions(b)
        \/ UNCHANGED <<output, posted, finished>>
    BY <1>8 DEF Dispatcher, StartIteration, LeaveLoop, ScanQuietBranch, CountExceptions,
                ClearExceptions, StartDispatch, SkipBranch, ChooseBranch, AssertBranch,
                SpawnWorker, MarkWorkerRunning, PushData, EndIteration
  <2> QED
    BY <1>2, <1>3, <1>4, <2>1
<1>9. ASSUME NEW b \in Branches, Worker(b) PROVE ResultInv'
  <2>1. OnFinished(b) \/ UNCHANGED <<output, posted, finished>>
    BY <1>9 DEF Worker, TakeData, LeaveWorker, Process, LookAtNeedStop, OnFinishedEmpty,
                KeepException
  <2> QED
    BY <1>1, <1>4, <2>1
<1> QED
  BY <1>4, <1>5, <1>6, <1>7, <1>8, <1>9 DEF Next

(* ParallelWait.  Every result is of a frame the root has finished, and an  *)
(* entry of the root is that of its latest one.                             *)
WaitInv ==
  /\ \A b \in Branches : finished[b] \subseteq finished[Root]
  /\ output[Root] \in Frames => \A f \in finished[Root] : f <= output[Root]
  /\ WaitedMapIsWhole

LEMMA WaitUnmoved ==
  ASSUME TypeOK, WaitInv, UNCHANGED <<posted, finished>>, output'[Root] \in {output[Root], Null}
  PROVE  WaitInv'
BY NumbersOfFrames DEF WaitInv, WaitedMapIsWhole, Nothing

LEMMA WaitOnFinished ==
  ASSUME TypeOK, FlowInv, ResultInv, ResultInv', WaitInv, NEW t \in Branches, OnFinished(t)
  PROVE  WaitInv'
<1>1. /\ finished' = [finished EXCEPT ![t] = @ \cup {work[t]}]
      /\ output' = [output EXCEPT ![t] = work[t]]
      /\ work[t] \in Frames /\ t \in Working
  BY DEF OnFinished, TypeOK, Working
<1>2. /\ finished'[t] = finished[t] \cup {work[t]} /\ output'[t] = work[t]
      /\ \A b \in Branches \ {t} : finished'[b] = finished[b] /\ output'[b] = output[b]
  BY <1>1 DEF TypeOK
<1>3. work[t] = begun[t] /\ \A f \in finished[t] : f <= begun[t]
  BY <1>1 DEF FlowInv, AtWork
<1>4. t # Root => work[t] \in finished[Root]
  <2>1. work[t] \in Feed(t)
    BY <1>1, <1>3, NumbersOfFrames DEF FlowInv, InOrder
  <2> QED
    BY <2>1 DEF Feed, WaitInv
<1>5. \A b \in Branches : finished'[b] \subseteq finished'[Root]
  BY <1>2, <1>4, BranchesAreATree DEF WaitInv
<1>6. output'[Root] \in Frames => \A f \in finished'[Root] : f <= output'[Root]
  <2>1. CASE t = Root
    <3>1. work[t] \in Nat
      BY <1>1, NumbersOfFrames
    <3> QED
      BY <2>1, <3>1, <1>2, <1>3
  <2>2. CASE t # Root
    BY <2>2, <1>2, BranchesAreATree DEF WaitInv
  <2> QED
    BY <2>1, <2>2
<1>7. WaitedMapIsWhole'
  <2> SUFFICES ASSUME Policy = "ParallelWait", posted' # posted, posted' # Nothing
               PROVE  \A b \in Branches : posted'[b] \in 1 .. posted'[Root]
                                          /\ posted'[Root] # Absent
    BY DEF WaitInv, WaitedMapIsWhole, Nothing
  <2>1. posted' = ResultMap(output', t) /\ \A b \in Branches : posted'[b] # Null
    BY DEF OnFinished
  <2>2. posted' = output' /\ \A b \in Branches : output'[b] # Absent
    BY <2>1 DEF ResultMap, IsAllReady
  <2>3. \A b \in Branches : output'[b] \in finished'[b]
    BY <2>1, <2>2 DEF ResultInv
  <2>4. \A b \in Branches : output'[b] \in Frames
    BY <1>1, <2>3, <1>2 DEF TypeOK
  <2>5. \A b \in Branches : output'[b] <= output'[Root]
    BY <1>5, <1>6, <2>3, <2>4, BranchesAreATree
  <2> QED
    BY <2>2, <2>4, <2>5, BranchesAreATree, BoundsAreNaturals DEF Frames
<1> QED
  BY <1>5, <1>6, <1>7 DEF WaitInv

LEMMA WaitNext ==
  ASSUME TypeOK, FlowInv, ResultInv, ResultInv', WaitInv, [Next]_vars
  PROVE  WaitInv'
<1> USE DEF slots, history
<1>1. CASE UNCHANGED <<output, posted, finished>>
  BY <1>1, WaitUnmoved
<1>2. ASSUME NEW b \in Branches, HandleExceptions(b) PROVE WaitInv'
  <2>1. UNCHANGED <<posted, finished>> /\ output' = [output EXCEPT ![b] = Null]
    BY <1>2 DEF HandleExceptions
  <2> QED
    BY <2>1, WaitUnmoved, BranchesAreATree DEF TypeOK
<1>3. CASE SettleBranch
  <2>1. UNCHANGED <<posted, finished>> /\ output' = [output EXCEPT ![dat] = Null]
    BY <1>3 DEF SettleBranch
  <2> QED
    BY <2>1, WaitUnmoved, BranchesAreATree DEF TypeOK
<1>4. CASE UNCHANGED vars
  BY <1>1, <1>4 DEF vars
<1>5. ASSUME NEW s \in Submitters, Submitter(s) PROVE UNCHANGED <<output, posted, finished>>
  BY <1>5 DEF Submitter, Submit, RunRefused, Run, MarkPoolRunning, AddProcessData
<1>6. CASE Stopper
  BY <1>1, <1>6 DEF Stopper, Stop, StopIdleBranch, StopWorker, JoinWorker, ResetWorker,
                    UnmarkWorker, UnsetWorkerStop, StartResetSlots, ResetSlot,
                    JoinDispatcher, MarkPoolStopped
<1>7. CASE Dispatcher
  <2>1. \/ SettleBranch \/ \E b \in Branches : HandleExceptions(b)
        \/ UNCHANGED <<output, posted, finished>>
    BY <1>7 DEF Dispatcher, StartIteration, LeaveLoop, ScanQuietBranch, CountExceptions,
                ClearExceptions, StartDispatch, SkipBranch, ChooseBranch, AssertBranch,
                SpawnWorker, MarkWorkerRunning, PushData, EndIteration
  <2> QED
    BY <1>1, <1>2, <1>3, <2>1
<1>8. ASSUME NEW b \in Branches, Worker(b) PROVE WaitInv'
  <2>1. OnFinished(b) \/ UNCHANGED <<output, posted, finished>>
    BY <1>8 DEF Worker, TakeData, LeaveWorker, Process, LookAtNeedStop, OnFinishedEmpty,
                KeepException
  <2> QED
    BY <1>1, WaitOnFinished, <2>1
<1> QED
  BY <1>1, <1>4, <1>5, <1>6, <1>7, <1>8 DEF Next

(* get_output_data and is_all_ready: with ParallelWait the observers get an *)
(* empty map or a whole one, with no result of a later frame than that of   *)
(* the root, on every tree and whatever fails or is stopped.                *)
THEOREM WaitedMapsAreWhole == Spec => []WaitedMapIsWhole
<1>1. Init => ResultInv /\ WaitInv
  <2> SUFFICES ASSUME Init PROVE ResultInv /\ WaitInv
    OBVIOUS
  <2>1. /\ output = [b \in Branches |-> Absent] /\ posted = Nothing
        /\ finished = [b \in Branches |-> {}]
    BY DEF Init, Nothing
  <2> QED
    BY <2>1, BranchesAreATree, NumbersOfFrames
       DEF ResultInv, WaitInv, WaitedMapIsWhole, Nothing
<1>2. TypeOK /\ SpawnInv /\ FlowInv /\ [Next]_vars => FlowInv'
  BY NextFlow DEF FlowStep
<1>3. TypeOK /\ FlowInv /\ ResultInv /\ WaitInv /\ [Next]_vars => ResultInv' /\ WaitInv'
  BY ResultNext, WaitNext
<1>4. WaitInv => WaitedMapIsWhole
  BY DEF WaitInv
<1> QED
  BY <1>1, <1>2, <1>3, <1>4, FlowInit, SpawnInvariant, PTL DEF Spec

----------------------------------------------------------------------------
(* Without stop() and without waiting: a branch has one frame in hand while *)
(* it is Running and none otherwise, so that no exception is ever overtaken *)
(* by a second one and no pointer is moved from before it is used.          *)

Unsettled(b) == status[b] = "Running" \/ (dpc \in {"settle", "count", "clear"} /\ dat = b)
Busy(b) == wpc[b] \in {"process", "done", "notify", "catch"}
HandInv(b) ==
  /\ InHand(b) = IF Unsettled(b) THEN 1 ELSE 0
  /\ \A i \in 1 .. Len(queue[b]) : queue[b][i] # Null
  /\ wpc[b] \in {"process", "done", "notify"} => work[b] # Null

QuietInv ==
  /\ spc = "idle" /\ ~needStop /\ aborted \in {"no", "two dispatchers"}
  /\ dpc \in {"check", "spawn", "mark", "push"} => status[dat] = "Ready" /\ data[dat] # Null
  /\ dpc \in {"count", "clear"} => exceptions[dat] > 0 /\ status[dat] = "Finished"
  /\ dpc = "clear" => dcount = exceptions[dat]

SteadyInv == Steady => QuietInv /\ \A b \in Branches : HandInv(b)

LEMMA SteadyInit == Init => SteadyInv
<1> SUFFICES ASSUME Init PROVE QuietInv /\ \A b \in Branches : HandInv(b)
  BY DEF SteadyInv
<1>1. QuietInv
  BY DEF Init, QuietInv
<1> SUFFICES ASSUME NEW b \in Branches PROVE HandInv(b)
  BY <1>1
<1>2. /\ queue[b] = <<>> /\ exceptions[b] = 0 /\ wpc[b] = "none" /\ status[b] = "Finished"
      /\ dpc = "none"
  BY DEF Init
<1>3. HandInv(b)
  BY <1>2 DEF HandInv, InHand, Unsettled
<1> QED
  BY <1>3

(* A branch whose worker and queue are left alone.                          *)
LEMMA HandUnmoved ==
  ASSUME NEW b \in Branches, HandInv(b), Unsettled(b)' <=> Unsettled(b),
         queue'[b] = queue[b], exceptions'[b] = exceptions[b], work'[b] = work[b],
         wpc'[b] = wpc[b] \/ (wpc[b] \in {"none", "idle", "exited"} /\ wpc'[b] \in {"none", "idle", "exited"})
  PROVE  HandInv(b)'
  BY DEF HandInv, InHand

LEMMA SteadySubmitter ==
  ASSUME TypeOK, Steady, SteadyInv, NEW s \in Submitters, Submitter(s)
  PROVE  QuietInv' /\ \A b \in Branches : HandInv(b)'
<1> USE DEF slots, pool, disp, workers, stopper, history
<1>1. QuietInv /\ \A b \in Branches : HandInv(b)
  BY DEF SteadyInv
<1>2. CASE Submit(s) \/ RunRefused(s) \/ MarkPoolRunning(s)
  <2>1. UNCHANGED <<slots, disp, workers, spc, needStop, aborted>>
    BY <1>2 DEF Submit, RunRefused, MarkPoolRunning
  <2>2. \A b \in Branches : HandInv(b)'
    BY <1>1, <2>1 DEF HandInv, InHand, Unsettled
  <2> QED
    BY <1>1, <2>1, <2>2 DEF QuietInv
<1>3. CASE Run(s)
  <2>1. /\ UNCHANGED <<slots, dat, dcount, workers, spc>>
        /\ dpc' = dpc \/ (dpc = "none" /\ dpc' = "loop")
        /\ aborted' \in {aborted, "two dispatchers"} /\ ~needStop'
    BY <1>3 DEF Run, Abort
  <2>2. \A b \in Branches : HandInv(b)'
    BY <1>1, <2>1 DEF HandInv, InHand, Unsettled
  <2> QED
    BY <1>1, <2>1, <2>2 DEF QuietInv
<1>4. CASE AddProcessData(s)
  <2>1. /\ UNCHANGED <<disp, workers, spc, needStop, aborted>>
        /\ dpc \in {"none", "loop", "exited"}
        /\ \A b \in Branches : status'[b] = "Running" <=> status[b] = "Running"
    BY <1>4 DEF TypeOK, AddProcessData, GuardFree
  <2>2. \A b \in Branches : HandInv(b)'
    BY <1>1, <2>1 DEF HandInv, InHand, Unsettled
  <2> QED
    BY <1>1, <2>1, <2>2 DEF QuietInv
<1> QED
  BY <1>2, <1>3, <1>4 DEF Submitter

LEMMA SteadyDispatcher ==
  ASSUME TypeOK, Steady, SteadyInv, Dispatcher
  PROVE  QuietInv' /\ \A b \in Branches : HandInv(b)'
<1> USE DEF slots, pool, disp, workers, stopper
<1>1. QuietInv /\ dat \in Branches
  <2>1. dat \in Branches
    BY DEF TypeOK
  <2> QED
    BY <2>1 DEF SteadyInv
<1>2. \A b \in Branches : HandInv(b) /\ Len(queue[b]) \in Nat /\ exceptions[b] \in Nat
  <2>1. \A b \in Branches : HandInv(b)
    BY DEF SteadyInv
  <2>2. \A b \in Branches : Len(queue[b]) \in Nat /\ exceptions[b] \in Nat
    BY DEF TypeOK
  <2> QED
    BY <2>1, <2>2
<1>3. CASE \/ StartIteration \/ LeaveLoop \/ StartDispatch \/ EndIteration
           \/ \E b \in Branches : ScanQuietBranch(b) \/ SkipBranch(b)
  <2>1. /\ UNCHANGED <<slots, workers, spc, needStop, aborted>>
        /\ dpc \in {"loop", "scan", "dispatch"}
        /\ dpc' \in {"loop", "scan", "dispatch", "exited"}
    BY <1>3 DEF StartIteration, LeaveLoop, StartDispatch, EndIteration, ScanQuietBranch,
                SkipBranch
  <2>2. \A b \in Branches : HandInv(b)'
    BY <1>2, <2>1, HandUnmoved DEF Unsettled
  <2> QED
    BY <1>1, <2>1, <2>2 DEF QuietInv
<1>4. ASSUME NEW c \in Branches, ChooseBranch(c) PROVE QuietInv' /\ \A b \in Branches : HandInv(b)'
  <2>1. /\ UNCHANGED <<slots, workers, spc, needStop, aborted>>
        /\ dpc = "dispatch" /\ dpc' = "check" /\ dat' = c
        /\ status[c] = "Ready" /\ data[c] # Null
    BY <1>4 DEF ChooseBranch, IsReady
  <2>2. \A b \in Branches : HandInv(b)'
    BY <1>2, <2>1, HandUnmoved DEF Unsettled
  <2> QED
    BY <1>1, <2>1, <2>2 DEF QuietInv
<1>5. ASSUME NEW c \in Branches, HandleExceptions(c) PROVE QuietInv' /\ \A b \in Branches : HandInv(b)'
  <2>1. /\ UNCHANGED <<workers, spc, needStop, aborted>>
        /\ dpc = "scan" /\ dpc' = "count" /\ dat' = c
        /\ exceptions[c] > 0
        /\ status' = [status EXCEPT ![c] = "Finished"]
    BY <1>5 DEF HandleExceptions
  <2>2. status'[c] = "Finished" /\ \A b \in Branches \ {c} : status'[b] = status[b]
    BY <2>1 DEF TypeOK
  <2>3. Unsettled(c)
    BY <1>2, <2>1 DEF HandInv, InHand
  <2>4. \A b \in Branches : Unsettled(b)' <=> Unsettled(b)
    BY <2>1, <2>2, <2>3 DEF Unsettled
  <2>5. \A b \in Branches : HandInv(b)'
    BY <1>2, <2>1, <2>4, HandUnmoved
  <2> QED
    BY <1>1, <2>1, <2>2, <2>5 DEF QuietInv
<1>6. CASE CountExceptions
  <2>1. /\ UNCHANGED <<slots, workers, spc, needStop, aborted, dat>>
        /\ dpc = "count" /\ dpc' = "clear" /\ dcount' = exceptions[dat]
    BY <1>6 DEF CountExceptions
  <2>2. \A b \in Branches : HandInv(b)'
    BY <1>2, <2>1, HandUnmoved DEF Unsettled
  <2> QED
    BY <1>1, <2>1, <2>2 DEF QuietInv
<1>7. CASE ClearExceptions
  <2>1. /\ exceptions' = [exceptions EXCEPT ![dat] = 0]
        /\ dpc = "clear" /\ dpc' = "scan"
        /\ UNCHANGED <<slots, running, stopping, queue, wpc, work, spc, needStop, aborted>>
    <3>1. dpc = "clear" /\ exceptions[dat] \in Nat
      BY <1>1, <1>2, <1>7 DEF ClearExceptions
    <3>2. exceptions[dat] <= dcount /\ ~(exceptions[dat] > dcount)
      <4>1. dcount = exceptions[dat]
        BY <1>1, <3>1 DEF QuietInv
      <4> QED
        BY <3>1, <4>1
    <3> QED
      BY <1>7, <3>1, <3>2 DEF ClearExceptions
  <2> SUFFICES ASSUME NEW b \in Branches PROVE HandInv(b)'
    BY <1>1, <2>1 DEF QuietInv
  <2>2. CASE b # dat
    BY <1>2, <2>1, <2>2, HandUnmoved DEF TypeOK, Unsettled
  <2>3. CASE b = dat
    <3>1. exceptions[b] > 0 /\ status[b] = "Finished" /\ exceptions'[b] = 0
      BY <1>1, <2>1, <2>3 DEF TypeOK, QuietInv
    <3>2. Len(queue[b]) = 0 /\ ~Busy(b)
      BY <1>2, <3>1 DEF HandInv, InHand, Busy
    <3> QED
      BY <1>2, <2>1, <3>1, <3>2 DEF HandInv, InHand, Unsettled, Busy
  <2> QED
    BY <2>2, <2>3
<1>8. CASE AssertBranch \/ MarkWorkerRunning
  <2>1. /\ UNCHANGED <<slots, queue, exceptions, wpc, work, spc, needStop, aborted, dat>>
        /\ dpc \in {"check", "mark"} /\ dpc' \in {"push", "spawn"}
    BY <1>1, <1>8 DEF AssertBranch, MarkWorkerRunning, QuietInv
  <2>2. \A b \in Branches : HandInv(b)'
    BY <1>2, <2>1, HandUnmoved DEF Unsettled
  <2> QED
    BY <1>1, <2>1, <2>2 DEF QuietInv
<1>9. CASE SpawnWorker
  <2>1. /\ UNCHANGED <<slots, queue, exceptions, work, spc, needStop, aborted, dat>>
        /\ dpc = "spawn" /\ dpc' = "mark"
        /\ wpc'[dat] = "idle" /\ \A b \in Branches \ {dat} : wpc'[b] = wpc[b]
    BY <1>1, <1>9 DEF TypeOK, SpawnWorker
  <2>2. status[dat] = "Ready"
    BY <1>1, <2>1 DEF QuietInv
  <2>3. ~Busy(dat)
    BY <1>1, <1>2, <2>1, <2>2 DEF HandInv, InHand, Unsettled, Busy
  <2>4. \A b \in Branches : HandInv(b)'
    BY <1>2, <2>1, <2>3 DEF HandInv, InHand, Unsettled, Busy
  <2> QED
    BY <1>1, <2>1, <2>4 DEF QuietInv
<1>10. CASE PushData
  <2>1. /\ UNCHANGED <<status, exceptions, wpc, work, spc, needStop, aborted, dat>>
        /\ dpc = "push" /\ dpc' = "settle"
        /\ queue'[dat] = Append(queue[dat], data[dat])
        /\ \A b \in Branches \ {dat} : queue'[b] = queue[b]
    BY <1>1, <1>10 DEF TypeOK, PushData
  <2>2. status[dat] = "Ready" /\ data[dat] # Null
    BY <1>1, <2>1 DEF QuietInv
  <2> SUFFICES ASSUME NEW b \in Branches PROVE HandInv(b)'
    BY <1>1, <2>1 DEF QuietInv
  <2>3. CASE b # dat
    BY <1>2, <2>1, <2>3, HandUnmoved DEF Unsettled
  <2>4. CASE b = dat
    <3>1. Len(queue[b]) = 0 /\ exceptions[b] = 0 /\ ~Busy(b)
      BY <1>2, <2>1, <2>2, <2>4, SMTT(30) DEF HandInv, InHand, Unsettled, Busy
    <3>2. queue[b] \in Seq(Frames \cup {Null}) /\ data[b] \in Frames \cup {Null}
      BY DEF TypeOK
    <3>3. Len(queue'[b]) = 1 /\ queue'[b][1] = data[b]
      <4>1. queue[b] = <<>>
        BY <3>1, <3>2
      <4>2. queue'[b] = Append(<<>>, data[b])
        BY <2>1, <2>4, <4>1
      <4>3. Append(<<>>, data[b]) = <<data[b]>>
        BY <3>2
      <4> QED
        BY <4>2, <4>3
    <3> QED
      BY <2>1, <2>2, <2>4, <3>1, <3>3 DEF HandInv, InHand, Unsettled, Busy
  <2> QED
    BY <2>3, <2>4
<1>11. CASE SettleBranch
  <2>1. /\ UNCHANGED <<workers, spc, needStop, aborted>>
        /\ dpc = "settle" /\ dpc' = "dispatch"
        /\ status'[dat] = "Running" /\ \A b \in Branches \ {dat} : status'[b] = status[b]
    BY <1>1, <1>11 DEF TypeOK, SettleBranch
  <2>2. \A b \in Branches : Unsettled(b)' <=> Unsettled(b)
    BY <2>1 DEF Unsettled
  <2>3. \A b \in Branches : HandInv(b)'
    BY <1>2, <2>1, <2>2, HandUnmoved
  <2> QED
    BY <1>1, <2>1, <2>3 DEF QuietInv
<1> QED
  BY <1>3, <1>4, <1>5, <1>6, <1>7, <1>8, <1>9, <1>10, <1>11 DEF Dispatcher

LEMMA SteadyWorker ==
  ASSUME TypeOK, Steady, SteadyInv, NEW t \in Branches, Worker(t)
  PROVE  QuietInv' /\ \A b \in Branches : HandInv(b)'
<1> USE DEF slots, pool, disp, workers, stopper
<1>1. QuietInv /\ \A b \in Branches : HandInv(b)
  BY DEF SteadyInv
<1>2. \A b \in Branches : Len(queue[b]) \in Nat /\ exceptions[b] \in Nat
  BY DEF TypeOK
<1>3. wpc[t] \in {"process", "done", "notify"} => work[t] # Null
  BY <1>1 DEF HandInv
<1>4. CASE OnFinished(t)
  <2>1. /\ UNCHANGED <<queue, exceptions, disp, spc, needStop, aborted>>
        /\ wpc[t] = "notify" /\ dpc \in {"none", "loop", "exited"} /\ work[t] # Null
        /\ status'[t] = "Finished"
        /\ \A b \in Branches \ {t} : wpc'[b] = wpc[b] /\ work'[b] = work[b]
    BY <1>4 DEF TypeOK, OnFinished, GuardFree
  <2>2. \A b \in Branches \ {t} : status'[b] = "Running" <=> status[b] = "Running"
    BY <1>4 DEF OnFinished, Fed
  <2>3. wpc'[t] = "idle"
    <3>1. output' = [output EXCEPT ![t] = work[t]]
      BY <1>4 DEF OnFinished
    <3>2. \A x \in Branches : ResultMap(output', t)[x] # Null
      BY <2>1, <3>1, PolicyIsKnown, NumbersOfFrames DEF TypeOK, ResultMap, Nothing, Steady
    <3> QED
      BY <1>4, <3>2 DEF TypeOK, OnFinished
  <2> SUFFICES ASSUME NEW b \in Branches PROVE HandInv(b)'
    BY <1>1, <2>1 DEF QuietInv
  <2>4. CASE b # t
    BY <1>1, <2>1, <2>2, <2>4, HandUnmoved DEF Unsettled
  <2>5. CASE b = t
    <3>1. Len(queue[b]) = 0 /\ exceptions[b] = 0
      BY <1>1, <1>2, <2>1, <2>5 DEF HandInv, InHand
    <3> QED
      BY <1>1, <2>1, <2>3, <2>5, <3>1 DEF HandInv, InHand, Unsettled
  <2> QED
    BY <2>4, <2>5
<1>5. CASE TakeData(t)
  <2>1. /\ UNCHANGED <<status, exceptions, disp, spc, needStop, aborted>>
        /\ QuietInv'
        /\ queue[t] \in Seq(Frames \cup {Null}) /\ queue[t] # <<>>
        /\ wpc[t] = "idle" /\ wpc'[t] = "process"
        /\ queue'[t] = Tail(queue[t]) /\ work'[t] = Head(queue[t])
        /\ \A b \in Branches \ {t} :
             wpc'[b] = wpc[b] /\ work'[b] = work[b] /\ queue'[b] = queue[b]
    BY <1>1, <1>5 DEF TypeOK, TakeData, QuietInv
  <2> SUFFICES ASSUME NEW b \in Branches PROVE HandInv(b)'
    BY <2>1
  <2>2. CASE b # t
    BY <1>1, <2>1, <2>2, HandUnmoved DEF Unsettled
  <2>3. CASE b = t
    <3>1. /\ Len(queue'[b]) = Len(queue[b]) - 1 /\ work'[b] = queue[b][1]
          /\ \A i \in 1 .. Len(queue[b]) - 1 : queue'[b][i] = queue[b][i + 1]
          /\ Len(queue[b]) >= 1
      <4>1. /\ queue[b] \in Seq(Frames \cup {Null}) /\ queue[b] # <<>>
            /\ queue'[b] = Tail(queue[b]) /\ work'[b] = Head(queue[b])
        BY <2>1, <2>3
      <4> QED
        BY <4>1
    <3>2. \A i \in 1 .. Len(queue[b]) : queue[b][i] # Null
      BY <1>1 DEF HandInv
    <3>3. work'[b] # Null /\ \A i \in 1 .. Len(queue'[b]) : queue'[b][i] # Null
      BY <1>2, <3>1, <3>2, SMTT(30)
    <3> QED
      BY <1>1, <1>2, <2>1, <2>3, <3>1, <3>3, SMTT(30) DEF HandInv, InHand, Unsettled
  <2> QED
    BY <2>2, <2>3
<1>6. CASE Process(t) \/ LookAtNeedStop(t) \/ LeaveWorker(t)
  <2>1. /\ UNCHANGED <<slots, queue, exceptions, disp, spc, needStop, aborted>>
        /\ \A b \in Branches \ {t} : wpc'[b] = wpc[b] /\ work'[b] = work[b]
        /\ \/ /\ wpc[t] \in {"process", "done"}
              /\ \/ wpc'[t] \in {"done", "notify"} /\ work'[t] = work[t]
                 \/ wpc'[t] = "catch"
           \/ wpc[t] = "idle" /\ wpc'[t] = "exited" /\ work'[t] = work[t]
    BY <1>1, <1>3, <1>6, ZenonT(60) DEF TypeOK, Process, LookAtNeedStop, LeaveWorker, QuietInv
  <2>2. QuietInv'
    BY <1>1, <2>1 DEF QuietInv
  <2> SUFFICES ASSUME NEW b \in Branches PROVE HandInv(b)'
    BY <2>2
  <2>3. CASE b # t
    BY <1>1, <2>1, <2>3, HandUnmoved DEF Unsettled
  <2>4. CASE b = t
    <3>1. InHand(b)' = InHand(b)
      BY <2>1, <2>4 DEF InHand
    <3>2. wpc'[b] \in {"process", "done", "notify"} => work'[b] # Null
      BY <1>3, <2>1, <2>4
    <3> QED
      BY <1>1, <2>1, <3>1, <3>2 DEF HandInv, Unsettled
  <2> QED
    BY <2>3, <2>4
<1>7. CASE KeepException(t)
  <2>1. /\ UNCHANGED <<slots, queue, disp, spc, needStop, aborted>>
        /\ \A b \in Branches \ {t} : /\ wpc'[b] = wpc[b] /\ work'[b] = work[b]
                                     /\ exceptions'[b] = exceptions[b]
        /\ wpc[t] = "catch" /\ wpc'[t] = "idle" /\ exceptions'[t] = exceptions[t] + 1
    BY <1>7 DEF TypeOK, KeepException
  <2>2. \A b \in Branches : HandInv(b)'
    <3> SUFFICES ASSUME NEW b \in Branches PROVE HandInv(b)'
      OBVIOUS
    <3>1. CASE b # t
      BY <1>1, <2>1, <3>1, HandUnmoved DEF Unsettled
    <3>2. CASE b = t
      <4>1. InHand(b)' = InHand(b)
        BY <1>2, <2>1, <3>2, SMTT(30) DEF InHand
      <4> QED
        BY <1>1, <2>1, <3>2, <4>1 DEF HandInv, Unsettled
    <3> QED
      BY <3>1, <3>2
  <2>3. QuietInv'
    <3>1. exceptions[t] = 0
      BY <1>1, <1>2, <2>1 DEF HandInv, InHand
    <3>2. dpc \in {"count", "clear"} => dat # t
      <4>1. dpc \in {"count", "clear"} => exceptions[dat] > 0
        BY <1>1 DEF QuietInv
      <4> QED
        BY <3>1, <4>1
    <3>3. dpc \in {"count", "clear"} => exceptions'[dat] = exceptions[dat]
      BY <2>1, <3>2 DEF TypeOK
    <3> QED
      BY <1>1, <2>1, <3>3 DEF QuietInv
  <2> QED
    BY <2>2, <2>3
<1> QED
  BY <1>3, <1>4, <1>5, <1>6, <1>7 DEF Worker, OnFinishedEmpty

LEMMA SteadyNext == TypeOK /\ SteadyInv /\ [Next]_vars => SteadyInv'
<1> SUFFICES ASSUME TypeOK, SteadyInv, [Next]_vars, Steady
             PROVE  QuietInv' /\ \A b \in Branches : HandInv(b)'
  BY DEF SteadyInv, Steady
<1>1. CASE UNCHANGED vars
  BY <1>1 DEF SteadyInv, QuietInv, HandInv, InHand, Unsettled, vars, slots, pool, disp,
              workers, stopper
<1>2. CASE Stopper
  <2>1. spc = "idle"
    BY DEF SteadyInv, QuietInv
  <2>2. stops \in 0 .. 0 /\ MaxStops = 0
    BY DEF TypeOK, Steady
  <2>3. ~(stops < MaxStops)
    BY <2>2
  <2> QED
    BY <1>2, <2>1, <2>3 DEF Stopper, Stop, StopIdleBranch, StopWorker, JoinWorker, ResetWorker,
                      UnmarkWorker, UnsetWorkerStop, StartResetSlots, ResetSlot,
                      JoinDispatcher, MarkPoolStopped
<1> QED
  BY <1>1, <1>2, SteadySubmitter, SteadyDispatcher, SteadyWorker DEF Next

LEMMA SteadyInvariant == Spec => []SteadyInv
  BY TypeCorrect, SteadyInit, SteadyNext, PTL DEF Spec

(* A branch that is Running has exactly one frame in hand and any other none*)
(* whatever the callers do and whichever nodes throw: thread_pool_iteration *)
(* neither queues a second frame nor loses track of the first.              *)
THEOREM OneFrameInFlight == Spec => []SingleFlight
<1>1. SteadyInv => SingleFlight
  BY DEF SteadyInv, HandInv, Unsettled, SingleFlight
<1> QED
  BY SteadyInvariant, <1>1, PTL

(* The assertion of thread_pool_iteration holds, reset_exceptions never     *)
(* meets an exception it has not counted, no node is given an empty pointer.*)
THEOREM RunsWithoutAbort == Spec => []NeverAborts
<1>1. SteadyInv => NeverAborts
  BY DEF SteadyInv, QuietInv, NeverAborts
<1> QED
  BY SteadyInvariant, <1>1, PTL

----------------------------------------------------------------------------
(* Threads that serve a branch, as long as nobody stops the pool.           *)

ServedInv ==
  MaxStops = 0 =>
    /\ spc = "idle" /\ ~needStop /\ dpc # "exited"
    /\ \A b \in Branches :
         /\ ~stopping[b] /\ wpc[b] # "exited"
         /\ queue[b] # <<>> \/ status[b] = "Running" => running[b]
         /\ running[b] \/ (dpc = "mark" /\ dat = b) => wpc[b] # "none"
         /\ dpc = "none" => ~running[b]
    /\ dpc \in {"push", "settle"} => running[dat]

LEMMA ServedInit == Init => ServedInv
  BY DEF Init, ServedInv

LEMMA ServedSubmitter ==
  ASSUME TypeOK, ServedInv, NEW s \in Submitters, Submitter(s) PROVE ServedInv'
<1> SUFFICES ASSUME MaxStops = 0 PROVE ServedInv'
  BY DEF ServedInv
<1>1. /\ UNCHANGED <<workers, stopper, dat>>
      /\ needStop' \in {needStop, FALSE}
      /\ dpc' = dpc \/ dpc' = "loop"
      /\ \A b \in Branches : status'[b] = status[b] \/ status'[b] = "Ready"
  <2> USE DEF slots, pool, disp, TypeOK
  <2>1. CASE Submit(s) \/ RunRefused(s) \/ Run(s) \/ MarkPoolRunning(s)
    BY <2>1 DEF Submit, RunRefused, Run, MarkPoolRunning
  <2>2. CASE AddProcessData(s)
    BY <2>2 DEF AddProcessData
  <2> QED
    BY <2>1, <2>2 DEF Submitter
<1>2. ~needStop
  BY DEF ServedInv
<1>3. ~needStop'
  BY <1>1, <1>2
<1> QED
  BY <1>1, <1>3 DEF ServedInv, workers, stopper

LEMMA ServedDispatcher ==
  ASSUME TypeOK, ServedInv, Dispatcher PROVE ServedInv'
<1> SUFFICES ASSUME MaxStops = 0 PROVE ServedInv'
  BY DEF ServedInv
<1> USE DEF slots, pool, disp, workers, stopper
<1>0. /\ dat \in Branches /\ status \in [Branches -> Statuses] /\ running \in [Branches -> BOOLEAN]
      /\ wpc \in [Branches -> WorkerPoints] /\ queue \in [Branches -> Seq(Frames \cup {Null})]
  BY DEF TypeOK
<1>1. ASSUME UNCHANGED <<status, queue, running, stopping, wpc, spc, needStop>>,
             dpc # "none", dpc' \notin {"none", "exited", "mark", "settle"},
             dpc' = "push" => running[dat] /\ dat' = dat
      PROVE  ServedInv'
  BY <1>1 DEF ServedInv
<1>2. CASE \/ StartIteration \/ StartDispatch \/ EndIteration \/ CountExceptions
           \/ ClearExceptions \/ AssertBranch
           \/ \E b \in Branches : ScanQuietBranch(b) \/ SkipBranch(b) \/ ChooseBranch(b)
  BY <1>1, <1>2 DEF StartIteration, StartDispatch, EndIteration, CountExceptions, ClearExceptions,
                    AssertBranch, ScanQuietBranch, SkipBranch, ChooseBranch
<1>3. CASE LeaveLoop
  BY <1>3 DEF LeaveLoop, ServedInv
<1>4. ASSUME NEW b \in Branches, HandleExceptions(b) PROVE ServedInv'
  <2>1. /\ UNCHANGED <<queue, running, stopping, wpc, spc, needStop>>
        /\ dpc' = "count" /\ status' = [status EXCEPT ![b] = "Finished"]
    BY <1>4 DEF HandleExceptions
  <2>2. \A x \in Branches : status'[x] = "Running" => status[x] = "Running"
    BY <1>0, <2>1
  <2> QED
    BY <1>4, <2>1, <2>2 DEF ServedInv, HandleExceptions
<1>5. CASE SpawnWorker
  <2>1. /\ UNCHANGED <<status, queue, running, stopping, spc, needStop, dat>>
        /\ dpc' = "mark" /\ wpc' = [wpc EXCEPT ![dat] = "idle"]
    BY <1>5 DEF SpawnWorker
  <2>2. \A x \in Branches : wpc'[x] = IF x = dat THEN "idle" ELSE wpc[x]
    BY <1>0, <2>1
  <2>3. dpc = "spawn"
    BY <1>5 DEF SpawnWorker
  <2> QED
    BY <2>1, <2>2, <2>3 DEF ServedInv
<1>6. CASE MarkWorkerRunning
  <2>1. /\ UNCHANGED <<status, queue, stopping, wpc, spc, needStop, dat>>
        /\ dpc = "mark" /\ dpc' = "push" /\ running' = [running EXCEPT ![dat] = TRUE]
    BY <1>6 DEF MarkWorkerRunning
  <2>2. \A x \in Branches : running'[x] = IF x = dat THEN TRUE ELSE running[x]
    BY <1>0, <2>1
  <2> QED
    BY <1>0, <2>1, <2>2 DEF ServedInv
<1>7. CASE PushData
  <2>1. /\ UNCHANGED <<status, running, stopping, wpc, spc, needStop, dat>>
        /\ dpc = "push" /\ dpc' = "settle" /\ queue' = [queue EXCEPT ![dat] = Append(@, data[dat])]
    BY <1>7 DEF PushData
  <2>2. \A x \in Branches : x # dat => queue'[x] = queue[x]
    BY <1>0, <2>1
  <2> QED
    BY <1>0, <2>1, <2>2 DEF ServedInv
<1>8. CASE SettleBranch
  <2>1. /\ UNCHANGED <<queue, running, stopping, wpc, spc, needStop>>
        /\ dpc = "settle" /\ dpc' = "dispatch" /\ status' = [status EXCEPT ![dat] = "Running"]
    BY <1>8 DEF SettleBranch
  <2>2. \A x \in Branches : x # dat => status'[x] = status[x]
    BY <1>0, <2>1
  <2> QED
    BY <1>0, <2>1, <2>2 DEF ServedInv
<1> QED
  BY <1>2, <1>3, <1>4, <1>5, <1>6, <1>7, <1>8 DEF Dispatcher

LEMMA ServedWorker ==
  ASSUME TypeOK, ServedInv, NEW t \in Branches, Worker(t) PROVE ServedInv'
<1> SUFFICES ASSUME MaxStops = 0 PROVE ServedInv'
  BY DEF ServedInv
<1> USE DEF slots, pool, disp, workers, stopper
<1>0. /\ status \in [Branches -> Statuses] /\ wpc \in [Branches -> WorkerPoints]
      /\ queue \in [Branches -> Seq(Frames \cup {Null})]
  BY DEF TypeOK
<1>1. ~stopping[t]
  BY DEF ServedInv
<1>2. /\ UNCHANGED <<running, stopping, spc, needStop, dpc, dat>>
      /\ wpc'[t] \notin {"none", "exited"} /\ \A x \in Branches : x # t => wpc'[x] = wpc[x]
  BY <1>0, <1>1 DEF Worker, TakeData, LeaveWorker, Process, LookAtNeedStop, OnFinishedEmpty,
                    OnFinished, KeepException
<1>3. \A x \in Branches : queue'[x] # <<>> => queue[x] # <<>>
  <2>1. CASE TakeData(t)
    BY <1>0, <2>1 DEF TakeData
  <2>2. CASE ~TakeData(t)
    BY <2>2 DEF Worker, LeaveWorker, Process, LookAtNeedStop, OnFinishedEmpty, OnFinished,
                KeepException
  <2> QED
    BY <2>1, <2>2
<1>4. \A x \in Branches : status'[x] = "Running" => status[x] = "Running"
  <2>1. CASE OnFinished(t)
    BY <1>0, <2>1 DEF OnFinished
  <2>2. CASE OnFinishedEmpty(t)
    BY <1>0, <2>2 DEF OnFinishedEmpty
  <2>3. CASE ~OnFinished(t) /\ ~OnFinishedEmpty(t)
    BY <2>3 DEF Worker, TakeData, LeaveWorker, Process, LookAtNeedStop, KeepException
  <2> QED
    BY <2>1, <2>2, <2>3
<1> QED
  BY <1>2, <1>3, <1>4 DEF ServedInv

LEMMA ServedStopper ==
  ASSUME TypeOK, ServedInv, Stopper, MaxStops = 0 PROVE FALSE
<1>1. spc = "idle" /\ stops \in 0 .. 0
  BY DEF ServedInv, TypeOK
<1> QED
  BY <1>1 DEF Stopper, Stop, JoinWorker, ResetWorker, UnmarkWorker, UnsetWorkerStop, StartResetSlots,
              JoinDispatcher, MarkPoolStopped, StopIdleBranch, StopWorker, ResetSlot

LEMMA ServedNext == TypeOK /\ ServedInv /\ [Next]_vars => ServedInv'
<1> SUFFICES ASSUME TypeOK, ServedInv, [Next]_vars PROVE ServedInv'
  OBVIOUS
<1>1. CASE UNCHANGED vars
  BY <1>1 DEF ServedInv, vars, slots, pool, disp, workers, stopper
<1>2. CASE Stopper
  BY <1>2, ServedStopper DEF ServedInv
<1> QED
  BY <1>1, <1>2, ServedSubmitter, ServedDispatcher, ServedWorker DEF Next

(* thread_pool_iteration and run_worker: without stop() and waiting, a      *)
(* branch whose status is Running is in good hands: its thread processes    *)
(* the frame or can take it from the queue, or the dispatcher is there to   *)
(* handle its exception.  What BranchesFreeUp says beyond that is that the  *)
(* threads are scheduled.                                                   *)
THEOREM RunningBranchIsServed ==
  Spec => [](Steady =>
    \A b \in Branches : status[b] = "Running" =>
      \/ wpc[b] \in {"process", "done", "notify", "catch"}
      \/ wpc[b] = "idle" /\ ~stopping[b] /\ queue[b] # <<>>
      \/ exceptions[b] > 0 /\ dpc \notin {"none", "exited"})
<1> DEFINE Served ==
      Steady =>
        \A b \in Branches : status[b] = "Running" =>
          \/ wpc[b] \in {"process", "done", "notify", "catch"}
          \/ wpc[b] = "idle" /\ ~stopping[b] /\ queue[b] # <<>>
          \/ exceptions[b] > 0 /\ dpc \notin {"none", "exited"}
<1>1. TypeOK /\ SteadyInv /\ ServedInv => Served
  <2> SUFFICES ASSUME TypeOK, SteadyInv, ServedInv, Steady, NEW b \in Branches,
                      status[b] = "Running", ~Busy(b), ~(exceptions[b] > 0)
               PROVE  wpc[b] = "idle" /\ ~stopping[b] /\ queue[b] # <<>>
    <3>1. ASSUME ServedInv, Steady, NEW x \in Branches, status[x] = "Running"
          PROVE  dpc \notin {"none", "exited"}
      <4>1. dpc # "exited" /\ running[x] /\ (dpc = "none" => ~running[x])
        BY <3>1 DEF ServedInv, Steady
      <4> QED
        BY <4>1
    <3> QED
      BY <3>1 DEF Busy
  <2>1. exceptions[b] = 0 /\ queue[b] \in Seq(Frames \cup {Null}) /\ wpc[b] \in WorkerPoints
    BY DEF TypeOK
  <2>2. InHand(b) = 1
    BY DEF SteadyInv, HandInv, Unsettled
  <2>3. queue[b] # <<>>
    <3>1. Len(queue[b]) + exceptions[b] + 0 = 1
      BY <2>2 DEF InHand, Busy
    <3>2. Len(queue[b]) \in Nat
      BY <2>1
    <3>3. Len(queue[b]) = 1
      BY <2>1, <3>1, <3>2
    <3>4. Len(<<>>) = 0
      OBVIOUS
    <3>5. ASSUME queue[b] = <<>> PROVE FALSE
      <4>1. Len(queue[b]) = 0
        BY <3>4, <3>5
      <4> QED
        BY <3>3, <4>1, SMTT(30)
    <3> QED
      BY <3>5
  <2>4. ~stopping[b] /\ wpc[b] \notin {"none", "exited"}
    BY DEF ServedInv, Steady
  <2> QED
    BY <2>1, <2>3, <2>4 DEF WorkerPoints, Busy
<1>2. Spec => []ServedInv
  BY TypeCorrect, ServedInit, ServedNext, PTL DEF Spec
<1> HIDE DEF Served
<1>3. Spec => []Served
  BY TypeCorrect, SteadyInvariant, <1>1, <1>2, PTL
<1> QED
  BY <1>3 DEF Served

----------------------------------------------------------------------------
(* With stop().  A frame in hand that no status shows was pushed or left    *)
(* behind when ResetSlot came between, so there is at most one for each     *)
(* reset of the slot.  An empty pointer in hand is counted twice: when it   *)
(* is refused, on_finished has already declared the branch Finished.        *)

NullsIn(q) == Cardinality({i \in 1 .. Len(q) : q[i] = Null})

(* Empty pointers in hand.                                                  *)
Voids(b) ==
  NullsIn(queue[b])
    + (IF wpc[b] \in {"process", "done", "notify"} /\ work[b] = Null THEN 1 ELSE 0)

Pushing == dpc \in {"check", "spawn", "mark", "push"}
Doubt(b) == IF Pushing /\ dat = b /\ data[b] = Null THEN 1 ELSE 0
Claim(b) == IF Unsettled(b) THEN 1 ELSE 0
Resets(b) ==
  IF spc \in {"idle", "pool"} \/ (spc = "slots" /\ b \notin sleft) THEN stops ELSE stops - 1
Account(b) == InHand(b) + Voids(b) + Doubt(b) <= Resets(b) + Claim(b)

StrandInv ==
  /\ spc # "idle" => stops >= 1
  /\ Pushing => status[dat] # "Running"
  /\ dpc \in {"count", "clear"} => exceptions[dat] >= 1 \/ InHand(dat) = 0
  /\ \A b \in Branches : Account(b)

LEMMA NullsAreFew ==
  ASSUME NEW q \in Seq(Nat)
  PROVE  /\ IsFiniteSet({i \in 1 .. Len(q) : q[i] = Null})
         /\ NullsIn(q) \in Nat /\ NullsIn(q) <= Len(q)
<1> DEFINE S == {i \in 1 .. Len(q) : q[i] = Null}
<1>1. Len(q) \in Nat
  OBVIOUS
<1>2. IsFiniteSet(1 .. Len(q)) /\ Cardinality(1 .. Len(q)) = Len(q)
  <2>1. 1 \in Int /\ Len(q) \in Int
    BY <1>1
  <2>2. /\ IsFiniteSet(1 .. Len(q))
        /\ Cardinality(1 .. Len(q)) = IF 1 > Len(q) THEN 0 ELSE Len(q) - 1 + 1
    BY <2>1, FS_Interval
  <2>3. (IF 1 > Len(q) THEN 0 ELSE Len(q) - 1 + 1) = Len(q)
    BY <1>1
  <2> QED
    BY <2>2, <2>3
<1>3. S \in SUBSET (1 .. Len(q))
  OBVIOUS
<1>4. IsFiniteSet(S) /\ Cardinality(S) <= Len(q)
  BY <1>2, <1>3, FS_Subset
<1>5. Cardinality(S) \in Nat
  BY <1>4, FS_CardinalityType
<1> QED
  BY <1>4, <1>5 DEF NullsIn

LEMMA NullsOfAppend ==
  ASSUME NEW q \in Seq(Nat), NEW d \in Nat
  PROVE  NullsIn(Append(q, d)) = NullsIn(q) + (IF d = Null THEN 1 ELSE 0)
<1> DEFINE n == Len(q)
           r == Append(q, d)
           S == {i \in 1 .. n : q[i] = Null}
           T == {i \in 1 .. Len(r) : r[i] = Null}
<1>1. n \in Nat /\ Len(r) = n + 1 /\ r[n + 1] = d /\ \A i \in 1 .. n : r[i] = q[i]
  OBVIOUS
<1>2. n + 1 \notin S
  BY <1>1
<1>3. IsFiniteSet(S) /\ Cardinality(S) \in Nat
  BY NullsAreFew DEF NullsIn
<1>4. T = IF d = Null THEN S \cup {n + 1} ELSE S
  BY <1>1
<1>5. NullsIn(q) = Cardinality(S) /\ NullsIn(r) = Cardinality(T)
  BY DEF NullsIn
<1> HIDE DEF S, T, r
<1>6. Cardinality(T) = Cardinality(S) + (IF d = Null THEN 1 ELSE 0)
  <2>1. Cardinality(S \cup {n + 1}) = Cardinality(S) + 1
    BY <1>2, <1>3, FS_AddElement
  <2> QED
    BY <1>3, <1>4, <2>1
<1> QED
  BY <1>5, <1>6 DEF r

LEMMA NullsOfTail ==
  ASSUME NEW q \in Seq(Nat), q # <<>>
  PROVE  NullsIn(Tail(q)) + (IF Head(q) = Null THEN 1 ELSE 0) <= NullsIn(q)
<1> DEFINE n == Len(q)
           r == Tail(q)
           S == {i \in 1 .. n : q[i] = Null}
           T == {i \in 1 .. Len(r) : r[i] = Null}
           U == S \ {1}
           f == [i \in T |-> i + 1]
<1>1. /\ n \in Nat /\ n >= 1 /\ Len(r) = n - 1 /\ Head(q) = q[1]
      /\ \A i \in 1 .. (n - 1) : r[i] = q[i + 1]
  OBVIOUS
<1>2. IsFiniteSet(S) /\ Cardinality(S) \in Nat
  BY NullsAreFew DEF NullsIn
<1>3. f \in Injection(T, U)
  <2>1. \A i \in T : i \in Nat /\ i + 1 \in U
    BY <1>1
  <2>2. f \in [T -> U]
    BY <2>1
  <2>3. \A i, j \in T : f[i] = f[j] => i = j
    BY <2>1
  <2> QED
    BY <2>2, <2>3 DEF Injection, IsInjective
<1>4. 1 \in S <=> Head(q) = Null
  BY <1>1
<1>5. NullsIn(q) = Cardinality(S) /\ NullsIn(r) = Cardinality(T)
  BY DEF NullsIn
<1> HIDE DEF S, T, f, r
<1>6. IsFiniteSet(U) /\ Cardinality(U) = IF 1 \in S THEN Cardinality(S) - 1 ELSE Cardinality(S)
  BY <1>2, FS_RemoveElement
<1> HIDE DEF U
<1>7. IsFiniteSet(T) /\ Cardinality(T) <= Cardinality(U)
  BY <1>3, <1>6, FS_Injection
<1>8. Cardinality(T) \in Nat /\ Cardinality(U) \in Nat
  BY <1>6, <1>7, FS_CardinalityType
<1>9. Cardinality(T) + (IF 1 \in S THEN 1 ELSE 0) <= Cardinality(S)
  BY <1>2, <1>6, <1>7, <1>8
<1> QED
  BY <1>4, <1>5, <1>9 DEF r

HandNumbers(b) ==
  /\ queue[b] \in Seq(Nat) /\ Len(queue[b]) \in Nat /\ exceptions[b] \in Nat
  /\ data[b] \in Nat /\ stops \in Nat
  /\ NullsIn(queue[b]) \in Nat /\ NullsIn(queue[b]) <= Len(queue[b])
  /\ InHand(b) \in Nat /\ Voids(b) \in Nat /\ Voids(b) <= InHand(b)
  /\ Doubt(b) \in {0, 1} /\ Claim(b) \in {0, 1}
  /\ Resets(b) \in {stops, stops - 1}

LEMMA HandsAreNumbers == TypeOK => \A b \in Branches : HandNumbers(b)
<1> SUFFICES ASSUME TypeOK, NEW b \in Branches PROVE HandNumbers(b)
  OBVIOUS
<1>1. queue[b] \in Seq(Frames \cup {Null}) /\ exceptions[b] \in Nat
      /\ data[b] \in Frames \cup {Null} /\ stops \in 0 .. MaxStops
  BY DEF TypeOK
<1>2. Frames \cup {Null} \subseteq Nat
  BY NumbersOfFrames
<1>3. queue[b] \in Seq(Nat) /\ Len(queue[b]) \in Nat /\ data[b] \in Nat
  BY <1>1, <1>2
<1>4. stops \in Nat
  BY <1>1, NumbersOfFrames
<1>5. NullsIn(queue[b]) \in Nat /\ NullsIn(queue[b]) <= Len(queue[b])
  BY <1>3, NullsAreFew
<1>6. Doubt(b) \in {0, 1} /\ Claim(b) \in {0, 1} /\ Resets(b) \in {stops, stops - 1}
  BY DEF Doubt, Claim, Resets
<1>7. InHand(b) \in Nat
  BY <1>1, <1>3 DEF InHand
<1>8. Voids(b) \in Nat
  BY <1>5 DEF Voids
<1>9. Voids(b) <= InHand(b)
  BY <1>1, <1>3, <1>5 DEF InHand, Voids
<1> QED
  BY <1>1, <1>3, <1>4, <1>5, <1>6, <1>7, <1>8, <1>9 DEF HandNumbers

LEMMA HandsStayNumbers == TypeOK' => (\A b \in Branches : HandNumbers(b))'
  BY HandsAreNumbers, PTL

LEMMA StrandInit == Init => StrandInv
<1> SUFFICES ASSUME Init PROVE StrandInv
  OBVIOUS
<1>1. spc = "idle" /\ dpc = "none" /\ stops = 0
  BY DEF Init
<1>2. ASSUME NEW b \in Branches PROVE Account(b)
  <2>1. queue[b] = <<>> /\ exceptions[b] = 0 /\ wpc[b] = "none" /\ status[b] = "Finished"
    BY DEF Init
  <2>2. InHand(b) = 0
    BY <2>1 DEF InHand
  <2>3. Voids(b) \in Nat /\ Voids(b) <= 0
    BY <2>2, TypeInit, HandsAreNumbers DEF HandNumbers
  <2> QED
    BY <1>1, <2>1, <2>2, <2>3 DEF Account, Doubt, Claim, Resets, Unsettled, Pushing
<1> QED
  BY <1>1, <1>2 DEF StrandInv, Pushing

(* A branch that has no more in hand than before, and no less to show it.   *)
LEMMA AccountKept ==
  ASSUME TypeOK, TypeOK', NEW b \in Branches, Account(b),
         InHand(b)' + Voids(b)' <= InHand(b) + Voids(b),
         Doubt(b)' <= Doubt(b), Claim(b) <= Claim(b)', Resets(b) <= Resets(b)'
  PROVE  Account(b)'
<1>1. InHand(b) \in Nat /\ Voids(b) \in Nat /\ Doubt(b) \in Nat /\ Claim(b) \in Nat /\ Resets(b) \in Int
  BY HandsAreNumbers DEF HandNumbers
<1>2. /\ InHand(b)' \in Nat /\ Voids(b)' \in Nat /\ Doubt(b)' \in Nat /\ Claim(b)' \in Nat
      /\ Resets(b)' \in Int
  BY HandsStayNumbers DEF HandNumbers
<1>3. InHand(b) + Voids(b) + Doubt(b) <= Resets(b) + Claim(b)
  BY DEF Account
<1>4. \A h, v, d, c, h1, v1, d1, c1 \in Nat : \A r, r1 \in Int :
        /\ h + v + d <= r + c /\ h1 + v1 <= h + v /\ d1 <= d /\ c <= c1 /\ r <= r1
        => h1 + v1 + d1 <= r1 + c1
  OBVIOUS
<1>5. InHand(b)' + Voids(b)' + Doubt(b)' <= Resets(b)' + Claim(b)'
  BY <1>1, <1>2, <1>3, <1>4
<1> QED
  BY <1>5 DEF Account

LEMMA HandKept ==
  ASSUME TypeOK, NEW b \in Branches, queue'[b] = queue[b], exceptions'[b] = exceptions[b],
         wpc'[b] = wpc[b] \/ (wpc[b] \in {"none", "idle", "exited"} /\ wpc'[b] \in {"none", "idle", "exited"}),
         work'[b] = work[b]
  PROVE  /\ InHand(b)' = InHand(b) /\ Voids(b)' = Voids(b)
         /\ InHand(b)' + Voids(b)' <= InHand(b) + Voids(b)
<1>1. InHand(b)' = InHand(b)
  BY DEF InHand
<1>2. Voids(b)' = Voids(b)
  BY DEF Voids, NullsIn
<1>3. InHand(b) \in Nat /\ Voids(b) \in Nat
  BY HandsAreNumbers DEF HandNumbers
<1> QED
  BY <1>1, <1>2, <1>3

LEMMA StrandSubmitter ==
  ASSUME TypeOK, TypeOK', StrandInv, NEW s \in Submitters, Submitter(s) PROVE StrandInv'
<1> USE DEF slots, pool, disp, workers, stopper, history
<1>1. /\ UNCHANGED <<workers, stopper, dat>>
      /\ dpc' = dpc \/ (dpc = "none" /\ dpc' = "loop")
      /\ Pushing => UNCHANGED <<status, data>>
      /\ \A b \in Branches : status'[b] = "Running" <=> status[b] = "Running"
  <2>1. CASE Submit(s) \/ RunRefused(s) \/ Run(s) \/ MarkPoolRunning(s)
    BY <2>1 DEF Submit, RunRefused, Run, MarkPoolRunning
  <2>2. CASE AddProcessData(s)
    BY <2>2 DEF TypeOK, AddProcessData, GuardFree, Pushing
  <2> QED
    BY <2>1, <2>2 DEF Submitter
<1>2. ASSUME NEW b \in Branches PROVE Account(b)' /\ InHand(b)' = InHand(b)
  <2>1. /\ InHand(b)' = InHand(b) /\ Voids(b)' = Voids(b)
        /\ InHand(b)' + Voids(b)' <= InHand(b) + Voids(b)
    BY <1>1, HandKept
  <2>2. Doubt(b)' = Doubt(b)
    BY <1>1 DEF Doubt, Pushing
  <2>3. Claim(b)' = Claim(b)
    BY <1>1 DEF Claim, Unsettled
  <2>4. Resets(b)' = Resets(b)
    BY <1>1 DEF Resets
  <2>5. /\ Doubt(b)' <= Doubt(b) /\ Claim(b) <= Claim(b)' /\ Resets(b) <= Resets(b)'
    BY <2>2, <2>3, <2>4, HandsAreNumbers DEF HandNumbers
  <2> QED
    BY <2>1, <2>5, AccountKept DEF StrandInv
<1>3. dat \in Branches
  BY DEF TypeOK
<1>4. dpc' \in {"count", "clear"} => exceptions'[dat'] >= 1 \/ InHand(dat)' = 0
  <2>1. dpc' \in {"count", "clear"} => exceptions[dat] >= 1 \/ InHand(dat) = 0
    BY <1>1 DEF StrandInv
  <2> QED
    BY <1>1, <1>2, <1>3, <2>1
<1>5. Pushing' => status'[dat'] # "Running"
  BY <1>1, <1>3 DEF StrandInv, Pushing
<1>6. spc' # "idle" => stops' >= 1
  BY <1>1 DEF StrandInv
<1>7. (\A b \in Branches : Account(b))'
  BY <1>2
<1> QED
  BY <1>4, <1>5, <1>6, <1>7 DEF StrandInv

(* What the thread of branch t does to its own account.                     *)
LEMMA StrandOwnWorker ==
  ASSUME Policy # "ParallelWait", TypeOK, TypeOK', StrandInv, NEW t \in Branches, Worker(t)
  PROVE  Account(t)' /\ InHand(t)' <= InHand(t) /\ exceptions'[t] >= exceptions[t]
<1> USE DEF slots, pool, disp, workers, stopper, history
<1> DEFINE Kept == /\ InHand(t)' <= InHand(t)
                   /\ InHand(t)' + Voids(t)' <= InHand(t) + Voids(t)
                   /\ exceptions'[t] >= exceptions[t]
<1>1. /\ exceptions[t] \in Nat /\ Len(queue[t]) \in Nat /\ NullsIn(queue[t]) \in Nat
      /\ InHand(t) \in Nat /\ Voids(t) \in Nat /\ queue[t] \in Seq(Nat)
  BY HandsAreNumbers DEF HandNumbers
<1>2. InHand(t)' \in Nat /\ Voids(t)' \in Nat
  BY HandsStayNumbers DEF HandNumbers
<1>3. UNCHANGED <<dpc, dat, spc, sleft, stops>>
  BY DEF Worker, TakeData, LeaveWorker, Process, LookAtNeedStop, OnFinishedEmpty,
         OnFinished, KeepException
<1>4. Resets(t)' = Resets(t)
  BY <1>3 DEF Resets
<1>5. ASSUME Kept, UNCHANGED <<status, data>> PROVE Account(t)'
  <2>1. Doubt(t)' = Doubt(t)
    BY <1>3, <1>5 DEF Doubt, Pushing
  <2>2. Claim(t)' = Claim(t)
    BY <1>3, <1>5 DEF Claim, Unsettled
  <2>3. /\ Doubt(t)' <= Doubt(t) /\ Claim(t) <= Claim(t)' /\ Resets(t) <= Resets(t)'
    BY <1>4, <2>1, <2>2, HandsAreNumbers DEF HandNumbers
  <2> QED
    BY <1>5, <2>3, AccountKept DEF StrandInv
<1>6. CASE TakeData(t)
  <2>1. /\ wpc[t] = "idle" /\ queue[t] # <<>> /\ wpc'[t] = "process"
        /\ queue'[t] = Tail(queue[t]) /\ work'[t] = Head(queue[t])
        /\ exceptions'[t] = exceptions[t] /\ UNCHANGED <<status, data>>
    BY <1>6 DEF TypeOK, TakeData
  <2>2. Len(queue'[t]) = Len(queue[t]) - 1
    BY <1>1, <2>1
  <2>3. InHand(t)' = InHand(t)
    BY <1>1, <2>1, <2>2 DEF InHand
  <2>4. NullsIn(queue'[t]) + (IF work'[t] = Null THEN 1 ELSE 0) <= NullsIn(queue[t])
    BY <1>1, <2>1, NullsOfTail
  <2>5. Voids(t) = NullsIn(queue[t])
    BY <1>1, <2>1 DEF Voids
  <2>6. Voids(t)' = NullsIn(queue'[t]) + (IF work'[t] = Null THEN 1 ELSE 0)
    BY <2>1 DEF Voids, NullsIn
  <2>7. Voids(t)' <= Voids(t)
    BY <2>4, <2>5, <2>6
  <2>8. Kept
    BY <1>1, <1>2, <2>1, <2>3, <2>7
  <2> QED
    BY <1>5, <2>1, <2>8
<1>7. CASE LeaveWorker(t)
  <2>1. /\ wpc[t] = "idle" /\ wpc'[t] = "exited"
        /\ UNCHANGED <<queue, exceptions, work, status, data>>
    BY <1>7 DEF TypeOK, LeaveWorker
  <2>2. InHand(t)' = InHand(t) /\ Voids(t)' = Voids(t)
    BY <2>1, HandKept
  <2>3. Kept
    BY <1>1, <2>1, <2>2
  <2> QED
    BY <1>5, <2>1, <2>3
<1>8. CASE Process(t) \/ LookAtNeedStop(t) \/ KeepException(t)
  <2>1. /\ UNCHANGED <<queue, status, data>>
        /\ wpc[t] \in {"process", "done", "catch"}
        /\ \/ wpc'[t] = "idle" /\ exceptions'[t] = exceptions[t]
           \/ /\ wpc'[t] = "catch" /\ exceptions'[t] = exceptions[t]
           \/ /\ wpc[t] = "catch" /\ wpc'[t] = "idle" /\ exceptions'[t] = exceptions[t] + 1
           \/ /\ wpc[t] \in {"process", "done"} /\ wpc'[t] \in {"process", "done", "notify"}
              /\ work'[t] = work[t] /\ exceptions'[t] = exceptions[t]
    BY <1>1, <1>8 DEF TypeOK, Process, LookAtNeedStop, KeepException, Abort
  <2>2. InHand(t)' <= InHand(t)
    BY <1>1, <2>1 DEF InHand
  <2>3. Voids(t)' <= Voids(t)
    <3>1. NullsIn(queue[t])' = NullsIn(queue[t])
      BY <2>1 DEF NullsIn
    <3> QED
      BY <1>1, <2>1, <3>1 DEF Voids
  <2>4. Kept
    BY <1>1, <1>2, <2>1, <2>2, <2>3
  <2> QED
    BY <1>5, <2>1, <2>4
<1>9. ASSUME InHand(t)' + Voids(t)' + 1 <= InHand(t) + Voids(t), dpc \in {"none", "loop", "exited"}
      PROVE  Account(t)'
  <2>1. Doubt(t)' = 0
    BY <1>3, <1>9 DEF Doubt, Pushing
  <2>2. Claim(t) \in {0, 1} /\ Doubt(t) \in {0, 1} /\ Resets(t) \in Int
    BY HandsAreNumbers DEF HandNumbers
  <2>3. Claim(t)' \in {0, 1}
    BY HandsStayNumbers DEF HandNumbers
  <2>4. InHand(t) + Voids(t) + Doubt(t) <= Resets(t) + Claim(t)
    BY DEF StrandInv, Account
  <2>5. InHand(t)' + Voids(t)' + Doubt(t)' <= Resets(t)' + Claim(t)'
    BY <1>1, <1>2, <1>4, <1>9, <2>1, <2>2, <2>3, <2>4
  <2> QED
    BY <2>5 DEF Account
<1>10. CASE OnFinishedEmpty(t)
  <2>1. /\ wpc[t] = "notify" /\ work[t] = Null /\ wpc'[t] = "catch"
        /\ UNCHANGED <<queue, exceptions, work>> /\ dpc \in {"none", "loop", "exited"}
    BY <1>10 DEF TypeOK, OnFinishedEmpty, GuardFree
  <2>2. InHand(t)' = InHand(t)
    BY <1>1, <2>1 DEF InHand
  <2>3. Voids(t)' + 1 = Voids(t)
    <3>1. NullsIn(queue[t])' = NullsIn(queue[t])
      BY <2>1 DEF NullsIn
    <3> QED
      BY <1>1, <2>1, <3>1 DEF Voids
  <2>4. InHand(t)' + Voids(t)' + 1 <= InHand(t) + Voids(t)
    BY <1>1, <1>2, <2>2, <2>3
  <2> QED
    BY <1>1, <1>9, <2>1, <2>2, <2>4
<1>11. CASE OnFinished(t)
  <2>1. /\ wpc[t] = "notify" /\ work[t] \in Frames /\ work'[t] = Null
        /\ output' = [output EXCEPT ![t] = work[t]]
        /\ UNCHANGED <<queue, exceptions>> /\ dpc \in {"none", "loop", "exited"}
    BY <1>11 DEF TypeOK, OnFinished, GuardFree
  <2>2. \A x \in Branches : ResultMap(output', t)[x] # Null
    <3>1. output'[t] # Null /\ Absent # Null
      BY <2>1, NumbersOfFrames DEF TypeOK
    <3> QED
      BY <3>1, PolicyIsKnown DEF ResultMap, Nothing
  <2>3. wpc' = [wpc EXCEPT ![t] = "idle"]
    BY <1>11, <2>2 DEF OnFinished
  <2>4. InHand(t)' + 1 = InHand(t)
    <3>1. wpc'[t] = "idle"
      BY <2>3 DEF TypeOK
    <3> QED
      BY <1>1, <2>1, <3>1 DEF InHand
  <2>5. Voids(t)' <= Voids(t)
    <3>1. NullsIn(queue[t])' = NullsIn(queue[t])
      BY <2>1 DEF NullsIn
    <3>2. wpc'[t] = "idle"
      BY <2>3 DEF TypeOK
    <3> QED
      BY <1>1, <2>1, <3>1, <3>2 DEF Voids
  <2>6. InHand(t)' + Voids(t)' + 1 <= InHand(t) + Voids(t)
    BY <1>1, <1>2, <2>4, <2>5
  <2> QED
    BY <1>1, <1>2, <1>9, <2>1, <2>4, <2>6
<1> QED
  BY <1>6, <1>7, <1>8, <1>10, <1>11 DEF Worker

LEMMA StrandWorker ==
  ASSUME Policy # "ParallelWait", TypeOK, TypeOK', StrandInv, NEW t \in Branches, Worker(t)
  PROVE  StrandInv'
<1> USE DEF slots, pool, disp, workers, stopper, history
<1>1. /\ UNCHANGED <<dpc, dat, spc, sleft, stops>>
      /\ Pushing => UNCHANGED <<status, data>>
  BY DEF Worker, TakeData, LeaveWorker, Process, LookAtNeedStop, OnFinishedEmpty,
         OnFinished, KeepException, GuardFree, Pushing
<1>2. ASSUME NEW b \in Branches \ {t}
      PROVE  /\ queue'[b] = queue[b] /\ exceptions'[b] = exceptions[b]
             /\ wpc'[b] = wpc[b] /\ work'[b] = work[b]
             /\ status'[b] = "Running" <=> status[b] = "Running"
  <2>1. CASE OnFinished(t)
    <3>1. \/ wpc' = [wpc EXCEPT ![t] = "idle"]
          \/ wpc' = [wpc EXCEPT ![t] = "catch"]
      BY <2>1 DEF OnFinished
    <3>2. UNCHANGED <<queue, exceptions>> /\ work' = [work EXCEPT ![t] = Null]
      BY <2>1 DEF OnFinished
    <3>3. status'[b] = IF b \in Fed(t) THEN "Ready" ELSE status[b]
      BY <1>2, <2>1 DEF OnFinished
    <3>4. b \in Fed(t) => status[b] = "Finished"
      BY DEF Fed
    <3>5. wpc'[b] = wpc[b]
      BY <1>2, <3>1 DEF TypeOK
    <3>6. work'[b] = work[b]
      BY <1>2, <3>2 DEF TypeOK
    <3> QED
      BY <3>2, <3>3, <3>4, <3>5, <3>6
  <2>2. CASE OnFinishedEmpty(t)
    BY <1>2, <2>2 DEF TypeOK, OnFinishedEmpty
  <2>3. CASE TakeData(t) \/ LeaveWorker(t) \/ KeepException(t)
    <3>1. status' = status
      BY <2>3 DEF TakeData, LeaveWorker, KeepException
    <3>2. CASE TakeData(t)
      BY <1>2, <3>1, <3>2 DEF TypeOK, TakeData
    <3>3. CASE LeaveWorker(t)
      BY <1>2, <3>1, <3>3 DEF TypeOK, LeaveWorker
    <3>4. CASE KeepException(t)
      BY <1>2, <3>1, <3>4 DEF TypeOK, KeepException
    <3> QED
      BY <2>3, <3>2, <3>3, <3>4
  <2>4. CASE Process(t) \/ LookAtNeedStop(t)
    <3>1. UNCHANGED <<queue, exceptions, status>>
      BY <2>4 DEF Process, LookAtNeedStop
    <3>2. /\ work' = work \/ work' = [work EXCEPT ![t] = Null]
          /\ wpc' = wpc \/ \E p \in WorkerPoints : wpc' = [wpc EXCEPT ![t] = p]
      BY <2>4 DEF Process, LookAtNeedStop, WorkerPoints
    <3>3. wpc'[b] = wpc[b] /\ work'[b] = work[b]
      BY <1>2, <3>2 DEF TypeOK
    <3> QED
      BY <3>1, <3>3
  <2> QED
    BY <2>1, <2>2, <2>3, <2>4 DEF Worker
<1>3. ASSUME NEW b \in Branches
      PROVE  Account(b)' /\ InHand(b)' <= InHand(b) /\ exceptions'[b] >= exceptions[b]
  <2>1. CASE b = t
    BY <2>1, StrandOwnWorker
  <2>2. CASE b # t
    <3>1. /\ InHand(b)' = InHand(b) /\ Voids(b)' = Voids(b)
          /\ InHand(b)' + Voids(b)' <= InHand(b) + Voids(b)
      BY <1>2, <2>2, HandKept
    <3>2. Doubt(b)' = Doubt(b)
      BY <1>1 DEF Doubt, Pushing
    <3>3. Claim(b)' = Claim(b)
      BY <1>1, <1>2, <2>2 DEF Claim, Unsettled
    <3>4. Resets(b)' = Resets(b)
      BY <1>1 DEF Resets
    <3>5. Doubt(b)' <= Doubt(b) /\ Claim(b) <= Claim(b)' /\ Resets(b) <= Resets(b)'
      BY <3>2, <3>3, <3>4, HandsAreNumbers DEF HandNumbers
    <3>6. Account(b)'
      BY <3>1, <3>5, AccountKept DEF StrandInv
    <3>7. InHand(b) \in Nat /\ exceptions[b] \in Nat
      BY HandsAreNumbers DEF HandNumbers
    <3> QED
      BY <1>2, <2>2, <3>1, <3>6, <3>7
  <2> QED
    BY <2>1, <2>2
<1>4. dpc' \in {"count", "clear"} => exceptions'[dat'] >= 1 \/ InHand(dat)' = 0
  <2> SUFFICES ASSUME NEW b \in Branches, b = dat, dpc' \in {"count", "clear"}
               PROVE  exceptions'[b] >= 1 \/ InHand(b)' = 0
    BY <1>1 DEF TypeOK
  <2>1. exceptions[b] >= 1 \/ InHand(b) = 0
    BY <1>1 DEF StrandInv
  <2>2. /\ exceptions[b] \in Nat /\ InHand(b) \in Nat /\ InHand(b)' \in Nat
        /\ exceptions'[b] \in Nat
    BY HandsAreNumbers, HandsStayNumbers DEF HandNumbers
  <2> QED
    BY <1>3, <2>1, <2>2
<1>5. Pushing' => status'[dat'] # "Running"
  BY <1>1 DEF StrandInv, Pushing
<1>6. spc' # "idle" => stops' >= 1
  BY <1>1 DEF StrandInv
<1>7. (\A b \in Branches : Account(b))'
  BY <1>3
<1> QED
  BY <1>4, <1>5, <1>6, <1>7 DEF StrandInv

LEMMA StrandStopper ==
  ASSUME TypeOK, TypeOK', SpawnInv, StrandInv, Stopper PROVE StrandInv'
<1> USE DEF slots, pool, disp, workers, stopper, history
<1>1. /\ dpc' = dpc \/ (dpc' = "none" /\ dpc = "exited")
      /\ UNCHANGED dat
  BY DEF Stopper, Stop, StopIdleBranch, StopWorker, JoinWorker, ResetWorker,
         UnmarkWorker, UnsetWorkerStop, StartResetSlots, ResetSlot, JoinDispatcher,
         MarkPoolStopped
<1>2. stops \in Nat
  BY NumbersOfFrames DEF TypeOK
<1>3. spc' # "idle" => stops' >= 1
  <2>1. CASE Stop
    BY <1>2, <2>1 DEF Stop
  <2>2. CASE ~Stop
    BY <2>2 DEF StrandInv, Stopper, StopIdleBranch, StopWorker, JoinWorker, ResetWorker,
                UnmarkWorker, UnsetWorkerStop, StartResetSlots, ResetSlot, JoinDispatcher,
                MarkPoolStopped
  <2> QED
    BY <2>1, <2>2
<1>4. ASSUME NEW b \in Branches PROVE Resets(b) <= Resets(b)'
  <2>1. CASE Stop \/ StopIdleBranch(b) \/ JoinWorker \/ ResetWorker \/ UnmarkWorker
             \/ UnsetWorkerStop \/ StartResetSlots \/ JoinDispatcher \/ MarkPoolStopped
    BY <1>2, <2>1 DEF Resets, Stop, StopIdleBranch, JoinWorker, ResetWorker, UnmarkWorker,
                      UnsetWorkerStop, StartResetSlots, JoinDispatcher, MarkPoolStopped
  <2>2. ASSUME NEW x \in Branches, StopIdleBranch(x) \/ StopWorker(x) \/ ResetSlot(x)
        PROVE  Resets(b) <= Resets(b)'
    BY <1>2, <2>2 DEF Resets, StopIdleBranch, StopWorker, ResetSlot
  <2> QED
    BY <2>1, <2>2 DEF Stopper
<1>5. ASSUME UNCHANGED <<status, data, queue, exceptions, work>>,
             \A b \in Branches : \/ wpc'[b] = wpc[b]
                                 \/ /\ wpc[b] \in {"none", "idle", "exited"}
                                    /\ wpc'[b] \in {"none", "idle", "exited"}
      PROVE  StrandInv'
  <2>1. ASSUME NEW b \in Branches PROVE Account(b)' /\ InHand(b)' = InHand(b)
    <3>1. /\ InHand(b)' = InHand(b) /\ Voids(b)' = Voids(b)
          /\ InHand(b)' + Voids(b)' <= InHand(b) + Voids(b)
      BY <1>5, HandKept
    <3>2. Doubt(b)' = Doubt(b)
      BY <1>1, <1>5 DEF Doubt, Pushing
    <3>3. Claim(b)' = Claim(b)
      BY <1>1, <1>5 DEF Claim, Unsettled
    <3>4. Doubt(b)' <= Doubt(b) /\ Claim(b) <= Claim(b)'
      BY <3>2, <3>3, HandsAreNumbers DEF HandNumbers
    <3> QED
      BY <1>4, <3>1, <3>4, AccountKept DEF StrandInv
  <2>2. dpc' \in {"count", "clear"} => exceptions'[dat'] >= 1 \/ InHand(dat)' = 0
    <3> SUFFICES ASSUME NEW b \in Branches, b = dat, dpc' \in {"count", "clear"}
                 PROVE  exceptions'[b] >= 1 \/ InHand(b)' = 0
      BY <1>1 DEF TypeOK
    <3> QED
      BY <1>1, <1>5, <2>1 DEF StrandInv
  <2>3. Pushing' => status'[dat'] # "Running"
    BY <1>1, <1>5 DEF StrandInv, Pushing
  <2>4. (\A b \in Branches : Account(b))'
    BY <2>1
  <2> QED
    BY <1>3, <2>2, <2>3, <2>4 DEF StrandInv
<1>6. CASE \/ Stop \/ UnmarkWorker \/ UnsetWorkerStop \/ StartResetSlots \/ JoinDispatcher
           \/ MarkPoolStopped \/ \E b \in Branches : StopIdleBranch(b) \/ StopWorker(b)
  BY <1>5, <1>6 DEF Stop, UnmarkWorker, UnsetWorkerStop, StartResetSlots, JoinDispatcher,
                    MarkPoolStopped, StopIdleBranch, StopWorker
<1>7. CASE JoinWorker
  BY <1>5, <1>7 DEF TypeOK, JoinWorker
<1>8. CASE ResetWorker
  <2>1. /\ spc = "reset" /\ UNCHANGED <<dpc, dat, status, data, wpc, work>>
        /\ queue' = [queue EXCEPT ![sat] = <<>>] /\ exceptions' = [exceptions EXCEPT ![sat] = 0]
        /\ sat \in Branches /\ wpc[sat] = "none"
    BY <1>8 DEF TypeOK, SpawnInv, ResetWorker
  <2>2. ASSUME NEW b \in Branches, b = sat PROVE InHand(b)' = 0 /\ Account(b)'
    <3>1. InHand(b)' = 0
      <4>1. queue'[b] = <<>> /\ exceptions'[b] = 0 /\ wpc'[b] = "none"
        BY <2>1, <2>2 DEF TypeOK
      <4> QED
        BY <4>1 DEF InHand
    <3>2. Voids(b)' = 0
      BY <3>1, HandsStayNumbers DEF HandNumbers
    <3>3. Doubt(b)' = Doubt(b) /\ Claim(b)' = Claim(b)
      BY <2>1 DEF Doubt, Claim, Unsettled, Pushing
    <3>4. Doubt(b) = 1 => Claim(b) = 0
      BY DEF Doubt, Claim, Unsettled, Pushing, StrandInv
    <3>5. stops >= 1
      BY <2>1 DEF StrandInv
    <3>6. /\ InHand(b) \in Nat /\ Voids(b) \in Nat /\ Doubt(b) \in {0, 1} /\ Claim(b) \in {0, 1}
          /\ Resets(b) \in {stops, stops - 1} /\ InHand(b) + Voids(b) + Doubt(b) <= Resets(b) + Claim(b)
      BY HandsAreNumbers DEF HandNumbers, StrandInv, Account
    <3>7. Doubt(b) <= Resets(b) + Claim(b) /\ Resets(b) \in Int
      BY <1>2, <3>4, <3>5, <3>6
    <3>8. Resets(b)' \in Int
      BY HandsStayNumbers DEF HandNumbers
    <3>9. InHand(b)' + Voids(b)' + Doubt(b)' <= Resets(b)' + Claim(b)'
      BY <1>4, <3>1, <3>2, <3>3, <3>6, <3>7, <3>8
    <3> QED
      BY <3>1, <3>9 DEF Account
  <2>3. ASSUME NEW b \in Branches, b # sat
        PROVE  Account(b)' /\ InHand(b)' = InHand(b) /\ exceptions'[b] = exceptions[b]
    <3>1. queue'[b] = queue[b] /\ exceptions'[b] = exceptions[b]
      BY <2>1, <2>3 DEF TypeOK
    <3>2. /\ InHand(b)' = InHand(b) /\ Voids(b)' = Voids(b)
          /\ InHand(b)' + Voids(b)' <= InHand(b) + Voids(b)
      BY <2>1, <3>1, HandKept
    <3>3. Doubt(b)' = Doubt(b) /\ Claim(b)' = Claim(b)
      BY <2>1 DEF Doubt, Claim, Unsettled, Pushing
    <3>4. Doubt(b)' <= Doubt(b) /\ Claim(b) <= Claim(b)'
      BY <3>3, HandsAreNumbers DEF HandNumbers
    <3> QED
      BY <1>4, <3>1, <3>2, <3>4, AccountKept DEF StrandInv
  <2>4. dpc' \in {"count", "clear"} => exceptions'[dat'] >= 1 \/ InHand(dat)' = 0
    <3> SUFFICES ASSUME NEW b \in Branches, b = dat, dpc' \in {"count", "clear"}
                 PROVE  exceptions'[b] >= 1 \/ InHand(b)' = 0
      BY <1>1 DEF TypeOK
    <3> QED
      BY <2>1, <2>2, <2>3 DEF StrandInv
  <2>5. Pushing' => status'[dat'] # "Running"
    BY <2>1 DEF StrandInv, Pushing
  <2>6. (\A b \in Branches : Account(b))'
    BY <2>2, <2>3
  <2> QED
    BY <1>3, <2>4, <2>5, <2>6 DEF StrandInv
<1>9. ASSUME NEW t \in Branches, ResetSlot(t) PROVE StrandInv'
  <2>1. /\ spc = "slots" /\ spc' = "slots" /\ t \in sleft /\ sleft' = sleft \ {t}
        /\ UNCHANGED <<stops, dpc, dat, queue, exceptions, wpc, work>>
        /\ status' = [status EXCEPT ![t] = "Finished"] /\ data' = [data EXCEPT ![t] = Null]
    BY <1>9 DEF ResetSlot
  <2>2. ASSUME NEW b \in Branches
        PROVE  /\ InHand(b)' = InHand(b) /\ Voids(b)' = Voids(b)
               /\ InHand(b)' + Voids(b)' <= InHand(b) + Voids(b)
    BY <2>1, HandKept
  <2>3. ASSUME NEW b \in Branches, b = t PROVE Account(b)'
    <3>1. Resets(b)' = stops /\ Resets(b) = stops - 1
      BY <2>1, <2>3 DEF Resets
    <3>2. /\ InHand(b) \in Nat /\ Voids(b) \in Nat /\ Doubt(b) \in {0, 1} /\ Claim(b) \in {0, 1}
          /\ InHand(b) + Voids(b) + Doubt(b) <= Resets(b) + Claim(b)
      BY HandsAreNumbers DEF HandNumbers, StrandInv, Account
    <3>3. Doubt(b)' \in {0, 1} /\ Claim(b)' \in {0, 1}
      BY HandsStayNumbers DEF HandNumbers
    <3>4. Pushing /\ dat = b => Claim(b) = 0
      BY DEF Claim, Unsettled, Pushing, StrandInv
    <3>5. Doubt(b)' = 1 => Pushing /\ dat = b
      BY <2>1 DEF Doubt, Pushing
    <3>6. InHand(b)' + Voids(b)' + Doubt(b)' <= Resets(b)' + Claim(b)'
      BY <1>2, <2>2, <3>1, <3>2, <3>3, <3>4, <3>5
    <3> QED
      BY <3>6 DEF Account
  <2>4. ASSUME NEW b \in Branches, b # t PROVE Account(b)'
    <3>1. status'[b] = status[b] /\ data'[b] = data[b]
      BY <2>1, <2>4 DEF TypeOK
    <3>2. Doubt(b)' = Doubt(b) /\ Claim(b)' = Claim(b)
      BY <2>1, <3>1 DEF Doubt, Claim, Unsettled, Pushing
    <3>3. Doubt(b)' <= Doubt(b) /\ Claim(b) <= Claim(b)'
      BY <3>2, HandsAreNumbers DEF HandNumbers
    <3> QED
      BY <1>4, <2>2, <3>3, AccountKept DEF StrandInv
  <2>5. dpc' \in {"count", "clear"} => exceptions'[dat'] >= 1 \/ InHand(dat)' = 0
    <3> SUFFICES ASSUME NEW b \in Branches, b = dat, dpc' \in {"count", "clear"}
                 PROVE  exceptions'[b] >= 1 \/ InHand(b)' = 0
      BY <1>1 DEF TypeOK
    <3> QED
      BY <2>1, <2>2 DEF StrandInv
  <2>6. Pushing' => status'[dat'] # "Running"
    <3>1. Pushing' => status[dat] # "Running"
      BY <2>1 DEF StrandInv, Pushing
    <3>2. status'[dat] \in {status[dat], "Finished"}
      BY <2>1 DEF TypeOK
    <3> QED
      BY <2>1, <3>1, <3>2
  <2>7. (\A b \in Branches : Account(b))'
    BY <2>3, <2>4
  <2> QED
    BY <1>3, <2>5, <2>6, <2>7 DEF StrandInv
<1> QED
  BY <1>6, <1>7, <1>8, <1>9 DEF Stopper

(* The steps of the dispatcher that push or settle.                         *)
LEMMA StrandPush ==
  ASSUME TypeOK, TypeOK', StrandInv, PushData \/ SettleBranch PROVE StrandInv'
<1> USE DEF slots, pool, disp, workers, stopper, history
<1>1. dat \in Branches /\ UNCHANGED <<stops, spc, sleft, exceptions, wpc, work>>
  BY DEF TypeOK, PushData, SettleBranch
<1>2. ASSUME NEW b \in Branches PROVE Resets(b)' = Resets(b)
  BY <1>1 DEF Resets
<1>3. CASE PushData
  <2>1. /\ dpc = "push" /\ dpc' = "settle" /\ dat' = dat /\ status' = status
        /\ queue' = [queue EXCEPT ![dat] = Append(@, data[dat])]
        /\ data' = [data EXCEPT ![dat] = Null]
    BY <1>3 DEF PushData
  <2>2. ASSUME NEW b \in Branches, b = dat PROVE Account(b)'
    <3>1. /\ queue[b] \in Seq(Nat) /\ Len(queue[b]) \in Nat /\ exceptions[b] \in Nat
          /\ data[b] \in Nat /\ NullsIn(queue[b]) \in Nat /\ InHand(b) \in Nat
          /\ Voids(b) \in Nat /\ Resets(b) \in {stops, stops - 1} /\ stops \in Nat
      BY HandsAreNumbers DEF HandNumbers
    <3>2. queue'[b] = Append(queue[b], data[b])
      BY <2>1, <2>2 DEF TypeOK
    <3>3. InHand(b)' = InHand(b) + 1
      <4>1. Len(queue'[b]) = Len(queue[b]) + 1
        BY <3>1, <3>2
      <4>2. exceptions'[b] = exceptions[b] /\ wpc'[b] = wpc[b]
        BY <1>1
      <4> DEFINE busy == IF wpc[b] \in {"process", "done", "notify", "catch"} THEN 1 ELSE 0
      <4>3. busy' = busy /\ busy \in {0, 1}
        BY <4>2
      <4>4. InHand(b) = Len(queue[b]) + exceptions[b] + busy
        BY DEF InHand
      <4>5. InHand(b)' = Len(queue'[b]) + exceptions'[b] + busy'
        BY DEF InHand
      <4> HIDE DEF busy
      <4> QED
        BY <3>1, <4>1, <4>2, <4>3, <4>4, <4>5
    <3>4. Voids(b)' = Voids(b) + (IF data[b] = Null THEN 1 ELSE 0)
      <4>1. NullsIn(queue'[b]) = NullsIn(queue[b]) + (IF data[b] = Null THEN 1 ELSE 0)
        BY <3>1, <3>2, NullsOfAppend
      <4>2. NullsIn(queue[b])' = NullsIn(queue'[b])
        BY DEF NullsIn
      <4> QED
        BY <1>1, <3>1, <4>1, <4>2 DEF Voids
    <3>5. /\ Doubt(b) = IF data[b] = Null THEN 1 ELSE 0
          /\ Doubt(b)' = 0 /\ Claim(b)' = 1
      BY <2>1, <2>2 DEF Doubt, Claim, Unsettled, Pushing
    <3>6. Claim(b) = 0
      BY <2>1, <2>2 DEF StrandInv, Claim, Unsettled, Pushing
    <3>7. InHand(b) + Voids(b) + Doubt(b) <= Resets(b) + Claim(b)
      BY DEF StrandInv, Account
    <3>8. Resets(b)' = Resets(b)
      BY <1>2
    <3>9. InHand(b)' + Voids(b)' + Doubt(b)' <= Resets(b)' + Claim(b)'
      BY <3>1, <3>3, <3>4, <3>5, <3>6, <3>7, <3>8
    <3> QED
      BY <3>9 DEF Account
  <2>3. ASSUME NEW b \in Branches, b # dat PROVE Account(b)'
    <3>1. queue'[b] = queue[b]
      BY <2>1, <2>3 DEF TypeOK
    <3>2. InHand(b)' + Voids(b)' <= InHand(b) + Voids(b)
      BY <1>1, <3>1, HandKept
    <3>3. Doubt(b)' = Doubt(b) /\ Claim(b)' = Claim(b) /\ Resets(b)' = Resets(b)
      BY <1>2, <2>1, <2>3 DEF Doubt, Claim, Unsettled, Pushing
    <3>4. Doubt(b)' <= Doubt(b) /\ Claim(b) <= Claim(b)' /\ Resets(b) <= Resets(b)'
      BY <3>3, HandsAreNumbers DEF HandNumbers
    <3> QED
      BY <3>2, <3>4, AccountKept DEF StrandInv
  <2>4. (\A b \in Branches : Account(b))'
    BY <2>2, <2>3
  <2> QED
    BY <1>1, <2>1, <2>4 DEF StrandInv, Pushing
<1>4. CASE SettleBranch
  <2>1. /\ dpc = "settle" /\ dpc' = "dispatch" /\ queue' = queue
        /\ status' = [status EXCEPT ![dat] = "Running"]
    BY <1>4 DEF SettleBranch
  <2>2. ASSUME NEW b \in Branches PROVE Account(b)'
    <3>1. InHand(b)' + Voids(b)' <= InHand(b) + Voids(b)
      BY <1>1, <2>1, HandKept
    <3>2. Doubt(b)' = 0 /\ Doubt(b) = 0
      BY <2>1 DEF Doubt, Pushing
    <3>3. Claim(b)' = Claim(b)
      <4>1. status'[b] = IF b = dat THEN "Running" ELSE status[b]
        BY <1>1, <2>1 DEF TypeOK
      <4> QED
        BY <2>1, <4>1 DEF Claim, Unsettled
    <3>4. Doubt(b)' <= Doubt(b) /\ Claim(b) <= Claim(b)' /\ Resets(b) <= Resets(b)'
      <4>1. Resets(b)' = Resets(b)
        BY <1>2
      <4> QED
        BY <3>2, <3>3, <4>1, HandsAreNumbers DEF HandNumbers
    <3> QED
      BY <3>1, <3>4, AccountKept DEF StrandInv
  <2>3. (\A b \in Branches : Account(b))'
    BY <2>2
  <2> QED
    BY <1>1, <2>1, <2>3 DEF StrandInv, Pushing
<1> QED
  BY <1>3, <1>4

(* The steps of the dispatcher that handle exceptions.                      *)
LEMMA StrandExceptions ==
  ASSUME TypeOK, TypeOK', StrandInv,
         CountExceptions \/ ClearExceptions \/ \E b \in Branches : HandleExceptions(b)
  PROVE  StrandInv'
<1> USE DEF slots, pool, disp, workers, stopper, history
<1>1. UNCHANGED <<stops, spc, sleft, queue, wpc, work>> /\ dat \in Branches
  BY DEF TypeOK, CountExceptions, ClearExceptions, HandleExceptions
<1>2. ASSUME NEW b \in Branches PROVE Resets(b)' = Resets(b)
  BY <1>1 DEF Resets
<1>3. CASE CountExceptions
  <2>1. dpc = "count" /\ dpc' = "clear" /\ UNCHANGED <<dat, status, exceptions>>
    BY <1>3 DEF CountExceptions
  <2>2. ASSUME NEW b \in Branches PROVE Account(b)' /\ InHand(b)' = InHand(b)
    <3>1. InHand(b)' + Voids(b)' <= InHand(b) + Voids(b) /\ InHand(b)' = InHand(b)
      BY <1>1, <2>1, HandKept
    <3>2. Doubt(b)' = Doubt(b) /\ Claim(b)' = Claim(b)
      BY <2>1 DEF Doubt, Claim, Unsettled, Pushing
    <3>3. Doubt(b)' <= Doubt(b) /\ Claim(b) <= Claim(b)' /\ Resets(b) <= Resets(b)'
      <4>1. Resets(b)' = Resets(b)
        BY <1>2
      <4> QED
        BY <3>2, <4>1, HandsAreNumbers DEF HandNumbers
    <3> QED
      BY <3>1, <3>3, AccountKept DEF StrandInv
  <2>3. exceptions'[dat'] >= 1 \/ InHand(dat)' = 0
    <3> SUFFICES ASSUME NEW b \in Branches, b = dat
                 PROVE  exceptions'[b] >= 1 \/ InHand(b)' = 0
      BY <1>1, <2>1
    <3> QED
      BY <2>1, <2>2 DEF StrandInv
  <2>4. (\A b \in Branches : Account(b))'
    BY <2>2
  <2> QED
    BY <1>1, <2>1, <2>3, <2>4 DEF StrandInv, Pushing
<1>4. ASSUME NEW t \in Branches, HandleExceptions(t) PROVE StrandInv'
  <2>1. /\ dpc = "scan" /\ dpc' = "count" /\ dat' = t /\ exceptions[t] > 0
        /\ exceptions' = exceptions /\ status' = [status EXCEPT ![t] = "Finished"]
    BY <1>4 DEF HandleExceptions
  <2>2. ASSUME NEW b \in Branches PROVE Account(b)'
    <3>1. InHand(b)' + Voids(b)' <= InHand(b) + Voids(b)
      BY <1>1, <2>1, HandKept
    <3>2. Doubt(b)' = 0 /\ Doubt(b) = 0
      BY <2>1 DEF Doubt, Pushing
    <3>3. Claim(b) = 1 => Claim(b)' = 1
      <4>1. status'[b] = IF b = t THEN "Finished" ELSE status[b]
        BY <2>1 DEF TypeOK
      <4> QED
        BY <2>1, <4>1 DEF Claim, Unsettled
    <3>4. Claim(b) \in {0, 1} /\ Claim(b)' \in {0, 1}
      BY HandsAreNumbers, HandsStayNumbers DEF HandNumbers
    <3>5. Doubt(b)' <= Doubt(b) /\ Claim(b) <= Claim(b)'
      BY <3>2, <3>3, <3>4
    <3>6. Resets(b) <= Resets(b)'
      BY <1>2, HandsAreNumbers DEF HandNumbers
    <3> QED
      BY <3>1, <3>5, <3>6, AccountKept DEF StrandInv
  <2>3. exceptions'[dat'] >= 1
    BY <2>1 DEF TypeOK
  <2>4. (\A b \in Branches : Account(b))'
    BY <2>2
  <2> QED
    BY <1>1, <2>1, <2>3, <2>4 DEF StrandInv, Pushing
<1>5. CASE ClearExceptions
  <2>1. dpc = "clear" /\ UNCHANGED <<status, data>>
    BY <1>5 DEF ClearExceptions
  <2>2. CASE exceptions' = exceptions /\ UNCHANGED <<dpc, dat>>
    <3>1. ASSUME NEW b \in Branches PROVE Account(b)' /\ InHand(b)' = InHand(b)
      <4>1. InHand(b)' + Voids(b)' <= InHand(b) + Voids(b) /\ InHand(b)' = InHand(b)
        BY <1>1, <2>2, HandKept
      <4>2. Doubt(b)' = Doubt(b) /\ Claim(b)' = Claim(b)
        BY <2>1, <2>2 DEF Doubt, Claim, Unsettled, Pushing
      <4>3. Doubt(b)' <= Doubt(b) /\ Claim(b) <= Claim(b)' /\ Resets(b) <= Resets(b)'
        <5>1. Resets(b)' = Resets(b)
          BY <1>2
        <5> QED
          BY <4>2, <5>1, HandsAreNumbers DEF HandNumbers
      <4> QED
        BY <4>1, <4>3, AccountKept DEF StrandInv
    <3>2. exceptions'[dat'] >= 1 \/ InHand(dat)' = 0
      <4> SUFFICES ASSUME NEW b \in Branches, b = dat
                   PROVE  exceptions'[b] >= 1 \/ InHand(b)' = 0
        BY <1>1, <2>2
      <4> QED
        BY <2>1, <2>2, <3>1 DEF StrandInv
    <3>3. (\A b \in Branches : Account(b))'
      BY <3>1
    <3> QED
      BY <1>1, <2>1, <2>2, <3>2, <3>3 DEF StrandInv, Pushing
  <2>3. CASE exceptions' = [exceptions EXCEPT ![dat] = 0] /\ dpc' = "scan"
    <3>1. ASSUME NEW b \in Branches, b = dat PROVE Account(b)'
      <4>1. /\ InHand(b) \in Nat /\ Voids(b) \in Nat /\ Doubt(b) \in {0, 1} /\ Claim(b) \in {0, 1}
            /\ Len(queue[b]) \in Nat /\ exceptions[b] \in Nat /\ stops \in Nat
            /\ Resets(b) \in {stops, stops - 1} /\ Voids(b) <= InHand(b)
        BY HandsAreNumbers DEF HandNumbers
      <4>2. InHand(b) + Voids(b) + Doubt(b) <= Resets(b) + Claim(b)
        BY DEF StrandInv, Account
      <4>3. Doubt(b)' = 0 /\ Doubt(b) = 0
        BY <2>1, <2>3 DEF Doubt, Pushing
      <4>4. Claim(b)' \in {0, 1} /\ Resets(b)' = Resets(b)
        BY <1>2, HandsStayNumbers DEF HandNumbers
      <4>5. Voids(b)' = Voids(b)
        BY <1>1 DEF Voids, NullsIn
      <4>6. InHand(b)' = InHand(b) - exceptions[b]
        <5>1. exceptions'[b] = 0 /\ queue'[b] = queue[b] /\ wpc'[b] = wpc[b]
          BY <1>1, <2>3, <3>1 DEF TypeOK
        <5> DEFINE busy == IF wpc[b] \in {"process", "done", "notify", "catch"} THEN 1 ELSE 0
        <5>2. busy' = busy /\ busy \in {0, 1}
          BY <5>1
        <5>3. InHand(b) = Len(queue[b]) + exceptions[b] + busy
          BY DEF InHand
        <5>4. InHand(b)' = Len(queue'[b]) + exceptions'[b] + busy'
          BY DEF InHand
        <5> HIDE DEF busy
        <5> QED
          BY <4>1, <5>1, <5>2, <5>3, <5>4
      <4>7. CASE exceptions[b] >= 1
        <5>1. InHand(b)' + 1 <= InHand(b) /\ InHand(b)' \in Int
          BY <4>1, <4>6, <4>7
        <5>2. InHand(b)' + Voids(b)' + Doubt(b)' <= Resets(b)' + Claim(b)'
          BY <4>1, <4>2, <4>3, <4>4, <4>5, <5>1
        <5> QED
          BY <5>2 DEF Account
      <4>8. CASE ~(exceptions[b] >= 1)
        <5>1. InHand(b) = 0
          BY <2>1, <3>1, <4>8 DEF StrandInv
        <5>2. InHand(b)' = 0 /\ Voids(b)' = 0
          BY <4>1, <4>5, <4>6, <4>8, <5>1
        <5>3. Resets(b) >= 0
          BY <4>1 DEF Resets, StrandInv
        <5>4. InHand(b)' + Voids(b)' + Doubt(b)' <= Resets(b)' + Claim(b)'
          BY <4>1, <4>3, <4>4, <5>2, <5>3
        <5> QED
          BY <5>4 DEF Account
      <4> QED
        BY <4>7, <4>8
    <3>2. ASSUME NEW b \in Branches, b # dat PROVE Account(b)'
      <4>1. exceptions'[b] = exceptions[b]
        BY <2>3, <3>2 DEF TypeOK
      <4>2. InHand(b)' + Voids(b)' <= InHand(b) + Voids(b)
        BY <1>1, <4>1, HandKept
      <4>3. Doubt(b)' = Doubt(b) /\ Claim(b)' = Claim(b)
        BY <2>1, <2>3, <3>2 DEF Doubt, Claim, Unsettled, Pushing
      <4>4. Doubt(b)' <= Doubt(b) /\ Claim(b) <= Claim(b)' /\ Resets(b) <= Resets(b)'
        <5>1. Resets(b)' = Resets(b)
          BY <1>2
        <5> QED
          BY <4>3, <5>1, HandsAreNumbers DEF HandNumbers
      <4> QED
        BY <4>2, <4>4, AccountKept DEF StrandInv
    <3>3. (\A b \in Branches : Account(b))'
      BY <3>1, <3>2
    <3> QED
      BY <1>1, <2>3, <3>3 DEF StrandInv, Pushing
  <2> QED
    BY <1>5, <2>2, <2>3 DEF ClearExceptions
<1> QED
  BY <1>3, <1>4, <1>5

LEMMA StrandDispatcher ==
  ASSUME TypeOK, TypeOK', SpawnInv, StrandInv, Dispatcher PROVE StrandInv'
<1> USE DEF slots, pool, disp, workers, stopper, history
<1>1. ASSUME /\ UNCHANGED <<status, data, stops, spc, sleft, queue, exceptions, work>>
             /\ \A b \in Branches : \/ wpc'[b] = wpc[b]
                                    \/ wpc[b] = "none" /\ wpc'[b] = "idle"
             /\ dpc \notin {"settle", "count", "clear"} /\ dpc' \notin {"settle", "count", "clear"}
             /\ Pushing' => /\ status[dat'] # "Running"
                            /\ data[dat'] # Null \/ (Pushing /\ dat' = dat)
      PROVE  StrandInv'
  <2>1. ASSUME NEW b \in Branches PROVE Account(b)'
    <3>1. InHand(b)' + Voids(b)' <= InHand(b) + Voids(b)
      BY <1>1, HandKept
    <3>2. Doubt(b)' = 1 => Doubt(b) = 1
      BY <1>1 DEF Doubt, Pushing
    <3>3. Claim(b)' = Claim(b)
      BY <1>1 DEF Claim, Unsettled
    <3>4. Resets(b)' = Resets(b)
      BY <1>1 DEF Resets
    <3>5. Doubt(b) \in {0, 1} /\ Doubt(b)' \in {0, 1}
      BY HandsAreNumbers, HandsStayNumbers DEF HandNumbers
    <3>6. Doubt(b)' <= Doubt(b)
      BY <3>2, <3>5
    <3>7. Claim(b) <= Claim(b)' /\ Resets(b) <= Resets(b)'
      BY <3>3, <3>4, HandsAreNumbers DEF HandNumbers
    <3> QED
      BY <3>1, <3>6, <3>7, AccountKept DEF StrandInv
  <2>2. (\A b \in Branches : Account(b))'
    BY <2>1
  <2>3. Pushing' => status'[dat'] # "Running"
    BY <1>1
  <2> QED
    BY <1>1, <2>2, <2>3 DEF StrandInv
<1>2. CASE \/ StartIteration \/ LeaveLoop \/ StartDispatch \/ EndIteration
           \/ \E b \in Branches : ScanQuietBranch(b) \/ SkipBranch(b)
  BY <1>1, <1>2 DEF StartIteration, LeaveLoop, StartDispatch, EndIteration, ScanQuietBranch,
                    SkipBranch, Pushing
<1>3. ASSUME NEW b \in Branches, ChooseBranch(b) PROVE StrandInv'
  BY <1>1, <1>3 DEF ChooseBranch, IsReady, Pushing
<1>4. CASE AssertBranch \/ MarkWorkerRunning
  BY <1>1, <1>4 DEF AssertBranch, MarkWorkerRunning, StrandInv, Pushing
<1>5. CASE SpawnWorker
  <2>1. dat \in Branches /\ wpc[dat] = "none" /\ wpc' = [wpc EXCEPT ![dat] = "idle"]
    BY <1>5 DEF TypeOK, SpawnInv, SpawnWorker
  <2>2. \A b \in Branches : wpc'[b] = wpc[b] \/ (wpc[b] = "none" /\ wpc'[b] = "idle")
    BY <2>1 DEF TypeOK
  <2> QED
    BY <1>1, <1>5, <2>2 DEF SpawnWorker, StrandInv, Pushing
<1> QED
  BY <1>2, <1>3, <1>4, <1>5, StrandPush, StrandExceptions DEF Dispatcher

LEMMA StrandNext ==
  ASSUME Policy # "ParallelWait", TypeOK, TypeOK', SpawnInv, StrandInv, [Next]_vars
  PROVE  StrandInv'
<1>1. CASE UNCHANGED vars
  BY <1>1 DEF vars, slots, pool, disp, workers, stopper, StrandInv, Account, InHand, Voids,
              NullsIn, Doubt, Claim, Unsettled, Resets, Pushing
<1>2. CASE Next
  BY <1>2, StrandSubmitter, StrandDispatcher, StrandWorker, StrandStopper DEF Next
<1> QED
  BY <1>1, <1>2

(* thread_pool_stop_impl resets the slots under the dispatcher's hands, and *)
(* add_data starts a worker again that stop() has just stopped: for every   *)
(* tree, however often stop() is called, each call leaves a branch at most  *)
(* one frame, pointer or exception that its status does not show.           *)
THEOREM StopsLeaveOneEach == Spec => []StopsStrandOneEach
<1> DEFINE NoWait == Policy # "ParallelWait"
           IInv == NoWait => StrandInv
<1>1. Init => IInv
  BY StrandInit
<1>2. TypeOK /\ TypeOK' /\ SpawnInv /\ IInv /\ [Next]_vars => IInv'
  BY StrandNext
<1>3. TypeOK /\ IInv => StopsStrandOneEach
  <2> SUFFICES ASSUME TypeOK, NoWait, StrandInv, NEW b \in Branches
               PROVE  InHand(b) <= 1 + stops
    BY DEF StopsStrandOneEach
  <2>1. InHand(b) + Voids(b) + Doubt(b) <= Resets(b) + Claim(b)
    BY DEF StrandInv, Account
  <2>2. /\ InHand(b) \in Nat /\ Voids(b) \in Nat /\ Doubt(b) \in {0, 1} /\ Claim(b) \in {0, 1}
        /\ Resets(b) \in {stops, stops - 1} /\ stops \in Nat
    BY HandsAreNumbers DEF HandNumbers
  <2> QED
    BY <2>1, <2>2
<1> HIDE DEF IInv
<1> QED
  BY <1>1, <1>2, <1>3, SpawnInvariant, PTL DEF Spec
============================================================================
