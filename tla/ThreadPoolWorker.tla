-------------------------- MODULE ThreadPoolWorker --------------------------
(***************************************************************************)
(* ThreadPoolWorker (src/src/core/threading/thread_pool_worker.hpp): a     *)
(* thread with a queue, at the granularity of its condition variables.     *)
(*                                                                         *)
(* Three threads meet here: the worker; a feeder that calls add_data (the  *)
(* dispatcher of a pipeline); and an owner that calls stop_worker, pause   *)
(* and continue_reading.  A wait is: evaluate the predicate with the mutex *)
(* held, block (which releases it), be notified, take the mutex again.     *)
(* A notify wakes a thread that is blocked and is lost on any other.       *)
(* Data are numbered in the order of their add_data.                       *)
(***************************************************************************)
EXTENDS Naturals, Sequences

CONSTANTS
  MaxData,    (* bound: calls of add_data      *)
  MaxStops,   (* bound: calls of stop_worker   *)
  MaxPauses,  (* bound: calls of pause         *)
  MayThrow    (* whether thread_pool_worker_process_data may throw *)

ASSUME BoundsAreNaturals ==
  MaxData \in Nat /\ MaxStops \in Nat /\ MaxPauses \in Nat /\ MayThrow \in BOOLEAN

VARIABLES
  isRunning,    (* m_is_running                                     *)
  needStop,     (* m_need_stop                                      *)
  reading,      (* m_continue_reading                               *)
  queue,        (* m_data                                           *)
  exceptions,   (* size of m_exception_ptrs                         *)
  wpc, item,    (* the worker: control point, datum in hand         *)
  taken,        (* history: the last datum the worker took          *)
  fpc, added,   (* the feeder: control point, add_data calls so far *)
  opc, stops, pauses, (* the owner: control point, calls so far     *)
  fence,        (* history: the data added before the last stop_worker set  *)
                (* m_need_stop, once that call has returned                 *)
  mark          (* history: the same for a stop_worker under way            *)

flags == <<isRunning, needStop, reading>>
worker == <<wpc, item, taken>>
feeder == <<fpc, added>>
owner == <<opc, stops, pauses>>
history == <<fence, mark>>
vars == <<flags, queue, exceptions, worker, feeder, owner, history>>

WorkerPoints == {"none", "top", "read", "read-block", "read-asleep",
                 "data", "data-block", "data-asleep", "process", "notify",
                 "catch", "exited"}
FeederPoints == {"idle", "run", "running", "reading", "push", "notify"}
OwnerPoints == {"idle", "wake-read", "wake-data", "join", "reset",
                "not-running", "unset", "wake-pause"}

TypeOK ==
  /\ isRunning \in BOOLEAN /\ needStop \in BOOLEAN /\ reading \in BOOLEAN
  /\ queue \in Seq(1 .. MaxData)
  /\ exceptions \in Nat
  /\ wpc \in WorkerPoints /\ item \in 0 .. MaxData /\ taken \in 0 .. MaxData
  /\ fpc \in FeederPoints /\ added \in 0 .. MaxData
  /\ opc \in OwnerPoints /\ stops \in 0 .. MaxStops /\ pauses \in 0 .. MaxPauses
  /\ fence \in 0 .. MaxData /\ mark \in 0 .. MaxData

Init ==
  /\ isRunning = FALSE /\ needStop = FALSE /\ reading = TRUE
  /\ queue = <<>> /\ exceptions = 0
  /\ wpc = "none" /\ item = 0 /\ taken = 0
  /\ fpc = "idle" /\ added = 0
  /\ opc = "idle" /\ stops = 0 /\ pauses = 0
  /\ fence = 0 /\ mark = 0

(* The data that have been put into the queue: not the one add_data holds.  *)
Pushed == IF fpc \in {"run", "running", "reading", "push"} THEN added - 1 ELSE added

(* The worker holds m_data_guard from the lock that precedes the wait until *)
(* it blocks; evaluating the predicate and popping are single steps.        *)
DataGuardFree == wpc # "data-block"

----------------------------------------------------------------------------
(* add_data, with the run_worker it calls.                                 *)

AddData ==
  /\ fpc = "idle" /\ added < MaxData
  /\ added' = added + 1
  /\ fpc' = IF isRunning THEN "push" ELSE "run"
  /\ UNCHANGED <<flags, queue, exceptions, worker, owner, history>>

CreateThread ==
  /\ fpc = "run"
  /\ wpc' = "top"
  /\ fpc' = "running"
  /\ UNCHANGED <<flags, queue, exceptions, item, taken, added, owner, history>>

SetRunning ==
  /\ fpc = "running"
  /\ isRunning' = TRUE
  /\ fpc' = "reading"
  /\ UNCHANGED <<needStop, reading, queue, exceptions, worker, added, owner,
                 history>>

SetReading ==
  /\ fpc = "reading"
  /\ reading' = TRUE
  /\ fpc' = "push"
  /\ UNCHANGED <<isRunning, needStop, queue, exceptions, worker, added, owner,
                 history>>

MutPushUnlocked ==
  /\ fpc = "push"
  /\ queue' = Append(queue, added)
  /\ fpc' = "notify"
  /\ UNCHANGED <<flags, exceptions, worker, added, owner, history>>

MutPushMovedFrom ==
  /\ fpc = "push"
  /\ DataGuardFree
  /\ queue' = Append(queue, 0)
  /\ fpc' = "notify"
  /\ UNCHANGED <<flags, exceptions, worker, added, owner, history>>

Push ==
  /\ fpc = "push"
  /\ DataGuardFree
  /\ queue' = Append(queue, added)
  /\ fpc' = "notify"
  /\ UNCHANGED <<flags, exceptions, worker, added, owner, history>>

MutNotifyDataWakesRead ==
  /\ fpc = "notify"
  /\ wpc' = IF wpc = "read-asleep" THEN "read" ELSE wpc
  /\ fpc' = "idle"
  /\ UNCHANGED <<flags, queue, exceptions, item, taken, added, owner, history>>

NotifyData ==
  /\ fpc = "notify"
  /\ wpc' = IF wpc = "data-asleep" THEN "data" ELSE wpc
  /\ fpc' = "idle"
  /\ UNCHANGED <<flags, queue, exceptions, item, taken, added, owner, history>>

Feeder ==
  AddData \/ CreateThread \/ SetRunning \/ SetReading \/ Push \/ NotifyData

----------------------------------------------------------------------------
(* worker_thread.                                                          *)

WorkerStep(from, to) ==
  /\ wpc = from
  /\ wpc' = to
  /\ UNCHANGED <<flags, queue, exceptions, item, taken, feeder, owner, history>>

(* while (!m_need_stop)                                                     *)
Loop ==
  \/ needStop /\ WorkerStep("top", "exited")
  \/ ~needStop /\ WorkerStep("top", "read")

(* m_read_cnd.wait: nobody else ever takes m_read_guard.                    *)
ReadWait ==
  \/ needStop /\ WorkerStep("read", "top")
  \/ ~needStop /\ reading /\ WorkerStep("read", "data")
  \/ ~needStop /\ ~reading /\ WorkerStep("read", "read-block")
  \/ WorkerStep("read-block", "read-asleep")

(* m_data_cnd.wait, and the pop that follows it under m_data_guard.         *)
DataWait ==
  \/ needStop /\ WorkerStep("data", "top")
  \/ ~needStop /\ queue = <<>> /\ WorkerStep("data", "data-block")
  \/ WorkerStep("data-block", "data-asleep")

MutPopBack ==
  /\ wpc = "data" /\ ~needStop /\ queue # <<>>
  /\ item' = queue[Len(queue)] /\ taken' = queue[Len(queue)]
  /\ queue' = Tail(queue)
  /\ wpc' = "process"
  /\ UNCHANGED <<flags, exceptions, feeder, owner, history>>

Pop ==
  /\ wpc = "data" /\ ~needStop /\ queue # <<>>
  /\ item' = Head(queue) /\ taken' = Head(queue)
  /\ queue' = Tail(queue)
  /\ wpc' = "process"
  /\ UNCHANGED <<flags, exceptions, feeder, owner, history>>

(* thread_pool_worker_process_data, then on_finished of the observers.      *)
Process ==
  \/ WorkerStep("process", "notify")
  \/ MayThrow /\ WorkerStep("process", "catch")

Finish ==
  /\ wpc = "notify"
  /\ wpc' = "top" /\ item' = 0
  /\ UNCHANGED <<taken, flags, queue, exceptions, feeder, owner, history>>

Catch ==
  /\ wpc = "catch"
  /\ exceptions' = exceptions + 1
  /\ wpc' = "top" /\ item' = 0
  /\ UNCHANGED <<taken, flags, queue, feeder, owner, history>>

Worker ==
  Loop \/ ReadWait \/ DataWait \/ Pop \/ Process \/ Finish \/ Catch

(* A condition variable may wake a thread that nobody notified.             *)
SpuriousWakeup ==
  WorkerStep("read-asleep", "read") \/ WorkerStep("data-asleep", "data")

----------------------------------------------------------------------------
(* stop_worker: the flag is set and both conditions notified without the    *)
(* mutexes under which the worker evaluates its predicates.                 *)

WakeReader == IF wpc = "read-asleep" THEN "read" ELSE wpc

StopWorker ==
  /\ opc = "idle" /\ stops < MaxStops
  /\ isRunning
  /\ needStop' = TRUE
  /\ stops' = stops + 1
  /\ opc' = "wake-read"
  /\ mark' = Pushed
  /\ UNCHANGED <<isRunning, reading, queue, exceptions, worker, feeder, pauses,
                 fence>>

StopNotifiesRead ==
  /\ opc = "wake-read"
  /\ wpc' = WakeReader
  /\ opc' = "wake-data"
  /\ UNCHANGED <<flags, queue, exceptions, item, taken, feeder, stops, pauses, history>>

StopNotifiesData ==
  /\ opc = "wake-data"
  /\ wpc' = IF wpc = "data-asleep" THEN "data" ELSE wpc
  /\ opc' = "join"
  /\ UNCHANGED <<flags, queue, exceptions, item, taken, feeder, stops, pauses, history>>

Join ==
  /\ opc = "join" /\ wpc = "exited"
  /\ wpc' = "none"
  /\ opc' = "reset"
  /\ UNCHANGED <<flags, queue, exceptions, item, taken, feeder, stops, pauses, history>>

MutResetKeepsData ==
  /\ opc = "reset"
  /\ exceptions' = 0
  /\ opc' = "not-running"
  /\ UNCHANGED <<flags, queue, worker, feeder, stops, pauses, history>>

ResetData ==
  /\ opc = "reset"
  /\ queue' = <<>> /\ exceptions' = 0
  /\ opc' = "not-running"
  /\ UNCHANGED <<flags, worker, feeder, stops, pauses, history>>

SetNotRunning ==
  /\ opc = "not-running"
  /\ isRunning' = FALSE
  /\ opc' = "unset"
  /\ UNCHANGED <<needStop, reading, queue, exceptions, worker, feeder, stops,
                 pauses, history>>

UnsetNeedStop ==
  /\ opc = "unset"
  /\ needStop' = FALSE
  /\ opc' = "idle"
  /\ fence' = mark
  /\ UNCHANGED <<isRunning, reading, queue, exceptions, worker, feeder, stops,
                 pauses, mark>>

Pause ==
  /\ opc = "idle" /\ pauses < MaxPauses
  /\ reading' = FALSE
  /\ pauses' = pauses + 1
  /\ opc' = "wake-pause"
  /\ UNCHANGED <<isRunning, needStop, queue, exceptions, worker, feeder, stops,
                 history>>

ContinueReading ==
  /\ opc = "idle" /\ pauses > 0
  /\ ~reading
  /\ reading' = TRUE
  /\ opc' = "wake-pause"
  /\ UNCHANGED <<isRunning, needStop, queue, exceptions, worker, feeder, stops,
                 pauses, history>>

NotifyRead ==
  /\ opc = "wake-pause"
  /\ wpc' = WakeReader
  /\ opc' = "idle"
  /\ UNCHANGED <<flags, queue, exceptions, item, taken, feeder, stops, pauses, history>>

Owner ==
  \/ StopWorker \/ StopNotifiesRead \/ StopNotifiesData \/ Join \/ ResetData
  \/ SetNotRunning \/ UnsetNeedStop \/ Pause \/ ContinueReading \/ NotifyRead

----------------------------------------------------------------------------

Next == Feeder \/ Worker \/ SpuriousWakeup \/ Owner

Spec == Init /\ [][Next]_vars

(* Every thread that can run does, and std::mutex does not starve add_data  *)
(* while spurious wakeups make the worker take m_data_guard over and over;  *)
(* nobody is obliged to call anything, no spurious wakeup is owed to anyone.*)
FairSpec ==
  /\ Spec
  /\ WF_vars(Worker)
  /\ SF_vars(Push)
  /\ WF_vars(fpc # "idle" /\ Feeder)
  /\ WF_vars(opc # "idle" /\ Owner)

----------------------------------------------------------------------------
(* Properties.                                                             *)

(* Data are taken in the order of add_data, each once: across stops,        *)
(* restarts, pauses and exceptions, what waits is newer than what was taken.*)
TakesInOrder ==
  /\ \A i \in DOMAIN queue : queue[i] > taken
  /\ \A i, j \in DOMAIN queue : i < j => queue[i] < queue[j]

(* The worker never sleeps over data unless add_data is about to notify it: *)
(* the push is done under the mutex of the predicate.                       *)
NoSleepOverData ==
  queue # <<>> /\ wpc \in {"data-block", "data-asleep"} => fpc = "notify"

(* What was in the queue when stop_worker raised m_need_stop is processed   *)
(* before that call returns or never, whatever add_data does meanwhile.     *)
StopDropsEarlierData ==
  /\ \A i \in DOMAIN queue : queue[i] > fence
  /\ item # 0 => item > fence

(* A worker that nobody stops or pauses takes every datum.                  *)
EveryDatumIsTaken ==
  \A d \in 1 .. MaxData :
    added >= d ~> taken >= d \/ stops > 0 \/ pauses > 0

(* multi_branch_frame_pipeline_tests.cpp:92-108 destroys a pipeline right   *)
(* after its first frame and expects to get to the end of the test: the     *)
(* destructor's stop_worker returns.                                        *)
StopReturns == opc = "join" ~> opc # "join"
=============================================================================
