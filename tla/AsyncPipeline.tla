--------------------------- MODULE AsyncPipeline ---------------------------
(***************************************************************************)
(* AsyncPipeline and the ThreadPool it is built on                         *)
(* (src/src/proc/pipeline/async, src/src/core/threading/thread_pool.hpp).  *)
(*                                                                         *)
(* One dispatcher thread scans the branches; each branch has a worker      *)
(* thread with a queue; callers submit frames to the root branch; another  *)
(* thread may stop the pool.  m_branches_data_guard is held by the         *)
(* dispatcher for a whole iteration, by on_finished and by                 *)
(* add_process_data, and not by thread_pool_stop_impl.                     *)
(*                                                                         *)
(* A frame is the number of its acceptance, Null is an empty pointer.  The *)
(* condition variables inside a worker are the subject of                  *)
(* ThreadPoolWorker: here an idle worker sees its queue and its stop flag. *)
(***************************************************************************)
EXTENDS Naturals, Sequences

CONSTANTS
  Branches,    (* ids of the branches                                       *)
  Root,        (* get_root_id(): the branch of the input node               *)
  Children,    (* Children[b]: the children of the last node of b           *)
  Policy,      (* m_settings.sync_policy                                    *)
  Failing,     (* branches with a node whose process() may throw            *)
  Submitters,  (* threads that call add_process_data                        *)
  MaxFrames,   (* bound: frames accepted in a behaviour                     *)
  MaxStops     (* bound: calls of stop() in a behaviour                     *)

(* What GraphSettings::one_parent asks for.  Nothing enforces it: the check  *)
(* in BaseGraph::is_valid has no caller.  init_branches cuts a branch where  *)
(* a node has several children; the tree may have any depth.                *)
ASSUME BranchesAreATree ==
  /\ Root \in Branches
  /\ Children \in [Branches -> SUBSET Branches]
  /\ \A b \in Branches : Root \notin Children[b] /\ b \notin Children[b]
  /\ \A p, q \in Branches : p # q => Children[p] \cap Children[q] = {}

ASSUME PolicyIsKnown == Policy \in {"Sync", "ParallelWait", "ParallelNoWait"}
ASSUME FailingAreBranches == Failing \subseteq Branches
ASSUME BoundsAreNaturals == MaxFrames \in Nat /\ MaxStops \in Nat

Null == 0
Absent == MaxFrames + 1   \* no entry in m_output_branches_data
Frames == 1 .. MaxFrames

VARIABLES
  (* AsyncPipeline, under m_branches_data_guard unless stop() is running *)
  status,       (* m_branches_data[b].status                               *)
  data,         (* m_branches_data[b].data_to_process                      *)
  output,       (* m_output_branches_data[b]                               *)
  posted,       (* the map last handed to the observers                    *)
  (* ThreadPool *)
  isRunning,    (* m_is_running                                            *)
  needStop,     (* m_need_stop                                             *)
  dpc, dleft, dat, dcount, dready,  (* the dispatcher: control point,      *)
                (* branches left to visit, branch in hand (Root if none),  *)
                (* exceptions counted, ready_for_wait_iteration            *)
  (* ThreadPoolWorker, one per branch *)
  running,      (* m_is_running                                            *)
  stopping,     (* m_need_stop                                             *)
  queue,        (* m_data                                                  *)
  exceptions,   (* size of m_exception_ptrs                                *)
  wpc, work,    (* the worker thread: control point, frame in hand         *)
  (* the threads that call the pipeline *)
  sub,          (* sub[s]: control point of a thread in add_process_data   *)
  spc, sleft, sat, stops, (* the thread in stop()                          *)
  (* history *)
  accepted, begun, finished,
  aborted       (* why std::terminate (or worse) ended the process         *)

slots   == <<status, data, output, posted>>
pool    == <<isRunning, needStop>>
disp    == <<dpc, dleft, dat, dcount, dready>>
workers == <<running, stopping, queue, exceptions, wpc, work>>
stopper == <<spc, sleft, sat, stops>>
history == <<accepted, begun, finished>>
vars == <<slots, pool, disp, workers, sub, stopper, history, aborted>>

----------------------------------------------------------------------------
(* Types.  wpc "none" is a std::thread that is not joinable.               *)

Statuses == {"Ready", "Running", "Finished"}
DispatcherPoints == {"none", "loop", "scan", "count", "clear", "dispatch",
                     "check", "spawn", "mark", "push", "settle", "exited"}
WorkerPoints == {"none", "idle", "process", "done", "notify", "catch", "exited"}
StopPoints == {"idle", "branches", "join", "reset", "unmark", "unset",
               "slots", "pool"}
Aborts == {"no", "assert", "runaway", "two dispatchers", "empty data"}

TypeOK ==
  /\ status \in [Branches -> Statuses]
  /\ data \in [Branches -> Frames \cup {Null}]
  /\ output \in [Branches -> Frames \cup {Null, Absent}]
  /\ posted \in [Branches -> Frames \cup {Absent}]
  /\ isRunning \in BOOLEAN /\ needStop \in BOOLEAN
  /\ dpc \in DispatcherPoints /\ dleft \subseteq Branches
  /\ dat \in Branches /\ dcount \in Nat /\ dready \in BOOLEAN
  /\ running \in [Branches -> BOOLEAN] /\ stopping \in [Branches -> BOOLEAN]
  /\ queue \in [Branches -> Seq(Frames \cup {Null})]
  /\ exceptions \in [Branches -> Nat]
  /\ wpc \in [Branches -> WorkerPoints]
  /\ work \in [Branches -> Frames \cup {Null}]
  /\ sub \in [Submitters -> {"idle", "run", "mark", "add"}]
  /\ spc \in StopPoints /\ sleft \subseteq Branches
  /\ sat \in Branches /\ stops \in 0 .. MaxStops
  /\ accepted \in 0 .. MaxFrames
  /\ begun \in [Branches -> Frames \cup {Null}]
  /\ finished \in [Branches -> SUBSET Frames]
  /\ aborted \in Aborts

Init ==
  /\ status = [b \in Branches |-> "Finished"]
  /\ data = [b \in Branches |-> Null]
  /\ output = [b \in Branches |-> Absent]
  /\ posted = [b \in Branches |-> Absent]
  /\ isRunning = FALSE /\ needStop = FALSE
  /\ dpc = "none" /\ dleft = {} /\ dat = Root /\ dcount = 0 /\ dready = FALSE
  /\ running = [b \in Branches |-> FALSE]
  /\ stopping = [b \in Branches |-> FALSE]
  /\ queue = [b \in Branches |-> <<>>]
  /\ exceptions = [b \in Branches |-> 0]
  /\ wpc = [b \in Branches |-> "none"]
  /\ work = [b \in Branches |-> Null]
  /\ sub = [s \in Submitters |-> "idle"]
  /\ spc = "idle" /\ sleft = {} /\ sat = Root /\ stops = 0
  /\ accepted = 0
  /\ begun = [b \in Branches |-> Null]
  /\ finished = [b \in Branches |-> {}]
  /\ aborted = "no"

(* The dispatcher holds m_branches_data_guard during an iteration; the      *)
(* other critical sections are single steps.                                *)
GuardFree == dpc \in {"none", "loop", "exited"}

Abort(reason) == aborted' = reason

----------------------------------------------------------------------------
(* add_process_data: run() unless running, then fill the root's slot.      *)

Submit(s) ==
  /\ sub[s] = "idle"
  /\ accepted < MaxFrames
  /\ sub' = [sub EXCEPT ![s] = IF isRunning THEN "add" ELSE "run"]
  /\ UNCHANGED <<slots, pool, disp, workers, stopper, history, aborted>>

(* ThreadPool::run tests and sets m_is_running in separate steps; to assign *)
(* to m_worker while it is joinable is std::terminate.                      *)
RunRefused(s) ==
  /\ sub[s] = "run"
  /\ isRunning
  /\ sub' = [sub EXCEPT ![s] = "add"]
  /\ UNCHANGED <<slots, pool, disp, workers, stopper, history, aborted>>

Run(s) ==
  /\ sub[s] = "run"
  /\ ~isRunning
  /\ needStop' = FALSE
  /\ \/ /\ dpc = "none"
        /\ dpc' = "loop"
        /\ sub' = [sub EXCEPT ![s] = "mark"]
        /\ UNCHANGED aborted
     \/ /\ dpc # "none"
        /\ Abort("two dispatchers")
        /\ UNCHANGED <<dpc, sub>>
  /\ UNCHANGED <<slots, isRunning, dleft, dat, dcount, dready, workers,
                 stopper, history>>

MarkPoolRunning(s) ==
  /\ sub[s] = "mark"
  /\ isRunning' = TRUE
  /\ sub' = [sub EXCEPT ![s] = "add"]
  /\ UNCHANGED <<slots, needStop, disp, workers, stopper, history, aborted>>

MutAddProcessDataAnyhow(s) ==
  /\ sub[s] = "add"
  /\ GuardFree
  /\ accepted < MaxFrames
  /\ accepted' = accepted + 1
  /\ data' = [data EXCEPT ![Root] = accepted + 1]
  /\ status' = [status EXCEPT ![Root] = "Ready"]
  /\ sub' = [sub EXCEPT ![s] = "idle"]
  /\ UNCHANGED <<output, posted, pool, disp, workers, stopper, begun,
                 finished, aborted>>

AddProcessData(s) ==
  /\ sub[s] = "add"
  /\ GuardFree
  /\ \/ /\ status[Root] = "Finished"
        /\ accepted < MaxFrames
        /\ accepted' = accepted + 1
        /\ data' = [data EXCEPT ![Root] = accepted + 1]
        /\ status' = [status EXCEPT ![Root] = "Ready"]
     \/ /\ status[Root] # "Finished"
        /\ UNCHANGED <<accepted, data, status>>
  /\ sub' = [sub EXCEPT ![s] = "idle"]
  /\ UNCHANGED <<output, posted, pool, disp, workers, stopper, begun,
                 finished, aborted>>

----------------------------------------------------------------------------
(* The dispatcher: thread_pool_iteration under the guard.                  *)

StartIteration ==
  /\ dpc = "loop"
  /\ ~needStop
  /\ dpc' = "scan"
  /\ dleft' = Branches
  /\ UNCHANGED <<slots, pool, dat, dcount, dready, workers, sub, stopper,
                 history, aborted>>

LeaveLoop ==
  /\ dpc = "loop"
  /\ needStop
  /\ dpc' = "exited"
  /\ UNCHANGED <<slots, pool, dleft, dat, dcount, dready, workers, sub,
                 stopper, history, aborted>>

ScanQuietBranch(b) ==
  /\ dpc = "scan" /\ b \in dleft
  /\ exceptions[b] = 0
  /\ dleft' = dleft \ {b}
  /\ UNCHANGED <<slots, pool, dpc, dat, dcount, dready, workers, sub,
                 stopper, history, aborted>>

(* A branch with exceptions is declared Finished and loses its data.        *)
MutExceptionKeepsStatus(b) ==
  /\ dpc = "scan" /\ b \in dleft
  /\ exceptions[b] > 0
  /\ dleft' = dleft \ {b}
  /\ dat' = b
  /\ dpc' = "count"
  /\ data' = [data EXCEPT ![b] = Null]
  /\ output' = [output EXCEPT ![b] = Null]
  /\ UNCHANGED <<status, posted, pool, dcount, dready, workers, sub, stopper,
                 history, aborted>>

HandleExceptions(b) ==
  /\ dpc = "scan" /\ b \in dleft
  /\ exceptions[b] > 0
  /\ dleft' = dleft \ {b}
  /\ dat' = b
  /\ dpc' = "count"
  /\ status' = [status EXCEPT ![b] = "Finished"]
  /\ data' = [data EXCEPT ![b] = Null]
  /\ output' = [output EXCEPT ![b] = Null]
  /\ UNCHANGED <<posted, pool, dcount, dready, workers, sub, stopper,
                 history, aborted>>

(* reset_exceptions: the size is read in one critical section and the queue *)
(* cleared in another.  The loop that should keep what was pushed between   *)
(* them never ends by its condition: at() throws out of the dispatcher.     *)
CountExceptions ==
  /\ dpc = "count"
  /\ dcount' = exceptions[dat]
  /\ dpc' = "clear"
  /\ UNCHANGED <<slots, pool, dleft, dat, dready, workers, sub, stopper,
                 history, aborted>>

MutClearOneMore ==
  /\ dpc = "clear"
  /\ exceptions' = [exceptions EXCEPT ![dat] = @ - (dcount + 1)]
  /\ dpc' = "scan" /\ dat' = Root /\ dcount' = 0
  /\ UNCHANGED <<slots, pool, dleft, dready, running, stopping, queue,
                 wpc, work, sub, stopper, history, aborted>>

ClearExceptions ==
  /\ dpc = "clear"
  /\ \/ /\ exceptions[dat] <= dcount
        /\ exceptions' = [exceptions EXCEPT ![dat] = 0]
        /\ dpc' = "scan" /\ dat' = Root
        /\ UNCHANGED aborted
     \/ /\ exceptions[dat] > dcount
        /\ Abort("runaway")
        /\ UNCHANGED <<exceptions, dpc, dat>>
  /\ dcount' = 0
  /\ UNCHANGED <<slots, pool, dleft, dready, running, stopping, queue,
                 wpc, work, sub, stopper, history>>

(* all_of over m_branches_data: the root has input, the others are done.    *)
AllWaiting ==
  /\ status[Root] = "Ready"
  /\ \A b \in Branches \ {Root} : status[b] = "Finished"

StartDispatch ==
  /\ dpc = "scan" /\ dleft = {}
  /\ dready' = (Policy # "ParallelWait" \/ AllWaiting)
  /\ dpc' = "dispatch"
  /\ dleft' = Branches
  /\ UNCHANGED <<slots, pool, dat, dcount, workers, sub, stopper, history,
                 aborted>>

IsReady(b) ==
  /\ status[b] = "Ready" /\ data[b] # Null
  /\ Policy = "ParallelWait" => b # Root \/ dready

SkipBranch(b) ==
  /\ dpc = "dispatch" /\ b \in dleft
  /\ ~IsReady(b)
  /\ dleft' = dleft \ {b}
  /\ UNCHANGED <<slots, pool, dpc, dat, dcount, dready, workers, sub,
                 stopper, history, aborted>>

ChooseBranch(b) ==
  /\ dpc = "dispatch" /\ b \in dleft
  /\ IsReady(b)
  /\ dleft' = dleft \ {b}
  /\ dat' = b
  /\ dpc' = "check"
  /\ UNCHANGED <<slots, pool, dcount, dready, workers, sub, stopper, history,
                 aborted>>

(* STEP_ASSERT, then the test of m_is_running in add_data.                  *)
AssertBranch ==
  /\ dpc = "check"
  /\ \/ /\ status[dat] = "Ready" /\ data[dat] # Null
        /\ dpc' = IF running[dat] THEN "push" ELSE "spawn"
        /\ UNCHANGED aborted
     \/ /\ ~(status[dat] = "Ready" /\ data[dat] # Null)
        /\ Abort("assert")
        /\ UNCHANGED dpc
  /\ UNCHANGED <<slots, pool, dleft, dat, dcount, dready, workers, sub,
                 stopper, history>>

(* run_worker creates the thread before it sets m_is_running.               *)
SpawnWorker ==
  /\ dpc = "spawn"
  /\ wpc' = [wpc EXCEPT ![dat] = "idle"]
  /\ dpc' = "mark"
  /\ UNCHANGED <<slots, pool, dleft, dat, dcount, dready, running, stopping,
                 queue, exceptions, work, sub, stopper, history, aborted>>

MarkWorkerRunning ==
  /\ dpc = "mark"
  /\ running' = [running EXCEPT ![dat] = TRUE]
  /\ dpc' = "push"
  /\ UNCHANGED <<slots, pool, dleft, dat, dcount, dready, stopping, queue,
                 exceptions, wpc, work, sub, stopper, history, aborted>>

(* add_data moves the pointer out of the slot into the queue.               *)
PushData ==
  /\ dpc = "push"
  /\ queue' = [queue EXCEPT ![dat] = Append(@, data[dat])]
  /\ data' = [data EXCEPT ![dat] = Null]
  /\ dpc' = "settle"
  /\ UNCHANGED <<status, output, posted, pool, dleft, dat, dcount, dready,
                 running, stopping, exceptions, wpc, work, sub, stopper,
                 history, aborted>>

MutSettleKeepsReady ==
  /\ dpc = "settle"
  /\ data' = [data EXCEPT ![dat] = Null]
  /\ output' = [output EXCEPT ![dat] = Null]
  /\ dpc' = "dispatch" /\ dat' = Root
  /\ UNCHANGED <<status, posted, pool, dleft, dcount, dready, workers,
                 sub, stopper, history, aborted>>

SettleBranch ==
  /\ dpc = "settle"
  /\ status' = [status EXCEPT ![dat] = "Running"]
  /\ data' = [data EXCEPT ![dat] = Null]
  /\ output' = [output EXCEPT ![dat] = Null]
  /\ dpc' = "dispatch" /\ dat' = Root
  /\ UNCHANGED <<posted, pool, dleft, dcount, dready, workers, sub,
                 stopper, history, aborted>>

EndIteration ==
  /\ dpc = "dispatch" /\ dleft = {}
  /\ dpc' = "loop"
  /\ dready' = FALSE
  /\ UNCHANGED <<slots, pool, dleft, dat, dcount, workers, sub, stopper,
                 history, aborted>>

Dispatcher ==
  \/ StartIteration \/ LeaveLoop
  \/ \E b \in Branches : \/ ScanQuietBranch(b) \/ HandleExceptions(b)
                         \/ SkipBranch(b) \/ ChooseBranch(b)
  \/ CountExceptions \/ ClearExceptions \/ StartDispatch
  \/ AssertBranch \/ SpawnWorker \/ MarkWorkerRunning \/ PushData
  \/ SettleBranch \/ EndIteration

----------------------------------------------------------------------------
(* The worker thread of branch b.                                          *)

MutTakeKeepsData(b) ==
  /\ wpc[b] = "idle" /\ ~stopping[b] /\ queue[b] # <<>>
  /\ work' = [work EXCEPT ![b] = Head(queue[b])]
  /\ wpc' = [wpc EXCEPT ![b] = "process"]
  /\ begun' = [begun EXCEPT ![b] = IF Head(queue[b]) = Null THEN @ ELSE Head(queue[b])]
  /\ UNCHANGED <<slots, pool, disp, running, stopping, queue, exceptions, sub,
                 stopper, accepted, finished, aborted>>

TakeData(b) ==
  /\ wpc[b] = "idle" /\ ~stopping[b] /\ queue[b] # <<>>
  /\ work' = [work EXCEPT ![b] = Head(queue[b])]
  /\ queue' = [queue EXCEPT ![b] = Tail(@)]
  /\ wpc' = [wpc EXCEPT ![b] = "process"]
  /\ begun' = [begun EXCEPT ![b] = IF Head(queue[b]) = Null THEN @ ELSE Head(queue[b])]
  /\ UNCHANGED <<slots, pool, disp, running, stopping, exceptions, sub,
                 stopper, accepted, finished, aborted>>

LeaveWorker(b) ==
  /\ wpc[b] = "idle" /\ stopping[b]
  /\ wpc' = [wpc EXCEPT ![b] = "exited"]
  /\ UNCHANGED <<slots, pool, disp, running, stopping, queue, exceptions, work,
                 sub, stopper, history, aborted>>

(* Every node of the branch in turn.  With an empty pointer a node that     *)
(* looks at its data crashes, one that does not goes on.                    *)
Process(b) ==
  /\ wpc[b] = "process"
  /\ \/ /\ wpc' = [wpc EXCEPT ![b] = "done"]
        /\ UNCHANGED <<work, aborted>>
     \/ /\ b \in Failing
        /\ wpc' = [wpc EXCEPT ![b] = "catch"]
        /\ work' = [work EXCEPT ![b] = Null]
        /\ UNCHANGED aborted
     \/ /\ work[b] = Null
        /\ Abort("empty data")
        /\ UNCHANGED <<wpc, work>>
  /\ UNCHANGED <<slots, pool, disp, running, stopping, queue, exceptions, sub,
                 stopper, history>>

(* on_finished looks at need_stop before it takes the guard.                *)
LookAtNeedStop(b) ==
  /\ wpc[b] = "done"
  /\ \/ /\ needStop
        /\ wpc' = [wpc EXCEPT ![b] = "idle"]
        /\ work' = [work EXCEPT ![b] = Null]
     \/ /\ ~needStop
        /\ wpc' = [wpc EXCEPT ![b] = "notify"]
        /\ UNCHANGED work
  /\ UNCHANGED <<slots, pool, disp, running, stopping, queue, exceptions, sub,
                 stopper, history, aborted>>

(* The children that take the result: the others go without this frame.     *)
MutFedBusy(b) == Children[b]

Fed(b) == {c \in Children[b] : status[c] = "Finished"}

Nothing == [x \in Branches |-> Absent]

IsAllReady(out) == \A x \in Branches : out[x] # Absent

MutResultMapSkipsEmpty(out, b) ==
  CASE Policy = "ParallelNoWait" -> [Nothing EXCEPT ![b] = out[b]]
    [] Policy = "ParallelWait"   ->
         IF IsAllReady(out)
         THEN [x \in Branches |-> IF out[x] = Null THEN Absent ELSE out[x]]
         ELSE Nothing
    [] Policy = "Sync"           -> Nothing

(* The map given to the observers, from m_output_branches_data = out.       *)
ResultMap(out, b) ==
  CASE Policy = "ParallelNoWait" -> [Nothing EXCEPT ![b] = out[b]]
    [] Policy = "ParallelWait"   -> IF IsAllReady(out) THEN out ELSE Nothing
    [] Policy = "Sync"           -> Nothing

(* clone_pipeline_data refuses an empty pointer.                            *)
OnFinishedEmpty(b) ==
  /\ wpc[b] = "notify" /\ GuardFree
  /\ work[b] = Null
  /\ status' = [status EXCEPT ![b] = "Finished"]
  /\ data' = [data EXCEPT ![b] = Null]
  /\ wpc' = [wpc EXCEPT ![b] = "catch"]
  /\ UNCHANGED <<output, posted, pool, disp, running, stopping, queue,
                 exceptions, work, sub, stopper, history, aborted>>

OnFinished(b) ==
  /\ wpc[b] = "notify" /\ GuardFree
  /\ work[b] # Null
  /\ status' = [x \in Branches |-> IF x = b THEN "Finished"
                                   ELSE IF x \in Fed(b) THEN "Ready" ELSE status[x]]
  /\ data' = [x \in Branches |-> IF x = b THEN Null
                                 ELSE IF x \in Fed(b) THEN work[b] ELSE data[x]]
  /\ output' = [output EXCEPT ![b] = work[b]]
  /\ LET map == ResultMap(output', b)
     IN \/ /\ \A x \in Branches : map[x] # Null
           /\ posted' = map
           /\ wpc' = [wpc EXCEPT ![b] = "idle"]
        \/ /\ \E x \in Branches : map[x] = Null   \* clone_pipeline_data throws
           /\ wpc' = [wpc EXCEPT ![b] = "catch"]
           /\ UNCHANGED posted
  /\ finished' = [finished EXCEPT ![b] = @ \cup {work[b]}]
  /\ work' = [work EXCEPT ![b] = Null]
  /\ UNCHANGED <<pool, disp, running, stopping, queue, exceptions, sub,
                 stopper, accepted, begun, aborted>>

KeepException(b) ==
  /\ wpc[b] = "catch"
  /\ exceptions' = [exceptions EXCEPT ![b] = @ + 1]
  /\ wpc' = [wpc EXCEPT ![b] = "idle"]
  /\ work' = [work EXCEPT ![b] = Null]
  /\ UNCHANGED <<slots, pool, disp, running, stopping, queue, sub, stopper,
                 history, aborted>>

Worker(b) ==
  \/ TakeData(b) \/ LeaveWorker(b) \/ Process(b) \/ LookAtNeedStop(b)
  \/ OnFinishedEmpty(b) \/ OnFinished(b) \/ KeepException(b)

----------------------------------------------------------------------------
(* stop(): no mutex is taken on the way (m_stop_guard is never locked).     *)

Stop ==
  /\ spc = "idle" /\ stops < MaxStops
  /\ isRunning
  /\ needStop' = TRUE
  /\ spc' = "branches" /\ sleft' = Branches /\ stops' = stops + 1
  /\ UNCHANGED <<slots, isRunning, disp, workers, sub, sat, history, aborted>>

(* stop_worker returns at once for a branch that is not running.            *)
StopIdleBranch(b) ==
  /\ spc = "branches" /\ b \in sleft
  /\ ~running[b]
  /\ sleft' = sleft \ {b}
  /\ UNCHANGED <<slots, pool, disp, workers, sub, spc, sat, stops, history,
                 aborted>>

MutUnmarkBeforeJoin(b) ==
  /\ spc = "branches" /\ b \in sleft
  /\ running[b]
  /\ stopping' = [stopping EXCEPT ![b] = TRUE]
  /\ running' = [running EXCEPT ![b] = FALSE]
  /\ spc' = "join" /\ sat' = b /\ sleft' = sleft \ {b}
  /\ UNCHANGED <<slots, pool, disp, queue, exceptions, wpc, work, sub,
                 stops, history, aborted>>

StopWorker(b) ==
  /\ spc = "branches" /\ b \in sleft
  /\ running[b]
  /\ stopping' = [stopping EXCEPT ![b] = TRUE]
  /\ spc' = "join" /\ sat' = b /\ sleft' = sleft \ {b}
  /\ UNCHANGED <<slots, pool, disp, running, queue, exceptions, wpc, work, sub,
                 stops, history, aborted>>

JoinWorker ==
  /\ spc = "join"
  /\ wpc[sat] = "exited"
  /\ wpc' = [wpc EXCEPT ![sat] = "none"]
  /\ spc' = "reset"
  /\ UNCHANGED <<slots, pool, disp, running, stopping, queue, exceptions, work,
                 sub, sleft, sat, stops, history, aborted>>

ResetWorker ==
  /\ spc = "reset"
  /\ queue' = [queue EXCEPT ![sat] = <<>>]
  /\ exceptions' = [exceptions EXCEPT ![sat] = 0]
  /\ spc' = "unmark"
  /\ UNCHANGED <<slots, pool, disp, running, stopping, wpc, work, sub, sleft,
                 sat, stops, history, aborted>>

UnmarkWorker ==
  /\ spc = "unmark"
  /\ running' = [running EXCEPT ![sat] = FALSE]
  /\ spc' = "unset"
  /\ UNCHANGED <<slots, pool, disp, stopping, queue, exceptions, wpc, work, sub,
                 sleft, sat, stops, history, aborted>>

UnsetWorkerStop ==
  /\ spc = "unset"
  /\ stopping' = [stopping EXCEPT ![sat] = FALSE]
  /\ spc' = "branches" /\ sat' = Root
  /\ UNCHANGED <<slots, pool, disp, running, queue, exceptions, wpc, work, sub,
                 sleft, stops, history, aborted>>

(* thread_pool_stop_impl, one slot after another and without the guard.     *)
StartResetSlots ==
  /\ spc = "branches" /\ sleft = {}
  /\ spc' = "slots" /\ sleft' = Branches
  /\ UNCHANGED <<slots, pool, disp, workers, sub, sat, stops, history, aborted>>

ResetSlot(b) ==
  /\ spc = "slots" /\ b \in sleft
  /\ status' = [status EXCEPT ![b] = "Finished"]
  /\ data' = [data EXCEPT ![b] = Null]
  /\ sleft' = sleft \ {b}
  /\ UNCHANGED <<output, posted, pool, disp, workers, sub, spc, sat, stops,
                 history, aborted>>

JoinDispatcher ==
  /\ spc = "slots" /\ sleft = {}
  /\ dpc = "exited"
  /\ dpc' = "none"
  /\ spc' = "pool"
  /\ UNCHANGED <<slots, pool, dleft, dat, dcount, dready, workers, sub, sleft,
                 sat, stops, history, aborted>>

MarkPoolStopped ==
  /\ spc = "pool"
  /\ isRunning' = FALSE /\ needStop' = FALSE
  /\ spc' = "idle"
  /\ UNCHANGED <<slots, disp, workers, sub, sleft, sat, stops, history, aborted>>

Stopper ==
  \/ Stop \/ JoinWorker \/ ResetWorker \/ UnmarkWorker \/ UnsetWorkerStop
  \/ StartResetSlots \/ JoinDispatcher \/ MarkPoolStopped
  \/ \E b \in Branches : StopIdleBranch(b) \/ StopWorker(b) \/ ResetSlot(b)

Submitter(s) ==
  Submit(s) \/ RunRefused(s) \/ Run(s) \/ MarkPoolRunning(s) \/ AddProcessData(s)

Next ==
  /\ aborted = "no"
  /\ \/ Dispatcher
     \/ Stopper
     \/ \E b \in Branches : Worker(b)
     \/ \E s \in Submitters : Submitter(s)

Spec == Init /\ [][Next]_vars

(* The threads are scheduled, and std::mutex does not starve a worker that  *)
(* waits for the guard while the dispatcher takes and releases it.          *)
FairSpec ==
  /\ Spec
  /\ WF_vars(aborted = "no" /\ Dispatcher)
  /\ \A b \in Branches : /\ WF_vars(aborted = "no" /\ Worker(b))
                         /\ SF_vars(aborted = "no" /\ OnFinished(b))

----------------------------------------------------------------------------
(* Properties.                                                             *)

(* A worker is in the middle of a frame from TakeData until on_finished has *)
(* handed the result on, or the frame is given up.                          *)
Working == {b \in Branches : wpc[b] \in {"process", "done", "notify"} /\ work[b] # Null}

Flow == INSTANCE FrameFlow WITH working <- Working

(* Every behaviour of the pipeline is one of FrameFlow: whatever is dropped,*)
(* throws or is stopped, no branch ever takes a frame twice, takes an older *)
(* frame after a newer one, or takes a frame its parent did not finish.     *)
ImplementsFrameFlow == Flow!Spec

(* What a branch has been given and the dispatcher has not yet seen the     *)
(* outcome of: queued data, data being processed, unhandled exceptions.     *)
InHand(b) ==
  Len(queue[b]) + exceptions[b]
    + (IF wpc[b] \in {"process", "done", "notify", "catch"} THEN 1 ELSE 0)

(* No stop() and no waiting: the case in which on_finished cannot throw.    *)
Steady == MaxStops = 0 /\ Policy # "ParallelWait"

(* Status Running means exactly one frame in hand, any other status none:   *)
(* the dispatcher never queues a second frame behind the first and never    *)
(* loses track of one, also when nodes throw.  (Inside an iteration a       *)
(* branch is briefly pushed but not yet Running, or handled but not yet     *)
(* cleared of its exception.)                                               *)
SingleFlight ==
  Steady =>
    \A b \in Branches :
      InHand(b) = IF \/ status[b] = "Running"
                     \/ dpc \in {"settle", "count", "clear"} /\ dat = b
                  THEN 1 ELSE 0

(* Without stop() and without waiting, however many threads submit, the     *)
(* dispatcher never fails its assertion, never runs away in                 *)
(* reset_exceptions, and no node is given an empty pointer.                 *)
NeverAborts == Steady => aborted \in {"no", "two dispatchers"}

(* run_worker never assigns to a std::thread that is still joinable, not    *)
(* even when stop() and the dispatcher race for the same branch.            *)
SpawnsOnlyUnjoinable == dpc = "spawn" => wpc[dat] = "none"

(* thread_pool_stop_impl resets the slots without the guard, where "all     *)
(* threads [are] already joined and stopped"; the dispatcher is not, and may*)
(* push to, or restart, a worker that was stopped before it sees the slot   *)
(* reset.  A call of stop() leaves a branch at most one such frame: however *)
(* often the pipeline is stopped and fed again, no more pile up.  (With     *)
(* ParallelWait on_finished may throw after it has freed its branch.)       *)
StopsStrandOneEach ==
  Policy # "ParallelWait" => \A b \in Branches : InHand(b) <= 1 + stops

(* ParallelWait hands over an empty map or one with a result of every      *)
(* branch, none of a later frame than the result of the root: an entry that*)
(* is missing or was reset for a new frame is never left out of a map.     *)
WaitedMapIsWhole ==
  Policy = "ParallelWait" =>
    posted = Nothing \/ \A b \in Branches : posted[b] \in 1 .. posted[Root]
                         /\ posted[Root] # Absent

(* Without stop(), no branch is Running for ever: a frame is finished or    *)
(* its exception is handled, and the branch takes frames again.             *)
BranchesFreeUp ==
  \A b \in Branches : status[b] = "Running" ~> status[b] # "Running" \/ aborted # "no"
============================================================================
