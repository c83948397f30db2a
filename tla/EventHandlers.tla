---------------------------- MODULE EventHandlers ----------------------------
(***************************************************************************)
(* How events reach their observers: EventHandlerList (src/src/core/base/  *)
(* interfaces/event_handler_list.hpp) with ThreadPoolExecutePolicy.        *)
(*                                                                         *)
(* A client registers and unregisters observers; each call tests m_enabled *)
(* before it takes m_access_guard, so that the list may be disabled or     *)
(* enabled between the two.  A publisher copies the observers under the    *)
(* guard, then posts one task for each to a pool of threads.  The actions  *)
(* here are those of the list and the pool; a module that extends this one *)
(* says what publishes.  Only one thread publishes, so that                *)
(* m_notification_guard is always free.                                    *)
(***************************************************************************)
EXTENDS Integers, SequencesExt

CONSTANTS
  Handlers,    (* the observers                                             *)
  PoolThreads, (* the threads of the pool                                   *)
  MaxCalls,    (* bound: calls of register and unregister                   *)
  MaxEvents    (* bound: events published                                   *)

ASSUME EventConstants == MaxCalls \in Nat /\ MaxEvents \in Nat

NoTask == [handler |-> "none", event |-> 0]
InCall == [handler |-> "called", event |-> 0]
NoCall == [op |-> "none", handler |-> "none"]
Never == MaxEvents + 1

VARIABLES
  subscribers, (* m_subscribers                                             *)
  cache,       (* m_cache                                                   *)
  enabled,     (* m_enabled                                                 *)
  call,        (* the client's call that has passed its test of m_enabled   *)
  copied,      (* subscribersCopy, less those posted to already             *)
  tasks,       (* the queue of the pool                                     *)
  running,     (* each thread of the pool: the task it has taken, or within *)
               (* an observer's call                                        *)
  pool,        (* the pool: open, stopping, joined                          *)
  event,       (* the events published so far                               *)
  issued,      (* the calls of the client so far                            *)
  wanted,      (* history: the observers the client wants registered        *)
  strayed,     (* history: observers whose last call met a list that was    *)
               (* disabled, or was disabled or enabled during the call      *)
  heard,       (* history: the events whose call to the observer has begun  *)
  since, until (* history: the events published when the observer was last  *)
               (* added to the list and last erased from it                 *)

list == <<subscribers, cache, enabled>>
client == <<call, issued, wanted>>
delivery == <<tasks, running, heard>>
spans == <<since, until>>
eventVars == <<list, client, copied, delivery, pool, event, strayed, spans>>

Tasks == [handler : Handlers, event : 1 .. MaxEvents]
Calls == [op : {"register", "unregister"}, handler : Handlers]

EventsTypeOK ==
  /\ subscribers \in Seq(Handlers) /\ IsInjective(subscribers)
  /\ cache \in Seq(Handlers) /\ IsInjective(cache)
  /\ enabled \in BOOLEAN
  /\ call \in Calls \cup {NoCall}
  /\ copied \in Seq(Handlers) /\ tasks \in Seq(Tasks)
  /\ running \in [PoolThreads -> Tasks \cup {NoTask, InCall}]
  /\ pool \in {"open", "stopping", "joined"}
  /\ event \in 0 .. MaxEvents /\ issued \in 0 .. MaxCalls
  /\ wanted \subseteq Handlers /\ strayed \subseteq Handlers
  /\ heard \in [Handlers -> SUBSET (1 .. MaxEvents)]
  /\ since \in [Handlers -> 0 .. Never] /\ until \in [Handlers -> 0 .. Never]

EventsInit ==
  /\ subscribers = <<>> /\ cache = <<>> /\ enabled = TRUE
  /\ call = NoCall /\ copied = <<>> /\ tasks = <<>>
  /\ running = [w \in PoolThreads |-> NoTask] /\ pool = "open"
  /\ event = 0 /\ issued = 0 /\ wanted = {} /\ strayed = {}
  /\ heard = [h \in Handlers |-> {}]
  /\ since = [h \in Handlers |-> Never] /\ until = [h \in Handlers |-> Never]

----------------------------------------------------------------------------
(* The client: register_event_handler and unregister_event_handler.         *)

(* The test of m_enabled: a disabled list ignores the call.                 *)
EnterCall(op, h) ==
  /\ call = NoCall /\ issued < MaxCalls
  /\ issued' = issued + 1
  /\ wanted' = IF op = "register" THEN wanted \cup {h} ELSE wanted \ {h}
  /\ IF enabled
       THEN /\ call' = [op |-> op, handler |-> h]
            /\ strayed' = strayed \ {h}
       ELSE /\ strayed' = strayed \cup {h}
            /\ UNCHANGED call
  /\ UNCHANGED <<list, copied, delivery, pool, event, spans>>

(* Mutant: an observer may be in the list twice.                            *)
AddedTwice(s, h) == Append(s, h)

Added(s, h) == IF h \in ToSet(s) THEN s ELSE Append(s, h)

(* The place of h in a list.                                                *)
Place(s, h) == CHOOSE i \in DOMAIN s : s[i] = h
Erased(s, h) == IF h \in ToSet(s) THEN RemoveAt(s, Place(s, h)) ELSE s

(* With m_access_guard.                                                     *)
FinishCall ==
  LET h == call.handler IN
    /\ call # NoCall
    /\ IF call.op = "register"
         THEN /\ subscribers' = Added(subscribers, h)
              /\ since' = [since EXCEPT ![h] = IF h \in ToSet(subscribers) THEN @ ELSE event]
              /\ until' = [until EXCEPT ![h] = Never]
         ELSE /\ subscribers' = Erased(subscribers, h)
              /\ since' = [since EXCEPT ![h] = Never]
              /\ until' = [until EXCEPT ![h] = IF h \in ToSet(subscribers) THEN event ELSE @]
    /\ call' = NoCall
    /\ UNCHANGED <<cache, enabled, issued, wanted, copied, delivery, pool, event, strayed>>

----------------------------------------------------------------------------
(* The publisher.                                                           *)

(* A call in progress does not know of the change.                          *)
Straddle == strayed' = strayed \cup ({call.handler} \cap Handlers)

(* disable(): the observers are put aside.                                  *)
Disable ==
  /\ enabled /\ copied = <<>>
  /\ cache' = subscribers /\ subscribers' = <<>> /\ enabled' = FALSE
  /\ Straddle
  /\ since' = [h \in Handlers |-> Never]
  /\ UNCHANGED <<client, copied, delivery, pool, event, until>>

(* Mutant: the list keeps what it got while it was disabled.                *)
RestoredKept == IF subscribers = <<>> THEN cache ELSE subscribers

(* What swap_cache brings back.                                             *)
Restored == cache

(* enable().                                                                *)
Enable ==
  /\ ~enabled /\ copied = <<>>
  /\ subscribers' = Restored /\ cache' = subscribers /\ enabled' = TRUE
  /\ Straddle
  /\ since' = [h \in Handlers |-> IF h \in ToSet(Restored) THEN event ELSE Never]
  /\ UNCHANGED <<client, copied, delivery, pool, event, until>>

(* perform_for_each_event_handler: the copy.                                *)
Publish ==
  /\ copied = <<>> /\ event < MaxEvents
  /\ event' = event + 1
  /\ copied' = subscribers
  /\ UNCHANGED <<list, client, delivery, pool, strayed, spans>>

(* Mutant: only the first observer is told.                                 *)
OthersForgotten == <<>>

(* The observers the event is still to be posted to after the first.        *)
Others == Tail(copied)

(* The loop over the copy.                                                  *)
Post ==
  /\ copied # <<>>
  /\ tasks' = Append(tasks, [handler |-> Head(copied), event |-> event])
  /\ copied' = Others
  /\ UNCHANGED <<list, client, running, heard, pool, event, strayed, spans>>

----------------------------------------------------------------------------
(* The pool: ThreadPoolEventHandler over io_service.                        *)

(* Mutant: the last task first.                                             *)
NextTaskLast == Len(tasks)

(* The place in the queue of the task to take next.                         *)
NextTask == 1

Idle(w) == running[w] = NoTask

(* io_service::run: a thread takes the first task of the queue under the    *)
(* lock of the service and calls its observer without it, so that threads   *)
(* may begin their calls in another order than they took the tasks.         *)
TakeTask(w) ==
  /\ Idle(w) /\ tasks # <<>> /\ pool = "open"
  /\ running' = [running EXCEPT ![w] = tasks[NextTask]]
  /\ tasks' = RemoveAt(tasks, NextTask)
  /\ UNCHANGED <<list, client, copied, heard, pool, event, strayed, spans>>

(* The thread has a task whose call it has not begun.                       *)
Holds(w) == running[w] \in Tasks

BeginTask(w) ==
  /\ Holds(w)
  /\ heard' = [heard EXCEPT ![running[w].handler] = @ \cup {running[w].event}]
  /\ running' = [running EXCEPT ![w] = InCall]
  /\ UNCHANGED <<list, client, copied, tasks, pool, event, strayed, spans>>

EndTask(w) ==
  /\ running[w] = InCall
  /\ running' = [running EXCEPT ![w] = NoTask]
  /\ UNCHANGED <<list, client, copied, tasks, heard, pool, event, strayed, spans>>

(* stop(): service.stop() leaves the tasks that no thread has taken,        *)
(* join_all waits for those that were.                                      *)
StopPool ==
  /\ pool = "open"
  /\ pool' = "stopping"
  /\ UNCHANGED <<list, client, copied, delivery, event, strayed, spans>>

Joined == \A w \in PoolThreads : Idle(w)

JoinPool ==
  /\ pool = "stopping" /\ Joined
  /\ pool' = "joined"
  /\ UNCHANGED <<list, client, copied, delivery, event, strayed, spans>>

----------------------------------------------------------------------------
(* event_handler_list.hpp:84-104 and io_service: the call that begins is    *)
(* the first for its event and its observer, of an event published before   *)
(* the observer was erased; it has been begun before, or another thread of  *)
(* the pool already has it in hands, what the observer was to hear earlier: *)
(* calls overtake each other between threads, but never a task in the queue *)
(* and none that is still to be posted.                                     *)
CallsAreTimely ==
  [][\A w \in PoolThreads, h \in Handlers, t \in 1 .. MaxEvents :
       running[w] = [handler |-> h, event |-> t] /\ running'[w] = InCall
         => /\ t \notin heard[h] /\ t <= until[h]
            /\ \A e \in since[h] + 1 .. t - 1 :
                 \/ e \in heard[h]
                 \/ \E v \in PoolThreads : running[v] = [handler |-> h, event |-> e]]_eventVars

(* disable() and enable(): calls apart that were ignored, or overtaken by   *)
(* the list changing its state, an enabled list holds the observers that    *)
(* are wanted and a disabled list tells nobody.                             *)
ListIsWanted ==
  call = NoCall =>
    IF enabled THEN ToSet(subscribers) \ strayed = wanted \ strayed
    ELSE ToSet(subscribers) \subseteq strayed
=============================================================================
