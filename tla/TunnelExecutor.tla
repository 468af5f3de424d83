--------------------------- MODULE TunnelExecutor ---------------------------
(***************************************************************************)
(* tunnel::TunnelExecutor and TimerManager (include/executor): a pool of   *)
(* threads, each with a task queue, a mutex and a condition variable.      *)
(*                                                                         *)
(* rigtorp::MPMCQueue, std::mutex, std::condition_variable and asio's      *)
(* io_context are external: try_push and try_pop are atomic, a wait        *)
(* releases the mutex and sleeps in one step and may end spuriously, and   *)
(* notify_one wakes the only thread that ever waits on a cvs_[i], worker   *)
(* i.  The critical section of schedule holds one try_push only, so it is  *)
(* one step, taken while the mutex is free.                                *)
(***************************************************************************)
EXTENDS Integers, Sequences, FiniteSets

CONSTANTS
    ThreadNum,      \* thread_num_
    QueueSize,      \* the capacity of a task queue (102400 in the code)
    Task,           \* the functions that are scheduled, each of them once
    Spawns,         \* Spawns[f]: the tasks that f schedules while it runs
    Delayed,        \* the tasks that are scheduled with a duration
    Caller,         \* the threads outside of the executor that call schedule
    Calls,          \* Calls[c]: the tasks that caller c schedules
    Stopper,        \* the caller that may call Stop after its calls of schedule
    Timer,          \* timer_work_, the thread of TimerManager
    Nil

Worker == 0..(ThreadNum - 1)
Thread == Worker \cup Caller \cup {Timer}

ASSUME ThreadAssumption == /\ ThreadNum \in Nat \ {0}
                           /\ QueueSize \in Nat \ {0}
                           /\ Stopper \in Caller
                           /\ Caller \cap Worker = {}
                           /\ Timer \notin Worker \cup Caller
                           /\ Nil \notin Thread /\ Nil \notin Task
ASSUME TaskAssumption == /\ Spawns \in [Task -> Seq(Task)]
                         /\ Calls \in [Caller -> Seq(Task)]
                         /\ Delayed \subseteq Task
ASSUME OnceAssumption ==
    /\ \A f, g \in Task : \A i \in DOMAIN Spawns[f], j \in DOMAIN Spawns[g] :
           Spawns[f][i] = Spawns[g][j] => f = g /\ i = j
    /\ \A b, c \in Caller : \A i \in DOMAIN Calls[b], j \in DOMAIN Calls[c] :
           Calls[b][i] = Calls[c][j] => b = c /\ i = j
    /\ \A f \in Task, c \in Caller : \A i \in DOMAIN Spawns[f], j \in DOMAIN Calls[c] :
           Spawns[f][i] # Calls[c][j]

VARIABLES
    task_queue,     \* task_queue_[i]
    muts,           \* muts_[i]: the owner, or Nil
    pc,             \* where each thread is
    probe,          \* the queues a loop over the queues has still to visit
    func,           \* func of a worker: a task it has popped and not yet run
    body,           \* the calls of schedule a thread has still to make
    stop_when_try_pop_failed,
    stop_,
    timers,         \* the tasks whose timer has not fired
    timer_stopped,  \* ctx_.stop() has been called
    crashed,        \* an exception has left timer_work_
    accepted,       \* history: schedule has returned true for these tasks
    late,           \* history: accepted from outside when stop_ was set
    ran             \* history: ran[f]: how often f has been called

stopping == <<stop_when_try_pop_failed, stop_>>
timing == <<timers, timer_stopped, crashed>>
history == <<accepted, late>>
vars == <<task_queue, muts, pc, probe, func, body, stopping, timing, history, ran>>

(***************************************************************************)
(* A worker: try (the pops without a lock), wake (WakeUpNextWorker), run   *)
(* (inside func), lock, pop (the pops in the predicate of the wait), wait,  *)
(* woken (wait has to lock again), awake (wait has returned), exited.      *)
(* schedule: push, notify.  Outside of it: run, call, idle.                *)
(* Stop: timer_join, stop_lock, stop_set, stop_unlock, stop_notify, join,  *)
(* stopped.                                                                *)
(***************************************************************************)
Location == {"try", "wake", "run", "lock", "pop", "wait", "woken", "awake",
             "exited", "push", "notify", "call", "idle", "timer_join", "stop_lock", "stop_set",
             "stop_unlock", "stop_notify", "join", "stopped"}

TypeOK ==
    /\ task_queue \in [Worker -> Seq(Task)]
    /\ \A w \in Worker : Len(task_queue[w]) <= QueueSize
    /\ muts \in [Worker -> Thread \cup {Nil}]
    /\ pc \in [Thread -> Location]
    /\ probe \in [Thread -> Seq(Worker)]
    /\ func \in [Worker -> Task \cup {Nil}]
    /\ body \in [Thread -> Seq(Task)]
    /\ stop_when_try_pop_failed \in [Worker -> BOOLEAN]
    /\ stop_ \in BOOLEAN
    /\ timers \subseteq Task
    /\ timer_stopped \in BOOLEAN
    /\ crashed \in BOOLEAN
    /\ accepted \subseteq Task /\ late \subseteq Task
    /\ ran \in [Task -> Nat]

-----------------------------------------------------------------------------

(* The loops over all queues: (k + i) % GetThreadNum() for i from 0.       *)
StartFrom(k) == [i \in 1..ThreadNum |-> (k + i - 1) % ThreadNum]

(* The constructor has returned: every thread has been started.            *)
Init ==
    /\ task_queue = [w \in Worker |-> <<>>]
    /\ muts = [w \in Worker |-> Nil]
    /\ pc = [t \in Thread |-> IF t \in Worker THEN "try" ELSE IF t = Timer THEN "idle" ELSE "call"]
    /\ probe = [t \in Thread |-> IF t \in Worker THEN StartFrom(t) ELSE <<>>]
    /\ func = [w \in Worker |-> Nil]
    /\ body = [t \in Thread |-> IF t \in Caller THEN Calls[t] ELSE <<>>]
    /\ stop_when_try_pop_failed = [w \in Worker |-> FALSE]
    /\ stop_ = FALSE
    /\ timers = {}
    /\ timer_stopped = FALSE
    /\ crashed = FALSE
    /\ accepted = {} /\ late = {}
    /\ ran = [f \in Task |-> 0]

(* pc after thread t has gone to location and cvs_[k] has been notified.   *)
GotoAndNotify(t, location, k) ==
    pc' = IF pc[k] = "wait" THEN [pc EXCEPT ![t] = location, ![k] = "woken"]
                            ELSE [pc EXCEPT ![t] = location]
Goto(t, location) == pc' = [pc EXCEPT ![t] = location]

(* Where a call of schedule returns to.                                    *)
Home(t) == IF t \in Worker THEN "run" ELSE IF t = Timer THEN "idle" ELSE "call"
ScheduleReturns(t) == body' = [body EXCEPT ![t] = Tail(@)]

(* schedule(func, duration): the timer is set, in whatever state ctx_ is.  *)
PushTimer(t) ==
    /\ pc[t] \in {"run", "call"}
    /\ body[t] # <<>> /\ Head(body[t]) \in Delayed
    /\ timers' = timers \cup {Head(body[t])}
    /\ ScheduleReturns(t)
    /\ UNCHANGED <<task_queue, muts, pc, probe, func, stopping, timer_stopped, crashed,
                   history, ran>>

(* schedule(func) begins at a queue chosen at random, or the worker's own. *)
Schedule(t) ==
    /\ pc[t] \in {"run", "call"}
    /\ body[t] # <<>> /\ Head(body[t]) \notin Delayed
    /\ \E k \in Worker : probe' = [probe EXCEPT ![t] = StartFrom(k)]
    /\ Goto(t, "push")
    /\ UNCHANGED <<task_queue, muts, func, body, stopping, timing, history, ran>>

(* A timer fires: its handler calls schedule(func).                        *)
Fire ==
    /\ pc[Timer] = "idle" /\ ~ timer_stopped
    /\ \E f \in timers : /\ timers' = timers \ {f}
                         /\ body' = [body EXCEPT ![Timer] = <<f>>]
    /\ \E k \in Worker : probe' = [probe EXCEPT ![Timer] = StartFrom(k)]
    /\ Goto(Timer, "push")
    /\ UNCHANGED <<task_queue, muts, func, stopping, timer_stopped, crashed, history, ran>>

(* try_push into queue k under its mutex, if there is room.                *)
Accept(t, k) ==
    /\ Len(task_queue[k]) < QueueSize
    /\ task_queue' = [task_queue EXCEPT ![k] = Append(@, Head(body[t]))]
    /\ Goto(t, "notify")
    /\ accepted' = accepted \cup {Head(body[t])}
    /\ late' = IF stop_ /\ t \notin Worker THEN late \cup {Head(body[t])} ELSE late
    /\ UNCHANGED <<probe, body, crashed>>

(* The queue is full: the next one, or schedule returns false, at which    *)
(* the handler of a timer throws.                                          *)
Refuse(t, k) ==
    /\ Len(task_queue[k]) = QueueSize
    /\ probe' = [probe EXCEPT ![t] = Tail(@)]
    /\ \/ /\ Len(probe[t]) > 1
          /\ UNCHANGED <<pc, body, crashed>>
       \/ /\ Len(probe[t]) = 1
          /\ Goto(t, Home(t))
          /\ ScheduleReturns(t)
          /\ crashed' = (t = Timer)
    /\ UNCHANGED <<task_queue, accepted, late>>

(* Mutants: the mutex is not taken; a full queue takes the task as well.   *)
PushUnlocked(t) ==
    LET k == Head(probe[t])
    IN  /\ pc[t] = "push"
        /\ Accept(t, k) \/ Refuse(t, k)
        /\ UNCHANGED <<muts, func, stopping, timers, timer_stopped, ran>>
PushOverfull(t) ==
    LET k == Head(probe[t])
    IN  /\ pc[t] = "push"
        /\ muts[k] = Nil
        /\ task_queue' = [task_queue EXCEPT ![k] = Append(@, Head(body[t]))]
        /\ Goto(t, "notify")
        /\ accepted' = accepted \cup {Head(body[t])}
        /\ UNCHANGED <<muts, probe, func, body, stopping, timing, late, ran>>

Push(t) ==
    LET k == Head(probe[t])
    IN  /\ pc[t] = "push"
        /\ muts[k] = Nil
        /\ Accept(t, k) \/ Refuse(t, k)
        /\ UNCHANGED <<muts, func, stopping, timers, timer_stopped, ran>>

(* After the unlock: cvs_[try_push_id]->notify_one(), and schedule returns *)
(* true.                                                                   *)
Notify(t) ==
    /\ pc[t] = "notify"
    /\ GotoAndNotify(t, Home(t), Head(probe[t]))
    /\ ScheduleReturns(t)
    /\ UNCHANGED <<task_queue, muts, probe, func, stopping, timing, history, ran>>

-----------------------------------------------------------------------------

(* One try_pop of TryPopStartFrom: a task is found, or the loop goes on    *)
(* with the next queue, or ends without a task.                            *)
Found(w, location) ==
    LET k == Head(probe[w])
    IN  /\ task_queue[k] # <<>>
        /\ func' = [func EXCEPT ![w] = Head(task_queue[k])]
        /\ task_queue' = [task_queue EXCEPT ![k] = Tail(@)]
        /\ Goto(w, location)
        /\ UNCHANGED <<probe, muts>>
GoesOn(w) ==
    /\ task_queue[Head(probe[w])] = <<>>
    /\ Len(probe[w]) > 1
    /\ probe' = [probe EXCEPT ![w] = Tail(@)]
    /\ UNCHANGED <<task_queue, func, muts, pc>>
NotFound(w) ==
    /\ task_queue[Head(probe[w])] = <<>>
    /\ Len(probe[w]) = 1
    /\ probe' = [probe EXCEPT ![w] = Tail(@)]
    /\ UNCHANGED <<task_queue, func>>

(* The TryPopStartFrom at the head of the loop, and the exit.              *)
TryPop(w) ==
    /\ pc[w] = "try"
    /\ \/ Found(w, "wake")
       \/ GoesOn(w)
       \/ /\ NotFound(w)
          /\ Goto(w, IF stop_when_try_pop_failed[w] THEN "exited" ELSE "lock")
          /\ UNCHANGED muts
    /\ UNCHANGED <<body, stopping, timing, history, ran>>

(* func() begins.                                                          *)
Call(w) == /\ ran' = [ran EXCEPT ![func[w]] = @ + 1]
           /\ body' = [body EXCEPT ![w] = Spawns[func[w]]]
           /\ func' = [func EXCEPT ![w] = Nil]

WakeUpNextWorker(w) ==
    /\ pc[w] = "wake"
    /\ GotoAndNotify(w, "run", (w + 1) % ThreadNum)
    /\ Call(w)
    /\ UNCHANGED <<task_queue, muts, probe, stopping, timing, history>>

(* func() has returned: the loop starts again.                             *)
Continue(w) ==
    /\ pc[w] = "run"
    /\ body[w] = <<>>
    /\ Goto(w, "try")
    /\ probe' = [probe EXCEPT ![w] = StartFrom(w)]
    /\ UNCHANGED <<task_queue, muts, func, body, stopping, timing, history, ran>>

(* The worker takes its own mutex, before the wait or inside of it, and    *)
(* evaluates stop_ == true || TryPopStartFrom(worker_id, func).            *)
Predicate(w) ==
    /\ pc[w] \in {"lock", "woken"}
    /\ muts[w] = Nil
    /\ muts' = [muts EXCEPT ![w] = w]
    /\ Goto(w, IF stop_ THEN "awake" ELSE "pop")
    /\ probe' = [probe EXCEPT ![w] = StartFrom(w)]
    /\ UNCHANGED <<task_queue, func, body, stopping, timing, history, ran>>

SpuriousWakeUp(w) ==
    /\ pc[w] = "wait"
    /\ Goto(w, "woken")
    /\ UNCHANGED <<task_queue, muts, probe, func, body, stopping, timing, history, ran>>

PredicatePop(w) ==
    /\ pc[w] = "pop"
    /\ \/ Found(w, "awake")
       \/ GoesOn(w)
       \/ /\ NotFound(w)
          /\ Goto(w, "wait")
          /\ muts' = [muts EXCEPT ![w] = Nil]
    /\ UNCHANGED <<body, stopping, timing, history, ran>>

(* Mutant: a worker that sees stop_ returns at once.                       *)
AwakeReturns(w) ==
    /\ pc[w] = "awake"
    /\ muts' = [muts EXCEPT ![w] = Nil]
    /\ \/ stop_ /\ Goto(w, "exited") /\ UNCHANGED <<func, body, ran>>
       \/ ~ stop_ /\ Goto(w, "run") /\ Call(w)
    /\ UNCHANGED <<task_queue, probe, stopping, timing, history>>

(* wait has returned: stop_ is looked at again, under the mutex.  If it is *)
(* set, func goes out of scope.                                            *)
Awake(w) ==
    /\ pc[w] = "awake"
    /\ muts' = [muts EXCEPT ![w] = Nil]
    /\ \/ /\ stop_
          /\ stop_when_try_pop_failed' = [stop_when_try_pop_failed EXCEPT ![w] = TRUE]
          /\ Goto(w, "try")
          /\ probe' = [probe EXCEPT ![w] = StartFrom(w)]
          /\ func' = [func EXCEPT ![w] = Nil]
          /\ UNCHANGED <<body, ran>>
       \/ /\ ~ stop_
          /\ Goto(w, "run")
          /\ Call(w)
          /\ UNCHANGED <<probe, stop_when_try_pop_failed>>
    /\ UNCHANGED <<task_queue, stop_, timing, history>>

-----------------------------------------------------------------------------

(* Stop, after the last call of schedule: timer_manager_.Stop() stops      *)
(* ctx_ and joins the thread of the timers.                                *)
StopTimer ==
    /\ pc[Stopper] = "call" /\ body[Stopper] = <<>>
    /\ timer_stopped' = TRUE
    /\ Goto(Stopper, "timer_join")
    /\ UNCHANGED <<task_queue, muts, probe, func, body, stopping, timers, crashed, history, ran>>

TimerExits ==
    /\ pc[Timer] = "idle" /\ timer_stopped
    /\ Goto(Timer, "exited")
    /\ UNCHANGED <<task_queue, muts, probe, func, body, stopping, timing, history, ran>>

(* Mutant: Stop does not take the mutexes of the workers.                  *)
TimerJoinedNoLock ==
    /\ pc[Stopper] = "timer_join" /\ pc[Timer] = "exited"
    /\ Goto(Stopper, "stop_set")
    /\ UNCHANGED <<task_queue, muts, probe, func, body, stopping, timing, history, ran>>

TimerJoined ==
    /\ pc[Stopper] = "timer_join" /\ pc[Timer] = "exited"
    /\ Goto(Stopper, "stop_lock")
    /\ probe' = [probe EXCEPT ![Stopper] = StartFrom(0)]
    /\ UNCHANGED <<task_queue, muts, func, body, stopping, timing, history, ran>>

(* muts_[i]->lock() for all i, and then stop_ = true                       *)
StopLock ==
    LET k == Head(probe[Stopper])
    IN  /\ pc[Stopper] = "stop_lock"
        /\ muts[k] = Nil
        /\ muts' = [muts EXCEPT ![k] = Stopper]
        /\ probe' = [probe EXCEPT ![Stopper] = Tail(@)]
        /\ Goto(Stopper, IF Len(probe[Stopper]) = 1 THEN "stop_set" ELSE "stop_lock")
        /\ UNCHANGED <<task_queue, func, body, stopping, timing, history, ran>>

StopSet ==
    /\ pc[Stopper] = "stop_set"
    /\ stop_' = TRUE
    /\ Goto(Stopper, "stop_unlock")
    /\ probe' = [probe EXCEPT ![Stopper] = StartFrom(0)]
    /\ UNCHANGED <<task_queue, muts, func, body, stop_when_try_pop_failed, timing, history, ran>>

(* muts_[i]->unlock(); cvs_[i]->notify_one()                               *)
StopUnlock ==
    /\ pc[Stopper] = "stop_unlock"
    /\ muts' = [muts EXCEPT ![Head(probe[Stopper])] = Nil]
    /\ Goto(Stopper, "stop_notify")
    /\ UNCHANGED <<task_queue, probe, func, body, stopping, timing, history, ran>>

AfterStopNotify == IF Len(probe[Stopper]) = 1 THEN "join" ELSE "stop_unlock"

(* Mutant: Stop does not notify.                                           *)
StopNotifyNobody ==
    /\ pc[Stopper] = "stop_notify"
    /\ Goto(Stopper, AfterStopNotify)
    /\ probe' = [probe EXCEPT ![Stopper] = Tail(@)]
    /\ UNCHANGED <<task_queue, muts, func, body, stopping, timing, history, ran>>

StopNotify ==
    /\ pc[Stopper] = "stop_notify"
    /\ GotoAndNotify(Stopper, AfterStopNotify, Head(probe[Stopper]))
    /\ probe' = [probe EXCEPT ![Stopper] = Tail(@)]
    /\ UNCHANGED <<task_queue, muts, func, body, stopping, timing, history, ran>>

(* work.join() for all workers                                             *)
Join ==
    /\ pc[Stopper] = "join"
    /\ \A w \in Worker : pc[w] = "exited"
    /\ Goto(Stopper, "stopped")
    /\ UNCHANGED <<task_queue, muts, probe, func, body, stopping, timing, history, ran>>

ScheduleStep(t) == PushTimer(t) \/ Schedule(t) \/ Push(t) \/ Notify(t)
WorkerMain(w) == TryPop(w) \/ WakeUpNextWorker(w) \/ Continue(w)
                 \/ Predicate(w) \/ PredicatePop(w) \/ Awake(w)
TimerStep == Fire \/ TimerExits
Stop == TimerJoined \/ StopLock \/ StopSet \/ StopUnlock \/ StopNotify \/ Join

Step(t) == \/ ScheduleStep(t)
           \/ t \in Worker /\ WorkerMain(t)
           \/ t = Timer /\ TimerStep
           \/ t = Stopper /\ Stop

Next == /\ ~ crashed
        /\ \/ \E t \in Thread : Step(t)
           \/ \E w \in Worker : SpuriousWakeUp(w)
           \/ StopTimer

Spec == Init /\ [][Next]_vars

(* As long as a thread can run, some thread does.  No thread can keep the  *)
(* others from running for ever, so it does not matter which one; nobody   *)
(* has to call Stop, and spurious wake-ups do not go on for ever.          *)
Fairness == /\ WF_vars(~ crashed /\ \E t \in Thread : Step(t))
            /\ <>[][\A w \in Worker : ~ SpuriousWakeUp(w)]_vars
FairSpec == Spec /\ Fairness

-----------------------------------------------------------------------------

InQueues(f) == {at \in Worker \X (1..QueueSize) :
                    at[2] \in DOMAIN task_queue[at[1]] /\ task_queue[at[1]][at[2]] = f}
HeldBy(f) == {w \in Worker : func[w] = f}

(* A task that schedule accepted is in one queue, in the hands of one      *)
(* worker, or has been called once; the others have not been called.  Two  *)
(* workers that steal at the same time do not both get it, and a task that *)
(* the predicate of the wait has popped is not dropped by a Stop.          *)
NoTaskLostOrRepeated ==
    \A f \in Task :
        Cardinality(InQueues(f)) + Cardinality(HeldBy(f)) + ran[f]
            = IF f \in accepted THEN 1 ELSE 0

(* A worker does not sleep on a task: while it waits on its condition      *)
(* variable with a task in its own queue, the one that pushed the task has *)
(* still to notify it.                                                     *)
NoLostNotify ==
    \A w \in Worker :
        pc[w] = "wait" /\ task_queue[w] # <<>> =>
            \E t \in Thread : pc[t] = "notify" /\ Head(probe[t]) = w

(* When Stop returns, everything that was accepted has been run, also what *)
(* the tasks scheduled while the executor was stopping; only a thread from *)
(* outside that calls schedule after stop_ was set may be left out.        *)
StopRunsEverything ==
    pc[Stopper] = "stopped" => \A f \in accepted \ late : ran[f] = 1

(* In the end every accepted task has been run, whether Stop is called or  *)
(* not, and a Stop has returned: no task rests in a queue while all        *)
(* workers sleep, and no worker sleeps through Stop.                       *)
TasksRunAndStopReturns ==
    <>[](crashed \/ /\ \A f \in accepted \ late : ran[f] = 1
                     /\ pc[Stopper] \in {"call", "stopped"})

=============================================================================
