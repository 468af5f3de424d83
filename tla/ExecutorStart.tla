--------------------------- MODULE ExecutorStart ---------------------------
(***************************************************************************)
(* The constructor of TunnelExecutor: it starts the thread of the timers   *)
(* and the workers, and waits until each has counted itself in finished.   *)
(* init_mut, init_cv and finished are local variables of the constructor.  *)
(***************************************************************************)
EXTENDS Integers, FiniteSets

CONSTANTS Worker,   \* the workers, thread_num_ of them
          Timer,    \* timer_work_
          Nil

Thread == Worker \cup {Timer}
Constructor == "constructor"

ASSUME StartAssumption == /\ IsFiniteSet(Worker)
                          /\ Timer \notin Worker
                          /\ Nil \notin Thread

VARIABLES
    pc,         \* where each thread is
    ctor,       \* where the constructor is
    init_mut,   \* the owner, or Nil
    finished

vars == <<pc, ctor, init_mut, finished>>

TypeOK ==
    /\ pc \in [Thread -> {"new", "start", "counted", "notify", "unlock", "loop"}]
    /\ ctor \in {"create", "lock", "predicate", "wait", "woken", "returned"}
    /\ init_mut \in Thread \cup {Constructor, Nil}
    /\ finished \in 0..Cardinality(Thread)

Init == /\ pc = [t \in Thread |-> "new"]
        /\ ctor = "create"
        /\ init_mut = Nil
        /\ finished = 0

(* timer_manager_.Run, and then the loop that starts the workers.          *)
Create(t) ==
    /\ ctor = "create"
    /\ pc[t] = "new"
    /\ t # Timer => pc[Timer] # "new"
    /\ pc' = [pc EXCEPT ![t] = "start"]
    /\ ctor' = IF \A u \in Thread \ {t} : pc[u] # "new" THEN "lock" ELSE "create"
    /\ UNCHANGED <<init_mut, finished>>

(* A thread takes init_mut and adds itself to finished.                    *)
CountSelf(t) ==
    /\ pc[t] = "start"
    /\ init_mut = Nil
    /\ init_mut' = t
    /\ finished' = finished + 1
    /\ pc' = [pc EXCEPT ![t] = "counted"]
    /\ UNCHANGED ctor

(* init_cv.notify_one()                                                    *)
Notify == ctor' = IF ctor = "wait" THEN "woken" ELSE ctor

(* WorkerMain: guard.unlock(), and then init_cv.notify_one().              *)
WorkerUnlocks(t) ==
    /\ t \in Worker /\ pc[t] = "counted"
    /\ init_mut' = Nil
    /\ pc' = [pc EXCEPT ![t] = "notify"]
    /\ UNCHANGED <<ctor, finished>>

(* Mutant: a worker does not notify.                                       *)
WorkerSilent(t) ==
    /\ t \in Worker /\ pc[t] = "notify"
    /\ pc' = [pc EXCEPT ![t] = "loop"]
    /\ UNCHANGED <<ctor, init_mut, finished>>

WorkerNotifies(t) ==
    /\ t \in Worker /\ pc[t] = "notify"
    /\ Notify
    /\ pc' = [pc EXCEPT ![t] = "loop"]
    /\ UNCHANGED <<init_mut, finished>>

(* TimerManager::Run: init_cv.notify_one(), and then guard.unlock().       *)
TimerNotifies ==
    /\ pc[Timer] = "counted"
    /\ Notify
    /\ pc' = [pc EXCEPT ![Timer] = "unlock"]
    /\ UNCHANGED <<init_mut, finished>>

TimerUnlocks ==
    /\ pc[Timer] = "unlock"
    /\ init_mut' = Nil
    /\ pc' = [pc EXCEPT ![Timer] = "loop"]
    /\ UNCHANGED <<ctor, finished>>

(* The constructor takes init_mut, before the wait or inside of it.        *)
ConstructorLocks ==
    /\ ctor \in {"lock", "woken"}
    /\ init_mut = Nil
    /\ init_mut' = Constructor
    /\ ctor' = "predicate"
    /\ UNCHANGED <<pc, finished>>

(* finished == thread_num_ + 1                                             *)
AllFinished == finished = Cardinality(Worker) + 1

(* The predicate holds and the constructor returns, or it sleeps.          *)
ConstructorWaits ==
    /\ ctor = "predicate"
    /\ init_mut' = Nil
    /\ ctor' = IF AllFinished THEN "returned" ELSE "wait"
    /\ UNCHANGED <<pc, finished>>

ThreadStep(t) == CountSelf(t) \/ WorkerUnlocks(t) \/ WorkerNotifies(t)
                 \/ (t = Timer /\ (TimerNotifies \/ TimerUnlocks))
ConstructorStep == ConstructorLocks \/ ConstructorWaits \/ \E t \in Thread : Create(t)

Next == ConstructorStep \/ \E t \in Thread : ThreadStep(t)

Spec == Init /\ [][Next]_vars

(* The operating system runs every thread.                                 *)
FairSpec == /\ Spec
            /\ WF_vars(ConstructorStep)
            /\ \A t \in Thread : WF_vars(ThreadStep(t))

-----------------------------------------------------------------------------

(* "wait all worker init finished" (tunnel_executor.h): when the           *)
(* constructor returns, and with it init_cv and init_mut are gone, no      *)
(* thread has still to use them.                                           *)
InitFinished == ctor = "returned" => \A t \in Thread : pc[t] = "loop"

(* No notification is lost: the constructor returns.                       *)
ConstructorReturns == <>(ctor = "returned")

=============================================================================
