------------------------ MODULE TunnelExecutorProofs ------------------------
(***************************************************************************)
(* Proofs about TunnelExecutor, for every number of workers and callers,   *)
(* every size of the queues, and whatever the tasks schedule.              *)
(*                                                                         *)
(*   TypeCorrect    every variable keeps its type, no queue overflows      *)
(*   NoSleeper      no worker sleeps on a task without a notify to come    *)
(*   EveryTaskOnce  no task is lost, and none is called twice              *)
(*   StopDrains     when Stop returns, what was accepted has been run      *)
(***************************************************************************)
EXTENDS TunnelExecutor, FiniteSetTheorems, TLAPS

InSeq(e, s) == \E i \in DOMAIN s : s[i] = e
NoDup(s) == \A i, j \in DOMAIN s : s[i] = s[j] => i = j

(* Where a thread can be, and what it then has at hand.                    *)
Scheduling == {"push", "notify"}
WorkerAt == {"try", "wake", "run", "lock", "pop", "wait", "woken", "awake", "exited"} \cup Scheduling
StopAt == {"timer_join", "stop_lock", "stop_set", "stop_unlock", "stop_notify", "join", "stopped"}

PlaceOf(t) ==
    /\ t \in Worker => /\ pc[t] \in WorkerAt
                       /\ pc[t] \in {"try", "pop"} => probe[t] # <<>>
                       /\ pc[t] = "wake" => func[t] # Nil
                       /\ func[t] # Nil => pc[t] \in {"wake", "awake"}
    /\ t \in Caller \ {Stopper} => pc[t] \in {"call"} \cup Scheduling
    /\ t = Stopper => pc[t] \in {"call"} \cup Scheduling \cup StopAt
    /\ t = Timer => pc[t] \in {"idle", "exited"} \cup Scheduling
    /\ pc[t] \in Scheduling => probe[t] # <<>> /\ body[t] # <<>>
PlaceInv == \A t \in Thread : PlaceOf(t)

(* The mutex of a worker is its own while it evaluates the predicate of    *)
(* the wait and looks at stop_, and Stopper's while stop_ is set.          *)
LockOf(w) ==
    /\ pc[w] \in {"pop", "awake"} => muts[w] = w
    /\ pc[w] = "pop" => ~ stop_ /\ (probe[w] = StartFrom(w) \/ task_queue[w] = <<>>)
    /\ pc[w] = "awake" => (stop_ <=> func[w] = Nil)
StopLocks ==
    /\ pc[Stopper] \in {"stop_lock", "stop_unlock", "stop_notify"} =>
           probe[Stopper] # <<>> /\ NoDup(probe[Stopper])
    /\ \A w \in Worker :
           /\ pc[Stopper] = "stop_lock" => InSeq(w, probe[Stopper]) \/ muts[w] = Stopper
           /\ pc[Stopper] = "stop_set" => muts[w] = Stopper
           /\ pc[Stopper] = "stop_unlock" /\ InSeq(w, probe[Stopper]) => muts[w] = Stopper
           /\ pc[Stopper] = "stop_notify" /\ InSeq(w, Tail(probe[Stopper])) => muts[w] = Stopper
LockInv == (\A w \in Worker : LockOf(w)) /\ StopLocks

(* Every call of schedule is about a task of its own.                      *)
OnceInv ==
    /\ \A t \in Thread : NoDup(body[t])
    /\ \A t, u \in Thread : \A f : InSeq(f, body[t]) /\ InSeq(f, body[u]) => t = u
    /\ \A t \in Thread : \A f : InSeq(f, body[t]) => f \notin timers
    /\ \A t \in Thread : \A f : InSeq(f, body[t]) /\ f \in accepted => pc[t] = "notify" /\ f = Head(body[t])
    /\ accepted \cap timers = {}
    /\ \A g \in Task : ran[g] = 0 => \A f : InSeq(f, Spawns[g]) =>
           f \notin accepted \cup timers /\ \A t \in Thread : ~ InSeq(f, body[t])

(* An accepted task is at one place.                                       *)
PlacedInv ==
    /\ \A k \in Worker : NoDup(task_queue[k])
    /\ \A k, l \in Worker : \A f : InSeq(f, task_queue[k]) /\ InSeq(f, task_queue[l]) => k = l
    /\ \A v, w \in Worker : func[v] # Nil /\ func[v] = func[w] => v = w
    /\ \A k, w \in Worker : func[w] # Nil => ~ InSeq(func[w], task_queue[k])
    /\ \A f \in Task : ran[f] # 0 => /\ ran[f] = 1
                                     /\ \A k \in Worker : ~ InSeq(f, task_queue[k]) /\ func[k] # f
    /\ \A f \in Task : f \in accepted <=> \/ ran[f] # 0
                                          \/ \E k \in Worker : InSeq(f, task_queue[k]) \/ func[k] = f

(* Worker w will look into queue k before it exits.                        *)
Visits(w, k) == /\ pc[w] # "exited"
                /\ pc[w] = "try" /\ stop_when_try_pop_failed[w] => InSeq(k, probe[w])
StopOf(w) == /\ ~ stop_ => ~ stop_when_try_pop_failed[w]
             /\ pc[w] = "exited" => stop_when_try_pop_failed[w]
StopInv ==
    /\ \A w \in Worker : StopOf(w)
    /\ pc[Stopper] = "stopped" => \A w \in Worker : pc[w] = "exited"
    /\ \A k \in Worker : \A f : InSeq(f, task_queue[k]) /\ f \notin late => \E w \in Worker : Visits(w, k)

Inv == TypeOK /\ PlaceInv /\ LockInv /\ OnceInv /\ PlacedInv /\ StopInv /\ NoLostNotify

-----------------------------------------------------------------------------
(* Sequences without duplicates.                                           *)

LEMMA HeadTail ==
  ASSUME NEW S, NEW s \in Seq(S), s # <<>>
  PROVE  /\ Head(s) \in S /\ Tail(s) \in Seq(S) /\ Len(s) \in Nat \ {0} /\ Len(Tail(s)) = Len(s) - 1
         /\ InSeq(Head(s), s)
         /\ \A e : InSeq(e, s) <=> e = Head(s) \/ InSeq(e, Tail(s))
         /\ NoDup(s) => NoDup(Tail(s)) /\ ~ InSeq(Head(s), Tail(s))
         /\ Len(s) = 1 => Tail(s) = <<>>
         /\ Len(s) # 1 => Tail(s) # <<>>
  <1>1. /\ Head(s) \in S /\ Tail(s) \in Seq(S) /\ Len(s) \in Nat \ {0} /\ Len(Tail(s)) = Len(s) - 1
        /\ DOMAIN s = 1..Len(s) /\ DOMAIN Tail(s) = 1..(Len(s) - 1) /\ Head(s) = s[1]
    OBVIOUS
  <1>2. \A i \in DOMAIN Tail(s) : i + 1 \in DOMAIN s /\ Tail(s)[i] = s[i + 1] /\ i + 1 # 1
    BY <1>1
  <1>3. \A i \in DOMAIN s : i = 1 \/ (i - 1 \in DOMAIN Tail(s) /\ Tail(s)[i - 1] = s[i])
    BY <1>1
  <1>4. \A e : InSeq(e, s) <=> e = Head(s) \/ InSeq(e, Tail(s))
    <2>1. ASSUME NEW i \in DOMAIN s PROVE s[i] = Head(s) \/ InSeq(s[i], Tail(s))
      BY <1>1, <1>3 DEF InSeq
    <2>2. ASSUME NEW i \in DOMAIN Tail(s) PROVE InSeq(Tail(s)[i], s)
      BY <1>2 DEF InSeq
    <2>3. InSeq(Head(s), s)
      BY <1>1 DEF InSeq
    <2>4. ASSUME NEW e, InSeq(e, s) PROVE e = Head(s) \/ InSeq(e, Tail(s))
      BY <2>1, <2>4 DEF InSeq
    <2>5. ASSUME NEW e, InSeq(e, Tail(s)) PROVE InSeq(e, s)
      <3>1. PICK i \in DOMAIN Tail(s) : Tail(s)[i] = e
        BY <2>5 DEF InSeq
      <3> QED BY <2>2, <3>1
    <2> QED BY <2>3, <2>4, <2>5
  <1>5. NoDup(s) => NoDup(Tail(s)) /\ ~ InSeq(Head(s), Tail(s))
    <2>1. ASSUME NoDup(s), NEW i \in DOMAIN Tail(s), NEW j \in DOMAIN Tail(s), Tail(s)[i] = Tail(s)[j] PROVE i = j
      <3>1. i + 1 = j + 1
        BY <1>2, <2>1 DEF NoDup
      <3> QED BY <1>1, <3>1
    <2>2. ASSUME NoDup(s), NEW i \in DOMAIN Tail(s), Tail(s)[i] = Head(s) PROVE FALSE
      <3>1. 1 \in DOMAIN s
        BY <1>1
      <3> QED BY <1>1, <1>2, <2>2, <3>1 DEF NoDup
    <2> QED BY <2>1, <2>2 DEF NoDup, InSeq
  <1>6. Len(s) = 1 => Tail(s) = <<>>
    BY <1>1
  <1>7. Len(s) # 1 => Tail(s) # <<>>
    <2>1. Len(<<>>) = 0
      OBVIOUS
    <2>2. Len(s) # 1 => Len(Tail(s)) # Len(<<>>)
      BY <1>1, <2>1
    <2> QED BY <2>2
  <1> QED BY <1>1, <1>4, <1>5, <1>6, <1>7

LEMMA AppendSeq ==
  ASSUME NEW S, NEW s \in Seq(S), NEW f \in S
  PROVE  /\ Append(s, f) \in Seq(S) /\ Len(Append(s, f)) = Len(s) + 1 /\ Len(s) \in Nat /\ Append(s, f) # <<>>
         /\ \A e : InSeq(e, Append(s, f)) <=> InSeq(e, s) \/ e = f
         /\ NoDup(s) /\ ~ InSeq(f, s) => NoDup(Append(s, f))
  <1>1. /\ Append(s, f) \in Seq(S) /\ Len(Append(s, f)) = Len(s) + 1 /\ Len(s) \in Nat
        /\ DOMAIN Append(s, f) = 1..(Len(s) + 1) /\ DOMAIN s = 1..Len(s)
        /\ \A i \in DOMAIN s : Append(s, f)[i] = s[i]
        /\ Append(s, f)[Len(s) + 1] = f
    OBVIOUS
  <1>2. Append(s, f) # <<>>
    BY <1>1
  <1>3. \A i \in DOMAIN Append(s, f) : i \in DOMAIN s \/ i = Len(s) + 1
    BY <1>1
  <1>4. \A i \in DOMAIN s : i \in DOMAIN Append(s, f)
    BY <1>1
  <1>5. Len(s) + 1 \in DOMAIN Append(s, f)
    BY <1>1
  <1>6. \A e : InSeq(e, Append(s, f)) <=> InSeq(e, s) \/ e = f
    BY <1>1, <1>3, <1>4, <1>5 DEF InSeq
  <1>7. NoDup(s) /\ ~ InSeq(f, s) => NoDup(Append(s, f))
    BY <1>1, <1>3 DEF NoDup, InSeq
  <1> QED BY <1>1, <1>2, <1>6, <1>7

LEMMA EmptySeq == NoDup(<<>>) /\ \A e : ~ InSeq(e, <<>>)
  BY DEF NoDup, InSeq

LEMMA SingleSeq == \A e : NoDup(<<e>>) /\ \A f : InSeq(f, <<e>>) <=> f = e
  <1> SUFFICES ASSUME NEW e PROVE NoDup(<<e>>) /\ \A f : InSeq(f, <<e>>) <=> f = e
    OBVIOUS
  <1>1. DOMAIN <<e>> = {1} /\ <<e>>[1] = e
    OBVIOUS
  <1> QED BY <1>1 DEF NoDup, InSeq

(* The loops over the queues visit every queue once.                       *)
LEMMA Modulo ==
  ASSUME NEW n \in Nat \ {0}, NEW a \in 0..(n + n - 1)
  PROVE  a % n \in 0..(n - 1) /\ (a < n => a % n = a) /\ (a >= n => a % n = a - n)
  <1>1. a % n \in 0..(n - 1)
    OBVIOUS
  <1>2. a < n => a % n = a
    OBVIOUS
  <1>3. a >= n => a % n = a - n
    BY SMTT(30)
  <1> QED BY <1>1, <1>2, <1>3

LEMMA Workers ==
  /\ ThreadNum \in Nat \ {0} /\ 0 \in Worker /\ \A w \in Worker : w \in 0..(ThreadNum - 1) /\ w \in Nat
  /\ \A w \in Worker : (w + 1) % ThreadNum \in Worker
  BY ThreadAssumption DEF Worker

LEMMA StartFromAll ==
  ASSUME NEW k \in Worker
  PROVE  /\ StartFrom(k) \in Seq(Worker) /\ StartFrom(k) # <<>> /\ Len(StartFrom(k)) = ThreadNum
         /\ Head(StartFrom(k)) = k
         /\ NoDup(StartFrom(k))
         /\ \A w \in Worker : InSeq(w, StartFrom(k))
  <1>1. ThreadNum \in Nat \ {0} /\ k \in 0..(ThreadNum - 1)
    BY Workers
  <1>2. \A i \in 1..ThreadNum : k + i - 1 \in 0..(ThreadNum + ThreadNum - 1)
    BY <1>1
  <1>3. \A i \in 1..ThreadNum : /\ StartFrom(k)[i] = (k + i - 1) % ThreadNum
                                /\ StartFrom(k)[i] \in Worker
    BY <1>1, <1>2, Modulo DEF StartFrom, Worker
  <1>4. /\ StartFrom(k) \in Seq(Worker) /\ Len(StartFrom(k)) = ThreadNum /\ DOMAIN StartFrom(k) = 1..ThreadNum
        /\ StartFrom(k) # <<>>
    <2>1. DOMAIN StartFrom(k) = 1..ThreadNum
      BY DEF StartFrom
    <2>2. StartFrom(k) \in Seq(Worker)
      BY <1>1, <1>3 DEF StartFrom
    <2>3. Len(StartFrom(k)) = ThreadNum
      BY <1>1, <2>1, <2>2
    <2> QED BY <1>1, <2>1, <2>2, <2>3
  <1>5. \A i \in 1..ThreadNum : /\ k + i - 1 < ThreadNum => StartFrom(k)[i] = k + i - 1
                                /\ k + i - 1 >= ThreadNum => StartFrom(k)[i] = k + i - 1 - ThreadNum
    <2> SUFFICES ASSUME NEW i \in 1..ThreadNum
                 PROVE  /\ k + i - 1 < ThreadNum => StartFrom(k)[i] = k + i - 1
                        /\ k + i - 1 >= ThreadNum => StartFrom(k)[i] = k + i - 1 - ThreadNum
      OBVIOUS
    <2>1. PICK a \in 0..(ThreadNum + ThreadNum - 1) : a = k + i - 1
      BY <1>2
    <2>2. StartFrom(k)[i] = a % ThreadNum
      BY <1>3, <2>1
    <2>3. (a < ThreadNum => a % ThreadNum = a) /\ (a >= ThreadNum => a % ThreadNum = a - ThreadNum)
      BY <1>1, Modulo
    <2>4. CASE k + i - 1 < ThreadNum
      BY <1>1, <2>1, <2>2, <2>3, <2>4
    <2>5. CASE k + i - 1 >= ThreadNum
      BY <1>1, <2>1, <2>2, <2>3, <2>5
    <2> QED BY <1>1, <2>4, <2>5
  <1>6. Head(StartFrom(k)) = k
    <2>1. 1 \in 1..ThreadNum /\ k + 1 - 1 = k /\ k < ThreadNum
      BY <1>1
    <2> QED BY <1>4, <1>5, <2>1
  <1>7. NoDup(StartFrom(k))
    BY <1>1, <1>4, <1>5 DEF NoDup
  <1>8. ASSUME NEW w \in Worker PROVE InSeq(w, StartFrom(k))
    <2>0. w \in 0..(ThreadNum - 1)
      BY Workers
    <2>1. CASE w >= k
      <3>1. w - k + 1 \in 1..ThreadNum /\ k + (w - k + 1) - 1 = w /\ w < ThreadNum
        BY <1>1, <2>0, <2>1
      <3>2. StartFrom(k)[w - k + 1] = w
        BY <1>5, <3>1
      <3> QED BY <1>4, <3>1, <3>2 DEF InSeq
    <2>2. CASE w < k
      <3>1. /\ w - k + 1 + ThreadNum \in 1..ThreadNum /\ k + (w - k + 1 + ThreadNum) - 1 = w + ThreadNum
            /\ w + ThreadNum >= ThreadNum /\ w + ThreadNum - ThreadNum = w
        BY <1>1, <2>0, <2>2
      <3>2. PICK i \in 1..ThreadNum : i = w - k + 1 + ThreadNum
        BY <3>1
      <3>3. k + i - 1 >= ThreadNum /\ k + i - 1 - ThreadNum = w
        BY <1>1, <2>0, <3>2
      <3>4. StartFrom(k)[i] = w
        BY <1>5, <3>3
      <3> QED BY <1>4, <3>4 DEF InSeq
    <2> QED BY <1>1, <2>0, <2>1, <2>2
  <1> QED BY <1>4, <1>6, <1>7, <1>8

-----------------------------------------------------------------------------
(* A step of one thread: the others stay where they are, but a worker that *)
(* waits may be woken.                                                     *)

Others(t) ==
    /\ \A u \in Thread \ {t} : /\ pc'[u] = pc[u] \/ (u \in Worker /\ pc[u] = "wait" /\ pc'[u] = "woken")
                               /\ probe'[u] = probe[u]
    /\ \A w \in Worker \ {t} : /\ func'[w] = func[w]
                               /\ stop_when_try_pop_failed'[w] = stop_when_try_pop_failed[w]

LEMMA Threads ==
  /\ Worker \subseteq Thread /\ Caller \subseteq Thread /\ Timer \in Thread /\ Stopper \in Thread
  /\ Stopper \in Caller /\ Stopper \notin Worker /\ Timer \notin Worker /\ Timer \notin Caller /\ Timer # Stopper
  /\ \A t \in Caller : t \notin Worker
  /\ Nil \notin Thread /\ Nil \notin Task
  BY ThreadAssumption DEF Thread

LEMMA PlaceFrame ==
  ASSUME PlaceInv, NEW t \in Thread, Others(t), \A u \in Thread \ {t} : body'[u] = body[u], PlaceOf(t)'
  PROVE  PlaceInv'
  <1> SUFFICES ASSUME NEW u \in Thread \ {t} PROVE PlaceOf(u)'
    BY DEF PlaceInv
  <1>1. PlaceOf(u) /\ probe'[u] = probe[u] /\ body'[u] = body[u] /\ (u \in Worker => func'[u] = func[u])
    BY DEF PlaceInv, Others
  <1>2. CASE pc'[u] = pc[u]
    BY <1>1, <1>2 DEF PlaceOf
  <1>3. CASE u \in Worker /\ pc[u] = "wait" /\ pc'[u] = "woken"
    BY <1>1, <1>3, Threads DEF PlaceOf, WorkerAt, Scheduling
  <1> QED BY <1>2, <1>3 DEF Others

LEMMA LockFrame ==
  ASSUME LockInv, NEW t \in Thread, Others(t), stop_' = stop_,
         \A w \in Worker \ {t} : /\ muts[w] = w => muts'[w] = w
                                 /\ task_queue[w] = <<>> /\ pc[w] = "pop" => task_queue'[w] = <<>>,
         t \in Worker => LockOf(t)',
         t = Stopper => StopLocks',
         t # Stopper => \A w \in Worker : muts[w] = Stopper => muts'[w] = Stopper
  PROVE  LockInv'
  <1>1. ASSUME NEW w \in Worker \ {t} PROVE LockOf(w)'
    <2>1. LockOf(w) /\ w \in Thread \ {t}
      BY Threads DEF LockInv
    <2>2. probe'[w] = probe[w] /\ func'[w] = func[w] /\ (pc'[w] = pc[w] \/ pc'[w] = "woken")
      BY <2>1 DEF Others
    <2> QED BY <2>1, <2>2 DEF LockOf
  <1>2. ASSUME t # Stopper PROVE StopLocks'
    <2>1. pc'[Stopper] = pc[Stopper] /\ probe'[Stopper] = probe[Stopper]
      BY <1>2, Threads DEF Others
    <2> QED BY <1>2, <2>1 DEF LockInv, StopLocks
  <1> QED BY <1>1, <1>2 DEF LockInv

LEMMA OnceFrame ==
  ASSUME OnceInv, NEW t \in Thread, Others(t), pc[t] # "notify", UNCHANGED <<body, timers, accepted, ran>>
  PROVE  OnceInv'
  <1>1. \A u \in Thread : pc[u] = "notify" => pc'[u] = "notify"
    BY DEF Others
  <1>2. body' = body /\ timers' = timers /\ accepted' = accepted /\ ran' = ran
    OBVIOUS
  <1> QED BY <1>1, <1>2 DEF OnceInv

LEMMA PlacedFrame ==
  ASSUME PlacedInv, UNCHANGED <<task_queue, func, accepted, ran>>
  PROVE  PlacedInv'
  BY DEF PlacedInv

LEMMA StopFrame ==
  ASSUME StopInv, NEW t \in Thread, Others(t), stop_' = stop_,
         \A k \in Worker : \A f : InSeq(f, task_queue'[k]) /\ f \notin late' => InSeq(f, task_queue[k]) /\ f \notin late,
         t \in Worker => /\ StopOf(t)' /\ pc[t] # "exited"
                         /\ \A k \in Worker : task_queue'[k] # <<>> /\ Visits(t, k) => Visits(t, k)',
         pc'[Stopper] = "stopped" => pc[Stopper] = "stopped" \/ \A w \in Worker : pc[w] = "exited"
  PROVE  StopInv'
  <1>1. ASSUME NEW w \in Worker \ {t} PROVE StopOf(w)' /\ \A k \in Worker : Visits(w, k) => Visits(w, k)'
    <2>1. StopOf(w) /\ w \in Thread \ {t}
      BY Threads DEF StopInv
    <2>2. /\ probe'[w] = probe[w] /\ stop_when_try_pop_failed'[w] = stop_when_try_pop_failed[w]
          /\ pc'[w] = pc[w] \/ pc'[w] = "woken"
      BY <2>1 DEF Others
    <2> QED BY <2>1, <2>2 DEF StopOf, Visits
  <1>2. \A w \in Worker : StopOf(w)'
    BY <1>1
  <1>3. ASSUME pc'[Stopper] = "stopped", NEW w \in Worker PROVE pc'[w] = "exited"
    <2>1. pc[w] = "exited"
      BY <1>3 DEF StopInv
    <2>2. w \in Thread \ {t}
      BY <2>1, Threads
    <2> QED BY <2>1, <2>2 DEF Others
  <1>4. ASSUME NEW k \in Worker, NEW f, InSeq(f, task_queue'[k]), f \notin late' PROVE \E w \in Worker : Visits(w, k)'
    <2>1. PICK w \in Worker : Visits(w, k)
      BY <1>4 DEF StopInv
    <2>2. task_queue'[k] # <<>>
      BY <1>4, EmptySeq
    <2>3. Visits(w, k)'
      BY <1>1, <2>1, <2>2
    <2> QED BY <2>3
  <1> QED BY <1>2, <1>3, <1>4 DEF StopInv

LEMMA NotifyFrame ==
  ASSUME NoLostNotify, NEW t \in Thread, Others(t), pc[t] # "notify",
         \A w \in Worker \ {t} : pc[w] = "wait" /\ task_queue'[w] # <<>> => task_queue[w] # <<>>,
         t \in Worker /\ pc'[t] = "wait" => task_queue'[t] = <<>>
  PROVE  NoLostNotify'
  <1> SUFFICES ASSUME NEW w \in Worker, pc'[w] = "wait", task_queue'[w] # <<>>
               PROVE  \E u \in Thread : pc'[u] = "notify" /\ Head(probe'[u]) = w
    BY DEF NoLostNotify
  <1>1. w \in Worker \ {t} /\ w \in Thread \ {t}
    BY Threads
  <1>2. pc[w] = "wait"
    BY <1>1 DEF Others
  <1>3. PICK u \in Thread : pc[u] = "notify" /\ Head(probe[u]) = w
    BY <1>1, <1>2 DEF NoLostNotify
  <1>4. pc'[u] = "notify" /\ probe'[u] = probe[u]
    BY <1>3 DEF Others
  <1> QED BY <1>3, <1>4

(* A step in which no task moves.                                          *)
LEMMA QuietStep ==
  ASSUME Inv, TypeOK', NEW t \in Thread, Others(t), PlaceOf(t)', pc[t] # "notify",
         UNCHANGED <<task_queue, func, body, timers, accepted, late, ran>>, stop_' = stop_,
         \A w \in Worker \ {t} : muts[w] = w => muts'[w] = w,
         t \in Worker => /\ LockOf(t)' /\ StopOf(t)' /\ pc[t] # "exited"
                         /\ \A k \in Worker : task_queue[k] # <<>> /\ Visits(t, k) => Visits(t, k)'
                         /\ pc'[t] = "wait" => task_queue[t] = <<>>,
         t = Stopper => StopLocks',
         t # Stopper => \A w \in Worker : muts[w] = Stopper => muts'[w] = Stopper,
         pc'[Stopper] = "stopped" => pc[Stopper] = "stopped" \/ \A w \in Worker : pc[w] = "exited"
  PROVE  Inv'
  <1>0. PlaceInv /\ LockInv /\ OnceInv /\ PlacedInv /\ StopInv /\ NoLostNotify
    BY DEF Inv
  <1>1. PlaceInv'
    BY <1>0, PlaceFrame
  <1>2. LockInv'
    BY <1>0, LockFrame
  <1>3. OnceInv'
    BY <1>0, OnceFrame
  <1>4. PlacedInv'
    BY <1>0, PlacedFrame
  <1>5. StopInv'
    BY <1>0, StopFrame
  <1>6. NoLostNotify'
    BY <1>0, NotifyFrame
  <1> QED BY <1>1, <1>2, <1>3, <1>4, <1>5, <1>6 DEF Inv

LEMMA InitInv ==
  ASSUME Init
  PROVE  Inv
  <1>1. /\ task_queue = [w \in Worker |-> <<>>] /\ muts = [w \in Worker |-> Nil]
        /\ func = [w \in Worker |-> Nil] /\ stop_when_try_pop_failed = [w \in Worker |-> FALSE]
        /\ ~ stop_ /\ stop_ \in BOOLEAN /\ timers = {} /\ ~ timer_stopped /\ timer_stopped \in BOOLEAN
        /\ ~ crashed /\ crashed \in BOOLEAN
        /\ accepted = {} /\ late = {} /\ ran = [f \in Task |-> 0]
    BY DEF Init
  <1>2. pc \in [Thread -> Location] /\ probe \in [Thread -> Seq(Worker)] /\ body \in [Thread -> Seq(Task)]
    <2>1. \A t \in Thread : (IF t \in Worker THEN "try" ELSE IF t = Timer THEN "idle" ELSE "call") \in Location
      BY DEF Location
    <2>2. \A t \in Thread : (IF t \in Worker THEN StartFrom(t) ELSE <<>>) \in Seq(Worker)
      BY StartFromAll
    <2>3. \A t \in Thread : (IF t \in Caller THEN Calls[t] ELSE <<>>) \in Seq(Task)
      BY TaskAssumption
    <2> QED BY <2>1, <2>2, <2>3 DEF Init
  <1>3. /\ \A w \in Worker : pc[w] = "try" /\ probe[w] = StartFrom(w) /\ body[w] = <<>>
        /\ \A c \in Caller : pc[c] = "call" /\ body[c] = Calls[c]
        /\ pc[Timer] = "idle" /\ body[Timer] = <<>>
    BY Threads DEF Init
  <1>4. \A w \in Worker : /\ task_queue[w] = <<>> /\ muts[w] = Nil /\ func[w] = Nil
                          /\ ~ stop_when_try_pop_failed[w]
    BY <1>1
  <1>5. TypeOK
    <2>1. \A w \in Worker : Len(task_queue[w]) <= QueueSize
      BY <1>4, ThreadAssumption
    <2>2. task_queue \in [Worker -> Seq(Task)] /\ muts \in [Worker -> Thread \cup {Nil}]
      BY <1>1
    <2>3. func \in [Worker -> Task \cup {Nil}] /\ stop_when_try_pop_failed \in [Worker -> BOOLEAN]
      BY <1>1
    <2> QED BY <1>1, <1>2, <2>1, <2>2, <2>3 DEF TypeOK
  <1>6. PlaceInv
    <2>1. \A w \in Worker : probe[w] # <<>>
      BY <1>3, StartFromAll
    <2>2. ASSUME NEW w \in Worker PROVE PlaceOf(w)
      BY <1>3, <1>4, <2>1, Threads DEF PlaceOf, WorkerAt, Scheduling
    <2>3. ASSUME NEW c \in Caller PROVE PlaceOf(c)
      BY <1>3, Threads DEF PlaceOf, Scheduling
    <2>4. PlaceOf(Timer)
      BY <1>3, Threads DEF PlaceOf, Scheduling
    <2> QED BY <2>2, <2>3, <2>4 DEF PlaceInv, Thread
  <1>7. LockInv
    <2>1. pc[Stopper] = "call"
      BY <1>3, Threads
    <2> QED BY <1>3, <2>1 DEF LockInv, LockOf, StopLocks
  <1>8. OnceInv
    <2>1. ASSUME NEW t \in Thread, NEW f, InSeq(f, body[t])
          PROVE  t \in Caller /\ body[t] = Calls[t] /\ \E i \in DOMAIN Calls[t] : Calls[t][i] = f
      <3>1. body[t] # <<>>
        BY <2>1, EmptySeq
      <3>2. t \in Caller
        BY <1>3, <3>1 DEF Thread
      <3> QED BY <1>3, <2>1, <3>2 DEF InSeq
    <2>2. ASSUME NEW t \in Thread PROVE NoDup(body[t])
      <3>1. CASE t \in Caller
        BY <1>3, <3>1, OnceAssumption DEF NoDup
      <3>2. CASE t \notin Caller
        BY <1>3, <3>2, EmptySeq DEF Thread
      <3> QED BY <3>1, <3>2
    <2>3. ASSUME NEW t \in Thread, NEW u \in Thread, NEW f, InSeq(f, body[t]), InSeq(f, body[u]) PROVE t = u
      BY <2>1, <2>3, OnceAssumption
    <2>4. ASSUME NEW g \in Task, NEW f, InSeq(f, Spawns[g]), NEW t \in Thread, InSeq(f, body[t]) PROVE FALSE
      BY <2>1, <2>4, OnceAssumption DEF InSeq
    <2> QED BY <1>1, <2>2, <2>3, <2>4 DEF OnceInv
  <1>9. PlacedInv
    <2>1. \A f \in Task : ran[f] = 0
      BY <1>1
    <2>2. \A f \in Task, k \in Worker : func[k] # f
      BY <1>4, Threads
    <2> QED BY <1>1, <1>4, <2>1, <2>2, EmptySeq DEF PlacedInv
  <1>10. StopInv
    <2>1. pc[Stopper] = "call"
      BY <1>3, Threads
    <2> QED BY <1>3, <1>4, <2>1, EmptySeq DEF StopInv, StopOf
  <1>11. NoLostNotify
    BY <1>3 DEF NoLostNotify
  <1> QED BY <1>5, <1>6, <1>7, <1>8, <1>9, <1>10, <1>11 DEF Inv

-----------------------------------------------------------------------------
(* Where a step leaves the threads.                                        *)

LEMMA GotoMoves ==
  ASSUME TypeOK, NEW t \in Thread, NEW l \in Location, Goto(t, l)
  PROVE  pc' \in [Thread -> Location] /\ pc'[t] = l /\ \A u \in Thread \ {t} : pc'[u] = pc[u]
  BY DEF TypeOK, Goto

LEMMA NotifyMoves ==
  ASSUME TypeOK, NEW t \in Thread, NEW l \in Location, NEW k \in Worker, pc[t] # "wait", GotoAndNotify(t, l, k)
  PROVE  /\ pc' \in [Thread -> Location] /\ pc'[t] = l
         /\ \A u \in Thread \ {t} : pc'[u] = pc[u] \/ (u \in Worker /\ pc[u] = "wait" /\ pc'[u] = "woken")
         /\ k # t => pc'[k] # "wait"
  <1>0. k \in Thread /\ pc \in [Thread -> Location] /\ "woken" \in Location
    BY Threads DEF TypeOK, Location
  <1>1. CASE pc[k] = "wait"
    <2>1. pc' = [pc EXCEPT ![t] = l, ![k] = "woken"] /\ k # t
      BY <1>1 DEF GotoAndNotify
    <2> QED BY <1>0, <1>1, <2>1
  <1>2. CASE pc[k] # "wait"
    <2>1. pc' = [pc EXCEPT ![t] = l]
      BY <1>2 DEF GotoAndNotify
    <2> QED BY <1>0, <1>2, <2>1
  <1> QED BY <1>1, <1>2

(* What the invariant says of the thread that takes the step.              *)
LEMMA At ==
  ASSUME Inv, NEW t \in Thread
  PROVE  /\ TypeOK /\ PlaceOf(t) /\ probe[t] \in Seq(Worker) /\ body[t] \in Seq(Task) /\ pc[t] \in Location
         /\ t \in Worker => /\ LockOf(t) /\ StopOf(t) /\ t # Stopper
                            /\ func[t] \in Task \cup {Nil} /\ task_queue[t] \in Seq(Task)
                            /\ (stop_when_try_pop_failed[t] \in BOOLEAN)
         /\ StopLocks
  BY Threads DEF Inv, PlaceInv, LockInv, StopInv, TypeOK

LEMMA ScheduleInv ==
  ASSUME Inv, NEW t \in Thread, Schedule(t)
  PROVE  Inv'
  <1>1. PICK k \in Worker : probe' = [probe EXCEPT ![t] = StartFrom(k)]
    BY DEF Schedule
  <1>2. /\ pc[t] \in {"run", "call"} /\ body[t] # <<>> /\ Goto(t, "push")
        /\ UNCHANGED <<task_queue, muts, func, body, stopping, timing, history, ran>>
    BY DEF Schedule
  <1>3. TypeOK /\ PlaceOf(t) /\ (t \in Worker => StopOf(t))
    BY At
  <1>4. pc' \in [Thread -> Location] /\ pc'[t] = "push" /\ \A u \in Thread \ {t} : pc'[u] = pc[u]
    BY <1>2, <1>3, GotoMoves DEF Location
  <1>5. probe' \in [Thread -> Seq(Worker)] /\ probe'[t] = StartFrom(k) /\ StartFrom(k) # <<>>
        /\ \A u \in Thread \ {t} : probe'[u] = probe[u]
    BY <1>1, <1>3, StartFromAll DEF TypeOK
  <1>6. UNCHANGED <<task_queue, muts, func, body, timers, accepted, late, ran, timer_stopped, crashed, stop_, stop_when_try_pop_failed>>
    BY <1>2 DEF stopping, timing, history
  <1>7. TypeOK'
    BY <1>3, <1>4, <1>5, <1>6 DEF TypeOK
  <1>8. Others(t)
    BY <1>4, <1>5, <1>6 DEF Others
  <1>9. PlaceOf(t)'
    BY <1>2, <1>3, <1>4, <1>5, <1>6 DEF PlaceOf, WorkerAt, Scheduling, StopAt
  <1>10. t \in Worker => /\ LockOf(t)' /\ StopOf(t)' /\ pc[t] # "exited"
                         /\ \A l \in Worker : task_queue[l] # <<>> /\ Visits(t, l) => Visits(t, l)'
    BY <1>2, <1>3, <1>4, <1>6 DEF LockOf, StopOf, Visits
  <1>11. t = Stopper => StopLocks'
    BY <1>4 DEF StopLocks
  <1>12. pc'[Stopper] = "stopped" => pc[Stopper] = "stopped"
    BY <1>4, Threads
  <1> QED BY <1>2, <1>4, <1>6, <1>7, <1>8, <1>9, <1>10, <1>11, <1>12, QuietStep

LEMMA ContinueInv ==
  ASSUME Inv, NEW w \in Worker, Continue(w)
  PROVE  Inv'
  <1>0. w \in Thread /\ w # Stopper
    BY Threads
  <1>1. /\ pc[w] = "run" /\ Goto(w, "try") /\ probe' = [probe EXCEPT ![w] = StartFrom(w)]
        /\ UNCHANGED <<task_queue, muts, func, body, timers, accepted, late, ran, timer_stopped, crashed, stop_, stop_when_try_pop_failed>>
    BY DEF Continue, stopping, timing, history
  <1>2. TypeOK /\ PlaceOf(w) /\ StopOf(w)
    BY <1>0, At
  <1>3. pc' \in [Thread -> Location] /\ pc'[w] = "try" /\ \A u \in Thread \ {w} : pc'[u] = pc[u]
    BY <1>0, <1>1, <1>2, GotoMoves DEF Location
  <1>4. probe' \in [Thread -> Seq(Worker)] /\ probe'[w] = StartFrom(w) /\ StartFrom(w) # <<>>
        /\ \A u \in Thread \ {w} : probe'[u] = probe[u]
    BY <1>0, <1>1, <1>2, StartFromAll DEF TypeOK
  <1>5. TypeOK'
    BY <1>1, <1>2, <1>3, <1>4 DEF TypeOK
  <1>6. Others(w)
    BY <1>1, <1>3, <1>4 DEF Others
  <1>7. PlaceOf(w)'
    BY <1>0, <1>1, <1>2, <1>3, <1>4, Threads DEF PlaceOf, WorkerAt, Scheduling
  <1>8. LockOf(w)' /\ StopOf(w)' /\ pc[w] # "exited" /\ \A l \in Worker : Visits(w, l)'
    <2>1. \A l \in Worker : InSeq(l, probe'[w])
      BY <1>4, StartFromAll
    <2> QED BY <1>1, <1>2, <1>3, <2>1 DEF LockOf, StopOf, Visits
  <1>9. pc'[Stopper] = "stopped" => pc[Stopper] = "stopped"
    BY <1>0, <1>3, Threads
  <1> QED BY <1>0, <1>1, <1>3, <1>5, <1>6, <1>7, <1>8, <1>9, QuietStep

LEMMA PredicateInv ==
  ASSUME Inv, NEW w \in Worker, Predicate(w)
  PROVE  Inv'
  <1>0. w \in Thread /\ w # Stopper
    BY Threads
  <1>1. /\ pc[w] \in {"lock", "woken"} /\ muts[w] = Nil /\ muts' = [muts EXCEPT ![w] = w]
        /\ Goto(w, IF stop_ THEN "awake" ELSE "pop") /\ probe' = [probe EXCEPT ![w] = StartFrom(w)]
        /\ UNCHANGED <<task_queue, func, body, timers, accepted, late, ran, timer_stopped, crashed, stop_, stop_when_try_pop_failed>>
    BY DEF Predicate, stopping, timing, history
  <1>2. TypeOK /\ PlaceOf(w) /\ StopOf(w)
    BY <1>0, At
  <1>3. PICK l \in Location : l = (IF stop_ THEN "awake" ELSE "pop")
    BY DEF Location
  <1>4. pc' \in [Thread -> Location] /\ pc'[w] = l /\ \A u \in Thread \ {w} : pc'[u] = pc[u]
    BY <1>0, <1>1, <1>2, <1>3, GotoMoves
  <1>5. probe' \in [Thread -> Seq(Worker)] /\ probe'[w] = StartFrom(w) /\ StartFrom(w) # <<>>
        /\ \A u \in Thread \ {w} : probe'[u] = probe[u]
    BY <1>0, <1>1, <1>2, StartFromAll DEF TypeOK
  <1>6. /\ muts' \in [Worker -> Thread \cup {Nil}] /\ muts'[w] = w
        /\ \A v \in Worker \ {w} : muts'[v] = muts[v]
    BY <1>0, <1>1, <1>2 DEF TypeOK
  <1>7. TypeOK'
    BY <1>1, <1>2, <1>4, <1>5, <1>6 DEF TypeOK
  <1>8. Others(w)
    BY <1>1, <1>4, <1>5 DEF Others
  <1>9. func[w] = Nil
    BY <1>1, <1>2 DEF PlaceOf
  <1>10. PlaceOf(w)'
    BY <1>0, <1>1, <1>2, <1>3, <1>4, <1>5, <1>9, Threads DEF PlaceOf, WorkerAt, Scheduling
  <1>11. LockOf(w)' /\ StopOf(w)' /\ pc[w] # "exited" /\ \A k \in Worker : Visits(w, k)'
    BY <1>1, <1>2, <1>3, <1>4, <1>5, <1>6, <1>9 DEF LockOf, StopOf, Visits
  <1>12. pc'[Stopper] = "stopped" => pc[Stopper] = "stopped"
    BY <1>0, <1>4, Threads
  <1>13. \A v \in Worker : muts[v] = Stopper => muts'[v] = Stopper
    BY <1>1, <1>6, Threads
  <1>14. pc[w] # "notify" /\ pc'[w] # "wait"
    BY <1>1, <1>3, <1>4
  <1> QED BY <1>0, <1>1, <1>6, <1>7, <1>8, <1>10, <1>11, <1>12, <1>13, <1>14, QuietStep

LEMMA SpuriousInv ==
  ASSUME Inv, NEW w \in Worker, SpuriousWakeUp(w)
  PROVE  Inv'
  <1>0. w \in Thread /\ w # Stopper
    BY Threads
  <1>1. /\ pc[w] = "wait" /\ Goto(w, "woken")
        /\ UNCHANGED <<task_queue, muts, probe, func, body, timers, accepted, late, ran, timer_stopped, crashed, stop_, stop_when_try_pop_failed>>
    BY DEF SpuriousWakeUp, stopping, timing, history
  <1>2. TypeOK /\ PlaceOf(w) /\ StopOf(w)
    BY <1>0, At
  <1>3. pc' \in [Thread -> Location] /\ pc'[w] = "woken" /\ \A u \in Thread \ {w} : pc'[u] = pc[u]
    BY <1>0, <1>1, <1>2, GotoMoves DEF Location
  <1>4. TypeOK'
    BY <1>1, <1>2, <1>3 DEF TypeOK
  <1>5. Others(w)
    BY <1>1, <1>3 DEF Others
  <1>6. PlaceOf(w)'
    BY <1>0, <1>1, <1>2, <1>3, Threads DEF PlaceOf, WorkerAt, Scheduling
  <1>7. LockOf(w)' /\ StopOf(w)' /\ \A l \in Worker : Visits(w, l)'
    BY <1>1, <1>2, <1>3 DEF LockOf, StopOf, Visits
  <1>8. pc'[Stopper] = "stopped" => pc[Stopper] = "stopped"
    BY <1>0, <1>3, Threads
  <1> QED BY <1>0, <1>1, <1>3, <1>4, <1>5, <1>6, <1>7, <1>8, QuietStep

(* A try_pop that finds its queue empty: the loop goes on with the rest of *)
(* the queues, or has seen them all.                                       *)
LEMMA MissInv ==
  ASSUME Inv, NEW w \in Worker, pc[w] \in {"try", "pop"}, NEW l \in Location,
         task_queue[Head(probe[w])] = <<>>, probe' = [probe EXCEPT ![w] = Tail(@)],
         pc' \in [Thread -> Location], pc'[w] = l, \A u \in Thread \ {w} : pc'[u] = pc[u],
         UNCHANGED <<task_queue, func, body, timers, accepted, late, ran, timer_stopped, crashed, stop_, stop_when_try_pop_failed>>,
         \/ Len(probe[w]) > 1 /\ l = pc[w] /\ muts' = muts
         \/ /\ Len(probe[w]) = 1 /\ pc[w] = "try" /\ muts' = muts
            /\ l = (IF stop_when_try_pop_failed[w] THEN "exited" ELSE "lock")
         \/ Len(probe[w]) = 1 /\ pc[w] = "pop" /\ muts' = [muts EXCEPT ![w] = Nil] /\ l = "wait"
  PROVE  Inv'
  <1>0. w \in Thread /\ w # Stopper
    BY Threads
  <1>1. TypeOK /\ PlaceOf(w) /\ LockOf(w) /\ StopOf(w) /\ probe[w] \in Seq(Worker) /\ probe[w] # <<>>
    BY <1>0, At DEF PlaceOf
  <1>2. /\ probe' \in [Thread -> Seq(Worker)] /\ probe'[w] = Tail(probe[w])
        /\ \A u \in Thread \ {w} : probe'[u] = probe[u]
    BY <1>0, <1>1, HeadTail DEF TypeOK
  <1>3. /\ muts' \in [Worker -> Thread \cup {Nil}] /\ \A v \in Worker \ {w} : muts'[v] = muts[v]
        /\ l # "wait" => muts'[w] = muts[w]
    BY <1>1 DEF TypeOK
  <1>4. /\ Head(probe[w]) \in Worker /\ Len(probe[w]) \in Nat
        /\ \A k : InSeq(k, probe[w]) <=> k = Head(probe[w]) \/ InSeq(k, Tail(probe[w]))
        /\ Len(probe[w]) = 1 => Tail(probe[w]) = <<>>
        /\ Len(probe[w]) # 1 => Tail(probe[w]) # <<>>
    BY <1>1, HeadTail
  <1>5. TypeOK'
    BY <1>1, <1>2, <1>3 DEF TypeOK
  <1>6. Others(w)
    BY <1>2 DEF Others
  <1>7. PlaceOf(w)'
    <2>0. Len(probe[w]) > 1 => Len(probe[w]) # 1
      BY <1>4
    <2>1. l \in {"try", "pop", "exited", "lock", "wait"} /\ (l \in {"try", "pop"} => Len(probe[w]) # 1)
      <3>1. CASE Len(probe[w]) > 1 /\ l = pc[w]
        BY <2>0, <3>1
      <3>2. CASE l = (IF stop_when_try_pop_failed[w] THEN "exited" ELSE "lock")
        BY <3>2
      <3>3. CASE l = "wait"
        BY <3>3
      <3> QED BY <3>1, <3>2, <3>3
    <2>2. l \in {"try", "pop"} => probe'[w] # <<>>
      BY <1>2, <1>4, <2>1
    <2>3. func[w] = Nil
      BY <1>1 DEF PlaceOf
    <2> QED BY <1>0, <2>1, <2>2, <2>3, Threads DEF PlaceOf, WorkerAt, Scheduling
  <1>8. pc[w] = "pop" => task_queue[w] = <<>>
    BY <1>1, StartFromAll DEF LockOf
  <1>9. LockOf(w)'
    <2>1. l = "pop" => pc[w] = "pop" /\ muts'[w] = muts[w]
      BY <1>3
    <2>2. l # "awake"
      OBVIOUS
    <2> QED BY <1>1, <1>8, <2>1, <2>2 DEF LockOf
  <1>10. StopOf(w)'
    BY <1>1 DEF StopOf
  <1>11. ASSUME NEW k \in Worker, task_queue[k] # <<>>, Visits(w, k) PROVE Visits(w, k)'
    <2>1. pc[w] = "try" /\ stop_when_try_pop_failed[w] => InSeq(k, Tail(probe[w]))
      BY <1>4, <1>11 DEF Visits
    <2>2. pc[w] = "try" /\ stop_when_try_pop_failed[w] => Len(probe[w]) # 1
      BY <1>4, <2>1, EmptySeq
    <2>3. l = "exited" => pc[w] = "try" /\ stop_when_try_pop_failed[w] /\ Len(probe[w]) = 1
      BY <1>4
    <2>4. l = "try" => pc[w] = "try"
      OBVIOUS
    <2> QED BY <1>2, <2>1, <2>2, <2>3, <2>4 DEF Visits
  <1>12. pc'[Stopper] = "stopped" => pc[Stopper] = "stopped"
    BY <1>0, Threads
  <1>13. \A v \in Worker : muts[v] = Stopper => muts'[v] = Stopper
    <2>1. pc[w] = "pop" => muts[w] = w
      BY <1>1 DEF LockOf
    <2>2. l = "wait" => pc[w] = "pop"
      OBVIOUS
    <2> QED BY <1>0, <1>3, <2>1, <2>2
  <1>14. pc[w] # "notify" /\ pc[w] # "exited" /\ (pc'[w] = "wait" => task_queue[w] = <<>>)
    BY <1>8
  <1> QED BY <1>0, <1>3, <1>5, <1>6, <1>7, <1>9, <1>10, <1>11, <1>12, <1>13, <1>14, QuietStep

-----------------------------------------------------------------------------
(* Stop.                                                                   *)

(* A step of Stop or of the end of the timers' thread: no task moves.      *)
LEMMA StopStep ==
  ASSUME Inv, NEW t \in {Timer, Stopper}, NEW l \in Location,
         pc' \in [Thread -> Location], pc'[t] = l,
         \A u \in Thread \ {t} : pc'[u] = pc[u] \/ (u \in Worker /\ pc[u] = "wait" /\ pc'[u] = "woken"),
         pc[t] # "notify", t = Timer => l = "exited", t = Stopper => l \in StopAt /\ StopLocks',
         probe' \in [Thread -> Seq(Worker)], \A u \in Thread \ {t} : probe'[u] = probe[u],
         muts' \in [Worker -> Thread \cup {Nil}], \A w \in Worker : muts[w] = w => muts'[w] = w,
         t = Timer => muts' = muts,
         timer_stopped' \in BOOLEAN,
         UNCHANGED <<task_queue, func, body, timers, accepted, late, ran, crashed, stop_, stop_when_try_pop_failed>>,
         t = Stopper /\ l = "stopped" => \A w \in Worker : pc[w] = "exited"
  PROVE  Inv'
  <1>0. t \in Thread /\ t \notin Worker
    BY Threads
  <1>1. TypeOK
    BY DEF Inv
  <1>2. TypeOK'
    BY <1>1 DEF TypeOK
  <1>3. Others(t)
    BY DEF Others
  <1>4. PlaceOf(t)'
    <2>1. CASE t = Timer
      BY <1>0, <2>1, Threads DEF PlaceOf, Scheduling
    <2>2. CASE t = Stopper
      BY <1>0, <2>2, Threads DEF PlaceOf, Scheduling, StopAt
    <2> QED BY <2>1, <2>2
  <1>5. pc'[Stopper] = "stopped" => pc[Stopper] = "stopped" \/ \A w \in Worker : pc[w] = "exited"
    BY <1>0, Threads
  <1> QED BY <1>0, <1>2, <1>3, <1>4, <1>5, QuietStep

LEMMA StopTimerInv ==
  ASSUME Inv, StopTimer
  PROVE  Inv'
  <1>1. /\ pc[Stopper] = "call" /\ timer_stopped' = TRUE /\ Goto(Stopper, "timer_join")
        /\ UNCHANGED <<task_queue, muts, probe, func, body, timers, accepted, late, ran, crashed, stop_, stop_when_try_pop_failed>>
    BY DEF StopTimer, stopping, history
  <1>2. TypeOK
    BY DEF Inv
  <1>3. pc' \in [Thread -> Location] /\ pc'[Stopper] = "timer_join" /\ \A u \in Thread \ {Stopper} : pc'[u] = pc[u]
    BY <1>1, <1>2, Threads, GotoMoves DEF Location
  <1>4. "timer_join" \in Location /\ "timer_join" \in StopAt /\ StopLocks' /\ Timer # Stopper
    BY <1>3, Threads DEF Location, StopAt, StopLocks
  <1> QED BY <1>1, <1>2, <1>3, <1>4, StopStep DEF TypeOK

LEMMA TimerExitsInv ==
  ASSUME Inv, TimerExits
  PROVE  Inv'
  <1>1. /\ pc[Timer] = "idle" /\ Goto(Timer, "exited")
        /\ UNCHANGED <<task_queue, muts, probe, func, body, timers, accepted, late, ran, crashed, timer_stopped, stop_, stop_when_try_pop_failed>>
    BY DEF TimerExits, stopping, history, timing
  <1>2. TypeOK
    BY DEF Inv
  <1>3. pc' \in [Thread -> Location] /\ pc'[Timer] = "exited" /\ \A u \in Thread \ {Timer} : pc'[u] = pc[u]
    BY <1>1, <1>2, Threads, GotoMoves DEF Location
  <1>4. "exited" \in Location /\ Timer # Stopper
    BY Threads DEF Location
  <1> QED BY <1>1, <1>2, <1>3, <1>4, StopStep DEF TypeOK

LEMMA TimerJoinedInv ==
  ASSUME Inv, TimerJoined
  PROVE  Inv'
  <1>1. /\ pc[Stopper] = "timer_join" /\ Goto(Stopper, "stop_lock") /\ probe' = [probe EXCEPT ![Stopper] = StartFrom(0)]
        /\ UNCHANGED <<task_queue, muts, func, body, timers, accepted, late, ran, crashed, timer_stopped, stop_, stop_when_try_pop_failed>>
    BY DEF TimerJoined, stopping, history, timing
  <1>2. TypeOK
    BY DEF Inv
  <1>3. pc' \in [Thread -> Location] /\ pc'[Stopper] = "stop_lock" /\ \A u \in Thread \ {Stopper} : pc'[u] = pc[u]
    BY <1>1, <1>2, Threads, GotoMoves DEF Location
  <1>4. "stop_lock" \in Location /\ "stop_lock" \in StopAt /\ Timer # Stopper
    BY Threads DEF Location, StopAt
  <1>5. /\ StartFrom(0) \in Seq(Worker) /\ StartFrom(0) # <<>> /\ NoDup(StartFrom(0))
        /\ \A w \in Worker : InSeq(w, StartFrom(0))
    BY Workers, StartFromAll
  <1>6. /\ probe' \in [Thread -> Seq(Worker)] /\ probe'[Stopper] = StartFrom(0)
        /\ \A u \in Thread \ {Stopper} : probe'[u] = probe[u]
    BY <1>1, <1>2, <1>5, Threads DEF TypeOK
  <1>7. StopLocks'
    BY <1>3, <1>5, <1>6 DEF StopLocks
  <1> QED BY <1>1, <1>2, <1>3, <1>4, <1>6, <1>7, StopStep DEF TypeOK

LEMMA StopLockInv ==
  ASSUME Inv, StopLock
  PROVE  Inv'
  <1>0. TypeOK /\ StopLocks /\ probe[Stopper] \in Seq(Worker)
    BY Threads, At
  <1>1. /\ pc[Stopper] = "stop_lock" /\ muts[Head(probe[Stopper])] = Nil
        /\ muts' = [muts EXCEPT ![Head(probe[Stopper])] = Stopper]
        /\ Goto(Stopper, IF Len(probe[Stopper]) = 1 THEN "stop_set" ELSE "stop_lock")
        /\ probe' = [probe EXCEPT ![Stopper] = Tail(@)]
        /\ UNCHANGED <<task_queue, func, body, timers, accepted, late, ran, crashed, timer_stopped, stop_, stop_when_try_pop_failed>>
    BY DEF StopLock, stopping, history, timing
  <1>2. probe[Stopper] # <<>> /\ NoDup(probe[Stopper])
    BY <1>0, <1>1 DEF StopLocks
  <1>3. PICK p \in Seq(Worker) : p = probe[Stopper]
    BY <1>0
  <1>4. /\ Head(p) \in Worker /\ Tail(p) \in Seq(Worker) /\ NoDup(Tail(p)) /\ ~ InSeq(Head(p), Tail(p))
        /\ \A w : InSeq(w, p) <=> w = Head(p) \/ InSeq(w, Tail(p))
        /\ Len(p) = 1 => Tail(p) = <<>>
        /\ Len(p) # 1 => Tail(p) # <<>>
    BY <1>2, <1>3, HeadTail
  <1>5. PICK l \in Location : l = (IF Len(p) = 1 THEN "stop_set" ELSE "stop_lock")
    BY DEF Location
  <1>6. pc' \in [Thread -> Location] /\ pc'[Stopper] = l /\ \A u \in Thread \ {Stopper} : pc'[u] = pc[u]
    BY <1>0, <1>1, <1>3, <1>5, Threads, GotoMoves
  <1>7. l \in StopAt /\ l \in {"stop_set", "stop_lock"} /\ Timer # Stopper
    BY <1>5, Threads DEF StopAt
  <1>8. /\ probe' \in [Thread -> Seq(Worker)] /\ probe'[Stopper] = Tail(p)
        /\ \A u \in Thread \ {Stopper} : probe'[u] = probe[u]
    BY <1>0, <1>1, <1>3, <1>4, Threads DEF TypeOK
  <1>9. /\ muts' \in [Worker -> Thread \cup {Nil}] /\ muts'[Head(p)] = Stopper /\ muts[Head(p)] = Nil
        /\ \A w \in Worker : w # Head(p) => muts'[w] = muts[w]
    BY <1>0, <1>1, <1>3, <1>4, Threads DEF TypeOK
  <1>10. \A w \in Worker : muts[w] = w => muts'[w] = w
    BY <1>9, Threads
  <1>11. StopLocks'
    <2>1. \A w \in Worker : InSeq(w, Tail(p)) \/ muts'[w] = Stopper
      BY <1>0, <1>1, <1>3, <1>4, <1>9 DEF StopLocks
    <2>2. l = "stop_set" => \A w \in Worker : muts'[w] = Stopper
      BY <1>4, <1>5, <2>1, EmptySeq
    <2>3. l = "stop_lock" => Tail(p) # <<>>
      BY <1>4, <1>5
    <2> QED BY <1>4, <1>6, <1>7, <1>8, <2>1, <2>2, <2>3 DEF StopLocks
  <1> QED BY <1>0, <1>1, <1>6, <1>7, <1>8, <1>9, <1>10, <1>11, StopStep DEF TypeOK

LEMMA StopUnlockInv ==
  ASSUME Inv, StopUnlock
  PROVE  Inv'
  <1>0. TypeOK /\ StopLocks /\ probe[Stopper] \in Seq(Worker)
    BY Threads, At
  <1>1. /\ pc[Stopper] = "stop_unlock" /\ muts' = [muts EXCEPT ![Head(probe[Stopper])] = Nil]
        /\ Goto(Stopper, "stop_notify")
        /\ UNCHANGED <<task_queue, probe, func, body, timers, accepted, late, ran, crashed, timer_stopped, stop_, stop_when_try_pop_failed>>
    BY DEF StopUnlock, stopping, history, timing
  <1>2. probe[Stopper] # <<>> /\ NoDup(probe[Stopper])
    BY <1>0, <1>1 DEF StopLocks
  <1>3. PICK p \in Seq(Worker) : p = probe[Stopper]
    BY <1>0
  <1>4. /\ Head(p) \in Worker /\ ~ InSeq(Head(p), Tail(p)) /\ InSeq(Head(p), p)
        /\ \A w : InSeq(w, p) <=> w = Head(p) \/ InSeq(w, Tail(p))
    BY <1>2, <1>3, HeadTail
  <1>5. pc' \in [Thread -> Location] /\ pc'[Stopper] = "stop_notify" /\ \A u \in Thread \ {Stopper} : pc'[u] = pc[u]
    BY <1>0, <1>1, Threads, GotoMoves DEF Location
  <1>6. "stop_notify" \in Location /\ "stop_notify" \in StopAt /\ Timer # Stopper
    BY Threads DEF StopAt, Location
  <1>7. \A w \in Worker : InSeq(w, p) => muts[w] = Stopper
    BY <1>0, <1>1, <1>3 DEF StopLocks
  <1>8. /\ muts' \in [Worker -> Thread \cup {Nil}] /\ muts[Head(p)] = Stopper
        /\ \A w \in Worker : w # Head(p) => muts'[w] = muts[w]
    BY <1>0, <1>1, <1>3, <1>4, <1>7, Threads DEF TypeOK
  <1>9. \A w \in Worker : muts[w] = w => muts'[w] = w
    BY <1>8, Threads
  <1>10. StopLocks'
    <2>1. \A w \in Worker : InSeq(w, Tail(p)) => muts'[w] = Stopper
      BY <1>4, <1>7, <1>8
    <2>2. probe'[Stopper] = p
      BY <1>1, <1>3
    <2> QED BY <1>2, <1>3, <1>5, <2>1, <2>2 DEF StopLocks
  <1> QED BY <1>0, <1>1, <1>5, <1>6, <1>8, <1>9, <1>10, StopStep DEF TypeOK

LEMMA StopNotifyInv ==
  ASSUME Inv, StopNotify
  PROVE  Inv'
  <1>0. TypeOK /\ StopLocks /\ probe[Stopper] \in Seq(Worker)
    BY Threads, At
  <1>1. /\ pc[Stopper] = "stop_notify" /\ probe' = [probe EXCEPT ![Stopper] = Tail(@)]
        /\ GotoAndNotify(Stopper, AfterStopNotify, Head(probe[Stopper]))
        /\ UNCHANGED <<task_queue, muts, func, body, timers, accepted, late, ran, crashed, timer_stopped, stop_, stop_when_try_pop_failed>>
    BY DEF StopNotify, stopping, history, timing
  <1>2. probe[Stopper] # <<>> /\ NoDup(probe[Stopper])
    BY <1>0, <1>1 DEF StopLocks
  <1>3. PICK p \in Seq(Worker) : p = probe[Stopper]
    BY <1>0
  <1>4. /\ Head(p) \in Worker /\ Tail(p) \in Seq(Worker) /\ NoDup(Tail(p))
        /\ Len(p) # 1 => Tail(p) # <<>>
    BY <1>2, <1>3, HeadTail
  <1>5. PICK l \in Location : l = AfterStopNotify
    BY DEF Location, AfterStopNotify
  <1>5a. l = (IF Len(p) = 1 THEN "join" ELSE "stop_unlock")
    BY <1>3, <1>5 DEF AfterStopNotify
  <1>6. PICK k \in Worker : k = Head(p)
    BY <1>4
  <1>6a. GotoAndNotify(Stopper, l, k) /\ pc[Stopper] # "wait"
    BY <1>1, <1>3, <1>5, <1>6
  <1>7. /\ pc' \in [Thread -> Location] /\ pc'[Stopper] = l
        /\ \A u \in Thread \ {Stopper} : pc'[u] = pc[u] \/ (u \in Worker /\ pc[u] = "wait" /\ pc'[u] = "woken")
    BY <1>0, <1>6a, Threads, NotifyMoves
  <1>8. l \in StopAt /\ l \in {"join", "stop_unlock"} /\ Timer # Stopper
    BY <1>5a, Threads DEF StopAt
  <1>9. /\ probe' \in [Thread -> Seq(Worker)] /\ probe'[Stopper] = Tail(p)
        /\ \A u \in Thread \ {Stopper} : probe'[u] = probe[u]
    BY <1>0, <1>1, <1>3, <1>4, Threads DEF TypeOK
  <1>10. StopLocks'
    <2>1. \A w \in Worker : InSeq(w, Tail(p)) => muts'[w] = Stopper
      BY <1>0, <1>1, <1>3 DEF StopLocks
    <2>2. l = "stop_unlock" => Tail(p) # <<>>
      BY <1>4, <1>5a
    <2> QED BY <1>4, <1>7, <1>8, <1>9, <2>1, <2>2 DEF StopLocks
  <1> QED BY <1>0, <1>1, <1>7, <1>8, <1>9, <1>10, StopStep DEF TypeOK

LEMMA JoinInv ==
  ASSUME Inv, Join
  PROVE  Inv'
  <1>1. /\ pc[Stopper] = "join" /\ Goto(Stopper, "stopped") /\ \A w \in Worker : pc[w] = "exited"
        /\ UNCHANGED <<task_queue, muts, probe, func, body, timers, accepted, late, ran, crashed, timer_stopped, stop_, stop_when_try_pop_failed>>
    BY DEF Join, stopping, history, timing
  <1>2. TypeOK
    BY DEF Inv
  <1>3. pc' \in [Thread -> Location] /\ pc'[Stopper] = "stopped" /\ \A u \in Thread \ {Stopper} : pc'[u] = pc[u]
    BY <1>1, <1>2, Threads, GotoMoves DEF Location
  <1>4. "stopped" \in Location /\ "stopped" \in StopAt /\ StopLocks' /\ Timer # Stopper
    BY <1>3, Threads DEF Location, StopAt, StopLocks
  <1> QED BY <1>1, <1>2, <1>3, <1>4, StopStep DEF TypeOK

(* stop_ is set while Stopper has all mutexes, so no worker is between its *)
(* two looks at it.                                                        *)
LEMMA StopSetInv ==
  ASSUME Inv, StopSet
  PROVE  Inv'
  <1>1. /\ pc[Stopper] = "stop_set" /\ stop_' = TRUE /\ Goto(Stopper, "stop_unlock")
        /\ probe' = [probe EXCEPT ![Stopper] = StartFrom(0)]
        /\ UNCHANGED <<task_queue, muts, func, body, timers, accepted, late, ran, crashed, timer_stopped, stop_when_try_pop_failed>>
    BY DEF StopSet, history, timing
  <1>2. /\ TypeOK /\ PlaceInv /\ OnceInv /\ PlacedInv /\ StopInv /\ NoLostNotify
        /\ (\A w \in Worker : LockOf(w)) /\ StopLocks
    BY DEF Inv, LockInv
  <1>3. pc' \in [Thread -> Location] /\ pc'[Stopper] = "stop_unlock" /\ \A u \in Thread \ {Stopper} : pc'[u] = pc[u]
    BY <1>1, <1>2, Threads, GotoMoves DEF Location
  <1>4. /\ StartFrom(0) \in Seq(Worker) /\ StartFrom(0) # <<>> /\ NoDup(StartFrom(0))
    BY Workers, StartFromAll
  <1>5. /\ probe' \in [Thread -> Seq(Worker)] /\ probe'[Stopper] = StartFrom(0)
        /\ \A u \in Thread \ {Stopper} : probe'[u] = probe[u]
    BY <1>1, <1>2, <1>4, Threads DEF TypeOK
  <1>6. \A w \in Worker : muts'[w] = Stopper /\ pc'[w] = pc[w] /\ pc[w] \notin {"pop", "awake"}
    <2> SUFFICES ASSUME NEW w \in Worker PROVE muts'[w] = Stopper /\ pc'[w] = pc[w] /\ pc[w] \notin {"pop", "awake"}
      OBVIOUS
    <2>1. muts[w] = Stopper /\ w # Stopper /\ w \in Thread
      BY <1>1, <1>2, Threads DEF StopLocks
    <2> QED BY <1>1, <1>2, <1>3, <2>1 DEF LockOf
  <1>7. TypeOK'
    BY <1>1, <1>2, <1>3, <1>5 DEF TypeOK
  <1>8. Others(Stopper)
    BY <1>1, <1>3, <1>5 DEF Others
  <1>9. PlaceInv'
    <2>1. PlaceOf(Stopper)'
      BY <1>3, Threads DEF PlaceOf, Scheduling, StopAt
    <2> QED BY <1>1, <1>2, <1>8, <2>1, Threads, PlaceFrame
  <1>10. LockInv'
    BY <1>3, <1>4, <1>5, <1>6 DEF LockInv, LockOf, StopLocks
  <1>11. OnceInv' /\ PlacedInv' /\ NoLostNotify'
    <2>1. OnceInv'
      BY <1>1, <1>2, <1>8, Threads, OnceFrame
    <2>2. PlacedInv'
      BY <1>1, <1>2, PlacedFrame
    <2>3. NoLostNotify'
      BY <1>1, <1>2, <1>8, Threads, NotifyFrame
    <2> QED BY <2>1, <2>2, <2>3
  <1>12. StopInv'
    <2>1. \A w \in Worker : StopOf(w)' /\ \A k \in Worker : Visits(w, k) => Visits(w, k)'
      <3> SUFFICES ASSUME NEW w \in Worker PROVE StopOf(w)' /\ \A k \in Worker : Visits(w, k) => Visits(w, k)'
        OBVIOUS
      <3>1. pc'[w] = pc[w] /\ probe'[w] = probe[w] /\ StopOf(w)
        BY <1>2, <1>5, <1>6, Threads DEF StopInv
      <3> QED BY <1>1, <3>1 DEF StopOf, Visits
    <2>2. pc'[Stopper] # "stopped"
      BY <1>3
    <2>3. ASSUME NEW k \in Worker, NEW f, InSeq(f, task_queue'[k]), f \notin late' PROVE \E w \in Worker : Visits(w, k)'
      <3>1. PICK w \in Worker : Visits(w, k)
        BY <1>1, <1>2, <2>3 DEF StopInv
      <3> QED BY <2>1, <3>1
    <2> QED BY <2>1, <2>2, <2>3 DEF StopInv
  <1> QED BY <1>7, <1>9, <1>10, <1>11, <1>12 DEF Inv

-----------------------------------------------------------------------------
(* schedule.                                                               *)

Outside == {"run", "call", "idle"} \cup Scheduling

(* A step in which the queues are left alone and a call of schedule begins *)
(* or ends.                                                                *)
LEMMA BodyStep ==
  ASSUME Inv, TypeOK', NEW t \in Thread, Others(t), PlaceOf(t)', OnceInv', NoLostNotify',
         pc[t] \in Outside, pc'[t] \in Outside,
         \A u \in Thread \ {t} : body'[u] = body[u],
         UNCHANGED <<task_queue, muts, func, accepted, late, ran, stop_, stop_when_try_pop_failed>>
  PROVE  Inv'
  <1>0. PlaceInv /\ LockInv /\ PlacedInv /\ StopInv
    BY DEF Inv
  <1>1. PlaceInv'
    BY <1>0, PlaceFrame
  <1>2. LockInv'
    <2>1. LockOf(t)' /\ (t = Stopper => StopLocks')
      BY DEF LockOf, StopLocks, Outside, Scheduling
    <2> QED BY <1>0, <2>1, LockFrame
  <1>3. PlacedInv'
    BY <1>0, PlacedFrame
  <1>4. StopInv'
    <2>1. t \in Worker => /\ StopOf(t)' /\ pc[t] # "exited"
                          /\ \A k \in Worker : task_queue'[k] # <<>> /\ Visits(t, k) => Visits(t, k)'
      BY <1>0 DEF StopInv, StopOf, Visits, Outside, Scheduling
    <2>2. pc'[Stopper] = "stopped" => pc[Stopper] = "stopped"
      BY Threads DEF Others, Outside, Scheduling
    <2> QED BY <1>0, <2>1, <2>2, StopFrame
  <1> QED BY <1>1, <1>2, <1>3, <1>4 DEF Inv

(* A call of schedule has returned, and may have set a timer.              *)
LEMMA DropOnce ==
  ASSUME OnceInv, NEW t \in Thread, Others(t), body[t] \in Seq(Task), body[t] # <<>>,
         body'[t] = Tail(body[t]), \A u \in Thread \ {t} : body'[u] = body[u],
         \/ timers' = timers
         \/ timers' = timers \cup {Head(body[t])} /\ pc[t] # "notify",
         UNCHANGED <<accepted, ran>>
  PROVE  OnceInv'
  <1>1. /\ \A f : InSeq(f, body[t]) <=> f = Head(body[t]) \/ InSeq(f, Tail(body[t]))
        /\ NoDup(Tail(body[t])) /\ ~ InSeq(Head(body[t]), Tail(body[t])) /\ InSeq(Head(body[t]), body[t])
    BY HeadTail DEF OnceInv
  <1>2. PICK h : h = Head(body[t])
    OBVIOUS
  <1>3. \A u \in Thread : \A f : InSeq(f, body'[u]) => InSeq(f, body[u]) /\ f # h
    BY <1>1, <1>2 DEF OnceInv
  <1>4. ASSUME NEW u \in Thread, NEW f, InSeq(f, body'[u]), f \in accepted'
        PROVE  pc'[u] = "notify" /\ f = Head(body'[u])
    <2>1. InSeq(f, body[u]) /\ f # h /\ f \in accepted
      BY <1>3, <1>4
    <2>2. pc[u] = "notify" /\ f = Head(body[u])
      BY <2>1 DEF OnceInv
    <2>3. u # t
      BY <1>2, <2>1, <2>2
    <2> QED BY <2>2, <2>3 DEF Others
  <1>5. \A f : f \in timers' => f \in timers \/ (f = h /\ pc[t] # "notify")
    BY <1>2
  <1>6. accepted' \cap timers' = {}
    BY <1>1, <1>2, <1>5 DEF OnceInv
  <1>7. ASSUME NEW g \in Task, ran'[g] = 0, NEW f, InSeq(f, Spawns[g])
        PROVE  f \notin accepted' \cup timers' /\ \A u \in Thread : ~ InSeq(f, body'[u])
    <2>1. f \notin accepted \cup timers /\ \A u \in Thread : ~ InSeq(f, body[u])
      BY <1>7 DEF OnceInv
    <2>2. f # h
      BY <1>1, <1>2, <2>1
    <2> QED BY <1>3, <1>5, <2>1, <2>2
  <1>8. \A u \in Thread : NoDup(body'[u])
    BY <1>1 DEF OnceInv
  <1>9. \A u \in Thread : \A f : InSeq(f, body'[u]) => f \notin timers'
    BY <1>3, <1>5 DEF OnceInv
  <1>10. \A u, v \in Thread : \A f : InSeq(f, body'[u]) /\ InSeq(f, body'[v]) => u = v
    BY <1>3 DEF OnceInv
  <1> QED BY <1>4, <1>6, <1>7, <1>8, <1>9, <1>10 DEF OnceInv

LEMMA PushTimerInv ==
  ASSUME Inv, NEW t \in Thread, PushTimer(t)
  PROVE  Inv'
  <1>1. /\ pc[t] \in {"run", "call"} /\ body[t] # <<>> /\ timers' = timers \cup {Head(body[t])}
        /\ body' = [body EXCEPT ![t] = Tail(@)]
        /\ UNCHANGED <<task_queue, muts, pc, probe, func, accepted, late, ran, timer_stopped, crashed, stop_, stop_when_try_pop_failed>>
    BY DEF PushTimer, ScheduleReturns, stopping, history
  <1>2. TypeOK /\ PlaceOf(t) /\ body[t] \in Seq(Task) /\ OnceInv /\ NoLostNotify
    BY At DEF Inv
  <1>3. Head(body[t]) \in Task /\ Tail(body[t]) \in Seq(Task)
    BY <1>1, <1>2, HeadTail
  <1>4. body' \in [Thread -> Seq(Task)] /\ body'[t] = Tail(body[t]) /\ \A u \in Thread \ {t} : body'[u] = body[u]
    BY <1>1, <1>2, <1>3 DEF TypeOK
  <1>5. TypeOK'
    BY <1>1, <1>2, <1>3, <1>4 DEF TypeOK
  <1>6. Others(t)
    BY <1>1 DEF Others
  <1>7. PlaceOf(t)'
    BY <1>1, <1>2 DEF PlaceOf, Scheduling
  <1>8. OnceInv'
    BY <1>1, <1>2, <1>4, <1>6, DropOnce
  <1>9. NoLostNotify'
    BY <1>1, <1>2 DEF NoLostNotify
  <1>10. pc[t] \in Outside /\ pc'[t] \in Outside
    BY <1>1 DEF Outside
  <1> QED BY <1>1, <1>4, <1>5, <1>6, <1>7, <1>8, <1>9, <1>10, BodyStep

LEMMA FireInv ==
  ASSUME Inv, Fire
  PROVE  Inv'
  <1>1. PICK f \in timers : timers' = timers \ {f} /\ body' = [body EXCEPT ![Timer] = <<f>>]
    BY DEF Fire
  <1>2. PICK k \in Worker : probe' = [probe EXCEPT ![Timer] = StartFrom(k)]
    BY DEF Fire
  <1>3. /\ pc[Timer] = "idle" /\ Goto(Timer, "push")
        /\ UNCHANGED <<task_queue, muts, func, accepted, late, ran, timer_stopped, crashed, stop_, stop_when_try_pop_failed>>
    BY DEF Fire, stopping, history
  <1>4. TypeOK /\ OnceInv /\ NoLostNotify /\ Timer \in Thread
    BY Threads DEF Inv
  <1>5. f \in Task /\ <<f>> \in Seq(Task) /\ <<f>> # <<>>
    BY <1>1, <1>4 DEF TypeOK
  <1>6. pc' \in [Thread -> Location] /\ pc'[Timer] = "push" /\ \A u \in Thread \ {Timer} : pc'[u] = pc[u]
    BY <1>3, <1>4, GotoMoves DEF Location
  <1>7. probe' \in [Thread -> Seq(Worker)] /\ probe'[Timer] = StartFrom(k) /\ StartFrom(k) # <<>>
        /\ \A u \in Thread \ {Timer} : probe'[u] = probe[u]
    BY <1>2, <1>4, StartFromAll DEF TypeOK
  <1>8. body' \in [Thread -> Seq(Task)] /\ body'[Timer] = <<f>> /\ \A u \in Thread \ {Timer} : body'[u] = body[u]
    BY <1>1, <1>4, <1>5 DEF TypeOK
  <1>9. TypeOK'
    BY <1>1, <1>3, <1>4, <1>6, <1>7, <1>8 DEF TypeOK
  <1>10. Others(Timer)
    BY <1>3, <1>6, <1>7 DEF Others
  <1>11. PlaceOf(Timer)'
    BY <1>5, <1>6, <1>7, <1>8, Threads DEF PlaceOf, Scheduling
  <1>12. OnceInv'
    <2>1. NoDup(body'[Timer]) /\ \A g : InSeq(g, body'[Timer]) <=> g = f
      BY <1>8, SingleSeq
    <2>2. f \notin accepted /\ \A u \in Thread : ~ InSeq(f, body[u])
      BY <1>1, <1>4 DEF OnceInv
    <2>3. timers' \subseteq timers /\ f \notin timers'
      BY <1>1
    <2>4. \A u \in Thread \ {Timer} : body'[u] = body[u] /\ pc'[u] = pc[u]
      BY <1>6, <1>8
    <2>5. \A g \in Task : ran[g] = 0 => ~ InSeq(f, Spawns[g])
      BY <1>1, <1>4 DEF OnceInv
    <2>6. accepted' = accepted /\ ran' = ran
      BY <1>3
    <2>7. \A u \in Thread : NoDup(body'[u])
      BY <1>4, <2>1, <2>4 DEF OnceInv
    <2>8. \A u, v \in Thread : \A g : InSeq(g, body'[u]) /\ InSeq(g, body'[v]) => u = v
      BY <1>4, <2>1, <2>2, <2>4 DEF OnceInv
    <2>9. \A u \in Thread : \A g : InSeq(g, body'[u]) => g \notin timers'
      BY <1>4, <2>1, <2>3, <2>4 DEF OnceInv
    <2>10. \A u \in Thread : \A g : InSeq(g, body'[u]) /\ g \in accepted => pc'[u] = "notify" /\ g = Head(body'[u])
      BY <1>4, <2>1, <2>2, <2>4 DEF OnceInv
    <2>11. accepted \cap timers' = {}
      BY <1>4, <2>3 DEF OnceInv
    <2>12. ASSUME NEW h \in Task, ran[h] = 0, NEW g, InSeq(g, Spawns[h])
           PROVE  g \notin accepted \cup timers' /\ \A u \in Thread : ~ InSeq(g, body'[u])
      BY <1>4, <2>1, <2>3, <2>4, <2>5, <2>12 DEF OnceInv
    <2> QED BY <2>6, <2>7, <2>8, <2>9, <2>10, <2>11, <2>12 DEF OnceInv
  <1>13. NoLostNotify'
    <2>1. Timer \notin Worker /\ \A w \in Worker : task_queue'[w] = task_queue[w]
      BY <1>3, Threads
    <2> QED BY <1>3, <1>4, <1>10, <2>1, NotifyFrame
  <1>14. pc[Timer] \in Outside /\ pc'[Timer] \in Outside
    BY <1>3, <1>6 DEF Outside, Scheduling
  <1> QED BY <1>3, <1>4, <1>8, <1>9, <1>10, <1>11, <1>12, <1>13, <1>14, BodyStep

LEMMA HomeOf ==
  ASSUME NEW t \in Thread
  PROVE  /\ Home(t) \in {"run", "call", "idle"} /\ Home(t) \in Location
         /\ t \in Worker => Home(t) = "run"
         /\ t \in Caller => Home(t) = "call"
         /\ t = Timer => Home(t) = "idle"
  BY Threads DEF Home, Location

(* schedule returns, with true or with false.                              *)
LEMMA ReturnStep ==
  ASSUME Inv, NEW t \in Thread, pc[t] \in Scheduling, Others(t), pc' \in [Thread -> Location], pc'[t] = Home(t),
         probe' \in [Thread -> Seq(Worker)], body' = [body EXCEPT ![t] = Tail(@)], NoLostNotify', crashed' \in BOOLEAN,
         UNCHANGED <<task_queue, muts, func, timers, accepted, late, ran, timer_stopped, stop_, stop_when_try_pop_failed>>
  PROVE  Inv'
  <1>1. TypeOK /\ PlaceOf(t) /\ body[t] \in Seq(Task) /\ OnceInv
    BY At DEF Inv
  <1>2. body[t] # <<>>
    BY <1>1 DEF PlaceOf
  <1>3. body' \in [Thread -> Seq(Task)] /\ body'[t] = Tail(body[t]) /\ \A u \in Thread \ {t} : body'[u] = body[u]
    BY <1>1, <1>2, HeadTail DEF TypeOK
  <1>4. TypeOK'
    BY <1>1, <1>3 DEF TypeOK
  <1>5. PlaceOf(t)'
    <2>1. pc'[t] \notin Scheduling
      BY HomeOf DEF Scheduling
    <2>2. CASE t \in Worker
      <3>1. pc'[t] = "run" /\ func'[t] = Nil
        BY <1>1, <2>2, HomeOf DEF PlaceOf, Scheduling
      <3> QED BY <2>1, <2>2, <3>1, Threads DEF PlaceOf, WorkerAt
    <2>3. CASE t \in Caller
      BY <2>1, <2>3, HomeOf, Threads DEF PlaceOf
    <2>4. CASE t = Timer
      BY <2>1, <2>4, HomeOf, Threads DEF PlaceOf
    <2> QED BY <2>2, <2>3, <2>4 DEF Thread
  <1>6. OnceInv'
    BY <1>1, <1>2, <1>3, DropOnce
  <1>7. pc[t] \in Outside /\ pc'[t] \in Outside
    BY HomeOf DEF Outside
  <1> QED BY <1>3, <1>4, <1>5, <1>6, <1>7, BodyStep

LEMMA NotifyInv ==
  ASSUME Inv, NEW t \in Thread, Notify(t)
  PROVE  Inv'
  <1>1. /\ pc[t] = "notify" /\ GotoAndNotify(t, Home(t), Head(probe[t])) /\ body' = [body EXCEPT ![t] = Tail(@)]
        /\ UNCHANGED <<task_queue, muts, probe, func, timers, accepted, late, ran, timer_stopped, crashed, stop_, stop_when_try_pop_failed>>
    BY DEF Notify, ScheduleReturns, stopping, timing, history
  <1>2. TypeOK /\ PlaceOf(t) /\ probe[t] \in Seq(Worker) /\ NoLostNotify
    BY At DEF Inv
  <1>3. PICK k \in Worker : k = Head(probe[t])
    <2>1. probe[t] # <<>>
      BY <1>1, <1>2 DEF PlaceOf, Scheduling
    <2> QED BY <1>2, <2>1, HeadTail
  <1>4. GotoAndNotify(t, Home(t), k) /\ pc[t] # "wait" /\ Home(t) \in Location
    BY <1>1, <1>3, HomeOf
  <1>5. /\ pc' \in [Thread -> Location] /\ pc'[t] = Home(t)
        /\ \A u \in Thread \ {t} : pc'[u] = pc[u] \/ (u \in Worker /\ pc[u] = "wait" /\ pc'[u] = "woken")
        /\ k # t => pc'[k] # "wait"
    BY <1>2, <1>4, NotifyMoves
  <1>6. Others(t)
    BY <1>1, <1>5 DEF Others
  <1>7. NoLostNotify'
    <2> SUFFICES ASSUME NEW w \in Worker, pc'[w] = "wait", task_queue'[w] # <<>>
                 PROVE  \E u \in Thread : pc'[u] = "notify" /\ Head(probe'[u]) = w
      BY DEF NoLostNotify
    <2>1. w # t /\ w # k /\ w \in Thread
      BY <1>5, HomeOf, Threads
    <2>2. pc[w] = "wait" /\ task_queue[w] # <<>>
      BY <1>1, <1>5, <2>1
    <2>3. PICK u \in Thread : pc[u] = "notify" /\ Head(probe[u]) = w
      BY <1>2, <2>2 DEF NoLostNotify
    <2>4. u # t
      BY <1>3, <2>1, <2>3
    <2>5. pc'[u] = "notify" /\ probe'[u] = probe[u]
      BY <1>1, <1>5, <2>3, <2>4
    <2> QED BY <2>3, <2>5
  <1>8. pc[t] \in Scheduling /\ probe' \in [Thread -> Seq(Worker)] /\ crashed' \in BOOLEAN
    BY <1>1, <1>2 DEF Scheduling, TypeOK
  <1> QED BY <1>1, <1>5, <1>6, <1>7, <1>8, ReturnStep

LEMMA RefuseInv ==
  ASSUME Inv, NEW t \in Thread, pc[t] = "push", Refuse(t, Head(probe[t])),
         UNCHANGED <<muts, func, stopping, timers, timer_stopped, ran>>
  PROVE  Inv'
  <1>1. /\ probe' = [probe EXCEPT ![t] = Tail(@)]
        /\ UNCHANGED <<task_queue, muts, func, timers, accepted, late, ran, timer_stopped, stop_, stop_when_try_pop_failed>>
    BY DEF Refuse, stopping
  <1>2. TypeOK /\ PlaceOf(t) /\ probe[t] \in Seq(Worker) /\ probe[t] # <<>> /\ body[t] # <<>> /\ NoLostNotify /\ OnceInv
    BY At DEF Inv, PlaceOf, Scheduling
  <1>3. /\ probe' \in [Thread -> Seq(Worker)] /\ probe'[t] = Tail(probe[t])
        /\ \A u \in Thread \ {t} : probe'[u] = probe[u]
    BY <1>1, <1>2, HeadTail DEF TypeOK
  <1>4. Len(probe[t]) \in Nat /\ (Len(probe[t]) # 1 => Tail(probe[t]) # <<>>)
    BY <1>2, HeadTail
  <1>5. CASE Len(probe[t]) > 1 /\ UNCHANGED <<pc, body, crashed>>
    <2>1. Tail(probe[t]) # <<>>
      <3>0. \A n \in Nat : n > 1 => n # 1
        OBVIOUS
      <3>1. Len(probe[t]) # 1
        BY ONLY <1>4, <1>5, <3>0
      <3> QED BY <1>4, <3>1
    <2>2. Others(t)
      BY <1>1, <1>3, <1>5 DEF Others
    <2>3. TypeOK'
      BY <1>1, <1>2, <1>3, <1>5 DEF TypeOK
    <2>4. PlaceOf(t)'
      BY <1>1, <1>2, <1>3, <1>5, <2>1 DEF PlaceOf, Scheduling
    <2>5. OnceInv'
      BY <1>1, <1>2, <1>5, <2>2, OnceFrame
    <2>6. NoLostNotify'
      BY <1>1, <1>2, <1>5, <2>2, NotifyFrame
    <2>7. pc[t] \in Outside /\ pc'[t] \in Outside
      BY <1>5 DEF Outside, Scheduling
    <2> QED BY <1>1, <1>5, <2>2, <2>3, <2>4, <2>5, <2>6, <2>7, BodyStep
  <1>6. CASE Goto(t, Home(t)) /\ ScheduleReturns(t) /\ crashed' = (t = Timer)
    <2>1. pc' \in [Thread -> Location] /\ pc'[t] = Home(t) /\ \A u \in Thread \ {t} : pc'[u] = pc[u]
      BY <1>2, <1>6, HomeOf, GotoMoves
    <2>2. Others(t)
      BY <1>1, <1>3, <2>1 DEF Others
    <2>3. NoLostNotify'
      <3>1. t \in Worker => pc'[t] # "wait"
        BY <2>1, HomeOf
      <3>2. task_queue' = task_queue /\ pc[t] # "notify"
        BY <1>1
      <3> QED BY <1>2, <2>2, <3>1, <3>2, NotifyFrame
    <2>4. pc[t] \in Scheduling /\ body' = [body EXCEPT ![t] = Tail(@)] /\ crashed' \in BOOLEAN
      BY <1>6 DEF Scheduling, ScheduleReturns
    <2> QED BY <1>1, <1>3, <2>1, <2>2, <2>3, <2>4, ReturnStep
  <1> QED BY <1>5, <1>6 DEF Refuse

(* A push: the task is new to the queues, and whoever sleeps on the queue  *)
(* will be notified by the thread that pushed.                             *)
LEMMA AcceptInv ==
  ASSUME Inv, NEW t \in Thread, pc[t] = "push", muts[Head(probe[t])] = Nil, Accept(t, Head(probe[t])),
         UNCHANGED <<muts, func, stopping, timers, timer_stopped, ran>>
  PROVE  Inv'
  <1>1. /\ TypeOK /\ PlaceOf(t) /\ PlaceInv /\ LockInv /\ OnceInv /\ PlacedInv /\ StopInv /\ NoLostNotify
        /\ probe[t] \in Seq(Worker) /\ body[t] \in Seq(Task) /\ probe[t] # <<>> /\ body[t] # <<>>
    BY At DEF Inv, PlaceOf, Scheduling
  <1>2. PICK k \in Worker : k = Head(probe[t])
    BY <1>1, HeadTail
  <1>3. PICK f \in Task : f = Head(body[t])
    BY <1>1, HeadTail
  <1>4. /\ muts[k] = Nil /\ Len(task_queue[k]) < QueueSize
        /\ task_queue' = [task_queue EXCEPT ![k] = Append(@, f)] /\ Goto(t, "notify")
        /\ accepted' = accepted \cup {f}
        /\ late' = IF stop_ /\ t \notin Worker THEN late \cup {f} ELSE late
        /\ UNCHANGED <<muts, func, timers, ran, timer_stopped, stop_, stop_when_try_pop_failed, probe, body, crashed>>
    BY <1>2, <1>3 DEF Accept, stopping
  <1>5. pc' \in [Thread -> Location] /\ pc'[t] = "notify" /\ \A u \in Thread \ {t} : pc'[u] = pc[u]
    BY <1>1, <1>4, GotoMoves DEF Location
  <1>6. PICK q \in Seq(Task) : q = task_queue[k]
    BY <1>1 DEF TypeOK
  <1>7. /\ Append(q, f) \in Seq(Task) /\ Len(Append(q, f)) = Len(q) + 1 /\ Len(q) \in Nat /\ Append(q, f) # <<>>
        /\ \A e : InSeq(e, Append(q, f)) <=> InSeq(e, q) \/ e = f
        /\ NoDup(q) /\ ~ InSeq(f, q) => NoDup(Append(q, f))
    BY AppendSeq
  <1>8. /\ task_queue' \in [Worker -> Seq(Task)] /\ task_queue'[k] = Append(q, f)
        /\ \A l \in Worker : l # k => task_queue'[l] = task_queue[l]
    BY <1>1, <1>4, <1>6, <1>7 DEF TypeOK
  <1>9. InSeq(f, body[t])
    BY <1>1, <1>3, HeadTail
  <1>10. f \notin accepted
    BY <1>1, <1>9 DEF OnceInv
  <1>11. f \notin timers /\ \A g \in Task : ran[g] = 0 => ~ InSeq(f, Spawns[g])
    BY <1>1, <1>9 DEF OnceInv
  <1>12. ran[f] = 0 /\ \A l \in Worker : ~ InSeq(f, task_queue[l]) /\ func[l] # f
    BY <1>1, <1>10 DEF PlacedInv
  <1>13. TypeOK'
    <2>1. \A l \in Worker : Len(task_queue'[l]) <= QueueSize
      <3>1. Len(q) + 1 <= QueueSize
        BY <1>4, <1>6, <1>7, ThreadAssumption
      <3>2. \A l \in Worker : Len(task_queue[l]) <= QueueSize
        BY <1>1 DEF TypeOK
      <3> QED BY <1>7, <1>8, <3>1, <3>2
    <2>2. late' \subseteq Task /\ accepted' \subseteq Task
      BY <1>1, <1>4 DEF TypeOK
    <2> QED BY <1>1, <1>4, <1>5, <1>8, <2>1, <2>2 DEF TypeOK
  <1>14. Others(t)
    BY <1>4, <1>5 DEF Others
  <1>15. PlaceInv'
    <2>1. PlaceOf(t)'
      BY <1>1, <1>4, <1>5 DEF PlaceOf, Scheduling, WorkerAt
    <2> QED BY <1>1, <1>4, <1>14, <2>1, PlaceFrame
  <1>16. LockInv'
    <2>1. pc[k] # "pop"
      BY <1>1, <1>4, Threads DEF LockInv, LockOf
    <2>2. \A w \in Worker \ {t} : /\ muts[w] = w => muts'[w] = w
                                  /\ task_queue[w] = <<>> /\ pc[w] = "pop" => task_queue'[w] = <<>>
      BY <1>4, <1>8, <2>1
    <2>3. (t \in Worker => LockOf(t)') /\ (t = Stopper => StopLocks')
      BY <1>5 DEF LockOf, StopLocks
    <2>4. stop_' = stop_ /\ muts' = muts
      BY <1>4
    <2> QED BY <1>1, <1>14, <2>2, <2>3, <2>4, LockFrame
  <1>17. OnceInv'
    <2>1. body' = body /\ timers' = timers /\ ran' = ran /\ accepted' = accepted \cup {f}
      BY <1>4
    <2>2. ASSUME NEW u \in Thread, NEW e, InSeq(e, body[u]), e \in accepted \cup {f}
          PROVE  pc'[u] = "notify" /\ e = Head(body[u])
      <3>1. CASE u = t
        <4>1. e \notin accepted
          BY <1>1, <2>2, <3>1 DEF OnceInv
        <4> QED BY <1>3, <1>5, <2>2, <3>1, <4>1
      <3>2. CASE u # t
        <4>1. e # f
          BY <1>1, <1>9, <2>2, <3>2 DEF OnceInv
        <4>2. pc[u] = "notify" /\ e = Head(body[u])
          BY <1>1, <2>2, <4>1 DEF OnceInv
        <4> QED BY <1>5, <3>2, <4>2
      <3> QED BY <3>1, <3>2
    <2>3. (accepted \cup {f}) \cap timers = {}
      BY <1>1, <1>11 DEF OnceInv
    <2>4. ASSUME NEW g \in Task, ran[g] = 0, NEW e, InSeq(e, Spawns[g])
          PROVE  e \notin accepted \cup {f} \cup timers /\ \A u \in Thread : ~ InSeq(e, body[u])
      BY <1>1, <1>11, <2>4 DEF OnceInv
    <2> QED BY <1>1, <2>1, <2>2, <2>3, <2>4 DEF OnceInv
  <1>18. PlacedInv'
    <2>1. func' = func /\ ran' = ran /\ accepted' = accepted \cup {f}
      BY <1>4
    <2>2. \A l \in Worker : \A e : InSeq(e, task_queue'[l]) <=> InSeq(e, task_queue[l]) \/ (l = k /\ e = f)
      BY <1>6, <1>7, <1>8
    <2>3. \A l \in Worker : NoDup(task_queue'[l])
      BY <1>1, <1>6, <1>7, <1>8, <1>12 DEF PlacedInv
    <2>4. ASSUME NEW l \in Worker, NEW m \in Worker, NEW e, InSeq(e, task_queue'[l]), InSeq(e, task_queue'[m]) PROVE l = m
      <3>1. CASE e = f
        BY <1>12, <2>2, <2>4, <3>1
      <3>2. CASE e # f
        <4>1. InSeq(e, task_queue[l]) /\ InSeq(e, task_queue[m])
          BY <2>2, <2>4, <3>2
        <4> QED BY <1>1, <4>1 DEF PlacedInv
      <3> QED BY <3>1, <3>2
    <2>5. \A v, w \in Worker : func[v] # Nil /\ func[v] = func[w] => v = w
      BY <1>1 DEF PlacedInv
    <2>6. ASSUME NEW l \in Worker, NEW w \in Worker, func[w] # Nil PROVE ~ InSeq(func[w], task_queue'[l])
      <3>1. ~ InSeq(func[w], task_queue[l]) /\ func[w] # f
        BY <1>1, <1>12, <2>6 DEF PlacedInv
      <3> QED BY <2>2, <3>1
    <2>7. \A e \in Task : ran[e] # 0 => /\ ran[e] = 1
                                        /\ \A l \in Worker : ~ InSeq(e, task_queue'[l]) /\ func[l] # e
      BY <1>1, <1>12, <2>2 DEF PlacedInv
    <2>8. ASSUME NEW e \in Task
          PROVE  e \in accepted' <=> ran'[e] # 0 \/ \E l \in Worker : InSeq(e, task_queue'[l]) \/ func'[l] = e
      <3>1. e \in accepted <=> ran[e] # 0 \/ \E l \in Worker : InSeq(e, task_queue[l]) \/ func[l] = e
        BY <1>1 DEF PlacedInv
      <3> QED BY <2>1, <2>2, <3>1
    <2> QED
      <3>1. \A l, w \in Worker : func'[w] # Nil => ~ InSeq(func'[w], task_queue'[l])
        BY <2>1, <2>6
      <3>2. \A v, w \in Worker : func'[v] # Nil /\ func'[v] = func'[w] => v = w
        BY <2>1, <2>5
      <3>3. \A e \in Task : ran'[e] # 0 => /\ ran'[e] = 1
                                           /\ \A l \in Worker : ~ InSeq(e, task_queue'[l]) /\ func'[l] # e
        BY <2>1, <2>7
      <3> QED BY <2>3, <2>4, <2>8, <3>1, <3>2, <3>3 DEF PlacedInv
  <1>19. StopInv'
    <2>1. ASSUME NEW w \in Worker PROVE StopOf(w)' /\ \A l \in Worker : Visits(w, l) => Visits(w, l)'
      <3>1. StopOf(w) /\ (pc'[w] = pc[w] \/ (pc[w] = "push" /\ pc'[w] = "notify"))
        BY <1>1, <1>5, Threads DEF StopInv
      <3> QED BY <1>4, <3>1 DEF StopOf, Visits
    <2>2. ASSUME pc'[Stopper] = "stopped", NEW w \in Worker PROVE pc'[w] = "exited"
      <3>1. pc[Stopper] = "stopped"
        BY <1>5, <2>2, Threads
      <3>2. pc[w] = "exited"
        BY <1>1, <3>1 DEF StopInv
      <3> QED BY <1>5, <3>2, Threads
    <2>3. ASSUME NEW l \in Worker, NEW e, InSeq(e, task_queue'[l]), e \notin late' PROVE \E w \in Worker : Visits(w, l)'
      <3>1. CASE InSeq(e, task_queue[l])
        <4>1. e \notin late
          BY <1>4, <2>3
        <4>2. PICK w \in Worker : Visits(w, l)
          BY <1>1, <3>1, <4>1 DEF StopInv
        <4> QED BY <2>1, <4>2
      <3>2. CASE ~ InSeq(e, task_queue[l])
        <4>1. e = f /\ (~ stop_ \/ t \in Worker)
          BY <1>4, <1>6, <1>7, <1>8, <2>3, <3>2
        <4>2. CASE t \in Worker
          <5>1. Visits(t, l)'
            BY <1>5 DEF Visits
          <5> QED BY <4>2, <5>1
        <4>3. CASE ~ stop_
          <5>1. StopOf(0) /\ 0 \in Worker
            BY <1>1, Workers DEF StopInv
          <5>2. Visits(0, l)
            BY <4>3, <5>1 DEF Visits, StopOf
          <5> QED BY <2>1, <5>1, <5>2
        <4> QED BY <4>1, <4>2, <4>3
      <3> QED BY <3>1, <3>2
    <2> QED BY <2>1, <2>2, <2>3 DEF StopInv
  <1>20. NoLostNotify'
    <2> SUFFICES ASSUME NEW w \in Worker, pc'[w] = "wait", task_queue'[w] # <<>>
                 PROVE  \E u \in Thread : pc'[u] = "notify" /\ Head(probe'[u]) = w
      BY DEF NoLostNotify
    <2>1. CASE w = k
      BY <1>2, <1>4, <1>5, <2>1
    <2>2. CASE w # k
      <3>1. pc[w] = "wait" /\ task_queue[w] # <<>>
        BY <1>5, <1>8, <2>2, Threads
      <3>2. PICK u \in Thread : pc[u] = "notify" /\ Head(probe[u]) = w
        BY <1>1, <3>1 DEF NoLostNotify
      <3> QED BY <1>4, <1>5, <3>2
    <2> QED BY <2>1, <2>2
  <1> QED BY <1>13, <1>15, <1>16, <1>17, <1>18, <1>19, <1>20 DEF Inv

-----------------------------------------------------------------------------
(* A worker takes a task and runs it.                                      *)

LEMMA FoundInv ==
  ASSUME Inv, NEW w \in Worker, NEW l \in Location, Found(w, l),
         \/ pc[w] = "try" /\ l = "wake"
         \/ pc[w] = "pop" /\ l = "awake",
         UNCHANGED <<body, stopping, timing, history, ran>>
  PROVE  Inv'
  <1>0. w \in Thread /\ w # Stopper
    BY Threads
  <1>1. /\ TypeOK /\ PlaceOf(w) /\ LockOf(w) /\ StopOf(w) /\ PlaceInv /\ LockInv /\ OnceInv /\ PlacedInv /\ StopInv /\ NoLostNotify
        /\ probe[w] \in Seq(Worker) /\ probe[w] # <<>>
    BY <1>0, At DEF Inv, PlaceOf
  <1>2. PICK k \in Worker : k = Head(probe[w])
    BY <1>1, HeadTail
  <1>3. PICK q \in Seq(Task) : q = task_queue[k]
    BY <1>1 DEF TypeOK
  <1>4. /\ q # <<>> /\ func' = [func EXCEPT ![w] = Head(q)] /\ task_queue' = [task_queue EXCEPT ![k] = Tail(q)]
        /\ Goto(w, l)
        /\ UNCHANGED <<muts, probe, body, timers, accepted, late, ran, timer_stopped, crashed, stop_, stop_when_try_pop_failed>>
    BY <1>2, <1>3 DEF Found, stopping, timing, history
  <1>5. pc' \in [Thread -> Location] /\ pc'[w] = l /\ \A u \in Thread \ {w} : pc'[u] = pc[u]
    BY <1>0, <1>1, <1>4, GotoMoves
  <1>6. PICK f \in Task : f = Head(q)
    BY <1>4, HeadTail
  <1>7. /\ Tail(q) \in Seq(Task) /\ Len(q) \in Nat /\ Len(Tail(q)) = Len(q) - 1
        /\ InSeq(f, q) /\ \A e : InSeq(e, q) <=> e = f \/ InSeq(e, Tail(q))
        /\ NoDup(q) => NoDup(Tail(q)) /\ ~ InSeq(f, Tail(q))
    BY <1>4, <1>6, HeadTail
  <1>8. /\ task_queue' \in [Worker -> Seq(Task)] /\ task_queue'[k] = Tail(q)
        /\ \A m \in Worker : m # k => task_queue'[m] = task_queue[m]
    BY <1>1, <1>4, <1>7 DEF TypeOK
  <1>9. /\ func' \in [Worker -> Task \cup {Nil}] /\ func'[w] = f /\ f # Nil
        /\ \A v \in Worker \ {w} : func'[v] = func[v]
    BY <1>1, <1>4, <1>6, Threads DEF TypeOK
  <1>10. func[w] = Nil
    BY <1>1 DEF PlaceOf
  <1>11. TypeOK'
    <2>1. \A m \in Worker : Len(task_queue'[m]) <= QueueSize
      <3>1. \A m \in Worker : Len(task_queue[m]) <= QueueSize
        BY <1>1 DEF TypeOK
      <3>2. Len(Tail(q)) <= QueueSize
        <4>1. Len(q) <= QueueSize
          BY <1>3, <3>1
        <4> QED BY <1>7, <4>1, ThreadAssumption
      <3> QED BY <1>8, <3>1, <3>2
    <2> QED BY <1>1, <1>4, <1>5, <1>8, <1>9, <2>1 DEF TypeOK
  <1>12. Others(w)
    BY <1>4, <1>5, <1>9 DEF Others
  <1>13. PlaceInv'
    <2>1. PlaceOf(w)'
      BY <1>0, <1>4, <1>5, <1>9, Threads DEF PlaceOf, Scheduling, WorkerAt
    <2> QED BY <1>0, <1>1, <1>4, <1>12, <2>1, PlaceFrame
  <1>14. LockInv'
    <2>1. LockOf(w)'
      BY <1>1, <1>4, <1>5, <1>9 DEF LockOf
    <2>2. \A v \in Worker \ {w} : task_queue[v] = <<>> => task_queue'[v] = <<>>
      BY <1>3, <1>4, <1>8
    <2>3. stop_' = stop_ /\ muts' = muts
      BY <1>4
    <2> QED BY <1>0, <1>1, <1>12, <2>1, <2>2, <2>3, LockFrame
  <1>15. OnceInv'
    BY <1>0, <1>1, <1>4, <1>12, OnceFrame
  <1>16. PlacedInv'
    <2>1. ran' = ran /\ accepted' = accepted
      BY <1>4
    <2>2. ran[f] = 0 /\ \A v \in Worker : func[v] # f
      BY <1>1, <1>3, <1>7, Threads DEF PlacedInv
    <2>3. \A m \in Worker : \A e : InSeq(e, task_queue[m]) <=> InSeq(e, task_queue'[m]) \/ (m = k /\ e = f)
      BY <1>3, <1>7, <1>8
    <2>4. \A m \in Worker : NoDup(task_queue'[m])
      BY <1>1, <1>3, <1>7, <1>8 DEF PlacedInv
    <2>5. ASSUME NEW m \in Worker PROVE ~ InSeq(f, task_queue'[m])
      <3>1. CASE m = k
        BY <1>1, <1>3, <1>7, <1>8, <3>1 DEF PlacedInv
      <3>2. CASE m # k
        <4>1. ~ InSeq(f, task_queue[m])
          BY <1>1, <1>3, <1>7, <3>2 DEF PlacedInv
        <4> QED BY <1>8, <3>2, <4>1
      <3> QED BY <3>1, <3>2
    <2>6. \A m, n \in Worker : \A e : InSeq(e, task_queue'[m]) /\ InSeq(e, task_queue'[n]) => m = n
      BY <1>1, <2>3 DEF PlacedInv
    <2>7. \A u, v \in Worker : func'[u] # Nil /\ func'[u] = func'[v] => u = v
      BY <1>1, <1>9, <2>2 DEF PlacedInv
    <2>8. ASSUME NEW m \in Worker, NEW v \in Worker, func'[v] # Nil PROVE ~ InSeq(func'[v], task_queue'[m])
      <3>1. CASE v = w
        BY <1>9, <2>5, <3>1
      <3>2. CASE v # w
        <4>1. func'[v] = func[v]
          BY <1>9, <3>2
        <4>2. ~ InSeq(func[v], task_queue[m])
          BY <1>1, <2>8, <4>1 DEF PlacedInv
        <4> QED BY <2>3, <4>1, <4>2
      <3> QED BY <3>1, <3>2
    <2>9. ASSUME NEW e \in Task, ran[e] # 0
          PROVE  ran[e] = 1 /\ \A m \in Worker : ~ InSeq(e, task_queue'[m]) /\ func'[m] # e
      <3>1. ran[e] = 1 /\ e # f /\ \A m \in Worker : ~ InSeq(e, task_queue[m]) /\ func[m] # e
        BY <1>1, <2>2, <2>9 DEF PlacedInv
      <3>2. \A m \in Worker : ~ InSeq(e, task_queue'[m])
        BY <2>3, <3>1
      <3> QED BY <1>9, <3>1, <3>2
    <2>10. ASSUME NEW e \in Task
           PROVE  e \in accepted <=> ran[e] # 0 \/ \E m \in Worker : InSeq(e, task_queue'[m]) \/ func'[m] = e
      <3>1. e \in accepted <=> ran[e] # 0 \/ \E m \in Worker : InSeq(e, task_queue[m]) \/ func[m] = e
        BY <1>1 DEF PlacedInv
      <3>2. CASE e = f
        BY <1>3, <1>7, <1>9, <3>1, <3>2
      <3>3. CASE e # f
        <4>1. \A m \in Worker : (InSeq(e, task_queue[m]) <=> InSeq(e, task_queue'[m])) /\ (func[m] = e <=> func'[m] = e)
          BY <1>9, <1>10, <2>3, <3>3, Threads
        <4> QED BY <3>1, <4>1
      <3> QED BY <3>2, <3>3
    <2> QED BY <2>1, <2>4, <2>6, <2>7, <2>8, <2>9, <2>10 DEF PlacedInv
  <1>17. StopInv'
    <2>1. StopOf(w)' /\ pc[w] # "exited" /\ \A m \in Worker : Visits(w, m)'
      BY <1>1, <1>4, <1>5 DEF StopOf, Visits
    <2>2. pc'[Stopper] = "stopped" => pc[Stopper] = "stopped"
      BY <1>0, <1>5, Threads
    <2>3. \A m \in Worker : \A e : InSeq(e, task_queue'[m]) /\ e \notin late' => InSeq(e, task_queue[m]) /\ e \notin late
      BY <1>3, <1>4, <1>7, <1>8
    <2> QED BY <1>0, <1>1, <1>4, <1>12, <2>1, <2>2, <2>3, StopFrame
  <1>18. NoLostNotify'
    <2>1. \A v \in Worker : task_queue'[v] # <<>> => task_queue[v] # <<>>
      BY <1>3, <1>4, <1>8
    <2>2. pc[w] # "notify" /\ pc'[w] # "wait"
      BY <1>5
    <2> QED BY <1>0, <1>1, <1>12, <2>1, <2>2, NotifyFrame
  <1> QED BY <1>11, <1>13, <1>14, <1>15, <1>16, <1>17, <1>18 DEF Inv

(* func() begins: the calls of schedule it makes are new ones.             *)
LEMMA CallInv ==
  ASSUME Inv, NEW w \in Worker, pc[w] \in {"wake", "awake"}, func[w] # Nil, Call(w),
         pc' \in [Thread -> Location], pc'[w] = "run",
         \A u \in Thread \ {w} : pc'[u] = pc[u] \/ (u \in Worker /\ pc[u] = "wait" /\ pc'[u] = "woken"),
         muts' \in [Worker -> Thread \cup {Nil}], \A v \in Worker \ {w} : muts'[v] = muts[v],
         pc[w] = "wake" => muts' = muts,
         UNCHANGED <<task_queue, probe, timers, accepted, late, timer_stopped, crashed, stop_, stop_when_try_pop_failed>>
  PROVE  Inv'
  <1>0. w \in Thread /\ w # Stopper
    BY Threads
  <1>1. /\ TypeOK /\ PlaceOf(w) /\ LockOf(w) /\ StopOf(w) /\ PlaceInv /\ LockInv /\ OnceInv /\ PlacedInv /\ StopInv /\ NoLostNotify
    BY <1>0, At DEF Inv
  <1>2. PICK g \in Task : g = func[w]
    BY <1>1 DEF TypeOK
  <1>3. ran' = [ran EXCEPT ![g] = @ + 1] /\ body' = [body EXCEPT ![w] = Spawns[g]] /\ func' = [func EXCEPT ![w] = Nil]
    BY <1>2 DEF Call
  <1>4. ran[g] = 0
    BY <1>1, <1>2 DEF PlacedInv
  <1>5. /\ ran' \in [Task -> Nat] /\ ran'[g] = 1 /\ \A e \in Task : e # g => ran'[e] = ran[e]
    BY <1>1, <1>3, <1>4 DEF TypeOK
  <1>6. /\ body' \in [Thread -> Seq(Task)] /\ body'[w] = Spawns[g] /\ \A u \in Thread \ {w} : body'[u] = body[u]
    BY <1>0, <1>1, <1>3, TaskAssumption DEF TypeOK
  <1>7. /\ func' \in [Worker -> Task \cup {Nil}] /\ func'[w] = Nil /\ \A v \in Worker \ {w} : func'[v] = func[v]
    BY <1>1, <1>3 DEF TypeOK
  <1>8. TypeOK'
    BY <1>1, <1>5, <1>6, <1>7 DEF TypeOK
  <1>9. Others(w)
    BY <1>7 DEF Others
  <1>10. PlaceInv'
    <2>1. PlaceOf(w)'
      BY <1>0, <1>7, Threads DEF PlaceOf, Scheduling, WorkerAt
    <2> QED BY <1>0, <1>1, <1>6, <1>9, <2>1, PlaceFrame
  <1>11. LockInv'
    <2>1. LockOf(w)'
      BY DEF LockOf
    <2>2. \A v \in Worker : muts[v] = Stopper => muts'[v] = Stopper
      BY <1>0, <1>1 DEF LockOf
    <2>3. stop_' = stop_ /\ task_queue' = task_queue
      OBVIOUS
    <2> QED BY <1>0, <1>1, <1>9, <2>1, <2>2, <2>3, LockFrame
  <1>12. OnceInv'
    <2>1. NoDup(Spawns[g])
      BY OnceAssumption DEF NoDup
    <2>2. \A f : InSeq(f, Spawns[g]) => f \notin accepted \cup timers /\ \A t \in Thread : ~ InSeq(f, body[t])
      BY <1>1, <1>4 DEF OnceInv
    <2>3. \A h \in Task : \A f : InSeq(f, Spawns[g]) /\ InSeq(f, Spawns[h]) => h = g
      BY OnceAssumption DEF InSeq
    <2>4. \A t \in Thread : NoDup(body'[t])
      BY <1>1, <1>6, <2>1 DEF OnceInv
    <2>5. ASSUME NEW t \in Thread, NEW u \in Thread, NEW f, InSeq(f, body'[t]), InSeq(f, body'[u]) PROVE t = u
      <3>1. CASE t # w /\ u # w
        <4>1. InSeq(f, body[t]) /\ InSeq(f, body[u])
          BY <1>6, <2>5, <3>1
        <4> QED BY <1>1, <4>1 DEF OnceInv
      <3>2. CASE t = w \/ u = w
        BY <1>6, <2>2, <2>5, <3>2
      <3> QED BY <3>1, <3>2
    <2>6. \A t \in Thread : \A f : InSeq(f, body'[t]) => f \notin timers'
      BY <1>1, <1>6, <2>2 DEF OnceInv
    <2>7. ASSUME NEW t \in Thread, NEW f, InSeq(f, body'[t]), f \in accepted' PROVE pc'[t] = "notify" /\ f = Head(body'[t])
      <3>1. t # w
        BY <1>6, <2>2, <2>7
      <3>2. InSeq(f, body[t]) /\ f \in accepted
        BY <1>6, <2>7, <3>1
      <3>3. pc[t] = "notify" /\ f = Head(body[t])
        BY <1>1, <3>2 DEF OnceInv
      <3> QED BY <1>6, <3>1, <3>3
    <2>8. accepted' \cap timers' = {}
      BY <1>1 DEF OnceInv
    <2>9. ASSUME NEW h \in Task, ran'[h] = 0, NEW f, InSeq(f, Spawns[h])
          PROVE  f \notin accepted' \cup timers' /\ \A t \in Thread : ~ InSeq(f, body'[t])
      <3>1. h # g /\ ran[h] = 0
        BY <1>5, <2>9
      <3>2. f \notin accepted \cup timers /\ \A t \in Thread : ~ InSeq(f, body[t])
        BY <1>1, <2>9, <3>1 DEF OnceInv
      <3>3. ~ InSeq(f, Spawns[g])
        BY <2>3, <2>9, <3>1
      <3> QED BY <1>6, <3>2, <3>3
    <2> QED BY <2>4, <2>5, <2>6, <2>7, <2>8, <2>9 DEF OnceInv
  <1>13. PlacedInv'
    <2>0. task_queue' = task_queue /\ accepted' = accepted
      OBVIOUS
    <2>1. \A k \in Worker : ~ InSeq(g, task_queue[k]) /\ func'[k] # g
      BY <1>1, <1>2, <1>7, Threads DEF PlacedInv
    <2>2. \A v \in Worker : func'[v] # Nil => v # w /\ func'[v] = func[v]
      BY <1>7
    <2>3. \A u, v \in Worker : func'[u] # Nil /\ func'[u] = func'[v] => u = v
      BY <1>1, <2>2 DEF PlacedInv
    <2>4. \A k, v \in Worker : func'[v] # Nil => ~ InSeq(func'[v], task_queue[k])
      BY <1>1, <2>2 DEF PlacedInv
    <2>5. ASSUME NEW e \in Task, ran'[e] # 0
          PROVE  ran'[e] = 1 /\ \A k \in Worker : ~ InSeq(e, task_queue[k]) /\ func'[k] # e
      <3>1. CASE e = g
        BY <1>5, <2>1, <3>1
      <3>2. CASE e # g
        <4>1. ran[e] = 1 /\ \A k \in Worker : ~ InSeq(e, task_queue[k]) /\ func[k] # e
          BY <1>1, <1>5, <2>5, <3>2 DEF PlacedInv
        <4>2. e # Nil
          BY Threads
        <4> QED BY <1>5, <1>7, <3>2, <4>1, <4>2
      <3> QED BY <3>1, <3>2
    <2>6. ASSUME NEW e \in Task
          PROVE  e \in accepted <=> ran'[e] # 0 \/ \E k \in Worker : InSeq(e, task_queue[k]) \/ func'[k] = e
      <3>1. e \in accepted <=> ran[e] # 0 \/ \E k \in Worker : InSeq(e, task_queue[k]) \/ func[k] = e
        BY <1>1 DEF PlacedInv
      <3>2. CASE e = g
        BY <1>2, <1>5, <3>1, <3>2
      <3>3. CASE e # g
        <4>1. ran'[e] = ran[e] /\ \A k \in Worker : func[k] = e <=> func'[k] = e
          BY <1>2, <1>5, <1>7, <3>3, Threads
        <4> QED BY <3>1, <4>1
      <3> QED BY <3>2, <3>3
    <2>7. /\ \A k \in Worker : NoDup(task_queue[k])
          /\ \A k, l \in Worker : \A f : InSeq(f, task_queue[k]) /\ InSeq(f, task_queue[l]) => k = l
      BY <1>1 DEF PlacedInv
    <2> QED BY <2>0, <2>3, <2>4, <2>5, <2>6, <2>7 DEF PlacedInv
  <1>14. StopInv'
    <2>1. StopOf(w)' /\ pc[w] # "exited" /\ \A k \in Worker : Visits(w, k)'
      BY <1>1 DEF StopOf, Visits
    <2>2. pc'[Stopper] = "stopped" => pc[Stopper] = "stopped"
      BY <1>0, Threads
    <2> QED BY <1>0, <1>1, <1>9, <2>1, <2>2, StopFrame
  <1>15. NoLostNotify'
    <2>1. task_queue' = task_queue /\ pc[w] # "notify" /\ pc'[w] # "wait"
      OBVIOUS
    <2> QED BY <1>0, <1>1, <1>9, <2>1, NotifyFrame
  <1> QED BY <1>8, <1>10, <1>11, <1>12, <1>13, <1>14, <1>15 DEF Inv

LEMMA WakeUpInv ==
  ASSUME Inv, NEW w \in Worker, WakeUpNextWorker(w)
  PROVE  Inv'
  <1>1. /\ pc[w] = "wake" /\ GotoAndNotify(w, "run", (w + 1) % ThreadNum) /\ Call(w)
        /\ UNCHANGED <<task_queue, muts, probe, timers, accepted, late, timer_stopped, crashed, stop_, stop_when_try_pop_failed>>
    BY DEF WakeUpNextWorker, stopping, timing, history
  <1>2. w \in Thread /\ TypeOK /\ PlaceOf(w)
    BY Threads, At
  <1>3. PICK k \in Worker : k = (w + 1) % ThreadNum
    BY Workers
  <1>4. GotoAndNotify(w, "run", k) /\ pc[w] # "wait" /\ "run" \in Location
    BY <1>1, <1>3 DEF Location
  <1>5. /\ pc' \in [Thread -> Location] /\ pc'[w] = "run"
        /\ \A u \in Thread \ {w} : pc'[u] = pc[u] \/ (u \in Worker /\ pc[u] = "wait" /\ pc'[u] = "woken")
    BY <1>2, <1>4, NotifyMoves
  <1>6. func[w] # Nil /\ muts' \in [Worker -> Thread \cup {Nil}]
    BY <1>1, <1>2 DEF PlaceOf, TypeOK
  <1> QED BY <1>1, <1>5, <1>6, CallInv

LEMMA AwakeInv ==
  ASSUME Inv, NEW w \in Worker, Awake(w)
  PROVE  Inv'
  <1>0. w \in Thread /\ w # Stopper
    BY Threads
  <1>1. /\ pc[w] = "awake" /\ muts' = [muts EXCEPT ![w] = Nil]
        /\ UNCHANGED <<task_queue, timers, accepted, late, timer_stopped, crashed, stop_>>
    BY DEF Awake, timing, history
  <1>2. TypeOK /\ PlaceOf(w) /\ LockOf(w) /\ StopOf(w)
    BY <1>0, At
  <1>3. muts[w] = w /\ (stop_ <=> func[w] = Nil)
    BY <1>1, <1>2 DEF LockOf
  <1>4. muts' \in [Worker -> Thread \cup {Nil}] /\ \A v \in Worker \ {w} : muts'[v] = muts[v]
    BY <1>1, <1>2 DEF TypeOK
  <1>5. CASE /\ stop_
             /\ stop_when_try_pop_failed' = [stop_when_try_pop_failed EXCEPT ![w] = TRUE]
             /\ Goto(w, "try")
             /\ probe' = [probe EXCEPT ![w] = StartFrom(w)]
             /\ func' = [func EXCEPT ![w] = Nil]
             /\ UNCHANGED <<body, ran>>
    <2>1. pc' \in [Thread -> Location] /\ pc'[w] = "try" /\ \A u \in Thread \ {w} : pc'[u] = pc[u]
      BY <1>0, <1>2, <1>5, GotoMoves DEF Location
    <2>2. func' = func
      BY <1>2, <1>3, <1>5 DEF TypeOK
    <2>3. /\ probe' \in [Thread -> Seq(Worker)] /\ probe'[w] = StartFrom(w) /\ StartFrom(w) # <<>>
          /\ \A u \in Thread \ {w} : probe'[u] = probe[u]
          /\ \A k \in Worker : InSeq(k, StartFrom(w))
      BY <1>0, <1>2, <1>5, StartFromAll DEF TypeOK
    <2>4. /\ stop_when_try_pop_failed' \in [Worker -> BOOLEAN]
          /\ \A v \in Worker \ {w} : stop_when_try_pop_failed'[v] = stop_when_try_pop_failed[v]
      BY <1>2, <1>5 DEF TypeOK
    <2>5. TypeOK'
      BY <1>1, <1>2, <1>4, <1>5, <2>1, <2>2, <2>3, <2>4 DEF TypeOK
    <2>6. Others(w)
      BY <2>1, <2>2, <2>3, <2>4 DEF Others
    <2>7. PlaceOf(w)'
      BY <1>0, <1>3, <1>5, <2>1, <2>2, <2>3, Threads DEF PlaceOf, WorkerAt, Scheduling
    <2>8. LockOf(w)' /\ StopOf(w)' /\ pc[w] # "exited" /\ \A k \in Worker : Visits(w, k)'
      BY <1>1, <1>5, <2>1, <2>3 DEF LockOf, StopOf, Visits
    <2>9. pc'[Stopper] = "stopped" => pc[Stopper] = "stopped"
      BY <1>0, <2>1, Threads
    <2>10. /\ \A v \in Worker : muts[v] = Stopper => muts'[v] = Stopper
           /\ \A v \in Worker \ {w} : muts[v] = v => muts'[v] = v
      BY <1>0, <1>3, <1>4
    <2> QED BY <1>0, <1>1, <1>5, <2>1, <2>2, <2>5, <2>6, <2>7, <2>8, <2>9, <2>10, QuietStep
  <1>6. CASE ~ stop_ /\ Goto(w, "run") /\ Call(w) /\ UNCHANGED <<probe, stop_when_try_pop_failed>>
    <2>1. pc' \in [Thread -> Location] /\ pc'[w] = "run" /\ \A u \in Thread \ {w} : pc'[u] = pc[u]
      BY <1>0, <1>2, <1>6, GotoMoves DEF Location
    <2> QED BY <1>1, <1>3, <1>4, <1>6, <2>1, CallInv
  <1> QED BY <1>5, <1>6 DEF Awake

LEMMA TryPopInv ==
  ASSUME Inv, NEW w \in Worker, TryPop(w)
  PROVE  Inv'
  <1>1. pc[w] = "try" /\ UNCHANGED <<body, stopping, timing, history, ran>>
    BY DEF TryPop
  <1>2. TypeOK /\ w \in Thread
    BY Threads DEF Inv
  <1>3. UNCHANGED <<body, timers, accepted, late, ran, timer_stopped, crashed, stop_, stop_when_try_pop_failed>>
    BY <1>1 DEF stopping, timing, history
  <1>4. CASE Found(w, "wake")
    <2>1. "wake" \in Location
      BY DEF Location
    <2> QED BY <1>1, <1>4, <2>1, FoundInv
  <1>5. CASE GoesOn(w)
    <2>1. /\ task_queue[Head(probe[w])] = <<>> /\ probe' = [probe EXCEPT ![w] = Tail(@)] /\ Len(probe[w]) > 1
          /\ UNCHANGED <<task_queue, func, muts, pc>>
      BY <1>5 DEF GoesOn
    <2>2. PICK l \in Location : l = pc[w]
      BY <1>2 DEF TypeOK
    <2>3. pc' \in [Thread -> Location] /\ pc'[w] = l /\ \A u \in Thread \ {w} : pc'[u] = pc[u]
      BY <1>2, <2>1, <2>2 DEF TypeOK
    <2> QED BY <1>1, <1>3, <2>1, <2>2, <2>3, MissInv
  <1>6. CASE /\ NotFound(w)
             /\ Goto(w, IF stop_when_try_pop_failed[w] THEN "exited" ELSE "lock")
             /\ UNCHANGED muts
    <2>1. /\ task_queue[Head(probe[w])] = <<>> /\ probe' = [probe EXCEPT ![w] = Tail(@)] /\ Len(probe[w]) = 1
          /\ UNCHANGED <<task_queue, func, muts>>
      BY <1>6 DEF NotFound
    <2>2. PICK l \in Location : l = (IF stop_when_try_pop_failed[w] THEN "exited" ELSE "lock")
      BY DEF Location
    <2>3. pc' \in [Thread -> Location] /\ pc'[w] = l /\ \A u \in Thread \ {w} : pc'[u] = pc[u]
      BY <1>2, <1>6, <2>2, GotoMoves
    <2> QED BY <1>1, <1>3, <2>1, <2>2, <2>3, MissInv
  <1> QED BY <1>4, <1>5, <1>6 DEF TryPop

LEMMA PredicatePopInv ==
  ASSUME Inv, NEW w \in Worker, PredicatePop(w)
  PROVE  Inv'
  <1>1. pc[w] = "pop" /\ UNCHANGED <<body, stopping, timing, history, ran>>
    BY DEF PredicatePop
  <1>2. TypeOK /\ w \in Thread
    BY Threads DEF Inv
  <1>3. UNCHANGED <<body, timers, accepted, late, ran, timer_stopped, crashed, stop_, stop_when_try_pop_failed>>
    BY <1>1 DEF stopping, timing, history
  <1>4. CASE Found(w, "awake")
    <2>1. "awake" \in Location
      BY DEF Location
    <2> QED BY <1>1, <1>4, <2>1, FoundInv
  <1>5. CASE GoesOn(w)
    <2>1. /\ task_queue[Head(probe[w])] = <<>> /\ probe' = [probe EXCEPT ![w] = Tail(@)] /\ Len(probe[w]) > 1
          /\ UNCHANGED <<task_queue, func, muts, pc>>
      BY <1>5 DEF GoesOn
    <2>2. PICK l \in Location : l = pc[w]
      BY <1>2 DEF TypeOK
    <2>3. pc' \in [Thread -> Location] /\ pc'[w] = l /\ \A u \in Thread \ {w} : pc'[u] = pc[u]
      BY <1>2, <2>1, <2>2 DEF TypeOK
    <2> QED BY <1>1, <1>3, <2>1, <2>2, <2>3, MissInv
  <1>6. CASE NotFound(w) /\ Goto(w, "wait") /\ muts' = [muts EXCEPT ![w] = Nil]
    <2>1. /\ task_queue[Head(probe[w])] = <<>> /\ probe' = [probe EXCEPT ![w] = Tail(@)] /\ Len(probe[w]) = 1
          /\ UNCHANGED <<task_queue, func>>
      BY <1>6 DEF NotFound
    <2>2. PICK l \in Location : l = "wait"
      BY DEF Location
    <2>3. pc' \in [Thread -> Location] /\ pc'[w] = l /\ \A u \in Thread \ {w} : pc'[u] = pc[u]
      BY <1>2, <1>6, <2>2, GotoMoves
    <2> QED BY <1>1, <1>3, <1>6, <2>1, <2>2, <2>3, MissInv
  <1> QED BY <1>4, <1>5, <1>6 DEF PredicatePop

LEMMA PushInv ==
  ASSUME Inv, NEW t \in Thread, Push(t)
  PROVE  Inv'
  <1>1. /\ pc[t] = "push" /\ muts[Head(probe[t])] = Nil /\ UNCHANGED <<muts, func, stopping, timers, timer_stopped, ran>>
        /\ Accept(t, Head(probe[t])) \/ Refuse(t, Head(probe[t]))
    BY DEF Push
  <1>2. CASE Accept(t, Head(probe[t]))
    BY <1>1, <1>2, AcceptInv
  <1>3. CASE Refuse(t, Head(probe[t]))
    BY <1>1, <1>3, RefuseInv
  <1> QED BY <1>1, <1>2, <1>3

LEMMA StepInv ==
  ASSUME Inv, NEW t \in Thread, Step(t)
  PROVE  Inv'
  <1>1. CASE ScheduleStep(t)
    BY <1>1, PushTimerInv, ScheduleInv, PushInv, NotifyInv DEF ScheduleStep
  <1>2. CASE t \in Worker /\ WorkerMain(t)
    BY <1>2, TryPopInv, WakeUpInv, ContinueInv, PredicateInv, PredicatePopInv, AwakeInv DEF WorkerMain
  <1>3. CASE t = Timer /\ TimerStep
    BY <1>3, FireInv, TimerExitsInv DEF TimerStep
  <1>4. CASE t = Stopper /\ Stop
    BY <1>4, TimerJoinedInv, StopLockInv, StopSetInv, StopUnlockInv, StopNotifyInv, JoinInv DEF Stop
  <1> QED BY <1>1, <1>2, <1>3, <1>4 DEF Step

LEMMA StutterInv ==
  ASSUME Inv, UNCHANGED vars
  PROVE  Inv'
  <1>1. UNCHANGED <<task_queue, muts, pc, probe, func, body, stop_when_try_pop_failed, stop_, timers,
                    timer_stopped, crashed, accepted, late, ran>>
    BY DEF vars, stopping, timing, history
  <1>2. TypeOK' /\ PlaceInv'
    BY <1>1 DEF Inv, TypeOK, PlaceInv, PlaceOf
  <1>3. LockInv'
    BY <1>1 DEF Inv, LockInv, LockOf, StopLocks
  <1>4. OnceInv' /\ PlacedInv'
    BY <1>1 DEF Inv, OnceInv, PlacedInv
  <1>5. StopInv' /\ NoLostNotify'
    BY <1>1 DEF Inv, StopInv, StopOf, Visits, NoLostNotify
  <1> QED BY <1>2, <1>3, <1>4, <1>5 DEF Inv

-----------------------------------------------------------------------------

(* Inv is an inductive invariant of the executor.                          *)
THEOREM Invariant == Spec => []Inv
  <1>1. Init => Inv
    BY InitInv
  <1>2. Inv /\ [Next]_vars => Inv'
    <2> SUFFICES ASSUME Inv, [Next]_vars PROVE Inv'
      OBVIOUS
    <2>1. CASE \E t \in Thread : Step(t)
      BY <2>1, StepInv
    <2>2. CASE \E w \in Worker : SpuriousWakeUp(w)
      BY <2>2, SpuriousInv
    <2>3. CASE StopTimer
      BY <2>3, StopTimerInv
    <2>4. CASE UNCHANGED vars
      BY <2>4, StutterInv
    <2> QED BY <2>1, <2>2, <2>3, <2>4 DEF Next
  <1> QED BY <1>1, <1>2, PTL DEF Spec

(* The variables of TunnelExecutor and TimerManager keep their types, and  *)
(* try_push never exceeds the capacity of a task queue.                    *)
THEOREM TypeCorrect == Spec => []TypeOK
  <1>1. Inv => TypeOK
    BY DEF Inv
  <1> QED BY <1>1, Invariant, PTL

(* A worker that sleeps in cvs_[i]->wait with a task in its own queue is   *)
(* about to be notified by the thread that pushed the task in schedule.    *)
THEOREM NoSleeper == Spec => []NoLostNotify
  <1>1. Inv => NoLostNotify
    BY DEF Inv
  <1> QED BY <1>1, Invariant, PTL

(* However the workers steal from one another and whenever Stop is called, *)
(* a task that schedule accepted is at one place until it has been called, *)
(* and it is called once.                                                  *)
THEOREM EveryTaskOnce == Spec => []NoTaskLostOrRepeated
  <1>1. ASSUME Inv, NEW f \in Task
        PROVE  Cardinality(InQueues(f)) + Cardinality(HeldBy(f)) + ran[f] = IF f \in accepted THEN 1 ELSE 0
    <2>0. TypeOK /\ PlacedInv /\ f # Nil /\ ran[f] \in Nat
      BY <1>1, Threads DEF Inv, TypeOK
    <2>1. f \in accepted <=> ran[f] # 0 \/ \E k \in Worker : InSeq(f, task_queue[k]) \/ func[k] = f
      BY <2>0 DEF PlacedInv
    <2>2. ASSUME NEW k \in Worker, InSeq(f, task_queue[k]) PROVE Cardinality(InQueues(f)) = 1
      <3>1. PICK i \in DOMAIN task_queue[k] : task_queue[k][i] = f
        BY <2>2 DEF InSeq
      <3>2. i \in 1..QueueSize
        <4>1. task_queue[k] \in Seq(Task) /\ Len(task_queue[k]) <= QueueSize
          BY <2>0 DEF TypeOK
        <4>2. Len(task_queue[k]) \in Nat /\ DOMAIN task_queue[k] = 1..Len(task_queue[k])
          BY <4>1
        <4> QED BY <4>1, <4>2, ThreadAssumption
      <3>3. <<k, i>> \in InQueues(f)
        BY <3>1, <3>2 DEF InQueues
      <3>4. ASSUME NEW at \in InQueues(f) PROVE at = <<k, i>>
        <4>1. /\ at[1] \in Worker /\ at = <<at[1], at[2]>>
              /\ at[2] \in DOMAIN task_queue[at[1]] /\ task_queue[at[1]][at[2]] = f
          BY DEF InQueues
        <4>2. InSeq(f, task_queue[at[1]])
          BY <4>1 DEF InSeq
        <4>3. at[1] = k
          BY <2>0, <2>2, <4>1, <4>2 DEF PlacedInv
        <4>4. at[2] = i
          BY <2>0, <3>1, <4>1, <4>3 DEF PlacedInv, NoDup
        <4> QED BY <4>1, <4>3, <4>4
      <3>5. InQueues(f) = {<<k, i>>}
        BY <3>3, <3>4
      <3> QED BY <3>5, FS_Singleton
    <2>3. ASSUME \A k \in Worker : ~ InSeq(f, task_queue[k]) PROVE Cardinality(InQueues(f)) = 0
      <3>1. InQueues(f) = {}
        BY <2>3 DEF InQueues, InSeq
      <3> QED BY <3>1, FS_EmptySet
    <2>4. ASSUME NEW w \in Worker, func[w] = f PROVE Cardinality(HeldBy(f)) = 1
      <3>1. HeldBy(f) = {w}
        BY <2>0, <2>4 DEF HeldBy, PlacedInv
      <3> QED BY <3>1, FS_Singleton
    <2>5. ASSUME \A w \in Worker : func[w] # f PROVE Cardinality(HeldBy(f)) = 0
      <3>1. HeldBy(f) = {}
        BY <2>5 DEF HeldBy
      <3> QED BY <3>1, FS_EmptySet
    <2>6. CASE \E k \in Worker : InSeq(f, task_queue[k])
      <3>1. PICK k \in Worker : InSeq(f, task_queue[k])
        BY <2>6
      <3>2. \A w \in Worker : func[w] # f
        BY <2>0, <3>1 DEF PlacedInv
      <3>3. ran[f] = 0 /\ f \in accepted
        BY <2>0, <2>1, <3>1 DEF PlacedInv
      <3>4. Cardinality(InQueues(f)) = 1 /\ Cardinality(HeldBy(f)) = 0
        BY <2>2, <2>5, <3>1, <3>2
      <3> QED BY <3>3, <3>4
    <2>7. CASE ~ (\E k \in Worker : InSeq(f, task_queue[k])) /\ \E w \in Worker : func[w] = f
      <3>1. PICK w \in Worker : func[w] = f
        BY <2>7
      <3>2. ran[f] = 0 /\ f \in accepted
        BY <2>0, <2>1, <3>1 DEF PlacedInv
      <3>3. Cardinality(InQueues(f)) = 0 /\ Cardinality(HeldBy(f)) = 1
        BY <2>3, <2>4, <2>7, <3>1
      <3> QED BY <3>2, <3>3
    <2>8. CASE ~ (\E k \in Worker : InSeq(f, task_queue[k])) /\ ~ \E w \in Worker : func[w] = f
      <3>1. f \in accepted <=> ran[f] # 0
        BY <2>1, <2>8
      <3>2. ran[f] # 0 => ran[f] = 1
        BY <2>0 DEF PlacedInv
      <3>3. Cardinality(InQueues(f)) = 0 /\ Cardinality(HeldBy(f)) = 0
        BY <2>3, <2>5, <2>8
      <3> QED BY <3>1, <3>2, <3>3
    <2> QED BY <2>6, <2>7, <2>8
  <1>2. Inv => NoTaskLostOrRepeated
    BY <1>1 DEF NoTaskLostOrRepeated
  <1> QED BY <1>2, Invariant, PTL

(* When Stop has joined the workers, all that schedule accepted has run,   *)
(* except what outside threads scheduled after stop_ was set.              *)
THEOREM StopDrains == Spec => []StopRunsEverything
  <1>1. ASSUME Inv, pc[Stopper] = "stopped", NEW f \in accepted \ late PROVE ran[f] = 1
    <2>1. PlaceInv /\ PlacedInv /\ StopInv /\ f \in Task
      BY <1>1 DEF Inv, TypeOK
    <2>2. \A w \in Worker : pc[w] = "exited"
      BY <1>1, <2>1 DEF StopInv
    <2>3. \A k \in Worker : ~ InSeq(f, task_queue[k])
      BY <1>1, <2>1, <2>2 DEF StopInv, Visits
    <2>4. \A w \in Worker : func[w] = Nil
      BY <2>1, <2>2, Threads DEF PlaceInv, PlaceOf
    <2>5. ran[f] # 0
      BY <1>1, <2>1, <2>3, <2>4, Threads DEF PlacedInv
    <2> QED BY <2>1, <2>5 DEF PlacedInv
  <1>2. Inv => StopRunsEverything
    BY <1>1 DEF StopRunsEverything
  <1> QED BY <1>2, Invariant, PTL

=============================================================================
