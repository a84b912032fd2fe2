--------------------------- MODULE ThreadPoolProofs ---------------------------
(***************************************************************************)
(* Proofs about ThreadPool, for every number of workers and tasks: types,  *)
(* that no wake-up is lost, that no task is lost or run twice, and that    *)
(* stop(true) keeps its promise.  For wake-ups: a thread that found the    *)
(* queue empty and is about to wait holds mutex, so every push since then  *)
(* is still notifying.  For the promise: a thread that returns for isDone  *)
(* has found nothing but tasks that are being pushed still, and those were *)
(* not promised.  For stop: whoever waits has been told nothing when he    *)
(* began, and is woken when he is told later.                              *)
(***************************************************************************)
EXTENDS ThreadPool, FiniteSetTheorems, TLAPS

\* A thread that runs has something to run.
Busy == \A w \in Worker : at[w] = "running" => hand[w] \in Task

TypeInv == TypeOK /\ Busy

-----------------------------------------------------------------------------
\* Types.

\* Popping the queue takes a task from it and leaves a shorter queue of tasks.
LEMMA HeadTail ==
  ASSUME q \in Seq(Task), q # <<>>
  PROVE  Head(q) \in Task /\ Tail(q) \in Seq(Task) /\ Len(Tail(q)) = Len(q) - 1
OBVIOUS

LEMMA TakeType ==
  ASSUME TypeOK, NEW w \in Worker, q # <<>>, Take(w)
  PROVE  /\ q' \in Seq(Task) /\ hand' \in [Worker -> Task \cup {NoTask}]
         /\ hand'[w] \in Task /\ \A x \in Worker : x # w => hand'[x] = hand[x]
         /\ pushed' = pushed /\ ran' = ran /\ dropped' = dropped
BY HeadTail DEF Take, TypeOK

LEMMA PopType == ASSUME TypeInv, NEW w \in Worker, Pop(w) PROVE TypeInv'
<1>1. CASE q = <<>>
  BY <1>1 DEF Pop, TypeInv, TypeOK, Busy, queue, flags, Place
<1>2. CASE q # <<>>
  <2>1. Take(w) /\ at' = [at EXCEPT ![w] = "running"]
    BY <1>2 DEF Pop
  <2>2. TypeOK'
    BY <1>2, <2>1, TakeType DEF Pop, TypeInv, TypeOK, flags, Place
  <2>3. Busy'
    BY <1>2, <2>1, TakeType DEF TypeInv, TypeOK, Busy
  <2> QED
    BY <2>2, <2>3 DEF TypeInv
<1> QED
  BY <1>1, <1>2

LEMMA PredicateType == ASSUME TypeInv, NEW w \in Worker, Predicate(w) PROVE TypeInv'
<1>1. CASE q = <<>>
  BY <1>1 DEF Predicate, TypeInv, TypeOK, Busy, queue, flags, Place
<1>2. CASE q # <<>>
  <2>1. Take(w) /\ at' = [at EXCEPT ![w] = "decide"]
    BY <1>2 DEF Predicate
  <2>2. TypeOK'
    BY <1>2, <2>1, TakeType DEF Predicate, TypeInv, TypeOK, flags, Place
  <2>3. Busy'
    BY <1>2, <2>1, TakeType DEF TypeInv, TypeOK, Busy
  <2> QED
    BY <2>2, <2>3 DEF TypeInv
<1> QED
  BY <1>1, <1>2

LEMMA DecideType == ASSUME TypeInv, NEW w \in Worker, Decide(w) PROVE TypeInv'
BY DEF Decide, TypeInv, TypeOK, Busy, queue, flags, Place

LEMMA LoopType ==
  ASSUME TypeInv, NEW w \in Worker, Loop(w) \/ WakeSpuriously(w)
  PROVE  TypeInv'
<1>1. CASE Run(w)
  BY <1>1 DEF Run, TypeInv, TypeOK, Busy, flags, Place
<1>2. CASE Test(w)
  BY <1>2 DEF Test, TypeInv, TypeOK, Busy, queue, flags, Place
<1>3. CASE WakeSpuriously(w)
  BY <1>3 DEF WakeSpuriously, TypeInv, TypeOK, Busy, queue, flags, Place
<1> QED
  BY <1>1, <1>2, <1>3, PopType, PredicateType, DecideType DEF Loop

LEMMA PushType ==
  ASSUME TypeInv, NEW t \in Task, Push(t) \/ Notify(t)
  PROVE  TypeInv'
<1>1. CASE Push(t)
  BY <1>1 DEF Push, TypeInv, TypeOK, Busy, flags, Place
<1>2. CASE Notify(t)
  BY <1>2 DEF Notify, TypeInv, TypeOK, Busy, queue, flags, Place, At
<1> QED
  BY <1>1, <1>2

\* The controller's operations leave what the threads have in hand alone.
LEMMA ControlType == ASSUME TypeInv, Control PROVE TypeInv'
<1>1. ASSUME NEW w \in Worker, Grow(w) PROVE TypeInv'
  BY <1>1 DEF Grow, TypeInv, TypeOK, Busy, queue, flags, Place
<1>2. ASSUME NEW w \in Worker, Flag(w) PROVE TypeInv'
  BY <1>2 DEF Flag, TypeInv, TypeOK, Busy, queue, Place
<1>3. ASSUME NEW S \in SUBSET threads, Shrink(S) PROVE TypeInv'
  BY <1>3 DEF Shrink, Calls, TypeInv, TypeOK, Busy, queue, flags, Place
<1>4. CASE Discard
  BY <1>4 DEF Discard, Calls, TypeInv, TypeOK, Busy, queue, Place
<1>5. CASE Drain
  BY <1>5 DEF Drain, Calls, TypeInv, TypeOK, Busy, queue, Place
<1>6. CASE AllFlagged
  BY <1>6 DEF AllFlagged, Proceeds, TypeInv, TypeOK, Busy, queue, flags, Place
<1>7. CASE ClearOne
  BY <1>7, HeadTail DEF ClearOne, TypeInv, TypeOK, Busy, flags, Place
<1>8. CASE Cleared
  BY <1>8 DEF Cleared, Proceeds, TypeInv, TypeOK, Busy, queue, flags, Place
<1>9. CASE NotifyAll
  BY <1>9 DEF NotifyAll, Proceeds, Idle, TypeInv, TypeOK, Busy, queue, flags, Place
<1>10. CASE Join
  BY <1>10 DEF Join, Proceeds, TypeInv, TypeOK, Busy, queue, flags, Place
<1>11. CASE Stopped
  BY <1>11 DEF Stopped, Proceeds, Idle, TypeInv, TypeOK, Busy, queue, flags, Place
<1> QED
  BY <1>1, <1>2, <1>3, <1>4, <1>5, <1>6, <1>7, <1>8, <1>9, <1>10, <1>11 DEF Control

LEMMA TypeStep == TypeInv /\ [Next]_vars => TypeInv'
<1> SUFFICES ASSUME TypeInv, [Next]_vars PROVE TypeInv'
  OBVIOUS
<1>1. CASE UNCHANGED vars
  BY <1>1 DEF vars, TypeInv, TypeOK, Busy, queue, flags
<1> QED
  BY <1>1, LoopType, PushType, ControlType DEF Next

LEMMA TypeInit == Init => TypeInv
<1> SUFFICES ASSUME Init PROVE TypeInv
  OBVIOUS
<1>1. q \in Seq(Task)
  BY DEF Init
<1>2. Busy
  BY DEF Init, Busy
<1> QED
  BY <1>1, <1>2 DEF Init, TypeInv, TypeOK, Idle, Place

\* Types hold throughout; what is run is always a task that was popped.
THEOREM TypeCorrect == Spec => []TypeOK
<1>1. TypeInv => TypeOK
  BY DEF TypeInv
<1> QED
  BY TypeInit, TypeStep, <1>1, PTL DEF Spec
-----------------------------------------------------------------------------
\* The mutex of the condition variable, and wake-ups.

\* A thread between its pop in the predicate and its decision holds mutex.
Exclusive == \A w \in Worker : at[w] = "decide" => mutex = w

\* If it popped nothing, whatever is queued has been pushed since, and those pushes
\* wait for mutex.
SawEmpty == \A w \in Worker :
              at[w] = "decide" /\ hand[w] = NoTask => Len(q) <= Cardinality(notifying)

WakeInv == /\ TypeInv
           /\ notifying \subseteq pushed
           /\ Exclusive /\ SawEmpty /\ NoLostWakeup

LEMMA Counts ==
  ASSUME TypeOK
  PROVE  /\ Len(q) \in Nat
         /\ IsFiniteSet(notifying) /\ Cardinality(notifying) \in Nat
         /\ \A place : /\ IsFiniteSet(At(place))
                       /\ Cardinality(At(place)) \in Nat
<1>1. \A place : At(place) \subseteq Worker
  BY DEF At
<1>2. notifying \subseteq Task
  BY DEF TypeOK
<1> QED
  BY <1>1, <1>2, PoolAssumption, FS_Subset, FS_CardinalityType DEF TypeOK

\* NoLostWakeup survives when the queue does not grow, and neither the pushes that are
\* notifying nor the threads that are woken become fewer, nor a thread begins to wait.
LEMMA WakeKept ==
  ASSUME TypeInv, TypeInv', NoLostWakeup,
         At("waiting")' \subseteq At("waiting"), At("locking") \subseteq At("locking")',
         Len(q') <= Len(q), notifying' = notifying
  PROVE  NoLostWakeup'
<1>1. Cardinality(At("locking")) <= Cardinality(At("locking")')
  <2>1. IsFiniteSet(At("locking")')
    BY PoolAssumption, FS_Subset DEF At
  <2> QED
    BY <2>1, FS_Subset
<1>2. /\ Len(q) \in Nat /\ Len(q') \in Nat /\ Cardinality(notifying) \in Nat
      /\ Cardinality(At("locking")) \in Nat /\ Cardinality(At("locking")') \in Nat
  <2>1. IsFiniteSet(At("locking")')
    BY PoolAssumption, FS_Subset DEF At
  <2> QED
    BY <2>1, Counts, FS_CardinalityType DEF TypeInv, TypeOK
<1> QED
  BY <1>1, <1>2 DEF NoLostWakeup

\* A step that moves no thread and changes neither queue nor pushes keeps WakeInv.
LEMMA WakeUnchanged ==
  ASSUME WakeInv, TypeInv', UNCHANGED <<q, hand, mutex, at, notifying, pushed>>
  PROVE  WakeInv'
BY DEF WakeInv, Exclusive, SawEmpty, NoLostWakeup, At

\* One thread moves, from a place where it neither waits nor is woken, to one where it
\* neither waits nor decides; queue and pushes stay as they are.
LEMMA WakeMoved ==
  ASSUME WakeInv, TypeInv', NEW w \in Worker, NEW place,
         at' = [at EXCEPT ![w] = place],
         place \notin {"waiting", "decide"}, at[w] \notin {"locking", "decide"},
         \A x \in Worker : x # w => hand'[x] = hand[x],
         UNCHANGED <<q, mutex, notifying, pushed>>
  PROVE  WakeInv'
<1>1. \A x \in Worker : at'[x] = IF x = w THEN place ELSE at[x]
  BY DEF WakeInv, TypeInv, TypeOK
<1>2. Exclusive' /\ SawEmpty'
  BY <1>1 DEF WakeInv, Exclusive, SawEmpty
<1>3. At("waiting")' \subseteq At("waiting") /\ At("locking") \subseteq At("locking")'
  BY <1>1 DEF At
<1>4. Len(q') <= Len(q)
  BY Counts DEF WakeInv, TypeInv
<1>5. NoLostWakeup'
  BY <1>3, <1>4, WakeKept DEF WakeInv
<1> QED
  BY <1>2, <1>5 DEF WakeInv

\* push, first half: the task is queued and its push is counted as notifying.
LEMMA WakePush == ASSUME WakeInv, TypeInv', NEW t \in Task, Push(t) PROVE WakeInv'
<1>1. t \notin notifying /\ notifying' = notifying \cup {t} /\ pushed' = pushed \cup {t}
  BY DEF Push, WakeInv
<1>2. Cardinality(notifying') = Cardinality(notifying) + 1
  BY <1>1, Counts, FS_AddElement DEF WakeInv, TypeInv
<1>3. q' = Append(q, t) /\ Len(q') = Len(q) + 1
  BY DEF Push, WakeInv, TypeInv, TypeOK
<1>4. UNCHANGED <<at, hand, mutex>>
  BY DEF Push
<1>5. At("waiting")' = At("waiting") /\ At("locking")' = At("locking")
  BY <1>4 DEF At
<1>6. SawEmpty' /\ NoLostWakeup'
  BY <1>2, <1>3, <1>4, <1>5, Counts DEF WakeInv, TypeInv, SawEmpty, NoLostWakeup
<1>7. Exclusive' /\ notifying' \subseteq pushed'
  BY <1>1, <1>4 DEF WakeInv, Exclusive
<1> QED
  BY <1>6, <1>7 DEF WakeInv

\* push, second half: nobody decides meanwhile, and a waiting thread is woken in
\* exchange for the push that is over.
LEMMA WakeNotify == ASSUME WakeInv, TypeInv', NEW t \in Task, Notify(t) PROVE WakeInv'
<1>1. /\ t \in notifying /\ notifying' = notifying \ {t}
      /\ UNCHANGED <<q, hand, mutex, pushed>> /\ mutex = NoWorker
  BY DEF Notify, queue
<1>2. Cardinality(notifying') = Cardinality(notifying) - 1
  BY <1>1, Counts, FS_RemoveElement DEF WakeInv, TypeInv
<1>3. \A w \in Worker : at[w] # "decide"
  BY <1>1, PoolAssumption DEF WakeInv, Exclusive
<1>4. CASE At("waiting") = {}
  <2>1. at' = at
    BY <1>4 DEF Notify
  <2>2. At("waiting")' = {}
    BY <1>4, <2>1 DEF At
  <2> QED
    BY <1>1, <1>3, <2>1, <2>2 DEF WakeInv, Exclusive, SawEmpty, NoLostWakeup
<1>5. CASE At("waiting") # {}
  <2>1. PICK w \in At("waiting") : at' = [at EXCEPT ![w] = "locking"]
    BY <1>5 DEF Notify
  <2>2. w \in Worker /\ at[w] = "waiting"
    BY DEF At
  <2>3. \A x \in Worker : at'[x] = IF x = w THEN "locking" ELSE at[x]
    BY <2>1 DEF WakeInv, TypeInv, TypeOK
  <2>4. At("locking")' = At("locking") \cup {w} /\ w \notin At("locking")
    BY <2>2, <2>3 DEF At
  <2>5. Cardinality(At("locking")') = Cardinality(At("locking")) + 1
    BY <2>4, Counts, FS_AddElement DEF WakeInv, TypeInv
  <2>6. NoLostWakeup'
    BY <1>1, <1>2, <1>5, <2>5, Counts DEF WakeInv, TypeInv, NoLostWakeup
  <2>7. Exclusive' /\ SawEmpty'
    BY <1>3, <2>3 DEF Exclusive, SawEmpty
  <2> QED
    BY <1>1, <2>6, <2>7 DEF WakeInv
<1> QED
  BY <1>4, <1>5

\* The pop at the head of the loop: a task fewer, or one more thread about to look.
LEMMA WakePop == ASSUME WakeInv, TypeInv', NEW w \in Worker, Pop(w) PROVE WakeInv'
<1>1. CASE q = <<>>
  BY <1>1, WakeMoved DEF Pop, queue
<1>2. CASE q # <<>>
  <2>1. /\ Take(w) /\ at' = [at EXCEPT ![w] = "running"] /\ at[w] = "popping"
        /\ UNCHANGED <<mutex, notifying, pushed>>
    BY <1>2 DEF Pop, Take
  <2>2. \A x \in Worker : at'[x] = IF x = w THEN "running" ELSE at[x]
    BY <2>1 DEF WakeInv, TypeInv, TypeOK
  <2>3. Len(q') = Len(q) - 1 /\ Len(q) \in Nat
    BY <1>2, <2>1, HeadTail DEF Take, WakeInv, TypeInv, TypeOK
  <2>4. \A x \in Worker : x # w => hand'[x] = hand[x]
    BY <1>2, <2>1, TakeType DEF WakeInv, TypeInv
  <2>5. Exclusive' /\ SawEmpty'
    BY <2>1, <2>2, <2>3, <2>4, Counts DEF WakeInv, TypeInv, Exclusive, SawEmpty
  <2>6. At("waiting")' \subseteq At("waiting") /\ At("locking") \subseteq At("locking")'
    BY <2>1, <2>2 DEF At
  <2>7. NoLostWakeup'
    BY <2>1, <2>3, <2>6, WakeKept DEF WakeInv
  <2> QED
    BY <2>1, <2>5, <2>7 DEF WakeInv
<1> QED
  BY <1>1, <1>2

\* The pop in the predicate: a woken thread fewer, for a task fewer or an empty queue.
LEMMA WakePredicate ==
  ASSUME WakeInv, TypeInv', NEW w \in Worker, Predicate(w)
  PROVE  WakeInv'
<1>1. /\ at[w] = "locking" /\ mutex = NoWorker /\ mutex' = w
      /\ at' = [at EXCEPT ![w] = "decide"] /\ notifying' = notifying
  BY DEF Predicate
<1>2. pushed' = pushed
  BY DEF Predicate, queue, Take
<1>3. \A x \in Worker : at'[x] = IF x = w THEN "decide" ELSE at[x]
  BY <1>1 DEF WakeInv, TypeInv, TypeOK
<1>4. \A x \in Worker : at[x] # "decide"
  BY <1>1, PoolAssumption DEF WakeInv, Exclusive
<1>5. Exclusive'
  BY <1>1, <1>3, <1>4 DEF Exclusive
<1>6. At("waiting")' = At("waiting") /\ At("locking")' = At("locking") \ {w}
  BY <1>1, <1>3 DEF At
<1>7. w \in At("locking") /\ Cardinality(At("locking")') = Cardinality(At("locking")) - 1
  <2>1. w \in At("locking")
    BY <1>1 DEF At
  <2> QED
    BY <1>6, <2>1, Counts, FS_RemoveElement DEF WakeInv, TypeInv
<1>8. Cardinality(At("locking")') \in Nat
  BY PoolAssumption, FS_Subset, FS_CardinalityType DEF At
<1>9. CASE q = <<>>
  <2>1. q' = <<>> /\ Len(q') = 0
    BY <1>9 DEF Predicate, queue
  <2> QED
    BY <1>1, <1>2, <1>5, <1>8, <2>1, Counts
    DEF WakeInv, TypeInv, SawEmpty, NoLostWakeup
<1>10. CASE q # <<>>
  <2>1. Take(w)
    BY <1>10 DEF Predicate
  <2>2. hand'[w] # NoTask
    BY <1>10, <2>1, TakeType, PoolAssumption DEF WakeInv, TypeInv
  <2>3. Len(q') = Len(q) - 1
    BY <1>10, <2>1, HeadTail DEF Take, WakeInv, TypeInv, TypeOK
  <2>4. SawEmpty'
    BY <1>3, <1>4, <2>2 DEF SawEmpty
  <2>5. NoLostWakeup'
    BY <1>1, <1>6, <1>7, <2>3, Counts DEF WakeInv, TypeInv, NoLostWakeup
  <2> QED
    BY <1>1, <1>2, <1>5, <2>4, <2>5 DEF WakeInv
<1> QED
  BY <1>9, <1>10

\* The decision: a thread begins to wait only if it saw the queue empty.
LEMMA WakeDecide == ASSUME WakeInv, TypeInv', NEW w \in Worker, Decide(w) PROVE WakeInv'
<1> DEFINE place == IF hand[w] # NoTask THEN "running"
                    ELSE IF isDone \/ flag[w] THEN "returned" ELSE "waiting"
<1>1. /\ at[w] = "decide" /\ at' = [at EXCEPT ![w] = place]
      /\ UNCHANGED <<q, hand, notifying, pushed>>
  BY DEF Decide, queue
<1>2. \A x \in Worker : at'[x] = IF x = w THEN place ELSE at[x]
  BY <1>1 DEF WakeInv, TypeInv, TypeOK
<1>3. \A x \in Worker : x # w => at[x] # "decide"
  BY <1>1 DEF WakeInv, Exclusive
<1>4. Exclusive' /\ SawEmpty'
  BY <1>2, <1>3 DEF Exclusive, SawEmpty
<1>5. At("locking")' = At("locking")
  BY <1>1, <1>2 DEF At
<1>6. CASE hand[w] = NoTask
  <2>1. Len(q) <= Cardinality(notifying)
    BY <1>1, <1>6 DEF WakeInv, SawEmpty
  <2>2. NoLostWakeup'
    BY <1>1, <1>5, <2>1, Counts DEF WakeInv, TypeInv, NoLostWakeup
  <2> QED
    BY <1>1, <1>4, <2>2 DEF WakeInv
<1>7. CASE hand[w] # NoTask
  <2>1. At("waiting")' = At("waiting")
    BY <1>1, <1>2, <1>7 DEF At
  <2>2. NoLostWakeup'
    BY <1>1, <1>5, <2>1 DEF WakeInv, NoLostWakeup
  <2> QED
    BY <1>1, <1>4, <2>2 DEF WakeInv
<1> QED
  BY <1>6, <1>7

\* clear_queue and notify_all, the controller's steps that reach into the invariant.
LEMMA WakeClear == ASSUME WakeInv, TypeInv', ClearOne PROVE WakeInv'
<1>1. UNCHANGED <<hand, mutex, at, notifying, pushed>>
  BY DEF ClearOne
<1>2. Len(q') = Len(q) - 1 /\ Len(q) \in Nat
  BY HeadTail DEF ClearOne, WakeInv, TypeInv, TypeOK
<1>3. At("waiting")' = At("waiting") /\ At("locking")' = At("locking")
  BY <1>1 DEF At
<1>4. NoLostWakeup'
  BY <1>1, <1>2, <1>3, WakeKept DEF WakeInv
<1>5. Exclusive' /\ SawEmpty'
  BY <1>1, <1>2, Counts DEF WakeInv, TypeInv, Exclusive, SawEmpty
<1> QED
  BY <1>1, <1>4, <1>5 DEF WakeInv

LEMMA WakeAll == ASSUME WakeInv, TypeInv', NotifyAll PROVE WakeInv'
<1>1. /\ at' = [w \in Worker |-> IF at[w] = "waiting" THEN "locking" ELSE at[w]]
      /\ UNCHANGED <<q, hand, mutex, notifying, pushed>>
  BY DEF NotifyAll, queue
<1>2. At("waiting")' = {}
  BY <1>1 DEF At
<1>3. Exclusive' /\ SawEmpty'
  BY <1>1 DEF WakeInv, Exclusive, SawEmpty
<1> QED
  BY <1>1, <1>2, <1>3 DEF WakeInv, NoLostWakeup

LEMMA WakeStep == WakeInv /\ [Next]_vars => WakeInv'
<1> SUFFICES ASSUME WakeInv, [Next]_vars PROVE WakeInv'
  OBVIOUS
<1>t. TypeInv'
  BY TypeStep DEF WakeInv
<1>1. ASSUME NEW t \in Task, Push(t) \/ Notify(t) PROVE WakeInv'
  BY <1>t, <1>1, WakePush, WakeNotify
<1>2. ASSUME NEW w \in Worker, Run(w) \/ Test(w) PROVE WakeInv'
  <2>1. CASE Run(w)
    BY <1>t, <2>1, WakeMoved DEF Run, WakeInv, TypeInv, TypeOK
  <2>2. CASE Test(w)
    <3> DEFINE place == IF flag[w] THEN "returned" ELSE "popping"
    <3>1. /\ at[w] = "ran" /\ at' = [at EXCEPT ![w] = place]
          /\ UNCHANGED <<q, hand, mutex, notifying, pushed>>
      BY <2>2 DEF Test, queue
    <3>2. place \notin {"waiting", "decide"}
      OBVIOUS
    <3> HIDE DEF place
    <3> QED
      BY <1>t, <3>1, <3>2, WakeMoved
  <2> QED
    BY <1>2, <2>1, <2>2
<1>3. ASSUME NEW w \in Worker, WakeSpuriously(w) PROVE WakeInv'
  <2> DEFINE place == "locking"
  <2>1. /\ at[w] = "waiting" /\ at' = [at EXCEPT ![w] = place]
        /\ UNCHANGED <<q, hand, mutex, notifying, pushed>>
    BY <1>3 DEF WakeSpuriously, queue
  <2>2. place \notin {"waiting", "decide"} /\ at[w] \notin {"locking", "decide"}
    BY <2>1
  <2> HIDE DEF place
  <2> QED
    BY <1>t, <2>1, <2>2, WakeMoved
<1>4. ASSUME NEW w \in Worker, Grow(w) PROVE WakeInv'
  BY <1>t, <1>4, WakeMoved DEF Grow, queue
<1>5. ASSUME NEW w \in Worker, Flag(w) PROVE WakeInv'
  BY <1>t, <1>5, WakeUnchanged DEF Flag, queue
<1>6. ASSUME NEW S \in SUBSET threads, Shrink(S) PROVE WakeInv'
  BY <1>t, <1>6, WakeUnchanged DEF Shrink, queue
<1>7. CASE Discard \/ Drain
  BY <1>t, <1>7, WakeUnchanged DEF Discard, Drain, queue
<1>8. CASE AllFlagged \/ Cleared \/ Join \/ Stopped
  BY <1>t, <1>8, WakeUnchanged DEF AllFlagged, Cleared, Join, Stopped, queue
<1>9. CASE UNCHANGED vars
  BY <1>t, <1>9, WakeUnchanged DEF vars, queue
<1> QED
  BY <1>t, <1>1, <1>2, <1>3, <1>4, <1>5, <1>6, <1>7, <1>8, <1>9,
     WakePop, WakePredicate, WakeDecide, WakeClear, WakeAll DEF Next, Loop, Control

LEMMA WakeInit == Init => WakeInv
<1> SUFFICES ASSUME Init PROVE WakeInv
  OBVIOUS
<1>1. \A w \in Worker : at[w] \in {"popping", "none"}
  BY DEF Init
<1>2. Exclusive /\ SawEmpty
  BY <1>1 DEF Exclusive, SawEmpty
<1>3. NoLostWakeup
  BY <1>1 DEF NoLostWakeup, At
<1>4. notifying \subseteq pushed
  BY DEF Init
<1> QED
  BY <1>2, <1>3, <1>4, TypeInit DEF WakeInv

\* No wake-up is ever lost.
THEOREM NoLostWakeupAlways == Spec => []NoLostWakeup
<1>1. WakeInv => NoLostWakeup
  BY DEF WakeInv
<1> QED
  BY WakeInit, WakeStep, <1>1, PTL DEF Spec
-----------------------------------------------------------------------------
\* No task is lost, run twice, or run and deleted.

\* The parts of Conserved: the queue holds no task twice, no two threads hold the same,
\* a thread that holds one is about to run it, and each task is in one place.
Queued1 == \A i, j \in 1 .. Len(q) : q[i] = q[j] => i = j

Held1 == \A w, x \in Worker : hand[w] = hand[x] /\ hand[w] # NoTask => w = x

HeldToRun == \A w \in Worker : hand[w] # NoTask => at[w] \in {"running", "decide"}

Placed == \A t \in Task :
            /\ t \in pushed <=> (InQueue(t) \/ InHand(t) \/ t \in ran \/ t \in dropped)
            /\ ~(InQueue(t) /\ InHand(t)) /\ ~(t \in ran /\ t \in dropped)
            /\ t \in ran \cup dropped => ~InQueue(t) /\ ~InHand(t)

ConservedInv == TypeInv /\ Queued1 /\ Held1 /\ HeldToRun /\ Placed

LEMMA ConservedParts == Conserved <=> Queued1 /\ Held1 /\ HeldToRun /\ Placed
BY DEF Conserved, Queued1, Held1, HeldToRun, Placed

\* Of a queue without duplicates, the tail holds every task but the head, each once.
LEMMA QueueTail ==
  ASSUME q \in Seq(Task), q # <<>>, q' = Tail(q), Queued1
  PROVE  /\ Queued1' /\ InQueue(Head(q)) /\ Head(q) \in Task
         /\ \A t \in Task : InQueue(t)' <=> InQueue(t) /\ t # Head(q)
<1>1. /\ Len(q) \in Nat /\ Len(q) >= 1 /\ Len(q') = Len(q) - 1 /\ Head(q) = q[1]
      /\ \A i \in 1 .. Len(q') : q'[i] = q[i + 1]
  OBVIOUS
<1>2. Queued1'
  BY <1>1 DEF Queued1
<1>3. InQueue(Head(q)) /\ Head(q) \in Task
  BY <1>1, HeadTail DEF InQueue
<1>4. ASSUME NEW t \in Task, InQueue(t)' PROVE InQueue(t) /\ t # Head(q)
  <2>1. PICK i \in 1 .. Len(q') : q'[i] = t
    BY <1>4 DEF InQueue
  <2>2. i + 1 \in 1 .. Len(q) /\ q[i + 1] = t /\ i + 1 # 1 /\ 1 \in 1 .. Len(q)
    BY <1>1, <2>1
  <2> QED
    BY <1>1, <2>2 DEF InQueue, Queued1
<1>5. ASSUME NEW t \in Task, InQueue(t), t # Head(q) PROVE InQueue(t)'
  <2>1. PICK i \in 1 .. Len(q) : q[i] = t
    BY <1>5 DEF InQueue
  <2>2. i - 1 \in 1 .. Len(q') /\ q'[i - 1] = t
    BY <1>1, <1>5, <2>1
  <2> QED
    BY <2>2 DEF InQueue
<1> QED
  BY <1>2, <1>3, <1>4, <1>5

\* A step that leaves the tasks where they are keeps all but the place of the threads.
LEMMA ConservedKept ==
  ASSUME ConservedInv, TypeInv', UNCHANGED queue, HeldToRun'
  PROVE  ConservedInv'
BY DEF ConservedInv, queue, Queued1, Held1, Placed, InQueue, InHand

LEMMA ConservedPush == ASSUME ConservedInv, TypeInv', NEW t \in Task, Push(t) PROVE ConservedInv'
<1>1. /\ t \notin pushed /\ q' = Append(q, t) /\ pushed' = pushed \cup {t}
      /\ UNCHANGED <<hand, ran, dropped, at>>
  BY DEF Push
<1>2. /\ Len(q) \in Nat /\ Len(q') = Len(q) + 1 /\ q'[Len(q')] = t
      /\ \A i \in 1 .. Len(q) : q'[i] = q[i]
  BY <1>1 DEF ConservedInv, TypeInv, TypeOK
<1>3. ~InQueue(t) /\ ~InHand(t) /\ t \notin ran /\ t \notin dropped
  BY <1>1 DEF ConservedInv, Placed
<1>4. \A u \in Task : InQueue(u)' <=> InQueue(u) \/ u = t
  BY <1>2 DEF InQueue
<1>5. Queued1'
  BY <1>2, <1>3 DEF ConservedInv, Queued1, InQueue
<1>6. \A u \in Task : InHand(u)' <=> InHand(u)
  BY <1>1 DEF InHand
<1>7. Placed'
  BY <1>1, <1>3, <1>4, <1>6 DEF ConservedInv, Placed
<1>8. Held1' /\ HeldToRun'
  BY <1>1 DEF ConservedInv, Held1, HeldToRun
<1> QED
  BY <1>5, <1>7, <1>8 DEF ConservedInv

\* A thread that holds nothing takes the head of the queue.
LEMMA ConservedTake ==
  ASSUME ConservedInv, TypeInv', NEW w \in Worker, q # <<>>, Take(w), hand[w] = NoTask,
         HeldToRun'
  PROVE  ConservedInv'
<1> DEFINE h == Head(q)
<1>1. /\ q \in Seq(Task) /\ q' = Tail(q) /\ UNCHANGED <<pushed, ran, dropped>>
      /\ \A x \in Worker : hand'[x] = IF x = w THEN h ELSE hand[x]
  BY DEF Take, ConservedInv, TypeInv, TypeOK
<1>2. /\ Queued1' /\ InQueue(h) /\ h \in Task
      /\ \A t \in Task : InQueue(t)' <=> InQueue(t) /\ t # h
  BY <1>1, QueueTail DEF ConservedInv
<1> HIDE DEF h
<1>3. h # NoTask /\ ~InHand(h) /\ h \notin ran /\ h \notin dropped
  BY <1>2, PoolAssumption DEF ConservedInv, Placed
<1>4. \A t \in Task : InHand(t)' <=> InHand(t) \/ t = h
  BY <1>1, PoolAssumption DEF InHand
<1>5. Held1'
  BY <1>1, <1>3 DEF ConservedInv, Held1, InHand
<1>6. Placed'
  BY <1>1, <1>2, <1>3, <1>4 DEF ConservedInv, Placed
<1> QED
  BY <1>2, <1>5, <1>6 DEF ConservedInv

LEMMA ConservedPop == ASSUME ConservedInv, TypeInv', NEW w \in Worker, Pop(w) PROVE ConservedInv'
<1>1. hand[w] = NoTask
  BY DEF Pop, ConservedInv, HeldToRun
<1>2. CASE q = <<>>
  <2>1. UNCHANGED queue /\ HeldToRun'
    BY <1>1, <1>2 DEF Pop, queue, ConservedInv, TypeInv, TypeOK, HeldToRun
  <2> QED
    BY <2>1, ConservedKept
<1>3. CASE q # <<>>
  <2>1. Take(w) /\ at' = [at EXCEPT ![w] = "running"]
    BY <1>3 DEF Pop
  <2>2. HeldToRun'
    BY <1>3, <2>1, TakeType DEF ConservedInv, TypeInv, TypeOK, HeldToRun
  <2> QED
    BY <1>1, <1>3, <2>1, <2>2, ConservedTake
<1> QED
  BY <1>2, <1>3

LEMMA ConservedPredicate ==
  ASSUME ConservedInv, TypeInv', NEW w \in Worker, Predicate(w)
  PROVE  ConservedInv'
<1>1. hand[w] = NoTask /\ at' = [at EXCEPT ![w] = "decide"]
  BY DEF Predicate, ConservedInv, HeldToRun
<1>2. CASE q = <<>>
  <2>1. UNCHANGED queue /\ HeldToRun'
    BY <1>1, <1>2 DEF Predicate, queue, ConservedInv, TypeInv, TypeOK, HeldToRun
  <2> QED
    BY <2>1, ConservedKept
<1>3. CASE q # <<>>
  <2>1. Take(w)
    BY <1>3 DEF Predicate
  <2>2. HeldToRun'
    BY <1>1, <1>3, <2>1, TakeType DEF ConservedInv, TypeInv, TypeOK, HeldToRun
  <2> QED
    BY <1>1, <1>3, <2>1, <2>2, ConservedTake
<1> QED
  BY <1>2, <1>3

LEMMA ConservedRun == ASSUME ConservedInv, TypeInv', NEW w \in Worker, Run(w) PROVE ConservedInv'
<1> DEFINE t == hand[w]
<1>1. /\ ran' = ran \cup {t} /\ UNCHANGED <<q, pushed, dropped>>
      /\ \A x \in Worker : /\ hand'[x] = IF x = w THEN NoTask ELSE hand[x]
                           /\ at'[x] = IF x = w THEN "ran" ELSE at[x]
  BY DEF Run, ConservedInv, TypeInv, TypeOK
<1>2. t \in Task /\ InHand(t)
  BY DEF Run, ConservedInv, TypeInv, Busy, InHand
<1>3. \A u \in Task : InHand(u)' <=> InHand(u) /\ u # t
  <2>1. \A x \in Worker : hand[x] = t => x = w
    BY <1>2, PoolAssumption DEF ConservedInv, Held1
  <2> QED
    BY <1>1, <2>1, PoolAssumption DEF InHand
<1>4. Queued1' /\ \A u \in Task : InQueue(u)' <=> InQueue(u)
  BY <1>1 DEF ConservedInv, Queued1, InQueue
<1>5. Held1' /\ HeldToRun'
  BY <1>1 DEF ConservedInv, Held1, HeldToRun
<1> HIDE DEF t
<1>6. Placed'
  BY <1>1, <1>2, <1>3, <1>4 DEF ConservedInv, Placed
<1> QED
  BY <1>4, <1>5, <1>6 DEF ConservedInv

LEMMA ConservedClear == ASSUME ConservedInv, TypeInv', ClearOne PROVE ConservedInv'
<1> DEFINE h == Head(q)
<1>1. /\ q \in Seq(Task) /\ q # <<>> /\ q' = Tail(q) /\ dropped' = dropped \cup {h}
      /\ UNCHANGED <<hand, pushed, ran, at>>
  BY DEF ClearOne, ConservedInv, TypeInv, TypeOK
<1>2. /\ Queued1' /\ InQueue(h) /\ h \in Task
      /\ \A t \in Task : InQueue(t)' <=> InQueue(t) /\ t # h
  BY <1>1, QueueTail DEF ConservedInv
<1> HIDE DEF h
<1>3. \A t \in Task : InHand(t)' <=> InHand(t)
  BY <1>1 DEF InHand
<1>4. Placed'
  BY <1>1, <1>2, <1>3 DEF ConservedInv, Placed
<1>5. Held1' /\ HeldToRun'
  BY <1>1 DEF ConservedInv, Held1, HeldToRun
<1> QED
  BY <1>2, <1>4, <1>5 DEF ConservedInv

\* The steps that only move threads move none that holds a task to where it would not
\* run it.
LEMMA ConservedMoves ==
  ASSUME ConservedInv, TypeInv', UNCHANGED queue,
         \A w \in Worker : at[w] \in {"running", "decide"} =>
                             hand[w] = NoTask \/ at'[w] \in {"running", "decide"}
  PROVE  ConservedInv'
<1>1. HeldToRun'
  BY DEF ConservedInv, HeldToRun, queue
<1> QED
  BY <1>1, ConservedKept

LEMMA ConservedStep == ConservedInv /\ [Next]_vars => ConservedInv'
<1> SUFFICES ASSUME ConservedInv, [Next]_vars PROVE ConservedInv'
  OBVIOUS
<1>t. TypeInv' /\ at \in [Worker -> Place]
  BY TypeStep DEF ConservedInv, TypeInv, TypeOK
<1>1. ASSUME NEW t \in Task, Push(t) \/ Notify(t) PROVE ConservedInv'
  <2>1. CASE Notify(t)
    <3>1. UNCHANGED queue /\ \A w \in Worker : at[w] # "waiting" => at'[w] = at[w]
      BY <2>1, <1>t DEF Notify, At
    <3> QED
      BY <1>t, <3>1, ConservedMoves
  <2> QED
    BY <1>1, <1>t, <2>1, ConservedPush
<1>2. ASSUME NEW w \in Worker, Test(w) \/ WakeSpuriously(w) \/ Grow(w) PROVE ConservedInv'
  <2>1. UNCHANGED queue /\ at[w] \notin {"running", "decide"}
        /\ \A x \in Worker : x # w => at'[x] = at[x]
    BY <1>2, <1>t DEF Test, WakeSpuriously, Grow
  <2> QED
    BY <1>t, <2>1, ConservedMoves
<1>3. ASSUME NEW w \in Worker, Decide(w) PROVE ConservedInv'
  <2>1. UNCHANGED queue /\ (hand[w] # NoTask => at'[w] = "running")
        /\ \A x \in Worker : x # w => at'[x] = at[x]
    BY <1>3, <1>t DEF Decide
  <2> QED
    BY <1>t, <2>1, ConservedMoves
<1>4. ASSUME NEW w \in Worker, Flag(w) PROVE ConservedInv'
  BY <1>t, <1>4, ConservedMoves DEF Flag
<1>5. ASSUME NEW S \in SUBSET threads, Shrink(S) PROVE ConservedInv'
  BY <1>t, <1>5, ConservedMoves DEF Shrink
<1>6. CASE Discard \/ Drain \/ AllFlagged \/ Cleared \/ Join \/ Stopped
  BY <1>t, <1>6, ConservedMoves DEF Discard, Drain, AllFlagged, Cleared, Join, Stopped
<1>7. CASE NotifyAll
  <2>1. UNCHANGED queue /\ \A w \in Worker : at[w] # "waiting" => at'[w] = at[w]
    BY <1>7 DEF NotifyAll
  <2> QED
    BY <1>t, <2>1, ConservedMoves
<1>8. CASE UNCHANGED vars
  BY <1>t, <1>8, ConservedMoves DEF vars
<1> QED
  BY <1>t, <1>1, <1>2, <1>3, <1>4, <1>5, <1>6, <1>7, <1>8,
     ConservedPop, ConservedPredicate, ConservedRun, ConservedClear DEF Next, Loop, Control

LEMMA ConservedInit == Init => ConservedInv
<1> SUFFICES ASSUME Init PROVE ConservedInv
  OBVIOUS
<1>1. q = <<>> /\ Len(q) = 0 /\ \A w \in Worker : hand[w] = NoTask
  BY DEF Init
<1>2. \A t \in Task : ~InQueue(t) /\ ~InHand(t)
  BY <1>1, PoolAssumption DEF InQueue, InHand
<1>3. Placed
  BY <1>2 DEF Init, Placed
<1>4. Queued1 /\ Held1 /\ HeldToRun
  BY <1>1 DEF Queued1, Held1, HeldToRun
<1> QED
  BY <1>3, <1>4, TypeInit DEF ConservedInv

\* Every task that was pushed is in one place: queued, held by a thread that will run
\* it, run, or deleted; none is lost and none is run twice.
THEOREM ConservedAlways == Spec => []Conserved
<1>1. ConservedInv => Conserved
  BY ConservedParts DEF ConservedInv
<1> QED
  BY ConservedInit, ConservedStep, <1>1, PTL DEF Spec
-----------------------------------------------------------------------------
\* stop(true) keeps its promise.

\* A promised task has left push, and so is not among those that are notifying.
Promises == promised \subseteq pushed /\ promised \cap notifying = {}

\* Where the controller can be, and what it has set by then.
Phases ==
  /\ control.step = "flag" => control.op \in {"resize", "discard"}
  /\ control.step = "clear" => control.op = "discard"
  /\ control.step = "notify" => control.op # "none"
  /\ control.step \in {"join", "empty"} => control.op \in {"discard", "drain"}
  /\ control.op = "discard" => isStop
  /\ control.op = "drain" => isDone /\ ~isStop
  /\ control.op = "resize" => control.todo \cap threads = {}

\* Of the threads of the pool only those of stop(false) are flagged, a thread that has
\* not started is not, and a thread of the pool returns for isDone or its flag.
Flagged ==
  \A w \in Worker :
    /\ w \in threads /\ flag[w] => isStop
    /\ at[w] = "none" => w \notin threads \cup control.todo /\ ~flag[w]
    /\ w \in threads /\ at[w] = "returned" => isDone \/ flag[w]

\* What is queued behind the back of a thread that found nothing is being pushed still.
FoundNothing ==
  \A w \in Worker : at[w] = "decide" /\ hand[w] = NoTask =>
    \A t \in Task : InQueue(t) => t \in notifying

\* When a thread of the pool has returned for isDone, no promised task is queued.
NoneLeft ==
  isDone /\ ~isStop => \A w \in threads : at[w] = "returned" =>
    \A t \in promised : ~InQueue(t)

AllReturned ==
  control.op = "drain" /\ control.step = "empty" => \A w \in threads : at[w] = "returned"

\* stop(true) of a pool with threads deletes no promised task.
NoneDeleted ==
  /\ dropped # {} => isStop \/ isDone
  /\ isStop \/ threads = {} \/ promised \cap dropped = {}

DrainParts == /\ Promises /\ Phases /\ Flagged /\ FoundNothing
              /\ NoneLeft /\ AllReturned /\ NoneDeleted

DrainInv == ConservedInv /\ WakeInv /\ DrainParts

\* A thread leaves its place only by an action of its own or of those that wake it, and
\* comes to return only by a decision or by the flag it tests.
LEMMA Places ==
  ASSUME TypeOK, [Next]_vars, NEW w \in Worker
  PROVE  /\ at[w] # "none" => at'[w] # "none"
         /\ at'[w] = "returned" => \/ at[w] = "returned" \/ Decide(w) \/ Test(w)
         /\ at[w] = "returned" => at'[w] = "returned"
         /\ at'[w] = "decide" /\ at[w] # "decide" => Predicate(w)
<1> USE DEF TypeOK
<1>1. CASE \E t \in Task : Push(t) \/ Notify(t)
  BY <1>1 DEF Push, Notify, At
<1>2. CASE \E x \in Worker : Loop(x) \/ WakeSpuriously(x)
  BY <1>2 DEF Loop, WakeSpuriously, Pop, Run, Test, Predicate, Decide
<1>3. CASE Control
  <2>1. at' = at \/ NotifyAll \/ \E x \in Worker : Grow(x)
    BY <1>3 DEF Control, Flag, Shrink, Discard, Drain, AllFlagged, ClearOne, Cleared,
                Join, Stopped
  <2> QED
    BY <2>1 DEF NotifyAll, Grow
<1>4. CASE UNCHANGED vars
  BY <1>4 DEF vars
<1> QED
  BY <1>1, <1>2, <1>3, <1>4 DEF Next

\* What the steps that are not the controller's leave alone.
LEMMA NotControl ==
  ASSUME (\E t \in Task : Push(t) \/ Notify(t))
         \/ (\E w \in Worker : Loop(w) \/ WakeSpuriously(w)) \/ UNCHANGED vars
  PROVE  UNCHANGED <<flags, threads, control, promised, dropped>>
BY DEF Push, Notify, Loop, WakeSpuriously, Pop, Run, Test, Predicate, Decide, Take, queue, vars

LEMMA PromisesStep == ASSUME DrainInv, [Next]_vars PROVE Promises'
<1> USE DEF DrainInv, DrainParts, Promises
<1>1. ASSUME NEW t \in Task, Push(t) PROVE Promises'
  BY <1>1 DEF Push
<1>2. ASSUME NEW t \in Task, Notify(t) PROVE Promises'
  BY <1>2 DEF Notify, queue
<1>3. CASE Drain
  BY <1>3 DEF Drain, queue
<1>4. ASSUME NEW w \in Worker, Loop(w) \/ WakeSpuriously(w) PROVE Promises'
  BY <1>4 DEF Loop, WakeSpuriously, Pop, Run, Test, Predicate, Decide, Take, queue
<1>5. CASE Control /\ ~Drain
  BY <1>5 DEF Control, Grow, Flag, Shrink, Discard, AllFlagged, ClearOne, Cleared,
              NotifyAll, Join, Stopped, queue
<1>6. CASE UNCHANGED vars
  BY <1>6 DEF vars, queue
<1> QED
  BY <1>1, <1>2, <1>3, <1>4, <1>5, <1>6 DEF Next

LEMMA PhasesStep == ASSUME DrainInv, [Next]_vars PROVE Phases'
<1> USE DEF Phases
<1>p. Phases /\ TypeOK
  BY DEF DrainInv, DrainParts, ConservedInv, TypeInv
<1>1. ASSUME UNCHANGED <<flags, threads, control>> PROVE Phases'
  BY <1>p, <1>1 DEF flags
<1>2. ASSUME NEW w \in Worker, Grow(w) PROVE Phases'
  BY <1>p, <1>2 DEF Grow, Idle, flags
<1>3. ASSUME NEW w \in Worker, Flag(w) PROVE Phases'
  BY <1>p, <1>3 DEF Flag, TypeOK
<1>4. ASSUME NEW S \in SUBSET threads, Shrink(S) PROVE Phases'
  BY <1>p, <1>4 DEF Shrink, Calls, flags
<1>5. CASE Discard \/ Drain
  BY <1>p, <1>5 DEF Discard, Drain, Calls
<1>6. CASE AllFlagged \/ Cleared \/ NotifyAll \/ Join
  BY <1>p, <1>6 DEF AllFlagged, Cleared, NotifyAll, Join, Proceeds, Idle, flags, TypeOK
<1>7. CASE Stopped
  BY <1>p, <1>7 DEF Stopped, Proceeds, Idle
<1>8. CASE ClearOne
  BY <1>1, <1>8 DEF ClearOne
<1> QED
  BY <1>1, <1>2, <1>3, <1>4, <1>5, <1>6, <1>7, <1>8, NotControl DEF Next, Control

LEMMA FlaggedStep == ASSUME DrainInv, [Next]_vars PROVE Flagged'
<1>p. Flagged /\ Phases /\ TypeOK
  BY DEF DrainInv, DrainParts, ConservedInv, TypeInv
<1>t. TypeOK'
  BY TypeStep DEF DrainInv, ConservedInv, TypeInv
<1> SUFFICES ASSUME NEW w \in Worker
             PROVE  /\ w \in threads' /\ flag'[w] => isStop'
                    /\ at'[w] = "none" => w \notin threads' \cup control.todo' /\ ~flag'[w]
                    /\ w \in threads' /\ at'[w] = "returned" => isDone' \/ flag'[w]
  BY DEF Flagged
<1>w. /\ w \in threads /\ flag[w] => isStop
      /\ at[w] = "none" => w \notin threads \cup control.todo /\ ~flag[w]
      /\ w \in threads /\ at[w] = "returned" => isDone \/ flag[w]
  BY <1>p DEF Flagged
<1>1. CASE UNCHANGED <<flags, threads, control>>
  <2>1. at'[w] = "returned" /\ w \in threads => isDone \/ flag[w]
    <3>1. CASE Decide(w)
      BY <1>p, <3>1 DEF Decide, TypeOK
    <3>2. CASE Test(w)
      BY <1>p, <3>2 DEF Test, TypeOK
    <3> QED
      BY <1>p, <1>w, <3>1, <3>2, Places
  <2> QED
    BY <1>p, <1>w, <1>1, <2>1, Places DEF flags
<1>2. ASSUME NEW x \in Worker, Grow(x) PROVE Flagged'
  BY <1>p, <1>2 DEF Grow, Idle, flags, Flagged, TypeOK
<1>3. ASSUME NEW x \in Worker, Flag(x) PROVE Flagged'
  BY <1>p, <1>3 DEF Flag, Flagged, Phases, TypeOK
<1>4. ASSUME NEW S \in SUBSET threads, Shrink(S) PROVE Flagged'
  BY <1>p, <1>4 DEF Shrink, Calls, flags, Flagged
<1>5. CASE Discard \/ Drain
  BY <1>p, <1>5 DEF Discard, Drain, Calls, Flagged
<1>6. CASE AllFlagged \/ Cleared \/ Join
  BY <1>p, <1>6 DEF AllFlagged, Cleared, Join, Proceeds, flags, Flagged, TypeOK
<1>7. CASE Stopped
  BY <1>p, <1>7 DEF Stopped, Proceeds, Idle, flags, Flagged
<1>8. CASE NotifyAll
  BY <1>p, <1>8 DEF NotifyAll, Proceeds, Idle, flags, Flagged, TypeOK
<1>9. CASE ClearOne
  BY <1>1, <1>9 DEF ClearOne
<1>10. Flagged' => /\ w \in threads' /\ flag'[w] => isStop'
                   /\ at'[w] = "none" => w \notin threads' \cup control.todo' /\ ~flag'[w]
                   /\ w \in threads' /\ at'[w] = "returned" => isDone' \/ flag'[w]
  BY DEF Flagged
<1> QED
  BY <1>1, <1>2, <1>3, <1>4, <1>5, <1>6, <1>7, <1>8, <1>9, <1>10, NotControl
  DEF Next, Control

\* The queue grows by pushes alone.
LEMMA QueueGrows ==
  ASSUME ConservedInv, [Next]_vars, NEW t \in Task, InQueue(t)', ~InQueue(t)
  PROVE  Push(t)
<1> USE DEF ConservedInv, TypeInv, TypeOK
<1>1. CASE q' = q
  BY <1>1 DEF InQueue
<1>2. CASE q # <<>> /\ q' = Tail(q)
  BY <1>2, QueueTail
<1>3. ASSUME NEW u \in Task, Push(u) PROVE Push(t)
  <2>1. q' = Append(q, u) /\ Len(q') = Len(q) + 1 /\ Len(q) \in Nat
    BY <1>3 DEF Push
  <2>2. \A i \in 1 .. Len(q') : (i \in 1 .. Len(q) /\ q'[i] = q[i]) \/ q'[i] = u
    BY <2>1
  <2>3. t = u
    BY <2>2 DEF InQueue
  <2> QED
    BY <1>3, <2>3
<1>4. ASSUME NEW u \in Task, Notify(u) PROVE q' = q
  BY <1>4 DEF Notify, queue
<1>5. ASSUME NEW w \in Worker, Loop(w) \/ WakeSpuriously(w)
      PROVE  q' = q \/ (q # <<>> /\ q' = Tail(q))
  BY <1>5 DEF Loop, WakeSpuriously, Pop, Run, Test, Predicate, Decide, Take, queue
<1>6. ASSUME Control PROVE q' = q \/ (q # <<>> /\ q' = Tail(q))
  BY <1>6 DEF Control, Grow, Flag, Shrink, Discard, Drain, AllFlagged, ClearOne, Cleared,
              NotifyAll, Join, Stopped, queue
<1>7. CASE UNCHANGED vars
  BY <1>1, <1>7 DEF vars, queue
<1> QED
  BY <1>1, <1>2, <1>3, <1>4, <1>5, <1>6, <1>7 DEF Next

\* While a thread decides, nobody takes what it holds and no push completes.
LEMMA Deciding ==
  ASSUME TypeOK, Exclusive, [Next]_vars, NEW w \in Worker,
         at[w] = "decide", at'[w] = "decide"
  PROVE  hand'[w] = hand[w] /\ notifying \subseteq notifying'
<1> USE DEF TypeOK
<1>1. ASSUME NEW t \in Task, Push(t) \/ Notify(t) PROVE hand' = hand /\ notifying \subseteq notifying'
  BY <1>1, PoolAssumption DEF Push, Notify, queue, Exclusive
<1>2. ASSUME NEW x \in Worker, Loop(x) \/ WakeSpuriously(x)
      PROVE  hand'[w] = hand[w] /\ notifying' = notifying
  BY <1>2 DEF Loop, WakeSpuriously, Pop, Run, Test, Predicate, Decide, Take, queue
<1>3. CASE Control
  BY <1>3 DEF Control, Grow, Flag, Shrink, Discard, Drain, AllFlagged, ClearOne, Cleared,
              NotifyAll, Join, Stopped, queue
<1>4. CASE UNCHANGED vars
  BY <1>4 DEF vars, queue
<1> QED
  BY <1>1, <1>2, <1>3, <1>4 DEF Next

LEMMA FoundNothingStep == ASSUME DrainInv, [Next]_vars PROVE FoundNothing'
<1>p. FoundNothing /\ ConservedInv /\ TypeOK /\ TypeInv /\ Exclusive
  BY DEF DrainInv, DrainParts, ConservedInv, TypeInv, WakeInv
<1> SUFFICES ASSUME NEW w \in Worker, at'[w] = "decide", hand'[w] = NoTask,
                    NEW t \in Task, InQueue(t)'
             PROVE  t \in notifying'
  BY DEF FoundNothing
<1>1. CASE at[w] # "decide"
  <2>1. Predicate(w)
    BY <1>1, <1>p, Places
  <2>2. q = <<>>
    BY <2>1, <1>p, TakeType, PoolAssumption DEF Predicate
  <2>3. q' = <<>> /\ Len(q') = 0
    BY <2>1, <2>2 DEF Predicate, queue
  <2> QED
    BY <2>3 DEF InQueue
<1>2. CASE at[w] = "decide"
  <2>1. hand[w] = NoTask /\ notifying \subseteq notifying'
    BY <1>2, <1>p, Deciding
  <2>2. CASE Push(t)
    BY <2>2 DEF Push
  <2>3. CASE InQueue(t)
    BY <1>2, <1>p, <2>1, <2>3 DEF FoundNothing
  <2> QED
    BY <1>p, <2>2, <2>3, QueueGrows
<1> QED
  BY <1>1, <1>2

\* After a pool's thread has returned for isDone, what is queued anew is not promised,
\* and whoever returns has seen a queue without promised tasks.
LEMMA NoneLeftStep == ASSUME DrainInv, [Next]_vars PROVE NoneLeft'
<1>p. /\ NoneLeft /\ FoundNothing /\ Flagged /\ Promises /\ ConservedInv /\ TypeOK
      /\ Promises'
  BY PromisesStep DEF DrainInv, DrainParts, ConservedInv, TypeInv
<1>t. promised \subseteq Task /\ promised' \subseteq Task
  BY TypeStep DEF DrainInv, ConservedInv, TypeInv, TypeOK
<1> SUFFICES ASSUME isDone', ~isStop', NEW w \in threads', at'[w] = "returned",
                    NEW t \in promised', InQueue(t)'
             PROVE  FALSE
  BY DEF NoneLeft
<1>w. w \in Worker
  BY TypeStep DEF DrainInv, ConservedInv, TypeInv, TypeOK
<1>1. InQueue(t)
  <2>1. CASE Push(t)
    BY <1>p, <2>1 DEF Promises, Push
  <2> QED
    BY <1>p, <1>t, <2>1, QueueGrows
<1>2. CASE Drain
  <2>1. ~isStop /\ ~isDone /\ at' = at /\ threads' = threads
    BY <1>2 DEF Drain
  <2> QED
    BY <1>p, <1>w, <2>1 DEF Flagged
<1>3. CASE ~Drain
  <2>1. isDone /\ ~isStop /\ promised' = promised /\ w \in threads
    <3>1. ASSUME NEW x \in Worker, Grow(x) PROVE FALSE
      BY <3>1 DEF Grow, flags
    <3>2. ASSUME NEW S \in SUBSET threads, Shrink(S) PROVE FALSE
      BY <3>2 DEF Shrink, flags
    <3>3. ASSUME Discard PROVE FALSE
      BY <3>3 DEF Discard
    <3>4. ASSUME NEW x \in Worker, Flag(x)
          PROVE  UNCHANGED <<isDone, isStop, promised, threads>>
      BY <3>4 DEF Flag
    <3>5. ASSUME Stopped PROVE FALSE
      BY <3>5 DEF Stopped
    <3>6. ASSUME AllFlagged \/ ClearOne \/ Cleared \/ NotifyAll \/ Join
          PROVE  UNCHANGED <<isDone, isStop, promised, threads>>
      BY <3>6 DEF AllFlagged, ClearOne, Cleared, NotifyAll, Join, flags
    <3>7. ASSUME UNCHANGED <<flags, threads, control, promised, dropped>>
          PROVE  UNCHANGED <<isDone, isStop, promised, threads>>
      BY <3>7 DEF flags
    <3>8. CASE Control
      <4>1. UNCHANGED <<isDone, isStop, promised, threads>>
        BY <1>3, <3>1, <3>2, <3>3, <3>4, <3>5, <3>6, <3>8 DEF Control
      <4> QED
        BY <4>1
    <3>9. CASE ~Control
      <4>1. UNCHANGED <<isDone, isStop, promised, threads>>
        BY <3>7, <3>9, NotControl DEF Next
      <4> QED
        BY <4>1
    <3> QED
      BY <3>8, <3>9
  <2>3. CASE at[w] = "returned"
    BY <1>1, <1>p, <2>1, <2>3 DEF NoneLeft
  <2>4. CASE Decide(w)
    <3>1. at[w] = "decide" /\ hand[w] = NoTask
      BY <2>4, <1>p, <1>w DEF Decide, TypeOK
    <3> QED
      BY <1>1, <1>p, <1>t, <1>w, <2>1, <3>1 DEF FoundNothing, Promises
  <2>5. CASE Test(w)
    <3>1. flag[w]
      BY <2>5, <1>p, <1>w DEF Test, TypeOK
    <3> QED
      BY <1>p, <1>w, <2>1, <3>1 DEF Flagged
  <2> QED
    BY <1>p, <1>w, <2>3, <2>4, <2>5, Places
<1> QED
  BY <1>2, <1>3

LEMMA AllReturnedStep == ASSUME DrainInv, [Next]_vars PROVE AllReturned'
<1>p. AllReturned /\ TypeOK
  BY DEF DrainInv, DrainParts, ConservedInv, TypeInv
<1> SUFFICES ASSUME control'.op = "drain", control'.step = "empty", NEW w \in threads'
             PROVE  at'[w] = "returned"
  BY DEF AllReturned
<1>1. CASE UNCHANGED <<threads, control>>
  <2>1. w \in Worker /\ at[w] = "returned"
    BY <1>p, <1>1 DEF AllReturned, TypeOK
  <2> QED
    BY <1>p, <2>1, Places
<1>2. CASE Join
  BY <1>p, <1>2 DEF Join, TypeOK
<1>3. CASE Control /\ ~Join
  <2>1. UNCHANGED <<threads, control>>
    BY <1>p, <1>3 DEF Control, Grow, Flag, Shrink, Discard, Drain, AllFlagged, ClearOne,
                      Cleared, NotifyAll, Stopped, Calls, Proceeds, Idle, TypeOK
  <2> QED
    BY <1>1, <2>1
<1> QED
  BY <1>1, <1>2, <1>3, NotControl DEF Next

LEMMA NoneDeletedStep == ASSUME DrainInv, [Next]_vars PROVE NoneDeleted'
<1>p. /\ NoneDeleted /\ NoneLeft /\ AllReturned /\ Phases /\ ConservedInv /\ TypeOK
  BY DEF DrainInv, DrainParts, ConservedInv, TypeInv
<1>1. CASE UNCHANGED <<flags, threads, promised, dropped>>
  BY <1>p, <1>1 DEF NoneDeleted, flags
<1>2. CASE ClearOne
  <2>1. /\ dropped' = dropped \cup {Head(q)} /\ q # <<>>
        /\ UNCHANGED <<isStop, isDone, threads, promised>>
        /\ control.step \in {"clear", "empty"}
    BY <1>2 DEF ClearOne, flags
  <2>2. isStop \/ (control.op = "drain" /\ control.step = "empty" /\ isDone)
    BY <1>p, <2>1 DEF Phases
  <2>3. ASSUME ~isStop, NEW w \in threads PROVE Head(q) \notin promised
    <3>1. \A t \in promised : ~InQueue(t)
      BY <1>p, <2>2, <2>3 DEF AllReturned, NoneLeft
    <3>2. Len(q) >= 1 /\ Head(q) = q[1] /\ Len(q) \in Nat
      BY <1>p, <2>1 DEF TypeOK
    <3>3. InQueue(Head(q))
      BY <3>2 DEF InQueue
    <3> QED
      BY <3>1, <3>3
  <2> QED
    <3>1. Head(q) \in promised /\ ~isStop => threads = {}
      BY <2>3
    <3>2. promised \cap dropped' # {} => promised \cap dropped # {} \/ Head(q) \in promised
      BY <2>1
    <3>3. isStop' = isStop /\ isDone' = isDone /\ threads' = threads /\ promised' = promised
      BY <2>1
    <3>4. isStop \/ threads = {} \/ promised \cap dropped' = {}
      BY <1>p, <3>1, <3>2 DEF NoneDeleted
    <3> QED
      BY <2>2, <3>3, <3>4 DEF NoneDeleted
<1>3. CASE Drain
  BY <1>p, <1>3 DEF Drain, NoneDeleted, queue
<1>4. CASE Discard
  BY <1>p, <1>4 DEF Discard, NoneDeleted, queue
<1>5. CASE Control /\ ~ClearOne /\ ~Drain /\ ~Discard
  <2>1. ASSUME NEW x \in Worker, Grow(x)
        PROVE  UNCHANGED <<isDone, isStop, promised, dropped>> /\ ~isStop /\ ~isDone
    BY <2>1 DEF Grow, flags, queue
  <2>2. ASSUME NEW S \in SUBSET threads, Shrink(S)
        PROVE  UNCHANGED <<isDone, isStop, promised, dropped>> /\ ~isStop /\ ~isDone
    BY <2>2 DEF Shrink, flags, queue
  <2>3. ASSUME Stopped
        PROVE  UNCHANGED <<isDone, isStop, promised, dropped>> /\ threads' = {}
    BY <2>3 DEF Stopped, flags, queue
  <2>4. ASSUME NEW x \in Worker, Flag(x)
        PROVE  UNCHANGED <<isDone, isStop, promised, dropped, threads>>
    BY <2>4 DEF Flag, queue
  <2>5. ASSUME AllFlagged \/ Cleared \/ NotifyAll \/ Join
        PROVE  UNCHANGED <<isDone, isStop, promised, dropped, threads>>
    BY <2>5 DEF AllFlagged, Cleared, NotifyAll, Join, flags, queue
  <2>6. /\ UNCHANGED <<isDone, isStop, promised, dropped>>
        /\ threads' \in {threads, {}} \/ (~isStop /\ ~isDone)
    BY <1>5, <2>1, <2>2, <2>3, <2>4, <2>5 DEF Control
  <2> QED
    BY <1>p, <2>6 DEF NoneDeleted
<1> QED
  BY <1>1, <1>2, <1>3, <1>4, <1>5, NotControl DEF Next

LEMMA DrainStep == DrainInv /\ [Next]_vars => DrainInv'
BY ConservedStep, WakeStep, PromisesStep, PhasesStep, FlaggedStep, FoundNothingStep,
   NoneLeftStep, AllReturnedStep, NoneDeletedStep DEF DrainInv, DrainParts

LEMMA DrainInit == Init => DrainInv
<1> SUFFICES ASSUME Init PROVE DrainInv
  OBVIOUS
<1>1. \A w \in Worker : at[w] = IF w \in threads THEN "popping" ELSE "none"
  BY DEF Init
<1>2. Promises /\ Phases /\ Flagged /\ AllReturned /\ NoneDeleted
  BY <1>1 DEF Init, Idle, Promises, Phases, Flagged, AllReturned, NoneDeleted
<1>3. FoundNothing /\ NoneLeft
  BY <1>1 DEF Init, FoundNothing, NoneLeft
<1> QED
  BY <1>2, <1>3, ConservedInit, WakeInit DEF DrainInv, DrainParts

\* When stop(true) of a pool with threads returns, each promised task has been run, or
\* a thread that resize detached holds it.
THEOREM DrainKeepsPromiseAlways == Spec => DrainKeepsPromise
<1> DEFINE Kept == control.op = "drain" /\ control'.op = "none" /\ threads # {}
                   => \A t \in promised :
                        t \in ran \/ \E w \in Worker \ threads : hand[w] = t
<1>1. DrainInv /\ [Next]_vars => [Kept]_vars
  <2> SUFFICES ASSUME DrainInv, [Next]_vars, control.op = "drain", control'.op = "none",
                      threads # {}, NEW t \in promised
               PROVE  t \in ran \/ \E w \in Worker \ threads : hand[w] = t
    OBVIOUS
  <2>p. /\ Phases /\ AllReturned /\ NoneDeleted /\ Promises
        /\ ConservedInv /\ TypeOK /\ Placed /\ HeldToRun
    BY DEF DrainInv, DrainParts, ConservedInv, TypeInv
  <2>1. Stopped
    <3>1. control' # control
      OBVIOUS
    <3>2. Control
      BY <3>1, NotControl DEF Next
    <3>3. control.op = "drain" => control # Idle
      BY DEF Idle
    <3> QED
      BY <2>p, <3>1, <3>2, <3>3 DEF Control, Grow, Flag, Shrink, Discard, Drain, AllFlagged,
           ClearOne, Cleared, NotifyAll, Join, Calls, Proceeds, Idle, TypeOK
  <2>2. q = <<>> /\ control.step = "empty" /\ isDone /\ ~isStop
    BY <2>p, <2>1 DEF Stopped, Proceeds, Phases
  <2>3. t \in Task /\ t \in pushed /\ t \notin dropped
    BY <2>p, <2>2 DEF Promises, NoneDeleted, TypeOK
  <2>4. ~InQueue(t)
    BY <2>2 DEF InQueue
  <2>5. t \in ran \/ InHand(t)
    BY <2>p, <2>3, <2>4 DEF Placed
  <2>6. ASSUME NEW w \in Worker, hand[w] = t PROVE w \notin threads
    BY <2>p, <2>2, <2>3, <2>6, PoolAssumption DEF HeldToRun, AllReturned
  <2> QED
    BY <2>5, <2>6 DEF InHand
<1>2. Spec => []DrainInv
  BY DrainInit, DrainStep, PTL DEF Spec
<1> QED
  BY <1>1, <1>2, PTL DEF Spec, DrainKeepsPromise
-----------------------------------------------------------------------------
\* Nobody sleeps through an order to finish.

\* A thread that waits although it is to finish is still going to be woken; and a thread
\* that is joined is to finish.  So stop never joins a thread that waits for ever.
StopIsHeard ==
  /\ \A w \in Worker : at[w] = "waiting" /\ (isDone \/ flag[w])
                         => control.step \in {"flag", "clear", "notify"}
  /\ control.step = "join" => \A w \in threads : isDone \/ flag[w]

\* stop(false) flags every thread of the pool before it goes on.
Told ==
  control.op = "discard" =>
    /\ \A w \in threads : flag[w] \/ (control.step = "flag" /\ w \in control.todo)
    /\ control.step \in {"flag", "clear", "notify", "join", "empty"}

LEMMA ToldStep == ASSUME DrainInv, Told, [Next]_vars PROVE Told'
<1>p. Told /\ Phases /\ TypeOK
  BY DEF DrainInv, DrainParts, ConservedInv, TypeInv
<1>1. ASSUME UNCHANGED <<flags, threads, control>> PROVE Told'
  BY <1>p, <1>1 DEF Told, flags
<1>2. ASSUME NEW w \in Worker, Grow(w) PROVE Told'
  BY <1>2 DEF Grow, Idle, Told
<1>3. ASSUME NEW w \in Worker, Flag(w) PROVE Told'
  BY <1>p, <1>3 DEF Flag, Told, TypeOK
<1>4. ASSUME NEW S \in SUBSET threads, Shrink(S) PROVE Told'
  BY <1>4 DEF Shrink, Calls, Told
<1>5. CASE Discard \/ Drain
  BY <1>5 DEF Discard, Drain, Calls, Told
<1>6. CASE AllFlagged \/ Cleared \/ NotifyAll \/ Join
  BY <1>p, <1>6 DEF AllFlagged, Cleared, NotifyAll, Join, Proceeds, Idle, flags, Told, TypeOK
<1>7. CASE Stopped
  BY <1>7 DEF Stopped, Proceeds, Idle, Told
<1>8. CASE ClearOne
  BY <1>1, <1>8 DEF ClearOne
<1> QED
  BY <1>1, <1>2, <1>3, <1>4, <1>5, <1>6, <1>7, <1>8, NotControl DEF Next, Control

\* A thread begins to wait only when it has seen that it is not to finish, under mutex;
\* and it is told to finish before notify_all, which takes mutex too.
LEMMA WaitsUntold ==
  ASSUME TypeOK, [Next]_vars, NEW w \in Worker, at[w] # "waiting", at'[w] = "waiting"
  PROVE  ~isDone /\ ~flag[w] /\ UNCHANGED flags
<1> USE DEF TypeOK
<1>1. CASE \E t \in Task : Push(t) \/ Notify(t)
  BY <1>1 DEF Push, Notify, At
<1>2. ASSUME NEW x \in Worker, Loop(x) \/ WakeSpuriously(x)
      PROVE  ~isDone /\ ~flag[w] /\ UNCHANGED flags
  BY <1>2 DEF Loop, WakeSpuriously, Pop, Run, Test, Predicate, Decide
<1>3. CASE Control
  <2>1. at' = at \/ NotifyAll \/ \E x \in Worker : Grow(x)
    BY <1>3 DEF Control, Flag, Shrink, Discard, Drain, AllFlagged, ClearOne, Cleared,
                Join, Stopped
  <2> QED
    BY <2>1 DEF NotifyAll, Grow
<1>4. CASE UNCHANGED vars
  BY <1>4 DEF vars
<1> QED
  BY <1>1, <1>2, <1>3, <1>4 DEF Next

LEMMA HeardStep == ASSUME DrainInv, Told, StopIsHeard, [Next]_vars PROVE StopIsHeard'
<1>p. Phases /\ TypeOK /\ StopIsHeard
  BY DEF DrainInv, DrainParts, ConservedInv, TypeInv
<1>1. ASSUME NEW w \in Worker, at'[w] = "waiting", isDone' \/ flag'[w]
      PROVE  control'.step \in {"flag", "clear", "notify"}
  <2>1. at[w] = "waiting"
    BY <1>p, <1>1, WaitsUntold DEF flags
  <2>2. CASE isDone \/ flag[w]
    <3>1. control.step \in {"flag", "clear", "notify"}
      BY <1>p, <2>1, <2>2 DEF StopIsHeard
    <3>2. ~NotifyAll
      BY <1>1, <1>p DEF NotifyAll, TypeOK
    <3>3. CASE ~Control
      BY <3>1, <3>3, NotControl DEF Next
    <3>4. CASE Control
      BY <1>p, <3>1, <3>2, <3>4 DEF Control, Grow, Flag, Shrink, Discard, Drain, Calls,
           AllFlagged, ClearOne, Cleared, Join, Stopped, Proceeds, Idle, TypeOK
    <3> QED
      BY <3>3, <3>4
  <2>3. CASE ~isDone /\ ~flag[w]
    <3>1. ~UNCHANGED flags /\ Control
      BY <1>1, <2>3, NotControl DEF flags, Next
    <3>2. Drain \/ \E x \in Worker : Flag(x)
      BY <1>1, <2>3, <3>1 DEF Control, Grow, Shrink, Discard, AllFlagged, ClearOne, Cleared,
           NotifyAll, Join, Stopped, flags
    <3> QED
      BY <1>p, <3>2 DEF Drain, Calls, Flag, TypeOK
  <2> QED
    BY <2>2, <2>3
<1>2. ASSUME control'.step = "join", NEW w \in threads' PROVE isDone' \/ flag'[w]
  <2>1. DrainInv' /\ Told'
    BY DrainStep, ToldStep
  <2>2. Phases'
    BY <2>1 DEF DrainInv, DrainParts
  <2>3. control'.op \in {"discard", "drain"}
    BY <1>2, <2>2 DEF Phases
  <2> QED
    BY <1>2, <2>1, <2>2, <2>3 DEF Phases, Told
<1> QED
  BY <1>1, <1>2 DEF StopIsHeard

\* No thread sleeps through stop or resize: however the setting of isDone and of the flags,
\* which takes no lock, falls into the loop of a thread, the thread sees it before it waits
\* or is woken afterwards (set_thread, stop, resize).
THEOREM StopIsHeardAlways == Spec => []StopIsHeard
<1>1. Init => Told /\ StopIsHeard
  BY DEF Init, Idle, Told, StopIsHeard
<1>2. (DrainInv /\ Told /\ StopIsHeard) /\ [Next]_vars => (DrainInv /\ Told /\ StopIsHeard)'
  BY DrainStep, ToldStep, HeardStep
<1> QED
  BY <1>1, <1>2, DrainInit, PTL DEF Spec
=============================================================================
