------------------------------ MODULE ThreadPool ------------------------------
(***************************************************************************)
(* The thread pool of Core/Utils/ThreadPool.h, on which the exchanges of   *)
(* DBConnector and their callbacks run.  Its queue has a mutex of its own  *)
(* (each queue operation is one step); `mutex' is the one that goes with   *)
(* the condition variable, and flag, isDone, isStop are atomics that are   *)
(* written without it.                                                     *)
(*                                                                         *)
(* push, the worker loop, resize and stop interleave at every access to    *)
(* this state.  As the header asks, resize and stop are called by one      *)
(* thread, the controller.  A Worker is a thread object, named once: the   *)
(* thread that takes a freed index after a resize is another Worker.       *)
(***************************************************************************)
EXTENDS Integers, Sequences, FiniteSets

CONSTANTS Worker, NoWorker,
          Task,      \* what is pushed in a behaviour; a task is pushed once
          NoTask

ASSUME PoolAssumption ==
  /\ IsFiniteSet(Worker) /\ NoWorker \notin Worker
  /\ IsFiniteSet(Task) /\ NoTask \notin Task

VARIABLES
  q,           \* the queue
  mutex,       \* its owner
  isDone, isStop,
  flag,        \* *flags[i] of each worker: it is to finish
  threads,     \* the workers in the vector threads: not detached, not joined
  at,          \* where each worker is in its loop
  hand,        \* what it has popped (_f)
  notifying,   \* tasks in q.push whose push has not notified yet
  control,     \* the controller: operation, step, workers still to be flagged
  pushed, ran, dropped,  \* history: pushed to q; run; deleted without being run
  promised     \* history: the pushes that had returned when stop(true) was called

queue == <<q, hand, pushed, ran, dropped>>
flags == <<isDone, isStop, flag>>
vars == <<queue, flags, mutex, threads, at, notifying, control, promised>>

Place == {"none", "popping", "running", "ran", "locking", "decide", "waiting", "returned"}

Idle == [op |-> "none", step |-> "none", todo |-> {}]

TypeOK ==
  /\ q \in Seq(Task)
  /\ mutex \in Worker \cup {NoWorker}
  /\ isDone \in BOOLEAN /\ isStop \in BOOLEAN
  /\ flag \in [Worker -> BOOLEAN]
  /\ threads \in SUBSET Worker
  /\ at \in [Worker -> Place]
  /\ hand \in [Worker -> Task \cup {NoTask}]
  /\ notifying \in SUBSET Task
  /\ control \in [op : {"none", "resize", "discard", "drain"},
                  step : {"none", "flag", "clear", "notify", "join", "empty"},
                  todo : SUBSET Worker]
  /\ pushed \in SUBSET Task /\ ran \in SUBSET Task
  /\ dropped \in SUBSET Task /\ promised \in SUBSET Task

\* The constructor: resize(hardware_concurrency()), which may be 0.
Init ==
  /\ q = <<>>
  /\ mutex = NoWorker
  /\ isDone = FALSE /\ isStop = FALSE
  /\ flag = [w \in Worker |-> FALSE]
  /\ threads \in SUBSET Worker
  /\ at = [w \in Worker |-> IF w \in threads THEN "popping" ELSE "none"]
  /\ hand = [w \in Worker |-> NoTask]
  /\ notifying = {}
  /\ control = Idle
  /\ pushed = {} /\ ran = {} /\ dropped = {} /\ promised = {}

At(place) == {w \in Worker : at[w] = place}
-----------------------------------------------------------------------------
\* push, by a client or by a task that is running.

Push(t) ==
  /\ t \notin pushed
  /\ q' = Append(q, t)
  /\ pushed' = pushed \cup {t}
  /\ notifying' = notifying \cup {t}
  /\ UNCHANGED <<hand, ran, dropped, flags, mutex, threads, at, control, promised>>

\* Mutated form of Notify: without mutex.
Notify_NoLock(t) ==
  /\ t \in notifying
  /\ notifying' = notifying \ {t}
  /\ IF At("waiting") = {} THEN UNCHANGED at
     ELSE \E w \in At("waiting") : at' = [at EXCEPT ![w] = "locking"]
  /\ UNCHANGED <<queue, flags, mutex, threads, control, promised>>

\* cv.notify_one under mutex, after which push returns.
Notify(t) ==
  /\ t \in notifying
  /\ mutex = NoWorker
  /\ notifying' = notifying \ {t}
  /\ IF At("waiting") = {} THEN UNCHANGED at
     ELSE \E w \in At("waiting") : at' = [at EXCEPT ![w] = "locking"]
  /\ UNCHANGED <<queue, flags, mutex, threads, control, promised>>
-----------------------------------------------------------------------------
\* The loop of a worker (set_thread).

Take(w) == /\ hand' = [hand EXCEPT ![w] = Head(q)]
           /\ q' = Tail(q)
           /\ UNCHANGED <<pushed, ran, dropped>>

\* Mutated form of Pop: the result of q.pop is not looked at.
Pop_Unchecked(w) ==
  /\ at[w] = "popping"
  /\ at' = [at EXCEPT ![w] = "running"]
  /\ IF q = <<>> THEN UNCHANGED queue ELSE Take(w)
  /\ UNCHANGED <<flags, mutex, threads, notifying, control, promised>>

Pop(w) ==
  /\ at[w] = "popping"
  /\ IF q = <<>> THEN /\ at' = [at EXCEPT ![w] = "locking"]
                      /\ UNCHANGED queue
                 ELSE /\ at' = [at EXCEPT ![w] = "running"]
                      /\ Take(w)
  /\ UNCHANGED <<flags, mutex, threads, notifying, control, promised>>

Run(w) ==
  /\ at[w] = "running"
  /\ at' = [at EXCEPT ![w] = "ran"]
  /\ ran' = ran \cup {hand[w]}
  /\ hand' = [hand EXCEPT ![w] = NoTask]
  /\ UNCHANGED <<q, pushed, dropped, flags, mutex, threads, notifying, control, promised>>

Test(w) ==
  /\ at[w] = "ran"
  /\ at' = [at EXCEPT ![w] = IF flag[w] THEN "returned" ELSE "popping"]
  /\ UNCHANGED <<queue, flags, mutex, threads, notifying, control, promised>>

\* The predicate of cv.wait pops, under mutex, ...
Predicate(w) ==
  /\ at[w] = "locking"
  /\ mutex = NoWorker
  /\ mutex' = w
  /\ at' = [at EXCEPT ![w] = "decide"]
  /\ IF q = <<>> THEN UNCHANGED queue ELSE Take(w)
  /\ UNCHANGED <<flags, threads, notifying, control, promised>>

\* Mutated form of Decide: isDone and the flag come before what was popped.
Decide_FlagFirst(w) ==
  /\ at[w] = "decide"
  /\ mutex' = NoWorker
  /\ at' = [at EXCEPT ![w] = IF isDone \/ flag[w] THEN "returned"
                             ELSE IF hand[w] # NoTask THEN "running" ELSE "waiting"]
  /\ UNCHANGED <<queue, flags, threads, notifying, control, promised>>

\* ... and then reads isDone and the flag; the wait releases mutex as it begins.
Decide(w) ==
  /\ at[w] = "decide"
  /\ mutex' = NoWorker
  /\ at' = [at EXCEPT ![w] = IF hand[w] # NoTask THEN "running"
                             ELSE IF isDone \/ flag[w] THEN "returned" ELSE "waiting"]
  /\ UNCHANGED <<queue, flags, threads, notifying, control, promised>>

WakeSpuriously(w) ==
  /\ at[w] = "waiting"
  /\ at' = [at EXCEPT ![w] = "locking"]
  /\ UNCHANGED <<queue, flags, mutex, threads, notifying, control, promised>>
-----------------------------------------------------------------------------
\* The controller.

Calls(op, step, todo) ==
  /\ control = Idle
  /\ control' = [op |-> op, step |-> step, todo |-> todo]

Proceeds(step, next) ==
  /\ control.step = step
  /\ control' = next

\* resize to a larger size, one thread at a time.
Grow(w) ==
  /\ control = Idle /\ ~isStop /\ ~isDone
  /\ at[w] = "none"
  /\ at' = [at EXCEPT ![w] = "popping"]
  /\ threads' = threads \cup {w}
  /\ UNCHANGED <<queue, flags, mutex, notifying, control, promised>>

\* resize to a smaller size: these threads are flagged and detached.
Shrink(S) ==
  /\ ~isStop /\ ~isDone
  /\ S # {} /\ S \subseteq threads
  /\ Calls("resize", "flag", S)
  /\ threads' = threads \ S
  /\ UNCHANGED <<queue, flags, mutex, at, notifying, promised>>

\* stop(false).
Discard ==
  /\ ~isStop
  /\ isStop' = TRUE
  /\ Calls("discard", "flag", threads)
  /\ UNCHANGED <<queue, isDone, flag, mutex, threads, at, notifying, promised>>

\* stop(true).
Drain ==
  /\ ~isStop /\ ~isDone
  /\ isDone' = TRUE
  /\ Calls("drain", "notify", {})
  /\ promised' = pushed \ notifying
  /\ UNCHANGED <<queue, isStop, flag, mutex, threads, at, notifying>>

Flag(w) ==
  /\ control.step = "flag"
  /\ w \in control.todo
  /\ flag' = [flag EXCEPT ![w] = TRUE]
  /\ control' = [control EXCEPT !.todo = @ \ {w}]
  /\ UNCHANGED <<queue, isDone, isStop, mutex, threads, at, notifying, promised>>

AllFlagged ==
  /\ control.todo = {}
  /\ Proceeds("flag",
       [control EXCEPT !.step = IF control.op = "resize" THEN "notify" ELSE "clear"])
  /\ UNCHANGED <<queue, flags, mutex, threads, at, notifying, promised>>

\* clear_queue: pops and deletes until the queue is empty.
ClearOne ==
  /\ control.step \in {"clear", "empty"}
  /\ q # <<>>
  /\ dropped' = dropped \cup {Head(q)}
  /\ q' = Tail(q)
  /\ UNCHANGED <<hand, pushed, ran, flags, mutex, threads, at, notifying, control, promised>>

Cleared ==
  /\ q = <<>>
  /\ Proceeds("clear", [control EXCEPT !.step = "notify"])
  /\ UNCHANGED <<queue, flags, mutex, threads, at, notifying, promised>>

\* Mutated form of NotifyAll: it wakes one thread.
NotifyAll_One ==
  /\ mutex = NoWorker
  /\ Proceeds("notify",
       IF control.op = "resize" THEN Idle ELSE [control EXCEPT !.step = "join"])
  /\ IF At("waiting") = {} THEN UNCHANGED at
     ELSE \E w \in At("waiting") : at' = [at EXCEPT ![w] = "locking"]
  /\ UNCHANGED <<queue, flags, mutex, threads, notifying, promised>>

\* cv.notify_all under mutex; resize is done with that.
NotifyAll ==
  /\ mutex = NoWorker
  /\ Proceeds("notify",
       IF control.op = "resize" THEN Idle ELSE [control EXCEPT !.step = "join"])
  /\ at' = [w \in Worker |-> IF at[w] = "waiting" THEN "locking" ELSE at[w]]
  /\ UNCHANGED <<queue, flags, mutex, threads, notifying, promised>>

\* The loop that joins the threads; a detached thread is not among them.
Join ==
  /\ \A w \in threads : at[w] = "returned"
  /\ Proceeds("join", [control EXCEPT !.step = "empty"])
  /\ UNCHANGED <<queue, flags, mutex, threads, at, notifying, promised>>

\* The second clear_queue has found the queue empty: stop returns.
Stopped ==
  /\ q = <<>>
  /\ Proceeds("empty", Idle)
  /\ threads' = {}
  /\ UNCHANGED <<queue, flags, mutex, at, notifying, promised>>
-----------------------------------------------------------------------------
Loop(w) == Pop(w) \/ Run(w) \/ Test(w) \/ Predicate(w) \/ Decide(w)

Control == \/ \E w \in Worker : Grow(w) \/ Flag(w)
           \/ \E S \in SUBSET threads : Shrink(S)
           \/ Discard \/ Drain
           \/ AllFlagged \/ ClearOne \/ Cleared \/ NotifyAll \/ Join \/ Stopped

Next == \/ \E t \in Task : Push(t) \/ Notify(t)
        \/ \E w \in Worker : Loop(w) \/ WakeSpuriously(w)
        \/ Control

Spec == Init /\ [][Next]_vars

\* Tasks end, threads are scheduled, and one that finds mutex free again and again
\* gets it.  Nothing obliges anybody to push, resize or stop.
Fairness ==
  /\ \A t \in Task : SF_vars(Notify(t))
  /\ \A w \in Worker : SF_vars(Loop(w)) /\ WF_vars(Flag(w))
  /\ WF_vars(AllFlagged \/ ClearOne \/ Cleared \/ Join \/ Stopped)
  /\ SF_vars(NotifyAll)

FairSpec == Spec /\ Fairness
-----------------------------------------------------------------------------
InQueue(t) == \E i \in 1 .. Len(q) : q[i] = t

InHand(t) == \E w \in Worker : hand[w] = t

\* A task that was pushed is in exactly one place: in the queue, once; in the hands of
\* one thread that will run it; run; or deleted by clear_queue.  No thread leaves
\* with a task in its hand.
Conserved ==
  /\ \A i, j \in 1 .. Len(q) : q[i] = q[j] => i = j
  /\ \A w, x \in Worker : hand[w] = hand[x] /\ hand[w] # NoTask => w = x
  /\ \A w \in Worker : hand[w] # NoTask => at[w] \in {"running", "decide"}
  /\ \A t \in Task :
       /\ t \in pushed <=> (InQueue(t) \/ InHand(t) \/ t \in ran \/ t \in dropped)
       /\ ~(InQueue(t) /\ InHand(t)) /\ ~(t \in ran /\ t \in dropped)
       /\ t \in ran \cup dropped => ~InQueue(t) /\ ~InHand(t)

\* No wake-up is lost: while a thread waits, every task in the queue has a push that
\* has yet to notify, or a thread that has been woken and has yet to look.  This
\* rests on push notifying under mutex although it queues without it.
NoLostWakeup ==
  At("waiting") # {} => Len(q) <= Cardinality(notifying) + Cardinality(At("locking"))

\* A task pushed while the pool has threads is taken from the queue eventually, also
\* when the pool is shrunk or stopped meanwhile.
Taken ==
  \A t \in Task : InQueue(t) ~> (~InQueue(t) \/ threads = {})

\* stop and resize return.
ControllerReturns == control # Idle ~> control = Idle

\* stop(true) of a pool with threads returns when every task whose push had returned
\* before has been run, but for those that a thread detached by resize is still at.
\* A push that is under way meanwhile has no such promise.
DrainKeepsPromise ==
  [][control.op = "drain" /\ control'.op = "none" /\ threads # {}
       => \A t \in promised : t \in ran \/ \E w \in Worker \ threads : hand[w] = t]_vars

\* "The destructor waits for all the functions in the queue to be finished", it calls
\* stop(true), with which "all the functions in the queue are run".
DestructorWaits == isDone /\ control = Idle => promised \subseteq ran
=============================================================================
