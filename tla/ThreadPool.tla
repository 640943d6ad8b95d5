----------------------------- MODULE ThreadPool -----------------------------
(***************************************************************************)
(* code/ThreadPool.cpp: a fixed set of threads that pop tasks from one     *)
(* BlockingQueue and run them.                                             *)
(*                                                                         *)
(* Actors: the owner (start, stop and, as part of stop, the joins), any    *)
(* number of producers (append; a task may be a producer too) and the      *)
(* worker threads (run).  start and stop are called by the owner alone,    *)
(* and append is not called while start is inside tasks_.init, which the   *)
(* header marks "not thread safe".                                         *)
(*                                                                         *)
(* A task is named by the position of its append() among the successful    *)
(* ones.  An empty std::function, which run() skips, is a task whose run   *)
(* has no effect.                                                          *)
(***************************************************************************)
EXTENDS BlockingQueue, FiniteSets

CONSTANTS
    Workers,     \* the threads add_thread() can create
    MaxCounts,   \* the values of start()'s max_task
    MaxAppends,  \* bound on successful append()s
    MaxStarts    \* bound on successful start()s

ASSUME WorkersAssumption == IsFiniteSet(Workers)
ASSUME BoundsAssumption ==
    MaxCounts \subseteq Nat /\ MaxAppends \in Nat /\ MaxStarts \in Nat

VARIABLES
    threads_,    \* the threads of the vector
    pc,          \* pc[w]: where thread w is in run()
    task,        \* task[w]: the task it holds, 0 for none
    joining,     \* the owner is in stop(), waiting for the threads
    \* History, not part of the program:
    accepted,    \* number of append()s that returned true
    started,     \* the tasks popped, in that order
    discarded,   \* the tasks that tasks_.init() threw away
    starts       \* number of successful start()s

poolVars == <<threads_, pc, task, joining>>
history == <<accepted, started, discarded, starts>>
vars == <<bqVars, poolVars, history>>

Init ==
    /\ BQInit
    /\ threads_ = {}
    /\ pc = [w \in Workers |-> "none"]
    /\ task = [w \in Workers |-> 0]
    /\ joining = FALSE
    /\ accepted = 0
    /\ started = <<>>
    /\ discarded = {}
    /\ starts = 0

Items(s) == {s[i] : i \in DOMAIN s}

----------------------------------------------------------------------------
\* Variants, as a slip in the code would leave the operations.
stop_without_join ==
    /\ joining
    /\ threads_' = {}
    /\ pc' = [w \in Workers |-> "none"]
    /\ joining' = FALSE
    /\ UNCHANGED <<bqVars, task, history>>

append_returns_false ==
    /\ push(accepted + 1)
    /\ UNCHANGED <<poolVars, history>>

append_full_returns_true ==
    /\ push_refused
    /\ accepted < MaxAppends
    /\ accepted' = accepted + 1
    /\ UNCHANGED <<poolVars, started, discarded, starts>>

----------------------------------------------------------------------------
\* add_thread(Cardinality(S)).  The threads run from the moment they are created;
\* nothing but the owner looks at the vector, so a thread that the loop has yet
\* to create cannot be told from one that has not been scheduled yet, and the
\* loop is one step.
add_thread(S) ==
    /\ threads_' = S
    /\ pc' = [w \in Workers |-> IF w \in S THEN "pop" ELSE pc[w]]

\* start(thread_num, max_task) with thread_num = Cardinality(S).
start(S, max) ==
    /\ ~joining
    /\ S # {} /\ threads_ = {}
    /\ starts < MaxStarts
    /\ init(max)
    /\ add_thread(S)
    /\ starts' = starts + 1
    /\ discarded' = discarded \cup Items(queue_)
    /\ UNCHANGED <<task, joining, accepted, started>>

\* append() never looks at the state of the pool: it is accepted before
\* start(), during and after stop() as well.
append ==
    /\ accepted < MaxAppends
    /\ push(accepted + 1)
    /\ accepted' = accepted + 1
    /\ UNCHANGED <<poolVars, started, discarded, starts>>

append_refused ==
    /\ push_refused
    /\ UNCHANGED <<poolVars, history>>

----------------------------------------------------------------------------
\* run(): one round of the loop is the pop and the call of the task.
run_wait(w) ==
    /\ pc[w] = "pop"
    /\ pop_wait(w)
    /\ UNCHANGED <<poolVars, history>>

run_wakeup(w) ==
    /\ spurious_wakeup(w)
    /\ UNCHANGED <<poolVars, history>>

run_pop(w) ==
    /\ pc[w] = "pop"
    /\ pop_item(w)
    /\ task' = [task EXCEPT ![w] = Head(queue_)]
    /\ pc' = [pc EXCEPT ![w] = "task"]
    /\ started' = Append(started, Head(queue_))
    /\ UNCHANGED <<threads_, joining, accepted, discarded, starts>>

run_task(w) ==
    /\ pc[w] = "task"
    /\ pc' = [pc EXCEPT ![w] = "pop"]
    /\ task' = [task EXCEPT ![w] = 0]
    /\ UNCHANGED <<bqVars, threads_, joining, history>>

run_break(w) ==
    /\ pc[w] = "pop"
    /\ pop_exit(w)
    /\ pc' = [pc EXCEPT ![w] = "done"]
    /\ UNCHANGED <<threads_, task, joining, history>>

----------------------------------------------------------------------------
\* stop(), which the destructor calls too: notify_exit(), then the joins.
stop ==
    /\ ~joining
    /\ threads_ # {}
    /\ notify_exit
    /\ joining' = TRUE
    /\ UNCHANGED <<threads_, pc, task, history>>

\* The last join() returned: threads_.clear() and stop() returns.
stop_joined ==
    /\ joining
    /\ \A w \in threads_ : pc[w] = "done"
    /\ threads_' = {}
    /\ pc' = [w \in Workers |-> "none"]
    /\ joining' = FALSE
    /\ UNCHANGED <<bqVars, task, history>>

Run(w) ==
    \/ run_wait(w) \/ run_wakeup(w)
    \/ run_pop(w) \/ run_task(w) \/ run_break(w)

Next ==
    \/ \E S \in SUBSET Workers, max \in MaxCounts : start(S, max)
    \/ append
    \/ append_refused
    \/ stop
    \/ stop_joined
    \/ \E w \in Workers : Run(w)

\* The threads of the pool are scheduled by the operating system, and a task
\* returns; a sleeper need not be woken for no reason.  Nobody has to call
\* start, append or stop.
Fairness ==
    /\ \A w \in Workers :
         WF_vars(run_wait(w) \/ run_pop(w) \/ run_task(w) \/ run_break(w))
    /\ WF_vars(stop_joined)

Spec == Init /\ [][Next]_vars
FairSpec == Spec /\ Fairness

----------------------------------------------------------------------------
TypeOK ==
    /\ queue_ \in Seq(1..accepted)
    /\ max_count_ \in Nat
    /\ exit_ \in BOOLEAN
    /\ waiting \subseteq threads_
    /\ threads_ \subseteq Workers
    /\ pc \in [Workers -> {"none", "pop", "task", "done"}]
    /\ task \in [Workers -> 0..accepted]
    /\ joining \in BOOLEAN
    /\ accepted \in Nat
    /\ started \in Seq(1..accepted)
    /\ discarded \subseteq 1..accepted
    /\ starts \in Nat

\* The workers between two tasks that are not asleep: each of them looks at
\* the queue before it sleeps.
Awake == {w \in threads_ : pc[w] = "pop"} \ waiting

\* push() notifies one sleeper and pop() re-tests its predicate, so while the
\* pool is open no worker sleeps unless every queued task has an awake idle
\* worker of its own: a task is never left behind busy workers next to a
\* sleeping one.
NoLostWakeup ==
    waiting # {} /\ ~exit_ => Len(queue_) <= Cardinality(Awake)

\* Over restarts, too, tasks are begun in the order of their append()s, and
\* none is begun twice.
StartOrder ==
    \A i, j \in DOMAIN started : i < j => started[i] < started[j]

\* An accepted task is waiting in the queue or was begun, unless a later
\* start() threw it away with the queue; and it is only one of the three.
NothingLost ==
    /\ 1..accepted = Items(queue_) \cup Items(started) \cup discarded
    /\ Items(queue_) \cap Items(started) = {}
    /\ discarded \cap (Items(queue_) \cup Items(started)) = {}

\* When stop() has returned no thread is inside run(): what a task refers to
\* may be destroyed.
StopIsQuiescent ==
    threads_ = {} => \A w \in Workers : pc[w] = "none" /\ task[w] = 0

\* stop() returns: notify_exit() reaches every sleeper, and a worker that had
\* not fallen asleep yet sees exit_.
StopReturns == joining ~> ~joining

\* A task accepted by an open pool is begun, unless the pool is stopped.
EveryTaskBegun ==
    \A k \in 1..MaxAppends :
        (k \in Items(queue_) /\ threads_ # {}) ~> (k \notin Items(queue_) \/ exit_)

----------------------------------------------------------------------------
\* The pool seen through its promise: a worker's position inside pop() and
\* the sleepers are invisible.
Executor == INSTANCE TaskExecutor WITH
    phase <- IF threads_ = {} THEN "closed" ELSE IF exit_ THEN "closing" ELSE "open",
    line  <- queue_,
    busy  <- task

\* The pool implements TaskExecutor: waits, wake-ups and the way exit_ spreads
\* are steps in which the promise does not move.
ImplementsExecutor == Executor!Spec
=============================================================================
