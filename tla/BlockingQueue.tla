--------------------------- MODULE BlockingQueue ---------------------------
(***************************************************************************)
(* The bounded blocking queue of code/BlockingQueue.hpp: a deque guarded   *)
(* by one mutex, with a condition variable on which consumers sleep.       *)
(*                                                                         *)
(* Every member function is one critical section, so it is one step here,  *)
(* with the exception of pop(): cond_.wait() gives the mutex up, hence     *)
(* pop() is the disjunction of going to sleep, leaving with false and      *)
(* leaving with an item.  A consumer that was woken has to take the mutex  *)
(* and to test the predicate again: it is simply not in `waiting' any      *)
(* more, and one of the three disjuncts of pop() is its next step.         *)
(***************************************************************************)
EXTENDS Naturals, Sequences

VARIABLES
    queue_,      \* std::deque<T>
    max_count_,  \* capacity, 0 for "no limit"
    exit_,       \* set by notify_exit(), cleared only by init()
    waiting      \* the threads asleep in cond_.wait()

bqVars == <<queue_, max_count_, exit_, waiting>>

BQInit ==
    /\ queue_ = <<>>
    /\ max_count_ = 0
    /\ exit_ = FALSE
    /\ waiting = {}

----------------------------------------------------------------------------
\* Variants of the operations, as a slip in the code would leave them.  They are
\* what the properties of ThreadPool are tested against; no specification uses them.
push_without_notify(item) ==
    /\ max_count_ = 0 \/ Len(queue_) < max_count_
    /\ queue_' = Append(queue_, item)
    /\ UNCHANGED <<max_count_, exit_, waiting>>

notify_exit_wakes_one ==
    /\ exit_' = TRUE
    /\ IF waiting = {} THEN waiting' = {}
                       ELSE \E w \in waiting : waiting' = waiting \ {w}
    /\ UNCHANGED <<queue_, max_count_>>

pop_item_keeps_front(w) ==
    /\ w \notin waiting
    /\ queue_ # <<>> /\ ~exit_
    /\ UNCHANGED bqVars

pop_ignores_exit(w) ==
    /\ w \notin waiting
    /\ queue_ # <<>>
    /\ queue_' = Tail(queue_)
    /\ UNCHANGED <<max_count_, exit_, waiting>>

----------------------------------------------------------------------------
full == max_count_ > 0 /\ Len(queue_) >= max_count_

\* cond_.notify_one(): wakes one of the sleepers, if there is one.
notify_one ==
    IF waiting = {} THEN waiting' = {}
                    ELSE \E w \in waiting : waiting' = waiting \ {w}

init(max) ==
    /\ max_count_' = max
    /\ exit_' = FALSE
    /\ queue_' = <<>>
    /\ UNCHANGED waiting

push(item) ==
    /\ ~full
    /\ queue_' = Append(queue_, item)
    /\ notify_one
    /\ UNCHANGED <<max_count_, exit_>>

\* push() returns false: nothing changes.
push_refused ==
    /\ full
    /\ UNCHANGED bqVars

\* pop(): the predicate of cond_.wait() is false, the caller sleeps.
pop_wait(w) ==
    /\ w \notin waiting
    /\ queue_ = <<>> /\ ~exit_
    /\ waiting' = waiting \cup {w}
    /\ UNCHANGED <<queue_, max_count_, exit_>>

\* pop() returns false.  exit_ is tested first: queued items stay behind.
pop_exit(w) ==
    /\ w \notin waiting
    /\ exit_
    /\ UNCHANGED bqVars

\* pop() returns true, its caller takes Head(queue_).
pop_item(w) ==
    /\ w \notin waiting
    /\ queue_ # <<>> /\ ~exit_
    /\ queue_' = Tail(queue_)
    /\ UNCHANGED <<max_count_, exit_, waiting>>

\* A condition variable may wake a sleeper that nobody notified.
spurious_wakeup(w) ==
    /\ w \in waiting
    /\ waiting' = waiting \ {w}
    /\ UNCHANGED <<queue_, max_count_, exit_>>

notify_exit ==
    /\ exit_' = TRUE
    /\ waiting' = {}          \* cond_.notify_all()
    /\ UNCHANGED <<queue_, max_count_>>

=============================================================================
