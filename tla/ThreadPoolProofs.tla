-------------------------- MODULE ThreadPoolProofs --------------------------
(***************************************************************************)
(* Proofs about ThreadPool, for every set of workers and every bound.      *)
(*                                                                         *)
(* ThreadInv ties a thread's place in run() to the vector, to the task it  *)
(* holds and to the wait set; OwnerInv ties exit_ to the owner's stop().   *)
(* Together with TypeOK they are inductive, and they are what the other    *)
(* invariants and the refinement of TaskExecutor need.                     *)
(***************************************************************************)
EXTENDS ThreadPool, FiniteSetTheorems, TLAPS

ThreadInv ==
    \A w \in Workers :
        /\ pc[w] = "none" <=> w \notin threads_
        /\ task[w] # 0 <=> pc[w] = "task"
        /\ w \in waiting => pc[w] = "pop"

OwnerInv ==
    /\ threads_ # {} => (exit_ <=> joining)
    /\ joining => threads_ # {}

Inv == TypeOK /\ ThreadInv /\ OwnerInv

\* The actions of a worker, one disjunct per action.
LEMMA NextCases ==
    ASSUME Next
    PROVE  \/ \E S \in SUBSET Workers, max \in MaxCounts : start(S, max)
           \/ append
           \/ append_refused
           \/ stop
           \/ stop_joined
           \/ \E w \in Workers : run_wait(w)
           \/ \E w \in Workers : run_wakeup(w)
           \/ \E w \in Workers : run_pop(w)
           \/ \E w \in Workers : run_task(w)
           \/ \E w \in Workers : run_break(w)
  BY DEF Next, Run

\* Appending the next task keeps a sequence of accepted tasks one.
LEMMA AppendType ==
    ASSUME NEW n \in Nat, NEW s \in Seq(1..n)
    PROVE  /\ Append(s, n + 1) \in Seq(1..(n + 1))
           /\ s \in Seq(1..(n + 1))
  OBVIOUS

\* A task that leaves a non-empty queue is an accepted one.
LEMMA PopType ==
    ASSUME NEW n \in Nat, NEW s \in Seq(1..n), s # <<>>
    PROVE  Head(s) \in 1..n /\ Tail(s) \in Seq(1..n)
  OBVIOUS

LEMMA EmptyType ==
    ASSUME NEW n \in Nat
    PROVE  <<>> \in Seq(1..n)
  OBVIOUS

LEMMA InvInit == Init => Inv
<1> SUFFICES ASSUME Init
             PROVE  Inv
  OBVIOUS
<1>1. TypeOK
  <2>1. queue_ \in Seq(1..accepted) /\ started \in Seq(1..accepted)
    BY EmptyType DEF Init, BQInit
  <2>2. pc \in [Workers -> {"none", "pop", "task", "done"}]
    BY DEF Init
  <2>3. task \in [Workers -> 0..accepted]
    BY DEF Init
  <2> QED
    BY <2>1, <2>2, <2>3 DEF Init, BQInit, TypeOK
<1>2. ThreadInv /\ OwnerInv
  BY DEF Init, BQInit, ThreadInv, OwnerInv
<1> QED
  BY <1>1, <1>2 DEF Inv

LEMMA TypeStep == Inv /\ [Next]_vars => TypeOK'
<1> SUFFICES ASSUME Inv, [Next]_vars
             PROVE  TypeOK'
  OBVIOUS
<1> USE DEF Inv, TypeOK
<1>1. ASSUME NEW S \in SUBSET Workers, NEW max \in MaxCounts, start(S, max)
      PROVE  TypeOK'
  <2>1. Items(queue_) \subseteq 1..accepted
    BY DEF Items
  <2>2. threads_ = {} /\ waiting = {}
    BY <1>1 DEF start, add_thread
  <2>3. queue_' \in Seq(1..accepted')
    BY <1>1, EmptyType DEF start, add_thread, init
  <2>4. pc' \in [Workers -> {"none", "pop", "task", "done"}]
    BY <1>1 DEF start, add_thread
  <2>5. discarded' \subseteq 1..accepted'
    BY <1>1, <2>1 DEF start, add_thread
  <2>6. max_count_' \in Nat /\ exit_' \in BOOLEAN /\ waiting' \subseteq threads_'
    BY <1>1, <2>2, BoundsAssumption DEF start, add_thread, init
  <2> QED
    BY <1>1, <2>3, <2>4, <2>5, <2>6 DEF start, add_thread
<1>2. CASE append
  <2>1. queue_' \in Seq(1..(accepted + 1)) /\ started' \in Seq(1..(accepted + 1))
    BY <1>2, AppendType DEF append, push
  <2>2. waiting' \subseteq threads_
    BY <1>2 DEF append, push, notify_one
  <2> QED
    BY <1>2, <2>1, <2>2 DEF append, push, poolVars
<1>3. CASE append_refused
  BY <1>3 DEF append_refused, push_refused, bqVars, poolVars, history
<1>4. CASE stop
  BY <1>4 DEF stop, notify_exit, history
<1>5. CASE stop_joined
  <2>1. waiting = {}
    BY <1>5 DEF stop_joined, ThreadInv
  <2> QED
    BY <1>5, <2>1 DEF stop_joined, bqVars, history
<1>6. ASSUME NEW w \in Workers, run_wait(w)
      PROVE  TypeOK'
  <2>1. w \in threads_
    BY <1>6 DEF run_wait, ThreadInv
  <2> QED
    BY <1>6, <2>1 DEF run_wait, pop_wait, poolVars, history
<1>7. ASSUME NEW w \in Workers, run_wakeup(w)
      PROVE  TypeOK'
  BY <1>7 DEF run_wakeup, spurious_wakeup, poolVars, history
<1>8. ASSUME NEW w \in Workers, run_pop(w)
      PROVE  TypeOK'
  <2>1. Head(queue_) \in 1..accepted /\ Tail(queue_) \in Seq(1..accepted)
    BY <1>8, PopType DEF run_pop, pop_item
  <2> QED
    BY <1>8, <2>1 DEF run_pop, pop_item
<1>9. ASSUME NEW w \in Workers, run_task(w)
      PROVE  TypeOK'
  BY <1>9 DEF run_task, bqVars, history
<1>10. ASSUME NEW w \in Workers, run_break(w)
       PROVE  TypeOK'
  BY <1>10 DEF run_break, pop_exit, bqVars, history
<1>11. CASE UNCHANGED vars
  BY <1>11 DEF vars, bqVars, poolVars, history
<1> QED
  BY <1>1, <1>2, <1>3, <1>4, <1>5, <1>6, <1>7, <1>8, <1>9, <1>10, <1>11, NextCases

LEMMA ThreadStep == Inv /\ [Next]_vars => ThreadInv' /\ OwnerInv'
<1> SUFFICES ASSUME Inv, [Next]_vars
             PROVE  ThreadInv' /\ OwnerInv'
  OBVIOUS
<1> USE DEF Inv, TypeOK, ThreadInv, OwnerInv
<1>1. ASSUME NEW S \in SUBSET Workers, NEW max \in MaxCounts, start(S, max)
      PROVE  ThreadInv' /\ OwnerInv'
  BY <1>1 DEF start, add_thread, init
<1>2. CASE append
  BY <1>2 DEF append, push, notify_one, poolVars
<1>3. CASE append_refused
  BY <1>3 DEF append_refused, push_refused, bqVars, poolVars
<1>4. CASE stop
  BY <1>4 DEF stop, notify_exit
<1>5. CASE stop_joined
  BY <1>5 DEF stop_joined, bqVars
<1>6. ASSUME NEW w \in Workers, run_wait(w)
      PROVE  ThreadInv' /\ OwnerInv'
  BY <1>6 DEF run_wait, pop_wait, poolVars
<1>7. ASSUME NEW w \in Workers, run_wakeup(w)
      PROVE  ThreadInv' /\ OwnerInv'
  BY <1>7 DEF run_wakeup, spurious_wakeup, poolVars
<1>8. ASSUME NEW w \in Workers, run_pop(w)
      PROVE  ThreadInv' /\ OwnerInv'
  <2>1. Head(queue_) # 0
    BY <1>8, PopType DEF run_pop, pop_item
  <2> QED
    BY <1>8, <2>1 DEF run_pop, pop_item
<1>9. ASSUME NEW w \in Workers, run_task(w)
      PROVE  ThreadInv' /\ OwnerInv'
  BY <1>9 DEF run_task, bqVars
<1>10. ASSUME NEW w \in Workers, run_break(w)
       PROVE  ThreadInv' /\ OwnerInv'
  BY <1>10 DEF run_break, pop_exit, bqVars
<1>11. CASE UNCHANGED vars
  BY <1>11 DEF vars, bqVars, poolVars
<1> QED
  BY <1>1, <1>2, <1>3, <1>4, <1>5, <1>6, <1>7, <1>8, <1>9, <1>10, <1>11, NextCases

\* The inductive invariant holds in every reachable state.
THEOREM Invariance == Spec => []Inv
<1>1. Inv /\ [Next]_vars => Inv'
  BY TypeStep, ThreadStep DEF Inv
<1> QED
  BY <1>1, InvInit, PTL DEF Spec

\* Type correctness of the pool and of its history.
THEOREM TypeCorrect == Spec => []TypeOK
<1>1. Inv => TypeOK
  BY DEF Inv
<1> QED
  BY <1>1, Invariance, PTL

\* When stop() has returned no thread is left inside run().
THEOREM Quiescence == Spec => []StopIsQuiescent
<1>1. Inv => StopIsQuiescent
  BY DEF Inv, ThreadInv, StopIsQuiescent
<1> QED
  BY <1>1, Invariance, PTL

----------------------------------------------------------------------------
(***************************************************************************)
(* No lost wake-up.  Each push moves one sleeper to Awake, each pop takes  *)
(* one member of Awake and one task: the difference of the two sizes is    *)
(* what the invariant bounds.                                              *)
(***************************************************************************)
LEMMA AwakeFinite ==
    ASSUME Inv
    PROVE  IsFiniteSet(Awake) /\ Cardinality(Awake) \in Nat
  BY WorkersAssumption, FS_Subset, FS_CardinalityType DEF Awake, Inv, TypeOK

LEMMA NoLostWakeupStep ==
    Inv /\ Inv' /\ NoLostWakeup /\ [Next]_vars => NoLostWakeup'
<1> SUFFICES ASSUME Inv, Inv', NoLostWakeup, [Next]_vars,
                    waiting' # {}, ~exit_'
             PROVE  Len(queue_') <= Cardinality(Awake')
  BY DEF NoLostWakeup
<1>0. /\ IsFiniteSet(Awake) /\ Cardinality(Awake) \in Nat
      /\ IsFiniteSet(Awake') /\ Cardinality(Awake') \in Nat
  <2>1. IsFiniteSet(Awake')
    BY WorkersAssumption, FS_Subset DEF Awake, Inv, TypeOK
  <2> QED
    BY <2>1, AwakeFinite, FS_CardinalityType
<1>00. queue_ \in Seq(1..accepted)
  BY DEF Inv, TypeOK
<1>1. ASSUME NEW S \in SUBSET Workers, NEW max \in MaxCounts, start(S, max)
      PROVE  FALSE
  BY <1>1 DEF start, add_thread, init, Inv, TypeOK
<1>2. CASE append
  <2>1. PICK w \in waiting : waiting' = waiting \ {w}
    BY <1>2 DEF append, push, notify_one
  <2>2. Len(queue_) <= Cardinality(Awake)
    BY <1>2, <2>1 DEF append, push, NoLostWakeup
  <2>3. w \notin Awake /\ Awake' = Awake \cup {w}
    BY <1>2, <2>1 DEF append, poolVars, Awake, Inv, TypeOK, ThreadInv
  <2>4. Cardinality(Awake') = Cardinality(Awake) + 1
    BY <1>0, <2>3, FS_AddElement
  <2>5. Len(queue_') = Len(queue_) + 1
    BY <1>2, <1>00 DEF append, push
  <2> QED
    BY <1>0, <1>00, <2>2, <2>4, <2>5
<1>3. CASE append_refused
  BY <1>3 DEF append_refused, push_refused, bqVars, poolVars, Awake, NoLostWakeup
<1>4. CASE stop
  BY <1>4 DEF stop, notify_exit
<1>5. CASE stop_joined
  BY <1>5 DEF stop_joined, bqVars, Inv, TypeOK
<1>6. ASSUME NEW w \in Workers, run_wait(w)
      PROVE  Len(queue_') <= Cardinality(Awake')
  BY <1>0, <1>6 DEF run_wait, pop_wait
<1>7. ASSUME NEW w \in Workers, run_wakeup(w)
      PROVE  Len(queue_') <= Cardinality(Awake')
  <2>1. Awake \subseteq Awake'
    BY <1>7 DEF run_wakeup, spurious_wakeup, poolVars, Awake
  <2>2. Cardinality(Awake) <= Cardinality(Awake')
    BY <1>0, <2>1, FS_Subset
  <2>3. queue_' = queue_ /\ Len(queue_) <= Cardinality(Awake)
    BY <1>7 DEF run_wakeup, spurious_wakeup, NoLostWakeup
  <2> QED
    BY <1>0, <1>00, <2>2, <2>3
<1>8. ASSUME NEW w \in Workers, run_pop(w)
      PROVE  Len(queue_') <= Cardinality(Awake')
  <2>1. w \in Awake /\ Awake' = Awake \ {w}
    BY <1>8 DEF run_pop, pop_item, Awake, Inv, TypeOK, ThreadInv
  <2>2. Cardinality(Awake') = Cardinality(Awake) - 1
    BY <1>0, <2>1, FS_RemoveElement
  <2>3. Len(queue_) <= Cardinality(Awake)
    BY <1>8 DEF run_pop, pop_item, NoLostWakeup
  <2>4. Len(queue_') = Len(queue_) - 1
    BY <1>8, <1>00 DEF run_pop, pop_item
  <2> QED
    BY <1>0, <1>00, <2>2, <2>3, <2>4
<1>9. ASSUME NEW w \in Workers, run_task(w)
      PROVE  Len(queue_') <= Cardinality(Awake')
  <2>1. Awake \subseteq Awake'
    BY <1>9 DEF run_task, bqVars, Awake, Inv, TypeOK
  <2>2. Cardinality(Awake) <= Cardinality(Awake')
    BY <1>0, <2>1, FS_Subset
  <2>3. queue_' = queue_ /\ Len(queue_) <= Cardinality(Awake)
    BY <1>9 DEF run_task, bqVars, NoLostWakeup
  <2> QED
    BY <1>0, <1>00, <2>2, <2>3
<1>10. ASSUME NEW w \in Workers, run_break(w)
       PROVE  FALSE
  BY <1>10 DEF run_break, pop_exit, bqVars
<1>11. CASE UNCHANGED vars
  BY <1>11 DEF vars, bqVars, poolVars, Awake, NoLostWakeup
<1> QED
  BY <1>1, <1>2, <1>3, <1>4, <1>5, <1>6, <1>7, <1>8, <1>9, <1>10, <1>11, NextCases

\* No worker sleeps next to a queued task that has no awake idle worker.
THEOREM WakeupsSuffice == Spec => []NoLostWakeup
<1>1. Init => NoLostWakeup
  BY DEF Init, BQInit, NoLostWakeup
<1> QED
  BY <1>1, NoLostWakeupStep, Invariance, PTL DEF Spec

----------------------------------------------------------------------------
(***************************************************************************)
(* FIFO order.  What was begun precedes what is queued, and the queue is   *)
(* in order of acceptance.                                                 *)
(***************************************************************************)
QueueOrder ==
    /\ \A i, j \in DOMAIN queue_ : i < j => queue_[i] < queue_[j]
    /\ \A i \in DOMAIN started, j \in DOMAIN queue_ : started[i] < queue_[j]

OrderInv == StartOrder /\ QueueOrder

\* Moving the head of the queue to the end of what was begun keeps the order.
LEMMA PopOrder ==
    ASSUME NEW n \in Nat, NEW q \in Seq(1..n), NEW s \in Seq(1..n), q # <<>>,
           \A i, j \in DOMAIN s : i < j => s[i] < s[j],
           \A i, j \in DOMAIN q : i < j => q[i] < q[j],
           \A i \in DOMAIN s, j \in DOMAIN q : s[i] < q[j],
           NEW t, t = Tail(q), NEW u, u = Append(s, Head(q))
    PROVE  /\ \A i, j \in DOMAIN u : i < j => u[i] < u[j]
           /\ \A i, j \in DOMAIN t : i < j => t[i] < t[j]
           /\ \A i \in DOMAIN u, j \in DOMAIN t : u[i] < t[j]
<1>1. Len(q) \in Nat /\ Len(q) > 0 /\ Head(q) = q[1] /\ DOMAIN q = 1..Len(q)
  OBVIOUS
<1>2. /\ DOMAIN t = 1..(Len(q) - 1)
      /\ \A i \in 1..(Len(q) - 1) : t[i] = q[i + 1]
  OBVIOUS
<1>3. /\ Len(s) \in Nat /\ DOMAIN s = 1..Len(s) /\ DOMAIN u = 1..(Len(s) + 1)
      /\ \A i \in 1..Len(s) : u[i] = s[i]
      /\ u[Len(s) + 1] = q[1]
  BY <1>1
<1>4. \A i \in DOMAIN t : i + 1 \in DOMAIN q /\ 1 < i + 1
  BY <1>1, <1>2
<1>5. ASSUME NEW i \in DOMAIN u, NEW j \in DOMAIN u, i < j
      PROVE  u[i] < u[j]
  <2>1. i \in 1..Len(s)
    BY <1>3, <1>5
  <2>2. CASE j = Len(s) + 1
    <3>1. 1 \in DOMAIN q /\ i \in DOMAIN s
      BY <1>1, <1>3, <2>1
    <3>2. u[i] = s[i] /\ u[j] = q[1]
      BY <1>3, <2>1, <2>2
    <3> QED
      BY <3>1, <3>2
  <2>3. CASE j \in 1..Len(s)
    BY <1>3, <1>5, <2>1, <2>3
  <2> QED
    BY <1>3, <2>2, <2>3
<1>6. ASSUME NEW i \in DOMAIN u, NEW j \in DOMAIN t
      PROVE  u[i] < t[j]
  <2>1. j + 1 \in DOMAIN q /\ 1 < j + 1 /\ t[j] = q[j + 1] /\ 1 \in DOMAIN q
    BY <1>1, <1>2, <1>4
  <2>2. CASE i = Len(s) + 1
    <3>1. u[i] = q[1] /\ q[1] < q[j + 1]
      BY <1>3, <2>1, <2>2
    <3> QED
      BY <2>1, <3>1
  <2>3. CASE i \in 1..Len(s)
    <3>1. u[i] = s[i] /\ s[i] < q[j + 1]
      BY <1>3, <2>1, <2>3
    <3> QED
      BY <2>1, <3>1
  <2> QED
    BY <1>3, <2>2, <2>3
<1>7. ASSUME NEW i \in DOMAIN t, NEW j \in DOMAIN t, i < j
      PROVE  t[i] < t[j]
  BY <1>1, <1>2, <1>4, <1>7
<1> QED
  BY <1>5, <1>6, <1>7

LEMMA OrderStep == Inv /\ OrderInv /\ [Next]_vars => OrderInv'
<1> SUFFICES ASSUME Inv, OrderInv, [Next]_vars
             PROVE  OrderInv'
  OBVIOUS
<1> USE DEF OrderInv, StartOrder, QueueOrder
<1>0. queue_ \in Seq(1..accepted) /\ started \in Seq(1..accepted) /\ accepted \in Nat
  BY DEF Inv, TypeOK
<1>1. ASSUME NEW S \in SUBSET Workers, NEW max \in MaxCounts, start(S, max)
      PROVE  OrderInv'
  BY <1>0, <1>1 DEF start, add_thread, init
<1>2. CASE append
  <2>1. started' = started /\ queue_' = Append(queue_, accepted + 1)
    BY <1>2 DEF append, push
  <2> QED
    BY <1>0, <2>1
<1>3. ASSUME NEW w \in Workers, run_pop(w)
      PROVE  OrderInv'
  <2>1. /\ queue_ # <<>> /\ queue_' = Tail(queue_)
        /\ started' = Append(started, Head(queue_))
    BY <1>3 DEF run_pop, pop_item
  <2> QED
    BY <1>0, <2>1, PopOrder
<1>4. CASE UNCHANGED <<queue_, started>>
  BY <1>4
<1>5. ASSUME NEW w \in Workers,
             run_wait(w) \/ run_wakeup(w) \/ run_task(w) \/ run_break(w)
      PROVE  UNCHANGED <<queue_, started>>
  BY <1>5 DEF run_wait, pop_wait, run_wakeup, spurious_wakeup, run_task,
              run_break, pop_exit, bqVars, history
<1>6. ASSUME append_refused \/ stop \/ stop_joined \/ UNCHANGED vars
      PROVE  UNCHANGED <<queue_, started>>
  BY <1>6 DEF append_refused, push_refused, stop, notify_exit, stop_joined,
              vars, bqVars, history
<1> QED
  BY <1>1, <1>2, <1>3, <1>4, <1>5, <1>6, NextCases

\* Tasks are begun in the order in which append() accepted them, each once.
THEOREM FirstInFirstBegun == Spec => []StartOrder
<1>1. Init => OrderInv
  BY DEF Init, BQInit, OrderInv, StartOrder, QueueOrder
<1>2. OrderInv => StartOrder
  BY DEF OrderInv
<1> QED
  BY <1>1, <1>2, OrderStep, Invariance, PTL DEF Spec

----------------------------------------------------------------------------
(***************************************************************************)
(* No task is lost.  The queue is in order and what was begun precedes it, *)
(* so the head of the queue occurs in it once, and moves as a whole from   *)
(* the queue to what was begun.                                            *)
(***************************************************************************)
LEMMA ItemsAppend ==
    ASSUME NEW S, NEW s \in Seq(S), NEW x
    PROVE  Items(Append(s, x)) = Items(s) \cup {x}
<1>1. s \in Seq(S \cup {x}) /\ x \in S \cup {x}
  OBVIOUS
<1> DEFINE u == Append(s, x)
<1>2. /\ Len(s) \in Nat /\ DOMAIN s = 1..Len(s) /\ DOMAIN u = 1..(Len(s) + 1)
      /\ \A i \in 1..Len(s) : u[i] = s[i]
      /\ u[Len(s) + 1] = x
  BY <1>1
<1> HIDE DEF u
<1>3. \A y \in Items(u) : y \in Items(s) \cup {x}
  BY <1>2 DEF Items
<1>4. \A y \in Items(s) : y \in Items(u)
  BY <1>2 DEF Items
<1>5. x \in Items(u)
  <2>1. Len(s) + 1 \in DOMAIN u
    BY <1>2
  <2> QED
    BY <1>2, <2>1 DEF Items
<1> QED
  BY <1>3, <1>4, <1>5 DEF u

\* An increasing queue loses its head, and nothing else, when it is popped.
LEMMA ItemsPop ==
    ASSUME NEW n \in Nat, NEW q \in Seq(1..n), q # <<>>,
           \A i, j \in DOMAIN q : i < j => q[i] < q[j]
    PROVE  /\ Items(q) = Items(Tail(q)) \cup {Head(q)}
           /\ Head(q) \notin Items(Tail(q))
<1> DEFINE t == Tail(q)
<1>1. /\ Len(q) \in Nat /\ Len(q) > 0 /\ Head(q) = q[1] /\ DOMAIN q = 1..Len(q)
      /\ DOMAIN t = 1..(Len(q) - 1)
      /\ \A i \in 1..(Len(q) - 1) : t[i] = q[i + 1]
      /\ \A i \in 1..Len(q) : q[i] \in Nat
  OBVIOUS
<1> HIDE DEF t
<1>2. \A i \in DOMAIN t : i + 1 \in DOMAIN q /\ 1 < i + 1 /\ t[i] = q[i + 1]
  BY <1>1
<1>3. \A i \in DOMAIN q : i = 1 \/ (i - 1 \in DOMAIN t /\ t[i - 1] = q[i])
  BY <1>1
<1>4. 1 \in DOMAIN q
  BY <1>1
<1>5. \A y \in Items(q) : y \in Items(t) \cup {q[1]}
  BY <1>3 DEF Items
<1>6. \A y \in Items(t) : y \in Items(q)
  BY <1>2 DEF Items
<1>7. q[1] \in Items(q)
  BY <1>4 DEF Items
<1>8. q[1] \notin Items(t)
  <2>1. ASSUME NEW i \in DOMAIN t
        PROVE  t[i] # q[1]
    <3>1. i + 1 \in DOMAIN q /\ 1 < i + 1 /\ t[i] = q[i + 1]
      BY <1>2
    <3>2. q[1] < q[i + 1] /\ q[1] \in Nat /\ q[i + 1] \in Nat
      BY <1>1, <1>4, <3>1
    <3> QED
      BY <3>1, <3>2
  <2> QED
    BY <2>1 DEF Items
<1> QED
  BY <1>1, <1>5, <1>6, <1>7, <1>8 DEF t

LEMMA NothingLostStep ==
    Inv /\ OrderInv /\ NothingLost /\ [Next]_vars => NothingLost'
<1> SUFFICES ASSUME Inv, OrderInv, NothingLost, [Next]_vars
             PROVE  NothingLost'
  OBVIOUS
<1>0. /\ queue_ \in Seq(1..accepted) /\ started \in Seq(1..accepted)
      /\ accepted \in Nat
  BY DEF Inv, TypeOK
<1>1. ASSUME NEW S \in SUBSET Workers, NEW max \in MaxCounts, start(S, max)
      PROVE  NothingLost'
  <2>1. /\ queue_' = <<>> /\ discarded' = discarded \cup Items(queue_)
        /\ UNCHANGED <<accepted, started>>
    BY <1>1 DEF start, init
  <2>2. Items(<<>>) = {}
    BY DEF Items
  <2> QED
    BY <2>1, <2>2 DEF NothingLost
<1>2. CASE append
  <2>1. /\ queue_' = Append(queue_, accepted + 1) /\ accepted' = accepted + 1
        /\ UNCHANGED <<discarded, started>>
    BY <1>2 DEF append, push
  <2>2. Items(queue_') = Items(queue_) \cup {accepted + 1}
    BY <1>0, <2>1, ItemsAppend
  <2>3. accepted + 1 \notin 1..accepted /\ 1..(accepted + 1) = 1..accepted \cup {accepted + 1}
    BY <1>0
  <2>4. Items(started') = Items(started)
    BY <2>1
  <2> QED
    BY <2>1, <2>2, <2>3, <2>4 DEF NothingLost
<1>3. ASSUME NEW w \in Workers, run_pop(w)
      PROVE  NothingLost'
  <2>1. /\ queue_ # <<>> /\ queue_' = Tail(queue_)
        /\ started' = Append(started, Head(queue_))
        /\ UNCHANGED <<accepted, discarded>>
    BY <1>3 DEF run_pop, pop_item
  <2>2. /\ Items(queue_) = Items(queue_') \cup {Head(queue_)}
        /\ Head(queue_) \notin Items(queue_')
    BY <1>0, <2>1, ItemsPop DEF OrderInv, QueueOrder
  <2>3. Items(started') = Items(started) \cup {Head(queue_)}
    BY <1>0, <2>1, ItemsAppend
  <2> QED
    BY <2>1, <2>2, <2>3 DEF NothingLost
<1>4. CASE UNCHANGED <<queue_, started, discarded, accepted>>
  BY <1>4 DEF NothingLost
<1>5. ASSUME NEW w \in Workers,
             run_wait(w) \/ run_wakeup(w) \/ run_task(w) \/ run_break(w)
      PROVE  UNCHANGED <<queue_, started, discarded, accepted>>
  BY <1>5 DEF run_wait, pop_wait, run_wakeup, spurious_wakeup, run_task,
              run_break, pop_exit, bqVars, history
<1>6. ASSUME append_refused \/ stop \/ stop_joined \/ UNCHANGED vars
      PROVE  UNCHANGED <<queue_, started, discarded, accepted>>
  BY <1>6 DEF append_refused, push_refused, stop, notify_exit, stop_joined,
              vars, bqVars, history
<1> QED
  BY <1>1, <1>2, <1>3, <1>4, <1>5, <1>6, NextCases

\* Every accepted task is queued, begun or thrown away by a later start(), and
\* only one of the three.
THEOREM NoTaskLost == Spec => []NothingLost
<1>1. Init => OrderInv /\ NothingLost
  <2>1. Items(<<>>) = {} /\ 1..0 = {}
    BY DEF Items
  <2> QED
    BY <2>1 DEF Init, BQInit, OrderInv, StartOrder, QueueOrder, NothingLost
<1> QED
  BY <1>1, OrderStep, NothingLostStep, Invariance, PTL DEF Spec

----------------------------------------------------------------------------
(***************************************************************************)
(* Refinement of TaskExecutor.                                             *)
(***************************************************************************)
LEMMA ExecutorStep == Inv /\ Inv' /\ [Next]_vars => [Executor!Next]_Executor!vars
<1> SUFFICES ASSUME Inv, Inv', [Next]_vars
             PROVE  Executor!Next \/ UNCHANGED Executor!vars
  OBVIOUS
<1> USE DEF Executor!vars
<1>1. ASSUME NEW S \in SUBSET Workers, NEW max \in MaxCounts, start(S, max)
      PROVE  Executor!Open
  BY <1>1 DEF start, add_thread, init, Executor!Open
<1>2. ASSUME append
      PROVE  Executor!Accept
  BY <1>2 DEF append, push, poolVars, Executor!Accept
<1>3. CASE append_refused
  BY <1>3 DEF append_refused, push_refused, bqVars, poolVars, history
<1>4. ASSUME stop
      PROVE  Executor!Close
  BY <1>4 DEF stop, notify_exit, history, Inv, OwnerInv, Executor!Close
<1>5. ASSUME stop_joined
      PROVE  Executor!Closed
  <2>1. \A w \in Workers : task[w] = 0
    BY <1>5 DEF stop_joined, Inv, ThreadInv
  <2> QED
    BY <1>5, <2>1 DEF stop_joined, bqVars, history, Inv, OwnerInv, Executor!Closed
<1>6. ASSUME NEW w \in Workers, run_wait(w) \/ run_wakeup(w) \/ run_break(w)
      PROVE  UNCHANGED Executor!vars
  BY <1>6 DEF run_wait, pop_wait, run_wakeup, spurious_wakeup, run_break, pop_exit,
              bqVars, poolVars, history
<1>7. ASSUME NEW w \in Workers, run_pop(w)
      PROVE  Executor!Begin(w)
  <2>1. w \in threads_ /\ task[w] = 0
    BY <1>7 DEF run_pop, Inv, ThreadInv
  <2> QED
    BY <1>7, <2>1 DEF run_pop, pop_item, Executor!Begin
<1>8. ASSUME NEW w \in Workers, run_task(w)
      PROVE  Executor!End(w)
  BY <1>8 DEF run_task, bqVars, history, Inv, ThreadInv, Executor!End
<1>9. CASE UNCHANGED vars
  BY <1>9 DEF vars, bqVars, poolVars, history
<1> QED
  BY <1>1, <1>2, <1>3, <1>4, <1>5, <1>6, <1>7, <1>8, <1>9, NextCases DEF Executor!Next

\* The pool keeps the promise of TaskExecutor.
THEOREM PoolRefinesExecutor == Spec => ImplementsExecutor
<1>1. Init => Executor!Init
  BY DEF Init, BQInit, Executor!Init
<1> QED
  BY <1>1, ExecutorStep, Invariance, PTL DEF Spec, ImplementsExecutor, Executor!Spec
=============================================================================
