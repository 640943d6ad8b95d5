---------------------------- MODULE LockFreeQueue ----------------------------
(***************************************************************************)
(* code/LockFreeQueue.hpp: a linked queue for several producers and        *)
(* consumers, with one step per access to an atomic that others write.     *)
(*                                                                         *)
(* Nodes are numbered in the order of their allocation and an item is      *)
(* named by the node that holds it.  The code does follow pointers to      *)
(* nodes that were deleted: that is what NoUseAfterFree is about.  What    *)
(* the other properties say, they say of a heap that leaves a deleted node *)
(* as it is and hands out its memory no more.  On it a pointer that is     *)
(* equal to head_ or tail_ names the same node: the ABA problem, which the *)
(* untagged pointers of the code are open to, is excluded.                 *)
(*                                                                         *)
(* Atomics are sequentially consistent.  compare_exchange_weak may fail    *)
(* without a reason.                                                       *)
(***************************************************************************)
EXTENDS Integers, Sequences, FiniteSets

CONSTANTS
    Producers, Consumers,
    Bounds,    \* the arguments of init()
    Word,      \* size_t counts modulo Word
    MaxNodes   \* bound on nodes, the sentry included

Threads == Producers \cup Consumers
Null == 0
Nodes == 1..MaxNodes

ASSUME ThreadsAssumption == IsFiniteSet(Threads) /\ Producers \cap Consumers = {}
ASSUME BoundsAssumption == Bounds \subseteq Nat
\* The counter cannot run all the way round.
ASSUME WordAssumption ==
    /\ Word \in Nat /\ MaxNodes \in Nat \ {0}
    /\ \A max \in Bounds : MaxNodes + Cardinality(Threads) + max < Word

VARIABLES
    head_, tail_, count_, max_count_,
    next_,      \* of the nodes allocated so far
    freed,      \* the nodes that were deleted
    pc,         \* pc[t]: the next access of thread t
    old_head, old_tail, next_node,  \* the locals of push and pop, by thread
    mine,       \* new_node of a producer
    item,       \* what pop() read
    \* History, not part of the program:
    chain,      \* the nodes in the order in which they were linked, the sentry first
    taken,      \* the items pop() got, in the order in which head_ moved
    users,      \* the threads that have called push or pop
    spurious    \* some compare_exchange_weak failed without a reason

shared == <<head_, tail_, count_, max_count_, next_, freed>>
locals == <<old_head, old_tail, next_node, mine, item>>
history == <<chain, taken, users, spurious>>
vars == <<shared, pc, locals, history>>

Blank == [t \in Threads |-> Null]

\* The constructor, and init() before any thread uses the queue.
Init ==
    /\ head_ = 1 /\ tail_ = 1 /\ count_ = 0 /\ max_count_ \in Bounds
    /\ next_ = <<Null>> /\ freed = {}
    /\ pc = [t \in Threads |-> "idle"]
    /\ old_head = Blank /\ old_tail = Blank /\ next_node = Blank
    /\ mine = Blank /\ item = Blank
    /\ chain = <<1>> /\ taken = <<>>
    /\ users = {} /\ spurious = FALSE

\* Thread t makes its access of that name and goes on with the next one.
Go(t, from, to) == pc[t] = from /\ pc' = [pc EXCEPT ![t] = to]

Note(local, t, value) == local' = [local EXCEPT ![t] = value]

\* The locals of t are assigned again before they are read again.
Forget(t) ==
    /\ Note(old_head, t, Null) /\ Note(old_tail, t, Null)
    /\ Note(next_node, t, Null) /\ Note(item, t, Null)

\* tail_.compare_exchange_weak(expected, new): nobody looks at the outcome.
CompareExchangeTail(expected, new) ==
    \/ /\ tail_ = expected /\ tail_' = new
       /\ UNCHANGED spurious
    \/ /\ spurious' = (spurious \/ tail_ = expected)
       /\ UNCHANGED tail_

----------------------------------------------------------------------------
\* Variants, as a slip in the code would leave the operations.
pop_read_sentry(c) ==
    /\ Go(c, "pop_read", "pop_cas")
    /\ Note(item, c, old_head[c])
    /\ UNCHANGED <<shared, old_head, old_tail, next_node, mine, history>>

push_swing_forgotten(p) ==
    /\ Go(p, "push_swing", "push_count")
    /\ Forget(p)
    /\ UNCHANGED <<shared, mine, history>>

push_count_late(p) ==
    /\ Go(p, "push_count", "idle")
    /\ count_' = IF count_ < max_count_ \/ max_count_ = 0 THEN count_ + 1 ELSE count_
    /\ Note(mine, p, Null)
    /\ UNCHANGED <<head_, tail_, max_count_, next_, freed, old_head, old_tail, next_node,
                   item, history>>

full_off_by_one == max_count_ > 0 /\ max_count_ < count_

----------------------------------------------------------------------------
full == max_count_ > 0 /\ max_count_ <= count_
empty == count_ = 0

\* push() by producer p; if full() it returns false at once.  new returns memory
\* that no deleted node had.
push(p) ==
    /\ ~full /\ Len(next_) < MaxNodes
    /\ Go(p, "idle", "push_tail")
    /\ next_' = Append(next_, Null)
    /\ Note(mine, p, Len(next_) + 1)
    /\ users' = users \cup {p}
    /\ UNCHANGED <<head_, tail_, count_, max_count_, freed, old_head, old_tail, next_node,
                   item, chain, taken, spurious>>

push_tail(p) ==
    /\ Go(p, "push_tail", "push_next")
    /\ Note(old_tail, p, tail_)
    /\ UNCHANGED <<shared, old_head, next_node, mine, item, history>>

push_next(p) ==
    /\ Go(p, "push_next", "push_check")
    /\ Note(next_node, p, next_[old_tail[p]])
    /\ UNCHANGED <<shared, old_head, old_tail, mine, item, history>>

push_check(p) ==
    /\ \/ /\ old_tail[p] # tail_
          /\ Go(p, "push_check", "push_tail") /\ Forget(p)
       \/ /\ old_tail[p] = tail_ /\ next_node[p] # Null
          /\ Go(p, "push_check", "push_help") /\ UNCHANGED <<old_head, old_tail, next_node, item>>
       \/ /\ old_tail[p] = tail_ /\ next_node[p] = Null
          /\ Go(p, "push_check", "push_link") /\ UNCHANGED <<old_head, old_tail, next_node, item>>
    /\ UNCHANGED <<shared, mine, history>>

\* tail_ is moved on for the producer that has not done it yet.
push_help(p) ==
    /\ Go(p, "push_help", "push_tail")
    /\ CompareExchangeTail(old_tail[p], next_node[p])
    /\ Forget(p)
    /\ UNCHANGED <<head_, count_, max_count_, next_, freed, mine, chain, taken, users>>

push_link(p) ==
    /\ \/ /\ Go(p, "push_link", "push_swing")
          /\ next_[old_tail[p]] = Null
          /\ next_' = [next_ EXCEPT ![old_tail[p]] = mine[p]]
          /\ chain' = Append(chain, mine[p])
          /\ UNCHANGED <<locals, spurious>>
       \/ /\ Go(p, "push_link", "push_tail")
          /\ spurious' = (spurious \/ next_[old_tail[p]] = Null)
          /\ Forget(p)
          /\ UNCHANGED <<next_, chain>>
    /\ UNCHANGED <<head_, tail_, count_, max_count_, freed, mine, taken, users>>

push_swing(p) ==
    /\ Go(p, "push_swing", "push_count")
    /\ CompareExchangeTail(old_tail[p], mine[p])
    /\ Forget(p)
    /\ UNCHANGED <<head_, count_, max_count_, next_, freed, mine, chain, taken, users>>

push_count(p) ==
    /\ Go(p, "push_count", "idle")
    /\ count_' = (count_ + 1) % Word
    /\ Note(mine, p, Null)
    /\ UNCHANGED <<head_, tail_, max_count_, next_, freed, old_head, old_tail, next_node,
                   item, history>>

----------------------------------------------------------------------------
\* pop() by consumer c; if empty() it returns false at once.
pop(c) ==
    /\ ~empty
    /\ Go(c, "idle", "pop_head")
    /\ users' = users \cup {c}
    /\ UNCHANGED <<shared, locals, chain, taken, spurious>>

pop_head(c) ==
    /\ Go(c, "pop_head", "pop_tail")
    /\ Note(old_head, c, head_)
    /\ UNCHANGED <<shared, old_tail, next_node, mine, item, history>>

pop_tail(c) ==
    /\ Go(c, "pop_tail", "pop_next")
    /\ Note(old_tail, c, tail_)
    /\ UNCHANGED <<shared, old_head, next_node, mine, item, history>>

pop_next(c) ==
    /\ Go(c, "pop_next", "pop_check")
    /\ Note(next_node, c, next_[old_head[c]])
    /\ UNCHANGED <<shared, old_head, old_tail, mine, item, history>>

\* head_ has moved; nothing to pop (the call returns false); tail_ lags behind;
\* there is an item.
pop_check(c) ==
    /\ \/ /\ old_head[c] # head_
          /\ Go(c, "pop_check", "pop_head") /\ Forget(c)
       \/ /\ old_head[c] = head_ /\ old_head[c] = old_tail[c] /\ next_node[c] = Null
          /\ Go(c, "pop_check", "idle") /\ Forget(c)
       \/ /\ old_head[c] = head_ /\ old_head[c] = old_tail[c] /\ next_node[c] # Null
          /\ Go(c, "pop_check", "pop_help") /\ UNCHANGED <<old_head, old_tail, next_node, item>>
       \/ /\ old_head[c] = head_ /\ old_head[c] # old_tail[c]
          /\ Go(c, "pop_check", "pop_read") /\ UNCHANGED <<old_head, old_tail, next_node, item>>
    /\ UNCHANGED <<shared, mine, history>>

pop_help(c) ==
    /\ Go(c, "pop_help", "pop_head")
    /\ CompareExchangeTail(old_tail[c], next_node[c])
    /\ Forget(c)
    /\ UNCHANGED <<head_, count_, max_count_, next_, freed, mine, chain, taken, users>>

\* item = next_node->data_.
pop_read(c) ==
    /\ Go(c, "pop_read", "pop_cas")
    /\ Note(item, c, next_node[c])
    /\ UNCHANGED <<shared, old_head, old_tail, next_node, mine, history>>

pop_cas(c) ==
    /\ \/ /\ head_ = old_head[c]
          /\ Go(c, "pop_cas", "pop_delete")
          /\ head_' = next_node[c]
          /\ taken' = Append(taken, item[c])
          /\ Note(old_tail, c, Null) /\ Note(next_node, c, Null) /\ Note(item, c, Null)
          /\ UNCHANGED <<old_head, spurious>>
       \/ /\ Go(c, "pop_cas", "pop_head")
          /\ spurious' = (spurious \/ head_ = old_head[c])
          /\ Forget(c)
          /\ UNCHANGED <<head_, taken>>
    /\ UNCHANGED <<tail_, count_, max_count_, next_, freed, mine, chain, users>>

pop_delete(c) ==
    /\ Go(c, "pop_delete", "pop_count")
    /\ freed' = freed \cup {old_head[c]}
    /\ Forget(c)
    /\ UNCHANGED <<head_, tail_, count_, max_count_, next_, mine, history>>

pop_count(c) ==
    /\ Go(c, "pop_count", "idle")
    /\ count_' = (count_ - 1) % Word
    /\ UNCHANGED <<head_, tail_, max_count_, next_, freed, locals, history>>

----------------------------------------------------------------------------
Next ==
    \/ \E p \in Producers :
         \/ push(p) \/ push_tail(p) \/ push_next(p) \/ push_check(p) \/ push_help(p)
         \/ push_link(p) \/ push_swing(p) \/ push_count(p)
    \/ \E c \in Consumers :
         \/ pop(c) \/ pop_head(c) \/ pop_tail(c) \/ pop_next(c) \/ pop_check(c)
         \/ pop_help(c) \/ pop_read(c) \/ pop_cas(c) \/ pop_delete(c) \/ pop_count(c)

Spec == Init /\ [][Next]_vars

----------------------------------------------------------------------------
Labels == {"idle", "push_tail", "push_next", "push_check", "push_help", "push_link",
           "push_swing", "push_count", "pop_head", "pop_tail", "pop_next", "pop_check",
           "pop_help", "pop_read", "pop_cas", "pop_delete", "pop_count"}
Pointers == Nodes \cup {Null}

TypeOK ==
    /\ head_ \in Nodes /\ tail_ \in Nodes
    /\ count_ \in 0..(Word - 1) /\ max_count_ \in Bounds
    /\ next_ \in Seq(Pointers) /\ freed \subseteq Nodes
    /\ pc \in [Threads -> Labels]
    /\ \A local \in {old_head, old_tail, next_node, mine, item} :
           local \in [Threads -> Pointers]
    /\ chain \in Seq(Nodes) /\ taken \in Seq(Nodes)
    /\ users \subseteq Threads /\ spurious \in BOOLEAN

\* What is in the queue: what was linked behind head_.
Waiting == LET at == CHOOSE i \in DOMAIN chain : chain[i] = head_
           IN  SubSeq(chain, at + 1, Len(chain))

Fifo == INSTANCE FifoQueue WITH Values <- Nodes, items <- Waiting

\* The queue of several producers and consumers is a queue: an item goes in
\* when push() links its node and comes out when pop() moves head_, in the order
\* in which they went in, each once and none skipped.  This is so as long as no
\* memory is reused: if a node that pop() deleted comes back from new while a
\* thread still holds its address, compare_exchange_weak of that thread succeeds
\* on a head_ or tail_ that has been elsewhere in between (ABA), and items may
\* be linked out of order or dropped.
ImplementsFifo == Fifo!Spec

At(labels) == {t \in Threads : pc[t] \in labels}

\* count_ is the number of items, give or take the calls under way, and a pop()
\* that overtakes the push() of its item takes it below zero, to Word - 1.  So
\* it is right whenever no call is under way: no item is left uncounted, which
\* no pop() would find.
CountTracks ==
    count_ = (Len(Waiting) - Cardinality(At({"push_swing", "push_count"}))
                + Cardinality(At({"pop_delete", "pop_count"}))) % Word

\* full() is tested before the node is linked: every other producer may come in
\* between, and the queue holds that many items too many, but no more.
BoundOvershoot ==
    max_count_ > 0 => Len(Waiting) <= max_count_ + Cardinality(Producers) - 1

\* The node a thread is about to look into was not deleted.
NoUseAfterFree ==
    /\ \A t \in At({"push_next", "push_link"}) : old_tail[t] \notin freed
    /\ \A t \in At({"pop_next"}) : old_head[t] \notin freed
    /\ \A t \in At({"pop_read"}) : next_node[t] \notin freed

\* With one producer and one consumer, on a machine on which the weak
\* compare-exchange does not fail without a reason, no deleted node is touched.
SafeForOneEach ==
    (Cardinality(users \cap Producers) <= 1 /\ Cardinality(users \cap Consumers) <= 1
       /\ ~spurious) => NoUseAfterFree
=============================================================================
