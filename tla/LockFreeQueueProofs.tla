------------------------- MODULE LockFreeQueueProofs -------------------------
(***************************************************************************)
(* Proofs about LockFreeQueue, for every number of producers, consumers    *)
(* and nodes.                                                              *)
(*                                                                         *)
(* Everything rests on the list: the nodes that were ever linked form a    *)
(* chain without repetition in which each node points to the next one.     *)
(* head_ and tail_ are on it, head_ not past tail_, and both only move     *)
(* forwards.  A thread holds nodes it read from the list some time ago;    *)
(* PushOK and PopOK say what it still knows of them, and all of that       *)
(* survives whatever the other threads do (Rely).                          *)
(***************************************************************************)
EXTENDS LockFreeQueue, FiniteSetTheorems, SequenceTheorems, TLAPS

Elems(s) == {s[i] : i \in DOMAIN s}

\* Where n is in s.
Index(s, n) == CHOOSE i \in DOMAIN s : s[i] = n

\* The nodes of s are linked in that order by nx.
Linked(s, nx) ==
    /\ s # <<>>
    /\ \A i \in DOMAIN s : s[i] \in DOMAIN nx
    /\ \A i, j \in DOMAIN s : s[i] = s[j] => i = j
    /\ \A i \in DOMAIN s : nx[s[i]] = IF i = Len(s) THEN Null ELSE s[i + 1]

Unlinked == {"push_tail", "push_next", "push_check", "push_help", "push_link"}
Uncounted == {"push_swing", "push_count"}
PopLabels == {"pop_head", "pop_tail", "pop_next", "pop_check", "pop_help", "pop_read",
              "pop_cas", "pop_delete", "pop_count"}

\* What producer p knows.
PushOK(p) ==
    /\ pc[p] \in {"idle"} \cup Unlinked \cup Uncounted
    /\ pc[p] \in Unlinked =>
         mine[p] \in DOMAIN next_ /\ mine[p] \notin Elems(chain) /\ next_[mine[p]] = Null
    /\ pc[p] \in {"push_next", "push_check", "push_help", "push_link", "push_swing"} =>
         old_tail[p] \in Elems(chain)
    /\ pc[p] \in {"push_check", "push_help"} /\ next_node[p] # Null =>
         next_[old_tail[p]] = next_node[p]
    /\ pc[p] = "push_help" => next_node[p] # Null
    /\ pc[p] = "push_swing" => mine[p] # Null /\ next_[old_tail[p]] = mine[p]

\* What consumer c knows.
PopOK(c) ==
    /\ pc[c] \in {"idle"} \cup PopLabels
    /\ pc[c] \in {"pop_tail", "pop_next", "pop_check", "pop_help", "pop_read", "pop_cas"} =>
         /\ old_head[c] \in Elems(chain)
         /\ Index(chain, old_head[c]) <= Index(chain, head_)
    /\ pc[c] \in {"pop_next", "pop_check", "pop_help", "pop_read", "pop_cas"} =>
         /\ old_tail[c] \in Elems(chain)
         /\ Index(chain, old_head[c]) <= Index(chain, old_tail[c])
         /\ Index(chain, old_tail[c]) <= Index(chain, tail_)
    /\ pc[c] \in {"pop_check", "pop_help", "pop_read", "pop_cas"} =>
         /\ next_node[c] # Null => next_[old_head[c]] = next_node[c]
         /\ old_head[c] # old_tail[c] => next_node[c] # Null
    /\ pc[c] = "pop_help" => old_head[c] = old_tail[c] /\ next_node[c] # Null
    /\ pc[c] \in {"pop_read", "pop_cas"} => old_head[c] # old_tail[c]
    /\ pc[c] = "pop_cas" => item[c] = next_node[c]
    /\ pc[c] = "pop_delete" =>
         /\ old_head[c] \in Elems(chain)
         /\ Index(chain, old_head[c]) < Index(chain, head_)

ListInv ==
    /\ Linked(chain, next_)
    /\ head_ \in Elems(chain) /\ tail_ \in Elems(chain)
    /\ Index(chain, head_) <= Index(chain, tail_)

MineInv ==
    \A p, q \in Producers :
        p # q /\ pc[p] \in Unlinked /\ pc[q] \in Unlinked => mine[p] # mine[q]

ThreadInv ==
    /\ \A p \in Producers : PushOK(p)
    /\ \A c \in Consumers : PopOK(c)

Inv == TypeOK /\ ListInv /\ MineInv /\ ThreadInv

----------------------------------------------------------------------------
(***************************************************************************)
(* The list.                                                               *)
(***************************************************************************)
LEMMA IndexIn ==
    ASSUME NEW s \in Seq(Nodes), NEW n \in Elems(s)
    PROVE  Index(s, n) \in 1..Len(s) /\ s[Index(s, n)] = n
<1>1. \E i \in DOMAIN s : s[i] = n
  BY DEF Elems
<1>2. Index(s, n) \in DOMAIN s /\ s[Index(s, n)] = n
  BY <1>1 DEF Index
<1> QED
  BY <1>2

LEMMA IndexOf ==
    ASSUME NEW s \in Seq(Nodes), NEW nx, Linked(s, nx), NEW i \in 1..Len(s)
    PROVE  s[i] \in Elems(s) /\ Index(s, s[i]) = i
<1>1. DOMAIN s = 1..Len(s) /\ s[i] \in Elems(s)
  BY DEF Elems
<1>2. Index(s, s[i]) \in 1..Len(s) /\ s[Index(s, s[i])] = s[i]
  BY <1>1, IndexIn
<1> QED
  BY <1>1, <1>2 DEF Linked

\* Nodes at the same place are the same.
LEMMA IndexInjective ==
    ASSUME NEW s \in Seq(Nodes), NEW m \in Elems(s), NEW n \in Elems(s),
           Index(s, m) = Index(s, n)
    PROVE  m = n
  BY IndexIn

\* A node points to the next one, and only the last one to none.
LEMMA Successor ==
    ASSUME NEW s \in Seq(Nodes), NEW nx, Linked(s, nx), NEW n \in Elems(s)
    PROVE  /\ Index(s, n) \in 1..Len(s) /\ Len(s) \in Nat
           /\ nx[n] = Null <=> Index(s, n) = Len(s)
           /\ nx[n] # Null => /\ nx[n] \in Elems(s) /\ Index(s, nx[n]) = Index(s, n) + 1
                              /\ nx[n] = s[Index(s, n) + 1]
<1>0. PICK i \in 1..Len(s) : i = Index(s, n) /\ s[i] = n
  BY IndexIn
<1>1. i \in Nat /\ i >= 1 /\ i <= Len(s) /\ Len(s) \in Nat /\ DOMAIN s = 1..Len(s)
  OBVIOUS
<1>2. nx[n] = IF i = Len(s) THEN Null ELSE s[i + 1]
  BY <1>0, <1>1 DEF Linked
<1>3. ASSUME i # Len(s)
      PROVE  /\ i + 1 \in 1..Len(s) /\ s[i + 1] \in Nodes /\ s[i + 1] \in Elems(s)
             /\ Index(s, s[i + 1]) = i + 1
  <2>1. ASSUME NEW k \in Nat, i \in Nat, i >= 1, i <= k, i # k
        PROVE  i + 1 \in 1..k
    BY <2>1
  <2>2. i + 1 \in 1..Len(s)
    BY <1>1, <1>3, <2>1
  <2> QED
    BY <2>2, IndexOf
<1>4. Null \notin Nodes
  BY DEF Null, Nodes
<1> QED
  BY <1>0, <1>1, <1>2, <1>3, <1>4

\* A new node, which nobody points to yet.
LEMMA Allocate ==
    ASSUME NEW s \in Seq(Nodes), NEW nx \in Seq(Pointers), Linked(s, nx),
           NEW ny, ny = Append(nx, Null)
    PROVE  /\ ny \in Seq(Pointers) /\ Linked(s, ny)
           /\ Len(nx) + 1 \in DOMAIN ny /\ Len(nx) + 1 \notin DOMAIN nx
           /\ ny[Len(nx) + 1] = Null
           /\ \A n \in DOMAIN nx : n \in DOMAIN ny /\ ny[n] = nx[n]
           /\ \A n \in Elems(s) : n \in DOMAIN nx
<1>1. Null \in Pointers
  BY DEF Pointers
<1>2. /\ ny \in Seq(Pointers) /\ DOMAIN nx = 1..Len(nx) /\ DOMAIN ny = 1..(Len(nx) + 1)
      /\ Len(nx) \in Nat /\ ny[Len(nx) + 1] = Null
      /\ \A n \in 1..Len(nx) : ny[n] = nx[n]
  BY <1>1
<1>3. /\ Len(nx) + 1 \in DOMAIN ny /\ Len(nx) + 1 \notin DOMAIN nx
      /\ \A n \in DOMAIN nx : n \in DOMAIN ny /\ ny[n] = nx[n]
  BY <1>2
<1>4. Linked(s, ny)
  BY <1>3 DEF Linked
<1>5. \A n \in Elems(s) : n \in DOMAIN nx
  BY DEF Linked, Elems
<1> QED
  BY <1>2, <1>3, <1>4, <1>5

\* The compare-exchange of push(): the new node m goes behind the last one, o.
Linking(s, nx, o, m, u, ny) ==
    /\ s \in Seq(Nodes) /\ nx \in Seq(Pointers) /\ Linked(s, nx)
    /\ o \in Elems(s) /\ nx[o] = Null
    /\ m \in Nodes /\ m \in DOMAIN nx /\ m \notin Elems(s) /\ nx[m] = Null
    /\ ny = [nx EXCEPT ![o] = m] /\ u = Append(s, m)

LEMMA Link ==
    ASSUME NEW s, NEW nx, NEW o, NEW m, NEW u, NEW ny, Linking(s, nx, o, m, u, ny)
    PROVE  /\ u \in Seq(Nodes) /\ ny \in Seq(Pointers) /\ Linked(u, ny)
           /\ Elems(u) = Elems(s) \cup {m} /\ Len(u) = Len(s) + 1 /\ u[Len(u)] = m
           /\ \A n \in Elems(s) : Index(u, n) = Index(s, n)
           /\ Index(u, m) = Len(u) /\ Index(s, o) = Len(s)
           /\ Len(ny) = Len(nx) /\ DOMAIN ny = DOMAIN nx /\ ny[o] = m
           /\ \A n \in DOMAIN nx : n # o => ny[n] = nx[n]
<1> USE DEF Linking
<1> DEFINE k == Len(s)
<1>1. /\ k \in Nat /\ DOMAIN s = 1..k /\ DOMAIN u = 1..(k + 1) /\ Len(u) = k + 1
      /\ \A i \in 1..k : u[i] = s[i]
      /\ u[k + 1] = m /\ u \in Seq(Nodes)
  OBVIOUS
<1>2. Index(s, o) = k /\ k \in 1..k /\ s[k] = o
  BY Successor, IndexIn
<1>3. o \in DOMAIN nx
  BY <1>1, <1>2 DEF Linked
<1>4. /\ ny \in Seq(Pointers) /\ Len(ny) = Len(nx) /\ DOMAIN ny = DOMAIN nx /\ ny[o] = m
      /\ \A n \in DOMAIN nx : n # o => ny[n] = nx[n]
  <2>1. m \in Pointers
    BY DEF Pointers
  <2> QED
    BY <1>3, <2>1
<1> HIDE DEF k
<1>5. Elems(u) = Elems(s) \cup {m}
  <2>1. \A y \in Elems(u) : y \in Elems(s) \cup {m}
    BY <1>1 DEF Elems
  <2>2. \A y \in Elems(s) : y \in Elems(u)
    BY <1>1 DEF Elems
  <2>3. k + 1 \in DOMAIN u
    BY <1>1
  <2>4. m \in Elems(u)
    BY <1>1, <2>3 DEF Elems
  <2> QED
    BY <2>1, <2>2, <2>4
<1>6. Linked(u, ny)
  <2>1. u # <<>>
    BY <1>1
  <2>2. ASSUME NEW i \in DOMAIN u
        PROVE  u[i] \in DOMAIN ny
    BY <1>1, <1>4 DEF Linked
  <2>3. ASSUME NEW i \in DOMAIN u, NEW j \in DOMAIN u, u[i] = u[j]
        PROVE  i = j
    <3>1. \A h \in 1..k : s[h] # m
      BY <1>1 DEF Elems
    <3>2. i \in 1..k \/ i = k + 1
      BY <1>1
    <3>3. j \in 1..k \/ j = k + 1
      BY <1>1
    <3> QED
      BY <1>1, <2>3, <3>1, <3>2, <3>3 DEF Linked
  <2>4. ASSUME NEW i \in DOMAIN u
        PROVE  ny[u[i]] = IF i = Len(u) THEN Null ELSE u[i + 1]
    <3>1. CASE i = k + 1
      <4>1. m # o
        OBVIOUS
      <4> QED
        BY <1>1, <1>4, <3>1, <4>1
    <3>2. CASE i = k
      BY <1>1, <1>2, <1>4, <3>2
    <3>3. CASE i \in 1..k /\ i # k
      <4>1. i \in DOMAIN s /\ i + 1 \in 1..k /\ i # k + 1 /\ s[i] # o
        BY <1>1, <1>2, <3>3 DEF Linked
      <4>2. s[i] \in DOMAIN nx /\ nx[s[i]] = s[i + 1]
        BY <1>1, <3>3, <4>1 DEF Linked, k
      <4> QED
        BY <1>1, <1>4, <3>3, <4>1, <4>2
    <3> QED
      BY <1>1, <3>1, <3>2, <3>3
  <2> QED
    BY <2>1, <2>2, <2>3, <2>4 DEF Linked
<1>7. ASSUME NEW n \in Elems(s)
      PROVE  Index(u, n) = Index(s, n)
  <2>1. Index(s, n) \in 1..k /\ s[Index(s, n)] = n
    BY <1>1, IndexIn DEF k
  <2>2. Index(s, n) \in 1..Len(u) /\ u[Index(s, n)] = n
    BY <1>1, <2>1
  <2> QED
    BY <1>1, <1>6, <2>2, IndexOf
<1>8. Index(u, m) = Len(u)
  <2>1. Len(u) \in 1..Len(u) /\ u[Len(u)] = m
    BY <1>1
  <2> QED
    BY <1>1, <1>6, <2>1, IndexOf
<1> QED
  BY <1>1, <1>2, <1>4, <1>5, <1>6, <1>7, <1>8 DEF k

----------------------------------------------------------------------------
(***************************************************************************)
(* The steps of the threads.                                               *)
(***************************************************************************)
LEMMA NextCases ==
    ASSUME Next
    PROVE  \/ \E p \in Producers : push(p)
           \/ \E p \in Producers : push_tail(p)
           \/ \E p \in Producers : push_next(p)
           \/ \E p \in Producers : push_check(p)
           \/ \E p \in Producers : push_help(p)
           \/ \E p \in Producers : push_link(p)
           \/ \E p \in Producers : push_swing(p)
           \/ \E p \in Producers : push_count(p)
           \/ \E c \in Consumers : pop(c)
           \/ \E c \in Consumers : pop_head(c)
           \/ \E c \in Consumers : pop_tail(c)
           \/ \E c \in Consumers : pop_next(c)
           \/ \E c \in Consumers : pop_check(c)
           \/ \E c \in Consumers : pop_help(c)
           \/ \E c \in Consumers : pop_read(c)
           \/ \E c \in Consumers : pop_cas(c)
           \/ \E c \in Consumers : pop_delete(c)
           \/ \E c \in Consumers : pop_count(c)
  BY DEF Next

LEMMA Kinds ==
    /\ \A p \in Producers : p \in Threads /\ p \notin Consumers
    /\ \A c \in Consumers : c \in Threads /\ c \notin Producers
    /\ \A t \in Threads : t \in Producers \/ t \in Consumers
  BY ThreadsAssumption DEF Threads

LEMMA WordPositive ==
    ASSUME TypeOK
    PROVE  /\ Word \in Nat /\ Word > 0 /\ max_count_ \in Nat /\ MaxNodes \in Nat
           /\ Cardinality(Threads) \in Nat
           /\ MaxNodes + Cardinality(Threads) + max_count_ < Word
<1>1. Cardinality(Threads) \in Nat
  BY ThreadsAssumption, FS_CardinalityType
<1>2. max_count_ \in Bounds /\ max_count_ \in Nat
  BY BoundsAssumption DEF TypeOK
<1> QED
  BY <1>1, <1>2, WordAssumption

LEMMA Locals ==
    ASSUME TypeOK
    PROVE  /\ pc \in [Threads -> Labels]
           /\ old_head \in [Threads -> Pointers] /\ old_tail \in [Threads -> Pointers]
           /\ next_node \in [Threads -> Pointers] /\ mine \in [Threads -> Pointers]
           /\ item \in [Threads -> Pointers]
           /\ chain \in Seq(Nodes) /\ next_ \in Seq(Pointers)
  BY DEF TypeOK

LEMMA NullPointer == Null \in Pointers /\ Null \notin Nodes /\ Nodes \subseteq Pointers
  BY DEF Null, Pointers, Nodes

\* The chain is a part of the heap.
LEMMA OnChain ==
    ASSUME TypeOK, ListInv, NEW n \in Elems(chain)
    PROVE  n \in Nodes /\ n \in DOMAIN next_ /\ next_[n] \in Pointers
<1>1. n \in DOMAIN next_ /\ n \in Nodes
  BY DEF ListInv, Linked, Elems, TypeOK
<1> QED
  BY <1>1 DEF TypeOK

LEMMA PcType ==
    ASSUME TypeOK, NEW t \in Threads, NEW from, NEW to \in Labels, Go(t, from, to)
    PROVE  /\ pc' \in [Threads -> Labels] /\ pc'[t] = to /\ pc[t] = from
           /\ \A u \in Threads \ {t} : pc'[u] = pc[u]
  BY DEF TypeOK, Go

LEMMA NoteType ==
    ASSUME NEW f \in [Threads -> Pointers], NEW t \in Threads, NEW v \in Pointers,
           NEW g, g = [f EXCEPT ![t] = v]
    PROVE  /\ g \in [Threads -> Pointers] /\ g[t] = v
           /\ \A u \in Threads \ {t} : g[u] = f[u]
  OBVIOUS

\* What a thread holds is its own.
Same(t) ==
    /\ pc'[t] = pc[t] /\ old_head'[t] = old_head[t] /\ old_tail'[t] = old_tail[t]
    /\ next_node'[t] = next_node[t] /\ mine'[t] = mine[t] /\ item'[t] = item[t]

LEMMA OthersSame ==
    ASSUME TypeOK, NEW t \in Threads,
           \/ push(t) \/ push_tail(t) \/ push_next(t) \/ push_check(t) \/ push_help(t)
           \/ push_link(t) \/ push_swing(t) \/ push_count(t)
           \/ pop(t) \/ pop_head(t) \/ pop_tail(t) \/ pop_next(t) \/ pop_check(t)
           \/ pop_help(t) \/ pop_read(t) \/ pop_cas(t) \/ pop_delete(t) \/ pop_count(t),
           NEW u \in Threads \ {t}
    PROVE  Same(u)
<1> USE Locals DEF Same, Go, Note, Forget, locals
<1>1. CASE push(t)
  BY <1>1 DEF push
<1>2. CASE push_tail(t)
  BY <1>2 DEF push_tail
<1>3. CASE push_next(t)
  BY <1>3 DEF push_next
<1>4. CASE push_check(t)
  BY <1>4 DEF push_check
<1>5. CASE push_help(t)
  BY <1>5 DEF push_help
<1>6. CASE push_link(t)
  BY <1>6 DEF push_link
<1>7. CASE push_swing(t)
  BY <1>7 DEF push_swing
<1>8. CASE push_count(t)
  BY <1>8 DEF push_count
<1>9. CASE pop(t)
  BY <1>9 DEF pop
<1>10. CASE pop_head(t)
  BY <1>10 DEF pop_head
<1>11. CASE pop_tail(t)
  BY <1>11 DEF pop_tail
<1>12. CASE pop_next(t)
  BY <1>12 DEF pop_next
<1>13. CASE pop_check(t)
  BY <1>13 DEF pop_check
<1>14. CASE pop_help(t)
  BY <1>14 DEF pop_help
<1>15. CASE pop_read(t)
  BY <1>15 DEF pop_read
<1>16. CASE pop_cas(t)
  BY <1>16 DEF pop_cas
<1>17. CASE pop_delete(t)
  BY <1>17 DEF pop_delete
<1>18. CASE pop_count(t)
  BY <1>18 DEF pop_count
<1> QED
  BY <1>1, <1>2, <1>3, <1>4, <1>5, <1>6, <1>7, <1>8, <1>9, <1>10, <1>11, <1>12, <1>13,
     <1>14, <1>15, <1>16, <1>17, <1>18

LEMMA InvInit == Init => Inv
<1> SUFFICES ASSUME Init
             PROVE  Inv
  OBVIOUS
<1>0. 1 \in Nodes /\ Null \in Pointers /\ Null \in Nat
  BY WordAssumption DEF Nodes, Pointers, Null
<1>1. TypeOK
  <2>1. \A local \in {old_head, old_tail, next_node, mine, item} :
            local \in [Threads -> Pointers]
    BY <1>0 DEF Init, Blank
  <2>2. pc \in [Threads -> Labels]
    BY DEF Init, Labels
  <2>3. next_ \in Seq(Pointers) /\ chain \in Seq(Nodes) /\ taken \in Seq(Nodes)
    BY <1>0 DEF Init
  <2>4. count_ \in 0..(Word - 1)
    <3>1. max_count_ \in Bounds /\ max_count_ \in Nat /\ Cardinality(Threads) \in Nat
      BY BoundsAssumption, ThreadsAssumption, FS_CardinalityType DEF Init
    <3>2. Word \in Nat /\ Word > 0
      BY <3>1, WordAssumption
    <3> QED
      BY <3>2 DEF Init
  <2> QED
    BY <1>0, <2>1, <2>2, <2>3, <2>4 DEF Init, TypeOK
<1>2. ListInv
  <2>1. /\ chain = <<1>> /\ next_ = <<Null>> /\ DOMAIN chain = {1} /\ DOMAIN next_ = {1}
        /\ Len(chain) = 1 /\ head_ = 1 /\ tail_ = 1
    BY DEF Init
  <2>2. Linked(chain, next_)
    BY <2>1 DEF Linked
  <2>3. 1 \in Elems(chain)
    BY <2>1 DEF Elems
  <2>4. Index(chain, 1) \in 1..Len(chain)
    BY <1>1, <2>3, IndexIn DEF TypeOK
  <2> QED
    BY <2>1, <2>2, <2>3, <2>4 DEF ListInv
<1>3. \A t \in Threads : pc[t] = "idle"
  BY DEF Init
<1>4. MineInv /\ ThreadInv
  BY <1>3, Kinds DEF MineInv, ThreadInv, PushOK, PopOK, Unlinked
<1> QED
  BY <1>1, <1>2, <1>4 DEF Inv

LEMMA AppendNode ==
    ASSUME NEW s \in Seq(Nodes), NEW n \in Nodes
    PROVE  Append(s, n) \in Seq(Nodes)
  OBVIOUS

\* Every thread that reads a pointer of a node reads it from a node of the list.
LEMMA Reads ==
    ASSUME Inv
    PROVE  /\ \A p \in Producers :
                pc[p] \in {"push_next", "push_link"} =>
                  old_tail[p] \in Elems(chain) /\ next_[old_tail[p]] \in Pointers
           /\ \A c \in Consumers :
                pc[c] = "pop_next" =>
                  old_head[c] \in Elems(chain) /\ next_[old_head[c]] \in Pointers
           /\ \A p \in Producers :
                /\ pc[p] = "push_help" => next_node[p] \in Nodes
                /\ pc[p] \in {"push_link", "push_swing"} => mine[p] \in Nodes
           /\ \A c \in Consumers :
                pc[c] \in {"pop_help", "pop_read", "pop_cas"} =>
                  /\ next_node[c] \in Nodes /\ next_node[c] # Null
                  /\ old_head[c] \in Elems(chain) /\ next_[old_head[c]] = next_node[c]
           /\ \A c \in Consumers : pc[c] = "pop_delete" => old_head[c] \in Nodes
<1> USE DEF Inv, ThreadInv
<1>1. \A n \in Elems(chain) : n \in Nodes /\ next_[n] \in Pointers
  BY OnChain
<1>2. \A n \in Pointers : n # Null => n \in Nodes
  BY DEF Pointers
<1>3. ASSUME NEW p \in Producers
      PROVE  /\ pc[p] = "push_help" => next_node[p] \in Nodes
             /\ pc[p] = "push_swing" => mine[p] \in Nodes
  BY <1>2, Locals, Kinds DEF PushOK
<1>4. ASSUME NEW p \in Producers, pc[p] = "push_link"
      PROVE  mine[p] \in Nodes
  <2>1. mine[p] \in DOMAIN next_ /\ mine[p] \in Pointers
    BY <1>4, Locals, Kinds DEF PushOK, Unlinked
  <2>2. 0 \notin DOMAIN next_
    BY Locals
  <2> QED
    BY <1>2, <2>1, <2>2 DEF Null
<1>5. ASSUME NEW c \in Consumers, pc[c] \in {"pop_help", "pop_read", "pop_cas"}
      PROVE  /\ next_node[c] \in Nodes /\ next_node[c] # Null
             /\ old_head[c] \in Elems(chain) /\ next_[old_head[c]] = next_node[c]
  BY <1>2, <1>5, Locals, Kinds DEF PopOK
<1>6. ASSUME NEW p \in Producers, pc[p] \in {"push_next", "push_link"}
      PROVE  old_tail[p] \in Elems(chain)
  BY <1>6 DEF PushOK
<1>7. ASSUME NEW c \in Consumers
      PROVE  pc[c] \in {"pop_next", "pop_delete"} => old_head[c] \in Elems(chain)
  BY DEF PopOK
<1> QED
  BY <1>1, <1>3, <1>4, <1>5, <1>6, <1>7

LEMMA TypeStep == Inv /\ [Next]_vars => TypeOK'
<1> SUFFICES ASSUME Inv, [Next]_vars
             PROVE  TypeOK'
  OBVIOUS
<1>0. TypeOK /\ Null \in Pointers /\ Nodes \subseteq Pointers /\ Word \in Nat /\ Word > 0
  BY NullPointer, WordPositive DEF Inv
<1> DEFINE Shared == /\ head_' \in Nodes /\ tail_' \in Nodes
                     /\ count_' \in 0..(Word - 1) /\ max_count_' \in Bounds
                     /\ next_' \in Seq(Pointers) /\ freed' \subseteq Nodes
           Local == /\ pc' \in [Threads -> Labels]
                    /\ old_head' \in [Threads -> Pointers]
                    /\ old_tail' \in [Threads -> Pointers]
                    /\ next_node' \in [Threads -> Pointers]
                    /\ mine' \in [Threads -> Pointers]
                    /\ item' \in [Threads -> Pointers]
           History == /\ chain' \in Seq(Nodes) /\ taken' \in Seq(Nodes)
                      /\ users' \subseteq Threads /\ spurious' \in BOOLEAN
<1>1. Shared /\ Local /\ History => TypeOK'
  BY DEF TypeOK
<1>2. ASSUME UNCHANGED <<head_, tail_, count_, max_count_, next_, freed>>
      PROVE  Shared
  BY <1>0, <1>2 DEF TypeOK
<1>3. ASSUME UNCHANGED <<chain, taken, users, spurious>>
      PROVE  History
  BY <1>0, <1>3 DEF TypeOK
<1>4. ASSUME NEW t \in Threads, NEW from, NEW to \in Labels, Go(t, from, to)
      PROVE  pc' \in [Threads -> Labels]
  BY <1>0, <1>4, PcType
<1>5. ASSUME NEW t \in Threads, Forget(t)
      PROVE  /\ old_head' \in [Threads -> Pointers] /\ old_tail' \in [Threads -> Pointers]
             /\ next_node' \in [Threads -> Pointers] /\ item' \in [Threads -> Pointers]
  BY <1>0, <1>5, Locals DEF Forget, Note
<1>6. ASSUME NEW expected, NEW new \in Nodes, CompareExchangeTail(expected, new)
      PROVE  tail_' \in Nodes /\ spurious' \in BOOLEAN
  BY <1>0, <1>6 DEF CompareExchangeTail, TypeOK
<1> USE <1>0, Locals, Kinds DEF Labels
<1>7. ASSUME NEW p \in Producers, push(p)
      PROVE  TypeOK'
  <2>1. Len(next_) + 1 \in Pointers /\ next_' \in Seq(Pointers)
    BY <1>7, WordPositive DEF push, Pointers, Nodes
  <2>2. Local
    BY <1>7, <2>1 DEF push, Go, Note
  <2>3. Shared
    BY <1>7, <2>1 DEF push, TypeOK
  <2>4. History
    BY <1>7 DEF push, TypeOK
  <2> QED
    BY <1>1, <2>2, <2>3, <2>4
<1>8. ASSUME NEW p \in Producers, push_tail(p)
      PROVE  TypeOK'
  <2>1. tail_ \in Pointers
    BY DEF TypeOK
  <2>2. Local
    BY <1>8, <2>1 DEF push_tail, Go, Note
  <2> QED
    BY <1>1, <1>2, <1>3, <1>8, <2>2 DEF push_tail, shared, history
<1>9. ASSUME NEW p \in Producers, push_next(p)
      PROVE  TypeOK'
  <2>1. next_[old_tail[p]] \in Pointers
    BY <1>9, Reads DEF push_next, Go
  <2>2. Local
    BY <1>9, <2>1 DEF push_next, Go, Note
  <2> QED
    BY <1>1, <1>2, <1>3, <1>9, <2>2 DEF push_next, shared, history
<1>10. ASSUME NEW p \in Producers, push_check(p)
       PROVE  TypeOK'
  <2>1. Local
    BY <1>4, <1>5, <1>10 DEF push_check
  <2> QED
    BY <1>1, <1>2, <1>3, <1>10, <2>1 DEF push_check, shared, history
<1>11. ASSUME NEW p \in Producers, push_help(p)
       PROVE  TypeOK'
  <2>1. next_node[p] \in Nodes
    BY <1>11, Reads DEF push_help, Go
  <2>2. tail_' \in Nodes /\ spurious' \in BOOLEAN
    BY <1>6, <1>11, <2>1 DEF push_help
  <2>3. Local
    BY <1>4, <1>5, <1>11 DEF push_help
  <2> QED
    BY <1>1, <1>11, <2>2, <2>3 DEF push_help, TypeOK
<1>12. ASSUME NEW p \in Producers, push_link(p)
       PROVE  TypeOK'
  <2>1. mine[p] \in Nodes /\ old_tail[p] \in Elems(chain)
    BY <1>12, Reads DEF push_link, Go
  <2>2. next_' \in Seq(Pointers) /\ chain' \in Seq(Nodes) /\ spurious' \in BOOLEAN
    <3>1. old_tail[p] \in DOMAIN next_
      BY <2>1, OnChain DEF Inv
    <3>2. mine[p] \in Pointers /\ chain \in Seq(Nodes) /\ spurious \in BOOLEAN
      BY DEF TypeOK
    <3>3. /\ next_' = next_ \/ next_' = [next_ EXCEPT ![old_tail[p]] = mine[p]]
          /\ chain' = chain \/ chain' = Append(chain, mine[p])
      BY <1>12 DEF push_link
    <3>4. spurious' \in BOOLEAN
      BY <1>12, <3>2 DEF push_link
    <3>5. chain' \in Seq(Nodes)
      BY <2>1, <3>2, <3>3, AppendNode
    <3>6. next_' \in Seq(Pointers)
      BY <3>1, <3>2, <3>3
    <3> QED
      BY <3>4, <3>5, <3>6
  <2>3. Local
    BY <1>4, <1>5, <1>12 DEF push_link, locals
  <2> QED
    BY <1>1, <1>12, <2>2, <2>3 DEF push_link, TypeOK
<1>13. ASSUME NEW p \in Producers, push_swing(p)
       PROVE  TypeOK'
  <2>1. mine[p] \in Nodes
    BY <1>13, Reads DEF push_swing, Go
  <2>2. tail_' \in Nodes /\ spurious' \in BOOLEAN
    BY <1>6, <1>13, <2>1 DEF push_swing
  <2>3. Local
    BY <1>4, <1>5, <1>13 DEF push_swing
  <2> QED
    BY <1>1, <1>13, <2>2, <2>3 DEF push_swing, TypeOK
<1>14. ASSUME NEW p \in Producers, push_count(p)
       PROVE  TypeOK'
  <2>1. count_' \in 0..(Word - 1)
    BY <1>14 DEF push_count, TypeOK
  <2>2. Local
    BY <1>14 DEF push_count, Go, Note
  <2> QED
    BY <1>1, <1>3, <1>14, <2>1, <2>2 DEF push_count, history, TypeOK
<1>15. ASSUME NEW c \in Consumers, pop(c)
       PROVE  TypeOK'
  <2>1. Local
    BY <1>4, <1>15 DEF pop, locals
  <2>2. History
    BY <1>15 DEF pop, TypeOK
  <2> QED
    BY <1>1, <1>2, <1>15, <2>1, <2>2 DEF pop, shared
<1>16. ASSUME NEW c \in Consumers, pop_head(c)
       PROVE  TypeOK'
  <2>1. head_ \in Pointers
    BY DEF TypeOK
  <2>2. Local
    BY <1>16, <2>1 DEF pop_head, Go, Note
  <2> QED
    BY <1>1, <1>2, <1>3, <1>16, <2>2 DEF pop_head, shared, history
<1>17. ASSUME NEW c \in Consumers, pop_tail(c)
       PROVE  TypeOK'
  <2>1. tail_ \in Pointers
    BY DEF TypeOK
  <2>2. Local
    BY <1>17, <2>1 DEF pop_tail, Go, Note
  <2> QED
    BY <1>1, <1>2, <1>3, <1>17, <2>2 DEF pop_tail, shared, history
<1>18. ASSUME NEW c \in Consumers, pop_next(c)
       PROVE  TypeOK'
  <2>1. next_[old_head[c]] \in Pointers
    BY <1>18, Reads DEF pop_next, Go
  <2>2. Local
    BY <1>18, <2>1 DEF pop_next, Go, Note
  <2> QED
    BY <1>1, <1>2, <1>3, <1>18, <2>2 DEF pop_next, shared, history
<1>19. ASSUME NEW c \in Consumers, pop_check(c)
       PROVE  TypeOK'
  <2>1. Local
    BY <1>4, <1>5, <1>19 DEF pop_check
  <2> QED
    BY <1>1, <1>2, <1>3, <1>19, <2>1 DEF pop_check, shared, history
<1>20. ASSUME NEW c \in Consumers, pop_help(c)
       PROVE  TypeOK'
  <2>1. next_node[c] \in Nodes
    BY <1>20, Reads DEF pop_help, Go
  <2>2. tail_' \in Nodes /\ spurious' \in BOOLEAN
    BY <1>6, <1>20, <2>1 DEF pop_help
  <2>3. Local
    BY <1>4, <1>5, <1>20 DEF pop_help
  <2> QED
    BY <1>1, <1>20, <2>2, <2>3 DEF pop_help, TypeOK
<1>21. ASSUME NEW c \in Consumers, pop_read(c)
       PROVE  TypeOK'
  <2>1. Local
    BY <1>21 DEF pop_read, Go, Note
  <2> QED
    BY <1>1, <1>2, <1>3, <1>21, <2>1 DEF pop_read, shared, history
<1>22. ASSUME NEW c \in Consumers, pop_cas(c)
       PROVE  TypeOK'
  <2>1. next_node[c] \in Nodes /\ item[c] = next_node[c]
    <3>1. pc[c] = "pop_cas"
      BY <1>22 DEF pop_cas, Go
    <3>2. item[c] = next_node[c]
      BY <3>1 DEF Inv, ThreadInv, PopOK
    <3> QED
      BY <3>1, <3>2, Reads
  <2>2. head_' \in Nodes /\ taken' \in Seq(Nodes) /\ spurious' \in BOOLEAN
    <3>1. head_ \in Nodes /\ taken \in Seq(Nodes) /\ spurious \in BOOLEAN
      BY DEF TypeOK
    <3>2. taken' = taken \/ taken' = Append(taken, item[c])
      BY <1>22 DEF pop_cas
    <3>3. head_' \in Nodes /\ spurious' \in BOOLEAN
      BY <1>22, <2>1, <3>1 DEF pop_cas
    <3>4. taken' \in Seq(Nodes)
      BY <2>1, <3>1, <3>2, AppendNode
    <3> QED
      BY <3>3, <3>4
  <2>3. Local
    <3>1. pc' \in [Threads -> Labels]
      BY <1>4, <1>22 DEF pop_cas
    <3>2. CASE Forget(c)
      BY <1>5, <1>22, <3>1, <3>2 DEF pop_cas
    <3>3. CASE /\ Note(old_tail, c, Null) /\ Note(next_node, c, Null)
               /\ Note(item, c, Null) /\ old_head' = old_head
      BY <1>22, <3>1, <3>3 DEF pop_cas, Note
    <3> QED
      BY <1>22, <3>2, <3>3 DEF pop_cas
  <2> QED
    BY <1>1, <1>22, <2>2, <2>3 DEF pop_cas, TypeOK
<1>23. ASSUME NEW c \in Consumers, pop_delete(c)
       PROVE  TypeOK'
  <2>1. old_head[c] \in Nodes
    BY <1>23, Reads DEF pop_delete, Go
  <2>2. Local
    BY <1>4, <1>5, <1>23 DEF pop_delete
  <2> QED
    BY <1>1, <1>3, <1>23, <2>1, <2>2 DEF pop_delete, history, TypeOK
<1>24. ASSUME NEW c \in Consumers, pop_count(c)
       PROVE  TypeOK'
  <2>1. count_' \in 0..(Word - 1)
    BY <1>24 DEF pop_count, TypeOK
  <2>2. Local
    BY <1>4, <1>24 DEF pop_count, locals
  <2> QED
    BY <1>1, <1>3, <1>24, <2>1, <2>2 DEF pop_count, history, TypeOK
<1>25. CASE UNCHANGED vars
  BY <1>1, <1>2, <1>3, <1>25 DEF vars, shared, locals, history
<1> QED
  BY <1>7, <1>8, <1>9, <1>10, <1>11, <1>12, <1>13, <1>14, <1>15, <1>16, <1>17, <1>18,
     <1>19, <1>20, <1>21, <1>22, <1>23, <1>24, <1>25, NextCases

----------------------------------------------------------------------------
(***************************************************************************)
(* What a step of one thread does to the list.                             *)
(***************************************************************************)
Rely ==
    /\ \A n \in Elems(chain) :
         /\ n \in Elems(chain') /\ Index(chain', n) = Index(chain, n)
         /\ next_[n] # Null => next_'[n] = next_[n]
    /\ Index(chain, head_) <= Index(chain', head_')
    /\ Index(chain, tail_) <= Index(chain', tail_')

\* Places on the list are numbers.
LEMMA Places ==
    ASSUME TypeOK, ListInv
    PROVE  /\ Len(chain) \in Nat
           /\ \A n \in Elems(chain) : Index(chain, n) \in Nat /\ Index(chain, n) <= Len(chain)
                                        /\ Index(chain, n) >= 1
           /\ Index(chain, head_) \in Nat /\ Index(chain, tail_) \in Nat
<1>1. \A n \in Elems(chain) : Index(chain, n) \in 1..Len(chain)
  BY Locals, IndexIn
<1> QED
  BY <1>1, Locals DEF ListInv

\* tail_ moves to the next node, or stays.
LEMMA TailMoves ==
    ASSUME Inv, NEW o \in Elems(chain), NEW m, m # Null, next_[o] = m,
           CompareExchangeTail(o, m), UNCHANGED <<head_, next_, chain>>
    PROVE  ListInv' /\ Rely
<1>1. /\ Linked(chain, next_) /\ chain \in Seq(Nodes)
      /\ head_ \in Elems(chain) /\ tail_ \in Elems(chain)
      /\ Index(chain, head_) <= Index(chain, tail_)
      /\ Index(chain, head_) \in Nat /\ Index(chain, tail_) \in Nat
  BY Locals, Places DEF Inv, ListInv
<1>2. m \in Elems(chain) /\ Index(chain, m) = Index(chain, o) + 1
  BY <1>1, Successor
<1>3. CASE tail_' = tail_
  BY <1>1, <1>3 DEF ListInv, Rely
<1>4. CASE tail_ = o /\ tail_' = m
  <2>1. tail_' \in Elems(chain) /\ Index(chain, tail_') = Index(chain, tail_) + 1
    BY <1>2, <1>4
  <2> QED
    BY <1>1, <2>1 DEF ListInv, Rely
<1> QED
  BY <1>3, <1>4 DEF CompareExchangeTail

\* push() links its node behind the last one, or has to look again.
LEMMA PushLinks ==
    ASSUME Inv, NEW p \in Producers, push_link(p)
    PROVE  \/ /\ Linking(chain, next_, old_tail[p], mine[p], chain', next_')
              /\ pc' = [pc EXCEPT ![p] = "push_swing"]
              /\ UNCHANGED <<locals, spurious>>
           \/ /\ UNCHANGED <<chain, next_>> /\ Forget(p)
              /\ pc' = [pc EXCEPT ![p] = "push_tail"]
              /\ spurious' = (spurious \/ next_[old_tail[p]] = Null)
<1>1. CASE /\ next_[old_tail[p]] = Null /\ chain' = Append(chain, mine[p])
           /\ next_' = [next_ EXCEPT ![old_tail[p]] = mine[p]]
           /\ pc' = [pc EXCEPT ![p] = "push_swing"]
           /\ UNCHANGED <<locals, spurious>>
  <2>1. /\ old_tail[p] \in Elems(chain) /\ mine[p] \in DOMAIN next_
        /\ mine[p] \notin Elems(chain) /\ next_[mine[p]] = Null
    BY DEF push_link, Go, Inv, ThreadInv, PushOK, Unlinked
  <2>2. mine[p] \in Nodes
    BY Reads DEF push_link, Go
  <2>3. Linking(chain, next_, old_tail[p], mine[p], chain', next_')
    BY <1>1, <2>1, <2>2, Locals DEF Linking, Inv, ListInv
  <2> QED
    BY <1>1, <2>3
<1>2. CASE /\ UNCHANGED <<chain, next_>> /\ Forget(p)
           /\ pc' = [pc EXCEPT ![p] = "push_tail"]
           /\ spurious' = (spurious \/ next_[old_tail[p]] = Null)
  BY <1>2
<1> QED
  BY <1>1, <1>2 DEF push_link, Go

LEMMA ListStep == Inv /\ [Next]_vars => ListInv' /\ Rely
<1> SUFFICES ASSUME Inv, [Next]_vars
             PROVE  ListInv' /\ Rely
  OBVIOUS
<1>0. /\ TypeOK /\ ListInv /\ Linked(chain, next_)
      /\ chain \in Seq(Nodes) /\ next_ \in Seq(Pointers)
      /\ head_ \in Elems(chain) /\ tail_ \in Elems(chain)
      /\ Index(chain, head_) <= Index(chain, tail_)
      /\ Index(chain, head_) \in Nat /\ Index(chain, tail_) \in Nat
  BY Locals, Places DEF Inv, ListInv
<1>1. CASE UNCHANGED <<chain, next_, head_, tail_>>
  BY <1>0, <1>1 DEF ListInv, Rely
<1>2. ASSUME NEW p \in Producers, push(p)
      PROVE  ListInv' /\ Rely
  <2>1. next_' = Append(next_, Null) /\ UNCHANGED <<chain, head_, tail_>>
    BY <1>2 DEF push
  <2>2. Linked(chain, next_') /\ \A n \in Elems(chain) : next_'[n] = next_[n]
    BY <1>0, <2>1, Allocate
  <2>3. UNCHANGED <<chain, head_, tail_>>
    BY <2>1
  <2> QED
    BY <1>0, <2>2, <2>3 DEF ListInv, Rely
<1>3. ASSUME NEW p \in Producers, push_help(p)
      PROVE  ListInv' /\ Rely
  <2>1. /\ old_tail[p] \in Elems(chain) /\ next_node[p] # Null
        /\ next_[old_tail[p]] = next_node[p]
    BY <1>3 DEF push_help, Go, Inv, ThreadInv, PushOK
  <2> QED
    BY <1>3, <2>1, TailMoves DEF push_help
<1>4. ASSUME NEW p \in Producers, push_swing(p)
      PROVE  ListInv' /\ Rely
  <2>1. /\ old_tail[p] \in Elems(chain) /\ mine[p] # Null
        /\ next_[old_tail[p]] = mine[p]
    BY <1>4 DEF push_swing, Go, Inv, ThreadInv, PushOK
  <2> QED
    BY <1>4, <2>1, TailMoves DEF push_swing
<1>5. ASSUME NEW c \in Consumers, pop_help(c)
      PROVE  ListInv' /\ Rely
  <2>1. /\ old_tail[c] \in Elems(chain) /\ next_node[c] # Null
        /\ next_[old_tail[c]] = next_node[c]
    BY <1>5 DEF pop_help, Go, Inv, ThreadInv, PopOK
  <2> QED
    BY <1>5, <2>1, TailMoves DEF pop_help
<1>6. ASSUME NEW p \in Producers, push_link(p)
      PROVE  ListInv' /\ Rely
  <2>1. UNCHANGED <<head_, tail_>>
    BY <1>6 DEF push_link
  <2>2. CASE UNCHANGED <<chain, next_>>
    BY <1>1, <2>1, <2>2
  <2>3. CASE Linking(chain, next_, old_tail[p], mine[p], chain', next_')
    <3>3. /\ Linked(chain', next_') /\ Elems(chain') = Elems(chain) \cup {mine[p]}
          /\ \A n \in Elems(chain) : Index(chain', n) = Index(chain, n)
          /\ \A n \in DOMAIN next_ : n # old_tail[p] => next_'[n] = next_[n]
      BY <2>3, Link
    <3>6. next_[old_tail[p]] = Null
      BY <2>3 DEF Linking
    <3>4. \A n \in Elems(chain) : n \in DOMAIN next_
      BY <1>0, OnChain
    <3>5. Index(chain', head_') = Index(chain, head_) /\ Index(chain', tail_') = Index(chain, tail_)
      BY <1>0, <2>1, <3>3
    <3> QED
      BY <1>0, <2>1, <3>3, <3>4, <3>5, <3>6 DEF ListInv, Rely
  <2> QED
    BY <1>6, <2>2, <2>3, PushLinks
<1>7. ASSUME NEW c \in Consumers, pop_cas(c)
      PROVE  ListInv' /\ Rely
  <2>1. UNCHANGED <<chain, next_, tail_>>
    BY <1>7 DEF pop_cas
  <2>2. CASE head_' = head_
    BY <1>1, <2>1, <2>2
  <2>3. CASE head_ = old_head[c] /\ head_' = next_node[c]
    <3>1. /\ old_head[c] \in Elems(chain) /\ old_tail[c] \in Elems(chain)
          /\ Index(chain, old_head[c]) <= Index(chain, old_tail[c])
          /\ Index(chain, old_tail[c]) <= Index(chain, tail_)
          /\ old_head[c] # old_tail[c]
      BY <1>7 DEF pop_cas, Go, Inv, ThreadInv, PopOK
    <3>2. next_node[c] # Null /\ next_[old_head[c]] = next_node[c]
      BY <1>7, Reads DEF pop_cas, Go
    <3>3. head_' \in Elems(chain) /\ Index(chain, head_') = Index(chain, head_) + 1
      BY <1>0, <2>3, <3>1, <3>2, Successor
    <3>4. Index(chain, old_head[c]) # Index(chain, old_tail[c])
      BY <1>0, <3>1, IndexInjective
    <3>5. Index(chain, old_tail[c]) \in Nat
      BY <1>0, <3>1, Places
    <3>6. Index(chain, head_') <= Index(chain, tail_) /\ Index(chain, head_) <= Index(chain, head_')
      BY <1>0, <2>3, <3>1, <3>3, <3>4, <3>5
    <3> QED
      BY <1>0, <2>1, <3>3, <3>6 DEF ListInv, Rely
  <2> QED
    BY <1>7, <2>2, <2>3 DEF pop_cas
<1>8. ASSUME NEW p \in Producers,
             push_tail(p) \/ push_next(p) \/ push_check(p) \/ push_count(p)
      PROVE  UNCHANGED <<chain, next_, head_, tail_>>
  BY <1>8 DEF push_tail, push_next, push_check, push_count, shared, history
<1>9. ASSUME NEW c \in Consumers,
             \/ pop(c) \/ pop_head(c) \/ pop_tail(c) \/ pop_next(c) \/ pop_check(c)
             \/ pop_read(c) \/ pop_delete(c) \/ pop_count(c)
      PROVE  UNCHANGED <<chain, next_, head_, tail_>>
  BY <1>9 DEF pop, pop_head, pop_tail, pop_next, pop_check, pop_read, pop_delete,
              pop_count, shared, history
<1>10. ASSUME UNCHANGED vars
       PROVE  UNCHANGED <<chain, next_, head_, tail_>>
  BY <1>10 DEF vars, shared, history
<1> QED
  BY <1>1, <1>2, <1>3, <1>4, <1>5, <1>6, <1>7, <1>8, <1>9, <1>10, NextCases

----------------------------------------------------------------------------
(***************************************************************************)
(* What a thread knows is not disturbed by the others.                     *)
(***************************************************************************)
LEMMA PushFrame ==
    ASSUME Inv, Rely, NEW p \in Producers, Same(p),
           pc[p] \in Unlinked =>
             mine[p] \in DOMAIN next_' /\ mine[p] \notin Elems(chain') /\ next_'[mine[p]] = Null
    PROVE  PushOK(p)'
<1>1. PushOK(p)
  BY DEF Inv, ThreadInv
<1> QED
  BY <1>1 DEF PushOK, Same, Rely

LEMMA PopFrame ==
    ASSUME Inv, Rely, TypeOK', ListInv', NEW c \in Consumers, Same(c)
    PROVE  PopOK(c)'
<1>1. PopOK(c)
  BY DEF Inv, ThreadInv
<1>2. /\ \A n \in Elems(chain) : Index(chain, n) \in Nat
      /\ Index(chain, head_) \in Nat /\ Index(chain, tail_) \in Nat
  BY Places DEF Inv
<1>3. Index(chain', head_') \in Nat /\ Index(chain', tail_') \in Nat
  <2>1. /\ chain' \in Seq(Nodes) /\ head_' \in Elems(chain') /\ tail_' \in Elems(chain')
    BY DEF TypeOK, ListInv
  <2> QED
    BY <2>1, IndexIn
<1>4. ASSUME NEW n \in Elems(chain)
      PROVE  /\ n \in Elems(chain') /\ Index(chain', n) = Index(chain, n)
             /\ next_[n] # Null => next_'[n] = next_[n]
             /\ Index(chain, n) <= Index(chain, head_) => Index(chain, n) <= Index(chain', head_')
             /\ Index(chain, n) < Index(chain, head_) => Index(chain, n) < Index(chain', head_')
             /\ Index(chain, n) <= Index(chain, tail_) => Index(chain, n) <= Index(chain', tail_')
  BY <1>2, <1>3 DEF Rely
<1> QED
  BY <1>1, <1>4 DEF PopOK, Same

\* A thread does a step of its own, or none.
Pushes(p) ==
    \/ push(p) \/ push_tail(p) \/ push_next(p) \/ push_check(p) \/ push_help(p)
    \/ push_link(p) \/ push_swing(p) \/ push_count(p)
Pops(c) ==
    \/ pop(c) \/ pop_head(c) \/ pop_tail(c) \/ pop_next(c) \/ pop_check(c)
    \/ pop_help(c) \/ pop_read(c) \/ pop_cas(c) \/ pop_delete(c) \/ pop_count(c)

LEMMA ActsOrNot ==
    ASSUME TypeOK, [Next]_vars, NEW t \in Threads
    PROVE  Same(t) \/ (t \in Producers /\ Pushes(t)) \/ (t \in Consumers /\ Pops(t))
<1>1. CASE UNCHANGED vars
  BY <1>1 DEF vars, locals, Same
<1>2. ASSUME NEW p \in Producers, Pushes(p)
      PROVE  Same(t) \/ (t \in Producers /\ Pushes(t))
  BY <1>2, Kinds, OthersSame DEF Pushes
<1>3. ASSUME NEW c \in Consumers, Pops(c)
      PROVE  Same(t) \/ (t \in Consumers /\ Pops(t))
  BY <1>3, Kinds, OthersSame DEF Pops
<1>4. CASE Next
  <2>1. (\E p \in Producers : Pushes(p)) \/ (\E c \in Consumers : Pops(c))
    BY <1>4 DEF Next, Pushes, Pops
  <2> QED
    BY <1>2, <1>3, <2>1
<1> QED
  BY <1>1, <1>4

\* Nobody else touches the node a producer is about to link.
LEMMA MineKept ==
    ASSUME Inv, [Next]_vars, NEW q \in Producers, Same(q), pc[q] \in Unlinked
    PROVE  mine[q] \in DOMAIN next_' /\ mine[q] \notin Elems(chain') /\ next_'[mine[q]] = Null
<1>0. /\ mine[q] \in DOMAIN next_ /\ mine[q] \notin Elems(chain) /\ next_[mine[q]] = Null
      /\ TypeOK /\ chain \in Seq(Nodes) /\ next_ \in Seq(Pointers) /\ Linked(chain, next_)
  BY Locals DEF Inv, ThreadInv, PushOK, ListInv
<1>1. CASE UNCHANGED <<chain, next_>>
  BY <1>0, <1>1
<1>2. ASSUME NEW p \in Producers, push(p)
      PROVE  mine[q] \in DOMAIN next_' /\ mine[q] \notin Elems(chain') /\ next_'[mine[q]] = Null
  <2>1. next_' = Append(next_, Null) /\ chain' = chain
    BY <1>2 DEF push
  <2>2. mine[q] \in DOMAIN next_' /\ next_'[mine[q]] = Null
    BY <1>0, <2>1, Allocate
  <2> QED
    BY <1>0, <2>1, <2>2
<1>3. ASSUME NEW p \in Producers, push_link(p)
      PROVE  mine[q] \in DOMAIN next_' /\ mine[q] \notin Elems(chain') /\ next_'[mine[q]] = Null
  <2>1. CASE Linking(chain, next_, old_tail[p], mine[p], chain', next_')
             /\ pc' = [pc EXCEPT ![p] = "push_swing"]
    <3>1. pc[p] = "push_link" /\ pc[p] \in Unlinked
      BY <1>3 DEF push_link, Go, Unlinked
    <3>2. p # q
      BY <1>0, <2>1, <3>1, Locals, Kinds DEF Same
    <3>3. mine[p] # mine[q]
      BY <3>1, <3>2 DEF Inv, MineInv
    <3>4. old_tail[p] \in Elems(chain)
      BY <2>1 DEF Linking
    <3>5. /\ Elems(chain') = Elems(chain) \cup {mine[p]} /\ DOMAIN next_' = DOMAIN next_
          /\ \A n \in DOMAIN next_ : n # old_tail[p] => next_'[n] = next_[n]
      BY <2>1, Link
    <3> QED
      BY <1>0, <3>3, <3>4, <3>5
  <2> QED
    BY <1>1, <1>3, <2>1, PushLinks
<1>4. ASSUME NEW p \in Producers,
             push_tail(p) \/ push_next(p) \/ push_check(p) \/ push_count(p) \/ push_help(p)
               \/ push_swing(p)
      PROVE  UNCHANGED <<chain, next_>>
  BY <1>4 DEF push_tail, push_next, push_check, push_count, push_help, push_swing, shared,
              history
<1>5. ASSUME NEW c \in Consumers, Pops(c)
      PROVE  UNCHANGED <<chain, next_>>
  BY <1>5 DEF Pops, pop, pop_head, pop_tail, pop_next, pop_check, pop_help, pop_cas, pop_read,
              pop_delete, pop_count, shared, history
<1>6. ASSUME UNCHANGED vars
      PROVE  UNCHANGED <<chain, next_>>
  BY <1>6 DEF vars, shared, history
<1> QED
  BY <1>1, <1>2, <1>3, <1>4, <1>5, <1>6 DEF Next, Pops

LEMMA MineStep == Inv /\ [Next]_vars => MineInv'
<1> SUFFICES ASSUME Inv, [Next]_vars, NEW p \in Producers, NEW q \in Producers, p # q,
                    pc'[p] \in Unlinked, pc'[q] \in Unlinked
             PROVE  mine'[p] # mine'[q]
  BY DEF MineInv
<1>0. TypeOK
  BY DEF Inv
<1>1. ASSUME NEW t \in Producers, pc'[t] \in Unlinked, ~push(t)
      PROVE  pc[t] \in Unlinked /\ mine'[t] = mine[t]
  <2>1. CASE Same(t)
    BY <1>1, <2>1 DEF Same
  <2>2. CASE Pushes(t)
    BY <1>0, <1>1, <2>2, Locals, Kinds
       DEF Pushes, push_tail, push_next, push_check, push_help, push_link, push_swing,
           push_count, Go, Unlinked, locals
  <2> QED
    BY <1>0, <2>1, <2>2, Kinds, ActsOrNot
<1>2. ASSUME NEW t \in Producers, NEW u \in Producers, t # u, push(t), pc'[u] \in Unlinked
      PROVE  mine'[t] # mine'[u]
  <2>1. Same(u)
    BY <1>0, <1>2, Kinds, OthersSame
  <2>2. mine'[u] = mine[u] /\ mine[u] \in DOMAIN next_
    BY <1>2, <2>1 DEF Same, Inv, ThreadInv, PushOK
  <2>3. mine'[t] = Len(next_) + 1
    BY <1>0, <1>2, Locals, Kinds DEF push, Note
  <2>4. Len(next_) + 1 \notin DOMAIN next_
    BY <1>0, Locals
  <2> QED
    BY <2>2, <2>3, <2>4
<1> QED
  BY <1>1, <1>2 DEF Inv, MineInv

\* What a producer learns in a step of its own.
LEMMA PushActs ==
    ASSUME Inv, TypeOK', ListInv', Rely, NEW p \in Producers, Pushes(p)
    PROVE  PushOK(p)'
<1>0. /\ TypeOK /\ chain \in Seq(Nodes) /\ next_ \in Seq(Pointers) /\ Linked(chain, next_)
      /\ tail_ \in Elems(chain) /\ PushOK(p)
  BY Locals DEF Inv, ThreadInv, ListInv
<1>1. CASE push(p)
  <2>1. next_' = Append(next_, Null) /\ chain' = chain
    BY <1>1 DEF push
  <2>2. mine'[p] = Len(next_) + 1 /\ pc'[p] = "push_tail"
    BY <1>0, <1>1, Locals, Kinds DEF push, Note, Go
  <2>3. /\ Len(next_) + 1 \in DOMAIN next_' /\ Len(next_) + 1 \notin Elems(chain)
        /\ next_'[Len(next_) + 1] = Null
    BY <1>0, <2>1, Allocate
  <2> QED
    BY <2>1, <2>2, <2>3 DEF PushOK, Unlinked
<1>2. CASE push_tail(p)
  <2>1. /\ pc[p] = "push_tail" /\ pc'[p] = "push_next" /\ old_tail'[p] = tail_
        /\ UNCHANGED <<chain, next_, mine>>
    BY <1>0, <1>2, Locals, Kinds DEF push_tail, Go, Note, shared, history
  <2> QED
    BY <1>0, <2>1 DEF PushOK, Unlinked
<1>3. CASE push_next(p)
  <2>1. /\ pc[p] = "push_next" /\ pc'[p] = "push_check" /\ next_node'[p] = next_[old_tail[p]]
        /\ UNCHANGED <<chain, next_, mine, old_tail>>
    BY <1>0, <1>3, Locals, Kinds DEF push_next, Go, Note, shared, history
  <2> QED
    BY <1>0, <2>1 DEF PushOK, Unlinked
<1>4. CASE push_check(p)
  <2>1. pc[p] = "push_check" /\ UNCHANGED <<chain, next_, mine>>
    BY <1>4 DEF push_check, Go, shared, history
  <2>2. CASE pc'[p] = "push_tail"
    BY <1>0, <2>1, <2>2 DEF PushOK, Unlinked
  <2>3. CASE pc'[p] = "push_help" /\ next_node[p] # Null /\ UNCHANGED <<old_tail, next_node>>
    BY <1>0, <2>1, <2>3 DEF PushOK, Unlinked
  <2>4. CASE pc'[p] = "push_link" /\ UNCHANGED <<old_tail, next_node>>
    BY <1>0, <2>1, <2>4 DEF PushOK, Unlinked
  <2> QED
    BY <1>0, <1>4, <2>2, <2>3, <2>4, Locals, Kinds DEF push_check, Go
<1>5. CASE push_help(p)
  <2>1. pc[p] = "push_help" /\ pc'[p] = "push_tail" /\ UNCHANGED <<chain, next_, mine>>
    BY <1>0, <1>5, Locals, Kinds DEF push_help, Go
  <2> QED
    BY <1>0, <2>1 DEF PushOK, Unlinked
<1>6. CASE push_link(p)
  <2>0. pc[p] = "push_link" /\ mine' = mine
    BY <1>6 DEF push_link, Go
  <2>1. CASE /\ Linking(chain, next_, old_tail[p], mine[p], chain', next_')
             /\ pc' = [pc EXCEPT ![p] = "push_swing"]
             /\ UNCHANGED <<locals, spurious>>
    <3>1. pc'[p] = "push_swing" /\ old_tail' = old_tail
      BY <1>0, <2>1, Locals, Kinds DEF locals
    <3>2. old_tail[p] \in Elems(chain) /\ mine[p] \in Nodes
      BY <2>1 DEF Linking
    <3>3. next_'[old_tail[p]] = mine[p]
      BY <2>1, Link
    <3>4. old_tail[p] \in Elems(chain')
      BY <3>2 DEF Rely
    <3> QED
      BY <2>0, <3>1, <3>2, <3>3, <3>4, NullPointer DEF PushOK, Unlinked, Uncounted
  <2>2. CASE UNCHANGED <<chain, next_>> /\ pc' = [pc EXCEPT ![p] = "push_tail"]
    <3>1. pc'[p] = "push_tail"
      BY <1>0, <2>2, Locals, Kinds
    <3> QED
      BY <1>0, <2>0, <2>2, <3>1 DEF PushOK, Unlinked
  <2> QED
    BY <1>6, <2>1, <2>2, PushLinks
<1>7. CASE push_swing(p)
  <2>1. pc'[p] = "push_count"
    BY <1>0, <1>7, Locals, Kinds DEF push_swing, Go
  <2> QED
    BY <2>1 DEF PushOK, Unlinked, Uncounted
<1>8. CASE push_count(p)
  <2>1. pc'[p] = "idle"
    BY <1>0, <1>8, Locals, Kinds DEF push_count, Go
  <2> QED
    BY <2>1 DEF PushOK, Unlinked
<1> QED
  BY <1>1, <1>2, <1>3, <1>4, <1>5, <1>6, <1>7, <1>8 DEF Pushes

\* What a consumer learns in a step of its own.
LEMMA PopActs ==
    ASSUME Inv, TypeOK', ListInv', Rely, NEW c \in Consumers, Pops(c)
    PROVE  PopOK(c)'
<1>0. /\ TypeOK /\ ListInv /\ chain \in Seq(Nodes) /\ Linked(chain, next_)
      /\ head_ \in Elems(chain) /\ tail_ \in Elems(chain) /\ PopOK(c)
      /\ Index(chain, head_) <= Index(chain, tail_)
  BY Locals DEF Inv, ThreadInv, ListInv
<1>11. /\ \A n \in Elems(chain) : Index(chain, n) \in Nat
       /\ Index(chain, head_) \in Nat /\ Index(chain, tail_) \in Nat
  BY <1>0, Places
<1>1. CASE pop(c)
  <2>1. pc'[c] = "pop_head"
    BY <1>0, <1>1, Locals, Kinds DEF pop, Go
  <2> QED
    BY <2>1 DEF PopOK, PopLabels
<1>2. CASE pop_head(c)
  <2>1. /\ pc'[c] = "pop_tail" /\ old_head'[c] = head_ /\ UNCHANGED <<chain, head_>>
    BY <1>0, <1>2, Locals, Kinds DEF pop_head, Go, Note, shared, history
  <2>2. Index(chain, head_) <= Index(chain, head_)
    BY <1>11
  <2> QED
    BY <1>0, <2>1, <2>2 DEF PopOK, PopLabels
<1>3. CASE pop_tail(c)
  <2>1. /\ pc[c] = "pop_tail" /\ pc'[c] = "pop_next" /\ old_tail'[c] = tail_
        /\ UNCHANGED <<chain, head_, tail_, old_head>>
    BY <1>0, <1>3, Locals, Kinds DEF pop_tail, Go, Note, shared, history
  <2>2. old_head[c] \in Elems(chain) /\ Index(chain, old_head[c]) <= Index(chain, head_)
    BY <1>0, <2>1 DEF PopOK
  <2>3. Index(chain, old_head[c]) <= Index(chain, tail_) /\ Index(chain, tail_) <= Index(chain, tail_)
    BY <1>0, <1>11, <2>2
  <2> QED
    BY <1>0, <2>1, <2>2, <2>3 DEF PopOK, PopLabels
<1>4. CASE pop_next(c)
  <2>1. /\ pc[c] = "pop_next" /\ pc'[c] = "pop_check" /\ next_node'[c] = next_[old_head[c]]
        /\ UNCHANGED <<chain, head_, tail_, next_, old_head, old_tail>>
    BY <1>0, <1>4, Locals, Kinds DEF pop_next, Go, Note, shared, history
  <2>2. /\ old_head[c] \in Elems(chain) /\ old_tail[c] \in Elems(chain)
        /\ Index(chain, old_head[c]) <= Index(chain, old_tail[c])
    BY <1>0, <2>1 DEF PopOK
  <2>3. old_head[c] # old_tail[c] => next_[old_head[c]] # Null
    <3>1. Index(chain, old_tail[c]) <= Len(chain) /\ Len(chain) \in Nat
      BY <1>0, <2>2, Places
    <3>2. ASSUME old_head[c] # old_tail[c]
          PROVE  Index(chain, old_head[c]) # Index(chain, old_tail[c])
      BY <1>0, <2>2, <3>2, IndexInjective
    <3>3. ASSUME old_head[c] # old_tail[c]
          PROVE  Index(chain, old_head[c]) # Len(chain)
      BY <1>11, <2>2, <3>1, <3>2, <3>3
    <3> QED
      BY <1>0, <2>2, <3>3, Successor
  <2> QED
    BY <1>0, <2>1, <2>2, <2>3 DEF PopOK, PopLabels
<1>5. CASE pop_check(c)
  <2>1. pc[c] = "pop_check" /\ UNCHANGED <<chain, head_, tail_, next_>>
    BY <1>5 DEF pop_check, Go, shared, history
  <2>2. CASE pc'[c] \in {"pop_head", "idle"}
    BY <2>2 DEF PopOK, PopLabels
  <2>3. CASE /\ pc'[c] = "pop_help" /\ next_node[c] # Null /\ old_head[c] = old_tail[c]
             /\ UNCHANGED <<old_head, old_tail, next_node>>
    BY <1>0, <2>1, <2>3 DEF PopOK, PopLabels
  <2>4. CASE /\ pc'[c] = "pop_read" /\ old_head[c] # old_tail[c]
             /\ UNCHANGED <<old_head, old_tail, next_node>>
    BY <1>0, <2>1, <2>4 DEF PopOK, PopLabels
  <2> QED
    BY <1>0, <1>5, <2>2, <2>3, <2>4, Locals, Kinds DEF pop_check, Go
<1>6. CASE pop_help(c)
  <2>1. pc'[c] = "pop_head"
    BY <1>0, <1>6, Locals, Kinds DEF pop_help, Go
  <2> QED
    BY <2>1 DEF PopOK, PopLabels
<1>7. CASE pop_read(c)
  <2>1. /\ pc[c] = "pop_read" /\ pc'[c] = "pop_cas" /\ item'[c] = next_node[c]
        /\ UNCHANGED <<chain, head_, tail_, next_, old_head, old_tail, next_node>>
    BY <1>0, <1>7, Locals, Kinds DEF pop_read, Go, Note, shared, history
  <2> QED
    BY <1>0, <2>1 DEF PopOK, PopLabels
<1>8. CASE pop_cas(c)
  <2>1. CASE pc'[c] = "pop_head"
    BY <2>1 DEF PopOK, PopLabels
  <2>2. CASE /\ pc[c] = "pop_cas" /\ pc'[c] = "pop_delete" /\ head_ = old_head[c]
             /\ head_' = next_node[c] /\ UNCHANGED <<old_head, chain>>
    <3>1. /\ old_head[c] \in Elems(chain) /\ next_node[c] # Null
          /\ next_[old_head[c]] = next_node[c]
      BY <2>2, Reads
    <3>2. Index(chain, head_') = Index(chain, old_head[c]) + 1
      BY <1>0, <2>2, <3>1, Successor
    <3>3. Index(chain, old_head[c]) < Index(chain, head_')
      BY <1>11, <3>1, <3>2
    <3> QED
      BY <2>2, <3>1, <3>3 DEF PopOK, PopLabels
  <2> QED
    BY <1>0, <1>8, <2>1, <2>2, Locals, Kinds DEF pop_cas, Go
<1>9. CASE pop_delete(c)
  <2>1. pc'[c] = "pop_count"
    BY <1>0, <1>9, Locals, Kinds DEF pop_delete, Go
  <2> QED
    BY <2>1 DEF PopOK, PopLabels
<1>10. CASE pop_count(c)
  <2>1. pc'[c] = "idle"
    BY <1>0, <1>10, Locals, Kinds DEF pop_count, Go
  <2> QED
    BY <2>1 DEF PopOK, PopLabels
<1> QED
  BY <1>1, <1>2, <1>3, <1>4, <1>5, <1>6, <1>7, <1>8, <1>9, <1>10 DEF Pops

LEMMA InvStep == Inv /\ [Next]_vars => Inv'
<1> SUFFICES ASSUME Inv, [Next]_vars
             PROVE  Inv'
  OBVIOUS
<1>1. TypeOK /\ TypeOK' /\ ListInv' /\ Rely /\ MineInv'
  BY TypeStep, ListStep, MineStep DEF Inv
<1>2. ASSUME NEW p \in Producers
      PROVE  PushOK(p)'
  <2>1. CASE Same(p)
    BY <1>1, <2>1, MineKept, PushFrame
  <2>2. CASE Pushes(p)
    BY <1>1, <2>2, PushActs
  <2> QED
    BY <1>1, <2>1, <2>2, ActsOrNot, Kinds
<1>3. ASSUME NEW c \in Consumers
      PROVE  PopOK(c)'
  <2>1. CASE Same(c)
    BY <1>1, <2>1, PopFrame
  <2>2. CASE Pops(c)
    BY <1>1, <2>2, PopActs
  <2> QED
    BY <1>1, <2>1, <2>2, ActsOrNot, Kinds
<1> QED
  BY <1>1, <1>2, <1>3 DEF Inv, ThreadInv

\* What the proofs below rest on: the list is a list, head_ and tail_ are on it,
\* and what every thread holds was read from it.
THEOREM Invariance == Spec => []Inv
  BY InvInit, InvStep, PTL DEF Spec

----------------------------------------------------------------------------
(***************************************************************************)
(* What is behind head_ is a first-in-first-out queue.                     *)
(***************************************************************************)
Behind(s, k) == SubSeq(s, k + 1, Len(s))

LEMMA BehindIs ==
    ASSUME NEW s \in Seq(Nodes), NEW k \in 0..Len(s)
    PROVE  /\ Behind(s, k) \in Seq(Nodes) /\ Len(Behind(s, k)) = Len(s) - k
           /\ \A i \in 1..(Len(s) - k) : Behind(s, k)[i] = s[k + i]
<1> DEFINE n == Len(s)
<1>1. n \in Nat /\ k \in Nat /\ k <= n /\ k + 1 \in Int /\ n \in Int
  OBVIOUS
<1>2. \A i \in (k + 1)..n : s[i] \in Nodes
  OBVIOUS
<1>3. /\ SubSeq(s, k + 1, n) \in Seq(Nodes)
      /\ Len(SubSeq(s, k + 1, n)) = IF k + 1 <= n THEN n - (k + 1) + 1 ELSE 0
      /\ \A i \in 1..(n - (k + 1) + 1) : SubSeq(s, k + 1, n)[i] = s[k + 1 + i - 1]
  BY <1>1, <1>2, SubSeqProperties
<1> HIDE DEF n
<1>4. (IF k + 1 <= n THEN n - (k + 1) + 1 ELSE 0) = n - k /\ n - (k + 1) + 1 = n - k
  BY <1>1
<1>5. \A i \in 1..(n - k) : k + 1 + i - 1 = k + i
  BY <1>1
<1> QED
  BY <1>3, <1>4, <1>5 DEF Behind, n

LEMMA BehindAppend ==
    ASSUME NEW s \in Seq(Nodes), NEW m \in Nodes, NEW k \in 0..Len(s)
    PROVE  Behind(Append(s, m), k) = Append(Behind(s, k), m)
<1> DEFINE n == Len(s)
           u == Append(s, m)
           a == Behind(u, k)
           b == Append(Behind(s, k), m)
<1>1. /\ n \in Nat /\ k \in 0..n /\ u \in Seq(Nodes) /\ Len(u) = n + 1 /\ u[n + 1] = m
      /\ \A i \in 1..n : u[i] = s[i]
  OBVIOUS
<1>2. k \in 0..Len(u)
  BY <1>1
<1>3. /\ a \in Seq(Nodes) /\ Len(a) = n + 1 - k
      /\ \A i \in 1..(n + 1 - k) : a[i] = u[k + i]
  <2> HIDE DEF u, n
  <2>1. /\ a \in Seq(Nodes) /\ Len(a) = Len(u) - k
        /\ \A i \in 1..(Len(u) - k) : a[i] = u[k + i]
    BY <1>1, <1>2, BehindIs
  <2> QED
    BY <1>1, <2>1
<1>4. /\ Behind(s, k) \in Seq(Nodes) /\ Len(Behind(s, k)) = n - k
      /\ \A i \in 1..(n - k) : Behind(s, k)[i] = s[k + i]
  BY BehindIs
<1>5. /\ b \in Seq(Nodes) /\ Len(b) = n - k + 1 /\ b[n - k + 1] = m
      /\ \A i \in 1..(n - k) : b[i] = s[k + i]
  BY <1>4
<1> HIDE DEF n, u, a, b
<1>6. Len(a) = Len(b)
  BY <1>1, <1>3, <1>5
<1>7. ASSUME NEW i \in 1..Len(a)
      PROVE  a[i] = b[i]
  <2>1. CASE i \in 1..(n - k)
    <3>1. k + i \in 1..n /\ i \in 1..(n + 1 - k)
      BY <1>1, <2>1
    <3> QED
      BY <1>1, <1>3, <1>5, <2>1, <3>1
  <2>2. CASE i = n - k + 1
    <3>1. k + i = n + 1 /\ i \in 1..(n + 1 - k)
      BY <1>1, <2>2
    <3>2. a[i] = m
      BY <1>1, <1>3, <3>1
    <3> QED
      BY <1>5, <2>2, <3>2
  <2> QED
    BY <1>1, <1>3, <2>1, <2>2
<1>8. a = b
  BY <1>3, <1>5, <1>6, <1>7, SeqEqual
<1> QED
  BY <1>8 DEF a, b, u

LEMMA BehindTail ==
    ASSUME NEW s \in Seq(Nodes), NEW k \in 0..Len(s), k # Len(s)
    PROVE  /\ Behind(s, k) # <<>>
           /\ Head(Behind(s, k)) = s[k + 1] /\ Tail(Behind(s, k)) = Behind(s, k + 1)
<1> DEFINE n == Len(s)
<1>1. n \in Nat /\ k \in Nat /\ k + 1 \in 1..n /\ n \in (k + 1)..n /\ n - k # 0
  OBVIOUS
<1>2. Head(Behind(s, k)) = s[k + 1] /\ Tail(Behind(s, k)) = SubSeq(s, k + 1 + 1, n)
  BY <1>1, HeadTailOfSubSeq DEF Behind
<1>3. Len(Behind(s, k)) # 0
  BY <1>1, BehindIs
<1>4. Behind(s, k) # <<>>
  BY <1>3
<1> QED
  BY <1>2, <1>4 DEF Behind

LEMMA WaitingIs ==
    /\ Waiting = Behind(chain, Index(chain, head_))
    /\ Waiting' = Behind(chain', Index(chain', head_'))
  BY DEF Waiting, Behind, Index

LEMMA WaitingLength ==
    ASSUME TypeOK, ListInv
    PROVE  /\ Waiting \in Seq(Nodes) /\ Index(chain, head_) \in 0..Len(chain)
           /\ Len(Waiting) = Len(chain) - Index(chain, head_)
<1>1. chain \in Seq(Nodes) /\ Index(chain, head_) \in 0..Len(chain)
  BY Locals, IndexIn DEF ListInv
<1> QED
  BY <1>1, BehindIs, WaitingIs

\* Only two accesses change what is in the queue: the link of push() ...
Links(p) ==
    /\ pc[p] = "push_link" /\ pc' = [pc EXCEPT ![p] = "push_swing"]
    /\ Linking(chain, next_, old_tail[p], mine[p], chain', next_')
    /\ UNCHANGED <<head_, tail_, count_, max_count_, taken, users>>

\* ... and the compare-exchange of pop().
Moves(c) ==
    /\ pc[c] = "pop_cas" /\ pc' = [pc EXCEPT ![c] = "pop_delete"]
    /\ head_ = old_head[c] /\ head_' = next_node[c] /\ taken' = Append(taken, item[c])
    /\ UNCHANGED <<tail_, count_, max_count_, next_, chain, users>>

LEMMA WaitingStep ==
    ASSUME Inv, [Next]_vars
    PROVE  \/ UNCHANGED <<chain, head_, taken>>
           \/ \E p \in Producers : push_link(p) /\ Links(p)
           \/ \E c \in Consumers : pop_cas(c) /\ Moves(c)
<1>1. ASSUME NEW p \in Producers, push_link(p)
      PROVE  UNCHANGED <<chain, head_, taken>> \/ Links(p)
  <2>1. pc[p] = "push_link" /\ UNCHANGED <<head_, tail_, count_, max_count_, taken, users>>
    BY <1>1 DEF push_link, Go
  <2> QED
    BY <1>1, <2>1, PushLinks DEF Links
<1>2. ASSUME NEW c \in Consumers, pop_cas(c)
      PROVE  UNCHANGED <<chain, head_, taken>> \/ Moves(c)
  BY <1>2 DEF pop_cas, Go, Moves
<1>3. ASSUME NEW p \in Producers,
             push(p) \/ push_tail(p) \/ push_next(p) \/ push_check(p) \/ push_count(p)
               \/ push_help(p) \/ push_swing(p)
      PROVE  UNCHANGED <<chain, head_, taken>>
  BY <1>3 DEF push, push_tail, push_next, push_check, push_count, push_help, push_swing,
              shared, history
<1>4. ASSUME NEW c \in Consumers,
             \/ pop(c) \/ pop_head(c) \/ pop_tail(c) \/ pop_next(c) \/ pop_check(c)
             \/ pop_help(c) \/ pop_read(c) \/ pop_delete(c) \/ pop_count(c)
      PROVE  UNCHANGED <<chain, head_, taken>>
  BY <1>4 DEF pop, pop_head, pop_tail, pop_next, pop_check, pop_help, pop_read,
              pop_delete, pop_count, shared, history
<1>5. ASSUME UNCHANGED vars
      PROVE  UNCHANGED <<chain, head_, taken>>
  BY <1>5 DEF vars, shared, history
<1> QED
  BY <1>1, <1>2, <1>3, <1>4, <1>5, NextCases

\* The link is a Put of the new node.
LEMMA LinkPuts ==
    ASSUME Inv, NEW p \in Producers, Links(p)
    PROVE  /\ mine[p] \in Nodes /\ Waiting' = Append(Waiting, mine[p])
           /\ Len(chain') = Len(chain) + 1 /\ Len(next_') = Len(next_)
<1>1. /\ chain \in Seq(Nodes) /\ Index(chain, head_) \in 0..Len(chain)
      /\ head_ \in Elems(chain) /\ head_' = head_
  BY WaitingLength, Locals DEF Inv, ListInv, Links
<1>2. mine[p] \in Nodes /\ chain' = Append(chain, mine[p])
  BY DEF Links, Linking
<1>3. /\ Index(chain', head_) = Index(chain, head_)
      /\ Len(chain') = Len(chain) + 1 /\ Len(next_') = Len(next_)
  BY <1>1, Link DEF Links
<1>4. Behind(Append(chain, mine[p]), Index(chain, head_))
        = Append(Behind(chain, Index(chain, head_)), mine[p])
  BY <1>1, <1>2, BehindAppend
<1>5. Waiting' = Behind(chain', Index(chain', head_')) /\ Waiting = Behind(chain, Index(chain, head_))
  BY WaitingIs
<1>6. Waiting' = Append(Waiting, mine[p])
  BY <1>1, <1>2, <1>3, <1>4, <1>5
<1> QED
  BY <1>2, <1>3, <1>6

\* The compare-exchange of head_ is a Take of the oldest one.
LEMMA MoveTakes ==
    ASSUME Inv, NEW c \in Consumers, Moves(c)
    PROVE  /\ Waiting # <<>> /\ Waiting' = Tail(Waiting) /\ item[c] = Head(Waiting)
           /\ Len(Waiting') = Len(Waiting) - 1
<1>1. /\ chain \in Seq(Nodes) /\ Index(chain, head_) \in 0..Len(chain) /\ Linked(chain, next_)
      /\ head_ \in Elems(chain) /\ chain' = chain /\ head_' = next_node[c]
  BY WaitingLength, Locals DEF Inv, ListInv, Moves
<1>2. next_[head_] = next_node[c] /\ next_node[c] # Null /\ item[c] = next_node[c]
  <2>1. pc[c] = "pop_cas" /\ head_ = old_head[c]
    BY DEF Moves
  <2>2. item[c] = next_node[c]
    BY <2>1 DEF Inv, ThreadInv, PopOK
  <2> QED
    BY <2>1, <2>2, Reads
<1>3. /\ Index(chain, head_) # Len(chain)
      /\ Index(chain, next_node[c]) = Index(chain, head_) + 1
      /\ next_node[c] = chain[Index(chain, head_) + 1]
  BY <1>1, <1>2, Successor
<1>4. /\ Behind(chain, Index(chain, head_)) # <<>>
      /\ Head(Behind(chain, Index(chain, head_))) = chain[Index(chain, head_) + 1]
      /\ Tail(Behind(chain, Index(chain, head_))) = Behind(chain, Index(chain, head_) + 1)
  BY <1>1, <1>3, BehindTail
<1>5. Waiting' = Behind(chain', Index(chain', head_')) /\ Waiting = Behind(chain, Index(chain, head_))
  BY WaitingIs
<1>6. Waiting # <<>> /\ Waiting' = Tail(Waiting) /\ item[c] = Head(Waiting)
  BY <1>1, <1>2, <1>3, <1>4, <1>5
<1>7. Waiting \in Seq(Nodes)
  BY WaitingLength DEF Inv
<1> HIDE DEF Waiting
<1>8. Len(Tail(Waiting)) = Len(Waiting) - 1
  BY <1>6, <1>7, HeadTailProperties
<1> QED
  BY <1>6, <1>8

\* push() and pop() of any number of threads, access by access, implement the
\* queue of FifoQueue: an item goes in with the link of its node and comes out
\* with the move of head_, in order, each once and none skipped.
THEOREM IsFifo == Spec => ImplementsFifo
<1>1. Init => Fifo!Init
  <2> SUFFICES ASSUME Init
               PROVE  Waiting = <<>> /\ taken = <<>>
    BY DEF Fifo!Init
  <2>1. Inv /\ taken = <<>> /\ Len(chain) = 1
    BY InvInit DEF Init
  <2>2. head_ \in Elems(chain) /\ Index(chain, head_) \in 1..Len(chain)
    BY <2>1, IndexIn, Locals DEF Inv, ListInv
  <2>3. Len(Waiting) = 0 /\ Waiting \in Seq(Nodes)
    BY <2>1, <2>2, WaitingLength DEF Inv
  <2>4. Waiting = <<>>
    BY <2>3
  <2> QED
    BY <2>1, <2>4
<1>2. Inv /\ [Next]_vars => [Fifo!Next]_<<Waiting, taken>>
  <2> SUFFICES ASSUME Inv, [Next]_vars
               PROVE  [Fifo!Next]_<<Waiting, taken>>
    OBVIOUS
  <2>1. CASE UNCHANGED <<chain, head_, taken>>
    <3>1. Waiting' = Waiting /\ taken' = taken
      BY <2>1, WaitingIs
    <3> QED
      BY <3>1
  <2>2. ASSUME NEW p \in Producers, Links(p)
        PROVE  Fifo!Next
    <3>1. mine[p] \in Nodes /\ Waiting' = Append(Waiting, mine[p]) /\ taken' = taken
      BY <2>2, LinkPuts DEF Links
    <3>2. Fifo!Put(mine[p])
      BY <3>1 DEF Fifo!Put
    <3> QED
      BY <3>1, <3>2 DEF Fifo!Next
  <2>3. ASSUME NEW c \in Consumers, Moves(c)
        PROVE  Fifo!Next
    <3>1. /\ Waiting # <<>> /\ Waiting' = Tail(Waiting) /\ item[c] = Head(Waiting)
          /\ taken' = Append(taken, item[c])
      BY <2>3, MoveTakes DEF Moves
    <3>2. Fifo!Take
      BY <3>1 DEF Fifo!Take
    <3> QED
      BY <3>2 DEF Fifo!Next
  <2> QED
    BY <2>1, <2>2, <2>3, WaitingStep
<1> QED
  BY <1>1, <1>2, Invariance, PTL DEF Spec, ImplementsFifo, Fifo!Spec

----------------------------------------------------------------------------
(***************************************************************************)
(* Counting.  Every call under way is on its way to the link, between the  *)
(* link and the counter, or between the move of head_ and the counter.     *)
(***************************************************************************)
Removed == {"pop_delete", "pop_count"}

Placed == Cardinality(At(Unlinked))      \* producers with a node to link
Behindhand == Cardinality(At(Uncounted)) \* producers that have not counted theirs
Ahead == Cardinality(At(Removed))        \* consumers that have not counted theirs
Size == Len(Waiting)

LEMMA AtSubset ==
    ASSUME NEW labels
    PROVE  /\ At(labels) \subseteq Threads /\ IsFiniteSet(At(labels))
           /\ Cardinality(At(labels)) \in Nat /\ Cardinality(At(labels)) <= Cardinality(Threads)
           /\ Cardinality(Threads) \in Nat
<1>1. At(labels) \in SUBSET Threads /\ IsFiniteSet(Threads)
  BY ThreadsAssumption DEF At
<1> QED
  BY <1>1, FS_Subset, FS_CardinalityType

\* Thread t goes from one label to another.
LEMMA AtStep ==
    ASSUME TypeOK, NEW t \in Threads, NEW to, pc' = [pc EXCEPT ![t] = to], NEW labels
    PROVE  /\ (pc[t] \in labels <=> to \in labels) =>
                Cardinality(At(labels)') = Cardinality(At(labels))
           /\ pc[t] \notin labels /\ to \in labels =>
                Cardinality(At(labels)') = Cardinality(At(labels)) + 1
           /\ pc[t] \in labels /\ to \notin labels =>
                Cardinality(At(labels)') = Cardinality(At(labels)) - 1
<1>1. pc'[t] = to /\ \A u \in Threads : u # t => pc'[u] = pc[u]
  BY Locals
<1>2. At(labels)' = {u \in Threads : pc'[u] \in labels}
  BY DEF At
<1>3. IsFiniteSet(At(labels))
  BY AtSubset
<1>4. ASSUME pc[t] \in labels <=> to \in labels
      PROVE  At(labels)' = At(labels)
  BY <1>1, <1>2, <1>4 DEF At
<1>5. ASSUME pc[t] \notin labels, to \in labels
      PROVE  At(labels)' = At(labels) \cup {t} /\ t \notin At(labels)
  BY <1>1, <1>2, <1>5 DEF At
<1>6. ASSUME pc[t] \in labels, to \notin labels
      PROVE  At(labels)' = At(labels) \ {t} /\ t \in At(labels)
  BY <1>1, <1>2, <1>6 DEF At
<1> QED
  BY <1>3, <1>4, <1>5, <1>6, FS_AddElement, FS_RemoveElement

LEMMA PcSame ==
    ASSUME pc' = pc, NEW labels
    PROVE  Cardinality(At(labels)') = Cardinality(At(labels))
  BY DEF At

\* The steps as far as they can be told by the counts.
CountStep ==
    /\ max_count_' = max_count_
    /\ \/ /\ \E p \in Producers : push(p)
          /\ Placed' = Placed + 1 /\ Len(next_') = Len(next_) + 1
          /\ UNCHANGED <<Behindhand, Ahead, Size, count_>> /\ Len(chain') = Len(chain)
       \/ /\ Placed' = Placed - 1 /\ Behindhand' = Behindhand + 1 /\ Size' = Size + 1
          /\ Len(chain') = Len(chain) + 1 /\ Len(next_') = Len(next_)
          /\ UNCHANGED <<Ahead, count_>>
       \/ /\ Behindhand' = Behindhand - 1 /\ count_' = (count_ + 1) % Word
          /\ UNCHANGED <<Placed, Ahead, Size>>
          /\ Len(chain') = Len(chain) /\ Len(next_') = Len(next_)
       \/ /\ Ahead' = Ahead + 1 /\ Size' = Size - 1
          /\ UNCHANGED <<Placed, Behindhand, count_>>
          /\ Len(chain') = Len(chain) /\ Len(next_') = Len(next_)
       \/ /\ Ahead' = Ahead - 1 /\ count_' = (count_ - 1) % Word
          /\ UNCHANGED <<Placed, Behindhand, Size>>
          /\ Len(chain') = Len(chain) /\ Len(next_') = Len(next_)
       \/ /\ UNCHANGED <<Placed, Behindhand, Ahead, Size, count_>>
          /\ Len(chain') = Len(chain) /\ Len(next_') = Len(next_)

LEMMA Counting ==
    ASSUME Inv, [Next]_vars
    PROVE  CountStep
<1>0. TypeOK /\ next_ \in Seq(Pointers)
  BY Locals DEF Inv
<1>1. ASSUME UNCHANGED <<chain, head_>>
      PROVE  Size' = Size /\ Len(chain') = Len(chain)
  BY <1>1, WaitingIs DEF Size
<1>12. ASSUME NEW t \in Threads, NEW from, NEW to, Go(t, from, to)
       PROVE  /\ (from \in Unlinked <=> to \in Unlinked) => Placed' = Placed
              /\ from \notin Unlinked /\ to \in Unlinked => Placed' = Placed + 1
              /\ from \in Unlinked /\ to \notin Unlinked => Placed' = Placed - 1
              /\ (from \in Uncounted <=> to \in Uncounted) => Behindhand' = Behindhand
              /\ from \notin Uncounted /\ to \in Uncounted => Behindhand' = Behindhand + 1
              /\ from \in Uncounted /\ to \notin Uncounted => Behindhand' = Behindhand - 1
              /\ (from \in Removed <=> to \in Removed) => Ahead' = Ahead
              /\ from \notin Removed /\ to \in Removed => Ahead' = Ahead + 1
              /\ from \in Removed /\ to \notin Removed => Ahead' = Ahead - 1
  <2>1. pc[t] = from /\ pc' = [pc EXCEPT ![t] = to]
    BY <1>12 DEF Go
  <2>2. /\ (from \in Unlinked <=> to \in Unlinked) => Placed' = Placed
        /\ from \notin Unlinked /\ to \in Unlinked => Placed' = Placed + 1
        /\ from \in Unlinked /\ to \notin Unlinked => Placed' = Placed - 1
    BY <1>0, <2>1, AtStep DEF Placed
  <2>3. /\ (from \in Uncounted <=> to \in Uncounted) => Behindhand' = Behindhand
        /\ from \notin Uncounted /\ to \in Uncounted => Behindhand' = Behindhand + 1
        /\ from \in Uncounted /\ to \notin Uncounted => Behindhand' = Behindhand - 1
    BY <1>0, <2>1, AtStep DEF Behindhand
  <2>4. /\ (from \in Removed <=> to \in Removed) => Ahead' = Ahead
        /\ from \notin Removed /\ to \in Removed => Ahead' = Ahead + 1
        /\ from \in Removed /\ to \notin Removed => Ahead' = Ahead - 1
    BY <1>0, <2>1, AtStep DEF Ahead
  <2> QED
    BY <2>2, <2>3, <2>4
<1>2. ASSUME NEW t \in Threads, NEW from, NEW to, Go(t, from, to),
             from \in Unlinked <=> to \in Unlinked,
             from \in Uncounted <=> to \in Uncounted,
             from \in Removed <=> to \in Removed
      PROVE  UNCHANGED <<Placed, Behindhand, Ahead>>
  BY <1>2, <1>12
<1>3. ASSUME UNCHANGED <<Placed, Behindhand, Ahead, count_, chain, head_, next_, max_count_>>
      PROVE  CountStep
  BY <1>1, <1>3 DEF CountStep
<1>4. ASSUME NEW p \in Producers, push(p)
      PROVE  CountStep
  <2>1. p \in Threads /\ pc[p] = "idle" /\ pc' = [pc EXCEPT ![p] = "push_tail"]
    BY <1>4, Kinds DEF push, Go
  <2>2. Go(p, "idle", "push_tail")
    BY <2>1 DEF Go
  <2>3. /\ "idle" \notin Unlinked /\ "push_tail" \in Unlinked
        /\ "idle" \notin Uncounted /\ "push_tail" \notin Uncounted
        /\ "idle" \notin Removed /\ "push_tail" \notin Removed
    BY DEF Unlinked, Uncounted, Removed
  <2>4. Placed' = Placed + 1 /\ Behindhand' = Behindhand /\ Ahead' = Ahead
    BY <1>12, <2>1, <2>2, <2>3
  <2>5. next_' = Append(next_, Null) /\ UNCHANGED <<chain, head_, count_, max_count_>>
    BY <1>4 DEF push
  <2>6. Len(next_') = Len(next_) + 1
    BY <1>0, <2>5, Allocate, NullPointer, AppendProperties
  <2>7. UNCHANGED <<chain, head_, count_, max_count_>>
    BY <2>5
  <2> QED
    BY <1>1, <1>4, <2>2, <2>3, <2>4, <2>6, <2>7 DEF CountStep
<1>5. ASSUME NEW p \in Producers, push_link(p)
      PROVE  CountStep
  <2>0. p \in Threads
    BY Kinds
  <2>1. CASE Links(p)
    <3>1. pc[p] = "push_link" /\ pc' = [pc EXCEPT ![p] = "push_swing"]
      BY <2>1 DEF Links
    <3>2. Go(p, "push_link", "push_swing")
      BY <3>1 DEF Go
    <3>3. /\ "push_link" \in Unlinked /\ "push_swing" \notin Unlinked
          /\ "push_link" \notin Uncounted /\ "push_swing" \in Uncounted
          /\ "push_link" \notin Removed /\ "push_swing" \notin Removed
      BY DEF Unlinked, Uncounted, Removed
    <3>4. Placed' = Placed - 1 /\ Behindhand' = Behindhand + 1 /\ Ahead' = Ahead
      BY <1>12, <2>0, <3>1, <3>2, <3>3
    <3>5. /\ mine[p] \in Nodes /\ Waiting' = Append(Waiting, mine[p])
          /\ Len(chain') = Len(chain) + 1 /\ Len(next_') = Len(next_)
      BY <2>1, LinkPuts
    <3>6. Size' = Size + 1
      <4>1. Waiting \in Seq(Nodes)
        BY WaitingLength DEF Inv
      <4>2. Len(Append(Waiting, mine[p])) = Len(Waiting) + 1
        BY <3>5, <4>1, AppendProperties
      <4> QED
        BY <3>5, <4>2 DEF Size
    <3>7. UNCHANGED <<count_, max_count_>>
      BY <2>1 DEF Links
    <3> QED
      BY <3>2, <3>3, <3>4, <3>5, <3>6, <3>7 DEF CountStep
  <2>2. CASE UNCHANGED <<chain, next_>> /\ pc' = [pc EXCEPT ![p] = "push_tail"]
    <3>1. Go(p, "push_link", "push_tail") /\ UNCHANGED <<head_, count_, max_count_>>
      BY <1>5, <2>2 DEF push_link, Go
    <3>2. UNCHANGED <<Placed, Behindhand, Ahead>>
      BY <1>2, <2>0, <3>1 DEF Unlinked, Uncounted, Removed
    <3> QED
      BY <1>3, <2>2, <3>1, <3>2
  <2> QED
    <3>1. pc[p] = "push_link" /\ UNCHANGED <<head_, tail_, count_, max_count_, taken, users>>
      BY <1>5 DEF push_link, Go
    <3> QED
      BY <1>5, <2>1, <2>2, <3>1, PushLinks DEF Links
<1>6. ASSUME NEW p \in Producers, push_count(p)
      PROVE  CountStep
  <2>1. /\ p \in Threads /\ pc[p] = "push_count" /\ pc' = [pc EXCEPT ![p] = "idle"]
        /\ count_' = (count_ + 1) % Word /\ UNCHANGED <<chain, head_, next_, max_count_>>
    BY <1>6, Kinds DEF push_count, Go, history
  <2>2. Go(p, "push_count", "idle")
    BY <2>1 DEF Go
  <2>3. /\ "push_count" \notin Unlinked /\ "idle" \notin Unlinked
        /\ "push_count" \in Uncounted /\ "idle" \notin Uncounted
        /\ "push_count" \notin Removed /\ "idle" \notin Removed
    BY DEF Unlinked, Uncounted, Removed
  <2>4. Placed' = Placed /\ Behindhand' = Behindhand - 1 /\ Ahead' = Ahead
    BY <1>12, <2>1, <2>2, <2>3
  <2> QED
    BY <1>1, <2>1, <2>2, <2>3, <2>4 DEF CountStep
<1>7. ASSUME NEW c \in Consumers, pop_cas(c)
      PROVE  CountStep
  <2>0. c \in Threads
    BY Kinds
  <2>1. CASE Moves(c)
    <3>1. /\ pc[c] = "pop_cas" /\ pc' = [pc EXCEPT ![c] = "pop_delete"]
          /\ UNCHANGED <<chain, next_, count_, max_count_>>
      BY <2>1 DEF Moves
    <3>2. Go(c, "pop_cas", "pop_delete")
      BY <3>1 DEF Go
    <3>3. /\ "pop_cas" \notin Unlinked /\ "pop_delete" \notin Unlinked
          /\ "pop_cas" \notin Uncounted /\ "pop_delete" \notin Uncounted
          /\ "pop_cas" \notin Removed /\ "pop_delete" \in Removed
      BY DEF Unlinked, Uncounted, Removed
    <3>4. Placed' = Placed /\ Behindhand' = Behindhand /\ Ahead' = Ahead + 1
      BY <1>12, <2>0, <3>1, <3>2, <3>3
    <3>5. Size' = Size - 1
      BY <2>1, MoveTakes DEF Size
    <3> QED
      BY <3>1, <3>2, <3>3, <3>4, <3>5 DEF CountStep
  <2>2. CASE Go(c, "pop_cas", "pop_head") /\ UNCHANGED <<head_, taken>>
    <3>1. UNCHANGED <<Placed, Behindhand, Ahead>>
      BY <1>2, <2>0, <2>2 DEF Unlinked, Uncounted, Removed
    <3> QED
      BY <1>3, <1>7, <2>2, <3>1 DEF pop_cas
  <2> QED
    BY <1>7, <2>1, <2>2 DEF pop_cas, Moves, Go
<1>8. ASSUME NEW c \in Consumers, pop_count(c)
      PROVE  CountStep
  <2>1. /\ c \in Threads /\ pc[c] = "pop_count" /\ pc' = [pc EXCEPT ![c] = "idle"]
        /\ count_' = (count_ - 1) % Word /\ UNCHANGED <<chain, head_, next_, max_count_>>
    BY <1>8, Kinds DEF pop_count, Go, history
  <2>2. Go(c, "pop_count", "idle")
    BY <2>1 DEF Go
  <2>3. /\ "pop_count" \notin Unlinked /\ "idle" \notin Unlinked
        /\ "pop_count" \notin Uncounted /\ "idle" \notin Uncounted
        /\ "pop_count" \in Removed /\ "idle" \notin Removed
    BY DEF Unlinked, Uncounted, Removed
  <2>4. Placed' = Placed /\ Behindhand' = Behindhand /\ Ahead' = Ahead - 1
    BY <1>12, <2>1, <2>2, <2>3
  <2> QED
    BY <1>1, <2>1, <2>2, <2>3, <2>4 DEF CountStep
<1>9. ASSUME NEW p \in Producers,
             push_tail(p) \/ push_next(p) \/ push_check(p) \/ push_help(p) \/ push_swing(p)
      PROVE  CountStep
  <2>1. UNCHANGED <<chain, head_, next_, count_, max_count_>>
    BY <1>9 DEF push_tail, push_next, push_check, push_help, push_swing, shared, history
  <2>2. PICK from, to :
          /\ Go(p, from, to)
          /\ from \in Unlinked <=> to \in Unlinked
          /\ from \in Uncounted <=> to \in Uncounted
          /\ from \in Removed <=> to \in Removed
    <3> USE DEF Unlinked, Uncounted, Removed
    <3>1. CASE push_tail(p)
      BY <3>1 DEF push_tail
    <3>2. CASE push_next(p)
      BY <3>2 DEF push_next
    <3>3. CASE push_check(p)
      BY <3>3 DEF push_check
    <3>4. CASE push_help(p)
      BY <3>4 DEF push_help
    <3>5. CASE push_swing(p)
      BY <3>5 DEF push_swing
    <3> QED
      BY <1>9, <3>1, <3>2, <3>3, <3>4, <3>5
  <2>3. UNCHANGED <<Placed, Behindhand, Ahead>>
    BY <1>2, <2>2, Kinds
  <2> QED
    BY <1>3, <2>1, <2>3
<1>10. ASSUME NEW c \in Consumers,
              \/ pop(c) \/ pop_head(c) \/ pop_tail(c) \/ pop_next(c) \/ pop_check(c)
              \/ pop_help(c) \/ pop_read(c) \/ pop_delete(c)
       PROVE  CountStep
  <2>1. UNCHANGED <<chain, head_, next_, count_, max_count_>>
    BY <1>10 DEF pop, pop_head, pop_tail, pop_next, pop_check, pop_help, pop_read, pop_delete,
                 shared, history
  <2>2. PICK from, to :
          /\ Go(c, from, to)
          /\ from \in Unlinked <=> to \in Unlinked
          /\ from \in Uncounted <=> to \in Uncounted
          /\ from \in Removed <=> to \in Removed
    <3> USE DEF Unlinked, Uncounted, Removed
    <3>1. CASE pop(c)
      BY <3>1 DEF pop
    <3>2. CASE pop_head(c)
      BY <3>2 DEF pop_head
    <3>3. CASE pop_tail(c)
      BY <3>3 DEF pop_tail
    <3>4. CASE pop_next(c)
      BY <3>4 DEF pop_next
    <3>5. CASE pop_check(c)
      BY <3>5 DEF pop_check
    <3>6. CASE pop_help(c)
      BY <3>6 DEF pop_help
    <3>7. CASE pop_read(c)
      BY <3>7 DEF pop_read
    <3>8. CASE pop_delete(c)
      BY <3>8 DEF pop_delete
    <3> QED
      BY <1>10, <3>1, <3>2, <3>3, <3>4, <3>5, <3>6, <3>7, <3>8
  <2>3. UNCHANGED <<Placed, Behindhand, Ahead>>
    BY <1>2, <2>2, Kinds
  <2> QED
    BY <1>3, <2>1, <2>3
<1>11. ASSUME UNCHANGED vars
       PROVE  CountStep
  <2>1. UNCHANGED <<pc, chain, head_, next_, count_, max_count_>>
    BY <1>11 DEF vars, shared, history
  <2>2. UNCHANGED <<Placed, Behindhand, Ahead>>
    BY <2>1, PcSame DEF Placed, Behindhand, Ahead
  <2> QED
    BY <1>3, <2>1, <2>2
<1> QED
  BY <1>4, <1>5, <1>6, <1>7, <1>8, <1>9, <1>10, <1>11, NextCases

\* Every node is linked or about to be.
SizeInv ==
    /\ Len(chain) + Placed = Len(next_)
    /\ Len(next_) <= MaxNodes

\* A producer that found the queue not full holds a place in it.
PlaceInv ==
    max_count_ > 0 => Size + Placed <= max_count_ + Cardinality(Producers) - 1

CountInv == SizeInv /\ CountTracks /\ PlaceInv

\* size_t wraps around once.
LEMMA Wrap ==
    ASSUME NEW w \in Nat, NEW x \in Int, -w < x, x < w
    PROVE  x % w = IF x >= 0 THEN x ELSE x + w
<1> DEFINE r == x % w
           q == x \div w
<1>1. w > 0
  OBVIOUS
<1>2. r \in Int /\ q \in Int /\ r >= 0 /\ r < w /\ x = w * q + r
  BY <1>1
<1> HIDE DEF r, q
<1>3. q = 0 \/ q = -1
  <2>1. CASE q >= 1
    <3>1. w * q >= w
      BY <1>1, <1>2, <2>1
    <3> QED
      BY <1>2, <3>1
  <2>2. CASE q <= -2
    <3>1. w * q <= -2 * w
      BY <1>1, <1>2, <2>2
    <3> QED
      BY <1>2, <3>1
  <2> QED
    BY <1>2, <2>1, <2>2
<1>4. CASE q = 0
  BY <1>2, <1>4 DEF r
<1>5. CASE q = -1
  BY <1>2, <1>5 DEF r
<1> QED
  BY <1>3, <1>4, <1>5

LEMMA CountTypes ==
    ASSUME Inv, SizeInv
    PROVE  /\ Placed \in Nat /\ Behindhand \in Nat /\ Ahead \in Nat /\ Size \in Nat
           /\ Behindhand <= Cardinality(Threads) /\ Ahead <= Cardinality(Threads)
           /\ Len(next_) \in Nat /\ Len(chain) \in Nat /\ Size <= MaxNodes
           /\ Word \in Nat /\ Word > 0 /\ max_count_ \in Nat /\ MaxNodes \in Nat
           /\ Cardinality(Threads) \in Nat /\ count_ \in Nat
           /\ MaxNodes + Cardinality(Threads) + max_count_ < Word
<1>1. /\ Placed \in Nat /\ Behindhand \in Nat /\ Ahead \in Nat
      /\ Behindhand <= Cardinality(Threads) /\ Ahead <= Cardinality(Threads)
  BY AtSubset DEF Placed, Behindhand, Ahead
<1>2. Len(next_) \in Nat /\ Len(chain) \in Nat /\ count_ \in Nat
  BY DEF Inv, TypeOK
<1>3. /\ Word \in Nat /\ Word > 0 /\ max_count_ \in Nat /\ MaxNodes \in Nat
      /\ Cardinality(Threads) \in Nat
      /\ MaxNodes + Cardinality(Threads) + max_count_ < Word
  BY WordPositive DEF Inv
<1>4. Size = Len(chain) - Index(chain, head_) /\ Index(chain, head_) \in 0..Len(chain)
  BY WaitingLength DEF Inv, Size
<1>5. Size \in Nat /\ Size <= Len(chain)
  BY <1>2, <1>4
<1>6. Size <= MaxNodes
  BY <1>1, <1>2, <1>3, <1>5 DEF SizeInv
<1> QED
  BY <1>1, <1>2, <1>3, <1>5, <1>6

\* The counter, told with the names of this module.
LEMMA CountTracksIs ==
    /\ CountTracks <=> count_ = (Size - Behindhand + Ahead) % Word
    /\ CountTracks' <=> count_' = (Size' - Behindhand' + Ahead') % Word
  BY DEF CountTracks, Size, Behindhand, Ahead, Uncounted, Removed

\* What count_ is, unless a pop() has overtaken its push().
LEMMA CountValue ==
    ASSUME Inv, SizeInv
    PROVE  LET x == Size - Behindhand + Ahead
           IN  /\ x \in Int /\ -Word < x /\ x < Word
               /\ x % Word = IF x >= 0 THEN x ELSE x + Word
<1> DEFINE x == Size - Behindhand + Ahead
<1>1. x \in Int /\ -Word < x /\ x < Word /\ Word \in Nat
  BY CountTypes
<1> HIDE DEF x
<1>2. x % Word = IF x >= 0 THEN x ELSE x + Word
  BY <1>1, Wrap
<1> QED
  BY <1>1, <1>2 DEF x

\* The producers that have a call under way, and one more.
LEMMA RoomForOne ==
    ASSUME Inv, NEW p \in Producers, pc[p] = "idle"
    PROVE  Placed + Behindhand + 1 <= Cardinality(Producers)
<1> DEFINE A == At(Unlinked)
           B == At(Uncounted)
<1>1. IsFiniteSet(A) /\ IsFiniteSet(B) /\ Cardinality(A) \in Nat /\ Cardinality(B) \in Nat
  BY AtSubset
<1>2. A \subseteq Producers /\ B \subseteq Producers
  <2>1. \A c \in Consumers : pc[c] \notin Unlinked /\ pc[c] \notin Uncounted
    BY DEF Inv, ThreadInv, PopOK, PopLabels, Unlinked, Uncounted
  <2> QED
    BY <2>1, Kinds DEF At
<1>3. A \cap B = {} /\ p \notin A /\ p \notin B
  BY DEF At, Unlinked, Uncounted
<1> HIDE DEF A, B
<1>4. IsFiniteSet(Producers) /\ Cardinality(Producers) \in Nat
  <2>1. Producers \in SUBSET Threads
    BY DEF Threads
  <2> QED
    BY <2>1, ThreadsAssumption, FS_Subset, FS_CardinalityType
<1>5. IsFiniteSet(A \cup B) /\ Cardinality(A \cup B) = Cardinality(A) + Cardinality(B)
  <2>1. /\ IsFiniteSet(A \cup B)
        /\ Cardinality(A \cup B) = Cardinality(A) + Cardinality(B) - Cardinality(A \cap B)
    BY <1>1, FS_Union
  <2>2. Cardinality(A \cap B) = 0
    BY <1>3, FS_EmptySet
  <2> QED
    BY <1>1, <2>1, <2>2
<1>6. Cardinality((A \cup B) \cup {p}) = Cardinality(A) + Cardinality(B) + 1
  BY <1>3, <1>5, FS_AddElement
<1>7. Cardinality((A \cup B) \cup {p}) <= Cardinality(Producers)
  <2>1. (A \cup B) \cup {p} \in SUBSET Producers
    BY <1>2
  <2> QED
    BY <1>4, <2>1, FS_Subset
<1> QED
  BY <1>6, <1>7 DEF A, B, Placed, Behindhand

LEMMA CountInit == Init => CountInv
<1> SUFFICES ASSUME Init
             PROVE  CountInv
  OBVIOUS
<1>1. Inv /\ TypeOK /\ ListInv
  BY InvInit DEF Inv
<1>2. /\ Len(chain) = 1 /\ Len(next_) = 1 /\ count_ = 0 /\ MaxNodes \in Nat /\ MaxNodes # 0
      /\ \A t \in Threads : pc[t] = "idle"
  BY WordAssumption DEF Init
<1>3. At(Unlinked) = {} /\ At(Uncounted) = {} /\ At(Removed) = {}
  BY <1>2 DEF At, Unlinked, Uncounted, Removed
<1>4. Placed = 0 /\ Behindhand = 0 /\ Ahead = 0
  BY <1>3, FS_EmptySet DEF Placed, Behindhand, Ahead
<1>5. Size = 0
  <2>1. Index(chain, head_) \in 1..Len(chain)
    BY <1>1, IndexIn, Locals DEF ListInv
  <2> QED
    BY <1>1, <1>2, <2>1, WaitingLength DEF Size
<1>6. SizeInv
  BY <1>2, <1>4 DEF SizeInv
<1>7. CountTracks
  <2>1. Size - Behindhand + Ahead = 0
    BY <1>4, <1>5
  <2> QED
    BY <1>1, <1>2, <1>6, <2>1, CountValue, CountTracksIs
<1>8. PlaceInv
  <2>1. Producers \in SUBSET Threads
    BY DEF Threads
  <2>2. Cardinality(Producers) \in Nat
    BY <2>1, ThreadsAssumption, FS_Subset, FS_CardinalityType
  <2>3. max_count_ \in Nat
    BY <1>1, WordPositive
  <2> QED
    BY <1>4, <1>5, <2>2, <2>3 DEF PlaceInv
<1> QED
  BY <1>6, <1>7, <1>8 DEF CountInv

LEMMA CountingStep == Inv /\ Inv' /\ CountInv /\ [Next]_vars => CountInv'
<1> SUFFICES ASSUME Inv, Inv', CountInv, [Next]_vars
             PROVE  CountInv'
  OBVIOUS
<1>1. CountStep
  BY Counting
<1>2. /\ Placed \in Nat /\ Behindhand \in Nat /\ Ahead \in Nat /\ Size \in Nat
      /\ Behindhand <= Cardinality(Threads) /\ Ahead <= Cardinality(Threads)
      /\ Len(next_) \in Nat /\ Len(chain) \in Nat /\ Size <= MaxNodes
      /\ Word \in Nat /\ Word > 0 /\ max_count_ \in Nat /\ MaxNodes \in Nat
      /\ Cardinality(Threads) \in Nat /\ count_ \in Nat
      /\ MaxNodes + Cardinality(Threads) + max_count_ < Word
  BY CountTypes DEF CountInv
<1>3. Behindhand' \in Nat /\ Ahead' \in Nat
  <2>1. At(Uncounted)' \in SUBSET Threads /\ At(Removed)' \in SUBSET Threads
    BY DEF At
  <2>2. Cardinality(At(Uncounted)') \in Nat /\ Cardinality(At(Removed)') \in Nat
    BY <2>1, ThreadsAssumption, FS_Subset, FS_CardinalityType
  <2> QED
    BY <2>2 DEF Behindhand, Ahead
<1>4. \/ /\ \E p \in Producers : push(p)
         /\ Placed' = Placed + 1 /\ Len(next_') = Len(next_) + 1
         /\ Len(chain') = Len(chain) /\ Size' = Size
      \/ /\ Placed' = Placed - 1 /\ Size' = Size + 1
         /\ Len(chain') = Len(chain) + 1 /\ Len(next_') = Len(next_)
      \/ /\ Placed' = Placed /\ (Size' = Size \/ Size' = Size - 1)
         /\ Len(chain') = Len(chain) /\ Len(next_') = Len(next_)
  BY <1>1 DEF CountStep
<1>5. \/ count_' = count_ /\ Size' - Behindhand' + Ahead' = Size - Behindhand + Ahead
      \/ /\ count_' = (count_ + 1) % Word /\ Behindhand' = Behindhand - 1
         /\ Size' = Size /\ Ahead' = Ahead
      \/ /\ count_' = (count_ - 1) % Word /\ Ahead' = Ahead - 1
         /\ Size' = Size /\ Behindhand' = Behindhand
  <2>1. ASSUME NEW a \in Nat, NEW b \in Nat, NEW d \in Nat
        PROVE  /\ (a + 1) - (b + 1) + d = a - b + d
               /\ (a - 1) - b + (d + 1) = a - b + d
    OBVIOUS
  <2>2. CASE /\ Behindhand' = Behindhand + 1 /\ Size' = Size + 1 /\ Ahead' = Ahead
             /\ count_' = count_
    BY <1>2, <2>1, <2>2
  <2>3. CASE /\ Ahead' = Ahead + 1 /\ Size' = Size - 1 /\ Behindhand' = Behindhand
             /\ count_' = count_
    BY <1>2, <2>1, <2>3
  <2>4. \/ UNCHANGED <<Behindhand, Ahead, Size, count_>>
        \/ /\ Behindhand' = Behindhand + 1 /\ Size' = Size + 1 /\ Ahead' = Ahead
           /\ count_' = count_
        \/ /\ Ahead' = Ahead + 1 /\ Size' = Size - 1 /\ Behindhand' = Behindhand
           /\ count_' = count_
        \/ /\ count_' = (count_ + 1) % Word /\ Behindhand' = Behindhand - 1
           /\ Size' = Size /\ Ahead' = Ahead
        \/ /\ count_' = (count_ - 1) % Word /\ Ahead' = Ahead - 1
           /\ Size' = Size /\ Behindhand' = Behindhand
    BY <1>1 DEF CountStep
  <2> QED
    BY <2>2, <2>3, <2>4
<1>6. max_count_' = max_count_
  BY <1>1 DEF CountStep
<1>7. SizeInv'
  <2>1. ASSUME NEW p \in Producers, push(p)
        PROVE  Len(next_) < MaxNodes
    BY <2>1 DEF push
  <2>2. Len(chain) + Placed = Len(next_) /\ Len(next_) <= MaxNodes
    BY DEF CountInv, SizeInv
  <2>3. ASSUME NEW a \in Nat, NEW b \in Nat, NEW d \in Nat, a + b = d
        PROVE  a + (b + 1) = d + 1 /\ (a + 1) + (b - 1) = d
    BY <2>3
  <2>4. Len(chain') + Placed' = Len(next_')
    <3>1. CASE Placed' = Placed + 1 /\ Len(next_') = Len(next_) + 1 /\ Len(chain') = Len(chain)
      BY <1>2, <2>2, <2>3, <3>1
    <3>2. CASE Placed' = Placed - 1 /\ Len(chain') = Len(chain) + 1 /\ Len(next_') = Len(next_)
      BY <1>2, <2>2, <2>3, <3>2
    <3>3. CASE Placed' = Placed /\ Len(chain') = Len(chain) /\ Len(next_') = Len(next_)
      BY <2>2, <3>3
    <3> QED
      BY <1>4, <3>1, <3>2, <3>3
  <2>5. Len(next_') <= MaxNodes
    BY <1>2, <1>4, <2>1, <2>2
  <2> QED
    BY <2>4, <2>5 DEF SizeInv
<1>8. CountTracks'
  <2> DEFINE x == Size - Behindhand + Ahead
             y == Size' - Behindhand' + Ahead'
  <2>1. /\ x \in Int /\ -Word < x /\ x < Word /\ count_ = x % Word
        /\ x % Word = IF x >= 0 THEN x ELSE x + Word
    BY CountValue, CountTracksIs DEF CountInv
  <2>2. /\ y \in Int /\ -Word < y /\ y < Word
        /\ y % Word = IF y >= 0 THEN y ELSE y + Word
    <3>1. y \in Int /\ -Word < y /\ y < Word
      <4>1. ASSUME NEW b \in Nat, b = Behindhand - 1
            PROVE  -Word < Size - b + Ahead /\ Size - b + Ahead < Word
        BY <1>2, <4>1
      <4>2. ASSUME NEW a \in Nat, a = Ahead - 1
            PROVE  -Word < Size - Behindhand + a /\ Size - Behindhand + a < Word
        BY <1>2, <4>2
      <4>3. CASE y = x
        BY <2>1, <4>3
      <4>4. CASE Behindhand' = Behindhand - 1 /\ Size' = Size /\ Ahead' = Ahead
        BY <1>2, <1>3, <4>1, <4>4
      <4>5. CASE Ahead' = Ahead - 1 /\ Size' = Size /\ Behindhand' = Behindhand
        BY <1>2, <1>3, <4>2, <4>5
      <4> QED
        BY <1>5, <4>3, <4>4, <4>5
    <3> HIDE DEF y
    <3> QED
      BY <1>2, <3>1, Wrap
  <2>3. \/ y = x /\ count_' = count_
        \/ y = x + 1 /\ count_' = (count_ + 1) % Word
        \/ y = x - 1 /\ count_' = (count_ - 1) % Word
    <3>1. ASSUME NEW a \in Nat, NEW b \in Nat, NEW d \in Nat
          PROVE  /\ a - (b - 1) + d = a - b + d + 1
                 /\ a - b + (d - 1) = a - b + d - 1
      OBVIOUS
    <3> QED
      BY <1>2, <1>5, <3>1
  <2> HIDE DEF x, y
  <2>4. count_ \in Nat /\ count_ < Word
    BY <1>2, <2>1
  <2>5. CASE y = x /\ count_' = count_
    BY <2>1, <2>5, CountTracksIs DEF y
  <2>6. CASE y = x + 1 /\ count_' = (count_ + 1) % Word
    <3>1. CASE count_ + 1 < Word
      <4>0. count_ + 1 \in Int /\ -Word < count_ + 1 /\ count_ + 1 >= 0 /\ Word \in Nat
        BY <1>2, <2>4
      <4>1. (count_ + 1) % Word = count_ + 1
        BY <3>1, <4>0, Wrap
      <4> QED
        BY <1>2, <2>1, <2>2, <2>4, <2>6, <3>1, <4>1, CountTracksIs DEF y
    <3>2. CASE count_ + 1 = Word
      <4>1. Word % Word = 0
        BY <1>2
      <4>2. count_' = 0
        BY <2>6, <3>2, <4>1
      <4>3. y = 0
        BY <1>2, <2>1, <2>2, <2>4, <2>6, <3>2
      <4>4. y % Word = 0
        BY <2>2, <4>3
      <4> QED
        BY <4>2, <4>4, CountTracksIs DEF y
    <3> QED
      BY <1>2, <2>4, <3>1, <3>2
  <2>7. CASE y = x - 1 /\ count_' = (count_ - 1) % Word
    <3>1. count_ - 1 \in Int /\ -Word < count_ - 1 /\ count_ - 1 < Word
      BY <1>2, <2>1, <2>2, <2>4, <2>7
    <3>2. (count_ - 1) % Word = IF count_ - 1 >= 0 THEN count_ - 1 ELSE count_ - 1 + Word
      BY <1>2, <3>1, Wrap
    <3>3. count_' = y % Word
      BY <1>2, <2>1, <2>2, <2>4, <2>7, <3>2
    <3> QED
      BY <3>3, CountTracksIs DEF y
  <2> QED
    BY <2>3, <2>5, <2>6, <2>7
<1>9. PlaceInv'
  <2>1. ASSUME NEW p \in Producers, push(p), max_count_ > 0
        PROVE  Size + Placed + 1 <= max_count_ + Cardinality(Producers) - 1
    <3>1. pc[p] = "idle" /\ count_ < max_count_
      BY <1>2, <2>1 DEF push, Go, full
    <3>2. Placed + Behindhand + 1 <= Cardinality(Producers)
      BY <3>1, RoomForOne
    <3> DEFINE x == Size - Behindhand + Ahead
    <3>3. x \in Int /\ count_ = IF x >= 0 THEN x ELSE x + Word
      BY CountValue, CountTracksIs DEF CountInv
    <3>4. x = count_
      <4>1. x >= -Cardinality(Threads)
        BY <1>2
      <4> HIDE DEF x
      <4> QED
        BY <1>2, <3>1, <3>3, <4>1
    <3>5. Size <= max_count_ - 1 + Behindhand
      BY <1>2, <3>1, <3>4
    <3>6. Cardinality(Producers) \in Int
      <4>1. Producers \in SUBSET Threads
        BY DEF Threads
      <4> QED
        BY <4>1, ThreadsAssumption, FS_Subset, FS_CardinalityType
    <3> QED
      BY <1>2, <3>2, <3>5, <3>6
  <2>2. Cardinality(Producers) \in Int
    <3>1. Producers \in SUBSET Threads
      BY DEF Threads
    <3> QED
      BY <3>1, ThreadsAssumption, FS_Subset, FS_CardinalityType
  <2>3. max_count_ > 0 => Size' + Placed' <= max_count_ + Cardinality(Producers) - 1
    BY <1>2, <1>4, <2>1, <2>2 DEF CountInv, PlaceInv
  <2> QED
    BY <1>6, <2>3 DEF PlaceInv
<1> QED
  BY <1>7, <1>8, <1>9 DEF CountInv

\* Nodes, places and count_ balance.
THEOREM CountInvariance == Spec => []CountInv
  BY Invariance, CountInit, CountingStep, PTL DEF Spec

\* count_ never loses or gains an item: it is the number of items in the queue,
\* corrected by the calls between their access and their counting, whoever
\* overtakes whom; with no call under way it is the number of items.
THEOREM CounterTracksItems == Spec => []CountTracks
  BY CountInvariance, PTL DEF CountInv

\* The unlocked full() of push() lets the queue grow past its bound by at most
\* the number of the other producers.
THEOREM OvershootIsBounded == Spec => []BoundOvershoot
<1>1. Inv /\ CountInv => BoundOvershoot
  <2> SUFFICES ASSUME Inv, CountInv, max_count_ > 0
               PROVE  Len(Waiting) <= max_count_ + Cardinality(Producers) - 1
    BY DEF BoundOvershoot
  <2>1. Size \in Nat /\ Placed \in Nat /\ max_count_ \in Nat
    BY CountTypes DEF CountInv
  <2>2. Cardinality(Producers) \in Int
    <3>1. Producers \in SUBSET Threads
      BY DEF Threads
    <3> QED
      BY <3>1, ThreadsAssumption, FS_Subset, FS_CardinalityType
  <2>3. Size + Placed <= max_count_ + Cardinality(Producers) - 1
    BY DEF CountInv, PlaceInv
  <2>4. Size <= max_count_ + Cardinality(Producers) - 1
    BY <2>1, <2>2, <2>3
  <2> QED
    BY <2>4 DEF Size
<1> QED
  BY <1>1, Invariance, CountInvariance, PTL

----------------------------------------------------------------------------
(***************************************************************************)
(* One producer and one consumer.                                          *)
(***************************************************************************)
\* What was deleted is behind head_.
FreedInv == \A n \in freed : n \in Elems(chain) /\ Index(chain, n) < Index(chain, head_)

UsersInv == \A t \in Threads : pc[t] # "idle" => t \in users

Solo ==
    /\ \A p, q \in users \cap Producers : p = q
    /\ \A c, d \in users \cap Consumers : c = d
    /\ ~spurious

HoldsHead == {"pop_tail", "pop_next", "pop_check", "pop_help", "pop_read", "pop_cas"}

\* tail_ is at the last node, except between the link and the swing.
TailInv ==
    \/ Index(chain, tail_) = Len(chain)
    \/ \E p \in Producers : pc[p] = "push_swing"

\* What the producer has read is still so.
ProducerInv ==
    \A p \in Producers :
        /\ pc[p] # "push_help"
        /\ pc[p] \in {"push_next", "push_check", "push_link"} => old_tail[p] = tail_
        /\ pc[p] = "push_check" => next_node[p] = Null
        /\ pc[p] = "push_swing" => /\ Index(chain, tail_) >= Len(chain) - 1
                                   /\ mine[p] = chain[Len(chain)]

\* And what the consumer has.
ConsumerInv == \A c \in Consumers : pc[c] \in HoldsHead => old_head[c] = head_

SoloInv == TailInv /\ ProducerInv /\ ConsumerInv

PairInv == FreedInv /\ UsersInv /\ (Solo => SoloInv)

LEMMA FreedStep == Inv /\ Inv' /\ FreedInv /\ [Next]_vars => FreedInv'
<1> SUFFICES ASSUME Inv, Inv', FreedInv, [Next]_vars
             PROVE  FreedInv'
  OBVIOUS
<1>1. Rely
  BY ListStep
<1>2. Index(chain, head_) \in Nat /\ \A n \in Elems(chain) : Index(chain, n) \in Nat
  BY Places DEF Inv
<1>3. Index(chain', head_') \in Nat
  <2>1. chain' \in Seq(Nodes) /\ head_' \in Elems(chain')
    BY DEF Inv, TypeOK, ListInv
  <2> QED
    BY <2>1, IndexIn
<1>4. ASSUME NEW n \in Elems(chain), Index(chain, n) < Index(chain, head_)
      PROVE  n \in Elems(chain') /\ Index(chain', n) < Index(chain', head_')
  BY <1>1, <1>2, <1>3, <1>4 DEF Rely
<1>5. CASE freed' = freed
  BY <1>4, <1>5 DEF FreedInv
<1>6. ASSUME NEW c \in Consumers, pop_delete(c)
      PROVE  FreedInv'
  <2>1. freed' = freed \cup {old_head[c]} /\ pc[c] = "pop_delete"
    BY <1>6 DEF pop_delete, Go
  <2>2. old_head[c] \in Elems(chain) /\ Index(chain, old_head[c]) < Index(chain, head_)
    BY <2>1 DEF Inv, ThreadInv, PopOK
  <2> QED
    BY <1>4, <2>1, <2>2 DEF FreedInv
<1>7. ASSUME NEW p \in Producers, Pushes(p)
      PROVE  freed' = freed
  BY <1>7 DEF Pushes, push, push_tail, push_next, push_check, push_help, push_link,
              push_swing, push_count, shared
<1>8. ASSUME NEW c \in Consumers, Pops(c), ~pop_delete(c)
      PROVE  freed' = freed
  BY <1>8 DEF Pops, pop, pop_head, pop_tail, pop_next, pop_check, pop_help, pop_read,
              pop_cas, pop_count, shared
<1>9. ASSUME UNCHANGED vars
      PROVE  freed' = freed
  BY <1>9 DEF vars, shared
<1> QED
  BY <1>5, <1>6, <1>7, <1>8, <1>9 DEF Next, Pushes, Pops

LEMMA UsersGrow ==
    ASSUME [Next]_vars
    PROVE  users \subseteq users' /\ (spurious => spurious')
<1>1. ASSUME NEW p \in Producers, Pushes(p)
      PROVE  users \subseteq users' /\ (spurious => spurious')
  <2>1. CASE push(p)
    BY <2>1 DEF push, CompareExchangeTail, history
  <2>2. CASE push_tail(p)
    BY <2>2 DEF push_tail, CompareExchangeTail, history
  <2>3. CASE push_next(p)
    BY <2>3 DEF push_next, CompareExchangeTail, history
  <2>4. CASE push_check(p)
    BY <2>4 DEF push_check, CompareExchangeTail, history
  <2>5. CASE push_help(p)
    <3>1. users' = users
      BY <2>5 DEF push_help
    <3>2. spurious' = spurious \/ \E b : spurious' = (spurious \/ b)
      BY <2>5, Zenon DEF push_help, CompareExchangeTail
    <3>3. spurious => spurious'
      BY <3>2, Zenon
    <3> QED
      BY <3>1, <3>3
  <2>6. CASE push_link(p)
    <3>1. users' = users
      BY <2>6 DEF push_link
    <3>2. spurious' = spurious \/ \E b : spurious' = (spurious \/ b)
      BY <2>6, Zenon DEF push_link
    <3>3. spurious => spurious'
      BY <3>2, Zenon
    <3> QED
      BY <3>1, <3>3
  <2>7. CASE push_swing(p)
    <3>1. users' = users
      BY <2>7 DEF push_swing
    <3>2. spurious' = spurious \/ \E b : spurious' = (spurious \/ b)
      BY <2>7, Zenon DEF push_swing, CompareExchangeTail
    <3>3. spurious => spurious'
      BY <3>2, Zenon
    <3> QED
      BY <3>1, <3>3
  <2>8. CASE push_count(p)
    BY <2>8 DEF push_count, CompareExchangeTail, history
  <2> QED
    BY <1>1, <2>1, <2>2, <2>3, <2>4, <2>5, <2>6, <2>7, <2>8
       DEF Pushes
<1>2. ASSUME NEW c \in Consumers, Pops(c)
      PROVE  users \subseteq users' /\ (spurious => spurious')
  <2>1. CASE pop(c)
    BY <2>1 DEF pop, CompareExchangeTail, history
  <2>2. CASE pop_head(c)
    BY <2>2 DEF pop_head, CompareExchangeTail, history
  <2>3. CASE pop_tail(c)
    BY <2>3 DEF pop_tail, CompareExchangeTail, history
  <2>4. CASE pop_next(c)
    BY <2>4 DEF pop_next, CompareExchangeTail, history
  <2>5. CASE pop_check(c)
    BY <2>5 DEF pop_check, CompareExchangeTail, history
  <2>6. CASE pop_help(c)
    <3>1. users' = users
      BY <2>6 DEF pop_help
    <3>2. spurious' = spurious \/ \E b : spurious' = (spurious \/ b)
      BY <2>6, Zenon DEF pop_help, CompareExchangeTail
    <3>3. spurious => spurious'
      BY <3>2, Zenon
    <3> QED
      BY <3>1, <3>3
  <2>7. CASE pop_read(c)
    BY <2>7 DEF pop_read, CompareExchangeTail, history
  <2>8. CASE pop_cas(c)
    <3>1. users' = users
      BY <2>8 DEF pop_cas
    <3>2. spurious' = spurious \/ \E b : spurious' = (spurious \/ b)
      BY <2>8, Zenon DEF pop_cas
    <3>3. spurious => spurious'
      BY <3>2, Zenon
    <3> QED
      BY <3>1, <3>3
  <2>9. CASE pop_delete(c)
    BY <2>9 DEF pop_delete, CompareExchangeTail, history
  <2>10. CASE pop_count(c)
    BY <2>10 DEF pop_count, CompareExchangeTail, history
  <2> QED
    BY <1>2, <2>1, <2>2, <2>3, <2>4, <2>5, <2>6, <2>7, <2>8, <2>9, <2>10
       DEF Pops
<1>3. ASSUME UNCHANGED vars
      PROVE  users \subseteq users' /\ (spurious => spurious')
  BY <1>3 DEF vars, history
<1> QED
  BY <1>1, <1>2, <1>3 DEF Next, Pushes, Pops

LEMMA UsersStep == Inv /\ UsersInv /\ [Next]_vars => UsersInv'
<1> SUFFICES ASSUME Inv, UsersInv, [Next]_vars, NEW t \in Threads, pc'[t] # "idle"
             PROVE  t \in users'
  BY DEF UsersInv
<1>1. users \subseteq users'
  BY UsersGrow
<1>2. CASE Same(t)
  BY <1>1, <1>2 DEF Same, UsersInv
<1>3. CASE Pushes(t)
  <2>1. CASE push(t)
    BY <2>1 DEF push
  <2>2. CASE ~push(t)
    <3>1. pc[t] # "idle"
      BY <1>3, <2>2 DEF Pushes, push_tail, push_next, push_check, push_help, push_link,
                        push_swing, push_count, Go
    <3> QED
      BY <1>1, <3>1 DEF UsersInv
  <2> QED
    BY <2>1, <2>2
<1>4. CASE Pops(t)
  <2>1. CASE pop(t)
    BY <2>1 DEF pop
  <2>2. CASE ~pop(t)
    <3>1. pc[t] # "idle"
      BY <1>4, <2>2 DEF Pops, pop_head, pop_tail, pop_next, pop_check, pop_help, pop_read,
                        pop_cas, pop_delete, pop_count, Go
    <3> QED
      BY <1>1, <3>1 DEF UsersInv
  <2> QED
    BY <2>1, <2>2
<1> QED
  BY <1>2, <1>3, <1>4, ActsOrNot DEF Inv

\* A step of the one producer.
LEMMA SoloPush ==
    ASSUME Inv, SoloInv, NEW p \in Producers, Pushes(p), ~spurious',
           \A q \in Producers : q # p => pc[q] = "idle" /\ pc'[q] = "idle"
    PROVE  TailInv' /\ ProducerInv'
<1> DEFINE Known == /\ pc'[p] # "push_help"
                    /\ pc'[p] \in {"push_next", "push_check", "push_link"} => old_tail'[p] = tail_'
                    /\ pc'[p] = "push_check" => next_node'[p] = Null
                    /\ pc'[p] = "push_swing" => /\ Index(chain', tail_') >= Len(chain') - 1
                                                /\ mine'[p] = chain'[Len(chain')]
<1>0. /\ TypeOK /\ ListInv /\ chain \in Seq(Nodes) /\ Linked(chain, next_) /\ p \in Threads
      /\ tail_ \in Elems(chain) /\ Index(chain, tail_) \in Nat /\ Len(chain) \in Nat
  BY Locals, Places, Kinds DEF Inv, ListInv
<1>1. Known => ProducerInv'
  BY DEF ProducerInv
<1> HIDE DEF Known
<1>2. pc[p] # "push_swing" => Index(chain, tail_) = Len(chain) /\ next_[tail_] = Null
  <2>1. pc[p] # "push_swing" => Index(chain, tail_) = Len(chain)
    BY DEF SoloInv, TailInv
  <2> QED
    BY <1>0, <2>1, Successor
<1>3. ASSUME UNCHANGED <<chain, tail_>>, pc[p] # "push_swing"
      PROVE  TailInv'
  BY <1>2, <1>3 DEF TailInv
<1>4. CASE push(p)
  <2>1. pc[p] = "idle" /\ pc'[p] = "push_tail" /\ UNCHANGED <<chain, tail_>>
    BY <1>0, <1>4, Locals DEF push, Go
  <2>2. Known
    BY <2>1 DEF Known
  <2> QED
    BY <1>1, <1>3, <2>1, <2>2
<1>5. CASE push_tail(p)
  <2>1. /\ pc[p] = "push_tail" /\ pc'[p] = "push_next" /\ old_tail'[p] = tail_
        /\ UNCHANGED <<chain, tail_>>
    BY <1>0, <1>5, Locals DEF push_tail, Go, Note, shared, history
  <2>2. Known
    BY <2>1 DEF Known
  <2> QED
    BY <1>1, <1>3, <2>1, <2>2
<1>6. CASE push_next(p)
  <2>1. /\ pc[p] = "push_next" /\ pc'[p] = "push_check" /\ next_node'[p] = next_[old_tail[p]]
        /\ UNCHANGED <<chain, tail_, old_tail>>
    BY <1>0, <1>6, Locals DEF push_next, Go, Note, shared, history
  <2>2. old_tail[p] = tail_ /\ next_[tail_] = Null
    BY <1>2, <2>1 DEF SoloInv, ProducerInv
  <2>3. Known
    BY <2>1, <2>2 DEF Known
  <2> QED
    BY <1>1, <1>3, <2>1, <2>3
<1>7. CASE push_check(p)
  <2>1. pc[p] = "push_check" /\ UNCHANGED <<chain, tail_>>
    BY <1>7 DEF push_check, Go, shared, history
  <2>2. old_tail[p] = tail_ /\ next_node[p] = Null
    BY <2>1 DEF SoloInv, ProducerInv
  <2>3. Go(p, "push_check", "push_link") /\ old_tail' = old_tail
    BY <1>7, <2>2 DEF push_check
  <2>4. pc'[p] = "push_link"
    BY <1>0, <2>3, Locals DEF Go
  <2>5. Known
    BY <2>1, <2>2, <2>3, <2>4 DEF Known
  <2> QED
    BY <1>1, <1>3, <2>1, <2>5
<1>8. CASE push_help(p)
  BY <1>8 DEF push_help, Go, SoloInv, ProducerInv
<1>9. CASE push_link(p)
  <2>1. pc[p] = "push_link" /\ UNCHANGED <<tail_, mine>>
    BY <1>9 DEF push_link, Go
  <2>2. old_tail[p] = tail_ /\ next_[tail_] = Null /\ Index(chain, tail_) = Len(chain)
    BY <1>2, <2>1 DEF SoloInv, ProducerInv
  <2>3. /\ Linking(chain, next_, old_tail[p], mine[p], chain', next_')
        /\ pc' = [pc EXCEPT ![p] = "push_swing"]
    <3>1. ~(spurious' = (spurious \/ next_[old_tail[p]] = Null))
      BY <2>2, Zenon
    <3> QED
      BY <1>9, <3>1, PushLinks
  <2>4. pc'[p] = "push_swing"
    BY <1>0, <2>3, Locals
  <2>5. /\ Len(chain') = Len(chain) + 1 /\ chain'[Len(chain')] = mine[p]
        /\ Index(chain', tail_) = Index(chain, tail_)
    BY <1>0, <2>3, Link
  <2>6. Index(chain', tail_') >= Len(chain') - 1 /\ mine'[p] = chain'[Len(chain')]
    BY <1>0, <2>1, <2>2, <2>5
  <2>7. Known
    BY <2>4, <2>6 DEF Known
  <2> QED
    BY <1>1, <2>4, <2>7 DEF TailInv
<1>10. CASE push_swing(p)
  <2>1. /\ pc[p] = "push_swing" /\ pc'[p] = "push_count" /\ UNCHANGED <<chain, next_>>
        /\ CompareExchangeTail(old_tail[p], mine[p])
    BY <1>0, <1>10, Locals DEF push_swing, Go
  <2>2. Index(chain, tail_) >= Len(chain) - 1 /\ mine[p] = chain[Len(chain)]
    BY <2>1 DEF SoloInv, ProducerInv
  <2>3. old_tail[p] \in Elems(chain) /\ next_[old_tail[p]] = mine[p] /\ mine[p] # Null
    BY <2>1 DEF Inv, ThreadInv, PushOK
  <2>4. /\ Index(chain, mine[p]) = Index(chain, old_tail[p]) + 1
        /\ Index(chain, old_tail[p]) \in Nat
    BY <1>0, <2>3, Successor
  <2>5. Index(chain, mine[p]) = Len(chain)
    <3>1. Len(chain) \in 1..Len(chain)
      BY <1>0, Successor
    <3> QED
      BY <1>0, <2>2, <3>1, IndexOf
  <2>6. Index(chain, tail_) <= Len(chain)
    BY <1>0, Places
  <2>7. Index(chain, tail_') = Len(chain)
    <3>1. CASE tail_ = old_tail[p]
      <4>1. ~(spurious' = (spurious \/ tail_ = old_tail[p]))
        BY <3>1, Zenon
      <4>2. tail_' = mine[p]
        BY <2>1, <4>1 DEF CompareExchangeTail
      <4> QED
        BY <2>5, <4>2
    <3>2. CASE tail_ # old_tail[p]
      <4>1. tail_' = tail_
        BY <2>1, <3>2 DEF CompareExchangeTail
      <4>2. Index(chain, tail_) # Index(chain, old_tail[p])
        BY <1>0, <2>3, <3>2, IndexInjective
      <4>3. Index(chain, tail_) = Len(chain)
        BY <1>0, <2>2, <2>4, <2>5, <2>6, <4>2
      <4> QED
        BY <4>1, <4>3
    <3> QED
      BY <3>1, <3>2
  <2>8. TailInv'
    BY <2>1, <2>7 DEF TailInv
  <2>9. Known
    BY <2>1 DEF Known
  <2> QED
    BY <1>1, <2>8, <2>9
<1>11. CASE push_count(p)
  <2>1. pc[p] = "push_count" /\ pc'[p] = "idle" /\ UNCHANGED <<chain, tail_>>
    BY <1>0, <1>11, Locals DEF push_count, Go, history
  <2>2. Known
    BY <2>1 DEF Known
  <2> QED
    BY <1>1, <1>3, <2>1, <2>2
<1> QED
  BY <1>4, <1>5, <1>6, <1>7, <1>8, <1>9, <1>10, <1>11 DEF Pushes

\* A step of the one consumer: tail_ stays, or it moves on for the producer
\* that has linked its node.
LEMMA SoloPop ==
    ASSUME Inv, Rely, ListInv', TypeOK', SoloInv, NEW c \in Consumers, Pops(c),
           \A p, q \in Producers : pc[p] # "idle" /\ pc[q] # "idle" => p = q,
           \A p \in Producers : Same(p),
           \A d \in Consumers : d # c => pc'[d] = "idle"
    PROVE  SoloInv'
<1>0. /\ TypeOK /\ ListInv /\ chain \in Seq(Nodes) /\ Linked(chain, next_) /\ c \in Threads
      /\ tail_ \in Elems(chain) /\ Index(chain, tail_) \in Nat /\ Len(chain) \in Nat
  BY Locals, Places, Kinds DEF Inv, ListInv
<1>1. chain' = chain
  BY DEF Pops, pop, pop_head, pop_tail, pop_next, pop_check, pop_help, pop_cas, pop_read,
         pop_delete, pop_count, history
<1>2. Index(chain, tail_) = Len(chain) => tail_' = tail_
  <2>1. CASE pop_help(c)
    <3>1. pc[c] = "pop_help" /\ CompareExchangeTail(old_tail[c], next_node[c])
      BY <2>1 DEF pop_help, Go
    <3>2. next_node[c] # Null /\ next_[old_tail[c]] = next_node[c]
      BY <3>1 DEF Inv, ThreadInv, PopOK
    <3>3. Index(chain, tail_) = Len(chain) => next_[tail_] = Null
      BY <1>0, Successor
    <3> QED
      BY <3>1, <3>2, <3>3 DEF CompareExchangeTail
  <2>2. CASE ~pop_help(c)
    BY <2>2 DEF Pops, pop, pop_head, pop_tail, pop_next, pop_check, pop_cas, pop_read,
                pop_delete, pop_count, shared
  <2> QED
    BY <2>1, <2>2
<1>3. TailInv'
  BY <1>1, <1>2 DEF TailInv, SoloInv, Same
<1>4. ASSUME NEW p \in Producers
      PROVE  /\ pc'[p] # "push_help"
             /\ pc'[p] \in {"push_next", "push_check", "push_link"} => old_tail'[p] = tail_'
             /\ pc'[p] = "push_check" => next_node'[p] = Null
             /\ pc'[p] = "push_swing" => /\ Index(chain', tail_') >= Len(chain') - 1
                                         /\ mine'[p] = chain'[Len(chain')]
  <2>1. /\ pc'[p] = pc[p] /\ old_tail'[p] = old_tail[p] /\ next_node'[p] = next_node[p]
        /\ mine'[p] = mine[p]
    BY DEF Same
  <2>2. pc[p] # "push_help" /\ (pc[p] = "push_check" => next_node[p] = Null)
    BY DEF SoloInv, ProducerInv
  <2>3. ASSUME pc[p] \in {"push_next", "push_check", "push_link"}
        PROVE  old_tail[p] = tail_'
    <3>1. \A q \in Producers : pc[q] # "push_swing"
      BY <2>3
    <3>2. tail_' = tail_
      BY <1>2, <3>1 DEF SoloInv, TailInv
    <3> QED
      BY <2>3, <3>2 DEF SoloInv, ProducerInv
  <2>4. ASSUME pc[p] = "push_swing"
        PROVE  Index(chain, tail_') >= Len(chain) - 1 /\ mine[p] = chain[Len(chain)]
    <3>1. Index(chain, tail_) >= Len(chain) - 1 /\ mine[p] = chain[Len(chain)]
      BY <2>4 DEF SoloInv, ProducerInv
    <3>2. Index(chain, tail_) <= Index(chain, tail_')
      BY <1>1 DEF Rely
    <3>3. Index(chain, tail_') \in Nat
      <4>1. tail_' \in Elems(chain)
        BY <1>1 DEF ListInv
      <4> QED
        BY <1>0, <4>1, Places
    <3> QED
      BY <1>0, <3>1, <3>2, <3>3
  <2> QED
    BY <1>1, <2>1, <2>2, <2>3, <2>4
<1>5. ProducerInv'
  BY <1>4 DEF ProducerInv
<1>6. pc'[c] \in HoldsHead => old_head'[c] = head_'
  <2> USE DEF HoldsHead, SoloInv, ConsumerInv
  <2>1. CASE pop_head(c)
    BY <1>0, <2>1, Locals DEF pop_head, Go, Note, shared
  <2>2. CASE pop_tail(c)
    BY <1>0, <2>2, Locals DEF pop_tail, Go, Note, shared
  <2>3. CASE pop_next(c)
    BY <1>0, <2>3, Locals DEF pop_next, Go, Note, shared
  <2>4. CASE pop_check(c)
    BY <1>0, <2>4, Locals DEF pop_check, Go, shared
  <2>5. CASE pop_read(c)
    BY <1>0, <2>5, Locals DEF pop_read, Go, shared
  <2>6. CASE pop(c) \/ pop_help(c) \/ pop_cas(c) \/ pop_delete(c) \/ pop_count(c)
    BY <1>0, <2>6, Locals DEF pop, pop_help, pop_cas, pop_delete, pop_count, Go
  <2> QED
    BY <2>1, <2>2, <2>3, <2>4, <2>5, <2>6 DEF Pops
<1>7. ConsumerInv'
  BY <1>6 DEF ConsumerInv, HoldsHead
<1> QED
  BY <1>3, <1>5, <1>7 DEF SoloInv

LEMMA PairInit == Init => PairInv
<1> SUFFICES ASSUME Init
             PROVE  PairInv
  OBVIOUS
<1>1. /\ \A t \in Threads : pc[t] = "idle"
      /\ freed = {} /\ Len(chain) = 1
  BY DEF Init
<1>2. Index(chain, tail_) = Len(chain)
  <2>1. Index(chain, tail_) \in 1..Len(chain)
    BY InvInit, IndexIn, Locals DEF Inv, ListInv
  <2> QED
    BY <1>1, <2>1
<1> QED
  BY <1>1, <1>2, Kinds DEF PairInv, FreedInv, UsersInv, SoloInv, TailInv, ProducerInv,
                           ConsumerInv, HoldsHead

LEMMA PairStep == Inv /\ Inv' /\ PairInv /\ [Next]_vars => PairInv'
<1> SUFFICES ASSUME Inv, Inv', PairInv, [Next]_vars
             PROVE  PairInv'
  OBVIOUS
<1>0. TypeOK /\ TypeOK' /\ ListInv' /\ Rely
  BY ListStep DEF Inv
<1>1. FreedInv' /\ UsersInv'
  BY FreedStep, UsersStep DEF PairInv
<1>2. ASSUME Solo'
      PROVE  SoloInv'
  <2>1. Solo /\ SoloInv
    <3>1. Solo
      BY <1>2, UsersGrow DEF Solo
    <3> QED
      BY <3>1 DEF PairInv
  <2>2. /\ \A p, q \in Producers : pc[p] # "idle" /\ pc[q] # "idle" => p = q
        /\ \A c, d \in Consumers : pc[c] # "idle" /\ pc[d] # "idle" => c = d
    BY <2>1, Kinds DEF Solo, PairInv, UsersInv
  <2>3. /\ \A p, q \in Producers : pc'[p] # "idle" /\ pc'[q] # "idle" => p = q
        /\ \A c, d \in Consumers : pc'[c] # "idle" /\ pc'[d] # "idle" => c = d
    BY <1>1, <1>2, Kinds DEF Solo, UsersInv
  <2>4. ASSUME NEW p \in Producers, Pushes(p)
        PROVE  SoloInv'
    <3>1. \A t \in Threads \ {p} : Same(t)
      BY <1>0, <2>4, OthersSame, Kinds DEF Pushes
    <3>2. pc[p] # "idle" \/ pc'[p] # "idle"
      BY <1>0, <2>4, Kinds, Locals
         DEF Pushes, push, push_tail, push_next, push_check, push_help, push_link,
             push_swing, push_count, Go
    <3>3. \A q \in Producers : q # p => pc[q] = "idle" /\ pc'[q] = "idle"
      BY <2>2, <2>3, <3>1, <3>2, Kinds DEF Same
    <3>4. TailInv' /\ ProducerInv'
      <4>1. ~spurious'
        BY <1>2 DEF Solo
      <4> QED
        BY <2>1, <2>4, <3>3, <4>1, SoloPush
    <3>5. head_' = head_
      BY <2>4 DEF Pushes, push, push_tail, push_next, push_check, push_help, push_link,
                  push_swing, push_count, shared
    <3>6. \A c \in Consumers : Same(c)
      BY <3>1, Kinds
    <3>7. ConsumerInv'
      BY <2>1, <3>5, <3>6 DEF ConsumerInv, SoloInv, Same
    <3> QED
      BY <3>4, <3>7 DEF SoloInv
  <2>5. ASSUME NEW c \in Consumers, Pops(c)
        PROVE  SoloInv'
    <3>1. \A t \in Threads \ {c} : Same(t)
      BY <1>0, <2>5, OthersSame, Kinds DEF Pops
    <3>2. pc[c] # "idle" \/ pc'[c] # "idle"
      BY <1>0, <2>5, Kinds, Locals
         DEF Pops, pop, pop_head, pop_tail, pop_next, pop_check, pop_help, pop_read, pop_cas,
             pop_delete, pop_count, Go
    <3>3. \A d \in Consumers : d # c => pc'[d] = "idle"
      BY <2>2, <2>3, <3>1, <3>2, Kinds DEF Same
    <3>4. \A p \in Producers : Same(p)
      BY <3>1, Kinds
    <3> QED
      BY <1>0, <2>1, <2>2, <2>5, <3>3, <3>4, SoloPop
  <2>6. ASSUME UNCHANGED vars
        PROVE  SoloInv'
    <3>1. UNCHANGED <<pc, chain, head_, tail_, old_head, old_tail, next_node, mine>>
      BY <2>6 DEF vars, shared, locals, history
    <3> QED
      BY <2>1, <3>1 DEF SoloInv, TailInv, ProducerInv, ConsumerInv
  <2> QED
    BY <2>4, <2>5, <2>6 DEF Next, Pushes, Pops
<1> QED
  BY <1>1, <1>2 DEF PairInv

LEMMA AtMostOne ==
    ASSUME NEW S, IsFiniteSet(S), Cardinality(S) <= 1
    PROVE  \A x, y \in S : x = y
<1>1. Cardinality(S) = 0 \/ Cardinality(S) = 1
  BY FS_CardinalityType
<1>2. CASE Cardinality(S) = 0
  BY <1>2, FS_EmptySet
<1>3. CASE Cardinality(S) = 1
  <2>1. \E x : S = {x}
    BY <1>3, FS_Singleton
  <2> QED
    BY <2>1
<1> QED
  BY <1>1, <1>2, <1>3

\* With one producer and one consumer no access goes to a deleted node, as long
\* as no compare_exchange_weak fails without a reason.
THEOREM OneEachIsSafe == Spec => []SafeForOneEach
<1>1. Spec => []PairInv
  BY Invariance, PairInit, PairStep, PTL DEF Spec
<1>2. Inv /\ PairInv => SafeForOneEach
  <2> SUFFICES ASSUME Inv, PairInv, Cardinality(users \cap Producers) <= 1,
                      Cardinality(users \cap Consumers) <= 1, ~spurious
               PROVE  NoUseAfterFree
    BY DEF SafeForOneEach
  <2>1. Solo
    <3>1. users \cap Producers \in SUBSET Threads /\ users \cap Consumers \in SUBSET Threads
      BY DEF Threads
    <3>2. IsFiniteSet(users \cap Producers) /\ IsFiniteSet(users \cap Consumers)
      BY <3>1, ThreadsAssumption, FS_Subset
    <3>3. \A x, y \in users \cap Producers : x = y
      BY <3>2, AtMostOne
    <3>4. \A x, y \in users \cap Consumers : x = y
      BY <3>2, AtMostOne
    <3> QED
      BY <3>3, <3>4 DEF Solo
  <2>2. SoloInv /\ FreedInv
    BY <2>1 DEF PairInv
  <2>3. /\ TypeOK /\ ListInv /\ chain \in Seq(Nodes) /\ Linked(chain, next_)
        /\ head_ \in Elems(chain) /\ tail_ \in Elems(chain)
        /\ Index(chain, head_) <= Index(chain, tail_)
        /\ Index(chain, head_) \in Nat /\ Index(chain, tail_) \in Nat
        /\ \A n \in Elems(chain) : Index(chain, n) \in Nat
    BY Locals, Places DEF Inv, ListInv
  <2>4. ASSUME NEW n \in Elems(chain), Index(chain, n) >= Index(chain, head_)
        PROVE  n \notin freed
    BY <2>2, <2>3, <2>4 DEF FreedInv
  <2>5. head_ \notin freed /\ tail_ \notin freed
    BY <2>3, <2>4
  <2>6. \A p \in Producers : pc[p] \in {"push_next", "push_link"} => old_tail[p] = tail_
    BY <2>2 DEF SoloInv, ProducerInv
  <2>7. \A c \in Consumers : pc[c] \in {"pop_next", "pop_read"} => old_head[c] = head_
    BY <2>2 DEF SoloInv, ConsumerInv, HoldsHead
  <2>8. ASSUME NEW c \in Consumers, pc[c] = "pop_read"
        PROVE  next_node[c] \notin freed
    <3>1. next_node[c] # Null /\ next_[head_] = next_node[c]
      BY <2>7, <2>8, Reads
    <3>2. /\ next_node[c] \in Elems(chain)
          /\ Index(chain, next_node[c]) = Index(chain, head_) + 1
      BY <2>3, <3>1, Successor
    <3> QED
      BY <2>3, <2>4, <3>2
  <2>9. /\ \A t \in At({"push_next", "push_link"}) : t \in Producers
        /\ \A t \in At({"pop_next"}) : t \in Consumers
        /\ \A t \in At({"pop_read"}) : t \in Consumers
    <3>1. \A c \in Consumers : pc[c] \notin {"push_next", "push_link"}
      BY DEF Inv, ThreadInv, PopOK, PopLabels
    <3>2. \A p \in Producers : pc[p] \notin {"pop_next", "pop_read"}
      BY DEF Inv, ThreadInv, PushOK, Unlinked, Uncounted
    <3> QED
      BY <3>1, <3>2, Kinds DEF At
  <2> QED
    BY <2>5, <2>6, <2>7, <2>8, <2>9 DEF NoUseAfterFree, At
<1> QED
  BY <1>1, <1>2, Invariance, PTL
=============================================================================
