--------------------------- MODULE TcpServerProofs ---------------------------
(***************************************************************************)
(* Proofs about TcpServer, for every set of connections and every size of  *)
(* the pool.                                                               *)
(*                                                                         *)
(* Registered alone is not inductive: it does not say which closures can   *)
(* still be queued for a connection.  ClosureInv does: a queued            *)
(* handle_establish is for a connection that is accepted and no further,   *)
(* a queued remove_conn_loop for one that has ended.  OnceInv keeps        *)
(* handle_establish from running twice, which would bring back to life a   *)
(* connection that has ended; AcceptInv keeps the connection that is being *)
(* accepted out of everybody else's hands; ReportInv keeps a connection    *)
(* from ending before it was established.                                  *)
(***************************************************************************)
EXTENDS TcpServer, FiniteSetTheorems, TLAPS

Elems(s) == {s[k] : k \in DOMAIN s}

PoolInv == next_ = 0 \/ next_ < num_

ClosureInv ==
    \A l \in Loops : \A x \in Elems(queue[l]) :
        /\ x.f \in {"handle_establish", "remove_conn_loop"} => x.conn \in Conns
        /\ x.f = "handle_establish" => stage[x.conn] = "accepted" /\ home[x.conn] = l
        /\ x.f = "remove_conn_loop" => stage[x.conn] = "ended" /\ l = Base

Once(s) ==
    \A j, k \in DOMAIN s : s[j].f = "handle_establish" /\ s[j] = s[k] => j = k

OnceInv == \A l \in Loops : Once(queue[l])

AcceptInv ==
    /\ accepting = None <=> outcome = "none"
    /\ accepting # None => stage[accepting] = "new"
    /\ accepting # None /\ ~crashed => accepting \notin connections_

ReportInv == \A c \in Conns : reports[c] > 0 => stage[c] \in {"up", "ended"}

\* Registered, with the queue the closure is in.
Entered ==
    \A c \in Conns :
        /\ stage[c] \in {"accepted", "up"} => c \in connections_
        /\ stage[c] = "ended" /\ c \in connections_
             => Closure("remove_conn_loop", c) \in Elems(queue[Base])

Inv == /\ TypeOK /\ PoolInv /\ ClosureInv /\ OnceInv /\ AcceptInv /\ ReportInv
       /\ Entered

\* The actions, one disjunct per action.
LEMMA NextCases ==
    ASSUME Next
    PROVE  /\ ~crashed
           /\ \/ \E opened \in BOOLEAN : start_failed(opened)
              \/ start
              \/ client_arrives
              \/ accept_done
              \/ client_resets
              \/ \E left \in BOOLEAN : accept_fails(left)
              \/ \E c \in Conns : run_accept_loop(c)
              \/ \E c \in Conns : handle_accept(c)
              \/ \E c \in Conns : handle_accept_error(c)
              \/ \E c \in Conns : conn_ends(c)
              \/ \E c \in Conns : no_more_reports(c)
              \/ handle_accept_throws
              \/ remove_conn_loop
              \/ \E l \in Loops : handle_establish(l)
              \/ \E l \in Loops : quit_loop(l)
              \/ quit
              \/ quit_post
              \/ stop
              \/ stop_joined
  BY DEF Next

----------------------------------------------------------------------------
(***************************************************************************)
(* Queues of closures.                                                     *)
(***************************************************************************)
LEMMA ElemsAppend ==
    ASSUME NEW s \in Seq(Closures), NEW x \in Closures
    PROVE  /\ Append(s, x) \in Seq(Closures)
           /\ Elems(Append(s, x)) = Elems(s) \cup {x}
           /\ Once(s) /\ (x.f = "handle_establish" => x \notin Elems(s))
                => Once(Append(s, x))
<1> DEFINE u == Append(s, x)
<1>1. /\ Len(s) \in Nat /\ DOMAIN s = 1..Len(s) /\ DOMAIN u = 1..(Len(s) + 1)
      /\ \A i \in 1..Len(s) : u[i] = s[i]
      /\ u[Len(s) + 1] = x /\ u \in Seq(Closures)
  OBVIOUS
<1> HIDE DEF u
<1>2. Len(s) + 1 \in DOMAIN u
  BY <1>1
<1>3. \A i \in DOMAIN u : i \in DOMAIN s \/ i = Len(s) + 1
  BY <1>1
<1>4. \A i \in DOMAIN s : i \in DOMAIN u
  BY <1>1
<1>5. Elems(u) = Elems(s) \cup {x}
  <2>1. \A y \in Elems(u) : y \in Elems(s) \cup {x}
    BY <1>1, <1>3 DEF Elems
  <2>2. \A y \in Elems(s) : y \in Elems(u)
    BY <1>1, <1>4 DEF Elems
  <2>3. x \in Elems(u)
    BY <1>1, <1>2 DEF Elems
  <2> QED
    BY <2>1, <2>2, <2>3
<1>6. ASSUME Once(s), x.f = "handle_establish" => x \notin Elems(s),
             NEW j \in DOMAIN u, NEW k \in DOMAIN u,
             u[j].f = "handle_establish", u[j] = u[k]
      PROVE  j = k
  <2>1. \A i \in DOMAIN s : s[i] \in Elems(s)
    BY DEF Elems
  <2>2. CASE j \in DOMAIN s /\ k \in DOMAIN s
    <3>1. u[j] = s[j] /\ u[k] = s[k]
      BY <1>1, <2>2
    <3> QED
      BY <1>6, <2>2, <3>1 DEF Once
  <2>3. CASE j \in DOMAIN s /\ k = Len(s) + 1
    BY <1>1, <1>6, <2>1, <2>3
  <2>4. CASE k \in DOMAIN s /\ j = Len(s) + 1
    BY <1>1, <1>6, <2>1, <2>4
  <2> QED
    BY <1>3, <2>2, <2>3, <2>4
<1>7. ASSUME Once(s), x.f = "handle_establish" => x \notin Elems(s)
      PROVE  Once(u)
  BY <1>6, <1>7 DEF Once
<1> QED
  BY <1>1, <1>5, <1>7 DEF u

LEMMA ElemsTail ==
    ASSUME NEW s \in Seq(Closures), s # <<>>
    PROVE  /\ Tail(s) \in Seq(Closures) /\ Head(s) \in Closures
           /\ Elems(s) = Elems(Tail(s)) \cup {Head(s)}
           /\ Once(s) => Once(Tail(s))
           /\ Once(s) /\ Head(s).f = "handle_establish" => Head(s) \notin Elems(Tail(s))
<1> DEFINE t == Tail(s)
<1>1. /\ Len(s) \in Nat /\ Len(s) > 0 /\ Head(s) = s[1] /\ DOMAIN s = 1..Len(s)
      /\ DOMAIN t = 1..(Len(s) - 1)
      /\ \A i \in 1..(Len(s) - 1) : t[i] = s[i + 1]
      /\ t \in Seq(Closures) /\ Head(s) \in Closures
  OBVIOUS
<1> HIDE DEF t
<1>2. \A i \in DOMAIN t : i \in Nat /\ i + 1 \in DOMAIN s /\ 1 # i + 1 /\ t[i] = s[i + 1]
  BY <1>1
<1>3. \A i \in DOMAIN s : i = 1 \/ (i - 1 \in DOMAIN t /\ t[i - 1] = s[i])
  BY <1>1
<1>4. 1 \in DOMAIN s
  BY <1>1
<1>5. Elems(s) = Elems(t) \cup {s[1]}
  <2>1. \A y \in Elems(s) : y \in Elems(t) \cup {s[1]}
    BY <1>3 DEF Elems
  <2>2. \A y \in Elems(t) : y \in Elems(s)
    BY <1>2 DEF Elems
  <2>3. s[1] \in Elems(s)
    BY <1>4 DEF Elems
  <2> QED
    BY <2>1, <2>2, <2>3
<1>6. ASSUME Once(s)
      PROVE  Once(t)
  <2>1. ASSUME NEW j \in DOMAIN t, NEW k \in DOMAIN t,
               t[j].f = "handle_establish", t[j] = t[k]
        PROVE  j = k
    <3>1. j + 1 = k + 1
      BY <1>2, <1>6, <2>1 DEF Once
    <3> QED
      BY <1>2, <3>1
  <2> QED
    BY <2>1 DEF Once
<1>7. ASSUME Once(s), s[1].f = "handle_establish", s[1] \in Elems(t)
      PROVE  FALSE
  <2>1. PICK i \in DOMAIN t : t[i] = s[1]
    BY <1>7 DEF Elems
  <2>2. i + 1 \in DOMAIN s /\ s[i + 1] = s[1] /\ 1 # i + 1
    BY <1>2, <2>1
  <2> QED
    BY <1>4, <1>7, <2>2 DEF Once
<1> QED
  BY <1>1, <1>5, <1>6, <1>7 DEF t

LEMMA ElemsEmpty ==
    /\ <<>> \in Seq(Closures) /\ Elems(<<>>) = {} /\ Once(<<>>)
  BY DEF Elems, Once

\* What InUse says in terms of Elems.
LEMMA NotInUse ==
    ASSUME TypeOK, NEW c \in Conns, ~InUse(c)
    PROVE  /\ stage[c] \in {"none", "ended"} /\ reports[c] = 0 /\ c \notin connections_
           /\ \A l \in Loops : \A x \in Elems(queue[l]) : x.conn # c
<1>1. \A l \in Loops : \A x \in Elems(queue[l]) : x \in Queued
  BY DEF Queued, Elems
<1>2. stage[c] \in {"none", "new", "accepted", "up", "ended"} /\ reports[c] \in 0..2
  BY DEF TypeOK
<1> QED
  BY <1>1, <1>2 DEF InUse

LEMMA BaseIsLoop == Base \in Loops
  BY ConnsAssumption DEF Base, Loops

LEMMA ClosureType ==
    ASSUME NEW c \in Conns
    PROVE  /\ Closure("handle_establish", c) \in Closures
           /\ Closure("remove_conn_loop", c) \in Closures
           /\ Closure("accept_loop", None) \in Closures
           /\ Closure("quit_loop", None) \in Closures
  BY DEF Closure, Closures

LEMMA QueueAppend ==
    ASSUME NEW q \in [Loops -> Seq(Closures)], NEW m \in Loops, NEW x \in Closures,
           NEW p, p = [q EXCEPT ![m] = Append(@, x)]
    PROVE  p \in [Loops -> Seq(Closures)]
<1>1. q[m] \in Seq(Closures) /\ p[m] = Append(q[m], x)
  OBVIOUS
<1> QED
  BY <1>1, ElemsAppend

LEMMA QueuePop ==
    ASSUME NEW q \in [Loops -> Seq(Closures)], NEW m \in Loops, q[m] # <<>>,
           NEW p, p = [q EXCEPT ![m] = Tail(@)]
    PROVE  p \in [Loops -> Seq(Closures)]
<1>1. q[m] \in Seq(Closures) /\ p[m] = Tail(q[m])
  OBVIOUS
<1> QED
  BY <1>1, ElemsTail

\* The next loop is one of the pool, or the base loop if there is none.
LEMMA AcceptLoop ==
    ASSUME TypeOK, PoolInv, NEW c \in Conns, accept_loop(c), num_' = num_
    PROVE  /\ accepting' = c /\ outcome' = "busy"
           /\ home' \in [Conns -> Loops] /\ home'[c] <= num_
           /\ \A d \in Conns \ {c} : home'[d] = home[d]
           /\ next_' \in Loops /\ PoolInv'
<1>1. get_nextloop \in Loops /\ get_nextloop <= num_
  BY ConnsAssumption DEF get_nextloop, Base, Loops, TypeOK, PoolInv
<1>2. home' = [home EXCEPT ![c] = get_nextloop] /\ home \in [Conns -> Loops]
  BY DEF accept_loop, TypeOK
<1>3. next_' \in Loops /\ PoolInv'
  <2>1. CASE num_ = 0
    BY <2>1 DEF accept_loop, TypeOK, PoolInv
  <2>2. CASE num_ # 0
    <3>1. num_ \in Nat /\ num_ > 0 /\ next_ + 1 \in Nat /\ num_ <= MaxLoops /\ MaxLoops \in Nat
      BY <2>2, ConnsAssumption DEF TypeOK, Loops
    <3>2. (next_ + 1) % num_ \in 0..(num_ - 1)
      BY <3>1
    <3>3. next_' = (next_ + 1) % num_
      BY <2>2 DEF accept_loop
    <3> HIDE DEF PoolInv
    <3>4. next_' \in Nat /\ next_' < num_
      BY <3>1, <3>2, <3>3
    <3> QED
      BY <3>1, <3>4 DEF Loops, PoolInv
  <2> QED
    BY <2>1, <2>2
<1> QED
  BY <1>1, <1>2, <1>3 DEF accept_loop

----------------------------------------------------------------------------
LEMMA InvInit == Init => Inv
<1> SUFFICES ASSUME Init
             PROVE  Inv
  OBVIOUS
<1>1. \A l \in Loops : queue[l] = <<>> /\ Elems(queue[l]) = {} /\ Once(queue[l])
  BY ElemsEmpty DEF Init
<1>2. TypeOK
  <2>1. queue \in [Loops -> Seq(Closures)]
    BY ElemsEmpty DEF Init
  <2>2. next_ \in Loops /\ home \in [Conns -> Loops]
    BY BaseIsLoop DEF Init, Base
  <2>3. /\ life \in [Loops -> {"none", "running", "stopped", "destroyed"}]
        /\ stage \in [Conns -> {"none", "new", "accepted", "up", "ended"}]
        /\ reports \in [Conns -> 0..2]
    BY DEF Init
  <2> QED
    BY <2>1, <2>2, <2>3 DEF Init, TypeOK
<1>3. PoolInv /\ ClosureInv /\ OnceInv /\ AcceptInv /\ ReportInv /\ Entered
  BY <1>1 DEF Init, PoolInv, ClosureInv, OnceInv, AcceptInv, ReportInv, Entered
<1> QED
  BY <1>2, <1>3 DEF Inv

LEMMA TypeStep == Inv /\ [Next]_vars => TypeOK' /\ PoolInv'
<1> SUFFICES ASSUME Inv, [Next]_vars
             PROVE  TypeOK' /\ PoolInv'
  OBVIOUS
<1>0. TypeOK /\ PoolInv /\ queue \in [Loops -> Seq(Closures)] /\ Base \in Loops
  BY BaseIsLoop DEF Inv, TypeOK
<1> USE DEF TypeOK, PoolInv
<1>1. ASSUME NEW opened \in BOOLEAN, start_failed(opened)
      PROVE  TypeOK' /\ PoolInv'
  BY <1>0, <1>1 DEF start_failed, conn
<1>2. CASE start
  <2>1. queue' \in [Loops -> Seq(Closures)]
    <3>1. Closure("accept_loop", None) \in Closures
      BY DEF Closure, Closures
    <3> QED
      BY <1>0, <1>2, <3>1, QueueAppend DEF start
  <2> QED
    BY <1>0, <1>2, <2>1, ConnsAssumption DEF start, conn, Loops
<1>3. CASE client_arrives
  BY <1>0, <1>3 DEF client_arrives, conn
<1>4. CASE accept_done
  BY <1>0, <1>4 DEF accept_done, conn
<1>5. CASE client_resets
  BY <1>0, <1>5 DEF client_resets, conn
<1>6. ASSUME NEW left \in BOOLEAN, accept_fails(left)
      PROVE  TypeOK' /\ PoolInv'
  <2>1. backlog' \in Nat
    BY <1>0, <1>6 DEF accept_fails
  <2> QED
    BY <1>0, <1>6, <2>1 DEF accept_fails, conn
<1>7. ASSUME NEW c \in Conns, run_accept_loop(c)
      PROVE  TypeOK' /\ PoolInv'
  <2>1. queue' \in [Loops -> Seq(Closures)]
    BY <1>0, <1>7, QueuePop DEF run_accept_loop
  <2>2. accept_loop(c) /\ num_' = num_
    BY <1>7 DEF run_accept_loop
  <2>3. /\ accepting' = c /\ outcome' = "busy" /\ home' \in [Conns -> Loops]
        /\ next_' \in Loops /\ PoolInv'
    BY <1>0, <2>2, AcceptLoop
  <2> QED
    BY <1>0, <1>7, <2>1, <2>3 DEF run_accept_loop
<1>8. ASSUME NEW c \in Conns, handle_accept(c)
      PROVE  TypeOK' /\ PoolInv'
  <2>0. accepting \in Conns
    BY <1>0, <1>8 DEF handle_accept, Inv, AcceptInv
  <2>1. queue' \in [Loops -> Seq(Closures)]
    <3>1. home[accepting] \in Loops /\ Closure("handle_establish", accepting) \in Closures
      BY <1>0, <2>0, ClosureType
    <3>2. \/ queue' = queue
          \/ queue' = [queue EXCEPT ![home[accepting]] =
                          Append(@, Closure("handle_establish", accepting))]
      BY <1>8 DEF handle_accept
    <3>3. CASE queue' = queue
      BY <1>0, <3>3
    <3>4. CASE queue' = [queue EXCEPT ![home[accepting]] =
                            Append(@, Closure("handle_establish", accepting))]
      BY <1>0, <3>1, <3>4, QueueAppend
    <3> QED
      BY <3>2, <3>3, <3>4
  <2>2. accept_loop(c) /\ num_' = num_
    BY <1>8 DEF handle_accept
  <2>3. /\ accepting' = c /\ outcome' = "busy" /\ home' \in [Conns -> Loops]
        /\ next_' \in Loops /\ PoolInv'
    BY <1>0, <2>2, AcceptLoop
  <2>4. /\ stage' \in [Conns -> {"none", "new", "accepted", "up", "ended"}]
        /\ reports' \in [Conns -> 0..2]
        /\ connections_' \subseteq Conns
    <3>1. /\ \/ stage' = [stage EXCEPT ![accepting] = "up", ![c] = "new"]
             \/ stage' = [stage EXCEPT ![accepting] = "accepted", ![c] = "new"]
          /\ connections_' = connections_ \cup {accepting}
      BY <1>8 DEF handle_accept
    <3>2. stage' \in [Conns -> {"none", "new", "accepted", "up", "ended"}]
      BY <1>0, <2>0, <3>1
    <3>3. reports' \in [Conns -> 0..2]
      <4>1. reports' = [reports EXCEPT ![accepting] = 2] \/ reports' = reports
        BY <1>8 DEF handle_accept
      <4>2. reports \in [Conns -> 0..2] /\ 2 \in 0..2
        BY <1>0
      <4> QED
        BY <2>0, <4>1, <4>2
    <3>4. connections_' \subseteq Conns
      BY <1>0, <2>0, <3>1
    <3> QED
      BY <3>2, <3>3, <3>4
  <2> QED
    BY <1>0, <1>8, <2>1, <2>3, <2>4 DEF handle_accept
<1>9. ASSUME NEW c \in Conns, handle_accept_error(c)
      PROVE  TypeOK' /\ PoolInv'
  <2>2. accept_loop(c) /\ num_' = num_
    BY <1>9 DEF handle_accept_error
  <2>3. /\ accepting' = c /\ outcome' = "busy" /\ home' \in [Conns -> Loops]
        /\ next_' \in Loops /\ PoolInv'
    BY <1>0, <2>2, AcceptLoop
  <2> QED
    BY <1>0, <1>9, <2>3 DEF handle_accept_error
<1>10. ASSUME NEW c \in Conns, conn_ends(c)
       PROVE  TypeOK' /\ PoolInv'
  <2>1. queue' \in [Loops -> Seq(Closures)] /\ connections_' \subseteq Conns
    <3>1. \/ queue' = queue /\ connections_' = connections_ \ {c}
          \/ /\ queue' = [queue EXCEPT ![Base] = Append(@, Closure("remove_conn_loop", c))]
             /\ connections_' = connections_
      BY <1>10 DEF conn_ends, remove_conn
    <3>2. ASSUME queue' = [queue EXCEPT ![Base] = Append(@, Closure("remove_conn_loop", c))]
          PROVE  queue' \in [Loops -> Seq(Closures)]
      BY <1>0, <3>2, ClosureType, QueueAppend
    <3> QED
      BY <1>0, <3>1, <3>2
  <2>2. reports' \in [Conns -> 0..2]
    BY <1>0, <1>10 DEF conn_ends
  <2> QED
    BY <1>0, <1>10, <2>1, <2>2 DEF conn_ends
<1>11. ASSUME NEW c \in Conns, no_more_reports(c)
       PROVE  TypeOK' /\ PoolInv'
  BY <1>0, <1>11 DEF no_more_reports
<1>12. CASE handle_accept_throws
  <2>1. accepting \in Conns
    BY <1>0, <1>12 DEF handle_accept_throws, Inv, AcceptInv
  <2> QED
    BY <1>0, <1>12, <2>1 DEF handle_accept_throws, conn
<1>13. CASE remove_conn_loop
  <2>1. queue' \in [Loops -> Seq(Closures)]
    BY <1>0, <1>13, QueuePop DEF remove_conn_loop
  <2> QED
    BY <1>0, <1>13, <2>1 DEF remove_conn_loop, conn
<1>14. ASSUME NEW l \in Loops, handle_establish(l)
       PROVE  TypeOK' /\ PoolInv'
  <2>1. queue' \in [Loops -> Seq(Closures)]
    BY <1>0, <1>14, QueuePop DEF handle_establish
  <2>2. Head(queue[l]).conn \in Conns
    <3>1. queue[l] # <<>> /\ Head(queue[l]).f = "handle_establish" /\ queue[l] \in Seq(Closures)
      BY <1>0, <1>14 DEF handle_establish
    <3>2. Head(queue[l]) \in Elems(queue[l])
      BY <3>1, ElemsTail
    <3> QED
      BY <3>1, <3>2 DEF Inv, ClosureInv
  <2> QED
    BY <1>0, <1>14, <2>1, <2>2 DEF handle_establish
<1>15. ASSUME NEW l \in Loops, quit_loop(l)
       PROVE  TypeOK' /\ PoolInv'
  <2>1. queue' \in [Loops -> Seq(Closures)]
    BY <1>0, <1>15, QueuePop DEF quit_loop
  <2> QED
    BY <1>0, <1>15, <2>1 DEF quit_loop, conn
<1>16. CASE quit
  BY <1>0, <1>16 DEF quit, conn
<1>17. Closure("quit_loop", None) \in Closures
  BY DEF Closure, Closures
<1>18. CASE quit_post
  <2>1. queue' \in [Loops -> Seq(Closures)]
    BY <1>0, <1>17, <1>18, QueueAppend DEF quit_post
  <2> QED
    BY <1>0, <1>18, <2>1 DEF quit_post, conn
<1>19. CASE stop
  <2>1. queue' \in [Loops -> Seq(Closures)]
    BY <1>0, <1>17, <1>19, ElemsAppend DEF stop, pool_quit
  <2> QED
    BY <1>0, <1>19, <2>1 DEF stop, conn
<1>20. CASE stop_joined
  <2>1. queue' \in [Loops -> Seq(Closures)]
    BY <1>0, <1>20, ElemsEmpty DEF stop_joined
  <2>2. life' \in [Loops -> {"none", "running", "stopped", "destroyed"}]
    BY <1>0, <1>20 DEF stop_joined
  <2> QED
    BY <1>0, <1>20, <2>1, <2>2 DEF stop_joined, conn
<1>21. CASE UNCHANGED vars
  BY <1>0, <1>21 DEF vars, conn
<1> QED
  BY <1>1, <1>2, <1>3, <1>4, <1>5, <1>6, <1>7, <1>8, <1>9, <1>10, <1>11, <1>12, <1>13,
     <1>14, <1>15, <1>16, <1>18, <1>19, <1>20, <1>21, NextCases

----------------------------------------------------------------------------
(***************************************************************************)
(* The connection that is being accepted.                                  *)
(***************************************************************************)
LEMMA AcceptStep == Inv /\ [Next]_vars => AcceptInv'
<1> SUFFICES ASSUME Inv, [Next]_vars
             PROVE  AcceptInv'
  OBVIOUS
<1>0. TypeOK /\ PoolInv /\ AcceptInv /\ ReportInv /\ None \notin Conns
  BY NoneAssumption DEF Inv
<1>1. ASSUME NEW c \in Conns,
             run_accept_loop(c) \/ handle_accept(c) \/ handle_accept_error(c), ~crashed
      PROVE  AcceptInv'
  <2>1. accept_loop(c) /\ num_' = num_
    BY <1>1 DEF run_accept_loop, handle_accept, handle_accept_error
  <2>2. accepting' = c /\ outcome' = "busy"
    BY <2>1 DEF accept_loop
  <2>3. stage' \in [Conns -> {"none", "new", "accepted", "up", "ended"}] /\ stage'[c] = "new"
    BY <1>0, <1>1 DEF run_accept_loop, handle_accept, handle_accept_error, TypeOK, AcceptInv
  <2>4. c \notin connections_'
    <3>1. CASE run_accept_loop(c)
      BY <1>0, <3>1, NotInUse DEF run_accept_loop
    <3>2. CASE handle_accept(c)
      <4>1. ~InUse(c) /\ outcome = "ok" /\ connections_' = connections_ \cup {accepting}
        BY <3>2 DEF handle_accept
      <4>2. stage[c] \in {"none", "ended"} /\ c \notin connections_
        BY <1>0, <4>1, NotInUse
      <4> QED
        BY <1>0, <4>1, <4>2 DEF AcceptInv
    <3>3. CASE handle_accept_error(c)
      <4>1. /\ ~InUse(c) \/ c = accepting
            /\ outcome = "error" /\ connections_' = connections_
        BY <3>3 DEF handle_accept_error
      <4> QED
        BY <1>0, <1>1, <4>1, NotInUse DEF AcceptInv
    <3> QED
      BY <1>1, <3>1, <3>2, <3>3
  <2> QED
    BY <1>0, <2>2, <2>3, <2>4 DEF AcceptInv
<1>2. ASSUME NEW c \in Conns, conn_ends(c)
      PROVE  AcceptInv'
  <2>1. /\ UNCHANGED <<accepting, outcome, crashed>> /\ connections_' \subseteq connections_
        /\ stage' = [stage EXCEPT ![c] = "ended"] /\ reports[c] > 0
    BY <1>2 DEF conn_ends, remove_conn
  <2>2. c # accepting
    BY <1>0, <2>1 DEF AcceptInv, ReportInv
  <2> QED
    BY <1>0, <2>1, <2>2 DEF AcceptInv, TypeOK
<1>3. ASSUME NEW c \in Conns, no_more_reports(c)
      PROVE  AcceptInv'
  BY <1>0, <1>3 DEF no_more_reports, AcceptInv
<1>4. CASE handle_accept_throws
  BY <1>0, <1>4 DEF handle_accept_throws, AcceptInv, conn
<1>5. CASE remove_conn_loop
  BY <1>0, <1>5 DEF remove_conn_loop, AcceptInv, conn
<1>6. ASSUME NEW l \in Loops, handle_establish(l)
      PROVE  AcceptInv'
  <2>1. /\ queue[l] # <<>> /\ queue[l] \in Seq(Closures)
        /\ Head(queue[l]).f = "handle_establish"
    BY <1>0, <1>6 DEF handle_establish, TypeOK
  <2>2. Head(queue[l]) \in Elems(queue[l])
    BY <2>1, ElemsTail
  <2>3. Head(queue[l]).conn \in Conns /\ stage[Head(queue[l]).conn] = "accepted"
    BY <2>1, <2>2 DEF Inv, ClosureInv
  <2>4. Head(queue[l]).conn # accepting
    BY <1>0, <2>3 DEF AcceptInv
  <2> QED
    BY <1>0, <1>6, <2>3, <2>4 DEF handle_establish, AcceptInv, TypeOK
<1>7. CASE stop_joined
  BY <1>0, <1>7 DEF stop_joined, AcceptInv, conn
<1>8. ASSUME NEW b \in BOOLEAN, start_failed(b) \/ accept_fails(b)
      PROVE  AcceptInv'
  BY <1>0, <1>8 DEF start_failed, accept_fails, AcceptInv, conn
<1>9. ASSUME \/ start \/ client_arrives \/ accept_done \/ client_resets
             \/ quit \/ quit_post \/ stop \/ UNCHANGED vars
      PROVE  AcceptInv'
  BY <1>0, <1>9 DEF start, client_arrives, accept_done, client_resets, quit, quit_post,
                    stop, vars, AcceptInv, conn
<1>10. ASSUME NEW l \in Loops, quit_loop(l)
       PROVE  AcceptInv'
  BY <1>0, <1>10 DEF quit_loop, AcceptInv, conn
<1> QED
  BY <1>1, <1>2, <1>3, <1>4, <1>5, <1>6, <1>7, <1>8, <1>9, <1>10, NextCases

----------------------------------------------------------------------------
(***************************************************************************)
(* The closures and the connections.                                       *)
(***************************************************************************)
ConnInv == ClosureInv /\ OnceInv /\ ReportInv /\ Entered

\* A step that touches no connection, queues at most closures that are not
\* about one, and loses no remove_conn_loop.
LEMMA NeutralStep ==
    ASSUME ConnInv, UNCHANGED <<stage, home, reports, connections_>>,
           \A l \in Loops : \A x \in Elems(queue'[l]) :
               x \in Elems(queue[l]) \/ x.f \in {"accept_loop", "quit_loop"},
           \A x \in Elems(queue[Base]) :
               x.f = "remove_conn_loop" => x \in Elems(queue'[Base]),
           \A l \in Loops : Once(queue'[l])
    PROVE  ConnInv'
<1>1. ClosureInv'
  BY DEF ConnInv, ClosureInv
<1>2. Entered'
  <2>1. \A c \in Conns : Closure("remove_conn_loop", c).f = "remove_conn_loop"
    BY DEF Closure
  <2> QED
    BY <2>1 DEF ConnInv, Entered
<1> QED
  BY <1>1, <1>2 DEF ConnInv, OnceInv, ReportInv

LEMMA ConnStep == Inv /\ [Next]_vars => ConnInv'
<1> SUFFICES ASSUME Inv, [Next]_vars
             PROVE  ConnInv'
  OBVIOUS
<1>0. /\ TypeOK /\ PoolInv /\ AcceptInv /\ ConnInv /\ None \notin Conns
      /\ queue \in [Loops -> Seq(Closures)] /\ Base \in Loops
      /\ \A l \in Loops : Once(queue[l]) /\ queue[l] \in Seq(Closures)
  BY BaseIsLoop, NoneAssumption DEF Inv, ConnInv, OnceInv, TypeOK
<1>1. CASE UNCHANGED <<queue, stage, home, reports, connections_>>
  BY <1>0, <1>1, NeutralStep
<1>2. ASSUME NEW b \in BOOLEAN, start_failed(b) \/ accept_fails(b)
      PROVE  UNCHANGED <<queue, stage, home, reports, connections_>>
  BY <1>2 DEF start_failed, accept_fails, conn
<1>3. ASSUME client_arrives \/ accept_done \/ client_resets \/ quit \/ UNCHANGED vars
      PROVE  UNCHANGED <<queue, stage, home, reports, connections_>>
  BY <1>3 DEF client_arrives, accept_done, client_resets, quit, vars, conn
<1>4. ASSUME NEW name \in {"accept_loop", "quit_loop"},
             queue' = [queue EXCEPT ![Base] = Append(@, Closure(name, None))],
             UNCHANGED <<stage, home, reports, connections_>>
      PROVE  ConnInv'
  <2>1. Closure(name, None) \in Closures /\ Closure(name, None).f = name
    BY DEF Closure, Closures
  <2>2. /\ Elems(queue'[Base]) = Elems(queue[Base]) \cup {Closure(name, None)}
        /\ \A l \in Loops \ {Base} : queue'[l] = queue[l]
        /\ Once(queue'[Base])
    <3>1. /\ queue'[Base] = Append(queue[Base], Closure(name, None))
          /\ \A l \in Loops \ {Base} : queue'[l] = queue[l]
      BY <1>0, <1>4
    <3>2. Closure(name, None).f # "handle_establish"
      BY <2>1
    <3> QED
      BY <1>0, <2>1, <3>1, <3>2, ElemsAppend
  <2> QED
    BY <1>0, <1>4, <2>1, <2>2, NeutralStep
<1>5. CASE start
  BY <1>4, <1>5 DEF start, conn
<1>6. CASE quit_post
  BY <1>4, <1>6 DEF quit_post, conn
<1>7. ASSUME NEW l \in Loops, quit_loop(l)
      PROVE  ConnInv'
  <2>1. /\ Elems(queue[l]) = Elems(queue'[l]) \cup {Head(queue[l])}
        /\ \A m \in Loops \ {l} : queue'[m] = queue[m]
        /\ Once(queue'[l]) /\ Head(queue[l]).f = "quit_loop"
    <3>1. /\ queue'[l] = Tail(queue[l]) /\ queue[l] # <<>>
          /\ \A m \in Loops \ {l} : queue'[m] = queue[m]
      BY <1>0, <1>7 DEF quit_loop
    <3> QED
      BY <1>0, <1>7, <3>1, ElemsTail DEF quit_loop
  <2> QED
    BY <1>0, <1>7, <2>1, NeutralStep DEF quit_loop, conn
<1>8. CASE stop
  <2>1. Closure("quit_loop", None) \in Closures /\ Closure("quit_loop", None).f = "quit_loop"
    BY DEF Closure, Closures
  <2>2. \A l \in Loops : queue'[l] = queue[l] \/ queue'[l] = Append(queue[l], Closure("quit_loop", None))
    BY <1>0, <1>8 DEF stop, pool_quit
  <2>3. \A l \in Loops :
            /\ Elems(queue[l]) \subseteq Elems(queue'[l])
            /\ Elems(queue'[l]) \subseteq Elems(queue[l]) \cup {Closure("quit_loop", None)}
            /\ Once(queue'[l])
    <3>1. Closure("quit_loop", None).f # "handle_establish"
      BY <2>1
    <3>2. ASSUME NEW l \in Loops
          PROVE  /\ Elems(queue[l]) \subseteq Elems(queue'[l])
                 /\ Elems(queue'[l]) \subseteq Elems(queue[l]) \cup {Closure("quit_loop", None)}
                 /\ Once(queue'[l])
      <4>1. CASE queue'[l] = queue[l]
        BY <1>0, <4>1
      <4>2. CASE queue'[l] = Append(queue[l], Closure("quit_loop", None))
        BY <1>0, <2>1, <3>1, <4>2, ElemsAppend
      <4> QED
        BY <2>2, <4>1, <4>2
    <3> QED
      BY <3>2
  <2> QED
    BY <1>0, <1>8, <2>1, <2>3, NeutralStep DEF stop, conn
<1>9. CASE stop_joined
  <2>1. \A l \in Loops : queue'[l] = IF l # Base THEN <<>> ELSE queue[l]
    BY <1>9 DEF stop_joined
  <2> QED
    BY <1>0, <1>9, <2>1, ElemsEmpty, NeutralStep DEF stop_joined, conn
<1>10. ASSUME NEW c \in Conns, run_accept_loop(c)
       PROVE  ConnInv'
  <2>1. /\ stage[c] \in {"none", "ended"} /\ reports[c] = 0 /\ c \notin connections_
        /\ \A l \in Loops : \A x \in Elems(queue[l]) : x.conn # c
    BY <1>0, <1>10, NotInUse DEF run_accept_loop
  <2>2. /\ Elems(queue[Base]) = Elems(queue'[Base]) \cup {Head(queue[Base])}
        /\ \A m \in Loops \ {Base} : queue'[m] = queue[m]
        /\ Once(queue'[Base]) /\ Head(queue[Base]).f = "accept_loop"
    <3>1. /\ queue'[Base] = Tail(queue[Base]) /\ queue[Base] # <<>>
          /\ \A m \in Loops \ {Base} : queue'[m] = queue[m]
      BY <1>0, <1>10 DEF run_accept_loop
    <3> QED
      BY <1>0, <1>10, <3>1, ElemsTail DEF run_accept_loop
  <2>3. /\ UNCHANGED <<connections_, reports>>
        /\ stage'[c] = "new"
        /\ \A d \in Conns \ {c} : stage'[d] = stage[d] /\ home'[d] = home[d]
    <3>1. accept_loop(c) /\ num_' = num_
      BY <1>10 DEF run_accept_loop
    <3>2. \A d \in Conns \ {c} : home'[d] = home[d]
      BY <1>0, <3>1, AcceptLoop
    <3> QED
      BY <1>0, <1>10, <3>2 DEF run_accept_loop, TypeOK
  <2>4. ClosureInv'
    BY <1>0, <2>1, <2>2, <2>3 DEF ConnInv, ClosureInv
  <2>5. OnceInv'
    BY <1>0, <2>2 DEF OnceInv
  <2>6. ReportInv'
    BY <1>0, <2>1, <2>3 DEF ConnInv, ReportInv
  <2>7. Entered'
    <3>1. \A d \in Conns : Closure("remove_conn_loop", d) # Head(queue[Base])
      BY <2>2 DEF Closure
    <3> QED
      BY <1>0, <2>1, <2>2, <2>3, <3>1 DEF ConnInv, Entered
  <2> QED
    BY <2>4, <2>5, <2>6, <2>7 DEF ConnInv
<1>11. ASSUME NEW c \in Conns, handle_accept(c), ~crashed
       PROVE  ConnInv'
  <2> DEFINE d == accepting
  <2>1. /\ stage[c] \in {"none", "ended"} /\ reports[c] = 0 /\ c \notin connections_
        /\ \A l \in Loops : \A x \in Elems(queue[l]) : x.conn # c
    BY <1>0, <1>11, NotInUse DEF handle_accept
  <2>2. d \in Conns /\ d # c /\ stage[d] = "new" /\ home[d] \in Loops
    BY <1>0, <1>11, <2>1 DEF handle_accept, AcceptInv, TypeOK
  <2>3. \A l \in Loops : \A x \in Elems(queue[l]) :
            x.f \in {"handle_establish", "remove_conn_loop"} => x.conn # d
    BY <1>0, <2>2 DEF ConnInv, ClosureInv
  <2>4. connections_' = connections_ \cup {d}
    BY <1>11 DEF handle_accept
  <2>5. \A e \in Conns \ {c} : home'[e] = home[e]
    <3>1. accept_loop(c) /\ num_' = num_
      BY <1>11 DEF handle_accept
    <3> QED
      BY <1>0, <3>1, AcceptLoop
  <2>6. CASE home[d] = Base
    <3>1. /\ queue' = queue /\ reports' = [reports EXCEPT ![d] = 2]
          /\ stage' = [stage EXCEPT ![d] = "up", ![c] = "new"]
      BY <1>11, <2>6 DEF handle_accept
    <3>2. /\ stage'[c] = "new" /\ stage'[d] = "up"
          /\ \A e \in Conns \ {c, d} : stage'[e] = stage[e]
          /\ \A e \in Conns \ {d} : reports'[e] = reports[e]
      BY <1>0, <2>2, <3>1 DEF TypeOK
    <3> HIDE DEF d
    <3>3. ClosureInv'
      <4>1. ASSUME NEW l \in Loops, NEW x \in Elems(queue[l]),
                   x.f \in {"handle_establish", "remove_conn_loop"}
            PROVE  /\ x.conn \in Conns
                   /\ stage'[x.conn] = stage[x.conn] /\ home'[x.conn] = home[x.conn]
        <5>1. x.conn \in Conns /\ x.conn # c /\ x.conn # d
          BY <1>0, <2>1, <2>3, <4>1 DEF ConnInv, ClosureInv
        <5> QED
          BY <2>5, <3>2, <5>1
      <4>2. ASSUME NEW l \in Loops, NEW x \in Elems(queue[l])
            PROVE  /\ x.f = "handle_establish" => stage[x.conn] = "accepted" /\ home[x.conn] = l
                   /\ x.f = "remove_conn_loop" => stage[x.conn] = "ended" /\ l = Base
        BY <1>0, <4>2 DEF ConnInv, ClosureInv
      <4>3. ASSUME NEW l \in Loops, NEW x \in Elems(queue[l])
            PROVE  /\ x.f \in {"handle_establish", "remove_conn_loop"} => x.conn \in Conns
                   /\ x.f = "handle_establish" => stage'[x.conn] = "accepted" /\ home'[x.conn] = l
                   /\ x.f = "remove_conn_loop" => stage'[x.conn] = "ended" /\ l = Base
        BY <4>1, <4>2
      <4> QED
        BY <3>1, <4>3 DEF ClosureInv
    <3>4. ReportInv'
      BY <1>0, <2>1, <3>2 DEF ConnInv, ReportInv
    <3>5. Entered'
      BY <1>0, <2>1, <2>4, <3>1, <3>2 DEF ConnInv, Entered
    <3> QED
      BY <1>0, <3>1, <3>3, <3>4, <3>5 DEF ConnInv, OnceInv
  <2>7. CASE home[d] # Base
    <3> DEFINE x == Closure("handle_establish", d)
    <3>1. /\ queue' = [queue EXCEPT ![home[d]] = Append(@, x)] /\ reports' = reports
          /\ stage' = [stage EXCEPT ![d] = "accepted", ![c] = "new"]
      BY <1>11, <2>7 DEF handle_accept
    <3>2. /\ stage'[c] = "new" /\ stage'[d] = "accepted"
          /\ \A e \in Conns \ {c, d} : stage'[e] = stage[e]
      BY <1>0, <2>2, <3>1 DEF TypeOK
    <3>3. x \in Closures /\ x.f = "handle_establish" /\ x.conn = d
      BY <2>2 DEF Closure, Closures
    <3>4. x \notin Elems(queue[home[d]])
      BY <2>2, <2>3, <3>3
    <3>5. /\ Elems(queue'[home[d]]) = Elems(queue[home[d]]) \cup {x}
          /\ \A l \in Loops \ {home[d]} : queue'[l] = queue[l]
          /\ Once(queue'[home[d]])
      <4> HIDE DEF x, d
      <4> QED
        <5>1. /\ queue'[home[d]] = Append(queue[home[d]], x)
              /\ \A l \in Loops \ {home[d]} : queue'[l] = queue[l]
          BY <1>0, <2>2, <3>1
        <5> QED
          BY <1>0, <2>2, <3>3, <3>4, <5>1, ElemsAppend
    <3> HIDE DEF d, x
    <3>6. ClosureInv'
      <4>1. ASSUME NEW l \in Loops, NEW y \in Elems(queue'[l])
            PROVE  y \in Elems(queue[l]) \/ (y = x /\ l = home[d])
        BY <3>5, <4>1
      <4>2. home'[d] = home[d]
        BY <2>2, <2>5
      <4> QED
        BY <1>0, <2>1, <2>2, <2>3, <2>5, <3>2, <3>3, <4>1, <4>2 DEF ConnInv, ClosureInv
    <3>7. ReportInv'
      <4>1. ASSUME NEW e \in Conns, reports[e] > 0
            PROVE  stage'[e] \in {"up", "ended"}
        <5>1. stage[e] \in {"up", "ended"}
          BY <1>0, <4>1 DEF ConnInv, ReportInv
        <5>2. e # c /\ e # d
          BY <2>1, <2>2, <4>1, <5>1
        <5> QED
          BY <3>2, <5>1, <5>2
      <4> QED
        BY <3>1, <4>1 DEF ReportInv
    <3>8. Entered'
      BY <1>0, <2>1, <2>4, <2>7, <3>2, <3>5 DEF ConnInv, Entered
    <3> QED
      BY <1>0, <3>5, <3>6, <3>7, <3>8 DEF ConnInv, OnceInv
  <2> QED
    BY <2>6, <2>7
<1>12. ASSUME NEW c \in Conns, handle_accept_error(c), ~crashed
       PROVE  ConnInv'
  <2>1. /\ accepting \in Conns /\ stage[accepting] = "new" /\ accepting \notin connections_
        /\ ~InUse(c) \/ c = accepting
        /\ UNCHANGED <<queue, reports, connections_>>
    BY <1>0, <1>12 DEF handle_accept_error, AcceptInv, TypeOK
  <2>2. /\ stage[c] \in {"none", "ended", "new"} /\ c \notin connections_
        /\ c # accepting => reports[c] = 0
    BY <1>0, <2>1, NotInUse
  <2>3. \A l \in Loops : \A x \in Elems(queue[l]) :
            x.f \in {"handle_establish", "remove_conn_loop"} =>
                x.conn # c /\ x.conn # accepting
    BY <1>0, <2>1, NotInUse DEF ConnInv, ClosureInv
  <2>4. \A e \in Conns \ {c} : home'[e] = home[e]
    <3>1. accept_loop(c) /\ num_' = num_
      BY <1>12 DEF handle_accept_error
    <3> QED
      BY <1>0, <3>1, AcceptLoop
  <2>5. /\ stage'[c] = "new" /\ (accepting # c => stage'[accepting] = "none")
        /\ \A e \in Conns \ {c, accepting} : stage'[e] = stage[e]
    BY <1>0, <1>12, <2>1 DEF handle_accept_error, TypeOK
  <2>6. ClosureInv'
    BY <1>0, <2>1, <2>3, <2>4, <2>5 DEF ConnInv, ClosureInv
  <2>7. ReportInv'
    BY <1>0, <2>1, <2>2, <2>5 DEF ConnInv, ReportInv
  <2>8. Entered'
    BY <1>0, <2>1, <2>5 DEF ConnInv, Entered
  <2> QED
    BY <1>0, <2>1, <2>6, <2>7, <2>8 DEF ConnInv, OnceInv
<1>13. ASSUME NEW c \in Conns, conn_ends(c)
       PROVE  ConnInv'
  <2>1. /\ stage[c] \in {"up", "ended"} /\ stage'[c] = "ended" /\ home' = home
        /\ \A e \in Conns \ {c} : stage'[e] = stage[e] /\ reports'[e] = reports[e]
    BY <1>0, <1>13 DEF conn_ends, ConnInv, ReportInv, TypeOK
  <2>2. ReportInv'
    BY <1>0, <2>1 DEF ConnInv, ReportInv
  <2>3. CASE home[c] = Base
    <3>1. queue' = queue /\ connections_' = connections_ \ {c}
      BY <1>13, <2>3 DEF conn_ends, remove_conn
    <3>2. ClosureInv'
      BY <1>0, <2>1, <3>1 DEF ConnInv, ClosureInv
    <3>3. Entered'
      BY <1>0, <2>1, <3>1 DEF ConnInv, Entered
    <3> QED
      BY <1>0, <2>2, <3>1, <3>2, <3>3 DEF ConnInv, OnceInv
  <2>4. CASE home[c] # Base
    <3> DEFINE x == Closure("remove_conn_loop", c)
    <3>1. queue' = [queue EXCEPT ![Base] = Append(@, x)] /\ connections_' = connections_
      BY <1>13, <2>4 DEF conn_ends, remove_conn
    <3>2. x \in Closures /\ x.f = "remove_conn_loop" /\ x.conn = c
      BY DEF Closure, Closures
    <3>3. /\ Elems(queue'[Base]) = Elems(queue[Base]) \cup {x}
          /\ \A l \in Loops \ {Base} : queue'[l] = queue[l]
          /\ Once(queue'[Base])
      <4> HIDE DEF x
      <4> QED
        <5>1. /\ queue'[Base] = Append(queue[Base], x)
              /\ \A l \in Loops \ {Base} : queue'[l] = queue[l]
          BY <1>0, <3>1
        <5> QED
          BY <1>0, <3>2, <5>1, ElemsAppend
    <3>4. ClosureInv'
      <4> HIDE DEF x
      <4>1. ASSUME NEW l \in Loops, NEW y \in Elems(queue'[l])
            PROVE  y \in Elems(queue[l]) \/ (y = x /\ l = Base)
        BY <3>3, <4>1
      <4> QED
        BY <1>0, <2>1, <3>2, <4>1 DEF ConnInv, ClosureInv
    <3>5. Entered'
      BY <1>0, <2>1, <3>1, <3>3 DEF ConnInv, Entered
    <3> QED
      BY <1>0, <2>2, <3>3, <3>4, <3>5 DEF ConnInv, OnceInv
  <2> QED
    BY <2>3, <2>4
<1>14. ASSUME NEW c \in Conns, no_more_reports(c)
       PROVE  ConnInv'
  BY <1>0, <1>14 DEF no_more_reports, TypeOK, ConnInv, ClosureInv, OnceInv, ReportInv, Entered
<1>15. CASE handle_accept_throws
  BY <1>0, <1>15 DEF handle_accept_throws, conn, AcceptInv, ConnInv, ClosureInv, OnceInv,
                     ReportInv, Entered
<1>16. CASE remove_conn_loop
  <2>1. /\ Elems(queue[Base]) = Elems(queue'[Base]) \cup {Head(queue[Base])}
        /\ \A m \in Loops \ {Base} : queue'[m] = queue[m]
        /\ Once(queue'[Base])
    <3>1. /\ queue'[Base] = Tail(queue[Base]) /\ queue[Base] # <<>>
          /\ \A m \in Loops \ {Base} : queue'[m] = queue[m]
      BY <1>0, <1>16 DEF remove_conn_loop
    <3> QED
      BY <1>0, <1>16, <3>1, ElemsTail DEF remove_conn_loop
  <2>2. /\ UNCHANGED <<stage, home, reports>> /\ Head(queue[Base]).f = "remove_conn_loop"
        /\ connections_' = connections_ \ {Head(queue[Base]).conn}
    BY <1>16 DEF remove_conn_loop, conn
  <2>3. ClosureInv'
    BY <1>0, <2>1, <2>2 DEF ConnInv, ClosureInv
  <2>4. Entered'
    <3>1. stage[Head(queue[Base]).conn] = "ended"
      BY <1>0, <2>1, <2>2 DEF ConnInv, ClosureInv
    <3>2. ASSUME NEW c \in Conns, c # Head(queue[Base]).conn
          PROVE  Closure("remove_conn_loop", c) # Head(queue[Base])
      BY <3>2 DEF Closure
    <3> QED
      BY <1>0, <2>1, <2>2, <3>1, <3>2 DEF ConnInv, Entered
  <2> QED
    BY <1>0, <2>1, <2>2, <2>3, <2>4 DEF ConnInv, OnceInv, ReportInv
<1>17. ASSUME NEW l \in Loops, handle_establish(l)
       PROVE  ConnInv'
  <2> DEFINE h == Head(queue[l])
  <2>1. /\ Elems(queue[l]) = Elems(queue'[l]) \cup {h}
        /\ \A m \in Loops \ {l} : queue'[m] = queue[m]
        /\ Once(queue'[l]) /\ h.f = "handle_establish" /\ h \in Closures
        /\ h \notin Elems(queue'[l])
    <3>1. /\ queue'[l] = Tail(queue[l]) /\ queue[l] # <<>>
          /\ \A m \in Loops \ {l} : queue'[m] = queue[m]
      BY <1>0, <1>17 DEF handle_establish
    <3> QED
      BY <1>0, <1>17, <3>1, ElemsTail DEF handle_establish
  <2>2. h.conn \in Conns /\ stage[h.conn] = "accepted" /\ home[h.conn] = l
    BY <1>0, <2>1 DEF ConnInv, ClosureInv
  <2>3. /\ UNCHANGED <<home, connections_>>
        /\ stage' = [stage EXCEPT ![h.conn] = "up"]
        /\ reports' = [reports EXCEPT ![h.conn] = 2]
    BY <1>17 DEF handle_establish
  <2> HIDE DEF h
  <2>4. /\ stage'[h.conn] = "up"
        /\ \A c \in Conns \ {h.conn} : stage'[c] = stage[c] /\ reports'[c] = reports[c]
    BY <1>0, <2>2, <2>3 DEF TypeOK
  <2>5. ASSUME NEW m \in Loops, NEW x \in Elems(queue'[m]),
               x.f \in {"handle_establish", "remove_conn_loop"}
        PROVE  x.conn # h.conn
    <3>1. x \in Elems(queue[m])
      BY <2>1, <2>5
    <3>2. CASE x.f = "remove_conn_loop"
      BY <1>0, <2>2, <3>1, <3>2 DEF ConnInv, ClosureInv
    <3>3. CASE x.f = "handle_establish"
      <4>1. SUFFICES ASSUME x.conn = h.conn
                     PROVE  FALSE
        OBVIOUS
      <4>2. m = l
        BY <1>0, <2>2, <3>1, <3>3, <4>1 DEF ConnInv, ClosureInv
      <4>3. x \in Closures
        <5>1. queue[m] \in Seq(Closures)
          BY <1>0
        <5> QED
          BY <3>1, <5>1 DEF Elems
      <4>4. x = h
        BY <2>1, <3>3, <4>1, <4>3 DEF Closures
      <4> QED
        BY <2>1, <2>5, <4>2, <4>4
    <3> QED
      BY <2>5, <3>2, <3>3
  <2>6. ClosureInv'
    <3>1. \A m \in Loops : \A x \in Elems(queue'[m]) : x \in Elems(queue[m])
      BY <2>1
    <3> QED
      BY <1>0, <2>3, <2>4, <2>5, <3>1 DEF ConnInv, ClosureInv
  <2>7. ReportInv'
    BY <1>0, <2>4 DEF ConnInv, ReportInv
  <2>8. Entered'
    <3>1. \A c \in Conns : Closure("remove_conn_loop", c) # h
      BY <2>1 DEF Closure
    <3>2. \A c \in Conns : Closure("remove_conn_loop", c) \in Elems(queue[Base])
                              => Closure("remove_conn_loop", c) \in Elems(queue'[Base])
      BY <1>0, <2>1, <3>1
    <3> QED
      BY <1>0, <2>2, <2>3, <2>4, <3>2 DEF ConnInv, Entered
  <2> QED
    BY <1>0, <2>1, <2>6, <2>7, <2>8 DEF ConnInv, OnceInv
<1> QED
  BY <1>1, <1>2, <1>3, <1>5, <1>6, <1>7, <1>8, <1>9, <1>10, <1>11, <1>12, <1>13, <1>14,
     <1>15, <1>16, <1>17, NextCases

----------------------------------------------------------------------------
\* The inductive invariant holds in every reachable state.
THEOREM Invariance == Spec => []Inv
<1>1. Inv /\ [Next]_vars => Inv'
  BY TypeStep, AcceptStep, ConnStep DEF Inv, ConnInv
<1> QED
  BY <1>1, InvInit, PTL DEF Spec

\* Type correctness of the server, its loops and their queues.
THEOREM TypeCorrect == Spec => []TypeOK
<1>1. Inv => TypeOK
  BY DEF Inv
<1> QED
  BY <1>1, Invariance, PTL

\* Whatever the loops interleave: a connection whose loop has been given it is
\* in connections_, and one that ended is gone from it or about to be removed.
THEOREM ConnectionsRegistered == Spec => []Registered
<1>1. Inv => Registered
  <2>1. Elems(queue[Base]) \subseteq Queued
    BY BaseIsLoop DEF Elems, Queued
  <2> QED
    BY <2>1 DEF Inv, Entered, Registered
<1> QED
  BY <1>1, Invariance, PTL
=============================================================================
