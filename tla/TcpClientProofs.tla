--------------------------- MODULE TcpClientProofs ---------------------------
(***************************************************************************)
(* Proofs about TcpClient, for every set of connections and timers and     *)
(* every bound on the queued closures.                                     *)
(*                                                                         *)
(* OneAttempt counts; AttemptInv says which of the things it counts can be *)
(* there together, and what conn_ is then: while the flag is clear, or     *)
(* taken by the probe of a disconnect(), the client is Idle; a connect()   *)
(* on its way and a retry timer exclude each other and a conn_; what is    *)
(* dialled or up is conn_, and it is only one of the two.  That the socket *)
(* of an async_connect is open, and that no end of its connection can be   *)
(* reported, is what handle_connect() and remove_conn() rely on.           *)
(***************************************************************************)
EXTENDS TcpClient, FiniteSetTheorems, TLAPS

NothingPending == raised = 0 /\ Connects = {} /\ armed = {}

FlagInv ==
    /\ ~connecting_ \/ probing => NothingPending /\ conn_ = None
    /\ probing => connecting_

PendingInv ==
    /\ conn_ # None => NothingPending
    /\ raised <= 1
    /\ raised = 1 => Connects = {} /\ armed = {}
    /\ Connects # {} => armed = {}
    /\ \A j, k \in Connects : j = k
    /\ armed \subseteq {timer_}

DialInv ==
    \A c \in Conns :
        /\ op[c] # "none" \/ up[c] => conn_ = c
        /\ op[c] # "none" => ~up[c] /\ reports[c] = 0
        /\ op[c] \in {"busy", "ok", "err", "reset"} => open[c]

AttemptInv == FlagInv /\ PendingInv /\ DialInv /\ crashed # "mixup"

Inv == TypeOK /\ (clean => AttemptInv)

\* The actions, one disjunct per action.
LEMMA NextCases ==
    ASSUME Next
    PROVE  \/ connect
           \/ connect_post
           \/ connect_bad_address
           \/ disconnect
           \/ disconnect_post
           \/ disconnect_probe
           \/ disconnect_clear
           \/ \E c \in Conns, outcome \in {"ok", "err", "reset"} : complete(c, outcome)
           \/ run_disconnect
           \/ \E c \in Conns : run_connect(c)
           \/ \E c \in Conns, t \in Timers : handle_timeout(t, c)
           \/ \E c \in Conns, t \in Timers : handle_connect_err(c, t)
           \/ \E c \in Conns : handle_connect_aborted(c)
           \/ \E c \in Conns : handle_connect_ok(c)
           \/ \E c \in Conns : remove_conn(c)
           \/ \E c \in Conns : no_more_reports(c)
  BY DEF Next, Users, Kernel, Loop

----------------------------------------------------------------------------
(***************************************************************************)
(* The queued closures.                                                    *)
(***************************************************************************)
Names == {"connect", "disconnect"}

ConnectsIn(s) == {k \in DOMAIN s : s[k] = "connect"}

LEMMA ConnectsAppend ==
    ASSUME NEW s \in Seq(Names), NEW x \in Names
    PROVE  /\ Append(s, x) \in Seq(Names)
           /\ x = "connect" => ConnectsIn(Append(s, x)) = ConnectsIn(s) \cup {Len(s) + 1}
           /\ x # "connect" => ConnectsIn(Append(s, x)) = ConnectsIn(s)
<1> DEFINE u == Append(s, x)
<1>1. /\ Len(s) \in Nat /\ DOMAIN s = 1..Len(s) /\ DOMAIN u = 1..(Len(s) + 1)
      /\ \A i \in 1..Len(s) : u[i] = s[i]
      /\ u[Len(s) + 1] = x /\ u \in Seq(Names)
  OBVIOUS
<1> HIDE DEF u
<1>2. Len(s) + 1 \in DOMAIN u
  BY <1>1
<1>3. \A i \in DOMAIN u : i \in DOMAIN s \/ i = Len(s) + 1
  BY <1>1
<1>4. \A i \in DOMAIN s : i \in DOMAIN u /\ u[i] = s[i]
  BY <1>1
<1>5. u[Len(s) + 1] = x /\ u \in Seq(Names)
  BY <1>1
<1> QED
  BY <1>2, <1>3, <1>4, <1>5 DEF ConnectsIn, u

LEMMA ConnectsTail ==
    ASSUME NEW s \in Seq(Names), s # <<>>, \A j, k \in ConnectsIn(s) : j = k
    PROVE  /\ Tail(s) \in Seq(Names)
           /\ Head(s) = "connect" => ConnectsIn(Tail(s)) = {} /\ ConnectsIn(s) # {}
           /\ ConnectsIn(s) = {} => ConnectsIn(Tail(s)) = {}
           /\ \A j, k \in ConnectsIn(Tail(s)) : j = k
<1> DEFINE t == Tail(s)
<1>1. /\ Len(s) \in Nat /\ Len(s) > 0 /\ Head(s) = s[1] /\ DOMAIN s = 1..Len(s)
      /\ DOMAIN t = 1..(Len(s) - 1)
      /\ \A i \in 1..(Len(s) - 1) : t[i] = s[i + 1]
      /\ t \in Seq(Names)
  OBVIOUS
<1> HIDE DEF t
<1>2. 1 \in DOMAIN s
  BY <1>1
<1>3. ASSUME NEW k \in ConnectsIn(t)
      PROVE  k \in Nat /\ k + 1 \in ConnectsIn(s) /\ k + 1 # 1
  BY <1>1 DEF ConnectsIn
<1>4. ASSUME Head(s) = "connect"
      PROVE  ConnectsIn(t) = {} /\ ConnectsIn(s) # {}
  <2>1. 1 \in ConnectsIn(s)
    BY <1>1, <1>2, <1>4 DEF ConnectsIn
  <2> QED
    BY <1>3, <2>1
<1>5. ASSUME NEW j \in ConnectsIn(t), NEW k \in ConnectsIn(t)
      PROVE  j = k
  <2>1. j \in Nat /\ k \in Nat /\ j + 1 = k + 1
    BY <1>3, <1>5
  <2> QED
    BY <2>1
<1> QED
  BY <1>1, <1>3, <1>4, <1>5 DEF t

LEMMA TailType ==
    ASSUME NEW s \in Seq(Names), s # <<>>
    PROVE  Tail(s) \in Seq(Names)
  OBVIOUS

\* A value of conn_ that goes away takes at most its own async_connect with it.
LEMMA ReleasedType ==
    ASSUME TypeOK, NEW ops \in [Conns -> Outcomes]
    PROVE  Released(ops) \in [Conns -> Outcomes]
  BY DEF TypeOK, Released, Outcomes

----------------------------------------------------------------------------
LEMMA InvInit == Init => Inv
<1> SUFFICES ASSUME Init
             PROVE  Inv
  OBVIOUS
<1>1. TypeOK
  <2>1. posted \in Seq({"connect", "disconnect"})
    BY DEF Init
  <2>2. /\ op \in [Conns -> Outcomes] /\ open \in [Conns -> BOOLEAN]
        /\ up \in [Conns -> BOOLEAN] /\ reports \in [Conns -> 0..2]
    BY DEF Init, Outcomes
  <2> QED
    BY <2>1, <2>2 DEF Init, TypeOK
<1>2. Connects = {}
  BY DEF Init, Connects
<1>3. AttemptInv
  BY <1>2 DEF Init, AttemptInv, FlagInv, PendingInv, DialInv, NothingPending
<1> QED
  BY <1>1, <1>3 DEF Inv

LEMMA TypeStep == TypeOK /\ [Next]_vars => TypeOK'
<1> SUFFICES ASSUME TypeOK, [Next]_vars
             PROVE  TypeOK'
  OBVIOUS
<1>0. posted \in Seq(Names)
  BY DEF TypeOK, Names
<1> USE DEF TypeOK
<1>1. CASE connect
  BY <1>1 DEF connect, conns
<1>2. CASE connect_post
  <2>1. posted' \in Seq(Names)
    BY <1>0, <1>2, ConnectsAppend DEF connect_post, Names
  <2> QED
    BY <1>2, <2>1 DEF connect_post, conns, Names
<1>3. CASE connect_bad_address
  BY <1>3 DEF connect_bad_address, conns
<1>4. ASSUME disconnect_loop, posted' \in Seq({"connect", "disconnect"})
      PROVE  TypeOK'
  <2>1. connecting_' \in BOOLEAN /\ armed' \subseteq Timers
    BY <1>4 DEF disconnect_loop, del_timer
  <2>2. clean' \in BOOLEAN
    BY <1>4 DEF disconnect_loop
  <2>3. op' \in [Conns -> Outcomes]
    BY <1>4, ReleasedType DEF disconnect_loop, conns
  <2>4. /\ open' \in [Conns -> BOOLEAN] /\ up' \in [Conns -> BOOLEAN]
        /\ reports' \in [Conns -> 0..2]
    BY <1>4 DEF disconnect_loop, conns
  <2> QED
    BY <1>4, <2>1, <2>2, <2>3, <2>4 DEF disconnect_loop
<1>5. CASE disconnect
  BY <1>4, <1>5 DEF disconnect
<1>6. CASE disconnect_post
  <2>1. posted' \in Seq(Names)
    BY <1>0, <1>6, ConnectsAppend DEF disconnect_post, Names
  <2> QED
    BY <1>6, <2>1 DEF disconnect_post, conns, Names
<1>7. CASE disconnect_probe
  BY <1>7 DEF disconnect_probe, conns
<1>8. CASE disconnect_clear
  BY <1>8 DEF disconnect_clear, conns
<1>9. ASSUME NEW c \in Conns, NEW outcome \in {"ok", "err", "reset"}, complete(c, outcome)
      PROVE  TypeOK'
  BY <1>9 DEF complete, Outcomes
<1>10. CASE run_disconnect
  <2>1. posted' \in Seq(Names)
    BY <1>0, <1>10, TailType DEF run_disconnect
  <2> QED
    BY <1>4, <1>10, <2>1 DEF run_disconnect, Names
<1>11. ASSUME NEW c \in Conns, connect_loop(c), timer_' = timer_,
              posted' \in Seq({"connect", "disconnect"}), armed' \subseteq Timers
       PROVE  TypeOK'
  <2>1. Released(op) \in [Conns -> Outcomes]
    BY ReleasedType
  <2>2. op' \in [Conns -> Outcomes]
    BY <1>11, <2>1 DEF connect_loop, Outcomes
  <2> QED
    BY <1>11, <2>2 DEF connect_loop
<1>12. ASSUME NEW c \in Conns, run_connect(c)
       PROVE  TypeOK'
  <2>1. posted' \in Seq(Names)
    BY <1>0, <1>12, TailType DEF run_connect
  <2> QED
    BY <1>11, <1>12, <2>1 DEF run_connect, Names
<1>13. ASSUME NEW c \in Conns, NEW t \in Timers, handle_timeout(t, c)
       PROVE  TypeOK'
  BY <1>11, <1>13 DEF handle_timeout
<1>14. ASSUME NEW c \in Conns
       PROVE  Released([op EXCEPT ![c] = "none"]) \in [Conns -> Outcomes]
  <2>1. [op EXCEPT ![c] = "none"] \in [Conns -> Outcomes]
    BY DEF Outcomes
  <2> QED
    BY <2>1, ReleasedType
<1>15. ASSUME NEW c \in Conns, NEW t \in Timers, handle_connect_err(c, t)
       PROVE  TypeOK'
  BY <1>14, <1>15 DEF handle_connect_err
<1>16. ASSUME NEW c \in Conns, handle_connect_aborted(c)
       PROVE  TypeOK'
  BY <1>14, <1>16 DEF handle_connect_aborted
<1>17. ASSUME NEW c \in Conns, handle_connect_ok(c)
       PROVE  TypeOK'
  <2>1. op' \in [Conns -> Outcomes]
    BY <1>17 DEF handle_connect_ok, Outcomes
  <2>2. up' \in [Conns -> BOOLEAN]
    BY <1>17 DEF handle_connect_ok
  <2>3. reports' \in [Conns -> 0..2]
    <3>1. reports' = reports \/ reports' = [reports EXCEPT ![conn_] = 2]
      BY <1>17 DEF handle_connect_ok
    <3>2. 2 \in 0..2
      OBVIOUS
    <3> QED
      BY <3>1, <3>2
  <2>4. crashed' \in {"no", "reset", "mixup"}
    BY <1>17 DEF handle_connect_ok
  <2> QED
    BY <1>17, <2>1, <2>2, <2>3, <2>4 DEF handle_connect_ok
<1>18. ASSUME NEW c \in Conns, remove_conn(c)
       PROVE  TypeOK'
  <2>1. op' \in [Conns -> Outcomes]
    BY <1>18, ReleasedType DEF remove_conn
  <2>2. reports' \in [Conns -> 0..2]
    BY <1>18 DEF remove_conn
  <2> QED
    BY <1>18, <2>1, <2>2 DEF remove_conn
<1>19. ASSUME NEW c \in Conns, no_more_reports(c)
       PROVE  TypeOK'
  BY <1>19 DEF no_more_reports
<1>20. CASE UNCHANGED vars
  BY <1>20 DEF vars, conns
<1> QED
  BY <1>1, <1>2, <1>3, <1>5, <1>6, <1>7, <1>8, <1>9, <1>10, <1>12, <1>13, <1>15, <1>16,
     <1>17, <1>18, <1>19, <1>20, NextCases

----------------------------------------------------------------------------
(***************************************************************************)
(* One attempt at a time.                                                  *)
(***************************************************************************)
\* clean is never set again.
LEMMA CleanStep ==
    ASSUME TypeOK, [Next]_vars, clean'
    PROVE  clean
<1>1. disconnect_loop => clean
  BY DEF disconnect_loop, TypeOK
<1>2. ASSUME NEW c \in Conns
      PROVE  /\ connect_loop(c) => clean
             /\ handle_connect_aborted(c) \/ handle_connect_ok(c) => clean
             /\ remove_conn(c) \/ no_more_reports(c) => clean
  BY DEF connect_loop, handle_connect_aborted, handle_connect_ok, remove_conn,
         no_more_reports, TypeOK
<1>3. ASSUME NEW c \in Conns, NEW t \in Timers, handle_connect_err(c, t)
      PROVE  clean
  BY <1>3 DEF handle_connect_err
<1>4. ASSUME NEW c \in Conns, NEW outcome \in {"ok", "err", "reset"}, complete(c, outcome)
      PROVE  clean
  BY <1>4 DEF complete
<1>5. ASSUME \/ connect \/ connect_post \/ connect_bad_address
             \/ disconnect_post \/ disconnect_probe \/ disconnect_clear \/ UNCHANGED vars
      PROVE  clean
  BY <1>5 DEF connect, connect_post, connect_bad_address, disconnect_post,
              disconnect_probe, disconnect_clear, vars
<1> QED
  BY <1>1, <1>2, <1>3, <1>4, <1>5, NextCases
     DEF disconnect, run_disconnect, run_connect, handle_timeout

LEMMA AttemptStep ==
    TypeOK /\ AttemptInv /\ clean /\ [Next]_vars /\ clean' => AttemptInv'
<1> SUFFICES ASSUME TypeOK, AttemptInv, clean, [Next]_vars, clean'
             PROVE  AttemptInv'
  OBVIOUS
<1>0. /\ FlagInv /\ PendingInv /\ DialInv /\ crashed # "mixup"
      /\ posted \in Seq(Names) /\ None \notin Conns /\ raised \in Nat
      /\ \A j, k \in ConnectsIn(posted) : j = k
      /\ Connects = ConnectsIn(posted) /\ Connects' = ConnectsIn(posted')
  BY NoneAssumption DEF AttemptInv, PendingInv, TypeOK, Names, Connects, ConnectsIn
<1> USE DEF AttemptInv, FlagInv, PendingInv, NothingPending
<1>1. CASE connect
  <2>1. DialInv'
    BY <1>0, <1>1 DEF connect, conns, DialInv
  <2>2. Connects' = Connects
    BY <1>0, <1>1 DEF connect
  <2> QED
    BY <1>0, <1>1, <2>1, <2>2 DEF connect
<1>2. CASE connect_post
  <2>1. DialInv'
    BY <1>0, <1>2 DEF connect_post, conns, DialInv
  <2>2. raised = 1 /\ raised' = 0 /\ Connects = {} /\ armed = {} /\ conn_ = None
        /\ connecting_ /\ ~probing
    BY <1>0, <1>2 DEF connect_post
  <2>3. Connects' = {Len(posted) + 1}
    BY <1>0, <1>2, <2>2, ConnectsAppend DEF connect_post, Names
  <2> QED
    BY <1>0, <1>2, <2>1, <2>2, <2>3 DEF connect_post
<1>3. CASE connect_bad_address
  <2>1. DialInv'
    BY <1>0, <1>3 DEF connect_bad_address, conns, DialInv
  <2>2. Connects' = Connects
    BY <1>0, <1>3 DEF connect_bad_address
  <2> QED
    BY <1>0, <1>3, <2>1, <2>2 DEF connect_bad_address
<1>4. ASSUME disconnect_loop,
             Connects = {} => Connects' = {},
             \A j, k \in Connects' : j = k
      PROVE  AttemptInv'
  <2>1. Foreseen /\ UNCHANGED <<conn_, timer_, raised, probing, crashed, reports>>
    BY <1>4 DEF disconnect_loop, conns, TypeOK
  <2>2. armed' = {}
    BY <1>0, <1>4 DEF disconnect_loop, del_timer
  <2>3. CASE conn_ = None
    <3>1. raised = 0 /\ Connects' = {} /\ ~probing /\ connecting_' = FALSE
      BY <1>4, <2>1, <2>3 DEF disconnect_loop, Foreseen
    <3>2. DialInv'
      BY <1>0, <1>4, <2>1, <2>3 DEF disconnect_loop, conns, DialInv
    <3> QED
      BY <1>0, <2>1, <2>2, <2>3, <3>1, <3>2
  <2>4. CASE conn_ # None
    <3>1. conn_ \in Conns /\ connecting_' = connecting_ /\ Connects = {} /\ raised = 0
      BY <1>0, <1>4, <2>4 DEF disconnect_loop, TypeOK
    <3>2. op[conn_] \notin {"ok", "err", "reset"}
      BY <2>1, <2>4 DEF Foreseen
    <3>3. DialInv'
      <4>1. CASE up[conn_]
        BY <1>0, <1>4, <2>1, <2>4, <3>1, <4>1 DEF disconnect_loop, DialInv, TypeOK
      <4>2. CASE ~up[conn_]
        <5>1. /\ open' = [open EXCEPT ![conn_] = FALSE] /\ up' = up
              /\ op' = Released(op)
          BY <1>4, <2>4, <4>2 DEF disconnect_loop
        <5>2. /\ op'[conn_] \in {"none", "aborted"} /\ (op'[conn_] # "none" => op[conn_] # "none")
              /\ \A c \in Conns \ {conn_} : op'[c] = op[c] /\ open'[c] = open[c]
          <6>0. op \in [Conns -> Outcomes] /\ open \in [Conns -> BOOLEAN]
            BY DEF TypeOK
          <6>1. CASE op[conn_] = "busy"
            <7>1. op' = [op EXCEPT ![conn_] = "aborted"]
              BY <2>4, <5>1, <6>1 DEF Released
            <7> QED
              BY <3>1, <5>1, <6>0, <6>1, <7>1
          <6>2. CASE op[conn_] # "busy"
            <7>1. op' = op
              BY <5>1, <6>2 DEF Released
            <7> QED
              BY <3>1, <3>2, <5>1, <6>0, <6>2, <7>1 DEF Outcomes
          <6> QED
            BY <6>1, <6>2
        <5> QED
          BY <1>0, <2>1, <3>1, <5>1, <5>2 DEF DialInv
      <4> QED
        BY <4>1, <4>2
    <3> QED
      BY <1>0, <1>4, <2>1, <2>2, <2>4, <3>1, <3>3
  <2> QED
    BY <2>3, <2>4
<1>5. CASE disconnect
  <2>1. Connects' = Connects
    BY <1>0, <1>5 DEF disconnect
  <2> QED
    BY <1>0, <1>4, <1>5, <2>1 DEF disconnect
<1>6. CASE disconnect_post
  <2>1. DialInv'
    BY <1>0, <1>6 DEF disconnect_post, conns, DialInv
  <2>2. Connects' = Connects
    BY <1>0, <1>6, ConnectsAppend DEF disconnect_post, Names
  <2> QED
    BY <1>0, <1>6, <2>1, <2>2 DEF disconnect_post
<1>7. CASE disconnect_probe
  <2>1. DialInv'
    BY <1>0, <1>7 DEF disconnect_probe, conns, DialInv
  <2>2. Connects' = Connects
    BY <1>0, <1>7 DEF disconnect_probe
  <2> QED
    BY <1>0, <1>7, <2>1, <2>2 DEF disconnect_probe
<1>8. CASE disconnect_clear
  <2>1. DialInv'
    BY <1>0, <1>8 DEF disconnect_clear, conns, DialInv
  <2>2. Connects' = Connects
    BY <1>0, <1>8 DEF disconnect_clear
  <2> QED
    BY <1>0, <1>8, <2>1, <2>2 DEF disconnect_clear
<1>9. ASSUME NEW c \in Conns, NEW outcome \in {"ok", "err", "reset"}, complete(c, outcome)
      PROVE  AttemptInv'
  <2>1. DialInv'
    BY <1>0, <1>9 DEF complete, DialInv, TypeOK
  <2>2. Connects' = Connects
    BY <1>0, <1>9 DEF complete
  <2> QED
    BY <1>0, <1>9, <2>1, <2>2 DEF complete
<1>10. CASE run_disconnect
  <2>1. /\ Connects = {} => Connects' = {}
        /\ \A j, k \in Connects' : j = k
    BY <1>0, <1>10, ConnectsTail DEF run_disconnect
  <2> QED
    BY <1>4, <1>10, <2>1 DEF run_disconnect
\* A connect_loop() that finds nothing else under way.
<1>11. ASSUME NEW c \in Conns, connect_loop(c), timer_' = timer_,
              conn_ = None, raised = 0, Connects' = {}, armed' = {}, connecting_, ~probing
       PROVE  AttemptInv'
  <2>1. /\ op' = [op EXCEPT ![c] = "busy"] /\ open' = [open EXCEPT ![c] = TRUE]
        /\ up' = [up EXCEPT ![c] = FALSE] /\ conn_' = c
        /\ UNCHANGED <<connecting_, raised, probing, reports, crashed>>
    BY <1>11 DEF connect_loop, Released
  <2>2. reports[c] = 0
    BY <1>11 DEF connect_loop, InUse, TypeOK
  <2>3. \A d \in Conns : op[d] = "none" /\ ~up[d]
    BY <1>0, <1>11 DEF DialInv
  <2>4. DialInv'
    BY <2>1, <2>2, <2>3 DEF DialInv, TypeOK
  <2> QED
    BY <1>0, <1>11, <2>1, <2>4
<1>12. ASSUME NEW c \in Conns, run_connect(c)
       PROVE  AttemptInv'
  <2>1. Connects' = {} /\ Connects # {}
    BY <1>0, <1>12, ConnectsTail DEF run_connect
  <2>2. /\ conn_ = None /\ raised = 0 /\ armed = {} /\ connecting_ /\ ~probing
    BY <1>0, <2>1
  <2> QED
    BY <1>11, <1>12, <2>1, <2>2 DEF run_connect
<1>13. ASSUME NEW c \in Conns, NEW t \in Timers, handle_timeout(t, c)
       PROVE  AttemptInv'
  <2>1. t \in armed /\ armed' = {} /\ Connects' = Connects
    BY <1>0, <1>13 DEF handle_timeout
  <2>2. /\ conn_ = None /\ raised = 0 /\ Connects = {} /\ connecting_ /\ ~probing
    BY <1>0, <2>1
  <2> QED
    BY <1>11, <1>13, <2>1, <2>2 DEF handle_timeout
\* handle_connect() is for conn_, and nothing else is under way.
<1>14. ASSUME NEW c \in Conns, op[c] # "none"
       PROVE  /\ conn_ = c /\ NothingPending /\ connecting_ /\ ~probing
              /\ Released([op EXCEPT ![c] = "none"]) = [op EXCEPT ![c] = "none"]
              /\ \A d \in Conns : [op EXCEPT ![c] = "none"][d] = "none" /\ ~up[d]
  <2>1. conn_ = c /\ c # None
    BY <1>0, <1>14 DEF DialInv
  <2>2. NothingPending /\ connecting_ /\ ~probing
    BY <1>0, <2>1
  <2>3. \A d \in Conns : [op EXCEPT ![c] = "none"][d] = "none" /\ ~up[d]
    BY <1>0, <1>14, <2>1 DEF DialInv, TypeOK
  <2>4. Released([op EXCEPT ![c] = "none"]) = [op EXCEPT ![c] = "none"]
    BY <2>1, <2>3 DEF Released
  <2> QED
    BY <2>1, <2>2, <2>3, <2>4
<1>15. ASSUME NEW c \in Conns, NEW t \in Timers, handle_connect_err(c, t)
       PROVE  AttemptInv'
  <2>1. op[c] # "none" /\ Connects' = Connects
    BY <1>0, <1>15 DEF handle_connect_err
  <2>2. /\ \A d \in Conns : op'[d] = "none" /\ ~up'[d]
        /\ armed' = {t} /\ timer_' = t /\ conn_' = None
    BY <1>14, <1>15, <2>1 DEF handle_connect_err
  <2>3. DialInv'
    BY <2>2 DEF DialInv
  <2>4. /\ raised' = 0 /\ Connects' = {} /\ connecting_' /\ ~probing'
        /\ crashed' = crashed
    BY <1>14, <1>15, <2>1 DEF handle_connect_err
  <2> QED
    BY <1>0, <2>2, <2>3, <2>4
<1>16. ASSUME NEW c \in Conns, handle_connect_aborted(c)
       PROVE  AttemptInv'
  <2>1. op[c] # "none" /\ Connects' = Connects
    BY <1>0, <1>16 DEF handle_connect_aborted
  <2>2. \A d \in Conns : op'[d] = "none" /\ ~up'[d]
    BY <1>14, <1>16, <2>1 DEF handle_connect_aborted
  <2>3. DialInv'
    BY <2>2 DEF DialInv
  <2> QED
    BY <1>0, <1>14, <1>16, <2>1, <2>2, <2>3 DEF handle_connect_aborted
<1>17. ASSUME NEW c \in Conns, handle_connect_ok(c)
       PROVE  AttemptInv'
  <2>1. /\ op[c] \in {"ok", "reset"} /\ Connects' = Connects
        /\ op' = [op EXCEPT ![c] = "none"]
        /\ UNCHANGED <<connecting_, conn_, timer_, raised, probing, open, armed>>
    BY <1>0, <1>17 DEF handle_connect_ok
  <2>2. conn_ = c /\ open[c] /\ NothingPending /\ connecting_ /\ ~probing
    BY <1>0, <1>14, <2>1 DEF DialInv
  <2>3. \A d \in Conns : op'[d] = "none" /\ ~up[d]
    BY <1>14, <2>1
  <2>4. DialInv' /\ crashed' # "mixup"
    BY <1>0, <1>17, <2>2, <2>3 DEF handle_connect_ok, DialInv, TypeOK
  <2> QED
    BY <1>0, <2>1, <2>2, <2>4
<1>18. ASSUME NEW c \in Conns, remove_conn(c)
       PROVE  AttemptInv'
  <2>1. /\ conn_ = c \/ ~connecting_
        /\ reports[c] > 0 /\ conn_' = None /\ connecting_' = FALSE
        /\ op' = Released(op) /\ up' = [up EXCEPT ![c] = FALSE]
        /\ UNCHANGED <<timer_, raised, probing, armed, crashed>>
    BY <1>18 DEF remove_conn, TypeOK
  <2>2. op[c] = "none"
    BY <1>0, <2>1 DEF DialInv, TypeOK
  <2>3. \A d \in Conns : op[d] = "none" /\ (d # c => ~up[d])
    BY <1>0, <2>1, <2>2 DEF DialInv
  <2>4. DialInv'
    <3>1. op' = op
      BY <2>1, <2>3 DEF Released, TypeOK
    <3> QED
      BY <2>1, <2>3, <3>1 DEF DialInv, TypeOK
  <2>5. NothingPending /\ ~probing
    BY <1>0, <2>1
  <2>6. Connects' = Connects
    BY <1>0, <1>18 DEF remove_conn
  <2> QED
    BY <1>0, <2>1, <2>4, <2>5, <2>6
<1>19. ASSUME NEW c \in Conns, no_more_reports(c)
       PROVE  AttemptInv'
  <2>1. DialInv'
    BY <1>0, <1>19 DEF no_more_reports, DialInv, TypeOK
  <2>2. Connects' = Connects
    BY <1>0, <1>19 DEF no_more_reports
  <2> QED
    BY <1>0, <1>19, <2>1, <2>2 DEF no_more_reports
<1>20. CASE UNCHANGED vars
  BY <1>0, <1>20 DEF vars, conns, DialInv
<1> QED
  BY <1>1, <1>2, <1>3, <1>5, <1>6, <1>7, <1>8, <1>9, <1>10, <1>12, <1>13, <1>15, <1>16,
     <1>17, <1>18, <1>19, <1>20, NextCases

LEMMA AtMostOne ==
    ASSUME NEW S, \A x, y \in S : x = y
    PROVE  Cardinality(S) = IF S = {} THEN 0 ELSE 1
<1>1. CASE S = {}
  BY <1>1, FS_EmptySet
<1>2. CASE S # {}
  <2>1. PICK x \in S : TRUE
    BY <1>2
  <2>2. S = {x}
    BY <2>1
  <2> QED
    BY <1>2, <2>2, FS_Singleton
<1> QED
  BY <1>1, <1>2

LEMMA AttemptCount ==
    ASSUME TypeOK, AttemptInv
    PROVE  OneAttempt
<1> DEFINE Ups == {c \in Conns : up[c]}
<1>0. FlagInv /\ PendingInv /\ DialInv /\ raised \in Nat /\ None \notin Conns
  BY NoneAssumption DEF AttemptInv, TypeOK
<1>1. Cardinality(Connects) = IF Connects = {} THEN 0 ELSE 1
  BY <1>0, AtMostOne DEF PendingInv
<1>2. Cardinality(armed) = IF armed = {} THEN 0 ELSE 1
  BY <1>0, AtMostOne DEF PendingInv
<1>3. Cardinality(Dials) = IF Dials = {} THEN 0 ELSE 1
  <2>1. \A x, y \in Dials : x = y
    BY <1>0 DEF DialInv, Dials
  <2> QED
    BY <2>1, AtMostOne
<1>4. Cardinality(Ups) = IF Ups = {} THEN 0 ELSE 1
  <2>1. \A x, y \in Ups : x = y
    BY <1>0 DEF DialInv
  <2> QED
    BY <2>1, AtMostOne
<1>5. Dials # {} \/ Ups # {} => conn_ # None
  BY <1>0 DEF DialInv, Dials
<1>6. Dials = {} \/ Ups = {}
  BY <1>0 DEF DialInv, Dials
<1> HIDE DEF Ups
<1>7. raised + Cardinality(Connects) + Cardinality(Dials) + Cardinality(armed)
        + Cardinality(Ups) <= (IF connecting_ /\ ~probing THEN 1 ELSE 0)
  <2>1. CASE conn_ # None
    <3>1. raised = 0 /\ Connects = {} /\ armed = {} /\ connecting_ /\ ~probing
      BY <1>0, <2>1 DEF PendingInv, NothingPending, FlagInv
    <3> QED
      BY <1>1, <1>2, <1>3, <1>4, <1>6, <3>1
  <2>2. CASE conn_ = None /\ connecting_ /\ ~probing
    <3>1. Dials = {} /\ Ups = {}
      BY <1>5, <2>2
    <3>2. /\ raised \in 0..1 /\ (raised = 1 => Connects = {} /\ armed = {})
          /\ Connects # {} => armed = {}
      BY <1>0 DEF PendingInv
    <3> QED
      BY <1>1, <1>2, <1>3, <1>4, <2>2, <3>1, <3>2
  <2>3. CASE ~connecting_ \/ probing
    <3>1. raised = 0 /\ Connects = {} /\ armed = {} /\ Dials = {} /\ Ups = {}
      BY <1>0, <1>5, <2>3 DEF FlagInv, NothingPending
    <3> QED
      BY <1>1, <1>2, <1>3, <1>4, <2>3, <3>1
  <2> QED
    BY <2>1, <2>2, <2>3
<1>8. \A c \in Conns : op[c] # "none" \/ up[c] => conn_ = c
  BY <1>0 DEF DialInv
<1> QED
  BY <1>0, <1>7, <1>8 DEF OneAttempt, AttemptInv, PendingInv, Ups

----------------------------------------------------------------------------
\* The inductive invariant holds in every reachable state.
THEOREM Invariance == Spec => []Inv
<1>1. Inv /\ [Next]_vars => Inv'
  BY TypeStep, CleanStep, AttemptStep DEF Inv
<1> QED
  BY <1>1, InvInit, PTL DEF Spec

\* Type correctness of the client and its connections.
THEOREM TypeCorrect == Spec => []TypeOK
<1>1. Inv => TypeOK
  BY DEF Inv
<1> QED
  BY <1>1, Invariance, PTL

\* connecting_ guards one attempt, and handle_connect() acts on the connection it
\* was started for, as long as disconnect_loop() and remove_conn() come in the
\* states they are made for.
THEOREM OneAttemptAtATime == Spec => []OneAttempt
<1>1. Inv => OneAttempt
  BY AttemptCount DEF Inv, OneAttempt
<1> QED
  BY <1>1, Invariance, PTL
=============================================================================
