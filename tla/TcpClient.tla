------------------------------ MODULE TcpClient ------------------------------
(***************************************************************************)
(* code/TcpClient.cpp: a client that connects, tries again after an        *)
(* interval when that fails, and can be told to disconnect.                *)
(*                                                                         *)
(* Actors: threads that call connect() and disconnect(); the loop thread,  *)
(* which runs the queued closures, handle_connect, the retry timer and the *)
(* handlers of the connection; the kernel.                                 *)
(*                                                                         *)
(* handle_connect is bound to the client, not to the connection it was     *)
(* started for: it acts on conn_, whatever that is by then.  A connection  *)
(* that is not established has no other owner than conn_, so a new value   *)
(* of conn_ destroys its socket and cancels its async_connect.             *)
(*                                                                         *)
(* A connection is what module TcpConnection says of it, seen from here:   *)
(* it is up, close() shuts it, and its end is reported to remove_conn, up  *)
(* to two times.  connection_callback_ comes last in handle_establish, and *)
(* a call of connect() or disconnect() in the one that announces the end   *)
(* changes nothing, so handlers are single steps.                          *)
(*                                                                         *)
(* A retry timer is named by its address.  Cancelling one that is gone     *)
(* reads freed memory; it is taken to find nothing there.                  *)
(***************************************************************************)
EXTENDS Naturals, Sequences, FiniteSets

CONSTANTS
    Conns,      \* the TcpConnections that make_shared can return
    Timers,     \* the addresses of retry timers
    None,       \* nullptr
    MaxPosted   \* bound on queued closures, calls of connect() under way included

ASSUME NoneAssumption == None \notin Conns /\ None \notin Timers
ASSUME BoundAssumption == MaxPosted \in Nat

VARIABLES
    connecting_,  \* the atomic_flag
    conn_,
    timer_,       \* the TimerId
    raised,       \* calls of connect() that set the flag and have not posted yet
    probing,      \* a call of disconnect() that set the flag and has not cleared it yet
    posted,       \* closures queued in the io_context
    op,           \* op[c]: the async_connect of c: "none", "busy" or its outcome
    open,         \* open[c]: the socket of c was not closed
    up,           \* up[c]: connected_ of c
    reports,      \* reports[c]: how often the end of c can still be reported
    armed,        \* the retry timers in the timing wheel
    crashed,      \* why an exception left the loop, or "no"
    \* History, not part of the program:
    clean         \* disconnect_loop and remove_conn came in no state they are not made for

conns == <<op, open, up, reports>>
vars == <<connecting_, conn_, timer_, raised, probing, posted, conns, armed, crashed, clean>>

Init ==
    /\ connecting_ = FALSE
    /\ conn_ = None /\ timer_ = None
    /\ raised = 0 /\ probing = FALSE
    /\ posted = <<>>
    /\ op = [c \in Conns |-> "none"]
    /\ open = [c \in Conns |-> FALSE]
    /\ up = [c \in Conns |-> FALSE]
    /\ reports = [c \in Conns |-> 0]
    /\ armed = {}
    /\ crashed = "no"
    /\ clean = TRUE

Connects == {k \in DOMAIN posted : posted[k] = "connect"}

\* conn_ is given another value: the async_connect of a connection that is
\* destroyed by that is cancelled.
Released(ops) ==
    IF conn_ # None /\ ops[conn_] = "busy" THEN [ops EXCEPT ![conn_] = "aborted"] ELSE ops

----------------------------------------------------------------------------
\* Variants, as a slip in the code would leave the operations.
del_timer_forgotten == UNCHANGED armed

handle_timeout_waits(t, c) ==
    /\ t \in armed /\ c \in Conns
    /\ armed' = armed \ {t}
    /\ UNCHANGED <<connecting_, conn_, timer_, raised, probing, posted, conns, crashed, clean>>

handle_connect_err_old_timer(c, t) ==
    /\ op[c] = "err"
    /\ op' = Released([op EXCEPT ![c] = "none"])
    /\ conn_' = None
    /\ t \notin armed
    /\ timer_' = t
    /\ armed' = armed \cup {timer_}
    /\ UNCHANGED <<connecting_, raised, probing, posted, open, up, reports, crashed, clean>>

handle_connect_aborted_stays(c) ==
    /\ op[c] = "aborted"
    /\ op' = Released([op EXCEPT ![c] = "none"])
    /\ conn_' = None
    /\ UNCHANGED <<connecting_, timer_, raised, probing, posted, open, up, reports, armed,
                   crashed, clean>>

----------------------------------------------------------------------------
\* connect(): the flag is taken, and later the closure is queued.  While the
\* flag is taken connect() returns false and does nothing.
connect ==
    /\ ~connecting_
    /\ Len(posted) + raised < MaxPosted
    /\ connecting_' = TRUE
    /\ raised' = raised + 1
    /\ UNCHANGED <<conn_, timer_, probing, posted, conns, armed, crashed, clean>>

connect_post ==
    /\ raised > 0
    /\ raised' = raised - 1
    /\ posted' = Append(posted, "connect")
    /\ UNCHANGED <<connecting_, conn_, timer_, probing, conns, armed, crashed, clean>>

\* connect() with a malformed address returns false and leaves the flag taken.
connect_bad_address ==
    /\ ~connecting_
    /\ connecting_' = TRUE
    /\ UNCHANGED <<conn_, timer_, raised, probing, posted, conns, armed, crashed, clean>>

----------------------------------------------------------------------------
\* The states disconnect_loop() is made for: no connection, and then none on its
\* way either; or a connection, and then no completed connect on its way.
Foreseen ==
    IF conn_ = None THEN raised = 0 /\ Connects = {} /\ ~probing
                    ELSE op[conn_] \notin {"ok", "err", "reset"}

\* loop_->del_timer(timer_).
del_timer == armed' = armed \ {timer_}

disconnect_loop ==
    /\ del_timer
    /\ IF conn_ = None
       THEN connecting_' = FALSE /\ UNCHANGED conns
       ELSE /\ IF up[conn_]
               THEN up' = [up EXCEPT ![conn_] = FALSE] /\ UNCHANGED <<op, open>>
               ELSE /\ open' = [open EXCEPT ![conn_] = FALSE]
                    /\ op' = Released(op)
                    /\ UNCHANGED up
            /\ UNCHANGED <<connecting_, reports>>
    /\ clean' = (clean /\ Foreseen)
    /\ UNCHANGED <<conn_, timer_, raised, probing, crashed>>

\* disconnect() on the loop thread and on another one.
disconnect ==
    /\ connecting_
    /\ disconnect_loop
    /\ UNCHANGED posted

disconnect_post ==
    /\ connecting_
    /\ Len(posted) + raised < MaxPosted
    /\ posted' = Append(posted, "disconnect")
    /\ UNCHANGED <<connecting_, conn_, timer_, raised, probing, conns, armed, crashed, clean>>

\* disconnect() of a client that is not connecting: test_and_set, then clear.
disconnect_probe ==
    /\ ~connecting_ /\ ~probing
    /\ connecting_' = TRUE
    /\ probing' = TRUE
    /\ UNCHANGED <<conn_, timer_, raised, posted, conns, armed, crashed, clean>>

disconnect_clear ==
    /\ probing
    /\ connecting_' = FALSE
    /\ probing' = FALSE
    /\ UNCHANGED <<conn_, timer_, raised, posted, conns, armed, crashed, clean>>

----------------------------------------------------------------------------
InUse(c) == conn_ = c \/ op[c] # "none" \/ reports[c] > 0

connect_loop(c) ==
    /\ ~InUse(c)
    /\ conn_' = c
    /\ op' = [Released(op) EXCEPT ![c] = "busy"]
    /\ open' = [open EXCEPT ![c] = TRUE]
    /\ up' = [up EXCEPT ![c] = FALSE]
    /\ UNCHANGED <<connecting_, raised, probing, reports, crashed, clean>>

\* The loop thread takes the next queued closure.
run_connect(c) ==
    /\ posted # <<>> /\ Head(posted) = "connect"
    /\ posted' = Tail(posted)
    /\ connect_loop(c)
    /\ UNCHANGED <<timer_, armed>>

run_disconnect ==
    /\ posted # <<>> /\ Head(posted) = "disconnect"
    /\ posted' = Tail(posted)
    /\ disconnect_loop

\* The interval is over; the one-shot timer is freed after the call.
handle_timeout(t, c) ==
    /\ t \in armed
    /\ armed' = armed \ {t}
    /\ connect_loop(c)
    /\ UNCHANGED <<timer_, posted>>

\* The kernel is done with a connect; the peer may still reset the connection
\* before handle_connect() is run.
complete(c, outcome) ==
    /\ \/ op[c] = "busy" /\ outcome \in {"ok", "err"}
       \/ op[c] = "ok" /\ outcome = "reset"
    /\ op' = [op EXCEPT ![c] = outcome]
    /\ UNCHANGED <<connecting_, conn_, timer_, raised, probing, posted, open, up, reports,
                   armed, crashed, clean>>

\* handle_connect() for the async_connect of c.
handle_connect_err(c, t) ==
    /\ op[c] = "err"
    /\ op' = Released([op EXCEPT ![c] = "none"])
    /\ conn_' = None
    /\ t \notin armed
    /\ timer_' = t
    /\ armed' = armed \cup {t}
    /\ UNCHANGED <<connecting_, raised, probing, posted, open, up, reports, crashed, clean>>

handle_connect_aborted(c) ==
    /\ op[c] = "aborted"
    /\ op' = Released([op EXCEPT ![c] = "none"])
    /\ conn_' = None
    /\ connecting_' = FALSE
    /\ UNCHANGED <<timer_, raised, probing, posted, open, up, reports, armed, crashed, clean>>

\* init() throws unless the socket of conn_ is connected, and without a conn_
\* there is nothing to call it on.  A connection that is up may have been reset.
handle_connect_ok(c) ==
    /\ op[c] \in {"ok", "reset"}
    /\ op' = [op EXCEPT ![c] = "none"]
    /\ \/ /\ conn_ # None /\ open[conn_] /\ (op[conn_] = "ok" \/ up[conn_])
          /\ up' = [up EXCEPT ![conn_] = TRUE]
          /\ reports' = [reports EXCEPT ![conn_] = 2]
          /\ UNCHANGED crashed
       \/ /\ ~(conn_ # None /\ open[conn_] /\ op[conn_] = "ok")
          /\ crashed' = IF conn_ = c /\ open[c] THEN "reset" ELSE "mixup"
          /\ UNCHANGED <<up, reports>>
    /\ UNCHANGED <<connecting_, conn_, timer_, raised, probing, posted, open, armed, clean>>

\* handle_close() of connection c, with remove_conn(c) as its close_callback_.
remove_conn(c) ==
    /\ reports[c] > 0
    /\ reports' = [reports EXCEPT ![c] = @ - 1]
    /\ up' = [up EXCEPT ![c] = FALSE]
    /\ conn_' = None
    /\ op' = Released(op)
    /\ connecting_' = FALSE
    /\ clean' = (clean /\ (conn_ = c \/ ~connecting_))
    /\ UNCHANGED <<timer_, raised, probing, posted, open, armed, crashed>>

\* No write was under way, so the end of c is not reported a second time.
no_more_reports(c) ==
    /\ reports[c] = 1
    /\ reports' = [reports EXCEPT ![c] = 0]
    /\ UNCHANGED <<connecting_, conn_, timer_, raised, probing, posted, op, open, up,
                   armed, crashed, clean>>

----------------------------------------------------------------------------
Users ==
    \/ connect \/ connect_post \/ connect_bad_address
    \/ disconnect \/ disconnect_post \/ disconnect_probe \/ disconnect_clear

Kernel == \E c \in Conns, outcome \in {"ok", "err", "reset"} : complete(c, outcome)

Loop ==
    \/ run_disconnect
    \/ \E c \in Conns :
         \/ run_connect(c)
         \/ \E t \in Timers : handle_timeout(t, c) \/ handle_connect_err(c, t)
         \/ handle_connect_aborted(c) \/ handle_connect_ok(c)
         \/ remove_conn(c) \/ no_more_reports(c)

Next == crashed = "no" /\ (Users \/ Kernel \/ Loop)

\* Handlers are run in the order in which they became ready, a connect ends one
\* way or the other, and so does the read of a connection that is shut.
Fairness ==
    /\ WF_vars(connect_post) /\ WF_vars(disconnect_clear)
    /\ SF_vars(run_disconnect \/ \E c \in Conns : run_connect(c))
    /\ SF_vars(\E c \in Conns, t \in Timers : handle_timeout(t, c))
    /\ \A c \in Conns :
         /\ WF_vars(op[c] = "busy" /\ (complete(c, "ok") \/ complete(c, "err")))
         /\ SF_vars(\E t \in Timers : handle_connect_err(c, t))
         /\ SF_vars(handle_connect_aborted(c)) /\ SF_vars(handle_connect_ok(c))
         /\ SF_vars(~up[c] /\ (remove_conn(c) \/ no_more_reports(c)))

Spec == Init /\ [][Next]_vars
FairSpec == Spec /\ Fairness

----------------------------------------------------------------------------
Outcomes == {"none", "busy", "ok", "reset", "err", "aborted"}

TypeOK ==
    /\ connecting_ \in BOOLEAN
    /\ conn_ \in Conns \cup {None} /\ timer_ \in Timers \cup {None}
    /\ raised \in Nat /\ probing \in BOOLEAN
    /\ posted \in Seq({"connect", "disconnect"})
    /\ op \in [Conns -> Outcomes]
    /\ open \in [Conns -> BOOLEAN] /\ up \in [Conns -> BOOLEAN]
    /\ reports \in [Conns -> 0..2]
    /\ armed \subseteq Timers
    /\ crashed \in {"no", "reset", "mixup"} /\ clean \in BOOLEAN

Dials == {c \in Conns : op[c] # "none"}

\* Unless disconnect_loop() came before its connect_loop(), or between a connect
\* and its handler, or the end of a connection was reported late: connecting_
\* guards one attempt.  A client whose flag is clear has nothing under way, and
\* otherwise at most one of these is: a connect() on its way to the loop, an
\* async_connect (of conn_), a retry timer (the one timer_ names), a connection.
\* So handle_connect() acts on the connection it was started for: init() throws
\* only if the peer reset that connection meanwhile.
OneAttempt ==
    clean =>
        /\ raised + Cardinality(Connects) + Cardinality(Dials) + Cardinality(armed)
             + Cardinality({c \in Conns : up[c]}) <= (IF connecting_ /\ ~probing THEN 1 ELSE 0)
        /\ \A c \in Conns : op[c] # "none" \/ up[c] => conn_ = c
        /\ armed \subseteq {timer_}
        /\ crashed # "mixup"

\* A disconnect() of a connection, or of a connect under way, takes effect: the
\* client is free for the next connect().
DisconnectEnds ==
    (conn_ # None /\ op[conn_] \in {"none", "aborted"} /\ ~up[conn_])
        ~> (~connecting_ \/ ~clean \/ crashed # "no")

\* A connect() that was accepted, and a connect that failed, lead to an attempt,
\* unless the client is told to disconnect.
TriesAgain ==
    (raised > 0 \/ armed # {}) ~> (conn_ # None \/ ~connecting_ \/ ~clean \/ crashed # "no")
=============================================================================
