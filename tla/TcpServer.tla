------------------------------ MODULE TcpServer ------------------------------
(***************************************************************************)
(* code/TcpServer.cpp, EventLoopPool.cpp and EventLoop.cpp: a server that  *)
(* accepts connections on its own loop, hands them to the loops of a pool  *)
(* in turn, and keeps the set of its connections.                          *)
(*                                                                         *)
(* Actors: the base loop, the loops of the pool, each on its own thread;   *)
(* the thread that destroys the server once loop() of the base loop has    *)
(* returned, as the programs in tests and examples do; clients.            *)
(*                                                                         *)
(* A loop is a queue of closures and the handlers that became ready.       *)
(* dispatch() runs a closure at once on the thread of its loop and queues  *)
(* it from another one.  Closures that are queued when a loop stops are    *)
(* never run.                                                              *)
(*                                                                         *)
(* A connection is what module TcpConnection says of it, seen from here:   *)
(* its end is reported to close_callback_ once or twice, on its own loop.  *)
(* count_ only makes names, and is left out.                               *)
(***************************************************************************)
EXTENDS Naturals, Sequences, FiniteSets

CONSTANTS
    Conns,     \* the TcpConnections that make_shared can return
    None,      \* nullptr
    MaxLoops   \* bound on the threads of set_io_threads()

Base == 0
Loops == 0..MaxLoops

ASSUME NoneAssumption == None \notin Conns
ASSUME ConnsAssumption == IsFiniteSet(Conns) /\ MaxLoops \in Nat

VARIABLES
    num_,          \* threads of the pool
    next_,
    life,          \* life[l]: "none", "running", "stopped" or "destroyed"
    queue,         \* queue[l]: the closures queued in l, oldest first
    acceptor_,     \* "closed", "open" or "listening"
    accepting,     \* the connection async_accept was called for, and its outcome
    outcome,
    connections_,
    stage,         \* stage[c]: "none", "new", "accepted", "up" or "ended"
    home,          \* home[c]: loop_ of c
    reports,       \* reports[c]: how often the end of c can still be reported
    backlog,       \* clients that wait to be accepted
    stopping,      \* the destructor: "no", "join" or "done"
    crashed        \* an exception left the base loop

conn == <<stage, home, reports>>
vars == <<num_, next_, life, queue, acceptor_, accepting, outcome, connections_, conn,
          backlog, stopping, crashed>>

Closure(name, c) == [f |-> name, conn |-> c]

Init ==
    /\ num_ \in Loops /\ next_ = 0
    /\ life = [l \in Loops |-> IF l = Base THEN "running" ELSE "none"]
    /\ queue = [l \in Loops |-> <<>>]
    /\ acceptor_ = "closed"
    /\ accepting = None /\ outcome = "none"
    /\ connections_ = {}
    /\ stage = [c \in Conns |-> "none"]
    /\ home = [c \in Conns |-> Base]
    /\ reports = [c \in Conns |-> 0]
    /\ backlog = 0
    /\ stopping = "no"
    /\ crashed = FALSE

Queued == UNION {{queue[l][k] : k \in DOMAIN queue[l]} : l \in Loops}

\* Somebody holds a pointer to c.
InUse(c) == stage[c] \in {"new", "accepted", "up"} \/ reports[c] > 0 \/ c \in connections_
              \/ \E x \in Queued : x.conn = c

----------------------------------------------------------------------------
\* Variants, as a slip in the code would leave the operations.
handle_accept_error_returns(c) ==
    /\ life[Base] = "running" /\ outcome = "error" /\ c \in Conns
    /\ accepting' = None /\ outcome' = "none"
    /\ stage' = [stage EXCEPT ![accepting] = "none"]
    /\ UNCHANGED <<num_, next_, life, queue, acceptor_, connections_, home, reports,
                   backlog, stopping, crashed>>

accept_loop_no_wrap(c) ==
    /\ accepting' = c /\ outcome' = "busy"
    /\ home' = [home EXCEPT ![c] = IF num_ = 0 THEN Base ELSE next_ + 1]
    /\ next_' = next_ + 1

remove_conn_lost(c) ==
    IF home[c] = Base THEN connections_' = connections_ \ {c} /\ UNCHANGED queue
                      ELSE UNCHANGED <<connections_, queue>>

pool_quit_all_but_last ==
    queue' = [l \in Loops |-> IF l \in 1..(num_ - 1)
                              THEN Append(queue[l], Closure("quit_loop", None)) ELSE queue[l]]

----------------------------------------------------------------------------
\* start(): each of its calls may fail, and what was opened stays open, so that
\* open() fails when start() is called again.
start_failed(opened) ==
    /\ acceptor_ = "closed" /\ stopping = "no"
    /\ acceptor_' = IF opened THEN "open" ELSE "closed"
    /\ UNCHANGED <<num_, next_, life, queue, accepting, outcome, connections_, conn,
                   backlog, stopping, crashed>>

\* EventLoopPool::start() creates the loops and their threads.
start ==
    /\ acceptor_ = "closed" /\ stopping = "no"
    /\ acceptor_' = "listening"
    /\ next_' = 0
    /\ life' = [l \in Loops |-> IF l \in 1..num_ THEN "running" ELSE life[l]]
    /\ queue' = [queue EXCEPT ![Base] = Append(@, Closure("accept_loop", None))]
    /\ UNCHANGED <<num_, accepting, outcome, connections_, conn, backlog, stopping, crashed>>

get_nextloop == IF num_ = 0 THEN Base ELSE next_ + 1

\* accept_loop(): a new connection, given to the next loop whatever comes of it.
accept_loop(c) ==
    /\ accepting' = c /\ outcome' = "busy"
    /\ home' = [home EXCEPT ![c] = get_nextloop]
    /\ next_' = IF num_ = 0 THEN next_ ELSE (next_ + 1) % num_

\* The base loop runs the closure that start() posted.
run_accept_loop(c) ==
    /\ life[Base] = "running"
    /\ queue[Base] # <<>> /\ Head(queue[Base]).f = "accept_loop"
    /\ queue' = [queue EXCEPT ![Base] = Tail(@)]
    /\ ~InUse(c)
    /\ accept_loop(c)
    /\ stage' = [stage EXCEPT ![c] = "new"]
    /\ UNCHANGED <<num_, life, acceptor_, connections_, reports, backlog, stopping, crashed>>

----------------------------------------------------------------------------
\* The kernel and the clients.  Conns bounds the clients at a time: there is one
\* for each of them, and one for the next accept.
Clients == Cardinality({c \in Conns \ {accepting} : InUse(c)}) + backlog
             + (IF outcome \in {"ok", "reset"} THEN 1 ELSE 0)

client_arrives ==
    /\ acceptor_ = "listening"
    /\ Clients + 1 < Cardinality(Conns)
    /\ backlog' = backlog + 1
    /\ UNCHANGED <<num_, next_, life, queue, acceptor_, accepting, outcome, connections_,
                   conn, stopping, crashed>>

accept_done ==
    /\ outcome = "busy" /\ backlog > 0
    /\ outcome' = "ok"
    /\ backlog' = backlog - 1
    /\ UNCHANGED <<num_, next_, life, queue, acceptor_, accepting, connections_, conn,
                   stopping, crashed>>

\* Out of descriptors, or the client is gone.
accept_fails(left) ==
    /\ outcome = "busy" /\ backlog > 0
    /\ outcome' = "error"
    /\ backlog' = IF left THEN backlog - 1 ELSE backlog
    /\ UNCHANGED <<num_, next_, life, queue, acceptor_, accepting, connections_, conn,
                   stopping, crashed>>

client_resets ==
    /\ outcome = "ok"
    /\ outcome' = "reset"
    /\ UNCHANGED <<num_, next_, life, queue, acceptor_, accepting, connections_, conn,
                   backlog, stopping, crashed>>

----------------------------------------------------------------------------
\* handle_accept(), whatever the error, but for operation_aborted: that is for
\* when the acceptor was closed, and then the base loop has stopped.  The failed
\* connection is released.
handle_accept_error(c) ==
    /\ life[Base] = "running" /\ outcome = "error"
    /\ ~InUse(c) \/ c = accepting
    /\ accept_loop(c)
    /\ stage' = [stage EXCEPT ![accepting] = "none", ![c] = "new"]
    /\ UNCHANGED <<num_, life, queue, acceptor_, connections_, reports, backlog, stopping,
                   crashed>>

\* handle_accept(): the connection is entered, and established on its loop.
handle_accept(c) ==
    /\ life[Base] = "running" /\ outcome = "ok"
    /\ ~InUse(c)
    /\ connections_' = connections_ \cup {accepting}
    /\ IF home[accepting] = Base
       THEN /\ stage' = [stage EXCEPT ![accepting] = "up", ![c] = "new"]
            /\ reports' = [reports EXCEPT ![accepting] = 2]
            /\ UNCHANGED queue
       ELSE /\ stage' = [stage EXCEPT ![accepting] = "accepted", ![c] = "new"]
            /\ queue' = [queue EXCEPT ![home[accepting]] =
                                          Append(@, Closure("handle_establish", accepting))]
            /\ UNCHANGED reports
    /\ accept_loop(c)
    /\ UNCHANGED <<num_, life, acceptor_, backlog, stopping, crashed>>

\* init() throws if the client has reset the connection: remote_endpoint().
handle_accept_throws ==
    /\ life[Base] = "running" /\ outcome = "reset"
    /\ connections_' = connections_ \cup {accepting}
    /\ crashed' = TRUE
    /\ UNCHANGED <<num_, next_, life, queue, acceptor_, accepting, outcome, conn, backlog,
                   stopping>>

handle_establish(l) ==
    /\ life[l] = "running"
    /\ queue[l] # <<>> /\ Head(queue[l]).f = "handle_establish"
    /\ queue' = [queue EXCEPT ![l] = Tail(@)]
    /\ stage' = [stage EXCEPT ![Head(queue[l]).conn] = "up"]
    /\ reports' = [reports EXCEPT ![Head(queue[l]).conn] = 2]
    /\ UNCHANGED <<num_, next_, life, acceptor_, accepting, outcome, connections_, home,
                   backlog, stopping, crashed>>

----------------------------------------------------------------------------
\* remove_conn(c), on the thread of home[c].
remove_conn(c) ==
    IF home[c] = Base
    THEN connections_' = connections_ \ {c} /\ UNCHANGED queue
    ELSE queue' = [queue EXCEPT ![Base] = Append(@, Closure("remove_conn_loop", c))]
         /\ UNCHANGED connections_

\* A read or a write of c fails, because the client left or the user closed c.
conn_ends(c) ==
    /\ life[home[c]] = "running" /\ reports[c] > 0
    /\ stage' = [stage EXCEPT ![c] = "ended"]
    /\ reports' = [reports EXCEPT ![c] = @ - 1]
    /\ remove_conn(c)
    /\ UNCHANGED <<num_, next_, life, acceptor_, accepting, outcome, home, backlog,
                   stopping, crashed>>

no_more_reports(c) ==
    /\ reports[c] = 1
    /\ reports' = [reports EXCEPT ![c] = 0]
    /\ UNCHANGED <<num_, next_, life, queue, acceptor_, accepting, outcome, connections_,
                   stage, home, backlog, stopping, crashed>>

remove_conn_loop ==
    /\ life[Base] = "running"
    /\ queue[Base] # <<>> /\ Head(queue[Base]).f = "remove_conn_loop"
    /\ queue' = [queue EXCEPT ![Base] = Tail(@)]
    /\ connections_' = connections_ \ {Head(queue[Base]).conn}
    /\ UNCHANGED <<num_, next_, life, acceptor_, accepting, outcome, conn, backlog,
                   stopping, crashed>>

----------------------------------------------------------------------------
\* quit() of the base loop, on its thread or on another one.
quit ==
    /\ life[Base] = "running"
    /\ life' = [life EXCEPT ![Base] = "stopped"]
    /\ UNCHANGED <<num_, next_, queue, acceptor_, accepting, outcome, connections_, conn,
                   backlog, stopping, crashed>>

quit_post ==
    /\ life[Base] = "running"
    /\ Closure("quit_loop", None) \notin {queue[Base][k] : k \in DOMAIN queue[Base]}
    /\ queue' = [queue EXCEPT ![Base] = Append(@, Closure("quit_loop", None))]
    /\ UNCHANGED <<num_, next_, life, acceptor_, accepting, outcome, connections_, conn,
                   backlog, stopping, crashed>>

quit_loop(l) ==
    /\ life[l] = "running"
    /\ queue[l] # <<>> /\ Head(queue[l]).f = "quit_loop"
    /\ queue' = [queue EXCEPT ![l] = Tail(@)]
    /\ life' = [life EXCEPT ![l] = "stopped"]
    /\ UNCHANGED <<num_, next_, acceptor_, accepting, outcome, connections_, conn, backlog,
                   stopping, crashed>>

\* EventLoopPool::stop() tells every loop to quit.
pool_quit ==
    queue' = [l \in Loops |-> IF life[l] = "running"
                              THEN Append(queue[l], Closure("quit_loop", None)) ELSE queue[l]]

\* ~TcpServer() calls stop(), which begins with the pool.
stop ==
    /\ life[Base] = "stopped" /\ stopping = "no"
    /\ stopping' = "join"
    /\ pool_quit
    /\ UNCHANGED <<num_, next_, life, acceptor_, accepting, outcome, connections_, conn,
                   backlog, crashed>>

\* The threads are joined and the loops destroyed with what is queued in them;
\* the acceptor is closed; close() is dispatched to the loops of the connections,
\* none of which runs.
stop_joined ==
    /\ stopping = "join"
    /\ \A l \in 1..num_ : life[l] \in {"none", "stopped"}
    /\ stopping' = "done"
    /\ life' = [l \in Loops |-> IF life[l] # "none" /\ l # Base THEN "destroyed" ELSE life[l]]
    /\ queue' = [l \in Loops |-> IF l # Base THEN <<>> ELSE queue[l]]
    /\ acceptor_' = "closed"
    /\ accepting' = None /\ outcome' = "none" /\ backlog' = 0
    /\ UNCHANGED <<num_, next_, connections_, conn, crashed>>

----------------------------------------------------------------------------
Next ==
    /\ ~crashed
    /\ \/ \E opened \in BOOLEAN : start_failed(opened)
       \/ start
       \/ client_arrives \/ accept_done \/ client_resets
       \/ \E left \in BOOLEAN : accept_fails(left)
       \/ \E c \in Conns : \/ run_accept_loop(c) \/ handle_accept(c) \/ handle_accept_error(c)
                           \/ conn_ends(c) \/ no_more_reports(c)
       \/ handle_accept_throws \/ remove_conn_loop
       \/ \E l \in Loops : handle_establish(l) \/ quit_loop(l)
       \/ quit \/ quit_post \/ stop \/ stop_joined

\* A loop runs what is queued and what is ready; a client that waits is
\* accepted unless the attempts fail forever; the destructor goes on.
Fairness ==
    /\ \A l \in Loops : WF_vars(~crashed /\ (handle_establish(l) \/ quit_loop(l)))
    /\ WF_vars(~crashed /\ (remove_conn_loop \/ \E c \in Conns : run_accept_loop(c)))
    /\ WF_vars(~crashed /\ (handle_accept_throws
                  \/ \E c \in Conns : handle_accept(c) \/ handle_accept_error(c)))
    /\ SF_vars(~crashed /\ accept_done)
    /\ WF_vars(~crashed /\ (stop \/ stop_joined))

Spec == Init /\ [][Next]_vars
FairSpec == Spec /\ Fairness

----------------------------------------------------------------------------
Closures == [f : {"accept_loop", "handle_establish", "remove_conn_loop", "quit_loop"},
             conn : Conns \cup {None}]

TypeOK ==
    /\ num_ \in Loops /\ next_ \in Loops
    /\ life \in [Loops -> {"none", "running", "stopped", "destroyed"}]
    /\ queue \in [Loops -> Seq(Closures)]
    /\ acceptor_ \in {"closed", "open", "listening"}
    /\ accepting \in Conns \cup {None}
    /\ outcome \in {"none", "busy", "ok", "error", "reset"}
    /\ connections_ \subseteq Conns
    /\ stage \in [Conns -> {"none", "new", "accepted", "up", "ended"}]
    /\ home \in [Conns -> Loops] /\ reports \in [Conns -> 0..2]
    /\ backlog \in Nat /\ stopping \in {"no", "join", "done"} /\ crashed \in BOOLEAN

Serving == life[Base] = "running" /\ ~crashed

\* Whatever the order in which the loops run their closures: a connection is
\* entered before its loop can report its end, so that one that is up is found
\* in connections_, and one that has ended is on its way out of it.
Registered ==
    \A c \in Conns :
        /\ stage[c] \in {"accepted", "up"} => c \in connections_
        /\ stage[c] = "ended" /\ c \in connections_
             => Closure("remove_conn_loop", c) \in Queued

\* A client that waits is accepted, errors or not, and a connection that ended
\* is forgotten, unless the server stops.
KeepsServing ==
    /\ (backlog > 0) ~> (outcome = "ok" \/ backlog = 0 \/ ~Serving)
    /\ \A c \in Conns : (stage[c] = "ended") ~> (c \notin connections_ \/ ~Serving)

\* The destructor does not wait for ever for a thread of the pool.
StopReturns == (life[Base] = "stopped") ~> (stopping = "done")

\* stop(), "close all connections": none is left up.
StopCloses == stopping = "done" => \A c \in connections_ : stage[c] # "up"
=============================================================================
