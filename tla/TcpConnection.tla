---------------------------- MODULE TcpConnection ----------------------------
(***************************************************************************)
(* code/TcpConnection.cpp: one connection, from handle_establish() to the  *)
(* last completion handler.                                                *)
(*                                                                         *)
(* Actors: the loop thread of the connection, which runs the completion    *)
(* handlers, the queued closures and the user's callbacks; other threads,  *)
(* which call send() and close(); the kernel and the peer, which complete  *)
(* the asynchronous operations.  dispatch() runs send_loop and close_loop  *)
(* at once on the loop thread and queues them from another thread.         *)
(*                                                                         *)
(* An asynchronous operation has two steps: it completes, which queues its *)
(* handler with the outcome, and the handler runs.  A handler stops at the *)
(* user callback it makes (`in' says which) so that what the user does     *)
(* there falls between the two halves of the handler.                      *)
(*                                                                         *)
(* A buffer is named by its place among the ones send_loop accepted; it    *)
(* goes out as a whole or not at all.  What is received, and recv_buffer_, *)
(* is not modelled here.  The socket is shut exactly when connected_ is    *)
(* cleared, by shutdown_both.                                              *)
(***************************************************************************)
EXTENDS Naturals, Sequences

CONSTANTS
    MaxSends,            \* bound on buffers accepted or on their way
    MaxPosted,           \* bound on queued closures
    SendFromSendComplete \* sendcomplete_callback_ may call send()

ASSUME BoundsAssumption ==
    MaxSends \in Nat /\ MaxPosted \in Nat /\ SendFromSendComplete \in BOOLEAN

VARIABLES
    established,   \* handle_establish() was run
    connected_,
    send_buffer_,  \* the deque of buffers
    writes,        \* outstanding async_writes: [buf, st], st = "busy" until completed
    reading,       \* the async_receive: "none", "busy", "data" or "err"
    posted,        \* closures queued by other threads
    in,            \* the callback the loop thread is in, or "idle"
    \* History, not part of the program:
    accepted,      \* number of buffers send_loop accepted
    wire,          \* buffers the socket took, in order
    downs          \* calls of close_callback_ and of connection_callback_ for the end

history == <<accepted, wire, downs>>
vars == <<established, connected_, send_buffer_, writes, reading, posted, in, history>>

Outcomes == {"busy", "ok", "err"}
Callbacks == {"up", "recv", "sendcomplete", "down"}

Init ==
    /\ established = FALSE
    /\ connected_ = FALSE
    /\ send_buffer_ = <<>>
    /\ writes = <<>>
    /\ reading = "none"
    /\ posted = <<>>
    /\ in = "idle"
    /\ accepted = 0
    /\ wire = <<>>
    /\ downs = 0

----------------------------------------------------------------------------
\* async_send(): a write of the front buffer is started.
async_send(buffers) == Append(writes, [buf |-> Head(buffers), st |-> "busy"])

\* Variants, as a slip in the code would leave the operations.
send_loop_always_writes ==
    /\ IF connected_
       THEN /\ accepted' = accepted + 1
            /\ send_buffer_' = Append(send_buffer_, accepted + 1)
            /\ writes' = async_send(send_buffer_')
       ELSE UNCHANGED <<accepted, send_buffer_, writes>>
    /\ UNCHANGED <<established, connected_, reading, wire, downs>>

\* front() of an empty deque is no buffer, 0 here.
send_loop_writes_first ==
    /\ IF connected_
       THEN /\ accepted' = accepted + 1
            /\ send_buffer_' = Append(send_buffer_, accepted + 1)
            /\ writes' = IF send_buffer_ = <<>>
                         THEN Append(writes, [buf |-> 0, st |-> "busy"]) ELSE writes
       ELSE UNCHANGED <<accepted, send_buffer_, writes>>
    /\ UNCHANGED <<established, connected_, reading, wire, downs>>

handle_recv_err_no_return ==
    /\ in = "idle" /\ reading = "err"
    /\ reading' = "busy"
    /\ connected_' = FALSE
    /\ in' = "down"
    /\ downs' = downs + 1
    /\ UNCHANGED <<established, send_buffer_, writes, posted, accepted, wire>>

handle_send_stops ==
    /\ in = "sendcomplete"
    /\ in' = "idle"
    /\ UNCHANGED <<established, connected_, send_buffer_, writes, reading, posted, history>>

recv_done_if_connected ==
    /\ in = "recv"
    /\ in' = "idle"
    /\ reading' = IF connected_ THEN "busy" ELSE "none"
    /\ UNCHANGED <<established, connected_, send_buffer_, writes, posted, history>>

handle_send_ok_no_pop(k) ==
    /\ in = "idle"
    /\ k \in DOMAIN writes /\ writes[k].st = "ok"
    /\ writes' = SubSeq(writes, 1, k - 1) \o SubSeq(writes, k + 1, Len(writes))
    /\ in' = "sendcomplete"
    /\ UNCHANGED <<established, connected_, send_buffer_, reading, posted, history>>

----------------------------------------------------------------------------
\* send_loop(): sends nothing once the connection is down.
send_loop ==
    /\ IF connected_
       THEN /\ accepted' = accepted + 1
            /\ send_buffer_' = Append(send_buffer_, accepted + 1)
            /\ writes' = IF send_buffer_ = <<>> THEN async_send(send_buffer_') ELSE writes
       ELSE UNCHANGED <<accepted, send_buffer_, writes>>
    /\ UNCHANGED <<established, connected_, reading, wire, downs>>

\* close_loop(): shutdown_both.
close_loop ==
    /\ connected_' = FALSE
    /\ UNCHANGED <<established, send_buffer_, writes, reading, history>>

\* Bounds the calls of send() to a connection that is up.
MaySend ==
    accepted + Len(SelectSeq(posted, LAMBDA op : op = "send")) < MaxSends

\* send() and close() on the loop thread, from a callback or another handler.
send ==
    /\ established
    /\ in = "sendcomplete" => SendFromSendComplete
    /\ MaySend
    /\ send_loop
    /\ UNCHANGED <<posted, in>>

close ==
    /\ established
    /\ close_loop
    /\ UNCHANGED <<posted, in>>

\* send() and close() on another thread.
post(op) ==
    /\ established
    /\ Len(posted) < MaxPosted
    /\ op = "send" => MaySend
    /\ posted' = Append(posted, op)
    /\ UNCHANGED <<established, connected_, send_buffer_, writes, reading, in, history>>

\* The loop thread runs the next queued closure.
run_posted ==
    /\ in = "idle"
    /\ posted # <<>>
    /\ posted' = Tail(posted)
    /\ IF Head(posted) = "send" THEN send_loop ELSE close_loop
    /\ UNCHANGED in

----------------------------------------------------------------------------
\* The kernel and the peer.  A write on a socket that is shut can only fail;
\* data received before the shutdown can still be read after it.
Outcome(k, o) == [writes EXCEPT ![k] = [buf |-> writes[k].buf, st |-> o]]

write_ok(k) ==
    /\ k \in DOMAIN writes /\ writes[k].st = "busy"
    /\ connected_
    /\ writes' = Outcome(k, "ok")
    /\ wire' = Append(wire, writes[k].buf)
    /\ UNCHANGED <<established, connected_, send_buffer_, reading, posted, in, accepted, downs>>

write_err(k) ==
    /\ k \in DOMAIN writes /\ writes[k].st = "busy"
    /\ writes' = Outcome(k, "err")
    /\ UNCHANGED <<established, connected_, send_buffer_, reading, posted, in, history>>

read_data ==
    /\ reading = "busy"
    /\ reading' = "data"
    /\ UNCHANGED <<established, connected_, send_buffer_, writes, posted, in, history>>

read_err ==
    /\ reading = "busy"
    /\ reading' = "err"
    /\ UNCHANGED <<established, connected_, send_buffer_, writes, posted, in, history>>

----------------------------------------------------------------------------
\* handle_establish(), up to connection_callback_.
handle_establish ==
    /\ in = "idle" /\ ~established
    /\ established' = TRUE
    /\ connected_' = TRUE
    /\ reading' = "busy"
    /\ in' = "up"
    /\ UNCHANGED <<send_buffer_, writes, posted, history>>

establish_done ==
    /\ in = "up"
    /\ in' = "idle"
    /\ UNCHANGED <<established, connected_, send_buffer_, writes, reading, posted, history>>

\* handle_close(): nothing remembers that it was run before.
handle_close ==
    /\ connected_' = FALSE
    /\ in' = "down"
    /\ downs' = downs + 1
    /\ UNCHANGED <<established, send_buffer_, posted, accepted, wire>>

close_done ==
    /\ in = "down"
    /\ in' = "idle"
    /\ UNCHANGED <<established, connected_, send_buffer_, writes, reading, posted, history>>

\* handle_recv(ec)
handle_recv_err ==
    /\ in = "idle" /\ reading = "err"
    /\ reading' = "none"
    /\ handle_close
    /\ UNCHANGED writes

\* handle_recv(), up to recv_callback_; then async_recv(), whatever the
\* callback did.
handle_recv ==
    /\ in = "idle" /\ reading = "data"
    /\ reading' = "none"
    /\ in' = "recv"
    /\ UNCHANGED <<established, connected_, send_buffer_, writes, posted, history>>

recv_done ==
    /\ in = "recv"
    /\ in' = "idle"
    /\ reading' = "busy"
    /\ UNCHANGED <<established, connected_, send_buffer_, writes, posted, history>>

\* The handler of the k-th write leaves the queue.
Completed(k) == SubSeq(writes, 1, k - 1) \o SubSeq(writes, k + 1, Len(writes))

\* handle_send(ec)
handle_send_err(k) ==
    /\ in = "idle"
    /\ k \in DOMAIN writes /\ writes[k].st = "err"
    /\ writes' = Completed(k)
    /\ handle_close
    /\ UNCHANGED reading

\* handle_send(), up to sendcomplete_callback_; then the next buffer.
handle_send(k) ==
    /\ in = "idle"
    /\ k \in DOMAIN writes /\ writes[k].st = "ok"
    /\ writes' = Completed(k)
    /\ send_buffer_' = IF send_buffer_ = <<>> THEN <<>> ELSE Tail(send_buffer_)
    /\ in' = "sendcomplete"
    /\ UNCHANGED <<established, connected_, reading, posted, history>>

send_done ==
    /\ in = "sendcomplete"
    /\ in' = "idle"
    /\ writes' = IF send_buffer_ = <<>> THEN writes ELSE async_send(send_buffer_)
    /\ UNCHANGED <<established, connected_, send_buffer_, reading, posted, history>>

----------------------------------------------------------------------------
Users == send \/ close \/ post("send") \/ post("close")

Kernel ==
    \/ read_data \/ read_err
    \/ \E k \in DOMAIN writes : write_ok(k) \/ write_err(k)

Loop ==
    \/ handle_establish \/ establish_done
    \/ run_posted
    \/ handle_recv_err \/ handle_recv \/ recv_done
    \/ \E k \in DOMAIN writes : handle_send_err(k) \/ handle_send(k)
    \/ send_done
    \/ close_done

Next == Users \/ Kernel \/ Loop

\* Every handler that is ready is run, in the order in which it became ready;
\* callbacks return; a write completes one way or the other, and so does the
\* read of a socket that is shut.  A peer need not send anything.
Fairness ==
    /\ SF_vars(run_posted)
    /\ SF_vars(handle_recv_err) /\ SF_vars(handle_recv)
    /\ SF_vars(\E k \in DOMAIN writes : handle_send_err(k) \/ handle_send(k))
    /\ WF_vars(establish_done \/ recv_done \/ send_done \/ close_done)
    /\ WF_vars(\E k \in DOMAIN writes : write_ok(k) \/ write_err(k))
    /\ SF_vars(~connected_ /\ read_err)

Spec == Init /\ [][Next]_vars
FairSpec == Spec /\ Fairness

----------------------------------------------------------------------------
TypeOK ==
    /\ established \in BOOLEAN /\ connected_ \in BOOLEAN
    /\ send_buffer_ \in Seq(1..accepted)
    /\ writes \in Seq([buf : 1..accepted, st : Outcomes])
    /\ reading \in {"none", "busy", "data", "err"}
    /\ posted \in Seq({"send", "close"})
    /\ in \in Callbacks \cup {"idle"}
    /\ accepted \in Nat /\ wire \in Seq(1..accepted) /\ downs \in Nat

\* send_loop starts a write only when none is under way, so there is at most
\* one async_write on the socket, and it is of the buffer at the front: two
\* composed writes would interleave their bytes.
OneWriteInFlight ==
    /\ Len(writes) <= 1
    /\ \A k \in DOMAIN writes :
         send_buffer_ # <<>> /\ writes[k].buf = Head(send_buffer_)

\* While the connection is up, buffered data has a write under way, or
\* handle_send is about to start one: nothing waits for a send() that may
\* never come.
NoStall ==
    connected_ /\ send_buffer_ # <<>> /\ in # "sendcomplete" => writes # <<>>

\* handle_close is run by a failing read and by a failing write, and by nothing
\* else: the end of a connection is reported at most twice.
DownAtMostTwice == downs <= 2

\* A connection that was shut, by whichever side, or that some thread called
\* close() for, is reported to be down: there always is a read whose failure
\* leads to handle_close.
DownIsReported ==
    established /\ (~connected_ \/ \E k \in DOMAIN posted : posted[k] = "close")
        ~> downs > 0

\* Accepted data goes out, unless the connection is shut.
DataGoesOut ==
    \A n \in 1..MaxSends : (accepted >= n) ~> (Len(wire) >= n \/ ~connected_)

----------------------------------------------------------------------------
Stream == INSTANCE OutStream WITH
    state <- IF ~established THEN "new" ELSE IF connected_ THEN "open" ELSE "shut",
    taken <- accepted,
    out   <- wire

\* The queue of buffers, the single write and the handlers together implement
\* OutStream: no buffer is sent twice, skipped or overtaken.
ImplementsStream == Stream!Spec
=============================================================================
