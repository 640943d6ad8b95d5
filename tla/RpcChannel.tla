----------------------------- MODULE RpcChannel -----------------------------
(***************************************************************************)
(* examples/rpc/RpcChannel.cpp with RpcClient.cpp and RpcServer.cpp: the   *)
(* channels at the two ends of a connection, the buffers they receive      *)
(* into, and the services that answer now or later.                        *)
(*                                                                         *)
(* Actors: the loop thread of the client, on which calls are made and      *)
(* answers arrive; the loop thread of the server, without worker threads   *)
(* as in server.cpp; the threads on which services call on_done; the       *)
(* network, which delivers what was sent in pieces of any size and may     *)
(* break the connection.  The client keeps its channel over connections,   *)
(* the server has a new one for each.                                      *)
(*                                                                         *)
(* A frame is a header of HeaderLen bytes and a body of some bytes.  What  *)
(* is sent carries its frame and its place in it, so that it means nothing *)
(* to a reader that starts at another place.  A service that calls on_done *)
(* when the connection is gone calls it on a channel that was destroyed;   *)
(* it is taken to find no connection there.                                *)
(***************************************************************************)
EXTENDS Buffer, Integers

CONSTANTS
    Calls,        \* the calls the client makes, also what they return
    Empty,        \* a message of no bytes, read as a message with default values
    Failed,       \* a call that was told to have failed
    HeaderLen,
    Bodies,       \* body lengths
    FirstIds,     \* what id_ may hold, it is not initialised
    MaxConns      \* bound on connections

ASSUME SizesAssumption ==
    /\ HeaderLen \in Nat \ {0} /\ Bodies \subseteq Nat \ {0} /\ InitialSize \in Nat \ {0}
ASSUME IdsAssumption == FirstIds \subseteq Int
ASSUME AnswersAssumption == Empty \notin Calls /\ Failed \notin Calls /\ Empty # Failed

VARIABLES
    id_,
    reqs_,       \* the outstanding calls by id
    up,          \* the connection is up
    conns,       \* how many connections there were
    sent,        \* sent[e]: the bytes on their way to end e, "client" or "server"
    recv,        \* recv[e]: the recv_buffer_ of end e
    serving,     \* the requests services have not answered: [id, call, conn]
    \* History, not part of the program:
    asked,       \* the calls that were made
    answers,     \* answers[c]: what the closures of the calls found
    via          \* via[c]: the connection call c was sent on, or 0

vars == <<id_, reqs_, up, conns, sent, recv, serving, asked, answers, via>>

Ends == {"client", "server"}

Init ==
    /\ id_ \in FirstIds
    /\ reqs_ = <<>>
    /\ up = FALSE /\ conns = 0
    /\ sent = [e \in Ends |-> <<>>]
    /\ recv = [e \in Ends |-> new_Buffer(InitialSize)]
    /\ serving = {}
    /\ asked = {} /\ answers = [c \in Calls |-> <<>>] /\ via = [c \in Calls |-> 0]

Frame(kind, id, msg, body) == [kind |-> kind, id |-> id, msg |-> msg, size |-> HeaderLen + body]

\* pack_send() writes the header and then the body to a new buffer and sends what
\* is readable of it: the places of a frame in the order in which they go out.
Layout == [body \in Bodies |->
    LET places == [i \in 1..(HeaderLen + body) |-> i]
    IN  Readable(write(write(ensure_writable(new_Buffer(InitialSize), HeaderLen + body),
                             SubSeq(places, 1, HeaderLen)),
                       SubSeq(places, HeaderLen + 1, HeaderLen + body)))]

pack(f) == LET layout == Layout[f.size - HeaderLen]
           IN  [i \in DOMAIN layout |-> [frame |-> f, at |-> layout[i]]]

----------------------------------------------------------------------------
\* Variants, as a slip in the code would leave the operations.
next_id_stays == id_

send_resp_if_ok(id, msg, body) ==
    sent' = IF up /\ msg # Empty
            THEN [sent EXCEPT !["client"] = @ \o pack(Frame("response", id, msg, body))]
            ELSE sent

----------------------------------------------------------------------------
\* Both sides learn of a new connection; the buffers are those of new
\* TcpConnections.
connect ==
    /\ ~up /\ conns < MaxConns
    /\ up' = TRUE /\ conns' = conns + 1
    /\ UNCHANGED <<id_, reqs_, sent, recv, serving, asked, answers, via>>

\* The connection breaks, with what is on its way.
disconnect ==
    /\ up
    /\ up' = FALSE
    /\ sent' = [e \in Ends |-> <<>>]
    /\ recv' = [e \in Ends |-> new_Buffer(InitialSize)]
    /\ UNCHANGED <<id_, reqs_, conns, serving, asked, answers, via>>

\* id_.fetch_add(1)
next_id == id_ + 1

\* pack_send() to end e: without a connection nothing is sent.
pack_send(e, f) == sent' = IF up THEN [sent EXCEPT ![e] = @ \o pack(f)] ELSE sent

CallMethod(c, body) ==
    /\ c \notin asked
    /\ id_' = next_id
    /\ reqs_' = [i \in DOMAIN reqs_ \cup {id_} |-> IF i = id_ THEN c ELSE reqs_[i]]
    /\ pack_send("server", Frame("request", id_, c, body))
    /\ asked' = asked \cup {c}
    /\ via' = [via EXCEPT ![c] = IF up THEN conns ELSE 0]
    /\ UNCHANGED <<up, conns, recv, serving, answers>>

----------------------------------------------------------------------------
\* process() goes on while there is a whole frame, and stops at a header it does
\* not understand.
complete(e) ==
    /\ readable_bytes(recv[e]) >= HeaderLen
    /\ Readable(recv[e])[1].at = 1
    /\ readable_bytes(recv[e]) >= Readable(recv[e])[1].frame.size

Received(e) == Readable(recv[e])[1].frame

Consumed(e) == [recv EXCEPT ![e] = has_readed(@, Received(e).size)]

\* async_recv() of end e makes room behind the bytes process() has left.
async_recv(e) == ensure_writable(recv[e], InitialSize)

\* The read completes and handle_recv() of end e takes note of its k bytes.
receive(e, k) ==
    /\ ~complete(e)
    /\ \E b \in {async_recv(e)} :
         /\ k <= writable_bytes(b)
         /\ recv' = [recv EXCEPT ![e] = has_written(Copied(b, SubSeq(sent[e], 1, k)), k)]
    /\ sent' = [sent EXCEPT ![e] = SubSeq(@, k + 1, Len(@))]
    /\ UNCHANGED <<id_, reqs_, up, conns, serving, asked, answers, via>>

\* A response: the call it answers, if there is one, is told, by its closure.
\* The error code and text in the meta data are not looked at.
process_response(parsed) ==
    /\ complete("client")
    /\ LET id == Received("client").id
       IN  IF id \in DOMAIN reqs_
           THEN /\ reqs_' = [i \in DOMAIN reqs_ \ {id} |-> reqs_[i]]
                /\ answers' = [answers EXCEPT ![reqs_[id]] =
                                  Append(@, IF parsed THEN Received("client").msg ELSE Failed)]
           ELSE UNCHANGED <<reqs_, answers>>
    /\ recv' = Consumed("client")
    /\ UNCHANGED <<id_, up, conns, sent, serving, asked, via>>

send_resp(id, msg, body) == pack_send("client", Frame("response", id, msg, body))

\* A request: refused (no such service or method, not a request of it, no
\* memory), or given to the service.
process_request_refused(body) ==
    /\ complete("server")
    /\ send_resp(Received("server").id, Empty, body)
    /\ recv' = Consumed("server")
    /\ UNCHANGED <<id_, reqs_, up, conns, serving, asked, answers, via>>

process_request ==
    /\ complete("server")
    /\ serving' = serving \cup {[id |-> Received("server").id,
                                 call |-> Received("server").msg, conn |-> conns]}
    /\ recv' = Consumed("server")
    /\ UNCHANGED <<id_, reqs_, up, conns, sent, asked, answers, via>>

\* The service is done, in its own time; the response of a service that failed
\* carries what the service has put into it.  The closure holds a plain pointer to
\* the channel, which is destroyed with its connection: if that is gone by now the
\* behaviour is undefined, and it is taken to find no connection.
on_done(r, body) ==
    /\ r \in serving
    /\ serving' = serving \ {r}
    /\ IF up /\ r.conn = conns THEN send_resp(r.id, r.call, body) ELSE UNCHANGED sent
    /\ UNCHANGED <<id_, reqs_, up, conns, recv, asked, answers, via>>

----------------------------------------------------------------------------
Receive(e) == \E k \in 1..Len(sent[e]) : receive(e, k)
Process(e) ==
    \/ e = "client" /\ \E parsed \in BOOLEAN : process_response(parsed)
    \/ e = "server" /\ (process_request \/ \E body \in Bodies : process_request_refused(body))
Answer(c) == \E r \in serving, body \in Bodies : r.call = c /\ on_done(r, body)

Next ==
    \/ connect \/ disconnect
    \/ \E c \in Calls, body \in Bodies : CallMethod(c, body)
    \/ \E e \in Ends : Receive(e) \/ Process(e)
    \/ \E c \in Calls : Answer(c)

\* The network delivers while it is up, the loops run, services answer.
Fairness ==
    /\ \A e \in Ends : WF_vars(Receive(e)) /\ WF_vars(Process(e))
    /\ \A c \in Calls : WF_vars(Answer(c))

Spec == Init /\ [][Next]_vars
FairSpec == Spec /\ Fairness

----------------------------------------------------------------------------
\* What an end has received and not consumed, and what is on its way to it: a
\* frame that comes in begins with its first byte and is followed by the rest of
\* it and the next one, however it was cut into pieces, and however the buffer
\* was moved and made longer for them.
Framed ==
    \A e \in Ends :
        LET all == Readable(recv[e]) \o sent[e]
        IN  /\ all # <<>> => all[1].at = 1 /\ all[Len(all)].at = all[Len(all)].frame.size
            /\ \A i \in 1..(Len(all) - 1) :
                 IF all[i].at = all[i].frame.size
                 THEN all[i + 1].at = 1
                 ELSE all[i + 1] = [frame |-> all[i].frame, at |-> all[i].at + 1]

Rpc == INSTANCE RpcCalls

\* However calls, answers and connections overlap: a closure is run at most once
\* and finds what was answered to its own call.
ImplementsCalls == Rpc!Spec

\* A call that was sent is answered, in whatever order services answer, unless
\* the connection it was sent on breaks.
Answered ==
    \A c \in Calls : (via[c] # 0) ~> (answers[c] # <<>> \/ ~up \/ via[c] # conns)
=============================================================================
