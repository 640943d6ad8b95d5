------------------------------ MODULE HttpTask ------------------------------
(***************************************************************************)
(* examples/http: HttpServer.cpp, HttpTask.cpp and the callbacks of        *)
(* HttpMain.cpp, for one connection: its requests one after the other and  *)
(* the file that is sent for each in chunks.                               *)
(*                                                                         *)
(* Actors: the loop thread, which parses what arrives and is told when a   *)
(* buffer is sent; the workers, which answer requests and read files; a    *)
(* client that sends a request when it has the whole answer to the one     *)
(* before, or leaves.  The loop thread hands the task to the workers and   *)
(* goes on.                                                                *)
(*                                                                         *)
(* A request arrives in Pieces pieces.  http_parser takes them in order    *)
(* and is then ready for the next request; a parser that init() has reset  *)
(* takes a later piece for garbage.  A request is named by its number.     *)
(***************************************************************************)
EXTENDS Naturals, Sequences

CONSTANTS
    MaxRequests,  \* bound on the requests of the client
    Pieces,
    Lengths,      \* of the files, in chunks of Buffer::InitialSize
    Workers       \* number of workers, at least one

ASSUME BoundsAssumption ==
    /\ MaxRequests \in Nat /\ Pieces \in Nat \ {0}
    /\ Lengths \subseteq Nat /\ Workers \in Nat \ {0}

VARIABLES
    up,           \* the connection is up
    inbox,        \* pieces of the request on their way
    parsed,       \* pieces of a request the parser has seen
    checking,     \* on_recv() between parse() and completed()
    completed_,
    request_,     \* the request that was parsed, [n, keep], n = 0 when cleared
    response_,    \* [code, close]
    send_progressively_,
    context_,     \* the FILE: [n, left], n = 0 for nullptr
    resetting,    \* number of workers in init(), past completed_ = false
    jobs,         \* queued in workers_
    out,          \* buffers that are being sent, in order
    \* The client, and history, not part of the program:
    asked,        \* the last request, [n, keep]
    got,          \* the buffers of its answer that arrived
    file,         \* file[n]: "none", "open", "closed" or "misused"
    overlapped,   \* a request was parsed while another one was in the task
    refused       \* workers_ was full and a job was lost

task == <<parsed, completed_, request_, response_, send_progressively_, context_, resetting>>
workers_ == <<jobs, refused>>
vars == <<up, inbox, checking, task, workers_, out, asked, got, file, overlapped>>

NoRequest == [n |-> 0, keep |-> FALSE]
NoFile == [n |-> 0, left |-> 0]
NewResponse == [code |-> 200, close |-> TRUE]

\* HttpTask::init() on a worker, which no lock guards: the parser is reset and
\* completed_ cleared, and init_rest does the rest.  What is parsed in between, or
\* before completed_ is cleared, is parsed into a task in use.
init ==
    /\ parsed' = 0 /\ completed_' = FALSE
    /\ resetting' = resetting + 1
    /\ UNCHANGED <<request_, response_, send_progressively_, context_>>

\* on_connection()
Init ==
    /\ up = TRUE /\ inbox = 0 /\ checking = FALSE
    /\ parsed = 0 /\ completed_ = FALSE
    /\ request_ = NoRequest /\ response_ = NewResponse
    /\ send_progressively_ = FALSE /\ context_ = NoFile /\ resetting = 0
    /\ jobs = <<>> /\ out = <<>>
    /\ asked = NoRequest /\ got = <<>>
    /\ file = [n \in 1..MaxRequests |-> "none"]
    /\ overlapped = FALSE /\ refused = FALSE

Headers(code, n, length) == [code |-> code, n |-> n, length |-> length]
Chunk(n) == [code |-> 0, n |-> n, length |-> 0]

----------------------------------------------------------------------------
\* Variants, as a slip in the code would leave the operations.
process_file_eof_keeps_task ==
    /\ file' = [file EXCEPT ![context_.n] = IF @ = "open" THEN "closed" ELSE "misused"]
    /\ up' = (up /\ ~response_.close)
    /\ UNCHANGED <<task, out>>

process_file_chunk_again ==
    /\ context_' = IF context_.left = 1 THEN context_ ELSE [context_ EXCEPT !.left = @ - 1]
    /\ out' = IF up THEN Append(out, Chunk(context_.n)) ELSE out
    /\ UNCHANGED <<up, file, parsed, completed_, request_, response_, send_progressively_, resetting>>

----------------------------------------------------------------------------
\* The client.  The answer is whole when the headers say how long it is and as
\* many chunks came; otherwise the client waits for the end of the connection.
Whole == got # <<>> /\ got[1].code = 200 /\ got[1].length > 0 /\ Len(got) = got[1].length + 1

client_sends(keep) ==
    /\ up /\ asked.n < MaxRequests
    /\ asked.n > 0 => Whole /\ asked.keep
    /\ asked' = [n |-> asked.n + 1, keep |-> keep]
    /\ got' = <<>>
    /\ inbox' = Pieces
    /\ UNCHANGED <<up, checking, task, workers_, out, file, overlapped>>

\* The end of the connection comes behind what was sent, or, if it is reset, at
\* once.
client_leaves(reset) ==
    /\ up
    /\ up' = FALSE
    /\ inbox' = IF reset THEN 0 ELSE inbox
    /\ UNCHANGED <<checking, task, workers_, out, asked, got, file, overlapped>>

----------------------------------------------------------------------------
\* on_recv() of a piece of the request; the last one completes it.
on_recv ==
    /\ ~checking /\ inbox > 0 /\ parsed = Pieces - inbox
    /\ inbox' = inbox - 1
    /\ parsed' = (parsed + 1) % Pieces
    /\ request_' = asked
    /\ completed_' = (completed_ \/ inbox = 1)
    /\ overlapped' = (overlapped \/ completed_ \/ resetting > 0)
    /\ checking' = TRUE
    /\ UNCHANGED <<up, response_, send_progressively_, context_, resetting, workers_, out, asked, got, file>>

\* parse() fails: 400 is sent, the connection shut, and on_recv() goes on.
on_recv_bad ==
    /\ ~checking /\ inbox > 0 /\ parsed # Pieces - inbox
    /\ up' = FALSE
    /\ inbox' = 0
    /\ checking' = TRUE
    /\ out' = IF up THEN Append(out, Headers(400, 0, 0)) ELSE out
    /\ UNCHANGED <<task, workers_, asked, got, file, overlapped>>

\* workers_.append(): the queue is that of all connections, so that it may be full
\* whatever this one does.  HttpServer ignores the result.
append(job) ==
    \/ jobs' = Append(jobs, job) /\ UNCHANGED refused
    \/ refused' = TRUE /\ UNCHANGED jobs

on_recv_completed ==
    /\ checking
    /\ checking' = FALSE
    /\ IF completed_ THEN append("request") ELSE UNCHANGED workers_
    /\ UNCHANGED <<up, inbox, task, out, asked, got, file, overlapped>>

\* The buffer is on its way to the client, and handle_send() calls
\* on_sendcomplete() before anything the client sends in turn is received.
on_sendcomplete ==
    /\ out # <<>>
    /\ out' = Tail(out) /\ got' = Append(got, Head(out))
    /\ IF send_progressively_ THEN append("progress") ELSE UNCHANGED workers_
    /\ UNCHANGED <<up, inbox, checking, task, asked, file, overlapped>>

\* A write fails once the connection is shut, and what waits behind it stays.
send_fails ==
    /\ ~up /\ out # <<>>
    /\ out' = <<>>
    /\ UNCHANGED <<up, inbox, checking, task, workers_, asked, got, file, overlapped>>

----------------------------------------------------------------------------
\* on_request() of HttpMain.cpp, and the headers: there is a file of that length,
\* or not, or the request is none.
answer_file(length) ==
    /\ request_.n > 0
    /\ response_' = [code |-> 200, close |-> ~request_.keep]
    /\ send_progressively_' = TRUE
    /\ context_' = [n |-> request_.n, left |-> length]
    /\ file' = [file EXCEPT ![request_.n] = IF @ = "none" THEN "open" ELSE "misused"]
    /\ out' = IF up THEN Append(out, Headers(200, request_.n, length)) ELSE out

answer_error(code) ==
    /\ request_.n = 0 => code = 400
    /\ response_' = [code |-> code, close |-> TRUE]
    /\ out' = IF up THEN Append(out, Headers(code, request_.n, 0)) ELSE out
    /\ UNCHANGED <<send_progressively_, context_, file>>

\* A worker takes a job; the k-th while the ones before it are in other workers.
Take(k, job) ==
    /\ k \in DOMAIN jobs /\ k + resetting <= Workers /\ jobs[k] = job
    /\ jobs' = SubSeq(jobs, 1, k - 1) \o SubSeq(jobs, k + 1, Len(jobs))
    /\ UNCHANGED refused

\* HttpTask::on_request()
on_request(k) ==
    /\ Take(k, "request")
    /\ \/ \E code \in {400, 404} : answer_error(code)
       \/ \E length \in Lengths : answer_file(length)
    /\ UNCHANGED <<up, inbox, checking, parsed, completed_, request_, resetting, asked, got, overlapped>>

\* process_file() reads a chunk, and it is sent.
process_file ==
    /\ context_' = [context_ EXCEPT !.left = @ - 1]
    /\ file' = IF file[context_.n] = "open" THEN file
                                            ELSE [file EXCEPT ![context_.n] = "misused"]
    /\ out' = IF up THEN Append(out, Chunk(context_.n)) ELSE out
    /\ UNCHANGED <<up, parsed, completed_, request_, response_, send_progressively_, resetting>>

\* Nothing was read: the connection is closed, or the task is made ready for the
\* next request.
done ==
    /\ IF response_.close THEN up' = FALSE /\ UNCHANGED task ELSE init /\ UNCHANGED up
    /\ UNCHANGED out

\* The end of the file: it is closed.
process_file_eof ==
    /\ file' = [file EXCEPT ![context_.n] = IF @ = "open" THEN "closed" ELSE "misused"]
    /\ done

\* HttpTask::on_send_progressively(); without a file nothing is read.
on_send_progressively(k) ==
    /\ Take(k, "progress")
    /\ \/ context_.left > 0 /\ process_file
       \/ context_.left = 0 /\ context_.n > 0 /\ process_file_eof
       \/ context_.n = 0 /\ done /\ UNCHANGED file
    /\ inbox' = IF up /\ ~up' THEN 0 ELSE inbox
    /\ UNCHANGED <<checking, asked, got, overlapped>>

\* The rest of init(), with HttpRequest::init() and HttpResponse::init().
init_rest ==
    /\ resetting > 0
    /\ request_' = NoRequest /\ response_' = NewResponse
    /\ send_progressively_' = FALSE /\ context_' = NoFile
    /\ resetting' = resetting - 1
    /\ UNCHANGED <<up, inbox, checking, parsed, completed_, workers_, out, asked, got, file, overlapped>>

\* The connection is gone when the worker asks for it.
job_dropped(k) ==
    /\ ~up
    /\ Take(k, "request") \/ Take(k, "progress")
    /\ UNCHANGED <<up, inbox, checking, task, out, asked, got, file, overlapped>>

----------------------------------------------------------------------------
Client == \E b \in BOOLEAN : client_sends(b) \/ client_leaves(b)
Loop == on_recv \/ on_recv_bad \/ on_recv_completed \/ on_sendcomplete \/ send_fails
Worker ==
    \/ \E k \in 1..Workers : on_request(k) \/ on_send_progressively(k) \/ job_dropped(k)
    \/ init_rest

Next == Client \/ Loop \/ Worker

\* The loop thread and the workers run, and the network delivers.
Spec == Init /\ [][Next]_vars /\ WF_vars(Loop) /\ WF_vars(Worker)

----------------------------------------------------------------------------
\* While requests do not overlap: all that is sent is the answer to the request
\* the client waits for, the headers first and then no more chunks than they
\* promise, and the file is opened, read and closed in that order, once.
OwnAnswer ==
    ~overlapped =>
        LET answer == got \o out
        IN  /\ \A i \in DOMAIN answer : answer[i].n = asked.n /\ (answer[i].code # 0) = (i = 1)
            /\ answer # <<>> => Len(answer) <= answer[1].length + 1
            /\ \A n \in DOMAIN file :
                 /\ file[n] # "misused"
                 /\ file[n] = "open" /\ up => context_.n = n

\* While requests do not overlap and workers_ takes the jobs: a request is
\* answered; the file is sent to its end and closed, and the connection is then
\* closed or ready for the next one.
Finishes ==
    \A n \in 1..MaxRequests :
        (asked.n = n) ~>
            \/ overlapped \/ refused \/ ~up
            \/ got # <<>> /\ got[1].code # 200
            \/ file[n] = "closed" /\ ~completed_ /\ resetting = 0 /\ asked.keep
=============================================================================
