--------------------------- MODULE HttpTaskProofs ---------------------------
(***************************************************************************)
(* Proofs about HttpTask, for every number of requests, workers and pieces *)
(* of a request, and files of every length.                                *)
(*                                                                         *)
(* The task is handed from the loop thread to a worker, to the connection  *)
(* and back by what is in exactly one place: on_recv() that has completed  *)
(* a request, a job in the queue, a buffer that is being sent, or a worker *)
(* that resets it.  As long as no request is parsed into a task that is in *)
(* use, there is no more than one of them, whatever the client does and    *)
(* whichever job workers_ refuses.                                         *)
(***************************************************************************)
EXTENDS HttpTask, SequenceTheorems, TLAPS

Buffers == [code : Nat, n : Nat, length : Nat]

Answer == got \o out

Types ==
    /\ inbox \in 0..Pieces /\ parsed \in 0..(Pieces - 1)
    /\ asked.n \in 0..MaxRequests /\ request_.n \in 0..MaxRequests
    /\ context_ \in [n : 0..MaxRequests, left : Nat] /\ resetting \in Nat
    /\ jobs \in Seq({"request", "progress"})
    /\ out \in Seq(Buffers) /\ got \in Seq(Buffers)
    /\ file \in [1..MaxRequests -> {"none", "open", "closed", "misused"}]

\* The parser is where the pieces of the request are, and the next request
\* arrives at a task that is unused or has sent its file.
InputInv ==
    /\ inbox > 0 => parsed = Pieces - inbox /\ asked.n > 0 /\ got = <<>> /\ out = <<>>
    /\ up /\ inbox = 0 => parsed = 0
    /\ completed_ /\ inbox > 0 => inbox = Pieces /\ context_.n # 0 /\ asked.n = context_.n + 1

\* The task is in one place at a time.
PlaceInv ==
    /\ ~completed_ => jobs = <<>> /\ out = <<>>
    /\ ~completed_ /\ resetting = 0 => context_ = NoFile
    /\ completed_ /\ checking => jobs = <<>> /\ out = <<>>
    /\ jobs # <<>> => Len(jobs) = 1 /\ out = <<>>
    /\ Len(out) <= 1

\* A worker that resets the task is alone with it; the file it forgets was sent to
\* its end and is closed.  The client may have asked for the next one.
ResetInv ==
    resetting > 0 =>
        /\ resetting = 1 /\ ~completed_ /\ ~checking /\ parsed = 0
        /\ context_.n # 0 /\ context_.left = 0 /\ file[context_.n] = "closed"
        /\ asked.n \in {context_.n, context_.n + 1} /\ (asked.n = context_.n => inbox = 0)

\* A request that is to be answered.
Pending == completed_ /\ (checking \/ jobs = <<"request">>)

RequestInv ==
    /\ completed_ => request_.n # 0 /\ asked.n \in {request_.n, request_.n + 1}
    /\ Pending => asked.n = request_.n /\ context_ = NoFile /\ inbox = 0 /\ Answer = <<>>
    /\ completed_ /\ context_.n = 0 => asked.n = request_.n /\ Len(Answer) <= 1

\* The file of the request, and the chunks of it that are left.
ContextInv ==
    /\ (context_.n = 0 <=> ~send_progressively_) /\ (context_.n = 0 => context_.left = 0)
    /\ context_.n # 0 =>
         /\ context_.n = request_.n
         /\ asked.n # request_.n => context_.left = 0 /\ got = <<>> /\ out = <<>>
    /\ jobs = <<"progress">> =>
         context_.n # 0 /\ file[context_.n] = "open" /\ (asked.n = context_.n => got # <<>>)
    /\ context_.n # 0 /\ out # <<>> => file[context_.n] = "open"

\* What was sent is the answer to the request the client waits for.
AnswerInv ==
    /\ \A i \in 1..Len(Answer) : Answer[i].n = asked.n /\ (Answer[i].code # 0 <=> i = 1)
    /\ Answer # <<>> =>
         Len(Answer) + (IF context_.n = asked.n THEN context_.left ELSE 0) <= Answer[1].length + 1

FileInv ==
    /\ \A n \in 1..MaxRequests :
         /\ file[n] # "misused" /\ (file[n] = "open" /\ up => context_.n = n)
         /\ n > asked.n => file[n] = "none"
    /\ inbox > 0 \/ Pending => file[asked.n] = "none"

Ordered ==
    Types /\ InputInv /\ PlaceInv /\ ResetInv /\ RequestInv /\ ContextInv /\ AnswerInv /\ FileInv

Inv == ~overlapped => Ordered

----------------------------------------------------------------------------
(***************************************************************************)
(* Lemmas.                                                                 *)
(***************************************************************************)
LEMMA Concat ==
    ASSUME NEW S, NEW s \in Seq(S), NEW t \in Seq(S)
    PROVE  /\ s \o t \in Seq(S) /\ Len(s \o t) = Len(s) + Len(t) /\ Len(s) \in Nat /\ Len(t) \in Nat
           /\ \A i \in 1..Len(s) : (s \o t)[i] = s[i]
  BY ConcatProperties

LEMMA AnswerIs ==
    ASSUME Types
    PROVE  /\ Answer \in Seq(Buffers) /\ Len(Answer) = Len(got) + Len(out)
           /\ Len(got) \in Nat /\ Len(out) \in Nat
           /\ \A i \in 1..Len(got) : Answer[i] = got[i]
           /\ Answer = <<>> <=> got = <<>> /\ out = <<>>
<1>1. got \in Seq(Buffers) /\ out \in Seq(Buffers)
  BY DEF Types
<1>2. /\ Answer \in Seq(Buffers) /\ Len(Answer) = Len(got) + Len(out)
      /\ Len(got) \in Nat /\ Len(out) \in Nat
      /\ \A i \in 1..Len(got) : Answer[i] = got[i]
  BY <1>1, Concat DEF Answer
<1>3. Answer = <<>> <=> got = <<>> /\ out = <<>>
  BY <1>1, <1>2
<1> QED
  BY <1>2, <1>3

\* A buffer is handed to the connection: it is behind what was sent.
LEMMA AnswerGrows ==
    ASSUME Types, NEW x \in Buffers, got' = got, out' = Append(out, x)
    PROVE  Answer' = Append(Answer, x) /\ out' \in Seq(Buffers) /\ Len(out') = Len(out) + 1
<1>1. got \in Seq(Buffers) /\ out \in Seq(Buffers) /\ <<x>> \in Seq(Buffers)
  BY DEF Types
<1>2. Append(out, x) = out \o <<x>> /\ Append(Answer, x) = Answer \o <<x>>
  BY <1>1, AnswerIs, AppendIsConcat
<1>3. got \o (out \o <<x>>) = (got \o out) \o <<x>>
  BY <1>1, ConcatAssociative
<1>4. Append(out, x) \in Seq(Buffers) /\ Len(Append(out, x)) = Len(out) + 1
  BY <1>1, AppendProperties
<1> QED
  BY <1>2, <1>3, <1>4 DEF Answer

\* A buffer arrives: what was sent is the same.
LEMMA AnswerMoves ==
    ASSUME Types, out # <<>>, out' = Tail(out), got' = Append(got, Head(out))
    PROVE  /\ Answer' = Answer /\ got' \in Seq(Buffers) /\ out' \in Seq(Buffers)
           /\ got' # <<>> /\ Len(out') = Len(out) - 1
<1>1. got \in Seq(Buffers) /\ out \in Seq(Buffers)
  BY DEF Types
<1>2. PICK x, t : x = Head(out) /\ t = Tail(out)
  OBVIOUS
<1>3. x \in Buffers /\ t \in Seq(Buffers) /\ out = <<x>> \o t /\ Len(t) = Len(out) - 1
  BY <1>1, <1>2, HeadTailProperties
<1>4. <<x>> \in Seq(Buffers)
  BY <1>3
<1>5. Append(got, x) = got \o <<x>> /\ Append(got, x) \in Seq(Buffers) /\ Append(got, x) # <<>>
  BY <1>1, <1>3, AppendProperties, AppendIsConcat
<1>6. (got \o <<x>>) \o t = got \o (<<x>> \o t)
  BY <1>1, <1>3, <1>4, ConcatAssociative
<1> QED
  BY <1>2, <1>3, <1>5, <1>6 DEF Answer

LEMMA JobQueues ==
    /\ <<>> \in Seq({"request", "progress"})
    /\ <<"request">> \in Seq({"request", "progress"})
    /\ <<"progress">> \in Seq({"request", "progress"})
<1>1. ASSUME NEW S, NEW x \in S
      PROVE  <<x>> \in Seq(S) /\ <<>> \in Seq(S)
  OBVIOUS
<1> QED
  BY <1>1

\* A job is queued, or refused.
LEMMA AppendOrNot ==
    ASSUME NEW job, NEW STATE asks, IF asks THEN append(job) ELSE UNCHANGED workers_
    PROVE  jobs' = jobs \/ (asks /\ jobs' = Append(jobs, job))
<1>1. CASE asks
  BY <1>1 DEF append
<1>2. CASE ~asks
  BY <1>2 DEF workers_
<1> QED
  BY <1>1, <1>2

\* A worker takes the only job.
LEMMA TakeOne ==
    ASSUME Types, PlaceInv, NEW k, NEW job, Take(k, job)
    PROVE  jobs = <<job>> /\ jobs' = <<>> /\ out = <<>> /\ completed_ /\ ~checking
<1>1. jobs \in Seq({"request", "progress"}) /\ k \in DOMAIN jobs /\ jobs[k] = job
  BY DEF Types, Take
<1>2. jobs # <<>>
  BY <1>1
<1>3. Len(jobs) = 1 /\ out = <<>> /\ completed_ /\ ~checking
  BY <1>2 DEF PlaceInv
<1>4. k = 1 /\ jobs = <<job>>
  BY <1>1, <1>3
<1>5. jobs' = SubSeq(<<job>>, 1, 1 - 1) \o SubSeq(<<job>>, 1 + 1, Len(<<job>>))
  BY <1>4 DEF Take
<1>6. SubSeq(<<job>>, 1, 0) = <<>> /\ SubSeq(<<job>>, 2, 1) = <<>>
  OBVIOUS
<1> QED
  BY <1>3, <1>4, <1>5, <1>6

----------------------------------------------------------------------------
(***************************************************************************)
(* The client.                                                             *)
(***************************************************************************)
LEMMA InitOrdered ==
    ASSUME Init
    PROVE  Ordered
<1> USE BoundsAssumption
<1>1. Answer = <<>>
  BY DEF Init, Answer
<1>2. Types
  BY DEF Init, Types, NoRequest, NoFile
<1>3. InputInv
  BY DEF Init, InputInv
<1>4. PlaceInv
  BY DEF Init, PlaceInv
<1>5. RequestInv
  BY DEF Init, RequestInv, Pending
<1>6. ContextInv
  BY DEF Init, ContextInv, NoFile
<1>7. AnswerInv
  BY <1>1 DEF AnswerInv
<1>8. FileInv
  BY DEF Init, FileInv, Pending, NoRequest
<1>9. ResetInv
  BY DEF Init, ResetInv
<1> QED
  BY <1>2, <1>3, <1>4, <1>5, <1>6, <1>7, <1>8, <1>9 DEF Ordered

\* The client has the whole answer: nothing more is sent or left of the file.
LEMMA WholeIsAll ==
    ASSUME Ordered, up, asked.n > 0 => Whole
    PROVE  /\ inbox = 0 /\ parsed = 0 /\ out = <<>> /\ ~Pending
           /\ completed_ => context_.n # 0 /\ context_.n = request_.n /\ asked.n = request_.n
                              /\ context_.left = 0
<1> USE DEF Ordered
<1>1. CASE asked.n = 0
  <2>1. ~completed_ /\ inbox = 0
    BY <1>1 DEF RequestInv, InputInv, Types
  <2> QED
    BY <2>1 DEF PlaceInv, Pending, InputInv
<1>2. CASE asked.n # 0
  <2>1. /\ got # <<>> /\ got[1].length > 0 /\ Len(got) = got[1].length + 1
    BY <1>2 DEF Whole, Types
  <2>2. inbox = 0 /\ parsed = 0
    BY <2>1 DEF InputInv, Types
  <2>3. /\ Answer # <<>> /\ Answer[1] = got[1] /\ Len(Answer) = Len(got) + Len(out)
        /\ Len(got) \in Nat /\ Len(out) \in Nat /\ out \in Seq(Buffers) /\ got \in Seq(Buffers)
        /\ got[1].length \in Nat
    <3>1. /\ Len(Answer) = Len(got) + Len(out) /\ Len(got) \in Nat /\ Len(out) \in Nat
          /\ \A i \in 1..Len(got) : Answer[i] = got[i]
          /\ Answer = <<>> <=> got = <<>> /\ out = <<>>
      BY AnswerIs
    <3>2. out \in Seq(Buffers) /\ got \in Seq(Buffers)
      BY DEF Types
    <3>3. 1 \in 1..Len(got) /\ got[1] \in Buffers
      BY <2>1, <3>2
    <3>4. got[1].length \in Nat
      BY <3>3 DEF Buffers
    <3> QED
      BY <2>1, <3>1, <3>2, <3>3, <3>4
  <2>4. Len(Answer) + (IF context_.n = asked.n THEN context_.left ELSE 0) <= Answer[1].length + 1
    BY <2>3 DEF AnswerInv
  <2>5. context_.left \in Nat
    BY DEF Types
  <2>6. Len(out) = 0 /\ (context_.n = asked.n => context_.left = 0) /\ Len(Answer) > 1
    BY <2>1, <2>3, <2>4, <2>5
  <2>7. out = <<>>
    BY <2>3, <2>6
  <2>8. ~Pending
    BY <2>3 DEF RequestInv
  <2>9. ASSUME completed_
        PROVE  context_.n # 0 /\ context_.n = request_.n /\ asked.n = request_.n /\ context_.left = 0
    <3>1. context_.n # 0
      BY <2>3, <2>6, <2>9 DEF RequestInv
    <3>2. context_.n = request_.n /\ asked.n = request_.n
      BY <2>1, <3>1 DEF ContextInv
    <3> QED
      BY <2>6, <3>1, <3>2
  <2> QED
    BY <2>2, <2>7, <2>8, <2>9
<1> QED
  BY <1>1, <1>2

LEMMA SendsKeeps ==
    ASSUME Ordered, NEW keep \in BOOLEAN, client_sends(keep)
    PROVE  Ordered'
<1> USE DEF Ordered
<1>1. /\ up /\ asked.n < MaxRequests /\ (asked.n > 0 => Whole) /\ asked'.n = asked.n + 1
      /\ got' = <<>> /\ inbox' = Pieces /\ up' = up /\ checking' = checking
      /\ parsed' = parsed /\ completed_' = completed_ /\ request_' = request_
      /\ resetting' = resetting /\ send_progressively_' = send_progressively_ /\ context_' = context_
      /\ jobs' = jobs /\ out' = out /\ file' = file
  BY DEF client_sends, task, workers_
<1>2. /\ inbox = 0 /\ parsed = 0 /\ out = <<>> /\ ~Pending
      /\ completed_ => context_.n # 0 /\ context_.n = request_.n /\ asked.n = request_.n
                         /\ context_.left = 0
  BY <1>1, WholeIsAll
<1>3. Answer' = <<>>
  BY <1>1, <1>2 DEF Answer
<1>4. asked.n \in Nat /\ Pieces \in Nat \ {0} /\ asked'.n \in 1..MaxRequests
  BY <1>1, BoundsAssumption DEF Types
<1>5. ~Pending'
  BY <1>1, <1>2 DEF Pending
<1>6. Types'
  BY <1>1, <1>4 DEF Types
<1>7. InputInv'
  BY <1>1, <1>2, <1>4 DEF InputInv
<1>8. PlaceInv'
  BY <1>1 DEF PlaceInv
<1>9. RequestInv'
  BY <1>1, <1>2, <1>5 DEF RequestInv
<1>10. ContextInv'
  <2>1. context_.n # 0 => completed_ \/ resetting > 0
    BY DEF PlaceInv, NoFile, Types
  <2>2. context_.n # 0 => context_.left = 0
    BY <1>2, <2>1 DEF ResetInv
  <2>3. jobs # <<"progress">> \/ context_.n = asked.n
    <3>1. CASE completed_
      BY <1>2, <3>1
    <3>2. CASE ~completed_
      <4>1. jobs = <<>>
        BY <3>2 DEF PlaceInv
      <4> QED
        BY <4>1
    <3> QED
      BY <3>1, <3>2
  <2> QED
    BY <1>1, <1>2, <1>4, <2>2, <2>3 DEF ContextInv
<1>11. AnswerInv'
  BY <1>3 DEF AnswerInv
<1>12. FileInv'
  <2>1. ASSUME NEW n \in 1..MaxRequests
        PROVE  /\ file'[n] # "misused" /\ (file'[n] = "open" /\ up' => context_'.n = n)
               /\ n > asked'.n => file'[n] = "none"
    BY <1>1, <1>4 DEF FileInv
  <2>2. file'[asked'.n] = "none"
    BY <1>1, <1>4 DEF FileInv
  <2> QED
    BY <2>1, <2>2 DEF FileInv
<1>13. ResetInv'
  <2> SUFFICES ASSUME resetting > 0 PROVE asked.n = context_.n
    BY <1>1, <1>2, <1>4 DEF ResetInv, Types
  <2>1. context_.n # 0 /\ asked.n \in {context_.n, context_.n + 1} /\ context_.n \in Nat
    BY DEF ResetInv, Types
  <2>2. got # <<>>
    BY <1>1, <2>1 DEF Whole
  <2>3. asked.n = request_.n /\ context_.n = request_.n
    BY <2>1, <2>2 DEF ContextInv
  <2> QED
    BY <2>3
<1> QED
  BY <1>6, <1>7, <1>8, <1>9, <1>10, <1>11, <1>12, <1>13

LEMMA LeavesKeeps ==
    ASSUME Ordered, NEW reset \in BOOLEAN, client_leaves(reset)
    PROVE  Ordered'
<1> USE DEF Ordered
<1>1. /\ ~up' /\ (inbox' = 0 \/ inbox' = inbox) /\ asked' = asked
      /\ got' = got /\ checking' = checking
      /\ parsed' = parsed /\ completed_' = completed_ /\ request_' = request_
      /\ resetting' = resetting /\ send_progressively_' = send_progressively_ /\ context_' = context_
      /\ jobs' = jobs /\ out' = out /\ file' = file
  BY DEF client_leaves, task, workers_
<1>2. Answer' = Answer /\ (Pending' <=> Pending)
  BY <1>1 DEF Answer, Pending
<1>3. Types'
  BY <1>1, BoundsAssumption DEF Types
<1>4. InputInv'
  BY <1>1 DEF InputInv
<1>5. PlaceInv'
  BY <1>1 DEF PlaceInv
<1>6. RequestInv'
  BY <1>1, <1>2 DEF RequestInv
<1>7. ContextInv'
  BY <1>1 DEF ContextInv
<1>8. AnswerInv'
  BY <1>1, <1>2 DEF AnswerInv
<1>9. FileInv'
  BY <1>1, <1>2 DEF FileInv
<1>10. ResetInv'
  BY <1>1 DEF ResetInv
<1> QED
  BY <1>3, <1>4, <1>5, <1>6, <1>7, <1>8, <1>9, <1>10

----------------------------------------------------------------------------
(***************************************************************************)
(* The loop thread.                                                        *)
(***************************************************************************)
\* The parser's count of pieces.
LEMMA NextPiece ==
    ASSUME NEW p \in Nat, NEW m \in Nat, p < m
    PROVE  (p + 1) % m = IF p + 1 = m THEN 0 ELSE p + 1
<1> DEFINE r == (p + 1) % m
           q == (p + 1) \div m
<1>1. m > 0
  OBVIOUS
<1>2. r \in Int /\ q \in Int /\ r >= 0 /\ r < m /\ p + 1 = m * q + r
  BY <1>1
<1> HIDE DEF r, q
<1>3. q = 0 \/ q = 1
  <2>1. CASE q >= 2
    <3>1. m * q >= 2 * m
      BY <1>1, <1>2, <2>1
    <3> QED
      BY <1>2, <3>1
  <2>2. CASE q <= -1
    <3>1. m * q <= -m
      BY <1>1, <1>2, <2>2
    <3> QED
      BY <1>2, <3>1
  <2> QED
    BY <1>2, <2>1, <2>2
<1>4. CASE q = 0
  BY <1>2, <1>4 DEF r
<1>5. CASE q = 1
  BY <1>2, <1>5 DEF r
<1> QED
  BY <1>3, <1>4, <1>5

\* A piece is parsed, into a task that is not in use.
LEMMA RecvKeeps ==
    ASSUME Ordered, on_recv, ~overlapped'
    PROVE  Ordered'
<1> USE DEF Ordered
<1>1. /\ ~completed_ /\ (completed_' <=> inbox = 1) /\ resetting = 0
  <2>1. completed_' = (completed_ \/ inbox = 1)
    BY DEF on_recv
  <2>2. overlapped' = (overlapped \/ completed_ \/ resetting > 0)
    BY DEF on_recv
  <2>3. ~completed_ /\ ~(resetting > 0)
    BY <2>2
  <2>4. resetting = 0
    BY <2>3 DEF Types
  <2> QED
    BY <2>1, <2>3, <2>4
<1>2. /\ ~checking /\ checking' /\ inbox > 0 /\ inbox' = inbox - 1 /\ request_' = asked
      /\ parsed' = (parsed + 1) % Pieces
      /\ up' = up /\ resetting' = resetting /\ send_progressively_' = send_progressively_ /\ context_' = context_
      /\ jobs' = jobs /\ out' = out /\ file' = file /\ asked' = asked /\ got' = got
  BY DEF on_recv, workers_
<1>3. inbox \in 1..Pieces /\ parsed = Pieces - inbox /\ Pieces \in Nat \ {0} /\ parsed \in Nat /\ parsed < Pieces
  BY <1>2, BoundsAssumption DEF InputInv, Types
<1>4. parsed' = IF inbox = 1 THEN 0 ELSE Pieces - (inbox - 1)
  <2>1. (parsed + 1) % Pieces = IF parsed + 1 = Pieces THEN 0 ELSE parsed + 1
    BY <1>3, NextPiece
  <2> QED
    BY <1>2, <1>3, <2>1
<1>5. /\ jobs = <<>> /\ out = <<>> /\ context_ = NoFile /\ got = <<>> /\ asked.n > 0
      /\ asked.n \in 1..MaxRequests
  BY <1>1, <1>2, <1>3 DEF PlaceInv, InputInv, Types
<1>6. Answer = <<>> /\ Answer' = <<>>
  BY <1>2, <1>5 DEF Answer
<1>7. Types'
  BY <1>2, <1>3, <1>4 DEF Types
<1>8. InputInv'
  BY <1>1, <1>2, <1>3, <1>4, <1>5 DEF InputInv
<1>9. PlaceInv' /\ ResetInv'
  BY <1>1, <1>2, <1>5 DEF PlaceInv, ResetInv
<1>10. RequestInv'
  BY <1>1, <1>2, <1>5, <1>6 DEF RequestInv, Pending, NoFile
<1>11. ContextInv'
  BY <1>2, <1>5 DEF ContextInv, NoFile
<1>12. AnswerInv'
  BY <1>6 DEF AnswerInv
<1>13. FileInv'
  <2>1. file[asked.n] = "none"
    BY <1>2 DEF FileInv
  <2> QED
    BY <1>2, <2>1 DEF FileInv
<1> QED
  BY <1>7, <1>8, <1>9, <1>10, <1>11, <1>12, <1>13

\* The parser is never out of step with the pieces.
LEMMA NoBadPiece ==
    ASSUME Ordered
    PROVE  ~on_recv_bad
  BY DEF Ordered, InputInv, on_recv_bad

LEMMA CompletedKeeps ==
    ASSUME Ordered, on_recv_completed
    PROVE  Ordered'
<1> USE DEF Ordered
<1>1. /\ checking /\ ~checking' /\ up' = up /\ inbox' = inbox /\ parsed' = parsed /\ completed_' = completed_
      /\ request_' = request_ /\ resetting' = resetting /\ send_progressively_' = send_progressively_
      /\ context_' = context_ /\ out' = out /\ file' = file /\ asked' = asked /\ got' = got
  BY DEF on_recv_completed, task
<1>2. jobs = <<>>
  BY <1>1 DEF PlaceInv
<1>3. jobs' = <<>> \/ (completed_ /\ jobs' = <<"request">>)
  <2>1. jobs' = jobs \/ (completed_ /\ jobs' = Append(jobs, "request"))
    BY AppendOrNot DEF on_recv_completed
  <2> QED
    BY <1>2, <2>1
<1>4. Answer' = Answer
  BY <1>1 DEF Answer
<1>5. Pending' => Pending
  BY <1>1, <1>3 DEF Pending
<1>6. Types'
  <2>1. jobs' \in Seq({"request", "progress"})
    BY <1>3, JobQueues
  <2> QED
    BY <1>1, <2>1 DEF Types
<1>7. InputInv'
  BY <1>1 DEF InputInv
<1>8. PlaceInv' /\ ResetInv'
  BY <1>1, <1>3 DEF PlaceInv, ResetInv
<1>9. RequestInv'
  BY <1>1, <1>4, <1>5 DEF RequestInv
<1>10. ContextInv'
  <2>1. jobs' # <<"progress">>
    BY <1>3
  <2> QED
    BY <1>1, <2>1 DEF ContextInv
<1>11. AnswerInv'
  BY <1>1, <1>4 DEF AnswerInv
<1>12. FileInv'
  BY <1>1, <1>5 DEF FileInv
<1> QED
  BY <1>6, <1>7, <1>8, <1>9, <1>10, <1>11, <1>12

LEMMA SendCompleteKeeps ==
    ASSUME Ordered, on_sendcomplete
    PROVE  Ordered'
<1> USE DEF Ordered
<1>1. /\ out # <<>> /\ out' = Tail(out) /\ got' = Append(got, Head(out))
      /\ up' = up /\ inbox' = inbox /\ parsed' = parsed /\ completed_' = completed_
      /\ request_' = request_ /\ resetting' = resetting /\ send_progressively_' = send_progressively_
      /\ context_' = context_ /\ checking' = checking /\ file' = file /\ asked' = asked
  BY DEF on_sendcomplete, task
<1>2. /\ Answer' = Answer /\ got' \in Seq(Buffers) /\ out' \in Seq(Buffers)
      /\ got' # <<>> /\ Len(out') = Len(out) - 1
  BY <1>1, AnswerMoves
<1>3. completed_ /\ ~checking /\ jobs = <<>> /\ inbox = 0 /\ out' = <<>>
  <2>1. completed_ /\ ~checking /\ jobs = <<>>
    BY <1>1 DEF PlaceInv
  <2>2. inbox = 0
    BY <1>1 DEF InputInv, Types
  <2>3. Len(out') = 0
    BY <1>1, <1>2 DEF PlaceInv, Types
  <2> QED
    BY <1>2, <2>1, <2>2, <2>3
<1>4. jobs' = <<>> \/ (send_progressively_ /\ jobs' = <<"progress">>)
  <2>1. jobs' = jobs \/ (send_progressively_ /\ jobs' = Append(jobs, "progress"))
    BY AppendOrNot DEF on_sendcomplete
  <2> QED
    BY <1>3, <2>1
<1>5. ~Pending'
  <2>1. jobs' # <<"request">>
    <3>1. CASE jobs' = <<>>
      BY <3>1
    <3>2. CASE jobs' = <<"progress">>
      BY <3>2
    <3> QED
      BY <1>4, <3>1, <3>2
  <2> QED
    BY <1>1, <1>3, <2>1 DEF Pending
<1>6. Types'
  <2>1. jobs' \in Seq({"request", "progress"})
    BY <1>4, JobQueues
  <2> QED
    BY <1>1, <1>2, <2>1 DEF Types
<1>7. InputInv'
  BY <1>1, <1>3 DEF InputInv
<1>8. PlaceInv' /\ ResetInv'
  BY <1>1, <1>3, <1>4 DEF PlaceInv, ResetInv
<1>9. RequestInv'
  BY <1>1, <1>2, <1>5 DEF RequestInv
<1>10. ContextInv'
  <2>1. context_.n # 0 => asked.n = request_.n /\ file[context_.n] = "open"
    BY <1>1 DEF ContextInv
  <2> QED
    BY <1>1, <1>2, <1>3, <1>4, <2>1 DEF ContextInv
<1>11. AnswerInv'
  BY <1>1, <1>2 DEF AnswerInv
<1>12. FileInv'
  BY <1>1, <1>3, <1>5 DEF FileInv
<1> QED
  BY <1>6, <1>7, <1>8, <1>9, <1>10, <1>11, <1>12

LEMMA SendFailsKeeps ==
    ASSUME Ordered, send_fails
    PROVE  Ordered'
<1> USE DEF Ordered
<1>1. /\ out # <<>> /\ out' = <<>> /\ got' = got /\ jobs' = jobs
      /\ up' = up /\ inbox' = inbox /\ parsed' = parsed /\ completed_' = completed_
      /\ request_' = request_ /\ resetting' = resetting /\ send_progressively_' = send_progressively_
      /\ context_' = context_ /\ checking' = checking /\ file' = file /\ asked' = asked
  BY DEF send_fails, task, workers_
<1>2. jobs = <<>> /\ inbox = 0 /\ ~Pending /\ ~Pending'
  <2>1. jobs = <<>> /\ ~(completed_ /\ checking)
    BY <1>1 DEF PlaceInv
  <2>2. inbox = 0
    BY <1>1 DEF InputInv, Types
  <2> QED
    BY <1>1, <2>1, <2>2 DEF Pending
<1>3. got \in Seq(Buffers) /\ Answer' = got
  BY <1>1 DEF Types, Answer
<1>4. /\ Len(Answer) = Len(got) + Len(out) /\ Len(got) \in Nat /\ Len(out) \in Nat
      /\ \A i \in 1..Len(got) : Answer[i] = got[i]
      /\ Answer = <<>> <=> got = <<>> /\ out = <<>>
  BY AnswerIs
<1>5. Types'
  BY <1>1 DEF Types
<1>6. InputInv'
  BY <1>1, <1>2 DEF InputInv
<1>7. PlaceInv' /\ ResetInv'
  BY <1>1, <1>2 DEF PlaceInv, ResetInv
<1>8. RequestInv'
  BY <1>1, <1>2, <1>3, <1>4 DEF RequestInv
<1>9. ContextInv'
  BY <1>1 DEF ContextInv
<1>10. AnswerInv'
  <2>1. ASSUME NEW i \in 1..Len(got)
        PROVE  got[i].n = asked.n /\ (got[i].code # 0 <=> i = 1)
    BY <1>4 DEF AnswerInv
  <2>2. ASSUME got # <<>>
        PROVE  Len(got) + (IF context_.n = asked.n THEN context_.left ELSE 0) <= got[1].length + 1
    <3>1. 1 \in 1..Len(got) /\ got[1] \in Buffers
      BY <1>3, <2>2
    <3>2. got[1].length \in Nat /\ context_.left \in Nat
      BY <3>1 DEF Types, Buffers
    <3>3. /\ Answer[1] = got[1]
          /\ Len(Answer) + (IF context_.n = asked.n THEN context_.left ELSE 0) <= Answer[1].length + 1
      BY <1>4, <2>2, <3>1 DEF AnswerInv
    <3> QED
      BY <1>4, <3>2, <3>3
  <2> QED
    BY <1>1, <1>3, <2>1, <2>2 DEF AnswerInv
<1>11. FileInv'
  BY <1>1, <1>2 DEF FileInv
<1> QED
  BY <1>5, <1>6, <1>7, <1>8, <1>9, <1>10, <1>11

----------------------------------------------------------------------------
(***************************************************************************)
(* The workers.                                                            *)
(***************************************************************************)
\* A worker takes a request: it is the one the client waits for, nothing was sent
\* for it and its file was not opened.
LEMMA RequestTaken ==
    ASSUME Ordered, NEW k, Take(k, "request")
    PROVE  /\ jobs' = <<>> /\ out = <<>> /\ got = <<>> /\ completed_ /\ ~checking
           /\ asked.n = request_.n /\ request_.n \in 1..MaxRequests /\ context_ = NoFile
           /\ inbox = 0 /\ Answer = <<>> /\ file[request_.n] = "none"
<1> USE DEF Ordered
<1>1. jobs = <<"request">> /\ jobs' = <<>> /\ out = <<>> /\ completed_ /\ ~checking
  BY TakeOne
<1>2. Pending
  BY <1>1 DEF Pending
<1>3. asked.n = request_.n /\ context_ = NoFile /\ inbox = 0 /\ Answer = <<>> /\ request_.n # 0
  BY <1>1, <1>2 DEF RequestInv
<1>4. got = <<>>
  BY <1>3, AnswerIs
<1>5. file[request_.n] = "none" /\ request_.n \in 1..MaxRequests
  BY <1>2, <1>3 DEF FileInv, Types
<1> QED
  BY <1>1, <1>3, <1>4, <1>5

\* The headers are sent, or the connection is gone.
LEMMA HeadersSent ==
    ASSUME Types, Answer = <<>>, out = <<>>, got = <<>>, got' = got,
           NEW h \in Buffers, out' = IF up THEN Append(out, h) ELSE out
    PROVE  /\ out' \in Seq(Buffers) /\ Len(out') <= 1 /\ Answer' \in {<<>>, <<h>>}
<1>1. CASE up
  <2>1. Answer' = Append(Answer, h) /\ out' \in Seq(Buffers) /\ Len(out') = Len(out) + 1
    BY <1>1, AnswerGrows
  <2> QED
    BY <2>1
<1>2. CASE ~up
  BY <1>2 DEF Answer
<1> QED
  BY <1>1, <1>2

LEMMA ErrorKeeps ==
    ASSUME Ordered, NEW k, on_request(k), NEW code \in {400, 404}, answer_error(code)
    PROVE  Ordered'
<1> USE DEF Ordered
<1>1. PICK h : h = Headers(code, request_.n, 0)
  OBVIOUS
<1>2. /\ Take(k, "request") /\ out' = (IF up THEN Append(out, h) ELSE out) /\ got' = got
      /\ up' = up /\ inbox' = inbox /\ parsed' = parsed /\ completed_' = completed_
      /\ request_' = request_ /\ resetting' = resetting /\ send_progressively_' = send_progressively_
      /\ context_' = context_ /\ checking' = checking /\ file' = file /\ asked' = asked
  BY <1>1 DEF on_request, answer_error
<1>3. /\ jobs' = <<>> /\ out = <<>> /\ got = <<>> /\ completed_ /\ ~checking
      /\ asked.n = request_.n /\ request_.n \in 1..MaxRequests /\ context_ = NoFile
      /\ inbox = 0 /\ Answer = <<>>
  BY <1>2, RequestTaken
<1>4. h \in Buffers /\ h.n = request_.n /\ h.code # 0 /\ h.length = 0
  BY <1>1, <1>3 DEF Headers, Buffers
<1>5. out' \in Seq(Buffers) /\ Len(out') <= 1 /\ Answer' \in {<<>>, <<h>>}
  BY <1>2, <1>3, <1>4, HeadersSent
<1>6. ~Pending'
  BY <1>2, <1>3 DEF Pending
<1>7. Types'
  BY <1>2, <1>3, <1>5, JobQueues DEF Types
<1>8. InputInv'
  BY <1>2, <1>3 DEF InputInv
<1>9. PlaceInv' /\ ResetInv'
  BY <1>2, <1>3, <1>5 DEF PlaceInv, ResetInv
<1>10. RequestInv'
  <2>1. PICK a : a = Answer'
    OBVIOUS
  <2>2. a \in {<<>>, <<h>>}
    BY <1>5, <2>1
  <2>3. Len(a) <= 1
    <3>1. CASE a = <<>>
      BY <3>1
    <3>2. CASE a = <<h>>
      BY <3>2
    <3> QED
      BY <2>2, <3>1, <3>2
  <2>4. Len(Answer') <= 1
    BY <2>1, <2>3
  <2> QED
    BY <1>2, <1>3, <1>6, <2>4 DEF RequestInv
<1>11. ContextInv'
  BY <1>2, <1>3 DEF ContextInv, NoFile
<1>12. AnswerInv'
  <2>1. CASE Answer' = <<>>
    BY <2>1 DEF AnswerInv
  <2>2. CASE Answer' = <<h>>
    <3>1. context_'.n # asked'.n
      BY <1>2, <1>3 DEF NoFile
    <3> QED
      BY <1>2, <1>3, <1>4, <2>2, <3>1 DEF AnswerInv
  <2> QED
    BY <1>5, <2>1, <2>2
<1>13. FileInv'
  BY <1>2, <1>3, <1>6 DEF FileInv
<1> QED
  BY <1>7, <1>8, <1>9, <1>10, <1>11, <1>12, <1>13

LEMMA FileKeeps ==
    ASSUME Ordered, NEW k, on_request(k), NEW length \in Lengths, answer_file(length)
    PROVE  Ordered'
<1> USE DEF Ordered
<1>1. PICK h : h = Headers(200, request_.n, length)
  OBVIOUS
<1>2. /\ Take(k, "request") /\ out' = (IF up THEN Append(out, h) ELSE out) /\ got' = got
      /\ up' = up /\ inbox' = inbox /\ parsed' = parsed /\ completed_' = completed_
      /\ request_' = request_ /\ resetting' = resetting /\ send_progressively_'
      /\ context_' = [n |-> request_.n, left |-> length] /\ checking' = checking /\ asked' = asked
      /\ file' = [file EXCEPT ![request_.n] = IF file[request_.n] = "none" THEN "open" ELSE "misused"]
  BY <1>1 DEF on_request, answer_file
<1>3. /\ jobs' = <<>> /\ out = <<>> /\ got = <<>> /\ completed_ /\ ~checking
      /\ asked.n = request_.n /\ request_.n \in 1..MaxRequests /\ context_ = NoFile
      /\ inbox = 0 /\ Answer = <<>> /\ file[request_.n] = "none"
  BY <1>2, RequestTaken
<1>4. length \in Nat /\ h \in Buffers /\ h.n = request_.n /\ h.code # 0 /\ h.length = length
  <2>1. length \in Nat
    BY BoundsAssumption
  <2>2. request_.n \in Nat /\ 200 \in Nat
    BY <1>3
  <2> QED
    BY <1>1, <2>1, <2>2 DEF Headers, Buffers
<1>5. out' \in Seq(Buffers) /\ Len(out') <= 1 /\ Answer' \in {<<>>, <<h>>}
  BY <1>2, <1>3, <1>4, HeadersSent
<1>6. ~Pending'
  BY <1>2, <1>3 DEF Pending
<1>7. context_'.n = request_.n /\ context_'.left = length
  BY <1>2
<1>8. /\ file' \in [1..MaxRequests -> {"none", "open", "closed", "misused"}]
      /\ file'[request_.n] = "open" /\ \A n \in 1..MaxRequests : n # request_.n => file'[n] = file[n]
  BY <1>2, <1>3 DEF Types
<1>9. Types'
  <2>1. context_' \in [n : 0..MaxRequests, left : Nat]
    BY <1>2, <1>3, <1>4
  <2> QED
    BY <1>2, <1>3, <1>5, <1>8, <2>1, JobQueues DEF Types
<1>10. InputInv'
  BY <1>2, <1>3 DEF InputInv
<1>11. PlaceInv' /\ ResetInv'
  BY <1>2, <1>3, <1>5 DEF PlaceInv, ResetInv
<1>12. RequestInv'
  BY <1>2, <1>3, <1>6, <1>7 DEF RequestInv
<1>13. ContextInv'
  BY <1>2, <1>3, <1>7, <1>8 DEF ContextInv
<1>14. AnswerInv'
  <2>1. CASE Answer' = <<>>
    BY <2>1 DEF AnswerInv
  <2>2. CASE Answer' = <<h>>
    BY <1>2, <1>3, <1>4, <1>7, <2>2 DEF AnswerInv
  <2> QED
    BY <1>5, <2>1, <2>2
<1>15. FileInv'
  <2>1. ASSUME NEW n \in 1..MaxRequests
        PROVE  /\ file'[n] # "misused" /\ (file'[n] = "open" /\ up' => context_'.n = n)
               /\ n > asked'.n => file'[n] = "none"
    <3>1. CASE n = request_.n
      BY <1>2, <1>3, <1>7, <1>8, <3>1
    <3>2. CASE n # request_.n
      BY <1>2, <1>3, <1>8, <3>2 DEF FileInv, NoFile
    <3> QED
      BY <3>1, <3>2
  <2> QED
    BY <1>2, <1>3, <1>6, <2>1 DEF FileInv
<1> QED
  BY <1>9, <1>10, <1>11, <1>12, <1>13, <1>14, <1>15

\* A worker takes the file: it is open, and either the client waits for more of
\* it or there is no more.
LEMMA ProgressTaken ==
    ASSUME Ordered, NEW k, Take(k, "progress")
    PROVE  /\ jobs' = <<>> /\ out = <<>> /\ completed_ /\ ~checking
           /\ context_.n \in 1..MaxRequests /\ context_.left \in Nat /\ context_.n = request_.n
           /\ file[context_.n] = "open" /\ asked.n \in {context_.n, context_.n + 1}
           /\ asked.n = context_.n => got # <<>> /\ Answer # <<>> /\ inbox = 0
           /\ asked.n # context_.n => context_.left = 0
<1> USE DEF Ordered
<1>1. jobs = <<"progress">> /\ jobs' = <<>> /\ out = <<>> /\ completed_ /\ ~checking
  BY TakeOne
<1>2. /\ context_.n # 0 /\ context_.n = request_.n /\ file[context_.n] = "open"
      /\ asked.n = context_.n => got # <<>>
      /\ asked.n # context_.n => context_.left = 0
  BY <1>1 DEF ContextInv
<1>3. context_.n \in 1..MaxRequests /\ context_.left \in Nat
  BY <1>2 DEF Types
<1>4. asked.n \in {context_.n, context_.n + 1}
  BY <1>1, <1>2 DEF RequestInv
<1>5. asked.n = context_.n => Answer # <<>> /\ inbox = 0
  BY <1>2, <1>3, AnswerIs DEF InputInv, Types
<1> QED
  BY <1>1, <1>2, <1>3, <1>4, <1>5

LEMMA ChunkKeeps ==
    ASSUME Ordered, NEW k, on_send_progressively(k), context_.left > 0, process_file
    PROVE  Ordered'
<1> USE DEF Ordered
<1>1. PICK x : x = Chunk(context_.n)
  OBVIOUS
<1>2. /\ Take(k, "progress") /\ out' = (IF up THEN Append(out, x) ELSE out) /\ got' = got
      /\ up' = up /\ parsed' = parsed /\ completed_' = completed_
      /\ request_' = request_ /\ resetting' = resetting /\ send_progressively_' = send_progressively_
      /\ context_' = [context_ EXCEPT !.left = context_.left - 1]
      /\ checking' = checking /\ asked' = asked
      /\ file' = (IF file[context_.n] = "open" THEN file ELSE [file EXCEPT ![context_.n] = "misused"])
      /\ inbox' = (IF up /\ ~up' THEN 0 ELSE inbox)
  BY <1>1 DEF on_send_progressively, process_file
<1>3. /\ jobs' = <<>> /\ out = <<>> /\ completed_ /\ ~checking
      /\ context_.n \in 1..MaxRequests /\ context_.left \in Nat /\ context_.n = request_.n
      /\ file[context_.n] = "open" /\ asked.n = context_.n /\ got # <<>> /\ Answer # <<>> /\ inbox = 0
  BY <1>2, ProgressTaken
<1>4. /\ file' = file /\ inbox' = inbox /\ context_'.n = context_.n
      /\ context_'.left = context_.left - 1 /\ context_' \in [n : 0..MaxRequests, left : Nat]
  BY <1>2, <1>3 DEF Types
<1>5. x \in Buffers /\ x.n = context_.n /\ x.code = 0
  BY <1>1, <1>3 DEF Chunk, Buffers
<1>6. /\ out' \in Seq(Buffers) /\ Len(out') <= 1
      /\ Answer' = (IF up THEN Append(Answer, x) ELSE Answer)
  <2>1. CASE up
    <3>1. Answer' = Append(Answer, x) /\ out' \in Seq(Buffers) /\ Len(out') = Len(out) + 1
      BY <1>2, <1>5, <2>1, AnswerGrows
    <3> QED
      BY <1>3, <2>1, <3>1
  <2>2. CASE ~up
    BY <1>2, <1>3, <2>2 DEF Answer
  <2> QED
    BY <2>1, <2>2
<1>7. ~Pending'
  BY <1>2, <1>3 DEF Pending
<1>8. Types'
  BY <1>2, <1>3, <1>4, <1>6, JobQueues DEF Types
<1>9. InputInv'
  BY <1>2, <1>3, <1>4 DEF InputInv
<1>10. PlaceInv' /\ ResetInv'
  BY <1>2, <1>3, <1>6 DEF PlaceInv, ResetInv
<1>11. RequestInv'
  BY <1>2, <1>3, <1>4, <1>7 DEF RequestInv
<1>12. ContextInv'
  BY <1>2, <1>3, <1>4 DEF ContextInv
<1>13. AnswerInv'
  <2>1. Answer \in Seq(Buffers) /\ Len(Answer) \in Nat /\ 1 \in 1..Len(Answer)
    BY <1>3, AnswerIs
  <2>2. Answer[1] \in Buffers
    BY <2>1
  <2>3. Answer[1].length \in Nat
    BY <2>2 DEF Buffers
  <2>4. Len(Answer) + context_.left <= Answer[1].length + 1
    BY <1>3 DEF AnswerInv
  <2>5. CASE ~up
    BY <1>2, <1>3, <1>4, <1>6, <2>1, <2>3, <2>4, <2>5 DEF AnswerInv
  <2>6. CASE up
    <3>1. /\ Answer' = Append(Answer, x) /\ Len(Answer') = Len(Answer) + 1
          /\ Answer'[Len(Answer) + 1] = x /\ \A i \in 1..Len(Answer) : Answer'[i] = Answer[i]
      BY <1>5, <1>6, <2>1, <2>6, AppendProperties
    <3>2. ASSUME NEW i \in 1..Len(Answer')
          PROVE  Answer'[i].n = asked'.n /\ (Answer'[i].code # 0 <=> i = 1)
      <4>1. CASE i \in 1..Len(Answer)
        BY <1>2, <3>1, <4>1 DEF AnswerInv
      <4>2. CASE i \notin 1..Len(Answer)
        <5>1. i = Len(Answer) + 1 /\ i # 1
          BY <2>1, <3>1, <4>2
        <5> QED
          BY <1>2, <1>3, <1>5, <3>1, <5>1
      <4> QED
        BY <4>1, <4>2
    <3>3. Len(Answer') + context_'.left <= Answer'[1].length + 1
      BY <1>3, <1>4, <2>1, <2>3, <2>4, <3>1
    <3> QED
      BY <1>2, <1>3, <1>4, <3>2, <3>3 DEF AnswerInv
  <2> QED
    BY <2>5, <2>6
<1>14. FileInv'
  BY <1>2, <1>3, <1>4, <1>7 DEF FileInv
<1> QED
  BY <1>8, <1>9, <1>10, <1>11, <1>12, <1>13, <1>14

\* The end of the file: the connection is closed, or the task is unused again.
LEMMA EofKeeps ==
    ASSUME Ordered, NEW k, on_send_progressively(k), context_.left = 0, process_file_eof
    PROVE  Ordered'
<1> USE DEF Ordered
<1>1. /\ Take(k, "progress") /\ out' = out /\ got' = got /\ checking' = checking /\ asked' = asked
      /\ file' = [file EXCEPT ![context_.n] = IF file[context_.n] = "open" THEN "closed" ELSE "misused"]
      /\ inbox' = (IF up /\ ~up' THEN 0 ELSE inbox)
  BY DEF on_send_progressively, process_file_eof, done
<1>2. /\ jobs' = <<>> /\ out = <<>> /\ completed_ /\ ~checking
      /\ context_.n \in 1..MaxRequests /\ context_.n = request_.n
      /\ file[context_.n] = "open" /\ asked.n \in {context_.n, context_.n + 1}
      /\ asked.n = context_.n => got # <<>> /\ inbox = 0
  BY <1>1, ProgressTaken
<1>3. /\ file' \in [1..MaxRequests -> {"none", "open", "closed", "misused"}]
      /\ file'[context_.n] = "closed" /\ \A n \in 1..MaxRequests : n # context_.n => file'[n] = file[n]
  BY <1>1, <1>2 DEF Types
<1>4. Answer' = Answer
  BY <1>1 DEF Answer
<1>5. ~Pending'
  BY <1>1, <1>2 DEF Pending
<1>6. ASSUME up' => up, inbox' = 0 \/ inbox' = inbox
      PROVE  FileInv'
  <2>1. ASSUME NEW n \in 1..MaxRequests
        PROVE  /\ file'[n] # "misused" /\ (file'[n] = "open" /\ up' => context_'.n = n)
               /\ n > asked'.n => file'[n] = "none"
    <3>1. CASE n = context_.n
      BY <1>1, <1>2, <1>3, <3>1
    <3>2. CASE n # context_.n
      BY <1>1, <1>3, <1>6, <3>2 DEF FileInv
    <3> QED
      BY <3>1, <3>2
  <2>2. ASSUME inbox' > 0
        PROVE  file'[asked'.n] = "none"
    <3>1. inbox > 0
      BY <1>6, <2>2
    <3>2. asked.n # context_.n /\ asked.n \in 1..MaxRequests
      BY <1>2, <3>1 DEF Types
    <3> QED
      BY <1>1, <1>3, <3>1, <3>2 DEF FileInv
  <2> QED
    BY <1>5, <2>1, <2>2 DEF FileInv
<1>7. CASE response_.close
  <2>1. /\ ~up' /\ parsed' = parsed /\ completed_' = completed_ /\ request_' = request_
        /\ send_progressively_' = send_progressively_ /\ context_' = context_
        /\ resetting' = resetting
    BY <1>7 DEF process_file_eof, done, task
  <2>2. inbox' = 0 \/ inbox' = inbox
    BY <1>1
  <2>3. Types'
    BY <1>1, <1>2, <1>3, <2>1, <2>2, BoundsAssumption, JobQueues DEF Types
  <2>4. InputInv'
    BY <1>1, <2>1, <2>2 DEF InputInv
  <2>5. PlaceInv' /\ ResetInv'
    BY <1>1, <1>2, <2>1 DEF PlaceInv, ResetInv
  <2>6. RequestInv'
    BY <1>1, <1>2, <1>5, <2>1 DEF RequestInv
  <2>7. ContextInv'
    BY <1>1, <1>2, <2>1 DEF ContextInv
  <2>8. AnswerInv'
    BY <1>1, <1>4, <2>1 DEF AnswerInv
  <2> QED
    BY <1>6, <2>1, <2>2, <2>3, <2>4, <2>5, <2>6, <2>7, <2>8
<1>8. CASE ~response_.close
  <2>1. /\ up' = up /\ parsed' = 0 /\ ~completed_' /\ request_' = request_
        /\ send_progressively_' = send_progressively_ /\ context_' = context_
        /\ resetting' = resetting + 1
    BY <1>8 DEF process_file_eof, done, init
  <2>2. inbox' = inbox
    BY <1>1, <2>1
  <2>3. resetting = 0 /\ resetting' = 1
    BY <1>2, <2>1 DEF ResetInv, Types
  <2>4. Types'
    BY <1>1, <1>2, <1>3, <2>1, <2>2, <2>3, BoundsAssumption, JobQueues DEF Types
  <2>5. InputInv'
    BY <1>1, <1>2, <2>1, <2>2, BoundsAssumption DEF InputInv
  <2>6. PlaceInv'
    BY <1>1, <1>2, <2>1, <2>3 DEF PlaceInv
  <2>7. ResetInv'
    BY <1>1, <1>2, <1>3, <2>1, <2>2, <2>3 DEF ResetInv
  <2>8. RequestInv'
    BY <1>5, <2>1 DEF RequestInv
  <2>9. ContextInv'
    BY <1>1, <1>2, <2>1 DEF ContextInv
  <2>10. AnswerInv'
    BY <1>1, <1>4, <2>1 DEF AnswerInv
  <2> QED
    BY <1>6, <2>1, <2>2, <2>4, <2>5, <2>6, <2>7, <2>8, <2>9, <2>10
<1> QED
  BY <1>7, <1>8

\* The rest of init(): the task is unused again.
LEMMA ResetKeeps ==
    ASSUME Ordered, init_rest
    PROVE  Ordered'
<1> USE DEF Ordered
<1>1. /\ resetting > 0 /\ resetting' = resetting - 1 /\ request_' = NoRequest
      /\ ~send_progressively_' /\ context_' = NoFile
      /\ up' = up /\ inbox' = inbox /\ checking' = checking /\ parsed' = parsed
      /\ completed_' = completed_ /\ jobs' = jobs /\ out' = out /\ asked' = asked
      /\ got' = got /\ file' = file
  BY DEF init_rest, workers_
<1>2. /\ resetting = 1 /\ ~completed_ /\ context_.n \in 1..MaxRequests
      /\ file[context_.n] = "closed" /\ asked.n # 0 /\ jobs = <<>> /\ out = <<>>
  BY <1>1 DEF ResetInv, PlaceInv, Types
<1>3. Answer' = Answer /\ ~Pending' /\ ~Pending
  BY <1>1, <1>2 DEF Answer, Pending
<1>4. Types'
  <2>1. request_'.n \in 0..MaxRequests /\ context_' \in [n : 0..MaxRequests, left : Nat]
    BY <1>1, BoundsAssumption DEF NoRequest, NoFile
  <2>2. resetting' \in Nat
    BY <1>1, <1>2
  <2> QED
    BY <1>1, <2>1, <2>2 DEF Types
<1>5. InputInv'
  BY <1>1, <1>2 DEF InputInv
<1>6. PlaceInv' /\ ResetInv'
  BY <1>1, <1>2 DEF PlaceInv, ResetInv
<1>7. RequestInv'
  BY <1>1, <1>2, <1>3 DEF RequestInv
<1>8. ContextInv'
  BY <1>1, <1>2 DEF ContextInv, NoFile
<1>9. AnswerInv'
  <2>1. context_'.n # asked'.n
    BY <1>1, <1>2 DEF NoFile
  <2>2. ASSUME Answer # <<>>
        PROVE  Len(Answer) + 0 <= Answer[1].length + 1
    <3>1. context_.left = 0
      BY <1>1 DEF ResetInv
    <3> QED
      BY <2>2, <3>1 DEF AnswerInv
  <2> QED
    BY <1>1, <1>3, <2>1, <2>2 DEF AnswerInv
<1>10. FileInv'
  <2>1. ASSUME NEW n \in 1..MaxRequests
        PROVE  ~(file[n] = "open" /\ up)
    BY <1>2 DEF FileInv
  <2> QED
    BY <1>1, <1>3, <2>1 DEF FileInv
<1> QED
  BY <1>4, <1>5, <1>6, <1>7, <1>8, <1>9, <1>10

LEMMA DroppedKeeps ==
    ASSUME Ordered, NEW k, job_dropped(k)
    PROVE  Ordered'
<1> USE DEF Ordered
<1>1. /\ ~up /\ (Take(k, "request") \/ Take(k, "progress"))
      /\ out' = out /\ got' = got
      /\ up' = up /\ inbox' = inbox /\ parsed' = parsed /\ completed_' = completed_
      /\ request_' = request_ /\ resetting' = resetting /\ send_progressively_' = send_progressively_
      /\ context_' = context_ /\ checking' = checking /\ file' = file /\ asked' = asked
  BY DEF job_dropped, task, workers_
<1>2. jobs' = <<>> /\ out = <<>> /\ completed_ /\ ~checking
  BY <1>1, TakeOne
<1>3. Answer' = Answer /\ ~Pending'
  BY <1>1, <1>2 DEF Answer, Pending
<1>4. Types'
  BY <1>1, <1>2, JobQueues DEF Types
<1>5. InputInv'
  BY <1>1 DEF InputInv
<1>6. PlaceInv' /\ ResetInv'
  BY <1>1, <1>2 DEF PlaceInv, ResetInv
<1>7. RequestInv'
  BY <1>1, <1>3 DEF RequestInv
<1>8. ContextInv'
  BY <1>1, <1>2 DEF ContextInv
<1>9. AnswerInv'
  BY <1>1, <1>3 DEF AnswerInv
<1>10. FileInv'
  BY <1>1, <1>3 DEF FileInv
<1> QED
  BY <1>4, <1>5, <1>6, <1>7, <1>8, <1>9, <1>10

LEMMA WorkerKeeps ==
    ASSUME Ordered, Worker
    PROVE  Ordered'
<1> SUFFICES ASSUME NEW k \in 1..Workers,
                    on_request(k) \/ on_send_progressively(k) \/ job_dropped(k)
             PROVE  Ordered'
  BY ResetKeeps DEF Worker
<1>2. CASE on_request(k)
  BY <1>2, ErrorKeeps, FileKeeps DEF on_request
<1>3. CASE on_send_progressively(k)
  <2>1. Take(k, "progress") /\ \/ context_.left > 0 /\ process_file
                               \/ context_.left = 0 /\ context_.n > 0 /\ process_file_eof
                               \/ context_.n = 0 /\ done /\ UNCHANGED file
    BY <1>3 DEF on_send_progressively
  <2>2. context_.n # 0
    BY <2>1, ProgressTaken
  <2> QED
    BY <1>3, <2>1, <2>2, ChunkKeeps, EofKeeps
<1>4. CASE job_dropped(k)
  BY <1>4, DroppedKeeps
<1> QED
  BY <1>2, <1>3, <1>4

----------------------------------------------------------------------------
\* As long as no request is parsed into a task that is in use, the task is in one
\* place at a time and belongs to the request the client waits for.
THEOREM Invariance == Spec => []Inv
<1>1. Init => Inv
  BY InitOrdered DEF Inv
<1>2. ASSUME Inv, [Next]_vars
      PROVE  Inv'
  <2> SUFFICES ASSUME ~overlapped' PROVE Ordered'
    BY DEF Inv
  <2>1. ~overlapped
    <3>1. overlapped' = overlapped \/ overlapped' = (overlapped \/ completed_ \/ resetting > 0)
      BY <1>2 DEF Next, Client, Loop, Worker, client_sends, client_leaves, on_recv, on_recv_bad,
                  on_recv_completed, on_sendcomplete, send_fails, on_request, on_send_progressively,
                  job_dropped, init_rest, vars
    <3> QED
      BY <3>1
  <2>2. Ordered
    BY <1>2, <2>1 DEF Inv
  <2>3. CASE Client
    BY <2>2, <2>3, SendsKeeps, LeavesKeeps DEF Client
  <2>4. CASE Loop
    BY <2>2, <2>4, RecvKeeps, NoBadPiece, CompletedKeeps, SendCompleteKeeps, SendFailsKeeps DEF Loop
  <2>5. CASE Worker
    BY <2>2, <2>5, WorkerKeeps
  <2>6. CASE UNCHANGED vars
    BY <2>2, <2>6 DEF vars, task, workers_, Ordered, Types, InputInv, PlaceInv, ResetInv, RequestInv, ContextInv,
                      AnswerInv, FileInv, Pending, Answer
  <2> QED
    BY <1>2, <2>3, <2>4, <2>5, <2>6 DEF Next
<1> QED
  BY <1>1, <1>2, PTL DEF Spec

\* As long as requests do not overlap in the task: the client is sent the answer
\* to its own request, no more of it than its headers promise, and each file is
\* opened, read and closed once, whatever workers and the loop thread do in which
\* order and whenever the client leaves.
THEOREM AnswersAreTheirOwn == Spec => []OwnAnswer
<1>1. Inv => OwnAnswer
  <2> SUFFICES ASSUME Ordered PROVE OwnAnswer
    BY DEF Inv, OwnAnswer
  <2> USE DEF Ordered
  <2>1. /\ Answer \in Seq(Buffers) /\ Len(Answer) \in Nat /\ DOMAIN Answer = 1..Len(Answer)
    BY AnswerIs
  <2>2. ASSUME NEW i \in DOMAIN Answer
        PROVE  Answer[i].n = asked.n /\ (Answer[i].code # 0) = (i = 1)
    BY <2>1 DEF AnswerInv
  <2>3. ASSUME Answer # <<>>
        PROVE  Len(Answer) <= Answer[1].length + 1
    <3>1. 1 \in 1..Len(Answer) /\ Answer[1] \in Buffers
      BY <2>1, <2>3
    <3>2. Answer[1].length \in Nat
      BY <3>1 DEF Buffers
    <3>3. Len(Answer) + (IF context_.n = asked.n THEN context_.left ELSE 0) <= Answer[1].length + 1
      BY <2>3 DEF AnswerInv
    <3>4. context_.left \in Nat
      BY DEF Types
    <3> QED
      BY <2>1, <3>2, <3>3, <3>4
  <2>4. ASSUME NEW n \in DOMAIN file
        PROVE  file[n] # "misused" /\ (file[n] = "open" /\ up => context_.n = n)
    BY DEF FileInv, Types
  <2> QED
    BY <2>2, <2>3, <2>4 DEF OwnAnswer, Answer
<1> QED
  BY <1>1, Invariance, PTL
=============================================================================
