------------------------ MODULE TcpConnectionProofs ------------------------
(***************************************************************************)
(* Proofs about TcpConnection, for every number of buffers and of queued   *)
(* closures, provided that sendcomplete_callback_ does not call send().    *)
(*                                                                         *)
(* WriteInv is what send_loop's test `send_buffer_ is empty' stands for: a *)
(* write is under way for the front buffer, or handle_send is between its  *)
(* pop and its async_send, or the connection is shut.  StreamInv counts:   *)
(* the buffers in the queue are the last accepted ones, and what went out  *)
(* are the ones before them, plus the front one when its write succeeded   *)
(* and handle_send has yet to run.                                         *)
(***************************************************************************)
EXTENDS TcpConnection, Integers, SequenceTheorems, TLAPS

WriteInv ==
    /\ in = "sendcomplete" => writes = <<>>
    /\ writes # <<>> => /\ Len(writes) = 1
                        /\ send_buffer_ # <<>>
                        /\ writes[1].buf = Head(send_buffer_)

\* Number of accepted buffers that have left the queue.
Gone == accepted - Len(send_buffer_)
\* The front buffer went out, its handler has not run.
FrontIsOut == IF writes # <<>> /\ writes[1].st = "ok" THEN 1 ELSE 0

StreamInv ==
    /\ Len(send_buffer_) <= accepted
    /\ \A i \in 1..Len(send_buffer_) : send_buffer_[i] = Gone + i
    /\ Len(wire) = Gone + FrontIsOut
    /\ \A i \in 1..Len(wire) : wire[i] = i

\* Nothing happens to a connection before handle_establish.
StateInv ==
    ~established =>
        /\ connected_ = FALSE /\ in = "idle" /\ reading = "none" /\ downs = 0
        /\ posted = <<>> /\ writes = <<>> /\ send_buffer_ = <<>> /\ accepted = 0

Inv == TypeOK /\ StateInv /\ WriteInv /\ NoStall /\ StreamInv

----------------------------------------------------------------------------
\* The one outstanding write is the first, and nothing is left when its handler runs.
LEMMA OnlyWrite ==
    ASSUME Inv, NEW k \in DOMAIN writes
    PROVE  /\ k = 1 /\ Len(writes) = 1 /\ writes # <<>>
           /\ Completed(k) = <<>>
<1>0. writes \in Seq([buf : 1..accepted, st : Outcomes])
  BY DEF Inv, TypeOK
<1>1. Len(writes) = 1 /\ writes # <<>> /\ k = 1
  BY <1>0 DEF Inv, WriteInv
<1>2. Completed(k) = <<>>
  BY <1>0, <1>1 DEF Completed
<1> QED
  BY <1>1, <1>2

LEMMA EmptyType ==
    ASSUME NEW S
    PROVE  <<>> \in Seq(S)
  OBVIOUS

LEMMA SeqMono ==
    ASSUME NEW S, NEW T, S \subseteq T, NEW s \in Seq(S)
    PROVE  s \in Seq(T)
  OBVIOUS

LEMMA AppendNext ==
    ASSUME NEW n \in Nat, NEW s \in Seq(1..n), NEW t, t = Append(s, n + 1)
    PROVE  /\ t \in Seq(1..(n + 1)) /\ t # <<>>
           /\ Len(t) = Len(s) + 1 /\ t[Len(s) + 1] = n + 1
           /\ \A i \in 1..Len(s) : t[i] = s[i]
  OBVIOUS

LEMMA InvInit == Init => Inv
<1> SUFFICES ASSUME Init
             PROVE  Inv
  OBVIOUS
<1>1. /\ send_buffer_ \in Seq(1..accepted) /\ wire \in Seq(1..accepted)
      /\ writes \in Seq([buf : 1..accepted, st : Outcomes])
      /\ posted \in Seq({"send", "close"})
  BY EmptyType DEF Init
<1>2. TypeOK
  BY <1>1 DEF Init, TypeOK, Callbacks
<1>3. StateInv /\ WriteInv /\ NoStall
  BY DEF Init, StateInv, WriteInv, NoStall
<1>4. StreamInv
  <2>1. Len(send_buffer_) = 0 /\ Len(wire) = 0 /\ accepted = 0 /\ FrontIsOut = 0
    BY DEF Init, FrontIsOut
  <2> QED
    BY <2>1 DEF StreamInv, Gone
<1> QED
  BY <1>2, <1>3, <1>4 DEF Inv

\* The buffers and the write are left alone by most steps.
LEMMA BuffersUntouched ==
    ASSUME Inv, UNCHANGED <<send_buffer_, writes, accepted, wire>>
    PROVE  StreamInv'
  BY DEF Inv, StreamInv, Gone, FrontIsOut

\* Setting the outcome of the only write.
LEMMA SetOutcome ==
    ASSUME Inv, NEW k \in DOMAIN writes, NEW o \in Outcomes, writes' = Outcome(k, o)
    PROVE  /\ writes' \in Seq([buf : 1..accepted, st : Outcomes])
           /\ Len(writes') = 1 /\ writes' # <<>>
           /\ writes'[1].st = o /\ writes'[1].buf = writes[1].buf
<1> DEFINE R == [buf : 1..accepted, st : Outcomes]
<1> DEFINE e == [buf |-> writes[1].buf, st |-> o]
<1>1. writes \in Seq(R) /\ Len(writes) = 1 /\ k = 1 /\ 1 \in 1..Len(writes)
  BY OnlyWrite DEF Inv, TypeOK
<1>2. writes[1] \in R
  BY <1>1, ElementOfSeq
<1>3. e \in R /\ e.st = o /\ e.buf = writes[1].buf
  BY <1>2
<1>4. writes' = [writes EXCEPT ![1] = e]
  BY <1>1 DEF Outcome
<1> HIDE DEF e, R
<1>5. writes' \in Seq(R) /\ Len(writes') = 1 /\ writes'[1] = e
  BY <1>1, <1>3, <1>4, ExceptSeq
<1> QED
  BY <1>3, <1>5 DEF R

----------------------------------------------------------------------------
\* The step of send_loop, whoever runs it, outside sendcomplete_callback_.
LEMMA SendLoop ==
    ASSUME Inv, established, in # "sendcomplete", send_loop, in' = in,
           posted' \in Seq({"send", "close"})
    PROVE  Inv'
<1> USE DEF send_loop
<1>0. /\ accepted \in Nat
      /\ send_buffer_ \in Seq(1..accepted)
      /\ wire \in Seq(1..accepted)
      /\ writes \in Seq([buf : 1..accepted, st : Outcomes])
  BY DEF Inv, TypeOK
<1>1. CASE ~connected_
  BY <1>1 DEF Inv, TypeOK, StateInv, WriteInv, NoStall, StreamInv, Gone, FrontIsOut
<1>2. CASE connected_
  <2>0. /\ accepted' = accepted + 1
        /\ send_buffer_' = Append(send_buffer_, accepted + 1)
        /\ 1..accepted \subseteq 1..accepted' /\ accepted + 1 \in 1..accepted'
        /\ wire' = wire
    BY <1>0, <1>2
  <2>1. /\ accepted' = accepted + 1 /\ accepted' \in Nat
        /\ send_buffer_' = Append(send_buffer_, accepted + 1)
        /\ send_buffer_' \in Seq(1..accepted')
        /\ send_buffer_' # <<>>
        /\ Len(send_buffer_') = Len(send_buffer_) + 1
        /\ send_buffer_'[Len(send_buffer_) + 1] = accepted + 1
        /\ \A i \in 1..Len(send_buffer_) : send_buffer_'[i] = send_buffer_[i]
    BY <1>0, <2>0, AppendNext
  <2>2. /\ wire' \in Seq(1..accepted')
        /\ writes \in Seq([buf : 1..accepted', st : Outcomes])
    <3>1. [buf : 1..accepted, st : Outcomes] \subseteq [buf : 1..accepted', st : Outcomes]
      BY <2>0
    <3>2. writes \in Seq([buf : 1..accepted', st : Outcomes])
      BY <1>0, <3>1, SeqMono
    <3> QED
      BY <1>0, <2>0, <3>2, SeqMono
  <2>3. CASE send_buffer_ = <<>>
    <3>1. writes = <<>>
      BY <2>3 DEF Inv, WriteInv
    <3>2. Head(send_buffer_') = accepted + 1
      BY <1>0, <2>1, <2>3
    <3>3. writes' = <<[buf |-> accepted + 1, st |-> "busy"]>>
      BY <1>2, <2>3, <3>1, <3>2 DEF async_send
    <3>4. /\ writes' \in Seq([buf : 1..accepted', st : Outcomes])
          /\ Len(writes') = 1 /\ writes' # <<>>
          /\ writes'[1].buf = accepted + 1 /\ writes'[1].st = "busy"
      BY <1>0, <2>0, <3>3 DEF Outcomes
    <3>5. TypeOK'
      BY <2>1, <2>2, <3>4 DEF Inv, TypeOK
    <3>6. WriteInv'
      BY <2>1, <3>2, <3>4 DEF WriteInv
    <3>7. StreamInv'
      BY <1>0, <2>0, <2>1, <2>3, <3>1, <3>4 DEF Inv, StreamInv, Gone, FrontIsOut
    <3> QED
      BY <3>4, <3>5, <3>6, <3>7 DEF Inv, StateInv, NoStall
  <2>4. CASE send_buffer_ # <<>>
    <3>1. writes' = writes
      BY <1>2, <2>4
    <3>2. Head(send_buffer_') = Head(send_buffer_)
      BY <1>0, <2>1, <2>4
    <3>3. TypeOK'
      BY <2>1, <2>2, <3>1 DEF Inv, TypeOK
    <3>4. WriteInv' /\ NoStall'
      BY <1>2, <2>1, <2>4, <3>1, <3>2 DEF Inv, WriteInv, NoStall
    <3>5. StreamInv'
      <4>1. Gone' = Gone /\ FrontIsOut' = FrontIsOut /\ Gone \in Int
        BY <1>0, <2>1, <3>1 DEF Gone, FrontIsOut
      <4>2. \A i \in 1..Len(send_buffer_') : send_buffer_'[i] = Gone + i
        BY <1>0, <2>1, <4>1 DEF Inv, StreamInv, Gone
      <4> QED
        BY <1>0, <2>0, <2>1, <4>1, <4>2 DEF Inv, StreamInv
    <3> QED
      BY <3>3, <3>4, <3>5 DEF Inv, StateInv
  <2> QED
    BY <2>3, <2>4
<1> QED
  BY <1>1, <1>2

\* The step of close_loop, whoever runs it.
LEMMA CloseLoop ==
    ASSUME Inv, established, close_loop, in' = in,
           posted' \in Seq({"send", "close"})
    PROVE  Inv'
  BY DEF close_loop, history, Inv, TypeOK, StateInv, WriteInv, NoStall, StreamInv,
         Gone, FrontIsOut

----------------------------------------------------------------------------
LEMMA UserStep == ASSUME Inv, ~SendFromSendComplete, Users PROVE Inv'
<1>0. posted \in Seq({"send", "close"})
  BY DEF Inv, TypeOK
<1>1. CASE send
  BY <1>0, <1>1, SendLoop DEF send
<1>2. CASE close
  BY <1>0, <1>2, CloseLoop DEF close
<1>3. ASSUME NEW op \in {"send", "close"}, post(op)
      PROVE  Inv'
  <2>1. posted' \in Seq({"send", "close"})
    BY <1>0, <1>3 DEF post
  <2> QED
    BY <1>3, <2>1 DEF post, history, Inv, TypeOK, StateInv, WriteInv, NoStall,
                      StreamInv, Gone, FrontIsOut
<1> QED
  BY <1>1, <1>2, <1>3 DEF Users

LEMMA KernelStep == ASSUME Inv, Kernel PROVE Inv'
<1>0. /\ accepted \in Nat
      /\ send_buffer_ \in Seq(1..accepted)
      /\ wire \in Seq(1..accepted)
      /\ writes \in Seq([buf : 1..accepted, st : Outcomes])
  BY DEF Inv, TypeOK
<1>1. CASE read_data \/ read_err
  <2>1. StreamInv'
    BY <1>1, BuffersUntouched DEF read_data, read_err, history
  <2>2. TypeOK'
    BY <1>1 DEF read_data, read_err, history, Inv, TypeOK
  <2> QED
    BY <1>1, <2>1, <2>2 DEF read_data, read_err, history, Inv, StateInv, WriteInv, NoStall
<1>2. ASSUME NEW k \in DOMAIN writes, write_ok(k)
      PROVE  Inv'
  <2>1. k = 1 /\ Len(writes) = 1 /\ writes # <<>>
    BY OnlyWrite
  <2>2. /\ writes' \in Seq([buf : 1..accepted, st : Outcomes])
        /\ Len(writes') = 1 /\ writes' # <<>>
        /\ writes'[1].st = "ok" /\ writes'[1].buf = writes[1].buf
    BY <1>2, SetOutcome DEF write_ok, Outcomes
  <2>3. writes[1].buf = Gone + 1 /\ Gone \in Nat /\ Len(send_buffer_) > 0
    <3>1. send_buffer_ # <<>> /\ Len(send_buffer_) > 0 /\ Head(send_buffer_) = send_buffer_[1]
      BY <1>0, <2>1 DEF Inv, WriteInv
    <3>2. writes[1].buf = send_buffer_[1]
      BY <2>1, <3>1 DEF Inv, WriteInv
    <3>3. 1 \in 1..Len(send_buffer_) /\ Len(send_buffer_) \in Nat
      BY <1>0, <3>1
    <3>4. send_buffer_[1] = Gone + 1 /\ Gone \in Nat
      BY <1>0, <3>3 DEF Inv, StreamInv, Gone
    <3> QED
      BY <3>1, <3>2, <3>4
  <2>4. Len(wire) = Gone
    BY <1>0, <1>2, <2>1, <2>3 DEF write_ok, Inv, StreamInv, FrontIsOut
  <2>5. wire' = Append(wire, Gone + 1) /\ Gone + 1 \in 1..accepted
    BY <1>0, <1>2, <2>1, <2>3 DEF write_ok, Gone
  <2>6. TypeOK'
    BY <1>0, <1>2, <2>2, <2>5 DEF write_ok, Inv, TypeOK
  <2>7. WriteInv' /\ NoStall' /\ StateInv'
    BY <1>2, <2>1, <2>2 DEF write_ok, Inv, WriteInv, NoStall, StateInv
  <2>8. StreamInv'
    <3>1. Gone' = Gone /\ FrontIsOut' = 1
      BY <1>2, <2>2 DEF write_ok, Gone, FrontIsOut
    <3>2. Len(wire') = Gone' + FrontIsOut' /\ \A i \in 1..Len(wire') : wire'[i] = i
      BY <1>0, <2>3, <2>4, <2>5, <3>1 DEF Inv, StreamInv
    <3> QED
      BY <1>2, <3>1, <3>2 DEF write_ok, Inv, StreamInv
  <2> QED
    BY <2>6, <2>7, <2>8 DEF Inv
<1>3. ASSUME NEW k \in DOMAIN writes, write_err(k)
      PROVE  Inv'
  <2>1. k = 1 /\ Len(writes) = 1 /\ writes # <<>>
    BY OnlyWrite
  <2>2. /\ writes' \in Seq([buf : 1..accepted, st : Outcomes])
        /\ Len(writes') = 1 /\ writes' # <<>>
        /\ writes'[1].st = "err" /\ writes'[1].buf = writes[1].buf
        /\ writes[1].st = "busy"
    BY <1>3, <2>1, SetOutcome DEF write_err, Outcomes
  <2>3. TypeOK' /\ WriteInv' /\ NoStall' /\ StateInv'
    BY <1>3, <2>1, <2>2 DEF write_err, history, Inv, TypeOK, WriteInv, NoStall, StateInv
  <2>4. Gone' = Gone /\ FrontIsOut' = FrontIsOut
    BY <1>3, <2>2 DEF write_err, history, Gone, FrontIsOut
  <2>5. StreamInv'
    BY <1>3, <2>4 DEF write_err, history, Inv, StreamInv
  <2> QED
    BY <2>3, <2>5 DEF Inv
<1> QED
  BY <1>1, <1>2, <1>3 DEF Kernel

LEMMA LoopStep == ASSUME Inv, Loop PROVE Inv'
<1>0. /\ accepted \in Nat
      /\ send_buffer_ \in Seq(1..accepted)
      /\ wire \in Seq(1..accepted)
      /\ writes \in Seq([buf : 1..accepted, st : Outcomes])
      /\ posted \in Seq({"send", "close"})
  BY DEF Inv, TypeOK
<1>1. CASE handle_establish
  BY <1>0, <1>1 DEF handle_establish, history, Callbacks, Inv, TypeOK, StateInv, WriteInv,
              NoStall, StreamInv, Gone, FrontIsOut
<1>2. CASE establish_done \/ close_done \/ recv_done
  <2>1. StreamInv'
    BY <1>2, BuffersUntouched DEF establish_done, close_done, recv_done, history
  <2>2. TypeOK'
    BY <1>2 DEF establish_done, close_done, recv_done, history, Callbacks, Inv, TypeOK
  <2> QED
    BY <1>2, <2>1, <2>2 DEF establish_done, close_done, recv_done, history, Inv,
                            StateInv, WriteInv, NoStall
<1>3. CASE run_posted
  <2>1. posted' \in Seq({"send", "close"})
    BY <1>0, <1>3 DEF run_posted
  <2>2. established /\ in # "sendcomplete" /\ in' = in
    BY <1>3 DEF run_posted, Inv, StateInv
  <2> QED
    BY <1>3, <2>1, <2>2, SendLoop, CloseLoop DEF run_posted
<1>4. CASE handle_recv_err
  <2>1. StreamInv'
    BY <1>4, BuffersUntouched DEF handle_recv_err, handle_close
  <2>2. TypeOK'
    <3>1. downs' \in Nat
      BY <1>4 DEF handle_recv_err, handle_close, Inv, TypeOK
    <3>2. connected_' \in BOOLEAN /\ in' \in Callbacks
      BY <1>4 DEF handle_recv_err, handle_close, Callbacks
    <3> QED
      BY <1>4, <3>1, <3>2 DEF handle_recv_err, handle_close, Inv, TypeOK
  <2> QED
    BY <1>4, <2>1, <2>2 DEF handle_recv_err, handle_close, Inv, StateInv, WriteInv, NoStall
<1>5. CASE handle_recv
  <2>1. StreamInv'
    BY <1>5, BuffersUntouched DEF handle_recv, history
  <2> QED
    BY <1>5, <2>1 DEF handle_recv, history, Callbacks, Inv, TypeOK, StateInv, WriteInv, NoStall
<1>6. ASSUME NEW k \in DOMAIN writes, handle_send_err(k)
      PROVE  Inv'
  <2>1. /\ k = 1 /\ writes # <<>> /\ writes' = <<>>
        /\ writes[1].st = "err"
    BY <1>6, OnlyWrite DEF handle_send_err
  <2>2. writes' \in Seq([buf : 1..accepted, st : Outcomes])
    BY <2>1
  <2>3. TypeOK'
    <3>1. downs' \in Nat
      BY <1>6 DEF handle_send_err, handle_close, Inv, TypeOK
    <3>2. connected_' \in BOOLEAN /\ in' \in Callbacks
      BY <1>6 DEF handle_send_err, handle_close, Callbacks
    <3> QED
      BY <1>6, <2>2, <3>1, <3>2 DEF handle_send_err, handle_close, Inv, TypeOK
  <2>6. WriteInv' /\ NoStall' /\ StateInv'
    BY <1>6, <2>1 DEF handle_send_err, handle_close, Inv, StateInv, WriteInv, NoStall
  <2>4. Gone' = Gone /\ FrontIsOut' = FrontIsOut
    BY <1>6, <2>1 DEF handle_send_err, handle_close, Gone, FrontIsOut
  <2>5. StreamInv'
    BY <1>6, <2>4 DEF handle_send_err, handle_close, Inv, StreamInv
  <2> QED
    BY <2>3, <2>5, <2>6 DEF Inv
<1>7. ASSUME NEW k \in DOMAIN writes, handle_send(k)
      PROVE  Inv'
  <2>1. /\ k = 1 /\ writes # <<>> /\ writes' = <<>>
        /\ writes[1].st = "ok"
    BY <1>7, OnlyWrite DEF handle_send
  <2>2. writes' \in Seq([buf : 1..accepted, st : Outcomes])
    BY <2>1
  <2>3. /\ send_buffer_ # <<>>
        /\ send_buffer_' = Tail(send_buffer_)
        /\ send_buffer_' \in Seq(1..accepted)
        /\ Len(send_buffer_') = Len(send_buffer_) - 1
        /\ \A i \in 1..Len(send_buffer_') : send_buffer_'[i] = send_buffer_[i + 1]
    BY <1>0, <1>7, <2>1 DEF handle_send, Inv, WriteInv
  <2>4. TypeOK'
    BY <1>7, <2>2, <2>3 DEF handle_send, history, Callbacks, Inv, TypeOK
  <2>5. WriteInv' /\ NoStall' /\ StateInv'
    BY <1>7, <2>1 DEF handle_send, history, Inv, WriteInv, NoStall, StateInv
  <2>6. Gone' = Gone + 1 /\ FrontIsOut' = 0 /\ FrontIsOut = 1
    BY <1>0, <1>7, <2>1, <2>3 DEF handle_send, history, Gone, FrontIsOut
  <2>7. StreamInv'
    BY <1>0, <1>7, <2>3, <2>6 DEF handle_send, history, Inv, StreamInv, Gone
  <2> QED
    BY <2>4, <2>5, <2>7 DEF Inv
<1>8. CASE send_done
  <2>1. writes = <<>>
    BY <1>8 DEF send_done, Inv, WriteInv
  <2>2. CASE send_buffer_ = <<>>
    BY <1>8, <2>1, <2>2 DEF send_done, history, Inv, TypeOK, StateInv, WriteInv,
                            NoStall, StreamInv, Gone, FrontIsOut
  <2>3. CASE send_buffer_ # <<>>
    <3>1. Head(send_buffer_) \in 1..accepted
      BY <1>0, <2>3
    <3>2. writes' = <<[buf |-> Head(send_buffer_), st |-> "busy"]>>
      BY <1>8, <2>1, <2>3 DEF send_done, async_send
    <3>3. /\ writes' \in Seq([buf : 1..accepted, st : Outcomes])
          /\ writes' # <<>> /\ Len(writes') = 1
          /\ writes'[1].buf = Head(send_buffer_) /\ writes'[1].st = "busy"
      BY <3>1, <3>2 DEF Outcomes
    <3>4. TypeOK' /\ WriteInv' /\ NoStall' /\ StateInv'
      BY <1>8, <2>3, <3>3 DEF send_done, history, Inv, TypeOK, WriteInv, NoStall, StateInv
    <3>5. Gone' = Gone /\ FrontIsOut' = FrontIsOut
      BY <1>8, <2>1, <3>3 DEF send_done, history, Gone, FrontIsOut
    <3>6. StreamInv'
      BY <1>8, <3>5 DEF send_done, history, Inv, StreamInv
    <3> QED
      BY <3>4, <3>6 DEF Inv
  <2> QED
    BY <2>2, <2>3
<1> QED
  BY <1>1, <1>2, <1>3, <1>4, <1>5, <1>6, <1>7, <1>8 DEF Loop

LEMMA InvStep == ASSUME ~SendFromSendComplete PROVE Inv /\ [Next]_vars => Inv'
<1>1. ASSUME Inv, UNCHANGED vars
      PROVE  Inv'
  BY <1>1 DEF vars, history, Inv, TypeOK, StateInv, WriteInv, NoStall, StreamInv,
              Gone, FrontIsOut
<1> QED
  BY <1>1, UserStep, KernelStep, LoopStep DEF Next

\* The inductive invariant holds in every reachable state.
THEOREM Invariance == ASSUME ~SendFromSendComplete PROVE Spec => []Inv
  BY InvInit, InvStep, PTL DEF Spec

\* Type correctness of the connection and of its history.
THEOREM TypeCorrect == ASSUME ~SendFromSendComplete PROVE Spec => []TypeOK
<1>1. Inv => TypeOK
  BY DEF Inv
<1> QED
  BY <1>1, Invariance, PTL

\* There is at most one async_write, of the front buffer.
THEOREM SingleWrite == ASSUME ~SendFromSendComplete PROVE Spec => []OneWriteInFlight
<1>1. Inv => OneWriteInFlight
  <2> SUFFICES ASSUME Inv
               PROVE  OneWriteInFlight
    OBVIOUS
  <2>1. writes \in Seq([buf : 1..accepted, st : Outcomes])
    BY DEF Inv, TypeOK
  <2>2. CASE writes = <<>>
    BY <2>2 DEF OneWriteInFlight
  <2>3. CASE writes # <<>>
    <3>1. /\ Len(writes) = 1 /\ send_buffer_ # <<>> /\ writes[1].buf = Head(send_buffer_)
      BY <2>3 DEF Inv, WriteInv
    <3>2. \A k \in DOMAIN writes : k = 1
      BY <2>1, <3>1
    <3> QED
      BY <3>1, <3>2 DEF OneWriteInFlight
  <2> QED
    BY <2>2, <2>3
<1> QED
  BY <1>1, Invariance, PTL

\* Buffered data of a connection that is up has a write under way.
THEOREM Progressing == ASSUME ~SendFromSendComplete PROVE Spec => []NoStall
<1>1. Inv => NoStall
  BY DEF Inv
<1> QED
  BY <1>1, Invariance, PTL

----------------------------------------------------------------------------
(***************************************************************************)
(* How often the end is reported.  The read fails once, because its handler *)
(* does not start another; a write fails once, because nothing is written   *)
(* after it.  DownInv counts the two.                                       *)
(***************************************************************************)
ReadOver == IF established /\ reading = "none" /\ in # "recv" THEN 1 ELSE 0

WriteOver ==
    IF /\ established /\ ~connected_
       /\ writes = <<>> /\ send_buffer_ # <<>> /\ in # "sendcomplete"
    THEN 1 ELSE 0

DownInv == downs = ReadOver + WriteOver

LEMMA DownSendLoop ==
    ASSUME Inv, DownInv, send_loop, in' = in
    PROVE  DownInv'
<1>1. CASE ~connected_
  BY <1>1 DEF send_loop, DownInv, ReadOver, WriteOver
<1>2. CASE connected_
  BY <1>2 DEF send_loop, DownInv, ReadOver, WriteOver
<1> QED
  BY <1>1, <1>2

LEMMA DownCloseLoop ==
    ASSUME Inv, DownInv, close_loop, in' = in
    PROVE  DownInv'
  BY DEF close_loop, history, DownInv, ReadOver, WriteOver, Inv, NoStall, StateInv

LEMMA DownStep ==
    ASSUME Inv, DownInv, [Next]_vars
    PROVE  DownInv'
<1> USE DEF DownInv, ReadOver, WriteOver
<1>1. CASE send \/ close
  BY <1>1, DownSendLoop, DownCloseLoop DEF send, close
<1>2. ASSUME NEW op, post(op)
      PROVE  DownInv'
  BY <1>2 DEF post, history
<1>3. CASE read_data \/ read_err
  BY <1>3 DEF read_data, read_err, history
<1>4. ASSUME NEW k \in DOMAIN writes, write_ok(k) \/ write_err(k)
      PROVE  DownInv'
  <2>1. writes # <<>> /\ writes' # <<>>
    BY <1>4, OnlyWrite, SetOutcome DEF write_ok, write_err, Outcomes
  <2> QED
    BY <1>4, <2>1 DEF write_ok, write_err, history
<1>5. CASE handle_establish
  BY <1>5 DEF handle_establish, history, Inv, StateInv
<1>6. CASE establish_done \/ close_done \/ recv_done
  BY <1>6 DEF establish_done, close_done, recv_done, history
<1>7. CASE run_posted
  BY <1>7, DownSendLoop, DownCloseLoop DEF run_posted
<1>8. CASE handle_recv_err
  <2>1. established
    BY <1>8 DEF handle_recv_err, Inv, StateInv
  <2>2. ReadOver = 0 /\ ReadOver' = 1
    BY <1>8, <2>1 DEF handle_recv_err, handle_close
  <2>3. WriteOver' = WriteOver
    BY <1>8, <2>1 DEF handle_recv_err, handle_close, Inv, NoStall
  <2>4. WriteOver \in Nat
    OBVIOUS
  <2>5. downs' = downs + 1
    BY <1>8 DEF handle_recv_err, handle_close
  <2> HIDE DEF ReadOver, WriteOver
  <2> QED
    BY <2>2, <2>3, <2>4, <2>5
<1>9. CASE handle_recv
  BY <1>9 DEF handle_recv, history
<1>10. ASSUME NEW k \in DOMAIN writes, handle_send_err(k)
       PROVE  DownInv'
  <2>1. writes # <<>> /\ send_buffer_ # <<>> /\ writes' = <<>>
    BY <1>10, OnlyWrite DEF handle_send_err, Inv, WriteInv
  <2>2. established
    BY <2>1 DEF Inv, StateInv
  <2>3. WriteOver = 0 /\ WriteOver' = 1
    BY <1>10, <2>1, <2>2 DEF handle_send_err, handle_close
  <2>4. ReadOver' = ReadOver /\ ReadOver \in Nat
    BY <1>10 DEF handle_send_err, handle_close
  <2>5. downs' = downs + 1
    BY <1>10 DEF handle_send_err, handle_close
  <2> HIDE DEF ReadOver, WriteOver
  <2> QED
    BY <2>3, <2>4, <2>5
<1>11. ASSUME NEW k \in DOMAIN writes, handle_send(k)
       PROVE  DownInv'
  <2>1. writes # <<>>
    BY OnlyWrite
  <2> QED
    BY <1>11, <2>1 DEF handle_send, history
<1>12. CASE send_done
  <2>1. CASE send_buffer_ = <<>>
    BY <1>12, <2>1 DEF send_done, history
  <2>2. CASE send_buffer_ # <<>>
    <3>1. writes' # <<>>
      BY <1>12, <2>2 DEF send_done, async_send, Inv, TypeOK
    <3> QED
      BY <1>12, <3>1 DEF send_done, history
  <2> QED
    BY <2>1, <2>2
<1>13. CASE UNCHANGED vars
  BY <1>13 DEF vars, history
<1> QED
  BY <1>1, <1>2, <1>3, <1>4, <1>5, <1>6, <1>7, <1>8, <1>9, <1>10, <1>11, <1>12, <1>13
  DEF Next, Users, Kernel, Loop

\* close_callback_ is called at most twice.
THEOREM AtMostTwoReports == ASSUME ~SendFromSendComplete PROVE Spec => []DownAtMostTwice
<1>1. Init => DownInv
  BY DEF Init, DownInv, ReadOver, WriteOver
<1>2. Inv /\ DownInv /\ [Next]_vars => DownInv'
  BY DownStep
<1>3. DownInv => DownAtMostTwice
  BY DEF DownInv, ReadOver, WriteOver, DownAtMostTwice
<1> QED
  BY <1>1, <1>2, <1>3, Invariance, PTL DEF Spec

----------------------------------------------------------------------------
(***************************************************************************)
(* Refinement of OutStream.                                                *)
(***************************************************************************)
LEMMA StreamSendLoop ==
    ASSUME Inv, established, send_loop
    PROVE  Stream!Take \/ UNCHANGED Stream!vars
  BY DEF send_loop, Stream!Take, Stream!vars

LEMMA StreamCloseLoop ==
    ASSUME Inv, established, close_loop
    PROVE  Stream!Shut \/ UNCHANGED Stream!vars
  BY DEF close_loop, history, Stream!Shut, Stream!vars

LEMMA StreamStep ==
    ASSUME ~SendFromSendComplete, Inv, [Next]_vars
    PROVE  Stream!Next \/ UNCHANGED Stream!vars
<1>1. CASE send \/ close
  BY <1>1, StreamSendLoop, StreamCloseLoop DEF send, close, Stream!Next
<1>2. ASSUME NEW op, post(op)
      PROVE  UNCHANGED Stream!vars
  BY <1>2 DEF post, history, Stream!vars
<1>3. CASE read_data \/ read_err
  BY <1>3 DEF read_data, read_err, history, Stream!vars
<1>4. ASSUME NEW k \in DOMAIN writes, write_ok(k)
      PROVE  Stream!Emit
  <2>0. accepted \in Nat /\ send_buffer_ \in Seq(1..accepted) /\ wire \in Seq(1..accepted)
    BY DEF Inv, TypeOK
  <2>1. /\ k = 1 /\ writes # <<>> /\ writes[1].st = "busy"
        /\ wire' = Append(wire, writes[1].buf)
    BY <1>4, OnlyWrite DEF write_ok
  <2>2. send_buffer_ # <<>> /\ Len(send_buffer_) > 0 /\ writes[1].buf = send_buffer_[1]
    BY <2>0, <2>1 DEF Inv, WriteInv
  <2>3. FrontIsOut = 0
    BY <2>1 DEF FrontIsOut
  <2>4. Len(wire) = Gone /\ writes[1].buf = Gone + 1 /\ Gone < accepted
    BY <2>0, <2>2, <2>3 DEF Inv, StreamInv, Gone
  <2>5. established /\ connected_
    BY <1>4 DEF write_ok, Inv, StateInv
  <2> QED
    BY <1>4, <2>0, <2>1, <2>4, <2>5 DEF write_ok, Stream!Emit
<1>5. ASSUME NEW k \in DOMAIN writes, write_err(k)
      PROVE  UNCHANGED Stream!vars
  BY <1>5 DEF write_err, history, Stream!vars
<1>6. ASSUME handle_establish
      PROVE  Stream!Open
  BY <1>6 DEF handle_establish, history, Stream!Open
<1>7. CASE establish_done \/ close_done \/ recv_done \/ send_done \/ handle_recv
  BY <1>7 DEF establish_done, close_done, recv_done, send_done, handle_recv, history, Stream!vars
<1>8. CASE run_posted
  <2>1. established
    BY <1>8 DEF run_posted, Inv, StateInv
  <2> QED
    BY <1>8, <2>1, StreamSendLoop, StreamCloseLoop DEF run_posted, Stream!Next
<1>9. ASSUME handle_recv_err
      PROVE  Stream!Shut \/ UNCHANGED Stream!vars
  BY <1>9 DEF handle_recv_err, handle_close, Inv, StateInv, Stream!Shut, Stream!vars
<1>10. ASSUME NEW k \in DOMAIN writes, handle_send_err(k)
       PROVE  Stream!Shut \/ UNCHANGED Stream!vars
  BY <1>10 DEF handle_send_err, handle_close, Inv, StateInv, Stream!Shut, Stream!vars
<1>11. ASSUME NEW k \in DOMAIN writes, handle_send(k)
       PROVE  UNCHANGED Stream!vars
  BY <1>11 DEF handle_send, history, Stream!vars
<1>12. CASE UNCHANGED vars
  BY <1>12 DEF vars, history, Stream!vars
<1> QED
  BY <1>1, <1>2, <1>3, <1>4, <1>5, <1>6, <1>7, <1>8, <1>9, <1>10, <1>11, <1>12
  DEF Next, Users, Kernel, Loop, Stream!Next

\* The connection implements OutStream.
THEOREM ConnectionRefinesStream ==
    ASSUME ~SendFromSendComplete PROVE Spec => ImplementsStream
<1>1. Init => Stream!Init
  BY DEF Init, Stream!Init
<1>2. Inv /\ [Next]_vars => [Stream!Next]_Stream!vars
  BY StreamStep
<1> QED
  BY <1>1, <1>2, Invariance, PTL DEF Spec, ImplementsStream, Stream!Spec
=============================================================================
