-------------------------- MODULE RpcChannelProofs --------------------------
(***************************************************************************)
(* Proofs about Buffer and RpcChannel, for every number of calls and       *)
(* connections, every size of frames and buffers, and every way in which   *)
(* the network cuts what is sent into pieces.                              *)
(*                                                                         *)
(* A buffer is a queue of bytes, whatever it does with its vector.  So     *)
(* what an end has not consumed and what is on its way to it is one        *)
(* stream, which a receive leaves as it is.                                *)
(***************************************************************************)
EXTENDS RpcChannel, SequenceTheorems, TLAPS

BufferOf(S) == [buff_ : Seq(S), read_index_ : Nat, write_index_ : Nat]

\* The indices are in order, and in the vector.
Sound(b) == b.read_index_ <= b.write_index_ /\ b.write_index_ <= Len(b.buff_)

Messages == Calls \cup {Empty}
Frames == [kind : {"request", "response"}, id : Int, msg : Messages, size : Nat \ {0}]
Bytes == [frame : Frames, at : Nat]

\* The bytes of a frame.
BytesOf(f) == [i \in 1..f.size |-> [frame |-> f, at |-> i]]

\* Around each byte of a stream lies the frame it belongs to, all of it.
Whole(s) ==
    /\ s \in Seq(Bytes)
    /\ \A i \in 1..Len(s) :
         /\ 1 <= s[i].at /\ s[i].at <= i /\ s[i].at <= s[i].frame.size
         /\ i - s[i].at + s[i].frame.size <= Len(s)
         /\ \A j \in 1..s[i].frame.size :
              s[i - s[i].at + j] = [frame |-> s[i].frame, at |-> j]

\* The frames in a stream.
Carried(s) == {s[i].frame : i \in 1..Len(s)}

\* An end with receive buffer b and bytes s on their way to it: what it has
\* received and not consumed and what is on its way are one stream of whole
\* frames.
End(b, s) ==
    /\ b \in BufferOf(Bytes \cup {Junk}) /\ Sound(b) /\ s \in Seq(Bytes)
    /\ Whole(Readable(b) \o s)

\* An id was given out, and if its call is open the message is an answer to it.
Meant(id, msg) == id \in Int /\ id < id_ /\ (id \in DOMAIN reqs_ => msg \in {reqs_[id], Empty})

TypeInv ==
    /\ id_ \in Int /\ conns \in Nat
    /\ sent \in [Ends -> Seq(Bytes)]
    /\ recv \in [Ends -> BufferOf(Bytes \cup {Junk})]
    /\ serving \subseteq [id : Int, call : Messages, conn : Nat]
    /\ asked \subseteq Calls /\ answers \in [Calls -> Seq(Messages \cup {Failed})]

StreamInv == \A e \in Ends : End(recv[e], sent[e])

\* An open call was made, is open under one id, and was not told anything yet.
OpenInv ==
    /\ DOMAIN reqs_ \subseteq Int /\ reqs_ \in [DOMAIN reqs_ -> Calls]
    /\ \A i \in DOMAIN reqs_ : i < id_ /\ reqs_[i] \in asked /\ answers[reqs_[i]] = <<>>
    /\ \A i, j \in DOMAIN reqs_ : reqs_[i] = reqs_[j] => i = j
    /\ \A c \in Calls \ asked : answers[c] = <<>>

\* What is on its way, and what services work on, belongs to its call.
MeantInv ==
    /\ \A e \in Ends : \A f \in Carried(Readable(recv[e]) \o sent[e]) : Meant(f.id, f.msg)
    /\ \A r \in serving : Meant(r.id, r.call)

Inv == TypeInv /\ StreamInv /\ OpenInv /\ MeantInv

----------------------------------------------------------------------------
(***************************************************************************)
(* Buffers.                                                                *)
(***************************************************************************)
LEMMA Cut ==
    ASSUME NEW S, NEW s \in Seq(S), NEW m \in Nat, NEW n \in Nat, m <= n, n <= Len(s)
    PROVE  /\ SubSeq(s, m + 1, n) \in Seq(S) /\ Len(SubSeq(s, m + 1, n)) = n - m
           /\ \A i \in 1..(n - m) : SubSeq(s, m + 1, n)[i] = s[m + i]
<1>1. m + 1 \in Int /\ n \in Int /\ \A i \in (m + 1)..n : s[i] \in S
  OBVIOUS
<1>2. /\ SubSeq(s, m + 1, n) \in Seq(S)
      /\ Len(SubSeq(s, m + 1, n)) = IF m + 1 <= n THEN n - (m + 1) + 1 ELSE 0
      /\ \A i \in 1..(n - (m + 1) + 1) : SubSeq(s, m + 1, n)[i] = s[m + 1 + i - 1]
  BY <1>1, SubSeqProperties
<1>3. (IF m + 1 <= n THEN n - (m + 1) + 1 ELSE 0) = n - m /\ n - (m + 1) + 1 = n - m
  OBVIOUS
<1>4. \A i \in 1..(n - m) : m + 1 + i - 1 = m + i
  OBVIOUS
<1> QED
  BY <1>2, <1>3, <1>4

LEMMA Joined ==
    ASSUME NEW S, NEW s \in Seq(S), NEW t \in Seq(S)
    PROVE  /\ s \o t \in Seq(S) /\ Len(s \o t) = Len(s) + Len(t)
           /\ \A i \in 1..Len(s) : (s \o t)[i] = s[i]
           /\ \A i \in 1..Len(t) : (s \o t)[Len(s) + i] = t[i]
<1>1. /\ s \o t \in Seq(S) /\ Len(s \o t) = Len(s) + Len(t)
      /\ \A i \in 1..Len(s) + Len(t) : (s \o t)[i] = IF i <= Len(s) THEN s[i] ELSE t[i - Len(s)]
  BY ConcatProperties
<1>2. Len(s) \in Nat /\ Len(t) \in Nat
  OBVIOUS
<1>3. ASSUME NEW i \in 1..Len(s)
      PROVE  (s \o t)[i] = s[i]
  BY <1>1, <1>2, <1>3
<1>4. ASSUME NEW i \in 1..Len(t)
      PROVE  (s \o t)[Len(s) + i] = t[i]
  <2>1. Len(s) + i \in 1..Len(s) + Len(t) /\ ~(Len(s) + i <= Len(s)) /\ Len(s) + i - Len(s) = i
    BY <1>2
  <2> QED
    BY <1>1, <2>1
<1> QED
  BY <1>1, <1>3, <1>4

\* The readable bytes, one by one.
LEMMA ReadableIs ==
    ASSUME NEW S, NEW b \in BufferOf(S), Sound(b)
    PROVE  /\ Readable(b) \in Seq(S) /\ Len(Readable(b)) = b.write_index_ - b.read_index_
           /\ readable_bytes(b) = Len(Readable(b)) /\ readable_bytes(b) \in Nat
           /\ \A i \in 1..(b.write_index_ - b.read_index_) :
                Readable(b)[i] = b.buff_[b.read_index_ + i]
<1>1. /\ b.buff_ \in Seq(S) /\ b.read_index_ \in Nat /\ b.write_index_ \in Nat
      /\ b.read_index_ <= b.write_index_ /\ b.write_index_ <= Len(b.buff_)
  BY DEF BufferOf, Sound
<1>2. /\ SubSeq(b.buff_, b.read_index_ + 1, b.write_index_) \in Seq(S)
      /\ Len(SubSeq(b.buff_, b.read_index_ + 1, b.write_index_)) = b.write_index_ - b.read_index_
      /\ \A i \in 1..(b.write_index_ - b.read_index_) :
           SubSeq(b.buff_, b.read_index_ + 1, b.write_index_)[i] = b.buff_[b.read_index_ + i]
  BY <1>1, Cut
<1>3. b.write_index_ - b.read_index_ \in Nat
  BY <1>1
<1> QED
  BY <1>2, <1>3 DEF Readable, readable_bytes

\* Two buffers with the same readable bytes.
LEMMA SameReadable ==
    ASSUME NEW S, NEW b \in BufferOf(S), Sound(b), NEW c \in BufferOf(S), Sound(c),
           c.write_index_ - c.read_index_ = b.write_index_ - b.read_index_,
           \A i \in 1..(b.write_index_ - b.read_index_) :
              c.buff_[c.read_index_ + i] = b.buff_[b.read_index_ + i]
    PROVE  Readable(c) = Readable(b)
<1>1. /\ Readable(b) \in Seq(S) /\ Len(Readable(b)) = b.write_index_ - b.read_index_
      /\ \A i \in 1..(b.write_index_ - b.read_index_) : Readable(b)[i] = b.buff_[b.read_index_ + i]
  BY ReadableIs
<1>2. /\ Readable(c) \in Seq(S) /\ Len(Readable(c)) = c.write_index_ - c.read_index_
      /\ \A i \in 1..(c.write_index_ - c.read_index_) : Readable(c)[i] = c.buff_[c.read_index_ + i]
  BY ReadableIs
<1>3. Len(Readable(c)) = Len(Readable(b)) /\ \A i \in 1..Len(Readable(c)) : Readable(c)[i] = Readable(b)[i]
  BY <1>1, <1>2
<1> QED
  BY <1>1, <1>2, <1>3, SeqEqual

LEMMA NewBuffer ==
    ASSUME NEW S, Junk \in S, NEW n \in Nat
    PROVE  /\ new_Buffer(n) \in BufferOf(S) /\ Sound(new_Buffer(n))
           /\ Readable(new_Buffer(n)) = <<>>
<1>1. Fill(n) \in Seq(S) /\ Len(Fill(n)) = n
  BY DEF Fill
<1>2. new_Buffer(n) \in BufferOf(S) /\ Sound(new_Buffer(n))
  BY <1>1 DEF new_Buffer, BufferOf, Sound
<1>3. Len(Readable(new_Buffer(n))) = 0 /\ Readable(new_Buffer(n)) \in Seq(S)
  <2>1. new_Buffer(n).write_index_ - new_Buffer(n).read_index_ = 0
    BY DEF new_Buffer
  <2> QED
    BY <1>2, <2>1, ReadableIs
<1> QED
  BY <1>2, <1>3

\* ensure_writable() makes room and keeps what is readable.
LEMMA EnsureWritable ==
    ASSUME NEW S, Junk \in S, NEW b \in BufferOf(S), Sound(b), NEW n \in Nat
    PROVE  /\ ensure_writable(b, n) \in BufferOf(S) /\ Sound(ensure_writable(b, n))
           /\ Readable(ensure_writable(b, n)) = Readable(b)
           /\ n <= writable_bytes(ensure_writable(b, n))
<1> DEFINE v == b.buff_
           r == b.read_index_
           w == b.write_index_
           c == make_space(b, n)
<1>1. /\ v \in Seq(S) /\ r \in Nat /\ w \in Nat /\ Len(v) \in Nat
      /\ r <= w /\ w <= Len(v) /\ b = [buff_ |-> v, read_index_ |-> r, write_index_ |-> w]
  BY DEF BufferOf, Sound
<1>2. CASE ~(n > writable_bytes(b))
  BY <1>1, <1>2 DEF ensure_writable, writable_bytes
<1>3. CASE n > writable_bytes(b) /\ r + writable_bytes(b) < n
  <2> DEFINE k == w + n - Len(v)
             u == v \o Fill(k)
  <2>1. k \in Nat
    BY <1>1, <1>3 DEF writable_bytes
  <2>2. Fill(k) \in Seq(S) /\ Len(Fill(k)) = k
    BY <2>1 DEF Fill
  <2>3. u \in Seq(S) /\ Len(u) = Len(v) + k /\ \A i \in 1..Len(v) : u[i] = v[i]
    <3> HIDE DEF v, k
    <3> QED
      BY <1>1, <2>2, Joined
  <2>4. c = [buff_ |-> u, read_index_ |-> r, write_index_ |-> w]
    BY <1>1, <1>3 DEF make_space
  <2> HIDE DEF u, v, r, w, c
  <2>5. Len(u) = w + n
    BY <1>1, <2>1, <2>3
  <2>6. c \in BufferOf(S) /\ Sound(c) /\ n <= writable_bytes(c)
    BY <1>1, <2>3, <2>4, <2>5 DEF BufferOf, Sound, writable_bytes
  <2>7. \A i \in 1..(w - r) : c.buff_[c.read_index_ + i] = v[r + i]
    <3>1. \A i \in 1..(w - r) : r + i \in 1..Len(v)
      BY <1>1
    <3>2. c.buff_ = u /\ c.read_index_ = r
      BY <2>4
    <3> QED
      BY <2>3, <3>1, <3>2
  <2>8. Readable(c) = Readable(b)
    <3>1. c.write_index_ - c.read_index_ = w - r
      BY <2>4
    <3> QED
      BY <2>6, <2>7, <3>1, SameReadable DEF v, r, w
  <2> QED
    BY <1>3, <2>6, <2>8 DEF ensure_writable, c
<1>4. CASE n > writable_bytes(b) /\ ~(r + writable_bytes(b) < n)
  <2> DEFINE p == Readable(b)
             q == SubSeq(v, readable_bytes(b) + 1, Len(v))
             u == p \o q
  <2>1. /\ p \in Seq(S) /\ Len(p) = w - r /\ readable_bytes(b) = w - r /\ w - r \in Nat
        /\ w - r <= Len(v) /\ \A i \in 1..(w - r) : p[i] = v[r + i]
    BY <1>1, ReadableIs
  <2>2. q \in Seq(S) /\ Len(q) = Len(v) - (w - r)
    BY <1>1, <2>1, Cut
  <2>3. u \in Seq(S) /\ Len(u) = Len(v) /\ \A i \in 1..(w - r) : u[i] = p[i]
    <3> HIDE DEF p, q, v, r, w
    <3> QED
      BY <1>1, <2>1, <2>2, Joined
  <2>4. c = [buff_ |-> u, read_index_ |-> 0, write_index_ |-> w - r]
    BY <1>1, <1>4, <2>1 DEF make_space
  <2> HIDE DEF u, v, r, w, c, p, q
  <2>5. c \in BufferOf(S) /\ Sound(c) /\ n <= writable_bytes(c)
    <3>1. n <= Len(v) - (w - r)
      BY <1>1, <1>4 DEF writable_bytes, v, r, w
    <3> QED
      BY <1>1, <2>1, <2>3, <2>4, <3>1 DEF BufferOf, Sound, writable_bytes
  <2>6. \A i \in 1..(w - r) : c.buff_[c.read_index_ + i] = v[r + i]
    BY <1>1, <2>1, <2>3, <2>4
  <2>7. Readable(c) = Readable(b)
    <3>1. c.write_index_ - c.read_index_ = w - r
      BY <1>1, <2>4
    <3> QED
      BY <2>5, <2>6, <3>1, SameReadable DEF v, r, w
  <2> QED
    BY <1>4, <2>5, <2>7 DEF ensure_writable, c
<1> QED
  BY <1>2, <1>3, <1>4

\* Data is copied behind what is readable, as far as there is room.
LEMMA Written ==
    ASSUME NEW S, NEW b \in BufferOf(S), Sound(b), NEW data \in Seq(S),
           Len(data) <= writable_bytes(b)
    PROVE  LET c == has_written(Copied(b, data), Len(data))
           IN  /\ c \in BufferOf(S) /\ Sound(c)
               /\ Readable(c) = Readable(b) \o data
<1> DEFINE v == b.buff_
           r == b.read_index_
           w == b.write_index_
           k == Len(data)
           p == SubSeq(v, 1, w)
           q == SubSeq(v, w + k + 1, Len(v))
           u == p \o data \o q
           c == [buff_ |-> u, read_index_ |-> r, write_index_ |-> w + k]
<1>0. data \in Seq(S)
  OBVIOUS
<1>1. /\ v \in Seq(S) /\ r \in Nat /\ w \in Nat /\ Len(v) \in Nat /\ k \in Nat
      /\ r <= w /\ w <= Len(v) /\ b = [buff_ |-> v, read_index_ |-> r, write_index_ |-> w]
      /\ w + k <= Len(v)
  BY DEF BufferOf, Sound, writable_bytes
<1> HIDE DEF v, r, w, k
<1>2. p \in Seq(S) /\ Len(p) = w /\ \A i \in 1..w : p[i] = v[i]
  <2>1. /\ SubSeq(v, 0 + 1, w) \in Seq(S) /\ Len(SubSeq(v, 0 + 1, w)) = w - 0
        /\ \A i \in 1..(w - 0) : SubSeq(v, 0 + 1, w)[i] = v[0 + i]
    BY <1>1, Cut
  <2>2. 0 + 1 = 1 /\ w - 0 = w /\ \A i \in 1..w : 0 + i = i
    BY <1>1
  <2> QED
    BY <2>1, <2>2
<1>3. q \in Seq(S) /\ Len(q) = Len(v) - (w + k)
  BY <1>1, Cut
<1> HIDE DEF p, q
<1>4. /\ p \o data \in Seq(S) /\ Len(p \o data) = w + k
      /\ \A i \in 1..w : (p \o data)[i] = p[i]
      /\ \A i \in 1..k : (p \o data)[w + i] = data[i]
  <2>0. p \in Seq(S) /\ Len(p) = w
    BY <1>2
  <2>1. /\ p \o data \in Seq(S) /\ Len(p \o data) = Len(p) + Len(data)
        /\ \A i \in 1..Len(p) : (p \o data)[i] = p[i]
    BY <1>0, <2>0, Joined
  <2>2. \A i \in 1..Len(data) : (p \o data)[Len(p) + i] = data[i]
    BY <1>0, <2>0, Joined
  <2> QED
    BY <2>0, <2>1, <2>2 DEF k
<1>5. /\ u \in Seq(S) /\ Len(u) = Len(v) /\ \A i \in 1..(w + k) : u[i] = (p \o data)[i]
  BY <1>1, <1>3, <1>4, Joined
<1>6. has_written(Copied(b, data), k) = c
  <2>1. Copied(b, data) = [buff_ |-> u, read_index_ |-> r, write_index_ |-> w]
    <3>1. b.write_index_ = w /\ Len(data) = k
      BY DEF w, k
    <3>2. Copied(b, data) = [b EXCEPT !.buff_ = SubSeq(@, 1, w) \o data \o SubSeq(@, w + k + 1, Len(@))]
      BY <3>1 DEF Copied
    <3>3. b.buff_ = v
      BY DEF v
    <3>4. Copied(b, data) = [b EXCEPT !.buff_ = u]
      BY <3>2, <3>3 DEF p, q
    <3> HIDE DEF u
    <3> QED
      BY <1>1, <3>4
  <2> HIDE DEF u
  <2>2. k <= writable_bytes(Copied(b, data))
    BY <1>1, <1>5, <2>1 DEF writable_bytes
  <2> QED
    BY <2>1, <2>2 DEF has_written
<1> HIDE DEF u
<1>7. c \in BufferOf(S) /\ Sound(c)
  BY <1>1, <1>5 DEF BufferOf, Sound
<1>8. /\ Readable(b) \in Seq(S) /\ Len(Readable(b)) = w - r
      /\ \A i \in 1..(w - r) : Readable(b)[i] = v[r + i]
  BY ReadableIs DEF w, r, v
<1>9. /\ Readable(c) \in Seq(S) /\ Len(Readable(c)) = w + k - r
      /\ \A i \in 1..(w + k - r) : Readable(c)[i] = u[r + i]
  <2>1. c.buff_ = u /\ c.read_index_ = r /\ c.write_index_ = w + k
    OBVIOUS
  <2> HIDE DEF c
  <2> QED
    <3>1. /\ Readable(c) \in Seq(S) /\ Len(Readable(c)) = c.write_index_ - c.read_index_
          /\ \A i \in 1..(c.write_index_ - c.read_index_) :
               Readable(c)[i] = c.buff_[c.read_index_ + i]
      BY <1>7, ReadableIs
    <3>2. Readable(c) \in Seq(S) /\ Len(Readable(c)) = w + k - r
      BY <1>1, <2>1, <3>1
    <3>3. ASSUME NEW i \in 1..(w + k - r)
          PROVE  Readable(c)[i] = u[r + i]
      BY <1>1, <2>1, <3>1
    <3> QED
      BY <3>2, <3>3
<1> HIDE DEF c
<1>10. /\ Readable(b) \o data \in Seq(S) /\ Len(Readable(b) \o data) = w - r + k
       /\ \A i \in 1..(w - r) : (Readable(b) \o data)[i] = Readable(b)[i]
       /\ \A i \in 1..k : (Readable(b) \o data)[w - r + i] = data[i]
  <2> DEFINE m == Readable(b)
  <2>1. m \in Seq(S) /\ Len(m) = w - r
    BY <1>8
  <2> HIDE DEF m
  <2>2. /\ m \o data \in Seq(S) /\ Len(m \o data) = Len(m) + Len(data)
        /\ \A i \in 1..Len(m) : (m \o data)[i] = m[i]
    BY <1>0, <2>1, Joined
  <2>3. \A i \in 1..Len(data) : (m \o data)[Len(m) + i] = data[i]
    BY <1>0, <2>1, Joined
  <2> QED
    BY <2>1, <2>2, <2>3 DEF k, m
<1>11. ASSUME NEW i \in 1..(w + k - r)
       PROVE  Readable(c)[i] = (Readable(b) \o data)[i]
  <2>1. CASE i \in 1..(w - r)
    <3>1. r + i \in 1..w /\ r + i \in 1..(w + k)
      BY <1>1, <2>1
    <3>2. u[r + i] = v[r + i]
      BY <1>2, <1>4, <1>5, <3>1
    <3> QED
      BY <1>8, <1>9, <1>10, <2>1, <3>2
  <2>2. CASE i \notin 1..(w - r)
    <3>1. PICK j \in 1..k : i = w - r + j
      <4>1. i - (w - r) \in 1..k /\ i = w - r + (i - (w - r))
        BY <1>1, <2>2
      <4> QED
        BY <4>1
    <3>2. r + i = w + j /\ w + j \in 1..(w + k)
      BY <1>1, <3>1
    <3>3. u[r + i] = data[j]
      BY <1>4, <1>5, <3>2
    <3> QED
      BY <1>9, <1>10, <3>1, <3>3
  <2> QED
    BY <2>1, <2>2
<1>12. Readable(c) = Readable(b) \o data
  <2>1. Len(Readable(c)) = Len(Readable(b) \o data)
    BY <1>1, <1>9, <1>10
  <2> QED
    BY <1>9, <1>10, <1>11, <2>1, SeqEqual
<1> QED
  BY <1>6, <1>7, <1>12 DEF k

\* has_readed() takes bytes from the front.
LEMMA HasReaded ==
    ASSUME NEW S, NEW b \in BufferOf(S), Sound(b), NEW n \in Nat, n <= readable_bytes(b)
    PROVE  /\ has_readed(b, n) \in BufferOf(S) /\ Sound(has_readed(b, n))
           /\ Readable(has_readed(b, n)) = SubSeq(Readable(b), n + 1, Len(Readable(b)))
<1> DEFINE v == b.buff_
           r == b.read_index_
           w == b.write_index_
           c == has_readed(b, n)
           t == SubSeq(Readable(b), n + 1, Len(Readable(b)))
<1>1. /\ v \in Seq(S) /\ r \in Nat /\ w \in Nat /\ Len(v) \in Nat
      /\ r <= w /\ w <= Len(v) /\ b = [buff_ |-> v, read_index_ |-> r, write_index_ |-> w]
  BY DEF BufferOf, Sound
<1>2. /\ Readable(b) \in Seq(S) /\ Len(Readable(b)) = w - r /\ readable_bytes(b) = w - r
      /\ n <= w - r /\ w - r \in Nat
      /\ \A i \in 1..(w - r) : Readable(b)[i] = v[r + i]
  BY ReadableIs
<1>3. /\ t \in Seq(S) /\ Len(t) = w - r - n
      /\ \A i \in 1..(w - r - n) : t[i] = Readable(b)[n + i]
  BY <1>2, Cut
<1>4. CASE n < readable_bytes(b)
  <2>1. c = [buff_ |-> v, read_index_ |-> r + n, write_index_ |-> w]
    BY <1>1, <1>4 DEF has_readed
  <2> HIDE DEF c, v, r, w, t
  <2>2. c \in BufferOf(S) /\ Sound(c)
    BY <1>1, <1>2, <2>1 DEF BufferOf, Sound
  <2>3. c.buff_ = v /\ c.read_index_ = r + n /\ c.write_index_ = w
    BY <2>1
  <2>4. /\ Readable(c) \in Seq(S) /\ Len(Readable(c)) = w - (r + n)
        /\ \A i \in 1..(w - (r + n)) : Readable(c)[i] = v[r + n + i]
    BY <2>2, <2>3, ReadableIs
  <2>5. w - (r + n) = w - r - n
    BY <1>1
  <2>6. ASSUME NEW i \in 1..(w - r - n)
        PROVE  Readable(c)[i] = t[i]
    <3>1. n + i \in 1..(w - r) /\ r + (n + i) = r + n + i
      BY <1>1, <1>2
    <3> QED
      BY <1>2, <1>3, <2>4, <2>5, <3>1
  <2>7. Readable(c) = t
    BY <1>3, <2>4, <2>5, <2>6, SeqEqual
  <2> QED
    BY <2>2, <2>7 DEF c, t
<1>5. CASE ~(n < readable_bytes(b))
  <2>1. c = [buff_ |-> v, read_index_ |-> 0, write_index_ |-> 0]
    BY <1>1, <1>5 DEF has_readed, has_readall
  <2> HIDE DEF c, v, r, w, t
  <2>2. c \in BufferOf(S) /\ Sound(c)
    BY <1>1, <2>1 DEF BufferOf, Sound
  <2>3. Readable(c) \in Seq(S) /\ Len(Readable(c)) = 0
    <3>1. c.write_index_ - c.read_index_ = 0
      BY <2>1
    <3> QED
      BY <2>2, <3>1, ReadableIs
  <2>4. Len(t) = 0
    BY <1>1, <1>2, <1>3, <1>5
  <2>5. Readable(c) = t
    BY <1>3, <2>3, <2>4
  <2> QED
    BY <2>2, <2>5 DEF c, t
<1> QED
  BY <1>4, <1>5

----------------------------------------------------------------------------
(***************************************************************************)
(* Streams of whole frames.                                                *)
(***************************************************************************)
LEMMA BytesOfAFrame ==
    ASSUME NEW f \in Frames
    PROVE  /\ BytesOf(f) \in Seq(Bytes) /\ Len(BytesOf(f)) = f.size /\ f.size \in Nat \ {0}
           /\ \A i \in 1..f.size : BytesOf(f)[i] = [frame |-> f, at |-> i]
<1>1. f.size \in Nat \ {0}
  BY DEF Frames
<1>2. \A i \in 1..f.size : [frame |-> f, at |-> i] \in Bytes
  BY <1>1 DEF Bytes
<1> HIDE DEF Bytes
<1> QED
  BY <1>1, <1>2 DEF BytesOf

LEMMA ByteIs ==
    ASSUME NEW s \in Seq(Bytes), NEW i \in 1..Len(s)
    PROVE  /\ s[i] \in Bytes /\ s[i].at \in Nat /\ s[i].frame \in Frames
           /\ s[i].frame.size \in Nat /\ s[i].frame.id \in Int /\ s[i].frame.msg \in Messages
<1>1. s[i] \in Bytes
  OBVIOUS
<1>2. s[i].at \in Nat /\ s[i].frame \in Frames
  BY <1>1 DEF Bytes
<1> QED
  BY <1>1, <1>2 DEF Frames

LEMMA FrameIsWhole ==
    ASSUME NEW f \in Frames
    PROVE  Whole(BytesOf(f))
<1> DEFINE s == BytesOf(f)
<1>1. /\ s \in Seq(Bytes) /\ Len(s) = f.size /\ f.size \in Nat \ {0}
      /\ \A i \in 1..f.size : s[i] = [frame |-> f, at |-> i]
  BY BytesOfAFrame
<1> HIDE DEF s
<1>2. ASSUME NEW i \in 1..Len(s)
      PROVE  /\ 1 <= s[i].at /\ s[i].at <= i /\ s[i].at <= s[i].frame.size
             /\ i - s[i].at + s[i].frame.size <= Len(s)
             /\ \A j \in 1..s[i].frame.size :
                  s[i - s[i].at + j] = [frame |-> s[i].frame, at |-> j]
  <2>1. s[i].at = i /\ s[i].frame = f
    <3>1. s[i] = [frame |-> f, at |-> i]
      BY <1>1
    <3> QED
      BY <3>1
  <2>2. \A j \in 1..f.size : i - i + j = j
    BY <1>1
  <2>3. i \in 1..f.size /\ i - i + f.size = f.size
    BY <1>1
  <2>4. \A j \in 1..f.size : s[i - i + j] = [frame |-> f, at |-> j]
    BY <1>1, <2>2
  <2> QED
    BY <1>1, <2>1, <2>3, <2>4
<1> QED
  BY <1>1, <1>2 DEF Whole, s

LEMMA NothingIsWhole == Whole(<<>>)
  BY DEF Whole

\* Frames are put behind frames.
LEMMA JoinIsWhole ==
    ASSUME NEW s, NEW t, Whole(s), Whole(t)
    PROVE  Whole(s \o t)
<1> DEFINE u == s \o t
           m == Len(s)
           n == Len(t)
<1>1. s \in Seq(Bytes) /\ t \in Seq(Bytes) /\ m \in Nat /\ n \in Nat
  BY DEF Whole
<1>2. /\ u \in Seq(Bytes) /\ Len(u) = m + n
      /\ \A i \in 1..m : u[i] = s[i]
  BY <1>1, Joined
<1>3. \A i \in 1..n : u[m + i] = t[i]
  BY <1>1, Joined
<1> HIDE DEF u
<1>4. ASSUME NEW i \in 1..Len(u)
      PROVE  /\ 1 <= u[i].at /\ u[i].at <= i /\ u[i].at <= u[i].frame.size
             /\ i - u[i].at + u[i].frame.size <= Len(u)
             /\ \A j \in 1..u[i].frame.size :
                  u[i - u[i].at + j] = [frame |-> u[i].frame, at |-> j]
  <2>1. CASE i \in 1..m
    <3> DEFINE a == s[i].at
               z == s[i].frame.size
    <3>1. /\ 1 <= a /\ a <= i /\ a <= z /\ i - a + z <= m
          /\ \A j \in 1..z : s[i - a + j] = [frame |-> s[i].frame, at |-> j]
      BY <2>1 DEF Whole
    <3>2. a \in Nat /\ z \in Nat
      BY <1>1, <2>1, ByteIs
    <3>3. u[i] = s[i]
      BY <1>2, <2>1
    <3> HIDE DEF a, z, m, n
    <3>4. \A j \in 1..z : i - a + j \in 1..m
      BY <1>1, <2>1, <3>1, <3>2
    <3>5. \A j \in 1..z : u[i - a + j] = [frame |-> s[i].frame, at |-> j]
      BY <1>2, <3>1, <3>4
    <3>6. i - a + z <= m + n
      BY <1>1, <2>1, <3>1, <3>2
    <3>7. u[i].at = a /\ u[i].frame.size = z /\ u[i].frame = s[i].frame
      BY <3>3 DEF a, z
    <3> QED
      BY <1>2, <3>1, <3>5, <3>6, <3>7
  <2>2. CASE i \notin 1..m
    <3>1. PICK k \in 1..n : i = m + k
      <4>1. i - m \in 1..n /\ i = m + (i - m)
        BY <1>1, <1>2, <2>2
      <4> QED
        BY <4>1
    <3> DEFINE a == t[k].at
               z == t[k].frame.size
    <3>2. /\ 1 <= a /\ a <= k /\ a <= z /\ k - a + z <= n
          /\ \A j \in 1..z : t[k - a + j] = [frame |-> t[k].frame, at |-> j]
      BY DEF Whole
    <3>3. a \in Nat /\ z \in Nat
      BY <1>1, ByteIs
    <3>4. u[i] = t[k]
      BY <1>3, <3>1
    <3> HIDE DEF a, z, m, n
    <3>5. \A j \in 1..z : k - a + j \in 1..n /\ i - a + j = m + (k - a + j)
      BY <1>1, <3>1, <3>2, <3>3
    <3>6. \A j \in 1..z : u[i - a + j] = [frame |-> t[k].frame, at |-> j]
      BY <1>3, <3>2, <3>5
    <3>7. i - a + z <= m + n /\ a <= i
      BY <1>1, <3>1, <3>2, <3>3
    <3>8. u[i].at = a /\ u[i].frame.size = z /\ u[i].frame = t[k].frame
      BY <3>4 DEF a, z
    <3> QED
      BY <1>2, <3>2, <3>6, <3>7, <3>8
  <2> QED
    BY <2>1, <2>2
<1> QED
  BY <1>2, <1>4 DEF Whole, u

\* A stream begins with a first byte, and what is behind its first frame is one
\* again.
LEMMA FirstFrame ==
    ASSUME NEW s, Whole(s), s # <<>>
    PROVE  /\ s[1].at = 1 /\ s[1].frame.size \in Nat \ {0} /\ s[1].frame.size <= Len(s)
           /\ Whole(SubSeq(s, s[1].frame.size + 1, Len(s)))
<1> DEFINE f == s[1].frame
           n == s[1].frame.size
           m == Len(s)
           t == SubSeq(s, n + 1, m)
<1>1. s \in Seq(Bytes) /\ m \in Nat /\ m >= 1 /\ 1 \in 1..m
  BY DEF Whole
<1>2. s[1].at \in Nat /\ n \in Nat
  BY <1>1, ByteIs
<1>3. /\ 1 <= s[1].at /\ s[1].at <= 1 /\ s[1].at <= n /\ 1 - s[1].at + n <= m
      /\ \A j \in 1..n : s[1 - s[1].at + j] = [frame |-> f, at |-> j]
  BY <1>1 DEF Whole
<1> HIDE DEF n, m, f
<1>4. s[1].at = 1 /\ 1 <= n /\ n <= m
  BY <1>1, <1>2, <1>3
<1>5. \A j \in 1..n : s[j] = [frame |-> f, at |-> j]
  <2>1. \A j \in 1..n : 1 - 1 + j = j
    BY <1>2
  <2> QED
    BY <1>3, <1>4, <2>1
<1>6. t \in Seq(Bytes) /\ Len(t) = m - n /\ \A i \in 1..(m - n) : t[i] = s[n + i]
  BY <1>1, <1>2, <1>4, Cut DEF m
<1> HIDE DEF t
<1>7. ASSUME NEW i \in 1..Len(t)
      PROVE  /\ 1 <= t[i].at /\ t[i].at <= i /\ t[i].at <= t[i].frame.size
             /\ i - t[i].at + t[i].frame.size <= Len(t)
             /\ \A j \in 1..t[i].frame.size :
                  t[i - t[i].at + j] = [frame |-> t[i].frame, at |-> j]
  <2> DEFINE k == n + i
             a == s[k].at
             g == s[k].frame
             z == s[k].frame.size
  <2>1. k \in 1..m /\ i \in 1..(m - n)
    BY <1>1, <1>2, <1>4, <1>6
  <2>2. /\ 1 <= a /\ a <= k /\ a <= z /\ k - a + z <= m
        /\ \A j \in 1..z : s[k - a + j] = [frame |-> g, at |-> j]
    BY <2>1 DEF Whole, m
  <2>3. a \in Nat /\ z \in Nat
    BY <1>1, <2>1, ByteIs DEF m
  <2>4. t[i] = s[k]
    BY <1>6, <2>1
  <2>5. t[i].at = a /\ t[i].frame = g /\ t[i].frame.size = z
    BY <2>4
  <2> HIDE DEF a, z, g
  <2>6. k - a >= n
    <3> SUFFICES ASSUME k - a < n PROVE FALSE
      BY <1>2, <2>1, <2>3
    <3>1. k - a + 1 \in 1..n /\ 1 \in 1..z
      BY <1>2, <2>1, <2>2, <2>3
    <3>2. s[k - a + 1] = [frame |-> f, at |-> k - a + 1]
      BY <1>5, <3>1
    <3>3. s[k - a + 1] = [frame |-> g, at |-> 1]
      BY <2>2, <3>1
    <3>4. f = g /\ k - a + 1 = 1
      BY <3>2, <3>3
    <3>5. z = n
      BY <3>4 DEF z, n, f, g
    <3>6. n + i - a + 1 = 1 /\ i >= 1
      BY <1>1, <1>2, <2>1, <2>3, <3>4
    <3> QED
      BY <1>2, <2>1, <2>2, <2>3, <3>5, <3>6
  <2>7. \A j \in 1..z : i - a + j \in 1..(m - n) /\ n + (i - a + j) = k - a + j
    BY <1>1, <1>2, <1>4, <2>1, <2>2, <2>3, <2>6
  <2>8. \A j \in 1..z : t[i - a + j] = [frame |-> g, at |-> j]
    BY <1>6, <2>2, <2>7
  <2>9. a <= i /\ i - a + z <= m - n
    BY <1>1, <1>2, <1>4, <2>1, <2>2, <2>3, <2>6
  <2> QED
    BY <1>6, <2>2, <2>5, <2>8, <2>9
<1>8. Whole(t)
  BY <1>6, <1>7 DEF Whole
<1> QED
  BY <1>2, <1>4, <1>8 DEF n, m, t

\* Such a stream is framed.
LEMMA WholeIsFramed ==
    ASSUME NEW s, Whole(s)
    PROVE  /\ s # <<>> => s[1].at = 1 /\ s[Len(s)].at = s[Len(s)].frame.size
           /\ \A i \in 1..(Len(s) - 1) :
                IF s[i].at = s[i].frame.size
                THEN s[i + 1].at = 1
                ELSE s[i + 1] = [frame |-> s[i].frame, at |-> s[i].at + 1]
<1>1. s \in Seq(Bytes) /\ Len(s) \in Nat
  BY DEF Whole
<1>2. ASSUME NEW i \in 1..Len(s)
      PROVE  /\ s[i].at \in Nat /\ s[i].frame.size \in Nat
             /\ 1 <= s[i].at /\ s[i].at <= i /\ s[i].at <= s[i].frame.size
             /\ i - s[i].at + s[i].frame.size <= Len(s)
             /\ \A j \in 1..s[i].frame.size :
                  s[i - s[i].at + j] = [frame |-> s[i].frame, at |-> j]
  BY <1>1, ByteIs DEF Whole
<1>3. ASSUME s # <<>>
      PROVE  s[1].at = 1 /\ s[Len(s)].at = s[Len(s)].frame.size
  <2>1. Len(s) >= 1 /\ Len(s) \in 1..Len(s)
    BY <1>1, <1>3
  <2>2. /\ s[Len(s)].at \in Nat /\ s[Len(s)].frame.size \in Nat
        /\ s[Len(s)].at <= s[Len(s)].frame.size
        /\ Len(s) - s[Len(s)].at + s[Len(s)].frame.size <= Len(s)
    BY <1>2, <2>1
  <2> QED
    BY <1>1, <1>3, <2>2, FirstFrame
<1>4. ASSUME NEW i \in 1..(Len(s) - 1)
      PROVE  IF s[i].at = s[i].frame.size
             THEN s[i + 1].at = 1
             ELSE s[i + 1] = [frame |-> s[i].frame, at |-> s[i].at + 1]
  <2> DEFINE a == s[i].at
             z == s[i].frame.size
             b == s[i + 1].at
  <2>1. i \in 1..Len(s) /\ i + 1 \in 1..Len(s)
    BY <1>1
  <2>2. /\ a \in Nat /\ z \in Nat /\ 1 <= a /\ a <= i /\ a <= z
        /\ \A j \in 1..z : s[i - a + j] = [frame |-> s[i].frame, at |-> j]
    BY <1>2, <2>1
  <2>3. /\ b \in Nat /\ 1 <= b /\ b <= s[i + 1].frame.size /\ s[i + 1].frame.size \in Nat
        /\ \A j \in 1..s[i + 1].frame.size :
             s[i + 1 - b + j] = [frame |-> s[i + 1].frame, at |-> j]
    BY <1>2, <2>1
  <2> HIDE DEF a, z, b
  <2>4. CASE a # z
    <3>1. a + 1 \in 1..z /\ i - a + (a + 1) = i + 1
      BY <2>1, <2>2, <2>4
    <3>2. s[i + 1] = [frame |-> s[i].frame, at |-> a + 1]
      BY <2>2, <3>1
    <3> QED
      BY <2>4, <3>2 DEF a, z
  <2>5. CASE a = z /\ b # 1
    <3>1. b - 1 \in 1..s[i + 1].frame.size /\ i + 1 - b + (b - 1) = i
      BY <2>1, <2>3, <2>5
    <3>2. s[i] = [frame |-> s[i + 1].frame, at |-> b - 1]
      BY <2>3, <3>1
    <3>3. a = b - 1 /\ z = s[i + 1].frame.size
      BY <3>2 DEF a, z
    <3>4. a = z /\ b <= z
      BY <2>3, <2>5, <3>3
    <3>5. FALSE
      BY <2>2, <2>3, <3>3, <3>4
    <3> QED
      BY <3>5
  <2>6. CASE a = z /\ b = 1
    BY <2>6 DEF a, z, b
  <2> QED
    BY <2>4, <2>5, <2>6
<1> QED
  BY <1>3, <1>4

----------------------------------------------------------------------------
(***************************************************************************)
(* What is sent for a frame.                                               *)
(***************************************************************************)
LEMMA Wrote ==
    ASSUME NEW S, Junk \in S, NEW b \in BufferOf(S), Sound(b), NEW data \in Seq(S)
    PROVE  /\ write(b, data) \in BufferOf(S) /\ Sound(write(b, data))
           /\ Readable(write(b, data)) = Readable(b) \o data
<1> DEFINE c == ensure_writable(b, Len(data))
<1>1. Len(data) \in Nat
  OBVIOUS
<1>2. c \in BufferOf(S) /\ Sound(c) /\ Readable(c) = Readable(b) /\ Len(data) <= writable_bytes(c)
  BY <1>1, EnsureWritable
<1> HIDE DEF c
<1>3. LET d == has_written(Copied(c, data), Len(data))
      IN  d \in BufferOf(S) /\ Sound(d) /\ Readable(d) = Readable(c) \o data
  BY <1>2, Written
<1>4. write(b, data) = has_written(Copied(c, data), Len(data))
  BY DEF write, c
<1> QED
  BY <1>2, <1>3, <1>4

\* A sequence cut in two and put together.
LEMMA CutAndJoin ==
    ASSUME NEW S, NEW s \in Seq(S), NEW n \in Nat, n <= Len(s)
    PROVE  /\ SubSeq(s, 1, n) \in Seq(S) /\ SubSeq(s, n + 1, Len(s)) \in Seq(S)
           /\ Len(SubSeq(s, 1, n)) = n /\ Len(SubSeq(s, n + 1, Len(s))) = Len(s) - n
           /\ SubSeq(s, 1, n) \o SubSeq(s, n + 1, Len(s)) = s
<1>1. Len(s) \in Nat /\ 1 \in 1..Len(s) + 1 /\ n \in 1 - 1..Len(s) /\ Len(s) \in n..Len(s)
  OBVIOUS
<1>2. SubSeq(s, 1, n) \in Seq(S) /\ Len(SubSeq(s, 1, n)) = n
  <2>1. SubSeq(s, 0 + 1, n) \in Seq(S) /\ Len(SubSeq(s, 0 + 1, n)) = n - 0
    BY Cut
  <2>2. 0 + 1 = 1 /\ n - 0 = n
    OBVIOUS
  <2> QED
    BY <2>1, <2>2
<1>3. SubSeq(s, n + 1, Len(s)) \in Seq(S) /\ Len(SubSeq(s, n + 1, Len(s))) = Len(s) - n
  BY <1>1, Cut
<1>4. SubSeq(s, 1, n) \o SubSeq(s, n + 1, Len(s)) = SubSeq(s, 1, Len(s))
  BY <1>1, ConcatAdjacentSubSeq
<1>5. SubSeq(s, 1, Len(s)) = s
  BY SubSeqFull
<1> QED
  BY <1>2, <1>3, <1>4, <1>5

\* The header and the body go out in their order, however long they are.
LEMMA LayoutIs ==
    ASSUME NEW body \in Bodies
    PROVE  Layout[body] = [i \in 1..(HeaderLen + body) |-> i]
<1> DEFINE n == HeaderLen + body
           s == [i \in 1..n |-> i]
           S == Nat \cup {Junk}
           p == SubSeq(s, 1, HeaderLen)
           q == SubSeq(s, HeaderLen + 1, n)
           b == ensure_writable(new_Buffer(InitialSize), n)
           c == write(b, p)
           d == write(c, q)
<1>1. n \in Nat /\ HeaderLen \in Nat /\ HeaderLen <= n /\ InitialSize \in Nat
  BY SizesAssumption
<1>2. s \in Seq(Nat) /\ Len(s) = n
  <2> HIDE DEF n
  <2> QED
    BY <1>1
<1>3. Layout[body] = Readable(d)
  BY DEF Layout
<1> HIDE DEF s, n
<1>4. p \in Seq(Nat) /\ q \in Seq(Nat) /\ p \o q = s
  BY <1>1, <1>2, CutAndJoin
<1> HIDE DEF p, q
<1>5. p \in Seq(S) /\ q \in Seq(S) /\ Junk \in S
  <2>1. Nat \subseteq S /\ Junk \in S
    OBVIOUS
  <2> HIDE DEF S
  <2> QED
    BY <1>4, <2>1, SeqMonotonic
<1> HIDE DEF S
<1>6. b \in BufferOf(S) /\ Sound(b) /\ Readable(b) = <<>>
  <2>1. /\ new_Buffer(InitialSize) \in BufferOf(S) /\ Sound(new_Buffer(InitialSize))
        /\ Readable(new_Buffer(InitialSize)) = <<>>
    BY <1>1, <1>5, NewBuffer
  <2> QED
    BY <1>1, <1>5, <2>1, EnsureWritable
<1> HIDE DEF b
<1>7. c \in BufferOf(S) /\ Sound(c) /\ Readable(c) = <<>> \o p
  BY <1>5, <1>6, Wrote
<1> HIDE DEF c
<1>8. Readable(d) = (<<>> \o p) \o q
  BY <1>5, <1>7, Wrote
<1>9. <<>> \o p = p
  BY <1>4, ConcatEmptySeq
<1> QED
  BY <1>3, <1>4, <1>8, <1>9 DEF s, n

\* A frame as pack_send() is given it.
Packed == {f \in Frames : f.size - HeaderLen \in Bodies}

LEMMA FrameIsPacked ==
    ASSUME NEW kind \in {"request", "response"}, NEW id \in Int, NEW msg \in Messages,
           NEW body \in Bodies
    PROVE  /\ Frame(kind, id, msg, body) \in Packed
           /\ Frame(kind, id, msg, body).id = id /\ Frame(kind, id, msg, body).msg = msg
<1>1. HeaderLen + body \in Nat \ {0} /\ HeaderLen + body - HeaderLen = body
  BY SizesAssumption
<1> DEFINE f == Frame(kind, id, msg, body)
<1>2. f \in Frames /\ f.size = HeaderLen + body /\ f.id = id /\ f.msg = msg
  <2>1. f = [kind |-> kind, id |-> id, msg |-> msg, size |-> HeaderLen + body]
    BY DEF Frame
  <2> HIDE DEF f
  <2>2. f \in Frames
    BY <1>1, <2>1 DEF Frames
  <2> QED
    BY <2>1, <2>2
<1> HIDE DEF f
<1>3. f \in Packed
  <2>1. f.size - HeaderLen = body
    BY <1>1, <1>2, SizesAssumption
  <2> QED
    BY <1>2, <2>1 DEF Packed
<1> QED
  BY <1>2, <1>3 DEF f

LEMMA PackIs ==
    ASSUME NEW f \in Packed
    PROVE  f \in Frames /\ pack(f) = BytesOf(f)
<1>1. f \in Frames /\ f.size - HeaderLen \in Bodies /\ f.size \in Nat
  BY DEF Packed, Frames
<1>2. HeaderLen + (f.size - HeaderLen) = f.size
  BY <1>1, SizesAssumption
<1>3. Layout[f.size - HeaderLen] = [i \in 1..f.size |-> i]
  BY <1>1, <1>2, LayoutIs
<1> QED
  BY <1>1, <1>3 DEF pack, BytesOf

----------------------------------------------------------------------------
(***************************************************************************)
(* The ends of a connection: what a step makes of the stream to one.       *)
(***************************************************************************)
LEMMA CarriedFrames ==
    ASSUME NEW s \in Seq(Bytes)
    PROVE  Carried(s) \subseteq Frames
  BY ByteIs DEF Carried

LEMMA CarriedJoin ==
    ASSUME NEW s \in Seq(Bytes), NEW t \in Seq(Bytes)
    PROVE  Carried(s \o t) \subseteq Carried(s) \cup Carried(t)
<1> DEFINE u == s \o t
<1>1. Len(s) \in Nat /\ Len(t) \in Nat
  OBVIOUS
<1>2. u \in Seq(Bytes) /\ Len(u) = Len(s) + Len(t) /\ \A i \in 1..Len(s) : u[i] = s[i]
  BY Joined
<1>3. \A i \in 1..Len(t) : u[Len(s) + i] = t[i]
  BY Joined
<1> HIDE DEF u
<1>4. ASSUME NEW i \in 1..Len(u)
      PROVE  u[i].frame \in Carried(s) \cup Carried(t)
  <2>1. CASE i \in 1..Len(s)
    BY <1>2, <2>1 DEF Carried
  <2>2. CASE i \notin 1..Len(s)
    <3>1. i - Len(s) \in 1..Len(t) /\ Len(s) + (i - Len(s)) = i
      BY <1>1, <1>2, <2>2
    <3>2. u[i] = t[i - Len(s)]
      BY <1>3, <3>1
    <3> QED
      BY <3>1, <3>2 DEF Carried
  <2> QED
    BY <2>1, <2>2
<1> QED
  BY <1>4 DEF Carried, u

LEMMA CarriedFrame ==
    ASSUME NEW f \in Frames
    PROVE  Carried(BytesOf(f)) = {f}
<1>1. /\ Len(BytesOf(f)) = f.size /\ f.size \in Nat \ {0}
      /\ \A i \in 1..f.size : BytesOf(f)[i] = [frame |-> f, at |-> i]
  BY BytesOfAFrame
<1>2. ASSUME NEW i \in 1..f.size
      PROVE  BytesOf(f)[i].frame = f
  <2>1. BytesOf(f)[i] = [frame |-> f, at |-> i]
    BY <1>1
  <2> QED
    BY <2>1
<1>3. 1 \in 1..f.size
  BY <1>1
<1> QED
  BY <1>1, <1>2, <1>3 DEF Carried

LEMMA CarriedRest ==
    ASSUME NEW s \in Seq(Bytes), NEW n \in Nat, n <= Len(s)
    PROVE  Carried(SubSeq(s, n + 1, Len(s))) \subseteq Carried(s)
<1> DEFINE t == SubSeq(s, n + 1, Len(s))
<1>1. Len(s) \in Nat
  OBVIOUS
<1>2. Len(t) = Len(s) - n /\ \A i \in 1..(Len(s) - n) : t[i] = s[n + i]
  BY <1>1, Cut
<1> HIDE DEF t
<1>3. \A i \in 1..(Len(s) - n) : n + i \in 1..Len(s)
  BY <1>1
<1> QED
  BY <1>2, <1>3 DEF Carried, t

\* Bytes taken from the front of a sequence that has them.
LEMMA DropAndJoin ==
    ASSUME NEW S, NEW s \in Seq(S), NEW t \in Seq(S), NEW n \in Nat, n <= Len(s)
    PROVE  SubSeq(s, n + 1, Len(s)) \o t = SubSeq(s \o t, n + 1, Len(s \o t))
<1> DEFINE u == s \o t
           d == SubSeq(s, n + 1, Len(s))
           x == d \o t
           y == SubSeq(u, n + 1, Len(u))
           m == Len(s)
           k == Len(t)
<1>1. m \in Nat /\ k \in Nat
  OBVIOUS
<1>2. u \in Seq(S) /\ Len(u) = m + k /\ \A i \in 1..m : u[i] = s[i]
  BY Joined
<1>3. \A i \in 1..k : u[m + i] = t[i]
  BY Joined
<1>4. d \in Seq(S) /\ Len(d) = m - n /\ \A i \in 1..(m - n) : d[i] = s[n + i]
  BY <1>1, Cut
<1> HIDE DEF u, d
<1>5. x \in Seq(S) /\ Len(x) = Len(d) + k /\ \A i \in 1..Len(d) : x[i] = d[i]
  BY <1>4, Joined
<1>6. \A i \in 1..k : x[Len(d) + i] = t[i]
  BY <1>4, Joined
<1>7. n <= Len(u) /\ Len(u) \in Nat
  BY <1>1, <1>2
<1>8. y \in Seq(S) /\ Len(y) = Len(u) - n /\ \A i \in 1..(Len(u) - n) : y[i] = u[n + i]
  BY <1>2, <1>7, Cut
<1> HIDE DEF x, y, m, k
<1>9. Len(x) = Len(y) /\ Len(y) = m + k - n
  BY <1>1, <1>2, <1>4, <1>5, <1>8
<1>10. ASSUME NEW i \in 1..(m + k - n)
       PROVE  x[i] = y[i]
  <2>1. y[i] = u[n + i]
    BY <1>1, <1>2, <1>8
  <2>2. CASE i \in 1..(m - n)
    <3>1. n + i \in 1..m
      BY <1>1, <2>2
    <3> QED
      BY <1>2, <1>4, <1>5, <2>1, <2>2, <3>1
  <2>3. CASE i \notin 1..(m - n)
    <3>1. i - (m - n) \in 1..k /\ (m - n) + (i - (m - n)) = i /\ n + i = m + (i - (m - n))
      BY <1>1, <2>3, n <= Len(s) DEF m
    <3> QED
      BY <1>3, <1>4, <1>6, <2>1, <3>1
  <2> QED
    BY <2>2, <2>3
<1>11. x = y
  BY <1>5, <1>8, <1>9, <1>10, SeqEqual
<1> QED
  BY <1>11 DEF x, y, u, d

\* The stream to an end, as a sequence of bytes with what the vector holds.
LEMMA StreamOf ==
    ASSUME NEW b, NEW s, End(b, s)
    PROVE  /\ Readable(b) \in Seq(Bytes \cup {Junk}) /\ s \in Seq(Bytes \cup {Junk})
           /\ Readable(b) \o s \in Seq(Bytes) /\ readable_bytes(b) = Len(Readable(b))
           /\ Len(Readable(b)) \in Nat /\ Len(Readable(b) \o s) = Len(Readable(b)) + Len(s)
<1>1. /\ b \in BufferOf(Bytes \cup {Junk}) /\ Sound(b) /\ s \in Seq(Bytes)
      /\ Readable(b) \o s \in Seq(Bytes)
  BY DEF End, Whole
<1>2. /\ Readable(b) \in Seq(Bytes \cup {Junk}) /\ readable_bytes(b) = Len(Readable(b))
      /\ readable_bytes(b) \in Nat
  BY <1>1, ReadableIs
<1>3. s \in Seq(Bytes \cup {Junk})
  BY <1>1, SeqMonotonic
<1> QED
  BY <1>1, <1>2, <1>3, Joined

LEMMA EndReset ==
    /\ End(new_Buffer(InitialSize), <<>>)
    /\ Carried(Readable(new_Buffer(InitialSize)) \o <<>>) = {}
<1> DEFINE b == new_Buffer(InitialSize)
<1>1. b \in BufferOf(Bytes \cup {Junk}) /\ Sound(b) /\ Readable(b) = <<>>
  BY NewBuffer, SizesAssumption
<1> HIDE DEF b
<1>2. Readable(b) \o <<>> = <<>> /\ <<>> \in Seq(Bytes)
  BY <1>1
<1>3. Carried(<<>>) = {}
  BY DEF Carried
<1> QED
  BY <1>1, <1>2, <1>3, NothingIsWhole DEF End, b

\* A frame is sent to an end.
LEMMA EndSent ==
    ASSUME NEW b, NEW s, End(b, s), NEW f \in Packed
    PROVE  /\ End(b, s \o pack(f))
           /\ Carried(Readable(b) \o (s \o pack(f))) \subseteq Carried(Readable(b) \o s) \cup {f}
<1> DEFINE r == Readable(b)
           t == pack(f)
           S == Bytes \cup {Junk}
<1>1. /\ b \in BufferOf(S) /\ Sound(b) /\ s \in Seq(Bytes) /\ Whole(r \o s)
      /\ r \in Seq(S) /\ s \in Seq(S) /\ r \o s \in Seq(Bytes)
  BY StreamOf DEF End
<1>2. f \in Frames /\ t = BytesOf(f)
  BY PackIs
<1>3. t \in Seq(Bytes) /\ Whole(t) /\ Carried(t) = {f}
  BY <1>2, BytesOfAFrame, FrameIsWhole, CarriedFrame
<1> HIDE DEF t, r
<1>4. t \in Seq(S)
  BY <1>3, SeqMonotonic
<1> HIDE DEF S
<1>5. r \o (s \o t) = (r \o s) \o t
  BY <1>1, <1>4, ConcatAssociative
<1>6. Whole((r \o s) \o t) /\ Carried((r \o s) \o t) \subseteq Carried(r \o s) \cup {f}
  BY <1>1, <1>3, JoinIsWhole, CarriedJoin
<1>7. s \o t \in Seq(Bytes)
  BY <1>1, <1>3, Joined
<1> QED
  BY <1>1, <1>5, <1>6, <1>7 DEF End, r, t, S

\* Bytes are received: the stream is the same.
LEMMA EndReceived ==
    ASSUME NEW b, NEW s, End(b, s), NEW k \in Nat, k <= Len(s),
           k <= writable_bytes(ensure_writable(b, InitialSize))
    PROVE  LET c == has_written(Copied(ensure_writable(b, InitialSize), SubSeq(s, 1, k)), k)
               t == SubSeq(s, k + 1, Len(s))
           IN  End(c, t) /\ Readable(c) \o t = Readable(b) \o s
<1> DEFINE S == Bytes \cup {Junk}
           a == ensure_writable(b, InitialSize)
           p == SubSeq(s, 1, k)
           t == SubSeq(s, k + 1, Len(s))
           c == has_written(Copied(a, p), k)
<1>1. /\ b \in BufferOf(S) /\ Sound(b) /\ s \in Seq(Bytes) /\ Whole(Readable(b) \o s)
      /\ Readable(b) \in Seq(S) /\ s \in Seq(S)
  BY StreamOf DEF End
<1>2. p \in Seq(Bytes) /\ t \in Seq(Bytes) /\ Len(p) = k /\ p \o t = s
  BY <1>1, CutAndJoin
<1>3. p \in Seq(S) /\ t \in Seq(S) /\ Junk \in S
  BY <1>2, SeqMonotonic
<1> HIDE DEF S
<1>4. a \in BufferOf(S) /\ Sound(a) /\ Readable(a) = Readable(b)
  BY <1>1, <1>3, SizesAssumption, EnsureWritable
<1>5. k <= writable_bytes(a)
  OBVIOUS
<1> HIDE DEF a, p, t
<1>6. c \in BufferOf(S) /\ Sound(c) /\ Readable(c) = Readable(a) \o p
  <2>1. LET d == has_written(Copied(a, p), Len(p))
        IN  d \in BufferOf(S) /\ Sound(d) /\ Readable(d) = Readable(a) \o p
    BY <1>2, <1>3, <1>4, <1>5, Written
  <2> QED
    BY <1>2, <2>1
<1> HIDE DEF c
<1>7. Readable(c) \o t = Readable(b) \o s
  <2>1. Readable(c) \o t = (Readable(b) \o p) \o t
    BY <1>4, <1>6
  <2>2. (Readable(b) \o p) \o t = Readable(b) \o (p \o t)
    BY <1>1, <1>3, ConcatAssociative
  <2> QED
    BY <1>2, <2>1, <2>2
<1>8. End(c, t)
  BY <1>1, <1>2, <1>6, <1>7 DEF End, S
<1> QED
  BY <1>7, <1>8 DEF a, p, t, c

\* A frame is consumed that was received completely.
LEMMA EndConsumed ==
    ASSUME NEW b, NEW s, End(b, s),
           readable_bytes(b) >= HeaderLen, readable_bytes(b) >= Readable(b)[1].frame.size
    PROVE  LET f == Readable(b)[1].frame
               c == has_readed(b, f.size)
           IN  /\ f \in Frames /\ f \in Carried(Readable(b) \o s) /\ End(c, s)
               /\ Carried(Readable(c) \o s) \subseteq Carried(Readable(b) \o s)
<1> DEFINE S == Bytes \cup {Junk}
           r == Readable(b)
           u == r \o s
           f == r[1].frame
           c == has_readed(b, f.size)
<1>1. /\ b \in BufferOf(S) /\ Sound(b) /\ s \in Seq(Bytes) /\ Whole(u) /\ u \in Seq(Bytes)
      /\ r \in Seq(S) /\ s \in Seq(S) /\ readable_bytes(b) = Len(r) /\ Len(r) \in Nat
      /\ Len(u) = Len(r) + Len(s)
  BY StreamOf DEF End
<1> HIDE DEF S
<1>2. Len(r) >= 1 /\ 1 \in 1..Len(r)
  BY <1>1, SizesAssumption
<1>3. u[1] = r[1] /\ Len(u) >= 1 /\ 1 \in 1..Len(u) /\ Len(u) \in Nat
  <2> HIDE DEF r
  <2>1. Len(s) \in Nat
    BY <1>1
  <2>2. u[1] = r[1]
    BY <1>1, <1>2, Joined
  <2> QED
    BY <1>1, <1>2, <2>1, <2>2
<1>4. u # <<>>
  BY <1>3
<1> HIDE DEF u
<1>5. f = u[1].frame /\ f \in Frames /\ f \in Carried(u)
  BY <1>1, <1>3, ByteIs DEF Carried
<1>6. f.size \in Nat /\ Whole(SubSeq(u, f.size + 1, Len(u)))
  BY <1>1, <1>4, <1>5, FirstFrame
<1>7. f.size <= readable_bytes(b) /\ f.size <= Len(r) /\ f.size <= Len(u)
  <2>1. f.size <= readable_bytes(b)
    BY <1>1, <1>6
  <2>2. Len(s) \in Nat
    BY <1>1
  <2> HIDE DEF r, f
  <2> QED
    BY <1>1, <1>6, <2>1, <2>2
<1> HIDE DEF f
<1>8. c \in BufferOf(S) /\ Sound(c) /\ Readable(c) = SubSeq(r, f.size + 1, Len(r))
  BY <1>1, <1>6, <1>7, HasReaded
<1> HIDE DEF r, c
<1>9. Readable(c) \o s = SubSeq(u, f.size + 1, Len(u))
  BY <1>1, <1>6, <1>7, <1>8, DropAndJoin DEF u
<1>10. End(c, s)
  BY <1>1, <1>6, <1>8, <1>9 DEF End, S
<1>11. Carried(Readable(c) \o s) \subseteq Carried(u)
  BY <1>1, <1>6, <1>7, <1>9, CarriedRest
<1> QED
  BY <1>5, <1>10, <1>11 DEF r, u, f, c

----------------------------------------------------------------------------
(***************************************************************************)
(* The invariant.                                                          *)
(***************************************************************************)
\* A step that leaves whole frames, those that were there and those of F.
StreamStep(F) ==
    /\ sent' \in [Ends -> Seq(Bytes)]
    /\ recv' \in [Ends -> BufferOf(Bytes \cup {Junk})]
    /\ \A e \in Ends :
         /\ End(recv'[e], sent'[e])
         /\ Carried(Readable(recv'[e]) \o sent'[e])
              \subseteq Carried(Readable(recv[e]) \o sent[e]) \cup F

LEMMA StreamKept ==
    ASSUME NEW F, StreamStep(F)
    PROVE  StreamInv'
  BY DEF StreamStep, StreamInv

LEMMA MeantKept ==
    ASSUME MeantInv, NEW F, StreamStep(F),
           \A f \in F : Meant(f.id, f.msg)',
           \A id, msg : Meant(id, msg) => Meant(id, msg)',
           \A r \in serving' : r \in serving \/ Meant(r.id, r.call)'
    PROVE  MeantInv'
<1>1. ASSUME NEW e \in Ends, NEW f \in Carried(Readable(recv'[e]) \o sent'[e])
      PROVE  Meant(f.id, f.msg)'
  <2>1. CASE f \in F
    BY <2>1
  <2>2. CASE f \notin F
    <3>1. f \in Carried(Readable(recv[e]) \o sent[e])
      BY <2>2 DEF StreamStep
    <3>2. Meant(f.id, f.msg)
      BY <3>1 DEF MeantInv
    <3> QED
      BY <3>2
  <2> QED
    BY <2>1, <2>2
<1>2. ASSUME NEW r \in serving'
      PROVE  Meant(r.id, r.call)'
  <2>1. CASE r \in serving
    <3>1. Meant(r.id, r.call)
      BY <2>1 DEF MeantInv
    <3> QED
      BY <3>1
  <2> QED
    BY <2>1
<1> QED
  BY <1>1, <1>2 DEF MeantInv

LEMMA Stays ==
    ASSUME TypeInv, StreamInv, sent' = sent, recv' = recv
    PROVE  StreamStep({})
  BY DEF TypeInv, StreamInv, StreamStep

LEMMA Resets ==
    ASSUME sent' = [e \in Ends |-> <<>>], recv' = [e \in Ends |-> new_Buffer(InitialSize)]
    PROVE  StreamStep({})
<1>1. ASSUME NEW e \in Ends
      PROVE  /\ End(recv'[e], sent'[e]) /\ Carried(Readable(recv'[e]) \o sent'[e]) = {}
             /\ recv'[e] \in BufferOf(Bytes \cup {Junk}) /\ sent'[e] \in Seq(Bytes)
  <2>1. recv'[e] = new_Buffer(InitialSize) /\ sent'[e] = <<>>
    OBVIOUS
  <2>2. End(recv'[e], sent'[e]) /\ Carried(Readable(recv'[e]) \o sent'[e]) = {}
    BY <2>1, EndReset
  <2> QED
    BY <2>2 DEF End
<1>2. sent' \in [Ends -> Seq(Bytes)]
  BY <1>1
<1>3. recv' \in [Ends -> BufferOf(Bytes \cup {Junk})]
  BY <1>1
<1> QED
  BY <1>1, <1>2, <1>3 DEF StreamStep

LEMMA Sends ==
    ASSUME TypeInv, StreamInv, NEW e \in Ends, NEW f \in Packed, pack_send(e, f), recv' = recv
    PROVE  StreamStep({f})
<1>1. CASE ~up
  BY <1>1 DEF TypeInv, StreamInv, StreamStep, pack_send
<1>2. CASE up
  <2> DEFINE t == sent[e] \o pack(f)
  <2>1. sent' = [sent EXCEPT ![e] = t]
    BY <1>2 DEF pack_send
  <2>2. End(recv[e], sent[e])
    BY DEF StreamInv
  <2>3. /\ End(recv[e], t)
        /\ Carried(Readable(recv[e]) \o t) \subseteq Carried(Readable(recv[e]) \o sent[e]) \cup {f}
    BY <2>2, EndSent
  <2> HIDE DEF t
  <2>4. t \in Seq(Bytes)
    BY <2>3 DEF End
  <2>5. sent' \in [Ends -> Seq(Bytes)] /\ recv' \in [Ends -> BufferOf(Bytes \cup {Junk})]
    BY <2>1, <2>4 DEF TypeInv
  <2>6. ASSUME NEW x \in Ends
        PROVE  /\ End(recv'[x], sent'[x])
               /\ Carried(Readable(recv'[x]) \o sent'[x])
                    \subseteq Carried(Readable(recv[x]) \o sent[x]) \cup {f}
    <3>1. CASE x = e
      <4>1. sent'[x] = t /\ recv'[x] = recv[e]
        BY <2>1, <3>1 DEF TypeInv
      <4> QED
        BY <2>3, <3>1, <4>1
    <3>2. CASE x # e
      <4>1. sent'[x] = sent[x] /\ recv'[x] = recv[x]
        BY <2>1, <3>2 DEF TypeInv
      <4> QED
        BY <4>1 DEF StreamInv
    <3> QED
      BY <3>1, <3>2
  <2> QED
    BY <2>5, <2>6 DEF StreamStep
<1> QED
  BY <1>1, <1>2

LEMMA Receives ==
    ASSUME TypeInv, StreamInv, NEW e \in Ends, NEW k \in 1..Len(sent[e]), receive(e, k)
    PROVE  StreamStep({})
<1> DEFINE b == ensure_writable(recv[e], InitialSize)
           c == has_written(Copied(b, SubSeq(sent[e], 1, k)), k)
           t == SubSeq(sent[e], k + 1, Len(sent[e]))
<1>1. /\ k <= writable_bytes(b)
      /\ recv' = [recv EXCEPT ![e] = c] /\ sent' = [sent EXCEPT ![e] = t]
  BY DEF receive, async_recv
<1>2. End(recv[e], sent[e]) /\ sent[e] \in Seq(Bytes)
  BY DEF StreamInv, TypeInv
<1>3. k \in Nat /\ k <= Len(sent[e])
  BY <1>2
<1>4. End(c, t) /\ Readable(c) \o t = Readable(recv[e]) \o sent[e]
  BY <1>1, <1>2, <1>3, EndReceived
<1> HIDE DEF b, c, t
<1>5. c \in BufferOf(Bytes \cup {Junk}) /\ t \in Seq(Bytes)
  BY <1>4 DEF End
<1>6. sent' \in [Ends -> Seq(Bytes)] /\ recv' \in [Ends -> BufferOf(Bytes \cup {Junk})]
  BY <1>1, <1>5 DEF TypeInv
<1>7. ASSUME NEW x \in Ends
      PROVE  /\ End(recv'[x], sent'[x])
             /\ Carried(Readable(recv'[x]) \o sent'[x])
                  \subseteq Carried(Readable(recv[x]) \o sent[x])
  <2>1. CASE x = e
    <3>1. sent'[x] = t /\ recv'[x] = c
      BY <1>1, <2>1 DEF TypeInv
    <3> QED
      BY <1>4, <2>1, <3>1
  <2>2. CASE x # e
    <3>1. sent'[x] = sent[x] /\ recv'[x] = recv[x]
      BY <1>1, <2>2 DEF TypeInv
    <3> QED
      BY <3>1 DEF StreamInv
  <2> QED
    BY <2>1, <2>2
<1> QED
  BY <1>6, <1>7 DEF StreamStep

\* The frame that is processed, and the end it was taken from.
LEMMA Takes ==
    ASSUME TypeInv, StreamInv, NEW e \in Ends, complete(e)
    PROVE  /\ Received(e) \in Frames /\ Received(e) \in Carried(Readable(recv[e]) \o sent[e])
           /\ Consumed(e) \in [Ends -> BufferOf(Bytes \cup {Junk})]
           /\ \A x \in Ends : x # e => Consumed(e)[x] = recv[x]
           /\ End(Consumed(e)[e], sent[e])
           /\ Carried(Readable(Consumed(e)[e]) \o sent[e])
                \subseteq Carried(Readable(recv[e]) \o sent[e])
<1> DEFINE f == Readable(recv[e])[1].frame
           c == has_readed(recv[e], f.size)
<1>1. /\ End(recv[e], sent[e]) /\ readable_bytes(recv[e]) >= HeaderLen
      /\ readable_bytes(recv[e]) >= f.size
  BY DEF StreamInv, complete
<1>2. /\ f \in Frames /\ f \in Carried(Readable(recv[e]) \o sent[e]) /\ End(c, sent[e])
      /\ Carried(Readable(c) \o sent[e]) \subseteq Carried(Readable(recv[e]) \o sent[e])
  BY <1>1, EndConsumed
<1>3. Received(e) = f /\ Consumed(e) = [recv EXCEPT ![e] = c]
  BY DEF Received, Consumed
<1> HIDE DEF f, c
<1>4. c \in BufferOf(Bytes \cup {Junk})
  BY <1>2 DEF End
<1>5. /\ Consumed(e) \in [Ends -> BufferOf(Bytes \cup {Junk})] /\ Consumed(e)[e] = c
      /\ \A x \in Ends : x # e => Consumed(e)[x] = recv[x]
  BY <1>3, <1>4 DEF TypeInv
<1> QED
  BY <1>2, <1>3, <1>5

LEMMA Consumes ==
    ASSUME TypeInv, StreamInv, NEW e \in Ends, complete(e), recv' = Consumed(e), sent' = sent
    PROVE  StreamStep({})
<1>1. ASSUME NEW x \in Ends
      PROVE  /\ End(recv'[x], sent'[x])
             /\ Carried(Readable(recv'[x]) \o sent'[x])
                  \subseteq Carried(Readable(recv[x]) \o sent[x])
  <2>1. CASE x = e
    BY <2>1, Takes
  <2>2. CASE x # e
    <3>1. recv'[x] = recv[x]
      BY <2>2, Takes
    <3> QED
      BY <3>1 DEF StreamInv
  <2> QED
    BY <2>1, <2>2
<1>2. sent' \in [Ends -> Seq(Bytes)] /\ recv' \in [Ends -> BufferOf(Bytes \cup {Junk})]
  BY Takes DEF TypeInv
<1> QED
  BY <1>1, <1>2 DEF StreamStep

LEMMA Refuses ==
    ASSUME TypeInv, StreamInv, complete("server"), recv' = Consumed("server"),
           NEW f \in Packed, pack_send("client", f)
    PROVE  StreamStep({f})
<1>0. "client" \in Ends /\ "server" \in Ends /\ \A x \in Ends : x # "server" => x = "client"
  BY DEF Ends
<1>1. CASE ~up
  <2>1. sent' = sent
    BY <1>1 DEF pack_send
  <2>2. StreamStep({})
    BY <1>0, <2>1, Consumes
  <2> QED
    BY <2>2 DEF StreamStep
<1>2. CASE up
  <2> DEFINE t == sent["client"] \o pack(f)
  <2>1. sent' = [sent EXCEPT !["client"] = t]
    BY <1>2 DEF pack_send
  <2>2. End(recv["client"], sent["client"])
    BY <1>0 DEF StreamInv
  <2>3. /\ End(recv["client"], t)
        /\ Carried(Readable(recv["client"]) \o t)
             \subseteq Carried(Readable(recv["client"]) \o sent["client"]) \cup {f}
    BY <2>2, EndSent
  <2> HIDE DEF t
  <2>4. t \in Seq(Bytes)
    BY <2>3 DEF End
  <2>5. /\ sent' \in [Ends -> Seq(Bytes)] /\ sent'["client"] = t
        /\ sent'["server"] = sent["server"]
    BY <1>0, <2>1, <2>4 DEF TypeInv
  <2>6. /\ recv' \in [Ends -> BufferOf(Bytes \cup {Junk})] /\ recv'["client"] = recv["client"]
        /\ End(recv'["server"], sent["server"])
        /\ Carried(Readable(recv'["server"]) \o sent["server"])
             \subseteq Carried(Readable(recv["server"]) \o sent["server"])
    BY <1>0, Takes
  <2>7. ASSUME NEW x \in Ends
        PROVE  /\ End(recv'[x], sent'[x])
               /\ Carried(Readable(recv'[x]) \o sent'[x])
                    \subseteq Carried(Readable(recv[x]) \o sent[x]) \cup {f}
    <3>1. CASE x = "client"
      BY <2>3, <2>5, <2>6, <3>1
    <3>2. CASE x = "server"
      BY <2>5, <2>6, <3>2
    <3> QED
      BY <1>0, <3>1, <3>2
  <2> QED
    BY <2>5, <2>6, <2>7 DEF StreamStep
<1> QED
  BY <1>1, <1>2

\* What a step that leaves ids and open calls alone has to keep.
LEMMA MeantSame ==
    ASSUME id_' = id_, reqs_' = reqs_
    PROVE  \A id, msg : Meant(id, msg) <=> Meant(id, msg)'
  BY DEF Meant

LEMMA EndsAre == "client" \in Ends /\ "server" \in Ends
  BY DEF Ends

LEMMA InitInv == Init => Inv
<1> SUFFICES ASSUME Init PROVE Inv
  OBVIOUS
<1>1. ASSUME NEW e \in Ends
      PROVE  /\ End(recv[e], sent[e]) /\ Carried(Readable(recv[e]) \o sent[e]) = {}
             /\ recv[e] \in BufferOf(Bytes \cup {Junk}) /\ sent[e] \in Seq(Bytes)
  <2>1. recv[e] = new_Buffer(InitialSize) /\ sent[e] = <<>>
    BY DEF Init
  <2>2. End(recv[e], sent[e]) /\ Carried(Readable(recv[e]) \o sent[e]) = {}
    BY <2>1, EndReset
  <2> QED
    BY <2>2 DEF End
<1>2. sent \in [Ends -> Seq(Bytes)] /\ recv \in [Ends -> BufferOf(Bytes \cup {Junk})]
  BY <1>1 DEF Init
<1>3. TypeInv
  <2>1. id_ \in Int
    BY IdsAssumption DEF Init
  <2>2. answers \in [Calls -> Seq(Messages \cup {Failed})]
    BY DEF Init
  <2> QED
    BY <1>2, <2>1, <2>2 DEF Init, TypeInv
<1>4. StreamInv
  BY <1>1 DEF StreamInv
<1>5. OpenInv
  BY DEF Init, OpenInv
<1>6. MeantInv
  BY <1>1 DEF Init, MeantInv
<1> QED
  BY <1>3, <1>4, <1>5, <1>6 DEF Inv

LEMMA ConnectionKeeps ==
    ASSUME Inv, connect \/ disconnect \/ UNCHANGED vars
    PROVE  Inv'
<1> USE DEF Inv
<1>1. /\ id_' = id_ /\ reqs_' = reqs_ /\ serving' = serving /\ asked' = asked
      /\ answers' = answers
  BY DEF connect, disconnect, vars
<1>2. StreamStep({})
  <2>1. CASE connect
    BY <2>1, Stays DEF connect
  <2>2. CASE disconnect
    BY <2>2, Resets DEF disconnect
  <2>3. CASE UNCHANGED vars
    BY <2>3, Stays DEF vars
  <2> QED
    BY <2>1, <2>2, <2>3
<1>3. TypeInv'
  <2>1. conns' \in Nat
    BY DEF TypeInv, connect, disconnect, vars
  <2> QED
    BY <1>1, <1>2, <2>1 DEF TypeInv, StreamStep
<1>4. OpenInv'
  BY <1>1 DEF OpenInv
<1>5. MeantInv'
  BY <1>1, <1>2, MeantSame, MeantKept
<1> QED
  BY <1>2, <1>3, <1>4, <1>5, StreamKept

LEMMA ReceiveKeeps ==
    ASSUME Inv, NEW e \in Ends, Receive(e)
    PROVE  Inv'
<1> USE DEF Inv
<1>1. PICK k \in 1..Len(sent[e]) : receive(e, k)
  BY DEF Receive
<1>2. /\ id_' = id_ /\ reqs_' = reqs_ /\ serving' = serving /\ asked' = asked
      /\ answers' = answers /\ up' = up /\ conns' = conns
  BY <1>1 DEF receive
<1>3. StreamStep({})
  BY <1>1, Receives
<1>4. TypeInv'
  BY <1>2, <1>3 DEF TypeInv, StreamStep
<1>5. OpenInv'
  BY <1>2 DEF OpenInv
<1>6. MeantInv'
  BY <1>2, <1>3, MeantSame, MeantKept
<1> QED
  BY <1>3, <1>4, <1>5, <1>6, StreamKept

LEMMA CallKeeps ==
    ASSUME Inv, NEW c \in Calls, NEW body \in Bodies, CallMethod(c, body)
    PROVE  Inv'
<1> USE DEF Inv
<1>0. PICK f : f = Frame("request", id_, c, body)
  OBVIOUS
<1>1. /\ c \notin asked /\ id_' = id_ + 1 /\ asked' = asked \cup {c} /\ pack_send("server", f)
      /\ reqs_' = [i \in DOMAIN reqs_ \cup {id_} |-> IF i = id_ THEN c ELSE reqs_[i]]
      /\ up' = up /\ conns' = conns /\ recv' = recv /\ serving' = serving /\ answers' = answers
  BY <1>0 DEF CallMethod, next_id
<1>2. f \in Packed /\ f.id = id_ /\ f.msg = c
  <2>1. id_ \in Int /\ c \in Messages
    BY DEF TypeInv, Messages
  <2> QED
    BY <1>0, <2>1, FrameIsPacked
<1>3. StreamStep({f})
  BY <1>1, <1>2, EndsAre, Sends
<1>4. /\ id_ \in Int /\ DOMAIN reqs_ \subseteq Int /\ id_ \notin DOMAIN reqs_
      /\ DOMAIN reqs_' = DOMAIN reqs_ \cup {id_} /\ reqs_'[id_] = c
      /\ \A i \in DOMAIN reqs_ : i # id_ /\ reqs_'[i] = reqs_[i]
  <2>1. \A i \in DOMAIN reqs_ : i \in Int /\ i < id_
    BY DEF OpenInv
  <2>2. id_ \in Int
    BY DEF TypeInv
  <2>3. id_ \notin DOMAIN reqs_ /\ DOMAIN reqs_ \subseteq Int
    BY <2>1, <2>2
  <2> QED
    BY <1>1, <2>2, <2>3
<1>5. TypeInv'
  <2>1. id_' \in Int /\ asked' \subseteq Calls /\ conns' \in Nat
    BY <1>1 DEF TypeInv
  <2>2. /\ sent' \in [Ends -> Seq(Bytes)] /\ recv' \in [Ends -> BufferOf(Bytes \cup {Junk})]
    BY <1>3 DEF StreamStep
  <2>3. /\ serving' \subseteq [id : Int, call : Messages, conn : Nat]
        /\ answers' \in [Calls -> Seq(Messages \cup {Failed})]
    BY <1>1 DEF TypeInv
  <2> QED
    BY <2>1, <2>2, <2>3 DEF TypeInv
<1>6. OpenInv'
  <2>1. DOMAIN reqs_' \subseteq Int /\ reqs_' \in [DOMAIN reqs_' -> Calls]
    BY <1>1, <1>4 DEF OpenInv
  <2>2. ASSUME NEW i \in DOMAIN reqs_'
        PROVE  i < id_' /\ reqs_'[i] \in asked' /\ answers'[reqs_'[i]] = <<>>
    <3>1. CASE i = id_
      BY <1>1, <1>4, <3>1 DEF OpenInv
    <3>2. CASE i \in DOMAIN reqs_
      <4>1. i \in Int /\ i < id_ /\ reqs_[i] \in asked /\ answers[reqs_[i]] = <<>>
        BY <3>2 DEF OpenInv
      <4> QED
        BY <1>1, <1>4, <3>2, <4>1
    <3> QED
      BY <1>4, <3>1, <3>2
  <2>3. ASSUME NEW i \in DOMAIN reqs_', NEW j \in DOMAIN reqs_', reqs_'[i] = reqs_'[j]
        PROVE  i = j
    <3>1. \A x \in DOMAIN reqs_ : reqs_[x] # c
      BY <1>1 DEF OpenInv
    <3>2. CASE i = id_ \/ j = id_
      BY <1>4, <2>3, <3>1, <3>2
    <3>3. CASE i # id_ /\ j # id_
      BY <1>4, <2>3, <3>3 DEF OpenInv
    <3> QED
      BY <3>2, <3>3
  <2>4. \A x \in Calls \ asked' : answers'[x] = <<>>
    BY <1>1 DEF OpenInv
  <2> QED
    BY <2>1, <2>2, <2>3, <2>4 DEF OpenInv
<1>7. MeantInv'
  <2>1. Meant(f.id, f.msg)'
    <3>1. id_ \in Int /\ id_ < id_ + 1
      BY <1>4
    <3> QED
      BY <1>1, <1>2, <1>4, <3>1 DEF Meant
  <2>2. ASSUME NEW id, NEW msg, Meant(id, msg)
        PROVE  Meant(id, msg)'
    <3>1. id \in Int /\ id < id_ /\ (id \in DOMAIN reqs_ => msg \in {reqs_[id], Empty})
      BY <2>2 DEF Meant
    <3>2. id \in Int /\ id < id_' /\ (id \in DOMAIN reqs_' => msg \in {reqs_'[id], Empty})
      BY <1>1, <1>4, <3>1
    <3> QED
      BY <3>2 DEF Meant
  <2> QED
    BY <1>1, <1>3, <2>1, <2>2, MeantKept
<1> QED
  BY <1>3, <1>5, <1>6, <1>7, StreamKept

\* The frame that is processed belongs to its call.
LEMMA ReceivedIsMeant ==
    ASSUME Inv, NEW e \in Ends, complete(e)
    PROVE  /\ Received(e).id \in Int /\ Received(e).msg \in Messages
           /\ Meant(Received(e).id, Received(e).msg)
<1>1. Received(e) \in Frames /\ Received(e) \in Carried(Readable(recv[e]) \o sent[e])
  BY Takes DEF Inv
<1>2. Received(e).id \in Int /\ Received(e).msg \in Messages
  BY <1>1 DEF Frames
<1> QED
  BY <1>1, <1>2 DEF Inv, MeantInv

\* A response to a call that is open: the call was told nothing yet, what it is
\* told now is an answer to it, and no other open call is told.
LEMMA Response ==
    ASSUME Inv, NEW parsed \in BOOLEAN, process_response(parsed),
           Received("client").id \in DOMAIN reqs_
    PROVE  \E id \in DOMAIN reqs_ : \E a \in {reqs_[id], Empty, Failed} :
             /\ reqs_[id] \in Calls /\ reqs_[id] \in asked /\ answers[reqs_[id]] = <<>>
             /\ answers' = [answers EXCEPT ![reqs_[id]] = <<a>>]
             /\ reqs_' = [i \in DOMAIN reqs_ \ {id} |-> reqs_[i]]
<1> DEFINE f == Received("client")
           c == reqs_[f.id]
           a == IF parsed THEN f.msg ELSE Failed
<1>1. complete("client")
  BY DEF process_response
<1>2. Meant(f.id, f.msg)
  BY <1>1, EndsAre, ReceivedIsMeant
<1>3. c \in Calls /\ c \in asked /\ answers[c] = <<>> /\ answers \in [Calls -> Seq(Messages \cup {Failed})]
  BY DEF Inv, OpenInv, TypeInv
<1>4. /\ answers' = [answers EXCEPT ![c] = Append(answers[c], a)]
      /\ reqs_' = [i \in DOMAIN reqs_ \ {f.id} |-> reqs_[i]]
  BY DEF process_response
<1>5. a \in {c, Empty, Failed}
  BY <1>2 DEF Meant
<1> HIDE DEF a, c
<1>6. Append(answers[c], a) = <<a>>
  BY <1>3
<1>7. answers' = [answers EXCEPT ![c] = <<a>>]
  BY <1>4, <1>6
<1> HIDE DEF f
<1>8. f.id \in DOMAIN reqs_
  BY DEF f
<1>9. /\ a \in {reqs_[f.id], Empty, Failed}
      /\ reqs_[f.id] \in Calls /\ reqs_[f.id] \in asked /\ answers[reqs_[f.id]] = <<>>
      /\ answers' = [answers EXCEPT ![reqs_[f.id]] = <<a>>]
  BY <1>3, <1>5, <1>7 DEF c
<1> QED
  BY <1>4, <1>8, <1>9

LEMMA ResponseKeeps ==
    ASSUME Inv, NEW parsed \in BOOLEAN, process_response(parsed)
    PROVE  Inv'
<1> USE DEF Inv
<1>1. /\ complete("client") /\ recv' = Consumed("client") /\ sent' = sent /\ id_' = id_
      /\ conns' = conns /\ serving' = serving /\ asked' = asked
  BY DEF process_response
<1>2. StreamStep({})
  BY <1>1, EndsAre, Consumes
<1>3. CASE Received("client").id \notin DOMAIN reqs_
  <2>1. reqs_' = reqs_ /\ answers' = answers
    BY <1>3 DEF process_response
  <2>2. TypeInv'
    BY <1>1, <1>2, <2>1 DEF TypeInv, StreamStep
  <2>3. OpenInv'
    BY <1>1, <2>1 DEF OpenInv
  <2>4. MeantInv'
    BY <1>1, <1>2, <2>1, MeantSame, MeantKept
  <2> QED
    BY <1>2, <2>2, <2>3, <2>4, StreamKept
<1>4. CASE Received("client").id \in DOMAIN reqs_
  <2>0. PICK id \in DOMAIN reqs_ : \E a \in {reqs_[id], Empty, Failed} :
          /\ reqs_[id] \in Calls /\ reqs_[id] \in asked /\ answers[reqs_[id]] = <<>>
          /\ answers' = [answers EXCEPT ![reqs_[id]] = <<a>>]
          /\ reqs_' = [i \in DOMAIN reqs_ \ {id} |-> reqs_[i]]
    BY <1>4, Response
  <2>1. PICK a \in {reqs_[id], Empty, Failed} :
          /\ reqs_[id] \in Calls /\ reqs_[id] \in asked /\ answers[reqs_[id]] = <<>>
          /\ answers' = [answers EXCEPT ![reqs_[id]] = <<a>>]
          /\ reqs_' = [i \in DOMAIN reqs_ \ {id} |-> reqs_[i]]
    BY <2>0
  <2>2. PICK c : c = reqs_[id]
    OBVIOUS
  <2>3. /\ DOMAIN reqs_' = DOMAIN reqs_ \ {id}
        /\ \A i \in DOMAIN reqs_' : reqs_'[i] = reqs_[i] /\ reqs_[i] # c
    BY <2>1, <2>2 DEF OpenInv
  <2>4. answers' \in [Calls -> Seq(Messages \cup {Failed})] /\ \A x \in Calls : x # c => answers'[x] = answers[x]
    <3>1. c \in Calls /\ a \in Messages \cup {Failed}
      BY <2>1, <2>2 DEF Messages
    <3>2. <<a>> \in Seq(Messages \cup {Failed})
      BY <3>1
    <3>3. answers' = [answers EXCEPT ![c] = <<a>>] /\ answers \in [Calls -> Seq(Messages \cup {Failed})]
      BY <2>1, <2>2 DEF TypeInv
    <3> HIDE DEF Inv
    <3> QED
      BY <3>1, <3>2, <3>3
  <2>5. TypeInv'
    BY <1>1, <1>2, <2>4 DEF TypeInv, StreamStep
  <2>6. OpenInv'
    <3>1. DOMAIN reqs_' \subseteq Int /\ reqs_' \in [DOMAIN reqs_' -> Calls]
      BY <2>1, <2>3 DEF OpenInv
    <3>2. ASSUME NEW i \in DOMAIN reqs_'
          PROVE  i < id_' /\ reqs_'[i] \in asked' /\ answers'[reqs_'[i]] = <<>>
      <4>1. i < id_ /\ reqs_[i] \in asked /\ answers[reqs_[i]] = <<>> /\ reqs_[i] \in Calls
        BY <2>3 DEF OpenInv
      <4> QED
        BY <1>1, <2>3, <2>4, <4>1
    <3>3. \A i, j \in DOMAIN reqs_' : reqs_'[i] = reqs_'[j] => i = j
      BY <2>3 DEF OpenInv
    <3>4. \A x \in Calls \ asked' : answers'[x] = <<>>
      <4>1. c \in asked
        BY <2>1, <2>2
      <4> QED
        BY <1>1, <2>4, <4>1 DEF OpenInv
    <3> QED
      BY <3>1, <3>2, <3>3, <3>4 DEF OpenInv
  <2>7. MeantInv'
    <3>1. \A n, msg : Meant(n, msg) => Meant(n, msg)'
      BY <1>1, <2>3 DEF Meant
    <3> QED
      BY <1>1, <1>2, <3>1, MeantKept
  <2> QED
    BY <1>2, <2>5, <2>6, <2>7, StreamKept
<1> QED
  BY <1>3, <1>4

LEMMA RefusalKeeps ==
    ASSUME Inv, NEW body \in Bodies, process_request_refused(body)
    PROVE  Inv'
<1> USE DEF Inv
<1>1. PICK id : id = Received("server").id
  OBVIOUS
<1>2. PICK f : f = Frame("response", id, Empty, body)
  OBVIOUS
<1>3. /\ complete("server") /\ recv' = Consumed("server") /\ pack_send("client", f)
      /\ id_' = id_ /\ reqs_' = reqs_ /\ conns' = conns /\ serving' = serving /\ asked' = asked
      /\ answers' = answers
  BY <1>1, <1>2 DEF process_request_refused, send_resp
<1>4. id \in Int /\ Meant(id, Received("server").msg)
  BY <1>1, <1>3, EndsAre, ReceivedIsMeant
<1>5. f \in Packed /\ f.id = id /\ f.msg = Empty
  <2>1. id \in Int /\ Empty \in Messages
    BY <1>4 DEF Messages
  <2> HIDE DEF Inv
  <2> QED
    BY <1>2, <2>1, FrameIsPacked
<1>6. Meant(id, Empty)
  BY <1>4 DEF Meant
<1>7. StreamStep({f})
  BY <1>3, <1>5, Refuses
<1>8. TypeInv'
  BY <1>3, <1>7 DEF TypeInv, StreamStep
<1>9. OpenInv'
  BY <1>3 DEF OpenInv
<1>10. MeantInv'
  <2>1. Meant(id, Empty)'
    BY <1>3, <1>6, MeantSame
  <2> QED
    BY <1>3, <1>5, <1>7, <2>1, MeantSame, MeantKept
<1> QED
  BY <1>7, <1>8, <1>9, <1>10, StreamKept

LEMMA RequestKeeps ==
    ASSUME Inv, process_request
    PROVE  Inv'
<1> USE DEF Inv
<1>1. PICK r : r = [id |-> Received("server").id, call |-> Received("server").msg, conn |-> conns]
  OBVIOUS
<1>2. /\ complete("server") /\ recv' = Consumed("server") /\ sent' = sent
      /\ id_' = id_ /\ reqs_' = reqs_ /\ conns' = conns /\ asked' = asked
      /\ answers' = answers /\ serving' = serving \cup {r}
  BY <1>1 DEF process_request
<1>3. /\ Received("server").id \in Int /\ Received("server").msg \in Messages
      /\ Meant(Received("server").id, Received("server").msg)
  BY <1>2, EndsAre, ReceivedIsMeant
<1>4. r \in [id : Int, call : Messages, conn : Nat] /\ Meant(r.id, r.call)
  BY <1>1, <1>3 DEF TypeInv
<1>5. StreamStep({})
  BY <1>2, EndsAre, Consumes
<1>6. TypeInv'
  BY <1>2, <1>4, <1>5 DEF TypeInv, StreamStep
<1>7. OpenInv'
  BY <1>2 DEF OpenInv
<1>8. MeantInv'
  <2>1. Meant(r.id, r.call)'
    BY <1>2, <1>4, MeantSame
  <2> QED
    BY <1>2, <1>5, <2>1, MeantSame, MeantKept
<1> QED
  BY <1>5, <1>6, <1>7, <1>8, StreamKept

LEMMA DoneKeeps ==
    ASSUME Inv, NEW r \in serving, NEW body \in Bodies, on_done(r, body)
    PROVE  Inv'
<1> USE DEF Inv
<1>1. PICK f : f = Frame("response", r.id, r.call, body)
  OBVIOUS
<1>2. /\ serving' = serving \ {r} /\ (sent' = sent \/ pack_send("client", f))
      /\ id_' = id_ /\ reqs_' = reqs_ /\ conns' = conns /\ asked' = asked
      /\ answers' = answers /\ recv' = recv
  BY <1>1 DEF on_done, send_resp
<1>3. r.id \in Int /\ r.call \in Messages /\ Meant(r.id, r.call)
  BY DEF TypeInv, MeantInv
<1>4. f \in Packed /\ f.id = r.id /\ f.msg = r.call
  BY <1>1, <1>3, FrameIsPacked
<1>5. StreamStep({f})
  <2>1. CASE sent' = sent
    <3>1. StreamStep({})
      BY <1>2, <2>1, Stays
    <3> QED
      BY <3>1 DEF StreamStep
  <2>2. CASE pack_send("client", f)
    BY <1>2, <1>4, <2>2, EndsAre, Sends
  <2> QED
    BY <1>2, <2>1, <2>2
<1>6. TypeInv'
  BY <1>2, <1>5 DEF TypeInv, StreamStep
<1>7. OpenInv'
  BY <1>2 DEF OpenInv
<1>8. MeantInv'
  <2>1. Meant(r.id, r.call)'
    BY <1>2, <1>3, MeantSame
  <2> QED
    BY <1>2, <1>4, <1>5, <2>1, MeantSame, MeantKept
<1> QED
  BY <1>5, <1>6, <1>7, <1>8, StreamKept

\* The streams stay whole frames and what they carry stays with its call,
\* whatever the ends, the services and the network do.
THEOREM Invariance == Spec => []Inv
<1>1. ASSUME Inv, [Next]_vars
      PROVE  Inv'
  <2>1. CASE connect \/ disconnect \/ UNCHANGED vars
    BY <1>1, <2>1, ConnectionKeeps
  <2>2. CASE \E c \in Calls, body \in Bodies : CallMethod(c, body)
    BY <1>1, <2>2, CallKeeps
  <2>3. CASE \E e \in Ends : Receive(e)
    BY <1>1, <2>3, ReceiveKeeps
  <2>4. CASE \E e \in Ends : Process(e)
    BY <1>1, <2>4, ResponseKeeps, RequestKeeps, RefusalKeeps DEF Process
  <2>5. CASE \E c \in Calls : Answer(c)
    BY <1>1, <2>5, DoneKeeps DEF Answer
  <2> QED
    BY <1>1, <2>1, <2>2, <2>3, <2>4, <2>5 DEF Next
<1> QED
  BY <1>1, InitInv, PTL DEF Spec

\* However a stream is cut into pieces and the buffers are moved and made longer
\* for them: the frames an end receives are those that were sent to it, one
\* behind the other and each of them whole.
THEOREM StreamsAreFramed == Spec => []Framed
<1>1. Inv => Framed
  <2> SUFFICES ASSUME Inv PROVE Framed
    OBVIOUS
  <2>1. ASSUME NEW e \in Ends
        PROVE  Whole(Readable(recv[e]) \o sent[e])
    BY DEF Inv, StreamInv, End
  <2> QED
    BY <2>1, WholeIsFramed DEF Framed
<1> QED
  BY <1>1, Invariance, PTL

\* However calls, answers and connections overlap, and whichever of them are lost
\* with a connection: the closure of a call is run at most once, and finds what
\* was answered to that call.
THEOREM CallsFindTheirAnswers == Spec => ImplementsCalls
<1>1. Init => Rpc!Init
  BY DEF Init, Rpc!Init
<1>2. ASSUME Inv, [Next]_vars
      PROVE  [Rpc!Next]_<<asked, answers>>
  <2>1. CASE \E c \in Calls, body \in Bodies : CallMethod(c, body)
    <3>1. PICK c \in Calls, body \in Bodies : CallMethod(c, body)
      BY <2>1
    <3>2. Rpc!Ask(c)
      BY <3>1 DEF CallMethod, Rpc!Ask
    <3> QED
      BY <3>2 DEF Rpc!Next
  <2>2. CASE \E parsed \in BOOLEAN : process_response(parsed)
    <3>1. PICK parsed \in BOOLEAN : process_response(parsed)
      BY <2>2
    <3>2. CASE Received("client").id \in DOMAIN reqs_
      <4>1. PICK id \in DOMAIN reqs_ : \E a \in {reqs_[id], Empty, Failed} :
              /\ reqs_[id] \in Calls /\ reqs_[id] \in asked /\ answers[reqs_[id]] = <<>>
              /\ answers' = [answers EXCEPT ![reqs_[id]] = <<a>>]
              /\ reqs_' = [i \in DOMAIN reqs_ \ {id} |-> reqs_[i]]
        BY <1>2, <3>1, <3>2, Response
      <4>2. asked' = asked
        BY <3>1 DEF process_response
      <4>3. \E a \in {reqs_[id], Empty, Failed} : Rpc!Answer(reqs_[id], a)
        BY <4>1, <4>2 DEF Rpc!Answer
      <4>4. reqs_[id] \in Calls
        BY <4>1
      <4> QED
        BY <4>3, <4>4 DEF Rpc!Next
    <3>3. CASE Received("client").id \notin DOMAIN reqs_
      BY <3>1, <3>3 DEF process_response
    <3> QED
      BY <3>2, <3>3
  <2>3. CASE UNCHANGED <<asked, answers>>
    BY <2>3
  <2>4. \/ \E c \in Calls, body \in Bodies : CallMethod(c, body)
        \/ \E parsed \in BOOLEAN : process_response(parsed)
        \/ UNCHANGED <<asked, answers>>
    BY <1>2 DEF Next, Receive, Process, Answer, connect, disconnect, receive, process_request,
                process_request_refused, on_done, vars
  <2> QED
    BY <2>1, <2>2, <2>3, <2>4
<1> QED
  BY <1>1, <1>2, Invariance, PTL DEF Spec, ImplementsCalls, Rpc!Spec
=============================================================================
