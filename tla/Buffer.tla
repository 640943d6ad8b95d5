------------------------------- MODULE Buffer -------------------------------
(***************************************************************************)
(* code/Buffer.cpp: a vector with a read and a write index.  A buffer is a *)
(* record, an operation is an operator that gives the new one.             *)
(***************************************************************************)
EXTENDS Naturals, Sequences

CONSTANTS
    InitialSize,
    Junk           \* what a resized vector is filled with

Fill(n) == [i \in 1..n |-> Junk]

new_Buffer(n) == [buff_ |-> Fill(n), read_index_ |-> 0, write_index_ |-> 0]

readable_bytes(b) == b.write_index_ - b.read_index_
writable_bytes(b) == Len(b.buff_) - b.write_index_

\* The bytes from begin_read() to begin_write().
Readable(b) == SubSeq(b.buff_, b.read_index_ + 1, b.write_index_)

----------------------------------------------------------------------------
\* Variants, as a slip in the code would leave the operations.
make_space_moves_index(b, n) ==
    IF b.read_index_ + writable_bytes(b) < n
    THEN [b EXCEPT !.buff_ = @ \o Fill(b.write_index_ + n - Len(@))]
    ELSE [b EXCEPT !.read_index_ = 0, !.write_index_ = readable_bytes(b)]

----------------------------------------------------------------------------
has_written(b, n) ==
    IF n <= writable_bytes(b) THEN [b EXCEPT !.write_index_ = @ + n] ELSE b

has_readall(b) == [b EXCEPT !.read_index_ = 0, !.write_index_ = 0]

has_readed(b, n) ==
    IF n < readable_bytes(b) THEN [b EXCEPT !.read_index_ = @ + n] ELSE has_readall(b)

\* The vector is made longer, unless moving the readable bytes to its front is
\* enough.
make_space(b, n) ==
    IF b.read_index_ + writable_bytes(b) < n
    THEN [b EXCEPT !.buff_ = @ \o Fill(b.write_index_ + n - Len(@))]
    ELSE [buff_ |-> Readable(b) \o SubSeq(b.buff_, readable_bytes(b) + 1, Len(b.buff_)),
          read_index_ |-> 0,
          write_index_ |-> readable_bytes(b)]

ensure_writable(b, n) == IF n > writable_bytes(b) THEN make_space(b, n) ELSE b

\* Data is copied to begin_write(), by write() or by a receive.
Copied(b, data) ==
    [b EXCEPT !.buff_ = SubSeq(@, 1, b.write_index_) \o data
                          \o SubSeq(@, b.write_index_ + Len(data) + 1, Len(@))]

write(b, data) == has_written(Copied(ensure_writable(b, Len(data)), data), Len(data))
=============================================================================
