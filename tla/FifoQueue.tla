------------------------------ MODULE FifoQueue ------------------------------
(***************************************************************************)
(* What a concurrent queue promises: items come out in the order in which  *)
(* they went in, each once.                                                *)
(***************************************************************************)
EXTENDS Sequences

CONSTANT Values

VARIABLES
    items,  \* in the queue, oldest first
    taken   \* everything that came out, in order

Init == items = <<>> /\ taken = <<>>

Put(v) == items' = Append(items, v) /\ UNCHANGED taken

Take ==
    /\ items # <<>>
    /\ items' = Tail(items)
    /\ taken' = Append(taken, Head(items))

Next == Take \/ \E v \in Values : Put(v)

Spec == Init /\ [][Next]_<<items, taken>>
=============================================================================
