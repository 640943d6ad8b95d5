------------------------------ MODULE OutStream ------------------------------
(***************************************************************************)
(* What a connection promises for the data given to it: while it is open   *)
(* buffers are accepted, and the accepted buffers go out in the order of   *)
(* acceptance, each of them once.  A connection that is shut sends and     *)
(* accepts nothing more, and is never opened again.                        *)
(***************************************************************************)
EXTENDS Naturals, Sequences

VARIABLES
    state,  \* "new", "open" or "shut"
    taken,  \* number of buffers accepted; they are numbered from 1
    out     \* the buffers that went out

vars == <<state, taken, out>>

Init == state = "new" /\ taken = 0 /\ out = <<>>

Open ==
    /\ state = "new" /\ state' = "open"
    /\ UNCHANGED <<taken, out>>

Take ==
    /\ state = "open"
    /\ taken' = taken + 1
    /\ UNCHANGED <<state, out>>

Emit ==
    /\ state = "open"
    /\ Len(out) < taken
    /\ out' = Append(out, Len(out) + 1)
    /\ UNCHANGED <<state, taken>>

Shut ==
    /\ state = "open" /\ state' = "shut"
    /\ UNCHANGED <<taken, out>>

Next == Open \/ Take \/ Emit \/ Shut

Spec == Init /\ [][Next]_vars
=============================================================================
