---------------------------- MODULE TaskExecutor ----------------------------
(***************************************************************************)
(* What a pool of worker threads promises to its user, with no mutex,      *)
(* condition variable or queue operation in sight: an accepted task waits  *)
(* in line, the tasks of an open pool are begun in the order in which they *)
(* were accepted, each of them once, at most one per worker at a time, and *)
(* closing the pool is over only when no worker runs anything.             *)
(***************************************************************************)
EXTENDS Naturals, Sequences

CONSTANT Workers

VARIABLES
    phase,     \* "closed", "open" or "closing"
    line,      \* accepted tasks nobody has begun
    busy,      \* busy[w]: the task worker w runs, 0 for none
    accepted   \* number of tasks accepted so far; the next one is accepted + 1

vars == <<phase, line, busy, accepted>>

Init ==
    /\ phase = "closed"
    /\ line = <<>>
    /\ busy = [w \in Workers |-> 0]
    /\ accepted = 0

Open ==
    /\ phase = "closed"
    /\ phase' = "open"
    /\ line' = <<>>
    /\ UNCHANGED <<busy, accepted>>

Accept ==
    /\ accepted' = accepted + 1
    /\ line' = Append(line, accepted + 1)
    /\ UNCHANGED <<phase, busy>>

Begin(w) ==
    /\ phase = "open"
    /\ line # <<>>
    /\ busy[w] = 0
    /\ busy' = [busy EXCEPT ![w] = Head(line)]
    /\ line' = Tail(line)
    /\ UNCHANGED <<phase, accepted>>

End(w) ==
    /\ busy[w] # 0
    /\ busy' = [busy EXCEPT ![w] = 0]
    /\ UNCHANGED <<phase, line, accepted>>

Close ==
    /\ phase = "open"
    /\ phase' = "closing"
    /\ UNCHANGED <<line, busy, accepted>>

Closed ==
    /\ phase = "closing"
    /\ \A w \in Workers : busy[w] = 0
    /\ phase' = "closed"
    /\ UNCHANGED <<line, busy, accepted>>

Next ==
    \/ Open \/ Accept \/ Close \/ Closed
    \/ \E w \in Workers : Begin(w) \/ End(w)

Spec == Init /\ [][Next]_vars
=============================================================================
