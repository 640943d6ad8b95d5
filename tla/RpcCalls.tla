------------------------------ MODULE RpcCalls ------------------------------
(***************************************************************************)
(* What remote calls promise: the closure of a call is run at most once,   *)
(* and with the answer to that call: its result, nothing, or a failure.    *)
(***************************************************************************)
CONSTANTS Calls, Empty, Failed

VARIABLES
    asked,   \* the calls that were made
    answers  \* answers[c]: what the closures of the calls found

Init == asked = {} /\ answers = [c \in Calls |-> <<>>]

Ask(c) ==
    /\ c \notin asked
    /\ asked' = asked \cup {c}
    /\ UNCHANGED answers

Answer(c, a) ==
    /\ c \in asked /\ answers[c] = <<>>
    /\ answers' = [answers EXCEPT ![c] = <<a>>]
    /\ UNCHANGED asked

Next == \E c \in Calls : Ask(c) \/ \E a \in {c, Empty, Failed} : Answer(c, a)

Spec == Init /\ [][Next]_<<asked, answers>>
=============================================================================
