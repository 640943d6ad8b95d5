---------------------------- MODULE TimerService ----------------------------
(***************************************************************************)
(* What a timer service that counts in ticks promises: a timer armed with  *)
(* i is called at the i-th tick from then, a repeating one every i ticks;  *)
(* a tick is over when every timer that is due was called; a cancelled     *)
(* timer is not called.  There are no slots, rotations or buckets here.    *)
(***************************************************************************)
EXTENDS Integers

CONSTANTS Timers, Periods, NoTimer

VARIABLES
    left,     \* left[t]: ticks until t is due, -1 when t is not armed
    every,    \* every[t]: the period of t, 0 for a one-shot or an unarmed timer
    calling   \* the timer whose task runs, or NoTimer

vars == <<left, every, calling>>

Init ==
    /\ left = [t \in Timers |-> -1]
    /\ every = [t \in Timers |-> 0]
    /\ calling = NoTimer

Arm(t, i) ==
    /\ left[t] = -1
    /\ left' = [left EXCEPT ![t] = i]
    /\ \E e \in {0, i} : every' = [every EXCEPT ![t] = e]
    /\ UNCHANGED calling

Cancel(t) ==
    /\ left[t] >= 0 /\ t # calling
    /\ left' = [left EXCEPT ![t] = -1]
    /\ every' = [every EXCEPT ![t] = 0]
    /\ UNCHANGED calling

Tick ==
    /\ calling = NoTimer
    /\ \A t \in Timers : left[t] # 0
    /\ left' = [t \in Timers |-> IF left[t] = -1 THEN -1 ELSE left[t] - 1]
    /\ UNCHANGED <<every, calling>>

Call(t) ==
    /\ calling = NoTimer
    /\ left[t] = 0
    /\ calling' = t
    /\ UNCHANGED <<left, every>>

Return(t) ==
    /\ calling = t
    /\ left' = [left EXCEPT ![t] = IF every[t] = 0 THEN -1 ELSE every[t]]
    /\ calling' = NoTimer
    /\ UNCHANGED every

Next ==
    \/ Tick
    \/ \E t \in Timers :
         \/ Cancel(t) \/ Call(t) \/ Return(t)
         \/ \E i \in Periods : Arm(t, i)

Spec == Init /\ [][Next]_vars
=============================================================================
