----------------------------- MODULE TimingWheel -----------------------------
(***************************************************************************)
(* code/TimingWheel.cpp, .h: the timer service of an EventLoop.  A wheel   *)
(* of Count_Ticks buckets of Timer*, a hand (cur_slot_) that a one-second  *)
(* steady_timer advances, and timers that are handed over to the loop      *)
(* thread by EventLoop::dispatch().                                        *)
(*                                                                         *)
(* Actors: the loop thread, which runs one handler at a time, and other    *)
(* threads that add and cancel timers.  dispatch() runs its closure at     *)
(* once on the loop thread and queues it from any other.  handle_timeout   *)
(* is a step per bucket element, since the callbacks it makes may add and  *)
(* cancel timers and since other threads allocate timers meanwhile.        *)
(*                                                                         *)
(* A Timer is named by its address, and a freed address can be allocated   *)
(* again.  The fields of memory that holds no timer, and the rotation_ and *)
(* slot_ that the constructor leaves uninitialised, are 0: NoStaleTimer    *)
(* and ScheduledOnce show that they are not read.                          *)
(*                                                                         *)
(* TimingWheel::stop() is private to EventLoop, which never calls it, so   *)
(* the error branch of handle_timeout is not taken.  Time is counted in    *)
(* ticks: the drift of re-arming the steady_timer is not modelled.         *)
(***************************************************************************)
EXTENDS Integers, Sequences, FiniteSets

CONSTANTS
    Addr,         \* the addresses `new Timer' can return
    NoTimer,      \* nullptr
    Count_Ticks,  \* 60 in the code
    Intervals,    \* the intervals users ask for
    MaxTimers     \* bound on num_created_

ASSUME TicksAssumption == Count_Ticks \in Nat /\ Count_Ticks > 1
ASSUME AddrAssumption == NoTimer \notin Addr
\* add_timer() returns a null TimerId for interval 0, with no effect.
ASSUME IntervalsAssumption == Intervals \subseteq Nat \ {0} /\ MaxTimers \in Nat

VARIABLES
    wheel_,        \* array of Count_Ticks buckets
    cur_slot_,     \* the hand
    live,          \* the allocated Timers
    interval_, repeat_, rotation_, slot_, seq_,   \* their fields
    num_created_,  \* Timer::num_created_
    posted,        \* closures queued in the io_context by other threads
    todo,          \* the bucket elements handle_timeout has yet to visit
    running,       \* the timer whose task handle_timeout is calling
    \* History, not part of the program:
    age            \* ticks since the timer was put in the wheel

fields == <<interval_, repeat_, rotation_, slot_, seq_>>
vars == <<wheel_, cur_slot_, live, fields, num_created_, posted, todo, running, age>>

Slots == 0 .. Count_Ticks - 1
InWheel == UNION {wheel_[s] : s \in Slots}

\* The loop thread is between two handlers, or inside a timer's task: there it
\* runs its user's code.
LoopIdle == todo = {} /\ running = NoTimer
OnLoopThread == LoopIdle \/ running # NoTimer

PostedFor(op) == {posted[k].timer : k \in {j \in DOMAIN posted : posted[j].op = op}}

Init ==
    /\ wheel_ = [s \in Slots |-> {}]
    /\ cur_slot_ = 0
    /\ live = {}
    /\ interval_ = [a \in Addr |-> 0] /\ repeat_ = [a \in Addr |-> FALSE]
    /\ rotation_ = [a \in Addr |-> 0] /\ slot_ = [a \in Addr |-> 0]
    /\ seq_ = [a \in Addr |-> 0]
    /\ num_created_ = 0
    /\ posted = <<>>
    /\ todo = {}
    /\ running = NoTimer
    /\ age = [a \in Addr |-> 0]

----------------------------------------------------------------------------
\* Variants, as a slip in the code would leave the operations.
SlotFromZero(i) == i % Count_Ticks

handle_timeout_rotates_at_zero(a) ==
    /\ running = NoTimer
    /\ a \in todo /\ rotation_[a] >= 0
    /\ rotation_' = [rotation_ EXCEPT ![a] = @ - 1]
    /\ todo' = todo \ {a}
    /\ UNCHANGED <<wheel_, cur_slot_, live, interval_, repeat_, slot_, seq_,
                   num_created_, posted, running, age>>

handle_timeout_erases_waiting(a) ==
    /\ running = NoTimer
    /\ a \in todo /\ rotation_[a] > 0
    /\ wheel_' = [wheel_ EXCEPT ![cur_slot_] = @ \ {a}]
    /\ todo' = todo \ {a}
    /\ UNCHANGED <<cur_slot_, live, fields, num_created_, posted, running, age>>

del_timer_loop_no_delete(a) ==
    /\ wheel_' = [wheel_ EXCEPT ![slot_[a]] = @ \ {a}]
    /\ todo' = todo \ {a}
    /\ UNCHANGED <<live, fields, age>>

Placed_without_rotation(a, i) ==
    /\ rotation_' = [rotation_ EXCEPT ![a] = 0]
    /\ slot_' = [slot_ EXCEPT ![a] = (cur_slot_ + i) % Count_Ticks]
    /\ age' = [age EXCEPT ![a] = 0]

handle_timeout_deletes_repeating(a) ==
    /\ running = a /\ repeat_[a]
    /\ live' = live \ {a}
    /\ wheel_' = [wheel_ EXCEPT ![cur_slot_] = @ \ {a}]
    /\ running' = NoTimer
    /\ UNCHANGED <<cur_slot_, fields, num_created_, posted, todo, age>>

----------------------------------------------------------------------------
\* Timer(interval, task, repeat) at address a.
new_Timer(a, i, r) ==
    /\ num_created_ < MaxTimers
    /\ a \notin live
    /\ live' = live \cup {a}
    /\ interval_' = [interval_ EXCEPT ![a] = i]
    /\ repeat_' = [repeat_ EXCEPT ![a] = r]
    /\ seq_' = [seq_ EXCEPT ![a] = num_created_]
    /\ num_created_' = num_created_ + 1

SlotFor(i) == (cur_slot_ + i) % Count_Ticks

\* The fields add_timer_loop() sets and the start of the timer's age; the
\* callers say what becomes of the wheel.
Placed(a, i) ==
    /\ rotation_' = [rotation_ EXCEPT ![a] = i \div Count_Ticks]
    /\ slot_' = [slot_ EXCEPT ![a] = SlotFor(i)]
    /\ age' = [age EXCEPT ![a] = 0]

\* delete of the timer at address a.
delete(a) ==
    /\ live' = live \ {a}
    /\ interval_' = [interval_ EXCEPT ![a] = 0]
    /\ repeat_' = [repeat_ EXCEPT ![a] = FALSE]
    /\ rotation_' = [rotation_ EXCEPT ![a] = 0]
    /\ slot_' = [slot_ EXCEPT ![a] = 0]
    /\ seq_' = [seq_ EXCEPT ![a] = 0]
    /\ age' = [age EXCEPT ![a] = 0]

\* add_timer_loop(): a timer that lands in the bucket handle_timeout is going
\* through is visited by that loop, or not, as the hash table has it.
add_timer_loop(a, i) ==
    /\ Placed(a, i)
    /\ wheel_' = [wheel_ EXCEPT ![SlotFor(i)] = @ \cup {a}]
    /\ \/ todo' = todo
       \/ running # NoTimer /\ SlotFor(i) = cur_slot_ /\ todo' = todo \cup {a}

\* del_timer_loop(): the bucket named by the timer's own slot_ is searched.
del_timer_loop(a) ==
    IF a \in wheel_[slot_[a]]
    THEN /\ wheel_' = [wheel_ EXCEPT ![slot_[a]] = @ \ {a}]
         /\ todo' = todo \ {a}
         /\ delete(a)
    ELSE UNCHANGED <<wheel_, todo, live, fields, age>>

----------------------------------------------------------------------------
\* add_timer() on the loop thread: dispatch() runs add_timer_loop() inline.
add_timer(a, i, r) ==
    /\ OnLoopThread
    /\ new_Timer(a, i, r)
    /\ add_timer_loop(a, i)
    /\ UNCHANGED <<cur_slot_, posted, running>>

\* add_timer() on another thread: the closure is queued.
add_timer_posted(a, i, r) ==
    /\ new_Timer(a, i, r)
    /\ posted' = Append(posted, [op |-> "add", timer |-> a, seq |-> num_created_])
    /\ UNCHANGED <<wheel_, cur_slot_, rotation_, slot_, todo, running, age>>

\* del_timer() on the loop thread, of a timer that is in the wheel, is not the
\* one whose task makes the call, and was not cancelled already.
del_timer(a) ==
    /\ OnLoopThread
    /\ a \in InWheel /\ a # running /\ a \notin PostedFor("del")
    /\ del_timer_loop(a)
    /\ UNCHANGED <<cur_slot_, num_created_, posted, running>>

\* del_timer() on another thread.  A one-shot timer may fire before the closure
\* runs, so only a repeating one can be cancelled this way, and once.
del_timer_posted(a) ==
    /\ a \in live /\ repeat_[a] /\ a \notin PostedFor("del")
    /\ posted' = Append(posted, [op |-> "del", timer |-> a, seq |-> seq_[a]])
    /\ UNCHANGED <<wheel_, cur_slot_, live, fields, num_created_, todo, running, age>>

\* The loop thread takes the next queued closure.
RunAdd ==
    /\ LoopIdle
    /\ posted # <<>> /\ Head(posted).op = "add"
    /\ posted' = Tail(posted)
    /\ LET a == Head(posted).timer IN add_timer_loop(a, interval_[a])
    /\ UNCHANGED <<cur_slot_, live, interval_, repeat_, seq_, num_created_, running>>

RunDel ==
    /\ LoopIdle
    /\ posted # <<>> /\ Head(posted).op = "del"
    /\ posted' = Tail(posted)
    /\ del_timer_loop(Head(posted).timer)
    /\ UNCHANGED <<cur_slot_, num_created_, running>>

----------------------------------------------------------------------------
NextSlot == (cur_slot_ + 1) % Count_Ticks

\* handle_timeout(), up to the loop: the steady_timer is armed again and the
\* hand moves on.
handle_timeout ==
    /\ LoopIdle
    /\ cur_slot_' = NextSlot
    /\ todo' = wheel_[NextSlot]
    /\ age' = [a \in Addr |-> IF a \in InWheel THEN age[a] + 1 ELSE age[a]]
    /\ UNCHANGED <<wheel_, live, fields, num_created_, posted, running>>

\* A round of the loop: the timer is not due in this turn of the wheel.
handle_timeout_rotate(a) ==
    /\ running = NoTimer
    /\ a \in todo /\ rotation_[a] > 0
    /\ rotation_' = [rotation_ EXCEPT ![a] = @ - 1]
    /\ todo' = todo \ {a}
    /\ UNCHANGED <<wheel_, cur_slot_, live, interval_, repeat_, slot_, seq_,
                   num_created_, posted, running, age>>

\* A round of the loop: the timer is due and its task is called.
handle_timeout_call(a) ==
    /\ running = NoTimer
    /\ a \in todo /\ rotation_[a] = 0
    /\ running' = a
    /\ todo' = todo \ {a}
    /\ UNCHANGED <<wheel_, cur_slot_, live, fields, num_created_, posted, age>>

\* The task returned: a repeating timer is put in the wheel once more, then the
\* element is erased from the current bucket.
handle_timeout_repeat(a) ==
    /\ running = a /\ repeat_[a]
    /\ Placed(a, interval_[a])
    /\ LET inserted == [wheel_ EXCEPT ![SlotFor(interval_[a])] = @ \cup {a}]
       IN  wheel_' = [inserted EXCEPT ![cur_slot_] = @ \ {a}]
    /\ running' = NoTimer
    /\ UNCHANGED <<cur_slot_, live, interval_, repeat_, seq_, num_created_, posted, todo>>

\* The task returned: a one-shot timer is deleted.
handle_timeout_delete(a) ==
    /\ running = a /\ ~repeat_[a]
    /\ delete(a)
    /\ wheel_' = [wheel_ EXCEPT ![cur_slot_] = @ \ {a}]
    /\ running' = NoTimer
    /\ UNCHANGED <<cur_slot_, num_created_, posted, todo>>

----------------------------------------------------------------------------
Users ==
    \E a \in Addr :
        \/ \E i \in Intervals, r \in BOOLEAN :
             add_timer(a, i, r) \/ add_timer_posted(a, i, r)
        \/ del_timer(a)
        \/ del_timer_posted(a)

Loop ==
    \/ RunAdd
    \/ RunDel
    \/ handle_timeout
    \/ \E a \in Addr :
         \/ handle_timeout_rotate(a) \/ handle_timeout_call(a)
         \/ handle_timeout_repeat(a) \/ handle_timeout_delete(a)

Next == Users \/ Loop

\* The io_context takes its handlers (queued closures, the expiry of the
\* steady_timer) in the order in which they became ready, so none of them is
\* passed over for ever, and a task returns.
Fairness ==
    /\ SF_vars(RunAdd \/ RunDel)
    /\ SF_vars(handle_timeout)
    /\ WF_vars(\E a \in Addr : \/ handle_timeout_rotate(a) \/ handle_timeout_call(a)
                               \/ handle_timeout_repeat(a) \/ handle_timeout_delete(a))

Spec == Init /\ [][Next]_vars
FairSpec == Spec /\ Fairness

----------------------------------------------------------------------------
TypeOK ==
    /\ wheel_ \in [Slots -> SUBSET Addr]
    /\ cur_slot_ \in Slots
    /\ live \subseteq Addr
    /\ interval_ \in [Addr -> Intervals \cup {0}]
    /\ repeat_ \in [Addr -> BOOLEAN]
    /\ rotation_ \in [Addr -> Nat]
    /\ slot_ \in [Addr -> Slots]
    /\ seq_ \in [Addr -> Nat]
    /\ num_created_ \in Nat
    /\ posted \in Seq([op : {"add", "del"}, timer : Addr, seq : Nat])
    /\ todo \subseteq Addr
    /\ running \in Addr \cup {NoTimer}
    /\ age \in [Addr -> Nat]

\* An allocated timer is either on its way to the loop thread, once, or in one
\* bucket, the one its slot_ names; and the wheel holds no freed timer.  So no
\* timer is lost or leaked, del_timer_loop() finds it, and handle_timeout reads
\* allocated memory only.
ScheduledOnce ==
    /\ live = InWheel \cup PostedFor("add")
    /\ InWheel \cap PostedFor("add") = {}
    /\ \A j, k \in DOMAIN posted :
         posted[j].op = posted[k].op /\ posted[j].timer = posted[k].timer => j = k
    /\ \A s \in Slots : \A a \in wheel_[s] : slot_[a] = s

\* A queued cancellation still refers to the timer it was made for: the memory
\* was neither freed nor given to another timer, although nothing compares
\* seq_.  And handle_timeout comes back from a task to an allocated timer.
NoStaleTimer ==
    /\ \A k \in DOMAIN posted :
         posted[k].timer \in live /\ seq_[posted[k].timer] = posted[k].seq
    /\ running # NoTimer => running \in live

\* A task is called when as many ticks passed as its interval says, since
\* add_timer() for the first call and since the last call for a repeating one.
OnTime == running # NoTimer => age[running] = interval_[running]

\* The exception to OnTime: an interval of whole turns of the wheel gives the
\* bucket under the hand, and rotation_ counts one visit too many.  The call is
\* then a turn late, unless the loop that was going through that bucket visited
\* the new timer at once; it is never off by anything else.
LateByOneTurn ==
    running # NoTimer =>
        \/ age[running] = interval_[running]
        \/ /\ interval_[running] % Count_Ticks = 0
           /\ age[running] = interval_[running] + Count_Ticks

\* A timer that is allocated but neither in the wheel nor on its way there is
\* lost: it is not called, not cancelled and not freed any more.  It happens to a
\* repeating timer with an interval of whole turns, which handle_timeout inserts
\* in the bucket under the hand and then erases from it, and to no other.
LostOnlyOnWholeTurns ==
    \A a \in live \ (InWheel \cup PostedFor("add")) :
        repeat_[a] /\ interval_[a] % Count_Ticks = 0

\* Every timer that add_timer() accepted is called, unless it is cancelled.
EveryTimerFires ==
    \A k \in 0 .. MaxTimers - 1 :
        (\E a \in live : seq_[a] = k)
            ~> \/ running # NoTimer /\ seq_[running] = k
               \/ \A a \in live : seq_[a] # k

----------------------------------------------------------------------------
\* Ticks until the hand visits timer a again: 0 for the timers of the current
\* bucket that handle_timeout is busy with or has yet to visit.
Distance(a) ==
    IF a \in todo \cup {running} THEN 0
    ELSE IF slot_[a] > cur_slot_ THEN slot_[a] - cur_slot_
                                ELSE slot_[a] + Count_Ticks - cur_slot_

Left(a) == Distance(a) + Count_Ticks * rotation_[a]

Service == INSTANCE TimerService WITH
    Timers  <- Addr,
    Periods <- Intervals,
    left    <- [a \in Addr |-> IF a \in InWheel THEN Left(a) ELSE -1],
    every   <- [a \in Addr |-> IF a \in InWheel /\ repeat_[a] THEN interval_[a] ELSE 0],
    calling <- running

\* Hashed into slots and rotations, the timers still count down by one a tick:
\* the wheel implements TimerService.
ImplementsService == Service!Spec
=============================================================================
