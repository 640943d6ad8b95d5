-------------------------- MODULE TimingWheelProofs --------------------------
(***************************************************************************)
(* Proofs about TimingWheel, for every number of ticks to a turn, every    *)
(* set of addresses and every set of intervals.  Three results are for the *)
(* intervals none of which is a multiple of a turn (NoWholeTurn): for a    *)
(* multiple OnTime does not hold, and a repeating timer leaves the wheel.  *)
(*                                                                         *)
(* The heart is TimeInv: the ticks a timer has seen and the ticks that its *)
(* slot and its rotations still stand for add up to its interval, or to a  *)
(* turn more if it is a multiple of a turn.  It needs to know where a      *)
(* timer can be (PlaceInv), what handle_timeout is about to visit          *)
(* (HandInv), and that nothing on its way to the loop thread refers to     *)
(* freed memory (NoStaleTimer, PostInv).                                   *)
(***************************************************************************)
EXTENDS TimingWheel, SequenceTheorems, TLAPS

NoWholeTurn == \A i \in Intervals : i % Count_Ticks # 0

\* Where a timer can be: what ScheduledOnce says, but that a repeating timer with
\* an interval of whole turns may be allocated and nowhere.
PlaceInv ==
    /\ InWheel \cup PostedFor("add") \subseteq live
    /\ LostOnlyOnWholeTurns
    /\ InWheel \cap PostedFor("add") = {}
    /\ \A j, k \in DOMAIN posted :
         posted[j].op = posted[k].op /\ posted[j].timer = posted[k].timer => j = k
    /\ \A s \in Slots : \A a \in wheel_[s] : slot_[a] = s

HandInv ==
    /\ todo \subseteq wheel_[cur_slot_]
    /\ running # NoTimer =>
         running \in wheel_[cur_slot_] /\ running \notin todo /\ rotation_[running] = 0

PostInv ==
    /\ \A k \in DOMAIN posted : posted[k].op = "del" => repeat_[posted[k].timer]
    /\ \A a \in live : interval_[a] \in Intervals

Due(a) ==
    \/ age[a] + Left(a) = interval_[a]
    \/ /\ interval_[a] % Count_Ticks = 0
       /\ age[a] + Left(a) = interval_[a] + Count_Ticks

TimeInv == \A a \in InWheel : Due(a)

Inv == TypeOK /\ PlaceInv /\ NoStaleTimer /\ HandInv /\ PostInv /\ TimeInv

----------------------------------------------------------------------------
(***************************************************************************)
(* Arithmetic of slots.                                                    *)
(***************************************************************************)
LEMMA DivMod ==
    ASSUME NEW n \in Nat \ {0}, NEW i \in Nat
    PROVE  /\ i = n * (i \div n) + (i % n)
           /\ i % n \in 0..(n - 1) /\ i \div n \in Nat
  OBVIOUS

LEMMA ModUnique ==
    ASSUME NEW n \in Nat \ {0}, NEW q \in Nat, NEW r \in 0..(n - 1)
    PROVE  (n * q + r) % n = r
<1> DEFINE x == n * q + r
<1> DEFINE p == x \div n
<1>1. x \in Nat
  <2>1. n * q \in Nat
    OBVIOUS
  <2> QED
    BY <2>1
<1>2. x = n * p + (x % n) /\ x % n \in 0..(n - 1) /\ p \in Nat
  BY <1>1, DivMod
<1>3. x % n \in Int /\ x = n * q + r
  BY <1>2
<1>4. n * (p - q) = r - (x % n)
  BY <1>2, <1>3
<1>5. n * (p - q) > -n /\ n * (p - q) < n
  BY <1>2, <1>4
<1>6. p = q
  <2>1. CASE p - q >= 1
    <3>1. n * (p - q) >= n
      BY <1>2, <2>1
    <3> QED
      BY <1>5, <3>1
  <2>2. CASE p - q <= -1
    <3>1. n * (p - q) <= -n
      BY <1>2, <2>2
    <3> QED
      BY <1>5, <3>1
  <2> QED
    BY <1>2, <2>1, <2>2
<1> QED
  BY <1>2, <1>3, <1>6

\* Ticks from the hand at c to slot s, a full turn if they are the same.
Turn(s, c) == IF s > c THEN s - c ELSE s + Count_Ticks - c

\* A timer whose interval is not a multiple of a turn is put in another slot
\* than the one under the hand, and slot and rotation stand for its interval.
LEMMA Placement ==
    ASSUME NEW c \in Slots, NEW i \in Nat, i % Count_Ticks # 0
    PROVE  /\ (c + i) % Count_Ticks \in Slots
           /\ (c + i) % Count_Ticks # c
           /\ i \div Count_Ticks \in Nat
           /\ Turn((c + i) % Count_Ticks, c) + Count_Ticks * (i \div Count_Ticks) = i
<1> DEFINE n == Count_Ticks
<1> DEFINE q == i \div n
<1> DEFINE r == i % n
<1>0. n \in Nat \ {0} /\ n > 1 /\ c \in 0..(n - 1)
  BY TicksAssumption DEF Slots
<1>1. i = n * q + r /\ r \in 0..(n - 1) /\ q \in Nat /\ r # 0
  BY <1>0, DivMod
<1> HIDE DEF n, q, r
<1>2. n * q \in Nat
  BY <1>0, <1>1
<1>3. CASE c + r < n
  <2>1. c + r \in 0..(n - 1) /\ c + i = n * q + (c + r)
    BY <1>0, <1>1, <1>2, <1>3
  <2>2. (c + i) % n = c + r
    BY <1>0, <1>1, <2>1, ModUnique
  <2> QED
    BY <1>0, <1>1, <1>2, <2>1, <2>2 DEF Turn, Slots, n, q
<1>4. CASE c + r >= n
  <2>1. c + r - n \in 0..(n - 1) /\ q + 1 \in Nat
    BY <1>0, <1>1, <1>4
  <2>2. n * (q + 1) = n * q + n
    BY <1>0, <1>1
  <2>3. c + i = n * (q + 1) + (c + r - n)
    BY <1>0, <1>1, <1>2, <2>2
  <2>4. (c + i) % n = c + r - n
    BY <1>0, <2>1, <2>3, ModUnique
  <2> QED
    BY <1>0, <1>1, <1>2, <1>4, <2>1, <2>4 DEF Turn, Slots, n, q
<1> QED
  BY <1>0, <1>1, <1>3, <1>4

\* A multiple of a turn leads back to the slot under the hand.
LEMMA PlacementWhole ==
    ASSUME NEW c \in Slots, NEW i \in Nat, i % Count_Ticks = 0
    PROVE  /\ (c + i) % Count_Ticks = c
           /\ i \div Count_Ticks \in Nat
           /\ Count_Ticks * (i \div Count_Ticks) = i
<1> DEFINE n == Count_Ticks
<1> DEFINE q == i \div n
<1>0. n \in Nat \ {0} /\ c \in 0..(n - 1)
  BY TicksAssumption DEF Slots
<1>1. i = n * q + (i % n) /\ q \in Nat
  BY <1>0, DivMod
<1> HIDE DEF q
<1>2. i = n * q
  BY <1>0, <1>1
<1>3. c + i = n * q + c
  BY <1>0, <1>1, <1>2
<1>4. (c + i) % n = c
  BY <1>0, <1>1, <1>3, ModUnique
<1> QED
  BY <1>1, <1>2, <1>4 DEF q

\* The hand moves to the next slot, or from the last to the first.
LEMMA NextHand ==
    ASSUME NEW c \in Slots
    PROVE  /\ (c + 1) % Count_Ticks \in Slots
           /\ (c + 1) % Count_Ticks = IF c = Count_Ticks - 1 THEN 0 ELSE c + 1
<1>0. Count_Ticks \in Nat \ {0} /\ c \in 0..(Count_Ticks - 1)
  BY TicksAssumption DEF Slots
<1>1. CASE c = Count_Ticks - 1
  <2>1. (Count_Ticks * 1 + 0) % Count_Ticks = 0
    BY <1>0, ModUnique
  <2> QED
    BY <1>0, <1>1, <2>1 DEF Slots
<1>2. CASE c # Count_Ticks - 1
  <2>1. c + 1 \in 0..(Count_Ticks - 1)
    BY <1>0, <1>2
  <2>2. (Count_Ticks * 0 + (c + 1)) % Count_Ticks = c + 1
    BY <1>0, <2>1, ModUnique
  <2> QED
    BY <1>0, <1>2, <2>1, <2>2 DEF Slots
<1> QED
  BY <1>1, <1>2

\* Every other slot comes nearer by one tick.
LEMMA TurnStep ==
    ASSUME NEW c \in Slots, NEW s \in Slots, NEW d, d = (c + 1) % Count_Ticks
    PROVE  /\ s = d => Turn(s, c) = 1
           /\ s # d => Turn(s, d) = Turn(s, c) - 1
<1>0. Count_Ticks \in Nat /\ Count_Ticks > 1 /\ c \in 0..(Count_Ticks - 1) /\ s \in 0..(Count_Ticks - 1)
  BY TicksAssumption DEF Slots
<1>1. d = IF c = Count_Ticks - 1 THEN 0 ELSE c + 1
  BY NextHand
<1> QED
  BY <1>0, <1>1 DEF Turn

----------------------------------------------------------------------------
(***************************************************************************)
(* The wheel as a set of buckets, and the queue of closures.               *)
(***************************************************************************)
Closures == [op : {"add", "del"}, timer : Addr, seq : Nat]

LEMMA InWheelMember == \A a : a \in InWheel <=> \E t \in Slots : a \in wheel_[t]
  BY DEF InWheel

LEMMA InWheelMemberNext == \A a : a \in InWheel' <=> \E t \in Slots : a \in wheel_'[t]
  BY DEF InWheel

\* A timer of the wheel is in the bucket its slot_ names, and in no other.
LEMMA WheelFacts ==
    ASSUME Inv, NEW a \in InWheel
    PROVE  /\ a \in Addr /\ a \in live /\ a # NoTimer
           /\ slot_[a] \in Slots /\ a \in wheel_[slot_[a]]
           /\ \A t \in Slots : a \in wheel_[t] => t = slot_[a]
           /\ a \notin PostedFor("add")
<1>1. PICK t \in Slots : a \in wheel_[t]
  BY InWheelMember
<1>2. a \in Addr /\ a \in live /\ a \notin PostedFor("add") /\ slot_[a] \in Slots
  BY <1>1 DEF Inv, TypeOK, PlaceInv
<1>3. \A u \in Slots : a \in wheel_[u] => u = slot_[a]
  BY DEF Inv, PlaceInv
<1> QED
  BY <1>1, <1>2, <1>3, AddrAssumption

LEMMA Inserted ==
    ASSUME TypeOK, NEW t \in Slots, NEW a \in Addr,
           wheel_' = [wheel_ EXCEPT ![t] = @ \cup {a}]
    PROVE  /\ wheel_' \in [Slots -> SUBSET Addr]
           /\ InWheel' = InWheel \cup {a}
           /\ \A u \in Slots, b \in Addr :
                b \in wheel_'[u] <=> b \in wheel_[u] \/ (b = a /\ u = t)
<1>1. wheel_' \in [Slots -> SUBSET Addr]
  BY DEF TypeOK
<1>2. \A u \in Slots : wheel_'[u] = IF u = t THEN wheel_[u] \cup {a} ELSE wheel_[u]
  BY DEF TypeOK
<1>3. \A b : b \in InWheel' <=> b \in InWheel \/ b = a
  BY <1>2, InWheelMember, InWheelMemberNext
<1> QED
  BY <1>1, <1>2, <1>3

LEMMA Erased ==
    ASSUME Inv, NEW a \in InWheel, NEW t, t = slot_[a],
           wheel_' = [wheel_ EXCEPT ![t] = @ \ {a}]
    PROVE  /\ wheel_' \in [Slots -> SUBSET Addr]
           /\ InWheel' = InWheel \ {a}
           /\ \A u \in Slots, b \in Addr :
                b \in wheel_'[u] <=> b \in wheel_[u] /\ b # a
<1>0. t \in Slots /\ \A u \in Slots : a \in wheel_[u] => u = t
  BY WheelFacts
<1>1. wheel_' \in [Slots -> SUBSET Addr]
  BY DEF Inv, TypeOK
<1>2. \A u \in Slots : wheel_'[u] = wheel_[u] \ {a}
  <2> SUFFICES ASSUME NEW u \in Slots
               PROVE  wheel_'[u] = wheel_[u] \ {a}
    OBVIOUS
  <2>1. CASE u = t
    BY <1>0, <2>1 DEF Inv, TypeOK
  <2>2. CASE u # t
    <3>1. wheel_'[u] = wheel_[u] /\ a \notin wheel_[u]
      BY <1>0, <2>2 DEF Inv, TypeOK
    <3> QED
      BY <3>1
  <2> QED
    BY <2>1, <2>2
<1>3. \A b : b \in InWheel' <=> b \in InWheel /\ b # a
  BY <1>2, InWheelMember, InWheelMemberNext
<1> QED
  BY <1>1, <1>2, <1>3

LEMMA PostAppend ==
    ASSUME NEW q \in Seq(Closures), NEW e \in Closures, NEW r, r = Append(q, e)
    PROVE  /\ r \in Seq(Closures)
           /\ DOMAIN r = DOMAIN q \cup {Len(q) + 1} /\ Len(q) + 1 \notin DOMAIN q
           /\ \A k \in DOMAIN q : r[k] = q[k]
           /\ r[Len(q) + 1] = e
<1>1. /\ r \in Seq(Closures) /\ Len(r) = Len(q) + 1 /\ Len(q) \in Nat
      /\ DOMAIN q = 1..Len(q) /\ DOMAIN r = 1..(Len(q) + 1)
  OBVIOUS
<1>2. /\ \A k \in 1..Len(q) : r[k] = q[k]
      /\ r[Len(q) + 1] = e
  OBVIOUS
<1> QED
  BY <1>1, <1>2

LEMMA PostTail ==
    ASSUME NEW q \in Seq(Closures), q # <<>>, NEW r, r = Tail(q)
    PROVE  /\ r \in Seq(Closures)
           /\ 1 \in DOMAIN q /\ Head(q) = q[1] /\ q[1] \in Closures
           /\ \A k \in DOMAIN r : k + 1 \in DOMAIN q /\ k + 1 # 1 /\ r[k] = q[k + 1] /\ k \in Nat
           /\ \A k \in DOMAIN q : k # 1 => k - 1 \in DOMAIN r /\ r[k - 1] = q[k]
<1>1. /\ r \in Seq(Closures) /\ Len(r) = Len(q) - 1 /\ Len(q) \in Nat /\ Len(q) > 0
      /\ DOMAIN q = 1..Len(q) /\ DOMAIN r = 1..(Len(q) - 1)
      /\ Head(q) = q[1] /\ q[1] \in Closures
  OBVIOUS
<1>2. \A k \in 1..(Len(q) - 1) : r[k] = q[k + 1]
  OBVIOUS
<1> QED
  BY <1>1, <1>2

LEMMA PostedMember ==
    \A op, a : a \in PostedFor(op) <=> \E k \in DOMAIN posted : posted[k].op = op /\ posted[k].timer = a
  BY DEF PostedFor

LEMMA PostedMemberNext ==
    \A op, a : a \in PostedFor(op)' <=> \E k \in DOMAIN posted' : posted'[k].op = op /\ posted'[k].timer = a
  BY DEF PostedFor

LEMMA PostedOps ==
    ASSUME TypeOK
    PROVE  \A k \in DOMAIN posted : posted[k].op \in {"add", "del"}
<1>1. posted \in Seq(Closures)
  BY DEF TypeOK, Closures
<1>2. \A k \in 1..Len(posted) : posted[k] \in Closures
  BY <1>1, ElementOfSeq
<1> QED
  BY <1>1, <1>2 DEF Closures

\* At most one closure of a kind is queued for a timer.
Unique ==
    \A j, k \in DOMAIN posted :
        posted[j].op = posted[k].op /\ posted[j].timer = posted[k].timer => j = k

LEMMA PostedTail ==
    ASSUME Inv, posted # <<>>, posted' = Tail(posted),
           NEW o, o = Head(posted).op, NEW a, a = Head(posted).timer
    PROVE  /\ posted' \in Seq(Closures)
           /\ a \in Addr /\ a \in live /\ a \in PostedFor(o)
           /\ PostedFor(o)' = PostedFor(o) \ {a}
           /\ \A p : p # o => PostedFor(p)' = PostedFor(p)
           /\ Unique'
           /\ \A k \in DOMAIN posted' : \E j \in DOMAIN posted :
                posted'[k] = posted[j] /\ (posted[j].op = o => posted[j].timer # a)
<1>0. posted \in Seq(Closures) /\ Unique
  BY DEF Inv, TypeOK, PlaceInv, Closures, Unique
<1>1. /\ posted' \in Seq(Closures)
      /\ 1 \in DOMAIN posted /\ o = posted[1].op /\ a = posted[1].timer /\ posted[1] \in Closures
      /\ \A k \in DOMAIN posted' : /\ k + 1 \in DOMAIN posted /\ k + 1 # 1
                                   /\ posted'[k] = posted[k + 1] /\ k \in Nat
      /\ \A k \in DOMAIN posted : k # 1 => k - 1 \in DOMAIN posted' /\ posted'[k - 1] = posted[k]
  BY <1>0, PostTail
<1>2. a \in Addr /\ a \in live
  BY <1>1 DEF Closures, Inv, NoStaleTimer
<1>3. a \in PostedFor(o)
  BY <1>1, PostedMember
<1>4. \A k \in DOMAIN posted' : \E j \in DOMAIN posted :
         posted'[k] = posted[j] /\ (posted[j].op = o => posted[j].timer # a)
  BY <1>0, <1>1 DEF Unique
<1>5. \A k \in DOMAIN posted : posted[k].op = o /\ posted[k].timer # a => k # 1
  BY <1>1
<1>6. \A b : b \in PostedFor(o)' <=> b \in PostedFor(o) /\ b # a
  <2>1. ASSUME NEW b, b \in PostedFor(o)'
        PROVE  b \in PostedFor(o) /\ b # a
    BY <1>4, <2>1, PostedMember, PostedMemberNext
  <2>2. ASSUME NEW b, b \in PostedFor(o), b # a
        PROVE  b \in PostedFor(o)'
    <3>1. PICK k \in DOMAIN posted : posted[k].op = o /\ posted[k].timer = b
      BY <2>2, PostedMember
    <3>2. k - 1 \in DOMAIN posted' /\ posted'[k - 1] = posted[k]
      BY <1>1, <1>5, <2>2, <3>1
    <3> QED
      BY <3>1, <3>2, PostedMemberNext
  <2> QED
    BY <2>1, <2>2
<1>7. ASSUME NEW p, p # o
      PROVE  PostedFor(p)' = PostedFor(p)
  <2>1. \A b : b \in PostedFor(p)' => b \in PostedFor(p)
    BY <1>4, PostedMember, PostedMemberNext
  <2>2. ASSUME NEW b, b \in PostedFor(p)
        PROVE  b \in PostedFor(p)'
    <3>1. PICK k \in DOMAIN posted : posted[k].op = p /\ posted[k].timer = b
      BY <2>2, PostedMember
    <3>2. k - 1 \in DOMAIN posted' /\ posted'[k - 1] = posted[k]
      BY <1>1, <1>7, <3>1
    <3> QED
      BY <3>1, <3>2, PostedMemberNext
  <2> QED
    BY <2>1, <2>2
<1>8. Unique'
  <2> SUFFICES ASSUME NEW j \in DOMAIN posted', NEW k \in DOMAIN posted',
                      posted'[j].op = posted'[k].op, posted'[j].timer = posted'[k].timer
               PROVE  j = k
    BY DEF Unique
  <2>1. j + 1 = k + 1
    BY <1>0, <1>1 DEF Unique
  <2> QED
    BY <1>1, <2>1
<1> QED
  BY <1>1, <1>2, <1>3, <1>4, <1>6, <1>7, <1>8

LEMMA PostedAppend ==
    ASSUME Inv, NEW e \in Closures, posted' = Append(posted, e),
           e.timer \notin PostedFor(e.op)
    PROVE  /\ posted' \in Seq(Closures)
           /\ PostedFor(e.op)' = PostedFor(e.op) \cup {e.timer}
           /\ \A p : p # e.op => PostedFor(p)' = PostedFor(p)
           /\ Unique'
           /\ \A k \in DOMAIN posted' :
                posted'[k] = e \/ \E j \in DOMAIN posted : posted'[k] = posted[j]
<1>0. posted \in Seq(Closures) /\ Unique
  BY DEF Inv, TypeOK, PlaceInv, Closures, Unique
<1> DEFINE n == Len(posted) + 1
<1>1. /\ posted' \in Seq(Closures)
      /\ DOMAIN posted' = DOMAIN posted \cup {n} /\ n \notin DOMAIN posted
      /\ \A k \in DOMAIN posted : posted'[k] = posted[k]
      /\ posted'[n] = e
  BY <1>0, PostAppend
<1> HIDE DEF n
<1>2. \A b : b \in PostedFor(e.op)' <=> b \in PostedFor(e.op) \/ b = e.timer
  BY <1>1, PostedMember, PostedMemberNext
<1>3. ASSUME NEW p, p # e.op
      PROVE  PostedFor(p)' = PostedFor(p)
  <2>1. \A b : b \in PostedFor(p)' <=> b \in PostedFor(p)
    BY <1>1, <1>3, PostedMember, PostedMemberNext
  <2> QED
    BY <2>1
<1>4. \A k \in DOMAIN posted : ~(posted[k].op = e.op /\ posted[k].timer = e.timer)
  BY PostedMember
<1>5. Unique'
  BY <1>0, <1>1, <1>4 DEF Unique
<1>6. \A k \in DOMAIN posted' :
         posted'[k] = e \/ \E j \in DOMAIN posted : posted'[k] = posted[j]
  BY <1>1
<1>7. \A p : p # e.op => PostedFor(p)' = PostedFor(p)
  BY <1>3
<1>8. PostedFor(e.op)' = PostedFor(e.op) \cup {e.timer}
  BY <1>2
<1> QED
  BY <1>1, <1>5, <1>6, <1>7, <1>8

\* The ticks left of a timer depend on its slot_ and rotation_, on the hand and
\* on whether handle_timeout is about to visit it.
LEMMA LeftIs ==
    \A b : Left(b) = (IF b \in todo \cup {running} THEN 0 ELSE Turn(slot_[b], cur_slot_))
                     + Count_Ticks * rotation_[b]
  BY DEF Left, Distance, Turn

LEMMA LeftSame ==
    ASSUME NEW b, cur_slot_' = cur_slot_, slot_'[b] = slot_[b], rotation_'[b] = rotation_[b],
           b \in todo' \cup {running'} <=> b \in todo \cup {running}
    PROVE  Left(b)' = Left(b)
  BY DEF Left, Distance

----------------------------------------------------------------------------
(***************************************************************************)
(* A timer is put in the wheel: inline by add_timer, or by a closure.      *)
(***************************************************************************)
LEMMA SlotForOther ==
    ASSUME TypeOK, NEW i \in Intervals, i % Count_Ticks # 0
    PROVE  /\ SlotFor(i) \in Slots /\ SlotFor(i) # cur_slot_
           /\ i \div Count_Ticks \in Nat
           /\ Turn(SlotFor(i), cur_slot_) + Count_Ticks * (i \div Count_Ticks) = i
  BY Placement, IntervalsAssumption DEF TypeOK, SlotFor

LEMMA SlotForWhole ==
    ASSUME TypeOK, NEW i \in Intervals, i % Count_Ticks = 0
    PROVE  /\ SlotFor(i) = cur_slot_
           /\ i \div Count_Ticks \in Nat
           /\ Count_Ticks * (i \div Count_Ticks) = i
           /\ Turn(SlotFor(i), cur_slot_) = Count_Ticks
<1>1. SlotFor(i) = cur_slot_ /\ i \div Count_Ticks \in Nat /\ Count_Ticks * (i \div Count_Ticks) = i
  BY PlacementWhole, IntervalsAssumption DEF TypeOK, SlotFor
<1>2. cur_slot_ \in Int /\ Count_Ticks \in Nat
  BY TicksAssumption DEF TypeOK, Slots
<1> QED
  BY <1>1, <1>2 DEF Turn

\* Slot and rotation of a timer that is put in the wheel stand for its interval;
\* for whole turns, if it is not visited at once, for a turn more.
LEMMA SlotForAny ==
    ASSUME TypeOK, NEW i \in Intervals
    PROVE  /\ SlotFor(i) \in Slots /\ i \div Count_Ticks \in Nat /\ i \in Nat
           /\ i % Count_Ticks # 0 =>
                /\ SlotFor(i) # cur_slot_
                /\ Turn(SlotFor(i), cur_slot_) + Count_Ticks * (i \div Count_Ticks) = i
           /\ i % Count_Ticks = 0 =>
                /\ SlotFor(i) = cur_slot_
                /\ Count_Ticks * (i \div Count_Ticks) = i
                /\ Turn(SlotFor(i), cur_slot_) = Count_Ticks
<1>1. i \in Nat /\ cur_slot_ \in Slots
  BY IntervalsAssumption DEF TypeOK
<1>2. CASE i % Count_Ticks # 0
  BY <1>1, <1>2, SlotForOther
<1>3. CASE i % Count_Ticks = 0
  BY <1>1, <1>3, SlotForWhole
<1> QED
  BY <1>2, <1>3

LEMMA PutInWheel ==
    ASSUME Inv, NEW a \in Addr, NEW i \in Intervals,
           a \notin InWheel, add_timer_loop(a, i), interval_'[a] = i,
           cur_slot_' = cur_slot_, running' = running,
           \A b \in Addr \ {a} : interval_'[b] = interval_[b]
    PROVE  /\ wheel_' \in [Slots -> SUBSET Addr] /\ InWheel' = InWheel \cup {a}
           /\ rotation_' \in [Addr -> Nat] /\ slot_' \in [Addr -> Slots]
           /\ age' \in [Addr -> Nat] /\ todo' \subseteq Addr
           /\ \A t \in Slots : \A b \in wheel_'[t] : slot_'[b] = t
           /\ HandInv' /\ TimeInv'
<1>0. TypeOK
  BY DEF Inv
<1>1. /\ SlotFor(i) \in Slots /\ i \div Count_Ticks \in Nat /\ i \in Nat
      /\ i % Count_Ticks # 0 =>
           /\ SlotFor(i) # cur_slot_
           /\ Turn(SlotFor(i), cur_slot_) + Count_Ticks * (i \div Count_Ticks) = i
      /\ i % Count_Ticks = 0 =>
           /\ SlotFor(i) = cur_slot_
           /\ Count_Ticks * (i \div Count_Ticks) = i
           /\ Turn(SlotFor(i), cur_slot_) = Count_Ticks
  BY <1>0, SlotForAny
<1>2. /\ wheel_' \in [Slots -> SUBSET Addr] /\ InWheel' = InWheel \cup {a}
      /\ \A u \in Slots, b \in Addr :
           b \in wheel_'[u] <=> b \in wheel_[u] \/ (b = a /\ u = SlotFor(i))
  BY <1>0, <1>1, Inserted DEF add_timer_loop
<1>3. \/ todo' = todo
      \/ SlotFor(i) = cur_slot_ /\ i % Count_Ticks = 0 /\ todo' = todo \cup {a}
  BY <1>1 DEF add_timer_loop
<1>4. /\ rotation_' \in [Addr -> Nat] /\ slot_' \in [Addr -> Slots] /\ age' \in [Addr -> Nat]
      /\ rotation_'[a] = i \div Count_Ticks /\ slot_'[a] = SlotFor(i) /\ age'[a] = 0
      /\ \A b \in Addr \ {a} : /\ rotation_'[b] = rotation_[b] /\ slot_'[b] = slot_[b]
                              /\ age'[b] = age[b]
  BY <1>0, <1>1 DEF add_timer_loop, Placed, TypeOK
<1>5. a \notin todo /\ a # running /\ todo \subseteq Addr
  BY <1>0, AddrAssumption, InWheelMember DEF Inv, HandInv, TypeOK
<1>6. \A t \in Slots : \A b \in wheel_'[t] : slot_'[b] = t
  <2> SUFFICES ASSUME NEW t \in Slots, NEW b \in wheel_'[t]
               PROVE  slot_'[b] = t
    OBVIOUS
  <2>1. b \in Addr
    BY <1>2
  <2>2. CASE b = a
    <3>1. a \notin wheel_[t]
      BY InWheelMember
    <3> QED
      BY <1>2, <1>4, <2>1, <2>2, <3>1
  <2>3. CASE b # a
    BY <1>2, <1>4, <2>1, <2>3 DEF Inv, PlaceInv
  <2> QED
    BY <2>2, <2>3
<1>7. HandInv'
  <2>1. wheel_[cur_slot_] \subseteq wheel_'[cur_slot_] /\ wheel_[cur_slot_] \subseteq Addr
    BY <1>0, <1>2 DEF TypeOK
  <2>2. running # NoTimer => running \in Addr /\ rotation_'[running] = rotation_[running]
    BY <1>0, <1>4, <1>5 DEF TypeOK
  <2>3. todo' \subseteq wheel_'[cur_slot_]
    <3>1. SlotFor(i) = cur_slot_ => a \in wheel_'[cur_slot_]
      BY <1>1, <1>2
    <3>2. todo \subseteq wheel_'[cur_slot_]
      BY <2>1 DEF Inv, HandInv
    <3> QED
      BY <1>3, <3>1, <3>2
  <2>4. running # NoTimer => running \in wheel_'[cur_slot_] /\ running \notin todo'
    BY <1>3, <1>5, <2>1 DEF Inv, HandInv
  <2> QED
    BY <2>2, <2>3, <2>4 DEF Inv, HandInv
<1>8. TimeInv'
  <2> SUFFICES ASSUME NEW b \in InWheel'
               PROVE  Due(b)'
    BY DEF TimeInv
  <2>1. CASE b = a
    <3>0. /\ age'[b] = 0 /\ interval_'[b] = i /\ slot_'[b] = SlotFor(i)
          /\ rotation_'[b] = i \div Count_Ticks
      BY <1>4, <2>1
    <3>1. CASE b \in todo'
      <4>1. i % Count_Ticks = 0
        BY <1>3, <1>5, <2>1, <3>1
      <4>2. Left(b)' = 0 + Count_Ticks * (i \div Count_Ticks)
        BY <3>0, <3>1 DEF Left, Distance
      <4>3. age'[b] + Left(b)' = interval_'[b]
        BY <1>1, <3>0, <4>1, <4>2
      <4> QED
        BY <4>3 DEF Due
    <3>2. CASE b \notin todo'
      <4>1. Left(b)' = Turn(SlotFor(i), cur_slot_) + Count_Ticks * (i \div Count_Ticks)
        BY <1>5, <2>1, <3>0, <3>2 DEF Left, Distance, Turn
      <4>2. CASE i % Count_Ticks # 0
        <5>1. age'[b] + Left(b)' = interval_'[b]
          BY <1>1, <3>0, <4>1, <4>2
        <5> QED
          BY <5>1 DEF Due
      <4>3. CASE i % Count_Ticks = 0
        <5>1. Left(b)' = Count_Ticks + i
          BY <1>1, <4>1, <4>3
        <5>2. age'[b] + Left(b)' = interval_'[b] + Count_Ticks
          BY <1>1, <3>0, <5>1, TicksAssumption
        <5> QED
          BY <3>0, <4>3, <5>2 DEF Due
      <4> QED
        BY <4>2, <4>3
    <3> QED
      BY <3>1, <3>2
  <2>2. CASE b # a
    <3>1. b \in InWheel /\ b \in Addr
      BY <1>2, <2>2, WheelFacts
    <3>2. Left(b)' = Left(b)
      BY <1>3, <1>4, <2>2, <3>1, LeftSame
    <3> QED
      BY <1>4, <2>2, <3>1, <3>2 DEF Inv, TimeInv, Due
  <2> QED
    BY <2>1, <2>2
<1> QED
  BY <1>2, <1>3, <1>4, <1>5, <1>6, <1>7, <1>8

(***************************************************************************)
(* A timer of the wheel is deleted: by a cancellation, or after its call.  *)
(* What is left of the queue does not refer to it.                         *)
(***************************************************************************)
LEMMA DeleteFromWheel ==
    ASSUME Inv, NEW a \in InWheel, delete(a),
           wheel_' = [wheel_ EXCEPT ![slot_[a]] = @ \ {a}],
           cur_slot_' = cur_slot_, num_created_' = num_created_,
           \/ a # running /\ running' = running /\ todo' = todo \ {a}
           \/ a = running /\ running' = NoTimer /\ todo' = todo,
           posted' \in Seq(Closures), Unique', PostedFor("add")' = PostedFor("add"),
           \A k \in DOMAIN posted' : \E j \in DOMAIN posted :
                posted'[k] = posted[j] /\ posted[j].timer # a
    PROVE  Inv'
<1>0. TypeOK
  BY DEF Inv
<1>1. /\ a \in Addr /\ a \in live /\ slot_[a] \in Slots /\ a \notin PostedFor("add")
      /\ a # NoTimer
  BY WheelFacts
<1>2. /\ wheel_' \in [Slots -> SUBSET Addr] /\ InWheel' = InWheel \ {a}
      /\ \A u \in Slots, b \in Addr : b \in wheel_'[u] <=> b \in wheel_[u] /\ b # a
  BY Erased
<1>3. \A b \in Addr \ {a} :
         /\ interval_'[b] = interval_[b] /\ repeat_'[b] = repeat_[b]
         /\ rotation_'[b] = rotation_[b] /\ slot_'[b] = slot_[b]
         /\ seq_'[b] = seq_[b] /\ age'[b] = age[b]
  BY <1>0 DEF delete, TypeOK
<1>4. TypeOK'
  <2>1. 0 \in Slots
    BY TicksAssumption DEF Slots
  <2>2. /\ interval_' \in [Addr -> Intervals \cup {0}] /\ repeat_' \in [Addr -> BOOLEAN]
        /\ rotation_' \in [Addr -> Nat] /\ slot_' \in [Addr -> Slots]
        /\ seq_' \in [Addr -> Nat] /\ age' \in [Addr -> Nat]
    BY <1>0, <1>1, <2>1 DEF delete, TypeOK
  <2>3. live' \subseteq Addr /\ todo' \subseteq Addr /\ running' \in Addr \cup {NoTimer}
    BY <1>0 DEF delete, TypeOK
  <2> QED
    BY <1>0, <1>2, <2>2, <2>3 DEF TypeOK, Closures
<1>5. PlaceInv'
  <2>1. /\ InWheel' \cup PostedFor("add")' \subseteq live'
        /\ LostOnlyOnWholeTurns'
        /\ InWheel' \cap PostedFor("add")' = {}
    BY <1>0, <1>1, <1>2, <1>3 DEF Inv, TypeOK, PlaceInv, LostOnlyOnWholeTurns, delete
  <2>2. \A t \in Slots : \A b \in wheel_'[t] : slot_'[b] = t
    BY <1>2, <1>3 DEF Inv, PlaceInv
  <2> QED
    BY <2>1, <2>2 DEF PlaceInv, Unique
<1>6. NoStaleTimer'
  <2>1. ASSUME NEW k \in DOMAIN posted'
        PROVE  posted'[k].timer \in live' /\ seq_'[posted'[k].timer] = posted'[k].seq
    <3>1. PICK j \in DOMAIN posted : posted'[k] = posted[j] /\ posted[j].timer # a
      OBVIOUS
    <3>2. posted[j].timer \in live /\ seq_[posted[j].timer] = posted[j].seq /\ posted[j].timer \in Addr
      BY <1>0 DEF Inv, NoStaleTimer, TypeOK
    <3> QED
      BY <1>3, <3>1, <3>2 DEF delete
  <2>2. running' # NoTimer => running' \in live'
    BY DEF Inv, NoStaleTimer, delete
  <2> QED
    BY <2>1, <2>2 DEF NoStaleTimer
<1>7. HandInv'
  <2>1. todo' \subseteq wheel_'[cur_slot_]
    <3>1. CASE a # running
      BY <1>0, <1>2, <3>1 DEF Inv, HandInv, TypeOK
    <3>2. CASE a = running
      <4>1. a \notin todo /\ todo' = todo
        BY <1>1, <3>2 DEF Inv, HandInv
      <4> QED
        BY <1>0, <1>2, <4>1 DEF Inv, HandInv, TypeOK
    <3> QED
      BY <3>1, <3>2
  <2>2. ASSUME running' # NoTimer
        PROVE  running' \in wheel_'[cur_slot_] /\ running' \notin todo' /\ rotation_'[running'] = 0
    <3>1. running' = running /\ running # a /\ todo' = todo \ {a}
      BY <2>2
    <3>2. running \in wheel_[cur_slot_] /\ running \notin todo /\ rotation_[running] = 0 /\ running \in Addr
      BY <1>0, <2>2, <3>1 DEF Inv, HandInv, TypeOK
    <3> QED
      BY <1>0, <1>2, <1>3, <3>1, <3>2 DEF TypeOK
  <2> QED
    BY <2>1, <2>2 DEF HandInv
<1>8. PostInv'
  <2>1. ASSUME NEW k \in DOMAIN posted', posted'[k].op = "del"
        PROVE  repeat_'[posted'[k].timer]
    <3>1. PICK j \in DOMAIN posted : posted'[k] = posted[j] /\ posted[j].timer # a
      OBVIOUS
    <3>2. posted[j].timer \in Addr
      BY <1>0 DEF Inv, NoStaleTimer, TypeOK
    <3>3. posted[j].op = "del"
      BY <2>1, <3>1
    <3>4. repeat_[posted[j].timer]
      BY <3>3 DEF Inv, PostInv
    <3>5. repeat_'[posted[j].timer] = repeat_[posted[j].timer]
      BY <1>3, <3>1, <3>2
    <3> QED
      BY <3>1, <3>4, <3>5
  <2>2. \A b \in live' : interval_'[b] \in Intervals
    BY <1>0, <1>3 DEF Inv, PostInv, delete, TypeOK
  <2> QED
    BY <2>1, <2>2 DEF PostInv
<1>9. TimeInv'
  <2> SUFFICES ASSUME NEW b \in InWheel'
               PROVE  Due(b)'
    BY DEF TimeInv
  <2>1. b \in InWheel /\ b # a /\ b \in Addr /\ b # NoTimer
    BY <1>2, WheelFacts
  <2>2. b \in todo' \cup {running'} <=> b \in todo \cup {running}
    BY <2>1
  <2>3. Left(b)' = Left(b)
    BY <1>3, <2>1, <2>2, LeftSame
  <2> QED
    BY <1>3, <2>1, <2>3 DEF Inv, TimeInv, Due
<1> QED
  BY <1>4, <1>5, <1>6, <1>7, <1>8, <1>9 DEF Inv

----------------------------------------------------------------------------
LEMMA InvInit == Init => Inv
<1> SUFFICES ASSUME Init PROVE Inv
  OBVIOUS
<1>0. 0 \in Slots /\ posted = <<>> /\ DOMAIN posted = {} /\ posted \in Seq(Closures)
  BY TicksAssumption DEF Init, Slots
<1>1. InWheel = {}
  BY InWheelMember DEF Init
<1>2. \A op : PostedFor(op) = {}
  BY <1>0, PostedMember
<1>3. TypeOK
  BY <1>0, IntervalsAssumption DEF Init, TypeOK, Closures
<1>4. PlaceInv
  BY <1>0, <1>1, <1>2 DEF Init, PlaceInv, LostOnlyOnWholeTurns
<1>5. NoStaleTimer /\ HandInv /\ PostInv
  BY <1>0 DEF Init, NoStaleTimer, HandInv, PostInv
<1>6. TimeInv
  BY <1>1 DEF TimeInv
<1> QED
  BY <1>3, <1>4, <1>5, <1>6 DEF Inv

(***************************************************************************)
(* A new timer: its memory is in no bucket and no closure refers to it.    *)
(***************************************************************************)
LEMMA NewTimer ==
    ASSUME Inv, NEW a \in Addr, NEW i \in Intervals, NEW r \in BOOLEAN, new_Timer(a, i, r)
    PROVE  /\ a \notin InWheel /\ (\A op : a \notin PostedFor(op))
           /\ \A k \in DOMAIN posted : posted[k].timer \in Addr \ {a} /\ posted[k].timer \in live
           /\ live' = live \cup {a} /\ live' \subseteq Addr
           /\ interval_' \in [Addr -> Intervals \cup {0}] /\ repeat_' \in [Addr -> BOOLEAN]
           /\ seq_' \in [Addr -> Nat] /\ num_created_' \in Nat
           /\ interval_'[a] = i /\ repeat_'[a] = r /\ seq_'[a] = num_created_
           /\ \A b \in Addr \ {a} : /\ interval_'[b] = interval_[b]
                                    /\ repeat_'[b] = repeat_[b] /\ seq_'[b] = seq_[b]
<1>0. TypeOK
  BY DEF Inv
<1>1. a \notin live /\ live' = live \cup {a} /\ live' \subseteq Addr
  BY <1>0 DEF new_Timer, TypeOK
<1>2. \A k \in DOMAIN posted : posted[k].timer \in live
  BY DEF Inv, NoStaleTimer
<1>3. \A k \in DOMAIN posted : posted[k].timer \in Addr \ {a} /\ posted[k].timer \in live
  BY <1>0, <1>1, <1>2 DEF TypeOK
<1>4. a \notin InWheel
  BY <1>1, WheelFacts
<1>5. \A op : a \notin PostedFor(op)
  BY <1>3, PostedMember
<1>6. /\ interval_' \in [Addr -> Intervals \cup {0}] /\ repeat_' \in [Addr -> BOOLEAN]
      /\ seq_' \in [Addr -> Nat] /\ num_created_' \in Nat
  BY <1>0 DEF new_Timer, TypeOK
<1>7. /\ interval_'[a] = i /\ repeat_'[a] = r /\ seq_'[a] = num_created_
      /\ \A b \in Addr \ {a} : /\ interval_'[b] = interval_[b]
                               /\ repeat_'[b] = repeat_[b] /\ seq_'[b] = seq_[b]
  BY <1>0 DEF new_Timer, TypeOK
<1> QED
  BY <1>1, <1>3, <1>4, <1>5, <1>6, <1>7

LEMMA AddTimer ==
    ASSUME Inv, NEW a \in Addr, NEW i \in Intervals, NEW r \in BOOLEAN,
           add_timer(a, i, r)
    PROVE  Inv'
<1>0. TypeOK /\ new_Timer(a, i, r) /\ add_timer_loop(a, i)
      /\ cur_slot_' = cur_slot_ /\ posted' = posted /\ running' = running
  BY DEF Inv, add_timer
<1>1. /\ a \notin InWheel /\ (\A op : a \notin PostedFor(op))
      /\ \A k \in DOMAIN posted : posted[k].timer \in Addr \ {a} /\ posted[k].timer \in live
      /\ live' = live \cup {a} /\ live' \subseteq Addr
      /\ interval_' \in [Addr -> Intervals \cup {0}] /\ repeat_' \in [Addr -> BOOLEAN]
      /\ seq_' \in [Addr -> Nat] /\ num_created_' \in Nat
      /\ interval_'[a] = i
      /\ \A b \in Addr \ {a} : /\ interval_'[b] = interval_[b]
                               /\ repeat_'[b] = repeat_[b] /\ seq_'[b] = seq_[b]
  BY <1>0, NewTimer
<1>2. /\ wheel_' \in [Slots -> SUBSET Addr] /\ InWheel' = InWheel \cup {a}
      /\ rotation_' \in [Addr -> Nat] /\ slot_' \in [Addr -> Slots]
      /\ age' \in [Addr -> Nat] /\ todo' \subseteq Addr
      /\ \A t \in Slots : \A b \in wheel_'[t] : slot_'[b] = t
      /\ HandInv' /\ TimeInv'
  BY <1>0, <1>1, PutInWheel
<1>3. \A op : PostedFor(op)' = PostedFor(op)
  BY <1>0 DEF PostedFor
<1>4. TypeOK'
  BY <1>0, <1>1, <1>2 DEF TypeOK
<1>5. PlaceInv'
  <2>1. /\ InWheel' \cup PostedFor("add")' \subseteq live'
        /\ LostOnlyOnWholeTurns'
        /\ InWheel' \cap PostedFor("add")' = {}
    BY <1>0, <1>1, <1>2, <1>3 DEF Inv, TypeOK, PlaceInv, LostOnlyOnWholeTurns
  <2> QED
    BY <1>0, <1>2, <2>1 DEF Inv, PlaceInv
<1>6. NoStaleTimer'
  BY <1>0, <1>1 DEF Inv, NoStaleTimer
<1>7. PostInv'
  <2>1. \A k \in DOMAIN posted' : posted'[k].op = "del" => repeat_'[posted'[k].timer]
    BY <1>0, <1>1 DEF Inv, PostInv
  <2>2. \A b \in live' : interval_'[b] \in Intervals
    BY <1>0, <1>1 DEF Inv, PostInv, TypeOK
  <2> QED
    BY <2>1, <2>2 DEF PostInv
<1> QED
  BY <1>2, <1>4, <1>5, <1>6, <1>7 DEF Inv

(***************************************************************************)
(* Steps that leave the wheel alone leave the ticks alone.                 *)
(***************************************************************************)
LEMMA WheelSame ==
    ASSUME Inv, UNCHANGED <<wheel_, cur_slot_, rotation_, slot_, todo, running, age>>,
           \A b \in live : interval_'[b] = interval_[b]
    PROVE  InWheel' = InWheel /\ HandInv' /\ TimeInv'
<1>1. InWheel' = InWheel
  BY DEF InWheel
<1>2. HandInv'
  BY DEF Inv, HandInv
<1>3. TimeInv'
  <2> SUFFICES ASSUME NEW b \in InWheel'
               PROVE  Due(b)'
    BY DEF TimeInv
  <2>1. b \in InWheel /\ b \in live
    BY <1>1, WheelFacts
  <2>2. Left(b)' = Left(b)
    BY LeftSame
  <2> QED
    BY <2>1, <2>2 DEF Inv, TimeInv, Due
<1> QED
  BY <1>1, <1>2, <1>3

LEMMA AddTimerPosted ==
    ASSUME Inv, NEW a \in Addr, NEW i \in Intervals, NEW r \in BOOLEAN,
           add_timer_posted(a, i, r)
    PROVE  Inv'
<1> DEFINE e == [op |-> "add", timer |-> a, seq |-> num_created_]
<1>0. /\ TypeOK /\ new_Timer(a, i, r) /\ posted' = Append(posted, e)
      /\ UNCHANGED <<wheel_, cur_slot_, rotation_, slot_, todo, running, age>>
  BY DEF Inv, add_timer_posted
<1>1. /\ a \notin InWheel /\ (\A op : a \notin PostedFor(op))
      /\ \A k \in DOMAIN posted : posted[k].timer \in Addr \ {a} /\ posted[k].timer \in live
      /\ live' = live \cup {a} /\ live' \subseteq Addr
      /\ interval_' \in [Addr -> Intervals \cup {0}] /\ repeat_' \in [Addr -> BOOLEAN]
      /\ seq_' \in [Addr -> Nat] /\ num_created_' \in Nat
      /\ interval_'[a] = i /\ seq_'[a] = num_created_
      /\ \A b \in Addr \ {a} : /\ interval_'[b] = interval_[b]
                               /\ repeat_'[b] = repeat_[b] /\ seq_'[b] = seq_[b]
  BY <1>0, NewTimer
<1>2. e \in Closures /\ e.op = "add" /\ e.timer = a /\ e.seq = num_created_
  BY <1>0 DEF Closures, TypeOK
<1> HIDE DEF e
<1>3. /\ posted' \in Seq(Closures) /\ PostedFor("add")' = PostedFor("add") \cup {a} /\ Unique'
      /\ \A k \in DOMAIN posted' :
           posted'[k] = e \/ \E j \in DOMAIN posted : posted'[k] = posted[j]
  BY <1>0, <1>1, <1>2, PostedAppend
<1>4. InWheel' = InWheel /\ HandInv' /\ TimeInv'
  <2>1. a \notin live
    BY <1>0 DEF new_Timer
  <2>2. \A b \in live : interval_'[b] = interval_[b]
    BY <1>0, <1>1, <2>1 DEF TypeOK
  <2> QED
    BY <1>0, <2>2, WheelSame
<1>5. TypeOK'
  BY <1>0, <1>1, <1>3 DEF TypeOK, Closures
<1>6. PlaceInv'
  <2>1. /\ InWheel' \cup PostedFor("add")' \subseteq live'
        /\ LostOnlyOnWholeTurns'
        /\ InWheel' \cap PostedFor("add")' = {}
    BY <1>0, <1>1, <1>3, <1>4 DEF Inv, TypeOK, PlaceInv, LostOnlyOnWholeTurns
  <2> QED
    BY <1>0, <1>3, <2>1 DEF Inv, PlaceInv, Unique
<1>7. NoStaleTimer'
  <2>1. ASSUME NEW k \in DOMAIN posted'
        PROVE  posted'[k].timer \in live' /\ seq_'[posted'[k].timer] = posted'[k].seq
    <3>1. CASE posted'[k] = e
      BY <1>1, <1>2, <3>1
    <3>2. CASE \E j \in DOMAIN posted : posted'[k] = posted[j]
      <4>1. PICK j \in DOMAIN posted : posted'[k] = posted[j]
        BY <3>2
      <4> QED
        BY <1>1, <4>1 DEF Inv, NoStaleTimer
    <3> QED
      BY <1>3, <3>1, <3>2
  <2> QED
    BY <1>0, <1>1, <2>1 DEF Inv, NoStaleTimer
<1>8. PostInv'
  <2>1. ASSUME NEW k \in DOMAIN posted', posted'[k].op = "del"
        PROVE  repeat_'[posted'[k].timer]
    <3>1. PICK j \in DOMAIN posted : posted'[k] = posted[j]
      BY <1>2, <1>3, <2>1
    <3>2. repeat_'[posted[j].timer] = repeat_[posted[j].timer]
      BY <1>1
    <3>3. repeat_[posted[j].timer]
      BY <2>1, <3>1 DEF Inv, PostInv
    <3> QED
      BY <3>1, <3>2, <3>3
  <2>2. \A b \in live' : interval_'[b] \in Intervals
    BY <1>0, <1>1 DEF Inv, PostInv, TypeOK
  <2> QED
    BY <2>1, <2>2 DEF PostInv
<1> QED
  BY <1>4, <1>5, <1>6, <1>7, <1>8 DEF Inv

LEMMA DelTimerPosted ==
    ASSUME Inv, NEW a \in Addr, del_timer_posted(a)
    PROVE  Inv'
<1> DEFINE e == [op |-> "del", timer |-> a, seq |-> seq_[a]]
<1>0. /\ TypeOK /\ posted' = Append(posted, e) /\ a \in live /\ a \notin PostedFor("del")
      /\ UNCHANGED <<wheel_, cur_slot_, live, fields, num_created_, todo, running, age>>
  BY DEF Inv, del_timer_posted
<1>1. repeat_[a]
  BY DEF del_timer_posted
<1>2. e \in Closures /\ e.op = "del" /\ e.timer = a /\ e.seq = seq_[a]
  BY <1>0 DEF Closures, TypeOK
<1> HIDE DEF e
<1>3. /\ posted' \in Seq(Closures) /\ PostedFor("add")' = PostedFor("add") /\ Unique'
      /\ \A k \in DOMAIN posted' :
           posted'[k] = e \/ \E j \in DOMAIN posted : posted'[k] = posted[j]
  BY <1>0, <1>2, PostedAppend
<1>4. InWheel' = InWheel /\ HandInv' /\ TimeInv'
  BY <1>0, WheelSame DEF fields
<1>5. TypeOK'
  BY <1>0, <1>3 DEF TypeOK, Closures, fields
<1>6. PlaceInv'
  BY <1>0, <1>3, <1>4 DEF Inv, PlaceInv, LostOnlyOnWholeTurns, Unique, fields
<1>7. NoStaleTimer'
  <2>1. ASSUME NEW k \in DOMAIN posted'
        PROVE  posted'[k].timer \in live /\ seq_[posted'[k].timer] = posted'[k].seq
    BY <1>0, <1>2, <1>3 DEF Inv, NoStaleTimer
  <2> QED
    BY <1>0, <2>1 DEF Inv, NoStaleTimer, fields
<1>8. PostInv'
  <2>1. ASSUME NEW k \in DOMAIN posted', posted'[k].op = "del"
        PROVE  repeat_[posted'[k].timer]
    <3>1. CASE posted'[k] = e
      BY <1>1, <1>2, <3>1
    <3>2. CASE \E j \in DOMAIN posted : posted'[k] = posted[j]
      <4>1. PICK j \in DOMAIN posted : posted'[k] = posted[j]
        BY <3>2
      <4>2. repeat_[posted[j].timer]
        BY <2>1, <4>1 DEF Inv, PostInv
      <4> QED
        BY <4>1, <4>2
    <3> QED
      BY <1>3, <3>1, <3>2
  <2>2. \A b \in live' : interval_'[b] \in Intervals
    BY <1>0 DEF Inv, PostInv, fields
  <2>3. repeat_' = repeat_
    BY <1>0 DEF fields
  <2> QED
    BY <2>1, <2>2, <2>3 DEF PostInv
<1> QED
  BY <1>4, <1>5, <1>6, <1>7, <1>8 DEF Inv

LEMMA DelTimer ==
    ASSUME Inv, NEW a \in Addr, del_timer(a)
    PROVE  Inv'
<1>0. /\ a \in InWheel /\ a # running /\ a \notin PostedFor("del") /\ del_timer_loop(a)
      /\ UNCHANGED <<cur_slot_, num_created_, posted, running>>
  BY DEF del_timer
<1>1. a \in wheel_[slot_[a]] /\ a \notin PostedFor("add")
  BY <1>0, WheelFacts
<1>2. /\ wheel_' = [wheel_ EXCEPT ![slot_[a]] = @ \ {a}] /\ todo' = todo \ {a} /\ delete(a)
  BY <1>0, <1>1 DEF del_timer_loop
<1>3. posted' \in Seq(Closures) /\ Unique' /\ PostedFor("add")' = PostedFor("add")
  BY <1>0 DEF Inv, TypeOK, PlaceInv, Unique, Closures, PostedFor
<1>4. \A k \in DOMAIN posted' : \E j \in DOMAIN posted :
         posted'[k] = posted[j] /\ posted[j].timer # a
  <2>1. \A k \in DOMAIN posted : posted[k].op \in {"add", "del"}
    BY PostedOps DEF Inv
  <2>2. \A k \in DOMAIN posted : posted[k].timer # a
    BY <1>0, <1>1, <2>1, PostedMember
  <2> QED
    BY <1>0, <2>2
<1> QED
  BY <1>0, <1>2, <1>3, <1>4, DeleteFromWheel

----------------------------------------------------------------------------
(***************************************************************************)
(* The loop thread runs a queued closure.                                  *)
(***************************************************************************)
LEMMA RunAddStep ==
    ASSUME Inv, RunAdd
    PROVE  Inv'
<1> DEFINE a == Head(posted).timer
<1>0. /\ TypeOK /\ posted # <<>> /\ Head(posted).op = "add" /\ posted' = Tail(posted)
      /\ add_timer_loop(a, interval_[a])
      /\ UNCHANGED <<cur_slot_, live, interval_, repeat_, seq_, num_created_, running>>
  BY DEF Inv, RunAdd
<1>1. /\ posted' \in Seq(Closures)
      /\ a \in Addr /\ a \in live /\ a \in PostedFor("add")
      /\ PostedFor("add")' = PostedFor("add") \ {a}
      /\ Unique'
      /\ \A k \in DOMAIN posted' : \E j \in DOMAIN posted : posted'[k] = posted[j]
  BY <1>0, PostedTail
<1> HIDE DEF a
<1>2. a \notin InWheel /\ interval_[a] \in Intervals
  BY <1>1 DEF Inv, PlaceInv, PostInv
<1>3. /\ wheel_' \in [Slots -> SUBSET Addr] /\ InWheel' = InWheel \cup {a}
      /\ rotation_' \in [Addr -> Nat] /\ slot_' \in [Addr -> Slots]
      /\ age' \in [Addr -> Nat] /\ todo' \subseteq Addr
      /\ \A t \in Slots : \A b \in wheel_'[t] : slot_'[b] = t
      /\ HandInv' /\ TimeInv'
  BY <1>0, <1>1, <1>2, PutInWheel
<1>4. TypeOK'
  BY <1>0, <1>1, <1>3 DEF TypeOK, Closures
<1>5. PlaceInv'
  <2>1. /\ InWheel' \cup PostedFor("add")' \subseteq live'
        /\ LostOnlyOnWholeTurns'
        /\ InWheel' \cap PostedFor("add")' = {}
    BY <1>0, <1>1, <1>3 DEF Inv, PlaceInv, LostOnlyOnWholeTurns
  <2> QED
    BY <1>1, <1>3, <2>1 DEF PlaceInv, Unique
<1>6. NoStaleTimer'
  BY <1>0, <1>1 DEF Inv, NoStaleTimer
<1>7. PostInv'
  BY <1>0, <1>1 DEF Inv, PostInv
<1> QED
  BY <1>3, <1>4, <1>5, <1>6, <1>7 DEF Inv

LEMMA RunDelStep ==
    ASSUME Inv, RunDel
    PROVE  Inv'
<1> DEFINE a == Head(posted).timer
<1>0. /\ TypeOK /\ posted # <<>> /\ Head(posted).op = "del" /\ posted' = Tail(posted)
      /\ del_timer_loop(a) /\ running = NoTimer
      /\ UNCHANGED <<cur_slot_, num_created_, running>>
  BY DEF Inv, RunDel, LoopIdle
<1>1. /\ posted' \in Seq(Closures)
      /\ a \in Addr /\ a \in live
      /\ PostedFor("add")' = PostedFor("add")
      /\ Unique'
      /\ \A k \in DOMAIN posted' : \E j \in DOMAIN posted :
           posted'[k] = posted[j] /\ (posted[j].op = "del" => posted[j].timer # a)
  BY <1>0, PostedTail
<1> HIDE DEF a
<1>2. CASE a \in wheel_[slot_[a]]
  <2>1. a \in InWheel
    BY <1>0, <1>1, <1>2, InWheelMember DEF TypeOK
  <2>2. a \notin PostedFor("add") /\ a # running
    BY <1>0, <2>1, WheelFacts
  <2>3. \A j \in DOMAIN posted : posted[j].timer = a => posted[j].op # "add"
    BY <2>2, PostedMember
  <2>4. \A k \in DOMAIN posted' : \E j \in DOMAIN posted :
           posted'[k] = posted[j] /\ posted[j].timer # a
    BY <1>0, <1>1, <2>3, PostedOps
  <2>5. wheel_' = [wheel_ EXCEPT ![slot_[a]] = @ \ {a}] /\ todo' = todo \ {a} /\ delete(a)
    BY <1>0, <1>2 DEF del_timer_loop
  <2> QED
    BY <1>0, <1>1, <2>1, <2>2, <2>4, <2>5, DeleteFromWheel
<1>3. CASE a \notin wheel_[slot_[a]]
  <2>1. UNCHANGED <<wheel_, todo, live, interval_, repeat_, rotation_, slot_, seq_, age>>
    BY <1>0, <1>3 DEF del_timer_loop, fields
  <2>2. InWheel' = InWheel /\ HandInv' /\ TimeInv'
    BY <1>0, <2>1, WheelSame
  <2>3. TypeOK'
    BY <1>0, <1>1, <2>1 DEF TypeOK, Closures
  <2>4. PlaceInv'
    BY <1>1, <2>1, <2>2 DEF Inv, PlaceInv, LostOnlyOnWholeTurns, Unique
  <2>5. NoStaleTimer'
    BY <1>0, <1>1, <2>1 DEF Inv, NoStaleTimer
  <2>6. PostInv'
    BY <1>1, <2>1 DEF Inv, PostInv
  <2> QED
    BY <2>2, <2>3, <2>4, <2>5, <2>6 DEF Inv
<1> QED
  BY <1>2, <1>3

----------------------------------------------------------------------------
(***************************************************************************)
(* handle_timeout, step by step.                                           *)
(***************************************************************************)
\* The hand moves: every timer has seen one more tick and has one less to go.
LEMMA HandleTimeout ==
    ASSUME Inv, handle_timeout
    PROVE  Inv'
<1>0. /\ TypeOK /\ todo = {} /\ running = NoTimer
      /\ cur_slot_' = NextSlot /\ todo' = wheel_[NextSlot]
      /\ age' = [a \in Addr |-> IF a \in InWheel THEN age[a] + 1 ELSE age[a]]
      /\ UNCHANGED <<wheel_, live, interval_, repeat_, rotation_, slot_, seq_,
                     num_created_, posted, running>>
  BY DEF Inv, handle_timeout, LoopIdle, fields
<1>1. NextSlot \in Slots /\ NextSlot = (cur_slot_ + 1) % Count_Ticks
  BY <1>0, NextHand DEF NextSlot, TypeOK
<1>2. InWheel' = InWheel /\ \A op : PostedFor(op)' = PostedFor(op)
  BY <1>0 DEF InWheel, PostedFor
<1>3. TypeOK'
  <2>1. age' \in [Addr -> Nat]
    BY <1>0 DEF TypeOK
  <2>2. todo' \subseteq Addr
    BY <1>0, <1>1 DEF TypeOK
  <2> QED
    BY <1>0, <1>1, <2>1, <2>2 DEF TypeOK
<1>4. PlaceInv' /\ NoStaleTimer' /\ PostInv'
  BY <1>0, <1>2 DEF Inv, PlaceInv, LostOnlyOnWholeTurns, NoStaleTimer, PostInv
<1>5. HandInv'
  BY <1>0 DEF HandInv
<1>6. TimeInv'
  <2> SUFFICES ASSUME NEW b \in InWheel'
               PROVE  Due(b)'
    BY DEF TimeInv
  <2>1. /\ b \in InWheel /\ b \in Addr /\ b # NoTimer /\ slot_[b] \in Slots
        /\ b \in wheel_[slot_[b]] /\ \A t \in Slots : b \in wheel_[t] => t = slot_[b]
    BY <1>2, WheelFacts
  <2>2. b \in todo' \cup {running'} <=> slot_[b] = NextSlot
    BY <1>0, <1>1, <2>1
  <2>3. /\ slot_[b] = NextSlot => Turn(slot_[b], cur_slot_) = 1
        /\ slot_[b] # NextSlot => Turn(slot_[b], NextSlot) = Turn(slot_[b], cur_slot_) - 1
    BY <1>0, <1>1, <2>1, TurnStep DEF TypeOK
  <2>4. Left(b) = Turn(slot_[b], cur_slot_) + Count_Ticks * rotation_[b]
    BY <1>0, <2>1 DEF Left, Distance, Turn
  <2>5. Left(b)' = (IF slot_[b] = NextSlot THEN 0 ELSE Turn(slot_[b], NextSlot))
                   + Count_Ticks * rotation_[b]
    BY <1>0, <2>2 DEF Left, Distance, Turn
  <2>6. Turn(slot_[b], cur_slot_) \in Int /\ Count_Ticks * rotation_[b] \in Int
    BY <1>0, <2>1, TicksAssumption DEF TypeOK, Turn, Slots
  <2>7. Left(b)' = Left(b) - 1 /\ Left(b) \in Int
    BY <2>3, <2>4, <2>5, <2>6
  <2>8. age'[b] = age[b] + 1 /\ age[b] \in Nat
    BY <1>0, <2>1 DEF TypeOK
  <2>9. age'[b] + Left(b)' = age[b] + Left(b)
    BY <2>7, <2>8
  <2> QED
    BY <1>0, <2>1, <2>9 DEF Inv, TimeInv, Due
<1> QED
  BY <1>3, <1>4, <1>5, <1>6 DEF Inv

\* A rotation less and a full turn to the next visit: the ticks left stay.
LEMMA Rotate ==
    ASSUME Inv, NEW a \in Addr, handle_timeout_rotate(a)
    PROVE  Inv'
<1>0. /\ TypeOK /\ running = NoTimer /\ a \in todo /\ rotation_[a] > 0
      /\ rotation_' = [rotation_ EXCEPT ![a] = @ - 1] /\ todo' = todo \ {a}
      /\ UNCHANGED <<wheel_, cur_slot_, live, interval_, repeat_, slot_, seq_,
                     num_created_, posted, running, age>>
  BY DEF Inv, handle_timeout_rotate
<1>1. InWheel' = InWheel /\ \A op : PostedFor(op)' = PostedFor(op)
  BY <1>0 DEF InWheel, PostedFor
<1>2. /\ rotation_' \in [Addr -> Nat] /\ rotation_'[a] = rotation_[a] - 1
      /\ \A b \in Addr \ {a} : rotation_'[b] = rotation_[b]
  BY <1>0 DEF TypeOK
<1>3. TypeOK'
  BY <1>0, <1>2 DEF TypeOK
<1>4. PlaceInv' /\ NoStaleTimer' /\ PostInv'
  BY <1>0, <1>1 DEF Inv, PlaceInv, LostOnlyOnWholeTurns, NoStaleTimer, PostInv
<1>5. HandInv'
  BY <1>0 DEF Inv, HandInv
<1>6. a \in InWheel /\ slot_[a] = cur_slot_ /\ cur_slot_ \in Slots
  <2>1. a \in wheel_[cur_slot_] /\ cur_slot_ \in Slots
    BY <1>0 DEF Inv, HandInv, TypeOK
  <2> QED
    BY <2>1, InWheelMember, WheelFacts
<1>7. TimeInv'
  <2> SUFFICES ASSUME NEW b \in InWheel'
               PROVE  Due(b)'
    BY DEF TimeInv
  <2>1. b \in InWheel /\ b \in Addr /\ b # NoTimer
    BY <1>1, WheelFacts
  <2>2. Left(b)' = Left(b)
    <3>1. CASE b = a
      <4>1. Left(b) = 0 + Count_Ticks * rotation_[a]
        BY <1>0, <3>1 DEF Left, Distance
      <4>2. Left(b)' = (cur_slot_ + Count_Ticks - cur_slot_) + Count_Ticks * (rotation_[a] - 1)
        BY <1>0, <1>2, <1>6, <2>1, <3>1 DEF Left, Distance, Slots
      <4>3. cur_slot_ \in Int /\ Count_Ticks \in Int /\ rotation_[a] \in Int
        BY <1>0, TicksAssumption DEF TypeOK, Slots
      <4>4. Count_Ticks * (rotation_[a] - 1) = Count_Ticks * rotation_[a] - Count_Ticks
        BY <4>3
      <4>5. Count_Ticks * rotation_[a] \in Int
        BY <4>3
      <4> QED
        BY <4>1, <4>2, <4>3, <4>4, <4>5
    <3>2. CASE b # a
      BY <1>0, <1>2, <2>1, <3>2, LeftSame
    <3> QED
      BY <3>1, <3>2
  <2> QED
    BY <1>0, <2>1, <2>2 DEF Inv, TimeInv, Due
<1> QED
  BY <1>3, <1>4, <1>5, <1>7 DEF Inv

LEMMA Call ==
    ASSUME Inv, NEW a \in Addr, handle_timeout_call(a)
    PROVE  Inv'
<1>0. /\ TypeOK /\ running = NoTimer /\ a \in todo /\ rotation_[a] = 0
      /\ running' = a /\ todo' = todo \ {a}
      /\ UNCHANGED <<wheel_, cur_slot_, live, interval_, repeat_, rotation_, slot_, seq_,
                     num_created_, posted, age>>
  BY DEF Inv, handle_timeout_call, fields
<1>1. InWheel' = InWheel /\ \A op : PostedFor(op)' = PostedFor(op)
  BY <1>0 DEF InWheel, PostedFor
<1>2. TypeOK'
  BY <1>0 DEF TypeOK
<1>3. a \in live
  <2>1. a \in wheel_[cur_slot_] /\ cur_slot_ \in Slots
    BY <1>0 DEF Inv, HandInv, TypeOK
  <2> QED
    BY <2>1, InWheelMember, WheelFacts
<1>4. PlaceInv' /\ NoStaleTimer' /\ PostInv'
  BY <1>0, <1>1, <1>3 DEF Inv, PlaceInv, LostOnlyOnWholeTurns, NoStaleTimer, PostInv
<1>5. HandInv'
  BY <1>0 DEF Inv, HandInv
<1>6. TimeInv'
  <2> SUFFICES ASSUME NEW b \in InWheel'
               PROVE  Due(b)'
    BY DEF TimeInv
  <2>1. b \in InWheel /\ b # NoTimer
    BY <1>1, WheelFacts
  <2>2. Left(b)' = Left(b)
    BY <1>0, <2>1, LeftSame
  <2> QED
    BY <1>0, <2>1, <2>2 DEF Inv, TimeInv, Due
<1> QED
  BY <1>2, <1>4, <1>5, <1>6 DEF Inv

\* The called timer, before and after handle_timeout moves it to its next slot.
LEMMA RunningFacts ==
    ASSUME Inv, NEW a \in Addr, running = a
    PROVE  /\ a # NoTimer /\ a \in InWheel /\ a \in live /\ a \notin todo
           /\ slot_[a] = cur_slot_ /\ cur_slot_ \in Slots /\ interval_[a] \in Intervals
<1>1. a # NoTimer
  BY AddrAssumption
<1>2. a \in wheel_[cur_slot_] /\ a \notin todo /\ cur_slot_ \in Slots
  BY <1>1 DEF Inv, HandInv, TypeOK
<1>3. a \in InWheel
  BY <1>2, InWheelMember
<1>4. a \in live /\ slot_[a] = cur_slot_
  BY <1>2, <1>3, WheelFacts
<1> QED
  BY <1>1, <1>2, <1>3, <1>4 DEF Inv, PostInv

LEMMA Repeat ==
    ASSUME Inv, NEW a \in Addr, handle_timeout_repeat(a)
    PROVE  Inv'
<1> DEFINE i == interval_[a]
<1> DEFINE t == SlotFor(i)
<1>0. /\ TypeOK /\ running = a /\ Placed(a, i)
      /\ wheel_' = [[wheel_ EXCEPT ![t] = @ \cup {a}] EXCEPT ![cur_slot_] = @ \ {a}]
      /\ running' = NoTimer
      /\ UNCHANGED <<cur_slot_, live, interval_, repeat_, seq_, num_created_, posted, todo>>
  BY DEF Inv, handle_timeout_repeat
<1>1. /\ a # NoTimer /\ a \in InWheel /\ a \in live /\ a \notin todo
      /\ slot_[a] = cur_slot_ /\ cur_slot_ \in Slots /\ i \in Intervals
  BY <1>0, RunningFacts
<1>2. /\ t \in Slots /\ i \div Count_Ticks \in Nat /\ i \in Nat
      /\ i % Count_Ticks # 0 =>
           /\ t # cur_slot_
           /\ Turn(t, cur_slot_) + Count_Ticks * (i \div Count_Ticks) = i
      /\ i % Count_Ticks = 0 => t = cur_slot_
  BY <1>0, <1>1, SlotForAny
<1>3. /\ rotation_' \in [Addr -> Nat] /\ slot_' \in [Addr -> Slots] /\ age' \in [Addr -> Nat]
      /\ rotation_'[a] = i \div Count_Ticks /\ slot_'[a] = t /\ age'[a] = 0
      /\ \A b \in Addr \ {a} : /\ rotation_'[b] = rotation_[b] /\ slot_'[b] = slot_[b]
                              /\ age'[b] = age[b]
  BY <1>0, <1>2 DEF Placed, TypeOK
<1> HIDE DEF t, i
<1>4. /\ wheel_' \in [Slots -> SUBSET Addr]
      /\ \A u \in Slots : wheel_'[u] = IF u = cur_slot_ THEN wheel_[u] \ {a}
                                       ELSE IF u = t THEN wheel_[u] \cup {a} ELSE wheel_[u]
  <2> DEFINE w == [wheel_ EXCEPT ![t] = @ \cup {a}]
  <2>1. w \in [Slots -> SUBSET Addr] /\ wheel_' = [w EXCEPT ![cur_slot_] = @ \ {a}]
    BY <1>0, <1>2 DEF TypeOK
  <2>2. \A u \in Slots : w[u] = IF u = t THEN wheel_[u] \cup {a} ELSE wheel_[u]
    BY <1>0, <1>2 DEF TypeOK
  <2> HIDE DEF w
  <2>3. /\ wheel_' \in [Slots -> SUBSET Addr]
        /\ \A u \in Slots : wheel_'[u] = IF u = cur_slot_ THEN w[u] \ {a} ELSE w[u]
    BY <1>1, <2>1
  <2> QED
    BY <1>2, <2>2, <2>3
<1>5. \A b : b \in InWheel' <=> b \in InWheel /\ (b = a => t # cur_slot_)
  <2>1. ASSUME NEW b, b # a
        PROVE  b \in InWheel' <=> b \in InWheel
    BY <1>4, <2>1, InWheelMember, InWheelMemberNext
  <2>2. a \in InWheel' <=> t # cur_slot_
    <3>1. \A u \in Slots : u # cur_slot_ => a \notin wheel_[u]
      BY <1>1, WheelFacts
    <3> QED
      BY <1>2, <1>4, <3>1, InWheelMemberNext
  <2> QED
    BY <1>1, <2>1, <2>2
<1>6. /\ InWheel' \subseteq InWheel /\ (t # cur_slot_ => InWheel' = InWheel)
      /\ \A op : PostedFor(op)' = PostedFor(op)
  BY <1>0, <1>5 DEF PostedFor
<1>7. TypeOK'
  BY <1>0, <1>3, <1>4 DEF TypeOK
<1>8. PlaceInv'
  <2>1. ASSUME NEW u \in Slots, NEW b \in wheel_'[u]
        PROVE  slot_'[b] = u
    <3>1. b \in Addr
      BY <1>4
    <3>2. CASE b = a
      <4>1. u # cur_slot_ => a \notin wheel_[u]
        BY <1>1, WheelFacts
      <4> QED
        BY <1>3, <1>4, <3>2, <4>1
    <3>3. CASE b # a
      <4>1. b \in wheel_[u]
        BY <1>4, <3>3
      <4> QED
        BY <1>3, <3>1, <3>3, <4>1 DEF Inv, PlaceInv
    <3> QED
      BY <3>2, <3>3
  <2>2. /\ InWheel' \cup PostedFor("add")' \subseteq live'
        /\ LostOnlyOnWholeTurns'
        /\ InWheel' \cap PostedFor("add")' = {}
    <3>1. repeat_[a]
      BY DEF handle_timeout_repeat
    <3>2. t = cur_slot_ => interval_[a] % Count_Ticks = 0
      BY <1>2 DEF i
    <3> QED
      BY <1>0, <1>5, <1>6, <3>1, <3>2 DEF Inv, PlaceInv, LostOnlyOnWholeTurns
  <2> QED
    BY <1>0, <2>1, <2>2 DEF Inv, PlaceInv
<1>9. NoStaleTimer' /\ PostInv'
  BY <1>0 DEF Inv, NoStaleTimer, PostInv
<1>10. HandInv'
  <2>1. todo \subseteq wheel_'[cur_slot_]
    BY <1>1, <1>2, <1>4 DEF Inv, HandInv
  <2> QED
    BY <1>0, <2>1 DEF HandInv
<1>11. TimeInv'
  <2> SUFFICES ASSUME NEW b \in InWheel'
               PROVE  Due(b)'
    BY DEF TimeInv
  <2>1. b \in InWheel /\ b \in Addr /\ b # NoTimer
    BY <1>6, WheelFacts
  <2>2. CASE b = a
    <3>0. i % Count_Ticks # 0
      BY <1>2, <1>5, <2>2
    <3>1. Left(b)' = Turn(t, cur_slot_) + Count_Ticks * (i \div Count_Ticks)
      BY <1>0, <1>1, <1>3, <2>1, <2>2 DEF Left, Distance, Turn
    <3>2. interval_'[a] = i
      BY <1>0, <1>1 DEF i
    <3>3. age'[b] + Left(b)' = interval_'[b]
      BY <1>2, <1>3, <2>2, <3>0, <3>1, <3>2
    <3> QED
      BY <3>3 DEF Due
  <2>3. CASE b # a
    <3>1. Left(b)' = Left(b)
      BY <1>0, <1>3, <2>1, <2>3, LeftSame
    <3> QED
      BY <1>0, <1>3, <2>1, <2>3, <3>1 DEF Inv, TimeInv, Due
  <2> QED
    BY <2>2, <2>3
<1> QED
  BY <1>7, <1>8, <1>9, <1>10, <1>11 DEF Inv

LEMMA Delete ==
    ASSUME Inv, NEW a \in Addr, handle_timeout_delete(a)
    PROVE  Inv'
<1>0. /\ TypeOK /\ running = a /\ ~repeat_[a] /\ delete(a)
      /\ wheel_' = [wheel_ EXCEPT ![cur_slot_] = @ \ {a}]
      /\ running' = NoTimer /\ UNCHANGED <<cur_slot_, num_created_, posted, todo>>
  BY DEF Inv, handle_timeout_delete
<1>1. a \in InWheel /\ slot_[a] = cur_slot_
  BY <1>0, RunningFacts
<1>2. posted' \in Seq(Closures) /\ Unique' /\ PostedFor("add")' = PostedFor("add")
  BY <1>0 DEF Inv, TypeOK, PlaceInv, Unique, Closures, PostedFor
<1>3. \A k \in DOMAIN posted : posted[k].timer # a
  <2>1. a \notin PostedFor("add")
    BY <1>1, WheelFacts
  <2>2. \A k \in DOMAIN posted : posted[k].op = "del" => posted[k].timer # a
    BY <1>0 DEF Inv, PostInv
  <2> QED
    BY <1>0, <2>1, <2>2, PostedMember, PostedOps
<1>4. \A k \in DOMAIN posted' : \E j \in DOMAIN posted :
         posted'[k] = posted[j] /\ posted[j].timer # a
  BY <1>0, <1>3
<1> QED
  BY <1>0, <1>1, <1>2, <1>4, DeleteFromWheel

LEMMA InvStep ==
    ASSUME Inv, [Next]_vars
    PROVE  Inv'
<1>1. CASE Users
  BY <1>1, AddTimer, AddTimerPosted, DelTimer, DelTimerPosted DEF Users
<1>2. CASE Loop
  BY <1>2, RunAddStep, RunDelStep, HandleTimeout, Rotate, Call, Repeat, Delete DEF Loop
<1>3. CASE UNCHANGED vars
  <2>1. /\ UNCHANGED <<wheel_, cur_slot_, live, interval_, repeat_, rotation_, slot_, seq_,
                       num_created_, posted, todo, running, age>>
    BY <1>3 DEF vars, fields
  <2>2. InWheel' = InWheel /\ HandInv' /\ TimeInv'
    BY <2>1, WheelSame
  <2>3. \A op : PostedFor(op)' = PostedFor(op)
    BY <2>1 DEF PostedFor
  <2>4. TypeOK'
    BY <2>1 DEF Inv, TypeOK
  <2>5. PlaceInv' /\ NoStaleTimer' /\ PostInv'
    BY <2>1, <2>2, <2>3 DEF Inv, PlaceInv, LostOnlyOnWholeTurns, NoStaleTimer, PostInv
  <2> QED
    BY <2>2, <2>4, <2>5 DEF Inv
<1> QED
  BY <1>1, <1>2, <1>3 DEF Next

----------------------------------------------------------------------------
\* The inductive invariant holds in every reachable state.
THEOREM Invariance == Spec => []Inv
<1>1. Inv /\ [Next]_vars => Inv'
  BY InvStep
<1> QED
  BY <1>1, InvInit, PTL DEF Spec

\* Every variable keeps its type, whatever the intervals; the hand never leaves
\* the wheel and rotation_, a size_t in the code, never wraps below 0.
THEOREM TypeCorrect == Spec => []TypeOK
<1>1. Inv => TypeOK
  BY DEF Inv
<1> QED
  BY <1>1, Invariance, PTL

\* A timer that was not cancelled and has not fired for the last time is in the
\* wheel or on its way there, except a repeating one whose interval is a multiple
\* of a turn, whatever the intervals, users and threads.
THEOREM OnlyWholeTurnsLost == Spec => []LostOnlyOnWholeTurns
<1>1. Inv => LostOnlyOnWholeTurns
  BY DEF Inv, PlaceInv
<1> QED
  BY <1>1, Invariance, PTL

\* A queued cancellation and a task that returns find the timer they are about,
\* whatever the intervals.
THEOREM NothingStale == Spec => []NoStaleTimer
<1>1. Inv => NoStaleTimer
  BY DEF Inv
<1> QED
  BY <1>1, Invariance, PTL

\* handle_timeout() calls a task exactly interval_ ticks after the timer was put
\* in the wheel or was last called; only if interval_ is a multiple of the size
\* of the wheel, the call may be late, and then by exactly one turn.
THEOREM LateByATurnAtMost == Spec => []LateByOneTurn
<1>1. Inv => LateByOneTurn
  <2> SUFFICES ASSUME Inv, running # NoTimer
               PROVE  \/ age[running] = interval_[running]
                      \/ /\ interval_[running] % Count_Ticks = 0
                         /\ age[running] = interval_[running] + Count_Ticks
    BY DEF LateByOneTurn
  <2>1. running \in Addr /\ rotation_[running] = 0
    BY DEF Inv, TypeOK, HandInv
  <2>2. running \in InWheel
    BY <2>1, RunningFacts
  <2>3. Left(running) = 0
    BY <2>1, TicksAssumption DEF Left, Distance
  <2>4. age[running] \in Nat
    BY <2>1 DEF Inv, TypeOK
  <2> QED
    BY <2>2, <2>3, <2>4 DEF Inv, TimeInv, Due
<1> QED
  BY <1>1, Invariance, PTL

\* Without intervals of whole turns no timer is lost and none is late.
LEMMA Exact ==
    ASSUME Inv, NoWholeTurn
    PROVE  ScheduledOnce /\ \A a \in InWheel : age[a] + Left(a) = interval_[a]
<1>1. ScheduledOnce
  <2>1. \A a \in live : interval_[a] % Count_Ticks # 0
    BY DEF Inv, PostInv, NoWholeTurn
  <2> QED
    BY <2>1 DEF Inv, PlaceInv, LostOnlyOnWholeTurns, ScheduledOnce
<1>2. ASSUME NEW a \in InWheel
      PROVE  age[a] + Left(a) = interval_[a]
  <2>1. interval_[a] % Count_Ticks # 0
    BY WheelFacts DEF Inv, PostInv, NoWholeTurn
  <2> QED
    BY <2>1 DEF Inv, TimeInv, Due
<1> QED
  BY <1>1, <1>2

LEMMA ExactNext ==
    ASSUME Inv', NoWholeTurn
    PROVE  ScheduledOnce' /\ \A a \in InWheel' : age'[a] + Left(a)' = interval_'[a]
<1>1. ScheduledOnce'
  <2>1. \A a \in live' : interval_'[a] % Count_Ticks # 0
    BY DEF Inv, PostInv, NoWholeTurn
  <2> QED
    BY <2>1 DEF Inv, PlaceInv, LostOnlyOnWholeTurns, ScheduledOnce
<1>2. ASSUME NEW a \in InWheel'
      PROVE  age'[a] + Left(a)' = interval_'[a]
  <2>1. interval_'[a] \in Intervals
    BY DEF Inv, PlaceInv, PostInv
  <2>2. interval_'[a] % Count_Ticks # 0
    BY <2>1 DEF NoWholeTurn
  <2> QED
    BY <2>2 DEF Inv, TimeInv, Due
<1> QED
  BY <1>1, <1>2

\* Whatever the loop thread and the other threads add and cancel, in whatever
\* order: a timer that add_timer() allocated is in one bucket or in one queued
\* closure until it is deleted, and in none afterwards.
THEOREM Scheduled ==
    ASSUME NoWholeTurn
    PROVE  Spec => []ScheduledOnce
<1>1. Inv => ScheduledOnce
  BY Exact
<1> QED
  BY <1>1, Invariance, PTL

\* handle_timeout() calls a task exactly interval_ ticks after the timer was put
\* in the wheel or was last called, for any size of the wheel and any interval
\* but the multiples of that size.
THEOREM CalledOnTime ==
    ASSUME NoWholeTurn
    PROVE  Spec => []OnTime
<1>1. Inv /\ LateByOneTurn => OnTime
  <2> SUFFICES ASSUME Inv, LateByOneTurn, running # NoTimer
               PROVE  age[running] = interval_[running]
    BY DEF OnTime
  <2>1. running \in Addr
    BY DEF Inv, TypeOK
  <2>2. interval_[running] \in Intervals
    BY <2>1, RunningFacts
  <2> QED
    BY <2>2 DEF LateByOneTurn, NoWholeTurn
<1> QED
  BY <1>1, Invariance, LateByATurnAtMost, PTL

----------------------------------------------------------------------------
(***************************************************************************)
(* The wheel implements TimerService.  By Inv the ticks left of a timer    *)
(* are its interval less its age, and the timers in the wheel are the      *)
(* allocated ones that are not on their way to the loop thread; so what a  *)
(* step does to the abstract timers is read off live, posted, interval_,   *)
(* repeat_ and age, without slots and rotations.                           *)
(***************************************************************************)
LeftOf == [a \in Addr |-> IF a \in InWheel THEN Left(a) ELSE -1]
EveryOf == [a \in Addr |-> IF a \in InWheel /\ repeat_[a] THEN interval_[a] ELSE 0]

LEMMA LeftOfIs ==
    ASSUME NoWholeTurn, Inv, NEW a \in Addr
    PROVE  LeftOf[a] = IF a \in InWheel THEN interval_[a] - age[a] ELSE -1
<1>1. CASE a \in InWheel
  <2>1. age[a] + Left(a) = interval_[a]
    BY <1>1, Exact
  <2>2. Left(a) \in Int
    BY TicksAssumption DEF Inv, TypeOK, Left, Distance, Slots
  <2>3. age[a] \in Int
    BY DEF Inv, TypeOK
  <2> QED
    BY <1>1, <2>1, <2>2, <2>3 DEF LeftOf
<1> QED
  BY <1>1 DEF LeftOf

LEMMA LeftOfIsNext ==
    ASSUME NoWholeTurn, Inv', NEW a \in Addr
    PROVE  LeftOf'[a] = IF a \in InWheel' THEN interval_'[a] - age'[a] ELSE -1
<1>1. CASE a \in InWheel'
  <2>1. age'[a] + Left(a)' = interval_'[a]
    BY <1>1, ExactNext
  <2>2. Left(a)' \in Int
    BY TicksAssumption DEF Inv, TypeOK, Left, Distance, Slots
  <2>3. age'[a] \in Int
    BY DEF Inv, TypeOK
  <2> QED
    BY <1>1, <2>1, <2>2, <2>3 DEF LeftOf
<1> QED
  BY <1>1 DEF LeftOf

LEMMA InWheelIs ==
    ASSUME NoWholeTurn, Inv, Inv'
    PROVE  /\ InWheel = live \ PostedFor("add")
           /\ InWheel' = live' \ PostedFor("add")'
           /\ InWheel \subseteq Addr /\ InWheel \subseteq live
  BY Exact, ExactNext DEF Inv, TypeOK, ScheduledOnce

\* What a step that concerns the timer at address a does to the abstract timers.
LEMMA OneChanged ==
    ASSUME NoWholeTurn, Inv, Inv', NEW a \in Addr,
           \A b \in Addr \ {a} :
              /\ b \in InWheel' <=> b \in InWheel
              /\ b \in InWheel => /\ interval_'[b] = interval_[b] /\ repeat_'[b] = repeat_[b]
                                  /\ age'[b] = age[b]
    PROVE  /\ LeftOf' = [LeftOf EXCEPT ![a] =
                            IF a \in InWheel' THEN interval_'[a] - age'[a] ELSE -1]
           /\ EveryOf' = [EveryOf EXCEPT ![a] =
                            IF a \in InWheel' /\ repeat_'[a] THEN interval_'[a] ELSE 0]
<1> DEFINE l == IF a \in InWheel' THEN interval_'[a] - age'[a] ELSE -1
<1> DEFINE e == IF a \in InWheel' /\ repeat_'[a] THEN interval_'[a] ELSE 0
<1>1. \A b \in Addr : LeftOf'[b] = IF b = a THEN l ELSE LeftOf[b]
  BY LeftOfIs, LeftOfIsNext
<1>2. \A b \in Addr : EveryOf'[b] = IF b = a THEN e ELSE EveryOf[b]
  BY DEF EveryOf
<1> HIDE DEF l, e
<1>3. LeftOf' = [b \in Addr |-> LeftOf'[b]] /\ LeftOf = [b \in Addr |-> LeftOf[b]]
  BY DEF LeftOf
<1>4. EveryOf' = [b \in Addr |-> EveryOf'[b]] /\ EveryOf = [b \in Addr |-> EveryOf[b]]
  BY DEF EveryOf
<1>5. LeftOf' = [LeftOf EXCEPT ![a] = l]
  BY <1>1, <1>3
<1>6. EveryOf' = [EveryOf EXCEPT ![a] = e]
  BY <1>2, <1>4
<1> QED
  BY <1>5, <1>6 DEF l, e

LEMMA NothingChanged ==
    ASSUME NoWholeTurn, Inv, Inv', InWheel' = InWheel, running' = running,
           \A b \in InWheel : /\ interval_'[b] = interval_[b] /\ repeat_'[b] = repeat_[b]
                              /\ age'[b] = age[b]
    PROVE  UNCHANGED Service!vars
<1>1. \A b \in Addr : LeftOf'[b] = LeftOf[b] /\ EveryOf'[b] = EveryOf[b]
  BY LeftOfIs, LeftOfIsNext DEF EveryOf
<1>2. LeftOf' = LeftOf
  <2>1. LeftOf' = [b \in Addr |-> LeftOf'[b]] /\ LeftOf = [b \in Addr |-> LeftOf[b]]
    BY DEF LeftOf
  <2> QED
    BY <1>1, <2>1
<1>3. EveryOf' = EveryOf
  <2>1. EveryOf' = [b \in Addr |-> EveryOf'[b]] /\ EveryOf = [b \in Addr |-> EveryOf[b]]
    BY DEF EveryOf
  <2> QED
    BY <1>1, <2>1
<1> QED
  BY <1>2, <1>3 DEF Service!vars, LeftOf, EveryOf

\* A timer is due exactly when handle_timeout is about to call it or calls it.
LEMMA DueIs ==
    ASSUME Inv, NEW a \in InWheel
    PROVE  /\ Left(a) \in Int /\ Left(a) >= 0
           /\ Left(a) = 0 <=> a \in todo \cup {running} /\ rotation_[a] = 0
<1>1. /\ a \in Addr /\ slot_[a] \in Slots /\ cur_slot_ \in Slots /\ rotation_[a] \in Nat
  BY WheelFacts DEF Inv, TypeOK
<1>2. Distance(a) \in Nat /\ (a \notin todo \cup {running} => Distance(a) > 0)
      /\ (a \in todo \cup {running} => Distance(a) = 0)
  BY <1>1, TicksAssumption DEF Distance, Slots
<1>3. Count_Ticks * rotation_[a] \in Nat /\ (rotation_[a] > 0 => Count_Ticks * rotation_[a] > 0)
      /\ (rotation_[a] = 0 => Count_Ticks * rotation_[a] = 0)
  <2>1. Count_Ticks \in Nat /\ Count_Ticks > 1
    BY TicksAssumption
  <2> QED
    BY <1>1, <2>1
<1> QED
  BY <1>1, <1>2, <1>3 DEF Left

LEMMA Armed ==
    ASSUME NoWholeTurn, Inv, Inv', NEW a \in Addr, NEW i \in Intervals, a \notin InWheel,
           InWheel' = InWheel \cup {a}, interval_'[a] = i, age'[a] = 0, running' = running,
           \A b \in Addr \ {a} : /\ interval_'[b] = interval_[b] /\ repeat_'[b] = repeat_[b]
                                 /\ age'[b] = age[b]
    PROVE  Service!Arm(a, i)
<1> DEFINE e == IF repeat_'[a] THEN i ELSE 0
<1>1. i \in Int
  BY IntervalsAssumption
<1>2. LeftOf[a] = -1
  BY LeftOfIs
<1>3. LeftOf' = [LeftOf EXCEPT ![a] = i]
  BY <1>1, OneChanged
<1>4. EveryOf' = [EveryOf EXCEPT ![a] = e]
  BY OneChanged
<1>5. e \in {0, i}
  OBVIOUS
<1> HIDE DEF e
<1> QED
  BY <1>2, <1>3, <1>4, <1>5 DEF Service!Arm, LeftOf, EveryOf

LEMMA Cancelled ==
    ASSUME NoWholeTurn, Inv, Inv', NEW a \in InWheel, a # running,
           InWheel' = InWheel \ {a}, running' = running,
           \A b \in Addr \ {a} : /\ interval_'[b] = interval_[b] /\ repeat_'[b] = repeat_[b]
                                 /\ age'[b] = age[b]
    PROVE  a \in Addr /\ Service!Cancel(a)
<1>1. a \in Addr
  BY WheelFacts
<1>2. LeftOf[a] >= 0
  BY <1>1, DueIs DEF LeftOf
<1>3. LeftOf' = [LeftOf EXCEPT ![a] = -1] /\ EveryOf' = [EveryOf EXCEPT ![a] = 0]
  BY <1>1, OneChanged
<1> QED
  BY <1>1, <1>2, <1>3 DEF Service!Cancel, LeftOf, EveryOf

LEMMA UsersRefine ==
    ASSUME NoWholeTurn, Inv, Inv', Users
    PROVE  Service!Next \/ UNCHANGED Service!vars
<1>0. /\ InWheel = live \ PostedFor("add") /\ InWheel' = live' \ PostedFor("add")'
      /\ InWheel \subseteq Addr /\ InWheel \subseteq live
  BY InWheelIs
<1>1. ASSUME NEW a \in Addr, NEW i \in Intervals, NEW r \in BOOLEAN, add_timer(a, i, r)
      PROVE  Service!Arm(a, i)
  <2>1. /\ new_Timer(a, i, r) /\ Placed(a, i) /\ posted' = posted /\ running' = running
    BY <1>1 DEF add_timer, add_timer_loop
  <2>2. /\ a \notin InWheel /\ a \notin PostedFor("add") /\ live' = live \cup {a}
        /\ interval_'[a] = i
        /\ \A b \in Addr \ {a} : interval_'[b] = interval_[b] /\ repeat_'[b] = repeat_[b]
    BY <2>1, NewTimer
  <2>3. age'[a] = 0 /\ \A b \in Addr \ {a} : age'[b] = age[b]
    BY <2>1 DEF Placed, Inv, TypeOK
  <2>4. InWheel' = InWheel \cup {a}
    BY <1>0, <2>1, <2>2 DEF PostedFor
  <2> QED
    BY <2>1, <2>2, <2>3, <2>4, Armed
<1>2. ASSUME NEW a \in Addr, NEW i \in Intervals, NEW r \in BOOLEAN, add_timer_posted(a, i, r)
      PROVE  UNCHANGED Service!vars
  <2>1. /\ new_Timer(a, i, r) /\ UNCHANGED <<wheel_, running, age>>
    BY <1>2 DEF add_timer_posted
  <2>2. InWheel' = InWheel
    BY <2>1 DEF InWheel
  <2>3. \A b \in InWheel : interval_'[b] = interval_[b] /\ repeat_'[b] = repeat_[b]
    BY <1>0, <2>1, NewTimer
  <2> QED
    BY <2>1, <2>2, <2>3, NothingChanged
<1>3. ASSUME NEW a \in Addr, del_timer(a)
      PROVE  Service!Cancel(a)
  <2>1. a \in InWheel /\ a # running /\ running' = running /\ posted' = posted
    BY <1>3 DEF del_timer
  <2>2. delete(a)
    BY <1>3, <2>1, WheelFacts DEF del_timer, del_timer_loop
  <2>3. InWheel' = InWheel \ {a}
    BY <1>0, <2>1, <2>2 DEF delete, PostedFor
  <2>4. \A b \in Addr \ {a} : /\ interval_'[b] = interval_[b] /\ repeat_'[b] = repeat_[b]
                              /\ age'[b] = age[b]
    BY <2>2 DEF delete, Inv, TypeOK
  <2> QED
    BY <2>1, <2>3, <2>4, Cancelled
<1>4. ASSUME NEW a \in Addr, del_timer_posted(a)
      PROVE  UNCHANGED Service!vars
  <2>1. UNCHANGED <<wheel_, interval_, repeat_, age, running>>
    BY <1>4 DEF del_timer_posted, fields
  <2>2. InWheel' = InWheel
    BY <2>1 DEF InWheel
  <2> QED
    BY <2>1, <2>2, NothingChanged
<1> QED
  BY <1>1, <1>2, <1>3, <1>4 DEF Users, Service!Next

LEMMA ClosuresRefine ==
    ASSUME NoWholeTurn, Inv, Inv', RunAdd \/ RunDel
    PROVE  Service!Next \/ UNCHANGED Service!vars
<1>0. /\ InWheel = live \ PostedFor("add") /\ InWheel' = live' \ PostedFor("add")'
      /\ InWheel \subseteq Addr /\ InWheel \subseteq live
  BY InWheelIs
<1>1. posted # <<>> /\ posted' = Tail(posted) /\ running' = running
  BY DEF RunAdd, RunDel
<1>pick. PICK a, o : a = Head(posted).timer /\ o = Head(posted).op
  OBVIOUS
<1>2. /\ a \in Addr /\ a \in live /\ a \in PostedFor(o)
      /\ PostedFor(o)' = PostedFor(o) \ {a} /\ \A p : p # o => PostedFor(p)' = PostedFor(p)
  BY <1>1, <1>pick, PostedTail
<1>3. CASE RunAdd
  <2>1. /\ o = "add" /\ Placed(a, interval_[a])
        /\ UNCHANGED <<live, interval_, repeat_>>
    BY <1>3, <1>pick DEF RunAdd, add_timer_loop
  <2>2. PICK i \in Intervals : i = interval_[a]
    BY <1>2 DEF Inv, PostInv
  <2>3. age'[a] = 0 /\ \A b \in Addr \ {a} : age'[b] = age[b]
    BY <1>2, <2>1 DEF Placed, Inv, TypeOK
  <2>4. a \notin InWheel /\ InWheel' = InWheel \cup {a}
    BY <1>0, <1>2, <2>1
  <2>5. Service!Arm(a, i)
    BY <1>1, <1>2, <2>1, <2>2, <2>3, <2>4, Armed
  <2> QED
    BY <1>2, <2>2, <2>5 DEF Service!Next
<1>4. CASE RunDel
  <2>1. o = "del" /\ del_timer_loop(a) /\ running = NoTimer
    BY <1>4, <1>pick DEF RunDel, LoopIdle
  <2>2. CASE a \in wheel_[slot_[a]]
    <3>1. delete(a)
      BY <2>1, <2>2 DEF del_timer_loop
    <3>2. a \in InWheel /\ a # running
      BY <1>2, <2>1, <2>2, InWheelMember, AddrAssumption DEF Inv, TypeOK
    <3>3. InWheel' = InWheel \ {a}
      BY <1>0, <1>2, <2>1, <3>1 DEF delete
    <3>4. \A b \in Addr \ {a} : /\ interval_'[b] = interval_[b] /\ repeat_'[b] = repeat_[b]
                                /\ age'[b] = age[b]
      BY <3>1 DEF delete, Inv, TypeOK
    <3>5. Service!Cancel(a)
      BY <1>1, <3>2, <3>3, <3>4, Cancelled
    <3> QED
      BY <1>2, <3>5 DEF Service!Next
  <2>3. CASE a \notin wheel_[slot_[a]]
    <3>1. UNCHANGED <<wheel_, interval_, repeat_, age>>
      BY <2>1, <2>3 DEF del_timer_loop, fields
    <3>2. InWheel' = InWheel
      BY <3>1 DEF InWheel
    <3> QED
      BY <1>1, <3>1, <3>2, NothingChanged
  <2> QED
    BY <2>2, <2>3
<1> QED
  BY <1>3, <1>4

LEMMA TimeoutRefines ==
    ASSUME NoWholeTurn, Inv, Inv', handle_timeout
    PROVE  Service!Tick
<1>0. /\ todo = {} /\ running = NoTimer /\ running' = running
      /\ age' = [a \in Addr |-> IF a \in InWheel THEN age[a] + 1 ELSE age[a]]
      /\ UNCHANGED <<wheel_, interval_, repeat_>>
  BY DEF handle_timeout, LoopIdle, fields
<1>1. InWheel' = InWheel
  BY <1>0 DEF InWheel
<1>2. \A a \in Addr : LeftOf[a] # 0
  BY <1>0, DueIs, WheelFacts DEF LeftOf
<1>3. \A a \in Addr : LeftOf'[a] = IF LeftOf[a] = -1 THEN -1 ELSE LeftOf[a] - 1
  <2> SUFFICES ASSUME NEW a \in Addr
               PROVE  LeftOf'[a] = IF LeftOf[a] = -1 THEN -1 ELSE LeftOf[a] - 1
    OBVIOUS
  <2>1. CASE a \in InWheel
    <3>1. LeftOf[a] \in Int /\ LeftOf[a] >= 0 /\ LeftOf[a] = interval_[a] - age[a]
      BY <2>1, DueIs, LeftOfIs DEF LeftOf
    <3>2. LeftOf'[a] = interval_[a] - (age[a] + 1)
      BY <1>0, <1>1, <2>1, LeftOfIsNext
    <3>3. age[a] \in Nat /\ interval_[a] \in Intervals
      BY <2>1, WheelFacts DEF Inv, TypeOK, PostInv
    <3>4. interval_[a] \in Nat
      BY <3>3, IntervalsAssumption
    <3> QED
      BY <3>1, <3>2, <3>3, <3>4
  <2>2. CASE a \notin InWheel
    BY <1>1, <2>2, LeftOfIs, LeftOfIsNext
  <2> QED
    BY <2>1, <2>2
<1>4. LeftOf' = [a \in Addr |-> IF LeftOf[a] = -1 THEN -1 ELSE LeftOf[a] - 1]
  <2>1. LeftOf' = [a \in Addr |-> LeftOf'[a]]
    BY DEF LeftOf
  <2> QED
    BY <1>3, <2>1
<1>5. EveryOf' = EveryOf
  BY <1>0, <1>1 DEF EveryOf
<1> QED
  BY <1>0, <1>2, <1>4, <1>5 DEF Service!Tick, LeftOf, EveryOf

LEMMA RoundsRefine ==
    ASSUME NoWholeTurn, Inv, Inv', NEW a \in Addr,
           \/ handle_timeout_rotate(a) \/ handle_timeout_call(a)
           \/ handle_timeout_repeat(a) \/ handle_timeout_delete(a)
    PROVE  Service!Next \/ UNCHANGED Service!vars
<1>0. /\ InWheel = live \ PostedFor("add") /\ InWheel' = live' \ PostedFor("add")'
      /\ InWheel \subseteq Addr
  BY InWheelIs
<1>1. CASE handle_timeout_rotate(a)
  <2>1. UNCHANGED <<wheel_, interval_, repeat_, age, running>>
    BY <1>1 DEF handle_timeout_rotate
  <2>2. InWheel' = InWheel
    BY <2>1 DEF InWheel
  <2> QED
    BY <2>1, <2>2, NothingChanged
<1>2. CASE handle_timeout_call(a)
  <2>1. /\ UNCHANGED <<wheel_, interval_, repeat_, age>>
        /\ running = NoTimer /\ a \in todo /\ rotation_[a] = 0 /\ running' = a
    BY <1>2 DEF handle_timeout_call, fields
  <2>2. InWheel' = InWheel
    BY <2>1 DEF InWheel
  <2>3. a \in InWheel
    BY <2>1, InWheelMember DEF Inv, HandInv, TypeOK
  <2>4. LeftOf[a] = 0
    BY <2>1, <2>3, DueIs DEF LeftOf
  <2>5. LeftOf' = LeftOf
    <3>1. LeftOf' = [b \in Addr |-> LeftOf'[b]] /\ LeftOf = [b \in Addr |-> LeftOf[b]]
      BY DEF LeftOf
    <3>2. \A b \in Addr : LeftOf'[b] = LeftOf[b]
      BY <2>1, <2>2, LeftOfIs, LeftOfIsNext
    <3> QED
      BY <3>1, <3>2
  <2>6. EveryOf' = EveryOf
    BY <2>1, <2>2 DEF EveryOf
  <2>7. Service!Call(a)
    BY <2>1, <2>4, <2>5, <2>6 DEF Service!Call, LeftOf, EveryOf
  <2> QED
    BY <2>7 DEF Service!Next
<1>3. CASE handle_timeout_repeat(a)
  <2>1. /\ running = a /\ Placed(a, interval_[a]) /\ running' = NoTimer
        /\ UNCHANGED <<live, interval_, repeat_, posted>>
    BY <1>3 DEF handle_timeout_repeat
  <2>2. repeat_[a]
    BY <1>3 DEF handle_timeout_repeat
  <2>3. InWheel' = InWheel /\ a \in InWheel /\ interval_[a] \in Intervals
    BY <1>0, <2>1, RunningFacts DEF PostedFor
  <2>4. interval_[a] \in Nat \ {0}
    BY <2>3, IntervalsAssumption
  <2>5. age'[a] = 0 /\ \A b \in Addr \ {a} : age'[b] = age[b]
    BY <2>1 DEF Placed, Inv, TypeOK
  <2>6. LeftOf' = [LeftOf EXCEPT ![a] =
                      IF a \in InWheel' THEN interval_'[a] - age'[a] ELSE -1]
    BY <2>1, <2>3, <2>5, OneChanged
  <2>7. LeftOf' = [LeftOf EXCEPT ![a] = interval_[a]]
    <3>1. (IF a \in InWheel' THEN interval_'[a] - age'[a] ELSE -1) = interval_[a]
      BY <2>1, <2>3, <2>4, <2>5
    <3> QED
      BY <2>6, <3>1
  <2>8. EveryOf' = EveryOf /\ EveryOf[a] = interval_[a]
    BY <2>1, <2>2, <2>3 DEF EveryOf
  <2>9. LeftOf' = [LeftOf EXCEPT ![a] = IF EveryOf[a] = 0 THEN -1 ELSE EveryOf[a]]
    BY <2>4, <2>7, <2>8
  <2>10. Service!Return(a)
    BY <2>1, <2>8, <2>9 DEF Service!Return, LeftOf, EveryOf
  <2> QED
    BY <2>10 DEF Service!Next
<1>4. CASE handle_timeout_delete(a)
  <2>1. running = a /\ delete(a) /\ running' = NoTimer /\ posted' = posted
    BY <1>4 DEF handle_timeout_delete
  <2>2. ~repeat_[a]
    BY <1>4 DEF handle_timeout_delete
  <2>3. InWheel' = InWheel \ {a}
    BY <1>0, <2>1 DEF delete, PostedFor
  <2>4. \A b \in Addr \ {a} : /\ interval_'[b] = interval_[b] /\ repeat_'[b] = repeat_[b]
                              /\ age'[b] = age[b]
    BY <2>1 DEF delete, Inv, TypeOK
  <2>5. LeftOf' = [LeftOf EXCEPT ![a] = -1] /\ EveryOf' = [EveryOf EXCEPT ![a] = 0]
    BY <2>3, <2>4, OneChanged
  <2>6. EveryOf[a] = 0
    BY <2>2 DEF EveryOf
  <2>7. EveryOf' = EveryOf
    BY <2>5, <2>6 DEF EveryOf
  <2>8. LeftOf' = [LeftOf EXCEPT ![a] = IF EveryOf[a] = 0 THEN -1 ELSE EveryOf[a]]
    BY <2>5, <2>6
  <2>9. Service!Return(a)
    BY <2>1, <2>7, <2>8 DEF Service!Return, LeftOf, EveryOf
  <2> QED
    BY <2>9 DEF Service!Next
<1> QED
  BY <1>1, <1>2, <1>3, <1>4

\* The wheel implements TimerService: a timer counts down by one a tick from
\* the interval it was added with, is called at zero, before the next tick, and
\* starts over or is gone; a cancelled timer is not called.
THEOREM WheelRefinesService ==
    ASSUME NoWholeTurn
    PROVE  Spec => ImplementsService
<1>1. Init => Service!Init
  <2> SUFFICES ASSUME Init PROVE Service!Init
    OBVIOUS
  <2>1. InWheel = {} /\ running = NoTimer
    BY InWheelMember DEF Init
  <2>2. LeftOf = [a \in Addr |-> -1] /\ EveryOf = [a \in Addr |-> 0]
    BY <2>1 DEF LeftOf, EveryOf
  <2> QED
    BY <2>1, <2>2 DEF Service!Init, LeftOf, EveryOf
<1>2. Inv /\ Inv' /\ [Next]_vars => [Service!Next]_(Service!vars)
  <2> SUFFICES ASSUME Inv, Inv', [Next]_vars
               PROVE  Service!Next \/ UNCHANGED Service!vars
    OBVIOUS
  <2>1. CASE Users
    BY <2>1, UsersRefine
  <2>2. CASE Loop
    <3>1. CASE RunAdd \/ RunDel
      BY <3>1, ClosuresRefine
    <3>2. CASE handle_timeout
      BY <3>2, TimeoutRefines DEF Service!Next
    <3>3. CASE \E a \in Addr : \/ handle_timeout_rotate(a) \/ handle_timeout_call(a)
                              \/ handle_timeout_repeat(a) \/ handle_timeout_delete(a)
      BY <3>3, RoundsRefine
    <3> QED
      BY <2>2, <3>1, <3>2, <3>3 DEF Loop
  <2>3. CASE UNCHANGED vars
    <3>1. UNCHANGED <<wheel_, interval_, repeat_, age, running>>
      BY <2>3 DEF vars, fields
    <3>2. InWheel' = InWheel
      BY <3>1 DEF InWheel
    <3> QED
      BY <3>1, <3>2, NothingChanged
  <2> QED
    BY <2>1, <2>2, <2>3 DEF Next
<1> QED
  BY <1>1, <1>2, Invariance, PTL DEF Spec, ImplementsService, Service!Spec
=============================================================================
