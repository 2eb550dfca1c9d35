-------------------------- MODULE FrameRingProofs ---------------------------
(***************************************************************************)
(* The safety of the frame ring for every RING_SIZE that divides the range *)
(* of the indices, and for every set of frames.                            *)
(***************************************************************************)
EXTENDS FrameRing, TLAPS

USE DEF Index, Slot

-----------------------------------------------------------------------------
(* Arithmetic of the wrapping indices                                      *)

\* The number of entries is exact across a wrap of the uint32_t indices.
LEMMA DistanceValue ==
    ASSUME NEW h \in Index, NEW t \in Index
    PROVE  /\ Distance(h, t) = IF h >= t THEN h - t ELSE h - t + IndexMod
           /\ Distance(h, t) \in 0 .. IndexMod - 1
  BY RingAssumption DEF Distance

LEMMA SuccValue ==
    ASSUME NEW i \in Index
    PROVE  /\ Succ(i) = IF i + 1 = IndexMod THEN 0 ELSE i + 1
           /\ Succ(i) \in Index
  BY RingAssumption DEF Succ

\* An increment of the head adds one entry to a ring with room.
LEMMA DistanceSuccHead ==
    ASSUME NEW h \in Index, NEW t \in Index, Distance(h, t) < RingSize
    PROVE  Distance(Succ(h), t) = Distance(h, t) + 1
  <1> DEFINE n == Succ(h)
  <1>1. /\ n = IF h + 1 = IndexMod THEN 0 ELSE h + 1
        /\ n \in Index
    BY SuccValue
  <1>2. Distance(n, t) = IF n >= t THEN n - t ELSE n - t + IndexMod
    BY <1>1, DistanceValue
  <1>3. Distance(h, t) = IF h >= t THEN h - t ELSE h - t + IndexMod
    BY DistanceValue
  <1> QED
    BY <1>1, <1>2, <1>3, RingAssumption

\* An increment of the tail removes one entry from a ring that has one.
LEMMA DistanceSuccTail ==
    ASSUME NEW h \in Index, NEW t \in Index, Distance(h, t) > 0
    PROVE  Distance(h, Succ(t)) = Distance(h, t) - 1
  <1> DEFINE n == Succ(t)
  <1>1. /\ n = IF t + 1 = IndexMod THEN 0 ELSE t + 1
        /\ n \in Index
    BY SuccValue
  <1>2. Distance(h, n) = IF h >= n THEN h - n ELSE h - n + IndexMod
    BY <1>1, DistanceValue
  <1>3. Distance(h, t) = IF h >= t THEN h - t ELSE h - t + IndexMod
    BY DistanceValue
  <1> QED
    BY <1>1, <1>2, <1>3, RingAssumption

LEMMA DistanceZero ==
    ASSUME NEW h \in Index, NEW t \in Index
    PROVE  (Distance(h, t) = 0) <=> (h = t)
  <1>1. Distance(h, t) = IF h >= t THEN h - t ELSE h - t + IndexMod
    BY DistanceValue
  <1> QED
    BY <1>1, RingAssumption

LEMMA SlotOfType == ASSUME NEW i \in Int PROVE SlotOf(i) \in Slot
  BY RingAssumption DEF SlotOf

\* A positive number below RingSize is no multiple of it.
LEMMA NoMultiple ==
    ASSUME NEW d \in Int, NEW u \in 1 .. RingSize - 1
    PROVE  RingSize * d # u
  <1>1. CASE d >= 1
    <2>1. RingSize * d >= RingSize * 1
      BY <1>1, RingAssumption
    <2> QED
      BY <2>1, RingAssumption
  <1>2. CASE d <= 0
    <2>1. RingSize * d <= 0
      BY <1>2, RingAssumption
    <2> QED
      BY <2>1, RingAssumption
  <1> QED
    BY <1>1, <1>2

\* Two positions less than RingSize apart are different slots.
LEMMA CloseSlotsDiffer ==
    ASSUME NEW i \in Int, NEW u \in 1 .. RingSize - 1
    PROVE  SlotOf(i + u) # SlotOf(i)
  <1> DEFINE a == (i + u) \div RingSize
             b == i \div RingSize
  <1>1. /\ a \in Int /\ b \in Int
        /\ i + u = RingSize * a + SlotOf(i + u)
        /\ i = RingSize * b + SlotOf(i)
    BY RingAssumption DEF SlotOf
  <1>2. RingSize * (a - b) = RingSize * a - RingSize * b
    BY <1>1, RingAssumption
  <1>3. ASSUME SlotOf(i + u) = SlotOf(i)
        PROVE  FALSE
    <2>1. RingSize * (a - b) = u
      BY <1>1, <1>2, <1>3, SlotOfType, RingAssumption
    <2> QED
      BY <2>1, <1>1, NoMultiple
  <1> QED
    BY <1>3

\* The wrap of an index does not change its slot: RingSize divides IndexMod.
LEMMA SlotOfWrap ==
    ASSUME NEW i \in Int
    PROVE  SlotOf(i + IndexMod) = SlotOf(i)
  <1> DEFINE k == IndexMod \div RingSize
             q == (i + IndexMod) \div RingSize
             p == i \div RingSize
  <1>1. /\ k \in Int /\ q \in Int /\ p \in Int
        /\ IndexMod = RingSize * k
        /\ i + IndexMod = RingSize * q + SlotOf(i + IndexMod)
        /\ i = RingSize * p + SlotOf(i)
    BY RingAssumption DEF SlotOf
  <1>2. RingSize * (q - p - k) = RingSize * q - RingSize * p - RingSize * k
    BY <1>1, RingAssumption
  <1>3. RingSize * (p + k - q) = RingSize * p + RingSize * k - RingSize * q
    BY <1>1, RingAssumption
  <1>4. /\ SlotOf(i) \in Slot /\ SlotOf(i + IndexMod) \in Slot
        /\ q - p - k \in Int /\ p + k - q \in Int
    BY <1>1, SlotOfType, RingAssumption
  <1> HIDE DEF k, q, p
  <1>5. /\ RingSize * k \in Int /\ RingSize * q \in Int /\ RingSize * p \in Int
    BY <1>1, RingAssumption
  <1>6. IndexMod \in Int
    BY RingAssumption
  <1> DEFINE x == SlotOf(i)
             y == SlotOf(i + IndexMod)
             kk == RingSize * k
             qq == RingSize * q
             pp == RingSize * p
  <1>7. x \in Int /\ y \in Int
    BY <1>4, RingAssumption
  <1>8. /\ kk \in Int /\ qq \in Int /\ pp \in Int
        /\ IndexMod = kk /\ i + IndexMod = qq + y /\ i = pp + x
    BY <1>1, <1>5
  <1>9. /\ RingSize * (q - p - k) = qq - pp - kk
        /\ RingSize * (p + k - q) = pp + kk - qq
    BY <1>2, <1>3
  <1> HIDE DEF kk, qq, pp, x, y
  <1>10. qq - pp - kk = x - y /\ pp + kk - qq = y - x
    BY <1>6, <1>7, <1>8
  <1> USE DEF x, y
  <1>11. /\ RingSize * (q - p - k) = SlotOf(i) - SlotOf(i + IndexMod)
        /\ RingSize * (p + k - q) = SlotOf(i + IndexMod) - SlotOf(i)
    BY <1>9, <1>10
  <1>12. CASE SlotOf(i) > SlotOf(i + IndexMod)
    <2>1. SlotOf(i) - SlotOf(i + IndexMod) \in 1 .. RingSize - 1
      BY <1>12, SlotOfType, RingAssumption
    <2> QED
      BY <2>1, <1>4, <1>11, NoMultiple
  <1>13. CASE SlotOf(i) < SlotOf(i + IndexMod)
    <2>1. SlotOf(i + IndexMod) - SlotOf(i) \in 1 .. RingSize - 1
      BY <1>13, SlotOfType, RingAssumption
    <2> QED
      BY <2>1, <1>4, <1>11, NoMultiple
  <1> QED
    BY <1>12, <1>13, SlotOfType, RingAssumption


\* The head is Distance positions after the tail, as slots go.
LEMMA SlotOfHead ==
    ASSUME NEW h \in Index, NEW t \in Index
    PROVE  SlotOf(t + Distance(h, t)) = SlotOf(h)
  <1>1. Distance(h, t) = IF h >= t THEN h - t ELSE h - t + IndexMod
    BY DistanceValue
  <1>2. t + Distance(h, t) = IF h >= t THEN h ELSE h + IndexMod
    BY <1>1, RingAssumption
  <1> QED
    BY <1>2, SlotOfWrap, RingAssumption

\* The slot at the head is none of the entries' while there is room.
LEMMA HeadSlotFree ==
    ASSUME NEW h \in Index, NEW t \in Index, Distance(h, t) < RingSize,
           NEW k \in 1 .. Distance(h, t)
    PROVE  SlotOf(t + k - 1) # SlotOf(h)
  <1> DEFINE d == Distance(h, t)
             i == t + k - 1
             u == d - k + 1
  <1>1. d \in 0 .. IndexMod - 1
    BY DistanceValue
  <1>2. /\ i \in Int
        /\ u \in 1 .. RingSize - 1
        /\ i + u = t + d
    BY <1>1, RingAssumption
  <1>3. SlotOf(t + d) = SlotOf(h)
    BY SlotOfHead
  <1> HIDE DEF d, i, u
  <1>4. SlotOf(i + u) # SlotOf(i)
    BY <1>2, CloseSlotsDiffer
  <1>5. SlotOf(i) # SlotOf(h)
    BY <1>2, <1>3, <1>4
  <1> QED
    BY <1>5 DEF i

\* Counting entries from the next tail is counting from this one, one later.
LEMMA SlotOfSuccTail ==
    ASSUME NEW t \in Index, NEW k \in Int
    PROVE  SlotOf(Succ(t) + k - 1) = SlotOf(t + k)
  <1> DEFINE n == Succ(t)
  <1>1. n = IF t + 1 = IndexMod THEN 0 ELSE t + 1
    BY SuccValue
  <1>2. CASE t + 1 = IndexMod
    <2>1. n + k - 1 = k - 1 /\ k - 1 + IndexMod = t + k /\ k - 1 \in Int
      BY <1>1, <1>2, RingAssumption
    <2> QED
      BY <2>1, SlotOfWrap
  <1>3. CASE t + 1 # IndexMod
    <2>1. n + k - 1 = t + k
      BY <1>1, <1>3, RingAssumption
    <2> QED
      BY <2>1
  <1> QED
    BY <1>2, <1>3

-----------------------------------------------------------------------------
(* The inductive invariant.  TypeOK is not inductive alone: that the frame *)
(* the render thread copies is set needs EntriesFilled, which needs that   *)
(* the ring is never overrun.                                              *)

IInv == TypeOK /\ RingBounded /\ EntriesFilled

LEMMA InitIInv == Init => IInv
<1> SUFFICES ASSUME Init
             PROVE  IInv
  OBVIOUS
<1>1. Used = 0
  BY RingAssumption DEF Init, Used, Distance
<1> QED
  BY <1>1, RingAssumption DEF Init, IInv, TypeOK, RingBounded, EntriesFilled

LEMMA NextIInv == IInv /\ [Next]_vars => IInv'
<1> SUFFICES ASSUME IInv, [Next]_vars
             PROVE  IInv'
  OBVIOUS
<1> USE RingAssumption DEF IInv, TypeOK, shared, dvars, rvars
<1>0. Used \in 0 .. IndexMod - 1
  BY DistanceValue DEF Used
\* The actions that leave the slots and the indices alone
<1>1. ASSUME NEW f \in Frame, Offer(f)
      PROVE  IInv'
  BY <1>1 DEF Offer, RingBounded, EntriesFilled, Entry, Used
<1>2. CASE Drop
  BY <1>2 DEF Drop, RingBounded, EntriesFilled, Entry, Used
<1>3. CASE HasRoom
  <2>1. Used < RingSize
    BY <1>3, <1>0 DEF HasRoom, Full, Used
  <2> QED
    BY <1>3, <2>1 DEF HasRoom, RingBounded, EntriesFilled, Entry, Used
<1>4. CASE Post
  BY <1>4 DEF Post, RingBounded, EntriesFilled, Entry, Used
<1>5. CASE SemWait
  BY <1>5 DEF SemWait, RingBounded, EntriesFilled, Entry, Used
<1>6. CASE Interrupted
  BY <1>6 DEF Interrupted, RingBounded, EntriesFilled, Entry, Used
<1>7. CASE LoadEmpty
  BY <1>7 DEF LoadEmpty, RingBounded, EntriesFilled, Entry, Used
<1>8. CASE LoadNonEmpty
  <2>1. Used > 0
    BY <1>8, <1>0, DistanceZero DEF LoadNonEmpty, Empty, Used
  <2> QED
    BY <1>8, <2>1 DEF LoadNonEmpty, RingBounded, EntriesFilled, Entry, Used
<1>9. CASE CopySlot
  <2>1. Entry(1) = slots[SlotOf(tail)] /\ Entry(1) \in Frame
    BY <1>9, <1>0 DEF CopySlot, RingBounded, EntriesFilled, Entry
  <2> QED
    BY <1>9, <2>1 DEF CopySlot, RingBounded, EntriesFilled, Entry, Used
<1>10. CASE Rendered
  BY <1>10 DEF Rendered, RingBounded, EntriesFilled, Entry, Used
\* The actions on the slots and the indices
<1>11. CASE WriteSlot
  <2>1. /\ Used' = Used /\ Used < RingSize
        /\ SlotOf(head) \in Slot
        /\ slots' = [slots EXCEPT ![SlotOf(head)] = dframe]
        /\ UNCHANGED <<head, tail, sem, dframe, rpc, rframe>>
        /\ dpc = "write" /\ dpc' = "publish"
    BY <1>11, SlotOfType DEF WriteSlot, RingBounded, Used
  <2>2. TypeOK'
    BY <2>1
  <2>3. ASSUME NEW k \in 1 .. Used
        PROVE  Entry(k)' = Entry(k)
    <3>1. SlotOf(tail + k - 1) # SlotOf(head) /\ SlotOf(tail + k - 1) \in Slot
      BY <2>1, <1>0, HeadSlotFree, SlotOfType DEF Used
    <3> QED
      BY <3>1, <2>1 DEF Entry
  <2>4. slots'[SlotOf(head)] = dframe
    BY <2>1
  <2>5. rpc = "advance" => 1 \in 1 .. Used
    BY <1>0 DEF RingBounded
  <2>6. EntriesFilled'
    BY <2>1, <2>3, <2>4, <2>5 DEF EntriesFilled
  <2> QED
    BY <2>1, <2>2, <2>6 DEF RingBounded
<1>12. CASE PublishHead
  <2>1. /\ Used' = Used + 1 /\ Used < RingSize
        /\ head' = Succ(head) /\ head' \in Index
        /\ UNCHANGED <<slots, tail, sem, dframe, rpc, rframe>>
        /\ dpc = "publish" /\ dpc' = "post"
    BY <1>12, DistanceSuccHead, SuccValue DEF PublishHead, RingBounded, Used
  <2>2. TypeOK'
    BY <2>1
  <2>3. \A k \in Int : Entry(k)' = Entry(k)
    BY <2>1 DEF Entry
  <2>4. Entry(Used + 1) = dframe
    <3>1. tail + (Used + 1) - 1 = tail + Used
      BY <1>0
    <3>2. SlotOf(tail + Used) = SlotOf(head)
      BY SlotOfHead DEF Used
    <3> QED
      BY <2>1, <3>1, <3>2 DEF Entry, EntriesFilled
  <2>5. dframe \in Frame
    BY <2>1
  <2>6. EntriesFilled'
    <3>1. \A k \in 1 .. Used' : Entry(k)' \in Frame
      BY <1>0, <2>1, <2>3, <2>4, <2>5 DEF EntriesFilled
    <3> QED
      BY <2>1, <2>3, <3>1 DEF EntriesFilled
  <2> QED
    BY <1>0, <2>1, <2>2, <2>6 DEF RingBounded
<1>13. CASE AdvanceTail
  <2>1. /\ Used' = Used - 1 /\ Used > 0
        /\ tail' = Succ(tail) /\ tail' \in Index
        /\ UNCHANGED <<slots, head, sem, dpc, dframe, rframe>>
        /\ rpc = "advance" /\ rpc' = "render"
    BY <1>13, DistanceSuccTail, SuccValue DEF AdvanceTail, RingBounded, Used
  <2>2. TypeOK'
    BY <2>1
  <2>3. ASSUME NEW k \in Int
        PROVE  Entry(k)' = Entry(k + 1)
    <3>1. SlotOf(tail' + k - 1) = SlotOf(tail + k)
      BY <2>1, SlotOfSuccTail
    <3>2. tail + (k + 1) - 1 = tail + k
      OBVIOUS
    <3> QED
      BY <2>1, <3>1, <3>2 DEF Entry
  <2>4. EntriesFilled'
    <3>1. \A k \in 1 .. Used' : Entry(k)' \in Frame
      BY <1>0, <2>1, <2>3 DEF EntriesFilled
    <3> QED
      BY <2>1, <3>1 DEF EntriesFilled
  <2> QED
    BY <1>0, <2>1, <2>2, <2>4 DEF RingBounded
<1>14. CASE UNCHANGED vars
  BY <1>14 DEF vars, RingBounded, EntriesFilled, Entry, Used
<1> QED
  BY <1>1, <1>2, <1>3, <1>4, <1>5, <1>6, <1>7, <1>8, <1>9, <1>10, <1>11,
     <1>12, <1>13, <1>14 DEF Next, Enqueue, Dequeue

LEMMA IInvHolds == Spec => []IInv
  BY InitIInv, NextIInv, PTL DEF Spec

-----------------------------------------------------------------------------
(* What the steps on the slots and the indices do to the entries           *)

\* The slot written is none of the entries.
LEMMA EntriesAfterWrite ==
    ASSUME IInv, WriteSlot
    PROVE  /\ Used' = Used /\ Used \in Nat
           /\ \A k \in 1 .. Used : Entry(k)' = Entry(k)
<1>1. /\ UNCHANGED <<head, tail>> /\ Used' = Used /\ Used < RingSize
      /\ head \in Index /\ tail \in Index
      /\ slots \in [Slot -> Frame \cup {NoFrame}]
      /\ slots' = [slots EXCEPT ![SlotOf(head)] = dframe]
  BY DEF WriteSlot, IInv, TypeOK, RingBounded, Used
<1>2. Used \in Nat
  BY <1>1, DistanceValue DEF Used
<1>3. ASSUME NEW k \in 1 .. Used
      PROVE  Entry(k)' = Entry(k)
  <2>1. SlotOf(tail + k - 1) # SlotOf(head)
    BY <1>1, HeadSlotFree DEF Used
  <2>2. tail + k - 1 \in Int
    BY <1>1, <1>2, RingAssumption
  <2>3. SlotOf(tail + k - 1) \in Slot
    BY <2>2, SlotOfType
  <2> QED
    BY <1>1, <2>1, <2>3 DEF Entry
<1> QED
  BY <1>1, <1>2, <1>3

\* The frame published is the last entry.
LEMMA EntriesAfterPublish ==
    ASSUME IInv, PublishHead
    PROVE  /\ Used' = Used + 1 /\ Used \in Nat
           /\ \A k \in 1 .. Used : Entry(k)' = Entry(k)
           /\ \A k \in {Used + 1} : Entry(k)' = dframe
<1>1. /\ Used' = Used + 1
      /\ head \in Index /\ tail \in Index
      /\ UNCHANGED <<slots, tail>> /\ slots[SlotOf(head)] = dframe
  BY DistanceSuccHead
  DEF PublishHead, IInv, TypeOK, RingBounded, EntriesFilled, Used
<1>2. Used \in Nat
  BY <1>1, DistanceValue DEF Used
<1>3. tail + (Used + 1) - 1 = tail + Used
  BY <1>1, <1>2, RingAssumption
<1>4. SlotOf(tail + Used) = SlotOf(head)
  BY <1>1, SlotOfHead DEF Used
<1>5. ASSUME NEW k \in {Used + 1}
      PROVE  Entry(k)' = dframe
  <2>1. SlotOf(tail + k - 1) = SlotOf(head)
    BY <1>3, <1>4
  <2> QED
    BY <1>1, <2>1 DEF Entry
<1>6. \A k \in 1 .. Used : Entry(k)' = Entry(k)
  BY <1>1 DEF Entry
<1> QED
  BY <1>1, <1>2, <1>5, <1>6

\* The first entry is the one taken, and the others move up.
LEMMA EntriesAfterAdvance ==
    ASSUME IInv, AdvanceTail
    PROVE  /\ Used' = Used - 1 /\ Used \in Nat \ {0}
           /\ \A k \in 1 .. Used - 1 : Entry(k)' = Entry(k + 1)
           /\ Entry(1) = rframe
<1>1. /\ Used' = Used - 1 /\ Used > 0
      /\ tail' = Succ(tail) /\ slots' = slots
      /\ head \in Index /\ tail \in Index
      /\ Entry(1) = rframe
  BY DistanceSuccTail
  DEF AdvanceTail, IInv, TypeOK, RingBounded, EntriesFilled, Used
<1>2. Used \in Nat \ {0}
  BY <1>1, DistanceValue DEF Used
<1>3. ASSUME NEW k \in 1 .. Used - 1
      PROVE  Entry(k)' = Entry(k + 1)
  <2>1. SlotOf(tail' + k - 1) = SlotOf(tail + k) /\ tail + (k + 1) - 1 = tail + k
    BY <1>1, <1>2, SlotOfSuccTail, RingAssumption
  <2> QED
    BY <1>1, <2>1 DEF Entry
<1> QED
  BY <1>1, <1>2, <1>3

-----------------------------------------------------------------------------
(* What holds in every state, for every ring                               *)

\* Each thread's m is set exactly where its code has one; the indices stay in
\* the range of a uint32_t and the semaphore is never negative.
THEOREM TypeCorrect == Spec => []TypeOK
  BY IInvHolds, PTL DEF IInv

\* The ring is never overrun nor read when empty, across every index wrap.
THEOREM RingIsBounded == Spec => []RingBounded
  BY IInvHolds, PTL DEF IInv

\* Every entry between the indices is a frame somebody put there.
THEOREM EntriesAreFilled == Spec => []EntriesFilled
  BY IInvHolds, PTL DEF IInv

\* The lock-free ring needs no lock: the two copies of a FrameMeta never
\* overlap in the same slot.
THEOREM SlotsDoNotRace == Spec => []NoSlotRace
<1>1. IInv => NoSlotRace
  <2> SUFFICES ASSUME IInv, dpc = "write", rpc = "copy"
               PROVE  SlotOf(tail) # SlotOf(head)
    BY DEF NoSlotRace
  <2>1. /\ head \in Index /\ tail \in Index
        /\ Distance(head, tail) < RingSize
        /\ Distance(head, tail) > 0
    BY DEF IInv, TypeOK, RingBounded, Used
  <2>2. Distance(head, tail) \in 0 .. IndexMod - 1
    BY <2>1, DistanceValue
  <2>3. 1 \in 1 .. Distance(head, tail) /\ tail + 1 - 1 = tail
    BY <2>1, <2>2, RingAssumption
  <2>4. SlotOf(tail + 1 - 1) # SlotOf(head)
    BY <2>1, <2>3, HeadSlotFree
  <2> QED
    BY <2>3, <2>4
<1> QED
  BY <1>1, IInvHolds, PTL

-----------------------------------------------------------------------------
(* Wake-ups: both bounds are inductive, given IInv                         *)

Wakeups == sem + PendingPost + HeldWakeup

LEMMA NextWakeups ==
    IInv /\ NoLostWakeup /\ WakeupsBounded /\ [Next]_vars
        => NoLostWakeup' /\ WakeupsBounded'
<1> SUFFICES ASSUME IInv, NoLostWakeup, WakeupsBounded, [Next]_vars
             PROVE  Used' <= Wakeups' /\ Wakeups' <= Used' + 2
  BY DEF NoLostWakeup, WakeupsBounded, Wakeups
<1>0. /\ Used \in Nat /\ sem \in Nat
      /\ head \in Index /\ tail \in Index
      /\ Used <= Wakeups /\ Wakeups <= Used + 2
  BY DistanceValue, RingAssumption
  DEF IInv, TypeOK, Used, NoLostWakeup, WakeupsBounded, Wakeups
<1> USE <1>0 DEF Wakeups, PendingPost, HeldWakeup, shared, dvars, rvars
<1>1. ASSUME NEW f \in Frame, Offer(f)
      PROVE  Used' <= Wakeups' /\ Wakeups' <= Used' + 2
  BY <1>1 DEF Offer, Used
<1>2. CASE Drop
  BY <1>2 DEF Drop, Used
<1>3. CASE HasRoom
  BY <1>3 DEF HasRoom, Used
<1>4. CASE WriteSlot
  BY <1>4 DEF WriteSlot, Used
<1>5. CASE PublishHead
  <2>1. Used' = Used + 1
    BY <1>5, DistanceSuccHead DEF PublishHead, IInv, RingBounded, Used
  <2> QED
    BY <1>5, <2>1 DEF PublishHead
<1>6. CASE Post
  BY <1>6 DEF Post, Used
<1>7. CASE SemWait
  BY <1>7 DEF SemWait, Used
<1>8. CASE Interrupted
  BY <1>8 DEF Interrupted, Used, IInv, TypeOK
<1>9. CASE LoadEmpty
  <2>1. Used = 0 /\ Used' = Used
    BY <1>9, DistanceZero DEF LoadEmpty, Empty, Used
  <2> QED
    BY <1>9, <2>1 DEF LoadEmpty
<1>10. CASE LoadNonEmpty
  BY <1>10 DEF LoadNonEmpty, Used
<1>11. CASE CopySlot
  BY <1>11 DEF CopySlot, Used
<1>12. CASE AdvanceTail
  <2>1. Used' = Used - 1
    BY <1>12, DistanceSuccTail DEF AdvanceTail, IInv, RingBounded, Used
  <2> QED
    BY <1>12, <2>1 DEF AdvanceTail
<1>13. CASE Rendered
  BY <1>13 DEF Rendered, Used
<1>14. CASE UNCHANGED vars
  BY <1>14 DEF vars, Used
<1> QED
  BY <1>1, <1>2, <1>3, <1>4, <1>5, <1>6, <1>7, <1>8, <1>9, <1>10, <1>11,
     <1>12, <1>13, <1>14 DEF Next, Enqueue, Dequeue

LEMMA InitWakeups == Init => NoLostWakeup /\ WakeupsBounded
<1> SUFFICES ASSUME Init
             PROVE  Used = 0 /\ sem = 0 /\ PendingPost = 0 /\ HeldWakeup = 0
  BY DEF NoLostWakeup, WakeupsBounded
<1> QED
  BY RingAssumption DEF Init, Used, Distance, PendingPost, HeldWakeup

\* The render thread never sleeps beside an entry nobody will wake it for.
THEOREM WakeupsAreKept == Spec => []NoLostWakeup
  BY InitWakeups, NextWakeups, IInvHolds, PTL DEF Spec

\* The semaphore does not run away however many signals interrupt sem_wait.
THEOREM WakeupsStayBounded == Spec => []WakeupsBounded
  BY InitWakeups, NextWakeups, IInvHolds, PTL DEF Spec

-----------------------------------------------------------------------------
(* The ring implements the bounded queue (its safety part: fairness is     *)
(* TLC's).  PublishHead is Accept, AdvanceTail is Take.                    *)

Offered == IF dpc = "post" THEN NoFrame ELSE dframe
Taken == IF rpc = "render" THEN rframe ELSE NoFrame

LEMMA WaitingType ==
    IInv => /\ Waiting \in Seq(Frame)
            /\ Len(Waiting) = Used
            /\ Used \in 0 .. RingSize
            /\ \A k \in 1 .. Used : Waiting[k] = Entry(k)
<1> SUFFICES ASSUME IInv
             PROVE  /\ Waiting \in Seq(Frame)
                    /\ Len(Waiting) = Used
                    /\ Used \in 0 .. RingSize
                    /\ \A k \in 1 .. Used : Waiting[k] = Entry(k)
  OBVIOUS
<1>1. Used \in 0 .. RingSize
  BY DistanceValue, RingAssumption DEF IInv, TypeOK, RingBounded, Used
<1>2. \A k \in 1 .. Used : Entry(k) \in Frame
  BY DEF IInv, EntriesFilled
<1> QED
  BY <1>1, <1>2 DEF Waiting

\* A step that leaves the slots and the indices alone leaves the queue alone.
LEMMA WaitingUnchanged ==
    ASSUME UNCHANGED <<slots, head, tail>>
    PROVE  Waiting' = Waiting
  BY DEF Waiting, Entry, Used

LEMMA NextImplements == IInv /\ IInv' /\ [Next]_vars => [Queue!Next]_(Queue!vars)
<1> SUFFICES ASSUME IInv, IInv', [Next]_vars
             PROVE  Queue!Next \/ UNCHANGED <<Offered, Waiting, Taken>>
  BY DEF Queue!vars, Offered, Taken
<1> USE RingAssumption DEF Offered, Taken, shared, dvars, rvars
<1>0. TypeOK /\ TypeOK'
  BY DEF IInv
<1>1. ASSUME NEW f \in Frame, Offer(f)
      PROVE  Queue!Next
  <2>1. Queue!Offer(f)
    BY <1>0, <1>1, WaitingUnchanged DEF Offer, TypeOK, Queue!Offer
  <2> QED
    BY <2>1 DEF Queue!Next
<1>2. CASE Drop
  <2>1. Len(Waiting) = RingSize
    BY <1>2, WaitingType DEF Drop, Full, Used
  <2>2. Queue!Drop
    BY <1>0, <1>2, <2>1, WaitingUnchanged DEF Drop, TypeOK, Queue!Drop
  <2> QED
    BY <2>2 DEF Queue!Next
<1>3. CASE HasRoom
  BY <1>3, WaitingUnchanged DEF HasRoom
<1>4. CASE WriteSlot
  <2>1. Waiting' = Waiting
    BY <1>4, EntriesAfterWrite DEF Waiting
  <2> QED
    BY <1>4, <2>1 DEF WriteSlot
<1>5. CASE PublishHead
  <2>1. /\ Used' = Used + 1 /\ Used < RingSize
        /\ UNCHANGED <<dframe, rpc, rframe>>
    BY <1>5, EntriesAfterPublish DEF PublishHead, IInv, RingBounded
  <2>2. ASSUME NEW k \in 1 .. Used + 1
        PROVE  Waiting'[k] = Append(Waiting, dframe)[k]
    <3>1. Waiting'[k] = Entry(k)'
      BY <2>1 DEF Waiting
    <3>2. CASE k = Used + 1
      BY <1>5, <3>1, <3>2, EntriesAfterPublish, WaitingType
    <3>3. CASE k # Used + 1
      BY <1>5, <3>1, <3>3, EntriesAfterPublish, WaitingType
    <3> QED
      BY <3>2, <3>3
  <2>3. Waiting' \in Seq(Frame) /\ Len(Waiting') = Used + 1
    <3>1. (Waiting \in Seq(Frame) /\ Len(Waiting) = Used)'
      BY WaitingType, PTL
    <3> QED
      BY <2>1, <3>1
  <2>4. dframe \in Frame /\ dframe # NoFrame
    BY <1>0, <1>5 DEF PublishHead, TypeOK
  <2>5. Waiting' = Append(Waiting, dframe)
    BY <2>2, <2>3, <2>4, WaitingType
  <2>6. Queue!Accept
    BY <1>5, <2>1, <2>4, <2>5, WaitingType DEF PublishHead, Queue!Accept
  <2> QED
    BY <2>6 DEF Queue!Next
<1>6. CASE Post
  BY <1>0, <1>6, WaitingUnchanged DEF Post, TypeOK
<1>7. CASE SemWait
  BY <1>7, WaitingUnchanged DEF SemWait
<1>8. CASE Interrupted
  BY <1>8, WaitingUnchanged DEF Interrupted
<1>9. CASE LoadEmpty
  BY <1>9, WaitingUnchanged DEF LoadEmpty
<1>10. CASE LoadNonEmpty
  BY <1>10, WaitingUnchanged DEF LoadNonEmpty
<1>11. CASE CopySlot
  BY <1>11, WaitingUnchanged DEF CopySlot
<1>12. CASE AdvanceTail
  <2>1. /\ Used' = Used - 1 /\ Used > 0
        /\ UNCHANGED <<dpc, dframe, rframe>>
    BY <1>12, EntriesAfterAdvance, WaitingType DEF AdvanceTail
  <2>2. ASSUME NEW k \in 1 .. Used - 1
        PROVE  Waiting'[k] = Tail(Waiting)[k]
    <3>1. Waiting'[k] = Entry(k)'
      BY <2>1 DEF Waiting
    <3>2. Entry(k)' = Entry(k + 1)
      BY <1>12, EntriesAfterAdvance
    <3>3. Waiting[k + 1] = Entry(k + 1)
      BY WaitingType
    <3> QED
      BY <3>1, <3>2, <3>3, <2>1, WaitingType
  <2>3. Waiting' \in Seq(Frame) /\ Len(Waiting') = Used - 1
    <3>1. (Waiting \in Seq(Frame) /\ Len(Waiting) = Used)'
      BY WaitingType, PTL
    <3> QED
      BY <2>1, <3>1
  <2>4. Waiting' = Tail(Waiting)
    BY <2>1, <2>2, <2>3, WaitingType
  <2>5. Waiting # <<>> /\ Head(Waiting) = rframe /\ rframe # NoFrame
    BY <1>0, <1>12, <2>1, WaitingType DEF AdvanceTail, IInv, TypeOK, EntriesFilled
  <2>6. Queue!Take
    BY <1>12, <2>1, <2>4, <2>5 DEF AdvanceTail, Queue!Take
  <2> QED
    BY <2>6 DEF Queue!Next
<1>13. CASE Rendered
  <2>1. Queue!Shown
    BY <1>0, <1>13, WaitingUnchanged DEF Rendered, TypeOK, Queue!Shown
  <2> QED
    BY <2>1 DEF Queue!Next
<1>14. CASE UNCHANGED vars
  BY <1>14, WaitingUnchanged DEF vars
<1> QED
  BY <1>1, <1>2, <1>3, <1>4, <1>5, <1>6, <1>7, <1>8, <1>9, <1>10, <1>11,
     <1>12, <1>13, <1>14 DEF Next, Enqueue, Dequeue

LEMMA InitImplements == Init => Queue!Init
<1> SUFFICES ASSUME Init
             PROVE  Queue!Init
  OBVIOUS
<1>1. IInv /\ Used = 0
  BY InitIInv, RingAssumption DEF Init, Used, Distance
<1>2. Waiting = <<>>
  BY <1>1, WaitingType
<1> QED
  BY <1>2 DEF Init, Queue!Init

\* No frame is lost while there is room, none is duplicated and none overtakes
\* another: every step of the ring is a step of the bounded queue or none.
THEOREM RingImplementsQueue == Spec => Queue!Init /\ [][Queue!Next]_(Queue!vars)
  BY InitImplements, NextImplements, IInvHolds, PTL DEF Spec
=============================================================================
