----------------------------- MODULE FrameRing ------------------------------
(***************************************************************************)
(* The frame-metadata ring of src/src/cyxv_dispatch.c: the dispatch thread *)
(* (the X server's single thread, in h_PutImage and h_ShmPutImage) is its  *)
(* only producer, the render thread its only consumer, and the semaphore   *)
(* g_sem puts the render thread to sleep.                                  *)
(*                                                                         *)
(* One step is at most one access to what the two threads share.  A copy   *)
(* of a FrameMeta is many words: it is in progress for as long as the      *)
(* thread's program counter is at "write" or "copy", so two copies of the  *)
(* same slot overlap exactly when both are there (NoSlotRace).  Each index *)
(* has one writer, which reads it relaxed and stores it with release; the  *)
(* other thread loads it with acquire, so interleaving is what the code's  *)
(* memory orders provide.                                                  *)
(***************************************************************************)
EXTENDS Integers, Sequences

CONSTANTS Frame,     \* the FrameMeta values a request may build
          NoFrame,   \* an unset FrameMeta
          RingSize,  \* RING_SIZE
          IndexMod   \* 2^32: head and tail are uint32_t

\* RING_SIZE is a power of two below 2^32, so it divides 2^32.
ASSUME RingAssumption ==
    /\ RingSize \in Nat \ {0}
    /\ IndexMod \in Nat
    /\ RingSize < IndexMod
    /\ IndexMod % RingSize = 0
    /\ NoFrame \notin Frame

VARIABLES slots,   \* g_ring.slots
          head,    \* g_ring.head, stored by the dispatch thread
          tail,    \* g_ring.tail, stored by the render thread
          sem,     \* the value of g_sem
          dpc,     \* where the dispatch thread is in ring_enqueue
          dframe,  \* its m
          rpc,     \* where the render thread is in its loop
          rframe   \* its m
shared == <<slots, head, tail, sem>>
dvars == <<dpc, dframe>>
rvars == <<rpc, rframe>>
vars == <<shared, dvars, rvars>>

Index == 0 .. IndexMod - 1
Slot == 0 .. RingSize - 1

Succ(i) == (i + 1) % IndexMod        \* uint32_t increment
SlotOf(i) == i % RingSize            \* i & RING_MASK
MutDistanceSigned(h, t) == h - t      \* mutant: no wrap in the subtraction
Distance(h, t) == (h - t) % IndexMod \* uint32_t subtraction
MutFullLate(h, t) == Distance(h, t) > RingSize       \* mutant: > for >=
MutFullEarly(h, t) == Distance(h, t) >= RingSize - 1 \* mutant: one slot unused
Full(h, t) == Distance(h, t) >= RingSize
Empty(h, t) == h = t
Used == Distance(head, tail)

Init == /\ slots = [s \in Slot |-> NoFrame]
        /\ head = 0
        /\ tail = 0
        /\ sem = 0
        /\ dpc = "idle"
        /\ dframe = NoFrame
        /\ rpc = "wait"
        /\ rframe = NoFrame

-----------------------------------------------------------------------------
(* ring_enqueue, on the dispatch thread                                    *)

Offer(f) == /\ dpc = "idle"
            /\ dpc' = "check"
            /\ dframe' = f
            /\ UNCHANGED <<shared, rvars>>

\* Mutant: the semaphore is posted for a dropped frame too.
MutDropPosts == /\ dpc = "check"
                /\ Full(head, tail)
                /\ sem' = sem + 1
                /\ dpc' = "idle"
                /\ dframe' = NoFrame
                /\ UNCHANGED <<slots, head, tail, rvars>>

\* The load of tail and the test; full: return -1, the frame is gone.
Drop == /\ dpc = "check"
        /\ Full(head, tail)
        /\ dpc' = "idle"
        /\ dframe' = NoFrame
        /\ UNCHANGED <<shared, rvars>>

HasRoom == /\ dpc = "check"
           /\ ~Full(head, tail)
           /\ dpc' = "write"
           /\ UNCHANGED <<shared, dframe, rvars>>

\* Mutant: the index is incremented before the store.
MutWriteNext == /\ dpc = "write"
                /\ slots' = [slots EXCEPT ![SlotOf(Succ(head))] = dframe]
                /\ dpc' = "publish"
                /\ UNCHANGED <<head, tail, sem, dframe, rvars>>

WriteSlot == /\ dpc = "write"
             /\ slots' = [slots EXCEPT ![SlotOf(head)] = dframe]
             /\ dpc' = "publish"
             /\ UNCHANGED <<head, tail, sem, dframe, rvars>>

PublishHead == /\ dpc = "publish"
               /\ head' = Succ(head)
               /\ dpc' = "post"
               /\ UNCHANGED <<slots, tail, sem, dframe, rvars>>

\* Mutant: only the entry that ends an empty ring is posted.
MutPostFirst == /\ dpc = "post"
                /\ sem' = IF Used = 1 THEN sem + 1 ELSE sem
                /\ dpc' = "idle"
                /\ dframe' = NoFrame
                /\ UNCHANGED <<slots, head, tail, rvars>>

Post == /\ dpc = "post"
        /\ sem' = sem + 1
        /\ dpc' = "idle"
        /\ dframe' = NoFrame
        /\ UNCHANGED <<slots, head, tail, rvars>>

-----------------------------------------------------------------------------
(* render_thread and ring_dequeue, on the render thread                    *)

\* Mutant: the thread does not wait.
MutSemNoWait == /\ rpc = "wait"
                /\ sem' = sem - 1
                /\ rpc' = "load"
                /\ UNCHANGED <<slots, head, tail, dvars, rframe>>

SemWait == /\ rpc = "wait"
           /\ sem > 0
           /\ sem' = sem - 1
           /\ rpc' = "load"
           /\ UNCHANGED <<slots, head, tail, dvars, rframe>>

\* A signal ends a blocked sem_wait with EINTR, and its result is not read.
Interrupted == /\ rpc = "wait"
               /\ sem = 0
               /\ rpc' = "load"
               /\ UNCHANGED <<shared, dvars, rframe>>

LoadEmpty == /\ rpc = "load"
             /\ Empty(head, tail)
             /\ rpc' = "wait"
             /\ UNCHANGED <<shared, dvars, rframe>>

LoadNonEmpty == /\ rpc = "load"
                /\ ~Empty(head, tail)
                /\ rpc' = "copy"
                /\ UNCHANGED <<shared, dvars, rframe>>

CopySlot == /\ rpc = "copy"
            /\ rframe' = slots[SlotOf(tail)]
            /\ rpc' = "advance"
            /\ UNCHANGED <<shared, dvars>>

AdvanceTail == /\ rpc = "advance"
               /\ tail' = Succ(tail)
               /\ rpc' = "render"
               /\ UNCHANGED <<slots, head, sem, dvars, rframe>>

\* The body of the loop after ring_dequeue; what it does is FramePath's.
Rendered == /\ rpc = "render"
            /\ rpc' = "wait"
            /\ rframe' = NoFrame
            /\ UNCHANGED <<shared, dvars>>

-----------------------------------------------------------------------------
Enqueue == Drop \/ HasRoom \/ WriteSlot \/ PublishHead \/ Post
Dequeue == SemWait \/ LoadEmpty \/ LoadNonEmpty \/ CopySlot \/ AdvanceTail

Next == (\E f \in Frame : Offer(f)) \/ Enqueue \/ Dequeue \/ Interrupted \/ Rendered

\* Both threads are scheduled: one that can go on does.  No client has to send
\* a request and no signal has to arrive.
Fairness == WF_vars(Enqueue) /\ WF_vars(Dequeue) /\ WF_vars(Rendered)

Spec == Init /\ [][Next]_vars /\ Fairness

-----------------------------------------------------------------------------
TypeOK ==
    /\ slots \in [Slot -> Frame \cup {NoFrame}]
    /\ head \in Index
    /\ tail \in Index
    /\ sem \in Nat
    /\ dpc \in {"idle", "check", "write", "publish", "post"}
    /\ dframe \in Frame \cup {NoFrame}
    /\ (dframe = NoFrame) <=> (dpc = "idle")
    /\ rpc \in {"wait", "load", "copy", "advance", "render"}
    /\ rframe \in Frame \cup {NoFrame}
    /\ (rframe = NoFrame) <=> (rpc \in {"wait", "load", "copy"})

\* The ring never holds more than RING_SIZE entries, there is still room when
\* the dispatch thread acts on its test (cyxv_dispatch.c:154) after the render
\* thread has moved tail, and there is still an entry when the render thread
\* acts on its own (line 173), across every wrap of the uint32_t indices.
RingBounded ==
    /\ Used <= RingSize
    /\ dpc \in {"write", "publish"} => Used < RingSize
    /\ rpc \in {"copy", "advance"} => Used > 0

\* What is between the two indices has been written, and neither thread's m
\* differs from the slot it stands for: no stale or unset FrameMeta is rendered.
Entry(k) == slots[SlotOf(tail + k - 1)]
EntriesFilled ==
    /\ \A k \in 1 .. Used : Entry(k) \in Frame
    /\ dpc = "publish" => slots[SlotOf(head)] = dframe
    /\ rpc = "advance" => rframe = Entry(1)

\* The dispatch thread never writes the slot the render thread is copying: the
\* ring needs no lock (cyxv_dispatch.c:112-119).
NoSlotRace == ~ (/\ dpc = "write"
                 /\ rpc = "copy"
                 /\ SlotOf(head) = SlotOf(tail))

\* The wake-ups on their way: in the semaphore, about to be posted, or held by
\* the render thread until it has moved tail.
PendingPost == IF dpc = "post" THEN 1 ELSE 0
HeldWakeup == IF rpc \in {"load", "copy", "advance"} THEN 1 ELSE 0

\* Every entry has a wake-up on its way, so the render thread never sleeps
\* beside a waiting frame, even though a signal makes it run without a post and
\* an empty ring makes it spend a post on nothing (lines 312-315).
NoLostWakeup == Used <= sem + PendingPost + HeldWakeup

\* Signals make the render thread take frames whose post is still to come, but
\* the posts left over do not pile up: at most two wake-ups more than there are
\* entries are on their way, so the semaphore stays below RING_SIZE + 3.
WakeupsBounded == sem + PendingPost + HeldWakeup <= Used + 2

\* A frame is never lost when fewer than RING_SIZE frames wait, no frame is
\* shown twice or out of order, and a waiting frame is shown in the end: the
\* ring implements the bounded queue.
Waiting == [k \in 1 .. Used |-> Entry(k)]
Queue == INSTANCE FrameQueue WITH
    Cap <- RingSize,
    offer <- IF dpc = "post" THEN NoFrame ELSE dframe,
    queue <- Waiting,
    taken <- IF rpc = "render" THEN rframe ELSE NoFrame
ImplementsQueue == Queue!Spec
=============================================================================
