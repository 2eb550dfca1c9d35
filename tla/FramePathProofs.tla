-------------------------- MODULE FramePathProofs ---------------------------
(***************************************************************************)
(* The pixel buffers are neither leaked nor freed twice, for every set of  *)
(* buffers and every size of the ring.  The ring's own invariant and what  *)
(* its steps do to its entries are taken from FrameRingProofs.             *)
(***************************************************************************)
EXTENDS FramePath, FiniteSetTheorems, TLAPS

\* The ring of FramePath, with the theorems about it.
RP == INSTANCE FrameRingProofs WITH Frame <- Buf \cup {ShmFrame}

LEMMA SameState ==
    /\ Ring!Used = RP!Used
    /\ \A k \in Int : Ring!Entry(k) = RP!Entry(k)
    /\ Ring!TypeOK <=> RP!TypeOK
    /\ Ring!Init <=> RP!Init
  BY DEF Ring!Used, RP!Used, Ring!Distance, RP!Distance, Ring!Entry, RP!Entry,
         Ring!SlotOf, RP!SlotOf, Ring!TypeOK, RP!TypeOK, Ring!Init, RP!Init,
         Ring!Slot, RP!Slot, Ring!Index, RP!Index

LEMMA SameDispatch ==
    /\ \A f : Ring!Offer(f) <=> RP!Offer(f)
    /\ Ring!Drop <=> RP!Drop
    /\ Ring!HasRoom <=> RP!HasRoom
    /\ Ring!WriteSlot <=> RP!WriteSlot
    /\ Ring!PublishHead <=> RP!PublishHead
    /\ Ring!Post <=> RP!Post
  BY DEF Ring!Offer, RP!Offer, Ring!Drop, RP!Drop, Ring!HasRoom, RP!HasRoom,
         Ring!WriteSlot, RP!WriteSlot, Ring!PublishHead, RP!PublishHead,
         Ring!Post, RP!Post, Ring!shared, RP!shared, Ring!rvars, RP!rvars,
         Ring!Full, RP!Full, Ring!Distance, RP!Distance, Ring!SlotOf, RP!SlotOf,
         Ring!Succ, RP!Succ

LEMMA SameRender ==
    /\ Ring!SemWait <=> RP!SemWait
    /\ Ring!LoadEmpty <=> RP!LoadEmpty
    /\ Ring!LoadNonEmpty <=> RP!LoadNonEmpty
    /\ Ring!CopySlot <=> RP!CopySlot
    /\ Ring!AdvanceTail <=> RP!AdvanceTail
    /\ Ring!Interrupted <=> RP!Interrupted
    /\ Ring!Rendered <=> RP!Rendered
  BY DEF Ring!SemWait, RP!SemWait, Ring!LoadEmpty, RP!LoadEmpty,
         Ring!LoadNonEmpty, RP!LoadNonEmpty, Ring!CopySlot, RP!CopySlot,
         Ring!AdvanceTail, RP!AdvanceTail, Ring!Interrupted, RP!Interrupted,
         Ring!Rendered, RP!Rendered, Ring!shared, RP!shared, Ring!dvars, RP!dvars,
         Ring!Empty, RP!Empty, Ring!SlotOf, RP!SlotOf, Ring!Succ, RP!Succ

\* Every step of FramePath is a step of its ring or leaves it alone.
LEMMA RingSteps == [Next]_vars => [RP!Next]_(RP!vars)
<1> SUFFICES ASSUME [Next]_vars
             PROVE  RP!Next \/ UNCHANGED RP!vars
  OBVIOUS
<1> USE DEF RP!Next, RP!Enqueue, RP!Dequeue
<1>1. ASSUME NEW b \in Buf, PutImage(b)
      PROVE  RP!Next
  BY <1>1, SameDispatch DEF PutImage
<1>2. CASE ShmPutImage
  BY <1>2, SameDispatch DEF ShmPutImage
<1>3. CASE Dispatch
  BY <1>3, SameDispatch DEF Dispatch, Rejected, Enqueue
<1>4. CASE Dequeue
  BY <1>4, SameRender DEF Dequeue, Ring!Dequeue
<1>5. CASE RenderedInline \/ RenderedShm
  BY <1>5, SameRender DEF RenderedInline, RenderedShm
<1>6. CASE UNCHANGED vars
  BY <1>6 DEF vars, ringVars, RP!vars, RP!shared, RP!dvars, RP!rvars
<1> QED
  BY <1>1, <1>2, <1>3, <1>4, <1>5, <1>6 DEF Next

-----------------------------------------------------------------------------
(* What a step of the ring does to the number of entries and to each       *)

LEMMA SameNextState ==
    /\ Ring!Used' = RP!Used'
    /\ \A k \in Int : Ring!Entry(k)' = RP!Entry(k)'
<1>1. (/\ Ring!Used = RP!Used
       /\ \A k \in Int : Ring!Entry(k) = RP!Entry(k))'
  BY SameState, PTL
<1> QED
  BY <1>1

LEMMA UsedNat == ASSUME RP!IInv PROVE Ring!Used \in Nat
<1>1. /\ head \in RP!Index /\ tail \in RP!Index
  BY DEF RP!IInv, RP!TypeOK
<1>2. RP!Distance(head, tail) \in 0 .. IndexMod - 1
  BY <1>1, RP!DistanceValue, BufAssumption, PathAssumption
<1> QED
  BY <1>2, SameState, PathAssumption DEF RP!Used

\* What is in the ring, as the steps see it.
RingKept == /\ Ring!Used' = Ring!Used
            /\ \A k \in 1 .. Ring!Used : Ring!Entry(k)' = Ring!Entry(k)

LEMMA KeptByLocal ==
    ASSUME UNCHANGED <<slots, head, tail>>
    PROVE  RingKept
  BY DEF RingKept, Ring!Used, Ring!Entry, Ring!Distance, Ring!SlotOf

LEMMA KeptByWrite == ASSUME RP!IInv, Ring!WriteSlot PROVE RingKept
<1>1. RP!WriteSlot
  BY SameDispatch
<1>2. /\ RP!Used' = RP!Used /\ RP!Used \in Nat
      /\ \A k \in 1 .. RP!Used : RP!Entry(k)' = RP!Entry(k)
  BY <1>1, RP!EntriesAfterWrite, BufAssumption, PathAssumption
<1> QED
  BY <1>2, SameState, SameNextState DEF RingKept

LEMMA AddedByPublish ==
    ASSUME RP!IInv, Ring!PublishHead
    PROVE  /\ Ring!Used' = Ring!Used + 1
           /\ \A k \in 1 .. Ring!Used : Ring!Entry(k)' = Ring!Entry(k)
           /\ \A k \in {Ring!Used + 1} : Ring!Entry(k)' = dframe
<1>1. RP!PublishHead
  BY SameDispatch
<1>2. /\ RP!Used' = RP!Used + 1 /\ RP!Used \in Nat
      /\ \A k \in 1 .. RP!Used : RP!Entry(k)' = RP!Entry(k)
      /\ \A k \in {RP!Used + 1} : RP!Entry(k)' = dframe
  BY <1>1, RP!EntriesAfterPublish, BufAssumption, PathAssumption
<1> QED
  BY <1>2, SameState, SameNextState

LEMMA TakenByAdvance ==
    ASSUME RP!IInv, Ring!AdvanceTail
    PROVE  /\ Ring!Used' = Ring!Used - 1 /\ Ring!Used \in Nat \ {0}
           /\ \A k \in 1 .. Ring!Used - 1 : Ring!Entry(k)' = Ring!Entry(k + 1)
           /\ Ring!Entry(1) = rframe
<1>1. RP!AdvanceTail
  BY SameRender
<1>2. /\ RP!Used' = RP!Used - 1 /\ RP!Used \in Nat \ {0}
      /\ \A k \in 1 .. RP!Used - 1 : RP!Entry(k)' = RP!Entry(k + 1)
      /\ RP!Entry(1) = rframe
  BY <1>1, RP!EntriesAfterAdvance, BufAssumption, PathAssumption
<1> QED
  BY <1>2, SameState, SameNextState

-----------------------------------------------------------------------------
(* Who holds which buffer after a step                                     *)

\* A step that keeps the ring keeps what its entries hold.
LEMMA RingHoldsKept ==
    ASSUME RingKept
    PROVE  /\ Ring!Used' = Ring!Used
           /\ \A k \in 1 .. Ring!Used : EntryHolds(k)' = EntryHolds(k)
           /\ RingHolds' = RingHolds
<1>1. /\ Ring!Used' = Ring!Used
      /\ \A k \in 1 .. Ring!Used : EntryHolds(k)' = EntryHolds(k)
  BY DEF RingKept, EntryHolds
<1> QED
  BY <1>1 DEF RingHolds

\* The published frame's buffer passes from the request to the last entry.
LEMMA RingHoldsAdded ==
    ASSUME RP!IInv, Ring!PublishHead
    PROVE  /\ Ring!Used' = Ring!Used + 1 /\ Ring!Used \in Nat
           /\ \A k \in 1 .. Ring!Used : EntryHolds(k)' = EntryHolds(k)
           /\ \A k \in {Ring!Used + 1} : EntryHolds(k)' = {dframe} \cap Buf
           /\ RingHolds' = RingHolds \cup ({dframe} \cap Buf)
<1>1. /\ Ring!Used' = Ring!Used + 1 /\ Ring!Used \in Nat
      /\ \A k \in 1 .. Ring!Used : EntryHolds(k)' = EntryHolds(k)
      /\ \A k \in {Ring!Used + 1} : EntryHolds(k)' = {dframe} \cap Buf
  BY AddedByPublish, UsedNat DEF EntryHolds
<1>2. 1 .. Ring!Used' = (1 .. Ring!Used) \cup {Ring!Used + 1}
  BY <1>1
<1> QED
  BY <1>1, <1>2 DEF RingHolds

\* The first entry's buffer passes to the frame being rendered.
LEMMA RingHoldsTaken ==
    ASSUME RP!IInv, Ring!AdvanceTail
    PROVE  /\ Ring!Used' = Ring!Used - 1 /\ Ring!Used \in Nat \ {0}
           /\ \A k \in 1 .. Ring!Used - 1 : EntryHolds(k)' = EntryHolds(k + 1)
           /\ EntryHolds(1) = {rframe} \cap Buf
           /\ RingHolds = RingHolds' \cup ({rframe} \cap Buf)
<1>1. /\ Ring!Used' = Ring!Used - 1 /\ Ring!Used \in Nat \ {0}
      /\ \A k \in 1 .. Ring!Used - 1 : EntryHolds(k)' = EntryHolds(k + 1)
      /\ EntryHolds(1) = {rframe} \cap Buf
  BY TakenByAdvance DEF EntryHolds
<1>2. ASSUME NEW b
      PROVE  b \in RingHolds <=> b \in RingHolds' \/ b \in EntryHolds(1)
  <2>1. b \in RingHolds <=> \E k \in 1 .. Ring!Used : b \in EntryHolds(k)
    BY DEF RingHolds
  <2>2. b \in RingHolds' <=> \E k \in 1 .. Ring!Used - 1 : b \in EntryHolds(k)'
    BY <1>1 DEF RingHolds
  <2>3. ASSUME NEW k \in 1 .. Ring!Used, b \in EntryHolds(k), k # 1
        PROVE  b \in RingHolds'
    <3>1. k - 1 \in 1 .. Ring!Used - 1 /\ (k - 1) + 1 = k
      BY <1>1, <2>3
    <3> QED
      BY <1>1, <2>2, <2>3, <3>1
  <2>4. ASSUME NEW k \in 1 .. Ring!Used - 1, b \in EntryHolds(k)'
        PROVE  b \in RingHolds
    <3>1. k + 1 \in 1 .. Ring!Used
      BY <1>1
    <3> QED
      BY <1>1, <2>1, <2>4, <3>1
  <2>5. 1 \in 1 .. Ring!Used
    BY <1>1
  <2> QED
    BY <2>1, <2>2, <2>3, <2>4, <2>5
<1> QED
  BY <1>1, <1>2

-----------------------------------------------------------------------------
(* The inductive invariant: what BuffersAreHeld says of a frame that is    *)
(* taken holds only because the ring's entries are those that were put     *)
(* there.                                                                  *)

PInv == /\ RP!IInv
        /\ heap \subseteq Buf
        /\ renderer \in BOOLEAN
        /\ BuffersAreHeld

LEMMA InitPInv == Init => PInv
<1> SUFFICES ASSUME Init
             PROVE  PInv
  OBVIOUS
<1>1. RP!IInv
  BY SameState, RP!InitIInv, BufAssumption, PathAssumption DEF Init
<1>2. Ring!Used = 0
  BY PathAssumption DEF Init, Ring!Init, Ring!Used, Ring!Distance
<1>3. DispatcherHolds = {} /\ RingHolds = {} /\ RendererHolds = {}
  BY <1>2 DEF Init, Ring!Init, DispatcherHolds, RingHolds, RendererHolds
<1> QED
  BY <1>1, <1>2, <1>3 DEF Init, PInv, BuffersAreHeld, OneHolder

LEMMA NextPInv == PInv /\ [Next]_vars => PInv'
<1> SUFFICES ASSUME PInv, [Next]_vars
             PROVE  PInv'
  OBVIOUS
<1>0. RP!IInv'
  BY RingSteps, RP!NextIInv, BufAssumption, PathAssumption DEF PInv
<1>t. /\ dframe \in Buf \cup {ShmFrame, NoFrame}
      /\ rpc \in {"advance", "render"} => rframe \in Buf \cup {ShmFrame}
  BY DEF PInv, RP!IInv, RP!TypeOK
<1> USE <1>0 DEF PInv, BuffersAreHeld, OneHolder, DispatcherHolds, RendererHolds
<1>1. ASSUME NEW b \in Buf, PutImage(b)
      PROVE  PInv'
  <2>1. RingKept
    BY <1>1, KeptByLocal DEF PutImage, Ring!Offer, Ring!shared
  <2>2. /\ b \notin RingHolds /\ b \notin RendererHolds
        /\ DispatcherHolds = {} /\ DispatcherHolds' = {b}
        /\ RendererHolds' = RendererHolds
    BY <1>1 DEF PutImage, Ring!Offer, Ring!rvars
  <2> QED
    BY <1>1, <2>1, <2>2, RingHoldsKept DEF PutImage
<1>2. CASE ShmPutImage
  <2>1. RingKept
    BY <1>2, KeptByLocal DEF ShmPutImage, Ring!Offer, Ring!shared
  <2>2. /\ DispatcherHolds = {} /\ DispatcherHolds' = {}
        /\ RendererHolds' = RendererHolds
    BY <1>2, BufAssumption DEF ShmPutImage, Ring!Offer, Ring!rvars
  <2> QED
    BY <1>2, <2>1, <2>2, RingHoldsKept DEF ShmPutImage
<1>3. CASE Rejected
  <2>1. RingKept
    BY <1>3, KeptByLocal DEF Rejected, Ring!Drop, Ring!shared
  <2>2. /\ DispatcherHolds = {dframe} \cap Buf /\ DispatcherHolds' = {}
        /\ RendererHolds' = RendererHolds
        /\ heap' = heap \ {dframe}
    BY <1>3 DEF Rejected, Ring!Drop, Ring!rvars, Freed
  <2> QED
    BY <1>3, <2>1, <2>2, RingHoldsKept DEF Rejected
<1>4. CASE Enqueue /\ ~Ring!PublishHead
  <2>1. RingKept
    BY <1>4, KeptByLocal, KeptByWrite
    DEF Enqueue, Ring!HasRoom, Ring!Post, Ring!shared
  <2>2. DispatcherHolds' = DispatcherHolds /\ RendererHolds' = RendererHolds
    BY <1>4 DEF Enqueue, Ring!HasRoom, Ring!WriteSlot, Ring!Post, Ring!rvars
  <2> QED
    BY <1>4, <2>1, <2>2, RingHoldsKept DEF Enqueue
<1>5. CASE Enqueue /\ Ring!PublishHead
  <2>1. /\ DispatcherHolds = {dframe} \cap Buf /\ DispatcherHolds' = {}
        /\ RendererHolds' = RendererHolds
    BY <1>5 DEF Ring!PublishHead, Ring!rvars
  <2>2. ASSUME NEW j \in 1 .. Ring!Used', NEW k \in 1 .. Ring!Used', j # k
        PROVE  EntryHolds(j)' \cap EntryHolds(k)' = {}
    <3>1. \A i \in 1 .. Ring!Used : EntryHolds(i) \subseteq RingHolds
      BY DEF RingHolds
    <3> QED
      BY <1>5, <2>1, <2>2, <3>1, RingHoldsAdded
  <2> QED
    BY <1>5, <2>1, <2>2, RingHoldsAdded DEF Enqueue
<1>6. CASE Dequeue /\ ~Ring!AdvanceTail
  <2>1. RingKept
    BY <1>6, KeptByLocal
    DEF Dequeue, Ring!Dequeue, Ring!SemWait, Ring!LoadEmpty, Ring!LoadNonEmpty,
        Ring!CopySlot, Ring!Interrupted, Ring!shared
  <2>2. DispatcherHolds' = DispatcherHolds /\ RendererHolds' = RendererHolds
    BY <1>6
    DEF Dequeue, Ring!Dequeue, Ring!SemWait, Ring!LoadEmpty, Ring!LoadNonEmpty,
        Ring!CopySlot, Ring!Interrupted, Ring!dvars
  <2> QED
    BY <1>6, <2>1, <2>2, RingHoldsKept DEF Dequeue
<1>7. CASE Dequeue /\ Ring!AdvanceTail
  <2>1. /\ RendererHolds = {} /\ RendererHolds' = {rframe} \cap Buf
        /\ DispatcherHolds' = DispatcherHolds
    BY <1>7 DEF Ring!AdvanceTail, Ring!dvars
  <2>2. ASSUME NEW j \in 1 .. Ring!Used', NEW k \in 1 .. Ring!Used', j # k
        PROVE  EntryHolds(j)' \cap EntryHolds(k)' = {}
    <3>1. j + 1 \in 1 .. Ring!Used /\ k + 1 \in 1 .. Ring!Used /\ j + 1 # k + 1
      BY <1>7, <2>2, RingHoldsTaken
    <3> QED
      BY <1>7, <2>2, <3>1, RingHoldsTaken
  <2>3. RingHolds' \cap EntryHolds(1) = {}
    <3>1. ASSUME NEW k \in 1 .. Ring!Used'
          PROVE  EntryHolds(k)' \cap EntryHolds(1) = {}
      <4>1. k + 1 \in 1 .. Ring!Used /\ 1 \in 1 .. Ring!Used /\ k + 1 # 1
        BY <1>7, <3>1, RingHoldsTaken
      <4> QED
        BY <1>7, <3>1, <4>1, RingHoldsTaken
    <3> QED
      BY <3>1 DEF RingHolds
  <2> QED
    BY <1>7, <2>1, <2>2, <2>3, RingHoldsTaken DEF Dequeue
<1>8. CASE RenderedInline \/ RenderedShm
  <2>1. RingKept
    BY <1>8, KeptByLocal DEF RenderedInline, RenderedShm, Ring!Rendered, Ring!shared
  <2>2. /\ RendererHolds = {rframe} \cap Buf /\ RendererHolds' = {}
        /\ DispatcherHolds' = DispatcherHolds
    BY <1>8 DEF RenderedInline, RenderedShm, Ring!Rendered, Ring!dvars
  <2>3. heap' = heap \ ({rframe} \cap Buf)
    BY <1>8, BufAssumption DEF RenderedInline, RenderedShm, Freed
  <2> QED
    BY <1>8, <2>1, <2>2, <2>3, RingHoldsKept DEF RenderedInline, RenderedShm
<1>9. CASE UNCHANGED vars
  <2>1. RingKept
    BY <1>9, KeptByLocal DEF vars, ringVars
  <2> QED
    BY <1>9, <2>1, RingHoldsKept DEF vars, ringVars
<1> QED
  BY <1>1, <1>2, <1>3, <1>4, <1>5, <1>6, <1>7, <1>8, <1>9 DEF Next, Dispatch

LEMMA PInvHolds == Spec => []PInv
  BY InitPInv, NextPInv, PTL DEF Spec

-----------------------------------------------------------------------------
(* How much pixel memory there is: a buffer for each entry of the ring and *)
(* for each thread's m, and no other.                                      *)

\* The buffers that h_PutImage allocated and nobody freed, however many requests
\* came and however slow the render thread is (lines 607-636).
HeapBounded == IsFiniteSet(heap) /\ Cardinality(heap) <= RingSize + 2

LEMMA OneMore ==
    ASSUME NEW S, NEW x, IsFiniteSet(S)
    PROVE  /\ IsFiniteSet(S \cup {x})
           /\ Cardinality(S) \in Nat /\ Cardinality(S \cup {x}) \in Nat
           /\ Cardinality(S \cup {x}) <= Cardinality(S) + 1
  BY FS_AddElement, FS_CardinalityType

LEMMA HoldersAreFew == PInv => HeapBounded
<1> SUFFICES ASSUME PInv
             PROVE  HeapBounded
  OBVIOUS
<1> DEFINE places == 1 .. Ring!Used
           entry == [k \in places |-> Ring!Entry(k)]
           frames == {Ring!Entry(k) : k \in places}
           offered == frames \cup {dframe}
           held == offered \cup {rframe}
<1>1. Ring!Used \in Nat /\ Ring!Used <= RingSize
  BY UsedNat, SameState DEF PInv, RP!IInv, RP!RingBounded
<1>2. IsFiniteSet(places) /\ Cardinality(places) = Ring!Used
  BY <1>1, FS_Interval
<1>3. entry \in Surjection(places, frames)
  BY DEF Surjection
<1>4. /\ IsFiniteSet(frames) /\ Cardinality(frames) \in Nat
      /\ Cardinality(frames) <= Ring!Used
  <2> HIDE DEF places, entry, frames
  <2> QED
    BY <1>2, <1>3, FS_Surjection, FS_CardinalityType
<1>5. /\ IsFiniteSet(offered) /\ Cardinality(offered) \in Nat
      /\ Cardinality(offered) <= Cardinality(frames) + 1
  BY <1>4, OneMore
<1>6. /\ IsFiniteSet(held) /\ Cardinality(held) \in Nat
      /\ Cardinality(held) <= Cardinality(offered) + 1
  <2> HIDE DEF frames, offered
  <2> QED
    BY <1>5, OneMore
<1>7. heap \subseteq held
  BY DEF PInv, BuffersAreHeld, DispatcherHolds, RingHolds, RendererHolds, EntryHolds
<1>8. /\ IsFiniteSet(heap) /\ Cardinality(heap) \in Nat
      /\ Cardinality(heap) <= Cardinality(held)
  <2> HIDE DEF held
  <2> QED
    BY <1>6, <1>7, FS_Subset, FS_CardinalityType
<1> QED
  BY <1>1, <1>4, <1>5, <1>6, <1>8, PathAssumption DEF HeapBounded

-----------------------------------------------------------------------------
(* What holds in every state, for every set of buffers and every ring      *)

\* Only buffers that malloc returned are in the heap, beside the ring's types.
THEOREM TypeCorrect == Spec => []TypeOK
<1>1. PInv => TypeOK
  BY SameState DEF PInv, RP!IInv, TypeOK
<1> QED
  BY <1>1, PInvHolds, PTL

\* Every buffer h_PutImage allocated has exactly one holder until it is freed:
\* none is leaked on any path, none freed twice and none used after its free.
THEOREM EveryBufferHasOneHolder == Spec => []BuffersAreHeld
  BY PInvHolds, PTL DEF PInv

\* The pixel memory of all clients together never exceeds RING_SIZE + 2 buffers,
\* also when nothing renders: a full ring stops it, not malloc.
THEOREM MemoryIsBounded == Spec => []HeapBounded
  BY HoldersAreFew, PInvHolds, PTL

\* The frames of h_PutImage and h_ShmPutImage, with their buffers, go the way of
\* the bounded queue: each is accepted or, only when RING_SIZE wait, dropped, and
\* those accepted are rendered once each and in order (fairness is TLC's).
THEOREM PathImplementsQueue ==
    Spec => RP!Queue!Init /\ [][RP!Queue!Next]_(RP!Queue!vars)
<1>1. Init => RP!Queue!Init
  BY SameState, RP!InitImplements, BufAssumption, PathAssumption DEF Init
<1>2. PInv /\ PInv' /\ [Next]_vars => [RP!Queue!Next]_(RP!Queue!vars)
  BY RingSteps, RP!NextImplements, BufAssumption, PathAssumption DEF PInv
<1> QED
  BY <1>1, <1>2, PInvHolds, PTL DEF Spec
=============================================================================
