--------------------------- MODULE ShmCacheProofs ---------------------------
(***************************************************************************)
(* A steady XID is shown from its segment, for every set of XIDs and       *)
(* segments, every size of the cache and of the queue, and however the     *)
(* client, the MIT-SHM extension and the kernel behave.                    *)
(***************************************************************************)
EXTENDS ShmCache, TLAPS, WellFoundedInduction

-----------------------------------------------------------------------------
(* The search of shm_attach                                                *)

\* A set of indices that is not empty has a first one.
LEMMA NatMin ==
    ASSUME NEW S \in SUBSET Nat, S # {}
    PROVE  \E i \in S : \A j \in S : i <= j
<1> DEFINE R == {ss \in Nat \X Nat : ss[1] < ss[2]}
<1>1. IsWellFoundedOn(R, Nat)
  BY NatLessThanWellFounded DEF OpToRel
<1>2. \E i \in S : \A j \in S : <<j, i>> \notin R
  BY <1>1, WFMin
<1>3. ASSUME NEW i \in S, NEW j \in S, <<j, i>> \notin R
      PROVE  i <= j
  BY <1>3
<1> QED
  BY <1>2, <1>3

\* The entry found is one of the frame's XID.
LEMMA HitMatches ==
    ASSUME TypeOK, NEW m \in MetaFrame, Cached(m) # {}
    PROVE  /\ First(Cached(m)) \in DOMAIN cache
           /\ cache[First(Cached(m))] \in MetaFrame
           /\ cache[First(Cached(m))].xid = m.xid
<1>1. Cached(m) \in SUBSET Nat
  BY DEF Cached, TypeOK
<1>2. First(Cached(m)) \in Cached(m)
  BY <1>1, NatMin DEF First
<1> QED
  BY <1>2 DEF Cached, Matches, TypeOK

LEMMA ResolveType ==
    ASSUME TypeOK, NEW x \in Xid
    PROVE  Resolve(x) \in Shmid
  BY CacheAssumption DEF Resolve, TypeOK

-----------------------------------------------------------------------------
(* The inductive invariant: whatever stands for an XID, on its way to the  *)
(* screen or in the cache, was resolved from that XID by some request.     *)

Known(m) == m.shmid \in resolved[m.xid]

Provenance ==
    /\ offer # None => Known(offer)
    /\ \A i \in DOMAIN queue : Known(queue[i])
    /\ taken # None => Known(taken)
    /\ \A i \in DOMAIN cache : Known(cache[i])
    /\ pixels # None => taken # None /\ pixels \in resolved[taken.xid]

IInv == TypeOK /\ Provenance

LEMMA InitIInv == Init => IInv
  BY CacheAssumption DEF Init, Queue!Init, IInv, TypeOK, Provenance

LEMMA NextIInv == IInv /\ [Next]_vars => IInv'
<1> SUFFICES ASSUME IInv, [Next]_vars
             PROVE  IInv'
  OBVIOUS
<1> USE CacheAssumption
    DEF IInv, TypeOK, Provenance, Known, queueVars, external
<1>1. ASSUME NEW x \in Xid, NEW s \in Shmid, ShmAttach(x, s)
      PROVE  IInv'
  BY <1>1 DEF ShmAttach
<1>2. ASSUME NEW x \in Xid, ShmDetach(x)
      PROVE  IInv'
  BY <1>2 DEF ShmDetach
<1>3. ASSUME NEW s \in Shmid, Destroy(s)
      PROVE  IInv'
  BY <1>3 DEF Destroy
<1>4. ASSUME NEW x \in Xid, ShmPutImage(x)
      PROVE  IInv'
  <2>1. Resolve(x) \in Shmid
    BY ResolveType
  <2>2. /\ offer' = [xid |-> x, shmid |-> Resolve(x)]
        /\ resolved' = [resolved EXCEPT ![x] = @ \cup {Resolve(x)}]
        /\ UNCHANGED <<queue, taken, external, cache, maps, pixels>>
    BY <1>4 DEF ShmPutImage, Queue!Offer
  <2>3. TypeOK'
    BY <2>1, <2>2 DEF MetaFrame
  <2>4. \A m \in MetaFrame : Known(m) => Known(m)'
    BY <2>2 DEF MetaFrame
  <2>5. Known(offer)'
    BY <2>1, <2>2
  <2>6. pixels # None => pixels \in resolved'[taken.xid]
    BY <2>2 DEF MetaFrame
  <2> QED
    BY <2>2, <2>3, <2>4, <2>5, <2>6
<1>5. CASE Enqueue
  <2>1. CASE Queue!Accept
    <3>1. /\ offer \in MetaFrame /\ Known(offer)
          /\ queue' = Append(queue, offer) /\ Len(queue) < Cap
          /\ offer' = None /\ UNCHANGED <<taken, external, cache, maps, pixels, resolved>>
      BY <1>5, <2>1 DEF Enqueue, Queue!Accept
    <3>2. queue' \in Seq(MetaFrame) /\ Len(queue') <= Cap
      BY <3>1
    <3>3. \A i \in DOMAIN queue' : Known(queue'[i])
      BY <3>1
    <3> QED
      BY <3>1, <3>2, <3>3
  <2>2. CASE Queue!Drop
    BY <1>5, <2>2 DEF Enqueue, Queue!Drop
  <2> QED
    BY <1>5, <2>1, <2>2 DEF Enqueue
<1>6. CASE Dequeue
  <2>1. /\ queue # <<>> /\ taken = None /\ taken' = Head(queue) /\ queue' = Tail(queue)
        /\ UNCHANGED <<offer, external, cache, maps, pixels, resolved>>
    BY <1>6 DEF Dequeue, Queue!Take
  <2>2. /\ Head(queue) \in MetaFrame /\ Known(Head(queue))
        /\ queue' \in Seq(MetaFrame) /\ Len(queue') <= Cap
        /\ \A i \in DOMAIN queue' : queue'[i] = queue[i + 1] /\ i + 1 \in DOMAIN queue
    BY <2>1
  <2> QED
    BY <2>1, <2>2
<1>7. CASE CacheHit
  <2>1. taken \in MetaFrame /\ Cached(taken) # {}
    BY <1>7 DEF CacheHit
  <2>2. /\ First(Cached(taken)) \in DOMAIN cache
        /\ cache[First(Cached(taken))] \in MetaFrame
        /\ cache[First(Cached(taken))].xid = taken.xid
    BY <2>1, HitMatches
  <2>3. /\ pixels' \in resolved[taken.xid] /\ pixels' \in Shmid
    BY <1>7, <2>2 DEF CacheHit, MetaFrame
  <2> QED
    BY <1>7, <2>3 DEF CacheHit
<1>8. CASE AttachSegment
  <2>1. /\ taken # None /\ taken \in MetaFrame /\ Known(taken)
        /\ maps < MaxMaps /\ maps' = maps + 1
        /\ cache' = Remember(taken) /\ pixels' = taken.shmid
        /\ UNCHANGED <<queueVars, external, resolved>>
    BY <1>8 DEF AttachSegment, Mappable
  <2>2. cache' \in Seq(MetaFrame) /\ Len(cache') <= CacheSize
    BY <2>1 DEF Remember
  <2>3. \A i \in DOMAIN cache' : Known(cache'[i])
    BY <2>1 DEF Remember
  <2>4. taken.shmid \in resolved[taken.xid] /\ taken.shmid \in Shmid /\ maps' \in 0 .. MaxMaps
    BY <2>1 DEF MetaFrame
  <2> QED
    BY <2>1, <2>2, <2>3, <2>4
<1>9. CASE AttachFails \/ Rendered
  BY <1>9 DEF AttachFails, Rendered, Queue!Shown
<1>10. CASE UNCHANGED vars
  BY <1>10 DEF vars
<1> QED
  BY <1>1, <1>2, <1>3, <1>4, <1>5, <1>6, <1>7, <1>8, <1>9, <1>10 DEF Next, Client

LEMMA IInvHolds == Spec => []IInv
  BY InitIInv, NextIInv, PTL DEF Spec

-----------------------------------------------------------------------------
(* What holds in every state                                               *)

\* The queue, the cache and the mappings stay within their bounds, and what is
\* rendered from is a segment's mapping.
THEOREM TypeCorrect == Spec => []TypeOK
  BY IInvHolds, PTL DEF IInv

\* An XID that always meant the same segment is shown from that segment: the
\* cache, which is keyed by the XID alone, can be wrong only about an XID that
\* two requests resolved differently.
THEOREM SteadyXidIsShown == Spec => []SteadyXidShown
<1>1. IInv => SteadyXidShown
  BY DEF IInv, Provenance, SteadyXidShown
<1> QED
  BY <1>1, IInvHolds, PTL
=============================================================================
