------------------------------ MODULE ShmCache ------------------------------
(***************************************************************************)
(* ShmPutImage frames in src/src/cyxv_dispatch.c: the dispatch thread      *)
(* resolves the request's segment XID to a kernel shmid (shmseg_to_shmid), *)
(* the render thread maps the shmid (shm_attach) and remembers the mapping *)
(* under the XID.  Frames wait in between in a FrameQueue, which FrameRing *)
(* implements.  The client, the MIT-SHM extension and the kernel are       *)
(* external: XIDs are bound to segments, unbound and bound again, and      *)
(* segments disappear once nobody names them.                              *)
(***************************************************************************)
EXTENDS Naturals, Sequences

CONSTANTS Xid,       \* segment XIDs
          Shmid,     \* kernel segment identifiers
          LowBits,   \* the low 24 bits of each XID, read as a shmid
          None,      \* no segment, no frame, no pixels
          CacheSize, \* SHM_CACHE
          MaxMaps,   \* how many shmat calls succeed in one process
          Cap        \* RING_SIZE

ASSUME CacheAssumption == /\ LowBits \in [Xid -> Shmid]
                          /\ CacheSize \in Nat
                          /\ MaxMaps \in Nat
                          /\ Cap \in Nat
                          /\ None \notin Shmid

VARIABLES offer, queue, taken, \* the FrameQueue
          segs,      \* MIT-SHM's resources: the shmid an XID names
          live,      \* the segments that exist in the kernel
          hasLookup, \* do_init resolved dixLookupResourceByType and ShmSegType
          cache,     \* g_shm[0 .. g_shm_n-1]; a mapping is named by its shmid
          maps,      \* how many mappings were made; nothing calls shmdt
          pixels,    \* the mapping the frame in hand is rendered from
          resolved   \* history: the shmids put into frames of each XID
queueVars == <<offer, queue, taken>>
external == <<segs, live, hasLookup>>
vars == <<queueVars, external, cache, maps, pixels, resolved>>

MetaFrame == [xid : Xid, shmid : Shmid]
Queue == INSTANCE FrameQueue WITH Frame <- MetaFrame, NoFrame <- None

Init == /\ Queue!Init
        /\ segs = [x \in Xid |-> None]
        /\ live = Shmid
        /\ hasLookup \in BOOLEAN
        /\ cache = <<>>
        /\ maps = 0
        /\ pixels = None
        /\ resolved = [x \in Xid |-> {}]

-----------------------------------------------------------------------------
(* External: the client, MIT-SHM and the kernel                            *)

ShmAttach(x, s) == /\ segs[x] = None
                   /\ s \in live
                   /\ segs' = [segs EXCEPT ![x] = s]
                   /\ UNCHANGED <<queueVars, live, hasLookup, cache, maps, pixels, resolved>>

ShmDetach(x) == /\ segs[x] # None
                /\ segs' = [segs EXCEPT ![x] = None]
                /\ UNCHANGED <<queueVars, live, hasLookup, cache, maps, pixels, resolved>>

Destroy(s) == /\ s \in live
              /\ \A x \in Xid : segs[x] # s
              /\ live' = live \ {s}
              /\ UNCHANGED <<queueVars, segs, hasLookup, cache, maps, pixels, resolved>>

-----------------------------------------------------------------------------
(* The dispatch thread                                                     *)

\* shmseg_to_shmid: the server's resource table, or a guess from the XID.
Resolve(x) == IF hasLookup /\ segs[x] # None THEN segs[x] ELSE LowBits[x]

ShmPutImage(x) ==
    /\ Queue!Offer([xid |-> x, shmid |-> Resolve(x)])
    /\ resolved' = [resolved EXCEPT ![x] = @ \cup {Resolve(x)}]
    /\ UNCHANGED <<external, cache, maps, pixels>>

Enqueue == /\ Queue!Accept \/ Queue!Drop
           /\ UNCHANGED <<external, cache, maps, pixels, resolved>>

-----------------------------------------------------------------------------
(* The render thread                                                       *)

Dequeue == /\ Queue!Take
           /\ UNCHANGED <<external, cache, maps, pixels, resolved>>

\* Mutant: the resource part of the XID is compared only.
MutMatchesLow(e, m) == LowBits[e.xid] = LowBits[m.xid]

\* The entry shm_attach returns: it compares XIDs only.
Matches(e, m) == e.xid = m.xid
Cached(m) == {i \in DOMAIN cache : Matches(cache[i], m)}
First(S) == CHOOSE i \in S : \A j \in S : i <= j

CacheHit == /\ taken # None /\ pixels = None
            /\ Cached(taken) # {}
            /\ pixels' = cache[First(Cached(taken))].shmid
            /\ UNCHANGED <<queueVars, external, cache, maps, resolved>>

\* Mutant: no bound.
MutRememberAll(m) == Append(cache, m)

\* A mapping that finds the cache full is returned but not remembered.
Remember(m) == IF Len(cache) < CacheSize THEN Append(cache, m) ELSE cache

Mappable(m) == m.shmid \in live /\ maps < MaxMaps

AttachSegment == /\ taken # None /\ pixels = None
                 /\ Cached(taken) = {}
                 /\ Mappable(taken)
                 /\ maps' = maps + 1
                 /\ cache' = Remember(taken)
                 /\ pixels' = taken.shmid
                 /\ UNCHANGED <<queueVars, external, resolved>>

\* shmat failed: a log line, and the frame is gone.
AttachFails == /\ taken # None /\ pixels = None
               /\ Cached(taken) = {}
               /\ ~Mappable(taken)
               /\ Queue!Shown
               /\ UNCHANGED <<external, cache, maps, pixels, resolved>>

Rendered == /\ pixels # None
            /\ Queue!Shown
            /\ pixels' = None
            /\ UNCHANGED <<external, cache, maps, resolved>>

-----------------------------------------------------------------------------
Client == \/ \E x \in Xid, s \in Shmid : ShmAttach(x, s)
          \/ \E x \in Xid : ShmDetach(x) \/ ShmPutImage(x)
          \/ \E s \in Shmid : Destroy(s)
Next == \/ Client
        \/ Enqueue \/ Dequeue
        \/ CacheHit \/ AttachSegment \/ AttachFails \/ Rendered

Spec == Init /\ [][Next]_vars

-----------------------------------------------------------------------------
TypeOK == /\ offer \in MetaFrame \cup {None}
          /\ queue \in Seq(MetaFrame) /\ Len(queue) <= Cap
          /\ taken \in MetaFrame \cup {None}
          /\ segs \in [Xid -> Shmid \cup {None}]
          /\ live \subseteq Shmid
          /\ hasLookup \in BOOLEAN
          /\ cache \in Seq(MetaFrame) /\ Len(cache) <= CacheSize
          /\ maps \in 0 .. MaxMaps
          /\ pixels \in Shmid \cup {None}
          /\ resolved \in [Xid -> SUBSET Shmid]

\* An XID that has always resolved to the same segment is shown from that
\* segment: through drops, failed attaches, a full cache, and the detach or
\* destruction of the segment between the request and its rendering.
SteadyXidShown ==
    pixels # None /\ resolved[taken.xid] = {taken.shmid} => pixels = taken.shmid

\* Every frame is shown from the segment its request named: "int shmid; /*
\* POSIX shmid for shmat */" (cyxv_dispatch.c:131) is what gets mapped.
ShownFromItsShmid == pixels # None => pixels = taken.shmid
=============================================================================
