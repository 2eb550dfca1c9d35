----------------------------- MODULE FramePath ------------------------------
(***************************************************************************)
(* A frame's way from the request to the screen in                         *)
(* src/src/cyxv_dispatch.c: h_PutImage copies the pixels into a malloc'd   *)
(* buffer, h_ShmPutImage sends metadata only, and render_thread frees the  *)
(* buffer after showing it.  The ring is FrameRing.  What a FrameMeta      *)
(* matters for here is its inline_pixels: a buffer, or ShmFrame for NULL.  *)
(*                                                                         *)
(* A free is one step with the thread-local step it follows: the other     *)
(* thread cannot tell the two apart.                                       *)
(***************************************************************************)
EXTENDS Integers

CONSTANTS Buf,       \* the addresses malloc may return
          ShmFrame,  \* inline_pixels == NULL: a ShmPutImage frame
          NoFrame,
          RingSize,
          IndexMod

\* A frame is a buffer or ShmFrame; the ring's constants are FrameRing's.
ASSUME BufAssumption == ShmFrame \notin Buf /\ NoFrame \notin Buf \cup {ShmFrame}
ASSUME PathAssumption == /\ RingSize \in Nat \ {0} /\ IndexMod \in Nat
                         /\ RingSize < IndexMod /\ IndexMod % RingSize = 0

VARIABLES slots, head, tail, sem, dpc, dframe, rpc, rframe,
          heap,     \* the pixel buffers allocated and not yet freed
          renderer  \* the render thread was started
ringVars == <<slots, head, tail, sem, dpc, dframe, rpc, rframe>>
vars == <<ringVars, heap, renderer>>

Ring == INSTANCE FrameRing WITH Frame <- Buf \cup {ShmFrame}

\* do_init starts the render thread only when XOpenDisplay succeeds, and
\* registers the extension either way (cyxv_init.c:276-297).
Init == /\ Ring!Init
        /\ heap = {}
        /\ renderer \in BOOLEAN

-----------------------------------------------------------------------------
(* The dispatch thread                                                     *)

\* free(p) of a frame's inline_pixels
Freed(f) == heap \ {f}

\* Mutant: malloc's result is not tested.
MutPutUntested(b) == /\ Ring!Offer(NoFrame)
                     /\ UNCHANGED <<heap, renderer>>

\* h_PutImage with sz # 0; when malloc fails it returns and changes nothing.
PutImage(b) == /\ b \notin heap
               /\ heap' = heap \cup {b}
               /\ Ring!Offer(b)
               /\ UNCHANGED renderer

\* h_ShmPutImage; ShmCache has the segment's resolution.
ShmPutImage == /\ Ring!Offer(ShmFrame)
               /\ UNCHANGED <<heap, renderer>>

\* ring_enqueue returned -1: h_PutImage frees its buffer, h_ShmPutImage has none.
Rejected == /\ Ring!Drop
            /\ heap' = Freed(dframe)
            /\ UNCHANGED renderer

\* Mutant: the buffer is freed whatever ring_enqueue returned.
MutEnqueueFrees ==
    \/ /\ Ring!HasRoom \/ Ring!WriteSlot \/ Ring!PublishHead
       /\ UNCHANGED <<heap, renderer>>
    \/ /\ Ring!Post
       /\ heap' = Freed(dframe)
       /\ UNCHANGED renderer

Enqueue == /\ Ring!HasRoom \/ Ring!WriteSlot \/ Ring!PublishHead \/ Ring!Post
           /\ UNCHANGED <<heap, renderer>>

-----------------------------------------------------------------------------
(* The render thread, if there is one                                      *)

Dequeue == /\ renderer
           /\ Ring!Dequeue \/ Ring!Interrupted
           /\ UNCHANGED <<heap, renderer>>

\* Mutant: the render thread leaves the buffer to the dispatch thread.
MutRenderedKeeps == /\ renderer
                    /\ rframe \in Buf
                    /\ Ring!Rendered
                    /\ UNCHANGED <<heap, renderer>>

\* render_frame returns, whatever it met (no display, no memory, an unknown
\* fourcc), and an inline buffer is freed.
RenderedInline == /\ renderer
                  /\ rframe \in Buf
                  /\ Ring!Rendered
                  /\ heap' = Freed(rframe)
                  /\ UNCHANGED renderer

RenderedShm == /\ renderer
               /\ rframe = ShmFrame
               /\ Ring!Rendered
               /\ UNCHANGED <<heap, renderer>>

-----------------------------------------------------------------------------
Dispatch == Rejected \/ Enqueue
Next == \/ \E b \in Buf : PutImage(b)
        \/ ShmPutImage
        \/ Dispatch
        \/ Dequeue \/ RenderedInline \/ RenderedShm

\* The dispatch thread finishes the request it is in; the render thread runs.
\* EINTR is not needed for progress: Dequeue is weakly fair because a post
\* enables it, or because the thread can go on.
Fairness == /\ WF_vars(Dispatch)
            /\ WF_vars(renderer /\ Ring!Dequeue /\ UNCHANGED <<heap, renderer>>)
            /\ WF_vars(RenderedInline \/ RenderedShm)

Spec == Init /\ [][Next]_vars /\ Fairness

-----------------------------------------------------------------------------
TypeOK == /\ Ring!TypeOK
          /\ heap \subseteq Buf
          /\ renderer \in BOOLEAN

\* Who holds a buffer: the request being handled until the head is published,
\* a ring entry until the tail has passed it, the frame being rendered.
DispatcherHolds == IF dpc \in {"check", "write", "publish"} THEN {dframe} \cap Buf ELSE {}
EntryHolds(k) == {Ring!Entry(k)} \cap Buf
RingHolds == UNION {EntryHolds(k) : k \in 1 .. Ring!Used}
RendererHolds == IF rpc = "render" THEN {rframe} \cap Buf ELSE {}

\* A buffer is never freed twice, nor freed by one thread while the other may
\* still read it: no two holders have the same buffer (lines 607-636, 309-330).
OneHolder ==
    /\ DispatcherHolds \cap RingHolds = {}
    /\ DispatcherHolds \cap RendererHolds = {}
    /\ RingHolds \cap RendererHolds = {}
    /\ \A j, k \in 1 .. Ring!Used : j # k => EntryHolds(j) \cap EntryHolds(k) = {}

\* Each allocated buffer has exactly one holder, and nobody holds another: on
\* every path, drops included, none is leaked and none is read after its free.
\* So the pixel memory of all clients together is bounded, also when nothing
\* renders.
BuffersAreHeld ==
    /\ OneHolder
    /\ heap = DispatcherHolds \cup RingHolds \cup RendererHolds

\* With a render thread, every buffer is freed in the end even if no further
\* request arrives.
EveryBufferFreed == \A b \in Buf : (renderer /\ b \in heap) ~> (b \notin heap)
=============================================================================
