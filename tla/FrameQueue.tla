----------------------------- MODULE FrameQueue -----------------------------
(***************************************************************************)
(* What the frame path of src/src/cyxv_dispatch.c promises to the X server *)
(* and to the client, with the ring, the indices and the semaphore left    *)
(* out: frames are shown one at a time in the order they were offered, and *)
(* a frame is lost only when Cap frames are already waiting ("we prefer    *)
(* losing frames over stalling dispatch", cyxv_dispatch.c:121-122).        *)
(* FrameRing is shown to implement this specification.                     *)
(***************************************************************************)
EXTENDS Naturals, Sequences

CONSTANTS Frame,    \* the frames a client may put
          NoFrame,  \* "no frame here"
          Cap       \* how many accepted frames may wait

VARIABLES offer,    \* the frame a put request is trying to hand over
          queue,    \* the accepted frames, oldest first
          taken     \* the frame being shown
vars == <<offer, queue, taken>>

Init == /\ offer = NoFrame
        /\ queue = <<>>
        /\ taken = NoFrame

Offer(f) == /\ offer = NoFrame
            /\ offer' = f
            /\ UNCHANGED <<queue, taken>>

Accept == /\ offer # NoFrame
          /\ Len(queue) < Cap
          /\ queue' = Append(queue, offer)
          /\ offer' = NoFrame
          /\ UNCHANGED taken

\* The newest frame is the one that is lost, and only when the queue is full.
Drop == /\ offer # NoFrame
        /\ Len(queue) = Cap
        /\ offer' = NoFrame
        /\ UNCHANGED <<queue, taken>>

Take == /\ taken = NoFrame
        /\ queue # <<>>
        /\ taken' = Head(queue)
        /\ queue' = Tail(queue)
        /\ UNCHANGED offer

Shown == /\ taken # NoFrame
         /\ taken' = NoFrame
         /\ UNCHANGED <<offer, queue>>

Next == (\E f \in Frame : Offer(f)) \/ Accept \/ Drop \/ Take \/ Shown

\* Clients owe nothing; an offered frame is answered, a waiting frame is shown.
Spec == /\ Init
        /\ [][Next]_vars
        /\ WF_vars(Accept \/ Drop)
        /\ WF_vars(Take)
        /\ WF_vars(Shown)
=============================================================================
