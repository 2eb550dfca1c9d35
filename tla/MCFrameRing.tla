---------------------------- MODULE MCFrameRing -----------------------------
(* A ring of two slots whose indices wrap at four, and two frames to tell   *)
(* apart: every position of head and tail, the wrap and the full ring occur.*)
EXTENDS FrameRing
CONSTANTS f1, f2
MCFrame == {f1, f2}
=============================================================================
