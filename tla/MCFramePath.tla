---------------------------- MODULE MCFramePath -----------------------------
(* One buffer more than the ring and the two threads can hold, so that       *)
(* malloc has a free one in every state.                                    *)
EXTENDS FramePath
CONSTANTS b1, b2, b3, b4, b5
MCBuf == {b1, b2, b3, b4, b5}
=============================================================================
