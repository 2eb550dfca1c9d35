---------------------------- MODULE MCRenderers ----------------------------
(* Two senders of the old protocol and one streamer, on either renderer.    *)
(* The former send without end, numbering their pictures 0, 1, 0, 1...; the *)
(* latter sends two packets.  Sizes are 1, 2, 0 and too large, so that      *)
(* buffer and window grow, shrink and are refused; the window starts at 1.  *)
(* The X server is up to five requests behind the receiver: a segment is    *)
(* removed before the server has come to attach it.                        *)
EXTENDS Renderers
CONSTANTS g1, g2, s1
MCSender == {g1, g2, s1}
MCGhostSender == {g1, g2}
=============================================================================
