-------------------------------- MODULE MCXv --------------------------------
(* Requests and their replies, and images, which share no variable: no      *)
(* property speaks of both, so that each may rest while the other moves.    *)
(*                                                                          *)
(* Two requests of every kind on their way, then the focus, with numbers    *)
(* that repeat after four: every pair, at every place of the wrap.  Images  *)
(* of every size up to seven, of which those up to 6x4 fit the integers and *)
(* the others wrap them; the largest is rounded up to what a reply cannot   *)
(* hold.  The shorter amount of data holds the smaller images only.         *)
EXTENDS XvReplies, XvImages

XvInit == Init /\ ImageInit

NothingAsked == sent = <<>> /\ requests = <<>> /\ wire = <<>> /\ number = 1 /\ canWrite

XvNext == \/ phase = "idle" /\ Next /\ UNCHANGED imageVars
          \/ NothingAsked /\ ImageNext /\ UNCHANGED vars

XvSpec == XvInit /\ [][XvNext]_<<vars, imageVars>>
=============================================================================
