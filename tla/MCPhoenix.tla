----------------------------- MODULE MCPhoenix -----------------------------
(* A frame of two rows does not fit into its pipe; stdout holds a unit and  *)
(* half a start code, so that reads cut units and start codes anywhere.     *)
(* Four frames fill every link.                                            *)
EXTENDS Phoenix
=============================================================================
