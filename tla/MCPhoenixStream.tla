-------------------------- MODULE MCPhoenixStream --------------------------
(* Six frames fill stdin, ffmpeg, stdout, the sender and the socket and     *)
(* leave main() one to write; stdout holds more than one unit.             *)
EXTENDS PhoenixStream
=============================================================================
