-------------------------------- MODULE Wire --------------------------------
(***************************************************************************)
(* TCP port 9999 as the two programs that serve it use it, and those that  *)
(* send to it.  All of this is the operating system's, and external.       *)
(*                                                                         *)
(* A stream carries a header as one unit and each piece of what follows it *)
(* as another; recv_all of the programs asks for some units and gets them  *)
(* all or, at the end of the stream, fails.                                *)
(***************************************************************************)
EXTENDS Naturals, Sequences

CONSTANT Sender \* those that connect, each once

VARIABLES listener, \* the program that listens on the port, or "none"
          backlog,  \* connections it has not accepted yet
          conn,     \* of each sender: "new", "waiting", "open" or "over"
          stream,   \* what each has sent and nobody has read
          shut      \* those that have closed their end, or died
wire == <<listener, backlog, conn, stream, shut>>

WireInit == /\ listener = "none"
            /\ backlog = <<>>
            /\ conn = [s \in Sender |-> "new"]
            /\ stream = [s \in Sender |-> <<>>]
            /\ shut = {}

\* bind and listen: one program at a time.
Listens(program) == listener = "none" /\ listener' = program

Accepts(s) == /\ backlog # <<>> /\ s = Head(backlog)
              /\ backlog' = Tail(backlog)
              /\ conn' = [conn EXCEPT ![s] = "open"]

\* The program ends these connections, and what is on the way is lost.
Closes(S) == /\ conn' = [s \in Sender |-> IF s \in S THEN "over" ELSE conn[s]]
             /\ stream' = [s \in Sender |-> IF s \in S THEN <<>> ELSE stream[s]]
             /\ shut' = shut \ S

HasSent(s, n) == Len(stream[s]) >= n
AtEnd(s, n) == Len(stream[s]) < n /\ s \in shut
Takes(s, n) == stream' = [stream EXCEPT ![s] = SubSeq(@, n + 1, Len(@))]

\* Whoever still waits is reset.
StopsListening(S) == /\ listener' = "none"
                     /\ backlog' = <<>>
                     /\ Closes(S \cup {s \in Sender : conn[s] = "waiting"})

Connect(s, limit) == /\ conn[s] = "new"
                     /\ listener # "none" /\ Len(backlog) < limit
                     /\ conn' = [conn EXCEPT ![s] = "waiting"]
                     /\ backlog' = Append(backlog, s)
                     /\ UNCHANGED <<listener, stream, shut>>

\* What is sent before the connection is accepted is not seen before it either.
Sends(s, unit, room) == /\ conn[s] = "open" /\ s \notin shut
                        /\ Len(stream[s]) < room
                        /\ stream' = [stream EXCEPT ![s] = Append(@, unit)]
                        /\ UNCHANGED <<listener, backlog, conn, shut>>

Shuts(s) == /\ conn[s] = "open" /\ s \notin shut
            /\ shut' = shut \cup {s}
            /\ UNCHANGED <<listener, backlog, conn, stream>>
=============================================================================
