--------------------------- MODULE PhoenixStream ---------------------------
(***************************************************************************)
(* The streamer behind the capture: main() writes frames into ffmpeg's     *)
(* stdin, the thread nal_sender reads H.264 from its stdout, cuts it into  *)
(* NAL units and sends each as a packet to phoenix_receiver.  Every link   *)
(* is bounded, so every link can make the one before it wait.              *)
(*                                                                         *)
(* ffmpeg (zerolatency, no buffering) makes one NAL unit of NalLen pieces  *)
(* of each frame; the first two are its start code, so that a read can cut *)
(* that, too.                                                              *)
(***************************************************************************)
EXTENDS Naturals, Sequences

CONSTANTS NalLen,     \* pieces of a NAL unit
          StdinSize,  \* frames ffmpeg's stdin holds
          StdoutSize, \* pieces its stdout holds
          SockSize,   \* packets the connection holds
          MaxFrames   \* frames captured at most

StreamAssumption == /\ NalLen \in Nat /\ NalLen > 2
                    /\ {StdinSize, StdoutSize, SockSize, MaxFrames} \subseteq Nat \ {0}

VARIABLES main,      \* "capture", "write" (a frame into stdin), "close", "exit", "exited"
          frames,    \* frames captured
          stdin,     \* frames in ffmpeg's stdin
          encoder,   \* "running" or "dead"
          encoded,   \* frames ffmpeg has read
          pending,   \* pieces it has to write
          stdout,    \* pieces in its stdout
          sender,    \* "read", "split", "send", "flush", "ended"
          buf,       \* nal_sender's buf
          nal,       \* the unit it is sending
          sock,      \* packets on the way
          open,      \* the socket is not closed
          receiver,  \* "alive", "done" (end of stream) or "gone"
          received   \* packets it has read
source == <<main, frames, stdin>>
ffmpeg == <<encoder, encoded, pending>>
thread == <<sender, buf, nal>>
link == <<sock, open, receiver, received>>
vars == <<source, ffmpeg, stdout, thread, link>>

Piece(i, k) == [nal |-> i, at |-> k]
Nal(i) == [k \in 1 .. NalLen |-> Piece(i, k)]

Init == /\ main = "capture" /\ frames = 0 /\ stdin = 0
        /\ encoder = "running" /\ encoded = 0 /\ pending = <<>>
        /\ stdout = <<>>
        /\ sender = "read" /\ buf = <<>> /\ nal = <<>>
        /\ sock = <<>> /\ open = TRUE
        /\ receiver = "alive" /\ received = <<>>

-----------------------------------------------------------------------------
(* main()                                                                  *)

Capture == /\ main = "capture"
           /\ frames < MaxFrames
           /\ frames' = frames + 1
           /\ main' = "write"
           /\ UNCHANGED <<stdin, ffmpeg, stdout, thread, link>>

\* encoder.stdin.write blocks while the pipe is full.
WriteStdin == /\ main = "write"
              /\ encoder = "running"
              /\ stdin < StdinSize
              /\ stdin' = stdin + 1
              /\ main' = "capture"
              /\ UNCHANGED <<frames, ffmpeg, stdout, thread, link>>

\* The source ends, the user stops the program or a write fails: terminate()
\* ends ffmpeg at once, as it does on Windows, and what it has not read is lost.
WriteFails == main = "write" /\ encoder = "dead"
Stop == /\ main \in {"capture", "write"}
        /\ main' = "close"
        /\ encoder' = "dead"
        /\ pending' = <<>> /\ stdin' = 0
        /\ UNCHANGED <<frames, encoded, stdout, thread, link>>

\* sys.exit, or Ctrl-C, before ffmpeg and the thread are started.
Quit == /\ main = "capture" /\ frames = 0 /\ encoder = "running"
        /\ main' = "exited"
        /\ encoder' = "dead" /\ sender' = "ended" /\ open' = FALSE
        /\ UNCHANGED <<frames, stdin, encoded, pending, stdout, buf, nal, sock, receiver, received>>

CloseSocket == /\ main = "close"
               /\ main' = "exit"
               /\ open' = FALSE
               /\ UNCHANGED <<frames, stdin, ffmpeg, stdout, thread, sock, receiver, received>>

\* The interpreter exits: nal_sender is a daemon thread.
Exit == /\ main = "exit"
        /\ main' = "exited"
        /\ sender' = "ended" /\ buf' = <<>> /\ nal' = <<>>
        /\ stdout' = <<>>
        /\ UNCHANGED <<frames, stdin, ffmpeg, link>>

-----------------------------------------------------------------------------
(* ffmpeg                                                                  *)

Encode == /\ encoder = "running"
          /\ pending = <<>>
          /\ stdin > 0
          /\ stdin' = stdin - 1
          /\ encoded' = encoded + 1
          /\ pending' = Nal(encoded + 1)
          /\ UNCHANGED <<main, frames, encoder, stdout, thread, link>>

WriteStdout == /\ encoder = "running"
               /\ pending # <<>>
               /\ Len(stdout) < StdoutSize
               /\ stdout' = Append(stdout, Head(pending))
               /\ pending' = Tail(pending)
               /\ UNCHANGED <<source, encoder, encoded, thread, link>>

EncoderDies == /\ encoder = "running"
               /\ encoder' = "dead"
               /\ pending' = <<>> /\ stdin' = 0
               /\ UNCHANGED <<main, frames, encoded, stdout, thread, link>>

-----------------------------------------------------------------------------
(* nal_sender                                                              *)

MutReadChunk == /\ sender = "read" \* mutant: the frames are written and read by one thread
                /\ main # "write"
                /\ stdout # <<>>
                /\ buf' = buf \o stdout
                /\ stdout' = <<>>
                /\ sender' = "split"
                /\ UNCHANGED <<source, ffmpeg, nal, link>>
MutReadOver == /\ sender = "read" \* mutant: buf = chunk, not buf += chunk
               /\ stdout # <<>>
               /\ buf' = stdout
               /\ stdout' = <<>>
               /\ sender' = "split"
               /\ UNCHANGED <<source, ffmpeg, nal, link>>
ReadChunk == /\ sender = "read"
             /\ stdout # <<>>
             /\ buf' = buf \o stdout
             /\ stdout' = <<>>
             /\ sender' = "split"
             /\ UNCHANGED <<source, ffmpeg, nal, link>>

MutReadEof == /\ sender = "read" \* mutant: whatever is left is flushed
              /\ stdout = <<>> /\ encoder = "dead"
              /\ sender' = "flush" /\ nal' = buf /\ buf' = <<>>
              /\ UNCHANGED <<source, ffmpeg, stdout, link>>
\* End of file: what is left is sent if it is more than a start code.
ReadEof == /\ sender = "read"
           /\ stdout = <<>> /\ encoder = "dead"
           /\ IF Len(buf) > 2 THEN sender' = "flush" /\ nal' = buf /\ buf' = <<>>
              ELSE sender' = "ended" /\ UNCHANGED <<buf, nal>>
           /\ UNCHANGED <<source, ffmpeg, stdout, link>>

\* The whole start codes behind the first one: find(..., 4).
NextStart == {i \in 3 .. Len(buf) - 1 : buf[i].at = 1 /\ buf[i + 1].at = 2}
First(S) == CHOOSE i \in S : \A j \in S : i <= j

\* A unit is complete when the next start code is there; one without content
\* is dropped.
Split == /\ sender = "split"
         /\ IF NextStart = {} THEN sender' = "read" /\ UNCHANGED <<buf, nal>>
            ELSE /\ nal' = SubSeq(buf, 1, First(NextStart) - 1)
                 /\ buf' = SubSeq(buf, First(NextStart), Len(buf))
                 /\ sender' = IF Len(nal') > 2 THEN "send" ELSE "split"
         /\ UNCHANGED <<source, ffmpeg, stdout, link>>

\* sendall of the header and of the unit.
Send == /\ sender \in {"send", "flush"}
        /\ open /\ receiver = "alive"
        /\ Len(sock) < SockSize
        /\ sock' = Append(sock, nal)
        /\ sender' = IF sender = "send" THEN "split" ELSE "ended"
        /\ nal' = <<>>
        /\ UNCHANGED <<source, ffmpeg, stdout, buf, open, receiver, received>>

\* OSError ends the thread; nobody reads stdout from then on.
SendFails == /\ sender \in {"send", "flush"}
             /\ ~open \/ receiver # "alive"
             /\ sender' = "ended" /\ buf' = <<>> /\ nal' = <<>>
             /\ UNCHANGED <<source, ffmpeg, stdout, link>>

-----------------------------------------------------------------------------
(* phoenix_receiver.c                                                      *)

\* recv_all of the header, the checks, recv_all of the unit; then it is decoded.
Receive == /\ receiver = "alive"
           /\ sock # <<>>
           /\ sock' = Tail(sock)
           /\ received' = Append(received, Head(sock))
           /\ UNCHANGED <<source, ffmpeg, stdout, thread, open, receiver>>

ReceiverDone == /\ receiver = "alive"
                /\ sock = <<>> /\ ~open
                /\ receiver' = "done"
                /\ UNCHANGED <<source, ffmpeg, stdout, thread, sock, open, received>>

\* The user closes it, or an X error ends it.
ReceiverGone == /\ receiver = "alive"
                /\ receiver' = "gone"
                /\ sock' = <<>>
                /\ UNCHANGED <<source, ffmpeg, stdout, thread, open, received>>

Main == WriteStdin \/ (WriteFails /\ Stop) \/ CloseSocket \/ Exit
Ffmpeg == Encode \/ WriteStdout
Sender == ReadChunk \/ ReadEof \/ Split \/ Send \/ SendFails
Receiver == Receive \/ ReceiverDone
Next == Capture \/ Stop \/ Quit \/ Main \/ EncoderDies \/ Ffmpeg \/ Sender \/ Receiver \/ ReceiverGone

\* Every thread and process goes on while it can; frames come, the end, the
\* death of a process and Ctrl-C need not.
Spec == /\ Init /\ [][Next]_vars
        /\ WF_vars(Capture) /\ WF_vars(Main) /\ WF_vars(Ffmpeg)
        /\ WF_vars(Sender) /\ WF_vars(Receiver)

-----------------------------------------------------------------------------
Pieces == Seq([nal : 1 .. MaxFrames, at : 1 .. NalLen])
TypeOK ==
    /\ main \in {"capture", "write", "close", "exit", "exited"}
    /\ frames \in 0 .. MaxFrames
    /\ stdin \in 0 .. StdinSize
    /\ frames >= encoded + stdin
    /\ encoder \in {"running", "dead"}
    /\ pending \in Pieces /\ stdout \in Pieces /\ buf \in Pieces /\ nal \in Pieces
    /\ Len(stdout) <= StdoutSize
    /\ sender \in {"read", "split", "send", "flush", "ended"}
    /\ sender \in {"send", "flush"} => nal # <<>>
    /\ Len(sock) <= SockSize
    /\ open \in BOOLEAN
    /\ receiver \in {"alive", "done", "gone"}

\* However the stream was cut into reads, each packet is one whole NAL unit, in
\* order and none left out; only what is flushed after ffmpeg has died may be
\* the beginning of one, or have the half of a start code behind it.
Sent == received \o sock
PacketsAreNals ==
    \A i \in DOMAIN Sent :
        \/ Sent[i] = Nal(i)
        \/ /\ i = Len(Sent) /\ encoder = "dead"
           /\ Len(Sent[i]) <= NalLen + 1
           /\ Sent[i] = SubSeq(Nal(i) \o Nal(i + 1), 1, Len(Sent[i]))

\* While there is a receiver, the writer of frames never waits for ever: the
\* two pipes of ffmpeg, both full, do not stop each other.
WriterGoesOn == main = "write" ~> main # "write" \/ receiver # "alive"

-----------------------------------------------------------------------------
(* What the comments say and the code does not do                          *)

\* "runs in its own thread to avoid read/write deadlock"
\* (phoenix_streamer.py:134): main never waits for ever in a write.
NoReadWriteDeadlock == main = "write" ~> main # "write"
=============================================================================
