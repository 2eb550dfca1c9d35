---------------------------- MODULE CapturePipe ----------------------------
(***************************************************************************)
(* dxgi_capture.exe writes frames into a pipe, phoenix_streamer.py reads   *)
(* them: start_dxgi_capture and read_dxgi_frame.                           *)
(*                                                                         *)
(* The pipe carries units: a frame is its width, its height, which the     *)
(* capture writes one after the other, and FrameLen rows.  The streamer    *)
(* opened it unbuffered, so a read takes what is there, up to what it asks *)
(* for; the loop of the body reads on, the two reads of a header do not.   *)
(***************************************************************************)
EXTENDS Naturals, Sequences

CONSTANTS FrameLen,  \* rows of a frame
          PipeSize,  \* units the pipe holds
          MaxFrames  \* frames after which the screen is still

PipeAssumption == {FrameLen, PipeSize, MaxFrames} \subseteq Nat \ {0}

VARIABLES capture,   \* "starting", "waiting" for a frame, "writing" it, or "gone"
          frame,     \* number of the frame being written, or written last
          unit,      \* the unit of it that is written next
          pipe,
          reader,    \* "first", "body", "header"; at the end "refused" or "stopped"
          got,       \* the part of the body read so far
          delivered, \* history: how many have been
          aligned    \* history: no header was read in part
streamer == <<reader, got, delivered, aligned>>
vars == <<capture, frame, unit, pipe, streamer>>

Unit(f, k) == [frame |-> f, at |-> k]
Header(f) == <<Unit(f, 1), Unit(f, 2)>>
Body(f) == [k \in 1 .. FrameLen |-> Unit(f, k + 2)]
Ended == reader \in {"refused", "stopped"}
Smaller(m, n) == IF m < n THEN m ELSE n

Init == /\ capture = "starting"
        /\ frame = 0
        /\ unit = 1
        /\ pipe = <<>>
        /\ reader = "first"
        /\ got = <<>>
        /\ delivered = 0
        /\ aligned = TRUE

-----------------------------------------------------------------------------
(* dxgi_capture.cpp.  A timeout of AcquireNextFrame, a duplication made     *)
(* anew and a failed Map go round the loop and change nothing here.        *)

\* The device, the duplication and the texture; a call that fails ends it.
SetUp == /\ capture = "starting"
         /\ capture' = "waiting"
         /\ UNCHANGED <<frame, unit, pipe, streamer>>

Acquire == /\ capture = "waiting"
           /\ frame < MaxFrames
           /\ capture' = "writing"
           /\ frame' = frame + 1
           /\ unit' = 1
           /\ UNCHANGED <<pipe, streamer>>

MutWriteUnit == /\ capture = "writing" /\ ~Ended \* mutant: the height is not sent
                /\ Len(pipe) < PipeSize
                /\ pipe' = Append(pipe, Unit(frame, unit))
                /\ unit' = IF unit = 1 THEN 3 ELSE unit + 1
                /\ capture' = IF unit = 2 + FrameLen THEN "waiting" ELSE capture
                /\ UNCHANGED <<frame, streamer>>
WriteUnit == /\ capture = "writing" /\ ~Ended
             /\ Len(pipe) < PipeSize
             /\ pipe' = Append(pipe, Unit(frame, unit))
             /\ unit' = unit + 1
             /\ capture' = IF unit = 2 + FrameLen THEN "waiting" ELSE capture
             /\ UNCHANGED <<frame, streamer>>

\* The write end of a pipe whose reader has exited or terminates the capture.
WriteFails == /\ capture = "writing" /\ Ended
              /\ capture' = "gone"
              /\ UNCHANGED <<frame, unit, pipe, streamer>>

\* die in the set-up or when the duplication cannot be made again, or Ctrl-C,
\* which reaches both processes: anywhere in a frame.
CaptureEnds == /\ capture # "gone"
               /\ capture' = "gone"
               /\ UNCHANGED <<frame, unit, pipe, streamer>>

-----------------------------------------------------------------------------
(* phoenix_streamer.py                                                     *)

\* One unbuffered read of up to n units.
Chunk(n) == SubSeq(pipe, 1, Smaller(n, Len(pipe)))
Consume(chunk) == pipe' = SubSeq(pipe, Len(chunk) + 1, Len(pipe))
AtEof == pipe = <<>> /\ capture = "gone"

\* start_dxgi_capture; a short answer is taken for no answer.
ReadFirst == /\ reader = "first"
             /\ pipe # <<>> \/ AtEof
             /\ Consume(Chunk(2))
             /\ reader' = IF Len(Chunk(2)) < 2 THEN "refused" ELSE "body"
             /\ UNCHANGED <<capture, frame, unit, got, delivered, aligned>>

\* Ctrl-C in there: the program ends, and the capture is not terminated.
GivesUp == /\ reader = "first"
           /\ reader' = "stopped"
           /\ UNCHANGED <<capture, frame, unit, pipe, got, delivered, aligned>>

MutReadBody == /\ reader = "body" \* mutant: waits for all the rows
               /\ Len(pipe) >= FrameLen - Len(got)
               /\ LET chunk == Chunk(FrameLen - Len(got))
                  IN  /\ Consume(chunk)
                      /\ got' = got \o chunk
               /\ reader' = IF Len(got') = FrameLen THEN "header" ELSE reader
               /\ UNCHANGED <<capture, frame, unit, delivered, aligned>>
ReadBody == /\ reader = "body"
            /\ pipe # <<>>
            /\ LET chunk == Chunk(FrameLen - Len(got))
               IN  /\ Consume(chunk)
                   /\ got' = got \o chunk
            /\ reader' = IF Len(got') = FrameLen THEN "header" ELSE reader
            /\ UNCHANGED <<capture, frame, unit, delivered, aligned>>

BodyEof == /\ reader = "body"
           /\ AtEof
           /\ reader' = "stopped"
           /\ UNCHANGED <<capture, frame, unit, pipe, got, delivered, aligned>>

\* Two units that are not a header may happen to have the values of one.
Differs(hdr) == Len(hdr) = 2 /\ [i \in {1, 2} |-> hdr[i].at] # <<1, 2>>

\* The read of the next header: a frame is returned when it is there.
Deliver == /\ reader = "header"
           /\ pipe # <<>> \/ AtEof
           /\ Consume(Chunk(2))
           /\ delivered' = delivered + 1
           /\ got' = <<>>
           /\ reader' = "body"
           /\ aligned' = (aligned /\ Len(Chunk(2)) # 1)
           /\ UNCHANGED <<capture, frame, unit>>

SizeChanged == /\ reader = "header"
               /\ Differs(Chunk(2))
               /\ Consume(Chunk(2))
               /\ reader' = "stopped"
               /\ UNCHANGED <<capture, frame, unit, got, delivered, aligned>>

Writes == SetUp \/ WriteUnit \/ WriteFails
Reads == ReadFirst \/ ReadBody \/ BodyEof \/ SizeChanged

-----------------------------------------------------------------------------
Units == [frame : 1 .. MaxFrames, at : 1 .. FrameLen + 2]
TypeOK == /\ capture \in {"starting", "waiting", "writing", "gone"}
          /\ frame \in 0 .. MaxFrames
          /\ unit \in 1 .. FrameLen + 3
          /\ pipe \in Seq(Units) /\ Len(pipe) <= PipeSize
          /\ reader \in {"first", "body", "header", "refused", "stopped"}
          /\ got \in Seq(Units)
          /\ reader = "header" => Len(got) = FrameLen
          /\ delivered \in Nat
          /\ aligned \in BOOLEAN

\* However the rows of a frame were cut into reads, the n-th frame delivered is
\* the n-th frame captured, as long as every header was read in one piece.
AlignedFramesAreWhole ==
    aligned /\ reader = "header" => got = Body(delivered + 1)
=============================================================================
