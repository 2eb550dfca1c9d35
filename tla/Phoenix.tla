------------------------------ MODULE Phoenix ------------------------------
(***************************************************************************)
(* The Phoenix pipeline: dxgi_capture.exe, the pipe from it that main() of *)
(* phoenix_streamer.py reads (CapturePipe), and from main() on to ffmpeg,  *)
(* the sender thread and the receiver (PhoenixStream).                     *)
(*                                                                         *)
(* The two meet in main(): it reads the pipe only between two writes to    *)
(* ffmpeg, and when it ends, it ends the capture too.                      *)
(***************************************************************************)
EXTENDS Naturals, Sequences

CONSTANTS FrameLen, PipeSize, MaxFrames, NalLen, StdinSize, StdoutSize, SockSize

VARIABLES capture, frame, unit, pipe, reader, got, delivered, aligned,
          main, frames, stdin, encoder, encoded, pending, stdout,
          sender, buf, nal, sock, open, receiver, received

C == INSTANCE CapturePipe
\* Cut headers make more frames of the same units.
S == INSTANCE PhoenixStream WITH MaxFrames <- 2 * MaxFrames

ASSUME PhoenixAssumption == C!PipeAssumption /\ S!StreamAssumption

captureVars == <<capture, frame, unit, pipe, reader, got, delivered, aligned>>
streamVars == <<main, frames, stdin, encoder, encoded, pending, stdout,
                sender, buf, nal, sock, open, receiver, received>>
vars == <<captureVars, streamVars>>

Init == C!Init /\ S!Init

-----------------------------------------------------------------------------
\* dxgi_capture.exe on its own.
Writes == C!Writes /\ UNCHANGED streamVars
Acquires == C!Acquire /\ UNCHANGED streamVars
CaptureEnds == C!CaptureEnds /\ UNCHANGED streamVars

\* read_dxgi_frame, and start_dxgi_capture before it.
Reads == main = "capture" /\ C!Reads /\ UNCHANGED streamVars
GetFrame == C!Deliver /\ S!Capture

\* ffmpeg and nal_sender run.
Started == reader \notin {"first", "refused"}

\* proc.terminate; what the pipe and the unfinished frame hold is lost.
Terminates == /\ capture' = "gone" /\ unit' = 1 /\ pipe' = <<>>
              /\ reader' = "stopped" /\ got' = <<>>
              /\ UNCHANGED <<frame, delivered, aligned>>
\* No header or no further frame: sys.exit in start_dxgi_capture, when ffmpeg
\* is not there yet and the capture goes on, or break in the loop of main().
NoFrame == \/ reader = "refused" /\ S!Quit /\ UNCHANGED captureVars
           \/ reader = "stopped" /\ S!Stop /\ Terminates
WriteFails == S!WriteFails /\ S!Stop /\ Terminates
\* Ctrl-C, outside the try or inside.
Interrupted == \/ C!GivesUp /\ S!Quit
               \/ Started /\ S!Stop /\ Terminates

Main == \/ NoFrame \/ WriteFails
        \/ (S!WriteStdin \/ S!CloseSocket \/ S!Exit) /\ UNCHANGED captureVars
Ffmpeg == S!Ffmpeg /\ UNCHANGED captureVars
Sender == S!Sender /\ UNCHANGED captureVars
Receiver == S!Receiver /\ UNCHANGED captureVars
OthersEnd == ((Started /\ S!EncoderDies) \/ S!ReceiverGone) /\ UNCHANGED captureVars

Next == \/ Acquires \/ Writes \/ CaptureEnds \/ Reads \/ GetFrame
        \/ Main \/ Interrupted \/ Ffmpeg \/ Sender \/ Receiver \/ OthersEnd

\* Every thread and process goes on while it can; nothing makes the screen
\* change, and the death of a process and Ctrl-C need not come.
Spec == /\ Init /\ [][Next]_vars
        /\ WF_vars(Writes) /\ WF_vars(Reads \/ GetFrame) /\ WF_vars(Main)
        /\ WF_vars(Ffmpeg) /\ WF_vars(Sender) /\ WF_vars(Receiver)

-----------------------------------------------------------------------------
TypeOK == C!TypeOK /\ S!TypeOK /\ frames = delivered

AlignedFramesAreWhole == C!AlignedFramesAreWhole
PacketsAreNals == S!PacketsAreNals
WriterGoesOn == S!WriterGoesOn

\* From end to end: a frame is with the receiver once the second after it has
\* been begun (the next one's header lets it out of read_dxgi_frame, the start
\* code of the next one's unit out of nal_sender), though any link may be full,
\* unless one of the programs ends or a header was cut; and when the capture
\* ends, the program does.
FramesArrive ==
    /\ \A f \in 1 .. MaxFrames - 2 :
          frame = f + 2 ~> \/ Len(received) >= f
                           \/ capture = "gone" \/ encoder = "dead" \/ receiver # "alive"
                           \/ ~aligned
    /\ capture = "gone" ~> main = "exited" \/ receiver # "alive"
=============================================================================
