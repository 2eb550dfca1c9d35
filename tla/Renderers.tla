----------------------------- MODULE Renderers -----------------------------
(***************************************************************************)
(* The two programs that want port 9999, each with a protocol of its own,  *)
(* and senders of both.  The senders are external: they send what the      *)
(* protocol of their kind allows, and may end anywhere.                    *)
(***************************************************************************)
EXTENDS GhostServer, PhoenixReceiver

CONSTANTS GhostSender, \* those that send to libcyxv; the others stream packets
          Numbers,     \* numbers one of the first kind tells its pictures apart by
          MaxPackets,  \* packets one of the other kind begins
          Room         \* units a connection holds

ASSUME RenderersAssumption == /\ GhostSender \subseteq Sender
                              /\ {GhostLimit, PacketLimit, QueueSize} \subseteq Nat
                              /\ {WindowSize, MaxPackets, Room} \subseteq Nat
                              /\ Numbers \in Nat \ {0}
                              /\ GhostLimit <= Room /\ QueueSize >= 3

VARIABLES begun,  \* the number of each sender's next picture or packet
          tosend  \* what is left of the one it is sending
vars == <<wire, ghostVars, receiverVars, begun, tosend>>

Init == /\ WireInit /\ GhostInit /\ ReceiverInit
        /\ begun = [s \in Sender |-> 0]
        /\ tosend = [s \in Sender |-> <<>>]

-----------------------------------------------------------------------------
(* Senders                                                                 *)

Piece(h, k) == [of |-> h, at |-> k]
Pieces(h) == [k \in 1 .. IF h.type = "ghost" THEN h.size ELSE 1 |-> Piece(h, k)]

\* Sizes of 0, as the sentinel has, and too large ones have no picture.
GhostHeaders(s) == [type : {"ghost"}, from : {s}, frame : {begun[s]},
                    size : 0 .. GhostLimit + 1]
PacketHeaders(s) == [type : {"phoenix"}, size : 1 .. PacketLimit + 1, fmt : {"h264"}]
                    \cup [type : {"phoenix"}, size : {1}, fmt : {"raw"}]
Headers(s) == IF s \in GhostSender THEN GhostHeaders(s) ELSE PacketHeaders(s)

ServersVars == <<ghostVars, receiverVars>>

\* listen(server_fd, 5) and listen(server, 1).
Connects(s) == /\ Connect(s, IF listener = "ghost" THEN 5 ELSE 1)
               /\ UNCHANGED <<ServersVars, begun, tosend>>

\* One of the first kind may go on for ever.
Begin(s) == /\ tosend[s] = <<>>
            /\ s \in GhostSender \/ begun[s] < MaxPackets
            /\ \E h \in Headers(s) : /\ Sends(s, h, Room)
                                     /\ tosend' = [tosend EXCEPT ![s] = Pieces(h)]
            /\ begun' = [begun EXCEPT ![s] = IF s \in GhostSender THEN (@ + 1) % Numbers
                                                              ELSE @ + 1]
            /\ UNCHANGED ServersVars

Continue(s) == /\ tosend[s] # <<>>
               /\ Sends(s, Head(tosend[s]), Room)
               /\ tosend' = [tosend EXCEPT ![s] = Tail(@)]
               /\ UNCHANGED <<ServersVars, begun>>

End(s) == Shuts(s) /\ UNCHANGED <<ServersVars, begun, tosend>>

SenderNext == \E s \in Sender : Connects(s) \/ Begin(s) \/ Continue(s) \/ End(s)

-----------------------------------------------------------------------------
\* A sender's program ends with its connection.
SendersFollow ==
    /\ begun' = [s \in Sender |-> IF conn'[s] = "over" THEN 0 ELSE begun[s]]
    /\ tosend' = [s \in Sender |-> IF conn'[s] = "over" THEN <<>> ELSE tosend[s]]
IgniteStep == Ignite /\ UNCHANGED receiverVars /\ SendersFollow
GhostStep == GhostNext /\ UNCHANGED receiverVars /\ SendersFollow
\* There is no display to open once the X server has exited, which it does only
\* while it has the port, so before the receiver comes to its display.
ReceiverStep == /\ IF receiver = "display" /\ ghost = "exited" THEN NoDisplay ELSE ReceiverNext
                /\ UNCHANGED ghostVars /\ SendersFollow
ReceiverBreaks == (NoDisplay \/ ErrorEnds) /\ UNCHANGED ghostVars /\ SendersFollow
XServerStep == ServeRequest /\ UNCHANGED ghostVars /\ SendersFollow
WindowStep == (ManagerActs \/ Covered) /\ UNCHANGED ghostVars /\ SendersFollow

Next == SenderNext \/ IgniteStep \/ GhostStep \/ ReceiverStep \/ ReceiverBreaks
        \/ XServerStep \/ WindowStep

\* The programs and the X server go on while they can; senders and the window
\* manager need not.
Spec == /\ Init /\ [][Next]_vars
        /\ WF_vars(GhostStep) /\ WF_vars(ReceiverStep) /\ WF_vars(XServerStep)

-----------------------------------------------------------------------------
TypeOK ==
    /\ listener \in {"none", "ghost", "receiver"}
    /\ listener = "ghost" <=> ghost \notin {"none", "bind", "ended", "exited"}
    /\ listener = "receiver" <=> receiver \notin {"bind", "deaf", "ended"}
    /\ \A s \in Sender : /\ conn[s] = "open" <=> s \in client \cup peer
                         /\ conn[s] = "waiting" <=> \E i \in DOMAIN backlog : backlog[i] = s
                         /\ Len(stream[s]) <= Room
    /\ engine <=> ghost # "none"
    /\ header.size \in 0 .. GhostLimit
    /\ ghost \in {"pixels", "draw"} => header.size \in 1 .. Len(pixels)
    /\ Len(requests) <= QueueSize
    /\ receiver \in {"copy", "put"} => /\ sws = rgb.size /\ Len(memory[seg]) = rgb.size
                                       /\ copied <= rgb.size

\* A picture libcyxv draws is one that its sender sent, whole: no piece of an
\* earlier picture of the buffer, none that the end of the stream cut off.
GhostFramesAreWhole ==
    window # <<>> => LET h == window[1].of
                     IN  h.type = "ghost" /\ window = Pieces(h)

\* Who waits for libcyxv does not wait for ever, unless the connection of one
\* before stays open for ever: one connection is handled at a time
\* (libcyxv.c:141-143), and a sender may stream on, or fall silent.
Occupied == client # {} /\ client \cap shut = {}
WaitersAreServed ==
    []<>~Occupied => \A s \in Sender : []<>~(conn[s] = "waiting" /\ listener = "ghost")

\* A sender that finds the other program on the port does not stay with it once
\* its first header has come in, on either side.
Foreign(s) == \/ s \in client \ GhostSender /\ begun[s] > 0
              \/ s \in peer \cap GhostSender /\ HasSent(s, HeaderUnits(s))
ForeignersAreTurnedAway == \A s \in Sender : []<>~Foreign(s)

\* What the receiver's window shows is, row by row, the picture asked for or a
\* later one that was copied over it; and once the X server has caught up, the
\* last one decoded, whole, though window and segments change size and segments
\* may be removed before it knew them (phoenix_receiver.c:189-222).  Excepted is
\* what the program has no say in and asks no event of: a window covered since,
\* and one whose manager had yet to map or resize it.
ScreenIsCurrent == ~disturbed =>
    /\ \A k \in DOMAIN screen.rows : /\ screen.rows[k].at = k
                                     /\ screen.rows[k].picture >= screen.picture
    /\ requests = <<>> /\ receiver \in {"header", "packet", "decode"} /\ rgb.picture > 0 =>
          screen.rows = Rows(rgb.picture, rgb.size)

\* Changes of size do not pile up shared memory: beside the receiver's segment
\* the X server keeps at most one alive, and none when it has caught up.
SegmentsReleased ==
    /\ Cardinality(mapped \ {seg}) <= 1
    /\ requests = <<>> => mapped \subseteq {seg}
=============================================================================
