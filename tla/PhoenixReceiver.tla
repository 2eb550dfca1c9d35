-------------------------- MODULE PhoenixReceiver --------------------------
(***************************************************************************)
(* phoenix_receiver.c: one sender's packets, decoded into pictures, and    *)
(* each picture copied into a shared-memory segment for the X server to    *)
(* show.  The server (external) takes the requests in order and in its own *)
(* time, and no completion event is asked for.  A window manager may act   *)
(* in the server's stead, later still, on what is asked of the window; and *)
(* what other windows cover is lost, as no Expose event is asked for.      *)
(*                                                                         *)
(* Segments and pictures are numbered.  A segment is destroyed by IPC_RMID *)
(* once nobody has it attached; the receiver removes all but the last.     *)
(***************************************************************************)
EXTENDS Wire, FiniteSets

CONSTANTS PacketLimit, \* MAX_PACKET
          QueueSize,   \* requests that fit on the way to the X server
          WindowSize   \* of the window as it is created, 800 by 600

VARIABLES receiver, \* where main() is
          peer,     \* the sender it accepted, a set of at most one
          packet,   \* the header it has read
          held,     \* packets the decoder may still give a picture for
          sws,      \* the size sws_scale converts
          rgb,      \* the picture in rgb_buffer
          last,     \* last_w and last_h
          seg,      \* the segment of img, 0 if there is none
          copied,   \* rows of the picture copied so far
          requests, \* to the X server, not taken yet
          mapped,   \* segments the X server has attached
          memory,   \* what each segment holds
          screen,   \* the picture asked for and the rows shown
          failed,   \* the X server has sent an error
          win,      \* the window: whether it is mapped, and its size
          managed,  \* a window manager redirects what is asked of windows
          todo,     \* what it has been asked and not done
          disturbed \* since the last picture, or as it was put, the window
                    \* was covered, or its manager was still to act
local == <<receiver, peer, packet, held, sws, rgb, last, seg, copied>>
display == <<win, managed, todo, disturbed>>
xserver == <<mapped, screen, failed, display>>
receiverVars == <<local, requests, memory, xserver>>

Row(n, k) == [picture |-> n, at |-> k]
Rows(n, size) == [k \in 1 .. size |-> Row(n, k)]

NoPacket == [type |-> "none", size |-> 0]
NoPicture == [picture |-> 0, size |-> 0]
Blank == [picture |-> 0, rows |-> <<>>]
NoWindow == [mapped |-> FALSE, size |-> 0]

ReceiverInit == /\ receiver = "bind"
                /\ peer = {}
                /\ packet = NoPacket
                /\ held = 0
                /\ sws = 0
                /\ rgb = NoPicture
                /\ last = 0
                /\ seg = 0
                /\ copied = 0
                /\ requests = <<>>
                /\ mapped = {}
                /\ memory = <<>>
                /\ screen = Blank
                /\ failed = FALSE
                /\ win = NoWindow /\ managed = FALSE /\ todo = <<>>
                /\ disturbed = FALSE

-----------------------------------------------------------------------------
ReceiverBinds == /\ receiver = "bind"
                 /\ Listens("receiver")
                 /\ receiver' = "accept"
                 /\ UNCHANGED <<backlog, conn, stream, shut, peer, packet, held, sws, rgb, last,
                                seg, copied, requests, memory, xserver>>

\* The result of bind is not looked at: listen takes a port of its own, and
\* accept waits where nobody connects.
ReceiverBindFails == /\ receiver = "bind"
                     /\ listener # "none"
                     /\ receiver' = "deaf"
                     /\ UNCHANGED <<wire, peer, packet, held, sws, rgb, last, seg, copied,
                                    requests, memory, xserver>>

ReceiverAccepts == /\ receiver = "accept"
                   /\ \E s \in Sender : Accepts(s) /\ peer' = {s}
                   /\ receiver' = "display"
                   /\ UNCHANGED <<listener, stream, shut, packet, held, sws, rgb, last, seg,
                                  copied, requests, memory, xserver>>

\* XOpenDisplay, XCreateSimpleWindow and XMapWindow.  The server takes these
\* before any other request, so they are taken here; but a window manager maps
\* the window when it comes to it.
OpenWindow == /\ receiver = "display"
              /\ receiver' = "header"
              /\ managed' \in BOOLEAN
              /\ win' = [mapped |-> ~managed', size |-> WindowSize]
              /\ todo' = IF managed' THEN <<[type |-> "map", size |-> WindowSize]>> ELSE <<>>
              /\ UNCHANGED <<wire, peer, packet, held, sws, rgb, last, seg, copied, requests,
                             memory, mapped, screen, failed, disturbed>>

\* What main() checks of a header before it reads the packet: the magic number,
\* which a picture of the other protocol does not begin with, and the size.
Acceptable(h) == h.type = "phoenix" /\ h.size <= PacketLimit

\* It reads five words, and the other protocol's header has three.
HeaderUnits(s) == IF stream[s] # <<>> /\ stream[s][1].type = "ghost" THEN 2 ELSE 1

ReadPacketHeader == /\ receiver = "header"
                    /\ \E s \in peer : /\ HasSent(s, HeaderUnits(s))
                                       /\ Acceptable(stream[s][1])
                                       /\ packet' = stream[s][1]
                                       /\ Takes(s, 1)
                    /\ receiver' = "packet"
                    /\ UNCHANGED <<listener, backlog, conn, shut, peer, held, sws, rgb, last, seg,
                                   copied, requests, memory, xserver>>

\* Another format is skipped.
ReadPacket == /\ receiver = "packet"
              /\ \E s \in peer : HasSent(s, 1) /\ Takes(s, 1)
              /\ receiver' = IF packet.fmt = "h264" THEN "decode" ELSE "header"
              /\ held' = IF packet.fmt = "h264" THEN held + 1 ELSE held
              /\ UNCHANGED <<listener, backlog, conn, shut, peer, packet, sws, rgb, last, seg,
                             copied, requests, memory, xserver>>

\* libavcodec refuses the packet, or has no picture yet or no more.
NotDecoded == /\ receiver = "decode"
              /\ receiver' = "header"
              /\ UNCHANGED <<wire, peer, packet, held, sws, rgb, last, seg, copied, requests,
                             memory, xserver>>

\* A picture of the size the stream has now, which a header does not decide.
Picture == /\ receiver = "decode"
           /\ held > 0 /\ held' = held - 1
           /\ rgb' = [picture |-> rgb.picture + 1, size |-> packet.size]
           /\ sws' = IF sws = 0 \/ rgb'.size # last THEN rgb'.size ELSE sws
           /\ copied' = 0
           /\ receiver' = IF rgb'.size # last THEN "resize" ELSE "copy"
           /\ UNCHANGED <<wire, peer, packet, last, seg, requests, memory, xserver>>

\* The window is resized, the old segment detached and removed, whether the
\* server has taken the requests about it or not, and a new one made and
\* attached.
Detaches(g) == IF g = 0 THEN <<>> ELSE <<[type |-> "detach", seg |-> g]>>
ResizeRequest(g, n) == [type |-> "resize", seg |-> g, size |-> n]
Remade(asked) ==
    /\ receiver = "resize"
    /\ Len(requests) + 3 <= QueueSize
    /\ seg' = seg + 1
    /\ requests' = requests \o asked \o <<[type |-> "attach", seg |-> seg']>>
    /\ memory' = Append(memory, Rows(0, rgb.size))
    /\ last' = rgb.size
    /\ receiver' = "copy"
    /\ UNCHANGED <<wire, peer, packet, held, sws, rgb, copied, xserver>>
\* Mutants: without XShmDetach; without XResizeWindow.
MutKept == Remade(<<ResizeRequest(seg + 1, rgb.size)>>)
MutUnsized == Remade(Detaches(seg))
Resize == Remade(<<ResizeRequest(seg + 1, rgb.size)>> \o Detaches(seg))

CopyRow == /\ receiver = "copy"
           /\ copied' = copied + 1
           /\ memory' = [memory EXCEPT ![seg][copied'] = Row(rgb.picture, copied')]
           /\ receiver' = IF copied' = rgb.size THEN "put" ELSE "copy"
           /\ UNCHANGED <<wire, peer, packet, held, sws, rgb, last, seg, requests, xserver>>

\* XShmPutImage and XFlush, and back to the decoder for another picture.
Put == /\ receiver = "put"
       /\ Len(requests) < QueueSize
       /\ requests' = Append(requests, [type |-> "put", seg |-> seg, picture |-> rgb.picture])
       /\ receiver' = "decode"
       /\ UNCHANGED <<wire, peer, packet, held, sws, rgb, last, seg, copied, memory, xserver>>

\* main() returns, or never had a display.  The window goes with its client, so
\* requests not taken yet show nothing; the segment is not removed.
Ends == /\ receiver' = "ended"
        /\ StopsListening(peer)
        /\ peer' = {} /\ packet' = NoPacket /\ held' = 0
        /\ sws' = 0 /\ rgb' = NoPicture /\ last' = 0 /\ seg' = 0 /\ copied' = 0
        /\ requests' = <<>> /\ mapped' = {} /\ memory' = <<>>
        /\ screen' = Blank /\ failed' = FALSE
        /\ win' = NoWindow /\ managed' = FALSE /\ todo' = <<>> /\ disturbed' = FALSE

PeerEnds == /\ \E s \in peer :
                  \/ receiver = "header" /\ AtEnd(s, HeaderUnits(s))
                  \/ receiver = "packet" /\ AtEnd(s, 1)
                  \/ /\ receiver = "header" /\ HasSent(s, HeaderUnits(s))
                     /\ ~Acceptable(stream[s][1])
            /\ Ends

NoDisplay == receiver = "display" /\ Ends

\* The handler of Xlib ends the program once an error is read, which Xlib does
\* when it sends requests.
ErrorEnds == failed /\ receiver \in {"resize", "put"} /\ Ends

-----------------------------------------------------------------------------
(* The X server, the window manager and other windows                      *)

\* A change of size loses what the window shows (its bit gravity is Forget).
GivenSize(n) == /\ win' = [win EXCEPT !.size = n]
                /\ screen' = IF n = win.size THEN screen ELSE Blank

\* A picture drawn into the window: what does not fit is cut off, what is not
\* drawn over stays.
Drawn(rows, old, size) ==
    LET m == IF Len(rows) < size THEN Len(rows) ELSE size
    IN  [k \in 1 .. IF m < Len(old) THEN Len(old) ELSE m |-> IF k <= m THEN rows[k] ELSE old[k]]

\* A segment removed before the server came to attach it is gone; the requests
\* about it that follow fail too.  A window that is not mapped shows nothing.
Serves(r) ==
    \/ /\ r.type = "resize"
       /\ IF managed THEN /\ todo' = Append(todo, [type |-> "resize", size |-> r.size])
                          /\ UNCHANGED <<win, screen>>
                     ELSE GivenSize(r.size) /\ UNCHANGED todo
       /\ UNCHANGED <<mapped, failed, disturbed>>
    \/ /\ r.type = "attach"
       /\ mapped' = IF r.seg = seg THEN mapped \cup {r.seg} ELSE mapped
       /\ failed' = (failed \/ r.seg # seg)
       /\ UNCHANGED <<screen, win, todo, disturbed>>
    \/ /\ r.type = "detach"
       /\ mapped' = mapped \ {r.seg}
       /\ failed' = (failed \/ r.seg \notin mapped)
       /\ UNCHANGED <<screen, win, todo, disturbed>>
    \/ /\ r.type = "put" /\ r.seg \notin mapped
       /\ failed' = TRUE
       /\ UNCHANGED <<mapped, screen, win, todo, disturbed>>
    \/ /\ r.type = "put" /\ r.seg \in mapped
       /\ screen' = IF win.mapped
                    THEN [picture |-> r.picture,
                          rows |-> Drawn(memory[r.seg], screen.rows, win.size)]
                    ELSE screen
       /\ disturbed' = (todo # <<>>)
       /\ UNCHANGED <<mapped, failed, win, todo>>

ServeRequest == /\ requests # <<>>
                /\ Serves(Head(requests))
                /\ requests' = Tail(requests)
                /\ UNCHANGED <<wire, local, memory, managed>>

\* The window manager maps the window, or gives it the size asked for.  One that
\* gives it another is not modelled.
ManagerActs == /\ todo # <<>>
               /\ todo' = Tail(todo)
               /\ win' = [mapped |-> TRUE, size |-> Head(todo).size]
               /\ screen' = IF win' = win THEN screen ELSE Blank
               /\ disturbed' = TRUE
               /\ UNCHANGED <<wire, local, requests, memory, mapped, failed, managed>>

Covered == /\ screen.rows # <<>>
           /\ screen' = Blank
           /\ disturbed' = TRUE
           /\ UNCHANGED <<wire, local, requests, memory, mapped, failed, win, managed, todo>>

ReceiverNext == \/ ReceiverBinds \/ ReceiverBindFails \/ ReceiverAccepts \/ OpenWindow
                \/ ReadPacketHeader \/ ReadPacket \/ NotDecoded \/ Picture
                \/ Resize \/ CopyRow \/ Put \/ PeerEnds
=============================================================================
